----------------------------- MODULE AcceptOnce -----------------------------
(***************************************************************************)
(* What is good for one use: a sign-in's nonce, a payment, a new account's *)
(* demo grant.  A request takes it, and is then alone with it until it has *)
(* made the one use, gives it back, or nobody knows what became of it.     *)
(*                                                                         *)
(* One step of a service may end several requests, so a step is said of    *)
(* each thing.                                                             *)
(***************************************************************************)
CONSTANTS
  Things,
  Takers,       \* the requests that may take one
  UsedAtStart,
  Returnable,   \* things that a request may give back
  Forgettable   \* things whose use may be forgotten

VARIABLE state

Open == [at |-> "open"]
HeldBy(u) == [at |-> "held", by |-> u]
Used == [at |-> "used"]
Lost == [at |-> "lost"]

States == {Open, Used, Lost} \union {HeldBy(u) : u \in Takers}

Take(now, then) == \E u \in Takers : now = Open /\ then = HeldBy(u)
Use(now, then) == \E u \in Takers : now = HeldBy(u) /\ then = Used
GiveBack(x, now, then) == x \in Returnable /\ \E u \in Takers : now = HeldBy(u) /\ then = Open
Lose(x, now, then) == then = Lost /\ (now = Used => x \in Forgettable)

\* One thing goes from now to then.
Step(x, now, then) == Take(now, then) \/ Use(now, then) \/ GiveBack(x, now, then) \/ Lose(x, now, then)

Init == state = [x \in Things |-> IF x \in UsedAtStart THEN Used ELSE Open]

Next == state' \in [Things -> States] /\ \A x \in Things : state[x] = state'[x] \/ Step(x, state[x], state'[x])

Spec == Init /\ [][Next]_state
=============================================================================
