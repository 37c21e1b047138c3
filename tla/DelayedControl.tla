---------------------------- MODULE DelayedControl ----------------------------
(***************************************************************************)
(* What the account's timelock, guardian and recovery promise, without     *)
(* slots, ids, epochs, approvals or spending: who controls an account      *)
(* changes only by a plan that everybody could see for its whole delay.    *)
(* VeraKeyAccount implements it (module AccountRefinement).                *)
(***************************************************************************)
EXTENDS Naturals

CONSTANTS Changes, Nullifiers, FirstOwner, NoGuardian, ChangeDelay, RecoveryDelay

VARIABLES
  time,
  members,    \* the nullifiers that own the account
  guardian,
  halted,     \* no payment is made
  plans,      \* the changes that wait, and when each is due
  takeover    \* the recovery that waits, if any

vars == <<time, members, guardian, halted, plans, takeover>>

Delay(c) == ChangeDelay + IF c.kind = "SET_GUARDIAN" THEN RecoveryDelay ELSE 0

Init ==
  /\ time = 1 /\ members = {FirstOwner} /\ guardian = NoGuardian /\ halted = FALSE
  /\ plans = {} /\ takeover = {}

Plan(c) ==
  /\ \A p \in plans : p.change # c
  /\ plans' = plans \union {[change |-> c, due |-> time + Delay(c)]}
  /\ UNCHANGED <<time, members, guardian, halted, takeover>>

Withdraw(p) ==
  /\ plans' = plans \ {p}
  /\ UNCHANGED <<time, members, guardian, halted, takeover>>

Effect(c) ==
  /\ members' = CASE c.kind = "ADD_OWNER" -> members \union {c.nullifier}
                  [] c.kind = "REMOVE_OWNER" -> members \ {c.nullifier}
                  [] OTHER -> members
  /\ guardian' = IF c.kind = "SET_GUARDIAN" THEN c.commitment ELSE guardian
  /\ takeover' = IF c.kind = "SET_GUARDIAN" THEN {} ELSE takeover
  /\ halted' = IF c.kind \in {"FREEZE", "UNFREEZE"} THEN c.kind = "FREEZE" ELSE halted

\* A plan takes effect once it is due; somebody always owns the account.
Perform(p) ==
  /\ p.due <= time
  /\ plans' = plans \ {p}
  /\ Effect(p.change)
  /\ members' # {}
  /\ UNCHANGED time

\* A freeze takes effect at once, and withdraws what was planned before it; the
\* guardian's leaves the plans to replace the guardian.
Halt ==
  /\ halted' = TRUE
  /\ plans' \in {{}, {p \in plans : p.change.kind = "SET_GUARDIAN"}}
  /\ UNCHANGED <<time, members, guardian, takeover>>

AnnounceTakeover(n) ==
  /\ guardian # NoGuardian
  /\ takeover' = {[owner |-> n, due |-> time + RecoveryDelay]}
  /\ UNCHANGED <<time, members, guardian, halted, plans>>

CallOff ==
  /\ takeover' = {}
  /\ UNCHANGED <<time, members, guardian, halted, plans>>

TakeOver(t) ==
  /\ t.due <= time
  /\ members' = {t.owner} /\ plans' = {} /\ takeover' = {}
  /\ UNCHANGED <<time, guardian, halted>>

Pass == time' = time + 1 /\ UNCHANGED <<members, guardian, halted, plans, takeover>>

Next ==
  \/ \E c \in Changes : Plan(c)
  \/ \E p \in plans : Withdraw(p) \/ Perform(p)
  \/ Halt \/ CallOff \/ Pass
  \/ \E n \in Nullifiers : AnnounceTakeover(n)
  \/ \E t \in takeover : TakeOver(t)

Spec == Init /\ [][Next]_vars
=============================================================================
