------------------------- MODULE RelayerRefinement -------------------------
(***************************************************************************)
(* The faucet implements AcceptOnce: an account's grant is taken by one    *)
(* request, and used when its transaction leaves.                          *)
(***************************************************************************)
EXTENDS RelayerProperties

GrantSent(a) == \E r \in Requests : SentGrant(r) /\ Account(r) = a
GrantTakers(a) == {r \in Requests : HoldsGrant(r) /\ Account(r) = a}

\* Lost where the process lost sight of a transaction of the account.
GrantState(a) ==
  IF a \in doubtful THEN [at |-> "lost"]
  ELSE IF GrantSent(a) THEN [at |-> "used"]
  ELSE IF GrantTakers(a) # {} THEN [at |-> "held", by |-> CHOOSE r \in GrantTakers(a) : TRUE]
  ELSE [at |-> "open"]

Grant == INSTANCE AcceptOnce WITH
  Things <- Accounts, Takers <- Requests, UsedAtStart <- {}, Returnable <- Accounts, Forgettable <- Accounts,
  state <- [a \in Accounts |-> GrantState(a)]

\* Every step of the relayer is a step of AcceptOnce for each account's demo
\* grant: one request at a time is at it, it is sent by a request that took it,
\* and once sent it is never taken again, through failures, restarts and
\* concurrent requests, unless the process lost sight of a transaction of the
\* account (relayer.ts, "once per account").
GrantsImplementOnce == Grant!Spec
=============================================================================
