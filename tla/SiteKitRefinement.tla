------------------------- MODULE SiteKitRefinement -------------------------
(***************************************************************************)
(* The kit implements AcceptOnce twice: a nonce is taken by the sign-in    *)
(* that claims it and used by the session it starts, a payment is taken by *)
(* the request that claims it and used when the site has fulfilled it.     *)
(***************************************************************************)
EXTENDS SiteKitProperties

Started(n) == \E s \in SignIns : Job[s].nonce = n /\ expiry[s] > 0
Verifying(n) == {s \in SignIns : stage[s] \in {"verifying", "onSignIn"} /\ Job[s].nonce = n}

\* Lost where it was claimed for a sign-in that failed or was not answered.
NonceState(n) ==
  IF Started(n) THEN [at |-> "used"]
  ELSE IF Verifying(n) # {} THEN [at |-> "held", by |-> CHOOSE s \in Verifying(n) : TRUE]
  ELSE IF nonceUntil[n] > 0 THEN [at |-> "lost"]
  ELSE [at |-> "open"]

Nonce == INSTANCE AcceptOnce WITH
  Things <- Nonces, Takers <- SignIns, UsedAtStart <- {Job[s].nonce : s \in SignedInAtStart},
  Returnable <- {}, Forgettable <- {},
  state <- [n \in Nonces |-> NonceState(n)]

\* Every step of the kit is a step of AcceptOnce for each nonce: one sign-in at
\* a time is at it, no session starts without having taken it, and once a
\* sign-in took it no other ever does, also after the store has forgotten the
\* claim (server.ts, NONCE_CLAIM_SECONDS).
NoncesImplementOnce == Nonce!Spec

\* Lost where it is claimed for a request that nobody knows the end of.
PaymentState(h) ==
  IF fulfilled[h] > 0 THEN [at |-> "used"]
  ELSE IF Fulfilling(h) # {} THEN [at |-> "held", by |-> CHOOSE r \in Fulfilling(h) : TRUE]
  ELSE IF h \in paymentClaimed THEN [at |-> "lost"]
  ELSE [at |-> "open"]

Accepted == INSTANCE AcceptOnce WITH
  Things <- Payments, Takers <- Requests, UsedAtStart <- {}, Returnable <- Payments, Forgettable <- {},
  state <- [h \in Payments |-> PaymentState(h)]

\* Every step of the kit is a step of AcceptOnce for each payment: one request
\* at a time is at it, on whichever process; it is fulfilled by one that took
\* it, given back when the site cannot, and once fulfilled never taken again
\* (server.ts, POST payment).
PaymentsImplementOnce == Accepted!Spec
=============================================================================
