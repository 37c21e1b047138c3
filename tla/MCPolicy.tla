------------------------------ MODULE MCPolicy ------------------------------
(***************************************************************************)
(* How much may leave the account and to whom: payments and fees against   *)
(* the caps across a change of day, every kind of policy change, at once   *)
(* through restrict or after the timelock, and payees becoming known.  One *)
(* owner and, once scheduled, a guardian who freezes, vetoes and starts a  *)
(* recovery the owner may have to stop with the caps used up.              *)
(***************************************************************************)
EXTENDS AccountProperties

CONSTANTS k1, g1, r1, zero, self

MCChanges ==
  {[kind |-> "SET_LIMITS", per_tx |-> 2, daily |-> 2],
   [kind |-> "SET_LIMITS", per_tx |-> 3, daily |-> 4],
   [kind |-> "SET_LIMITS", per_tx |-> 3, daily |-> 3],
   [kind |-> "SET_LIMITS", per_tx |-> 3, daily |-> 2],    \* per_tx above daily
   [kind |-> "SET_LIMITS", per_tx |-> 1, daily |-> 4],    \* below MaxFee
   [kind |-> "SET_LIMITS", per_tx |-> 2, daily |-> 5],    \* above MAX_U128
   [kind |-> "SET_NEW_PAYEE_CAP", cap |-> 0],
   [kind |-> "SET_NEW_PAYEE_CAP", cap |-> 2],
   [kind |-> "SET_NEW_PAYEE_CAP", cap |-> 5],             \* above MAX_U128
   [kind |-> "SET_RECIPIENT", recipient |-> r1, on |-> TRUE],
   [kind |-> "SET_RECIPIENT", recipient |-> r1, on |-> FALSE],
   [kind |-> "SET_RECIPIENT", recipient |-> zero, on |-> TRUE],
   [kind |-> "SET_ALLOWLIST", on |-> TRUE],
   [kind |-> "SET_ALLOWLIST", on |-> FALSE],
   [kind |-> "SET_PAYMENT_SHEET", on |-> TRUE],
   [kind |-> "SET_PAYMENT_SHEET", on |-> FALSE],
   [kind |-> "SET_GUARDIAN", commitment |-> g1],
   [kind |-> "FREEZE"], [kind |-> "UNFREEZE"]}
=============================================================================
