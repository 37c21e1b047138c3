---------------------------- MODULE MCGovernance ----------------------------
(***************************************************************************)
(* Who controls the account: owners, guardian, recovery, freezing.  No     *)
(* payment is made, so the run can afford time and several changes.        *)
(***************************************************************************)
EXTENDS AccountRefinement

CONSTANTS k1, k2, g1, zero

MCChanges ==
  {[kind |-> "ADD_OWNER", nullifier |-> k2],
   [kind |-> "REMOVE_OWNER", nullifier |-> k1],
   [kind |-> "REMOVE_OWNER", nullifier |-> k2],
   [kind |-> "SET_GUARDIAN", commitment |-> g1],
   [kind |-> "SET_GUARDIAN", commitment |-> NoGuardian],
   [kind |-> "FREEZE"], [kind |-> "UNFREEZE"]}
=============================================================================
