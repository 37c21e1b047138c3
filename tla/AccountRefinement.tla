--------------------------- MODULE AccountRefinement ---------------------------
(***************************************************************************)
(* The account implements DelayedControl.                                  *)
(***************************************************************************)
EXTENDS AccountProperties

PlanOf(id) == [change |-> pending[id].change, due |-> pending[id].eta]

Plans == {PlanOf(id) : id \in DOMAIN pending}

Takeovers == IF recovery.eta = 0 THEN {} ELSE {[owner |-> recovery.nullifier, due |-> recovery.eta]}

Control == INSTANCE DelayedControl WITH
  time <- now, members <- CurrentOwners, guardian <- guardian_commitment, halted <- frozen,
  plans <- Plans, takeover <- Takeovers

\* Every step of the account is a step of DelayedControl or leaves control as
\* it is: no sequence of calls of the owners, the guardian and anyone else
\* changes the owners, the guardian or the freeze except by a plan that waited
\* its delay in the open, a freeze, or a recovery that waited (SECURITY.md 5-10).
ImplementsControl == Control!Spec
=============================================================================
