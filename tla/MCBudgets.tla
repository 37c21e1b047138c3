----------------------------- MODULE MCBudgets -----------------------------
(***************************************************************************)
(* What the relayer spends: a new account and its grant, and two grants    *)
(* for another account, with USDG for one of them, over a window of the    *)
(* budgets that ends, an answer or a faucet file that is lost, and a       *)
(* restart.                                                                *)
(***************************************************************************)
EXTENDS RelayerRefinement, TLC

CONSTANTS a1, a2, v1, r1, r2, r3, r4

MCJob ==
  r1 :> [kind |-> "faucet", account |-> a1, visitor |-> v1] @@
  r2 :> [kind |-> "faucet", account |-> a1, visitor |-> v1] @@
  r3 :> [kind |-> "create", account |-> a2, visitor |-> v1] @@
  r4 :> [kind |-> "faucet", account |-> a2, visitor |-> v1]

MCLimit ==
  <<"perIp", v1>> :> 4 @@ <<"perNullifier", a2>> :> 1 @@
  <<"faucetPerIp", v1>> :> 3 @@ <<"accountsPerIp", v1>> :> 1 @@ <<"newAccountsPerDay", "all">> :> 1 @@
  <<"faucetGrantsPerDay", "all">> :> 2 @@ gas :> 1
=============================================================================
