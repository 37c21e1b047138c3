----------------------------- MODULE MCPayments -----------------------------
(***************************************************************************)
(* One payment presented three times, in two sessions of its player and to *)
(* two processes, whose site may be unable to fulfil it.                   *)
(***************************************************************************)
EXTENDS SiteKitRefinement, TLC

CONSTANTS p1, p2, alice, n1, n2, i1, i2, b1, b2, b3, g1, h1

SignIn(n) == [kind |-> "signIn", process |-> p1, player |-> alice, nonce |-> n]
At(p, s) == [process |-> p, player |-> alice, session |-> s]
Pay(p, s) == [kind |-> "pay", payment |-> h1] @@ At(p, s)

MCJob ==
  i1 :> SignIn(n1) @@ i2 :> SignIn(n2) @@
  b1 :> Pay(p1, i1) @@ b2 :> Pay(p1, i1) @@ b3 :> Pay(p2, i2) @@
  g1 :> ([kind |-> "read"] @@ At(p1, i2))
MCPayer == h1 :> alice
\* Two requests that ask the same of the same process.
Alike == Permutations({b1, b2})
=============================================================================
