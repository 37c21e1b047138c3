----------------------------- MODULE MCSessions -----------------------------
(***************************************************************************)
(* A nonce presented to two processes of a site, and the session it starts *)
(* read and signed out while its passkey is removed.                       *)
(***************************************************************************)
EXTENDS SiteKitRefinement, TLC

CONSTANTS p1, p2, alice, n1, i1, i2, o1, g1, g2

SignIn(p) == [kind |-> "signIn", process |-> p, player |-> alice, nonce |-> n1]
At(kind, p, s) == [kind |-> kind, process |-> p, player |-> alice, session |-> s]

MCJob ==
  i1 :> SignIn(p1) @@ i2 :> SignIn(p2) @@
  o1 :> At("signOut", p2, i1) @@ g1 :> At("read", p1, i1) @@ g2 :> At("read", p1, i1)
MCPayer == <<>>
\* Two requests that ask the same of the same process.
Alike == Permutations({g1, g2})
=============================================================================
