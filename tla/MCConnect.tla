----------------------------- MODULE MCConnect -----------------------------
(***************************************************************************)
(* A page that loads twice, signs in, pays and signs out, with a popup the *)
(* player may close or reload at any time, another action of the account   *)
(* and a lost answer; and one that pays twice, the second payment possibly *)
(* signed for the nonce the first was being sent with.                     *)
(***************************************************************************)
EXTENDS ConnectProperties, TLC

CONSTANTS l1, l2, s1, s2, p1, p2, o1

MCKind ==
  [c \in Calls |-> CASE c \in {l1, l2} -> "load" [] c \in {s1, s2} -> "signIn" [] c \in {p1, p2} -> "pay" [] c = o1 -> "signOut"]
MCVisits ==
  {{l1, s1, p1}, {l1, p1, o1}, {l1, l2, p1}, {l1, l2, s1}, {l1, s1, s2}, {l1, s1, p1, o1}, {l1, p1, p2}}
MCCalm == {{l1, s1, p1, o1}, {l1, p1, p2}}
=============================================================================
