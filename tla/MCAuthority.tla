------------------------------ MODULE MCAuthority ------------------------------
(***************************************************************************)
(* Two passkeys, two sites, two chains whose factories have the same       *)
(* address and different policies, and two wallets.                        *)
(***************************************************************************)
EXTENDS AuthorityProperties

CONSTANTS k1, k2, game, shop, w1, w2

VeraKey == <<"https://verakey.app">>
MCOrigin == <<VeraKey>>
Port == <<VeraKey, <<":8443">>>>   \* the same relying party, another origin
Shop == <<<<"https://shop.example">>>>

MCPolicy == [one |-> "large", two |-> "small"]

Payment(payee, total) == [payee |-> payee, total |-> total]

MCDoings == {[kind |-> "PAY", payee |-> "shop", total |-> 12500000], [kind |-> "CHANGE", payee |-> "none", total |-> 0]}

Top == [origin |-> MCOrigin, topOrigin |-> MCOrigin, top |-> TRUE, verified |-> TRUE, extensions |-> FALSE,
        sheet |-> NoSheet, tail |-> <<<<"}">>>>]
Other == <<",", "other">>
CrossOriginFalse == <<",", "crossOrigin:false">>

\* Pages of VeraKey, in browsers that append nothing, crossOrigin, or more.
Pages == {Top, [Top EXCEPT !.tail = <<CrossOriginFalse, Other, CLOSE>>]}
\* What else a page of the same relying party can have signed.
Elsewhere == {
  [Top EXCEPT !.origin = Port],
  [Top EXCEPT !.top = FALSE, !.tail = <<CROSS_ORIGIN_TRUE, Other, CLOSE>>],
  [Top EXCEPT !.verified = FALSE],
  [Top EXCEPT !.extensions = TRUE],
  [Top EXCEPT !.tail = [i \in 1 .. 24 |-> Other] \o <<CLOSE>>]}
\* Payment sheets: SPC shows them on pages of other sites too.
Sheets == {
  [Top EXCEPT !.sheet = Payment("shop", 12500000), !.tail = <<SPC_LOGOS>>],
  [Top EXCEPT !.sheet = Payment("shop", 12000000), !.tail = <<>>],
  [Top EXCEPT !.sheet = Payment("friend", 12500000), !.tail = <<>>],
  [Top EXCEPT !.sheet = Payment("shop", 12500000), !.tail = <<>>, !.origin = Shop, !.topOrigin = Shop],
  [Top EXCEPT !.sheet = Payment("shop", 12500000), !.tail = <<>>, !.top = FALSE, !.topOrigin = Shop]}

MCCeremonies == Pages \union Elsewhere \union Sheets

Alike == Permutations(Keys) \union Permutations(Apps) \union Permutations(Wallets)
=============================================================================
