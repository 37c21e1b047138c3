-------------------------- MODULE AuthorityProperties --------------------------
(***************************************************************************)
(* What whoever accepts an assertion may rely on, whatever else the same   *)
(* passkey has signed and wherever it is installed.                        *)
(***************************************************************************)
EXTENDS Authority

Account(c) == [app : Apps, owner : {compute_nullifier(key, app) : key \in Keys, app \in Apps}, policy : {Policy[c]}, nonce : Nat]

\* Accounts are on a chain, with the policy of its factory; nonces are numbers, also the EntryPoint's for wallets.
TypeOK ==
  /\ \A a \in signed : a = [key |-> a.key, about |-> a.about, challenge |-> a.challenge, how |-> a.how]
  /\ \A a \in signed : a.key \in Keys /\ a.how \in Ceremonies
  /\ \A p \in DOMAIN accounts : p = <<p[1], p[2]>> /\ p[1] \in Chains /\ accounts[p] \in Account(p[1])
  /\ DOMAIN configs \subseteq Chains \X Wallets
  /\ \A p \in DOMAIN configs : configs[p].app \in Apps
  /\ op_nonce \in [Chains \X Wallets -> Nat]
  /\ accepted \in Seq(Range(accepted)) /\ \A i \in DOMAIN accepted : accepted[i].a \in signed

\* What is accepted is what its player meant: the same account, chain, nonce, message, site or audience, of the
\* passkey that is taken for its owner.  Challenges of different uses, a message chosen to look like one of them, a
\* nullifier installed by a stranger and an account at the same address elsewhere never make one pass for another.
\* Code: action.rs 56-70, VeraKeyValidator.sol 181-199, signin.ts 88-101, disclosure.ts 57-86.
MadeForThis ==
  \A i \in DOMAIN accepted :
    LET entry == accepted[i] IN
    /\ entry.a.about = entry.what
    /\ \E app \in Apps : compute_nullifier(entry.a.key, app) = entry.owner

\* What is accepted was made on VeraKey's own origin, in no frame of another site, by a verified player: also where
\* another origin of the same relying party begins like VeraKey's, in the payment sheet, and when the text is parsed.
\* Code: client_data.rs 123-204, VeraKeyValidator.sol 297-316, signin.ts 238-244, lib.nr 109-135.
MadeHere ==
  \A i \in DOMAIN accepted :
    LET how == accepted[i].a.how IN how.origin = ORIGIN /\ how.top /\ how.verified

\* A payment confirmed in the browser's sheet pays who, and all of what, the sheet showed.
\* Code: client_data.rs 123-179 and lib.rs 345-350.
ShownIsPaid ==
  \A i \in DOMAIN accepted :
    LET how == accepted[i].a.how IN
    how.sheet # NoSheet => /\ accepted[i].what[1] = "action"
                           /\ accepted[i].what[5].kind = "PAY"
                           /\ accepted[i].what[5].payee = how.sheet.payee
                           /\ accepted[i].what[5].total = how.sheet.total

\* Where and how an assertion was made is what its acceptor takes it for: VeraKey's page, and the sheet it showed.
MadeAsAccepted == MadeHere /\ ShownIsPaid

\* No assertion moves an account or a wallet twice, and of two made for the same nonce only one does.
\* Code: lib.rs 368 (the nonce), the EntryPoint's nonce for wallets.
AcceptedOnce ==
  \A i, j \in DOMAIN accepted :
    accepted[i].what[1] \in {"action", "operation"} /\ (\A k \in 1 .. 4 : accepted[i].what[k] = accepted[j].what[k])
      => i = j

\* A factory at the same address on two chains gives no two accounts of different configurations the same address:
\* a player who was paid at it finds there the policy the address stands for.
AddressMeansPolicy ==
  \A p, q \in DOMAIN accounts :
    p[2] = q[2] => accounts[p].policy = accounts[q].policy /\ accounts[p].app = accounts[q].app

\* Every account is one the factory made, at the address of its policy, its app and its first owner, whatever
\* recoveries followed; so the address tells the policy on every chain.
\* Code: factory/src/lib.rs 128-145, 151-162 and clone.rs 27-43.
MadeByFactory ==
  \A p \in DOMAIN accounts :
    \E nullifier \in Nullifiers(accounts[p].app) : p[2] = account_address(p[1], accounts[p].app, nullifier)

Placed == TypeOK /\ MadeByFactory /\ AddressMeansPolicy

\* The module reads client data as the Stylus account does, which its comment promises, also where a text ends early
\* or is too long. A site reads whole texts only, and has no limit: of any length, it accepts exactly those that the
\* contracts' checks but for their limit accept, so beyond the limit it takes what both contracts refuse.
\* Code: VeraKeyValidator.sol 293-316 "Mirrors client_data::verify", client_data.rs 183-204, signin.ts 230-244.
ReadersAgree ==
  \A a \in signed :
    LET json == clientDataJSON(a) IN
    /\ \A n \in 0 .. Len(json) :
         LET text == SubSeq(json, 1, n) IN
         _checkClientData(text, a.challenge) <=> verify(text, a.challenge, ORIGIN)
    /\ signed_on_verakey(json, a.challenge) <=> matches(json, a.challenge, ORIGIN)

\* An assertion made as VeraKey's page makes it, of a text that is not too long.
Genuine(a) ==
  /\ a.how.origin = ORIGIN /\ a.how.topOrigin = ORIGIN /\ a.how.top /\ a.how.verified /\ ~a.how.extensions
  /\ Len(clientDataJSON(a)) <= MAX_CLIENT_DATA_LEN

\* A genuine assertion for the current nonce of an account its player owns is accepted, whatever a browser appends
\* to the text, and with the sheet when that showed the payment: page and contract write every total alike.
\* Code: client_data.rs 78-112 and 170-178, webauthn.ts 147-151.
GenuineAccepted ==
  \A a \in signed : \A place \in DOMAIN accounts, do \in Doings :
    (/\ Genuine(a)
     /\ a.about = <<"action", place[1], place[2], accounts[place].nonce, do>>
     /\ accounts[place].owner = compute_nullifier(a.key, accounts[place].app)
     /\ a.how.sheet \in {NoSheet, [payee |-> do.payee, total |-> do.total]})
    => authorizes(place, do, a)

\* A passkey that no longer owns a deployed account neither moves it nor signs in with it nor shows it linked to
\* another, however early it signed.
\* Code: lib.rs 337-339, signin.ts 268-289, disclosure.ts 212-224.
OwnedNow(entry) ==
  LET what == entry.what
      account(app) == <<what[2], account_address(what[2], app, compute_nullifier(entry.a.key, app))>>
  IN \A p \in DOMAIN accounts :
       (\/ what[1] = "action" /\ p = <<what[2], what[3]>>
        \/ what[1] = "sign-in" /\ p = account(what[3])
        \/ what[1] = "link" /\ p \in {account(what[3]), account(what[4])})
       => accounts[p].owner = compute_nullifier(entry.a.key, accounts[p].app)

RemovedStaysOut == [][\A i \in DOMAIN accepted' \ DOMAIN accepted : OwnedNow(accepted'[i])]_vars

-------------------------------------------------------------------------------
(* The strengthening that makes the invariants inductive.                  *)

\* A challenge is the digest of what its player meant.
Meant(a) ==
  LET m == a.about IN
  \/ /\ m[1] = "action" /\ m = <<"action", m[2], m[3], m[4], m[5]>> /\ m[5] \in Doings
     /\ a.challenge = encode(m[2], m[3], m[4], m[5])
  \/ /\ m[1] = "operation" /\ m = <<"operation", m[2], m[3], m[4]>>
     /\ a.challenge = userOpHash(m[2], m[3], m[4])
  \/ /\ m[1] = "message" /\ m = <<"message", m[2], m[3], m[4]>>
     /\ a.challenge = erc1271Challenge(m[2], m[3], m[4])
  \/ /\ m[1] = "sign-in" /\ m = <<"sign-in", m[2], m[3], m[4]>>
     /\ a.challenge = signInChallenge(m[2], m[3], compute_nullifier(a.key, m[3]), m[4])
  \/ /\ m[1] = "link" /\ m = <<"link", m[2], m[3], m[4], m[5]>>
     /\ a.challenge = linkDisclosureChallenge(m[2], m[3], compute_nullifier(a.key, m[3]),
                                              m[4], compute_nullifier(a.key, m[4]), m[5])

SignedInv == \A a \in signed : Meant(a)

\* Only payments are confirmed in the sheet.
SheetsArePayments ==
  \A a \in signed : a.how.sheet # NoSheet => a.about[1] = "action" /\ a.about[5].kind = "PAY"

\* Nonces that were used are past.
NoncesPast ==
  \A i \in DOMAIN accepted :
    LET what == accepted[i].what
        place == <<what[2], what[3]>>
    IN /\ what[1] = "action" => /\ place \in DOMAIN accounts
                                /\ what[4] \in Nat /\ what[4] < accounts[place].nonce
       /\ what[1] = "operation" => /\ place \in Chains \X Wallets
                                   /\ what[4] \in Nat /\ what[4] < op_nonce[place]

IInv == Placed /\ SignedInv /\ SheetsArePayments /\ NoncesPast /\ AcceptedOnce /\ MadeForThis /\ MadeAsAccepted

=============================================================================
