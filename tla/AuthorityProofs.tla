---------------------------- MODULE AuthorityProofs ----------------------------
(***************************************************************************)
(* For any passkeys, sites, wallets and chains, and texts of any length:   *)
(* no assertion passes for anything but what its player meant, on          *)
(* VeraKey's page and with the payment the sheet showed; none is used      *)
(* twice, the readers agree, a genuine one is accepted, and an address     *)
(* tells the policy of the account at it.                                  *)
(***************************************************************************)
EXTENDS AuthorityProperties, ClientDataProofs

\* The challenge an assertion was made for is the one its acceptor computes.
LEMMA AcceptorsChallenge ==
  ASSUME TypeOK, NEW a \in signed, NEW challenge,
         \/ verify(clientDataJSON(a), challenge, ORIGIN)
         \/ \E payment : verify_payment(clientDataJSON(a), challenge, ORIGIN, payment) = <<"rpId", RpId>>
         \/ _checkClientData(clientDataJSON(a), challenge)
         \/ signed_on_verakey(clientDataJSON(a), challenge)
  PROVE  a.challenge = challenge
<1>1. Begins(clientDataJSON(a), a.challenge)
  BY SerializedChallenge DEF TypeOK, clientDataJSON
<1>2. IsText(clientDataJSON(a)) /\ clientDataJSON(a)[2] = a.challenge
  BY <1>1 DEF Begins
<1>3. clientDataJSON(a)[2] = challenge
  BY <1>1, <1>2, VerifyReads, PaymentReads, ModuleReads, ParserReads
<1> QED BY <1>2, <1>3

\* A challenge is a digest, and no punctuation.
LEMMA ChallengeIsNoToken ==
  ASSUME NEW a, Meant(a)
  PROVE  a.challenge # QUOTE /\ a.challenge # CROSS_ORIGIN_TRUE
<1>1. a.challenge[1] \in {"VeraKeyAction", "UserOperation", "VeraKeyERC1271", "VeraKeySignIn", "VeraKeyLinkDisclosure"}
  BY DEF Meant, encode, userOpHash, erc1271Challenge, signInChallenge, linkDisclosureChallenge
<1>2. QUOTE[1] = "quote" /\ CROSS_ORIGIN_TRUE[1] = ","
  BY Zenon DEF QUOTE, CROSS_ORIGIN_TRUE
<1>3. "quote" \notin {"VeraKeyAction", "UserOperation", "VeraKeyERC1271", "VeraKeySignIn", "VeraKeyLinkDisclosure"}
  OBVIOUS
<1>4. "," \notin {"VeraKeyAction", "UserOperation", "VeraKeyERC1271", "VeraKeySignIn", "VeraKeyLinkDisclosure"}
  BY Zenon
<1> QED BY <1>1, <1>2, <1>3, <1>4, Zenon

\* Whoever reads an ordinary assertion reads one that was made on VeraKey's page.
LEMMA PlainHere ==
  ASSUME TypeOK, NEW a \in signed, Meant(a), NEW challenge,
         \/ verify(clientDataJSON(a), challenge, ORIGIN)
         \/ _checkClientData(clientDataJSON(a), challenge)
         \/ signed_on_verakey(clientDataJSON(a), challenge)
  PROVE  a.how.origin = ORIGIN /\ a.how.top /\ a.how.sheet = NoSheet
<1> DEFINE json == clientDataJSON(a)
<1>1. a.challenge = challenge
  BY AcceptorsChallenge
<1>2. challenge # QUOTE /\ challenge # CROSS_ORIGIN_TRUE
  BY <1>1, ChallengeIsNoToken
<1>3. a.how \in Ceremonies /\ json = serialize(a.how, challenge)
  BY <1>1 DEF TypeOK, clientDataJSON
<1> HIDE DEF json
<1>4. verify(json, challenge, ORIGIN) \/ _checkClientData(json, challenge) \/ signed_on_verakey(json, challenge)
  BY DEF json
<1>5. a.how.sheet = NoSheet /\ json = getJSON(a.how, challenge)
  <2>1. IsText(json) /\ Len(json) \in Nat /\ (a.how.sheet # NoSheet => json[1] = PAYMENT)
    BY <1>3, FirstToken, Zenon
  <2>2. json[1] = GET
    BY <1>4, <2>1, GetFirst, Zenon DEF verify
  <2>3. a.how.sheet = NoSheet
    BY <2>1, <2>2, SheetTokens, Zenon
  <2> QED BY <1>3, <2>3, Zenon DEF serialize
<1>6. CASE verify(json, challenge, ORIGIN) \/ signed_on_verakey(json, challenge)
  <2>1. matches(json, challenge, ORIGIN) \/ signed_on_verakey(json, challenge)
    BY <1>6, Zenon DEF verify
  <2>2. /\ signed_on_verakey(json, challenge) <=> a.how.origin = ORIGIN /\ a.how.top
        /\ matches(json, challenge, ORIGIN) <=> a.how.origin = ORIGIN /\ a.how.top
    BY <1>2, <1>3, <1>5, WholeAgrees, Zenon
  <2> QED BY <1>5, <2>1, <2>2, Zenon
<1>7. CASE _checkClientData(json, challenge)
  BY <1>3, <1>5, <1>7, ModuleHere, Zenon
<1> QED BY <1>4, <1>5, <1>6, <1>7

-----------------------------------------------------------------------------
(***************************************************************************)
(* Accounts stay at the addresses the factory gave them.                   *)
(***************************************************************************)

LEMMA AcceptedGrows ==
  ASSUME TypeOK, NEW what, NEW owner, NEW a, accept(what, owner, a)
  PROVE  /\ accepted' \in Seq(Range(accepted'))
         /\ Len(accepted) \in Nat
         /\ DOMAIN accepted = 1 .. Len(accepted)
         /\ DOMAIN accepted' = 1 .. Len(accepted) + 1
         /\ \A i \in DOMAIN accepted : accepted'[i] = accepted[i]
         /\ accepted'[Len(accepted) + 1] = [what |-> what, owner |-> owner, a |-> a]
<1> DEFINE entry == [what |-> what, owner |-> owner, a |-> a]
           S == Range(accepted) \union {entry}
<1>1. accepted \in Seq(S) /\ entry \in S
  BY SeqMonotonic DEF TypeOK
<1>2. accepted' = Append(accepted, entry)
  BY DEF accept
<1> HIDE DEF S, entry
<1>3. accepted' \in Seq(S)
  BY <1>1, <1>2
<1>4. accepted' \in Seq(Range(accepted'))
  BY <1>3, SeqOfRange
<1> QED BY <1>1, <1>2, <1>4, AppendProperties DEF entry

LEMMA AccountFields ==
  ASSUME TypeOK, NEW p \in DOMAIN accounts
  PROVE  /\ p = <<p[1], p[2]>> /\ p[1] \in Chains
         /\ accounts[p] = [app |-> accounts[p].app, owner |-> accounts[p].owner,
                           policy |-> accounts[p].policy, nonce |-> accounts[p].nonce]
         /\ accounts[p].app \in Apps /\ accounts[p].policy = Policy[p[1]] /\ accounts[p].nonce \in Nat
         /\ accounts[p] \in Account(p[1])
BY DEF TypeOK, Account

\* The accounts after a step, apart from what it may not change.
AccountsKept ==
  /\ DOMAIN accounts \subseteq DOMAIN accounts'
  /\ \A p \in DOMAIN accounts' :
       /\ p = <<p[1], p[2]>> /\ p[1] \in Chains /\ accounts'[p] \in Account(p[1])
       /\ p \in DOMAIN accounts => /\ accounts'[p].app = accounts[p].app
                                   /\ accounts'[p].nonce >= accounts[p].nonce
       /\ p \notin DOMAIN accounts =>
            \E nullifier \in Nullifiers(accounts'[p].app) : p[2] = account_address(p[1], accounts'[p].app, nullifier)

LEMMA CreateKeeps ==
  ASSUME TypeOK, NEW c \in Chains, NEW app \in Apps, NEW nullifier \in Nullifiers(app),
         create_account(c, app, nullifier)
  PROVE  AccountsKept
<1> DEFINE place == <<c, account_address(c, app, nullifier)>>
           new == [app |-> app, owner |-> nullifier, policy |-> Policy[c], nonce |-> 0]
<1>1. place \notin DOMAIN accounts /\ accounts' = [p \in DOMAIN accounts \union {place} |-> IF p = place THEN new ELSE accounts[p]]
  BY DEF create_account
<1>2. /\ DOMAIN accounts' = DOMAIN accounts \union {place}
      /\ accounts'[place] = new
      /\ \A p \in DOMAIN accounts : accounts'[p] = accounts[p]
  BY <1>1
<1>3. new \in Account(c)
  BY DEF Account, Nullifiers
<1>4. place[1] = c /\ place[2] = account_address(c, app, nullifier) /\ new.app = app
  OBVIOUS
<1> HIDE DEF new, place
<1>5. place = <<place[1], place[2]>>
  BY DEF place
<1>6. \A p \in DOMAIN accounts : p = <<p[1], p[2]>> /\ p[1] \in Chains /\ accounts[p] \in Account(p[1]) /\ accounts[p].nonce \in Nat
  BY AccountFields
<1> QED BY <1>1, <1>2, <1>3, <1>4, <1>5, <1>6 DEF AccountsKept

LEMMA RecoverKeeps ==
  ASSUME TypeOK, NEW place \in DOMAIN accounts, NEW nullifier \in Nullifiers(accounts[place].app),
         execute_recovery(place, nullifier)
  PROVE  AccountsKept
<1> DEFINE new == [accounts[place] EXCEPT !.owner = nullifier]
<1>1. accounts' = [accounts EXCEPT ![place].owner = nullifier]
  BY DEF execute_recovery
<1>2. accounts[place] \in Account(place[1]) /\ accounts[place].app \in Apps /\ accounts[place].nonce \in Nat
  BY AccountFields
<1>3. new \in Account(place[1])
  BY <1>2 DEF Account, Nullifiers
<1>4. /\ DOMAIN accounts' = DOMAIN accounts
      /\ accounts'[place] = new
      /\ \A p \in DOMAIN accounts : p # place => accounts'[p] = accounts[p]
  BY <1>1
<1>5. new.app = accounts[place].app /\ new.nonce = accounts[place].nonce
  BY <1>2 DEF Account
<1> HIDE DEF new
<1>6. \A p \in DOMAIN accounts : p = <<p[1], p[2]>> /\ p[1] \in Chains /\ accounts[p] \in Account(p[1]) /\ accounts[p].nonce \in Nat
  BY AccountFields
<1> QED BY <1>2, <1>3, <1>4, <1>5, <1>6 DEF AccountsKept

LEMMA AuthorizeKeeps ==
  ASSUME TypeOK, NEW place \in DOMAIN accounts, accounts' = [accounts EXCEPT ![place].nonce = @ + 1]
  PROVE  AccountsKept /\ accounts'[place].nonce = accounts[place].nonce + 1
<1>2. accounts[place] \in Account(place[1]) /\ accounts[place].nonce \in Nat
  BY AccountFields
<1> DEFINE new == [accounts[place] EXCEPT !.nonce = accounts[place].nonce + 1]
<1>3. new \in Account(place[1])
  BY <1>2 DEF Account
<1>4. /\ DOMAIN accounts' = DOMAIN accounts
      /\ accounts'[place] = new
      /\ \A p \in DOMAIN accounts : p # place => accounts'[p] = accounts[p]
  OBVIOUS
<1>5. new.app = accounts[place].app /\ new.nonce = accounts[place].nonce + 1
  BY <1>2 DEF Account
<1> HIDE DEF new
<1>6. \A p \in DOMAIN accounts : p = <<p[1], p[2]>> /\ p[1] \in Chains /\ accounts[p] \in Account(p[1]) /\ accounts[p].nonce \in Nat
  BY AccountFields
<1> QED BY <1>2, <1>3, <1>4, <1>5, <1>6 DEF AccountsKept

LEMMA SameAccountsKeep ==
  ASSUME TypeOK, accounts' = accounts
  PROVE  AccountsKept
<1>1. \A p \in DOMAIN accounts : p = <<p[1], p[2]>> /\ p[1] \in Chains /\ accounts[p] \in Account(p[1]) /\ accounts[p].nonce \in Nat
  BY AccountFields
<1> QED BY <1>1 DEF AccountsKept

-----------------------------------------------------------------------------
(***************************************************************************)
(* What a step of the rest keeps, and the strengthened invariant with it.  *)
(***************************************************************************)
OperationsKept ==
  /\ op_nonce' \in [Chains \X Wallets -> Nat]
  /\ \A w \in Chains \X Wallets : op_nonce'[w] >= op_nonce[w]

ConfigsKept ==
  DOMAIN configs' \subseteq Chains \X Wallets /\ \A p \in DOMAIN configs' : configs'[p].app \in Apps

\* A sheet shows a payment.
SheetFits(about, how) == how.sheet # NoSheet => about[1] = "action" /\ about[5].kind = "PAY"

SignedKept ==
  /\ signed \subseteq signed'
  /\ \A a \in signed' : /\ a = [key |-> a.key, about |-> a.about, challenge |-> a.challenge, how |-> a.how]
                        /\ a.key \in Keys /\ a.how \in Ceremonies
                        /\ Meant(a) /\ SheetFits(a.about, a.how)

\* Made on VeraKey's page, with a sheet, if any, that showed the payment.
MadeRight(what, how) ==
  /\ how.origin = ORIGIN /\ how.top /\ how.verified
  /\ how.sheet # NoSheet => /\ what[1] = "action" /\ what[5].kind = "PAY"
                            /\ what[5].payee = how.sheet.payee /\ what[5].total = how.sheet.total

\* What is accepted was meant, by who is taken for its player, and uses the nonce it names.
Rightly(what, owner, a) ==
  /\ a \in signed /\ a.about = what /\ MadeRight(what, a.how)
  /\ \E app \in Apps : compute_nullifier(a.key, app) = owner
  /\ what[1] = "action" => LET place == <<what[2], what[3]>> IN
       /\ place \in DOMAIN accounts /\ what[4] = accounts[place].nonce
       /\ accounts'[place].nonce = accounts[place].nonce + 1
  /\ what[1] = "operation" => LET place == <<what[2], what[3]>> IN
       /\ place \in Chains \X Wallets /\ what[4] = op_nonce[place]
       /\ op_nonce'[place] = op_nonce[place] + 1

HistoryKept ==
  \/ accepted' = accepted
  \/ \E what, owner, a : accept(what, owner, a) /\ Rightly(what, owner, a)

Kept == AccountsKept /\ OperationsKept /\ ConfigsKept /\ SignedKept /\ HistoryKept

LEMMA KeptPlaced ==
  ASSUME IInv, Kept
  PROVE  Placed'
<1>1. TypeOK /\ MadeByFactory
  BY DEF IInv, Placed
<1>2. accepted' \in Seq(Range(accepted')) /\ \A i \in DOMAIN accepted' : accepted'[i].a \in signed'
  <2>1. CASE accepted' = accepted
    BY <1>1, <2>1 DEF TypeOK, Kept, SignedKept
  <2>2. ASSUME NEW what, NEW owner, NEW a, accept(what, owner, a), Rightly(what, owner, a)
        PROVE  accepted' \in Seq(Range(accepted')) /\ \A i \in DOMAIN accepted' : accepted'[i].a \in signed'
    <3>1. /\ accepted' \in Seq(Range(accepted'))
          /\ Len(accepted) \in Nat /\ DOMAIN accepted = 1 .. Len(accepted) /\ DOMAIN accepted' = 1 .. Len(accepted) + 1
          /\ \A i \in DOMAIN accepted : accepted'[i] = accepted[i]
          /\ accepted'[Len(accepted) + 1] = [what |-> what, owner |-> owner, a |-> a]
      BY <1>1, <2>2, AcceptedGrows
    <3>2. a \in signed'
      BY <2>2 DEF Rightly, Kept, SignedKept
    <3>3. accepted'[Len(accepted) + 1].a \in signed'
      BY <3>1, <3>2
    <3>4. \A i \in DOMAIN accepted : accepted'[i].a \in signed'
      BY <1>1, <3>1 DEF TypeOK, Kept, SignedKept
    <3> QED BY <3>1, <3>3, <3>4
  <2> QED BY <2>1, <2>2 DEF Kept, HistoryKept
<1>3. TypeOK'
  BY <1>2 DEF TypeOK, Kept, AccountsKept, OperationsKept, ConfigsKept, SignedKept
<1>4. MadeByFactory'
  BY <1>1 DEF MadeByFactory, Kept, AccountsKept, Nullifiers, account_address, account_salt, config_hash
<1>5. AddressMeansPolicy'
  <2> SUFFICES ASSUME NEW p \in DOMAIN accounts', NEW q \in DOMAIN accounts', p[2] = q[2]
               PROVE  accounts'[p].policy = accounts'[q].policy /\ accounts'[p].app = accounts'[q].app
    BY DEF AddressMeansPolicy
  <2>1. PICK n : p[2] = <<FACTORY, <<accounts'[p].app, n, <<"config", Policy[p[1]]>>>>>>
    BY <1>4 DEF MadeByFactory, account_address, account_salt, config_hash
  <2>2. PICK m : q[2] = <<FACTORY, <<accounts'[q].app, m, <<"config", Policy[q[1]]>>>>>>
    BY <1>4 DEF MadeByFactory, account_address, account_salt, config_hash
  <2> DEFINE salt(r, nullifier) == <<accounts'[r].app, nullifier, <<"config", Policy[r[1]]>>>>
  <2> HIDE DEF salt
  <2>a. p[2] = <<FACTORY, salt(p, n)>> /\ q[2] = <<FACTORY, salt(q, m)>>
    BY <2>1, <2>2 DEF salt
  <2>c. <<FACTORY, salt(p, n)>> = <<FACTORY, salt(q, m)>>
    BY <2>a, Zenon
  <2>b. salt(p, n) = salt(q, m)
    BY <2>c
  <2>3. <<accounts'[p].app, n, <<"config", Policy[p[1]]>>>> = <<accounts'[q].app, m, <<"config", Policy[q[1]]>>>>
    BY <2>b DEF salt
  <2>4. accounts'[p].app = accounts'[q].app /\ Policy[p[1]] = Policy[q[1]]
    BY <2>3
  <2>5. accounts'[p] \in Account(p[1]) /\ accounts'[q] \in Account(q[1])
    BY DEF Kept, AccountsKept
  <2>6. accounts'[p].policy = Policy[p[1]] /\ accounts'[q].policy = Policy[q[1]]
    BY <2>5 DEF Account
  <2> QED BY <2>4, <2>6
<1> QED BY <1>3, <1>4, <1>5 DEF Placed

LEMMA KeptHistory ==
  ASSUME IInv, Kept
  PROVE  NoncesPast' /\ AcceptedOnce' /\ MadeForThis' /\ MadeAsAccepted'
<1>1. TypeOK /\ NoncesPast /\ AcceptedOnce /\ MadeForThis /\ MadeAsAccepted
  BY DEF IInv, Placed
<1>2. \A p \in DOMAIN accounts : /\ p \in DOMAIN accounts' /\ accounts[p].nonce \in Nat /\ accounts'[p].nonce \in Nat
                                 /\ accounts'[p].nonce >= accounts[p].nonce
  BY <1>1, AccountFields DEF Kept, AccountsKept, Account
<1>3. \A p \in Chains \X Wallets : op_nonce[p] \in Nat /\ op_nonce'[p] \in Nat /\ op_nonce'[p] >= op_nonce[p]
  BY <1>1 DEF Kept, OperationsKept, TypeOK
<1>4. \A i \in DOMAIN accepted :
        LET what == accepted[i].what
            place == <<what[2], what[3]>>
        IN /\ what[1] = "action" => /\ place \in DOMAIN accounts'
                                    /\ what[4] \in Nat /\ what[4] < accounts'[place].nonce
           /\ what[1] = "operation" => /\ place \in Chains \X Wallets
                                       /\ what[4] \in Nat /\ what[4] < op_nonce'[place]
  BY <1>1, <1>2, <1>3 DEF NoncesPast
<1>5. CASE accepted' = accepted
  <2>1. NoncesPast' /\ AcceptedOnce' /\ MadeForThis'
    BY <1>1, <1>4, <1>5 DEF NoncesPast, AcceptedOnce, MadeForThis
  <2>2. MadeAsAccepted'
    BY <1>1, <1>5, Zenon DEF MadeAsAccepted, MadeHere, ShownIsPaid
  <2> QED BY <2>1, <2>2
<1>6. ASSUME NEW what, NEW owner, NEW a, accept(what, owner, a), Rightly(what, owner, a)
      PROVE  NoncesPast' /\ AcceptedOnce' /\ MadeForThis' /\ MadeAsAccepted'
  <2> DEFINE n == Len(accepted) + 1
             place == <<what[2], what[3]>>
  <2>1. /\ Len(accepted) \in Nat
        /\ DOMAIN accepted = 1 .. Len(accepted)
        /\ DOMAIN accepted' = 1 .. n
        /\ \A i \in DOMAIN accepted : accepted'[i] = accepted[i]
        /\ accepted'[n] = [what |-> what, owner |-> owner, a |-> a]
    BY <1>1, <1>6, AcceptedGrows
  <2>2. DOMAIN accepted' = DOMAIN accepted \union {n} /\ n \notin DOMAIN accepted
    BY <2>1
  <2>3. accepted'[n].what = what /\ accepted'[n].owner = owner /\ accepted'[n].a = a
    BY <2>1
  <2> HIDE DEF n
  <2>4. MadeForThis'
    BY <1>1, <1>6, <2>1, <2>2, <2>3 DEF MadeForThis, Rightly
  <2>5. NoncesPast'
    <3>1. /\ what[1] = "action" => /\ place \in DOMAIN accounts'
                                   /\ what[4] \in Nat /\ what[4] < accounts'[place].nonce
          /\ what[1] = "operation" => /\ place \in Chains \X Wallets
                                      /\ what[4] \in Nat /\ what[4] < op_nonce'[place]
      BY <1>2, <1>3, <1>6 DEF Rightly
    <3> QED BY <1>4, <2>1, <2>2, <2>3, <3>1 DEF NoncesPast
  <2>6. AcceptedOnce'
    <3>1. ASSUME NEW i \in DOMAIN accepted, what[1] \in {"action", "operation"},
                 \A k \in 1 .. 4 : accepted[i].what[k] = what[k]
          PROVE  FALSE
      <4>1. /\ accepted[i].what[1] = what[1] /\ accepted[i].what[2] = what[2]
            /\ accepted[i].what[3] = what[3] /\ accepted[i].what[4] = what[4]
        BY <3>1
      <4>2. CASE what[1] = "action"
        <5>1. what[4] < accounts[place].nonce /\ what[4] \in Nat /\ place \in DOMAIN accounts
          BY <1>1, <4>1, <4>2 DEF NoncesPast
        <5>2. what[4] = accounts[place].nonce
          BY <1>6, <4>2 DEF Rightly
        <5> QED BY <1>2, <5>1, <5>2
      <4>3. CASE what[1] = "operation"
        <5>1. what[4] < op_nonce[place] /\ what[4] \in Nat /\ place \in Chains \X Wallets
          BY <1>1, <4>1, <4>3 DEF NoncesPast
        <5>2. what[4] = op_nonce[place]
          BY <1>6, <4>3 DEF Rightly
        <5> QED BY <1>3, <5>1, <5>2
      <4> QED BY <3>1, <4>2, <4>3
    <3> SUFFICES ASSUME NEW i \in DOMAIN accepted', NEW j \in DOMAIN accepted',
                        accepted'[i].what[1] \in {"action", "operation"},
                        \A k \in 1 .. 4 : accepted'[i].what[k] = accepted'[j].what[k]
                 PROVE  i = j
      BY DEF AcceptedOnce
    <3>2. accepted'[j].what[1] \in {"action", "operation"}
      OBVIOUS
    <3>3. CASE i \in DOMAIN accepted /\ j \in DOMAIN accepted
      BY <1>1, <2>1, <3>3 DEF AcceptedOnce
    <3>4. CASE i = n /\ j \in DOMAIN accepted
      BY <2>1, <2>3, <3>1, <3>4
    <3>5. CASE i \in DOMAIN accepted /\ j = n
      BY <2>1, <2>3, <3>1, <3>2, <3>5
    <3> QED BY <2>2, <3>3, <3>4, <3>5
  <2>7. MadeAsAccepted'
    <3>1. MadeRight(what, a.how)
      BY <1>6 DEF Rightly
    <3>2. \A i \in DOMAIN accepted : MadeRight(accepted[i].what, accepted[i].a.how)
      BY <1>1, Zenon DEF MadeAsAccepted, MadeHere, ShownIsPaid, MadeRight
    <3>3. \A i \in DOMAIN accepted' : MadeRight(accepted'[i].what, accepted'[i].a.how)
      <4> SUFFICES ASSUME NEW i \in DOMAIN accepted'
                   PROVE  MadeRight(accepted'[i].what, accepted'[i].a.how)
        OBVIOUS
      <4>1. CASE i \in DOMAIN accepted
        <5>1. accepted'[i] = accepted[i]
          BY <2>1, <4>1, Zenon
        <5> QED BY <3>2, <4>1, <5>1, Zenon
      <4>2. CASE i = n
        BY <2>3, <3>1, <4>2, Zenon
      <4> QED BY <2>2, <4>1, <4>2, Zenon
    <3> QED BY <3>3, Zenon DEF MadeAsAccepted, MadeHere, ShownIsPaid, MadeRight
  <2> QED BY <2>4, <2>5, <2>6, <2>7
<1> QED BY <1>5, <1>6 DEF Kept, HistoryKept

LEMMA KeptInv ==
  ASSUME IInv, Kept
  PROVE  IInv'
<1>1. SignedInv'
  BY DEF SignedInv, Meant, Kept, SignedKept
<1>2. SheetsArePayments'
  BY DEF SheetsArePayments, Kept, SignedKept, SheetFits
<1> QED BY <1>1, <1>2, KeptPlaced, KeptHistory DEF IInv

-----------------------------------------------------------------------------
(***************************************************************************)
(* Every challenge has one meaning: a digest of one kind of use is none of *)
(* another's.                                                              *)
(***************************************************************************)
LEMMA MeantAction ==
  ASSUME NEW a, Meant(a), NEW c, NEW account, NEW nonce, NEW do \in Doings,
         a.challenge = encode(c, account, nonce, do)
  PROVE  a.about = <<"action", c, account, nonce, do>>
<1>1. a.challenge[1] = "VeraKeyAction"
  BY DEF encode
<1>2. PICK m : /\ m = a.about
               /\ m = <<"action", m[2], m[3], m[4], m[5]>> /\ m[5] \in Doings
               /\ a.challenge = encode(m[2], m[3], m[4], m[5])
  BY <1>1 DEF Meant, userOpHash, erc1271Challenge, signInChallenge, linkDisclosureChallenge
<1>3. /\ m[2] = c /\ m[3] = account /\ m[4] = nonce
      /\ m[5].kind = do.kind /\ m[5].payee = do.payee /\ m[5].total = do.total
  BY <1>2 DEF encode
<1>4. m[5] = do
  BY <1>2, <1>3, DoingsAssumption
<1> QED BY <1>2, <1>3, <1>4

\* What is meant for an action is signed as its digest.
LEMMA ActionChallenge ==
  ASSUME NEW a, Meant(a), NEW c, NEW account, NEW nonce, NEW do, a.about = <<"action", c, account, nonce, do>>
  PROVE  a.challenge = encode(c, account, nonce, do)
<1>1. a.about[1] = "action" /\ a.about[2] = c /\ a.about[3] = account /\ a.about[4] = nonce /\ a.about[5] = do
  OBVIOUS
<1>2. PICK m : m = a.about /\ a.challenge = encode(m[2], m[3], m[4], m[5])
  BY <1>1 DEF Meant
<1> QED BY <1>1, <1>2

LEMMA MeantOperation ==
  ASSUME NEW a, Meant(a), NEW c, NEW wallet, NEW nonce, a.challenge = userOpHash(c, wallet, nonce)
  PROVE  a.about = <<"operation", c, wallet, nonce>>
<1>1. a.challenge[1] = "UserOperation"
  BY DEF userOpHash
<1>2. PICK m : /\ m = a.about /\ m = <<"operation", m[2], m[3], m[4]>>
               /\ a.challenge = userOpHash(m[2], m[3], m[4])
  BY <1>1 DEF Meant, encode, erc1271Challenge, signInChallenge, linkDisclosureChallenge
<1>3. m[2] = c /\ m[3] = wallet /\ m[4] = nonce
  BY <1>2 DEF userOpHash
<1> QED BY <1>2, <1>3

LEMMA MeantMessage ==
  ASSUME NEW a, Meant(a), NEW c, NEW wallet, NEW hash, a.challenge = erc1271Challenge(c, wallet, hash)
  PROVE  a.about = <<"message", c, wallet, hash>>
<1>1. a.challenge[1] = "VeraKeyERC1271"
  BY DEF erc1271Challenge
<1>2. PICK m : /\ m = a.about /\ m = <<"message", m[2], m[3], m[4]>>
               /\ a.challenge = erc1271Challenge(m[2], m[3], m[4])
  BY <1>1 DEF Meant, encode, userOpHash, signInChallenge, linkDisclosureChallenge
<1>3. m[2] = c /\ m[3] = wallet /\ m[4] = hash
  BY <1>2 DEF erc1271Challenge
<1> QED BY <1>2, <1>3

LEMMA MeantSignIn ==
  ASSUME NEW a, Meant(a), NEW c, NEW site, NEW nullifier, NEW nonce,
         a.challenge = signInChallenge(c, site, nullifier, nonce)
  PROVE  a.about = <<"sign-in", c, site, nonce>>
<1>1. a.challenge[1] = "VeraKeySignIn"
  BY DEF signInChallenge
<1>2. PICK m : /\ m = a.about /\ m = <<"sign-in", m[2], m[3], m[4]>>
               /\ a.challenge = signInChallenge(m[2], m[3], compute_nullifier(a.key, m[3]), m[4])
  BY <1>1 DEF Meant, encode, userOpHash, erc1271Challenge, linkDisclosureChallenge
<1>3. m[2] = c /\ m[3] = site /\ m[4] = nonce
  BY <1>2 DEF signInChallenge
<1> QED BY <1>2, <1>3

LEMMA MeantLink ==
  ASSUME NEW a, Meant(a), NEW c, NEW appA, NEW nullifierA, NEW appB, NEW nullifierB, NEW audience,
         a.challenge = linkDisclosureChallenge(c, appA, nullifierA, appB, nullifierB, audience)
  PROVE  a.about = <<"link", c, appA, appB, audience>>
<1>1. a.challenge[1] = "VeraKeyLinkDisclosure"
  BY DEF linkDisclosureChallenge
<1>2. PICK m : /\ m = a.about /\ m = <<"link", m[2], m[3], m[4], m[5]>>
               /\ a.challenge = linkDisclosureChallenge(m[2], m[3], compute_nullifier(a.key, m[3]),
                                                        m[4], compute_nullifier(a.key, m[4]), m[5])
  BY <1>1 DEF Meant, encode, userOpHash, erc1271Challenge, signInChallenge
<1>3. m[2] = c /\ m[3] = appA /\ m[4] = appB /\ m[5] = audience
  BY <1>2 DEF linkDisclosureChallenge
<1> QED BY <1>2, <1>3

-----------------------------------------------------------------------------
(***************************************************************************)
(* One lemma per action.                                                   *)
(***************************************************************************)
LEMMA Unchanged ==
  ASSUME IInv
  PROVE  /\ accounts' = accounts => AccountsKept
         /\ op_nonce' = op_nonce => OperationsKept
         /\ configs' = configs => ConfigsKept
         /\ signed' = signed => SignedKept
<1>1. TypeOK /\ SignedInv /\ SheetsArePayments
  BY DEF IInv, Placed
<1>2. \A a \in signed : SheetFits(a.about, a.how)
  BY <1>1 DEF SheetsArePayments, SheetFits
<1> QED BY <1>1, <1>2, SameAccountsKeep DEF TypeOK, SignedInv, OperationsKept, ConfigsKept, SignedKept

LEMMA Signing ==
  ASSUME IInv, NEW key \in Keys, NEW how \in Ceremonies, NEW about, NEW challenge, sign(key, about, challenge, how),
         Meant([key |-> key, about |-> about, challenge |-> challenge, how |-> how]), SheetFits(about, how)
  PROVE  Kept
<1>1. AccountsKept /\ OperationsKept /\ ConfigsKept /\ HistoryKept
  BY Unchanged DEF sign, HistoryKept
<1>2. TypeOK /\ SignedInv /\ SheetsArePayments
  BY DEF IInv, Placed
<1>3. \A a \in signed : SheetFits(a.about, a.how)
  BY <1>2 DEF SheetsArePayments, SheetFits
<1>4. SignedKept
  BY <1>2, <1>3 DEF SignedKept, sign, TypeOK, SignedInv
<1> QED BY <1>1, <1>4 DEF Kept

LEMMA SignStepKeeps ==
  ASSUME IInv, SignStep
  PROVE  Kept
<1>1. PICK key \in Keys, c \in Chains, how \in Ceremonies :
        \/ \E app \in Apps, do \in Doings : sign_action(key, app, c, do, how)
        \/ \E wallet \in Wallets : sign_operation(key, c, wallet, how)
        \/ \E wallet \in Wallets, hash \in Messages : sign_message(key, c, wallet, hash, how)
        \/ \E site \in Apps : sign_in(key, c, site, "nonce", how)
        \/ \E appA, appB \in Apps : disclose(key, c, appA, appB, "audience", how)
  BY DEF SignStep
<1>2. ASSUME NEW app \in Apps, NEW do \in Doings, sign_action(key, app, c, do, how)
      PROVE  Kept
  <2>1. PICK address, nonce : sign(key, <<"action", c, address, nonce, do>>, encode(c, address, nonce, do), how)
    BY <1>2 DEF sign_action
  <2>2. Meant([key |-> key, about |-> <<"action", c, address, nonce, do>>,
               challenge |-> encode(c, address, nonce, do), how |-> how])
    BY DEF Meant
  <2>3. SheetFits(<<"action", c, address, nonce, do>>, how)
    BY <1>2 DEF sign_action, plain, SheetFits
  <2> QED BY <2>1, <2>2, <2>3, Signing
<1>3. ASSUME NEW wallet \in Wallets, sign_operation(key, c, wallet, how)
      PROVE  Kept
  <2>1. PICK nonce : sign(key, <<"operation", c, wallet, nonce>>, userOpHash(c, wallet, nonce), how)
    BY <1>3 DEF sign_operation
  <2>2. Meant([key |-> key, about |-> <<"operation", c, wallet, nonce>>,
               challenge |-> userOpHash(c, wallet, nonce), how |-> how])
    BY DEF Meant
  <2>3. SheetFits(<<"operation", c, wallet, nonce>>, how)
    BY <1>3 DEF sign_operation, plain, SheetFits
  <2> QED BY <2>1, <2>2, <2>3, Signing
<1>4. ASSUME NEW wallet \in Wallets, NEW hash \in Messages, sign_message(key, c, wallet, hash, how)
      PROVE  Kept
  <2>1. sign(key, <<"message", c, wallet, hash>>, erc1271Challenge(c, wallet, hash), how)
    BY <1>4 DEF sign_message
  <2>2. Meant([key |-> key, about |-> <<"message", c, wallet, hash>>,
               challenge |-> erc1271Challenge(c, wallet, hash), how |-> how])
    BY DEF Meant
  <2>3. SheetFits(<<"message", c, wallet, hash>>, how)
    BY <1>4 DEF sign_message, plain, SheetFits
  <2> QED BY <2>1, <2>2, <2>3, Signing
<1>5. ASSUME NEW site \in Apps, sign_in(key, c, site, "nonce", how)
      PROVE  Kept
  <2>1. sign(key, <<"sign-in", c, site, "nonce">>,
             signInChallenge(c, site, compute_nullifier(key, site), "nonce"), how)
    BY <1>5 DEF sign_in
  <2>2. Meant([key |-> key, about |-> <<"sign-in", c, site, "nonce">>,
               challenge |-> signInChallenge(c, site, compute_nullifier(key, site), "nonce"), how |-> how])
    BY DEF Meant
  <2>3. SheetFits(<<"sign-in", c, site, "nonce">>, how)
    BY <1>5 DEF sign_in, plain, SheetFits
  <2> QED BY <2>1, <2>2, <2>3, Signing
<1>6. ASSUME NEW appA \in Apps, NEW appB \in Apps, disclose(key, c, appA, appB, "audience", how)
      PROVE  Kept
  <2> DEFINE about == <<"link", c, appA, appB, "audience">>
             challenge == linkDisclosureChallenge(c, appA, compute_nullifier(key, appA),
                                                  appB, compute_nullifier(key, appB), "audience")
  <2>1. sign(key, about, challenge, how)
    BY <1>6 DEF disclose
  <2>2. Meant([key |-> key, about |-> about, challenge |-> challenge, how |-> how])
    BY DEF Meant
  <2>3. SheetFits(about, how)
    BY <1>6 DEF disclose, plain, SheetFits
  <2> QED BY <2>1, <2>2, <2>3, Signing
<1> QED BY <1>1, <1>2, <1>3, <1>4, <1>5, <1>6

LEMMA CreateStepKeeps ==
  ASSUME IInv, NEW c \in Chains, NEW app \in Apps, NEW nullifier \in Nullifiers(app),
         create_account(c, app, nullifier)
  PROVE  Kept
BY CreateKeeps, Unchanged DEF Kept, IInv, Placed, create_account, HistoryKept

LEMMA RecoveryStepKeeps ==
  ASSUME IInv, NEW place \in DOMAIN accounts, NEW nullifier \in Nullifiers(accounts[place].app),
         execute_recovery(place, nullifier)
  PROVE  Kept
BY RecoverKeeps, Unchanged DEF Kept, IInv, Placed, execute_recovery, HistoryKept

LEMMA InstallStepKeeps ==
  ASSUME IInv, NEW c \in Chains, NEW wallet \in Wallets, NEW app \in Apps, NEW nullifier,
         onInstall(c, wallet, app, nullifier)
  PROVE  Kept
<1>1. AccountsKept /\ OperationsKept /\ SignedKept /\ HistoryKept
  BY Unchanged DEF onInstall, HistoryKept
<1>2. TypeOK
  BY DEF IInv, Placed
<1>3. ConfigsKept
  <2> DEFINE place == <<c, wallet>>
             new == [app |-> app, nullifier |-> nullifier]
  <2>1. configs' = [p \in DOMAIN configs \union {place} |-> IF p = place THEN new ELSE configs[p]]
    BY DEF onInstall
  <2>2. place \in Chains \X Wallets /\ new.app \in Apps
    OBVIOUS
  <2> HIDE DEF place, new
  <2> QED BY <1>2, <2>1, <2>2 DEF ConfigsKept, TypeOK
<1> QED BY <1>1, <1>3 DEF Kept

LEMMA UninstallStepKeeps ==
  ASSUME IInv, NEW c \in Chains, NEW wallet \in Wallets, onUninstall(c, wallet)
  PROVE  Kept
<1>1. AccountsKept /\ OperationsKept /\ SignedKept /\ HistoryKept
  BY Unchanged DEF onUninstall, HistoryKept
<1>2. ConfigsKept
  <2> DEFINE place == <<c, wallet>>
  <2>1. configs' = [p \in DOMAIN configs \ {place} |-> configs[p]]
    BY DEF onUninstall
  <2> HIDE DEF place
  <2> QED BY <2>1 DEF ConfigsKept, IInv, Placed, TypeOK
<1> QED BY <1>1, <1>2 DEF Kept

\* What the account accepts was made on VeraKey's page, and a sheet's payment is the one it showed.
LEMMA AuthorizesRight ==
  ASSUME TypeOK, NEW a \in signed, Meant(a), NEW place \in DOMAIN accounts, NEW do \in Doings, authorizes(place, do, a),
         a.challenge = encode(place[1], place[2], accounts[place].nonce, do)
  PROVE  /\ a.how.origin = ORIGIN /\ a.how.top /\ a.how.verified
         /\ a.how.sheet # NoSheet => do.kind = "PAY" /\ do.payee = a.how.sheet.payee /\ do.total = a.how.sheet.total
<1> DEFINE json == clientDataJSON(a)
           challenge == encode(place[1], place[2], accounts[place].nonce, do)
<1>1. a.how \in Ceremonies /\ json = serialize(a.how, challenge)
  BY DEF TypeOK, clientDataJSON
<1>2. a.how.verified
  BY Zenon DEF authorizes, proves, verify_assertion
<1>3. do.total \in Nat
  BY DoingsAssumption, Zenon
<1>4. IF Head(json) = PAYMENT
        THEN do.kind = "PAY" /\ verify_payment(json, challenge, ORIGIN, do) = <<"rpId", RpId>>
        ELSE verify(json, challenge, ORIGIN)
  BY Zenon DEF authorizes
<1> HIDE DEF challenge
<1>5. CASE Head(json) = PAYMENT
  <2> HIDE DEF json
  <2>1. a.how.sheet # NoSheet
    BY <1>1, <1>5, FirstToken, SheetTokens, Zenon
  <2>2. json = paymentJSON(a.how, challenge)
    BY <1>1, <2>1, Zenon DEF serialize
  <2>3. do.kind = "PAY" /\ verify_payment(json, challenge, ORIGIN, do) = <<"rpId", RpId>>
    BY <1>4, <1>5, Zenon
  <2>4. /\ a.how.origin = ORIGIN /\ a.how.top
        /\ a.how.sheet.payee = do.payee /\ a.how.sheet.total = do.total
    <3>1. PICK how \in Ceremonies : how = a.how
      BY <1>1
    <3>2. how.sheet # NoSheet /\ json = paymentJSON(how, challenge) /\ do.total \in Nat
          /\ verify_payment(json, challenge, ORIGIN, do) = <<"rpId", RpId>>
      BY <1>3, <2>1, <2>2, <2>3, <3>1, Zenon
    <3>3. how.origin = ORIGIN /\ how.top /\ how.sheet.payee = do.payee /\ how.sheet.total = do.total
      BY <3>2, SheetPaid
    <3> QED BY <3>1, <3>3, Zenon
  <2> QED BY <1>2, <2>3, <2>4, Zenon
<1>6. CASE Head(json) # PAYMENT
  <2>1. verify(clientDataJSON(a), challenge, ORIGIN)
    BY <1>4, <1>6, Zenon
  <2>2. a.how.origin = ORIGIN /\ a.how.top /\ a.how.sheet = NoSheet
    BY <2>1, PlainHere
  <2> QED BY <1>2, <2>2, Zenon
<1> QED BY <1>5, <1>6

LEMMA AuthorizeStepKeeps ==
  ASSUME IInv, NEW a \in signed, NEW place \in DOMAIN accounts, NEW do \in Doings, authorize(place, do, a)
  PROVE  Kept
<1> DEFINE c == place[1]
           address == place[2]
           nonce == accounts[place].nonce
           what == <<"action", c, address, nonce, do>>
           owner == accounts[place].owner
<1>1. TypeOK /\ Meant(a)
  BY DEF IInv, Placed, SignedInv
<1>2. a.challenge = encode(c, address, nonce, do)
  BY <1>1, AcceptorsChallenge DEF authorize, authorizes
<1>3. a.about = what
  BY <1>1, <1>2, MeantAction
<1>4. place = <<c, address>> /\ accounts[place].app \in Apps
  BY <1>1, AccountFields
<1>5. AccountsKept /\ accounts'[place].nonce = nonce + 1
  BY <1>1, AuthorizeKeeps DEF authorize
<1>6. OperationsKept /\ ConfigsKept /\ SignedKept
  BY Unchanged DEF authorize
<1>7. compute_nullifier(a.key, accounts[place].app) = owner
  BY DEF authorize, authorizes, proves
<1>8. accept(what, owner, a)
  BY DEF authorize
<1>9. what[1] = "action" /\ what[2] = c /\ what[3] = address /\ what[4] = nonce /\ what[5] = do
  OBVIOUS
<1>10. MadeRight(what, a.how)
  <2>1. authorizes(place, do, a)
    BY DEF authorize
  <2> HIDE DEF what
  <2> QED BY <1>1, <1>2, <1>9, <2>1, AuthorizesRight, Zenon DEF MadeRight
<1> HIDE DEF what, c, address
<1>11. Rightly(what, owner, a)
  BY <1>3, <1>4, <1>5, <1>7, <1>9, <1>10 DEF Rightly
<1> QED BY <1>5, <1>6, <1>8, <1>11 DEF Kept, HistoryKept

LEMMA OperationStepKeeps ==
  ASSUME IInv, NEW a \in signed, NEW c \in Chains, NEW wallet \in Wallets, validateUserOp(c, wallet, a)
  PROVE  Kept
<1> DEFINE place == <<c, wallet>>
           nonce == op_nonce[place]
           what == <<"operation", c, wallet, nonce>>
           owner == configs[place].nullifier
<1>1. TypeOK /\ Meant(a)
  BY DEF IInv, Placed, SignedInv
<1>2. a.challenge = userOpHash(c, wallet, nonce)
  BY <1>1, AcceptorsChallenge DEF validateUserOp, _isValid
<1>3. a.about = what
  BY <1>1, <1>2, MeantOperation
<1>4. place \in Chains \X Wallets /\ op_nonce' = [op_nonce EXCEPT ![place] = @ + 1]
  BY DEF validateUserOp
<1>5. AccountsKept /\ ConfigsKept /\ SignedKept
  BY Unchanged DEF validateUserOp
<1>6. place \in DOMAIN configs /\ configs[place].app \in Apps
  BY <1>1 DEF validateUserOp, _isValid, TypeOK
<1>7. compute_nullifier(a.key, configs[place].app) = owner
  BY DEF validateUserOp, _isValid, proves
<1>8. accept(what, owner, a)
  BY DEF validateUserOp
<1>9. what[1] = "operation" /\ <<what[2], what[3]>> = place /\ what[4] = nonce
  OBVIOUS
<1>12. MadeRight(what, a.how)
  <2>1. a.how.verified /\ _checkClientData(clientDataJSON(a), userOpHash(c, wallet, nonce))
    BY Zenon DEF validateUserOp, _isValid, proves, verify_assertion
  <2>2. a.how.origin = ORIGIN /\ a.how.top /\ a.how.sheet = NoSheet
    BY <1>1, <2>1, PlainHere
  <2> QED BY <2>1, <2>2, Zenon DEF MadeRight
<1> HIDE DEF what, place
<1>10. OperationsKept /\ op_nonce'[place] = op_nonce[place] + 1
  BY <1>1, <1>4 DEF TypeOK, OperationsKept
<1>11. Rightly(what, owner, a)
  BY <1>3, <1>4, <1>6, <1>7, <1>9, <1>10, <1>12 DEF Rightly
<1> QED BY <1>5, <1>8, <1>10, <1>11 DEF Kept, HistoryKept

\* What does not use a nonce leaves everything but the history alone.
LEMMA OthersKeep ==
  ASSUME IInv, UNCHANGED <<signed, accounts, configs, op_nonce>>,
         NEW what, NEW owner, NEW a \in signed, accept(what, owner, a), a.about = what,
         what[1] \notin {"action", "operation"},
         \E app \in Apps : compute_nullifier(a.key, app) = owner,
         a.how.verified, NEW challenge,
         _checkClientData(clientDataJSON(a), challenge) \/ signed_on_verakey(clientDataJSON(a), challenge)
  PROVE  Kept
<1>1. TypeOK /\ Meant(a)
  BY DEF IInv, Placed, SignedInv
<1>2. a.how.origin = ORIGIN /\ a.how.top /\ a.how.sheet = NoSheet
  BY <1>1, PlainHere
<1>3. MadeRight(what, a.how)
  BY <1>2, Zenon DEF MadeRight
<1>4. Rightly(what, owner, a)
  BY <1>3 DEF Rightly
<1> QED BY <1>4, Unchanged DEF Kept, HistoryKept

LEMMA MessageStepKeeps ==
  ASSUME IInv, NEW a \in signed, NEW c \in Chains, NEW wallet \in Wallets, NEW hash,
         isValidSignatureWithSender(c, wallet, hash, a)
  PROVE  Kept
<1>1. TypeOK /\ Meant(a)
  BY DEF IInv, Placed, SignedInv
<1>2. a.challenge = erc1271Challenge(c, wallet, hash)
  BY <1>1, AcceptorsChallenge DEF isValidSignatureWithSender, _isValid
<1>3. a.about = <<"message", c, wallet, hash>>
  BY <1>1, <1>2, MeantMessage
<1>4. \E app \in Apps : compute_nullifier(a.key, app) = configs[<<c, wallet>>].nullifier
  BY <1>1 DEF isValidSignatureWithSender, _isValid, TypeOK, proves
<1>5. <<"message", c, wallet, hash>>[1] \notin {"action", "operation"}
  OBVIOUS
<1>6. a.how.verified /\ _checkClientData(clientDataJSON(a), erc1271Challenge(c, wallet, hash))
  BY Zenon DEF isValidSignatureWithSender, _isValid, proves, verify_assertion
<1> QED BY <1>3, <1>4, <1>5, <1>6, OthersKeep DEF isValidSignatureWithSender

LEMMA SignInStepKeeps ==
  ASSUME IInv, NEW a \in signed, NEW c, NEW site \in Apps, NEW nullifier, NEW nonce,
         verifySignIn(c, site, nullifier, nonce, a)
  PROVE  Kept
<1>1. TypeOK /\ Meant(a)
  BY DEF IInv, Placed, SignedInv
<1>2. a.challenge = signInChallenge(c, site, nullifier, nonce)
  BY <1>1, AcceptorsChallenge DEF verifySignIn
<1>3. a.about = <<"sign-in", c, site, nonce>>
  BY <1>1, <1>2, MeantSignIn
<1>4. \E app \in Apps : compute_nullifier(a.key, app) = nullifier
  BY DEF verifySignIn, proves
<1>5. <<"sign-in", c, site, nonce>>[1] \notin {"action", "operation"}
  OBVIOUS
<1>6. a.how.verified /\ signed_on_verakey(clientDataJSON(a), signInChallenge(c, site, nullifier, nonce))
  BY Zenon DEF verifySignIn, proves, verify_assertion
<1> QED BY <1>3, <1>4, <1>5, <1>6, OthersKeep DEF verifySignIn

LEMMA DisclosureStepKeeps ==
  ASSUME IInv, NEW a \in signed, NEW c, NEW appA \in Apps, NEW appB \in Apps, NEW nullifierA, NEW nullifierB,
         NEW audience, verifyDisclosure(c, appA, nullifierA, appB, nullifierB, audience, a)
  PROVE  Kept
<1>1. TypeOK /\ Meant(a)
  BY DEF IInv, Placed, SignedInv
<1>2. a.challenge = linkDisclosureChallenge(c, appA, nullifierA, appB, nullifierB, audience)
  BY <1>1, AcceptorsChallenge DEF verifyDisclosure
<1>3. a.about = <<"link", c, appA, appB, audience>>
  BY <1>1, <1>2, MeantLink
<1>4. \E app \in Apps : compute_nullifier(a.key, app) = nullifierA
  BY DEF verifyDisclosure, proves_link
<1>5. <<"link", c, appA, appB, audience>>[1] \notin {"action", "operation"}
  OBVIOUS
<1>6. /\ a.how.verified
      /\ signed_on_verakey(clientDataJSON(a),
                           linkDisclosureChallenge(c, appA, nullifierA, appB, nullifierB, audience))
  BY Zenon DEF verifyDisclosure, proves_link, verify_assertion
<1> QED BY <1>3, <1>4, <1>5, <1>6, OthersKeep DEF verifyDisclosure

-----------------------------------------------------------------------------
(***************************************************************************)
(* The theorems.                                                           *)
(***************************************************************************)
LEMMA InitInv == Init => IInv
<1> SUFFICES ASSUME Init
             PROVE  IInv
  OBVIOUS
<1>1. DOMAIN accounts = {} /\ DOMAIN configs = {} /\ signed = {} /\ DOMAIN accepted = {}
  BY DEF Init
<1>2. accepted \in Seq(Range(accepted))
  BY DEF Init
<1>3. op_nonce \in [Chains \X Wallets -> Nat]
  BY DEF Init
<1> QED BY <1>1, <1>2, <1>3 DEF IInv, Placed, TypeOK, MadeByFactory, AddressMeansPolicy, SignedInv, NoncesPast,
                                AcceptedOnce, MadeForThis, SheetsArePayments, MadeAsAccepted, MadeHere, ShownIsPaid

LEMMA NextKeeps ==
  ASSUME IInv, Next
  PROVE  Kept
<1>1. CASE SignStep
  BY <1>1, SignStepKeeps
<1>2. CASE PlaceStep
  BY <1>2, CreateStepKeeps, InstallStepKeeps DEF PlaceStep
<1>3. CASE AcceptStep
  <2>1. PICK a \in signed :
          \/ \E place \in DOMAIN accounts, do \in Doings : authorize(place, do, a)
          \/ \E c \in Chains, wallet \in Wallets :
               \/ validateUserOp(c, wallet, a)
               \/ \E hash \in Messages : isValidSignatureWithSender(c, wallet, hash, a)
          \/ \E c \in Chains, site \in Apps : \E nullifier \in Nullifiers(site) :
               verifySignIn(c, site, nullifier, "nonce", a)
          \/ \E c \in Chains, appA, appB \in Apps :
               \E nullifierA \in Nullifiers(appA), nullifierB \in Nullifiers(appB) :
                 verifyDisclosure(c, appA, nullifierA, appB, nullifierB, "audience", a)
    BY <1>3 DEF AcceptStep
  <2> QED
    BY <2>1, AuthorizeStepKeeps, OperationStepKeeps, MessageStepKeeps, SignInStepKeeps, DisclosureStepKeeps
<1>4. ASSUME NEW c \in Chains, NEW wallet \in Wallets, onUninstall(c, wallet)
      PROVE  Kept
  BY <1>4, UninstallStepKeeps
<1>5. ASSUME NEW place \in DOMAIN accounts, NEW nullifier \in Nullifiers(accounts[place].app),
             execute_recovery(place, nullifier)
      PROVE  Kept
  BY <1>5, RecoveryStepKeeps
<1> QED BY <1>1, <1>2, <1>3, <1>4, <1>5 DEF Next

\* The strengthened invariant: signed challenges mean what their players meant, and accepted nonces are past.
THEOREM AuthorityInvariant == Spec => []IInv
<1>1. IInv /\ UNCHANGED vars => IInv'
  <2> SUFFICES ASSUME IInv, UNCHANGED vars
               PROVE  IInv'
    OBVIOUS
  <2>1. Kept
    BY Unchanged DEF Kept, HistoryKept, vars
  <2> QED BY <2>1, KeptInv
<1>2. IInv /\ [Next]_vars => IInv'
  BY <1>1, NextKeeps, KeptInv
<1> QED BY InitInv, <1>2, PTL DEF Spec

\* Every account is at the address of its policy, app and first owner, and addresses tell policies, on every chain.
THEOREM AlwaysPlaced == Spec => []Placed
<1>1. IInv => Placed
  BY DEF IInv
<1> QED BY <1>1, AuthorityInvariant, PTL

\* Whatever is signed and accepted, by any number of passkeys: what is accepted is what its player meant.
THEOREM AlwaysMadeForThis == Spec => []MadeForThis
<1>1. IInv => MadeForThis
  BY DEF IInv
<1> QED BY <1>1, AuthorityInvariant, PTL

\* No assertion moves an account or a wallet twice, however many are signed and accepted.
THEOREM AlwaysAcceptedOnce == Spec => []AcceptedOnce
<1>1. IInv => AcceptedOnce
  BY DEF IInv
<1> QED BY <1>1, AuthorityInvariant, PTL

\* What is accepted was made on VeraKey's page, in no other site's frame, by a verified player, and what a payment
\* sheet confirmed is the payment that is made: for origins, texts and totals of any length.
THEOREM AlwaysMadeAsAccepted == Spec => []MadeAsAccepted
<1>1. IInv => MadeAsAccepted
  BY DEF IInv
<1> QED BY <1>1, AuthorityInvariant, PTL

\* The contracts agree on an assertion's text wherever it ends, and a site agrees with their checks on the whole of it.
LEMMA AssertionAgrees ==
  ASSUME TypeOK, NEW a \in signed, Meant(a), NEW json, json = clientDataJSON(a)
  PROVE  /\ \A n \in 0 .. Len(json) :
              _checkClientData(SubSeq(json, 1, n), a.challenge) <=> verify(SubSeq(json, 1, n), a.challenge, ORIGIN)
         /\ signed_on_verakey(json, a.challenge) <=> matches(json, a.challenge, ORIGIN)
<1>1. PICK how \in Ceremonies : how = a.how
  BY DEF TypeOK
<1>2. PICK challenge : challenge = a.challenge
  OBVIOUS
<1>3. json = serialize(how, challenge)
  BY <1>1, <1>2 DEF clientDataJSON
<1>4. challenge # QUOTE /\ challenge # CROSS_ORIGIN_TRUE
  BY <1>2, ChallengeIsNoToken
<1>5. CASE how.sheet = NoSheet
  <2>1. json = getJSON(how, challenge)
    BY <1>3, <1>5, Zenon DEF serialize
  <2>2. \A n \in 0 .. Len(json) : _checkClientData(SubSeq(json, 1, n), challenge) <=> verify(SubSeq(json, 1, n), challenge, ORIGIN)
    BY <1>5, <2>1, CutAgrees
  <2>3. signed_on_verakey(json, challenge) <=> matches(json, challenge, ORIGIN)
    BY <1>4, <1>5, <2>1, WholeAgrees, Zenon
  <2> QED BY <1>2, <2>2, <2>3, Zenon
<1>6. CASE how.sheet # NoSheet
  BY <1>2, <1>3, <1>6, NoPaymentReads, Zenon
<1> QED BY <1>5, <1>6

\* The account and the module take the same texts, cut anywhere and of any length; and a whole text of any length
\* passes a site exactly if it passes the contracts' checks other than their limit on its length.
THEOREM AlwaysReadersAgree == Spec => []ReadersAgree
<1>1. IInv => ReadersAgree
  <2> SUFFICES ASSUME IInv
               PROVE  ReadersAgree
    OBVIOUS
  <2>1. TypeOK /\ \A a \in signed : Meant(a)
    BY DEF IInv, Placed, SignedInv
  <2> QED BY <2>1, AssertionAgrees, Zenon DEF ReadersAgree
<1> QED BY <1>1, AuthorityInvariant, PTL

\* A genuine assertion of the account's owner passes what the account asks.
LEMMA GenuinePasses ==
  ASSUME TypeOK, NEW a \in signed, Meant(a), Genuine(a), NEW place \in DOMAIN accounts, NEW do \in Doings,
         a.about = <<"action", place[1], place[2], accounts[place].nonce, do>>,
         accounts[place].owner = compute_nullifier(a.key, accounts[place].app),
         SheetFits(a.about, a.how), a.how.sheet \in {NoSheet, [payee |-> do.payee, total |-> do.total]}
  PROVE  authorizes(place, do, a)
<1>1. PICK how \in Ceremonies : how = a.how
  BY DEF TypeOK
<1>2. PICK challenge : challenge = encode(place[1], place[2], accounts[place].nonce, do)
  OBVIOUS
<1>3. a.challenge = challenge
  BY <1>2, ActionChallenge
<1>4. PICK json : json = clientDataJSON(a)
  OBVIOUS
<1>5. json = serialize(how, challenge)
  BY <1>1, <1>3, <1>4 DEF clientDataJSON
<1>6. /\ how.origin = ORIGIN /\ how.topOrigin = ORIGIN /\ how.top /\ how.verified /\ ~how.extensions
      /\ Len(json) <= MAX_CLIENT_DATA_LEN
  BY <1>1, <1>4, Zenon DEF Genuine
<1>7. proves(a, RpId, accounts[place].app, accounts[place].owner)
  BY <1>1, <1>6, Zenon DEF proves, verify_assertion
<1>8. CASE how.sheet = NoSheet
  <2>1. json = getJSON(how, challenge) /\ challenge # QUOTE /\ challenge # CROSS_ORIGIN_TRUE
    BY <1>3, <1>5, <1>8, ChallengeIsNoToken, Zenon DEF serialize
  <2>2. verify(json, challenge, ORIGIN)
    BY <1>6, <1>8, <2>1, WholeAgrees, Zenon DEF verify
  <2>3. Head(json) # PAYMENT
    BY <1>5, <1>8, FirstToken, SheetTokens, Zenon
  <2> QED BY <1>2, <1>4, <1>7, <2>2, <2>3, Zenon DEF authorizes
<1>9. CASE how.sheet # NoSheet
  <2>1. json = paymentJSON(how, challenge) /\ Head(json) = PAYMENT
    BY <1>5, <1>9, FirstToken, Zenon DEF serialize
  <2>2. how.sheet.payee = do.payee /\ how.sheet.total = do.total
    BY <1>1, <1>9
  <2>3. do.kind = "PAY"
    BY <1>1, <1>9 DEF SheetFits
  <2>4. do.total \in Nat
    BY DoingsAssumption, Zenon
  <2>5. verify_payment(json, challenge, ORIGIN, do) = <<"rpId", RpId>>
    BY <1>6, <1>9, <2>1, <2>2, <2>4, SheetPasses
  <2> QED BY <1>2, <1>4, <1>7, <2>1, <2>3, <2>5, Zenon DEF authorizes
<1> QED BY <1>8, <1>9

\* A genuine assertion for the account's current nonce is always accepted, whatever the browser appends to the text,
\* and with the sheet for every total.
THEOREM AlwaysGenuineAccepted == Spec => []GenuineAccepted
<1>1. IInv => GenuineAccepted
  <2> SUFFICES ASSUME IInv
               PROVE  GenuineAccepted
    OBVIOUS
  <2>1. TypeOK /\ \A a \in signed : Meant(a) /\ SheetFits(a.about, a.how)
    BY DEF IInv, Placed, SignedInv, SheetsArePayments, SheetFits
  <2> QED BY <2>1, GenuinePasses, Zenon DEF GenuineAccepted
<1> QED BY <1>1, AuthorityInvariant, PTL

LEMMA NewEntry ==
  ASSUME TypeOK, NEW what, NEW owner, NEW a, accept(what, owner, a), NEW i \in DOMAIN accepted' \ DOMAIN accepted
  PROVE  accepted'[i] = [what |-> what, owner |-> owner, a |-> a]
<1>1. /\ Len(accepted) \in Nat /\ DOMAIN accepted = 1 .. Len(accepted) /\ DOMAIN accepted' = 1 .. Len(accepted) + 1
      /\ accepted'[Len(accepted) + 1] = [what |-> what, owner |-> owner, a |-> a]
  BY AcceptedGrows
<1>2. i = Len(accepted) + 1
  BY <1>1
<1> QED BY <1>1, <1>2

LEMMA OthersOwned ==
  ASSUME NEW entry, entry.what[1] \notin {"action", "sign-in", "link"}
  PROVE  OwnedNow(entry)
BY DEF OwnedNow

LEMMA AuthorizedOwned ==
  ASSUME TypeOK, NEW a, NEW place \in DOMAIN accounts, NEW do, authorize(place, do, a),
         NEW i \in DOMAIN accepted' \ DOMAIN accepted
  PROVE  OwnedNow(accepted'[i])
<1> DEFINE what == <<"action", place[1], place[2], accounts[place].nonce, do>>
<1>1. accept(what, accounts[place].owner, a)
  BY DEF authorize
<1>2. what[1] = "action" /\ <<what[2], what[3]>> = place
  BY AccountFields
<1> HIDE DEF what
<1>3. accepted'[i].what = what /\ accepted'[i].a = a
  BY <1>1, NewEntry
<1>4. compute_nullifier(a.key, accounts[place].app) = accounts[place].owner
  BY DEF authorize, authorizes, proves
<1> QED BY <1>2, <1>3, <1>4 DEF OwnedNow

\* An account that is still the player's who would have deployed it belongs to the passkey that proves this player.
LEMMA StillTheirs ==
  ASSUME Placed, NEW c, NEW app, NEW nullifier, still_owned(c, app, nullifier), NEW key,
         compute_nullifier(key, app) = nullifier,
         NEW p \in DOMAIN accounts, p = <<c, account_address(c, app, nullifier)>>
  PROVE  accounts[p].owner = compute_nullifier(key, accounts[p].app)
<1>1. accounts[p].owner = nullifier
  BY DEF still_owned
<1>2. accounts[p].app = app
  <2> DEFINE salt == <<app, nullifier, <<"config", Policy[c]>>>>
             first(n) == <<accounts[p].app, n, <<"config", Policy[c]>>>>
  <2>1. PICK n : p[2] = <<FACTORY, <<accounts[p].app, n, <<"config", Policy[p[1]]>>>>>>
    BY DEF Placed, MadeByFactory, account_address, account_salt, config_hash
  <2>2. p[1] = c /\ p[2] = <<FACTORY, salt>>
    BY DEF account_address, account_salt, config_hash
  <2>3. <<FACTORY, salt>> = <<FACTORY, first(n)>>
    BY <2>1, <2>2
  <2> HIDE DEF salt, first
  <2>4. salt = first(n)
    BY <2>3
  <2> QED BY <2>4 DEF salt, first
<1> QED BY <1>1, <1>2

LEMMA SignedInOwned ==
  ASSUME Placed, NEW a, NEW c, NEW site, NEW nullifier, NEW nonce, verifySignIn(c, site, nullifier, nonce, a),
         NEW i \in DOMAIN accepted' \ DOMAIN accepted
  PROVE  OwnedNow(accepted'[i])
<1> DEFINE what == <<"sign-in", c, site, nonce>>
<1>1. accept(what, nullifier, a)
  BY DEF verifySignIn
<1>2. what[1] = "sign-in" /\ what[2] = c /\ what[3] = site
  OBVIOUS
<1>3. compute_nullifier(a.key, site) = nullifier /\ still_owned(c, site, nullifier)
  BY DEF verifySignIn, proves
<1> HIDE DEF what
<1>4. accepted'[i].what = what /\ accepted'[i].a = a
  BY <1>1, NewEntry DEF Placed
<1> QED BY <1>2, <1>3, <1>4, StillTheirs DEF OwnedNow

LEMMA LinkedOwned ==
  ASSUME Placed, NEW a, NEW c, NEW appA, NEW nullifierA, NEW appB, NEW nullifierB, NEW audience,
         verifyDisclosure(c, appA, nullifierA, appB, nullifierB, audience, a),
         NEW i \in DOMAIN accepted' \ DOMAIN accepted
  PROVE  OwnedNow(accepted'[i])
<1> DEFINE what == <<"link", c, appA, appB, audience>>
<1>1. accept(what, nullifierA, a)
  BY DEF verifyDisclosure
<1>2. what[1] = "link" /\ what[2] = c /\ what[3] = appA /\ what[4] = appB
  OBVIOUS
<1>3. /\ compute_nullifier(a.key, appA) = nullifierA /\ still_owned(c, appA, nullifierA)
      /\ compute_nullifier(a.key, appB) = nullifierB /\ still_owned(c, appB, nullifierB)
  BY DEF verifyDisclosure, proves_link
<1> HIDE DEF what
<1>4. accepted'[i].what = what /\ accepted'[i].a = a
  BY <1>1, NewEntry DEF Placed
<1> QED BY <1>2, <1>3, <1>4, StillTheirs DEF OwnedNow

\* Whatever it signed before, a passkey that no longer owns a deployed account neither moves it nor signs in with it
\* nor shows it linked to another.
THEOREM RemovedAlwaysOut == Spec => RemovedStaysOut
<1> DEFINE Out == \A i \in DOMAIN accepted' \ DOMAIN accepted : OwnedNow(accepted'[i])
<1>1. IInv /\ [Next]_vars => Out
  <2> SUFFICES ASSUME IInv, [Next]_vars, NEW i \in DOMAIN accepted' \ DOMAIN accepted
               PROVE  OwnedNow(accepted'[i])
    OBVIOUS
  <2>1. TypeOK /\ Placed
    BY DEF IInv, Placed
  <2>2. accepted' # accepted
    OBVIOUS
  <2>3. Next
    BY <2>2 DEF vars
  <2>4. AcceptStep
    <3>1. ~SignStep
      <4>1. \A key, about, challenge, how : ~sign(key, about, challenge, how)
        BY <2>2 DEF sign
      <4>2. \A key, app, c, do, how : ~sign_action(key, app, c, do, how)
        BY <4>1 DEF sign_action
      <4>3. \A key, c, wallet, how : ~sign_operation(key, c, wallet, how)
        BY <4>1, Zenon DEF sign_operation
      <4>4. \A key, c, wallet, hash, how : ~sign_message(key, c, wallet, hash, how)
        BY <4>1, Zenon DEF sign_message
      <4>5. \A key, c, site, nonce, how : ~sign_in(key, c, site, nonce, how)
        BY <4>1, Zenon DEF sign_in
      <4>6. \A key, c, appA, appB, audience, how : ~disclose(key, c, appA, appB, audience, how)
        BY <4>1, Zenon DEF disclose
      <4> QED BY <4>2, <4>3, <4>4, <4>5, <4>6 DEF SignStep
    <3>2. ~PlaceStep
      BY <2>2 DEF PlaceStep, create_account, onInstall
    <3>3. \A c, wallet : ~onUninstall(c, wallet)
      BY <2>2 DEF onUninstall
    <3>4. \A place, nullifier : ~execute_recovery(place, nullifier)
      BY <2>2 DEF execute_recovery
    <3> QED BY <2>3, <3>1, <3>2, <3>3, <3>4 DEF Next
  <2>5. PICK a \in signed :
          \/ \E place \in DOMAIN accounts, do \in Doings : authorize(place, do, a)
          \/ \E c \in Chains, wallet \in Wallets :
               \/ validateUserOp(c, wallet, a)
               \/ \E hash \in Messages : isValidSignatureWithSender(c, wallet, hash, a)
          \/ \E c \in Chains, site \in Apps : \E nullifier \in Nullifiers(site) :
               verifySignIn(c, site, nullifier, "nonce", a)
          \/ \E c \in Chains, appA, appB \in Apps :
               \E nullifierA \in Nullifiers(appA), nullifierB \in Nullifiers(appB) :
                 verifyDisclosure(c, appA, nullifierA, appB, nullifierB, "audience", a)
    BY <2>4 DEF AcceptStep
  <2>6. ASSUME NEW c, NEW wallet, validateUserOp(c, wallet, a)
        PROVE  OwnedNow(accepted'[i])
    <3> DEFINE what == <<"operation", c, wallet, op_nonce[<<c, wallet>>]>>
    <3>1. accept(what, configs[<<c, wallet>>].nullifier, a) /\ what[1] \notin {"action", "sign-in", "link"}
      BY <2>6 DEF validateUserOp
    <3> HIDE DEF what
    <3> QED BY <2>1, <3>1, NewEntry, OthersOwned
  <2>7. ASSUME NEW c, NEW wallet, NEW hash, isValidSignatureWithSender(c, wallet, hash, a)
        PROVE  OwnedNow(accepted'[i])
    <3> DEFINE what == <<"message", c, wallet, hash>>
    <3>1. accept(what, configs[<<c, wallet>>].nullifier, a) /\ what[1] \notin {"action", "sign-in", "link"}
      BY <2>7 DEF isValidSignatureWithSender
    <3> HIDE DEF what
    <3> QED BY <2>1, <3>1, NewEntry, OthersOwned
  <2> QED BY <2>1, <2>5, <2>6, <2>7, AuthorizedOwned, SignedInOwned, LinkedOwned
<1> QED BY <1>1, AuthorityInvariant, PTL DEF Spec, RemovedStaysOut
=============================================================================
