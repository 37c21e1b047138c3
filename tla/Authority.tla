------------------------------- MODULE Authority -------------------------------
(***************************************************************************)
(* What one passkey's assertions are good for.  The same passkey approves  *)
(* payments and changes of the VeraKey accounts of its player on several   *)
(* chains (stylus/account, made by stylus/factory), operations and         *)
(* messages of ERC-7579 wallets (VeraKeyValidator.sol), sign-ins to sites  *)
(* (signin.ts) and link disclosures (disclosure.ts).  Every assertion and  *)
(* its proof may reach every one of them, any number of times.             *)
(*                                                                         *)
(* keccak256, sha256 and Poseidon2 do not collide: a digest is the tuple   *)
(* that is hashed.  The policy an account puts on what it authorized is    *)
(* module VeraKeyAccount.                                                  *)
(***************************************************************************)
EXTENDS ClientData

CONSTANTS
  Keys,          \* passkeys
  Apps,          \* sites; a site's app id is a hash of its origin
  Chains,
  Wallets,       \* ERC-7579 smart accounts, at the same address on every chain
  FACTORY,       \* the factory's address, on every chain
  Policy,        \* Policy[c]: what the factory of chain c was deployed with
  Doings,        \* [kind, payee, total]: what an action does
  Ceremonies,    \* how an assertion may be made (see ClientData)
  MaxPlaces,     \* bound: accounts created and modules installed
  MaxSigned,     \* bound: assertions; several only for actions of one account, made the same way
  MaxAccepted    \* bound: assertions accepted

\* The browser's texts are sequences of tokens, and an action is what it does, to whom and of how much.
ASSUME TextAssumption ==
  /\ ORIGIN \in Seq(Range(ORIGIN))
  /\ \A how \in Ceremonies : \A text \in {how.origin, how.topOrigin, how.tail} : text \in Seq(Range(text))
ASSUME DoingsAssumption ==
  \A do \in Doings : do = [kind |-> do.kind, payee |-> do.payee, total |-> do.total] /\ do.total \in Nat

\* How browsers write the text (external; WebAuthn 5.8.1.1, as client_data.rs and webauthn.ts rely on it): no origin
\* holds punctuation; `crossOrigin` is the first member after the origin; the text ends with its brace; and only
\* logos may stand between the name and the total of a payment sheet.
Punctuation == {QUOTE, CROSS_ORIGIN_TRUE, SPC_RP_ID_KEY, SPC_CROSS_ORIGIN_KEY, SPC_PAYEE_NAME_KEY}
ASSUME BrowserAssumption ==
  /\ Range(ORIGIN) \intersect Punctuation = {}
  /\ \A how \in Ceremonies :
       /\ how.top \in BOOLEAN /\ (Range(how.origin) \union Range(how.topOrigin)) \intersect Punctuation = {}
       /\ how.sheet = NoSheet =>
            /\ how.tail # <<>> /\ Last(how.tail) = CLOSE
            /\ \A token \in Range(how.tail) : token = CLOSE \/ token[1] = ","
            /\ IF how.top THEN CROSS_ORIGIN_TRUE \notin Range(how.tail) ELSE how.tail[1] = CROSS_ORIGIN_TRUE
       /\ how.sheet # NoSheet => how.tail \in {<<>>, <<SPC_LOGOS>>} /\ how.sheet.total \in Nat

VARIABLES
  signed,        \* the assertions: who signed what, how
  accounts,      \* accounts[c]: the accounts deployed on c, by address
  configs,       \* VeraKeyValidator._configs, on each chain
  op_nonce,      \* the EntryPoint's nonce of each wallet (external)
  accepted       \* history: what was accepted, in order

vars == <<signed, accounts, configs, op_nonce, accepted>>

-------------------------------------------------------------------------------
(* Challenges.                                                             *)

\* action.rs and action.ts.
encode(c, account, nonce, do) == <<"VeraKeyAction", c, account, nonce, do.kind, do.payee, do.total>>

\* Mutant: the passkey signs the message itself.
erc1271Challenge_raw(c, wallet, hash) == hash

erc1271Challenge(c, wallet, hash) == <<"VeraKeyERC1271", c, wallet, hash>>

\* EntryPoint v0.7 (external).
userOpHash(c, wallet, nonce) == <<"UserOperation", c, wallet, nonce>>

signInChallenge(c, site, nullifier, nonce) ==
  <<"VeraKeySignIn", c, FACTORY, site, site, nullifier, nonce>>  \* the origin, and the app id made of it

linkDisclosureChallenge(c, appA, nullifierA, appB, nullifierB, audience) ==
  <<"VeraKeyLinkDisclosure", c, FACTORY, appA, nullifierA, appB, nullifierB, audience>>

-------------------------------------------------------------------------------
(* The circuits.                                                           *)

compute_nullifier(key, app) == <<key, app>>

\* verakey_lib: rpIdHash, user verified, no extensions, and the passkey's signature.
verify_assertion(a, rp_id) == rp_id = RpId /\ a.how.verified /\ ~a.how.extensions

\* circuits/webauthn, and the verifier of its proofs.
proves(a, rp_id, app, nullifier) ==
  verify_assertion(a, rp_id) /\ compute_nullifier(a.key, app) = nullifier

\* circuits/link.
proves_link(a, appA, nullifierA, appB, nullifierB) ==
  /\ verify_assertion(a, RpId)
  /\ appA # appB
  /\ compute_nullifier(a.key, appA) = nullifierA
  /\ compute_nullifier(a.key, appB) = nullifierB

clientDataJSON(a) == serialize(a.how, a.challenge)

-------------------------------------------------------------------------------
(* The factory.                                                            *)

config_hash(c) == <<"config", Policy[c]>>

\* Mutant: the salt does not commit to the configuration.
account_salt_bare(c, app, nullifier) == <<app, nullifier>>

account_salt(c, app, nullifier) == <<app, nullifier, config_hash(c)>>

\* CREATE2: deployer, salt and the clone's code.
account_address(c, app, nullifier) == <<FACTORY, account_salt(c, app, nullifier)>>

\* The places something may be accepted at are bounded together.
Room == Cardinality(DOMAIN accounts) + Cardinality(DOMAIN configs) < MaxPlaces

\* An account that exists is answered as it is; initialize runs in the transaction that deploys.
create_account(c, app, nullifier) ==
  LET place == <<c, account_address(c, app, nullifier)>>
  IN /\ Room /\ place \notin DOMAIN accounts
     /\ accounts' = [p \in DOMAIN accounts \union {place} |->
                       IF p = place THEN [app |-> app, owner |-> nullifier, policy |-> Policy[c], nonce |-> 0]
                       ELSE accounts[p]]
     /\ UNCHANGED <<signed, configs, op_nonce, accepted>>

\* VeraKeyAccount.execute_recovery: another passkey is the owner.
execute_recovery(place, nullifier) ==
  /\ accounts' = [accounts EXCEPT ![place].owner = nullifier]
  /\ UNCHANGED <<signed, configs, op_nonce, accepted>>

-------------------------------------------------------------------------------
(* The passkey signs, in one ceremony.                                     *)

\* history: `about` is what the player meant, whatever the challenge encodes of it.
sign(key, about, challenge, how) ==
  /\ \A a \in signed : a.about[1] = "action" /\ SubSeq(a.about, 1, 3) = SubSeq(about, 1, 3)
  /\ signed' = signed \union {[key |-> key, about |-> about, challenge |-> challenge, how |-> how]}
  /\ UNCHANGED <<accounts, configs, op_nonce, accepted>>

plain(how) == how.sheet = NoSheet

\* client.ts authorize: the account's nonce is read first; its player may show the payment in the sheet.
sign_action(key, app, c, do, how) ==
  LET address == account_address(c, app, compute_nullifier(key, app))
      nonce == IF <<c, address>> \in DOMAIN accounts THEN accounts[<<c, address>>].nonce ELSE 0
  IN /\ plain(how) \/ do.kind = "PAY"
     /\ sign(key, <<"action", c, address, nonce, do>>, encode(c, address, nonce, do), how)

\* kernel.ts signUserOperation.
sign_operation(key, c, wallet, how) ==
  LET nonce == op_nonce[<<c, wallet>>]
  IN plain(how) /\ sign(key, <<"operation", c, wallet, nonce>>, userOpHash(c, wallet, nonce), how)

\* A message a site asks a wallet to sign may be any digest, an action's or an operation's too.
Messages == {<<"text">>}
  \union {userOpHash(c, w, op_nonce[<<c, w>>]) : c \in Chains, w \in Wallets}
  \union {encode(p[1], p[2], accounts[p].nonce, do) : p \in DOMAIN accounts, do \in Doings}

\* validator.ts: wallets sign the bound challenge, never the message.
sign_message(key, c, wallet, hash, how) ==
  plain(how) /\ sign(key, <<"message", c, wallet, hash>>, erc1271Challenge(c, wallet, hash), how)

\* client.ts proveSignIn and createDisclosure.
sign_in(key, c, site, nonce, how) ==
  LET nullifier == compute_nullifier(key, site)
  IN plain(how) /\ sign(key, <<"sign-in", c, site, nonce>>, signInChallenge(c, site, nullifier, nonce), how)

disclose(key, c, appA, appB, audience, how) ==
  /\ plain(how) /\ appA # appB
  /\ sign(key, <<"link", c, appA, appB, audience>>,
          linkDisclosureChallenge(c, appA, compute_nullifier(key, appA), appB, compute_nullifier(key, appB), audience),
          how)

-------------------------------------------------------------------------------
(* Whoever accepts one.                                                    *)

\* history: `what` is what the accepting side takes the assertion for, and `owner` who it takes its player for.
accept(what, owner, a) == accepted' = Append(accepted, [what |-> what, owner |-> owner, a |-> a])

\* VeraKeyAccount.authorize: `do` and everything else come from the caller, the rest from the account.
authorizes(place, do, a) ==
  LET account == accounts[place]
      action_hash == encode(place[1], place[2], account.nonce, do)
      json == clientDataJSON(a)
  IN /\ IF Head(json) = PAYMENT
        THEN /\ do.kind = "PAY"
             /\ verify_payment(json, action_hash, ORIGIN, do) = <<"rpId", RpId>>
        ELSE verify(json, action_hash, ORIGIN)
     /\ proves(a, RpId, account.app, account.owner)

\* Mutant: the nonce stays.
authorize_again(place, do, a) ==
  /\ Len(accepted) < MaxAccepted
  /\ authorizes(place, do, a)
  /\ accept(<<"action", place[1], place[2], accounts[place].nonce, do>>, accounts[place].owner, a)
  /\ UNCHANGED <<signed, accounts, configs, op_nonce>>

authorize(place, do, a) ==
  /\ Len(accepted) < MaxAccepted
  /\ authorizes(place, do, a)
  /\ accounts' = [accounts EXCEPT ![place].nonce = @ + 1]
  /\ accept(<<"action", place[1], place[2], accounts[place].nonce, do>>, accounts[place].owner, a)
  /\ UNCHANGED <<signed, configs, op_nonce>>

\* VeraKeyValidator: anyone's nullifier can be installed, and removed, by any wallet.
onInstall(c, wallet, app, nullifier) ==
  /\ Room /\ <<c, wallet>> \notin DOMAIN configs
  /\ configs' = [p \in DOMAIN configs \union {<<c, wallet>>} |->
                   IF p = <<c, wallet>> THEN [app |-> app, nullifier |-> nullifier] ELSE configs[p]]
  /\ UNCHANGED <<signed, accounts, op_nonce, accepted>>

onUninstall(c, wallet) ==
  /\ <<c, wallet>> \in DOMAIN configs
  /\ configs' = [p \in DOMAIN configs \ {<<c, wallet>>} |-> configs[p]]
  /\ UNCHANGED <<signed, accounts, op_nonce, accepted>>

_isValid(c, wallet, challenge, a) ==
  /\ <<c, wallet>> \in DOMAIN configs
  /\ _checkClientData(clientDataJSON(a), challenge)
  /\ proves(a, RpId, configs[<<c, wallet>>].app, configs[<<c, wallet>>].nullifier)

\* The EntryPoint asks the sender of an operation, which asks the module; then the nonce is used.
validateUserOp(c, wallet, a) ==
  LET nonce == op_nonce[<<c, wallet>>]
  IN /\ Len(accepted) < MaxAccepted
     /\ _isValid(c, wallet, userOpHash(c, wallet, nonce), a)
     /\ op_nonce' = [op_nonce EXCEPT ![<<c, wallet>>] = @ + 1]
     /\ accept(<<"operation", c, wallet, nonce>>, configs[<<c, wallet>>].nullifier, a)
     /\ UNCHANGED <<signed, accounts, configs>>

isValidSignatureWithSender(c, wallet, hash, a) ==
  /\ Len(accepted) < MaxAccepted
  /\ _isValid(c, wallet, erc1271Challenge(c, wallet, hash), a)
  /\ accept(<<"message", c, wallet, hash>>, configs[<<c, wallet>>].nullifier, a)
  /\ UNCHANGED <<signed, accounts, configs, op_nonce>>

\* Mutant: who owns the account now is not asked.
still_owned_once(c, app, nullifier) == TRUE

\* The account of a player is not somebody else's: not deployed, or still theirs.
still_owned(c, app, nullifier) ==
  LET place == <<c, account_address(c, app, nullifier)>>
  IN place \in DOMAIN accounts => accounts[place].owner = nullifier

\* signin.ts checkSignIn, for a site on chain c: the statement comes from the browser, the nonce is the site's own.
verifySignIn(c, site, nullifier, nonce, a) ==
  /\ Len(accepted) < MaxAccepted
  /\ signed_on_verakey(clientDataJSON(a), signInChallenge(c, site, nullifier, nonce))
  /\ proves(a, RpId, site, nullifier)
  /\ still_owned(c, site, nullifier)
  /\ accept(<<"sign-in", c, site, nonce>>, nullifier, a)
  /\ UNCHANGED <<signed, accounts, configs, op_nonce>>

\* disclosure.ts verifyDisclosure.
verifyDisclosure(c, appA, nullifierA, appB, nullifierB, audience, a) ==
  LET challenge == linkDisclosureChallenge(c, appA, nullifierA, appB, nullifierB, audience)
  IN /\ Len(accepted) < MaxAccepted
     /\ signed_on_verakey(clientDataJSON(a), challenge)
     /\ proves_link(a, appA, nullifierA, appB, nullifierB)
     /\ still_owned(c, appA, nullifierA) /\ still_owned(c, appB, nullifierB)
     /\ accept(<<"link", c, appA, appB, audience>>, nullifierA, a)
     /\ UNCHANGED <<signed, accounts, configs, op_nonce>>

-------------------------------------------------------------------------------

Init ==
  /\ signed = {}
  /\ accounts = [p \in {} |-> {}] /\ configs = [p \in {} |-> {}]
  /\ op_nonce = [p \in Chains \X Wallets |-> 0]
  /\ accepted = <<>>

Nullifiers(app) == {compute_nullifier(key, app) : key \in Keys}

SignStep ==
  \E key \in Keys, c \in Chains, how \in Ceremonies :
    /\ Cardinality(signed) < MaxSigned /\ \A a \in signed : a.how = how
    /\ \/ \E app \in Apps, do \in Doings : sign_action(key, app, c, do, how)
       \/ \E wallet \in Wallets : sign_operation(key, c, wallet, how)
       \/ \E wallet \in Wallets, hash \in Messages : sign_message(key, c, wallet, hash, how)
       \/ \E site \in Apps : sign_in(key, c, site, "nonce", how)
       \/ \E appA, appB \in Apps : disclose(key, c, appA, appB, "audience", how)

PlaceStep ==
  \E c \in Chains, app \in Apps : \E nullifier \in Nullifiers(app) :
    \/ create_account(c, app, nullifier)
    \/ \E wallet \in Wallets : onInstall(c, wallet, app, nullifier)

AcceptStep ==
  \E a \in signed :
    \/ \E place \in DOMAIN accounts, do \in Doings : authorize(place, do, a)
    \/ \E c \in Chains, wallet \in Wallets :
         \/ validateUserOp(c, wallet, a)
         \/ \E hash \in Messages : isValidSignatureWithSender(c, wallet, hash, a)
    \/ \E c \in Chains, site \in Apps : \E nullifier \in Nullifiers(site) :
         verifySignIn(c, site, nullifier, "nonce", a)
    \/ \E c \in Chains, appA, appB \in Apps :
         \E nullifierA \in Nullifiers(appA), nullifierB \in Nullifiers(appB) :
           verifyDisclosure(c, appA, nullifierA, appB, nullifierB, "audience", a)

Next ==
  \/ SignStep \/ PlaceStep \/ AcceptStep
  \/ \E c \in Chains, wallet \in Wallets : onUninstall(c, wallet)
  \/ \E place \in DOMAIN accounts : \E nullifier \in Nullifiers(accounts[place].app) :
       execute_recovery(place, nullifier)

Spec == Init /\ [][Next]_vars
=============================================================================
