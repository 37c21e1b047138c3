------------------------------ MODULE SiteKit ------------------------------
(***************************************************************************)
(* The integration kit on a site's servers (packages/sdk/src/server.ts):   *)
(* signing in with a nonce, sessions that a sign-out or the loss of the    *)
(* passkey ends, and payments accepted once.  Several processes share one  *)
(* durable store and cache for themselves what the chain said of owners.   *)
(*                                                                         *)
(* An action is a stretch of a handler between two awaits.  Time is in     *)
(* seconds and passes at any await; the kit's cookies cannot be forged,    *)
(* but whoever had one may present it in any number of requests.           *)
(***************************************************************************)
EXTENDS Integers, Sequences, FiniteSets

CONSTANTS
  Processes, Players, Nonces, Payments,
  Requests,            \* the requests that may arrive
  Job,                 \* Job[r]: [kind, process, player] and, by kind, a nonce,
                       \* a session (the sign-in that started it), a payment
  SignedInAtStart,     \* sign-ins done before the start
  Payer,               \* Payer[h]: whose account made payment h
  NONCE_TTL, NONCE_CLAIM, SESSION_TTL,
  OwnerCheck,          \* ownerCheckSeconds
  OWNER_CHECK_TIMEOUT, OWNER_RETRY, MAX_OWNER_ENTRIES,
  StoreDelay,          \* from a nonce's check to its claim in the store
  MaxTime,             \* bound: the last second
  MaxFailures,         \* bound: calls of the store or the chain that fail
  MaxCrashes           \* bound: restarts of a process

Kinds == {"signIn", "read", "signOut", "pay"}
Kind(r) == Job[r].kind
Process(r) == Job[r].process
Player(r) == Job[r].player
SignIns == {r \in Requests : Kind(r) = "signIn"}
\* The session a request presents, and the payment.
Session(r) == Job[r].session
Payment(r) == Job[r].payment

ASSUME JobAssumption ==
  \A r \in Requests :
    /\ Kind(r) \in Kinds /\ Process(r) \in Processes /\ Player(r) \in Players
    /\ Kind(r) = "signIn" => Job[r].nonce \in Nonces
    /\ Kind(r) # "signIn" => Session(r) \in SignIns /\ Player(r) = Player(Session(r))
    /\ Kind(r) = "pay" => Payment(r) \in Payments
ASSUME StartAssumption ==
  /\ SignedInAtStart \subseteq SignIns /\ Payer \in [Payments -> Players]
  /\ \A r, s \in SignedInAtStart : Job[r].nonce = Job[s].nonce => r = s
ASSUME TimesAssumption ==
  /\ {NONCE_TTL, NONCE_CLAIM, SESSION_TTL, MAX_OWNER_ENTRIES} \subseteq Nat \ {0}
  /\ {OwnerCheck, OWNER_CHECK_TIMEOUT, OWNER_RETRY, StoreDelay} \subseteq Nat
\* "A little longer than a nonce lives": the claim outlives the nonce by more
\* than the store takes.
ASSUME ClaimAssumption == NONCE_TTL + StoreDelay <= NONCE_CLAIM
ASSUME BoundsAssumption == {MaxTime, MaxFailures, MaxCrashes} \subseteq Nat

VARIABLES
  now,
  stage,      \* stage[r]: the await request r has reached, or its outcome
  since,      \* since[r]: when r last looked at the clock
  issued,     \* issued[n]: when nonce n expires, 0 before it is issued
  expiry,     \* expiry[s]: when session s expires, 0 before it starts
  \* the store
  nonceUntil, signoutUntil, paymentClaimed,
  \* each process
  ownerSeen,  \* ownerSeen[p]: what the chain said of sessions, oldest first
  ownerChecks,\* ownerChecks[p]: the checks under way
  paying,     \* paying[p]: players with a payment being checked
  \* the chain
  removed,    \* players whose passkey was removed from their account
  mined,      \* payments in a block
  \* bounds
  failures, crashes,
  \* history, read by properties only
  removedAt, startedAt, failedAt, \* of a player's passkey; of a session; of its last failed check
  acceptedAt, \* acceptedAt[r]: when r was taken for its player's, -1 if not
  late,       \* requests that arrived after their session's sign-out was recorded
  unsure,     \* requests for which the store did not say whether they are signed out
  fulfilled,  \* fulfilled[h]: times the site fulfilled payment h
  doubtful    \* payments claimed by a request that was lost

store == <<nonceUntil, signoutUntil, paymentClaimed>>
process == <<ownerSeen, ownerChecks, paying>>
world == <<removed, mined, removedAt>>
bounds == <<failures, crashes>>
sessionHistory == <<startedAt, failedAt, acceptedAt, late, unsure>>
paymentHistory == <<fulfilled, doubtful>>
vars == <<now, stage, since, issued, expiry, store, process, world, bounds, sessionHistory, paymentHistory>>

\* Stages of readSession, and of the payment that may follow.
Reading == {"decoding", "asking", "checking"}
Paying == {"verifyingPayment", "claimingPayment", "fulfilling", "releasing"}
SigningIn == {"nonce", "claiming", "verifying", "onSignIn"}
Awaiting == Reading \union Paying \union SigningIn \union {"signingOut", "recording"}
Outcomes == {"answered", "refused", "dropped"}

goto(r, s) == stage' = [stage EXCEPT ![r] = s]
fails == failures < MaxFailures /\ failures' = failures + 1

-----------------------------------------------------------------------------
(***************************************************************************)
(* Time, the chain and cookies                                             *)
(***************************************************************************)

\* Timers fire when due, and the store takes a claim within StoreDelay.
Tick ==
  /\ now < MaxTime
  /\ \A r \in Requests : stage[r] = "claiming" => now < since[r] + StoreDelay
  /\ \A p \in Processes : \A c \in ownerChecks[p] : now < c.start + OWNER_CHECK_TIMEOUT
  /\ now' = now + 1
  /\ UNCHANGED <<stage, since, issued, expiry, store, process, world, bounds, sessionHistory, paymentHistory>>

\* A recovery or an owner change removes a player's passkey.
remove_owner(player) ==
  /\ player \notin removed
  /\ removed' = removed \union {player}
  /\ removedAt' = [removedAt EXCEPT ![player] = now]
  /\ UNCHANGED <<now, stage, since, issued, expiry, store, process, mined, bounds, sessionHistory, paymentHistory>>

pay(h) ==
  /\ h \notin mined
  /\ mined' = mined \union {h}
  /\ UNCHANGED <<now, stage, since, issued, expiry, store, process, removed, removedAt, bounds, sessionHistory, paymentHistory>>

\* POST nonce: a random one, never one issued before.
issue_nonce(n) ==
  /\ issued[n] = 0 /\ n \notin {Job[s].nonce : s \in SignedInAtStart}
  /\ issued' = [issued EXCEPT ![n] = now + NONCE_TTL]
  /\ UNCHANGED <<now, stage, since, expiry, store, process, world, bounds, sessionHistory, paymentHistory>>

\* A request presents a cookie it was given, or somebody's copy of it.
arrive(r) ==
  /\ stage[r] = "new"
  /\ IF Kind(r) = "signIn" THEN issued[Job[r].nonce] > 0 ELSE expiry[Session(r)] > 0
  /\ goto(r, IF Kind(r) = "signIn" THEN "nonce" ELSE IF Kind(r) = "signOut" THEN "signingOut" ELSE "decoding")
  /\ late' = IF Kind(r) # "signIn" /\ signoutUntil[Session(r)] > 0 THEN late \union {r} ELSE late
  /\ UNCHANGED <<now, since, issued, expiry, store, process, world, bounds, startedAt, failedAt, acceptedAt, unsure, paymentHistory>>

-----------------------------------------------------------------------------
(***************************************************************************)
(* What a process remembers of owners                                      *)
(***************************************************************************)

\* ownerSeen.delete(): its one answer about session s.
forget(seen, s) ==
  LET found == {i \in DOMAIN seen : seen[i].session = s}
      i == CHOOSE j \in found : TRUE
  IN IF found = {} THEN seen ELSE [k \in 1 .. Len(seen) - 1 |-> seen[IF k < i THEN k ELSE k + 1]]

\* Mutant: the oldest answer is not forgotten.
remember_all(p, s, owner, next) ==
  ownerSeen' = [ownerSeen EXCEPT ![p] =
    Append(forget(@, s), [session |-> s, owner |-> owner, next |-> next])]

\* rememberOwner(): the newest answer of a session, and the newest sessions.
remember(p, s, owner, next) ==
  LET others == forget(ownerSeen[p], s)
      kept == IF Len(others) >= MAX_OWNER_ENTRIES THEN Tail(others) ELSE others
  IN ownerSeen' = [ownerSeen EXCEPT ![p] = Append(kept, [session |-> s, owner |-> owner, next |-> next])]

\* Mutant: what was said once is never asked again.
Known_forever(p, s) == {e.owner : e \in {ownerSeen[p][i] : i \in {j \in DOMAIN ownerSeen[p] : ownerSeen[p][j].session = s}}}

\* What process p may still answer from memory about session s.
Known(p, s) ==
  LET answers(e) == e.session = s /\ (~e.owner \/ now < e.next)
  IN {ownerSeen[p][i].owner : i \in {j \in DOMAIN ownerSeen[p] : answers(ownerSeen[p][j])}}

\* Mutant: a second payment is checked beside the first.
admit_all(W, p, player) ==
  LET payers == {r \in W : Kind(r) = "pay"}
  IN /\ stage' = [r \in Requests |-> IF r \in W \ payers THEN "answered"
                                     ELSE IF r \in payers THEN "verifyingPayment" ELSE stage[r]]
     /\ paying' = [paying EXCEPT ![p] = IF payers = {} THEN @ ELSE @ \union {player}]
     /\ acceptedAt' = [r \in Requests |-> IF r \in W THEN now ELSE acceptedAt[r]]

\* The requests W of one session are the player's: of their payments, one is
\* checked and the others are turned away while it is.
admit(W, p, player) ==
  LET payers == {r \in W : Kind(r) = "pay"}
  IN \E first \in IF payers = {} \/ player \in paying[p] THEN {{}} ELSE {{r} : r \in payers} :
       /\ stage' = [r \in Requests |-> IF r \in W \ payers THEN "answered"
                                       ELSE IF r \in first THEN "verifyingPayment"
                                       ELSE IF r \in payers THEN "refused" ELSE stage[r]]
       /\ paying' = [paying EXCEPT ![p] = IF first = {} THEN @ ELSE @ \union {player}]
       /\ acceptedAt' = [r \in Requests |-> IF r \in W THEN now ELSE acceptedAt[r]]

-----------------------------------------------------------------------------
(***************************************************************************)
(* Reading a session: GET session, getPlayer, and before a payment         *)
(***************************************************************************)

\* decodeSession: a cookie that has expired is none.
decode(r) ==
  /\ stage[r] = "decoding"
  /\ goto(r, IF now < expiry[Session(r)] THEN "asking" ELSE "refused")
  /\ UNCHANGED <<now, since, issued, expiry, store, process, world, bounds, sessionHistory, paymentHistory>>

\* stillOwner(): answered from memory, or by the chain, one check per session.
still_owner(r) ==
  LET p == Process(r)
      s == Session(r)
  IN \/ /\ TRUE \in Known(p, s)
        /\ admit({r}, p, Player(r))
        /\ UNCHANGED ownerChecks
     \/ /\ FALSE \in Known(p, s)
        /\ goto(r, "refused")
        /\ UNCHANGED <<ownerChecks, paying, acceptedAt>>
     \/ /\ Known(p, s) = {}
        /\ goto(r, "checking")
        /\ ownerChecks' = IF \E c \in ownerChecks[p] : c.session = s THEN ownerChecks
                          ELSE [ownerChecks EXCEPT ![p] = @ \union {[session |-> s, start |-> now, answer |-> "none"]}]
        /\ UNCHANGED <<paying, acceptedAt>>

\* signedOut(): the store has answered.
ask_store(r) ==
  /\ stage[r] = "asking"
  /\ IF now < signoutUntil[Session(r)]
       THEN goto(r, "refused") /\ UNCHANGED <<ownerChecks, paying, acceptedAt>>
       ELSE still_owner(r)
  /\ UNCHANGED <<now, since, issued, expiry, store, ownerSeen, world, bounds, startedAt, failedAt, late, unsure, paymentHistory>>

\* signedOut(): a store that cannot answer keeps the session.
ask_store_unanswered(r) ==
  /\ stage[r] = "asking" /\ fails
  /\ still_owner(r)
  /\ unsure' = unsure \union {r}
  /\ UNCHANGED <<now, since, issued, expiry, store, ownerSeen, world, crashes, startedAt, failedAt, late, paymentHistory>>

\* checkOwner(): the chain reads isOwner; its answer is on its way.
read_owner(p, c) ==
  /\ c.answer = "none"
  /\ ownerChecks' = [ownerChecks EXCEPT ![p] = (@ \ {c}) \union
       {[c EXCEPT !.answer = IF Player(c.session) \in removed THEN "removed" ELSE "owner"]}]
  /\ UNCHANGED <<now, stage, since, issued, expiry, store, ownerSeen, paying, world, bounds, sessionHistory, paymentHistory>>

Waiting(p, s) == {r \in Requests : stage[r] = "checking" /\ Process(r) = p /\ Session(r) = s}

\* checkOwner(): its answer arrives, for every request that waits for it.
check_owner(p, c) ==
  LET W == Waiting(p, c.session)
  IN /\ c.answer # "none"
     /\ ownerChecks' = [ownerChecks EXCEPT ![p] = @ \ {c}]
     /\ remember(p, c.session, c.answer = "owner", c.start + OwnerCheck)
     /\ IF c.answer = "owner"
          THEN admit(W, p, Player(c.session))
          ELSE /\ stage' = [r \in Requests |-> IF r \in W THEN "refused" ELSE stage[r]]
               /\ UNCHANGED <<paying, acceptedAt>>
     /\ UNCHANGED <<now, since, issued, expiry, store, world, bounds, startedAt, failedAt, late, unsure, paymentHistory>>

\* checkOwner(): the chain fails, or does not answer in time: the session is
\* kept, and asked about again sooner.
check_owner_unanswered(p, c) ==
  /\ fails
  /\ ownerChecks' = [ownerChecks EXCEPT ![p] = @ \ {c}]
  /\ remember(p, c.session, TRUE, c.start + (IF OWNER_RETRY < OwnerCheck THEN OWNER_RETRY ELSE OwnerCheck))
  /\ admit(Waiting(p, c.session), p, Player(c.session))
  /\ failedAt' = [failedAt EXCEPT ![c.session] = now]
  /\ UNCHANGED <<now, since, issued, expiry, store, world, crashes, startedAt, late, unsure, paymentHistory>>

-----------------------------------------------------------------------------
(***************************************************************************)
(* POST sign-in                                                            *)
(***************************************************************************)

\* Mutant: a nonce is good for as long as the browser keeps it.
check_nonce_unexpired(r) ==
  /\ stage[r] = "nonce"
  /\ goto(r, "claiming")
  /\ since' = [since EXCEPT ![r] = now]
  /\ UNCHANGED <<now, issued, expiry, store, process, world, bounds, sessionHistory, paymentHistory>>

\* readNonce(): the nonce of this browser, not expired.
check_nonce(r) ==
  /\ stage[r] = "nonce"
  /\ goto(r, IF now < issued[Job[r].nonce] THEN "claiming" ELSE "refused")
  /\ since' = [since EXCEPT ![r] = now]
  /\ UNCHANGED <<now, issued, expiry, store, process, world, bounds, sessionHistory, paymentHistory>>

\* The store accepts a nonce once, while it remembers it.
claim_nonce(r) ==
  LET n == Job[r].nonce
  IN /\ stage[r] = "claiming"
     /\ IF now < nonceUntil[n]
          THEN goto(r, "refused") /\ UNCHANGED nonceUntil
          ELSE goto(r, "verifying") /\ nonceUntil' = [nonceUntil EXCEPT ![n] = now + NONCE_CLAIM]
     /\ UNCHANGED <<now, since, issued, expiry, signoutUntil, paymentClaimed, process, world, bounds, sessionHistory, paymentHistory>>

\* The store does not answer; it may have taken the claim.
claim_nonce_unanswered(r) ==
  LET n == Job[r].nonce
  IN /\ stage[r] = "claiming" /\ fails
     /\ goto(r, "refused")
     /\ \/ UNCHANGED nonceUntil
        \/ now >= nonceUntil[n] /\ nonceUntil' = [nonceUntil EXCEPT ![n] = now + NONCE_CLAIM]
     /\ UNCHANGED <<now, since, issued, expiry, signoutUntil, paymentClaimed, process, world, crashes, sessionHistory, paymentHistory>>

\* verifySignIn(): the statement, the proof, and on-chain that the passkey is
\* still an owner; whatever fails refuses.
verify_sign_in(r) ==
  /\ stage[r] = "verifying"
  /\ \/ Player(r) \notin removed /\ goto(r, "onSignIn")
     \/ goto(r, "refused")
  /\ UNCHANGED <<now, since, issued, expiry, store, process, world, bounds, sessionHistory, paymentHistory>>

\* onSignIn has returned: the session starts.
start_session(r) ==
  /\ stage[r] = "onSignIn"
  /\ goto(r, "answered")
  /\ expiry' = [expiry EXCEPT ![r] = now + SESSION_TTL]
  /\ remember(Process(r), r, TRUE, now + OwnerCheck)
  /\ startedAt' = [startedAt EXCEPT ![r] = now]
  /\ UNCHANGED <<now, since, issued, store, ownerChecks, paying, world, bounds, failedAt, acceptedAt, late, unsure, paymentHistory>>

\* onSignIn throws.
refuse_session(r) ==
  /\ stage[r] = "onSignIn"
  /\ goto(r, "refused")
  /\ UNCHANGED <<now, since, issued, expiry, store, process, world, bounds, sessionHistory, paymentHistory>>

-----------------------------------------------------------------------------
(***************************************************************************)
(* POST sign-out                                                           *)
(***************************************************************************)

\* A session that has not expired is signed out in the store.
sign_out(r) ==
  /\ stage[r] = "signingOut"
  /\ goto(r, IF now < expiry[Session(r)] THEN "recording" ELSE "answered")
  /\ since' = [since EXCEPT ![r] = now]
  /\ UNCHANGED <<now, issued, expiry, store, process, world, bounds, sessionHistory, paymentHistory>>

\* Mutant: a sign-out is remembered as long as a nonce.
signed_out_briefly(r) ==
  signoutUntil' = [signoutUntil EXCEPT ![Session(r)] = IF now < @ THEN @ ELSE now + NONCE_CLAIM]

\* The store's claim of a sign-out, for what was left of the session.
signed_out(r) ==
  signoutUntil' = [signoutUntil EXCEPT ![Session(r)] = IF now < @ THEN @ ELSE now + (expiry[Session(r)] - since[r])]

record_sign_out(r) ==
  /\ stage[r] = "recording"
  /\ goto(r, "answered")
  /\ signed_out(r)
  /\ UNCHANGED <<now, since, issued, expiry, nonceUntil, paymentClaimed, process, world, bounds, sessionHistory, paymentHistory>>

\* The store does not answer: signed out in this browser, and maybe elsewhere.
record_sign_out_unanswered(r) ==
  /\ stage[r] = "recording" /\ fails
  /\ goto(r, "answered")
  /\ signed_out(r) \/ UNCHANGED signoutUntil
  /\ UNCHANGED <<now, since, issued, expiry, nonceUntil, paymentClaimed, process, world, crashes, sessionHistory, paymentHistory>>

-----------------------------------------------------------------------------
(***************************************************************************)
(* POST payment, after readSession and the check of paying                 *)
(***************************************************************************)

\* The end of a payment's check, however it ends.
done(r) == paying' = [paying EXCEPT ![Process(r)] = @ \ {Player(r)}]

\* The payment is found in a block, and the player's; or it is not, in time.
verify_payment(r) ==
  /\ stage[r] = "verifyingPayment"
  /\ \/ /\ Payment(r) \in mined /\ Payer[Payment(r)] = Player(r)
        /\ goto(r, "claimingPayment")
        /\ UNCHANGED paying
     \/ goto(r, "refused") /\ done(r)
  /\ UNCHANGED <<now, since, issued, expiry, store, ownerSeen, ownerChecks, world, bounds, sessionHistory, paymentHistory>>

\* Mutant: a refused claim is released like the request's own.
claim_payment_releasing(r) ==
  LET h == Payment(r)
  IN /\ stage[r] = "claimingPayment"
     /\ IF h \in paymentClaimed
          THEN goto(r, "releasing") /\ UNCHANGED <<paymentClaimed, paying>>
          ELSE goto(r, "fulfilling") /\ paymentClaimed' = paymentClaimed \union {h} /\ UNCHANGED paying
     /\ UNCHANGED <<now, since, issued, expiry, nonceUntil, signoutUntil, ownerSeen, ownerChecks, world, bounds, sessionHistory, paymentHistory>>

\* The store accepts a payment once.
claim_payment(r) ==
  LET h == Payment(r)
  IN /\ stage[r] = "claimingPayment"
     /\ IF h \in paymentClaimed
          THEN goto(r, "refused") /\ done(r) /\ UNCHANGED paymentClaimed
          ELSE goto(r, "fulfilling") /\ paymentClaimed' = paymentClaimed \union {h} /\ UNCHANGED paying
     /\ UNCHANGED <<now, since, issued, expiry, nonceUntil, signoutUntil, ownerSeen, ownerChecks, world, bounds, sessionHistory, paymentHistory>>

\* The store does not answer; it may have taken the claim.
claim_payment_unanswered(r) ==
  LET h == Payment(r)
  IN /\ stage[r] = "claimingPayment" /\ fails
     /\ goto(r, "refused") /\ done(r)
     /\ \/ UNCHANGED <<paymentClaimed, doubtful>>
        \/ /\ h \notin paymentClaimed
           /\ paymentClaimed' = paymentClaimed \union {h}
           /\ doubtful' = doubtful \union {h}
     /\ UNCHANGED <<now, since, issued, expiry, nonceUntil, signoutUntil, ownerSeen, ownerChecks, world, crashes, sessionHistory, fulfilled>>

\* onPayment has returned.
fulfil(r) ==
  /\ stage[r] = "fulfilling"
  /\ goto(r, "answered") /\ done(r)
  /\ fulfilled' = [fulfilled EXCEPT ![Payment(r)] = @ + 1]
  /\ UNCHANGED <<now, since, issued, expiry, store, ownerSeen, ownerChecks, world, bounds, sessionHistory, doubtful>>

\* Mutant: a payment the site could not fulfil stays claimed.
fulfil_fails_keeping(r) ==
  /\ stage[r] = "fulfilling"
  /\ goto(r, "refused") /\ done(r)
  /\ UNCHANGED <<now, since, issued, expiry, store, ownerSeen, ownerChecks, world, bounds, sessionHistory, paymentHistory>>

\* onPayment throws: the payment stays the player's.
fulfil_fails(r) ==
  /\ stage[r] = "fulfilling"
  /\ goto(r, "releasing")
  /\ UNCHANGED <<now, since, issued, expiry, store, process, world, bounds, sessionHistory, paymentHistory>>

release(r) ==
  /\ stage[r] = "releasing"
  /\ goto(r, "refused") /\ done(r)
  /\ paymentClaimed' = paymentClaimed \ {Payment(r)}
  /\ UNCHANGED <<now, since, issued, expiry, nonceUntil, signoutUntil, ownerSeen, ownerChecks, world, bounds, sessionHistory, paymentHistory>>

\* The store does not answer; it may have released the claim.
release_unanswered(r) ==
  /\ stage[r] = "releasing" /\ fails
  /\ goto(r, "refused") /\ done(r)
  /\ \/ paymentClaimed' = paymentClaimed \ {Payment(r)} /\ UNCHANGED doubtful
     \/ UNCHANGED paymentClaimed /\ doubtful' = doubtful \union {Payment(r)}
  /\ UNCHANGED <<now, since, issued, expiry, nonceUntil, signoutUntil, ownerSeen, ownerChecks, world, crashes, sessionHistory, fulfilled>>

-----------------------------------------------------------------------------
\* A process stops and starts again: its requests are dropped, and it
\* remembers nothing of owners.
restart(p) ==
  LET mine == {r \in Requests : Process(r) = p /\ stage[r] \in Awaiting}
  IN /\ crashes < MaxCrashes /\ crashes' = crashes + 1
     /\ stage' = [r \in Requests |-> IF r \in mine THEN "dropped" ELSE stage[r]]
     /\ ownerSeen' = [ownerSeen EXCEPT ![p] = <<>>]
     /\ ownerChecks' = [ownerChecks EXCEPT ![p] = {}]
     /\ paying' = [paying EXCEPT ![p] = {}]
     /\ doubtful' = doubtful \union {Payment(r) : r \in {q \in mine : stage[q] \in {"fulfilling", "releasing"}}}
     /\ UNCHANGED <<now, since, issued, expiry, store, world, failures, sessionHistory, fulfilled>>

Init ==
  /\ now = 0
  /\ stage = [r \in Requests |-> IF r \in SignedInAtStart THEN "answered" ELSE "new"]
  /\ since = [r \in Requests |-> 0]
  /\ issued = [n \in Nonces |-> 0]
  /\ expiry = [s \in SignIns |-> IF s \in SignedInAtStart THEN SESSION_TTL ELSE 0]
  /\ nonceUntil = [n \in Nonces |-> 0] /\ signoutUntil = [s \in SignIns |-> 0] /\ paymentClaimed = {}
  /\ ownerSeen = [p \in Processes |-> <<>>]
  /\ ownerChecks = [p \in Processes |-> {}]
  /\ paying = [p \in Processes |-> {}]
  /\ removed = {} /\ mined = {}
  /\ failures = 0 /\ crashes = 0
  /\ removedAt = [a \in Players |-> 0] /\ startedAt = [s \in SignIns |-> 0] /\ failedAt = [s \in SignIns |-> 0]
  /\ acceptedAt = [r \in Requests |-> -1]
  /\ late = {} /\ unsure = {}
  /\ fulfilled = [h \in Payments |-> 0] /\ doubtful = {}

sign_in(r) ==
  \/ check_nonce(r) \/ claim_nonce(r) \/ claim_nonce_unanswered(r)
  \/ verify_sign_in(r) \/ start_session(r) \/ refuse_session(r)
sign_out_route(r) == sign_out(r) \/ record_sign_out(r) \/ record_sign_out_unanswered(r)
read_session(r) == decode(r) \/ ask_store(r) \/ ask_store_unanswered(r)
accept_payment(r) ==
  \/ verify_payment(r) \/ claim_payment(r) \/ claim_payment_unanswered(r)
  \/ fulfil(r) \/ fulfil_fails(r) \/ release(r) \/ release_unanswered(r)
stillOwner(p, c) == read_owner(p, c) \/ check_owner(p, c) \/ check_owner_unanswered(p, c)

Next ==
  \/ Tick
  \/ \E a \in Players : remove_owner(a)
  \/ \E h \in Payments : pay(h)
  \/ \E n \in Nonces : issue_nonce(n)
  \/ \E r \in Requests : arrive(r) \/ sign_in(r) \/ sign_out_route(r) \/ read_session(r) \/ accept_payment(r)
  \/ \E p \in Processes : (\E c \in ownerChecks[p] : stillOwner(p, c)) \/ restart(p)

Spec == Init /\ [][Next]_vars
=============================================================================
