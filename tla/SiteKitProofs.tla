---------------------------- MODULE SiteKitProofs ----------------------------
(***************************************************************************)
(* The kit's payments, sign-ins, sign-outs and removed passkeys, for any   *)
(* requests, players, processes, nonces and payments, and any times and    *)
(* failures.  A replayed nonce is refused because the claim is remembered  *)
(* longer than a check of the nonce that passed may be late; a copied      *)
(* cookie, because a sign-out is remembered until the session's end; a     *)
(* removed passkey, because no answer about an owner is good for longer    *)
(* than ownerCheckSeconds after it was read.                               *)
(***************************************************************************)
EXTENDS SiteKitRefinement, SequenceTheorems, TLAPS

USE JobAssumption

Stages == {"new"} \union Awaiting \union Outcomes

(***************************************************************************)
(* Payments                                                                *)
(***************************************************************************)

\* Only payments are at a payment's stages, and no sign-in reads a session.
StageInv ==
  /\ stage \in [Requests -> Stages]
  /\ \A r \in Requests : stage[r] \in Paying => Kind(r) = "pay"
  /\ \A r \in Requests : stage[r] \in Reading => Kind(r) # "signIn"

\* A payment at its fulfilment is claimed, was not fulfilled, and no other request is at it.
LedgerInv ==
  /\ fulfilled \in [Payments -> Nat]
  /\ \A h \in Payments : fulfilled[h] <= 1
  /\ \A h \in Payments : fulfilled[h] > 0 => h \in paymentClaimed /\ Fulfilling(h) = {}
  /\ \A h \in Payments : \A r, s \in Fulfilling(h) : h \in paymentClaimed /\ r = s
  /\ paymentClaimed \subseteq Payments

PayInv ==
  /\ StageInv
  /\ paying \in [Processes -> SUBSET Players]
  /\ PayingOwned
  /\ LedgerInv
  /\ PaymentKept

\* The checks under way are of sessions, at a time.
ChecksInv == now \in Nat /\ ownerChecks \in [Processes -> SUBSET OwnerChecks]

LEMMA PayInit == Init => PayInv
  BY StartAssumption
  DEF Init, PayInv, StageInv, PayingOwned, LedgerInv, PaymentKept, Fulfilling, Stages, Awaiting, Outcomes, Reading,
      Paying, SigningIn

\* Requests that move to or from a payment's stages are the payments' own steps; all others leave payments alone.
LEMMA ElsewhereKeeps ==
  ASSUME PayInv, StageInv',
         \A r \in Requests : stage'[r] = stage[r] \/ (stage[r] \notin Paying /\ stage'[r] \notin Paying),
         UNCHANGED <<paying, paymentClaimed, fulfilled, doubtful>>
  PROVE  PayInv'
<1>1. \A r \in Requests : stage'[r] \in Paying <=> stage[r] \in Paying
  OBVIOUS
<1>2. \A h : Fulfilling(h)' = Fulfilling(h)
  BY DEF Fulfilling, Paying
<1>3. PayingOwned'
  BY <1>1 DEF PayingOwned, PayInv
<1> QED
  BY <1>2, <1>3 DEF PayInv, LedgerInv, PaymentKept

\* What turns away or goes on in another stage than a payment's.
LEMMA GotoKeeps ==
  ASSUME PayInv, NEW r \in Requests, NEW s \in Stages, goto(r, s), stage[r] \notin Paying, s \notin Paying,
         s \in Reading => Kind(r) # "signIn",
         UNCHANGED <<paying, paymentClaimed, fulfilled, doubtful>>
  PROVE  PayInv'
<1>1. stage' = [stage EXCEPT ![r] = s] /\ stage \in [Requests -> Stages]
  BY DEF PayInv, StageInv, goto
<1>2. StageInv'
  BY <1>1 DEF PayInv, StageInv
<1>3. \A q \in Requests : stage'[q] = stage[q] \/ (stage[q] \notin Paying /\ stage'[q] \notin Paying)
  BY <1>1
<1>4. UNCHANGED <<paying, paymentClaimed, fulfilled, doubtful>>
  OBVIOUS
<1> QED
  BY <1>2, <1>3, <1>4, ElsewhereKeeps

\* The requests of one session are let in: at most one payment, of a player who has none under way.
LEMMA AdmitKeeps ==
  ASSUME PayInv, NEW W \in SUBSET Requests, NEW p \in Processes, NEW player \in Players, admit(W, p, player),
         \A r \in W : stage[r] \in Reading /\ Process(r) = p /\ Player(r) = player,
         UNCHANGED <<paymentClaimed, fulfilled, doubtful>>
  PROVE  PayInv'
<1> DEFINE payers == {r \in W : Kind(r) = "pay"}
<1>1. PICK first \in IF payers = {} \/ player \in paying[p] THEN {{}} ELSE {{r} : r \in payers} :
        /\ stage' = [r \in Requests |-> IF r \in W \ payers THEN "answered"
                                        ELSE IF r \in first THEN "verifyingPayment"
                                        ELSE IF r \in payers THEN "refused" ELSE stage[r]]
        /\ paying' = [paying EXCEPT ![p] = IF first = {} THEN @ ELSE @ \union {player}]
  BY DEF admit
<1>2. first \subseteq payers /\ \A r, s \in first : r = s
  BY <1>1
<1>3. \A r \in Requests : stage'[r] \in Paying <=> stage[r] \in Paying \/ r \in first
  BY <1>1, <1>2 DEF Paying, Reading
<1>4. \A h : Fulfilling(h)' = Fulfilling(h)
  BY <1>1, <1>2 DEF Fulfilling, Reading
<1>5. StageInv'
  BY <1>1, <1>2 DEF PayInv, StageInv, Stages, Awaiting, Outcomes, Paying, Reading
<1>6. first # {} => player \notin paying[p]
  BY <1>1
<1>7. PayingOwned' /\ paying' \in [Processes -> SUBSET Players]
  <2>1. \A q \in Processes : paying'[q] = {Player(r) : r \in {s \in Requests : Process(s) = q /\ stage'[s] \in Paying}}
    <3> SUFFICES ASSUME NEW q \in Processes
                 PROVE  paying'[q] = {Player(r) : r \in {s \in Requests : Process(s) = q /\ stage'[s] \in Paying}}
      OBVIOUS
    <3>1. paying'[q] = paying[q] \union (IF q = p /\ first # {} THEN {player} ELSE {})
      BY <1>1 DEF PayInv
    <3>2. paying[q] = {Player(r) : r \in {s \in Requests : Process(s) = q /\ stage[s] \in Paying}}
      BY DEF PayInv, PayingOwned
    <3> QED
      BY <1>2, <1>3, <3>1, <3>2
  <2>2. ASSUME NEW r \in Requests, NEW s \in Requests, stage'[r] \in Paying, stage'[s] \in Paying,
               Process(r) = Process(s), Player(r) = Player(s)
        PROVE  r = s
    <3>1. CASE r \in first /\ s \in first
      BY <3>1, <1>2
    <3>2. CASE r \notin first /\ s \notin first
      BY <3>2, <2>2, <1>3 DEF PayInv, PayingOwned
    <3>3. ASSUME NEW x \in Requests, NEW y \in Requests, x \in first, y \notin first, stage'[y] \in Paying,
                 Process(x) = Process(y), Player(x) = Player(y)
          PROVE  FALSE
      <4>1. Process(y) = p /\ Player(y) = player /\ stage[y] \in Paying
        BY <3>3, <1>2, <1>3
      <4>2. player \in paying[p]
        BY <4>1 DEF PayInv, PayingOwned
      <4> QED
        BY <4>2, <3>3, <1>6
    <3> QED
      BY <3>1, <3>2, <3>3, <2>2
  <2>3. paying' \in [Processes -> SUBSET Players]
    BY <1>1 DEF PayInv
  <2> QED
    BY <2>1, <2>2, <2>3 DEF PayingOwned
<1> QED
  BY <1>4, <1>5, <1>7 DEF PayInv, LedgerInv, PaymentKept

\* A payment's request goes on: it stays the one its player has on its process.
LEMMA ContinueKeeps ==
  ASSUME PayInv, NEW r \in Requests, NEW s \in Paying, stage[r] \in Paying, goto(r, s), UNCHANGED paying
  PROVE  /\ StageInv' /\ PayingOwned' /\ paying' \in [Processes -> SUBSET Players]
         /\ \A h : Fulfilling(h)' = IF s \in {"fulfilling", "releasing"} /\ Payment(r) = h
                                      THEN Fulfilling(h) \union {r} ELSE Fulfilling(h) \ {r}
<1>1. stage' = [stage EXCEPT ![r] = s] /\ stage \in [Requests -> Stages]
  BY DEF PayInv, StageInv, goto
<1>2. StageInv'
  BY <1>1 DEF PayInv, StageInv, Stages, Awaiting, Paying, Reading
<1>3. \A q \in Requests : stage'[q] \in Paying <=> stage[q] \in Paying
  BY <1>1
<1>4. PayingOwned' /\ paying' \in [Processes -> SUBSET Players]
  BY <1>3 DEF PayingOwned, PayInv
<1>5. \A h : Fulfilling(h)' = IF s \in {"fulfilling", "releasing"} /\ Payment(r) = h
                                THEN Fulfilling(h) \union {r} ELSE Fulfilling(h) \ {r}
  BY <1>1 DEF Fulfilling
<1> QED
  BY <1>2, <1>4, <1>5

\* A payment's request ends: its player may pay on this process again.
LEMMA EndKeeps ==
  ASSUME PayInv, NEW r \in Requests, NEW s \in Outcomes, stage[r] \in Paying, goto(r, s), done(r)
  PROVE  /\ StageInv' /\ PayingOwned' /\ paying' \in [Processes -> SUBSET Players]
         /\ \A h : Fulfilling(h)' = Fulfilling(h) \ {r}
<1>1. stage' = [stage EXCEPT ![r] = s] /\ stage \in [Requests -> Stages]
  BY DEF PayInv, StageInv, goto
<1>2. paying' = [paying EXCEPT ![Process(r)] = @ \ {Player(r)}] /\ Process(r) \in Processes
  BY DEF done
<1>3. StageInv'
  BY <1>1 DEF PayInv, StageInv, Stages, Outcomes, Paying, Reading
<1>4. \A q \in Requests : stage'[q] \in Paying <=> stage[q] \in Paying /\ q # r
  BY <1>1 DEF Outcomes, Paying
<1>5. \A q \in Processes : paying'[q] = {Player(x) : x \in {y \in Requests : Process(y) = q /\ stage'[y] \in Paying}}
  <2> SUFFICES ASSUME NEW q \in Processes
               PROVE  paying'[q] = {Player(x) : x \in {y \in Requests : Process(y) = q /\ stage'[y] \in Paying}}
    OBVIOUS
  <2>1. paying[q] = {Player(x) : x \in {y \in Requests : Process(y) = q /\ stage[y] \in Paying}}
    BY DEF PayInv, PayingOwned
  <2>2. paying'[q] = IF q = Process(r) THEN paying[q] \ {Player(r)} ELSE paying[q]
    BY <1>2 DEF PayInv
  <2>3. \A x \in Requests : Process(x) = Process(r) /\ stage[x] \in Paying /\ Player(x) = Player(r) => x = r
    BY DEF PayInv, PayingOwned
  <2> QED
    BY <2>1, <2>2, <2>3, <1>4
<1>6. PayingOwned'
  BY <1>4, <1>5 DEF PayInv, PayingOwned
<1>7. paying' \in [Processes -> SUBSET Players]
  BY <1>2 DEF PayInv
<1>8. \A h : Fulfilling(h)' = Fulfilling(h) \ {r}
  BY <1>1 DEF Fulfilling, Outcomes
<1> QED
  BY <1>3, <1>6, <1>7, <1>8

LEMMA VerifyPaymentKeeps == ASSUME PayInv, NEW r \in Requests, verify_payment(r) PROVE PayInv'
<1>1. /\ stage[r] = "verifyingPayment" /\ r \notin Fulfilling(Payment(r)) /\ \A h : r \notin Fulfilling(h)
      /\ UNCHANGED <<paymentClaimed, fulfilled, doubtful>>
  BY DEF verify_payment, store, paymentHistory, Fulfilling
<1>2. CASE goto(r, "claimingPayment") /\ UNCHANGED paying
  <2>1. /\ StageInv' /\ PayingOwned' /\ paying' \in [Processes -> SUBSET Players]
        /\ \A h : Fulfilling(h)' = Fulfilling(h) \ {r}
    BY <1>1, <1>2, ContinueKeeps DEF Paying
  <2> QED
    BY <1>1, <2>1 DEF PayInv, LedgerInv, PaymentKept
<1>3. CASE goto(r, "refused") /\ done(r)
  <2>1. /\ StageInv' /\ PayingOwned' /\ paying' \in [Processes -> SUBSET Players]
        /\ \A h : Fulfilling(h)' = Fulfilling(h) \ {r}
    BY <1>1, <1>3, EndKeeps DEF Paying, Outcomes
  <2> QED
    BY <1>1, <2>1 DEF PayInv, LedgerInv, PaymentKept
<1> QED
  BY <1>2, <1>3 DEF verify_payment

LEMMA ClaimPaymentKeeps == ASSUME PayInv, NEW r \in Requests, claim_payment(r) PROVE PayInv'
<1>1. /\ stage[r] = "claimingPayment" /\ \A h : r \notin Fulfilling(h)
      /\ UNCHANGED <<fulfilled, doubtful>>
  BY DEF claim_payment, paymentHistory, Fulfilling
<1>2. Payment(r) \in Payments
  BY <1>1 DEF PayInv, StageInv, Paying
<1>3. CASE Payment(r) \in paymentClaimed
  <2>1. goto(r, "refused") /\ done(r) /\ UNCHANGED paymentClaimed
    BY <1>3 DEF claim_payment
  <2>2. /\ StageInv' /\ PayingOwned' /\ paying' \in [Processes -> SUBSET Players]
        /\ \A h : Fulfilling(h)' = Fulfilling(h) \ {r}
    BY <1>1, <2>1, EndKeeps DEF Paying, Outcomes
  <2> QED
    BY <1>1, <2>1, <2>2 DEF PayInv, LedgerInv, PaymentKept
<1>4. CASE Payment(r) \notin paymentClaimed
  <2>1. goto(r, "fulfilling") /\ UNCHANGED paying /\ paymentClaimed' = paymentClaimed \union {Payment(r)}
    BY <1>4 DEF claim_payment
  <2>2. /\ StageInv' /\ PayingOwned' /\ paying' \in [Processes -> SUBSET Players]
        /\ \A h : Fulfilling(h)' = IF Payment(r) = h THEN Fulfilling(h) \union {r} ELSE Fulfilling(h) \ {r}
    BY <1>1, <2>1, ContinueKeeps DEF Paying
  <2>3. Fulfilling(Payment(r)) = {} /\ ~(fulfilled[Payment(r)] > 0)
    BY <1>2, <1>4 DEF PayInv, LedgerInv
  <2>4. LedgerInv'
    BY <1>1, <1>2, <2>1, <2>2, <2>3 DEF PayInv, LedgerInv
  <2> QED
    BY <1>1, <2>1, <2>2, <2>4 DEF PayInv, PaymentKept
<1> QED
  BY <1>3, <1>4

LEMMA ClaimPaymentUnansweredKeeps == ASSUME PayInv, NEW r \in Requests, claim_payment_unanswered(r) PROVE PayInv'
<1>1. /\ stage[r] = "claimingPayment" /\ \A h : r \notin Fulfilling(h)
      /\ UNCHANGED fulfilled /\ goto(r, "refused") /\ done(r)
  BY DEF claim_payment_unanswered, Fulfilling
<1>2. Payment(r) \in Payments
  BY <1>1 DEF PayInv, StageInv, Paying
<1>3. /\ StageInv' /\ PayingOwned' /\ paying' \in [Processes -> SUBSET Players]
      /\ \A h : Fulfilling(h)' = Fulfilling(h)
  BY <1>1, EndKeeps DEF Paying, Outcomes
<1>4. \/ UNCHANGED <<paymentClaimed, doubtful>>
      \/ /\ paymentClaimed' = paymentClaimed \union {Payment(r)}
         /\ doubtful' = doubtful \union {Payment(r)}
  BY DEF claim_payment_unanswered
<1> QED
  BY <1>1, <1>2, <1>3, <1>4 DEF PayInv, LedgerInv, PaymentKept

LEMMA FulfilKeeps == ASSUME PayInv, NEW r \in Requests, fulfil(r) PROVE PayInv'
<1>1. /\ stage[r] = "fulfilling" /\ UNCHANGED <<paymentClaimed, doubtful>> /\ goto(r, "answered") /\ done(r)
      /\ fulfilled' = [fulfilled EXCEPT ![Payment(r)] = @ + 1]
  BY DEF fulfil, store
<1>2. Payment(r) \in Payments /\ r \in Fulfilling(Payment(r))
  BY <1>1 DEF PayInv, StageInv, Paying, Fulfilling
<1>3. /\ StageInv' /\ PayingOwned' /\ paying' \in [Processes -> SUBSET Players]
      /\ \A h : Fulfilling(h)' = Fulfilling(h) \ {r}
  BY <1>1, EndKeeps DEF Paying, Outcomes
<1>4. /\ fulfilled[Payment(r)] = 0 /\ Payment(r) \in paymentClaimed
      /\ Fulfilling(Payment(r)) = {r} /\ \A h \in Payments \ {Payment(r)} : r \notin Fulfilling(h)
  BY <1>2 DEF PayInv, LedgerInv, Fulfilling
<1>5. fulfilled' \in [Payments -> Nat] /\ \A h \in Payments : fulfilled'[h] = IF h = Payment(r) THEN 1 ELSE fulfilled[h]
  BY <1>1, <1>2, <1>4 DEF PayInv, LedgerInv
<1>6. LedgerInv'
  BY <1>1, <1>3, <1>4, <1>5 DEF PayInv, LedgerInv
<1>7. PaymentKept'
  BY <1>1, <1>3, <1>4, <1>5 DEF PayInv, LedgerInv, PaymentKept
<1> QED
  BY <1>3, <1>6, <1>7 DEF PayInv

LEMMA FulfilFailsKeeps == ASSUME PayInv, NEW r \in Requests, fulfil_fails(r) PROVE PayInv'
<1>1. /\ stage[r] = "fulfilling" /\ UNCHANGED <<paymentClaimed, fulfilled, doubtful, paying>> /\ goto(r, "releasing")
  BY DEF fulfil_fails, store, process, paymentHistory
<1>2. /\ StageInv' /\ PayingOwned' /\ paying' \in [Processes -> SUBSET Players]
      /\ \A h : Fulfilling(h)' = IF Payment(r) = h THEN Fulfilling(h) \union {r} ELSE Fulfilling(h) \ {r}
  BY <1>1, ContinueKeeps DEF Paying
<1>3. \A h : Fulfilling(h)' = Fulfilling(h)
  BY <1>1, <1>2 DEF Fulfilling
<1> QED
  BY <1>1, <1>2, <1>3 DEF PayInv, LedgerInv, PaymentKept

LEMMA ReleaseKeeps == ASSUME PayInv, NEW r \in Requests, release(r) \/ release_unanswered(r) PROVE PayInv'
<1>1. /\ stage[r] = "releasing" /\ UNCHANGED fulfilled /\ goto(r, "refused") /\ done(r)
      /\ \/ paymentClaimed' = paymentClaimed \ {Payment(r)} /\ UNCHANGED doubtful
         \/ UNCHANGED paymentClaimed /\ doubtful' = doubtful \union {Payment(r)}
  BY DEF release, release_unanswered, paymentHistory
<1>2. Payment(r) \in Payments /\ r \in Fulfilling(Payment(r))
  BY <1>1 DEF PayInv, StageInv, Paying, Fulfilling
<1>3. /\ StageInv' /\ PayingOwned' /\ paying' \in [Processes -> SUBSET Players]
      /\ \A h : Fulfilling(h)' = Fulfilling(h) \ {r}
  BY <1>1, EndKeeps DEF Paying, Outcomes
<1>4. /\ fulfilled[Payment(r)] = 0
      /\ Fulfilling(Payment(r)) = {r} /\ \A h \in Payments \ {Payment(r)} : r \notin Fulfilling(h)
  BY <1>2 DEF PayInv, LedgerInv, Fulfilling
<1>5. LedgerInv'
  BY <1>1, <1>3, <1>4 DEF PayInv, LedgerInv
<1>6. PaymentKept'
  BY <1>1, <1>3, <1>4 DEF PayInv, LedgerInv, PaymentKept
<1> QED
  BY <1>3, <1>5, <1>6 DEF PayInv

LEMMA RestartKeeps == ASSUME PayInv, NEW p \in Processes, restart(p) PROVE PayInv'
<1> DEFINE mine == {r \in Requests : Process(r) = p /\ stage[r] \in Awaiting}
<1>1. /\ stage' = [r \in Requests |-> IF r \in mine THEN "dropped" ELSE stage[r]]
      /\ paying' = [paying EXCEPT ![p] = {}]
      /\ doubtful' = doubtful \union {Payment(r) : r \in {q \in mine : stage[q] \in {"fulfilling", "releasing"}}}
      /\ UNCHANGED <<paymentClaimed, fulfilled>>
  BY DEF restart, store
<1>2. StageInv'
  BY <1>1 DEF PayInv, StageInv, Stages, Outcomes, Paying, Reading
<1>3. \A r \in Requests : stage'[r] \in Paying <=> stage[r] \in Paying /\ Process(r) # p
  BY <1>1 DEF Awaiting, Paying
<1>4. \A q \in Processes : paying'[q] = IF q = p THEN {} ELSE paying[q]
  BY <1>1 DEF PayInv
<1>5. PayingOwned'
  <2>1. \A q \in Processes : paying'[q] = {Player(r) : r \in {x \in Requests : Process(x) = q /\ stage'[x] \in Paying}}
    BY <1>3, <1>4 DEF PayInv, PayingOwned
  <2> QED
    BY <2>1, <1>3 DEF PayInv, PayingOwned
<1>6. paying' \in [Processes -> SUBSET Players]
  BY <1>1 DEF PayInv
<1>7. \A h : /\ Fulfilling(h)' \subseteq Fulfilling(h)
             /\ \A r \in Fulfilling(h) \ Fulfilling(h)' : r \in mine /\ stage[r] \in {"fulfilling", "releasing"}
  BY <1>1 DEF Fulfilling, Awaiting, Paying
<1>8. LedgerInv'
  BY <1>1, <1>7 DEF PayInv, LedgerInv
<1>9. PaymentKept'
  <2> SUFFICES ASSUME NEW h \in paymentClaimed, ~(fulfilled[h] > 0), Fulfilling(h)' = {} PROVE h \in doubtful'
    BY <1>1 DEF PaymentKept
  <2>1. CASE Fulfilling(h) = {}
    BY <2>1, <1>1 DEF PayInv, PaymentKept
  <2>2. ASSUME NEW r \in Fulfilling(h) PROVE h \in doubtful'
    <3>1. r \in mine /\ stage[r] \in {"fulfilling", "releasing"} /\ Payment(r) = h
      BY <1>7, <2>2 DEF Fulfilling
    <3> QED
      BY <3>1, <1>1
  <2> QED
    BY <2>1, <2>2
<1> QED
  BY <1>2, <1>5, <1>6, <1>8, <1>9 DEF PayInv

LEMMA StillOwnerKeeps ==
  ASSUME PayInv, NEW r \in Requests, stage[r] = "asking", still_owner(r),
         UNCHANGED <<paymentClaimed, fulfilled, doubtful>>
  PROVE  PayInv'
<1>1. Kind(r) # "signIn" /\ Process(r) \in Processes /\ Player(r) \in Players /\ stage[r] \in Reading
  BY DEF PayInv, StageInv, Reading
<1>2. ASSUME admit({r}, Process(r), Player(r)) PROVE PayInv'
  BY <1>1, <1>2, AdmitKeeps
<1>3. ASSUME NEW s \in {"refused", "checking"}, goto(r, s), UNCHANGED paying PROVE PayInv'
  BY <1>1, <1>3, GotoKeeps DEF Stages, Awaiting, Reading, Paying, Outcomes
<1> QED
  BY <1>2, <1>3 DEF still_owner

LEMMA ReadSessionKeeps == ASSUME PayInv, NEW r \in Requests, read_session(r) PROVE PayInv'
<1>1. stage[r] \in Reading => Kind(r) # "signIn"
  BY DEF PayInv, StageInv
<1>2. CASE decode(r)
  <2>1. PICK s \in {"asking", "refused"} : goto(r, s)
    BY <1>2 DEF decode
  <2>2. stage[r] = "decoding" /\ UNCHANGED <<paying, paymentClaimed, fulfilled, doubtful>>
    BY <1>2 DEF decode, store, process, paymentHistory
  <2> QED
    BY <1>1, <2>1, <2>2, GotoKeeps DEF Stages, Awaiting, Reading, Paying, Outcomes
<1>3. CASE ask_store(r)
  <2>1. stage[r] = "asking" /\ UNCHANGED <<paymentClaimed, fulfilled, doubtful>>
    BY <1>3 DEF ask_store, store, paymentHistory
  <2>2. ASSUME goto(r, "refused"), UNCHANGED paying PROVE PayInv'
    BY <1>1, <2>1, <2>2, GotoKeeps DEF Stages, Awaiting, Reading, Paying, Outcomes
  <2> QED
    BY <1>3, <2>1, <2>2, StillOwnerKeeps DEF ask_store
<1>4. CASE ask_store_unanswered(r)
  BY <1>4, StillOwnerKeeps DEF ask_store_unanswered, store, paymentHistory
<1> QED
  BY <1>2, <1>3, <1>4 DEF read_session

LEMMA StillOwnerAnswerKeeps ==
  ASSUME PayInv, ChecksInv, NEW p \in Processes, NEW c \in ownerChecks[p], stillOwner(p, c)
  PROVE  PayInv'
<1>1. c.session \in SignIns /\ Player(c.session) \in Players
  BY DEF ChecksInv, OwnerChecks, SignIns
<1> DEFINE W == Waiting(p, c.session)
<1>2. \A r \in W : r \in Requests /\ stage[r] = "checking" /\ Process(r) = p /\ Kind(r) # "signIn"
                   /\ Player(r) = Player(c.session)
  BY DEF Waiting, PayInv, StageInv, Reading
<1>3. UNCHANGED <<paymentClaimed, fulfilled, doubtful>>
  BY DEF stillOwner, read_owner, check_owner, check_owner_unanswered, store, paymentHistory, sessionHistory
<1>4. ASSUME admit(W, p, Player(c.session)) PROVE PayInv'
  BY <1>1, <1>2, <1>3, <1>4, AdmitKeeps DEF Reading
<1>5. ASSUME stage' = [r \in Requests |-> IF r \in W THEN "refused" ELSE stage[r]], UNCHANGED paying PROVE PayInv'
  <2>1. StageInv'
    BY <1>5 DEF PayInv, StageInv, Stages, Outcomes, Paying, Reading
  <2>2. \A r \in Requests : stage'[r] = stage[r] \/ (stage[r] \notin Paying /\ stage'[r] \notin Paying)
    BY <1>2, <1>5 DEF Paying
  <2> QED
    BY <1>3, <1>5, <2>1, <2>2, ElsewhereKeeps
<1>6. ASSUME UNCHANGED <<stage, paying>> PROVE PayInv'
  BY <1>3, <1>6 DEF PayInv, StageInv, PayingOwned, LedgerInv, PaymentKept, Fulfilling
<1> QED
  BY <1>4, <1>5, <1>6 DEF stillOwner, read_owner, check_owner, check_owner_unanswered

\* The steps of a sign-in or sign-out, and a request's arrival.
LEMMA RoutesKeep ==
  ASSUME PayInv, NEW r \in Requests, arrive(r) \/ sign_in(r) \/ sign_out_route(r)
  PROVE  PayInv'
<1>1. UNCHANGED <<paying, paymentClaimed, fulfilled, doubtful>>
  BY DEF arrive, sign_in, sign_out_route, check_nonce, claim_nonce, claim_nonce_unanswered, verify_sign_in,
         start_session, refuse_session, sign_out, record_sign_out, record_sign_out_unanswered, store, process,
         paymentHistory
<1>2. stage[r] \notin Paying
  BY DEF arrive, sign_in, sign_out_route, check_nonce, claim_nonce, claim_nonce_unanswered, verify_sign_in,
         start_session, refuse_session, sign_out, record_sign_out, record_sign_out_unanswered, Paying
<1>3. PICK s \in Stages \ Paying : goto(r, s) /\ (s \in Reading => Kind(r) # "signIn")
  <2>1. CASE arrive(r)
    BY <2>1 DEF arrive, Stages, Awaiting, SigningIn, Reading, Paying
  <2>2. CASE sign_in(r)
    <3>1. \A s \in {"claiming", "verifying", "onSignIn", "answered", "refused"} :
            s \in Stages /\ s \notin Paying /\ s \notin Reading
      BY DEF Stages, Awaiting, SigningIn, Reading, Paying, Outcomes
    <3>2. \/ goto(r, "claiming") \/ goto(r, "verifying") \/ goto(r, "onSignIn")
          \/ goto(r, "answered") \/ goto(r, "refused")
      BY <2>2 DEF sign_in, check_nonce, claim_nonce, claim_nonce_unanswered, verify_sign_in, start_session,
                  refuse_session
    <3> QED
      BY <3>1, <3>2
  <2>3. CASE sign_out_route(r)
    BY <2>3 DEF sign_out_route, sign_out, record_sign_out, record_sign_out_unanswered, Stages, Awaiting, SigningIn,
                Reading, Paying, Outcomes
  <2> QED
    BY <2>1, <2>2, <2>3
<1> QED
  BY <1>1, <1>2, <1>3, GotoKeeps

LEMMA AcceptPaymentKeeps == ASSUME PayInv, NEW r \in Requests, accept_payment(r) PROVE PayInv'
  BY VerifyPaymentKeeps, ClaimPaymentKeeps, ClaimPaymentUnansweredKeeps, FulfilKeeps, FulfilFailsKeeps, ReleaseKeeps
  DEF accept_payment

LEMMA ChecksStep == ASSUME ChecksInv, PayInv, [Next]_vars PROVE ChecksInv'
<1>1. CASE UNCHANGED vars
  BY <1>1 DEF vars, process, ChecksInv
<1>2. CASE Tick
  BY <1>2 DEF Tick, process, ChecksInv
<1>3. ASSUME NEW a \in Players, remove_owner(a) PROVE ChecksInv'
  BY <1>3 DEF remove_owner, process, ChecksInv
<1>4. ASSUME NEW h \in Payments, pay(h) PROVE ChecksInv'
  BY <1>4 DEF pay, process, ChecksInv
<1>5. ASSUME NEW n \in Nonces, issue_nonce(n) PROVE ChecksInv'
  BY <1>5 DEF issue_nonce, process, ChecksInv
<1>6. ASSUME NEW r \in Requests, arrive(r) \/ sign_in(r) \/ sign_out_route(r) PROVE ChecksInv'
  BY <1>6 DEF arrive, sign_in, sign_out_route, check_nonce, claim_nonce, claim_nonce_unanswered, verify_sign_in,
         start_session, refuse_session, sign_out, record_sign_out, record_sign_out_unanswered, process, ChecksInv
<1>7. ASSUME NEW r \in Requests, read_session(r) PROVE ChecksInv'
  <2>1. CASE UNCHANGED <<now, ownerChecks>>
    BY <2>1 DEF ChecksInv
  <2>2. CASE stage[r] = "asking" /\ still_owner(r) /\ UNCHANGED now
    <3>1. Process(r) \in Processes /\ Session(r) \in SignIns
      BY <2>2 DEF PayInv, StageInv, Reading
    <3>2. [session |-> Session(r), start |-> now, answer |-> "none"] \in OwnerChecks
      BY <3>1 DEF ChecksInv, OwnerChecks
    <3> QED
      BY <2>2, <3>1, <3>2 DEF still_owner, ChecksInv
  <2> QED
    BY <1>7, <2>1, <2>2 DEF read_session, decode, ask_store, ask_store_unanswered, process
<1>8. ASSUME NEW r \in Requests, accept_payment(r) PROVE ChecksInv'
  BY <1>8 DEF accept_payment, verify_payment, claim_payment, claim_payment_unanswered, fulfil, fulfil_fails, release,
         release_unanswered, process, ChecksInv
<1>9. ASSUME NEW p \in Processes, NEW c \in ownerChecks[p], stillOwner(p, c) PROVE ChecksInv'
  <2>1. c \in OwnerChecks /\ \A a \in {"removed", "owner"} : [c EXCEPT !.answer = a] \in OwnerChecks
    BY DEF ChecksInv, OwnerChecks
  <2> QED
    BY <1>9, <2>1 DEF stillOwner, read_owner, check_owner, check_owner_unanswered, ChecksInv
<1>10. ASSUME NEW p \in Processes, restart(p) PROVE ChecksInv'
  BY <1>10 DEF restart, ChecksInv
<1> QED
  BY <1>1, <1>2, <1>3, <1>4, <1>5, <1>6, <1>7, <1>8, <1>9, <1>10 DEF Next

LEMMA PayStep == ASSUME PayInv, ChecksInv, [Next]_vars PROVE PayInv'
<1>1. ASSUME UNCHANGED <<stage, paying, paymentClaimed, fulfilled, doubtful>> PROVE PayInv'
  BY <1>1 DEF PayInv, StageInv, PayingOwned, LedgerInv, PaymentKept, Fulfilling
<1>2. CASE UNCHANGED vars
  BY <1>1, <1>2 DEF vars, store, process, paymentHistory
<1>3. CASE Tick
  BY <1>1, <1>3 DEF Tick, store, process, paymentHistory
<1>4. ASSUME NEW a \in Players, remove_owner(a) PROVE PayInv'
  BY <1>1, <1>4 DEF remove_owner, store, process, paymentHistory
<1>5. ASSUME NEW h \in Payments, pay(h) PROVE PayInv'
  BY <1>1, <1>5 DEF pay, store, process, paymentHistory
<1>6. ASSUME NEW n \in Nonces, issue_nonce(n) PROVE PayInv'
  BY <1>1, <1>6 DEF issue_nonce, store, process, paymentHistory
<1> QED
  BY <1>2, <1>3, <1>4, <1>5, <1>6, RoutesKeep, ReadSessionKeeps, AcceptPaymentKeeps, StillOwnerAnswerKeeps, RestartKeeps
  DEF Next

LEMMA PayAlways == Spec => [](PayInv /\ ChecksInv)
<1>1. Init => PayInv /\ ChecksInv
  BY PayInit DEF Init, ChecksInv
<1>2. (PayInv /\ ChecksInv) /\ [Next]_vars => (PayInv /\ ChecksInv)'
  BY PayStep, ChecksStep
<1> QED
  BY <1>1, <1>2, PTL DEF Spec

\* A payment is fulfilled once: the store's claim stands from before the site's
\* onPayment runs, and only a request whose onPayment threw releases it
\* (server.ts, POST payment).
THEOREM PaymentsOnce == Spec => []PaymentOnce
<1>1. PayInv => PaymentOnce
  BY DEF PayInv, LedgerInv, PaymentOnce
<1> QED
  BY <1>1, PayAlways, PTL

\* What the site could not fulfil stays the player's: a claimed payment was
\* fulfilled, or a request is at it, or the store or the process failed.
THEOREM PaymentsKept == Spec => []PaymentKept
<1>1. PayInv => PaymentKept
  BY DEF PayInv
<1> QED
  BY <1>1, PayAlways, PTL

\* The set of players with a payment being checked holds exactly those who have
\* one, on every path a check can end.
THEOREM PaymentsOwned == Spec => []PayingOwned
<1>1. PayInv => PayingOwned
  BY DEF PayInv
<1> QED
  BY <1>1, PayAlways, PTL

LEMMA Times ==
  /\ NONCE_TTL \in Nat \ {0} /\ NONCE_CLAIM \in Nat \ {0} /\ SESSION_TTL \in Nat \ {0} /\ StoreDelay \in Nat
  /\ NONCE_TTL + StoreDelay <= NONCE_CLAIM
  BY TimesAssumption, ClaimAssumption

(***************************************************************************)
(* Nonces                                                                  *)
(***************************************************************************)

Entering == {"new"} \union SigningIn

\* Sign-ins that hold the claim of their nonce.
Claimed(r) == r \in SignIns \ SignedInAtStart /\ (stage[r] \in {"verifying", "onSignIn"} \/ expiry[r] > 0)

NonceType ==
  /\ now \in Nat /\ since \in [Requests -> Nat]
  /\ issued \in [Nonces -> Nat] /\ expiry \in [SignIns -> Nat] /\ nonceUntil \in [Nonces -> Nat]

NonceInv ==
  /\ NonceType
  /\ \A n \in Nonces : issued[n] <= now + NONCE_TTL
  /\ \A s \in SignedInAtStart : stage[s] \notin Entering /\ issued[Job[s].nonce] = 0
  /\ \A r \in Requests : stage[r] \in SigningIn => r \in SignIns /\ issued[Job[r].nonce] > 0
  /\ \A r \in SignIns : stage[r] \in Entering => expiry[r] = 0
  /\ \A r \in Requests : stage[r] = "claiming" => since[r] < issued[Job[r].nonce] /\ now <= since[r] + StoreDelay
  /\ \A r \in SignIns : Claimed(r) =>
       issued[Job[r].nonce] > 0 /\ issued[Job[r].nonce] + StoreDelay <= nonceUntil[Job[r].nonce]
  /\ \A r, s \in SignIns : Claimed(r) /\ Claimed(s) /\ Job[r].nonce = Job[s].nonce => r = s

LEMMA NonceOf == \A r \in SignIns : r \in Requests /\ Kind(r) = "signIn" /\ Job[r].nonce \in Nonces
  BY DEF SignIns

LEMMA NonceInit == Init => NonceInv
  BY Times, StartAssumption, NonceOf
  DEF Init, NonceInv, NonceType, Entering, SigningIn, Claimed, SignIns

\* A step that leaves sign-ins where they are, or ends them, and the store's claims alone.
LEMMA NonceElsewhere ==
  ASSUME NonceInv, UNCHANGED <<now, issued, expiry, nonceUntil>>, since' \in [Requests -> Nat],
         \A r \in Requests : stage'[r] \in Entering => stage'[r] = stage[r] /\ since'[r] = since[r]
  PROVE  NonceInv'
<1>1. \A r \in SignIns : Claimed(r)' => Claimed(r)
  BY DEF Claimed, Entering, SigningIn, SignIns
<1>2. NonceType'
  BY DEF NonceInv, NonceType
<1>3. \A r \in Requests : stage'[r] \in SigningIn \/ stage'[r] = "claiming" => stage'[r] \in Entering
  BY DEF Entering, SigningIn
<1>4. \A r \in SignIns : r \in Requests
  BY NonceOf
<1>5. \A s \in SignedInAtStart : s \in Requests
  BY StartAssumption, NonceOf
<1> QED
  BY <1>1, <1>2, <1>3, <1>4, <1>5 DEF NonceInv

\* A sign-in ends or its proof is verified: it holds no claim it did not hold.
LEMMA NonceGoes ==
  ASSUME NonceInv, StageInv, NEW r \in Requests, NEW s \in {"refused", "answered", "onSignIn"}, goto(r, s),
         s = "onSignIn" => stage[r] = "verifying",
         UNCHANGED <<now, since, issued, expiry, nonceUntil>>
  PROVE  NonceInv'
<1>1. stage' = [stage EXCEPT ![r] = s] /\ stage \in [Requests -> Stages]
  BY DEF goto, StageInv
<1>2. \A q \in SignIns : Claimed(q)' => Claimed(q)
  BY <1>1 DEF Claimed, SignIns
<1>3. NonceType'
  BY DEF NonceInv, NonceType
<1>4. \A q \in Requests : stage'[q] = "claiming" => stage[q] = "claiming"
  BY <1>1
<1>5. \A q \in Requests : (stage'[q] \in SigningIn => stage[q] \in SigningIn) /\ (stage'[q] \in Entering => stage[q] \in Entering)
  BY <1>1 DEF Entering, SigningIn
<1>6. \A q \in SignIns : q \in Requests
  BY NonceOf
<1>7. \A q \in SignedInAtStart : q \in Requests
  BY StartAssumption, NonceOf
<1> QED
  BY <1>2, <1>3, <1>4, <1>5, <1>6, <1>7 DEF NonceInv

LEMMA NonceTick == ASSUME NonceInv, Tick PROVE NonceInv'
<1>1. /\ now' = now + 1 /\ now \in Nat /\ UNCHANGED <<stage, since, issued, expiry, nonceUntil>>
      /\ \A r \in Requests : stage[r] = "claiming" => now < since[r] + StoreDelay
  BY DEF Tick, store, NonceInv, NonceType
<1>2. \A r \in SignIns : Claimed(r)' = Claimed(r)
  BY <1>1 DEF Claimed
<1>3. NonceType'
  BY <1>1 DEF NonceInv, NonceType
<1>4. \A r \in Requests : stage'[r] = "claiming" => now' <= since'[r] + StoreDelay
  BY <1>1, <1>3, Times DEF NonceType
<1>5. \A n \in Nonces : issued'[n] <= now' + NONCE_TTL
  BY <1>1, Times DEF NonceInv, NonceType
<1> QED
  BY <1>1, <1>2, <1>3, <1>4, <1>5 DEF NonceInv

LEMMA NonceIssued == ASSUME NonceInv, NEW n \in Nonces, issue_nonce(n) PROVE NonceInv'
<1>1. /\ issued[n] = 0 /\ issued' = [issued EXCEPT ![n] = now + NONCE_TTL]
      /\ \A s \in SignedInAtStart : Job[s].nonce # n
      /\ UNCHANGED <<now, stage, since, expiry, nonceUntil>>
  BY DEF issue_nonce, store
<1>2. now + NONCE_TTL \in Nat /\ now + NONCE_TTL > 0 /\ now + NONCE_TTL <= now + NONCE_TTL
  BY Times DEF NonceInv, NonceType
<1>3. NonceType'
  BY <1>1, <1>2 DEF NonceInv, NonceType
<1>4. \A m \in Nonces : issued'[m] = IF m = n THEN now + NONCE_TTL ELSE issued[m]
  BY <1>1 DEF NonceInv, NonceType
<1>5. \A r \in SignIns : Claimed(r)' = Claimed(r)
  BY <1>1 DEF Claimed
<1>6. \A r \in Requests : stage[r] = "claiming" => stage[r] \in SigningIn
  BY DEF SigningIn
<1>7. \A r \in SignIns : Job[r].nonce \in Nonces
  BY NonceOf
<1>8. \A r \in Requests : stage[r] \in SigningIn => Job[r].nonce # n /\ Job[r].nonce \in Nonces
  BY <1>1, <1>7 DEF NonceInv
<1>9. \A r \in SignIns : Claimed(r) => Job[r].nonce # n
  BY <1>1 DEF NonceInv
<1>10. \A s \in SignedInAtStart : Job[s].nonce \in Nonces /\ Job[s].nonce # n
  BY <1>1, <1>7, StartAssumption
<1> QED
  BY <1>1, <1>2, <1>3, <1>4, <1>5, <1>6, <1>7, <1>8, <1>9, <1>10 DEF NonceInv

LEMMA NonceArrives == ASSUME NonceInv, StageInv, NEW r \in Requests, arrive(r) PROVE NonceInv'
<1>1. stage[r] = "new" /\ UNCHANGED <<now, since, issued, expiry, nonceUntil>>
  BY DEF arrive, store
<1>2. CASE Kind(r) = "signIn"
  <2>1. stage' = [stage EXCEPT ![r] = "nonce"] /\ issued[Job[r].nonce] > 0 /\ stage \in [Requests -> Stages]
    BY <1>2 DEF arrive, goto, StageInv
  <2>2. r \in SignIns /\ r \notin SignedInAtStart /\ stage[r] \in Entering
    BY <1>1, <1>2 DEF SignIns, NonceInv, Entering
  <2>3. \A q \in SignIns : Claimed(q)' = Claimed(q)
    BY <1>1, <2>1 DEF Claimed, SignIns
  <2>4. NonceType'
    BY <1>1 DEF NonceInv, NonceType
  <2>5. \A q \in SignIns : q \in Requests
    BY NonceOf
  <2>6. \A q \in SignedInAtStart : q \in Requests
    BY StartAssumption, NonceOf
  <2> QED
    BY <1>1, <2>1, <2>2, <2>3, <2>4, <2>5, <2>6 DEF NonceInv
<1>3. CASE Kind(r) # "signIn"
  <2>1. stage' = [stage EXCEPT ![r] = stage'[r]] /\ stage'[r] \notin Entering
    BY <1>3 DEF arrive, goto, StageInv, Entering, SigningIn
  <2>2. \A q \in Requests : stage'[q] \in Entering => stage'[q] = stage[q] /\ since'[q] = since[q]
    BY <1>1, <2>1 DEF StageInv
  <2> QED
    BY <1>1, <2>2, NonceElsewhere DEF NonceInv, NonceType
<1> QED
  BY <1>2, <1>3

\* The check that passed is not older than the store's delay when the claim arrives.
LEMMA NonceChecked == ASSUME NonceInv, StageInv, NEW r \in Requests, check_nonce(r) PROVE NonceInv'
<1>1. /\ stage[r] = "nonce" /\ since' = [since EXCEPT ![r] = now] /\ stage \in [Requests -> Stages]
      /\ stage' = [stage EXCEPT ![r] = IF now < issued[Job[r].nonce] THEN "claiming" ELSE "refused"]
      /\ UNCHANGED <<now, issued, expiry, nonceUntil>>
  BY DEF check_nonce, goto, store, StageInv
<1>2. NonceType'
  BY <1>1 DEF NonceInv, NonceType
<1>3. stage[r] \in SigningIn /\ stage[r] \in Entering /\ r \in SignIns /\ Job[r].nonce \in Nonces
  BY <1>1, NonceOf DEF SigningIn, Entering, NonceInv
<1>4. \A q \in SignIns : Claimed(q)' = Claimed(q)
  BY <1>1 DEF Claimed, SignIns
<1>5. \A q \in Requests : stage'[q] = "claiming" => since'[q] < issued[Job[q].nonce] /\ now <= since'[q] + StoreDelay
  BY <1>1, Times DEF NonceInv, NonceType
<1>6. \A q \in Requests : (stage'[q] \in SigningIn => stage[q] \in SigningIn) /\ (stage'[q] \in Entering => stage[q] \in Entering)
  BY <1>1, <1>3
<1>7. \A q \in SignIns : q \in Requests
  BY NonceOf
<1>8. \A q \in SignedInAtStart : q \in Requests
  BY StartAssumption, NonceOf
<1> QED
  BY <1>1, <1>2, <1>4, <1>5, <1>6, <1>7, <1>8 DEF NonceInv

\* While a claim stands no other claim of its nonce is accepted.
LEMMA ClaimStands ==
  ASSUME NonceInv, NEW r \in Requests, stage[r] = "claiming", NEW q \in SignIns, Claimed(q),
         Job[q].nonce = Job[r].nonce
  PROVE  now < nonceUntil[Job[r].nonce]
<1>1. r \in SignIns /\ Job[r].nonce \in Nonces
  BY NonceOf DEF NonceInv, SigningIn
<1> QED
  BY <1>1, Times DEF NonceInv, NonceType

LEMMA NonceClaimed == ASSUME NonceInv, StageInv, NEW r \in Requests, claim_nonce(r) PROVE NonceInv'
<1>1. /\ stage[r] = "claiming" /\ stage \in [Requests -> Stages] /\ UNCHANGED <<now, since, issued, expiry>>
  BY DEF claim_nonce, StageInv
<1>2. r \in SignIns /\ Job[r].nonce \in Nonces /\ r \notin SignedInAtStart /\ issued[Job[r].nonce] > 0
  BY <1>1, NonceOf DEF NonceInv, SigningIn, Entering
<1>3. CASE now < nonceUntil[Job[r].nonce]
  BY <1>1, <1>3, NonceGoes DEF claim_nonce
<1>4. CASE ~(now < nonceUntil[Job[r].nonce])
  <2> DEFINE n == Job[r].nonce
  <2>1. stage' = [stage EXCEPT ![r] = "verifying"] /\ nonceUntil' = [nonceUntil EXCEPT ![n] = now + NONCE_CLAIM]
    BY <1>4 DEF claim_nonce, goto
  <2>2. \A q \in SignIns : Claimed(q) => Job[q].nonce # n
    BY <1>1, <1>4, ClaimStands
  <2>3. \A q \in SignIns : Claimed(q)' => Claimed(q) \/ q = r
    BY <1>1, <2>1 DEF Claimed, SignIns
  <2>4. issued[n] + StoreDelay <= now + NONCE_CLAIM /\ now + NONCE_CLAIM \in Nat
    BY <1>2, Times DEF NonceInv, NonceType
  <2>5. NonceType'
    BY <1>1, <2>1, <2>4 DEF NonceInv, NonceType
  <2>6. \A m \in Nonces : nonceUntil'[m] = IF m = n THEN now + NONCE_CLAIM ELSE nonceUntil[m]
    BY <2>1 DEF NonceInv, NonceType
  <2>7. \A q \in SignIns : Claimed(q)' => issued'[Job[q].nonce] > 0 /\ issued'[Job[q].nonce] + StoreDelay <= nonceUntil'[Job[q].nonce]
    BY <1>1, <1>2, <2>2, <2>3, <2>4, <2>6, NonceOf DEF NonceInv
  <2>8. \A q, s \in SignIns : Claimed(q)' /\ Claimed(s)' /\ Job[q].nonce = Job[s].nonce => q = s
    BY <2>2, <2>3 DEF NonceInv
  <2>9. \A q \in Requests : (stage'[q] \in SigningIn => stage[q] \in SigningIn) /\ (stage'[q] \in Entering => stage[q] \in Entering)
                            /\ (stage'[q] = "claiming" => stage[q] = "claiming")
    BY <1>1, <2>1 DEF Entering, SigningIn
  <2>10. \A q \in SignIns : q \in Requests
    BY NonceOf
  <2>11. \A q \in SignedInAtStart : q \in Requests
    BY StartAssumption, NonceOf
  <2> QED
    BY <1>1, <2>5, <2>7, <2>8, <2>9, <2>10, <2>11 DEF NonceInv
<1> QED
  BY <1>3, <1>4

LEMMA NonceClaimLost == ASSUME NonceInv, StageInv, NEW r \in Requests, claim_nonce_unanswered(r) PROVE NonceInv'
<1> DEFINE n == Job[r].nonce
<1>1. /\ stage[r] = "claiming" /\ stage \in [Requests -> Stages] /\ UNCHANGED <<now, since, issued, expiry>>
      /\ stage' = [stage EXCEPT ![r] = "refused"]
  BY DEF claim_nonce_unanswered, StageInv, goto
<1>2. r \in SignIns /\ n \in Nonces
  BY <1>1, NonceOf DEF NonceInv, SigningIn
<1>3. CASE UNCHANGED nonceUntil
  <2>1. goto(r, "refused")
    BY DEF claim_nonce_unanswered
  <2> QED
    BY <1>1, <1>3, <2>1, NonceGoes
<1>4. CASE ~(now < nonceUntil[n]) /\ nonceUntil' = [nonceUntil EXCEPT ![n] = now + NONCE_CLAIM]
  <2>1. \A q \in SignIns : Claimed(q) => Job[q].nonce # n
    BY <1>1, <1>4, ClaimStands
  <2>2. \A q \in SignIns : Claimed(q)' = Claimed(q)
    BY <1>1 DEF Claimed, SignIns
  <2>3. NonceType'
    <3>1. NonceType /\ now + NONCE_CLAIM \in Nat
      BY Times DEF NonceInv, NonceType
    <3> QED
      BY <3>1, <1>1, <1>4 DEF NonceType
  <2>4. \A m \in Nonces : m # n => nonceUntil'[m] = nonceUntil[m]
    BY <1>4 DEF NonceInv, NonceType
  <2>5. \A q \in SignIns : Claimed(q)' => issued'[Job[q].nonce] > 0 /\ issued'[Job[q].nonce] + StoreDelay <= nonceUntil'[Job[q].nonce]
    BY <1>1, <2>1, <2>2, <2>4, NonceOf DEF NonceInv
  <2>6. \A q \in Requests : (stage'[q] \in SigningIn => stage[q] \in SigningIn) /\ (stage'[q] \in Entering => stage[q] \in Entering)
                            /\ (stage'[q] = "claiming" => stage[q] = "claiming")
    BY <1>1 DEF Entering, SigningIn
  <2>7. \A q \in SignIns : q \in Requests
    BY NonceOf
  <2>8. \A q \in SignedInAtStart : q \in Requests
    BY StartAssumption, NonceOf
  <2> QED
    BY <1>1, <2>2, <2>3, <2>5, <2>6, <2>7, <2>8 DEF NonceInv
<1>5. now >= nonceUntil[n] => ~(now < nonceUntil[n])
  BY <1>2 DEF NonceInv, NonceType
<1> QED
  BY <1>3, <1>4, <1>5 DEF claim_nonce_unanswered

LEMMA NonceStarts == ASSUME NonceInv, StageInv, NEW r \in Requests, start_session(r) PROVE NonceInv'
<1>1. /\ stage[r] = "onSignIn" /\ stage \in [Requests -> Stages] /\ stage' = [stage EXCEPT ![r] = "answered"]
      /\ expiry' = [expiry EXCEPT ![r] = now + SESSION_TTL] /\ UNCHANGED <<now, since, issued, nonceUntil>>
  BY DEF start_session, StageInv, goto, store
<1>2. r \in SignIns /\ r \notin SignedInAtStart
  BY <1>1 DEF NonceInv, SigningIn, Entering
<1>3. NonceType'
  <2>1. NonceType /\ now + SESSION_TTL \in Nat
    BY Times DEF NonceInv, NonceType
  <2> QED
    BY <2>1, <1>1 DEF NonceType
<1>4. \A q \in SignIns : q # r => expiry'[q] = expiry[q]
  BY <1>1 DEF NonceInv, NonceType
<1>5. \A q \in SignIns : Claimed(q)' => Claimed(q)
  BY <1>1, <1>2, <1>4 DEF Claimed, SignIns
<1>6. \A q \in Requests : (stage'[q] \in SigningIn => stage[q] \in SigningIn)
                          /\ (stage'[q] \in Entering => stage[q] \in Entering /\ q # r)
                          /\ (stage'[q] = "claiming" => stage[q] = "claiming")
  BY <1>1 DEF Entering, SigningIn
<1>7. \A q \in SignIns : q \in Requests
  BY NonceOf
<1>8. \A q \in SignedInAtStart : q \in Requests
  BY StartAssumption, NonceOf
<1> QED
  BY <1>1, <1>3, <1>4, <1>5, <1>6, <1>7, <1>8 DEF NonceInv

LEMMA NonceSignsIn == ASSUME NonceInv, StageInv, NEW r \in Requests, sign_in(r) PROVE NonceInv'
<1>1. CASE verify_sign_in(r)
  <2>1. /\ stage[r] = "verifying" /\ UNCHANGED <<now, since, issued, expiry, nonceUntil>>
        /\ goto(r, "onSignIn") \/ goto(r, "refused")
    BY <1>1 DEF verify_sign_in, store
  <2> QED
    BY <2>1, NonceGoes
<1>2. CASE refuse_session(r)
  <2>1. goto(r, "refused") /\ UNCHANGED <<now, since, issued, expiry, nonceUntil>>
    BY <1>2 DEF refuse_session, store
  <2> QED
    BY <2>1, NonceGoes
<1> QED
  BY <1>1, <1>2, NonceChecked, NonceClaimed, NonceClaimLost, NonceStarts DEF sign_in

LEMMA NonceRest ==
  ASSUME NonceInv, StageInv,
         \/ \E a \in Players : remove_owner(a)
         \/ \E h \in Payments : pay(h)
         \/ \E r \in Requests : sign_out_route(r) \/ read_session(r) \/ accept_payment(r)
         \/ \E p \in Processes : (\E c \in ownerChecks[p] : stillOwner(p, c)) \/ restart(p)
  PROVE  NonceInv'
<1>1. UNCHANGED <<now, issued, expiry, nonceUntil>>
  BY DEF remove_owner, pay, sign_out_route, sign_out, record_sign_out, record_sign_out_unanswered, read_session, decode,
         ask_store, ask_store_unanswered, accept_payment, verify_payment, claim_payment, claim_payment_unanswered, fulfil,
         fulfil_fails, release, release_unanswered, stillOwner, read_owner, check_owner, check_owner_unanswered, restart,
         store
<1>2. ASSUME UNCHANGED <<stage, since>> PROVE NonceInv'
  BY <1>1, <1>2, NonceElsewhere DEF NonceInv, NonceType
<1>3. ASSUME NEW r \in Requests, NEW s \in Stages \ Entering, goto(r, s), since' \in [Requests -> Nat],
             \A q \in Requests : q # r => since'[q] = since[q]
      PROVE  NonceInv'
  <2>1. \A q \in Requests : stage'[q] = IF q = r THEN s ELSE stage[q]
    BY <1>3 DEF goto, StageInv
  <2> QED
    BY <1>1, <1>3, <2>1, NonceElsewhere
<1>4. \A s \in Reading \union Paying \union {"signingOut", "recording"} \union Outcomes : s \in Stages \ Entering
  BY DEF Stages, Awaiting, Reading, Paying, Outcomes, Entering, SigningIn
<1>5. ASSUME NEW r \in Requests, sign_out_route(r) PROVE NonceInv'
  <2>1. \E s \in {"recording", "answered"} : goto(r, s)
    BY <1>5 DEF sign_out_route, sign_out, record_sign_out, record_sign_out_unanswered
  <2>2. since' = since \/ since' = [since EXCEPT ![r] = now]
    BY <1>5 DEF sign_out_route, sign_out, record_sign_out, record_sign_out_unanswered
  <2>3. since' \in [Requests -> Nat] /\ \A q \in Requests : q # r => since'[q] = since[q]
    BY <2>2 DEF NonceInv, NonceType
  <2> QED
    BY <1>3, <1>4, <2>1, <2>3 DEF Outcomes
<1>6. ASSUME UNCHANGED since,
             \A q \in Requests : stage'[q] \in {stage[q], "answered", "verifyingPayment", "refused", "dropped"}
      PROVE  NonceInv'
  <2>1. \A q \in Requests : stage'[q] \in Entering => stage'[q] = stage[q]
    BY <1>6 DEF Entering, SigningIn
  <2> QED
    BY <1>1, <1>6, <2>1, NonceElsewhere DEF NonceInv, NonceType
<1>7. ASSUME NEW W \in SUBSET Requests, NEW p, NEW player, UNCHANGED since, admit(W, p, player) PROVE NonceInv'
  <2>1. \A q \in Requests : stage'[q] \in {stage[q], "answered", "verifyingPayment", "refused", "dropped"}
    BY <1>7 DEF admit
  <2> QED
    BY <1>6, <1>7, <2>1
<1>8. ASSUME NEW r \in Requests, NEW s \in Reading \union Paying \union Outcomes, goto(r, s), UNCHANGED since
      PROVE  NonceInv'
  BY <1>3, <1>4, <1>8 DEF NonceInv, NonceType
<1>9. ASSUME NEW r \in Requests, read_session(r) PROVE NonceInv'
  <2>1. UNCHANGED since /\ {r} \in SUBSET Requests
    BY <1>9 DEF read_session, decode, ask_store, ask_store_unanswered
  <2>2. (\E s \in {"asking", "refused", "checking"} : goto(r, s)) \/ admit({r}, Process(r), Player(r))
    BY <1>9 DEF read_session, decode, ask_store, ask_store_unanswered, still_owner
  <2> QED
    BY <1>7, <1>8, <2>1, <2>2 DEF Reading, Outcomes
<1>10. ASSUME NEW r \in Requests, accept_payment(r) PROVE NonceInv'
  <2>1. UNCHANGED since
    BY <1>10 DEF accept_payment, verify_payment, claim_payment, claim_payment_unanswered, fulfil, fulfil_fails,
         release, release_unanswered
  <2>2. \E s \in {"claimingPayment", "fulfilling", "releasing", "answered", "refused"} : goto(r, s)
    BY <1>10 DEF accept_payment, verify_payment, claim_payment, claim_payment_unanswered, fulfil, fulfil_fails,
         release, release_unanswered
  <2> QED
    BY <1>8, <2>1, <2>2 DEF Paying, Outcomes
<1>11. ASSUME NEW p \in Processes, NEW c \in ownerChecks[p], stillOwner(p, c) PROVE NonceInv'
  <2>1. UNCHANGED since /\ Waiting(p, c.session) \in SUBSET Requests
    BY <1>11 DEF stillOwner, read_owner, check_owner, check_owner_unanswered, Waiting
  <2>2. \/ UNCHANGED stage \/ admit(Waiting(p, c.session), p, Player(c.session))
        \/ \A q \in Requests : stage'[q] \in {stage[q], "answered", "verifyingPayment", "refused", "dropped"}
    BY <1>11 DEF stillOwner, read_owner, check_owner, check_owner_unanswered
  <2> QED
    BY <1>2, <1>6, <1>7, <2>1, <2>2
<1>12. ASSUME NEW p \in Processes, restart(p) PROVE NonceInv'
  <2>1. UNCHANGED since
    BY <1>12 DEF restart
  <2>2. \A q \in Requests : stage'[q] \in {stage[q], "answered", "verifyingPayment", "refused", "dropped"}
    BY <1>12 DEF restart
  <2> QED
    BY <1>6, <2>1, <2>2
<1>13. ASSUME NEW a \in Players, remove_owner(a) PROVE NonceInv'
  BY <1>2, <1>13 DEF remove_owner
<1>14. ASSUME NEW h \in Payments, pay(h) PROVE NonceInv'
  BY <1>2, <1>14 DEF pay
<1> QED
  BY <1>5, <1>9, <1>10, <1>11, <1>12, <1>13, <1>14

LEMMA NonceStep == ASSUME NonceInv, StageInv, [Next]_vars PROVE NonceInv'
<1>1. CASE UNCHANGED vars
  BY <1>1, NonceElsewhere DEF vars, store, NonceInv, NonceType
<1> QED
  BY <1>1, NonceTick, NonceIssued, NonceArrives, NonceSignsIn, NonceRest DEF Next

LEMMA NonceAlways == Spec => []NonceInv
<1>1. PayInv => StageInv
  BY DEF PayInv
<1>2. StageInv /\ NonceInv /\ [Next]_vars => NonceInv'
  BY NonceStep
<1> QED
  BY <1>1, <1>2, NonceInit, PayAlways, PTL DEF Spec

\* A nonce starts one session, on whichever process and however late its copies
\* are checked, and whether or not the store answered (server.ts, readNonce and
\* the claim of sign-in).
THEOREM SignsInOnce == Spec => []SignInOnce
<1>1. NonceInv => SignInOnce
  <2> SUFFICES ASSUME NonceInv, NEW r \in SignIns, NEW s \in SignIns, Job[r].nonce = Job[s].nonce, expiry[r] > 0,
                      expiry[s] > 0
               PROVE  r = s
    BY DEF SignInOnce
  <2>1. CASE r \in SignedInAtStart /\ s \in SignedInAtStart
    BY <2>1, StartAssumption
  <2>2. CASE r \notin SignedInAtStart /\ s \notin SignedInAtStart
    BY <2>2 DEF NonceInv, Claimed
  <2>3. ASSUME NEW x \in SignIns, NEW y \in SignIns, x \in SignedInAtStart, y \notin SignedInAtStart, expiry[y] > 0,
               Job[x].nonce = Job[y].nonce
        PROVE  FALSE
    BY <2>3, NonceOf DEF NonceInv, NonceType, Claimed
  <2> QED
    BY <2>1, <2>2, <2>3
<1> QED
  BY <1>1, NonceAlways, PTL

(***************************************************************************)
(* Sign-outs                                                               *)
(***************************************************************************)

\* Request r is not a copy of a cookie that was signed out, or the store did not say so, or the session is over.
Excused(r) == r \in unsure \/ now >= expiry[Session(r)]

SignOutInv ==
  /\ signoutUntil \in [SignIns -> Nat] /\ acceptedAt \in [Requests -> Int]
  /\ late \subseteq Requests /\ unsure \subseteq Requests
  /\ \A r \in Requests : Kind(r) # "signIn" /\ stage[r] # "new" => expiry[Session(r)] > 0
  /\ \A s \in SignIns : signoutUntil[s] > 0 => expiry[s] > 0 /\ expiry[s] <= signoutUntil[s]
  /\ \A r \in Requests : stage[r] \in {"signingOut", "recording"} => Kind(r) # "signIn"
  /\ \A r \in Requests : stage[r] = "recording" => since[r] <= now
  /\ \A r \in late : Kind(r) # "signIn" /\ signoutUntil[Session(r)] > 0
  /\ \A r \in late : stage[r] = "checking" => Excused(r)
  /\ \A r \in Requests : stage[r] = "new" => acceptedAt[r] < 0
  /\ SignedOutStays

LEMMA SignOutInit == Init => SignOutInv
  BY StartAssumption, JobAssumption DEF Init, SignOutInv, SignedOutStays, Excused, SignIns

\* A step that takes no request for its player's and leaves sign-outs, and sessions that started, alone.
LEMMA SignOutElsewhere ==
  ASSUME SignOutInv, NonceType, NonceType', now <= now',
         \A s \in SignIns : expiry[s] > 0 => expiry'[s] = expiry[s],
         UNCHANGED <<signoutUntil, acceptedAt, late>>, unsure \subseteq unsure', unsure' \subseteq Requests,
         \A r \in Requests : stage'[r] \in {"new", "signingOut", "recording", "checking"} => stage'[r] = stage[r],
         \A r \in Requests : stage[r] = "new" => stage'[r] = "new" \/ Kind(r) = "signIn",
         \A r \in Requests : stage'[r] = "recording" => since'[r] = since[r]
  PROVE  SignOutInv'
<1>1. \A r \in Requests : Kind(r) # "signIn" => Session(r) \in SignIns
  OBVIOUS
<1>2. \A r \in Requests : Kind(r) # "signIn" /\ expiry[Session(r)] > 0 => expiry'[Session(r)] = expiry[Session(r)]
  BY <1>1
<1>3. \A r \in late : Excused(r) => Excused(r)'
  BY <1>2 DEF SignOutInv, Excused, NonceType
<1>4. \A r \in Requests : stage'[r] = "recording" => since'[r] <= now'
  BY DEF SignOutInv, NonceType
<1>5. SignedOutStays'
  BY <1>2 DEF SignOutInv, SignedOutStays
<1>6. \A r \in Requests : Kind(r) # "signIn" /\ stage'[r] # "new" => expiry'[Session(r)] > 0
  BY <1>2 DEF SignOutInv
<1>7. \A s \in SignIns : signoutUntil[s] > 0 => expiry'[s] > 0 /\ expiry'[s] <= signoutUntil[s]
  BY DEF SignOutInv
<1> QED
  BY <1>3, <1>4, <1>5, <1>6, <1>7 DEF SignOutInv

\* Requests let in were excused.
LEMMA SignOutAdmits ==
  ASSUME SignOutInv, NonceType, StageInv, NEW W \in SUBSET Requests, NEW p, NEW player, admit(W, p, player),
         \A r \in W : stage[r] \in Reading, \A r \in W \intersect late : r \in unsure' \/ now >= expiry[Session(r)],
         UNCHANGED <<now, since, expiry, signoutUntil, late>>, unsure \subseteq unsure', unsure' \subseteq Requests
  PROVE  SignOutInv'
<1>1. \A r \in Requests : acceptedAt'[r] = IF r \in W THEN now ELSE acceptedAt[r]
  BY DEF admit
<1>2. \A r \in Requests : r \notin W => stage'[r] = stage[r]
  BY DEF admit
<1>3. \A r \in W : stage'[r] \in {"answered", "verifyingPayment", "refused", stage[r]} /\ stage[r] # "new"
  BY DEF admit, Reading
<1>4. \A r \in W : stage'[r] \in {"answered", "verifyingPayment", "refused"}
  BY DEF admit
<1>5. acceptedAt' \in [Requests -> Int]
  BY DEF admit, SignOutInv, NonceType
<1>6. SignedOutStays'
  BY <1>1 DEF SignOutInv, SignedOutStays
<1>7. \A r \in Requests : stage'[r] \in {"new", "signingOut", "recording", "checking"} => stage'[r] = stage[r] /\ r \notin W
  BY <1>2, <1>4
<1>8. \A r \in Requests : stage[r] = "new" => stage'[r] = "new"
  BY <1>2, <1>3
<1>9. \A r \in late : stage'[r] = "checking" => Excused(r)'
  BY <1>7 DEF SignOutInv, Excused
<1>10. \A r \in Requests : stage'[r] = "new" => acceptedAt'[r] < 0
  BY <1>1, <1>7 DEF SignOutInv
<1>11. \A r \in Requests : stage'[r] = "recording" => since'[r] <= now'
  BY <1>7 DEF SignOutInv
<1>12. \A r \in Requests : Kind(r) # "signIn" /\ stage'[r] # "new" => expiry'[Session(r)] > 0
  BY <1>8 DEF SignOutInv
<1>13. \A r \in Requests : stage'[r] \in {"signingOut", "recording"} => Kind(r) # "signIn"
  BY <1>7 DEF SignOutInv
<1> QED
  BY <1>5, <1>6, <1>9, <1>10, <1>11, <1>12, <1>13 DEF SignOutInv

LEMMA SignOutArrives ==
  ASSUME SignOutInv, NonceType, NonceType', StageInv, NEW r \in Requests, arrive(r)
  PROVE  SignOutInv'
<1>1. /\ stage[r] = "new" /\ UNCHANGED <<now, since, expiry, signoutUntil, acceptedAt, unsure>>
      /\ \A q \in Requests : q # r => stage'[q] = stage[q]
      /\ stage'[r] \in {"nonce", "signingOut", "decoding"} /\ (stage'[r] = "signingOut" => Kind(r) # "signIn")
  BY DEF arrive, goto, store, StageInv
<1>2. late' = IF Kind(r) # "signIn" /\ signoutUntil[Session(r)] > 0 THEN late \union {r} ELSE late
  BY DEF arrive
<1>3. Kind(r) # "signIn" => expiry[Session(r)] > 0
  BY DEF arrive
<1>4. \A q \in late' : q \in late \/ (q = r /\ Kind(r) # "signIn" /\ signoutUntil[Session(r)] > 0 /\ acceptedAt[r] < 0)
  BY <1>1, <1>2 DEF SignOutInv
<1>5. SignedOutStays'
  <2> SUFFICES ASSUME NEW q \in late', acceptedAt[q] >= 0
               PROVE  q \in unsure \/ acceptedAt[q] >= expiry[Session(q)]
    BY <1>1 DEF SignedOutStays
  <2>1. q \in late
    BY <1>4 DEF SignOutInv
  <2> QED
    BY <2>1 DEF SignOutInv, SignedOutStays
<1>6. \A q \in late' : stage'[q] = "checking" => Excused(q)'
  BY <1>1, <1>4 DEF SignOutInv, Excused
<1>7. late' \subseteq Requests
  BY <1>2 DEF SignOutInv
<1>8. \A q \in Requests : Kind(q) # "signIn" /\ stage'[q] # "new" => expiry'[Session(q)] > 0
  BY <1>1, <1>3 DEF SignOutInv
<1>9. \A q \in Requests : stage'[q] = "new" => acceptedAt'[q] < 0
  BY <1>1 DEF SignOutInv
<1>10. \A q \in late' : Kind(q) # "signIn" /\ signoutUntil'[Session(q)] > 0
  BY <1>1, <1>4 DEF SignOutInv
<1>11. \A q \in Requests : /\ stage'[q] \in {"signingOut", "recording"} => Kind(q) # "signIn"
                           /\ stage'[q] = "recording" => since'[q] <= now'
  BY <1>1 DEF SignOutInv
<1> QED
  BY <1>1, <1>5, <1>6, <1>7, <1>8, <1>9, <1>10, <1>11 DEF SignOutInv

\* What is left of a session counted from an earlier look at the clock ends no earlier than the session.
LEMMA SignOutRecords ==
  ASSUME SignOutInv, NonceType, NonceType', StageInv, NEW r \in Requests, sign_out_route(r)
  PROVE  SignOutInv'
<1>1. /\ UNCHANGED <<now, expiry, acceptedAt, late, unsure>> /\ stage[r] \in {"signingOut", "recording"}
      /\ \A q \in Requests : q # r => stage'[q] = stage[q]
  BY DEF sign_out_route, sign_out, record_sign_out, record_sign_out_unanswered, goto, StageInv, sessionHistory
<1>2. Kind(r) # "signIn" /\ Session(r) \in SignIns /\ expiry[Session(r)] > 0
  BY <1>1 DEF SignOutInv
<1>3. CASE sign_out(r)
  <2>1. /\ UNCHANGED signoutUntil /\ since' = [since EXCEPT ![r] = now] /\ stage'[r] \in {"recording", "answered"}
    BY <1>3 DEF sign_out, goto, store, StageInv
  <2>2. \A q \in Requests : stage'[q] = "recording" => since'[q] <= now
    BY <1>1, <2>1 DEF SignOutInv, NonceType
  <2>3. \A q \in late : stage'[q] = "checking" => Excused(q)'
    BY <1>1, <2>1 DEF SignOutInv, Excused
  <2>4. \A q \in Requests : Kind(q) # "signIn" /\ stage'[q] # "new" => expiry'[Session(q)] > 0
    BY <1>1, <1>2 DEF SignOutInv
  <2>5. \A q \in Requests : stage'[q] = "new" => acceptedAt'[q] < 0
    BY <1>1, <2>1 DEF SignOutInv
  <2>6. \A q \in Requests : stage'[q] \in {"signingOut", "recording"} => Kind(q) # "signIn"
    BY <1>1, <1>2 DEF SignOutInv
  <2>7. SignedOutStays'
    BY <1>1 DEF SignOutInv, SignedOutStays
  <2> QED
    BY <1>1, <2>1, <2>2, <2>3, <2>4, <2>5, <2>6, <2>7 DEF SignOutInv
<1>4. CASE record_sign_out(r) \/ record_sign_out_unanswered(r)
  <2>1. stage[r] = "recording" /\ stage'[r] = "answered" /\ UNCHANGED since /\ (signed_out(r) \/ UNCHANGED signoutUntil)
    BY <1>4 DEF record_sign_out, record_sign_out_unanswered, goto, StageInv
  <2>2. since[r] <= now /\ since[r] \in Nat /\ now \in Nat /\ expiry[Session(r)] \in Nat
    BY <1>2, <2>1 DEF SignOutInv, NonceType
  <2>3. /\ signoutUntil' \in [SignIns -> Nat]
        /\ \A s \in SignIns : signoutUntil'[s] > 0 => expiry[s] > 0 /\ expiry[s] <= signoutUntil'[s]
        /\ \A s \in SignIns : signoutUntil[s] > 0 => signoutUntil'[s] > 0
    <3>1. CASE UNCHANGED signoutUntil
      BY <3>1 DEF SignOutInv
    <3>2. CASE signed_out(r)
      <4> DEFINE until == now + (expiry[Session(r)] - since[r])
      <4>1. until \in Nat /\ until > 0 /\ expiry[Session(r)] <= until
        BY <1>2, <2>2
      <4>2. \/ UNCHANGED signoutUntil
            \/ signoutUntil' = [signoutUntil EXCEPT ![Session(r)] = until]
        BY <3>2 DEF signed_out, SignOutInv
      <4> HIDE DEF until
      <4> QED
        BY <1>2, <4>1, <4>2, <3>1 DEF SignOutInv
    <3> QED
      BY <2>1, <3>1, <3>2
  <2>4. \A q \in late : stage'[q] = "checking" => Excused(q)'
    BY <1>1, <2>1 DEF SignOutInv, Excused
  <2>5. \A q \in Requests : Kind(q) # "signIn" /\ stage'[q] # "new" => expiry'[Session(q)] > 0
    BY <1>1, <1>2 DEF SignOutInv
  <2>6. \A q \in Requests : stage'[q] = "new" => acceptedAt'[q] < 0
    BY <1>1, <2>1 DEF SignOutInv
  <2>7. \A q \in Requests : /\ stage'[q] \in {"signingOut", "recording"} => Kind(q) # "signIn"
                            /\ stage'[q] = "recording" => since'[q] <= now'
    BY <1>1, <2>1 DEF SignOutInv
  <2>8. \A q \in late : Kind(q) # "signIn" /\ signoutUntil'[Session(q)] > 0
    BY <2>3 DEF SignOutInv
  <2>9. SignedOutStays'
    BY <1>1 DEF SignOutInv, SignedOutStays
  <2> QED
    BY <1>1, <2>3, <2>4, <2>5, <2>6, <2>7, <2>8, <2>9 DEF SignOutInv
<1> QED
  BY <1>3, <1>4 DEF sign_out_route

\* A request the store let pass, or could not refuse, is let in, waits for the chain, or is turned away.
LEMMA SignOutAsks ==
  ASSUME SignOutInv, NonceType, NonceType', StageInv, NEW r \in Requests, stage[r] = "asking", still_owner(r),
         r \in late => r \in unsure' \/ now >= expiry[Session(r)],
         UNCHANGED <<now, since, expiry, signoutUntil, late>>, unsure \subseteq unsure', unsure' \subseteq Requests
  PROVE  SignOutInv'
<1>1. CASE admit({r}, Process(r), Player(r))
  BY <1>1, SignOutAdmits DEF Reading
<1>2. CASE goto(r, "refused") /\ UNCHANGED acceptedAt
  <2>1. \A q \in Requests : stage'[q] = IF q = r THEN "refused" ELSE stage[q]
    BY <1>2 DEF goto, StageInv
  <2>2. now <= now'
    BY DEF NonceType
  <2> QED
    BY <1>2, <2>1, <2>2, SignOutElsewhere
<1>3. CASE goto(r, "checking") /\ UNCHANGED acceptedAt
  <2>1. \A q \in Requests : stage'[q] = IF q = r THEN "checking" ELSE stage[q]
    BY <1>3 DEF goto, StageInv
  <2>2. \A q \in late : stage'[q] = "checking" => Excused(q)'
    BY <2>1 DEF SignOutInv, Excused
  <2>3. \A q \in Requests : Kind(q) # "signIn" /\ stage'[q] # "new" => expiry'[Session(q)] > 0
    BY <2>1 DEF SignOutInv
  <2>4. \A q \in Requests : stage'[q] = "new" => acceptedAt'[q] < 0
    BY <1>3, <2>1 DEF SignOutInv
  <2>5. \A q \in Requests : /\ stage'[q] \in {"signingOut", "recording"} => Kind(q) # "signIn"
                            /\ stage'[q] = "recording" => since'[q] <= now'
    BY <2>1 DEF SignOutInv
  <2>6. SignedOutStays'
    BY <1>3 DEF SignOutInv, SignedOutStays
  <2> QED
    BY <1>3, <2>2, <2>3, <2>4, <2>5, <2>6 DEF SignOutInv
<1> QED
  BY <1>1, <1>2, <1>3 DEF still_owner

LEMMA SignOutReads ==
  ASSUME SignOutInv, NonceType, NonceType', StageInv, NEW r \in Requests, read_session(r)
  PROVE  SignOutInv'
<1>1. UNCHANGED <<now, since, expiry, signoutUntil, late>>
  BY DEF read_session, decode, ask_store, ask_store_unanswered, store, sessionHistory
<1>2. now <= now'
  BY <1>1 DEF NonceType
<1>3. ASSUME NEW s \in {"asking", "refused"}, goto(r, s), stage[r] \in {"decoding", "asking"},
             UNCHANGED <<acceptedAt, unsure>>
      PROVE  SignOutInv'
  <2>1. \A q \in Requests : stage'[q] = IF q = r THEN s ELSE stage[q]
    BY <1>3 DEF goto, StageInv
  <2> QED
    BY <1>1, <1>2, <1>3, <2>1, SignOutElsewhere DEF SignOutInv
<1>4. CASE decode(r)
  <2>1. stage[r] = "decoding" /\ \E s \in {"asking", "refused"} : goto(r, s) /\ UNCHANGED <<acceptedAt, unsure>>
    BY <1>4 DEF decode, sessionHistory
  <2> QED
    BY <1>3, <2>1
<1>5. CASE ask_store(r)
  <2>1. stage[r] = "asking" /\ UNCHANGED unsure
    BY <1>5 DEF ask_store
  <2>2. CASE now < signoutUntil[Session(r)]
    <3>1. goto(r, "refused") /\ UNCHANGED acceptedAt
      BY <1>5, <2>2 DEF ask_store
    <3> QED
      BY <1>3, <2>1, <3>1
  <2>3. CASE ~(now < signoutUntil[Session(r)])
    <3>1. still_owner(r)
      BY <1>5, <2>3 DEF ask_store
    <3>2. Session(r) \in SignIns
      BY <2>1 DEF StageInv, Reading
    <3>3. r \in late => now >= expiry[Session(r)]
      BY <2>3, <3>2 DEF SignOutInv, NonceType
    <3> QED
      BY <1>1, <2>1, <3>1, <3>3, SignOutAsks DEF SignOutInv
  <2> QED
    BY <2>2, <2>3
<1>6. CASE ask_store_unanswered(r)
  <2>1. stage[r] = "asking" /\ still_owner(r) /\ unsure' = unsure \union {r}
    BY <1>6 DEF ask_store_unanswered
  <2> QED
    BY <1>1, <2>1, SignOutAsks DEF SignOutInv
<1> QED
  BY <1>4, <1>5, <1>6 DEF read_session

LEMMA SignOutAnswers ==
  ASSUME SignOutInv, NonceType, NonceType', StageInv, NEW p \in Processes, NEW c \in ownerChecks[p], stillOwner(p, c)
  PROVE  SignOutInv'
<1> DEFINE W == Waiting(p, c.session)
<1>1. UNCHANGED <<now, since, expiry, signoutUntil, late, unsure>>
  BY DEF stillOwner, read_owner, check_owner, check_owner_unanswered, store, sessionHistory
<1>2. now <= now' /\ W \in SUBSET Requests /\ \A r \in W : stage[r] = "checking" /\ stage[r] \in Reading
  BY <1>1 DEF NonceType, Waiting, Reading
<1>3. \A r \in W \intersect late : r \in unsure' \/ now >= expiry[Session(r)]
  BY <1>1, <1>2 DEF SignOutInv, Excused
<1>4. CASE admit(W, p, Player(c.session))
  BY <1>1, <1>2, <1>3, <1>4, SignOutAdmits DEF SignOutInv
<1>5. CASE (\A q \in Requests : stage'[q] = IF q \in W THEN "refused" ELSE stage[q]) /\ UNCHANGED acceptedAt
  BY <1>1, <1>2, <1>5, SignOutElsewhere DEF SignOutInv
<1>6. CASE UNCHANGED <<stage, acceptedAt>>
  BY <1>1, <1>2, <1>6, SignOutElsewhere DEF SignOutInv
<1> QED
  BY <1>4, <1>5, <1>6 DEF stillOwner, read_owner, check_owner, check_owner_unanswered, sessionHistory

LEMMA SignOutSignsIn ==
  ASSUME SignOutInv, NonceInv, NonceType', StageInv, NEW r \in Requests, sign_in(r)
  PROVE  SignOutInv'
<1>1. UNCHANGED <<now, signoutUntil, acceptedAt, late, unsure>> /\ stage[r] \in SigningIn
  BY DEF sign_in, check_nonce, claim_nonce, claim_nonce_unanswered, verify_sign_in, start_session, refuse_session,
         store, sessionHistory, SigningIn
<1>2. NonceType /\ now <= now' /\ r \in SignIns /\ expiry[r] = 0
  BY <1>1 DEF NonceInv, NonceType, Entering
<1>3. /\ \A q \in Requests : q # r => stage'[q] = stage[q] /\ since'[q] = since[q]
      /\ stage'[r] \in {"claiming", "verifying", "onSignIn", "answered", "refused"}
  BY <1>2 DEF sign_in, check_nonce, claim_nonce, claim_nonce_unanswered, verify_sign_in, start_session, refuse_session,
         goto, StageInv, NonceType
<1>4. \A s \in SignIns : s # r => expiry'[s] = expiry[s]
  BY <1>2 DEF sign_in, check_nonce, claim_nonce, claim_nonce_unanswered, verify_sign_in, start_session, refuse_session,
         NonceType
<1>5. \A s \in SignIns : expiry[s] > 0 => expiry'[s] = expiry[s]
  BY <1>2, <1>4
<1>6. \A q \in Requests : stage[q] = "new" => stage'[q] = "new" \/ Kind(q) = "signIn"
  BY <1>2, <1>3 DEF SignIns
<1> QED
  BY <1>1, <1>2, <1>3, <1>5, <1>6, SignOutElsewhere DEF SignOutInv

LEMMA SignOutRest ==
  ASSUME SignOutInv, NonceType, NonceType', StageInv,
         \/ Tick
         \/ \E a \in Players : remove_owner(a)
         \/ \E h \in Payments : pay(h)
         \/ \E n \in Nonces : issue_nonce(n)
         \/ \E r \in Requests : accept_payment(r)
         \/ \E p \in Processes : restart(p)
         \/ UNCHANGED vars
  PROVE  SignOutInv'
<1>1. UNCHANGED <<since, expiry, signoutUntil, acceptedAt, late, unsure>>
  BY DEF Tick, remove_owner, pay, issue_nonce, accept_payment, verify_payment, claim_payment, claim_payment_unanswered,
         fulfil, fulfil_fails, release, release_unanswered, restart, vars, store, sessionHistory
<1>2. now <= now'
  BY DEF Tick, remove_owner, pay, issue_nonce, accept_payment, verify_payment, claim_payment, claim_payment_unanswered,
         fulfil, fulfil_fails, release, release_unanswered, restart, vars, NonceType
<1>3. ASSUME \A q \in Requests : /\ stage'[q] # stage[q] => stage[q] # "new"
                                 /\ stage'[q] \in {"new", "signingOut", "recording", "checking"} => stage'[q] = stage[q]
      PROVE  SignOutInv'
  BY <1>1, <1>2, <1>3, SignOutElsewhere DEF SignOutInv
<1>4. ASSUME NEW r \in Requests, accept_payment(r) PROVE SignOutInv'
  <2>1. \E s \in {"claimingPayment", "fulfilling", "releasing", "answered", "refused"} : goto(r, s)
    BY <1>4 DEF accept_payment, verify_payment, claim_payment, claim_payment_unanswered, fulfil, fulfil_fails,
         release, release_unanswered
  <2>2. stage[r] # "new"
    BY <1>4 DEF accept_payment, verify_payment, claim_payment, claim_payment_unanswered, fulfil, fulfil_fails,
         release, release_unanswered
  <2>3. /\ \A q \in Requests : q # r => stage'[q] = stage[q]
        /\ stage'[r] \in {"claimingPayment", "fulfilling", "releasing", "answered", "refused"}
    BY <2>1 DEF goto, StageInv
  <2> QED
    BY <1>3, <2>2, <2>3
<1>5. ASSUME NEW p \in Processes, restart(p) PROVE SignOutInv'
  <2>1. \A q \in Requests : stage'[q] = stage[q] \/ (stage'[q] = "dropped" /\ stage[q] \in Awaiting)
    BY <1>5 DEF restart
  <2> QED
    BY <1>3, <2>1 DEF Awaiting, Reading, Paying, SigningIn
<1>6. CASE UNCHANGED stage
  BY <1>3, <1>6
<1> QED
  BY <1>4, <1>5, <1>6 DEF Tick, remove_owner, pay, issue_nonce, vars

LEMMA SignOutStep == ASSUME SignOutInv, NonceInv, NonceType', StageInv, [Next]_vars PROVE SignOutInv'
<1>1. NonceType
  BY DEF NonceInv
<1> QED
  BY <1>1, SignOutArrives, SignOutRecords, SignOutReads, SignOutAnswers, SignOutSignsIn, SignOutRest DEF Next

LEMMA SignOutAlways == Spec => []SignOutInv
<1>1. PayInv => StageInv
  BY DEF PayInv
<1>2. NonceInv => NonceType
  BY DEF NonceInv
<1>3. StageInv /\ NonceInv /\ NonceType' /\ SignOutInv /\ [Next]_vars => SignOutInv'
  BY SignOutStep
<1> QED
  BY <1>1, <1>2, <1>3, SignOutInit, PayAlways, NonceAlways, PTL DEF Spec

\* Once a sign-out is recorded no copy of the session's cookie that arrives is
\* taken for the player's on any process, unless the store does not answer
\* (server.ts, POST sign-out and signedOut).
THEOREM SignedOutForGood == Spec => []SignedOutStays
<1>1. SignOutInv => SignedOutStays
  BY DEF SignOutInv
<1> QED
  BY <1>1, SignOutAlways, PTL

(***************************************************************************)
(* Owners.  What a process remembers of a passkey's owner was read from    *)
(* the chain before the removal, was said by a sign-in, or stands in for   *)
(* an answer that did not come: none of them for long.                     *)
(***************************************************************************)

\* A process remembers one answer per session, of as many as it may.
OneEach(seen) == \A i, j \in DOMAIN seen : seen[i].session = seen[j].session => i = j
SeenType ==
  /\ ownerSeen \in [Processes -> Seq(OwnerEntry)]
  /\ \A p \in Processes : Len(ownerSeen[p]) <= MAX_OWNER_ENTRIES /\ OneEach(ownerSeen[p])

LEMMA Forgotten ==
  ASSUME NEW seen \in Seq(OwnerEntry), OneEach(seen), NEW s
  PROVE  /\ forget(seen, s) \in Seq(OwnerEntry) /\ Len(forget(seen, s)) <= Len(seen)
         /\ OneEach(forget(seen, s))
         /\ \A k \in DOMAIN forget(seen, s) :
              /\ forget(seen, s)[k].session # s
              /\ \E j \in DOMAIN seen : forget(seen, s)[k] = seen[j]
<1> DEFINE found == {j \in DOMAIN seen : seen[j].session = s}
           i == CHOOSE j \in found : TRUE
           rest == [k \in 1 .. Len(seen) - 1 |-> seen[IF k < i THEN k ELSE k + 1]]
<1>1. CASE found = {}
  <2>1. forget(seen, s) = seen
    BY <1>1 DEF forget
  <2> QED
    BY <1>1, <2>1
<1>2. CASE found # {}
  <2>1. forget(seen, s) = rest
    BY <1>2 DEF forget
  <2>2. i \in found
    BY <1>2
  <2>3. i \in 1..Len(seen) /\ Len(seen) \in Nat /\ DOMAIN seen = 1..Len(seen) /\ seen[i].session = s
    BY <2>2, LenProperties
  <2> HIDE DEF i
  <2>4. \A k \in 1..(Len(seen) - 1) : LET j == IF k < i THEN k ELSE k + 1
                                     IN j \in 1..Len(seen) /\ j # i /\ rest[k] = seen[j]
    BY <2>3
  <2>5. rest \in Seq(OwnerEntry) /\ Len(rest) = Len(seen) - 1 /\ DOMAIN rest = 1..(Len(seen) - 1)
    <3>1. Len(seen) - 1 \in Nat
      BY <2>3
    <3>2. \A k \in 1..(Len(seen) - 1) : rest[k] \in OwnerEntry
      BY <2>4, ElementOfSeq
    <3> QED
      BY <3>1, <3>2
  <2>6. \A k \in DOMAIN rest : LET j == IF k < i THEN k ELSE k + 1
                               IN j \in DOMAIN seen /\ j # i /\ rest[k] = seen[j]
    BY <2>3, <2>4, <2>5
  <2>7. \A j \in DOMAIN seen : seen[j].session = s => j = i
    BY <2>3 DEF OneEach
  <2>8. OneEach(rest)
    <3> SUFFICES ASSUME NEW k \in DOMAIN rest, NEW l \in DOMAIN rest, rest[k].session = rest[l].session
                 PROVE  k = l
      BY DEF OneEach
    <3> DEFINE jk == IF k < i THEN k ELSE k + 1
               jl == IF l < i THEN l ELSE l + 1
    <3>1. jk \in DOMAIN seen /\ jl \in DOMAIN seen /\ rest[k] = seen[jk] /\ rest[l] = seen[jl]
      BY <2>6
    <3>2. jk = jl
      BY <3>1 DEF OneEach
    <3>3. k \in 1..(Len(seen) - 1) /\ l \in 1..(Len(seen) - 1)
      BY <2>5
    <3> QED
      BY <2>3, <3>2, <3>3
  <2> HIDE DEF rest
  <2>9. Len(rest) <= Len(seen)
    BY <2>3, <2>5
  <2>10. \A k \in DOMAIN rest : rest[k].session # s /\ \E j \in DOMAIN seen : rest[k] = seen[j]
    BY <2>6, <2>7
  <2> QED
    BY <2>1, <2>5, <2>8, <2>9, <2>10
<1> QED
  BY <1>1, <1>2

\* Every answer a process remembers after rememberOwner() is the new one or was
\* remembered before.
Kept(p, s) ==
  LET others == forget(ownerSeen[p], s)
  IN IF Len(others) >= MAX_OWNER_ENTRIES THEN Tail(others) ELSE others

LEMMA Remembered ==
  ASSUME SeenType, NEW p \in Processes, NEW e \in OwnerEntry,
         ownerSeen' = [ownerSeen EXCEPT ![p] = Append(Kept(p, e.session), e)]
  PROVE  /\ SeenType'
         /\ \A q \in Processes : \A i \in DOMAIN ownerSeen'[q] :
              \/ \E j \in DOMAIN ownerSeen[q] : ownerSeen'[q][i] = ownerSeen[q][j]
              \/ ownerSeen'[q][i] = e
<1> DEFINE s == e.session
           seen == ownerSeen[p]
           others == forget(seen, s)
           kept == IF Len(others) >= MAX_OWNER_ENTRIES THEN Tail(others) ELSE others
           new == Append(kept, e)
<1>1. MAX_OWNER_ENTRIES \in Nat \ {0} /\ seen \in Seq(OwnerEntry) /\ OneEach(seen)
      /\ Len(seen) <= MAX_OWNER_ENTRIES
  BY TimesAssumption DEF SeenType
<1>2. /\ others \in Seq(OwnerEntry) /\ Len(others) <= Len(seen) /\ OneEach(others)
      /\ \A k \in DOMAIN others : others[k].session # s /\ \E j \in DOMAIN seen : others[k] = seen[j]
  BY <1>1, Forgotten
<1>3. ownerSeen' = [ownerSeen EXCEPT ![p] = new]
  BY DEF Kept
<1> HIDE DEF others
<1>4. /\ kept \in Seq(OwnerEntry) /\ Len(kept) < MAX_OWNER_ENTRIES
      /\ \A k \in 1..Len(kept) : \E j \in 1..Len(others) : kept[k] = others[j] /\ j = k + (Len(others) - Len(kept))
  <2>1. CASE Len(others) >= MAX_OWNER_ENTRIES
    <3>1. others # <<>> /\ kept = Tail(others)
      BY <1>1, <1>2, <2>1
    <3>2. kept \in Seq(OwnerEntry) /\ Len(kept) = Len(others) - 1 /\ Len(others) \in Nat
          /\ \A k \in 1..Len(kept) : kept[k] = others[k + 1]
      BY <1>2, <3>1, HeadTailProperties, LenProperties
    <3>3. Len(kept) < MAX_OWNER_ENTRIES
      BY <1>1, <1>2, <3>2
    <3>4. \A n \in Nat, k \in Int : k \in 1..(n - 1) => k + 1 \in 1..n /\ k + 1 = k + (n - (n - 1))
      OBVIOUS
    <3>5. \A k \in 1..Len(kept) : k + 1 \in 1..Len(others) /\ k + 1 = k + (Len(others) - Len(kept))
      <4>1. Len(others) \in Nat /\ Len(kept) = Len(others) - 1 /\ \A k \in 1..Len(kept) : k \in Int
        BY <3>2
      <4> QED
        BY <3>4, <4>1
    <3> QED
      BY <3>2, <3>3, <3>5
  <2>2. CASE Len(others) < MAX_OWNER_ENTRIES
    <3>1. kept = others /\ Len(others) \in Nat
      BY <1>1, <1>2, <2>2, LenProperties
    <3>2. \A k \in 1..Len(kept) : k = k + (Len(others) - Len(kept))
      BY <3>1
    <3> QED
      BY <1>2, <2>2, <3>1, <3>2
  <2>3. Len(others) \in Nat
    BY <1>2, LenProperties
  <2>4. Len(others) >= MAX_OWNER_ENTRIES \/ Len(others) < MAX_OWNER_ENTRIES
    BY <1>1, <2>3
  <2> QED
    BY <2>1, <2>2, <2>4
<1> HIDE DEF kept
<1>5. /\ new \in Seq(OwnerEntry) /\ Len(new) = Len(kept) + 1 /\ Len(kept) \in Nat
      /\ \A k \in 1..Len(kept) : new[k] = kept[k]
      /\ new[Len(kept) + 1] = e /\ DOMAIN new = 1..(Len(kept) + 1)
  BY <1>1, <1>4, AppendProperties, LenProperties
<1>6. \A k \in DOMAIN new : (k \in 1..Len(kept) /\ new[k] = kept[k]) \/ (k = Len(kept) + 1 /\ new[k] = e)
  BY <1>5
<1>7. \A k \in 1..Len(kept) : new[k].session # s /\ \E j \in DOMAIN seen : new[k] = seen[j]
  <2>1. DOMAIN others = 1..Len(others)
    BY <1>2, LenProperties
  <2> SUFFICES ASSUME NEW k \in 1..Len(kept)
               PROVE  new[k].session # s /\ \E j \in DOMAIN seen : new[k] = seen[j]
    OBVIOUS
  <2>2. PICK j \in 1..Len(others) : kept[k] = others[j]
    BY <1>4
  <2>3. new[k] = others[j]
    BY <1>5, <2>2
  <2> QED
    BY <1>2, <2>1, <2>2, <2>3
<1>8. OneEach(new)
  <2>1. \A k, l \in 1..Len(kept) : new[k].session = new[l].session => k = l
    <3> SUFFICES ASSUME NEW k \in 1..Len(kept), NEW l \in 1..Len(kept), new[k].session = new[l].session
                 PROVE  k = l
      OBVIOUS
    <3>1. PICK j \in 1..Len(others) : new[k] = others[j] /\ j = k + (Len(others) - Len(kept))
      BY <1>4, <1>5
    <3>2. PICK i \in 1..Len(others) : new[l] = others[i] /\ i = l + (Len(others) - Len(kept))
      BY <1>4, <1>5
    <3>3. DOMAIN others = 1..Len(others) /\ Len(others) \in Nat
      BY <1>2, LenProperties
    <3>4. i = j
      BY <1>2, <3>1, <3>2, <3>3 DEF OneEach
    <3>5. \A x, y, d \in Int : x + d = y + d => x = y
      OBVIOUS
    <3>6. Len(kept) \in Int
      BY <1>5
    <3>7. k \in Int /\ l \in Int /\ Len(others) - Len(kept) \in Int
      BY <3>3, <3>6
    <3> QED
      BY <3>1, <3>2, <3>4, <3>5, <3>7
  <2> QED
    BY <1>6, <1>7, <2>1 DEF OneEach
<1>9. Len(new) <= MAX_OWNER_ENTRIES
  BY <1>1, <1>4, <1>5
<1> HIDE DEF new
<1>10. \A q \in Processes : ownerSeen'[q] = IF q = p THEN new ELSE ownerSeen[q]
  BY <1>3 DEF SeenType
<1>11. SeenType'
  <2>1. ownerSeen' \in [Processes -> Seq(OwnerEntry)]
    BY <1>3, <1>5 DEF SeenType
  <2> QED
    BY <1>8, <1>9, <1>10, <2>1 DEF SeenType
<1>12. \A k \in DOMAIN new : (\E j \in DOMAIN seen : new[k] = seen[j]) \/ new[k] = e
  BY <1>6, <1>7
<1> QED
  BY <1>10, <1>11, <1>12

\* An answer about session s that is good until then is not older than what it
\* stands on, plus ownerCheckSeconds.
Recent(s, until) ==
  IF Player(s) \in removed
  THEN \E t \in {removedAt[Player(s)], startedAt[s], failedAt[s]} : until <= t + OwnerCheck
  ELSE until <= now + OwnerCheck

\* A check under way ends in time, and has not read an owner who was removed before it.
CheckTimely(c) ==
  /\ c.start <= now /\ now <= c.start + OWNER_CHECK_TIMEOUT
  /\ c.answer = "owner" /\ Player(c.session) \in removed => c.start <= removedAt[Player(c.session)]

OwnerType ==
  /\ SeenType
  /\ removed \subseteq Players /\ removedAt \in [Players -> Nat]
  /\ startedAt \in [SignIns -> Nat] /\ failedAt \in [SignIns -> Nat]
  /\ acceptedAt \in [Requests -> Int]

NothingAhead ==
  /\ \A a \in Players : removedAt[a] <= now
  /\ \A s \in SignIns : startedAt[s] <= now /\ failedAt[s] <= now
  /\ \A r \in Requests : acceptedAt[r] <= now /\ (acceptedAt[r] >= 0 => Kind(r) # "signIn")

EntryRecent(e) == e.owner => Recent(e.session, e.next)
SeenRecent == \A p \in Processes : \A i \in DOMAIN ownerSeen[p] : EntryRecent(ownerSeen[p][i])

OwnerInv ==
  /\ OwnerType /\ NothingAhead /\ SeenRecent
  /\ \A p \in Processes : \A c \in ownerChecks[p] : CheckTimely(c)
  /\ RemovedStops

LEMMA OwnerTimes ==
  /\ OwnerCheck \in Nat /\ OWNER_CHECK_TIMEOUT \in Nat /\ OWNER_RETRY \in Nat
  /\ \A t \in Nat : Stale(t) \in Nat /\ t + OwnerCheck <= Stale(t) /\ t + OWNER_CHECK_TIMEOUT <= Stale(t)
  BY TimesAssumption DEF Stale

LEMMA SessionOf ==
  \A r \in Requests : Kind(r) # "signIn" =>
    Session(r) \in SignIns /\ Player(Session(r)) = Player(r) /\ Player(r) \in Players
  OBVIOUS

LEMMA SignInPlayer == \A s \in SignIns : Player(s) \in Players
  BY DEF SignIns

LEMMA SeenEntry ==
  ASSUME SeenType, NEW p \in Processes, NEW i \in DOMAIN ownerSeen[p]
  PROVE  ownerSeen[p][i] \in OwnerEntry /\ ownerSeen[p][i].session \in SignIns /\ ownerSeen[p][i].next \in Nat
<1>1. ownerSeen[p] \in Seq(OwnerEntry)
  BY DEF SeenType
<1>2. i \in 1..Len(ownerSeen[p])
  BY <1>1, LenProperties
<1>3. ownerSeen[p][i] \in OwnerEntry
  BY <1>1, <1>2, ElementOfSeq
<1> QED
  BY <1>3 DEF OwnerEntry

LEMMA OwnerInit == Init => OwnerInv
<1> SUFFICES ASSUME Init PROVE OwnerInv
  OBVIOUS
<1>1. OwnerType
  <2>1. SeenType
    BY TimesAssumption DEF Init, SeenType, OneEach
  <2> QED
    BY <2>1 DEF Init, OwnerType
<1>2. NothingAhead
  BY DEF Init, NothingAhead
<1>3. SeenRecent
  BY DEF Init, SeenRecent
<1> QED
  BY <1>1, <1>2, <1>3 DEF Init, OwnerInv, RemovedStops, AcceptedWhenRemoved

\* What is recent, and what was accepted in time, stays so while time stands and no more is removed.
LEMMA OwnerKept ==
  ASSUME OwnerInv, now \in Nat, UNCHANGED <<now, removed, removedAt>>, SeenType',
         startedAt' \in [SignIns -> Nat], \A s \in SignIns : startedAt[s] <= startedAt'[s] /\ startedAt'[s] <= now,
         failedAt' \in [SignIns -> Nat], \A s \in SignIns : failedAt[s] <= failedAt'[s] /\ failedAt'[s] <= now,
         acceptedAt' \in [Requests -> Int],
         \A r \in Requests :
           \/ acceptedAt'[r] = acceptedAt[r]
           \/ /\ acceptedAt'[r] = now /\ Kind(r) # "signIn"
              /\ Player(r) \in removed =>
                   \E t \in {removedAt[Player(r)], startedAt'[Session(r)], failedAt'[Session(r)]} : now <= Stale(t),
         \A p \in Processes : \A i \in DOMAIN ownerSeen'[p] :
           \/ \E j \in DOMAIN ownerSeen[p] : ownerSeen'[p][i] = ownerSeen[p][j]
           \/ EntryRecent(ownerSeen[p][i])',
         \A p \in Processes : \A c \in ownerChecks'[p] : c \in ownerChecks[p] \/ CheckTimely(c)
  PROVE  OwnerInv'
<1>1. OwnerType' /\ NothingAhead'
  BY DEF OwnerInv, OwnerType, NothingAhead
<1>2. \A s \in SignIns : \A until \in Nat : Recent(s, until) => Recent(s, until)'
  <2> SUFFICES ASSUME NEW s \in SignIns, NEW until \in Nat, Recent(s, until)
               PROVE  Recent(s, until)'
    OBVIOUS
  <2>1. CASE Player(s) \notin removed
    BY <2>1 DEF Recent
  <2>2. CASE Player(s) \in removed
    <3>1. PICK t \in {removedAt[Player(s)], startedAt[s], failedAt[s]} : until <= t + OwnerCheck
      BY <2>2 DEF Recent
    <3>2. \E u \in {removedAt[Player(s)], startedAt'[s], failedAt'[s]} : t <= u /\ t \in Nat /\ u \in Nat
      BY <3>1, SignInPlayer DEF OwnerInv, OwnerType
    <3>3. \E u \in {removedAt[Player(s)], startedAt'[s], failedAt'[s]} : until <= u + OwnerCheck
      BY <3>1, <3>2, OwnerTimes
    <3> QED
      BY <2>2, <3>3 DEF Recent
  <2> QED BY <2>1, <2>2
<1>3. SeenRecent'
  <2> SUFFICES ASSUME NEW p \in Processes, NEW i \in DOMAIN ownerSeen'[p]
               PROVE  EntryRecent(ownerSeen[p][i])'
    BY DEF SeenRecent
  <2>1. ASSUME NEW j \in DOMAIN ownerSeen[p], ownerSeen'[p][i] = ownerSeen[p][j]
        PROVE  EntryRecent(ownerSeen[p][i])'
    <3>1. ownerSeen[p][j].session \in SignIns /\ ownerSeen[p][j].next \in Nat
      BY SeenEntry DEF OwnerInv, OwnerType
    <3>2. EntryRecent(ownerSeen[p][j])
      BY DEF OwnerInv, SeenRecent
    <3>3. PICK e : e = ownerSeen[p][j]
      OBVIOUS
    <3>4. e.owner => Recent(e.session, e.next)'
      BY <1>2, <3>1, <3>2, <3>3 DEF EntryRecent
    <3>5. ownerSeen'[p][i] = e
      BY <2>1, <3>3
    <3> QED
      BY <3>4, <3>5 DEF EntryRecent, Recent
  <2> QED
    BY <2>1
<1>4. \A p \in Processes : \A c \in ownerChecks'[p] : CheckTimely(c)'
  BY DEF OwnerInv, CheckTimely
<1>5. RemovedStops'
  <2> SUFFICES ASSUME NEW r \in Requests, acceptedAt'[r] >= 0, Player(r) \in removed
               PROVE  \E t \in {removedAt[Player(r)], startedAt'[Session(r)], failedAt'[Session(r)]} :
                        acceptedAt'[r] <= Stale(t)
    BY DEF RemovedStops, AcceptedWhenRemoved, Stale
  <2>1. CASE acceptedAt'[r] = acceptedAt[r]
    <3>1. Session(r) \in SignIns /\ Player(r) \in Players
      BY <2>1, SessionOf DEF OwnerInv, NothingAhead
    <3>2. PICK t \in {removedAt[Player(r)], startedAt[Session(r)], failedAt[Session(r)]} : acceptedAt[r] <= Stale(t)
      BY <2>1 DEF OwnerInv, RemovedStops, AcceptedWhenRemoved
    <3>3. PICK u \in {removedAt[Player(r)], startedAt'[Session(r)], failedAt'[Session(r)]} :
            t <= u /\ t \in Nat /\ u \in Nat
      BY <3>1, <3>2 DEF OwnerInv, OwnerType
    <3>4. Stale(t) <= Stale(u) /\ Stale(t) \in Nat /\ Stale(u) \in Nat
      BY <3>3, OwnerTimes DEF Stale
    <3>5. acceptedAt[r] \in Int
      BY DEF OwnerInv, OwnerType
    <3> QED
      BY <2>1, <3>2, <3>3, <3>4, <3>5
  <2>2. CASE acceptedAt'[r] # acceptedAt[r]
    BY <2>2
  <2> QED BY <2>1, <2>2
<1> QED
  BY <1>1, <1>3, <1>4, <1>5 DEF OwnerInv

\* A step that touches nothing of this.
LEMMA OwnerElsewhere ==
  ASSUME OwnerInv, now \in Nat, UNCHANGED <<now, removed, removedAt, ownerSeen, ownerChecks, startedAt, failedAt, acceptedAt>>
  PROVE  OwnerInv'
  BY DEF OwnerInv, OwnerType, NothingAhead, SeenRecent, EntryRecent, Recent, CheckTimely, RemovedStops, AcceptedWhenRemoved,
         SeenType, OneEach

\* Time passes while every check has some left.
LEMMA OwnerTick == ASSUME OwnerInv, ChecksInv, Tick PROVE OwnerInv'
<1>1. /\ now \in Nat /\ now' = now + 1
      /\ UNCHANGED <<removed, removedAt, ownerSeen, ownerChecks, startedAt, failedAt, acceptedAt>>
      /\ \A p \in Processes : \A c \in ownerChecks[p] : now < c.start + OWNER_CHECK_TIMEOUT
  BY DEF Tick, ChecksInv, process, world, sessionHistory
<1>2. OwnerType'
  BY <1>1 DEF OwnerInv, OwnerType, SeenType
<1>3. NothingAhead'
  BY <1>1 DEF OwnerInv, OwnerType, NothingAhead
<1>4. SeenRecent'
  <2> SUFFICES ASSUME NEW p \in Processes, NEW i \in DOMAIN ownerSeen[p], ownerSeen[p][i].owner
               PROVE  Recent(ownerSeen[p][i].session, ownerSeen[p][i].next)'
    BY <1>1 DEF SeenRecent, EntryRecent, Recent
  <2>1. Recent(ownerSeen[p][i].session, ownerSeen[p][i].next)
    BY DEF OwnerInv, SeenRecent, EntryRecent
  <2>2. ownerSeen[p][i].next \in Nat
    BY SeenEntry DEF OwnerInv, OwnerType
  <2> QED
    BY <1>1, <2>1, <2>2, OwnerTimes DEF Recent
<1>5. \A p \in Processes : \A c \in ownerChecks'[p] : CheckTimely(c)'
  <2> SUFFICES ASSUME NEW p \in Processes, NEW c \in ownerChecks[p]
               PROVE  CheckTimely(c)'
    BY <1>1
  <2>1. c.start \in Nat
    BY DEF ChecksInv, OwnerChecks
  <2> QED
    BY <1>1, <2>1, OwnerTimes DEF OwnerInv, CheckTimely
<1>6. RemovedStops'
  BY <1>1 DEF OwnerInv, RemovedStops, AcceptedWhenRemoved, Stale
<1> QED
  BY <1>2, <1>3, <1>4, <1>5, <1>6 DEF OwnerInv

\* The removal of a passkey is the last moment at which it was an owner.
LEMMA OwnerRemoved == ASSUME OwnerInv, ChecksInv, NEW a \in Players, remove_owner(a) PROVE OwnerInv'
<1>1. /\ now \in Nat /\ a \notin removed /\ removed' = removed \union {a}
      /\ removedAt' = [removedAt EXCEPT ![a] = now]
      /\ UNCHANGED <<now, ownerSeen, ownerChecks, startedAt, failedAt, acceptedAt>>
  BY DEF remove_owner, ChecksInv, process, sessionHistory
<1>2. removedAt \in [Players -> Nat] /\ removedAt'[a] = now /\ \A b \in Players \ {a} : removedAt'[b] = removedAt[b]
  BY <1>1 DEF OwnerInv, OwnerType
<1>3. OwnerType'
  BY <1>1 DEF OwnerInv, OwnerType, SeenType
<1>4. NothingAhead'
  BY <1>1, <1>2 DEF OwnerInv, OwnerType, NothingAhead
<1>5. SeenRecent'
  <2> SUFFICES ASSUME NEW p \in Processes, NEW i \in DOMAIN ownerSeen[p], ownerSeen[p][i].owner
               PROVE  Recent(ownerSeen[p][i].session, ownerSeen[p][i].next)'
    BY <1>1 DEF SeenRecent, EntryRecent, Recent
  <2>1. Recent(ownerSeen[p][i].session, ownerSeen[p][i].next)
    BY DEF OwnerInv, SeenRecent, EntryRecent
  <2>2. Player(ownerSeen[p][i].session) \in Players
    BY SeenEntry, SignInPlayer DEF OwnerInv, OwnerType
  <2> QED
    BY <1>1, <1>2, <2>1, <2>2 DEF Recent
<1>6. \A p \in Processes : \A c \in ownerChecks'[p] : CheckTimely(c)'
  <2> SUFFICES ASSUME NEW p \in Processes, NEW c \in ownerChecks[p]
               PROVE  CheckTimely(c)'
    BY <1>1
  <2>1. Player(c.session) \in Players
    BY SignInPlayer DEF ChecksInv, OwnerChecks
  <2> QED
    BY <1>1, <1>2, <2>1 DEF OwnerInv, CheckTimely
<1>7. RemovedStops'
  <2> SUFFICES ASSUME NEW r \in Requests, acceptedAt[r] >= 0, Player(r) \in removed'
               PROVE  \E t \in {removedAt'[Player(r)], startedAt[Session(r)], failedAt[Session(r)]} : acceptedAt[r] <= Stale(t)
    BY <1>1 DEF RemovedStops, AcceptedWhenRemoved, Stale
  <2>1. CASE Player(r) = a
    <3>1. acceptedAt[r] <= now /\ acceptedAt[r] \in Int
      BY DEF OwnerInv, OwnerType, NothingAhead
    <3>2. now <= Stale(now) /\ Stale(now) \in Nat
      BY <1>1, OwnerTimes
    <3> QED
      BY <1>1, <1>2, <2>1, <3>1, <3>2
  <2>2. CASE Player(r) # a
    <3>1. Player(r) \in removed /\ removedAt'[Player(r)] = removedAt[Player(r)]
      BY <1>1, <1>2, <2>2
    <3> QED
      BY <3>1 DEF OwnerInv, RemovedStops, AcceptedWhenRemoved
  <2> QED BY <2>1, <2>2
<1> QED
  BY <1>3, <1>4, <1>5, <1>6, <1>7 DEF OwnerInv

\* Whom the requests W are accepted for.
LEMMA Admitted ==
  ASSUME OwnerInv, NEW W \in SUBSET Requests, NEW p, NEW player, admit(W, p, player), now \in Nat
  PROVE  /\ acceptedAt' \in [Requests -> Int]
         /\ \A r \in Requests : acceptedAt'[r] = IF r \in W THEN now ELSE acceptedAt[r]
<1>1. acceptedAt' = [r \in Requests |-> IF r \in W THEN now ELSE acceptedAt[r]]
  BY DEF admit
<1> QED
  BY <1>1 DEF OwnerInv, OwnerType

\* A session started: its sign-in checked the owner, and its start stands for that.
LEMMA OwnerStarts == ASSUME OwnerInv, ChecksInv, NonceInv, NEW r \in Requests, start_session(r) PROVE OwnerInv'
<1>1. /\ now \in Nat /\ remember(Process(r), r, TRUE, now + OwnerCheck)
      /\ startedAt' = [startedAt EXCEPT ![r] = now]
      /\ UNCHANGED <<now, removed, removedAt, ownerChecks, failedAt, acceptedAt>>
  BY DEF start_session, ChecksInv, world
<1>2. r \in SignIns
  BY DEF start_session, NonceInv, SigningIn
<1>3. now + OwnerCheck \in Nat /\ Process(r) \in Processes
  BY <1>1, OwnerTimes
<1>4. PICK e \in OwnerEntry : e = [session |-> r, owner |-> TRUE, next |-> now + OwnerCheck]
  BY <1>2, <1>3 DEF OwnerEntry
<1>11. ownerSeen' = [ownerSeen EXCEPT ![Process(r)] = Append(Kept(Process(r), e.session), e)]
  BY <1>1, <1>4 DEF remember, Kept
<1>12. /\ SeenType'
       /\ \A q \in Processes : \A i \in DOMAIN ownerSeen'[q] :
           (\E j \in DOMAIN ownerSeen[q] : ownerSeen'[q][i] = ownerSeen[q][j]) \/ ownerSeen'[q][i] = e
  BY <1>3, <1>11, Remembered DEF OwnerInv, OwnerType
<1>5. startedAt' \in [SignIns -> Nat] /\ \A s \in SignIns : startedAt[s] <= startedAt'[s] /\ startedAt'[s] <= now
  BY <1>1, <1>2 DEF OwnerInv, OwnerType, NothingAhead
<1>6. failedAt' \in [SignIns -> Nat] /\ \A s \in SignIns : failedAt[s] <= failedAt'[s] /\ failedAt'[s] <= now
  BY <1>1 DEF OwnerInv, OwnerType, NothingAhead
<1>7. Recent(e.session, e.next)'
  <2>1. startedAt'[r] = now /\ e.session = r /\ e.next = now + OwnerCheck
    BY <1>1, <1>2, <1>4 DEF OwnerInv, OwnerType
  <2> QED
    BY <1>1, <1>3, <2>1 DEF Recent
<1>8. acceptedAt' \in [Requests -> Int] /\ \A q \in Requests : acceptedAt'[q] = acceptedAt[q]
  BY <1>1 DEF OwnerInv, OwnerType
<1>9. \A q \in Processes : \A i \in DOMAIN ownerSeen'[q] :
        \/ \E j \in DOMAIN ownerSeen[q] : ownerSeen'[q][i] = ownerSeen[q][j]
        \/ EntryRecent(ownerSeen[q][i])'
  BY <1>7, <1>12 DEF EntryRecent, Recent
<1> QED
  BY <1>1, <1>12, <1>5, <1>6, <1>8, <1>9, OwnerKept

\* A request is answered from memory, or a check begins for it.
LEMMA OwnerReads ==
  ASSUME OwnerInv, ChecksInv, StageInv, NEW r \in Requests, ask_store(r) \/ ask_store_unanswered(r)
  PROVE  OwnerInv'
<1>1. /\ now \in Nat /\ UNCHANGED <<now, removed, removedAt, ownerSeen, startedAt, failedAt>> /\ stage[r] = "asking"
      /\ still_owner(r) \/ UNCHANGED <<ownerChecks, acceptedAt>>
  BY DEF ask_store, ask_store_unanswered, ChecksInv, world
<1>2. Kind(r) # "signIn" /\ Session(r) \in SignIns /\ Player(Session(r)) = Player(r) /\ Process(r) \in Processes
  BY <1>1, SessionOf DEF StageInv, Reading
<1>3. SeenType' /\ startedAt' \in [SignIns -> Nat] /\ failedAt' \in [SignIns -> Nat]
      /\ \A s \in SignIns : startedAt[s] <= startedAt'[s] /\ startedAt'[s] <= now /\ failedAt[s] <= failedAt'[s] /\ failedAt'[s] <= now
  BY <1>1 DEF OwnerInv, OwnerType, NothingAhead, SeenType
<1>4. \A p \in Processes : \A i \in DOMAIN ownerSeen'[p] : \E j \in DOMAIN ownerSeen[p] : ownerSeen'[p][i] = ownerSeen[p][j]
  BY <1>1
<1>5. CASE admit({r}, Process(r), Player(r)) /\ TRUE \in Known(Process(r), Session(r)) /\ UNCHANGED ownerChecks
  <2>1. PICK i \in DOMAIN ownerSeen[Process(r)] :
          LET e == ownerSeen[Process(r)][i] IN e.session = Session(r) /\ e.owner = TRUE /\ (~e.owner \/ now < e.next)
    BY <1>5 DEF Known
  <2>2. ownerSeen[Process(r)][i].next \in Nat
    BY <1>2, SeenEntry DEF OwnerInv, OwnerType
  <2>3. Recent(Session(r), ownerSeen[Process(r)][i].next)
    BY <1>2, <2>1 DEF OwnerInv, SeenRecent, EntryRecent
  <2>4. ASSUME Player(r) \in removed
        PROVE  \E t \in {removedAt[Player(r)], startedAt[Session(r)], failedAt[Session(r)]} : now <= Stale(t)
    <3>1. PICK t \in {removedAt[Player(r)], startedAt[Session(r)], failedAt[Session(r)]} :
            ownerSeen[Process(r)][i].next <= t + OwnerCheck
      BY <1>2, <2>3, <2>4 DEF Recent
    <3>2. t \in Nat
      BY <1>2 DEF OwnerInv, OwnerType
    <3>3. t + OwnerCheck <= Stale(t) /\ Stale(t) \in Nat /\ OwnerCheck \in Nat
      BY <3>2, OwnerTimes
    <3>4. now < ownerSeen[Process(r)][i].next
      BY <2>1
    <3>5. now <= Stale(t)
      BY <1>1, <2>2, <3>1, <3>2, <3>3, <3>4
    <3> QED
      BY <3>5
  <2>5. /\ acceptedAt' \in [Requests -> Int]
        /\ \A q \in Requests : acceptedAt'[q] = IF q \in {r} THEN now ELSE acceptedAt[q]
    BY <1>1, <1>5, Admitted
  <2>6. \A p \in Processes : \A c \in ownerChecks'[p] : c \in ownerChecks[p] \/ CheckTimely(c)
    BY <1>5
  <2> QED
    BY <1>1, <1>2, <1>3, <1>4, <2>4, <2>5, <2>6, OwnerKept
<1>6. CASE UNCHANGED acceptedAt /\ (\A p \in Processes : \A c \in ownerChecks'[p] : c \in ownerChecks[p] \/ CheckTimely(c))
  <2>1. acceptedAt' \in [Requests -> Int] /\ \A q \in Requests : acceptedAt'[q] = acceptedAt[q]
    BY <1>6 DEF OwnerInv, OwnerType
  <2> QED
    BY <1>1, <1>3, <1>4, <1>6, <2>1, OwnerKept
<1>7. CheckTimely([session |-> Session(r), start |-> now, answer |-> "none"])
  BY <1>1, OwnerTimes DEF CheckTimely
<1>8. CASE still_owner(r)
  <2>1. CASE UNCHANGED <<ownerChecks, acceptedAt>>
    BY <1>6, <2>1
  <2>2. CASE /\ UNCHANGED acceptedAt
             /\ ownerChecks' = [ownerChecks EXCEPT ![Process(r)] =
                                @ \union {[session |-> Session(r), start |-> now, answer |-> "none"]}]
    <3>1. \A p \in Processes : \A c \in ownerChecks'[p] : c \in ownerChecks[p] \/ CheckTimely(c)
      BY <1>2, <1>7, <2>2 DEF ChecksInv
    <3> QED
      BY <1>6, <2>2, <3>1
  <2>3. \/ admit({r}, Process(r), Player(r)) /\ TRUE \in Known(Process(r), Session(r)) /\ UNCHANGED ownerChecks
        \/ UNCHANGED <<ownerChecks, acceptedAt>>
        \/ /\ UNCHANGED acceptedAt
           /\ ownerChecks' = [ownerChecks EXCEPT ![Process(r)] =
                              @ \union {[session |-> Session(r), start |-> now, answer |-> "none"]}]
    BY <1>8, Zenon DEF still_owner
  <2> QED
    BY <1>5, <2>1, <2>2, <2>3
<1>9. CASE UNCHANGED <<ownerChecks, acceptedAt>>
  BY <1>6, <1>9
<1> QED
  BY <1>1, <1>8, <1>9

\* The chain's answer arrives, or does not.
LEMMA OwnerAnswers ==
  ASSUME OwnerInv, ChecksInv, StageInv, NEW p \in Processes, NEW c \in ownerChecks[p], stillOwner(p, c)
  PROVE  OwnerInv'
<1> DEFINE W == Waiting(p, c.session)
           s == c.session
<1>1. /\ now \in Nat /\ UNCHANGED <<now, removed, removedAt, startedAt>>
      /\ c.session \in SignIns /\ c.start \in Nat /\ c \in OwnerChecks
  <2>1. now \in Nat /\ c \in OwnerChecks
    BY DEF ChecksInv
  <2>2. c.session \in SignIns /\ c.start \in Nat
    BY <2>1 DEF OwnerChecks
  <2>3. CASE read_owner(p, c)
    BY <2>1, <2>2, <2>3 DEF read_owner, world, sessionHistory
  <2>4. CASE check_owner(p, c)
    <3>1. UNCHANGED <<now, world, startedAt>>
      BY <2>4 DEF check_owner, remember
    <3> QED
      BY <2>1, <2>2, <3>1 DEF world
  <2>5. CASE check_owner_unanswered(p, c)
    <3>1. UNCHANGED <<now, world, startedAt>>
      BY <2>5 DEF check_owner_unanswered, remember
    <3> QED
      BY <2>1, <2>2, <3>1 DEF world
  <2> QED
    BY <2>3, <2>4, <2>5 DEF stillOwner
<1>2. CheckTimely(c) /\ \A q \in Processes : \A d \in ownerChecks[q] : CheckTimely(d)
  BY DEF OwnerInv
<1>3. \A r \in W : Kind(r) # "signIn" /\ Session(r) = s /\ Player(r) = Player(s)
  BY SessionOf DEF Waiting, StageInv, Reading
<1>4. W \in SUBSET Requests /\ Player(s) \in Players
  BY <1>1, SignInPlayer DEF Waiting
<1>5. startedAt' \in [SignIns -> Nat] /\ \A x \in SignIns : startedAt[x] <= startedAt'[x] /\ startedAt'[x] <= now
  BY <1>1 DEF OwnerInv, OwnerType, NothingAhead
<1>6. CASE read_owner(p, c)
  <2>1. UNCHANGED <<ownerSeen, failedAt, acceptedAt>>
        /\ \A q \in Processes : \A d \in ownerChecks'[q] : d \in ownerChecks[q] \/
             d = [c EXCEPT !.answer = IF Player(c.session) \in removed THEN "removed" ELSE "owner"]
    BY <1>6 DEF read_owner, sessionHistory, ChecksInv
  <2>2. CheckTimely([c EXCEPT !.answer = IF Player(c.session) \in removed THEN "removed" ELSE "owner"])
    BY <1>1, <1>2 DEF CheckTimely, OwnerChecks
  <2>3. SeenType' /\ failedAt' \in [SignIns -> Nat] /\ acceptedAt' \in [Requests -> Int]
        /\ \A x \in SignIns : failedAt[x] <= failedAt'[x] /\ failedAt'[x] <= now
    BY <1>1, <2>1 DEF OwnerInv, OwnerType, NothingAhead, SeenType
  <2>4. \A q \in Processes : \A d \in ownerChecks'[q] : d \in ownerChecks[q] \/ CheckTimely(d)
    BY <2>1, <2>2
  <2> QED
    BY <1>1, <1>5, <2>1, <2>3, <2>4, OwnerKept
<1>7. CASE check_owner(p, c)
  <2>1. /\ UNCHANGED failedAt /\ ownerChecks' = [ownerChecks EXCEPT ![p] = @ \ {c}]
        /\ (c.answer = "owner" /\ admit(W, p, Player(s))) \/ UNCHANGED acceptedAt
    BY <1>7 DEF check_owner, remember
  <2>2. PICK e \in OwnerEntry : e = [session |-> s, owner |-> c.answer = "owner", next |-> c.start + OwnerCheck]
    <3>1. c.start + OwnerCheck \in Nat /\ (c.answer = "owner") \in BOOLEAN
      BY <1>1, OwnerTimes
    <3> QED
      BY <1>1, <3>1 DEF OwnerEntry
  <2>11. e.session = s /\ e.next = c.start + OwnerCheck /\ (e.owner => c.answer = "owner")
    BY <2>2
  <2>12. ownerSeen' = [ownerSeen EXCEPT ![p] = Append(Kept(p, e.session), e)]
    BY <1>7, <2>2, <2>11 DEF check_owner, remember, Kept
  <2>3. /\ SeenType'
        /\ \A q \in Processes : \A i \in DOMAIN ownerSeen'[q] :
             (\E j \in DOMAIN ownerSeen[q] : ownerSeen'[q][i] = ownerSeen[q][j]) \/ ownerSeen'[q][i] = e
    BY <2>12, Remembered DEF OwnerInv, OwnerType
  <2>4. failedAt' \in [SignIns -> Nat] /\ \A x \in SignIns : failedAt[x] <= failedAt'[x] /\ failedAt'[x] <= now
    BY <2>1 DEF OwnerInv, OwnerType, NothingAhead
  <2>5. e.owner => Recent(e.session, e.next)'
    <3>1. c.answer = "owner" /\ Player(s) \in removed => c.start <= removedAt[Player(s)] /\ removedAt[Player(s)] \in Nat
      BY <1>2, <1>4 DEF CheckTimely, OwnerInv, OwnerType
    <3>2. c.start <= now
      BY <1>2 DEF CheckTimely
    <3> QED
      BY <1>1, <2>11, <3>1, <3>2, OwnerTimes DEF Recent
  <2>6. c.answer = "owner" /\ Player(s) \in removed => now <= Stale(removedAt[Player(s)])
    <3> SUFFICES ASSUME c.answer = "owner", Player(s) \in removed PROVE now <= Stale(removedAt[Player(s)])
      OBVIOUS
    <3>1. c.start <= removedAt[Player(s)] /\ removedAt[Player(s)] \in Nat /\ now <= c.start + OWNER_CHECK_TIMEOUT
      BY <1>2, <1>4 DEF CheckTimely, OwnerInv, OwnerType
    <3>2. removedAt[Player(s)] + OWNER_CHECK_TIMEOUT <= Stale(removedAt[Player(s)]) /\ Stale(removedAt[Player(s)]) \in Nat
          /\ OWNER_CHECK_TIMEOUT \in Nat
      BY <3>1, OwnerTimes
    <3> QED
      BY <1>1, <3>1, <3>2
  <2>7. acceptedAt' \in [Requests -> Int]
        /\ \A r \in Requests : \/ acceptedAt'[r] = acceptedAt[r]
                               \/ r \in W /\ acceptedAt'[r] = now /\ c.answer = "owner"
    <3>1. CASE UNCHANGED acceptedAt
      BY <3>1 DEF OwnerInv, OwnerType
    <3>2. CASE c.answer = "owner" /\ admit(W, p, Player(s))
      BY <1>1, <1>4, <3>2, Admitted
    <3> QED BY <2>1, <3>1, <3>2
  <2>8. \A r \in Requests :
          \/ acceptedAt'[r] = acceptedAt[r]
          \/ /\ acceptedAt'[r] = now /\ Kind(r) # "signIn"
             /\ Player(r) \in removed =>
                  \E t \in {removedAt[Player(r)], startedAt'[Session(r)], failedAt'[Session(r)]} : now <= Stale(t)
    BY <1>3, <2>6, <2>7
  <2>9. \A q \in Processes : \A d \in ownerChecks'[q] : d \in ownerChecks[q] \/ CheckTimely(d)
    BY <2>1 DEF ChecksInv
  <2>10. \A q \in Processes : \A i \in DOMAIN ownerSeen'[q] :
           \/ \E j \in DOMAIN ownerSeen[q] : ownerSeen'[q][i] = ownerSeen[q][j]
           \/ EntryRecent(ownerSeen[q][i])'
    BY <2>3, <2>5 DEF EntryRecent, Recent
  <2> QED
    BY <1>1, <1>5, <2>3, <2>4, <2>7, <2>8, <2>9, <2>10, OwnerKept
<1>8. CASE check_owner_unanswered(p, c)
  <2> DEFINE wait == IF OWNER_RETRY < OwnerCheck THEN OWNER_RETRY ELSE OwnerCheck
  <2>1. failedAt' = [failedAt EXCEPT ![s] = now]
        /\ ownerChecks' = [ownerChecks EXCEPT ![p] = @ \ {c}] /\ admit(W, p, Player(s))
    BY <1>8 DEF check_owner_unanswered, remember
  <2>2. c.start + wait \in Nat /\ wait \in Nat /\ wait <= OwnerCheck
    BY <1>1, OwnerTimes
  <2>11. PICK e \in OwnerEntry : e = [session |-> s, owner |-> TRUE, next |-> c.start + wait]
    BY <1>1, <2>2 DEF OwnerEntry
  <2>12. ownerSeen' = [ownerSeen EXCEPT ![p] = Append(Kept(p, e.session), e)]
    BY <1>8, <2>11 DEF check_owner_unanswered, remember, Kept
  <2>3. /\ SeenType'
        /\ \A q \in Processes : \A i \in DOMAIN ownerSeen'[q] :
             (\E j \in DOMAIN ownerSeen[q] : ownerSeen'[q][i] = ownerSeen[q][j]) \/ ownerSeen'[q][i] = e
    BY <2>12, Remembered DEF OwnerInv, OwnerType
  <2>4. failedAt' \in [SignIns -> Nat] /\ failedAt'[s] = now
        /\ \A x \in SignIns : failedAt[x] <= failedAt'[x] /\ failedAt'[x] <= now
    BY <1>1, <2>1 DEF OwnerInv, OwnerType, NothingAhead
  <2>5. Recent(e.session, e.next)'
    <3>1. c.start <= now
      BY <1>2 DEF CheckTimely
    <3>2. c.start + wait <= now + OwnerCheck
      BY <1>1, <2>2, <3>1, OwnerTimes
    <3> QED
      BY <1>1, <2>4, <2>11, <3>2 DEF Recent
  <2>6. acceptedAt' \in [Requests -> Int]
        /\ \A r \in Requests : acceptedAt'[r] = acceptedAt[r] \/ (r \in W /\ acceptedAt'[r] = now)
    BY <1>1, <1>4, <2>1, Admitted
  <2>7. now <= Stale(failedAt'[s])
    <3>1. now + OwnerCheck <= Stale(now) /\ Stale(now) \in Nat /\ OwnerCheck \in Nat
      BY <1>1, OwnerTimes
    <3> QED
      BY <1>1, <2>4, <3>1
  <2>8. \A r \in Requests :
          \/ acceptedAt'[r] = acceptedAt[r]
          \/ /\ acceptedAt'[r] = now /\ Kind(r) # "signIn"
             /\ Player(r) \in removed =>
                  \E t \in {removedAt[Player(r)], startedAt'[Session(r)], failedAt'[Session(r)]} : now <= Stale(t)
    BY <1>3, <2>6, <2>7
  <2>9. \A q \in Processes : \A d \in ownerChecks'[q] : d \in ownerChecks[q] \/ CheckTimely(d)
    BY <2>1 DEF ChecksInv
  <2>10. \A q \in Processes : \A i \in DOMAIN ownerSeen'[q] :
           \/ \E j \in DOMAIN ownerSeen[q] : ownerSeen'[q][i] = ownerSeen[q][j]
           \/ EntryRecent(ownerSeen[q][i])'
    BY <2>3, <2>5 DEF EntryRecent, Recent
  <2> QED
    BY <1>1, <1>5, <2>3, <2>4, <2>6, <2>8, <2>9, <2>10, OwnerKept
<1> QED
  BY <1>6, <1>7, <1>8 DEF stillOwner

LEMMA OwnerRestarts == ASSUME OwnerInv, ChecksInv, NEW p \in Processes, restart(p) PROVE OwnerInv'
<1>1. /\ now \in Nat /\ UNCHANGED <<now, removed, removedAt, startedAt, failedAt, acceptedAt>>
      /\ ownerSeen' = [ownerSeen EXCEPT ![p] = <<>>] /\ ownerChecks' = [ownerChecks EXCEPT ![p] = {}]
  BY DEF restart, world, sessionHistory, ChecksInv
<1>2. \A q \in Processes : ownerSeen'[q] = (IF q = p THEN <<>> ELSE ownerSeen[q]) /\ ownerChecks'[q] \subseteq ownerChecks[q]
  BY <1>1 DEF ChecksInv, OwnerInv, OwnerType, SeenType
<1>3. SeenType'
  <2>1. <<>> \in Seq(OwnerEntry) /\ Len(<<>>) = 0 /\ OneEach(<<>>) /\ MAX_OWNER_ENTRIES \in Nat
    BY TimesAssumption DEF OneEach
  <2>2. ownerSeen' \in [Processes -> Seq(OwnerEntry)]
    BY <1>1, <2>1 DEF OwnerInv, OwnerType, SeenType
  <2> QED
    BY <1>2, <2>1, <2>2 DEF OwnerInv, OwnerType, SeenType
<1>4. /\ startedAt' \in [SignIns -> Nat] /\ failedAt' \in [SignIns -> Nat] /\ acceptedAt' \in [Requests -> Int]
      /\ \A s \in SignIns : startedAt[s] <= startedAt'[s] /\ startedAt'[s] <= now /\ failedAt[s] <= failedAt'[s] /\ failedAt'[s] <= now
  BY <1>1 DEF OwnerInv, OwnerType, NothingAhead
<1>5. \A q \in Processes : \A i \in DOMAIN ownerSeen'[q] : \E j \in DOMAIN ownerSeen[q] : ownerSeen'[q][i] = ownerSeen[q][j]
  BY <1>2
<1>6. \A r \in Requests : acceptedAt'[r] = acceptedAt[r]
  BY <1>1
<1>7. \A q \in Processes : \A d \in ownerChecks'[q] : d \in ownerChecks[q] \/ CheckTimely(d)
  BY <1>2
<1> QED
  BY <1>1, <1>3, <1>4, <1>5, <1>6, <1>7, OwnerKept

LEMMA OwnerStep == ASSUME OwnerInv, ChecksInv, StageInv, NonceInv, [Next]_vars PROVE OwnerInv'
<1>1. now \in Nat
  BY DEF ChecksInv
<1>2. ASSUME UNCHANGED <<now, removed, removedAt, ownerSeen, ownerChecks, startedAt, failedAt, acceptedAt>> PROVE OwnerInv'
  BY <1>1, <1>2, OwnerElsewhere
<1>3. CASE UNCHANGED vars
  BY <1>2, <1>3 DEF vars, process, world, sessionHistory
<1>4. CASE Tick
  BY <1>4, OwnerTick
<1>5. CASE \E a \in Players : remove_owner(a)
  BY <1>5, OwnerRemoved
<1>6. CASE (\E h \in Payments : pay(h)) \/ (\E n \in Nonces : issue_nonce(n))
  BY <1>2, <1>6 DEF pay, issue_nonce, process, world, sessionHistory
<1>7. ASSUME NEW r \in Requests, arrive(r) \/ sign_out_route(r) \/ decode(r)
      PROVE  OwnerInv'
  BY <1>2, <1>7 DEF arrive, sign_out_route, sign_out, record_sign_out, record_sign_out_unanswered, decode,
                    process, world, sessionHistory
<1>8. ASSUME NEW r \in Requests, sign_in(r) PROVE OwnerInv'
  <2>1. CASE start_session(r)
    BY <2>1, OwnerStarts
  <2>2. CASE ~start_session(r)
    BY <1>2, <1>8, <2>2 DEF sign_in, check_nonce, claim_nonce, claim_nonce_unanswered, verify_sign_in, refuse_session,
                            process, world, sessionHistory
  <2> QED BY <2>1, <2>2
<1>9. ASSUME NEW r \in Requests, accept_payment(r) PROVE OwnerInv'
  BY <1>2, <1>9 DEF accept_payment, verify_payment, claim_payment, claim_payment_unanswered, fulfil, fulfil_fails,
                    release, release_unanswered, process, world, sessionHistory
<1>10. ASSUME NEW p \in Processes, (\E c \in ownerChecks[p] : stillOwner(p, c)) \/ restart(p) PROVE OwnerInv'
  BY <1>10, OwnerAnswers, OwnerRestarts
<1>11. ASSUME NEW r \in Requests, read_session(r) PROVE OwnerInv'
  BY <1>7, <1>11, OwnerReads DEF read_session
<1> QED
  BY <1>3, <1>4, <1>5, <1>6, <1>7, <1>8, <1>9, <1>10, <1>11 DEF Next

LEMMA OwnerAlways == Spec => []OwnerInv
<1>1. PayInv => StageInv
  BY DEF PayInv
<1>2. StageInv /\ ChecksInv /\ NonceInv /\ OwnerInv /\ [Next]_vars => OwnerInv'
  BY OwnerStep
<1> QED
  BY <1>1, <1>2, OwnerInit, PayAlways, NonceAlways, PTL DEF Spec

\* A passkey that was removed is signed in for ownerCheckSeconds at most, from
\* its removal, from its sign-in, or from the last check the chain did not
\* answer, whatever each process remembers (server.ts, stillOwner).
THEOREM RemovedAlwaysStops == Spec => []RemovedStops
<1>1. OwnerInv => RemovedStops
  BY DEF OwnerInv
<1> QED
  BY <1>1, OwnerAlways, PTL

(***************************************************************************)
(* Types.  What no other invariant bounds: the clock, the failures, and    *)
(* that only payments found in a block are claimed.                        *)
(***************************************************************************)

RestInv ==
  /\ now \in 0..MaxTime /\ failures \in 0..MaxFailures /\ crashes \in 0..MaxCrashes
  /\ mined \subseteq Payments /\ doubtful \subseteq Payments
  /\ paymentClaimed \subseteq mined
  /\ \A r \in Requests : stage[r] = "claimingPayment" => Payment(r) \in mined

LEMMA Bounds == MaxTime \in Nat /\ MaxFailures \in Nat /\ MaxCrashes \in Nat
  BY BoundsAssumption

LEMMA RestInit == Init => RestInv
  BY Bounds DEF Init, RestInv

\* A step that brings no payment to its claim, and claims none.
LEMMA RestKept ==
  ASSUME RestInv, UNCHANGED <<now, mined, crashes>>,
         UNCHANGED failures \/ fails,
         doubtful' \subseteq Payments, paymentClaimed' \subseteq paymentClaimed,
         \A r \in Requests : stage'[r] = "claimingPayment" => stage[r] = "claimingPayment"
  PROVE  RestInv'
<1>1. failures' \in 0..MaxFailures
  BY Bounds DEF RestInv, fails
<1> QED
  BY <1>1 DEF RestInv

\* A request goes to another stage than a payment's claim.
LEMMA RestGoes ==
  ASSUME RestInv, StageInv, NEW r \in Requests, NEW t, goto(r, t), t # "claimingPayment",
         UNCHANGED <<now, mined, crashes>>, UNCHANGED failures \/ fails,
         doubtful' \subseteq Payments, paymentClaimed' \subseteq paymentClaimed
  PROVE  RestInv'
<1>1. \A q \in Requests : stage'[q] = "claimingPayment" => stage[q] = "claimingPayment"
  BY DEF goto, StageInv
<1> QED
  BY <1>1, RestKept

\* Requests are admitted, or refused together.
LEMMA RestAdmits ==
  ASSUME RestInv, StageInv, NEW W \in SUBSET Requests,
         (\E p, a : admit(W, p, a)) \/ stage' = [r \in Requests |-> IF r \in W THEN "refused" ELSE stage[r]],
         UNCHANGED <<now, mined, crashes, doubtful, paymentClaimed>>, UNCHANGED failures \/ fails
  PROVE  RestInv'
<1>1. \A q \in Requests : stage'[q] = "claimingPayment" => stage[q] = "claimingPayment"
  BY DEF admit
<1>2. doubtful \subseteq Payments
  BY DEF RestInv
<1> QED
  BY <1>1, <1>2, RestKept

LEMMA RestTimes ==
  ASSUME RestInv, Tick \/ (\E a \in Players : remove_owner(a)) \/ (\E h \in Payments : pay(h))
                  \/ (\E n \in Nonces : issue_nonce(n))
  PROVE  RestInv'
  BY Bounds DEF RestInv, Tick, remove_owner, pay, issue_nonce, store, world, bounds, paymentHistory

LEMMA RestRoutes ==
  ASSUME RestInv, StageInv, NEW r \in Requests, arrive(r) \/ sign_in(r) \/ sign_out_route(r) \/ decode(r)
  PROVE  RestInv'
<1>1. /\ UNCHANGED <<now, mined, crashes, doubtful, paymentClaimed>>
      /\ UNCHANGED failures \/ fails
  BY DEF arrive, sign_in, check_nonce, claim_nonce, claim_nonce_unanswered, verify_sign_in, start_session, refuse_session,
         sign_out_route, sign_out, record_sign_out, record_sign_out_unanswered, decode,
         store, world, bounds, paymentHistory
<1>2. \E t \in Stages \ {"claimingPayment"} : goto(r, t)
  <2>1. CASE arrive(r)
    BY <2>1 DEF arrive, Stages, Awaiting, Reading, SigningIn
  <2>2. CASE check_nonce(r) \/ claim_nonce(r) \/ claim_nonce_unanswered(r)
    BY <2>2 DEF check_nonce, claim_nonce, claim_nonce_unanswered, Stages, Awaiting, SigningIn, Outcomes
  <2>3. CASE verify_sign_in(r) \/ start_session(r) \/ refuse_session(r)
    BY <2>3 DEF verify_sign_in, start_session, remember, refuse_session, Stages, Awaiting, SigningIn, Outcomes
  <2>4. CASE sign_out_route(r) \/ decode(r)
    BY <2>4 DEF sign_out_route, sign_out, record_sign_out, record_sign_out_unanswered, decode,
                Stages, Awaiting, Reading, Outcomes
  <2> QED
    BY <2>1, <2>2, <2>3, <2>4 DEF sign_in
<1>3. doubtful \subseteq Payments
  BY DEF RestInv
<1> QED
  BY <1>1, <1>2, <1>3, RestGoes

LEMMA RestReads ==
  ASSUME RestInv, StageInv, NEW r \in Requests, ask_store(r) \/ ask_store_unanswered(r)
  PROVE  RestInv'
<1>1. /\ UNCHANGED <<now, mined, crashes, doubtful, paymentClaimed>>
      /\ UNCHANGED failures \/ fails
      /\ still_owner(r) \/ goto(r, "refused")
  BY DEF ask_store, ask_store_unanswered, store, world, bounds, paymentHistory
<1>2. goto(r, "refused") \/ goto(r, "checking") \/ admit({r}, Process(r), Player(r))
  BY <1>1, Zenon DEF still_owner
<1>3. doubtful \subseteq Payments
  BY DEF RestInv
<1>4. CASE admit({r}, Process(r), Player(r))
  BY <1>1, <1>4, RestAdmits
<1>5. CASE goto(r, "refused") \/ goto(r, "checking")
  BY <1>1, <1>3, <1>5, RestGoes
<1> QED
  BY <1>2, <1>4, <1>5

LEMMA RestAnswers ==
  ASSUME RestInv, StageInv, NEW p \in Processes, NEW c \in ownerChecks[p], stillOwner(p, c)
  PROVE  RestInv'
<1> DEFINE W == Waiting(p, c.session)
<1>1. W \in SUBSET Requests
  BY DEF Waiting
<1>2. CASE read_owner(p, c)
  <2>1. UNCHANGED <<now, stage, mined, failures, crashes, doubtful, paymentClaimed>>
    BY <1>2 DEF read_owner, store, world, bounds, paymentHistory
  <2> QED
    BY <2>1, RestKept DEF RestInv
<1>3. CASE check_owner(p, c)
  <2>1. /\ UNCHANGED <<now, mined, failures, crashes, doubtful, paymentClaimed>>
        /\ admit(W, p, Player(c.session)) \/ stage' = [r \in Requests |-> IF r \in W THEN "refused" ELSE stage[r]]
    BY <1>3 DEF check_owner, remember, store, world, bounds, paymentHistory
  <2> QED
    BY <1>1, <2>1, RestAdmits
<1>4. CASE check_owner_unanswered(p, c)
  <2>1. /\ UNCHANGED <<now, mined, crashes, doubtful, paymentClaimed>> /\ fails
        /\ admit(W, p, Player(c.session))
    BY <1>4 DEF check_owner_unanswered, remember, store, world, paymentHistory
  <2> QED
    BY <1>1, <2>1, RestAdmits
<1> QED
  BY <1>2, <1>3, <1>4 DEF stillOwner

LEMMA RestPays ==
  ASSUME RestInv, PayInv, NEW r \in Requests, accept_payment(r)
  PROVE  RestInv'
<1>1. StageInv /\ (stage[r] \in Paying => Payment(r) \in Payments)
  BY DEF PayInv, StageInv
<1>2. CASE verify_payment(r)
  <2>1. /\ UNCHANGED <<now, mined, failures, crashes, doubtful, paymentClaimed>>
        /\ (Payment(r) \in mined /\ goto(r, "claimingPayment")) \/ goto(r, "refused")
    BY <1>2 DEF verify_payment, store, world, bounds, paymentHistory
  <2> QED
    BY <1>1, <2>1 DEF RestInv, StageInv, goto
<1>3. CASE claim_payment(r) \/ claim_payment_unanswered(r)
  <2>1. /\ UNCHANGED <<now, mined, crashes>> /\ (UNCHANGED failures \/ fails) /\ stage[r] = "claimingPayment"
        /\ goto(r, "refused") \/ goto(r, "fulfilling")
        /\ doubtful' \subseteq doubtful \union {Payment(r)} /\ paymentClaimed' \subseteq paymentClaimed \union {Payment(r)}
    BY <1>3 DEF claim_payment, claim_payment_unanswered, world, bounds, paymentHistory
  <2>2. Payment(r) \in mined /\ Payment(r) \in Payments
    BY <1>1, <2>1 DEF RestInv, Paying
  <2>3. \A q \in Requests : stage'[q] = "claimingPayment" => stage[q] = "claimingPayment"
    BY <1>1, <2>1 DEF goto, StageInv
  <2>4. failures' \in 0..MaxFailures
    BY <2>1, Bounds DEF RestInv, fails
  <2> QED
    BY <2>1, <2>2, <2>3, <2>4 DEF RestInv
<1>4. CASE fulfil(r) \/ fulfil_fails(r) \/ release(r) \/ release_unanswered(r)
  <2>1. /\ UNCHANGED <<now, mined, crashes>> /\ (UNCHANGED failures \/ fails) /\ stage[r] \in Paying
        /\ goto(r, "refused") \/ goto(r, "answered") \/ goto(r, "releasing")
        /\ doubtful' \subseteq doubtful \union {Payment(r)} /\ paymentClaimed' \subseteq paymentClaimed
    BY <1>4 DEF fulfil, fulfil_fails, release, release_unanswered, store, world, bounds, paymentHistory, Paying
  <2>2. doubtful' \subseteq Payments
    BY <1>1, <2>1 DEF RestInv
  <2> QED
    BY <1>1, <2>1, <2>2, RestGoes
<1> QED
  BY <1>2, <1>3, <1>4 DEF accept_payment

LEMMA RestRestarts ==
  ASSUME RestInv, PayInv, NEW p \in Processes, restart(p)
  PROVE  RestInv'
<1>1. /\ UNCHANGED <<now, mined, failures, paymentClaimed>> /\ crashes < MaxCrashes /\ crashes' = crashes + 1
      /\ \A r \in Requests : stage'[r] = "dropped" \/ stage'[r] = stage[r]
      /\ \A h \in doubtful' : h \in doubtful \/ \E r \in Requests : stage[r] \in Paying /\ h = Payment(r)
  BY DEF restart, store, world, Paying
<1>2. \A r \in Requests : stage[r] \in Paying => Payment(r) \in Payments
  BY DEF PayInv, StageInv
<1>3. crashes' \in 0..MaxCrashes
  BY <1>1, Bounds DEF RestInv
<1> QED
  BY <1>1, <1>2, <1>3 DEF RestInv

LEMMA RestStep == ASSUME RestInv, PayInv, [Next]_vars PROVE RestInv'
<1>1. StageInv
  BY DEF PayInv
<1>2. CASE UNCHANGED vars
  BY <1>2 DEF vars, store, world, bounds, paymentHistory, RestInv
<1>3. CASE Tick \/ (\E a \in Players : remove_owner(a)) \/ (\E h \in Payments : pay(h)) \/ (\E n \in Nonces : issue_nonce(n))
  BY <1>3, RestTimes
<1>4. ASSUME NEW r \in Requests, arrive(r) \/ sign_in(r) \/ sign_out_route(r) \/ read_session(r) \/ accept_payment(r)
      PROVE  RestInv'
  BY <1>1, <1>4, RestRoutes, RestReads, RestPays DEF read_session
<1>5. ASSUME NEW p \in Processes, (\E c \in ownerChecks[p] : stillOwner(p, c)) \/ restart(p)
      PROVE  RestInv'
  BY <1>1, <1>5, RestAnswers, RestRestarts
<1> QED
  BY <1>2, <1>3, <1>4, <1>5 DEF Next

LEMMA RestAlways == Spec => []RestInv
<1>1. PayInv /\ RestInv /\ [Next]_vars => RestInv'
  BY RestStep
<1> QED
  BY <1>1, RestInit, PayAlways, PTL DEF Spec

\* Every variable keeps its type; a process remembers one answer per session,
\* of no more sessions than MAX_OWNER_ENTRIES, and no payment is claimed that
\* was not found in a block.
THEOREM TypesKept == Spec => []TypeOK
<1>1. ASSUME PayInv, ChecksInv, NonceInv, SignOutInv, OwnerInv, RestInv
      PROVE  TypeOK
  <2>1. RequestType
    BY <1>1 DEF RequestType, PayInv, StageInv, Stages, NonceInv, NonceType, RestInv
  <2>2. StoreType
    BY <1>1 DEF StoreType, NonceInv, NonceType, SignOutInv, RestInv
  <2>3. ProcessType
    BY <1>1 DEF ProcessType, OwnerInv, OwnerType, SeenType, OneEach, ChecksInv, PayInv
  <2>4. HistoryType
    BY <1>1 DEF HistoryType, OwnerInv, OwnerType, RestInv, SignOutInv, PayInv, LedgerInv
  <2> QED
    BY <2>1, <2>2, <2>3, <2>4 DEF TypeOK
<1> QED
  BY <1>1, PayAlways, NonceAlways, SignOutAlways, OwnerAlways, RestAlways, PTL

(***************************************************************************)
(* Nonces and payments are good for one use: SiteKitRefinement maps every  *)
(* step to one of AcceptOnce.                                              *)
(***************************************************************************)

\* Where a request can go but by a sign-in's or a payment's own steps.
LEMMA RestMoves ==
  ASSUME StageInv, NEW q \in Requests,
         \/ Tick
         \/ \E a \in Players : remove_owner(a)
         \/ \E h \in Payments : pay(h)
         \/ \E n \in Nonces : issue_nonce(n)
         \/ \E r \in Requests : sign_out_route(r) \/ read_session(r)
         \/ \E p \in Processes : (\E c \in ownerChecks[p] : stillOwner(p, c)) \/ restart(p)
  PROVE  stage'[q] \in {stage[q], "recording", "answered", "asking", "refused", "checking", "verifyingPayment", "dropped"}
<1> DEFINE ends == {stage[q], "recording", "answered", "asking", "refused", "checking", "verifyingPayment", "dropped"}
<1> HIDE DEF ends
<1>0. /\ stage[q] \in ends /\ stage \in [Requests -> Stages]
      /\ {"recording", "answered", "asking", "refused", "checking", "verifyingPayment", "dropped"} \subseteq ends
  BY DEF ends, StageInv
<1>1. ASSUME UNCHANGED stage PROVE stage'[q] \in ends
  BY <1>0, <1>1
<1>2. ASSUME NEW r \in Requests, NEW s \in ends, goto(r, s) PROVE stage'[q] \in ends
  BY <1>0, <1>2 DEF goto
<1>3. ASSUME NEW W \in SUBSET Requests, NEW p, NEW player, admit(W, p, player) PROVE stage'[q] \in ends
  BY <1>0, <1>3 DEF admit
<1>4. ASSUME NEW r \in Requests, sign_out_route(r) PROVE stage'[q] \in ends
  <2>1. \E s \in {"recording", "answered"} : goto(r, s)
    BY <1>4 DEF sign_out_route, sign_out, record_sign_out, record_sign_out_unanswered
  <2> QED
    BY <1>0, <1>2, <2>1
<1>5. ASSUME NEW r \in Requests, read_session(r) PROVE stage'[q] \in ends
  <2>1. (\E s \in {"asking", "refused", "checking"} : goto(r, s)) \/ admit({r}, Process(r), Player(r))
    BY <1>5 DEF read_session, decode, ask_store, ask_store_unanswered, still_owner
  <2> QED
    BY <1>0, <1>2, <1>3, <2>1
<1>6. ASSUME NEW p \in Processes, NEW c \in ownerChecks[p], stillOwner(p, c) PROVE stage'[q] \in ends
  <2>1. \/ UNCHANGED stage \/ admit(Waiting(p, c.session), p, Player(c.session))
        \/ \A r \in Requests : stage'[r] \in {stage[r], "refused"}
    BY <1>6 DEF stillOwner, read_owner, check_owner, check_owner_unanswered
  <2>2. Waiting(p, c.session) \in SUBSET Requests
    BY DEF Waiting
  <2> QED
    BY <1>0, <1>1, <1>3, <2>1, <2>2
<1>7. ASSUME NEW p \in Processes, restart(p) PROVE stage'[q] \in ends
  <2>1. stage'[q] \in {stage[q], "dropped"}
    BY <1>7 DEF restart
  <2> QED
    BY <1>0, <2>1
<1>8. ASSUME Tick \/ (\E a \in Players : remove_owner(a)) \/ (\E h \in Payments : pay(h)) \/ \E n \in Nonces : issue_nonce(n)
      PROVE  stage'[q] \in ends
  BY <1>1, <1>8 DEF Tick, remove_owner, pay, issue_nonce
<1>9. ASSUME NEW r \in Requests, sign_out_route(r) \/ read_session(r) PROVE stage'[q] \in ends
  <2>1. CASE sign_out_route(r)
    BY <1>4, <2>1
  <2>2. CASE read_session(r)
    BY <1>5, <2>2
  <2> QED
    BY <1>9, <2>1, <2>2
<1>10. ASSUME NEW p \in Processes, (\E c \in ownerChecks[p] : stillOwner(p, c)) \/ restart(p) PROVE stage'[q] \in ends
  <2>1. CASE \E c \in ownerChecks[p] : stillOwner(p, c)
    BY <1>6, <2>1
  <2>2. CASE restart(p)
    BY <1>7, <2>2
  <2> QED
    BY <1>10, <2>1, <2>2
<1>11. stage'[q] \in ends
  BY <1>8, <1>9, <1>10
<1> QED
  BY <1>11 DEF ends

\* A claim of a nonce outlives every check of it that passed, whatever became
\* of the sign-in it was for.
ClaimInv ==
  \A n \in Nonces : nonceUntil[n] > 0 => issued[n] > 0 /\ issued[n] + StoreDelay <= nonceUntil[n]

LEMMA ClaimInit == Init => ClaimInv
  BY DEF Init, ClaimInv

LEMMA ClaimsSettled ==
  ASSUME NonceInv, ClaimInv, NEW r \in Requests, stage[r] = "claiming", nonceUntil[Job[r].nonce] > 0
  PROVE  now < nonceUntil[Job[r].nonce]
<1>1. Job[r].nonce \in Nonces /\ since[r] < issued[Job[r].nonce] /\ now <= since[r] + StoreDelay
  BY NonceOf DEF NonceInv, SigningIn
<1> QED
  BY <1>1, Times DEF ClaimInv, NonceInv, NonceType

\* Who changes a claim or the life of a nonce, and who starts a session.
LEMMA ClaimMoves ==
  ASSUME [Next]_vars
  PROVE  /\ \/ UNCHANGED <<issued, nonceUntil>>
            \/ \E n \in Nonces : issue_nonce(n)
            \/ \E r \in Requests : claim_nonce(r) \/ claim_nonce_unanswered(r)
         /\ UNCHANGED expiry \/ \E r \in Requests : start_session(r)
<1>1. CASE UNCHANGED vars \/ Tick \/ (\E a \in Players : remove_owner(a)) \/ (\E h \in Payments : pay(h))
           \/ \E n \in Nonces : issue_nonce(n)
  BY <1>1 DEF vars, store, Tick, remove_owner, pay, issue_nonce
<1>2. CASE \E r \in Requests : arrive(r) \/ sign_in(r)
  BY <1>2 DEF arrive, sign_in, check_nonce, claim_nonce, claim_nonce_unanswered, verify_sign_in, start_session,
              refuse_session, store
<1>3. CASE \E r \in Requests : sign_out_route(r) \/ read_session(r)
  BY <1>3 DEF sign_out_route, sign_out, record_sign_out, record_sign_out_unanswered, read_session, decode, ask_store,
              ask_store_unanswered, store
<1>4. CASE \E r \in Requests : accept_payment(r)
  BY <1>4 DEF accept_payment, verify_payment, claim_payment, claim_payment_unanswered, fulfil, fulfil_fails, release,
              release_unanswered, store
<1>5. CASE \E p \in Processes : (\E c \in ownerChecks[p] : stillOwner(p, c)) \/ restart(p)
  BY <1>5 DEF stillOwner, read_owner, check_owner, check_owner_unanswered, restart, store
<1> QED
  BY <1>1, <1>2, <1>3, <1>4, <1>5 DEF Next

LEMMA ClaimStep ==
  ASSUME NonceInv, ClaimInv, [Next]_vars
  PROVE  ClaimInv' /\ \A n \in Nonces : nonceUntil[n] > 0 => nonceUntil'[n] > 0
<1>1. CASE UNCHANGED <<issued, nonceUntil>>
  BY <1>1 DEF ClaimInv
<1>2. ASSUME NEW n \in Nonces, issue_nonce(n) PROVE UNCHANGED nonceUntil /\ ClaimInv'
  <2>1. issued[n] = 0 /\ issued' = [issued EXCEPT ![n] = now + NONCE_TTL] /\ UNCHANGED nonceUntil
    BY <1>2 DEF issue_nonce, store
  <2>2. ~(nonceUntil[n] > 0)
    BY <2>1 DEF ClaimInv
  <2>3. \A m \in Nonces : m # n => issued'[m] = issued[m]
    BY <2>1 DEF NonceInv, NonceType
  <2> QED
    BY <2>1, <2>2, <2>3 DEF ClaimInv
<1>3. ASSUME NEW r \in Requests, claim_nonce(r) \/ claim_nonce_unanswered(r)
      PROVE  ClaimInv' /\ \A n \in Nonces : nonceUntil[n] > 0 => nonceUntil'[n] > 0
  <2> DEFINE n == Job[r].nonce
  <2>1. /\ stage[r] = "claiming" /\ UNCHANGED issued
        /\ UNCHANGED nonceUntil \/ nonceUntil' = [nonceUntil EXCEPT ![n] = now + NONCE_CLAIM]
    BY <1>3 DEF claim_nonce, claim_nonce_unanswered
  <2>2. n \in Nonces /\ issued[n] > 0 /\ issued[n] <= now + NONCE_TTL
    BY <2>1, NonceOf DEF NonceInv, SigningIn
  <2>3. issued[n] + StoreDelay <= now + NONCE_CLAIM /\ now + NONCE_CLAIM > 0
    BY <2>2, Times DEF NonceInv, NonceType
  <2>4. UNCHANGED nonceUntil \/ \A m \in Nonces : nonceUntil'[m] = IF m = n THEN now + NONCE_CLAIM ELSE nonceUntil[m]
    BY <2>1 DEF NonceInv, NonceType
  <2> QED
    BY <2>1, <2>2, <2>3, <2>4 DEF ClaimInv
<1> QED
  BY <1>1, <1>2, <1>3, ClaimMoves

LEMMA ClaimAlways == Spec => []ClaimInv
<1>1. NonceInv /\ ClaimInv /\ [Next]_vars => ClaimInv'
  BY ClaimStep
<1> QED
  BY <1>1, ClaimInit, NonceAlways, PTL DEF Spec

\* A session that started stays started, and is started by its sign-in.
LEMMA StartedStays ==
  ASSUME NonceInv, [Next]_vars, NEW s \in SignIns
  PROVE  /\ expiry[s] > 0 => expiry'[s] > 0
         /\ expiry'[s] > 0 /\ ~(expiry[s] > 0) => stage[s] = "onSignIn"
<1>1. CASE UNCHANGED expiry
  BY <1>1
<1>2. ASSUME NEW r \in Requests, start_session(r)
      PROVE  stage[r] = "onSignIn" /\ expiry' = [expiry EXCEPT ![r] = now + SESSION_TTL]
  BY <1>2 DEF start_session
<1>3. now + SESSION_TTL \in Nat /\ now + SESSION_TTL > 0 /\ expiry \in [SignIns -> Nat]
  BY Times DEF NonceInv, NonceType
<1> QED
  BY <1>1, <1>2, <1>3, ClaimMoves

\* Who newly verifies a sign-in found its nonce never claimed.
LEMMA NewlyVerifying ==
  ASSUME NonceInv, ClaimInv, StageInv, [Next]_vars, NEW s \in SignIns,
         stage'[s] \in {"verifying", "onSignIn"}, stage[s] \notin {"verifying", "onSignIn"}
  PROVE  ~(nonceUntil[Job[s].nonce] > 0)
<1>0. s \in Requests /\ stage \in [Requests -> Stages] /\ stage'[s] # stage[s]
  BY NonceOf DEF StageInv
<1>1. ASSUME NEW r \in Requests, NEW t, goto(r, t) PROVE s = r /\ t = stage'[s]
  BY <1>0, <1>1 DEF goto
<1>2. ASSUME NEW r \in Requests, arrive(r) PROVE FALSE
  BY <1>1, <1>2 DEF arrive
<1>3. ASSUME NEW r \in Requests, accept_payment(r) PROVE FALSE
  <2>1. \E t \in {"claimingPayment", "fulfilling", "releasing", "answered", "refused"} : goto(r, t)
    BY <1>3 DEF accept_payment, verify_payment, claim_payment, claim_payment_unanswered, fulfil, fulfil_fails,
         release, release_unanswered
  <2> QED
    BY <1>1, <2>1
<1>4. ASSUME NEW r \in Requests, sign_in(r) PROVE claim_nonce(r)
  <2>1. CASE check_nonce(r)
    BY <1>1, <2>1 DEF check_nonce
  <2>2. CASE verify_sign_in(r)
    BY <1>1, <2>2 DEF verify_sign_in
  <2>3. CASE claim_nonce_unanswered(r)
    BY <1>1, <2>3 DEF claim_nonce_unanswered
  <2>4. CASE start_session(r)
    BY <1>1, <2>4 DEF start_session
  <2>5. CASE refuse_session(r)
    BY <1>1, <2>5 DEF refuse_session
  <2> QED
    BY <1>4, <2>1, <2>2, <2>3, <2>4, <2>5 DEF sign_in
<1>5. ASSUME NEW r \in Requests, claim_nonce(r) PROVE ~(nonceUntil[Job[s].nonce] > 0)
  <2>1. r = s /\ stage[r] = "claiming"
    BY <1>1, <1>5 DEF claim_nonce
  <2>2. ~(now < nonceUntil[Job[r].nonce])
    BY <1>1, <1>5 DEF claim_nonce
  <2> QED
    BY <2>1, <2>2, ClaimsSettled
<1>6. CASE UNCHANGED vars
  BY <1>0, <1>6 DEF vars
<1> QED
  BY <1>0, <1>2, <1>3, <1>4, <1>5, <1>6, RestMoves DEF Next

LEMMA OneVerifying ==
  ASSUME NonceInv, NEW n \in Nonces, NEW s \in Verifying(n)
  PROVE  Verifying(n) = {s} /\ nonceUntil[n] > 0
<1>1. \A q \in Verifying(n) : Claimed(q) /\ q \in SignIns /\ Job[q].nonce = n
  BY DEF Verifying, Claimed, NonceInv, Entering, SigningIn
<1>2. \A q \in Verifying(n) : q = s
  BY <1>1 DEF NonceInv
<1>3. nonceUntil[n] > 0
  BY <1>1, Times DEF NonceInv, NonceType
<1> QED
  BY <1>2, <1>3

LEMMA NonceTyped ==
  \A n \in Nonces : Verifying(n) # {} => (CHOOSE s \in Verifying(n) : TRUE) \in SignIns
  BY DEF Verifying

LEMMA NonceOnce ==
  ASSUME NonceInv, ClaimInv, StageInv, NonceInv', [Next]_vars, NEW n \in Nonces
  PROVE  NonceState(n) = NonceState(n)' \/ Nonce!Step(n, NonceState(n), NonceState(n)')
<1> USE DEF Nonce!Step
<1>0. nonceUntil[n] \in Nat /\ nonceUntil'[n] \in Nat /\ (nonceUntil[n] > 0 => nonceUntil'[n] > 0)
  BY ClaimStep DEF NonceInv, NonceType
<1>1. CASE Started(n)
  <2>1. Started(n)'
    BY <1>1, StartedStays DEF Started
  <2> QED
    BY <1>1, <2>1 DEF NonceState
<1>2. CASE ~Started(n) /\ Started(n)'
  <2>1. PICK s \in SignIns : Job[s].nonce = n /\ expiry'[s] > 0 /\ ~(expiry[s] > 0)
    BY <1>2 DEF Started
  <2>2. s \in Verifying(n)
    BY <2>1, StartedStays DEF Verifying
  <2>3. \E u \in SignIns : NonceState(n) = Nonce!HeldBy(u)
    BY <1>2, <2>2, NonceTyped DEF NonceState, Nonce!HeldBy
  <2>4. NonceState(n)' = Nonce!Used
    BY <1>2 DEF NonceState, Nonce!Used
  <2> QED
    BY <2>3, <2>4 DEF Nonce!Use
<1>3. CASE ~Started(n) /\ ~Started(n)' /\ Verifying(n) = {}
  <2>1. CASE Verifying(n)' = {}
    BY <1>0, <1>3, <2>1 DEF NonceState, Nonce!Lose, Nonce!Lost, Nonce!Used
  <2>2. CASE Verifying(n)' # {}
    <3>1. PICK s \in SignIns : Job[s].nonce = n /\ stage'[s] \in {"verifying", "onSignIn"} /\ s \notin Verifying(n)
      BY <1>3, <2>2 DEF Verifying
    <3>2. ~(nonceUntil[n] > 0)
      BY <3>1, NewlyVerifying DEF Verifying
    <3>3. NonceState(n) = Nonce!Open
      BY <1>3, <3>2 DEF NonceState, Nonce!Open
    <3>4. (CHOOSE q \in Verifying(n)' : TRUE) \in SignIns
      BY <2>2 DEF Verifying
    <3>5. \E u \in SignIns : NonceState(n)' = Nonce!HeldBy(u)
      BY <1>3, <2>2, <3>4 DEF NonceState, Nonce!HeldBy
    <3> QED
      BY <3>3, <3>5 DEF Nonce!Take
  <2> QED BY <2>1, <2>2
<1>4. CASE ~Started(n) /\ ~Started(n)' /\ Verifying(n) # {}
  <2>1. PICK s : s \in Verifying(n)
    BY <1>4
  <2>2. Verifying(n) = {s} /\ nonceUntil[n] > 0
    BY <2>1, OneVerifying
  <2>3. CASE Verifying(n)' = {}
    <3>1. NonceState(n)' = Nonce!Lost
      BY <1>0, <1>4, <2>2, <2>3 DEF NonceState, Nonce!Lost
    <3>2. NonceState(n) # Nonce!Used
      BY <1>4 DEF NonceState, Nonce!Used
    <3> QED
      BY <3>1, <3>2 DEF Nonce!Lose
  <2>4. CASE Verifying(n)' # {}
    <3>1. \A q \in Verifying(n)' : q \in Verifying(n)
      BY <2>2, NewlyVerifying DEF Verifying
    <3>2. Verifying(n)' = Verifying(n)
      BY <2>2, <2>4, <3>1
    <3> QED
      BY <1>4, <2>4, <3>2 DEF NonceState
  <2> QED BY <2>3, <2>4
<1> QED
  BY <1>1, <1>2, <1>3, <1>4

\* A nonce is taken by one sign-in, for ever, and a session starts only out of
\* that sign-in's hands, for any lifetimes with NONCE_TTL + StoreDelay <=
\* NONCE_CLAIM (server.ts, readNonce and the claim of sign-in).
THEOREM NoncesAreForOneUse == Spec => NoncesImplementOnce
<1>1. Init => Nonce!Init
  <2> SUFFICES ASSUME Init, NEW n \in Nonces
               PROVE  NonceState(n) = IF n \in {Job[s].nonce : s \in SignedInAtStart} THEN [at |-> "used"] ELSE [at |-> "open"]
    BY DEF Nonce!Init, Nonce!Open, Nonce!Used
  <2>1. Started(n) <=> n \in {Job[s].nonce : s \in SignedInAtStart}
    BY Times, StartAssumption DEF Init, Started
  <2>2. Verifying(n) = {} /\ ~(nonceUntil[n] > 0)
    BY NonceOf DEF Init, Verifying
  <2> QED
    BY <2>1, <2>2 DEF NonceState
<1>2. NonceInv /\ ClaimInv /\ StageInv /\ NonceInv' /\ [Next]_vars
        => [Nonce!Next]_([n \in Nonces |-> NonceState(n)])
  <2> SUFFICES ASSUME NonceInv, ClaimInv, StageInv, NonceInv', [Next]_vars PROVE Nonce!Next
    OBVIOUS
  <2>1. \A n \in Nonces : NonceState(n)' \in Nonce!States
    <3> SUFFICES ASSUME NEW n \in Nonces PROVE NonceState(n)' \in Nonce!States
      OBVIOUS
    <3>1. Verifying(n)' # {} => (CHOOSE s \in Verifying(n)' : TRUE) \in SignIns
      BY DEF Verifying
    <3> QED
      BY <3>1 DEF NonceState, Nonce!States, Nonce!Open, Nonce!Used, Nonce!Lost, Nonce!HeldBy
  <2> QED
    BY <2>1, NonceOnce DEF Nonce!Next
<1>3. PayInv => StageInv
  BY DEF PayInv
<1> QED
  BY <1>1, <1>2, <1>3, NonceAlways, ClaimAlways, PayAlways, PTL DEF Spec, NoncesImplementOnce, Nonce!Spec

\* What a step does to a payment's claim and its fulfilment.
LEMMA PaymentMoves ==
  ASSUME PayInv, [Next]_vars, NEW h \in Payments
  PROVE  /\ fulfilled[h] > 0 => fulfilled'[h] > 0
         /\ fulfilled'[h] > 0 /\ ~(fulfilled[h] > 0) => Fulfilling(h) # {}
         /\ h \in paymentClaimed \ paymentClaimed' => Fulfilling(h) # {}
         /\ h \in paymentClaimed => Fulfilling(h)' \subseteq Fulfilling(h)
<1>0. stage \in [Requests -> Stages] /\ fulfilled \in [Payments -> Nat]
  BY DEF PayInv, StageInv, LedgerInv
<1>1. ASSUME UNCHANGED <<fulfilled, paymentClaimed>>,
             \A q \in Requests : stage'[q] = stage[q] \/ stage'[q] \notin {"fulfilling", "releasing"}
      PROVE  /\ fulfilled'[h] = fulfilled[h] /\ h \notin paymentClaimed \ paymentClaimed'
             /\ Fulfilling(h)' \subseteq Fulfilling(h)
  BY <1>1 DEF Fulfilling
<1>2. ASSUME NEW r \in Requests, NEW t, goto(r, t)
      PROVE  \A q \in Requests : stage'[q] = IF q = r THEN t ELSE stage[q]
  BY <1>0, <1>2 DEF goto
<1>3. CASE UNCHANGED vars
  BY <1>1, <1>3 DEF vars, store, paymentHistory
<1>4. CASE \/ Tick
           \/ \E a \in Players : remove_owner(a)
           \/ \E k \in Payments : pay(k)
           \/ \E n \in Nonces : issue_nonce(n)
           \/ \E r \in Requests : sign_out_route(r) \/ read_session(r)
           \/ \E p \in Processes : (\E c \in ownerChecks[p] : stillOwner(p, c)) \/ restart(p)
  <2>1. UNCHANGED <<fulfilled, paymentClaimed>>
    BY <1>4 DEF Tick, remove_owner, pay, issue_nonce, sign_out_route, sign_out, record_sign_out,
                record_sign_out_unanswered, read_session, decode, ask_store, ask_store_unanswered, stillOwner,
                read_owner, check_owner, check_owner_unanswered, restart, store, paymentHistory
  <2>2. \A q \in Requests :
          stage'[q] \in {stage[q], "recording", "answered", "asking", "refused", "checking", "verifyingPayment", "dropped"}
    BY <1>4, RestMoves DEF PayInv
  <2> QED
    BY <1>1, <2>1, <2>2
<1>5. ASSUME NEW r \in Requests, arrive(r) \/ sign_in(r)
      PROVE  UNCHANGED <<fulfilled, paymentClaimed>>
  BY <1>5 DEF arrive, sign_in, check_nonce, claim_nonce, claim_nonce_unanswered, verify_sign_in, start_session,
              refuse_session, store, paymentHistory
<1>6. ASSUME NEW r \in Requests, arrive(r) \/ sign_in(r)
      PROVE  \E t : goto(r, t) /\ t \notin {"fulfilling", "releasing"}
  <2>1. CASE arrive(r)
    BY <2>1 DEF arrive
  <2>2. CASE check_nonce(r) \/ claim_nonce(r) \/ claim_nonce_unanswered(r)
    BY <2>2 DEF check_nonce, claim_nonce, claim_nonce_unanswered
  <2>3. CASE verify_sign_in(r)
    BY <2>3 DEF verify_sign_in
  <2>4. CASE start_session(r)
    BY <2>4 DEF start_session
  <2>5. CASE refuse_session(r)
    BY <2>5 DEF refuse_session
  <2> QED
    BY <1>6, <2>1, <2>2, <2>3, <2>4, <2>5 DEF sign_in
<1>7. CASE \E r \in Requests : arrive(r) \/ sign_in(r)
  BY <1>1, <1>2, <1>5, <1>6, <1>7
<1>8. ASSUME NEW r \in Requests, verify_payment(r) \/ claim_payment_unanswered(r)
      PROVE  /\ UNCHANGED fulfilled /\ paymentClaimed \subseteq paymentClaimed'
             /\ Fulfilling(h)' \subseteq Fulfilling(h)
  <2>1. UNCHANGED fulfilled /\ paymentClaimed \subseteq paymentClaimed'
    BY <1>8 DEF verify_payment, claim_payment_unanswered, store, paymentHistory
  <2>2. goto(r, "claimingPayment") \/ goto(r, "refused")
    BY <1>8 DEF verify_payment, claim_payment_unanswered
  <2> QED
    BY <1>2, <2>1, <2>2 DEF Fulfilling
<1>9. ASSUME NEW r \in Requests, claim_payment(r)
      PROVE  /\ UNCHANGED fulfilled /\ paymentClaimed \subseteq paymentClaimed'
             /\ h \in paymentClaimed => Fulfilling(h)' \subseteq Fulfilling(h)
  <2>1. UNCHANGED fulfilled /\ paymentClaimed \subseteq paymentClaimed'
    BY <1>9 DEF claim_payment, paymentHistory
  <2>2. goto(r, "refused") \/ (goto(r, "fulfilling") /\ Payment(r) \notin paymentClaimed)
    BY <1>9 DEF claim_payment
  <2> QED
    BY <1>2, <2>1, <2>2 DEF Fulfilling
<1>10. ASSUME NEW r \in Requests, fulfil(r)
       PROVE  /\ fulfilled[h] > 0 => fulfilled'[h] > 0
              /\ fulfilled'[h] > 0 /\ ~(fulfilled[h] > 0) => Fulfilling(h) # {}
              /\ UNCHANGED paymentClaimed /\ Fulfilling(h)' \subseteq Fulfilling(h)
  <2>1. /\ stage[r] = "fulfilling" /\ goto(r, "answered") /\ UNCHANGED paymentClaimed
        /\ fulfilled' = [fulfilled EXCEPT ![Payment(r)] = @ + 1]
    BY <1>10 DEF fulfil, store
  <2>2. h = Payment(r) => r \in Fulfilling(h)
    BY <2>1 DEF Fulfilling
  <2>3. Fulfilling(h)' \subseteq Fulfilling(h)
    BY <1>2, <2>1 DEF Fulfilling
  <2> QED
    BY <1>0, <2>1, <2>2, <2>3
<1>11. ASSUME NEW r \in Requests, fulfil_fails(r)
       PROVE  UNCHANGED <<fulfilled, paymentClaimed>> /\ Fulfilling(h)' \subseteq Fulfilling(h)
  <2>1. stage[r] = "fulfilling" /\ goto(r, "releasing") /\ UNCHANGED <<fulfilled, paymentClaimed>>
    BY <1>11 DEF fulfil_fails, store, paymentHistory
  <2> QED
    BY <1>2, <2>1 DEF Fulfilling
<1>12. ASSUME NEW r \in Requests, release(r) \/ release_unanswered(r)
       PROVE  /\ UNCHANGED fulfilled /\ Fulfilling(h)' \subseteq Fulfilling(h)
              /\ h \in paymentClaimed \ paymentClaimed' => Fulfilling(h) # {}
  <2>1. /\ stage[r] = "releasing" /\ goto(r, "refused") /\ UNCHANGED fulfilled
        /\ UNCHANGED paymentClaimed \/ paymentClaimed' = paymentClaimed \ {Payment(r)}
    BY <1>12 DEF release, release_unanswered, paymentHistory
  <2>2. h = Payment(r) => r \in Fulfilling(h)
    BY <2>1 DEF Fulfilling
  <2> QED
    BY <1>2, <2>1, <2>2 DEF Fulfilling
<1>13. CASE \E r \in Requests : accept_payment(r)
  BY <1>8, <1>9, <1>10, <1>11, <1>12, <1>13 DEF accept_payment
<1> QED
  BY <1>3, <1>4, <1>7, <1>13 DEF Next

LEMMA PaymentTyped ==
  \A h \in Payments : Fulfilling(h) # {} => (CHOOSE r \in Fulfilling(h) : TRUE) \in Requests
  BY DEF Fulfilling

LEMMA PaymentOnceStep ==
  ASSUME PayInv, PayInv', [Next]_vars, NEW h \in Payments
  PROVE  PaymentState(h) = PaymentState(h)' \/ Accepted!Step(h, PaymentState(h), PaymentState(h)')
<1> USE DEF Accepted!Step
<1> DEFINE paid == fulfilled[h] > 0
<1>1. CASE paid
  BY <1>1, PaymentMoves DEF PaymentState
<1>2. CASE ~paid /\ paid'
  <2>1. \E u \in Requests : PaymentState(h) = Accepted!HeldBy(u)
    BY <1>2, PaymentMoves, PaymentTyped DEF PaymentState, Accepted!HeldBy
  <2>2. PaymentState(h)' = Accepted!Used
    BY <1>2 DEF PaymentState, Accepted!Used
  <2> QED
    BY <2>1, <2>2 DEF Accepted!Use
<1>3. CASE ~paid /\ ~paid' /\ Fulfilling(h) = {}
  <2>1. CASE Fulfilling(h)' = {}
    <3>1. h \in paymentClaimed => h \in paymentClaimed'
      BY <1>3, PaymentMoves
    <3> QED
      BY <1>3, <2>1, <3>1 DEF PaymentState, Accepted!Lose, Accepted!Lost, Accepted!Used
  <2>2. CASE Fulfilling(h)' # {}
    <3>1. h \notin paymentClaimed
      BY <1>3, <2>2, PaymentMoves
    <3>2. PaymentState(h) = Accepted!Open
      BY <1>3, <3>1 DEF PaymentState, Accepted!Open
    <3>3. (CHOOSE r \in Fulfilling(h)' : TRUE) \in Requests
      BY <2>2 DEF Fulfilling
    <3>4. \E u \in Requests : PaymentState(h)' = Accepted!HeldBy(u)
      BY <1>3, <2>2, <3>3 DEF PaymentState, Accepted!HeldBy
    <3> QED
      BY <3>2, <3>4 DEF Accepted!Take
  <2> QED BY <2>1, <2>2
<1>4. CASE ~paid /\ ~paid' /\ Fulfilling(h) # {}
  <2>1. PICK r : r \in Fulfilling(h)
    BY <1>4
  <2>2. Fulfilling(h) = {r} /\ h \in paymentClaimed
    BY <2>1 DEF PayInv, LedgerInv
  <2>3. \E u \in Requests : PaymentState(h) = Accepted!HeldBy(u)
    BY <1>4, PaymentTyped DEF PaymentState, Accepted!HeldBy
  <2>4. CASE Fulfilling(h)' = {} /\ h \in paymentClaimed'
    <3>1. PaymentState(h)' = Accepted!Lost /\ PaymentState(h) # Accepted!Used
      BY <1>4, <2>4 DEF PaymentState, Accepted!Lost, Accepted!Used
    <3> QED
      BY <3>1 DEF Accepted!Lose
  <2>5. CASE Fulfilling(h)' = {} /\ h \notin paymentClaimed'
    <3>1. PaymentState(h)' = Accepted!Open
      BY <1>4, <2>5 DEF PaymentState, Accepted!Open
    <3> QED
      BY <2>3, <3>1 DEF Accepted!GiveBack
  <2>6. CASE Fulfilling(h)' # {}
    <3>1. Fulfilling(h)' = Fulfilling(h)
      BY <2>2, <2>6, PaymentMoves
    <3> QED
      BY <1>4, <2>6, <3>1 DEF PaymentState
  <2> QED BY <2>4, <2>5, <2>6
<1> QED
  BY <1>1, <1>2, <1>3, <1>4

\* A payment is taken by one request at a time and fulfilled once, by one that
\* took it, for any requests, processes and failures (server.ts, POST payment).
THEOREM PaymentsAreForOneUse == Spec => PaymentsImplementOnce
<1>1. Init => Accepted!Init
  <2> SUFFICES ASSUME Init, NEW h \in Payments PROVE PaymentState(h) = [at |-> "open"]
    BY DEF Accepted!Init, Accepted!Open
  <2>1. Fulfilling(h) = {} /\ ~(fulfilled[h] > 0) /\ h \notin paymentClaimed
    BY DEF Init, Fulfilling
  <2> QED
    BY <2>1 DEF PaymentState
<1>2. PayInv /\ PayInv' /\ [Next]_vars => [Accepted!Next]_([h \in Payments |-> PaymentState(h)])
  <2> SUFFICES ASSUME PayInv, PayInv', [Next]_vars PROVE Accepted!Next
    OBVIOUS
  <2>1. \A h \in Payments : PaymentState(h)' \in Accepted!States
    <3> SUFFICES ASSUME NEW h \in Payments PROVE PaymentState(h)' \in Accepted!States
      OBVIOUS
    <3>1. Fulfilling(h)' # {} => (CHOOSE r \in Fulfilling(h)' : TRUE) \in Requests
      BY DEF Fulfilling
    <3> QED
      BY <3>1 DEF PaymentState, Accepted!States, Accepted!Open, Accepted!Used, Accepted!Lost, Accepted!HeldBy
  <2> QED
    BY <2>1, PaymentOnceStep DEF Accepted!Next
<1> QED
  BY <1>1, <1>2, PayAlways, PTL DEF Spec, PaymentsImplementOnce, Accepted!Spec
=============================================================================
