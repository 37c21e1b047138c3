------------------------- MODULE SiteKitProperties -------------------------
(***************************************************************************)
(* What the integration kit promises to a site and its players.            *)
(***************************************************************************)
EXTENDS SiteKit

OwnerEntry == [session : SignIns, owner : BOOLEAN, next : Nat]
OwnerChecks == [session : SignIns, start : Nat, answer : {"none", "owner", "removed"}]

RequestType ==
  /\ now \in 0..MaxTime
  /\ stage \in [Requests -> {"new"} \union Awaiting \union Outcomes]
  /\ since \in [Requests -> Nat]
  /\ issued \in [Nonces -> Nat] /\ expiry \in [SignIns -> Nat]

StoreType ==
  /\ nonceUntil \in [Nonces -> Nat] /\ signoutUntil \in [SignIns -> Nat]
  /\ paymentClaimed \subseteq mined

ProcessType ==
  /\ ownerSeen \in [Processes -> Seq(OwnerEntry)]
  /\ \A p \in Processes : Len(ownerSeen[p]) <= MAX_OWNER_ENTRIES
  /\ \A p \in Processes : \A i, j \in DOMAIN ownerSeen[p] : ownerSeen[p][i].session = ownerSeen[p][j].session => i = j
  /\ ownerChecks \in [Processes -> SUBSET OwnerChecks]
  /\ paying \in [Processes -> SUBSET Players]

HistoryType ==
  /\ removed \subseteq Players /\ mined \subseteq Payments
  /\ failures \in 0..MaxFailures /\ crashes \in 0..MaxCrashes
  /\ removedAt \in [Players -> Nat] /\ startedAt \in [SignIns -> Nat] /\ failedAt \in [SignIns -> Nat]
  /\ acceptedAt \in [Requests -> Int]
  /\ late \subseteq Requests /\ unsure \subseteq Requests
  /\ fulfilled \in [Payments -> Nat] /\ doubtful \subseteq Payments

\* Every variable keeps its type; each process remembers at most one answer per
\* session, and only as many sessions as MAX_OWNER_ENTRIES.
TypeOK == RequestType /\ StoreType /\ ProcessType /\ HistoryType

\* A nonce starts one session, whatever copies of it are sent to which process
\* and however late: a replay that still passes the check of the nonce finds
\* the claim in the store (server.ts, NONCE_CLAIM_SECONDS).
SignInOnce ==
  \A r, s \in SignIns : Job[r].nonce = Job[s].nonce /\ expiry[r] > 0 /\ expiry[s] > 0 => r = s

\* Once a sign-out is recorded, no copy of the session's cookie that arrives is
\* taken for the player's on any process, unless the store does not answer
\* (server.ts, POST sign-out). The store forgets it at the session's end, so a
\* request may pass that was decoded just before and asks the store just after.
SignedOutStays ==
  \A r \in late : acceptedAt[r] >= 0 => r \in unsure \/ acceptedAt[r] >= expiry[Session(r)]

\* The latest a session may be taken for its player's without the chain having
\* been asked since t.
Stale(t) == t + (IF OwnerCheck < OWNER_CHECK_TIMEOUT THEN OWNER_CHECK_TIMEOUT ELSE OwnerCheck)
AcceptedWhenRemoved(r) == acceptedAt[r] >= 0 /\ Player(r) \in removed

\* A passkey that was removed is signed in for ownerCheckSeconds at most, from
\* its removal, from its last sign-in, or from the last check the chain did not
\* answer, on each process.
RemovedStops ==
  \A r \in Requests : AcceptedWhenRemoved(r) =>
    \E t \in {removedAt[Player(r)], startedAt[Session(r)], failedAt[Session(r)]} : acceptedAt[r] <= Stale(t)

\* A passkey that was removed stops being signed in within ownerCheckSeconds
\* (server.ts, ownerCheckSeconds), unless the chain does not answer.
RemovedWithinOwnerCheck ==
  \A r \in Requests : AcceptedWhenRemoved(r) =>
    \E t \in {removedAt[Player(r)], failedAt[Session(r)]} : acceptedAt[r] <= Stale(t)

\* A payment is fulfilled once, however many requests on how many processes
\* present it, and whatever fails in between.
PaymentOnce == \A h \in Payments : fulfilled[h] <= 1

\* A payment that is claimed was fulfilled, or a request is at it: what the
\* site could not fulfil stays the player's, unless the store or the process
\* failed between the claim and its release.
Fulfilling(h) == {r \in Requests : stage[r] \in {"fulfilling", "releasing"} /\ Payment(r) = h}
PaymentKept == \A h \in paymentClaimed : fulfilled[h] > 0 \/ Fulfilling(h) # {} \/ h \in doubtful

\* A process checks one payment per player at a time, and turns the next ones
\* away for no longer than that (server.ts, paying).
PayingOwned ==
  /\ \A p \in Processes : paying[p] = {Player(r) : r \in {q \in Requests : Process(q) = p /\ stage[q] \in Paying}}
  /\ \A r, s \in Requests :
       stage[r] \in Paying /\ stage[s] \in Paying /\ Process(r) = Process(s) /\ Player(r) = Player(s) => r = s
=============================================================================
