------------------------- MODULE RelayerProperties -------------------------
(***************************************************************************)
(* What the relayer promises, to the accounts it serves (SECURITY.md, "The *)
(* relayer") and to whoever pays for its gas.                              *)
(***************************************************************************)
EXTENDS Relayer

Stages == {"new"} \union Awaiting \union Outcomes

ProcessType ==
  /\ stage \in [Requests -> Stages]
  /\ defends \in [Requests -> BOOLEAN] /\ waived \in [Requests -> BOOLEAN]
  /\ inFlight \subseteq Accounts /\ granting \subseteq Accounts
  /\ funded \subseteq Accounts /\ faucetFile \subseteq Accounts
  /\ watching \subseteq Requests
  /\ queue \in Seq(Requests)

BudgetType ==
  /\ used \in [Budgets -> Nat] /\ \A b \in Budgets : used[b] <= Limit[b]
  /\ sentGas \in Nat

ChainType ==
  /\ chain \in [Accounts -> [deployed : BOOLEAN, nonce : Nat, frozen : BOOLEAN, pending : 0..MAX_PENDING, spent : 0..DailyCap]]
  /\ treasury \in 0..Treasury
  /\ mempool \in Seq(Requests)
  /\ fate \in [Requests -> {"none", "pending", "mined", "reverted"}]

HistoryType ==
  /\ outsiders \in Nat /\ lost \in Nat /\ crashes \in Nat /\ windows \in Nat
  /\ grants \in [Accounts -> Nat]
  /\ stale \subseteq Requests /\ overtaken \subseteq Requests /\ useless \subseteq Requests
  /\ doubtful \subseteq Accounts

\* Every variable keeps its type; no budget counts more than its limit, and the
\* treasury is never overdrawn.
TypeOK == ProcessType /\ BudgetType /\ ChainType /\ HistoryType

\* Request r has put its account in inFlight and will take it out.
HoldsAccount(r) == Kind(r) = "relay" /\ (stage[r] \in Reserved \/ r \in watching)
HoldsGrant(r) == Kind(r) = "faucet" /\ stage[r] \in Reserved

\* An account is busy, or its grant reserved, for exactly one request, which
\* will free it: no path through relay() and faucet() leaks a reservation or
\* frees another request's (relayer.ts, inFlight and granting).
ReservationsOwned ==
  /\ inFlight = {Account(r) : r \in {s \in Requests : HoldsAccount(s)}}
  /\ granting = {Account(r) : r \in {s \in Requests : HoldsGrant(s)}}
  /\ \A r, s \in Requests :
       /\ Account(r) = Account(s)
       /\ (HoldsAccount(r) /\ HoldsAccount(s)) \/ (HoldsGrant(r) /\ HoldsGrant(s))
       => r = s

\* Requests that wait for the send lock or have it.
Queued(r) == stage[r] \in {"queued", "sending", "sent"}

\* The send lock is held and waited for by exactly the requests that will free
\* it: none that failed, was answered or gone stays in its way, and none waits
\* outside the queue (rate-limit.ts, Mutex, and every path through submit()).
LockOwned ==
  /\ \A r \in Requests : Queued(r) <=> \E i \in 1..Len(queue) : queue[i] = r
  /\ \A i, j \in 1..Len(queue) : queue[i] = queue[j] => i = j

\* Nothing a request holds outlives it, and nothing is taken from it before.
NothingLeaked == ReservationsOwned /\ LockOwned

\* One relayed transaction per account is on its way (SECURITY.md, "sends one
\* transaction per account at a time"), unless the process lost sight of one:
\* it stopped, the node's answer was lost, or no receipt came in a minute.
OneAtATime ==
  \A r, s \in Requests :
    /\ Kind(r) = "relay" /\ Kind(s) = "relay" /\ Account(r) = Account(s)
    /\ fate[r] = "pending" /\ fate[s] = "pending"
    /\ Account(r) \notin doubtful
    => r = s

\* The relayer pays for a relayed call that reverts only if somebody else
\* changed the account after its gas was estimated: never because of its own
\* transactions, and never on a result older than the estimate.
WastedOnlyByOthers ==
  \A r \in Requests :
    Kind(r) = "relay" /\ fate[r] = "reverted" => r \in overtaken \/ Account(r) \in doubtful

\* A call relayed outside every budget did stop payments or cancel something,
\* unless somebody else changed the account since defends() read it.
FreeRidesDefend == \A r \in useless : r \in stale \/ Account(r) \in doubtful

\* What one process sends in a window of gasPerDay, defences aside, stays
\* within the limit and one transaction more: the send lock leaves at most one
\* between being counted and being sent as the window ends.
GasWithinBudget == sentGas <= Limit[gas] + 1

\* No limit of the relayer is passed, of its requests or of its gas.
BudgetsHold == TypeOK /\ GasWithinBudget

\* Demo USDG is granted once per account, even to concurrent requests.
GrantedOnce == \A a \in Accounts : grants[a] <= 1

\* ... and twice only where the process lost sight of a grant it had sent,
\* because it stopped before recording it or the node's answer was lost.
GrantedAgainOnlyIfLost == \A a \in Accounts : grants[a] > 1 => a \in doubtful

\* An account that was granted demo USDG, and so is refused it from now on, has
\* it, or its transaction is on its way, or that one reverted because another
\* grant took the last of the treasury after this one's gas was estimated
\* (relayer.ts: "Only grants that were sent are remembered").
FundedIsPaid ==
  \A a \in funded : \E r \in Requests :
    /\ Kind(r) = "faucet" /\ Account(r) = a
    /\ fate[r] \in {"pending", "mined"} \/ (fate[r] = "reverted" /\ r \in overtaken)

(***************************************************************************)
(* The strengthening of the invariants above that is inductive.            *)
(***************************************************************************)

\* A receipt is waited for only of a relayed call that was answered.
WatchingAnswered == \A r \in watching : Kind(r) = "relay" /\ stage[r] = "answered"

\* A relayed transaction on its way holds its account.
PendingHolds ==
  \A r \in Requests :
    Kind(r) = "relay" /\ fate[r] = "pending" => HoldsAccount(r) \/ Account(r) \in doubtful

\* A transaction on its way is one whose request has sent it.
PendingSent == \A r \in Requests : fate[r] = "pending" => stage[r] \in {"sent"} \union Outcomes

\* Who sends has the send lock.
SendersHoldLock == \A r \in Requests : stage[r] \in {"sending", "sent"} => r \in Holder

\* The transaction about to be sent was counted, in this window or, if it ended
\* since, in the last one.
Budgeted(r) == ~(Kind(r) = "relay" /\ defends[r])
GasCounted ==
  /\ sentGas <= used[gas] + 1
  /\ \A r \in Requests : stage[r] = "sending" /\ Budgeted(r) => sentGas <= used[gas]

Core == ReservationsOwned /\ WatchingAnswered /\ PendingHolds /\ PendingSent /\ SendersHoldLock /\ GasCounted

\* A grant of demo USDG has been sent for request r.
SentGrant(r) == Kind(r) = "faucet" /\ fate[r] # "none"

\* The mempool holds transactions on their way, each once, of requests that
\* have sent one.
MempoolPending ==
  /\ \A i \in 1..Len(mempool) : fate[mempool[i]] = "pending"
  /\ \A i, j \in 1..Len(mempool) : mempool[i] = mempool[j] => i = j
  /\ \A r \in Requests : fate[r] # "none" => stage[r] \in {"sent"} \union Outcomes

\* A grant sent is still held by its request or is remembered and recorded,
\* unless the process lost sight of it; nobody who remembers one reserves
\* another.
GrantRemembered ==
  /\ granting \intersect funded = {}
  /\ \A r \in Requests :
       SentGrant(r) => stage[r] = "sent" \/ Account(r) \in (funded \intersect faucetFile) \union doubtful

\* So one grant is sent for an account, and the grants made are of it.
OneGrantSent ==
  /\ \A r, s \in Requests :
       SentGrant(r) /\ SentGrant(s) /\ Account(r) = Account(s) => r = s \/ Account(r) \in doubtful
  /\ \A a \in Accounts \ doubtful :
       grants[a] > 0 => grants[a] = 1 /\ \E r \in Requests : SentGrant(r) /\ Account(r) = a /\ fate[r] = "mined"

Grants == MempoolPending /\ GrantRemembered /\ OneGrantSent

\* What was found to succeed, and what was found to defend, still does while
\* the request holds its account, unless others changed the account.
Deciding == Reserved \ {"sent"}
SoundWhenSent ==
  \A r \in Requests : Kind(r) = "relay" /\ Account(r) \notin doubtful =>
    /\ stage[r] = "sending" \/ fate[r] = "pending" => Valid(r) \/ r \in overtaken
    /\ defends[r] /\ (stage[r] \in Deciding \/ fate[r] = "pending") => Undoes(Account(r), Call(r)) \/ r \in stale

Sound == SoundWhenSent /\ WastedOnlyByOthers /\ FreeRidesDefend

\* Whoever counts as granted was sent a grant; a grant found to succeed still
\* does, unless another was paid since.
FundedSent ==
  /\ \A r \in Requests : stage[r] = "sent" => fate[r] # "none"
  /\ \A a \in funded \union faucetFile : \E r \in Requests : SentGrant(r) /\ Account(r) = a
GrantsFunded ==
  \A r \in Requests : Kind(r) = "faucet" =>
    /\ stage[r] = "sending" \/ fate[r] = "pending" => treasury > 0 \/ r \in overtaken
    /\ fate[r] = "reverted" => r \in overtaken

Funds == FundedSent /\ GrantsFunded

IInv == TypeOK /\ Core /\ Grants /\ Sound /\ LockOwned /\ Funds

-----------------------------------------------------------------------------
\* Every await of a handler ends: RPC calls have a timeout (relayer.ts,
\* createPublicClient), the send lock is freed by its holder, and so does the
\* wait for a receipt.  Nothing is assumed of blocks.
FairSpec == Spec /\ \A r \in Requests : WF_vars(serve(r)) /\ WF_vars(watch(r))

\* Every request accepted is answered, refused, or dropped by a restart: the
\* send lock never waits forever.
RequestsAnswered == \A r \in Requests : stage[r] \in Awaiting ~> stage[r] \in Outcomes

\* No account stays busy, whatever happens to its transaction.
AccountsFreed == \A a \in Accounts : a \in inFlight ~> a \notin inFlight

\* Nothing the relayer holds is held forever: no request, and no account.
NothingStuck == RequestsAnswered /\ AccountsFreed
=============================================================================
