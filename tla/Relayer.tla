------------------------------ MODULE Relayer ------------------------------
(***************************************************************************)
(* VeraKey's relayer (server/relayer.ts) with the limits its routes apply  *)
(* (server/index.ts): relayed calls, new accounts and faucet grants,       *)
(* served concurrently by one process.  A handler runs without             *)
(* interruption from one await to the next, so each action is a stretch of *)
(* a handler that ends in an await, on an answer of the RPC node or on the *)
(* send lock; what it read before may be stale after it.                   *)
(*                                                                         *)
(* The chain is reduced to what the relayer reads of it: VeraKeyAccount    *)
(* models the account itself.                                              *)
(***************************************************************************)
EXTENDS Integers, Sequences, FiniteSets

CONSTANTS
  Requests,        \* the requests that may arrive
  Accounts,
  Job,             \* Job[r]: [kind, account, call, nonce, visitor]
  Limit,           \* Limit[b]: what budget b allows in one of its windows
  DeployedAtStart, \* the accounts deployed at the start
  PendingAtStart,  \* changes that wait on each account at the start
  MAX_PENDING,     \* changes that may wait on an account
  DailyCap,        \* what an account spends in a day; a fee is 1
  Treasury,        \* grants the relayer can pay for at the start
  MaxOutside,      \* bound: calls that reach accounts without the relayer
  MaxLost,         \* bound: answers to a sent transaction, or writes of the
                   \* faucet file, that are lost
  MaxCrashes,      \* bound: restarts of the process
  MaxWindows       \* bound: windows of budgets that end

Kinds == {"relay", "create", "faucet"}
\* cancelRecovery and executeRecovery are relayed as cancelChange and
\* applyChange; scheduleChange differs from pay in its effect only.
Calls == {"pay", "scheduleChange", "freeze", "tighten", "cancelChange", "applyChange"}
BudgetNames == {"perIp", "perAccount", "perNullifier", "faucetPerIp", "accountsPerIp", "newAccountsPerDay",
                "unpaidSafetyActions", "faucetGrantsPerDay", "gasPerDay"}
Budgets == DOMAIN Limit

Kind(r) == Job[r].kind
Account(r) == Job[r].account
Call(r) == Job[r].call

ASSUME RequestsAssumption ==
  /\ IsFiniteSet(Requests)
  /\ \A r \in Requests : Kind(r) \in Kinds /\ Account(r) \in Accounts
  /\ \A r \in Requests : Kind(r) = "relay" => Call(r) \in Calls /\ Job[r].nonce \in Nat
ASSUME LimitsAssumption ==
  /\ \A b \in Budgets : b[1] \in BudgetNames /\ Limit[b] \in Nat
  /\ <<"gasPerDay", "all">> \in Budgets
ASSUME ChainAssumption ==
  /\ DeployedAtStart \subseteq Accounts
  /\ {PendingAtStart, MAX_PENDING, DailyCap, Treasury} \subseteq Nat
  /\ PendingAtStart <= MAX_PENDING
ASSUME BoundsAssumption == {MaxOutside, MaxLost, MaxCrashes, MaxWindows} \subseteq Nat

VARIABLES
  \* the process
  stage,       \* stage[r]: the await request r has reached, or its outcome
  defends,     \* defends[r]: the call is taken to defend its account
  waived,      \* waived[r]: the account is taken to waive its fee
  inFlight, granting, funded,
  watching,    \* requests answered whose receipt is still waited for
  queue,       \* the send lock: its holder first, then those waiting for it
  used,        \* used[b]: what the present window of budget b has counted
  \* what survives the process
  faucetFile,
  chain,       \* chain[a]: the account as its contract answers
  treasury,    \* grants the relayer can still pay for
  mempool,     \* transactions sent and not yet in a block, in nonce order
  fate,        \* fate[r]: what became of the transaction of r
  \* bounds
  outsiders, lost, crashes, windows,
  \* history, read by properties only
  sentGas,     \* gas budgeted and sent in the present window of gasPerDay
  grants,      \* grants[a]: times account a was granted demo USDG
  stale,       \* requests whose account others changed since it was read
  overtaken,   \* ... since its call was found to succeed, gas estimated; and
               \* grants since whose estimate another one was paid
  useless,     \* requests relayed as a defence that undid nothing
  doubtful     \* accounts with a transaction sent that the process lost sight of

process == <<stage, defends, waived, inFlight, granting, funded, watching, queue, used>>
chainVars == <<chain, treasury, mempool, fate>>
boundVars == <<outsiders, lost, crashes, windows>>
history == <<sentGas, grants, stale, overtaken, useless, doubtful>>
vars == <<process, faucetFile, chainVars, boundVars, history>>

\* A request has no outcome yet and waits for something.
Awaiting == {"asserting", "protections", "pendingIds", "policy", "treasury", "simulating", "queued", "sending", "sent"}
Outcomes == {"answered", "refused", "dropped"}
\* Stages in which relay() holds the account, and faucet() its reservation.
Reserved == Awaiting \ {"asserting"}

-----------------------------------------------------------------------------
(***************************************************************************)
(* The chain                                                               *)
(***************************************************************************)

\* The state of account a lets the call succeed.
Succeeds(a, call, nonce) ==
  LET c == chain[a]
  IN /\ c.deployed
     /\ call # "applyChange" => c.nonce = nonce
     /\ call = "pay" => ~c.frozen /\ c.spent < DailyCap
     /\ call = "scheduleChange" => c.pending < MAX_PENDING /\ c.spent < DailyCap
     /\ call \in {"cancelChange", "applyChange"} => c.pending > 0

\* The account after the call: payments and fees count to the day's cap, and
\* the part of a safety action's fee past it is waived.
After(c, call) ==
  [c EXCEPT !.nonce = IF call = "applyChange" THEN @ ELSE @ + 1,
            !.spent = IF call = "applyChange" \/ @ >= DailyCap THEN @ ELSE @ + 1,
            !.frozen = @ \/ call = "freeze",
            !.pending = IF call = "freeze" THEN 0
                        ELSE IF call = "scheduleChange" THEN @ + 1
                        ELSE IF call \in {"cancelChange", "applyChange"} THEN @ - 1 ELSE @]

\* Freezing stops payments or cancels waiting changes; cancelling has
\* something to cancel.
Undoes(a, call) == call # "freeze" \/ ~chain[a].frozen \/ chain[a].pending > 0

\* The transaction of r succeeds: createAccount always does, it answers for a
\* deployed account too.
Valid(r) ==
  /\ Kind(r) = "relay" => Succeeds(Account(r), Call(r), Job[r].nonce)
  /\ Kind(r) = "faucet" => treasury > 0

\* The accounts after a valid transaction of r.
Landed(r) ==
  IF Kind(r) = "relay" THEN [chain EXCEPT ![Account(r)] = After(@, Call(r))]
  ELSE IF Kind(r) = "create" THEN [chain EXCEPT ![Account(r)].deployed = TRUE]
  ELSE chain

\* Grants that were found to succeed beside the one of r, and are not in a block.
Racing(r) == {s \in Requests \ {r} : Kind(s) = "faucet" /\ (stage[s] = "sending" \/ fate[s] = "pending")}

\* A block takes the next transaction of the relayer's key.
mine ==
  /\ mempool # <<>>
  /\ LET r == Head(mempool)
         a == Account(r)
     IN /\ mempool' = Tail(mempool)
        /\ fate' = [fate EXCEPT ![r] = IF Valid(r) THEN "mined" ELSE "reverted"]
        /\ chain' = IF Valid(r) THEN Landed(r) ELSE chain
        /\ treasury' = IF Kind(r) = "faucet" /\ Valid(r) THEN treasury - 1 ELSE treasury
        /\ grants' = IF Kind(r) = "faucet" /\ Valid(r) THEN [grants EXCEPT ![a] = @ + 1] ELSE grants
        /\ useless' = IF Kind(r) = "relay" /\ defends[r] /\ Valid(r) /\ ~Undoes(a, Call(r))
                        THEN useless \union {r} ELSE useless
        /\ overtaken' = IF Kind(r) = "faucet" /\ Valid(r) THEN overtaken \union Racing(r) ELSE overtaken
  /\ UNCHANGED <<process, faucetFile, boundVars, sentGas, stale, doubtful>>

\* Somebody calls the account without the relayer.
outside(a, call) ==
  /\ outsiders < MaxOutside
  /\ outsiders' = outsiders + 1
  /\ Succeeds(a, call, chain[a].nonce)
  /\ chain' = [chain EXCEPT ![a] = After(@, call)]
  /\ stale' = stale \union {r \in Requests : Account(r) = a /\ stage[r] \in Reserved \union {"answered"}}
  /\ overtaken' = overtaken \union {r \in Requests : Account(r) = a /\ stage[r] \in {"sending", "sent", "answered"}}
  /\ UNCHANGED <<process, faucetFile, treasury, mempool, fate, lost, crashes, windows, sentGas, grants, useless, doubtful>>

-----------------------------------------------------------------------------
(***************************************************************************)
(* Limits                                                                  *)
(***************************************************************************)

Full(b) == used[b] >= Limit[b]

\* The first full budget refuses the request, and those before it have
\* counted it.
Refused(bs) == \E i \in DOMAIN bs : Full(bs[i])
Counted(bs) == {bs[i] : i \in {j \in DOMAIN bs : \A k \in 1..j : ~Full(bs[k])}}

\* RateLimiter.take() of each budget, one after the other.
take(bs) == used' = [b \in Budgets |-> IF b \in Counted(bs) THEN used[b] + 1 ELSE used[b]]

\* The limits of the routes, taken as the request arrives.
Admission(r) ==
  <<<<"perIp", Job[r].visitor>>,
    IF Kind(r) = "relay" THEN <<"perAccount", Account(r)>>
    ELSE IF Kind(r) = "create" THEN <<"perNullifier", Account(r)>>
    ELSE <<"faucetPerIp", Job[r].visitor>>>>

gas == <<"gasPerDay", "all">>

\* Mutant: a new account counts to its own limits only.
beforeSend_create_ungassed(r) ==
  IF Kind(r) = "relay" THEN
    IF defends[r] THEN <<>> ELSE IF waived[r] THEN <<<<"unpaidSafetyActions", Account(r)>>, gas>> ELSE <<gas>>
  ELSE IF Kind(r) = "create" THEN <<<<"accountsPerIp", Job[r].visitor>>, <<"newAccountsPerDay", "all">>>>
  ELSE <<<<"faucetGrantsPerDay", "all">>, gas>>

\* The limits taken once the gas is known, just before sending.
beforeSend(r) ==
  IF Kind(r) = "relay" THEN
    IF defends[r] THEN <<>> ELSE IF waived[r] THEN <<<<"unpaidSafetyActions", Account(r)>>, gas>> ELSE <<gas>>
  ELSE IF Kind(r) = "create" THEN <<<<"accountsPerIp", Job[r].visitor>>, <<"newAccountsPerDay", "all">>, gas>>
  ELSE <<<<"faucetGrantsPerDay", "all">>, gas>>

\* The window of a budget ends: the next take starts another.
window_ends(b) ==
  /\ windows < MaxWindows /\ used[b] > 0
  /\ windows' = windows + 1
  /\ used' = [used EXCEPT ![b] = 0]
  /\ sentGas' = IF b = gas THEN 0 ELSE sentGas
  /\ UNCHANGED <<stage, defends, waived, inFlight, granting, funded, watching, queue, faucetFile, chainVars,
                 outsiders, lost, crashes, grants, stale, overtaken, useless, doubtful>>

-----------------------------------------------------------------------------
(***************************************************************************)
(* Requests                                                                *)
(***************************************************************************)

goto(r, s) == stage' = [stage EXCEPT ![r] = s]

\* What the end of a request gives back, however it ends: the send lock, and
\* the account or the reservation it holds.
Holder == IF queue = <<>> THEN {} ELSE {Head(queue)}
unlock(r) == queue' = IF r \in Holder THEN Tail(queue) ELSE queue

\* Mutant: a job that fails never lets the next one start.
refuse_locked(r) ==
  /\ goto(r, "refused")
  /\ queue' = queue
  /\ inFlight' = IF Kind(r) = "relay" THEN inFlight \ {Account(r)} ELSE inFlight
  /\ granting' = IF Kind(r) = "faucet" THEN granting \ {Account(r)} ELSE granting

\* A request fails after it reserved its account.
refuse(r) ==
  /\ goto(r, "refused")
  /\ unlock(r)
  /\ inFlight' = IF Kind(r) = "relay" THEN inFlight \ {Account(r)} ELSE inFlight
  /\ granting' = IF Kind(r) = "faucet" THEN granting \ {Account(r)} ELSE granting

\* The route: limits first, then the handler up to its first read.
arrive(r) ==
  /\ stage[r] = "new"
  /\ take(Admission(r))
  /\ goto(r, IF Refused(Admission(r)) THEN "refused" ELSE "asserting")
  /\ UNCHANGED <<defends, waived, inFlight, granting, funded, watching, queue, faucetFile, chainVars, boundVars, history>>

\* What relay() awaits first to decide which limits apply.
FirstRead(call) ==
  IF call = "freeze" THEN "protections" ELSE IF call = "tighten" THEN "policy" ELSE "simulating"

\* Mutant: nobody asks whether the account is busy.
assert_relay_unasked(r) ==
  /\ stage[r] = "asserting" /\ Kind(r) = "relay"
  /\ LET a == Account(r)
     IN IF ~chain[a].deployed
          THEN goto(r, "refused") /\ UNCHANGED <<inFlight, defends>>
          ELSE /\ inFlight' = inFlight \union {a}
               /\ defends' = [defends EXCEPT ![r] = Call(r) = "cancelChange"]
               /\ goto(r, FirstRead(Call(r)))
  /\ UNCHANGED <<waived, granting, funded, watching, queue, used, faucetFile, chainVars, boundVars, history>>

\* Mutant: a request refused because the account is busy frees it.
assert_relay_freeing(r) ==
  /\ stage[r] = "asserting" /\ Kind(r) = "relay"
  /\ LET a == Account(r)
     IN IF ~chain[a].deployed \/ a \in inFlight
          THEN goto(r, "refused") /\ inFlight' = inFlight \ {a} /\ UNCHANGED defends
          ELSE /\ inFlight' = inFlight \union {a}
               /\ defends' = [defends EXCEPT ![r] = Call(r) = "cancelChange"]
               /\ goto(r, FirstRead(Call(r)))
  /\ UNCHANGED <<waived, granting, funded, watching, queue, used, faucetFile, chainVars, boundVars, history>>

\* relay(): assertOurAccount has answered; one transaction per account.
assert_relay(r) ==
  /\ stage[r] = "asserting" /\ Kind(r) = "relay"
  /\ LET a == Account(r)
     IN IF ~chain[a].deployed \/ a \in inFlight
          THEN goto(r, "refused") /\ UNCHANGED <<inFlight, defends>>
          ELSE /\ inFlight' = inFlight \union {a}
               /\ defends' = [defends EXCEPT ![r] = Call(r) = "cancelChange"]
               /\ goto(r, FirstRead(Call(r)))
  /\ UNCHANGED <<waived, granting, funded, watching, queue, used, faucetFile, chainVars, boundVars, history>>

\* createAccount(): the account's code is known; one that exists is the answer.
assert_create(r) ==
  /\ stage[r] = "asserting" /\ Kind(r) = "create"
  /\ goto(r, IF chain[Account(r)].deployed THEN "answered" ELSE "simulating")
  /\ UNCHANGED <<defends, waived, inFlight, granting, funded, watching, queue, used, faucetFile, chainVars, boundVars, history>>

\* Mutant: only grants already sent refuse another.
assert_faucet_unreserved(r) ==
  /\ stage[r] = "asserting" /\ Kind(r) = "faucet"
  /\ LET a == Account(r)
     IN IF ~chain[a].deployed \/ a \in funded
          THEN goto(r, "refused") /\ UNCHANGED granting
          ELSE goto(r, "treasury") /\ granting' = granting \union {a}
  /\ UNCHANGED <<defends, waived, inFlight, funded, watching, queue, used, faucetFile, chainVars, boundVars, history>>

\* faucet(): assertOurAccount has answered; the grant is reserved.
assert_faucet(r) ==
  /\ stage[r] = "asserting" /\ Kind(r) = "faucet"
  /\ LET a == Account(r)
     IN IF ~chain[a].deployed \/ a \in funded \union granting
          THEN goto(r, "refused") /\ UNCHANGED granting
          ELSE goto(r, "treasury") /\ granting' = granting \union {a}
  /\ UNCHANGED <<defends, waived, inFlight, funded, watching, queue, used, faucetFile, chainVars, boundVars, history>>

\* faucet(): the treasury's balance is known.
read_treasury(r) ==
  /\ stage[r] = "treasury"
  /\ IF treasury > 0 THEN goto(r, "simulating") /\ UNCHANGED <<inFlight, granting, queue>> ELSE refuse(r)
  /\ UNCHANGED <<defends, waived, funded, watching, used, faucetFile, chainVars, boundVars, history>>

\* Mutant: any freeze defends.
read_protections_only(r) ==
  /\ stage[r] = "protections"
  /\ defends' = [defends EXCEPT ![r] = TRUE]
  /\ goto(r, "simulating")
  /\ UNCHANGED <<waived, inFlight, granting, funded, watching, queue, used, faucetFile, chainVars, boundVars, history>>

\* defends(): a freeze that stops payments defends.
read_protections(r) ==
  /\ stage[r] = "protections"
  /\ defends' = [defends EXCEPT ![r] = ~chain[Account(r)].frozen]
  /\ goto(r, IF chain[Account(r)].frozen THEN "pendingIds" ELSE "simulating")
  /\ UNCHANGED <<waived, inFlight, granting, funded, watching, queue, used, faucetFile, chainVars, boundVars, history>>

\* defends(): so does one that cancels waiting changes.
read_pending_ids(r) ==
  /\ stage[r] = "pendingIds"
  /\ defends' = [defends EXCEPT ![r] = chain[Account(r)].pending > 0]
  /\ goto(r, IF chain[Account(r)].pending > 0 THEN "simulating" ELSE "policy")
  /\ UNCHANGED <<waived, inFlight, granting, funded, watching, queue, used, faucetFile, chainVars, boundVars, history>>

\* feeWaived(): the fee of 1 would pass the day's cap.
read_policy(r) ==
  /\ stage[r] = "policy"
  /\ waived' = [waived EXCEPT ![r] = chain[Account(r)].spent + 1 > DailyCap]
  /\ goto(r, "simulating")
  /\ UNCHANGED <<defends, inFlight, granting, funded, watching, queue, used, faucetFile, chainVars, boundVars, history>>

\* submit(): the call simulated, and waits for the send lock.
simulate(r) ==
  /\ stage[r] = "simulating"
  /\ IF Valid(r)
       THEN goto(r, "queued") /\ queue' = Append(queue, r) /\ UNCHANGED <<inFlight, granting>>
       ELSE refuse(r)
  /\ UNCHANGED <<defends, waived, funded, watching, used, faucetFile, chainVars, boundVars, history>>

\* Mutant: what was simulated is sent without another look.
estimate_unchecked(r) ==
  /\ stage[r] = "queued" /\ r \in Holder
  /\ take(beforeSend(r))
  /\ IF Refused(beforeSend(r))
       THEN refuse(r)
       ELSE goto(r, "sending") /\ UNCHANGED <<inFlight, granting, queue>>
  /\ UNCHANGED <<defends, waived, funded, watching, faucetFile, chainVars, boundVars, history>>

\* submit(): the gas is known, limits are taken, the transaction is handed over.
estimate(r) ==
  /\ stage[r] = "queued" /\ r \in Holder
  /\ IF Valid(r) THEN take(beforeSend(r)) ELSE UNCHANGED used
  /\ IF ~Valid(r) \/ Refused(beforeSend(r))
       THEN refuse(r)
       ELSE goto(r, "sending") /\ UNCHANGED <<inFlight, granting, queue>>
  /\ UNCHANGED <<defends, waived, funded, watching, faucetFile, chainVars, boundVars, history>>

\* The node takes the transaction.
broadcast(r) ==
  /\ stage[r] = "sending"
  /\ goto(r, "sent")
  /\ mempool' = Append(mempool, r)
  /\ fate' = [fate EXCEPT ![r] = "pending"]
  /\ sentGas' = IF Kind(r) = "relay" /\ defends[r] THEN sentGas ELSE sentGas + 1
  /\ UNCHANGED <<defends, waived, inFlight, granting, funded, watching, queue, used, faucetFile, chain, treasury,
                 boundVars, grants, stale, overtaken, useless, doubtful>>

\* The node's answer arrives: the request is answered, a grant remembered and
\* recorded, a relayed account held until its receipt.
confirm(r) ==
  /\ stage[r] = "sent"
  /\ goto(r, "answered")
  /\ unlock(r)
  /\ watching' = IF Kind(r) = "relay" THEN watching \union {r} ELSE watching
  /\ granting' = IF Kind(r) = "faucet" THEN granting \ {Account(r)} ELSE granting
  /\ funded' = IF Kind(r) = "faucet" THEN funded \union {Account(r)} ELSE funded
  /\ faucetFile' = IF Kind(r) = "faucet" THEN funded' ELSE faucetFile
  /\ UNCHANGED <<defends, waived, inFlight, used, chainVars, boundVars, history>>

\* The node's answer to a sent transaction is lost: the request fails.
lose(r) ==
  /\ stage[r] = "sent" /\ lost < MaxLost
  /\ lost' = lost + 1
  /\ refuse(r)
  /\ doubtful' = doubtful \union {Account(r)}
  /\ UNCHANGED <<defends, waived, funded, watching, used, faucetFile, chainVars, outsiders, crashes, windows,
                 sentGas, grants, stale, overtaken, useless>>

\* The grant was sent, but the faucet file cannot be written: the process
\* remembers the grant, and the file, truncated first, may have lost all.
confirm_unrecorded(r) ==
  /\ stage[r] = "sent" /\ Kind(r) = "faucet" /\ lost < MaxLost
  /\ lost' = lost + 1
  /\ refuse(r)
  /\ funded' = funded \union {Account(r)}
  /\ \E file \in {faucetFile, {}} :
       /\ faucetFile' = file
       /\ doubtful' = doubtful \union {Account(r)} \union (faucetFile \ file)
  /\ UNCHANGED <<defends, waived, watching, used, chainVars, outsiders, crashes, windows,
                 sentGas, grants, stale, overtaken, useless>>

\* The node does not answer a read, cannot simulate or estimate, wants too
\* much gas, or refuses the transaction.
fail(r) ==
  /\ \/ stage[r] \in Awaiting \ {"queued", "sent", "asserting"}
     \/ stage[r] = "queued" /\ r \in Holder
  /\ refuse(r)
  /\ UNCHANGED <<defends, waived, funded, watching, used, faucetFile, chainVars, boundVars, history>>

\* The node does not answer before the request holds anything.
fail_early(r) ==
  /\ stage[r] = "asserting"
  /\ goto(r, "refused")
  /\ UNCHANGED <<defends, waived, inFlight, granting, funded, watching, queue, used, faucetFile, chainVars, boundVars, history>>

\* The receipt of a relayed call arrives: success or revert, the account is free.
settle(r) ==
  /\ r \in watching /\ fate[r] \in {"mined", "reverted"}
  /\ watching' = watching \ {r}
  /\ inFlight' = inFlight \ {Account(r)}
  /\ UNCHANGED <<stage, defends, waived, granting, funded, queue, used, faucetFile, chainVars, boundVars, history>>

\* IN_FLIGHT_TIMEOUT_MS passed without a receipt.
timeout(r) ==
  /\ r \in watching /\ fate[r] = "pending"
  /\ watching' = watching \ {r}
  /\ inFlight' = inFlight \ {Account(r)}
  /\ doubtful' = doubtful \union {Account(r)}
  /\ UNCHANGED <<stage, defends, waived, granting, funded, queue, used, faucetFile, chainVars, boundVars,
                 sentGas, grants, stale, overtaken, useless>>

\* The process stops and starts again: only the faucet file and the chain
\* stay, and not the file if it was being written; one that cannot be read is
\* taken for a first run.
restart ==
  /\ crashes < MaxCrashes
  /\ crashes' = crashes + 1
  /\ stage' = [r \in Requests |-> IF stage[r] \in Awaiting THEN "dropped" ELSE stage[r]]
  /\ inFlight' = {} /\ granting' = {} /\ watching' = {} /\ queue' = <<>>
  /\ \E file \in {faucetFile} \union {{} : r \in {s \in Requests : stage[s] = "sent" /\ Kind(s) = "faucet"}} :
       /\ faucetFile' = file /\ funded' = file
       /\ doubtful' = doubtful \union (faucetFile \ file) \union
            {Account(r) : r \in {s \in Requests : fate[s] = "pending" \/ stage[s] = "sent"}}
  /\ used' = [b \in Budgets |-> 0]
  /\ sentGas' = 0
  /\ UNCHANGED <<defends, waived, chainVars, outsiders, lost, windows, grants, stale, overtaken, useless>>

-----------------------------------------------------------------------------
Init ==
  /\ stage = [r \in Requests |-> "new"]
  /\ defends = [r \in Requests |-> FALSE] /\ waived = [r \in Requests |-> FALSE]
  /\ inFlight = {} /\ granting = {} /\ funded = {} /\ faucetFile = {}
  /\ watching = {} /\ queue = <<>>
  /\ used = [b \in Budgets |-> 0]
  /\ chain = [a \in Accounts |-> [deployed |-> a \in DeployedAtStart, nonce |-> 0, frozen |-> FALSE,
                                  pending |-> IF a \in DeployedAtStart THEN PendingAtStart ELSE 0, spent |-> 0]]
  /\ treasury = Treasury /\ mempool = <<>>
  /\ fate = [r \in Requests |-> "none"]
  /\ outsiders = 0 /\ lost = 0 /\ crashes = 0 /\ windows = 0
  /\ sentGas = 0 /\ grants = [a \in Accounts |-> 0]
  /\ stale = {} /\ overtaken = {} /\ useless = {} /\ doubtful = {}

\* What the process does next for a request it has accepted.
serve(r) ==
  \/ assert_relay(r) \/ assert_create(r) \/ assert_faucet(r)
  \/ read_treasury(r) \/ read_protections(r) \/ read_pending_ids(r) \/ read_policy(r)
  \/ simulate(r) \/ estimate(r) \/ broadcast(r) \/ confirm(r)
  \/ lose(r) \/ confirm_unrecorded(r) \/ fail(r) \/ fail_early(r)

watch(r) == settle(r) \/ timeout(r)

Next ==
  \/ \E r \in Requests : arrive(r) \/ serve(r) \/ watch(r)
  \/ mine
  \/ \E a \in Accounts, call \in Calls : outside(a, call)
  \/ \E b \in Budgets : window_ends(b)
  \/ restart

Spec == Init /\ [][Next]_vars
=============================================================================
