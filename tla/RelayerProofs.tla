--------------------------- MODULE RelayerProofs ---------------------------
(***************************************************************************)
(* The relayer's invariants, for any requests, accounts, limits and bounds. *)
(***************************************************************************)
EXTENDS RelayerRefinement, TLAPS

USE RequestsAssumption

LEMMA TypeInit == Init => TypeOK
  BY LimitsAssumption, ChainAssumption
  DEF Init, TypeOK, ProcessType, BudgetType, ChainType, HistoryType, Stages, Awaiting

(***************************************************************************)
(* What the shared parts of the handlers preserve.                         *)
(***************************************************************************)
LEMMA TakeType ==
  ASSUME BudgetType, NEW bs, DOMAIN bs \subseteq Nat \ {0}, take(bs), UNCHANGED sentGas
  PROVE  BudgetType'
<1>1. \A b \in Budgets : b \in Counted(bs) => used[b] < Limit[b]
  <2> SUFFICES ASSUME NEW b \in Budgets, NEW j \in DOMAIN bs, bs[j] = b, \A k \in 1..j : ~Full(bs[k])
               PROVE  used[b] < Limit[b]
    BY DEF Counted
  <2>1. j \in 1..j
    OBVIOUS
  <2> QED
    BY <2>1, LimitsAssumption DEF Full, BudgetType
<1> QED
  BY <1>1, LimitsAssumption DEF BudgetType, take

\* The budgets of a request are a sequence.
LEMMA BudgetsListed ==
  ASSUME NEW r
  PROVE  /\ DOMAIN Admission(r) \subseteq Nat \ {0}
         /\ DOMAIN beforeSend(r) \subseteq Nat \ {0}
         /\ \A i \in DOMAIN beforeSend(r) : 1..i \subseteq DOMAIN beforeSend(r)
  BY DEF Admission, beforeSend

LEMMA UnlockType ==
  ASSUME ProcessType, NEW r \in Requests, unlock(r)
  PROVE  queue' \in Seq(Requests)
  BY DEF ProcessType, unlock, Holder

LEMMA RefuseType ==
  ASSUME ProcessType, NEW r \in Requests, refuse(r),
         UNCHANGED <<defends, waived, watching>>,
         funded' \subseteq Accounts, faucetFile' \subseteq Accounts
  PROVE  ProcessType'
  BY UnlockType DEF ProcessType, refuse, goto, Stages, Outcomes

LEMMA FirstReadStage == \A call : FirstRead(call) \in Awaiting
  BY DEF FirstRead, Awaiting

\* A call that succeeds leaves an account within its type.
LEMMA AfterType ==
  ASSUME ChainType, NEW a \in Accounts, NEW call, NEW nonce, Succeeds(a, call, nonce)
  PROVE  After(chain[a], call) \in [deployed : BOOLEAN, nonce : Nat, frozen : BOOLEAN, pending : 0..MAX_PENDING, spent : 0..DailyCap]
<1> DEFINE c == chain[a]
<1>1. c \in [deployed : BOOLEAN, nonce : Nat, frozen : BOOLEAN, pending : 0..MAX_PENDING, spent : 0..DailyCap]
  BY DEF ChainType
<1>2. (IF call = "applyChange" \/ c.spent >= DailyCap THEN c.spent ELSE c.spent + 1) \in 0..DailyCap
  BY <1>1, ChainAssumption
<1>3. (IF call = "freeze" THEN 0
       ELSE IF call = "scheduleChange" THEN c.pending + 1
       ELSE IF call \in {"cancelChange", "applyChange"} THEN c.pending - 1 ELSE c.pending) \in 0..MAX_PENDING
  BY <1>1, ChainAssumption DEF Succeeds
<1>4. (IF call = "applyChange" THEN c.nonce ELSE c.nonce + 1) \in Nat
  BY <1>1
<1> QED
  BY <1>1, <1>2, <1>3, <1>4 DEF After

LEMMA MineType == ASSUME TypeOK, mine PROVE TypeOK'
<1> DEFINE r == Head(mempool)
           a == Account(r)
<1>1. r \in Requests /\ a \in Accounts /\ mempool' \in Seq(Requests)
  BY DEF mine, TypeOK, ChainType
<1>2. fate' \in [Requests -> {"none", "pending", "mined", "reverted"}]
  BY <1>1 DEF mine, TypeOK, ChainType
<1>3. treasury' \in 0..Treasury
  <2>1. treasury \in 0..Treasury /\ Treasury \in Nat
    BY ChainAssumption DEF TypeOK, ChainType
  <2>2. treasury' = treasury \/ (treasury > 0 /\ treasury' = treasury - 1)
    BY DEF mine, Valid
  <2> QED
    BY <2>1, <2>2
<1>4. grants' \in [Accounts -> Nat]
  BY <1>1 DEF mine, TypeOK, HistoryType
<1>5. chain' \in [Accounts -> [deployed : BOOLEAN, nonce : Nat, frozen : BOOLEAN, pending : 0..MAX_PENDING, spent : 0..DailyCap]]
  <2>1. CASE Valid(r) /\ Kind(r) = "relay"
    <3>1. Succeeds(a, Call(r), Job[r].nonce)
      BY <2>1 DEF Valid
    <3>2. After(chain[a], Call(r)) \in [deployed : BOOLEAN, nonce : Nat, frozen : BOOLEAN, pending : 0..MAX_PENDING, spent : 0..DailyCap]
      BY <1>1, <3>1, AfterType DEF TypeOK
    <3> QED
      BY <1>1, <2>1, <3>2 DEF mine, TypeOK, ChainType, Landed
  <2>2. CASE ~(Valid(r) /\ Kind(r) = "relay")
    BY <1>1, <2>2 DEF mine, TypeOK, ChainType, Landed
  <2> QED
    BY <2>1, <2>2
<1>6. useless' \subseteq Requests /\ overtaken' \subseteq Requests
  BY <1>1 DEF mine, Racing, TypeOK, HistoryType
<1> QED
  BY <1>1, <1>2, <1>3, <1>4, <1>5, <1>6
  DEF mine, TypeOK, ProcessType, BudgetType, ChainType, HistoryType, process, boundVars

LEMMA OutsideType ==
  ASSUME TypeOK, NEW a \in Accounts, NEW call \in Calls, outside(a, call)
  PROVE  TypeOK'
<1>1. After(chain[a], call) \in [deployed : BOOLEAN, nonce : Nat, frozen : BOOLEAN, pending : 0..MAX_PENDING, spent : 0..DailyCap]
  BY AfterType DEF TypeOK, outside
<1>2. ChainType'
  BY <1>1 DEF outside, TypeOK, ChainType
<1>3. HistoryType'
  BY DEF outside, TypeOK, HistoryType
<1> QED
  BY <1>2, <1>3 DEF outside, TypeOK, ProcessType, BudgetType, process

LEMMA ArriveType == ASSUME TypeOK, NEW r \in Requests, arrive(r) PROVE TypeOK'
<1>1. BudgetType'
  BY TakeType, BudgetsListed DEF TypeOK, arrive, history
<1> QED
  BY <1>1
  DEF TypeOK, ProcessType, ChainType, HistoryType, arrive, goto, Stages, Awaiting, Outcomes,
      chainVars, boundVars, history

LEMMA AssertType ==
  ASSUME TypeOK, NEW r \in Requests, assert_relay(r) \/ assert_create(r) \/ assert_faucet(r)
  PROVE  TypeOK'
<1>1. ProcessType'
  <2>1. CASE assert_relay(r)
    <3>1. stage' \in [Requests -> Stages]
      BY <2>1, FirstReadStage DEF TypeOK, ProcessType, assert_relay, goto, Stages, Outcomes
    <3>2. inFlight' \subseteq Accounts
      BY <2>1 DEF TypeOK, ProcessType, assert_relay
    <3>3. (Call(r) = "cancelChange") \in BOOLEAN
      OBVIOUS
    <3>4. defends' \in [Requests -> BOOLEAN]
      BY <2>1, <3>3 DEF TypeOK, ProcessType, assert_relay
    <3> QED
      BY <2>1, <3>1, <3>2, <3>4 DEF TypeOK, ProcessType, assert_relay
  <2>2. CASE assert_create(r)
    BY <2>2 DEF TypeOK, ProcessType, assert_create, goto, Stages, Awaiting, Outcomes
  <2>3. CASE assert_faucet(r)
    BY <2>3 DEF TypeOK, ProcessType, assert_faucet, goto, Stages, Awaiting, Outcomes
  <2> QED BY <2>1, <2>2, <2>3
<1> QED
  BY <1>1 DEF TypeOK, BudgetType, ChainType, HistoryType, assert_relay, assert_create, assert_faucet,
              chainVars, boundVars, history

LEMMA ReadType ==
  ASSUME TypeOK, NEW r \in Requests,
         read_treasury(r) \/ read_protections(r) \/ read_pending_ids(r) \/ read_policy(r)
  PROVE  TypeOK'
<1>1. ProcessType'
  <2>1. CASE read_treasury(r)
    <3>1. CASE treasury > 0
      BY <2>1, <3>1 DEF TypeOK, ProcessType, read_treasury, goto, Stages, Awaiting
    <3>2. CASE ~(treasury > 0)
      BY <2>1, <3>2, RefuseType DEF TypeOK, ProcessType, read_treasury
    <3> QED BY <3>1, <3>2
  <2>2. CASE read_protections(r)
    BY <2>2 DEF TypeOK, ProcessType, ChainType, read_protections, goto, Stages, Awaiting
  <2>3. CASE read_pending_ids(r)
    BY <2>3 DEF TypeOK, ProcessType, ChainType, read_pending_ids, goto, Stages, Awaiting
  <2>4. CASE read_policy(r)
    BY <2>4 DEF TypeOK, ProcessType, ChainType, read_policy, goto, Stages, Awaiting
  <2> QED BY <2>1, <2>2, <2>3, <2>4
<1> QED
  BY <1>1 DEF TypeOK, BudgetType, ChainType, HistoryType, read_treasury, read_protections, read_pending_ids,
              read_policy, chainVars, boundVars, history

LEMMA SubmitType ==
  ASSUME TypeOK, NEW r \in Requests, simulate(r) \/ estimate(r) \/ broadcast(r)
  PROVE  TypeOK'
<1>1. CASE simulate(r)
  <2>1. CASE Valid(r)
    <3>1. stage' \in [Requests -> Stages] /\ queue' \in Seq(Requests)
      BY <1>1, <2>1 DEF TypeOK, ProcessType, simulate, goto, Stages, Awaiting
    <3> QED
      BY <1>1, <2>1, <3>1 DEF TypeOK, ProcessType, BudgetType, ChainType, HistoryType, simulate,
                              chainVars, boundVars, history
  <2>2. CASE ~Valid(r)
    <3>1. ProcessType'
      BY <1>1, <2>2, RefuseType DEF TypeOK, ProcessType, simulate
    <3> QED
      BY <1>1, <3>1 DEF TypeOK, BudgetType, ChainType, HistoryType, simulate, chainVars, boundVars, history
  <2> QED BY <2>1, <2>2
<1>2. CASE estimate(r)
  <2>1. BudgetType'
    <3>1. CASE Valid(r)
      BY <1>2, <3>1, TakeType, BudgetsListed DEF TypeOK, estimate, history
    <3>2. CASE ~Valid(r)
      BY <1>2, <3>2 DEF TypeOK, BudgetType, estimate, history
    <3> QED BY <3>1, <3>2
  <2>2. ProcessType'
    <3>1. CASE ~Valid(r) \/ Refused(beforeSend(r))
      BY <1>2, <3>1, RefuseType DEF TypeOK, ProcessType, estimate
    <3>2. CASE ~(~Valid(r) \/ Refused(beforeSend(r)))
      BY <1>2, <3>2 DEF TypeOK, ProcessType, estimate, goto, Stages, Awaiting
    <3> QED BY <3>1, <3>2
  <2> QED
    BY <1>2, <2>1, <2>2 DEF TypeOK, ChainType, HistoryType, estimate, chainVars, boundVars, history
<1>3. CASE broadcast(r)
  <2>1. ProcessType'
    BY <1>3 DEF TypeOK, ProcessType, broadcast, goto, Stages, Awaiting
  <2>2. BudgetType'
    BY <1>3 DEF TypeOK, BudgetType, broadcast
  <2>3. mempool' \in Seq(Requests) /\ fate' \in [Requests -> {"none", "pending", "mined", "reverted"}]
    BY <1>3 DEF TypeOK, ChainType, broadcast
  <2>4. ChainType'
    BY <1>3, <2>3 DEF TypeOK, ChainType, broadcast
  <2> QED
    BY <1>3, <2>1, <2>2, <2>4 DEF TypeOK, HistoryType, broadcast, boundVars
<1> QED BY <1>1, <1>2, <1>3

LEMMA EndType ==
  ASSUME TypeOK, NEW r \in Requests,
         confirm(r) \/ lose(r) \/ confirm_unrecorded(r) \/ fail(r) \/ fail_early(r)
  PROVE  TypeOK'
<1>1. CASE confirm(r)
  <2>1. queue' \in Seq(Requests)
    BY <1>1, UnlockType DEF TypeOK, confirm
  <2> QED
    BY <1>1, <2>1 DEF TypeOK, ProcessType, BudgetType, ChainType, HistoryType, confirm, goto, Stages, Outcomes,
                      chainVars, boundVars, history
<1>2. CASE lose(r)
  <2>1. ProcessType'
    BY <1>2, RefuseType DEF TypeOK, ProcessType, lose
  <2> QED
    BY <1>2, <2>1 DEF TypeOK, BudgetType, ChainType, HistoryType, lose, chainVars
<1>3. CASE confirm_unrecorded(r)
  <2>1. funded' \subseteq Accounts /\ faucetFile' \subseteq Accounts /\ doubtful' \subseteq Accounts
    BY <1>3 DEF TypeOK, ProcessType, HistoryType, confirm_unrecorded
  <2>2. ProcessType'
    BY <1>3, <2>1, RefuseType DEF TypeOK, confirm_unrecorded
  <2> QED
    BY <1>3, <2>1, <2>2 DEF TypeOK, BudgetType, ChainType, HistoryType, confirm_unrecorded, chainVars
<1>4. CASE fail(r)
  <2>1. ProcessType'
    BY <1>4, RefuseType DEF TypeOK, ProcessType, fail
  <2> QED
    BY <1>4, <2>1 DEF TypeOK, BudgetType, ChainType, HistoryType, fail, chainVars, boundVars, history
<1>5. CASE fail_early(r)
  BY <1>5 DEF TypeOK, ProcessType, BudgetType, ChainType, HistoryType, fail_early, goto, Stages, Outcomes,
              chainVars, boundVars, history
<1> QED BY <1>1, <1>2, <1>3, <1>4, <1>5

LEMMA OtherType ==
  ASSUME TypeOK, \/ \E r \in Requests : watch(r)
                 \/ \E b \in Budgets : window_ends(b)
                 \/ restart
  PROVE  TypeOK'
<1>1. CASE \E r \in Requests : watch(r)
  <2> PICK r \in Requests : watch(r)
    BY <1>1
  <2> QED
    BY DEF TypeOK, ProcessType, BudgetType, ChainType, HistoryType, watch, settle, timeout,
           chainVars, boundVars, history
<1>2. CASE \E b \in Budgets : window_ends(b)
  <2> PICK b \in Budgets : window_ends(b)
    BY <1>2
  <2>1. used' \in [Budgets -> Nat] /\ (\A c \in Budgets : used'[c] <= Limit[c])
    BY LimitsAssumption DEF TypeOK, BudgetType, window_ends
  <2>2. sentGas' \in Nat
    BY DEF TypeOK, BudgetType, window_ends
  <2>3. ProcessType' /\ ChainType'
    BY DEF TypeOK, ProcessType, ChainType, window_ends, chainVars
  <2> QED
    BY <2>1, <2>2, <2>3 DEF TypeOK, BudgetType, HistoryType, window_ends
<1>3. CASE restart
  <2>1. ProcessType'
    BY <1>3 DEF TypeOK, ProcessType, restart, Stages, Outcomes
  <2>2. BudgetType'
    BY <1>3, LimitsAssumption DEF restart, BudgetType
  <2>3. doubtful' \subseteq Accounts
    BY <1>3 DEF TypeOK, ProcessType, HistoryType, restart
  <2>4. ChainType'
    BY <1>3 DEF TypeOK, ChainType, restart, chainVars
  <2>5. HistoryType'
    BY <1>3, <2>3 DEF TypeOK, HistoryType, restart
  <2> QED
    BY <2>1, <2>2, <2>4, <2>5 DEF TypeOK
<1> QED BY <1>1, <1>2, <1>3

\* Every step keeps the types.
LEMMA TypeStep == TypeOK /\ [Next]_vars => TypeOK'
<1> SUFFICES ASSUME TypeOK, [Next]_vars PROVE TypeOK'
  OBVIOUS
<1>1. CASE UNCHANGED vars
  BY <1>1 DEF TypeOK, ProcessType, BudgetType, ChainType, HistoryType, vars, process, chainVars, boundVars, history
<1>2. CASE \E r \in Requests : arrive(r) \/ serve(r)
  BY <1>2, ArriveType, AssertType, ReadType, SubmitType, EndType DEF serve
<1>3. CASE mine \/ \E a \in Accounts, call \in Calls : outside(a, call)
  BY <1>3, MineType, OutsideType
<1>4. CASE (\E r \in Requests : watch(r)) \/ (\E b \in Budgets : window_ends(b)) \/ restart
  BY <1>4, OtherType
<1> QED
  BY <1>1, <1>2, <1>3, <1>4 DEF Next

\* Variables keep their types, no budget counts more than its limit, and the
\* treasury is never overdrawn (relayer.ts, rate-limit.ts).
THEOREM TypeCorrect == Spec => []TypeOK
  BY TypeInit, TypeStep, PTL DEF Spec

(***************************************************************************)
(* Who holds what.  Core is inductive; its parts need each other: the send *)
(* lock makes the gas counted bound the gas sent, and a request that holds *)
(* its account makes it the only one with a transaction on its way.        *)
(***************************************************************************)

\* The accounts I are those of the requests S, one request each.
Owned(S, I) ==
  /\ I = {Account(r) : r \in S}
  /\ \A r, s \in S : Account(r) = Account(s) => r = s

AccountHolders == {r \in Requests : HoldsAccount(r)}
GrantHolders == {r \in Requests : HoldsGrant(r)}

LEMMA OwnedBoth == ReservationsOwned <=> Owned(AccountHolders, inFlight) /\ Owned(GrantHolders, granting)
  BY DEF ReservationsOwned, Owned, AccountHolders, GrantHolders

LEMMA OwnedNext ==
  ASSUME Owned(AccountHolders', inFlight'), Owned(GrantHolders', granting')
  PROVE  ReservationsOwned'
  BY DEF ReservationsOwned, Owned, AccountHolders, GrantHolders

LEMMA OwnedTake ==
  ASSUME NEW S, NEW I, NEW r, Owned(S, I), Account(r) \notin I
  PROVE  Owned(S \union {r}, I \union {Account(r)})
  BY DEF Owned

LEMMA OwnedFree ==
  ASSUME NEW S, NEW I, NEW r \in S, Owned(S, I)
  PROVE  Owned(S \ {r}, I \ {Account(r)})
  BY DEF Owned

LEMMA CoreInit == Init => Core
  BY LimitsAssumption
  DEF Init, Core, ReservationsOwned, HoldsAccount, HoldsGrant, WatchingAnswered, PendingHolds, PendingSent,
      SendersHoldLock, GasCounted, gas, Reserved, Awaiting

(***************************************************************************)
(* Steps of one request that take nothing and free nothing.                *)
(***************************************************************************)

\* Request r moves on, without the send lock, before it sends.
LEMMA MoveCore ==
  ASSUME TypeOK, Core, NEW r \in Requests, NEW s \in Stages \ {"sending", "sent"},
         goto(r, s), stage[r] \notin {"sent"} \union Outcomes,
         Kind(r) = "create" \/ (stage[r] \in Reserved <=> s \in Reserved),
         \A q \in Requests \ {r} : defends'[q] = defends[q],
         used' \in [Budgets -> Nat], used'[gas] >= used[gas],
         Holder \subseteq Holder',
         UNCHANGED <<inFlight, granting, watching, fate, doubtful, sentGas>>
  PROVE  Core'
<1> USE DEF Core
<1>1. stage' = [stage EXCEPT ![r] = s] /\ stage \in [Requests -> Stages]
  BY DEF goto, TypeOK, ProcessType
<1>2. r \notin watching
  BY DEF WatchingAnswered, Outcomes
<1>3. AccountHolders' = AccountHolders /\ GrantHolders' = GrantHolders
  BY <1>1, <1>2 DEF AccountHolders, GrantHolders, HoldsAccount, HoldsGrant
<1>4. ReservationsOwned'
  BY <1>3, OwnedBoth, OwnedNext
<1>5. WatchingAnswered'
  BY <1>1, <1>2 DEF WatchingAnswered, TypeOK, ProcessType
<1>6. fate[r] # "pending"
  BY DEF PendingSent
<1>7. PendingHolds'
  BY <1>1, <1>6 DEF PendingHolds, HoldsAccount
<1>8. PendingSent'
  BY <1>1, <1>6 DEF PendingSent
<1>9. SendersHoldLock'
  BY <1>1 DEF SendersHoldLock
<1>10. GasCounted'
  <2>1. sentGas \in Nat /\ used[gas] \in Nat /\ used'[gas] \in Nat
    BY LimitsAssumption DEF TypeOK, BudgetType, gas
  <2> QED
    BY <1>1, <2>1 DEF GasCounted, Budgeted
<1> QED
  BY <1>4, <1>5, <1>7, <1>8, <1>9, <1>10

LEMMA BudgetKept ==
  ASSUME TypeOK, UNCHANGED used
  PROVE  used' \in [Budgets -> Nat] /\ used'[gas] >= used[gas]
  BY LimitsAssumption DEF TypeOK, BudgetType, gas

\* ... and neither takes a budget nor queues.
LEMMA StepCore ==
  ASSUME TypeOK, Core, NEW r \in Requests, NEW s \in Stages \ {"sending", "sent"},
         goto(r, s), stage[r] \notin {"sent"} \union Outcomes,
         Kind(r) = "create" \/ (stage[r] \in Reserved <=> s \in Reserved),
         \A q \in Requests \ {r} : defends'[q] = defends[q],
         UNCHANGED <<inFlight, granting, watching, queue, used, fate, doubtful, sentGas>>
  PROVE  Core'
<1>1. used' \in [Budgets -> Nat] /\ used'[gas] >= used[gas]
  BY BudgetKept
<1>2. Holder \subseteq Holder'
  BY DEF Holder
<1> QED
  BY <1>1, <1>2, MoveCore

\* A step that moves no request and frees nothing.
LEMMA StillCore ==
  ASSUME TypeOK, Core,
         UNCHANGED <<stage, defends, inFlight, granting, watching, queue>>,
         \A r \in Requests : fate'[r] = "pending" => fate[r] = "pending",
         UNCHANGED <<sentGas, used, doubtful>>
  PROVE  Core'
  BY DEF Core, ReservationsOwned, HoldsAccount, HoldsGrant, WatchingAnswered, PendingHolds, PendingSent,
         SendersHoldLock, Holder, GasCounted, Budgeted
(***************************************************************************)
(* Steps that take or free.                                                *)
(***************************************************************************)

\* The budget of gas is a number that taking never lowers.
LEMMA GasTaken ==
  ASSUME TypeOK, NEW bs, DOMAIN bs \subseteq Nat \ {0}, take(bs)
  PROVE  /\ used' \in [Budgets -> Nat] /\ used'[gas] >= used[gas]
         /\ gas \in Counted(bs) => used'[gas] = used[gas] + 1
  BY LimitsAssumption DEF TypeOK, BudgetType, take, gas

\* A request that ends gives back the lock, and nobody else has it.
LEMMA UnlockHolders ==
  ASSUME TypeOK, SendersHoldLock, NEW r \in Requests, unlock(r),
         \A q \in Requests \ {r} : stage'[q] = stage[q],
         stage'[r] \notin {"sending", "sent"}
  PROVE  SendersHoldLock'
<1> SUFFICES ASSUME NEW q \in Requests, stage'[q] \in {"sending", "sent"}
             PROVE  q \in Holder'
  BY DEF SendersHoldLock
<1>1. q # r /\ q \in Holder
  BY DEF SendersHoldLock
<1>2. r \notin Holder
  BY <1>1 DEF Holder
<1> QED
  BY <1>1, <1>2 DEF unlock, Holder

\* A request that reserved its account fails, and gives it back.
LEMMA RefuseCore ==
  ASSUME TypeOK, Core, NEW r \in Requests, refuse(r), stage[r] \in Reserved,
         used' \in [Budgets -> Nat], used'[gas] >= used[gas],
         doubtful \subseteq doubtful',
         Kind(r) = "relay" /\ stage[r] = "sent" => Account(r) \in doubtful',
         UNCHANGED <<defends, watching, fate, sentGas>>
  PROVE  Core'
<1> USE DEF Core
<1>1. stage' = [stage EXCEPT ![r] = "refused"] /\ stage \in [Requests -> Stages]
  BY DEF refuse, goto, TypeOK, ProcessType
<1>2. r \notin watching
  BY DEF WatchingAnswered, Reserved, Awaiting
<1>3. ReservationsOwned'
  <2>0. "refused" \notin Reserved
    BY DEF Reserved, Awaiting
  <2>1. CASE Kind(r) = "relay"
    <3>1. r \in AccountHolders /\ AccountHolders' = AccountHolders \ {r} /\ GrantHolders' = GrantHolders
      BY <1>1, <1>2, <2>0, <2>1 DEF AccountHolders, GrantHolders, HoldsAccount, HoldsGrant
    <3>2. inFlight' = inFlight \ {Account(r)} /\ granting' = granting
      BY <2>1 DEF refuse
    <3> QED
      BY <3>1, <3>2, OwnedBoth, OwnedFree, OwnedNext
  <2>2. CASE Kind(r) = "faucet"
    <3>1. r \in GrantHolders /\ GrantHolders' = GrantHolders \ {r} /\ AccountHolders' = AccountHolders
      BY <1>1, <1>2, <2>0, <2>2 DEF AccountHolders, GrantHolders, HoldsAccount, HoldsGrant
    <3>2. granting' = granting \ {Account(r)} /\ inFlight' = inFlight
      BY <2>2 DEF refuse
    <3> QED
      BY <3>1, <3>2, OwnedBoth, OwnedFree, OwnedNext
  <2>3. CASE Kind(r) \notin {"relay", "faucet"}
    <3>1. GrantHolders' = GrantHolders /\ AccountHolders' = AccountHolders
      BY <1>1, <1>2, <2>3 DEF AccountHolders, GrantHolders, HoldsAccount, HoldsGrant
    <3>2. granting' = granting /\ inFlight' = inFlight
      BY <2>3 DEF refuse
    <3> QED
      BY <3>1, <3>2, OwnedBoth, OwnedNext
  <2> QED BY <2>1, <2>2, <2>3
<1>4. WatchingAnswered'
  BY <1>1, <1>2 DEF WatchingAnswered, TypeOK, ProcessType
<1>5. fate[r] = "pending" => stage[r] = "sent"
  BY DEF PendingSent, Reserved, Awaiting, Outcomes
<1>6. PendingHolds'
  BY <1>1, <1>5 DEF PendingHolds, HoldsAccount
<1>7. PendingSent'
  BY <1>1 DEF PendingSent, Outcomes
<1>8. SendersHoldLock'
  BY <1>1, UnlockHolders DEF refuse
<1>9. GasCounted'
  <2>1. sentGas \in Nat /\ used[gas] \in Nat /\ used'[gas] \in Nat
    BY LimitsAssumption DEF TypeOK, BudgetType, gas
  <2> QED
    BY <1>1, <2>1 DEF GasCounted, Budgeted
<1> QED
  BY <1>3, <1>4, <1>6, <1>7, <1>8, <1>9

\* assertOurAccount, or the read of the account's code, has answered.
LEMMA AssertCore ==
  ASSUME TypeOK, Core, NEW r \in Requests, assert_relay(r) \/ assert_create(r) \/ assert_faucet(r)
  PROVE  Core'
<1>1. CASE assert_relay(r)
  <2> DEFINE a == Account(r)
             s == FirstRead(Call(r))
  <2>0. stage[r] = "asserting" /\ Kind(r) = "relay" /\ "asserting" \notin Reserved /\ r \notin watching
    BY <1>1 DEF assert_relay, Core, WatchingAnswered, Reserved
  <2>1. CASE ~chain[a].deployed \/ a \in inFlight
    <3>1. goto(r, "refused") /\ UNCHANGED <<inFlight, defends, waived, granting, funded, watching, queue, used, fate, doubtful, sentGas>>
      BY <1>1, <2>1 DEF assert_relay, chainVars, history
    <3> QED
      BY <2>0, <3>1, StepCore DEF Outcomes, Stages, Awaiting, Reserved
  <2>2. CASE ~(~chain[a].deployed \/ a \in inFlight)
    <3>1. /\ goto(r, s) /\ inFlight' = inFlight \union {a}
          /\ UNCHANGED <<granting, watching, queue, used, fate, doubtful, sentGas>>
          /\ \A q \in Requests \ {r} : defends'[q] = defends[q]
      BY <1>1, <2>2 DEF assert_relay, chainVars, history, TypeOK, ProcessType
    <3>2. s \in Reserved \ {"sending", "sent"}
      BY DEF FirstRead, Reserved, Awaiting
    <3>3. stage' = [stage EXCEPT ![r] = s] /\ stage \in [Requests -> Stages]
      BY <3>1 DEF goto, TypeOK, ProcessType
    <3>4. AccountHolders' = AccountHolders \union {r} /\ GrantHolders' = GrantHolders
      BY <2>0, <3>1, <3>2, <3>3 DEF AccountHolders, GrantHolders, HoldsAccount, HoldsGrant
    <3>5. ReservationsOwned'
      BY <2>2, <3>1, <3>4, OwnedBoth, OwnedTake, OwnedNext DEF Core
    <3>6. WatchingAnswered'
      BY <2>0, <3>1, <3>3 DEF Core, WatchingAnswered, TypeOK, ProcessType
    <3>7. fate[r] # "pending"
      BY <2>0 DEF Core, PendingSent, Outcomes
    <3>8. PendingHolds' /\ PendingSent'
      BY <3>1, <3>3, <3>7 DEF Core, PendingHolds, PendingSent, HoldsAccount
    <3>9. SendersHoldLock' /\ GasCounted'
      BY <3>1, <3>2, <3>3 DEF Core, SendersHoldLock, Holder, GasCounted, Budgeted
    <3> QED
      BY <3>5, <3>6, <3>8, <3>9 DEF Core
  <2> QED BY <2>1, <2>2
<1>2. CASE assert_create(r)
  <2>1. stage[r] = "asserting" /\ Kind(r) = "create"
    BY <1>2 DEF assert_create
  <2>2. UNCHANGED <<defends, inFlight, granting, watching, queue, used, fate, doubtful, sentGas>>
    BY <1>2 DEF assert_create, chainVars, history
  <2>3. CASE goto(r, "answered")
    BY <2>1, <2>2, <2>3, StepCore DEF Outcomes, Stages, Awaiting
  <2>4. CASE goto(r, "simulating")
    BY <2>1, <2>2, <2>4, StepCore DEF Outcomes, Stages, Awaiting
  <2> QED BY <1>2, <2>3, <2>4 DEF assert_create
<1>3. CASE assert_faucet(r)
  <2> DEFINE a == Account(r)
  <2>0. stage[r] = "asserting" /\ Kind(r) = "faucet" /\ "asserting" \notin Reserved /\ r \notin watching
    BY <1>3 DEF assert_faucet, Core, WatchingAnswered, Reserved
  <2>1. CASE ~chain[a].deployed \/ a \in funded \union granting
    <3>1. goto(r, "refused") /\ UNCHANGED <<inFlight, defends, granting, watching, queue, used, fate, doubtful, sentGas>>
      BY <1>3, <2>1 DEF assert_faucet, chainVars, history
    <3> QED
      BY <2>0, <3>1, StepCore DEF Outcomes, Stages, Awaiting, Reserved
  <2>2. CASE ~(~chain[a].deployed \/ a \in funded \union granting)
    <3>1. /\ goto(r, "treasury") /\ granting' = granting \union {a}
          /\ UNCHANGED <<defends, inFlight, watching, queue, used, fate, doubtful, sentGas>>
      BY <1>3, <2>2 DEF assert_faucet, chainVars, history
    <3>2. "treasury" \in Reserved
      BY DEF Reserved, Awaiting
    <3>3. stage' = [stage EXCEPT ![r] = "treasury"] /\ stage \in [Requests -> Stages]
      BY <3>1 DEF goto, TypeOK, ProcessType
    <3>4. GrantHolders' = GrantHolders \union {r} /\ AccountHolders' = AccountHolders
      BY <2>0, <3>1, <3>2, <3>3 DEF AccountHolders, GrantHolders, HoldsAccount, HoldsGrant
    <3>5. ReservationsOwned'
      BY <2>2, <3>1, <3>4, OwnedBoth, OwnedTake, OwnedNext DEF Core
    <3>6. WatchingAnswered'
      BY <2>0, <3>1, <3>3 DEF Core, WatchingAnswered, TypeOK, ProcessType
    <3>7. fate[r] # "pending"
      BY <2>0 DEF Core, PendingSent, Outcomes
    <3>8. PendingHolds' /\ PendingSent'
      BY <2>0, <3>1, <3>3, <3>7 DEF Core, PendingHolds, PendingSent, HoldsAccount
    <3>9. SendersHoldLock' /\ GasCounted'
      BY <3>1, <3>3 DEF Core, SendersHoldLock, Holder, GasCounted, Budgeted
    <3> QED
      BY <3>5, <3>6, <3>8, <3>9 DEF Core
  <2> QED BY <2>1, <2>2
<1> QED BY <1>1, <1>2, <1>3
LEMMA ReadCore ==
  ASSUME TypeOK, Core, NEW r \in Requests,
         read_treasury(r) \/ read_protections(r) \/ read_pending_ids(r) \/ read_policy(r)
  PROVE  Core'
<1>1. CASE read_treasury(r) /\ treasury > 0
  BY <1>1, StepCore DEF read_treasury, Outcomes, Stages, Awaiting, Reserved, chainVars, history
<1>2. CASE read_treasury(r) /\ ~(treasury > 0)
  <2>1. refuse(r) /\ stage[r] \in Reserved /\ stage[r] # "sent"
    BY <1>2 DEF read_treasury, Reserved, Awaiting
  <2>2. UNCHANGED <<defends, watching, used, fate, sentGas, doubtful>>
    BY <1>2 DEF read_treasury, chainVars, history
  <2> QED
    BY <2>1, <2>2, RefuseCore, BudgetKept
<1>3. CASE read_protections(r) \/ read_pending_ids(r) \/ read_policy(r)
  <2>1. PICK s \in {"simulating", "pendingIds", "policy"} : goto(r, s)
    BY <1>3 DEF read_protections, read_pending_ids, read_policy
  <2>2. /\ stage[r] \in {"protections", "pendingIds", "policy"}
        /\ UNCHANGED <<inFlight, granting, watching, queue, used, fate, doubtful, sentGas>>
    BY <1>3 DEF read_protections, read_pending_ids, read_policy, chainVars, history
  <2>3. \A q \in Requests \ {r} : defends'[q] = defends[q]
    BY <1>3 DEF read_protections, read_pending_ids, read_policy, TypeOK, ProcessType
  <2>4. s \in Stages \ {"sending", "sent"} /\ s \in Reserved /\ stage[r] \in Reserved /\ stage[r] \notin {"sent"} \union Outcomes
    BY <2>2 DEF Stages, Reserved, Awaiting, Outcomes
  <2> QED
    BY <2>1, <2>2, <2>3, <2>4, StepCore
<1> QED BY <1>1, <1>2, <1>3

LEMMA ArriveCore == ASSUME TypeOK, Core, NEW r \in Requests, arrive(r) PROVE Core'
<1>1. PICK s \in {"refused", "asserting"} : goto(r, s)
  BY DEF arrive
<1>2. used' \in [Budgets -> Nat] /\ used'[gas] >= used[gas]
  BY GasTaken, BudgetsListed DEF arrive
<1>3. stage[r] = "new" /\ UNCHANGED <<defends, inFlight, granting, watching, queue, fate, doubtful, sentGas>>
  BY DEF arrive, chainVars, history
<1> QED
  BY <1>1, <1>2, <1>3, MoveCore DEF Outcomes, Stages, Awaiting, Reserved, Holder

LEMMA SimulateCore == ASSUME TypeOK, Core, NEW r \in Requests, simulate(r) PROVE Core'
<1>1. UNCHANGED <<defends, watching, used, fate, doubtful, sentGas>> /\ stage[r] = "simulating"
  BY DEF simulate, chainVars, history
<1>2. CASE Valid(r)
  <2>1. Holder \subseteq Holder'
    BY <1>2 DEF simulate, Holder, TypeOK, ProcessType
  <2>2. goto(r, "queued") /\ UNCHANGED <<inFlight, granting>>
    BY <1>2 DEF simulate
  <2> QED
    BY <1>1, <2>1, <2>2, MoveCore, BudgetKept DEF Outcomes, Stages, Awaiting, Reserved
<1>3. CASE ~Valid(r)
  BY <1>1, <1>3, RefuseCore, BudgetKept DEF simulate, Reserved, Awaiting
<1> QED BY <1>2, <1>3

\* The one who holds the lock is the only one to send.
LEMMA OneSender ==
  ASSUME SendersHoldLock, NEW r \in Requests, r \in Holder
  PROVE  \A q \in Requests \ {r} : stage[q] \notin {"sending", "sent"}
  BY DEF SendersHoldLock, Holder

\* All but defences count their gas.
LEMMA GasListed ==
  ASSUME NEW r \in Requests, Budgeted(r)
  PROVE  \E i \in DOMAIN beforeSend(r) : beforeSend(r)[i] = gas
<1>1. CASE Kind(r) = "relay" /\ waived[r]
  BY <1>1 DEF beforeSend, Budgeted
<1>2. CASE Kind(r) = "relay" /\ ~waived[r]
  BY <1>2 DEF beforeSend, Budgeted
<1>3. CASE Kind(r) = "create"
  BY <1>3 DEF beforeSend
<1>4. CASE Kind(r) = "faucet"
  BY <1>4 DEF beforeSend
<1> QED
  BY <1>1, <1>2, <1>3, <1>4 DEF Kinds

LEMMA EstimateCore == ASSUME TypeOK, Core, NEW r \in Requests, estimate(r) PROVE Core'
<1>1. UNCHANGED <<defends, watching, fate, doubtful, sentGas>> /\ stage[r] = "queued" /\ r \in Holder
  BY DEF estimate, chainVars, history
<1>2. used' \in [Budgets -> Nat] /\ used'[gas] >= used[gas]
  <2>1. CASE Valid(r)
    BY <2>1, GasTaken, BudgetsListed DEF estimate
  <2>2. CASE ~Valid(r)
    BY <2>2, BudgetKept DEF estimate
  <2> QED BY <2>1, <2>2
<1>3. CASE ~Valid(r) \/ Refused(beforeSend(r))
  BY <1>1, <1>2, <1>3, RefuseCore DEF estimate, Reserved, Awaiting
<1>4. CASE Valid(r) /\ ~Refused(beforeSend(r))
  <2>1. goto(r, "sending") /\ UNCHANGED <<inFlight, granting, queue>> /\ take(beforeSend(r))
    BY <1>4 DEF estimate
  <2>2. stage' = [stage EXCEPT ![r] = "sending"] /\ stage \in [Requests -> Stages]
    BY <2>1 DEF goto, TypeOK, ProcessType
  <2>3. r \notin watching /\ fate[r] # "pending"
    BY <1>1 DEF Core, WatchingAnswered, PendingSent, Outcomes
  <2>4. ReservationsOwned'
    <3>1. AccountHolders' = AccountHolders /\ GrantHolders' = GrantHolders
      BY <1>1, <2>2, <2>3 DEF AccountHolders, GrantHolders, HoldsAccount, HoldsGrant, Reserved, Awaiting
    <3> QED
      BY <2>1, <3>1, OwnedBoth, OwnedNext DEF Core
  <2>5. WatchingAnswered' /\ PendingHolds' /\ PendingSent'
    BY <1>1, <2>2, <2>3 DEF Core, WatchingAnswered, PendingHolds, PendingSent, HoldsAccount, TypeOK, ProcessType
  <2>6. SendersHoldLock'
    BY <1>1, <2>1, <2>2 DEF Core, SendersHoldLock, Holder
  <2>7. GasCounted'
    <3>1. sentGas \in Nat /\ used[gas] \in Nat /\ used'[gas] \in Nat
      BY <1>2, LimitsAssumption DEF TypeOK, BudgetType, gas
    <3>2. Budgeted(r) => used'[gas] = used[gas] + 1
      <4>1. Budgeted(r) => gas \in Counted(beforeSend(r))
        <5> SUFFICES ASSUME Budgeted(r) PROVE gas \in Counted(beforeSend(r))
          OBVIOUS
        <5>1. PICK i \in DOMAIN beforeSend(r) : beforeSend(r)[i] = gas
          BY GasListed
        <5>2. 1..i \subseteq DOMAIN beforeSend(r)
          BY BudgetsListed
        <5> QED
          BY <1>4, <5>1, <5>2 DEF Refused, Counted
      <4> QED
        BY <2>1, <4>1, GasTaken, BudgetsListed
    <3> QED
      BY <1>1, <1>2, <2>2, <3>1, <3>2 DEF Core, GasCounted, Budgeted
  <2> QED
    BY <2>4, <2>5, <2>6, <2>7 DEF Core
<1> QED BY <1>3, <1>4

LEMMA BroadcastCore == ASSUME TypeOK, Core, NEW r \in Requests, broadcast(r) PROVE Core'
<1>1. /\ stage[r] = "sending" /\ stage' = [stage EXCEPT ![r] = "sent"] /\ stage \in [Requests -> Stages]
      /\ fate' = [fate EXCEPT ![r] = "pending"] /\ fate \in [Requests -> {"none", "pending", "mined", "reverted"}]
      /\ UNCHANGED <<defends, inFlight, granting, watching, queue, used, doubtful>>
  BY DEF broadcast, goto, TypeOK, ProcessType, ChainType
<1>2. r \notin watching
  BY <1>1 DEF Core, WatchingAnswered
<1>3. r \in Holder /\ \A q \in Requests \ {r} : stage[q] \notin {"sending", "sent"}
  BY <1>1, OneSender DEF Core, SendersHoldLock
<1>4. ReservationsOwned'
  <2>1. AccountHolders' = AccountHolders /\ GrantHolders' = GrantHolders
    BY <1>1, <1>2 DEF AccountHolders, GrantHolders, HoldsAccount, HoldsGrant, Reserved, Awaiting
  <2> QED
    BY <1>1, <2>1, OwnedBoth, OwnedNext DEF Core
<1>5. WatchingAnswered'
  BY <1>1, <1>2 DEF Core, WatchingAnswered, TypeOK, ProcessType
<1>6. PendingHolds' /\ PendingSent'
  BY <1>1 DEF Core, PendingHolds, PendingSent, HoldsAccount, Reserved, Awaiting
<1>7. SendersHoldLock'
  BY <1>1, <1>3 DEF Core, SendersHoldLock, Holder
<1>8. GasCounted'
  <2>1. sentGas \in Nat /\ used[gas] \in Nat
    BY LimitsAssumption DEF TypeOK, BudgetType, gas
  <2>2. sentGas' = IF Budgeted(r) THEN sentGas + 1 ELSE sentGas
    BY DEF broadcast, Budgeted
  <2> QED
    BY <1>1, <1>3, <2>1, <2>2 DEF Core, GasCounted, Budgeted
<1> QED
  BY <1>4, <1>5, <1>6, <1>7, <1>8 DEF Core
LEMMA ConfirmCore == ASSUME TypeOK, Core, NEW r \in Requests, confirm(r) PROVE Core'
<1>1. /\ stage[r] = "sent" /\ stage' = [stage EXCEPT ![r] = "answered"] /\ stage \in [Requests -> Stages]
      /\ unlock(r) /\ UNCHANGED <<defends, inFlight, fate, used, sentGas, doubtful>>
  BY DEF confirm, goto, TypeOK, ProcessType, chainVars, history
<1>2. r \notin watching /\ "sent" \in Reserved /\ "answered" \notin Reserved
  BY <1>1 DEF Core, WatchingAnswered, Reserved, Awaiting
<1>3. ReservationsOwned'
  <2>1. AccountHolders' = AccountHolders
    BY <1>1, <1>2 DEF confirm, AccountHolders, HoldsAccount
  <2>2. Owned(GrantHolders', granting')
    <3>1. CASE Kind(r) = "faucet"
      <4>1. r \in GrantHolders /\ GrantHolders' = GrantHolders \ {r} /\ granting' = granting \ {Account(r)}
        BY <1>1, <1>2, <3>1 DEF confirm, GrantHolders, HoldsGrant
      <4> QED
        BY <4>1, OwnedBoth, OwnedFree DEF Core
    <3>2. CASE Kind(r) # "faucet"
      <4>1. GrantHolders' = GrantHolders /\ granting' = granting
        BY <1>1, <3>2 DEF confirm, GrantHolders, HoldsGrant
      <4> QED
        BY <4>1, OwnedBoth DEF Core
    <3> QED BY <3>1, <3>2
  <2> QED
    BY <1>1, <2>1, <2>2, OwnedBoth, OwnedNext DEF Core
<1>4. WatchingAnswered'
  BY <1>1 DEF confirm, Core, WatchingAnswered, TypeOK, ProcessType
<1>5. PendingHolds' /\ PendingSent'
  BY <1>1, <1>2 DEF confirm, Core, PendingHolds, PendingSent, HoldsAccount, Outcomes
<1>6. SendersHoldLock'
  BY <1>1, UnlockHolders DEF Core
<1>7. GasCounted'
  BY <1>1 DEF Core, GasCounted, Budgeted
<1> QED
  BY <1>3, <1>4, <1>5, <1>6, <1>7 DEF Core

LEMMA FailCore ==
  ASSUME TypeOK, Core, NEW r \in Requests, lose(r) \/ confirm_unrecorded(r) \/ fail(r) \/ fail_early(r)
  PROVE  Core'
<1>1. CASE lose(r)
  BY <1>1, RefuseCore, BudgetKept DEF lose, Reserved, Awaiting, chainVars
<1>2. CASE confirm_unrecorded(r)
  <2>1. refuse(r) /\ stage[r] \in Reserved /\ Kind(r) = "faucet"
    BY <1>2 DEF confirm_unrecorded, Reserved, Awaiting
  <2>2. doubtful \subseteq doubtful' /\ UNCHANGED <<defends, watching, used, fate, sentGas>>
    BY <1>2 DEF confirm_unrecorded, chainVars
  <2> QED
    BY <2>1, <2>2, RefuseCore, BudgetKept
<1>3. CASE fail(r)
  <2>1. refuse(r) /\ stage[r] \in Reserved /\ stage[r] # "sent"
    BY <1>3 DEF fail, Reserved, Awaiting
  <2>2. UNCHANGED <<defends, watching, used, fate, sentGas, doubtful>>
    BY <1>3 DEF fail, chainVars, history
  <2> QED
    BY <2>1, <2>2, RefuseCore, BudgetKept
<1>4. CASE fail_early(r)
  <2>1. goto(r, "refused") /\ stage[r] = "asserting"
    BY <1>4 DEF fail_early
  <2>2. UNCHANGED <<defends, inFlight, granting, watching, queue, used, fate, doubtful, sentGas>>
    BY <1>4 DEF fail_early, chainVars, history
  <2> QED
    BY <2>1, <2>2, StepCore DEF Outcomes, Stages, Awaiting, Reserved
<1> QED BY <1>1, <1>2, <1>3, <1>4

\* The account is free after its receipt, or after the wait for it.
LEMMA WatchCore == ASSUME TypeOK, Core, NEW r \in Requests, watch(r) PROVE Core'
<1>1. /\ r \in watching /\ watching' = watching \ {r} /\ inFlight' = inFlight \ {Account(r)}
      /\ UNCHANGED <<stage, defends, granting, queue, used, fate, sentGas>>
      /\ doubtful \subseteq doubtful'
      /\ fate[r] = "pending" => Account(r) \in doubtful'
  BY DEF watch, settle, timeout, chainVars, history
<1>2. Kind(r) = "relay" /\ stage[r] \notin Reserved
  BY <1>1 DEF Core, WatchingAnswered, Reserved, Awaiting
<1>3. ReservationsOwned'
  <2>1. r \in AccountHolders /\ AccountHolders' = AccountHolders \ {r} /\ GrantHolders' = GrantHolders
    BY <1>1, <1>2 DEF AccountHolders, GrantHolders, HoldsAccount, HoldsGrant
  <2>2. Owned(AccountHolders', inFlight') /\ Owned(GrantHolders', granting')
    <3>1. Owned(AccountHolders, inFlight) /\ Owned(GrantHolders, granting)
      BY OwnedBoth DEF Core
    <3>2. Owned(AccountHolders \ {r}, inFlight \ {Account(r)})
      BY <2>1, <3>1, OwnedFree
    <3> QED
      BY <1>1, <2>1, <3>1, <3>2
  <2> QED
    BY <2>2, OwnedBoth, OwnedNext
<1>4. WatchingAnswered' /\ PendingHolds' /\ PendingSent'
  BY <1>1 DEF Core, WatchingAnswered, PendingHolds, PendingSent, HoldsAccount
<1>5. SendersHoldLock' /\ GasCounted'
  BY <1>1 DEF Core, SendersHoldLock, Holder, GasCounted, Budgeted
<1> QED
  BY <1>3, <1>4, <1>5 DEF Core

LEMMA WindowCore == ASSUME TypeOK, Core, NEW b \in Budgets, window_ends(b) PROVE Core'
<1>1. UNCHANGED <<stage, defends, inFlight, granting, watching, queue, fate, doubtful>>
  BY DEF window_ends, chainVars
<1>2. GasCounted'
  <2>1. CASE b = gas
    BY <1>1, <2>1 DEF window_ends, GasCounted, TypeOK, BudgetType
  <2>2. CASE b # gas
    BY <1>1, <2>2, LimitsAssumption DEF window_ends, Core, GasCounted, Budgeted, TypeOK, BudgetType, gas
  <2> QED BY <2>1, <2>2
<1>3. ReservationsOwned' /\ WatchingAnswered' /\ PendingHolds' /\ PendingSent' /\ SendersHoldLock'
  BY <1>1 DEF Core, ReservationsOwned, HoldsAccount, HoldsGrant, WatchingAnswered, PendingHolds, PendingSent,
              SendersHoldLock, Holder
<1> QED
  BY <1>2, <1>3 DEF Core

\* A restart forgets every reservation, and what was on its way is in doubt.
LEMMA RestartCore == ASSUME TypeOK, Core, restart PROVE Core'
<1>1. /\ stage' = [r \in Requests |-> IF stage[r] \in Awaiting THEN "dropped" ELSE stage[r]]
      /\ inFlight' = {} /\ granting' = {} /\ watching' = {}
      /\ used' = [b \in Budgets |-> 0] /\ sentGas' = 0 /\ fate' = fate
  BY DEF restart, chainVars
<1>2. \A r \in Requests : stage'[r] \notin Awaiting
  BY <1>1 DEF Awaiting
<1>3. \A r \in Requests : fate[r] = "pending" => Account(r) \in doubtful'
  BY DEF restart
<1>4. ReservationsOwned' /\ WatchingAnswered'
  BY <1>1, <1>2 DEF ReservationsOwned, HoldsAccount, HoldsGrant, WatchingAnswered, Reserved
<1>5. PendingHolds' /\ PendingSent'
  BY <1>1, <1>3 DEF Core, PendingHolds, PendingSent, Outcomes
<1>6. SendersHoldLock' /\ GasCounted'
  BY <1>1, <1>2, LimitsAssumption DEF SendersHoldLock, GasCounted, gas, Awaiting
<1> QED
  BY <1>4, <1>5, <1>6 DEF Core

LEMMA CoreStep == TypeOK /\ Core /\ [Next]_vars => Core'
<1> SUFFICES ASSUME TypeOK, Core, [Next]_vars PROVE Core'
  OBVIOUS
<1>1. CASE UNCHANGED vars
  BY <1>1, StillCore DEF vars, process, chainVars, history
<1>2. CASE \E r \in Requests : arrive(r) \/ serve(r) \/ watch(r)
  BY <1>2, ArriveCore, AssertCore, ReadCore, SimulateCore, EstimateCore, BroadcastCore, ConfirmCore, FailCore, WatchCore
  DEF serve
<1>3. CASE mine
  <2>1. UNCHANGED <<stage, defends, inFlight, granting, watching, queue, sentGas, used, doubtful>>
    BY <1>3 DEF mine, process
  <2>2. \A r \in Requests : fate'[r] = "pending" => fate[r] = "pending"
    BY <1>3 DEF mine, TypeOK, ChainType
  <2> QED
    BY <2>1, <2>2, StillCore
<1>4. CASE \E a \in Accounts, call \in Calls : outside(a, call)
  BY <1>4, StillCore DEF outside, process
<1>5. CASE \E b \in Budgets : window_ends(b)
  BY <1>5, WindowCore
<1>6. CASE restart
  BY <1>6, RestartCore
<1> QED
  BY <1>1, <1>2, <1>3, <1>4, <1>5, <1>6 DEF Next

(***************************************************************************)
(* What was sent.  Grants is inductive given Core, and says where a grant  *)
(* that was sent is remembered; Sound says that what was read before a     *)
(* call was sent is still true when it reaches the account.                *)
(***************************************************************************)

\* Before it sends, a request changes nothing but its own stage, reservations
\* and budgets, and reserves no grant that is remembered.
BeforeSending(r) ==
  \/ arrive(r) \/ assert_relay(r) \/ assert_create(r) \/ assert_faucet(r)
  \/ read_treasury(r) \/ read_protections(r) \/ read_pending_ids(r) \/ read_policy(r)
  \/ simulate(r) \/ estimate(r) \/ fail(r) \/ fail_early(r)

LEMMA BeforeSendingStage ==
  ASSUME NEW r \in Requests, BeforeSending(r)
  PROVE  /\ stage[r] \notin {"sent"} \union Outcomes
         /\ \E s : goto(r, s)
<1> USE DEF Awaiting, Outcomes
<1>1. CASE arrive(r) \/ assert_relay(r) \/ assert_create(r) \/ assert_faucet(r)
  BY <1>1 DEF arrive, assert_relay, assert_create, assert_faucet
<1>2. CASE read_treasury(r) \/ read_protections(r) \/ read_pending_ids(r) \/ read_policy(r)
  BY <1>2 DEF read_treasury, read_protections, read_pending_ids, read_policy, refuse
<1>3. CASE simulate(r) \/ estimate(r)
  BY <1>3 DEF simulate, estimate, refuse
<1>4. CASE fail(r) \/ fail_early(r)
  BY <1>4 DEF fail, fail_early, refuse
<1> QED
  BY <1>1, <1>2, <1>3, <1>4 DEF BeforeSending

LEMMA BeforeSendingKeeps ==
  ASSUME NEW r \in Requests, BeforeSending(r)
  PROVE  /\ UNCHANGED <<funded, faucetFile, chain, treasury, mempool, fate, grants>>
         /\ UNCHANGED <<stale, overtaken, useless, doubtful>>
         /\ granting' \subseteq granting \union ({Account(r)} \ funded)
<1>1. UNCHANGED <<funded, faucetFile, chainVars, history>>
  BY DEF BeforeSending, arrive, assert_relay, assert_create, assert_faucet, read_treasury, read_protections,
         read_pending_ids, read_policy, simulate, estimate, fail, fail_early
<1>2. refuse(r) => granting' \subseteq granting
  BY DEF refuse
<1>3. granting' \subseteq granting \union ({Account(r)} \ funded)
  <2>1. CASE assert_faucet(r)
    BY <2>1 DEF assert_faucet
  <2>2. CASE arrive(r) \/ assert_relay(r) \/ assert_create(r) \/ fail_early(r)
    BY <2>2 DEF arrive, assert_relay, assert_create, fail_early
  <2>3. CASE read_treasury(r) \/ read_protections(r) \/ read_pending_ids(r) \/ read_policy(r)
    BY <1>2, <2>3 DEF read_treasury, read_protections, read_pending_ids, read_policy
  <2>4. CASE simulate(r) \/ estimate(r) \/ fail(r)
    BY <1>2, <2>4 DEF simulate, estimate, fail
  <2> QED
    BY <2>1, <2>2, <2>3, <2>4 DEF BeforeSending
<1> QED
  BY <1>1, <1>3 DEF chainVars, history

LEMMA GrantsInit == Init => Grants
  BY DEF Init, Grants, MempoolPending, GrantRemembered, OneGrantSent, SentGrant

\* Grants holds after a step that sends nothing and mines nothing, if it loses
\* no grant unnoticed.
LEMMA GrantsKept ==
  ASSUME TypeOK, Grants, UNCHANGED <<mempool, fate, grants>>, doubtful \subseteq doubtful',
         \A r \in Requests : fate[r] # "none" => stage'[r] \in {"sent"} \union Outcomes,
         granting' \intersect funded' = {},
         (funded \intersect faucetFile) \ doubtful' \subseteq funded' \intersect faucetFile',
         \A r \in Requests :
           SentGrant(r) /\ stage[r] = "sent" /\ stage'[r] # "sent"
             => Account(r) \in (funded' \intersect faucetFile') \union doubtful'
  PROVE  Grants'
<1>1. MempoolPending'
  BY DEF Grants, MempoolPending
<1>2. \A r \in Requests : SentGrant(r)' <=> SentGrant(r)
  BY DEF SentGrant
<1>3. GrantRemembered'
  <2> SUFFICES ASSUME NEW r \in Requests, SentGrant(r), stage'[r] # "sent", Account(r) \notin doubtful'
               PROVE  Account(r) \in funded' \intersect faucetFile'
    BY <1>2 DEF GrantRemembered
  <2>1. CASE stage[r] = "sent"
    BY <2>1
  <2>2. CASE stage[r] # "sent"
    BY <2>2 DEF Grants, GrantRemembered
  <2> QED BY <2>1, <2>2
<1>4. OneGrantSent'
  <2>1. \A r, s \in Requests :
          SentGrant(r)' /\ SentGrant(s)' /\ Account(r) = Account(s) => r = s \/ Account(r) \in doubtful'
    BY <1>2 DEF Grants, OneGrantSent
  <2>2. ASSUME NEW a \in Accounts \ doubtful', grants'[a] > 0
        PROVE  grants'[a] = 1 /\ \E r \in Requests : SentGrant(r)' /\ Account(r) = a /\ fate'[r] = "mined"
    <3>1. a \in Accounts \ doubtful /\ grants[a] > 0
      BY <2>2
    <3>2. grants[a] = 1 /\ \E r \in Requests : SentGrant(r) /\ Account(r) = a /\ fate[r] = "mined"
      BY <3>1 DEF Grants, OneGrantSent
    <3> QED
      BY <1>2, <3>2
  <2> QED
    BY <2>1, <2>2 DEF OneGrantSent
<1> QED
  BY <1>1, <1>3, <1>4 DEF Grants

LEMMA BeforeSendingGrants ==
  ASSUME TypeOK, Grants, NEW r \in Requests, BeforeSending(r)
  PROVE  Grants'
<1>1. PICK s : stage' = [stage EXCEPT ![r] = s]
  BY BeforeSendingStage DEF goto
<1>2. stage \in [Requests -> Stages]
  BY DEF TypeOK, ProcessType
<1>3. fate[r] = "none"
  BY BeforeSendingStage DEF Grants, MempoolPending
<1>4. \A q \in Requests \ {r} : stage'[q] = stage[q]
  BY <1>1, <1>2
<1>5. \A q \in Requests : fate[q] # "none" => stage'[q] \in {"sent"} \union Outcomes
  BY <1>3, <1>4 DEF Grants, MempoolPending
<1>6. granting' \intersect funded' = {}
  BY BeforeSendingKeeps DEF Grants, GrantRemembered
<1> QED
  BY <1>3, <1>4, <1>5, <1>6, BeforeSendingKeeps, GrantsKept DEF SentGrant

\* The only grant sent for an account is the one its request holds.
LEMMA BroadcastGrants ==
  ASSUME TypeOK, Core, Grants, NEW r \in Requests, broadcast(r)
  PROVE  Grants'
<1>1. /\ stage[r] = "sending" /\ stage' = [stage EXCEPT ![r] = "sent"] /\ stage \in [Requests -> Stages]
      /\ fate' = [fate EXCEPT ![r] = "pending"] /\ fate \in [Requests -> {"none", "pending", "mined", "reverted"}]
      /\ mempool' = Append(mempool, r) /\ mempool \in Seq(Requests)
      /\ UNCHANGED <<granting, funded, faucetFile, grants, doubtful>>
  BY DEF broadcast, goto, TypeOK, ProcessType, ChainType
<1>2. fate[r] = "none"
  BY <1>1 DEF Grants, MempoolPending, Outcomes
<1>3. MempoolPending'
  <2>1. Len(mempool') = Len(mempool) + 1 /\ Len(mempool) \in Nat
    BY <1>1
  <2>2. \A i \in 1..Len(mempool) : mempool'[i] = mempool[i] /\ mempool[i] \in Requests \ {r}
    BY <1>1, <1>2 DEF Grants, MempoolPending
  <2>3. mempool'[Len(mempool) + 1] = r
    BY <1>1
  <2>4. \A i \in 1..Len(mempool') : i \in 1..Len(mempool) \/ i = Len(mempool) + 1
    BY <2>1
  <2>5. \A i \in 1..Len(mempool') : fate'[mempool'[i]] = "pending"
    BY <1>1, <2>2, <2>3, <2>4 DEF Grants, MempoolPending
  <2>6. \A i, j \in 1..Len(mempool') : mempool'[i] = mempool'[j] => i = j
    BY <2>2, <2>3, <2>4 DEF Grants, MempoolPending
  <2>7. \A q \in Requests : fate'[q] # "none" => stage'[q] \in {"sent"} \union Outcomes
    BY <1>1 DEF Grants, MempoolPending
  <2> QED
    BY <2>5, <2>6, <2>7 DEF MempoolPending
<1>4. GrantRemembered'
  BY <1>1 DEF Grants, GrantRemembered, SentGrant
<1>5. ASSUME NEW s \in Requests, s # r, SentGrant(s), Kind(r) = "faucet", Account(s) = Account(r),
             Account(r) \notin doubtful
      PROVE  FALSE
  <2>1. HoldsGrant(r)
    BY <1>1, <1>5 DEF HoldsGrant, Reserved, Awaiting
  <2>2. Account(r) \in granting
    BY <2>1 DEF Core, ReservationsOwned
  <2>3. stage[s] = "sent"
    BY <1>5, <2>2 DEF Grants, GrantRemembered
  <2>4. HoldsGrant(s)
    BY <1>5, <2>3 DEF HoldsGrant, SentGrant, Reserved, Awaiting
  <2> QED
    BY <1>5, <2>1, <2>4 DEF Core, ReservationsOwned
<1>6. OneGrantSent'
  <2>1. \A q \in Requests : SentGrant(q)' <=> SentGrant(q) \/ (q = r /\ Kind(r) = "faucet")
    BY <1>1, <1>2 DEF SentGrant
  <2>2. \A q, s \in Requests :
          SentGrant(q)' /\ SentGrant(s)' /\ Account(q) = Account(s) => q = s \/ Account(q) \in doubtful'
    BY <1>1, <1>5, <2>1 DEF Grants, OneGrantSent
  <2>3. ASSUME NEW a \in Accounts \ doubtful', grants'[a] > 0
        PROVE  grants'[a] = 1 /\ \E q \in Requests : SentGrant(q)' /\ Account(q) = a /\ fate'[q] = "mined"
    <3>1. grants[a] = 1 /\ \E q \in Requests : SentGrant(q) /\ Account(q) = a /\ fate[q] = "mined"
      BY <1>1, <2>3 DEF Grants, OneGrantSent
    <3> QED
      BY <1>1, <1>2, <2>1, <3>1
  <2> QED
    BY <2>2, <2>3 DEF OneGrantSent
<1> QED
  BY <1>3, <1>4, <1>6 DEF Grants

LEMMA MineGrants == ASSUME TypeOK, Grants, mine PROVE Grants'
<1> DEFINE r == Head(mempool)
           a == Account(r)
<1>1. /\ mempool \in Seq(Requests) /\ mempool # <<>> /\ mempool' = Tail(mempool)
      /\ fate \in [Requests -> {"none", "pending", "mined", "reverted"}] /\ grants \in [Accounts -> Nat]
      /\ UNCHANGED <<stage, granting, funded, faucetFile, doubtful>>
  BY DEF mine, process, TypeOK, ChainType, HistoryType
<1>2. /\ r \in Requests /\ r = mempool[1] /\ 1 \in 1..Len(mempool) /\ a \in Accounts
      /\ Len(mempool') = Len(mempool) - 1
      /\ \A i \in 1..Len(mempool') : i + 1 \in 1..Len(mempool) /\ mempool'[i] = mempool[i + 1]
  BY <1>1
<1>3. fate[r] = "pending"
  BY <1>2 DEF Grants, MempoolPending
<1>4. \E end \in {"mined", "reverted"} : fate' = [fate EXCEPT ![r] = end]
  BY DEF mine
<1>5. MempoolPending'
  <2>1. \A i \in 1..Len(mempool') : mempool[i + 1] # r
    <3> SUFFICES ASSUME NEW i \in 1..Len(mempool'), mempool[i + 1] = r
                 PROVE  FALSE
      OBVIOUS
    <3>1. i + 1 = 1
      BY <1>2 DEF Grants, MempoolPending
    <3> QED
      BY <3>1
  <2>2. \A i \in 1..Len(mempool') : fate'[mempool'[i]] = "pending"
    <3> SUFFICES ASSUME NEW i \in 1..Len(mempool')
                 PROVE  fate'[mempool'[i]] = "pending"
      OBVIOUS
    <3>1. mempool'[i] = mempool[i + 1] /\ mempool[i + 1] # r /\ mempool[i + 1] \in Requests
      BY <1>1, <1>2, <2>1
    <3>2. fate[mempool[i + 1]] = "pending"
      BY <1>2 DEF Grants, MempoolPending
    <3> QED
      BY <1>1, <1>4, <3>1, <3>2
  <2>3. \A i, j \in 1..Len(mempool') : mempool'[i] = mempool'[j] => i = j
    <3> SUFFICES ASSUME NEW i \in 1..Len(mempool'), NEW j \in 1..Len(mempool'), mempool'[i] = mempool'[j]
                 PROVE  i = j
      OBVIOUS
    <3>1. mempool[i + 1] = mempool[j + 1] /\ i + 1 \in 1..Len(mempool) /\ j + 1 \in 1..Len(mempool)
      BY <1>2
    <3>2. i + 1 = j + 1
      BY <3>1 DEF Grants, MempoolPending
    <3> QED
      BY <3>2
  <2>4. \A q \in Requests : fate'[q] # "none" => stage'[q] \in {"sent"} \union Outcomes
    BY <1>1, <1>3, <1>4 DEF Grants, MempoolPending
  <2> QED
    BY <2>2, <2>3, <2>4 DEF MempoolPending
<1>6. \A q \in Requests : SentGrant(q)' <=> SentGrant(q)
  BY <1>1, <1>3, <1>4 DEF SentGrant
<1>7. GrantRemembered'
  BY <1>1, <1>6 DEF Grants, GrantRemembered
<1>8. OneGrantSent'
  <2>1. \A q, s \in Requests :
          SentGrant(q)' /\ SentGrant(s)' /\ Account(q) = Account(s) => q = s \/ Account(q) \in doubtful'
    BY <1>1, <1>6 DEF Grants, OneGrantSent
  <2>2. ASSUME NEW b \in Accounts \ doubtful', grants'[b] > 0
        PROVE  grants'[b] = 1 /\ \E q \in Requests : SentGrant(q)' /\ Account(q) = b /\ fate'[q] = "mined"
    <3>1. CASE Kind(r) = "faucet" /\ Valid(r) /\ b = a
      <4>1. fate'[r] = "mined" /\ SentGrant(r) /\ grants' = [grants EXCEPT ![a] = @ + 1]
        BY <1>1, <1>2, <1>3, <3>1 DEF mine, SentGrant
      <4>2. grants[b] = 0
        <5>1. ASSUME grants[b] > 0 PROVE FALSE
          <6>1. PICK q \in Requests : SentGrant(q) /\ Account(q) = b /\ fate[q] = "mined"
            BY <1>1, <2>2, <5>1 DEF Grants, OneGrantSent
          <6>2. q # r
            BY <1>3, <6>1
          <6> QED
            BY <1>1, <1>2, <2>2, <3>1, <4>1, <6>1, <6>2 DEF Grants, OneGrantSent
        <5> QED
          BY <1>1, <2>2, <5>1
      <4>3. grants'[b] = 1
        BY <1>1, <1>2, <3>1, <4>1, <4>2
      <4> QED
        BY <1>2, <1>6, <3>1, <4>1, <4>3
    <3>2. CASE ~(Kind(r) = "faucet" /\ Valid(r) /\ b = a)
      <4>1. grants'[b] = grants[b]
        BY <1>1, <3>2 DEF mine
      <4>2. grants[b] = 1 /\ \E q \in Requests : SentGrant(q) /\ Account(q) = b /\ fate[q] = "mined"
        BY <1>1, <2>2, <4>1 DEF Grants, OneGrantSent
      <4> QED
        BY <1>1, <1>3, <1>4, <1>6, <4>1, <4>2
    <3> QED BY <3>1, <3>2
  <2> QED
    BY <2>1, <2>2 DEF OneGrantSent
<1> QED
  BY <1>5, <1>7, <1>8 DEF Grants

\* The end of a request that has sent: its grant is remembered and recorded,
\* or in doubt.
LEMMA SentGrants ==
  ASSUME TypeOK, Core, Grants, NEW r \in Requests, confirm(r) \/ lose(r) \/ confirm_unrecorded(r)
  PROVE  Grants'
<1>1. /\ stage[r] = "sent" /\ stage \in [Requests -> Stages]
      /\ \E s \in Outcomes : stage' = [stage EXCEPT ![r] = s]
      /\ UNCHANGED <<mempool, fate, grants>> /\ doubtful \subseteq doubtful'
  BY DEF confirm, lose, confirm_unrecorded, refuse, goto, TypeOK, ProcessType, chainVars, history, Outcomes
<1>2. \A q \in Requests : fate[q] # "none" => stage'[q] \in {"sent"} \union Outcomes
  BY <1>1 DEF Grants, MempoolPending
<1>3. /\ Kind(r) = "faucet" /\ ~lose(r) => granting' = granting \ {Account(r)} /\ funded' = funded \union {Account(r)}
      /\ Kind(r) # "faucet" \/ lose(r) => granting' \subseteq granting /\ funded' = funded
  BY DEF confirm, lose, confirm_unrecorded, refuse
<1>4. granting' \intersect funded' = {}
  BY <1>3 DEF Grants, GrantRemembered
<1>5. (funded \intersect faucetFile) \ doubtful' \subseteq funded' \intersect faucetFile'
  BY DEF confirm, lose, confirm_unrecorded
<1>6. Kind(r) = "faucet" => Account(r) \in (funded' \intersect faucetFile') \union doubtful'
  BY DEF confirm, lose, confirm_unrecorded
<1> QED
  BY <1>1, <1>2, <1>4, <1>5, <1>6, GrantsKept DEF SentGrant

LEMMA RestartGrants == ASSUME TypeOK, Grants, restart PROVE Grants'
<1>1. /\ stage \in [Requests -> Stages] /\ granting' = {} /\ funded' = faucetFile'
      /\ stage' = [q \in Requests |-> IF stage[q] \in Awaiting THEN "dropped" ELSE stage[q]]
      /\ UNCHANGED <<mempool, fate, grants>>
      /\ doubtful \subseteq doubtful' /\ faucetFile \ faucetFile' \subseteq doubtful'
      /\ \A q \in Requests : stage[q] = "sent" => Account(q) \in doubtful'
  BY DEF restart, TypeOK, ProcessType, chainVars
<1>2. \A q \in Requests : fate[q] # "none" => stage'[q] \in {"sent"} \union Outcomes
  BY <1>1 DEF Grants, MempoolPending, Outcomes
<1> QED
  BY <1>1, <1>2, GrantsKept

LEMMA GrantsStep == TypeOK /\ Core /\ Grants /\ [Next]_vars => Grants'
<1> SUFFICES ASSUME TypeOK, Core, Grants, [Next]_vars PROVE Grants'
  OBVIOUS
<1>1. ASSUME UNCHANGED <<stage, granting, funded, faucetFile, mempool, fate, grants>>, doubtful \subseteq doubtful'
      PROVE  Grants'
  <2>1. \A r \in Requests : fate[r] # "none" => stage'[r] \in {"sent"} \union Outcomes
    BY <1>1 DEF Grants, MempoolPending
  <2>2. granting' \intersect funded' = {}
    BY <1>1 DEF Grants, GrantRemembered
  <2> QED
    BY <1>1, <2>1, <2>2, GrantsKept
<1>2. CASE UNCHANGED vars
  BY <1>1, <1>2 DEF vars, process, chainVars, history
<1>3. CASE \E r \in Requests : arrive(r) \/ serve(r)
  BY <1>3, BeforeSendingGrants, BroadcastGrants, SentGrants DEF serve, BeforeSending
<1>4. CASE \E r \in Requests : watch(r)
  BY <1>1, <1>4 DEF watch, settle, timeout, chainVars, history
<1>5. CASE mine
  BY <1>5, MineGrants
<1>6. CASE \E a \in Accounts, call \in Calls : outside(a, call)
  BY <1>1, <1>6 DEF outside, process
<1>7. CASE \E b \in Budgets : window_ends(b)
  BY <1>1, <1>7 DEF window_ends, chainVars
<1>8. CASE restart
  BY <1>8, RestartGrants
<1> QED
  BY <1>2, <1>3, <1>4, <1>5, <1>6, <1>7, <1>8 DEF Next

LEMMA SoundInit == Init => Sound
  BY DEF Init, Sound, SoundWhenSent, WastedOnlyByOthers, FreeRidesDefend, Deciding, Reserved, Awaiting

\* Request r waits to be mined, or is decided and not sent yet.
Judged(r) == stage[r] = "sending" \/ fate[r] = "pending"
Defending(r) == defends[r] /\ (stage[r] \in Deciding \/ fate[r] = "pending")

\* Sound holds after a step that leaves the accounts alone, if what it newly
\* judges was just read.
LEMMA SoundKept ==
  ASSUME Sound, UNCHANGED <<chain, stale, overtaken, useless>>, doubtful \subseteq doubtful',
         \A q \in Requests : fate'[q] = "reverted" => fate[q] = "reverted",
         \A q \in Requests : Kind(q) = "relay" /\ Judged(q)' => Judged(q) \/ Valid(q),
         \A q \in Requests : Kind(q) = "relay" /\ Defending(q)' => Defending(q) \/ Undoes(Account(q), Call(q))
  PROVE  Sound'
<1>1. \A q \in Requests : Kind(q) = "relay" => (Valid(q)' <=> Valid(q))
  BY DEF Valid, Succeeds
<1>2. \A q \in Requests : Undoes(Account(q), Call(q))' <=> Undoes(Account(q), Call(q))
  BY DEF Undoes
<1>3. SoundWhenSent'
  <2> SUFFICES ASSUME NEW q \in Requests, Kind(q) = "relay", Account(q) \notin doubtful'
               PROVE  /\ Judged(q)' => Valid(q)' \/ q \in overtaken'
                      /\ Defending(q)' => Undoes(Account(q), Call(q))' \/ q \in stale'
    BY DEF SoundWhenSent, Judged, Defending
  <2>1. /\ Judged(q) => Valid(q) \/ q \in overtaken
        /\ Defending(q) => Undoes(Account(q), Call(q)) \/ q \in stale
    BY DEF Sound, SoundWhenSent, Judged, Defending
  <2> QED
    BY <1>1, <1>2, <2>1
<1>4. WastedOnlyByOthers' /\ FreeRidesDefend'
  BY DEF Sound, WastedOnlyByOthers, FreeRidesDefend
<1> QED
  BY <1>3, <1>4 DEF Sound

LEMMA BeforeSendingSound ==
  ASSUME TypeOK, Grants, Sound, NEW r \in Requests, BeforeSending(r)
  PROVE  Sound'
<1>1. /\ stage \in [Requests -> Stages] /\ defends \in [Requests -> BOOLEAN]
      /\ \E s : stage' = [stage EXCEPT ![r] = s]
      /\ UNCHANGED <<chain, fate, stale, overtaken, useless, doubtful>>
  BY BeforeSendingStage, BeforeSendingKeeps DEF goto, TypeOK, ProcessType
<1>2. fate[r] = "none"
  BY BeforeSendingStage DEF Grants, MempoolPending
<1>3. \A q \in Requests \ {r} : stage'[q] = stage[q]
  BY <1>1
<1>4. \A q \in Requests \ {r} : defends'[q] = defends[q]
  BY <1>1 DEF BeforeSending, arrive, assert_relay, assert_create, assert_faucet, read_treasury, read_protections,
              read_pending_ids, read_policy, simulate, estimate, fail, fail_early
<1>5. Judged(r)' => Judged(r) \/ Valid(r)
  <2> SUFFICES ASSUME stage'[r] = "sending" PROVE Valid(r)
    BY <1>1, <1>2 DEF Judged
  <2>1. CASE estimate(r)
    BY <1>1, <2>1 DEF estimate, refuse, goto
  <2>2. CASE arrive(r) \/ assert_relay(r) \/ assert_create(r) \/ assert_faucet(r) \/ fail(r) \/ fail_early(r)
    BY <1>1, <2>2 DEF arrive, assert_relay, assert_create, assert_faucet, fail, fail_early, refuse, goto, FirstRead
  <2>3. CASE read_treasury(r) \/ read_protections(r) \/ read_pending_ids(r) \/ read_policy(r) \/ simulate(r)
    BY <1>1, <2>3 DEF read_treasury, read_protections, read_pending_ids, read_policy, simulate, refuse, goto
  <2> QED
    BY <2>1, <2>2, <2>3 DEF BeforeSending
<1>6. Kind(r) = "relay" /\ Defending(r)' => Defending(r) \/ Undoes(Account(r), Call(r))
  <2> SUFFICES ASSUME Kind(r) = "relay", defends'[r], stage'[r] \in Deciding
               PROVE  Defending(r) \/ Undoes(Account(r), Call(r))
    BY <1>1, <1>2 DEF Defending
  <2> USE DEF Deciding, Reserved, Awaiting
  <2>1. CASE assert_relay(r)
    BY <1>1, <2>1 DEF assert_relay, goto, Undoes
  <2>2. CASE read_protections(r)
    BY <1>1, <2>2 DEF read_protections, Undoes
  <2>3. CASE read_pending_ids(r)
    BY <1>1, <2>3 DEF read_pending_ids, Undoes
  <2>4. CASE arrive(r) \/ assert_create(r) \/ assert_faucet(r) \/ fail_early(r)
    BY <1>1, <2>4 DEF arrive, assert_create, assert_faucet, fail_early, goto
  <2>5. CASE read_treasury(r) \/ read_policy(r) \/ simulate(r) \/ estimate(r)
    BY <2>5 DEF read_treasury, read_policy, simulate, estimate, Defending
  <2>6. CASE fail(r)
    BY <1>1, <2>6 DEF fail, refuse, goto
  <2> QED
    BY <2>1, <2>2, <2>3, <2>4, <2>5, <2>6 DEF BeforeSending
<1>7. \A q \in Requests : Kind(q) = "relay" /\ Judged(q)' => Judged(q) \/ Valid(q)
  BY <1>1, <1>3, <1>5 DEF Judged
<1>8. \A q \in Requests : Kind(q) = "relay" /\ Defending(q)' => Defending(q) \/ Undoes(Account(q), Call(q))
  BY <1>1, <1>3, <1>4, <1>6 DEF Defending
<1> QED
  BY <1>1, <1>7, <1>8, SoundKept

LEMMA SendingSound ==
  ASSUME TypeOK, Sound, NEW r \in Requests, broadcast(r) \/ confirm(r) \/ lose(r) \/ confirm_unrecorded(r)
  PROVE  Sound'
<1>1. /\ UNCHANGED <<defends, chain, stale, overtaken, useless>> /\ doubtful \subseteq doubtful'
      /\ stage \in [Requests -> Stages]
      /\ \E s \in {"sent"} \union Outcomes : stage' = [stage EXCEPT ![r] = s]
  BY DEF broadcast, confirm, lose, confirm_unrecorded, refuse, goto, TypeOK, ProcessType, chainVars, history, Outcomes
<1>2. fate' = fate \/ (stage[r] = "sending" /\ fate' = [fate EXCEPT ![r] = "pending"])
  BY DEF broadcast, confirm, lose, confirm_unrecorded, chainVars
<1>3. fate \in [Requests -> {"none", "pending", "mined", "reverted"}]
  BY DEF TypeOK, ChainType
<1>4. \A q \in Requests : Judged(q)' => Judged(q)
  BY <1>1, <1>2, <1>3 DEF Judged, Outcomes
<1>5. \A q \in Requests : Defending(q)' => Defending(q)
  BY <1>1, <1>2, <1>3 DEF Defending, Deciding, Reserved, Awaiting, Outcomes
<1>6. \A q \in Requests : fate'[q] = "reverted" => fate[q] = "reverted"
  BY <1>2, <1>3
<1> QED
  BY <1>1, <1>4, <1>5, <1>6, SoundKept

\* A relayed call judged holds its account: in outside() it is noticed, and in
\* mine() no other call of the account is mined.
LEMMA JudgedHolds ==
  ASSUME Core, NEW r \in Requests, Kind(r) = "relay", Account(r) \notin doubtful,
         stage[r] \in Deciding \/ fate[r] = "pending"
  PROVE  HoldsAccount(r) /\ stage[r] \in Reserved \union {"answered"}
         /\ (fate[r] = "pending" => stage[r] \in {"sent", "answered"})
<1>1. HoldsAccount(r)
  BY DEF Core, PendingHolds, HoldsAccount, Deciding
<1>2. stage[r] \in Reserved \/ stage[r] = "answered"
  BY <1>1 DEF Core, WatchingAnswered, HoldsAccount
<1>3. fate[r] = "pending" => stage[r] \in {"sent", "answered"}
  BY <1>2 DEF Core, PendingSent, Outcomes, Reserved, Awaiting
<1> QED
  BY <1>1, <1>2, <1>3

LEMMA JudgedDeciding == \A r \in Requests : stage[r] = "sending" => stage[r] \in Deciding
  BY DEF Deciding, Reserved, Awaiting

LEMMA OutsideSound ==
  ASSUME TypeOK, Core, Sound, NEW a \in Accounts, NEW call \in Calls, outside(a, call)
  PROVE  Sound'
<1>1. /\ chain \in [Accounts -> [deployed : BOOLEAN, nonce : Nat, frozen : BOOLEAN, pending : 0..MAX_PENDING, spent : 0..DailyCap]]
      /\ chain' = [chain EXCEPT ![a] = After(@, call)]
      /\ stale' = stale \union {q \in Requests : Account(q) = a /\ stage[q] \in Reserved \union {"answered"}}
      /\ overtaken' = overtaken \union {q \in Requests : Account(q) = a /\ stage[q] \in {"sending", "sent", "answered"}}
      /\ UNCHANGED <<stage, defends, fate, useless, doubtful>>
  BY DEF outside, process, TypeOK, ChainType
<1>2. SoundWhenSent'
  <2> SUFFICES ASSUME NEW q \in Requests, Kind(q) = "relay", Account(q) \notin doubtful
               PROVE  /\ Judged(q) => Valid(q)' \/ q \in overtaken'
                      /\ Defending(q) => Undoes(Account(q), Call(q))' \/ q \in stale'
    BY <1>1 DEF SoundWhenSent, Judged, Defending
  <2>1. CASE Account(q) = a
    BY <1>1, <2>1, JudgedHolds, JudgedDeciding DEF Judged, Defending
  <2>2. CASE Account(q) # a
    <3>1. chain'[Account(q)] = chain[Account(q)]
      BY <1>1, <2>2
    <3>2. (Valid(q) => Valid(q)') /\ (Undoes(Account(q), Call(q)) => Undoes(Account(q), Call(q))')
      BY <3>1 DEF Valid, Succeeds, Undoes
    <3> QED
      BY <1>1, <3>2 DEF Sound, SoundWhenSent, Judged, Defending
  <2> QED BY <2>1, <2>2
<1>3. WastedOnlyByOthers' /\ FreeRidesDefend'
  BY <1>1 DEF Sound, WastedOnlyByOthers, FreeRidesDefend
<1> QED
  BY <1>2, <1>3 DEF Sound

LEMMA MineSound == ASSUME TypeOK, Core, Grants, Sound, mine PROVE Sound'
<1> DEFINE r == Head(mempool)
           a == Account(r)
<1>1. /\ r \in Requests /\ r = mempool[1] /\ 1 \in 1..Len(mempool) /\ a \in Accounts
      /\ fate \in [Requests -> {"none", "pending", "mined", "reverted"}]
      /\ chain \in [Accounts -> [deployed : BOOLEAN, nonce : Nat, frozen : BOOLEAN, pending : 0..MAX_PENDING, spent : 0..DailyCap]]
      /\ UNCHANGED <<stage, defends, stale, doubtful>> /\ overtaken \subseteq overtaken'
  BY DEF mine, process, TypeOK, ChainType
<1>2. fate[r] = "pending" /\ stage[r] \in {"sent"} \union Outcomes
  BY <1>1 DEF Grants, MempoolPending
<1>3. /\ fate' = [fate EXCEPT ![r] = IF Valid(r) THEN "mined" ELSE "reverted"]
      /\ chain' = IF Valid(r) THEN Landed(r) ELSE chain
      /\ useless' = IF Kind(r) = "relay" /\ defends[r] /\ Valid(r) /\ ~Undoes(a, Call(r)) THEN useless \union {r} ELSE useless
  BY DEF mine
<1>4. SoundWhenSent'
  <2> SUFFICES ASSUME NEW q \in Requests, Kind(q) = "relay", Account(q) \notin doubtful
               PROVE  /\ Judged(q)' => Valid(q)' \/ q \in overtaken
                      /\ Defending(q)' => Undoes(Account(q), Call(q))' \/ q \in stale
    BY <1>1 DEF SoundWhenSent, Judged, Defending
  <2>1. q # r => (Judged(q)' => Judged(q)) /\ (Defending(q)' => Defending(q))
    BY <1>1, <1>3 DEF Judged, Defending
  <2>2. CASE q = r
    <3>1. fate'[r] # "pending" /\ stage'[r] # "sending" /\ stage'[r] \notin Deciding
      BY <1>1, <1>2, <1>3 DEF Deciding, Reserved, Awaiting, Outcomes
    <3> QED
      BY <2>2, <3>1 DEF Judged, Defending
  <2>3. CASE q # r /\ (Judged(q) \/ Defending(q))
    <3>1. HoldsAccount(q)
      BY <2>3, JudgedHolds, JudgedDeciding DEF Judged, Defending
    <3>2. Kind(r) = "relay" => Account(q) # a
      <4> SUFFICES ASSUME Kind(r) = "relay", Account(q) = a PROVE FALSE
        OBVIOUS
      <4>1. HoldsAccount(r)
        BY <1>1, <1>2 DEF Core, PendingHolds
      <4> QED
        BY <1>1, <2>3, <3>1, <4>1 DEF Core, ReservationsOwned
    <3>3. /\ chain[Account(q)].deployed => chain'[Account(q)] = chain[Account(q)]
          /\ chain'[Account(q)].frozen = chain[Account(q)].frozen /\ chain'[Account(q)].pending = chain[Account(q)].pending
      BY <1>1, <1>3, <3>2 DEF Landed
    <3>4. (Valid(q) => Valid(q)') /\ (Undoes(Account(q), Call(q)) => Undoes(Account(q), Call(q))')
      BY <3>3 DEF Valid, Succeeds, Undoes
    <3> QED
      BY <2>1, <2>3, <3>4 DEF Sound, SoundWhenSent, Judged, Defending
  <2> QED
    BY <2>1, <2>2, <2>3
<1>5. Kind(r) = "relay" /\ Account(r) \notin doubtful =>
        (Valid(r) \/ r \in overtaken) /\ (defends[r] => Undoes(a, Call(r)) \/ r \in stale)
  BY <1>1, <1>2 DEF Sound, SoundWhenSent
<1>6. WastedOnlyByOthers'
  BY <1>1, <1>3, <1>5 DEF Sound, WastedOnlyByOthers
<1>7. FreeRidesDefend'
  BY <1>1, <1>3, <1>5 DEF Sound, FreeRidesDefend
<1> QED
  BY <1>4, <1>6, <1>7 DEF Sound

LEMMA SoundStep == TypeOK /\ Core /\ Grants /\ Sound /\ [Next]_vars => Sound'
<1> SUFFICES ASSUME TypeOK, Core, Grants, Sound, [Next]_vars PROVE Sound'
  OBVIOUS
<1>1. ASSUME UNCHANGED <<defends, chain, fate, stale, overtaken, useless>>, doubtful \subseteq doubtful',
             \A q \in Requests : stage'[q] = stage[q] \/ stage'[q] \in Outcomes
      PROVE  Sound'
  <2>1. \A q \in Requests : (Judged(q)' => Judged(q)) /\ (Defending(q)' => Defending(q))
    BY <1>1 DEF Judged, Defending, Deciding, Reserved, Awaiting, Outcomes
  <2> QED
    BY <1>1, <2>1, SoundKept
<1>2. CASE UNCHANGED vars
  BY <1>1, <1>2 DEF vars, process, chainVars, history
<1>3. CASE \E r \in Requests : arrive(r) \/ serve(r)
  BY <1>3, BeforeSendingSound, SendingSound DEF serve, BeforeSending
<1>4. CASE \E r \in Requests : watch(r)
  BY <1>1, <1>4 DEF watch, settle, timeout, chainVars, history
<1>5. CASE mine
  BY <1>5, MineSound
<1>6. CASE \E a \in Accounts, call \in Calls : outside(a, call)
  BY <1>6, OutsideSound
<1>7. CASE \E b \in Budgets : window_ends(b)
  BY <1>1, <1>7 DEF window_ends, chainVars
<1>8. CASE restart
  BY <1>1, <1>8 DEF restart, chainVars, Outcomes
<1> QED
  BY <1>2, <1>3, <1>4, <1>5, <1>6, <1>7, <1>8 DEF Next

(***************************************************************************)
(* The send lock.                                                          *)
(***************************************************************************)
LEMMA LockInit == Init => LockOwned
  BY DEF Init, LockOwned, Queued

\* A step that leaves the queue alone and nobody's claim to it changed.
LEMMA LockKept ==
  ASSUME LockOwned, UNCHANGED queue, \A q \in Requests : Queued(q)' <=> Queued(q)
  PROVE  LockOwned'
  BY DEF LockOwned

\* A request joins the queue.
LEMMA LockJoined ==
  ASSUME TypeOK, LockOwned, NEW r \in Requests, ~Queued(r), Queued(r)', queue' = Append(queue, r),
         \A q \in Requests \ {r} : Queued(q)' <=> Queued(q)
  PROVE  LockOwned'
<1>1. /\ Len(queue') = Len(queue) + 1 /\ Len(queue) \in Nat /\ queue'[Len(queue) + 1] = r
      /\ \A i \in 1..Len(queue) : queue'[i] = queue[i] /\ queue[i] \in Requests
  BY DEF TypeOK, ProcessType
<1>2. \A i \in 1..Len(queue') : i \in 1..Len(queue) \/ i = Len(queue) + 1
  BY <1>1
<1>3. \A i \in 1..Len(queue) : i \in 1..Len(queue') /\ queue[i] # r
  BY <1>1 DEF LockOwned
<1>4. \A q \in Requests : Queued(q)' <=> \E i \in 1..Len(queue') : queue'[i] = q
  <2> SUFFICES ASSUME NEW q \in Requests PROVE Queued(q)' <=> \E i \in 1..Len(queue') : queue'[i] = q
    OBVIOUS
  <2>1. CASE q = r
    BY <1>1, <2>1
  <2>2. CASE q # r
    BY <1>1, <1>2, <1>3, <2>2 DEF LockOwned
  <2> QED BY <2>1, <2>2
<1>5. \A i, j \in 1..Len(queue') : queue'[i] = queue'[j] => i = j
  BY <1>1, <1>2, <1>3 DEF LockOwned
<1> QED
  BY <1>4, <1>5 DEF LockOwned

\* The holder leaves.
LEMMA LockFreed ==
  ASSUME TypeOK, LockOwned, NEW r \in Holder, ~Queued(r)', queue' = Tail(queue),
         \A q \in Requests \ {r} : Queued(q)' <=> Queued(q)
  PROVE  LockOwned'
<1>1. /\ queue \in Seq(Requests) /\ queue # <<>> /\ r = queue[1] /\ 1 \in 1..Len(queue)
      /\ Len(queue') = Len(queue) - 1
      /\ \A i \in 1..Len(queue') : i + 1 \in 1..Len(queue) /\ queue'[i] = queue[i + 1]
      /\ \A i \in 1..Len(queue) : i = 1 \/ (i - 1 \in 1..Len(queue') /\ queue'[i - 1] = queue[i])
  BY DEF TypeOK, ProcessType, Holder
<1>2. \A i \in 1..Len(queue') : queue'[i] # r
  <2> SUFFICES ASSUME NEW i \in 1..Len(queue'), queue[i + 1] = queue[1] PROVE FALSE
    BY <1>1
  <2>1. i + 1 = 1
    BY <1>1 DEF LockOwned
  <2> QED
    BY <2>1
<1>3. \A q \in Requests : Queued(q)' <=> \E i \in 1..Len(queue') : queue'[i] = q
  <2> SUFFICES ASSUME NEW q \in Requests PROVE Queued(q)' <=> \E i \in 1..Len(queue') : queue'[i] = q
    OBVIOUS
  <2>1. CASE q = r
    BY <1>2, <2>1
  <2>2. CASE q # r
    <3>1. Queued(q)' <=> \E i \in 1..Len(queue) : queue[i] = q
      BY <2>2 DEF LockOwned
    <3>2. ASSUME NEW i \in 1..Len(queue), queue[i] = q PROVE \E k \in 1..Len(queue') : queue'[k] = q
      BY <1>1, <2>2, <3>2
    <3>3. ASSUME NEW i \in 1..Len(queue'), queue'[i] = q PROVE \E k \in 1..Len(queue) : queue[k] = q
      BY <1>1, <3>3
    <3> QED
      BY <3>1, <3>2, <3>3
  <2> QED BY <2>1, <2>2
<1>4. ASSUME NEW i \in 1..Len(queue'), NEW j \in 1..Len(queue'), queue'[i] = queue'[j] PROVE i = j
  <2>1. queue[i + 1] = queue[j + 1] /\ i + 1 \in 1..Len(queue) /\ j + 1 \in 1..Len(queue)
    BY <1>1, <1>4
  <2>2. i + 1 = j + 1
    BY <2>1 DEF LockOwned
  <2> QED
    BY <2>2
<1> QED
  BY <1>3, <1>4 DEF LockOwned

\* However a request ends, it leaves the queue it is in.
LEMMA LockEnded ==
  ASSUME TypeOK, Core, LockOwned, NEW r \in Requests, stage[r] # "queued" \/ r \in Holder,
         unlock(r), NEW s \in Outcomes, goto(r, s)
  PROVE  LockOwned'
<1>1. /\ stage \in [Requests -> Stages] /\ stage' = [stage EXCEPT ![r] = s]
      /\ s \notin {"queued", "sending", "sent"}
  BY DEF goto, TypeOK, ProcessType, Outcomes
<1>2. ~Queued(r)' /\ \A q \in Requests \ {r} : Queued(q)' <=> Queued(q)
  BY <1>1 DEF Queued
<1>3. CASE r \in Holder
  BY <1>2, <1>3, LockFreed DEF unlock
<1>4. CASE r \notin Holder
  <2>1. ~Queued(r)
    BY <1>4 DEF Queued, Core, SendersHoldLock
  <2> QED
    BY <1>2, <1>4, <2>1, LockKept DEF unlock
<1> QED
  BY <1>3, <1>4

\* A request moves on within the queue, or outside it.
LEMMA LockMoved ==
  ASSUME TypeOK, LockOwned, NEW r \in Requests, NEW s, goto(r, s), UNCHANGED queue,
         Queued(r) <=> s \in {"queued", "sending", "sent"}
  PROVE  LockOwned'
<1>1. \A q \in Requests : Queued(q)' <=> Queued(q)
  BY DEF goto, TypeOK, ProcessType, Queued
<1> QED
  BY <1>1, LockKept

LEMMA LockServed ==
  ASSUME TypeOK, Core, LockOwned, NEW r \in Requests, arrive(r) \/ serve(r)
  PROVE  LockOwned'
<1> USE DEF Queued, Outcomes
<1>1. ASSUME refuse(r), stage[r] # "queued" \/ r \in Holder PROVE LockOwned'
  BY <1>1, LockEnded DEF refuse
<1>2. CASE arrive(r)
  BY <1>2, LockMoved DEF arrive
<1>3. CASE assert_relay(r)
  <2>1. FirstRead(Call(r)) \notin {"queued", "sending", "sent"}
    BY DEF FirstRead
  <2> QED
    BY <1>3, <2>1, LockMoved DEF assert_relay
<1>4. CASE assert_create(r) \/ assert_faucet(r) \/ fail_early(r)
  BY <1>4, LockMoved DEF assert_create, assert_faucet, fail_early
<1>5. CASE read_treasury(r)
  BY <1>1, <1>5, LockMoved DEF read_treasury
<1>6. CASE read_protections(r) \/ read_pending_ids(r) \/ read_policy(r)
  BY <1>6, LockMoved DEF read_protections, read_pending_ids, read_policy
<1>7. CASE simulate(r)
  <2>1. CASE Valid(r)
    <3>1. stage' = [stage EXCEPT ![r] = "queued"] /\ stage \in [Requests -> Stages] /\ queue' = Append(queue, r)
      BY <1>7, <2>1 DEF simulate, goto, TypeOK, ProcessType
    <3>2. ~Queued(r) /\ Queued(r)' /\ \A q \in Requests \ {r} : Queued(q)' <=> Queued(q)
      BY <1>7, <3>1 DEF simulate
    <3> QED
      BY <3>1, <3>2, LockJoined
  <2>2. CASE ~Valid(r)
    BY <1>1, <1>7, <2>2 DEF simulate
  <2> QED BY <2>1, <2>2
<1>8. CASE estimate(r)
  BY <1>1, <1>8, LockMoved DEF estimate
<1>9. CASE broadcast(r)
  BY <1>9, LockMoved DEF broadcast
<1>10. CASE confirm(r)
  BY <1>10, LockEnded DEF confirm
<1>11. CASE lose(r) \/ confirm_unrecorded(r)
  BY <1>1, <1>11 DEF lose, confirm_unrecorded
<1>12. CASE fail(r)
  BY <1>1, <1>12 DEF fail
<1> QED
  BY <1>2, <1>3, <1>4, <1>5, <1>6, <1>7, <1>8, <1>9, <1>10, <1>11, <1>12 DEF serve

LEMMA LockStep == TypeOK /\ Core /\ LockOwned /\ [Next]_vars => LockOwned'
<1> SUFFICES ASSUME TypeOK, Core, LockOwned, [Next]_vars PROVE LockOwned'
  OBVIOUS
<1>1. ASSUME UNCHANGED <<stage, queue>> PROVE LockOwned'
  BY <1>1, LockKept DEF Queued
<1>2. CASE UNCHANGED vars
  BY <1>1, <1>2 DEF vars, process
<1>3. CASE \E r \in Requests : arrive(r) \/ serve(r)
  BY <1>3, LockServed
<1>4. CASE \E r \in Requests : watch(r)
  BY <1>1, <1>4 DEF watch, settle, timeout
<1>5. CASE mine
  BY <1>1, <1>5 DEF mine, process
<1>6. CASE \E a \in Accounts, call \in Calls : outside(a, call)
  BY <1>1, <1>6 DEF outside, process
<1>7. CASE \E b \in Budgets : window_ends(b)
  BY <1>1, <1>7 DEF window_ends
<1>8. CASE restart
  <2>1. queue' = <<>> /\ \A q \in Requests : stage'[q] \notin {"queued", "sending", "sent"}
    BY <1>8 DEF restart, Awaiting
  <2> QED
    BY <2>1 DEF LockOwned, Queued
<1> QED
  BY <1>2, <1>3, <1>4, <1>5, <1>6, <1>7, <1>8 DEF Next

(***************************************************************************)
(* The treasury: Funds is inductive given Grants.                          *)
(***************************************************************************)
LEMMA FundsInit == Init => Funds
  BY DEF Init, Funds, FundedSent, GrantsFunded

\* Funds holds after a step that pays no grant, if what it newly judges can be
\* paid and whom it newly remembers was sent a grant.
LEMMA FundsKept ==
  ASSUME Funds, UNCHANGED treasury, overtaken \subseteq overtaken',
         \A q \in Requests : fate'[q] = fate[q] \/ (fate'[q] = "pending" /\ stage[q] = "sending"),
         \A q \in Requests : stage'[q] = "sent" => stage[q] = "sent" \/ fate'[q] # "none",
         \A q \in Requests : Kind(q) = "faucet" /\ stage'[q] = "sending" => stage[q] = "sending" \/ treasury > 0,
         \A a \in funded' \union faucetFile' :
           a \in funded \union faucetFile \/ \E q \in Requests : SentGrant(q) /\ Account(q) = a
  PROVE  Funds'
<1>1. \A q \in Requests : SentGrant(q) => SentGrant(q)'
  BY DEF SentGrant
<1>2. FundedSent'
  BY <1>1 DEF Funds, FundedSent
<1>3. GrantsFunded'
  BY DEF Funds, GrantsFunded
<1> QED
  BY <1>2, <1>3 DEF Funds

LEMMA BeforeSendingFunds ==
  ASSUME TypeOK, Funds, NEW r \in Requests, BeforeSending(r)
  PROVE  Funds'
<1>1. UNCHANGED <<funded, faucetFile, treasury, fate, overtaken>>
  BY BeforeSendingKeeps
<1>2. PICK s : stage' = [stage EXCEPT ![r] = s]
  BY BeforeSendingStage DEF goto
<1>3. stage'[r] # "sent" /\ (stage'[r] = "sending" => estimate(r) /\ Valid(r))
  <2> USE DEF TypeOK, ProcessType, goto
  <2>1. CASE arrive(r) \/ assert_relay(r) \/ assert_create(r) \/ assert_faucet(r)
    BY <2>1 DEF arrive, assert_relay, assert_create, assert_faucet, FirstRead
  <2>2. CASE read_treasury(r) \/ read_protections(r) \/ read_pending_ids(r) \/ read_policy(r)
    BY <2>2 DEF read_treasury, read_protections, read_pending_ids, read_policy, refuse
  <2>3. CASE simulate(r) \/ estimate(r)
    BY <2>3 DEF simulate, estimate, refuse
  <2>4. CASE fail(r) \/ fail_early(r)
    BY <2>4 DEF fail, fail_early, refuse
  <2> QED
    BY <2>1, <2>2, <2>3, <2>4 DEF BeforeSending
<1>4. \A q \in Requests \ {r} : stage'[q] = stage[q]
  BY <1>2 DEF TypeOK, ProcessType
<1>5. \A q \in Requests : Kind(q) = "faucet" /\ stage'[q] = "sending" => stage[q] = "sending" \/ treasury > 0
  BY <1>3, <1>4 DEF Valid
<1>6. \A q \in Requests : stage'[q] = "sent" => stage[q] = "sent"
  BY <1>3, <1>4
<1> QED
  BY <1>1, <1>5, <1>6, FundsKept

LEMMA SendingFunds ==
  ASSUME TypeOK, Funds, NEW r \in Requests, broadcast(r) \/ confirm(r) \/ lose(r) \/ confirm_unrecorded(r)
  PROVE  Funds'
<1>1. /\ stage \in [Requests -> Stages] /\ fate \in [Requests -> {"none", "pending", "mined", "reverted"}]
      /\ UNCHANGED <<treasury, overtaken>>
  BY DEF broadcast, confirm, lose, confirm_unrecorded, chainVars, history, TypeOK, ProcessType, ChainType
<1>2. CASE broadcast(r)
  <2>1. /\ stage[r] = "sending" /\ stage' = [stage EXCEPT ![r] = "sent"] /\ fate' = [fate EXCEPT ![r] = "pending"]
        /\ UNCHANGED <<funded, faucetFile>>
    BY <1>2 DEF broadcast, goto
  <2> QED
    BY <1>1, <2>1, FundsKept
<1>3. CASE confirm(r) \/ lose(r) \/ confirm_unrecorded(r)
  <2>1. /\ stage[r] = "sent" /\ UNCHANGED fate /\ \E s \in Outcomes : stage' = [stage EXCEPT ![r] = s]
    BY <1>3 DEF confirm, lose, confirm_unrecorded, refuse, goto, chainVars, Outcomes
  <2>2. \A q \in Requests : stage'[q] = stage[q] \/ stage'[q] \in Outcomes
    BY <1>1, <2>1
  <2>3. SentGrant(r) \/ Kind(r) # "faucet"
    BY <2>1 DEF Funds, FundedSent, SentGrant
  <2>4. \A a \in funded' \union faucetFile' : a \in funded \union faucetFile \/ (Kind(r) = "faucet" /\ a = Account(r))
    BY <1>3 DEF confirm, lose, confirm_unrecorded
  <2> QED
    BY <1>1, <2>1, <2>2, <2>3, <2>4, FundsKept DEF Outcomes
<1> QED
  BY <1>2, <1>3

\* A grant that is paid overtakes those found to succeed beside it.
LEMMA MineFunds == ASSUME TypeOK, Grants, Funds, mine PROVE Funds'
<1> DEFINE r == Head(mempool)
<1>1. /\ r \in Requests /\ r = mempool[1] /\ 1 \in 1..Len(mempool)
      /\ fate \in [Requests -> {"none", "pending", "mined", "reverted"}] /\ treasury \in Nat
      /\ fate' = [fate EXCEPT ![r] = IF Valid(r) THEN "mined" ELSE "reverted"]
      /\ overtaken' = IF Kind(r) = "faucet" /\ Valid(r) THEN overtaken \union Racing(r) ELSE overtaken
      /\ treasury' = IF Kind(r) = "faucet" /\ Valid(r) THEN treasury - 1 ELSE treasury
      /\ UNCHANGED <<stage, funded, faucetFile>>
  BY ChainAssumption DEF mine, process, TypeOK, ChainType
<1>2. fate[r] = "pending" /\ stage[r] # "sending"
  BY <1>1 DEF Grants, MempoolPending, Outcomes
<1>3. \A q \in Requests : SentGrant(q) => SentGrant(q)'
  BY <1>1 DEF SentGrant
<1>4. FundedSent'
  BY <1>1, <1>3 DEF Funds, FundedSent
<1>5. GrantsFunded'
  <2> SUFFICES ASSUME NEW q \in Requests, Kind(q) = "faucet"
               PROVE  /\ stage'[q] = "sending" \/ fate'[q] = "pending" => treasury' > 0 \/ q \in overtaken'
                      /\ fate'[q] = "reverted" => q \in overtaken'
    BY DEF GrantsFunded
  <2>1. CASE q = r
    <3>1. stage'[q] # "sending" /\ fate'[q] # "pending"
      BY <1>1, <1>2, <2>1
    <3>2. ~Valid(r) => treasury = 0
      BY <1>1, <2>1 DEF Valid
    <3>3. ~Valid(r) => r \in overtaken
      BY <1>1, <1>2, <2>1, <3>2 DEF Funds, GrantsFunded
    <3> QED
      BY <1>1, <2>1, <3>1, <3>3
  <2>2. CASE q # r
    <3>1. fate'[q] = fate[q]
      BY <1>1, <2>2
    <3>2. fate[q] = "reverted" => q \in overtaken
      BY DEF Funds, GrantsFunded
    <3>3. CASE Kind(r) = "faucet" /\ Valid(r)
      BY <1>1, <2>2, <3>1, <3>2, <3>3 DEF Racing
    <3>4. CASE ~(Kind(r) = "faucet" /\ Valid(r))
      BY <1>1, <3>1, <3>4 DEF Funds, GrantsFunded
    <3> QED BY <3>3, <3>4
  <2> QED BY <2>1, <2>2
<1> QED
  BY <1>4, <1>5 DEF Funds

LEMMA FundsStep == TypeOK /\ Grants /\ Funds /\ [Next]_vars => Funds'
<1> SUFFICES ASSUME TypeOK, Grants, Funds, [Next]_vars PROVE Funds'
  OBVIOUS
<1>1. ASSUME UNCHANGED <<treasury, fate>>, overtaken \subseteq overtaken',
             \A q \in Requests : stage'[q] = stage[q] \/ stage'[q] \in Outcomes,
             funded' \union faucetFile' \subseteq funded \union faucetFile
      PROVE  Funds'
  BY <1>1, FundsKept DEF Outcomes
<1>2. CASE UNCHANGED vars
  BY <1>1, <1>2 DEF vars, process, chainVars, history
<1>3. CASE \E r \in Requests : arrive(r) \/ serve(r)
  BY <1>3, BeforeSendingFunds, SendingFunds DEF serve, BeforeSending
<1>4. CASE \E r \in Requests : watch(r)
  BY <1>1, <1>4 DEF watch, settle, timeout, chainVars, history
<1>5. CASE mine
  BY <1>5, MineFunds
<1>6. CASE \E a \in Accounts, call \in Calls : outside(a, call)
  BY <1>1, <1>6 DEF outside, process
<1>7. CASE \E b \in Budgets : window_ends(b)
  BY <1>1, <1>7 DEF window_ends, chainVars, history
<1>8. CASE restart
  <2>1. funded' \union faucetFile' \subseteq faucetFile
    BY <1>8 DEF restart
  <2>2. \A q \in Requests : stage'[q] = stage[q] \/ stage'[q] \in Outcomes
    BY <1>8 DEF restart, Outcomes
  <2> QED
    BY <1>1, <1>8, <2>1, <2>2 DEF restart, chainVars
<1> QED
  BY <1>2, <1>3, <1>4, <1>5, <1>6, <1>7, <1>8 DEF Next

\* The invariants below, and what makes them inductive, always hold.
THEOREM InvariantHolds == Spec => []IInv
<1>1. Init => IInv
  BY TypeInit, CoreInit, GrantsInit, SoundInit, LockInit, FundsInit DEF IInv
<1>2. IInv /\ [Next]_vars => IInv'
  BY TypeStep, CoreStep, GrantsStep, SoundStep, LockStep, FundsStep DEF IInv
<1> QED
  BY <1>1, <1>2, PTL DEF Spec

\* No path through relay() and faucet() leaks a reservation or frees another
\* request's, and none leaves the send lock held or a request outside its queue
\* (relayer.ts, inFlight, granting and sendLock).
THEOREM NothingEverLeaked == Spec => []NothingLeaked
<1>1. IInv => NothingLeaked
  BY DEF IInv, Core, NothingLeaked
<1> QED
  BY <1>1, InvariantHolds, PTL

\* One relayed transaction per account is on its way, unless the process lost
\* sight of one (SECURITY.md, "sends one transaction per account at a time").
THEOREM AlwaysOneAtATime == Spec => []OneAtATime
<1>1. IInv => OneAtATime
  BY DEF IInv, Core, PendingHolds, ReservationsOwned, OneAtATime
<1> QED
  BY <1>1, InvariantHolds, PTL

\* The relayer passes no limit, and never sends more than the day's gas and one
\* transaction, however requests, windows and restarts interleave (relayer.ts,
\* gasPerDay and the send lock).
THEOREM BudgetsAlwaysHold == Spec => []BudgetsHold
<1>1. IInv => BudgetsHold
  BY LimitsAssumption DEF IInv, Core, GasCounted, TypeOK, BudgetType, GasWithinBudget, BudgetsHold, gas
<1> QED
  BY <1>1, InvariantHolds, PTL

\* The relayer pays for a reverted call only if somebody else changed the
\* account after its gas was estimated (relayer.ts, submit() and inFlight).
THEOREM AlwaysWastedOnlyByOthers == Spec => []WastedOnlyByOthers
<1>1. IInv => WastedOnlyByOthers
  BY DEF IInv, Sound
<1> QED
  BY <1>1, InvariantHolds, PTL

\* What is relayed outside every budget defends its account when it is mined,
\* unless somebody else changed the account meanwhile (relayer.ts, defends()).
THEOREM FreeRidesAlwaysDefend == Spec => []FreeRidesDefend
<1>1. IInv => FreeRidesDefend
  BY DEF IInv, Sound
<1> QED
  BY <1>1, InvariantHolds, PTL

\* Demo USDG is granted twice only to an account one of whose transactions the
\* process lost sight of (relayer.ts, faucet(), granting and the faucet file).
THEOREM AlwaysGrantedAgainOnlyIfLost == Spec => []GrantedAgainOnlyIfLost
<1>1. IInv => GrantedAgainOnlyIfLost
  BY DEF IInv, Grants, OneGrantSent, GrantedAgainOnlyIfLost, TypeOK, HistoryType
<1> QED
  BY <1>1, InvariantHolds, PTL

\* An account that counts as granted has its demo USDG, or its transaction is on
\* its way, or that one reverted because another grant was paid after it was
\* estimated (relayer.ts, faucet(), the treasury read before the send lock).
THEOREM FundedAlwaysPaid == Spec => []FundedIsPaid
<1>1. IInv => FundedIsPaid
  <2> SUFFICES ASSUME IInv, NEW a \in funded
               PROVE  \E r \in Requests :
                        /\ Kind(r) = "faucet" /\ Account(r) = a
                        /\ fate[r] \in {"pending", "mined"} \/ (fate[r] = "reverted" /\ r \in overtaken)
    BY DEF FundedIsPaid
  <2>1. PICK r \in Requests : SentGrant(r) /\ Account(r) = a
    BY DEF IInv, Funds, FundedSent
  <2>2. fate[r] \in {"pending", "mined", "reverted"}
    BY <2>1 DEF SentGrant, IInv, TypeOK, ChainType
  <2>3. fate[r] = "reverted" => r \in overtaken
    BY <2>1 DEF SentGrant, IInv, Funds, GrantsFunded
  <2> QED
    BY <2>1, <2>2, <2>3 DEF SentGrant
<1> QED
  BY <1>1, InvariantHolds, PTL

(***************************************************************************)
(* The grants are good for one use: RelayerRefinement maps every step to   *)
(* one of AcceptOnce.                                                      *)
(***************************************************************************)

\* A grant sent stays sent, and is sent by a request about to send it.
LEMMA SentStays ==
  ASSUME TypeOK, Grants, [Next]_vars, NEW q \in Requests
  PROVE  /\ SentGrant(q) => SentGrant(q)'
         /\ SentGrant(q)' /\ ~SentGrant(q) => stage[q] = "sending"
<1> USE DEF SentGrant
<1>1. CASE UNCHANGED fate
  BY <1>1
<1>2. ASSUME NEW r \in Requests, arrive(r) \/ serve(r) PROVE UNCHANGED fate \/ broadcast(r)
  BY <1>2, BeforeSendingKeeps
  DEF serve, BeforeSending, confirm, lose, confirm_unrecorded, chainVars
<1>3. ASSUME NEW r \in Requests, broadcast(r)
      PROVE  stage[r] = "sending" /\ fate' = [fate EXCEPT ![r] = "pending"]
  BY <1>3 DEF broadcast
<1>4. CASE \E r \in Requests : broadcast(r)
  BY <1>3, <1>4 DEF TypeOK, ChainType
<1>5. CASE mine
  <2>1. mempool \in Seq(Requests) /\ mempool # <<>> /\ fate \in [Requests -> {"none", "pending", "mined", "reverted"}]
    BY <1>5 DEF mine, TypeOK, ChainType
  <2>2. Head(mempool) = mempool[1] /\ 1 \in 1..Len(mempool)
    BY <2>1
  <2>3. fate[Head(mempool)] = "pending"
    BY <2>2 DEF Grants, MempoolPending
  <2>4. \E end \in {"mined", "reverted"} : fate' = [fate EXCEPT ![Head(mempool)] = end]
    BY <1>5 DEF mine
  <2> QED
    BY <2>1, <2>3, <2>4
<1>6. CASE \E r \in Requests : watch(r)
  BY <1>1, <1>6 DEF watch, settle, timeout, chainVars
<1>7. CASE (\E b \in Budgets : window_ends(b)) \/ restart \/ \E a \in Accounts, call \in Calls : outside(a, call)
  BY <1>1, <1>7 DEF window_ends, restart, outside, chainVars
<1> QED
  BY <1>1, <1>2, <1>4, <1>5, <1>6, <1>7 DEF Next, vars, chainVars

\* Who newly reserves a grant found it reserved by nobody.
LEMMA NewlyReserved ==
  ASSUME TypeOK, [Next]_vars, NEW q \in Requests, HoldsGrant(q)', ~HoldsGrant(q)
  PROVE  Account(q) \notin granting
<1> USE DEF HoldsGrant, Reserved
<1>1. stage'[q] \in Awaiting \ {"asserting"} /\ stage[q] \notin Awaiting \ {"asserting"} /\ Kind(q) = "faucet"
  OBVIOUS
<1>2. ASSUME NEW r \in Requests, NEW s, goto(r, s)
      PROVE  q = r /\ s = stage'[q]
  BY <1>1, <1>2 DEF goto, TypeOK, ProcessType
<1>3. ASSUME NEW r \in Requests, arrive(r) \/ assert_relay(r) \/ assert_create(r) \/ assert_faucet(r)
      PROVE  Account(q) \notin granting
  <2>1. CASE arrive(r)
    BY <1>1, <1>2, <2>1 DEF arrive, Awaiting
  <2>2. CASE assert_relay(r)
    BY <1>1, <1>2, <2>2 DEF assert_relay
  <2>3. CASE assert_create(r)
    BY <1>1, <1>2, <2>3 DEF assert_create
  <2>4. CASE assert_faucet(r)
    BY <1>1, <1>2, <2>4 DEF assert_faucet, Awaiting
  <2> QED BY <1>3, <2>1, <2>2, <2>3, <2>4
<1>4. ASSUME NEW r \in Requests, serve(r), ~(assert_relay(r) \/ assert_create(r) \/ assert_faucet(r))
      PROVE  FALSE
  <2>1. stage[r] \in Awaiting \ {"asserting"} \/ \E s \in Outcomes : goto(r, s)
    BY <1>4 DEF serve, read_treasury, read_protections, read_pending_ids, read_policy, simulate, estimate, broadcast,
                confirm, lose, confirm_unrecorded, fail, fail_early, Awaiting, Outcomes
  <2>2. \E s : goto(r, s)
    BY <1>4, BeforeSendingStage
    DEF serve, BeforeSending, broadcast, confirm, lose, confirm_unrecorded, refuse
  <2> QED
    BY <1>1, <1>2, <2>1, <2>2 DEF Awaiting, Outcomes
<1>5. CASE UNCHANGED stage
  BY <1>1, <1>5
<1>6. CASE restart
  BY <1>1, <1>6 DEF restart, Awaiting
<1>7. CASE mine \/ (\E r \in Requests : watch(r)) \/ (\E b \in Budgets : window_ends(b))
           \/ \E a \in Accounts, call \in Calls : outside(a, call)
  BY <1>5, <1>7 DEF mine, watch, settle, timeout, window_ends, outside, process
<1> QED
  BY <1>3, <1>4, <1>5, <1>6, <1>7 DEF Next, vars, process

LEMMA DoubtStays == ASSUME [Next]_vars PROVE doubtful \subseteq doubtful'
<1>1. ASSUME NEW r \in Requests, arrive(r) \/ serve(r) PROVE doubtful \subseteq doubtful'
  BY <1>1, BeforeSendingKeeps DEF serve, BeforeSending, broadcast, confirm, lose, confirm_unrecorded, history
<1>2. ASSUME NEW r \in Requests, watch(r) PROVE doubtful \subseteq doubtful'
  BY <1>2 DEF watch, settle, timeout, history
<1>3. CASE mine \/ restart \/ (\E b \in Budgets : window_ends(b)) \/ \E a \in Accounts, call \in Calls : outside(a, call)
  BY <1>3 DEF mine, restart, window_ends, outside
<1> QED
  BY <1>1, <1>2, <1>3 DEF Next, vars, history

\* One request at most has a grant reserved.
LEMMA OneTaker ==
  ASSUME IInv, NEW a \in Accounts, NEW r \in GrantTakers(a)
  PROVE  GrantTakers(a) = {r} /\ a \in granting
  BY DEF IInv, Core, ReservationsOwned, GrantTakers

LEMMA GrantTyped ==
  ASSUME NEW a \in Accounts
  PROVE  /\ GrantState(a) \in Grant!States
         /\ GrantTakers(a) # {} /\ a \notin doubtful /\ ~GrantSent(a)
              => \E u \in Requests : GrantState(a) = Grant!HeldBy(u)
<1>1. GrantTakers(a) # {} => (CHOOSE r \in GrantTakers(a) : TRUE) \in Requests
  BY DEF GrantTakers
<1> QED
  BY <1>1 DEF GrantState, Grant!States, Grant!Open, Grant!Used, Grant!Lost, Grant!HeldBy

\* What becomes of one account's grant in a step.
LEMMA GrantStep ==
  ASSUME IInv, IInv', [Next]_vars, NEW a \in Accounts
  PROVE  GrantState(a) = GrantState(a)' \/ Grant!Step(a, GrantState(a), GrantState(a)')
<1> USE DEF Grant!Step
<1>0. TypeOK /\ Grants /\ TypeOK' /\ doubtful \subseteq doubtful'
  BY DoubtStays DEF IInv
<1>1. CASE a \in doubtful'
  BY <1>1 DEF GrantState, Grant!Lose, Grant!Lost
<1>2. CASE a \notin doubtful' /\ GrantSent(a)
  <2>1. GrantSent(a)'
    BY <1>0, <1>2, SentStays DEF GrantSent
  <2> QED
    BY <1>0, <1>2, <2>1 DEF GrantState
<1>3. CASE a \notin doubtful' /\ ~GrantSent(a) /\ GrantSent(a)'
  <2>1. PICK q \in Requests : SentGrant(q)' /\ ~SentGrant(q) /\ Account(q) = a
    BY <1>3 DEF GrantSent
  <2>2. q \in GrantTakers(a)
    BY <1>0, <2>1, SentStays DEF GrantTakers, HoldsGrant, SentGrant, Reserved, Awaiting
  <2>3. \E u \in Requests : GrantState(a) = Grant!HeldBy(u)
    BY <1>0, <1>3, <2>2, GrantTyped
  <2>4. GrantState(a)' = Grant!Used
    BY <1>3 DEF GrantState, Grant!Used
  <2> QED
    BY <2>3, <2>4 DEF Grant!Use
<1>4. CASE a \notin doubtful' /\ ~GrantSent(a) /\ ~GrantSent(a)'
  <2>1. CASE GrantTakers(a) = {} /\ GrantTakers(a)' = {}
    BY <1>0, <1>4, <2>1 DEF GrantState
  <2>2. CASE GrantTakers(a) = {} /\ GrantTakers(a)' # {}
    <3>1. GrantState(a) = Grant!Open
      BY <1>0, <1>4, <2>2 DEF GrantState, Grant!Open
    <3>2. \E u \in Requests : GrantState(a)' = Grant!HeldBy(u)
      <4>1. (CHOOSE r \in GrantTakers(a)' : TRUE) \in Requests
        BY <2>2 DEF GrantTakers
      <4> QED
        BY <1>4, <2>2, <4>1 DEF GrantState, Grant!HeldBy
    <3> QED
      BY <3>1, <3>2 DEF Grant!Take
  <2>3. CASE GrantTakers(a) # {} /\ GrantTakers(a)' = {}
    <3>1. \E u \in Requests : GrantState(a) = Grant!HeldBy(u)
      BY <1>0, <1>4, <2>3, GrantTyped
    <3>2. GrantState(a)' = Grant!Open
      BY <1>4, <2>3 DEF GrantState, Grant!Open
    <3> QED
      BY <3>1, <3>2 DEF Grant!GiveBack
  <2>4. CASE GrantTakers(a) # {} /\ GrantTakers(a)' # {}
    <3>1. PICK u : u \in GrantTakers(a)
      BY <2>4
    <3>2. PICK v : v \in GrantTakers(a)'
      BY <2>4
    <3>3. GrantTakers(a) = {u} /\ a \in granting
      BY <3>1, OneTaker
    <3>4. GrantTakers(a)' = {v}
      BY <3>2 DEF IInv, Core, ReservationsOwned, GrantTakers
    <3>5. v \in GrantTakers(a)
      BY <1>0, <3>2, <3>3, NewlyReserved DEF GrantTakers
    <3> QED
      BY <1>0, <1>4, <2>4, <3>3, <3>4, <3>5 DEF GrantState
  <2> QED
    BY <2>1, <2>2, <2>3, <2>4
<1> QED
  BY <1>1, <1>2, <1>3, <1>4

\* The demo grant of each account is taken by one request at a time and sent
\* once, for any requests, restarts and losses, unless the process lost sight of
\* a transaction of the account (relayer.ts, faucet()).
THEOREM GrantsAreForOneUse == Spec => GrantsImplementOnce
<1>1. Init => Grant!Init
  <2>1. ASSUME Init, NEW a \in Accounts PROVE GrantState(a) = [at |-> "open"]
    BY <2>1 DEF Init, GrantState, GrantSent, GrantTakers, SentGrant, HoldsGrant, Reserved, Awaiting
  <2> QED
    BY <2>1 DEF Grant!Init, Grant!Open
<1>2. IInv /\ IInv' /\ [Next]_vars => [Grant!Next]_([a \in Accounts |-> GrantState(a)])
  <2> SUFFICES ASSUME IInv, IInv', [Next]_vars PROVE Grant!Next
    OBVIOUS
  <2>1. [a \in Accounts |-> GrantState(a)]' \in [Accounts -> Grant!States]
    <3>1. \A a \in Accounts : GrantState(a)' \in Grant!States
      <4> SUFFICES ASSUME NEW a \in Accounts PROVE GrantState(a)' \in Grant!States
        OBVIOUS
      <4>1. GrantTakers(a)' # {} => (CHOOSE r \in GrantTakers(a)' : TRUE) \in Requests
        BY DEF GrantTakers
      <4> QED
        BY <4>1 DEF GrantState, Grant!States, Grant!Open, Grant!Used, Grant!Lost, Grant!HeldBy
    <3> QED
      BY <3>1
  <2> QED
    BY <2>1, GrantStep DEF Grant!Next
<1> QED
  BY <1>1, <1>2, InvariantHolds, PTL DEF Spec, GrantsImplementOnce, Grant!Spec
=============================================================================
