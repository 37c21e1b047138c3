---------------------------- MODULE AccountProofs ----------------------------
(***************************************************************************)
(* The account's safety properties, for every value of the constants.      *)
(*                                                                         *)
(* First type correctness, one lemma per action, then the invariants.      *)
(* Every step but schedule_change only narrows the waiting changes; the    *)
(* lemmas after the types are about narrowing steps, and used for all of   *)
(* them.                                                                   *)
(***************************************************************************)
EXTENDS AccountProperties, FiniteSetTheorems, TLAPS

LEMMA TodayNat == TypeOK => today \in Nat /\ spent_today \in Nat /\ OutToday \in Nat
  BY NumbersAssumption DEF TypeOK, SpendType, today, spent_today, OutToday

LEMMA TypeInit == Init => TypeOK
<1> SUFFICES ASSUME Init PROVE TypeOK
  OBVIOUS
<1>1. PolicyType
  BY NumbersAssumption DEF Init, PolicyType
<1>2. SpendType
  BY DEF Init, SpendType
<1>3. OwnerType
  BY IdentitiesAssumption DEF Init, OwnerType, owner_key
<1>4. GuardianType
  BY DEF Init, GuardianType, NoRecovery, NeverStarted
<1>5. PendingType
  BY DEF Init, PendingType
<1> QED
  BY <1>1, <1>2, <1>3, <1>4, <1>5 DEF Init, TypeOK
(***************************************************************************)
(* What the shared parts of the entry points preserve.                     *)
(***************************************************************************)
LEMMA SpendTypeStep ==
  ASSUME TypeOK, NEW amount \in Nat, record_spend(amount), transfer_usdg(amount)
  PROVE  SpendType'
  BY TodayNat DEF TypeOK, SpendType, record_spend, transfer_usdg

LEMMA ChargeNat ==
  ASSUME TypeOK, NEW fee \in Nat
  PROVE  charge_fee(fee) \in Nat /\ charge_fee(fee) <= fee
  BY TodayNat DEF TypeOK, PolicyType, charge_fee, left_today

LEMMA ClearType ==
  ASSUME TypeOK, NEW ids, clear_pending(ids)
  PROVE  PendingType'
  BY DEF TypeOK, PendingType, clear_pending

LEMMA CancelType ==
  ASSUME TypeOK, NEW keep, cancel_pending_changes(keep)
  PROVE  PendingType'
  BY ClearType DEF cancel_pending_changes

LEMMA ClearRecoveryType ==
  ASSUME TypeOK, clear_recovery, UNCHANGED guardian_commitment
  PROVE  GuardianType'
  BY DEF TypeOK, GuardianType, clear_recovery, NoRecovery, NeverStarted

LEMMA ApplyType ==
  ASSUME TypeOK, NEW c \in Changes, apply(c)
  PROVE  PolicyType' /\ OwnerType' /\ GuardianType'
<1>1. is_valid(c) /\ applicable(c)
  BY DEF apply, applicable
<1>2. CASE apply_owner(c)
  <2>1. c.nullifier \in Nullifiers
    BY <1>1, <1>2, ChangesAssumption DEF apply_owner, is_valid
  <2>2. OwnerType'
    BY <1>1, <1>2, <2>1 DEF TypeOK, OwnerType, apply_owner, applicable, owner_key, ownerVars
  <2>3. PolicyType' /\ GuardianType'
    BY <1>2 DEF TypeOK, PolicyType, GuardianType, apply_owner, policyVars, guardianVars,
                NoRecovery
  <2> QED BY <2>2, <2>3
<1>3. CASE apply_guardian(c)
  <2>1. GuardianType'
    BY <1>3, ChangesAssumption
    DEF TypeOK, GuardianType, apply_guardian, clear_recovery, NoRecovery, NeverStarted
  <2>2. PolicyType' /\ OwnerType'
    BY <1>3 DEF TypeOK, PolicyType, OwnerType, apply_guardian, policyVars, ownerVars
  <2> QED BY <2>1, <2>2
<1>4. CASE apply_policy(c)
  <2>1. PolicyType'
    BY <1>4, ChangesAssumption DEF TypeOK, PolicyType, apply_policy
  <2>2. GuardianType' /\ OwnerType'
    BY <1>4 DEF TypeOK, GuardianType, OwnerType, apply_policy, guardianVars, ownerVars,
                NoRecovery
  <2> QED BY <2>1, <2>2
<1> QED BY <1>2, <1>3, <1>4 DEF apply

LEMMA UnchangedType ==
  ASSUME TypeOK
  PROVE  /\ UNCHANGED policyVars => PolicyType'
         /\ UNCHANGED spendVars => SpendType'
         /\ UNCHANGED ownerVars => OwnerType'
         /\ UNCHANGED guardianVars => GuardianType'
         /\ UNCHANGED pendingVars => PendingType'
  BY DEF TypeOK, PolicyType, SpendType, OwnerType, GuardianType, PendingType,
         policyVars, spendVars, ownerVars, guardianVars, pendingVars, NoRecovery

LEMMA PayType ==
  ASSUME TypeOK, NEW p \in PayApprovals, pay(p)
  PROVE  TypeOK'
<1>1. p.amount + p.fee \in Nat /\ p.to \in Addresses
  <2>1. p.amount \in Amounts /\ p.fee \in Fees /\ p.to \in Addresses
    BY DEF PayApprovals
  <2>2. p.amount \in Nat /\ p.fee \in Nat
    BY <2>1, NumbersAssumption, Zenon
  <2> QED BY <2>1, <2>2
<1>2. SpendType'
  BY <1>1, SpendTypeStep DEF pay
<1>3. PolicyType' /\ OwnerType' /\ GuardianType' /\ PendingType'
  BY UnchangedType DEF pay
<1> QED BY <1>1, <1>2, <1>3 DEF TypeOK, pay, authorize

LEMMA ScheduleType ==
  ASSUME TypeOK, NEW p \in ChangeApprovals("SCHEDULE_CHANGE"), schedule_change(p)
  PROVE  TypeOK'
<1>1. p.fee \in Nat /\ p.change \in Changes /\ p.nonce = nonce /\ p.deadline \in Nat
  <2>1. p.fee \in Fees /\ p.change \in Changes /\ p.nonce = nonce /\ p.deadline \in Deadlines
    BY DEF ChangeApprovals
  <2>2. Deadlines \subseteq Nat
    BY NumbersAssumption DEF Deadlines, TypeOK
  <2> QED BY <2>1, <2>2, NumbersAssumption
<1>2. SpendType'
  BY <1>1, SpendTypeStep DEF schedule_change
<1>3. PolicyType' /\ OwnerType' /\ GuardianType'
  BY UnchangedType DEF schedule_change
<1>4. PendingType'
  <2> DEFINE id == change_id(p)
             entry == [change |-> p.change, eta |-> change_eta(p.change),
                       owner_epoch |-> owner_epoch]
  <2>1. id \in Ids
    BY <1>1 DEF change_id, Ids, TypeOK
  <2>2. entry \in PendingChange
    BY <1>1, NumbersAssumption DEF PendingChange, change_eta, TypeOK, OwnerType
  <2>3. /\ track_pending(id)
        /\ pending' = [i \in DOMAIN pending \cup {id} |-> IF i = id THEN entry ELSE pending[i]]
        /\ scheduled_at' = [i \in DOMAIN scheduled_at \cup {id} |->
                              IF i = id THEN now ELSE scheduled_at[i]]
    BY DEF schedule_change
  <2>4. pending_ids' \in [Slots -> Ids \cup {NoId}]
    BY <2>1, <2>3 DEF TypeOK, PendingType, track_pending
  <2> HIDE DEF id, entry
  <2> QED BY <2>1, <2>2, <2>3, <2>4 DEF TypeOK, PendingType
<1> QED BY <1>2, <1>3, <1>4 DEF TypeOK, schedule_change, authorize

LEMMA RestrictType ==
  ASSUME TypeOK, NEW p \in ChangeApprovals("RESTRICT"), restrict(p)
  PROVE  TypeOK'
<1>1. p.fee \in Nat /\ p.change \in Changes
  BY NumbersAssumption DEF ChangeApprovals
<1>2. SpendType'
  BY <1>1, SpendTypeStep, ChargeNat DEF restrict
<1>3. PolicyType' /\ OwnerType' /\ GuardianType'
  BY <1>1, ApplyType DEF restrict
<1>4. PendingType' /\ frozen_at' \in Nat
  BY CancelType, UnchangedType DEF restrict, TypeOK
<1> QED BY <1>2, <1>3, <1>4 DEF TypeOK, restrict, authorize

LEMMA CancelChangeType ==
  ASSUME TypeOK, NEW p \in CancelApprovals, cancel_change(p)
  PROVE  TypeOK'
<1>1. p.fee \in Nat
  BY NumbersAssumption DEF CancelApprovals
<1>2. SpendType'
  BY <1>1, SpendTypeStep, ChargeNat DEF cancel_change
<1>3. PolicyType' /\ OwnerType' /\ GuardianType' /\ PendingType'
  BY UnchangedType, ClearType DEF cancel_change
<1> QED BY <1>2, <1>3 DEF TypeOK, cancel_change, authorize

LEMMA CancelRecoveryType ==
  ASSUME TypeOK, NEW p \in RecoveryApprovals, cancel_recovery(p)
  PROVE  TypeOK'
<1>1. p.fee \in Nat
  BY NumbersAssumption DEF RecoveryApprovals
<1>2. SpendType'
  BY <1>1, SpendTypeStep, ChargeNat DEF cancel_recovery
<1>3. PolicyType' /\ OwnerType' /\ GuardianType' /\ PendingType'
  BY UnchangedType, ClearRecoveryType DEF cancel_recovery
<1> QED BY <1>2, <1>3 DEF TypeOK, cancel_recovery, authorize

LEMMA ApplyChangeType ==
  ASSUME TypeOK, NEW id, apply_change(id)
  PROVE  TypeOK'
<1>1. pending[id].change \in Changes
  BY DEF apply_change, TypeOK, PendingType, PendingChange
<1>2. PolicyType' /\ OwnerType' /\ GuardianType'
  BY <1>1, ApplyType DEF apply_change
<1>3. PendingType' /\ SpendType'
  BY ClearType, UnchangedType DEF apply_change
<1> QED BY <1>2, <1>3 DEF TypeOK, apply_change

LEMMA ExecuteRecoveryType ==
  ASSUME TypeOK, execute_recovery
  PROVE  TypeOK'
<1>1. OwnerType'
  BY DEF TypeOK, OwnerType, GuardianType, execute_recovery, owner_key, NoRecovery
<1>2. GuardianType' /\ PendingType'
  BY ClearRecoveryType, CancelType DEF execute_recovery
<1>3. PolicyType' /\ SpendType'
  BY UnchangedType DEF execute_recovery
<1> QED BY <1>1, <1>2, <1>3 DEF TypeOK, execute_recovery

LEMMA GuardianStepType ==
  ASSUME TypeOK, GuardianStep
  PROVE  TypeOK'
<1> PICK g \in Guardians :
      \/ \E id \in pending_change_ids : guardian_cancel_change(g, id)
      \/ guardian_freeze(g)
      \/ \E n \in Nullifiers : initiate_recovery(g, n)
      \/ guardian_cancel_recovery(g)
  BY DEF GuardianStep
<1>1. ASSUME NEW id, guardian_cancel_change(g, id) PROVE TypeOK'
  <2>1. /\ PolicyType' /\ OwnerType' /\ GuardianType' /\ SpendType'
        /\ PendingType'
    BY <1>1, UnchangedType, ClearType DEF guardian_cancel_change
  <2> QED BY <1>1, <2>1 DEF guardian_cancel_change, TypeOK
<1>2. CASE guardian_freeze(g)
  <2>1. PolicyType'
    BY <1>2 DEF guardian_freeze, TypeOK, PolicyType
  <2>2. OwnerType' /\ GuardianType' /\ SpendType' /\ PendingType'
    BY <1>2, UnchangedType, CancelType DEF guardian_freeze
  <2> QED BY <1>2, <2>1, <2>2 DEF guardian_freeze, TypeOK
<1>3. ASSUME NEW n \in Nullifiers, initiate_recovery(g, n) PROVE TypeOK'
  <2>1. GuardianType'
    BY <1>3, NumbersAssumption DEF initiate_recovery, TypeOK, GuardianType
  <2>2. PolicyType' /\ OwnerType' /\ SpendType' /\ PendingType'
    BY <1>3, UnchangedType DEF initiate_recovery
  <2> QED BY <1>3, <2>1, <2>2 DEF initiate_recovery, TypeOK
<1>4. CASE guardian_cancel_recovery(g)
  <2>1. /\ PolicyType' /\ OwnerType' /\ SpendType' /\ PendingType'
        /\ GuardianType'
    BY <1>4, UnchangedType, ClearRecoveryType DEF guardian_cancel_recovery
  <2> QED BY <1>4, <2>1 DEF guardian_cancel_recovery, TypeOK
<1> QED BY <1>1, <1>2, <1>3, <1>4

LEMMA ChainStepType ==
  ASSUME TypeOK, ChainStep
  PROVE  TypeOK'
<1>1. CASE Tick
  BY <1>1, UnchangedType DEF Tick, TypeOK
<1>2. ASSUME NEW amount \in Amounts, Deposit(amount) PROVE TypeOK'
  <2>1. SpendType'
    BY <1>2, NumbersAssumption DEF Deposit, TypeOK, SpendType
  <2> QED BY <1>2, <2>1, UnchangedType DEF Deposit, TypeOK
<1> QED BY <1>1, <1>2 DEF ChainStep

LEMMA TypeStep == TypeOK /\ [Next]_vars => TypeOK'
<1> SUFFICES ASSUME TypeOK, [Next]_vars PROVE TypeOK'
  OBVIOUS
<1>1. CASE OwnerStep
  BY <1>1, PayType, ScheduleType, RestrictType, CancelChangeType, CancelRecoveryType
  DEF OwnerStep
<1>2. CASE AnyoneStep
  BY <1>2, ApplyChangeType, ExecuteRecoveryType DEF AnyoneStep
<1>3. CASE UNCHANGED vars
  BY <1>3, UnchangedType DEF vars, TypeOK
<1> QED BY <1>1, <1>2, <1>3, GuardianStepType, ChainStepType DEF Next

\* Type correctness of the account: every reachable state of the storage is
\* well typed, for every set of owners, guardians, changes and every policy.
THEOREM TypeCorrect == Spec => []TypeOK
  BY TypeInit, TypeStep, PTL DEF Spec

-----------------------------------------------------------------------------
(***************************************************************************)
(* The safety properties                                                   *)
(***************************************************************************)
Narrows ==
  \A id \in DOMAIN pending' :
    /\ id \in DOMAIN pending
    /\ pending'[id] = pending[id]
    /\ scheduled_at'[id] = scheduled_at[id]

LEMMA ClearNarrows ==
  ASSUME TypeOK, NEW ids, clear_pending(ids)
  PROVE  Narrows /\ DOMAIN pending' = DOMAIN pending \ ids
  BY DEF TypeOK, PendingType, clear_pending, Narrows

LEMMA UnchangedNarrows ==
  ASSUME UNCHANGED pendingVars
  PROVE  Narrows
  BY DEF pendingVars, Narrows

(***************************************************************************)
(* The slots and the map of waiting changes.                               *)
(***************************************************************************)
LEMMA SlotsCleared ==
  ASSUME TypeOK, SlotsInv, NEW ids, clear_pending(ids), nonce' \in Nat, nonce' >= nonce,
         NoId \notin ids
  PROVE  SlotsInv'
<1>1. Narrows /\ DOMAIN pending' = DOMAIN pending \ ids
  BY ClearNarrows
<1>2. PendingListed'
  BY <1>1 DEF SlotsInv, PendingListed, pending_change_ids, clear_pending
<1>3. FreshIds'
  BY <1>1 DEF SlotsInv, FreshIds, TypeOK, PendingType, Ids
<1>4. NoDuplicates'
  BY <1>1 DEF SlotsInv, NoDuplicates, Narrows
<1> QED BY <1>2, <1>3, <1>4 DEF SlotsInv

LEMMA SlotsUnchanged ==
  ASSUME TypeOK, SlotsInv, UNCHANGED pendingVars, nonce' \in Nat, nonce' >= nonce
  PROVE  SlotsInv'
<1>1. PendingListed' /\ NoDuplicates'
  BY DEF SlotsInv, PendingListed, NoDuplicates, pending_change_ids, pendingVars
<1>2. FreshIds'
  BY DEF SlotsInv, FreshIds, TypeOK, PendingType, Ids, pendingVars
<1> QED BY <1>1, <1>2 DEF SlotsInv

LEMMA SlotsScheduled ==
  ASSUME TypeOK, SlotsInv, NEW p \in ChangeApprovals("SCHEDULE_CHANGE"), schedule_change(p)
  PROVE  /\ SlotsInv'
         /\ change_id(p) \notin DOMAIN pending
         /\ change_id(p) # NoId
<1> DEFINE id == change_id(p)
<1>1. p.nonce = nonce /\ nonce' = nonce + 1 /\ nonce \in Nat
  BY DEF schedule_change, authorize, TypeOK
<1>2. id.nonce = nonce /\ id.change = p.change
  BY <1>1 DEF change_id
<1>3. id \notin DOMAIN pending
  BY <1>1, <1>2 DEF SlotsInv, FreshIds
<1>4. id # NoId
  BY <1>1, <1>2 DEF NoId
<1>5. PICK s \in FreeSlots : pending_ids' = [pending_ids EXCEPT ![s] = id]
  BY DEF schedule_change, track_pending
<1>6. /\ DOMAIN pending' = DOMAIN pending \cup {id}
      /\ pending'[id].change = p.change
      /\ \A i \in DOMAIN pending : pending'[i] = pending[i]
  BY <1>3 DEF schedule_change
<1> HIDE DEF id
<1>7. PendingListed'
  BY <1>3, <1>4, <1>5, <1>6
  DEF SlotsInv, PendingListed, pending_change_ids, FreeSlots, TypeOK, PendingType
<1>8. FreshIds'
  BY <1>1, <1>2, <1>6 DEF SlotsInv, FreshIds, TypeOK, PendingType, Ids
<1>9. NoDuplicates'
  <2>1. \A i \in DOMAIN pending : pending[i].change # p.change
    BY DEF schedule_change, check_schedule, SlotsInv, PendingListed
  <2> QED BY <1>6, <2>1 DEF SlotsInv, NoDuplicates
<1> QED BY <1>3, <1>4, <1>7, <1>8, <1>9 DEF SlotsInv, id
(***************************************************************************)
(* The owners, and the removals that wait.                                 *)
(***************************************************************************)
LEMMA RemovalsFinite ==
  IsFiniteSet(RemovalSlots) /\ Cardinality(RemovalSlots) \in Nat
<1>1. IsFiniteSet(Slots)
  BY NumbersAssumption, FS_Interval DEF Slots
<1>2. RemovalSlots \in SUBSET Slots
  BY DEF RemovalSlots
<1>3. IsFiniteSet(RemovalSlots)
  BY <1>1, <1>2, FS_Subset
<1> QED BY <1>3, FS_CardinalityType

LEMMA OwnersFinite ==
  IsFiniteSet(CurrentOwners) /\ Cardinality(CurrentOwners) \in Nat
<1>1. CurrentOwners \in SUBSET Nullifiers
  BY DEF CurrentOwners
<1>2. IsFiniteSet(CurrentOwners)
  BY <1>1, IdentitiesAssumption, FS_Subset
<1> QED BY <1>2, FS_CardinalityType

LEMMA RemovalsCleared ==
  ASSUME TypeOK, SlotsInv, NEW ids, clear_pending(ids), NoId \notin ids
  PROVE  RemovalSlots' = {s \in RemovalSlots : pending_ids[s] \notin ids}
<1>1. \A s \in Slots : pending_ids[s] # NoId => pending_ids[s] \in DOMAIN pending
  BY DEF SlotsInv, PendingListed, pending_change_ids
<1>2. \A s \in Slots : pending_ids'[s] = IF pending_ids[s] \in ids THEN NoId ELSE pending_ids[s]
  BY DEF clear_pending
<1>3. \A i \in DOMAIN pending \ ids : pending'[i] = pending[i]
  BY DEF clear_pending
<1> QED BY <1>1, <1>2, <1>3 DEF RemovalSlots, FreeSlots

LEMMA OwnersNarrowed ==
  ASSUME TypeOK, SlotsInv, OwnersInv, NEW ids, clear_pending(ids), NoId \notin ids,
         UNCHANGED ownerVars
  PROVE  OwnersInv'
<1>1. Narrows
  BY ClearNarrows
<1>2. ScheduledChangesApply'
  BY <1>1 DEF Narrows, OwnersInv, ScheduledChangesApply, applicable, owner, ownerVars
<1>3. OwnersCounted'
  <2>1. RemovalSlots' \in SUBSET RemovalSlots
    BY RemovalsCleared
  <2>2. Cardinality(RemovalSlots') <= Cardinality(RemovalSlots) /\ Cardinality(RemovalSlots') \in Nat
    BY <2>1, RemovalsFinite, FS_Subset, FS_CardinalityType
  <2>3. CurrentOwners' = CurrentOwners
    BY DEF CurrentOwners, owner, ownerVars
  <2>4. owner_count' = owner_count /\ owner_count \in Nat
    BY DEF ownerVars, TypeOK, OwnerType
  <2>5. owner_count = Cardinality(CurrentOwners) /\ Cardinality(RemovalSlots) < owner_count
    BY DEF OwnersInv, OwnersCounted
  <2>6. Cardinality(RemovalSlots') < owner_count'
    BY <2>2, <2>4, <2>5, RemovalsFinite
  <2> QED BY <2>3, <2>4, <2>5, <2>6 DEF OwnersCounted
<1>4. EpochsPast'
  BY DEF OwnersInv, EpochsPast, ownerVars
<1> QED BY <1>2, <1>3, <1>4 DEF OwnersInv

LEMMA OwnersUnchanged ==
  ASSUME OwnersInv, UNCHANGED <<ownerVars, pendingVars>>
  PROVE  OwnersInv'
  BY DEF OwnersInv, ScheduledChangesApply, OwnersCounted, EpochsPast, CurrentOwners,
         RemovalSlots, FreeSlots, applicable, owner, ownerVars, pendingVars

LEMMA OwnersScheduled ==
  ASSUME TypeOK, SlotsInv, OwnersInv,
         NEW p \in ChangeApprovals("SCHEDULE_CHANGE"), schedule_change(p)
  PROVE  OwnersInv'
<1> DEFINE id == change_id(p)
<1>1. id \notin DOMAIN pending /\ id # NoId
  BY SlotsScheduled
<1>2. /\ DOMAIN pending' = DOMAIN pending \cup {id}
      /\ pending'[id].change = p.change
      /\ pending'[id].owner_epoch = owner_epoch
      /\ \A i \in DOMAIN pending : pending'[i] = pending[i]
  BY <1>1 DEF schedule_change
<1>3. UNCHANGED <<owners, owner_epoch, owner_count>>
  BY DEF schedule_change, ownerVars
<1>4. check_schedule(p.change)
  BY DEF schedule_change
<1>5. owner_count \in Nat /\ Cardinality(RemovalSlots) \in Nat /\ IsFiniteSet(RemovalSlots)
  BY RemovalsFinite DEF TypeOK, OwnerType
<1>6. PICK s \in FreeSlots : pending_ids' = [pending_ids EXCEPT ![s] = id]
  BY DEF schedule_change, track_pending
<1> HIDE DEF id
<1>7. applicable(p.change)
  BY <1>4, <1>5 DEF check_schedule, applicable
<1>8. ScheduledChangesApply'
  BY <1>2, <1>3, <1>7 DEF OwnersInv, ScheduledChangesApply, applicable, owner
<1>9. OwnersCounted'
  <2>1. CurrentOwners' = CurrentOwners
    BY <1>3 DEF CurrentOwners, owner
  <2>2. \A t \in Slots : t # s => pending_ids'[t] = pending_ids[t]
    BY <1>6 DEF FreeSlots, TypeOK, PendingType
  <2>3. s \in Slots /\ pending_ids[s] = NoId /\ pending_ids'[s] = id
    BY <1>6 DEF FreeSlots, TypeOK, PendingType
  <2>4. \A t \in Slots : pending_ids[t] # NoId => pending_ids[t] \in DOMAIN pending
    BY DEF SlotsInv, PendingListed, pending_change_ids
  <2>5. RemovalSlots' = IF p.change.kind = "REMOVE_OWNER" THEN RemovalSlots \cup {s}
                                                          ELSE RemovalSlots
    BY <1>1, <1>2, <2>2, <2>3, <2>4 DEF RemovalSlots, FreeSlots
  <2>6. CASE p.change.kind = "REMOVE_OWNER"
    <3>1. owner_count > 1 + Cardinality(RemovalSlots)
      BY <1>4, <2>6 DEF check_schedule
    <3>2. Cardinality(RemovalSlots \cup {s}) <= Cardinality(RemovalSlots) + 1
          /\ Cardinality(RemovalSlots \cup {s}) \in Nat
      <4>1. Cardinality(RemovalSlots \cup {s}) =
              IF s \in RemovalSlots THEN Cardinality(RemovalSlots) ELSE Cardinality(RemovalSlots) + 1
        BY <1>5, FS_AddElement
      <4> QED BY <1>5, <4>1
    <3>3. Cardinality(RemovalSlots') < owner_count'
      BY <1>3, <1>5, <2>5, <2>6, <3>1, <3>2
    <3> QED BY <1>3, <2>1, <3>3 DEF OwnersInv, OwnersCounted
  <2>7. CASE p.change.kind # "REMOVE_OWNER"
    BY <1>3, <2>1, <2>5, <2>7 DEF OwnersInv, OwnersCounted
  <2> QED BY <2>6, <2>7
<1>10. EpochsPast'
  BY <1>3 DEF OwnersInv, EpochsPast
<1> QED BY <1>8, <1>9, <1>10 DEF OwnersInv

LEMMA OwnersApplied ==
  ASSUME TypeOK, SlotsInv, OwnersInv, NEW id, apply_change(id)
  PROVE  OwnersInv'
<1> DEFINE c == pending[id].change
<1>1. id \in DOMAIN pending /\ clear_pending({id}) /\ apply(c) /\ applicable(c) /\ is_valid(c)
  BY DEF apply_change, apply, applicable
<1>2. c \in Changes
  BY <1>1 DEF TypeOK, PendingType, PendingChange
<1>3. id # NoId
  BY <1>1 DEF SlotsInv, PendingListed, pending_change_ids
<1>4. CASE ~apply_owner(c)
  <2>1. UNCHANGED ownerVars
    BY <1>1, <1>4 DEF apply, apply_guardian, apply_policy
  <2> QED BY <1>1, <1>3, <2>1, OwnersNarrowed
<1>5. CASE apply_owner(c)
  <2>1. PICK s \in Slots : pending_ids[s] = id
    BY <1>1 DEF SlotsInv, PendingListed, pending_change_ids
  <2>2. RemovalSlots' = RemovalSlots \ {s}
    <3>1. RemovalSlots' = {t \in RemovalSlots : pending_ids[t] \notin {id}}
      BY <1>1, <1>3, RemovalsCleared
    <3>2. \A t \in RemovalSlots : pending_ids[t] = id <=> t = s
      BY <1>3, <2>1 DEF SlotsInv, PendingListed, RemovalSlots
    <3> QED BY <3>1, <3>2
  <2>3. Narrows /\ id \notin DOMAIN pending'
    BY <1>1, ClearNarrows
  <2>4. c.nullifier \in Nullifiers /\ c.kind \in {"ADD_OWNER", "REMOVE_OWNER"}
    BY <1>1, <1>2, <1>5, ChangesAssumption DEF apply_owner, is_valid
  <2>5. /\ owner_epoch' = owner_epoch /\ owner_epoch \in Nat /\ owner_count \in Nat
        /\ owner_count = Cardinality(CurrentOwners) /\ Cardinality(RemovalSlots) < owner_count
    BY <1>5 DEF apply_owner, TypeOK, OwnerType, OwnersInv, OwnersCounted
  <2>6. EpochsPast'
    BY <1>5, <2>5 DEF apply_owner, OwnersInv, EpochsPast, owner_key
  \* Another change that waits is about another owner.
  <2>7. \A i \in DOMAIN pending' :
          /\ i \in DOMAIN pending /\ pending'[i] = pending[i]
          /\ pending[i].change \in Changes
          /\ pending[i].owner_epoch = owner_epoch
          /\ applicable(pending[i].change)
          /\ pending[i].change.kind = c.kind => pending[i].change.nullifier # c.nullifier
    <3>1. \A i \in DOMAIN pending' : i \in DOMAIN pending /\ pending'[i] = pending[i] /\ i # id
      BY <2>3 DEF Narrows
    <3>2. \A i \in DOMAIN pending : pending[i].change \in Changes
      BY DEF TypeOK, PendingType, PendingChange
    <3>3. \A i \in DOMAIN pending : i # id => pending[i].change # c
      BY <1>1 DEF SlotsInv, NoDuplicates
    <3>4. \A d \in Changes : d.kind = c.kind /\ d.nullifier = c.nullifier => d = c
      BY <1>2, <2>4, ChangesAssumption
    <3> QED BY <3>1, <3>2, <3>3, <3>4 DEF OwnersInv, ScheduledChangesApply
  <2> HIDE DEF c
  <2>8. CASE c.kind = "ADD_OWNER"
    <3>1. owners' = owners \cup {<<owner_epoch, c.nullifier>>} /\ owner_count' = owner_count + 1
      BY <1>5, <2>8 DEF apply_owner, owner_key
    <3>2. <<owner_epoch, c.nullifier>> \notin owners
      BY <1>1, <2>8 DEF applicable, owner, owner_key
    <3>3. CurrentOwners' = CurrentOwners \cup {c.nullifier} /\ c.nullifier \notin CurrentOwners
      BY <2>4, <2>5, <3>1, <3>2 DEF CurrentOwners, owner, owner_key
    <3>4. owner_count' = Cardinality(CurrentOwners')
      BY <2>5, <3>1, <3>3, OwnersFinite, FS_AddElement
    <3>5. Cardinality(RemovalSlots') < owner_count'
      BY <2>2, <2>5, <3>1, RemovalsFinite, FS_RemoveElement
    <3>6. ScheduledChangesApply'
      <4> SUFFICES ASSUME NEW i \in DOMAIN pending', NEW d, d = pending'[i].change
                   PROVE  /\ pending'[i].owner_epoch = owner_epoch'
                          /\ is_valid(d)
                          /\ d.kind = "ADD_OWNER" => <<owner_epoch', d.nullifier>> \notin owners'
                          /\ d.kind = "REMOVE_OWNER" =>
                               <<owner_epoch', d.nullifier>> \in owners' /\ owner_count' > 1
        BY DEF ScheduledChangesApply, applicable, owner, owner_key, is_valid
      <4>1. /\ pending'[i].owner_epoch = owner_epoch /\ applicable(d)
            /\ d.kind = "ADD_OWNER" => d.nullifier # c.nullifier
        BY <2>7, <2>8
      <4> QED BY <2>5, <3>1, <4>1 DEF applicable, owner, owner_key
    <3> QED BY <2>6, <3>4, <3>5, <3>6 DEF OwnersInv, OwnersCounted
  <2>9. CASE c.kind = "REMOVE_OWNER"
    <3>1. owners' = owners \ {<<owner_epoch, c.nullifier>>} /\ owner_count' = owner_count - 1
      BY <1>5, <2>9 DEF apply_owner, owner_key
    <3>2. <<owner_epoch, c.nullifier>> \in owners
      BY <1>1, <2>9 DEF applicable, owner, owner_key
    <3>3. CurrentOwners' = CurrentOwners \ {c.nullifier} /\ c.nullifier \in CurrentOwners
      BY <2>4, <2>5, <3>1, <3>2 DEF CurrentOwners, owner, owner_key
    <3>4. owner_count' = Cardinality(CurrentOwners')
      BY <2>5, <3>1, <3>3, OwnersFinite, FS_RemoveElement
    <3>5. s \in RemovalSlots
      BY <1>3, <2>1, <2>9 DEF RemovalSlots, FreeSlots, c
    <3>6. Cardinality(RemovalSlots') = Cardinality(RemovalSlots) - 1
      BY <2>2, <3>5, RemovalsFinite, FS_RemoveElement
    <3>7. Cardinality(RemovalSlots') < owner_count'
      BY <2>5, <3>1, <3>6, RemovalsFinite
    \* A removal that still waits is counted, so two owners are left.
    <3>8. ASSUME NEW i \in DOMAIN pending', pending'[i].change.kind = "REMOVE_OWNER"
          PROVE  owner_count' > 1
      <4>1. PICK t \in Slots : pending_ids[t] = i
        BY <2>7 DEF SlotsInv, PendingListed, pending_change_ids
      <4>2. i # NoId /\ i # id
        BY <2>3, <2>7 DEF SlotsInv, PendingListed, pending_change_ids
      <4>3. t \in RemovalSlots \ {s}
        BY <2>1, <2>7, <3>8, <4>1, <4>2 DEF RemovalSlots, FreeSlots
      <4>4. Cardinality(RemovalSlots \ {s}) # 0 /\ Cardinality(RemovalSlots \ {s}) \in Nat
        BY <4>3, RemovalsFinite, FS_RemoveElement, FS_EmptySet, FS_CardinalityType
      <4> QED BY <2>2, <2>5, <3>1, <3>7, <4>4
    <3>9. ScheduledChangesApply'
      BY <2>5, <2>7, <2>9, <3>1, <3>8 DEF ScheduledChangesApply, applicable, owner, owner_key
    <3> QED BY <2>6, <3>4, <3>7, <3>9 DEF OwnersInv, OwnersCounted
  <2> QED BY <2>4, <2>8, <2>9
<1> QED BY <1>4, <1>5

LEMMA OwnersRecovered ==
  ASSUME TypeOK, SlotsInv, OwnersInv, execute_recovery
  PROVE  OwnersInv'
<1>1. owner_epoch \in Nat /\ recovery.nullifier \in Nullifiers
  BY DEF TypeOK, OwnerType, GuardianType, execute_recovery, NoRecovery
<1>2. /\ owner_epoch' = owner_epoch + 1
      /\ owners' = owners \cup {<<owner_epoch + 1, recovery.nullifier>>}
      /\ owner_count' = 1
  BY DEF execute_recovery, owner_key
<1>3. clear_pending(pending_change_ids)
  BY DEF execute_recovery, cancel_pending_changes
<1>4. DOMAIN pending' = {} /\ NoId \notin pending_change_ids
  BY <1>3, ClearNarrows DEF SlotsInv, PendingListed, pending_change_ids
<1>5. RemovalSlots' = {}
  <2>1. RemovalSlots' = {s \in RemovalSlots : pending_ids[s] \notin pending_change_ids}
    BY <1>3, <1>4, RemovalsCleared
  <2> QED BY <2>1 DEF RemovalSlots, FreeSlots, pending_change_ids
<1>6. \A k \in owners : k[1] # owner_epoch + 1
  BY <1>1 DEF OwnersInv, EpochsPast, TypeOK, OwnerType
<1>7. CurrentOwners' = {recovery.nullifier}
  BY <1>1, <1>2, <1>6 DEF CurrentOwners, owner, owner_key
<1>8. OwnersCounted'
  <2>1. Cardinality(CurrentOwners') = 1
    BY <1>7, FS_Singleton
  <2>2. Cardinality(RemovalSlots') = 0
    BY <1>5, FS_EmptySet
  <2> QED BY <1>2, <2>1, <2>2 DEF OwnersCounted
<1>9. EpochsPast'
  BY <1>1, <1>2 DEF OwnersInv, EpochsPast, TypeOK, OwnerType
<1> QED BY <1>4, <1>8, <1>9 DEF OwnersInv, ScheduledChangesApply
(***************************************************************************)
(* Delays, freezing, recovery and fees.                                    *)
(***************************************************************************)
LEMMA PlansNarrowed ==
  ASSUME TypeOK, TypeOK', PlansInv, Narrows, frozen_at' = frozen_at, now' >= now
  PROVE  PlansInv'
<1> SUFFICES ASSUME NEW id \in DOMAIN pending', NEW c, c = pending'[id].change
             PROVE  /\ frozen_at' <= now'
                    /\ scheduled_at'[id] <= now'
                    /\ pending'[id].eta = scheduled_at'[id] + DelayOf(c)
                    /\ c.kind = "SET_GUARDIAN" \/ scheduled_at'[id] >= frozen_at'
                    /\ keeps_fees_payable(c)
  BY DEF PlansInv, DelayOf, keeps_fees_payable, TypeOK
<1>1. /\ id \in DOMAIN pending /\ pending'[id] = pending[id] /\ scheduled_at'[id] = scheduled_at[id]
      /\ scheduled_at[id] \in Nat /\ frozen_at \in Nat /\ now \in Nat /\ now' \in Nat
  BY DEF Narrows, TypeOK, PendingType
<1> QED BY <1>1 DEF PlansInv

LEMMA PlansFrozen ==
  ASSUME TypeOK, TypeOK', SlotsInv, PlansInv, NEW keep, cancel_pending_changes(keep),
         frozen_at' = now, now' = now
  PROVE  PlansInv'
<1>1. \A id \in DOMAIN pending' : /\ id \in DOMAIN pending
                                  /\ pending'[id] = pending[id]
                                  /\ scheduled_at'[id] = scheduled_at[id]
                                  /\ pending[id].change.kind = "SET_GUARDIAN"
  BY ClearNarrows DEF Narrows, cancel_pending_changes, SlotsInv, PendingListed
<1> QED BY <1>1 DEF PlansInv, DelayOf, keeps_fees_payable, TypeOK

LEMMA PlansScheduled ==
  ASSUME TypeOK, SlotsInv, PlansInv,
         NEW p \in ChangeApprovals("SCHEDULE_CHANGE"), schedule_change(p)
  PROVE  PlansInv'
<1> DEFINE id == change_id(p)
<1>1. id \notin DOMAIN pending
  BY SlotsScheduled
<1>2. /\ DOMAIN pending' = DOMAIN pending \cup {id}
      /\ pending'[id].change = p.change
      /\ pending'[id].eta = now + DelayOf(p.change)
      /\ scheduled_at'[id] = now
      /\ \A i \in DOMAIN pending : pending'[i] = pending[i] /\ scheduled_at'[i] = scheduled_at[i]
  BY <1>1, NumbersAssumption DEF schedule_change, change_eta, DelayOf, TypeOK, PendingType
<1>3. now' = now /\ frozen_at' = frozen_at /\ now \in Nat /\ frozen_at \in Nat
  BY DEF schedule_change, TypeOK
<1>4. keeps_fees_payable(p.change)
  BY DEF schedule_change, check_schedule
<1> HIDE DEF id
<1> QED BY <1>2, <1>3, <1>4 DEF PlansInv, DelayOf, keeps_fees_payable

LEMMA RecoveryCleared ==
  ASSUME clear_recovery
  PROVE  RecoveryInv'
  BY DEF clear_recovery, NoRecovery, RecoveryInv, RecoveryBelongsToGuardian

LEMMA RecoveryUnchanged ==
  ASSUME RecoveryInv, UNCHANGED guardianVars
  PROVE  RecoveryInv'
  BY DEF RecoveryInv, RecoveryBelongsToGuardian, guardianVars

LEMMA RecoveryApplied ==
  ASSUME RecoveryInv, NEW c, apply(c)
  PROVE  RecoveryInv'
<1>1. CASE apply_guardian(c)
  BY <1>1 DEF apply_guardian, clear_recovery, NoRecovery, RecoveryInv, RecoveryBelongsToGuardian
<1>2. CASE ~apply_guardian(c)
  BY <1>2, RecoveryUnchanged DEF apply, apply_owner, apply_policy
<1> QED BY <1>1, <1>2

LEMMA FeesUnchanged ==
  ASSUME FeesPayable, UNCHANGED <<per_tx_cap, daily_cap>>
  PROVE  FeesPayable'
  BY DEF FeesPayable

LEMMA FeesApplied ==
  ASSUME FeesPayable, NEW c \in Changes, apply(c), keeps_fees_payable(c)
  PROVE  FeesPayable'
<1>1. CASE c.kind = "SET_LIMITS"
  <2>1. per_tx_cap' = c.per_tx /\ daily_cap' = c.daily /\ is_valid(c)
    BY <1>1 DEF apply, applicable, apply_owner, apply_guardian, apply_policy
  <2> QED BY <1>1, <2>1, NumbersAssumption, ChangesAssumption
          DEF FeesPayable, is_valid, keeps_fees_payable
<1>2. CASE c.kind # "SET_LIMITS"
  BY <1>2 DEF apply, apply_owner, apply_guardian, apply_policy, policyVars, FeesPayable
<1> QED BY <1>1, <1>2

(***************************************************************************)
(* The day's window and what the token saw leave.                          *)
(***************************************************************************)
LEMMA LedgerSpent ==
  ASSUME TypeOK, LedgerAgrees, NEW amount \in Nat, record_spend(amount),
         transfer_usdg(amount), UNCHANGED now
  PROVE  LedgerAgrees'
<1>1. today' = today /\ today \in Nat /\ spent_today \in Nat /\ OutToday \in Nat
  BY TodayNat DEF today
<1>2. window' = [day |-> today, spent |-> spent_today + amount]
  BY DEF record_spend
<1>3. spent_today' = spent_today + amount
  BY <1>1, <1>2 DEF spent_today
<1>4. CASE amount = 0
  <2>1. OutToday' = OutToday /\ outflow' = outflow
    BY <1>1, <1>4 DEF OutToday, transfer_usdg
  <2> QED BY <1>1, <1>2, <1>3, <1>4, <2>1 DEF LedgerAgrees
<1>5. CASE amount # 0
  <2>1. outflow' = [day |-> today, total |-> OutToday + amount]
    BY <1>5 DEF transfer_usdg
  <2>2. OutToday' = OutToday + amount
    BY <1>1, <2>1 DEF OutToday
  <2> QED BY <1>1, <1>2, <1>3, <2>1, <2>2 DEF LedgerAgrees
<1> QED BY <1>4, <1>5

LEMMA LedgerUnchanged ==
  ASSUME LedgerAgrees, UNCHANGED <<window, outflow, now>>
  PROVE  LedgerAgrees'
  BY DEF LedgerAgrees, today, spent_today, OutToday

LEMMA LedgerTick ==
  ASSUME TypeOK, LedgerAgrees, Tick
  PROVE  LedgerAgrees'
<1>1. today \in Nat /\ today' \in Nat /\ today' >= today
  BY NumbersAssumption DEF TypeOK, Tick, today
<1>2. UNCHANGED <<window, outflow>> /\ window.day \in Nat /\ outflow.day \in Nat
  BY DEF Tick, spendVars, TypeOK, SpendType
<1>3. CASE today' = today
  BY <1>2, <1>3 DEF LedgerAgrees, spent_today, OutToday
<1>4. CASE today' > today
  BY <1>1, <1>2, <1>4 DEF LedgerAgrees, spent_today, OutToday
<1> QED BY <1>1, <1>3, <1>4

(***************************************************************************)
(* The invariant of the account, one step per action.                      *)
(***************************************************************************)
LEMMA CoreInit == Init => Core
<1> SUFFICES ASSUME Init PROVE Core
  OBVIOUS
<1>1. SlotsInv
  BY DEF Init, SlotsInv, PendingListed, FreshIds, NoDuplicates, pending_change_ids
<1>2. OwnersInv
  <2>1. CurrentOwners = {FirstOwner}
    BY IdentitiesAssumption DEF Init, CurrentOwners, owner, owner_key
  <2>2. RemovalSlots = {}
    BY DEF Init, RemovalSlots, FreeSlots
  <2>3. Cardinality(CurrentOwners) = 1 /\ Cardinality(RemovalSlots) = 0
    BY <2>1, <2>2, FS_Singleton, FS_EmptySet
  <2>4. OwnersCounted
    BY <2>3 DEF Init, OwnersCounted
  <2> QED BY <2>4 DEF Init, OwnersInv, ScheduledChangesApply, EpochsPast, owner_key
<1>3. PlansInv
  BY DEF Init, PlansInv
<1>4. RecoveryInv
  BY DEF Init, RecoveryInv, RecoveryBelongsToGuardian, NoRecovery
<1>5. FeesPayable
  BY PolicyAssumption DEF Init, FeesPayable, is_valid_policy
<1>6. LedgerAgrees
  BY TodayNat, TypeInit DEF Init, LedgerAgrees, spent_today, OutToday
<1> QED BY <1>1, <1>2, <1>3, <1>4, <1>5, <1>6 DEF Core

LEMMA PayCore ==
  ASSUME TypeOK, TypeOK', Core, NEW p \in PayApprovals, pay(p)
  PROVE  Core'
<1>1. p.amount + p.fee \in Nat
  <2>1. p.amount \in Amounts /\ p.fee \in Fees
    BY DEF PayApprovals
  <2>2. p.amount \in Nat /\ p.fee \in Nat
    BY <2>1, NumbersAssumption, Zenon
  <2> QED BY <2>2
<1>2. nonce' >= nonce /\ nonce' \in Nat /\ now' >= now
  BY DEF pay, authorize, TypeOK
<1>3. SlotsInv' /\ OwnersInv' /\ PlansInv' /\ RecoveryInv'
  BY <1>2, SlotsUnchanged, OwnersUnchanged, UnchangedNarrows, PlansNarrowed, RecoveryUnchanged
  DEF Core, pay
<1>4. FeesPayable'
  BY FeesUnchanged DEF Core, pay, policyVars
<1>5. LedgerAgrees'
  BY <1>1, LedgerSpent DEF Core, pay
<1> QED BY <1>3, <1>4, <1>5 DEF Core

LEMMA ScheduleCore ==
  ASSUME TypeOK, TypeOK', Core, NEW p \in ChangeApprovals("SCHEDULE_CHANGE"), schedule_change(p)
  PROVE  Core'
<1>1. p.fee \in Nat
  BY NumbersAssumption DEF ChangeApprovals
<1>2. SlotsInv' /\ OwnersInv' /\ PlansInv' /\ RecoveryInv'
  BY SlotsScheduled, OwnersScheduled, PlansScheduled, RecoveryUnchanged DEF Core, schedule_change
<1>3. FeesPayable'
  BY FeesUnchanged DEF Core, schedule_change, policyVars
<1>4. LedgerAgrees'
  BY <1>1, LedgerSpent DEF Core, schedule_change
<1> QED BY <1>2, <1>3, <1>4 DEF Core

LEMMA NoIdNotPending ==
  ASSUME SlotsInv
  PROVE  NoId \notin pending_change_ids /\ NoId \notin DOMAIN pending
  BY DEF SlotsInv, PendingListed, pending_change_ids

LEMMA RestrictCore ==
  ASSUME TypeOK, TypeOK', Core, NEW p \in ChangeApprovals("RESTRICT"), restrict(p)
  PROVE  Core'
<1>1. p.fee \in Nat /\ p.change \in Changes
  BY NumbersAssumption DEF ChangeApprovals
<1>2. nonce' >= nonce /\ nonce' \in Nat /\ now' = now /\ now' >= now
  BY DEF restrict, authorize, TypeOK
<1>3. UNCHANGED ownerVars
  BY DEF restrict, is_restrictive, apply, apply_owner, apply_guardian, apply_policy
<1>4. RecoveryInv' /\ FeesPayable'
  BY <1>1, RecoveryApplied, FeesApplied DEF Core, restrict
<1>5. LedgerAgrees'
  BY <1>1, <1>2, LedgerSpent, ChargeNat DEF Core, restrict
<1>6. CASE p.change.kind = "FREEZE"
  <2>1. cancel_pending_changes(FALSE) /\ frozen_at' = now
    BY <1>6 DEF restrict
  <2>2. clear_pending(pending_change_ids)
    BY <2>1 DEF cancel_pending_changes
  <2>3. SlotsInv' /\ OwnersInv'
    BY <1>2, <1>3, <2>2, NoIdNotPending, SlotsCleared, OwnersNarrowed DEF Core
  <2>4. PlansInv'
    BY <1>2, <2>1, PlansFrozen DEF Core
  <2> QED BY <1>4, <1>5, <2>3, <2>4 DEF Core
<1>7. CASE p.change.kind # "FREEZE"
  <2>1. UNCHANGED <<pendingVars, frozen_at>>
    BY <1>7 DEF restrict
  <2>2. SlotsInv' /\ OwnersInv' /\ PlansInv'
    BY <1>2, <1>3, <2>1, SlotsUnchanged, OwnersUnchanged, UnchangedNarrows, PlansNarrowed DEF Core
  <2> QED BY <1>4, <1>5, <2>2 DEF Core
<1> QED BY <1>6, <1>7

LEMMA CancelChangeCore ==
  ASSUME TypeOK, TypeOK', Core, NEW p \in CancelApprovals, cancel_change(p)
  PROVE  Core'
<1>1. p.fee \in Nat
  BY NumbersAssumption DEF CancelApprovals
<1>2. nonce' >= nonce /\ nonce' \in Nat /\ now' >= now
  BY DEF cancel_change, authorize, TypeOK
<1>3. clear_pending({p.id}) /\ NoId \notin {p.id}
  BY NoIdNotPending DEF cancel_change, Core
<1>4. SlotsInv' /\ OwnersInv' /\ PlansInv' /\ RecoveryInv'
  BY <1>2, <1>3, SlotsCleared, OwnersNarrowed, ClearNarrows, PlansNarrowed, RecoveryUnchanged
  DEF Core, cancel_change
<1>5. FeesPayable'
  BY FeesUnchanged DEF Core, cancel_change, policyVars
<1>6. LedgerAgrees'
  BY <1>1, LedgerSpent, ChargeNat DEF Core, cancel_change
<1> QED BY <1>4, <1>5, <1>6 DEF Core

LEMMA CancelRecoveryCore ==
  ASSUME TypeOK, TypeOK', Core, NEW p \in RecoveryApprovals, cancel_recovery(p)
  PROVE  Core'
<1>1. p.fee \in Nat
  BY NumbersAssumption DEF RecoveryApprovals
<1>2. nonce' >= nonce /\ nonce' \in Nat /\ now' >= now
  BY DEF cancel_recovery, authorize, TypeOK
<1>3. SlotsInv' /\ OwnersInv' /\ PlansInv' /\ RecoveryInv'
  BY <1>2, SlotsUnchanged, OwnersUnchanged, UnchangedNarrows, PlansNarrowed, RecoveryCleared
  DEF Core, cancel_recovery
<1>4. FeesPayable'
  BY FeesUnchanged DEF Core, cancel_recovery, policyVars
<1>5. LedgerAgrees'
  BY <1>1, LedgerSpent, ChargeNat DEF Core, cancel_recovery
<1> QED BY <1>3, <1>4, <1>5 DEF Core

LEMMA ApplyChangeCore ==
  ASSUME TypeOK, TypeOK', Core, NEW id, apply_change(id)
  PROVE  Core'
<1>1. /\ id \in DOMAIN pending /\ clear_pending({id}) /\ apply(pending[id].change)
      /\ nonce' >= nonce /\ nonce' \in Nat /\ now' >= now /\ frozen_at' = frozen_at
  BY DEF apply_change, TypeOK
<1>2. pending[id].change \in Changes /\ keeps_fees_payable(pending[id].change)
  BY <1>1 DEF TypeOK, PendingType, PendingChange, Core, PlansInv
<1>3. NoId \notin {id}
  BY <1>1, NoIdNotPending DEF Core
<1>4. SlotsInv' /\ OwnersInv' /\ PlansInv'
  BY <1>1, <1>3, SlotsCleared, OwnersApplied, ClearNarrows, PlansNarrowed DEF Core
<1>5. RecoveryInv' /\ FeesPayable'
  BY <1>1, <1>2, RecoveryApplied, FeesApplied DEF Core
<1>6. LedgerAgrees'
  BY LedgerUnchanged DEF Core, apply_change, spendVars
<1> QED BY <1>4, <1>5, <1>6 DEF Core

LEMMA ExecuteRecoveryCore ==
  ASSUME TypeOK, TypeOK', Core, execute_recovery
  PROVE  Core'
<1>1. clear_pending(pending_change_ids) /\ clear_recovery
  BY DEF execute_recovery, cancel_pending_changes
<1>2. nonce' >= nonce /\ nonce' \in Nat /\ now' >= now /\ frozen_at' = frozen_at
  BY DEF execute_recovery, TypeOK
<1>3. SlotsInv' /\ OwnersInv' /\ PlansInv' /\ RecoveryInv'
  BY <1>1, <1>2, NoIdNotPending, SlotsCleared, OwnersRecovered, ClearNarrows, PlansNarrowed,
     RecoveryCleared DEF Core
<1>4. FeesPayable'
  BY FeesUnchanged DEF Core, execute_recovery, policyVars
<1>5. LedgerAgrees'
  BY LedgerUnchanged DEF Core, execute_recovery, spendVars
<1> QED BY <1>3, <1>4, <1>5 DEF Core

LEMMA GuardianStepCore ==
  ASSUME TypeOK, TypeOK', Core, GuardianStep
  PROVE  Core'
<1> PICK g \in Guardians :
      \/ \E id \in pending_change_ids : guardian_cancel_change(g, id)
      \/ guardian_freeze(g)
      \/ \E n \in Nullifiers : initiate_recovery(g, n)
      \/ guardian_cancel_recovery(g)
  BY DEF GuardianStep
<1>1. ASSUME NEW id, guardian_cancel_change(g, id) PROVE Core'
  <2>1. /\ clear_pending({id}) /\ NoId \notin {id} /\ frozen_at' = frozen_at
        /\ nonce' >= nonce /\ nonce' \in Nat /\ now' >= now
    BY <1>1, NoIdNotPending DEF guardian_cancel_change, TypeOK, Core
  <2>2. SlotsInv' /\ OwnersInv' /\ PlansInv' /\ RecoveryInv'
    BY <1>1, <2>1, SlotsCleared, OwnersNarrowed, ClearNarrows, PlansNarrowed, RecoveryUnchanged
    DEF Core, guardian_cancel_change
  <2>3. FeesPayable' /\ LedgerAgrees'
    BY <1>1, FeesUnchanged, LedgerUnchanged
    DEF Core, guardian_cancel_change, policyVars, spendVars
  <2> QED BY <2>2, <2>3 DEF Core
<1>2. CASE guardian_freeze(g)
  <2> DEFINE ids == {id \in pending_change_ids :
                       ~(TRUE /\ pending[id].change.kind = "SET_GUARDIAN")}
  <2>1. /\ cancel_pending_changes(TRUE) /\ clear_pending(ids) /\ NoId \notin ids
        /\ nonce' >= nonce /\ nonce' \in Nat /\ now' = now /\ frozen_at' = now
    BY <1>2, NoIdNotPending DEF guardian_freeze, cancel_pending_changes, TypeOK, Core
  <2> HIDE DEF ids
  <2>2. SlotsInv' /\ OwnersInv' /\ RecoveryInv'
    BY <1>2, <2>1, SlotsCleared, OwnersNarrowed, RecoveryUnchanged DEF Core, guardian_freeze
  <2>3. PlansInv'
    BY <2>1, PlansFrozen DEF Core
  <2>4. FeesPayable' /\ LedgerAgrees'
    BY <1>2, FeesUnchanged, LedgerUnchanged DEF Core, guardian_freeze, spendVars
  <2> QED BY <2>2, <2>3, <2>4 DEF Core
<1>3. ASSUME NEW n \in Nullifiers, initiate_recovery(g, n) PROVE Core'
  <2>1. nonce' >= nonce /\ nonce' \in Nat /\ now' >= now
    BY <1>3 DEF initiate_recovery, TypeOK
  <2>2. SlotsInv' /\ OwnersInv' /\ PlansInv'
    BY <1>3, <2>1, SlotsUnchanged, OwnersUnchanged, UnchangedNarrows, PlansNarrowed
    DEF Core, initiate_recovery
  <2>3. RecoveryInv'
    BY <1>3 DEF initiate_recovery, require_guardian, RecoveryInv, RecoveryBelongsToGuardian
  <2>4. FeesPayable' /\ LedgerAgrees'
    BY <1>3, FeesUnchanged, LedgerUnchanged DEF Core, initiate_recovery, policyVars, spendVars
  <2> QED BY <2>2, <2>3, <2>4 DEF Core
<1>4. CASE guardian_cancel_recovery(g)
  <2>1. nonce' >= nonce /\ nonce' \in Nat /\ now' >= now
    BY <1>4 DEF guardian_cancel_recovery, TypeOK
  <2>2. SlotsInv' /\ OwnersInv' /\ PlansInv' /\ RecoveryInv'
    BY <1>4, <2>1, SlotsUnchanged, OwnersUnchanged, UnchangedNarrows, PlansNarrowed,
       RecoveryCleared DEF Core, guardian_cancel_recovery
  <2>3. FeesPayable' /\ LedgerAgrees'
    BY <1>4, FeesUnchanged, LedgerUnchanged
    DEF Core, guardian_cancel_recovery, policyVars, spendVars
  <2> QED BY <2>2, <2>3 DEF Core
<1> QED BY <1>1, <1>2, <1>3, <1>4

LEMMA ChainStepCore ==
  ASSUME TypeOK, TypeOK', Core, ChainStep
  PROVE  Core'
<1>1. nonce' >= nonce /\ nonce' \in Nat /\ now' >= now
  BY DEF ChainStep, Tick, Deposit, TypeOK
<1>2. UNCHANGED <<pendingVars, ownerVars, guardianVars, policyVars, frozen_at>>
  BY DEF ChainStep, Tick, Deposit
<1>3. SlotsInv' /\ OwnersInv' /\ PlansInv' /\ RecoveryInv' /\ FeesPayable'
  BY <1>1, <1>2, SlotsUnchanged, OwnersUnchanged, UnchangedNarrows, PlansNarrowed,
     RecoveryUnchanged, FeesUnchanged DEF Core, policyVars
<1>4. LedgerAgrees'
  BY LedgerTick, LedgerUnchanged DEF Core, ChainStep, Deposit
<1> QED BY <1>3, <1>4 DEF Core

LEMMA CoreStep == TypeOK /\ Core /\ [Next]_vars => Core'
<1> SUFFICES ASSUME TypeOK, Core, [Next]_vars PROVE Core'
  OBVIOUS
<1>1. TypeOK'
  BY TypeStep
<1>2. CASE OwnerStep
  BY <1>1, <1>2, PayCore, ScheduleCore, RestrictCore, CancelChangeCore, CancelRecoveryCore
  DEF OwnerStep
<1>3. CASE AnyoneStep
  BY <1>1, <1>3, ApplyChangeCore, ExecuteRecoveryCore DEF AnyoneStep
<1>4. CASE UNCHANGED vars
  <2>1. nonce' >= nonce /\ nonce' \in Nat /\ now' >= now
    BY <1>4 DEF vars, TypeOK
  <2> QED BY <1>1, <1>4, <2>1, SlotsUnchanged, OwnersUnchanged, UnchangedNarrows, PlansNarrowed,
             RecoveryUnchanged, FeesUnchanged, LedgerUnchanged
          DEF vars, Core, policyVars, spendVars
<1> QED BY <1>1, <1>2, <1>3, <1>4, GuardianStepCore, ChainStepCore DEF Next

\* The inductive invariant of the account: each part of Core is preserved by
\* every entry point of the contract, whatever the policy, the delays and the
\* number of slots.
THEOREM CoreInvariant == Spec => [](TypeOK /\ Core)
<1>1. Init => TypeOK /\ Core
  BY TypeInit, CoreInit
<1>2. TypeOK /\ Core /\ [Next]_vars => (TypeOK /\ Core)'
  BY TypeStep, CoreStep
<1> QED BY <1>1, <1>2, PTL DEF Spec

\* pending_ids and the map of waiting changes never disagree: no entry point
\* clears one without the other.
THEOREM PendingAlwaysListed == Spec => []PendingListed
<1>1. TypeOK /\ Core => PendingListed
  BY DEF Core, SlotsInv
<1> QED BY <1>1, CoreInvariant, PTL

\* apply_change never meets a waiting change that apply refuses: the checks of
\* check_schedule are enough at the time of scheduling, for any number of
\* changes that wait together.
THEOREM ScheduledAlwaysApply == Spec => []ScheduledChangesApply
<1>1. TypeOK /\ Core => ScheduledChangesApply
  BY DEF Core, OwnersInv
<1> QED BY <1>1, CoreInvariant, PTL

\* owner_count is exact and waiting removals can never leave the account
\* without an owner, across recoveries that replace all of them.
THEOREM OwnersAlwaysCounted == Spec => []OwnersCounted
<1>1. TypeOK /\ Core => OwnersCounted
  BY DEF Core, OwnersInv
<1> QED BY <1>1, CoreInvariant, PTL

\* A freeze, by restrict or by guardian_freeze, leaves nothing waiting that was
\* planned before it, except a change of the guardian.
THEOREM FreezeAlwaysOutlasts == Spec => []FreezeOutlastsPlans
<1>1. TypeOK /\ Core => FreezeOutlastsPlans
  BY DEF Core, PlansInv, FreezeOutlastsPlans
<1> QED BY <1>1, CoreInvariant, PTL

\* A waiting recovery is always the present guardian's: apply clears the one a
\* replaced guardian had started.
THEOREM RecoveryAlwaysGuardians == Spec => []RecoveryBelongsToGuardian
<1>1. TypeOK /\ Core => RecoveryBelongsToGuardian
  BY DEF Core, RecoveryInv
<1> QED BY <1>1, CoreInvariant, PTL

\* No change, restrictive or scheduled, brings the per-transaction cap below
\* the largest fee or above the daily cap.
THEOREM FeesAlwaysPayable == Spec => []FeesPayable
<1>1. TypeOK /\ Core => FeesPayable
  BY DEF Core
<1> QED BY <1>1, CoreInvariant, PTL
\* What an owner spent in a day fits its storage, whatever became of the caps
\* since.
WindowFits == window.spent <= MAX_U128

LEMMA WindowStep ==
  ASSUME TypeOK, WindowFits, [Next]_vars
  PROVE  WindowFits'
<1>1. ASSUME NEW amount, record_spend(amount)
      PROVE  WindowFits'
  BY <1>1 DEF record_spend, WindowFits
<1>2. ASSUME UNCHANGED window
      PROVE  WindowFits'
  BY <1>2 DEF WindowFits
<1>3. CASE OwnerStep
  <2>1. ASSUME NEW p, pay(p) \/ schedule_change(p) \/ restrict(p) \/ cancel_change(p) \/ cancel_recovery(p)
        PROVE  \E amount : record_spend(amount)
    BY <2>1 DEF pay, schedule_change, restrict, cancel_change, cancel_recovery
  <2> QED BY <1>1, <1>3, <2>1 DEF OwnerStep
<1>4. CASE GuardianStep
  BY <1>2, <1>4 DEF GuardianStep, guardian_cancel_change, guardian_freeze, initiate_recovery,
    guardian_cancel_recovery, spendVars
<1>5. CASE AnyoneStep
  BY <1>2, <1>5 DEF AnyoneStep, execute_recovery, apply_change, spendVars
<1>6. CASE ChainStep \/ UNCHANGED vars
  BY <1>2, <1>6 DEF ChainStep, Tick, Deposit, spendVars, vars
<1> QED BY <1>3, <1>4, <1>5, <1>6 DEF Next

\* What the calls of DefenceNeverRefused ask of the state, apart from an owner's
\* approval for the present nonce and a change or a recovery to cancel: the
\* freeze is a change the account accepts, and the part of the fee that is
\* charged fits the window and the balance.
DefencesPass ==
  \A fee \in {f \in Fees : f <= MaxFee /\ f <= balance} :
    /\ LET freeze == [kind |-> "FREEZE"]
       IN is_restrictive(freeze) /\ keeps_fees_payable(freeze) /\ applicable(freeze)
    /\ charge_fee(fee) \in Nat /\ spent_today + charge_fee(fee) <= MAX_U128
    /\ charge_fee(fee) <= balance

\* No check that restrict, cancel_change and cancel_recovery make of the state
\* fails: not for what was spent today, and not for a cap that was lowered below
\* it (SECURITY.md 2).
THEOREM DefencesAlwaysPass == Spec => []DefencesPass
<1>1. Init => WindowFits
  BY NumbersAssumption DEF Init, WindowFits
<1>2. TypeOK /\ Core /\ WindowFits => DefencesPass
  <2> SUFFICES ASSUME TypeOK, FeesPayable, WindowFits, NEW fee \in Fees, fee <= balance
               PROVE  /\ charge_fee(fee) \in Nat /\ spent_today + charge_fee(fee) <= MAX_U128
                      /\ charge_fee(fee) <= balance
    BY DEF Core, DefencesPass, is_restrictive, is_valid, keeps_fees_payable, applicable
  <2>1. /\ fee \in Nat /\ balance \in Nat /\ daily_cap \in Nat /\ MAX_U128 \in Nat
        /\ spent_today \in Nat /\ spent_today <= MAX_U128 /\ daily_cap <= MAX_U128
    BY NumbersAssumption DEF TypeOK, PolicyType, SpendType, FeesPayable, WindowFits, spent_today
  <2> QED BY <2>1 DEF charge_fee, left_today
<1> QED BY <1>1, <1>2, WindowStep, CoreInvariant, PTL DEF Spec
==============================================================================
