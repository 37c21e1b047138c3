------------------------ MODULE AccountActionProofs ------------------------
(***************************************************************************)
(* What no step of the account may do, and that the account implements     *)
(* DelayedControl, for every value of the constants.  Each theorem follows *)
(* from the invariant CoreInvariant establishes.                           *)
(***************************************************************************)
EXTENDS AccountRefinement, AccountProofs

\* The steps of the account by what they may touch: the first group leaves the
\* policy, the owners, the guardian and the waiting changes alone.
LEMMA StepCases ==
  ASSUME [Next]_vars
  PROVE  \/ \E p \in PayApprovals : pay(p)
         \/ \E p \in ChangeApprovals("SCHEDULE_CHANGE") : schedule_change(p)
         \/ \E p \in ChangeApprovals("RESTRICT") : restrict(p)
         \/ \E p \in CancelApprovals : cancel_change(p)
         \/ \E p \in RecoveryApprovals : cancel_recovery(p)
         \/ \E id \in pending_change_ids : apply_change(id)
         \/ execute_recovery
         \/ GuardianStep
         \/ ChainStep
         \/ UNCHANGED vars
  BY DEF Next, OwnerStep, AnyoneStep

\* Only applied and restrictive changes and the guardian's freeze touch the
\* policy.
LEMMA PolicyCases ==
  ASSUME [Next]_vars
  PROVE  \/ UNCHANGED policyVars
         \/ \E id \in pending_change_ids : apply_change(id)
         \/ \E p \in ChangeApprovals("RESTRICT") : restrict(p)
         \/ \E g \in Guardians : guardian_freeze(g)
<1>1. CASE GuardianStep
  BY <1>1 DEF GuardianStep, guardian_cancel_change, initiate_recovery, guardian_cancel_recovery
<1>2. CASE ChainStep
  BY <1>2 DEF ChainStep, Tick, Deposit
<1>3. CASE \E p \in PayApprovals : pay(p)
  BY <1>3 DEF pay
<1>4. CASE \E p \in ChangeApprovals("SCHEDULE_CHANGE") : schedule_change(p)
  BY <1>4 DEF schedule_change
<1>5. CASE \E p \in CancelApprovals : cancel_change(p)
  BY <1>5 DEF cancel_change
<1>6. CASE \E p \in RecoveryApprovals : cancel_recovery(p)
  BY <1>6 DEF cancel_recovery
<1>7. CASE execute_recovery
  BY <1>7 DEF execute_recovery
<1>8. CASE UNCHANGED vars
  BY <1>8 DEF vars
<1> QED BY <1>1, <1>2, <1>3, <1>4, <1>5, <1>6, <1>7, <1>8, StepCases

\* An applied change waited its delay and leaves with the step.
LEMMA AppliedWaited ==
  ASSUME IInv, NEW id, apply_change(id)
  PROVE  /\ id \in Gone
         /\ now >= scheduled_at[id] + DelayOf(pending[id].change)
         /\ scheduled_at[id] \in Nat
         /\ pending[id].change \in Changes
<1>1. id \in DOMAIN pending /\ now >= pending[id].eta /\ clear_pending({id})
  BY DEF apply_change
<1>2. id \notin DOMAIN pending'
  BY <1>1, ClearNarrows DEF IInv
<1>3. scheduled_at[id] \in Nat /\ pending[id].change \in Changes
  BY <1>1 DEF IInv, TypeOK, PendingType, PendingChange
<1>4. pending[id].eta = scheduled_at[id] + DelayOf(pending[id].change)
  BY <1>1 DEF IInv, Core, PlansInv
<1> QED BY <1>1, <1>2, <1>3, <1>4 DEF Gone

LEMMA DelayAtLeast ==
  ASSUME NEW c
  PROVE  /\ DelayOf(c) \in Nat /\ DelayOf(c) >= ChangeDelay
         /\ c.kind = "SET_GUARDIAN" => DelayOf(c) = ChangeDelay + RecoveryDelay
  BY NumbersAssumption DEF DelayOf

\* Once frozen, by restrict or guardian_freeze, the account pays again only
\* after an unfreeze that was scheduled since and waited the change delay.
THEOREM UnfreezeAlwaysWaits == Spec => UnfreezeWaits
<1>1. ASSUME IInv, [Next]_vars, frozen, ~frozen'
      PROVE  now >= frozen_at + ChangeDelay
  <2>1. CASE \E p \in ChangeApprovals("RESTRICT") : restrict(p)
    BY <1>1, <2>1 DEF restrict, is_restrictive, apply, apply_owner, apply_guardian, apply_policy,
                      policyVars
  <2>2. CASE \E id \in pending_change_ids : apply_change(id)
    <3>1. PICK id : apply_change(id)
      BY <2>2
    <3>2. pending[id].change.kind = "UNFREEZE"
      BY <1>1, <3>1 DEF apply_change, apply, apply_owner, apply_guardian, apply_policy, policyVars
    <3>3. id \in DOMAIN pending /\ scheduled_at[id] >= frozen_at
      BY <1>1, <3>1, <3>2 DEF apply_change, IInv, Core, PlansInv
    <3>4. now \in Nat /\ frozen_at \in Nat /\ ChangeDelay \in Nat
      BY <1>1, NumbersAssumption DEF IInv, TypeOK
    <3> QED BY <1>1, <3>1, <3>3, <3>4, AppliedWaited, DelayAtLeast
  <2>3. CASE \E g \in Guardians : guardian_freeze(g)
    BY <1>1, <2>3 DEF guardian_freeze
  <2>4. CASE UNCHANGED policyVars
    BY <1>1, <2>4 DEF policyVars
  <2> QED BY <1>1, <2>1, <2>2, <2>3, <2>4, PolicyCases
<1>2. IInv /\ [Next]_vars => [frozen /\ ~frozen' => now >= frozen_at + ChangeDelay]_vars
  BY <1>1
<1> QED BY <1>2, CoreInvariant, PTL DEF Spec, IInv, UnfreezeWaits

-----------------------------------------------------------------------------
(***************************************************************************)
(* Spending.                                                               *)
(***************************************************************************)

\* USDG leaves by the five calls an owner approves, and by nothing else.
LEMMA OutflowCases ==
  ASSUME IInv, [Next]_vars, balance' < balance
  PROVE  \/ \E p \in PayApprovals : pay(p)
         \/ \E p \in ChangeApprovals("SCHEDULE_CHANGE") : schedule_change(p)
         \/ \E p \in ChangeApprovals("RESTRICT") : restrict(p)
         \/ \E p \in CancelApprovals : cancel_change(p)
         \/ \E p \in RecoveryApprovals : cancel_recovery(p)
<1>1. balance \in Nat
  BY DEF IInv, TypeOK, SpendType
<1>2. GuardianStep => UNCHANGED spendVars
  BY DEF GuardianStep, guardian_cancel_change, guardian_freeze, initiate_recovery,
         guardian_cancel_recovery
<1>3. ~ChainStep
  <2>1. \A amount \in Amounts : amount \in Nat
    BY NumbersAssumption
  <2> QED BY <1>1, <2>1 DEF ChainStep, Tick, Deposit, spendVars
<1>4. execute_recovery \/ (\E id \in pending_change_ids : apply_change(id)) \/ UNCHANGED vars
        => UNCHANGED spendVars
  BY DEF execute_recovery, apply_change, vars
<1>5. ~UNCHANGED spendVars
  BY <1>1 DEF spendVars
<1> QED BY <1>2, <1>3, <1>4, <1>5, StepCases

\* A transfer of an amount the day's window still has room for.
LEMMA TransferWithinCap ==
  ASSUME IInv, NEW amount \in Nat, transfer_usdg(amount), balance' < balance,
         spent_today + amount <= daily_cap
  PROVE  outflow'.day = today /\ outflow'.total <= daily_cap
<1>1. balance \in Nat /\ amount # 0
  BY DEF IInv, TypeOK, SpendType, transfer_usdg
<1>2. outflow' = [day |-> today, total |-> OutToday + amount]
  BY <1>1 DEF transfer_usdg
<1> QED BY <1>2 DEF IInv, Core, LedgerAgrees

\* What charge_fee takes fits the day's window, if anything is taken.
LEMMA ChargeFits ==
  ASSUME IInv, NEW fee \in Nat
  PROVE  /\ charge_fee(fee) \in Nat /\ charge_fee(fee) <= fee
         /\ charge_fee(fee) # 0 => spent_today + charge_fee(fee) <= daily_cap
<1>1. spent_today \in Nat /\ daily_cap \in Nat
  BY TodayNat DEF IInv, TypeOK, PolicyType
<1> QED BY <1>1 DEF charge_fee, left_today

LEMMA FeeWithinCap ==
  ASSUME IInv, NEW fee \in Nat, transfer_usdg(charge_fee(fee)), balance' < balance
  PROVE  outflow'.day = today /\ outflow'.total <= daily_cap
<1>1. balance \in Nat /\ charge_fee(fee) \in Nat
  BY ChargeFits DEF IInv, TypeOK, SpendType
<1>2. charge_fee(fee) # 0
  BY <1>1 DEF transfer_usdg
<1> QED BY <1>1, <1>2, ChargeFits, TransferWithinCap

\* The daily cap bounds what the token sees leave in a UTC day, payments, fees
\* and the partly waived fees of safety actions together, even when the cap is
\* lowered during the day below what was already spent.
THEOREM OutflowAlwaysWithinCap == Spec => OutflowWithinCap
<1>1. ASSUME IInv, [Next]_vars, balance' < balance
      PROVE  outflow'.day = today /\ outflow'.total <= daily_cap
  <2>1. ASSUME NEW p \in PayApprovals, pay(p)
        PROVE  outflow'.day = today /\ outflow'.total <= daily_cap
    <3>1. p.amount \in Amounts /\ p.fee \in Fees
      BY DEF PayApprovals
    <3>2. p.amount \in Nat /\ p.fee \in Nat
      BY <3>1, NumbersAssumption, Zenon
    <3> QED BY <1>1, <2>1, <3>2, TransferWithinCap DEF pay, check_spend
  <2>2. ASSUME NEW p \in ChangeApprovals("SCHEDULE_CHANGE"), schedule_change(p)
        PROVE  outflow'.day = today /\ outflow'.total <= daily_cap
    <3>1. p.fee \in Nat
      BY NumbersAssumption DEF ChangeApprovals
    <3> QED BY <1>1, <2>2, <3>1, TransferWithinCap DEF schedule_change, check_spend
  <2>3. ASSUME NEW p \in ChangeApprovals("RESTRICT"), restrict(p)
        PROVE  outflow'.day = today /\ outflow'.total <= daily_cap
    <3>1. p.fee \in Nat
      BY NumbersAssumption DEF ChangeApprovals
    <3> QED BY <1>1, <2>3, <3>1, FeeWithinCap DEF restrict
  <2>4. ASSUME NEW p \in CancelApprovals, cancel_change(p)
        PROVE  outflow'.day = today /\ outflow'.total <= daily_cap
    <3>1. p.fee \in Nat
      BY NumbersAssumption DEF CancelApprovals
    <3> QED BY <1>1, <2>4, <3>1, FeeWithinCap DEF cancel_change
  <2>5. ASSUME NEW p \in RecoveryApprovals, cancel_recovery(p)
        PROVE  outflow'.day = today /\ outflow'.total <= daily_cap
    <3>1. p.fee \in Nat
      BY NumbersAssumption DEF RecoveryApprovals
    <3> QED BY <1>1, <2>5, <3>1, FeeWithinCap DEF cancel_recovery
  <2> QED BY <1>1, <2>1, <2>2, <2>3, <2>4, <2>5, OutflowCases
<1>2. IInv /\ [Next]_vars =>
        [balance' < balance => outflow'.day = today /\ outflow'.total <= daily_cap]_vars
  BY <1>1
<1> QED BY <1>2, CoreInvariant, PTL DEF Spec, IInv, OutflowWithinCap

LEMMA FeeOnly ==
  ASSUME IInv, NEW fee \in Nat, fee <= MaxFee,
         transfer_usdg(fee) \/ transfer_usdg(charge_fee(fee))
  PROVE  balance - balance' <= MaxFee
<1>1. balance \in Nat /\ MaxFee \in Nat
  BY NumbersAssumption DEF IInv, TypeOK, SpendType
<1> QED BY <1>1, ChargeFits DEF transfer_usdg

\* pay refuses a frozen account, and every other call an owner approves moves
\* at most its fee, which authorize bounds.
THEOREM FrozenAlwaysPaysOnlyFees == Spec => FrozenPaysOnlyFees
<1>1. ASSUME IInv, [Next]_vars, frozen, balance' < balance
      PROVE  balance - balance' <= MaxFee /\ nonce' = nonce + 1
  <2>1. ASSUME NEW p \in PayApprovals, pay(p)
        PROVE  FALSE
    BY <1>1, <2>1 DEF pay
  <2>2. ASSUME NEW p \in ChangeApprovals("SCHEDULE_CHANGE"), schedule_change(p)
        PROVE  balance - balance' <= MaxFee /\ nonce' = nonce + 1
    <3>1. p.fee \in Nat
      BY NumbersAssumption DEF ChangeApprovals
    <3> QED BY <1>1, <2>2, <3>1, FeeOnly DEF schedule_change, authorize
  <2>3. ASSUME NEW p \in ChangeApprovals("RESTRICT"), restrict(p)
        PROVE  balance - balance' <= MaxFee /\ nonce' = nonce + 1
    <3>1. p.fee \in Nat
      BY NumbersAssumption DEF ChangeApprovals
    <3> QED BY <1>1, <2>3, <3>1, FeeOnly DEF restrict, authorize
  <2>4. ASSUME NEW p \in CancelApprovals, cancel_change(p)
        PROVE  balance - balance' <= MaxFee /\ nonce' = nonce + 1
    <3>1. p.fee \in Nat
      BY NumbersAssumption DEF CancelApprovals
    <3> QED BY <1>1, <2>4, <3>1, FeeOnly DEF cancel_change, authorize
  <2>5. ASSUME NEW p \in RecoveryApprovals, cancel_recovery(p)
        PROVE  balance - balance' <= MaxFee /\ nonce' = nonce + 1
    <3>1. p.fee \in Nat
      BY NumbersAssumption DEF RecoveryApprovals
    <3> QED BY <1>1, <2>5, <3>1, FeeOnly DEF cancel_recovery, authorize
  <2> QED BY <1>1, <2>1, <2>2, <2>3, <2>4, <2>5, OutflowCases
<1>2. IInv /\ [Next]_vars =>
        [frozen /\ balance' < balance =>
           balance - balance' <= MaxFee /\ nonce' = nonce + 1]_vars
  BY <1>1
<1> QED BY <1>2, CoreInvariant, PTL DEF Spec, IInv, FrozenPaysOnlyFees

-----------------------------------------------------------------------------
(***************************************************************************)
(* Owners, the guardian and recovery.                                      *)
(***************************************************************************)

\* A waiting change leaves by an approval of an owner, by being applied, by a
\* recovery, or, unless it is about the guardian, by the guardian's call.
LEMMA GoneCases ==
  ASSUME IInv, [Next]_vars, NEW id \in Gone
  PROVE  \/ nonce' = nonce + 1
         \/ apply_change(id)
         \/ execute_recovery
         \/ pending[id].change.kind # "SET_GUARDIAN" /\ nonce' = nonce
<1>1. id \in DOMAIN pending /\ id \notin DOMAIN pending' /\ id \in pending_change_ids
  BY DEF Gone, IInv, Core, SlotsInv, PendingListed
<1>2. CASE OwnerStep
  BY <1>2 DEF OwnerStep, pay, schedule_change, restrict, cancel_change, cancel_recovery, authorize
<1>3. CASE \E i \in pending_change_ids : apply_change(i)
  <2>1. PICK i : apply_change(i)
    BY <1>3
  <2>2. DOMAIN pending' = DOMAIN pending \ {i}
    BY <2>1, ClearNarrows DEF apply_change, IInv
  <2> QED BY <1>1, <2>1, <2>2
<1>4. CASE GuardianStep
  <2>1. ASSUME NEW g \in Guardians, NEW i, guardian_cancel_change(g, i)
        PROVE  pending[id].change.kind # "SET_GUARDIAN" /\ nonce' = nonce
    <3>1. DOMAIN pending' = DOMAIN pending \ {i} /\ pending[i].change.kind # "SET_GUARDIAN"
      BY <2>1, ClearNarrows DEF guardian_cancel_change, IInv
    <3> QED BY <1>1, <2>1, <3>1 DEF guardian_cancel_change
  <2>2. ASSUME NEW g \in Guardians, guardian_freeze(g)
        PROVE  pending[id].change.kind # "SET_GUARDIAN" /\ nonce' = nonce
    <3>1. pending[id].change.kind # "SET_GUARDIAN"
      BY <1>1, <2>2 DEF guardian_freeze, cancel_pending_changes, clear_pending
    <3> QED BY <2>2, <3>1 DEF guardian_freeze
  <2>3. ASSUME NEW g \in Guardians, NEW n, initiate_recovery(g, n) \/ guardian_cancel_recovery(g)
        PROVE  FALSE
    BY <1>1, <2>3 DEF initiate_recovery, guardian_cancel_recovery, pendingVars
  <2> QED BY <1>4, <2>1, <2>2, <2>3 DEF GuardianStep
<1>5. CASE ChainStep \/ UNCHANGED vars
  BY <1>1, <1>5 DEF ChainStep, Tick, Deposit, vars, pendingVars
<1> QED BY <1>2, <1>3, <1>4, <1>5 DEF Next, AnyoneStep

LEMMA GuardianChangeApplied ==
  ASSUME IInv, NEW id, apply_change(id), pending[id].change.kind = "SET_GUARDIAN"
  PROVE  id \in Gone /\ GuardianReplacedBy(id)
<1>1. guardian_commitment' = pending[id].change.commitment
  BY DEF apply_change, apply, apply_owner, apply_guardian, apply_policy
<1> QED BY <1>1, AppliedWaited, DelayAtLeast, NumbersAssumption DEF GuardianReplacedBy

\* guardian_cancel_change and guardian_freeze leave a waiting change of the
\* guardian where it is.
THEOREM GuardianNeverVetoes == Spec => GuardianCannotVetoItsReplacement
<1>1. ASSUME IInv, [Next]_vars, NEW id \in Gone, pending[id].change.kind = "SET_GUARDIAN"
      PROVE  GuardianReplacedBy(id) \/ nonce' = nonce + 1 \/ owner_epoch' = owner_epoch + 1
  BY <1>1, GoneCases, GuardianChangeApplied DEF execute_recovery
<1>2. IInv /\ [Next]_vars =>
        [\A id \in Gone : pending[id].change.kind = "SET_GUARDIAN" =>
           \/ GuardianReplacedBy(id)
           \/ nonce' = nonce + 1
           \/ owner_epoch' = owner_epoch + 1]_vars
  BY <1>1
<1> QED BY <1>2, CoreInvariant, PTL DEF Spec, IInv, GuardianCannotVetoItsReplacement

\* The extra RecoveryDelay a change of the guardian waits is enough for a
\* recovery the guardian starts within the change delay.
THEOREM GuardianAlwaysActsInTime == Spec => GuardianActsInTime
<1>1. ASSUME IInv, [Next]_vars, NEW id \in Gone,
             pending[id].change.kind = "SET_GUARDIAN", recovery.eta # 0, nonce' = nonce
      PROVE  now >= recovery.eta \/ recovery_start.at > scheduled_at[id] + ChangeDelay
  <2>1. nonce \in Nat /\ now \in Nat /\ recovery_start.at \in Nat
    BY <1>1 DEF IInv, TypeOK, GuardianType
  <2>2. CASE apply_change(id)
    <3>1. now >= scheduled_at[id] + ChangeDelay + RecoveryDelay /\ scheduled_at[id] \in Nat
      BY <1>1, <2>2, GuardianChangeApplied, AppliedWaited DEF GuardianReplacedBy
    <3>2. recovery.eta = recovery_start.at + RecoveryDelay
      BY <1>1 DEF IInv, Core, RecoveryInv
    <3> QED BY <2>1, <3>1, <3>2, NumbersAssumption
  <2>3. CASE execute_recovery
    BY <2>3 DEF execute_recovery
  <2> QED BY <1>1, <2>1, <2>2, <2>3, GoneCases
<1>2. IInv /\ [Next]_vars =>
        [\A id \in Gone :
           pending[id].change.kind = "SET_GUARDIAN" /\ recovery.eta # 0 /\ nonce' = nonce =>
             \/ now >= recovery.eta
             \/ recovery_start.at > scheduled_at[id] + ChangeDelay]_vars
  BY <1>1
<1> QED BY <1>2, CoreInvariant, PTL DEF Spec, IInv, GuardianActsInTime

\* Only an applied change and an executed recovery touch the owners, and only an
\* applied change touches the guardian.
LEMMA ControlCases ==
  ASSUME [Next]_vars
  PROVE  \/ UNCHANGED <<ownerVars, guardian_commitment>>
         \/ \E id \in pending_change_ids : apply_change(id)
         \/ execute_recovery
<1>1. CASE GuardianStep
  BY <1>1 DEF GuardianStep, guardian_cancel_change, guardian_freeze, initiate_recovery,
              guardian_cancel_recovery, guardianVars
<1>2. CASE ChainStep
  BY <1>2 DEF ChainStep, Tick, Deposit, guardianVars
<1>3. CASE \E p \in PayApprovals : pay(p)
  BY <1>3 DEF pay, guardianVars
<1>4. CASE \E p \in ChangeApprovals("SCHEDULE_CHANGE") : schedule_change(p)
  BY <1>4 DEF schedule_change, guardianVars
<1>5. CASE \E p \in ChangeApprovals("RESTRICT") : restrict(p)
  BY <1>5 DEF restrict, is_restrictive, apply, apply_owner, apply_guardian, apply_policy, guardianVars
<1>6. CASE \E p \in CancelApprovals : cancel_change(p)
  BY <1>6 DEF cancel_change, guardianVars
<1>7. CASE \E p \in RecoveryApprovals : cancel_recovery(p)
  BY <1>7 DEF cancel_recovery
<1>8. CASE UNCHANGED vars
  BY <1>8 DEF vars, guardianVars
<1> QED BY <1>1, <1>2, <1>3, <1>4, <1>5, <1>6, <1>7, <1>8, StepCases

\* Owners and guardian change by apply_change and execute_recovery alone, never
\* before the delay has passed.
THEOREM ControlAlwaysWaits == Spec => ControlChangesWait
<1>1. ASSUME IInv, [Next]_vars
      PROVE  /\ \A n \in Nullifiers : owner(n)' # owner(n) => OwnerChangeWaited(n)
             /\ guardian_commitment' # guardian_commitment =>
                  \E id \in Gone : GuardianReplacedBy(id)
  <2>1. CASE UNCHANGED <<ownerVars, guardian_commitment>>
    BY <2>1 DEF ownerVars, owner
  <2>2. CASE \E id \in pending_change_ids : apply_change(id)
    <3>1. PICK id : apply_change(id)
      BY <2>2
    <3>2. apply(pending[id].change)
      BY <3>1 DEF apply_change
    <3>3. CASE apply_owner(pending[id].change)
      <4>1. pending[id].change.kind \in {"ADD_OWNER", "REMOVE_OWNER"}
            /\ guardian_commitment' = guardian_commitment
        BY <3>3 DEF apply_owner, guardianVars
      <4>2. id \in Gone /\ now >= scheduled_at[id] + ChangeDelay
        <5>1. now \in Nat /\ ChangeDelay \in Nat
          BY <1>1, NumbersAssumption DEF IInv, TypeOK
        <5> QED BY <1>1, <3>1, <5>1, AppliedWaited, DelayAtLeast
      <4>3. ASSUME NEW n \in Nullifiers, owner(n)' # owner(n)
            PROVE  pending[id].change.nullifier = n
        <5>1. owner(n)' <=> <<owner_epoch, n>> \in owners'
          BY <3>3 DEF apply_owner, owner, owner_key
        <5> QED BY <3>3, <4>3, <5>1 DEF apply_owner, owner, owner_key
      <4> QED BY <4>1, <4>2, <4>3 DEF OwnerChangeWaited
    <3>4. CASE apply_guardian(pending[id].change)
      <4>1. id \in Gone /\ GuardianReplacedBy(id)
        BY <1>1, <3>1, <3>4, GuardianChangeApplied DEF apply_guardian
      <4>2. UNCHANGED ownerVars
        BY <3>4 DEF apply_guardian
      <4> QED BY <4>1, <4>2 DEF ownerVars, owner
    <3>5. CASE apply_policy(pending[id].change)
      BY <3>5 DEF apply_policy, ownerVars, guardianVars, owner
    <3> QED BY <3>2, <3>3, <3>4, <3>5 DEF apply
  <2>3. CASE execute_recovery
    <3>1. recovery.eta # 0 /\ now >= recovery.eta /\ owner_epoch' = owner_epoch + 1
          /\ guardian_commitment' = guardian_commitment
      BY <2>3 DEF execute_recovery
    <3>2. recovery.eta = recovery_start.at + RecoveryDelay
      BY <1>1, <3>1 DEF IInv, Core, RecoveryInv
    <3> QED BY <3>1, <3>2 DEF OwnerChangeWaited
  <2> QED BY <1>1, <2>1, <2>2, <2>3, ControlCases
<1>2. IInv /\ [Next]_vars =>
        [/\ \A n \in Nullifiers : owner(n)' # owner(n) => OwnerChangeWaited(n)
         /\ guardian_commitment' # guardian_commitment =>
              \E id \in Gone : GuardianReplacedBy(id)]_vars
  BY <1>1
<1> QED BY <1>2, CoreInvariant, PTL DEF Spec, IInv, ControlChangesWait

-----------------------------------------------------------------------------
(***************************************************************************)
(* The policy.                                                             *)
(***************************************************************************)

\* What is_restrictive lets through at once accepts no new payment.
LEMMA RestrictiveTightens ==
  ASSUME IInv, NEW c \in Changes, is_restrictive(c), apply(c), UNCHANGED known_recipients,
         NEW to \in Addresses, NEW amount \in Nat, NEW sheet \in BOOLEAN,
         CanPay(to, amount, sheet)'
  PROVE  CanPay(to, amount, sheet)
<1>1. per_tx_cap \in Nat /\ daily_cap \in Nat /\ new_payee_cap \in Nat
  BY DEF IInv, TypeOK, PolicyType
<1>2. apply_policy(c)
  BY DEF is_restrictive, apply, apply_owner, apply_guardian
<1>3. CASE c.kind = "SET_LIMITS"
  <2>1. c.per_tx \in Nat /\ c.daily \in Nat
    BY <1>3, ChangesAssumption
  <2> QED BY <1>1, <1>2, <1>3, <2>1 DEF is_restrictive, apply_policy, CanPay
<1>4. CASE c.kind = "SET_NEW_PAYEE_CAP"
  <2>1. c.cap \in Nat
    BY <1>4, ChangesAssumption
  <2> QED BY <1>1, <1>2, <1>4, <2>1 DEF is_restrictive, apply_policy, CanPay
<1>5. CASE c.kind \in {"SET_ALLOWLIST", "SET_PAYMENT_SHEET", "SET_RECIPIENT"}
  BY <1>2, <1>5 DEF is_restrictive, apply_policy, CanPay
<1>6. CASE c.kind = "FREEZE"
  BY <1>2, <1>6 DEF apply_policy, CanPay
<1> QED BY <1>3, <1>4, <1>5, <1>6 DEF is_restrictive

\* A payee becomes known by a payment, which was within the new-payee cap if
\* the payee was not known or allowed before.
LEMMA PaymentIntroduces ==
  ASSUME IInv, NEW p \in PayApprovals, pay(p),
         NEW to \in Addresses, NEW amount \in Nat, NEW sheet \in BOOLEAN,
         ~CanPay(to, amount, sheet), CanPay(to, amount, sheet)'
  PROVE  /\ to \in known_recipients' \ known_recipients
         /\ balance - balance' <= new_payee_cap + MaxFee
<1>1. UNCHANGED policyVars /\ known_recipients' = known_recipients \cup {p.to}
  BY DEF pay
<1>2. p.to = to /\ to \notin known_recipients \cup allowed_recipients
  BY <1>1 DEF CanPay, policyVars
<1>3. p.amount \in Nat /\ p.fee \in Nat
  <2>1. p.amount \in Amounts /\ p.fee \in Fees
    BY DEF PayApprovals
  <2> QED BY <2>1, NumbersAssumption, Zenon
<1>4. p.amount <= new_payee_cap /\ p.fee <= MaxFee /\ balance' = balance - (p.amount + p.fee)
  BY <1>2 DEF pay, authorize, transfer_usdg
<1>5. balance \in Nat /\ new_payee_cap \in Nat /\ MaxFee \in Nat
  BY NumbersAssumption DEF IInv, TypeOK, SpendType, PolicyType
<1> QED BY <1>1, <1>2, <1>3, <1>4, <1>5

\* Only a payment makes a payee known.
LEMMA KnownCases ==
  ASSUME [Next]_vars
  PROVE  UNCHANGED known_recipients \/ \E p \in PayApprovals : pay(p)
<1>1. CASE GuardianStep
  BY <1>1 DEF GuardianStep, guardian_cancel_change, guardian_freeze, initiate_recovery,
              guardian_cancel_recovery
<1>2. CASE ChainStep \/ UNCHANGED vars
  BY <1>2 DEF ChainStep, Tick, Deposit, vars
<1>3. CASE OwnerStep
  BY <1>3 DEF OwnerStep, schedule_change, restrict, cancel_change, cancel_recovery
<1>4. CASE AnyoneStep
  BY <1>4 DEF AnyoneStep, execute_recovery, apply_change
<1> QED BY <1>1, <1>2, <1>3, <1>4 DEF Next

\* No step but an applied change accepts a payment that was refused before,
\* except that a payee once paid within the new-payee cap is known: restrict
\* and guardian_freeze only ever tighten.
THEOREM OnlyTheTimelockEverLoosens == Spec => OnlyTheTimelockLoosens
<1>1. ASSUME IInv, [Next]_vars,
             NEW to \in Addresses, NEW amount \in Amounts, NEW sheet \in BOOLEAN,
             ~CanPay(to, amount, sheet), CanPay(to, amount, sheet)'
      PROVE  \/ \E id \in Gone : now >= scheduled_at[id] + ChangeDelay
             \/ /\ to \in known_recipients' \ known_recipients
                /\ balance - balance' <= new_payee_cap + MaxFee
  <2>1. amount \in Nat
    BY NumbersAssumption
  <2>2. CASE \E id \in pending_change_ids : apply_change(id)
    <3>1. PICK id : apply_change(id)
      BY <2>2
    <3>2. now \in Nat /\ ChangeDelay \in Nat
      BY <1>1, NumbersAssumption DEF IInv, TypeOK
    <3>3. id \in Gone /\ now >= scheduled_at[id] + ChangeDelay
      BY <1>1, <3>1, <3>2, AppliedWaited, DelayAtLeast
    <3> QED BY <3>3
  <2>3. ASSUME NEW p \in ChangeApprovals("RESTRICT"), restrict(p)
        PROVE  FALSE
    <3>1. p.change \in Changes
      BY DEF ChangeApprovals
    <3> QED BY <1>1, <2>1, <2>3, <3>1, RestrictiveTightens DEF restrict
  <2>4. ASSUME NEW g \in Guardians, guardian_freeze(g)
        PROVE  FALSE
    BY <1>1, <2>4 DEF guardian_freeze, CanPay
  <2>5. CASE UNCHANGED policyVars
    <3>1. CASE UNCHANGED known_recipients
      BY <1>1, <2>5, <3>1 DEF CanPay, policyVars
    <3>2. CASE \E p \in PayApprovals : pay(p)
      BY <1>1, <2>1, <3>2, PaymentIntroduces
    <3> QED BY <1>1, <3>1, <3>2, KnownCases
  <2> QED BY <1>1, <2>2, <2>3, <2>4, <2>5, PolicyCases
<1>2. IInv /\ [Next]_vars =>
        [\A to \in Addresses, amount \in Amounts, sheet \in BOOLEAN :
           ~CanPay(to, amount, sheet) /\ CanPay(to, amount, sheet)' =>
             \/ \E id \in Gone : now >= scheduled_at[id] + ChangeDelay
             \/ /\ to \in known_recipients' \ known_recipients
                /\ balance - balance' <= new_payee_cap + MaxFee]_vars
  BY <1>1
<1> QED BY <1>2, CoreInvariant, PTL DEF Spec, IInv, OnlyTheTimelockLoosens

\* Whatever was approved, changed or recovered before: within a day at most the
\* daily cap leaves the account, and while it is frozen one fee per approval.
THEOREM SpendingAlwaysBounded == Spec => SpendingBounded
BY OutflowAlwaysWithinCap, FrozenAlwaysPaysOnlyFees DEF SpendingBounded

-----------------------------------------------------------------------------
(***************************************************************************)
(* The account implements DelayedControl.                                  *)
(*                                                                         *)
(* A step of the account maps to the step of DelayedControl that its entry *)
(* point is named after, or to a stutter when it only pays or tightens the *)
(* policy.  The invariant of AccountProofs gives what a mapped step relies *)
(* on: two waiting changes are never equal, waiting changes apply, and an  *)
(* applied removal leaves an owner.                                        *)
(***************************************************************************)
ControlVars == <<now, CurrentOwners, guardian_commitment, frozen, Plans, Takeovers>>

LEMMA PlansCleared ==
  ASSUME IInv, NEW ids, clear_pending(ids)
  PROVE  Plans' = {PlanOf(id) : id \in DOMAIN pending \ ids}
<1>1. Narrows /\ DOMAIN pending' = DOMAIN pending \ ids
  BY ClearNarrows DEF IInv
<1>2. \A id \in DOMAIN pending' : PlanOf(id)' = PlanOf(id)
  BY <1>1 DEF Narrows, PlanOf
<1> QED BY <1>1, <1>2 DEF Plans

\* Taking one change away takes one plan away: no other looks the same.
LEMMA PlanRemoved ==
  ASSUME IInv, NEW id \in DOMAIN pending, clear_pending({id})
  PROVE  PlanOf(id) \in Plans /\ Plans' = Plans \ {PlanOf(id)}
<1>1. \A i \in DOMAIN pending : PlanOf(i) = PlanOf(id) => i = id
  BY DEF PlanOf, IInv, Core, SlotsInv, NoDuplicates
<1>2. Plans' = {PlanOf(i) : i \in DOMAIN pending \ {id}}
  BY PlansCleared
<1> QED BY <1>1, <1>2 DEF Plans

LEMMA PlansUnchanged ==
  ASSUME UNCHANGED pendingVars
  PROVE  Plans' = Plans
  BY DEF Plans, PlanOf, pendingVars

LEMMA MembersUnchanged ==
  ASSUME UNCHANGED ownerVars
  PROVE  CurrentOwners' = CurrentOwners
  BY DEF CurrentOwners, owner, ownerVars

LEMMA TakeoversUnchanged ==
  ASSUME UNCHANGED guardianVars
  PROVE  Takeovers' = Takeovers /\ guardian_commitment' = guardian_commitment
  BY DEF Takeovers, guardianVars

LEMMA TakeoversCleared ==
  ASSUME clear_recovery
  PROVE  Takeovers' = {}
  BY DEF clear_recovery, NoRecovery, Takeovers

LEMMA InitMaps == Init => Control!Init
<1> SUFFICES ASSUME Init PROVE Control!Init
  OBVIOUS
<1>1. CurrentOwners = {FirstOwner}
  BY IdentitiesAssumption DEF Init, CurrentOwners, owner, owner_key
<1>2. Plans = {} /\ Takeovers = {}
  BY DEF Init, Plans, Takeovers, NoRecovery
<1> QED BY <1>1, <1>2 DEF Init, Control!Init

-----------------------------------------------------------------------------
LEMMA PayMaps ==
  ASSUME IInv, NEW p \in PayApprovals, pay(p)
  PROVE  UNCHANGED ControlVars
  BY PlansUnchanged, MembersUnchanged, TakeoversUnchanged DEF pay, ControlVars, policyVars

LEMMA ScheduleMaps ==
  ASSUME IInv, NEW p \in ChangeApprovals("SCHEDULE_CHANGE"), schedule_change(p)
  PROVE  p.change \in Changes /\ Control!Plan(p.change)
<1> DEFINE id == change_id(p)
<1>1. id \notin DOMAIN pending /\ p.change \in Changes
  BY SlotsScheduled DEF IInv, Core, ChangeApprovals
<1>2. /\ DOMAIN pending' = DOMAIN pending \cup {id}
      /\ pending'[id].change = p.change /\ pending'[id].eta = change_eta(p.change)
      /\ \A i \in DOMAIN pending : pending'[i] = pending[i]
  BY <1>1 DEF schedule_change
<1> HIDE DEF id
<1>3. Plans' = Plans \union {[change |-> p.change, due |-> change_eta(p.change)]}
  BY <1>1, <1>2 DEF Plans, PlanOf
<1>4. change_eta(p.change) = now + Control!Delay(p.change)
  BY NumbersAssumption DEF change_eta, Control!Delay, IInv, TypeOK
<1>5. \A q \in Plans : q.change # p.change
  <2>1. \A i \in DOMAIN pending : pending[i].change # p.change
    BY DEF schedule_change, check_schedule, IInv, Core, SlotsInv, PendingListed
  <2> QED BY <2>1 DEF Plans, PlanOf
<1>6. UNCHANGED <<now, CurrentOwners, guardian_commitment, frozen, Takeovers>>
  BY MembersUnchanged, TakeoversUnchanged DEF schedule_change, policyVars
<1> QED BY <1>1, <1>3, <1>4, <1>5, <1>6 DEF Control!Plan

LEMMA EverythingCleared ==
  ASSUME IInv, cancel_pending_changes(FALSE)
  PROVE  Plans' = {}
<1>1. clear_pending(DOMAIN pending)
  BY DEF cancel_pending_changes, IInv, Core, SlotsInv, PendingListed
<1> QED BY <1>1, PlansCleared

LEMMA RestrictMaps ==
  ASSUME IInv, NEW p \in ChangeApprovals("RESTRICT"), restrict(p)
  PROVE  Control!Halt \/ UNCHANGED ControlVars
<1>1. apply_policy(p.change) /\ now' = now /\ p.change.kind # "UNFREEZE"
  BY DEF restrict, is_restrictive, apply, apply_owner, apply_guardian
<1>2. UNCHANGED <<CurrentOwners, guardian_commitment, Takeovers>>
  BY <1>1, MembersUnchanged, TakeoversUnchanged DEF apply_policy
<1>3. CASE p.change.kind = "FREEZE"
  <2>1. frozen' = TRUE
    BY <1>1, <1>3 DEF apply_policy
  <2>2. Plans' = {}
    BY <1>3, EverythingCleared DEF restrict
  <2> QED BY <1>1, <1>2, <2>1, <2>2 DEF Control!Halt
<1>4. CASE p.change.kind # "FREEZE"
  <2>1. frozen' = frozen
    BY <1>1, <1>4 DEF apply_policy
  <2>2. Plans' = Plans
    BY <1>4, PlansUnchanged DEF restrict
  <2> QED BY <1>1, <1>2, <2>1, <2>2 DEF ControlVars
<1> QED BY <1>3, <1>4

LEMMA WithdrawMaps ==
  ASSUME IInv, NEW id \in DOMAIN pending, clear_pending({id}),
         UNCHANGED <<policyVars, ownerVars, guardianVars, now>>
  PROVE  \E q \in Plans : Control!Withdraw(q)
<1>1. Control!Withdraw(PlanOf(id))
  BY PlanRemoved, MembersUnchanged, TakeoversUnchanged DEF Control!Withdraw, policyVars
<1> QED BY <1>1, PlanRemoved

LEMMA CallOffMaps ==
  ASSUME clear_recovery, UNCHANGED <<policyVars, ownerVars, guardian_commitment, pendingVars, now>>
  PROVE  Control!CallOff
  BY TakeoversCleared, MembersUnchanged, PlansUnchanged DEF Control!CallOff, policyVars

-----------------------------------------------------------------------------
LEMMA MembersApplied ==
  ASSUME IInv, NEW c, apply_owner(c), applicable(c), c \in Changes
  PROVE  /\ c.kind = "ADD_OWNER" => CurrentOwners' = CurrentOwners \union {c.nullifier}
         /\ c.kind = "REMOVE_OWNER" => CurrentOwners' = CurrentOwners \ {c.nullifier}
<1>1. c.kind \in {"ADD_OWNER", "REMOVE_OWNER"} => c.nullifier \in Nullifiers
  BY ChangesAssumption DEF applicable, is_valid
<1> QED BY <1>1 DEF apply_owner, CurrentOwners, owner, owner_key

LEMMA EffectMaps ==
  ASSUME IInv, NEW c \in Changes, apply(c)
  PROVE  Control!Effect(c)
<1>1. CASE apply_owner(c)
  <2>1. UNCHANGED <<guardian_commitment, Takeovers, frozen>>
    BY <1>1, TakeoversUnchanged DEF apply_owner, policyVars
  <2>2. c.kind \in {"ADD_OWNER", "REMOVE_OWNER"}
    BY <1>1 DEF apply_owner
  <2> QED BY <1>1, <2>1, <2>2, MembersApplied DEF Control!Effect, apply, IInv, TypeOK, PolicyType
<1>2. CASE apply_guardian(c)
  <2>1. c.kind = "SET_GUARDIAN" /\ guardian_commitment' = c.commitment /\ frozen' = frozen
    BY <1>2 DEF apply_guardian, policyVars
  <2>2. Takeovers' = {}
    BY <1>2, TakeoversCleared DEF apply_guardian, Takeovers
  <2> QED BY <1>2, <2>1, <2>2, MembersUnchanged DEF Control!Effect, apply_guardian, IInv, TypeOK, PolicyType
<1>3. CASE apply_policy(c)
  <2>1. UNCHANGED <<CurrentOwners, guardian_commitment, Takeovers>>
    BY <1>3, MembersUnchanged, TakeoversUnchanged DEF apply_policy
  <2>2. /\ frozen' = IF c.kind \in {"FREEZE", "UNFREEZE"} THEN c.kind = "FREEZE" ELSE frozen
        /\ c.kind \notin {"ADD_OWNER", "REMOVE_OWNER", "SET_GUARDIAN"}
    BY <1>3 DEF apply_policy, IInv, TypeOK, PolicyType
  <2> QED BY <2>1, <2>2 DEF Control!Effect
<1> QED BY <1>1, <1>2, <1>3 DEF apply

\* owner_count, which the account keeps, says that an owner is left.
LEMMA SomebodyOwns == IInv => CurrentOwners # {}
<1> SUFFICES ASSUME IInv PROVE CurrentOwners # {}
  OBVIOUS
<1>1. Cardinality(RemovalSlots) \in Nat
  BY RemovalsFinite, FS_CardinalityType
<1>2. Cardinality(CurrentOwners) # 0
  BY <1>1, OwnersFinite DEF IInv, Core, OwnersInv, OwnersCounted
<1> QED BY <1>2, FS_EmptySet

LEMMA PerformMaps ==
  ASSUME IInv, IInv', NEW id \in DOMAIN pending, apply_change(id)
  PROVE  \E q \in Plans : Control!Perform(q)
<1>1. pending[id].change \in Changes /\ pending[id].eta <= now
  BY DEF apply_change, IInv, TypeOK, PendingType, PendingChange
<1>2. Control!Effect(pending[id].change)
  BY <1>1, EffectMaps DEF apply_change
<1>3. CurrentOwners' # {}
  <2>1. (IInv => CurrentOwners # {})'
    BY SomebodyOwns, PTL
  <2> QED BY <2>1
<1>4. PlanOf(id) \in Plans /\ Plans' = Plans \ {PlanOf(id)} /\ now' = now
  BY PlanRemoved DEF apply_change
<1>5. Control!Perform(PlanOf(id))
  BY <1>1, <1>2, <1>3, <1>4 DEF Control!Perform, PlanOf
<1> QED BY <1>4, <1>5

LEMMA TakeOverMaps ==
  ASSUME IInv, execute_recovery
  PROVE  \E t \in Takeovers : Control!TakeOver(t)
<1> DEFINE t == [owner |-> recovery.nullifier, due |-> recovery.eta]
<1>1. t \in Takeovers /\ t.due <= now
  BY DEF execute_recovery, Takeovers, IInv, TypeOK, GuardianType
<1>2. CurrentOwners' = {t.owner}
  <2>1. owner_epoch \in Nat /\ recovery.nullifier \in Nullifiers
    BY DEF IInv, TypeOK, OwnerType, GuardianType, execute_recovery, NoRecovery
  <2>2. \A k \in owners : k[1] # owner_epoch + 1
    BY <2>1 DEF IInv, Core, OwnersInv, EpochsPast, TypeOK, OwnerType
  <2> QED BY <2>1, <2>2 DEF execute_recovery, CurrentOwners, owner, owner_key
<1>3. Plans' = {} /\ Takeovers' = {}
  BY EverythingCleared, TakeoversCleared DEF execute_recovery
<1>4. UNCHANGED <<now, guardian_commitment, frozen>>
  BY DEF execute_recovery, policyVars
<1>5. Control!TakeOver(t)
  BY <1>1, <1>2, <1>3, <1>4 DEF Control!TakeOver
<1> QED BY <1>1, <1>5

LEMMA GuardianFreezeMaps ==
  ASSUME IInv, NEW g \in Guardians, guardian_freeze(g)
  PROVE  Control!Halt
<1> DEFINE ids == {id \in DOMAIN pending : pending[id].change.kind # "SET_GUARDIAN"}
<1>1. clear_pending(ids)
  <2>1. ids = {id \in pending_change_ids : ~(TRUE /\ pending[id].change.kind = "SET_GUARDIAN")}
    BY DEF IInv, Core, SlotsInv, PendingListed
  <2> QED BY <2>1 DEF guardian_freeze, cancel_pending_changes
<1>2. Plans' = {PlanOf(id) : id \in DOMAIN pending \ ids}
  BY <1>1, PlansCleared
<1>3. Plans' = {p \in Plans : p.change.kind = "SET_GUARDIAN"}
  BY <1>2 DEF Plans, PlanOf
<1>4. UNCHANGED <<now, CurrentOwners, guardian_commitment, Takeovers>> /\ frozen' = TRUE
  BY MembersUnchanged, TakeoversUnchanged DEF guardian_freeze
<1> QED BY <1>3, <1>4 DEF Control!Halt

LEMMA AnnounceMaps ==
  ASSUME IInv, NEW g \in Guardians, NEW n \in Nullifiers, initiate_recovery(g, n)
  PROVE  Control!AnnounceTakeover(n)
<1>1. now + RecoveryDelay # 0
  BY NumbersAssumption DEF IInv, TypeOK
<1>2. Takeovers' = {[owner |-> n, due |-> now + RecoveryDelay]}
  BY <1>1 DEF initiate_recovery, Takeovers
<1>3. UNCHANGED <<now, CurrentOwners, guardian_commitment, frozen, Plans>>
  BY MembersUnchanged, PlansUnchanged DEF initiate_recovery, policyVars
<1> QED BY <1>2, <1>3 DEF initiate_recovery, require_guardian, Control!AnnounceTakeover

LEMMA GuardianStepMaps ==
  ASSUME IInv, GuardianStep
  PROVE  Control!Next
<1>1. PICK g \in Guardians :
        \/ \E id \in pending_change_ids : guardian_cancel_change(g, id)
        \/ guardian_freeze(g)
        \/ \E n \in Nullifiers : initiate_recovery(g, n)
        \/ guardian_cancel_recovery(g)
  BY DEF GuardianStep
<1>2. ASSUME NEW id, guardian_cancel_change(g, id) PROVE Control!Next
  <2>1. id \in DOMAIN pending /\ clear_pending({id})
        /\ UNCHANGED <<policyVars, ownerVars, guardianVars, now>>
    BY <1>2 DEF guardian_cancel_change
  <2>2. \E q \in Plans : Control!Withdraw(q)
    BY <2>1, WithdrawMaps
  <2> QED BY <2>2 DEF Control!Next
<1>3. CASE guardian_freeze(g)
  BY <1>3, GuardianFreezeMaps DEF Control!Next
<1>4. ASSUME NEW n \in Nullifiers, initiate_recovery(g, n) PROVE Control!Next
  BY <1>4, AnnounceMaps DEF Control!Next
<1>5. CASE guardian_cancel_recovery(g)
  <2>1. Control!CallOff
    BY <1>5, CallOffMaps DEF guardian_cancel_recovery
  <2> QED BY <2>1 DEF Control!Next
<1> QED BY <1>1, <1>2, <1>3, <1>4, <1>5

LEMMA ChainStepMaps ==
  ASSUME IInv, ChainStep
  PROVE  Control!Next \/ UNCHANGED ControlVars
<1>1. UNCHANGED <<CurrentOwners, guardian_commitment, frozen, Plans, Takeovers>>
  BY MembersUnchanged, PlansUnchanged, TakeoversUnchanged DEF ChainStep, Tick, Deposit, policyVars
<1>2. CASE Tick
  <2>1. Control!Pass
    BY <1>1, <1>2 DEF Tick, Control!Pass
  <2> QED BY <2>1 DEF Control!Next
<1>3. CASE \E amount \in Amounts : Deposit(amount)
  BY <1>1, <1>3 DEF Deposit, ControlVars
<1> QED BY <1>2, <1>3 DEF ChainStep

LEMMA StepMaps ==
  ASSUME IInv, IInv', [Next]_vars
  PROVE  Control!Next \/ UNCHANGED ControlVars
<1>1. ASSUME NEW p \in PayApprovals, pay(p) PROVE UNCHANGED ControlVars
  BY <1>1, PayMaps
<1>2. ASSUME NEW p \in ChangeApprovals("SCHEDULE_CHANGE"), schedule_change(p) PROVE Control!Next
  BY <1>2, ScheduleMaps DEF Control!Next
<1>3. ASSUME NEW p \in ChangeApprovals("RESTRICT"), restrict(p)
      PROVE  Control!Next \/ UNCHANGED ControlVars
  BY <1>3, RestrictMaps DEF Control!Next
<1>4. ASSUME NEW p \in CancelApprovals, cancel_change(p) PROVE Control!Next
  <2>1. p.id \in DOMAIN pending /\ clear_pending({p.id})
        /\ UNCHANGED <<policyVars, ownerVars, guardianVars, now>>
    BY <1>4 DEF cancel_change
  <2>2. \E q \in Plans : Control!Withdraw(q)
    BY <2>1, WithdrawMaps
  <2> QED BY <2>2 DEF Control!Next
<1>5. ASSUME NEW p \in RecoveryApprovals, cancel_recovery(p) PROVE Control!Next
  <2>1. Control!CallOff
    BY <1>5, CallOffMaps DEF cancel_recovery
  <2> QED BY <2>1 DEF Control!Next
<1>6. ASSUME NEW id \in pending_change_ids, apply_change(id) PROVE Control!Next
  <2>1. \E q \in Plans : Control!Perform(q)
    BY <1>6, PerformMaps DEF IInv, Core, SlotsInv, PendingListed
  <2> QED BY <2>1 DEF Control!Next
<1>7. CASE execute_recovery
  <2>1. \E t \in Takeovers : Control!TakeOver(t)
    BY <1>7, TakeOverMaps
  <2> QED BY <2>1 DEF Control!Next
<1>8. CASE UNCHANGED vars
  BY <1>8, MembersUnchanged, PlansUnchanged, TakeoversUnchanged DEF vars, policyVars, ControlVars
<1> QED BY <1>1, <1>2, <1>3, <1>4, <1>5, <1>6, <1>7, <1>8, GuardianStepMaps, ChainStepMaps, StepCases

\* Every behaviour of the account is one of DelayedControl: whatever the owners,
\* the guardian and anyone else call, control changes only by plans that waited
\* in the open, by a freeze, and by recoveries that waited.
THEOREM AccountImplementsControl == Spec => ImplementsControl
<1>1. IInv /\ IInv' /\ [Next]_vars => [Control!Next]_Control!vars
  <2> SUFFICES ASSUME IInv, IInv', [Next]_vars PROVE [Control!Next]_Control!vars
    OBVIOUS
  <2>1. Control!vars' = Control!vars <=> UNCHANGED ControlVars
    BY DEF Control!vars, ControlVars
  <2> QED BY <2>1, StepMaps
<1>2. Spec => []IInv
  BY CoreInvariant, PTL DEF IInv
<1> QED BY <1>1, <1>2, InitMaps, PTL DEF Spec, ImplementsControl, Control!Spec
=============================================================================
