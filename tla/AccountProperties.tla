-------------------------- MODULE AccountProperties --------------------------
(***************************************************************************)
(* What the account promises (SECURITY.md, "What must always hold").       *)
(***************************************************************************)
EXTENDS VeraKeyAccount

Ids == [nonce: Nat, change: Changes, fee: Nat, deadline: Nat]

PendingChange == [change: Changes, eta: Nat \ {0}, owner_epoch: Nat]

PolicyType ==
  /\ frozen \in BOOLEAN /\ allowlist_enabled \in BOOLEAN
  /\ payment_sheet_required \in BOOLEAN
  /\ per_tx_cap \in Nat /\ daily_cap \in Nat /\ new_payee_cap \in Nat
  /\ allowed_recipients \subseteq Addresses

SpendType ==
  /\ window \in [day: Nat, spent: Nat]
  /\ balance \in Nat
  /\ outflow \in [day: Nat, total: Nat]

OwnerType ==
  /\ owners \subseteq Nat \X Nullifiers
  /\ owner_epoch \in Nat /\ owner_count \in Nat

GuardianType ==
  /\ guardian_commitment \in Guardians \cup {NoGuardian}
  /\ recovery \in [nullifier: Nullifiers, eta: Nat \ {0}] \cup {NoRecovery}
  /\ recovery_start \in [by: Guardians \cup {NoGuardian}, at: Nat]

PendingType ==
  /\ pending_ids \in [Slots -> Ids \cup {NoId}]
  /\ DOMAIN pending \subseteq Ids
  /\ pending \in [DOMAIN pending -> PendingChange]
  /\ scheduled_at \in [DOMAIN pending -> Nat]

\* Type correctness of the storage, the clock and the balance; a waiting
\* recovery always names a usable nullifier.
TypeOK ==
  /\ PolicyType /\ SpendType /\ OwnerType /\ GuardianType /\ PendingType
  /\ known_recipients \subseteq Addresses
  /\ nonce \in Nat
  /\ now \in Nat \ {0}
  /\ frozen_at \in Nat

-----------------------------------------------------------------------------
(***************************************************************************)
(* Waiting changes.                                                        *)
(***************************************************************************)

\* Every change that waits is in exactly one slot of pending_ids, and every
\* used slot names a change that waits: owners see on any device all that can
\* still be applied, and a freeze, which walks the slots, misses nothing
\* (SECURITY.md 5 and 7).
PendingListed ==
  /\ pending_change_ids = DOMAIN pending
  /\ \A s, t \in Slots : pending_ids[s] = pending_ids[t] /\ s # t => pending_ids[s] = NoId

\* A change that waits can be applied once it is due, whatever was applied,
\* cancelled or recovered since it was scheduled: no waiting change is one that
\* could only hold a slot (check_schedule; SECURITY.md 6).
ScheduledChangesApply ==
  \A id \in DOMAIN pending :
    pending[id].owner_epoch = owner_epoch /\ applicable(pending[id].change)

CurrentOwners == {n \in Nullifiers : owner(n)}

\* owner_count, which every removal check trusts, counts the owners of the
\* current epoch, and removals, applied or waiting, always leave one.
OwnersCounted ==
  /\ owner_count = Cardinality(CurrentOwners)
  /\ Cardinality(RemovalSlots) < owner_count

-----------------------------------------------------------------------------
(***************************************************************************)
(* Freezing, the guardian and recovery.                                    *)
(***************************************************************************)

\* Nothing scheduled before the last freeze still waits, except a change to
\* the guardian: what a freeze is meant to stop cannot be applied later
\* (SECURITY.md 5).
FreezeOutlastsPlans ==
  \A id \in DOMAIN pending :
    pending[id].change.kind = "SET_GUARDIAN" \/ scheduled_at[id] >= frozen_at

\* The account stays frozen for at least the change delay after its last
\* freeze, by an owner or by the guardian.
UnfreezeWaits ==
  [][frozen /\ ~frozen' => now >= frozen_at + ChangeDelay]_vars

\* A waiting recovery was started by the guardian the account has now: a
\* guardian that was replaced keeps no way in (SECURITY.md 10).
RecoveryBelongsToGuardian ==
  recovery.eta # 0 =>
    /\ recovery_start.by = guardian_commitment
    /\ guardian_commitment # NoGuardian

Gone == DOMAIN pending \ DOMAIN pending'

\* An owner enters or leaves: by a recovery, or by a change about this owner.
OwnerChangeWaited(n) ==
  \/ /\ recovery.eta # 0
     /\ now >= recovery_start.at + RecoveryDelay
     /\ owner_epoch' = owner_epoch + 1
  \/ \E id \in Gone :
       /\ pending[id].change.kind \in {"ADD_OWNER", "REMOVE_OWNER"}
       /\ pending[id].change.nullifier = n
       /\ now >= scheduled_at[id] + ChangeDelay

\* A change of the guardian is applied in this step, and waited its delay.
GuardianReplacedBy(id) ==
  /\ pending[id].change.kind = "SET_GUARDIAN"
  /\ guardian_commitment' = pending[id].change.commitment
  /\ now >= scheduled_at[id] + ChangeDelay + RecoveryDelay

\* Who controls the account changes only after the delay the owners were given
\* to object: an owner enters or leaves by a change at least ChangeDelay old or
\* by a recovery at least RecoveryDelay old, the guardian changes by a change
\* at least ChangeDelay + RecoveryDelay old.
ControlChangesWait ==
  [][/\ \A n \in Nullifiers : owner(n)' # owner(n) => OwnerChangeWaited(n)
     /\ guardian_commitment' # guardian_commitment =>
          \E id \in Gone : GuardianReplacedBy(id)]_vars

\* The guardian cannot take a waiting change of the guardian away: it goes by
\* being applied when due, by an owner's approval (the nonce moves) or because
\* a recovery the owners let pass replaced them all.
GuardianCannotVetoItsReplacement ==
  [][\A id \in Gone : pending[id].change.kind = "SET_GUARDIAN" =>
       \/ GuardianReplacedBy(id)
       \/ nonce' = nonce + 1
       \/ owner_epoch' = owner_epoch + 1]_vars

\* A change of the guardian that is applied while a recovery waits stops only a
\* recovery that could already be executed or that was started later than
\* ChangeDelay after the change was scheduled: a guardian that acts within the
\* change delay finishes first (SECURITY.md 10).
GuardianActsInTime ==
  [][\A id \in Gone :
       pending[id].change.kind = "SET_GUARDIAN" /\ recovery.eta # 0 /\ nonce' = nonce =>
         \/ now >= recovery.eta
         \/ recovery_start.at > scheduled_at[id] + ChangeDelay]_vars

-----------------------------------------------------------------------------
(***************************************************************************)
(* Spending.                                                               *)
(***************************************************************************)

\* The per-transaction cap covers every fee and fits the daily cap, which fits
\* its storage: no sequence of changes makes the account's own fees unpayable.
FeesPayable ==
  /\ MaxFee <= per_tx_cap /\ per_tx_cap <= daily_cap
  /\ daily_cap <= MAX_U128

\* USDG leaves the account only while the day's total, counted by the token,
\* stays within the daily cap in force, fees of safety actions included
\* (SECURITY.md 2).
OutflowWithinCap ==
  [][balance' < balance => outflow'.day = today /\ outflow'.total <= daily_cap]_vars

\* From a frozen account nothing leaves but one fee of an approval at a time.
FrozenPaysOnlyFees ==
  [][frozen /\ balance' < balance =>
       balance - balance' <= MaxFee /\ nonce' = nonce + 1]_vars

\* What leaves the account: within the day's cap, and fees alone once it is frozen.
SpendingBounded == OutflowWithinCap /\ FrozenPaysOnlyFees

\* The owners can always freeze, veto a change and stop a recovery: whatever
\* was spent today and however low the caps are, these calls do not revert as
\* long as the account holds the fee (SECURITY.md 2).
DefenceNeverRefused ==
  \A s \in CurrentOwners, f \in {x \in Fees : x <= MaxFee /\ x <= balance} :
    /\ LET freeze == [kind |-> "RESTRICT", signer |-> s, nonce |-> nonce, fee |-> f,
                      deadline |-> now, sheet |-> FALSE, change |-> [kind |-> "FREEZE"]]
       IN ENABLED restrict(freeze)
    /\ \A id \in DOMAIN pending :
         LET veto == [kind |-> "CANCEL_CHANGE", signer |-> s, nonce |-> nonce, fee |-> f,
                      deadline |-> now, sheet |-> FALSE, id |-> id]
         IN ENABLED cancel_change(veto)
    /\ recovery.eta # 0 =>
         LET stop == [kind |-> "CANCEL_RECOVERY", signer |-> s, nonce |-> nonce, fee |-> f,
                      deadline |-> now, sheet |-> FALSE, nullifier |-> recovery.nullifier]
         IN ENABLED cancel_recovery(stop)

\* The payments the policy accepts, the day's window and the balance aside.
CanPay(to, amount, sheet) ==
  /\ ~frozen
  /\ allowlist_enabled => to \in allowed_recipients
  /\ payment_sheet_required => sheet
  /\ amount <= per_tx_cap /\ amount <= daily_cap
  /\ to \notin known_recipients \cup allowed_recipients => amount <= new_payee_cap

\* The account starts to accept a payment it refused before only by a change
\* that waited the change delay, or because the payee has just been paid within
\* the new-payee cap: nothing else loosens the policy (SECURITY.md 4 and 6).
OnlyTheTimelockLoosens ==
  [][\A to \in Addresses, amount \in Amounts, sheet \in BOOLEAN :
       ~CanPay(to, amount, sheet) /\ CanPay(to, amount, sheet)' =>
         \/ \E id \in Gone : now >= scheduled_at[id] + ChangeDelay
         \/ /\ to \in known_recipients' \ known_recipients
            /\ balance - balance' <= new_payee_cap + MaxFee]_vars

-----------------------------------------------------------------------------
(***************************************************************************)
(* Liveness.  Blocks keep coming, and whoever scheduled a change (or       *)
(* anyone else: the call needs no proof) calls apply_change once it can.   *)
(***************************************************************************)
FairSpec ==
  /\ Spec
  /\ WF_vars(Tick)
  /\ \A s \in Slots : WF_vars(apply_change(pending_ids[s]))

\* No change holds its slot forever: each is applied or cancelled, so the
\* MAX_PENDING slots cannot fill up for good.
SlotsAreFreed ==
  \A s \in Slots : pending_ids[s] # NoId ~> pending_ids[s] = NoId

-----------------------------------------------------------------------------
(***************************************************************************)
(* The strengthening that makes the invariants inductive.                  *)
(***************************************************************************)

\* The nonce of a waiting change is consumed, so the next id is new.
FreshIds == \A id \in DOMAIN pending : id.nonce < nonce

NoDuplicates ==
  \A i, j \in DOMAIN pending : pending[i].change = pending[j].change => i = j

SlotsInv == PendingListed /\ FreshIds /\ NoDuplicates

\* The keys of earlier epochs stay in storage; no key is of a later epoch.
EpochsPast == \A k \in owners : k[1] <= owner_epoch

OwnersInv == ScheduledChangesApply /\ OwnersCounted /\ EpochsPast

DelayOf(c) == ChangeDelay + IF c.kind = "SET_GUARDIAN" THEN RecoveryDelay ELSE 0

PlansInv ==
  /\ frozen_at <= now
  /\ \A id \in DOMAIN pending :
       /\ scheduled_at[id] <= now
       /\ pending[id].eta = scheduled_at[id] + DelayOf(pending[id].change)
       /\ pending[id].change.kind = "SET_GUARDIAN" \/ scheduled_at[id] >= frozen_at
       /\ keeps_fees_payable(pending[id].change)

RecoveryInv ==
  /\ RecoveryBelongsToGuardian
  /\ recovery.eta # 0 => recovery.eta = recovery_start.at + RecoveryDelay

\* The token's account of the day and the contract's window agree.
LedgerAgrees ==
  /\ window.day <= today /\ outflow.day <= today
  /\ OutToday = spent_today

Core == SlotsInv /\ OwnersInv /\ PlansInv /\ RecoveryInv /\ FeesPayable /\ LedgerAgrees

IInv == TypeOK /\ Core
=============================================================================
