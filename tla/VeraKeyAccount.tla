--------------------------- MODULE VeraKeyAccount ---------------------------
(***************************************************************************)
(* The VeraKey smart account (contracts/stylus/account/src/lib.rs) with    *)
(* the policy it takes from verakey_core (changes.rs, spending.rs).        *)
(*                                                                         *)
(* A transaction either runs to its end or reverts, so every entry point   *)
(* is one action whose guard is the conjunction of the checks that would   *)
(* otherwise revert.  Hashes are modelled by what is hashed: a change_data *)
(* hash is the change, a change id (the action hash of the authorization   *)
(* that scheduled it) is the record of what was signed.                    *)
(*                                                                         *)
(* A proof-authorized call carries an approval p: what some passkey holder *)
(* signed, for one nonce and until a deadline.  The account is specified   *)
(* against every approval its callers might hold, signed by anybody, at    *)
(* any time before: Next quantifies over all of them.                      *)
(***************************************************************************)
EXTENDS Integers, FiniteSets

CONSTANTS
  Nullifiers,           \* the identities passkeys may have in this app
  ZeroNullifier,        \* B256::ZERO, never an owner
  FirstOwner,           \* owner_nullifier given to initialize
  Guardians,            \* guardian commitments (account, address and salt)
  NoGuardian,           \* commitment B256::ZERO: no guardian
  Addresses,            \* addresses a payment may name
  ZeroAddress, Account, \* Address::ZERO and the account's own address
  Changes,              \* the change payloads owners may propose, valid or not
  Amounts, Fees,        \* amounts and fees an approval may name
  PerTxCap, DailyCap, NewPayeeCap,  \* initial policy
  MaxFee, ChangeDelay, RecoveryDelay,
  MAX_U128, MAX_PENDING, MAX_DEADLINE_WINDOW, SECONDS_PER_DAY,
  MaxTime, MaxNonce, MaxEpoch, MaxBalance  \* bounds of the model, not of the code

Slots == 1 .. MAX_PENDING

NoId == [nonce |-> -1]  \* B256::ZERO in pending_ids: a free slot

(***************************************************************************)
(* config.rs: is_valid_policy.  The factory and initialize both refuse     *)
(* anything else.                                                          *)
(***************************************************************************)
is_valid_policy ==
  /\ 0 < PerTxCap /\ PerTxCap <= DailyCap
  /\ DailyCap <= MAX_U128
  /\ NewPayeeCap <= MAX_U128
  /\ MaxFee <= PerTxCap

ASSUME NumbersAssumption ==
  /\ {PerTxCap, DailyCap, NewPayeeCap, MaxFee, ChangeDelay, RecoveryDelay} \subseteq Nat
  /\ {MAX_U128, MAX_PENDING, MAX_DEADLINE_WINDOW} \subseteq Nat
  /\ SECONDS_PER_DAY \in Nat \ {0}
  /\ {MaxTime, MaxNonce, MaxEpoch, MaxBalance} \subseteq Nat
  /\ Amounts \subseteq Nat /\ Fees \subseteq Nat

ASSUME PolicyAssumption == is_valid_policy

ASSUME IdentitiesAssumption ==
  /\ IsFiniteSet(Nullifiers)
  /\ FirstOwner \in Nullifiers
  /\ ZeroNullifier \notin Nullifiers
  /\ NoGuardian \notin Guardians

(***************************************************************************)
(* Payloads are ABI-decoded before anything else looks at them: a change   *)
(* is the record its payload decodes to, with values of the right type     *)
(* (not necessarily acceptable ones).                                      *)
(***************************************************************************)
ASSUME ChangesAssumption ==
  \A c \in Changes :
    /\ c.kind \in {"ADD_OWNER", "REMOVE_OWNER", "SET_LIMITS", "SET_RECIPIENT",
                   "SET_ALLOWLIST", "SET_GUARDIAN", "SET_NEW_PAYEE_CAP",
                   "FREEZE", "UNFREEZE", "SET_PAYMENT_SHEET"}
    /\ c.kind \in {"ADD_OWNER", "REMOVE_OWNER"} =>
         c.nullifier \in Nullifiers \cup {ZeroNullifier}
    /\ c.kind = "SET_LIMITS" => c.per_tx \in Nat /\ c.daily \in Nat
    /\ c.kind = "SET_RECIPIENT" => c.recipient \in Addresses /\ c.on \in BOOLEAN
    /\ c.kind \in {"SET_ALLOWLIST", "SET_PAYMENT_SHEET"} => c.on \in BOOLEAN
    /\ c.kind = "SET_GUARDIAN" => c.commitment \in Guardians \cup {NoGuardian}
    /\ c.kind = "SET_NEW_PAYEE_CAP" => c.cap \in Nat
    \* an owner change is its kind and its nullifier, and nothing else
    /\ c.kind \in {"ADD_OWNER", "REMOVE_OWNER"} =>
         \A d \in Changes : d.kind = c.kind /\ d.nullifier = c.nullifier => d = c

VARIABLES
  frozen, allowlist_enabled, payment_sheet_required,
  per_tx_cap, daily_cap, new_payee_cap,
  allowed_recipients, known_recipients,
  nonce,
  window,               \* spend_day and spent_today
  owners,               \* the owner keys <<epoch, nullifier>> that are set
  owner_epoch, owner_count,
  guardian_commitment,
  recovery,             \* recovery_nullifier and recovery_eta (0: none)
  pending_ids,          \* the MAX_PENDING slots
  pending,              \* the scheduled changes, by id
  now,                  \* block timestamp
  balance               \* the account's USDG

\* History, read by properties only.
VARIABLES
  scheduled_at,         \* when each waiting change was scheduled
  frozen_at,            \* when the account was last frozen
  recovery_start,       \* which guardian started the waiting recovery, and when
  outflow               \* the USDG that left the account on one day

policyVars == <<frozen, allowlist_enabled, payment_sheet_required, per_tx_cap,
                daily_cap, new_payee_cap, allowed_recipients>>
ownerVars == <<owners, owner_epoch, owner_count>>
guardianVars == <<guardian_commitment, recovery, recovery_start>>
pendingVars == <<pending_ids, pending, scheduled_at>>
spendVars == <<window, balance, outflow>>
vars == <<policyVars, known_recipients, nonce, spendVars, ownerVars, guardianVars,
          pendingVars, now, frozen_at>>

-----------------------------------------------------------------------------
(***************************************************************************)
(* Owners and the guardian.                                                *)
(***************************************************************************)
owner_key(epoch, nullifier) == <<epoch, nullifier>>

owner(nullifier) == owner_key(owner_epoch, nullifier) \in owners

\* The guardian proves itself by a caller and salt that hash to the commitment.
require_guardian(g) == guardian_commitment # NoGuardian /\ g = guardian_commitment

-----------------------------------------------------------------------------
(***************************************************************************)
(* changes.rs: which changes are valid, and which only tighten.            *)
(***************************************************************************)
is_valid(c) ==
  /\ c.kind \in {"ADD_OWNER", "REMOVE_OWNER"} => c.nullifier # ZeroNullifier
  /\ c.kind = "SET_LIMITS" =>
       /\ c.per_tx # 0 /\ c.per_tx <= c.daily
       /\ c.daily <= MAX_U128
  /\ c.kind = "SET_RECIPIENT" => c.recipient # ZeroAddress
  /\ c.kind = "SET_NEW_PAYEE_CAP" => c.cap <= MAX_U128

\* Mutant: the daily cap is compared with the largest fee.
keeps_fees_payable_daily(c) == c.kind = "SET_LIMITS" => c.daily >= MaxFee

keeps_fees_payable(c) == c.kind = "SET_LIMITS" => c.per_tx >= MaxFee

\* Mutant: lowering one of the two caps is enough.
is_restrictive_either_cap(c) ==
  /\ is_valid(c)
  /\ \/ c.kind = "SET_LIMITS" /\ (c.per_tx <= per_tx_cap \/ c.daily <= daily_cap)
     \/ c.kind = "SET_NEW_PAYEE_CAP" /\ c.cap <= new_payee_cap
     \/ c.kind \in {"SET_ALLOWLIST", "SET_PAYMENT_SHEET"} /\ c.on
     \/ c.kind = "SET_RECIPIENT" /\ ~c.on
     \/ c.kind = "FREEZE"

is_restrictive(c) ==
  /\ is_valid(c)
  /\ \/ c.kind = "SET_LIMITS" /\ c.per_tx <= per_tx_cap /\ c.daily <= daily_cap
     \/ c.kind = "SET_NEW_PAYEE_CAP" /\ c.cap <= new_payee_cap
     \/ c.kind \in {"SET_ALLOWLIST", "SET_PAYMENT_SHEET"} /\ c.on
     \/ c.kind = "SET_RECIPIENT" /\ ~c.on
     \/ c.kind = "FREEZE"

-----------------------------------------------------------------------------
(***************************************************************************)
(* spending.rs: one window per UTC day.                                    *)
(***************************************************************************)
today == now \div SECONDS_PER_DAY

spent_today == IF window.day = today THEN window.spent ELSE 0

check_spend(amount) ==
  /\ amount <= per_tx_cap
  /\ spent_today + amount <= daily_cap

\* saturating_sub: a cap lowered below today's spending leaves nothing.
left_today == IF daily_cap > spent_today THEN daily_cap - spent_today ELSE 0

\* Mutant: nothing is waived.
charge_fee_in_full(fee) == fee

\* The part of a safety action's fee that is charged; the rest is waived.
charge_fee(fee) == IF fee <= left_today THEN fee ELSE left_today

\* record_spend stores a u128: a larger sum would panic, which reverts.
record_spend(amount) ==
  /\ spent_today + amount <= MAX_U128
  /\ window' = [day |-> today, spent |-> spent_today + amount]

\* What left the account today, by the token's account of it.
OutToday == IF outflow.day = today THEN outflow.total ELSE 0

\* Mutant: a transfer the token refuses is ignored.
transfer_usdg_unchecked(amount) ==
  /\ balance' = balance - amount
  /\ outflow' = IF amount = 0 THEN outflow
                ELSE [day |-> today, total |-> OutToday + amount]

\* transfer_usdg, to the payee and the fee recipient: too little USDG reverts.
transfer_usdg(amount) ==
  /\ amount <= balance
  /\ balance' = balance - amount
  /\ outflow' = IF amount = 0 THEN outflow
                ELSE [day |-> today, total |-> OutToday + amount]

-----------------------------------------------------------------------------
(***************************************************************************)
(* authorize: the proof shows that p.signer's passkey signed exactly the   *)
(* action the account builds from the call and its own nonce.  Payment     *)
(* sheet client data is accepted for a payment only.                       *)
(***************************************************************************)
authorize(p) ==
  /\ p.fee <= MaxFee
  /\ p.deadline >= now
  /\ p.deadline <= now + MAX_DEADLINE_WINDOW
  /\ owner(p.signer)
  /\ p.nonce = nonce
  /\ p.sheet => p.kind = "PAY"
  /\ nonce' = nonce + 1

\* The action hash of a schedule approval, which is the id of its change.
change_id(p) == [nonce |-> p.nonce, change |-> p.change, fee |-> p.fee,
                 deadline |-> p.deadline]

-----------------------------------------------------------------------------
(***************************************************************************)
(* The waiting changes.                                                    *)
(***************************************************************************)
pending_change_ids == {pending_ids[s] : s \in Slots} \ {NoId}

FreeSlots == {s \in Slots : pending_ids[s] = NoId}

RemovalSlots ==
  {s \in Slots \ FreeSlots : pending[pending_ids[s]].change.kind = "REMOVE_OWNER"}

\* Mutant: the same change may wait twice.
check_schedule_again(c) ==
  /\ c.kind # "FREEZE"
  /\ is_valid(c)
  /\ keeps_fees_payable(c)
  /\ c.kind = "ADD_OWNER" => ~owner(c.nullifier)
  /\ c.kind = "REMOVE_OWNER" =>
       /\ owner(c.nullifier)
       /\ owner_count > 1 + Cardinality(RemovalSlots)

\* Mutant: removals that already wait are not counted.
check_schedule_uncounted(c) ==
  /\ c.kind # "FREEZE"
  /\ is_valid(c)
  /\ keeps_fees_payable(c)
  /\ \A id \in pending_change_ids : pending[id].change # c
  /\ c.kind = "ADD_OWNER" => ~owner(c.nullifier)
  /\ c.kind = "REMOVE_OWNER" => owner(c.nullifier) /\ owner_count > 1

check_schedule(c) ==
  /\ c.kind # "FREEZE"
  /\ is_valid(c)
  /\ keeps_fees_payable(c)
  /\ \A id \in pending_change_ids : pending[id].change # c
  /\ c.kind = "ADD_OWNER" => ~owner(c.nullifier)
  /\ c.kind = "REMOVE_OWNER" =>
       /\ owner(c.nullifier)
       /\ owner_count > 1 + Cardinality(RemovalSlots)

\* Mutant: a change to the guardian waits no longer than any other.
change_eta_short(c) == now + ChangeDelay

\* When a change scheduled now can be applied: every change to the guardian
\* waits the recovery delay on top.
change_eta(c) ==
  now + ChangeDelay + IF c.kind = "SET_GUARDIAN" THEN RecoveryDelay ELSE 0

\* The first free slot takes the id; with none free the call reverts.
track_pending(id) ==
  \E s \in FreeSlots :
    /\ \A t \in FreeSlots : s <= t
    /\ pending_ids' = [pending_ids EXCEPT ![s] = id]

\* clear_pending, for a set of ids: no id is ever in two slots.
clear_pending(ids) ==
  /\ pending_ids' = [s \in Slots |-> IF pending_ids[s] \in ids THEN NoId ELSE pending_ids[s]]
  /\ pending' = [id \in DOMAIN pending \ ids |-> pending[id]]
  /\ scheduled_at' = [id \in DOMAIN scheduled_at \ ids |-> scheduled_at[id]]

cancel_pending_changes(keep_guardian_changes) ==
  clear_pending({id \in pending_change_ids :
                   ~(keep_guardian_changes /\ pending[id].change.kind = "SET_GUARDIAN")})

-----------------------------------------------------------------------------
(***************************************************************************)
(* apply: the checks, then the effect of each kind of change.              *)
(***************************************************************************)
applicable(c) ==
  /\ is_valid(c)
  /\ c.kind = "ADD_OWNER" => ~owner(c.nullifier)
  /\ c.kind = "REMOVE_OWNER" => owner(c.nullifier) /\ owner_count > 1

NoRecovery == [nullifier |-> ZeroNullifier, eta |-> 0]

NeverStarted == [by |-> NoGuardian, at |-> 0]

clear_recovery == recovery' = NoRecovery /\ recovery_start' = NeverStarted

apply_owner(c) ==
  /\ \/ /\ c.kind = "ADD_OWNER"
        /\ owners' = owners \cup {owner_key(owner_epoch, c.nullifier)}
        /\ owner_count' = owner_count + 1
     \/ /\ c.kind = "REMOVE_OWNER"
        /\ owners' = owners \ {owner_key(owner_epoch, c.nullifier)}
        /\ owner_count' = owner_count - 1
  /\ UNCHANGED <<owner_epoch, policyVars, guardianVars>>

\* Mutant: the recovery of the previous guardian goes on.
apply_guardian_keeping_recovery(c) ==
  /\ c.kind = "SET_GUARDIAN"
  /\ guardian_commitment' = c.commitment
  /\ UNCHANGED <<recovery, recovery_start, ownerVars, policyVars>>

apply_guardian(c) ==
  /\ c.kind = "SET_GUARDIAN"
  /\ guardian_commitment' = c.commitment
  /\ IF recovery.eta # 0 THEN clear_recovery ELSE UNCHANGED <<recovery, recovery_start>>
  /\ UNCHANGED <<ownerVars, policyVars>>

apply_policy(c) ==
  /\ \/ /\ c.kind = "SET_LIMITS"
        /\ per_tx_cap' = c.per_tx
        /\ daily_cap' = c.daily
        /\ UNCHANGED <<new_payee_cap, allowed_recipients, allowlist_enabled,
                       payment_sheet_required, frozen>>
     \/ /\ c.kind = "SET_NEW_PAYEE_CAP"
        /\ new_payee_cap' = c.cap
        /\ UNCHANGED <<per_tx_cap, daily_cap, allowed_recipients, allowlist_enabled,
                       payment_sheet_required, frozen>>
     \/ /\ c.kind = "SET_RECIPIENT"
        /\ allowed_recipients' = IF c.on THEN allowed_recipients \cup {c.recipient}
                                         ELSE allowed_recipients \ {c.recipient}
        /\ UNCHANGED <<per_tx_cap, daily_cap, new_payee_cap, allowlist_enabled,
                       payment_sheet_required, frozen>>
     \/ /\ c.kind = "SET_ALLOWLIST"
        /\ allowlist_enabled' = c.on
        /\ UNCHANGED <<per_tx_cap, daily_cap, new_payee_cap, allowed_recipients,
                       payment_sheet_required, frozen>>
     \/ /\ c.kind = "SET_PAYMENT_SHEET"
        /\ payment_sheet_required' = c.on
        /\ UNCHANGED <<per_tx_cap, daily_cap, new_payee_cap, allowed_recipients,
                       allowlist_enabled, frozen>>
     \/ /\ c.kind \in {"FREEZE", "UNFREEZE"}
        /\ frozen' = (c.kind = "FREEZE")
        /\ UNCHANGED <<per_tx_cap, daily_cap, new_payee_cap, allowed_recipients,
                       allowlist_enabled, payment_sheet_required>>
  /\ UNCHANGED <<ownerVars, guardianVars>>

apply(c) ==
  /\ applicable(c)
  /\ apply_owner(c) \/ apply_guardian(c) \/ apply_policy(c)

-----------------------------------------------------------------------------
(***************************************************************************)
(* initialize, called by the factory in the transaction that deploys the   *)
(* proxy: an account nobody initialized is never visible.                  *)
(***************************************************************************)
Init ==
  /\ frozen = FALSE /\ allowlist_enabled = FALSE /\ payment_sheet_required = FALSE
  /\ per_tx_cap = PerTxCap /\ daily_cap = DailyCap /\ new_payee_cap = NewPayeeCap
  /\ allowed_recipients = {} /\ known_recipients = {}
  /\ nonce = 0
  /\ window = [day |-> 0, spent |-> 0]
  /\ owners = {owner_key(0, FirstOwner)} /\ owner_epoch = 0 /\ owner_count = 1
  /\ guardian_commitment = NoGuardian
  /\ recovery = NoRecovery
  /\ pending_ids = [s \in Slots |-> NoId]
  /\ pending = [id \in {} |-> NoId]
  /\ now = 1
  /\ balance = 0
  /\ scheduled_at = [id \in {} |-> 0]
  /\ frozen_at = 0
  /\ recovery_start = NeverStarted
  /\ outflow = [day |-> 0, total |-> 0]

(***************************************************************************)
(* Entry points authorized by a passkey proof.                             *)
(***************************************************************************)

pay(p) ==
  /\ p.kind = "PAY"
  /\ ~frozen
  /\ p.amount # 0
  /\ p.to \notin {ZeroAddress, Account}
  /\ allowlist_enabled => p.to \in allowed_recipients
  /\ payment_sheet_required => p.sheet
  /\ check_spend(p.amount + p.fee)
  /\ p.to \notin known_recipients \cup allowed_recipients => p.amount <= new_payee_cap
  /\ authorize(p)
  /\ record_spend(p.amount + p.fee)
  /\ known_recipients' = known_recipients \cup {p.to}
  /\ transfer_usdg(p.amount + p.fee)
  /\ UNCHANGED <<policyVars, ownerVars, guardianVars, pendingVars, now, frozen_at>>

schedule_change(p) ==
  /\ p.kind = "SCHEDULE_CHANGE"
  /\ check_schedule(p.change)
  /\ check_spend(p.fee)
  /\ authorize(p)
  /\ record_spend(p.fee)
  /\ LET id    == change_id(p)
         entry == [change |-> p.change, eta |-> change_eta(p.change),
                   owner_epoch |-> owner_epoch]
     IN /\ track_pending(id)
        /\ pending' = [i \in DOMAIN pending \cup {id} |-> IF i = id THEN entry ELSE pending[i]]
        /\ scheduled_at' = [i \in DOMAIN scheduled_at \cup {id} |->
                              IF i = id THEN now ELSE scheduled_at[i]]
  /\ transfer_usdg(p.fee)
  /\ UNCHANGED <<policyVars, known_recipients, ownerVars, guardianVars, now, frozen_at>>

restrict(p) ==
  /\ p.kind = "RESTRICT"
  /\ is_restrictive(p.change)
  /\ keeps_fees_payable(p.change)
  /\ authorize(p)
  /\ record_spend(charge_fee(p.fee))
  /\ apply(p.change)
  /\ IF p.change.kind = "FREEZE"
       THEN cancel_pending_changes(FALSE) /\ frozen_at' = now
       ELSE UNCHANGED <<pendingVars, frozen_at>>
  /\ transfer_usdg(charge_fee(p.fee))
  /\ UNCHANGED <<known_recipients, now>>

cancel_change(p) ==
  /\ p.kind = "CANCEL_CHANGE"
  /\ p.id \in DOMAIN pending
  /\ authorize(p)
  /\ record_spend(charge_fee(p.fee))
  /\ clear_pending({p.id})
  /\ transfer_usdg(charge_fee(p.fee))
  /\ UNCHANGED <<policyVars, known_recipients, ownerVars, guardianVars, now, frozen_at>>

\* Mutant: stopping a recovery is held to the caps, like a payment.
cancel_recovery_capped(p) ==
  /\ p.kind = "CANCEL_RECOVERY"
  /\ recovery.eta # 0
  /\ p.nullifier = recovery.nullifier
  /\ check_spend(p.fee)
  /\ authorize(p)
  /\ record_spend(p.fee)
  /\ clear_recovery
  /\ transfer_usdg(p.fee)
  /\ UNCHANGED <<policyVars, known_recipients, ownerVars, guardian_commitment,
                 pendingVars, now, frozen_at>>

cancel_recovery(p) ==
  /\ p.kind = "CANCEL_RECOVERY"
  /\ recovery.eta # 0
  /\ p.nullifier = recovery.nullifier
  /\ authorize(p)
  /\ record_spend(charge_fee(p.fee))
  /\ clear_recovery
  /\ transfer_usdg(charge_fee(p.fee))
  /\ UNCHANGED <<policyVars, known_recipients, ownerVars, guardian_commitment,
                 pendingVars, now, frozen_at>>

(***************************************************************************)
(* Entry points anyone may call.                                           *)
(***************************************************************************)
apply_change(id) ==
  /\ id \in DOMAIN pending
  /\ pending[id].owner_epoch = owner_epoch
  /\ now >= pending[id].eta
  /\ clear_pending({id})
  /\ apply(pending[id].change)
  /\ UNCHANGED <<known_recipients, nonce, spendVars, now, frozen_at>>

\* Mutant: changes of the replaced owners stay listed.
execute_recovery_keeping_plans ==
  /\ recovery.eta # 0
  /\ now >= recovery.eta
  /\ clear_recovery
  /\ owner_epoch' = owner_epoch + 1
  /\ owners' = owners \cup {owner_key(owner_epoch + 1, recovery.nullifier)}
  /\ owner_count' = 1
  /\ UNCHANGED <<policyVars, known_recipients, nonce, spendVars, guardian_commitment,
                 pendingVars, now, frozen_at>>

execute_recovery ==
  /\ recovery.eta # 0
  /\ now >= recovery.eta
  /\ clear_recovery
  /\ cancel_pending_changes(FALSE)
  /\ owner_epoch' = owner_epoch + 1
  /\ owners' = owners \cup {owner_key(owner_epoch + 1, recovery.nullifier)}
  /\ owner_count' = 1
  /\ UNCHANGED <<policyVars, known_recipients, nonce, spendVars, guardian_commitment,
                 now, frozen_at>>

(***************************************************************************)
(* Entry points of the guardian.                                           *)
(***************************************************************************)
\* Mutant: the guardian may veto its own replacement.
guardian_cancel_any_change(g, id) ==
  /\ require_guardian(g)
  /\ id \in DOMAIN pending
  /\ clear_pending({id})
  /\ UNCHANGED <<policyVars, known_recipients, nonce, spendVars, ownerVars,
                 guardianVars, now, frozen_at>>

guardian_cancel_change(g, id) ==
  /\ require_guardian(g)
  /\ id \in DOMAIN pending
  /\ pending[id].change.kind # "SET_GUARDIAN"
  /\ clear_pending({id})
  /\ UNCHANGED <<policyVars, known_recipients, nonce, spendVars, ownerVars,
                 guardianVars, now, frozen_at>>

guardian_freeze(g) ==
  /\ require_guardian(g)
  /\ frozen' = TRUE
  /\ frozen_at' = now
  /\ cancel_pending_changes(TRUE)
  /\ UNCHANGED <<allowlist_enabled, payment_sheet_required, per_tx_cap, daily_cap,
                 new_payee_cap, allowed_recipients, known_recipients, nonce, spendVars,
                 ownerVars, guardianVars, now>>

initiate_recovery(g, nullifier) ==
  /\ require_guardian(g)
  /\ nullifier # ZeroNullifier
  /\ recovery' = [nullifier |-> nullifier, eta |-> now + RecoveryDelay]
  /\ recovery_start' = [by |-> g, at |-> now]
  /\ UNCHANGED <<policyVars, known_recipients, nonce, spendVars, ownerVars,
                 guardian_commitment, pendingVars, now, frozen_at>>

guardian_cancel_recovery(g) ==
  /\ require_guardian(g)
  /\ recovery.eta # 0
  /\ clear_recovery
  /\ UNCHANGED <<policyVars, known_recipients, nonce, spendVars, ownerVars,
                 guardian_commitment, pendingVars, now, frozen_at>>

(***************************************************************************)
(* The chain: blocks arrive and anyone may send the account USDG.          *)
(***************************************************************************)
Tick ==
  /\ now < MaxTime
  /\ now' = now + 1
  /\ UNCHANGED <<policyVars, known_recipients, nonce, spendVars, ownerVars,
                 guardianVars, pendingVars, frozen_at>>

Deposit(amount) ==
  /\ balance + amount <= MaxBalance
  /\ balance' = balance + amount
  /\ UNCHANGED <<policyVars, known_recipients, nonce, window, outflow, ownerVars,
                 guardianVars, pendingVars, now, frozen_at>>

-----------------------------------------------------------------------------
(***************************************************************************)
(* The approvals a caller may hold for the current nonce.  Those for       *)
(* another nonce or outside the deadline window are refused by authorize   *)
(* and change nothing.                                                     *)
(***************************************************************************)
Deadlines == now .. now + MAX_DEADLINE_WINDOW

PayApprovals ==
  [kind: {"PAY"}, signer: Nullifiers, nonce: {nonce}, fee: Fees, deadline: Deadlines,
   sheet: BOOLEAN, to: Addresses, amount: Amounts]

ChangeApprovals(kind) ==
  [kind: {kind}, signer: Nullifiers, nonce: {nonce}, fee: Fees, deadline: Deadlines,
   sheet: BOOLEAN, change: Changes]

CancelApprovals ==
  [kind: {"CANCEL_CHANGE"}, signer: Nullifiers, nonce: {nonce}, fee: Fees,
   deadline: Deadlines, sheet: BOOLEAN, id: pending_change_ids]

RecoveryApprovals ==
  [kind: {"CANCEL_RECOVERY"}, signer: Nullifiers, nonce: {nonce}, fee: Fees,
   deadline: Deadlines, sheet: BOOLEAN, nullifier: {recovery.nullifier}]

(***************************************************************************)
(* Bounds: nothing is scheduled or started that could not fall due before  *)
(* MaxTime, so that time running out never hides an outcome.               *)
(***************************************************************************)
OwnerStep ==
  /\ nonce < MaxNonce
  /\ \/ \E p \in PayApprovals : pay(p)
     \/ /\ now + ChangeDelay + RecoveryDelay <= MaxTime
        /\ \E p \in ChangeApprovals("SCHEDULE_CHANGE") : schedule_change(p)
     \/ \E p \in ChangeApprovals("RESTRICT") : restrict(p)
     \/ \E p \in CancelApprovals : cancel_change(p)
     \/ \E p \in RecoveryApprovals : cancel_recovery(p)

GuardianStep ==
  \E g \in Guardians :
    \/ \E id \in pending_change_ids : guardian_cancel_change(g, id)
    \/ guardian_freeze(g)
    \/ /\ now + RecoveryDelay <= MaxTime
       /\ owner_epoch < MaxEpoch
       /\ \E n \in Nullifiers : initiate_recovery(g, n)
    \/ guardian_cancel_recovery(g)

AnyoneStep == execute_recovery \/ \E id \in pending_change_ids : apply_change(id)

ChainStep == Tick \/ \E amount \in Amounts : Deposit(amount)

Next == OwnerStep \/ GuardianStep \/ AnyoneStep \/ ChainStep

Spec == Init /\ [][Next]_vars

=============================================================================
