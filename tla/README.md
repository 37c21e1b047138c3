# VeraKey in TLA+

A verification development for [veraKey](../src/README.md): smart accounts on
Arbitrum Stylus whose owners are passkeys, proved in zero knowledge, with the
relayer and the SDK around them. It holds TLA+ modules, TLC runs and TLAPS
proofs. Everything is translated from the sources under `src/`; `PROJECT.json`
maps every definition to the lines it models.

    cd tla
    tlc -workers 2 -config MCGovernance.cfg MCGovernance   # any run
    tlapm AccountActionProofs.tla                          # any proof module

## 1. The system

| Component | State it keeps | Operations |
|---|---|---|
| **Account** `contracts/stylus/account` | policy (caps, allowlist, payment sheet, frozen), owners per epoch, guardian commitment, recovery, up to `MAX_PENDING` waiting changes, nonce, the day's spending window | `pay`, `schedule_change`, `restrict`, `cancel_change`, `cancel_recovery` (a passkey proof each), `apply_change`, `execute_recovery` (anyone), `guardian_cancel_change`, `guardian_freeze`, `initiate_recovery`, `guardian_cancel_recovery` (the guardian) |
| **Policy core** `core/src/{changes,spending,config}.rs` | none: pure functions of the account's state | `is_valid`, `keeps_fees_payable`, `is_restrictive`, `spend`, `charge_fee`, `is_valid_policy` |
| **Message core** `core/src/{action,client_data,base64url,field,clone}.rs` | none | encode an action, match WebAuthn and payment-sheet client data byte by byte, split field limbs, EIP-1167 addresses |
| **Factory** `contracts/stylus/factory` | one configuration | `createAccount`: deploy the clone at its address and `initialize` it, or answer with the one that exists |
| **Validator** `contracts/evm/src/modules/VeraKeyValidator.sol` | per ERC-7579 account: its app id and its owner's nullifier | install, uninstall, validate a user operation or a signature |
| **Honk verifiers** `contracts/evm/src/*HonkVerifier.sol` | none (generated) | check a proof |
| **Circuits** `circuits/*` | none | `webauthn`: a passkey signed this client data, and this is its nullifier; `link`: two nullifiers share a passkey |
| **Relayer** `server/relayer.ts` | accounts with a transaction in flight, the send lock, gas and safety budgets per day, faucet grants (kept in a file) | relay a call, create an account, faucet |
| **Limits and proxy** `server/{index,rate-limit}.ts` | fixed windows per visitor and in total | admit a request; forward a read-only JSON-RPC call |
| **SDK client** `packages/sdk/src/client.ts`, `prover.ts`, `webauthn.ts`, `store.ts` | stored passkeys and accounts | read nonce, sign, prove, submit through the relayer or directly, follow the receipt |
| **Connect popup** `packages/sdk/src/connect.ts`, `client/src/pages/connect` | the request it answers | post the request to the popup, receive one answer, or notice that the popup closed |
| **Page session** `packages/sdk/src/session.ts`, `react.ts` | the page's player and status | load, sign in, sign out, pay |
| **Site kit** `packages/sdk/src/server.ts` with `signin.ts` | claims in a store (nonces, payments, sign-outs), cached owner checks, payments being checked | issue a nonce, sign in, sign out, read a session, accept a payment |
| **Disclosure** `packages/sdk/src/disclosure.ts` | none | make and check a linked disclosure |
| **App** `client/src` | React state | pages over the SDK |

How they interact: the app (or a site, through the popup) reads the account's
nonce, has the passkey sign the action hash, proves it, and gives the call to
the relayer; the relayer simulates and sends it; the account checks the proof
with the verifier, consumes the nonce, changes its state and moves USDG. Sites
read the chain to check sign-ins and payments. The guardian talks to the
account directly.

What is hard in it:

- *protocol sequences*: owners, a guardian, strangers and time act on one
  account in any order; every rule about who may do what after which delay is a
  statement about long sequences of calls;
- *slots and counters*: eight slots for waiting changes, a count of owners that
  must stay right across additions, removals and recoveries, a window per day;
- *stale decisions*: a change is checked when it is scheduled and applied days
  later; an approval is signed for a nonce and submitted later; the relayer
  decides on state it read before an await;
- *concurrency*: the relayer and the site kit interleave requests at every
  await, with locks, reservations and claims;
- *failure*: the relayer may stop between sending a grant and recording it; the
  store or the chain may not answer.

The properties that make each part correct: for the account, those of
`SECURITY.md`, "What must always hold" (§3 states the ones checked here); for
the relayer, one transaction per account in flight, budgets never exceeded,
defences never refused for a budget, one grant per account (§5); for the kit, a
sign-in used once, a payment accepted once and never lost, a signed-out session
dead (§6); for popup and page session, no payment lost to the page, and a page
that says what is true (§7); for the limits, a bound on what passes and nobody
refused for others (§8); for everything that accepts a passkey's assertion, that
it counts for what its player meant, once (§9).

| Modules | Model | Properties | Proofs |
|---|---|---|---|
| account, policy core (§2-4) | `VeraKeyAccount`, `DelayedControl` | `AccountProperties`, `AccountRefinement` | `AccountProofs`, `AccountActionProofs` |
| relayer (§5) | `Relayer`, `AcceptOnce` | `RelayerProperties`, `RelayerRefinement` | `RelayerProofs` |
| site kit (§6) | `SiteKit`, `AcceptOnce` | `SiteKitProperties`, `SiteKitRefinement` | `SiteKitProofs` |
| popup, page session, SDK payment (§7) | `Connect` | `ConnectProperties` | `ConnectProofs` |
| limits (§8) | `RateLimits` | in the module | `RateLimitsProofs` |
| message core, factory, validator, circuits, sign-in, disclosure (§9) | `ClientData`, `Authority` | `AuthorityProperties` | `ClientDataProofs`, `AuthorityProofs` |

## 2. The account model

`VeraKeyAccount.tla` models `lib.rs` and the policy core. A transaction runs to
its end or reverts, so each entry point is one action: its guard is the
conjunction of the checks that revert, in the names of the source; its primed
variables are the storage writes.

- Variables carry the storage fields' names. `window` is `spend_day` and
  `spent_today`; `recovery` is `recovery_nullifier` and `recovery_eta`;
  `pending` maps ids to `PendingChange`, and `pending_ids` are the slots.
- Hashes stand for what is hashed: a change's data hash is the change, a change
  id is the record of what was signed. Owner keys are pairs of epoch and
  nullifier, so keys of earlier epochs stay in `owners` as they do in storage.
- A payload is the record it decodes to. `Changes` may contain unacceptable
  values (a zero nullifier, a per-transaction cap above the daily cap); wrong
  lengths, which `is_valid` refuses before anything else, are left out.
- `authorize(p)` takes an approval: what some passkey signed. Next offers the
  account every approval for its present nonce, from owners and from others,
  inside the deadline window; an approval for another nonce or outside the
  window is refused by `authorize` and changes nothing. That the proof of an
  approval cannot be forged, and that client data match what was signed, is
  assumed here; §9 models the second and what remains of the first.
- `balance`, `Deposit` and `Tick` stand for the token and the chain.
- History variables, read by properties only: when each waiting change was
  scheduled (`scheduled_at`), when the account was last frozen (`frozen_at`),
  who started the waiting recovery and when (`recovery_start`), and what the
  token saw leave today (`outflow`).
- Operators whose comment begins with "Mutant" change one definition the way a
  bug would. They belong to the mutation check listed in `PROJECT.json` and no
  specification uses them.

The bounds `MaxTime`, `MaxNonce`, `MaxEpoch`, `MaxBalance` are the model's, not
the code's. Nothing is scheduled or started that could not fall due before
`MaxTime`, so that the end of time hides no outcome. Deadlock checking is off:
the account is passive, and a bounded run ends.

## 3. Properties and runs

`AccountProperties.tla` states what the account promises.

| Property | Says | `SECURITY.md` |
|---|---|---|
| `ScheduledChangesApply` | whatever happened since, a waiting change can be applied once due | 6 |
| `OwnersCounted` | `owner_count` is the number of owners, and waiting removals leave one | 6 |
| `GuardianCannotVetoItsReplacement` | no call of the guardian removes a change of the guardian | 10 |
| `GuardianActsInTime` | a recovery started within the change delay is not overtaken by the guardian's replacement | 10 |
| `SlotsAreFreed` | no change holds its slot forever | 6 |
| `ImplementsControl` | every step is one of `DelayedControl` (below) | 5, 6, 10 |
| `FeesPayable` | the caps cover the largest fee and fit their storage | 2 |
| `DefenceNeverRefused` | freezing, vetoing a change and stopping a recovery never revert because of what was spent or how low the caps are | 2 |
| `SpendingBounded` | what the token sees leave in a day stays within the daily cap (`OutflowWithinCap`), from a frozen account at most a fee per approval (`FrozenPaysOnlyFees`) | 2, 3, 5 |
| `OnlyTheTimelockLoosens` | no payment becomes acceptable but by a change that waited, or by a first payment within the new-payee cap | 4, 6 |
| `PendingListed` (proved only) | the slots and the map of waiting changes always agree, one slot per change | 5, 7 |
| `FreezeOutlastsPlans`, `UnfreezeWaits`, `RecoveryBelongsToGuardian`, `ControlChangesWait` (proved only) | nothing planned before a freeze survives it but a change of the guardian; a freeze lasts the change delay; a waiting recovery is the present guardian's; owners and guardian change only after the delay they were given | 5, 6, 10 |

`DelayedControl.tla` is what a reader of `SECURITY.md` believes of the account,
without slots, ids, epochs, approvals or spending: owners, a guardian, a freeze,
plans that are due some time after everybody could see them, and a takeover that
waits as well. `AccountRefinement.tla` maps the account's storage to it: the
members are the owners of the present epoch, a plan is a waiting change with its
due time, and the takeover is the recovery. `ImplementsControl` says that every
sequence of calls is a sequence of its steps. The four properties of the last
row follow from that; they are stated directly on the storage as well, with a
proof each.

| Run | Instance | Why it is enough |
|---|---|---|
| `governance` | 2 passkeys, 1 guardian (set, removed and replaced by none), 2 slots, `ChangeDelay` 1, `RecoveryDelay` 2, 7 instants, 5 approvals, 1 recovery executed, with fairness | two slots and two owners give conflicting removals and duplicates; the two delays differ, so mixing them shows; after a change of the guardian there is time for a recovery to start before, at and after every threshold |
| `policy` | 1 passkey, 1 guardian (once scheduled) who freezes, vetoes and starts 1 recovery, `ChangeDelay` and `RecoveryDelay` 1, 5 instants; every kind of policy change, payments of 1 to 3 to strangers, known and allowed payees, fees of nothing, up to `MaxFee` (2) and above it, days of three instants | each protection is tightened and loosened in turn; the cap falls below what was already spent, fees are waived in part, the window rolls over, and a recovery waits while the day's cap is used up |

Fairness (`FairSpec`): blocks keep coming (`WF` of `Tick`), and `apply_change`
is called for a change that stays applicable (`WF` per slot). The call needs no
proof and no owner, so whoever wants the slot free can make it.

Each property of each run, of this and the following sections, is broken by a
mutant of the code listed in `PROJECT.json`: a guard dropped, a check against
the wrong value, a reset forgotten.

## 4. Proofs about the account

TLC checks the instances above; TLAPS proves, for any owners, delays, caps,
number of slots and length of history, every safety property of §3 but
`DefenceNeverRefused`, and that the account implements `DelayedControl`.

- `AccountProofs.tla`: `TypeCorrect`, one lemma per action; `CoreInvariant`, the
  inductive invariant `Core`, and the invariants of §3 as corollaries.
- `AccountActionProofs.tla`: the action properties, from `Core`; and
  `AccountImplementsControl`. Initial states map to initial states, and each
  entry point to the abstract step it is named after, or to a stutter when it
  only pays or tightens the policy. `Core` is what the mapping needs: two
  waiting changes never look the same once ids are forgotten (`NoDuplicates`),
  so removing one of them removes one plan; a waiting removal leaves an owner
  (`OwnersCounted`), which `Perform` asks for; and the members after a recovery
  are the new owner alone (`EpochsPast`).

Assumptions: the constants are numbers of the right kind, the initial policy
passes `is_valid_policy` (the factory and `initialize` refuse any other), the
zero nullifier and the empty commitment are nobody's, passkeys are finitely
many, and an owner change is determined by its kind and its nullifier (the
payload is the nullifier).

The argument. None of the properties is inductive by itself. `Core` adds:

- `FreshIds`: ids of waiting changes carry consumed nonces, so a new id is never
  one that waits (else a slot could be listed twice);
- `NoDuplicates`: no change waits twice, so applying one owner change cannot
  invalidate another: two additions of one passkey, or two removals;
- `EpochsPast`: no owner key is of a later epoch, so an executed recovery
  starts with exactly one owner;
- `PlansInv`: each waiting change's due time is its scheduling time plus its
  delay, and it keeps fees payable;
- `RecoveryInv`: a recovery's due time is its start plus the recovery delay;
- `LedgerAgrees`: the token's total for the day equals the contract's window,
  which turns the contract's check of the window into a bound on what leaves.

The delicate step is `OwnersApplied`: applying a removal lowers the owner count
and the number of waiting removals together, and any removal that still waits
is one of those counted, so at least two owners are left for it.

Only model-checked: `SlotsAreFreed` (liveness under fairness) and
`DefenceNeverRefused` (it is stated with `ENABLED`). What the latter rests on is
proved: `DefencesAlwaysPass` says that each check these calls make of the state
passes, the charged part of the fee within the window's storage and the balance
(which needs `WindowFits`: what was spent fits its storage whatever the caps have
become). That nothing else stands in their way is what TLC's `ENABLED` adds.

## 5. The relayer model

`Relayer.tla` models `server/relayer.ts` with the limits of its routes
(`server/index.ts`, `server/rate-limit.ts`). The process is single-threaded and
runs a handler without interruption from one `await` to the next. So
`stage[r]` is the await request `r` has reached, and an action is the stretch
of code from the answer to that await up to the next one; any other request,
a block, a direct call of the account, the end of a window or a restart may
come in between, and what was read before may be stale after it.

| Stage | The await | Action that leaves it |
|---|---|---|
| `new` | none: the request has not arrived | `arrive`: the route's limits |
| `asserting` | `assertOurAccount`, or the account's code | `assert_relay`, `assert_create`, `assert_faucet` |
| `protections`, `pendingIds`, `policy` | the reads of `defends` and `feeWaived` | `read_protections`, `read_pending_ids`, `read_policy` |
| `treasury` | the relayer's USDG | `read_treasury` |
| `simulating` | `simulateContract` | `simulate` |
| `queued` | the send lock, then the gas estimate | `estimate`: estimate, `beforeSend` |
| `sending`, `sent` | `writeContract`, before and after the node takes the transaction | `broadcast`, `confirm`, `lose`, `confirm_unrecorded` |
| any of them | an answer that does not come, or is an error | `fail`, `fail_early`, with the `catch` and `finally` clauses in `refuse` |

A relayed call that was answered stays in `watching` until its receipt
(`settle`) or `IN_FLIGHT_TIMEOUT_MS` (`timeout`).

What is reduced, and why nothing the properties tell apart is lost:

- the chain is what the relayer reads of it: per account whether it exists, its
  nonce, whether it is frozen, how many changes wait, what it spent today. It
  follows `lib.rs` through `Succeeds` and `After`. `cancelRecovery` and
  `executeRecovery` behave to the relayer as `cancelChange` and `applyChange`
  do. Payments and fees are 1, so the day's cap counts calls;
- the reads of `assertOurAccount` are one: what they read of an account never
  changes once it exists;
- each transaction weighs 1 in `gasPerDay`;
- the nonce of the relayer's own key is viem's: transactions are mined in the
  order they were sent;
- `Job[r]` is the parsed request. Requests that do not parse change nothing.

A restart forgets everything but the chain and the faucet file. The file is
written in place, so a process that stops while writing leaves a file that
cannot be read, which the next one takes for a first run.

`outsiders`, `lost`, `crashes` and `windows` bound the environment with
`MaxOutside`, `MaxLost`, `MaxCrashes` and `MaxWindows`. The other history
variables say, for the properties, what nobody in the process knows: what was
sent in this window (`sentGas`), how often an account was granted USDG
(`grants`), which requests' accounts others changed since they were first read
(`stale`) or since the gas was estimated (`overtaken`, which for a grant means
that another grant has been paid since), which defences undid
nothing (`useless`), and which accounts have a transaction the process lost
sight of (`doubtful`).

| Property | Says |
|---|---|
| `NothingLeaked` | an account in `inFlight` or `granting` belongs to exactly one request, which will free it (`ReservationsOwned`); the send lock's queue is of exactly the requests that will leave it (`LockOwned`) |
| `OneAtATime` | one relayed transaction per account is on its way, unless the process lost sight of one |
| `WastedOnlyByOthers` | the relayer pays for a relayed call that reverts only if somebody else changed the account after the gas was estimated |
| `FreeRidesDefend` | a call relayed outside every budget did stop payments or cancel something, unless somebody else changed the account meanwhile |
| `BudgetsHold` | no limit is passed (in `TypeOK`), and a window's gas, defences aside, is the limit and at most one transaction more (`GasWithinBudget`) |
| `FundedIsPaid` | an account that counts as granted, and is refused from then on, was paid, or its transaction is on its way, or that one reverted because another grant took the last of the treasury after its gas was estimated |
| `GrantsImplementOnce` | every step is one of `AcceptOnce` (below) for each account's grant |
| `GrantedAgainOnlyIfLost` (proved only) | a second grant needs a first one the process lost sight of |
| `NothingStuck` | every accepted request ends (`RequestsAnswered`), and no account stays busy (`AccountsFreed`) |
| `GrantedOnce` | one grant per account, as documented: violated, see below |

`AcceptOnce.tla` is what "once" means here, of a grant as of a sign-in's nonce
and of a payment (§6): a thing is open, in the hands of one request, used, or
lost. A request takes what is open; only it can use it, or give it back where the
code does; and what is used stays used, except where the process may forget it.
It knows no await, lock, store, process or clock. `RelayerRefinement.tla` maps
the relayer to it: an account's grant is held from its reservation in `granting`
until its transaction leaves, used from then on, and lost once the process lost
sight of a transaction of the account. `GrantsImplementOnce` says more than
`GrantedAgainOnlyIfLost`: nothing is sent that was not taken, and nobody takes
what another request has in hand.

| Run | Instance | Why it is enough |
|---|---|---|
| `relay` | a payment and a freeze for one nonce, a freeze behind them, one change waiting, a direct call, a lost answer, a restart, with fairness and no block assumed | three requests meet at each await in each order; the freezes are decided before, between and after the calls that make them pointless; the lock has a queue of two and each holder may fail in each way |
| `budgets` | two grants for one account, a new account and a grant for it; USDG for one grant; a gas limit of 1; a window that ends, a restart, a loss | the gas limit is reached and passed at the end of a window; a grant is lost by each of the three ways; two accounts are found payable on one read of the treasury each, and one of them is paid |
| `faucet_restart` | as `budgets`, with USDG for two, one restart and nothing else | expected to violate `GrantedOnce` |

Fairness (`FairSpec`): each await of a request ends (`WF` of `serve(r)`), and
so does each wait for a receipt (`WF` of `watch(r)`). The RPC client's requests
have a timeout and few retries, and the wait for a receipt has
`IN_FLIGHT_TIMEOUT_MS`; the send lock is freed by its holder, which is what the
properties show. Nothing is assumed of blocks, of windows or of the accounts'
owners.

**The finding.** `RelayerApi.tsx` documents the faucet as "once per account,
even to concurrent requests". Requests that race in one process are kept apart
by `granting`. But a grant is recorded after the node has answered
(`relayer.ts:303`), so a process that stops in between grants again after its
restart: run `faucet_restart`. `GrantedAgainOnlyIfLost` states what holds
instead.

### Proofs about the relayer

`RelayerProofs.tla` proves, for any requests, accounts, limits and bounds, every
safety invariant above. The inductive invariant is `IInv`: `TypeOK`, `Core`,
`Grants`, `Sound`, `LockOwned` and `Funds`. The parts of `Core` need each other:

- `SendersHoldLock` makes the sender unique. So `GasCounted` is kept: between
  the take of `gasPerDay` and the broadcast there is at most one transaction,
  and if the window ends there, it is the one that is not counted in the new
  one;
- `WatchingAnswered` and `ReservationsOwned` say that each holder of an account
  is in one of two places, a reserved stage or the wait for a receipt, and is
  alone. `PendingSent` and `PendingHolds` add that a transaction on its way has
  such a holder, which gives `OneAtATime`.

`Grants` follows a grant from its request to the set of funded accounts:

- `GrantRemembered`: a grant that was sent is still in its request's hands, or is
  remembered in memory and in the file, or the process lost sight of it; and no
  remembered account is reserved again;
- `OneGrantSent`: so two grants for one account are the same request's, and a
  grant that was made is one that was sent. That gives `GrantedAgainOnlyIfLost`.

`Sound` relates each request to what the account was when it was read.
`SoundWhenSent` says that a call found to succeed still does until it is mined,
and one found to defend still does from the reads to the block, or that the
request is in `overtaken` or `stale`. It is inductive because `OneAtATime` leaves
nobody but outsiders to change the account of a request that holds it; the
accounts in `doubtful` are the exception. It gives `WastedOnlyByOthers` and
`FreeRidesDefend` at the block.

`LockOwned` is kept because every way out of the three stages of the lock, the
failing ones included, takes exactly its own request from the queue. `Funds`
follows the treasury through the same awaits as `SoundWhenSent` follows an
account: `GrantsFunded` says that a grant whose gas was estimated can still be
paid until it is in a block, or that another was paid since; nobody else spends
the relayer's USDG. `FundedSent` says that whoever counts as granted, in memory or
in the file, was sent a grant. Together they give `FundedIsPaid`, and with it the
one way in which the code leaves an account refused and unpaid: two grants race
for the last of the treasury (`relayer.ts:287`). A transaction the node forgets is
not among the model's steps.

`GrantsAreForOneUse` proves the refinement, one account at a time. A grant that
was sent stays sent, and was sent by a request that had it reserved (`SentStays`);
who newly reserves one found it reserved by nobody (`NewlyReserved`); so with
`ReservationsOwned` a grant passes from one request to another only through `Open`,
and leaves a request's hands by being sent, given back, or lost. A restart, which
changes many accounts at once, is one of these steps for each.

Assumed of the constants: a request has a kind and an account, a relayed one a
call and a nonce; limits are numbers and gas has one. Only model-checked: the
liveness properties.

## 6. The site kit model

`SiteKit.tla` models `packages/sdk/src/server.ts` on several processes of one
site. `stage[r]` is again the await request `r` has reached, and an action the
stretch of the handler up to the next one. A request presents a cookie it was
given or somebody's copy: `Job[r]` says which nonce, session or payment.

| State | In the code |
|---|---|
| `issued`, `expiry` | what the nonce and session cookies say of their expiry |
| `nonceUntil`, `signoutUntil`, `paymentClaimed` | the claims in the store |
| `ownerSeen[p]` | the map of that name, in the order of its keys |
| `ownerChecks[p]` | the checks under way, with when they began and what the chain has answered |
| `paying[p]` | players whose payment is being checked |
| `removed`, `mined` | what the chain says of passkeys and payments |
| `late`, `unsure`, `doubtful`, `...At`, `fulfilled` | history, for the properties |

| Route | Actions |
|---|---|
| nonce, sign-in | `issue_nonce`; `check_nonce`, `claim_nonce`, `verify_sign_in`, `start_session` or `refuse_session` |
| session, `getPlayer` | `decode`, `ask_store`, then what is remembered (`Known`) or `read_owner` and `check_owner` |
| sign-out | `sign_out`, `record_sign_out` |
| payment | as session, then `admit`, `verify_payment`, `claim_payment`, `fulfil` or `fulfil_fails` and `release` |
| any | an `_unanswered` action for each call of the store and each owner check; `restart` drops a process's requests and its memory |

One answer of the chain serves all requests that wait for it (`Waiting`); of
several payments among them one is admitted and the others are told to wait.
`read_owner` and `check_owner` are two steps, so that the passkey can be removed
while the answer is on its way.

Reductions: the store is durable and shared, as the code asks for in
production, and not the default in-memory one; `ownerCheckSeconds` is finite;
the checks of a statement, a proof and a receipt are their verdicts
(`verify_sign_in`, `verify_payment`), which may be negative for any reason but
positive only for an owner or a mined payment of the player's; times are whole
seconds, as in the cookies. `Tick` lets no timer run past its time: an owner
check ends by `OWNER_CHECK_TIMEOUT`, and a nonce's claim reaches the store within
`StoreDelay` of the nonce's check. `ClaimAssumption`
(`NONCE_TTL + StoreDelay <= NONCE_CLAIM`) is the comment on
`NONCE_CLAIM_SECONDS`, 300 and 360 seconds: a store slower than a minute
would let a replay through.

| Property | Says |
|---|---|
| `NoncesImplementOnce` | every step is one of `AcceptOnce` (§5) for each nonce: taken by one sign-in, for ever, and used by the session that sign-in starts |
| `SignedOutStays` | after a recorded sign-out no copy of the cookie works, unless the store does not answer |
| `RemovedStops` | a removed passkey is signed in for `ownerCheckSeconds` at most after its removal, its session's start or the last check that failed |
| `PaymentsImplementOnce` | every step is one of `AcceptOnce` for each payment: one request at a time has it in hand; it fulfils it, or gives it back |
| `PaymentKept` | a claimed payment is fulfilled, or is being, or something failed between its claim and its release |
| `PayingOwned` | one payment per player and process is checked at a time, and `paying` holds nobody else |
| `SignInOnce`, `PaymentOnce` (proved only) | a nonce starts one session; a payment is fulfilled once |
| `RemovedWithinOwnerCheck` | as documented, counted from the removal: violated, see below |

`SiteKitRefinement.tla` maps the kit to `AcceptOnce` twice. A nonce is held while
a sign-in that claimed it is verified, and lost when that sign-in is refused or
its claim was not answered: the player needs a new one, and the mapping allows
nobody to take it again, although the store forgets the claim. A payment is held
from its claim to its fulfilment or release, on whichever process, and lost when
it is claimed and no request is at it.

| Run | Instance | Why it is enough |
|---|---|---|
| `sessions` | one nonce presented to two processes, two reads and a sign-out of the session, three seconds, one removal, a failed call; the nonce lives one second, its claim two, the session three, an owner's answer one | a replay meets each order of nonce, check and claim expiring; the reads share a check or a remembered answer, which expires, before and after sign-out, removal and the session's end |
| `payments` | one payment presented three times, in two sessions and to two processes, and a read; one remembered answer; a restart, a failed call; no time passes | payments and their claims do not expire; requests of a player meet through one check and through two, and answers evict each other |
| `removed_meanwhile` | one sign-in and one read, four seconds | expected to violate `RemovedWithinOwnerCheck` |

`Alike` is a symmetry of two requests that ask the same of the same process;
nothing in the model tells them apart.

No fairness is assumed: these are safety properties. The `CHECK_DEADLOCK FALSE`
of the configurations stands for runs whose requests have all been answered.

**The finding.** `sessionCookie` remembers the passkey as an owner from the
session's start, because "verifySignIn just checked on-chain"
(`server.ts:325`). In between the site's `onSignIn` is awaited. A passkey that is
removed meanwhile stays signed in for `ownerCheckSeconds` from the start of the
session, so longer than that from its removal, against `server.ts:53`.
`RemovedStops` states what holds.

### Proofs about the site kit

`SiteKitProofs.tla`, for any requests, processes, nonces, payments, times and
failures:

- `PaymentOnce`, `PaymentKept` and `PayingOwned`, from `PayInv` and `ChecksInv`.
  The delicate step is the answer of the chain that several requests wait for
  (`AdmitKeeps`): at most one of their payments enters `paying`, and only if the
  player is not in it. `LedgerInv` adds that who verifies, claims or fulfils a
  payment is alone with its claim, which makes the claim and the list of
  fulfilled payments two halves of one account.
- `SignInOnce` from `NonceInv` and `SignedOutStays` from
  `SignOutInv`. `NonceInv` relates three clocks: a claim reaches the store at most
  `StoreDelay` after the nonce was found unexpired, so with
  `NONCE_TTL + StoreDelay <= NONCE_CLAIM` a claim is remembered for longer than any
  replay can still be on its way. `SignOutInv` relates two: a sign-out is
  remembered to the session's end, which no copy of the cookie outlives.
  `RemovedStops` follows from `OwnerInv`: each remembered answer, and each check
  under way, is at most `ownerCheckSeconds` younger than the removal, the
  session's start or the last check that failed (`SeenRecent`, `CheckTimely`).
  Its lemmas `Forgotten` and `Remembered` say of `rememberOwner`, for a memory of
  any size, that one answer per session stays and that all others were there.
  `TypesKept` is `TypeOK`, whose part that is not a type, that only payments in a
  block are claimed, needs `RestInv`.
- `NoncesAreForOneUse` and `PaymentsAreForOneUse`, the refinements. The first
  needs one more invariant, `ClaimInv`: a claim of a nonce outlives every check of
  it that passed, by `StoreDelay` at least, whatever became of the sign-in it was
  for. So a sign-in that is about to claim finds the nonce claimed if it ever was
  (`ClaimsSettled`), and who newly verifies one is its first (`NewlyVerifying`);
  without it a nonce lost to a refused sign-in could be taken by a replay after
  the store forgot it. The second needs that who fulfils is alone with the claim
  (`LedgerInv`), and that a step moves one request into or out of it
  (`PaymentMoves`), but a restart, which loses what its process had in hand.

Assumed: the relations between the times, and that requests which begin signed
in have nonces of their own (`StartAssumption`). Nothing of the site kit is
only model-checked.

## 7. Signing in and paying with the popup

`Connect.tla` composes what takes part in "Sign in with VeraKey": the site's page
(`session.ts`, `connect.ts`), the popup (`useConnectRequest.ts`, `ConnectPage.tsx`)
with the payment the SDK makes in it (`client.ts`), and, as their environment,
the relayer, the account's nonce and the site's server. Two browser windows
exchange messages; the player may close or reload the popup at any time; each
call to a server or a chain is answered later, or not at all.

| State | In the code |
|---|---|
| `status`, `paying`, `connect` | `VeraKeySession`'s state, and which `VeraKeyConnect` it holds |
| `stage`, `answer`, `outcome`, `named` | how far each call of `load`, `signIn`, `signOut`, `pay` or `confirmPayment` is, what the server answered, what the call resolved to, and how its error names a payment |
| `req` | the variables of `VeraKeyConnect.request`: which window, whether it is ready, the values, `sending` and `sent` |
| `win`, `popup`, `inbox`, `mail` | the named window, the page in it, and the messages posted either way |
| `nonce`, `tx`, `signed` | the account's nonce, each payment's transaction, the nonce it was signed for |
| `cookie`, `accepted` | the server's session and payments (in detail in `SiteKit`) |
| `others`, `losses`, `reloads` | counters that bound the environment together by `MaxMishaps` |
| `overlapped`, `moved`, `overtaken` | history, for the exceptions below |

Each action is a handler between two awaits: the page's calls, the listener
(`onMessage`), the poll for a closed window, the timer of a window that never
gets ready, the site's values for a sign-in; then the popup's steps, then the
outside. `fail` is the whole way of a request's end: `request`'s `settle`, then
the `catch` of `finishSignIn` or `finishPayment`, and `pay`'s `finally`.

| Property | Says |
|---|---|
| `PaymentNamed` | a payment that left the popup is never lost to the page: its call ended with its receipt or with an error that names it. Exceptions: the nonce moved between the popup's two reads of it, and a closed window noticed before its last messages were read |
| `ReceiptIsOwn` | a receipt is for one payment, mined and accepted once, and for no other call; it is the payment this call made, unless another took the nonce that names it |
| `PageHonest` | the page says that it pays exactly while a payment is under way, and once its calls have ended shows what the server's cookie says, unless calls overlapped or an answer was lost |
| `FailureClosesOwn` | a sign-in that fails for want of a nonce closes its own window, and never under another request |
| `ClosedEnds` | once its popup has closed, every request ends |
| `PendingNamesPayment` | the nonce reported for a payment is the payment's, as documented: violated, see below |

The runs `connect` and `connect_nonce` have seven kinds of visit (`Visits`), each
with a load: a sign-in and a payment; a payment and a sign-out; a second load
against a payment; a second load against a sign-in; two sign-ins against each
other; a sign-in, a payment and a sign-out; two payments. In the first five there
may be one mishap, an action of the account from elsewhere, a lost answer or a
reload; in the last two (`Calm`), which are the largest already, there is none.
Closing the popup is no mishap and possible at every step. With two payments,
the popup of the first may close while its payment is on its way, the second is
then signed for the same nonce, and each call gives the server a nonce that may
turn out to be the other's: the case `ReceiptIsOwn` makes an exception for, and the one in which a payment
accepted once must not be accepted again. Overlapping calls are
where the code's status can be overtaken; `overlapped` marks them, so that
`StatusTrue` says what the code promises and no more.

Fairness (`FairSpec`): the browser runs the page's timers, and each call to the
site's server ends (`WF` of `PageRuns(c)`). The poll is an interval and `fetch`
always settles. Nothing is assumed of the player, the relayer or the chain.

**The finding.** `connect.ts:31` documents a pending payment's nonce as "the
account's action nonce the payment uses". `ConnectPage.tsx:140` reads it before
`client.pay`, whose `authorize` reads it again after `ensureAccount`
(`client.ts:521`) and signs that one. An action of the account that is mined in
between makes them differ: run `connect_nonce`. `PaymentNamed` states what holds.

### Proofs about the popup

`ConnectProofs.tla` proves, for any calls, visits and number of mishaps, all
properties above that hold but `ClosedEnds`. Visits with several payments and
several sign-ins, any overlap and any mishaps, which are too large for the run,
are included. The
inductive invariant `IInv` adds to the properties

- `RequestInv`: a request is handed to the popup once, when the popup said it is
  ready and the values are there; until then nothing was said of it and nothing
  sent (`Untouched`);
- `PopupInv`: the popup works for its window's request, and the page knows of no
  sending before the popup sends;
- `NonceInv`: what the popup reported as the nonce is what it signs, unless the
  nonce moved between its two reads;
- `MessageInv` and `SentInv`: messages arrive in the order they were posted, so a
  request that hears an end after a sending has heard of the sending first. This
  is what `PaymentNamed` needs;
- `ReceiptInv`: the server accepts each payment once, and a receipt of another
  call's payment is of one with the nonce the call gave;
- `StatusInv`: between two calls of a page that makes one at a time, what it
  shows follows from the cookie, and during one from the answer it waits for.

The proof of `ReceiptIsOwn` found its first statement, that a receipt is always
of the call's own payment, to be false: two payments of a visit may be signed
for one nonce, and the one that is mined is then found for the other's call. It
is stated now with that case, and `OnePaymentReceipt` proves the simple form for
visits with one payment at most.

## 8. The limits

`RateLimits.tla` models `rate-limit.ts` on a clock, as the routes of `index.ts` use
it: `RateLimiter.take` with its windows that start at the first request, and
its sweep of ended windows, the visitors' keys that change every UTC day, and
the order in which a request takes from its visitor's limit and then from
everyone's. `route` picks a route's two limits and its window at the start.
`counted[v][t]` and `served[t]` are history, kept as running totals: what was let
through before moment `t` by the first limit and by both. What passed in a span is
the difference of two of them.

| Property | Says |
|---|---|
| `LimitsHold` | in any span of a window's length a visitor passes at most twice its limit, three times over midnight; a limit per day holds on every UTC day; everyone passes at most twice the common limit |
| `RefusedForOwn` | nobody is refused for what others took, or for what was refused |

Run `limits`: two visitors, requests of weight 1 and 2, a window of 3 and one of
4 in days of 4, seven instants, a sweep from two windows on. Windows end
before, at and after midnight; the sweep happens with live and ended windows of
both visitors and both days.

### Proofs about the limits

`RateLimitsProofs.tla` proves both properties for any limits, windows, weights,
number of visitors, length of a day and threshold of the sweep. A limit is proved
once, for any key that counts from some moment on: a visitor's from the dawn of
its day, the common one from 0. The inductive invariant `IInv` says for each key

- `Ledger`: what its window knows of what was let through. `Window`: the window's
  count is all that was let through since it began, and what came before leaves
  at most one limit to the moments that share a span with its beginning. `NoWindow`
  says the same of the present moment where there is no window, so a window that
  was swept is forgotten together with what it could still refuse;
- `Spans`: a span as long as a window passes two limits at most, and one at most
  if the key begins with it. Two days' keys make three limits over midnight
  (`VisitorSpans`), and the second half is `DailyLimitHolds`.

`RefusedForOwn` follows from `Window`: what a live window counts was let through
since it began, which is within the last window's length.

Assumed (`RoutesAssumption`): limits and weights are positive numbers, and no
window is longer than a day, as those of `index.ts` are.

## 9. What an assertion is good for

One passkey signs for many: the accounts of its player on several chains,
ERC-7579 wallets, sites, audiences of a disclosure. `Authority.tla` lets every
assertion that was ever made reach everyone who accepts assertions, any number
of times, and asks whether it passes for anything but what its player meant.

`ClientData.tla` is the text in between: what browsers write into
`clientDataJSON` and into a payment sheet, and the four readers, the Stylus
account's cursor (`client_data.rs`), the ERC-7579 module's fixed offsets
(`VeraKeyValidator.sol`), and `JSON.parse` in `signin.ts` and `disclosure.ts`. A
text is a sequence of tokens, each a piece no reader looks into; an origin is
several tokens, so that one can begin with another. A payment sheet's total is
written digit by digit, twice: by the page and by the contract.

| State | In the code |
|---|---|
| `signed` | the assertions: passkey, challenge and ceremony (`how`), with what the player meant (`about`, history) |
| `accounts` | the deployed accounts per chain: app, owner, policy, nonce (the rest is `VeraKeyAccount`) |
| `configs` | `VeraKeyValidator._configs` |
| `op_nonce` | the EntryPoint's nonces (external) |
| `accepted` | history: what each acceptor took an assertion for |

| Actions | Code |
|---|---|
| `sign_action`, `sign_operation`, `sign_message`, `sign_in`, `disclose` | the SDK's ways to a challenge, by `sign` |
| `create_account`, `execute_recovery` | the factory; a recovery changes the owner and not the address |
| `onInstall`, `onUninstall`, `validateUserOp`, `isValidSignatureWithSender` | the ERC-7579 module; anybody's nullifier can be installed |
| `authorize`, `verifySignIn`, `verifyDisclosure` | the account, a site, an audience |

A digest is the tuple that is hashed: hashes do not collide. A proof is accepted
when its assertion and its public inputs fit (`proves`, `proves_link`); that
circuits and verifiers establish this is assumed. Left out: expiry of statements
and deadlines of approvals (the latter is in `VeraKeyAccount`, a sign-in's single
use in `SiteKit`), identifiers that are zero or no field elements, ABI decoding,
base64url. A wallet may be asked to sign any message, a digest of another
use included (`Messages`).

| Property | Says |
|---|---|
| `MadeForThis` | what is accepted is what its player meant: the same account, chain, nonce, message, site or audience, of the owner's passkey |
| `MadeAsAccepted` | it was made on VeraKey's own origin, in no frame, by a verified player, and a payment sheet showed who is paid and all of what |
| `AcceptedOnce` | no assertion moves an account or a wallet twice, and of two for one nonce one does |
| `Placed` | accounts are where the factory put them, whatever recoveries followed, so an address tells the policy on every chain |
| `ReadersAgree` | the module reads every beginning of every text as the account does; a site, which reads whole texts only and has no limit on their length, accepts exactly what the contracts would but for theirs (`matches`), and so also longer texts that both contracts refuse |
| `GenuineAccepted` | what VeraKey's page made for the present nonce is accepted, with whatever a browser appends, and every total is written alike |
| `RemovedStaysOut` | a passkey that no longer owns an account neither moves it nor signs in with it nor shows it linked to another, however early it signed |

Run `authority`: two passkeys, sites, wallets and chains, the chains' factories at
one address with different policies; twelve ceremonies: VeraKey's page in
two browsers, an origin that begins with VeraKey's, a frame, an unverified
player, extensions, a text that is too long, five payment sheets. Two
assertions (for one account; one of everything else), two places and two
acceptances: a replay, a race for one nonce and each pair of a signer and an
acceptor need no more. An account has one owner here and its players sign for
their own accounts only; sets of owners are in `VeraKeyAccount`. `CHECK_DEADLOCK FALSE`: the bounds end a run.

### Proofs about assertions

For any passkeys, sites, wallets, chains, policies, ceremonies and texts of any
length, every property above.

`ClientDataProofs.tla` is about the texts. No induction over what a browser
appends is needed, because readers and texts are compared place by place:
`Reads(json, n, t)` says that `t` stands in the text after its first `n` tokens.

- `MatchesIff`, `VerifyIff`, `ModuleIff` and `PaymentIff` say of each reader which places it asks
  for; `PlainReads` and `SheetReads` of each text what stands where.
- `Delimited`: a piece that ends at a token it does not contain is determined by
  the text. So an origin that begins with VeraKey's is not read as VeraKey's.
- `CutAgrees`: the module and the account agree on every beginning of a text.
  `WholeAgrees`: a site agrees with the account's checks but for its limit on a
  whole text, of any length.
- `TotalTells` says that two amounts written alike are the same, `TotalsAgree`
  that the page's digits are the contract's. With `SheetPaid` and `SheetPasses`,
  a sheet's text passes exactly for the payment the sheet showed;
  `NoPaymentReads` says that any other text passes for none.

`AuthorityProofs.tla` is about the system. Its inductive invariant `IInv`
consists of `MadeForThis`, `MadeAsAccepted`, `AcceptedOnce`, `Placed` and

- `SignedInv`: each challenge is the digest of what its player meant;
- `SheetsArePayments`: a payment sheet is shown for a payment only;
- `NoncesPast`: what was accepted with a nonce is past that nonce.

`AcceptedOnce` needs the last. `MadeForThis` needs the first and that each reader
takes the challenge for what the text says it is (`AcceptorsChallenge`), and
`MeantAction` to `MeantLink`, that a digest of one kind of use is none of another's.
`MadeAsAccepted` needs the texts and, for the sheet, `SheetsArePayments`.
`GenuineAccepted` and `ReadersAgree` follow from the texts alone. `RemovedStaysOut`
needs `Placed`: a site asks the account at the address of the app and the
nullifier, which is then that app's account (`StillTheirs`), and an audience asks
both accounts of a link.

Assumed: an action is its kind, payee and amount, and `BrowserAssumption`, what
`client_data.rs` and `webauthn.ts` rely on of WebAuthn (5.8.1.1): no origin holds
punctuation; `crossOrigin` is the first member after the origin and `true` in a
frame only; a text ends with its brace and every other appended member begins
with a comma; nothing but logos stands between a sheet's name and its total. TLC
evaluates it for the ceremonies of the run.

## 10. Plan

What is left, in order of what it would add:

1. **Site kit**: the in-memory store, whose claims a restart forgets, and
   `ownerCheckSeconds = Infinity`.
2. **Relayer**: transactions the node forgets after it took them.
3. **`Connect`**: two open tabs of one site, and a run of its own for two payments
   in one visit with mishaps, which are only proved so far.
4. Pure operators against references: `is_restrictive` against the set of
   payments a policy refuses.
5. **App**: `VeraKeyProvider`'s refreshes, which overlap as the page session's
   calls do.

## 11. Not modelled

- Honk verifiers: generated arithmetic; circuits: the arithmetic behind what
  they establish. What they establish is in `Authority`, as an assumption.
- Injective encodings: base64url, field limbs, ABI, cookies and MACs. Their
  values stand for themselves.
- The relayer's argument parsing and health route, the RPC proxy's filter of
  methods and its forwarding, which keep no state; the demo button for funds in
  the popup.
- The SDK's reads for display, ABI tables, passkey registration and storage,
  key parsing and the loading of WASM provers.
- The app's pages, interface components and documentation, build scripts,
  examples and deployment: presentation and I/O. They are most of the
  repository's lines, so the lines that are mapped stay a small part of it;
  what is mapped is nearly all of the code that keeps or changes state.

| Only model-checked | Why |
|---|---|
| `DefenceNeverRefused` | stated with `ENABLED`; `DefencesAlwaysPass` proves what it rests on |
| `SlotsAreFreed`, `NothingStuck`, `ClosedEnds` | liveness under fairness |

Every other property of a passing run is proved for every value of the constants.

