# A verification project for loyal-app

TLA+ models of the stateful parts of this repository, the TLC configurations that
check them on small instances, and theorems about them that TLAPS checks for every
value of the constants. All paths below are relative to `src/`.

    tlc -workers 2 -config EarnAutodepositSweeps.cfg MCEarnAutodeposit
    tlapm EarnAutodeposit_proofs.tla

- [Inventory](#inventory)
- [Modules](#modules): what each models and how it corresponds to the code
- [Runs](#runs): what is checked, under which bounds, and what it shows
- [Disagreements found](#disagreements-found)
- [Proofs](#proofs)
- [Not modelled](#not-modelled)
- [Plan](#plan)

## Inventory

The repository is a monorepo: a Next.js application with the Earn product
(`apps/web`), a Telegram bot (`apps/telegram`) and userbot (`apps/userbot`), user
interfaces (`apps/mobile`, `apps/extension`, `apps/admin`, `apps/dashboard`), shared
packages, Rust crates, and an alert relay (`observability/telegram-relay`). Its own
core logic, where state is kept and several actors change it, is in the following
components.

| component | state | operations | actors and interaction | what makes it correct |
| --- | --- | --- | --- | --- |
| **Earn Autodeposit** `apps/web/src/lib/yield-optimization/earn-autodeposit-*` | rows of Neon: target, policy, wallet-balance projection, scheduled slots, surplus lots, lot claims | confirm setup, heal a setup, change floor, toggle, execute now, close, reconcile a missing policy | HTTP handlers, each a sequence of single-statement transactions; the LaserStream projector and the Go sweep worker write the same rows; Solana is read by RPC | surplus is swept once; closed is final and true; suppressed surplus stays so; waiting surplus is in a slot that can be swept |
| **Alert relay** `observability/telegram-relay/src` | windows, idempotency keys, tallies, pending recap, per-key locks; a state file | webhook, sweep, restart recap, daily recap, export and import of state | requests and timer sweeps interleave at awaits; senders fail; deploys and kills | one alert per window; each payload counted once; nobody muted untold; each period reported once; nothing lost in a deploy |
| **Per-key locks** `relay.ts` `withLock` | map of promises | call | chained calls under one key | mutual exclusion, order, no entry left behind |
| **Earn ledger** `yield-deposit-repository.server.ts` and the deposit and withdrawal confirmations | positions, holding events | confirm deposit, top-up, withdrawal, reconcile | handlers retried by clients; chain reconciliation | principal counted once per signature, in whatever order confirmations come |
| **Earn full exit** `earn-full-exit-*`, `earn-cleanup-confirm` | policies, position | prepare, confirm, zero proof | client saga over several transactions | nothing is closed while a balance is left |
| **Earn onboarding attempts** `yield-neon-client.server.ts` | attempt row with a stage | stage confirmations | client saga | stages only advance; a dead attempt does not block the next |
| **Earnings cache** `earnings-cache.server.ts`, `earnings-read-service.server.ts` | one saved chart per wallet and timezone, with a revision and a checkpoint; an advisory lock | read, refresh, calculate, save | concurrent readers and a daily job on many servers; deposits and corrections of old data meanwhile | a chart answered as current is that of the positions; an incremental chart is the full one; the saved chart becomes current |
| **Earn realtime** `apps/web/src/features/earn-realtime` | stream cursor in the tab and in sessionStorage, connection phase, admission promise, pending events and the batch in flight | connect, receive, flush, acknowledge, admit, resynchronize, remount | event stream with reconnects, a React effect, timers; refreshes go through the coordinator below | a cursor covers only what is displayed; nothing a connection passed over is lost; every event is shown in the end |
| **Resource refresh** `use-smart-account-sidebar-data.ts`, `hooks/smart-account-sidebar-data/*`, `earn-transactions.client.ts`, `use-active-earn-position.ts` | the coordinator's runs and dirty flags; per resource an in-flight promise, a dirty flag, an order token | invalidate, read, settle; reads that bypass the coordinator | the batcher, the admission, mutations, subscriptions, polls, all on one event loop | a caller is answered from a read that began after it asked; older answers do not replace newer ones; nobody waits for a run that is over |
| **Smart account provisioning** `features/smart-accounts/server` | one row per user (`settings_pda`, state), a cache of signers, transactions under way | ensure, promote, reserve, replace, sponsor | sign-ins, mobile requests and the reconciler for any users; the program on Solana, which numbers accounts for all applications; forks | one account per user; a ready row names an account of its user |
| **Wallet authentication** `features/identity/server` | the completion record of each challenge: a lease with a token that anyone may take over after 30 s | begin, take over, poll, complete, fail | retried and concurrent requests of one challenge, each running `ensureUserSmartAccount` | what a request was told is what the record says, for good |
| **Telegram bot and userbot** | vote counts, message edits, sync cursors | vote, stream, sync, publish | webhook handlers, a worker loop | votes counted once per user; edits in order; a summary published once |

The behaviours that are hard to test here, and that the models aim at, are listed
with their lines as `hazards` in `PROJECT.json`. In short:

- **Autodeposit.** The Neon driver runs each statement in a transaction of its own.
  A handler therefore works with what earlier statements returned, which other
  handlers, the projector and the worker may have overtaken; and a statement that
  waits for a row lock combines a snapshot taken before the wait with rows re-read
  after it.
- **Relay.** Everything between two awaits is atomic, everything across an await is
  not. A send is awaited under two locks; sweeps run from a timer that does not wait
  for the sweep before; the process is replaced by a deploy in the middle.
- **Realtime and refresh.** Acknowledging an event, admitting a connection and
  re-reading the screen are separate promises, each with its own failure, coalesced in
  three layers that do not know of each other; a page can be reloaded between any two.
- **Earnings.** A chart is computed from six reads, one after the other and outside any
  transaction, of sources that are being written; the result is then reused as current
  and as the base of the next one, whoever saves it.
- **Provisioning and sign-in.** The number of an account is a prediction that other
  users and other applications may falsify; a creation can be reported as failed and
  land, or be reported as landed and be forked out; two requests of one challenge may
  both believe that they own it.

## Modules

| module | models | against |
| --- | --- | --- |
| `EarnAutodeposit` | the web handlers of Autodeposit, with the chain, the projector and the worker as environment | its own properties and `SweepOnce` |
| `SweepOnce` | what Autodeposit promises of surplus: one amount, moved once and whole, never after it was dropped | |
| `EarnAutodeposit_proofs` | theorems about it | |
| `AlertRelay` | the relay process, its senders and its state file | its own properties |
| `AlertRelay_proofs` | theorems about its locks, windows and recaps | |
| `AlertRelayTables_proofs` | theorems about its tables and what is counted in them | |
| `KeyedLock` | `withLock` of the relay: a chain of promises | `FifoLock` |
| `FifoLock` | what `withLock` promises: first come, first served, per key | |
| `KeyedLock_proofs` | theorems about `KeyedLock` | |
| `EarnRealtime` | the Earn event stream of the web client: cursor, connection, admission, batcher | its own properties |
| `EarnRealtime_proofs` | theorems about it | |
| `ResourceRefresh` | the coordinator and the three ways of coalescing reads below it | its own properties |
| `ResourceRefresh_proofs` | theorems about it | |
| `SmartAccountProvisioning` | `ensureUserSmartAccount`, the users' rows, the signer cache, the program and its forks | its own properties |
| `WalletSignIn` | extends it with the lease under which the requests of a challenge run it | its own properties |
| `WalletSignIn_proofs` | theorems about both | |
| `EarningsCache` | the cached read of the earnings, its refresh lock and the calculation below it | its own properties |
| `EarningsCache_proofs` | theorems about it | |
| `MCEarnAutodeposit`, `MCAlertRelay`, `MCKeyedLock`, `MCEarnRealtime`, `MCResourceRefresh`, `MCWalletSignIn`, `MCEarningsCache` | instances for TLC | |

`AlertRelay` composes with the locks by using their abstract form: a queue per key,
as in `FifoLock`, which `KeyedLock` is shown to implement. `WalletSignIn` composes the
lease with provisioning by running the attempt of its owner step by step. `EarnRealtime`
assumes of a refresh what `ResourceRefresh` shows of the coordinator: when it
succeeds, what is displayed was read after it was asked for. This leaves two cases of the
code out: an Earn state superseded by a direct read (the exception in `ReadAfterAsked`),
and a position that cannot be read, whose refresh succeeds with nothing read.

### EarnAutodeposit

*State.* One target (one policy account, one mint). `target` is the row of
`balance_sweep_targets` with its `active` flag, `lifecycle_status` (as `chain`:
`pending` stands for `pending_policy` and `pending_delegation`) and floor;
`policyActive` the policy row; `proj` the balance projection; `slots`, `lotStatus`,
`lotSlot`, `original`, `remaining`, `claimStatus`, `claimSlot`, `held` the scheduled
slots, surplus lots and claims. `onchain` and `wallet` are Solana. `sent` and `swept`
record what has moved on chain. `pc` and `seen` say at which statement each request is
and what its statements have returned.

*Actions.* One action is one SQL statement or one RPC read. A data-modifying statement
that can wait for a row lock is two actions, `...Begin` (its READ COMMITTED snapshot)
and `...Apply` (the rows as they are when the lock is granted); a statement that
depends on nothing but the rows it locks is one.

| handler | actions |
| --- | --- |
| `autodeposit/setup/confirm` | `SetupVerify`, `SetupRead`, `SetupUpsert`, then the bootstrap: `SetupSnapshot`, `SetupProjRead`, `SetupProjWrite`, `SetupLotRead`, `SetupSlot`, `SetupLotInsert` |
| `autodeposit/setup/prepare` (heal) | `HealRefused`, `HealFind`, `HealRead`, `HealWrite` |
| `autodeposit/close/confirm`, `withdrawals/cleanup/confirm`, mobile close | `CloseRead`, `CancelBegin`, `CancelApply`, `CloseDeactivate` |
| `withdrawals/cleanup/prepare` | `ReconcileFind`, `ReconcileCheck`, `ReconcileRead`, `CancelBegin`, `ReconcileCancelApply`, `ReconcilePolicy`, `ReconcileTarget` |
| `autodeposit/floor/confirm` | `FloorRead`, `FloorBegin`, `FloorApply` |
| `autodeposit/toggle/confirm` | `ToggleRead`, `ToggleWrite` |
| `autodeposit/sweeps/execute` | `ExecRead`, `ExecBegin`, `ExecApply` |
| Solana, projector | `ChainOpen`, `ChainClose`, `WalletChange`, `ProjectActive`, `ProjectClosed`, `Observe`, `ObserveSurplus` |
| sweep worker | `WorkerClaim`, `WorkerSweep`, `WorkerRecord`, `WorkerRelease` |

The projector and the worker are not in the repository. They are modelled from the
rows, statuses and statements that the code shares with them (the claim and
release columns, the comments on `openSlotFor`), and marked external.

*Environment assumptions.* The policy is created and closed once. A client that
confirms a close sends the signature of its close transaction: the routes check that
the signature is confirmed and not what it did, so this is an assumption about the
client (the mutant `UnverifiedClose` shows what it protects). A sweep can land only
while the delegation exists. The worker gives up only a sweep that never landed. A
worker that fails to tell is one that never acts again, which the model contains.

*Failures.* A handler may stop after any statement: requests have no fairness, so a
behaviour in which a request never takes its next step is a crashed handler. Retries
are further requests of the same kind.

*Abstracted.* Eligibility times (a slot may be claimed at any time, which only adds
behaviours), signatures and metadata on the rows, the grouping by observed slot in the
close statement, legacy lots without a slot. `ReconcileCheck` reads the policy as it is:
the code passes no `minContextSlot`, so a node that lags behind could answer with an older
state, which is not modelled.

### AlertRelay

*State.* `windows` and `order` are the map of open windows with its insertion order,
`idempotencyKeys` the expiring cache, `eventLocks` and `idemLocks` the two maps of
locks as queues, `daily`, `nextRecapAt`, `pendingRecap`, `recapAttempts`,
`recapInFlight` the recap, `startedAt` and `restartRecapDone` the grace period after a
start, `disk` the state file. A payload is its idempotency key, from which the dedup
key, the evaluation range and the matched lines follow. `alarms`, `recaps`,
`restartRecaps`, `closed` and the fields `told` and `forgotten` of a window are history:
what the chat has been sent, what has been counted in periods that are over, whether
every destination accepted the alert of a window, and whether it was still held back when
the state file was written, which does not say so.

*Actions.* One action is the code between two awaits. `Receive`, `Identify`, `Defer`,
`Announce`, `Announced`, `Repeat`, `Escalated` are `handle`; `SweepStart`,
`RestartRecapSent`, `SweepScan`, `SweepNext`, `SweepClose`, `DailyIdle`, `DailySwap`,
`DailyRetry`, `DailySent`, `SweepPersist` are `sweep` with the two recaps and the
write of the state file; `Deploy` is the shutdown on a signal followed by a start,
`Crash` a kill followed by a start, `Tick` the clock.

*The event loop.* JavaScript runs every ready continuation before it takes a request,
a timer or an answer from the network. `Ready(p)` says that a process has a
continuation to run, and the actions that start a task (`Receive`, `SweepStart`, the
answers of a send, `Deploy`) require `Quiet`, that none has. A kill comes at any time.

*Sends.* An answer says for each destination whether it accepted. The fan-out sender
resolves when all did. Rejections are bounded by `MaxFailures`.

*Abstracted.* Message texts and rows, the limit of 200 signatures of a day, unreadable
rows of the state file, `dailyRecapEnabled` (on). The state file is written in one step.

### KeyedLock and FifoLock

`locks` is the map from a key to the promise stored there, named by the call that
stored it; `previous` the promise each call waits for; `Ask` is the synchronous part of
`withLock`, `Enter` the end of `await previous`, `Leave` the `finally`. The tail of a
call settles exactly when its gate does, because the call had waited for the tail
before its own. `ticket`, `issued` and `served` are history variables: they name the
order in which calls were made and how many of a key are over, for the proof and for the
refinement mapping: `QueueOf(k)` is the active call with ticket `served[k]`, then that
with the next ticket, and so on to the last ticket issued.

### EarnRealtime

*State.* The producer's events are numbered; `head` is the last one recorded and
`view[r]` says how many of them the displayed state of `r` includes. `memory`, `primary`
and `tombstone` are the cursor store: the tab's module variable, sessionStorage, and a
value there that a refused write has left and that must not be read. `phase`,
`requested`, `sent`, `lastEventId` and `connected` are the lifecycle and the reader,
`admission` the hook's latest admission promise, `pending` and `batch` the batcher.

*Actions.* One action is one task of the event loop with its microtasks:
`SendRequest`, `RequestFails`, `Connect`, `Deliver`, `StreamEnds`, `ResyncRequired`
(lifecycle and reader), `AdmissionSucceeds`, `AdmissionFails` (the refresh of every
resource that admits a connection without a cursor), `flushNow`, `BatchAccepted`,
`BatchRejected` (batcher), `Remount` (unmount and mount, with or without a reload),
`ProducerRecords`. A reset of the batcher leaves a batch of an older epoch in flight
(`current = FALSE`), which must neither acknowledge nor be put back.

*Faults*, bounded by `MaxFaults`: requests and reads fail, connections drop, the
producer asks for a resynchronization, the hook remounts, the page reloads. That
sessionStorage refuses a write is free.

*Abstracted.* Tokens and their renewal (a kind of `StreamEnds`), back-off times,
unsupported events, the registry that correlates local mutations with events.

### ResourceRefresh

*State.* `coord[r]` is the coordinator's run of a resource, `loop[r]` the read loop below
it (in flight, dirty, still the latest, and the server's state when its read began),
`readable` whether the displayed Earn state has the policy that a read of the position
needs, `direct` the latest `refreshEarnState` outside the singleflight, `live` the read of the
effect that loads the position, `call[c]` what caller `c` awaits.

*Actions.* `Invalidate` (the synchronous part of `invalidate`), `ReadSucceeds` and
`ReadFails` (the end of a read with everything it continues: the loop's next read, the
coordinator's next run, or the callers), `RequestBelow`, `refreshEarnState`,
`EarnStateArrives`, `EarnStateFails`, `LivePositionArrives`, `LivePositionFails` (reads
that bypass the coordinator), `ServerChanges`. A read returns the state of some moment
between its start and its end.

The three resources differ in how they coalesce. A request for the Earn state takes an
order token, so the read in flight no longer commits; one for the transactions
invalidates the cache, with the same effect; the position's read commits and is
followed by another. The position alone is asked again while its run is in flight. And it
alone may have nothing to be read by: without a policy `readRpcPosition` returns null
(`use-active-earn-position.ts:532`), so a refresh of it resolves in the task that asked,
with nothing read (`Unreadable`). Each Earn state that is displayed may bring a policy or
take it away (`Displayed`); a loop goes on with the policy it began with. The sidebar's full
refresh takes an order token as `refreshEarnState` does, and is represented by it.

*Abstracted.* The other groups of the sidebar; a change of the signed-in identity, which
discards everything, as does a full refresh that fails and clears the Earn state; what a
read returns. The earnings cache of
`use-earn-earnings.ts` has the shape of the transactions'.

### SmartAccountProvisioning and WalletSignIn

*State.* `chain[i]` is the attempt (or `Other` application) that created account `i`,
`final` how many of them are final, `inflight` the transactions sent, `cached[i]` which
owners some server may remember, `rows[u]` the row of a user, `at[a]` the step and the
local variables of an attempt, `dropped` the accounts that forks have ever dropped.
`completion[c]` is the record of a challenge, `stage`, `holder` and `reply` the requests.

*Actions.* One action is one await: one SQL statement or one RPC call.

| code | actions |
| --- | --- |
| `ensureUserSmartAccount`, `maybePromoteRecord` | `Find`, `PromoteOwned`, `PromoteMismatch`, `PromoteMissing`, `MarkPromoted`, `MarkFailed` |
| `reserveProvisioningRecord` | `ReadIndex`, `Insert`, `Existing`, `Replace`, with `Conflict` on the unique index |
| `sponsorRecord`, `createSponsoredSmartAccount` | `Send`, `Confirmed`, `Rejected`, `Final`, `NeverFinal`, `CheckSigners`, `MarkReady` |
| the program on Solana | `Lands`, `OtherCreates`, `Finalizes`, `Forks` |
| `beginWalletAuthCompletion` | `InsertLease`, `ReadLease`, `TakeOver` |
| `awaitWalletAuthCompletion` | `Poll`, `PollTimesOut` |
| the owner of the lease | `EnsureStep`, `Complete`, `Fail`; `LeaseAges` is the end of its 30 s |

*Failures.* `Outage` is a call that fails or times out at any step, and stands for the null
answer of a node that lags behind (`service.ts:376`, `onchain.ts:282`); attempts and requests
have no fairness, so each may stop anywhere. A transaction reported as failed may still
land. The update that completes a sign-in may fail before it took effect or after.

*Abstracted.* Signers delegated by the root, changes of an account's signers, the
treasury, analytics. A server's memory of signers never expires, which only adds
behaviours: the server that answers may be any that has the memory or none. A
transaction that a fork dropped does not land a second time. The requests of a
challenge carry the same wallet, and the user's row exists before (`ensureUser`).

### EarningsCache

*State.* `source[s]` is the set of rows of a source: the ledger's events, the exposures
of the vault (history) and the APY samples, each with its time. `applied` and `open` are
the positions' rows: which events they account for, and whether one is active; their
hash is `Revision`. `stored` is the row of `earn_earnings_snapshots`, `lock` the
advisory lock, `task[p]` what server function `p` does and what it has read so far.

A chart is represented by the rows it was computed from (`Used`), so two charts are the
same when they come from the same rows. A correction of an old exposure or sample adds
a row at its midnight, as each write increments the counter of its day in
`earn_history_day_revisions`; the fingerprint of a past is then the set of rows before
its time. The rows that an incremental calculation does not read are kept in
`task[p].read` all the same, to say what a full one would have read.

*Actions.* One action is one await.

| code | actions |
| --- | --- |
| `readCachedEarnEarningsRangeSet` | `Ask`, `Decide`, then the refresh: `TryLock`, `LoadLatest`, `Recheck` |
| `withEarnEarningsRefreshLock` | `TryLock`, and `Released` at the end of the task, however it ends |
| `readLifetimeEarnedUsd` (daily notification) | `ReadUnlocked`: calculates and saves without the lock |
| `readEarnEarningsRangeSet` | `LoadOwn`, `LoadRevision`, `LoadLedger`, `Verify`, `LoadNextFingerprint`, `LoadHistory`, `LoadApy`, `Confirm`, `MakeCheckpoint`, `Bracket` |
| `saveSnapshot` | `Save`, which keeps a chart that was generated later |
| the ledger | `RecordEvent`, `ApplyEvent` (two statements), `ClosePositions` |
| observers of vaults and rates | `ChangeHistory`, `ChangeApy` |

*Failures.* `Fail`: any query, the lock's connection or the write fails, or the function
is stopped (in the code a calculation whose lock has lost its connection goes on and saves
without it, which `ReadUnlocked` does in the model); `Without`: a query the calculation can do without fails (its own row, a
fingerprint), and it goes on. Both are bounded by `MaxFailures`.

*Abstracted.* The three parallel reads of `LoadHistory` are one step: revision and
fingerprints before and after it are what a change among them must not escape. The
arithmetic of the chart and the tests of coverage (which make a
calculation fail, as `Fail` does). The first deposit is fixed. The principal is the sum of
the events' amounts: the clamps at zero of the legacy models are left out. An event whose
row is not yet linked to its position counts as one that is not applied. That an
observation precedes the next checkpoint is taken to hold once a midnight has passed
since the first deposit. Rows saved by an older version of the server are not
distinguished: that changes the answer, not the row. The full exit is final.

What the model showed, beside the properties: after a full exit the empty chart is
returned and not saved, so the last chart stays, is answered as stale and is rebuilt at
every poll (`LoadHistory`); and a rebuild that fails answers with the row it had read,
also one that the cached read had found unusable.

## Runs

The bounds are chosen so that operations that write the same lots, slots or lifecycle
status meet in some run, with two or three requests of the kind a client retries: floor updates with
execute-now requests, a toggle, the projector and the worker in
`EarnAutodepositSweeps`; setups and a heal with a close, a reconciliation, an
execute-now request and the worker in `EarnAutodepositClose`. A floor update and a close
meet in the proofs only. The counters that are bounded are the Solana slot of the wallet
(`MaxChainSlot`), the remaining amount of a lot (`MaxRemaining`, as much as the
give-backs of an instance can add up to), the clock (`MaxTime`), rejected sends
(`MaxFailures` of the relay) and restarts (`MaxRestarts`); events and faults of the
stream (`MaxEvents`, `MaxFaults`); changes, calls, bypassing reads and failed reads
(`MaxChanges`, `MaxCalls`, `MaxDirect`, `MaxFailures`); accounts, accounts that forks
drop, and failed calls with the accounts of other applications (`MaxIndex`,
`MaxDropped`, `MaxFaults`); the clock, changes and failures of the earnings
(`MaxClock`, `MaxChanges`, `MaxFailures`). `MaxReservations` is a constant of the code (6) that the
runs set to 2. Identifiers of one kind are interchangeable and symmetric, except where
a liveness property is checked.
The wallet's balances are 0 and 2 and the floor is 1: a balance can be below the floor,
above it and, after a sweep, at it.

| run | instance | shows |
| --- | --- | --- |
| `EarnAutodepositSweeps` | 1 setup, 2 floor updates, 1 toggle, 1 execute-now, 2 claims, 1 worker lot, 2 wallet changes | the inductive invariant of the proofs; surplus that waits is in a slot that can be swept (no bootstrap is under way in this instance: lots come from the worker and from floor updates); an execute-now request never re-queues a slot that was taken since it looked |
| `EarnAutodepositClose` | 3 setups, 1 heal, 1 close, 1 reconciliation, 1 execute-now request, 2 claims; the wallet does not change | a close and a reconciliation hand claimed amounts back, some of them twice, and still no surplus moves twice; everything together implements `SweepOnce`; a row is condemned only when the policy is gone, and no stale read moves it out of closed; one bootstrap lot for all retries |
| `KeyedLock` | 4 calls, 3 of them under one key | mutual exclusion, exact map, the inductive invariant, refinement of `FifoLock` with its fairness |
| `AlertRelayDay` | a delivery, its retry, a second payload of the alert, a recovery; 2 overlapping sweeps, 2 rejected sends, 2 periods | a payload is counted once if accepted and never otherwise; no alert inside a window; a period is reported at most once; a retried recap does not grow |
| `AlertRelayGrace` | grace period, 2 overlapping sweeps, 3 payloads of 2 alerts, a rejected send | every request answered; every alert held back reported |
| `AlertRelayRestarts` | state file, grace period, 2 destinations, 2 kills or deploys, a delivery, its retry and 2 other payloads of 2 alerts, caches of one entry, a rejected or partial send, 2 ticks | types; nobody muted untold across restarts but by what the file forgets; a deploy drops no accepted payload that is less than a day late, whatever an earlier kill left on disk; caches at their limit; no running window closed by a sweep |
| `EarnRealtime` | 2 resources, 3 events of which one touches both, 3 faults | types; no cursor that may be resumed from covers an event that is not shown; a connected client has skipped nothing; every event is shown in the end, unless the client ends up behind a rejected admission |
| `ResourceRefresh` | 3 resources, 2 callers, 2 calls, a read that bypasses the coordinator, a failure, a change of the server | types; whoever waits, waits for a read in flight; what a caller awaited was read after it asked; Earn state and transactions never go back; every call settles |
| `WalletSignIn` | 2 requests of a challenge and an attempt of another user, 3 accounts, one fork, one failed call or foreign account | types; what was answered is recorded; ready rows carry accounts of their users; one account per user |
| `EarningsCache` | 2 tasks, 2 days of one tick, one change among a deposit, an exposure, a rate and the full exit, one failure | what the row and each task may be relied on for (the inductive invariant); a chart that is current replays to the positions; an incremental chart is the full one; the saved chart becomes current and stays so |

`ResourceRefresh` has one change of the server because a property of it compares at
most two versions of one resource: a value read before a call and the state at the
call. `EarnRealtime` has three events so that a batch can be in flight while one event
is older and one newer than it, and three faults so that a failed admission, a
reconnection and a reload can follow each other. In `WalletSignIn` three accounts leave
room for a foreign one, a forked one and a replacement. In `EarningsCache` one change
is enough to fall between any two reads of either task, one of which may hold the
lock while the other calculates without it; two changes (safety), three ticks with
longer days, and a fresh period of two ticks were checked once and are covered by the
theorems.

Runs that are expected to end in a violation are listed under
[Disagreements found](#disagreements-found).

*Deadlock* is checked in the runs of `AlertRelay`, where sweeps go on for ever. It is
not in the others, whose requests, calls or events are bounded: when all have been
answered the system is at rest.

*Fairness.* `EarnAutodeposit` has none, and no liveness is claimed: a handler can be
cut off by its platform at any await. `KeyedLock` assumes that the event loop runs
every ready continuation and that every action under a lock returns, which the
10-second timeouts of the senders ensure. `AlertRelay` assumes that each handler and
each sweep that can take a step again and again does (strong fairness, since most
steps wait for a moment with no ready continuation), that an answer of a send
arrives, and that time passes. It does not assume that a request arrives or that a
destination accepts: only that it rejects finitely often. `EarnRealtime` assumes weak
fairness of the client's own tasks (asking for the stream, flushing on the timer) and
of answers that arrive (the connection, the next event, the refresh of an admission, the
refresh of a batch), and none of faults; since faults are bounded, this says that the
stream works after the last one. `ResourceRefresh` assumes that a read in flight ends:
`fetch` resolves or rejects, and a rejection is an action of its own. `WalletSignIn` has
none: requests are cut off by their platform. `EarningsCache` assumes that the chart is
displayed, so that it is asked for again every five seconds while it is stale
(`use-earn-earnings.ts:527`) and a task that is not cut off goes on, and that a recorded
deposit is applied in the end (its confirmation is retried); not that the daily
notification runs, and failures are an action without fairness. The clock stops at
`MaxClock`, so the saved chart that becomes current stays so; it says that each day's chart
is reached, not that no later day makes it stale.

## Disagreements found

Each of the first two is a run with a single property, and the quotation is in
`PROJECT.json`.

| run | property | what happens |
| --- | --- | --- |
| `EarnAutodepositStranded` | `OpenLotsScheduled` | the bootstrap makes a slot in one transaction and its lot in the next; a concurrent retry finds the slot empty and cancels it, and the lot ends in a canceled slot, where neither the worker nor the client sees it |
| `SmartAccountForked` | `ReadyIsControlled` | while one attempt waits for its creation to become final, another one (a second request, the reconciler) promotes the row because the confirmed account lists the wallet; a fork drops the account and another application takes its number |

The first needs two requests that overlap within a few statements, as a client that
retries too early makes them. One bootstrap is enough when, between its two statements, a
floor update puts a lot in the same slot and the worker claims and executes it: the
bootstrap's lot then waits in an executed slot. `OpenLotsScheduled` is also a property of
`EarnAutodepositSweeps`, where it holds: without a bootstrap under way, floor updates,
execute-now requests, the projector and the worker strand no lot. For every value of the
constants, `OnlyBootstrapStrands` proves that only the lot of the bootstrap can be left
behind, and `LotsStayScheduled` that no lot is when the setup is confirmed once, which
schedules no bootstrap.

The models also contain, without a run of their own:

- *A floor update that waited for another one* (`FloorBegin`, `FloorApply`) suppresses
  the lots of its snapshot, not the lot the other has just made, so two open lots can be
  left, against the comment at `earn-autodeposit-repository.server.ts:2342`. Each still
  moves at most its own amount (`NoLotSweptTwice`).
- *A retry after a partial fan-out* (`Announced`): one destination rejects, and the retry
  is posted again to the one that had accepted, against "a signature gets one 🚨 per
  reporting period" (`observability/telegram-relay/README.md:41`).
- *A second deploy inside the grace period* (`ExportState`): `serializeWindow`
  (`relay.ts:1234`) does not say that a window was held back, so its alert is muted
  without ever having been told. `QuietMeansTold` names exactly this exception
  (`forgotten`), and holds with a grace period, for any deploys and kills
  (`AlertRelayRestarts`, `ToldAcrossRestarts`); without a state file there is no exception
  (`NobodyMutedUntold`).
- *A rejected admission that stays* (`Wedged`): every batch awaits the hook's latest
  admission promise (`use-earn-realtime.ts:81`). When it was rejected and the next
  connection has a cursor, nothing replaces it: every batch is rejected and retried for
  ever while the hook reports "connected". A test says that the lifecycle "backs off
  repeated cursorless admission failures until one is admitted"; here a cursor
  acknowledged by an earlier batch, or a reload of it from sessionStorage, ends the
  retries of the admission. `EventuallyShownUnlessWedged` holds up to that state.
- *A direct read that takes the order token* (`refreshEarnState`): the coordinator's read
  then resolves without committing, so when the direct read fails, a caller is told that
  it was refreshed though nothing newer is shown. `ReadAfterAsked` says so with
  `Superseded`.
- *A position that cannot be read* (`Unreadable`): without a policy, a connection or
  settings a refresh of the position resolves with nothing read or committed
  (`use-active-earn-position.ts:532`, `642`). The caller is told that it was refreshed and
  goes on with what is displayed, so a batch is acknowledged although the position was not
  re-read; `ReadAfterAsked` is about those who await a read. When the policy appears, the
  effect that loads the position runs.
- The balance projection that is compared in one statement and overwritten
  unconditionally in the next, so that it can move backwards (`SetupProjRead`,
  `SetupProjWrite`).
- The `active` flag that a late setup or toggle sets on a row closed since it was read
  (`SetupUpsert`, `ToggleWrite`; the lifecycle status stays closed, and the readers test
  it).
- The restart recap that two overlapping sweeps both send (`SweepStart`), and the
  eviction, at the limit of windows, of one that waits for it (`SetWindow`).

## Proofs

The theorems are in the modules named `..._proofs`. They follow from the assumptions
named in the modules (kinds of requests are disjoint, amounts are naturals, a lot's name
is a floor request, an observation or the bootstrap; `KeyOf`, `Touches`, `UserOf` and
`ChallengeOf` are functions of their types; `None`, `Nobody` and `Other` are nobody;
bounds are naturals, a day has at least one tick) and nothing else. They hold for any number of requests, claims,
slots, lots, calls, keys, events, faults, callers, users, attempts, accounts, servers and corrections.

**`SweptAtMostOnce`: `Spec => []NoLotSweptTwice`.** What could go wrong: a close gives
the amounts of a claim back from a snapshot without asking whether the sweep of the
claim landed, and two closes may give the same amounts back twice, so a lot can hold
its surplus again after it was swept. The reason it is not swept again is that a close
or a reconciliation gets that far only after the delegation is gone. `NoLotSweptTwice`
alone is not inductive; `SweepInv` adds

- `TypeOK`;
- `CancelOnlyWhenClosed`: a handler about to give amounts back has seen the chain
  closed (and the policy never comes back);
- `UnbornLots`: a lot with no row has moved nothing and is in no claim, and the lot of
  a floor update has no row before the update;
- `LotsWhole`: while the delegation can still move funds, each lot is whole in one
  place: in the lot, in exactly one claim, or swept;
- `UnbornClaims`: nothing was sent for a claim that does not exist;
- `SurplusKnown`: a bootstrap that goes on to its lot has a positive surplus.

`SweepStep` has one lemma per action; those of `CancelApply`, `FloorApply`,
`WorkerClaim`, `WorkerSweep` and `WorkerRelease` carry the argument. `TypeCorrect`
follows, with `remaining` and every surplus natural.

**`SuppressedForever`** proves the action property `SuppressedIsFinal` (proved only: no
run repeats it, and `KeepsPromise` implies it of funds) from the same invariant: the only step that could sweep a suppressed lot is `WorkerSweep`, and
`LotsWhole` says that no live claim holds it.

**`PromiseKept`: `Spec => KeepsPromise`**, the refinement of `SweepOnce` by
`amount <- original`, `moved <- swept`, `dropped <-` the suppressed lots and
`delegation <- onchain`. `PromiseStep` maps each step to a step of `SweepOnce` or to a
stutter: `PromiseSweep` uses `LotsWhole` (the claim holds the whole of lots that moved
nothing), the insertions use `SurplusKnown` (the amount is positive) and `Born` (a lot with
no row has no amount), and every other step is a `Drop` of what it suppresses, because
suppressed lots stay so.

**`ClosedRowClosedOnChain`, `ClosedForever`** use `ClosedInv`, which adds that a closed
row exists, so that the upsert of a setup keeps its status, and that the update of a
heal is conditional.

**`NeverReopened`, `BootstrappedOnce`** prove the two other action properties of the runs
from `SweepInv`. `StepKinds` splits a step into those that leave slots and lots alone and
ten that do not. A slot that is selected, executed or canceled becomes scheduled again (a
new lot arrives) but never requested, because the statement of an execute-now request
tests the row it has locked; and the lot of the bootstrap gets its amount and slot only
in `SetupLotInsert`, which inserts no second row.

**`OnlyBootstrapStrands`, `LotsStayScheduled`** say where surplus waits. `SlotInv` is
`ClaimsInSlots` (a selected claim has its slot to itself, and no lot of that slot waits)
and `LotsWaitInSlots` (an open lot other than the bootstrap's is in a slot from which the
worker or an execute-now request takes it), as long as no cancel statement has begun
(`BeforeClose`: the chain is not closed, or there are no close and no reconcile requests).
The first part is what a release needs, which puts a lot back in its slot. The lot of the
bootstrap is not covered, because its slot is made by one statement and used by the next.
`LotsStayScheduled` is the instance of the run for any number of the other requests
(`OneSetup`): the only confirmation creates the row, which is still pending, and schedules
nothing (`NoBootstrap`), so there is no such lot; it takes a second confirmation to have one.

**`ChainInvariant`, `Exclusive`, `EntriesReclaimed`** use `ChainInv`: the active calls
of a key are a chain by ticket, from one call that waits for nothing to the call whose
promise is in the map. Mutual exclusion follows because a call inside waits for
nothing and that call is unique.

**`ServedInOrder`**: `Spec => Fifo!Init /\ [][Fifo!Next]_(Fifo!vars)`, the refinement of
`FifoLock` but for its fairness. `QueueInv` numbers the active calls of a key: their
tickets are exactly `served .. issued - 1`, each once, and the call that may run is the
one with ticket `served`; so `Ask` appends to `QueueOf`, `Leave` takes its head, and
`Enter` is the turn of the head.

**`KeysNeverStuck`**: while a key has an entry, exactly one of its calls is free to run
(`NeverStuck`), the one whose ticket is to be served next, so the promises of a key never
wait for each other in a circle. What is left to fairness is that this call goes on.

**`NoSecondAlarm`** (`AlertRelay`): `Spec => NoAlarmInsideWindow`, for any number of
deliveries, sweeps, alerts and destinations, with or without a state file, deploys and
kills. `LockInv` says that a handler that is sending is at the head of the queue of its
dedup key, and that the window of an alert under way is closed; the first makes the
second inductive, because only the head opens a window (`SetWindowOthers`: setting one
opens no other).

**`RetriesFrozen`**: `~StateFile \/ ~Crashes => (Spec => PendingIsFrozen)`. Without kills
the file that a process starts from was written in the same step (a deploy), so its
recap is the one in memory; a kill may bring back an older one.

**`NobodyMutedUntold`, `PeriodReportedOnce`**: `MutedMeansTold`, which is `QuietMeansTold`
without its exception, and `RecapPostedOnce`, both under `~StateFile`. `QuietInv` adds the shape of windows and of what a sender holds.
`OnceInv` orders the days: a posted recap is of a day before `nextRecapAt` and not after
today (`PostedBefore`), the recap that waits has not been posted (`PendingUnposted`), one
sweep at a time sends it (`OneSend`), and a sweep's idea of now is not in the future
(`SeenInPast`). With a state file the first one fails (a second deploy inside the grace
period, above); the second one is left to what a kill between a post and the write of the
file does: the recap is posted again.

**`RelayTyped`, `TablesBounded`** (`AlertRelayTables_proofs`). The maps are sequences of
keys without repetition, from which entries are filtered. What `Filter` returns (a
subsequence: no longer, no element twice, exactly the elements in the set) is proved by
induction on the prefix, taken as the least natural at which a claim fails
(`WFMin` of the library), since the induction theorems with an operator as parameter
cannot be used. `Tables` is the inductive invariant: types, `MapOrdered` (the order lists
each open window once), `CacheKept` (the limit of the keys), `Room` (an escalation under
way is one that the limit allows), and the same of the file.

**`RunningWindowsKept`**: `EarlyInv` says that a delivery opens at most one window, so a
window is named by its opener for good (`OpenersIn`), also in the file, and that a window
on the list of a sweep is over or is no longer the one that was listed (`ListRight`).

**`CountedExactlyOnce`**, while keys are remembered (no restarts, a lifetime beyond the
end of time, room for every key). `CountInv`: a key is in the cache exactly when a
delivery of it has been accepted, and is then counted once over the running tally, the
recap that waits and what is settled; a handler between its look at the cache and its
entry holds the lock of its key (`Holding`), so nobody else makes that entry.

**`DeploysKeepCounts`**: `StateFile => (Spec => DeployLosesNothing)`. The file written by a
deploy holds both tallies, and `Boot` reads both back unless they are a day late
(`Recent`), whose counts nobody could date (`relay.ts:541`).

**`LocksNeverDeadlock`, `QuietIsIdle`**. A handler takes the lock of its idempotency key
and then the one of its alert; a sweep takes the second alone; deliveries of one key may be
about different alerts and the reverse. `LinesInv`: the queue of a lock holds exactly those
who hold it or wait for it, once each, and who waits for the second lock holds the first.
So the head of every queue of an alert advances by itself, the head of a queue of a key
advances or waits for an alert whose head does (`NoDeadlock`), and when no continuation is
ready and no send is out, every queue is empty (`IdleWhenQuiet`).

**`HeldBackNotForgotten`**: `Spec => []DeferredStillDue`. Within the grace period after a
restart an alert opens a window without being told, to be reported by one restart recap.
What could go wrong: a handler reads the time inside the grace period, waits for a lock,
and holds its alert back after the recap has been sent, and then nobody is ever told.
`GraceInv` shows why it cannot: the deliveries in the queue of an alert have read the time
in the order in which they wait (`TimesInLine`), a sweep starts only when no continuation is
ready, so that the head of every queue is sending, and who sends is past the grace period
(`LateSends`); hence, by the time a sweep finds that the period is over, nobody behind that
head holds back either (`NoLateDefer`), and the recap covers all there is (`RecapCovers`).
The theorem is about one process and the next ones: a kill or a deploy loses the mark (see
*Disagreements found*), it does not leave a mark that no recap is due for.

**`NextRecapIsNext`, `ExpiryIsFirstRecap`** say what the two computations of times return,
for every length of a day and every cooldown: the next recap is the first multiple of a day
after now, no more than a day away; a window ends with the first recap that is at least a
cooldown after it opened, and none is skipped.

**`ToldAcrossRestarts`**: `Spec => []QuietMeansTold`, for every length of the grace period,
any number of destinations, with or without a state file and for any deploys and kills. A
window is `Known` when every destination has accepted its alert, it waits for the restart
recap, or the file was written while it did. `ToldInv`: every window, in memory and in the
file, is known. A handler opens a window only after every destination has accepted or to
hold the alert back; the recap ends the waiting only when it is accepted (`RecapDone`), and
then says so of each window it ends it for; and what is written is no longer waiting but is
forgotten. So a partial send, a limit, or a restart in between leaves no window of another
kind behind.

**`CursorsCoverShown`, `ConnectedSkipsNothing`** (`EarnRealtime`). A cursor that covers
only what is shown says nothing of the events between it and the connection. `IInv`
follows each event: `StreamAccounted`, what a connection passed over or delivered is
shown, waits in the batcher, or is covered by the admission that is running;
`PendingClosed` and `BatchClosed`, so is everything older than an event that waits or is
being refreshed, which is why the highest id of a batch may become the cursor (unless an
admission was rejected, and then nothing is flushed); `BatchShaped`, a batch that is
refreshing was asked for after its events were recorded.

**`OnlyWedgedStops`** is what `EventuallyShownUnlessWedged` rests on besides fairness. An event
that is recorded and not shown always has a step under way towards it (`OnItsWay`: the
lifecycle is about to ask or connect, an admission runs, the producer has something to send,
a batch is being refreshed or may be flushed), unless the client is `Wedged` and reports
"connected". `Attended` is the invariant it needs: a connection that is ending waits for an
admission that still runs, an open one is admitted or being admitted, and it has a cursor if
the last admission failed. So the state described under *Disagreements found* is the only one
in which the client stops.

**`NobodyOrphaned`, `LatestStartedWins`, `AnsweredAfterAsked`** (`ResourceRefresh`).
`IInv` is `TypeOK`, `NoOrphan` and four facts: reads and views are bounded by the
server's state (`Bounded`); what is displayed is no newer than a read that may still
commit over it can justify (`Ordered`); a read of the Earn state that lost its order
token was overtaken by a later direct read or is followed by another (`OvertakenLater`);
and a caller that waits for a run with no further read to come asked no later than that
read began (`Dated`). `AnsweredAfterAsked` is about callers that wait: whoever asks for a
position that cannot be read does not (`Unreadable`), and no answer is claimed to be new.

**`RunningCallsWait`, `ReadsComeToAnEnd`** are the part of `EveryCallSettles` that is not
fairness. `ReadsLeft(r)`, at most three, counts the reads of a resource that are still to
end: the one in flight, the one its loop is marked for, and the next run of the coordinator.
A call that has not settled waits for some resource, and for each of them a read is left;
every read that ends, well or not, makes the number smaller, and only a new request makes it
larger. The two layers of "dirty" flags can therefore not keep each other going.

**`ReadyOwned`, `OneAccount`** (`SmartAccountProvisioning`). `OwnershipInv` says of each
number that appears in a row, in an attempt past its reservation, in a transaction under
way and on the chain whose it can be: the unique index keeps rows of different users
apart; `TransactionsClaim` and `AttemptClaims`, an attempt works only on numbers that its
user's row carries, or has given up for good; and a row moves to another number only
when the chain has shown that the old one belongs to somebody else, or a fork has dropped
it; so (`AccountsClaimed`) an account of a user is the one its row carries. Both theorems follow "but for what a
fork dropped"; `SmartAccountForked` shows that this is needed. `ControlledWithoutForks` shows
the converse, that a fork is all it takes away: with `MaxDropped = 0`, and everything else as
it is, `ReadyIsControlled`, the property that run refutes, holds.

**`AnsweredCompleted`** (`WalletSignIn`). `LeaseInv`: a completed record is never
overwritten, because each update that ends a lease names the token it was taken with,
and a record that is over carries the token of nobody.

**`AnsweredOwned`** joins the two modules: the account that a sign-in is answered with is one
of the wallet that signed, also when another request of the challenge did the work and the
answer is replayed from the record. It assumes `OneWallet`, that the requests of a challenge
are made with one wallet: `completeWalletOnboarding` refuses a request whose proof is of
another wallet than the record of the challenge names (`wallet-onboarding.ts:544`). The model
leaves proofs of wallets out, so the assumption stands for this comparison.

**`FreshServedIsCurrent`, `IncrementalEqualsFull`** (`EarningsCache`). Both follow from
`CacheInvariant`. `CacheInv` says what can be relied on at each step of a calculation.
`RevisionHeld`: events are only ever added to the positions, so while the revision read
first is still the current one nothing was applied since, and the principal that was
compared in between is that of the revision. `CheckpointHeld` and `FingerprintHeld`: the
rows of a source only grow (a correction is one more), so what was read between two
equal fingerprints lies between them and is equal to both; a checkpoint that is verified
before and confirmed after the read stands for exactly the past of what was read
(`UsedIsRead`), and a new one for what it was computed from (`NewCheckpointHonest`).
`Replayed` and `Honest` carry both facts over to the saved row, which any task may take.

**`LockNotLeaked`** is the part of `EventuallyFresh` that is not fairness: the lock of a
refresh is only ever that of a task that is still calculating (`LockHeld`), through every way
a calculation ends, fails, starts again or is cut off; and what reads the saved row under the
lock is done by its holder.

*Model-checked only.* Liveness, which is out of the prover's reach: `DeliveriesAnswered`
and `DeferredReported` of `AlertRelay`, `EventuallyShownUnlessWedged`, `EveryCallSettles`,
`EventuallyFresh`, and the fairness part of `ImplementsFifoLock`. Of each of them the half that
is a safety property is proved: that nobody is stuck (`KeysNeverStuck`, `LocksNeverDeadlock`,
`OnlyWedgedStops`), nothing is forgotten or left locked (`HeldBackNotForgotten`,
`LockNotLeaked`), and what is waited for runs out (`RunningCallsWait`, `ReadsComeToAnEnd`);
that the step which is due is then taken is what fairness adds and TLC checks. Every invariant
and every action property of the passing runs is stated by a theorem. Two of these theorems have a
condition on the constants without which the statement is false, as the code is:

- `LotsStayScheduled` needs one setup and `BeforeClose`: retried setups strand a lot
  (`EarnAutodepositStranded`), and a close hands amounts back to lots whose slots it has
  canceled, on purpose.
- `CountedExactlyOnce` needs the key to be remembered: a key that has expired, or has been
  pushed out of a full cache, or is lost in a kill, does not stop a second count.

`NobodyMutedUntold`, `PeriodReportedOnce`, `RetriesFrozen`, `AnsweredOwned` and `ControlledWithoutForks` keep the
conditions named with them.

## Not modelled

| part | why |
| --- | --- |
| functions of the Autodeposit repository that only scripts call (`recordPendingAutodepositSetup`, `recordConfirmedAutodepositDelegation`, `recordConfirmedAutodepositTokenApproval`, `recordClosedAutodepositTarget`, `recordBalanceSweepExecution`) | no live handler reaches them |
| reads that serve the client (history, progress, sums) | they change nothing |
| formatting, redaction and credentials of the relay | pure functions of text |
| concurrent writes of the state file | what two overlapping writes leave is up to the runtime |
| the arithmetic of the earnings (`earnings-calculator.server.ts`), refunds, Earn Max, transaction builders | arithmetic or external protocols, no state of their own |
| user interfaces, generated SDKs, schemas, scripts | no core logic, or not written by hand |
| the Earn ledger (`yield-deposit-repository.server.ts`) | the live routes replace the position by a snapshot of the chain; what they leave depends on statements shared with a projector that is outside the repository; under *Plan* |
| user interfaces with no state that outlives a page, the Telegram bot and userbot | under *Plan* or left out |

## Plan

*Done:* `EarnAutodeposit`, `SweepOnce` and the refinement; `KeyedLock`, `FifoLock`;
`AlertRelay`; `EarnRealtime`; `ResourceRefresh`; `SmartAccountProvisioning` and
`WalletSignIn`; `EarningsCache`; the proofs above.

What is left, in this order; each module with its MC module, runs and, where named, proofs.

1. `EarnLedger`: the position row and its events under retried, reordered and
   concurrent confirmations and the chain reconciliation
   (`recordReconciledYieldVaultSnapshot`). Abstract specification: the position is the
   snapshot of the latest slot.
2. `EarnOnboarding` and `EarnFullExit`: the sagas, with a client that can stop and
   start again at any stage.
3. The local mutations that the realtime client correlates with events.
4. The recap of a period with a state file: `RecapPostedOnce` between kills.
5. The Telegram bot (votes, streaming edits) and the userbot.
