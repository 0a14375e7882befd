--------------------------- MODULE EarnAutodeposit ---------------------------
(***************************************************************************)
(* Earn Autodeposit of apps/web: the web API handlers that keep the        *)
(* balance-sweep target of a wallet, and the sweep slots, surplus lots and *)
(* lot claims that hang off it, in the Neon database it shares with the    *)
(* LaserStream projector and the Go sweep worker (both external).          *)
(*                                                                         *)
(* One target (one policy account, one mint) is modelled.  The database    *)
(* driver runs every statement in a transaction of its own, so a handler   *)
(* is a sequence of statements that other handlers interleave with; one    *)
(* action below is one statement, or one RPC read.  A data-modifying       *)
(* statement that can wait for a row lock takes two actions: at "begin" it *)
(* takes its READ COMMITTED snapshot, at "apply" it re-checks the live     *)
(* version of each row that it updates.  A request that stops forever is a *)
(* crashed handler.  A rejected request changes nothing and is a request   *)
(* that never leaves "idle".                                               *)
(*                                                                         *)
(* Abstracted: eligibility times (a slot may be claimed at any time),      *)
(* signatures and metadata checks on the target row, the observed_slot     *)
(* grouping of the close statement (it covers every lot it could touch),   *)
(* legacy lots with no slot.                                               *)
(***************************************************************************)
EXTENDS Integers, FiniteSets, FiniteSetsExt

CONSTANTS
  Setups, Closes, Floors, Toggles, Executes, Reconciles, Heals, \* the requests
  Observations,     \* balance events from which the worker may open a lot
  Claims,           \* claim tokens of the worker
  Slots,            \* scheduled-slot ids, allotted in increasing order
  Balances,         \* token amounts the wallet can hold
  FloorInputs,      \* wallet balance floors the user can choose
  MaxChainSlot,     \* bound: Solana slot of the last wallet change
  MaxRemaining      \* bound: remaining amount of a lot (it can be given back twice)

Reqs ==
  Setups \cup Closes \cup Floors \cup Toggles \cup Executes \cup Reconciles \cup Heals

\* createBootstrapWalletBalanceEventId: one event id per target.
Bootstrap == "bootstrap"

\* A lot is named by its source event (unique index on source_event_id): the
\* bootstrap event, the rebaseline event of a floor request, a worker event.
Lots == {Bootstrap} \cup Floors \cup Observations

NoSlot == 0

ASSUME SlotsAssumption == Slots \subseteq Nat \ {NoSlot}
ASSUME AmountAssumption ==
  Balances \subseteq Nat /\ FloorInputs \subseteq Nat /\ 0 \in Balances
ASSUME BoundsAssumption ==
  /\ MaxChainSlot \in Nat \ {0} /\ MaxRemaining \in Nat
  /\ \A b \in Balances : b <= MaxRemaining
ASSUME RequestKindsAssumption ==
  /\ Setups \cap (Closes \cup Floors \cup Toggles \cup Executes \cup Reconciles \cup Heals) = {}
  /\ Closes \cap (Floors \cup Toggles \cup Executes \cup Reconciles \cup Heals) = {}
  /\ Floors \cap (Toggles \cup Executes \cup Reconciles \cup Heals) = {}
  /\ Toggles \cap (Executes \cup Reconciles \cup Heals) = {}
  /\ Executes \cap (Reconciles \cup Heals) = {}
  /\ Reconciles \cap Heals = {}
ASSUME LotNamesAssumption ==
  /\ Bootstrap \notin Floors \cup Observations
  /\ Floors \cap Observations = {}

VARIABLES
  onchain,      \* the policy and delegation accounts: "none", "open", "closed"
  wallet,       \* the wallet token account: [amount, slot of its last change]
  target,       \* the balance_sweep_targets row
  policyActive, \* balance_sweep_policies.active
  proj,         \* balance_sweep_wallet_balances_current; slot 0: no row
  slots,        \* balance_sweep_scheduled_slots.status, "none": no row
  lotStatus, lotSlot, original, remaining,   \* balance_sweep_surplus_lots
  claimStatus, claimSlot, held,  \* balance_sweep_lot_claims and their items
  sent,         \* the claim's sweep transaction landed on chain
  swept,        \* amount moved on chain on behalf of each lot
  pc, seen      \* where each request is, and what its statements returned

chainVars  == <<onchain, wallet>>
rowVars    == <<target, policyActive>>
lotVars    == <<lotStatus, lotSlot, original, remaining>>
claimVars  == <<claimStatus, claimSlot, held>>
sweepVars  == <<sent, swept>>
vars == <<chainVars, rowVars, proj, slots, lotVars, claimVars, sweepVars, pc, seen>>

Balance  == [amount : Balances, slot : 0..MaxChainSlot]
ChainStatuses == {"pending", "active", "closed"}
TargetRow == [exists : BOOLEAN, active : BOOLEAN, chain : ChainStatuses,
              floor : FloorInputs \cup {0}]
SlotStatuses == {"none", "scheduled", "requested", "selected", "executed",
                 "failed", "released", "canceled"}
LotStatuses == {"none", "open", "selected", "consumed", "suppressed"}
ClaimStatuses == {"none", "selected", "executed", "released", "failed"}

CancelLabels == {"cancel", "cancelApply"}
Labels ==
  {"idle", "done", "setupRead", "setupUpsert", "setupSnapshot", "setupProjRead",
   "setupProjWrite", "setupLotRead", "setupSlot", "setupLotInsert", "floorUpdate",
   "floorApply", "toggleWrite", "execQuery", "execApply", "closeDeactivate",
   "reconcileCheck", "reconcileRead", "reconcilePolicy", "reconcileTarget",
   "healFind", "healRead", "healWrite"}
  \cup CancelLabels

\* What a handler holds between two of its statements.
Locals == [floor : FloorInputs \cup {0}, closed : BOOLEAN, balance : Balance,
           lots : SUBSET Lots, claims : SUBSET Claims, slots : SUBSET Slots,
           slot : Slots \cup {NoSlot}]

NoBalance == [amount |-> 0, slot |-> 0]
NoRow == [exists |-> FALSE, active |-> FALSE, chain |-> "pending", floor |-> 0]
Blank == [floor |-> 0, closed |-> FALSE, balance |-> NoBalance, lots |-> {},
          claims |-> {}, slots |-> {}, slot |-> NoSlot]

Init ==
  /\ onchain = "none"
  /\ wallet \in [amount : Balances, slot : {1}]
  /\ target = NoRow
  /\ policyActive = FALSE
  /\ proj = NoBalance
  /\ slots = [s \in Slots |-> "none"]
  /\ lotStatus = [l \in Lots |-> "none"]
  /\ lotSlot = [l \in Lots |-> NoSlot]
  /\ original = [l \in Lots |-> 0]
  /\ remaining = [l \in Lots |-> 0]
  /\ claimStatus = [c \in Claims |-> "none"]
  /\ claimSlot = [c \in Claims |-> NoSlot]
  /\ held = [c \in Claims |-> [l \in Lots |-> 0]]
  /\ sent = [c \in Claims |-> FALSE]
  /\ swept = [l \in Lots |-> 0]
  /\ pc = [r \in Reqs |-> "idle"]
  /\ seen = [r \in Reqs |-> Blank]

-----------------------------------------------------------------------------
(* Control of a request.                                                   *)

At(r, label) == pc[r] = label

Goto(r, label) == pc' = [pc EXCEPT ![r] = label]

\* The handler returns (or throws): its locals are gone.
Finish(r) ==
  /\ Goto(r, "done")
  /\ seen' = [seen EXCEPT ![r] = Blank]

-----------------------------------------------------------------------------
(* Rows.                                                                   *)

\* Lots that a statement's WHERE status = 'open' AND remaining_amount_raw > 0
\* selects.
OpenLots == {l \in Lots : lotStatus[l] = "open" /\ remaining[l] > 0}

LotsIn(s) == {l \in OpenLots : lotSlot[l] = s}

\* status === "active" of resolveEarnAutodepositStatus.
TargetLive == target.exists /\ target.active /\ target.chain = "active"

\* Mutant: the slot is dropped whether or not a lot still waits in it.
DrainedIgnoringLots(s) == slots[s] = "scheduled"

\* A drained slot is never reused.
Drained(s) == slots[s] = "scheduled" /\ LotsIn(s) = {}

CanceledDrained == [s \in Slots |-> IF Drained(s) THEN "canceled" ELSE slots[s]]

\* s is the slot an INSERT ... ON CONFLICT (target_id) WHERE status =
\* 'scheduled' DO UPDATE returns when the slot rows are st.
UpsertedSlot(st, s) ==
  \/ st[s] = "scheduled"
  \/ /\ \A t \in Slots : st[t] # "scheduled"
     /\ st[s] = "none"
     /\ \A t \in Slots : t < s => st[t] # "none"

\* ensureScheduledAutodepositSlot, one transaction under the target's lock.
EnsureSlot(s) ==
  /\ UpsertedSlot(CanceledDrained, s)
  /\ slots' = [CanceledDrained EXCEPT ![s] = "scheduled"]

InsertLot(l, s, amount) ==
  /\ lotStatus' = [lotStatus EXCEPT ![l] = "open"]
  /\ lotSlot' = [lotSlot EXCEPT ![l] = s]
  /\ original' = [original EXCEPT ![l] = amount]
  /\ remaining' = [remaining EXCEPT ![l] = amount]

\* Mutant: the surplus test is forgotten.
AboveFloorAlways(amount, floor) == TRUE

AboveFloor(amount, floor) == amount > floor

-----------------------------------------------------------------------------
(* POST autodeposit/setup/confirm: recordAutodepositSetupIntent, then, when *)
(* the row it returns is live, the bootstrap sweep.                         *)

\* The route has checked the policy and delegation accounts on chain.
SetupVerify(r) ==
  /\ At(r, "idle")
  /\ onchain = "open"
  /\ Goto(r, "setupRead")
  /\ UNCHANGED <<chainVars, rowVars, proj, slots, lotVars, claimVars, sweepVars, seen>>

\* findTargetForAutodepositSetup; a closed row is refused.
SetupRead(r) ==
  /\ At(r, "setupRead")
  /\ IF target.exists /\ target.chain = "closed"
       THEN Finish(r)
       ELSE Goto(r, "setupUpsert") /\ UNCHANGED seen
  /\ UNCHANGED <<chainVars, rowVars, proj, slots, lotVars, claimVars, sweepVars>>

\* INSERT ... ON CONFLICT (policy_account) DO UPDATE: the desired state of the
\* user; the chain status is the projector's.
UpsertedTarget(f) ==
  [exists |-> TRUE, active |-> TRUE,
   chain |-> IF target.exists THEN target.chain ELSE "pending",
   floor |-> f]

\* The upsert RETURNS the row; only a live one goes on to the bootstrap.
SetupUpsert(r, f) ==
  /\ At(r, "setupUpsert")
  /\ target' = UpsertedTarget(f)
  /\ IF target'.active /\ target'.chain = "active"
       THEN /\ Goto(r, "setupSnapshot")
            /\ seen' = [seen EXCEPT ![r].floor = f]
       ELSE Finish(r)
  /\ UNCHANGED <<chainVars, policyActive, proj, slots, lotVars, claimVars, sweepVars>>

\* readBootstrapWalletBalanceSnapshot: an RPC read, current at that moment.
SetupSnapshot(r) ==
  /\ At(r, "setupSnapshot")
  /\ seen' = [seen EXCEPT ![r].balance = wallet]
  /\ Goto(r, "setupProjRead")
  /\ UNCHANGED <<chainVars, rowVars, proj, slots, lotVars, claimVars, sweepVars>>

\* Where scheduleBootstrapEarnAutodepositSweep goes once the projection is
\* settled: a balance at or below the floor has no surplus to schedule.
AfterProjection(r) ==
  IF AboveFloor(seen[r].balance.amount, seen[r].floor)
    THEN Goto(r, "setupLotRead") /\ UNCHANGED seen
    ELSE Finish(r)

\* upsertBalanceSweepWalletBalanceCurrent reads the row and keeps a newer one ...
SetupProjRead(r) ==
  /\ At(r, "setupProjRead")
  /\ IF proj.slot > seen[r].balance.slot
       THEN AfterProjection(r)
       ELSE Goto(r, "setupProjWrite") /\ UNCHANGED seen
  /\ UNCHANGED <<chainVars, rowVars, proj, slots, lotVars, claimVars, sweepVars>>

\* ... and writes in a statement of its own that does not look again.
SetupProjWrite(r) ==
  /\ At(r, "setupProjWrite")
  /\ proj' = seen[r].balance
  /\ AfterProjection(r)
  /\ UNCHANGED <<chainVars, rowVars, slots, lotVars, claimVars, sweepVars>>

\* A bootstrap lot that exists, in whatever state, is the answer to a retry.
SetupLotRead(r) ==
  /\ At(r, "setupLotRead")
  /\ IF lotStatus[Bootstrap] # "none"
       THEN Finish(r)
       ELSE Goto(r, "setupSlot") /\ UNCHANGED seen
  /\ UNCHANGED <<chainVars, rowVars, proj, slots, lotVars, claimVars, sweepVars>>

SetupSlot(r) ==
  /\ At(r, "setupSlot")
  /\ \E s \in Slots :
       /\ EnsureSlot(s)
       /\ seen' = [seen EXCEPT ![r].slot = s]
  /\ Goto(r, "setupLotInsert")
  /\ UNCHANGED <<chainVars, rowVars, proj, lotVars, claimVars, sweepVars>>

\* Mutant: ON CONFLICT DO UPDATE instead of DO NOTHING.
LotInsertable(l) == TRUE

\* ON CONFLICT (source_event_id) DO NOTHING.
NoSuchLot(l) == lotStatus[l] = "none"

\* The race path that follows a conflict only reads.
SetupLotInsert(r) ==
  /\ At(r, "setupLotInsert")
  /\ IF NoSuchLot(Bootstrap)
       THEN InsertLot(Bootstrap, seen[r].slot, seen[r].balance.amount - seen[r].floor)
       ELSE UNCHANGED lotVars
  /\ Finish(r)
  /\ UNCHANGED <<chainVars, rowVars, proj, slots, claimVars, sweepVars>>

Setup(r) ==
  \/ SetupVerify(r) \/ SetupRead(r)
  \/ \E f \in FloorInputs : SetupUpsert(r, f)
  \/ SetupSnapshot(r) \/ SetupProjRead(r) \/ SetupProjWrite(r)
  \/ SetupLotRead(r) \/ SetupSlot(r) \/ SetupLotInsert(r)

-----------------------------------------------------------------------------
(* POST autodeposit/setup/prepare: activateOrphanedEarnAutodepositSetup.    *)

\* The SDK refuses to prepare: every account of the setup is on chain already.
HealRefused(r) ==
  /\ At(r, "idle")
  /\ onchain = "open"
  /\ Goto(r, "healFind")
  /\ UNCHANGED <<chainVars, rowVars, proj, slots, lotVars, claimVars, sweepVars, seen>>

\* The row is stuck in pending, or the request ends with the row unhealed.
HealPending(r, from, to) ==
  /\ At(r, from)
  /\ \/ target.exists /\ target.chain = "pending" /\ Goto(r, to) /\ UNCHANGED seen
     \/ Finish(r)
  /\ UNCHANGED <<chainVars, rowVars, proj, slots, lotVars, claimVars, sweepVars>>

\* The lost confirmations are looked up in the history of the chain, in vain or not.
HealFind(r) == HealPending(r, "healFind", "healRead")

\* findTargetByPolicy reads the row again.
HealRead(r) == HealPending(r, "healRead", "healWrite")

\* Mutant: the update trusts the row that was read.
PendingWhenRead == TRUE

\* WHERE lifecycle_status IN (pending_policy, pending_delegation)
StillPending == target.chain = "pending"

\* The update is conditional: a row that was closed meanwhile stays closed.
HealWrite(r) ==
  /\ At(r, "healWrite")
  /\ target' = IF StillPending THEN [target EXCEPT !.active = TRUE, !.chain = "active"]
                               ELSE target
  /\ Finish(r)
  /\ UNCHANGED <<chainVars, policyActive, proj, slots, lotVars, claimVars, sweepVars>>

Heal(r) == HealRefused(r) \/ HealFind(r) \/ HealRead(r) \/ HealWrite(r)

-----------------------------------------------------------------------------
(* cancelScheduledAutodepositTransactionsForClose, one statement.           *)

\* Its snapshot: the lots with work left and the claims in flight.
CancelBegin(r) ==
  /\ At(r, "cancel")
  /\ seen' = [seen EXCEPT
       ![r].lots = {l \in Lots : lotStatus[l] \in {"open", "selected"} /\ remaining[l] > 0},
       ![r].claims = {c \in Claims : claimStatus[c] = "selected"}]
  /\ Goto(r, "cancelApply")
  /\ UNCHANGED <<chainVars, rowVars, proj, slots, lotVars, claimVars, sweepVars>>

\* Mutant: the CASE that keeps a suppressed lot suppressed is dropped.
RestoredAlwaysOpen(status) == "open"

\* The status of a lot that gets a claim's amount back.
RestoredStatus(status) == IF status = "suppressed" THEN "suppressed" ELSE "open"

\* restored_lots: the lots of the claims in C.
Restored(C) == {l \in Lots : \E c \in C : held[c][l] > 0}

\* restored_amounts: what the claims in C hold of lot l.
HeldOf(C, l) == MapThenSumSet(LAMBDA c : held[c][l], C)

\* restored_lots, released_claims and the final UPDATE.  The rows come from the
\* snapshot; a claim is released whatever became of it since, a lot is
\* suppressed only if it still has open work.  Of two updates of one row in one
\* statement the database applies one: K are the lots for which it is the first.
CancelRows(r) ==
  LET given == Restored(seen[r].claims)
      idle  == {l \in seen[r].lots :
                  lotStatus[l] \in {"open", "selected"} /\ remaining[l] > 0}
  IN \E K \in SUBSET (given \cap idle) :
       LET restored   == (given \ idle) \cup K
           suppressed == idle \ K
       IN /\ remaining' = [l \in Lots |->
                IF l \in restored THEN remaining[l] + HeldOf(seen[r].claims, l)
                                  ELSE remaining[l]]
          /\ \A l \in Lots : remaining'[l] \in 0..MaxRemaining
          /\ lotStatus' = [l \in Lots |->
                IF l \in suppressed THEN "suppressed"
                ELSE IF l \in restored THEN RestoredStatus(lotStatus[l])
                ELSE lotStatus[l]]
          /\ claimStatus' = [c \in Claims |->
                IF c \in seen[r].claims THEN "released" ELSE claimStatus[c]]

CancelApply(r, next) ==
  /\ At(r, "cancelApply")
  /\ CancelRows(r)
  /\ Goto(r, next)
  /\ seen' = [seen EXCEPT ![r] = Blank]
  /\ UNCHANGED <<chainVars, rowVars, proj, slots, lotSlot, original, claimSlot, held,
                 sweepVars>>

-----------------------------------------------------------------------------
(* POST autodeposit/close/confirm and withdrawals/cleanup/confirm:          *)
(* recordAutodepositCloseIntent.                                            *)

\* Mutant: the close signature is not checked.
UnverifiedClose == TRUE

\* resolveConfirmedSignatureSlot: the signature is confirmed.  The routes do not
\* look at what it did: the client sends that of its close transaction.
CloseConfirmed == onchain = "closed"

CloseRead(r) ==
  /\ At(r, "idle")
  /\ CloseConfirmed
  /\ target.exists
  /\ Goto(r, "cancel")
  /\ UNCHANGED <<chainVars, rowVars, proj, slots, lotVars, claimVars, sweepVars, seen>>

CloseDeactivate(r) ==
  /\ At(r, "closeDeactivate")
  /\ target' = [target EXCEPT !.active = FALSE]
  /\ Finish(r)
  /\ UNCHANGED <<chainVars, policyActive, proj, slots, lotVars, claimVars, sweepVars>>

Close(r) ==
  CloseRead(r) \/ CancelBegin(r) \/ CancelApply(r, "closeDeactivate") \/ CloseDeactivate(r)

-----------------------------------------------------------------------------
(* POST withdrawals/cleanup/prepare: reconcileMissingOnChainEarnAutodepositPolicy. *)

\* findCurrentEarnAutodepositState, which skips closed rows.
ReconcileFind(r) ==
  /\ At(r, "idle")
  /\ target.exists /\ target.chain # "closed"
  /\ Goto(r, "reconcileCheck")
  /\ UNCHANGED <<chainVars, rowVars, proj, slots, lotVars, claimVars, sweepVars, seen>>

\* Mutant: the account read is not looked at.
PolicyMissingAlways == TRUE

\* getAccountInfo of the policy account returns null.
PolicyMissing == onchain # "open"

ReconcileCheck(r) ==
  /\ At(r, "reconcileCheck")
  /\ IF PolicyMissing THEN Goto(r, "reconcileRead") /\ UNCHANGED seen ELSE Finish(r)
  /\ UNCHANGED <<chainVars, rowVars, proj, slots, lotVars, claimVars, sweepVars>>

ReconcileRead(r) ==
  /\ At(r, "reconcileRead")
  /\ seen' = [seen EXCEPT ![r].closed = (target.chain = "closed")]
  /\ Goto(r, "cancel")
  /\ UNCHANGED <<chainVars, rowVars, proj, slots, lotVars, claimVars, sweepVars>>

\* A row that was read as closed is returned as it is.
ReconcileCancelApply(r) ==
  CancelApply(r, IF seen[r].closed THEN "done" ELSE "reconcilePolicy")

ReconcilePolicy(r) ==
  /\ At(r, "reconcilePolicy")
  /\ policyActive' = FALSE
  /\ Goto(r, "reconcileTarget")
  /\ UNCHANGED <<chainVars, target, proj, slots, lotVars, claimVars, sweepVars, seen>>

ReconcileTarget(r) ==
  /\ At(r, "reconcileTarget")
  /\ target' = [target EXCEPT !.active = FALSE, !.chain = "closed"]
  /\ Finish(r)
  /\ UNCHANGED <<chainVars, policyActive, proj, slots, lotVars, claimVars, sweepVars>>

Reconcile(r) ==
  \/ ReconcileFind(r) \/ ReconcileCheck(r) \/ ReconcileRead(r) \/ CancelBegin(r)
  \/ ReconcileCancelApply(r) \/ ReconcilePolicy(r) \/ ReconcileTarget(r)

-----------------------------------------------------------------------------
(* POST autodeposit/floor/confirm: updateAutodepositWalletBalanceFloor.     *)

\* The reads that accept the request.
FloorRead(r) ==
  /\ At(r, "idle")
  /\ TargetLive
  /\ Goto(r, "floorUpdate")
  /\ UNCHANGED <<chainVars, rowVars, proj, slots, lotVars, claimVars, sweepVars, seen>>

\* The snapshot of the statement: the open lots and the wallet projection.
FloorBegin(r) ==
  /\ At(r, "floorUpdate")
  /\ seen' = [seen EXCEPT ![r].lots = OpenLots, ![r].balance = proj]
  /\ Goto(r, "floorApply")
  /\ UNCHANGED <<chainVars, rowVars, proj, slots, lotVars, claimVars, sweepVars>>

\* locked_target: SELECT ... FOR UPDATE of a row that is still live.
FloorTargetLocked == TargetLive

\* suppressed_lots, and the lots that are still open.
Suppressed(r) == seen[r].lots \cap OpenLots

\* inserted_event, scheduled_slot and inserted_lot: only for a balance above
\* the new floor.
Rebaseline(r, f) ==
  IF seen[r].balance.slot > 0 /\ AboveFloor(seen[r].balance.amount, f)
    THEN \E s \in Slots :
           /\ UpsertedSlot(slots, s)
           /\ slots' = [slots EXCEPT ![s] = "scheduled"]
           /\ lotSlot' = [lotSlot EXCEPT ![r] = s]
           /\ lotStatus' = [l \in Lots |-> IF l \in Suppressed(r) THEN "suppressed"
                                           ELSE IF l = r THEN "open"
                                           ELSE lotStatus[l]]
           /\ original' = [original EXCEPT ![r] = seen[r].balance.amount - f]
           /\ remaining' = [remaining EXCEPT ![r] = seen[r].balance.amount - f]
    ELSE /\ lotStatus' = [l \in Lots |->
              IF l \in Suppressed(r) THEN "suppressed" ELSE lotStatus[l]]
         /\ UNCHANGED <<slots, lotSlot, original, remaining>>

\* One statement: the floor, the suppressed lots and the rebaseline lot.
FloorApply(r, f) ==
  /\ At(r, "floorApply")
  /\ IF FloorTargetLocked
       THEN target' = [target EXCEPT !.floor = f] /\ Rebaseline(r, f)
       ELSE UNCHANGED <<target, slots, lotVars>>
  /\ Finish(r)
  /\ UNCHANGED <<chainVars, policyActive, proj, claimVars, sweepVars>>

Floor(r) ==
  FloorRead(r) \/ FloorBegin(r) \/ \E f \in FloorInputs : FloorApply(r, f)

-----------------------------------------------------------------------------
(* POST autodeposit/toggle/confirm: updateAutodepositTargetActive.          *)

ToggleRead(r) ==
  /\ At(r, "idle")
  /\ target.exists /\ target.chain = "active"
  /\ Goto(r, "toggleWrite")
  /\ UNCHANGED <<chainVars, rowVars, proj, slots, lotVars, claimVars, sweepVars, seen>>

ToggleWrite(r, active) ==
  /\ At(r, "toggleWrite")
  /\ target' = [target EXCEPT !.active = active]
  /\ Finish(r)
  /\ UNCHANGED <<chainVars, policyActive, proj, slots, lotVars, claimVars, sweepVars>>

Toggle(r) == ToggleRead(r) \/ \E active \in BOOLEAN : ToggleWrite(r, active)

-----------------------------------------------------------------------------
(* POST autodeposit/sweeps/execute: requestImmediateEarnAutodepositScheduledSweep. *)

ExecRead(r) ==
  /\ At(r, "idle")
  /\ TargetLive
  /\ Goto(r, "execQuery")
  /\ UNCHANGED <<chainVars, rowVars, proj, slots, lotVars, claimVars, sweepVars, seen>>

Requestable == {"scheduled", "failed", "released"}

\* selected_slot: the slots that qualify in the statement's snapshot.
ExecBegin(r) ==
  /\ At(r, "execQuery")
  /\ seen' = [seen EXCEPT ![r].slots =
                {s \in Slots : slots[s] \in Requestable /\ LotsIn(s) # {}}]
  /\ Goto(r, "execApply")
  /\ UNCHANGED <<chainVars, rowVars, proj, slots, lotVars, claimVars, sweepVars>>

\* Mutant: the slot is not locked, so its status is that of the snapshot.
RequestableUnlocked(s) == TRUE

\* FOR UPDATE re-checks the status of the live row.
StillRequestable(s) == slots[s] \in Requestable

\* updated_slot; a request that finds no slot answers 409.  (updated_lots
\* changes eligibility only.)
ExecApply(r) ==
  /\ At(r, "execApply")
  /\ IF \E s \in seen[r].slots : StillRequestable(s)
       THEN \E s \in seen[r].slots :
              /\ StillRequestable(s)
              /\ slots' = [slots EXCEPT ![s] = "requested"]
       ELSE UNCHANGED slots
  /\ Finish(r)
  /\ UNCHANGED <<chainVars, rowVars, proj, lotVars, claimVars, sweepVars>>

Execute(r) == ExecRead(r) \/ ExecBegin(r) \/ ExecApply(r)

-----------------------------------------------------------------------------
(* External: Solana, the LaserStream projector and the Go sweep worker, as   *)
(* the code in src/ relies on them.                                          *)

\* The user's transactions create and, once, close the accounts of the policy.
ChainOpen ==
  /\ onchain = "none"
  /\ onchain' = "open"
  /\ UNCHANGED <<wallet, rowVars, proj, slots, lotVars, claimVars, sweepVars, pc, seen>>

ChainClose ==
  /\ onchain = "open"
  /\ onchain' = "closed"
  /\ UNCHANGED <<wallet, rowVars, proj, slots, lotVars, claimVars, sweepVars, pc, seen>>

WalletChange ==
  /\ wallet.slot < MaxChainSlot
  /\ \E a \in Balances \ {wallet.amount} :
       wallet' = [amount |-> a, slot |-> wallet.slot + 1]
  /\ UNCHANGED <<onchain, rowVars, proj, slots, lotVars, claimVars, sweepVars, pc, seen>>

\* The projector follows the chain, late.
ProjectActive ==
  /\ target.exists /\ target.chain = "pending" /\ onchain # "none"
  /\ target' = [target EXCEPT !.chain = "active"]
  /\ policyActive' = TRUE
  /\ UNCHANGED <<chainVars, proj, slots, lotVars, claimVars, sweepVars, pc, seen>>

ProjectClosed ==
  /\ target.exists /\ target.chain # "closed" /\ onchain = "closed"
  /\ target' = [target EXCEPT !.chain = "closed", !.active = FALSE]
  /\ policyActive' = FALSE
  /\ UNCHANGED <<chainVars, proj, slots, lotVars, claimVars, sweepVars, pc, seen>>

\* A newer balance is projected; on a live target an increase above the floor
\* opens a lot, whose slot the worker's openSlotFor returns.
Observe ==
  /\ target.exists /\ wallet.slot > proj.slot
  /\ proj' = wallet
  /\ UNCHANGED <<chainVars, rowVars, slots, lotVars, claimVars, sweepVars, pc, seen>>

ObserveSurplus(o) ==
  /\ TargetLive /\ wallet.slot > proj.slot
  /\ lotStatus[o] = "none"
  /\ wallet.amount > proj.amount /\ wallet.amount > target.floor
  /\ proj' = wallet
  /\ \E s \in Slots :
       /\ EnsureSlot(s)
       /\ InsertLot(o, s, IF proj.amount > target.floor
                            THEN wallet.amount - proj.amount
                            ELSE wallet.amount - target.floor)
  /\ UNCHANGED <<chainVars, rowVars, claimVars, sweepVars, pc, seen>>

\* The worker claims the open lots of an eligible slot in full.
WorkerClaim(c, s) ==
  /\ TargetLive
  /\ claimStatus[c] = "none"
  /\ slots[s] \in {"scheduled", "requested"} /\ LotsIn(s) # {}
  /\ claimStatus' = [claimStatus EXCEPT ![c] = "selected"]
  /\ claimSlot' = [claimSlot EXCEPT ![c] = s]
  /\ held' = [held EXCEPT ![c] =
               [l \in Lots |-> IF l \in LotsIn(s) THEN remaining[l] ELSE 0]]
  /\ lotStatus' = [l \in Lots |-> IF l \in LotsIn(s) THEN "selected" ELSE lotStatus[l]]
  /\ remaining' = [l \in Lots |-> IF l \in LotsIn(s) THEN 0 ELSE remaining[l]]
  /\ slots' = [slots EXCEPT ![s] = "selected"]
  /\ UNCHANGED <<chainVars, rowVars, proj, lotSlot, original, sweepVars, pc, seen>>

\* The sweep lands; the policy and the delegation allow it while they exist.
WorkerSweep(c) ==
  /\ claimStatus[c] = "selected" /\ ~sent[c]
  /\ onchain = "open"
  /\ sent' = [sent EXCEPT ![c] = TRUE]
  /\ swept' = [l \in Lots |-> swept[l] + held[c][l]]
  /\ UNCHANGED <<chainVars, rowVars, proj, slots, lotVars, claimVars, pc, seen>>

SettleSlot(c, status) ==
  slots' = [s \in Slots |->
    IF s = claimSlot[c] /\ slots[s] = "selected" THEN status ELSE slots[s]]

\* The worker records the sweep it sent ...
WorkerRecord(c) ==
  /\ claimStatus[c] = "selected" /\ sent[c]
  /\ claimStatus' = [claimStatus EXCEPT ![c] = "executed"]
  /\ lotStatus' = [l \in Lots |->
       IF held[c][l] > 0 /\ lotStatus[l] = "selected" THEN "consumed" ELSE lotStatus[l]]
  /\ SettleSlot(c, "executed")
  /\ UNCHANGED <<chainVars, rowVars, proj, lotSlot, original, remaining, claimSlot, held,
                 sweepVars, pc, seen>>

\* ... or gives up one that never landed, and gives the lots their amounts back.
WorkerRelease(c, status) ==
  /\ claimStatus[c] = "selected" /\ ~sent[c]
  /\ claimStatus' = [claimStatus EXCEPT ![c] = status]
  /\ remaining' = [l \in Lots |-> remaining[l] + held[c][l]]
  /\ \A l \in Lots : remaining'[l] \in 0..MaxRemaining
  /\ lotStatus' = [l \in Lots |->
       IF held[c][l] > 0 THEN RestoredStatus(lotStatus[l]) ELSE lotStatus[l]]
  /\ SettleSlot(c, status)
  /\ UNCHANGED <<chainVars, rowVars, proj, lotSlot, original, claimSlot, held, sweepVars,
                 pc, seen>>

Environment ==
  \/ ChainOpen \/ ChainClose \/ WalletChange
  \/ ProjectActive \/ ProjectClosed
  \/ Observe \/ \E o \in Observations : ObserveSurplus(o)

Worker ==
  \E c \in Claims :
    \/ \E s \in Slots : WorkerClaim(c, s)
    \/ WorkerSweep(c) \/ WorkerRecord(c)
    \/ \E status \in {"released", "failed"} : WorkerRelease(c, status)

Next ==
  \/ \E r \in Setups : Setup(r)
  \/ \E r \in Heals : Heal(r)
  \/ \E r \in Closes : Close(r)
  \/ \E r \in Reconciles : Reconcile(r)
  \/ \E r \in Floors : Floor(r)
  \/ \E r \in Toggles : Toggle(r)
  \/ \E r \in Executes : Execute(r)
  \/ Environment
  \/ Worker

Spec == Init /\ [][Next]_vars

-----------------------------------------------------------------------------
(* Properties.                                                              *)

\* Every variable has its type; in particular no handler computes a negative
\* surplus (amounts are unsigned in the rows and in the API).
TypeOK ==
  /\ onchain \in {"none", "open", "closed"}
  /\ wallet \in Balance
  /\ target \in TargetRow
  /\ policyActive \in BOOLEAN
  /\ proj \in Balance
  /\ slots \in [Slots -> SlotStatuses]
  /\ lotStatus \in [Lots -> LotStatuses]
  /\ lotSlot \in [Lots -> Slots \cup {NoSlot}]
  /\ original \in [Lots -> Nat]
  /\ remaining \in [Lots -> 0..MaxRemaining]
  /\ claimStatus \in [Claims -> ClaimStatuses]
  /\ claimSlot \in [Claims -> Slots \cup {NoSlot}]
  /\ held \in [Claims -> [Lots -> Nat]]
  /\ sent \in [Claims -> BOOLEAN]
  /\ swept \in [Lots -> Nat]
  /\ pc \in [Reqs -> Labels]
  /\ seen \in [Reqs -> Locals]

\* The surplus of a lot is moved at most once and only as a whole, however the
\* claims of the worker interleave with retried setups, floor updates,
\* execute-now requests, and with closes that hand claimed amounts back without
\* asking whether the claim's sweep already landed: they may, because a close
\* or a reconciliation starts only when the delegation is gone from the chain.
NoLotSweptTwice == \A l \in Lots : swept[l] \in {0, original[l]}

\* A lot that a floor update or a close suppressed never comes back and moves no
\* more funds, even when a slower close still holds a snapshot in which a claim
\* was in flight for it (the CASE of restored_lots).
SuppressedIsFinal ==
  [][\A l \in Lots : lotStatus[l] = "suppressed" =>
       lotStatus'[l] = "suppressed" /\ swept'[l] = swept[l]]_vars

\* A target row says "closed", which no setup can undo, only once the policy is
\* really gone from the chain: the reconciliation of a missing policy never
\* condemns a live automation.
ClosedRowIsClosedOnChain == target.chain = "closed" => onchain = "closed"

\* No handler and no late retry moves a closed target out of "closed"
\* ("Closed autodeposit targets cannot be reactivated").
ClosedIsFinal == [][target.chain = "closed" => target'.chain = "closed"]_vars

\* An execute-now request never puts a slot back in the worker's queue that the
\* worker took, executed, or that was canceled, since the request looked.
ExecuteNowNeverReopens ==
  [][\A s \in Slots : slots[s] \in {"selected", "executed", "canceled"} =>
       slots'[s] # "requested"]_vars

\* Surplus that waits to be swept is in a slot that can still be swept or shown.
OpenLotsScheduled ==
  \A l \in OpenLots :
    slots[lotSlot[l]] \in {"scheduled", "requested", "selected", "failed", "released"}

\* Retries of the setup confirmation schedule the initial surplus once: the lot
\* of the bootstrap event keeps its amount and its slot.
BootstrapScheduledOnce ==
  [][lotStatus[Bootstrap] # "none" =>
       /\ original'[Bootstrap] = original[Bootstrap]
       /\ lotSlot'[Bootstrap] = lotSlot[Bootstrap]]_vars

\* The rows, the claims and the chain together keep the promise: surplus has one
\* amount, and is moved once, as a whole, by a delegation that exists, and never
\* after a floor update or a close suppressed it.
Promise ==
  INSTANCE SweepOnce WITH
    Amounts <- 1..MaxRemaining, delegation <- onchain,
    amount <- original, moved <- swept,
    dropped <- {l \in Lots : lotStatus[l] = "suppressed"}

KeepsPromise == Promise!Spec

-----------------------------------------------------------------------------
(* Why NoLotSweptTwice holds: the inductive invariant of the proofs.         *)

\* A handler that takes claimed amounts back has seen the chain closed.
CancelOnlyWhenClosed ==
  /\ target.exists => onchain # "none"
  /\ \A r \in Reqs :
       /\ pc[r] \in {"setupRead", "setupUpsert"} => onchain # "none"
       /\ pc[r] = "reconcileCheck" => target.exists
       /\ pc[r] \in CancelLabels \cup {"reconcileRead", "reconcilePolicy", "reconcileTarget"}
            => onchain = "closed" /\ target.exists

\* A lot that does not exist yet has moved nothing and is in no claim.
UnbornLots ==
  /\ \A l \in Lots : lotStatus[l] = "none" =>
       swept[l] = 0 /\ \A c \in Claims : held[c][l] = 0
  /\ \A r \in Floors : pc[r] # "done" => lotStatus[r] = "none"

\* The claim c is about to move funds of the lot l.
Holds(c, l) == claimStatus[c] = "selected" /\ held[c][l] > 0

\* While the delegation can still move funds, each lot is whole in one place: in
\* the lot, in a single claim, or swept.
LotsWhole ==
  onchain # "closed" =>
    /\ \A l \in Lots :
         /\ lotStatus[l] \in {"open", "suppressed"} => swept[l] = 0
         /\ lotStatus[l] = "open" => remaining[l] = original[l]
    /\ \A c \in Claims, l \in Lots : Holds(c, l) =>
         /\ lotStatus[l] = "selected"
         /\ remaining[l] = 0
         /\ held[c][l] = original[l]
         /\ swept[l] = IF sent[c] THEN original[l] ELSE 0
    /\ \A c, d \in Claims, l \in Lots : Holds(c, l) /\ Holds(d, l) => c = d

\* Nothing has been sent for a claim that does not exist.
UnbornClaims == \A c \in Claims : claimStatus[c] = "none" => ~sent[c]

\* A bootstrap that goes on to its lot has a surplus.
SurplusKnown ==
  \A r \in Reqs : pc[r] \in {"setupLotRead", "setupSlot", "setupLotInsert"} =>
    seen[r].balance.amount > seen[r].floor

\* Each lot has moved nothing or its whole surplus; with the conjuncts that make
\* it inductive.
SweepInv ==
  /\ TypeOK
  /\ CancelOnlyWhenClosed
  /\ UnbornLots
  /\ LotsWhole
  /\ UnbornClaims
  /\ SurplusKnown
  /\ NoLotSweptTwice

=============================================================================
