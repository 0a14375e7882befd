----------------------------- MODULE AlertRelay -----------------------------
(***************************************************************************)
(* AlertRelay of observability/telegram-relay: it forwards the alerts of   *)
(* ClickStack to a chat, once per alert and quiet window, holds back the   *)
(* burst that follows a restart, and posts a recap of each reporting       *)
(* period.  One process; its handlers and sweeps interleave at every await *)
(* (the locks, the sends and the file), so one action is the code between  *)
(* two of them.  The event loop takes a request, a timer or the answer of  *)
(* a destination only when no continuation is ready to run.                *)
(*                                                                         *)
(* Abstracted: texts, rows and headlines (a payload is its idempotency     *)
(* key, from which the dedup key, the evaluation range and the matched     *)
(* lines follow), the day's limit of 200 signatures, unreadable rows.  The *)
(* recap time is the start of a day.  A send is what the fan-out sender    *)
(* returns: each destination has accepted the message or not.  The state   *)
(* file is written in one step.                                            *)
(***************************************************************************)
EXTENDS Integers, SequencesExt, FiniteSetsExt

CONSTANTS
  Deliveries,       \* webhook requests; retries are deliveries of the same key
  Sweeps,           \* runs of sweep that may overlap
  Keys, IdemKeyOf,  \* idempotency keys, and the one each delivery carries
  Recoveries,       \* keys whose payload has the state "OK"
  Alerts, AlertOf,  \* dedup keys, and the one of each idempotency key
  Evals, EvalOf,    \* evaluation ranges
  LinesOf,          \* matched lines a payload reports
  Destinations,     \* senders of the fan-out
  Day, CooldownMs, IdempotencyTtlMs, RestartGraceMs, MaxCacheEntries,
  EscalationMultiplier, MaxEscalationsPerWindow, MaxFlushAttempts,
  StateFile,        \* whether STATE_FILE is configured
  Crashes,          \* whether the process can be killed, besides deploys
  MaxTime, MaxFailures, MaxRestarts   \* bounds: clock, rejected sends, restarts

ASSUME PayloadAssumption ==
  /\ IdemKeyOf \in [Deliveries -> Keys]
  /\ AlertOf \in [Keys -> Alerts]
  /\ EvalOf \in [Keys -> Evals]
  /\ LinesOf \in [Keys -> Nat \ {0}]
  /\ Recoveries \subseteq Keys /\ Deliveries \cap Sweeps = {}
ASSUME OptionsAssumption ==
  /\ {Day, CooldownMs, IdempotencyTtlMs, MaxCacheEntries, MaxFlushAttempts} \subseteq Nat \ {0}
  /\ {RestartGraceMs, EscalationMultiplier, MaxEscalationsPerWindow,
      MaxTime, MaxFailures, MaxRestarts} \subseteq Nat
  /\ {StateFile, Crashes} \subseteq BOOLEAN

VARIABLES
  clock,
  windows, order,      \* windows: the map, and the order of its entries
  idempotencyKeys,     \* ExpiringCache: [key, expires] in order of insertion
  eventLocks, idemLocks,  \* for each key, who holds its lock and who waits
  daily, nextRecapAt, pendingRecap, recapAttempts, recapInFlight,
  startedAt, restartRecapDone,
  disk,                \* what the state file holds
  pc, seen,            \* where deliveries and sweeps are, and what they hold
  failures, restarts,  \* sends rejected, restarts so far
  alarms,     \* history: new-alert messages accepted on the current day
  recaps,     \* history: daily recaps accepted, by the day they close
  closed      \* history: deliveries counted in a period that is over

windowVars == <<windows, order>>
lockVars   == <<eventLocks, idemLocks>>
recapVars  == <<daily, nextRecapAt, pendingRecap, recapAttempts, recapInFlight>>
startVars  == <<startedAt, restartRecapDone>>
ghostVars  == <<alarms, recaps, closed>>
vars == <<clock, windowVars, idempotencyKeys, lockVars, recapVars, startVars, disk,
          pc, seen, failures, restarts, ghostVars>>

Procs == Deliveries \cup Sweeps
KeyOf(d)  == IdemKeyOf[d]
EventOf(d) == AlertOf[KeyOf(d)]

\* A window is known by the delivery that opened it.  told and forgotten are
\* history: every destination has accepted its alert or a recap that names it; it
\* was held back, and a write of the state file has dropped the mark that says so.
Nobody == "nobody"

NoWindow ==
  [open |-> FALSE, openedBy |-> Nobody, expiresAt |-> 0, deferred |-> FALSE,
   opening |-> 0, evals |-> [e \in Evals |-> 0], repeated |-> FALSE,
   escalations |-> 0, told |-> FALSE, forgotten |-> FALSE]
NoWindows == [a \in Alerts |-> NoWindow]

EmptyTally == [deliveries |-> [k \in Keys |-> 0], signatures |-> {}]
NoPending == [held |-> FALSE, tally |-> EmptyTally, until |-> 0]
NoDisk == [saved |-> FALSE, windows |-> NoWindows, order |-> <<>>, daily |-> EmptyTally,
           nextRecapAt |-> 0, pendingRecap |-> NoPending]
Blank == [now |-> 0, window |-> NoWindow, batch |-> {}, todo |-> <<>>]

\* nextRecapTime: strictly after from.
NextRecapTime(from) == ((from \div Day) + 1) * Day

RecapDays == 0..(MaxTime \div Day + 1)

Init ==
  /\ clock = 0
  /\ windows = NoWindows /\ order = <<>>
  /\ idempotencyKeys = <<>>
  /\ eventLocks = [a \in Alerts |-> <<>>]
  /\ idemLocks = [k \in Keys |-> <<>>]
  /\ daily = EmptyTally
  /\ nextRecapAt = NextRecapTime(0)
  /\ pendingRecap = NoPending /\ recapAttempts = 0 /\ recapInFlight = FALSE
  /\ startedAt = 0
  /\ restartRecapDone = (RestartGraceMs = 0)
  /\ disk = NoDisk
  /\ pc = [p \in Procs |-> "idle"]
  /\ seen = [p \in Procs |-> Blank]
  /\ failures = 0 /\ restarts = 0
  /\ alarms = [a \in Alerts |-> [t \in Destinations |-> 0]]
  /\ recaps = [n \in RecapDays |-> 0]
  /\ closed = [k \in Keys |-> 0]

-----------------------------------------------------------------------------
(* Maps that keep their insertion order, as JavaScript's do.                *)

\* The entries of a map that are in T, in their order.
Filter(s, T) ==
  LET kept[i \in 0..Len(s)] ==
        IF i = 0 THEN <<>>
        ELSE IF s[i] \in T THEN Append(kept[i-1], s[i]) ELSE kept[i-1]
  IN kept[Len(s)]

-----------------------------------------------------------------------------
(* ExpiringCache.  An expired entry that has not been reclaimed is as good   *)
(* as none.                                                                 *)

CacheHas(cache, key, now) ==
  \E i \in DOMAIN cache : cache[i].key = key /\ cache[i].expires > now

EvictExpired(cache, now) == Filter(cache, {e \in ToSet(cache) : e.expires > now})

\* Mutant: the size is tested before the entry is added, with one to spare.
RoomForLate(cache) == IF Len(cache) > MaxCacheEntries THEN Tail(cache) ELSE cache

\* Room for one more entry: at the limit the oldest one goes.
RoomFor(cache) == IF Len(cache) >= MaxCacheEntries THEN Tail(cache) ELSE cache

CacheSet(cache, key, expires, now) ==
  LET others == Filter(cache, {e \in ToSet(cache) : e.key # key})
      known  == Len(others) < Len(cache)
      live   == IF Len(cache) >= MaxCacheEntries THEN EvictExpired(cache, now) ELSE cache
  IN Append(IF known THEN others ELSE RoomFor(live), [key |-> key, expires |-> expires])

-----------------------------------------------------------------------------
(* withLock, as FifoLock: a queue per key.                                  *)

\* Mutant: the lock of the dedup key is not awaited.
EventNotAwaited(p, a) == TRUE

AtHead(queue, p) == queue # <<>> /\ Head(queue) = p

HoldsEvent(p, a) == AtHead(eventLocks[a], p)
HoldsIdem(d) == AtHead(idemLocks[KeyOf(d)], d)

\* The end of withLock: the next in the queue goes on.
Released(queue, p) == IF AtHead(queue, p) THEN Tail(queue) ELSE queue

\* A continuation is ready: its lock is free, or it waits for nothing.
Ready(p) ==
  \/ p \in Deliveries /\ pc[p] = "idem" /\ HoldsIdem(p)
  \/ p \in Deliveries /\ pc[p] = "event" /\ HoldsEvent(p, EventOf(p))
  \/ p \in Sweeps /\ pc[p] \in {"scan", "close", "persist"}
  \/ p \in Sweeps /\ pc[p] = "closing" /\ HoldsEvent(p, Head(seen[p].todo).alert)

\* The event loop has run every continuation.
Quiet == \A p \in Procs : ~Ready(p)

-----------------------------------------------------------------------------
(* Windows and tallies.                                                     *)

InRestartGrace(now) == now < startedAt + RestartGraceMs

\* windowExpiry: the first recap that is at least a cooldown away.
WindowExpiry(now) ==
  LET wait == now + CooldownMs - nextRecapAt
  IN IF wait <= 0 THEN nextRecapAt ELSE nextRecapAt + Day * ((wait + Day - 1) \div Day)

OpenWindow(d, now, deferred) ==
  [open |-> TRUE, openedBy |-> d, expiresAt |-> WindowExpiry(now), deferred |-> deferred,
   opening |-> LinesOf[KeyOf(d)], repeated |-> FALSE, escalations |-> 0,
   told |-> FALSE, forgotten |-> FALSE,
   evals |-> [e \in Evals |-> IF e = EvalOf[KeyOf(d)] THEN LinesOf[KeyOf(d)] ELSE 0]]

\* A window that is over is closed by whoever finds it, unless it is deferred.
Over(w, now) == w.open /\ w.expiresAt <= now /\ ~w.deferred

\* Mutant: the window that is over is left in the map.
ClosedKept(a) == windows

Closed(a) == [windows EXCEPT ![a] = NoWindow]

\* windows.delete: the entry leaves the order of the map.
Without(ord, a) == Filter(ord, Alerts \ {a})

\* trimWindows, with the entry that was just added: over and never repeated
\* ones first, then the oldest.
Evicted(ws, ord, now) ==
  LET spent == Filter(ord, {a \in Alerts : ws[a].expiresAt <= now /\ ~ws[a].repeated})
  IN IF spent # <<>> THEN Head(spent) ELSE Head(ord)

\* windows.set, then trimWindows.
SetWindow(a, w, now) ==
  LET ws  == [windows EXCEPT ![a] = w]
      ord == Append(Without(order, a), a)
      out == Evicted(ws, ord, now)
  IN IF Len(ord) <= MaxCacheEntries
       THEN windows' = ws /\ order' = ord
       ELSE windows' = [ws EXCEPT ![out] = NoWindow] /\ order' = Without(ord, out)

\* countDelivery.
Counted(tally, k, added) ==
  [deliveries |-> [tally.deliveries EXCEPT ![k] = @ + 1],
   signatures |-> IF added > 0 THEN tally.signatures \cup {AlertOf[k]} ELSE tally.signatures]

\* rememberIdempotencyKey.
Remember(k, now) ==
  idempotencyKeys' = CacheSet(idempotencyKeys, k, now + IdempotencyTtlMs, now)

\* accumulate: the highest count of each evaluation range is kept.
Accumulated(w, k) ==
  [w EXCEPT !.repeated = TRUE, !.evals[EvalOf[k]] = IF @ < LinesOf[k] THEN LinesOf[k] ELSE @]

ShouldEscalate(w) ==
  /\ EscalationMultiplier > 1
  /\ w.escalations < MaxEscalationsPerWindow
  /\ Max({w.evals[e] : e \in Evals}) >= w.opening * EscalationMultiplier ^ (w.escalations + 1)

-----------------------------------------------------------------------------
(* Sends.                                                                   *)

Answers == [Destinations -> BOOLEAN]

\* The fan-out sender resolves when every destination has accepted.
Accepted(answer) == \A t \in Destinations : answer[t]

Sent(answer) ==
  /\ Quiet
  /\ Accepted(answer) \/ failures < MaxFailures
  /\ failures' = IF Accepted(answer) THEN failures ELSE failures + 1

-----------------------------------------------------------------------------
(* handle.                                                                  *)

Goto(p, label) == pc' = [pc EXCEPT ![p] = label]

\* Mutant: release is not in a finally block, so a rejected send skips it.
AnswerKeepingLocks(d, label) ==
  /\ Goto(d, label)
  /\ seen' = [seen EXCEPT ![d] = Blank]
  /\ eventLocks' = [eventLocks EXCEPT ![EventOf(d)] =
                       IF label = "failed" THEN @ ELSE Released(@, d)]
  /\ idemLocks' = [idemLocks EXCEPT ![KeyOf(d)] =
                      IF label = "failed" THEN @ ELSE Released(@, d)]

\* Both locks are released, in whatever way the handler ends.
Answer(d, label) ==
  /\ Goto(d, label)
  /\ seen' = [seen EXCEPT ![d] = Blank]
  /\ eventLocks' = [eventLocks EXCEPT ![EventOf(d)] = Released(@, d)]
  /\ idemLocks' = [idemLocks EXCEPT ![KeyOf(d)] = Released(@, d)]

Receive(d) ==
  /\ pc[d] = "idle" /\ Quiet
  /\ idemLocks' = [idemLocks EXCEPT ![KeyOf(d)] = Append(@, d)]
  /\ Goto(d, "idem")
  /\ UNCHANGED <<clock, windowVars, idempotencyKeys, eventLocks, recapVars, startVars, disk,
                 seen, failures, restarts, ghostVars>>

\* Under the lock of the idempotency key; the time is read here.
Identify(d) ==
  /\ pc[d] = "idem" /\ HoldsIdem(d)
  /\ \/ /\ CacheHas(idempotencyKeys, KeyOf(d), clock)
        /\ Answer(d, "ok")
        /\ UNCHANGED idempotencyKeys
     \/ /\ ~CacheHas(idempotencyKeys, KeyOf(d), clock)
        /\ KeyOf(d) \in Recoveries
        /\ Remember(KeyOf(d), clock)
        /\ Answer(d, "ok")
     \/ /\ ~CacheHas(idempotencyKeys, KeyOf(d), clock)
        /\ KeyOf(d) \notin Recoveries
        /\ eventLocks' = [eventLocks EXCEPT ![EventOf(d)] = Append(@, d)]
        /\ seen' = [seen EXCEPT ![d].now = clock]
        /\ Goto(d, "event")
        /\ UNCHANGED <<idempotencyKeys, idemLocks>>
  /\ UNCHANGED <<clock, windowVars, recapVars, startVars, disk, failures, restarts, ghostVars>>

\* Under the lock of the dedup key, with no window or with one that is over.
Opens(d) ==
  /\ pc[d] = "event" /\ HoldsEvent(d, EventOf(d))
  /\ ~windows[EventOf(d)].open \/ Over(windows[EventOf(d)], seen[d].now)

\* In the grace period after a restart the alert waits for the restart recap.
Defer(d) ==
  /\ Opens(d)
  /\ InRestartGrace(seen[d].now)
  /\ SetWindow(EventOf(d), OpenWindow(d, seen[d].now, TRUE), seen[d].now)
  /\ daily' = Counted(daily, KeyOf(d), 1)
  /\ Remember(KeyOf(d), seen[d].now)
  /\ Answer(d, "ok")
  /\ UNCHANGED <<clock, nextRecapAt, pendingRecap, recapAttempts, recapInFlight, startVars,
                 disk, failures, restarts, ghostVars>>

\* Otherwise it is sent first.
Announce(d) ==
  /\ Opens(d)
  /\ ~InRestartGrace(seen[d].now)
  /\ windows' = Closed(EventOf(d)) /\ order' = Without(order, EventOf(d))
  /\ seen' = [seen EXCEPT ![d].window = OpenWindow(d, seen[d].now, FALSE)]
  /\ Goto(d, "sending")
  /\ UNCHANGED <<clock, idempotencyKeys, lockVars, recapVars, startVars, disk, failures,
                 restarts, ghostVars>>

\* Mutant: one destination that accepts is enough.
RegisteredByAny(answer) == \E t \in Destinations : answer[t]

\* The window is registered only if the sender resolved.
Registered(answer) == Accepted(answer)

\* A rejected alert answers 502 and leaves no window, no count and no key.
Announced(d, answer) ==
  /\ pc[d] = "sending"
  /\ Sent(answer)
  /\ alarms' = [alarms EXCEPT ![EventOf(d)] =
                  [t \in Destinations |-> @[t] + IF answer[t] THEN 1 ELSE 0]]
  /\ IF Registered(answer)
       THEN /\ SetWindow(EventOf(d), [seen[d].window EXCEPT !.told = Accepted(answer)],
                         seen[d].now)
            /\ daily' = Counted(daily, KeyOf(d), 1)
            /\ Remember(KeyOf(d), seen[d].now)
            /\ Answer(d, "ok")
       ELSE /\ Answer(d, "failed")
            /\ UNCHANGED <<windowVars, daily, idempotencyKeys>>
  /\ UNCHANGED <<clock, nextRecapAt, pendingRecap, recapAttempts, recapInFlight, startVars,
                 disk, restarts, recaps, closed>>

\* A repetition is counted, and escalates when the volume has grown.
Repeat(d) ==
  LET a == EventOf(d)
      w == Accumulated(windows[a], KeyOf(d))
      added == LinesOf[KeyOf(d)] - windows[a].evals[EvalOf[KeyOf(d)]]
  IN /\ pc[d] = "event" /\ HoldsEvent(d, a)
     /\ windows[a].open /\ ~Over(windows[a], seen[d].now)
     /\ windows' = [windows EXCEPT ![a] = w]
     /\ daily' = Counted(daily, KeyOf(d), added)
     /\ Remember(KeyOf(d), seen[d].now)
     /\ IF ~InRestartGrace(seen[d].now) /\ ShouldEscalate(w)
          THEN Goto(d, "escalating") /\ UNCHANGED <<seen, lockVars>>
          ELSE Answer(d, "ok")
     /\ UNCHANGED <<clock, order, nextRecapAt, pendingRecap, recapAttempts, recapInFlight,
                    startVars, disk, failures, restarts, ghostVars>>

\* A rejected escalation is swallowed.  (trimWindows may have dropped the window.)
Escalated(d, answer) ==
  /\ pc[d] = "escalating"
  /\ Sent(answer)
  /\ windows' = IF Accepted(answer) /\ windows[EventOf(d)].open
                  THEN [windows EXCEPT ![EventOf(d)].escalations = @ + 1]
                  ELSE windows
  /\ Answer(d, "ok")
  /\ UNCHANGED <<clock, order, idempotencyKeys, recapVars, startVars, disk, restarts, ghostVars>>

Handle(d) ==
  \/ Identify(d) \/ Defer(d) \/ Announce(d) \/ Repeat(d)
  \/ \E answer \in Answers : Announced(d, answer) \/ Escalated(d, answer)

-----------------------------------------------------------------------------
(* sweep, on a timer that does not wait for the sweep before.               *)

Deferred == {a \in Alerts : windows[a].open /\ windows[a].deferred}

\* Mutant: the first sweep finds nothing deferred and is done, in the grace period.
DoneAtFirstSweep(now) == TRUE

\* Once the grace period is over with nothing deferred there is nothing to recap.
DoneWithoutRecap(now) == restartRecapDone \/ ~InRestartGrace(now)

\* evictExpired, and flushRestartRecap up to its send.
SweepStart(s) ==
  /\ pc[s] = "idle" /\ Quiet
  /\ idempotencyKeys' = EvictExpired(idempotencyKeys, clock)
  /\ \/ /\ restartRecapDone \/ InRestartGrace(clock) \/ Deferred = {}
        /\ restartRecapDone' = DoneWithoutRecap(clock)
        /\ seen' = [seen EXCEPT ![s].now = clock]
        /\ Goto(s, "scan")
     \/ /\ ~restartRecapDone /\ ~InRestartGrace(clock) /\ Deferred # {}
        /\ seen' = [seen EXCEPT ![s].now = clock, ![s].batch = Deferred]
        /\ Goto(s, "restartRecap")
        /\ UNCHANGED restartRecapDone
  /\ UNCHANGED <<clock, windowVars, lockVars, recapVars, startedAt, disk, failures, restarts,
                 ghostVars>>

RecapDone(answer) == Accepted(answer)

\* A rejected restart recap leaves everything to the next sweep.
RestartRecapSent(s, answer) ==
  /\ pc[s] = "restartRecap"
  /\ Sent(answer)
  /\ IF RecapDone(answer)
       THEN /\ restartRecapDone' = TRUE
            /\ windows' = [a \in Alerts |->
                 IF a \in seen[s].batch /\ windows[a].open
                   THEN [windows[a] EXCEPT !.deferred = FALSE,
                           !.told = @ \/ Accepted(answer)]
                   ELSE windows[a]]
       ELSE UNCHANGED <<restartRecapDone, windows>>
  /\ Goto(s, "scan")
  /\ UNCHANGED <<clock, order, idempotencyKeys, lockVars, recapVars, startedAt, disk, seen,
                 restarts, alarms, recaps, closed>>

\* [...this.windows]: the windows of this moment, each known by its opener.
SweepScan(s) ==
  /\ pc[s] = "scan"
  /\ LET over == Filter(order, {a \in Alerts : windows[a].expiresAt <= seen[s].now})
     IN seen' = [seen EXCEPT ![s].todo =
                   [i \in 1..Len(over) |->
                      [alert |-> over[i], window |-> windows[over[i]].openedBy]]]
  /\ Goto(s, "close")
  /\ UNCHANGED <<clock, windowVars, idempotencyKeys, lockVars, recapVars, startVars, disk,
                 failures, restarts, ghostVars>>

\* The next window of the list, deferred ones left out.
SweepNext(s) ==
  /\ pc[s] = "close" /\ seen[s].todo # <<>>
  /\ LET a == Head(seen[s].todo).alert
     IN IF windows[a].deferred
          THEN /\ seen' = [seen EXCEPT ![s].todo = Tail(@)]
               /\ UNCHANGED <<pc, eventLocks>>
          ELSE /\ eventLocks' = [eventLocks EXCEPT ![a] = Append(@, s)]
               /\ Goto(s, "closing")
               /\ UNCHANGED seen
  /\ UNCHANGED <<clock, windowVars, idempotencyKeys, idemLocks, recapVars, startVars, disk,
                 failures, restarts, ghostVars>>

\* Mutant: the window may have been replaced while the sweep waited.
ClosesAny(w, x) == w.open

\* this.windows.get(key) === window
SameWindow(w, x) == w.open /\ w.openedBy = x.window

SweepClose(s) ==
  LET x == Head(seen[s].todo)
  IN /\ pc[s] = "closing" /\ HoldsEvent(s, x.alert)
     /\ IF SameWindow(windows[x.alert], x)
          THEN windows' = Closed(x.alert) /\ order' = Without(order, x.alert)
          ELSE UNCHANGED windowVars
     /\ eventLocks' = [eventLocks EXCEPT ![x.alert] = Released(@, s)]
     /\ seen' = [seen EXCEPT ![s].todo = Tail(@)]
     /\ Goto(s, "close")
     /\ UNCHANGED <<clock, idempotencyKeys, idemLocks, recapVars, startVars, disk, failures,
                    restarts, ghostVars>>

\* What is in a tally that will never be in a recap again.
Settle(tally) == closed' = [k \in Keys |-> closed[k] + tally.deliveries[k]]

\* Mutant: a retry sends the period as it has grown since.
MergedTally ==
  [deliveries |-> [k \in Keys |-> pendingRecap.tally.deliveries[k] + daily.deliveries[k]],
   signatures |-> pendingRecap.tally.signatures \cup daily.signatures]

RetryTally == pendingRecap.tally

\* Mutant: a sweep does not look for the send of another.
NeverInFlight == FALSE

\* recapInFlight
SendInFlight == recapInFlight

DailyDue(s) == pendingRecap.held \/ seen[s].now >= nextRecapAt

AtDaily(s) == pc[s] = "close" /\ seen[s].todo = <<>>

\* flushDailyRecap has nothing to do.
DailyIdle(s) ==
  /\ AtDaily(s)
  /\ SendInFlight \/ ~DailyDue(s)
  /\ Goto(s, "persist")
  /\ UNCHANGED <<clock, windowVars, idempotencyKeys, lockVars, recapVars, startVars, disk,
                 seen, failures, restarts, ghostVars>>

\* The period is closed without an await; a silent one is not reported.
DailySwap(s) ==
  /\ AtDaily(s)
  /\ ~SendInFlight /\ ~pendingRecap.held /\ DailyDue(s)
  /\ daily' = EmptyTally
  /\ nextRecapAt' = NextRecapTime(seen[s].now)
  /\ recapAttempts' = 0
  /\ IF daily.signatures = {}
       THEN /\ Settle(daily)
            /\ Goto(s, "persist")
            /\ UNCHANGED <<pendingRecap, recapInFlight>>
       ELSE /\ pendingRecap' = [held |-> TRUE, tally |-> daily, until |-> nextRecapAt]
            /\ recapInFlight' = TRUE
            /\ Goto(s, "dailyRecap")
            /\ UNCHANGED closed
  /\ UNCHANGED <<clock, windowVars, idempotencyKeys, lockVars, startVars, disk, seen,
                 failures, restarts, alarms, recaps>>

\* A recap that was rejected before is sent again as it was.
DailyRetry(s) ==
  /\ AtDaily(s)
  /\ ~SendInFlight /\ pendingRecap.held
  /\ pendingRecap' = [pendingRecap EXCEPT !.tally = RetryTally]
  /\ recapInFlight' = TRUE
  /\ Goto(s, "dailyRecap")
  /\ UNCHANGED <<clock, windowVars, idempotencyKeys, lockVars, daily, nextRecapAt,
                 recapAttempts, startVars, disk, seen, failures, restarts,
                 ghostVars>>

\* Mutant: the tally is replaced when the recap has been sent.
TallyReset == EmptyTally

\* Deliveries that arrive during the send stay in the live tally.
TallyAfterRecap == daily

\* The last attempt that fails drops the recap.
DailySent(s, answer) ==
  /\ pc[s] = "dailyRecap"
  /\ Sent(answer)
  /\ recapInFlight' = FALSE
  /\ daily' = TallyAfterRecap
  /\ IF Accepted(answer) \/ recapAttempts + 1 >= MaxFlushAttempts
       THEN pendingRecap' = NoPending /\ recapAttempts' = 0 /\ Settle(pendingRecap.tally)
       ELSE recapAttempts' = recapAttempts + 1 /\ UNCHANGED <<pendingRecap, closed>>
  /\ recaps' = [recaps EXCEPT ![pendingRecap.until \div Day] =
                  @ + IF Accepted(answer) THEN 1 ELSE 0]
  /\ Goto(s, "persist")
  /\ UNCHANGED <<clock, windowVars, idempotencyKeys, lockVars, nextRecapAt, startVars, disk,
                 seen, restarts, alarms>>

-----------------------------------------------------------------------------
(* The state file, deploys and crashes.                                     *)

\* exportState: live windows only.
Live(a) == windows[a].open /\ windows[a].expiresAt > clock

\* serializeWindow: nothing says that the window was deferred.
Serialized(w) == [w EXCEPT !.deferred = FALSE, !.forgotten = @ \/ w.deferred]

Snapshot ==
  [saved |-> TRUE,
   windows |-> [a \in Alerts |-> IF Live(a) THEN Serialized(windows[a]) ELSE NoWindow],
   order |-> Filter(order, {a \in Alerts : Live(a)}),
   daily |-> daily, nextRecapAt |-> nextRecapAt, pendingRecap |-> pendingRecap]

\* Mutant: the recap that still has to be sent is not in the snapshot.
SnapshotWithoutPending == [Snapshot EXCEPT !.pendingRecap = NoPending]

ExportState == Snapshot

\* persistState at the end of a sweep.
SweepPersist(s) ==
  /\ pc[s] = "persist"
  /\ disk' = IF StateFile THEN ExportState ELSE disk
  /\ Goto(s, "idle")
  /\ seen' = [seen EXCEPT ![s] = Blank]
  /\ UNCHANGED <<clock, windowVars, idempotencyKeys, lockVars, recapVars, startVars, failures,
                 restarts, ghostVars>>

Sweep(s) ==
  \/ SweepStart(s) \/ SweepScan(s) \/ SweepNext(s) \/ SweepClose(s)
  \/ DailyIdle(s) \/ DailySwap(s) \/ DailyRetry(s) \/ SweepPersist(s)
  \/ \E answer \in Answers : RestartRecapSent(s, answer) \/ DailySent(s, answer)

\* The constructor, then importState of what is on disk.
Boot(file) ==
  LET fresh(a) == file.windows[a].open /\ file.windows[a].expiresAt > clock
      known == file.saved /\ clock - file.nextRecapAt < Day
  IN /\ windows' = [a \in Alerts |-> IF fresh(a) THEN file.windows[a] ELSE NoWindow]
     /\ order' = Filter(file.order, {a \in Alerts : fresh(a)})
     /\ daily' = IF known THEN file.daily ELSE EmptyTally
     /\ nextRecapAt' = IF known THEN file.nextRecapAt ELSE NextRecapTime(clock)
     /\ pendingRecap' = IF file.pendingRecap.held /\ clock - file.pendingRecap.until < Day
                          THEN file.pendingRecap ELSE NoPending
     /\ idempotencyKeys' = <<>>
     /\ recapAttempts' = 0 /\ recapInFlight' = FALSE
     /\ startedAt' = clock /\ restartRecapDone' = (RestartGraceMs = 0)
     /\ eventLocks' = [a \in Alerts |-> <<>>] /\ idemLocks' = [k \in Keys |-> <<>>]
     /\ pc' = [p \in Procs |-> IF p \in Sweeps THEN "idle"
                               ELSE IF pc[p] \in {"idle", "ok", "failed"} THEN pc[p]
                               ELSE "lost"]
     /\ seen' = [p \in Procs |-> Blank]
     /\ restarts' = restarts + 1

InHandler(d) == pc[d] \in {"idem", "event", "sending", "escalating"}

\* SIGTERM: the requests are drained and the state is written; a sweep that is
\* still running is not waited for.
Deploy ==
  /\ restarts < MaxRestarts
  /\ Quiet /\ \A d \in Deliveries : ~InHandler(d)
  /\ disk' = IF StateFile THEN ExportState ELSE disk
  /\ Boot(disk')
  /\ UNCHANGED <<clock, failures, alarms, recaps, closed>>

\* The process is killed.
Crash ==
  /\ Crashes /\ restarts < MaxRestarts
  /\ Boot(disk)
  /\ UNCHANGED <<clock, disk, failures, alarms, recaps, closed>>

\* A new day: a new reporting period for the chat.
Tick ==
  /\ clock < MaxTime
  /\ clock' = clock + 1
  /\ alarms' = IF (clock + 1) % Day = 0 THEN [a \in Alerts |-> [t \in Destinations |-> 0]]
                                        ELSE alarms
  /\ UNCHANGED <<windowVars, idempotencyKeys, lockVars, recapVars, startVars, disk, pc, seen,
                 failures, restarts, recaps, closed>>

Running ==
  \/ \E d \in Deliveries : Receive(d) \/ Handle(d)
  \/ \E s \in Sweeps : Sweep(s)
  \/ Tick

Next == Running \/ Deploy \/ Crash

\* The event loop takes its tasks in turn (strong, as each of them waits for a
\* moment with no continuation ready), a send has a timeout, the timer of the
\* sweeps fires for ever and time passes.  No request has to arrive and no
\* destination has to accept, but only MaxFailures sends are rejected.
Fairness ==
  /\ \A d \in Deliveries : SF_vars(Handle(d))
  /\ \A s \in Sweeps : SF_vars(Sweep(s))
  /\ WF_vars(Tick)

Spec == Init /\ [][Next]_vars /\ Fairness

-----------------------------------------------------------------------------
(* Properties.                                                              *)

WindowType ==
  [open : BOOLEAN, openedBy : Deliveries \cup {Nobody}, expiresAt : Nat,
   deferred : BOOLEAN, opening : Nat, evals : [Evals -> Nat], repeated : BOOLEAN,
   escalations : Nat, told : BOOLEAN, forgotten : BOOLEAN]
TallyType == [deliveries : [Keys -> Nat], signatures : SUBSET Alerts]
PendingType == [held : BOOLEAN, tally : TallyType, until : Nat]

\* Every variable has its type; in particular no handler escalates more often
\* than the constant says, and the map and its order agree.
TypeOK ==
  /\ clock \in 0..MaxTime
  /\ windows \in [Alerts -> WindowType]
  /\ \A a \in Alerts : windows[a].escalations <= MaxEscalationsPerWindow
  /\ ToSet(order) = {a \in Alerts : windows[a].open} /\ IsInjective(order)
  /\ ToSet(idempotencyKeys) \subseteq [key : Keys, expires : Nat]
  /\ \A a \in Alerts : ToSet(eventLocks[a]) \subseteq Procs
  /\ \A k \in Keys : ToSet(idemLocks[k]) \subseteq Deliveries
  /\ daily \in TallyType /\ pendingRecap \in PendingType
  /\ nextRecapAt \in Nat /\ recapAttempts \in 0..MaxFlushAttempts
  /\ recapInFlight \in BOOLEAN
  /\ startedAt \in Nat /\ restartRecapDone \in BOOLEAN
  /\ DOMAIN pc = Procs /\ DOMAIN seen = Procs

\* The chat is quiet about an alert only if it has been told: a window that is
\* not waiting for the restart recap has been accepted by every destination, in
\* an alert of its own or in the recap.  The state file is the one thing that may
\* make it otherwise, since it does not say that a window was held back: no
\* rejected or partial send, no eviction, and neither deploy nor kill do.
QuietMeansTold ==
  \A a \in Alerts : windows[a].open /\ ~windows[a].deferred =>
    windows[a].told \/ windows[a].forgotten

\* Concurrent deliveries of one alert post one message: none is accepted while
\* the alert has a window ("twenty concurrent deliveries for one signature must
\* produce exactly one message").
NoAlarmInsideWindow ==
  [][\A a \in Alerts : (\E t \in Destinations : alarms'[a][t] > alarms[a][t]) =>
       ~windows[a].open]_vars

\* How often the delivery of k has been counted.
TimesCounted(k) == daily.deliveries[k] + pendingRecap.tally.deliveries[k] + closed[k]

Accepting(k) == \E d \in Deliveries : IdemKeyOf[d] = k /\ pc[d] \in {"ok", "escalating"}

\* A payload is counted exactly once if one of its deliveries was accepted and
\* not at all otherwise, however its retries, the sweeps and the change of the
\* period interleave with its send.
CountedOnce ==
  \A k \in Keys \ Recoveries : TimesCounted(k) = IF Accepting(k) THEN 1 ELSE 0

\* A period is reported at most once ("sweeps racing each other must not
\* double-post the daily recap").
RecapPostedOnce == \A n \in RecapDays : recaps[n] <= 1

\* "The retry re-sends the period that came due instead of a period that kept
\* growing under it."
PendingIsFrozen ==
  [][pendingRecap.held /\ pendingRecap'.held => pendingRecap' = pendingRecap]_vars

\* The caches never hold more than their limit, in whatever order windows are
\* opened, closed and dropped.
CachesBounded ==
  Len(order) <= MaxCacheEntries /\ Len(idempotencyKeys) <= MaxCacheEntries

\* A sweep closes no window that is still running: the handler may have opened
\* it after the sweep made its list.
NoWindowClosedEarly ==
  [][\A a \in Alerts, s \in Sweeps :
       pc[s] = "closing" /\ pc'[s] = "close" /\ windows[a].open /\ ~windows'[a].open =>
         windows[a].expiresAt <= seen[s].now]_vars

\* Every delivery is answered: the two locks that it takes never block for good.
DeliveriesAnswered == \A d \in Deliveries : pc[d] # "idle" ~> pc[d] \in {"ok", "failed"}

\* An alert held back after a restart is reported by the restart recap, even if
\* destinations reject it for a while.
DeferredReported == \A a \in Alerts : windows[a].deferred ~> windows[a].told

\* The reporting periods ended less than a day ago ("only a snapshot older than a
\* full period is discarded").
Recent ==
  /\ clock - nextRecapAt < Day
  /\ pendingRecap.held => clock - pendingRecap.until < Day

\* In a deploy, unlike in a kill, no delivery drops out of the reporting, whatever
\* send is under way and whatever an earlier process left on disk, unless the
\* recap is a day late.
DeployLosesNothing ==
  [][Deploy /\ Recent => \A k \in Keys : TimesCounted(k)' >= TimesCounted(k)]_vars

=============================================================================
