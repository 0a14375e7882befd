---------------------------- MODULE EarningsCache ----------------------------
(***************************************************************************)
(* The saved chart of what an Earn position has earned: one row per wallet *)
(* and timezone.  A request answers with the row and, when the row is not  *)
(* current, refreshes it under an advisory lock that is tried and never    *)
(* awaited (earnings-cache.server.ts); the daily notification computes and *)
(* saves the chart without the lock (earn-yield-joy.server.ts).  The       *)
(* calculation (earnings-read-service.server.ts) reads its sources one     *)
(* after the other, outside any transaction, while deposits are recorded,  *)
(* exposures observed and old data corrected.  Two protocols make the      *)
(* result safe to reuse:                                                   *)
(*                                                                         *)
(*   revision    of the positions, read before and after the calculation;  *)
(*               the row is current only under an unchanged revision;      *)
(*   checkpoint  the totals up to a past midnight with fingerprints of     *)
(*               what they were computed from, which the next calculation  *)
(*               extends instead of reading that past again.               *)
(*                                                                         *)
(* A source is a set of rows <<time, id>>.  A correction of old exposures  *)
(* or samples is one more row at its midnight: the revision counters that  *)
(* earn_history_day_revisions keeps per day count exactly those, so a      *)
(* fingerprint is the set of rows before its time.  What a chart shows is  *)
(* the rows it was computed from.                                          *)
(***************************************************************************)
EXTENDS Integers, FiniteSets, Functions

CONSTANTS
  Tasks,           \* server functions that read or calculate the chart
  Events,          \* deposits and withdrawals after the first deposit
  Amount,          \* Amount[e]: what e changes the principal by
  HistoryChanges,  \* exposures observed or corrected
  ApyChanges,      \* APY samples added or corrected
  FirstDeposit,    \* when the position was opened
  DayLength,       \* ticks of a day
  FreshFor,        \* ticks a chart is reused for (FRESH_MS)
  MaxClock,        \* bound: the clock
  MaxChanges,      \* bound: events, changes and the closing
  MaxFailures,     \* bound: queries and connections that fail
  None

Sources == {"ledger", "history", "apy"}
Ids == Events \cup HistoryChanges \cup ApyChanges
Rows == SUBSET (Int \X Ids)
Readings == [Sources -> Rows]
Fingerprints == [rows : Rows]
Revisions == [applied : SUBSET Events, open : BOOLEAN]
Checkpoints == [at : Int, ranges : Readings, prints : Readings]

ASSUME TimeAssumption ==
  /\ FirstDeposit \in Nat /\ MaxClock \in Nat /\ FirstDeposit <= MaxClock
  /\ DayLength \in Nat \ {0} /\ FreshFor \in Nat
  /\ MaxChanges \in Nat /\ MaxFailures \in Nat
ASSUME AmountAssumption == Amount \in [Events -> Int]
ASSUME NoneAssumption ==
  /\ None \notin Revisions /\ None \notin Checkpoints
  /\ None \notin Fingerprints /\ None \notin Tasks

VARIABLES
  clock,
  source,    \* source[s]: the rows of source s
  applied,   \* the events the positions' rows account for
  open,      \* some position is active
  stored,    \* the row of earn_earnings_snapshots
  lock,      \* the task whose transaction holds the advisory lock
  task,      \* task[p]: where p is and what it has read
  failures

world == <<clock, source, applied, open>>
vars == <<world, stored, lock, task, failures>>

NoSnapshot == [generatedAt |-> -1, revision |-> None, events |-> {}, checkpoint |-> None]
Nothing == [s \in Sources |-> {}]
Idle == [pc |-> "idle", at |-> -1, seen |-> NoSnapshot, useCheckpoint |-> TRUE,
         revision |-> None, checkpoint |-> None, nextHistory |-> None,
         read |-> Nothing, next |-> None]

Init ==
  /\ clock = FirstDeposit
  /\ source = Nothing
  /\ applied = {}
  /\ open = TRUE
  /\ stored = NoSnapshot
  /\ lock = None
  /\ task = [p \in Tasks |-> Idle]
  /\ failures = 0

-----------------------------------------------------------------------------
(* Times, rows and fingerprints.                                           *)

Day(t) == t \div DayLength

(* The last midnight before the end of the latest whole APY period; the    *)
(* periods are counted from the first deposit.                             *)
earningsCheckpointTime(now) ==
  DayLength * Day(FirstDeposit + DayLength * ((now - FirstDeposit) \div DayLength))

Before(rows, t) == {x \in rows : x[1] < t}
From(rows, t) == {x \in rows : x[1] >= t}

EventsOf(rows) == {x[2] : x \in rows}
principalAt(es) == FoldFunctionOnSet(LAMBDA a, b : a + b, 0, Amount, es)

(* getEarnEarningsSourceRevision: a hash of the positions' rows, each of   *)
(* which names the last event it accounts for.                             *)
Revision == [applied |-> applied, open |-> open]

isFresh(s) ==
  /\ s.revision = Revision
  /\ clock - s.generatedAt \in 0 .. FreshFor - 1
  /\ Day(s.generatedAt) = Day(clock)

-----------------------------------------------------------------------------
(* The world changes.                                                      *)

Tick ==
  /\ clock < MaxClock
  /\ clock' = clock + 1
  /\ UNCHANGED <<source, applied, open, stored, lock, task, failures>>

Changes ==
  Cardinality(source["ledger"]) + Cardinality(source["history"])
    + Cardinality(source["apy"]) + IF open THEN 0 ELSE 1

(* A deposit or withdrawal: its row is inserted first and the position     *)
(* brought up to date by a later statement.  The time of the row was taken *)
(* before the statement, or belongs to a transaction repaired later.       *)
RecordEvent(e) ==
  /\ open /\ Changes < MaxChanges
  /\ e \notin EventsOf(source["ledger"])
  /\ \E t \in FirstDeposit .. clock :
       source' = [source EXCEPT !["ledger"] = @ \cup {<<t, e>>}]
  /\ UNCHANGED <<clock, applied, open, stored, lock, task, failures>>

ApplyEvent(e) ==
  /\ e \in EventsOf(source["ledger"]) \ applied
  /\ applied' = applied \cup {e}
  /\ UNCHANGED <<clock, source, open, stored, lock, task, failures>>

(* The full exit is cleaned up: no position is active.                     *)
ClosePositions ==
  /\ open /\ Changes < MaxChanges
  /\ open' = FALSE
  /\ UNCHANGED <<clock, source, applied, stored, lock, task, failures>>

(* An exposure or a sample of today or of a past day.                      *)
Change(s, ids) ==
  /\ Changes < MaxChanges
  /\ \E x \in ids \ EventsOf(source[s]), d \in 0 .. Day(clock) :
       /\ source' = [source EXCEPT ![s] = @ \cup {<<d * DayLength, x>>}]
       /\ UNCHANGED <<clock, applied, open, stored, lock, task, failures>>

ChangeHistory == Change("history", HistoryChanges)
ChangeApy == Change("apy", ApyChanges)

World ==
  \/ Tick \/ ClosePositions \/ ChangeHistory \/ ChangeApy
  \/ \E e \in Events : RecordEvent(e) \/ ApplyEvent(e)

-----------------------------------------------------------------------------
(* readCachedEarnEarningsRangeSet.  Each step ends at an await.            *)

At(p, pc) == task[p].pc = pc

Go(p, t) ==
  /\ task' = [task EXCEPT ![p] = t]
  /\ UNCHANGED <<world, stored, lock, failures>>

\* Mutant: the lock outlives the task that held it.
NotReleased(p) == lock

(* The connection of withEarnEarningsRefreshLock ends with its task.       *)
Released(p) == IF lock = p THEN None ELSE lock

Finish(p) ==
  /\ task' = [task EXCEPT ![p] = Idle]
  /\ lock' = Released(p)

Done(p) == Finish(p) /\ UNCHANGED <<world, stored, failures>>

(* A query that the calculation can do without fails: it goes on as t.     *)
Without(p, t) ==
  /\ failures < MaxFailures
  /\ failures' = failures + 1
  /\ task' = [task EXCEPT ![p] = t]
  /\ UNCHANGED <<world, stored, lock>>

(* A calculation starts: now() is read before anything else.               *)
Begun(use) == [Idle EXCEPT !.pc = "own", !.at = clock, !.useCheckpoint = use]

Ask(p) ==
  /\ At(p, "idle")
  /\ Go(p, [Idle EXCEPT !.pc = "decide", !.seen = stored])

(* Fresh: the answer.  Else the refresh is scheduled, or awaited by a      *)
(* reader that has no chart to show meanwhile.                             *)
Decide(p) ==
  /\ At(p, "decide")
  /\ \/ isFresh(task[p].seen) /\ Go(p, Idle)
     \/ ~isFresh(task[p].seen) /\ Go(p, [Idle EXCEPT !.pc = "lock"])

TryLock(p) ==
  /\ At(p, "lock")
  /\ \/ lock # None /\ Go(p, Idle)
     \/ /\ lock = None
        /\ lock' = p
        /\ task' = [task EXCEPT ![p].pc = "latest"]
        /\ UNCHANGED <<world, stored, failures>>

LoadLatest(p) ==
  /\ At(p, "latest")
  /\ Go(p, [Idle EXCEPT !.pc = "recheck", !.seen = stored])

Recheck(p) ==
  /\ At(p, "recheck")
  /\ \/ isFresh(task[p].seen) /\ Done(p)
     \/ ~isFresh(task[p].seen) /\ Go(p, Begun(TRUE))

(* The daily notification calculates at once and takes no lock.            *)
ReadUnlocked(p) ==
  /\ At(p, "idle")
  /\ Go(p, Begun(TRUE))

-----------------------------------------------------------------------------
(* readEarnEarningsRangeSet.                                               *)

\* The events a calculation counts: what is confirmed later is left out.
Effective(t) == EventsOf(Before(t.read["ledger"], t.at + 1))

(* The rows the calculation uses: with a checkpoint, its totals for the    *)
(* past and the sources for the rest.                                      *)
Used(t) ==
  IF t.checkpoint = None THEN t.read
  ELSE [s \in Sources |-> t.checkpoint.ranges[s] \cup From(t.read[s], t.checkpoint.at)]

Ranges(t, end) == [s \in Sources |-> Before(Used(t)[s], end)]

(* The row read at the start serves its checkpoint only.                   *)
LoadOwn(p) ==
  /\ At(p, "own")
  /\ LET t == [task[p] EXCEPT !.pc = "revision", !.useCheckpoint = TRUE]
         cp == stored.checkpoint
         usable == cp # None /\ task[p].useCheckpoint /\ cp.at <= t.at
     IN \/ Go(p, [t EXCEPT !.checkpoint = IF usable THEN cp ELSE None])
        \/ Without(p, t)

LoadRevision(p) ==
  /\ At(p, "revision")
  /\ Go(p, [task[p] EXCEPT !.pc = "ledger", !.revision = Revision])

SameLedger(cp) == cp.prints["ledger"] = Before(source["ledger"], cp.at)

LoadLedger(p) ==
  /\ At(p, "ledger")
  /\ LET cp == task[p].checkpoint
         kept == cp # None /\ SameLedger(cp)
     IN Go(p, [task[p] EXCEPT !.pc = IF kept THEN "verify" ELSE "next",
                              !.checkpoint = IF kept THEN cp ELSE None,
                              !.read["ledger"] = source["ledger"]])

SameHistory(cp) == cp.prints["history"] = Before(source["history"], cp.at)

(* A fingerprint that cannot be read verifies nothing.                     *)
Verify(p) ==
  /\ At(p, "verify")
  /\ LET t == [task[p] EXCEPT !.pc = "next"]
     IN \/ SameHistory(t.checkpoint) /\ Go(p, t)
        \/ ~SameHistory(t.checkpoint) /\ Go(p, [t EXCEPT !.checkpoint = None])
        \/ Without(p, [t EXCEPT !.checkpoint = None])

LoadNextFingerprint(p) ==
  /\ At(p, "next")
  /\ LET t == [task[p] EXCEPT !.pc = "history", !.nextHistory = None]
         print == [rows |-> Before(source["history"], earningsCheckpointTime(t.at))]
     IN Go(p, [t EXCEPT !.nextHistory = print]) \/ Without(p, t)

Reconciles(t) == principalAt(Effective(t)) = principalAt(applied)

(* Positions and exposures.  Without an active position the empty chart is *)
(* returned and not saved; a principal the ledger does not replay to is an *)
(* error.  The rows before a checkpoint are not read: they are kept here   *)
(* to say what a full calculation would have read.                         *)
LoadHistory(p) ==
  /\ At(p, "history")
  /\ \/ ~(open /\ Reconciles(task[p])) /\ Done(p)
     \/ /\ open /\ Reconciles(task[p])
        /\ Go(p, [task[p] EXCEPT !.pc = "apy", !.read["history"] = source["history"]])

SameApy(cp) == cp.prints["apy"] = Before(source["apy"], cp.at)

LoadApy(p) ==
  /\ At(p, "apy")
  /\ LET cp == task[p].checkpoint
     IN \/ cp # None /\ ~SameApy(cp) /\ Go(p, Begun(FALSE))
        \/ /\ cp # None => SameApy(cp)
           /\ Go(p, [task[p] EXCEPT !.pc = IF cp = None THEN "publish" ELSE "confirm",
                                    !.read["apy"] = source["apy"]])

\* Mutant: the history before the checkpoint is not compared again.
ConfirmUnread(p) ==
  /\ At(p, "confirm")
  /\ Go(p, [task[p] EXCEPT !.pc = "publish"])

(* The history before the checkpoint may have changed since it was         *)
(* verified: then everything is calculated again, without checkpoint.      *)
Confirm(p) ==
  /\ At(p, "confirm")
  /\ \/ SameHistory(task[p].checkpoint) /\ Go(p, [task[p] EXCEPT !.pc = "publish"])
     \/ ~SameHistory(task[p].checkpoint) /\ Go(p, Begun(FALSE))
     \/ Without(p, Begun(FALSE))

NewCheckpoint(t) ==
  LET m == earningsCheckpointTime(t.at)
  IN [at |-> m,
      ranges |-> Ranges(t, m),
      prints |-> [s \in Sources |-> IF s = "history" THEN t.nextHistory.rows
                                    ELSE Before(t.read[s], m)]]

\* Mutant: a fingerprint that was read is not read again.
SteadyOnceRead(t, m) == m > FirstDeposit /\ t.nextHistory # None

Steady(t, m) == m > FirstDeposit /\ t.nextHistory = [rows |-> Before(source["history"], m)]

(* A checkpoint is made when its history did not change while it was       *)
(* calculated (that some observation precedes it is taken to hold as soon  *)
(* as a midnight has passed since the first deposit); the one in use is    *)
(* kept if it is for the same midnight.                                    *)
MakeCheckpoint(p) ==
  /\ At(p, "publish")
  /\ LET t == [task[p] EXCEPT !.pc = "bracket", !.nextHistory = None]
         m == earningsCheckpointTime(t.at)
         kept == IF t.checkpoint # None /\ t.checkpoint.at = m THEN t.checkpoint ELSE None
     IN \/ Go(p, [t EXCEPT !.next = IF Steady(task[p], m) THEN NewCheckpoint(task[p])
                                    ELSE kept])
        \/ Without(p, [t EXCEPT !.next = kept])

\* Mutant: the revision is read once, when the calculation has ended.
ReadOnce(t) == Revision

Bracketed(t) == IF t.revision = Revision THEN Revision ELSE None

Bracket(p) ==
  /\ At(p, "bracket")
  /\ Go(p, [Idle EXCEPT !.pc = "save", !.at = task[p].at,
                        !.revision = Bracketed(task[p]), !.next = task[p].next,
                        !.read["ledger"] = task[p].read["ledger"]])

(* A chart does not replace one that was generated later.                  *)
Save(p) ==
  /\ At(p, "save")
  /\ LET t == task[p]
     IN stored' = IF stored.generatedAt <= t.at
                  THEN [generatedAt |-> t.at, revision |-> t.revision,
                        events |-> Effective(t), checkpoint |-> t.next]
                  ELSE stored
  /\ Finish(p)
  /\ UNCHANGED <<world, failures>>

(* A query, the lock's connection or the write fails, or the function is   *)
(* stopped.  Whatever the caller is told, the row stays as it is.          *)
Fail(p) ==
  /\ ~At(p, "idle")
  /\ failures < MaxFailures
  /\ failures' = failures + 1
  /\ Finish(p)
  /\ UNCHANGED <<world, stored>>

Calculate(p) ==
  \/ LoadOwn(p) \/ LoadRevision(p) \/ LoadLedger(p) \/ Verify(p)
  \/ LoadNextFingerprint(p) \/ LoadHistory(p) \/ LoadApy(p) \/ Confirm(p)
  \/ MakeCheckpoint(p) \/ Bracket(p) \/ Save(p)

Read(p) ==
  \/ Ask(p) \/ Decide(p) \/ TryLock(p) \/ LoadLatest(p) \/ Recheck(p)
  \/ Calculate(p)

Next ==
  \/ World
  \/ \E p \in Tasks : Read(p) \/ ReadUnlocked(p) \/ Fail(p)

Spec == Init /\ [][Next]_vars

(* The open chart asks again every five seconds while its answer is stale  *)
(* (use-earn-earnings.ts), and a confirmation is retried until recorded.   *)
FairSpec ==
  /\ Spec
  /\ \A p \in Tasks : WF_vars(Read(p))
  /\ \A e \in Events : WF_vars(ApplyEvent(e))

-----------------------------------------------------------------------------
(* Properties.                                                             *)

Steps == {"idle", "decide", "lock", "latest", "recheck", "own", "revision", "ledger",
          "verify", "next", "history", "apy", "confirm", "publish", "bracket", "save"}
SnapshotSet == [generatedAt : Int, revision : Revisions \cup {None},
                events : SUBSET Ids, checkpoint : Checkpoints \cup {None}]

TaskSet == [pc : Steps, at : Int, seen : SnapshotSet, useCheckpoint : BOOLEAN,
            revision : Revisions \cup {None}, checkpoint : Checkpoints \cup {None},
            nextHistory : Fingerprints \cup {None}, read : Readings,
            next : Checkpoints \cup {None}]

TypeOK ==
  /\ clock \in FirstDeposit .. MaxClock
  /\ source \in Readings
  /\ applied \in SUBSET Events
  /\ open \in BOOLEAN
  /\ stored \in SnapshotSet
  /\ lock \in Tasks \cup {None}
  /\ task \in [Tasks -> TaskSet]
  /\ failures \in 0 .. MaxFailures

(* The totals of a checkpoint are those of the rows its fingerprints stand *)
(* for; the events of a chart replay to the principal under its revision.  *)
Honest(cp) == cp # None => cp.ranges = cp.prints

Replayed(s) ==
  /\ Honest(s.checkpoint)
  /\ s.revision # None => principalAt(s.events) = principalAt(s.revision.applied)

(* The revision a calculation has read covers applied events only; once    *)
(* its principal was compared, the ledger it read replays to the positions *)
(* for as long as that revision is current.  Here es are the events now    *)
(* applied and hs the rows of the history.                                 *)
RevisionHeld(t, es) ==
  /\ t.pc \in {"ledger", "verify", "next", "history", "apy", "confirm", "publish", "bracket"}
       => t.revision # None /\ t.revision.applied \subseteq es
  /\ t.pc \in {"apy", "confirm", "publish", "bracket"} /\ t.revision.applied = es
       => principalAt(Effective(t)) = principalAt(es)
  /\ t.pc = "save" /\ t.revision # None
       => principalAt(Effective(t)) = principalAt(t.revision.applied)

(* What the checkpoint in use stands for was in the sources when it was    *)
(* verified, is part of what was read since, and is exactly the past of    *)
(* what was read once it is confirmed.                                     *)
CheckpointHeld(t, hs) ==
  LET cp == t.checkpoint
      past(s) == cp.prints[s] = Before(t.read[s], cp.at)
  IN cp # None =>
       /\ t.pc \in {"verify", "next", "history", "apy", "confirm", "publish", "bracket"}
            => past("ledger")
       /\ t.pc \in {"next", "history"}
            => cp.prints["history"] \subseteq Before(hs, cp.at)
       /\ t.pc \in {"apy", "confirm"}
            => cp.prints["history"] \subseteq Before(t.read["history"], cp.at)
       /\ t.pc \in {"confirm", "publish", "bracket"} => past("apy")
       /\ t.pc \in {"publish", "bracket"} => past("history")

(* The same of the fingerprint for the next checkpoint.                    *)
FingerprintHeld(t, hs) ==
  LET m == earningsCheckpointTime(t.at)
  IN /\ t.pc \in {"apy", "confirm", "publish"} => t.read["history"] \subseteq hs
     /\ t.pc = "history" /\ t.nextHistory # None
          => t.nextHistory.rows \subseteq Before(hs, m)
     /\ t.pc \in {"apy", "confirm", "publish"} /\ t.nextHistory # None
          => t.nextHistory.rows \subseteq Before(t.read["history"], m)

TaskHeld(t, es, hs) ==
  /\ Replayed(t.seen) /\ Honest(t.checkpoint) /\ Honest(t.next)
  /\ RevisionHeld(t, es) /\ CheckpointHeld(t, hs) /\ FingerprintHeld(t, hs)

(* The inductive invariant: the types, and what the row and each task may  *)
(* be relied on for, at every step of a calculation.                       *)
CacheInv ==
  /\ TypeOK
  /\ Replayed(stored)
  /\ \A p \in Tasks : TaskHeld(task[p], applied, source["history"])

Snapshots == {stored} \cup {task[p].seen : p \in Tasks}

(* A chart that is taken as current (by a reader that compares its copy    *)
(* with the revision it read after it) replays to exactly the principal of *)
(* the positions, though ledger, positions and revision are read at        *)
(* different moments and an event is recorded before it is applied.        *)
FreshIsCurrent ==
  \A s \in Snapshots :
    s.revision = Revision => principalAt(s.events) = principalAt(applied)

(* A chart extended from a checkpoint is the one a full calculation would  *)
(* have produced from the same reads, whatever was corrected, deposited or *)
(* saved by others meanwhile.                                              *)
IncrementalIsFull ==
  \A p \in Tasks :
    At(p, "bracket") =>
      Ranges(task[p], task[p].at + 1)
        = [s \in Sources |-> Before(task[p].read[s], task[p].at + 1)]

(* While the chart is displayed, the saved chart becomes and stays current *)
(* once the world has stopped changing, whatever failed before, unless the *)
(* positions are closed: the empty chart is not saved.                     *)
EventuallyFresh == <>[](open => isFresh(stored))
=============================================================================
