------------------------ MODULE EarningsCache_proofs ------------------------
(***************************************************************************)
(* Theorems about EarningsCache, for any tasks, events, corrections, times *)
(* and bounds.  CacheInv is inductive; the two safety properties follow,   *)
(* and so does that the lock of a refresh is never left behind.            *)
(***************************************************************************)
EXTENDS EarningsCache, TLAPS

-----------------------------------------------------------------------------
(* Rows and times.                                                         *)

LEMMA DivType ==
  ASSUME NEW a \in Int
  PROVE  a \div DayLength \in Int
BY TimeAssumption

(* The midnight of a checkpoint is a time.                                 *)
LEMMA CheckpointTimeType ==
  ASSUME NEW now \in Int
  PROVE  earningsCheckpointTime(now) \in Int
<1>1. DayLength \in Int /\ FirstDeposit \in Int
  BY TimeAssumption
<1>2. (now - FirstDeposit) \div DayLength \in Int
  BY <1>1, DivType
<1>3. FirstDeposit + DayLength * ((now - FirstDeposit) \div DayLength) \in Int
  BY <1>1, <1>2
<1>4. Day(FirstDeposit + DayLength * ((now - FirstDeposit) \div DayLength)) \in Int
  BY <1>3, DivType DEF Day
<1>. QED
  BY <1>1, <1>4 DEF earningsCheckpointTime

(* The rows before a time and those from it on are all the rows.           *)
LEMMA Split ==
  ASSUME NEW rows \in Rows, NEW t \in Int
  PROVE  /\ Before(rows, t) \in Rows /\ From(rows, t) \in Rows
         /\ Before(rows, t) \cup From(rows, t) = rows
<1>1. \A x \in rows : x[1] \in Int
  BY DEF Rows
<1>. QED
  BY <1>1 DEF Before, From, Rows

(* More rows have more before a time.                                      *)
LEMMA BeforeGrows ==
  ASSUME NEW rows, NEW more, rows \subseteq more, NEW t
  PROVE  Before(rows, t) \subseteq Before(more, t)
BY DEF Before

LEMMA EventsType ==
  ASSUME NEW rows \in Rows
  PROVE  EventsOf(rows) \in SUBSET Ids
BY DEF EventsOf, Rows

-----------------------------------------------------------------------------
(* Tasks.                                                                  *)

(* A task that does nothing relies on nothing.                             *)
LEMMA IdleHeld ==
  ASSUME NEW es, NEW hs
  PROVE  Idle \in TaskSet /\ TaskHeld(Idle, es, hs)
<1>1. NoSnapshot \in SnapshotSet
  BY DEF NoSnapshot, SnapshotSet
<1>2. Nothing \in Readings
  BY DEF Nothing, Readings, Rows
<1>3. Idle \in TaskSet
  BY <1>1, <1>2 DEF Idle, TaskSet, Steps
<1>4. Replayed(Idle.seen) /\ Honest(Idle.checkpoint) /\ Honest(Idle.next)
  BY DEF Idle, NoSnapshot, Replayed, Honest
<1>5. RevisionHeld(Idle, es) /\ CheckpointHeld(Idle, hs) /\ FingerprintHeld(Idle, hs)
  BY DEF Idle, RevisionHeld, CheckpointHeld, FingerprintHeld
<1>. QED
  BY <1>3, <1>4, <1>5 DEF TaskHeld

(* A task keeps what it relies on while exposures are added and events are *)
(* applied: an event that is applied makes its revision another one.       *)
LEMMA TaskKept ==
  ASSUME NEW es, NEW fs, es \subseteq fs, NEW hs, NEW gs, hs \subseteq gs,
         NEW t, TaskHeld(t, es, hs)
  PROVE  TaskHeld(t, fs, gs)
<1>1. RevisionHeld(t, fs)
  <2>1. RevisionHeld(t, es)
    BY DEF TaskHeld
  <2>2. CASE t.pc \in {"apy", "confirm", "publish", "bracket"} /\ t.revision.applied = fs
    <3>1. t.revision.applied = es /\ fs = es
      BY <2>1, <2>2 DEF RevisionHeld
    <3>. QED
      BY <2>1, <3>1
  <2>3. CASE ~(t.pc \in {"apy", "confirm", "publish", "bracket"} /\ t.revision.applied = fs)
    BY <2>1, <2>3 DEF RevisionHeld
  <2>. QED
    BY <2>2, <2>3
<1>2. CheckpointHeld(t, gs)
  <2>1. CheckpointHeld(t, hs)
    BY DEF TaskHeld
  <2>2. Before(hs, t.checkpoint.at) \subseteq Before(gs, t.checkpoint.at)
    BY BeforeGrows
  <2>. QED
    BY <2>1, <2>2 DEF CheckpointHeld
<1>3. FingerprintHeld(t, gs)
  <2>1. FingerprintHeld(t, hs)
    BY DEF TaskHeld
  <2>2. Before(hs, earningsCheckpointTime(t.at)) \subseteq Before(gs, earningsCheckpointTime(t.at))
    BY BeforeGrows
  <2>. QED
    BY <2>1, <2>2 DEF FingerprintHeld
<1>. QED
  BY <1>1, <1>2, <1>3 DEF TaskHeld

(* A step of the world that only adds rows or applies an event.            *)
LEMMA WorldStep ==
  ASSUME CacheInv,
         source["history"] \subseteq source'["history"],
         applied \subseteq applied',
         TypeOK', UNCHANGED <<stored, task>>
  PROVE  CacheInv'
<1>1. ASSUME NEW p \in Tasks PROVE TaskHeld(task'[p], applied', source'["history"])
  <2>1. TaskHeld(task[p], applied, source["history"])
    BY DEF CacheInv
  <2>2. TaskHeld(task[p], applied', source'["history"])
    BY <2>1, TaskKept
  <2>. QED
    BY <2>2
<1>2. Replayed(stored')
  BY DEF CacheInv
<1>. QED
  BY <1>1, <1>2 DEF CacheInv

(* A step of one task to t, while the sources and positions stand still.   *)
LEMMA TaskStep ==
  ASSUME CacheInv, NEW p \in Tasks,
         NEW t \in TaskSet, TaskHeld(t, applied, source["history"]),
         task' = [task EXCEPT ![p] = t],
         UNCHANGED world,
         stored' \in SnapshotSet, Replayed(stored'),
         lock' \in Tasks \cup {None}, failures' \in 0 .. MaxFailures
  PROVE  CacheInv'
<1>. USE DEF world
<1>1. TypeOK'
  BY DEF CacheInv, TypeOK
<1>2. ASSUME NEW q \in Tasks PROVE TaskHeld(task'[q], applied', source'["history"])
  <2>1. task'[q] = IF q = p THEN t ELSE task[q]
    BY DEF CacheInv, TypeOK
  <2>2. TaskHeld(task[q], applied, source["history"])
    BY DEF CacheInv
  <2>. QED
    BY <2>1, <2>2
<1>. QED
  BY <1>1, <1>2 DEF CacheInv

LEMMA TaskFacts ==
  ASSUME CacheInv, NEW p \in Tasks
  PROVE  /\ task[p] \in TaskSet
         /\ TaskHeld(task[p], applied, source["history"])
BY DEF CacheInv, TypeOK

(* Go, Without and Done keep the invariant if the task's new state does.   *)
LEMMA StepKinds ==
  ASSUME CacheInv, NEW p \in Tasks,
         NEW t \in TaskSet, TaskHeld(t, applied, source["history"]),
         \/ Go(p, t)
         \/ Without(p, t)
         \/ Done(p) /\ t = Idle
         \/ Fail(p) /\ t = Idle
  PROVE  CacheInv'
<1>1. /\ lock \in Tasks \cup {None} /\ stored \in SnapshotSet /\ Replayed(stored)
      /\ failures \in 0 .. MaxFailures /\ MaxFailures \in Nat
  BY TimeAssumption DEF CacheInv, TypeOK
<1>2. Released(p) \in Tasks \cup {None}
  BY <1>1 DEF Released
<1>3. /\ task' = [task EXCEPT ![p] = t] /\ UNCHANGED world /\ stored' = stored
      /\ lock' \in Tasks \cup {None}
  BY <1>1, <1>2 DEF Go, Without, Done, Fail, Finish
<1>4. failures' \in 0 .. MaxFailures
  BY <1>1 DEF Go, Without, Done, Fail, Finish
<1>. QED
  BY <1>1, <1>3, <1>4, TaskStep

(* Until it has read the revision a task relies on its copies only.        *)
LEMMA EarlyHeld ==
  ASSUME NEW es, NEW hs, NEW t,
         t.pc \in {"idle", "decide", "lock", "latest", "recheck", "own", "revision"},
         Replayed(t.seen), Honest(t.checkpoint), Honest(t.next)
  PROVE  TaskHeld(t, es, hs)
BY DEF TaskHeld, RevisionHeld, CheckpointHeld, FingerprintHeld

LEMMA BegunHeld ==
  ASSUME CacheInv, NEW use \in BOOLEAN
  PROVE  Begun(use) \in TaskSet /\ TaskHeld(Begun(use), applied, source["history"])
<1>1. Idle \in TaskSet
  BY IdleHeld
<1>2. clock \in Int
  BY TimeAssumption DEF CacheInv, TypeOK
<1>3. Begun(use) \in TaskSet
  BY <1>1, <1>2 DEF Begun, TaskSet, Steps
<1>4. /\ Begun(use).pc = "own" /\ Begun(use).seen = NoSnapshot
      /\ Begun(use).checkpoint = None /\ Begun(use).next = None
  BY DEF Begun, Idle
<1>5. Replayed(NoSnapshot) /\ Honest(None)
  BY DEF Replayed, Honest, NoSnapshot
<1>. QED
  BY <1>3, <1>4, <1>5, EarlyHeld

-----------------------------------------------------------------------------
(* The steps around the calculation.                                       *)

LEMMA AskStep ==
  ASSUME CacheInv, NEW p \in Tasks, Ask(p)
  PROVE  CacheInv'
<1>. DEFINE t == [Idle EXCEPT !.pc = "decide", !.seen = stored]
<1>1. Idle \in TaskSet /\ stored \in SnapshotSet /\ Replayed(stored)
  BY IdleHeld DEF CacheInv, TypeOK
<1>2. t \in TaskSet
  BY <1>1 DEF TaskSet, Steps
<1>3. t.pc = "decide" /\ t.seen = stored /\ t.checkpoint = None /\ t.next = None
  BY DEF Idle
<1>4. Go(p, t)
  BY DEF Ask
<1>. HIDE DEF t
<1>5. TaskHeld(t, applied, source["history"])
  BY <1>1, <1>3, EarlyHeld DEF Honest
<1>. QED
  BY <1>2, <1>4, <1>5, StepKinds

LEMMA LatestStep ==
  ASSUME CacheInv, NEW p \in Tasks, LoadLatest(p)
  PROVE  CacheInv'
<1>. DEFINE t == [Idle EXCEPT !.pc = "recheck", !.seen = stored]
<1>1. Idle \in TaskSet /\ stored \in SnapshotSet /\ Replayed(stored)
  BY IdleHeld DEF CacheInv, TypeOK
<1>2. t \in TaskSet
  BY <1>1 DEF TaskSet, Steps
<1>3. t.pc = "recheck" /\ t.seen = stored /\ t.checkpoint = None /\ t.next = None
  BY DEF Idle
<1>4. Go(p, t)
  BY DEF LoadLatest
<1>. HIDE DEF t
<1>5. TaskHeld(t, applied, source["history"])
  BY <1>1, <1>3, EarlyHeld DEF Honest
<1>. QED
  BY <1>2, <1>4, <1>5, StepKinds

LEMMA DecideStep ==
  ASSUME CacheInv, NEW p \in Tasks, Decide(p)
  PROVE  CacheInv'
<1>. DEFINE t == [Idle EXCEPT !.pc = "lock"]
<1>1. Idle \in TaskSet /\ TaskHeld(Idle, applied, source["history"])
  BY IdleHeld
<1>2. t \in TaskSet
  BY <1>1 DEF TaskSet, Steps
<1>3. t.pc = "lock" /\ t.seen = NoSnapshot /\ t.checkpoint = None /\ t.next = None
  BY DEF Idle
<1>4. Go(p, Idle) \/ Go(p, t)
  BY DEF Decide
<1>. HIDE DEF t
<1>5. TaskHeld(t, applied, source["history"])
  <2>1. Replayed(NoSnapshot) /\ Honest(None)
    BY DEF Honest, Replayed, NoSnapshot
  <2>. QED
    BY <1>3, <2>1, EarlyHeld
<1>. QED
  BY <1>1, <1>2, <1>4, <1>5, StepKinds

LEMMA LockStep ==
  ASSUME CacheInv, NEW p \in Tasks, TryLock(p)
  PROVE  CacheInv'
<1>. DEFINE t == [task[p] EXCEPT !.pc = "latest"]
<1>1. Idle \in TaskSet /\ TaskHeld(Idle, applied, source["history"])
  BY IdleHeld
<1>2. CASE Go(p, Idle)
  BY <1>1, <1>2, StepKinds
<1>3. CASE /\ lock' = p /\ task' = [task EXCEPT ![p].pc = "latest"]
           /\ UNCHANGED <<world, stored, failures>>
  <2>1. task[p] \in TaskSet /\ TaskHeld(task[p], applied, source["history"])
    BY TaskFacts
  <2>2. t \in TaskSet /\ t.pc = "latest" /\ t.seen = task[p].seen
        /\ t.checkpoint = task[p].checkpoint /\ t.next = task[p].next
    BY <2>1 DEF TaskSet, Steps
  <2>3. task' = [task EXCEPT ![p] = t]
    BY <1>3
  <2>. HIDE DEF t
  <2>4. TaskHeld(t, applied, source["history"])
    BY <2>1, <2>2, EarlyHeld DEF TaskHeld
  <2>5. stored' \in SnapshotSet /\ Replayed(stored') /\ failures' \in 0 .. MaxFailures
    BY <1>3 DEF CacheInv, TypeOK
  <2>. QED
    BY <1>3, <2>2, <2>3, <2>4, <2>5, TaskStep
<1>. QED
  BY <1>2, <1>3 DEF TryLock

LEMMA RecheckStep ==
  ASSUME CacheInv, NEW p \in Tasks, Recheck(p) \/ ReadUnlocked(p)
  PROVE  CacheInv'
<1>1. Idle \in TaskSet /\ TaskHeld(Idle, applied, source["history"])
  BY IdleHeld
<1>2. Begun(TRUE) \in TaskSet /\ TaskHeld(Begun(TRUE), applied, source["history"])
  BY BegunHeld
<1>3. Done(p) \/ Go(p, Begun(TRUE))
  BY DEF Recheck, ReadUnlocked
<1>. QED
  BY <1>1, <1>2, <1>3, StepKinds

LEMMA FailStep ==
  ASSUME CacheInv, NEW p \in Tasks, Fail(p)
  PROVE  CacheInv'
BY IdleHeld, StepKinds

-----------------------------------------------------------------------------
(* The steps of the calculation.                                           *)

LEMMA OwnStep ==
  ASSUME CacheInv, NEW p \in Tasks, LoadOwn(p)
  PROVE  CacheInv'
<1>. DEFINE o == task[p]
            cp == stored.checkpoint
            usable == cp # None /\ o.useCheckpoint /\ cp.at <= o.at
            t == [o EXCEPT !.pc = "revision", !.useCheckpoint = TRUE]
            u == [t EXCEPT !.checkpoint = IF usable THEN cp ELSE None]
<1>1. o \in TaskSet /\ Replayed(o.seen) /\ Honest(o.checkpoint) /\ Honest(o.next)
  BY TaskFacts DEF TaskHeld
<1>2. cp \in Checkpoints \cup {None} /\ Honest(cp) /\ Honest(None)
  BY DEF CacheInv, TypeOK, SnapshotSet, Replayed, Honest
<1>3. Go(p, u) \/ Without(p, t)
  BY DEF LoadOwn
<1>. HIDE DEF o, cp, usable
<1>4. /\ t \in TaskSet /\ t.pc = "revision" /\ t.seen = o.seen
      /\ t.checkpoint = o.checkpoint /\ t.next = o.next
  BY <1>1 DEF TaskSet, Steps
<1>5. /\ u \in TaskSet /\ u.pc = "revision" /\ u.seen = o.seen
      /\ u.checkpoint \in {cp, None} /\ u.next = o.next
  BY <1>1, <1>2 DEF TaskSet, Steps
<1>. HIDE DEF t, u
<1>6. TaskHeld(t, applied, source["history"])
  BY <1>1, <1>4, EarlyHeld
<1>7. TaskHeld(u, applied, source["history"])
  BY <1>1, <1>2, <1>5, EarlyHeld
<1>. QED
  BY <1>3, <1>4, <1>5, <1>6, <1>7, StepKinds

LEMMA RevisionStep ==
  ASSUME CacheInv, NEW p \in Tasks, LoadRevision(p)
  PROVE  CacheInv'
<1>. DEFINE o == task[p]
            t == [o EXCEPT !.pc = "ledger", !.revision = Revision]
<1>1. o \in TaskSet /\ Replayed(o.seen) /\ Honest(o.checkpoint) /\ Honest(o.next)
  BY TaskFacts DEF TaskHeld
<1>2. Revision \in Revisions /\ Revision # None /\ Revision.applied = applied
  BY NoneAssumption DEF CacheInv, TypeOK, Revision, Revisions
<1>3. Go(p, t)
  BY DEF LoadRevision
<1>. HIDE DEF o
<1>4. /\ t \in TaskSet /\ t.pc = "ledger" /\ t.seen = o.seen /\ t.revision = Revision
      /\ t.checkpoint = o.checkpoint /\ t.next = o.next
  BY <1>1, <1>2 DEF TaskSet, Steps
<1>. HIDE DEF t
<1>5. RevisionHeld(t, applied)
  BY <1>2, <1>4 DEF RevisionHeld
<1>6. CheckpointHeld(t, source["history"]) /\ FingerprintHeld(t, source["history"])
  BY <1>4 DEF CheckpointHeld, FingerprintHeld
<1>7. TaskHeld(t, applied, source["history"])
  BY <1>1, <1>4, <1>5, <1>6 DEF TaskHeld
<1>. QED
  BY <1>3, <1>4, <1>7, StepKinds

LEMMA LedgerStep ==
  ASSUME CacheInv, NEW p \in Tasks, LoadLedger(p)
  PROVE  CacheInv'
<1>. DEFINE o == task[p]
            cp == o.checkpoint
            kept == cp # None /\ SameLedger(cp)
            t == [o EXCEPT !.pc = IF kept THEN "verify" ELSE "next",
                           !.checkpoint = IF kept THEN cp ELSE None,
                           !.read["ledger"] = source["ledger"]]
<1>1. /\ o \in TaskSet /\ Replayed(o.seen) /\ Honest(cp) /\ Honest(o.next)
      /\ RevisionHeld(o, applied) /\ o.pc = "ledger"
  BY TaskFacts DEF TaskHeld, LoadLedger, At
<1>2. source \in Readings /\ source["ledger"] \in Rows
  BY DEF CacheInv, TypeOK, Readings, Sources
<1>3. Go(p, t)
  BY DEF LoadLedger
<1>. HIDE DEF o
<1>4. /\ t \in TaskSet /\ t.seen = o.seen /\ t.revision = o.revision /\ t.next = o.next
      /\ t.read["ledger"] = source["ledger"]
      /\ \/ kept /\ t.pc = "verify" /\ t.checkpoint = cp
         \/ t.pc = "next" /\ t.checkpoint = None
  BY <1>1, <1>2 DEF TaskSet, Steps, Readings, Sources
<1>. HIDE DEF t
<1>5. RevisionHeld(t, applied)
  BY <1>1, <1>4 DEF RevisionHeld
<1>6. CheckpointHeld(t, source["history"])
  BY <1>4 DEF CheckpointHeld, SameLedger
<1>7. FingerprintHeld(t, source["history"])
  BY <1>4 DEF FingerprintHeld
<1>8. Honest(t.checkpoint)
  BY <1>1, <1>4 DEF Honest
<1>9. TaskHeld(t, applied, source["history"])
  BY <1>1, <1>4, <1>5, <1>6, <1>7, <1>8 DEF TaskHeld
<1>. QED
  BY <1>3, <1>4, <1>9, StepKinds

LEMMA VerifyStep ==
  ASSUME CacheInv, NEW p \in Tasks, Verify(p)
  PROVE  CacheInv'
<1>. DEFINE o == task[p]
            t == [o EXCEPT !.pc = "next"]
            u == [t EXCEPT !.checkpoint = None]
<1>1. /\ o \in TaskSet /\ Replayed(o.seen) /\ Honest(o.checkpoint) /\ Honest(o.next)
      /\ RevisionHeld(o, applied) /\ CheckpointHeld(o, source["history"]) /\ o.pc = "verify"
  BY TaskFacts DEF TaskHeld, Verify, At
<1>2. \/ SameHistory(t.checkpoint) /\ Go(p, t)
      \/ Go(p, u)
      \/ Without(p, u)
  BY DEF Verify
<1>. HIDE DEF o
<1>3. /\ t \in TaskSet /\ t.seen = o.seen /\ t.revision = o.revision /\ t.next = o.next
      /\ t.pc = "next" /\ t.checkpoint = o.checkpoint /\ t.read = o.read
  BY <1>1 DEF TaskSet, Steps
<1>4. /\ u \in TaskSet /\ u.seen = o.seen /\ u.revision = o.revision /\ u.next = o.next
      /\ u.pc = "next" /\ u.checkpoint = None
  BY <1>1 DEF TaskSet, Steps
<1>. HIDE DEF t, u
<1>5. TaskHeld(u, applied, source["history"])
  BY <1>1, <1>4 DEF TaskHeld, RevisionHeld, CheckpointHeld, FingerprintHeld, Honest
<1>6. ASSUME SameHistory(t.checkpoint) PROVE TaskHeld(t, applied, source["history"])
  <2>1. RevisionHeld(t, applied) /\ FingerprintHeld(t, source["history"])
    BY <1>1, <1>3 DEF RevisionHeld, FingerprintHeld
  <2>2. CheckpointHeld(t, source["history"])
    BY <1>1, <1>3, <1>6 DEF CheckpointHeld, SameHistory
  <2>. QED
    BY <1>1, <1>3, <2>1, <2>2 DEF TaskHeld
<1>. QED
  BY <1>2, <1>3, <1>4, <1>5, <1>6, StepKinds

LEMMA NextFingerprintStep ==
  ASSUME CacheInv, NEW p \in Tasks, LoadNextFingerprint(p)
  PROVE  CacheInv'
<1>. DEFINE o == task[p]
            m == earningsCheckpointTime(o.at)
            print == [rows |-> Before(source["history"], m)]
            t == [o EXCEPT !.pc = "history", !.nextHistory = None]
            u == [t EXCEPT !.nextHistory = print]
<1>1. /\ o \in TaskSet /\ Replayed(o.seen) /\ Honest(o.checkpoint) /\ Honest(o.next)
      /\ RevisionHeld(o, applied) /\ CheckpointHeld(o, source["history"]) /\ o.pc = "next"
  BY TaskFacts DEF TaskHeld, LoadNextFingerprint, At
<1>2. o.at \in Int /\ source["history"] \in Rows
  BY <1>1 DEF TaskSet, CacheInv, TypeOK, Readings, Sources
<1>3. print \in Fingerprints
  BY <1>2, CheckpointTimeType, Split DEF Fingerprints
<1>4. Go(p, u) \/ Without(p, t)
  BY DEF LoadNextFingerprint
<1>. HIDE DEF o
<1>5. /\ t \in TaskSet /\ t.seen = o.seen /\ t.revision = o.revision /\ t.next = o.next
      /\ t.pc = "history" /\ t.checkpoint = o.checkpoint /\ t.read = o.read
      /\ t.nextHistory = None
  BY <1>1 DEF TaskSet, Steps
<1>6. /\ u \in TaskSet /\ u.seen = o.seen /\ u.revision = o.revision /\ u.next = o.next
      /\ u.pc = "history" /\ u.checkpoint = o.checkpoint /\ u.read = o.read /\ u.at = o.at
      /\ u.nextHistory.rows = Before(source["history"], m)
  BY <1>1, <1>3 DEF TaskSet, Steps
<1>. HIDE DEF t, u
<1>7. FingerprintHeld(t, source["history"]) /\ FingerprintHeld(u, source["history"])
  BY <1>5, <1>6 DEF FingerprintHeld
<1>8. TaskHeld(t, applied, source["history"])
  BY <1>1, <1>5, <1>7 DEF TaskHeld, RevisionHeld, CheckpointHeld
<1>9. TaskHeld(u, applied, source["history"])
  BY <1>1, <1>6, <1>7 DEF TaskHeld, RevisionHeld, CheckpointHeld
<1>. QED
  BY <1>4, <1>5, <1>6, <1>8, <1>9, StepKinds

LEMMA HistoryStep ==
  ASSUME CacheInv, NEW p \in Tasks, LoadHistory(p)
  PROVE  CacheInv'
<1>. DEFINE o == task[p]
            t == [o EXCEPT !.pc = "apy", !.read["history"] = source["history"]]
<1>1. /\ o \in TaskSet /\ Replayed(o.seen) /\ Honest(o.checkpoint) /\ Honest(o.next)
      /\ RevisionHeld(o, applied) /\ CheckpointHeld(o, source["history"])
      /\ FingerprintHeld(o, source["history"]) /\ o.pc = "history"
  BY TaskFacts DEF TaskHeld, LoadHistory, At
<1>2. source["history"] \in Rows
  BY DEF CacheInv, TypeOK, Readings, Sources
<1>3. Done(p) \/ (Reconciles(o) /\ Go(p, t))
  BY DEF LoadHistory
<1>. HIDE DEF o
<1>4. /\ t \in TaskSet /\ t.seen = o.seen /\ t.revision = o.revision /\ t.next = o.next
      /\ t.pc = "apy" /\ t.checkpoint = o.checkpoint /\ t.at = o.at
      /\ t.nextHistory = o.nextHistory
      /\ t.read["ledger"] = o.read["ledger"] /\ t.read["history"] = source["history"]
  BY <1>1, <1>2 DEF TaskSet, Steps, Readings, Sources
<1>. HIDE DEF t
<1>5. ASSUME Reconciles(o) PROVE TaskHeld(t, applied, source["history"])
  <2>1. Effective(t) = Effective(o)
    BY <1>4 DEF Effective
  <2>2. RevisionHeld(t, applied)
    BY <1>1, <1>4, <1>5, <2>1 DEF RevisionHeld, Reconciles
  <2>3. CheckpointHeld(t, source["history"]) /\ FingerprintHeld(t, source["history"])
    BY <1>1, <1>4 DEF CheckpointHeld, FingerprintHeld
  <2>. QED
    BY <1>1, <1>4, <2>2, <2>3 DEF TaskHeld
<1>. QED
  BY <1>3, <1>4, <1>5, IdleHeld, StepKinds

LEMMA ApyStep ==
  ASSUME CacheInv, NEW p \in Tasks, LoadApy(p)
  PROVE  CacheInv'
<1>. DEFINE o == task[p]
            cp == o.checkpoint
            t == [o EXCEPT !.pc = IF cp = None THEN "publish" ELSE "confirm",
                           !.read["apy"] = source["apy"]]
<1>1. /\ o \in TaskSet /\ Replayed(o.seen) /\ Honest(cp) /\ Honest(o.next)
      /\ RevisionHeld(o, applied) /\ CheckpointHeld(o, source["history"])
      /\ FingerprintHeld(o, source["history"]) /\ o.pc = "apy"
  BY TaskFacts DEF TaskHeld, LoadApy, At
<1>2. source["apy"] \in Rows
  BY DEF CacheInv, TypeOK, Readings, Sources
<1>3. \/ Go(p, Begun(FALSE))
      \/ (cp # None => SameApy(cp)) /\ Go(p, t)
  BY DEF LoadApy
<1>. HIDE DEF o
<1>4. /\ t \in TaskSet /\ t.seen = o.seen /\ t.revision = o.revision /\ t.next = o.next
      /\ t.checkpoint = cp /\ t.at = o.at /\ t.nextHistory = o.nextHistory
      /\ t.read["ledger"] = o.read["ledger"] /\ t.read["history"] = o.read["history"]
      /\ t.read["apy"] = source["apy"]
      /\ \/ cp = None /\ t.pc = "publish"
         \/ cp # None /\ t.pc = "confirm"
  BY <1>1, <1>2 DEF TaskSet, Steps, Readings, Sources
<1>. HIDE DEF t
<1>5. ASSUME cp # None => SameApy(cp) PROVE TaskHeld(t, applied, source["history"])
  <2>1. Effective(t) = Effective(o)
    BY <1>4 DEF Effective
  <2>2. RevisionHeld(t, applied)
    BY <1>1, <1>4, <2>1 DEF RevisionHeld
  <2>3. CheckpointHeld(t, source["history"])
    BY <1>1, <1>4, <1>5 DEF CheckpointHeld, SameApy
  <2>4. FingerprintHeld(t, source["history"])
    BY <1>1, <1>4 DEF FingerprintHeld
  <2>. QED
    BY <1>1, <1>4, <2>2, <2>3, <2>4 DEF TaskHeld
<1>. QED
  BY <1>3, <1>4, <1>5, BegunHeld, StepKinds

(* The history read between the two comparisons lies between what both     *)
(* found, so it is what both found.                                        *)
LEMMA ConfirmStep ==
  ASSUME CacheInv, NEW p \in Tasks, Confirm(p)
  PROVE  CacheInv'
<1>. DEFINE o == task[p]
            cp == o.checkpoint
            t == [o EXCEPT !.pc = "publish"]
<1>1. /\ o \in TaskSet /\ Replayed(o.seen) /\ Honest(cp) /\ Honest(o.next)
      /\ RevisionHeld(o, applied) /\ CheckpointHeld(o, source["history"])
      /\ FingerprintHeld(o, source["history"]) /\ o.pc = "confirm"
  BY TaskFacts DEF TaskHeld, Confirm, At
<1>2. \/ SameHistory(cp) /\ Go(p, t)
      \/ Go(p, Begun(FALSE))
      \/ Without(p, Begun(FALSE))
  BY DEF Confirm
<1>. HIDE DEF o
<1>3. /\ t \in TaskSet /\ t.seen = o.seen /\ t.revision = o.revision /\ t.next = o.next
      /\ t.checkpoint = cp /\ t.at = o.at /\ t.nextHistory = o.nextHistory
      /\ t.read = o.read /\ t.pc = "publish"
  BY <1>1 DEF TaskSet, Steps
<1>. HIDE DEF t
<1>4. ASSUME SameHistory(cp) PROVE TaskHeld(t, applied, source["history"])
  <2>1. Effective(t) = Effective(o)
    BY <1>3 DEF Effective
  <2>2. RevisionHeld(t, applied)
    BY <1>1, <1>3, <2>1 DEF RevisionHeld
  <2>3. FingerprintHeld(t, source["history"])
    BY <1>1, <1>3 DEF FingerprintHeld
  <2>4. Before(o.read["history"], cp.at) \subseteq Before(source["history"], cp.at)
    BY <1>1, BeforeGrows DEF FingerprintHeld
  <2>5. ASSUME cp # None PROVE cp.prints["history"] = Before(o.read["history"], cp.at)
    BY <1>1, <1>4, <2>4, <2>5 DEF CheckpointHeld, SameHistory
  <2>6. CheckpointHeld(t, source["history"])
    BY <1>1, <1>3, <2>5 DEF CheckpointHeld
  <2>. QED
    BY <1>1, <1>3, <2>2, <2>3, <2>6 DEF TaskHeld
<1>. QED
  BY <1>2, <1>3, <1>4, BegunHeld, StepKinds

(* Once the checkpoint is confirmed, its totals and the rows since are the *)
(* rows a full calculation would use.                                      *)
LEMMA UsedIsRead ==
  ASSUME NEW t \in TaskSet, NEW hs, Honest(t.checkpoint), CheckpointHeld(t, hs),
         t.pc \in {"publish", "bracket"}
  PROVE  Used(t) = t.read
<1>. DEFINE cp == t.checkpoint
<1>1. t.read \in Readings /\ cp \in Checkpoints \cup {None}
  BY DEF TaskSet
<1>2. CASE cp = None
  BY <1>2 DEF Used
<1>3. CASE cp # None
  <2>1. cp.at \in Int
    BY <1>1, <1>3 DEF Checkpoints
  <2>2. ASSUME NEW s \in Sources
        PROVE  cp.ranges[s] \cup From(t.read[s], cp.at) = t.read[s]
    <3>1. t.read[s] \in Rows
      BY <1>1 DEF Readings
    <3>2. cp.ranges[s] = Before(t.read[s], cp.at)
      BY <1>3 DEF Honest, CheckpointHeld, Sources
    <3>. QED
      BY <2>1, <3>1, <3>2, Split
  <2>3. Used(t) = [s \in Sources |-> cp.ranges[s] \cup From(t.read[s], cp.at)]
    BY <1>3 DEF Used
  <2>. HIDE DEF cp
  <2>. QED
    BY <1>1, <2>2, <2>3 DEF Readings
<1>. QED
  BY <1>2, <1>3

LEMMA RangesType ==
  ASSUME NEW t \in TaskSet, Used(t) = t.read, NEW m \in Int
  PROVE  /\ Ranges(t, m) = [s \in Sources |-> Before(t.read[s], m)]
         /\ Ranges(t, m) \in Readings
<1>1. t.read \in Readings
  BY DEF TaskSet
<1>2. ASSUME NEW s \in Sources PROVE Before(t.read[s], m) \in Rows
  BY <1>1, Split DEF Readings
<1>3. Ranges(t, m) = [s \in Sources |-> Before(t.read[s], m)]
  BY DEF Ranges
<1>. QED
  BY <1>2, <1>3 DEF Readings

(* A checkpoint made of a calculation whose history stood still.           *)
LEMMA NewCheckpointHonest ==
  ASSUME CacheInv, NEW t \in TaskSet, t.pc = "publish", Honest(t.checkpoint),
         CheckpointHeld(t, source["history"]), FingerprintHeld(t, source["history"]),
         Steady(t, earningsCheckpointTime(t.at))
  PROVE  NewCheckpoint(t) \in Checkpoints /\ Honest(NewCheckpoint(t))
<1>. DEFINE m == earningsCheckpointTime(t.at)
            rows(s) == IF s = "history" THEN t.nextHistory.rows ELSE Before(t.read[s], m)
<1>1. m \in Int /\ t.read \in Readings
  BY CheckpointTimeType DEF TaskSet
<1>2. Used(t) = t.read
  BY UsedIsRead
<1>3. t.nextHistory # None
  BY NoneAssumption, <1>1, Split DEF Steady, Fingerprints, CacheInv, TypeOK, Readings, Sources
<1>4. t.nextHistory.rows = Before(t.read["history"], m)
  <2>1. t.nextHistory.rows = Before(source["history"], m)
    BY DEF Steady
  <2>2. t.nextHistory.rows \subseteq Before(t.read["history"], m)
    BY <1>3 DEF FingerprintHeld
  <2>3. Before(t.read["history"], m) \subseteq Before(source["history"], m)
    BY BeforeGrows DEF FingerprintHeld
  <2>. QED
    BY <2>1, <2>2, <2>3
<1>. HIDE DEF m
<1>5. [s \in Sources |-> rows(s)] = [s \in Sources |-> Before(t.read[s], m)]
  BY <1>4
<1>6. Ranges(t, m) = [s \in Sources |-> Before(t.read[s], m)] /\ Ranges(t, m) \in Readings
  BY <1>1, <1>2, RangesType
<1>7. NewCheckpoint(t) = [at |-> m, ranges |-> Ranges(t, m), prints |-> Ranges(t, m)]
  BY <1>5, <1>6 DEF NewCheckpoint, m
<1>. QED
  BY <1>1, <1>6, <1>7 DEF Checkpoints, Honest

LEMMA CheckpointStep ==
  ASSUME CacheInv, NEW p \in Tasks, MakeCheckpoint(p)
  PROVE  CacheInv'
<1>. DEFINE o == task[p]
            m == earningsCheckpointTime(o.at)
            kept == IF o.checkpoint # None /\ o.checkpoint.at = m THEN o.checkpoint ELSE None
            new == IF Steady(o, m) THEN NewCheckpoint(o) ELSE kept
            t(cp) == [o EXCEPT !.pc = "bracket", !.nextHistory = None, !.next = cp]
<1>1. /\ o \in TaskSet /\ Replayed(o.seen) /\ Honest(o.checkpoint)
      /\ RevisionHeld(o, applied) /\ CheckpointHeld(o, source["history"])
      /\ FingerprintHeld(o, source["history"]) /\ o.pc = "publish"
  BY TaskFacts DEF TaskHeld, MakeCheckpoint, At
<1>2. Go(p, t(new)) \/ Without(p, t(kept))
  BY DEF MakeCheckpoint
<1>3. kept \in Checkpoints \cup {None} /\ Honest(kept)
  BY <1>1 DEF TaskSet, Honest
<1>4. new \in Checkpoints \cup {None} /\ Honest(new)
  BY <1>1, <1>3, NewCheckpointHonest
<1>. HIDE DEF o, kept, new
<1>5. ASSUME NEW cp \in Checkpoints \cup {None}, Honest(cp)
      PROVE  t(cp) \in TaskSet /\ TaskHeld(t(cp), applied, source["history"])
  <2>. DEFINE u == t(cp)
  <2>1. /\ u \in TaskSet /\ u.pc = "bracket" /\ u.seen = o.seen /\ u.next = cp
        /\ u.revision = o.revision /\ u.checkpoint = o.checkpoint /\ u.at = o.at
        /\ u.read = o.read
    BY <1>1 DEF TaskSet, Steps
  <2>. HIDE DEF u
  <2>2. Effective(u) = Effective(o)
    BY <2>1 DEF Effective
  <2>3. RevisionHeld(u, applied)
    BY <1>1, <2>1, <2>2 DEF RevisionHeld
  <2>4. CheckpointHeld(u, source["history"]) /\ FingerprintHeld(u, source["history"])
    BY <1>1, <2>1 DEF CheckpointHeld, FingerprintHeld
  <2>5. u \in TaskSet /\ TaskHeld(u, applied, source["history"])
    BY <1>1, <1>5, <2>1, <2>3, <2>4 DEF TaskHeld
  <2>. QED
    BY <2>5 DEF u
<1>. HIDE DEF t
<1>. QED
  BY <1>2, <1>3, <1>4, <1>5, StepKinds

(* The revision that is saved is the one before and after the calculation. *)
LEMMA BracketStep ==
  ASSUME CacheInv, NEW p \in Tasks, Bracket(p)
  PROVE  CacheInv'
<1>. DEFINE o == task[p]
            r == Bracketed(o)
            t == [Idle EXCEPT !.pc = "save", !.at = o.at, !.revision = r, !.next = o.next,
                              !.read["ledger"] = o.read["ledger"]]
<1>1. /\ o \in TaskSet /\ Honest(o.next) /\ RevisionHeld(o, applied) /\ o.pc = "bracket"
  BY TaskFacts DEF TaskHeld, Bracket, At
<1>2. r \in Revisions \cup {None} /\ (r # None => o.revision = r /\ r.applied = applied)
  BY DEF Bracketed, Revision, Revisions, CacheInv, TypeOK
<1>3. Go(p, t)
  BY DEF Bracket
<1>4. Idle \in TaskSet /\ Replayed(Idle.seen) /\ Honest(Idle.checkpoint)
  BY IdleHeld DEF TaskHeld
<1>. HIDE DEF o, r
<1>5. /\ t \in TaskSet /\ t.pc = "save" /\ t.seen = Idle.seen /\ t.next = o.next
      /\ t.revision = r /\ t.checkpoint = Idle.checkpoint /\ t.at = o.at
      /\ t.read["ledger"] = o.read["ledger"]
  <2>1. "ledger" \in Sources /\ o.read["ledger"] \in Rows /\ o.at \in Int
        /\ o.next \in Checkpoints \cup {None}
    BY <1>1 DEF TaskSet, Readings, Sources
  <2>. QED
    BY <1>2, <1>4, <2>1 DEF TaskSet, Steps, Readings
<1>. HIDE DEF t
<1>6. Effective(t) = Effective(o)
  BY <1>5 DEF Effective
<1>7. RevisionHeld(t, applied)
  BY <1>1, <1>2, <1>5, <1>6 DEF RevisionHeld
<1>8. CheckpointHeld(t, source["history"]) /\ FingerprintHeld(t, source["history"])
  BY <1>5 DEF CheckpointHeld, FingerprintHeld
<1>9. TaskHeld(t, applied, source["history"])
  BY <1>1, <1>4, <1>5, <1>7, <1>8 DEF TaskHeld
<1>. QED
  BY <1>3, <1>5, <1>9, StepKinds

LEMMA SaveStep ==
  ASSUME CacheInv, NEW p \in Tasks, Save(p)
  PROVE  CacheInv'
<1>. DEFINE o == task[p]
            row == [generatedAt |-> o.at, revision |-> o.revision,
                    events |-> Effective(o), checkpoint |-> o.next]
<1>1. /\ o \in TaskSet /\ Honest(o.next) /\ RevisionHeld(o, applied) /\ o.pc = "save"
  BY TaskFacts DEF TaskHeld, Save, At
<1>2. stored' = IF stored.generatedAt <= o.at THEN row ELSE stored
  BY DEF Save
<1>3. task' = [task EXCEPT ![p] = Idle] /\ lock' = Released(p) /\ UNCHANGED <<world, failures>>
  BY DEF Save, Finish
<1>. HIDE DEF o
<1>4. Effective(o) \in SUBSET Ids
  <2>1. o.read["ledger"] \in Rows /\ o.at + 1 \in Int
    BY <1>1 DEF TaskSet, Readings, Sources
  <2>. QED
    BY <2>1, Split, EventsType DEF Effective
<1>5. row \in SnapshotSet /\ Replayed(row)
  BY <1>1, <1>4 DEF TaskSet, SnapshotSet, Replayed, RevisionHeld
<1>6. stored \in SnapshotSet /\ Replayed(stored)
  BY DEF CacheInv, TypeOK
<1>7. stored' \in SnapshotSet /\ Replayed(stored')
  BY <1>2, <1>5, <1>6
<1>8. lock' \in Tasks \cup {None} /\ failures' \in 0 .. MaxFailures
  BY <1>3 DEF Released, CacheInv, TypeOK
<1>. QED
  BY <1>3, <1>7, <1>8, IdleHeld, TaskStep

-----------------------------------------------------------------------------
(* The world.                                                              *)

LEMMA GrownType ==
  ASSUME CacheInv, NEW s \in Sources, NEW x \in Int \X Ids
  PROVE  /\ [source EXCEPT ![s] = @ \cup {x}] \in Readings
         /\ source["history"] \subseteq [source EXCEPT ![s] = @ \cup {x}]["history"]
<1>1. source \in Readings
  BY DEF CacheInv, TypeOK
<1>2. source[s] \cup {x} \in Rows
  BY <1>1 DEF Readings, Rows
<1>3. [source EXCEPT ![s] = @ \cup {x}] \in Readings
  BY <1>1, <1>2 DEF Readings
<1>4. "history" \in Sources
  BY DEF Sources
<1>. QED
  BY <1>1, <1>3, <1>4 DEF Readings

LEMMA RecordStep ==
  ASSUME CacheInv, NEW e \in Events, RecordEvent(e)
  PROVE  CacheInv'
<1>1. PICK t \in FirstDeposit .. clock :
        source' = [source EXCEPT !["ledger"] = @ \cup {<<t, e>>}]
  BY DEF RecordEvent
<1>2. <<t, e>> \in Int \X Ids /\ "ledger" \in Sources
  BY TimeAssumption DEF Ids, Sources, CacheInv, TypeOK
<1>3. source' \in Readings /\ source["history"] \subseteq source'["history"]
  BY <1>1, <1>2, GrownType
<1>4. UNCHANGED <<clock, applied, open, stored, lock, task, failures>>
  BY DEF RecordEvent
<1>5. TypeOK'
  BY <1>3, <1>4 DEF CacheInv, TypeOK
<1>. QED
  BY <1>3, <1>4, <1>5, WorldStep

LEMMA ApplyStep ==
  ASSUME CacheInv, NEW e \in Events, ApplyEvent(e)
  PROVE  CacheInv'
<1>1. /\ applied' = applied \cup {e}
      /\ UNCHANGED <<clock, source, open, stored, lock, task, failures>>
  BY DEF ApplyEvent
<1>2. TypeOK'
  BY <1>1 DEF CacheInv, TypeOK
<1>. QED
  BY <1>1, <1>2, WorldStep

LEMMA ChangeStep ==
  ASSUME CacheInv, NEW s \in Sources, NEW ids \in SUBSET Ids, Change(s, ids)
  PROVE  CacheInv'
<1>1. PICK x \in ids \ EventsOf(source[s]), d \in 0 .. Day(clock) :
        /\ source' = [source EXCEPT ![s] = @ \cup {<<d * DayLength, x>>}]
        /\ UNCHANGED <<clock, applied, open, stored, lock, task, failures>>
  BY DEF Change
<1>2. <<d * DayLength, x>> \in Int \X Ids
  BY <1>1, TimeAssumption
<1>3. source' \in Readings /\ source["history"] \subseteq source'["history"]
  BY <1>1, <1>2, GrownType
<1>4. TypeOK'
  BY <1>1, <1>3 DEF CacheInv, TypeOK
<1>. QED
  BY <1>1, <1>3, <1>4, WorldStep

LEMMA WorldKeeps ==
  ASSUME CacheInv, World
  PROVE  CacheInv'
<1>1. CASE Tick
  <2>1. clock' \in FirstDeposit .. MaxClock
    BY <1>1, TimeAssumption DEF Tick, CacheInv, TypeOK
  <2>2. UNCHANGED <<source, applied, open, stored, lock, task, failures>>
    BY <1>1 DEF Tick
  <2>3. TypeOK'
    BY <2>1, <2>2 DEF CacheInv, TypeOK
  <2>. QED
    BY <2>2, <2>3, WorldStep
<1>2. CASE ClosePositions
  <2>1. open' = FALSE /\ UNCHANGED <<clock, source, applied, stored, lock, task, failures>>
    BY <1>2 DEF ClosePositions
  <2>2. TypeOK'
    BY <2>1 DEF CacheInv, TypeOK
  <2>. QED
    BY <2>1, <2>2, WorldStep
<1>3. CASE ChangeHistory \/ ChangeApy
  BY <1>3, ChangeStep DEF ChangeHistory, ChangeApy, Sources, Ids
<1>4. CASE \E e \in Events : RecordEvent(e) \/ ApplyEvent(e)
  BY <1>4, RecordStep, ApplyStep
<1>. QED
  BY <1>1, <1>2, <1>3, <1>4 DEF World

-----------------------------------------------------------------------------
(* Theorems.                                                               *)

LEMMA CacheInit ==
  ASSUME Init
  PROVE  CacheInv
<1>1. TypeOK
  <2>1. Nothing \in Readings /\ NoSnapshot \in SnapshotSet
    BY DEF Nothing, Readings, Rows, NoSnapshot, SnapshotSet
  <2>2. Idle \in TaskSet
    BY IdleHeld
  <2>. QED
    BY <2>1, <2>2, TimeAssumption DEF Init, TypeOK
<1>2. Replayed(stored)
  BY DEF Init, NoSnapshot, Replayed, Honest
<1>3. ASSUME NEW p \in Tasks PROVE TaskHeld(task[p], applied, source["history"])
  BY IdleHeld DEF Init
<1>. QED
  BY <1>1, <1>2, <1>3 DEF CacheInv

LEMMA CacheNext ==
  ASSUME CacheInv, [Next]_vars
  PROVE  CacheInv'
<1>1. CASE UNCHANGED vars
  <2>1. UNCHANGED <<clock, source, applied, open, stored, lock, task, failures>>
    BY <1>1 DEF vars, world
  <2>2. TypeOK'
    BY <2>1 DEF CacheInv, TypeOK
  <2>. QED
    BY <2>1, <2>2, WorldStep
<1>2. CASE World
  BY <1>2, WorldKeeps
<1>3. ASSUME NEW p \in Tasks, Read(p) \/ ReadUnlocked(p) \/ Fail(p)
      PROVE  CacheInv'
  <2>1. CASE Ask(p)
    BY <2>1, AskStep
  <2>2. CASE Decide(p)
    BY <2>2, DecideStep
  <2>3. CASE TryLock(p)
    BY <2>3, LockStep
  <2>4. CASE LoadLatest(p)
    BY <2>4, LatestStep
  <2>5. CASE Recheck(p) \/ ReadUnlocked(p)
    BY <2>5, RecheckStep
  <2>6. CASE LoadOwn(p)
    BY <2>6, OwnStep
  <2>7. CASE LoadRevision(p)
    BY <2>7, RevisionStep
  <2>8. CASE LoadLedger(p)
    BY <2>8, LedgerStep
  <2>9. CASE Verify(p)
    BY <2>9, VerifyStep
  <2>10. CASE LoadNextFingerprint(p)
    BY <2>10, NextFingerprintStep
  <2>11. CASE LoadHistory(p)
    BY <2>11, HistoryStep
  <2>12. CASE LoadApy(p)
    BY <2>12, ApyStep
  <2>13. CASE Confirm(p)
    BY <2>13, ConfirmStep
  <2>14. CASE MakeCheckpoint(p)
    BY <2>14, CheckpointStep
  <2>15. CASE Bracket(p)
    BY <2>15, BracketStep
  <2>16. CASE Save(p)
    BY <2>16, SaveStep
  <2>17. CASE Fail(p)
    BY <2>17, FailStep
  <2>. QED
    BY <1>3, <2>1, <2>2, <2>3, <2>4, <2>5, <2>6, <2>7, <2>8, <2>9, <2>10, <2>11,
       <2>12, <2>13, <2>14, <2>15, <2>16, <2>17 DEF Read, Calculate
<1>. QED
  BY <1>1, <1>2, <1>3 DEF Next

(* In every reachable state the saved chart and each task may be relied on *)
(* for what CacheInv says: the types, the fingerprints of every checkpoint *)
(* and the revision of every chart.                                        *)
THEOREM CacheInvariant == Spec => []CacheInv
<1>1. Init => CacheInv
  BY CacheInit
<1>2. CacheInv /\ [Next]_vars => CacheInv'
  BY CacheNext
<1>. QED
  BY <1>1, <1>2, PTL DEF Spec

(* A chart that is answered with as current replays to the principal of    *)
(* the positions, for any deposits and whatever the readers' interleaving. *)
THEOREM FreshServedIsCurrent == Spec => []FreshIsCurrent
<1>1. ASSUME CacheInv PROVE FreshIsCurrent
  <2>1. SUFFICES ASSUME NEW s \in Snapshots, s.revision = Revision
                 PROVE  principalAt(s.events) = principalAt(applied)
    BY DEF FreshIsCurrent
  <2>2. Replayed(s)
    BY <1>1 DEF Snapshots, CacheInv, TaskHeld
  <2>3. s.revision # None /\ s.revision.applied = applied
    BY <1>1, <2>1, NoneAssumption DEF Revision, Revisions, CacheInv, TypeOK
  <2>. QED
    BY <2>2, <2>3 DEF Replayed
<1>. QED
  BY <1>1, CacheInvariant, PTL

(* A chart extended from a checkpoint is what a full calculation of the    *)
(* same reads would show, for any corrections at any time.                 *)
THEOREM IncrementalEqualsFull == Spec => []IncrementalIsFull
<1>1. ASSUME CacheInv PROVE IncrementalIsFull
  <2>1. SUFFICES ASSUME NEW p \in Tasks, At(p, "bracket")
                 PROVE  Ranges(task[p], task[p].at + 1)
                          = [s \in Sources |-> Before(task[p].read[s], task[p].at + 1)]
    BY DEF IncrementalIsFull
  <2>2. /\ task[p] \in TaskSet /\ Honest(task[p].checkpoint) /\ task[p].pc = "bracket"
        /\ CheckpointHeld(task[p], source["history"])
    BY <1>1, <2>1, TaskFacts DEF TaskHeld, At
  <2>3. task[p].at + 1 \in Int
    BY <2>2 DEF TaskSet
  <2>. QED
    BY <2>2, <2>3, UsedIsRead, RangesType
<1>. QED
  BY <1>1, CacheInvariant, PTL

-----------------------------------------------------------------------------
(* The lock.                                                               *)

\* A task that has not come to the lock yet, or is done.
Outside == {"idle", "decide", "lock"}

(* The lock belongs to a task that is still at work, whose connection ends *)
(* with it, and what is done under the lock alone is done by its holder.   *)
LockHeld ==
  /\ lock # None => task[lock].pc \notin Outside
  /\ \A p \in Tasks : task[p].pc \in {"latest", "recheck"} => lock = p

\* What a step of a task may do to the lock.
LEMMA LockMoves ==
  ASSUME CacheInv, LockHeld, NEW p \in Tasks, NEW t, task' = [task EXCEPT ![p] = t],
         \/ lock' = lock /\ t.pc \notin Outside \cup {"latest", "recheck"}
         \/ lock' = lock /\ t.pc \in Outside /\ task[p].pc \in Outside
         \/ lock' = lock /\ t.pc = "recheck" /\ task[p].pc = "latest"
         \/ lock' = Released(p) /\ t.pc = "idle"
         \/ lock = None /\ lock' = p /\ t.pc = "latest"
  PROVE  LockHeld'
<1>1. /\ task = [q \in Tasks |-> task[q]] /\ lock \in Tasks \cup {None} /\ None \notin Tasks
  BY NoneAssumption DEF CacheInv, TypeOK
<1>2. task'[p] = t /\ \A q \in Tasks \ {p} : task'[q] = task[q]
  BY <1>1
<1>3. lock' # None => task'[lock'].pc \notin Outside
  BY <1>1, <1>2 DEF LockHeld, Outside, Released
<1>4. ASSUME NEW q \in Tasks, task'[q].pc \in {"latest", "recheck"} PROVE lock' = q
  BY <1>1, <1>2, <1>4 DEF LockHeld, Outside, Released
<1>. QED
  BY <1>3, <1>4 DEF LockHeld

\* A calculation goes on, starts again or ends.
LEMMA CalculationLock ==
  ASSUME CacheInv, LockHeld, NEW p \in Tasks, Calculate(p)
  PROVE  LockHeld'
<1> DEFINE Goes(t) == /\ task' = [task EXCEPT ![p] = t] /\ lock' = lock
                      /\ t.pc \notin Outside \cup {"latest", "recheck"}
<1>1. task[p] \in TaskSet
  BY TaskFacts
<1>2. ASSUME NEW t, Goes(t) PROVE LockHeld'
  BY <1>2, LockMoves
<1>3. ASSUME NEW t, Go(p, t) \/ Without(p, t),
             t.pc \in {"own", "revision", "ledger", "verify", "next", "history", "apy",
                       "confirm", "publish", "bracket", "save"}
      PROVE  LockHeld'
  BY <1>2, <1>3 DEF Go, Without, Outside
<1>4. ASSUME Finish(p) PROVE LockHeld'
  <2>1. Idle.pc = "idle"
    BY DEF Idle
  <2>. QED
    BY <1>4, <2>1, LockMoves DEF Finish
<1>5. \A use : Begun(use).pc = "own"
  BY DEF Begun, Idle
<1> HIDE DEF Goes
<1>6. CASE LoadOwn(p)
  <2> DEFINE t == [task[p] EXCEPT !.pc = "revision", !.useCheckpoint = TRUE]
  <2>1. t.pc = "revision" /\ \A cp : [t EXCEPT !.checkpoint = cp].pc = "revision"
    BY <1>1 DEF TaskSet
  <2>2. Without(p, t) \/ \E cp : Go(p, [t EXCEPT !.checkpoint = cp])
    BY <1>6 DEF LoadOwn
  <2> HIDE DEF t
  <2>. QED
    BY <1>3, <2>1, <2>2
<1>7. CASE LoadRevision(p)
  <2>1. \A r : [task[p] EXCEPT !.pc = "ledger", !.revision = r].pc = "ledger"
    BY <1>1 DEF TaskSet
  <2>. QED
    BY <1>3, <1>7, <2>1 DEF LoadRevision
<1>8. CASE LoadLedger(p)
  <2> DEFINE kept == task[p].checkpoint # None /\ SameLedger(task[p].checkpoint)
             t == [task[p] EXCEPT !.pc = IF kept THEN "verify" ELSE "next",
                                  !.checkpoint = IF kept THEN task[p].checkpoint ELSE None,
                                  !.read["ledger"] = source["ledger"]]
  <2>1. t.pc \in {"verify", "next"}
    <3>1. t.pc = IF kept THEN "verify" ELSE "next"
      BY <1>1 DEF TaskSet
    <3>. QED
      BY <3>1
  <2>2. Go(p, t)
    BY <1>8 DEF LoadLedger
  <2> HIDE DEF t
  <2>. QED
    BY <1>3, <2>1, <2>2
<1>9. CASE Verify(p)
  <2> DEFINE t == [task[p] EXCEPT !.pc = "next"]
  <2>1. t.pc = "next" /\ [t EXCEPT !.checkpoint = None].pc = "next"
    BY <1>1 DEF TaskSet
  <2>2. \E u \in {t, [t EXCEPT !.checkpoint = None]} : Go(p, u) \/ Without(p, u)
    BY <1>9 DEF Verify
  <2> HIDE DEF t
  <2>. QED
    BY <1>3, <2>1, <2>2
<1>10. CASE LoadNextFingerprint(p)
  <2> DEFINE t == [task[p] EXCEPT !.pc = "history", !.nextHistory = None]
  <2>1. t.pc = "history" /\ \A f : [t EXCEPT !.nextHistory = f].pc = "history"
    BY <1>1 DEF TaskSet
  <2>2. Without(p, t) \/ \E f : Go(p, [t EXCEPT !.nextHistory = f])
    BY <1>10 DEF LoadNextFingerprint
  <2> HIDE DEF t
  <2>. QED
    BY <1>3, <2>1, <2>2
<1>11. CASE LoadHistory(p)
  <2>1. \A r : [task[p] EXCEPT !.pc = "apy", !.read["history"] = r].pc = "apy"
    BY <1>1 DEF TaskSet
  <2>2. Finish(p) \/ \E r : Go(p, [task[p] EXCEPT !.pc = "apy", !.read["history"] = r])
    BY <1>11 DEF LoadHistory, Done
  <2>. QED
    BY <1>3, <1>4, <2>1, <2>2
<1>12. CASE LoadApy(p)
  <2>1. \A c, r : [task[p] EXCEPT !.pc = c, !.read["apy"] = r].pc = c
    BY <1>1 DEF TaskSet
  <2>2. \/ Go(p, Begun(FALSE))
        \/ \E c, r : Go(p, [task[p] EXCEPT !.pc = c, !.read["apy"] = r]) /\ c \in {"publish", "confirm"}
    BY <1>12 DEF LoadApy
  <2>. QED
    BY <1>3, <1>5, <2>1, <2>2
<1>13. CASE Confirm(p)
  <2>1. [task[p] EXCEPT !.pc = "publish"].pc = "publish"
    BY <1>1 DEF TaskSet
  <2>. QED
    BY <1>3, <1>5, <1>13, <2>1 DEF Confirm
<1>14. CASE MakeCheckpoint(p)
  <2> DEFINE t == [task[p] EXCEPT !.pc = "bracket", !.nextHistory = None]
  <2>1. \A n : [t EXCEPT !.next = n].pc = "bracket"
    BY <1>1 DEF TaskSet
  <2>2. \E n : Go(p, [t EXCEPT !.next = n]) \/ Without(p, [t EXCEPT !.next = n])
    BY <1>14 DEF MakeCheckpoint
  <2> HIDE DEF t
  <2>. QED
    BY <1>3, <2>1, <2>2
<1>15. CASE Bracket(p)
  <2> DEFINE t == [Idle EXCEPT !.pc = "save", !.at = task[p].at,
                     !.revision = Bracketed(task[p]), !.next = task[p].next,
                     !.read["ledger"] = task[p].read["ledger"]]
  <2>1. t.pc = "save"
    BY DEF Idle
  <2>2. Go(p, t)
    BY <1>15 DEF Bracket
  <2> HIDE DEF t
  <2>. QED
    BY <1>3, <2>1, <2>2
<1>16. CASE Save(p)
  BY <1>4, <1>16 DEF Save
<1>. QED
  BY <1>6, <1>7, <1>8, <1>9, <1>10, <1>11, <1>12, <1>13, <1>14, <1>15, <1>16 DEF Calculate

LEMMA LockStays ==
  ASSUME CacheInv, LockHeld, [Next]_vars
  PROVE  LockHeld'
<1>1. CASE World \/ UNCHANGED vars
  <2>1. UNCHANGED <<task, lock>>
    BY <1>1 DEF World, Tick, ClosePositions, ChangeHistory, ChangeApy, Change, RecordEvent,
       ApplyEvent, vars
  <2>. QED
    BY <2>1 DEF LockHeld
<1>2. ASSUME NEW p \in Tasks, Read(p) \/ ReadUnlocked(p) \/ Fail(p)
      PROVE  LockHeld'
  <2>1. task[p] \in TaskSet
    BY TaskFacts
  <2>2. Idle.pc = "idle" /\ \A use : Begun(use).pc = "own"
    BY DEF Begun, Idle
  <2>3. CASE Ask(p)
    <3>1. [Idle EXCEPT !.pc = "decide", !.seen = stored].pc = "decide"
      BY DEF Idle
    <3>. QED
      BY <2>3, <3>1, LockMoves DEF Ask, Go, At, Outside
  <2>4. CASE Decide(p)
    <3>1. [Idle EXCEPT !.pc = "lock"].pc = "lock"
      BY DEF Idle
    <3>. QED
      BY <2>2, <2>4, <3>1, LockMoves DEF Decide, Go, At, Outside
  <2>5. CASE TryLock(p)
    <3>1. [task[p] EXCEPT !.pc = "latest"].pc = "latest"
      BY <2>1 DEF TaskSet
    <3>2. CASE Go(p, Idle)
      BY <2>2, <2>5, <3>2, LockMoves DEF TryLock, Go, At, Outside
    <3>3. CASE ~Go(p, Idle)
      <4>1. /\ lock = None /\ lock' = p
            /\ task' = [task EXCEPT ![p] = [task[p] EXCEPT !.pc = "latest"]]
        BY <2>5, <3>3 DEF TryLock
      <4>. QED
        BY <3>1, <4>1, LockMoves
    <3>. QED
      BY <3>2, <3>3
  <2>6. CASE LoadLatest(p)
    <3>1. [Idle EXCEPT !.pc = "recheck", !.seen = stored].pc = "recheck"
      BY DEF Idle
    <3>. QED
      BY <2>6, <3>1, LockMoves DEF LoadLatest, Go, At
  <2>7. CASE Recheck(p) \/ ReadUnlocked(p)
    BY <2>2, <2>7, LockMoves DEF Recheck, ReadUnlocked, Go, Done, Finish, Outside
  <2>8. CASE Calculate(p)
    BY <2>8, CalculationLock
  <2>9. CASE Fail(p)
    BY <2>2, <2>9, LockMoves DEF Fail, Finish
  <2>. QED
    BY <1>2, <2>3, <2>4, <2>5, <2>6, <2>7, <2>8, <2>9 DEF Read
<1>. QED
  BY <1>1, <1>2 DEF Next

(* The lock of a refresh is never left behind (withEarnEarningsRefreshLock):*)
(* however a calculation ends, starts again or fails, a lock that is taken *)
(* is that of a task that is still calculating, so a stale chart is always *)
(* refreshed by somebody or by the next who asks.                          *)
THEOREM LockNotLeaked == Spec => []LockHeld
<1>1. Init => LockHeld
  <2>1. Idle.pc = "idle"
    BY DEF Idle
  <2>. QED
    BY <2>1 DEF Init, LockHeld
<1>2. CacheInv /\ LockHeld /\ [Next]_vars => LockHeld'
  BY LockStays
<1>. QED
  BY <1>1, <1>2, CacheInvariant, PTL DEF Spec

=============================================================================
