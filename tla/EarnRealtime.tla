---------------------------- MODULE EarnRealtime ----------------------------
(***************************************************************************)
(* The Earn event stream of the web client: the connection lifecycle       *)
(* (lifecycle.ts), the stream reader (stream.ts), the cursor store         *)
(* (cursor-storage.ts) and the invalidation batcher (batch.ts), wired      *)
(* together by use-earn-realtime.ts.                                       *)
(*                                                                         *)
(* The producer numbers its events 1, 2, ...; an event says which          *)
(* resources of the client (Earn state, position, transactions, earnings)  *)
(* became stale.  The client re-reads them and only then acknowledges the  *)
(* event by moving its cursor, from which a later connection resumes.  A   *)
(* connection without a cursor skips everything older, so it is admitted   *)
(* only after a refresh of every resource.                                 *)
(*                                                                         *)
(* A read returns the producer's state at some moment of the read: it is   *)
(* represented by the number of events that state includes.  The           *)
(* coordinator that performs the reads is modelled in ResourceRefresh;     *)
(* here it keeps its promise: a refresh that succeeds has published reads  *)
(* that began after the refresh was asked for.                             *)
(*                                                                         *)
(* One action is one task of the browser's event loop with the microtasks  *)
(* it releases.                                                            *)
(***************************************************************************)
EXTENDS Integers, FiniteSets

CONSTANTS
  Resources,    \* what the client displays
  Touches,      \* Touches[e]: the resources event e makes stale
  MaxEvents,    \* bound: the events the producer records
  MaxFaults,    \* bound: drops, failed reads, resyncs, remounts and reloads
  Null          \* no cursor

ASSUME MaxEventsAssumption == MaxEvents \in Nat
ASSUME MaxFaultsAssumption == MaxFaults \in Nat
ASSUME TouchesAssumption == Touches \in [1 .. MaxEvents -> SUBSET Resources]
ASSUME NullAssumption == Null = 0   \* event ids are positive decimals

VARIABLES
  head,         \* the number of events recorded so far
  view,         \* view[r]: how many events the displayed state of r includes
  memory,       \* the module-level cursor of the tab
  primary,      \* the cursor in sessionStorage
  tombstone,    \* sessionStorage holds a value that must not be read
  phase,        \* where runEarnRealtimeLifecycle stands
  requested,    \* the cursor the current connection was asked for
  sent,         \* the last event the producer sent on it, or skipped
  lastEventId,  \* the last event the reader accepted on it
  connected,    \* the state the hook reports
  admission,    \* the latest admissionPromise of the hook
  pending,      \* the batcher's events that wait for a flush
  batch,        \* the batch being flushed
  faults        \* faults so far

cursorVars == <<memory, primary, tombstone>>
streamVars == <<phase, requested, sent, lastEventId, connected>>
batcherVars == <<pending, batch>>
vars == <<head, view, cursorVars, streamVars, admission, batcherVars, faults>>

Events == 1 .. MaxEvents
Versions == 0 .. MaxEvents
Cursors == Versions     \* Null or an event

Phases == {"waiting", "requesting", "open", "closing", "resyncing"}
Settled(status) == [status |-> status, from |-> 0]
NoBatch == [ids |-> {}, stage |-> "none", from |-> 0, current |-> FALSE]

TypeOK ==
  /\ head \in Versions
  /\ view \in [Resources -> Versions]
  /\ memory \in Cursors /\ primary \in Cursors /\ tombstone \in BOOLEAN
  /\ phase \in Phases
  /\ requested \in Cursors
  /\ sent \in Versions /\ lastEventId \in Cursors
  /\ connected \in BOOLEAN
  /\ admission \in [status : {"resolved", "running", "rejected"},
                    from : Versions]
  /\ pending \in SUBSET Events
  /\ batch \in [ids : SUBSET Events, stage : {"none", "gated", "refreshing"},
                from : Versions, current : BOOLEAN]
  /\ faults \in 0 .. MaxFaults

Init ==
  /\ head \in Versions
  /\ view = [r \in Resources |-> head]
  /\ memory = Null /\ primary = Null /\ tombstone = FALSE
  /\ phase = "waiting" /\ requested = Null
  /\ sent = 0 /\ lastEventId = Null /\ connected = FALSE
  /\ admission = Settled("resolved")
  /\ pending = {} /\ batch = NoBatch
  /\ faults = 0

-----------------------------------------------------------------------------
(* The cursor store.                                                       *)

latestCursor(a, b) == IF a >= b THEN a ELSE b

Visible == IF tombstone THEN Null ELSE primary
getCursor == latestCursor(Visible, memory)

(* A write that the storage refuses leaves the old value under a tombstone. *)
Stored(value) ==
  \/ primary' = value /\ tombstone' = FALSE
  \/ primary' = primary /\ tombstone' = TRUE

Acknowledge(c) ==
  LET next == latestCursor(getCursor, c)
  IN  memory' = next /\ Stored(next)

ClearCursor == memory' = Null /\ Stored(Null)

-----------------------------------------------------------------------------
(* The batcher.                                                            *)

(* What a batch of events makes stale.                                     *)
StaleAfter(ids) == UNION {Touches[e] : e \in ids}

(* A refresh of the resources rs that was asked for when the producer had  *)
(* recorded "from" events has succeeded.                                   *)
Refreshed(rs, from) ==
  \E read \in [rs -> from .. head] :
    view' = [r \in Resources |->
               IF r \in rs THEN latestCursor(view[r], read[r]) ELSE view[r]]

\* Mutant: the cursor is the next event that is expected.
NextExpected(ids) == 1 + CHOOSE e \in ids : \A f \in ids : f <= e

Highest(ids) == CHOOSE e \in ids : \A f \in ids : f <= e

\* Mutant: a batch that is rejected is not put back.
RetriedNever == pending

Retried == IF batch.current THEN batch.ids \cup pending ELSE pending

\* Mutant: what arrives while a batch is in flight counts as part of it.
EnqueuedWhenIdle(e) ==
  pending' = IF batch.stage # "none" THEN pending ELSE pending \cup {e}

enqueue(e) ==
  pending' = IF batch.current /\ e \in batch.ids THEN pending
             ELSE pending \cup {e}

(* The timer fires: the pending events become the batch, which waits for   *)
(* the admission promise that is current now.                              *)
flushNow ==
  /\ batch.stage = "none" /\ pending # {}
  /\ \/ /\ admission.status = "running"
        /\ batch' = [ids |-> pending, stage |-> "gated", from |-> 0,
                     current |-> TRUE]
        /\ pending' = {}
     \/ /\ admission.status = "resolved"
        /\ batch' = [ids |-> pending, stage |-> "refreshing", from |-> head,
                     current |-> TRUE]
        /\ pending' = {}
     \/ /\ admission.status = "rejected"   \* the batch is rejected and kept
        /\ UNCHANGED batcherVars
  /\ UNCHANGED <<head, view, cursorVars, streamVars, admission, faults>>

BatchAccepted ==
  /\ batch.stage = "refreshing"
  /\ Refreshed(StaleAfter(batch.ids), batch.from)
  /\ IF batch.current THEN Acknowledge(Highest(batch.ids))
                      ELSE UNCHANGED cursorVars
  /\ batch' = NoBatch
  /\ UNCHANGED <<head, streamVars, admission, pending, faults>>

BatchRejected ==
  /\ batch.stage = "refreshing"
  /\ faults < MaxFaults /\ faults' = faults + 1
  /\ pending' = Retried
  /\ batch' = NoBatch
  /\ UNCHANGED <<head, view, cursorVars, streamVars, admission>>

(* A batch behind the gate goes on when the admission is settled.          *)
\* Mutant: nothing wakes the batch that waits for the admission.
GateStays == batch' = batch

GateOpens ==
  batch' = IF batch.stage = "gated"
           THEN [batch EXCEPT !.stage = "refreshing", !.from = head]
           ELSE batch

GateRejects ==
  IF batch.stage = "gated" THEN pending' = Retried /\ batch' = NoBatch
                           ELSE UNCHANGED batcherVars

(* reset: the pending events are dropped and the batch in flight, if any,  *)
(* belongs to an older epoch.                                              *)
Forgotten == [batch EXCEPT !.current = FALSE]

-----------------------------------------------------------------------------
(* The connection.                                                         *)

(* The lifecycle reads the cursor and opens the stream.                    *)
SendRequest ==
  /\ phase = "waiting"
  /\ \E readable \in BOOLEAN :
       requested' = IF readable THEN getCursor ELSE memory
  /\ memory' = requested'
  /\ phase' = "requesting"
  /\ UNCHANGED <<head, view, primary, tombstone, sent, lastEventId, connected,
                 admission, batcherVars, faults>>

RequestFails ==
  /\ phase = "requesting"
  /\ faults < MaxFaults /\ faults' = faults + 1
  /\ phase' = "waiting"
  /\ UNCHANGED <<head, view, cursorVars, requested, sent, lastEventId,
                 connected, admission, batcherVars>>

(* A connection with a cursor is admitted at once; one without starts the  *)
(* refresh of every resource.                                              *)
Connect ==
  /\ phase = "requesting"
  /\ phase' = "open"
  /\ lastEventId' = requested
  /\ IF requested # Null
     THEN /\ sent' = requested
          /\ connected' = TRUE
          /\ UNCHANGED admission
     ELSE /\ sent' = head
          /\ connected' = FALSE
          /\ admission' = [status |-> "running", from |-> head]
  /\ UNCHANGED <<head, view, cursorVars, requested, batcherVars, faults>>

(* The producer sends its next event, or one again that it sent before.    *)
Deliver(e) ==
  /\ phase = "open"
  /\ e <= sent + 1 /\ e <= head
  /\ sent' = IF e > sent THEN e ELSE sent
  /\ IF lastEventId # Null /\ e <= lastEventId
     THEN UNCHANGED <<lastEventId, pending>>
     ELSE lastEventId' = e /\ enqueue(e)
  /\ UNCHANGED <<head, view, cursorVars, phase, requested, connected,
                 admission, batch, faults>>

(* The stream ends: closed, silent for too long, aborted for the renewal   *)
(* of its token, or told to resynchronize.  An admission that still runs   *)
(* is awaited first.                                                       *)
AdmissionPending == requested = Null /\ admission.status = "running"

StreamEnds ==
  /\ phase = "open"
  /\ faults < MaxFaults /\ faults' = faults + 1
  /\ connected' = FALSE
  /\ phase' = IF AdmissionPending THEN "closing" ELSE "waiting"
  /\ UNCHANGED <<head, view, cursorVars, requested, sent, lastEventId,
                 admission, batcherVars>>

ResyncRequired ==
  /\ phase = "open"
  /\ faults < MaxFaults /\ faults' = faults + 1
  /\ connected' = FALSE
  /\ IF AdmissionPending
     THEN phase' = "resyncing" /\ UNCHANGED <<cursorVars, batcherVars>>
     ELSE /\ phase' = "waiting" /\ ClearCursor
          /\ pending' = {} /\ batch' = Forgotten
  /\ UNCHANGED <<head, view, requested, sent, lastEventId, admission>>

AdmissionSucceeds ==
  /\ admission.status = "running"
  /\ Refreshed(Resources, admission.from)
  /\ admission' = Settled("resolved")
  /\ connected' = (phase = "open")
  /\ phase' = IF phase = "open" THEN "open" ELSE "waiting"
  /\ IF phase = "resyncing"
     THEN /\ ClearCursor /\ pending' = {}
          /\ batch' = [Forgotten EXCEPT
                         !.stage = IF @ = "gated" THEN "refreshing" ELSE @,
                         !.from = IF batch.stage = "gated" THEN head ELSE @]
     ELSE GateOpens /\ UNCHANGED <<cursorVars, pending>>
  /\ UNCHANGED <<head, requested, sent, lastEventId, faults>>

(* A failed admission aborts the stream.                                   *)
AdmissionFails ==
  /\ admission.status = "running"
  /\ faults < MaxFaults /\ faults' = faults + 1
  /\ admission' = Settled("rejected")
  /\ phase' = "waiting"
  /\ IF phase = "resyncing"
     THEN /\ ClearCursor /\ pending' = {}
          /\ batch' = IF batch.stage = "gated" THEN NoBatch ELSE Forgotten
     ELSE GateRejects /\ UNCHANGED cursorVars
  /\ UNCHANGED <<head, view, requested, sent, lastEventId, connected>>

(* The hook is unmounted and mounted again, in the same page or after a    *)
(* reload, which loses the tab's memory but not its sessionStorage.  The   *)
(* displayed state is cached or read anew: it is never older than before.  *)
Remount ==
  /\ faults < MaxFaults /\ faults' = faults + 1
  /\ phase' = "waiting" /\ connected' = FALSE
  /\ requested' = Null /\ sent' = 0 /\ lastEventId' = Null
  /\ admission' = Settled("resolved")
  /\ pending' = {} /\ batch' = NoBatch
  /\ \/ UNCHANGED cursorVars
     \/ memory' = Null /\ tombstone' = FALSE /\ UNCHANGED primary
  /\ UNCHANGED <<head, view>>

ProducerRecords ==
  /\ head < MaxEvents
  /\ head' = head + 1
  /\ UNCHANGED <<view, cursorVars, streamVars, admission, batcherVars, faults>>

Next ==
  \/ ProducerRecords
  \/ SendRequest \/ RequestFails \/ Connect
  \/ \E e \in Events : Deliver(e)
  \/ StreamEnds \/ ResyncRequired
  \/ AdmissionSucceeds \/ AdmissionFails
  \/ flushNow \/ BatchAccepted \/ BatchRejected
  \/ Remount

Spec == Init /\ [][Next]_vars

-----------------------------------------------------------------------------
(* Properties.                                                             *)

(* The displayed state includes event e wherever the event matters.        *)
Shown(e) == \A r \in Touches[e] : view[r] >= e

(* No event at or before a cursor that a connection may still resume from  *)
(* is missing on the screen: neither a failed batch, nor a batch of an     *)
(* older epoch, nor a storage that refuses writes makes the client         *)
(* acknowledge an event it has not shown (batch.ts, cursor-storage.ts).    *)
AcknowledgedIsShown ==
  \A e \in Events : e <= memory \/ e <= primary => Shown(e)

(* What a connection has passed over or delivered is not lost: while the   *)
(* hook reports "connected", every event up to the last one sent is shown  *)
(* or waits in the batcher (lifecycle.ts: a connection without a cursor is *)
(* reported only after its refresh).                                       *)
Waiting(e) == e \in pending \/ (batch.current /\ e \in batch.ids)

NothingSkipped ==
  connected => \A e \in Events : e <= sent => Shown(e) \/ Waiting(e)

(* An admission that failed stays the promise every batch awaits: once the *)
(* next connection has a cursor, nothing replaces it.                      *)
Wedged == admission.status = "rejected" /\ phase = "open" /\ requested # Null

Fairness ==
  /\ WF_vars(SendRequest) /\ WF_vars(Connect)
  /\ WF_vars(Deliver(sent + 1))
  /\ WF_vars(AdmissionSucceeds)
  /\ WF_vars(flushNow) /\ WF_vars(BatchAccepted)

FairSpec == Spec /\ Fairness

(* The batcher's retries: every event is shown in the end, unless the      *)
(* client ends up behind an admission that failed, which it reports as     *)
(* connected.                                                              *)
EventuallyShownUnlessWedged ==
  (\A e \in Events : head >= e ~> Shown(e)) \/ <>[](Wedged /\ connected)

=============================================================================
