-------------------------- MODULE EarnRealtime_proofs --------------------------
(* Proofs about EarnRealtime for every number of events and faults, and      *)
(* every set of resources: no cursor or connection skips an event, and       *)
(* nothing but a failed admission stops the client short of one.             *)
EXTENDS EarnRealtime, WellFoundedInduction, TLAPS

(* What a connection may resume from has been shown.                        *)
CursorsShown ==
  \A e \in Events : e <= memory \/ e <= primary \/ e <= requested => Shown(e)

(* An event that the stream has passed is shown, waits in the batcher, or   *)
(* is covered by the refresh that admits the connection.                    *)
Covered(e) == admission.status = "running" /\ e <= admission.from
Accounted(e) == Shown(e) \/ Waiting(e) \/ Covered(e)

StreamAccounted ==
  phase = "open" =>
    /\ \A e \in Events : e <= sent => Accounted(e)
    /\ lastEventId <= sent

(* What waits has no gap below it, unless an admission failed, and then     *)
(* nothing is flushed; what is being refreshed has none either.             *)
PendingClosed ==
  admission.status # "rejected" =>
    \A e \in pending, f \in Events : f < e => Accounted(f)

BatchClosed ==
  batch.current => \A e \in batch.ids, f \in Events : f < e =>
    Shown(f) \/ f \in batch.ids \/ (batch.stage = "gated" /\ Covered(f))

(* Only what was recorded waits or is read.                                 *)
Recorded ==
  /\ \A e \in pending \cup batch.ids : e <= head
  /\ admission.from <= head /\ batch.from <= head

BatchShaped ==
  /\ batch.stage = "none" => ~batch.current /\ batch.ids = {}
  /\ batch.stage # "none" => batch.ids # {}
  /\ batch.stage = "gated" => admission.status = "running" /\ batch.current
  /\ batch.stage = "refreshing" => \A e \in batch.ids : e <= batch.from

AdmissionRuns ==
  /\ admission.status = "running" =>
       requested = Null /\ ~connected /\ phase \in {"open", "closing", "resyncing"}
  /\ connected => phase = "open"

IInv ==
  /\ TypeOK /\ CursorsShown /\ StreamAccounted /\ PendingClosed /\ BatchClosed
  /\ Recorded /\ BatchShaped /\ AdmissionRuns

LEMMA ConstantTypes ==
  /\ MaxEvents \in Nat /\ MaxFaults \in Nat /\ Null = 0 /\ Null \in Cursors
  /\ Touches \in [Events -> SUBSET Resources] /\ 0 \in Versions
BY MaxEventsAssumption, MaxFaultsAssumption, TouchesAssumption, NullAssumption
   DEF Cursors, Versions, Events

LEMMA InitIInv == Init => IInv
<1> SUFFICES ASSUME Init PROVE IInv
  OBVIOUS
<1>1. /\ head \in Versions /\ view \in [Resources -> Versions]
      /\ Settled("resolved") \in [status : {"resolved", "running", "rejected"}, from : Versions]
      /\ NoBatch \in [ids : SUBSET Events, stage : {"none", "gated", "refreshing"},
                      from : Versions, current : BOOLEAN]
  BY ConstantTypes DEF Init, Settled, NoBatch
<1>4. TypeOK
  <2>1. faults \in 0 .. MaxFaults /\ sent \in Versions
    BY ConstantTypes DEF Init
  <2>2. memory \in Cursors /\ primary \in Cursors /\ requested \in Cursors
        /\ lastEventId \in Cursors /\ phase \in Phases
    BY ConstantTypes DEF Init, Phases
  <2>3. QED
    BY <1>1, <2>1, <2>2, Zenon DEF Init, TypeOK
<1>2. Recorded /\ CursorsShown
  BY ConstantTypes DEF Init, Recorded, CursorsShown, Settled, NoBatch, Versions, Events
<1>3. StreamAccounted /\ PendingClosed /\ BatchClosed /\ BatchShaped /\ AdmissionRuns
  BY DEF Init, StreamAccounted, PendingClosed, BatchClosed, BatchShaped, AdmissionRuns,
         NoBatch, Settled
<1>5. QED
  BY <1>2, <1>3, <1>4 DEF IInv

-----------------------------------------------------------------------------
(* Reads and cursors.                                                       *)

\* A refresh that succeeds never takes from the screen what it shows.
LEMMA RefreshShows ==
  ASSUME TypeOK, NEW rs \in SUBSET Resources, NEW from \in Versions, Refreshed(rs, from)
  PROVE  /\ view' \in [Resources -> Versions]
         /\ \A e \in Events : Shown(e) => Shown(e)'
         /\ \A e \in Events : Touches[e] \subseteq rs /\ e <= from => Shown(e)'
<1>1. PICK read \in [rs -> from .. head] :
        view' = [r \in Resources |->
                   IF r \in rs THEN latestCursor(view[r], read[r]) ELSE view[r]]
  BY DEF Refreshed
<1>2. \A r \in rs : read[r] \in Versions /\ read[r] >= from
  <2>1. head \in Versions /\ MaxEvents \in Nat /\ from .. head \subseteq Versions
    BY ConstantTypes DEF TypeOK, Versions
  <2>2. QED
    BY <1>1, <2>1 DEF Versions
<1>3. \A r \in Resources : view[r] \in Versions
  BY DEF TypeOK
<1>4. \A r \in Resources : /\ view'[r] \in Versions /\ view'[r] >= view[r]
                           /\ r \in rs => view'[r] >= from
  BY <1>1, <1>2, <1>3 DEF latestCursor, Versions
<1>5. view' \in [Resources -> Versions]
  BY <1>1, <1>4
<1>6. \A e \in Events : Touches[e] \subseteq Resources
  BY ConstantTypes
<1>7. \A e \in Events : Shown(e) => Shown(e)'
  BY <1>3, <1>4, <1>6 DEF Shown, Versions, Events
<1>8. \A e \in Events : Touches[e] \subseteq rs /\ e <= from => Shown(e)'
  BY <1>4, <1>6 DEF Shown, Versions, Events
<1>9. QED
  BY <1>5, <1>7, <1>8

LEMMA ViewStays ==
  ASSUME view' = view PROVE \A e \in Events : Shown(e)' <=> Shown(e)
BY DEF Shown

LEMMA GetCursor ==
  ASSUME TypeOK
  PROVE  /\ getCursor \in Cursors
         /\ \A e \in Events : e <= getCursor => e <= memory \/ e <= primary
BY ConstantTypes DEF getCursor, Visible, latestCursor, TypeOK, Cursors, Versions, Events

LEMMA StoredTyped ==
  ASSUME TypeOK, NEW v \in Cursors, Stored(v)
  PROVE  /\ primary' \in Cursors /\ tombstone' \in BOOLEAN
         /\ primary' = v \/ primary' = primary
BY DEF Stored, TypeOK

\* Acknowledging c moves the cursors to c or leaves them.
LEMMA Acknowledged ==
  ASSUME TypeOK, NEW c \in Cursors, Acknowledge(c)
  PROVE  /\ memory' \in Cursors /\ primary' \in Cursors /\ tombstone' \in BOOLEAN
         /\ \A e \in Events : e <= memory' \/ e <= primary'
              => e <= c \/ e <= memory \/ e <= primary
<1> DEFINE next == latestCursor(getCursor, c)
<1>1. next \in Cursors /\ \A e \in Events : e <= next => e <= c \/ e <= memory \/ e <= primary
  BY GetCursor DEF latestCursor
<1>2. memory' = next /\ Stored(next)
  BY DEF Acknowledge
<1> HIDE DEF next
<1>3. QED
  BY <1>1, <1>2, StoredTyped

LEMMA Cleared ==
  ASSUME TypeOK, ClearCursor
  PROVE  /\ memory' \in Cursors /\ primary' \in Cursors /\ tombstone' \in BOOLEAN
         /\ \A e \in Events : e <= memory' \/ e <= primary' => e <= primary
<1>1. memory' = Null /\ Null \in Cursors /\ \A e \in Events : ~(e <= Null)
  BY ConstantTypes DEF ClearCursor, Events
<1>2. QED
  BY <1>1, StoredTyped DEF ClearCursor

\* The highest event of a batch: it is one of them, and above the others.
LEMMA HighestIsIn ==
  ASSUME NEW ids \in SUBSET Events, ids # {}
  PROVE  Highest(ids) \in ids /\ \A f \in ids : f <= Highest(ids)
<1> DEFINE T == {MaxEvents - e : e \in ids}
           R == {ss \in Nat \X Nat : ss[1] < ss[2]}
<1>1. T \subseteq Nat /\ T # {}
  <2>1. \A e \in ids : e \in 1 .. MaxEvents /\ MaxEvents - e \in Nat
    BY ConstantTypes DEF Events
  <2>2. PICK e \in ids : TRUE
    OBVIOUS
  <2>3. MaxEvents - e \in T
    OBVIOUS
  <2>4. QED
    BY <2>1, <2>3
<1>2. PICK x \in T : \A y \in T : ~(<<y, x>> \in R)
  <2> HIDE DEF T
  <2>1. IsWellFoundedOn(R, Nat)
    BY NatLessThanWellFounded, Zenon DEF OpToRel
  <2> HIDE DEF R
  <2>2. QED
    BY <1>1, <2>1, WFMin, Zenon
<1>3. \A y \in T : ~(y < x)
  BY <1>1, <1>2
<1>4. PICK e \in ids : x = MaxEvents - e
  BY <1>2
<1>5. ASSUME NEW f \in ids PROVE f <= e
  <2>1. MaxEvents - f \in T
    OBVIOUS
  <2>2. ~(MaxEvents - f < MaxEvents - e)
    BY <1>3, <1>4, <2>1
  <2>3. f \in Int /\ e \in Int /\ MaxEvents \in Int
    BY ConstantTypes DEF Events
  <2> HIDE DEF T, R
  <2>4. QED
    BY <2>2, <2>3
<1>6. QED
  BY <1>4, <1>5, Zenon DEF Highest

-----------------------------------------------------------------------------
(* Steps of the connection.                                                 *)

\* What may be asked of an event that is accounted for when the screen and
\* the batcher keep it and the admission goes on.
LEMMA AccountedStays ==
  ASSUME \A e \in Events : Shown(e) => Shown(e)', UNCHANGED <<pending, batch, admission>>
  PROVE  \A e \in Events : /\ Accounted(e) => Accounted(e)'
                           /\ Waiting(e) => Waiting(e)'
                           /\ Covered(e) => Covered(e)'
BY DEF Accounted, Waiting, Covered

LEMMA ProducerKeeps == ASSUME IInv, ProducerRecords PROVE IInv'
<1>1. UNCHANGED <<view, memory, primary, tombstone, phase, requested, sent, lastEventId,
                  connected, admission, pending, batch, faults>>
  BY DEF ProducerRecords, cursorVars, streamVars, batcherVars
<1>2. head \in Nat /\ head' = head + 1 /\ head' \in Versions
  BY ConstantTypes DEF ProducerRecords, IInv, TypeOK, Versions
<1>3. TypeOK'
  BY <1>1, <1>2 DEF IInv, TypeOK
<1>4. Recorded'
  BY <1>1, <1>2, ConstantTypes DEF IInv, Recorded, TypeOK, Versions, Events
<1>5. CursorsShown' /\ StreamAccounted' /\ PendingClosed' /\ BatchClosed' /\ BatchShaped'
      /\ AdmissionRuns'
  BY <1>1 DEF IInv, CursorsShown, StreamAccounted, PendingClosed, BatchClosed, BatchShaped,
              AdmissionRuns, Accounted, Shown, Waiting, Covered
<1>6. QED
  BY <1>3, <1>4, <1>5 DEF IInv

LEMMA SendRequestKeeps == ASSUME IInv, SendRequest PROVE IInv'
<1>1. UNCHANGED <<head, view, primary, tombstone, sent, lastEventId, connected, admission,
                  pending, batch, faults>>
      /\ phase = "waiting" /\ phase' = "requesting"
  BY DEF SendRequest, batcherVars
<1>2. /\ requested' \in {getCursor, memory} /\ memory' = requested'
  BY DEF SendRequest
<1>3. /\ requested' \in Cursors
      /\ \A e \in Events : e <= requested' => e <= memory \/ e <= primary
  BY <1>2, GetCursor DEF IInv, TypeOK
<1>4. TypeOK'
  BY <1>1, <1>2, <1>3 DEF IInv, TypeOK, Phases
<1>5. CursorsShown'
  BY <1>1, <1>2, <1>3 DEF IInv, CursorsShown, Shown
<1>6. StreamAccounted' /\ Recorded' /\ BatchShaped' /\ AdmissionRuns'
  BY <1>1 DEF IInv, StreamAccounted, Recorded, BatchShaped, AdmissionRuns
<1>7. PendingClosed' /\ BatchClosed'
  BY <1>1 DEF IInv, PendingClosed, BatchClosed, Accounted, Shown, Waiting, Covered
<1>8. QED
  BY <1>4, <1>5, <1>6, <1>7 DEF IInv

LEMMA RequestFailsKeeps == ASSUME IInv, RequestFails PROVE IInv'
<1>1. UNCHANGED <<head, view, memory, primary, tombstone, requested, sent, lastEventId,
                  connected, admission, pending, batch>>
      /\ phase = "requesting" /\ phase' = "waiting"
  BY DEF RequestFails, batcherVars, cursorVars
<1>2. faults' \in 0 .. MaxFaults
  BY ConstantTypes DEF RequestFails, IInv, TypeOK
<1>3. TypeOK'
  BY <1>1, <1>2 DEF IInv, TypeOK, Phases
<1>4. CursorsShown' /\ StreamAccounted' /\ Recorded' /\ BatchShaped' /\ AdmissionRuns'
  BY <1>1 DEF IInv, CursorsShown, StreamAccounted, Recorded, BatchShaped, AdmissionRuns, Shown
<1>5. PendingClosed' /\ BatchClosed'
  BY <1>1 DEF IInv, PendingClosed, BatchClosed, Accounted, Shown, Waiting, Covered
<1>6. QED
  BY <1>3, <1>4, <1>5 DEF IInv

LEMMA ConnectKeeps == ASSUME IInv, Connect PROVE IInv'
<1>1. UNCHANGED <<head, view, memory, primary, tombstone, requested, pending, batch, faults>>
      /\ phase = "requesting" /\ phase' = "open" /\ lastEventId' = requested
  BY DEF Connect, batcherVars, cursorVars
<1>2. \A e \in Events : Shown(e)' <=> Shown(e)
  BY <1>1, ViewStays
<1>3. admission.status # "running" /\ batch.stage # "gated"
  BY <1>1 DEF IInv, AdmissionRuns, BatchShaped
<1>4. CASE requested # Null
  <2>1. sent' = requested /\ connected' = TRUE /\ admission' = admission
    BY <1>4 DEF Connect
  <2>2. TypeOK'
    BY <1>1, <2>1 DEF IInv, TypeOK, Phases, Cursors
  <2>3. StreamAccounted'
    BY <1>1, <1>2, <2>1
       DEF IInv, TypeOK, Cursors, Versions, CursorsShown, StreamAccounted, Accounted
  <2>4. PendingClosed' /\ BatchClosed'
    BY <1>1, <1>2, <2>1 DEF IInv, PendingClosed, BatchClosed, Accounted, Waiting, Covered
  <2>5. CursorsShown' /\ Recorded' /\ BatchShaped' /\ AdmissionRuns'
    BY <1>1, <1>2, <1>3, <2>1 DEF IInv, CursorsShown, Recorded, BatchShaped, AdmissionRuns
  <2>6. QED
    BY <2>2, <2>3, <2>4, <2>5 DEF IInv
<1>5. CASE requested = Null
  <2>1. sent' = head /\ connected' = FALSE /\ admission' = [status |-> "running", from |-> head]
    BY <1>5 DEF Connect
  <2>2. TypeOK'
    BY <1>1, <2>1 DEF IInv, TypeOK, Phases, Cursors
  <2>3. \A e \in Events : e <= head => Covered(e)'
    BY <1>1, <2>1 DEF Covered
  <2>4. StreamAccounted'
    BY <1>1, <1>5, <2>1, <2>3, ConstantTypes
       DEF IInv, TypeOK, Versions, StreamAccounted, Accounted
  <2>5. \A e \in pending : e <= head /\ e \in Events
    BY DEF IInv, Recorded, TypeOK
  <2>6. PendingClosed'
    <3>1. ASSUME NEW e \in pending', NEW f \in Events, f < e PROVE Accounted(f)'
      <4>1. e <= head /\ e \in Int /\ f \in Int /\ head \in Int
        BY <1>1, <2>5 DEF Events, IInv, TypeOK, Versions
      <4>2. QED
        BY <2>3, <3>1, <4>1 DEF Accounted
    <3>2. QED
      BY <3>1 DEF PendingClosed
  <2>7. BatchClosed'
    BY <1>1, <1>2, <1>3 DEF IInv, BatchClosed
  <2>8. CursorsShown' /\ Recorded' /\ BatchShaped' /\ AdmissionRuns'
    BY <1>1, <1>2, <1>3, <1>5, <2>1
       DEF IInv, CursorsShown, Recorded, BatchShaped, AdmissionRuns, TypeOK, Versions
  <2>9. QED
    BY <2>2, <2>4, <2>6, <2>7, <2>8 DEF IInv
<1>6. QED
  BY <1>4, <1>5

LEMMA DeliverKeeps == ASSUME IInv, NEW e \in Events, Deliver(e) PROVE IInv'
<1>1. UNCHANGED <<head, view, memory, primary, tombstone, phase, requested, connected,
                  admission, batch, faults>>
      /\ phase = "open" /\ e <= sent + 1 /\ e <= head
      /\ sent' = IF e > sent THEN e ELSE sent
  BY DEF Deliver, cursorVars
<1>2. /\ e \in Int /\ e >= 1 /\ sent \in Int /\ lastEventId \in Int /\ Null = 0
      /\ e \in Versions /\ e \in Cursors /\ pending \in SUBSET Events
  BY ConstantTypes DEF IInv, TypeOK, Versions, Events, Cursors
<1>3. \/ lastEventId # Null /\ e <= lastEventId /\ UNCHANGED <<lastEventId, pending>>
      \/ lastEventId' = e /\ enqueue(e)
  BY DEF Deliver
<1>4. \/ pending' = pending
      \/ pending' = pending \cup {e}
  BY <1>3 DEF enqueue
<1>5. \A f \in Events : Accounted(f) => Accounted(f)'
  BY <1>1, <1>4 DEF Accounted, Shown, Waiting, Covered
<1>6. lastEventId <= sent /\ \A f \in Events : f <= sent => Accounted(f)
  BY <1>1 DEF IInv, StreamAccounted
<1>7. Accounted(e)'
  <2>1. CASE lastEventId # Null /\ e <= lastEventId
    BY <1>2, <1>5, <1>6, <2>1
  <2>2. CASE enqueue(e)
    BY <1>1, <2>2 DEF enqueue, Accounted, Waiting
  <2>3. QED
    BY <1>3, <2>1, <2>2
<1>8. StreamAccounted'
  <2>1. ASSUME NEW f \in Events, f <= sent' PROVE Accounted(f)'
    <3>1. f <= sent \/ f = e
      BY <1>1, <1>2, <2>1 DEF Events
    <3>2. QED
      BY <1>5, <1>6, <1>7, <3>1
  <2>2. lastEventId' <= sent'
    BY <1>1, <1>2, <1>3, <1>6
  <2>3. QED
    BY <2>1, <2>2 DEF StreamAccounted
<1>9. PendingClosed'
  <2>1. ASSUME admission.status # "rejected", NEW d \in pending', NEW f \in Events, f < d
        PROVE  Accounted(f)'
    <3>1. CASE d \in pending
      BY <1>5, <2>1, <3>1 DEF IInv, PendingClosed
    <3>2. CASE d = e
      <4>1. f <= sent
        BY <1>1, <1>2, <2>1, <3>2 DEF Events
      <4>2. QED
        BY <1>5, <1>6, <4>1
    <3>3. QED
      BY <1>4, <2>1, <3>1, <3>2
  <2>2. QED
    BY <1>1, <2>1 DEF PendingClosed
<1>10. TypeOK'
  BY <1>1, <1>2, <1>3, <1>4 DEF IInv, TypeOK
<1>11. Recorded'
  BY <1>1, <1>4 DEF IInv, Recorded
<1>12. CursorsShown' /\ BatchClosed' /\ BatchShaped' /\ AdmissionRuns'
  BY <1>1 DEF IInv, CursorsShown, BatchClosed, BatchShaped, AdmissionRuns, Shown, Covered
<1>13. QED
  BY <1>8, <1>9, <1>10, <1>11, <1>12 DEF IInv

\* A batch of an older epoch is refreshed, but acknowledges nothing.
LEMMA ForgottenBatch ==
  ASSUME TypeOK
  PROVE  /\ Forgotten \in [ids : SUBSET Events, stage : {"none", "gated", "refreshing"},
                           from : Versions, current : BOOLEAN]
         /\ Forgotten.current = FALSE /\ Forgotten.ids = batch.ids
         /\ Forgotten.stage = batch.stage /\ Forgotten.from = batch.from
<1>1. batch \in [ids : SUBSET Events, stage : {"none", "gated", "refreshing"},
                 from : Versions, current : BOOLEAN]
  BY DEF TypeOK
<1>2. Forgotten \in [ids : SUBSET Events, stage : {"none", "gated", "refreshing"},
                     from : Versions, current : BOOLEAN]
  BY <1>1 DEF Forgotten
<1>3. /\ Forgotten.current = FALSE /\ Forgotten.ids = batch.ids
      /\ Forgotten.stage = batch.stage /\ Forgotten.from = batch.from
  BY <1>1 DEF Forgotten
<1>4. QED
  BY <1>2, <1>3

\* The connection is closed; the batcher and the cursors stay.
LEMMA Closed ==
  ASSUME IInv, NEW p \in {"closing", "waiting", "resyncing"}, phase' = p, connected' = FALSE,
         faults' \in 0 .. MaxFaults, admission.status = "running" => p # "waiting",
         UNCHANGED <<head, view, memory, primary, tombstone, requested, sent, lastEventId,
                     admission, pending, batch>>
  PROVE  IInv'
<1>1. TypeOK'
  BY DEF IInv, TypeOK, Phases
<1>2. CursorsShown' /\ StreamAccounted' /\ Recorded' /\ BatchShaped' /\ AdmissionRuns'
  BY DEF IInv, CursorsShown, StreamAccounted, Recorded, BatchShaped, AdmissionRuns, Shown
<1>3. PendingClosed' /\ BatchClosed'
  BY DEF IInv, PendingClosed, BatchClosed, Accounted, Shown, Waiting, Covered
<1>4. QED
  BY <1>1, <1>2, <1>3 DEF IInv

LEMMA StreamEndsKeeps == ASSUME IInv, StreamEnds PROVE IInv'
<1>1. UNCHANGED <<head, view, memory, primary, tombstone, requested, sent, lastEventId,
                  admission, pending, batch>>
      /\ connected' = FALSE /\ phase' = IF AdmissionPending THEN "closing" ELSE "waiting"
  BY DEF StreamEnds, cursorVars, batcherVars
<1>2. faults' \in 0 .. MaxFaults
  BY ConstantTypes DEF StreamEnds, IInv, TypeOK
<1>3. AdmissionPending <=> admission.status = "running"
  BY DEF AdmissionPending, IInv, AdmissionRuns
<1>4. QED
  BY <1>1, <1>2, <1>3, Closed

\* A resynchronization forgets the cursors, what waits, and its batch.
LEMMA ResetKeeps ==
  ASSUME IInv, ClearCursor, phase' = "waiting", pending' = {}, connected' = FALSE,
         faults' \in 0 .. MaxFaults, UNCHANGED <<head, requested, sent, lastEventId>>,
         view' \in [Resources -> Versions], \A e \in Events : Shown(e) => Shown(e)',
         admission'.status # "running",
         admission' \in [status : {"resolved", "running", "rejected"}, from : Versions],
         admission'.from <= head,
         batch' \in [ids : SUBSET Events, stage : {"none", "gated", "refreshing"},
                     from : Versions, current : BOOLEAN],
         batch'.current = FALSE, batch'.stage # "gated", batch'.stage = "none" => batch'.ids = {},
         batch'.stage # "none" => batch'.ids # {},
         \A e \in batch'.ids : e <= head, batch'.from <= head,
         batch'.stage = "refreshing" => \A e \in batch'.ids : e <= batch'.from
  PROVE  IInv'
<1>1. /\ memory' \in Cursors /\ primary' \in Cursors /\ tombstone' \in BOOLEAN
      /\ \A e \in Events : e <= memory' \/ e <= primary' => e <= primary
  BY Cleared DEF IInv
<1>2. TypeOK'
  BY <1>1 DEF IInv, TypeOK, Phases
<1>3. CursorsShown'
  BY <1>1 DEF IInv, CursorsShown
<1>4. StreamAccounted' /\ Recorded' /\ BatchShaped' /\ AdmissionRuns'
  BY DEF IInv, StreamAccounted, Recorded, BatchShaped, AdmissionRuns
<1>5. PendingClosed' /\ BatchClosed'
  BY DEF PendingClosed, BatchClosed
<1>6. QED
  BY <1>2, <1>3, <1>4, <1>5 DEF IInv

LEMMA ResyncKeeps == ASSUME IInv, ResyncRequired PROVE IInv'
<1>1. UNCHANGED <<head, view, requested, sent, lastEventId, admission>> /\ connected' = FALSE
  BY DEF ResyncRequired
<1>2. faults' \in 0 .. MaxFaults
  BY ConstantTypes DEF ResyncRequired, IInv, TypeOK
<1>3. AdmissionPending <=> admission.status = "running"
  BY DEF AdmissionPending, IInv, AdmissionRuns
<1>4. CASE AdmissionPending
  BY <1>1, <1>2, <1>4, Closed DEF ResyncRequired, cursorVars, batcherVars
<1>5. CASE ~AdmissionPending
  <2>1. phase' = "waiting" /\ ClearCursor /\ pending' = {} /\ batch' = Forgotten
    BY <1>5 DEF ResyncRequired
  <2>2. /\ batch' \in [ids : SUBSET Events, stage : {"none", "gated", "refreshing"},
                       from : Versions, current : BOOLEAN]
        /\ batch'.current = FALSE /\ batch'.ids = batch.ids /\ batch'.stage = batch.stage
        /\ batch'.from = batch.from /\ (batch'.stage = "none" => batch'.ids = {})
    BY <2>1, ForgottenBatch DEF IInv, BatchShaped
  <2>3. view' \in [Resources -> Versions] /\ \A e \in Events : Shown(e) => Shown(e)'
    BY <1>1, ViewStays DEF IInv, TypeOK
  <2>4. /\ admission' \in [status : {"resolved", "running", "rejected"}, from : Versions]
        /\ admission'.from <= head /\ admission'.status # "running"
    BY <1>1, <1>3, <1>5 DEF IInv, TypeOK, Recorded
  <2>5. /\ batch'.stage # "gated" /\ (batch'.stage # "none" => batch'.ids # {})
        /\ \A e \in batch'.ids : e <= head
        /\ batch'.from <= head
        /\ (batch'.stage = "refreshing" => \A e \in batch'.ids : e <= batch'.from)
    BY <1>3, <1>5, <2>2 DEF IInv, BatchShaped, Recorded
  <2>6. QED
    BY <1>1, <1>2, <2>1, <2>2, <2>3, <2>4, <2>5, ResetKeeps
<1>6. QED
  BY <1>4, <1>5

\* A batch behind the gate goes on; another stays as it is.
LEMMA GateTyped ==
  ASSUME TypeOK, NEW b \in [ids : SUBSET Events, stage : {"none", "gated", "refreshing"},
                            from : Versions, current : BOOLEAN],
         NEW c, c = [b EXCEPT !.stage = "refreshing", !.from = head]
  PROVE  /\ c \in [ids : SUBSET Events, stage : {"none", "gated", "refreshing"},
                   from : Versions, current : BOOLEAN]
         /\ c.ids = b.ids /\ c.current = b.current /\ c.stage = "refreshing" /\ c.from = head
BY DEF TypeOK

LEMMA AdmissionSucceedsKeeps == ASSUME IInv, AdmissionSucceeds PROVE IInv'
<1>1. /\ admission.status = "running" /\ admission.from \in Versions
      /\ TypeOK /\ BatchShaped /\ AdmissionRuns /\ Recorded
  BY DEF AdmissionSucceeds, IInv, TypeOK
<1>2. UNCHANGED <<head, requested, sent, lastEventId, faults>>
  BY DEF AdmissionSucceeds
<1>3. /\ admission' = Settled("resolved") /\ admission'.status = "resolved"
      /\ admission' \in [status : {"resolved", "running", "rejected"}, from : Versions]
      /\ admission'.from <= head
  BY <1>1, ConstantTypes DEF AdmissionSucceeds, Settled, TypeOK, Versions
<1>4. /\ view' \in [Resources -> Versions]
      /\ \A e \in Events : Shown(e) => Shown(e)'
      /\ \A e \in Events : e <= admission.from => Shown(e)'
  BY <1>1, RefreshShows, ConstantTypes DEF AdmissionSucceeds
<1>5. \A e \in Events : Covered(e) => Shown(e)'
  BY <1>4 DEF Covered
<1>6. batch \in [ids : SUBSET Events, stage : {"none", "gated", "refreshing"},
                 from : Versions, current : BOOLEAN]
  BY <1>1 DEF TypeOK
<1>7. CASE phase = "resyncing"
  <2>1. /\ ClearCursor /\ pending' = {} /\ phase' = "waiting" /\ connected' = FALSE
        /\ faults' \in 0 .. MaxFaults
    BY <1>1, <1>2, <1>7 DEF AdmissionSucceeds, TypeOK
  <2>2. /\ Forgotten \in [ids : SUBSET Events, stage : {"none", "gated", "refreshing"},
                          from : Versions, current : BOOLEAN]
        /\ Forgotten.current = FALSE /\ Forgotten.ids = batch.ids
        /\ Forgotten.stage = batch.stage /\ Forgotten.from = batch.from
    BY <1>1, ForgottenBatch
  <2>3. /\ batch' \in [ids : SUBSET Events, stage : {"none", "gated", "refreshing"},
                       from : Versions, current : BOOLEAN]
        /\ batch'.current = FALSE /\ batch'.ids = batch.ids
        /\ batch'.stage = IF batch.stage = "gated" THEN "refreshing" ELSE batch.stage
        /\ batch'.from = IF batch.stage = "gated" THEN head ELSE batch.from
    <3>1. batch' = [Forgotten EXCEPT !.stage = IF @ = "gated" THEN "refreshing" ELSE @,
                                     !.from = IF batch.stage = "gated" THEN head ELSE @]
      BY <1>7 DEF AdmissionSucceeds
    <3>2. head \in Versions
      BY <1>1 DEF TypeOK
    <3> HIDE DEF Forgotten
    <3>3. QED
      BY <2>2, <3>1, <3>2
  <2>4. /\ \A e \in batch'.ids : e <= head
        /\ batch'.from <= head /\ batch'.stage # "gated"
        /\ batch'.stage = "none" => batch'.ids = {}
        /\ batch'.stage # "none" => batch'.ids # {}
        /\ batch'.stage = "refreshing" => \A e \in batch'.ids : e <= batch'.from
    BY <1>1, <2>3 DEF BatchShaped, Recorded, TypeOK, Versions
  <2>5. QED
    BY <1>2, <1>3, <1>4, <2>1, <2>3, <2>4, ResetKeeps
<1>8. CASE phase # "resyncing"
  <2>1. /\ UNCHANGED <<memory, primary, tombstone, pending>> /\ GateOpens
        /\ connected' = (phase = "open")
        /\ phase' = IF phase = "open" THEN "open" ELSE "waiting"
    BY <1>8 DEF AdmissionSucceeds, cursorVars
  <2>2. /\ batch' \in [ids : SUBSET Events, stage : {"none", "gated", "refreshing"},
                       from : Versions, current : BOOLEAN]
        /\ batch'.ids = batch.ids /\ batch'.current = batch.current
        /\ IF batch.stage = "gated" THEN batch'.stage = "refreshing" /\ batch'.from = head
           ELSE batch'.stage = batch.stage /\ batch'.from = batch.from
    BY <1>1, <1>6, <2>1, GateTyped DEF GateOpens
  <2>3. \A e \in Events : Accounted(e) => Accounted(e)'
    BY <1>4, <1>5, <2>1, <2>2 DEF Accounted, Waiting
  <2>4. TypeOK'
    BY <1>1, <1>2, <1>3, <1>4, <2>1, <2>2 DEF TypeOK, Phases
  <2>5. CursorsShown'
    BY <1>2, <1>4, <2>1 DEF IInv, CursorsShown
  <2>6. StreamAccounted' /\ PendingClosed'
    BY <1>1, <1>2, <2>1, <2>3 DEF IInv, StreamAccounted, PendingClosed
  <2>7. BatchClosed'
    BY <1>4, <1>5, <1>6, <2>2 DEF IInv, BatchClosed
  <2>8. Recorded' /\ BatchShaped'
    BY <1>1, <1>2, <1>3, <2>1, <2>2 DEF Recorded, BatchShaped, TypeOK, Versions
  <2>9. AdmissionRuns'
    BY <1>3, <2>1 DEF AdmissionRuns
  <2>10. QED
    BY <2>4, <2>5, <2>6, <2>7, <2>8, <2>9 DEF IInv
<1>9. QED
  BY <1>7, <1>8

\* A batch that is rejected waits again, if its epoch is still the current one.
LEMMA RetriedClosed ==
  ASSUME IInv, pending' = Retried, batch' = NoBatch, batch.stage # "none",
         view' = view, head' = head,
         \/ admission' = admission /\ batch.stage = "refreshing"
         \/ admission'.status = "rejected"
  PROVE  /\ \A e \in Events : Waiting(e) => Waiting(e)'
         /\ PendingClosed' /\ BatchClosed' /\ BatchShaped'
         /\ \A e \in pending' : e \in Events /\ e <= head
<1>1. \A e \in Events : Waiting(e) => Waiting(e)'
  BY DEF Waiting, Retried
<1>2. \A e \in pending' : e \in Events /\ e <= head
  BY DEF Retried, IInv, TypeOK, Recorded
<1>3. \A e \in Events : Shown(e)' <=> Shown(e)
  BY ViewStays
<1>4. PendingClosed'
  <2>1. ASSUME admission' = admission, batch.stage = "refreshing",
               admission.status # "rejected", NEW e \in pending', NEW f \in Events, f < e
        PROVE  Accounted(f)'
    <3>1. Accounted(f) => Accounted(f)'
      BY <1>1, <1>3, <2>1 DEF Accounted, Covered
    <3>2. CASE e \in pending
      BY <2>1, <3>1, <3>2 DEF IInv, PendingClosed
    <3>3. CASE batch.current /\ e \in batch.ids
      <4>1. Shown(f) \/ f \in batch.ids
        BY <2>1, <3>3 DEF IInv, BatchClosed
      <4>2. QED
        BY <3>1, <3>3, <4>1 DEF Accounted, Waiting
    <3>4. QED
      BY <2>1, <3>2, <3>3 DEF Retried
  <2>2. QED
    BY <2>1 DEF PendingClosed
<1>5. BatchClosed' /\ BatchShaped'
  BY DEF BatchClosed, BatchShaped, NoBatch
<1>6. QED
  BY <1>1, <1>2, <1>4, <1>5

LEMMA NoBatchTyped ==
  NoBatch \in [ids : SUBSET Events, stage : {"none", "gated", "refreshing"},
               from : Versions, current : BOOLEAN]
BY ConstantTypes DEF NoBatch

LEMMA BatchRejectedKeeps == ASSUME IInv, BatchRejected PROVE IInv'
<1>1. UNCHANGED <<head, view, memory, primary, tombstone, phase, requested, sent, lastEventId,
                  connected, admission>>
      /\ batch.stage = "refreshing" /\ pending' = Retried /\ batch' = NoBatch
  BY DEF BatchRejected, cursorVars, streamVars
<1>2. faults' \in 0 .. MaxFaults
  BY ConstantTypes DEF BatchRejected, IInv, TypeOK
<1>3. /\ \A e \in Events : Waiting(e) => Waiting(e)'
      /\ PendingClosed' /\ BatchClosed' /\ BatchShaped'
      /\ \A e \in pending' : e \in Events /\ e <= head
  BY <1>1, RetriedClosed
<1>4. TypeOK'
  BY <1>1, <1>2, <1>3, NoBatchTyped DEF IInv, TypeOK
<1>5. \A e \in Events : Accounted(e) => Accounted(e)'
  BY <1>1, <1>3 DEF Accounted, Shown, Covered
<1>6. CursorsShown' /\ StreamAccounted' /\ AdmissionRuns'
  BY <1>1, <1>5 DEF IInv, CursorsShown, StreamAccounted, AdmissionRuns, Shown
<1>7. Recorded'
  BY <1>1, <1>3, ConstantTypes DEF IInv, Recorded, NoBatch, TypeOK, Versions
<1>8. QED
  BY <1>3, <1>4, <1>6, <1>7 DEF IInv

LEMMA AdmissionFailsKeeps == ASSUME IInv, AdmissionFails PROVE IInv'
<1>1. /\ UNCHANGED <<head, view, requested, sent, lastEventId, connected>>
      /\ admission.status = "running" /\ phase' = "waiting" /\ ~connected
      /\ TypeOK /\ BatchShaped /\ Recorded
  BY DEF AdmissionFails, IInv, AdmissionRuns
<1>2. faults' \in 0 .. MaxFaults
  BY ConstantTypes DEF AdmissionFails, IInv, TypeOK
<1>3. /\ admission'.status = "rejected" /\ admission'.from = 0 /\ admission'.from <= head
      /\ admission' \in [status : {"resolved", "running", "rejected"}, from : Versions]
  BY <1>1, ConstantTypes DEF AdmissionFails, Settled, TypeOK, Versions
<1>4. CASE phase = "resyncing"
  <2>1. /\ ClearCursor /\ pending' = {}
        /\ batch' = IF batch.stage = "gated" THEN NoBatch ELSE Forgotten
    BY <1>4 DEF AdmissionFails
  <2>2. /\ batch' \in [ids : SUBSET Events, stage : {"none", "gated", "refreshing"},
                       from : Versions, current : BOOLEAN]
        /\ batch'.current = FALSE /\ batch'.stage # "gated"
        /\ batch'.stage = "none" => batch'.ids = {}
        /\ batch'.stage # "none" => batch'.ids # {}
        /\ \A e \in batch'.ids : e <= head
        /\ batch'.from <= head
        /\ batch'.stage = "refreshing" => \A e \in batch'.ids : e <= batch'.from
    <3>1. CASE batch.stage = "gated"
      BY <1>1, <2>1, <3>1, NoBatchTyped, ConstantTypes DEF NoBatch, TypeOK, Versions
    <3>2. CASE batch.stage # "gated"
      BY <1>1, <2>1, <3>2, ForgottenBatch DEF BatchShaped, Recorded
    <3>3. QED
      BY <3>1, <3>2
  <2>3. view' \in [Resources -> Versions] /\ \A e \in Events : Shown(e) => Shown(e)'
    BY <1>1, ViewStays DEF TypeOK
  <2>4. connected' = FALSE
    BY <1>1 DEF TypeOK
  <2>5. QED
    BY <1>1, <1>2, <1>3, <2>1, <2>2, <2>3, <2>4, ResetKeeps
<1>5. CASE phase # "resyncing"
  <2>1. GateRejects /\ UNCHANGED <<memory, primary, tombstone>>
    BY <1>5 DEF AdmissionFails, cursorVars
  <2>2. /\ PendingClosed' /\ BatchClosed' /\ BatchShaped'
        /\ \A e \in pending' : e \in Events /\ e <= head
        /\ batch' = NoBatch \/ batch' = batch
    <3>1. CASE batch.stage = "gated"
      BY <1>1, <1>3, <2>1, <3>1, RetriedClosed DEF GateRejects
    <3>2. CASE batch.stage # "gated"
      <4>1. UNCHANGED <<pending, batch>>
        BY <2>1, <3>2 DEF GateRejects, batcherVars
      <4>2. \A e \in Events : Shown(e)' <=> Shown(e)
        BY <1>1, ViewStays
      <4>3. PendingClosed' /\ BatchClosed'
        BY <1>3, <3>2, <4>1, <4>2 DEF IInv, PendingClosed, BatchClosed
      <4>4. BatchShaped' /\ \A e \in pending' : e \in Events /\ e <= head
        BY <1>1, <3>2, <4>1 DEF BatchShaped, Recorded, TypeOK
      <4>5. QED
        BY <4>1, <4>3, <4>4
    <3>3. QED
      BY <3>1, <3>2
  <2>3. TypeOK'
    BY <1>1, <1>2, <1>3, <2>1, <2>2, NoBatchTyped DEF TypeOK, Phases
  <2>4. Recorded'
    BY <1>1, <1>3, <2>2, ConstantTypes DEF Recorded, NoBatch, TypeOK, Versions
  <2>5. CursorsShown' /\ StreamAccounted' /\ AdmissionRuns'
    BY <1>1, <1>3, <2>1 DEF IInv, CursorsShown, StreamAccounted, AdmissionRuns, Shown
  <2>6. QED
    BY <2>2, <2>3, <2>4, <2>5 DEF IInv
<1>6. QED
  BY <1>4, <1>5

LEMMA FlushKeeps == ASSUME IInv, flushNow PROVE IInv'
<1>1. UNCHANGED <<head, view, memory, primary, tombstone, phase, requested, sent, lastEventId,
                  connected, admission, faults>>
      /\ batch.stage = "none" /\ pending # {} /\ TypeOK /\ Recorded
  BY DEF flushNow, cursorVars, streamVars, IInv
<1>2. \A e \in Events : Shown(e)' <=> Shown(e)
  BY <1>1, ViewStays
<1>3. CursorsShown' /\ AdmissionRuns'
  BY <1>1, <1>2 DEF IInv, CursorsShown, AdmissionRuns
<1>4. CASE UNCHANGED batcherVars
  <2>1. UNCHANGED <<pending, batch>>
    BY <1>4 DEF batcherVars
  <2>2. \A e \in Events : Accounted(e) => Accounted(e)'
    BY <1>1, <1>2, <2>1 DEF Accounted, Waiting, Covered
  <2>3. StreamAccounted' /\ PendingClosed'
    BY <1>1, <2>1, <2>2 DEF IInv, StreamAccounted, PendingClosed
  <2>4. TypeOK' /\ BatchClosed' /\ Recorded' /\ BatchShaped'
    BY <1>1, <1>2, <2>1 DEF IInv, TypeOK, BatchClosed, Recorded, BatchShaped, Covered
  <2>5. QED
    BY <1>3, <2>3, <2>4 DEF IInv
<1>5. CASE /\ pending' = {} /\ batch'.ids = pending /\ batch'.current = TRUE
           /\ batch' \in [ids : SUBSET Events, stage : {"none", "gated", "refreshing"},
                          from : Versions, current : BOOLEAN]
           /\ batch'.from <= head
           /\ \/ batch'.stage = "gated" /\ admission.status = "running"
              \/ batch'.stage = "refreshing" /\ batch'.from = head /\ admission.status = "resolved"
  <2>1. ~batch.current
    BY <1>1 DEF IInv, BatchShaped
  <2>2. \A e \in Events : Accounted(e) => Accounted(e)'
    BY <1>1, <1>2, <1>5, <2>1 DEF Accounted, Waiting, Covered
  <2>3. StreamAccounted' /\ PendingClosed'
    BY <1>1, <1>5, <2>2 DEF IInv, StreamAccounted, PendingClosed
  <2>4. BatchClosed'
    <3>1. ASSUME NEW e \in pending, NEW f \in Events, f < e
          PROVE  Shown(f)' \/ f \in pending \/ (batch'.stage = "gated" /\ Covered(f)')
      <4>1. Accounted(f)
        BY <1>5, <3>1 DEF IInv, PendingClosed
      <4>2. QED
        BY <1>1, <1>2, <1>5, <2>1, <4>1 DEF Accounted, Waiting, Covered
    <3>2. QED
      BY <1>5, <3>1 DEF BatchClosed
  <2>5. TypeOK' /\ Recorded' /\ BatchShaped'
    BY <1>1, <1>5 DEF TypeOK, Recorded, BatchShaped
  <2>6. QED
    BY <1>3, <2>3, <2>4, <2>5 DEF IInv
<1>6. CASE pending' = {} /\ admission.status = "running"
           /\ batch' = [ids |-> pending, stage |-> "gated", from |-> 0, current |-> TRUE]
  BY <1>1, <1>5, <1>6, ConstantTypes DEF TypeOK, Versions
<1>7. CASE pending' = {} /\ admission.status = "resolved"
           /\ batch' = [ids |-> pending, stage |-> "refreshing", from |-> head, current |-> TRUE]
  BY <1>1, <1>5, <1>7 DEF TypeOK, Versions
<1>8. QED
  BY <1>4, <1>6, <1>7 DEF flushNow

\* What a batch made stale has been read after its events were recorded, and
\* no event below its highest is missing.
LEMMA BatchAcceptedKeeps == ASSUME IInv, BatchAccepted PROVE IInv'
<1>1. UNCHANGED <<head, phase, requested, sent, lastEventId, connected, admission, pending, faults>>
      /\ batch.stage = "refreshing" /\ batch' = NoBatch
      /\ TypeOK /\ BatchShaped /\ Recorded
  BY DEF BatchAccepted, streamVars, IInv
<1>2. /\ batch \in [ids : SUBSET Events, stage : {"none", "gated", "refreshing"},
                    from : Versions, current : BOOLEAN]
      /\ batch.ids # {} /\ \A e \in batch.ids : e <= batch.from
  BY <1>1 DEF TypeOK, BatchShaped
<1>3. \A e \in batch.ids : e \in Events /\ Touches[e] \subseteq StaleAfter(batch.ids)
  BY <1>2 DEF StaleAfter
<1>4. StaleAfter(batch.ids) \in SUBSET Resources
  BY <1>2, ConstantTypes DEF StaleAfter
<1>5. /\ view' \in [Resources -> Versions]
      /\ \A e \in Events : Shown(e) => Shown(e)'
      /\ \A e \in batch.ids : Shown(e)'
  BY <1>1, <1>2, <1>3, <1>4, RefreshShows DEF BatchAccepted
<1>6. \A e \in Events : Accounted(e) => Accounted(e)'
  BY <1>1, <1>5 DEF Accounted, Waiting, Covered
<1>7. /\ memory' \in Cursors /\ primary' \in Cursors /\ tombstone' \in BOOLEAN
      /\ \A e \in Events : e <= memory' \/ e <= primary' => Shown(e)'
  <2>1. CASE batch.current /\ Acknowledge(Highest(batch.ids))
    <3> DEFINE h == Highest(batch.ids)
    <3>1. h \in batch.ids /\ h \in Events /\ h \in Cursors
      BY <1>2, HighestIsIn, ConstantTypes DEF Events, Cursors, Versions
    <3>2. Acknowledge(h)
      BY <2>1
    <3> HIDE DEF h
    <3>3. \A e \in Events : e <= h => Shown(e)'
      <4>1. ASSUME NEW e \in Events, e <= h PROVE Shown(e)'
        <5>1. CASE e = h
          BY <1>5, <3>1, <5>1
        <5>2. CASE e # h
          <6>1. e < h
            BY <3>1, <4>1, <5>2 DEF Events
          <6>2. Shown(e) \/ e \in batch.ids
            BY <1>1, <2>1, <3>1, <6>1 DEF IInv, BatchClosed
          <6>3. QED
            BY <1>5, <6>2
        <5>3. QED
          BY <5>1, <5>2
      <4>2. QED
        BY <4>1
    <3>4. QED
      BY <1>1, <1>5, <3>1, <3>2, <3>3, Acknowledged DEF IInv, CursorsShown
  <2>2. CASE UNCHANGED <<memory, primary, tombstone>>
    BY <1>1, <1>5, <2>2 DEF IInv, CursorsShown, TypeOK
  <2>3. QED
    BY <2>1, <2>2 DEF BatchAccepted, cursorVars
<1>8. TypeOK'
  BY <1>1, <1>5, <1>7, NoBatchTyped DEF TypeOK
<1>9. CursorsShown'
  BY <1>1, <1>5, <1>7 DEF IInv, CursorsShown
<1>10. StreamAccounted' /\ PendingClosed' /\ AdmissionRuns'
  BY <1>1, <1>6 DEF IInv, StreamAccounted, PendingClosed, AdmissionRuns
<1>11. BatchClosed' /\ BatchShaped'
  BY <1>1 DEF BatchClosed, BatchShaped, NoBatch
<1>12. Recorded'
  BY <1>1, ConstantTypes DEF Recorded, NoBatch, TypeOK, Versions
<1>13. QED
  BY <1>8, <1>9, <1>10, <1>11, <1>12 DEF IInv

LEMMA RemountKeeps == ASSUME IInv, Remount PROVE IInv'
<1>1. /\ phase' = "waiting" /\ connected' = FALSE /\ UNCHANGED <<head, view>>
      /\ requested' = Null /\ sent' = 0 /\ lastEventId' = Null
      /\ admission' = Settled("resolved") /\ pending' = {} /\ batch' = NoBatch
      /\ TypeOK
  BY DEF Remount, IInv
<1>2. \A e \in Events : (Shown(e)' <=> Shown(e)) /\ ~(e <= Null)
  BY <1>1, ViewStays, ConstantTypes DEF Events
<1>3. /\ memory' \in Cursors /\ primary' \in Cursors /\ tombstone' \in BOOLEAN
      /\ \A e \in Events : e <= memory' \/ e <= primary' => e <= memory \/ e <= primary
  BY <1>2, ConstantTypes DEF Remount, cursorVars, IInv, TypeOK
<1>4. /\ admission' \in [status : {"resolved", "running", "rejected"}, from : Versions]
      /\ admission'.status = "resolved" /\ admission'.from = 0 /\ faults' \in 0 .. MaxFaults
  BY <1>1, ConstantTypes DEF Settled, Remount, TypeOK
<1>5. TypeOK'
  BY <1>1, <1>3, <1>4, NoBatchTyped, ConstantTypes DEF TypeOK, Phases
<1>6. CursorsShown'
  BY <1>1, <1>2, <1>3 DEF IInv, CursorsShown
<1>7. StreamAccounted' /\ PendingClosed' /\ BatchClosed' /\ BatchShaped' /\ AdmissionRuns'
  BY <1>1, <1>4
     DEF StreamAccounted, PendingClosed, BatchClosed, BatchShaped, AdmissionRuns, NoBatch
<1>8. Recorded'
  BY <1>1, <1>4, ConstantTypes DEF Recorded, NoBatch, TypeOK, Versions
<1>9. QED
  BY <1>5, <1>6, <1>7, <1>8 DEF IInv

LEMMA StutterKeeps == ASSUME IInv, UNCHANGED vars PROVE IInv'
<1>1. UNCHANGED <<head, view, memory, primary, tombstone, phase, requested, sent, lastEventId,
                  connected, admission, pending, batch, faults>>
  BY DEF vars, cursorVars, streamVars, batcherVars
<1>2. QED
  BY <1>1 DEF IInv, TypeOK, CursorsShown, StreamAccounted, PendingClosed, BatchClosed, Recorded,
              BatchShaped, AdmissionRuns, Accounted, Shown, Waiting, Covered

-----------------------------------------------------------------------------
(* The theorems.                                                            *)

\* Every step of the client and of the producer keeps the invariant.
THEOREM EventsAccounted == Spec => []IInv
<1>1. IInv /\ [Next]_vars => IInv'
  BY ProducerKeeps, SendRequestKeeps, RequestFailsKeeps, ConnectKeeps, DeliverKeeps,
     StreamEndsKeeps, ResyncKeeps, AdmissionSucceedsKeeps, AdmissionFailsKeeps, FlushKeeps,
     BatchAcceptedKeeps, BatchRejectedKeeps, RemountKeeps, StutterKeeps DEF Next
<1>2. QED
  BY <1>1, InitIInv, PTL DEF Spec

\* Every variable of the client keeps its type.
THEOREM ClientTyped == Spec => []TypeOK
<1>1. IInv => TypeOK
  BY DEF IInv
<1>2. QED
  BY <1>1, EventsAccounted, PTL

\* A cursor covers only what has been shown (batch.ts acknowledges a batch
\* after its refresh, cursor-storage.ts keeps the latest cursor).
THEOREM CursorsCoverShown == Spec => []AcknowledgedIsShown
<1>1. IInv => AcknowledgedIsShown
  BY DEF IInv, CursorsShown, AcknowledgedIsShown
<1>2. QED
  BY <1>1, EventsAccounted, PTL

\* While the hook reports "connected", every event that was sent is shown or
\* waits in the batcher (lifecycle.ts, use-earn-realtime.ts).
THEOREM ConnectedSkipsNothing == Spec => []NothingSkipped
<1>1. IInv => NothingSkipped
  BY DEF IInv, StreamAccounted, AdmissionRuns, Accounted, Covered, NothingSkipped
<1>2. QED
  BY <1>1, EventsAccounted, PTL

-----------------------------------------------------------------------------
(* What the client can stop behind.                                        *)

(* A connection that is ending waits for an admission that still runs, and *)
(* one that is open is admitted or being admitted, with a cursor if the    *)
(* last admission failed.                                                  *)
Attended ==
  /\ phase \in {"closing", "resyncing"} => admission.status = "running"
  /\ phase = "open" => connected \/ admission.status = "running"
  /\ phase = "open" /\ admission.status = "rejected" => requested # Null

(* The client, the producer or an answer that is under way takes the next  *)
(* step towards an event: each line is the guard of an action that         *)
(* Fairness names.                                                         *)
OnItsWay ==
  \/ phase \in {"waiting", "requesting"}
  \/ admission.status = "running"
  \/ phase = "open" /\ sent < head
  \/ batch.stage = "refreshing"
  \/ batch.stage = "none" /\ pending # {} /\ admission.status = "resolved"

StallsOnlyWedged ==
  \A e \in Events : e <= head /\ ~Shown(e) => OnItsWay \/ (Wedged /\ connected)

\* A step leaves every open connection attended.
LEMMA AttendedStep == ASSUME IInv, Attended, [Next]_vars PROVE Attended'
<1>1. CASE Connect
  BY <1>1 DEF Connect, Attended, IInv, AdmissionRuns
<1>2. CASE StreamEnds \/ ResyncRequired
  BY <1>2 DEF StreamEnds, ResyncRequired, AdmissionPending, Attended, IInv, AdmissionRuns
<1>3. CASE AdmissionSucceeds
  <2>1. /\ phase' = IF phase = "open" THEN "open" ELSE "waiting"
        /\ connected' = (phase = "open")
        /\ admission'.status = "resolved"
    BY <1>3 DEF AdmissionSucceeds, Settled
  <2>2. CASE phase = "open"
    <3>1. phase' = "open" /\ connected'
      BY <2>1, <2>2
    <3>2. QED
      BY <2>1, <3>1 DEF Attended
  <2>3. CASE phase # "open"
    <3>1. phase' = "waiting"
      BY <2>1, <2>3
    <3>2. QED
      BY <3>1 DEF Attended
  <2>4. QED
    BY <2>2, <2>3
<1>4. CASE AdmissionFails
  BY <1>4 DEF AdmissionFails, Attended
<1>5. CASE SendRequest \/ RequestFails \/ Remount
  BY <1>5 DEF SendRequest, RequestFails, Remount, Attended
<1>6. CASE ProducerRecords \/ (\E e \in Events : Deliver(e)) \/ flushNow \/ BatchAccepted
           \/ BatchRejected \/ UNCHANGED vars
  <2>1. UNCHANGED <<phase, requested, connected, admission>>
    BY <1>6 DEF ProducerRecords, Deliver, flushNow, BatchAccepted, BatchRejected, vars,
                streamVars
  <2>2. QED
    BY <2>1 DEF Attended
<1>7. QED
  BY <1>1, <1>2, <1>3, <1>4, <1>5, <1>6 DEF Next

\* Whatever is recorded and not shown waits for a step that is due, unless the client
\* is behind an admission that failed: no other combination of the lifecycle, the
\* admission and the batcher leaves an event behind for good (lifecycle.ts, batch.ts,
\* use-earn-realtime.ts:81).
THEOREM OnlyWedgedStops == Spec => []StallsOnlyWedged
<1>1. Init => Attended
  BY DEF Init, Attended, Settled
<1>2. IInv /\ Attended /\ [Next]_vars => Attended'
  BY AttendedStep
<1>3. IInv /\ Attended => StallsOnlyWedged
  <2> SUFFICES ASSUME IInv, Attended, NEW e \in Events, e <= head, ~Shown(e), ~OnItsWay
               PROVE  Wedged /\ connected
    BY DEF StallsOnlyWedged
  <2>1. phase = "open" /\ connected /\ admission.status # "running"
    BY DEF OnItsWay, Attended, IInv, TypeOK, Phases
  <2>2. e <= sent
    BY <2>1, ConstantTypes DEF OnItsWay, IInv, TypeOK, Versions, Events
  <2>3. Waiting(e)
    BY <2>1, <2>2 DEF IInv, StreamAccounted, Accounted, Covered
  <2>4. batch.stage = "none" /\ ~batch.current
    BY <2>1 DEF OnItsWay, IInv, TypeOK, BatchShaped
  <2>5. pending # {} /\ admission.status = "rejected"
    BY <2>1, <2>3, <2>4 DEF Waiting, OnItsWay, IInv, TypeOK
  <2>6. QED
    BY <2>1, <2>5 DEF Attended, Wedged
<1>4. QED
  BY <1>1, <1>2, <1>3, EventsAccounted, PTL DEF Spec
================================================================================
