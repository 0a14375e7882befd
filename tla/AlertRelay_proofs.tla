-------------------------- MODULE AlertRelay_proofs --------------------------
(* Proofs about AlertRelay for every value of its constants: no alert is sent *)
(* inside a window, from the locks; a retried recap is the one that came due  *)
(* (without a state file, or without kills); and, without a state file,       *)
(* nobody is muted untold and a period is reported at most once.              *)
EXTENDS AlertRelay, TLAPS

-----------------------------------------------------------------------------
(* The locks: what a handler knows while it sends.                           *)

\* The queue of every lock is a sequence of processes.
QueuesTyped == eventLocks \in [Alerts -> Seq(Procs)]

\* A handler that is sending holds the lock of its dedup key, and while a new
\* alert is being sent its window is not open.
SenderHolds ==
  \A d \in Deliveries :
    /\ pc[d] \in {"sending", "escalating"} => AtHead(eventLocks[EventOf(d)], d)
    /\ pc[d] = "sending" => ~windows[EventOf(d)].open

\* Messages are counted by natural numbers.
AlarmsTyped == alarms \in [Alerts -> [Destinations -> Nat]]

\* The maps of the relay are maps.
MapsTyped ==
  /\ pc = [p \in Procs |-> pc[p]]
  /\ DOMAIN windows = Alerts /\ windows = [a \in Alerts |-> windows[a]]

LockInv == QueuesTyped /\ SenderHolds /\ AlarmsTyped /\ MapsTyped

\* The dedup key of a delivery is an alert.
LEMMA EventOfAlert == \A d \in Deliveries : EventOf(d) \in Alerts /\ KeyOf(d) \in Keys
  BY PayloadAssumption DEF EventOf, KeyOf

\* Deliveries are not sweeps.
LEMMA KindsApart == \A d \in Deliveries : d \in Procs /\ d \notin Sweeps
  BY PayloadAssumption DEF Procs

\* A release by one process leaves another at the head where it is.
LEMMA ReleaseKeepsHead ==
  ASSUME NEW q \in Seq(Procs), NEW p \in Procs, NEW o \in Procs
  PROVE  /\ Released(q, o) \in Seq(Procs)
         /\ AtHead(q, p) /\ o # p => AtHead(Released(q, o), p)
  BY DEF Released, AtHead

\* So does a call that joins the queue.
LEMMA AskKeepsHead ==
  ASSUME NEW q \in Seq(Procs), NEW p \in Procs, NEW o \in Procs
  PROVE  /\ Append(q, o) \in Seq(Procs)
         /\ AtHead(q, p) => AtHead(Append(q, o), p)
  BY DEF AtHead

\* Setting a window opens no other one.
LEMMA SetWindowOthers ==
  ASSUME MapsTyped, NEW a \in Alerts, NEW w, NEW now, SetWindow(a, w, now)
  PROVE  /\ DOMAIN windows' = Alerts /\ windows' = [b \in Alerts |-> windows'[b]]
         /\ \A b \in Alerts : windows'[b] = NoWindow \/ windows'[b] = IF b = a THEN w ELSE windows[b]
  BY DEF MapsTyped, SetWindow

\* The initial states.
LEMMA LockInit == Init => LockInv
  BY DEF Init, LockInv, QueuesTyped, SenderHolds, AlarmsTyped, MapsTyped, NoWindows, NoWindow, Procs

\* A handler that ends keeps the others where they are.
LEMMA AnswerKeepsSenders ==
  ASSUME LockInv, NEW d \in Deliveries, NEW label \in {"ok", "failed"}, Answer(d, label),
         alarms' \in [Alerts -> [Destinations -> Nat]],
         DOMAIN windows' = Alerts, windows' = [b \in Alerts |-> windows'[b]],
         \A b \in Alerts : windows'[b].open =>
            windows[b].open \/ (b = EventOf(d) /\ AtHead(eventLocks[b], d))
  PROVE  LockInv'
<1>1. d \in Procs /\ EventOf(d) \in Alerts
  BY EventOfAlert, KindsApart
<1>2. /\ eventLocks' = [eventLocks EXCEPT ![EventOf(d)] = Released(@, d)]
      /\ pc' = [pc EXCEPT ![d] = label]
  BY DEF Answer, Goto
<1>3. QueuesTyped'
  BY <1>1, <1>2, ReleaseKeepsHead DEF LockInv, QueuesTyped
<1>4. SenderHolds'
  <2> SUFFICES ASSUME NEW e \in Deliveries, pc'[e] \in {"sending", "escalating"}
               PROVE  /\ AtHead(eventLocks'[EventOf(e)], e)
                      /\ pc'[e] = "sending" => ~windows'[EventOf(e)].open
    BY DEF SenderHolds
  <2>1. e # d /\ pc'[e] = pc[e] /\ e \in Procs /\ EventOf(e) \in Alerts
    BY <1>1, <1>2, EventOfAlert, KindsApart DEF LockInv, MapsTyped
  <2>2. AtHead(eventLocks[EventOf(e)], e) /\ (pc[e] = "sending" => ~windows[EventOf(e)].open)
    BY <2>1 DEF LockInv, SenderHolds
  <2>3. AtHead(eventLocks'[EventOf(e)], e)
    <3>1. eventLocks[EventOf(e)] \in Seq(Procs)
      BY <2>1 DEF LockInv, QueuesTyped
    <3>2. AtHead(Released(eventLocks[EventOf(e)], d), e)
      BY <1>1, <2>1, <2>2, <3>1, ReleaseKeepsHead
    <3>3. QED
      BY <1>2, <2>1, <2>2, <3>2 DEF LockInv, QueuesTyped
  <2>4. ~(EventOf(e) = EventOf(d) /\ AtHead(eventLocks[EventOf(e)], d))
    BY <2>1, <2>2 DEF AtHead
  <2>5. QED
    BY <2>1, <2>2, <2>3, <2>4
<1>5. MapsTyped'
  BY <1>1, <1>2 DEF LockInv, MapsTyped
<1>6. QED
  BY <1>3, <1>4, <1>5 DEF LockInv, AlarmsTyped

\* A step that leaves the locks and the senders alone and opens no window.
LEMMA LocksUnchanged ==
  ASSUME LockInv, eventLocks' = eventLocks, pc' = [p \in Procs |-> pc'[p]],
         \A d \in Deliveries : pc'[d] \in {"sending", "escalating"} => pc'[d] = pc[d],
         alarms' \in [Alerts -> [Destinations -> Nat]],
         DOMAIN windows' = Alerts, windows' = [b \in Alerts |-> windows'[b]],
         \A b \in Alerts : windows'[b].open => windows[b].open
  PROVE  LockInv'
  BY EventOfAlert DEF LockInv, QueuesTyped, SenderHolds, AlarmsTyped, MapsTyped

\* A request arrives and identifies itself: it holds no lock of a dedup key yet.
LEMMA ArrivalKeepsLocks ==
  ASSUME LockInv, NEW d \in Deliveries, Receive(d) \/ Identify(d) PROVE LockInv'
<1>1. d \in Procs /\ EventOf(d) \in Alerts
  BY EventOfAlert, KindsApart
<1>2. CASE Receive(d)
  <2>1. /\ eventLocks' = eventLocks /\ pc' = [pc EXCEPT ![d] = "idem"]
        /\ windows' = windows /\ alarms' = alarms
    BY <1>2 DEF Receive, Goto, windowVars, ghostVars
  <2>2. /\ pc' = [p \in Procs |-> pc'[p]]
        /\ \A e \in Deliveries : pc'[e] \in {"sending", "escalating"} => pc'[e] = pc[e]
    BY <1>1, <2>1, KindsApart DEF LockInv, MapsTyped
  <2>3. QED
    BY <2>1, <2>2, LocksUnchanged DEF LockInv, MapsTyped, AlarmsTyped
<1>3. CASE Identify(d) /\ Answer(d, "ok")
  BY <1>3, AnswerKeepsSenders DEF Identify, LockInv, MapsTyped, AlarmsTyped, windowVars, ghostVars
<1>4. CASE Identify(d) /\ ~Answer(d, "ok")
  <2>1. /\ eventLocks' = [eventLocks EXCEPT ![EventOf(d)] = Append(@, d)]
        /\ pc' = [pc EXCEPT ![d] = "event"]
        /\ windows' = windows /\ alarms' = alarms
    BY <1>4 DEF Identify, Goto, windowVars, ghostVars
  <2>2. QueuesTyped'
    BY <1>1, <2>1, AskKeepsHead DEF LockInv, QueuesTyped
  <2>3. SenderHolds'
    <3> SUFFICES ASSUME NEW e \in Deliveries, pc'[e] \in {"sending", "escalating"}
                 PROVE  /\ AtHead(eventLocks'[EventOf(e)], e)
                        /\ pc'[e] = "sending" => ~windows'[EventOf(e)].open
      BY DEF SenderHolds
    <3>1. e # d /\ pc'[e] = pc[e] /\ e \in Procs /\ EventOf(e) \in Alerts
      BY <1>1, <2>1, EventOfAlert, KindsApart DEF LockInv, MapsTyped
    <3>2. AtHead(eventLocks[EventOf(e)], e) /\ (pc[e] = "sending" => ~windows[EventOf(e)].open)
      BY <3>1 DEF LockInv, SenderHolds
    <3>3. AtHead(Append(eventLocks[EventOf(e)], d), e)
      BY <1>1, <3>1, <3>2, AskKeepsHead DEF LockInv, QueuesTyped
    <3>4. QED
      BY <2>1, <3>1, <3>2, <3>3 DEF LockInv, QueuesTyped
  <2>4. QED
    BY <2>1, <2>2, <2>3 DEF LockInv, AlarmsTyped, MapsTyped
<1>5. QED
  BY <1>2, <1>3, <1>4

\* A handler that opens a window, announces one or repeats holds its lock.
LEMMA HandlerKeepsLocks ==
  ASSUME LockInv, NEW d \in Deliveries, Defer(d) \/ Announce(d) \/ Repeat(d) PROVE LockInv'
<1>1. d \in Procs /\ EventOf(d) \in Alerts
  BY EventOfAlert, KindsApart
<1>2. CASE Defer(d)
  <2>1. PICK w, now : SetWindow(EventOf(d), w, now)
    BY <1>2 DEF Defer
  <2>2. AtHead(eventLocks[EventOf(d)], d) /\ Answer(d, "ok") /\ alarms' = alarms
    BY <1>2 DEF Defer, Opens, HoldsEvent, ghostVars
  <2>3. /\ DOMAIN windows' = Alerts /\ windows' = [b \in Alerts |-> windows'[b]]
        /\ \A b \in Alerts : windows'[b] = NoWindow \/ windows'[b] = IF b = EventOf(d) THEN w ELSE windows[b]
    BY <1>1, <2>1, SetWindowOthers DEF LockInv
  <2>4. \A b \in Alerts : windows'[b].open =>
           windows[b].open \/ (b = EventOf(d) /\ AtHead(eventLocks[b], d))
    BY <2>2, <2>3 DEF NoWindow
  <2>5. QED
    BY <2>2, <2>3, <2>4, AnswerKeepsSenders DEF LockInv, AlarmsTyped
<1>3. CASE Announce(d)
  <2>1. /\ eventLocks' = eventLocks /\ pc' = [pc EXCEPT ![d] = "sending"] /\ alarms' = alarms
        /\ windows' = [windows EXCEPT ![EventOf(d)] = NoWindow]
        /\ AtHead(eventLocks[EventOf(d)], d)
    BY <1>3 DEF Announce, Opens, HoldsEvent, Goto, Closed, lockVars, ghostVars
  <2>2. ~NoWindow.open
    BY DEF NoWindow
  <2>3. SenderHolds'
    BY <1>1, <2>1, <2>2, EventOfAlert DEF LockInv, SenderHolds, MapsTyped
  <2>4. QED
    BY <1>1, <2>1, <2>3 DEF LockInv, QueuesTyped, AlarmsTyped, MapsTyped
<1>4. CASE Repeat(d)
  <2>1. /\ windows' = [windows EXCEPT ![EventOf(d)] = Accumulated(windows[EventOf(d)], KeyOf(d))]
        /\ AtHead(eventLocks[EventOf(d)], d) /\ windows[EventOf(d)].open /\ alarms' = alarms
        /\ \/ pc' = [pc EXCEPT ![d] = "escalating"] /\ eventLocks' = eventLocks
           \/ Answer(d, "ok")
    BY <1>4 DEF Repeat, HoldsEvent, Goto, lockVars, ghostVars
  <2>2. \A b \in Alerts : windows'[b].open => windows[b].open
    BY <1>1, <2>1 DEF LockInv, MapsTyped
  <2>3. DOMAIN windows' = Alerts /\ windows' = [b \in Alerts |-> windows'[b]]
    BY <1>1, <2>1 DEF LockInv, MapsTyped
  <2>4. CASE Answer(d, "ok")
    BY <2>1, <2>2, <2>3, <2>4, AnswerKeepsSenders DEF LockInv, AlarmsTyped
  <2>5. CASE pc' = [pc EXCEPT ![d] = "escalating"] /\ eventLocks' = eventLocks
    <3>1. SenderHolds'
      BY <1>1, <2>1, <2>2, <2>5, EventOfAlert DEF LockInv, SenderHolds, MapsTyped
    <3>2. QED
      BY <1>1, <2>1, <2>3, <2>5, <3>1 DEF LockInv, QueuesTyped, AlarmsTyped, MapsTyped
  <2>6. QED
    BY <2>1, <2>4, <2>5
<1>5. QED
  BY <1>2, <1>3, <1>4

\* The answer of a send: a message is counted, and a registered alert gets its window.
LEMMA AnswerKeepsLocks ==
  ASSUME LockInv, NEW d \in Deliveries, NEW answer \in Answers,
         Announced(d, answer) \/ Escalated(d, answer)
  PROVE  LockInv'
<1>1. d \in Procs /\ EventOf(d) \in Alerts
  BY EventOfAlert, KindsApart
<1>2. AtHead(eventLocks[EventOf(d)], d)
  BY DEF LockInv, SenderHolds, Announced, Escalated
<1>3. CASE Announced(d, answer)
  <2>1. alarms' = [alarms EXCEPT ![EventOf(d)] =
                     [t \in Destinations |-> @[t] + IF answer[t] THEN 1 ELSE 0]]
    BY <1>3 DEF Announced
  <2>2. alarms' \in [Alerts -> [Destinations -> Nat]]
    BY <1>1, <2>1 DEF LockInv, AlarmsTyped
  <2>3. \E label \in {"ok", "failed"} : Answer(d, label)
    BY <1>3 DEF Announced
  <2>4. CASE Registered(answer)
    <3>1. PICK w, now : SetWindow(EventOf(d), w, now)
      BY <1>3, <2>4 DEF Announced
    <3>2. /\ DOMAIN windows' = Alerts /\ windows' = [b \in Alerts |-> windows'[b]]
          /\ \A b \in Alerts : windows'[b] = NoWindow \/ windows'[b] = IF b = EventOf(d) THEN w ELSE windows[b]
      BY <1>1, <3>1, SetWindowOthers DEF LockInv
    <3>3. \A b \in Alerts : windows'[b].open =>
             windows[b].open \/ (b = EventOf(d) /\ AtHead(eventLocks[b], d))
      BY <1>2, <3>2 DEF NoWindow
    <3>4. QED
      BY <2>2, <2>3, <3>2, <3>3, AnswerKeepsSenders
  <2>5. CASE ~Registered(answer)
    <3>1. windows' = windows
      BY <1>3, <2>5 DEF Announced, windowVars
    <3>2. QED
      BY <2>2, <2>3, <3>1, AnswerKeepsSenders DEF LockInv, MapsTyped
  <2>6. QED
    BY <2>4, <2>5
<1>4. CASE Escalated(d, answer)
  <2>1. /\ Answer(d, "ok") /\ alarms' = alarms
        /\ \/ windows' = windows
           \/ windows' = [windows EXCEPT ![EventOf(d)].escalations = @ + 1]
    BY <1>4 DEF Escalated, ghostVars
  <2>2. /\ DOMAIN windows' = Alerts /\ windows' = [b \in Alerts |-> windows'[b]]
        /\ \A b \in Alerts : windows'[b].open => windows[b].open \/ (b = EventOf(d) /\ AtHead(eventLocks[b], d))
    BY <1>1, <1>2, <2>1 DEF LockInv, MapsTyped
  <2>3. QED
    BY <2>1, <2>2, AnswerKeepsSenders DEF LockInv, AlarmsTyped
<1>5. QED
  BY <1>3, <1>4

\* A sweep opens no window; it holds a lock only to close one.
LEMMA SweepKeepsLocks ==
  ASSUME LockInv, NEW s \in Sweeps, Sweep(s) PROVE LockInv'
<1>1. s \in Procs /\ s \notin Deliveries
  BY PayloadAssumption DEF Procs
<1>2. ASSUME NEW label, pc' = [pc EXCEPT ![s] = label]
      PROVE  /\ pc' = [p \in Procs |-> pc'[p]]
             /\ \A d \in Deliveries : pc'[d] = pc[d]
  BY <1>1, <1>2, KindsApart DEF LockInv, MapsTyped
<1>3. CASE SweepClose(s)
  <2> DEFINE x == Head(seen[s].todo)
  <2>1. /\ AtHead(eventLocks[x.alert], s)
        /\ eventLocks' = [eventLocks EXCEPT ![x.alert] = Released(@, s)]
        /\ pc' = [pc EXCEPT ![s] = "close"] /\ alarms' = alarms
        /\ windows' = windows \/ windows' = [windows EXCEPT ![x.alert] = NoWindow]
    BY <1>3 DEF SweepClose, HoldsEvent, Closed, Goto, windowVars, ghostVars
  <2> HIDE DEF x
  <2>2. QueuesTyped'
    BY <1>1, <2>1, ReleaseKeepsHead DEF LockInv, QueuesTyped
  <2>3. \A b \in Alerts : windows'[b].open => windows[b].open
    BY <2>1 DEF LockInv, MapsTyped, NoWindow
  <2>4. MapsTyped'
    BY <1>2, <2>1 DEF LockInv, MapsTyped
  <2>5. SenderHolds'
    <3> SUFFICES ASSUME NEW e \in Deliveries, pc'[e] \in {"sending", "escalating"}
                 PROVE  /\ AtHead(eventLocks'[EventOf(e)], e)
                        /\ pc'[e] = "sending" => ~windows'[EventOf(e)].open
      BY DEF SenderHolds
    <3>1. e # s /\ pc'[e] = pc[e] /\ e \in Procs /\ EventOf(e) \in Alerts
      BY <1>1, <1>2, <2>1, EventOfAlert, KindsApart
    <3>2. AtHead(eventLocks[EventOf(e)], e) /\ (pc[e] = "sending" => ~windows[EventOf(e)].open)
      BY <3>1 DEF LockInv, SenderHolds
    <3>3. eventLocks[EventOf(e)] \in Seq(Procs)
      BY <3>1 DEF LockInv, QueuesTyped
    <3>4. AtHead(Released(eventLocks[EventOf(e)], s), e)
      BY <1>1, <3>1, <3>2, <3>3, ReleaseKeepsHead
    <3>5. QED
      BY <2>1, <2>3, <3>1, <3>2, <3>4 DEF LockInv, QueuesTyped
  <2>6. QED
    BY <2>1, <2>2, <2>4, <2>5 DEF LockInv, AlarmsTyped
<1>4. CASE SweepNext(s)
  <2> DEFINE a == Head(seen[s].todo).alert
  <2>1. /\ windows' = windows /\ alarms' = alarms
        /\ \/ pc' = pc /\ eventLocks' = eventLocks
           \/ pc' = [pc EXCEPT ![s] = "closing"]
              /\ eventLocks' = [eventLocks EXCEPT ![a] = Append(@, s)]
    BY <1>4 DEF SweepNext, Goto, windowVars, ghostVars
  <2> HIDE DEF a
  <2>2. CASE pc' = pc /\ eventLocks' = eventLocks
    BY <2>1, <2>2, LocksUnchanged DEF LockInv, MapsTyped, AlarmsTyped
  <2>3. CASE pc' = [pc EXCEPT ![s] = "closing"] /\ eventLocks' = [eventLocks EXCEPT ![a] = Append(@, s)]
    <3>1. QueuesTyped'
      BY <1>1, <2>3, AskKeepsHead DEF LockInv, QueuesTyped
    <3>2. SenderHolds'
      <4> SUFFICES ASSUME NEW e \in Deliveries, pc'[e] \in {"sending", "escalating"}
                   PROVE  /\ AtHead(eventLocks'[EventOf(e)], e)
                          /\ pc'[e] = "sending" => ~windows'[EventOf(e)].open
        BY DEF SenderHolds
      <4>1. e # s /\ pc'[e] = pc[e] /\ e \in Procs /\ EventOf(e) \in Alerts
        BY <1>1, <1>2, <2>3, EventOfAlert, KindsApart
      <4>2. AtHead(eventLocks[EventOf(e)], e) /\ (pc[e] = "sending" => ~windows[EventOf(e)].open)
        BY <4>1 DEF LockInv, SenderHolds
      <4>3. AtHead(Append(eventLocks[EventOf(e)], s), e)
        BY <1>1, <4>1, <4>2, AskKeepsHead DEF LockInv, QueuesTyped
      <4>4. QED
        BY <2>1, <2>3, <4>1, <4>2, <4>3 DEF LockInv, QueuesTyped
    <3>3. QED
      BY <1>2, <2>1, <2>3, <3>1, <3>2 DEF LockInv, AlarmsTyped, MapsTyped
  <2>4. QED
    BY <2>1, <2>2, <2>3
<1>5. CASE \/ SweepStart(s) \/ SweepScan(s) \/ DailyIdle(s) \/ DailySwap(s) \/ DailyRetry(s)
           \/ SweepPersist(s) \/ \E answer \in Answers : DailySent(s, answer)
  <2>1. /\ eventLocks' = eventLocks /\ windows' = windows /\ alarms' = alarms
        /\ \E label : pc' = [pc EXCEPT ![s] = label]
    BY <1>5 DEF SweepStart, SweepScan, DailyIdle, DailySwap, DailyRetry, SweepPersist, DailySent,
       Goto, windowVars, lockVars, ghostVars
  <2>2. QED
    BY <1>2, <2>1, LocksUnchanged DEF LockInv, MapsTyped, AlarmsTyped
<1>6. CASE \E answer \in Answers : RestartRecapSent(s, answer)
  <2>1. /\ eventLocks' = eventLocks /\ alarms' = alarms /\ pc' = [pc EXCEPT ![s] = "scan"]
        /\ \/ windows' = windows
           \/ windows' = [a \in Alerts |->
                 IF a \in seen[s].batch /\ windows[a].open
                   THEN [windows[a] EXCEPT !.deferred = FALSE, !.told = windows'[a].told]
                   ELSE windows[a]]
    BY <1>6 DEF RestartRecapSent, Goto, lockVars
  <2>2. QED
    BY <1>2, <2>1, LocksUnchanged DEF LockInv, MapsTyped, AlarmsTyped
<1>7. QED
  BY <1>3, <1>4, <1>5, <1>6 DEF Sweep

\* A process that starts holds nothing and is sending nothing.
LEMMA BootKeepsLocks ==
  ASSUME LockInv, NEW file, Boot(file), alarms' = alarms PROVE LockInv'
<1>1. /\ eventLocks' = [a \in Alerts |-> <<>>]
      /\ windows' = [a \in Alerts |-> IF file.windows[a].open /\ file.windows[a].expiresAt > clock
                                        THEN file.windows[a] ELSE NoWindow]
      /\ pc' = [p \in Procs |-> IF p \in Sweeps THEN "idle"
                                ELSE IF pc[p] \in {"idle", "ok", "failed"} THEN pc[p] ELSE "lost"]
  BY DEF Boot
<1>2. \A d \in Deliveries : pc'[d] \notin {"sending", "escalating"}
  BY <1>1, KindsApart
<1>3. QED
  BY <1>1, <1>2 DEF LockInv, QueuesTyped, SenderHolds, AlarmsTyped, MapsTyped

\* LockInv is inductive.
LEMMA LockStep == ASSUME LockInv, [Next]_vars PROVE LockInv'
<1>1. CASE \E d \in Deliveries : Receive(d) \/ Handle(d)
  BY <1>1, ArrivalKeepsLocks, HandlerKeepsLocks, AnswerKeepsLocks DEF Handle
<1>2. CASE \E s \in Sweeps : Sweep(s)
  BY <1>2, SweepKeepsLocks
<1>3. CASE Tick
  <2>1. /\ eventLocks' = eventLocks /\ windows' = windows /\ pc' = pc
        /\ alarms' = alarms \/ alarms' = [a \in Alerts |-> [t \in Destinations |-> 0]]
    BY <1>3 DEF Tick, lockVars, windowVars
  <2>2. QED
    BY <2>1, LocksUnchanged DEF LockInv, MapsTyped, AlarmsTyped
<1>4. CASE Deploy \/ Crash
  BY <1>4, BootKeepsLocks DEF Deploy, Crash
<1>5. CASE UNCHANGED vars
  BY <1>5, LocksUnchanged DEF vars, windowVars, lockVars, ghostVars, LockInv, MapsTyped, AlarmsTyped
<1>6. QED
  BY <1>1, <1>2, <1>3, <1>4, <1>5 DEF Next, Running

\* One step posts no alert whose window is open.
LEMMA AlarmStep ==
  ASSUME LockInv, [Next]_vars, NEW a \in Alerts, NEW t \in Destinations,
         alarms'[a][t] > alarms[a][t]
  PROVE  ~windows[a].open
<1>1. alarms[a][t] \in Nat
  BY DEF LockInv, AlarmsTyped
<1>2. alarms' # alarms
  BY <1>1
<1>3. ~Tick
  BY <1>1, <1>2 DEF Tick
<1>4. \E d \in Deliveries, answer \in Answers : Announced(d, answer)
  <2>1. ~(\E s \in Sweeps : Sweep(s))
    BY <1>2 DEF Sweep, SweepStart, SweepScan, SweepNext, SweepClose, DailyIdle, DailySwap,
       DailyRetry, SweepPersist, RestartRecapSent, DailySent, ghostVars
  <2>2. ~Deploy /\ ~Crash /\ ~(UNCHANGED vars)
    BY <1>2 DEF Deploy, Crash, vars, ghostVars
  <2>3. PICK d \in Deliveries : Receive(d) \/ Handle(d)
    BY <1>3, <2>1, <2>2 DEF Next, Running
  <2>4. QED
    BY <1>2, <2>3 DEF Receive, Handle, Identify, Defer, Announce, Repeat, Escalated, ghostVars
<1>5. PICK d \in Deliveries, answer \in Answers : Announced(d, answer)
  BY <1>4
<1>6. a = EventOf(d)
  BY <1>1, <1>5, EventOfAlert DEF Announced, LockInv, AlarmsTyped
<1>7. QED
  BY <1>5, <1>6 DEF Announced, LockInv, SenderHolds

\* Concurrent deliveries of one alert, its retries, sweeps, deploys and kills: no
\* message is accepted for an alert that has a window, whatever the sizes.
THEOREM NoSecondAlarm == Spec => NoAlarmInsideWindow
<1>1. LockInv /\ [Next]_vars =>
        [\A a \in Alerts : (\E t \in Destinations : alarms'[a][t] > alarms[a][t]) =>
           ~windows[a].open]_vars
  BY AlarmStep
<1>2. Spec => Init /\ [][Next]_vars
  BY DEF Spec
<1>3. LockInv /\ [Next]_vars => LockInv'
  BY LockStep
<1>4. QED
  BY <1>1, <1>2, <1>3, LockInit, PTL DEF NoAlarmInsideWindow


-----------------------------------------------------------------------------
(* The recap that waits: what the restart of a process does to it.           *)

\* Without a state file nothing is on disk.
DiskEmpty == ~StateFile => disk = NoDisk

\* The recap that waits is a record.
PendingShaped ==
  pendingRecap = [held |-> pendingRecap.held, tally |-> pendingRecap.tally,
                  until |-> pendingRecap.until]

PendingInv == DiskEmpty /\ PendingShaped

\* Steps of handlers, and of a sweep outside the daily recap, leave it alone.
LEMMA PendingOnlyInSweeps ==
  ASSUME \/ \E d \in Deliveries : Receive(d) \/ Handle(d)
         \/ Tick \/ UNCHANGED vars
         \/ \E s \in Sweeps : \/ SweepStart(s) \/ SweepScan(s) \/ SweepNext(s) \/ SweepClose(s)
                              \/ DailyIdle(s) \/ SweepPersist(s)
                              \/ \E answer \in Answers : RestartRecapSent(s, answer)
  PROVE  /\ pendingRecap' = pendingRecap
         /\ disk' = disk \/ StateFile
<1>1. CASE \E d \in Deliveries : Receive(d) \/ Handle(d)
  BY <1>1 DEF Receive, Handle, Identify, Defer, Announce, Repeat, Announced, Escalated, recapVars
<1>2. CASE Tick \/ UNCHANGED vars
  BY <1>2 DEF Tick, vars, recapVars
<1>3. ASSUME NEW s \in Sweeps,
             \/ SweepStart(s) \/ SweepScan(s) \/ SweepNext(s) \/ SweepClose(s)
             \/ DailyIdle(s) \/ SweepPersist(s)
             \/ \E answer \in Answers : RestartRecapSent(s, answer)
      PROVE  pendingRecap' = pendingRecap /\ (disk' = disk \/ StateFile)
  BY <1>3 DEF SweepStart, SweepScan, SweepNext, SweepClose, DailyIdle, SweepPersist,
     RestartRecapSent, recapVars
<1>4. QED
  BY <1>1, <1>2, <1>3

\* A retry sends what the period was; only the answer that ends it lets go of it.
LEMMA RecapKeepsPending ==
  ASSUME PendingInv, NEW s \in Sweeps,
         DailySwap(s) \/ DailyRetry(s) \/ \E answer \in Answers : DailySent(s, answer)
  PROVE  /\ PendingInv'
         /\ pendingRecap.held /\ pendingRecap'.held => pendingRecap' = pendingRecap
<1>1. CASE DailySwap(s)
  <2>1. /\ disk' = disk /\ ~pendingRecap.held
        /\ \/ pendingRecap' = pendingRecap
           \/ pendingRecap' = [held |-> TRUE, tally |-> daily, until |-> nextRecapAt]
    BY <1>1 DEF DailySwap
  <2>2. QED
    BY <2>1 DEF PendingInv, DiskEmpty, PendingShaped
<1>2. CASE DailyRetry(s)
  <2>1. disk' = disk /\ pendingRecap' = [pendingRecap EXCEPT !.tally = pendingRecap.tally]
    BY <1>2 DEF DailyRetry, RetryTally
  <2>2. pendingRecap' = pendingRecap
    BY <2>1 DEF PendingInv, PendingShaped
  <2>3. QED
    BY <2>1, <2>2 DEF PendingInv, DiskEmpty, PendingShaped
<1>3. CASE \E answer \in Answers : DailySent(s, answer)
  <2>1. disk' = disk /\ (pendingRecap' = pendingRecap \/ pendingRecap' = NoPending)
    BY <1>3 DEF DailySent
  <2>2. QED
    BY <2>1 DEF PendingInv, DiskEmpty, PendingShaped, NoPending
<1>4. QED
  BY <1>1, <1>2, <1>3

\* The file of a process without a state file, or the one a deploy has just
\* written, holds no other recap than the process does.
LEMMA BootPending ==
  ASSUME NEW file, Boot(file),
         file.pendingRecap = NoPending \/ file.pendingRecap = pendingRecap
  PROVE  pendingRecap' = NoPending \/ pendingRecap' = pendingRecap
  BY DEF Boot

\* One step, for a relay that cannot be killed with a file it has not rewritten.
LEMMA PendingStep ==
  ASSUME PendingInv, [Next]_vars
  PROVE  /\ DiskEmpty'
         /\ (~StateFile \/ ~Crashes) =>
              /\ PendingShaped'
              /\ pendingRecap.held /\ pendingRecap'.held => pendingRecap' = pendingRecap
<1>1. CASE \/ \E d \in Deliveries : Receive(d) \/ Handle(d)
           \/ Tick \/ UNCHANGED vars
  BY <1>1, PendingOnlyInSweeps DEF PendingInv, DiskEmpty, PendingShaped
<1>2. ASSUME NEW s \in Sweeps, Sweep(s)
      PROVE  /\ PendingInv'
             /\ pendingRecap.held /\ pendingRecap'.held => pendingRecap' = pendingRecap
  <2>1. CASE DailySwap(s) \/ DailyRetry(s) \/ \E answer \in Answers : DailySent(s, answer)
    BY <2>1, RecapKeepsPending
  <2>2. CASE ~(DailySwap(s) \/ DailyRetry(s) \/ \E answer \in Answers : DailySent(s, answer))
    <3>1. pendingRecap' = pendingRecap /\ (disk' = disk \/ StateFile)
      BY <1>2, <2>2, PendingOnlyInSweeps DEF Sweep
    <3>2. QED
      BY <3>1 DEF PendingInv, DiskEmpty, PendingShaped
  <2>3. QED
    BY <2>1, <2>2
<1>3. CASE Deploy
  <2>1. /\ disk' = IF StateFile THEN ExportState ELSE disk
        /\ Boot(disk')
    BY <1>3 DEF Deploy
  <2>2. disk'.pendingRecap = NoPending \/ disk'.pendingRecap = pendingRecap
    BY <2>1 DEF ExportState, Snapshot, NoDisk, PendingInv, DiskEmpty
  <2>3. pendingRecap' = NoPending \/ pendingRecap' = pendingRecap
    BY <2>1, <2>2, BootPending
  <2>4. QED
    BY <2>1, <2>3 DEF PendingInv, DiskEmpty, PendingShaped, NoPending
<1>4. CASE Crash
  <2>1. disk' = disk /\ Boot(disk) /\ Crashes
    BY <1>4 DEF Crash
  <2>2. ~StateFile => disk.pendingRecap = NoPending
    BY DEF PendingInv, DiskEmpty, NoDisk
  <2>3. ~StateFile => pendingRecap' = NoPending \/ pendingRecap' = pendingRecap
    BY <2>1, <2>2, BootPending
  <2>4. QED
    BY <2>1, <2>3 DEF PendingInv, DiskEmpty, PendingShaped, NoPending
<1>5. CASE \E s \in Sweeps : Sweep(s)
  BY <1>2, <1>5 DEF PendingInv
<1>6. QED
  BY <1>1, <1>3, <1>4, <1>5 DEF Next, Running

\* A retry re-sends the period that came due, however sweeps, deliveries and
\* deploys interleave with the send: always without a state file, and with one as
\* long as the process is not killed.
THEOREM RetriesFrozen == ~StateFile \/ ~Crashes => (Spec => PendingIsFrozen)
<1> SUFFICES ASSUME ~StateFile \/ ~Crashes PROVE Spec => PendingIsFrozen
  OBVIOUS
<1>1. Init => PendingInv
  BY DEF Init, PendingInv, DiskEmpty, PendingShaped, NoPending
<1>2. PendingInv /\ [Next]_vars => PendingInv'
  BY PendingStep DEF PendingInv
<1>3. PendingInv /\ [Next]_vars =>
        [pendingRecap.held /\ pendingRecap'.held => pendingRecap' = pendingRecap]_vars
  BY PendingStep
<1>4. QED
  BY <1>1, <1>2, <1>3, PTL DEF Spec, PendingIsFrozen

-----------------------------------------------------------------------------
(* The windows: who is muted has been told.                                  *)

\* A window says whether it waits for the restart recap and whether it was told.
WindowShaped(w) == {"open", "deferred", "told"} \subseteq DOMAIN w

\* What a process holds between two steps has its fields; the window of an alert
\* that is being sent is a window.
SeenShaped ==
  /\ seen = [p \in Procs |-> seen[p]]
  /\ \A p \in Procs : DOMAIN seen[p] = {"now", "window", "batch", "todo"}
  /\ \A d \in Deliveries : pc[d] = "sending" => WindowShaped(seen[d].window)

\* Every window is one, and is quiet only if the chat has been told.
WindowsQuiet ==
  \A a \in Alerts : WindowShaped(windows[a]) /\
                    (windows[a].open /\ ~windows[a].deferred => windows[a].told)

QuietInv == MapsTyped /\ SeenShaped /\ WindowsQuiet

\* QuietMeansTold without the exception of the state file: who is muted has been
\* told.
MutedMeansTold == \A a \in Alerts : windows[a].open /\ ~windows[a].deferred => windows[a].told

\* A fresh window, and none, have their fields.
LEMMA FreshShaped ==
  ASSUME NEW d, NEW now, NEW deferred
  PROVE  /\ WindowShaped(OpenWindow(d, now, deferred)) /\ WindowShaped(NoWindow)
         /\ OpenWindow(d, now, deferred).deferred = deferred
         /\ ~NoWindow.open
  BY DEF WindowShaped, OpenWindow, NoWindow

\* Setting a window that is quiet about nobody untold.
LEMMA SetKeepsQuiet ==
  ASSUME MapsTyped, WindowsQuiet, NEW a \in Alerts, NEW w, NEW now, SetWindow(a, w, now),
         WindowShaped(w), w.open /\ ~w.deferred => w.told
  PROVE  WindowsQuiet' /\ DOMAIN windows' = Alerts /\ windows' = [b \in Alerts |-> windows'[b]]
<1>1. /\ DOMAIN windows' = Alerts /\ windows' = [b \in Alerts |-> windows'[b]]
      /\ \A b \in Alerts : windows'[b] = NoWindow \/ windows'[b] = IF b = a THEN w ELSE windows[b]
  BY SetWindowOthers
<1>2. WindowShaped(NoWindow) /\ ~NoWindow.open
  BY DEF WindowShaped, NoWindow
<1>3. QED
  BY <1>1, <1>2 DEF WindowsQuiet, WindowShaped

\* One window changes, and stays quiet about nobody untold.
LEMMA ChangeKeepsQuiet ==
  ASSUME MapsTyped, WindowsQuiet, NEW a \in Alerts, NEW w, windows' = [windows EXCEPT ![a] = w],
         WindowShaped(w), w.open /\ ~w.deferred => w.told
  PROVE  WindowsQuiet' /\ DOMAIN windows' = Alerts /\ windows' = [b \in Alerts |-> windows'[b]]
<1>1. \A b \in Alerts : windows'[b] = IF b = a THEN w ELSE windows[b]
  BY DEF MapsTyped
<1>2. QED
  BY <1>1 DEF WindowsQuiet, WindowShaped, MapsTyped

\* A process goes on with what it holds.
LEMMA ProcessKeepsShape ==
  ASSUME QuietInv, NEW p \in Procs, NEW label, NEW s,
         pc' = [pc EXCEPT ![p] = label], seen' = [seen EXCEPT ![p] = s],
         DOMAIN s = {"now", "window", "batch", "todo"},
         p \in Deliveries /\ label = "sending" => WindowShaped(s.window)
  PROVE  pc' = [q \in Procs |-> pc'[q]] /\ SeenShaped'
<1>1. /\ pc' = [q \in Procs |-> pc'[q]]
      /\ \A q \in Procs : pc'[q] = IF q = p THEN label ELSE pc[q]
  BY DEF QuietInv, MapsTyped
<1>2. /\ seen' = [q \in Procs |-> seen'[q]]
      /\ \A q \in Procs : seen'[q] = IF q = p THEN s ELSE seen[q]
  BY DEF QuietInv, SeenShaped
<1>3. \A q \in Procs : DOMAIN seen'[q] = {"now", "window", "batch", "todo"}
  BY <1>2 DEF QuietInv, SeenShaped
<1>4. ASSUME NEW d \in Deliveries, pc'[d] = "sending" PROVE WindowShaped(seen'[d].window)
  BY <1>1, <1>2, <1>4, KindsApart DEF QuietInv, SeenShaped
<1>5. WindowShaped(seen[p].window)' <=> WindowShaped(seen'[p].window)
  BY DEF WindowShaped
<1>6. SeenShaped'
  BY <1>2, <1>3, <1>4 DEF SeenShaped, WindowShaped
<1>7. QED
  BY <1>1, <1>6

\* The same, for a process that keeps what it holds.
LEMMA ProcessHolds ==
  ASSUME QuietInv, NEW p \in Procs, NEW label,
         pc' = [pc EXCEPT ![p] = label], seen' = seen, ~(p \in Deliveries /\ label = "sending")
  PROVE  pc' = [q \in Procs |-> pc'[q]] /\ SeenShaped'
<1>1. seen' = [seen EXCEPT ![p] = seen[p]]
  BY DEF QuietInv, SeenShaped
<1>2. QED
  BY <1>1, ProcessKeepsShape DEF QuietInv, SeenShaped

\* A handler that ends holds nothing.
LEMMA AnswerShaped ==
  ASSUME QuietInv, NEW d \in Deliveries, NEW label \in {"ok", "failed"}, Answer(d, label)
  PROVE  pc' = [q \in Procs |-> pc'[q]] /\ SeenShaped'
<1>1. d \in Procs
  BY KindsApart
<1>2. pc' = [pc EXCEPT ![d] = label] /\ seen' = [seen EXCEPT ![d] = Blank]
  BY DEF Answer, Goto
<1>3. DOMAIN Blank = {"now", "window", "batch", "todo"}
  BY DEF Blank
<1>4. QED
  BY <1>1, <1>2, <1>3, ProcessKeepsShape

\* The windows are what they were, and so is what is known about them.
LEMMA WindowsUntouched ==
  ASSUME QuietInv, windows' = windows, pc' = [q \in Procs |-> pc'[q]] /\ SeenShaped'
  PROVE  QuietInv'
  BY DEF QuietInv, MapsTyped, WindowsQuiet, WindowShaped

\* Requests that arrive, identify themselves, announce or repeat.
LEMMA HandlerQuiet ==
  ASSUME QuietInv, NEW d \in Deliveries,
         Receive(d) \/ Identify(d) \/ Defer(d) \/ Announce(d) \/ Repeat(d)
  PROVE  QuietInv'
<1>1. d \in Procs /\ EventOf(d) \in Alerts
  BY EventOfAlert, KindsApart
<1>2. CASE Receive(d)
  <2>1. pc' = [pc EXCEPT ![d] = "idem"] /\ seen' = seen /\ windows' = windows
    BY <1>2 DEF Receive, Goto, windowVars
  <2>2. QED
    BY <1>1, <2>1, ProcessHolds, WindowsUntouched
<1>3. CASE Identify(d)
  <2>1. windows' = windows
    BY <1>3 DEF Identify, windowVars
  <2>2. CASE Answer(d, "ok")
    BY <2>1, <2>2, AnswerShaped, WindowsUntouched
  <2>3. CASE ~Answer(d, "ok")
    <3>1. pc' = [pc EXCEPT ![d] = "event"] /\ seen' = [seen EXCEPT ![d].now = clock]
      BY <1>3, <2>3 DEF Identify, Goto
    <3> DEFINE s == [seen[d] EXCEPT !.now = clock]
    <3>2. DOMAIN s = {"now", "window", "batch", "todo"}
      BY <1>1 DEF QuietInv, SeenShaped
    <3>3. seen' = [seen EXCEPT ![d] = s]
      BY <3>1
    <3> HIDE DEF s
    <3>4. QED
      BY <1>1, <2>1, <3>1, <3>2, <3>3, ProcessKeepsShape, WindowsUntouched
  <2>4. QED
    BY <2>2, <2>3
<1>4. CASE Defer(d)
  <2> DEFINE w == OpenWindow(d, seen[d].now, TRUE)
  <2>1. Answer(d, "ok") /\ SetWindow(EventOf(d), w, seen[d].now)
    BY <1>4 DEF Defer
  <2>2. WindowShaped(w) /\ w.deferred
    BY FreshShaped
  <2> HIDE DEF w
  <2>3. WindowsQuiet' /\ DOMAIN windows' = Alerts /\ windows' = [b \in Alerts |-> windows'[b]]
    BY <1>1, <2>1, <2>2, SetKeepsQuiet DEF QuietInv
  <2>4. QED
    BY <2>1, <2>3, AnswerShaped DEF QuietInv, MapsTyped
<1>5. CASE Announce(d)
  <2> DEFINE s == [seen[d] EXCEPT !.window = OpenWindow(d, seen[d].now, FALSE)]
  <2>1. /\ pc' = [pc EXCEPT ![d] = "sending"] /\ seen' = [seen EXCEPT ![d] = s]
        /\ windows' = [windows EXCEPT ![EventOf(d)] = NoWindow]
    BY <1>5 DEF Announce, Goto, Closed
  <2>2. /\ DOMAIN s = {"now", "window", "batch", "todo"}
        /\ s.window = OpenWindow(d, seen[d].now, FALSE)
    BY <1>1 DEF QuietInv, SeenShaped
  <2>3. WindowShaped(s.window) /\ WindowShaped(NoWindow) /\ ~NoWindow.open
    BY <2>2, FreshShaped
  <2> HIDE DEF s
  <2>4. WindowsQuiet' /\ DOMAIN windows' = Alerts /\ windows' = [b \in Alerts |-> windows'[b]]
    BY <1>1, <2>1, <2>3, ChangeKeepsQuiet DEF QuietInv
  <2>5. pc' = [q \in Procs |-> pc'[q]] /\ SeenShaped'
    BY <1>1, <2>1, <2>2, <2>3, ProcessKeepsShape
  <2>6. QED
    BY <2>4, <2>5 DEF QuietInv, MapsTyped
<1>6. CASE Repeat(d)
  <2> DEFINE w == Accumulated(windows[EventOf(d)], KeyOf(d))
  <2>1. /\ windows' = [windows EXCEPT ![EventOf(d)] = w]
        /\ \/ pc' = [pc EXCEPT ![d] = "escalating"] /\ seen' = seen
           \/ Answer(d, "ok")
    BY <1>6 DEF Repeat, Goto
  <2>2. WindowShaped(windows[EventOf(d)]) /\
        (windows[EventOf(d)].open /\ ~windows[EventOf(d)].deferred => windows[EventOf(d)].told)
    BY <1>1 DEF QuietInv, WindowsQuiet
  <2>3. WindowShaped(w) /\ (w.open /\ ~w.deferred => w.told)
    BY <2>2 DEF WindowShaped, Accumulated
  <2> HIDE DEF w
  <2>4. WindowsQuiet' /\ DOMAIN windows' = Alerts /\ windows' = [b \in Alerts |-> windows'[b]]
    BY <1>1, <2>1, <2>3, ChangeKeepsQuiet DEF QuietInv
  <2>5. pc' = [q \in Procs |-> pc'[q]] /\ SeenShaped'
    BY <1>1, <2>1, ProcessHolds, AnswerShaped
  <2>6. QED
    BY <2>4, <2>5 DEF QuietInv, MapsTyped
<1>7. QED
  BY <1>2, <1>3, <1>4, <1>5, <1>6

\* The window of an alert is set told, and only if every destination accepted it.
LEMMA SendQuiet ==
  ASSUME QuietInv, NEW d \in Deliveries, NEW answer \in Answers,
         Announced(d, answer) \/ Escalated(d, answer)
  PROVE  QuietInv'
<1>1. d \in Procs /\ EventOf(d) \in Alerts
  BY EventOfAlert, KindsApart
<1>2. CASE Announced(d, answer)
  <2>1. \E label \in {"ok", "failed"} : Answer(d, label)
    BY <1>2 DEF Announced
  <2>2. pc' = [q \in Procs |-> pc'[q]] /\ SeenShaped'
    BY <2>1, AnswerShaped
  <2>3. CASE ~Registered(answer)
    <3>1. windows' = windows
      BY <1>2, <2>3 DEF Announced, windowVars
    <3>2. QED
      BY <2>2, <3>1, WindowsUntouched
  <2>4. CASE Registered(answer)
    <3> DEFINE w == [seen[d].window EXCEPT !.told = Accepted(answer)]
    <3>1. SetWindow(EventOf(d), w, seen[d].now)
      BY <1>2, <2>4 DEF Announced
    <3>2. WindowShaped(seen[d].window)
      BY <1>2 DEF Announced, QuietInv, SeenShaped
    <3>3. WindowShaped(w) /\ w.told = Accepted(answer)
      BY <3>2 DEF WindowShaped
    <3>4. Accepted(answer)
      BY <2>4 DEF Registered
    <3> HIDE DEF w
    <3>5. WindowsQuiet' /\ DOMAIN windows' = Alerts /\ windows' = [b \in Alerts |-> windows'[b]]
      BY <1>1, <3>1, <3>3, <3>4, SetKeepsQuiet DEF QuietInv
    <3>6. QED
      BY <2>2, <3>5 DEF QuietInv, MapsTyped
  <2>5. QED
    BY <2>3, <2>4
<1>3. CASE Escalated(d, answer)
  <2> DEFINE w == [windows[EventOf(d)] EXCEPT !.escalations = @ + 1]
  <2>1. /\ Answer(d, "ok")
        /\ windows' = windows \/ windows' = [windows EXCEPT ![EventOf(d)] = w]
    BY <1>3 DEF Escalated
  <2>2. WindowShaped(windows[EventOf(d)]) /\
        (windows[EventOf(d)].open /\ ~windows[EventOf(d)].deferred => windows[EventOf(d)].told)
    BY <1>1 DEF QuietInv, WindowsQuiet
  <2>3. WindowShaped(w) /\ (w.open /\ ~w.deferred => w.told)
    BY <2>2 DEF WindowShaped
  <2> HIDE DEF w
  <2>4. CASE windows' = [windows EXCEPT ![EventOf(d)] = w]
    <3>1. WindowsQuiet' /\ DOMAIN windows' = Alerts /\ windows' = [b \in Alerts |-> windows'[b]]
      BY <1>1, <2>3, <2>4, ChangeKeepsQuiet DEF QuietInv
    <3>2. QED
      BY <2>1, <3>1, AnswerShaped DEF QuietInv, MapsTyped
  <2>5. QED
    BY <2>1, <2>4, AnswerShaped, WindowsUntouched
<1>4. QED
  BY <1>2, <1>3

\* A sweep tells about held-back alerts only when the recap has been accepted.
LEMMA SweepQuiet == ASSUME QuietInv, NEW s \in Sweeps, Sweep(s) PROVE QuietInv'
<1>1. s \in Procs /\ s \notin Deliveries
  BY PayloadAssumption DEF Procs
<1>2. ASSUME NEW r, NEW label, DOMAIN r = {"now", "window", "batch", "todo"},
             pc' = [pc EXCEPT ![s] = label], seen' = [seen EXCEPT ![s] = r]
      PROVE  pc' = [q \in Procs |-> pc'[q]] /\ SeenShaped'
  BY <1>1, <1>2, ProcessKeepsShape
<1>3. DOMAIN seen[s] = {"now", "window", "batch", "todo"}
  BY <1>1 DEF QuietInv, SeenShaped
<1>4. CASE SweepStart(s)
  <2> DEFINE r1 == [seen[s] EXCEPT !.now = clock]
             r2 == [r1 EXCEPT !.batch = Deferred]
  <2>1. windows' = windows /\ \E label : pc' = [pc EXCEPT ![s] = label]
    BY <1>4 DEF SweepStart, Goto, windowVars
  <2>2. \/ seen' = [seen EXCEPT ![s].now = clock]
        \/ seen' = [seen EXCEPT ![s].now = clock, ![s].batch = Deferred]
    BY <1>4 DEF SweepStart
  <2>3. seen' = [seen EXCEPT ![s] = r1] \/ seen' = [seen EXCEPT ![s] = r2]
    BY <1>1, <2>2 DEF QuietInv, SeenShaped
  <2>4. /\ DOMAIN r1 = {"now", "window", "batch", "todo"}
        /\ DOMAIN r2 = {"now", "window", "batch", "todo"}
    BY <1>3
  <2> HIDE DEF r1, r2
  <2>5. QED
    BY <1>2, <2>1, <2>3, <2>4, WindowsUntouched
<1>5. ASSUME NEW todo, NEW label, pc' = [pc EXCEPT ![s] = label], seen' = [seen EXCEPT ![s].todo = todo]
      PROVE  pc' = [q \in Procs |-> pc'[q]] /\ SeenShaped'
  <2> DEFINE r == [seen[s] EXCEPT !.todo = todo]
  <2>1. seen' = [seen EXCEPT ![s] = r] /\ DOMAIN r = {"now", "window", "batch", "todo"}
    BY <1>3, <1>5
  <2> HIDE DEF r
  <2>2. QED
    BY <1>2, <1>5, <2>1
<1>6. CASE SweepScan(s)
  BY <1>5, <1>6, WindowsUntouched DEF SweepScan, Goto, windowVars
<1>7. CASE SweepNext(s)
  <2>1. windows' = windows
    BY <1>7 DEF SweepNext, windowVars
  <2>2. CASE seen' = seen /\ pc' = [pc EXCEPT ![s] = "closing"]
    BY <1>1, <2>1, <2>2, ProcessHolds, WindowsUntouched
  <2>3. CASE seen' = [seen EXCEPT ![s].todo = Tail(@)] /\ pc' = pc
    <3>1. pc' = [pc EXCEPT ![s] = pc[s]]
      BY <1>1, <2>3 DEF QuietInv, MapsTyped
    <3>2. QED
      BY <1>5, <2>1, <2>3, <3>1, WindowsUntouched
  <2>4. QED
    BY <1>7, <2>2, <2>3 DEF SweepNext, Goto
<1>8. CASE SweepClose(s)
  <2> DEFINE a == Head(seen[s].todo).alert
  <2>1. /\ pc' = [pc EXCEPT ![s] = "close"] /\ seen' = [seen EXCEPT ![s].todo = Tail(@)]
        /\ windows' = windows \/ windows' = [windows EXCEPT ![a] = NoWindow]
    BY <1>8 DEF SweepClose, Closed, Goto, windowVars
  <2> HIDE DEF a
  <2>2. pc' = [q \in Procs |-> pc'[q]] /\ SeenShaped'
    BY <1>5, <2>1
  <2>3. CASE windows' = windows
    BY <2>2, <2>3, WindowsUntouched
  <2>4. CASE windows' = [windows EXCEPT ![a] = NoWindow]
    <3>1. WindowShaped(NoWindow) /\ ~NoWindow.open
      BY FreshShaped
    <3>2. \A b \in Alerts : windows'[b] = NoWindow \/ windows'[b] = windows[b]
      BY <2>4 DEF QuietInv, MapsTyped
    <3>3. WindowsQuiet'
      BY <3>1, <3>2 DEF QuietInv, WindowsQuiet, WindowShaped
    <3>4. DOMAIN windows' = Alerts /\ windows' = [b \in Alerts |-> windows'[b]]
      BY <2>4 DEF QuietInv, MapsTyped
    <3>5. QED
      BY <2>2, <3>3, <3>4 DEF QuietInv, MapsTyped
  <2>5. QED
    BY <2>1, <2>3, <2>4
<1>9. CASE \/ DailyIdle(s) \/ DailySwap(s) \/ DailyRetry(s)
           \/ \E answer \in Answers : DailySent(s, answer)
  <2>1. windows' = windows /\ seen' = seen /\ \E label : pc' = [pc EXCEPT ![s] = label]
    BY <1>9 DEF DailyIdle, DailySwap, DailyRetry, DailySent, Goto, windowVars
  <2>2. QED
    BY <1>1, <2>1, ProcessHolds, WindowsUntouched
<1>10. CASE SweepPersist(s)
  <2>1. /\ windows' = windows /\ seen' = [seen EXCEPT ![s] = Blank]
        /\ pc' = [pc EXCEPT ![s] = "idle"]
    BY <1>10 DEF SweepPersist, Goto, windowVars
  <2>2. DOMAIN Blank = {"now", "window", "batch", "todo"}
    BY DEF Blank
  <2>3. QED
    BY <1>2, <2>1, <2>2, WindowsUntouched
<1>11. ASSUME NEW answer \in Answers, RestartRecapSent(s, answer) PROVE QuietInv'
  <2>1. pc' = [pc EXCEPT ![s] = "scan"] /\ seen' = seen
    BY <1>11 DEF RestartRecapSent, Goto
  <2>2. pc' = [q \in Procs |-> pc'[q]] /\ SeenShaped'
    BY <1>1, <2>1, ProcessHolds
  <2>3. CASE ~RecapDone(answer)
    BY <1>11, <2>2, <2>3, WindowsUntouched DEF RestartRecapSent
  <2>4. CASE RecapDone(answer)
    <3> DEFINE w(a) == [windows[a] EXCEPT !.deferred = FALSE, !.told = @ \/ Accepted(answer)]
    <3>1. windows' = [a \in Alerts |-> IF a \in seen[s].batch /\ windows[a].open
                                         THEN w(a) ELSE windows[a]]
      BY <1>11, <2>4 DEF RestartRecapSent
    <3>2. Accepted(answer)
      BY <2>4 DEF RecapDone
    <3>3. ASSUME NEW a \in Alerts PROVE WindowShaped(w(a)) /\ w(a).told
      <4>1. "told" \in DOMAIN windows[a] /\ WindowShaped(windows[a])
        BY DEF QuietInv, WindowsQuiet, WindowShaped
      <4>2. QED
        BY <3>2, <4>1 DEF WindowShaped
    <3> HIDE DEF w
    <3>4. \A a \in Alerts : windows'[a] = w(a) \/ windows'[a] = windows[a]
      BY <3>1
    <3>5. WindowsQuiet'
      BY <3>3, <3>4 DEF QuietInv, WindowsQuiet, WindowShaped
    <3>6. QED
      BY <2>2, <3>1, <3>5 DEF QuietInv, MapsTyped
  <2>5. QED
    BY <2>3, <2>4
<1>12. QED
  BY <1>4, <1>6, <1>7, <1>8, <1>9, <1>10, <1>11 DEF Sweep

\* A process that starts without a file has no window, and sends nothing.
LEMMA BootQuiet == ASSUME QuietInv, Boot(NoDisk) PROVE QuietInv'
<1>1. /\ seen' = [p \in Procs |-> Blank]
      /\ pc' = [p \in Procs |-> IF p \in Sweeps THEN "idle"
                                ELSE IF pc[p] \in {"idle", "ok", "failed"} THEN pc[p] ELSE "lost"]
      /\ windows' = [a \in Alerts |-> NoWindow]
  BY DEF Boot, NoDisk, NoWindows
<1>2. \A d \in Deliveries : pc'[d] # "sending"
  BY <1>1, KindsApart
<1>3. WindowShaped(NoWindow) /\ ~NoWindow.open /\ DOMAIN Blank = {"now", "window", "batch", "todo"}
  BY FreshShaped DEF Blank
<1>4. SeenShaped'
  BY <1>1, <1>2, <1>3 DEF SeenShaped
<1>5. WindowsQuiet'
  BY <1>1, <1>3 DEF WindowsQuiet, WindowShaped
<1>6. QED
  BY <1>1, <1>4, <1>5 DEF QuietInv, MapsTyped

\* QuietInv is inductive without a state file.
LEMMA QuietStep ==
  ASSUME ~StateFile, DiskEmpty, QuietInv, [Next]_vars
  PROVE  QuietInv'
<1>1. CASE \E d \in Deliveries : Receive(d) \/ Handle(d)
  BY <1>1, HandlerQuiet, SendQuiet DEF Handle
<1>2. CASE \E s \in Sweeps : Sweep(s)
  BY <1>2, SweepQuiet
<1>3. CASE Tick \/ UNCHANGED vars
  <2>1. windows' = windows /\ pc' = pc /\ seen' = seen
    BY <1>3 DEF Tick, vars, windowVars
  <2>2. QED
    BY <2>1 DEF QuietInv, MapsTyped, SeenShaped, WindowsQuiet, WindowShaped
<1>4. CASE Deploy \/ Crash
  <2>1. Boot(NoDisk)
    BY <1>4 DEF Deploy, Crash, DiskEmpty
  <2>2. QED
    BY <2>1, BootQuiet
<1>5. QED
  BY <1>1, <1>2, <1>3, <1>4 DEF Next, Running

\* Without a state file nobody is muted untold, whatever is rejected, deferred,
\* dropped at the limit or lost with the process.  (With a file it fails where a
\* snapshot forgets that a window was waiting for the restart recap, which is the
\* exception that QuietMeansTold names.)
THEOREM NobodyMutedUntold == ~StateFile => (Spec => []MutedMeansTold)
<1> SUFFICES ASSUME ~StateFile PROVE Spec => []MutedMeansTold
  OBVIOUS
<1>1. Init => PendingInv /\ QuietInv
  <2> SUFFICES ASSUME Init PROVE PendingInv /\ QuietInv
    OBVIOUS
  <2>1. PendingInv
    BY DEF Init, PendingInv, DiskEmpty, PendingShaped, NoPending
  <2>2. WindowShaped(NoWindow) /\ ~NoWindow.open
    BY FreshShaped
  <2>3. MapsTyped /\ SeenShaped
    BY DEF Init, MapsTyped, SeenShaped, NoWindows, Blank, Procs
  <2>4. WindowsQuiet
    BY <2>2 DEF Init, WindowsQuiet, NoWindows
  <2>5. QED
    BY <2>1, <2>3, <2>4 DEF QuietInv
<1>2. PendingInv /\ QuietInv /\ [Next]_vars => PendingInv' /\ QuietInv'
  BY PendingStep, QuietStep DEF PendingInv
<1>3. QuietInv => MutedMeansTold
  BY DEF QuietInv, WindowsQuiet, MutedMeansTold
<1>4. QED
  BY <1>1, <1>2, <1>3, PTL DEF Spec

-----------------------------------------------------------------------------
(* The recap of a period is posted once.                                     *)

\* The number of the day an instant belongs to.
DayOf(t) == t \div Day

\* What a sweep remembers as now is not later than now.
SeenInPast ==
  /\ clock \in Nat
  /\ seen = [p \in Procs |-> seen[p]]
  /\ \A s \in Sweeps : "now" \in DOMAIN seen[s] /\ seen[s].now \in Nat /\ seen[s].now <= clock

\* Posted recaps are of days before the one that comes next, and of days begun.
PostedBefore ==
  /\ nextRecapAt \in Nat
  /\ recaps = [n \in RecapDays |-> recaps[n]]
  /\ \A n \in RecapDays : recaps[n] \in {0, 1} /\
       (recaps[n] = 1 => n < DayOf(nextRecapAt) /\ n <= DayOf(clock))

\* The recap that waits has not been posted.
PendingUnposted ==
  pendingRecap.held =>
    /\ pendingRecap.until \in Nat /\ pendingRecap.until <= clock
    /\ DayOf(pendingRecap.until) < DayOf(nextRecapAt)
    /\ DayOf(pendingRecap.until) \in RecapDays => recaps[DayOf(pendingRecap.until)] = 0

\* One sweep at a time sends it.
OneSend ==
  \A s \in Sweeps : pc[s] = "dailyRecap" =>
    /\ recapInFlight /\ pendingRecap.held
    /\ \A o \in Sweeps : pc[o] = "dailyRecap" => o = s

OnceInv == MapsTyped /\ SeenInPast /\ PostedBefore /\ PendingUnposted /\ OneSend

\* The day is a positive number of milliseconds.
LEMMA DayPositive == Day \in Nat \ {0} /\ MaxTime \in Nat
  BY OptionsAssumption

\* Days come in order.
LEMMA DayMonotone ==
  ASSUME NEW x \in Nat, NEW y \in Nat, x <= y
  PROVE  DayOf(x) \in Nat /\ DayOf(y) \in Nat /\ DayOf(x) <= DayOf(y)
  BY DayPositive, SMT DEF DayOf

\* The next recap is on the day after.
LEMMA NextRecapDay ==
  ASSUME NEW t \in Nat
  PROVE  NextRecapTime(t) \in Nat /\ DayOf(NextRecapTime(t)) = DayOf(t) + 1
<1>1. Day \in Nat \ {0}
  BY DayPositive
<1>2. t \div Day \in Nat
  BY <1>1, SMT
<1>3. \A k \in Nat : k * Day \in Nat /\ (k * Day) \div Day = k
  BY <1>1, SMT
<1>4. QED
  BY <1>2, <1>3 DEF NextRecapTime, DayOf

\* Steps that touch neither the recaps nor the day: time may pass.
LEMMA OnceUntouched ==
  ASSUME OnceInv, clock' \in Nat, clock <= clock',
         nextRecapAt' = nextRecapAt, recaps' = recaps, pendingRecap' = pendingRecap,
         recapInFlight' = recapInFlight, SeenInPast', MapsTyped',
         \A s \in Sweeps : pc'[s] = "dailyRecap" => pc[s] = "dailyRecap"
  PROVE  OnceInv'
<1>1. DayOf(clock) \in Nat /\ DayOf(clock') \in Nat /\ DayOf(clock) <= DayOf(clock')
  BY DayMonotone DEF OnceInv, SeenInPast
<1>2. RecapDays \subseteq Nat
  BY DayPositive, SMT DEF RecapDays
<1>3. PostedBefore'
  BY <1>1, <1>2, SMT DEF OnceInv, PostedBefore, SeenInPast, DayOf
<1>4. PendingUnposted'
  <2> SUFFICES ASSUME pendingRecap'.held
               PROVE  PendingUnposted'
    BY DEF PendingUnposted
  <2>1. /\ pendingRecap.until \in Nat /\ pendingRecap.until <= clock
        /\ DayOf(pendingRecap.until) < DayOf(nextRecapAt)
        /\ DayOf(pendingRecap.until) \in RecapDays => recaps[DayOf(pendingRecap.until)] = 0
    BY DEF OnceInv, PendingUnposted
  <2>2. pendingRecap.until <= clock'
    BY <2>1, SMT DEF OnceInv, SeenInPast
  <2>3. QED
    BY <2>1, <2>2 DEF PendingUnposted, DayOf
<1>5. OneSend'
  BY DEF OnceInv, OneSend
<1>6. QED
  BY <1>3, <1>4, <1>5 DEF OnceInv

\* What handlers do is nothing to the recaps.
LEMMA HandlerOnce ==
  ASSUME OnceInv, LockInv, LockInv', NEW d \in Deliveries, Receive(d) \/ Handle(d)
  PROVE  OnceInv'
<1>1. d \in Procs /\ d \notin Sweeps
  BY KindsApart
<1>2. /\ clock' = clock /\ nextRecapAt' = nextRecapAt /\ recaps' = recaps
      /\ pendingRecap' = pendingRecap /\ recapInFlight' = recapInFlight
  BY DEF Receive, Handle, Identify, Defer, Announce, Repeat, Announced, Escalated,
     recapVars, ghostVars
<1>3. \E label, s : pc' = [pc EXCEPT ![d] = label] /\ (seen' = seen \/ seen' = [seen EXCEPT ![d] = s])
  <2>1. CASE Receive(d)
    BY <2>1 DEF Receive, Goto
  <2>2. CASE \E label \in {"ok", "failed"} : Answer(d, label)
    BY <2>2 DEF Answer, Goto
  <2>3. CASE Identify(d) /\ ~Answer(d, "ok")
    <3>1. pc' = [pc EXCEPT ![d] = "event"] /\ seen' = [seen EXCEPT ![d] = [@ EXCEPT !.now = clock]]
      BY <2>3 DEF Identify, Goto
    <3>2. QED
      BY <3>1
  <2>4. CASE Announce(d)
    <3>1. /\ pc' = [pc EXCEPT ![d] = "sending"]
          /\ seen' = [seen EXCEPT ![d] = [@ EXCEPT !.window = OpenWindow(d, seen[d].now, FALSE)]]
      BY <2>4 DEF Announce, Goto
    <3>2. QED
      BY <3>1
  <2>5. CASE Repeat(d) /\ ~Answer(d, "ok")
    BY <2>5 DEF Repeat, Goto
  <2>6. CASE Defer(d) \/ \E answer \in Answers : Announced(d, answer) \/ Escalated(d, answer)
    <3>1. \E label \in {"ok", "failed"} : Answer(d, label)
      BY <2>6 DEF Defer, Announced, Escalated
    <3>2. QED
      BY <2>2, <3>1
  <2>7. QED
    BY <2>1, <2>2, <2>3, <2>4, <2>5, <2>6 DEF Handle
<1>4. \A s \in Sweeps : pc'[s] = pc[s] /\ seen'[s] = seen[s]
  BY <1>1, <1>3 DEF OnceInv, MapsTyped, SeenInPast, Procs
<1>5. seen' = [p \in Procs |-> seen'[p]]
  BY <1>1, <1>3 DEF OnceInv, SeenInPast
<1>6. SeenInPast'
  BY <1>2, <1>4, <1>5 DEF OnceInv, SeenInPast
<1>7. QED
  BY <1>2, <1>4, <1>6, OnceUntouched DEF LockInv, OnceInv, SeenInPast

\* What a sweep remembers as now is when it started.
LEMMA SweepInPast == ASSUME OnceInv, NEW s \in Sweeps, Sweep(s) PROVE SeenInPast'
<1>1. s \in Procs
  BY DEF Procs
<1>2. clock' = clock
  BY DEF Sweep, SweepStart, SweepScan, SweepNext, SweepClose, DailyIdle, DailySwap, DailyRetry,
     SweepPersist, RestartRecapSent, DailySent
<1>3. ASSUME NEW r, "now" \in DOMAIN r, r.now \in Nat, r.now <= clock, seen' = [seen EXCEPT ![s] = r]
      PROVE  SeenInPast'
  <2>1. \A o \in Sweeps : seen'[o] = IF o = s THEN r ELSE seen[o]
    BY <1>1, <1>3 DEF OnceInv, SeenInPast, Procs
  <2>2. seen' = [p \in Procs |-> seen'[p]]
    BY <1>3 DEF OnceInv, SeenInPast
  <2>3. QED
    BY <1>2, <1>3, <2>1, <2>2 DEF OnceInv, SeenInPast
<1>4. "now" \in DOMAIN seen[s] /\ seen[s].now \in Nat /\ seen[s].now <= clock /\ clock \in Nat
  BY DEF OnceInv, SeenInPast
<1>5. CASE SweepStart(s)
  <2> DEFINE r1 == [seen[s] EXCEPT !.now = clock]
             r2 == [r1 EXCEPT !.batch = Deferred]
  <2>1. \/ seen' = [seen EXCEPT ![s].now = clock]
        \/ seen' = [seen EXCEPT ![s].now = clock, ![s].batch = Deferred]
    BY <1>5 DEF SweepStart
  <2>2. seen' = [seen EXCEPT ![s] = r1] \/ seen' = [seen EXCEPT ![s] = r2]
    BY <1>1, <2>1 DEF OnceInv, SeenInPast
  <2>3. /\ "now" \in DOMAIN r1 /\ r1.now = clock
        /\ "now" \in DOMAIN r2 /\ r2.now = clock
    BY <1>4
  <2> HIDE DEF r1, r2
  <2>4. QED
    BY <1>3, <1>4, <2>2, <2>3
<1>6. CASE SweepScan(s) \/ SweepNext(s) \/ SweepClose(s)
  <2>1. seen' = seen \/ \E todo : seen' = [seen EXCEPT ![s].todo = todo]
    BY <1>6 DEF SweepScan, SweepNext, SweepClose
  <2>2. CASE seen' = seen
    BY <1>2, <2>2 DEF OnceInv, SeenInPast
  <2>3. ASSUME NEW todo, seen' = [seen EXCEPT ![s].todo = todo] PROVE SeenInPast'
    <3> DEFINE r == [seen[s] EXCEPT !.todo = todo]
    <3>1. seen' = [seen EXCEPT ![s] = r] /\ "now" \in DOMAIN r /\ r.now = seen[s].now
      BY <1>4, <2>3
    <3> HIDE DEF r
    <3>2. QED
      BY <1>3, <1>4, <3>1
  <2>4. QED
    BY <2>1, <2>2, <2>3
<1>7. CASE SweepPersist(s)
  <2>1. seen' = [seen EXCEPT ![s] = Blank] /\ "now" \in DOMAIN Blank /\ Blank.now = 0
    BY <1>7 DEF SweepPersist, Blank
  <2>2. Blank.now \in Nat /\ Blank.now <= clock
    BY <1>4, <2>1
  <2> DEFINE r == Blank
  <2>3. seen' = [seen EXCEPT ![s] = r] /\ "now" \in DOMAIN r /\ r.now \in Nat /\ r.now <= clock
    BY <2>1, <2>2
  <2> HIDE DEF r
  <2>4. QED
    BY <1>3, <2>3
<1>8. CASE \/ DailyIdle(s) \/ DailySwap(s) \/ DailyRetry(s)
           \/ \E answer \in Answers : RestartRecapSent(s, answer) \/ DailySent(s, answer)
  BY <1>2, <1>8 DEF DailyIdle, DailySwap, DailyRetry, RestartRecapSent, DailySent, OnceInv, SeenInPast
<1>9. QED
  BY <1>5, <1>6, <1>7, <1>8 DEF Sweep

\* The parts of a sweep that send no daily recap.
LEMMA QuietSweepOnce ==
  ASSUME OnceInv, LockInv', NEW s \in Sweeps, Sweep(s),
         \/ SweepStart(s) \/ SweepScan(s) \/ SweepNext(s) \/ SweepClose(s)
         \/ DailyIdle(s) \/ SweepPersist(s) \/ \E answer \in Answers : RestartRecapSent(s, answer)
  PROVE  OnceInv'
<1>1. s \in Procs /\ SeenInPast' /\ MapsTyped'
  BY SweepInPast DEF Procs, LockInv
<1>2. /\ clock' = clock /\ nextRecapAt' = nextRecapAt /\ recaps' = recaps
      /\ pendingRecap' = pendingRecap /\ recapInFlight' = recapInFlight
  BY DEF SweepStart, SweepScan, SweepNext, SweepClose, DailyIdle, SweepPersist, RestartRecapSent,
     recapVars, ghostVars
<1>3. \/ pc' = pc
      \/ \E label : pc' = [pc EXCEPT ![s] = label] /\ label # "dailyRecap"
  BY DEF SweepStart, SweepScan, SweepNext, SweepClose, DailyIdle, SweepPersist, RestartRecapSent, Goto
<1>4. \A o \in Sweeps : pc'[o] = "dailyRecap" => pc[o] = "dailyRecap"
  BY <1>1, <1>3 DEF OnceInv, MapsTyped, Procs
<1>5. QED
  BY <1>1, <1>2, <1>4, OnceUntouched DEF OnceInv, SeenInPast

\* The period that ends becomes the one that waits; a silent one is forgotten.
LEMMA SwapOnce ==
  ASSUME OnceInv, LockInv', NEW s \in Sweeps, DailySwap(s), SeenInPast'
  PROVE  OnceInv'
<1>1. s \in Procs
  BY DEF Procs
<1>2. /\ clock' = clock /\ recaps' = recaps /\ seen' = seen
      /\ nextRecapAt' = NextRecapTime(seen[s].now)
      /\ seen[s].now >= nextRecapAt
      /\ ~pendingRecap.held /\ ~recapInFlight
      /\ \/ pendingRecap' = pendingRecap /\ pc' = [pc EXCEPT ![s] = "persist"]
         \/ /\ pendingRecap' = [held |-> TRUE, tally |-> daily, until |-> nextRecapAt]
            /\ recapInFlight' = TRUE /\ pc' = [pc EXCEPT ![s] = "dailyRecap"]
  BY DEF DailySwap, DailyDue, SendInFlight, Goto, ghostVars
<1>3. /\ seen[s].now \in Nat /\ seen[s].now <= clock /\ clock \in Nat /\ nextRecapAt \in Nat
      /\ nextRecapAt <= seen[s].now
  BY <1>2 DEF OnceInv, SeenInPast, PostedBefore
<1>4. /\ nextRecapAt' \in Nat /\ DayOf(nextRecapAt) \in Nat /\ DayOf(nextRecapAt') \in Nat
      /\ DayOf(nextRecapAt) < DayOf(nextRecapAt')
  <2>1. DayOf(nextRecapAt) \in Nat /\ DayOf(seen[s].now) \in Nat /\ DayOf(nextRecapAt) <= DayOf(seen[s].now)
    BY <1>3, DayMonotone
  <2>2. NextRecapTime(seen[s].now) \in Nat /\ DayOf(NextRecapTime(seen[s].now)) = DayOf(seen[s].now) + 1
    BY <1>3, NextRecapDay
  <2>3. nextRecapAt' \in Nat /\ DayOf(nextRecapAt') = DayOf(seen[s].now) + 1
    BY <1>2, <2>2 DEF DayOf
  <2>4. QED
    BY <2>1, <2>3
<1>5. DayOf(nextRecapAt)  \in Nat /\ RecapDays \subseteq Nat
  BY <1>4, DayPositive, SMT DEF RecapDays
<1>6. \A o \in Sweeps : pc[o] # "dailyRecap"
  BY <1>2 DEF OnceInv, OneSend
<1>7. PostedBefore'
  <2>1. DayOf(clock)' = DayOf(clock)
    BY <1>2 DEF DayOf
  <2>2. ASSUME NEW n \in RecapDays
        PROVE  recaps[n] \in {0, 1} /\ (recaps[n] = 1 => n < DayOf(nextRecapAt') /\ n <= DayOf(clock))
    <3>1. n \in Nat /\ recaps[n] \in {0, 1} /\
          (recaps[n] = 1 => n < DayOf(nextRecapAt) /\ n <= DayOf(clock))
      BY <1>5, <2>2 DEF OnceInv, PostedBefore
    <3>2. n < DayOf(nextRecapAt) => n < DayOf(nextRecapAt')
      BY <1>4, <3>1
    <3>3. QED
      BY <3>1, <3>2
  <2>3. QED
    BY <1>2, <1>4, <2>1, <2>2 DEF PostedBefore, OnceInv, DayOf
<1>8. PendingUnposted'
  <2>1. CASE pendingRecap' = pendingRecap
    BY <1>2, <2>1 DEF PendingUnposted
  <2>2. CASE pendingRecap' = [held |-> TRUE, tally |-> daily, until |-> nextRecapAt]
    <3>1. pendingRecap'.until = nextRecapAt
      BY <2>2
    <3>2. nextRecapAt <= clock
      BY <1>3
    <3>3. DayOf(nextRecapAt) \in RecapDays => recaps[DayOf(nextRecapAt)] = 0
      BY <1>5 DEF OnceInv, PostedBefore
    <3>4. QED
      BY <1>2, <1>3, <1>4, <3>1, <3>2, <3>3 DEF PendingUnposted, DayOf
  <2>3. QED
    BY <1>2, <2>1, <2>2
<1>9. OneSend'
  <2>1. \A o \in Sweeps : pc'[o] = "dailyRecap" =>
          o = s /\ recapInFlight' /\ pendingRecap'.held
    BY <1>1, <1>2, <1>6 DEF OnceInv, MapsTyped, Procs
  <2>2. QED
    BY <2>1 DEF OneSend
<1>10. QED
  BY <1>7, <1>8, <1>9 DEF OnceInv, LockInv

\* The recap that waits is sent again.
LEMMA RetryOnce ==
  ASSUME OnceInv, PendingShaped, LockInv', NEW s \in Sweeps, DailyRetry(s), SeenInPast'
  PROVE  OnceInv'
<1>1. s \in Procs
  BY DEF Procs
<1>2. /\ clock' = clock /\ recaps' = recaps /\ nextRecapAt' = nextRecapAt
      /\ pendingRecap.held /\ ~recapInFlight /\ recapInFlight' = TRUE
      /\ pendingRecap' = [pendingRecap EXCEPT !.tally = pendingRecap.tally]
      /\ pc' = [pc EXCEPT ![s] = "dailyRecap"]
  BY DEF DailyRetry, RetryTally, SendInFlight, Goto, ghostVars
<1>3. pendingRecap' = pendingRecap
  BY <1>2 DEF PendingShaped
<1>4. PostedBefore' /\ PendingUnposted'
  BY <1>2, <1>3 DEF OnceInv, PostedBefore, PendingUnposted, DayOf
<1>5. OneSend'
  <2>1. \A o \in Sweeps : pc'[o] = "dailyRecap" => o = s
    BY <1>1, <1>2 DEF OnceInv, MapsTyped, OneSend, Procs
  <2>2. QED
    BY <1>2, <1>3, <2>1 DEF OneSend
<1>6. QED
  BY <1>4, <1>5 DEF OnceInv, LockInv

\* The answer of the send: an accepted recap waits no longer.
LEMMA SentOnce ==
  ASSUME OnceInv, LockInv', NEW s \in Sweeps, NEW answer \in Answers, DailySent(s, answer),
         SeenInPast'
  PROVE  OnceInv'
<1> DEFINE n0 == DayOf(pendingRecap.until)
           added == IF Accepted(answer) THEN 1 ELSE 0
<1>1. s \in Procs /\ pc[s] = "dailyRecap"
  BY DEF Procs, DailySent
<1>2. /\ clock' = clock /\ nextRecapAt' = nextRecapAt
      /\ recaps' = [recaps EXCEPT ![n0] = @ + added]
      /\ \/ pendingRecap' = NoPending
         \/ pendingRecap' = pendingRecap /\ ~Accepted(answer)
      /\ pc' = [pc EXCEPT ![s] = "persist"]
  BY DEF DailySent, DayOf, Goto
<1>3. /\ pendingRecap.until \in Nat /\ pendingRecap.until <= clock
      /\ DayOf(pendingRecap.until) < DayOf(nextRecapAt)
      /\ n0 \in RecapDays => recaps[n0] = 0
  BY <1>1 DEF OnceInv, OneSend, PendingUnposted
<1>4. clock \in Nat /\ nextRecapAt \in Nat
  BY DEF OnceInv, SeenInPast, PostedBefore
<1>5. n0 \in Nat /\ n0 <= DayOf(clock)
  BY <1>3, <1>4, DayMonotone
<1>6. added \in {0, 1} /\ (added = 1 => Accepted(answer))
  OBVIOUS
<1> HIDE DEF n0, added
<1>7. /\ recaps' = [n \in RecapDays |-> recaps'[n]]
      /\ \A n \in RecapDays : recaps'[n] = IF n = n0 THEN added ELSE recaps[n]
  BY <1>2, <1>3, <1>6 DEF OnceInv, PostedBefore
<1>8. PostedBefore'
  <2>1. \A n \in RecapDays : recaps'[n] \in {0, 1} /\
          (recaps'[n] = 1 => n < DayOf(nextRecapAt) /\ n <= DayOf(clock))
    BY <1>3, <1>5, <1>6, <1>7 DEF OnceInv, PostedBefore, n0
  <2>2. QED
    BY <1>2, <1>4, <1>7, <2>1 DEF PostedBefore, DayOf
<1>9. PendingUnposted'
  <2>1. CASE pendingRecap' = NoPending
    BY <2>1 DEF PendingUnposted, NoPending
  <2>2. CASE pendingRecap' = pendingRecap /\ ~Accepted(answer)
    <3>1. n0 \in RecapDays => recaps'[n0] = 0
      BY <1>6, <1>7, <2>2
    <3>2. QED
      BY <1>2, <1>3, <2>2, <3>1 DEF PendingUnposted, DayOf, n0
  <2>3. QED
    BY <1>2, <2>1, <2>2
<1>10. OneSend'
  <2>1. \A o \in Sweeps : pc'[o] # "dailyRecap"
    BY <1>1, <1>2 DEF OnceInv, MapsTyped, OneSend, Procs
  <2>2. QED
    BY <2>1 DEF OneSend
<1>11. QED
  BY <1>8, <1>9, <1>10 DEF OnceInv, LockInv

\* A process that starts without a file counts from the day it starts on.
LEMMA BootOnce ==
  ASSUME OnceInv, LockInv', Boot(NoDisk), clock' = clock, recaps' = recaps
  PROVE  OnceInv'
<1>1. /\ seen' = [p \in Procs |-> Blank]
      /\ pc' = [p \in Procs |-> IF p \in Sweeps THEN "idle"
                                ELSE IF pc[p] \in {"idle", "ok", "failed"} THEN pc[p] ELSE "lost"]
      /\ nextRecapAt' = NextRecapTime(clock)
      /\ pendingRecap' = NoPending
  BY DEF Boot, NoDisk, NoPending
<1>2. clock \in Nat
  BY DEF OnceInv, SeenInPast
<1>3. SeenInPast'
  <2>1. "now" \in DOMAIN Blank /\ Blank.now = 0
    BY DEF Blank
  <2>2. QED
    BY <1>1, <1>2, <2>1 DEF SeenInPast, Procs
<1>4. PostedBefore'
  <2>1. NextRecapTime(clock) \in Nat /\ DayOf(NextRecapTime(clock)) = DayOf(clock) + 1
    BY <1>2, NextRecapDay
  <2>2. nextRecapAt' \in Nat /\ DayOf(nextRecapAt') = DayOf(clock) + 1
    BY <1>1, <2>1 DEF DayOf
  <2>3. DayOf(clock) \in Nat /\ RecapDays \subseteq Nat
    BY <1>2, DayMonotone, DayPositive, SMT DEF RecapDays
  <2>4. \A n \in RecapDays : recaps[n] \in {0, 1} /\
          (recaps[n] = 1 => n < DayOf(nextRecapAt') /\ n <= DayOf(clock))
    BY <2>2, <2>3 DEF OnceInv, PostedBefore
  <2>5. QED
    BY <2>2, <2>4 DEF PostedBefore, OnceInv, DayOf
<1>5. PendingUnposted'
  BY <1>1 DEF PendingUnposted, NoPending
<1>6. OneSend'
  BY <1>1 DEF OneSend, Procs
<1>7. QED
  BY <1>3, <1>4, <1>5, <1>6 DEF OnceInv, LockInv

\* OnceInv is inductive without a state file.
LEMMA OnceStep ==
  ASSUME ~StateFile, PendingInv, LockInv, LockInv', OnceInv, [Next]_vars
  PROVE  OnceInv'
<1>1. CASE \E d \in Deliveries : Receive(d) \/ Handle(d)
  BY <1>1, HandlerOnce
<1>2. ASSUME NEW s \in Sweeps, Sweep(s) PROVE OnceInv'
  <2>1. SeenInPast'
    BY <1>2, SweepInPast
  <2>2. CASE DailySwap(s)
    BY <2>1, <2>2, SwapOnce
  <2>3. CASE DailyRetry(s)
    BY <2>1, <2>3, RetryOnce DEF PendingInv
  <2>4. CASE \E answer \in Answers : DailySent(s, answer)
    BY <2>1, <2>4, SentOnce
  <2>5. QED
    BY <1>2, <2>2, <2>3, <2>4, QuietSweepOnce DEF Sweep
<1>3. CASE Tick \/ UNCHANGED vars
  <2>1. /\ clock' \in Nat /\ clock <= clock' /\ seen' = seen /\ pc' = pc
        /\ nextRecapAt' = nextRecapAt /\ recaps' = recaps /\ pendingRecap' = pendingRecap
        /\ recapInFlight' = recapInFlight
    BY <1>3 DEF Tick, vars, recapVars, ghostVars, OnceInv, SeenInPast
  <2>2. SeenInPast'
    BY <2>1 DEF OnceInv, SeenInPast
  <2>3. QED
    BY <2>1, <2>2, OnceUntouched DEF LockInv
<1>4. CASE Deploy \/ Crash
  BY <1>4, BootOnce DEF Deploy, Crash, PendingInv, DiskEmpty
<1>5. CASE \E s \in Sweeps : Sweep(s)
  BY <1>2, <1>5
<1>6. QED
  BY <1>1, <1>3, <1>4, <1>5 DEF Next, Running

\* Without a state file the recap of a period is accepted at most once, however
\* many sweeps overlap, sends fail and processes are replaced.
THEOREM PeriodReportedOnce == ~StateFile => (Spec => []RecapPostedOnce)
<1> SUFFICES ASSUME ~StateFile PROVE Spec => []RecapPostedOnce
  OBVIOUS
<1>1. Init => PendingInv /\ LockInv /\ OnceInv
  <2> SUFFICES ASSUME Init PROVE PendingInv /\ LockInv /\ OnceInv
    OBVIOUS
  <2>1. PendingInv
    BY DEF Init, PendingInv, DiskEmpty, PendingShaped, NoPending
  <2>2. LockInv
    BY LockInit
  <2>3. SeenInPast /\ PendingUnposted /\ OneSend
    BY DEF Init, SeenInPast, PendingUnposted, OneSend, Blank, NoPending, Procs
  <2>4. PostedBefore
    BY NextRecapDay DEF Init, PostedBefore
  <2>5. QED
    BY <2>1, <2>2, <2>3, <2>4 DEF OnceInv, LockInv
<1>2. PendingInv /\ LockInv /\ OnceInv /\ [Next]_vars => PendingInv' /\ LockInv' /\ OnceInv'
  BY PendingStep, LockStep, OnceStep DEF PendingInv
<1>3. OnceInv => RecapPostedOnce
  BY DEF OnceInv, PostedBefore, RecapPostedOnce
<1>4. QED
  BY <1>1, <1>2, <1>3, PTL DEF Spec

=============================================================================
