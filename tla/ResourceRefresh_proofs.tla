------------------------ MODULE ResourceRefresh_proofs ------------------------
(* Proofs about ResourceRefresh for any number of callers, calls, direct     *)
(* reads, changes and failures: what is displayed and answered, and that the *)
(* reads somebody waits for run out.                                         *)
EXTENDS ResourceRefresh, TLAPS

(* Nothing is dated after the server's last change.                         *)
Bounded ==
  /\ \A r \in Resources : view[r] <= head /\ loop[r].from <= head
  /\ direct.from <= head /\ live.from <= head
  /\ \A c \in Callers : call[c].from <= head

(* A read that may still commit began after what is displayed; of the two   *)
(* reads of the Earn state one at most may.                                 *)
Ordered ==
  /\ loop["state"].active /\ loop["state"].current =>
       ~direct.current /\ view["state"] <= loop["state"].from
  /\ direct.current => view["state"] <= direct.from
  /\ loop["transactions"].active => view["transactions"] <= loop["transactions"].from

(* A loop's read that lost its token without a request lost it to a direct  *)
(* read that began after it.                                                *)
OvertakenLater ==
  loop["state"].active /\ ~loop["state"].current /\ ~loop["state"].dirty
    => direct.from >= loop["state"].from

(* The last read that a caller waits for begins, or began, after its call.  *)
Dated ==
  \A c \in Callers, r \in Resources : Awaited(c, r) =>
    loop[r].dirty \/ coord[r].dirty \/ loop[r].from >= call[c].from

IInv == TypeOK /\ NoOrphan /\ Bounded /\ Ordered /\ OvertakenLater /\ Dated

Loops == [active : BOOLEAN, dirty : BOOLEAN, current : BOOLEAN, from : Versions]
Directs == [active : BOOLEAN, current : BOOLEAN, from : Versions \cup {-1}]
Coords == [running : BOOLEAN, dirty : BOOLEAN]
Lives == [active : BOOLEAN, from : Versions]
Calls == [status : {"running", "ok", "failed"}, from : Versions,
          waiting : SUBSET Resources]

\* TypeOK, by the names of its sets.
LEMMA Types ==
  TypeOK <=>
    /\ head \in Versions /\ view \in [Resources -> Versions] /\ readable \in BOOLEAN
    /\ coord \in [Resources -> Coords] /\ loop \in [Resources -> Loops]
    /\ direct \in Directs /\ live \in Lives /\ call \in [Callers -> Calls]
    /\ calls \in 0 .. MaxCalls /\ directs \in 0 .. MaxDirect
    /\ failures \in 0 .. MaxFailures
BY DEF TypeOK, Loops, Directs, Coords, Lives, Calls

LEMMA ConstantTypes ==
  /\ MaxChanges \in Nat /\ MaxCalls \in Nat /\ MaxDirect \in Nat /\ MaxFailures \in Nat
  /\ 0 \in Versions /\ Versions \subseteq Nat
  /\ "state" \in Resources /\ "position" \in Resources /\ "transactions" \in Resources
BY BoundsAssumption DEF Versions, Resources

\* The records that the reads use.
LEMMA Records ==
  ASSUME TypeOK
  PROVE  /\ NoLoop \in Loops /\ Idle \in Coords /\ NoEffect \in Lives
         /\ \A status \in {"ok", "failed"} :
              /\ Settled(status) \in Calls /\ Settled(status).status = status
              /\ Settled(status).from = 0 /\ Settled(status).waiting = {}
         /\ Begun \in Loops /\ Begun.active = TRUE /\ Begun.dirty = FALSE
         /\ Begun.current = TRUE /\ Begun.from = head
         /\ NoLoop.active = FALSE /\ NoLoop.dirty = FALSE /\ NoLoop.current = FALSE
         /\ NoLoop.from = 0 /\ NoEffect.from = 0
         /\ Idle.running = FALSE /\ Idle.dirty = FALSE
<1>1. head \in Versions
  BY Types
<1>2. QED
  BY <1>1, ConstantTypes DEF NoLoop, Idle, NoEffect, Settled, Begun, Loops, Coords, Lives, Calls

\* What the versions in the state are.
LEMMA VersionTypes ==
  ASSUME TypeOK
  PROVE  /\ head \in Nat
         /\ \A r \in Resources : view[r] \in Nat /\ loop[r].from \in Nat
         /\ direct.from \in Int /\ live.from \in Nat
         /\ \A c \in Callers : call[c].from \in Nat
<1>1. head \in Nat /\ \A r \in Resources : view[r] \in Nat
  BY ConstantTypes, Types
<1>2. \A r \in Resources : loop[r].from \in Nat
  BY ConstantTypes, Types DEF Loops
<1>3. direct \in Directs /\ live \in Lives
  BY Types
<1>4. live.from \in Nat
  BY <1>3, ConstantTypes DEF Lives
<1>5. direct.from \in Versions \cup {-1}
  BY <1>3 DEF Directs
<1>6. \A v \in Versions \cup {-1} : v \in Int
  BY BoundsAssumption DEF Versions
<1>7. \A c \in Callers : call[c].from \in Nat
  BY ConstantTypes, Types DEF Calls
<1>8. QED
  BY <1>1, <1>2, <1>4, <1>5, <1>6, <1>7

LEMMA InitIInv == Init => IInv
<1> SUFFICES ASSUME Init PROVE IInv
  OBVIOUS
<1>1. /\ direct \in Directs /\ direct.from = -1 /\ direct.current = FALSE
      /\ live \in Lives /\ live.from = 0
  BY ConstantTypes DEF Init, NoRead, Directs, Lives
<1>2. /\ NoLoop \in Loops /\ Idle \in Coords /\ Settled("ok") \in Calls
      /\ NoLoop.active = FALSE /\ NoLoop.from = 0
      /\ Idle.running = FALSE /\ Settled("ok").status = "ok" /\ Settled("ok").from = 0
  BY ConstantTypes DEF NoLoop, Idle, Settled, Loops, Coords, Calls
<1>3. TypeOK
  BY <1>1, <1>2, ConstantTypes, Types DEF Init
<1>4. Bounded
  BY <1>1, <1>2 DEF Init, Bounded
<1>5. NoOrphan /\ Ordered /\ OvertakenLater /\ Dated
  BY <1>1, <1>2, ConstantTypes DEF Init, NoOrphan, Ordered, OvertakenLater, Dated, Awaited
<1>6. QED
  BY <1>3, <1>4, <1>5 DEF IInv

-----------------------------------------------------------------------------
(* Steps.                                                                   *)

LEMMA ServerKeeps == ASSUME IInv, ServerChanges PROVE IInv'
<1>1. /\ UNCHANGED <<view, readable, coord, loop, direct, live, call, calls, directs, failures>>
      /\ head' = head + 1 /\ head \in Nat /\ head' \in Versions
  BY ConstantTypes, Types DEF ServerChanges, counters, IInv, Versions
<1>2. TypeOK'
  BY <1>1, Types DEF IInv, TypeOK
<1>3. /\ \A r \in Resources : view[r] \in Nat /\ loop[r].from \in Nat
      /\ direct.from \in Int /\ live.from \in Nat
      /\ \A c \in Callers : call[c].from \in Nat
  BY VersionTypes DEF IInv
<1>4. Bounded'
  <2>1. \A n \in Int : n <= head => n <= head'
    BY <1>1
  <2>2. Bounded
    BY DEF IInv
  <2>3. \A r \in Resources : view'[r] <= head' /\ loop'[r].from <= head'
    BY <1>1, <1>3, <2>1, <2>2 DEF Bounded
  <2>4. direct'.from <= head' /\ live'.from <= head'
    BY <1>1, <1>3, <2>1, <2>2 DEF Bounded
  <2>5. \A c \in Callers : call'[c].from <= head'
    BY <1>1, <1>3, <2>1, <2>2 DEF Bounded
  <2>6. QED
    BY <2>3, <2>4, <2>5 DEF Bounded
<1>5. NoOrphan' /\ Ordered' /\ OvertakenLater' /\ Dated'
  BY <1>1 DEF IInv, NoOrphan, Ordered, OvertakenLater, Dated, Awaited
<1>6. QED
  BY <1>2, <1>4, <1>5 DEF IInv

\* A request makes its loop read once more, after now.
LEMMA RequestedIs ==
  ASSUME IInv, NEW r \in Resources
  PROVE  /\ Requested(r) \in Loops /\ Requested(r).active = TRUE
         /\ Requested(r).from <= head
         /\ Requested(r).dirty \/ Requested(r).from = head
         /\ r = "state" => \/ Requested(r).current = FALSE /\ Requested(r).dirty = TRUE
                           \/ Requested(r).from = head
         /\ r = "transactions" => \/ loop[r].active /\ Requested(r).from = loop[r].from
                                  \/ Requested(r).from = head
<1>1. loop[r] \in Loops /\ loop[r].from <= head /\ head \in Nat /\ TypeOK
  BY ConstantTypes, Types DEF IInv, Bounded
<1>2. CASE loop[r].active
  <2>1. Requested(r) = [active |-> TRUE, dirty |-> TRUE,
                        current |-> loop[r].current /\ r # "state", from |-> loop[r].from]
    BY <1>2 DEF Requested
  <2>2. /\ Requested(r) \in Loops /\ Requested(r).active = TRUE
        /\ Requested(r).dirty = TRUE /\ Requested(r).from = loop[r].from
        /\ r = "state" => Requested(r).current = FALSE
    <3>1. loop[r].current \in BOOLEAN /\ loop[r].from \in Versions
      BY <1>1 DEF Loops
    <3>2. (loop[r].current /\ r # "state") \in BOOLEAN
      OBVIOUS
    <3>3. r = "state" => (loop[r].current /\ r # "state") = FALSE
      OBVIOUS
    <3> DEFINE cur == loop[r].current /\ r # "state"
    <3> HIDE DEF cur
    <3>4. Requested(r) = [active |-> TRUE, dirty |-> TRUE, current |-> cur,
                          from |-> loop[r].from]
      BY <2>1 DEF cur
    <3>5. cur \in BOOLEAN /\ (r = "state" => cur = FALSE)
      BY <3>2, <3>3 DEF cur
    <3>6. QED
      BY <3>1, <3>4, <3>5 DEF Loops
  <2>3. QED
    BY <1>1, <1>2, <2>2
<1>3. CASE ~loop[r].active
  <2>1. Requested(r) = Begun
    BY <1>3 DEF Requested
  <2>2. Begun \in Loops /\ Begun.active = TRUE /\ Begun.from = head
    BY <1>1, Records
  <2>3. head <= head
    BY <1>1
  <2>4. QED
    BY <2>1, <2>2, <2>3
<1>4. QED
  BY <1>2, <1>3

\* The token of a direct read, once another request has taken it.
LEMMA OvertakenIs ==
  ASSUME IInv, NEW rs
  PROVE  /\ Overtaken(rs) \in Directs /\ Overtaken(rs).from = direct.from
         /\ IF "state" \in rs THEN Overtaken(rs).current = FALSE ELSE Overtaken(rs) = direct
BY Types DEF IInv, Overtaken, Directs

\* What requests for the resources rs do below the coordinator.
LEMMA RequestsKeep ==
  ASSUME IInv, NEW rs \in SUBSET Resources,
         UNCHANGED <<head, view, live>>,
         loop' = [r \in Resources |-> IF r \in rs THEN Requested(r) ELSE loop[r]],
         direct' = Overtaken(rs)
  PROVE  /\ loop' \in [Resources -> Loops] /\ direct' \in Directs
         /\ Ordered' /\ OvertakenLater'
         /\ \A r \in Resources : loop'[r].from <= head
         /\ direct'.from <= head
         /\ \A r \in rs : loop'[r].active /\ (loop'[r].dirty \/ loop'[r].from = head)
<1>1. /\ loop \in [Resources -> Loops] /\ direct \in Directs
      /\ view \in [Resources -> Versions] /\ head \in Versions
  BY Types DEF IInv
<1>2. \A r \in Resources : loop'[r] = IF r \in rs THEN Requested(r) ELSE loop[r]
  OBVIOUS
<1>3. loop' \in [Resources -> Loops]
  BY <1>1, RequestedIs
<1>4. direct' \in Directs /\ direct'.from = direct.from
      /\ IF "state" \in rs THEN direct'.current = FALSE ELSE direct' = direct
  BY OvertakenIs
<1>5. \A r \in Resources : view[r] <= head /\ loop[r].from <= head
  BY DEF IInv, Bounded
<1>6. Ordered'
  <2>1. loop'["state"].active /\ loop'["state"].current =>
          ~direct'.current /\ view'["state"] <= loop'["state"].from
    BY <1>2, <1>4, <1>5, ConstantTypes, RequestedIs DEF IInv, Ordered
  <2>2. direct'.current => view'["state"] <= direct'.from
    BY <1>4 DEF IInv, Ordered
  <2>3. loop'["transactions"].active => view'["transactions"] <= loop'["transactions"].from
    BY <1>2, <1>5, ConstantTypes, RequestedIs DEF IInv, Ordered
  <2>4. QED
    BY <2>1, <2>2, <2>3 DEF Ordered
<1>7. OvertakenLater'
  <2>1. CASE "state" \in rs
    BY <1>2, <2>1, ConstantTypes, RequestedIs, Records DEF OvertakenLater, Requested, IInv
  <2>2. CASE "state" \notin rs
    BY <1>2, <1>4, <2>2, ConstantTypes DEF IInv, OvertakenLater
  <2>3. QED
    BY <2>1, <2>2
<1>8. QED
  BY <1>2, <1>3, <1>4, <1>5, <1>6, <1>7, RequestedIs DEF IInv, Bounded

LEMMA InvalidateKeeps ==
  ASSUME IInv, NEW c \in Callers, NEW rs \in SUBSET Resources, Invalidate(c, rs)
  PROVE  IInv'
<1>1. PICK run : run = {r \in rs : ~Unreadable(r)}
  OBVIOUS
<1>2. PICK asked : asked = {r \in run : ~coord[r].running \/ HandlesInFlight(r)}
  OBVIOUS
<1>3. PICK asking :
        asking = IF run = {} THEN Settled("ok")
                 ELSE [status |-> "running", from |-> head, waiting |-> run]
  OBVIOUS
<1>4. /\ UNCHANGED <<head, view, readable, live, directs, failures>>
      /\ calls < MaxCalls /\ calls' = calls + 1 /\ call[c].status # "running"
      /\ loop' = [r \in Resources |-> IF r \in asked THEN Requested(r) ELSE loop[r]]
      /\ direct' = Overtaken(asked)
      /\ call' = [call EXCEPT ![c] = asking]
      /\ coord' = [r \in Resources |->
                     IF r \notin run THEN coord[r]
                     ELSE [running |-> TRUE, dirty |-> coord[r].dirty \/ r \notin asked]]
  BY <1>1, <1>2, <1>3 DEF Invalidate
<1>5. /\ run \in SUBSET Resources /\ asked \in SUBSET Resources
      /\ \A r \in run \ asked : coord[r].running
  BY <1>1, <1>2
<1>6. /\ asking \in Calls /\ asking.from \in {0, head} /\ asking.waiting = run
      /\ asking.status = "running" => asking.from = head
  <2>1. head \in Versions /\ TypeOK
    BY Types DEF IInv
  <2>2. CASE run = {}
    BY <1>3, <2>1, <2>2, Records
  <2>3. CASE run # {}
    BY <1>5, <1>3, <2>1, <2>3 DEF Calls
  <2>4. QED
    BY <2>2, <2>3
<1>7. /\ loop' \in [Resources -> Loops] /\ direct' \in Directs
      /\ Ordered' /\ OvertakenLater'
      /\ \A r \in Resources : loop'[r].from <= head
      /\ direct'.from <= head
      /\ \A r \in asked : loop'[r].active /\ (loop'[r].dirty \/ loop'[r].from = head)
  BY <1>4, <1>5, RequestsKeep
<1>8. /\ head \in Versions /\ view \in [Resources -> Versions]
      /\ coord \in [Resources -> Coords] /\ live \in Lives /\ call \in [Callers -> Calls]
      /\ calls \in 0 .. MaxCalls /\ directs \in 0 .. MaxDirect /\ failures \in 0 .. MaxFailures
  BY Types DEF IInv
<1>9. /\ \A r \in Resources \ run : coord'[r] = coord[r]
      /\ \A r \in run : /\ coord'[r].running = TRUE
                        /\ coord[r].dirty \/ r \notin asked => coord'[r].dirty
  BY <1>4, <1>5
<1>10. (\A d \in Callers \ {c} : call'[d] = call[d]) /\ call'[c] = asking
  BY <1>4, <1>8
<1>11. TypeOK'
  <2>1. call' \in [Callers -> Calls]
    BY <1>4, <1>6, <1>8
  <2>2. \A r \in Resources : (coord[r].dirty \/ r \notin asked) \in BOOLEAN
    BY <1>8 DEF Coords
  <2>3. coord' \in [Resources -> Coords]
    <3> DEFINE late(r) == coord[r].dirty \/ r \notin asked
    <3>1. coord' = [r \in Resources |->
                      IF r \notin run THEN coord[r] ELSE [running |-> TRUE, dirty |-> late(r)]]
      BY <1>4
    <3>2. \A r \in Resources : late(r) \in BOOLEAN
      BY <2>2
    <3> HIDE DEF late
    <3>3. QED
      BY <3>1, <3>2, <1>8 DEF Coords
  <2>4. calls' \in 0 .. MaxCalls
    BY <1>4, <1>8, BoundsAssumption
  <2>5. /\ head' \in Versions /\ view' \in [Resources -> Versions] /\ live' \in Lives
        /\ directs' \in 0 .. MaxDirect /\ failures' \in 0 .. MaxFailures
        /\ readable' \in BOOLEAN
    BY <1>4, <1>8, Types DEF IInv
  <2>6. QED
    BY <1>7, <2>1, <2>3, <2>4, <2>5 DEF TypeOK, Loops, Directs, Coords, Lives, Calls
<1>12. NoOrphan'
  <2>1. \A r \in Resources : coord'[r].running => loop'[r].active
    <3> SUFFICES ASSUME NEW r \in Resources, coord'[r].running PROVE loop'[r].active
      OBVIOUS
    <3>1. CASE r \in asked
      BY <1>7, <3>1
    <3>2. CASE r \notin asked
      BY <1>4, <1>5, <1>9, <3>2 DEF IInv, NoOrphan
    <3>3. QED
      BY <3>1, <3>2
  <2>2. \A r \in Resources, d \in Callers : Awaited(d, r)' => coord'[r].running
    <3> SUFFICES ASSUME NEW r \in Resources, NEW d \in Callers, Awaited(d, r)'
                 PROVE  coord'[r].running
      OBVIOUS
    <3>1. CASE d = c
      BY <1>6, <1>9, <1>10, <3>1 DEF Awaited
    <3>2. CASE d # c
      <4>1. coord[r].running
        BY <1>10, <3>2 DEF IInv, NoOrphan, Awaited
      <4>2. QED
        BY <1>9, <4>1
    <3>3. QED
      BY <3>1, <3>2
  <2>3. QED
    BY <2>1, <2>2 DEF NoOrphan
<1>13. Bounded'
  <2>1. head \in Nat /\ head' = head
    BY <1>4, <1>8, ConstantTypes
  <2>2. \A d \in Callers : call'[d].from <= head
    BY <1>6, <1>10, <2>1 DEF IInv, Bounded
  <2>3. QED
    BY <1>4, <1>7, <2>1, <2>2 DEF IInv, Bounded
<1>14. Dated'
  <2> SUFFICES ASSUME NEW d \in Callers, NEW r \in Resources, Awaited(d, r)'
               PROVE  loop'[r].dirty \/ coord'[r].dirty \/ loop'[r].from >= call'[d].from
    BY DEF Dated
  <2>1. CASE r \in asked
    <3>1. call'[d].from <= head
      BY <1>4, <1>13 DEF Bounded
    <3>2. loop'[r].dirty \/ loop'[r].from = head
      BY <1>7, <2>1
    <3>3. call'[d].from \in Nat /\ head \in Nat
      BY ConstantTypes, <1>6, <1>8, <1>10 DEF Calls
    <3>4. QED
      BY <3>1, <3>2, <3>3
  <2>2. CASE r \notin asked /\ d = c
    <3>1. r \in run
      BY <1>6, <1>10, <2>2 DEF Awaited
    <3>2. QED
      BY <1>9, <2>2, <3>1
  <2>3. CASE r \notin asked /\ d # c
    <3>1. Awaited(d, r) /\ call'[d] = call[d]
      BY <1>10, <2>3 DEF Awaited
    <3>2. loop'[r] = loop[r]
      BY <1>4, <2>3
    <3>3. coord[r].dirty => coord'[r].dirty
      <4>1. CASE r \in run
        BY <1>9, <4>1
      <4>2. CASE r \notin run
        BY <1>9, <4>2
      <4>3. QED
        BY <4>1, <4>2
    <3>4. QED
      BY <3>1, <3>2, <3>3 DEF IInv, Dated
  <2>4. QED
    BY <2>1, <2>2, <2>3
<1>15. QED
  BY <1>7, <1>11, <1>12, <1>13, <1>14 DEF IInv

\* What the end of r's run does to the calls.
LEMMA SettleIs ==
  ASSUME IInv, NEW r \in Resources, NEW ok \in BOOLEAN, Settle(r, ok)
  PROVE  /\ call' \in [Callers -> Calls]
         /\ \A c \in Callers :
              /\ call'[c].from \in {0, call[c].from} /\ r \notin call'[c].waiting
              /\ \A q \in Resources : Awaited(c, q)' =>
                   Awaited(c, q) /\ call'[c].from = call[c].from
              /\ ~ok /\ r \in call[c].waiting => call'[c].status = "failed"
              /\ \A q \in Resources \ {r} :
                   q \in call[c].waiting /\ q \notin call'[c].waiting
                     => call'[c].status = "failed"
<1>1. call \in [Callers -> Calls]
  BY Types DEF IInv
<1>2. ASSUME NEW c \in Callers
      PROVE  /\ call'[c] \in Calls
             /\ call'[c].from \in {0, call[c].from} /\ r \notin call'[c].waiting
             /\ call'[c].status = "running" =>
                  call[c].status = "running" /\ call'[c].from = call[c].from
             /\ \A q \in Resources : q \in call'[c].waiting => q \in call[c].waiting
             /\ ~ok /\ r \in call[c].waiting => call'[c].status = "failed"
             /\ \A q \in Resources \ {r} :
                  q \in call[c].waiting /\ q \notin call'[c].waiting
                    => call'[c].status = "failed"
  <2>1. CASE r \notin call[c].waiting
    <3>1. call'[c] = call[c]
      BY <2>1 DEF Settle
    <3>2. QED
      BY <1>1, <2>1, <3>1
  <2>2. CASE r \in call[c].waiting /\ ~ok
    <3>1. call'[c] = Settled("failed")
      BY <2>2 DEF Settle
    <3>2. QED
      BY <2>2, <3>1, Records DEF IInv
  <2>3. CASE call[c].waiting = {r} /\ ok
    <3>1. call'[c] = Settled("ok")
      BY <2>3 DEF Settle
    <3>2. QED
      BY <2>3, <3>1, Records DEF IInv
  <2>4. CASE r \in call[c].waiting /\ call[c].waiting # {r} /\ ok
    <3>1. call'[c] = [call[c] EXCEPT !.waiting = @ \ {r}]
      BY <2>4 DEF Settle
    <3>2. /\ call[c] \in Calls /\ DOMAIN call[c] = {"status", "from", "waiting"}
          /\ call[c].waiting \in SUBSET Resources
      BY <1>1 DEF Calls
    <3>3. /\ call'[c].from = call[c].from
          /\ call'[c].waiting = call[c].waiting \ {r}
          /\ call'[c].status = call[c].status
      BY <3>1, <3>2 DEF Calls
    <3>4. call'[c] \in Calls
      BY <3>1, <3>2 DEF Calls
    <3>5. QED
      BY <2>4, <3>2, <3>3, <3>4
  <2>5. QED
    BY <2>1, <2>2, <2>3, <2>4
<1>3. DOMAIN call' = Callers /\ call' = [c \in Callers |-> call'[c]]
  BY DEF Settle
<1>4. QED
  BY <1>2, <1>3 DEF Awaited

\* What follows a read of r, but for what is displayed.
LEMMA ContinueKeeps ==
  ASSUME IInv, NEW r \in Resources, NEW ok \in BOOLEAN,
         head' = head, Continue(r, ok)
  PROVE  /\ loop' \in [Resources -> Loops] /\ direct' \in Directs
         /\ coord' \in [Resources -> Coords] /\ call' \in [Callers -> Calls]
         /\ \A q \in Resources \ {r} : loop'[q] = loop[q]
         /\ loop'[r] = Begun \/ (loop'[r] = NoLoop /\ direct' = direct)
         /\ loop'[r] = Begun => direct' = Overtaken({r})
         /\ direct'.from = direct.from
         /\ \A c \in Callers : call'[c].from \in {0, call[c].from}
         /\ NoOrphan' /\ OvertakenLater' /\ Dated'
<1>1. /\ loop \in [Resources -> Loops] /\ direct \in Directs
      /\ coord \in [Resources -> Coords] /\ call \in [Callers -> Calls]
      /\ head \in Nat /\ TypeOK
  BY ConstantTypes, Types DEF IInv
<1>2. /\ Overtaken({r}) \in Directs /\ Overtaken({r}).from = direct.from
      /\ r # "state" => Overtaken({r}) = direct
  BY OvertakenIs
<1>3. /\ Begun \in Loops /\ Begun.active = TRUE /\ Begun.dirty = FALSE
      /\ Begun.current = TRUE /\ Begun.from = head
      /\ NoLoop \in Loops /\ NoLoop.active = FALSE
      /\ Idle \in Coords /\ Idle.running = FALSE
  BY <1>1, Records
<1>4. \A c \in Callers : call[c].from <= head /\ call[c].from \in Nat
  BY <1>1, VersionTypes DEF IInv, Bounded
<1>5. CASE /\ loop' = [loop EXCEPT ![r] = Begun]
           /\ direct' = Overtaken({r})
           /\ call' = call
           /\ \A q \in Resources : coord'[q].running = coord[q].running
           /\ coord' \in [Resources -> Coords]
           /\ \A q \in Resources \ {r} : coord'[q] = coord[q]
  <2>1. /\ loop'[r] = Begun /\ \A q \in Resources \ {r} : loop'[q] = loop[q]
        /\ loop' \in [Resources -> Loops]
    BY <1>1, <1>3, <1>5
  <2>2. NoOrphan'
    BY <1>3, <1>5, <2>1 DEF IInv, NoOrphan, Awaited
  <2>3. OvertakenLater'
    BY <1>2, <1>3, <1>5, <2>1, ConstantTypes DEF IInv, OvertakenLater
  <2>4. Dated'
    <3> SUFFICES ASSUME NEW c \in Callers, NEW q \in Resources, Awaited(c, q)'
                 PROVE  loop'[q].dirty \/ coord'[q].dirty \/ loop'[q].from >= call'[c].from
      BY DEF Dated
    <3>1. Awaited(c, q) /\ call'[c] = call[c]
      BY <1>5 DEF Awaited
    <3>2. CASE q = r
      <4>1. loop'[q].from = head
        BY <1>3, <2>1, <3>2
      <4>2. QED
        BY <1>1, <1>4, <3>1, <4>1
    <3>3. CASE q # r
      BY <1>5, <2>1, <3>1, <3>3 DEF IInv, Dated
    <3>4. QED
      BY <3>2, <3>3
  <2>5. direct' = Overtaken({r}) /\ direct' \in Directs /\ direct'.from = direct.from
    BY <1>2, <1>5
  <2>6. call' \in [Callers -> Calls] /\ \A c \in Callers : call'[c].from \in {0, call[c].from}
    BY <1>1, <1>5
  <2>7. coord' \in [Resources -> Coords]
    BY <1>5
  <2>8. QED
    BY <2>1, <2>2, <2>3, <2>4, <2>5, <2>6, <2>7
<1>6. CASE /\ loop' = [loop EXCEPT ![r] = NoLoop]
           /\ coord' = [coord EXCEPT ![r] = Idle]
           /\ Settle(r, ok)
           /\ direct' = direct
  <2>1. /\ loop'[r] = NoLoop /\ \A q \in Resources \ {r} : loop'[q] = loop[q]
        /\ loop' \in [Resources -> Loops]
        /\ coord'[r] = Idle /\ \A q \in Resources \ {r} : coord'[q] = coord[q]
        /\ coord' \in [Resources -> Coords]
    BY <1>1, <1>3, <1>6
  <2>2. /\ call' \in [Callers -> Calls]
        /\ \A c \in Callers : /\ call'[c].from \in {0, call[c].from}
                              /\ r \notin call'[c].waiting
                              /\ \A q \in Resources : Awaited(c, q)' =>
                                   Awaited(c, q) /\ call'[c].from = call[c].from
    BY <1>6, SettleIs
  <2>3. \A c \in Callers : ~Awaited(c, r)'
    BY <2>2 DEF Awaited
  <2>4. NoOrphan'
    BY <1>3, <2>1, <2>2, <2>3 DEF IInv, NoOrphan
  <2>5. OvertakenLater'
    BY <1>3, <1>6, <2>1, ConstantTypes DEF IInv, OvertakenLater
  <2>6. Dated'
    BY <2>1, <2>2, <2>3 DEF IInv, Dated
  <2>7. QED
    BY <1>1, <1>6, <2>1, <2>2, <2>4, <2>5, <2>6, <1>3
<1>7. CASE loop[r].dirty
  <2>1. UNCHANGED <<coord, call>> /\ loop' = [loop EXCEPT ![r] = Begun]
        /\ direct' = Overtaken({r})
    BY <1>7 DEF Continue
  <2>2. QED
    BY <1>1, <1>5, <2>1
<1>8. CASE ~loop[r].dirty /\ coord[r].dirty
  <2>1. /\ call' = call /\ loop' = [loop EXCEPT ![r] = Begun]
        /\ direct' = Overtaken({r}) /\ coord' = [coord EXCEPT ![r].dirty = FALSE]
    BY <1>8 DEF Continue
  <2>2. /\ coord' \in [Resources -> Coords]
        /\ \A q \in Resources : coord'[q].running = coord[q].running
        /\ \A q \in Resources \ {r} : coord'[q] = coord[q]
    BY <1>1, <2>1 DEF Coords
  <2>3. QED
    BY <1>5, <2>1, <2>2
<1>9. CASE ~loop[r].dirty /\ ~coord[r].dirty
  BY <1>6, <1>9 DEF Continue
<1>10. QED
  BY <1>7, <1>8, <1>9

\* What the end of r's read displays, and that nothing newer is replaced.
LEMMA ReadShows ==
  ASSUME IInv, NEW r \in Resources, loop[r].active, head' = head,
         NEW v \in loop[r].from .. head,
         Commits(r), view' = [view EXCEPT ![r] = v]
  PROVE  /\ view' \in [Resources -> Versions] /\ view'[r] = v
         /\ \A q \in Resources \ {r} : view'[q] = view[q]
         /\ \A q \in Resources : view'[q] <= head
         /\ r # "position" => view'[r] >= view[r]
         /\ r = "state" => ~direct.current
<1>1. /\ view \in [Resources -> Versions] /\ loop[r] \in Loops /\ head \in Versions
      /\ TypeOK
  BY Types DEF IInv
<1>2. /\ loop[r].from \in Nat /\ head \in Nat
      /\ \A q \in Resources : view[q] \in Nat /\ view[q] <= head
  BY <1>1, VersionTypes DEF IInv, Bounded
<1>3. v \in Versions /\ v >= loop[r].from /\ v <= head
  BY <1>1, <1>2, BoundsAssumption DEF Versions
<1>4. r # "position" => view[r] <= loop[r].from
  BY ConstantTypes DEF IInv, Ordered, Commits, Resources
<1>5. r = "state" => ~direct.current
  BY DEF IInv, Ordered, Commits
<1>6. /\ view' \in [Resources -> Versions] /\ view'[r] = v
      /\ \A q \in Resources \ {r} : view'[q] = view[q]
  BY <1>1, <1>3
<1>7. v \in Nat
  BY <1>3, ConstantTypes
<1>8. \A q \in Resources : view'[q] <= head
  BY <1>2, <1>3, <1>6
<1>9. r # "position" => view'[r] >= view[r]
  BY <1>2, <1>3, <1>4, <1>6, <1>7
<1>10. QED
  BY <1>5, <1>6, <1>8, <1>9

\* Of the end of r's read: when a call's wait for r ends well, what is shown was
\* read after the call, or a later direct read has superseded it.
LEMMA ContinueAnswers ==
  ASSUME IInv, NEW r \in Resources, NEW ok \in BOOLEAN, Continue(r, ok), head' = head,
         Commits(r) => view'[r] \in loop[r].from .. head,
         NEW c \in Callers, NEW q \in Resources,
         Awaited(c, q), q \notin call'[c].waiting, call'[c].status # "failed"
  PROVE  view'[q] >= call[c].from \/ Superseded(c, q)
<1>1. CASE UNCHANGED call
  BY <1>1 DEF Awaited
<1>2. CASE Settle(r, ok) /\ ~loop[r].dirty /\ ~coord[r].dirty
  <2>1. q = r
    BY <1>2, SettleIs DEF Awaited
  <2>2. /\ loop[r].from \in Nat /\ call[c].from \in Nat /\ direct.from \in Int
        /\ head \in Nat /\ loop[r].active
    BY VersionTypes, <2>1 DEF IInv, NoOrphan
  <2>3. loop[r].from >= call[c].from
    BY <1>2, <2>1 DEF IInv, Dated
  <2>4. CASE Commits(r)
    <3>1. view'[r] \in loop[r].from .. head
      BY <2>4
    <3>2. QED
      BY <2>1, <2>2, <2>3, <3>1
  <2>5. CASE ~Commits(r)
    <3>1. r = "state" /\ ~loop[r].current
      BY <1>2, <2>5 DEF Commits
    <3>2. direct.from >= loop[r].from
      BY <1>2, <2>2, <3>1 DEF IInv, OvertakenLater
    <3>3. QED
      BY <2>1, <2>2, <2>3, <3>1, <3>2 DEF Superseded
  <2>6. QED
    BY <2>4, <2>5
<1>3. QED
  BY <1>1, <1>2 DEF Continue

\* What an Earn state that is displayed does to the position's effect.
LEMMA DisplayedIs ==
  ASSUME IInv, NEW n, Displayed(n)
  PROVE  /\ \E v \in n .. head : view' = [view EXCEPT !["state"] = v]
         /\ readable' \in BOOLEAN /\ live' \in Lives /\ live'.from <= head
<1>1. head \in Versions /\ head \in Nat /\ live \in Lives /\ live.from <= head
  BY ConstantTypes, Types DEF IInv, Bounded
<1>2. LiveRestarts => live' \in Lives /\ live'.from <= head
  BY <1>1 DEF LiveRestarts, Lives
<1>3. live' = live \/ LiveRestarts
  BY DEF Displayed
<1>4. live' \in Lives /\ live'.from <= head
  BY <1>1, <1>2, <1>3
<1>5. (\E v \in n .. head : view' = [view EXCEPT !["state"] = v]) /\ readable' \in BOOLEAN
  BY DEF Displayed
<1>6. QED
  BY <1>4, <1>5

\* A step on one read loop, once what is displayed after it is in order.
LEMMA EndOfRead ==
  ASSUME IInv, NEW r \in Resources, NEW ok \in BOOLEAN, Continue(r, ok), head' = head,
         live' \in Lives, live'.from <= head, readable' \in BOOLEAN,
         calls' = calls, directs' = directs, failures' \in 0 .. MaxFailures,
         view' \in [Resources -> Versions],
         \A q \in Resources \ {r} : view'[q] = view[q],
         \A q \in Resources : view'[q] <= head,
         (r = "state" /\ direct.current) => view'["state"] = view["state"]
  PROVE  IInv'
<1>1. /\ loop' \in [Resources -> Loops] /\ direct' \in Directs
      /\ coord' \in [Resources -> Coords] /\ call' \in [Callers -> Calls]
      /\ \A q \in Resources \ {r} : loop'[q] = loop[q]
      /\ loop'[r] = Begun \/ (loop'[r] = NoLoop /\ direct' = direct)
      /\ loop'[r] = Begun => direct' = Overtaken({r})
      /\ direct'.from = direct.from
      /\ \A c \in Callers : call'[c].from \in {0, call[c].from}
      /\ NoOrphan' /\ OvertakenLater' /\ Dated'
  BY ContinueKeeps
<1>2. /\ head' \in Versions /\ calls' \in 0 .. MaxCalls /\ directs' \in 0 .. MaxDirect
      /\ head \in Nat /\ TypeOK
  BY ConstantTypes, Types DEF IInv
<1>3. TypeOK'
  BY <1>1, <1>2 DEF TypeOK, Loops, Directs, Coords, Lives, Calls
<1>4. /\ Begun.active = TRUE /\ Begun.from = head
      /\ NoLoop.active = FALSE /\ NoLoop.from = 0
  BY <1>2, Records
<1>5. /\ r # "state" => Overtaken({r}) = direct
      /\ r = "state" => Overtaken({r}).current = FALSE
  BY OvertakenIs
<1>6. Bounded'
  <2>1. \A q \in Resources : loop'[q].from <= head
    <3>1. 0 <= head /\ head <= head
      BY <1>2
    <3>2. QED
      BY <1>1, <1>4, <3>1 DEF IInv, Bounded
  <2>2. direct'.from <= head /\ \A c \in Callers : call'[c].from <= head
    BY <1>1, <1>2 DEF IInv, Bounded
  <2>3. QED
    BY <2>1, <2>2 DEF Bounded
<1>7. Ordered'
  <2>1. CASE r = "state"
    <3>1. loop'["transactions"] = loop["transactions"]
          /\ view'["transactions"] = view["transactions"]
      BY <1>1, <2>1, ConstantTypes
    <3>2. CASE loop'[r] = Begun
      BY <1>1, <1>4, <1>5, <2>1, <3>1, <3>2, ConstantTypes DEF IInv, Ordered
    <3>3. CASE loop'[r] = NoLoop /\ direct' = direct
      BY <1>4, <2>1, <3>1, <3>3, ConstantTypes DEF IInv, Ordered
    <3>4. QED
      BY <1>1, <3>2, <3>3
  <2>2. CASE r # "state"
    <3>1. /\ loop'["state"] = loop["state"] /\ view'["state"] = view["state"]
          /\ direct' = direct
      BY <1>1, <1>5, <2>2, ConstantTypes
    <3>2. loop'["transactions"].active =>
            view'["transactions"] <= loop'["transactions"].from
      BY <1>1, <1>4, ConstantTypes DEF IInv, Ordered
    <3>3. QED
      BY <3>1, <3>2 DEF IInv, Ordered
  <2>3. QED
    BY <2>1, <2>2
<1>8. QED
  BY <1>1, <1>3, <1>6, <1>7 DEF IInv

\* What the two properties of steps ask of one of them.
Shows ==
  /\ \A r \in Resources \ {"position"} : view'[r] >= view[r]
  /\ \A c \in Callers, r \in Resources :
       Awaited(c, r) /\ r \notin call'[c].waiting /\ call'[c].status # "failed"
       => view'[r] >= call[c].from \/ Superseded(c, r)

\* A step that neither displays anything nor answers a call.
LEMMA NothingShown ==
  ASSUME IInv, view' = view, call' = call PROVE Shows
<1>1. \A r \in Resources : view[r] \in Nat
  BY VersionTypes DEF IInv
<1>2. \A r \in Resources : view'[r] >= view[r]
  BY <1>1
<1>3. QED
  BY <1>2 DEF Shows, Awaited

LEMMA ReadSucceedsKeeps ==
  ASSUME IInv, NEW r \in Resources, ReadSucceeds(r) PROVE IInv' /\ Shows
<1>1. /\ loop[r].active /\ Continue(r, TRUE) /\ head' = head
      /\ calls' = calls /\ directs' = directs /\ failures' = failures
  BY DEF ReadSucceeds, counters
<1>2. /\ view \in [Resources -> Versions] /\ live \in Lives /\ failures \in 0 .. MaxFailures
      /\ TypeOK
  BY Types DEF IInv
<1>3. /\ \A q \in Resources : view[q] <= head /\ view[q] \in Nat
      /\ live.from <= head
  BY <1>2, VersionTypes DEF IInv, Bounded
<1>4. readable \in BOOLEAN
  BY Types DEF IInv
<1>5. CASE Commits(r)
  <2>1. /\ \E v \in loop[r].from .. head : view' = [view EXCEPT ![r] = v]
        /\ readable' \in BOOLEAN /\ live' \in Lives /\ live'.from <= head
    <3>1. CASE r = "state"
      <4>1. Displayed(loop[r].from)
        BY <1>5, <3>1 DEF ReadSucceeds
      <4>2. QED
        BY <3>1, <4>1, DisplayedIs
    <3>2. CASE r # "state"
      <4>1. /\ \E v \in loop[r].from .. head : view' = [view EXCEPT ![r] = v]
            /\ UNCHANGED <<readable, live>>
        BY <1>5, <3>2 DEF ReadSucceeds
      <4>2. QED
        BY <1>2, <1>3, <1>4, <4>1
    <3>3. QED
      BY <3>1, <3>2
  <2>2. PICK v \in loop[r].from .. head : view' = [view EXCEPT ![r] = v]
    BY <2>1
  <2>3. /\ view' \in [Resources -> Versions] /\ view'[r] = v
        /\ \A q \in Resources \ {r} : view'[q] = view[q]
        /\ \A q \in Resources : view'[q] <= head
        /\ r # "position" => view'[r] >= view[r]
        /\ r = "state" => ~direct.current
    BY <1>1, <1>5, <2>2, ReadShows
  <2>4. IInv'
    BY <1>1, <1>2, <2>1, <2>3, EndOfRead
  <2>5. view'[r] \in loop[r].from .. head
    BY <2>3
  <2>6. \A c \in Callers, q \in Resources :
          Awaited(c, q) /\ q \notin call'[c].waiting /\ call'[c].status # "failed"
          => view'[q] >= call[c].from \/ Superseded(c, q)
    BY <1>1, <2>5, ContinueAnswers
  <2>7. \A q \in Resources \ {"position"} : view'[q] >= view[q]
    BY <1>3, <2>3
  <2>8. QED
    BY <2>4, <2>6, <2>7 DEF Shows
<1>6. CASE ~Commits(r)
  <2>1. view' = view /\ live' = live /\ readable' = readable
    BY <1>6 DEF ReadSucceeds
  <2>2. readable' \in BOOLEAN
    BY <1>4, <2>1
  <2>3. IInv'
    BY <1>1, <1>2, <1>3, <2>1, <2>2, EndOfRead
  <2>4. \A c \in Callers, q \in Resources :
          Awaited(c, q) /\ q \notin call'[c].waiting /\ call'[c].status # "failed"
          => view'[q] >= call[c].from \/ Superseded(c, q)
    BY <1>1, <1>6, ContinueAnswers
  <2>5. \A q \in Resources \ {"position"} : view'[q] >= view[q]
    BY <1>3, <2>1
  <2>6. QED
    BY <2>3, <2>4, <2>5 DEF Shows
<1>7. QED
  BY <1>5, <1>6

LEMMA ReadFailsKeeps ==
  ASSUME IInv, NEW r \in Resources, ReadFails(r) PROVE IInv' /\ Shows
<1>1. /\ loop[r].active /\ Continue(r, FALSE) /\ head' = head
      /\ calls' = calls /\ directs' = directs /\ view' = view /\ live' = live
      /\ failures < MaxFailures /\ failures' = failures + 1
  BY DEF ReadFails
<1>2. /\ view \in [Resources -> Versions] /\ live \in Lives /\ failures \in 0 .. MaxFailures
      /\ TypeOK
  BY Types DEF IInv
<1>3. /\ \A q \in Resources : view[q] <= head /\ view[q] \in Nat
      /\ live.from <= head
  BY <1>2, VersionTypes DEF IInv, Bounded
<1>4. failures' \in 0 .. MaxFailures
  BY <1>1, <1>2, BoundsAssumption
<1>5. readable' \in BOOLEAN
  BY Types DEF IInv, ReadFails
<1>6. IInv'
  BY <1>1, <1>2, <1>3, <1>4, <1>5, EndOfRead
<1>7. ASSUME NEW c \in Callers, NEW q \in Resources,
             Awaited(c, q), q \notin call'[c].waiting
      PROVE  call'[c].status = "failed"
  <2>1. CASE UNCHANGED call
    BY <1>7, <2>1 DEF Awaited
  <2>2. CASE Settle(r, FALSE)
    <3>1. q \in call[c].waiting
      BY <1>7 DEF Awaited
    <3>2. call'[c] = IF r \notin call[c].waiting THEN call[c] ELSE Settled("failed")
      BY <2>2 DEF Settle
    <3>3. QED
      BY <1>2, <1>7, <3>1, <3>2, Records
  <2>3. QED
    BY <1>1, <2>1, <2>2 DEF Continue
<1>8. \A q \in Resources \ {"position"} : view'[q] >= view[q]
  BY <1>1, <1>3
<1>9. QED
  BY <1>6, <1>7, <1>8 DEF Shows

LEMMA RequestBelowKeeps ==
  ASSUME IInv, NEW r \in Resources, RequestBelow(r) PROVE IInv' /\ Shows
<1>1. /\ UNCHANGED <<head, view, readable, live, coord, call, calls, failures>>
      /\ directs < MaxDirect /\ directs' = directs + 1
      /\ loop' = [loop EXCEPT ![r] = Requested(r)] /\ direct' = Overtaken({r})
  BY DEF RequestBelow
<1>2. /\ loop \in [Resources -> Loops] /\ directs \in 0 .. MaxDirect /\ TypeOK
  BY Types DEF IInv
<1>3. loop' = [q \in Resources |-> IF q \in {r} THEN Requested(q) ELSE loop[q]]
  BY <1>1, <1>2
<1>4. /\ loop' \in [Resources -> Loops] /\ direct' \in Directs
      /\ Ordered' /\ OvertakenLater'
      /\ \A q \in Resources : loop'[q].from <= head
      /\ direct'.from <= head
      /\ loop'[r].active /\ (loop'[r].dirty \/ loop'[r].from = head)
  <2>1. {r} \in SUBSET Resources
    OBVIOUS
  <2>2. QED
    BY <1>1, <1>3, <2>1, RequestsKeep
<1>5. directs' \in 0 .. MaxDirect
  BY <1>1, <1>2, BoundsAssumption
<1>6. TypeOK'
  <2>1. /\ head' \in Versions /\ view' \in [Resources -> Versions]
        /\ coord' \in [Resources -> Coords] /\ live' \in Lives /\ call' \in [Callers -> Calls]
        /\ calls' \in 0 .. MaxCalls /\ failures' \in 0 .. MaxFailures
        /\ readable' \in BOOLEAN
    BY <1>1, <1>2, Types
  <2>2. QED
    BY <1>4, <1>5, <2>1 DEF TypeOK, Loops, Directs, Coords, Lives, Calls
<1>7. \A q \in Resources \ {r} : loop'[q] = loop[q]
  BY <1>1, <1>2
<1>8. NoOrphan'
  BY <1>1, <1>4, <1>7 DEF IInv, NoOrphan, Awaited
<1>9. Bounded'
  BY <1>1, <1>4 DEF IInv, Bounded
<1>10. Dated'
  <2> SUFFICES ASSUME NEW c \in Callers, NEW q \in Resources, Awaited(c, q)'
               PROVE  loop'[q].dirty \/ coord'[q].dirty \/ loop'[q].from >= call'[c].from
    BY DEF Dated
  <2>1. Awaited(c, q)
    BY <1>1 DEF Awaited
  <2>2. call[c].from <= head /\ call[c].from \in Nat /\ head \in Nat
    BY <1>2, VersionTypes DEF IInv, Bounded
  <2>3. CASE q = r
    <3>1. head >= call'[c].from
      BY <1>1, <2>2
    <3>2. QED
      BY <1>4, <2>3, <3>1
  <2>4. CASE q # r
    BY <1>1, <1>7, <2>1, <2>4 DEF IInv, Dated
  <2>5. QED
    BY <2>3, <2>4
<1>11. Shows
  BY <1>1, NothingShown
<1>12. QED
  BY <1>4, <1>6, <1>8, <1>9, <1>10, <1>11 DEF IInv

LEMMA RefreshEarnStateKeeps ==
  ASSUME IInv, refreshEarnState PROVE IInv' /\ Shows
<1>1. /\ UNCHANGED <<head, view, readable, live, coord, call, calls, failures>>
      /\ directs < MaxDirect /\ directs' = directs + 1
      /\ loop' = [loop EXCEPT !["state"].current = FALSE]
      /\ direct' = [active |-> TRUE, current |-> TRUE, from |-> head]
  BY DEF refreshEarnState
<1>2. /\ loop \in [Resources -> Loops] /\ directs \in 0 .. MaxDirect /\ TypeOK
      /\ head \in Versions /\ head \in Nat
  BY ConstantTypes, Types DEF IInv
<1>3. /\ loop' \in [Resources -> Loops] /\ loop'["state"].current = FALSE
      /\ \A q \in Resources : /\ loop'[q].active = loop[q].active
                              /\ loop'[q].dirty = loop[q].dirty
                              /\ loop'[q].from = loop[q].from
  BY <1>1, <1>2, ConstantTypes DEF Loops
<1>4. direct' \in Directs /\ direct'.from = head
  BY <1>1, <1>2 DEF Directs
<1>5. TypeOK'
  <2>1. directs' \in 0 .. MaxDirect
    BY <1>1, <1>2, BoundsAssumption
  <2>2. /\ head' \in Versions /\ view' \in [Resources -> Versions]
        /\ coord' \in [Resources -> Coords] /\ live' \in Lives /\ call' \in [Callers -> Calls]
        /\ calls' \in 0 .. MaxCalls /\ failures' \in 0 .. MaxFailures
        /\ readable' \in BOOLEAN
    BY <1>1, <1>2, Types
  <2>3. QED
    BY <1>3, <1>4, <2>1, <2>2 DEF TypeOK, Loops, Directs, Coords, Lives, Calls
<1>6. NoOrphan'
  BY <1>1, <1>3 DEF IInv, NoOrphan, Awaited
<1>7. Bounded'
  BY <1>1, <1>2, <1>3, <1>4 DEF IInv, Bounded
<1>8. Ordered'
  <2>1. view["state"] <= head
    BY ConstantTypes DEF IInv, Bounded
  <2>2. QED
    BY <1>1, <1>3, <1>4, <2>1, ConstantTypes DEF IInv, Ordered
<1>9. OvertakenLater'
  <2>1. loop["state"].from <= head /\ loop["state"].from \in Nat
    BY <1>2, ConstantTypes, VersionTypes DEF IInv, Bounded
  <2>2. direct'.from >= loop'["state"].from
    BY <1>2, <1>3, <1>4, <2>1, ConstantTypes
  <2>3. QED
    BY <2>2 DEF OvertakenLater
<1>10. Dated'
  <2>1. /\ \A c \in Callers, q \in Resources : Awaited(c, q)' = Awaited(c, q)
        /\ coord' = coord /\ call' = call
    BY <1>1 DEF Awaited
  <2>2. QED
    BY <1>3, <2>1 DEF IInv, Dated
<1>11. Shows
  BY <1>1, NothingShown
<1>12. QED
  BY <1>5, <1>6, <1>7, <1>8, <1>9, <1>10, <1>11 DEF IInv

\* The end of a read that bypasses the loops: they and the calls stay as they
\* are, and what it displays, it displays in order.
LEMMA EndOfDirectRead ==
  ASSUME IInv, head' = head, coord' = coord, loop' = loop, call' = call,
         calls' = calls, directs' = directs, failures' \in 0 .. MaxFailures,
         view' \in [Resources -> Versions], \A q \in Resources : view'[q] <= head,
         live' \in Lives, live'.from <= head, readable' \in BOOLEAN,
         direct' \in Directs, direct'.from = direct.from,
         direct'.current => direct' = direct,
         view'["transactions"] = view["transactions"],
         view'["state"] >= view["state"],
         loop["state"].active /\ loop["state"].current => view'["state"] = view["state"],
         direct'.current => view'["state"] = view["state"]
  PROVE  IInv' /\ Shows
<1>1. /\ TypeOK /\ head' \in Versions
      /\ coord' \in [Resources -> Coords] /\ loop' \in [Resources -> Loops]
      /\ call' \in [Callers -> Calls] /\ calls' \in 0 .. MaxCalls /\ directs' \in 0 .. MaxDirect
  BY Types DEF IInv
<1>2. TypeOK'
  BY <1>1 DEF TypeOK, Loops, Directs, Coords, Lives, Calls
<1>3. NoOrphan'
  BY DEF IInv, NoOrphan, Awaited
<1>4. Bounded'
  BY DEF IInv, Bounded
<1>5. Ordered'
  BY DEF IInv, Ordered
<1>6. OvertakenLater'
  BY DEF IInv, OvertakenLater
<1>7. Dated'
  BY DEF IInv, Dated, Awaited
<1>8. Shows
  <2>1. view["transactions"] \in Nat
    BY <1>1, ConstantTypes, VersionTypes
  <2>2. \A r \in Resources \ {"position"} : view'[r] >= view[r]
    BY <2>1 DEF Resources
  <2>3. QED
    BY <2>2 DEF Shows, Awaited
<1>9. QED
  BY <1>2, <1>3, <1>4, <1>5, <1>6, <1>7, <1>8 DEF IInv

\* The direct read, once it has ended.
LEMMA DirectEnded ==
  ASSUME IInv, direct' = [direct EXCEPT !.active = FALSE, !.current = FALSE]
  PROVE  direct' \in Directs /\ direct'.from = direct.from /\ direct'.current = FALSE
<1>1. direct \in Directs
  BY Types DEF IInv
<1>2. QED
  BY <1>1 DEF Directs

\* What a direct read that may begin in the past displays.
LEMMA DirectShows ==
  ASSUME IInv, NEW r \in Resources, NEW n \in Int, NEW v \in n .. head,
         n \in Versions \/ view[r] <= n,
         view' = [view EXCEPT ![r] = v]
  PROVE  /\ view' \in [Resources -> Versions] /\ \A q \in Resources : view'[q] <= head
         /\ view'[r] = v /\ \A q \in Resources \ {r} : view'[q] = view[q]
<1>1. /\ view \in [Resources -> Versions] /\ head \in Versions /\ TypeOK
  BY Types DEF IInv
<1>2. \A q \in Resources : view[q] \in Nat /\ view[q] <= head
  BY <1>1, VersionTypes DEF IInv, Bounded
<1>3. v \in Versions /\ v <= head
  BY <1>1, <1>2, BoundsAssumption DEF Versions
<1>4. QED
  BY <1>1, <1>2, <1>3

LEMMA EarnStateArrivesKeeps ==
  ASSUME IInv, EarnStateArrives PROVE IInv' /\ Shows
<1>1. /\ UNCHANGED <<head, coord, loop, call, calls, directs, failures>>
      /\ direct' = [direct EXCEPT !.active = FALSE, !.current = FALSE]
  BY DEF EarnStateArrives, counters
<1>2. direct' \in Directs /\ direct'.from = direct.from /\ direct'.current = FALSE
  BY <1>1, DirectEnded
<1>3. /\ TypeOK /\ view \in [Resources -> Versions] /\ live \in Lives
      /\ failures' \in 0 .. MaxFailures
  BY <1>1, Types DEF IInv
<1>4. /\ \A q \in Resources : view[q] <= head /\ view[q] \in Nat
      /\ live.from <= head /\ direct.from \in Int
  BY <1>3, VersionTypes DEF IInv, Bounded
<1>5. CASE direct.current
  <2>1. PICK v \in direct.from .. head : view' = [view EXCEPT !["state"] = v]
    BY <1>5, DisplayedIs DEF EarnStateArrives
  <2>2. view["state"] <= direct.from /\ ~(loop["state"].active /\ loop["state"].current)
    BY <1>5 DEF IInv, Ordered
  <2>3. /\ view' \in [Resources -> Versions] /\ \A q \in Resources : view'[q] <= head
        /\ view'["state"] = v /\ view'["transactions"] = view["transactions"]
    BY <1>4, <2>1, <2>2, DirectShows, ConstantTypes
  <2>4. view'["state"] >= view["state"]
    BY <1>4, <2>2, <2>3, ConstantTypes
  <2>5. live' \in Lives /\ live'.from <= head /\ readable' \in BOOLEAN
    BY <1>5, DisplayedIs DEF EarnStateArrives
  <2>6. QED
    BY <1>1, <1>2, <1>3, <2>2, <2>3, <2>4, <2>5, EndOfDirectRead
<1>6. CASE ~direct.current
  <2>1. view' = view /\ live' = live /\ readable' \in BOOLEAN
    BY <1>6, Types DEF IInv, EarnStateArrives
  <2>2. view'["state"] >= view["state"]
    BY <1>4, <2>1, ConstantTypes
  <2>3. QED
    BY <1>1, <1>2, <1>3, <1>4, <2>1, <2>2, EndOfDirectRead
<1>7. QED
  BY <1>5, <1>6

LEMMA EarnStateFailsKeeps ==
  ASSUME IInv, EarnStateFails PROVE IInv' /\ Shows
<1>1. /\ UNCHANGED <<head, view, readable, coord, loop, live, call, calls, directs>>
      /\ direct' = [direct EXCEPT !.active = FALSE, !.current = FALSE]
      /\ failures < MaxFailures /\ failures' = failures + 1
  BY DEF EarnStateFails
<1>2. direct' \in Directs /\ direct'.from = direct.from /\ direct'.current = FALSE
  BY <1>1, DirectEnded
<1>3. /\ TypeOK /\ view \in [Resources -> Versions] /\ live \in Lives
      /\ failures \in 0 .. MaxFailures
  BY Types DEF IInv
<1>4. failures' \in 0 .. MaxFailures /\ readable' \in BOOLEAN
  BY <1>1, <1>3, BoundsAssumption, Types DEF IInv
<1>5. /\ \A q \in Resources : view[q] <= head /\ view[q] \in Nat
      /\ live.from <= head
  BY <1>3, VersionTypes DEF IInv, Bounded
<1>6. view'["state"] >= view["state"]
  BY <1>1, <1>5, ConstantTypes
<1>7. QED
  BY <1>1, <1>2, <1>3, <1>4, <1>5, <1>6, EndOfDirectRead

\* Both ends of the effect's read.
LEMMA LivePositionKeeps ==
  ASSUME IInv, LivePositionArrives \/ LivePositionFails PROVE IInv' /\ Shows
<1>1. /\ UNCHANGED <<head, readable, coord, loop, direct, call, calls, directs>>
      /\ live' = NoEffect
  BY DEF LivePositionArrives, LivePositionFails, counters
<1>2. /\ TypeOK /\ view \in [Resources -> Versions] /\ direct \in Directs /\ head \in Nat
      /\ failures \in 0 .. MaxFailures /\ live.from \in Versions
  BY ConstantTypes, Types DEF IInv, Lives
<1>3. live' \in Lives /\ live'.from <= head
  BY <1>1, <1>2, Records
<1>4. readable' \in BOOLEAN
  BY <1>1, Types DEF IInv
<1>5. failures' \in 0 .. MaxFailures
  BY <1>2, BoundsAssumption DEF LivePositionArrives, LivePositionFails, counters
<1>6. /\ \A q \in Resources : view[q] <= head /\ view[q] \in Nat
      /\ live.from \in Int
  BY <1>2, VersionTypes DEF IInv, Bounded
<1>7. /\ view' \in [Resources -> Versions] /\ \A q \in Resources : view'[q] <= head
      /\ \A q \in Resources \ {"position"} : view'[q] = view[q]
  <2>1. CASE view' = view
    BY <1>2, <1>6, <2>1
  <2>2. CASE \E v \in live.from .. head : view' = [view EXCEPT !["position"] = v]
    <3>1. PICK v \in live.from .. head : view' = [view EXCEPT !["position"] = v]
      BY <2>2
    <3>2. QED
      BY <1>2, <1>6, <3>1, DirectShows, ConstantTypes
  <2>3. QED
    BY <2>1, <2>2 DEF LivePositionArrives, LivePositionFails
<1>8. view'["state"] = view["state"] /\ view'["transactions"] = view["transactions"]
  BY <1>7 DEF Resources
<1>9. view'["state"] >= view["state"]
  BY <1>6, <1>8, ConstantTypes
<1>10. QED
  BY <1>1, <1>2, <1>3, <1>4, <1>5, <1>7, <1>8, <1>9, EndOfDirectRead

LEMMA StepKeeps == ASSUME IInv, [Next]_vars PROVE IInv' /\ Shows
<1>1. CASE ServerChanges
  BY <1>1, ServerKeeps, NothingShown DEF ServerChanges
<1>2. CASE \E c \in Callers, rs \in (SUBSET Resources) \ {{}} : Invalidate(c, rs)
  <2>1. PICK c \in Callers, rs \in (SUBSET Resources) \ {{}} : Invalidate(c, rs)
    BY <1>2
  <2>2. IInv' /\ view' = view
    BY <2>1, InvalidateKeeps DEF Invalidate
  <2>3. ASSUME NEW d \in Callers, NEW r \in Resources, Awaited(d, r), r \notin call'[d].waiting
        PROVE  FALSE
    <3>1. d # c
      BY <2>1, <2>3 DEF Invalidate, Awaited
    <3>2. call'[d] = call[d]
      BY <2>1, <3>1 DEF Invalidate
    <3>3. QED
      BY <2>3, <3>2 DEF Awaited
  <2>4. \A r \in Resources : view[r] \in Nat
    BY VersionTypes DEF IInv
  <2>5. \A r \in Resources \ {"position"} : view'[r] >= view[r]
    BY <2>2, <2>4
  <2>6. QED
    BY <2>2, <2>3, <2>5 DEF Shows
<1>3. CASE \E r \in Resources : ReadSucceeds(r) \/ ReadFails(r) \/ RequestBelow(r)
  BY <1>3, ReadSucceedsKeeps, ReadFailsKeeps, RequestBelowKeeps
<1>4. CASE refreshEarnState
  BY <1>4, RefreshEarnStateKeeps
<1>5. CASE EarnStateArrives
  BY <1>5, EarnStateArrivesKeeps
<1>6. CASE EarnStateFails
  BY <1>6, EarnStateFailsKeeps
<1>7. CASE LivePositionArrives \/ LivePositionFails
  BY <1>7, LivePositionKeeps
<1>8. CASE UNCHANGED vars
  <2>1. UNCHANGED <<head, view, readable, coord, loop, direct, live, call, calls, directs,
                  failures>>
    BY <1>8 DEF vars, counters
  <2>2. IInv'
    BY <2>1 DEF IInv, TypeOK, NoOrphan, Bounded, Ordered, OvertakenLater, Dated, Awaited
  <2>3. QED
    BY <2>1, <2>2, NothingShown
<1>9. QED
  BY <1>1, <1>2, <1>3, <1>4, <1>5, <1>6, <1>7, <1>8 DEF Next

-----------------------------------------------------------------------------
(* The theorems.                                                            *)

\* The inductive invariant: reads are dated and ordered, and a caller's wait is
\* covered by a read that began after its call or by a mark for one.
THEOREM RefreshesAccounted == Spec => []IInv
<1>1. Init => IInv
  BY InitIInv
<1>2. IInv /\ [Next]_vars => IInv'
  BY StepKeeps
<1>3. QED
  BY <1>1, <1>2, PTL DEF Spec

\* The state has its type in every behaviour.
THEOREM RefreshTyped == Spec => []TypeOK
<1>1. IInv => TypeOK
  BY DEF IInv
<1>2. QED
  BY <1>1, RefreshesAccounted, PTL

\* A run of the coordinator always has a read in flight, and a caller waits for
\* resources that run: nobody is left waiting by the layers between them.
THEOREM NobodyOrphaned == Spec => []NoOrphan
<1>1. IInv => NoOrphan
  BY DEF IInv
<1>2. QED
  BY <1>1, RefreshesAccounted, PTL

\* An older Earn state or list of transactions never replaces a newer one.
THEOREM LatestStartedWins == Spec => NeverRegresses
<1>1. IInv /\ [Next]_vars =>
        [\A r \in Resources \ {"position"} : view'[r] >= view[r]]_vars
  BY StepKeeps DEF Shows
<1>2. QED
  BY <1>1, RefreshesAccounted, PTL DEF Spec, NeverRegresses

\* A call that awaits a resource and ends well is answered with what was read after
\* it was made, or with an Earn state that a later direct read has superseded.  A
\* position that cannot be read is not awaited: refresh answers at once.
THEOREM AnsweredAfterAsked == Spec => ReadAfterAsked
<1>1. IInv /\ [Next]_vars =>
        [\A c \in Callers, r \in Resources : Answered(c, r) =>
           view'[r] >= call[c].from \/ Superseded(c, r)]_vars
  BY StepKeeps DEF Shows, Answered
<1>2. QED
  BY <1>1, RefreshesAccounted, PTL DEF Spec, ReadAfterAsked

-----------------------------------------------------------------------------
(* Waiting comes to an end: the half of it that is not about fairness.      *)

\* The reads of r that are still to end, if nobody asks for more: the one in flight,
\* the one its loop was marked for, and the coordinator's next run.
Left(l, k) ==
  IF l.active THEN 1 + (IF l.dirty THEN 1 ELSE 0) + (IF k.dirty THEN 1 ELSE 0) ELSE 0

ReadsLeft(r) == Left(loop[r], coord[r])

(* Who waits, waits for something, and each of the resources it waits for   *)
(* has a read that is still to end.                                         *)
CallsWait ==
  \A c \in Callers : call[c].status = "running" =>
    /\ call[c].waiting # {}
    /\ \A r \in call[c].waiting : ReadsLeft(r) > 0

(* Every read that ends, however it ends, leaves fewer reads of its         *)
(* resource to end: the two layers never keep each other busy.  Only a new  *)
(* request, of which a caller or a component decides, makes it more.        *)
ReadsRunOut ==
  [][\A r \in Resources :
       /\ ReadSucceeds(r) \/ ReadFails(r) => ReadsLeft(r)' < ReadsLeft(r)
       /\ ReadsLeft(r)' > ReadsLeft(r) => calls' > calls \/ directs' > directs]_vars

LEMMA LeftIs ==
  ASSUME NEW l, NEW k
  PROVE  Left(l, k) \in 0..3 /\ (l.active <=> Left(l, k) > 0)
  BY DEF Left

\* A caller that goes on waiting has resources left to wait for.
SomethingAwaited == \A c \in Callers : call[c].status = "running" => call[c].waiting # {}

LEMMA SettleLeaves ==
  ASSUME TypeOK, SomethingAwaited, NEW r \in Resources, NEW ok \in BOOLEAN, Settle(r, ok)
  PROVE  SomethingAwaited'
<1>1. call \in [Callers -> Calls]
  BY Types
<1>2. ASSUME NEW c \in Callers, call'[c].status = "running" PROVE call'[c].waiting # {}
  <2>1. CASE r \notin call[c].waiting
    <3>1. call'[c] = call[c]
      BY <2>1 DEF Settle
    <3>2. QED
      BY <1>2, <3>1 DEF SomethingAwaited
  <2>2. CASE r \in call[c].waiting /\ ~ok
    <3>1. call'[c] = Settled("failed")
      BY <2>2 DEF Settle
    <3>2. QED
      BY <1>2, <3>1, Records
  <2>3. CASE call[c].waiting = {r} /\ ok
    <3>1. call'[c] = Settled("ok")
      BY <2>3 DEF Settle
    <3>2. QED
      BY <1>2, <3>1, Records
  <2>4. CASE r \in call[c].waiting /\ call[c].waiting # {r} /\ ok
    <3>1. call'[c] = [call[c] EXCEPT !.waiting = @ \ {r}]
      BY <2>4 DEF Settle
    <3>2. call'[c].waiting = call[c].waiting \ {r}
      BY <1>1, <3>1 DEF Calls
    <3>3. QED
      BY <1>2, <2>4, <3>2
  <2>5. QED
    BY <2>1, <2>2, <2>3, <2>4
<1>3. QED
  BY <1>2 DEF SomethingAwaited

LEMMA AwaitedStep ==
  ASSUME TypeOK, SomethingAwaited, [Next]_vars PROVE SomethingAwaited'
<1>1. CASE call' = call
  BY <1>1 DEF SomethingAwaited
<1>2. ASSUME NEW c \in Callers, NEW rs \in (SUBSET Resources) \ {{}}, Invalidate(c, rs)
      PROVE  SomethingAwaited'
  <2> DEFINE run == {r \in rs : ~Unreadable(r)}
  <2>1. call' = [call EXCEPT ![c] =
                   IF run = {} THEN Settled("ok")
                   ELSE [status |-> "running", from |-> head, waiting |-> run]]
    BY <1>2 DEF Invalidate
  <2>2. call \in [Callers -> Calls] /\ Settled("ok").status = "ok"
    BY Types, Records
  <2> HIDE DEF run
  <2>3. /\ call'[c].status = "running" => call'[c].waiting # {}
        /\ \A d \in Callers \ {c} : call'[d] = call[d]
    BY <2>1, <2>2
  <2>4. ASSUME NEW d \in Callers, call'[d].status = "running" PROVE call'[d].waiting # {}
    BY <2>3, <2>4 DEF SomethingAwaited
  <2>5. QED
    BY <2>4 DEF SomethingAwaited
<1>3. ASSUME NEW r \in Resources, ReadSucceeds(r) \/ ReadFails(r) PROVE SomethingAwaited'
  <2>1. Continue(r, TRUE) \/ Continue(r, FALSE)
    BY <1>3 DEF ReadSucceeds, ReadFails
  <2>2. call' = call \/ Settle(r, TRUE) \/ Settle(r, FALSE)
    BY <2>1 DEF Continue
  <2>3. QED
    BY <1>1, <2>2, SettleLeaves
<1>4. CASE \/ ServerChanges \/ refreshEarnState \/ EarnStateArrives \/ EarnStateFails
           \/ LivePositionArrives \/ LivePositionFails \/ UNCHANGED vars
           \/ \E r \in Resources : RequestBelow(r)
  BY <1>1, <1>4 DEF ServerChanges, refreshEarnState, EarnStateArrives, EarnStateFails,
     LivePositionArrives, LivePositionFails, RequestBelow, vars
<1>5. QED
  BY <1>2, <1>3, <1>4 DEF Next

\* What the end of a read leaves.
LEMMA ContinueLeaves ==
  ASSUME TypeOK, NEW r \in Resources, NEW ok, loop[r].active, Continue(r, ok)
  PROVE  /\ ReadsLeft(r)' < ReadsLeft(r)
         /\ \A q \in Resources \ {r} : ReadsLeft(q)' = ReadsLeft(q)
<1>1. /\ loop \in [Resources -> Loops] /\ coord \in [Resources -> Coords]
  BY Types
<1>2. /\ loop'[r] \in {Begun, NoLoop} /\ \A q \in Resources \ {r} : loop'[q] = loop[q]
      /\ \A q \in Resources \ {r} : coord'[q] = coord[q]
  BY <1>1 DEF Continue
<1>3. Begun.active = TRUE /\ Begun.dirty = FALSE /\ NoLoop.active = FALSE
  BY Records
<1>4. \/ loop[r].dirty /\ loop'[r] = Begun /\ coord'[r] = coord[r]
      \/ ~loop[r].dirty /\ coord[r].dirty /\ loop'[r] = Begun /\ ~coord'[r].dirty
      \/ loop'[r] = NoLoop
  <2>1. CASE loop[r].dirty
    BY <1>1, <2>1 DEF Continue
  <2>2. CASE ~loop[r].dirty /\ coord[r].dirty
    <3>1. loop'[r] = Begun /\ coord'[r] = [coord[r] EXCEPT !.dirty = FALSE]
      BY <1>1, <2>2 DEF Continue
    <3>2. [coord[r] EXCEPT !.dirty = FALSE].dirty = FALSE
      BY <1>1 DEF Coords
    <3>3. QED
      BY <2>2, <3>1, <3>2
  <2>3. CASE ~loop[r].dirty /\ ~coord[r].dirty
    BY <1>1, <2>3 DEF Continue
  <2>4. QED
    BY <2>1, <2>2, <2>3
<1>5. Left(loop'[r], coord'[r]) < Left(loop[r], coord[r])
  BY <1>3, <1>4 DEF Left
<1>6. QED
  BY <1>2, <1>5 DEF ReadsLeft

\* The steps that are neither the end of a read of a loop nor a request.
LEMMA OthersLeave ==
  ASSUME TypeOK,
         \/ ServerChanges \/ EarnStateArrives \/ EarnStateFails \/ refreshEarnState
         \/ LivePositionArrives \/ LivePositionFails \/ UNCHANGED vars
  PROVE  \A r \in Resources : ReadsLeft(r)' = ReadsLeft(r)
<1>1. coord' = coord /\ (loop' = loop \/ loop' = [loop EXCEPT !["state"].current = FALSE])
  BY DEF ServerChanges, EarnStateArrives, EarnStateFails, refreshEarnState,
     LivePositionArrives, LivePositionFails, vars
<1>2. loop \in [Resources -> Loops]
  BY Types
<1>3. \A r \in Resources : loop'[r].active = loop[r].active /\ loop'[r].dirty = loop[r].dirty
  <2>1. CASE loop' = loop
    BY <2>1
  <2>2. CASE loop' = [loop EXCEPT !["state"].current = FALSE]
    BY <1>2, <2>2 DEF Loops
  <2>3. QED
    BY <1>1, <2>1, <2>2
<1>4. QED
  BY <1>1, <1>3 DEF ReadsLeft, Left

\* The reads that are left run out.
LEMMA StepLeaves ==
  ASSUME TypeOK, [Next]_vars, NEW r \in Resources
  PROVE  /\ ReadSucceeds(r) \/ ReadFails(r) => ReadsLeft(r)' < ReadsLeft(r)
         /\ ReadsLeft(r)' > ReadsLeft(r) => calls' > calls \/ directs' > directs
<1>1. ASSUME ReadSucceeds(r) \/ ReadFails(r) PROVE ReadsLeft(r)' < ReadsLeft(r)
  BY <1>1, ContinueLeaves DEF ReadSucceeds, ReadFails
<1>2. ASSUME ReadsLeft(r)' > ReadsLeft(r) PROVE calls' > calls \/ directs' > directs
  <2>1. calls \in Nat /\ directs \in Nat
    BY ConstantTypes DEF TypeOK
  <2>2. ReadsLeft(r) \in 0..3 /\ ReadsLeft(r)' \in 0..3
    BY LeftIs DEF ReadsLeft
  <2>3. CASE \E c \in Callers, rs \in (SUBSET Resources) \ {{}} : Invalidate(c, rs)
    BY <2>1, <2>3 DEF Invalidate
  <2>4. CASE \E q \in Resources : RequestBelow(q)
    BY <2>1, <2>4 DEF RequestBelow
  <2>5. ASSUME NEW q \in Resources, ReadSucceeds(q) \/ ReadFails(q) PROVE FALSE
    <3>1. ReadsLeft(q)' < ReadsLeft(q) /\ (q # r => ReadsLeft(r)' = ReadsLeft(r))
      BY <2>5, ContinueLeaves DEF ReadSucceeds, ReadFails
    <3>2. QED
      BY <1>2, <2>2, <3>1
  <2>6. CASE \/ ServerChanges \/ EarnStateArrives \/ EarnStateFails \/ refreshEarnState
             \/ LivePositionArrives \/ LivePositionFails \/ UNCHANGED vars
    BY <1>2, <2>2, <2>6, OthersLeave
  <2>7. QED
    BY <2>3, <2>4, <2>5, <2>6 DEF Next
<1>3. QED
  BY <1>1, <1>2

\* A call that has not settled waits for a read that is still to end, in every
\* resource that it waits for (ResourceRefreshCoordinator.invalidate).
THEOREM RunningCallsWait == Spec => []CallsWait
<1>1. Init => SomethingAwaited
  BY DEF Init, SomethingAwaited, Settled
<1>2. TypeOK /\ SomethingAwaited /\ [Next]_vars => SomethingAwaited'
  BY AwaitedStep
<1>3. IInv /\ SomethingAwaited => CallsWait
  <2> SUFFICES ASSUME IInv, SomethingAwaited, NEW c \in Callers, call[c].status = "running"
               PROVE  /\ call[c].waiting # {}
                      /\ \A r \in call[c].waiting : ReadsLeft(r) > 0
    BY DEF CallsWait
  <2>1. call[c].waiting \subseteq Resources
    BY Types DEF IInv, Calls
  <2>2. \A r \in call[c].waiting : loop[r].active
    BY <2>1 DEF IInv, NoOrphan, Awaited
  <2>3. QED
    BY <2>2, LeftIs DEF SomethingAwaited, ReadsLeft
<1>4. QED
  BY <1>1, <1>2, <1>3, RefreshTyped, RefreshesAccounted, PTL DEF Spec

\* The reads that a call waits for run out: the loop of a resource and the
\* coordinator's run above it cannot keep each other going (invalidate, run and the
\* layers below).
THEOREM ReadsComeToAnEnd == Spec => ReadsRunOut
<1>1. TypeOK /\ [Next]_vars =>
        [\A r \in Resources :
           /\ ReadSucceeds(r) \/ ReadFails(r) => ReadsLeft(r)' < ReadsLeft(r)
           /\ ReadsLeft(r)' > ReadsLeft(r) => calls' > calls \/ directs' > directs]_vars
  BY StepLeaves
<1>2. QED
  BY <1>1, RefreshTyped, PTL DEF Spec, ReadsRunOut
===============================================================================
