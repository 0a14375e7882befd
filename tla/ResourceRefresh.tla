--------------------------- MODULE ResourceRefresh ---------------------------
(***************************************************************************)
(* How the web client re-reads what it displays.  Every refresh goes       *)
(* through ResourceRefreshCoordinator.invalidate, which coalesces the      *)
(* requests for one resource; below it each resource coalesces once more:  *)
(*                                                                         *)
(*   state         SmartAccountRefreshSingleflight, with the latest-       *)
(*                 started-wins order of SmartAccountRefreshOrder;         *)
(*   position      the in-flight promise of useActiveEarnPosition;         *)
(*   transactions  the in-flight request and cache of                      *)
(*                 earn-transactions.client.ts (the earnings cache of      *)
(*                 use-earn-earnings.ts has the same shape).               *)
(*                                                                         *)
(* The layers below are also used directly: by refreshes after a mutation, *)
(* by account subscriptions, by the components that display transactions,  *)
(* by refreshEarnState (the poll of a finalizing autoswap) and by the      *)
(* effect that loads the live position.                                    *)
(*                                                                         *)
(* Without a policy in the displayed Earn state there is nothing to read   *)
(* of the position: a refresh of it then resolves within the task that     *)
(* asked, with nothing read (readRpcPosition returns null).                *)
(*                                                                         *)
(* The server's state is the number of changes it has seen.  A read        *)
(* returns the state of some moment between its start and its end.  One    *)
(* action is one task of the browser's event loop with its microtasks.     *)
(***************************************************************************)
EXTENDS Integers

CONSTANTS
  Callers,      \* who calls invalidate: the batcher, an admission, ...
  MaxChanges,   \* bound: changes of the server's state
  MaxCalls,     \* bound: calls of invalidate
  MaxDirect,    \* bound: reads that bypass the coordinator
  MaxFailures   \* bound: reads that fail

ASSUME BoundsAssumption ==
  /\ MaxChanges \in Nat /\ MaxCalls \in Nat
  /\ MaxDirect \in Nat /\ MaxFailures \in Nat

Resources == {"state", "position", "transactions"}
Versions == 0 .. MaxChanges

VARIABLES
  head,     \* the server's changes
  view,     \* view[r]: how many of them the displayed r includes
  coord,    \* coord[r]: the coordinator's run for r
  loop,     \* loop[r]: the read loop of the layer below
  readable, \* the displayed Earn state has a policy to read the position by
  direct,   \* the latest Earn read outside the singleflight
  live,     \* the position read of the loading effect
  call,     \* call[c]: the invalidate caller c awaits
  calls, directs, failures  \* counters for the bounds

counters == <<calls, directs, failures>>
vars == <<head, view, readable, coord, loop, direct, live, call, counters>>

NoLoop == [active |-> FALSE, dirty |-> FALSE, current |-> FALSE, from |-> 0]
NoRead == [active |-> FALSE, current |-> FALSE, from |-> 0]
NoEffect == [active |-> FALSE, from |-> 0]
Idle == [running |-> FALSE, dirty |-> FALSE]
Settled(status) == [status |-> status, from |-> 0, waiting |-> {}]

TypeOK ==
  /\ head \in Versions
  /\ view \in [Resources -> Versions]
  /\ readable \in BOOLEAN
  /\ coord \in [Resources -> [running : BOOLEAN, dirty : BOOLEAN]]
  /\ loop \in [Resources -> [active : BOOLEAN, dirty : BOOLEAN,
                             current : BOOLEAN, from : Versions]]
  /\ direct \in [active : BOOLEAN, current : BOOLEAN,
                 from : Versions \cup {-1}]
  /\ live \in [active : BOOLEAN, from : Versions]
  /\ call \in [Callers -> [status : {"running", "ok", "failed"},
                           from : Versions, waiting : SUBSET Resources]]
  /\ calls \in 0 .. MaxCalls
  /\ directs \in 0 .. MaxDirect
  /\ failures \in 0 .. MaxFailures

(* The first load is over, but for the position's effect.                  *)
Init ==
  /\ head = 0
  /\ view = [r \in Resources |-> 0]
  /\ readable \in BOOLEAN
  /\ coord = [r \in Resources |-> Idle]
  /\ loop = [r \in Resources |-> NoLoop]
  /\ direct = [NoRead EXCEPT !.from = -1]
  /\ live = [active |-> TRUE, from |-> 0]
  /\ call = [c \in Callers |-> Settled("ok")]
  /\ calls = 0 /\ directs = 0 /\ failures = 0

-----------------------------------------------------------------------------
(* The read loops.                                                         *)

\* Mutant: a loop that reads again stays dirty.
BegunDirty == [active |-> TRUE, dirty |-> TRUE, current |-> TRUE, from |-> head]

Begun == [active |-> TRUE, dirty |-> FALSE, current |-> TRUE, from |-> head]

(* One more request for r: it joins the loop, which then reads once more   *)
(* after the read in flight, or begins one.  For the Earn state the        *)
(* request takes an order token first, so the read in flight is no longer  *)
(* the latest.                                                             *)
\* Mutant: a request joins the read in flight.
RequestJoins(r) == IF loop[r].active THEN loop[r] ELSE Begun

Requested(r) ==
  IF loop[r].active
  THEN [active |-> TRUE, dirty |-> TRUE,
        current |-> loop[r].current /\ r # "state", from |-> loop[r].from]
  ELSE Begun

(* A new order token for the Earn state makes a direct read stale.         *)
Overtaken(rs) ==
  IF "state" \in rs THEN [direct EXCEPT !.current = FALSE] ELSE direct

-----------------------------------------------------------------------------
(* The coordinator.                                                        *)

(* A resource that handles invalidations in flight is asked again; the     *)
(* others are marked for another run.                                      *)
HandlesInFlight(r) == r = "position"

(* A position that cannot be read, and is not being read with the policy   *)
(* of an earlier Earn state, is answered at once.                          *)
Unreadable(r) == r = "position" /\ ~readable /\ ~loop[r].active

Invalidate(c, rs) ==
  LET run   == {r \in rs : ~Unreadable(r)}
      asked == {r \in run : ~coord[r].running \/ HandlesInFlight(r)}
  IN  /\ call[c].status # "running"
      /\ calls < MaxCalls /\ calls' = calls + 1
      /\ call' = [call EXCEPT ![c] =
                    IF run = {} THEN Settled("ok")
                    ELSE [status |-> "running", from |-> head, waiting |-> run]]
      /\ coord' = [r \in Resources |->
                     IF r \notin run THEN coord[r]
                     ELSE [running |-> TRUE,
                           dirty |-> coord[r].dirty \/ r \notin asked]]
      /\ loop' = [r \in Resources |->
                    IF r \in asked THEN Requested(r) ELSE loop[r]]
      /\ direct' = Overtaken(asked)
      /\ UNCHANGED <<head, view, readable, live, directs, failures>>

(* The run of r is over: the callers that await it go on.  Promise.all     *)
(* rejects at the first failure.                                           *)
\* Mutant: a run that fails wakes nobody.
SettleSuccess(r, ok) ==
  call' = [c \in Callers |->
    IF r \notin call[c].waiting \/ ~ok THEN call[c]
    ELSE IF call[c].waiting = {r} THEN Settled("ok")
    ELSE [call[c] EXCEPT !.waiting = @ \ {r}]]

Settle(r, ok) ==
  call' = [c \in Callers |->
    IF r \notin call[c].waiting THEN call[c]
    ELSE IF ~ok THEN Settled("failed")
    ELSE IF call[c].waiting = {r} THEN Settled("ok")
    ELSE [call[c] EXCEPT !.waiting = @ \ {r}]]

(* What follows a read of r that ended: the loop reads again if it was     *)
(* dirtied; if not, the coordinator runs again if it was; if not, the run  *)
(* is over.                                                                *)
Continue(r, ok) ==
  \/ /\ loop[r].dirty
     /\ loop' = [loop EXCEPT ![r] = Begun]
     /\ direct' = Overtaken({r})
     /\ UNCHANGED <<coord, call>>
  \/ /\ ~loop[r].dirty /\ coord[r].dirty
     /\ loop' = [loop EXCEPT ![r] = Begun]
     /\ direct' = Overtaken({r})
     /\ coord' = [coord EXCEPT ![r].dirty = FALSE]
     /\ UNCHANGED call
  \/ /\ ~loop[r].dirty /\ ~coord[r].dirty
     /\ loop' = [loop EXCEPT ![r] = NoLoop]
     /\ coord' = [coord EXCEPT ![r] = Idle]
     /\ Settle(r, ok)
     /\ UNCHANGED direct

(* A read commits unless a later one of the Earn state has begun, or the   *)
(* transactions were invalidated while it was under way.  A read of the    *)
(* position has a policy, the one its loop began with, and commits.        *)
\* Mutant: every read commits.
CommitsAlways(r) == TRUE

Commits(r) ==
  /\ r = "state" => loop[r].current
  /\ r = "transactions" => ~loop[r].dirty

\* Mutant: the effect's read is dated by the change that is to come.
LiveRestartsLate == live' = [active |-> TRUE, from |-> head + 1]

(* The effect of the position runs again, with the policy there is now.    *)
LiveRestarts == live' = [active |-> TRUE, from |-> head]

(* An Earn state is displayed.  It may have a policy or none; unless it    *)
(* had none before and has none now, the policy is a new object, on which  *)
(* the effect of the position depends.                                     *)
Displayed(from) ==
  /\ \E v \in from .. head : view' = [view EXCEPT !["state"] = v]
  /\ readable' \in BOOLEAN
  /\ IF readable \/ readable' THEN LiveRestarts ELSE UNCHANGED live

ReadSucceeds(r) ==
  /\ loop[r].active
  /\ \/ /\ ~Commits(r)
        /\ UNCHANGED <<view, readable, live>>
     \/ /\ Commits(r) /\ r = "state"
        /\ Displayed(loop[r].from)
     \/ /\ Commits(r) /\ r # "state"
        /\ \E v \in loop[r].from .. head : view' = [view EXCEPT ![r] = v]
        /\ UNCHANGED <<readable, live>>
  /\ Continue(r, TRUE)
  /\ UNCHANGED <<head, counters>>

ReadFails(r) ==
  /\ loop[r].active
  /\ failures < MaxFailures /\ failures' = failures + 1
  /\ Continue(r, FALSE)
  /\ UNCHANGED <<head, view, readable, live, calls, directs>>

-----------------------------------------------------------------------------
(* Reads that bypass the coordinator.                                      *)

(* A refresh after a mutation asks for the Earn state, a subscription for  *)
(* the position; a component that displays transactions joins a request    *)
(* without making it read again.                                           *)
RequestBelow(r) ==
  /\ directs < MaxDirect /\ directs' = directs + 1
  /\ r = "transactions" => ~loop[r].active
  /\ ~Unreadable(r)
  /\ loop' = [loop EXCEPT ![r] = Requested(r)]
  /\ direct' = Overtaken({r})
  /\ UNCHANGED <<head, view, readable, coord, live, call, calls, failures>>

(* refreshEarnState called by itself takes an order token but neither      *)
(* joins the singleflight nor marks it dirty; so does the full refresh of  *)
(* the sidebar, whose read may be the slowest of all.                      *)
refreshEarnState ==
  /\ directs < MaxDirect /\ directs' = directs + 1
  /\ direct' = [active |-> TRUE, current |-> TRUE, from |-> head]
  /\ loop' = [loop EXCEPT !["state"].current = FALSE]
  /\ UNCHANGED <<head, view, readable, coord, live, call, calls, failures>>

EarnStateArrives ==
  /\ direct.active
  /\ direct' = [direct EXCEPT !.active = FALSE, !.current = FALSE]
  /\ IF direct.current THEN Displayed(direct.from)
                       ELSE UNCHANGED <<view, readable, live>>
  /\ UNCHANGED <<head, coord, loop, call, counters>>

EarnStateFails ==
  /\ direct.active
  /\ failures < MaxFailures /\ failures' = failures + 1
  /\ direct' = [direct EXCEPT !.active = FALSE, !.current = FALSE]
  /\ UNCHANGED <<head, view, readable, coord, loop, live, call, calls, directs>>

(* loadLivePosition commits what it read; only a newer run of the effect   *)
(* cancels it.  Without a policy it displays the position the server has   *)
(* confirmed, unless that read failed or the current one is kept over it.  *)
LivePositionArrives ==
  /\ live.active
  /\ live' = NoEffect
  /\ \/ \E v \in live.from .. head : view' = [view EXCEPT !["position"] = v]
     \/ ~readable /\ UNCHANGED view
  /\ UNCHANGED <<head, readable, coord, loop, direct, call, counters>>

LivePositionFails ==
  /\ live.active
  /\ failures < MaxFailures /\ failures' = failures + 1
  /\ live' = NoEffect
  /\ UNCHANGED <<head, view, readable, coord, loop, direct, call, calls, directs>>

ServerChanges ==
  /\ head < MaxChanges
  /\ head' = head + 1
  /\ UNCHANGED <<view, readable, coord, loop, direct, live, call, counters>>

Next ==
  \/ ServerChanges
  \/ \E c \in Callers, rs \in (SUBSET Resources) \ {{}} : Invalidate(c, rs)
  \/ \E r \in Resources : ReadSucceeds(r) \/ ReadFails(r) \/ RequestBelow(r)
  \/ refreshEarnState \/ EarnStateArrives \/ EarnStateFails
  \/ LivePositionArrives \/ LivePositionFails

Spec == Init /\ [][Next]_vars

(* Every read ends, one way or the other.                                  *)
FairSpec == Spec /\ \A r \in Resources : WF_vars(ReadSucceeds(r))

-----------------------------------------------------------------------------
(* Properties.                                                             *)

(* A direct read of the Earn state that began after c asked has taken the  *)
(* order token from the loop's read.                                       *)
Superseded(c, r) ==
  r = "state" /\ ~loop[r].current /\ direct.from >= call[c].from

Awaited(c, r) == call[c].status = "running" /\ r \in call[c].waiting

(* In this step c, which awaits r, is told that r was refreshed.           *)
Answered(c, r) ==
  Awaited(c, r) /\ r \notin call'[c].waiting /\ call'[c].status # "failed"

(* A refresh is not answered with a read that began before it was asked    *)
(* for: whatever joined whatever, when a caller that awaits a resource is  *)
(* told that it was refreshed, what is displayed was read after the call   *)
(* (mutation-reconciliation.ts: a trailing read runs before the event is   *)
(* acknowledged).  The exception is a direct read of the Earn state that   *)
(* was begun even later.  Nobody awaits a position that cannot be read:    *)
(* whoever asks for it is answered at once, with what is displayed.        *)
ReadAfterAsked ==
  [][\A c \in Callers, r \in Resources : Answered(c, r) =>
       view'[r] >= call[c].from \/ Superseded(c, r)]_vars

(* An older Earn state or list of transactions never replaces a newer one  *)
(* on the screen, whatever order the reads end in (SmartAccountRefreshOrder *)
(* promises that the latest started wins).                                 *)
NeverRegresses ==
  [][\A r \in Resources \ {"position"} : view'[r] >= view[r]]_vars

(* Nobody waits for a run that is not going on: the coordinator's run of a *)
(* resource always has a read in flight, and every caller's resources run. *)
NoOrphan ==
  \A r \in Resources :
    /\ coord[r].running => loop[r].active
    /\ \A c \in Callers : Awaited(c, r) => coord[r].running

(* Every call settles.                                                     *)
EveryCallSettles ==
  \A c \in Callers : call[c].status = "running" ~> call[c].status # "running"

=============================================================================
