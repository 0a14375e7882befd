------------------------------ MODULE FifoLock ------------------------------
(***************************************************************************)
(* What AlertRelay asks of its per-key locks: the calls that ask for a key *)
(* get it one at a time, in the order in which they asked.                 *)
(***************************************************************************)
EXTENDS Sequences

CONSTANTS Calls, Keys, KeyOf

VARIABLES
  queue,   \* for each key, the calls that hold it (the first) or wait for it
  phase    \* where each call is

vars == <<queue, phase>>

Init ==
  /\ queue = [k \in Keys |-> <<>>]
  /\ phase = [c \in Calls |-> "new"]

Ask(c) ==
  /\ phase[c] = "new"
  /\ phase' = [phase EXCEPT ![c] = "waiting"]
  /\ queue' = [queue EXCEPT ![KeyOf[c]] = Append(@, c)]

Enter(c) ==
  /\ phase[c] = "waiting"
  /\ Head(queue[KeyOf[c]]) = c
  /\ phase' = [phase EXCEPT ![c] = "inside"]
  /\ UNCHANGED queue

Leave(c) ==
  /\ phase[c] = "inside"
  /\ phase' = [phase EXCEPT ![c] = "over"]
  /\ queue' = [queue EXCEPT ![KeyOf[c]] = Tail(@)]

Next == \E c \in Calls : Ask(c) \/ Enter(c) \/ Leave(c)

\* Whoever holds a key gives it back, and its successor takes it.
Spec == Init /\ [][Next]_vars /\ \A c \in Calls : WF_vars(Enter(c) \/ Leave(c))

=============================================================================
