------------------------------ MODULE KeyedLock ------------------------------
(***************************************************************************)
(* AlertRelay.withLock: a map from keys to promises.  A call waits for the *)
(* promise it finds under its key and leaves its own there, so that the    *)
(* calls of one key form a chain; the last one removes the entry, or the   *)
(* map would keep every key it ever saw.                                   *)
(***************************************************************************)
EXTENDS Integers, Sequences

CONSTANTS
  Calls,    \* the calls of withLock, each made once
  Keys,     \* idempotency keys, or dedup keys
  KeyOf,    \* the key of a call
  None      \* the map has no entry

ASSUME KeyOfAssumption == KeyOf \in [Calls -> Keys]
ASSUME NoneAssumption == None \notin Calls

VARIABLES
  locks,     \* locks: for each key, the call whose tail promise is stored
  previous,  \* the call whose tail promise a call waits for
  phase,     \* "new", "waiting" (await previous), "inside" (action), "over"
  ticket,    \* history: the order in which the calls of a key were made
  issued,    \* history: tickets issued for a key
  served     \* history: calls of a key that are over

vars == <<locks, previous, phase, ticket, issued, served>>

Init ==
  /\ locks = [k \in Keys |-> None]
  /\ previous = [c \in Calls |-> None]
  /\ phase = [c \in Calls |-> "new"]
  /\ ticket = [c \in Calls |-> 0]
  /\ issued = [k \in Keys |-> 0]
  /\ served = [k \in Keys |-> 0]

\* The synchronous part of the call, up to await previous.
Ask(c) ==
  /\ phase[c] = "new"
  /\ previous' = [previous EXCEPT ![c] = locks[KeyOf[c]]]
  /\ locks' = [locks EXCEPT ![KeyOf[c]] = c]
  /\ phase' = [phase EXCEPT ![c] = "waiting"]
  /\ ticket' = [ticket EXCEPT ![c] = issued[KeyOf[c]]]
  /\ issued' = [issued EXCEPT ![KeyOf[c]] = @ + 1]
  /\ UNCHANGED served

\* Mutant: previous is read, but not awaited.
NotAwaited(c) == TRUE

\* Mutant: a call that was overtaken at the entry of its key does not go on.
SettledAtTail(c) ==
  locks[KeyOf[c]] = c /\ (previous[c] # None => phase[previous[c]] = "over")

\* locks.get(key) ?? Promise.resolve() is settled.  The tail of a call settles
\* when its gate does: the call had itself waited for the tail before it.
PreviousSettled(c) == previous[c] # None => phase[previous[c]] = "over"

Enter(c) ==
  /\ phase[c] = "waiting"
  /\ PreviousSettled(c)
  /\ phase' = [phase EXCEPT ![c] = "inside"]
  /\ UNCHANGED <<locks, previous, ticket, issued, served>>

\* Mutant: the entry of the key is deleted, whoever left it there.
EntryDeleted(c) == None

\* if (locks.get(key) === tail) locks.delete(key)
EntryAfter(c) == IF locks[KeyOf[c]] = c THEN None ELSE locks[KeyOf[c]]

\* finally: the action has returned or thrown.
Leave(c) ==
  /\ phase[c] = "inside"
  /\ phase' = [phase EXCEPT ![c] = "over"]
  /\ locks' = [locks EXCEPT ![KeyOf[c]] = EntryAfter(c)]
  /\ served' = [served EXCEPT ![KeyOf[c]] = @ + 1]
  /\ UNCHANGED <<previous, ticket, issued>>

Next == \E c \in Calls : Ask(c) \/ Enter(c) \/ Leave(c)

\* The event loop runs every continuation, and every action of the relay
\* returns: its sends have timeouts.
Fairness == \A c \in Calls : WF_vars(Enter(c) \/ Leave(c))

Spec == Init /\ [][Next]_vars /\ Fairness

-----------------------------------------------------------------------------
(* Properties.                                                              *)

Active(c) == phase[c] \in {"waiting", "inside"}

\* Every variable has its type.
TypeOK ==
  /\ locks \in [Keys -> Calls \cup {None}]
  /\ previous \in [Calls -> Calls \cup {None}]
  /\ phase \in [Calls -> {"new", "waiting", "inside", "over"}]
  /\ ticket \in [Calls -> Nat]
  /\ issued \in [Keys -> Nat] /\ served \in [Keys -> Nat]

\* Two calls under one key never run their actions at the same time, though the
\* entry of the key is deleted and made again while calls wait.
MutualExclusion ==
  \A c, d \in Calls :
    phase[c] = "inside" /\ phase[d] = "inside" /\ KeyOf[c] = KeyOf[d] => c = d

\* The map holds exactly the keys in use: an idle key leaves nothing behind, and
\* a key in use is never missing, or the next call would not wait.
EntryIffInUse ==
  \A k \in Keys : locks[k] # None <=> \E c \in Calls : KeyOf[c] = k /\ Active(c)

\* The chain is the abstract queue: the calls whose tickets have not been served.
QueueOf(k) ==
  [i \in 1..(issued[k] - served[k]) |->
     CHOOSE c \in Calls : KeyOf[c] = k /\ Active(c) /\ ticket[c] = served[k] + i - 1]

Fifo == INSTANCE FifoLock WITH queue <- [k \in Keys |-> QueueOf(k)]

\* The chain of promises implements the first-come-first-served lock, and gives
\* every waiting call its turn.
ImplementsFifoLock == Fifo!Spec

-----------------------------------------------------------------------------
(* Why mutual exclusion holds.                                              *)

\* A call that may run: nothing it waits for is still to be settled.
Free(c) == Active(c) /\ PreviousSettled(c)

\* The active calls of a key are a chain, from one free call to the entry: each
\* call waits for the call with the ticket before its own.
Chain ==
  /\ \A c \in Calls : phase[c] = "inside" => PreviousSettled(c)
  /\ \A c \in Calls : Active(c) => ticket[c] < issued[KeyOf[c]]
  /\ \A c, d \in Calls :
       Active(c) /\ Active(d) /\ KeyOf[c] = KeyOf[d] /\ ticket[c] = ticket[d] => c = d
  /\ \A c \in Calls : Active(c) /\ ~PreviousSettled(c) =>
       /\ Active(previous[c])
       /\ KeyOf[previous[c]] = KeyOf[c]
       /\ ticket[c] = ticket[previous[c]] + 1
  /\ \A c, d \in Calls :
       Free(c) /\ Active(d) /\ KeyOf[c] = KeyOf[d] => ticket[c] <= ticket[d]
  /\ \A k \in Keys : \A c \in Calls : KeyOf[c] = k /\ Active(c) => locks[k] # None
  /\ \A k \in Keys : locks[k] # None =>
       /\ KeyOf[locks[k]] = k
       /\ Active(locks[k])
       /\ ticket[locks[k]] + 1 = issued[k]

\* The inductive invariant.
ChainInv == TypeOK /\ Chain

=============================================================================
