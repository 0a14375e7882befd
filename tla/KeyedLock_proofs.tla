-------------------------- MODULE KeyedLock_proofs --------------------------
(* The promise chains for any number of calls and keys: mutual exclusion, the *)
(* entries of the map, that they are the first-come-first-served lock, and    *)
(* that no key is ever stuck.                                                 *)
EXTENDS KeyedLock, TLAPS

\* No call has been made: there is no chain.
THEOREM ChainInit == Init => ChainInv
  BY NoneAssumption, KeyOfAssumption
  DEF Init, ChainInv, TypeOK, Chain, Active, Free, PreviousSettled

\* The new call joins the chain behind the entry of its key.
LEMMA AskStep ==
  ASSUME ChainInv, NEW e \in Calls, Ask(e)
  PROVE  ChainInv'
<1>1. TypeOK'
  <2>1. KeyOf[e] \in Keys /\ issued[KeyOf[e]] \in Nat /\ issued[KeyOf[e]] + 1 \in Nat
    BY KeyOfAssumption DEF ChainInv, TypeOK
  <2>2. locks' \in [Keys -> Calls \cup {None}] /\ previous' \in [Calls -> Calls \cup {None}]
    BY <2>1 DEF ChainInv, TypeOK, Ask
  <2>3. phase' \in [Calls -> {"new", "waiting", "inside", "over"}]
    BY DEF ChainInv, TypeOK, Ask
  <2>4. ticket' \in [Calls -> Nat] /\ issued' \in [Keys -> Nat] /\ served' \in [Keys -> Nat]
    BY <2>1 DEF ChainInv, TypeOK, Ask
  <2>5. QED
    BY <2>2, <2>3, <2>4 DEF TypeOK
<1> DEFINE k0 == KeyOf[e]
<1>2. /\ k0 \in Keys /\ phase[e] = "new" /\ issued[k0] \in Nat
      /\ \A c \in Calls : c # e =>
           /\ phase'[c] = phase[c] /\ previous'[c] = previous[c] /\ ticket'[c] = ticket[c]
      /\ phase'[e] = "waiting" /\ previous'[e] = locks[k0] /\ ticket'[e] = issued[k0]
      /\ \A k \in Keys : k # k0 => locks'[k] = locks[k] /\ issued'[k] = issued[k]
      /\ locks'[k0] = e /\ issued'[k0] = issued[k0] + 1
  BY KeyOfAssumption DEF ChainInv, TypeOK, Ask
<1>3. \A c \in Calls : c # e => (Active(c)' <=> Active(c))
  BY <1>2 DEF Active
<1>4. ~Active(e) /\ Active(e)'
  BY <1>2 DEF Active
<1>5. \A c \in Calls : c # e /\ previous[c] # e => (PreviousSettled(c)' <=> PreviousSettled(c))
  BY <1>2, NoneAssumption DEF PreviousSettled, ChainInv, TypeOK
<1>6. \A c \in Calls : Active(c) => previous[c] # e
  BY <1>2, <1>4, NoneAssumption DEF ChainInv, Chain, PreviousSettled, Active
<1>7. \A c \in Calls : Active(c) => (PreviousSettled(c)' <=> PreviousSettled(c))
  BY <1>4, <1>5, <1>6
<1>8. PreviousSettled(e)' <=> locks[k0] = None
  <2>1. CASE locks[k0] = None
    BY <2>1, <1>2 DEF PreviousSettled
  <2>2. CASE locks[k0] # None
    <3>1. locks[k0] \in Calls /\ Active(locks[k0]) /\ locks[k0] # e
      BY <2>2, <1>2, <1>4 DEF ChainInv, Chain, TypeOK
    <3>2. phase'[locks[k0]] # "over"
      BY <3>1, <1>2 DEF Active
    <3>3. QED
      BY <2>2, <3>2, <1>2 DEF PreviousSettled
  <2>3. QED
    BY <2>1, <2>2
<1>9. \A c \in Calls : phase'[c] = "inside" => PreviousSettled(c)'
  BY <1>2, <1>7 DEF ChainInv, Chain, Active
<1>10. \A c \in Calls : Active(c)' => ticket'[c] < issued'[KeyOf[c]]
  BY <1>2, <1>3, KeyOfAssumption DEF ChainInv, Chain, TypeOK
<1>11. \A c, d \in Calls :
         Active(c)' /\ Active(d)' /\ KeyOf[c] = KeyOf[d] /\ ticket'[c] = ticket'[d] => c = d
  BY <1>2, <1>3, KeyOfAssumption DEF ChainInv, Chain, TypeOK
<1>12. \A c \in Calls : Active(c)' /\ ~PreviousSettled(c)' =>
         /\ Active(previous[c])'
         /\ KeyOf[previous'[c]] = KeyOf[c]
         /\ ticket'[c] = ticket'[previous'[c]] + 1
  <2> SUFFICES ASSUME NEW c \in Calls, Active(c)', ~PreviousSettled(c)'
               PROVE  /\ Active(previous[c])'
                      /\ KeyOf[previous'[c]] = KeyOf[c]
                      /\ ticket'[c] = ticket'[previous'[c]] + 1
    OBVIOUS
  <2>1. CASE c = e
    <3>1. locks[k0] \in Calls /\ locks[k0] # None /\ Active(locks[k0]) /\ locks[k0] # e
          /\ KeyOf[locks[k0]] = k0 /\ ticket[locks[k0]] + 1 = issued[k0]
      BY <2>1, <1>2, <1>4, <1>8 DEF ChainInv, Chain, TypeOK
    <3>2. QED
      BY <2>1, <3>1, <1>2, <1>3 DEF Active
  <2>2. CASE c # e
    <3>1. Active(c) /\ ~PreviousSettled(c)
      BY <2>2, <1>3, <1>7
    <3>2. /\ previous[c] \in Calls /\ previous[c] # e /\ Active(previous[c])
          /\ KeyOf[previous[c]] = KeyOf[c] /\ ticket[c] = ticket[previous[c]] + 1
      BY <3>1, <1>4 DEF ChainInv, Chain, TypeOK, PreviousSettled
    <3>3. QED
      BY <2>2, <3>2, <1>2 DEF Active
  <2>3. QED
    BY <2>1, <2>2
<1>13. \A c, d \in Calls :
         Free(c)' /\ Active(d)' /\ KeyOf[c] = KeyOf[d] => ticket'[c] <= ticket'[d]
  <2> SUFFICES ASSUME NEW c \in Calls, NEW d \in Calls, Free(c)', Active(d)',
                      KeyOf[c] = KeyOf[d]
               PROVE  ticket'[c] <= ticket'[d]
    OBVIOUS
  <2>1. CASE c = e
    <3>1. locks[k0] = None
      BY <2>1, <1>8 DEF Free
    <3>2. d = e
      BY <2>1, <3>1, <1>2, <1>3 DEF ChainInv, Chain
    <3>3. QED
      BY <2>1, <3>2, <1>2
  <2>2. CASE c # e /\ d = e
    BY <2>2, <1>2, <1>3 DEF ChainInv, Chain, TypeOK, Free
  <2>3. CASE c # e /\ d # e
    BY <2>3, <1>2, <1>3, <1>7 DEF ChainInv, Chain, TypeOK, Free
  <2>4. QED
    BY <2>1, <2>2, <2>3
<1>14. \A k \in Keys : \A c \in Calls : KeyOf[c] = k /\ Active(c)' => locks'[k] # None
  BY <1>2, <1>3, NoneAssumption DEF ChainInv, Chain
<1>15. \A k \in Keys : locks'[k] # None =>
         /\ KeyOf[locks'[k]] = k
         /\ Active(locks[k])'
         /\ ticket'[locks'[k]] + 1 = issued'[k]
  <2> SUFFICES ASSUME NEW k \in Keys, locks'[k] # None
               PROVE  /\ KeyOf[locks'[k]] = k
                      /\ Active(locks[k])'
                      /\ ticket'[locks'[k]] + 1 = issued'[k]
    OBVIOUS
  <2>1. CASE k = k0
    BY <2>1, <1>2, <1>4 DEF Active
  <2>2. CASE k # k0
    <3>1. locks[k] \in Calls /\ Active(locks[k]) /\ locks[k] # e
          /\ KeyOf[locks[k]] = k /\ ticket[locks[k]] + 1 = issued[k]
      BY <2>2, <1>2, <1>4 DEF ChainInv, Chain, TypeOK
    <3>2. QED
      BY <2>2, <3>1, <1>2 DEF Active
  <2>3. QED
    BY <2>1, <2>2
<1>16. QED
  BY <1>1, <1>9, <1>10, <1>11, <1>12, <1>13, <1>14, <1>15 DEF ChainInv, Chain

\* A call enters only when everything before it has settled: it was free.
LEMMA EnterStep ==
  ASSUME ChainInv, NEW e \in Calls, Enter(e)
  PROVE  ChainInv'
<1>1. /\ phase[e] = "waiting" /\ PreviousSettled(e)
      /\ phase' = [phase EXCEPT ![e] = "inside"]
      /\ UNCHANGED <<locks, previous, ticket, issued, served>>
  BY DEF Enter
<1>2. TypeOK'
  BY <1>1 DEF ChainInv, TypeOK
<1>3. \A c \in Calls : Active(c)' <=> Active(c)
  BY <1>1 DEF Active, ChainInv, TypeOK
<1>4. \A c \in Calls : PreviousSettled(c)' <=> PreviousSettled(c)
  BY <1>1, NoneAssumption DEF PreviousSettled, ChainInv, TypeOK
<1>5. \A c \in Calls : phase'[c] = "inside" => PreviousSettled(c)'
  BY <1>1, <1>4 DEF ChainInv, Chain, TypeOK
<1>6. \A c \in Calls : Active(c)' /\ ~PreviousSettled(c)' =>
         /\ Active(previous[c])'
         /\ KeyOf[previous'[c]] = KeyOf[c]
         /\ ticket'[c] = ticket'[previous'[c]] + 1
  <2>1. \A c \in Calls : Active(c) /\ ~PreviousSettled(c) => previous[c] \in Calls
    BY DEF ChainInv, TypeOK, PreviousSettled
  <2>2. QED
    BY <1>1, <1>3, <1>4, <2>1 DEF ChainInv, Chain, Active
<1>7. \A k \in Keys : locks'[k] # None =>
         /\ KeyOf[locks'[k]] = k
         /\ Active(locks[k])'
         /\ ticket'[locks'[k]] + 1 = issued'[k]
  <2>1. \A k \in Keys : locks[k] # None => locks[k] \in Calls
    BY DEF ChainInv, TypeOK
  <2>2. QED
    BY <1>1, <1>3, <2>1 DEF ChainInv, Chain, Active
<1>8. QED
  BY <1>1, <1>2, <1>3, <1>4, <1>5, <1>6, <1>7 DEF ChainInv, Chain, Free

\* The call that leaves was the only free one; the one behind it becomes free,
\* or, when it was the last, the key is idle.
LEMMA LeaveStep ==
  ASSUME ChainInv, NEW e \in Calls, Leave(e)
  PROVE  ChainInv'
<1> DEFINE k0 == KeyOf[e]
<1>1. /\ phase[e] = "inside" /\ k0 \in Keys
      /\ phase' = [phase EXCEPT ![e] = "over"]
      /\ \A k \in Keys : k # k0 => locks'[k] = locks[k]
      /\ locks'[k0] = IF locks[k0] = e THEN None ELSE locks[k0]
      /\ UNCHANGED <<previous, ticket, issued>>
  BY KeyOfAssumption DEF Leave, EntryAfter, ChainInv, TypeOK
<1>2. TypeOK'
  <2>1. locks' \in [Keys -> Calls \cup {None}]
    BY KeyOfAssumption DEF Leave, EntryAfter, ChainInv, TypeOK
  <2>2. served' \in [Keys -> Nat]
    <3>1. served \in [Keys -> Nat] /\ served[k0] \in Nat
      BY <1>1 DEF ChainInv, TypeOK
    <3>2. served[k0] + 1 \in Nat
      BY <3>1
    <3>3. served' = [served EXCEPT ![k0] = served[k0] + 1]
      BY DEF Leave
    <3>4. QED
      BY <1>1, <3>1, <3>2, <3>3
  <2>3. QED
    BY <1>1, <2>1, <2>2 DEF ChainInv, TypeOK
<1>3. \A c \in Calls : Active(c)' <=> Active(c) /\ c # e
  BY <1>1 DEF Active, ChainInv, TypeOK
<1>4. Free(e) /\ Active(e)
  BY <1>1 DEF Free, Active, ChainInv, Chain
<1>5. \A c \in Calls : PreviousSettled(c)' <=> PreviousSettled(c) \/ previous[c] = e
  BY <1>1, NoneAssumption DEF PreviousSettled, ChainInv, TypeOK
<1>6. \A c \in Calls : phase'[c] = "inside" => PreviousSettled(c)'
  BY <1>1, <1>5 DEF ChainInv, Chain, TypeOK
<1>7. \A c \in Calls : Active(c)' /\ ~PreviousSettled(c)' =>
         /\ Active(previous[c])'
         /\ KeyOf[previous'[c]] = KeyOf[c]
         /\ ticket'[c] = ticket'[previous'[c]] + 1
  <2> SUFFICES ASSUME NEW c \in Calls, Active(c)', ~PreviousSettled(c)'
               PROVE  /\ Active(previous[c])'
                      /\ KeyOf[previous'[c]] = KeyOf[c]
                      /\ ticket'[c] = ticket'[previous'[c]] + 1
    OBVIOUS
  <2>1. Active(c) /\ ~PreviousSettled(c) /\ previous[c] # e
    BY <1>3, <1>5
  <2>2. /\ previous[c] \in Calls /\ Active(previous[c])
        /\ KeyOf[previous[c]] = KeyOf[c] /\ ticket[c] = ticket[previous[c]] + 1
    BY <2>1 DEF ChainInv, Chain, TypeOK, PreviousSettled
  <2>3. QED
    BY <1>1, <2>1, <2>2 DEF Active, ChainInv, TypeOK
<1>8. \A c, d \in Calls :
         Free(c)' /\ Active(d)' /\ KeyOf[c] = KeyOf[d] => ticket'[c] <= ticket'[d]
  <2> SUFFICES ASSUME NEW c \in Calls, NEW d \in Calls, Free(c)', Active(d)',
                      KeyOf[c] = KeyOf[d]
               PROVE  ticket[c] <= ticket[d]
    BY <1>1
  <2>1. Active(c) /\ Active(d) /\ c # e /\ d # e
    BY <1>3 DEF Free
  <2>2. CASE PreviousSettled(c)
    BY <2>1, <2>2 DEF Free, ChainInv, Chain
  <2>3. CASE ~PreviousSettled(c)
    <3>1. previous[c] = e
      BY <1>5, <2>3 DEF Free
    <3>2. KeyOf[e] = KeyOf[c] /\ ticket[c] = ticket[e] + 1
      BY <2>1, <2>3, <3>1 DEF ChainInv, Chain
    <3>3. ticket[e] <= ticket[d]
      BY <1>4, <2>1, <3>2 DEF ChainInv, Chain
    <3>4. ticket[e] # ticket[d]
      BY <1>4, <2>1, <3>2 DEF ChainInv, Chain
    <3>5. QED
      BY <3>2, <3>3, <3>4 DEF ChainInv, TypeOK
  <2>4. QED
    BY <2>2, <2>3
<1>9. \A k \in Keys : \A c \in Calls : KeyOf[c] = k /\ Active(c)' => locks'[k] # None
  <2> SUFFICES ASSUME NEW k \in Keys, NEW c \in Calls, KeyOf[c] = k, Active(c)'
               PROVE  locks'[k] # None
    OBVIOUS
  <2>1. Active(c) /\ c # e /\ locks[k] # None
    BY <1>3 DEF ChainInv, Chain
  <2>2. CASE k = k0 /\ locks[k0] = e
    <3>1. ticket[e] + 1 = issued[k0] /\ ticket[c] < issued[k0]
      BY <1>1, <2>1, <2>2, NoneAssumption DEF ChainInv, Chain
    <3>2. ticket[e] <= ticket[c]
      BY <1>4, <2>1, <2>2 DEF ChainInv, Chain
    <3>3. ticket[e] # ticket[c]
      BY <1>4, <2>1, <2>2 DEF ChainInv, Chain
    <3>4. QED
      BY <1>1, <3>1, <3>2, <3>3 DEF ChainInv, TypeOK
  <2>3. CASE ~(k = k0 /\ locks[k0] = e)
    BY <1>1, <2>1, <2>3
  <2>4. QED
    BY <2>2, <2>3
<1>10. \A k \in Keys : locks'[k] # None =>
         /\ KeyOf[locks'[k]] = k
         /\ Active(locks[k])'
         /\ ticket'[locks'[k]] + 1 = issued'[k]
  <2> SUFFICES ASSUME NEW k \in Keys, locks'[k] # None
               PROVE  /\ KeyOf[locks'[k]] = k
                      /\ Active(locks[k])'
                      /\ ticket'[locks'[k]] + 1 = issued'[k]
    OBVIOUS
  <2>1. locks'[k] = locks[k] /\ locks[k] # None
    BY <1>1
  <2>2. /\ locks[k] \in Calls /\ KeyOf[locks[k]] = k /\ Active(locks[k])
        /\ ticket[locks[k]] + 1 = issued[k]
    BY <2>1 DEF ChainInv, Chain, TypeOK
  <2>3. locks[k] # e
    BY <1>1, <2>1, <2>2
  <2>4. QED
    BY <1>1, <2>1, <2>2, <2>3 DEF Active, ChainInv, TypeOK
<1>11. QED
  BY <1>1, <1>2, <1>3, <1>6, <1>7, <1>8, <1>9, <1>10 DEF ChainInv, Chain

\* The chain survives every step.
THEOREM ChainStep == ChainInv /\ [Next]_vars => ChainInv'
<1> SUFFICES ASSUME ChainInv, [Next]_vars PROVE ChainInv'
  OBVIOUS
<1>1. CASE Next
  BY <1>1, AskStep, EnterStep, LeaveStep DEF Next
<1>2. CASE UNCHANGED vars
  BY <1>2 DEF vars, ChainInv, TypeOK, Chain, Free, Active, PreviousSettled
<1>3. QED
  BY <1>1, <1>2

\* The chain holds in every reachable state.
THEOREM ChainInvariant == Spec => []ChainInv
  BY ChainInit, ChainStep, PTL DEF Spec

\* The actions of two calls under one key never overlap.
THEOREM Exclusive == Spec => []MutualExclusion
<1>1. ChainInv => MutualExclusion
  <2> SUFFICES ASSUME ChainInv, NEW c \in Calls, NEW d \in Calls,
                      phase[c] = "inside", phase[d] = "inside", KeyOf[c] = KeyOf[d]
               PROVE  c = d
    BY DEF MutualExclusion
  <2>1. Free(c) /\ Free(d)
    BY DEF ChainInv, Chain, Free, Active
  <2>2. ticket[c] <= ticket[d] /\ ticket[d] <= ticket[c]
    BY <2>1 DEF ChainInv, Chain, Free
  <2>3. ticket[c] = ticket[d]
    BY <2>2 DEF ChainInv, TypeOK
  <2>4. QED
    BY <2>1, <2>3 DEF ChainInv, Chain, Free
<1>2. QED
  BY <1>1, ChainInvariant, PTL

\* The map never misses a key in use and never keeps an idle one.
THEOREM EntriesReclaimed == Spec => []EntryIffInUse
<1>1. ChainInv => EntryIffInUse
  BY DEF ChainInv, Chain, TypeOK, EntryIffInUse
<1>2. QED
  BY <1>1, ChainInvariant, PTL

-----------------------------------------------------------------------------
(* The chain is the queue of the abstract lock.                              *)

\* A call that holds ticket n of key k.
Holds(c, k, n) == KeyOf[c] = k /\ Active(c) /\ ticket[c] = n

\* The tickets of a key that are neither served nor still to be issued are those
\* of its active calls.
Turns ==
  /\ \A k \in Keys : served[k] <= issued[k]
  /\ \A c \in Calls : Active(c) => served[KeyOf[c]] <= ticket[c]
  /\ \A k \in Keys : \A n \in Nat :
       served[k] <= n /\ n < issued[k] => \E c \in Calls : Holds(c, k, n)

QueueInv == ChainInv /\ Turns

\* The call that runs has the ticket that is to be served next.
LEMMA InsideIsFirst ==
  ASSUME QueueInv, NEW e \in Calls, Active(e), PreviousSettled(e)
  PROVE  ticket[e] = served[KeyOf[e]]
<1> DEFINE k == KeyOf[e]
<1>1. /\ k \in Keys /\ served[k] \in Nat /\ issued[k] \in Nat /\ ticket[e] \in Nat
      /\ served[k] <= ticket[e] /\ ticket[e] < issued[k]
  BY KeyOfAssumption DEF QueueInv, ChainInv, TypeOK, Chain, Turns
<1>2. served[k] < issued[k]
  BY <1>1
<1>3. PICK c \in Calls : Holds(c, k, served[k])
  BY <1>1, <1>2 DEF QueueInv, Turns
<1>4. ticket[e] <= ticket[c]
  BY <1>3 DEF QueueInv, ChainInv, Chain, Free, Holds
<1>5. QED
  BY <1>1, <1>3, <1>4 DEF Holds

\* Tickets are issued and served one by one.
LEMMA TurnsStep ==
  ASSUME QueueInv, NEW e \in Calls, Ask(e) \/ Enter(e) \/ Leave(e)
  PROVE  Turns'
<1> DEFINE k0 == KeyOf[e]
<1>1. /\ k0 \in Keys /\ \A k \in Keys : served[k] \in Nat /\ issued[k] \in Nat
      /\ \A c \in Calls : ticket[c] \in Nat /\ KeyOf[c] \in Keys
  BY KeyOfAssumption DEF QueueInv, ChainInv, TypeOK
<1>2. CASE Ask(e)
  <2>1. /\ served' = served /\ issued'[k0] = issued[k0] + 1
        /\ \A k \in Keys : k # k0 => issued'[k] = issued[k]
        /\ phase[e] = "new" /\ phase'[e] = "waiting" /\ ticket'[e] = issued[k0]
        /\ \A c \in Calls : c # e => phase'[c] = phase[c] /\ ticket'[c] = ticket[c]
    BY <1>1, <1>2 DEF Ask, QueueInv, ChainInv, TypeOK
  <2>2. ~Active(e) /\ Active(e)' /\ \A c \in Calls : c # e => (Active(c)' <=> Active(c))
    BY <2>1 DEF Active
  <2>3. \A k \in Keys : served'[k] <= issued'[k]
    BY <1>1, <2>1 DEF QueueInv, Turns
  <2>4. \A c \in Calls : Active(c)' => served'[KeyOf[c]] <= ticket'[c]
    BY <1>1, <2>1, <2>2 DEF QueueInv, Turns
  <2>5. ASSUME NEW k \in Keys, NEW n \in Nat, served'[k] <= n, n < issued'[k]
        PROVE  \E c \in Calls : Holds(c, k, n)'
    <3>1. CASE k = k0 /\ n = issued[k0]
      <4>1. Holds(e, k, n)'
        BY <2>1, <2>2, <3>1 DEF Holds
      <4>2. QED
        BY <4>1
    <3>2. CASE ~(k = k0 /\ n = issued[k0])
      <4>1. served[k] <= n /\ n < issued[k]
        BY <1>1, <2>1, <2>5, <3>2
      <4>2. PICK c \in Calls : Holds(c, k, n)
        BY <4>1 DEF QueueInv, Turns
      <4>3. Holds(c, k, n)'
        BY <2>1, <2>2, <4>2 DEF Holds
      <4>4. QED
        BY <4>3
    <3>3. QED
      BY <3>1, <3>2
  <2>6. QED
    BY <2>3, <2>4, <2>5 DEF Turns
<1>3. CASE Enter(e)
  <2>1. /\ served' = served /\ issued' = issued /\ ticket' = ticket
        /\ phase[e] = "waiting" /\ phase' = [phase EXCEPT ![e] = "inside"]
    BY <1>3 DEF Enter
  <2>2. \A c \in Calls : Active(c)' <=> Active(c)
    BY <2>1 DEF Active, QueueInv, ChainInv, TypeOK
  <2>3. \A c \in Calls, k \in Keys, n \in Nat : Holds(c, k, n) => Holds(c, k, n)'
    BY <2>1, <2>2 DEF Holds
  <2>4. QED
    BY <2>1, <2>2, <2>3 DEF QueueInv, Turns
<1>4. CASE Leave(e)
  <2>1. /\ issued' = issued /\ ticket' = ticket /\ served'[k0] = served[k0] + 1
        /\ \A k \in Keys : k # k0 => served'[k] = served[k]
        /\ phase[e] = "inside" /\ phase' = [phase EXCEPT ![e] = "over"]
    BY <1>1, <1>4 DEF Leave, QueueInv, ChainInv, TypeOK
  <2>2. \A c \in Calls : Active(c)' <=> Active(c) /\ c # e
    BY <2>1 DEF Active, QueueInv, ChainInv, TypeOK
  <2>3. Active(e) /\ ticket[e] = served[k0] /\ ticket[e] < issued[k0]
    <3>1. Active(e) /\ PreviousSettled(e)
      BY <2>1 DEF Active, QueueInv, ChainInv, Chain
    <3>2. QED
      BY <3>1, InsideIsFirst DEF QueueInv, ChainInv, Chain
  <2>4. \A k \in Keys : served'[k] <= issued'[k]
    BY <1>1, <2>1, <2>3 DEF QueueInv, Turns
  <2>5. ASSUME NEW c \in Calls, Active(c)' PROVE served'[KeyOf[c]] <= ticket'[c]
    <3>1. Active(c) /\ c # e /\ served[KeyOf[c]] <= ticket[c]
      BY <2>2, <2>5 DEF QueueInv, Turns
    <3>2. KeyOf[c] = k0 => ticket[c] # ticket[e]
      BY <2>3, <3>1 DEF QueueInv, ChainInv, Chain
    <3>3. QED
      BY <1>1, <2>1, <2>3, <3>1, <3>2
  <2>6. ASSUME NEW k \in Keys, NEW n \in Nat, served'[k] <= n, n < issued'[k]
        PROVE  \E c \in Calls : Holds(c, k, n)'
    <3>1. served[k] <= n /\ n < issued[k] /\ ~(k = k0 /\ n = served[k0])
      BY <1>1, <2>1, <2>6
    <3>2. PICK c \in Calls : Holds(c, k, n)
      BY <3>1 DEF QueueInv, Turns
    <3>3. c # e
      BY <2>3, <3>1, <3>2 DEF Holds
    <3>4. Holds(c, k, n)'
      BY <2>1, <2>2, <3>2, <3>3 DEF Holds
    <3>5. QED
      BY <3>4
  <2>7. QED
    BY <2>4, <2>5, <2>6 DEF Turns
<1>5. QED
  BY <1>2, <1>3, <1>4

LEMMA QueueInitially == Init => QueueInv
<1> SUFFICES ASSUME Init PROVE QueueInv
  OBVIOUS
<1>1. ChainInv
  BY ChainInit
<1>2. Turns
  BY KeyOfAssumption DEF Init, Turns, Active
<1>3. QED
  BY <1>1, <1>2 DEF QueueInv

LEMMA QueueStep == QueueInv /\ [Next]_vars => QueueInv'
<1> SUFFICES ASSUME QueueInv, [Next]_vars PROVE QueueInv'
  OBVIOUS
<1>1. ChainInv'
  BY ChainStep DEF QueueInv
<1>2. CASE UNCHANGED vars
  BY <1>1, <1>2 DEF vars, QueueInv, Turns, Holds, Active
<1>3. CASE Next
  BY <1>1, <1>3, TurnsStep DEF Next, QueueInv
<1>4. QED
  BY <1>2, <1>3

\* The queue of a key is the sequence of its calls in the order of their tickets.
Ordered ==
  \A k \in Keys :
    /\ QueueOf(k) \in Seq(Calls) /\ Len(QueueOf(k)) = issued[k] - served[k]
    /\ \A i \in 1..(issued[k] - served[k]) : \A c \in Calls :
         Holds(c, k, served[k] + i - 1) <=> c = QueueOf(k)[i]

LEMMA QueueElements == QueueInv => Ordered
<1> SUFFICES ASSUME QueueInv, NEW k \in Keys
             PROVE  /\ QueueOf(k) \in Seq(Calls) /\ Len(QueueOf(k)) = issued[k] - served[k]
                    /\ \A i \in 1..(issued[k] - served[k]) : \A c \in Calls :
                         Holds(c, k, served[k] + i - 1) <=> c = QueueOf(k)[i]
  BY DEF Ordered
<1> DEFINE n == issued[k] - served[k]
           C(i) == CHOOSE c \in Calls : Holds(c, k, served[k] + i - 1)
<1>1. n \in Nat /\ served[k] \in Nat /\ issued[k] \in Nat
  BY DEF QueueInv, ChainInv, TypeOK, Turns
<1>2. QueueOf(k) = [i \in 1..n |-> C(i)]
  BY DEF QueueOf, Holds
<1>3. ASSUME NEW i \in 1..n PROVE C(i) \in Calls /\ Holds(C(i), k, served[k] + i - 1)
  <2>1. served[k] + i - 1 \in Nat /\ served[k] <= served[k] + i - 1 /\ served[k] + i - 1 < issued[k]
    BY <1>1
  <2>2. \E c \in Calls : Holds(c, k, served[k] + i - 1)
    BY <2>1 DEF QueueInv, Turns
  <2>3. QED
    BY <2>2
<1>4. ASSUME NEW i \in 1..n, NEW c \in Calls, Holds(c, k, served[k] + i - 1) PROVE c = C(i)
  BY <1>3, <1>4 DEF QueueInv, ChainInv, Chain, Holds
<1> HIDE DEF n, C
<1>5. QueueOf(k) \in Seq(Calls) /\ Len(QueueOf(k)) = n
  BY <1>1, <1>2, <1>3
<1>6. \A i \in 1..n : QueueOf(k)[i] = C(i)
  BY <1>2
<1>7. QED
  BY <1>3, <1>4, <1>5, <1>6 DEF n

\* Two sequences with the same elements are the same.
LEMMA SameSequence ==
  ASSUME NEW S, NEW q \in Seq(S), NEW r \in Seq(S), Len(q) = Len(r),
         \A i \in 1..Len(q) : q[i] = r[i]
  PROVE  q = r
  OBVIOUS

\* Where the elements of a sequence are after Append and after Tail.
LEMMA Shifts ==
  ASSUME NEW S, NEW q \in Seq(S), NEW x \in S
  PROVE  /\ \A i \in 1..Len(q) : Append(q, x)[i] = q[i]
         /\ q # << >> => \A i \in 1..(Len(q) - 1) : Tail(q)[i] = q[i + 1]
  OBVIOUS

LEMMA QueueElementsNext == QueueInv' => Ordered'
  BY QueueElements, PTL

\* What a refinement step needs of the state before it and of the state after it.
Before(e) ==
  /\ QueueInv /\ Ordered /\ e \in Calls /\ KeyOf[e] \in Keys
  /\ \A k \in Keys : issued[k] \in Nat /\ served[k] \in Nat /\ issued[k] - served[k] \in Nat

LEMMA BeforeStep ==
  ASSUME QueueInv, NEW e \in Calls, Ask(e) \/ Enter(e) \/ Leave(e)
  PROVE  /\ Before(e) /\ Ordered' /\ QueueInv'
         /\ \A k \in Keys : issued'[k] \in Nat /\ served'[k] \in Nat
<1>1. Before(e)
  BY QueueElements, KeyOfAssumption DEF Before, QueueInv, ChainInv, TypeOK, Turns
<1>2. QueueInv'
  BY QueueStep DEF Next
<1>3. QED
  BY <1>1, <1>2, QueueElementsNext DEF QueueInv, ChainInv, TypeOK

\* A key whose calls, issued tickets and served tickets stay as they are keeps
\* its queue.
LEMMA QueueKept ==
  ASSUME Ordered, Ordered', NEW k \in Keys, issued[k] - served[k] \in Nat,
         issued'[k] = issued[k], served'[k] = served[k],
         \A c \in Calls, n \in Nat : Holds(c, k, n) => Holds(c, k, n)',
         served[k] \in Nat
  PROVE  QueueOf(k)' = QueueOf(k)
<1> DEFINE q == QueueOf(k)  r == QueueOf(k)'
<1>1. q \in Seq(Calls) /\ r \in Seq(Calls) /\ Len(q) = Len(r) /\ Len(q) = issued[k] - served[k]
  BY DEF Ordered
<1>2. ASSUME NEW i \in 1..Len(q) PROVE q[i] = r[i]
  <2>1. PICK c \in Calls, n \in Nat : c = q[i] /\ n = served[k] + i - 1
    BY <1>1
  <2>2. Holds(c, k, n)
    BY <1>1, <2>1 DEF Ordered
  <2>3. Holds(c, k, n)'
    BY <2>2
  <2>4. i \in 1..(issued'[k] - served'[k]) /\ n = served'[k] + i - 1
    BY <1>1, <2>1
  <2>5. c = r[i]
    BY <2>3, <2>4 DEF Ordered
  <2>6. QED
    BY <2>1, <2>5
<1>3. QED
  BY <1>1, <1>2, SameSequence

\* A call that asks for its key joins the end of the queue.
LEMMA AskAppends ==
  ASSUME QueueInv, NEW e \in Calls, Ask(e)
  PROVE  \A k \in Keys :
           QueueOf(k)' = IF k = KeyOf[e] THEN Append(QueueOf(k), e) ELSE QueueOf(k)
<1> DEFINE k0 == KeyOf[e]
<1>1. Before(e) /\ Ordered'
  BY BeforeStep
<1>2. /\ served' = served /\ issued'[k0] = issued[k0] + 1
      /\ \A k \in Keys : k # k0 => issued'[k] = issued[k]
      /\ phase[e] = "new" /\ phase'[e] = "waiting" /\ ticket'[e] = issued[k0]
      /\ \A c \in Calls : c # e => phase'[c] = phase[c] /\ ticket'[c] = ticket[c]
  BY <1>1 DEF Ask, Before, QueueInv, ChainInv, TypeOK
<1>3. \A c \in Calls, k \in Keys, n \in Nat : Holds(c, k, n) => Holds(c, k, n)'
  BY <1>2 DEF Holds, Active
<1>4. ASSUME NEW k \in Keys, k # k0 PROVE QueueOf(k)' = QueueOf(k)
  BY <1>1, <1>2, <1>3, <1>4, QueueKept DEF Before
<1>5. QueueOf(k0)' = Append(QueueOf(k0), e)
  <2> DEFINE q == QueueOf(k0)  r == QueueOf(k0)'
             n == issued[k0] - served[k0]
  <2>1. /\ n \in Nat /\ q \in Seq(Calls) /\ r \in Seq(Calls)
        /\ Len(q) = n /\ Len(r) = n + 1 /\ k0 \in Keys /\ served[k0] \in Nat
        /\ issued[k0] \in Nat
    BY <1>1, <1>2 DEF Before, Ordered
  <2>2. Append(q, e) \in Seq(Calls) /\ Len(Append(q, e)) = n + 1
    BY <2>1
  <2>3. ASSUME NEW i \in 1..(n + 1) PROVE r[i] = Append(q, e)[i]
    <3>1. PICK m \in Nat : m = served[k0] + i - 1
      BY <2>1
    <3>2. i \in 1..(issued'[k0] - served'[k0]) /\ m = served'[k0] + i - 1
      BY <1>2, <2>1, <3>1
    <3>3. \A c \in Calls : Holds(c, k0, m)' <=> c = r[i]
      BY <1>1, <2>1, <3>2 DEF Ordered
    <3>4. CASE i = n + 1
      <4>1. m = issued[k0]
        BY <2>1, <3>1, <3>4
      <4>2. Holds(e, k0, m)'
        BY <1>2, <4>1 DEF Holds, Active
      <4>3. e = r[i]
        BY <3>3, <4>2
      <4>4. QED
        BY <2>1, <3>4, <4>3
    <3>5. CASE i # n + 1
      <4>1. i \in 1..n
        BY <2>1, <3>5
      <4>2. PICK c \in Calls : c = q[i]
        BY <2>1, <4>1
      <4>3. Holds(c, k0, m)
        BY <1>1, <2>1, <3>1, <4>1, <4>2 DEF Before, Ordered
      <4>4. Holds(c, k0, m)'
        BY <1>3, <2>1, <4>3
      <4>5. c = r[i]
        BY <3>3, <4>4
      <4>6. QED
        <5>1. Append(q, e)[i] = q[i]
          BY <2>1, <4>1, Shifts
        <5>2. QED
          BY <4>2, <4>5, <5>1
    <3>6. QED
      BY <3>4, <3>5
  <2> HIDE DEF q, r, n
  <2>4. r = Append(q, e)
    BY <2>1, <2>2, <2>3, SameSequence
  <2>5. QED
    BY <2>4 DEF q, r
<1>6. QED
  BY <1>4, <1>5

\* A call that enters has reached the head of the queue, and stays there.
LEMMA EnterAtHead ==
  ASSUME QueueInv, NEW e \in Calls, Enter(e)
  PROVE  /\ Head(QueueOf(KeyOf[e])) = e
         /\ \A k \in Keys : QueueOf(k)' = QueueOf(k)
<1> DEFINE k0 == KeyOf[e]  q == QueueOf(k0)
<1>1. Before(e) /\ Ordered'
  BY BeforeStep
<1>2. /\ served' = served /\ issued' = issued /\ ticket' = ticket
      /\ phase[e] = "waiting" /\ phase' = [phase EXCEPT ![e] = "inside"]
      /\ PreviousSettled(e) /\ Active(e)
  BY DEF Enter, Active
<1>3. \A c \in Calls : Active(c)' <=> Active(c)
  BY <1>2 DEF Active, QueueInv, ChainInv, TypeOK
<1>4. \A c \in Calls, k \in Keys, n \in Nat : Holds(c, k, n) => Holds(c, k, n)'
  BY <1>2, <1>3 DEF Holds
<1>5. Holds(e, k0, served[k0]) /\ served[k0] < issued[k0]
  BY <1>2, InsideIsFirst DEF Holds, QueueInv, ChainInv, Chain
<1>6. q \in Seq(Calls) /\ Len(q) >= 1 /\ q[1] = e
  <2>1. issued[k0] - served[k0] >= 1 /\ served[k0] + 1 - 1 = served[k0] /\ k0 \in Keys
    BY <1>1, <1>5 DEF Before
  <2>2. QED
    BY <1>1, <1>5, <2>1 DEF Before, Ordered
<1>7. Head(q) = e
  BY <1>6
<1>8. ASSUME NEW k \in Keys PROVE QueueOf(k)' = QueueOf(k)
  BY <1>1, <1>2, <1>4, QueueKept DEF Before
<1>9. QED
  BY <1>7, <1>8

\* A call that leaves was the head of the queue.
LEMMA LeaveTail ==
  ASSUME QueueInv, NEW e \in Calls, Leave(e)
  PROVE  \A k \in Keys :
           QueueOf(k)' = IF k = KeyOf[e] THEN Tail(QueueOf(k)) ELSE QueueOf(k)
<1> DEFINE k0 == KeyOf[e]
<1>1. Before(e) /\ Ordered'
  BY BeforeStep
<1>2. /\ issued' = issued /\ ticket' = ticket /\ served'[k0] = served[k0] + 1
      /\ \A k \in Keys : k # k0 => served'[k] = served[k]
      /\ phase[e] = "inside" /\ phase' = [phase EXCEPT ![e] = "over"]
  BY <1>1 DEF Leave, Before, QueueInv, ChainInv, TypeOK
<1>3. \A c \in Calls : Active(c)' <=> Active(c) /\ c # e
  BY <1>2 DEF Active, QueueInv, ChainInv, TypeOK
<1>4. Active(e) /\ ticket[e] = served[k0] /\ served[k0] < issued[k0]
  <2>1. Active(e) /\ PreviousSettled(e)
    BY <1>2 DEF Active, QueueInv, ChainInv, Chain
  <2>2. QED
    BY <2>1, InsideIsFirst DEF QueueInv, ChainInv, Chain
<1>5. \A c \in Calls, k \in Keys, n \in Nat : c # e /\ Holds(c, k, n) => Holds(c, k, n)'
  BY <1>2, <1>3 DEF Holds
<1>6. ASSUME NEW k \in Keys, k # k0 PROVE QueueOf(k)' = QueueOf(k)
  <2>1. \A c \in Calls, n \in Nat : Holds(c, k, n) => Holds(c, k, n)'
    BY <1>5, <1>6 DEF Holds
  <2>2. QED
    BY <1>1, <1>2, <1>6, <2>1, QueueKept DEF Before
<1>7. QueueOf(k0)' = Tail(QueueOf(k0))
  <2> DEFINE q == QueueOf(k0)  r == QueueOf(k0)'
             n == issued[k0] - served[k0]
  <2>1. /\ n \in Nat /\ n >= 1 /\ q \in Seq(Calls) /\ r \in Seq(Calls)
        /\ Len(q) = n /\ k0 \in Keys /\ served[k0] \in Nat /\ issued[k0] \in Nat
    BY <1>1, <1>4 DEF Before, Ordered
  <2>2. issued'[k0] - served'[k0] = n - 1 /\ Len(r) = n - 1
    BY <1>1, <1>2, <2>1 DEF Ordered
  <2>3. Tail(q) \in Seq(Calls) /\ Len(Tail(q)) = n - 1
    BY <2>1
  <2>4. ASSUME NEW i \in 1..(n - 1) PROVE r[i] = Tail(q)[i]
    <3>1. PICK m \in Nat : m = served[k0] + i
      BY <2>1
    <3>2. i + 1 \in 1..n /\ m = served[k0] + (i + 1) - 1 /\ m # served[k0]
      BY <2>1, <3>1
    <3>3. i \in 1..(issued'[k0] - served'[k0]) /\ m = served'[k0] + i - 1
      BY <1>2, <2>1, <2>2, <3>1
    <3>4. PICK c \in Calls : c = q[i + 1]
      BY <2>1, <3>2
    <3>5. Holds(c, k0, m)
      BY <1>1, <2>1, <3>2, <3>4 DEF Before, Ordered
    <3>6. c # e
      BY <1>4, <3>2, <3>5 DEF Holds
    <3>7. Holds(c, k0, m)'
      BY <1>5, <2>1, <3>5, <3>6
    <3>8. c = r[i]
      BY <1>1, <2>1, <3>3, <3>7 DEF Ordered
    <3>9. QED
      <4>1. q # << >> /\ i \in 1..(Len(q) - 1)
        BY <2>1
      <4>2. Tail(q)[i] = q[i + 1]
        BY <2>1, <4>1, Shifts
      <4>3. QED
        BY <3>4, <3>8, <4>2
  <2> HIDE DEF q, r, n
  <2>5. r = Tail(q)
    BY <2>1, <2>2, <2>3, <2>4, SameSequence
  <2>6. QED
    BY <2>5 DEF q, r
<1>8. QED
  BY <1>6, <1>7

\* No call has been made: every queue is empty.
LEMMA RefinesInit == Init => Fifo!Init
<1> SUFFICES ASSUME Init PROVE Fifo!Init
  OBVIOUS
<1>1. ASSUME NEW k \in Keys PROVE QueueOf(k) = << >>
  <2>1. QueueOf(k) \in Seq(Calls) /\ Len(QueueOf(k)) = 0
    BY QueueInitially, QueueElements DEF Init, Ordered
  <2>2. QED
    BY <2>1
<1>2. QED
  BY <1>1 DEF Init, Fifo!Init

\* Every step of the chain is the same step of the abstract lock.
LEMMA RefinesStep == QueueInv /\ [Next]_vars => [Fifo!Next]_(Fifo!vars)
<1> SUFFICES ASSUME QueueInv, [Next]_vars PROVE [Fifo!Next]_(Fifo!vars)
  OBVIOUS
<1> DEFINE queues == [k \in Keys |-> QueueOf(k)]
<1>1. ASSUME NEW e \in Calls, Ask(e) PROVE Fifo!Ask(e)
  <2>1. KeyOf[e] \in Keys
    BY KeyOfAssumption
  <2>2. queues' = [queues EXCEPT ![KeyOf[e]] = Append(@, e)]
    BY <1>1, <2>1, AskAppends
  <2>3. QED
    BY <1>1, <2>2 DEF Ask, Fifo!Ask
<1>2. ASSUME NEW e \in Calls, Enter(e) PROVE Fifo!Enter(e)
  <2>1. KeyOf[e] \in Keys
    BY KeyOfAssumption
  <2>2. queues' = queues /\ Head(queues[KeyOf[e]]) = e
    BY <1>2, <2>1, EnterAtHead
  <2>3. QED
    BY <1>2, <2>2 DEF Enter, Fifo!Enter
<1>3. ASSUME NEW e \in Calls, Leave(e) PROVE Fifo!Leave(e)
  <2>1. KeyOf[e] \in Keys
    BY KeyOfAssumption
  <2>2. queues' = [queues EXCEPT ![KeyOf[e]] = Tail(@)]
    BY <1>3, <2>1, LeaveTail
  <2>3. QED
    BY <1>3, <2>2 DEF Leave, Fifo!Leave
<1>4. CASE UNCHANGED vars
  <2>1. queues' = queues
    BY <1>4 DEF vars, QueueOf, Active
  <2>2. QED
    BY <1>4, <2>1 DEF vars, Fifo!vars
<1>5. CASE Next
  <2>1. Fifo!Next
    BY <1>1, <1>2, <1>3, <1>5 DEF Next, Fifo!Next
  <2>2. QED
    BY <2>1
<1>6. QED
  BY <1>4, <1>5

\* The chain of promises implements the steps of the first-come-first-served
\* lock: calls of one key run one at a time in the order in which withLock was
\* called, though the entry of the key comes and goes and no queue is kept.
THEOREM ServedInOrder == Spec => Fifo!Init /\ [][Fifo!Next]_(Fifo!vars)
<1>1. Spec => []QueueInv
  BY QueueInitially, QueueStep, PTL DEF Spec
<1>2. QED
  BY <1>1, RefinesInit, RefinesStep, PTL DEF Spec

-----------------------------------------------------------------------------
(* No deadlock.                                                              *)

(* While a key has an entry, one call of it may enter or leave: the promises *)
(* never form a chain that nothing settles.                                  *)
NeverStuck ==
  \A k \in Keys : locks[k] # None =>
    \E c \in Calls : /\ KeyOf[c] = k /\ Free(c)
                     /\ \A d \in Calls : KeyOf[d] = k /\ Free(d) => d = c

\* Exactly one of the calls that wait for a key is free to run, the one with
\* the ticket that is to be served next: the calls of withLock on one key
\* cannot wait for each other.
THEOREM KeysNeverStuck == Spec => []NeverStuck
<1>1. QueueInv => NeverStuck
  <2> SUFFICES ASSUME QueueInv, NEW k \in Keys, locks[k] # None
               PROVE  \E c \in Calls : /\ KeyOf[c] = k /\ Free(c)
                                       /\ \A d \in Calls : KeyOf[d] = k /\ Free(d) => d = c
    BY DEF NeverStuck
  <2>1. PICK e \in Calls : KeyOf[e] = k /\ Active(e)
    BY DEF QueueInv, ChainInv, TypeOK, Chain
  <2>2. /\ served[k] \in Nat /\ issued[k] \in Nat /\ ticket[e] \in Nat
        /\ served[k] <= ticket[e] /\ ticket[e] < issued[k]
    BY <2>1 DEF QueueInv, ChainInv, TypeOK, Chain, Turns
  <2>3. served[k] < issued[k]
    BY <2>2
  <2>4. PICK c \in Calls : Holds(c, k, served[k])
    BY <2>2, <2>3 DEF QueueInv, Turns
  <2>5. PreviousSettled(c)
    <3> SUFFICES ASSUME ~PreviousSettled(c) PROVE FALSE
      OBVIOUS
    <3>1. previous[c] \in Calls
      BY DEF PreviousSettled, QueueInv, ChainInv, TypeOK
    <3>2. /\ Active(previous[c]) /\ KeyOf[previous[c]] = k
          /\ ticket[c] = ticket[previous[c]] + 1
      BY <2>4 DEF Holds, QueueInv, ChainInv, Chain
    <3>3. ticket[previous[c]] \in Nat /\ served[k] <= ticket[previous[c]]
      BY <3>1, <3>2 DEF QueueInv, ChainInv, TypeOK, Turns
    <3>4. QED
      BY <2>2, <2>4, <3>2, <3>3 DEF Holds
  <2>6. ASSUME NEW d \in Calls, KeyOf[d] = k, Free(d) PROVE d = c
    <3>1. ticket[d] = ticket[c]
      BY <2>4, <2>6, InsideIsFirst DEF Free, Holds
    <3>2. QED
      BY <2>4, <2>6, <3>1 DEF Free, Holds, QueueInv, ChainInv, Chain
  <2>7. QED
    BY <2>4, <2>5, <2>6 DEF Free, Holds
<1>2. Spec => []QueueInv
  BY QueueInitially, QueueStep, PTL DEF Spec
<1>3. QED
  BY <1>1, <1>2, PTL

=============================================================================
