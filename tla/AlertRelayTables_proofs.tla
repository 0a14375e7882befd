----------------------- MODULE AlertRelayTables_proofs -----------------------
(* Proofs about the tables of AlertRelay, for every value of its constants:   *)
(* the map of windows and the cache of idempotency keys stay within their     *)
(* limit and agree with their order of insertion; the sweep closes no window  *)
(* early; what is accepted is counted once, and kept by a deploy; nobody is   *)
(* muted untold but for what the state file forgets; the restart recap covers *)
(* all that is held back; the two locks never deadlock.  They rest on what    *)
(* filtering such a table does, which is proved first, by induction over its  *)
(* length.                                                                    *)
EXTENDS AlertRelay_proofs, FiniteSetTheorems, WellFoundedInduction

-----------------------------------------------------------------------------
(* Filtering a sequence.                                                     *)

\* A set of naturals has a least element: the form of induction that first-order
\* provers can use.
LEMMA LeastNatural == ASSUME NEW T, T \subseteq Nat, T # {} PROVE \E x \in T : \A y \in T : x <= y
<1>1. PICK x \in T : \A y \in T : ~(<<y, x>> \in OpToRel(<, Nat))
  BY NatLessThanWellFounded, WFMin
<1>2. \A y \in T : ~(y < x)
  BY <1>1 DEF OpToRel
<1>3. \A y \in T : x \in Nat /\ y \in Nat
  OBVIOUS
<1>4. \A y \in T : x <= y
  BY <1>2, <1>3
<1> QED
  BY <1>4

\* So what holds of 0 and is handed on from each number to the next holds up to n.
LEMMA InductionUpTo ==
  ASSUME NEW n \in Nat, NEW T, 0 \in T, \A i \in 0..n : i \in T /\ i < n => i + 1 \in T
  PROVE  \A i \in 0..n : i \in T
<1>1. SUFFICES ASSUME (0..n) \ T # {} PROVE FALSE
  OBVIOUS
<1>2. PICK x \in (0..n) \ T : \A y \in (0..n) \ T : x <= y
  <2>1. (0..n) \ T \subseteq Nat
    OBVIOUS
  <2> QED BY <1>1, <2>1, LeastNatural
<1>3. x \in Nat /\ x # 0 /\ x - 1 \in 0..n /\ ~(x <= x - 1) /\ x - 1 < n /\ (x - 1) + 1 = x
  BY <1>2
<1>4. x - 1 \in T
  BY <1>2, <1>3
<1> QED
  BY <1>3, <1>4, <1>2

\* f is the function that Filter defines by recursion, up to n.
KeptOf(s, T, n, f) ==
  f = [i \in 0..n |-> IF i = 0 THEN <<>> ELSE IF s[i] \in T THEN Append(f[i-1], s[i]) ELSE f[i-1]]

\* There is one, so the recursion defines something.
LEMMA KeptExists == ASSUME NEW s, NEW T, NEW n \in Nat PROVE \E f : KeptOf(s, T, n, f)
<1> DEFINE D == {m \in 0..n : \E f : KeptOf(s, T, m, f)}
<1>1. 0 \in D
  <2>1. KeptOf(s, T, 0, [i \in 0..0 |-> <<>>])
    BY DEF KeptOf
  <2> QED BY <2>1
<1>2. ASSUME NEW m \in 0..n, m \in D, m < n PROVE m + 1 \in D
  <2>1. PICK f : KeptOf(s, T, m, f)
    BY <1>2
  <2> DEFINE g == [i \in 0..(m+1) |-> IF i = m + 1 THEN (IF s[i] \in T THEN Append(f[m], s[i]) ELSE f[m]) ELSE f[i]]
  <2>2. ASSUME NEW i \in 0..(m+1) PROVE g[i] = IF i = 0 THEN <<>> ELSE IF s[i] \in T THEN Append(g[i-1], s[i]) ELSE g[i-1]
    <3>1. CASE i = m + 1
      <4>1. i # 0 /\ i - 1 = m /\ m \in 0..(m+1) /\ m # m + 1
        BY <3>1
      <4> QED BY <3>1, <4>1
    <3>2. CASE i # m + 1
      <4>1. i \in 0..m /\ (i # 0 => i - 1 \in 0..m /\ i - 1 # m + 1 /\ i - 1 \in 0..(m+1))
        BY <3>2, <1>2
      <4>2. f[i] = IF i = 0 THEN <<>> ELSE IF s[i] \in T THEN Append(f[i-1], s[i]) ELSE f[i-1]
        BY <2>1, <4>1 DEF KeptOf
      <4> QED BY <3>2, <4>1, <4>2
    <3> QED BY <3>1, <3>2
  <2>3. KeptOf(s, T, m + 1, g)
    BY <2>2 DEF KeptOf
  <2>4. m + 1 \in 0..n
    BY <1>2
  <2> QED BY <2>3, <2>4
<1> HIDE DEF D
<1>3. n \in D
  BY <1>1, <1>2, InductionUpTo
<1> QED BY <1>3 DEF D

\* A filter is its last value.
LEMMA FilterRec == ASSUME NEW s, NEW T, Len(s) \in Nat
  PROVE \E f : KeptOf(s, T, Len(s), f) /\ Filter(s, T) = f[Len(s)]
<1> DEFINE f == CHOOSE g : KeptOf(s, T, Len(s), g)
<1>1. KeptOf(s, T, Len(s), f)
  BY KeptExists
<1>2. Filter(s, T) = f[Len(s)]
  BY DEF Filter, KeptOf
<1> QED BY <1>1, <1>2

\* What the filter has kept after i elements.
KeptRight(s, T, i, r) ==
  /\ Len(r) <= i
  /\ \A j \in 1..Len(r) : \E k \in 1..i : r[j] = s[k] /\ s[k] \in T
  /\ \A k \in 1..i : s[k] \in T => \E j \in 1..Len(r) : r[j] = s[k]
  /\ (\A a, b \in 1..Len(s) : s[a] = s[b] => a = b) =>
        \A a, b \in 1..Len(r) : r[a] = r[b] => a = b
  /\ (\E k \in 1..i : s[k] \notin T) => Len(r) < i

\* One more element keeps that right.
LEMMA KeptStep ==
  ASSUME NEW S, NEW s \in Seq(S), NEW T, NEW i \in 0..Len(s), i < Len(s),
         NEW r \in Seq(S), KeptRight(s, T, i, r)
  PROVE  LET q == IF s[i+1] \in T THEN Append(r, s[i+1]) ELSE r
         IN q \in Seq(S) /\ KeptRight(s, T, i + 1, q)
<1> DEFINE e == s[i+1]
<1>1. /\ i \in Nat /\ i + 1 \in 1..Len(s) /\ e \in S /\ Len(s) \in Nat /\ Len(r) \in Nat
      /\ \A k \in 1..(i+1) : k = i + 1 \/ k \in 1..i
      /\ \A k \in 1..i : k \in 1..(i+1) /\ k \in 1..Len(s) /\ k # i + 1
  OBVIOUS
<1>2. CASE e \in T
  <2> DEFINE q == Append(r, e)
  <2>1. /\ q \in Seq(S) /\ Len(q) = Len(r) + 1 /\ q[Len(r) + 1] = e
        /\ \A j \in 1..Len(r) : q[j] = r[j] /\ j \in 1..Len(q)
        /\ \A j \in 1..Len(q) : j = Len(r) + 1 \/ j \in 1..Len(r)
        /\ Len(r) + 1 \in 1..Len(q)
    BY <1>1
  <2> HIDE DEF q
  <2>2. Len(q) <= i + 1
    BY <1>1, <2>1 DEF KeptRight
  <2>3. \A j \in 1..Len(q) : \E k \in 1..(i+1) : q[j] = s[k] /\ s[k] \in T
    <3> SUFFICES ASSUME NEW j \in 1..Len(q) PROVE \E k \in 1..(i+1) : q[j] = s[k] /\ s[k] \in T
      OBVIOUS
    <3>1. CASE j = Len(r) + 1
      <4>1. i + 1 \in 1..(i+1) /\ q[j] = s[i+1] /\ s[i+1] \in T
        BY <3>1, <2>1, <1>1, <1>2
      <4> QED BY <4>1
    <3>2. CASE j \in 1..Len(r)
      <4>1. PICK k \in 1..i : r[j] = s[k] /\ s[k] \in T
        BY <3>2 DEF KeptRight
      <4> QED BY <4>1, <3>2, <2>1, <1>1
    <3> QED BY <3>1, <3>2, <2>1
  <2>4. \A k \in 1..(i+1) : s[k] \in T => \E j \in 1..Len(q) : q[j] = s[k]
    <3> SUFFICES ASSUME NEW k \in 1..(i+1), s[k] \in T PROVE \E j \in 1..Len(q) : q[j] = s[k]
      OBVIOUS
    <3>1. CASE k = i + 1
      BY <3>1, <2>1
    <3>2. CASE k \in 1..i
      <4>1. PICK j \in 1..Len(r) : r[j] = s[k]
        BY <3>2 DEF KeptRight
      <4> QED BY <4>1, <2>1
    <3> QED BY <3>1, <3>2, <1>1
  <2>5. ASSUME \A a, b \in 1..Len(s) : s[a] = s[b] => a = b, NEW a \in 1..Len(q), NEW b \in 1..Len(q), q[a] = q[b]
        PROVE a = b
    <3>1. \A x \in 1..Len(r) : q[x] # e
      <4> SUFFICES ASSUME NEW x \in 1..Len(r), q[x] = e PROVE FALSE
        OBVIOUS
      <4>1. PICK k \in 1..i : r[x] = s[k]
        BY DEF KeptRight
      <4>2. s[k] = s[i+1] /\ k \in 1..Len(s) /\ i + 1 \in 1..Len(s) /\ k # i + 1
        BY <4>1, <2>1, <1>1
      <4> QED BY <4>2, <2>5
    <3>2. \A x, y \in 1..Len(r) : r[x] = r[y] => x = y
      BY <2>5 DEF KeptRight
    <3> QED BY <3>1, <3>2, <2>1, <2>5
  <2>6. (\E k \in 1..(i+1) : s[k] \notin T) => Len(q) < i + 1
    <3> SUFFICES ASSUME NEW k \in 1..(i+1), s[k] \notin T PROVE Len(q) < i + 1
      OBVIOUS
    <3>1. k \in 1..i
      BY <1>1, <1>2
    <3>2. Len(r) < i
      BY <3>1 DEF KeptRight
    <3> QED BY <3>2, <2>1, <1>1
  <2>7. KeptRight(s, T, i + 1, q)
    BY <2>2, <2>3, <2>4, <2>5, <2>6 DEF KeptRight
  <2> QED BY <1>2, <2>1, <2>7 DEF q
<1>3. CASE e \notin T
  <2>1. Len(r) <= i /\ i <= i + 1 /\ Len(r) < i + 1
    BY <1>1 DEF KeptRight
  <2>2. \A j \in 1..Len(r) : \E k \in 1..(i+1) : r[j] = s[k] /\ s[k] \in T
    BY <1>1 DEF KeptRight
  <2>3. \A k \in 1..(i+1) : s[k] \in T => \E j \in 1..Len(r) : r[j] = s[k]
    BY <1>1, <1>3 DEF KeptRight
  <2>4. KeptRight(s, T, i + 1, r)
    BY <1>1, <2>1, <2>2, <2>3 DEF KeptRight
  <2> QED BY <1>3, <2>4
<1> QED BY <1>2, <1>3

\* The filter of a sequence is right about all of it, by induction over its length.
LEMMA FilterKeeps ==
  ASSUME NEW S, NEW s \in Seq(S), NEW T
  PROVE  Filter(s, T) \in Seq(S) /\ KeptRight(s, T, Len(s), Filter(s, T))
<1>1. PICK f : KeptOf(s, T, Len(s), f) /\ Filter(s, T) = f[Len(s)]
  BY FilterRec
<1> DEFINE D == {i \in 0..Len(s) : f[i] \in Seq(S) /\ KeptRight(s, T, i, f[i])}
<1>2. 0 \in D
  <2>1. f[0] = <<>> /\ 0 \in 0..Len(s)
    BY <1>1 DEF KeptOf
  <2>2. KeptRight(s, T, 0, <<>>)
    BY DEF KeptRight
  <2>3. f[0] \in Seq(S) /\ KeptRight(s, T, 0, f[0])
    BY <2>1, <2>2
  <2> QED BY <2>1, <2>3
<1>3. ASSUME NEW i \in 0..Len(s), i \in D, i < Len(s) PROVE i + 1 \in D
  <2>1. i + 1 \in 0..Len(s) /\ i + 1 # 0 /\ (i + 1) - 1 = i
    BY <1>3
  <2>2. f[i+1] = IF s[i+1] \in T THEN Append(f[i], s[i+1]) ELSE f[i]
    BY <1>1, <2>1 DEF KeptOf
  <2>3. f[i] \in Seq(S) /\ KeptRight(s, T, i, f[i])
    BY <1>3
  <2>4. f[i+1] \in Seq(S) /\ KeptRight(s, T, i + 1, f[i+1])
    BY <1>3, <2>2, <2>3, KeptStep
  <2> QED BY <2>1, <2>4
<1>4. Len(s) \in Nat /\ Len(s) \in 0..Len(s)
  OBVIOUS
<1> HIDE DEF D
<1>5. Len(s) \in D
  BY <1>2, <1>3, <1>4, InductionUpTo
<1> QED BY <1>1, <1>5 DEF D

\* What filtering a sequence returns, preserves and bounds.
LEMMA FilterFacts ==
  ASSUME NEW S, NEW s \in Seq(S), NEW T
  PROVE  /\ Filter(s, T) \in Seq(S)
         /\ Len(Filter(s, T)) <= Len(s)
         /\ ToSet(Filter(s, T)) = ToSet(s) \cap T
         /\ IsInjective(s) => IsInjective(Filter(s, T))
         /\ (\E x \in ToSet(s) : x \notin T) => Len(Filter(s, T)) < Len(s)
<1> DEFINE r == Filter(s, T)
<1>1. r \in Seq(S) /\ KeptRight(s, T, Len(s), r) /\ DOMAIN s = 1..Len(s) /\ DOMAIN r = 1..Len(r)
  BY FilterKeeps
<1> HIDE DEF r
<1>2. ToSet(r) = ToSet(s) \cap T
  <2>1. ASSUME NEW x \in ToSet(r) PROVE x \in ToSet(s) \cap T
    <3>1. PICK j \in 1..Len(r) : x = r[j]
      BY <1>1, <2>1 DEF ToSet
    <3>2. PICK k \in 1..Len(s) : r[j] = s[k] /\ s[k] \in T
      BY <1>1, <3>1 DEF KeptRight
    <3> QED BY <1>1, <3>1, <3>2 DEF ToSet
  <2>2. ASSUME NEW x \in ToSet(s) \cap T PROVE x \in ToSet(r)
    <3>1. PICK k \in 1..Len(s) : x = s[k]
      BY <1>1, <2>2 DEF ToSet
    <3>2. PICK j \in 1..Len(r) : r[j] = s[k]
      BY <1>1, <3>1 DEF KeptRight
    <3> QED BY <1>1, <3>1, <3>2 DEF ToSet
  <2> QED BY <2>1, <2>2
<1>3. IsInjective(s) => IsInjective(r)
  BY <1>1 DEF KeptRight, IsInjective
<1>4. (\E x \in ToSet(s) : x \notin T) => Len(r) < Len(s)
  BY <1>1 DEF KeptRight, ToSet
<1>5. Len(r) <= Len(s)
  BY <1>1 DEF KeptRight
<1> QED BY <1>1, <1>2, <1>3, <1>4, <1>5 DEF r

-----------------------------------------------------------------------------
(* The tables.                                                               *)

\* A window that has not escalated more often than it may.
GoodWindow == {w \in WindowType : w.escalations <= MaxEscalationsPerWindow}

\* A map of windows and the order of its entries agree, within the limit.
MapOrdered(ws, ord) ==
  /\ ws \in [Alerts -> GoodWindow]
  /\ ord \in Seq(Alerts) /\ IsInjective(ord)
  /\ ToSet(ord) = {a \in Alerts : ws[a].open}
  /\ Len(ord) <= MaxCacheEntries

EntryType == [key : Keys, expires : Nat]

\* The cache of idempotency keys, within the limit.
CacheKept == idempotencyKeys \in Seq(EntryType) /\ Len(idempotencyKeys) <= MaxCacheEntries

DiskType ==
  [saved : BOOLEAN, windows : [Alerts -> GoodWindow], order : Seq(Alerts),
   daily : TallyType, nextRecapAt : Nat, pendingRecap : PendingType]

\* What a process remembers across an await.
TodoType == [alert : Alerts, window : Deliveries \cup {Nobody}]
SeenType == [now : Nat, window : GoodWindow, batch : SUBSET Alerts, todo : Seq(TodoType)]

\* The constants.
LEMMA OptionsTyped ==
  /\ Day \in Nat \ {0} /\ CooldownMs \in Nat \ {0} /\ IdempotencyTtlMs \in Nat \ {0}
  /\ MaxCacheEntries \in Nat \ {0} /\ MaxFlushAttempts \in Nat \ {0}
  /\ RestartGraceMs \in Nat /\ EscalationMultiplier \in Nat /\ MaxEscalationsPerWindow \in Nat
  /\ MaxTime \in Nat /\ MaxFailures \in Nat /\ MaxRestarts \in Nat
  /\ StateFile \in BOOLEAN /\ Crashes \in BOOLEAN
  BY OptionsAssumption

\* What a payload is about.
LEMMA PayloadTyped ==
  ASSUME NEW d \in Deliveries
  PROVE  /\ d \in Procs /\ d \notin Sweeps
         /\ KeyOf(d) \in Keys /\ EventOf(d) \in Alerts /\ EventOf(d) = AlertOf[KeyOf(d)]
         /\ EvalOf[KeyOf(d)] \in Evals /\ LinesOf[KeyOf(d)] \in Nat \ {0}
  BY PayloadAssumption DEF Procs, KeyOf, EventOf

\* No window is a window, and so is a new one; a window expires in the future.
LEMMA NoWindowGood == NoWindow \in GoodWindow /\ ~NoWindow.open
  BY OptionsTyped DEF NoWindow, GoodWindow, WindowType

\* A window read back from the state file is the one written, no longer held back.
LEMMA SerializedGood ==
  ASSUME NEW w \in GoodWindow
  PROVE  /\ Serialized(w) \in GoodWindow
         /\ Serialized(w).open = w.open /\ Serialized(w).openedBy = w.openedBy
         /\ Serialized(w).expiresAt = w.expiresAt /\ Serialized(w).told = w.told
         /\ Serialized(w).deferred = FALSE
         /\ w.forgotten \/ w.deferred => Serialized(w).forgotten
<1>1. PICK f \in BOOLEAN : f = (w.forgotten \/ w.deferred)
  OBVIOUS
<1>2. Serialized(w) = [w EXCEPT !.deferred = FALSE, !.forgotten = f]
  BY <1>1 DEF Serialized
<1>3. w \in WindowType /\ w.escalations <= MaxEscalationsPerWindow
  BY DEF GoodWindow
<1>4. QED
  BY <1>1, <1>2, <1>3 DEF GoodWindow, WindowType

LEMMA ExpiryTyped ==
  ASSUME nextRecapAt \in Nat, NEW now \in Nat
  PROVE  WindowExpiry(now) \in Nat
<1>1. Day \in Nat \ {0} /\ CooldownMs \in Nat
  BY OptionsTyped
<1> DEFINE wait == now + CooldownMs - nextRecapAt
<1>2. wait \in Int
  BY <1>1
<1>3. CASE wait <= 0
  BY <1>3 DEF WindowExpiry
<1>4. CASE ~(wait <= 0)
  <2>1. wait + Day - 1 \in Nat
    BY <1>1, <1>2, <1>4
  <2>2. (wait + Day - 1) \div Day \in Nat
    BY <1>1, <2>1
  <2>3. Day * ((wait + Day - 1) \div Day) \in Nat
    BY <1>1, <2>2
  <2>4. nextRecapAt + Day * ((wait + Day - 1) \div Day) \in Nat
    BY <2>3
  <2>5. QED
    BY <1>4, <2>4 DEF WindowExpiry
<1>5. QED
  BY <1>3, <1>4

LEMMA OpenWindowGood ==
  ASSUME NEW d \in Deliveries, NEW now \in Nat, NEW deferred \in BOOLEAN, nextRecapAt \in Nat
  PROVE  LET w == OpenWindow(d, now, deferred)
         IN w \in GoodWindow /\ w.open /\ w.openedBy = d /\ w.told = FALSE
<1>1. LinesOf[KeyOf(d)] \in Nat /\ WindowExpiry(now) \in Nat /\ 0 <= MaxEscalationsPerWindow
  BY ExpiryTyped, PayloadTyped, OptionsTyped
<1>2. QED
  BY <1>1 DEF OpenWindow, GoodWindow, WindowType

\* A repetition changes the counts of a window and nothing else.
LEMMA AccumulatedGood ==
  ASSUME NEW w \in GoodWindow, NEW d \in Deliveries
  PROVE  LET v == Accumulated(w, KeyOf(d))
         IN /\ v \in GoodWindow /\ v.open = w.open /\ v.openedBy = w.openedBy
            /\ v.expiresAt = w.expiresAt /\ v.escalations = w.escalations
  BY PayloadTyped DEF Accumulated, GoodWindow, WindowType

\* Taking an entry out of the order.
LEMMA WithoutFacts ==
  ASSUME NEW ord \in Seq(Alerts), IsInjective(ord), NEW a \in Alerts
  PROVE  /\ Without(ord, a) \in Seq(Alerts) /\ IsInjective(Without(ord, a))
         /\ ToSet(Without(ord, a)) = ToSet(ord) \ {a}
         /\ Len(Without(ord, a)) <= Len(ord)
         /\ a \in ToSet(ord) => Len(Without(ord, a)) < Len(ord)
<1>1. ToSet(ord) \subseteq Alerts
  BY DEF ToSet
<1>2. QED
  BY <1>1, FilterFacts DEF Without

\* Adding one at the end.
LEMMA AppendFacts ==
  ASSUME NEW ord \in Seq(Alerts), IsInjective(ord), NEW a \in Alerts, a \notin ToSet(ord)
  PROVE  /\ Append(ord, a) \in Seq(Alerts) /\ IsInjective(Append(ord, a))
         /\ ToSet(Append(ord, a)) = ToSet(ord) \cup {a}
         /\ Len(Append(ord, a)) = Len(ord) + 1
<1> DEFINE q == Append(ord, a)
<1>1. /\ q \in Seq(Alerts) /\ Len(q) = Len(ord) + 1 /\ Len(ord) \in Nat
      /\ DOMAIN q = 1..(Len(ord) + 1) /\ DOMAIN ord = 1..Len(ord)
      /\ q[Len(ord) + 1] = a /\ \A i \in 1..Len(ord) : q[i] = ord[i]
      /\ \A i \in 1..(Len(ord) + 1) : i \in 1..Len(ord) \/ i = Len(ord) + 1
  OBVIOUS
<1> HIDE DEF q
<1>2. \A i \in 1..Len(ord) : ord[i] # a
  BY <1>1 DEF ToSet
<1>3. IsInjective(q)
  BY <1>1, <1>2 DEF IsInjective
<1>4. \A x : x \in ToSet(q) <=> x \in ToSet(ord) \cup {a}
  <2>1. ASSUME NEW x \in ToSet(q) PROVE x \in ToSet(ord) \cup {a}
    BY <1>1, <2>1 DEF ToSet
  <2>2. ASSUME NEW x \in ToSet(ord) PROVE x \in ToSet(q)
    <3>1. PICK i \in 1..Len(ord) : x = ord[i]
      BY <1>1, <2>2 DEF ToSet
    <3>2. i \in DOMAIN q /\ q[i] = x
      BY <1>1, <3>1
    <3>3. QED
      BY <3>2 DEF ToSet
  <2>3. a \in ToSet(q)
    <3>1. Len(ord) + 1 \in DOMAIN q
      BY <1>1
    <3>2. QED
      BY <1>1, <3>1 DEF ToSet
  <2>4. QED
    BY <2>1, <2>2, <2>3
<1>5. QED
  BY <1>1, <1>3, <1>4 DEF q

\* The window that makes room is one of the map.
LEMMA EvictedInMap ==
  ASSUME NEW ws, NEW ord \in Seq(Alerts), ord # <<>>, NEW now
  PROVE  Evicted(ws, ord, now) \in ToSet(ord)
<1> DEFINE spent == Filter(ord, {a \in Alerts : ws[a].expiresAt <= now /\ ~ws[a].repeated})
<1>1. spent \in Seq(Alerts) /\ ToSet(spent) \subseteq ToSet(ord)
  BY FilterFacts
<1> HIDE DEF spent
<1>2. \A q \in Seq(Alerts) : q # <<>> => Head(q) \in ToSet(q)
  <2> SUFFICES ASSUME NEW q \in Seq(Alerts), q # <<>> PROVE Head(q) \in ToSet(q)
    OBVIOUS
  <2>1. 1 \in DOMAIN q /\ Head(q) = q[1]
    OBVIOUS
  <2>2. QED
    BY <2>1 DEF ToSet
<1>3. Evicted(ws, ord, now) = IF spent # <<>> THEN Head(spent) ELSE Head(ord)
  BY DEF Evicted, spent
<1>4. QED
  BY <1>1, <1>2, <1>3

\* Setting a window keeps the map within its limit, and in step with its order,
\* whichever window makes room.
LEMMA SetWindowOrdered ==
  ASSUME MapOrdered(windows, order), NEW a \in Alerts, NEW w \in GoodWindow, w.open, NEW now,
         SetWindow(a, w, now)
  PROVE  MapOrdered(windows', order')
<1> DEFINE ws == [windows EXCEPT ![a] = w]
           ord == Append(Without(order, a), a)
           out == Evicted(ws, ord, now)
<1>1. /\ Without(order, a) \in Seq(Alerts) /\ IsInjective(Without(order, a))
      /\ ToSet(Without(order, a)) = ToSet(order) \ {a}
      /\ Len(Without(order, a)) <= Len(order)
  BY WithoutFacts DEF MapOrdered
<1>2. /\ ord \in Seq(Alerts) /\ IsInjective(ord)
      /\ ToSet(ord) = ToSet(order) \cup {a}
      /\ Len(ord) = Len(Without(order, a)) + 1
  BY <1>1, AppendFacts
<1>3. /\ ws \in [Alerts -> GoodWindow]
      /\ \A b \in Alerts : ws[b] = IF b = a THEN w ELSE windows[b]
  BY DEF MapOrdered
<1>4. ToSet(ord) = {b \in Alerts : ws[b].open}
  BY <1>2, <1>3 DEF MapOrdered
<1>5. /\ Len(order) \in Nat /\ Len(order) <= MaxCacheEntries /\ Len(Without(order, a)) \in Nat
      /\ MaxCacheEntries \in Nat
  BY <1>1, OptionsTyped DEF MapOrdered
<1>6. IF Len(ord) <= MaxCacheEntries
        THEN windows' = ws /\ order' = ord
        ELSE windows' = [ws EXCEPT ![out] = NoWindow] /\ order' = Without(ord, out)
  BY DEF SetWindow
<1>7. out \in ToSet(ord) /\ out \in Alerts
  <2>1. ord # <<>>
    <3> HIDE DEF ord
    <3>1. Len(ord) # 0
      BY <1>2, <1>5
    <3>2. QED
      BY <3>1
  <2>2. out \in ToSet(ord)
    BY <1>2, <2>1, EvictedInMap
  <2>3. QED
    BY <1>4, <2>2
<1> HIDE DEF ws, ord, out
<1>8. CASE Len(ord) <= MaxCacheEntries
  BY <1>2, <1>3, <1>4, <1>6, <1>8 DEF MapOrdered
<1>9. CASE ~(Len(ord) <= MaxCacheEntries)
  <2>1. windows' = [ws EXCEPT ![out] = NoWindow] /\ order' = Without(ord, out)
    BY <1>6, <1>9
  <2>2. /\ order' \in Seq(Alerts) /\ IsInjective(order') /\ ToSet(order') = ToSet(ord) \ {out}
        /\ Len(order') < Len(ord)
    BY <1>2, <1>7, <2>1, WithoutFacts
  <2>3. /\ windows' \in [Alerts -> GoodWindow]
        /\ \A b \in Alerts : windows'[b] = IF b = out THEN NoWindow ELSE ws[b]
    BY <1>3, <2>1, NoWindowGood
  <2>4. ToSet(order') = {b \in Alerts : windows'[b].open}
    BY <1>4, <1>7, <2>2, <2>3, NoWindowGood
  <2>5. Len(order') <= MaxCacheEntries
    <3>1. Len(order') \in Nat /\ Len(ord) \in Nat
      BY <1>2, <2>2
    <3>2. QED
      BY <1>1, <1>2, <1>5, <2>2, <3>1
  <2>6. QED
    BY <2>2, <2>3, <2>4, <2>5 DEF MapOrdered
<1>10. QED
  BY <1>8, <1>9

\* Closing a window takes it out of the order.
LEMMA ClosedOrdered ==
  ASSUME MapOrdered(windows, order), NEW a \in Alerts, windows' = Closed(a),
         order' = Without(order, a)
  PROVE  MapOrdered(windows', order')
<1>1. /\ order' \in Seq(Alerts) /\ IsInjective(order') /\ ToSet(order') = ToSet(order) \ {a}
      /\ Len(order') <= Len(order)
  BY WithoutFacts DEF MapOrdered
<1>2. /\ windows' \in [Alerts -> GoodWindow]
      /\ \A b \in Alerts : windows'[b] = IF b = a THEN NoWindow ELSE windows[b]
  BY NoWindowGood DEF MapOrdered, Closed
<1>3. ToSet(order') = {b \in Alerts : windows'[b].open}
  BY <1>1, <1>2, NoWindowGood DEF MapOrdered
<1>4. Len(order') <= MaxCacheEntries
  BY <1>1, OptionsTyped DEF MapOrdered
<1>5. QED
  BY <1>1, <1>2, <1>3, <1>4 DEF MapOrdered

\* Windows that change and stay open, or closed, keep their place.
LEMMA ChangedOrdered ==
  ASSUME MapOrdered(windows, order), windows' \in [Alerts -> GoodWindow],
         \A a \in Alerts : windows'[a].open = windows[a].open, order' = order
  PROVE  MapOrdered(windows', order')
  BY DEF MapOrdered

\* A part of a map: those windows that are kept, in their order.
LEMMA PartOrdered ==
  ASSUME NEW ws, NEW ord, MapOrdered(ws, ord), NEW K,
         NEW ks \in [Alerts -> GoodWindow],
         \A a \in Alerts : ks[a].open <=> ws[a].open /\ a \in K
  PROVE  MapOrdered(ks, Filter(ord, K))
<1>1. /\ Filter(ord, K) \in Seq(Alerts) /\ IsInjective(Filter(ord, K))
      /\ ToSet(Filter(ord, K)) = ToSet(ord) \cap K
      /\ Len(Filter(ord, K)) <= Len(ord) /\ Len(Filter(ord, K)) \in Nat /\ Len(ord) \in Nat
  BY FilterFacts DEF MapOrdered
<1>2. ToSet(Filter(ord, K)) = {a \in Alerts : ks[a].open}
  BY <1>1 DEF MapOrdered
<1>3. Len(Filter(ord, K)) <= MaxCacheEntries
  BY <1>1, OptionsTyped DEF MapOrdered
<1>4. QED
  BY <1>1, <1>2, <1>3 DEF MapOrdered

\* Remembering a key keeps the cache within its limit: a key that is known is
\* moved, and at the limit the expired entries go, or else the oldest one.
LEMMA RememberKept ==
  ASSUME CacheKept, NEW k \in Keys, NEW now \in Nat, Remember(k, now)
  PROVE  CacheKept'
<1> DEFINE cache == idempotencyKeys
           entry == [key |-> k, expires |-> now + IdempotencyTtlMs]
           others == Filter(cache, {e \in ToSet(cache) : e.key # k})
           expired == EvictExpired(cache, now)
           live == IF Len(cache) >= MaxCacheEntries THEN expired ELSE cache
           room == IF Len(others) < Len(cache) THEN others ELSE RoomFor(live)
<1>1. idempotencyKeys' = Append(room, entry)
  BY DEF Remember, CacheSet
<1>2. entry \in EntryType /\ MaxCacheEntries \in Nat \ {0}
  BY OptionsTyped DEF EntryType
<1>3. /\ others \in Seq(EntryType) /\ Len(others) <= Len(cache)
      /\ expired \in Seq(EntryType) /\ Len(expired) <= Len(cache)
  BY FilterFacts DEF CacheKept, EvictExpired
<1>4. /\ cache \in Seq(EntryType) /\ Len(cache) \in Nat /\ Len(cache) <= MaxCacheEntries
      /\ Len(others) \in Nat /\ Len(expired) \in Nat
  BY <1>3 DEF CacheKept
<1> HIDE DEF cache, others, expired, entry
<1>5. live \in Seq(EntryType) /\ Len(live) <= MaxCacheEntries /\ Len(live) \in Nat
  BY <1>2, <1>3, <1>4
<1> HIDE DEF live
<1>6. RoomFor(live) \in Seq(EntryType) /\ Len(RoomFor(live)) < MaxCacheEntries
  <2>1. CASE Len(live) >= MaxCacheEntries
    <3>1. live # <<>>
      BY <1>2, <1>5, <2>1
    <3>2. Tail(live) \in Seq(EntryType) /\ Len(Tail(live)) = Len(live) - 1
      BY <1>5, <3>1
    <3>3. QED
      BY <1>2, <1>5, <2>1, <3>2 DEF RoomFor
  <2>2. CASE ~(Len(live) >= MaxCacheEntries)
    BY <1>2, <1>5, <2>2 DEF RoomFor
  <2>3. QED
    BY <2>1, <2>2
<1>7. room \in Seq(EntryType) /\ Len(room) < MaxCacheEntries /\ Len(room) \in Nat
  BY <1>2, <1>3, <1>4, <1>6
<1> HIDE DEF room
<1>8. Append(room, entry) \in Seq(EntryType) /\ Len(Append(room, entry)) = Len(room) + 1
  BY <1>2, <1>7
<1>9. Len(Append(room, entry)) <= MaxCacheEntries
  BY <1>2, <1>7, <1>8
<1>10. QED
  BY <1>1, <1>8, <1>9 DEF CacheKept

-----------------------------------------------------------------------------
(* TypeOK is inductive with what processes hold across an await, and with    *)
(* the lock: a handler that escalates is the only one at its window.         *)

Instants == clock \in 0..MaxTime /\ startedAt \in Nat /\ nextRecapAt \in Nat

Recaps ==
  /\ daily \in TallyType /\ pendingRecap \in PendingType
  /\ recapAttempts \in 0..MaxFlushAttempts
  /\ recapInFlight \in BOOLEAN /\ restartRecapDone \in BOOLEAN

Saved == disk \in DiskType /\ MapOrdered(disk.windows, disk.order)

Queues == eventLocks \in [Alerts -> Seq(Procs)] /\ idemLocks \in [Keys -> Seq(Deliveries)]

\* A window that is being sent is that of its sender, and a sweep that waits for
\* a lock has the window it waits for on its list.
Memory ==
  /\ pc = [p \in Procs |-> pc[p]]
  /\ seen \in [Procs -> SeenType]
  /\ \A d \in Deliveries : pc[d] = "sending" =>
       seen[d].window.open /\ seen[d].window.openedBy = d
  /\ \A s \in Sweeps : pc[s] = "closing" => seen[s].todo # <<>>

\* A handler that is escalating has an escalation left.
Room ==
  \A d \in Deliveries : pc[d] = "escalating" /\ windows[EventOf(d)].open =>
    windows[EventOf(d)].escalations < MaxEscalationsPerWindow

Tables == Instants /\ Recaps /\ Saved /\ Queues /\ Memory /\ Room
          /\ MapOrdered(windows, order) /\ CacheKept

\* The variables that most steps leave alone.
rest == <<clock, startedAt, nextRecapAt, recapAttempts, recapInFlight, restartRecapDone,
          pendingRecap, disk>>

LEMMA RestTyped ==
  ASSUME Tables, rest' = rest PROVE Instants' /\ Saved' /\ (daily' \in TallyType => Recaps')
  BY DEF Tables, rest, Instants, Saved, Recaps, MapOrdered

\* A process goes on with what it holds.
LEMMA MemoryGoesOn ==
  ASSUME Memory, NEW p \in Procs, NEW label, NEW r \in SeenType,
         pc' = [pc EXCEPT ![p] = label], seen' = [seen EXCEPT ![p] = r],
         p \in Deliveries /\ label = "sending" => r.window.open /\ r.window.openedBy = p,
         p \in Sweeps /\ label = "closing" => r.todo # <<>>
  PROVE  Memory'
<1>1. /\ pc' = [q \in Procs |-> pc'[q]]
      /\ \A q \in Procs : pc'[q] = IF q = p THEN label ELSE pc[q]
  BY DEF Memory
<1>2. /\ seen' \in [Procs -> SeenType]
      /\ \A q \in Procs : seen'[q] = IF q = p THEN r ELSE seen[q]
  BY DEF Memory
<1>3. \A d \in Deliveries : pc'[d] = "sending" =>
        seen'[d].window.open /\ seen'[d].window.openedBy = d
  BY <1>1, <1>2, PayloadTyped DEF Memory
<1>4. \A s \in Sweeps : pc'[s] = "closing" => seen'[s].todo # <<>>
  BY <1>1, <1>2 DEF Memory, Procs
<1>5. QED
  BY <1>1, <1>2, <1>3, <1>4 DEF Memory

\* The same, for a process that keeps what it holds.
LEMMA MemoryStays ==
  ASSUME Memory, NEW p \in Procs, NEW label, pc' = [pc EXCEPT ![p] = label], seen' = seen,
         ~(p \in Deliveries /\ label = "sending"), ~(p \in Sweeps /\ label = "closing")
  PROVE  Memory'
<1>1. seen[p] \in SeenType /\ seen' = [seen EXCEPT ![p] = seen[p]]
  BY DEF Memory
<1>2. QED
  BY <1>1, MemoryGoesOn

LEMMA BlankTyped == Blank \in SeenType
<1>1. <<>> \in Seq(TodoType) /\ NoWindow \in GoodWindow
  BY NoWindowGood
<1>2. QED
  BY <1>1 DEF Blank, SeenType

\* A handler that ends gives its locks back and holds nothing.
LEMMA AnswerTables ==
  ASSUME Tables, NEW d \in Deliveries, NEW label \in {"ok", "failed"}, Answer(d, label)
  PROVE  Memory' /\ Queues'
<1>1. /\ pc' = [pc EXCEPT ![d] = label] /\ seen' = [seen EXCEPT ![d] = Blank]
      /\ eventLocks' = [eventLocks EXCEPT ![EventOf(d)] = Released(@, d)]
      /\ idemLocks' = [idemLocks EXCEPT ![KeyOf(d)] = Released(@, d)]
  BY DEF Answer, Goto
<1>2. Memory'
  BY <1>1, PayloadTyped, BlankTyped, MemoryGoesOn DEF Tables
<1>3. \A q \in Seq(Deliveries) : Released(q, d) \in Seq(Deliveries)
  BY DEF Released, AtHead
<1>4. Queues'
  <2>1. eventLocks' \in [Alerts -> Seq(Procs)]
    BY <1>1, PayloadTyped, ReleaseKeepsHead DEF Tables, Queues
  <2>2. idemLocks' \in [Keys -> Seq(Deliveries)]
    BY <1>1, <1>3, PayloadTyped DEF Tables, Queues
  <2>3. QED
    BY <2>1, <2>2 DEF Queues
<1>5. QED
  BY <1>2, <1>4

\* Whoever is at the head of the queue of an alert is the only one that can be
\* escalating it.
LEMMA HeadAlone ==
  ASSUME LockInv, NEW a, NEW d, AtHead(eventLocks[a], d), NEW e \in Deliveries,
         pc[e] = "escalating", EventOf(e) = a
  PROVE  e = d
  BY DEF LockInv, SenderHolds, AtHead

\* No handler starts to escalate, and windows that are being escalated stay as
\* they are or go.
LEMMA RoomKept ==
  ASSUME Room,
         \A e \in Deliveries : pc'[e] = "escalating" =>
           /\ pc[e] = "escalating"
           /\ windows'[EventOf(e)].open =>
                /\ windows[EventOf(e)].open
                /\ windows'[EventOf(e)].escalations = windows[EventOf(e)].escalations
  PROVE  Room'
  BY DEF Room

\* Counting a delivery.
LEMMA CountedTyped ==
  ASSUME NEW tally \in TallyType, NEW d \in Deliveries, NEW added
  PROVE  Counted(tally, KeyOf(d), added) \in TallyType
  BY PayloadTyped DEF Counted, TallyType

\* A request arrives, or identifies itself.
LEMMA ArrivalTables ==
  ASSUME Tables, NEW d \in Deliveries, Receive(d) \/ Identify(d) PROVE Tables'
<1>1. /\ d \in Procs /\ KeyOf(d) \in Keys /\ EventOf(d) \in Alerts
      /\ clock \in Nat
  BY PayloadTyped, OptionsTyped DEF Tables, Instants
<1>2. rest' = rest /\ daily' = daily /\ windows' = windows /\ order' = order
  BY DEF Receive, Identify, rest, recapVars, startVars, windowVars
<1>3. MapOrdered(windows', order') /\ Instants' /\ Saved' /\ Recaps'
  BY <1>2, RestTyped DEF Tables, MapOrdered, Recaps
<1>4. CASE Receive(d)
  <2>1. /\ pc' = [pc EXCEPT ![d] = "idem"] /\ seen' = seen
        /\ idemLocks' = [idemLocks EXCEPT ![KeyOf(d)] = Append(@, d)]
        /\ eventLocks' = eventLocks /\ idempotencyKeys' = idempotencyKeys
    BY <1>4 DEF Receive, Goto
  <2>2. Memory' /\ Queues' /\ CacheKept'
    <3>1. Memory'
      BY <1>1, <2>1, MemoryStays, PayloadTyped DEF Tables
    <3>2. \A q \in Seq(Deliveries) : Append(q, d) \in Seq(Deliveries)
      OBVIOUS
    <3>3. Queues'
      BY <1>1, <2>1, <3>2 DEF Tables, Queues
    <3>4. QED
      BY <2>1, <3>1, <3>3 DEF Tables, CacheKept
  <2>3. \A e \in Deliveries : pc'[e] = "escalating" => pc[e] = "escalating"
    BY <1>1, <2>1 DEF Tables, Memory
  <2>4. Room'
    BY <1>2, <2>3, RoomKept DEF Tables
  <2>5. QED
    BY <1>3, <2>2, <2>4 DEF Tables
<1>5. CASE Identify(d) /\ Answer(d, "ok")
  <2>1. CacheKept'
    <3>1. CASE idempotencyKeys' = idempotencyKeys
      BY <3>1 DEF Tables, CacheKept
    <3>2. CASE Remember(KeyOf(d), clock)
      BY <1>1, <3>2, RememberKept DEF Tables
    <3>3. QED
      BY <1>5, <3>1, <3>2 DEF Identify
  <2>2. \A e \in Deliveries : pc'[e] = "escalating" => pc[e] = "escalating"
    BY <1>1, <1>5 DEF Answer, Goto, Tables, Memory
  <2>3. Room'
    BY <1>2, <2>2, RoomKept DEF Tables
  <2>4. QED
    BY <1>3, <1>5, <2>1, <2>3, AnswerTables DEF Tables
<1>6. CASE Identify(d) /\ ~Answer(d, "ok")
  <2> DEFINE r == [seen[d] EXCEPT !.now = clock]
  <2>1. /\ pc' = [pc EXCEPT ![d] = "event"] /\ seen' = [seen EXCEPT ![d] = r]
        /\ eventLocks' = [eventLocks EXCEPT ![EventOf(d)] = Append(@, d)]
        /\ idemLocks' = idemLocks /\ idempotencyKeys' = idempotencyKeys
    BY <1>6 DEF Identify, Goto
  <2>2. r \in SeenType
    BY <1>1 DEF Tables, Memory, SeenType
  <2> HIDE DEF r
  <2>3. Memory'
    BY <1>1, <2>1, <2>2, MemoryGoesOn, PayloadTyped DEF Tables
  <2>4. Queues' /\ CacheKept'
    BY <1>1, <2>1 DEF Tables, Queues, CacheKept
  <2>5. \A e \in Deliveries : pc'[e] = "escalating" => pc[e] = "escalating"
    BY <1>1, <2>1 DEF Tables, Memory
  <2>6. Room'
    BY <1>2, <2>5, RoomKept DEF Tables
  <2>7. QED
    BY <1>3, <2>3, <2>4, <2>6 DEF Tables
<1>7. QED
  BY <1>4, <1>5, <1>6

\* What SetWindow does to windows other than the one it sets.
LEMMA SetWindowRoom ==
  ASSUME Tables, LockInv, NEW d \in Deliveries, AtHead(eventLocks[EventOf(d)], d),
         pc[d] # "escalating", NEW w, NEW now, SetWindow(EventOf(d), w, now),
         \A e \in Deliveries : pc'[e] = "escalating" => pc[e] = "escalating"
  PROVE  Room'
<1>1. \A b \in Alerts : windows'[b] = NoWindow \/ windows'[b] = IF b = EventOf(d) THEN w ELSE windows[b]
  BY SetWindowOthers, PayloadTyped DEF LockInv
<1>2. ASSUME NEW e \in Deliveries, pc'[e] = "escalating"
      PROVE  /\ pc[e] = "escalating"
             /\ windows'[EventOf(e)].open =>
                  /\ windows[EventOf(e)].open
                  /\ windows'[EventOf(e)].escalations = windows[EventOf(e)].escalations
  <2>1. pc[e] = "escalating" /\ EventOf(e) \in Alerts
    BY <1>2, PayloadTyped
  <2>2. EventOf(e) # EventOf(d)
    BY <2>1, HeadAlone
  <2>3. QED
    BY <1>1, <2>1, <2>2, NoWindowGood
<1>3. QED
  BY <1>2, RoomKept DEF Tables

\* An alert that is held back, announced or repeated.
LEMMA HandlerTables ==
  ASSUME Tables, LockInv, NEW d \in Deliveries, Defer(d) \/ Announce(d) \/ Repeat(d)
  PROVE  Tables'
<1> DEFINE a == EventOf(d)
<1>1. /\ d \in Procs /\ KeyOf(d) \in Keys /\ a \in Alerts
      /\ seen[d] \in SeenType /\ seen[d].now \in Nat /\ nextRecapAt \in Nat
  BY PayloadTyped DEF Tables, Instants, Memory, SeenType
<1>2. rest' = rest /\ AtHead(eventLocks[a], d) /\ pc[d] = "event"
  BY DEF Defer, Announce, Repeat, Opens, HoldsEvent, rest, recapVars, startVars
<1>3. daily' \in TallyType
  BY CountedTyped DEF Defer, Announce, Repeat, Tables, Recaps, recapVars
<1>4. Instants' /\ Saved' /\ Recaps'
  BY <1>2, <1>3, RestTyped
<1>5. \A e \in Deliveries : Answer(d, "ok") /\ pc'[e] = "escalating" => pc[e] = "escalating"
  BY <1>1 DEF Answer, Goto, Tables, Memory
<1>6. CASE Defer(d)
  <2> DEFINE w == OpenWindow(d, seen[d].now, TRUE)
  <2>1. SetWindow(a, w, seen[d].now) /\ Answer(d, "ok") /\ Remember(KeyOf(d), seen[d].now)
    BY <1>6 DEF Defer
  <2>2. w \in GoodWindow /\ w.open
    BY <1>1, OpenWindowGood
  <2> HIDE DEF w
  <2>3. MapOrdered(windows', order')
    BY <1>1, <2>1, <2>2, SetWindowOrdered DEF Tables
  <2>4. CacheKept'
    BY <1>1, <2>1, RememberKept DEF Tables
  <2>5. Room'
    BY <1>2, <1>5, <2>1, SetWindowRoom
  <2>6. QED
    BY <1>4, <2>1, <2>3, <2>4, <2>5, AnswerTables DEF Tables
<1>7. CASE Announce(d)
  <2> DEFINE w == OpenWindow(d, seen[d].now, FALSE)
             r == [seen[d] EXCEPT !.window = w]
  <2>1. /\ windows' = Closed(a) /\ order' = Without(order, a)
        /\ pc' = [pc EXCEPT ![d] = "sending"] /\ seen' = [seen EXCEPT ![d] = r]
        /\ idempotencyKeys' = idempotencyKeys /\ eventLocks' = eventLocks /\ idemLocks' = idemLocks
    BY <1>7 DEF Announce, Goto, lockVars
  <2>2. w \in GoodWindow /\ w.open /\ w.openedBy = d
    BY <1>1, OpenWindowGood
  <2> HIDE DEF w
  <2>3. r \in SeenType /\ r.window = w
    BY <1>1, <2>2 DEF SeenType
  <2> HIDE DEF r
  <2>4. Memory'
    BY <1>1, <2>1, <2>2, <2>3, MemoryGoesOn, PayloadTyped DEF Tables
  <2>5. MapOrdered(windows', order')
    BY <1>1, <2>1, ClosedOrdered DEF Tables
  <2>6. Queues' /\ CacheKept'
    BY <2>1 DEF Tables, Queues, CacheKept
  <2>7. \A b \in Alerts : windows'[b] = IF b = a THEN NoWindow ELSE windows[b]
    BY <2>1 DEF Closed, Tables, MapOrdered
  <2>8. \A e \in Deliveries : pc'[e] = "escalating" => pc[e] = "escalating"
    BY <1>1, <2>1 DEF Tables, Memory
  <2>9. Room'
    BY <2>7, <2>8, RoomKept, NoWindowGood, PayloadTyped DEF Tables
  <2>10. QED
    BY <1>4, <2>4, <2>5, <2>6, <2>9 DEF Tables
<1>8. CASE Repeat(d)
  <2> DEFINE w == Accumulated(windows[a], KeyOf(d))
  <2>1. /\ windows' = [windows EXCEPT ![a] = w] /\ order' = order
        /\ Remember(KeyOf(d), seen[d].now)
        /\ \/ /\ pc' = [pc EXCEPT ![d] = "escalating"] /\ seen' = seen
              /\ eventLocks' = eventLocks /\ idemLocks' = idemLocks
              /\ w.escalations < MaxEscalationsPerWindow
           \/ Answer(d, "ok")
    BY <1>8 DEF Repeat, Goto, ShouldEscalate, lockVars
  <2>2. /\ windows[a] \in GoodWindow
        /\ w \in GoodWindow /\ w.open = windows[a].open /\ w.escalations = windows[a].escalations
    BY <1>1, AccumulatedGood DEF Tables, MapOrdered
  <2> HIDE DEF w
  <2>3. /\ windows' \in [Alerts -> GoodWindow]
        /\ \A b \in Alerts : windows'[b] = IF b = a THEN w ELSE windows[b]
    BY <1>1, <2>1, <2>2 DEF Tables, MapOrdered
  <2>4. MapOrdered(windows', order')
    BY <2>1, <2>2, <2>3, ChangedOrdered DEF Tables
  <2>5. CacheKept'
    BY <1>1, <2>1, RememberKept DEF Tables
  <2>6. CASE Answer(d, "ok")
    <3>1. \A e \in Deliveries : pc'[e] = "escalating" =>
            /\ pc[e] = "escalating"
            /\ windows'[EventOf(e)].open = windows[EventOf(e)].open
            /\ windows'[EventOf(e)].escalations = windows[EventOf(e)].escalations
      BY <1>5, <2>2, <2>3, <2>6, PayloadTyped
    <3>2. Room'
      BY <3>1, RoomKept DEF Tables
    <3>3. QED
      BY <1>4, <2>4, <2>5, <2>6, <3>2, AnswerTables DEF Tables
  <2>7. CASE /\ pc' = [pc EXCEPT ![d] = "escalating"] /\ seen' = seen
             /\ eventLocks' = eventLocks /\ idemLocks' = idemLocks
             /\ w.escalations < MaxEscalationsPerWindow
    <3>1. Memory'
      BY <1>1, <2>7, MemoryStays, PayloadTyped DEF Tables
    <3>2. Queues'
      BY <2>7 DEF Tables, Queues
    <3>3. ASSUME NEW e \in Deliveries, pc'[e] = "escalating", windows'[EventOf(e)].open
          PROVE  windows'[EventOf(e)].escalations < MaxEscalationsPerWindow
      <4>1. CASE EventOf(e) = a
        BY <1>1, <2>3, <2>7, <4>1
      <4>2. CASE EventOf(e) # a
        <5>1. pc[e] = "escalating" /\ EventOf(e) \in Alerts
          BY <1>1, <2>7, <3>3, <4>2, PayloadTyped DEF Tables, Memory
        <5>2. windows'[EventOf(e)] = windows[EventOf(e)]
          BY <2>3, <4>2, <5>1
        <5>3. QED
          BY <3>3, <5>1, <5>2 DEF Tables, Room
      <4>3. QED
        BY <4>1, <4>2
    <3>4. Room'
      BY <3>3 DEF Room
    <3>5. QED
      BY <1>4, <2>4, <2>5, <3>1, <3>2, <3>4 DEF Tables
  <2>8. QED
    BY <2>1, <2>6, <2>7
<1>9. QED
  BY <1>6, <1>7, <1>8


\* The answer of a send: the window of a new alert is set, or an escalation is
\* counted, by the handler that holds the lock.
LEMMA AnswersTables ==
  ASSUME Tables, LockInv, NEW d \in Deliveries, NEW answer \in Answers,
         Announced(d, answer) \/ Escalated(d, answer)
  PROVE  Tables'
<1> DEFINE a == EventOf(d)
<1>1. /\ d \in Procs /\ KeyOf(d) \in Keys /\ a \in Alerts
      /\ seen[d] \in SeenType /\ seen[d].now \in Nat /\ seen[d].window \in GoodWindow
  BY PayloadTyped DEF Tables, Memory, SeenType
<1>2. rest' = rest /\ AtHead(eventLocks[a], d)
  BY DEF Announced, Escalated, rest, recapVars, startVars, LockInv, SenderHolds
<1>3. daily' \in TallyType
  BY CountedTyped DEF Announced, Escalated, Tables, Recaps, recapVars
<1>4. Instants' /\ Saved' /\ Recaps'
  BY <1>2, <1>3, RestTyped
<1>5. \E label \in {"ok", "failed"} : Answer(d, label)
  BY DEF Announced, Escalated
<1>6. Memory' /\ Queues'
  BY <1>5, AnswerTables
<1>7. \A e \in Deliveries : pc'[e] = "escalating" => pc[e] = "escalating" /\ e # d
  BY <1>1, <1>5 DEF Answer, Goto, Tables, Memory
<1>8. CASE Announced(d, answer) /\ Registered(answer)
  <2> DEFINE w == [seen[d].window EXCEPT !.told = Accepted(answer)]
  <2>1. /\ SetWindow(a, w, seen[d].now) /\ Remember(KeyOf(d), seen[d].now)
        /\ pc[d] = "sending"
    BY <1>8 DEF Announced
  <2>2. Accepted(answer) \in BOOLEAN
    BY DEF Accepted, Answers
  <2>3. w \in GoodWindow /\ w.open
    BY <1>1, <2>1, <2>2 DEF Tables, Memory, GoodWindow, WindowType
  <2> HIDE DEF w
  <2>4. MapOrdered(windows', order')
    BY <1>1, <2>1, <2>3, SetWindowOrdered DEF Tables
  <2>5. CacheKept'
    BY <1>1, <2>1, RememberKept DEF Tables
  <2>6. Room'
    BY <1>2, <1>7, <2>1, SetWindowRoom
  <2>7. QED
    BY <1>4, <1>6, <2>4, <2>5, <2>6 DEF Tables
<1>9. CASE Announced(d, answer) /\ ~Registered(answer)
  <2>1. windows' = windows /\ order' = order /\ idempotencyKeys' = idempotencyKeys
    BY <1>9 DEF Announced, windowVars
  <2>2. MapOrdered(windows', order') /\ CacheKept'
    BY <2>1 DEF Tables, MapOrdered, CacheKept
  <2>3. Room'
    BY <1>7, <2>1, RoomKept DEF Tables
  <2>4. QED
    BY <1>4, <1>6, <2>2, <2>3 DEF Tables
<1>10. CASE Escalated(d, answer)
  <2>1. /\ order' = order /\ idempotencyKeys' = idempotencyKeys /\ pc[d] = "escalating"
        /\ windows' = IF Accepted(answer) /\ windows[a].open
                        THEN [windows EXCEPT ![a].escalations = @ + 1] ELSE windows
    BY <1>10 DEF Escalated
  <2>2. windows[a] \in GoodWindow
        /\ (windows[a].open => windows[a].escalations < MaxEscalationsPerWindow)
    BY <1>1, <2>1 DEF Tables, Room, MapOrdered
  <2>3. /\ windows' \in [Alerts -> GoodWindow]
        /\ \A b \in Alerts : windows'[b].open = windows[b].open /\ (b # a => windows'[b] = windows[b])
    <3>1. CASE windows' = windows
      BY <3>1 DEF Tables, MapOrdered
    <3>2. CASE windows[a].open /\ windows' = [windows EXCEPT ![a].escalations = @ + 1]
      <4> DEFINE v == [windows[a] EXCEPT !.escalations = @ + 1]
      <4>1. MaxEscalationsPerWindow \in Nat /\ windows[a].escalations \in Nat
        BY <2>2, OptionsTyped DEF GoodWindow, WindowType
      <4>2. v \in GoodWindow /\ v.open = windows[a].open
        <5>1. windows[a].escalations + 1 \in Nat /\ windows[a].escalations + 1 <= MaxEscalationsPerWindow
          BY <2>2, <3>2, <4>1
        <5>2. \A w \in WindowType, n \in Nat :
                /\ [w EXCEPT !.escalations = n] \in WindowType
                /\ [w EXCEPT !.escalations = n].escalations = n
                /\ [w EXCEPT !.escalations = n].open = w.open
          BY DEF WindowType
        <5>3. QED
          BY <2>2, <5>1, <5>2 DEF GoodWindow
      <4>3. windows' = [windows EXCEPT ![a] = v]
        BY <3>2 DEF Tables, MapOrdered
      <4> HIDE DEF v
      <4>4. QED
        BY <1>1, <4>2, <4>3 DEF Tables, MapOrdered
    <3>3. QED
      BY <2>1, <3>1, <3>2
  <2>4. MapOrdered(windows', order')
    BY <2>1, <2>3, ChangedOrdered DEF Tables
  <2>5. CacheKept'
    BY <2>1 DEF Tables, CacheKept
  <2>6. Room'
    <3>1. ASSUME NEW e \in Deliveries, pc'[e] = "escalating"
          PROVE  pc[e] = "escalating" /\ windows'[EventOf(e)] = windows[EventOf(e)]
      <4>1. pc[e] = "escalating" /\ e # d /\ EventOf(e) \in Alerts
        BY <1>7, <3>1, PayloadTyped
      <4>2. EventOf(e) # a
        BY <1>2, <4>1, HeadAlone
      <4>3. QED
        BY <2>3, <4>1, <4>2
    <3>2. QED
      BY <3>1, RoomKept DEF Tables
  <2>7. QED
    BY <1>4, <1>6, <2>4, <2>5, <2>6 DEF Tables
<1>11. QED
  BY <1>8, <1>9, <1>10

\* A sweep goes on: it escalates nothing.
LEMMA SweepRoom ==
  ASSUME Tables, NEW s \in Sweeps, NEW label, pc' = [pc EXCEPT ![s] = label],
         \A b \in Alerts : windows'[b].open =>
           windows[b].open /\ windows'[b].escalations = windows[b].escalations
  PROVE  Room'
<1>1. \A e \in Deliveries : pc'[e] = pc[e] /\ EventOf(e) \in Alerts
  BY PayloadTyped DEF Tables, Memory
<1>2. QED
  BY <1>1, RoomKept DEF Tables

\* The tables while a sweep works on the recaps.
LEMMA RecapTables ==
  ASSUME Tables, NEW s \in Sweeps,
         \/ DailyIdle(s) \/ DailySwap(s) \/ DailyRetry(s)
         \/ \E answer \in Answers : DailySent(s, answer)
  PROVE  Tables'
<1>1. s \in Procs /\ s \notin Deliveries /\ seen[s].now \in Nat
  BY PayloadAssumption DEF Procs, Tables, Memory, SeenType
<1>2. /\ seen' = seen /\ windows' = windows /\ order' = order
      /\ idempotencyKeys' = idempotencyKeys /\ eventLocks' = eventLocks /\ idemLocks' = idemLocks
      /\ clock' = clock /\ startedAt' = startedAt /\ restartRecapDone' = restartRecapDone
      /\ disk' = disk
      /\ \E label \in {"persist", "dailyRecap"} : pc' = [pc EXCEPT ![s] = label]
  BY DEF DailyIdle, DailySwap, DailyRetry, DailySent, Goto, windowVars, lockVars, startVars
<1>3. Memory'
  BY <1>1, <1>2, MemoryStays DEF Tables
<1>4. Queues' /\ CacheKept' /\ Saved' /\ MapOrdered(windows', order')
  BY <1>2 DEF Tables, Queues, CacheKept, Saved, MapOrdered
<1>5. Room'
  BY <1>2, SweepRoom
<1>6. EmptyTally \in TallyType
  BY DEF EmptyTally, TallyType
<1>7. NoPending \in PendingType
  BY <1>6 DEF NoPending, PendingType
<1>8. Instants' /\ Recaps'
  <2>1. Day \in Nat \ {0} /\ MaxFlushAttempts \in Nat \ {0}
    BY OptionsTyped
  <2>2. CASE DailyIdle(s)
    BY <1>2, <2>2 DEF DailyIdle, recapVars, Tables, Instants, Recaps
  <2>3. CASE DailySwap(s)
    <3>1. NextRecapTime(seen[s].now) \in Nat
      <4>1. seen[s].now \div Day \in Nat
        BY <1>1, <2>1
      <4>2. ((seen[s].now \div Day) + 1) * Day \in Nat
        BY <2>1, <4>1
      <4>3. QED
        BY <4>2 DEF NextRecapTime
    <3>2. [held |-> TRUE, tally |-> daily, until |-> nextRecapAt] \in PendingType
      BY DEF Tables, Recaps, Instants, PendingType
    <3>3. /\ daily' = EmptyTally /\ nextRecapAt' = NextRecapTime(seen[s].now) /\ recapAttempts' = 0
          /\ \/ pendingRecap' = pendingRecap /\ recapInFlight' = recapInFlight
             \/ /\ pendingRecap' = [held |-> TRUE, tally |-> daily, until |-> nextRecapAt]
                /\ recapInFlight' = TRUE
      BY <2>3 DEF DailySwap
    <3>4. 0 \in 0..MaxFlushAttempts
      BY <2>1
    <3>5. pendingRecap' \in PendingType /\ recapInFlight' \in BOOLEAN
      BY <3>2, <3>3 DEF Tables, Recaps
    <3>6. QED
      BY <1>2, <1>6, <3>1, <3>3, <3>4, <3>5 DEF Tables, Recaps, Instants
  <2>4. CASE DailyRetry(s)
    <3>1. /\ daily' = daily /\ nextRecapAt' = nextRecapAt /\ recapAttempts' = recapAttempts
          /\ pendingRecap' = [pendingRecap EXCEPT !.tally = pendingRecap.tally]
          /\ recapInFlight' = TRUE
      BY <2>4 DEF DailyRetry, RetryTally
    <3>2. pendingRecap' \in PendingType
      BY <3>1 DEF Tables, Recaps, PendingType
    <3>3. QED
      BY <1>2, <3>1, <3>2 DEF Tables, Recaps, Instants
  <2>5. CASE \E answer \in Answers : DailySent(s, answer)
    <3>1. /\ daily' = daily /\ nextRecapAt' = nextRecapAt /\ recapInFlight' = FALSE
          /\ \/ pendingRecap' = NoPending /\ recapAttempts' = 0
             \/ /\ ~(recapAttempts + 1 >= MaxFlushAttempts)
                /\ recapAttempts' = recapAttempts + 1 /\ pendingRecap' = pendingRecap
      BY <2>5 DEF DailySent, TallyAfterRecap
    <3>2. recapAttempts' \in 0..MaxFlushAttempts
      BY <2>1, <3>1 DEF Tables, Recaps
    <3>3. QED
      BY <1>2, <1>7, <3>1, <3>2 DEF Tables, Recaps, Instants
  <2>6. QED
    BY <2>2, <2>3, <2>4, <2>5
<1>9. QED
  BY <1>3, <1>4, <1>5, <1>8 DEF Tables

\* The first steps of a sweep: it makes its list, with the restart recap before.
LEMMA StartTables ==
  ASSUME Tables, NEW s \in Sweeps,
         \/ SweepStart(s) \/ SweepScan(s)
         \/ \E answer \in Answers : RestartRecapSent(s, answer)
  PROVE  Tables'
<1>1. s \in Procs /\ s \notin Deliveries /\ seen[s] \in SeenType /\ clock \in Nat
  BY PayloadAssumption, OptionsTyped DEF Procs, Tables, Memory, Instants
<1>2. /\ order' = order /\ eventLocks' = eventLocks /\ idemLocks' = idemLocks
      /\ clock' = clock /\ startedAt' = startedAt /\ disk' = disk /\ daily' = daily
      /\ nextRecapAt' = nextRecapAt /\ pendingRecap' = pendingRecap
      /\ recapAttempts' = recapAttempts /\ recapInFlight' = recapInFlight
  BY DEF SweepStart, SweepScan, RestartRecapSent, windowVars, lockVars, startVars, recapVars
<1>3. Instants' /\ Saved' /\ Queues'
  BY <1>2 DEF Tables, Instants, Saved, Queues, MapOrdered
<1>4. CASE SweepStart(s)
  <2>1. /\ windows' = windows /\ idempotencyKeys' = EvictExpired(idempotencyKeys, clock)
        /\ restartRecapDone' \in {restartRecapDone, DoneWithoutRecap(clock)}
        /\ \E label \in {"scan", "restartRecap"} : pc' = [pc EXCEPT ![s] = label]
        /\ \/ seen' = [seen EXCEPT ![s].now = clock]
           \/ seen' = [seen EXCEPT ![s].now = clock, ![s].batch = Deferred]
    BY <1>4 DEF SweepStart, Goto, windowVars
  <2>2. CacheKept'
    <3>1. /\ idempotencyKeys' \in Seq(EntryType) /\ Len(idempotencyKeys') <= Len(idempotencyKeys)
          /\ Len(idempotencyKeys') \in Nat /\ Len(idempotencyKeys) \in Nat
      BY <2>1, FilterFacts DEF Tables, CacheKept, EvictExpired
    <3>2. QED
      BY <3>1, OptionsTyped DEF Tables, CacheKept
  <2>3. Memory'
    <3>1. PICK r : /\ seen' = [seen EXCEPT ![s] = r]
                   /\ \/ r = [seen[s] EXCEPT !.now = clock]
                      \/ r = [seen[s] EXCEPT !.now = clock, !.batch = Deferred]
      BY <1>1, <2>1 DEF Tables, Memory
    <3>2. Deferred \in SUBSET Alerts
      BY DEF Deferred
    <3>3. r \in SeenType
      BY <1>1, <3>1, <3>2 DEF SeenType
    <3>4. QED
      BY <1>1, <2>1, <3>1, <3>3, MemoryGoesOn DEF Tables
  <2>4. Recaps'
    BY <1>2, <2>1 DEF Tables, Recaps, DoneWithoutRecap, InRestartGrace
  <2>5. Room' /\ MapOrdered(windows', order')
    BY <1>2, <2>1, SweepRoom DEF Tables, MapOrdered
  <2>6. QED
    BY <1>3, <2>2, <2>3, <2>4, <2>5 DEF Tables
<1>5. CASE SweepScan(s)
  <2> DEFINE over == Filter(order, {a \in Alerts : windows[a].expiresAt <= seen[s].now})
             list == [i \in 1..Len(over) |-> [alert |-> over[i], window |-> windows[over[i]].openedBy]]
             r == [seen[s] EXCEPT !.todo = list]
  <2>1. /\ windows' = windows /\ idempotencyKeys' = idempotencyKeys
        /\ restartRecapDone' = restartRecapDone
        /\ pc' = [pc EXCEPT ![s] = "close"] /\ seen' = [seen EXCEPT ![s].todo = list]
    BY <1>5 DEF SweepScan, Goto, windowVars, startVars
  <2>2. over \in Seq(Alerts) /\ Len(over) \in Nat
    BY FilterFacts DEF Tables, MapOrdered
  <2> HIDE DEF over
  <2>3. \A i \in 1..Len(over) : over[i] \in Alerts
    BY <2>2
  <2>4. \A a \in Alerts : windows[a].openedBy \in Deliveries \cup {Nobody}
    BY DEF Tables, MapOrdered, GoodWindow, WindowType
  <2>5. \A i \in 1..Len(over) :
          [alert |-> over[i], window |-> windows[over[i]].openedBy] \in TodoType
    BY <2>3, <2>4 DEF TodoType
  <2>6. list \in [1..Len(over) -> TodoType]
    BY <2>5
  <2>7. list \in Seq(TodoType)
    BY <2>2, <2>6
  <2>8. seen' = [seen EXCEPT ![s] = r] /\ r \in SeenType
    BY <1>1, <2>1, <2>7 DEF Tables, Memory, SeenType
  <2> HIDE DEF r
  <2>9. Memory'
    BY <1>1, <2>1, <2>8, MemoryGoesOn DEF Tables
  <2>10. CacheKept' /\ MapOrdered(windows', order') /\ Recaps'
    BY <1>2, <2>1 DEF Tables, CacheKept, MapOrdered, Recaps
  <2>11. Room'
    BY <2>1, SweepRoom
  <2>12. QED
    BY <1>3, <2>9, <2>10, <2>11 DEF Tables
<1>6. ASSUME NEW answer \in Answers, RestartRecapSent(s, answer) PROVE Tables'
  <2>1. /\ seen' = seen /\ idempotencyKeys' = idempotencyKeys
        /\ pc' = [pc EXCEPT ![s] = "scan"]
        /\ restartRecapDone' \in {restartRecapDone, TRUE}
        /\ \/ windows' = windows
           \/ windows' = [a \in Alerts |->
                 IF a \in seen[s].batch /\ windows[a].open
                   THEN [windows[a] EXCEPT !.deferred = FALSE, !.told = @ \/ Accepted(answer)]
                   ELSE windows[a]]
    BY <1>6 DEF RestartRecapSent, Goto
  <2>2. Memory'
    BY <1>1, <2>1, MemoryStays DEF Tables
  <2>3. CacheKept' /\ Recaps'
    BY <1>2, <2>1 DEF Tables, CacheKept, Recaps
  <2>4. Accepted(answer) \in BOOLEAN
    BY DEF Accepted, Answers
  <2>5. \A w \in GoodWindow :
          LET v == [w EXCEPT !.deferred = FALSE, !.told = @ \/ Accepted(answer)]
          IN v \in GoodWindow /\ v.open = w.open /\ v.escalations = w.escalations
    <3> SUFFICES ASSUME NEW w \in GoodWindow
                 PROVE  LET v == [w EXCEPT !.deferred = FALSE, !.told = @ \/ Accepted(answer)]
                        IN v \in GoodWindow /\ v.open = w.open /\ v.escalations = w.escalations
      OBVIOUS
    <3>1. (w.told \/ Accepted(answer)) \in BOOLEAN
      OBVIOUS
    <3>2. \A t \in BOOLEAN :
            LET v == [w EXCEPT !.deferred = FALSE, !.told = t]
            IN v \in GoodWindow /\ v.open = w.open /\ v.escalations = w.escalations
      BY DEF GoodWindow, WindowType
    <3>3. QED
      BY <3>1, <3>2
  <2>6. /\ windows' \in [Alerts -> GoodWindow]
        /\ \A a \in Alerts : /\ windows'[a].open = windows[a].open
                             /\ windows'[a].escalations = windows[a].escalations
    <3>1. windows \in [Alerts -> GoodWindow]
      BY DEF Tables, MapOrdered
    <3>2. CASE windows' = windows
      BY <3>1, <3>2
    <3>3. CASE windows' = [a \in Alerts |->
                 IF a \in seen[s].batch /\ windows[a].open
                   THEN [windows[a] EXCEPT !.deferred = FALSE, !.told = @ \/ Accepted(answer)]
                   ELSE windows[a]]
      <4>1. ASSUME NEW a \in Alerts
            PROVE  /\ windows'[a] \in GoodWindow /\ windows'[a].open = windows[a].open
                   /\ windows'[a].escalations = windows[a].escalations
        <5>1. windows[a] \in GoodWindow
          BY <3>1
        <5>2. CASE a \in seen[s].batch /\ windows[a].open
          <6>1. windows'[a] = [windows[a] EXCEPT !.deferred = FALSE, !.told = @ \/ Accepted(answer)]
            BY <3>3, <5>2
          <6>2. QED
            BY <2>5, <5>1, <6>1
        <5>3. CASE ~(a \in seen[s].batch /\ windows[a].open)
          BY <3>3, <5>1, <5>3
        <5>4. QED
          BY <5>2, <5>3
      <4>2. windows' = [a \in Alerts |-> windows'[a]]
        BY <3>3
      <4>3. QED
        BY <4>1, <4>2
    <3>4. QED
      BY <2>1, <3>2, <3>3
  <2>7. MapOrdered(windows', order')
    BY <1>2, <2>6, ChangedOrdered DEF Tables
  <2>8. Room'
    <3>1. \A e \in Deliveries : pc'[e] = pc[e] /\ EventOf(e) \in Alerts
      BY <1>1, <2>1, PayloadTyped DEF Tables, Memory
    <3>2. QED
      BY <2>6, <3>1, RoomKept DEF Tables
  <2>9. QED
    BY <1>3, <2>2, <2>3, <2>7, <2>8 DEF Tables
<1>7. QED
  BY <1>4, <1>5, <1>6

\* A sweep works through its list, and writes the state.
LEMMA SnapshotTyped ==
  ASSUME Tables PROVE Snapshot \in DiskType /\ MapOrdered(Snapshot.windows, Snapshot.order)
<1> DEFINE ks == [a \in Alerts |->
                    IF Live(a) THEN Serialized(windows[a]) ELSE NoWindow]
           ord == Filter(order, {a \in Alerts : Live(a)})
<1>1. \A w \in GoodWindow : Serialized(w) \in GoodWindow /\ Serialized(w).open = w.open
  BY SerializedGood
<1>2. /\ ks \in [Alerts -> GoodWindow]
      /\ \A a \in Alerts : ks[a].open <=> windows[a].open /\ a \in {b \in Alerts : Live(b)}
  BY <1>1, NoWindowGood DEF Tables, MapOrdered, Live
<1>3. MapOrdered(ks, ord)
  BY <1>2, PartOrdered DEF Tables
<1>4. Snapshot = [saved |-> TRUE, windows |-> ks, order |-> ord, daily |-> daily,
                  nextRecapAt |-> nextRecapAt, pendingRecap |-> pendingRecap]
  BY DEF Snapshot
<1> HIDE DEF ks, ord
<1>5. Snapshot \in DiskType
  BY <1>3, <1>4 DEF Tables, Recaps, Instants, DiskType, MapOrdered
<1>6. QED
  BY <1>3, <1>4, <1>5

LEMMA ListTables ==
  ASSUME Tables, LockInv, NEW s \in Sweeps, SweepNext(s) \/ SweepClose(s) \/ SweepPersist(s)
  PROVE  Tables'
<1>1. s \in Procs /\ s \notin Deliveries /\ seen[s] \in SeenType
  BY PayloadAssumption DEF Procs, Tables, Memory
<1>2. /\ idempotencyKeys' = idempotencyKeys /\ clock' = clock /\ startedAt' = startedAt
      /\ restartRecapDone' = restartRecapDone /\ daily' = daily /\ idemLocks' = idemLocks
      /\ nextRecapAt' = nextRecapAt /\ pendingRecap' = pendingRecap
      /\ recapAttempts' = recapAttempts /\ recapInFlight' = recapInFlight
  BY DEF SweepNext, SweepClose, SweepPersist, windowVars, lockVars, startVars, recapVars
<1>3. Instants' /\ Recaps' /\ CacheKept'
  BY <1>2 DEF Tables, Instants, Recaps, CacheKept
<1>4. seen[s].todo # <<>> =>
        /\ Head(seen[s].todo) \in TodoType /\ Head(seen[s].todo).alert \in Alerts
        /\ [seen[s] EXCEPT !.todo = Tail(@)] \in SeenType
  <2> SUFFICES ASSUME seen[s].todo # <<>>
               PROVE  /\ Head(seen[s].todo) \in TodoType /\ Head(seen[s].todo).alert \in Alerts
                      /\ [seen[s] EXCEPT !.todo = Tail(@)] \in SeenType
    OBVIOUS
  <2>1. seen[s].todo \in Seq(TodoType)
    BY <1>1 DEF SeenType
  <2>2. Head(seen[s].todo) \in TodoType /\ Tail(seen[s].todo) \in Seq(TodoType)
    BY <2>1
  <2>3. Head(seen[s].todo).alert \in Alerts
    BY <2>2 DEF TodoType
  <2>4. [seen[s] EXCEPT !.todo = Tail(@)] \in SeenType
    BY <1>1, <2>2 DEF SeenType
  <2>5. QED
    BY <2>2, <2>3, <2>4
<1>5. CASE SweepNext(s)
  <2> DEFINE a == Head(seen[s].todo).alert
             r == [seen[s] EXCEPT !.todo = Tail(@)]
  <2>1. /\ windows' = windows /\ order' = order /\ disk' = disk /\ seen[s].todo # <<>>
        /\ \/ /\ seen' = [seen EXCEPT ![s].todo = Tail(@)]
              /\ pc' = pc /\ eventLocks' = eventLocks
           \/ /\ eventLocks' = [eventLocks EXCEPT ![a] = Append(@, s)]
              /\ pc' = [pc EXCEPT ![s] = "closing"] /\ seen' = seen
    BY <1>5 DEF SweepNext, Goto, windowVars
  <2>2. Memory' /\ Room' /\ Queues'
    <3>1. CASE pc' = pc /\ eventLocks' = eventLocks /\ seen' = [seen EXCEPT ![s].todo = Tail(@)]
      <4>1. pc' = [pc EXCEPT ![s] = pc[s]] /\ seen' = [seen EXCEPT ![s] = r] /\ pc[s] # "closing"
        BY <1>1, <1>5, <3>1 DEF Tables, Memory, SweepNext
      <4>2. r \in SeenType
        BY <1>4, <2>1
      <4> HIDE DEF r
      <4>3. Memory'
        BY <1>1, <4>1, <4>2, MemoryGoesOn DEF Tables
      <4>4. Room'
        BY <2>1, <4>1, SweepRoom
      <4>5. Queues'
        BY <1>2, <3>1 DEF Tables, Queues
      <4>6. QED
        BY <4>3, <4>4, <4>5
    <3>2. CASE /\ eventLocks' = [eventLocks EXCEPT ![a] = Append(@, s)]
               /\ pc' = [pc EXCEPT ![s] = "closing"] /\ seen' = seen
      <4>1. seen' = [seen EXCEPT ![s] = seen[s]]
        BY <3>2 DEF Tables, Memory
      <4>2. Memory'
        BY <1>1, <2>1, <3>2, <4>1, MemoryGoesOn DEF Tables
      <4>3. Room'
        BY <2>1, <3>2, SweepRoom
      <4>4. a \in Alerts
        BY <1>4, <2>1
      <4> HIDE DEF a
      <4>5. eventLocks' \in [Alerts -> Seq(Procs)]
        BY <1>1, <3>2, <4>4, AskKeepsHead DEF Tables, Queues
      <4>6. QED
        BY <1>2, <4>2, <4>3, <4>5 DEF Tables, Queues
    <3>3. QED
      BY <2>1, <3>1, <3>2
  <2>3. Saved' /\ MapOrdered(windows', order')
    BY <2>1 DEF Tables, Saved, MapOrdered
  <2>4. QED
    BY <1>3, <2>2, <2>3 DEF Tables
<1>6. CASE SweepClose(s)
  <2> DEFINE a == Head(seen[s].todo).alert
             r == [seen[s] EXCEPT !.todo = Tail(@)]
  <2>1. /\ \/ windows' = Closed(a) /\ order' = Without(order, a)
           \/ windows' = windows /\ order' = order
        /\ eventLocks' = [eventLocks EXCEPT ![a] = Released(@, s)]
        /\ seen' = [seen EXCEPT ![s].todo = Tail(@)] /\ pc' = [pc EXCEPT ![s] = "close"]
        /\ disk' = disk /\ pc[s] = "closing"
    BY <1>6 DEF SweepClose, Goto, windowVars
  <2>2. a \in Alerts /\ r \in SeenType /\ seen' = [seen EXCEPT ![s] = r]
    BY <1>1, <1>4, <2>1 DEF Tables, Memory
  <2> HIDE DEF a, r
  <2>3. Memory'
    BY <1>1, <2>1, <2>2, MemoryGoesOn DEF Tables
  <2>4. Queues'
    BY <1>1, <1>2, <2>1, <2>2, ReleaseKeepsHead DEF Tables, Queues
  <2>5. MapOrdered(windows', order')
    BY <2>1, <2>2, ClosedOrdered DEF Tables, MapOrdered
  <2>6. Room'
    <3>1. \A b \in Alerts : windows'[b].open =>
            windows[b].open /\ windows'[b].escalations = windows[b].escalations
      BY <2>1, <2>2, NoWindowGood DEF Closed, Tables, MapOrdered
    <3>2. QED
      BY <2>1, <3>1, SweepRoom
  <2>7. Saved'
    BY <2>1 DEF Tables, Saved
  <2>8. QED
    BY <1>3, <2>3, <2>4, <2>5, <2>6, <2>7 DEF Tables
<1>7. CASE SweepPersist(s)
  <2>1. /\ windows' = windows /\ order' = order /\ eventLocks' = eventLocks
        /\ disk' = IF StateFile THEN Snapshot ELSE disk
        /\ pc' = [pc EXCEPT ![s] = "idle"] /\ seen' = [seen EXCEPT ![s] = Blank]
    BY <1>7 DEF SweepPersist, ExportState, Goto, windowVars, lockVars
  <2>2. Memory'
    BY <1>1, <2>1, MemoryGoesOn, BlankTyped DEF Tables
  <2>3. Saved'
    BY <2>1, SnapshotTyped DEF Tables, Saved
  <2>4. Queues' /\ MapOrdered(windows', order')
    BY <1>2, <2>1 DEF Tables, Queues, MapOrdered
  <2>5. Room'
    BY <2>1, SweepRoom
  <2>6. QED
    BY <1>3, <2>2, <2>3, <2>4, <2>5 DEF Tables
<1>8. QED
  BY <1>5, <1>6, <1>7

\* A restart reads back what was saved, which is a part of a map.
LEMMA BootTables ==
  ASSUME Instants, NEW file \in DiskType, MapOrdered(file.windows, file.order), Boot(file),
         clock' = clock, disk' \in DiskType, MapOrdered(disk'.windows, disk'.order)
  PROVE  Tables'
<1> DEFINE K == {a \in Alerts : file.windows[a].open /\ file.windows[a].expiresAt > clock}
<1>1. /\ windows' = [a \in Alerts |-> IF a \in K THEN file.windows[a] ELSE NoWindow]
      /\ order' = Filter(file.order, K)
  BY DEF Boot
<1>2. /\ windows' \in [Alerts -> GoodWindow]
      /\ \A a \in Alerts : windows'[a].open <=> file.windows[a].open /\ a \in K
  BY <1>1, NoWindowGood DEF MapOrdered
<1>3. MapOrdered(windows', order')
  BY <1>1, <1>2, PartOrdered
<1>4. EmptyTally \in TallyType /\ NoPending \in PendingType
  BY DEF EmptyTally, TallyType, NoPending, PendingType
<1>5. /\ file.daily \in TallyType /\ file.nextRecapAt \in Nat /\ file.pendingRecap \in PendingType
      /\ clock \in Nat
  BY OptionsTyped DEF DiskType, Instants
<1>6. NextRecapTime(clock) \in Nat
  <2>1. Day \in Nat \ {0}
    BY OptionsTyped
  <2>2. clock \div Day \in Nat
    BY <1>5, <2>1
  <2>3. ((clock \div Day) + 1) * Day \in Nat
    BY <2>1, <2>2
  <2>4. QED
    BY <2>3 DEF NextRecapTime
<1>7. Instants'
  BY <1>5, <1>6 DEF Boot, Instants
<1>8. Recaps'
  <2>1. 0 \in 0..MaxFlushAttempts
    BY OptionsTyped
  <2>2. /\ daily' \in {file.daily, EmptyTally} /\ pendingRecap' \in {file.pendingRecap, NoPending}
        /\ recapAttempts' = 0 /\ recapInFlight' = FALSE
        /\ restartRecapDone' = (RestartGraceMs = 0)
    BY DEF Boot
  <2>3. QED
    BY <1>4, <1>5, <2>1, <2>2 DEF Recaps
<1>9. CacheKept' /\ Queues' /\ Saved'
  <2>1. idempotencyKeys' = <<>> /\ Len(<<>>) = 0 /\ <<>> \in Seq(EntryType)
    BY DEF Boot
  <2>2. /\ eventLocks' = [a \in Alerts |-> <<>>] /\ idemLocks' = [k \in Keys |-> <<>>]
        /\ <<>> \in Seq(Procs) /\ <<>> \in Seq(Deliveries)
    BY DEF Boot
  <2>3. QED
    BY <2>1, <2>2, OptionsTyped DEF CacheKept, Queues, Saved
<1>10. /\ pc' = [p \in Procs |-> pc'[p]]
       /\ \A p \in Procs : pc'[p] \in {"idle", "ok", "failed", "lost"}
       /\ seen' = [p \in Procs |-> Blank]
  BY DEF Boot
<1>11. Memory' /\ Room'
  <2>1. seen' \in [Procs -> SeenType]
    BY <1>10, BlankTyped
  <2>2. \A p \in Procs : pc'[p] \notin {"sending", "closing", "escalating"}
    BY <1>10
  <2>3. \A d \in Deliveries : d \in Procs
    BY DEF Procs
  <2>4. \A s \in Sweeps : s \in Procs
    BY DEF Procs
  <2>5. QED
    BY <1>10, <2>1, <2>2, <2>3, <2>4 DEF Memory, Room
<1>12. QED
  BY <1>3, <1>7, <1>8, <1>9, <1>11 DEF Tables

LEMMA RestartTables ==
  ASSUME Tables, Deploy \/ Crash PROVE Tables'
<1>1. CASE Deploy
  <2>1. disk' = (IF StateFile THEN Snapshot ELSE disk) /\ Boot(disk') /\ clock' = clock
    BY <1>1 DEF Deploy, ExportState
  <2>2. disk' \in DiskType /\ MapOrdered(disk'.windows, disk'.order)
    BY <2>1, SnapshotTyped DEF Tables, Saved
  <2>3. QED
    BY <2>1, <2>2, BootTables DEF Tables
<1>2. CASE Crash
  <2>1. disk' = disk /\ Boot(disk) /\ clock' = clock
    BY <1>2 DEF Crash
  <2>2. QED
    BY <2>1, BootTables DEF Tables, Saved
<1>3. QED
  BY <1>1, <1>2

\* Time passes, or nothing happens.
LEMMA IdleTables ==
  ASSUME Tables, Tick \/ UNCHANGED vars PROVE Tables'
<1>1. /\ windows' = windows /\ order' = order /\ idempotencyKeys' = idempotencyKeys
      /\ eventLocks' = eventLocks /\ idemLocks' = idemLocks /\ daily' = daily
      /\ nextRecapAt' = nextRecapAt /\ pendingRecap' = pendingRecap
      /\ recapAttempts' = recapAttempts /\ recapInFlight' = recapInFlight
      /\ startedAt' = startedAt /\ restartRecapDone' = restartRecapDone /\ disk' = disk
      /\ pc' = pc /\ seen' = seen
  BY DEF Tick, vars, windowVars, lockVars, recapVars, startVars
<1>2. clock' \in 0..MaxTime
  BY OptionsTyped DEF Tick, vars, Tables, Instants
<1>3. Instants' /\ Recaps' /\ Saved' /\ CacheKept' /\ Queues' /\ MapOrdered(windows', order')
  BY <1>1, <1>2 DEF Tables, Instants, Recaps, Saved, CacheKept, Queues, MapOrdered
<1>4. Memory' /\ Room'
  BY <1>1 DEF Tables, Memory, Room
<1>5. QED
  BY <1>3, <1>4 DEF Tables

LEMMA TablesInit == Init => Tables
<1> SUFFICES ASSUME Init PROVE Tables
  OBVIOUS
<1>1. EmptyTally \in TallyType /\ NoPending \in PendingType
  BY DEF EmptyTally, TallyType, NoPending, PendingType
<1>2. 0 \in 0..MaxTime /\ 0 \in 0..MaxFlushAttempts /\ 0 <= MaxCacheEntries
  BY OptionsTyped
<1>3. NextRecapTime(0) \in Nat
  <2>1. Day \in Nat \ {0}
    BY OptionsTyped
  <2>2. 0 \div Day \in Nat
    BY <2>1
  <2>3. ((0 \div Day) + 1) * Day \in Nat
    BY <2>1, <2>2
  <2>4. QED
    BY <2>3 DEF NextRecapTime
<1>4. MapOrdered(NoWindows, <<>>)
  <2>1. <<>> \in Seq(Alerts) /\ Len(<<>>) = 0 /\ DOMAIN <<>> = {} /\ 1..0 = {}
    OBVIOUS
  <2>2. IsInjective(<<>>) /\ ToSet(<<>>) = {}
    BY <2>1 DEF IsInjective, ToSet
  <2>3. NoWindows \in [Alerts -> GoodWindow] /\ \A a \in Alerts : ~NoWindows[a].open
    BY NoWindowGood DEF NoWindows
  <2>4. QED
    BY <1>2, <2>1, <2>2, <2>3 DEF MapOrdered
<1>5. NoDisk \in DiskType /\ MapOrdered(NoDisk.windows, NoDisk.order)
  BY <1>1, <1>4 DEF NoDisk, DiskType, MapOrdered
<1>6. Instants /\ Recaps /\ Saved /\ MapOrdered(windows, order)
  BY <1>1, <1>2, <1>3, <1>4, <1>5 DEF Init, Instants, Recaps, Saved
<1>7. CacheKept /\ Queues
  <2>1. <<>> \in Seq(EntryType) /\ Len(<<>>) = 0 /\ <<>> \in Seq(Procs) /\ <<>> \in Seq(Deliveries)
    OBVIOUS
  <2>2. QED
    BY <1>2, <2>1 DEF Init, CacheKept, Queues
<1>8. Memory /\ Room
  <2>1. seen \in [Procs -> SeenType]
    BY BlankTyped DEF Init
  <2>2. pc = [p \in Procs |-> "idle"]
    BY DEF Init
  <2>3. \A d \in Deliveries : d \in Procs
    BY DEF Procs
  <2>4. \A s \in Sweeps : s \in Procs
    BY DEF Procs
  <2>5. QED
    BY <2>1, <2>2, <2>3, <2>4 DEF Memory, Room
<1>9. QED
  BY <1>6, <1>7, <1>8 DEF Tables

\* Every step keeps the tables, given the locks.
LEMMA TablesStep == Tables /\ LockInv /\ [Next]_vars => Tables'
<1> SUFFICES ASSUME Tables, LockInv, [Next]_vars PROVE Tables'
  OBVIOUS
<1>1. ASSUME NEW d \in Deliveries, Receive(d) \/ Handle(d) PROVE Tables'
  <2>1. CASE Receive(d) \/ Identify(d)
    BY <2>1, ArrivalTables
  <2>2. CASE Defer(d) \/ Announce(d) \/ Repeat(d)
    BY <2>2, HandlerTables
  <2>3. CASE \E answer \in Answers : Announced(d, answer) \/ Escalated(d, answer)
    BY <2>3, AnswersTables
  <2>4. QED
    BY <1>1, <2>1, <2>2, <2>3 DEF Handle
<1>2. ASSUME NEW s \in Sweeps, Sweep(s) PROVE Tables'
  <2>1. CASE SweepStart(s) \/ SweepScan(s) \/ \E answer \in Answers : RestartRecapSent(s, answer)
    BY <2>1, StartTables
  <2>2. CASE SweepNext(s) \/ SweepClose(s) \/ SweepPersist(s)
    BY <2>2, ListTables
  <2>3. CASE \/ DailyIdle(s) \/ DailySwap(s) \/ DailyRetry(s)
             \/ \E answer \in Answers : DailySent(s, answer)
    BY <2>3, RecapTables
  <2>4. QED
    BY <1>2, <2>1, <2>2, <2>3 DEF Sweep
<1>3. CASE Tick \/ UNCHANGED vars
  BY <1>3, IdleTables
<1>4. CASE Deploy \/ Crash
  BY <1>4, RestartTables
<1>5. QED
  BY <1>1, <1>2, <1>3, <1>4 DEF Next, Running

\* The tables are typed and bounded in every state.
LEMMA TablesAlways == Spec => []Tables
<1>1. Init => Tables /\ LockInv
  BY TablesInit, LockInit
<1>2. (Tables /\ LockInv) /\ [Next]_vars => (Tables /\ LockInv)'
  BY TablesStep, LockStep
<1>3. QED
  BY <1>1, <1>2, PTL DEF Spec

\* Every variable has its type; no handler escalates more often than the constant
\* says, and the map of windows and its order agree.
THEOREM RelayTyped == Spec => []TypeOK
<1>1. Tables => TypeOK
  <2> SUFFICES ASSUME Tables PROVE TypeOK
    OBVIOUS
  <2>1. \A q, S : q \in Seq(S) => ToSet(q) \subseteq S
    <3> SUFFICES ASSUME NEW q, NEW S, q \in Seq(S), NEW x \in ToSet(q) PROVE x \in S
      OBVIOUS
    <3>1. PICK i \in DOMAIN q : x = q[i]
      BY DEF ToSet
    <3>2. i \in 1..Len(q)
      OBVIOUS
    <3>3. QED
      BY <3>1, <3>2
  <2>2. /\ windows \in [Alerts -> WindowType]
        /\ \A a \in Alerts : windows[a].escalations <= MaxEscalationsPerWindow
    BY DEF Tables, MapOrdered, GoodWindow
  <2>3. ToSet(idempotencyKeys) \subseteq [key : Keys, expires : Nat]
    BY <2>1 DEF Tables, CacheKept, EntryType
  <2>4. /\ \A a \in Alerts : ToSet(eventLocks[a]) \subseteq Procs
        /\ \A k \in Keys : ToSet(idemLocks[k]) \subseteq Deliveries
    BY <2>1 DEF Tables, Queues
  <2>5. DOMAIN pc = Procs /\ DOMAIN seen = Procs
    BY DEF Tables, Memory
  <2>6. QED
    BY <2>2, <2>3, <2>4, <2>5 DEF TypeOK, Tables, MapOrdered, Instants, Recaps
<1>2. QED
  BY <1>1, TablesAlways, PTL

\* The map of windows and the cache of idempotency keys never hold more than
\* MaxCacheEntries entries, whatever is opened, closed, dropped or read back.
THEOREM TablesBounded == Spec => []CachesBounded
<1>1. Tables => CachesBounded
  BY DEF Tables, MapOrdered, CacheKept, CachesBounded
<1>2. QED
  BY <1>1, TablesAlways, PTL

-----------------------------------------------------------------------------
(* A sweep closes no window that is still running.                           *)

\* A delivery opens at most one window, when it is done with its lock or, if the
\* alert was sent, with the send: it has not opened one before.
Opened(at, d) == at[d] \notin {"idle", "idem", "event", "sending"}

OpenersIn(ws, at) ==
  \A a \in Alerts : ws[a].open => ws[a].openedBy \in Deliveries /\ Opened(at, ws[a].openedBy)

\* What is on the list of a sweep was over when the list was made; a window
\* opened since is another one.
ListRight(s) ==
  \A x \in ToSet(seen[s].todo) :
    /\ x.window \in Deliveries /\ Opened(pc, x.window)
    /\ windows[x.alert].open /\ windows[x.alert].openedBy = x.window =>
         windows[x.alert].expiresAt <= seen[s].now

EarlyInv ==
  /\ OpenersIn(windows, pc) /\ OpenersIn(disk.windows, pc)
  /\ \A s \in Sweeps : pc[s] \in {"close", "closing"} => ListRight(s)

\* The lists stay right if each window stays the one it was or is opened by a
\* delivery that had opened none.
LEMMA EarlyKept ==
  ASSUME EarlyInv, Tables,
         \A d \in Deliveries : Opened(pc, d) => Opened(pc', d),
         \A b \in Alerts : windows'[b].open =>
           \/ /\ windows[b].open /\ windows'[b].openedBy = windows[b].openedBy
              /\ windows'[b].expiresAt = windows[b].expiresAt
           \/ /\ windows'[b].openedBy \in Deliveries
              /\ ~Opened(pc, windows'[b].openedBy) /\ Opened(pc', windows'[b].openedBy),
         \A b \in Alerts : disk'.windows[b].open =>
           /\ disk'.windows[b].openedBy \in Deliveries /\ Opened(pc, disk'.windows[b].openedBy),
         \A s \in Sweeps : pc'[s] \in {"close", "closing"} =>
           /\ pc[s] \in {"close", "closing"} /\ seen'[s].now = seen[s].now
           /\ ToSet(seen'[s].todo) \subseteq ToSet(seen[s].todo)
  PROVE  EarlyInv'
<1>1. \A b \in Alerts : windows'[b].open =>
         windows'[b].openedBy \in Deliveries /\ Opened(pc', windows'[b].openedBy)
  BY DEF EarlyInv, OpenersIn
<1>2. \A b \in Alerts : disk'.windows[b].open =>
         disk'.windows[b].openedBy \in Deliveries /\ Opened(pc', disk'.windows[b].openedBy)
  OBVIOUS
<1>3. ASSUME NEW s \in Sweeps, pc'[s] \in {"close", "closing"} PROVE ListRight(s)'
  <2> SUFFICES ASSUME NEW x \in ToSet(seen'[s].todo)
               PROVE  /\ x.window \in Deliveries /\ Opened(pc', x.window)
                      /\ windows'[x.alert].open /\ windows'[x.alert].openedBy = x.window =>
                           windows'[x.alert].expiresAt <= seen'[s].now
    BY DEF ListRight
  <2>1. /\ x \in ToSet(seen[s].todo) /\ seen'[s].now = seen[s].now
        /\ pc[s] \in {"close", "closing"}
    BY <1>3
  <2>2. /\ x.window \in Deliveries /\ Opened(pc, x.window)
        /\ windows[x.alert].open /\ windows[x.alert].openedBy = x.window =>
             windows[x.alert].expiresAt <= seen[s].now
    BY <2>1 DEF EarlyInv, ListRight
  <2>3. x.alert \in Alerts
    <3>1. seen[s].todo \in Seq(TodoType)
      BY DEF Tables, Memory, SeenType, Procs
    <3>2. PICK i \in DOMAIN seen[s].todo : x = seen[s].todo[i]
      BY <2>1 DEF ToSet
    <3>3. x \in TodoType
      BY <3>1, <3>2
    <3>4. QED
      BY <3>3 DEF TodoType
  <2>4. QED
    BY <2>1, <2>2, <2>3
<1>4. QED
  BY <1>1, <1>2, <1>3 DEF EarlyInv, OpenersIn

\* A handler goes on; only an answer opens a window.
LEMMA EarlyHandler ==
  ASSUME EarlyInv, Tables, LockInv, NEW d \in Deliveries, Receive(d) \/ Handle(d)
  PROVE  EarlyInv'
<1>1. d \in Procs /\ KeyOf(d) \in Keys /\ EventOf(d) \in Alerts /\ d \notin Sweeps
  BY PayloadTyped
<1>2. disk' = disk /\ \E label : pc' = [pc EXCEPT ![d] = label]
  BY DEF Receive, Handle, Identify, Defer, Announce, Repeat, Announced, Escalated, Answer, Goto
<1>3. \A p \in Procs : p # d => pc'[p] = pc[p] /\ seen'[p] = seen[p]
  <2>1. seen' = seen \/ \E r : seen' = [seen EXCEPT ![d] = r]
    <3>1. CASE Receive(d)
      BY <3>1 DEF Receive
    <3>2. CASE \E label : Answer(d, label)
      BY <3>2 DEF Answer
    <3>3. CASE Identify(d) /\ ~Answer(d, "ok")
      <4>1. seen' = [seen EXCEPT ![d].now = clock]
        BY <3>3 DEF Identify
      <4>2. seen' = [seen EXCEPT ![d] = [seen[d] EXCEPT !.now = clock]]
        BY <4>1
      <4>3. QED
        BY <4>2
    <3>4. CASE Announce(d)
      <4> DEFINE w == OpenWindow(d, seen[d].now, FALSE)
      <4>1. seen' = [seen EXCEPT ![d].window = w]
        BY <3>4 DEF Announce
      <4> HIDE DEF w
      <4>2. seen' = [seen EXCEPT ![d] = [seen[d] EXCEPT !.window = w]]
        BY <4>1
      <4>3. QED
        BY <4>2
    <3>5. CASE Repeat(d) /\ ~Answer(d, "ok")
      BY <3>5 DEF Repeat
    <3>6. QED
      BY <3>1, <3>2, <3>3, <3>4, <3>5 DEF Handle, Defer, Announced, Escalated
  <2>2. QED
    BY <1>1, <1>2, <2>1 DEF Tables, Memory
<1>4. \A s \in Sweeps : pc'[s] = pc[s] /\ seen'[s] = seen[s]
  BY <1>1, <1>3 DEF Procs
<1>5. \A e \in Deliveries : e # d => pc'[e] = pc[e]
  BY <1>3, PayloadTyped
<1>6. Opened(pc, d) => Opened(pc', d)
  <2>1. CASE Opened(pc, d)
    <3>1. \E answer \in Answers : Escalated(d, answer)
      <4>1. ~Receive(d) /\ ~Identify(d) /\ ~Repeat(d)
        BY <2>1 DEF Opened, Receive, Identify, Repeat
      <4>2. ~Defer(d) /\ ~Announce(d)
        BY <2>1 DEF Opened, Defer, Announce, Opens
      <4>3. \A answer : ~Announced(d, answer)
        BY <2>1 DEF Opened, Announced
      <4>4. QED
        BY <4>1, <4>2, <4>3 DEF Handle
    <3>2. pc'[d] = "ok"
      BY <1>1, <3>1 DEF Escalated, Answer, Goto, Tables, Memory
    <3>3. QED
      BY <3>2 DEF Opened
  <2>2. QED
    BY <2>1
<1>7. \A b \in Alerts : windows'[b].open =>
        \/ /\ windows[b].open /\ windows'[b].openedBy = windows[b].openedBy
           /\ windows'[b].expiresAt = windows[b].expiresAt
        \/ windows'[b].openedBy = d /\ ~Opened(pc, d) /\ Opened(pc', d)
  <2>1. CASE Receive(d) \/ Identify(d)
    BY <2>1 DEF Receive, Identify, windowVars
  <2>2. ASSUME NEW w, NEW now, SetWindow(EventOf(d), w, now), w.openedBy = d,
               pc[d] \in {"event", "sending"}, Answer(d, "ok")
        PROVE  \A b \in Alerts : windows'[b].open =>
                 \/ /\ windows[b].open /\ windows'[b].openedBy = windows[b].openedBy
                    /\ windows'[b].expiresAt = windows[b].expiresAt
                 \/ windows'[b].openedBy = d /\ ~Opened(pc, d) /\ Opened(pc', d)
    <3>1. \A b \in Alerts : windows'[b] = NoWindow \/ windows'[b] = IF b = EventOf(d) THEN w ELSE windows[b]
      BY <1>1, <2>2, SetWindowOthers DEF LockInv
    <3>2. ~Opened(pc, d) /\ Opened(pc', d)
      BY <1>1, <2>2 DEF Opened, Answer, Goto, Tables, Memory
    <3>3. QED
      BY <2>2, <3>1, <3>2, NoWindowGood
  <2>3. CASE Defer(d)
    <3> DEFINE w == OpenWindow(d, seen[d].now, TRUE)
    <3>1. /\ SetWindow(EventOf(d), w, seen[d].now) /\ Answer(d, "ok") /\ pc[d] = "event"
      BY <2>3 DEF Defer, Opens
    <3>2. w.openedBy = d
      BY DEF OpenWindow
    <3> HIDE DEF w
    <3>3. QED
      BY <2>2, <3>1, <3>2
  <2>4. CASE Announce(d)
    <3>1. \A b \in Alerts : windows'[b] = IF b = EventOf(d) THEN NoWindow ELSE windows[b]
      BY <2>4 DEF Announce, Closed, Tables, MapOrdered
    <3>2. QED
      BY <3>1, NoWindowGood
  <2>5. CASE Repeat(d)
    <3> DEFINE w == Accumulated(windows[EventOf(d)], KeyOf(d))
    <3>1. windows' = [windows EXCEPT ![EventOf(d)] = w]
      BY <2>5 DEF Repeat
    <3>2. w.open = windows[EventOf(d)].open /\ w.openedBy = windows[EventOf(d)].openedBy
          /\ w.expiresAt = windows[EventOf(d)].expiresAt
      BY <1>1, AccumulatedGood DEF Tables, MapOrdered
    <3> HIDE DEF w
    <3>3. \A b \in Alerts : windows'[b] = IF b = EventOf(d) THEN w ELSE windows[b]
      BY <3>1 DEF Tables, MapOrdered
    <3>4. QED
      BY <3>2, <3>3
  <2>6. ASSUME NEW answer \in Answers, Announced(d, answer) \/ Escalated(d, answer)
        PROVE  \A b \in Alerts : windows'[b].open =>
                 \/ /\ windows[b].open /\ windows'[b].openedBy = windows[b].openedBy
                    /\ windows'[b].expiresAt = windows[b].expiresAt
                 \/ windows'[b].openedBy = d /\ ~Opened(pc, d) /\ Opened(pc', d)
    <3>1. CASE Announced(d, answer) /\ Registered(answer)
      <4> DEFINE w == [seen[d].window EXCEPT !.told = Accepted(answer)]
      <4>1. SetWindow(EventOf(d), w, seen[d].now) /\ pc[d] = "sending" /\ Answer(d, "ok")
        BY <3>1 DEF Announced
      <4>2. w.openedBy = d
        <5>1. seen[d].window.openedBy = d
          BY <1>1, <4>1 DEF Tables, Memory
        <5>2. seen[d] \in SeenType
          BY <1>1 DEF Tables, Memory
        <5>3. seen[d].window \in WindowType
          BY <5>2 DEF SeenType, GoodWindow
        <5>4. QED
          BY <5>1, <5>3 DEF WindowType
      <4> HIDE DEF w
      <4>3. QED
        BY <2>2, <4>1, <4>2
    <3>2. CASE Announced(d, answer) /\ ~Registered(answer)
      BY <3>2 DEF Announced, windowVars
    <3>3. CASE Escalated(d, answer)
      <4>1. windows' = windows \/ windows' = [windows EXCEPT ![EventOf(d)].escalations = @ + 1]
        BY <3>3 DEF Escalated
      <4>2. windows \in [Alerts -> GoodWindow]
        BY DEF Tables, MapOrdered
      <4>3. CASE windows' = [windows EXCEPT ![EventOf(d)].escalations = @ + 1]
        <5> DEFINE w == [windows[EventOf(d)] EXCEPT !.escalations = @ + 1]
        <5>1. \A b \in Alerts : windows'[b] = IF b = EventOf(d) THEN w ELSE windows[b]
          BY <1>1, <4>2, <4>3
        <5>2. w.open = windows[EventOf(d)].open /\ w.openedBy = windows[EventOf(d)].openedBy
              /\ w.expiresAt = windows[EventOf(d)].expiresAt
          BY <1>1, <4>2 DEF GoodWindow, WindowType
        <5> HIDE DEF w
        <5>3. QED
          BY <5>1, <5>2
      <4>4. QED
        BY <4>1, <4>3
    <3>4. QED
      BY <2>6, <3>1, <3>2, <3>3
  <2>7. QED
    BY <2>1, <2>3, <2>4, <2>5, <2>6 DEF Handle
<1>8. \A e \in Deliveries : Opened(pc, e) => Opened(pc', e)
  BY <1>5, <1>6 DEF Opened
<1>9. \A b \in Alerts : disk'.windows[b].open =>
        disk'.windows[b].openedBy \in Deliveries /\ Opened(pc, disk'.windows[b].openedBy)
  BY <1>2 DEF EarlyInv, OpenersIn
<1>10. QED
  BY <1>4, <1>7, <1>8, <1>9, EarlyKept

\* A sweep goes on; only SweepScan makes a list.
LEMMA EarlySweep ==
  ASSUME EarlyInv, Tables, NEW s \in Sweeps, Sweep(s) PROVE EarlyInv'
<1>1. s \in Procs /\ s \notin Deliveries /\ seen[s] \in SeenType
  BY PayloadAssumption DEF Procs, Tables, Memory
<1>2. \A d \in Deliveries : pc'[d] = pc[d] /\ (Opened(pc, d) <=> Opened(pc', d))
  <2>1. pc' = pc \/ \E label : pc' = [pc EXCEPT ![s] = label]
    BY DEF Sweep, SweepStart, SweepScan, SweepNext, SweepClose, DailyIdle, DailySwap, DailyRetry,
           SweepPersist, RestartRecapSent, DailySent, Goto
  <2>2. \A d \in Deliveries : pc'[d] = pc[d]
    BY <1>1, <2>1, PayloadTyped DEF Tables, Memory
  <2>3. QED
    BY <2>2 DEF Opened
<1>3. \A b \in Alerts : windows'[b].open =>
        /\ windows[b].open /\ windows'[b].openedBy = windows[b].openedBy
        /\ windows'[b].expiresAt = windows[b].expiresAt
  <2>1. windows \in [Alerts -> GoodWindow]
    BY DEF Tables, MapOrdered
  <2>2. CASE SweepClose(s)
    <3> DEFINE a == Head(seen[s].todo).alert
    <3>1. windows' = Closed(a) \/ windows' = windows
      BY <2>2 DEF SweepClose, windowVars
    <3> HIDE DEF a
    <3>2. QED
      BY <2>1, <3>1, NoWindowGood DEF Closed
  <2>3. ASSUME NEW answer \in Answers, RestartRecapSent(s, answer), NEW b \in Alerts
        PROVE  /\ windows'[b].open = windows[b].open /\ windows'[b].openedBy = windows[b].openedBy
               /\ windows'[b].expiresAt = windows[b].expiresAt
    <3> DEFINE w == [windows[b] EXCEPT !.deferred = FALSE, !.told = @ \/ Accepted(answer)]
    <3>1. windows'[b] = windows[b] \/ windows'[b] = w
      BY <2>1, <2>3 DEF RestartRecapSent
    <3>2. w.open = windows[b].open /\ w.openedBy = windows[b].openedBy
          /\ w.expiresAt = windows[b].expiresAt
      BY <2>1 DEF GoodWindow, WindowType
    <3> HIDE DEF w
    <3>3. QED
      BY <3>1, <3>2
  <2>4. CASE windows' = windows
    BY <2>4
  <2>5. QED
    BY <2>2, <2>3, <2>4 DEF Sweep, SweepStart, SweepScan, SweepNext, DailyIdle, DailySwap,
       DailyRetry, SweepPersist, DailySent, windowVars
<1>4. \A b \in Alerts : disk'.windows[b].open =>
        disk'.windows[b].openedBy \in Deliveries /\ Opened(pc, disk'.windows[b].openedBy)
  <2>1. CASE disk' = disk
    BY <2>1 DEF EarlyInv, OpenersIn
  <2>2. CASE disk' = Snapshot
    <3>1. ASSUME NEW b \in Alerts, disk'.windows[b].open
          PROVE  windows[b].open /\ disk'.windows[b].openedBy = windows[b].openedBy
      <4>1. disk'.windows[b] = IF Live(b) THEN Serialized(windows[b]) ELSE NoWindow
        BY <2>2 DEF Snapshot
      <4>2. Live(b) /\ windows[b] \in GoodWindow
        BY <3>1, <4>1, NoWindowGood DEF Tables, MapOrdered
      <4>3. QED
        BY <4>1, <4>2, SerializedGood DEF Live
    <3>2. QED
      BY <3>1 DEF EarlyInv, OpenersIn
  <2>3. disk' = disk \/ disk' = Snapshot
    BY DEF Sweep, SweepStart, SweepScan, SweepNext, SweepClose, DailyIdle, DailySwap, DailyRetry,
           SweepPersist, RestartRecapSent, DailySent, ExportState
  <2>4. QED
    BY <2>1, <2>2, <2>3
<1>5. CASE SweepScan(s)
  <2> DEFINE over == Filter(order, {a \in Alerts : windows[a].expiresAt <= seen[s].now})
             list == [i \in 1..Len(over) |-> [alert |-> over[i], window |-> windows[over[i]].openedBy]]
  <2>1. /\ windows' = windows /\ disk' = disk
        /\ pc' = [pc EXCEPT ![s] = "close"] /\ seen' = [seen EXCEPT ![s].todo = list]
    BY <1>5 DEF SweepScan, Goto, windowVars
  <2>2. /\ over \in Seq(Alerts) /\ Len(over) \in Nat
        /\ ToSet(over) = ToSet(order) \cap {a \in Alerts : windows[a].expiresAt <= seen[s].now}
    BY FilterFacts DEF Tables, MapOrdered
  <2> HIDE DEF over
  <2>3. \A i \in 1..Len(over) : windows[over[i]].open /\ windows[over[i]].expiresAt <= seen[s].now
    <3>1. \A i \in 1..Len(over) : over[i] \in ToSet(over)
      BY <2>2 DEF ToSet
    <3>2. QED
      BY <2>2, <3>1 DEF Tables, MapOrdered
  <2>4. seen'[s].todo = list /\ seen'[s].now = seen[s].now
    BY <1>1, <2>1 DEF Tables, Memory, SeenType
  <2>5. ListRight(s)'
    <3> SUFFICES ASSUME NEW x \in ToSet(list)
                 PROVE  /\ x.window \in Deliveries /\ Opened(pc', x.window)
                        /\ windows'[x.alert].open /\ windows'[x.alert].openedBy = x.window =>
                             windows'[x.alert].expiresAt <= seen'[s].now
      BY <2>4 DEF ListRight
    <3>1. PICK i \in 1..Len(over) : x = [alert |-> over[i], window |-> windows[over[i]].openedBy]
      BY DEF ToSet
    <3>2. over[i] \in Alerts /\ windows[over[i]].open /\ windows[over[i]].expiresAt <= seen[s].now
      BY <2>2, <2>3
    <3>3. x.window = windows[over[i]].openedBy /\ x.alert = over[i]
      BY <3>1
    <3>4. QED
      BY <1>2, <2>1, <2>4, <3>2, <3>3 DEF EarlyInv, OpenersIn
  <2>6. \A t \in Sweeps : t # s => pc'[t] = pc[t] /\ seen'[t] = seen[t]
    BY <2>1 DEF Tables, Memory, Procs
  <2>7. \A t \in Sweeps : t # s /\ pc'[t] \in {"close", "closing"} => ListRight(t)'
    BY <1>2, <2>1, <2>6 DEF EarlyInv, ListRight
  <2>8. QED
    BY <1>2, <2>1, <2>5, <2>7 DEF EarlyInv, OpenersIn
<1>6. CASE ~SweepScan(s)
  <2>1. \A t \in Sweeps : t # s => pc'[t] = pc[t] /\ seen'[t] = seen[t]
    <3>1. pc' = pc \/ \E label : pc' = [pc EXCEPT ![s] = label]
      BY DEF Sweep, SweepStart, SweepScan, SweepNext, SweepClose, DailyIdle, DailySwap, DailyRetry,
             SweepPersist, RestartRecapSent, DailySent, Goto
    <3>2. \A t \in Sweeps : t # s => seen'[t] = seen[t]
      <4>1. \/ seen' = seen
            \/ seen' = [seen EXCEPT ![s].now = clock]
            \/ seen' = [seen EXCEPT ![s].now = clock, ![s].batch = Deferred]
            \/ seen' = [seen EXCEPT ![s].todo = Tail(@)]
            \/ seen' = [seen EXCEPT ![s] = Blank]
        BY <1>6 DEF Sweep, SweepStart, SweepNext, SweepClose, DailyIdle, DailySwap, DailyRetry,
             SweepPersist, RestartRecapSent, DailySent
      <4>2. QED
        BY <4>1 DEF Tables, Memory, Procs
    <3>3. QED
      BY <3>1, <3>2 DEF Tables, Memory, Procs
  <2>2. pc'[s] \in {"close", "closing"} =>
          /\ pc[s] \in {"close", "closing"} /\ seen'[s].now = seen[s].now
          /\ ToSet(seen'[s].todo) \subseteq ToSet(seen[s].todo)
    <3>1. CASE SweepNext(s) \/ SweepClose(s)
      <4>1. /\ pc[s] \in {"close", "closing"} /\ seen[s].todo # <<>>
            /\ seen' = seen \/ seen' = [seen EXCEPT ![s].todo = Tail(@)]
        BY <3>1 DEF SweepNext, SweepClose, Tables, Memory
      <4>2. seen'[s].now = seen[s].now /\ seen'[s].todo \in {seen[s].todo, Tail(seen[s].todo)}
        BY <1>1, <4>1 DEF Tables, Memory, SeenType
      <4>3. ToSet(Tail(seen[s].todo)) \subseteq ToSet(seen[s].todo)
        <5> DEFINE q == seen[s].todo
        <5>1. q \in Seq(TodoType) /\ q # <<>>
          BY <1>1, <4>1 DEF SeenType
        <5> HIDE DEF q
        <5>2. \A i \in DOMAIN Tail(q) : i + 1 \in DOMAIN q /\ Tail(q)[i] = q[i + 1]
          BY <5>1
        <5>3. ToSet(Tail(q)) \subseteq ToSet(q)
          BY <5>2 DEF ToSet
        <5>4. QED
          BY <5>3 DEF q
      <4>4. QED
        BY <4>1, <4>2, <4>3
    <3>2. CASE ~(SweepNext(s) \/ SweepClose(s))
      <4>1. \E label \in {"scan", "restartRecap", "persist", "dailyRecap", "idle"} :
              pc' = [pc EXCEPT ![s] = label]
        BY <1>6, <3>2 DEF Sweep, SweepStart, DailyIdle, DailySwap, DailyRetry,
             SweepPersist, RestartRecapSent, DailySent, Goto
      <4>2. QED
        BY <1>1, <4>1 DEF Tables, Memory
    <3>3. QED
      BY <3>1, <3>2
  <2>3. \A t \in Sweeps : pc'[t] \in {"close", "closing"} =>
           /\ pc[t] \in {"close", "closing"} /\ seen'[t].now = seen[t].now
           /\ ToSet(seen'[t].todo) \subseteq ToSet(seen[t].todo)
    BY <2>1, <2>2
  <2>4. QED
    BY <1>2, <1>3, <1>4, <2>3, EarlyKept
<1>7. QED
  BY <1>5, <1>6

\* A restart reads windows back whose openers are past their handlers, and the
\* sweeps start with no list.
LEMMA EarlyRestart ==
  ASSUME EarlyInv, Tables, Deploy \/ Crash PROVE EarlyInv'
<1>1. disk' = disk \/ disk' = Snapshot
  BY DEF Deploy, Crash, ExportState
<1>2. Boot(disk')
  BY DEF Deploy, Crash
<1>3. \A d \in Deliveries : Opened(pc, d) => Opened(pc', d)
  BY <1>2, PayloadTyped DEF Opened, Boot
<1>4. OpenersIn(disk'.windows, pc)
  <2>1. CASE disk' = disk
    BY <2>1 DEF EarlyInv
  <2>2. CASE disk' = Snapshot
    <3>1. ASSUME NEW b \in Alerts, disk'.windows[b].open
          PROVE  windows[b].open /\ disk'.windows[b].openedBy = windows[b].openedBy
      <4>1. disk'.windows[b] = IF Live(b) THEN Serialized(windows[b]) ELSE NoWindow
        BY <2>2 DEF Snapshot
      <4>2. Live(b) /\ windows[b] \in GoodWindow
        BY <3>1, <4>1, NoWindowGood DEF Tables, MapOrdered
      <4>3. QED
        BY <4>1, <4>2, SerializedGood DEF Live
    <3>2. QED
      BY <3>1 DEF EarlyInv, OpenersIn
  <2>3. QED
    BY <1>1, <2>1, <2>2
<1>5. OpenersIn(disk'.windows, pc')
  BY <1>3, <1>4 DEF OpenersIn
<1>6. OpenersIn(windows', pc')
  <2>1. \A b \in Alerts : windows'[b].open => windows'[b] = disk'.windows[b]
    BY <1>2, NoWindowGood DEF Boot
  <2>2. QED
    BY <1>5, <2>1 DEF OpenersIn
<1>7. \A s \in Sweeps : pc'[s] = "idle"
  BY <1>2 DEF Boot, Procs
<1>8. QED
  BY <1>5, <1>6, <1>7 DEF EarlyInv

LEMMA EarlyInit == Init => EarlyInv
<1> SUFFICES ASSUME Init PROVE EarlyInv
  OBVIOUS
<1>1. \A a \in Alerts : ~windows[a].open /\ ~disk.windows[a].open
  BY NoWindowGood DEF Init, NoWindows, NoDisk
<1>2. \A s \in Sweeps : pc[s] = "idle"
  BY DEF Init, Procs
<1>3. QED
  BY <1>1, <1>2 DEF EarlyInv, OpenersIn

LEMMA EarlyStep == EarlyInv /\ Tables /\ LockInv /\ [Next]_vars => EarlyInv'
<1> SUFFICES ASSUME EarlyInv, Tables, LockInv, [Next]_vars PROVE EarlyInv'
  OBVIOUS
<1>1. CASE Tick \/ UNCHANGED vars
  <2>1. windows' = windows /\ disk' = disk /\ pc' = pc /\ seen' = seen
    BY <1>1 DEF Tick, vars, windowVars
  <2>2. QED
    BY <2>1 DEF EarlyInv, OpenersIn, ListRight
<1>2. QED
  BY <1>1, EarlyHandler, EarlySweep, EarlyRestart DEF Next, Running

\* A sweep that closes a window finds it over by the time the sweep read when it
\* started, although a handler may have replaced the window it had listed.
THEOREM RunningWindowsKept == Spec => NoWindowClosedEarly
<1> DEFINE Inv == EarlyInv /\ Tables /\ LockInv
           Early == \A a \in Alerts, s \in Sweeps :
                      pc[s] = "closing" /\ pc'[s] = "close" /\ windows[a].open /\ ~windows'[a].open =>
                        windows[a].expiresAt <= seen[s].now
<1>1. Init => Inv
  BY EarlyInit, TablesInit, LockInit
<1>2. Inv /\ [Next]_vars => Inv'
  BY EarlyStep, TablesStep, LockStep
<1>3. Inv /\ [Next]_vars => [Early]_vars
  <2> SUFFICES ASSUME Inv, Next, NEW a \in Alerts, NEW s \in Sweeps, pc[s] = "closing",
                      pc'[s] = "close", windows[a].open, ~windows'[a].open
               PROVE  windows[a].expiresAt <= seen[s].now
    OBVIOUS
  <2>1. s \in Procs /\ s \notin Deliveries /\ seen[s] \in SeenType
    BY PayloadAssumption DEF Procs, Tables, Memory
  <2>2. SweepClose(s)
    <3>1. ~Deploy /\ ~Crash
      <4>1. ASSUME NEW file, Boot(file) PROVE FALSE
        BY <2>1, <4>1 DEF Boot
      <4>2. QED
        BY <4>1 DEF Deploy, Crash
    <3>2. ~Tick
      BY DEF Tick
    <3>3. ASSUME NEW d \in Deliveries, Receive(d) \/ Handle(d) PROVE FALSE
      <4>1. \E label : pc' = [pc EXCEPT ![d] = label]
        BY <3>3 DEF Receive, Handle, Identify, Defer, Announce, Repeat, Announced, Escalated, Answer, Goto
      <4>2. QED
        BY <2>1, <4>1
    <3>4. PICK t \in Sweeps : Sweep(t)
      BY <3>1, <3>2, <3>3 DEF Next, Running
    <3>5. t = s
      <4>1. pc' = pc \/ \E label : pc' = [pc EXCEPT ![t] = label]
        BY <3>4 DEF Sweep, SweepStart, SweepScan, SweepNext, SweepClose, DailyIdle, DailySwap,
           DailyRetry, SweepPersist, RestartRecapSent, DailySent, Goto
      <4>2. pc'[s] # pc[s]
        OBVIOUS
      <4>3. QED
        BY <2>1, <4>1, <4>2 DEF Tables, Memory
    <3>6. QED
      BY <3>4, <3>5 DEF Sweep, SweepStart, SweepScan, SweepNext, SweepClose, DailyIdle, DailySwap,
         DailyRetry, SweepPersist, RestartRecapSent, DailySent, AtDaily
  <2> DEFINE x == Head(seen[s].todo)
  <2>3. a = x.alert /\ windows[a].openedBy = x.window
    <3>1. IF SameWindow(windows[x.alert], x) THEN windows' = Closed(x.alert) ELSE windows' = windows
      BY <2>2 DEF SweepClose, windowVars
    <3> HIDE DEF x
    <3>2. SameWindow(windows[x.alert], x) /\ windows' = Closed(x.alert)
      BY <3>1
    <3>3. windows \in [Alerts -> GoodWindow]
      BY DEF Tables, MapOrdered
    <3>4. a = x.alert
      BY <3>2, <3>3 DEF Closed
    <3>5. QED
      BY <3>2, <3>4 DEF SameWindow
  <2>4. x \in ToSet(seen[s].todo)
    <3>1. seen[s].todo \in Seq(TodoType) /\ seen[s].todo # <<>>
      BY <2>1 DEF Tables, Memory, SeenType
    <3>2. 1 \in DOMAIN seen[s].todo /\ x = seen[s].todo[1]
      BY <3>1
    <3>3. QED
      BY <3>2 DEF ToSet
  <2>5. ListRight(s)
    BY DEF EarlyInv
  <2> HIDE DEF x
  <2>6. QED
    BY <2>3, <2>4, <2>5 DEF ListRight
<1>4. Spec => [][Early]_vars
  <2> HIDE DEF Inv, Early
  <2>1. QED
    BY <1>1, <1>2, <1>3, PTL DEF Spec
<1>5. QED
  BY <1>4 DEF NoWindowClosedEarly

-----------------------------------------------------------------------------
(* What is counted in the reports.                                           *)

\* A recap is pending or there is none; what is settled is a count.
ReportInv == closed \in [Keys -> Nat] /\ (pendingRecap.held \/ pendingRecap = NoPending)

\* A tally that is typed counts.
LEMMA TallyCounts ==
  ASSUME NEW tally \in TallyType, NEW k \in Keys
  PROVE  tally.deliveries[k] \in Nat
  BY DEF TallyType

LEMMA EmptyCounts ==
  ASSUME NEW k \in Keys
  PROVE  EmptyTally.deliveries[k] = 0 /\ NoPending.tally.deliveries[k] = 0 /\ NoPending.held = FALSE
  BY DEF EmptyTally, NoPending

LEMMA PendingCounts ==
  ASSUME NEW p \in PendingType, NEW k \in Keys PROVE p.tally.deliveries[k] \in Nat
  BY DEF PendingType, TallyType

\* Sweeps move what is counted from the period to the recap and on, and lose
\* nothing.
LEMMA SweepConserves ==
  ASSUME Tables, ReportInv, NEW s \in Sweeps, Sweep(s)
  PROVE  ReportInv' /\ \A k \in Keys : TimesCounted(k)' = TimesCounted(k)
<1> DEFINE Same == \A k \in Keys : TimesCounted(k)' = TimesCounted(k)
<1>1. \A k \in Keys : /\ closed[k] \in Nat /\ daily.deliveries[k] \in Nat
                      /\ pendingRecap.tally.deliveries[k] \in Nat
  BY TallyCounts, PendingCounts DEF ReportInv, Tables, Recaps
<1>2. CASE DailySwap(s)
  <2>1. ~pendingRecap.held /\ daily' = EmptyTally
    BY <1>2 DEF DailySwap
  <2>2. pendingRecap = NoPending
    BY <2>1 DEF ReportInv
  <2>3. CASE daily.signatures = {}
    <3>1. pendingRecap' = pendingRecap /\ closed' = [k \in Keys |-> closed[k] + daily.deliveries[k]]
      BY <1>2, <2>3 DEF DailySwap, Settle
    <3>2. closed' \in [Keys -> Nat] /\ \A k \in Keys : closed'[k] = closed[k] + daily.deliveries[k]
      BY <1>1, <3>1
    <3>3. Same
      <4> SUFFICES ASSUME NEW k \in Keys PROVE TimesCounted(k)' = TimesCounted(k)
        OBVIOUS
      <4>1. /\ daily'.deliveries[k] = 0 /\ pendingRecap'.tally.deliveries[k] = pendingRecap.tally.deliveries[k]
            /\ closed'[k] = closed[k] + daily.deliveries[k]
        BY <2>1, <3>1, <3>2, EmptyCounts
      <4>2. closed[k] \in Nat /\ daily.deliveries[k] \in Nat /\ pendingRecap.tally.deliveries[k] \in Nat
        BY <1>1
      <4>3. QED
        BY <4>1, <4>2 DEF TimesCounted
    <3>4. QED
      BY <2>2, <3>1, <3>2, <3>3 DEF ReportInv
  <2>4. CASE daily.signatures # {}
    <3>1. /\ pendingRecap' = [held |-> TRUE, tally |-> daily, until |-> nextRecapAt]
          /\ closed' = closed
      BY <1>2, <2>4 DEF DailySwap
    <3>2. pendingRecap'.tally = daily /\ pendingRecap'.held
      BY <3>1
    <3>3. Same
      <4> SUFFICES ASSUME NEW k \in Keys PROVE TimesCounted(k)' = TimesCounted(k)
        OBVIOUS
      <4>1. /\ daily'.deliveries[k] = 0 /\ pendingRecap'.tally.deliveries[k] = daily.deliveries[k]
            /\ closed'[k] = closed[k] /\ pendingRecap.tally.deliveries[k] = 0
        BY <2>1, <2>2, <3>1, <3>2, EmptyCounts
      <4>2. closed[k] \in Nat /\ daily.deliveries[k] \in Nat /\ pendingRecap.tally.deliveries[k] \in Nat
        BY <1>1
      <4>3. QED
        BY <4>1, <4>2 DEF TimesCounted
    <3>4. QED
      BY <3>1, <3>2, <3>3 DEF ReportInv
  <2>5. QED
    BY <2>3, <2>4
<1>3. CASE \E answer \in Answers : DailySent(s, answer)
  <2>1. daily' = daily
    BY <1>3 DEF DailySent, TallyAfterRecap
  <2>2. CASE pendingRecap' = pendingRecap /\ closed' = closed
    BY <2>1, <2>2 DEF ReportInv, TimesCounted
  <2>3. CASE pendingRecap' = NoPending /\ Settle(pendingRecap.tally)
    <3>1. /\ closed' \in [Keys -> Nat]
          /\ \A k \in Keys : closed'[k] = closed[k] + pendingRecap.tally.deliveries[k]
      BY <1>1, <2>3 DEF Settle
    <3>2. Same
      <4> SUFFICES ASSUME NEW k \in Keys PROVE TimesCounted(k)' = TimesCounted(k)
        OBVIOUS
      <4>1. /\ daily'.deliveries[k] = daily.deliveries[k] /\ pendingRecap'.tally.deliveries[k] = 0
            /\ closed'[k] = closed[k] + pendingRecap.tally.deliveries[k]
        BY <2>1, <2>3, <3>1, EmptyCounts
      <4>2. closed[k] \in Nat /\ daily.deliveries[k] \in Nat /\ pendingRecap.tally.deliveries[k] \in Nat
        BY <1>1
      <4>3. QED
        BY <4>1, <4>2 DEF TimesCounted
    <3>3. QED
      BY <2>3, <3>1, <3>2 DEF ReportInv
  <2>4. QED
    BY <1>3, <2>2, <2>3 DEF DailySent
<1>4. CASE DailyRetry(s)
  <2>1. /\ daily' = daily /\ closed' = closed /\ pendingRecap.held
        /\ pendingRecap' = [pendingRecap EXCEPT !.tally = pendingRecap.tally]
    BY <1>4 DEF DailyRetry, RetryTally, ghostVars
  <2>2. pendingRecap' = pendingRecap
    BY <2>1 DEF Tables, Recaps, PendingType
  <2>3. QED
    BY <2>1, <2>2 DEF ReportInv, TimesCounted
<1>5. CASE ~DailySwap(s) /\ ~DailyRetry(s) /\ ~(\E answer \in Answers : DailySent(s, answer))
  <2>1. daily' = daily /\ closed' = closed /\ pendingRecap' = pendingRecap
    BY <1>5 DEF Sweep, SweepStart, SweepScan, SweepNext, SweepClose, DailyIdle, SweepPersist,
       RestartRecapSent, recapVars, ghostVars
  <2>2. QED
    BY <2>1 DEF ReportInv, TimesCounted
<1>6. QED
  BY <1>2, <1>3, <1>4, <1>5

\* Handlers only add to the live tally.
LEMMA ReportStep == ReportInv /\ Tables /\ [Next]_vars => ReportInv'
<1> SUFFICES ASSUME ReportInv, Tables, [Next]_vars PROVE ReportInv'
  OBVIOUS
<1>1. CASE \E d \in Deliveries : Receive(d) \/ Handle(d)
  <2>1. closed' = closed /\ pendingRecap' = pendingRecap
    BY <1>1 DEF Receive, Handle, Identify, Defer, Announce, Repeat, Announced, Escalated, recapVars,
       ghostVars
  <2>2. QED
    BY <2>1 DEF ReportInv
<1>2. CASE Tick \/ UNCHANGED vars
  <2>1. closed' = closed /\ pendingRecap' = pendingRecap
    BY <1>2 DEF Tick, vars, recapVars, ghostVars
  <2>2. QED
    BY <2>1 DEF ReportInv
<1>3. CASE Deploy \/ Crash
  <2>1. closed' = closed /\ \E file : Boot(file)
    BY <1>3 DEF Deploy, Crash
  <2>2. pendingRecap'.held \/ pendingRecap' = NoPending
    BY <2>1 DEF Boot
  <2>3. QED
    BY <2>1, <2>2 DEF ReportInv
<1>4. CASE \E s \in Sweeps : Sweep(s)
  BY <1>4, SweepConserves
<1>5. QED
  BY <1>1, <1>2, <1>3, <1>4 DEF Next, Running

\* With a state file a deploy carries on with what was counted, as long as the
\* recap is less than a day late: whatever send is under way, and whatever an
\* earlier process left on disk.
THEOREM DeploysKeepCounts == StateFile => (Spec => DeployLosesNothing)
<1> SUFFICES ASSUME StateFile PROVE Spec => DeployLosesNothing
  OBVIOUS
<1> DEFINE Inv == ReportInv /\ Tables /\ LockInv
           Kept == Deploy /\ Recent => \A k \in Keys : TimesCounted(k)' >= TimesCounted(k)
<1>1. Init => Inv
  <2>1. Init => ReportInv
    BY DEF Init, ReportInv
  <2>2. QED
    BY <2>1, TablesInit, LockInit
<1>2. Inv /\ [Next]_vars => Inv'
  BY ReportStep, TablesStep, LockStep
<1>3. Inv /\ [Next]_vars => [Kept]_vars
  <2> SUFFICES ASSUME Inv, Deploy, Recent, NEW k \in Keys
               PROVE  TimesCounted(k)' >= TimesCounted(k)
    OBVIOUS
  <2>1. Boot(Snapshot) /\ closed' = closed
    BY DEF Deploy, ExportState
  <2>2. /\ Snapshot.saved = TRUE /\ Snapshot.daily = daily /\ Snapshot.nextRecapAt = nextRecapAt
        /\ Snapshot.pendingRecap = pendingRecap
    BY DEF Snapshot
  <2>3. daily' = daily
    BY <2>1, <2>2 DEF Boot, Recent
  <2>4. pendingRecap' = pendingRecap
    BY <2>1, <2>2 DEF Boot, Recent, ReportInv
  <2>5. /\ closed[k] \in Nat /\ daily.deliveries[k] \in Nat
        /\ pendingRecap.tally.deliveries[k] \in Nat
    BY TallyCounts, PendingCounts DEF ReportInv, Tables, Recaps
  <2>6. QED
    BY <2>1, <2>3, <2>4, <2>5 DEF TimesCounted
<1>4. Spec => [][Kept]_vars
  <2> HIDE DEF Inv, Kept
  <2>1. QED
    BY <1>1, <1>2, <1>3, PTL DEF Spec
<1>5. QED
  BY <1>4 DEF DeployLosesNothing

-----------------------------------------------------------------------------
(* Each payload is counted once, as long as its key is remembered.           *)

\* Filtering by what is true of every entry changes nothing.
LEMMA FilterAll ==
  ASSUME NEW S, NEW s \in Seq(S), NEW T, ToSet(s) \subseteq T
  PROVE  Filter(s, T) = s
<1>1. PICK f : KeptOf(s, T, Len(s), f) /\ Filter(s, T) = f[Len(s)]
  BY FilterRec
<1>2. \A k \in 1..Len(s) : s[k] \in T
  BY DEF ToSet
<1> DEFINE D == {i \in 0..Len(s) : /\ f[i] \in Seq(S) /\ Len(f[i]) = i
                                   /\ \A j \in 1..i : f[i][j] = s[j]}
<1>3. 0 \in D
  <2>1. f[0] = <<>> /\ 0 \in 0..Len(s)
    BY <1>1 DEF KeptOf
  <2>2. <<>> \in Seq(S) /\ Len(<<>>) = 0 /\ 1..0 = {}
    OBVIOUS
  <2>3. QED
    BY <2>1, <2>2
<1>4. ASSUME NEW i \in 0..Len(s), i \in D, i < Len(s) PROVE i + 1 \in D
  <2>1. i + 1 \in 0..Len(s) /\ i + 1 # 0 /\ (i + 1) - 1 = i /\ i + 1 \in 1..Len(s)
    BY <1>4
  <2>2. f[i+1] = Append(f[i], s[i+1])
    BY <1>1, <1>2, <2>1 DEF KeptOf
  <2>3. f[i] \in Seq(S) /\ Len(f[i]) = i /\ \A j \in 1..i : f[i][j] = s[j]
    BY <1>4
  <2> DEFINE r == f[i]
             e == s[i+1]
  <2>4. e \in S
    BY <2>1
  <2> HIDE DEF r, e
  <2>5. /\ Append(r, e) \in Seq(S) /\ Len(Append(r, e)) = i + 1
        /\ \A j \in 1..i : Append(r, e)[j] = r[j]
        /\ Append(r, e)[i+1] = e
    BY <2>1, <2>3, <2>4 DEF r
  <2>6. \A j \in 1..(i+1) : j \in 1..i \/ j = i + 1
    BY <2>1
  <2>7. QED
    BY <2>1, <2>2, <2>3, <2>5, <2>6 DEF r, e
<1>5. Len(s) \in Nat /\ Len(s) \in 0..Len(s)
  OBVIOUS
<1> HIDE DEF D
<1>6. Len(s) \in D
  BY <1>3, <1>4, <1>5, InductionUpTo
<1>7. /\ f[Len(s)] \in Seq(S) /\ Len(f[Len(s)]) = Len(s)
      /\ \A j \in 1..Len(s) : f[Len(s)][j] = s[j]
  BY <1>6 DEF D
<1>8. QED
  BY <1>1, <1>7

\* Nothing makes the relay forget the key of a delivery: no restart, no expiry
\* and no key more than the cache has room for.
Remembering ==
  /\ MaxRestarts = 0
  /\ IdempotencyTtlMs > MaxTime
  /\ IsFiniteSet(Keys) /\ Cardinality(Keys) <= MaxCacheEntries

HasKey(cache, k) == \E i \in DOMAIN cache : cache[i].key = k

\* Entries are of different keys and outlast the clock.
CacheApart(cache) ==
  /\ \A i, j \in DOMAIN cache : cache[i].key = cache[j].key => i = j
  /\ \A i \in DOMAIN cache : cache[i].expires > MaxTime

\* A handler between its look at the cache and its entry holds the lock of its
\* key, and nobody has entered that key.
Holding(at, locks, cache, d) ==
  at[d] \in {"event", "sending"} =>
    /\ AtHead(locks[KeyOf(d)], d)
    /\ ~HasKey(cache, KeyOf(d)) /\ KeyOf(d) \notin Recoveries

Arrived(at, k) == \E d \in Deliveries : IdemKeyOf[d] = k /\ at[d] \in {"ok", "escalating"}

CountInv ==
  /\ restarts = 0
  /\ CacheApart(idempotencyKeys)
  /\ \A d \in Deliveries : Holding(pc, idemLocks, idempotencyKeys, d)
  /\ \A k \in Keys \ Recoveries :
       /\ HasKey(idempotencyKeys, k) <=> Arrived(pc, k)
       /\ TimesCounted(k) = IF HasKey(idempotencyKeys, k) THEN 1 ELSE 0

\* A cache in which every entry has its own key, and k has none, has room.
LEMMA RoomForNew ==
  ASSUME Remembering, CacheKept, CacheApart(idempotencyKeys), NEW k \in Keys,
         ~HasKey(idempotencyKeys, k)
  PROVE  Len(idempotencyKeys) < MaxCacheEntries
<1> DEFINE n == Len(idempotencyKeys)
           f == [i \in 1..n |-> idempotencyKeys[i].key]
<1>1. n \in Nat /\ DOMAIN idempotencyKeys = 1..n
  BY DEF CacheKept
<1>2. f \in [1..n -> Keys \ {k}]
  <2>1. ASSUME NEW i \in 1..n PROVE idempotencyKeys[i].key \in Keys \ {k}
    <3>1. idempotencyKeys[i] \in EntryType
      BY <1>1 DEF CacheKept
    <3>2. QED
      BY <1>1, <3>1 DEF EntryType, HasKey
  <2>2. QED
    BY <2>1
<1>3. \A i, j \in 1..n : f[i] = f[j] => i = j
  BY <1>1 DEF CacheApart
<1>4. /\ IsFiniteSet(Keys \ {k}) /\ Cardinality(Keys \ {k}) = Cardinality(Keys) - 1
      /\ Cardinality(Keys) \in Nat
  BY FS_RemoveElement, FS_CardinalityType DEF Remembering
<1>5. IsFiniteSet(1..n) /\ Cardinality(1..n) = n
  <2>1. IsFiniteSet(1..n) /\ Cardinality(1..n) = IF 1 > n THEN 0 ELSE n - 1 + 1
    BY <1>1, FS_Interval
  <2>2. QED
    BY <1>1, <2>1
<1> HIDE DEF f, n
<1>6. ~(Cardinality(Keys \ {k}) < Cardinality(1..n))
  <2> SUFFICES ASSUME Cardinality(Keys \ {k}) < Cardinality(1..n) PROVE FALSE
    OBVIOUS
  <2> DEFINE S == 1..n
             T == Keys \ {k}
  <2>1. IsFiniteSet(S) /\ IsFiniteSet(T) /\ Cardinality(T) < Cardinality(S) /\ f \in [S -> T]
    BY <1>2, <1>4, <1>5
  <2>2. \A i, j \in S : f[i] = f[j] => i = j
    BY <1>3
  <2> HIDE DEF S, T
  <2>3. \E i, j \in S : i # j /\ f[i] = f[j]
    BY <2>1, FS_PigeonHole
  <2>4. QED
    BY <2>2, <2>3
<1>7. n < MaxCacheEntries
  BY <1>1, <1>4, <1>5, <1>6, OptionsTyped DEF Remembering
<1>8. QED
  BY <1>7 DEF n

\* So a new key is added at the end, and every other one is still there.
LEMMA NewKeyAdded ==
  ASSUME Remembering, CacheKept, CacheApart(idempotencyKeys), NEW k \in Keys, NEW now \in Nat,
         ~HasKey(idempotencyKeys, k), Remember(k, now)
  PROVE  /\ CacheApart(idempotencyKeys')
         /\ \A j : HasKey(idempotencyKeys', j) <=> HasKey(idempotencyKeys, j) \/ j = k
<1> DEFINE cache == idempotencyKeys
           entry == [key |-> k, expires |-> now + IdempotencyTtlMs]
           others == Filter(cache, {e \in ToSet(cache) : e.key # k})
<1>1. cache \in Seq(EntryType) /\ Len(cache) \in Nat /\ Len(cache) < MaxCacheEntries
      /\ DOMAIN cache = 1..Len(cache)
  BY RoomForNew DEF CacheKept
<1>2. others = cache
  <2>1. ToSet(cache) \subseteq {e \in ToSet(cache) : e.key # k}
    BY DEF ToSet, HasKey
  <2>2. QED
    BY <1>1, <2>1, FilterAll
<1>3. idempotencyKeys' = Append(cache, entry)
  <2>1. ~(Len(cache) >= MaxCacheEntries) /\ ~(Len(cache) < Len(cache))
    BY <1>1, OptionsTyped
  <2>2. QED
    BY <1>2, <2>1 DEF Remember, CacheSet, RoomFor
<1>4. entry \in EntryType /\ entry.key = k /\ entry.expires > MaxTime
  <2>1. IdempotencyTtlMs \in Nat /\ MaxTime \in Nat /\ IdempotencyTtlMs > MaxTime
    BY OptionsTyped DEF Remembering
  <2>2. QED
    BY <2>1 DEF EntryType
<1> DEFINE q == Append(cache, entry)
<1> HIDE DEF entry, others
<1>5. /\ q \in Seq(EntryType) /\ DOMAIN q = 1..(Len(cache) + 1)
      /\ q[Len(cache) + 1] = entry /\ \A i \in 1..Len(cache) : q[i] = cache[i]
      /\ \A i \in 1..(Len(cache) + 1) : i \in 1..Len(cache) \/ i = Len(cache) + 1
      /\ \A i \in 1..Len(cache) : i \in 1..(Len(cache) + 1)
      /\ Len(cache) + 1 \in 1..(Len(cache) + 1)
  BY <1>1, <1>4
<1>6. \A i \in 1..Len(cache) : cache[i].key # k
  BY <1>1 DEF HasKey
<1>7. idempotencyKeys' = q
  BY <1>3
<1> HIDE DEF q, cache
<1>8. CacheApart(q)
  <2>1. \A i, j \in 1..Len(cache) : cache[i].key = cache[j].key => i = j
    BY <1>1 DEF CacheApart, cache
  <2>2. \A i \in 1..Len(cache) : cache[i].expires > MaxTime
    BY <1>1 DEF CacheApart, cache
  <2>3. QED
    BY <1>4, <1>5, <1>6, <2>1, <2>2 DEF CacheApart
<1>9. \A j : HasKey(q, j) <=> HasKey(cache, j) \/ j = k
  <2>1. ASSUME NEW j, HasKey(q, j) PROVE HasKey(cache, j) \/ j = k
    BY <1>1, <1>4, <1>5, <2>1 DEF HasKey
  <2>2. ASSUME NEW j, HasKey(cache, j) PROVE HasKey(q, j)
    BY <1>1, <1>5, <2>2 DEF HasKey
  <2>3. HasKey(q, k)
    BY <1>4, <1>5 DEF HasKey
  <2>4. QED
    BY <2>1, <2>2, <2>3
<1>10. QED
  BY <1>7, <1>8, <1>9 DEF cache

\* Nothing in the cache has expired.
LEMMA NothingExpires ==
  ASSUME Tables, CacheApart(idempotencyKeys)
  PROVE  /\ EvictExpired(idempotencyKeys, clock) = idempotencyKeys
         /\ \A k : CacheHas(idempotencyKeys, k, clock) <=> HasKey(idempotencyKeys, k)
<1>1. \A i \in DOMAIN idempotencyKeys :
        idempotencyKeys[i].expires > clock /\ idempotencyKeys[i] \in EntryType
  <2> SUFFICES ASSUME NEW i \in DOMAIN idempotencyKeys
               PROVE  idempotencyKeys[i].expires > clock /\ idempotencyKeys[i] \in EntryType
    OBVIOUS
  <2>1. idempotencyKeys[i] \in EntryType
    BY DEF Tables, CacheKept
  <2>2. idempotencyKeys[i].expires \in Nat /\ idempotencyKeys[i].expires > MaxTime
    BY <2>1 DEF EntryType, CacheApart
  <2>3. clock \in Nat /\ clock <= MaxTime /\ MaxTime \in Nat
    BY OptionsTyped DEF Tables, Instants
  <2>4. QED
    BY <2>1, <2>2, <2>3
<1>2. ToSet(idempotencyKeys) \subseteq {e \in ToSet(idempotencyKeys) : e.expires > clock}
  BY <1>1 DEF ToSet
<1>3. EvictExpired(idempotencyKeys, clock) = idempotencyKeys
  BY <1>2, FilterAll DEF EvictExpired, Tables, CacheKept
<1>4. QED
  BY <1>1, <1>3 DEF CacheHas, HasKey

\* A handler moves on: what the others know of the cache stays true if only d,
\* holding the lock of its key, adds to it.
LEMMA HoldersKept ==
  ASSUME Tables, CountInv, NEW d \in Deliveries, NEW label, pc' = [pc EXCEPT ![d] = label],
         \/ idemLocks' = idemLocks
         \/ idemLocks' = [idemLocks EXCEPT ![KeyOf(d)] = Append(@, d)]
         \/ idemLocks' = [idemLocks EXCEPT ![KeyOf(d)] = Released(@, d)],
         \A k : HasKey(idempotencyKeys', k) =>
           HasKey(idempotencyKeys, k) \/ (k = KeyOf(d) /\ AtHead(idemLocks[k], d)),
         Holding(pc', idemLocks', idempotencyKeys', d)
  PROVE  \A e \in Deliveries : Holding(pc', idemLocks', idempotencyKeys', e)
<1> SUFFICES ASSUME NEW e \in Deliveries, e # d, pc'[e] \in {"event", "sending"}
             PROVE  /\ AtHead(idemLocks'[KeyOf(e)], e)
                    /\ ~HasKey(idempotencyKeys', KeyOf(e)) /\ KeyOf(e) \notin Recoveries
  BY DEF Holding
<1>1. e \in Procs /\ d \in Procs /\ KeyOf(e) \in Keys /\ KeyOf(d) \in Keys
  BY PayloadTyped
<1>2. pc'[e] = pc[e]
  BY <1>1 DEF Tables, Memory
<1>3. /\ AtHead(idemLocks[KeyOf(e)], e) /\ ~HasKey(idempotencyKeys, KeyOf(e))
      /\ KeyOf(e) \notin Recoveries
  BY <1>2 DEF CountInv, Holding
<1>4. AtHead(idemLocks'[KeyOf(e)], e)
  <2>1. \A q \in Seq(Deliveries) : AtHead(q, e) =>
          AtHead(Append(q, d), e) /\ AtHead(Released(q, d), e)
    BY DEF AtHead, Released
  <2>2. idemLocks \in [Keys -> Seq(Deliveries)]
    BY DEF Tables, Queues
  <2>3. idemLocks'[KeyOf(e)] \in {idemLocks[KeyOf(e)], Append(idemLocks[KeyOf(e)], d),
                                  Released(idemLocks[KeyOf(e)], d)}
    BY <1>1, <2>2
  <2>4. QED
    BY <1>1, <1>3, <2>1, <2>2, <2>3
<1>5. ~HasKey(idempotencyKeys', KeyOf(e))
  BY <1>3 DEF AtHead
<1>6. QED
  BY <1>3, <1>4, <1>5

\* What has been counted stays right if nothing is counted and no delivery is
\* accepted whose key was not in the cache.
LEMMA CountKept ==
  ASSUME Tables, CountInv, NEW d \in Deliveries, NEW label, pc' = [pc EXCEPT ![d] = label],
         \/ idemLocks' = idemLocks
         \/ idemLocks' = [idemLocks EXCEPT ![KeyOf(d)] = Append(@, d)]
         \/ idemLocks' = [idemLocks EXCEPT ![KeyOf(d)] = Released(@, d)],
         idempotencyKeys' = idempotencyKeys, daily' = daily, pendingRecap' = pendingRecap,
         closed' = closed, restarts' = restarts,
         label \in {"event", "sending"} =>
           /\ AtHead(idemLocks'[KeyOf(d)], d)
           /\ ~HasKey(idempotencyKeys, KeyOf(d)) /\ KeyOf(d) \notin Recoveries,
         label \in {"ok", "escalating"} =>
           HasKey(idempotencyKeys, KeyOf(d)) \/ KeyOf(d) \in Recoveries,
         pc[d] \in {"ok", "escalating"} => label \in {"ok", "escalating"}
  PROVE  CountInv'
<1>1. d \in Procs /\ KeyOf(d) \in Keys /\ pc'[d] = label
      /\ \A e \in Deliveries : e # d => pc'[e] = pc[e]
  BY PayloadTyped DEF Tables, Memory
<1>2. \A e \in Deliveries : Holding(pc', idemLocks', idempotencyKeys', e)
  <2>1. Holding(pc', idemLocks', idempotencyKeys', d)
    BY <1>1 DEF Holding
  <2>2. QED
    BY <2>1, HoldersKept
<1>3. ASSUME NEW k \in Keys \ Recoveries
      PROVE  /\ HasKey(idempotencyKeys', k) <=> Arrived(pc', k)
             /\ TimesCounted(k)' = IF HasKey(idempotencyKeys', k) THEN 1 ELSE 0
  <2>1. Arrived(pc', k) <=> Arrived(pc, k)
    <3>1. ASSUME Arrived(pc', k) PROVE Arrived(pc, k)
      <4>1. PICK e \in Deliveries : IdemKeyOf[e] = k /\ pc'[e] \in {"ok", "escalating"}
        BY <3>1 DEF Arrived
      <4>2. CASE e # d
        BY <1>1, <4>1, <4>2 DEF Arrived
      <4>3. CASE e = d
        <5>1. HasKey(idempotencyKeys, k)
          BY <1>1, <4>1, <4>3 DEF KeyOf
        <5>2. QED
          BY <5>1 DEF CountInv
      <4>4. QED
        BY <4>2, <4>3
    <3>2. ASSUME Arrived(pc, k) PROVE Arrived(pc', k)
      BY <1>1, <3>2 DEF Arrived
    <3>3. QED
      BY <3>1, <3>2
  <2>2. QED
    BY <2>1 DEF CountInv, TimesCounted
<1>4. QED
  BY <1>2, <1>3 DEF CountInv

\* A delivery that holds the lock of its key, which nobody has entered, enters it;
\* unless it is a recovery it is counted in the same step.
LEMMA CountEntered ==
  ASSUME Tables, CountInv, ReportInv, Remembering, NEW d \in Deliveries, NEW label \in {"ok", "escalating"},
         NEW now \in Nat, NEW added, pc' = [pc EXCEPT ![d] = label],
         \/ idemLocks' = idemLocks
         \/ idemLocks' = [idemLocks EXCEPT ![KeyOf(d)] = Released(@, d)],
         AtHead(idemLocks[KeyOf(d)], d), ~HasKey(idempotencyKeys, KeyOf(d)),
         Remember(KeyOf(d), now),
         IF KeyOf(d) \in Recoveries THEN daily' = daily ELSE daily' = Counted(daily, KeyOf(d), added),
         pendingRecap' = pendingRecap, closed' = closed, restarts' = restarts
  PROVE  CountInv'
<1>1. d \in Procs /\ KeyOf(d) \in Keys /\ pc'[d] = label
      /\ \A e \in Deliveries : e # d => pc'[e] = pc[e]
  BY PayloadTyped DEF Tables, Memory
<1>2. /\ CacheApart(idempotencyKeys')
      /\ \A j : HasKey(idempotencyKeys', j) <=> HasKey(idempotencyKeys, j) \/ j = KeyOf(d)
  BY <1>1, NewKeyAdded DEF Tables, CountInv
<1>3. \A e \in Deliveries : Holding(pc', idemLocks', idempotencyKeys', e)
  <2>1. Holding(pc', idemLocks', idempotencyKeys', d)
    BY <1>1 DEF Holding
  <2>2. QED
    BY <1>2, <2>1, HoldersKept
<1>4. \A k \in Keys : /\ closed[k] \in Nat /\ daily.deliveries[k] \in Nat
                      /\ pendingRecap.tally.deliveries[k] \in Nat
  BY TallyCounts, PendingCounts DEF ReportInv, Tables, Recaps
<1>5. ASSUME NEW k \in Keys \ Recoveries
      PROVE  /\ HasKey(idempotencyKeys', k) <=> Arrived(pc', k)
             /\ TimesCounted(k)' = IF HasKey(idempotencyKeys', k) THEN 1 ELSE 0
  <2>1. CASE k = KeyOf(d)
    <3>1. Arrived(pc', k)
      BY <1>1, <2>1 DEF Arrived, KeyOf
    <3>2. daily'.deliveries[k] = daily.deliveries[k] + 1
      BY <1>1, <2>1 DEF Counted, Tables, Recaps, TallyType
    <3>3. TimesCounted(k) = 0
      BY <2>1 DEF CountInv
    <3>4. TimesCounted(k)' = 1
      BY <1>4, <3>2, <3>3 DEF TimesCounted
    <3>5. QED
      BY <1>2, <2>1, <3>1, <3>4
  <2>2. CASE k # KeyOf(d)
    <3>1. Arrived(pc', k) <=> Arrived(pc, k)
      BY <1>1, <2>2 DEF Arrived, KeyOf
    <3>2. daily'.deliveries[k] = daily.deliveries[k]
      BY <1>1, <2>2 DEF Counted, Tables, Recaps, TallyType
    <3>3. QED
      BY <1>2, <2>2, <3>1, <3>2 DEF CountInv, TimesCounted
  <2>3. QED
    BY <2>1, <2>2
<1>6. QED
  BY <1>2, <1>3, <1>5 DEF CountInv

\* A request arrives and identifies itself.
LEMMA CountArrival ==
  ASSUME Tables, CountInv, ReportInv, Remembering, NEW d \in Deliveries, Receive(d) \/ Identify(d)
  PROVE  CountInv'
<1>1. d \in Procs /\ KeyOf(d) \in Keys /\ clock \in Nat
  BY PayloadTyped, OptionsTyped DEF Tables, Instants
<1>2. daily' = daily /\ pendingRecap' = pendingRecap /\ closed' = closed /\ restarts' = restarts
  BY DEF Receive, Identify, recapVars, ghostVars
<1>3. CASE Receive(d)
  <2>1. /\ pc' = [pc EXCEPT ![d] = "idem"] /\ idempotencyKeys' = idempotencyKeys /\ pc[d] = "idle"
        /\ idemLocks' = [idemLocks EXCEPT ![KeyOf(d)] = Append(@, d)]
    BY <1>3 DEF Receive, Goto
  <2>2. QED
    BY <1>2, <2>1, CountKept
<1>4. CASE Identify(d)
  <2>1. pc[d] = "idem" /\ AtHead(idemLocks[KeyOf(d)], d)
    BY <1>4 DEF Identify, HoldsIdem
  <2>2. CacheHas(idempotencyKeys, KeyOf(d), clock) <=> HasKey(idempotencyKeys, KeyOf(d))
    BY NothingExpires DEF CountInv
  <2>3. CASE HasKey(idempotencyKeys, KeyOf(d))
    <3>1. /\ idempotencyKeys' = idempotencyKeys /\ pc' = [pc EXCEPT ![d] = "ok"]
          /\ idemLocks' = [idemLocks EXCEPT ![KeyOf(d)] = Released(@, d)]
      BY <1>4, <2>2, <2>3 DEF Identify, Answer, Goto
    <3>2. QED
      BY <1>2, <2>3, <3>1, CountKept
  <2>4. CASE ~HasKey(idempotencyKeys, KeyOf(d)) /\ KeyOf(d) \in Recoveries
    <3>1. /\ Remember(KeyOf(d), clock) /\ pc' = [pc EXCEPT ![d] = "ok"]
          /\ idemLocks' = [idemLocks EXCEPT ![KeyOf(d)] = Released(@, d)]
      BY <1>4, <2>2, <2>4 DEF Identify, Answer, Goto
    <3>2. QED
      BY <1>1, <1>2, <2>1, <2>4, <3>1, CountEntered
  <2>5. CASE ~HasKey(idempotencyKeys, KeyOf(d)) /\ KeyOf(d) \notin Recoveries
    <3>1. /\ idempotencyKeys' = idempotencyKeys /\ pc' = [pc EXCEPT ![d] = "event"]
          /\ idemLocks' = idemLocks
      BY <1>4, <2>2, <2>5 DEF Identify, Goto
    <3>2. QED
      BY <1>2, <2>1, <2>5, <3>1, CountKept
  <2>6. QED
    BY <2>3, <2>4, <2>5
<1>5. QED
  BY <1>3, <1>4

\* A delivery is counted when its alert is held back, repeated or accepted.
LEMMA CountHandler ==
  ASSUME Tables, CountInv, ReportInv, Remembering, NEW d \in Deliveries,
         \/ Defer(d) \/ Announce(d) \/ Repeat(d)
         \/ \E answer \in Answers : Announced(d, answer) \/ Escalated(d, answer)
  PROVE  CountInv'
<1>1. d \in Procs /\ KeyOf(d) \in Keys /\ seen[d].now \in Nat
  BY PayloadTyped DEF Tables, Memory, SeenType
<1>2. pendingRecap' = pendingRecap /\ closed' = closed /\ restarts' = restarts
  BY DEF Defer, Announce, Repeat, Announced, Escalated, recapVars, ghostVars
<1>3. pc[d] \in {"event", "sending"} =>
        /\ AtHead(idemLocks[KeyOf(d)], d) /\ ~HasKey(idempotencyKeys, KeyOf(d))
        /\ KeyOf(d) \notin Recoveries
  BY DEF CountInv, Holding
<1>4. CASE Defer(d) \/ Repeat(d)
  <2>1. /\ pc[d] = "event" /\ Remember(KeyOf(d), seen[d].now)
        /\ \E added : daily' = Counted(daily, KeyOf(d), added)
    BY <1>4 DEF Defer, Repeat, Opens
  <2>2. \E label \in {"ok", "escalating"} : pc' = [pc EXCEPT ![d] = label]
    BY <1>4 DEF Defer, Repeat, Answer, Goto
  <2>3. \/ idemLocks' = idemLocks
        \/ idemLocks' = [idemLocks EXCEPT ![KeyOf(d)] = Released(@, d)]
    BY <1>4 DEF Defer, Repeat, Answer, lockVars
  <2>4. QED
    BY <1>1, <1>2, <1>3, <2>1, <2>2, <2>3, CountEntered
<1>5. CASE Announce(d)
  <2>1. /\ pc[d] = "event" /\ pc' = [pc EXCEPT ![d] = "sending"] /\ idemLocks' = idemLocks
        /\ idempotencyKeys' = idempotencyKeys /\ daily' = daily
    BY <1>5 DEF Announce, Opens, Goto, lockVars, recapVars
  <2>2. QED
    BY <1>2, <1>3, <2>1, CountKept
<1>6. ASSUME NEW answer \in Answers, Announced(d, answer) PROVE CountInv'
  <2>1. pc[d] = "sending"
    BY <1>6 DEF Announced
  <2>2. CASE Registered(answer)
    <3>1. /\ Remember(KeyOf(d), seen[d].now) /\ daily' = Counted(daily, KeyOf(d), 1)
          /\ pc' = [pc EXCEPT ![d] = "ok"]
          /\ idemLocks' = [idemLocks EXCEPT ![KeyOf(d)] = Released(@, d)]
      BY <1>6, <2>2 DEF Announced, Answer, Goto
    <3>2. QED
      BY <1>1, <1>2, <1>3, <2>1, <3>1, CountEntered
  <2>3. CASE ~Registered(answer)
    <3>1. /\ idempotencyKeys' = idempotencyKeys /\ daily' = daily
          /\ pc' = [pc EXCEPT ![d] = "failed"]
          /\ idemLocks' = [idemLocks EXCEPT ![KeyOf(d)] = Released(@, d)]
      BY <1>6, <2>3 DEF Announced, Answer, Goto
    <3>2. QED
      BY <1>2, <2>1, <3>1, CountKept
  <2>4. QED
    BY <2>2, <2>3
<1>7. ASSUME NEW answer \in Answers, Escalated(d, answer) PROVE CountInv'
  <2>1. /\ pc[d] = "escalating" /\ idempotencyKeys' = idempotencyKeys /\ daily' = daily
        /\ pc' = [pc EXCEPT ![d] = "ok"]
        /\ idemLocks' = [idemLocks EXCEPT ![KeyOf(d)] = Released(@, d)]
    BY <1>7 DEF Escalated, Answer, Goto, recapVars
  <2>2. HasKey(idempotencyKeys, KeyOf(d)) \/ KeyOf(d) \in Recoveries
    <3>1. Arrived(pc, KeyOf(d))
      BY <2>1 DEF Arrived, KeyOf
    <3>2. QED
      BY <1>1, <3>1 DEF CountInv
  <2>3. QED
    BY <1>2, <2>1, <2>2, CountKept
<1>8. QED
  BY <1>4, <1>5, <1>6, <1>7

\* Sweeps forget nothing and count nothing.
LEMMA CountSweep ==
  ASSUME Tables, CountInv, ReportInv, NEW s \in Sweeps, Sweep(s) PROVE CountInv'
<1>1. \A k \in Keys : TimesCounted(k)' = TimesCounted(k)
  BY SweepConserves
<1>2. \A d \in Deliveries : pc'[d] = pc[d]
  <2>1. pc' = pc \/ \E label : pc' = [pc EXCEPT ![s] = label]
    BY DEF Sweep, SweepStart, SweepScan, SweepNext, SweepClose, DailyIdle, DailySwap, DailyRetry,
           SweepPersist, RestartRecapSent, DailySent, Goto
  <2>2. QED
    BY <2>1, PayloadTyped DEF Tables, Memory
<1>3. idempotencyKeys' = idempotencyKeys
  <2>1. CASE SweepStart(s)
    BY <2>1, NothingExpires DEF SweepStart, CountInv
  <2>2. CASE ~SweepStart(s)
    BY <2>2 DEF Sweep, SweepScan, SweepNext, SweepClose, DailyIdle, DailySwap, DailyRetry,
           SweepPersist, RestartRecapSent, DailySent
  <2>3. QED
    BY <2>1, <2>2
<1>4. idemLocks' = idemLocks /\ restarts' = restarts
  BY DEF Sweep, SweepStart, SweepScan, SweepNext, SweepClose, DailyIdle, DailySwap, DailyRetry,
         SweepPersist, RestartRecapSent, DailySent, lockVars
<1>5. \A k : Arrived(pc', k) <=> Arrived(pc, k)
  BY <1>2 DEF Arrived
<1>6. \A d \in Deliveries : Holding(pc', idemLocks', idempotencyKeys', d)
  BY <1>2, <1>3, <1>4 DEF CountInv, Holding
<1>7. QED
  BY <1>1, <1>3, <1>4, <1>5, <1>6 DEF CountInv

\* Every payload is counted exactly once if one of its deliveries was accepted, and
\* not at all otherwise, however retries, sweeps and the change of the period
\* interleave with the sends, until the relay forgets its key.
THEOREM CountedExactlyOnce == Remembering => (Spec => []CountedOnce)
<1> SUFFICES ASSUME Remembering PROVE Spec => []CountedOnce
  OBVIOUS
<1> DEFINE Inv == CountInv /\ ReportInv /\ Tables /\ LockInv
<1>1. Init => Inv
  <2> SUFFICES ASSUME Init PROVE CountInv /\ ReportInv
    BY TablesInit, LockInit
  <2>1. ReportInv
    BY DEF Init, ReportInv
  <2>2. \A d \in Deliveries : pc[d] = "idle"
    BY DEF Init, Procs
  <2>3. idempotencyKeys = <<>> /\ DOMAIN idempotencyKeys = {}
    BY DEF Init
  <2>4. \A k \in Keys : TimesCounted(k) = 0
    <3> SUFFICES ASSUME NEW k \in Keys PROVE TimesCounted(k) = 0
      OBVIOUS
    <3>1. closed[k] = 0 /\ daily = EmptyTally /\ pendingRecap = NoPending
      BY DEF Init
    <3>2. daily.deliveries[k] = 0 /\ pendingRecap.tally.deliveries[k] = 0
      BY <3>1, EmptyCounts
    <3>3. QED
      BY <3>1, <3>2 DEF TimesCounted
  <2>5. \A d \in Deliveries : Holding(pc, idemLocks, idempotencyKeys, d)
    BY <2>2 DEF Holding
  <2>6. \A k : ~HasKey(idempotencyKeys, k) /\ ~Arrived(pc, k)
    BY <2>2, <2>3 DEF HasKey, Arrived
  <2>7. restarts = 0 /\ CacheApart(idempotencyKeys)
    BY <2>3 DEF Init, CacheApart
  <2>8. QED
    BY <2>1, <2>4, <2>5, <2>6, <2>7 DEF CountInv
<1>2. Inv /\ [Next]_vars => Inv'
  <2> SUFFICES ASSUME Inv, [Next]_vars PROVE CountInv'
    BY ReportStep, TablesStep, LockStep
  <2>1. ASSUME NEW d \in Deliveries, Receive(d) \/ Handle(d) PROVE CountInv'
    BY <2>1, CountArrival, CountHandler DEF Handle
  <2>2. ASSUME NEW s \in Sweeps, Sweep(s) PROVE CountInv'
    BY <2>2, CountSweep
  <2>3. CASE Tick \/ UNCHANGED vars
    <3>1. /\ pc' = pc /\ idemLocks' = idemLocks /\ idempotencyKeys' = idempotencyKeys
          /\ restarts' = restarts /\ daily' = daily /\ pendingRecap' = pendingRecap
          /\ closed' = closed
      BY <2>3 DEF Tick, vars, lockVars, recapVars, ghostVars
    <3>2. \A k \in Keys : TimesCounted(k)' = TimesCounted(k)
      BY <3>1 DEF TimesCounted
    <3>3. QED
      BY <3>1, <3>2 DEF CountInv
  <2>4. CASE Deploy \/ Crash
    BY <2>4 DEF Deploy, Crash, CountInv, Remembering
  <2>5. QED
    BY <2>1, <2>2, <2>3, <2>4 DEF Next, Running
<1>3. Inv => CountedOnce
  <2> SUFFICES ASSUME Inv, NEW k \in Keys \ Recoveries
               PROVE  TimesCounted(k) = IF Accepting(k) THEN 1 ELSE 0
    BY DEF CountedOnce
  <2>1. Accepting(k) <=> Arrived(pc, k)
    BY DEF Accepting, Arrived
  <2>2. QED
    BY <2>1 DEF CountInv
<1>4. QED
  <2> HIDE DEF Inv
  <2>1. QED
    BY <1>1, <1>2, <1>3, PTL DEF Spec

-----------------------------------------------------------------------------
(* Who is muted has been told, or is forgotten by the state file.            *)

\* The chat knows of the alert, or is to hear of it in the restart recap, or would
\* be if the state file had said so.
Known(w) == w.told \/ w.deferred \/ w.forgotten

\* The chat knows of every open window, in the relay and on disk.
KnownWindows(ws) == \A a \in Alerts : ws[a].open => Known(ws[a])

ToldInv == KnownWindows(windows) /\ KnownWindows(disk.windows)

\* A window is set, and is known.
LEMMA SetKnown ==
  ASSUME Tables, KnownWindows(windows), NEW a \in Alerts, NEW w, NEW now,
         SetWindow(a, w, now), Known(w)
  PROVE  KnownWindows(windows')
<1>1. MapsTyped
  BY DEF Tables, Memory, MapOrdered, MapsTyped
<1>2. \A b \in Alerts : windows'[b] = NoWindow \/ windows'[b] = IF b = a THEN w ELSE windows[b]
  BY <1>1, SetWindowOthers
<1>3. QED
  BY <1>2, NoWindowGood DEF KnownWindows

\* A window is changed in what does not say whether the chat knows.
LEMMA ChangeKnown ==
  ASSUME Tables, KnownWindows(windows), NEW a \in Alerts, NEW w,
         windows' = [windows EXCEPT ![a] = w], w.open => windows[a].open /\ Known(w)
  PROVE  KnownWindows(windows')
<1>1. \A b \in Alerts : windows'[b] = IF b = a THEN w ELSE windows[b]
  BY DEF Tables, MapOrdered
<1>2. QED
  BY <1>1 DEF KnownWindows

\* What a handler does to the windows: it opens one that the chat was told of, or
\* one that waits for the recap.
LEMMA ToldHandler ==
  ASSUME ToldInv, Tables, NEW d \in Deliveries, Receive(d) \/ Handle(d)
  PROVE  ToldInv'
<1>1. /\ d \in Procs /\ EventOf(d) \in Alerts /\ windows[EventOf(d)] \in WindowType
      /\ windows \in [Alerts -> GoodWindow] /\ seen[d].window \in WindowType
  BY PayloadTyped DEF Tables, MapOrdered, Memory, SeenType, GoodWindow
<1>2. disk' = disk
  BY DEF Receive, Handle, Identify, Defer, Announce, Repeat, Announced, Escalated
<1>3. SUFFICES KnownWindows(windows')
  BY <1>2 DEF ToldInv
<1>4. KnownWindows(windows)
  BY DEF ToldInv
<1>5. windows[EventOf(d)].open => Known(windows[EventOf(d)])
  BY <1>1, <1>4 DEF KnownWindows
<1>6. CASE windows' = windows
  BY <1>4, <1>6
<1>7. CASE Defer(d)
  <2> DEFINE w == OpenWindow(d, seen[d].now, TRUE)
  <2>1. SetWindow(EventOf(d), w, seen[d].now)
    BY <1>7 DEF Defer
  <2>2. Known(w)
    BY DEF Known, OpenWindow
  <2> HIDE DEF w
  <2>3. QED
    BY <1>1, <1>4, <2>1, <2>2, SetKnown
<1>8. CASE Announce(d)
  <2>1. windows' = Closed(EventOf(d))
    BY <1>8 DEF Announce
  <2>2. QED
    BY <1>1, <1>4, <2>1, NoWindowGood DEF Closed, KnownWindows
<1>9. CASE Repeat(d)
  <2> DEFINE w == Accumulated(windows[EventOf(d)], KeyOf(d))
  <2>1. /\ w.open = windows[EventOf(d)].open /\ w.told = windows[EventOf(d)].told
        /\ w.deferred = windows[EventOf(d)].deferred
        /\ w.forgotten = windows[EventOf(d)].forgotten
    BY <1>1 DEF Accumulated, WindowType
  <2>2. windows' = [windows EXCEPT ![EventOf(d)] = w]
    BY <1>9 DEF Repeat
  <2> HIDE DEF w
  <2>3. QED
    BY <1>1, <1>4, <1>5, <2>1, <2>2, ChangeKnown DEF Known
<1>10. ASSUME NEW answer \in Answers, Announced(d, answer), windows' # windows
       PROVE  KnownWindows(windows')
  <2> DEFINE w == [seen[d].window EXCEPT !.told = Accepted(answer)]
  <2>1. Registered(answer) /\ SetWindow(EventOf(d), w, seen[d].now)
    BY <1>10 DEF Announced, windowVars
  <2>2. Known(w)
    BY <1>1, <2>1 DEF Registered, WindowType, Known
  <2> HIDE DEF w
  <2>3. QED
    BY <1>1, <1>4, <2>1, <2>2, SetKnown
<1>11. ASSUME NEW answer \in Answers, Escalated(d, answer), windows' # windows
       PROVE  KnownWindows(windows')
  <2> DEFINE w == [windows[EventOf(d)] EXCEPT !.escalations = @ + 1]
  <2>1. windows' = [windows EXCEPT ![EventOf(d)] = w]
    BY <1>11 DEF Escalated
  <2>2. /\ w.open = windows[EventOf(d)].open /\ w.told = windows[EventOf(d)].told
        /\ w.deferred = windows[EventOf(d)].deferred
        /\ w.forgotten = windows[EventOf(d)].forgotten
    BY <1>1 DEF WindowType
  <2> HIDE DEF w
  <2>3. QED
    BY <1>1, <1>4, <1>5, <2>1, <2>2, ChangeKnown DEF Known
<1>12. Receive(d) \/ Identify(d) => windows' = windows
  BY DEF Receive, Identify, windowVars
<1>13. QED
  BY <1>6, <1>7, <1>8, <1>9, <1>10, <1>11, <1>12 DEF Handle

\* What is written to disk is known, as the windows it is made of: what the file
\* does not say of a window that was held back makes it a forgotten one.
LEMMA SnapshotKnown ==
  ASSUME Tables, KnownWindows(windows) PROVE KnownWindows(Snapshot.windows)
<1>1. windows \in [Alerts -> GoodWindow]
  BY DEF Tables, MapOrdered
<1>2. \A a \in Alerts : Snapshot.windows[a] = IF Live(a) THEN Serialized(windows[a]) ELSE NoWindow
  BY DEF Snapshot
<1>3. ASSUME NEW a \in Alerts
      PROVE  /\ Serialized(windows[a]).open => windows[a].open
             /\ Known(windows[a]) => Known(Serialized(windows[a]))
  BY <1>1, SerializedGood DEF Known
<1>4. QED
  BY <1>2, <1>3, NoWindowGood DEF KnownWindows

\* A sweep opens no window, ends the waiting of those it reports, and writes to
\* disk what the relay knows.
LEMMA ToldSweep ==
  ASSUME ToldInv, Tables, NEW s \in Sweeps, Sweep(s)
  PROVE  ToldInv'
<1>1. windows \in [Alerts -> GoodWindow]
  BY DEF Tables, MapOrdered
<1>2. KnownWindows(windows')
  <2>1. CASE windows' = windows
    BY <2>1 DEF ToldInv
  <2>2. CASE SweepClose(s)
    <3>1. windows' = windows \/ \E a : windows' = [windows EXCEPT ![a] = NoWindow]
      BY <2>2 DEF SweepClose, Closed, windowVars
    <3>2. QED
      BY <1>1, <3>1, NoWindowGood DEF ToldInv, KnownWindows
  <2>3. ASSUME NEW answer \in Answers, RestartRecapSent(s, answer), windows' # windows
        PROVE  KnownWindows(windows')
    <3> DEFINE w(a) == [windows[a] EXCEPT !.deferred = FALSE, !.told = @ \/ Accepted(answer)]
    <3>1. Accepted(answer)
      BY <2>3 DEF RestartRecapSent, RecapDone
    <3>2. \A a \in Alerts : w(a).told = (windows[a].told \/ Accepted(answer))
      BY <1>1 DEF GoodWindow, WindowType
    <3>3. windows' = [a \in Alerts |-> IF a \in seen[s].batch /\ windows[a].open
                                         THEN w(a) ELSE windows[a]]
      BY <2>3 DEF RestartRecapSent
    <3> HIDE DEF w
    <3>4. \A a \in Alerts : windows'[a] = windows[a] \/ windows'[a] = w(a)
      BY <3>3
    <3>5. \A a \in Alerts : Known(w(a))
      BY <3>1, <3>2 DEF Known
    <3>6. QED
      BY <3>4, <3>5 DEF ToldInv, KnownWindows
  <2>4. QED
    BY <2>1, <2>2, <2>3 DEF Sweep, SweepStart, SweepScan, SweepNext, DailyIdle, DailySwap,
       DailyRetry, SweepPersist, DailySent, windowVars
<1>3. disk' = disk \/ disk' = Snapshot
  BY DEF Sweep, SweepStart, SweepScan, SweepNext, SweepClose, DailyIdle, DailySwap, DailyRetry,
     SweepPersist, RestartRecapSent, DailySent, ExportState
<1>4. KnownWindows(disk'.windows)
  BY <1>3, SnapshotKnown DEF ToldInv
<1>5. QED
  BY <1>2, <1>4 DEF ToldInv

\* A restart brings the windows of the file back, and they are known.
LEMMA ToldRestart == ASSUME ToldInv, Tables, Deploy \/ Crash PROVE ToldInv'
<1>1. Boot(disk') /\ disk' \in {Snapshot, disk}
  BY DEF Deploy, Crash, ExportState
<1>2. KnownWindows(disk'.windows)
  BY <1>1, SnapshotKnown DEF ToldInv
<1>3. \A a \in Alerts : windows'[a] = NoWindow \/ windows'[a] = disk'.windows[a]
  BY <1>1 DEF Boot
<1>4. KnownWindows(windows')
  BY <1>2, <1>3, NoWindowGood DEF KnownWindows
<1>5. QED
  BY <1>2, <1>4 DEF ToldInv

\* ToldInv is inductive.
LEMMA ToldStep == ASSUME ToldInv, Tables, [Next]_vars PROVE ToldInv'
<1>1. CASE \E d \in Deliveries : Receive(d) \/ Handle(d)
  BY <1>1, ToldHandler
<1>2. CASE \E s \in Sweeps : Sweep(s)
  BY <1>2, ToldSweep
<1>3. CASE Tick \/ UNCHANGED vars
  BY <1>3 DEF Tick, vars, windowVars, ToldInv
<1>4. CASE Deploy \/ Crash
  BY <1>4, ToldRestart
<1>5. QED
  BY <1>1, <1>2, <1>3, <1>4 DEF Next, Running

\* Whatever the grace period, and with a state file that brings windows of earlier
\* processes back, nobody is muted untold: through rejected and partial sends,
\* evictions, deploys and kills a window that mutes an alert was accepted by every
\* destination, or was held back when the file was written, which does not say so.
THEOREM ToldAcrossRestarts == Spec => []QuietMeansTold
<1>1. Init => ToldInv
  BY NoWindowGood DEF Init, ToldInv, KnownWindows, NoWindows, NoDisk
<1>2. ToldInv /\ Tables /\ [Next]_vars => ToldInv'
  BY ToldStep
<1>3. ToldInv => QuietMeansTold
  BY DEF ToldInv, KnownWindows, Known, QuietMeansTold
<1>4. QED
  BY <1>1, <1>2, <1>3, TablesAlways, PTL DEF Spec

-----------------------------------------------------------------------------
(* The two locks of a delivery never block for good.                         *)

InQueue(q, p) == \E i \in 1..Len(q) : q[i] = p
NoTwice(q) == \A i, j \in 1..Len(q) : q[i] = q[j] => i = j

\* A handler with both locks, or with the first and in line for the second.
Inner(d) == pc[d] \in {"event", "sending", "escalating"}

\* Process p holds or waits for the lock of alert a.
Wants(p, a) ==
  \/ p \in Deliveries /\ EventOf(p) = a /\ Inner(p)
  \/ p \in Sweeps /\ pc[p] = "closing" /\ Head(seen[p].todo).alert = a

(* In the queues of the locks are those that hold the lock or wait for it,   *)
(* once, and nobody else; who waits for the second lock holds the first.     *)
LinesInv ==
  /\ \A k \in Keys :
       /\ NoTwice(idemLocks[k])
       /\ \A d \in Deliveries : InQueue(idemLocks[k], d) <=> KeyOf(d) = k /\ InHandler(d)
  /\ \A a \in Alerts :
       /\ NoTwice(eventLocks[a])
       /\ \A p \in Procs : InQueue(eventLocks[a], p) <=> Wants(p, a)
  /\ \A d \in Deliveries : Inner(d) => HoldsIdem(d)

\* Who joins a queue joins it at its end.
LEMMA JoinsQueue ==
  ASSUME NEW S, NEW q \in Seq(S), NEW p \in S, NoTwice(q), ~InQueue(q, p)
  PROVE  /\ NoTwice(Append(q, p))
         /\ \A x : InQueue(Append(q, p), x) <=> InQueue(q, x) \/ x = p
         /\ \A x : AtHead(q, x) => AtHead(Append(q, p), x)
<1> DEFINE r == Append(q, p)
<1>1. /\ Len(q) \in Nat /\ Len(r) = Len(q) + 1 /\ r[Len(q) + 1] = p /\ r # <<>>
      /\ \A i \in 1..Len(q) : r[i] = q[i]
  OBVIOUS
<1>2. q # <<>> => 1 \in 1..Len(q) /\ Head(q) = q[1]
  OBVIOUS
<1>3. Head(r) = r[1]
  BY <1>1
<1> HIDE DEF r
<1>4. NoTwice(r)
  BY <1>1 DEF NoTwice, InQueue
<1>5. ASSUME NEW x PROVE InQueue(r, x) <=> InQueue(q, x) \/ x = p
  BY <1>1 DEF InQueue
<1>6. ASSUME NEW x, AtHead(q, x) PROVE AtHead(r, x)
  BY <1>1, <1>2, <1>3, <1>6 DEF AtHead
<1>7. QED
  BY <1>4, <1>5, <1>6 DEF r

\* Who leaves a queue leaves it at its head, and is in it no more.
LEMMA LeavesQueue ==
  ASSUME NEW S, NEW q \in Seq(S), NEW p, NoTwice(q)
  PROVE  /\ NoTwice(Released(q, p))
         /\ AtHead(q, p) => \A x : InQueue(Released(q, p), x) <=> InQueue(q, x) /\ x # p
         /\ ~AtHead(q, p) => Released(q, p) = q
         /\ \A x : x # p /\ AtHead(q, x) => AtHead(Released(q, p), x)
         /\ AtHead(q, p) => InQueue(q, p)
<1>1. CASE ~AtHead(q, p)
  BY <1>1 DEF Released
<1>2. CASE AtHead(q, p)
  <2> DEFINE r == Tail(q)
  <2>1. /\ Len(q) \in Nat \ {0} /\ q[1] = p /\ Len(r) = Len(q) - 1
        /\ \A i \in 1..Len(r) : r[i] = q[i + 1]
    BY <1>2 DEF AtHead
  <2>2. Released(q, p) = r
    BY <1>2 DEF Released
  <2> HIDE DEF r
  <2>3. NoTwice(r)
    BY <2>1 DEF NoTwice
  <2>4. ASSUME NEW x PROVE InQueue(r, x) <=> InQueue(q, x) /\ x # p
    <3>1. ASSUME InQueue(r, x) PROVE InQueue(q, x) /\ x # p
      <4>1. PICK i \in 1..Len(r) : r[i] = x
        BY <3>1 DEF InQueue
      <4>2. i + 1 \in 1..Len(q) /\ q[i + 1] = x /\ i + 1 # 1 /\ 1 \in 1..Len(q)
        BY <2>1, <4>1
      <4>3. QED
        BY <2>1, <4>2 DEF InQueue, NoTwice
    <3>2. ASSUME InQueue(q, x), x # p PROVE InQueue(r, x)
      <4>1. PICK i \in 1..Len(q) : q[i] = x
        BY <3>2 DEF InQueue
      <4>2. i - 1 \in 1..Len(r)
        BY <2>1, <3>2, <4>1
      <4>3. r[i - 1] = q[(i - 1) + 1]
        BY <2>1, <4>2
      <4>4. QED
        BY <4>1, <4>2, <4>3 DEF InQueue
    <3>3. QED
      BY <3>1, <3>2
  <2>5. InQueue(q, p)
    BY <2>1 DEF InQueue
  <2>6. QED
    BY <1>2, <2>2, <2>3, <2>4, <2>5 DEF AtHead
<1>3. QED
  BY <1>1, <1>2

\* The head of a queue is in it.
LEMMA HeadInQueue ==
  ASSUME NEW S, NEW q \in Seq(S), q # <<>>
  PROVE  Head(q) \in S /\ InQueue(q, Head(q)) /\ AtHead(q, Head(q))
  BY DEF InQueue, AtHead

\* A step of one process is nothing to what the others want.
LEMMA OthersWant ==
  ASSUME Tables, NEW p \in Procs, NEW label, pc' = [pc EXCEPT ![p] = label],
         \A q \in Procs \ {p} : seen'[q] = seen[q]
  PROVE  /\ pc'[p] = label
         /\ \A q \in Procs \ {p} : \A a : Wants(q, a)' <=> Wants(q, a)
         /\ \A d \in Deliveries \ {p} : (InHandler(d)' <=> InHandler(d)) /\ (Inner(d)' <=> Inner(d))
<1>1. pc = [q \in Procs |-> pc[q]] /\ Deliveries \subseteq Procs
  BY PayloadTyped DEF Tables, Memory
<1>2. pc'[p] = label /\ \A q \in Procs \ {p} : pc'[q] = pc[q]
  BY <1>1
<1>3. QED
  BY <1>1, <1>2 DEF Wants, Inner, InHandler, Procs

\* A step that leaves the locks alone.
LEMMA LinesStay ==
  ASSUME LinesInv, Tables, NEW p \in Procs, NEW label, pc' = [pc EXCEPT ![p] = label],
         \A q \in Procs \ {p} : seen'[q] = seen[q], UNCHANGED <<eventLocks, idemLocks>>,
         p \in Deliveries => Inner(p) /\ label \in {"event", "sending", "escalating"},
         p \in Sweeps => pc[p] # "closing" /\ label # "closing"
  PROVE  LinesInv'
<1>1. /\ pc'[p] = label
      /\ \A q \in Procs \ {p} : \A a : Wants(q, a)' <=> Wants(q, a)
      /\ \A d \in Deliveries \ {p} : (InHandler(d)' <=> InHandler(d)) /\ (Inner(d)' <=> Inner(d))
  BY OthersWant
<1>2. \A a : Wants(p, a)' <=> Wants(p, a)
  BY <1>1, PayloadAssumption DEF Wants, Inner
<1>3. p \in Deliveries => Inner(p) /\ Inner(p)' /\ InHandler(p) /\ InHandler(p)'
  BY <1>1 DEF Inner, InHandler
<1>4. QED
  BY <1>1, <1>2, <1>3, PayloadTyped DEF LinesInv, HoldsIdem

\* A handler that ends gives back what it holds.
LEMMA AnswerLines ==
  ASSUME LinesInv, Tables, NEW d \in Deliveries, NEW label \in {"ok", "failed"},
         Answer(d, label), InHandler(d), HoldsIdem(d), Inner(d) => HoldsEvent(d, EventOf(d))
  PROVE  LinesInv'
<1> DEFINE k0 == KeyOf(d)
           a0 == EventOf(d)
<1>1. /\ pc' = [pc EXCEPT ![d] = label] /\ seen' = [seen EXCEPT ![d] = Blank]
      /\ eventLocks' = [eventLocks EXCEPT ![a0] = Released(@, d)]
      /\ idemLocks' = [idemLocks EXCEPT ![k0] = Released(@, d)]
  BY DEF Answer, Goto
<1>2. /\ d \in Procs /\ d \notin Sweeps /\ k0 \in Keys /\ a0 \in Alerts
      /\ seen = [q \in Procs |-> seen[q]]
      /\ eventLocks \in [Alerts -> Seq(Procs)] /\ idemLocks \in [Keys -> Seq(Deliveries)]
  BY PayloadTyped DEF Tables, Memory, Queues
<1>3. \A q \in Procs \ {d} : seen'[q] = seen[q]
  BY <1>1, <1>2
<1>4. /\ pc'[d] = label
      /\ \A q \in Procs \ {d} : \A a : Wants(q, a)' <=> Wants(q, a)
      /\ \A e \in Deliveries \ {d} : (InHandler(e)' <=> InHandler(e)) /\ (Inner(e)' <=> Inner(e))
  BY <1>1, <1>2, <1>3, OthersWant
<1>5. ~InHandler(d)' /\ ~Inner(d)' /\ \A a : ~Wants(d, a)'
  BY <1>2, <1>4 DEF InHandler, Inner, Wants
<1>6. /\ \A k \in Keys : idemLocks'[k] = IF k = k0 THEN Released(idemLocks[k], d) ELSE idemLocks[k]
      /\ \A a \in Alerts :
           eventLocks'[a] = IF a = a0 THEN Released(eventLocks[a], d) ELSE eventLocks[a]
  BY <1>1, <1>2
<1>7. ASSUME NEW k \in Keys
      PROVE  /\ NoTwice(idemLocks'[k])
             /\ \A e \in Deliveries : InQueue(idemLocks'[k], e) <=> KeyOf(e) = k /\ InHandler(e)'
  <2>1. /\ idemLocks[k] \in Seq(Deliveries) /\ NoTwice(idemLocks[k])
        /\ \A e \in Deliveries : InQueue(idemLocks[k], e) <=> KeyOf(e) = k /\ InHandler(e)
    BY <1>2 DEF LinesInv
  <2>2. CASE k = k0
    <3>1. AtHead(idemLocks[k], d)
      BY <2>2 DEF HoldsIdem
    <3>2. /\ NoTwice(Released(idemLocks[k], d))
          /\ \A x : InQueue(Released(idemLocks[k], d), x) <=> InQueue(idemLocks[k], x) /\ x # d
      BY <2>1, <3>1, LeavesQueue
    <3>3. QED
      BY <1>4, <1>5, <1>6, <2>1, <2>2, <3>2
  <2>3. CASE k # k0
    BY <1>4, <1>5, <1>6, <2>1, <2>3
  <2>4. QED
    BY <2>2, <2>3
<1>8. ASSUME NEW a \in Alerts
      PROVE  /\ NoTwice(eventLocks'[a])
             /\ \A p \in Procs : InQueue(eventLocks'[a], p) <=> Wants(p, a)'
  <2>1. /\ eventLocks[a] \in Seq(Procs) /\ NoTwice(eventLocks[a])
        /\ \A p \in Procs : InQueue(eventLocks[a], p) <=> Wants(p, a)
    BY <1>2 DEF LinesInv
  <2>2. CASE a = a0 /\ Inner(d)
    <3>1. AtHead(eventLocks[a], d)
      BY <2>2 DEF HoldsEvent
    <3>2. /\ NoTwice(Released(eventLocks[a], d))
          /\ \A x : InQueue(Released(eventLocks[a], d), x) <=> InQueue(eventLocks[a], x) /\ x # d
      BY <2>1, <3>1, LeavesQueue
    <3>3. QED
      BY <1>4, <1>5, <1>6, <2>1, <2>2, <3>2
  <2>3. CASE ~(a = a0 /\ Inner(d))
    <3>1. ~Wants(d, a)
      BY <1>2, <2>3 DEF Wants
    <3>2. ~AtHead(eventLocks[a], d)
      BY <1>2, <2>1, <3>1, LeavesQueue
    <3>3. Released(eventLocks[a], d) = eventLocks[a]
      BY <3>2 DEF Released
    <3>4. QED
      BY <1>4, <1>5, <1>6, <2>1, <3>1, <3>3
  <2>4. QED
    BY <2>2, <2>3
<1>9. ASSUME NEW e \in Deliveries, Inner(e)' PROVE HoldsIdem(e)'
  <2>1. e # d /\ HoldsIdem(e) /\ KeyOf(e) \in Keys
    BY <1>4, <1>5, <1>9, PayloadTyped DEF LinesInv
  <2>2. NoTwice(idemLocks[KeyOf(e)]) /\ idemLocks[KeyOf(e)] \in Seq(Deliveries)
    BY <1>2, <2>1 DEF LinesInv
  <2>3. AtHead(Released(idemLocks[KeyOf(e)], d), e)
    BY <2>1, <2>2, LeavesQueue DEF HoldsIdem
  <2>4. QED
    BY <1>6, <2>1, <2>3 DEF HoldsIdem
<1>10. QED
  BY <1>7, <1>8, <1>9 DEF LinesInv

\* A process joins the queue of an alert.
LEMMA JoinsEvent ==
  ASSUME LinesInv, Tables, NEW p \in Procs, NEW a0 \in Alerts, NEW label,
         pc' = [pc EXCEPT ![p] = label], \A q \in Procs \ {p} : seen'[q] = seen[q],
         eventLocks' = [eventLocks EXCEPT ![a0] = Append(@, p)], idemLocks' = idemLocks,
         \A a \in Alerts : ~Wants(p, a) /\ (Wants(p, a)' <=> a = a0),
         p \in Deliveries => InHandler(p) /\ InHandler(p)' /\ HoldsIdem(p)
  PROVE  LinesInv'
<1>1. /\ eventLocks \in [Alerts -> Seq(Procs)]
      /\ \A a \in Alerts :
           eventLocks'[a] = IF a = a0 THEN Append(eventLocks[a], p) ELSE eventLocks[a]
  BY DEF Tables, Queues
<1>2. /\ \A q \in Procs \ {p} : \A a : Wants(q, a)' <=> Wants(q, a)
      /\ \A d \in Deliveries \ {p} : (InHandler(d)' <=> InHandler(d)) /\ (Inner(d)' <=> Inner(d))
  BY OthersWant
<1>3. ASSUME NEW a \in Alerts
      PROVE  /\ NoTwice(eventLocks'[a])
             /\ \A q \in Procs : InQueue(eventLocks'[a], q) <=> Wants(q, a)'
  <2>1. /\ eventLocks[a] \in Seq(Procs) /\ NoTwice(eventLocks[a])
        /\ \A q \in Procs : InQueue(eventLocks[a], q) <=> Wants(q, a)
        /\ ~InQueue(eventLocks[a], p)
    BY <1>1 DEF LinesInv
  <2>2. /\ NoTwice(Append(eventLocks[a], p))
        /\ \A x : InQueue(Append(eventLocks[a], p), x) <=> InQueue(eventLocks[a], x) \/ x = p
    BY <2>1, JoinsQueue
  <2>3. QED
    BY <1>1, <1>2, <2>1, <2>2
<1>4. \A k \in Keys :
        /\ NoTwice(idemLocks'[k])
        /\ \A d \in Deliveries : InQueue(idemLocks'[k], d) <=> KeyOf(d) = k /\ InHandler(d)'
  BY <1>2 DEF LinesInv
<1>5. \A d \in Deliveries : Inner(d)' => HoldsIdem(d)'
  BY <1>2 DEF LinesInv, HoldsIdem
<1>6. QED
  BY <1>3, <1>4, <1>5 DEF LinesInv

\* A request joins the queue of its idempotency key.
LEMMA ReceiveLines ==
  ASSUME LinesInv, Tables, NEW d \in Deliveries, Receive(d) PROVE LinesInv'
<1>1. /\ pc[d] = "idle" /\ pc' = [pc EXCEPT ![d] = "idem"] /\ seen' = seen
      /\ idemLocks' = [idemLocks EXCEPT ![KeyOf(d)] = Append(@, d)] /\ eventLocks' = eventLocks
  BY DEF Receive, Goto
<1>2. /\ d \in Procs /\ d \notin Sweeps /\ KeyOf(d) \in Keys
      /\ idemLocks \in [Keys -> Seq(Deliveries)]
  BY PayloadTyped DEF Tables, Queues
<1>3. /\ pc'[d] = "idem"
      /\ \A q \in Procs \ {d} : \A a : Wants(q, a)' <=> Wants(q, a)
      /\ \A e \in Deliveries \ {d} : (InHandler(e)' <=> InHandler(e)) /\ (Inner(e)' <=> Inner(e))
  BY <1>1, <1>2, OthersWant
<1>4. /\ ~InHandler(d) /\ ~Inner(d) /\ InHandler(d)' /\ ~Inner(d)'
      /\ \A a : ~Wants(d, a) /\ ~Wants(d, a)'
  BY <1>1, <1>2, <1>3 DEF InHandler, Inner, Wants
<1>5. \A k \in Keys : idemLocks'[k] = IF k = KeyOf(d) THEN Append(idemLocks[k], d) ELSE idemLocks[k]
  BY <1>1, <1>2
<1>6. ASSUME NEW k \in Keys
      PROVE  /\ NoTwice(idemLocks'[k])
             /\ \A e \in Deliveries : InQueue(idemLocks'[k], e) <=> KeyOf(e) = k /\ InHandler(e)'
             /\ \A e : AtHead(idemLocks[k], e) => AtHead(idemLocks'[k], e)
  <2>1. /\ idemLocks[k] \in Seq(Deliveries) /\ NoTwice(idemLocks[k]) /\ ~InQueue(idemLocks[k], d)
        /\ \A e \in Deliveries : InQueue(idemLocks[k], e) <=> KeyOf(e) = k /\ InHandler(e)
    BY <1>2, <1>4 DEF LinesInv
  <2>2. /\ NoTwice(Append(idemLocks[k], d))
        /\ \A x : InQueue(Append(idemLocks[k], d), x) <=> InQueue(idemLocks[k], x) \/ x = d
        /\ \A x : AtHead(idemLocks[k], x) => AtHead(Append(idemLocks[k], d), x)
    BY <2>1, JoinsQueue
  <2>3. QED
    BY <1>3, <1>4, <1>5, <2>1, <2>2
<1>7. \A a \in Alerts : /\ NoTwice(eventLocks'[a])
                        /\ \A p \in Procs : InQueue(eventLocks'[a], p) <=> Wants(p, a)'
  BY <1>1, <1>3, <1>4 DEF LinesInv
<1>8. \A e \in Deliveries : Inner(e)' => HoldsIdem(e)'
  BY <1>3, <1>4, <1>6, PayloadTyped DEF LinesInv, HoldsIdem
<1>9. QED
  BY <1>6, <1>7, <1>8 DEF LinesInv

\* A handler.
LEMMA HandlerLines ==
  ASSUME LinesInv, Tables, LockInv, NEW d \in Deliveries, Handle(d) PROVE LinesInv'
<1>1. /\ d \in Procs /\ d \notin Sweeps /\ EventOf(d) \in Alerts
      /\ pc = [q \in Procs |-> pc[q]] /\ seen \in [Procs -> SeenType]
  BY PayloadTyped DEF Tables, Memory
<1>2. /\ Inner(d) => HoldsIdem(d)
      /\ pc[d] \in {"sending", "escalating"} => HoldsEvent(d, EventOf(d))
  BY DEF LinesInv, LockInv, SenderHolds, HoldsEvent
<1>3. CASE Identify(d) /\ Answer(d, "ok")
  BY <1>3, AnswerLines DEF Identify, InHandler, Inner
<1>4. CASE Identify(d) /\ ~Answer(d, "ok")
  <2>1. /\ pc[d] = "idem" /\ HoldsIdem(d)
        /\ eventLocks' = [eventLocks EXCEPT ![EventOf(d)] = Append(@, d)]
        /\ seen' = [seen EXCEPT ![d].now = clock] /\ pc' = [pc EXCEPT ![d] = "event"]
        /\ idemLocks' = idemLocks
    BY <1>4 DEF Identify, Goto
  <2>2. pc'[d] = "event" /\ \A q \in Procs \ {d} : seen'[q] = seen[q]
    BY <1>1, <2>1
  <2>3. /\ \A a \in Alerts : ~Wants(d, a) /\ (Wants(d, a)' <=> a = EventOf(d))
        /\ InHandler(d) /\ InHandler(d)'
    BY <1>1, <2>1, <2>2 DEF Wants, Inner, InHandler
  <2>4. QED
    BY <1>1, <2>1, <2>2, <2>3, JoinsEvent
<1>5. CASE Defer(d)
  BY <1>2, <1>5, AnswerLines DEF Defer, Opens, InHandler, Inner
<1>6. CASE Announce(d)
  <2>1. /\ pc[d] = "event" /\ pc' = [pc EXCEPT ![d] = "sending"]
        /\ \A q \in Procs \ {d} : seen'[q] = seen[q]
        /\ UNCHANGED <<eventLocks, idemLocks>>
    BY <1>1, <1>6 DEF Announce, Opens, Goto, lockVars
  <2>2. QED
    BY <1>1, <2>1, LinesStay DEF Inner
<1>7. ASSUME NEW answer \in Answers, Announced(d, answer) PROVE LinesInv'
  <2>1. pc[d] = "sending" /\ (Answer(d, "ok") \/ Answer(d, "failed"))
    BY <1>7 DEF Announced
  <2>2. QED
    BY <1>2, <2>1, AnswerLines DEF InHandler, Inner
<1>8. CASE Repeat(d)
  <2>1. /\ pc[d] = "event" /\ HoldsEvent(d, EventOf(d))
        /\ \/ Answer(d, "ok")
           \/ pc' = [pc EXCEPT ![d] = "escalating"] /\ UNCHANGED <<seen, lockVars>>
    BY <1>8 DEF Repeat, Goto
  <2>2. CASE Answer(d, "ok")
    BY <1>2, <2>1, <2>2, AnswerLines DEF InHandler, Inner
  <2>3. CASE pc' = [pc EXCEPT ![d] = "escalating"] /\ UNCHANGED <<seen, lockVars>>
    BY <1>1, <2>1, <2>3, LinesStay DEF Inner, lockVars
  <2>4. QED
    BY <2>1, <2>2, <2>3
<1>9. ASSUME NEW answer \in Answers, Escalated(d, answer) PROVE LinesInv'
  BY <1>2, <1>9, AnswerLines DEF Escalated, InHandler, Inner
<1>10. QED
  BY <1>3, <1>4, <1>5, <1>6, <1>7, <1>8, <1>9 DEF Handle

\* What is next on the list of a sweep.
LEMMA ListedAlert ==
  ASSUME Tables, NEW p \in Procs, seen[p].todo # <<>>
  PROVE  Head(seen[p].todo).alert \in Alerts
<1>1. seen[p].todo \in Seq(TodoType)
  BY DEF Tables, Memory, SeenType
<1>2. Head(seen[p].todo) \in TodoType
  BY <1>1
<1>3. QED
  BY <1>2 DEF TodoType

\* A sweep takes the lock of one alert at a time.
LEMMA SweepLines ==
  ASSUME LinesInv, Tables, NEW s \in Sweeps, Sweep(s) PROVE LinesInv'
<1>1. /\ s \in Procs /\ s \notin Deliveries
      /\ pc = [q \in Procs |-> pc[q]] /\ seen \in [Procs -> SeenType]
      /\ eventLocks \in [Alerts -> Seq(Procs)]
  BY PayloadAssumption DEF Procs, Tables, Memory, Queues
<1>2. ASSUME NEW label, pc' = [pc EXCEPT ![s] = label], pc[s] # "closing", label # "closing",
             UNCHANGED lockVars, \A q \in Procs \ {s} : seen'[q] = seen[q]
      PROVE  LinesInv'
  BY <1>1, <1>2, LinesStay DEF lockVars
<1>3. CASE \/ SweepStart(s) \/ SweepScan(s) \/ SweepPersist(s)
           \/ DailyIdle(s) \/ DailySwap(s) \/ DailyRetry(s)
           \/ \E answer \in Answers : RestartRecapSent(s, answer) \/ DailySent(s, answer)
  <2>1. /\ pc[s] # "closing" /\ UNCHANGED lockVars
        /\ \E label : label # "closing" /\ pc' = [pc EXCEPT ![s] = label]
    BY <1>3 DEF SweepStart, SweepScan, SweepPersist, DailyIdle, DailySwap, DailyRetry,
                RestartRecapSent, DailySent, AtDaily, Goto
  <2>2. \A q \in Procs \ {s} : seen'[q] = seen[q]
    BY <1>1, <1>3 DEF SweepStart, SweepScan, SweepPersist, DailyIdle, DailySwap, DailyRetry,
                      RestartRecapSent, DailySent
  <2>3. QED
    BY <1>2, <2>1, <2>2
<1>4. CASE SweepNext(s)
  <2> DEFINE a0 == Head(seen[s].todo).alert
  <2>1. pc[s] = "close" /\ seen[s].todo # <<>> /\ a0 \in Alerts
    <3>1. pc[s] = "close" /\ seen[s].todo # <<>>
      BY <1>4 DEF SweepNext
    <3>2. QED
      BY <1>1, <3>1, ListedAlert
  <2>2. CASE pc' = pc /\ eventLocks' = eventLocks
    <3>1. idemLocks' = idemLocks /\ pc' = [pc EXCEPT ![s] = "close"]
      BY <1>1, <1>4, <2>1, <2>2 DEF SweepNext
    <3>2. \A q \in Procs \ {s} : seen'[q] = seen[q]
      BY <1>1, <1>4 DEF SweepNext
    <3>3. QED
      BY <1>2, <2>1, <2>2, <3>1, <3>2 DEF lockVars
  <2>3. CASE ~(pc' = pc /\ eventLocks' = eventLocks)
    <3>1. /\ eventLocks' = [eventLocks EXCEPT ![a0] = Append(@, s)]
          /\ pc' = [pc EXCEPT ![s] = "closing"] /\ seen' = seen /\ idemLocks' = idemLocks
      BY <1>4, <2>3 DEF SweepNext, Goto
    <3>2. pc'[s] = "closing"
      BY <1>1, <3>1
    <3>3. \A a \in Alerts : ~Wants(s, a) /\ (Wants(s, a)' <=> a = a0)
      BY <1>1, <2>1, <3>1, <3>2 DEF Wants
    <3>4. QED
      BY <1>1, <2>1, <3>1, <3>3, JoinsEvent
  <2>4. QED
    BY <2>2, <2>3
<1>5. CASE SweepClose(s)
  <2> DEFINE a0 == Head(seen[s].todo).alert
  <2>1. /\ pc[s] = "closing" /\ AtHead(eventLocks[a0], s)
        /\ eventLocks' = [eventLocks EXCEPT ![a0] = Released(@, s)]
        /\ pc' = [pc EXCEPT ![s] = "close"] /\ idemLocks' = idemLocks
    BY <1>5 DEF SweepClose, HoldsEvent, Goto
  <2>2. seen[s].todo # <<>> /\ a0 \in Alerts
    <3>1. seen[s].todo # <<>>
      BY <2>1 DEF Tables, Memory
    <3>2. QED
      BY <1>1, <3>1, ListedAlert
  <2>3. pc'[s] = "close" /\ \A q \in Procs \ {s} : seen'[q] = seen[q]
    BY <1>1, <1>5, <2>1 DEF SweepClose
  <2>4. /\ \A q \in Procs \ {s} : \A a : Wants(q, a)' <=> Wants(q, a)
        /\ \A d \in Deliveries : (InHandler(d)' <=> InHandler(d)) /\ (Inner(d)' <=> Inner(d))
    BY <1>1, <2>1, <2>3, OthersWant
  <2>5. \A a : ~Wants(s, a)' /\ (Wants(s, a) <=> a = a0)
    BY <1>1, <2>1, <2>3 DEF Wants
  <2>6. ASSUME NEW a \in Alerts
        PROVE  /\ NoTwice(eventLocks'[a])
               /\ \A q \in Procs : InQueue(eventLocks'[a], q) <=> Wants(q, a)'
    <3>1. /\ eventLocks[a] \in Seq(Procs) /\ NoTwice(eventLocks[a])
          /\ \A q \in Procs : InQueue(eventLocks[a], q) <=> Wants(q, a)
      BY <1>1 DEF LinesInv
    <3>2. CASE a = a0
      <4>1. /\ NoTwice(Released(eventLocks[a], s))
            /\ \A x : InQueue(Released(eventLocks[a], s), x) <=> InQueue(eventLocks[a], x) /\ x # s
        BY <2>1, <3>1, <3>2, LeavesQueue
      <4>2. eventLocks'[a] = Released(eventLocks[a], s)
        BY <1>1, <2>1, <3>2
      <4>3. QED
        BY <2>4, <2>5, <3>1, <4>1, <4>2
    <3>3. CASE a # a0
      <4>1. eventLocks'[a] = eventLocks[a]
        BY <1>1, <2>1, <3>3
      <4>2. QED
        BY <2>4, <2>5, <3>1, <3>3, <4>1
    <3>4. QED
      BY <3>2, <3>3
  <2>7. QED
    BY <2>1, <2>4, <2>6 DEF LinesInv, HoldsIdem
<1>6. QED
  BY <1>3, <1>4, <1>5 DEF Sweep

\* A restart releases everything.
LEMMA BootLines ==
  ASSUME Tables, NEW file, Boot(file) PROVE LinesInv'
<1>1. /\ \A a \in Alerts : eventLocks'[a] = <<>>
      /\ \A k \in Keys : idemLocks'[k] = <<>>
      /\ \A d \in Deliveries : pc'[d] \in {"idle", "ok", "failed", "lost"}
      /\ \A s \in Sweeps : pc'[s] = "idle"
  BY PayloadTyped DEF Boot, Procs
<1>2. \A p : ~InQueue(<<>>, p)
  BY DEF InQueue
<1>3. NoTwice(<<>>)
  BY DEF NoTwice
<1>4. \A d \in Deliveries : ~InHandler(d)' /\ ~Inner(d)'
  BY <1>1 DEF InHandler, Inner
<1>5. \A p \in Procs : \A a : ~Wants(p, a)'
  BY <1>1, <1>4 DEF Wants
<1>6. QED
  BY <1>1, <1>2, <1>3, <1>4, <1>5 DEF LinesInv

LEMMA LinesInit == Init => LinesInv
<1> SUFFICES ASSUME Init PROVE LinesInv
  OBVIOUS
<1>1. \A p : ~InQueue(<<>>, p)
  BY DEF InQueue
<1>2. NoTwice(<<>>)
  BY DEF NoTwice
<1>3. \A p \in Procs : pc[p] = "idle"
  BY DEF Init
<1>4. QED
  BY <1>1, <1>2, <1>3, PayloadTyped DEF Init, LinesInv, Wants, Inner, InHandler, Procs

LEMMA LinesStep == LinesInv /\ Tables /\ LockInv /\ [Next]_vars => LinesInv'
<1> SUFFICES ASSUME LinesInv, Tables, LockInv, [Next]_vars PROVE LinesInv'
  OBVIOUS
<1>1. CASE UNCHANGED <<eventLocks, idemLocks, pc, seen>>
  BY <1>1 DEF LinesInv, Wants, Inner, InHandler, HoldsIdem
<1>2. CASE Tick \/ UNCHANGED vars
  BY <1>1, <1>2 DEF Tick, vars, lockVars
<1>3. CASE Running
  BY <1>2, <1>3, ReceiveLines, HandlerLines, SweepLines DEF Running
<1>4. CASE Deploy \/ Crash
  BY <1>4, BootLines DEF Deploy, Crash
<1>5. QED
  BY <1>2, <1>3, <1>4 DEF Next

\* Process p is not held up by a lock: it can go on, or waits for a destination,
\* whose send has a timeout.
Advances(p) == Ready(p) \/ pc[p] \in {"sending", "escalating"}

(* Whoever waits for a lock waits for a process that is not held up itself:  *)
(* the holder, or who holds the second lock that the holder waits for.       *)
NoDeadlock ==
  /\ \A a \in Alerts : eventLocks[a] # <<>> => Advances(Head(eventLocks[a]))
  /\ \A k \in Keys : idemLocks[k] # <<>> =>
       LET d == Head(idemLocks[k])
       IN  \/ Advances(d)
           \/ /\ pc[d] = "event" /\ eventLocks[EventOf(d)] # <<>>
              /\ Advances(Head(eventLocks[EventOf(d)]))

(* When no continuation is ready and no send is under way, no request is     *)
(* being handled and every lock is free: what the drain of a deploy and the  *)
(* event loop wait for is then there.                                        *)
IdleWhenQuiet ==
  Quiet /\ (\A d \in Deliveries : pc[d] \notin {"sending", "escalating"}) =>
    /\ \A d \in Deliveries : ~InHandler(d)
    /\ \A a \in Alerts : eventLocks[a] = <<>>
    /\ \A k \in Keys : idemLocks[k] = <<>>

LEMMA LinesAlways == Spec => []LinesInv
<1>1. Spec => []Tables
  BY TablesAlways
<1>2. Spec => []LockInv
  BY LockInit, LockStep, PTL DEF Spec
<1>3. QED
  BY <1>1, <1>2, LinesInit, LinesStep, PTL DEF Spec

LEMMA LinesAdvance == ASSUME LinesInv, Tables PROVE NoDeadlock
<1>1. ASSUME NEW a \in Alerts, eventLocks[a] # <<>> PROVE Advances(Head(eventLocks[a]))
  <2> DEFINE p == Head(eventLocks[a])
  <2>1. p \in Procs /\ InQueue(eventLocks[a], p) /\ AtHead(eventLocks[a], p)
    BY <1>1, HeadInQueue DEF Tables, Queues
  <2> HIDE DEF p
  <2>2. Wants(p, a)
    BY <2>1 DEF LinesInv
  <2>3. QED
    BY <2>1, <2>2 DEF Wants, Inner, Advances, Ready, HoldsEvent, p
<1>2. ASSUME NEW k \in Keys, NEW d, idemLocks[k] # <<>>, d = Head(idemLocks[k])
      PROVE  \/ Advances(d)
             \/ /\ pc[d] = "event" /\ eventLocks[EventOf(d)] # <<>>
                /\ Advances(Head(eventLocks[EventOf(d)]))
  <2>1. d \in Deliveries /\ InQueue(idemLocks[k], d) /\ AtHead(idemLocks[k], d)
    BY <1>2, HeadInQueue DEF Tables, Queues
  <2>2. KeyOf(d) = k /\ InHandler(d) /\ d \in Procs /\ EventOf(d) \in Alerts
    BY <2>1, PayloadTyped DEF LinesInv
  <2>3. CASE pc[d] = "event"
    <3>1. InQueue(eventLocks[EventOf(d)], d)
      BY <2>1, <2>2, <2>3 DEF LinesInv, Wants, Inner
    <3>2. eventLocks[EventOf(d)] # <<>>
      BY <3>1 DEF InQueue
    <3>3. QED
      BY <1>1, <2>2, <2>3, <3>2
  <2>4. CASE pc[d] = "idem"
    BY <2>1, <2>2, <2>4 DEF Advances, Ready, HoldsIdem
  <2>5. QED
    BY <2>2, <2>3, <2>4 DEF InHandler, Advances
<1>3. QED
  BY <1>1, <1>2 DEF NoDeadlock

\* The locks of the relay never deadlock: withLock of the idempotency key around
\* withLock of the dedup key, in handlers, and the latter alone in sweeps.
THEOREM LocksNeverDeadlock == Spec => []NoDeadlock
<1>1. LinesInv /\ Tables => NoDeadlock
  BY LinesAdvance
<1>2. QED
  BY <1>1, LinesAlways, TablesAlways, PTL

\* The relay comes to rest: nobody is left in a queue once the continuations have
\* run and the destinations have answered.
THEOREM QuietIsIdle == Spec => []IdleWhenQuiet
<1>1. LinesInv /\ Tables => IdleWhenQuiet
  <2> SUFFICES ASSUME LinesInv, Tables, Quiet,
                      \A d \in Deliveries : pc[d] \notin {"sending", "escalating"}
               PROVE  /\ \A d \in Deliveries : ~InHandler(d)
                      /\ \A a \in Alerts : eventLocks[a] = <<>>
                      /\ \A k \in Keys : idemLocks[k] = <<>>
    BY DEF IdleWhenQuiet
  <2>1. NoDeadlock
    BY LinesAdvance
  <2>2. ASSUME NEW a \in Alerts, eventLocks[a] # <<>> PROVE FALSE
    <3> DEFINE p == Head(eventLocks[a])
    <3>1. p \in Procs /\ InQueue(eventLocks[a], p) /\ Advances(p)
      BY <2>1, <2>2, HeadInQueue DEF Tables, Queues, NoDeadlock
    <3> HIDE DEF p
    <3>2. pc[p] \in {"sending", "escalating"}
      BY <3>1 DEF Advances, Quiet
    <3>3. Wants(p, a)
      BY <3>1 DEF LinesInv
    <3>4. QED
      BY <3>2, <3>3 DEF Wants
  <2>3. ASSUME NEW k \in Keys, idemLocks[k] # <<>> PROVE FALSE
    <3> DEFINE d == Head(idemLocks[k])
    <3>1. /\ d \in Deliveries
          /\ \/ Advances(d)
             \/ pc[d] = "event" /\ eventLocks[EventOf(d)] # <<>>
      BY <2>1, <2>3, HeadInQueue DEF Tables, Queues, NoDeadlock
    <3> HIDE DEF d
    <3>2. QED
      BY <2>2, <3>1, PayloadTyped DEF Advances, Quiet
  <2>4. ASSUME NEW d \in Deliveries, InHandler(d) PROVE FALSE
    <3>1. KeyOf(d) \in Keys /\ InQueue(idemLocks[KeyOf(d)], d)
      BY <2>4, PayloadTyped DEF LinesInv
    <3>2. idemLocks[KeyOf(d)] # <<>>
      BY <3>1 DEF InQueue
    <3>3. QED
      BY <2>3, <3>1, <3>2
  <2>5. QED
    BY <2>2, <2>3, <2>4
<1>2. QED
  BY <1>1, LinesAlways, TablesAlways, PTL

-----------------------------------------------------------------------------
(* What a restart holds back is left for the restart recap.                  *)

\* The deliveries in a queue have read the time in the order in which they wait.
InLine(q, mem) ==
  \A i, j \in 1..Len(q) :
    i < j /\ {q[i], q[j]} \subseteq Deliveries => mem[q[i]].now <= mem[q[j]].now

TimesInLine ==
  /\ \A d \in Deliveries : Inner(d) => seen[d].now <= clock
  /\ \A a \in Alerts : InLine(eventLocks[a], seen)

\* Who is sending is past the grace period, and its window is not held back.
LateSends ==
  \A d \in Deliveries :
    /\ pc[d] \in {"sending", "escalating"} => ~InRestartGrace(seen[d].now)
    /\ pc[d] = "sending" => ~seen[d].window.deferred

\* A sweep has found the grace period over.
GraceOver == restartRecapDone \/ \E s \in Sweeps : pc[s] = "restartRecap"

\* Then no handler holds an alert back any more, though it may have waited for its
\* lock since before.
NoLateDefer ==
  GraceOver => /\ ~InRestartGrace(clock)
               /\ \A d \in Deliveries : pc[d] = "event" => ~InRestartGrace(seen[d].now)

\* So a recap that is under way reports all there is, and when it is done there is
\* nothing left; no window of an earlier process is held back either.
RecapCovers ==
  /\ \A s \in Sweeps : pc[s] = "restartRecap" => Deferred \subseteq seen[s].batch
  /\ restartRecapDone => Deferred = {}
  /\ \A a \in Alerts : ~disk.windows[a].deferred

GraceInv == TimesInLine /\ LateSends /\ NoLateDefer /\ RecapCovers

\* An alert that is held back is never given up: the restart recap is still due, and
\* a recap that is being sent is about it too.
DeferredStillDue ==
  \A a \in Alerts : windows[a].open /\ windows[a].deferred =>
    /\ ~restartRecapDone
    /\ \A s \in Sweeps : pc[s] = "restartRecap" => a \in seen[s].batch

\* What process p does to a queue: nothing, or it leaves its head, or it joins, no
\* earlier than those who wait; and nobody reads the time again while in the queue.
Moves(q, q2, p, mem, mem2) ==
  /\ \/ q2 = q \/ q2 = Released(q, p)
     \/ /\ q2 = Append(q, p)
        /\ p \in Deliveries =>
             \A e \in Deliveries : InQueue(q, e) => mem2[e].now <= mem2[p].now
  /\ \A e \in Deliveries : InQueue(q, e) /\ InQueue(q2, e) => mem2[e].now = mem[e].now

\* A queue stays in line.
LEMMA LineMoves ==
  ASSUME NEW q \in Seq(Procs), NEW mem, NEW mem2, InLine(q, mem), NEW p, NEW q2,
         Moves(q, q2, p, mem, mem2)
  PROVE  InLine(q2, mem2)
<1> USE DEF Moves
<1>1. CASE q2 = q
  BY <1>1 DEF InLine, InQueue
<1>2. CASE q # <<>> /\ q2 = Tail(q)
  <2> SUFFICES ASSUME NEW i \in 1..Len(q2), NEW j \in 1..Len(q2), i < j,
                      q2[i] \in Deliveries, q2[j] \in Deliveries
               PROVE  mem2[q2[i]].now <= mem2[q2[j]].now
    BY DEF InLine
  <2>1. /\ q2[i] = q[i + 1] /\ i + 1 \in 1..Len(q)
        /\ q2[j] = q[j + 1] /\ j + 1 \in 1..Len(q)
        /\ i + 1 < j + 1
    BY <1>2
  <2>2. mem[q2[i]].now <= mem[q2[j]].now
    BY <2>1 DEF InLine
  <2>3. InQueue(q, q2[i]) /\ InQueue(q2, q2[i]) /\ InQueue(q, q2[j]) /\ InQueue(q2, q2[j])
    BY <2>1 DEF InQueue
  <2>4. QED
    BY <2>2, <2>3
<1>3. CASE q2 = Append(q, p)
  <2> SUFFICES ASSUME NEW i \in 1..Len(q2), NEW j \in 1..Len(q2), i < j,
                      q2[i] \in Deliveries, q2[j] \in Deliveries
               PROVE  mem2[q2[i]].now <= mem2[q2[j]].now
    BY DEF InLine
  <2>1. i \in 1..Len(q) /\ q2[i] = q[i] /\ InQueue(q, q2[i]) /\ InQueue(q2, q2[i])
    BY <1>3 DEF InQueue
  <2>2. CASE j \in 1..Len(q)
    <3>1. q2[j] = q[j] /\ InQueue(q, q2[j]) /\ InQueue(q2, q2[j])
      BY <1>3, <2>2 DEF InQueue
    <3>2. mem[q2[i]].now <= mem[q2[j]].now
      BY <2>1, <2>2, <3>1 DEF InLine
    <3>3. QED
      BY <2>1, <3>1, <3>2
  <2>3. CASE j \notin 1..Len(q)
    <3>1. q2[j] = p
      BY <1>3, <2>3
    <3>2. ~(q2 = q) /\ (p \in Deliveries =>
            \A e \in Deliveries : InQueue(q, e) => mem2[e].now <= mem2[p].now)
      <4>1. Len(q2) = Len(q) + 1
        BY <1>3
      <4>2. Released(q, p) = q \/ (q # <<>> /\ Released(q, p) = Tail(q))
        BY DEF Released, AtHead
      <4>3. q2 # Released(q, p) /\ q2 # q
        BY <4>1, <4>2
      <4>4. QED
        BY <4>3
    <3>3. QED
      BY <2>1, <3>1, <3>2
  <2>4. QED
    BY <2>2, <2>3
<1>4. Released(q, p) = q \/ (q # <<>> /\ Released(q, p) = Tail(q))
  BY DEF Released, AtHead
<1>5. QED
  BY <1>1, <1>2, <1>3, <1>4

\* The lines after a step of process p.
LEMMA TimesKept ==
  ASSUME TimesInLine, LinesInv, LinesInv', Tables, NEW p \in Procs, clock' = clock,
         NEW label, pc' = [pc EXCEPT ![p] = label],
         \A q \in Procs \ {p} : seen'[q] = seen[q],
         p \in Deliveries /\ label \in {"event", "sending", "escalating"} =>
           \/ Inner(p) /\ seen'[p].now = seen[p].now
           \/ ~Inner(p) /\ seen'[p].now = clock,
         \A a \in Alerts :
           \/ eventLocks'[a] = eventLocks[a]
           \/ eventLocks'[a] = Released(eventLocks[a], p)
           \/ eventLocks'[a] = Append(eventLocks[a], p) /\ ~Wants(p, a)
  PROVE  TimesInLine'
<1>1. /\ Deliveries \subseteq Procs /\ pc = [q \in Procs |-> pc[q]]
      /\ seen \in [Procs -> SeenType] /\ clock \in Nat
      /\ eventLocks \in [Alerts -> Seq(Procs)]
  BY PayloadTyped, OptionsTyped DEF Tables, Memory, Queues, Instants
<1>2. /\ pc'[p] = label
      /\ \A d \in Deliveries \ {p} : Inner(d)' <=> Inner(d)
  BY <1>1, OthersWant
<1>3. p \in Deliveries => (Inner(p)' <=> label \in {"event", "sending", "escalating"})
  BY <1>2 DEF Inner
<1>4. ASSUME NEW d \in Deliveries, Inner(d)' PROVE seen'[d].now <= clock'
  <2>1. CASE d = p
    <3>1. seen'[p].now = clock \/ (Inner(p) /\ seen'[p].now = seen[p].now)
      BY <1>3, <1>4, <2>1
    <3>2. QED
      BY <1>1, <2>1, <3>1 DEF TimesInLine
  <2>2. CASE d # p
    BY <1>1, <1>2, <1>4, <2>2 DEF TimesInLine
  <2>3. QED
    BY <2>1, <2>2
<1>5. ASSUME NEW a \in Alerts, NEW e \in Deliveries
      PROVE  /\ InQueue(eventLocks[a], e) => Inner(e) /\ EventOf(e) = a
             /\ InQueue(eventLocks'[a], e) => Inner(e)' /\ EventOf(e) = a
  BY <1>1, PayloadAssumption DEF LinesInv, Wants, Procs
<1>6. ASSUME NEW a \in Alerts PROVE InLine(eventLocks'[a], seen')
  <2>1. InLine(eventLocks[a], seen)
    BY DEF TimesInLine
  <2>2. ASSUME NEW e \in Deliveries, InQueue(eventLocks[a], e), InQueue(eventLocks'[a], e)
        PROVE  seen'[e].now = seen[e].now
    <3>1. Inner(e) /\ Inner(e)'
      BY <1>5, <2>2
    <3>2. QED
      BY <1>1, <1>3, <3>1
  <2>3. ASSUME NEW e \in Deliveries, InQueue(eventLocks[a], e), p \in Deliveries,
               eventLocks'[a] = Append(eventLocks[a], p), ~Wants(p, a)
        PROVE  seen'[e].now <= seen'[p].now
    <3>1. InQueue(eventLocks'[a], p)
      <4>1. Len(eventLocks[a]) + 1 \in 1..Len(Append(eventLocks[a], p))
            /\ Append(eventLocks[a], p)[Len(eventLocks[a]) + 1] = p
        BY <1>1
      <4>2. QED
        BY <2>3, <4>1 DEF InQueue
    <3>2. Inner(p)' /\ EventOf(p) = a
      BY <1>5, <2>3, <3>1
    <3>3. ~Inner(p) /\ seen'[p].now = clock
      BY <1>3, <2>3, <3>2 DEF Wants
    <3>4. e # p /\ seen[e].now <= clock
      BY <1>5, <2>3, <3>3 DEF TimesInLine
    <3>5. QED
      BY <1>1, <3>3, <3>4
  <2>4. eventLocks[a] \in Seq(Procs)
    BY <1>1
  <2>5. \/ eventLocks'[a] = eventLocks[a]
        \/ eventLocks'[a] = Released(eventLocks[a], p)
        \/ /\ eventLocks'[a] = Append(eventLocks[a], p)
           /\ p \in Deliveries =>
                \A e \in Deliveries : InQueue(eventLocks[a], e) => seen'[e].now <= seen'[p].now
    BY <2>3
  <2>6. \A e \in Deliveries : InQueue(eventLocks[a], e) /\ InQueue(eventLocks'[a], e) =>
          seen'[e].now = seen[e].now
    BY <2>2
  <2>7. Moves(eventLocks[a], eventLocks'[a], p, seen, seen')
    BY <2>5, <2>6 DEF Moves
  <2>8. QED
    BY <2>1, <2>4, <2>7, LineMoves
<1>7. QED
  BY <1>4, <1>6 DEF TimesInLine

\* When a sweep starts, no continuation is ready: who is at the head of a queue is
\* sending, and who waits behind it has read its time later.
LEMMA WaitersLate ==
  ASSUME GraceInv, LinesInv, Tables, Quiet, NEW d \in Deliveries, pc[d] = "event"
  PROVE  ~InRestartGrace(seen[d].now)
<1> DEFINE q == eventLocks[EventOf(d)]
           h == Head(q)
<1>1. /\ d \in Procs /\ EventOf(d) \in Alerts /\ q \in Seq(Procs)
      /\ seen \in [Procs -> SeenType] /\ startedAt \in Nat /\ RestartGraceMs \in Nat
      /\ Deliveries \subseteq Procs
  BY PayloadTyped, OptionsTyped DEF Tables, Memory, Queues, Instants
<1>2. InQueue(q, d)
  BY <1>1 DEF LinesInv, Wants, Inner
<1>3. PICK j \in 1..Len(q) : q[j] = d
  BY <1>2 DEF InQueue
<1>4. q # <<>> /\ h = q[1] /\ 1 \in 1..Len(q)
  BY <1>1, <1>3
<1>5. h \in Procs /\ InQueue(q, h) /\ AtHead(q, h)
  BY <1>1, <1>4, HeadInQueue
<1>6. Wants(h, EventOf(d)) /\ ~Ready(h)
  BY <1>1, <1>5 DEF LinesInv, Quiet
<1> HIDE DEF h
<1>7. h \in Deliveries /\ pc[h] \in {"sending", "escalating"}
  <2>1. CASE h \in Sweeps
    BY <1>5, <1>6, <2>1, PayloadAssumption DEF Wants, Ready, HoldsEvent
  <2>2. CASE h \in Deliveries
    BY <1>5, <1>6, <2>2, PayloadAssumption DEF Wants, Ready, HoldsEvent, Inner
  <2>3. QED
    BY <1>5, <2>1, <2>2 DEF Procs
<1>8. ~InRestartGrace(seen[h].now)
  BY <1>7 DEF GraceInv, LateSends
<1>9. 1 < j
  BY <1>3, <1>4, <1>7
<1>10. seen[h].now <= seen[d].now
  <2>1. InLine(q, seen)
    BY <1>1 DEF GraceInv, TimesInLine
  <2>2. QED
    BY <1>3, <1>4, <1>7, <1>9, <2>1 DEF InLine
<1>11. seen[h].now \in Nat /\ seen[d].now \in Nat
  BY <1>1, <1>5 DEF SeenType
<1>12. QED
  BY <1>1, <1>8, <1>10, <1>11 DEF InRestartGrace

\* A step of a handler: its time is not in the grace period when it sends, nor when
\* it waits after the grace period, and then it holds nothing back.
LEMMA GraceGoesOn ==
  ASSUME GraceInv, LinesInv, LinesInv', Tables, NEW d \in Deliveries, NEW label,
         pc' = [pc EXCEPT ![d] = label], \A q \in Procs \ {d} : seen'[q] = seen[q],
         UNCHANGED <<clock, startedAt, restartRecapDone, disk>>,
         TimesInLine',
         label \in {"sending", "escalating"} => ~InRestartGrace(seen'[d].now),
         label = "sending" => ~seen'[d].window.deferred,
         label = "event" => seen'[d].now = clock,
         GraceOver => \A a \in Alerts : windows'[a].open /\ windows'[a].deferred =>
                                          windows[a].open /\ windows[a].deferred
  PROVE  GraceInv'
<1>1. /\ d \in Procs /\ d \notin Sweeps /\ Deliveries \subseteq Procs
      /\ pc = [q \in Procs |-> pc[q]]
  BY PayloadTyped DEF Tables, Memory
<1>2. pc'[d] = label /\ \A q \in Procs \ {d} : pc'[q] = pc[q]
  BY <1>1
<1>3. \A s \in Sweeps : pc'[s] = pc[s] /\ seen'[s] = seen[s]
  BY <1>1, <1>2 DEF Procs
<1>4. GraceOver' <=> GraceOver
  BY <1>3 DEF GraceOver
<1>5. \A t : (t < startedAt' + RestartGraceMs) <=> InRestartGrace(t)
  BY DEF InRestartGrace
<1>6. LateSends'
  BY <1>1, <1>2, <1>5 DEF GraceInv, LateSends, InRestartGrace
<1>7. NoLateDefer'
  BY <1>1, <1>2, <1>4, <1>5 DEF GraceInv, NoLateDefer, InRestartGrace
<1>8. GraceOver => Deferred' \subseteq Deferred
  BY DEF Deferred
<1>9. RecapCovers'
  BY <1>3, <1>8 DEF GraceInv, RecapCovers, GraceOver
<1>10. QED
  BY <1>6, <1>7, <1>9 DEF GraceInv

\* A request arrives.
LEMMA ReceiveGrace ==
  ASSUME GraceInv, LinesInv, LinesInv', Tables, NEW d \in Deliveries, Receive(d)
  PROVE  GraceInv'
<1>1. /\ pc' = [pc EXCEPT ![d] = "idem"] /\ seen' = seen /\ windows' = windows
      /\ eventLocks' = eventLocks
      /\ UNCHANGED <<clock, startedAt, restartRecapDone, disk>>
  BY DEF Receive, Goto, windowVars, startVars
<1>2. d \in Procs
  BY PayloadTyped
<1>3. TimesInLine'
  BY <1>1, <1>2, TimesKept DEF GraceInv
<1>4. QED
  BY <1>1, <1>3, GraceGoesOn

\* A window that is set for alert a is the only one that can be held back anew.
LEMMA SetHoldsOne ==
  ASSUME Tables, NEW a \in Alerts, NEW w, NEW now, SetWindow(a, w, now), ~w.deferred
  PROVE  \A b \in Alerts : windows'[b].open /\ windows'[b].deferred =>
                             windows[b].open /\ windows[b].deferred
<1>1. MapsTyped
  BY DEF Tables, Memory, MapOrdered, MapsTyped
<1>2. \A b \in Alerts : windows'[b] = NoWindow \/ windows'[b] = IF b = a THEN w ELSE windows[b]
  BY <1>1, SetWindowOthers
<1>3. QED
  BY <1>2, NoWindowGood

\* A handler.
LEMMA HandlerGrace ==
  ASSUME GraceInv, LinesInv, LinesInv', Tables, NEW d \in Deliveries, Handle(d)
  PROVE  GraceInv'
<1>1. /\ d \in Procs /\ d \notin Sweeps /\ EventOf(d) \in Alerts
      /\ windows \in [Alerts -> GoodWindow] /\ seen \in [Procs -> SeenType]
      /\ pc = [p \in Procs |-> pc[p]] /\ clock \in Nat
      /\ eventLocks \in [Alerts -> Seq(Procs)]
  BY PayloadTyped, OptionsTyped DEF Tables, MapOrdered, Memory, Instants, Queues
<1>2. UNCHANGED <<clock, startedAt, restartRecapDone, disk>>
  BY DEF Handle, Identify, Defer, Announce, Repeat, Announced, Escalated, startVars, recapVars
<1> DEFINE NoneAnew == GraceOver => \A a \in Alerts : windows'[a].open /\ windows'[a].deferred =>
                                                        windows[a].open /\ windows[a].deferred
<1>3. windows' = windows => NoneAnew
  OBVIOUS
<1>4. ASSUME NEW label \in {"ok", "failed"}, Answer(d, label), NoneAnew PROVE GraceInv'
  <2>1. /\ pc' = [pc EXCEPT ![d] = label] /\ \A q \in Procs \ {d} : seen'[q] = seen[q]
        /\ eventLocks' = [eventLocks EXCEPT ![EventOf(d)] = Released(@, d)]
    BY <1>1, <1>4 DEF Answer, Goto
  <2>2. \A a \in Alerts : \/ eventLocks'[a] = eventLocks[a]
                          \/ eventLocks'[a] = Released(eventLocks[a], d)
    BY <1>1, <2>1
  <2>3. TimesInLine'
    BY <1>1, <1>2, <2>1, <2>2, TimesKept DEF GraceInv
  <2>4. QED
    BY <1>2, <1>4, <2>1, <2>3, GraceGoesOn
<1>5. ASSUME NEW label \in {"sending", "escalating"}, pc[d] = "event",
             ~InRestartGrace(seen[d].now), seen'[d].now = seen[d].now,
             label = "sending" => ~seen'[d].window.deferred,
             pc' = [pc EXCEPT ![d] = label], \A q \in Procs \ {d} : seen'[q] = seen[q],
             eventLocks' = eventLocks, NoneAnew
      PROVE  GraceInv'
  <2>1. Inner(d)
    BY <1>5 DEF Inner
  <2>2. TimesInLine'
    BY <1>1, <1>2, <1>5, <2>1, TimesKept DEF GraceInv
  <2>3. QED
    BY <1>2, <1>5, <2>2, GraceGoesOn
<1>6. CASE Identify(d)
  <2>1. windows' = windows
    BY <1>6 DEF Identify, windowVars
  <2>2. CASE Answer(d, "ok")
    BY <1>3, <1>4, <2>1, <2>2
  <2>3. CASE /\ eventLocks' = [eventLocks EXCEPT ![EventOf(d)] = Append(@, d)]
             /\ seen' = [seen EXCEPT ![d].now = clock]
             /\ pc' = [pc EXCEPT ![d] = "event"]
    <3>1. pc[d] = "idem"
      BY <1>6 DEF Identify
    <3>2. ~Inner(d) /\ \A a \in Alerts : ~Wants(d, a)
      BY <1>1, <3>1 DEF Inner, Wants
    <3>3. seen'[d].now = clock /\ \A q \in Procs \ {d} : seen'[q] = seen[q]
      BY <1>1, <2>3 DEF SeenType
    <3>4. \A a \in Alerts : \/ eventLocks'[a] = eventLocks[a]
                            \/ eventLocks'[a] = Append(eventLocks[a], d) /\ ~Wants(d, a)
      BY <1>1, <2>3, <3>2
    <3>5. TimesInLine'
      BY <1>1, <1>2, <2>3, <3>2, <3>3, <3>4, TimesKept DEF GraceInv
    <3>6. QED
      BY <1>2, <2>1, <2>3, <3>3, <3>5, GraceGoesOn
  <2>4. QED
    BY <1>6, <2>2, <2>3 DEF Identify, Goto
<1>7. CASE Defer(d)
  <2>1. pc[d] = "event" /\ InRestartGrace(seen[d].now) /\ Answer(d, "ok")
    BY <1>7 DEF Defer, Opens
  <2>2. ~GraceOver
    BY <2>1 DEF GraceInv, NoLateDefer
  <2>3. QED
    BY <1>4, <2>1, <2>2
<1>8. CASE Announce(d)
  <2>1. /\ pc[d] = "event" /\ ~InRestartGrace(seen[d].now)
        /\ pc' = [pc EXCEPT ![d] = "sending"] /\ eventLocks' = eventLocks
        /\ windows' = Closed(EventOf(d))
        /\ \A q \in Procs \ {d} : seen'[q] = seen[q]
    BY <1>1, <1>8 DEF Announce, Opens, Goto, lockVars
  <2>2. seen'[d].now = seen[d].now /\ ~seen'[d].window.deferred
    BY <1>1, <1>8 DEF Announce, SeenType, OpenWindow
  <2>3. NoneAnew
    BY <1>1, <2>1, NoWindowGood DEF Closed
  <2>4. QED
    BY <1>5, <2>1, <2>2, <2>3
<1>9. ASSUME NEW answer \in Answers, Announced(d, answer) PROVE GraceInv'
  <2>1. CASE ~Registered(answer)
    BY <1>3, <1>4, <1>9, <2>1 DEF Announced, windowVars
  <2>2. CASE Registered(answer)
    <3> DEFINE w == [seen[d].window EXCEPT !.told = Accepted(answer)]
    <3>1. SetWindow(EventOf(d), w, seen[d].now) /\ Answer(d, "ok")
      BY <1>9, <2>2 DEF Announced
    <3>2. ~w.deferred
      <4>1. ~seen[d].window.deferred /\ seen[d].window \in GoodWindow
        BY <1>1, <1>9 DEF Announced, GraceInv, LateSends, SeenType
      <4>2. QED
        BY <4>1 DEF GoodWindow, WindowType
    <3> HIDE DEF w
    <3>3. NoneAnew
      BY <1>1, <3>1, <3>2, SetHoldsOne
    <3>4. QED
      BY <1>4, <3>1, <3>3
  <2>3. QED
    BY <2>1, <2>2
<1>10. CASE Repeat(d)
  <2> DEFINE w == Accumulated(windows[EventOf(d)], KeyOf(d))
  <2>1. w.open = windows[EventOf(d)].open /\ w.deferred = windows[EventOf(d)].deferred
    BY <1>1 DEF Accumulated, GoodWindow, WindowType
  <2>2. windows' = [windows EXCEPT ![EventOf(d)] = w] /\ pc[d] = "event"
    BY <1>10 DEF Repeat
  <2> HIDE DEF w
  <2>3. NoneAnew
    BY <1>1, <2>1, <2>2
  <2>4. CASE Answer(d, "ok")
    BY <1>4, <2>3, <2>4
  <2>5. CASE ~Answer(d, "ok")
    <3>1. /\ ~InRestartGrace(seen[d].now) /\ pc' = [pc EXCEPT ![d] = "escalating"]
          /\ seen' = seen /\ eventLocks' = eventLocks
      BY <1>10, <2>5 DEF Repeat, Goto, lockVars
    <3>2. QED
      BY <1>5, <2>2, <2>3, <3>1
  <2>6. QED
    BY <2>4, <2>5
<1>11. ASSUME NEW answer \in Answers, Escalated(d, answer) PROVE GraceInv'
  <2> DEFINE w == [windows[EventOf(d)] EXCEPT !.escalations = @ + 1]
  <2>1. windows' = windows \/ windows' = [windows EXCEPT ![EventOf(d)] = w]
    BY <1>11 DEF Escalated
  <2>2. w.open = windows[EventOf(d)].open /\ w.deferred = windows[EventOf(d)].deferred
    BY <1>1 DEF GoodWindow, WindowType
  <2> HIDE DEF w
  <2>3. NoneAnew
    BY <1>1, <2>1, <2>2
  <2>4. QED
    BY <1>4, <1>11, <2>3 DEF Escalated
<1>12. QED
  BY <1>6, <1>7, <1>8, <1>9, <1>10, <1>11 DEF Handle

\* What is written to disk is not held back.
LEMMA SnapshotFree == ASSUME Tables PROVE \A a \in Alerts : ~Snapshot.windows[a].deferred
<1>1. windows \in [Alerts -> GoodWindow]
  BY DEF Tables, MapOrdered
<1>2. \A a \in Alerts : Snapshot.windows[a] = IF Live(a) THEN Serialized(windows[a]) ELSE NoWindow
  BY DEF Snapshot
<1>3. ASSUME NEW a \in Alerts PROVE Serialized(windows[a]).deferred = FALSE
  BY <1>1, SerializedGood
<1>4. ~NoWindow.deferred
  BY DEF NoWindow
<1>5. ASSUME NEW a \in Alerts PROVE ~Snapshot.windows[a].deferred
  BY <1>2, <1>3, <1>4
<1>6. QED
  BY <1>5

\* A sweep.  Only its start may find the grace period over, and only its recap may be
\* the one that reports what was held back.
LEMMA SweepGrace ==
  ASSUME GraceInv, LinesInv, LinesInv', Tables, NEW s \in Sweeps, Sweep(s)
  PROVE  GraceInv'
<1>1. /\ s \in Procs /\ s \notin Deliveries /\ windows \in [Alerts -> GoodWindow]
      /\ seen \in [Procs -> SeenType] /\ pc = [q \in Procs |-> pc[q]]
      /\ eventLocks \in [Alerts -> Seq(Procs)] /\ restartRecapDone \in BOOLEAN
  BY PayloadAssumption DEF Tables, MapOrdered, Memory, Queues, Recaps, Procs
<1>2. startedAt' = startedAt /\ clock' = clock
  BY DEF Sweep, SweepStart, SweepScan, SweepNext, SweepClose, DailyIdle, DailySwap,
     DailyRetry, SweepPersist, RestartRecapSent, DailySent, startVars
<1>3. /\ \A q \in Procs \ {s} : seen'[q] = seen[q]
      /\ \E label : pc' = [pc EXCEPT ![s] = label]
  <2>1. /\ pc' = pc \/ \E label : pc' = [pc EXCEPT ![s] = label]
        /\ \A q \in Procs \ {s} : seen'[q] = seen[q]
    BY <1>1 DEF Sweep, SweepStart, SweepScan, SweepNext, SweepClose, DailyIdle, DailySwap,
       DailyRetry, SweepPersist, RestartRecapSent, DailySent, Goto
  <2>2. pc' = pc => pc' = [pc EXCEPT ![s] = pc[s]]
    BY <1>1
  <2>3. QED
    BY <2>1, <2>2
<1>4. /\ \A q \in Procs \ {s} : pc'[q] = pc[q] /\ seen'[q] = seen[q]
      /\ \A d \in Deliveries : pc'[d] = pc[d] /\ seen'[d] = seen[d]
  BY <1>1, <1>3, PayloadTyped
<1>5. TimesInLine'
  <2>1. \A a \in Alerts : \/ eventLocks'[a] = eventLocks[a]
                          \/ eventLocks'[a] = Released(eventLocks[a], s)
                          \/ eventLocks'[a] = Append(eventLocks[a], s) /\ ~Wants(s, a)
    <3>1. CASE SweepNext(s)
      BY <1>1, <3>1 DEF SweepNext, Wants
    <3>2. CASE SweepClose(s)
      BY <1>1, <3>2 DEF SweepClose
    <3>3. CASE eventLocks' = eventLocks
      BY <3>3
    <3>4. QED
      BY <3>1, <3>2, <3>3 DEF Sweep, SweepStart, SweepScan, DailyIdle, DailySwap, DailyRetry,
         SweepPersist, RestartRecapSent, DailySent, lockVars
  <2>2. PICK label : pc' = [pc EXCEPT ![s] = label]
    BY <1>3
  <2>3. QED
    BY <1>1, <1>2, <1>3, <2>1, <2>2, TimesKept DEF GraceInv
<1>6. LateSends'
  BY <1>2, <1>4 DEF GraceInv, LateSends, InRestartGrace
<1>7. ASSUME GraceOver' => GraceOver PROVE NoLateDefer'
  BY <1>2, <1>4, <1>7 DEF GraceInv, NoLateDefer, InRestartGrace
<1>8. (\A a \in Alerts : ~disk'.windows[a].deferred) \/ SweepPersist(s)
  BY DEF GraceInv, RecapCovers, Sweep, SweepStart, SweepScan, SweepNext, SweepClose, DailyIdle,
     DailySwap, DailyRetry, RestartRecapSent, DailySent
<1>9. CASE SweepStart(s)
  <2>1. /\ Quiet /\ windows' = windows /\ disk' = disk
    BY <1>9 DEF SweepStart, windowVars
  <2>2. Deferred' = Deferred
    BY <2>1 DEF Deferred
  <2>3. CASE /\ restartRecapDone \/ InRestartGrace(clock) \/ Deferred = {}
             /\ restartRecapDone' = DoneWithoutRecap(clock) /\ pc' = [pc EXCEPT ![s] = "scan"]
    <3>1. pc'[s] = "scan"
      BY <1>1, <2>3
    <3>2. CASE restartRecapDone' = restartRecapDone
      <4>1. GraceOver' => GraceOver
        BY <1>1, <1>4, <3>1, <3>2 DEF GraceOver, Procs
      <4>2. RecapCovers'
        BY <1>1, <1>4, <2>1, <2>2, <3>1, <3>2 DEF GraceInv, RecapCovers, Procs
      <4>3. QED
        BY <1>5, <1>6, <1>7, <4>1, <4>2 DEF GraceInv
    <3>3. CASE restartRecapDone' # restartRecapDone
      <4>1. ~restartRecapDone /\ ~InRestartGrace(clock) /\ Deferred = {}
        BY <1>1, <2>3, <3>3 DEF DoneWithoutRecap
      <4>2. NoLateDefer'
        BY <1>2, <1>4, <2>1, <4>1, WaitersLate DEF NoLateDefer, InRestartGrace
      <4>3. RecapCovers'
        BY <1>1, <1>4, <2>1, <2>2, <3>1, <4>1 DEF GraceInv, RecapCovers, Procs
      <4>4. QED
        BY <1>5, <1>6, <4>2, <4>3 DEF GraceInv
    <3>4. QED
      BY <3>2, <3>3
  <2>4. CASE /\ ~restartRecapDone /\ ~InRestartGrace(clock)
             /\ seen' = [seen EXCEPT ![s].now = clock, ![s].batch = Deferred]
             /\ restartRecapDone' = restartRecapDone
    <3>1. seen'[s].batch = Deferred
      BY <1>1, <2>4 DEF SeenType
    <3>2. NoLateDefer'
      BY <1>2, <1>4, <2>1, <2>4, WaitersLate DEF NoLateDefer, InRestartGrace
    <3>3. RecapCovers'
      BY <1>1, <1>4, <2>1, <2>2, <2>4, <3>1 DEF GraceInv, RecapCovers, Procs
    <3>4. QED
      BY <1>5, <1>6, <3>2, <3>3 DEF GraceInv
  <2>5. QED
    BY <1>9, <2>3, <2>4 DEF SweepStart, Goto
<1>10. ASSUME NEW answer \in Answers, RestartRecapSent(s, answer) PROVE GraceInv'
  <2>1. /\ pc[s] = "restartRecap" /\ pc' = [pc EXCEPT ![s] = "scan"] /\ seen' = seen
        /\ disk' = disk
    BY <1>10 DEF RestartRecapSent, Goto
  <2>2. pc'[s] = "scan" /\ GraceOver
    BY <1>1, <2>1 DEF GraceOver
  <2>3. NoLateDefer'
    BY <1>7, <2>2
  <2>4. CASE restartRecapDone' = restartRecapDone /\ windows' = windows
    <3>1. Deferred' = Deferred
      BY <2>4 DEF Deferred
    <3>2. RecapCovers'
      BY <1>4, <2>1, <2>2, <2>4, <3>1 DEF GraceInv, RecapCovers, Procs
    <3>3. QED
      BY <1>5, <1>6, <2>3, <3>2 DEF GraceInv
  <2>5. CASE ~(restartRecapDone' = restartRecapDone /\ windows' = windows)
    <3> DEFINE w(a) == [windows[a] EXCEPT !.deferred = FALSE, !.told = @ \/ Accepted(answer)]
    <3>1. \A a \in Alerts : ~w(a).deferred
      BY <1>1 DEF GoodWindow, WindowType
    <3>2. windows' = [a \in Alerts |-> IF a \in seen[s].batch /\ windows[a].open
                                         THEN w(a) ELSE windows[a]]
      BY <1>10, <2>5 DEF RestartRecapSent
    <3> HIDE DEF w
    <3>3. \A a \in Alerts : windows'[a].open /\ windows'[a].deferred =>
                              a \in Deferred /\ a \notin seen[s].batch
      BY <3>1, <3>2 DEF Deferred
    <3>4. Deferred \subseteq seen[s].batch
      BY <2>1 DEF GraceInv, RecapCovers
    <3>5. Deferred' = {}
      BY <3>3, <3>4 DEF Deferred
    <3>6. RecapCovers'
      BY <2>1, <3>5 DEF GraceInv, RecapCovers
    <3>7. QED
      BY <1>5, <1>6, <2>3, <3>6 DEF GraceInv
  <2>6. QED
    BY <2>4, <2>5
<1>11. ASSUME pc[s] # "restartRecap", pc'[s] # "restartRecap", restartRecapDone' = restartRecapDone,
              \A a \in Alerts : windows'[a].open /\ windows'[a].deferred =>
                                  windows[a].open /\ windows[a].deferred,
              \A a \in Alerts : ~disk'.windows[a].deferred
       PROVE  GraceInv'
  <2>1. Deferred' \subseteq Deferred
    BY <1>11 DEF Deferred
  <2>2. GraceOver' => GraceOver
    BY <1>4, <1>11 DEF GraceOver, Procs
  <2>3. RecapCovers'
    BY <1>4, <1>11, <2>1 DEF GraceInv, RecapCovers, Procs
  <2>4. QED
    BY <1>5, <1>6, <1>7, <2>2, <2>3 DEF GraceInv
<1>12. CASE \/ SweepScan(s) \/ SweepNext(s) \/ DailyIdle(s) \/ DailySwap(s) \/ DailyRetry(s)
            \/ \E answer \in Answers : DailySent(s, answer)
  <2>1. /\ pc[s] # "restartRecap" /\ pc'[s] # "restartRecap"
        /\ restartRecapDone' = restartRecapDone /\ windows' = windows /\ disk' = disk
    BY <1>1, <1>12 DEF SweepScan, SweepNext, DailyIdle, DailySwap, DailyRetry, DailySent, AtDaily,
       Goto, startVars, windowVars
  <2>2. QED
    BY <1>11, <2>1 DEF GraceInv, RecapCovers
<1>13. CASE SweepClose(s)
  <2>1. /\ pc[s] # "restartRecap" /\ pc'[s] # "restartRecap"
        /\ restartRecapDone' = restartRecapDone /\ disk' = disk
        /\ windows' = windows \/ \E a : windows' = [windows EXCEPT ![a] = NoWindow]
    BY <1>1, <1>13 DEF SweepClose, Goto, startVars, windowVars, Closed
  <2>2. \A a \in Alerts : windows'[a].open /\ windows'[a].deferred =>
                            windows[a].open /\ windows[a].deferred
    BY <1>1, <2>1, NoWindowGood
  <2>3. QED
    BY <1>11, <2>1, <2>2 DEF GraceInv, RecapCovers
<1>14. CASE SweepPersist(s)
  <2>1. /\ pc[s] # "restartRecap" /\ pc'[s] # "restartRecap"
        /\ restartRecapDone' = restartRecapDone /\ windows' = windows
        /\ disk' = disk \/ disk' = Snapshot
    BY <1>1, <1>14 DEF SweepPersist, Goto, startVars, windowVars, ExportState
  <2>2. \A a \in Alerts : ~disk'.windows[a].deferred
    BY <2>1, SnapshotFree DEF GraceInv, RecapCovers
  <2>3. QED
    BY <1>11, <2>1, <2>2
<1>15. QED
  BY <1>9, <1>10, <1>12, <1>13, <1>14 DEF Sweep

\* A process that starts has its grace period before it, and nothing held back.
LEMMA BootGrace ==
  ASSUME Tables, NEW file, Boot(file), clock' = clock,
         \A a \in Alerts : ~file.windows[a].deferred,
         \A a \in Alerts : ~disk'.windows[a].deferred
  PROVE  GraceInv'
<1>1. /\ startedAt' = clock /\ restartRecapDone' = (RestartGraceMs = 0)
      /\ clock \in Nat /\ RestartGraceMs \in Nat
  BY OptionsTyped DEF Boot, Tables, Instants
<1>2. /\ \A a \in Alerts : eventLocks'[a] = <<>>
      /\ \A d \in Deliveries : pc'[d] \in {"idle", "ok", "failed", "lost"}
      /\ \A s \in Sweeps : pc'[s] = "idle"
  BY PayloadTyped DEF Boot, Procs
<1>3. \A a \in Alerts : windows'[a] = NoWindow \/ windows'[a] = file.windows[a]
  BY DEF Boot
<1>4. Deferred' = {}
  BY <1>3 DEF Deferred, NoWindow
<1>5. TimesInLine'
  BY <1>2 DEF TimesInLine, Inner, InLine
<1>6. LateSends'
  BY <1>2 DEF LateSends
<1>7. NoLateDefer'
  <2>1. GraceOver' => RestartGraceMs = 0
    BY <1>1, <1>2 DEF GraceOver
  <2>2. RestartGraceMs = 0 => ~(clock' < startedAt' + RestartGraceMs)
    BY <1>1
  <2>3. QED
    BY <1>2, <2>1, <2>2 DEF NoLateDefer, InRestartGrace
<1>8. RecapCovers'
  BY <1>2, <1>4 DEF RecapCovers
<1>9. QED
  BY <1>5, <1>6, <1>7, <1>8 DEF GraceInv

LEMMA GraceInit == Init => GraceInv
<1> SUFFICES ASSUME Init PROVE GraceInv
  OBVIOUS
<1>1. /\ \A p \in Procs : pc[p] = "idle"
      /\ \A a \in Alerts : eventLocks[a] = <<>> /\ ~windows[a].open /\ ~disk.windows[a].deferred
      /\ clock = 0 /\ startedAt = 0 /\ restartRecapDone = (RestartGraceMs = 0)
      /\ RestartGraceMs \in Nat /\ Deliveries \subseteq Procs /\ Sweeps \subseteq Procs
  BY OptionsTyped, PayloadTyped DEF Init, NoWindows, NoWindow, NoDisk, Procs
<1>2. TimesInLine /\ LateSends
  BY <1>1 DEF TimesInLine, Inner, InLine, LateSends
<1>3. NoLateDefer
  <2>1. GraceOver => RestartGraceMs = 0
    BY <1>1 DEF GraceOver
  <2>2. RestartGraceMs = 0 => ~(clock < startedAt + RestartGraceMs)
    BY <1>1
  <2>3. QED
    BY <1>1, <2>1, <2>2 DEF NoLateDefer, InRestartGrace, Procs
<1>4. RecapCovers
  BY <1>1 DEF RecapCovers, Deferred
<1>5. QED
  BY <1>2, <1>3, <1>4 DEF GraceInv

LEMMA GraceStep == GraceInv /\ LinesInv /\ LinesInv' /\ Tables /\ [Next]_vars => GraceInv'
<1> SUFFICES ASSUME GraceInv, LinesInv, LinesInv', Tables, [Next]_vars PROVE GraceInv'
  OBVIOUS
<1>1. CASE \E d \in Deliveries : Receive(d) \/ Handle(d)
  BY <1>1, ReceiveGrace, HandlerGrace
<1>2. CASE \E s \in Sweeps : Sweep(s)
  BY <1>2, SweepGrace
<1>3. CASE Tick \/ UNCHANGED vars
  <2>1. /\ windows' = windows /\ disk' = disk /\ pc' = pc /\ seen' = seen
        /\ startedAt' = startedAt /\ restartRecapDone' = restartRecapDone
        /\ eventLocks' = eventLocks /\ clock' \in {clock, clock + 1}
    BY <1>3 DEF Tick, vars, windowVars, startVars, lockVars
  <2>2. /\ clock \in Nat /\ startedAt \in Nat /\ RestartGraceMs \in Nat
        /\ seen \in [Procs -> SeenType] /\ Deliveries \subseteq Procs
    BY OptionsTyped, PayloadTyped DEF Tables, Instants, Memory
  <2>3. \A d \in Deliveries : seen[d].now \in Nat
    BY <2>2 DEF SeenType
  <2>4. TimesInLine'
    BY <2>1, <2>2, <2>3 DEF GraceInv, TimesInLine, Inner
  <2>5. LateSends'
    BY <2>1 DEF GraceInv, LateSends, InRestartGrace
  <2>6. NoLateDefer'
    BY <2>1, <2>2 DEF GraceInv, NoLateDefer, GraceOver, InRestartGrace
  <2>7. RecapCovers'
    BY <2>1 DEF GraceInv, RecapCovers, Deferred
  <2>8. QED
    BY <2>4, <2>5, <2>6, <2>7 DEF GraceInv
<1>4. CASE Deploy \/ Crash
  <2>1. /\ clock' = clock
        /\ \/ Boot(disk') /\ disk' \in {Snapshot, disk}
           \/ Boot(disk) /\ disk' = disk
    BY <1>4 DEF Deploy, Crash, ExportState
  <2>2. \A a \in Alerts : ~Snapshot.windows[a].deferred /\ ~disk.windows[a].deferred
    BY SnapshotFree DEF GraceInv, RecapCovers
  <2>3. \A a \in Alerts : ~disk'.windows[a].deferred
    BY <2>1, <2>2
  <2>4. QED
    BY <2>1, <2>2, <2>3, BootGrace
<1>5. QED
  BY <1>1, <1>2, <1>3, <1>4 DEF Next, Running

\* No alert that was held back after a restart is forgotten: as long as its window
\* waits, the restart recap has not been done (flushRestartRecap) and one that is being
\* sent covers it, however the handlers that read their time in the grace period are
\* delayed by a lock or a send.
THEOREM HeldBackNotForgotten == Spec => []DeferredStillDue
<1>1. GraceInv => DeferredStillDue
  BY DEF GraceInv, RecapCovers, Deferred, DeferredStillDue
<1>2. GraceInv /\ LinesInv /\ LinesInv' /\ Tables /\ [Next]_vars => GraceInv'
  BY GraceStep
<1>3. QED
  BY <1>1, <1>2, GraceInit, LinesAlways, TablesAlways, PTL DEF Spec

-----------------------------------------------------------------------------
(* When windows and periods end.                                             *)

\* Division, as the relay uses it.
LEMMA DayDivision ==
  ASSUME NEW x \in Nat
  PROVE  /\ x \div Day \in Nat /\ Day * (x \div Day) \in Nat
         /\ Day * (x \div Day) <= x /\ x < Day * (x \div Day) + Day
<1>1. Day \in Nat \ {0}
  BY OptionsTyped
<1>2. x \div Day \in Nat
  BY <1>1, SMT
<1>3. Day * (x \div Day) \in Nat
  BY <1>1, <1>2, SMT
<1>4. Day * (x \div Day) <= x
  BY <1>1, SMT
<1>5. x < Day * (x \div Day) + Day
  BY <1>1, SMT
<1>6. QED
  BY <1>2, <1>3, <1>4, <1>5

\* A multiple of the day below another is a day below it, or more.
LEMMA DaysApart ==
  ASSUME NEW m \in Nat, NEW n \in Nat, m < n
  PROVE  Day * m \in Nat /\ Day * n \in Nat /\ Day * m + Day <= Day * n
<1>1. Day \in Nat \ {0}
  BY OptionsTyped
<1>2. n - m - 1 \in Nat
  OBVIOUS
<1>3. Day * (n - m - 1) \in Nat
  BY <1>1, <1>2, SMT
<1>4. Day * n = Day * m + Day + Day * (n - m - 1) /\ Day * m \in Nat /\ Day * n \in Nat
  BY <1>1, SMT
<1>5. QED
  BY <1>1, <1>3, <1>4

\* The next recap is the first one strictly after from (nextRecapTime): a period
\* is never empty and never longer than a day.
THEOREM NextRecapIsNext ==
  ASSUME NEW from \in Nat
  PROVE  /\ from < NextRecapTime(from)
         /\ NextRecapTime(from) <= from + Day
         /\ \E n \in Nat : NextRecapTime(from) = Day * n
<1>1. Day \in Nat \ {0} /\ from \div Day \in Nat
  BY OptionsTyped, DayDivision
<1>2. /\ NextRecapTime(from) = Day * (from \div Day + 1)
      /\ Day * (from \div Day + 1) = Day * (from \div Day) + Day
  BY <1>1, SMT DEF NextRecapTime
<1>3. from \div Day + 1 \in Nat
  BY <1>1
<1>4. QED
  BY <1>1, <1>2, <1>3, DayDivision

\* A window ends with the first recap that is at least a cooldown away from the
\* alert that opens it (windowExpiry): neither sooner, nor a day later.
THEOREM ExpiryIsFirstRecap ==
  ASSUME nextRecapAt \in Nat, NEW now \in Nat
  PROVE  /\ now + CooldownMs <= WindowExpiry(now)
         /\ \E n \in Nat :
              /\ WindowExpiry(now) = nextRecapAt + Day * n
              /\ \A m \in Nat : now + CooldownMs <= nextRecapAt + Day * m => n <= m
<1>1. Day \in Nat \ {0} /\ CooldownMs \in Nat
  BY OptionsTyped
<1> DEFINE wait == now + CooldownMs - nextRecapAt
<1>2. wait \in Int
  BY <1>1
<1>3. CASE wait <= 0
  <2>1. WindowExpiry(now) = nextRecapAt /\ Day * 0 = 0
    BY <1>1, <1>3 DEF WindowExpiry
  <2>2. now + CooldownMs <= nextRecapAt
    BY <1>1, <1>3
  <2>3. QED
    BY <2>1, <2>2
<1>4. CASE ~(wait <= 0)
  <2> DEFINE n == (wait + Day - 1) \div Day
  <2>1. wait + Day - 1 \in Nat
    BY <1>1, <1>2, <1>4
  <2>2. /\ n \in Nat /\ Day * n \in Nat
        /\ Day * n <= wait + Day - 1 /\ wait + Day - 1 < Day * n + Day
    BY <2>1, DayDivision
  <2>3. WindowExpiry(now) = nextRecapAt + Day * n
    BY <1>4 DEF WindowExpiry
  <2> HIDE DEF n
  <2>4. wait <= Day * n /\ Day * n < wait + Day
    BY <1>1, <1>2, <2>2
  <2>5. ASSUME NEW m \in Nat, now + CooldownMs <= nextRecapAt + Day * m PROVE n <= m
    <3> SUFFICES ASSUME m < n PROVE FALSE
      BY <2>2
    <3>1. Day * m \in Nat /\ Day * m + Day <= Day * n
      BY <2>2, DaysApart
    <3>2. wait <= Day * m
      BY <1>1, <2>5, <3>1
    <3>3. QED
      BY <1>1, <1>2, <2>2, <2>4, <3>1, <3>2
  <2>6. now + CooldownMs <= WindowExpiry(now)
    BY <1>1, <2>2, <2>3, <2>4
  <2>7. QED
    BY <2>2, <2>3, <2>5, <2>6
<1>5. QED
  BY <1>2, <1>3, <1>4

=============================================================================
