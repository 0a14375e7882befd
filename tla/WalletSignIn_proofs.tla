-------------------------- MODULE WalletSignIn_proofs --------------------------
(* Proofs about WalletSignIn and SmartAccountProvisioning for every value of *)
(* their constants: what rows, answers and records may be relied on for, and *)
(* that the disagreement of SmartAccountForked rests on forks alone.         *)
EXTENDS WalletSignIn, SequenceTheorems, FiniteSetTheorems, TLAPS

-----------------------------------------------------------------------------
(* Types.                                                                   *)

Numbered == InCreate \cup Promoting \cup {"markPromoted", "markFailed", "replace", "ok"}
Reserving == {"insert", "existing", "replace"}

(* An attempt that works on a number has one; a row has one.                *)
NumbersKnown ==
  /\ \A u \in Users : rows[u].state # "none" => rows[u].pda \in Indices
  /\ \A a \in Attempts :
       /\ at[a].step \in Numbered \/ at[a].state # "none" => at[a].pda \in Indices
       /\ at[a].step \in Reserving => at[a].next \in Indices
       /\ at[a].step = "existing" => RowOf(a).state # "none"
       /\ at[a].step = "replace" => at[a].state # "none"

TypeInv == TypeOK /\ NumbersKnown

LEMMA ConstantTypes ==
  /\ MaxIndex \in Nat /\ 1 <= MaxIndex
  /\ MaxReservations \in Nat /\ 0 \in 0 .. MaxReservations - 1
  /\ 0 \in 0 .. MaxIndex /\ Indices \subseteq 0 .. MaxIndex
BY MaxIndexAssumption, MaxReservationsAssumption DEF Indices

LEMMA StartTyped ==
  ASSUME NEW s \in Steps, NEW p \in 0 .. MaxIndex
  PROVE  Start(s, p) \in Local
BY ConstantTypes DEF Start, Local, States

LEMMA TypeInit == Init => TypeInv
<1> SUFFICES ASSUME Init PROVE TypeInv
  OBVIOUS
<1>1. at \in [Attempts -> Local]
  BY StartTyped, ConstantTypes DEF Init, Steps
<1>2. chain \in Seq(Attempts \cup {Other}) /\ Len(chain) = 0
  BY EmptySeq DEF Init
<1>3. TypeOK
  BY <1>1, <1>2, ConstantTypes, FaultsAssumption DEF Init, TypeOK, NoRow, States
<1>4. NumbersKnown
  BY DEF Init, NumbersKnown, NoRow, Start, Numbered, InCreate, Promoting, Reserving
<1>5. QED
  BY <1>3, <1>4 DEF TypeInv

\* What is shared changes only where a step says so: the rest of TypeInv is
\* about the attempt that takes the step.
LEMMA AttemptTyped ==
  ASSUME TypeInv, NEW a \in Attempts, NEW l \in Local,
         at' = [at EXCEPT ![a] = l],
         rows' \in [Users -> [state : States, pda : 0 .. MaxIndex]],
         \A u \in Users : /\ rows'[u].state # "none" => rows'[u].pda \in Indices
                          /\ rows[u].state # "none" => rows'[u].state # "none",
         l.step \in Numbered \/ l.state # "none" => l.pda \in Indices,
         l.step \in Reserving => l.next \in Indices,
         l.step = "existing" => rows'[UserOf[a]].state # "none",
         l.step = "replace" => l.state # "none"
  PROVE  at' \in [Attempts -> Local] /\ NumbersKnown'
<1>1. at' \in [Attempts -> Local]
  BY DEF TypeInv, TypeOK
<1>2. ASSUME NEW b \in Attempts PROVE at'[b] = IF b = a THEN l ELSE at[b]
  BY DEF TypeInv, TypeOK
<1>3. \A b \in Attempts : UserOf[b] \in Users
  BY UserOfAssumption
<1>4. QED
  BY <1>1, <1>2, <1>3 DEF TypeInv, NumbersKnown, RowOf

LEMMA FindTyped == ASSUME TypeInv, NEW a \in Attempts, Find(a) PROVE TypeInv'
<1>1. UserOf[a] \in Users
  BY UserOfAssumption
<1> DEFINE l == [at[a] EXCEPT !.state = RowOf(a).state, !.pda = RowOf(a).pda,
              !.step = IF RowOf(a).state = "none" THEN "reserve" ELSE "promote"]
<1>2. at' = [at EXCEPT ![a] = l]
  BY DEF Find, TypeInv, TypeOK, Local
<1>3. l \in Local
  <2>1. RowOf(a).state \in States /\ RowOf(a).pda \in 0 .. MaxIndex /\ at[a] \in Local
    BY <1>1 DEF TypeInv, TypeOK, RowOf
  <2>2. {"reserve", "promote"} \subseteq Steps
    BY DEF Steps, Promoting
  <2>3. QED
    BY <2>1, <2>2 DEF Local
<1>4. NumbersKnown' /\ at' \in [Attempts -> Local]
  <2> HIDE DEF l
  <2>1. /\ rows' \in [Users -> [state : States, pda : 0 .. MaxIndex]]
        /\ \A u \in Users : /\ rows'[u].state # "none" => rows'[u].pda \in Indices
                            /\ rows[u].state # "none" => rows'[u].state # "none"
    BY DEF Find, TypeInv, TypeOK, NumbersKnown
  <2>2. /\ l.step \in {"reserve", "promote"}
        /\ l.step = "promote" \/ l.state # "none" => l.pda \in Indices
    BY <1>1 DEF l, TypeInv, TypeOK, Local, NumbersKnown, RowOf
  <2>3. QED
    BY <1>2, <1>3, <2>1, <2>2, AttemptTyped DEF Numbered, Reserving, InCreate, Promoting
<1>5. QED
  BY <1>4 DEF Find, TypeInv, TypeOK, chainVars

\* The rows that a step which writes none leaves are typed and known.
LEMMA RowsStay ==
  ASSUME TypeInv, rows' = rows
  PROVE  /\ rows' \in [Users -> [state : States, pda : 0 .. MaxIndex]]
         /\ \A u \in Users : /\ rows'[u].state # "none" => rows'[u].pda \in Indices
                             /\ rows[u].state # "none" => rows'[u].state # "none"
BY DEF TypeInv, TypeOK, NumbersKnown

\* An attempt that only moves on keeps its number.
LEMMA GotoTyped ==
  ASSUME TypeInv, NEW a \in Attempts, NEW s \in Steps, Goto(a, s), s \notin Reserving,
         s \in Numbered => at[a].pda \in Indices,
         rows' \in [Users -> [state : States, pda : 0 .. MaxIndex]],
         \A u \in Users : /\ rows'[u].state # "none" => rows'[u].pda \in Indices
                          /\ rows[u].state # "none" => rows'[u].state # "none"
  PROVE  at' \in [Attempts -> Local] /\ NumbersKnown'
<1> DEFINE l == [at[a] EXCEPT !.step = s]
<1>1. at' = [at EXCEPT ![a] = l]
  BY DEF Goto, TypeInv, TypeOK, Local
<1>2. l \in Local /\ l.step = s /\ l.state = at[a].state /\ l.pda = at[a].pda
  BY DEF TypeInv, TypeOK, Local
<1>3. l.state # "none" => l.pda \in Indices
  BY <1>2 DEF TypeInv, NumbersKnown
<1> HIDE DEF l
<1>4. QED
  BY <1>1, <1>2, <1>3, AttemptTyped DEF Reserving

LEMMA ReturnTyped ==
  ASSUME TypeInv, NEW a \in Attempts, NEW p \in 0 .. MaxIndex,
         Fails(a) \/ (Returns(a, p) /\ p \in Indices),
         rows' \in [Users -> [state : States, pda : 0 .. MaxIndex]],
         \A u \in Users : /\ rows'[u].state # "none" => rows'[u].pda \in Indices
                          /\ rows[u].state # "none" => rows'[u].state # "none"
  PROVE  at' \in [Attempts -> Local] /\ NumbersKnown'
<1>1. CASE Fails(a)
  <2> DEFINE l == Start("error", 0)
  <2>1. l \in Local /\ l.step = "error" /\ l.state = "none"
    BY StartTyped, ConstantTypes DEF Start, Steps
  <2>2. at' = [at EXCEPT ![a] = l]
    BY <1>1 DEF Fails
  <2> HIDE DEF l
  <2>3. QED
    BY <2>1, <2>2, AttemptTyped DEF Reserving, Numbered, InCreate, Promoting
<1>2. CASE Returns(a, p) /\ p \in Indices
  <2> DEFINE l == Start("ok", p)
  <2>1. l \in Local /\ l.step = "ok" /\ l.state = "none" /\ l.pda = p
    BY StartTyped, ConstantTypes DEF Start, Steps
  <2>2. at' = [at EXCEPT ![a] = l]
    BY <1>2 DEF Returns
  <2> HIDE DEF l
  <2>3. QED
    BY <1>2, <2>1, <2>2, AttemptTyped DEF Reserving
<1>3. QED
  BY <1>1, <1>2

\* An update of the state of the user's own row.
LEMMA RowMarked ==
  ASSUME TypeInv, NEW a \in Attempts, NEW s \in States \ {"none"}, RowIsMine(a),
         rows' = [rows EXCEPT ![UserOf[a]].state = s]
  PROVE  /\ rows' \in [Users -> [state : States, pda : 0 .. MaxIndex]]
         /\ \A u \in Users : /\ rows'[u].state # "none" => rows'[u].pda \in Indices
                             /\ rows[u].state # "none" => rows'[u].state # "none"
<1>1. UserOf[a] \in Users
  BY UserOfAssumption
<1>2. rows[UserOf[a]].state # "none" /\ rows[UserOf[a]].pda \in Indices
  BY <1>1 DEF RowIsMine, RowOf, TypeInv, NumbersKnown
<1>3. rows \in [Users -> [state : States, pda : 0 .. MaxIndex]]
  BY DEF TypeInv, TypeOK
<1>4. rows' \in [Users -> [state : States, pda : 0 .. MaxIndex]]
  BY <1>1, <1>3
<1>5. ASSUME NEW u \in Users
      PROVE  rows'[u].pda = rows[u].pda /\ rows'[u].state = IF u = UserOf[a] THEN s ELSE rows[u].state
  BY <1>1, <1>3
<1>6. QED
  BY <1>1, <1>2, <1>4, <1>5 DEF TypeInv, NumbersKnown

\* What the servers remember are owners.
LEMMA SeesTyped ==
  ASSUME TypeInv, NEW a \in Attempts, at[a].step \in Numbered,
         SeesWallet(a) \/ SeesOther(a) \/ SeesNothing(a)
  PROVE  cached' \in [Indices -> SUBSET Owners]
<1>1. at[a].pda \in Indices /\ cached \in [Indices -> SUBSET Owners]
  BY DEF TypeInv, TypeOK, NumbersKnown
<1>2. UserOf[a] \in Owners
  BY UserOfAssumption DEF Owners
<1>3. ASSUME NEW o \in Answers(at[a].pda) PROVE o \in Owners
  <2>1. CASE o \in cached[at[a].pda]
    BY <1>1, <2>1
  <2>2. CASE at[a].pda \in Created /\ o = OwnerOf(at[a].pda)
    <3>1. chain[at[a].pda] \in Attempts \cup {Other}
      BY <2>2, ElementOfSeq DEF TypeInv, TypeOK, Created
    <3>2. QED
      BY <2>2, <3>1, UserOfAssumption DEF OwnerOf, Owners
  <2>3. QED
    BY <1>3, <2>1, <2>2 DEF Answers
<1>4. CASE SeesWallet(a)
  BY <1>1, <1>2, <1>4 DEF SeesWallet, Remembered
<1>5. CASE SeesOther(a)
  BY <1>1, <1>3, <1>5 DEF SeesOther, Remembered
<1>6. CASE SeesNothing(a)
  BY <1>1, <1>6 DEF SeesNothing
<1>7. QED
  BY <1>4, <1>5, <1>6

LEMMA PromoteTyped ==
  ASSUME TypeInv, NEW a \in Attempts, PromoteOwned(a) \/ PromoteMismatch(a) \/ PromoteMissing(a)
  PROVE  TypeInv'
<1>1. at[a].step \in Promoting /\ at[a].step \in Numbered
  BY DEF PromoteOwned, PromoteMismatch, PromoteMissing, Numbered
<1>2. at[a].pda \in Indices /\ at[a].pda \in 0 .. MaxIndex
  BY <1>1, ConstantTypes DEF TypeInv, NumbersKnown
<1>3. cached' \in [Indices -> SUBSET Owners]
  BY <1>1, SeesTyped DEF PromoteOwned, PromoteMismatch, PromoteMissing
<1>4. UNCHANGED <<chainVars, rows, faults>>
  BY DEF PromoteOwned, PromoteMismatch, PromoteMissing
<1>5. at' \in [Attempts -> Local] /\ NumbersKnown'
  <2>1. CASE Returns(a, at[a].pda)
    BY <1>2, <1>4, <2>1, RowsStay, ReturnTyped
  <2>2. CASE \E s \in {"markPromoted", "reserve", "markFailed", "create"} : Goto(a, s)
    <3>1. PICK s \in {"markPromoted", "reserve", "markFailed", "create"} : Goto(a, s)
      BY <2>2
    <3>2. s \in Steps /\ s \notin Reserving
      BY DEF Steps, InCreate, Reserving
    <3>3. QED
      BY <1>2, <1>4, <3>1, <3>2, RowsStay, GotoTyped
  <2>3. CASE at' = [at EXCEPT ![a].step = "reserve", ![a].round = 1]
    <3> DEFINE l == [at[a] EXCEPT !.step = "reserve", !.round = 1]
    <3>1. at' = [at EXCEPT ![a] = l]
      BY <2>3 DEF TypeInv, TypeOK, Local
    <3>2. l \in Local /\ l.step = "reserve" /\ l.pda = at[a].pda
      <4> DEFINE k == [at[a] EXCEPT !.step = "reserve"]
      <4>1. k \in Local /\ k.step = "reserve" /\ k.pda = at[a].pda
        BY DEF TypeInv, TypeOK, Local, Steps
      <4>2. l = [k EXCEPT !.round = 1]
        OBVIOUS
      <4> HIDE DEF k, l
      <4>3. QED
        BY <4>1, <4>2 DEF Local
    <3> HIDE DEF l
    <3>3. QED
      BY <1>2, <1>4, <3>1, <3>2, RowsStay, AttemptTyped DEF Reserving
  <2>4. CASE PromoteOwned(a)
    BY <2>1, <2>2, <2>4 DEF PromoteOwned
  <2>5. CASE PromoteMismatch(a)
    BY <2>2, <2>3, <2>5 DEF PromoteMismatch
  <2>6. CASE PromoteMissing(a)
    BY <2>2, <2>6 DEF PromoteMissing
  <2>7. QED
    BY <2>4, <2>5, <2>6
<1>6. QED
  BY <1>3, <1>4, <1>5 DEF TypeInv, TypeOK, chainVars

\* A reservation that succeeds, and one that meets another row.
LEMMA ReservedTyped ==
  ASSUME TypeInv, NEW a \in Attempts, at[a].step \in Reserving, Reserved(a)
  PROVE  /\ rows' \in [Users -> [state : States, pda : 0 .. MaxIndex]]
         /\ at' \in [Attempts -> Local] /\ NumbersKnown'
<1>1. UserOf[a] \in Users /\ at[a] \in Local /\ at[a].next \in Indices
  BY UserOfAssumption DEF TypeInv, TypeOK, NumbersKnown
<1>2. at[a].next \in 0 .. MaxIndex
  BY <1>1, ConstantTypes
<1>3. /\ rows' \in [Users -> [state : States, pda : 0 .. MaxIndex]]
      /\ \A u \in Users : /\ rows'[u].state # "none" => rows'[u].pda \in Indices
                          /\ rows[u].state # "none" => rows'[u].state # "none"
  <2>1. rows \in [Users -> [state : States, pda : 0 .. MaxIndex]]
    BY DEF TypeInv, TypeOK
  <2>2. rows' = [rows EXCEPT ![UserOf[a]] = [state |-> "provisioning", pda |-> at[a].next]]
    BY DEF Reserved
  <2>3. [state |-> "provisioning", pda |-> at[a].next] \in [state : States, pda : 0 .. MaxIndex]
    BY <1>2 DEF States
  <2>4. QED
    BY <1>1, <2>1, <2>2, <2>3 DEF TypeInv, NumbersKnown
<1> DEFINE l == [step |-> "create", state |-> "provisioning", pda |-> at[a].next,
                 next |-> 0, tries |-> 0, round |-> at[a].round]
<1>4. at' = [at EXCEPT ![a] = l]
  BY DEF Reserved, Adopts
<1>5. /\ l \in Local /\ l.step = "create" /\ l.pda \in Indices
  BY <1>1, <1>2, ConstantTypes DEF Local, Steps, InCreate, States
<1> HIDE DEF l
<1>6. QED
  BY <1>3, <1>4, <1>5, AttemptTyped DEF Reserving

LEMMA ConflictTyped ==
  ASSUME TypeInv, NEW a \in Attempts, Conflict(a)
  PROVE  /\ rows' \in [Users -> [state : States, pda : 0 .. MaxIndex]]
         /\ at' \in [Attempts -> Local] /\ NumbersKnown'
<1>1. rows' = rows
  BY DEF Conflict
<1>2. CASE Fails(a)
  BY <1>1, <1>2, RowsStay, ReturnTyped, ConstantTypes
<1>3. CASE ~Fails(a)
  <2>1. at[a] \in Local /\ at[a].tries + 1 \in 0 .. MaxReservations - 1
    BY <1>3, ConstantTypes DEF Conflict, TypeInv, TypeOK, Local
  <2> DEFINE l == [step |-> "reserve", state |-> at[a].state, pda |-> at[a].pda,
                   next |-> at[a].next, tries |-> at[a].tries + 1, round |-> at[a].round]
  <2>2. at' = [at EXCEPT ![a] = l]
    BY <1>3, <2>1 DEF Conflict, Local
  <2>3. /\ l \in Local /\ l.step = "reserve" /\ l.pda = at[a].pda /\ l.state = at[a].state
    BY <2>1 DEF Local, Steps
  <2>4. l.step \in Numbered \/ l.state # "none" => l.pda \in Indices
    BY <2>3 DEF TypeInv, NumbersKnown, Numbered, InCreate, Promoting
  <2> HIDE DEF l
  <2>5. QED
    BY <1>1, <2>2, <2>3, <2>4, RowsStay, AttemptTyped DEF Reserving
<1>4. QED
  BY <1>2, <1>3

LEMMA ReadIndexTyped == ASSUME TypeInv, NEW a \in Attempts, ReadIndex(a) PROVE TypeInv'
<1>1. at[a] \in Local /\ Len(chain) + 1 \in Indices /\ Len(chain) + 1 \in 0 .. MaxIndex
  BY LenProperties, ConstantTypes DEF ReadIndex, TypeInv, TypeOK, Indices
<1> DEFINE l == [at[a] EXCEPT !.next = Len(chain) + 1, !.step = "insert"]
<1>2. at' = [at EXCEPT ![a] = l]
  BY DEF ReadIndex, TypeInv, TypeOK, Local
<1>3. /\ l \in Local /\ l.step = "insert" /\ l.pda = at[a].pda /\ l.state = at[a].state
      /\ l.next \in Indices
  BY <1>1 DEF Local, Steps
<1>4. l.step \in Numbered \/ l.state # "none" => l.pda \in Indices
  BY <1>3 DEF TypeInv, NumbersKnown, Numbered, InCreate, Promoting
<1> HIDE DEF l
<1>5. at' \in [Attempts -> Local] /\ NumbersKnown'
  BY <1>2, <1>3, <1>4, RowsStay, AttemptTyped DEF ReadIndex, Reserving
<1>6. QED
  BY <1>5 DEF ReadIndex, TypeInv, TypeOK, chainVars

LEMMA InsertTyped == ASSUME TypeInv, NEW a \in Attempts, Insert(a) PROVE TypeInv'
<1>1. at[a].step \in Reserving /\ at[a].next \in Indices /\ at[a] \in Local
  BY DEF Insert, Reserving, TypeInv, TypeOK, NumbersKnown
<1>2. /\ rows' \in [Users -> [state : States, pda : 0 .. MaxIndex]]
      /\ at' \in [Attempts -> Local] /\ NumbersKnown'
  <2>1. CASE Reserved(a)
    BY <1>1, <2>1, ReservedTyped
  <2>2. CASE Conflict(a)
    BY <2>2, ConflictTyped
  <2>3. CASE /\ RowOf(a).state # "none" /\ UNCHANGED rows
             /\ Goto(a, IF at[a].state # "none" THEN "replace" ELSE "existing")
    <3> DEFINE s == IF at[a].state # "none" THEN "replace" ELSE "existing"
               l == [at[a] EXCEPT !.step = s]
    <3>1. at' = [at EXCEPT ![a] = l]
      BY <2>3 DEF Goto, TypeInv, TypeOK
    <3>2. /\ l \in Local /\ l.pda = at[a].pda /\ l.state = at[a].state
          /\ l.next = at[a].next /\ l.step \in {"replace", "existing"}
          /\ l.step = "replace" <=> at[a].state # "none"
      BY <1>1 DEF Local, Steps
    <3>3. l.step \in Numbered \/ l.state # "none" => l.pda \in Indices
      BY <3>2 DEF TypeInv, NumbersKnown, Numbered, InCreate, Promoting
    <3> HIDE DEF l
    <3>4. QED
      BY <1>1, <2>3, <3>1, <3>2, <3>3, RowsStay, AttemptTyped DEF RowOf
  <2>4. QED
    BY <2>1, <2>2, <2>3 DEF Insert
<1>3. QED
  BY <1>2 DEF Insert, TypeInv, TypeOK, chainVars

LEMMA ReplaceTyped == ASSUME TypeInv, NEW a \in Attempts, Replace(a) PROVE TypeInv'
<1>1. at[a].step \in Reserving
  BY DEF Replace, Reserving
<1>2. /\ rows' \in [Users -> [state : States, pda : 0 .. MaxIndex]]
      /\ at' \in [Attempts -> Local] /\ NumbersKnown'
  <2>1. CASE Reserved(a)
    BY <1>1, <2>1, ReservedTyped
  <2>2. CASE Conflict(a)
    BY <2>2, ConflictTyped
  <2>3. CASE Fails(a) /\ UNCHANGED rows
    BY <2>3, RowsStay, ReturnTyped, ConstantTypes
  <2>4. QED
    BY <2>1, <2>2, <2>3 DEF Replace
<1>3. QED
  BY <1>2 DEF Replace, TypeInv, TypeOK, chainVars

LEMMA ExistingTyped == ASSUME TypeInv, NEW a \in Attempts, Existing(a) PROVE TypeInv'
<1>1. /\ UserOf[a] \in Users /\ at[a] \in Local /\ RowOf(a).state # "none"
      /\ RowOf(a).pda \in Indices /\ RowOf(a).state \in States
  BY UserOfAssumption DEF Existing, RowOf, TypeInv, TypeOK, NumbersKnown
<1>2. at' \in [Attempts -> Local] /\ NumbersKnown'
  <2>1. CASE Fails(a)
    BY <2>1, RowsStay, ReturnTyped, ConstantTypes DEF Existing
  <2>2. CASE ~Fails(a)
    <3> DEFINE s == IF RowOf(a).state = "ready" THEN "promoteReserved" ELSE "create"
               l == [step |-> s, state |-> RowOf(a).state, pda |-> RowOf(a).pda,
                     next |-> 0, tries |-> 0, round |-> at[a].round]
    <3>1. at' = [at EXCEPT ![a] = l]
      BY <2>2 DEF Existing, Adopts
    <3>2. /\ l \in Local /\ l.step \in {"promoteReserved", "create"} /\ l.pda \in Indices
      BY <1>1, ConstantTypes DEF Local, Steps, InCreate, Promoting
    <3> HIDE DEF l
    <3>3. QED
      BY <3>1, <3>2, RowsStay, AttemptTyped DEF Existing, Reserving
  <2>3. QED
    BY <2>1, <2>2
<1>3. QED
  BY <1>2 DEF Existing, TypeInv, TypeOK, chainVars

\* Steps that move on, or fail, without touching a row or the chain.
LEMMA MovesTyped ==
  ASSUME TypeInv, NEW a \in Attempts, NEW s \in InCreate \cup Promoting \cup {"markFailed"},
         at[a].step \in Numbered, Goto(a, s), UNCHANGED <<chainVars, cached, rows, faults>>
  PROVE  TypeInv'
<1>1. s \in Steps /\ s \notin Reserving /\ at[a].pda \in Indices
  BY DEF Steps, InCreate, Promoting, Reserving, TypeInv, NumbersKnown
<1>2. at' \in [Attempts -> Local] /\ NumbersKnown'
  BY <1>1, RowsStay, GotoTyped
<1>3. QED
  BY <1>2 DEF TypeInv, TypeOK, chainVars

LEMMA ConfirmedTyped ==
  ASSUME TypeInv, NEW a \in Attempts, Confirmed(a) \/ Final(a) \/ NeverFinal(a)
  PROVE  TypeInv'
BY MovesTyped DEF Confirmed, Final, NeverFinal, Numbered, InCreate, Promoting

LEMMA SendTyped == ASSUME TypeInv, NEW a \in Attempts, Send(a) PROVE TypeInv'
<1>1. at[a].pda \in Indices
  BY DEF Send, TypeInv, NumbersKnown, Numbered, InCreate
<1>2. inflight' \in SUBSET [by : Attempts, pda : Indices]
  BY <1>1 DEF Send, Transaction, TypeInv, TypeOK
<1>3. at' \in [Attempts -> Local] /\ NumbersKnown'
  BY <1>1, RowsStay, GotoTyped DEF Send, Steps, InCreate, Reserving
<1>4. QED
  BY <1>2, <1>3 DEF Send, TypeInv, TypeOK

LEMMA RejectedTyped == ASSUME TypeInv, NEW a \in Attempts, Rejected(a) PROVE TypeInv'
<1>1. at[a].pda \in Indices
  BY DEF Rejected, TypeInv, NumbersKnown, Numbered, InCreate
<1>2. at' \in [Attempts -> Local] /\ NumbersKnown'
  BY <1>1, RowsStay, GotoTyped DEF Rejected, Steps, Promoting, Reserving
<1>3. QED
  BY <1>2 DEF Rejected, TypeInv, TypeOK

LEMMA CheckSignersTyped == ASSUME TypeInv, NEW a \in Attempts, CheckSigners(a) PROVE TypeInv'
<1>1. at[a].step \in Numbered /\ at[a].pda \in Indices
  BY DEF CheckSigners, TypeInv, NumbersKnown, Numbered, InCreate
<1>2. cached' \in [Indices -> SUBSET Owners]
  BY <1>1, SeesTyped DEF CheckSigners
<1>3. PICK s \in {"verify", "markReady", "promoteFailed", "markFailed"} : Goto(a, s)
  BY DEF CheckSigners
<1>4. s \in Steps /\ s \notin Reserving
  BY DEF Steps, InCreate, Promoting, Reserving
<1>5. at' \in [Attempts -> Local] /\ NumbersKnown'
  BY <1>1, <1>3, <1>4, RowsStay, GotoTyped DEF CheckSigners
<1>6. QED
  BY <1>2, <1>5 DEF CheckSigners, TypeInv, TypeOK, chainVars

LEMMA MarksTyped ==
  ASSUME TypeInv, NEW a \in Attempts, MarkPromoted(a) \/ MarkReady(a) \/ MarkFailed(a)
  PROVE  TypeInv'
<1>1. at[a].step \in Numbered /\ at[a].pda \in Indices
  BY DEF MarkPromoted, MarkReady, MarkFailed, TypeInv, NumbersKnown, Numbered, InCreate
<1>2. /\ rows' \in [Users -> [state : States, pda : 0 .. MaxIndex]]
      /\ \A u \in Users : /\ rows'[u].state # "none" => rows'[u].pda \in Indices
                          /\ rows[u].state # "none" => rows'[u].state # "none"
  <2>1. CASE rows' = rows
    BY <2>1, RowsStay
  <2>2. CASE \E s \in {"ready", "failed"} :
               RowIsMine(a) /\ rows' = [rows EXCEPT ![UserOf[a]].state = s]
    BY <2>2, RowMarked DEF States
  <2>3. QED
    BY <2>1, <2>2 DEF MarkPromoted, MarkReady, MarkFailed
<1>3. CASE Fails(a) \/ Returns(a, at[a].pda)
  <2>1. at' \in [Attempts -> Local] /\ NumbersKnown'
    BY <1>1, <1>2, <1>3, ReturnTyped, ConstantTypes
  <2>2. QED
    BY <2>1, <1>2 DEF MarkPromoted, MarkReady, MarkFailed, TypeInv, TypeOK, chainVars
<1>4. CASE Goto(a, "promoteFailed")
  <2>1. at' \in [Attempts -> Local] /\ NumbersKnown'
    BY <1>1, <1>2, <1>4, GotoTyped DEF Steps, Promoting, Reserving
  <2>2. QED
    BY <2>1, <1>2 DEF MarkPromoted, MarkReady, MarkFailed, TypeInv, TypeOK, chainVars
<1>5. QED
  BY <1>3, <1>4 DEF MarkPromoted, MarkReady, MarkFailed

LEMMA OutageTyped == ASSUME TypeInv, NEW a \in Attempts, Outage(a) PROVE TypeInv'
<1>1. faults' \in 0 .. MaxFaults
  BY FaultsAssumption DEF Outage, TypeInv, TypeOK
<1>2. at' \in [Attempts -> Local] /\ NumbersKnown'
  <2>1. CASE Fails(a)
    BY <2>1, RowsStay, ReturnTyped, ConstantTypes DEF Outage
  <2>2. CASE at[a].step \in InCreate /\ Goto(a, "promoteFailed")
    <3>1. at[a].pda \in Indices
      BY <2>2 DEF TypeInv, NumbersKnown, Numbered
    <3>2. QED
      BY <2>2, <3>1, RowsStay, GotoTyped DEF Outage, Steps, Promoting, Reserving
  <2>3. QED
    BY <2>1, <2>2 DEF Outage
<1>3. QED
  BY <1>1, <1>2 DEF Outage, TypeInv, TypeOK, chainVars

LEMMA StepTyped == ASSUME TypeInv, NEW a \in Attempts, Step(a) PROVE TypeInv'
BY FindTyped, PromoteTyped, MarksTyped, ReadIndexTyped, InsertTyped, ExistingTyped,
   ReplaceTyped, SendTyped, ConfirmedTyped, RejectedTyped, CheckSignersTyped, OutageTyped
   DEF Step

LEMMA ChainTyped == ASSUME TypeInv, ChainStep PROVE TypeInv'
<1>1. /\ chain \in Seq(Attempts \cup {Other}) /\ Len(chain) \in Nat /\ Len(chain) <= MaxIndex
      /\ final \in 0 .. Len(chain) /\ MaxIndex \in Nat
  BY LenProperties, ConstantTypes DEF TypeInv, TypeOK
<1>2. NumbersKnown' \/ <<rows, at>>' # <<rows, at>>
  BY DEF TypeInv, NumbersKnown, RowOf
<1>3. ASSUME NEW t \in inflight, Lands(t) PROVE TypeInv'
  <2>1. t \in [by : Attempts, pda : Indices]
    BY DEF TypeInv, TypeOK
  <2>2. t.by \in Attempts /\ Len(chain) + 1 <= MaxIndex
    BY <1>1, <1>3, <2>1 DEF Lands, Indices
  <2>3. chain' \in Seq(Attempts \cup {Other}) /\ Len(chain') = Len(chain) + 1
    BY <1>1, <1>3, <2>2, AppendProperties DEF Lands
  <2>4. QED
    BY <1>1, <1>2, <1>3, <2>2, <2>3 DEF Lands, TypeInv, TypeOK
<1>4. CASE OtherCreates
  <2>1. chain' \in Seq(Attempts \cup {Other}) /\ Len(chain') = Len(chain) + 1
    BY <1>1, <1>4, AppendProperties DEF OtherCreates
  <2>2. faults' \in 0 .. MaxFaults
    BY <1>4, FaultsAssumption DEF OtherCreates, TypeInv, TypeOK
  <2>3. QED
    BY <1>1, <1>2, <1>4, <2>1, <2>2 DEF OtherCreates, TypeInv, TypeOK
<1>5. CASE Finalizes
  BY <1>1, <1>2, <1>5 DEF Finalizes, TypeInv, TypeOK
<1>6. CASE Forks
  <2>1. PICK n \in final .. Len(chain) - 1 : /\ chain' = SubSeq(chain, 1, n)
                                             /\ dropped' = dropped \cup (n + 1 .. Len(chain))
    BY <1>6 DEF Forks
  <2>2. n \in Nat /\ n <= Len(chain)
    BY <1>1, <2>1
  <2>3. chain' \in Seq(Attempts \cup {Other}) /\ Len(chain') = n
    BY <1>1, <2>1, <2>2, SubSeqProperties
  <2>4. n + 1 .. Len(chain) \subseteq Indices
    BY <1>1, <2>2 DEF Indices
  <2>5. QED
    BY <1>1, <1>2, <1>6, <2>1, <2>2, <2>3, <2>4 DEF Forks, TypeInv, TypeOK
<1>7. QED
  BY <1>3, <1>4, <1>5, <1>6 DEF ChainStep

-----------------------------------------------------------------------------
(* Who owns what.                                                           *)

\* Number i will never be an account of user u, unless a fork dropped it.
Foreign(u, i) == i \in dropped \/ (i \in Created /\ OwnerOf(i) # u)
Verified(u, i) == i \in dropped \/ Owns(u, i)

\* The user's row has the number, or has given it up for good.
Claims(u, i) == rows[u].state # "none" /\ (rows[u].pda = i \/ Foreign(u, i))

Working == Numbered \ {"ok"}

\* What servers remember of accounts that no fork has dropped is so.
CacheTrue == \A i \in Indices : \A o \in cached[i] : Verified(o, i)

\* An attempt marks a number it has verified, works on a number that its
\* user claims, and reserves another only when that one is foreign.
AttemptClaims(a) ==
  /\ at[a].step \in {"markPromoted", "markReady", "promoteReserved"}
       => Verified(UserOf[a], at[a].pda)
  /\ at[a].step \in Working \/ at[a].state # "none" => Claims(UserOf[a], at[a].pda)
  /\ at[a].step \in {"reserve", "insert", "replace"} /\ at[a].state # "none"
       => Foreign(UserOf[a], at[a].pda)

\* Transactions that may land, and accounts that did, have the row's number.
TransactionsClaim == \A t \in inflight : Claims(UserOf[t.by], t.pda)

AccountsClaimed ==
  \A i \in Created \ dropped : \A u \in Users :
    OwnerOf(i) = u => rows[u].state # "none" /\ rows[u].pda = i

OwnershipInv ==
  /\ TypeInv
  /\ CacheTrue
  /\ \A a \in Attempts : AttemptClaims(a)
  /\ TransactionsClaim
  /\ AccountsClaimed
  /\ ReadyIsOwned

LEMMA OwnershipInit == Init => OwnershipInv
<1> SUFFICES ASSUME Init PROVE OwnershipInv
  OBVIOUS
<1>1. Created = {}
  BY EmptySeq DEF Init, Created
<1>2. ASSUME NEW a \in Attempts PROVE AttemptClaims(a)
  BY DEF Init, AttemptClaims, Start, Working, Numbered, InCreate, Promoting
<1>3. CacheTrue /\ TransactionsClaim /\ AccountsClaimed /\ ReadyIsOwned
  BY <1>1 DEF Init, CacheTrue, TransactionsClaim, AccountsClaimed, ReadyIsOwned, NoRow
<1>4. QED
  BY <1>2, <1>3, TypeInit DEF OwnershipInv

\* Rows keep the numbers that users claim.
RowsMove ==
  \A u \in Users : rows[u].state # "none" =>
    rows'[u].state # "none" /\ (rows'[u].pda = rows[u].pda \/ Foreign(u, rows[u].pda))

\* A step of attempt a that leaves the chain alone: what is left to show.
LEMMA StepOwned ==
  ASSUME OwnershipInv, TypeInv', UNCHANGED <<chain, dropped>>, RowsMove,
         NEW a \in Attempts,
         \A u \in Users : rows'[u].state = "ready" =>
                            rows'[u] = rows[u] \/ Verified(u, rows'[u].pda),
         \A b \in Attempts \ {a} : at'[b] = at[b],
         \A t \in inflight' : t \in inflight
                                \/ (t = Transaction(a) /\ at[a].step = "create"),
         \A i \in Indices : \A o \in cached'[i] : o \in cached[i] \/ Verified(o, i),
         at'[a].step \in {"markPromoted", "markReady", "promoteReserved"}
           => Verified(UserOf[a], at'[a].pda),
         at'[a].step \in Working \/ at'[a].state # "none"
           => /\ rows'[UserOf[a]].state # "none"
              /\ rows'[UserOf[a]].pda = at'[a].pda \/ Foreign(UserOf[a], at'[a].pda),
         at'[a].step \in {"reserve", "insert", "replace"} /\ at'[a].state # "none"
           => Foreign(UserOf[a], at'[a].pda)
  PROVE  OwnershipInv'
<1>1. ASSUME NEW u, NEW i
      PROVE  /\ Foreign(u, i)' <=> Foreign(u, i)
             /\ Verified(u, i)' <=> Verified(u, i)
             /\ Owns(u, i)' <=> Owns(u, i)
  BY DEF Foreign, Verified, Owns, Created, OwnerOf
<1>2. ASSUME NEW u \in Users, NEW i, Claims(u, i) PROVE Claims(u, i)'
  BY <1>1, <1>2 DEF Claims, RowsMove
<1>3. CacheTrue'
  BY <1>1 DEF OwnershipInv, CacheTrue
<1>4. ASSUME NEW b \in Attempts PROVE AttemptClaims(b)'
  <2>1. UserOf[b] \in Users
    BY UserOfAssumption
  <2>2. CASE b = a
    BY <1>1, <2>2 DEF AttemptClaims, Claims
  <2>3. CASE b # a
    BY <1>1, <1>2, <2>1, <2>3 DEF OwnershipInv, AttemptClaims
  <2>4. QED
    BY <2>2, <2>3
<1>5. TransactionsClaim'
  <2>1. ASSUME NEW t \in inflight' PROVE Claims(UserOf[t.by], t.pda)'
    <3>1. t.by \in Attempts /\ UserOf[t.by] \in Users
      BY UserOfAssumption DEF TypeInv, TypeOK
    <3>2. CASE t \in inflight
      BY <1>2, <3>1, <3>2 DEF OwnershipInv, TransactionsClaim
    <3>3. CASE t = Transaction(a) /\ at[a].step = "create"
      <4>1. Claims(UserOf[a], at[a].pda)
        BY <3>3 DEF OwnershipInv, AttemptClaims, Working, Numbered, InCreate
      <4>2. QED
        BY <1>2, <3>1, <3>3, <4>1 DEF Transaction
    <3>4. QED
      BY <3>2, <3>3
  <2>2. QED
    BY <2>1 DEF TransactionsClaim
<1>6. AccountsClaimed'
  BY DEF OwnershipInv, AccountsClaimed, RowsMove, Foreign, Created, OwnerOf
<1>7. ReadyIsOwned'
  BY <1>1 DEF OwnershipInv, ReadyIsOwned, Verified
<1>8. QED
  BY <1>3, <1>4, <1>5, <1>6, <1>7 DEF OwnershipInv

\* What a look at the chain tells of the account.
LEMMA SeesOwned ==
  ASSUME OwnershipInv, NEW a \in Attempts, at[a].step \in Numbered,
         SeesWallet(a) \/ SeesOther(a) \/ SeesNothing(a)
  PROVE  /\ SeesWallet(a) => Verified(UserOf[a], at[a].pda)
         /\ SeesOther(a) => Foreign(UserOf[a], at[a].pda)
         /\ SeesNothing(a) /\ Verified(UserOf[a], at[a].pda) => Foreign(UserOf[a], at[a].pda)
         /\ \A i \in Indices : \A o \in cached'[i] : o \in cached[i] \/ Verified(o, i)
<1> DEFINE p == at[a].pda
<1>1. p \in Indices /\ cached \in [Indices -> SUBSET Owners]
  BY DEF OwnershipInv, TypeInv, TypeOK, NumbersKnown
<1>2. ASSUME NEW o \in Answers(p) PROVE Verified(o, p)
  BY <1>1, <1>2 DEF Answers, Verified, Owns, OwnershipInv, CacheTrue
<1>3. ASSUME NEW o \in Answers(p), o # UserOf[a] PROVE Foreign(UserOf[a], p)
  BY <1>2, <1>3 DEF Verified, Owns, Foreign
<1>4. SeesWallet(a) => Verified(UserOf[a], p)
  BY <1>2 DEF SeesWallet
<1>5. SeesOther(a) => Foreign(UserOf[a], p)
  BY <1>3 DEF SeesOther
<1>6. SeesNothing(a) /\ Verified(UserOf[a], p) => Foreign(UserOf[a], p)
  BY DEF SeesNothing, Verified, Owns, Foreign
<1>7. ASSUME NEW o, Verified(o, p), cached' = Remembered(p, o), NEW i \in Indices,
             NEW q \in cached'[i]
      PROVE  q \in cached[i] \/ Verified(q, i)
  BY <1>1, <1>7 DEF Remembered
<1>8. \A i \in Indices : \A o \in cached'[i] : o \in cached[i] \/ Verified(o, i)
  <2>1. CASE SeesWallet(a)
    BY <1>4, <1>7, <2>1 DEF SeesWallet
  <2>2. CASE SeesOther(a)
    BY <1>2, <1>7, <2>2 DEF SeesOther
  <2>3. CASE SeesNothing(a)
    BY <2>3 DEF SeesNothing
  <2>4. QED
    BY <2>1, <2>2, <2>3
<1>9. QED
  BY <1>4, <1>5, <1>6, <1>8

LEMMA GotoFields ==
  ASSUME TypeInv, NEW a \in Attempts, NEW s, Goto(a, s)
  PROVE  /\ at'[a].step = s /\ at'[a].state = at[a].state /\ at'[a].pda = at[a].pda
         /\ \A b \in Attempts \ {a} : at'[b] = at[b]
BY DEF Goto, TypeInv, TypeOK, Local

LEMMA EndFields ==
  ASSUME TypeInv, NEW a \in Attempts, NEW p, Fails(a) \/ Returns(a, p)
  PROVE  /\ at'[a].step \in {"ok", "error"} /\ at'[a].state = "none"
         /\ \A b \in Attempts \ {a} : at'[b] = at[b]
BY DEF Fails, Returns, Start, TypeInv, TypeOK

\* An attempt that ends has nothing left to claim.
LEMMA EndOwned ==
  ASSUME OwnershipInv, TypeInv', NEW a \in Attempts, NEW p, Fails(a) \/ Returns(a, p),
         UNCHANGED <<chainVars, cached>>, RowsMove,
         \A u \in Users : rows'[u].state = "ready" =>
                            rows'[u] = rows[u] \/ Verified(u, rows'[u].pda)
  PROVE  OwnershipInv'
<1>1. /\ at'[a].step \in {"ok", "error"} /\ at'[a].state = "none"
      /\ \A b \in Attempts \ {a} : at'[b] = at[b]
  BY EndFields DEF OwnershipInv
<1>2. at'[a].step \notin Working
  BY <1>1 DEF Working, Numbered, InCreate, Promoting
<1>3. QED
  BY <1>1, <1>2, StepOwned DEF chainVars

\* Rows and the chain stay.
LEMMA RowsMoveNot ==
  ASSUME rows' = rows
  PROVE  RowsMove /\ \A u \in Users : rows'[u].state = "ready" =>
                                        rows'[u] = rows[u] \/ Verified(u, rows'[u].pda)
BY DEF RowsMove

\* An attempt that keeps its number and claims it.
LEMMA GotoOwned ==
  ASSUME OwnershipInv, TypeInv', NEW a \in Attempts, NEW s, Goto(a, s),
         UNCHANGED <<chain, dropped, rows>>,
         \A t \in inflight' : t \in inflight
                                \/ (t = Transaction(a) /\ at[a].step = "create"),
         \A i \in Indices : \A o \in cached'[i] : o \in cached[i] \/ Verified(o, i),
         s \in {"markPromoted", "markReady"} => Verified(UserOf[a], at[a].pda),
         s # "promoteReserved",
         at[a].step \in Working \/ at[a].state # "none" \/ s \notin Working,
         s \in {"reserve", "insert", "replace"} /\ at[a].state # "none"
           => Foreign(UserOf[a], at[a].pda)
  PROVE  OwnershipInv'
<1>1. /\ at'[a].step = s /\ at'[a].state = at[a].state /\ at'[a].pda = at[a].pda
      /\ \A b \in Attempts \ {a} : at'[b] = at[b]
  BY GotoFields DEF OwnershipInv
<1>2. at'[a].step \in Working \/ at'[a].state # "none" => Claims(UserOf[a], at[a].pda)
  BY <1>1 DEF OwnershipInv, AttemptClaims
<1>3. QED
  BY <1>1, <1>2, StepOwned, RowsMoveNot DEF Claims

LEMMA PromoteOwnership ==
  ASSUME OwnershipInv, TypeInv', NEW a \in Attempts,
         PromoteOwned(a) \/ PromoteMismatch(a) \/ PromoteMissing(a)
  PROVE  OwnershipInv'
<1>1. at[a].step \in Promoting /\ at[a].step \in Numbered /\ at[a].step \in Working
  BY DEF PromoteOwned, PromoteMismatch, PromoteMissing, Working, Numbered, Promoting
<1>2. UNCHANGED <<chain, dropped, inflight, rows>>
  BY DEF PromoteOwned, PromoteMismatch, PromoteMissing, chainVars
<1>3. /\ SeesWallet(a) => Verified(UserOf[a], at[a].pda)
      /\ SeesOther(a) => Foreign(UserOf[a], at[a].pda)
      /\ SeesNothing(a) /\ Verified(UserOf[a], at[a].pda) => Foreign(UserOf[a], at[a].pda)
      /\ \A i \in Indices : \A o \in cached'[i] : o \in cached[i] \/ Verified(o, i)
  BY <1>1, SeesOwned DEF PromoteOwned, PromoteMismatch, PromoteMissing
<1>4. CASE Returns(a, at[a].pda)
  <2>1. /\ at'[a].step \in {"ok", "error"} /\ at'[a].state = "none"
        /\ \A b \in Attempts \ {a} : at'[b] = at[b]
    BY <1>4, EndFields DEF OwnershipInv
  <2>2. at'[a].step \notin Working
    BY <2>1 DEF Working, Numbered, InCreate, Promoting
  <2>3. QED
    BY <1>2, <1>3, <2>1, <2>2, StepOwned, RowsMoveNot
<1>5. CASE SeesWallet(a) /\ Goto(a, "markPromoted")
  BY <1>1, <1>2, <1>3, <1>5, GotoOwned
<1>6. CASE SeesOther(a) /\ \E s \in {"reserve", "markFailed"} : Goto(a, s)
  BY <1>1, <1>2, <1>3, <1>6, GotoOwned
<1>7. CASE SeesOther(a) /\ at' = [at EXCEPT ![a].step = "reserve", ![a].round = 1]
  <2>1. /\ at'[a].step = "reserve" /\ at'[a].state = at[a].state /\ at'[a].pda = at[a].pda
        /\ \A b \in Attempts \ {a} : at'[b] = at[b]
    BY <1>7 DEF OwnershipInv, TypeInv, TypeOK, Local
  <2>2. Claims(UserOf[a], at[a].pda)
    BY <1>1 DEF OwnershipInv, AttemptClaims
  <2>3. QED
    BY <1>2, <1>3, <1>7, <2>1, <2>2, StepOwned, RowsMoveNot DEF Claims
<1>8. CASE SeesNothing(a) /\ \E s \in {"create", "markFailed"} : Goto(a, s)
  BY <1>1, <1>2, <1>3, <1>8, GotoOwned
<1>9. CASE SeesNothing(a) /\ at[a].step = "promoteReserved" /\ Goto(a, "reserve")
  <2>1. Verified(UserOf[a], at[a].pda)
    BY <1>9 DEF OwnershipInv, AttemptClaims
  <2>2. QED
    BY <1>1, <1>2, <1>3, <1>9, <2>1, GotoOwned
<1>10. CASE PromoteOwned(a)
  BY <1>4, <1>5, <1>10 DEF PromoteOwned
<1>11. CASE PromoteMismatch(a)
  BY <1>6, <1>7, <1>11 DEF PromoteMismatch
<1>12. CASE PromoteMissing(a)
  BY <1>8, <1>9, <1>12 DEF PromoteMissing
<1>13. QED
  BY <1>10, <1>11, <1>12

LEMMA FindOwned == ASSUME OwnershipInv, TypeInv', NEW a \in Attempts, Find(a) PROVE OwnershipInv'
<1>1. UserOf[a] \in Users
  BY UserOfAssumption
<1>2. /\ at'[a].state = RowOf(a).state /\ at'[a].pda = RowOf(a).pda
      /\ at'[a].step = IF RowOf(a).state = "none" THEN "reserve" ELSE "promote"
      /\ \A b \in Attempts \ {a} : at'[b] = at[b]
  BY DEF Find, OwnershipInv, TypeInv, TypeOK, Local
<1>3. "reserve" \notin Working
  BY DEF Working, Numbered, InCreate, Promoting
<1>4. UNCHANGED <<chain, dropped, inflight, cached, rows>>
  BY DEF Find, chainVars
<1>5. QED
  BY <1>1, <1>2, <1>3, <1>4, StepOwned, RowsMoveNot DEF RowOf

\* An attempt that marks its own row.
LEMMA MarksOwned ==
  ASSUME OwnershipInv, TypeInv', NEW a \in Attempts,
         MarkPromoted(a) \/ MarkReady(a) \/ MarkFailed(a)
  PROVE  OwnershipInv'
<1>1. UserOf[a] \in Users /\ UNCHANGED <<chainVars, chain, dropped, inflight, cached>>
  BY UserOfAssumption DEF MarkPromoted, MarkReady, MarkFailed, chainVars
<1>2. RowsMove /\ \A u \in Users : rows'[u].state = "ready" =>
                                     rows'[u] = rows[u] \/ Verified(u, rows'[u].pda)
  <2>1. CASE rows' = rows
    BY <2>1, RowsMoveNot
  <2>2. CASE \E s \in {"ready", "failed"} :
               /\ RowIsMine(a) /\ rows' = [rows EXCEPT ![UserOf[a]].state = s]
               /\ s = "ready" => Verified(UserOf[a], at[a].pda)
    <3>1. PICK s \in {"ready", "failed"} :
               /\ RowIsMine(a) /\ rows' = [rows EXCEPT ![UserOf[a]].state = s]
               /\ s = "ready" => Verified(UserOf[a], at[a].pda)
      BY <2>2
    <3>2. rows \in [Users -> [state : States, pda : 0 .. MaxIndex]]
      BY DEF OwnershipInv, TypeInv, TypeOK
    <3>3. /\ \A u \in Users \ {UserOf[a]} : rows'[u] = rows[u]
          /\ rows'[UserOf[a]].state = s /\ rows'[UserOf[a]].pda = rows[UserOf[a]].pda
      BY <1>1, <3>1, <3>2
    <3>4. rows[UserOf[a]].pda = at[a].pda
      BY <3>1 DEF RowIsMine, RowOf
    <3>5. QED
      BY <3>1, <3>3, <3>4 DEF RowsMove
  <2>3. at[a].step \in {"markPromoted", "markReady"} => Verified(UserOf[a], at[a].pda)
    BY DEF OwnershipInv, AttemptClaims
  <2>4. QED
    BY <2>1, <2>2, <2>3 DEF MarkPromoted, MarkReady, MarkFailed
<1>3. CASE Fails(a) \/ Returns(a, at[a].pda)
  BY <1>1, <1>2, <1>3, EndOwned
<1>4. CASE at[a].step = "markReady" /\ rows' = rows /\ Goto(a, "promoteFailed")
  BY <1>1, <1>4, GotoOwned DEF Working, Numbered, InCreate
<1>5. QED
  BY <1>3, <1>4 DEF MarkPromoted, MarkReady, MarkFailed

LEMMA ReservedOwned ==
  ASSUME OwnershipInv, TypeInv', NEW a \in Attempts, Reserved(a),
         UNCHANGED <<chainVars, cached>>,
         RowOf(a).state # "none" => Foreign(UserOf[a], RowOf(a).pda)
  PROVE  OwnershipInv'
<1>1. /\ UserOf[a] \in Users /\ rows \in [Users -> [state : States, pda : 0 .. MaxIndex]]
      /\ at \in [Attempts -> Local]
  BY UserOfAssumption DEF OwnershipInv, TypeInv, TypeOK
<1>2. /\ \A u \in Users \ {UserOf[a]} : rows'[u] = rows[u]
      /\ rows'[UserOf[a]].state = "provisioning" /\ rows'[UserOf[a]].pda = at[a].next
  BY <1>1 DEF Reserved
<1>3. /\ at'[a].step = "create" /\ at'[a].state = "provisioning" /\ at'[a].pda = at[a].next
      /\ \A b \in Attempts \ {a} : at'[b] = at[b]
  BY <1>1 DEF Reserved, Adopts
<1>4. RowsMove
  BY <1>1, <1>2 DEF RowsMove, RowOf
<1>5. QED
  BY <1>1, <1>2, <1>3, <1>4, StepOwned DEF chainVars

LEMMA ConflictOwned ==
  ASSUME OwnershipInv, TypeInv', NEW a \in Attempts, Conflict(a),
         UNCHANGED <<chainVars, cached>>,
         at[a].state # "none" => Foreign(UserOf[a], at[a].pda)
  PROVE  OwnershipInv'
<1>1. rows' = rows /\ at \in [Attempts -> Local]
  BY DEF Conflict, OwnershipInv, TypeInv, TypeOK
<1>2. CASE Fails(a)
  BY <1>1, <1>2, EndOwned, RowsMoveNot
<1>3. CASE ~Fails(a)
  <2>1. /\ at'[a].step = "reserve" /\ at'[a].state = at[a].state /\ at'[a].pda = at[a].pda
        /\ \A b \in Attempts \ {a} : at'[b] = at[b]
    BY <1>1, <1>3 DEF Conflict, Local
  <2>2. "reserve" \notin Working
    BY DEF Working, Numbered, InCreate, Promoting
  <2>3. at[a].state # "none" => Claims(UserOf[a], at[a].pda)
    BY DEF OwnershipInv, AttemptClaims
  <2>4. QED
    BY <1>1, <2>1, <2>2, <2>3, StepOwned, RowsMoveNot DEF chainVars, Claims
<1>4. QED
  BY <1>2, <1>3

LEMMA ReserveOwned ==
  ASSUME OwnershipInv, TypeInv', NEW a \in Attempts,
         ReadIndex(a) \/ Insert(a) \/ Existing(a) \/ Replace(a)
  PROVE  OwnershipInv'
<1>1. /\ UserOf[a] \in Users /\ at \in [Attempts -> Local]
      /\ UNCHANGED <<chainVars, chain, dropped, inflight, cached>>
  BY UserOfAssumption
     DEF ReadIndex, Insert, Existing, Replace, chainVars, OwnershipInv, TypeInv, TypeOK
<1>2. "insert" \notin Working /\ "existing" \notin Working /\ "reserve" \notin Working
  BY DEF Working, Numbered, InCreate, Promoting
<1>3. /\ at[a].step \in {"reserve", "insert", "replace"} /\ at[a].state # "none"
           => Foreign(UserOf[a], at[a].pda)
      /\ at[a].state # "none" => Claims(UserOf[a], at[a].pda)
      /\ at[a].step = "replace" => at[a].state # "none"
  BY DEF OwnershipInv, AttemptClaims, TypeInv, NumbersKnown
<1>4. CASE ReadIndex(a)
  <2>1. /\ at'[a].step = "insert" /\ at'[a].state = at[a].state /\ at'[a].pda = at[a].pda
        /\ \A b \in Attempts \ {a} : at'[b] = at[b]
    BY <1>1, <1>4 DEF ReadIndex, Local
  <2>2. at[a].step = "reserve" /\ rows' = rows
    BY <1>4 DEF ReadIndex
  <2>3. QED
    BY <1>1, <1>2, <1>3, <2>1, <2>2, StepOwned, RowsMoveNot DEF Claims
<1>5. CASE Insert(a)
  <2>1. at[a].step = "insert"
    BY <1>5 DEF Insert
  <2>2. CASE Goto(a, "existing") /\ rows' = rows /\ at[a].state = "none"
    BY <1>1, <1>2, <2>2, GotoOwned
  <2>3. CASE Goto(a, "replace") /\ rows' = rows /\ at[a].state # "none"
    BY <1>1, <1>3, <2>1, <2>3, GotoOwned
  <2>4. CASE RowOf(a).state = "none" /\ Reserved(a)
    BY <1>1, <2>4, ReservedOwned
  <2>5. CASE Conflict(a)
    BY <1>1, <1>3, <2>1, <2>5, ConflictOwned
  <2>6. QED
    BY <1>5, <2>2, <2>3, <2>4, <2>5 DEF Insert
<1>6. CASE Existing(a)
  <2>1. CASE Fails(a)
    BY <1>1, <1>6, <2>1, EndOwned, RowsMoveNot DEF Existing
  <2>2. CASE ~Fails(a)
    <3>1. /\ at'[a].step = IF RowOf(a).state = "ready" THEN "promoteReserved" ELSE "create"
          /\ at'[a].pda = RowOf(a).pda /\ at[a].step = "existing" /\ rows' = rows
          /\ \A b \in Attempts \ {a} : at'[b] = at[b]
      BY <1>1, <1>6, <2>2 DEF Existing, Adopts
    <3>2. RowOf(a).state # "none"
      BY <3>1 DEF OwnershipInv, TypeInv, NumbersKnown
    <3>3. RowOf(a).state = "ready" => Verified(UserOf[a], RowOf(a).pda)
      BY <1>1 DEF OwnershipInv, ReadyIsOwned, RowOf, Verified
    <3>4. QED
      BY <1>1, <3>1, <3>2, <3>3, StepOwned, RowsMoveNot DEF RowOf
  <2>3. QED
    BY <2>1, <2>2
<1>7. CASE Replace(a)
  <2>1. at[a].step = "replace" /\ Foreign(UserOf[a], at[a].pda)
    BY <1>3, <1>7 DEF Replace
  <2>2. CASE RowIsMine(a) /\ Reserved(a)
    BY <1>1, <2>1, <2>2, ReservedOwned DEF RowIsMine
  <2>3. CASE Conflict(a)
    BY <1>1, <2>1, <2>3, ConflictOwned
  <2>4. CASE Fails(a) /\ UNCHANGED rows
    BY <1>1, <2>4, EndOwned, RowsMoveNot
  <2>5. QED
    BY <1>7, <2>2, <2>3, <2>4 DEF Replace
<1>8. QED
  BY <1>4, <1>5, <1>6, <1>7

LEMMA SponsorOwned ==
  ASSUME OwnershipInv, TypeInv', NEW a \in Attempts,
         Send(a) \/ Confirmed(a) \/ Rejected(a) \/ Final(a) \/ NeverFinal(a)
  PROVE  OwnershipInv'
<1>1. /\ UNCHANGED <<chain, dropped, rows, cached>> /\ at[a].step \in Working
      /\ \A t \in inflight' : t \in inflight
                                \/ (t = Transaction(a) /\ at[a].step = "create")
  BY DEF Send, Confirmed, Rejected, Final, NeverFinal, chainVars, Working, Numbered, InCreate
<1>2. PICK s \in {"confirm", "finalize", "promoteFailed", "check"} : Goto(a, s)
  BY DEF Send, Confirmed, Rejected, Final, NeverFinal
<1>3. QED
  BY <1>1, <1>2, GotoOwned

LEMMA CheckSignersOwned ==
  ASSUME OwnershipInv, TypeInv', NEW a \in Attempts, CheckSigners(a) PROVE OwnershipInv'
<1>1. /\ UNCHANGED <<chain, dropped, inflight, rows>>
      /\ at[a].step \in Working /\ at[a].step \in Numbered
  BY DEF CheckSigners, chainVars, Working, Numbered, InCreate
<1>2. /\ SeesWallet(a) => Verified(UserOf[a], at[a].pda)
      /\ \A i \in Indices : \A o \in cached'[i] : o \in cached[i] \/ Verified(o, i)
  BY <1>1, SeesOwned DEF CheckSigners
<1>3. PICK s \in {"verify", "markReady", "promoteFailed", "markFailed"} :
        Goto(a, s) /\ (s = "markReady" => SeesWallet(a))
  BY DEF CheckSigners
<1>4. QED
  BY <1>1, <1>2, <1>3, GotoOwned

LEMMA OutageOwned ==
  ASSUME OwnershipInv, TypeInv', NEW a \in Attempts, Outage(a) PROVE OwnershipInv'
<1>1. UNCHANGED <<chainVars, chain, dropped, inflight, rows, cached>>
  BY DEF Outage, chainVars
<1>2. CASE Fails(a)
  BY <1>1, <1>2, EndOwned, RowsMoveNot
<1>3. CASE at[a].step \in InCreate /\ Goto(a, "promoteFailed")
  BY <1>1, <1>3, GotoOwned DEF Working, Numbered, InCreate
<1>4. QED
  BY <1>2, <1>3 DEF Outage

LEMMA AttemptStepOwned ==
  ASSUME OwnershipInv, NEW a \in Attempts, Step(a) PROVE OwnershipInv'
<1>1. TypeInv'
  BY StepTyped DEF OwnershipInv
<1>2. QED
  BY <1>1, FindOwned, PromoteOwnership, MarksOwned, ReserveOwned, SponsorOwned,
     CheckSignersOwned, OutageOwned DEF Step

\* The chain: an account stays as it is until a fork drops it.
LEMMA ChainKeeps ==
  ASSUME TypeInv, ChainStep
  PROVE  /\ dropped \subseteq dropped'
         /\ \A i \in Created \ dropped' : i \in Created' /\ chain'[i] = chain[i]
<1>1. /\ chain \in Seq(Attempts \cup {Other}) /\ Len(chain) \in Nat
      /\ final \in 0 .. Len(chain)
  BY LenProperties DEF TypeInv, TypeOK
<1>2. ASSUME NEW x \in Attempts \cup {Other}, chain' = Append(chain, x)
      PROVE  \A i \in Created : i \in Created' /\ chain'[i] = chain[i]
  BY <1>1, <1>2, AppendProperties DEF Created
<1>3. CASE \E t \in inflight : Lands(t)
  BY <1>2, <1>3 DEF Lands, TypeInv, TypeOK
<1>4. CASE OtherCreates
  BY <1>2, <1>4 DEF OtherCreates
<1>5. CASE Finalizes
  BY <1>5 DEF Finalizes, Created
<1>6. CASE Forks
  <2>1. PICK n \in final .. Len(chain) - 1 : /\ chain' = SubSeq(chain, 1, n)
                                             /\ dropped' = dropped \cup (n + 1 .. Len(chain))
    BY <1>6 DEF Forks
  <2>2. n \in Nat /\ n <= Len(chain)
    BY <1>1, <2>1
  <2>3. /\ \A i \in 1 .. n : chain[i] \in Attempts \cup {Other}
    BY <1>1, <2>2, ElementOfSeq
  <2>4. Len(chain') = n /\ \A i \in 1 .. n : chain'[i] = chain[i]
    BY <2>1, <2>2, <2>3, SubSeqProperties
  <2>5. QED
    BY <1>1, <2>1, <2>2, <2>4 DEF Created
<1>7. QED
  BY <1>3, <1>4, <1>5, <1>6 DEF ChainStep

\* Whose the accounts are that a step of the chain adds.
LEMMA ChainAdds ==
  ASSUME OwnershipInv, ChainStep, NEW i \in Created' \ dropped', NEW u \in Users,
         OwnerOf(i)' = u
  PROVE  \/ i \in Created \ dropped /\ OwnerOf(i) = u
         \/ rows[u].state # "none" /\ rows[u].pda = i
<1>1. /\ chain \in Seq(Attempts \cup {Other}) /\ Len(chain) \in Nat
      /\ final \in 0 .. Len(chain)
  BY LenProperties DEF OwnershipInv, TypeInv, TypeOK
<1>2. ASSUME NEW x \in Attempts \cup {Other}, chain' = Append(chain, x)
      PROVE  /\ i \in Created => OwnerOf(i) = u
             /\ i \notin Created => i = Len(chain) + 1 /\ chain'[i] = x
  <2>1. /\ \A j \in 1 .. Len(chain) : chain'[j] = chain[j]
        /\ Len(chain') = Len(chain) + 1 /\ chain'[Len(chain) + 1] = x
    BY <1>1, <1>2, AppendProperties
  <2>2. QED
    BY <1>1, <2>1 DEF Created, OwnerOf
<1>3. ASSUME NEW t \in inflight, Lands(t)
      PROVE  \/ i \in Created \ dropped /\ OwnerOf(i) = u
             \/ rows[u].state # "none" /\ rows[u].pda = i
  <2>1. t.by \in Attempts /\ chain' = Append(chain, t.by) /\ dropped' = dropped
        /\ t.pda = Len(chain) + 1
    BY <1>3 DEF Lands, OwnershipInv, TypeInv, TypeOK
  <2>2. CASE i \in Created
    BY <1>2, <2>1, <2>2
  <2>3. CASE i \notin Created
    <3>1. i = t.pda /\ UserOf[t.by] = u
      BY <1>2, <2>1, <2>3, OtherAssumption DEF OwnerOf
    <3>2. ~Foreign(u, i)
      BY <2>1, <2>3 DEF Foreign
    <3>3. QED
      BY <3>1, <3>2 DEF OwnershipInv, TransactionsClaim, Claims
  <2>4. QED
    BY <2>2, <2>3
<1>4. CASE OtherCreates
  <2>1. chain' = Append(chain, Other) /\ dropped' = dropped
    BY <1>4 DEF OtherCreates
  <2>2. i \in Created
    BY <1>2, <2>1, OtherAssumption DEF OwnerOf
  <2>3. QED
    BY <1>2, <2>1, <2>2
<1>5. CASE Finalizes
  BY <1>5 DEF Finalizes, Created, OwnerOf
<1>6. CASE Forks
  <2>1. PICK n \in final .. Len(chain) - 1 : /\ chain' = SubSeq(chain, 1, n)
                                             /\ dropped' = dropped \cup (n + 1 .. Len(chain))
    BY <1>6 DEF Forks
  <2>2. n \in Nat /\ n <= Len(chain)
    BY <1>1, <2>1
  <2>3. /\ \A j \in 1 .. n : chain[j] \in Attempts \cup {Other}
    BY <1>1, <2>2, ElementOfSeq
  <2>4. Len(chain') = n /\ \A j \in 1 .. n : chain'[j] = chain[j]
    BY <2>1, <2>2, <2>3, SubSeqProperties
  <2>5. QED
    BY <1>1, <2>1, <2>2, <2>4 DEF Created, OwnerOf
<1>7. QED
  BY <1>3, <1>4, <1>5, <1>6 DEF ChainStep

LEMMA ChainOwned == ASSUME OwnershipInv, ChainStep PROVE OwnershipInv'
<1>1. /\ TypeInv /\ TypeInv'
      /\ UNCHANGED <<cached, rows, at>> /\ inflight' \subseteq inflight
  BY ChainTyped DEF OwnershipInv, ChainStep, Lands, OtherCreates, Finalizes, Forks
<1>2. /\ dropped \subseteq dropped'
      /\ \A i \in Created \ dropped' : i \in Created' /\ chain'[i] = chain[i]
  BY <1>1, ChainKeeps
<1>3. ASSUME NEW u, NEW i
      PROVE  /\ Foreign(u, i) => Foreign(u, i)'
             /\ Verified(u, i) => Verified(u, i)'
  BY <1>2 DEF Foreign, Verified, Owns, OwnerOf
<1>4. ASSUME NEW u, NEW i, Claims(u, i) PROVE Claims(u, i)'
  BY <1>1, <1>3, <1>4 DEF Claims
<1>5. CacheTrue' /\ TransactionsClaim'
  BY <1>1, <1>3, <1>4 DEF OwnershipInv, CacheTrue, TransactionsClaim
<1>6. ASSUME NEW a \in Attempts PROVE AttemptClaims(a)'
  BY <1>1, <1>3, <1>4 DEF OwnershipInv, AttemptClaims
<1>7. AccountsClaimed'
  BY <1>1, ChainAdds DEF OwnershipInv, AccountsClaimed
<1>8. ReadyIsOwned'
  BY <1>1, <1>3 DEF OwnershipInv, ReadyIsOwned, Verified
<1>9. QED
  BY <1>1, <1>5, <1>6, <1>7, <1>8 DEF OwnershipInv

\* A step of a sign-in is a step of its attempt, of the chain, or of neither.
LEMMA SignInSteps ==
  ASSUME SignInNext
  PROVE  (\E a \in Attempts : Step(a)) \/ ChainStep \/ UNCHANGED provisioningVars
BY SignInsAssumption
   DEF SignInNext, InsertLease, ReadLease, TakeOver, Poll, PollTimesOut, EnsureStep,
       Complete, Fail, LeaseAges

LEMMA StutterOwned ==
  ASSUME OwnershipInv, UNCHANGED provisioningVars PROVE OwnershipInv'
<1>1. UNCHANGED <<chain, final, inflight, dropped, cached, rows, at, faults>>
  BY DEF provisioningVars, chainVars
<1>2. TypeInv'
  BY <1>1 DEF OwnershipInv, TypeInv, TypeOK, NumbersKnown, RowOf
<1>3. /\ CacheTrue' /\ TransactionsClaim' /\ AccountsClaimed' /\ ReadyIsOwned'
      /\ \A a \in Attempts : AttemptClaims(a)'
  BY <1>1
     DEF OwnershipInv, CacheTrue, TransactionsClaim, AccountsClaimed, ReadyIsOwned,
         AttemptClaims, Verified, Claims, Foreign, Owns, OwnerOf, Created
<1>4. QED
  BY <1>2, <1>3 DEF OwnershipInv

\* Sign-ins, reconcilers and forks keep the ownership of accounts.
THEOREM OwnershipKept == SignInSpec => []OwnershipInv
<1>1. SignInInit => OwnershipInv
  BY OwnershipInit DEF SignInInit
<1>2. OwnershipInv /\ [SignInNext]_vars => OwnershipInv'
  <2> SUFFICES ASSUME OwnershipInv, [SignInNext]_vars PROVE OwnershipInv'
    OBVIOUS
  <2>1. CASE SignInNext
    BY <2>1, SignInSteps, AttemptStepOwned, ChainOwned, StutterOwned
  <2>2. CASE UNCHANGED vars
    BY <2>2, StutterOwned DEF vars
  <2>3. QED
    BY <2>1, <2>2
<1>3. QED
  BY <1>1, <1>2, PTL DEF SignInSpec

\* A row is ready only for an account the user's wallet controls
\* (maybePromoteRecord, sponsorRecord), but for what a fork undid.
THEOREM ReadyOwned == SignInSpec => []ReadyIsOwned
<1>1. OwnershipInv => ReadyIsOwned
  BY DEF OwnershipInv
<1>2. QED
  BY <1>1, OwnershipKept, PTL

\* No two accounts are sponsored for one user (reserveProvisioningRecord,
\* sponsorRecord), but for what a fork undid.
THEOREM OneAccount == SignInSpec => []OneAccountPerUser
<1>1. OwnershipInv => OneAccountPerUser
  BY DEF OwnershipInv, AccountsClaimed, OneAccountPerUser, Owns
<1>2. QED
  BY <1>1, OwnershipKept, PTL

-----------------------------------------------------------------------------
(* The lease.                                                               *)

\* A record that is not being processed has no owner; what was answered is
\* what the record says.
LeaseInv ==
  /\ SignInTypeOK
  /\ \A c \in Challenges : completion[c].state # "processing" => completion[c].token = Nobody
  /\ AnsweredIsCompleted

LEMMA LeaseInit == SignInInit => LeaseInv
<1> SUFFICES ASSUME SignInInit PROVE LeaseInv
  OBVIOUS
<1>1. TypeOK
  BY TypeInit DEF SignInInit, TypeInv
<1>2. LeaseTypeOK
  BY ConstantTypes DEF SignInInit, LeaseTypeOK, Completions, Tokens, Stages, NoReply
<1>3. QED
  BY <1>1, <1>2
     DEF SignInInit, LeaseInv, SignInTypeOK, AnsweredIsCompleted, NoReply

\* A step that leaves what was answered, and the records of what is over.
LEMMA LeaseKept ==
  ASSUME LeaseInv, TypeOK', LeaseTypeOK',
         \A c \in Challenges :
           /\ completion'[c] = completion[c] \/ completion[c].state # "completed"
           /\ completion'[c].state # "processing" => completion'[c].token = Nobody,
         \A r \in SignIns :
           \/ reply'[r] = reply[r]
           \/ reply'[r].kind = "ok" =>
                /\ completion'[ChallengeOf[r]].state = "completed"
                /\ completion'[ChallengeOf[r]].pda = reply'[r].pda
  PROVE  LeaseInv'
<1>1. \A r \in SignIns : ChallengeOf[r] \in Challenges
  BY ChallengeOfAssumption
<1>2. AnsweredIsCompleted'
  BY <1>1 DEF LeaseInv, AnsweredIsCompleted, Record
<1>3. QED
  BY <1>2 DEF LeaseInv, SignInTypeOK

\* One record changes, and it was not completed.
LEMMA Updated ==
  ASSUME LeaseInv, NEW r \in SignIns, NEW v \in Completions, Update(r, v),
         Record(r).state # "completed", v.state # "processing" => v.token = Nobody
  PROVE  /\ completion' \in [Challenges -> Completions] /\ completion'[ChallengeOf[r]] = v
         /\ \A c \in Challenges :
              /\ completion'[c] = completion[c] \/ completion[c].state # "completed"
              /\ completion'[c].state # "processing" => completion'[c].token = Nobody
<1>1. ChallengeOf[r] \in Challenges /\ completion \in [Challenges -> Completions]
  BY ChallengeOfAssumption DEF LeaseInv, SignInTypeOK, LeaseTypeOK
<1>2. completion' = [completion EXCEPT ![ChallengeOf[r]] = v]
  BY DEF Update
<1>3. completion' \in [Challenges -> Completions]
  BY <1>1, <1>2
<1>4. \A c \in Challenges : completion'[c] = IF c = ChallengeOf[r] THEN v ELSE completion[c]
  BY <1>1, <1>2
<1>5. QED
  BY <1>1, <1>3, <1>4 DEF LeaseInv, Record

LEMMA UpdatedNot ==
  ASSUME LeaseInv, completion' = completion
  PROVE  /\ completion' \in [Challenges -> Completions]
         /\ \A c \in Challenges :
              /\ completion'[c] = completion[c] \/ completion[c].state # "completed"
              /\ completion'[c].state # "processing" => completion'[c].token = Nobody
BY DEF LeaseInv, SignInTypeOK, LeaseTypeOK

LEMMA RecordTyped ==
  ASSUME LeaseInv, NEW r \in SignIns
  PROVE  /\ Record(r) \in Completions
         /\ Record(r).state # "processing" => Record(r).token = Nobody
         /\ Lease(r) \in Completions /\ Lease(r).state = "processing"
<1>1. ChallengeOf[r] \in Challenges
  BY ChallengeOfAssumption
<1>2. Record(r) \in Completions /\ (Record(r).state # "processing" => Record(r).token = Nobody)
  BY <1>1 DEF Record, LeaseInv, SignInTypeOK, LeaseTypeOK
<1>3. Lease(r) \in Completions /\ Lease(r).state = "processing"
  BY ConstantTypes DEF Lease, Completions, Tokens
<1>4. QED
  BY <1>2, <1>3

LEMMA MovedTyped ==
  ASSUME LeaseInv, NEW r \in SignIns, NEW s \in Stages, MoveTo(r, s)
  PROVE  stage' \in [SignIns -> Stages]
BY DEF MoveTo, LeaseInv, SignInTypeOK, LeaseTypeOK

LEMMA RepliedTyped ==
  ASSUME LeaseInv, NEW r \in SignIns,
         NEW v \in [kind : {"none", "ok", "error"}, pda : 0 .. MaxIndex], Reply(r, v)
  PROVE  /\ stage' \in [SignIns -> Stages]
         /\ reply' \in [SignIns -> [kind : {"none", "ok", "error"}, pda : 0 .. MaxIndex]]
         /\ reply'[r] = v /\ \A b \in SignIns \ {r} : reply'[b] = reply[b]
<1>1. /\ stage \in [SignIns -> Stages]
      /\ reply \in [SignIns -> [kind : {"none", "ok", "error"}, pda : 0 .. MaxIndex]]
  BY DEF LeaseInv, SignInTypeOK, LeaseTypeOK
<1>2. stage' \in [SignIns -> Stages]
  BY <1>1 DEF Reply, MoveTo, Stages
<1>3. QED
  BY <1>1, <1>2 DEF Reply

LEMMA ReplayKept ==
  ASSUME LeaseInv, NEW r \in SignIns, Replay(r), completion' = completion, TypeOK',
         holder' = holder
  PROVE  LeaseInv'
<1>1. Record(r) \in Completions
  BY RecordTyped
<1>2. PICK v \in [kind : {"none", "ok", "error"}, pda : 0 .. MaxIndex] :
        /\ Reply(r, v)
        /\ v.kind = "ok" => Record(r).state = "completed" /\ Record(r).pda = v.pda
  <2>1. CASE Record(r).state = "completed" /\ Reply(r, [kind |-> "ok", pda |-> Record(r).pda])
    <3>1. [kind |-> "ok", pda |-> Record(r).pda]
            \in [kind : {"none", "ok", "error"}, pda : 0 .. MaxIndex]
      BY <1>1 DEF Completions
    <3>2. QED
      BY <2>1, <3>1
  <2>2. CASE Reply(r, Refused)
    <3>1. /\ Refused \in [kind : {"none", "ok", "error"}, pda : 0 .. MaxIndex]
          /\ Refused.kind # "ok"
      BY ConstantTypes DEF Refused
    <3>2. QED
      BY <2>2, <3>1
  <2>3. QED
    BY <2>1, <2>2 DEF Replay
<1>3. /\ stage' \in [SignIns -> Stages]
      /\ reply' \in [SignIns -> [kind : {"none", "ok", "error"}, pda : 0 .. MaxIndex]]
      /\ reply'[r] = v /\ \A b \in SignIns \ {r} : reply'[b] = reply[b]
  BY <1>2, RepliedTyped
<1>4. LeaseTypeOK'
  BY <1>3 DEF LeaseInv, SignInTypeOK, LeaseTypeOK
<1>5. reply'[r].kind = "ok" => /\ completion'[ChallengeOf[r]].state = "completed"
                               /\ completion'[ChallengeOf[r]].pda = reply'[r].pda
  BY <1>2, <1>3 DEF Record
<1>6. QED
  BY <1>3, <1>4, <1>5, UpdatedNot, LeaseKept

\* Steps that answer nothing: the record changes as Updated says, or not.
LEMMA MovesKept ==
  ASSUME LeaseInv, TypeOK', NEW r \in SignIns, NEW s \in Stages, MoveTo(r, s), reply' = reply,
         holder' \in [SignIns -> Tokens],
         \/ completion' = completion
         \/ Update(r, Lease(r)) /\ Record(r).state # "completed"
  PROVE  LeaseInv'
<1>1. /\ completion' \in [Challenges -> Completions]
      /\ \A c \in Challenges :
              /\ completion'[c] = completion[c] \/ completion[c].state # "completed"
              /\ completion'[c].state # "processing" => completion'[c].token = Nobody
  BY Updated, UpdatedNot, RecordTyped
<1>2. LeaseTypeOK'
  BY <1>1, MovedTyped DEF LeaseInv, SignInTypeOK, LeaseTypeOK
<1>3. QED
  BY <1>1, <1>2, LeaseKept

LEMMA ReadLeaseKept == ASSUME LeaseInv, TypeOK', NEW r \in SignIns, ReadLease(r) PROVE LeaseInv'
<1>1. completion' = completion /\ holder \in [SignIns -> Tokens] /\ Record(r) \in Completions
  BY RecordTyped DEF ReadLease, LeaseInv, SignInTypeOK, LeaseTypeOK
<1>2. CASE Replay(r) /\ holder' = holder
  BY <1>1, <1>2, ReplayKept
<1>3. CASE ~(Replay(r) /\ holder' = holder)
  <2>1. reply' = reply /\ \E s \in {"ensure", "takeover", "poll"} : MoveTo(r, s)
    BY <1>3 DEF ReadLease
  <2>2. holder' = holder \/ holder' = [holder EXCEPT ![r] = Record(r).token]
    BY <1>3 DEF ReadLease
  <2>3. holder' \in [SignIns -> Tokens]
    BY <1>1, <2>2 DEF Completions
  <2>4. QED
    BY <1>1, <2>1, <2>3, MovesKept DEF Stages
<1>4. QED
  BY <1>2, <1>3

LEMMA TakeOverKept == ASSUME LeaseInv, TypeOK', NEW r \in SignIns, TakeOver(r) PROVE LeaseInv'
<1>1. holder' \in [SignIns -> Tokens] /\ reply' = reply
  BY DEF TakeOver, LeaseInv, SignInTypeOK, LeaseTypeOK, Tokens
<1>2. CASE Update(r, Lease(r)) /\ Record(r).state = "processing" /\ MoveTo(r, "ensure")
  BY <1>1, <1>2, MovesKept DEF Stages
<1>3. CASE completion' = completion /\ MoveTo(r, "reread")
  BY <1>1, <1>3, MovesKept DEF Stages
<1>4. QED
  BY <1>2, <1>3 DEF TakeOver

LEMMA InsertLeaseKept ==
  ASSUME LeaseInv, TypeOK', NEW r \in SignIns, InsertLease(r) PROVE LeaseInv'
<1>1. holder' \in [SignIns -> Tokens] /\ reply' = reply /\ MoveTo(r, "read")
  BY DEF InsertLease, LeaseInv, SignInTypeOK, LeaseTypeOK
<1>2. \/ Update(r, Lease(r)) /\ Record(r).state # "completed"
      \/ completion' = completion
  BY DEF InsertLease
<1>3. QED
  BY <1>1, <1>2, MovesKept DEF Stages

\* Only the owner ends a lease: its record is still in process.
LEMMA EndKept ==
  ASSUME LeaseInv, TypeOK', NEW r \in SignIns, Complete(r) \/ Fail(r) PROVE LeaseInv'
<1>1. /\ holder' = holder /\ holder \in [SignIns -> Tokens]
      /\ reply \in [SignIns -> [kind : {"none", "ok", "error"}, pda : 0 .. MaxIndex]]
  BY DEF Complete, Fail, LeaseInv, SignInTypeOK, LeaseTypeOK
<1>2. HoldsLease(r) => Record(r).state = "processing"
  BY RecordTyped, NobodyAssumption DEF HoldsLease
<1>3. at[r].pda \in 0 .. MaxIndex
  BY SignInsAssumption DEF LeaseInv, SignInTypeOK, TypeOK, Local
<1>4. CASE Complete(r) /\ MoveTo(r, "fail") /\ UNCHANGED <<completion, reply>>
  BY <1>1, <1>4, MovesKept DEF Stages
<1>5. CASE Complete(r) /\ HoldsLease(r) /\ Update(r, Completed(r))
  <2> DEFINE v == Completed(r)
             w == [kind |-> "ok", pda |-> at[r].pda]
  <2>1. Update(r, v) /\ (Reply(r, w) \/ (MoveTo(r, "fail") /\ reply' = reply))
    BY <1>5 DEF Complete
  <2>2. /\ v \in Completions /\ v.token = Nobody /\ v.state = "completed" /\ v.pda = at[r].pda
        /\ w \in [kind : {"none", "ok", "error"}, pda : 0 .. MaxIndex] /\ w.pda = at[r].pda
    BY <1>3 DEF Completed, Completions, Tokens
  <2> HIDE DEF v, w
  <2>3. /\ completion' \in [Challenges -> Completions] /\ completion'[ChallengeOf[r]] = v
        /\ \A c \in Challenges :
              /\ completion'[c] = completion[c] \/ completion[c].state # "completed"
              /\ completion'[c].state # "processing" => completion'[c].token = Nobody
    BY <1>2, <1>5, <2>1, <2>2, Updated
  <2>4. /\ stage' \in [SignIns -> Stages]
        /\ reply' \in [SignIns -> [kind : {"none", "ok", "error"}, pda : 0 .. MaxIndex]]
        /\ reply'[r] = w \/ reply'[r] = reply[r]
        /\ \A b \in SignIns \ {r} : reply'[b] = reply[b]
    <3>1. CASE Reply(r, w)
      BY <2>2, <3>1, RepliedTyped
    <3>2. CASE MoveTo(r, "fail") /\ reply' = reply
      BY <1>1, <3>2, MovedTyped DEF Stages
    <3>3. QED
      BY <2>1, <3>1, <3>2
  <2>5. LeaseTypeOK'
    BY <1>1, <2>3, <2>4 DEF LeaseTypeOK
  <2>6. QED
    BY <2>2, <2>3, <2>4, <2>5, LeaseKept
<1>6. CASE Fail(r)
  <2> DEFINE v == [state |-> "failed", token |-> Nobody, stale |-> FALSE, pda |-> 0]
  <2>1. /\ Reply(r, Refused)
        /\ \/ completion' = completion
           \/ Update(r, v) /\ HoldsLease(r)
    BY <1>6 DEF Fail
  <2>2. /\ v \in Completions /\ v.token = Nobody
        /\ Refused \in [kind : {"none", "ok", "error"}, pda : 0 .. MaxIndex]
        /\ Refused.kind # "ok"
    BY ConstantTypes DEF Completions, Tokens, Refused
  <2> HIDE DEF v
  <2>3. /\ completion' \in [Challenges -> Completions]
        /\ \A c \in Challenges :
              /\ completion'[c] = completion[c] \/ completion[c].state # "completed"
              /\ completion'[c].state # "processing" => completion'[c].token = Nobody
    BY <1>2, <2>1, <2>2, Updated, UpdatedNot
  <2>4. /\ stage' \in [SignIns -> Stages]
        /\ reply' \in [SignIns -> [kind : {"none", "ok", "error"}, pda : 0 .. MaxIndex]]
        /\ reply'[r] = Refused /\ \A b \in SignIns \ {r} : reply'[b] = reply[b]
    BY <2>1, <2>2, RepliedTyped
  <2>5. LeaseTypeOK'
    BY <1>1, <2>3, <2>4 DEF LeaseTypeOK
  <2>6. QED
    BY <2>2, <2>3, <2>4, <2>5, LeaseKept
<1>7. QED
  BY <1>4, <1>5, <1>6 DEF Complete

LEMMA AgesKept ==
  ASSUME LeaseInv, TypeOK', NEW c \in Challenges, LeaseAges(c) PROVE LeaseInv'
<1>1. completion \in [Challenges -> Completions]
  BY DEF LeaseInv, SignInTypeOK, LeaseTypeOK
<1> DEFINE v == [completion[c] EXCEPT !.stale = TRUE]
<1>2. completion' = [completion EXCEPT ![c] = v] /\ completion[c].state = "processing"
  BY DEF LeaseAges
<1>3. v \in Completions /\ v.state = "processing"
  BY <1>1, <1>2 DEF Completions
<1> HIDE DEF v
<1>4. /\ completion' \in [Challenges -> Completions]
      /\ \A d \in Challenges :
              /\ completion'[d] = completion[d] \/ completion[d].state # "completed"
              /\ completion'[d].state # "processing" => completion'[d].token = Nobody
  BY <1>1, <1>2, <1>3 DEF LeaseInv
<1>5. UNCHANGED <<stage, holder, reply>> /\ LeaseTypeOK'
  BY <1>4 DEF LeaseAges, LeaseInv, SignInTypeOK, LeaseTypeOK
<1>6. QED
  BY <1>4, <1>5, LeaseKept

LEMMA LeaseUnchanged == ASSUME LeaseInv, TypeOK', UNCHANGED leaseVars PROVE LeaseInv'
BY DEF LeaseInv, SignInTypeOK, LeaseTypeOK, AnsweredIsCompleted, Record, leaseVars

LEMMA LeaseStep == ASSUME LeaseInv, TypeOK', [SignInNext]_vars PROVE LeaseInv'
<1>1. ASSUME NEW r \in SignIns, Poll(r) PROVE LeaseInv'
  BY <1>1, ReplayKept DEF Poll
<1>2. ASSUME NEW r \in SignIns, PollTimesOut(r) PROVE LeaseInv'
  <2>1. /\ Reply(r, Refused) /\ completion' = completion /\ holder' = holder
        /\ Refused \in [kind : {"none", "ok", "error"}, pda : 0 .. MaxIndex]
        /\ Refused.kind # "ok"
    BY <1>2, ConstantTypes DEF PollTimesOut, Refused
  <2>2. /\ stage' \in [SignIns -> Stages]
        /\ reply' \in [SignIns -> [kind : {"none", "ok", "error"}, pda : 0 .. MaxIndex]]
        /\ reply'[r] = Refused /\ \A b \in SignIns \ {r} : reply'[b] = reply[b]
    BY <2>1, RepliedTyped
  <2>3. LeaseTypeOK'
    BY <2>1, <2>2 DEF LeaseInv, SignInTypeOK, LeaseTypeOK
  <2>4. QED
    BY <2>1, <2>2, <2>3, UpdatedNot, LeaseKept
<1>3. CASE UNCHANGED vars
  BY <1>3, LeaseUnchanged DEF vars
<1>4. CASE SignInNext
  BY <1>1, <1>2, <1>4, InsertLeaseKept, ReadLeaseKept, TakeOverKept, EndKept, AgesKept,
     LeaseUnchanged DEF SignInNext, EnsureStep
<1>5. QED
  BY <1>3, <1>4

\* Requests that retry, take a lease over, give up or fail late keep it.
THEOREM LeasesKept == SignInSpec => []LeaseInv
<1>1. OwnershipInv => TypeOK
  BY DEF OwnershipInv, TypeInv
<1>2. LeaseInv /\ TypeOK' /\ [SignInNext]_vars => LeaseInv'
  BY LeaseStep
<1>3. QED
  BY <1>1, <1>2, LeaseInit, OwnershipKept, PTL DEF SignInSpec

\* Every variable of a sign-in keeps its type.
THEOREM SignInTyped == SignInSpec => []SignInTypeOK
<1>1. LeaseInv => SignInTypeOK
  BY DEF LeaseInv
<1>2. QED
  BY <1>1, LeasesKept, PTL

\* What a request was told is what the record of its challenge says, for
\* good (completeWalletOnboarding, beginWalletAuthCompletion).
THEOREM AnsweredCompleted == SignInSpec => []AnsweredIsCompleted
<1>1. LeaseInv => AnsweredIsCompleted
  BY DEF LeaseInv
<1>2. QED
  BY <1>1, LeasesKept, PTL

-----------------------------------------------------------------------------
(* From the answer to the account.                                          *)

(* The requests of a challenge are made with one wallet: one that proves    *)
(* another wallet than the record of the challenge names is refused         *)
(* (completeWalletOnboarding, "completed by another wallet").               *)
OneWallet ==
  \A r, q \in SignIns : ChallengeOf[r] = ChallengeOf[q] => UserOf[r] = UserOf[q]

(* An account that a sign-in is told of is controlled by the user's wallet, *)
(* now and later, whichever request did the work; but for what a fork undid. *)
AnsweredIsOwned ==
  \A r \in SignIns : reply[r].kind = "ok" => Verified(UserOf[r], reply[r].pda)

\* What an attempt returned, and what a record says, was verified.
AnswersVerified ==
  /\ \A a \in Attempts : at[a].step = "ok" => Verified(UserOf[a], at[a].pda)
  /\ \A r \in SignIns : Record(r).state = "completed" => Verified(UserOf[r], Record(r).pda)

\* Only a look at the chain that finds the wallet makes an attempt return.
LEMMA StepAnswers ==
  ASSUME OwnershipInv, NEW a \in Attempts, Step(a)
  PROVE  /\ UNCHANGED <<chain, dropped>>
         /\ \A b \in Attempts \ {a} : at'[b] = at[b]
         /\ at'[a].step = "ok" => Verified(UserOf[a], at'[a].pda)
<1> DEFINE Goal ==
      /\ \A b \in Attempts \ {a} : at'[b] = at[b]
      /\ at'[a].step = "ok" => Verified(UserOf[a], at'[a].pda)
<1>1. TypeInv /\ at \in [Attempts -> Local]
  BY DEF OwnershipInv, TypeInv, TypeOK
<1>2. UNCHANGED <<chain, dropped>>
  BY DEF Step, Find, PromoteOwned, PromoteMismatch, PromoteMissing, MarkPromoted, MarkFailed,
         ReadIndex, Insert, Existing, Replace, Send, Confirmed, Rejected, Final, NeverFinal,
         CheckSigners, MarkReady, Outage, chainVars
<1> SUFFICES Goal
  BY <1>2
<1>3. ASSUME NEW s, Goto(a, s), s # "ok" PROVE Goal
  BY <1>1, <1>3, GotoFields
<1>4. ASSUME Fails(a) PROVE Goal
  BY <1>1, <1>4 DEF Fails, Start
<1>5. ASSUME Returns(a, at[a].pda), Verified(UserOf[a], at[a].pda) PROVE Goal
  BY <1>1, <1>5 DEF Returns, Start
<1>6. ASSUME NEW s, NEW row, Adopts(a, s, row), s # "ok" PROVE Goal
  BY <1>1, <1>6 DEF Adopts
<1>7. ASSUME Conflict(a) PROVE Goal
  <2>1. CASE at' = [at EXCEPT ![a].tries = @ + 1, ![a].step = "reserve"]
    BY <1>1, <2>1 DEF Local
  <2>2. QED
    BY <1>4, <1>7, <2>1 DEF Conflict
<1>8. CASE Find(a)
  <2>1. PICK s \in {"reserve", "promote"} :
          at' = [at EXCEPT ![a].state = RowOf(a).state, ![a].pda = RowOf(a).pda, ![a].step = s]
    BY <1>8 DEF Find
  <2>2. QED
    BY <1>1, <2>1 DEF Local
<1>9. CASE PromoteOwned(a)
  <2>1. Verified(UserOf[a], at[a].pda)
    BY <1>9, SeesOwned DEF PromoteOwned, Numbered
  <2>2. QED
    BY <1>3, <1>5, <1>9, <2>1 DEF PromoteOwned
<1>10. CASE PromoteMismatch(a)
  <2>1. CASE at' = [at EXCEPT ![a].step = "reserve", ![a].round = 1]
    BY <1>1, <2>1 DEF Local
  <2>2. QED
    BY <1>3, <1>10, <2>1 DEF PromoteMismatch
<1>11. CASE PromoteMissing(a)
  BY <1>3, <1>11 DEF PromoteMissing
<1>12. CASE MarkPromoted(a) \/ MarkReady(a)
  <2>1. Verified(UserOf[a], at[a].pda)
    BY <1>12 DEF MarkPromoted, MarkReady, OwnershipInv, AttemptClaims
  <2>2. QED
    BY <1>3, <1>4, <1>5, <1>12, <2>1 DEF MarkPromoted, MarkReady
<1>13. CASE MarkFailed(a)
  BY <1>4, <1>13 DEF MarkFailed
<1>14. CASE ReadIndex(a)
  BY <1>1, <1>14 DEF ReadIndex, Local
<1>15. CASE Insert(a) \/ Existing(a) \/ Replace(a)
  <2>1. ASSUME Reserved(a) PROVE Goal
    BY <1>6, <2>1 DEF Reserved
  <2>2. CASE Insert(a)
    BY <1>3, <1>7, <2>1, <2>2 DEF Insert
  <2>3. CASE Existing(a)
    BY <1>4, <1>6, <2>3 DEF Existing
  <2>4. CASE Replace(a)
    BY <1>4, <1>7, <2>1, <2>4 DEF Replace
  <2>5. QED
    BY <1>15, <2>2, <2>3, <2>4
<1>16. CASE Send(a) \/ Confirmed(a) \/ Rejected(a) \/ Final(a) \/ NeverFinal(a)
  BY <1>3, <1>16 DEF Send, Confirmed, Rejected, Final, NeverFinal
<1>17. CASE CheckSigners(a)
  BY <1>3, <1>17 DEF CheckSigners
<1>18. CASE Outage(a)
  BY <1>3, <1>4, <1>18 DEF Outage
<1>19. QED
  BY <1>8, <1>9, <1>10, <1>11, <1>12, <1>13, <1>14, <1>15, <1>16, <1>17, <1>18 DEF Step

\* What was verified stays so.
LEMMA VerifiedStays ==
  ASSUME TypeInv, ChainStep \/ UNCHANGED <<chain, dropped>>, NEW u, NEW i, Verified(u, i)
  PROVE  Verified(u, i)'
<1>1. CASE ChainStep
  <2>1. /\ dropped \subseteq dropped'
        /\ \A j \in Created \ dropped' : j \in Created' /\ chain'[j] = chain[j]
    BY <1>1, ChainKeeps
  <2>2. QED
    BY <2>1 DEF Verified, Owns, OwnerOf
<1>2. CASE UNCHANGED <<chain, dropped>>
  BY <1>2 DEF Verified, Owns, OwnerOf, Created
<1>3. QED
  BY <1>1, <1>2

\* A record is completed with what its owner's attempt returned.
LEMMA RecordsAnswer ==
  ASSUME LeaseInv, SignInNext, NEW r \in SignIns, Record(r)'.state = "completed"
  PROVE  \/ Record(r).state = "completed" /\ Record(r)'.pda = Record(r).pda
         \/ \E q \in SignIns : /\ ChallengeOf[q] = ChallengeOf[r] /\ at[q].step = "ok"
                               /\ Record(r)'.pda = at[q].pda /\ UNCHANGED provisioningVars
<1> DEFINE k == ChallengeOf[r]
<1>1. completion \in [Challenges -> Completions] /\ k \in Challenges
  BY ChallengeOfAssumption DEF LeaseInv, SignInTypeOK, LeaseTypeOK
<1>2. Record(r) = completion[k] /\ Record(r)' = completion'[k]
  BY DEF Record
<1>3. CASE completion' = completion
  BY <1>2, <1>3
<1>4. ASSUME NEW q \in SignIns, NEW v, Update(q, v), v.state # "completed"
      PROVE  completion'[k] = completion[k]
  BY <1>1, <1>2, <1>4 DEF Update
<1>5. CASE \E q \in SignIns : InsertLease(q) \/ TakeOver(q)
  BY <1>2, <1>4, <1>5 DEF InsertLease, TakeOver, Lease
<1>6. CASE \E q \in SignIns : Fail(q)
  BY <1>2, <1>4, <1>6 DEF Fail
<1>7. CASE \E q \in SignIns : Complete(q)
  <2>1. PICK q \in SignIns : Complete(q)
    BY <1>7
  <2>2. at[q].step = "ok" /\ UNCHANGED provisioningVars
    BY <2>1 DEF Complete
  <2>3. CASE completion' = [completion EXCEPT ![ChallengeOf[q]] = Completed(q)]
    BY <1>1, <1>2, <2>2, <2>3 DEF Completed
  <2>4. QED
    BY <1>3, <2>1, <2>3 DEF Complete, Update
<1>8. CASE \E c \in Challenges : LeaseAges(c)
  BY <1>1, <1>2, <1>8 DEF LeaseAges, Completions
<1>9. QED
  BY <1>3, <1>5, <1>6, <1>7, <1>8
     DEF SignInNext, ReadLease, Poll, PollTimesOut, EnsureStep, leaseVars

\* An answer stands for an account of the wallet that signed in: what the
\* attempt verified is what completeWalletOnboarding records, replays to the
\* other requests of the challenge, and keeps.
THEOREM AnsweredOwned == ASSUME OneWallet PROVE SignInSpec => []AnsweredIsOwned
<1>1. SignInInit => AnswersVerified
  BY ChallengeOfAssumption DEF SignInInit, Init, Start, AnswersVerified, Record
<1>2. OwnershipInv /\ LeaseInv /\ AnswersVerified /\ [SignInNext]_vars => AnswersVerified'
  <2> SUFFICES ASSUME OwnershipInv, LeaseInv, AnswersVerified, [SignInNext]_vars
               PROVE  AnswersVerified'
    OBVIOUS
  <2>1. TypeInv
    BY DEF OwnershipInv
  <2>2. CASE SignInNext
    <3>1. \/ ChainStep /\ at' = at
          \/ UNCHANGED <<chain, dropped>> /\ at' = at
          \/ UNCHANGED <<chain, dropped>> /\ \E a \in Attempts : Step(a)
      BY <2>2, SignInSteps, StepAnswers
         DEF ChainStep, Lands, OtherCreates, Finalizes, Forks, provisioningVars, chainVars
    <3>2. ASSUME NEW u, NEW i, Verified(u, i) PROVE Verified(u, i)'
      BY <2>1, <3>1, <3>2, VerifiedStays
    <3>3. ASSUME NEW b \in Attempts, NEW i, at'[b].step = "ok", at'[b].pda = i
          PROVE  Verified(UserOf[b], i)'
      <4>1. CASE at'[b] = at[b]
        BY <3>2, <3>3, <4>1 DEF AnswersVerified
      <4>2. CASE Step(b)
        BY <3>2, <3>3, <4>2, StepAnswers
      <4>3. QED
        BY <3>1, <4>1, <4>2, StepAnswers
    <3>4. ASSUME NEW r \in SignIns, NEW i, Record(r)'.state = "completed", Record(r)'.pda = i
          PROVE  Verified(UserOf[r], i)'
      <4>1. CASE Record(r).state = "completed" /\ Record(r)'.pda = Record(r).pda
        BY <3>2, <3>4, <4>1 DEF AnswersVerified
      <4>2. ASSUME NEW q \in SignIns, ChallengeOf[q] = ChallengeOf[r], at[q].step = "ok",
                   i = at[q].pda
            PROVE  Verified(UserOf[r], i)'
        <5>1. UserOf[q] = UserOf[r] /\ q \in Attempts
          BY <4>2, SignInsAssumption DEF OneWallet
        <5>2. Verified(UserOf[r], i)
          BY <4>2, <5>1 DEF AnswersVerified
        <5>3. QED
          BY <3>2, <5>2
      <4>3. QED
        BY <2>2, <3>4, <4>1, <4>2, RecordsAnswer
    <3>5. QED
      BY <3>3, <3>4 DEF AnswersVerified
  <2>3. CASE UNCHANGED vars
    BY <2>3 DEF vars, provisioningVars, chainVars, leaseVars, AnswersVerified, Verified, Owns,
                OwnerOf, Created, Record
  <2>4. QED
    BY <2>2, <2>3
<1>3. LeaseInv /\ AnswersVerified => AnsweredIsOwned
  BY DEF LeaseInv, AnsweredIsCompleted, AnswersVerified, AnsweredIsOwned
<1>4. QED
  BY <1>1, <1>2, <1>3, OwnershipKept, LeasesKept, PTL DEF SignInSpec

-----------------------------------------------------------------------------
(* What the finding comes from.                                             *)

\* Where forks drop no account (MaxDropped = 0), the note of onchain.ts is
\* true of the code: no ready row ends with an account that others control.
\* Forks are all that the disagreement of the run SmartAccountForked rests on.
THEOREM ControlledWithoutForks ==
  ASSUME MaxDropped = 0 PROVE SignInSpec => []ReadyIsControlled
<1>1. SignInInit => dropped = {}
  BY DEF SignInInit, Init
<1>2. dropped = {} /\ [SignInNext]_vars => (dropped = {})'
  <2> SUFFICES ASSUME dropped = {}, [SignInNext]_vars PROVE dropped' = {}
    OBVIOUS
  <2>1. ~Forks
    BY FS_EmptySet DEF Forks
  <2>2. ASSUME NEW a \in Attempts, Step(a) PROVE dropped' = dropped
    BY <2>2
       DEF Step, Find, PromoteOwned, PromoteMismatch, PromoteMissing, MarkPromoted, MarkFailed,
           ReadIndex, Insert, Existing, Replace, Send, Confirmed, Rejected, Final, NeverFinal,
           CheckSigners, MarkReady, Outage, chainVars
  <2>3. CASE SignInNext
    BY <2>1, <2>2, <2>3, SignInSteps
       DEF ChainStep, Lands, OtherCreates, Finalizes, provisioningVars, chainVars
  <2>4. QED
    BY <2>3 DEF vars, provisioningVars, chainVars
<1>3. dropped = {} /\ ReadyIsOwned => ReadyIsControlled
  BY DEF ReadyIsOwned, ReadyIsControlled, Owns
<1>4. QED
  BY <1>1, <1>2, <1>3, ReadyOwned, PTL DEF SignInSpec
==============================================================================
