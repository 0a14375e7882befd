----------------------- MODULE EarnAutodeposit_proofs -----------------------
(* Proofs about EarnAutodeposit for every value of its constants: the surplus *)
(* of a lot is swept at most once (NoLotSweptTwice), from SweepInv; rows that *)
(* are closed stay so; and open lots wait where they are looked for.          *)
EXTENDS EarnAutodeposit, TLAPS

-----------------------------------------------------------------------------
(* The initial states.                                                      *)

\* SweepInv holds before the target exists: no lot, no claim, no request.
THEOREM SweepInit == Init => SweepInv
<1> SUFFICES ASSUME Init PROVE SweepInv
  OBVIOUS
<1>1. TypeOK
  <2>1. 0 \in Balances /\ 0 \in 0..MaxChainSlot /\ 1 \in 0..MaxChainSlot /\ 0 \in 0..MaxRemaining
    BY AmountAssumption, BoundsAssumption
  <2>2. NoBalance \in Balance
    BY <2>1 DEF NoBalance, Balance
  <2>3. Blank \in Locals
    BY <2>2 DEF Blank, Locals
  <2>4. wallet \in Balance
    BY <2>1 DEF Init, Balance
  <2>5. "idle" \in Labels
    BY DEF Labels
  <2>6. seen \in [Reqs -> Locals] /\ pc \in [Reqs -> Labels]
    BY <2>3, <2>5 DEF Init
  <2>7. target \in TargetRow
    BY DEF Init, NoRow, TargetRow, ChainStatuses
  <2>8. QED
    BY <2>1, <2>2, <2>4, <2>6, <2>7 DEF Init, TypeOK, SlotStatuses, LotStatuses, ClaimStatuses
<1>2. CancelOnlyWhenClosed
  BY DEF Init, CancelOnlyWhenClosed, NoRow, CancelLabels
<1>3. /\ UnbornLots
      /\ UnbornClaims
      /\ SurplusKnown
      /\ NoLotSweptTwice
  <2>1. UnbornLots
    BY DEF Init, UnbornLots, Lots
  <2>2. UnbornClaims /\ SurplusKnown
    BY DEF Init, UnbornClaims, SurplusKnown
  <2>3. NoLotSweptTwice
    BY DEF Init, NoLotSweptTwice
  <2>4. QED
    BY <2>1, <2>2, <2>3
<1>4. LotsWhole
  BY DEF Init, LotsWhole, Holds
<1>5. QED
  BY <1>1, <1>2, <1>3, <1>4 DEF SweepInv

\* The locals of a request that has returned.
LEMMA BlankTyped == Blank \in Locals /\ Blank.balance.amount = 0 /\ Blank.floor = 0
<1>1. NoBalance \in Balance
  BY AmountAssumption, BoundsAssumption DEF NoBalance, Balance
<1>2. QED
  BY <1>1 DEF Blank, Locals, NoBalance

\* The check of the setup accounts starts a request: it has seen the chain open.
LEMMA SetupVerifyStep ==
  ASSUME SweepInv, NEW r \in Setups, SetupVerify(r) PROVE SweepInv'
<1> USE DEF SetupVerify, At, Goto, Finish, chainVars, rowVars, lotVars, claimVars, sweepVars
<1>1. r \in Reqs /\ r \notin Floors
  BY RequestKindsAssumption DEF Reqs
<1>2. TypeOK'
  BY <1>1, BlankTyped DEF SweepInv, TypeOK, Labels, CancelLabels, Locals
<1>3. CancelOnlyWhenClosed'
  BY <1>1 DEF SweepInv, TypeOK, CancelOnlyWhenClosed, CancelLabels
<1>4. UnbornLots'
  BY <1>1 DEF SweepInv, TypeOK, UnbornLots
<1>5. LotsWhole' /\ UnbornClaims' /\ NoLotSweptTwice'
  BY DEF SweepInv, LotsWhole, Holds, UnbornClaims, NoLotSweptTwice
<1>6. SurplusKnown'
  BY <1>1 DEF SweepInv, TypeOK, SurplusKnown
<1>7. QED
  BY <1>2, <1>3, <1>4, <1>5, <1>6 DEF SweepInv

\* The read of the setup target ends the request or lets it go on; no row changes.
LEMMA SetupReadStep ==
  ASSUME SweepInv, NEW r \in Setups, SetupRead(r) PROVE SweepInv'
<1> USE DEF SetupRead, At, Goto, Finish, chainVars, rowVars, lotVars, claimVars, sweepVars
<1>1. r \in Reqs /\ r \notin Floors
  BY RequestKindsAssumption DEF Reqs
<1>2. TypeOK'
  <2>1. pc' \in [Reqs -> Labels]
    BY <1>1 DEF SweepInv, TypeOK, Labels
  <2>2. seen' \in [Reqs -> Locals]
    BY <1>1, BlankTyped DEF SweepInv, TypeOK, Locals
  <2>4. QED
    BY <2>1, <2>2 DEF SweepInv, TypeOK
<1>3. CancelOnlyWhenClosed'
  BY <1>1 DEF SweepInv, TypeOK, CancelOnlyWhenClosed, CancelLabels
<1>4. UnbornLots'
  <2>1. \A q \in Floors : pc'[q] = pc[q]
    BY <1>1 DEF SweepInv, TypeOK, Reqs
  <2>2. QED
    BY <2>1 DEF SweepInv, UnbornLots
<1>5. LotsWhole' /\ UnbornClaims' /\ NoLotSweptTwice'
  BY DEF SweepInv, LotsWhole, Holds, UnbornClaims, NoLotSweptTwice
<1>6. SurplusKnown'
  BY <1>1 DEF SweepInv, TypeOK, SurplusKnown
<1>7. QED
  BY <1>2, <1>3, <1>4, <1>5, <1>6 DEF SweepInv

\* The setup upsert gives the target a row only while the policy has been on chain.
LEMMA SetupUpsertStep ==
  ASSUME SweepInv, NEW r \in Setups, NEW f \in FloorInputs, SetupUpsert(r, f) PROVE SweepInv'
<1> USE DEF SetupUpsert, At, Goto, Finish, chainVars, rowVars, lotVars, claimVars, sweepVars, UpsertedTarget
<1>1. r \in Reqs /\ r \notin Floors
  BY RequestKindsAssumption DEF Reqs
<1>2. TypeOK'
  <2>1. pc' \in [Reqs -> Labels]
    BY <1>1 DEF SweepInv, TypeOK, Labels
  <2>2. seen' \in [Reqs -> Locals]
    <3>1. seen \in [Reqs -> Locals]
      BY DEF SweepInv, TypeOK
    <3>2. CASE seen' = [seen EXCEPT ![r].floor = f]
      BY <1>1, <3>1, <3>2 DEF Locals
    <3>3. CASE seen' = [seen EXCEPT ![r] = Blank]
      BY <1>1, <3>1, <3>3, BlankTyped
    <3>4. QED
      BY <3>2, <3>3
  <2>3. target' \in TargetRow
    BY DEF SweepInv, TypeOK, TargetRow, ChainStatuses
  <2>4. QED
    BY <2>1, <2>2, <2>3 DEF SweepInv, TypeOK
<1>3. CancelOnlyWhenClosed'
  BY <1>1 DEF SweepInv, TypeOK, CancelOnlyWhenClosed, CancelLabels
<1>4. UnbornLots'
  <2>1. \A q \in Floors : pc'[q] = pc[q]
    BY <1>1 DEF SweepInv, TypeOK, Reqs
  <2>2. QED
    BY <2>1 DEF SweepInv, UnbornLots
<1>5. LotsWhole' /\ UnbornClaims' /\ NoLotSweptTwice'
  BY DEF SweepInv, LotsWhole, Holds, UnbornClaims, NoLotSweptTwice
<1>6. SurplusKnown'
  BY <1>1 DEF SweepInv, TypeOK, SurplusKnown
<1>7. QED
  BY <1>2, <1>3, <1>4, <1>5, <1>6 DEF SweepInv

\* The wallet balance a bootstrap remembers is a balance of the wallet.
LEMMA SetupSnapshotStep ==
  ASSUME SweepInv, NEW r \in Setups, SetupSnapshot(r) PROVE SweepInv'
<1> USE DEF SetupSnapshot, At, Goto, Finish, chainVars, rowVars, lotVars, claimVars, sweepVars
<1>1. r \in Reqs /\ r \notin Floors
  BY RequestKindsAssumption DEF Reqs
<1>2. TypeOK'
  BY <1>1, BlankTyped DEF SweepInv, TypeOK, Labels, CancelLabels, Locals
<1>3. CancelOnlyWhenClosed'
  BY <1>1 DEF SweepInv, TypeOK, CancelOnlyWhenClosed, CancelLabels
<1>4. UnbornLots'
  BY <1>1 DEF SweepInv, TypeOK, UnbornLots
<1>5. LotsWhole' /\ UnbornClaims' /\ NoLotSweptTwice'
  BY DEF SweepInv, LotsWhole, Holds, UnbornClaims, NoLotSweptTwice
<1>6. SurplusKnown'
  BY <1>1 DEF SweepInv, TypeOK, SurplusKnown
<1>7. QED
  BY <1>2, <1>3, <1>4, <1>5, <1>6 DEF SweepInv

\* A bootstrap that keeps a newer projection goes on only with a surplus.
LEMMA SetupProjReadStep ==
  ASSUME SweepInv, NEW r \in Setups, SetupProjRead(r) PROVE SweepInv'
<1> USE DEF SetupProjRead, At, Goto, Finish, chainVars, rowVars, lotVars, claimVars, sweepVars, AfterProjection, AboveFloor
<1>1. r \in Reqs /\ r \notin Floors
  BY RequestKindsAssumption DEF Reqs
<1>2. TypeOK'
  <2>1. pc' \in [Reqs -> Labels]
    BY <1>1 DEF SweepInv, TypeOK, Labels
  <2>2. seen' \in [Reqs -> Locals]
    BY <1>1, BlankTyped DEF SweepInv, TypeOK, Locals
  <2>4. QED
    BY <2>1, <2>2 DEF SweepInv, TypeOK
<1>3. CancelOnlyWhenClosed'
  BY <1>1 DEF SweepInv, TypeOK, CancelOnlyWhenClosed, CancelLabels
<1>4. UnbornLots'
  <2>1. \A q \in Floors : pc'[q] = pc[q]
    BY <1>1 DEF SweepInv, TypeOK, Reqs
  <2>2. QED
    BY <2>1 DEF SweepInv, UnbornLots
<1>5. LotsWhole' /\ UnbornClaims' /\ NoLotSweptTwice'
  BY DEF SweepInv, LotsWhole, Holds, UnbornClaims, NoLotSweptTwice
<1>6. SurplusKnown'
  BY <1>1 DEF SweepInv, TypeOK, SurplusKnown
<1>7. QED
  BY <1>2, <1>3, <1>4, <1>5, <1>6 DEF SweepInv

\* A bootstrap that writes the projection goes on only with a surplus.
LEMMA SetupProjWriteStep ==
  ASSUME SweepInv, NEW r \in Setups, SetupProjWrite(r) PROVE SweepInv'
<1> USE DEF SetupProjWrite, At, Goto, Finish, chainVars, rowVars, lotVars, claimVars, sweepVars, AfterProjection, AboveFloor
<1>1. r \in Reqs /\ r \notin Floors
  BY RequestKindsAssumption DEF Reqs
<1>2. TypeOK'
  <2>1. pc' \in [Reqs -> Labels]
    BY <1>1 DEF SweepInv, TypeOK, Labels
  <2>2. seen' \in [Reqs -> Locals]
    BY <1>1, BlankTyped DEF SweepInv, TypeOK, Locals
  <2>3. proj' \in Balance
    BY <1>1 DEF SweepInv, TypeOK, Locals
  <2>4. QED
    BY <2>1, <2>2, <2>3 DEF SweepInv, TypeOK
<1>3. CancelOnlyWhenClosed'
  BY <1>1 DEF SweepInv, TypeOK, CancelOnlyWhenClosed, CancelLabels
<1>4. UnbornLots'
  <2>1. \A q \in Floors : pc'[q] = pc[q]
    BY <1>1 DEF SweepInv, TypeOK, Reqs
  <2>2. QED
    BY <2>1 DEF SweepInv, UnbornLots
<1>5. LotsWhole' /\ UnbornClaims' /\ NoLotSweptTwice'
  BY DEF SweepInv, LotsWhole, Holds, UnbornClaims, NoLotSweptTwice
<1>6. SurplusKnown'
  BY <1>1 DEF SweepInv, TypeOK, SurplusKnown
<1>7. QED
  BY <1>2, <1>3, <1>4, <1>5, <1>6 DEF SweepInv

\* The look for an earlier bootstrap lot changes no lot.
LEMMA SetupLotReadStep ==
  ASSUME SweepInv, NEW r \in Setups, SetupLotRead(r) PROVE SweepInv'
<1> USE DEF SetupLotRead, At, Goto, Finish, chainVars, rowVars, lotVars, claimVars, sweepVars
<1>1. r \in Reqs /\ r \notin Floors
  BY RequestKindsAssumption DEF Reqs
<1>2. TypeOK'
  <2>1. pc' \in [Reqs -> Labels]
    BY <1>1 DEF SweepInv, TypeOK, Labels
  <2>2. seen' \in [Reqs -> Locals]
    BY <1>1, BlankTyped DEF SweepInv, TypeOK, Locals
  <2>4. QED
    BY <2>1, <2>2 DEF SweepInv, TypeOK
<1>3. CancelOnlyWhenClosed'
  BY <1>1 DEF SweepInv, TypeOK, CancelOnlyWhenClosed, CancelLabels
<1>4. UnbornLots'
  <2>1. \A q \in Floors : pc'[q] = pc[q]
    BY <1>1 DEF SweepInv, TypeOK, Reqs
  <2>2. QED
    BY <2>1 DEF SweepInv, UnbornLots
<1>5. LotsWhole' /\ UnbornClaims' /\ NoLotSweptTwice'
  BY DEF SweepInv, LotsWhole, Holds, UnbornClaims, NoLotSweptTwice
<1>6. SurplusKnown'
  BY <1>1 DEF SweepInv, TypeOK, SurplusKnown
<1>7. QED
  BY <1>2, <1>3, <1>4, <1>5, <1>6 DEF SweepInv

\* Ensuring a slot changes no lot and no claim.
LEMMA SetupSlotStep ==
  ASSUME SweepInv, NEW r \in Setups, SetupSlot(r) PROVE SweepInv'
<1> USE DEF SetupSlot, At, Goto, Finish, chainVars, rowVars, lotVars, claimVars, sweepVars, EnsureSlot, CanceledDrained, SlotStatuses
<1>1. r \in Reqs /\ r \notin Floors
  BY RequestKindsAssumption DEF Reqs
<1>2. TypeOK'
  <2>1. pc' \in [Reqs -> Labels]
    BY <1>1 DEF SweepInv, TypeOK, Labels
  <2>2. seen' \in [Reqs -> Locals]
    <3>1. PICK s \in Slots : seen' = [seen EXCEPT ![r].slot = s]
      OBVIOUS
    <3>2. seen \in [Reqs -> Locals]
      BY DEF SweepInv, TypeOK
    <3>3. QED
      BY <1>1, <3>1, <3>2 DEF Locals
  <2>3. slots' \in [Slots -> SlotStatuses]
    BY DEF SweepInv, TypeOK, SlotStatuses
  <2>4. QED
    BY <2>1, <2>2, <2>3 DEF SweepInv, TypeOK
<1>3. CancelOnlyWhenClosed'
  BY <1>1 DEF SweepInv, TypeOK, CancelOnlyWhenClosed, CancelLabels
<1>4. UnbornLots'
  <2>1. \A q \in Floors : pc'[q] = pc[q]
    BY <1>1 DEF SweepInv, TypeOK, Reqs
  <2>2. QED
    BY <2>1 DEF SweepInv, UnbornLots
<1>5. LotsWhole' /\ UnbornClaims' /\ NoLotSweptTwice'
  BY DEF SweepInv, LotsWhole, Holds, UnbornClaims, NoLotSweptTwice
<1>6. SurplusKnown'
  BY <1>1 DEF SweepInv, TypeOK, SurplusKnown
<1>7. QED
  BY <1>2, <1>3, <1>4, <1>5, <1>6 DEF SweepInv

\* The snapshot of the close statement changes nothing and needs a closed chain.
LEMMA CancelBeginStep ==
  ASSUME SweepInv, NEW r \in Closes \cup Reconciles, CancelBegin(r) PROVE SweepInv'
<1> USE DEF CancelBegin, At, Goto, Finish, chainVars, rowVars, lotVars, claimVars, sweepVars
<1>1. r \in Reqs /\ r \notin Floors
  BY RequestKindsAssumption DEF Reqs
<1>2. TypeOK'
  <2>1. pc' \in [Reqs -> Labels]
    BY <1>1 DEF SweepInv, TypeOK, Labels, CancelLabels
  <2>2. seen' \in [Reqs -> Locals]
    <3> DEFINE w == [seen[r] EXCEPT !.lots = {l \in Lots : lotStatus[l] \in {"open", "selected"} /\ remaining[l] > 0},
                                !.claims = {c \in Claims : claimStatus[c] = "selected"}]
    <3>1. seen[r] \in Locals
      BY <1>1 DEF SweepInv, TypeOK
    <3>2. w \in Locals
      BY <3>1 DEF Locals
    <3>3. seen' = [seen EXCEPT ![r] = w]
      OBVIOUS
    <3> HIDE DEF w
    <3>4. QED
      BY <1>1, <3>2, <3>3 DEF SweepInv, TypeOK
  <2>3. QED
    BY <2>1, <2>2 DEF SweepInv, TypeOK
<1>3. CancelOnlyWhenClosed'
  BY <1>1 DEF SweepInv, TypeOK, CancelOnlyWhenClosed, CancelLabels
<1>4. UnbornLots'
  BY <1>1 DEF SweepInv, TypeOK, UnbornLots
<1>5. LotsWhole' /\ UnbornClaims' /\ NoLotSweptTwice'
  BY DEF SweepInv, LotsWhole, Holds, UnbornClaims, NoLotSweptTwice
<1>6. SurplusKnown'
  BY <1>1 DEF SweepInv, TypeOK, SurplusKnown
<1>7. QED
  BY <1>2, <1>3, <1>4, <1>5, <1>6 DEF SweepInv

\* A close starts only with its transaction confirmed: the chain is closed.
LEMMA CloseReadStep ==
  ASSUME SweepInv, NEW r \in Closes, CloseRead(r) PROVE SweepInv'
<1> USE DEF CloseRead, At, Goto, Finish, chainVars, rowVars, lotVars, claimVars, sweepVars, CloseConfirmed
<1>1. r \in Reqs /\ r \notin Floors
  BY RequestKindsAssumption DEF Reqs
<1>2. TypeOK'
  BY <1>1, BlankTyped DEF SweepInv, TypeOK, Labels, CancelLabels, Locals
<1>3. CancelOnlyWhenClosed'
  BY <1>1 DEF SweepInv, TypeOK, CancelOnlyWhenClosed, CancelLabels
<1>4. UnbornLots'
  BY <1>1 DEF SweepInv, TypeOK, UnbornLots
<1>5. LotsWhole' /\ UnbornClaims' /\ NoLotSweptTwice'
  BY DEF SweepInv, LotsWhole, Holds, UnbornClaims, NoLotSweptTwice
<1>6. SurplusKnown'
  BY <1>1 DEF SweepInv, TypeOK, SurplusKnown
<1>7. QED
  BY <1>2, <1>3, <1>4, <1>5, <1>6 DEF SweepInv

\* Switching the target off keeps its row.
LEMMA CloseDeactivateStep ==
  ASSUME SweepInv, NEW r \in Closes, CloseDeactivate(r) PROVE SweepInv'
<1> USE DEF CloseDeactivate, At, Goto, Finish, chainVars, rowVars, lotVars, claimVars, sweepVars, TargetRow
<1>1. r \in Reqs /\ r \notin Floors
  BY RequestKindsAssumption DEF Reqs
<1>2. TypeOK'
  BY <1>1, BlankTyped DEF SweepInv, TypeOK, Labels, CancelLabels, Locals
<1>3. CancelOnlyWhenClosed'
  BY <1>1 DEF SweepInv, TypeOK, CancelOnlyWhenClosed, CancelLabels
<1>4. UnbornLots'
  BY <1>1 DEF SweepInv, TypeOK, UnbornLots
<1>5. LotsWhole' /\ UnbornClaims' /\ NoLotSweptTwice'
  BY DEF SweepInv, LotsWhole, Holds, UnbornClaims, NoLotSweptTwice
<1>6. SurplusKnown'
  BY <1>1 DEF SweepInv, TypeOK, SurplusKnown
<1>7. QED
  BY <1>2, <1>3, <1>4, <1>5, <1>6 DEF SweepInv

\* A reconciliation starts from an existing target.
LEMMA ReconcileFindStep ==
  ASSUME SweepInv, NEW r \in Reconciles, ReconcileFind(r) PROVE SweepInv'
<1> USE DEF ReconcileFind, At, Goto, Finish, chainVars, rowVars, lotVars, claimVars, sweepVars
<1>1. r \in Reqs /\ r \notin Floors
  BY RequestKindsAssumption DEF Reqs
<1>2. TypeOK'
  BY <1>1, BlankTyped DEF SweepInv, TypeOK, Labels, CancelLabels, Locals
<1>3. CancelOnlyWhenClosed'
  BY <1>1 DEF SweepInv, TypeOK, CancelOnlyWhenClosed, CancelLabels
<1>4. UnbornLots'
  BY <1>1 DEF SweepInv, TypeOK, UnbornLots
<1>5. LotsWhole' /\ UnbornClaims' /\ NoLotSweptTwice'
  BY DEF SweepInv, LotsWhole, Holds, UnbornClaims, NoLotSweptTwice
<1>6. SurplusKnown'
  BY <1>1 DEF SweepInv, TypeOK, SurplusKnown
<1>7. QED
  BY <1>2, <1>3, <1>4, <1>5, <1>6 DEF SweepInv

\* A reconciliation goes on only when the policy is missing: as the target exists,
\* the policy was on chain before and is now closed.
LEMMA ReconcileCheckStep ==
  ASSUME SweepInv, NEW r \in Reconciles, ReconcileCheck(r) PROVE SweepInv'
<1> USE DEF ReconcileCheck, At, Goto, Finish, chainVars, rowVars, lotVars, claimVars, sweepVars, PolicyMissing
<1>1. r \in Reqs /\ r \notin Floors
  BY RequestKindsAssumption DEF Reqs
<1>2. TypeOK'
  <2>0. \E label \in {"reconcileRead", "done"} : pc' = [pc EXCEPT ![r] = label]
    OBVIOUS
  <2>1. pc' \in [Reqs -> Labels]
    BY <1>1, <2>0 DEF SweepInv, TypeOK, Labels
  <2>2. seen' \in [Reqs -> Locals]
    BY <1>1, BlankTyped DEF SweepInv, TypeOK, Locals
  <2>4. QED
    BY <2>1, <2>2 DEF SweepInv, TypeOK
<1>3. CancelOnlyWhenClosed'
  BY <1>1 DEF SweepInv, TypeOK, CancelOnlyWhenClosed, CancelLabels
<1>4. UnbornLots'
  <2>1. \A q \in Floors : pc'[q] = pc[q]
    BY <1>1 DEF SweepInv, TypeOK, Reqs
  <2>2. QED
    BY <2>1 DEF SweepInv, UnbornLots
<1>5. LotsWhole' /\ UnbornClaims' /\ NoLotSweptTwice'
  BY DEF SweepInv, LotsWhole, Holds, UnbornClaims, NoLotSweptTwice
<1>6. SurplusKnown'
  BY <1>1 DEF SweepInv, TypeOK, SurplusKnown
<1>7. QED
  BY <1>2, <1>3, <1>4, <1>5, <1>6 DEF SweepInv

\* The second read of the target changes nothing and keeps the chain closed.
LEMMA ReconcileReadStep ==
  ASSUME SweepInv, NEW r \in Reconciles, ReconcileRead(r) PROVE SweepInv'
<1> USE DEF ReconcileRead, At, Goto, Finish, chainVars, rowVars, lotVars, claimVars, sweepVars
<1>1. r \in Reqs /\ r \notin Floors
  BY RequestKindsAssumption DEF Reqs
<1>2. TypeOK'
  <2>1. pc' \in [Reqs -> Labels]
    BY <1>1 DEF SweepInv, TypeOK, Labels, CancelLabels
  <2>2. seen' \in [Reqs -> Locals]
    <3> DEFINE w == [seen[r] EXCEPT !.closed = (target.chain = "closed")]
    <3>1. seen[r] \in Locals
      BY <1>1 DEF SweepInv, TypeOK
    <3>2. w \in Locals
      BY <3>1 DEF Locals
    <3>3. seen' = [seen EXCEPT ![r] = w]
      OBVIOUS
    <3> HIDE DEF w
    <3>4. QED
      BY <1>1, <3>2, <3>3 DEF SweepInv, TypeOK
  <2>3. QED
    BY <2>1, <2>2 DEF SweepInv, TypeOK
<1>3. CancelOnlyWhenClosed'
  BY <1>1 DEF SweepInv, TypeOK, CancelOnlyWhenClosed, CancelLabels
<1>4. UnbornLots'
  BY <1>1 DEF SweepInv, TypeOK, UnbornLots
<1>5. LotsWhole' /\ UnbornClaims' /\ NoLotSweptTwice'
  BY DEF SweepInv, LotsWhole, Holds, UnbornClaims, NoLotSweptTwice
<1>6. SurplusKnown'
  BY <1>1 DEF SweepInv, TypeOK, SurplusKnown
<1>7. QED
  BY <1>2, <1>3, <1>4, <1>5, <1>6 DEF SweepInv

\* Switching the policy row off keeps everything else.
LEMMA ReconcilePolicyStep ==
  ASSUME SweepInv, NEW r \in Reconciles, ReconcilePolicy(r) PROVE SweepInv'
<1> USE DEF ReconcilePolicy, At, Goto, Finish, chainVars, rowVars, lotVars, claimVars, sweepVars
<1>1. r \in Reqs /\ r \notin Floors
  BY RequestKindsAssumption DEF Reqs
<1>2. TypeOK'
  BY <1>1, BlankTyped DEF SweepInv, TypeOK, Labels, CancelLabels, Locals
<1>3. CancelOnlyWhenClosed'
  BY <1>1 DEF SweepInv, TypeOK, CancelOnlyWhenClosed, CancelLabels
<1>4. UnbornLots'
  BY <1>1 DEF SweepInv, TypeOK, UnbornLots
<1>5. LotsWhole' /\ UnbornClaims' /\ NoLotSweptTwice'
  BY DEF SweepInv, LotsWhole, Holds, UnbornClaims, NoLotSweptTwice
<1>6. SurplusKnown'
  BY <1>1 DEF SweepInv, TypeOK, SurplusKnown
<1>7. QED
  BY <1>2, <1>3, <1>4, <1>5, <1>6 DEF SweepInv

\* Closing the target row keeps the row.
LEMMA ReconcileTargetStep ==
  ASSUME SweepInv, NEW r \in Reconciles, ReconcileTarget(r) PROVE SweepInv'
<1> USE DEF ReconcileTarget, At, Goto, Finish, chainVars, rowVars, lotVars, claimVars, sweepVars, TargetRow, ChainStatuses
<1>1. r \in Reqs /\ r \notin Floors
  BY RequestKindsAssumption DEF Reqs
<1>2. TypeOK'
  BY <1>1, BlankTyped DEF SweepInv, TypeOK, Labels, CancelLabels, Locals
<1>3. CancelOnlyWhenClosed'
  BY <1>1 DEF SweepInv, TypeOK, CancelOnlyWhenClosed, CancelLabels
<1>4. UnbornLots'
  BY <1>1 DEF SweepInv, TypeOK, UnbornLots
<1>5. LotsWhole' /\ UnbornClaims' /\ NoLotSweptTwice'
  BY DEF SweepInv, LotsWhole, Holds, UnbornClaims, NoLotSweptTwice
<1>6. SurplusKnown'
  BY <1>1 DEF SweepInv, TypeOK, SurplusKnown
<1>7. QED
  BY <1>2, <1>3, <1>4, <1>5, <1>6 DEF SweepInv

\* Accepting a floor request changes nothing.
LEMMA FloorReadStep ==
  ASSUME SweepInv, NEW r \in Floors, FloorRead(r) PROVE SweepInv'
<1> USE DEF FloorRead, At, Goto, Finish, chainVars, rowVars, lotVars, claimVars, sweepVars
<1>1. r \in Reqs /\ r \in Floors
  BY RequestKindsAssumption DEF Reqs
<1>2. TypeOK'
  BY <1>1, BlankTyped DEF SweepInv, TypeOK, Labels, CancelLabels, Locals
<1>3. CancelOnlyWhenClosed'
  BY <1>1 DEF SweepInv, TypeOK, CancelOnlyWhenClosed, CancelLabels
<1>4. UnbornLots'
  BY <1>1 DEF SweepInv, TypeOK, UnbornLots
<1>5. LotsWhole' /\ UnbornClaims' /\ NoLotSweptTwice'
  BY DEF SweepInv, LotsWhole, Holds, UnbornClaims, NoLotSweptTwice
<1>6. SurplusKnown'
  BY <1>1 DEF SweepInv, TypeOK, SurplusKnown
<1>7. QED
  BY <1>2, <1>3, <1>4, <1>5, <1>6 DEF SweepInv

\* The snapshot of the floor statement holds lots and a balance of their types.
LEMMA FloorBeginStep ==
  ASSUME SweepInv, NEW r \in Floors, FloorBegin(r) PROVE SweepInv'
<1> USE DEF FloorBegin, At, Goto, Finish, chainVars, rowVars, lotVars, claimVars, sweepVars, OpenLots
<1>1. r \in Reqs /\ r \in Floors
  BY RequestKindsAssumption DEF Reqs
<1>2. TypeOK'
  <2>1. pc' \in [Reqs -> Labels]
    BY <1>1 DEF SweepInv, TypeOK, Labels, CancelLabels
  <2>2. seen' \in [Reqs -> Locals]
    <3> DEFINE w == [seen[r] EXCEPT !.lots = OpenLots, !.balance = proj]
    <3>1. seen[r] \in Locals /\ proj \in Balance
      BY <1>1 DEF SweepInv, TypeOK
    <3>2. w \in Locals
      BY <3>1 DEF Locals
    <3>3. seen' = [seen EXCEPT ![r] = w]
      OBVIOUS
    <3> HIDE DEF w
    <3>4. QED
      BY <1>1, <3>2, <3>3 DEF SweepInv, TypeOK
  <2>3. QED
    BY <2>1, <2>2 DEF SweepInv, TypeOK
<1>3. CancelOnlyWhenClosed'
  BY <1>1 DEF SweepInv, TypeOK, CancelOnlyWhenClosed, CancelLabels
<1>4. UnbornLots'
  BY <1>1 DEF SweepInv, TypeOK, UnbornLots
<1>5. LotsWhole' /\ UnbornClaims' /\ NoLotSweptTwice'
  BY DEF SweepInv, LotsWhole, Holds, UnbornClaims, NoLotSweptTwice
<1>6. SurplusKnown'
  BY <1>1 DEF SweepInv, TypeOK, SurplusKnown
<1>7. QED
  BY <1>2, <1>3, <1>4, <1>5, <1>6 DEF SweepInv

\* A refused preparation starts a heal and changes nothing.
LEMMA HealRefusedStep ==
  ASSUME SweepInv, NEW r \in Heals, HealRefused(r) PROVE SweepInv'
<1> USE DEF HealRefused, At, Goto, Finish, chainVars, rowVars, lotVars, claimVars, sweepVars, TargetRow, ChainStatuses
<1>1. r \in Reqs /\ r \notin Floors
  BY RequestKindsAssumption DEF Reqs
<1>2. TypeOK'
  BY <1>1, BlankTyped DEF SweepInv, TypeOK, Labels, CancelLabels, Locals
<1>3. CancelOnlyWhenClosed'
  BY <1>1 DEF SweepInv, TypeOK, CancelOnlyWhenClosed, CancelLabels
<1>4. UnbornLots'
  BY <1>1 DEF SweepInv, TypeOK, UnbornLots
<1>5. LotsWhole' /\ UnbornClaims' /\ NoLotSweptTwice'
  BY DEF SweepInv, LotsWhole, Holds, UnbornClaims, NoLotSweptTwice
<1>6. SurplusKnown'
  BY <1>1 DEF SweepInv, TypeOK, SurplusKnown
<1>7. QED
  BY <1>2, <1>3, <1>4, <1>5, <1>6 DEF SweepInv

\* Its two reads change nothing.
LEMMA HealPendingStep ==
  ASSUME SweepInv, NEW r \in Heals, NEW from, NEW to \in {"healRead", "healWrite"}, HealPending(r, from, to) PROVE SweepInv'
<1> USE DEF HealPending, At, Goto, Finish, chainVars, rowVars, lotVars, claimVars, sweepVars, TargetRow, ChainStatuses
<1>1. r \in Reqs /\ r \notin Floors
  BY RequestKindsAssumption DEF Reqs
<1>2. TypeOK'
  <2>1. pc' \in [Reqs -> Labels]
    BY <1>1 DEF SweepInv, TypeOK, Labels
  <2>2. seen' \in [Reqs -> Locals]
    BY <1>1, BlankTyped DEF SweepInv, TypeOK
  <2>3. QED
    BY <2>1, <2>2 DEF SweepInv, TypeOK
<1>3. CancelOnlyWhenClosed'
  BY <1>1 DEF SweepInv, TypeOK, CancelOnlyWhenClosed, CancelLabels
<1>4. UnbornLots'
  <2>1. \A f \in Floors : pc'[f] = pc[f]
    BY <1>1 DEF SweepInv, TypeOK, Reqs
  <2>2. QED
    BY <2>1 DEF SweepInv, UnbornLots
<1>5. LotsWhole' /\ UnbornClaims' /\ NoLotSweptTwice'
  BY DEF SweepInv, LotsWhole, Holds, UnbornClaims, NoLotSweptTwice
<1>6. SurplusKnown'
  BY <1>1 DEF SweepInv, TypeOK, SurplusKnown
<1>7. QED
  BY <1>2, <1>3, <1>4, <1>5, <1>6 DEF SweepInv

\* A heal activates the row, and only a row that exists can be pending.
LEMMA HealWriteStep ==
  ASSUME SweepInv, NEW r \in Heals, HealWrite(r) PROVE SweepInv'
<1> USE DEF HealWrite, StillPending, At, Goto, Finish, chainVars, rowVars, lotVars, claimVars, sweepVars, TargetRow, ChainStatuses
<1>1. r \in Reqs /\ r \notin Floors
  BY RequestKindsAssumption DEF Reqs
<1>2. TypeOK'
  BY <1>1, BlankTyped DEF SweepInv, TypeOK, Labels, CancelLabels, Locals
<1>3. CancelOnlyWhenClosed'
  BY <1>1 DEF SweepInv, TypeOK, CancelOnlyWhenClosed, CancelLabels
<1>4. UnbornLots'
  BY <1>1 DEF SweepInv, TypeOK, UnbornLots
<1>5. LotsWhole' /\ UnbornClaims' /\ NoLotSweptTwice'
  BY DEF SweepInv, LotsWhole, Holds, UnbornClaims, NoLotSweptTwice
<1>6. SurplusKnown'
  BY <1>1 DEF SweepInv, TypeOK, SurplusKnown
<1>7. QED
  BY <1>2, <1>3, <1>4, <1>5, <1>6 DEF SweepInv

\* Accepting a toggle changes nothing.
LEMMA ToggleReadStep ==
  ASSUME SweepInv, NEW r \in Toggles, ToggleRead(r) PROVE SweepInv'
<1> USE DEF ToggleRead, At, Goto, Finish, chainVars, rowVars, lotVars, claimVars, sweepVars
<1>1. r \in Reqs /\ r \notin Floors
  BY RequestKindsAssumption DEF Reqs
<1>2. TypeOK'
  BY <1>1, BlankTyped DEF SweepInv, TypeOK, Labels, CancelLabels, Locals
<1>3. CancelOnlyWhenClosed'
  BY <1>1 DEF SweepInv, TypeOK, CancelOnlyWhenClosed, CancelLabels
<1>4. UnbornLots'
  BY <1>1 DEF SweepInv, TypeOK, UnbornLots
<1>5. LotsWhole' /\ UnbornClaims' /\ NoLotSweptTwice'
  BY DEF SweepInv, LotsWhole, Holds, UnbornClaims, NoLotSweptTwice
<1>6. SurplusKnown'
  BY <1>1 DEF SweepInv, TypeOK, SurplusKnown
<1>7. QED
  BY <1>2, <1>3, <1>4, <1>5, <1>6 DEF SweepInv

\* A toggle changes only the active flag.
LEMMA ToggleWriteStep ==
  ASSUME SweepInv, NEW r \in Toggles, NEW active \in BOOLEAN, ToggleWrite(r, active) PROVE SweepInv'
<1> USE DEF ToggleWrite, At, Goto, Finish, chainVars, rowVars, lotVars, claimVars, sweepVars, TargetRow
<1>1. r \in Reqs /\ r \notin Floors
  BY RequestKindsAssumption DEF Reqs
<1>2. TypeOK'
  BY <1>1, BlankTyped DEF SweepInv, TypeOK, Labels, CancelLabels, Locals
<1>3. CancelOnlyWhenClosed'
  BY <1>1 DEF SweepInv, TypeOK, CancelOnlyWhenClosed, CancelLabels
<1>4. UnbornLots'
  BY <1>1 DEF SweepInv, TypeOK, UnbornLots
<1>5. LotsWhole' /\ UnbornClaims' /\ NoLotSweptTwice'
  BY DEF SweepInv, LotsWhole, Holds, UnbornClaims, NoLotSweptTwice
<1>6. SurplusKnown'
  BY <1>1 DEF SweepInv, TypeOK, SurplusKnown
<1>7. QED
  BY <1>2, <1>3, <1>4, <1>5, <1>6 DEF SweepInv

\* Accepting an execute-now request changes nothing.
LEMMA ExecReadStep ==
  ASSUME SweepInv, NEW r \in Executes, ExecRead(r) PROVE SweepInv'
<1> USE DEF ExecRead, At, Goto, Finish, chainVars, rowVars, lotVars, claimVars, sweepVars
<1>1. r \in Reqs /\ r \notin Floors
  BY RequestKindsAssumption DEF Reqs
<1>2. TypeOK'
  BY <1>1, BlankTyped DEF SweepInv, TypeOK, Labels, CancelLabels, Locals
<1>3. CancelOnlyWhenClosed'
  BY <1>1 DEF SweepInv, TypeOK, CancelOnlyWhenClosed, CancelLabels
<1>4. UnbornLots'
  BY <1>1 DEF SweepInv, TypeOK, UnbornLots
<1>5. LotsWhole' /\ UnbornClaims' /\ NoLotSweptTwice'
  BY DEF SweepInv, LotsWhole, Holds, UnbornClaims, NoLotSweptTwice
<1>6. SurplusKnown'
  BY <1>1 DEF SweepInv, TypeOK, SurplusKnown
<1>7. QED
  BY <1>2, <1>3, <1>4, <1>5, <1>6 DEF SweepInv

\* The snapshot of execute-now is a set of slots.
LEMMA ExecBeginStep ==
  ASSUME SweepInv, NEW r \in Executes, ExecBegin(r) PROVE SweepInv'
<1> USE DEF ExecBegin, At, Goto, Finish, chainVars, rowVars, lotVars, claimVars, sweepVars
<1>1. r \in Reqs /\ r \notin Floors
  BY RequestKindsAssumption DEF Reqs
<1>2. TypeOK'
  BY <1>1, BlankTyped DEF SweepInv, TypeOK, Labels, CancelLabels, Locals
<1>3. CancelOnlyWhenClosed'
  BY <1>1 DEF SweepInv, TypeOK, CancelOnlyWhenClosed, CancelLabels
<1>4. UnbornLots'
  BY <1>1 DEF SweepInv, TypeOK, UnbornLots
<1>5. LotsWhole' /\ UnbornClaims' /\ NoLotSweptTwice'
  BY DEF SweepInv, LotsWhole, Holds, UnbornClaims, NoLotSweptTwice
<1>6. SurplusKnown'
  BY <1>1 DEF SweepInv, TypeOK, SurplusKnown
<1>7. QED
  BY <1>2, <1>3, <1>4, <1>5, <1>6 DEF SweepInv

\* Execute-now changes the status of slots only.
LEMMA ExecApplyStep ==
  ASSUME SweepInv, NEW r \in Executes, ExecApply(r) PROVE SweepInv'
<1> USE DEF ExecApply, At, Goto, Finish, chainVars, rowVars, lotVars, claimVars, sweepVars, SlotStatuses
<1>1. r \in Reqs /\ r \notin Floors
  BY RequestKindsAssumption DEF Reqs
<1>2. TypeOK'
  BY <1>1, BlankTyped DEF SweepInv, TypeOK, Labels, CancelLabels, Locals
<1>3. CancelOnlyWhenClosed'
  BY <1>1 DEF SweepInv, TypeOK, CancelOnlyWhenClosed, CancelLabels
<1>4. UnbornLots'
  BY <1>1 DEF SweepInv, TypeOK, UnbornLots
<1>5. LotsWhole' /\ UnbornClaims' /\ NoLotSweptTwice'
  BY DEF SweepInv, LotsWhole, Holds, UnbornClaims, NoLotSweptTwice
<1>6. SurplusKnown'
  BY <1>1 DEF SweepInv, TypeOK, SurplusKnown
<1>7. QED
  BY <1>2, <1>3, <1>4, <1>5, <1>6 DEF SweepInv

\* The bootstrap lot is born whole, and an existing one is left as it is.
LEMMA SetupLotInsertStep ==
  ASSUME SweepInv, NEW r \in Setups, SetupLotInsert(r) PROVE SweepInv'
<1> USE DEF SetupLotInsert, At, Goto, Finish, NoSuchLot, InsertLot,
            chainVars, rowVars, lotVars, claimVars, sweepVars
<1>1. r \in Reqs /\ r \notin Floors /\ Bootstrap \in Lots /\ Bootstrap \notin Floors
  BY RequestKindsAssumption, LotNamesAssumption DEF Reqs, Lots
<1>2. seen[r] \in Locals
  BY <1>1 DEF SweepInv, TypeOK
<1>3. /\ seen[r].balance.amount - seen[r].floor \in 0..MaxRemaining
      /\ seen[r].balance.amount - seen[r].floor \in Nat
      /\ seen[r].slot \in Slots \cup {NoSlot}
  <2>1. seen[r].balance.amount > seen[r].floor
    BY <1>1 DEF SweepInv, SurplusKnown
  <2>2. seen[r].balance.amount \in Balances /\ seen[r].floor \in FloorInputs \cup {0}
    BY <1>2 DEF Locals, Balance
  <2>3. seen[r].slot \in Slots \cup {NoSlot}
    BY <1>2 DEF Locals
  <2>4. /\ seen[r].balance.amount \in Nat
        /\ seen[r].balance.amount <= MaxRemaining
        /\ seen[r].floor \in Nat
        /\ MaxRemaining \in Nat
    BY <2>2, AmountAssumption, BoundsAssumption
  <2>5. QED
    BY <2>1, <2>3, <2>4
<1>4. TypeOK'
  <2>1. pc' \in [Reqs -> Labels]
    BY <1>1 DEF SweepInv, TypeOK, Labels
  <2>2. seen' \in [Reqs -> Locals]
    BY <1>1, BlankTyped DEF SweepInv, TypeOK
  <2>3. /\ lotStatus' \in [Lots -> LotStatuses]
        /\ lotSlot' \in [Lots -> Slots \cup {NoSlot}]
        /\ original' \in [Lots -> Nat]
        /\ remaining' \in [Lots -> 0..MaxRemaining]
    BY <1>1, <1>3 DEF SweepInv, TypeOK, LotStatuses
  <2>4. QED
    BY <2>1, <2>2, <2>3 DEF SweepInv, TypeOK
<1>5. CancelOnlyWhenClosed'
  BY <1>1 DEF SweepInv, TypeOK, CancelOnlyWhenClosed, CancelLabels
<1>6. UnbornLots'
  <2>1. \A q \in Floors : pc'[q] = pc[q] /\ lotStatus'[q] = lotStatus[q]
    BY <1>1 DEF SweepInv, TypeOK, Reqs, Lots
  <2>2. QED
    BY <1>1, <2>1 DEF SweepInv, TypeOK, UnbornLots
<1>7. LotsWhole'
  BY <1>1 DEF SweepInv, TypeOK, UnbornLots, LotsWhole, Holds
<1>8. UnbornClaims' /\ NoLotSweptTwice'
  BY <1>1 DEF SweepInv, TypeOK, UnbornLots, UnbornClaims, NoLotSweptTwice
<1>9. SurplusKnown'
  BY <1>1 DEF SweepInv, TypeOK, SurplusKnown
<1>10. QED
  BY <1>4, <1>5, <1>6, <1>7, <1>8, <1>9 DEF SweepInv

-----------------------------------------------------------------------------
(* The close statement: the chain is closed, so nothing is at stake but types. *)

\* The close statement rewrites lots and claims, when the chain is closed for good.
LEMMA CancelApplyStep ==
  ASSUME SweepInv, NEW r \in Closes \cup Reconciles,
         NEW next \in {"closeDeactivate", "done", "reconcilePolicy"},
         CancelApply(r, next)
  PROVE SweepInv'
<1> USE DEF CancelApply, At, Goto, chainVars, rowVars, lotVars, claimVars, sweepVars
<1>1. r \in Reqs /\ r \notin Floors
  BY RequestKindsAssumption DEF Reqs
<1>2. onchain = "closed" /\ onchain' = "closed"
  BY <1>1 DEF SweepInv, CancelOnlyWhenClosed, CancelLabels
<1> DEFINE given == Restored(seen[r].claims)
           idle  == {l \in seen[r].lots :
                       lotStatus[l] \in {"open", "selected"} /\ remaining[l] > 0}
<1>3. PICK K \in SUBSET (given \cap idle) :
        /\ remaining' = [l \in Lots |->
              IF l \in (given \ idle) \cup K
                THEN remaining[l] + HeldOf(seen[r].claims, l)
                ELSE remaining[l]]
        /\ \A l \in Lots : remaining'[l] \in 0..MaxRemaining
        /\ lotStatus' = [l \in Lots |->
              IF l \in idle \ K THEN "suppressed"
              ELSE IF l \in (given \ idle) \cup K THEN RestoredStatus(lotStatus[l])
              ELSE lotStatus[l]]
        /\ claimStatus' = [c \in Claims |->
              IF c \in seen[r].claims THEN "released" ELSE claimStatus[c]]
  BY DEF CancelRows
<1>a. \A l \in Lots : l \in given => lotStatus[l] # "none"
  <2>1. seen[r].claims \subseteq Claims
    BY <1>1 DEF SweepInv, TypeOK, Locals
  <2>2. QED
    BY <2>1 DEF SweepInv, TypeOK, UnbornLots, Restored
<1> HIDE DEF given
<1>4. \A l \in Lots : lotStatus[l] = "none" <=> lotStatus'[l] = "none"
  BY <1>3, <1>a DEF RestoredStatus
<1>5. TypeOK'
  <2>1. pc' \in [Reqs -> Labels]
    BY <1>1 DEF SweepInv, TypeOK, Labels
  <2>2. seen' \in [Reqs -> Locals]
    BY <1>1, BlankTyped DEF SweepInv, TypeOK
  <2>3. lotStatus' \in [Lots -> LotStatuses] /\ remaining' \in [Lots -> 0..MaxRemaining]
    <3>1. lotStatus' \in [Lots -> LotStatuses]
      BY <1>3 DEF SweepInv, TypeOK, LotStatuses, RestoredStatus
    <3>2. remaining' \in [Lots -> 0..MaxRemaining]
      BY <1>3
    <3>3. QED
      BY <3>1, <3>2
  <2>4. claimStatus' \in [Claims -> ClaimStatuses]
    BY <1>3 DEF SweepInv, TypeOK, ClaimStatuses
  <2>5. QED
    BY <2>1, <2>2, <2>3, <2>4 DEF SweepInv, TypeOK
<1>6. CancelOnlyWhenClosed'
  BY <1>1, <1>2 DEF SweepInv, TypeOK, CancelOnlyWhenClosed, CancelLabels
<1>7. UnbornLots'
  <2>1. \A q \in Floors : pc'[q] = pc[q] /\ q \in Lots
    BY <1>1 DEF SweepInv, TypeOK, Reqs, Lots
  <2>2. QED
    BY <1>4, <2>1 DEF SweepInv, UnbornLots
<1>8. LotsWhole' /\ NoLotSweptTwice' /\ UnbornClaims'
  BY <1>2, <1>3 DEF SweepInv, LotsWhole, NoLotSweptTwice, UnbornClaims
<1>9. SurplusKnown'
  BY <1>1 DEF SweepInv, TypeOK, SurplusKnown
<1>10. QED
  BY <1>5, <1>6, <1>7, <1>8, <1>9 DEF SweepInv

-----------------------------------------------------------------------------
(* The floor statement.                                                     *)

\* The floor statement suppresses whole lots and opens its own lot, which is whole.
LEMMA FloorApplyStep ==
  ASSUME SweepInv, NEW r \in Floors, NEW f \in FloorInputs, FloorApply(r, f)
  PROVE SweepInv'
<1> USE DEF FloorApply, At, Goto, Finish, chainVars, rowVars, lotVars, claimVars, sweepVars
<1>1. r \in Reqs /\ r \in Lots /\ lotStatus[r] = "none"
  BY DEF SweepInv, UnbornLots, Reqs, Lots
<1>2. seen[r].balance \in Balance /\ seen[r].balance.amount \in Balances
  BY <1>1 DEF SweepInv, TypeOK, Locals, Balance
<1>3. AboveFloor(seen[r].balance.amount, f) =>
        /\ seen[r].balance.amount - f \in 0..MaxRemaining
        /\ seen[r].balance.amount - f \in Nat
  BY <1>2, AmountAssumption, BoundsAssumption DEF AboveFloor
<1>4. /\ lotStatus' = lotStatus \/ lotStatus' =
           [l \in Lots |-> IF l \in Suppressed(r) THEN "suppressed" ELSE lotStatus[l]]
           \/ lotStatus' = [l \in Lots |-> IF l \in Suppressed(r) THEN "suppressed"
                                           ELSE IF l = r THEN "open" ELSE lotStatus[l]]
  BY DEF Rebaseline
<1>5. \A l \in Lots \ {r} :
        /\ lotStatus'[l] = lotStatus[l] \/ (lotStatus[l] = "open" /\ lotStatus'[l] = "suppressed")
        /\ original'[l] = original[l]
        /\ remaining'[l] = remaining[l]
  <2>1. \A l \in Suppressed(r) : lotStatus[l] = "open"
    BY DEF Suppressed, OpenLots
  <2>2. \A l \in Lots \ {r} :
          lotStatus'[l] = lotStatus[l] \/ (lotStatus[l] = "open" /\ lotStatus'[l] = "suppressed")
    BY <1>1, <1>4, <2>1
  <2>3. \A l \in Lots \ {r} : original'[l] = original[l] /\ remaining'[l] = remaining[l]
    BY <1>1 DEF SweepInv, TypeOK, Rebaseline
  <2>4. QED
    BY <2>2, <2>3
<1>6. \/ lotStatus'[r] = "none" /\ original'[r] = original[r] /\ remaining'[r] = remaining[r]
      \/ lotStatus'[r] = "open" /\ original'[r] = remaining'[r]
  <2>1. r \notin Suppressed(r)
    BY <1>1 DEF Suppressed, OpenLots
  <2>2. CASE UNCHANGED <<slots, lotVars>>
    BY <1>1, <2>2
  <2>3. CASE FloorTargetLocked /\ seen[r].balance.slot > 0
               /\ AboveFloor(seen[r].balance.amount, f)
    BY <1>1, <2>1, <2>3 DEF SweepInv, TypeOK, Rebaseline
  <2>4. CASE FloorTargetLocked /\ ~(seen[r].balance.slot > 0
               /\ AboveFloor(seen[r].balance.amount, f))
    BY <1>1, <2>1, <2>4 DEF SweepInv, TypeOK, Rebaseline
  <2>5. QED
    BY <2>2, <2>3, <2>4
<1>7. TypeOK'
  <2>1. pc' \in [Reqs -> Labels]
    BY <1>1 DEF SweepInv, TypeOK, Labels
  <2>2. seen' \in [Reqs -> Locals]
    BY <1>1, BlankTyped DEF SweepInv, TypeOK
  <2>3. target' \in TargetRow
    BY DEF SweepInv, TypeOK, TargetRow
  <2>4. lotStatus' \in [Lots -> LotStatuses]
    BY <1>4 DEF SweepInv, TypeOK, LotStatuses
  <2>5. /\ slots' \in [Slots -> SlotStatuses]
        /\ lotSlot' \in [Lots -> Slots \cup {NoSlot}]
        /\ original' \in [Lots -> Nat]
        /\ remaining' \in [Lots -> 0..MaxRemaining]
    BY <1>1, <1>3 DEF SweepInv, TypeOK, Rebaseline, SlotStatuses
  <2>6. QED
    BY <2>1, <2>2, <2>3, <2>4, <2>5 DEF SweepInv, TypeOK
<1>8. CancelOnlyWhenClosed'
  BY <1>1 DEF SweepInv, TypeOK, TargetRow, CancelOnlyWhenClosed, CancelLabels
<1>9. UnbornLots'
  <2>1. \A q \in Floors : pc'[q] # "done" => pc[q] = pc'[q] /\ q \in Lots \ {r}
    BY <1>1 DEF SweepInv, TypeOK, Reqs, Lots
  <2>2. \A q \in Floors : pc'[q] # "done" => lotStatus'[q] = "none"
    BY <1>5, <2>1 DEF SweepInv, UnbornLots
  <2>3. \A l \in Lots : lotStatus'[l] = "none" => lotStatus[l] = "none"
    BY <1>1, <1>5
  <2>4. QED
    BY <2>2, <2>3 DEF SweepInv, UnbornLots
<1>10. LotsWhole'
  <2>1. \A c \in Claims : held[c][r] = 0 /\ swept[r] = 0
    BY <1>1 DEF SweepInv, UnbornLots
  <2>2. swept[r] = 0
    BY <1>1 DEF SweepInv, UnbornLots
  <2>3. \A c \in Claims, l \in Lots : Holds(c, l)' => Holds(c, l) /\ l # r
    BY <2>1 DEF Holds
  <2>4. SUFFICES ASSUME onchain # "closed" PROVE LotsWhole'
    BY DEF LotsWhole
  <2>5. \A l \in Lots :
          /\ lotStatus'[l] \in {"open", "suppressed"} => swept'[l] = 0
          /\ lotStatus'[l] = "open" => remaining'[l] = original'[l]
    BY <1>5, <1>6, <2>2, <2>4 DEF SweepInv, LotsWhole
  <2>6. \A c \in Claims, l \in Lots : Holds(c, l)' =>
         /\ lotStatus'[l] = "selected"
         /\ remaining'[l] = 0
         /\ held'[c][l] = original'[l]
         /\ swept'[l] = IF sent'[c] THEN original'[l] ELSE 0
    BY <1>5, <2>3, <2>4 DEF SweepInv, LotsWhole
  <2>7. \A c, d \in Claims, l \in Lots : Holds(c, l)' /\ Holds(d, l)' => c = d
    BY <2>3, <2>4 DEF SweepInv, LotsWhole
  <2>8. QED
    BY <2>5, <2>6, <2>7 DEF LotsWhole
<1>11. UnbornClaims' /\ NoLotSweptTwice'
  <2>1. swept[r] = 0
    BY <1>1 DEF SweepInv, UnbornLots
  <2>2. QED
    BY <1>5, <2>1 DEF SweepInv, UnbornClaims, NoLotSweptTwice
<1>12. SurplusKnown'
  BY <1>1 DEF SweepInv, TypeOK, SurplusKnown
<1>13. QED
  BY <1>7, <1>8, <1>9, <1>10, <1>11, <1>12 DEF SweepInv

-----------------------------------------------------------------------------
(* The chain, the projector and the worker.                                 *)

\* The chain closes for good, and the wallet moves: no row changes.
LEMMA ChainStep ==
  ASSUME SweepInv, ChainOpen \/ ChainClose \/ WalletChange PROVE SweepInv'
<1> USE DEF ChainOpen, ChainClose, WalletChange, chainVars, rowVars, lotVars, claimVars,
            sweepVars
<1>1. TypeOK'
  <2>1. onchain' \in {"none", "open", "closed"}
    BY DEF SweepInv, TypeOK
  <2>2. wallet' \in Balance
    BY BoundsAssumption DEF SweepInv, TypeOK, Balance
  <2>3. QED
    BY <2>1, <2>2 DEF SweepInv, TypeOK
<1>2. CancelOnlyWhenClosed'
  BY DEF SweepInv, CancelOnlyWhenClosed
<1>3. UnbornLots' /\ UnbornClaims' /\ SurplusKnown' /\ NoLotSweptTwice'
  BY DEF SweepInv, UnbornLots, UnbornClaims, SurplusKnown, NoLotSweptTwice
<1>4. LotsWhole'
  BY DEF SweepInv, LotsWhole, Holds
<1>5. QED
  BY <1>1, <1>2, <1>3, <1>4 DEF SweepInv

\* The projector changes the target, the policy row and the projection only.
LEMMA ProjectorStep ==
  ASSUME SweepInv, ProjectActive \/ ProjectClosed \/ Observe PROVE SweepInv'
<1> USE DEF ProjectActive, ProjectClosed, Observe, chainVars, rowVars, lotVars, claimVars,
            sweepVars
<1>1. TypeOK'
  BY DEF SweepInv, TypeOK, TargetRow, ChainStatuses
<1>2. CancelOnlyWhenClosed'
  BY DEF SweepInv, TypeOK, TargetRow, CancelOnlyWhenClosed
<1>3. UnbornLots' /\ UnbornClaims' /\ SurplusKnown' /\ NoLotSweptTwice'
  BY DEF SweepInv, UnbornLots, UnbornClaims, SurplusKnown, NoLotSweptTwice
<1>4. LotsWhole'
  BY DEF SweepInv, LotsWhole, Holds
<1>5. QED
  BY <1>1, <1>2, <1>3, <1>4 DEF SweepInv

\* A lot the worker opens from an observed increase is born whole and positive.
LEMMA ObserveSurplusStep ==
  ASSUME SweepInv, NEW o \in Observations, ObserveSurplus(o) PROVE SweepInv'
<1> USE DEF ObserveSurplus, chainVars, rowVars, lotVars, claimVars, sweepVars
<1>1. o \in Lots /\ o \notin Floors
  BY LotNamesAssumption DEF Lots
<1> DEFINE a == IF proj.amount > target.floor THEN wallet.amount - proj.amount
                                              ELSE wallet.amount - target.floor
<1>2. a \in Nat /\ a \in 0..MaxRemaining
  <2>1. /\ wallet.amount \in Balances /\ proj.amount \in Balances
        /\ target.floor \in FloorInputs \cup {0}
    BY DEF SweepInv, TypeOK, Balance, TargetRow
  <2>2. /\ wallet.amount \in Nat /\ proj.amount \in Nat /\ target.floor \in Nat
        /\ wallet.amount <= MaxRemaining /\ MaxRemaining \in Nat
    BY <2>1, AmountAssumption, BoundsAssumption
  <2>3. QED
    BY <2>2
<1>3. PICK s \in Slots : EnsureSlot(s) /\ InsertLot(o, s, a)
  OBVIOUS
<1> HIDE DEF a
<1>4. TypeOK'
  <2>1. slots' \in [Slots -> SlotStatuses]
    BY <1>3 DEF EnsureSlot, CanceledDrained, SweepInv, TypeOK, SlotStatuses
  <2>2. /\ lotStatus' \in [Lots -> LotStatuses]
        /\ lotSlot' \in [Lots -> Slots \cup {NoSlot}]
        /\ original' \in [Lots -> Nat]
        /\ remaining' \in [Lots -> 0..MaxRemaining]
    BY <1>1, <1>2, <1>3 DEF InsertLot, SweepInv, TypeOK, LotStatuses
  <2>3. QED
    BY <2>1, <2>2 DEF SweepInv, TypeOK
<1>5. CancelOnlyWhenClosed'
  BY DEF SweepInv, CancelOnlyWhenClosed
<1>6. UnbornLots'
  BY <1>1, <1>3 DEF InsertLot, SweepInv, TypeOK, UnbornLots, Lots
<1>7. LotsWhole'
  BY <1>1, <1>3 DEF InsertLot, SweepInv, TypeOK, UnbornLots, LotsWhole, Holds
<1>8. UnbornClaims' /\ SurplusKnown' /\ NoLotSweptTwice'
  BY <1>1, <1>3 DEF InsertLot, SweepInv, TypeOK, UnbornLots, UnbornClaims, SurplusKnown,
     NoLotSweptTwice
<1>9. QED
  BY <1>4, <1>5, <1>6, <1>7, <1>8 DEF SweepInv

\* A claim takes whole lots and no other claim holds them.
LEMMA WorkerClaimStep ==
  ASSUME SweepInv, NEW c \in Claims, NEW s \in Slots, WorkerClaim(c, s) PROVE SweepInv'
<1> USE DEF WorkerClaim, chainVars, rowVars, lotVars, claimVars, sweepVars
<1>1. LotsIn(s) \subseteq Lots /\ \A l \in LotsIn(s) : lotStatus[l] = "open" /\ remaining[l] > 0
  BY DEF LotsIn, OpenLots
<1>2. \A l \in Lots : remaining[l] \in Nat /\ remaining[l] \in 0..MaxRemaining
  BY BoundsAssumption DEF SweepInv, TypeOK
<1>3. TypeOK'
  <2>1. claimStatus' \in [Claims -> ClaimStatuses] /\ claimSlot' \in [Claims -> Slots \cup {NoSlot}]
    BY DEF SweepInv, TypeOK, ClaimStatuses
  <2>2. held' \in [Claims -> [Lots -> Nat]]
    BY <1>2 DEF SweepInv, TypeOK
  <2>3. lotStatus' \in [Lots -> LotStatuses] /\ slots' \in [Slots -> SlotStatuses]
    BY DEF SweepInv, TypeOK, LotStatuses, SlotStatuses
  <2>4. remaining' \in [Lots -> 0..MaxRemaining]
    BY <1>2, BoundsAssumption
  <2>5. QED
    BY <2>1, <2>2, <2>3, <2>4 DEF SweepInv, TypeOK
<1>4. CancelOnlyWhenClosed' /\ SurplusKnown'
  BY DEF SweepInv, CancelOnlyWhenClosed, SurplusKnown
<1>5. \A d \in Claims, l \in Lots :
        held'[d][l] = IF d # c THEN held[d][l] ELSE IF l \in LotsIn(s) THEN remaining[l] ELSE 0
  BY DEF SweepInv, TypeOK
<1>6. \A l \in Lots :
        /\ lotStatus'[l] = IF l \in LotsIn(s) THEN "selected" ELSE lotStatus[l]
        /\ remaining'[l] = IF l \in LotsIn(s) THEN 0 ELSE remaining[l]
  OBVIOUS
<1>7. UnbornLots'
  <2>1. \A l \in Lots : lotStatus'[l] = "none" => lotStatus[l] = "none" /\ l \notin LotsIn(s)
    BY <1>6
  <2>2. \A l \in Lots : lotStatus'[l] = "none" =>
          swept'[l] = 0 /\ \A d \in Claims : held'[d][l] = 0
    BY <1>5, <2>1 DEF SweepInv, UnbornLots
  <2>3. \A r \in Floors : pc'[r] # "done" => lotStatus'[r] = "none"
    <3>1. \A r \in Floors : r \in Lots /\ (pc[r] # "done" => lotStatus[r] = "none")
      BY DEF SweepInv, UnbornLots, Lots
    <3>2. QED
      BY <1>1, <1>6, <3>1
  <2>4. QED
    BY <2>2, <2>3 DEF UnbornLots
<1>8. LotsWhole'
  <2>1. SUFFICES ASSUME onchain # "closed" PROVE LotsWhole'
    BY DEF LotsWhole
  <2>2. \A d \in Claims, l \in Lots : Holds(d, l)' =>
           IF d = c THEN l \in LotsIn(s) ELSE Holds(d, l) /\ l \notin LotsIn(s)
    BY <1>1, <1>5, <2>1 DEF SweepInv, TypeOK, LotsWhole, Holds
  <2>3. ~sent[c]
    BY DEF SweepInv, UnbornClaims
  <2>4. \A l \in Lots :
          /\ lotStatus'[l] \in {"open", "suppressed"} => swept'[l] = 0
          /\ lotStatus'[l] = "open" => remaining'[l] = original'[l]
    BY <1>6, <2>1 DEF SweepInv, LotsWhole
  <2>5. \A d \in Claims, l \in Lots : Holds(d, l)' =>
         /\ lotStatus'[l] = "selected"
         /\ remaining'[l] = 0
         /\ held'[d][l] = original'[l]
         /\ swept'[l] = IF sent'[d] THEN original'[l] ELSE 0
    <3>1. \A l \in LotsIn(s) : remaining[l] = original[l] /\ swept[l] = 0
      BY <1>1, <2>1 DEF SweepInv, LotsWhole
    <3>2. SUFFICES ASSUME NEW d \in Claims, NEW l \in Lots, Holds(d, l)'
                   PROVE  /\ lotStatus'[l] = "selected"
                          /\ remaining'[l] = 0
                          /\ held'[d][l] = original'[l]
                          /\ swept'[l] = IF sent'[d] THEN original'[l] ELSE 0
      OBVIOUS
    <3>3. CASE d = c
      BY <1>5, <1>6, <2>2, <2>3, <3>1, <3>2, <3>3
    <3>4. CASE d # c
      BY <1>5, <1>6, <2>1, <2>2, <3>2, <3>4 DEF SweepInv, LotsWhole
    <3>5. QED
      BY <3>3, <3>4
  <2>6. \A d, e \in Claims, l \in Lots : Holds(d, l)' /\ Holds(e, l)' => d = e
    BY <2>1, <2>2 DEF SweepInv, LotsWhole
  <2>7. QED
    BY <2>4, <2>5, <2>6 DEF LotsWhole
<1>9. UnbornClaims' /\ NoLotSweptTwice'
  BY DEF SweepInv, TypeOK, UnbornClaims, NoLotSweptTwice
<1>10. QED
  BY <1>3, <1>4, <1>7, <1>8, <1>9 DEF SweepInv

\* A sweep moves the whole of each lot its claim holds, none of them moved before.
LEMMA WorkerSweepStep ==
  ASSUME SweepInv, NEW c \in Claims, WorkerSweep(c) PROVE SweepInv'
<1> USE DEF WorkerSweep, chainVars, rowVars, lotVars, claimVars, sweepVars
<1>1. \A l \in Lots :
        /\ swept'[l] = swept[l] + held[c][l]
        /\ held[c][l] \in Nat /\ swept[l] \in Nat /\ original[l] \in Nat
        /\ held[c][l] > 0 => Holds(c, l)
  BY DEF SweepInv, TypeOK, Holds
<1>2. \A l \in Lots : Holds(c, l) =>
        held[c][l] = original[l] /\ swept[l] = 0 /\ lotStatus[l] = "selected"
  BY DEF SweepInv, LotsWhole
<1>3. \A l \in Lots : swept'[l] = IF Holds(c, l) THEN original[l] ELSE swept[l]
  <2>1. TAKE l \in Lots
  <2>2. CASE Holds(c, l)
    BY <1>1, <1>2, <2>2
  <2>3. CASE ~Holds(c, l)
    <3>1. held[c][l] = 0
      BY <1>1, <2>3
    <3>2. QED
      BY <1>1, <2>3, <3>1
  <2>4. QED
    BY <2>2, <2>3
<1>4. TypeOK'
  BY <1>1 DEF SweepInv, TypeOK
<1>5. CancelOnlyWhenClosed' /\ SurplusKnown'
  BY DEF SweepInv, CancelOnlyWhenClosed, SurplusKnown
<1>6. UnbornLots'
  BY <1>2, <1>3 DEF SweepInv, UnbornLots
<1>7. LotsWhole'
  <2>1. \A d \in Claims, l \in Lots : Holds(d, l)' <=> Holds(d, l)
    BY DEF Holds
  <2>2. \A d \in Claims : sent'[d] = IF d = c THEN TRUE ELSE sent[d]
    BY DEF SweepInv, TypeOK
  <2>3. \A l \in Lots :
          /\ lotStatus'[l] \in {"open", "suppressed"} => swept'[l] = 0
          /\ lotStatus'[l] = "open" => remaining'[l] = original'[l]
    BY <1>2, <1>3 DEF SweepInv, LotsWhole
  <2>4. \A d \in Claims, l \in Lots : Holds(d, l)' =>
         /\ lotStatus'[l] = "selected"
         /\ remaining'[l] = 0
         /\ held'[d][l] = original'[l]
         /\ swept'[l] = IF sent'[d] THEN original'[l] ELSE 0
    <3> SUFFICES ASSUME NEW d \in Claims, NEW l \in Lots, Holds(d, l)'
                 PROVE  /\ lotStatus'[l] = "selected" /\ remaining'[l] = 0
                        /\ held'[d][l] = original'[l]
                        /\ swept'[l] = IF sent'[d] THEN original'[l] ELSE 0
      OBVIOUS
    <3>1. Holds(d, l)
      BY <2>1
    <3>2. /\ lotStatus[l] = "selected" /\ remaining[l] = 0 /\ held[d][l] = original[l]
          /\ swept[l] = IF sent[d] THEN original[l] ELSE 0
      BY <3>1 DEF SweepInv, LotsWhole
    <3>3. Holds(c, l) => d = c
      BY <3>1 DEF SweepInv, LotsWhole
    <3>4. CASE Holds(c, l)
      BY <1>3, <2>2, <3>2, <3>3, <3>4
    <3>5. CASE ~Holds(c, l)
      <4>1. d # c
        BY <3>1, <3>5
      <4>2. QED
        BY <1>3, <2>2, <3>2, <3>5, <4>1
    <3>6. QED
      BY <3>4, <3>5
  <2>5. \A d, e \in Claims, l \in Lots : Holds(d, l)' /\ Holds(e, l)' => d = e
    BY <2>1 DEF SweepInv, LotsWhole
  <2>6. QED
    BY <2>3, <2>4, <2>5 DEF LotsWhole
<1>8. UnbornClaims' /\ NoLotSweptTwice'
  BY <1>3 DEF SweepInv, TypeOK, UnbornClaims, NoLotSweptTwice
<1>9. QED
  BY <1>4, <1>5, <1>6, <1>7, <1>8 DEF SweepInv

\* Recording a sweep consumes lots that were moved whole.
LEMMA WorkerRecordStep ==
  ASSUME SweepInv, NEW c \in Claims, WorkerRecord(c) PROVE SweepInv'
<1> USE DEF WorkerRecord, SettleSlot, chainVars, rowVars, lotVars, claimVars, sweepVars
<1>1. \A l \in Lots : lotStatus'[l] =
        IF held[c][l] > 0 /\ lotStatus[l] = "selected" THEN "consumed" ELSE lotStatus[l]
  OBVIOUS
<1>2. TypeOK'
  BY DEF SweepInv, TypeOK, ClaimStatuses, LotStatuses, SlotStatuses
<1>3. CancelOnlyWhenClosed' /\ SurplusKnown'
  BY DEF SweepInv, CancelOnlyWhenClosed, SurplusKnown
<1>4. UnbornLots'
  BY <1>1 DEF SweepInv, UnbornLots, Lots
<1>5. LotsWhole'
  <2>1. \A d \in Claims, l \in Lots : Holds(d, l)' => Holds(d, l) /\ d # c
    BY DEF SweepInv, TypeOK, Holds
  <2>2. SUFFICES ASSUME onchain # "closed" PROVE LotsWhole'
    BY DEF LotsWhole
  <2>3. \A d \in Claims, l \in Lots : Holds(d, l)' => ~(held[c][l] > 0)
    BY <2>1, <2>2 DEF SweepInv, LotsWhole, Holds
  <2>4. QED
    BY <1>1, <2>1, <2>2, <2>3 DEF SweepInv, LotsWhole
<1>6. UnbornClaims' /\ NoLotSweptTwice'
  BY DEF SweepInv, TypeOK, UnbornClaims, NoLotSweptTwice
<1>7. QED
  BY <1>2, <1>3, <1>4, <1>5, <1>6 DEF SweepInv

\* Releasing an unsent claim makes its lots whole again.
LEMMA WorkerReleaseStep ==
  ASSUME SweepInv, NEW c \in Claims, NEW status \in {"released", "failed"},
         WorkerRelease(c, status)
  PROVE SweepInv'
<1> USE DEF WorkerRelease, SettleSlot, chainVars, rowVars, lotVars, claimVars, sweepVars
<1>1. \A l \in Lots :
        /\ lotStatus'[l] = IF held[c][l] > 0 THEN RestoredStatus(lotStatus[l]) ELSE lotStatus[l]
        /\ remaining'[l] = remaining[l] + held[c][l]
        /\ remaining[l] \in Nat /\ held[c][l] \in Nat
  BY BoundsAssumption DEF SweepInv, TypeOK
<1>2. TypeOK'
  <2>1. remaining' \in [Lots -> 0..MaxRemaining]
    OBVIOUS
  <2>2. lotStatus' \in [Lots -> LotStatuses]
    BY DEF SweepInv, TypeOK, LotStatuses, RestoredStatus
  <2>3. slots' \in [Slots -> SlotStatuses] /\ claimStatus' \in [Claims -> ClaimStatuses]
    BY DEF SweepInv, TypeOK, SlotStatuses, ClaimStatuses
  <2>4. QED
    BY <2>1, <2>2, <2>3 DEF SweepInv, TypeOK
<1>3. CancelOnlyWhenClosed' /\ SurplusKnown'
  BY DEF SweepInv, CancelOnlyWhenClosed, SurplusKnown
<1>4. UnbornLots'
  <2>1. \A l \in Lots : lotStatus[l] = "none" <=> lotStatus'[l] = "none"
    BY <1>1 DEF SweepInv, UnbornLots, RestoredStatus
  <2>2. QED
    BY <2>1 DEF SweepInv, UnbornLots, Lots
<1>5. LotsWhole'
  <2>1. \A d \in Claims, l \in Lots : Holds(d, l)' => Holds(d, l) /\ d # c
    BY DEF SweepInv, TypeOK, Holds
  <2>2. SUFFICES ASSUME onchain # "closed" PROVE LotsWhole'
    BY DEF LotsWhole
  <2>3. \A l \in Lots : held[c][l] > 0 =>
          lotStatus'[l] = "open" /\ remaining'[l] = original[l] /\ swept[l] = 0
    BY <1>1, <2>2 DEF SweepInv, LotsWhole, Holds, RestoredStatus
  <2>4. \A l \in Lots : ~(held[c][l] > 0) =>
          lotStatus'[l] = lotStatus[l] /\ remaining'[l] = remaining[l]
    BY <1>1
  <2>5. \A d \in Claims, l \in Lots : Holds(d, l)' => ~(held[c][l] > 0)
    BY <2>1, <2>2 DEF SweepInv, LotsWhole, Holds
  <2>6. \A l \in Lots :
          /\ lotStatus'[l] \in {"open", "suppressed"} => swept'[l] = 0
          /\ lotStatus'[l] = "open" => remaining'[l] = original'[l]
    BY <2>2, <2>3, <2>4 DEF SweepInv, LotsWhole
  <2>7. \A d \in Claims, l \in Lots : Holds(d, l)' =>
         /\ lotStatus'[l] = "selected"
         /\ remaining'[l] = 0
         /\ held'[d][l] = original'[l]
         /\ swept'[l] = IF sent'[d] THEN original'[l] ELSE 0
    BY <2>1, <2>2, <2>4, <2>5 DEF SweepInv, LotsWhole
  <2>8. \A d, e \in Claims, l \in Lots : Holds(d, l)' /\ Holds(e, l)' => d = e
    BY <2>1, <2>2 DEF SweepInv, LotsWhole
  <2>9. QED
    BY <2>6, <2>7, <2>8 DEF LotsWhole
<1>6. UnbornClaims' /\ NoLotSweptTwice'
  BY DEF SweepInv, TypeOK, UnbornClaims, NoLotSweptTwice
<1>7. QED
  BY <1>2, <1>3, <1>4, <1>5, <1>6 DEF SweepInv

-----------------------------------------------------------------------------
(* The specification.                                                       *)

\* A step that changes nothing keeps the invariant.
LEMMA StutterStep == ASSUME SweepInv, UNCHANGED vars PROVE SweepInv'
  BY DEF vars, chainVars, rowVars, lotVars, claimVars, sweepVars, SweepInv, TypeOK,
     CancelOnlyWhenClosed, UnbornLots, LotsWhole, Holds, UnbornClaims, SurplusKnown,
     NoLotSweptTwice

\* SweepInv is inductive.
THEOREM SweepStep == SweepInv /\ [Next]_vars => SweepInv'
<1> SUFFICES ASSUME SweepInv, [Next]_vars PROVE SweepInv'
  OBVIOUS
<1>1. CASE \E r \in Setups : Setup(r)
  BY <1>1, SetupVerifyStep, SetupReadStep, SetupUpsertStep, SetupSnapshotStep,
     SetupProjReadStep, SetupProjWriteStep, SetupLotReadStep, SetupSlotStep,
     SetupLotInsertStep DEF Setup
<1>2. CASE \E r \in Closes : Close(r)
  BY <1>2, CloseReadStep, CancelBeginStep, CancelApplyStep, CloseDeactivateStep DEF Close
<1>3. CASE \E r \in Reconciles : Reconcile(r)
  BY <1>3, ReconcileFindStep, ReconcileCheckStep, ReconcileReadStep, CancelBeginStep,
     CancelApplyStep, ReconcilePolicyStep, ReconcileTargetStep
     DEF Reconcile, ReconcileCancelApply
<1>4. CASE \E r \in Floors : Floor(r)
  BY <1>4, FloorReadStep, FloorBeginStep, FloorApplyStep DEF Floor
<1>5. CASE \E r \in Toggles : Toggle(r)
  BY <1>5, ToggleReadStep, ToggleWriteStep DEF Toggle
<1>6. CASE \E r \in Executes : Execute(r)
  BY <1>6, ExecReadStep, ExecBeginStep, ExecApplyStep DEF Execute
<1>7. CASE Environment
  BY <1>7, ChainStep, ProjectorStep, ObserveSurplusStep DEF Environment
<1>8. CASE Worker
  BY <1>8, WorkerClaimStep, WorkerSweepStep, WorkerRecordStep, WorkerReleaseStep DEF Worker
<1>9. CASE UNCHANGED vars
  BY <1>9, StutterStep
<1>10. CASE \E r \in Heals : Heal(r)
  BY <1>10, HealRefusedStep, HealPendingStep, HealWriteStep
     DEF Heal, HealFind, HealRead
<1>11. QED
  BY <1>1, <1>2, <1>3, <1>4, <1>5, <1>6, <1>7, <1>8, <1>9, <1>10 DEF Next

\* Every reachable state has its types and the strengthening holds in it.
THEOREM SweepInvariant == Spec => []SweepInv
  BY SweepInit, SweepStep, PTL DEF Spec

\* For any number of requests, claims, lots and slots, and any amounts: the
\* surplus of a lot leaves the wallet at most once.
THEOREM SweptAtMostOnce == Spec => []NoLotSweptTwice
<1>1. SweepInv => NoLotSweptTwice
  BY DEF SweepInv
<1>2. QED
  BY <1>1, SweepInvariant, PTL

\* Type correctness, for every value of the constants.
THEOREM TypeCorrect == Spec => []TypeOK
<1>1. SweepInv => TypeOK
  BY DEF SweepInv
<1>2. QED
  BY <1>1, SweepInvariant, PTL

-----------------------------------------------------------------------------
(* What is suppressed stays suppressed.                                     *)

\* The actions of the requests that write no lot.
LEMMA QuietSteps ==
  ASSUME NEW r,
         \/ SetupVerify(r) \/ SetupRead(r) \/ SetupSnapshot(r) \/ SetupProjRead(r)
         \/ SetupProjWrite(r) \/ SetupLotRead(r) \/ SetupSlot(r) \/ CancelBegin(r)
         \/ \E f \in FloorInputs : SetupUpsert(r, f)
         \/ CloseRead(r) \/ CloseDeactivate(r) \/ ReconcileFind(r) \/ ReconcileCheck(r)
         \/ ReconcileRead(r) \/ ReconcilePolicy(r) \/ ReconcileTarget(r)
         \/ FloorRead(r) \/ FloorBegin(r) \/ Toggle(r) \/ Execute(r) \/ Heal(r)
  PROVE  lotStatus' = lotStatus /\ swept' = swept
  BY DEF SetupVerify, SetupRead, SetupSnapshot, SetupProjRead, SetupProjWrite, SetupLotRead,
     SetupSlot, CancelBegin, SetupUpsert, CloseRead, CloseDeactivate, ReconcileFind,
     ReconcileCheck, ReconcileRead, ReconcilePolicy, ReconcileTarget, FloorRead, FloorBegin,
     Toggle, ToggleRead, ToggleWrite, Execute, ExecRead, ExecBegin, ExecApply,
     Heal, HealRefused, HealFind, HealRead, HealPending, HealWrite, lotVars, sweepVars

\* A suppressed lot is neither reopened nor swept by any step, whatever snapshot
\* the step works from.
LEMMA SuppressedStep ==
  ASSUME SweepInv, [Next]_vars, NEW l \in Lots, lotStatus[l] = "suppressed"
  PROVE  lotStatus'[l] = "suppressed" /\ swept'[l] = swept[l]
<1>1. CASE \E r \in Setups : Setup(r)
  <2>1. PICK r \in Setups : Setup(r)
    BY <1>1
  <2>2. CASE SetupLotInsert(r)
    BY <2>2 DEF SetupLotInsert, NoSuchLot, InsertLot, lotVars, sweepVars, SweepInv, TypeOK
  <2>3. QED
    BY <2>1, <2>2, QuietSteps DEF Setup
<1>2. ASSUME NEW r, NEW next, CancelApply(r, next)
      PROVE  lotStatus'[l] = "suppressed" /\ swept'[l] = swept[l]
  <2> DEFINE given == Restored(seen[r].claims)
             idle  == {k \in seen[r].lots :
                         lotStatus[k] \in {"open", "selected"} /\ remaining[k] > 0}
  <2>1. PICK K \in SUBSET (given \cap idle) :
          lotStatus' = [k \in Lots |->
            IF k \in idle \ K THEN "suppressed"
            ELSE IF k \in (given \ idle) \cup K THEN RestoredStatus(lotStatus[k])
            ELSE lotStatus[k]]
    BY <1>2 DEF CancelApply, CancelRows
  <2>2. QED
    BY <1>2, <2>1 DEF RestoredStatus, CancelApply, sweepVars
<1>3. CASE \E r \in Closes : Close(r)
  BY <1>2, <1>3, QuietSteps DEF Close
<1>4. CASE \E r \in Reconciles : Reconcile(r)
  BY <1>2, <1>4, QuietSteps DEF Reconcile, ReconcileCancelApply
<1>5. CASE \E r \in Floors : Floor(r)
  <2>1. PICK r \in Floors : Floor(r)
    BY <1>5
  <2>2. ASSUME NEW f \in FloorInputs, FloorApply(r, f)
        PROVE  lotStatus'[l] = "suppressed" /\ swept'[l] = swept[l]
    <3>1. l # r
      BY <2>2 DEF SweepInv, TypeOK, UnbornLots, FloorApply, At
    <3>2. lotStatus'[l] = "suppressed"
      BY <2>2, <3>1 DEF FloorApply, Rebaseline, lotVars
    <3>3. QED
      BY <2>2, <3>2 DEF FloorApply, sweepVars
  <2>3. QED
    BY <2>1, <2>2, QuietSteps DEF Floor
<1>6. CASE (\E r \in Toggles : Toggle(r)) \/ (\E r \in Executes : Execute(r))
  BY <1>6, QuietSteps
<1>7. CASE Environment
  <2>1. ASSUME NEW o \in Observations, ObserveSurplus(o)
        PROVE  lotStatus'[l] = "suppressed" /\ swept'[l] = swept[l]
    BY <2>1 DEF ObserveSurplus, InsertLot, sweepVars, SweepInv, TypeOK
  <2>2. QED
    BY <1>7, <2>1 DEF Environment, ChainOpen, ChainClose, WalletChange, ProjectActive,
       ProjectClosed, Observe, lotVars, sweepVars
<1>8. CASE Worker
  <2>1. PICK c \in Claims :
          \/ \E s \in Slots : WorkerClaim(c, s)
          \/ WorkerSweep(c) \/ WorkerRecord(c)
          \/ \E status \in {"released", "failed"} : WorkerRelease(c, status)
    BY <1>8 DEF Worker
  <2>2. CASE \E s \in Slots : WorkerClaim(c, s)
    BY <2>2 DEF WorkerClaim, LotsIn, OpenLots, sweepVars
  <2>3. CASE WorkerSweep(c)
    <3>1. held[c][l] = 0
      <4>1. held[c][l] \in Nat
        BY DEF SweepInv, TypeOK
      <4>2. claimStatus[c] = "selected" /\ onchain = "open"
        BY <2>3 DEF WorkerSweep
      <4>3. ~Holds(c, l)
        BY <4>2 DEF SweepInv, LotsWhole
      <4>4. QED
        BY <4>1, <4>2, <4>3 DEF Holds
    <3>2. QED
      BY <2>3, <3>1 DEF WorkerSweep, lotVars, SweepInv, TypeOK
  <2>4. CASE WorkerRecord(c)
    BY <2>4 DEF WorkerRecord, sweepVars
  <2>5. CASE \E status \in {"released", "failed"} : WorkerRelease(c, status)
    BY <2>5 DEF WorkerRelease, RestoredStatus, sweepVars
  <2>6. QED
    BY <2>1, <2>2, <2>3, <2>4, <2>5
<1>9. CASE UNCHANGED vars
  BY <1>9 DEF vars, lotVars, sweepVars
<1>10. CASE \E r \in Heals : Heal(r)
  BY <1>10, QuietSteps
<1>11. QED
  BY <1>1, <1>3, <1>4, <1>5, <1>6, <1>7, <1>8, <1>9, <1>10 DEF Next

\* What a floor update or a close suppressed never comes back and moves no funds.
THEOREM SuppressedForever == Spec => SuppressedIsFinal
<1>1. SweepInv /\ [Next]_vars =>
        [\A l \in Lots : lotStatus[l] = "suppressed" =>
           lotStatus'[l] = "suppressed" /\ swept'[l] = swept[l]]_vars
  BY SuppressedStep
<1>2. QED
  BY <1>1, SweepInvariant, PTL DEF Spec, SuppressedIsFinal

-----------------------------------------------------------------------------
(* A row is closed only when, and for as long as, the policy is gone.        *)

\* The steps of one request: what they do to the chain and to the status the
\* row has of it.
LEMMA ChainStatusSteps ==
  ASSUME SweepInv, NEW r \in Reqs,
         \/ r \in Setups /\ Setup(r)
         \/ r \in Closes /\ Close(r)
         \/ r \in Reconciles /\ Reconcile(r)
         \/ r \in Floors /\ Floor(r)
         \/ r \in Toggles /\ Toggle(r)
         \/ r \in Executes /\ Execute(r)
         \/ r \in Heals /\ Heal(r)
  PROVE  /\ onchain' = onchain
         /\ \/ target'.chain = target.chain
            \/ ~target.exists /\ target'.chain = "pending"
            \/ target.chain = "pending" /\ target'.chain = "active"
            \/ onchain = "closed" /\ target'.chain = "closed"
<1> USE DEF chainVars, rowVars
<1>1. target \in TargetRow
  BY DEF SweepInv, TypeOK
<1>2. CASE Setup(r)
  BY <1>1, <1>2 DEF Setup, SetupVerify, SetupRead, SetupUpsert, UpsertedTarget, SetupSnapshot,
     SetupProjRead, SetupProjWrite, SetupLotRead, SetupSlot, SetupLotInsert, TargetRow
<1>3. CASE Close(r)
  BY <1>1, <1>3 DEF Close, CloseRead, CancelBegin, CancelApply, CloseDeactivate, TargetRow
<1>4. CASE Reconcile(r) /\ ~ReconcileTarget(r)
  BY <1>4 DEF Reconcile, ReconcileFind, ReconcileCheck, ReconcileRead, CancelBegin,
     ReconcileCancelApply, CancelApply, ReconcilePolicy
<1>5. CASE ReconcileTarget(r)
  BY <1>1, <1>5 DEF ReconcileTarget, At, SweepInv, CancelOnlyWhenClosed, TargetRow
<1>6. CASE Floor(r)
  BY <1>1, <1>6 DEF Floor, FloorRead, FloorBegin, FloorApply, TargetRow
<1>7. CASE Toggle(r)
  BY <1>1, <1>7 DEF Toggle, ToggleRead, ToggleWrite, TargetRow
<1>8. CASE Execute(r)
  BY <1>8 DEF Execute, ExecRead, ExecBegin, ExecApply
<1>9. CASE Heal(r)
  BY <1>1, <1>9 DEF Heal, HealRefused, HealFind, HealRead, HealPending, HealWrite, StillPending, TargetRow
<1>10. QED
  BY <1>2, <1>3, <1>4, <1>5, <1>6, <1>7, <1>8, <1>9

\* A row that does not exist is not closed, and a closed one is closed on chain.
ClosedInv == ClosedRowIsClosedOnChain /\ (target.chain = "closed" => target.exists)

\* One step keeps ClosedInv, and keeps a closed row closed.
LEMMA ClosedStep ==
  ASSUME SweepInv, ClosedInv, [Next]_vars
  PROVE  ClosedInv' /\ (target.chain = "closed" => target'.chain = "closed")
<1>1. ASSUME NEW r \in Reqs,
         \/ r \in Setups /\ Setup(r)
         \/ r \in Closes /\ Close(r)
         \/ r \in Reconciles /\ Reconcile(r)
         \/ r \in Floors /\ Floor(r)
         \/ r \in Toggles /\ Toggle(r)
         \/ r \in Executes /\ Execute(r)
         \/ r \in Heals /\ Heal(r)
      PROVE  ClosedInv' /\ (target.chain = "closed" => target'.chain = "closed")
  <2>2. /\ onchain' = onchain
        /\ \/ target'.chain = target.chain
           \/ ~target.exists /\ target'.chain = "pending"
           \/ target.chain = "pending" /\ target'.chain = "active"
           \/ onchain = "closed" /\ target'.chain = "closed"
    BY <1>1, ChainStatusSteps
  <2>3. target.exists => target'.exists
    <3> USE <1>1 DEF rowVars, TargetRow
    <3>1. target \in TargetRow
      BY DEF SweepInv, TypeOK
    <3>2. CASE Setup(r) \/ Close(r) \/ Floor(r)
      BY <3>1, <3>2 DEF Setup, SetupVerify, SetupRead, SetupUpsert, UpsertedTarget,
         SetupSnapshot, SetupProjRead, SetupProjWrite, SetupLotRead, SetupSlot,
         SetupLotInsert, Close, CloseRead, CancelBegin, CancelApply, CloseDeactivate,
         Floor, FloorRead, FloorBegin, FloorApply
    <3>3. CASE Reconcile(r) \/ Toggle(r) \/ Execute(r) \/ Heal(r)
      BY <3>1, <3>3 DEF Reconcile, ReconcileFind, ReconcileCheck, ReconcileRead, CancelBegin,
         ReconcileCancelApply, CancelApply, ReconcilePolicy, ReconcileTarget, Toggle,
         ToggleRead, ToggleWrite, Execute, ExecRead, ExecBegin, ExecApply, Heal,
         HealRefused, HealFind, HealRead, HealPending, HealWrite
    <3>4. QED
      BY <3>2, <3>3
  <2>4. target'.chain = "closed" => target'.exists
    <3>1. CASE ReconcileTarget(r)
      <4>1. onchain = "closed" /\ target'.exists = target.exists
        BY <3>1 DEF ReconcileTarget, At, SweepInv, TypeOK, TargetRow, CancelOnlyWhenClosed
      <4>2. target.exists
        BY <3>1 DEF ReconcileTarget, At, SweepInv, CancelOnlyWhenClosed
      <4>3. QED
        BY <4>1, <4>2
    <3>2. CASE target'.chain = target.chain
      BY <2>3, <3>2 DEF ClosedInv
    <3>3. CASE onchain = "closed" /\ target'.chain = "closed" /\ ~ReconcileTarget(r)
                 /\ target'.chain # target.chain
      <4>1. ~Heal(r)
        BY <3>3 DEF Heal, HealRefused, HealFind, HealRead, HealPending, HealWrite, rowVars, SweepInv, TypeOK,
           TargetRow
      <4>2. FALSE
        BY <1>1, <3>3, <4>1 DEF Setup, SetupVerify, SetupRead, SetupUpsert, UpsertedTarget,
           SetupSnapshot, SetupProjRead, SetupProjWrite, SetupLotRead, SetupSlot,
           SetupLotInsert, Close, CloseRead, CancelBegin, CancelApply, CloseDeactivate,
           Floor, FloorRead, FloorBegin, FloorApply, Reconcile, ReconcileFind,
           ReconcileCheck, ReconcileRead, ReconcileCancelApply, ReconcilePolicy, Toggle,
           ToggleRead, ToggleWrite, Execute, ExecRead, ExecBegin, ExecApply, rowVars,
           SweepInv, TypeOK, TargetRow
      <4>3. QED
        BY <4>2
    <3>4. QED
      BY <2>2, <3>1, <3>2, <3>3
  <2>5. QED
    BY <2>2, <2>3, <2>4 DEF ClosedInv, ClosedRowIsClosedOnChain
<1>2. CASE Environment
  BY <1>2 DEF ClosedInv, ClosedRowIsClosedOnChain, Environment, ChainOpen, ChainClose,
     WalletChange, ProjectActive, ProjectClosed, Observe, ObserveSurplus, chainVars, rowVars,
     SweepInv, TypeOK, TargetRow
<1>3. CASE Worker
  BY <1>3 DEF ClosedInv, ClosedRowIsClosedOnChain, Worker, WorkerClaim, WorkerSweep,
     WorkerRecord, WorkerRelease, chainVars, rowVars
<1>4. CASE UNCHANGED vars
  BY <1>4 DEF ClosedInv, ClosedRowIsClosedOnChain, vars, chainVars, rowVars
<1>5. CASE \E r \in Setups : Setup(r)
  <2>1. PICK r \in Setups : Setup(r)
    BY <1>5
  <2>2. r \in Reqs
    BY DEF Reqs
  <2>3. QED
    BY <1>1, <2>1, <2>2
<1>6. CASE \E r \in Closes : Close(r)
  <2>1. PICK r \in Closes : Close(r)
    BY <1>6
  <2>2. r \in Reqs
    BY DEF Reqs
  <2>3. QED
    BY <1>1, <2>1, <2>2
<1>7. CASE \E r \in Reconciles : Reconcile(r)
  <2>1. PICK r \in Reconciles : Reconcile(r)
    BY <1>7
  <2>2. r \in Reqs
    BY DEF Reqs
  <2>3. QED
    BY <1>1, <2>1, <2>2
<1>8. CASE \E r \in Floors : Floor(r)
  <2>1. PICK r \in Floors : Floor(r)
    BY <1>8
  <2>2. r \in Reqs
    BY DEF Reqs
  <2>3. QED
    BY <1>1, <2>1, <2>2
<1>9. CASE \E r \in Toggles : Toggle(r)
  <2>1. PICK r \in Toggles : Toggle(r)
    BY <1>9
  <2>2. r \in Reqs
    BY DEF Reqs
  <2>3. QED
    BY <1>1, <2>1, <2>2
<1>10. CASE \E r \in Executes : Execute(r)
  <2>1. PICK r \in Executes : Execute(r)
    BY <1>10
  <2>2. r \in Reqs
    BY DEF Reqs
  <2>3. QED
    BY <1>1, <2>1, <2>2
<1>11. CASE \E r \in Heals : Heal(r)
  <2>1. PICK r \in Heals : Heal(r)
    BY <1>11
  <2>2. r \in Reqs
    BY DEF Reqs
  <2>3. QED
    BY <1>1, <2>1, <2>2
<1>12. QED
  BY <1>2, <1>3, <1>4, <1>5, <1>6, <1>7, <1>8, <1>9, <1>10, <1>11 DEF Next

\* The row of a target says "closed" only when the chain does: for any number of
\* concurrent reconciliations, closes and setups.
THEOREM ClosedRowClosedOnChain == Spec => []ClosedRowIsClosedOnChain
<1>1. Init => ClosedInv
  BY DEF Init, NoRow, ClosedInv, ClosedRowIsClosedOnChain
<1>2. SweepInv /\ ClosedInv /\ [Next]_vars => ClosedInv'
  BY ClosedStep
<1>3. ClosedInv => ClosedRowIsClosedOnChain
  BY DEF ClosedInv
<1>4. QED
  BY <1>1, <1>2, <1>3, SweepInvariant, PTL DEF Spec

\* And from then on it says so for ever.
THEOREM ClosedForever == Spec => ClosedIsFinal
<1>1. Init => ClosedInv
  BY DEF Init, NoRow, ClosedInv, ClosedRowIsClosedOnChain
<1>2. SweepInv /\ ClosedInv /\ [Next]_vars => ClosedInv'
  BY ClosedStep
<1>3. SweepInv /\ ClosedInv /\ [Next]_vars =>
        [target.chain = "closed" => target'.chain = "closed"]_vars
  BY ClosedStep
<1>4. QED
  BY <1>1, <1>2, <1>3, SweepInvariant, PTL DEF Spec, ClosedIsFinal

-----------------------------------------------------------------------------
(* The implementation of SweepOnce: every step appears, drops, moves, opens   *)
(* or closes the delegation, or does nothing.                                 *)

\* A lot that does not exist yet has no amount.
Born == \A l \in Lots : lotStatus[l] = "none" => original[l] = 0

\* The lots that are dropped.
Dropped == {l \in Lots : lotStatus[l] = "suppressed"}

\* A lot that is dropped stays dropped.
LEMMA DroppedGrows == ASSUME SweepInv, [Next]_vars PROVE Dropped \subseteq Dropped'
  BY SuppressedStep DEF Dropped

\* A step that neither creates a lot nor moves funds drops what it newly suppresses.
LEMMA DropStep ==
  ASSUME SweepInv, Born, [Next]_vars,
         onchain' = onchain, original' = original, swept' = swept,
         \A l \in Lots : lotStatus'[l] = "none" => lotStatus[l] = "none"
  PROVE  Born' /\ Promise!Next
<1>1. Dropped' = Dropped \cup Dropped' /\ Dropped' \in SUBSET Lots
  BY DroppedGrows DEF Dropped
<1>2. \E D \in SUBSET Lots : Promise!Drop(D)
  BY <1>1 DEF Promise!Drop, Dropped
<1>3. Born'
  BY DEF Born
<1>4. QED
  BY <1>2, <1>3 DEF Promise!Next

\* A step that creates the lot k with the amount n.
LEMMA AppearStep ==
  ASSUME SweepInv, Born, [Next]_vars, NEW k \in Lots, NEW n \in 1..MaxRemaining,
         lotStatus[k] = "none", lotStatus'[k] = "open",
         onchain' = onchain, swept' = swept, original' = [original EXCEPT ![k] = n],
         \A l \in Lots : lotStatus'[l] = "none" => lotStatus[l] = "none"
  PROVE  Born' /\ Promise!Next
<1>1. Dropped' = Dropped \cup Dropped' /\ Dropped' \in SUBSET Lots /\ k \notin Dropped'
  BY DroppedGrows DEF Dropped
<1>2. original \in [Lots -> Nat] /\ original[k] = 0
  BY DEF Born, SweepInv, TypeOK
<1>3. \E l \in Lots, m \in 1..MaxRemaining, D \in SUBSET Lots : Promise!Appear(l, m, D)
  BY <1>1, <1>2 DEF Promise!Appear, Dropped
<1>4. Born'
  BY <1>2 DEF Born
<1>5. QED
  BY <1>3, <1>4 DEF Promise!Next

\* The insertion of the bootstrap lot creates it, or leaves the one that exists.
LEMMA PromiseSetupLotInsert ==
  ASSUME SweepInv, Born, [Next]_vars, NEW r \in Setups, SetupLotInsert(r)
  PROVE  Born' /\ Promise!Next
<1> USE DEF SetupLotInsert, NoSuchLot, InsertLot, chainVars, lotVars, sweepVars
<1> DEFINE n == seen[r].balance.amount - seen[r].floor
<1>1. r \in Reqs /\ Bootstrap \in Lots
  BY DEF Reqs, Lots
<1>2. n \in 1..MaxRemaining
  <2>1. seen[r].balance.amount > seen[r].floor
    BY <1>1 DEF SweepInv, SurplusKnown, At
  <2>2. seen[r].balance.amount \in Balances /\ seen[r].floor \in FloorInputs \cup {0}
    BY <1>1 DEF SweepInv, TypeOK, Locals, Balance
  <2>3. /\ seen[r].balance.amount \in Nat
        /\ seen[r].balance.amount <= MaxRemaining
        /\ seen[r].floor \in Nat
        /\ MaxRemaining \in Nat
    BY <2>2, AmountAssumption, BoundsAssumption
  <2>4. QED
    BY <2>1, <2>3
<1>3. lotStatus \in [Lots -> LotStatuses]
  BY DEF SweepInv, TypeOK
<1>4. CASE lotStatus[Bootstrap] = "none"
  <2>1. /\ lotStatus' = [lotStatus EXCEPT ![Bootstrap] = "open"]
        /\ original' = [original EXCEPT ![Bootstrap] = n]
        /\ onchain' = onchain /\ swept' = swept
    BY <1>4
  <2> HIDE DEF n
  <2>2. QED
    BY <1>1, <1>2, <1>3, <1>4, <2>1, AppearStep
<1>5. CASE lotStatus[Bootstrap] # "none"
  BY <1>5, DropStep
<1>6. QED
  BY <1>4, <1>5

\* An observed increase creates the lot of its event.
LEMMA PromiseObserveSurplus ==
  ASSUME SweepInv, Born, [Next]_vars, NEW o \in Observations, ObserveSurplus(o)
  PROVE  Born' /\ Promise!Next
<1> USE DEF ObserveSurplus, chainVars, sweepVars
<1> DEFINE a == IF proj.amount > target.floor THEN wallet.amount - proj.amount
                                              ELSE wallet.amount - target.floor
<1>1. a \in 1..MaxRemaining
  <2>1. /\ wallet.amount \in Balances /\ proj.amount \in Balances
        /\ target.floor \in FloorInputs \cup {0}
    BY DEF SweepInv, TypeOK, Balance, TargetRow
  <2>2. /\ wallet.amount \in Nat /\ proj.amount \in Nat /\ target.floor \in Nat
        /\ wallet.amount <= MaxRemaining /\ MaxRemaining \in Nat
    BY <2>1, AmountAssumption, BoundsAssumption
  <2>3. QED
    BY <2>2
<1>2. \E s \in Slots : InsertLot(o, s, a)
  OBVIOUS
<1> HIDE DEF a
<1>3. /\ lotStatus' = [lotStatus EXCEPT ![o] = "open"]
      /\ original' = [original EXCEPT ![o] = a]
      /\ onchain' = onchain /\ swept' = swept /\ lotStatus[o] = "none"
  BY <1>2 DEF InsertLot
<1>4. lotStatus \in [Lots -> LotStatuses] /\ o \in Lots
  BY DEF SweepInv, TypeOK, Lots
<1>5. QED
  BY <1>1, <1>3, <1>4, AppearStep

\* A floor update drops the open lots of its snapshot and creates the rebaseline lot.
LEMMA PromiseFloorApply ==
  ASSUME SweepInv, Born, [Next]_vars, NEW r \in Floors, NEW f \in FloorInputs,
         FloorApply(r, f)
  PROVE  Born' /\ Promise!Next
<1> USE DEF FloorApply, chainVars, lotVars, sweepVars
<1>1. r \in Lots /\ r \in Reqs /\ lotStatus[r] = "none"
  BY DEF SweepInv, UnbornLots, At, Lots, Reqs
<1>2. lotStatus \in [Lots -> LotStatuses]
  BY DEF SweepInv, TypeOK
<1>3. r \notin Suppressed(r) /\ \A l \in Suppressed(r) : l \in Lots /\ lotStatus[l] = "open"
  BY <1>1 DEF Suppressed, OpenLots
<1>4. CASE ~FloorTargetLocked
  BY <1>4, DropStep
<1>5. CASE FloorTargetLocked /\ ~(seen[r].balance.slot > 0 /\ AboveFloor(seen[r].balance.amount, f))
  <2>1. /\ lotStatus' = [l \in Lots |-> IF l \in Suppressed(r) THEN "suppressed" ELSE lotStatus[l]]
        /\ original' = original
    BY <1>5 DEF Rebaseline
  <2>2. \A l \in Lots : lotStatus'[l] = "none" => lotStatus[l] = "none"
    BY <2>1
  <2>3. QED
    BY <2>1, <2>2, DropStep
<1>6. CASE FloorTargetLocked /\ seen[r].balance.slot > 0 /\ AboveFloor(seen[r].balance.amount, f)
  <2> DEFINE n == seen[r].balance.amount - f
  <2>1. n \in 1..MaxRemaining
    <3>1. seen[r].balance.amount \in Balances
      BY <1>1 DEF SweepInv, TypeOK, Locals, Balance
    <3>2. /\ seen[r].balance.amount \in Nat /\ f \in Nat
          /\ seen[r].balance.amount <= MaxRemaining /\ MaxRemaining \in Nat
      BY <3>1, AmountAssumption, BoundsAssumption
    <3>3. seen[r].balance.amount > f
      BY <1>6 DEF AboveFloor
    <3>4. QED
      BY <3>2, <3>3
  <2>2. /\ lotStatus' = [l \in Lots |-> IF l \in Suppressed(r) THEN "suppressed"
                                        ELSE IF l = r THEN "open" ELSE lotStatus[l]]
        /\ original' = [original EXCEPT ![r] = n]
    BY <1>6 DEF Rebaseline
  <2> HIDE DEF n
  <2>3. \A l \in Lots : lotStatus'[l] = "none" => lotStatus[l] = "none"
    BY <2>2
  <2>4. lotStatus'[r] = "open"
    BY <1>1, <1>3, <2>2
  <2>5. onchain' = onchain /\ swept' = swept
    OBVIOUS
  <2>6. QED
    BY <1>1, <2>1, <2>2, <2>3, <2>4, <2>5, AppearStep
<1>7. QED
  BY <1>4, <1>5, <1>6

\* The transaction of a claim moves the whole of the lots it holds.
LEMMA PromiseSweep ==
  ASSUME SweepInv, Born, NEW c \in Claims, WorkerSweep(c)
  PROVE  Born' /\ Promise!Next
<1> USE DEF WorkerSweep, lotVars, chainVars
<1> DEFINE S == {l \in Lots : Holds(c, l)}
<1>1. \A l \in Lots :
        /\ swept'[l] = swept[l] + held[c][l]
        /\ held[c][l] \in Nat /\ swept[l] \in Nat
        /\ held[c][l] > 0 => Holds(c, l)
  BY DEF SweepInv, TypeOK, Holds
<1>2. \A l \in S : /\ held[c][l] = original[l] /\ held[c][l] > 0
                   /\ swept[l] = 0 /\ lotStatus[l] = "selected"
  BY DEF SweepInv, LotsWhole, Holds
<1>3. swept' = [l \in Lots |-> IF l \in S THEN original[l] ELSE swept[l]]
  <2>1. \A l \in Lots : swept[l] + held[c][l] = IF l \in S THEN original[l] ELSE swept[l]
    <3>1. TAKE l \in Lots
    <3>2. CASE l \in S
      BY <1>1, <1>2, <3>2
    <3>3. CASE l \notin S
      <4>1. held[c][l] = 0
        BY <1>1, <3>3
      <4>2. QED
        BY <1>1, <3>3, <4>1
    <3>4. QED
      BY <3>2, <3>3
  <2>2. QED
    BY <2>1
<1>4. \A l \in S : l \notin Dropped /\ original[l] > 0 /\ swept[l] = 0
  BY <1>2 DEF Dropped
<1>5. onchain = "open" /\ onchain' = onchain /\ original' = original /\ Dropped' = Dropped
  BY DEF Dropped
<1>6. S \in SUBSET Lots
  OBVIOUS
<1> HIDE DEF S
<1>7. Promise!Move(S)
  BY <1>3, <1>4, <1>5 DEF Promise!Move, Dropped
<1>8. \E T \in SUBSET Lots : Promise!Move(T)
  BY <1>6, <1>7
<1>9. Born'
  BY <1>5 DEF Born
<1>10. QED
  BY <1>8, <1>9 DEF Promise!Next

\* What the actions of the requests that write no lot leave alone.
LEMMA QuietAmounts ==
  ASSUME NEW r,
         \/ SetupVerify(r) \/ SetupRead(r) \/ SetupSnapshot(r) \/ SetupProjRead(r)
         \/ SetupProjWrite(r) \/ SetupLotRead(r) \/ SetupSlot(r) \/ CancelBegin(r)
         \/ \E f \in FloorInputs : SetupUpsert(r, f)
         \/ CloseRead(r) \/ CloseDeactivate(r) \/ ReconcileFind(r) \/ ReconcileCheck(r)
         \/ ReconcileRead(r) \/ ReconcilePolicy(r) \/ ReconcileTarget(r)
         \/ FloorRead(r) \/ FloorBegin(r) \/ Toggle(r) \/ Execute(r) \/ Heal(r)
  PROVE  original' = original /\ onchain' = onchain
  BY DEF SetupVerify, SetupRead, SetupSnapshot, SetupProjRead, SetupProjWrite, SetupLotRead,
     SetupSlot, CancelBegin, SetupUpsert, CloseRead, CloseDeactivate, ReconcileFind,
     ReconcileCheck, ReconcileRead, ReconcilePolicy, ReconcileTarget, FloorRead, FloorBegin,
     Toggle, ToggleRead, ToggleWrite, Execute, ExecRead, ExecBegin, ExecApply,
     Heal, HealRefused, HealFind, HealRead, HealPending, HealWrite, lotVars, chainVars

\* The close statement gives claimed amounts back and drops the idle lots.
LEMMA PromiseCancel ==
  ASSUME SweepInv, Born, [Next]_vars, NEW r, NEW next, CancelApply(r, next)
  PROVE  Born' /\ Promise!Next
<1> DEFINE given == Restored(seen[r].claims)
           idle  == {k \in seen[r].lots :
                       lotStatus[k] \in {"open", "selected"} /\ remaining[k] > 0}
<1>1. PICK K \in SUBSET (given \cap idle) :
        lotStatus' = [k \in Lots |->
          IF k \in idle \ K THEN "suppressed"
          ELSE IF k \in (given \ idle) \cup K THEN RestoredStatus(lotStatus[k])
          ELSE lotStatus[k]]
  BY DEF CancelApply, CancelRows
<1>2. \A l \in Lots : lotStatus'[l] = "none" => lotStatus[l] = "none"
  BY <1>1 DEF RestoredStatus
<1>3. onchain' = onchain /\ original' = original /\ swept' = swept
  BY DEF CancelApply, chainVars, sweepVars
<1>4. QED
  BY <1>2, <1>3, DropStep

\* Every step of Earn Autodeposit is a step of SweepOnce or changes nothing there.
LEMMA PromiseStep ==
  ASSUME SweepInv, Born, [Next]_vars
  PROVE  Born' /\ [Promise!Next]_(Promise!vars)
<1>1. ASSUME NEW r, original' = original /\ onchain' = onchain,
             lotStatus' = lotStatus /\ swept' = swept
      PROVE  Born' /\ Promise!Next
  BY <1>1, DropStep
<1>2. CASE \E r \in Setups : Setup(r)
  <2>1. PICK r \in Setups : Setup(r)
    BY <1>2
  <2>2. CASE SetupLotInsert(r)
    BY <2>2, PromiseSetupLotInsert
  <2>3. CASE ~SetupLotInsert(r)
    BY <2>1, <2>3, <1>1, QuietSteps, QuietAmounts DEF Setup
  <2>4. QED
    BY <2>2, <2>3
<1>3. CASE \E r \in Closes : Close(r)
  BY <1>1, <1>3, PromiseCancel, QuietSteps, QuietAmounts DEF Close
<1>4. CASE \E r \in Reconciles : Reconcile(r)
  BY <1>1, <1>4, PromiseCancel, QuietSteps, QuietAmounts DEF Reconcile, ReconcileCancelApply
<1>5. CASE \E r \in Floors : Floor(r)
  BY <1>1, <1>5, PromiseFloorApply, QuietSteps, QuietAmounts DEF Floor
<1>6. CASE \/ \E r \in Toggles : Toggle(r)
           \/ \E r \in Executes : Execute(r)
           \/ \E r \in Heals : Heal(r)
  BY <1>1, <1>6, QuietSteps, QuietAmounts
<1>7. CASE Environment
  <2>1. CASE ChainOpen
    <3>1. Promise!Delegate
      BY <2>1 DEF ChainOpen, Promise!Delegate, lotVars, sweepVars
    <3>2. Born'
      BY <2>1 DEF ChainOpen, Born, lotVars
    <3>3. QED
      BY <3>1, <3>2 DEF Promise!Next
  <2>2. CASE ChainClose
    <3>1. Promise!Revoke
      BY <2>2 DEF ChainClose, Promise!Revoke, lotVars, sweepVars
    <3>2. Born'
      BY <2>2 DEF ChainClose, Born, lotVars
    <3>3. QED
      BY <3>1, <3>2 DEF Promise!Next
  <2>3. CASE WalletChange \/ ProjectActive \/ ProjectClosed \/ Observe
    BY <1>1, <2>3 DEF WalletChange, ProjectActive, ProjectClosed, Observe, chainVars, lotVars,
       sweepVars
  <2>4. CASE \E o \in Observations : ObserveSurplus(o)
    BY <2>4, PromiseObserveSurplus
  <2>5. QED
    BY <1>7, <2>1, <2>2, <2>3, <2>4 DEF Environment
<1>8. CASE Worker
  <2>1. PICK c \in Claims :
          \/ \E s \in Slots : WorkerClaim(c, s)
          \/ WorkerSweep(c) \/ WorkerRecord(c)
          \/ \E status \in {"released", "failed"} : WorkerRelease(c, status)
    BY <1>8 DEF Worker
  <2>2. CASE WorkerSweep(c)
    BY <2>2, PromiseSweep
  <2>3. CASE \E s \in Slots : WorkerClaim(c, s)
    BY <2>3, DropStep DEF WorkerClaim, chainVars, sweepVars
  <2>4. CASE WorkerRecord(c)
    BY <2>4, DropStep DEF WorkerRecord, chainVars, sweepVars
  <2>5. CASE \E status \in {"released", "failed"} : WorkerRelease(c, status)
    BY <2>5, DropStep DEF WorkerRelease, RestoredStatus, chainVars, sweepVars
  <2>6. QED
    BY <2>1, <2>2, <2>3, <2>4, <2>5
<1>9. CASE UNCHANGED vars
  BY <1>1, <1>9 DEF vars, chainVars, lotVars, sweepVars
<1>10. QED
  BY <1>2, <1>3, <1>4, <1>5, <1>6, <1>7, <1>8, <1>9 DEF Next

\* For any number of requests, claims, lots and amounts, the handlers, the worker
\* and the chain together implement SweepOnce.
THEOREM PromiseKept == Spec => KeepsPromise
<1>1. Init => Born /\ Promise!Init
  BY DEF Init, Born, Promise!Init
<1>2. SweepInv /\ Born /\ [Next]_vars => Born' /\ [Promise!Next]_(Promise!vars)
  BY PromiseStep
<1>3. QED
  BY <1>1, <1>2, SweepInvariant, PTL DEF Spec, KeepsPromise, Promise!Spec

-----------------------------------------------------------------------------
(* Slots: which steps write the slots, the lots or the claims, and where the  *)
(* open lots are.                                                            *)

\* The steps that change nothing a slot depends on.
Idle == UNCHANGED <<slots, lotVars, claimVars>>

\* The actions of the requests that are idle in this sense.
LEMMA IdleRequests ==
  ASSUME NEW r,
         \/ SetupVerify(r) \/ SetupRead(r) \/ SetupSnapshot(r) \/ SetupProjRead(r)
         \/ SetupProjWrite(r) \/ SetupLotRead(r) \/ CancelBegin(r)
         \/ \E f \in FloorInputs : SetupUpsert(r, f)
         \/ CloseRead(r) \/ CloseDeactivate(r) \/ ReconcileFind(r) \/ ReconcileCheck(r)
         \/ ReconcileRead(r) \/ ReconcilePolicy(r) \/ ReconcileTarget(r)
         \/ FloorRead(r) \/ FloorBegin(r) \/ Toggle(r) \/ ExecRead(r) \/ ExecBegin(r)
         \/ Heal(r)
  PROVE  Idle
  BY DEF Idle, SetupVerify, SetupRead, SetupSnapshot, SetupProjRead, SetupProjWrite,
     SetupLotRead, CancelBegin, SetupUpsert, CloseRead, CloseDeactivate, ReconcileFind,
     ReconcileCheck, ReconcileRead, ReconcilePolicy, ReconcileTarget, FloorRead, FloorBegin,
     Toggle, ToggleRead, ToggleWrite, ExecRead, ExecBegin,
     Heal, HealRefused, HealFind, HealRead, HealPending, HealWrite, lotVars, claimVars

\* The steps that are not: two of the setup, the statement of a close, a floor
\* update and an execute-now request, an observed increase, and the worker's.
SlotSteps ==
  \/ \E r \in Setups : SetupSlot(r) \/ SetupLotInsert(r)
  \/ \E r \in Closes : CancelApply(r, "closeDeactivate")
  \/ \E r \in Reconciles : ReconcileCancelApply(r)
  \/ \E r \in Floors, f \in FloorInputs : FloorApply(r, f)
  \/ \E r \in Executes : ExecApply(r)
  \/ \E o \in Observations : ObserveSurplus(o)
  \/ \E c \in Claims, s \in Slots : WorkerClaim(c, s)
  \/ \E c \in Claims : WorkerRecord(c)
  \/ \E c \in Claims, status \in {"released", "failed"} : WorkerRelease(c, status)

LEMMA StepKinds == [Next]_vars => Idle \/ SlotSteps
<1> SUFFICES ASSUME [Next]_vars PROVE Idle \/ SlotSteps
  OBVIOUS
<1>1. CASE \E r \in Setups : Setup(r)
  BY <1>1, IdleRequests DEF Setup, SlotSteps
<1>2. CASE \E r \in Closes : Close(r)
  BY <1>2, IdleRequests DEF Close, SlotSteps
<1>3. CASE \E r \in Reconciles : Reconcile(r)
  BY <1>3, IdleRequests DEF Reconcile, SlotSteps
<1>4. CASE \E r \in Floors : Floor(r)
  BY <1>4, IdleRequests DEF Floor, SlotSteps
<1>5. CASE \E r \in Executes : Execute(r)
  BY <1>5, IdleRequests DEF Execute, SlotSteps
<1>6. CASE (\E r \in Toggles : Toggle(r)) \/ (\E r \in Heals : Heal(r))
  BY <1>6, IdleRequests
<1>7. CASE Environment
  BY <1>7 DEF Environment, ChainOpen, ChainClose, WalletChange, ProjectActive, ProjectClosed,
     Observe, Idle, SlotSteps
<1>8. CASE Worker
  BY <1>8 DEF Worker, WorkerSweep, Idle, SlotSteps
<1>9. CASE UNCHANGED vars
  BY <1>9 DEF vars, Idle
<1>10. QED
  BY <1>1, <1>2, <1>3, <1>4, <1>5, <1>6, <1>7, <1>8, <1>9 DEF Next

\* What a slot returned by ensureScheduledAutodepositSlot or by the upsert of a
\* floor update was, and which other slots change with it.
LEMMA EnsuredSlot ==
  ASSUME SweepInv, NEW s \in Slots, EnsureSlot(s)
  PROVE  /\ slots'[s] = "scheduled" /\ slots[s] \in {"scheduled", "none"}
         /\ \A t \in Slots \ {s} :
              \/ slots'[t] = slots[t]
              \/ slots[t] = "scheduled" /\ slots'[t] = "canceled" /\ LotsIn(t) = {}
  BY DEF EnsureSlot, UpsertedSlot, CanceledDrained, Drained, SweepInv, TypeOK

LEMMA RebaselinedSlot ==
  ASSUME SweepInv, NEW s \in Slots, UpsertedSlot(slots, s),
         slots' = [slots EXCEPT ![s] = "scheduled"]
  PROVE  /\ slots'[s] = "scheduled" /\ slots[s] \in {"scheduled", "none"}
         /\ \A t \in Slots \ {s} : slots'[t] = slots[t]
  BY DEF UpsertedSlot, SweepInv, TypeOK

\* An execute-now request puts no slot back in the queue that was taken, done
\* with or canceled since its statement looked, and nothing else does either.
THEOREM NeverReopened == Spec => ExecuteNowNeverReopens
<1> DEFINE Gone(s) == slots[s] \in {"selected", "executed", "canceled"}
<1>1. ASSUME SweepInv, [Next]_vars, NEW s \in Slots, Gone(s)
      PROVE  slots'[s] # "requested"
  <2>1. CASE Idle
    BY <1>1, <2>1 DEF Idle
  <2>2. ASSUME NEW t \in Slots, EnsureSlot(t) PROVE slots'[s] # "requested"
    BY <1>1, <2>2, EnsuredSlot
  <2>3. CASE \E r \in Setups : SetupSlot(r) \/ SetupLotInsert(r)
    BY <1>1, <2>2, <2>3 DEF SetupSlot, SetupLotInsert
  <2>4. CASE \/ \E r \in Closes : CancelApply(r, "closeDeactivate")
             \/ \E r \in Reconciles : ReconcileCancelApply(r)
    BY <1>1, <2>4 DEF CancelApply, ReconcileCancelApply
  <2>5. CASE \E r \in Floors, f \in FloorInputs : FloorApply(r, f)
    <3>1. slots' = slots \/ \E t \in Slots : slots' = [slots EXCEPT ![t] = "scheduled"]
      BY <2>5 DEF FloorApply, Rebaseline
    <3>2. QED
      BY <1>1, <3>1 DEF SweepInv, TypeOK
  <2>6. CASE \E r \in Executes : ExecApply(r)
    BY <1>1, <2>6 DEF ExecApply, StillRequestable, Requestable, SweepInv, TypeOK
  <2>7. CASE \E o \in Observations : ObserveSurplus(o)
    BY <2>2, <2>7 DEF ObserveSurplus
  <2>8. CASE \E c \in Claims, t \in Slots : WorkerClaim(c, t)
    BY <1>1, <2>8 DEF WorkerClaim, SweepInv, TypeOK
  <2>9. CASE \/ \E c \in Claims : WorkerRecord(c)
             \/ \E c \in Claims, status \in {"released", "failed"} : WorkerRelease(c, status)
    BY <1>1, <2>9 DEF WorkerRecord, WorkerRelease, SettleSlot
  <2>10. QED
    BY <1>1, StepKinds, <2>1, <2>3, <2>4, <2>5, <2>6, <2>7, <2>8, <2>9 DEF SlotSteps
<1>2. SweepInv /\ [Next]_vars =>
        [\A s \in Slots : slots[s] \in {"selected", "executed", "canceled"} =>
           slots'[s] # "requested"]_vars
  BY <1>1
<1>3. QED
  BY <1>2, SweepInvariant, PTL DEF Spec, ExecuteNowNeverReopens

\* However often the setup confirmation is retried, and whatever it races with,
\* the initial surplus is scheduled once, with one amount and in one slot.
THEOREM BootstrappedOnce == Spec => BootstrapScheduledOnce
<1> DEFINE Same == /\ original'[Bootstrap] = original[Bootstrap]
                   /\ lotSlot'[Bootstrap] = lotSlot[Bootstrap]
<1>1. ASSUME SweepInv, [Next]_vars, lotStatus[Bootstrap] # "none"
      PROVE  Same
  <2>0. \A r \in Floors \cup Observations : r # Bootstrap
    BY LotNamesAssumption
  <2>1. CASE Idle
    BY <2>1 DEF Idle, lotVars
  <2>2. CASE \E r \in Setups : SetupSlot(r) \/ SetupLotInsert(r)
    BY <1>1, <2>2 DEF SetupSlot, SetupLotInsert, NoSuchLot, lotVars
  <2>3. CASE \/ \E r \in Closes : CancelApply(r, "closeDeactivate")
             \/ \E r \in Reconciles : ReconcileCancelApply(r)
    BY <2>3 DEF CancelApply, ReconcileCancelApply
  <2>4. CASE \E r \in Floors, f \in FloorInputs : FloorApply(r, f)
    <3>1. PICK r \in Floors, f \in FloorInputs : FloorApply(r, f)
      BY <2>4
    <3>2. \/ UNCHANGED <<lotSlot, original>>
          \/ \E s \in Slots : /\ lotSlot' = [lotSlot EXCEPT ![r] = s]
                              /\ original' = [original EXCEPT ![r] = seen[r].balance.amount - f]
      BY <3>1 DEF FloorApply, Rebaseline, lotVars
    <3>3. lotSlot \in [Lots -> Slots \cup {NoSlot}] /\ original \in [Lots -> Nat]
          /\ Bootstrap \in Lots /\ r # Bootstrap
      BY <1>1, <2>0 DEF SweepInv, TypeOK, Lots
    <3>4. QED
      BY <3>2, <3>3
  <2>5. CASE \E o \in Observations : ObserveSurplus(o)
    BY <2>0, <2>5 DEF ObserveSurplus, InsertLot
  <2>6. CASE \/ \E r \in Executes : ExecApply(r)
             \/ \E c \in Claims, t \in Slots : WorkerClaim(c, t)
             \/ \E c \in Claims : WorkerRecord(c)
             \/ \E c \in Claims, status \in {"released", "failed"} : WorkerRelease(c, status)
    BY <2>6 DEF ExecApply, WorkerClaim, WorkerRecord, WorkerRelease, lotVars
  <2>7. QED
    BY <1>1, StepKinds, <2>1, <2>2, <2>3, <2>4, <2>5, <2>6 DEF SlotSteps
<1>2. SweepInv /\ [Next]_vars =>
        [lotStatus[Bootstrap] # "none" =>
           /\ original'[Bootstrap] = original[Bootstrap]
           /\ lotSlot'[Bootstrap] = lotSlot[Bootstrap]]_vars
  BY <1>1
<1>3. QED
  BY <1>2, SweepInvariant, PTL DEF Spec, BootstrapScheduledOnce

-----------------------------------------------------------------------------
(* Where the surplus that waits is: OpenLotsScheduled.  A lot that is open in *)
(* a slot nobody looks at would wait for ever.                               *)

\* The cancel statements have not run: they start only once the chain is closed.
BeforeClose == onchain # "closed" \/ Closes \cup Reconciles = {}

\* A claim in flight has its slot, and its lots, to itself.
ClaimsInSlots ==
  /\ \A c \in Claims : claimStatus[c] = "selected" =>
       /\ claimSlot[c] \in Slots
       /\ slots[claimSlot[c]] = "selected"
       /\ \A l \in Lots : held[c][l] > 0 => lotSlot[l] = claimSlot[c]
  /\ \A c, d \in Claims :
       /\ claimStatus[c] = "selected" /\ claimStatus[d] = "selected"
       /\ claimSlot[c] = claimSlot[d]
       => c = d

\* A slot from which the worker, or an execute-now request, can take a lot.
Takable(s) == s \in Slots /\ slots[s] \in {"scheduled", "requested", "failed", "released"}

\* A lot that waits is in such a slot, unless it is the bootstrap lot, whose slot
\* is read by one statement and used by a later one.
LotsWaitInSlots ==
  BeforeClose => \A l \in OpenLots : l # Bootstrap => Takable(lotSlot[l])

SlotInv == ClaimsInSlots /\ LotsWaitInSlots

\* A closed policy stays closed.
LEMMA GoneForGood ==
  ASSUME SweepInv, [Next]_vars PROVE BeforeClose' => BeforeClose
<1>1. ASSUME onchain = "closed" PROVE onchain' = "closed"
  <2>1. CASE Environment
    BY <1>1, <2>1 DEF Environment, ChainOpen, ChainClose, WalletChange, ProjectActive,
       ProjectClosed, Observe, ObserveSurplus, chainVars
  <2>2. CASE Worker
    BY <1>1, <2>2 DEF Worker, WorkerClaim, WorkerSweep, WorkerRecord, WorkerRelease, chainVars
  <2>3. CASE UNCHANGED vars
    BY <1>1, <2>3 DEF vars, chainVars
  <2>4. CASE ~Environment /\ ~Worker /\ ~UNCHANGED vars
    <3>1. PICK r \in Reqs :
            \/ r \in Setups /\ Setup(r)
            \/ r \in Closes /\ Close(r)
            \/ r \in Reconciles /\ Reconcile(r)
            \/ r \in Floors /\ Floor(r)
            \/ r \in Toggles /\ Toggle(r)
            \/ r \in Executes /\ Execute(r)
            \/ r \in Heals /\ Heal(r)
      BY <2>4 DEF Next, Reqs
    <3>2. QED
      BY <1>1, <3>1, ChainStatusSteps
  <2>5. QED
    BY <2>1, <2>2, <2>3, <2>4
<1>2. QED
  BY <1>1 DEF BeforeClose

\* A new open lot k in the scheduled slot s, next to those of before.
LEMMA NewLotWaits ==
  ASSUME SweepInv, SlotInv, NEW k \in Lots, NEW s \in Slots,
         lotStatus[k] = "none", UNCHANGED claimVars, BeforeClose' => BeforeClose,
         lotSlot' = [lotSlot EXCEPT ![k] = s],
         slots'[s] = "scheduled", slots[s] \in {"scheduled", "none"},
         \A t \in Slots \ {s} :
           \/ slots'[t] = slots[t]
           \/ slots[t] = "scheduled" /\ slots'[t] = "canceled" /\ LotsIn(t) = {},
         \A l \in Lots : l \in OpenLots' => l = k \/ l \in OpenLots
  PROVE  SlotInv'
<1>1. ClaimsInSlots'
  <2>1. \A c \in Claims : claimStatus[c] = "selected" =>
          claimSlot[c] \in Slots /\ slots'[claimSlot[c]] = "selected"
    BY DEF SlotInv, ClaimsInSlots
  <2>2. \A c \in Claims, l \in Lots :
          claimStatus[c] = "selected" /\ held[c][l] > 0 => lotSlot'[l] = claimSlot[c]
    <3>1. \A c \in Claims : held[c][k] = 0
      BY DEF SweepInv, UnbornLots
    <3>2. QED
      BY <3>1 DEF SlotInv, ClaimsInSlots, SweepInv, TypeOK
  <2>3. QED
    BY <2>1, <2>2 DEF SlotInv, ClaimsInSlots, claimVars
<1>2. ASSUME BeforeClose', NEW l \in OpenLots', l # Bootstrap PROVE Takable(lotSlot[l])'
  <2>0. l \in Lots
    BY <1>2 DEF OpenLots
  <2>1. CASE l = k
    BY <2>0, <2>1 DEF Takable, SweepInv, TypeOK
  <2>2. CASE l # k
    <3>1. l \in OpenLots /\ lotSlot'[l] = lotSlot[l] /\ Takable(lotSlot[l])
      BY <1>2, <2>0, <2>2 DEF SlotInv, LotsWaitInSlots, SweepInv, TypeOK
    <3>2. l \in LotsIn(lotSlot[l])
      BY <3>1 DEF LotsIn
    <3>3. QED
      BY <3>1, <3>2 DEF Takable
  <2>3. QED
    BY <2>1, <2>2
<1>3. QED
  BY <1>1, <1>2 DEF SlotInv, LotsWaitInSlots

\* A slot is only ensured, as by a setup that goes on to its lot.
LEMMA EnsureWaits ==
  ASSUME SweepInv, SlotInv, NEW s \in Slots, EnsureSlot(s), UNCHANGED <<lotVars, claimVars>>,
         BeforeClose' => BeforeClose
  PROVE  SlotInv'
<1>1. /\ slots'[s] = "scheduled" /\ slots[s] \in {"scheduled", "none"}
      /\ \A t \in Slots \ {s} :
           \/ slots'[t] = slots[t]
           \/ slots[t] = "scheduled" /\ slots'[t] = "canceled" /\ LotsIn(t) = {}
  BY EnsuredSlot
<1>2. ClaimsInSlots'
  <2>1. \A c \in Claims : claimStatus[c] = "selected" =>
          claimSlot[c] \in Slots /\ slots'[claimSlot[c]] = "selected"
    BY <1>1 DEF SlotInv, ClaimsInSlots
  <2>2. QED
    BY <2>1 DEF SlotInv, ClaimsInSlots, claimVars, lotVars
<1>3. ASSUME BeforeClose', NEW l \in OpenLots', l # Bootstrap PROVE Takable(lotSlot[l])'
  <2>1. l \in OpenLots /\ lotSlot' = lotSlot /\ Takable(lotSlot[l]) /\ l \in LotsIn(lotSlot[l])
    BY <1>3 DEF SlotInv, LotsWaitInSlots, OpenLots, LotsIn, lotVars
  <2>2. QED
    BY <1>1, <2>1 DEF Takable
<1>4. QED
  BY <1>2, <1>3 DEF SlotInv, LotsWaitInSlots

\* The floor update adds its rebaseline lot to the scheduled slot, or none.
LEMMA FloorWaits ==
  ASSUME SweepInv, SlotInv, NEW r \in Floors, NEW f \in FloorInputs, FloorApply(r, f),
         BeforeClose' => BeforeClose
  PROVE  SlotInv'
<1>1. r \in Lots /\ r \in Reqs /\ lotStatus[r] = "none" /\ UNCHANGED claimVars
  BY DEF FloorApply, SweepInv, UnbornLots, At, Lots, Reqs
<1>2. lotStatus \in [Lots -> LotStatuses] /\ remaining \in [Lots -> 0..MaxRemaining]
  BY DEF SweepInv, TypeOK
<1>3. CASE /\ UNCHANGED <<slots, lotSlot, remaining>>
           /\ \A l \in Lots : lotStatus'[l] = "open" => lotStatus[l] = "open"
  <2>1. ClaimsInSlots'
    BY <1>1, <1>3 DEF SlotInv, ClaimsInSlots, claimVars
  <2>2. OpenLots' \subseteq OpenLots
    BY <1>3 DEF OpenLots
  <2>3. LotsWaitInSlots'
    BY <1>3, <2>2 DEF SlotInv, LotsWaitInSlots, Takable
  <2>4. QED
    BY <2>1, <2>3 DEF SlotInv
<1>4. CASE \E s \in Slots :
             /\ UpsertedSlot(slots, s)
             /\ slots' = [slots EXCEPT ![s] = "scheduled"]
             /\ lotSlot' = [lotSlot EXCEPT ![r] = s]
             /\ lotStatus' = [l \in Lots |-> IF l \in Suppressed(r) THEN "suppressed"
                                             ELSE IF l = r THEN "open" ELSE lotStatus[l]]
             /\ remaining' = [remaining EXCEPT ![r] = seen[r].balance.amount - f]
  <2>1. PICK s \in Slots :
          /\ UpsertedSlot(slots, s)
          /\ slots' = [slots EXCEPT ![s] = "scheduled"]
          /\ lotSlot' = [lotSlot EXCEPT ![r] = s]
          /\ lotStatus' = [l \in Lots |-> IF l \in Suppressed(r) THEN "suppressed"
                                          ELSE IF l = r THEN "open" ELSE lotStatus[l]]
          /\ remaining' = [remaining EXCEPT ![r] = seen[r].balance.amount - f]
    BY <1>4
  <2>2. \A l \in Lots : l \in OpenLots' => l = r \/ l \in OpenLots
    BY <1>2, <2>1 DEF OpenLots
  <2>3. /\ slots'[s] = "scheduled" /\ slots[s] \in {"scheduled", "none"}
        /\ \A t \in Slots \ {s} : slots'[t] = slots[t]
    BY <2>1, RebaselinedSlot
  <2>4. QED
    BY <1>1, <2>1, <2>2, <2>3, NewLotWaits
<1>5. QED
  <2>1. CASE ~FloorTargetLocked
    BY <1>3, <2>1 DEF FloorApply, lotVars
  <2>2. CASE FloorTargetLocked /\ ~(seen[r].balance.slot > 0
                                    /\ AboveFloor(seen[r].balance.amount, f))
    BY <1>3, <2>2 DEF FloorApply, Rebaseline
  <2>3. CASE FloorTargetLocked /\ seen[r].balance.slot > 0
               /\ AboveFloor(seen[r].balance.amount, f)
    BY <1>4, <2>3 DEF FloorApply, Rebaseline
  <2>4. QED
    BY <2>1, <2>2, <2>3

\* The worker takes the lots of a slot and marks the slot.
LEMMA ClaimWaits ==
  ASSUME SweepInv, SlotInv, NEW c \in Claims, NEW s \in Slots, WorkerClaim(c, s),
         BeforeClose' => BeforeClose
  PROVE  SlotInv'
<1> USE DEF WorkerClaim
<1>1. /\ slots \in [Slots -> SlotStatuses] /\ claimStatus \in [Claims -> ClaimStatuses]
      /\ claimSlot \in [Claims -> Slots \cup {NoSlot}]
      /\ held \in [Claims -> [Lots -> Nat]]
  BY DEF SweepInv, TypeOK
<1>2. /\ slots[s] \in {"scheduled", "requested"} /\ slots'[s] = "selected"
      /\ \A t \in Slots \ {s} : slots'[t] = slots[t]
      /\ claimStatus'[c] = "selected" /\ claimSlot'[c] = s
      /\ \A d \in Claims \ {c} : /\ claimStatus'[d] = claimStatus[d]
                                 /\ claimSlot'[d] = claimSlot[d] /\ held'[d] = held[d]
      /\ held'[c] = [l \in Lots |-> IF l \in LotsIn(s) THEN remaining[l] ELSE 0]
      /\ lotSlot' = lotSlot
  BY <1>1
<1>3. \A d \in Claims \ {c} : claimStatus[d] = "selected" =>
        /\ claimSlot[d] \in Slots /\ claimSlot[d] # s
        /\ slots'[claimSlot[d]] = "selected"
        /\ \A l \in Lots : held'[d][l] > 0 => lotSlot'[l] = claimSlot[d]
  BY <1>2 DEF SlotInv, ClaimsInSlots
<1>4. \A l \in Lots : held'[c][l] > 0 => lotSlot'[l] = s
  BY <1>2 DEF LotsIn
<1>5. ClaimsInSlots'
  <2>1. ASSUME NEW d \in Claims, claimStatus'[d] = "selected"
        PROVE  /\ claimSlot'[d] \in Slots
               /\ slots'[claimSlot'[d]] = "selected"
               /\ \A l \in Lots : held'[d][l] > 0 => lotSlot'[l] = claimSlot'[d]
    <3>1. CASE d = c
      BY <1>2, <1>4, <3>1
    <3>2. CASE d # c
      BY <1>2, <1>3, <2>1, <3>2
    <3>3. QED
      BY <3>1, <3>2
  <2>2. ASSUME NEW d \in Claims, NEW e \in Claims, claimStatus'[d] = "selected",
               claimStatus'[e] = "selected", claimSlot'[d] = claimSlot'[e]
        PROVE  d = e
    BY <1>2, <1>3, <2>2 DEF SlotInv, ClaimsInSlots
  <2>3. QED
    BY <2>1, <2>2 DEF ClaimsInSlots
<1>6. ASSUME BeforeClose', NEW l \in OpenLots', l # Bootstrap PROVE Takable(lotSlot[l])'
  <2>1. l \in OpenLots /\ l \notin LotsIn(s)
    <3>1. l \in Lots /\ lotStatus'[l] = "open"
      BY <1>6 DEF OpenLots
    <3>2. l \notin LotsIn(s)
      BY <3>1
    <3>3. QED
      BY <1>6, <3>1, <3>2 DEF OpenLots
  <2>2. Takable(lotSlot[l]) /\ lotSlot[l] # s
    BY <1>6, <2>1 DEF SlotInv, LotsWaitInSlots, LotsIn
  <2>3. QED
    BY <1>2, <2>2 DEF Takable
<1>7. QED
  BY <1>5, <1>6 DEF SlotInv, LotsWaitInSlots

\* The worker settles a claim and its slot; the lots it gives back wait there.
LEMMA SettleWaits ==
  ASSUME SweepInv, SlotInv, NEW c \in Claims, NEW status \in {"executed", "released", "failed"},
         claimStatus[c] = "selected", SettleSlot(c, status),
         claimStatus' = [claimStatus EXCEPT ![c] = status],
         UNCHANGED <<claimSlot, held, lotSlot>>, BeforeClose' => BeforeClose,
         \A l \in OpenLots' : l \in OpenLots \/ (status # "executed" /\ held[c][l] > 0)
  PROVE  SlotInv'
<1> DEFINE s == claimSlot[c]
<1>1. /\ slots \in [Slots -> SlotStatuses] /\ claimStatus \in [Claims -> ClaimStatuses]
  BY DEF SweepInv, TypeOK
<1>2. /\ s \in Slots /\ slots[s] = "selected" /\ slots'[s] = status
      /\ \A t \in Slots \ {s} : slots'[t] = slots[t]
      /\ claimStatus'[c] # "selected"
      /\ \A d \in Claims \ {c} : claimStatus'[d] = claimStatus[d]
  BY <1>1 DEF SlotInv, ClaimsInSlots, SettleSlot
<1>3. \A d \in Claims \ {c} : claimStatus[d] = "selected" => claimSlot[d] # s
  BY DEF SlotInv, ClaimsInSlots
<1>4. ClaimsInSlots'
  BY <1>2, <1>3 DEF SlotInv, ClaimsInSlots
<1>5. ASSUME BeforeClose', NEW l \in OpenLots', l # Bootstrap PROVE Takable(lotSlot[l])'
  <2>1. CASE l \in OpenLots
    BY <1>2, <1>5, <2>1 DEF SlotInv, LotsWaitInSlots, Takable
  <2>2. CASE status # "executed" /\ held[c][l] > 0
    <3>1. l \in Lots
      BY <1>5 DEF OpenLots
    <3>2. lotSlot[l] = s
      BY <2>2, <3>1 DEF SlotInv, ClaimsInSlots
    <3>3. QED
      BY <1>2, <2>2, <3>2 DEF Takable
  <2>3. QED
    BY <2>1, <2>2
<1>6. QED
  BY <1>4, <1>5 DEF SlotInv, LotsWaitInSlots

\* The statement of a close runs only when the chain is closed.
LEMMA CancelWaits ==
  ASSUME SweepInv, SlotInv, NEW r \in Closes \cup Reconciles, NEW next, CancelApply(r, next)
  PROVE  SlotInv'
<1>1. onchain' = "closed"
  BY DEF CancelApply, At, SweepInv, CancelOnlyWhenClosed, CancelLabels, Reqs, chainVars
<1>2. ~BeforeClose'
  BY <1>1 DEF BeforeClose
<1>3. \A c \in Claims : claimStatus'[c] = "selected" => claimStatus[c] = "selected"
  BY DEF CancelApply, CancelRows
<1>4. UNCHANGED <<slots, lotSlot, claimSlot, held>>
  BY DEF CancelApply
<1>5. ClaimsInSlots'
  BY <1>3, <1>4 DEF SlotInv, ClaimsInSlots
<1>6. QED
  BY <1>2, <1>5 DEF SlotInv, LotsWaitInSlots

\* SlotInv is inductive, given SweepInv.
LEMMA SlotStep ==
  ASSUME SweepInv, SlotInv, [Next]_vars
  PROVE  SlotInv'
<1>0. BeforeClose' => BeforeClose
  BY GoneForGood
<1>1. CASE Idle
  BY <1>0, <1>1 DEF Idle, SlotInv, ClaimsInSlots, LotsWaitInSlots, Takable, OpenLots, lotVars,
     claimVars
<1>2. CASE \E r \in Setups : SetupSlot(r) \/ SetupLotInsert(r)
  <2>1. PICK r \in Setups : SetupSlot(r) \/ SetupLotInsert(r)
    BY <1>2
  <2>2. CASE SetupSlot(r)
    BY <1>0, <2>2, EnsureWaits DEF SetupSlot
  <2>3. CASE SetupLotInsert(r) /\ lotStatus[Bootstrap] # "none"
    BY <1>0, <2>3 DEF SetupLotInsert, NoSuchLot, SlotInv, ClaimsInSlots, LotsWaitInSlots,
       Takable, OpenLots, lotVars, claimVars
  <2>4. CASE SetupLotInsert(r) /\ lotStatus[Bootstrap] = "none"
    <3>1. /\ \A l \in Lots \ {Bootstrap} : /\ lotStatus'[l] = lotStatus[l]
                                           /\ lotSlot'[l] = lotSlot[l]
                                           /\ remaining'[l] = remaining[l]
          /\ UNCHANGED <<slots, claimVars>>
      BY <2>4 DEF SetupLotInsert, NoSuchLot, InsertLot, SweepInv, TypeOK
    <3>2. \A c \in Claims : held[c][Bootstrap] = 0
      BY <2>4 DEF SweepInv, UnbornLots, Lots
    <3>3. ClaimsInSlots'
      BY <3>1, <3>2 DEF SlotInv, ClaimsInSlots, claimVars
    <3>4. LotsWaitInSlots'
      BY <1>0, <3>1 DEF SlotInv, LotsWaitInSlots, OpenLots, Takable
    <3>5. QED
      BY <3>3, <3>4 DEF SlotInv
  <2>5. QED
    BY <2>1, <2>2, <2>3, <2>4
<1>3. CASE \/ \E r \in Closes : CancelApply(r, "closeDeactivate")
           \/ \E r \in Reconciles : ReconcileCancelApply(r)
  BY <1>3, CancelWaits DEF ReconcileCancelApply
<1>4. CASE \E r \in Floors, f \in FloorInputs : FloorApply(r, f)
  BY <1>0, <1>4, FloorWaits
<1>5. CASE \E r \in Executes : ExecApply(r)
  <2>1. \/ slots' = slots
        \/ \E s \in Slots : slots[s] \in Requestable /\ slots' = [slots EXCEPT ![s] = "requested"]
    <3>1. PICK r \in Executes : ExecApply(r)
      BY <1>5
    <3>2. seen[r].slots \subseteq Slots
      BY DEF SweepInv, TypeOK, Locals, Reqs
    <3>3. QED
      BY <3>1, <3>2 DEF ExecApply, StillRequestable
  <2>2. UNCHANGED <<lotVars, claimVars>>
    BY <1>5 DEF ExecApply
  <2>3. slots \in [Slots -> SlotStatuses]
    BY DEF SweepInv, TypeOK
  <2>4. ClaimsInSlots'
    BY <2>1, <2>2, <2>3 DEF SlotInv, ClaimsInSlots, Requestable, lotVars, claimVars
  <2>5. \A s : Takable(s) => Takable(s)'
    BY <2>1, <2>3 DEF Takable
  <2>6. LotsWaitInSlots'
    BY <1>0, <2>2, <2>1, <2>3 DEF SlotInv, LotsWaitInSlots, OpenLots, lotVars, Takable
  <2>7. QED
    BY <2>4, <2>6 DEF SlotInv
<1>6. CASE \E o \in Observations : ObserveSurplus(o)
  <2>1. PICK o \in Observations : ObserveSurplus(o)
    BY <1>6
  <2>2. PICK s \in Slots : EnsureSlot(s) /\ lotSlot' = [lotSlot EXCEPT ![o] = s]
    BY <2>1 DEF ObserveSurplus, InsertLot
  <2>3. o \in Lots /\ lotStatus[o] = "none" /\ UNCHANGED claimVars
    BY <2>1 DEF ObserveSurplus, Lots
  <2>4. \A l \in Lots : l \in OpenLots' => l = o \/ l \in OpenLots
    BY <2>1 DEF ObserveSurplus, InsertLot, OpenLots, SweepInv, TypeOK
  <2>5. /\ slots'[s] = "scheduled" /\ slots[s] \in {"scheduled", "none"}
        /\ \A t \in Slots \ {s} :
             \/ slots'[t] = slots[t]
             \/ slots[t] = "scheduled" /\ slots'[t] = "canceled" /\ LotsIn(t) = {}
    BY <2>2, EnsuredSlot
  <2>6. QED
    BY <1>0, <2>2, <2>3, <2>4, <2>5, NewLotWaits
<1>7. CASE \E c \in Claims, s \in Slots : WorkerClaim(c, s)
  BY <1>0, <1>7, ClaimWaits
<1>8. CASE \E c \in Claims : WorkerRecord(c)
  <2>1. PICK c \in Claims : WorkerRecord(c)
    BY <1>8
  <2>2. OpenLots' \subseteq OpenLots
    BY <2>1 DEF WorkerRecord, OpenLots
  <2>3. QED
    <3>1. /\ claimStatus[c] = "selected" /\ SettleSlot(c, "executed")
          /\ claimStatus' = [claimStatus EXCEPT ![c] = "executed"]
          /\ UNCHANGED <<claimSlot, held, lotSlot>>
          /\ \A l \in OpenLots' : l \in OpenLots
      BY <2>1, <2>2 DEF WorkerRecord
    <3>2. PICK status \in {"executed", "released", "failed"} : status = "executed"
      OBVIOUS
    <3>3. SettleSlot(c, status) /\ claimStatus' = [claimStatus EXCEPT ![c] = status]
      BY <3>1, <3>2
    <3>4. QED
      BY <1>0, <3>1, <3>3, SettleWaits
<1>9. CASE \E c \in Claims, status \in {"released", "failed"} : WorkerRelease(c, status)
  <2>1. PICK c \in Claims, status \in {"released", "failed"} : WorkerRelease(c, status)
    BY <1>9
  <2>2. \A l \in Lots : held[c][l] \in Nat /\ remaining[l] \in Nat
    BY BoundsAssumption DEF SweepInv, TypeOK
  <2>3. \A l \in OpenLots' : l \in OpenLots \/ (status # "executed" /\ held[c][l] > 0)
    <3>1. TAKE l \in OpenLots'
    <3>2. l \in Lots /\ lotStatus'[l] = "open" /\ remaining'[l] > 0
      BY DEF OpenLots
    <3>3. held[c][l] > 0 \/ held[c][l] = 0
      BY <2>2, <3>2
    <3>4. CASE held[c][l] > 0
      BY <3>4
    <3>5. CASE held[c][l] = 0
      <4>1. lotStatus'[l] = lotStatus[l] /\ remaining'[l] = remaining[l]
        BY <2>1, <2>2, <3>2, <3>5 DEF WorkerRelease
      <4>2. l \in OpenLots
        BY <3>2, <4>1 DEF OpenLots
      <4>3. QED
        BY <4>2
    <3>6. QED
      BY <3>3, <3>4, <3>5
  <2>4. QED
    BY <1>0, <2>1, <2>3, SettleWaits DEF WorkerRelease
<1>10. QED
  BY StepKinds, <1>1, <1>2, <1>3, <1>4, <1>5, <1>6, <1>7, <1>8, <1>9 DEF SlotSteps

LEMMA SlotInvariant == Spec => []SlotInv
<1>1. Init => SlotInv
  BY DEF Init, SlotInv, ClaimsInSlots, LotsWaitInSlots, OpenLots
<1>2. SweepInv /\ SlotInv /\ [Next]_vars => SlotInv'
  BY SlotStep
<1>3. QED
  BY <1>1, <1>2, SweepInvariant, PTL DEF Spec

\* With the policy on chain, or with no close at all, the bootstrap lot is the
\* only one that can be open in a slot nobody looks at: the loss the setup
\* confirmation risks is the only one of its kind.
THEOREM OnlyBootstrapStrands ==
  Spec => [](BeforeClose => \A l \in OpenLots : l # Bootstrap => Takable(lotSlot[l]))
<1>1. SlotInv => (BeforeClose => \A l \in OpenLots : l # Bootstrap => Takable(lotSlot[l]))
  BY DEF SlotInv, LotsWaitInSlots
<1>2. QED
  BY <1>1, SlotInvariant, PTL

\* The setup is confirmed by one request only: no retry, no second tab.
OneSetup == \A q, r \in Setups : q = r

\* That request creates the row, which is pending, and schedules nothing.
NoBootstrap ==
  /\ lotStatus[Bootstrap] = "none"
  /\ \A r \in Setups :
       /\ pc[r] \in {"idle", "setupRead", "setupUpsert", "done"}
       /\ pc[r] # "done" => ~target.exists

\* Nobody but the setup creates the bootstrap lot.
LEMMA BootstrapUnborn ==
  ASSUME SweepInv, [Next]_vars, lotStatus[Bootstrap] = "none",
         ~ \E r \in Setups : SetupLotInsert(r)
  PROVE  lotStatus'[Bootstrap] = "none"
<1>1. /\ lotStatus \in [Lots -> LotStatuses] /\ Bootstrap \in Lots
      /\ \A c \in Claims : held[c][Bootstrap] = 0
      /\ \A r \in Floors \cup Observations : r # Bootstrap
  BY LotNamesAssumption DEF SweepInv, TypeOK, UnbornLots, Lots
<1>2. ASSUME NEW r \in Closes \cup Reconciles, NEW next, CancelApply(r, next)
      PROVE  lotStatus'[Bootstrap] = "none"
  <2> DEFINE given == Restored(seen[r].claims)
             idle  == {k \in seen[r].lots :
                         lotStatus[k] \in {"open", "selected"} /\ remaining[k] > 0}
  <2>1. PICK K \in SUBSET (given \cap idle) :
          lotStatus' = [k \in Lots |->
            IF k \in idle \ K THEN "suppressed"
            ELSE IF k \in (given \ idle) \cup K THEN RestoredStatus(lotStatus[k])
            ELSE lotStatus[k]]
    BY <1>2 DEF CancelApply, CancelRows
  <2>2. Bootstrap \notin idle
    OBVIOUS
  <2>3. seen[r].claims \subseteq Claims
    BY DEF SweepInv, TypeOK, Locals, Reqs
  <2>4. Bootstrap \notin given
    BY <1>1, <2>3 DEF Restored
  <2>5. QED
    BY <1>1, <2>1, <2>2, <2>4
<1>3. CASE Idle
  BY <1>3 DEF Idle, lotVars
<1>4. CASE \/ \E r \in Closes : CancelApply(r, "closeDeactivate")
           \/ \E r \in Reconciles : ReconcileCancelApply(r)
  BY <1>2, <1>4 DEF ReconcileCancelApply
<1>5. CASE \/ \E r \in Setups : SetupSlot(r)
           \/ \E r \in Executes : ExecApply(r)
  BY <1>5 DEF SetupSlot, ExecApply, lotVars
<1>6. CASE \E r \in Floors, f \in FloorInputs : FloorApply(r, f)
  <2>1. PICK r \in Floors, f \in FloorInputs : FloorApply(r, f)
    BY <1>6
  <2>2. Bootstrap \notin Suppressed(r)
    BY DEF Suppressed, OpenLots
  <2>3. QED
    BY <1>1, <2>1, <2>2 DEF FloorApply, Rebaseline, lotVars
<1>7. CASE \E o \in Observations : ObserveSurplus(o)
  BY <1>1, <1>7 DEF ObserveSurplus, InsertLot
<1>8. CASE \E c \in Claims, s \in Slots : WorkerClaim(c, s)
  BY <1>1, <1>8 DEF WorkerClaim, LotsIn, OpenLots
<1>9. CASE \/ \E c \in Claims : WorkerRecord(c)
           \/ \E c \in Claims, status \in {"released", "failed"} : WorkerRelease(c, status)
  BY <1>1, <1>9 DEF WorkerRecord, WorkerRelease
<1>10. QED
  BY StepKinds, <1>3, <1>4, <1>5, <1>6, <1>7, <1>8, <1>9 DEF SlotSteps

LEMMA NoBootstrapStep ==
  ASSUME OneSetup, SweepInv, NoBootstrap, [Next]_vars
  PROVE  NoBootstrap'
<1>1. /\ lotStatus \in [Lots -> LotStatuses] /\ pc \in [Reqs -> Labels] /\ Setups \subseteq Reqs
      /\ target \in TargetRow /\ Bootstrap \in Lots
  BY DEF SweepInv, TypeOK, Reqs, Lots
<1>2. CASE \E r \in Setups : Setup(r)
  <2>1. PICK r \in Setups : Setup(r)
    BY <1>2
  <2>2. \A q \in Setups : q = r
    BY DEF OneSetup
  <2>3. CASE SetupVerify(r)
    BY <1>1, <2>2, <2>3 DEF SetupVerify, At, Goto, NoBootstrap, rowVars, lotVars
  <2>4. CASE SetupRead(r)
    BY <1>1, <2>2, <2>4 DEF SetupRead, Finish, At, Goto, NoBootstrap, rowVars, lotVars
  <2>5. CASE \E f \in FloorInputs : SetupUpsert(r, f)
    <3>1. PICK f \in FloorInputs : SetupUpsert(r, f)
      BY <2>5
    <3>2. ~target.exists
      BY <2>2, <3>1 DEF SetupUpsert, At, NoBootstrap
    <3>3. target'.chain = "pending"
      BY <3>1, <3>2 DEF SetupUpsert, UpsertedTarget
    <3>4. pc' = [pc EXCEPT ![r] = "done"] /\ lotStatus' = lotStatus
      BY <3>1, <3>3 DEF SetupUpsert, Finish, Goto, lotVars
    <3>5. QED
      BY <1>1, <2>2, <3>4 DEF NoBootstrap
  <2>6. pc[r] \in {"idle", "setupRead", "setupUpsert", "done"}
    BY DEF NoBootstrap
  <2>7. QED
    BY <2>1, <2>3, <2>4, <2>5, <2>6 DEF Setup, SetupSnapshot, SetupProjRead, SetupProjWrite,
       SetupLotRead, SetupSlot, SetupLotInsert, At
<1>3. CASE ~(\E r \in Setups : Setup(r))
  <2>1. (\A r \in Setups : pc'[r] = pc[r]) /\ target'.exists = target.exists
    <3> USE DEF rowVars, TargetRow
    <3>1. CASE Environment \/ Worker \/ UNCHANGED vars
      BY <1>1, <3>1 DEF Environment, ChainOpen, ChainClose, WalletChange, ProjectActive,
         ProjectClosed, Observe, ObserveSurplus, Worker, WorkerClaim, WorkerSweep,
         WorkerRecord, WorkerRelease, vars
    <3>2. CASE \E r \in Closes : Close(r)
      BY <1>1, <3>2, RequestKindsAssumption
         DEF Close, CloseRead, CancelBegin, CancelApply, CloseDeactivate, Goto, Finish
    <3>3. CASE \E r \in Reconciles : Reconcile(r)
      <4>1. PICK r \in Reconciles : Reconcile(r)
        BY <3>3
      <4>2. r \notin Setups
        BY RequestKindsAssumption
      <4>3. \E label : pc' = [pc EXCEPT ![r] = label]
        BY <4>1 DEF Reconcile, ReconcileFind, ReconcileCheck, ReconcileRead, CancelBegin,
           ReconcileCancelApply, CancelApply, ReconcilePolicy, ReconcileTarget, Goto, Finish
      <4>4. target' = target \/ \E f : target' = [target EXCEPT !.active = FALSE, !.chain = f]
        BY <4>1 DEF Reconcile, ReconcileFind, ReconcileCheck, ReconcileRead, CancelBegin,
           ReconcileCancelApply, CancelApply, ReconcilePolicy, ReconcileTarget
      <4>5. QED
        BY <1>1, <4>2, <4>3, <4>4
    <3>4. CASE \E r \in Floors : Floor(r)
      BY <1>1, <3>4, RequestKindsAssumption
         DEF Floor, FloorRead, FloorBegin, FloorApply, Goto, Finish
    <3>5. CASE \E r \in Toggles : Toggle(r)
      BY <1>1, <3>5, RequestKindsAssumption DEF Toggle, ToggleRead, ToggleWrite, Goto, Finish
    <3>6. CASE \E r \in Executes : Execute(r)
      BY <1>1, <3>6, RequestKindsAssumption
         DEF Execute, ExecRead, ExecBegin, ExecApply, Goto, Finish
    <3>7. CASE \E r \in Heals : Heal(r)
      <4>1. PICK r \in Heals : Heal(r)
        BY <3>7
      <4>2. r \notin Setups
        BY RequestKindsAssumption
      <4>3. \E label \in Labels : pc' = [pc EXCEPT ![r] = label]
        BY <4>1 DEF Heal, HealRefused, HealFind, HealRead, HealPending, HealWrite, Goto, Finish,
           Labels
      <4>4. target' = target \/ target' = [target EXCEPT !.active = TRUE, !.chain = "active"]
        BY <4>1 DEF Heal, HealRefused, HealFind, HealRead, HealPending, HealWrite
      <4>5. QED
        BY <1>1, <4>2, <4>3, <4>4
    <3>8. QED
      BY <1>3, <3>1, <3>2, <3>3, <3>4, <3>5, <3>6, <3>7 DEF Next
  <2>2. lotStatus'[Bootstrap] = "none"
    <3>1. ~ \E r \in Setups : SetupLotInsert(r)
      BY <1>3 DEF Setup
    <3>2. QED
      BY <3>1, BootstrapUnborn DEF NoBootstrap
  <2>3. QED
    BY <2>1, <2>2 DEF NoBootstrap
<1>4. QED
  BY <1>2, <1>3

\* When the setup is confirmed once, every lot that waits is in a slot that can
\* be swept or shown, as long as the policy is on chain or no close is made.
THEOREM LotsStayScheduled == OneSetup => (Spec => [](BeforeClose => OpenLotsScheduled))
<1> SUFFICES ASSUME OneSetup PROVE Spec => [](BeforeClose => OpenLotsScheduled)
  OBVIOUS
<1>1. Init => NoBootstrap
  BY DEF Init, NoBootstrap, NoRow, Lots, Reqs
<1>2. SweepInv /\ NoBootstrap /\ [Next]_vars => NoBootstrap'
  BY NoBootstrapStep
<1>3. SlotInv /\ NoBootstrap => (BeforeClose => OpenLotsScheduled)
  <2> SUFFICES ASSUME SlotInv, NoBootstrap, BeforeClose, NEW l \in OpenLots
               PROVE  slots[lotSlot[l]] \in
                        {"scheduled", "requested", "selected", "failed", "released"}
    BY DEF OpenLotsScheduled
  <2>1. l # Bootstrap
    BY DEF NoBootstrap, OpenLots
  <2>2. QED
    BY <2>1 DEF SlotInv, LotsWaitInSlots, Takable
<1>4. QED
  BY <1>1, <1>2, <1>3, SweepInvariant, SlotInvariant, PTL DEF Spec

=============================================================================
