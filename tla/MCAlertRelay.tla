---------------------------- MODULE MCAlertRelay ----------------------------
(* Model-checking instances of AlertRelay.  d1 and d2 are a delivery and its *)
(* retry, d3 a second payload of the same alert with twice the lines, d4 the *)
(* payload of another alert and d5 a recovery.                               *)
EXTENDS AlertRelay, TLC

CONSTANTS d1, d2, d3, d4, d5, k1, k2, k3, k4, a1, a2, s1, s2, e1, telegram, slack

MCIdemKeyOf ==
  [d \in Deliveries |->
     IF d \in {d1, d2} THEN k1 ELSE IF d = d3 THEN k2 ELSE IF d = d4 THEN k3 ELSE k4]
MCAlertOf == [k \in Keys |-> IF k = k3 THEN a2 ELSE a1]
MCEvalOf == [k \in Keys |-> e1]
MCLinesOf == [k \in Keys |-> IF k = k2 THEN 2 ELSE 1]

SweepSymmetry == Permutations(Sweeps)

\* A delivery and its retry carry the same payload.
RetrySymmetry == Permutations({d1, d2})

=============================================================================
