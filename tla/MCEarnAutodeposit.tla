------------------------- MODULE MCEarnAutodeposit -------------------------
(* Model-checking instances of EarnAutodeposit.  Request, claim and          *)
(* observation ids of one kind are interchangeable.                          *)
EXTENDS EarnAutodeposit, TLC

MCSlots == 1..3
MCBalances == {0, 2}
MCFloors == {0, 1}
MCOneFloor == {1}

RequestSymmetry ==
  Permutations(Setups) \cup Permutations(Closes) \cup Permutations(Floors)
    \cup Permutations(Toggles) \cup Permutations(Executes) \cup Permutations(Reconciles)
    \cup Permutations(Heals) \cup Permutations(Observations) \cup Permutations(Claims)

=============================================================================
