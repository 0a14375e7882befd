--------------------------- MODULE MCEarningsCache ---------------------------
(* Model values for EarningsCache.                                         *)
EXTENDS EarningsCache

CONSTANTS r1, r2, e1, h1, a1

MCAmount == [e \in Events |-> 1]
=============================================================================
