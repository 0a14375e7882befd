---------------------------- MODULE MCKeyedLock ----------------------------
(* Four calls, three of them under one key.                                 *)
EXTENDS KeyedLock

CONSTANTS c1, c2, c3, c4, k1, k2

MCKeyOf == [c \in {c1, c2, c3, c4} |-> IF c = c4 THEN k2 ELSE k1]

=============================================================================
