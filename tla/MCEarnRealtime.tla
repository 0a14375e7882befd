--------------------------- MODULE MCEarnRealtime ---------------------------
(* Model values for EarnRealtime: two resources and three events, one of   *)
(* which (an event type this client does not know) touches everything.     *)
EXTENDS EarnRealtime

CONSTANTS state, position

MCResources == {state, position}
MCTouches == [e \in 1 .. MaxEvents |->
                CASE e % 3 = 1 -> {state}
                  [] e % 3 = 2 -> {position}
                  [] OTHER     -> MCResources]
=============================================================================
