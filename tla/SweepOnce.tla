------------------------------ MODULE SweepOnce ------------------------------
(***************************************************************************)
(* What Earn Autodeposit promises of the surplus of a wallet: a piece of   *)
(* surplus has one amount for good, is moved once and as a whole, never    *)
(* after it was dropped, and only while the user's delegation exists.      *)
(***************************************************************************)
EXTENDS Naturals

CONSTANTS Lots, Amounts

VARIABLES
  delegation,  \* the user's delegation: "none", "open", "closed"
  amount,      \* of each lot, 0 before it appears
  moved,       \* how much of it has been moved
  dropped      \* the lots that must not be moved any more

vars == <<delegation, amount, moved, dropped>>

Init ==
  /\ delegation = "none"
  /\ amount = [l \in Lots |-> 0] /\ moved = [l \in Lots |-> 0]
  /\ dropped = {}

Delegate ==
  /\ delegation = "none" /\ delegation' = "open"
  /\ UNCHANGED <<amount, moved, dropped>>

Revoke ==
  /\ delegation = "open" /\ delegation' = "closed"
  /\ UNCHANGED <<amount, moved, dropped>>

(* Surplus appears; a new floor drops what was there before.               *)
Appear(l, n, D) ==
  /\ amount[l] = 0 /\ l \notin D
  /\ amount' = [amount EXCEPT ![l] = n]
  /\ dropped' = dropped \cup D
  /\ UNCHANGED <<delegation, moved>>

Drop(D) ==
  /\ dropped' = dropped \cup D
  /\ UNCHANGED <<delegation, amount, moved>>

Move(S) ==
  /\ delegation = "open"
  /\ \A l \in S : l \notin dropped /\ amount[l] > 0 /\ moved[l] = 0
  /\ moved' = [l \in Lots |-> IF l \in S THEN amount[l] ELSE moved[l]]
  /\ UNCHANGED <<delegation, amount, dropped>>

Next ==
  \/ Delegate \/ Revoke
  \/ \E l \in Lots, n \in Amounts, D \in SUBSET Lots : Appear(l, n, D)
  \/ \E D \in SUBSET Lots : Drop(D)
  \/ \E S \in SUBSET Lots : Move(S)

Spec == Init /\ [][Next]_vars

=============================================================================
