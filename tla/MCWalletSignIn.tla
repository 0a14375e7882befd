---------------------------- MODULE MCWalletSignIn ----------------------------
(* Model values for WalletSignIn: two requests of one challenge by one     *)
(* user, and a mobile request or reconciler for the same or another user.  *)
EXTENDS WalletSignIn, TLC

CONSTANTS u1, u2, r1, r2, e1, e2, c1

MCUserOf == [a \in Attempts |-> IF a = e2 THEN u2 ELSE u1]
MCChallengeOf == [r \in SignIns |-> c1]
SignInSymmetry == Permutations(SignIns)
=============================================================================
