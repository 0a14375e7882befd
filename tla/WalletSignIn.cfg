CONSTANTS
  u1 = u1
  u2 = u2
  r1 = r1
  r2 = r2
  e1 = e1
  e2 = e2
  c1 = c1
  Other = Other
  Nobody = Nobody
  Users = {u1, u2}
  Attempts = {r1, r2, e2}
  UserOf <- MCUserOf
  SignIns = {r1, r2}
  Challenges = {c1}
  ChallengeOf <- MCChallengeOf
  MaxIndex = 3
  MaxReservations = 2
  MaxDropped = 1
  MaxFaults = 1
SPECIFICATION SignInSpec
INVARIANTS SignInTypeOK AnsweredIsCompleted ReadyIsOwned OneAccountPerUser
SYMMETRY SignInSymmetry
CHECK_DEADLOCK FALSE
