CONSTANTS
  d1 = d1
  d2 = d2
  d3 = d3
  d4 = d4
  d5 = d5
  k1 = k1
  k2 = k2
  k3 = k3
  k4 = k4
  a1 = a1
  a2 = a2
  s1 = s1
  s2 = s2
  e1 = e1
  telegram = telegram
  slack = slack
  Deliveries = {d1, d2, d3, d5}
  Sweeps = {s1, s2}
  Keys = {k1, k2, k4}
  Recoveries = {k4}
  Alerts = {a1}
  Evals = {e1}
  Destinations = {telegram}
  IdemKeyOf <- MCIdemKeyOf
  AlertOf <- MCAlertOf
  EvalOf <- MCEvalOf
  LinesOf <- MCLinesOf
  Day = 2
  CooldownMs = 1
  IdempotencyTtlMs = 9
  RestartGraceMs = 0
  MaxCacheEntries = 3
  EscalationMultiplier = 2
  MaxEscalationsPerWindow = 1
  MaxFlushAttempts = 2
  StateFile = FALSE
  Crashes = FALSE
  MaxTime = 4
  MaxFailures = 2
  MaxRestarts = 0
SPECIFICATION Spec
INVARIANTS CountedOnce RecapPostedOnce
PROPERTIES NoAlarmInsideWindow PendingIsFrozen
SYMMETRY SweepSymmetry
