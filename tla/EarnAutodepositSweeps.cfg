CONSTANTS
  Setups = {s1}
  Closes = {}
  Floors = {f1, f2}
  Toggles = {t1}
  Executes = {x1}
  Reconciles = {}
  Heals = {}
  Observations = {o1}
  Claims = {c1, c2}
  Slots <- MCSlots
  Balances <- MCBalances
  FloorInputs <- MCOneFloor
  MaxChainSlot = 3
  MaxRemaining = 6
SYMMETRY RequestSymmetry
SPECIFICATION Spec
CHECK_DEADLOCK FALSE
INVARIANTS SweepInv OpenLotsScheduled
PROPERTY ExecuteNowNeverReopens
