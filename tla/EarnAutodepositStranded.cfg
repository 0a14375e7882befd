CONSTANTS
  Setups = {s1, s2, s3}
  Closes = {}
  Floors = {}
  Toggles = {}
  Executes = {}
  Reconciles = {}
  Heals = {}
  Observations = {}
  Claims = {}
  Slots <- MCSlots
  Balances <- MCBalances
  FloorInputs <- MCFloors
  MaxChainSlot = 1
  MaxRemaining = 6
SYMMETRY RequestSymmetry
SPECIFICATION Spec
CHECK_DEADLOCK FALSE
INVARIANT OpenLotsScheduled
