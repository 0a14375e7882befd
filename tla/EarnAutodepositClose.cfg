CONSTANTS
  Setups = {s1, s2, s3}
  Closes = {k1}
  Floors = {}
  Toggles = {}
  Executes = {x1}
  Reconciles = {q1}
  Heals = {h1}
  Observations = {}
  Claims = {c1, c2}
  Slots <- MCSlots
  Balances <- MCBalances
  FloorInputs <- MCOneFloor
  MaxChainSlot = 1
  MaxRemaining = 6
SYMMETRY RequestSymmetry
SPECIFICATION Spec
CHECK_DEADLOCK FALSE
INVARIANTS ClosedRowIsClosedOnChain NoLotSweptTwice
PROPERTIES KeepsPromise ClosedIsFinal BootstrapScheduledOnce
