CONSTANTS
  batch = batch
  admission = admission
  Callers <- MCCallers
  MaxChanges = 1
  MaxCalls = 2
  MaxDirect = 1
  MaxFailures = 1
SPECIFICATION FairSpec
INVARIANTS TypeOK NoOrphan
PROPERTIES ReadAfterAsked NeverRegresses EveryCallSettles
CHECK_DEADLOCK FALSE
