CONSTANTS
  state = state
  position = position
  Resources <- MCResources
  Touches <- MCTouches
  MaxEvents = 3
  MaxFaults = 3
  Null = 0
SPECIFICATION FairSpec
INVARIANTS TypeOK AcknowledgedIsShown NothingSkipped
PROPERTY EventuallyShownUnlessWedged
CHECK_DEADLOCK FALSE
