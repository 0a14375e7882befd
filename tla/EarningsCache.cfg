CONSTANTS
  r1 = r1
  r2 = r2
  e1 = e1
  h1 = h1
  a1 = a1
  None = None
  Tasks = {r1, r2}
  Events = {e1}
  Amount <- MCAmount
  HistoryChanges = {h1}
  ApyChanges = {a1}
  FirstDeposit = 0
  DayLength = 1
  FreshFor = 1
  MaxClock = 1
  MaxFailures = 1
  MaxChanges = 1
SPECIFICATION FairSpec
CHECK_DEADLOCK FALSE
INVARIANTS CacheInv FreshIsCurrent IncrementalIsFull
PROPERTY EventuallyFresh
