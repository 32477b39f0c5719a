\* Two callers, two days, one restart.
SPECIFICATION Spec
CONSTANTS
  Caller = {c1, c2}
  Prompt = {1, 2}
  MaxOutput = {1, 2}
  Reply = {1, 3}
  LocalText = 2
  LargestCall = 5
  PerJobCap = 3
  DailyCap = 5
  MaxDay = 2
  MaxRequests = 5
  MaxRestarts = 1
INVARIANTS TypeOK LocalDailyBound HttpOvershootBounded
SYMMETRY Symmetry
CHECK_DEADLOCK FALSE
