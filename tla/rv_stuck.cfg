SPECIFICATION FairSpec
CONSTANTS
  Jobs = {j1, j2}
  Slots = 1
  MaxFailures = 1
  MaxCrashes = 0
  Env = {"log"}
PROPERTY SlotsComeBack
CHECK_DEADLOCK FALSE
