SPECIFICATION FairSpec
CONSTANTS
  Jobs = {j1}
  Runs = {r1}
  NoJob = NoJob
  NoRun = NoRun
  MaxConcurrent = 1
  MaxCrashes = 2
  Reports = {"ok", "short", "verify_failed", "interrupted", "internal", "error"}
  Env = {"cancel", "purge", "sweep", "lowdisk", "raise", "delete", "crash", "vanish"}
PROPERTY SlotsComeBack
PROPERTY RecordsSettle
PROPERTY CancelStops
CHECK_DEADLOCK FALSE
