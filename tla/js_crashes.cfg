SPECIFICATION Spec
CONSTANTS
  Jobs = {j1, j2}
  Runs = {r1, r2}
  NoJob = NoJob
  NoRun = NoRun
  MaxConcurrent = 1
  MaxCrashes = 2
  Reports = {"ok", "interrupted"}
  Env = {"cancel", "crash", "survivor", "loss", "sweep"}
SYMMETRY Symmetry
INVARIANT SlotsRespected
INVARIANT OneRecord
INVARIANT HeardIsDisk
INVARIANT CancelNotRetried
PROPERTY LivesOnce
PROPERTY LiveFilesKept
CHECK_DEADLOCK FALSE
