SPECIFICATION Spec
CONSTANTS
  Jobs = {j1, j2}
  Disk = 3
  Floor = 2
  Target = 3
  Size = 1
  Headroom = 3
  Slots = 1
  Ends <- MCEnds
  Stuck = {j2}
  Unwanted = {j1}
  MaxEnds = 3
  Env = {"wipe", "delete"}
  NoJob = NoJob
INVARIANT AdmittedFits
PROPERTY NewDirKept
PROPERTY OnlyCopyKept
