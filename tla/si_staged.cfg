SPECIFICATION FairSpec
CONSTANTS
  Kinds = {"r2", "url"}
  Versions <- MCVersions
  MaxFaults = 3
  NoVersion = NoVersion
  NoFile = NoFile
  NChunks = 3
  Workers = 2
  Overwrites = {TRUE, FALSE}
  Env = {}
  Zeros = Zeros
  Torn = Torn
  NoSidecar = NoSidecar
  Size <- MCSize
  Known = {TRUE}
  Attempts = 3
  Ranges = {TRUE, FALSE}
  UrlEnv = {"unframed"}
INVARIANT PublishedWhole
PROPERTY ProgressKept
PROPERTY Implements
PROPERTY Staged
