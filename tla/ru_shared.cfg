SPECIFICATION Spec
CONSTANTS
  small = small
  odd = odd
  even = even
  Clients = {c1, c2}
  Aborting = {c1, c2}
  Sources <- MCSources
  Plan <- MCPlan
  Ids = {u1, u2}
  Env = {"kill"}
  NoSource = NoSource
  NoId = NoId
  NoObject = NoObject
INVARIANT RightLengths
INVARIANT NothingLeft
SYMMETRY Symmetry
