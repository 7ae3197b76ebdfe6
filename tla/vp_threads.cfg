SPECIFICATION FairSpec
CONSTANTS
  Actual = 7
  Totals <- MCTotals
  CutSets <- MCCuts
  PartFrames = 2
  Segment = 2
  Overlap = 1
  MinShot = 2
  MinSplit = 4
  SplitContext = 1
  MaxFaults = 2
  Env = {"model", "dead", "bad", "linger", "short", "raise"}
  NoFrame = NoFrame
  NoPart = NoPart
  Done = Done
INVARIANT InOrder
INVARIANT SameBlocks
INVARIANT PlanSound
INVARIANT Delivered
INVARIANT SinkAlone
PROPERTY Ends
CHECK_DEADLOCK FALSE
