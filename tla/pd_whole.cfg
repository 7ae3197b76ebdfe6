SPECIFICATION FairSpec
CONSTANTS
  Settings = {s1, s2}
  Counts <- MCCounts
  Actual = 5
  Decoded = {5}
  PartFrames = 2
  Resumes = {TRUE, FALSE}
  MaxFaults = 3
  NoMade = NoMade
  NoPart = NoPart
INVARIANT WholeVideo
INVARIANT OneMaking
PROPERTY ResumeKeeps
PROPERTY Finishes
