SPECIFICATION Spec
CONSTANTS
  Files = {f1, f2}
  Actual = 2
  Areas = {1, 2, 5}
  GrowRounds = 2
  GrowLimit = 4
  Env = {"signal", "kill", "dead", "raise"}
  NoFile = NoFile
  NoArea = NoArea
  NoCov = NoCov
  NoReport = NoReport
  NoOutput = NoOutput
  NoArgs = NoArgs
SYMMETRY Symmetry
INVARIANT WholeOutputs
INVARIANT Judged
INVARIANT ReportTrue
INVARIANT Reported
INVARIANT Accounted
