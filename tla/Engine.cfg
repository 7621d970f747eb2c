SPECIFICATION WatchedSpec
CONSTANTS
  Systems <- TwoOrMore
  Limits <- NoTicksToTwo
  Clocks = {2}
  MaxClock = 5
INVARIANTS
  NobodyIsSkipped
PROPERTIES
  OneEnding
  StopOutlivesTheRun
  RunReturns
