CONSTANTS
  AutoRestart = TRUE
  ShellMatches = FALSE
  MaxFaults = 4
SPECIFICATION Spec
INVARIANT TypeOK
PROPERTY NothingAfterStop
PROPERTY StopReturns
PROPERTY Recovers
PROPERTY RecordSettles
