\* Command lines, startup, failures, signals and shutdown of the four workers.
CONSTANTS
  MaxInt = 65535
  CommandLines <- MCCommandLines
  ErrorCode <- MCErrorCode
SPECIFICATION FairSpec
INVARIANTS
  TypeOK
  ParametersAreSafe
  ManagerIsStoppedLast
  LoggersOutliveThreads
  OnlyFailuresEndIt
PROPERTIES
  FirstErrorStays
  ProgramEnds
