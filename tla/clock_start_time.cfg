SPECIFICATION Spec
CONSTANTS
  DayLength = 4
  WeekLength = 2
  PhaseLength = 1
  OffsetRange <- MCOffsetRange
  MinValid = 2
  BootStart = 1
  MaxStart = 9
  MaxTime = 12
  MaxSets = 3
  MaxRestarts = 2
INVARIANTS
  ReportedAsWritten
