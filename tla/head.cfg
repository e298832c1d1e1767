SPECIFICATION Spec
CONSTANTS
  MaxNodes = 2
  Keys <- MCKeys
  Durations <- MCDurations
  Phases <- MCPhases
  PhaseLength = 1
  StopPairingCount = 1
  RetryMax = 2
  RetryWidth = 3
  FlashMayFail = {0}
INVARIANTS
  TypeOK
  KeysUnique
  NoGaps
  ActiveIsInRound
  OneCommandOutstanding
  SavedIsPersisted
PROPERTIES
  RoundOnlyAdvances
  ImplementsRegistry
VIEW UpToKeys
