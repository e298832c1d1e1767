SPECIFICATION TaskSpec
CONSTANTS
  MaxNodes = 1
  Keys <- MCKeys
  Durations <- MCDurations
  Phases <- MCPhases
  PhaseLength = 1
  StopPairingCount = 1
  RetryMax = 2
  RetryWidth = 3
  FlashMayFail = {}
  HostRequests <- MCHostRequests
  MaxWrites = 2
PROPERTIES
  ImplementsHead
  StandingBeforePairing
  RequestsAreServed
  EventsAreTold
