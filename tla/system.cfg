SPECIFICATION SystemSpec
CONSTANTS
  MaxNodes = 2
  Keys <- MCKeys
  Durations <- MCDurations
  Phases <- MCPhases
  PhaseLength = 2
  StopPairingCount = 2
  RetryMax = 2
  RetryWidth = 3
  FlashMayFail = {}
  HostRequests <- PairOrReschedule
  FaultyRequests <- PairAgain
  MaxUpsets = 1
  MaxWrites = 1
  Nodes <- OneRemote
  QueueLength = 5
  FaultModes = {TRUE, FALSE}
  Repairing = "standby"
  Flash <- EverybodyWaters
INVARIANTS
  SystemTypeOK
  AddressesAgree
  OneValveOpen
  NoFalseFault
  NoPanic
  PairingIsComplete
  OpenValveIsKnown
  FreshRetryBudget
  OneHead
PROPERTIES
  PairingEnds
  QueuedNodeIsWatered
  RoundEnds
  FaultIsReported
