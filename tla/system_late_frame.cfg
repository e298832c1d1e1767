SPECIFICATION SystemSpec
CONSTANTS
  MaxNodes = 2
  Keys <- MCKeys
  Durations <- MCDurations
  Phases <- MCPhases
  PhaseLength = 2
  StopPairingCount = 2
  RetryMax = 2
  RetryWidth = 3
  FlashMayFail = {}
  HostRequests <- PairAgain
  MaxWrites = 1
  Nodes <- OneRemote
  QueueLength = 5
  FaultModes = {FALSE}
  FaultyRequests <- NoRequests
  MaxUpsets = 0
  Repairing = "any"
  Flash <- EverybodyWaters
INVARIANT AckFindsItsNode
