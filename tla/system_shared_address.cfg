SPECIFICATION SystemSpec
CONSTANTS
  MaxNodes = 3
  Keys <- MCKeys
  Durations <- MCDurations
  Phases <- MCPhases
  PhaseLength = 2
  StopPairingCount = 2
  RetryMax = 2
  RetryWidth = 3
  FlashMayFail = {}
  HostRequests <- NoRequests
  MaxWrites = 0
  Nodes <- TwoRemotes
  QueueLength = 5
  FaultModes = {FALSE}
  FaultyRequests <- NoRequests
  MaxUpsets = 0
  Repairing = "standby"
  Flash <- EverybodyWaters
INVARIANT UniqueAddresses
