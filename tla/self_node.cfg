SPECIFICATION Spec
CONSTANTS
  MaxNodes = 3
  Nodes <- MCNodes
  NodeKeys <- MCKeys
  FaultModes = {TRUE, FALSE}
  QueueLength = 2
INVARIANTS
  OnlyInService
PROPERTY AddressIsKept
