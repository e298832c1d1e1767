SPECIFICATION Spec
CONSTANTS
  Commands = 2
  MaxWrites = 2
  MaxDisconnects = 1
INVARIANTS
  TypeOK
  ServedInOrder
  NoEventDropped
  StaysReachable
PROPERTIES
  ImplementsMailbox
  WrittenIsTold
