SPECIFICATION Spec
CONSTANTS
  Commands = 2
  MaxWrites = 2
  MaxDisconnects = 0
PROPERTY WrittenIsServed
