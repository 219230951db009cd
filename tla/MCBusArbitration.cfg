SPECIFICATION FairSpec
CONSTANT N = 4
INVARIANTS
  TypeOK
  GrantConsistent
  BoundedBypass
  TurnComesCloser
PROPERTIES
  ImplementsOwnership
  NoStarvation
