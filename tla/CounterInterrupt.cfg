SPECIFICATION FairSpec
CONSTANTS
  Modulus = 16
  Reloads <- MCReloads
INVARIANTS
  TypeOK
  SetUpConsistent
  NoInterruptLost
PROPERTIES
  KeepsItsPromise
  RaisedOncePerPeriod
  KeepsInterrupting
