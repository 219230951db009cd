SPECIFICATION KeySpec
CONSTANTS
  Modulus = 16
  Reloads <- MCReloads
INVARIANTS
  PeriodBounded
