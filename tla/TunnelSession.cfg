CONSTANTS
  Inits = {1, 2, 3}
  Sessions = {1, 2, 3, 4, 5}
  MaxFlight = 2
SPECIFICATION FairSpec
INVARIANTS
  TypeOK
  RekeyNeverInterrupts
PROPERTIES
  Recovers
