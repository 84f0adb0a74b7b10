SPECIFICATION LinkFairSpec
CONSTANTS
  MaxTries = 2
  MaxFlight = 2
INVARIANT LinkTypeOK
PROPERTIES Converges StandsDown
