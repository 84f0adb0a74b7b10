CONSTANTS
  MaxUp = 3
  MaxDown = 3
SPECIFICATION FairSpec
INVARIANT Faithful
PROPERTY Ends
CHECK_DEADLOCK FALSE
