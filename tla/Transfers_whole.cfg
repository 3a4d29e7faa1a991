CONSTANTS
  Totals <- UpTo9
  Lengths <- UpTo9
  Window = 3
  Fallback = 3
  ServerMax = 2
  Unlimited = 0
SPECIFICATION FairSpec
CHECK_DEADLOCK FALSE
 
PROPERTIES TransferEnds
