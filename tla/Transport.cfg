SPECIFICATION FairSpec
CONSTANTS
  Chunks = 3
  Length <- Uneven
  Cap = 3
  Sizes = 1
  Failures = 1
  DialTimeout = 10
  MinDialAttempt = 3
  Addresses = 5
  MayRefuse = TRUE
INVARIANTS TypeOK CreditMatchesWire DialReaches
PROPERTIES AtLeastOnceDelivery EventuallyReleased
CHECK_DEADLOCK FALSE
