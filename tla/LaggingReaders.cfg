SPECIFICATION LagSpec
CONSTANTS
  Keys = {"good", "none"}
  Seals = {"mine", "plain"}
  Sessions = 2
  Records = 2
  Departures = 1
  Repeats = 1
  Breaks = 1
  MaxDelay = 0
INVARIANTS LagTypeOK ReadersMissNothing CiphertextIsStale
CONSTRAINT OneFault
CHECK_DEADLOCK FALSE
