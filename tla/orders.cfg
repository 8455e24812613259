SPECIFICATION Spec
CONSTANTS
  NSlots = 2
  Retries = 1
  MaxBtc = 3
INVARIANTS LiveIsBacked NoForgottenBtc OrphansAreKnown FillsAreBacked
PROPERTIES OrphansEnd
