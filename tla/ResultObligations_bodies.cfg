SPECIFICATION Spec
CONSTANTS
  Names = {a, b}
  Appel = Appel
  MaxLength = 8
  MaxMade = 3
INVARIANTS
  ResultsAreHandled
CHECK_DEADLOCK FALSE
