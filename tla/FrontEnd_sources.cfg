SPECIFICATION Spec
CONSTANTS
  MaxEntier = 9999
  MaxExponent = 9
  TextLength = 3
  WordCount = 2
  Sources <- MCSources
INVARIANTS
  TokensAreExact
  TreesComeBack
  EveryTokenIsAccountedFor
CHECK_DEADLOCK FALSE
