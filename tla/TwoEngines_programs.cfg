SPECIFICATION Spec
CONSTANTS
  Tokens <- Statements
  Globals = {"x"}
  NoName = "-"
  MaxLength = 7
  LateShadowing = FALSE
  SelfNaming = FALSE
  MaxTurns = 2
  MaxDepth = 3
  MaxKept = 2
CONSTRAINT Worthwhile
INVARIANTS
  EnginesAgree
CHECK_DEADLOCK FALSE
