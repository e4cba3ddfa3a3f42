SPECIFICATION Spec
CONSTANTS
  Order <- FilesInOrder
  Names = {"main", "p", "q", "sub.p"}
  At <- TwoDirectories
  Here = "here"
  NoFile = "nothing"
  MaxStatements = 5
  LateImports = FALSE
  CallsAcross = FALSE
  TopLevelLambdas = FALSE
  Retries = FALSE
CONSTRAINT Worthwhile
INVARIANTS
  ProgramsLoadAsAnalysed
  EnginesAgree
PROPERTY
  BothLoad
CHECK_DEADLOCK FALSE
