SPECIFICATION FairCodeSpec
CONSTANTS
  Base = 23
  Encoding <- Forms
  CodeShapes <- ShortCodes
  TableSize <- Tabled
  MethodSources <- Sources
  AnnotationTypes <- Annotated
  LirFunctions <- Functions
INVARIANTS
  FetchesInstructionStarts
  NothingLeftToCheck
  EmittedIsAccepted
  EmittedRunsClean
PROPERTIES
  VerificationEnds
CHECK_DEADLOCK FALSE
