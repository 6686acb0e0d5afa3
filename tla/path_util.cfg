CONSTANTS
  c1 = c1  c2 = c2
  NoFile = NoFile
  Caller = {c1, c2}
  Data <- MCData
  InitialData <- MCInitial
  MaxAttempts = 3
  PathFaults = {"open", "busy", "create", "write", "replace", "lose", "protect"}
  MaxPathCalls = 4
  MaxPathCrashes = 1
SYMMETRY Symmetric
CHECK_DEADLOCK FALSE
SPECIFICATION PathSpec
INVARIANTS PathTypeOK TempGone
PROPERTIES ReadsOneVersion AnswersTruly
