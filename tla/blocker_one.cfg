CONSTANTS
  p1 = p1  p2 = p2  d1 = d1  d2 = d2  u1 = u1  u2 = u2
  NoFile = NoFile
  Process = {p1}
  Domain = {d1, d2}
  UserLine = {u1, u2}
  DomainLists <- MCLists
  InitialFiles <- MCManyFiles
  EditFiles <- MCEdits
  Operations = {"apply", "reapply"}
  Faults = {"admin", "open", "tmp", "write", "launch", "copy"}
  MaxCalls = 3
  MaxEdits = 1
  MaxCrashes = 2
SPECIFICATION Spec
INVARIANT OriginalRecoverable
PROPERTIES AppliedMeansRewritten ImplementsEnforcement
