CONSTANTS
  p1 = p1  p2 = p2  d1 = d1  d2 = d2  u1 = u1  u2 = u2
  NoFile = NoFile
  Process = {p1, p2}
  Domain = {d1, d2}
  UserLine = {u1, u2}
  DomainLists <- MCOneList
  InitialFiles <- MCFewFiles
  EditFiles <- MCEdits
  Operations = {"apply", "reapply", "backup"}
  Faults = {"admin", "backup", "open", "tmp", "write", "launch", "copy"}
  MaxCalls = 2
  MaxEdits = 0
  MaxCrashes = 1

SPECIFICATION FairSpec
PROPERTIES CallReturns
