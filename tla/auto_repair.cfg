CONSTANTS
  p1 = p1  w1 = w1  d1 = d1  u1 = u1
  NoFile = NoFile
  Process = {p1, w1}
  Domain = {d1}
  UserLine = {u1}
  DomainLists <- MCList
  InitialFiles <- MCBlocked
  EditFiles <- MCClean
  Operations = {"apply", "reapply"}
  Faults = {}
  MaxCalls = 8
  MaxEdits = 1
  MaxCrashes = 0
  Watchers = {w1}
  MaxRestarts = 2
  ClientCalls = 0
SPECIFICATION WFairSpec
PROPERTY AutoRepair
