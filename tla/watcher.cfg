CONSTANTS
  p1 = p1  w1 = w1  d1 = d1  u1 = u1
  NoFile = NoFile
  Process = {p1, w1}
  Domain = {d1}
  UserLine = {u1}
  DomainLists <- MCList
  InitialFiles <- MCFiles
  EditFiles <- MCEdits
  Operations = {"apply", "reapply"}
  Faults = {"copy", "query", "restart"}
  MaxCalls = 8
  MaxEdits = 2
  MaxCrashes = 1
  Watchers = {w1}
  MaxRestarts = 2
  ClientCalls = 1
SPECIFICATION WFairSpec
INVARIANTS WTypeOK NothingSlips
PROPERTIES TamperingEndsWatch PeerLossAnswered
