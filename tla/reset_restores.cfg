CONSTANTS
  p1 = p1  p2 = p2  d1 = d1  d2 = d2  d3 = d3  u1 = u1  u2 = u2  local = local  n1 = n1  n2 = n2
  NoFile = NoFile
  Process = {p1}
  Domain = {d1, d2, d3}
  UserLine = {u1, u2}
  DomainLists <- MCNames
  InitialFiles <- MCClean
  EditFiles <- MCClean
  Operations = {"apply", "reapply", "backup"}
  Faults = {}
  MaxCalls = 1
  MaxEdits = 0
  MaxCrashes = 0
  CommandLines <- MCWindowReset
  DebugList <- MCDebugList
  DefaultHosts <- MCDefault
  StrayBackup = NoFile
  Word = {d1, d2, d3, local}
  Address = {local}
  Typed <- MCNone
  ListFiles <- MCFile
  Drawn = {n1}
  Fixed = Fixed  NoText = NoText  Empty = Empty
  CryptoFaults = {}

\* The bound on calls stops an instance before its next call.
CHECK_DEADLOCK FALSE
SPECIFICATION SysSpec
PROPERTY ResetRestores
