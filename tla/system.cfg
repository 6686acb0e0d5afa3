CONSTANTS
  p1 = p1  p2 = p2  d1 = d1  d2 = d2  d3 = d3  u1 = u1  u2 = u2  local = local  n1 = n1  n2 = n2
  NoFile = NoFile
  Process = {p1, p2}
  Domain = {d1, d2, d3}
  UserLine = {u1, u2}
  DomainLists <- MCNames
  InitialFiles <- MCFiles
  EditFiles <- MCClean
  Operations = {"apply", "reapply", "backup"}
  Faults = {"copy", "reset"}
  MaxCalls = 4
  MaxEdits = 1
  MaxCrashes = 1
  CommandLines <- MCModes
  DebugList <- MCDebugList
  DefaultHosts <- MCDefault
  StrayBackup = NoFile
  Word = {d1, d2, d3, local}
  Address = {local}
  Typed <- MCComment
  ListFiles <- MCFile
  Drawn = {n1, n2}
  Fixed = Fixed  NoText = NoText  Empty = Empty
  CryptoFaults = {"rand", "store", "flush"}
SYMMETRY Symmetric
\* The bound on calls stops an instance before its next call.
CHECK_DEADLOCK FALSE
SPECIFICATION SysSpec
CONSTRAINT Bounded
INVARIANTS SysTypeOK LockedStaysBlocked BackupUnblocked ListedIsBlocked PasswordKept
