CONSTANTS
  p1 = p1  p2 = p2  d1 = d1  d2 = d2  u1 = u1  u2 = u2
  NoFile = NoFile
  Process = {p1, p2}
  Domain = {d1, d2}
  UserLine = {u1, u2}
  DomainLists <- MCLists
  InitialFiles <- MCFewFiles
  EditFiles <- MCHollow
  Operations = {"apply", "reapply"}
  Faults = {}
  MaxCalls = 3
  MaxEdits = 0
  MaxCrashes = 0
SPECIFICATION Spec
PROPERTY IntegrityVerified
