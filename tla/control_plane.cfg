CONSTANTS
  p1 = p1  s1 = s1  s2 = s2  x1 = x1  x2 = x2  a = a  b = b  u1 = u1  n1 = n1
  Key = {k1, k2, k3, k4}
  Project = {p1}
  Revision = {s1, s2}
  Context = {x1, x2}
  Channel = {a, b}
  Actor = {u1}
  Stamp = {n1}
  Intent <- MCIntent
  Token = {t1, t2, t3}
  NoToken = NoToken
  LeaseTicks = 1
  LaunchLimit = 1
  MaxRecords = 2
  MaxAcceptance = 3
  MaxGeneration = 2
SPECIFICATION Spec
SYMMETRY MCSymmetry
INVARIANTS
  ClaimsFenced
  DedupeSound
  RetriesRecognised
  IndexSound
  StatusMatchesChannels
PROPERTIES
  LiveClaimKept
  EvidenceIsFinal
  NewestPublishes
CONSTRAINT AfterReset
