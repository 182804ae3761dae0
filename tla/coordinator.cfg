CONSTANTS
  p1 = p1  p2 = p2  s1 = s1  s2 = s2  x1 = x1  a = a  b = b  u1 = u1  u2 = u2  n1 = n1
  k3 = k3  t3 = t3
  Key = {k1, k2, k3}
  Project = {p1, p2}
  Revision = {s1, s2}
  Context = {x1}
  Channel = {a}
  Actor = {u1, u2}
  Stamp = {n1}
  Intent <- TwoRevisions
  Token = {t1, t2, t3}
  NoToken = NoToken
  LeaseTicks = 1
  LaunchLimit = 1
  MaxRecords = 3
  MaxAcceptance = 3
  MaxGeneration = 2
  MaxFaults = 1
SPECIFICATION ElsewhereSpec
SYMMETRY Exchangeable
CONSTRAINT OneElsewhere
PROPERTIES
  PublicationsMoveForward
