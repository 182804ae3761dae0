CONSTANTS
  p1 = p1  p2 = p2  s1 = s1  s2 = s2  x1 = x1  a = a  b = b  u1 = u1  u2 = u2  n1 = n1  k3 = k3  t3 = t3
  Key = {k1, k2}
  Project = {p1}
  Revision = {s1, s2}
  Context = {x1}
  Channel = {a, b}
  Actor = {u1}
  Stamp = {n1}
  Intent <- GrowingRequest
  Token = {t1, t2, t3}
  NoToken = NoToken
  LeaseTicks = 1
  LaunchLimit = 1
  MaxRecords = 2
  MaxAcceptance = 1
  MaxGeneration = 1
  MaxFaults = 1
SPECIFICATION FairSpec
PROPERTIES
  RequestsSettle
