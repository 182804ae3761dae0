CONSTANTS
  p1 = p1  p2 = p2  s1 = s1  s2 = s2  a = a  b = b
  Project = {p1, p2}
  Revision = {s1, s2}
  Channel = {a, b}
  Run = {r1, r2, r3}
  Request <- OfTwo
  Together = {}
  Concurrent = 2
  NoRun = NoRun  NoRevision = NoRevision  NoRequest = NoRequest
SPECIFICATION TwoPublishedSpec
SYMMETRY Alike
CONSTRAINT SecondVisits
INVARIANTS
  AssetsStored
  ReceiptsTruthful
  EvidenceGenuine
PROPERTIES
  ImplementsLedger
CHECK_DEADLOCK FALSE
