CONSTANTS
  p1 = p1  p2 = p2  s1 = s1  s2 = s2  a = a  b = b
  Project = {p1}
  Revision = {s1, s2}
  Channel = {a, b}
  Run = {r1, r2}
  Request <- OneRequest
  Together = {}
  Concurrent = 1
  NoRun = NoRun  NoRevision = NoRevision  NoRequest = NoRequest
SPECIFICATION PublicationSpec
SYMMETRY Alike
INVARIANTS
  CompletedLanesShown
CHECK_DEADLOCK FALSE
