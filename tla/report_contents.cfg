CONSTANTS
  s1 = s1
  s2 = s2
  f1 = f1
  f2 = f2
  c1 = c1
  c2 = c2
  t1 = t1
  t2 = t2
  t3 = t3
  k1 = k1
  k2 = k2
  k3 = k3
  Spot = {s1, s2}
  Family = {f1, f2}
  Channel = {c1, c2}
  ChannelOf <- MCChannelOf
  Repeats = 2
  Raw <- MCRaw
  Worlds <- MCWorlds
  PageSize = 2
  MaxPages = 2
  MaxJobs = 3
  MaxNotes = 4
  Annotations = annotations
  None = none
  p1 = p1
  p2 = p2
  p3 = p3
  x1 = x1
  Problem = {p1, p2, p3}
  Site = {x1}
  Text = {t1, t2}
  Scanner = {f1, f2}
  SiteOf <- MCSiteOf
  TextOf <- MCTextOf
  ScannersOf <- MCScannersOf
  Accepted <- MCAccepted
  Likeness <- MCLikeness
  Strong = 90
  Margin = 15
  Near = 2
  MaxLine = 4
  MaxEdits = 1
  Gone = Gone
  Unset = Unset
SPECIFICATION ContentsSpec
INVARIANTS
  BuiltIsAccepted
  PublishedIsValid
  HonestEvidence
  EvidenceKept
  EachOnce
  AbsenceIsMeasured
  ShiftIsFollowed
CHECK_DEADLOCK FALSE
