CONSTANTS
  Handle = {h1}
  Request = {r1, r2, r3, r4, r5}
  Idle = 2
  Absolute = 3
  ExchangeLife = 2
  Fresh = 1
  CheckTime = 1
  Window = 2
  Limit = 1
  NoSession = NoSession
  NoCode = NoCode
  MaxTime = 4
  MaxMoves = 1
  Old = t0
  Token = {t0, t1, t2, t3}
  Nothing = Nothing
SPECIFICATION AccessSpec
SYMMETRY MCAccessSymmetry
INVARIANTS
  AccessIsRecent
  EndedStaysEnded
  RedeemedOnce
  SessionsEnd
  ExportsBounded
  AcceptedFromPrimary
CHECK_DEADLOCK FALSE
