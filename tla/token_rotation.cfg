CONSTANTS
  Old = t0
  Token = {t0, t1, t2, t3}
  Nothing = Nothing
SPECIFICATION RotationSpec
INVARIANTS
  SecretAccepted
CHECK_DEADLOCK FALSE
