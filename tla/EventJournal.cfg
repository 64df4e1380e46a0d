SPECIFICATION Spec
CONSTANTS
  Events = {e1, e2, e3, e4}
  Appenders = {dispatcher, other}
  Readers = {r1, r2}
  BatchSize = 2
  MayFail = TRUE
  MayCancel = TRUE
  MaxRestarts = 2
SYMMETRY Alike
INVARIANTS ReplayInAppendOrder InOnePlace
CHECK_DEADLOCK FALSE
