SPECIFICATION Spec
CONSTANTS
  Callers = {t1, t2}
  Closers = {c1}
  Entries = {e1, e2}
  Size = 1
  MaxCalls = 1
  NoEntry = NoEntry
CHECK_DEADLOCK FALSE
PROPERTY
  ClosedPoolRaises
