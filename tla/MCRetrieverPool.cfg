SPECIFICATION Spec
CONSTANTS
  Callers = {t1, t2, t3}
  Closers = {c1, c2}
  Entries = {e1, e2, e3}
  Size = 2
  MaxCalls = 1
  NoEntry = NoEntry
CHECK_DEADLOCK FALSE
INVARIANTS
  TypeOK
  ExclusiveCheckout
  PermitsConserved
  CloseLeavesNothingOpen
PROPERTIES
  ImplementsLending
  CloseReturns
  RetrieveReturns
