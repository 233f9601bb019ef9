SPECIFICATION Spec
CONSTANTS
  Processes = {p1, p2}
  Sizes = {2, 3}
CHECK_DEADLOCK FALSE
INVARIANTS
  TypeOK
  ClosedInReverse
  RetrievalKeepsItsClients
  EnsuredMatchesCollection
PROPERTY
  Settles
