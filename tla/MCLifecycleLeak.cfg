SPECIFICATION Spec
CONSTANTS
  Processes = {p1}
  Sizes = {2, 3}
CHECK_DEADLOCK FALSE
INVARIANT
  FailedCloseLeaksNothing
