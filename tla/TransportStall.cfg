\* Three requests through a window of two, a worker that never dies.
SPECIFICATION FairSpec
CONSTANTS
  Call = {c1, c2, c3}
  Prefetch = 2
  MaxRestart = 0
PROPERTIES EveryRequestIsHandled
CHECK_DEADLOCK FALSE
