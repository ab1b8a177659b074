\* Three requests, a window of two, two restarts of the worker, any of the gateway.
SPECIFICATION FairSpec
CONSTANTS
  Call = {c1, c2, c3}
  Prefetch = 2
  MaxRestart = 2
INVARIANTS TypeOK RequestsStayInBroker RunsOncePerWorkerLife
PROPERTIES KeepsMailbox SettlesOnce EveryCallSettles OldestAreExecuted
CHECK_DEADLOCK FALSE
