SPECIFICATION Spec
CONSTANTS
  Threads = {t1, t2}
  Limit = 2
  LastWindow = 1
  MaxRequests = 6
  None = None
INVARIANT CapHolds
