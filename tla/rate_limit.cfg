SPECIFICATION FairSpec
CONSTANTS
  Threads = {t1, t2, t3}
  Limit = 2
  LastWindow = 2
  MaxRequests = 6
  None = None
INVARIANTS TypeOK CapPerStraggler
PROPERTIES RefusalsAreEarned EveryRequestAnswered
