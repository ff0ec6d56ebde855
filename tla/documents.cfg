SPECIFICATION FairSpec
CONSTANTS
  Paths = {1, 2, 3, 4, 5, 6, 7}
  Catalogs = {4, 5, 6, 7}
  Names <- MCNames
  Bodies = {0, 1}
  PathSplice <- MCPathSplice
  NameSplice <- MCNameSplice
  AliasTails <- MCAliasTails
  Workers = {w1}
  Workspaces <- MCWorkspaces
  Requests <- MCRequests
  MaxRequests = 3
  MaxFaults = 2
  MaxCrashes = 1
  NoJob = NoJob
  NoName = NoName
  Absent = Absent
  Torn = Torn
  Stale = Stale
  AnyTag = AnyTag
  NoTag = NoTag
INVARIANTS TypeOK HandlersHoldTheirFiles TrashIsRecoverable
PROPERTIES NoRevisionLost ImplementsAtomicWorkspace LinksKept  EveryRequestAnswered
