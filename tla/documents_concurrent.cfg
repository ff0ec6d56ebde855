SPECIFICATION Spec
CONSTANTS
  Paths = {1, 2, 3, 4, 5, 6, 7}
  Catalogs = {4, 5, 6, 7}
  Names <- MCNames
  Bodies = {0, 1}
  PathSplice <- MCPathSplice
  NameSplice <- MCNameSplice
  AliasTails <- MCAliasTails
  Workers = {w1, w2}
  Workspaces <- MCWorkspaces
  Requests <- MCRequests
  MaxRequests = 2
  MaxFaults = 0
  MaxCrashes = 0
  NoJob = NoJob
  NoName = NoName
  Absent = Absent
  Torn = Torn
  Stale = Stale
  AnyTag = AnyTag
  NoTag = NoTag
PROPERTY NoRevisionLost
