SPECIFICATION Spec
CONSTANTS
  Callers = {c1, c2}
  Concurrency = 1
  MaxTasks = 3
  NoTask = NoTask
PROPERTY BusyMeansBusy
