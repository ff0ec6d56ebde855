SPECIFICATION FairSpec
CONSTANTS
  Callers = {c1, c2, c3}
  Concurrency = 2
  MaxTasks = 4
  NoTask = NoTask
INVARIANTS TypeOK SlotsAccountedFor WorkIsBounded AbandonedWorkIsCancelled
PROPERTIES EveryCallAnswered SlotsComeBack
