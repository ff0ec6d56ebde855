CONSTANTS
  MaxInstances = 2
  Requests <- MCRequests
  Attempts = 2
  Polls = 2
  MaxDispatches = 1
  Workflows = {"agent_call", "llm_chat", "other"}
  MaxRestarts = 1
SPECIFICATION FairSpec
INVARIANTS
  TypeOK
  StatusesAreTrue
PROPERTIES
  EverythingSettles
