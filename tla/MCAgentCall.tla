---------------------------- MODULE MCAgentCall -----------------------------
(* The execution panel, the workflows and the agent on a few requests.     *)
EXTENDS ExecutionPanel

R(mode, ok, url, fail) == [mode |-> mode, wellFormed |-> ok, url |-> url, failWith |-> fail]

MCRequests ==
  { R("async", TRUE, "channel", 0),      \* resumed by its event
    R("sync", TRUE, "absent", 0),
    R("llm", TRUE, "absent", 500),
    R("async", TRUE, "channel", 400),    \* refused by the agent: ends in an error
    R("queued", TRUE, "absent", 0) }     \* refused by the panel and by the workflow
=============================================================================
