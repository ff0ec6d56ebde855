--------------------------- MODULE ExecutionPanel ---------------------------
(***************************************************************************)
(* The execution panel of the studio (execution.ts, execution-panel.tsx)   *)
(* in front of the workflows it starts: the preset, the record it shows,   *)
(* and the one request or monitor loop that is not aborted.  Selecting     *)
(* another preset resets the record and leaves the loop running.           *)
(***************************************************************************)
EXTENDS AgentCall, Sequences, FiniteSets

CONSTANTS Workflows, \* the workflow ids of the documents shown
          Polls,     \* attempts of the monitor loop (10 in the code)
          MaxDispatches  \* bound: requests of the panel that the agent accepts

ASSUME PanelAssumption == Polls \in Nat \ {0}

VARIABLES panel,     \* the workflow shown and the preset selected
          record,    \* the execution record shown
          run        \* the request or monitor loop of the last execute

vars == <<callvars, panel, record, run>>

PresetIds == {"llm_chat", "agent_sync", "agent_async"}

Presets(w) == CASE w = "llm_chat"   -> <<"llm_chat">>
                [] w = "agent_call" -> <<"agent_sync", "agent_async">>
                [] OTHER            -> <<>>

ModeOf(p) == CASE p = "llm_chat"   -> "llm"
               [] p = "agent_sync" -> "sync"
               [] OTHER            -> "async"

\* validateExecutionPayload: what keeps a request from being sent.
Valid(p, r) ==
  /\ r.mode = ModeOf(p) /\ r.wellFormed
  /\ p # "llm_chat" => r.url # "long"
  /\ p = "agent_async" => r.url # "absent"

NoRun == [phase |-> None, preset |-> None, payload |-> NoRequest, instance |-> 0,
          seen |-> None, attempt |-> 0]

\* The record a panel starts from.  gone is the error "no longer available"; of is history:
\* the instance the last answer shown was about, which the record need not name: a monitor
\* loop that outlives its preset merges what it reads into the record of the next.
Record(status) == [status |-> status, instance |-> 0, output |-> None, gone |-> FALSE,
                   of |-> 0]

Mounted(w) ==
  [workflow |-> w, preset |-> IF Presets(w) = <<>> THEN "llm_chat" ELSE Head(Presets(w))]

PanelInit == /\ \E w \in Workflows : panel = Mounted(w)
             /\ record = Record("idle") /\ run = NoRun

-----------------------------------------------------------------------------
(* What the user does.                                                     *)

\* Another document, or the overview again: the key changes, and the clean-up aborts the run.
Mount(w) ==
  /\ panel' = Mounted(w)
  /\ record' = Record("idle")
  /\ run' = NoRun
  /\ UNCHANGED callvars

SelectPreset(p) ==
  /\ \E k \in DOMAIN Presets(panel.workflow) : Presets(panel.workflow)[k] = p
  /\ panel' = [panel EXCEPT !.preset = p]
  /\ record' = Record("idle")
  /\ UNCHANGED <<callvars, run>>

\* The execute button is there for a workflow with presets, unless the record looks busy.
MayExecute == /\ Presets(panel.workflow) # <<>>
              /\ record.status \notin {"running", "suspended"}

ExecuteRefused(r) ==
  /\ MayExecute /\ ~Valid(panel.preset, r)
  /\ record' = [record EXCEPT !.status = "failed"]
  /\ UNCHANGED <<callvars, panel, run>>

WithinBound(r) ==
  /\ \E i \in Instances : inst[i].at = "unborn"
  /\ r.mode = "async" /\ ~Refuses(r) =>
       Cardinality({i \in Instances : /\ inst[i].request.mode = "async"
                                 /\ ~Refuses(inst[i].request)}) < MaxDispatches

\* The run of before is aborted, whatever it was doing; its instance is left alone.
Execute(r) ==
  /\ MayExecute /\ Valid(panel.preset, r) /\ WithinBound(r)
  /\ record' = Record("running")
  /\ run' = [NoRun EXCEPT !.phase = "posting", !.preset = panel.preset, !.payload = r]
  /\ UNCHANGED <<callvars, panel>>

StopMonitoring ==
  /\ record.status = "suspended"
  /\ record' = [record EXCEPT !.status = "timed-out"]
  /\ run' = NoRun
  /\ UNCHANGED <<callvars, panel>>

-----------------------------------------------------------------------------
(* The run: the post that starts an instance, then the monitor loop.       *)

PostArrives(i) ==
  /\ run.phase = "posting" /\ run.instance = 0
  /\ Start(i, run.payload)
  /\ run' = [run EXCEPT !.instance = i]
  /\ UNCHANGED <<panel, record>>

\* The engine answers when the instance has ended or is suspended: an asynchronous one is
\* shown without the answer that may have come since.
PostAnswered ==
  /\ run.phase = "posting" /\ run.instance # 0
  /\ inst[run.instance].at \in {"waiting", "ended"}
  /\ LET d == inst[run.instance].data
         watch == run.preset = "agent_async"
     IN /\ record' = [record EXCEPT
             !.instance = run.instance, !.of = run.instance,
             !.status = IF watch THEN "suspended" ELSE "completed",
             !.output = IF watch /\ d = "answer" THEN None ELSE d]
        /\ run' = IF watch THEN [run EXCEPT !.phase = "waiting"] ELSE NoRun
  /\ UNCHANGED <<callvars, panel>>

RunFails ==
  /\ record' = [record EXCEPT !.status = "failed"]
  /\ run' = NoRun
  /\ UNCHANGED <<callvars, panel>>

\* Not an ok answer, or none: of the post or of a poll.
RequestFails == run.phase \in {"posting", "polled"} /\ RunFails

\* The runner went away with the request, or answers 500 for an aborted instance.
PostLost ==
  /\ run.phase = "posting" /\ run.instance # 0
  /\ inst[run.instance].at \in {"aborted", "lost"}
  /\ RunFails

\* The delay is over and the engine reads the instance; one that ended is evicted, or still readable.
Poll ==
  /\ run.phase = "waiting"
  /\ \E seen \in CASE inst[run.instance].at = "lost"  -> {"gone"}
                   [] inst[run.instance].at = "ended" -> {"gone", inst[run.instance].data}
                   [] OTHER -> {"active"} :
       run' = [run EXCEPT !.phase = "polled", !.seen = seen]
  /\ UNCHANGED <<callvars, panel, record>>

Shows(status, output, gone) ==
  record' = [record EXCEPT !.status = status, !.output = output, !.gone = gone,
                           !.of = run.instance]

\* A mutant: the monitor loop does not count its attempts.
PollAnswered_Uncounted ==
  /\ run.phase = "polled"
  /\ LET again == run.seen \notin {"gone", "answer"}
     IN /\ Shows(IF again THEN "suspended" ELSE "completed",
                 IF run.seen = "active" THEN None ELSE run.seen, FALSE)
        /\ run' = IF again THEN [run EXCEPT !.phase = "waiting", !.seen = None] ELSE NoRun
  /\ UNCHANGED <<callvars, panel>>

PollAnswered ==
  /\ run.phase = "polled"
  /\ LET output == IF run.seen = "active" THEN None ELSE run.seen
         again == run.seen \notin {"gone", "answer"} /\ run.attempt + 1 < Polls
     IN /\ CASE run.seen = "gone"   -> Shows("timed-out", record.output, TRUE)
             [] run.seen = "answer" -> Shows("completed", "answer", record.gone)
             [] OTHER -> Shows(IF again THEN "suspended" ELSE "timed-out", output,
                               record.gone)
        /\ run' = IF again
                  THEN [run EXCEPT !.phase = "waiting", !.seen = None, !.attempt = @ + 1]
                  ELSE NoRun
  /\ UNCHANGED <<callvars, panel>>

-----------------------------------------------------------------------------
\* Another client may send what this panel would not; the last id is kept for the panel.
OtherClient(i, r) ==
  /\ i < MaxInstances /\ \A p \in PresetIds : ~Valid(p, r)
  /\ Start(i, r)
  /\ UNCHANGED <<panel, record, run>>

RunStep == (\E i \in Instances : PostArrives(i)) \/ PostAnswered \/ PostLost \/ Poll \/ PollAnswered

EngineStep ==
  /\ \/ \E i \in Instances : InstanceStep(i) \/ PostStep(i) \/ NetworkStep(i)
     \/ Restart
  /\ UNCHANGED <<panel, record, run>>

Next == \/ \E w \in Workflows : Mount(w)
        \/ \E p \in PresetIds : SelectPreset(p)
        \/ \E r \in Requests : ExecuteRefused(r) \/ Execute(r)
        \/ StopMonitoring
        \/ RunStep
        \/ RequestFails
        \/ \E i \in Instances, r \in Requests : OtherClient(i, r)
        \/ EngineStep

Init == CallInit /\ PanelInit
Spec == Init /\ [][Next]_vars

\* The runner, the agent and the timer of the monitor loop go on.  Nothing is fair that the
\* network does: the panel's fetches (103, 306) set no time-out, so that a request or its
\* answer may stay out for ever, and a user or another client need never do anything.
FairSpec == Spec /\ CallFairness /\ WF_vars(Poll)

-----------------------------------------------------------------------------
PanelType == [workflow : Workflows, preset : PresetIds]
RecordType == [status : {"idle", "running", "suspended", "completed", "failed", "timed-out"},
               instance : Instances \cup {0}, of : Instances \cup {0},
               output : {None, "answer", "error"}, gone : BOOLEAN]
RunType == [phase : {None, "posting", "waiting", "polled"}, preset : PresetIds \cup {None},
            payload : Requests \cup {NoRequest}, instance : Instances \cup {0},
            seen : {None, "active", "gone", "answer", "error"}, attempt : 0..Polls]

\* The types of the whole; a run has a request, and one that watches has its instance.
TypeOK ==
  /\ CallTypeOK
  /\ panel \in PanelType /\ record \in RecordType /\ run \in RunType
  /\ run.phase # None => run.payload \in Requests
  /\ run.phase = "posting" => run.seen = None /\ run.attempt = 0
  /\ run.phase \in {"waiting", "polled"} => run.instance # 0

\* What the panel says of an instance is so: "completed" and "no longer available" mean it
\* has ended, or a restart took it away; a shown answer is its answer; a record that looks
\* busy has a run behind it (execution-panel.tsx:116-128, 311-335).
RecordIsTrue ==
  LET r == record IN
  /\ r.status = "completed" => inst[r.of].at = "ended"
  /\ r.gone => inst[r.of].at \in {"ended", "lost"}
  /\ r.output # None => inst[r.of].data = r.output
  /\ r.status = "running" => run.phase = "posting"
  /\ r.status = "suspended" => run.phase \in {"waiting", "polled"}

StatusesAreTrue == AcceptedIsAnswered /\ RecordIsTrue

Busy == record.status \in {"running", "suspended"}

\* A record does not look busy for ever, unless one single request of the panel is never
\* answered: the post that starts the instance, or one poll of the monitor loop, which
\* never goes round for ever (execution-panel.tsx:303-337).  And every dispatch of the agent
\* comes to an end, since its posts time out and its retries are bounded.
EverythingSettles ==
  /\ Busy ~> \/ ~Busy
             \/ [](run.phase = "posting") \/ [](run.phase = "polled")
  /\ \A i \in Instances :
       post[i].phase \in {"delay", "sending"}
         ~> post[i].phase \notin {"delay", "sending"}
=============================================================================
