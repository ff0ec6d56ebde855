-------------------------- MODULE AgentCall_proofs --------------------------
(***************************************************************************)
(* Proofs about AgentCall and ExecutionPanel, for every set of requests,   *)
(* number of instances, attempts and restarts: the types, and that what    *)
(* the dispatches and the panel say of an instance is so.                  *)
(***************************************************************************)
EXTENDS ExecutionPanel, TLAPS

LEMMA TriesPositive == Tries \in Nat \ {0}
BY CallAssumption DEF Tries

\* What is known of one instance and its posts.
LEMMA OneOf ==
  ASSUME CallTypeOK, NEW i \in Instances
  PROVE  /\ inst[i] \in InstType /\ post[i] \in PostType
         /\ travelling[i] \in SUBSET (1..Tries)
         /\ Consistent(inst[i], post[i], travelling[i])
BY DEF CallTypeOK

\* A step that changes one instance and its posts keeps the types if the new ones are
\* typed and consistent.
LEMMA Change ==
  ASSUME CallTypeOK, NEW i \in Instances,
         NEW x \in InstType, NEW p \in PostType, NEW T \in SUBSET (1..Tries),
         Consistent(x, p, T),
         inst' = [inst EXCEPT ![i] = x], post' = [post EXCEPT ![i] = p],
         travelling' = [travelling EXCEPT ![i] = T],
         early' \subseteq Instances, restarts' = restarts
  PROVE  CallTypeOK'
<1>1. /\ inst' \in [Instances -> InstType] /\ post' \in [Instances -> PostType]
      /\ travelling' \in [Instances -> SUBSET (1..Tries)]
  BY DEF CallTypeOK
<1>2. ASSUME NEW j \in Instances PROVE Consistent(inst'[j], post'[j], travelling'[j])
  <2>1. CASE j = i
    BY <2>1 DEF CallTypeOK
  <2>2. CASE j # i
    BY <2>2 DEF CallTypeOK
  <2> QED BY <2>1, <2>2
<1> QED BY <1>1, <1>2 DEF CallTypeOK

LEMMA ChangeInstance ==
  ASSUME CallTypeOK, NEW i \in Instances, NEW x \in InstType,
         Consistent(x, post[i], travelling[i]),
         inst' = [inst EXCEPT ![i] = x], UNCHANGED <<post, travelling, early, restarts>>
  PROVE  CallTypeOK'
<1>1. /\ post' = [post EXCEPT ![i] = post[i]] /\ early' \subseteq Instances
      /\ travelling' = [travelling EXCEPT ![i] = travelling[i]]
  BY DEF CallTypeOK
<1> QED BY <1>1, OneOf, Change

LEMMA ChangePost ==
  ASSUME CallTypeOK, NEW i \in Instances, NEW p \in PostType, NEW T \in SUBSET (1..Tries),
         Consistent(inst[i], p, T), post' = [post EXCEPT ![i] = p],
         travelling' = [travelling EXCEPT ![i] = T], UNCHANGED <<inst, early, restarts>>
  PROVE  CallTypeOK'
<1>1. inst' = [inst EXCEPT ![i] = inst[i]] /\ early' \subseteq Instances
  BY DEF CallTypeOK
<1> QED BY <1>1, OneOf, Change

-----------------------------------------------------------------------------
LEMMA StartTypes ==
  ASSUME CallTypeOK, NEW i \in Instances, NEW r \in Requests, Start(i, r)
  PROVE  CallTypeOK'
<1> DEFINE x == IF FirstState(r) = "Invalid Request"
                THEN [at |-> "ended", request |-> r, data |-> "error"]
                ELSE [at |-> FirstState(r), request |-> r, data |-> None]
<1>1. FirstState(r) \in {"Invalid Request", "Call LLM", "Call Agent Async", "Call Agent Sync"}
  BY DEF FirstState
<1>2. x \in InstType
  BY <1>1 DEF InstType, Ats, Working
<1>3. inst[i].at = "unborn"
  BY DEF Start
<1>4. travelling[i] = {} /\ post[i].phase = None
  BY <1>3, OneOf DEF Consistent
<1>5. Consistent(x, post[i], travelling[i])
  BY <1>1, <1>4 DEF Consistent, Working, None
<1>6. inst' = [inst EXCEPT ![i] = x] /\ UNCHANGED <<post, travelling, early, restarts>>
  BY DEF Start
<1> HIDE DEF x
<1> QED BY <1>2, <1>5, <1>6, ChangeInstance

\* The record of an instance that ends.
LEMMA EndedTypes ==
  ASSUME CallTypeOK, NEW i \in Instances, inst[i].at # "unborn",
         NEW d \in {"answer", "error"}
  PROVE  /\ Ended(i, d) \in InstType
         /\ \A p, T : Consistent(inst[i], p, T) => Consistent(Ended(i, d), p, T)
<1>1. inst[i] \in InstType /\ inst[i].request \in Requests
  BY OneOf DEF Consistent
<1>2. /\ Ended(i, d) \in InstType
      /\ Ended(i, d).at = "ended" /\ Ended(i, d).data = d
      /\ Ended(i, d).request = inst[i].request
  BY <1>1 DEF Ended, InstType, Ats
<1> QED BY <1>1, <1>2 DEF Consistent, Working, None

LEMMA InstanceStepTypes ==
  ASSUME CallTypeOK, NEW i \in Instances, InstanceStep(i)
  PROVE  CallTypeOK'
<1>0. /\ inst[i] \in InstType /\ post[i] \in PostType /\ travelling[i] \in SUBSET (1..Tries)
      /\ Consistent(inst[i], post[i], travelling[i])
  BY OneOf
<1>1. CASE CallReturns(i)
  <2> DEFINE d == IF inst[i].request.failWith = 0 THEN "answer" ELSE "error"
  <2>1. /\ inst[i].at # "unborn" /\ d \in {"answer", "error"}
        /\ inst' = [inst EXCEPT ![i] = Ended(i, d)]
        /\ UNCHANGED <<post, travelling, early, restarts>>
    BY <1>1 DEF CallReturns
  <2> HIDE DEF d
  <2> QED BY <1>0, <2>1, EndedTypes, ChangeInstance
<1>2. CASE FireRefused(i)
  <2>1. /\ inst[i].at # "unborn" /\ inst' = [inst EXCEPT ![i] = Ended(i, "error")]
        /\ UNCHANGED <<post, travelling, early, restarts>>
    BY <1>2 DEF FireRefused
  <2> QED BY <1>0, <2>1, EndedTypes, ChangeInstance
<1>3. CASE Fire(i)
  <2> DEFINE x == [inst[i] EXCEPT !.at = "accepted"]
             p == [phase |-> "delay", left |-> Tries, reply |-> None, status |-> None]
  <2>1. /\ inst' = [inst EXCEPT ![i] = x] /\ post' = [post EXCEPT ![i] = p]
        /\ travelling' = [travelling EXCEPT ![i] = travelling[i]]
        /\ early' \subseteq Instances /\ restarts' = restarts
    BY <1>3 DEF Fire, Dispatch, CallTypeOK
  <2>2. x \in InstType /\ x.at = "accepted" /\ x.data = inst[i].data
        /\ x.request = inst[i].request
    BY <1>0 DEF InstType, Ats, Working
  <2>3. p \in PostType
    BY TriesPositive DEF PostType
  <2>4. p.phase = "delay" /\ p.left >= 1 /\ inst[i].at = "Call Agent Async"
    <3>1. p.phase = "delay" /\ p.left = Tries /\ Tries >= 1
      BY TriesPositive
    <3> QED BY <1>3, <3>1 DEF Fire
  <2> HIDE DEF x, p
  <2>5. Consistent(x, p, travelling[i])
    BY <1>0, <2>2, <2>4 DEF Consistent, Working
  <2> QED BY <1>0, <2>1, <2>2, <2>3, <2>5, Change
<1>4. CASE Suspend(i)
  <2> DEFINE x == [inst[i] EXCEPT !.at = "waiting"]
  <2>1. /\ inst' = [inst EXCEPT ![i] = x] /\ UNCHANGED <<post, travelling, early, restarts>>
    BY <1>4 DEF Suspend
  <2>2. x \in InstType /\ x.at = "waiting" /\ x.data = inst[i].data
        /\ x.request = inst[i].request
    BY <1>0 DEF InstType, Ats, Working
  <2>3. Consistent(x, post[i], travelling[i])
    BY <1>0, <1>4, <2>2 DEF Suspend, Consistent, Working
  <2> HIDE DEF x
  <2> QED BY <2>1, <2>2, <2>3, ChangeInstance
<1>5. CASE CallAborts(i)
  <2> DEFINE x == [inst[i] EXCEPT !.at = "aborted"]
             d == [phase |-> "delay", left |-> Tries, reply |-> None, status |-> None]
  <2>1. /\ inst[i].at \in {"Call LLM", "Call Agent Sync", "Call Agent Async"}
        /\ inst' = [inst EXCEPT ![i] = x]
        /\ travelling' = [travelling EXCEPT ![i] = travelling[i]]
        /\ early' \subseteq Instances /\ restarts' = restarts
    BY <1>5 DEF CallAborts, CallTypeOK
  <2>2. x \in InstType /\ x.at = "aborted" /\ x.data = inst[i].data
        /\ x.request = inst[i].request
    BY <1>0 DEF InstType, Ats
  <2>3. PICK p \in {post[i], d} : post' = [post EXCEPT ![i] = p]
    BY <1>5 DEF CallAborts, Dispatch, CallTypeOK
  <2>4. p \in PostType /\ (p.phase \in {"delay", "sending"} => p.left >= 1)
    <3>1. d \in PostType /\ d.left >= 1
      BY TriesPositive DEF PostType
    <3> HIDE DEF d
    <3> QED BY <1>0, <3>1 DEF Consistent
  <2> HIDE DEF x, d
  <2>5. Consistent(x, p, travelling[i])
    BY <1>0, <2>1, <2>2, <2>4 DEF Consistent, Working
  <2> QED BY <1>0, <2>1, <2>2, <2>3, <2>4, <2>5, Change
<1> QED BY <1>1, <1>2, <1>3, <1>4, <1>5 DEF InstanceStep

\* A post that was on its way stays one, or settles.
LEMMA PostTypes ==
  ASSUME CallTypeOK, NEW i \in Instances, post[i].phase \in {"delay", "sending"},
         NEW p \in PostType, NEW T \in SUBSET (1..Tries),
         p.phase \in {"delay", "sending"} => p.left >= 1,
         post' = [post EXCEPT ![i] = p], travelling' = [travelling EXCEPT ![i] = T],
         UNCHANGED <<inst, early, restarts>>
  PROVE  CallTypeOK'
<1>1. Consistent(inst[i], post[i], travelling[i])
  BY OneOf
<1>2. Consistent(inst[i], p, T)
  BY <1>1 DEF Consistent, None
<1> QED BY <1>2, ChangePost

LEMMA PostStepTypes ==
  ASSUME CallTypeOK, NEW i \in Instances, PostStep(i)
  PROVE  CallTypeOK'
<1>0. /\ post[i] \in PostType /\ post[i].left \in 0..Tries
      /\ travelling[i] \in SUBSET (1..Tries)
      /\ travelling = [travelling EXCEPT ![i] = travelling[i]]
      /\ post[i].phase \in {"delay", "sending"} => post[i].left >= 1
  BY OneOf DEF CallTypeOK, PostType, Consistent
<1>1. CASE Send(i)
  <2> DEFINE p == [post[i] EXCEPT !.phase = "sending", !.reply = None]
             T == travelling[i] \cup {post[i].left}
  <2>1. /\ post[i].phase = "delay" /\ post' = [post EXCEPT ![i] = p]
        /\ travelling' = [travelling EXCEPT ![i] = T] /\ UNCHANGED <<inst, early, restarts>>
    BY <1>1 DEF Send
  <2>2. T \in SUBSET (1..Tries)
    BY <1>0, <2>1, TriesPositive
  <2>3. p \in PostType /\ p.left = post[i].left
    BY <1>0 DEF PostType
  <2> HIDE DEF p, T
  <2> QED BY <1>0, <2>1, <2>2, <2>3, PostTypes
<1>2. CASE Accepted(i)
  <2> DEFINE p == [post[i] EXCEPT !.phase = "settled", !.status = "accepted"]
  <2>1. /\ post[i].phase = "sending" /\ post' = [post EXCEPT ![i] = p]
        /\ UNCHANGED <<inst, travelling, early, restarts>>
    BY <1>2 DEF Accepted, Settle
  <2>2. p \in PostType /\ p.phase = "settled"
    BY <1>0 DEF PostType
  <2> HIDE DEF p
  <2> QED BY <1>0, <2>1, <2>2, PostTypes
<1>3. CASE Retry(i)
  <2> DEFINE p == [post[i] EXCEPT !.phase = "delay", !.reply = None,
                                    !.left = post[i].left - 1]
  <2>1. /\ post[i].phase = "sending" /\ post[i].left > 1 /\ post' = [post EXCEPT ![i] = p]
        /\ UNCHANGED <<inst, travelling, early, restarts>>
    BY <1>3 DEF Retry
  <2>2. post[i].left - 1 \in 0..Tries /\ post[i].left - 1 >= 1
    BY <1>0, <2>1, TriesPositive
  <2>3. p \in PostType /\ p.left >= 1
    BY <1>0, <2>2 DEF PostType
  <2> HIDE DEF p
  <2> QED BY <1>0, <2>1, <2>3, PostTypes
<1>4. CASE GiveUp(i)
  <2>1. PICK s \in {"rejected", "failed"} : Failure(i, s) /\ Settle(i, s)
    BY <1>4 DEF GiveUp
  <2> DEFINE p == [post[i] EXCEPT !.phase = "settled", !.status = s]
  <2>2. /\ post[i].phase = "sending" /\ post' = [post EXCEPT ![i] = p]
        /\ UNCHANGED <<inst, travelling, early, restarts>>
    BY <1>4, <2>1 DEF GiveUp, Failure, Settle
  <2>3. p \in PostType /\ p.phase = "settled"
    BY <1>0 DEF PostType
  <2> HIDE DEF p
  <2> QED BY <1>0, <2>2, <2>3, PostTypes
<1> QED BY <1>1, <1>2, <1>3, <1>4 DEF PostStep

\* An event that arrives, or is turned away, leaves the travelling ones and may be the
\* reply the agent waits for.
LEMMA ReplyTypes ==
  ASSUME CallTypeOK, NEW i \in Instances, NEW n \in travelling[i],
         NEW reply \in {"accepted", "rejected"}, Replied(i, n, reply)
  PROVE  \E p \in PostType, T \in SUBSET (1..Tries) :
           /\ post' = [post EXCEPT ![i] = p] /\ travelling' = [travelling EXCEPT ![i] = T]
           /\ \A x : Consistent(x, post[i], travelling[i]) => Consistent(x, p, T)
<1> DEFINE p == IF IsCurrent(i, n) THEN [post[i] EXCEPT !.reply = reply] ELSE post[i]
           T == travelling[i] \ {n}
<1>0. post[i] \in PostType /\ travelling[i] \in SUBSET (1..Tries)
  BY OneOf
<1>1. p \in PostType /\ p.phase = post[i].phase /\ p.left = post[i].left
  BY <1>0 DEF PostType
<1>2. post' = [post EXCEPT ![i] = p]
  <2>1. CASE IsCurrent(i, n)
    BY <2>1 DEF Replied
  <2>2. CASE ~IsCurrent(i, n)
    BY <2>2 DEF Replied, CallTypeOK
  <2> QED BY <2>1, <2>2
<1>3. travelling' = [travelling EXCEPT ![i] = T] /\ T \in SUBSET (1..Tries)
  BY <1>0 DEF Replied
<1>4. \A x : Consistent(x, post[i], travelling[i]) => Consistent(x, p, T)
  BY <1>1 DEF Consistent
<1> HIDE DEF p, T
<1> QED BY <1>1, <1>2, <1>3, <1>4

LEMMA NetworkStepTypes ==
  ASSUME CallTypeOK, NEW i \in Instances, NetworkStep(i)
  PROVE  CallTypeOK'
<1>0. inst[i] \in InstType /\ Consistent(inst[i], post[i], travelling[i])
  BY OneOf
<1>1. PICK n \in 1..Tries : Arrive(i, n) \/ TurnedAway(i, n)
  BY DEF NetworkStep
<1>2. CASE Arrive(i, n)
  <2>1. PICK p \in PostType, T \in SUBSET (1..Tries) :
          /\ post' = [post EXCEPT ![i] = p] /\ travelling' = [travelling EXCEPT ![i] = T]
          /\ \A x : Consistent(x, post[i], travelling[i]) => Consistent(x, p, T)
    BY <1>2, ReplyTypes DEF Arrive
  <2>2. early' \subseteq Instances /\ restarts' = restarts
    BY <1>2 DEF Arrive, CallTypeOK
  <2>3. CASE inst' = [inst EXCEPT ![i] = Ended(i, "answer")] /\ inst[i].at = "waiting"
    BY <1>0, <2>1, <2>2, <2>3, EndedTypes, Change
  <2>4. CASE inst' = inst
    <3>1. inst' = [inst EXCEPT ![i] = inst[i]]
      BY <2>4 DEF CallTypeOK
    <3> QED BY <1>0, <2>1, <2>2, <3>1, Change
  <2> QED BY <1>2, <2>3, <2>4 DEF Arrive
<1>3. CASE TurnedAway(i, n)
  <2>1. PICK p \in PostType, T \in SUBSET (1..Tries) :
          /\ post' = [post EXCEPT ![i] = p] /\ travelling' = [travelling EXCEPT ![i] = T]
          /\ \A x : Consistent(x, post[i], travelling[i]) => Consistent(x, p, T)
    BY <1>3, ReplyTypes DEF TurnedAway
  <2> QED BY <1>0, <1>3, <2>1, ChangePost DEF TurnedAway
<1> QED BY <1>1, <1>2, <1>3

LEMMA RestartTypes ==
  ASSUME CallTypeOK, Restart
  PROVE  CallTypeOK'
<1>0. PICK bundled \in BOOLEAN :
        post' = [j \in Instances |->
                   IF bundled /\ post[j].phase \in {"delay", "sending"} THEN NoPost ELSE post[j]]
  BY DEF Restart
<1>1. ASSUME NEW j \in Instances
      PROVE  /\ inst'[j] \in InstType /\ post'[j] \in PostType
             /\ Consistent(inst'[j], post'[j], travelling'[j])
  <2> DEFINE x == [inst[j] EXCEPT !.at = "lost"]
  <2>1. /\ inst[j] \in InstType /\ post[j] \in PostType
        /\ Consistent(inst[j], post[j], travelling[j]) /\ travelling' = travelling
    BY OneOf DEF Restart
  <2>2. x \in InstType /\ x.at = "lost" /\ x.data = inst[j].data /\ x.request = inst[j].request
    BY <2>1 DEF InstType, Ats
  <2>3. (inst'[j] = x /\ inst[j].at \in Working) \/ inst'[j] = inst[j]
    BY DEF Restart
  <2>4. NoPost \in PostType /\ NoPost.phase = None
    BY TriesPositive DEF NoPost, PostType
  <2>5. post'[j] = post[j] \/ post'[j] = NoPost
    BY <1>0
  <2> HIDE DEF x
  <2>6. inst'[j] \in InstType /\ post'[j] \in PostType
    BY <2>1, <2>2, <2>3, <2>4, <2>5
  <2>7. Consistent(inst'[j], post[j], travelling[j])
    BY <2>1, <2>2, <2>3 DEF Consistent, Working
  <2>8. Consistent(inst'[j], NoPost, travelling[j])
    BY <2>4, <2>7 DEF Consistent, None
  <2> QED BY <2>1, <2>5, <2>6, <2>7, <2>8
<1>2. /\ inst' \in [Instances -> InstType] /\ post' \in [Instances -> PostType]
      /\ travelling' \in [Instances -> SUBSET (1..Tries)] /\ early' \subseteq Instances
  BY <1>0, <1>1 DEF Restart, CallTypeOK
<1>3. restarts' \in 0..MaxRestarts
  BY CallAssumption DEF Restart, CallTypeOK
<1> QED BY <1>1, <1>2, <1>3 DEF CallTypeOK

\* Type correctness is inductive.
LEMMA CallTypeStep == CallTypeOK /\ [CallNext]_callvars => CallTypeOK'
<1> SUFFICES ASSUME CallTypeOK, [CallNext]_callvars PROVE CallTypeOK'
  OBVIOUS
<1>1. CASE UNCHANGED callvars
  BY <1>1 DEF CallTypeOK, callvars
<1> QED BY <1>1, StartTypes, InstanceStepTypes, PostStepTypes, NetworkStepTypes, RestartTypes
         DEF CallNext

LEMMA CallInitTypes == CallInit => CallTypeOK
<1> SUFFICES ASSUME CallInit PROVE CallTypeOK
  OBVIOUS
<1>1. Unborn \in InstType /\ NoPost \in PostType /\ Consistent(Unborn, NoPost, {})
  BY TriesPositive DEF Unborn, NoPost, InstType, PostType, Ats, Working, Consistent, None
<1> QED BY <1>1, CallAssumption DEF CallInit, CallTypeOK

\* The workflows and the agent keep their types, whatever the network does.
THEOREM CallTypeCorrect == CallSpec => []CallTypeOK
<1> QED BY CallInitTypes, CallTypeStep, PTL DEF CallSpec
-----------------------------------------------------------------------------
(* The execution panel only uses the workflows through their actions.      *)

\* What a step does to the workflows: nothing, a step of theirs, or the start of an instance
\* with the request of the run.
LEMMA PanelCalls ==
  ASSUME TypeOK, [Next]_vars
  PROVE  CallNext \/ UNCHANGED callvars
<1>1. ASSUME NEW w \in Workflows, Mount(w) PROVE UNCHANGED callvars
  BY <1>1 DEF Mount
<1>2. ASSUME NEW p \in PresetIds, SelectPreset(p) PROVE UNCHANGED callvars
  BY <1>2 DEF SelectPreset
<1>3. ASSUME NEW r \in Requests, ExecuteRefused(r) \/ Execute(r) PROVE UNCHANGED callvars
  BY <1>3 DEF ExecuteRefused, Execute
<1>4. CASE StopMonitoring \/ RequestFails
  BY <1>4 DEF StopMonitoring, RequestFails, RunFails
<1>5. CASE PostAnswered \/ PostLost \/ Poll \/ PollAnswered
  BY <1>5 DEF PostAnswered, PostLost, RunFails, Poll, PollAnswered
<1>6. ASSUME NEW i \in Instances, PostArrives(i) PROVE CallNext
  <2>1. run.payload \in Requests
    BY <1>6 DEF PostArrives, TypeOK, None
  <2> QED BY <1>6, <2>1 DEF PostArrives, CallNext
<1>7. ASSUME NEW i \in Instances, NEW r \in Requests, OtherClient(i, r) PROVE CallNext
  BY <1>7 DEF OtherClient, CallNext
<1>8. CASE EngineStep
  BY <1>8 DEF EngineStep, CallNext
<1>9. CASE UNCHANGED vars
  BY <1>9 DEF vars
<1> QED BY <1>1, <1>2, <1>3, <1>4, <1>5, <1>6, <1>7, <1>8, <1>9 DEF Next, RunStep

\* The parts of TypeOK about the panel.
PanelOK ==
  /\ panel \in PanelType /\ record \in RecordType /\ run \in RunType
  /\ run.phase # None => run.payload \in Requests
  /\ run.phase = "posting" => run.seen = None /\ run.attempt = 0
  /\ run.phase \in {"waiting", "polled"} => run.instance # 0

LEMMA NoRunTypes ==
  /\ NoRun \in RunType /\ NoRun.phase = None
  /\ \A s \in {"idle", "running"} : Record(s) \in RecordType
BY PanelAssumption DEF NoRun, RunType, RecordType, Record, None

LEMMA PanelTypes ==
  ASSUME TypeOK, [Next]_vars
  PROVE  PanelOK'
<1>0. PanelOK /\ CallTypeOK /\ panel \in PanelType /\ record \in RecordType /\ run \in RunType
  BY DEF TypeOK, PanelOK
<1>1. ASSUME NEW w \in Workflows, Mount(w) PROVE PanelOK'
  <2>1. Mounted(w) \in PanelType
    BY DEF Mounted, PanelType, PresetIds, Presets
  <2> QED BY <1>1, <2>1, NoRunTypes DEF Mount, PanelOK, None
<1>2. ASSUME NEW p \in PresetIds, SelectPreset(p) PROVE PanelOK'
  <2>1. panel' \in PanelType
    BY <1>0, <1>2 DEF SelectPreset, PanelType
  <2> QED BY <1>0, <1>2, <2>1, NoRunTypes DEF SelectPreset, PanelOK
<1>3. ASSUME NEW s \in {"failed", "timed-out"} PROVE [record EXCEPT !.status = s] \in RecordType
  BY <1>0 DEF RecordType
<1>4. ASSUME NEW r \in Requests, ExecuteRefused(r) PROVE PanelOK'
  BY <1>0, <1>3, <1>4 DEF ExecuteRefused, PanelOK
<1>5. ASSUME NEW r \in Requests, Execute(r) PROVE PanelOK'
  <2> DEFINE n == [NoRun EXCEPT !.phase = "posting", !.preset = panel.preset, !.payload = r]
  <2>1. /\ n \in RunType /\ n.phase = "posting" /\ n.payload = r
        /\ n.seen = None /\ n.attempt = 0
    <3>1. panel.preset \in PresetIds /\ NoRun.seen = None /\ NoRun.attempt = 0
      BY <1>0 DEF PanelType, NoRun
    <3> QED BY <3>1, NoRunTypes DEF RunType
  <2> HIDE DEF n
  <2> QED BY <1>0, <1>5, <2>1, NoRunTypes DEF Execute, PanelOK, n
<1>6. CASE StopMonitoring \/ RequestFails \/ PostLost
  <2>1. /\ run' = NoRun /\ panel' = panel
        /\ \E s \in {"failed", "timed-out"} : record' = [record EXCEPT !.status = s]
    BY <1>6 DEF StopMonitoring, RequestFails, PostLost, RunFails
  <2> QED BY <1>0, <1>3, <2>1, NoRunTypes DEF PanelOK, None
<1>7. ASSUME NEW i \in Instances, PostArrives(i) PROVE PanelOK'
  <2> DEFINE n == [run EXCEPT !.instance = i]
  <2>1. /\ n \in RunType /\ n.phase = run.phase /\ n.payload = run.payload
        /\ n.seen = run.seen /\ n.attempt = run.attempt
    BY <1>0 DEF RunType
  <2>2. run' = n /\ run.phase = "posting"
    BY <1>7 DEF PostArrives
  <2> HIDE DEF n
  <2> QED BY <1>0, <1>7, <2>1, <2>2 DEF PostArrives, PanelOK
<1>8. CASE PostAnswered
  <2>1. run.instance \in Instances /\ run.phase = "posting"
    BY <1>0, <1>8 DEF PostAnswered, RunType
  <2>2. inst[run.instance].data \in {None, "answer", "error"}
    BY <1>0, <2>1 DEF CallTypeOK, InstType
  <2>3. record' \in RecordType
    BY <1>0, <1>8, <2>1, <2>2 DEF PostAnswered, RecordType
  <2> DEFINE n == [run EXCEPT !.phase = "waiting"]
  <2>4. /\ n \in RunType /\ n.phase = "waiting" /\ n.payload = run.payload
        /\ n.instance = run.instance
    BY <1>0 DEF RunType
  <2>5. run' = n \/ run' = NoRun
    BY <1>8 DEF PostAnswered
  <2> HIDE DEF n
  <2>6. run.instance # 0 /\ panel' = panel
    BY <1>8 DEF PostAnswered
  <2> QED BY <1>0, <2>1, <2>3, <2>4, <2>5, <2>6, NoRunTypes DEF PanelOK, None
<1>9. CASE Poll
  <2>1. run.phase = "waiting" /\ run.instance \in Instances
    BY <1>0, <1>9 DEF Poll, PanelOK, RunType
  <2>2. inst[run.instance].data \in {None, "answer", "error"}
    BY <1>0, <2>1 DEF CallTypeOK, InstType
  <2>3. PICK seen \in {None, "active", "gone", "answer", "error"} :
          run' = [run EXCEPT !.phase = "polled", !.seen = seen]
    BY <1>9, <2>2 DEF Poll
  <2>4. /\ run' \in RunType /\ run'.phase = "polled" /\ run'.payload = run.payload
        /\ run'.instance = run.instance
    BY <1>0, <2>3 DEF RunType
  <2> QED BY <1>0, <1>9, <2>1, <2>4 DEF Poll, PanelOK, None
<1>10. CASE PollAnswered
  <2>1. run.phase = "polled" /\ run.instance \in Instances
    BY <1>0, <1>10 DEF PollAnswered, PanelOK, RunType
  <2>2. ASSUME NEW st \in {"suspended", "completed", "timed-out"},
               NEW o \in {None, "answer", "error"}, NEW g \in BOOLEAN, Shows(st, o, g)
        PROVE  record' \in RecordType
    BY <1>0, <2>1, <2>2 DEF Shows, RecordType
  <2>3. /\ run.seen \in {None, "active", "gone", "answer", "error"} /\ record.gone \in BOOLEAN
        /\ record.output \in {None, "answer", "error"} /\ run.attempt \in 0..Polls
    BY <1>0 DEF RunType, RecordType
  <2>4. record' \in RecordType
    BY <1>10, <2>2, <2>3 DEF PollAnswered
  <2> DEFINE n == [run EXCEPT !.phase = "waiting", !.seen = None, !.attempt = @ + 1]
  <2>5. run' = NoRun \/ (run' = n /\ run.attempt + 1 < Polls)
    BY <1>10 DEF PollAnswered
  <2>6. ASSUME run.attempt + 1 < Polls
        PROVE  /\ n \in RunType /\ n.phase = "waiting" /\ n.payload = run.payload
               /\ n.instance = run.instance
    <3>1. run.attempt + 1 \in 0..Polls
      BY <2>3, <2>6, PanelAssumption
    <3> QED BY <1>0, <3>1 DEF RunType
  <2> HIDE DEF n
  <2>7. panel' = panel
    BY <1>10 DEF PollAnswered
  <2> QED BY <1>0, <2>1, <2>4, <2>5, <2>6, <2>7, NoRunTypes DEF PanelOK, None
<1>11. ASSUME UNCHANGED <<panel, record, run>> PROVE PanelOK'
  BY <1>0, <1>11 DEF PanelOK
<1>12. ASSUME NEW i \in Instances, NEW r \in Requests, OtherClient(i, r) PROVE PanelOK'
  BY <1>11, <1>12 DEF OtherClient
<1>13. CASE EngineStep \/ UNCHANGED vars
  BY <1>11, <1>13 DEF EngineStep, vars
<1> QED BY <1>1, <1>2, <1>4, <1>5, <1>6, <1>7, <1>8, <1>9, <1>10, <1>12, <1>13
        DEF Next, RunStep

LEMMA TypeStep == TypeOK /\ [Next]_vars => TypeOK'
<1> SUFFICES ASSUME TypeOK, [Next]_vars PROVE TypeOK'
  OBVIOUS
<1>1. CallTypeOK'
  BY PanelCalls, CallTypeStep DEF TypeOK
<1> QED BY <1>1, PanelTypes DEF TypeOK, PanelOK

LEMMA InitTypes == Init => TypeOK
<1> SUFFICES ASSUME Init PROVE TypeOK
  OBVIOUS
<1>1. ASSUME NEW w \in Workflows PROVE Mounted(w) \in PanelType
  BY DEF Mounted, PanelType, PresetIds, Presets
<1> QED BY <1>1, CallInitTypes, NoRunTypes DEF Init, PanelInit, TypeOK, None

\* The execution panel, the workflows and the agent keep their types together.
THEOREM TypeCorrect == Spec => []TypeOK
<1> QED BY InitTypes, TypeStep, PTL DEF Spec

\* The panel drives the workflows through their own actions only, so that what is proved of
\* them holds behind the panel.
THEOREM PanelRefinesCalls == Spec => CallSpec
<1>1. TypeOK /\ [Next]_vars => [CallNext]_callvars
  BY PanelCalls
<1>2. Init => CallInit
  BY DEF Init
<1> QED BY <1>1, <1>2, InitTypes, TypeStep, PTL DEF Spec, CallSpec

-----------------------------------------------------------------------------
(* What the agent's dispatches and the execution panel say of an instance  *)
(* is so, for every set of requests, number of instances, attempts and     *)
(* polls.                                                                  *)

Over == {"ended", "lost"}

(* What a dispatch and the events it sent know of their instance: it ended *)
(* by an event, and an accepted one reached it while it was suspended.     *)
Told(x, p, T, tooEarly) ==
  /\ p.phase = None => p.reply = None /\ p.status = None
  /\ (p.phase # None \/ T # {}) /\ x.at = "ended" => x.data = "answer"
  /\ p.reply = "accepted" \/ p.status = "accepted" =>
       (ToChannel(x.request) /\ ~tooEarly => x.at \in {"aborted", "lost"} \/ x.data = "answer")

ToldAll == \A i \in Instances : Told(inst[i], post[i], travelling[i], i \in early)

\* No step touches an instance that is over, and no event is forgotten to be early.
LEMMA OverStays ==
  ASSUME CallTypeOK, [CallNext]_callvars
  PROVE  /\ \A i \in Instances : inst[i].at \in Over => inst'[i] = inst[i]
         /\ early \subseteq early'
  <1>1. \A i \in Instances :
          inst[i].at \in Over => inst[i].at \notin {"unborn"} \cup Working
    BY DEF Over, Working
  <1>2. ASSUME NEW i \in Instances, NEW r \in Requests, Start(i, r)
        PROVE  (\A j \in Instances : inst[j].at \in Over => inst'[j] = inst[j]) /\ early' = early
    BY <1>1, <1>2 DEF Start, CallTypeOK
  <1>3. ASSUME NEW i \in Instances, InstanceStep(i)
        PROVE  (\A j \in Instances : inst[j].at \in Over => inst'[j] = inst[j]) /\ early' = early
    <2>1. inst[i].at \in Working /\ early' = early
      BY <1>3 DEF InstanceStep, CallReturns, CallAborts, FireRefused, Fire, Suspend, Working
    <2>2. \A j \in Instances \ {i} : inst'[j] = inst[j]
      BY <1>3 DEF InstanceStep, CallReturns, CallAborts, FireRefused, Fire, Suspend, CallTypeOK
    <2>3. QED  BY <1>1, <2>1, <2>2
  <1>4. ASSUME NEW i \in Instances, PostStep(i) PROVE inst' = inst /\ early' = early
    BY <1>4 DEF PostStep, Send, Accepted, Retry, GiveUp
  <1>5. ASSUME NEW i \in Instances, NetworkStep(i)
        PROVE  (\A j \in Instances : inst[j].at \in Over => inst'[j] = inst[j])
               /\ early \subseteq early'
    <2>1. early \subseteq early'
      BY <1>5 DEF NetworkStep, Arrive, TurnedAway
    <2>2. \/ inst' = inst
          \/ /\ inst[i].at = "waiting"
             /\ \A j \in Instances \ {i} : inst'[j] = inst[j]
      BY <1>5 DEF NetworkStep, Arrive, TurnedAway, CallTypeOK
    <2>3. QED  BY <2>1, <2>2 DEF Over
  <1>6. CASE Restart
    BY <1>1, <1>6 DEF Restart, CallTypeOK
  <1>7. CASE UNCHANGED callvars
    BY <1>7 DEF callvars
  <1>8. QED  BY <1>2, <1>3, <1>4, <1>5, <1>6, <1>7 DEF CallNext

\* A step that changes one instance and its posts.
LEMMA ToldChange ==
  ASSUME CallTypeOK, ToldAll, NEW i \in Instances,
         NEW x, NEW p, NEW T, early \subseteq early', early' \subseteq early \cup {i},
         inst' = [inst EXCEPT ![i] = x], post' = [post EXCEPT ![i] = p],
         travelling' = [travelling EXCEPT ![i] = T],
         Told(x, p, T, i \in early')
  PROVE  ToldAll'
  <1> SUFFICES ASSUME NEW j \in Instances
               PROVE  Told(inst'[j], post'[j], travelling'[j], j \in early')
    BY DEF ToldAll
  <1>1. CASE j = i
    BY <1>1 DEF CallTypeOK
  <1>2. CASE j # i
    <2>1. /\ inst'[j] = inst[j] /\ post'[j] = post[j] /\ travelling'[j] = travelling[j]
          /\ j \in early' <=> j \in early
      BY <1>2 DEF CallTypeOK
    <2>2. QED  BY <2>1 DEF ToldAll
  <1>3. QED  BY <1>1, <1>2

\* Only an asynchronous instance is ever suspended, and an instance keeps its request.
AsyncOnly ==
  \A i \in Instances :
    inst[i].at \in {"Call Agent Async", "accepted", "waiting"} => inst[i].request.mode = "async"

LEMMA RequestStays ==
  ASSUME CallTypeOK, AsyncOnly, [CallNext]_callvars
  PROVE  /\ AsyncOnly'
         /\ \A i \in Instances : inst[i].at # "unborn" =>
              inst'[i].at # "unborn" /\ inst'[i].request = inst[i].request
  <1> DEFINE Kept(i) == /\ inst[i].at # "unborn" =>
                             inst'[i].at # "unborn" /\ inst'[i].request = inst[i].request
                        /\ inst'[i].at \in {"Call Agent Async", "accepted", "waiting"} =>
                             inst'[i].request.mode = "async"
  <1>0. \A i \in Instances : inst[i] \in InstType
    BY DEF CallTypeOK
  <1>1. \A i \in Instances : inst'[i] = inst[i] => Kept(i)
    BY DEF AsyncOnly
  <1>2. ASSUME NEW i \in Instances, NEW r \in Requests, Start(i, r)
        PROVE  \A j \in Instances : Kept(j)
    <2>1. \A j \in Instances \ {i} : inst'[j] = inst[j]
      BY <1>2 DEF Start, CallTypeOK
    <2>2. Kept(i)
      BY <1>2 DEF Start, CallTypeOK, FirstState
    <2>3. QED  BY <1>1, <2>1, <2>2
  <1>3. ASSUME NEW i \in Instances, InstanceStep(i)
        PROVE  \A j \in Instances : Kept(j)
    <2>1. \A j \in Instances \ {i} : inst'[j] = inst[j]
      BY <1>3 DEF InstanceStep, CallReturns, CallAborts, FireRefused, Fire, Suspend, CallTypeOK
    <2>2. CASE CallReturns(i) \/ FireRefused(i)
      <3>1. PICK d \in {"answer", "error"} : inst' = [inst EXCEPT ![i] = Ended(i, d)]
        BY <2>2 DEF CallReturns, FireRefused
      <3>2. inst'[i].at = "ended" /\ inst'[i].request = inst[i].request
        BY <1>0, <3>1 DEF CallTypeOK, InstType, Ended
      <3>3. Kept(i)
        BY <3>2
      <3> HIDE DEF Kept
      <3>4. QED  BY <1>1, <2>1, <3>3
    <2>3. CASE Fire(i) \/ Suspend(i) \/ CallAborts(i)
      <3>1. PICK a \in {"accepted", "waiting", "aborted"} :
              /\ inst' = [inst EXCEPT ![i].at = a]
              /\ a # "aborted" => inst[i].at \in {"Call Agent Async", "accepted"}
        BY <2>3 DEF Fire, Suspend, CallAborts
      <3>0. inst'[i] = [inst[i] EXCEPT !.at = a]
        BY <3>1 DEF CallTypeOK
      <3>2. inst'[i].at = a /\ inst'[i].request = inst[i].request
        BY <1>0, <3>0 DEF InstType
      <3>3. Kept(i)
        BY <3>1, <3>2 DEF AsyncOnly
      <3> HIDE DEF Kept
      <3>4. QED  BY <1>1, <2>1, <3>3
    <2>4. QED  BY <1>3, <2>2, <2>3 DEF InstanceStep
  <1>4. ASSUME NEW i \in Instances, PostStep(i) PROVE inst' = inst
    BY <1>4 DEF PostStep, Send, Accepted, Retry, GiveUp
  <1>5. ASSUME NEW i \in Instances, NetworkStep(i)
        PROVE  \A j \in Instances : Kept(j)
    <2>0. PICK n \in 1..Tries : Arrive(i, n) \/ TurnedAway(i, n)
      BY <1>5 DEF NetworkStep
    <2>1. inst' = inst \/ inst' = [inst EXCEPT ![i] = Ended(i, "answer")]
      BY <2>0 DEF Arrive, TurnedAway
    <2>2. CASE inst' = inst
      <3> HIDE DEF Kept
      <3>1. QED  BY <1>1, <2>2
    <2>3. CASE inst' = [inst EXCEPT ![i] = Ended(i, "answer")]
      <3>1. \A j \in Instances \ {i} : inst'[j] = inst[j]
        BY <2>3 DEF CallTypeOK
      <3>2. Kept(i)
        BY <1>0, <2>3 DEF CallTypeOK, InstType, Ended
      <3>3. QED  BY <1>1, <3>1, <3>2
    <2>4. QED  BY <2>1, <2>2, <2>3
  <1>6. ASSUME Restart PROVE \A j \in Instances : Kept(j)
    BY <1>0, <1>6 DEF Restart, CallTypeOK, InstType, AsyncOnly
  <1>7. \A i \in Instances : Kept(i)
    <2> HIDE DEF Kept
    <2>1. inst' = inst => \A i \in Instances : Kept(i)
      BY <1>1
    <2>2. UNCHANGED callvars => inst' = inst
      BY DEF callvars
    <2>3. QED  BY <1>2, <1>3, <1>4, <1>5, <1>6, <2>1, <2>2 DEF CallNext
  <1>8. QED  BY <1>7 DEF AsyncOnly

LEMMA Same ==
  ASSUME CallTypeOK, NEW i \in Instances
  PROVE  /\ inst = [inst EXCEPT ![i] = inst[i]] /\ post = [post EXCEPT ![i] = post[i]]
         /\ travelling = [travelling EXCEPT ![i] = travelling[i]]
  BY DEF CallTypeOK

\* What is not yet on its way knows nothing.
LEMMA ToldOfIdle ==
  ASSUME CallTypeOK, ToldAll, NEW i \in Instances,
         inst[i].at \notin {"accepted", "waiting", "ended", "aborted", "lost"}
  PROVE  /\ post[i].phase = None /\ post[i].reply = None /\ post[i].status = None
         /\ travelling[i] = {}
         /\ \A x : Told(x, post[i], travelling[i], i \in early)
  <1>1. post[i].phase = None /\ travelling[i] = {}
    BY OneOf DEF Consistent
  <1>2. post[i].reply = None /\ post[i].status = None
    BY <1>1 DEF ToldAll, Told
  <1>3. QED  BY <1>1, <1>2 DEF Told, None

LEMMA StartTold ==
  ASSUME CallTypeOK, ToldAll, NEW i \in Instances, NEW r \in Requests, Start(i, r)
  PROVE  ToldAll'
  <1>1. PICK x : inst' = [inst EXCEPT ![i] = x]
    BY DEF Start
  <1>2. inst[i].at = "unborn" /\ UNCHANGED <<post, travelling, early>>
    BY DEF Start
  <1>3. Told(x, post[i], travelling[i], i \in early')
    BY <1>2, ToldOfIdle
  <1>4. /\ early \subseteq early' /\ early' \subseteq early \cup {i}
        /\ post' = [post EXCEPT ![i] = post[i]]
        /\ travelling' = [travelling EXCEPT ![i] = travelling[i]]
    BY <1>2, Same
  <1>5. QED  BY <1>1, <1>3, <1>4, ToldChange

LEMMA InstanceStepTold ==
  ASSUME CallTypeOK, ToldAll, NEW i \in Instances, InstanceStep(i)
  PROVE  ToldAll'
  <1>1. CASE CallReturns(i) \/ FireRefused(i)
    <2>1. PICK x : inst' = [inst EXCEPT ![i] = x]
      BY <1>1 DEF CallReturns, FireRefused
    <2>2. /\ inst[i].at \notin {"accepted", "waiting", "ended", "aborted", "lost"}
          /\ UNCHANGED <<post, travelling, early>>
      BY <1>1 DEF CallReturns, FireRefused
    <2>3. Told(x, post[i], travelling[i], i \in early')
      BY <2>2, ToldOfIdle
    <2>4. /\ early \subseteq early' /\ early' \subseteq early \cup {i}
          /\ post' = [post EXCEPT ![i] = post[i]]
          /\ travelling' = [travelling EXCEPT ![i] = travelling[i]]
      BY <2>2, Same
    <2>5. QED  BY <2>1, <2>3, <2>4, ToldChange
  <1>2. CASE Fire(i)
    <2> DEFINE x == [inst[i] EXCEPT !.at = "accepted"]
               p == [phase |-> "delay", left |-> Tries, reply |-> None, status |-> None]
    <2>1. /\ inst' = [inst EXCEPT ![i] = x] /\ post' = [post EXCEPT ![i] = p]
          /\ UNCHANGED <<travelling, early>>
      BY <1>2 DEF Fire, Dispatch
    <2>2. x.at = "accepted"
      BY OneOf DEF InstType
    <2>3. Told(x, p, travelling[i], i \in early')
      BY <2>1, <2>2 DEF Told, None
    <2> HIDE DEF x, p
    <2>4. early \subseteq early' /\ early' \subseteq early \cup {i}
      BY <2>1
    <2>5. travelling' = [travelling EXCEPT ![i] = travelling[i]]
      BY <2>1, Same
    <2>6. QED  BY <2>1, <2>3, <2>4, <2>5, ToldChange
  <1>3. CASE Suspend(i)
    <2> DEFINE x == [inst[i] EXCEPT !.at = "waiting"]
    <2>1. /\ inst' = [inst EXCEPT ![i] = x] /\ inst[i].at = "accepted"
          /\ UNCHANGED <<post, travelling, early>>
      BY <1>3 DEF Suspend
    <2>2. x.at = "waiting" /\ x.request = inst[i].request /\ x.data = inst[i].data
      BY OneOf DEF InstType
    <2>3. Told(x, post[i], travelling[i], i \in early')
      BY <2>1, <2>2 DEF ToldAll, Told
    <2> HIDE DEF x
    <2>4. /\ early \subseteq early' /\ early' \subseteq early \cup {i}
          /\ post' = [post EXCEPT ![i] = post[i]]
          /\ travelling' = [travelling EXCEPT ![i] = travelling[i]]
      BY <2>1, Same
    <2>5. inst' = [inst EXCEPT ![i] = x]
      BY <2>1
    <2>6. QED  BY <2>3, <2>4, <2>5, ToldChange
  <1>4. CASE CallAborts(i)
    <2> DEFINE x == [inst[i] EXCEPT !.at = "aborted"]
               d == [phase |-> "delay", left |-> Tries, reply |-> None, status |-> None]
    <2>1. /\ inst[i].at \notin {"accepted", "waiting", "ended", "aborted", "lost"}
          /\ inst' = [inst EXCEPT ![i] = x] /\ UNCHANGED <<travelling, early>>
      BY <1>4 DEF CallAborts
    <2>2. PICK p \in {post[i], d} : post' = [post EXCEPT ![i] = p]
      BY <1>4 DEF CallAborts, Dispatch, CallTypeOK
    <2>3. x.at = "aborted"
      BY OneOf DEF InstType
    <2>4. Told(x, p, travelling[i], i \in early')
      <3>1. p.phase = None => p.reply = None /\ p.status = None
        BY <2>1, ToldOfIdle DEF None
      <3>2. QED  BY <2>3, <3>1 DEF Told
    <2> HIDE DEF x, d
    <2>5. early \subseteq early' /\ early' \subseteq early \cup {i}
      BY <2>1
    <2>6. travelling' = [travelling EXCEPT ![i] = travelling[i]]
      BY <2>1, Same
    <2>7. QED  BY <2>1, <2>2, <2>4, <2>5, <2>6, ToldChange
  <1>5. QED  BY <1>1, <1>2, <1>3, <1>4 DEF InstanceStep

LEMMA PostStepTold ==
  ASSUME CallTypeOK, ToldAll, NEW i \in Instances, PostStep(i)
  PROVE  ToldAll'
  <1>1. Told(inst[i], post[i], travelling[i], i \in early) /\ post[i] \in PostType
    BY OneOf DEF ToldAll
  <1>2. ASSUME NEW p, NEW T, post' = [post EXCEPT ![i] = p],
               travelling' = [travelling EXCEPT ![i] = T], UNCHANGED <<inst, early>>,
               post[i].phase # None, p.phase # None,
               p.reply = "accepted" \/ p.status = "accepted" => post[i].reply = "accepted"
                                                            \/ post[i].status = "accepted"
        PROVE  ToldAll'
    <2>1. Told(inst[i], p, T, i \in early)
      BY <1>1, <1>2 DEF Told
    <2>2. QED  BY <1>2, <2>1, Same, ToldChange
  <1>3. CASE Send(i)
    <2> DEFINE p == [post[i] EXCEPT !.phase = "sending", !.reply = None]
    <2>1. p.phase = "sending" /\ p.reply = None /\ p.status = post[i].status
      BY <1>1 DEF PostType
    <2>2. /\ post[i].phase = "delay" /\ post' = [post EXCEPT ![i] = p]
          /\ \E T : travelling' = [travelling EXCEPT ![i] = T]
          /\ UNCHANGED <<inst, early>>
      BY <1>3 DEF Send
    <2> HIDE DEF p
    <2>3. QED  BY <1>2, <2>1, <2>2 DEF None
  <1>4. CASE Accepted(i) \/ GiveUp(i)
    <2>1. PICK s \in {"accepted", "rejected", "failed"} :
            /\ post' = [post EXCEPT ![i] = [@ EXCEPT !.phase = "settled", !.status = s]]
            /\ s = "accepted" => post[i].reply = "accepted"
            /\ post[i].phase = "sending" /\ UNCHANGED <<inst, travelling, early>>
      BY <1>4 DEF Accepted, GiveUp, Failure, Settle
    <2> DEFINE p == [post[i] EXCEPT !.phase = "settled", !.status = s]
    <2>2. p.phase = "settled" /\ p.reply = post[i].reply /\ p.status = s
      BY <1>1 DEF PostType
    <2>3. post' = [post EXCEPT ![i] = p]
      BY <2>1
    <2> HIDE DEF p
    <2>4. QED  BY <1>2, <2>1, <2>2, <2>3, Same DEF None
  <1>5. CASE Retry(i)
    <2> DEFINE p == [post[i] EXCEPT !.phase = "delay", !.reply = None,
                                    !.left = post[i].left - 1]
    <2>1. p.phase = "delay" /\ p.reply = None /\ p.status = post[i].status
      BY <1>1 DEF PostType
    <2>2. /\ post[i].phase = "sending" /\ post' = [post EXCEPT ![i] = p]
          /\ UNCHANGED <<inst, travelling, early>>
      BY <1>5 DEF Retry
    <2> HIDE DEF p
    <2>3. QED  BY <1>2, <2>1, <2>2, Same DEF None
  <1>6. QED  BY <1>3, <1>4, <1>5 DEF PostStep

LEMMA NetworkStepTold ==
  ASSUME CallTypeOK, ToldAll, NEW i \in Instances, NetworkStep(i)
  PROVE  ToldAll'
  <1>1. PICK n \in 1..Tries : Arrive(i, n) \/ TurnedAway(i, n)
    BY DEF NetworkStep
  <1>2. /\ Told(inst[i], post[i], travelling[i], i \in early) /\ post[i] \in PostType
        /\ inst[i] \in InstType /\ n \in travelling[i]
        /\ inst[i].at \in {"accepted", "waiting", "ended", "aborted", "lost"}
    BY <1>1, OneOf DEF ToldAll, Arrive, TurnedAway, Consistent
  <1>3. PICK reply \in {"accepted", "rejected"} :
          /\ Replied(i, n, reply)
          /\ reply = "accepted" => Arrive(i, n)
          /\ reply = "rejected" => TurnedAway(i, n)
    BY <1>1 DEF Arrive, TurnedAway
  <1> DEFINE p == IF IsCurrent(i, n) THEN [post[i] EXCEPT !.reply = reply] ELSE post[i]
             T == travelling[i] \ {n}
             x == inst'[i]
  <1>4. post' = [post EXCEPT ![i] = p] /\ travelling' = [travelling EXCEPT ![i] = T]
    BY <1>3, Same DEF Replied
  <1>5. /\ p.phase = post[i].phase /\ p.status = post[i].status
        /\ p.reply # post[i].reply => p.reply = reply /\ post[i].phase = "sending"
    BY <1>2 DEF PostType, IsCurrent
  <1>6. CASE reply = "rejected"
    <2>1. UNCHANGED <<inst, early>>
      BY <1>3, <1>6 DEF TurnedAway
    <2>2. Told(inst[i], p, T, i \in early)
      BY <1>2, <1>5, <1>6 DEF Told, None
    <2> HIDE DEF p, T
    <2>3. QED  BY <1>4, <2>1, <2>2, Same, ToldChange
  <1>7. CASE reply = "accepted"
    <2>1. /\ x = IF ToChannel(inst[i].request) /\ inst[i].at = "waiting"
                 THEN Ended(i, "answer") ELSE inst[i]
          /\ inst' = [inst EXCEPT ![i] = x]
          /\ early' = IF inst[i].at = "accepted" THEN early \cup {i} ELSE early
      BY <1>3, <1>7, Same DEF Arrive, CallTypeOK
    <2>2. /\ Ended(i, "answer").at = "ended" /\ Ended(i, "answer").data = "answer"
          /\ Ended(i, "answer").request = inst[i].request
      BY <1>2 DEF Ended, InstType
    <2>3. Told(x, p, T, i \in early')
      BY <1>2, <1>5, <1>7, <2>1, <2>2 DEF Told, None
    <2> HIDE DEF p, T, x
    <2>4. early \subseteq early' /\ early' \subseteq early \cup {i}
      BY <2>1
    <2>5. QED  BY <1>4, <2>1, <2>3, <2>4, ToldChange
  <1>8. QED  BY <1>6, <1>7

LEMMA RestartTold ==
  ASSUME CallTypeOK, ToldAll, Restart PROVE ToldAll'
  <1> SUFFICES ASSUME NEW i \in Instances
               PROVE  Told(inst'[i], post'[i], travelling'[i], i \in early')
    BY DEF ToldAll
  <1>1. /\ inst'[i] = IF inst[i].at \in Working THEN [inst[i] EXCEPT !.at = "lost"] ELSE inst[i]
        /\ post'[i] \in {post[i], NoPost} /\ UNCHANGED <<travelling, early>>
    BY DEF Restart
  <1>2. inst[i] \in InstType /\ Told(inst[i], post[i], travelling[i], i \in early)
    BY OneOf DEF ToldAll
  <1>3. /\ inst'[i].request = inst[i].request /\ inst'[i].data = inst[i].data
        /\ inst'[i].at = inst[i].at \/ inst'[i].at = "lost"
        /\ inst[i].at = "lost" => inst'[i].at = "lost"
    BY <1>1, <1>2 DEF InstType, Working
  <1>4. NoPost.phase = None /\ NoPost.reply = None /\ NoPost.status = None
    BY DEF NoPost
  <1>5. QED  BY <1>1, <1>2, <1>3, <1>4 DEF Told, None

LEMMA ToldStep ==
  ASSUME CallTypeOK, ToldAll, [CallNext]_callvars PROVE ToldAll'
  <1>1. CASE UNCHANGED callvars
    BY <1>1 DEF ToldAll, callvars
  <1>2. QED  BY <1>1, StartTold, InstanceStepTold, PostStepTold, NetworkStepTold, RestartTold
             DEF CallNext

LEMMA ToldInit == CallInit => ToldAll
  BY DEF CallInit, ToldAll, Told, NoPost, Unborn, None

-----------------------------------------------------------------------------
(* The panel.  What its run saw of the instance it watches is over, what   *)
(* the record shows of a running run is about that instance, and a record  *)
(* with an answer has the instance the answer is of.                       *)
RunKnows ==
  run.phase = "polled" =>
    /\ run.seen \in {"answer", "error"} =>
         inst[run.instance].at = "ended" /\ inst[run.instance].data = run.seen
    /\ run.seen = "gone" => inst[run.instance].at \in Over

RecordFollows ==
  run.phase # None =>
    /\ ~record.gone
    /\ record.output # None => run.phase # "posting" /\ record.of = run.instance

RecordKnows ==
  /\ record.status = "completed" => record.of # 0 /\ inst[record.of].at = "ended"
  /\ record.gone => record.of # 0 /\ inst[record.of].at \in Over
  /\ record.output # None =>
       record.of # 0 /\ inst[record.of].at = "ended" /\ inst[record.of].data = record.output
  /\ record.status = "running" => run.phase = "posting"
  /\ record.status = "suspended" => run.phase \in {"waiting", "polled"}

(* The request of a run fits its preset and is that of its instance.       *)
RunMatches ==
  run.phase # None =>
    /\ run.preset \in PresetIds /\ run.payload.mode = ModeOf(run.preset)
    /\ run.instance # 0 =>
         inst[run.instance].at # "unborn" /\ inst[run.instance].request = run.payload

StatusInv == ToldAll /\ AsyncOnly /\ RunMatches /\ RunKnows /\ RecordFollows /\ RecordKnows

LEMMA RunMatchesStep ==
  ASSUME TypeOK, AsyncOnly, RunMatches, [Next]_vars PROVE RunMatches'
  <1>1. \A i \in Instances : inst[i].at # "unborn" =>
          inst'[i].at # "unborn" /\ inst'[i].request = inst[i].request
    BY PanelCalls, RequestStays DEF TypeOK
  <1>2. run \in RunType /\ run.instance \in Instances \cup {0} /\ CallTypeOK
    BY DEF TypeOK, RunType
  <1>3. ASSUME run' = NoRun \/ run'.phase = None PROVE RunMatches'
    BY <1>3 DEF RunMatches, NoRun
  <1>4. ASSUME run.phase # None, run'.payload = run.payload, run'.preset = run.preset,
               run'.instance = run.instance
        PROVE  RunMatches'
    BY <1>1, <1>2, <1>4 DEF RunMatches
  <1>5. ASSUME UNCHANGED run PROVE RunMatches'
    BY <1>3, <1>4, <1>5
  <1>6. ASSUME NEW r \in Requests, Execute(r) PROVE RunMatches'
    <2>1. /\ run'.payload = r /\ run'.preset = panel.preset /\ run'.instance = 0
          /\ Valid(panel.preset, r) /\ panel.preset \in PresetIds
      BY <1>6 DEF Execute, NoRun, TypeOK, PanelType
    <2>2. QED  BY <2>1 DEF RunMatches, Valid
  <1>7. ASSUME NEW i \in Instances, PostArrives(i) PROVE RunMatches'
    <2>1. /\ run.phase = "posting" /\ run'.instance = i /\ run'.payload = run.payload
          /\ run'.preset = run.preset
      BY <1>2, <1>7 DEF PostArrives, RunType
    <2>2. inst'[i].request = run.payload /\ inst'[i].at # "unborn"
      BY <1>2, <1>7 DEF PostArrives, Start, CallTypeOK, FirstState
    <2>3. QED  BY <2>1, <2>2 DEF RunMatches, None
  <1>8. CASE PostAnswered \/ Poll \/ PollAnswered
    <2>1. /\ run.phase # None
          /\ \/ run' = NoRun
             \/ /\ run'.payload = run.payload /\ run'.preset = run.preset
                /\ run'.instance = run.instance
      BY <1>2, <1>8 DEF PostAnswered, Poll, PollAnswered, RunType, None
    <2>2. QED  BY <1>3, <1>4, <2>1
  <1>9. ASSUME NEW w \in Workflows, Mount(w) PROVE RunMatches'
    BY <1>3, <1>9 DEF Mount
  <1>10. CASE StopMonitoring \/ RequestFails \/ PostLost
    BY <1>3, <1>10 DEF StopMonitoring, RequestFails, PostLost, RunFails
  <1>11. ASSUME NEW r \in Requests, ExecuteRefused(r) PROVE RunMatches'
    BY <1>5, <1>11 DEF ExecuteRefused
  <1>12. ASSUME NEW p \in PresetIds, SelectPreset(p) PROVE RunMatches'
    BY <1>5, <1>12 DEF SelectPreset
  <1>13. ASSUME NEW i \in Instances, NEW r \in Requests, OtherClient(i, r) PROVE RunMatches'
    BY <1>5, <1>13 DEF OtherClient
  <1>14. CASE EngineStep \/ UNCHANGED vars
    BY <1>5, <1>14 DEF EngineStep, vars
  <1>15. QED  BY <1>6, <1>7, <1>8, <1>9, <1>10, <1>11, <1>12, <1>13, <1>14 DEF Next, RunStep

\* Where the workflows go on and the panel is left alone.
LEMMA PanelAlone ==
  ASSUME TypeOK, RunKnows, RecordFollows, RecordKnows, UNCHANGED <<record, run>>,
         \A i \in Instances : inst[i].at \in Over => inst'[i] = inst[i]
  PROVE  RunKnows' /\ RecordFollows' /\ RecordKnows'
  <1>1. /\ record.of \in Instances \cup {0}
        /\ run.phase = "polled" => run.instance \in Instances
    BY DEF TypeOK, RecordType, RunType
  <1>2. QED  BY <1>1 DEF RunKnows, RecordFollows, RecordKnows, Over

\* Where the record starts anew.
LEMMA RecordAnew ==
  ASSUME NEW s \in {"idle", "running"}, record' = Record(s)
  PROVE  /\ record'.status = s /\ record'.output = None /\ ~record'.gone /\ record'.of = 0
  BY DEF Record

LEMMA StatusChange ==
  ASSUME TypeOK, NEW s
  PROVE  LET r == [record EXCEPT !.status = s] IN
           /\ r.status = s /\ r.gone = record.gone /\ r.output = record.output
           /\ r.of = record.of
  BY DEF TypeOK, RecordType

LEMMA NoRunPhase == NoRun.phase = None /\ None \notin {"posting", "waiting", "polled"}
  BY DEF NoRun, None

LEMMA PanelStatuses ==
  ASSUME TypeOK, AsyncOnly, RunMatches, RunKnows, RecordFollows, RecordKnows, [Next]_vars
  PROVE  RunKnows' /\ RecordFollows' /\ RecordKnows'
  <1>1. \A i \in Instances : inst[i].at \in Over => inst'[i] = inst[i]
    BY PanelCalls, OverStays DEF TypeOK
  <1>2. /\ run \in RunType /\ record \in RecordType /\ CallTypeOK
        /\ run.phase \in {"waiting", "polled"} => run.instance \in Instances
    BY DEF TypeOK, RunType
  <1>3. ASSUME NEW w \in Workflows, Mount(w) PROVE RunKnows' /\ RecordFollows' /\ RecordKnows'
    <2>1. run' = NoRun /\ record' = Record("idle")
      BY <1>3 DEF Mount
    <2>2. QED  BY <2>1, RecordAnew, NoRunPhase DEF RunKnows, RecordFollows, RecordKnows, None
  <1>4. ASSUME NEW p \in PresetIds, SelectPreset(p)
        PROVE  RunKnows' /\ RecordFollows' /\ RecordKnows'
    <2>1. run' = run /\ record' = Record("idle") /\ inst' = inst
      BY <1>4 DEF SelectPreset, callvars
    <2>2. QED  BY <2>1, RecordAnew DEF RunKnows, RecordFollows, RecordKnows, None
  <1>5. ASSUME NEW r \in Requests, ExecuteRefused(r)
        PROVE  RunKnows' /\ RecordFollows' /\ RecordKnows'
    <2>1. run' = run /\ record' = [record EXCEPT !.status = "failed"] /\ inst' = inst
      BY <1>5 DEF ExecuteRefused, callvars
    <2>2. QED  BY <2>1, StatusChange DEF RunKnows, RecordFollows, RecordKnows
  <1>6. ASSUME NEW r \in Requests, Execute(r)
        PROVE  RunKnows' /\ RecordFollows' /\ RecordKnows'
    <2>1. run'.phase = "posting" /\ record' = Record("running")
      BY <1>6 DEF Execute, NoRun
    <2>2. QED  BY <2>1, RecordAnew DEF RunKnows, RecordFollows, RecordKnows, None
  <1>7. CASE StopMonitoring \/ RequestFails \/ PostLost
    <2>1. /\ run' = NoRun /\ inst' = inst
          /\ \E s \in {"failed", "timed-out"} : record' = [record EXCEPT !.status = s]
      BY <1>7 DEF StopMonitoring, RequestFails, PostLost, RunFails, callvars
    <2>2. QED  BY <2>1, StatusChange, NoRunPhase DEF RunKnows, RecordFollows, RecordKnows
  <1>8. ASSUME NEW i \in Instances, PostArrives(i)
        PROVE  RunKnows' /\ RecordFollows' /\ RecordKnows'
    <2>1. /\ run.phase = "posting" /\ run'.phase = "posting" /\ record' = record
          /\ record.of \in Instances \cup {0}
      BY <1>2, <1>8 DEF PostArrives, RunType, RecordType
    <2>2. QED  BY <1>1, <2>1 DEF RunKnows, RecordFollows, RecordKnows, Over, None
  <1>9. CASE PostAnswered
    <2> DEFINE d == inst[run.instance].data
               watch == run.preset = "agent_async"
    <2>1. /\ run.phase = "posting" /\ run.instance \in Instances /\ run.instance # 0
          /\ inst[run.instance].at \in {"waiting", "ended"} /\ inst' = inst
      BY <1>2, <1>9 DEF PostAnswered, callvars, RunType
    <2>2. /\ record'.of = run.instance /\ record'.gone = record.gone
          /\ record'.status = (IF watch THEN "suspended" ELSE "completed")
          /\ record'.output = (IF watch /\ d = "answer" THEN None ELSE d)
      BY <1>2, <1>9 DEF PostAnswered, RecordType
    <2>3. /\ watch => run'.phase = "waiting" /\ run'.instance = run.instance
          /\ ~watch => run'.phase = None
      BY <1>2, <1>9, NoRunPhase DEF PostAnswered, RunType
    <2>4. ~record.gone
      BY <2>1, NoRunPhase DEF RecordFollows
    <2>5. d # None => inst[run.instance].at = "ended"
      BY <1>2, <2>1, OneOf DEF Consistent, Working
    <2>6. ~watch => inst[run.instance].at = "ended"
      <3>1. /\ inst[run.instance].request = run.payload
            /\ run.payload.mode = ModeOf(run.preset) /\ run.preset \in PresetIds
        BY <2>1, NoRunPhase DEF RunMatches
      <3>2. ~watch => inst[run.instance].request.mode # "async"
        BY <3>1 DEF ModeOf, PresetIds
      <3>3. QED  BY <2>1, <3>2 DEF AsyncOnly
    <2>7. QED  BY <2>1, <2>2, <2>3, <2>4, <2>5, <2>6, NoRunPhase
               DEF RunKnows, RecordFollows, RecordKnows
  <1>10. CASE Poll
    <2>1. /\ run.phase = "waiting" /\ run.instance \in Instances
          /\ record' = record /\ inst' = inst
      BY <1>2, <1>10 DEF Poll, callvars
    <2>2. PICK seen \in CASE inst[run.instance].at = "lost"  -> {"gone"}
                          [] inst[run.instance].at = "ended" -> {"gone", inst[run.instance].data}
                          [] OTHER -> {"active"} :
            run' = [run EXCEPT !.phase = "polled", !.seen = seen]
      BY <1>10 DEF Poll
    <2>3. /\ run'.phase = "polled" /\ run'.seen = seen /\ run'.instance = run.instance
      BY <1>2, <2>2 DEF RunType
    <2>4. /\ seen \in {"answer", "error"} =>
               inst[run.instance].at = "ended" /\ inst[run.instance].data = seen
          /\ seen = "gone" => inst[run.instance].at \in Over
      BY <1>2, <2>1, <2>2, OneOf DEF Over, Consistent, InstType, None
    <2>5. QED  BY <2>1, <2>3, <2>4, NoRunPhase DEF RunKnows, RecordFollows, RecordKnows
  <1>11. CASE PollAnswered
    <2> DEFINE again == run.seen \notin {"gone", "answer"} /\ run.attempt + 1 < Polls
    <2>1. /\ run.phase = "polled" /\ run.instance \in Instances /\ run.instance # 0
          /\ inst' = inst /\ ~record.gone
          /\ record.output # None => record.of = run.instance
      BY <1>2, <1>11, NoRunPhase DEF PollAnswered, callvars, RecordFollows, TypeOK
    <2>2. /\ again => run'.phase = "waiting" /\ run'.instance = run.instance
          /\ ~again => run'.phase = None
      BY <1>2, <1>11, NoRunPhase DEF PollAnswered, RunType
    <2> DEFINE x == inst[run.instance]
    <2>3. record'.of = run.instance
      BY <1>2, <1>11 DEF PollAnswered, Shows, RecordType
    <2>4. RunKnows'
      BY <2>2, NoRunPhase DEF RunKnows
    <2>5. CASE run.seen = "gone"
      <3>1. /\ record'.status = "timed-out" /\ record'.output = record.output
            /\ x.at \in Over /\ ~again
        BY <1>2, <1>11, <2>1, <2>5 DEF PollAnswered, Shows, RecordType, RunKnows
      <3>2. RecordFollows'
        BY <2>2, <3>1 DEF RecordFollows
      <3>3. RecordKnows'
        BY <2>1, <2>3, <3>1 DEF RecordKnows
      <3>4. QED  BY <2>4, <3>2, <3>3
    <2>6. CASE run.seen = "answer"
      <3>1. /\ record'.status = "completed" /\ record'.output = "answer" /\ ~record'.gone
            /\ x.at = "ended" /\ x.data = "answer" /\ ~again
        BY <1>2, <1>11, <2>1, <2>6 DEF PollAnswered, Shows, RecordType, RunKnows
      <3>2. RecordFollows'
        BY <2>2, <3>1 DEF RecordFollows
      <3>3. RecordKnows'
        BY <2>1, <2>3, <3>1 DEF RecordKnows
      <3>4. QED  BY <2>4, <3>2, <3>3
    <2>7. CASE run.seen \notin {"gone", "answer"}
      <3>1. /\ record'.status = (IF again THEN "suspended" ELSE "timed-out")
            /\ record'.output = (IF run.seen = "active" THEN None ELSE run.seen)
            /\ ~record'.gone
        BY <1>2, <1>11, <2>1, <2>7 DEF PollAnswered, Shows, RecordType
      <3>2. record'.output # None =>
              record'.output = run.seen /\ x.at = "ended" /\ x.data = run.seen
        BY <1>2, <2>1, <2>7, <3>1 DEF RunType, RunKnows
      <3> HIDE DEF again
      <3>3. RecordFollows'
        BY <2>2, <2>3, <3>1 DEF RecordFollows
      <3>4. RecordKnows'
        BY <2>1, <2>2, <2>3, <3>1, <3>2 DEF RecordKnows
      <3>5. QED  BY <2>4, <3>3, <3>4
    <2>8. QED  BY <2>5, <2>6, <2>7
  <1>12. ASSUME NEW i \in Instances, NEW r \in Requests, OtherClient(i, r)
         PROVE  RunKnows' /\ RecordFollows' /\ RecordKnows'
    BY <1>1, <1>12, PanelAlone DEF OtherClient
  <1>13. CASE EngineStep \/ UNCHANGED vars
    BY <1>1, <1>13, PanelAlone DEF EngineStep, vars
  <1>14. QED  BY <1>3, <1>4, <1>5, <1>6, <1>7, <1>8, <1>9, <1>10, <1>11, <1>12, <1>13
              DEF Next, RunStep

\* The invariant the statuses rest on.
LEMMA StatusInvariant == Spec => [](TypeOK /\ StatusInv)
  <1>1. Init => StatusInv
    <2> SUFFICES ASSUME Init PROVE StatusInv
      OBVIOUS
    <2>1. run = NoRun /\ record = Record("idle") /\ CallInit
      BY DEF Init, PanelInit
    <2>2. AsyncOnly
      BY <2>1 DEF CallInit, AsyncOnly, Unborn
    <2>3. QED  BY <2>1, <2>2, ToldInit, NoRunPhase
               DEF StatusInv, RunMatches, RunKnows, RecordFollows, RecordKnows, Record, None
  <1>2. TypeOK /\ StatusInv /\ [Next]_vars => StatusInv'
    <2> SUFFICES ASSUME TypeOK, StatusInv, [Next]_vars PROVE StatusInv'
      OBVIOUS
    <2>1. CallTypeOK /\ [CallNext]_callvars
      BY PanelCalls DEF TypeOK
    <2>2. QED  BY <2>1, ToldStep, RequestStays, RunMatchesStep, PanelStatuses DEF StatusInv
  <1>3. QED  BY <1>1, <1>2, InitTypes, TypeStep, PTL DEF Spec

\* What the agent's dispatch and the execution panel say of an instance is so: accepted
\* events that were not early answered it, and the record's completed, gone, answer and
\* busy are true, whatever run is behind it (AgentResource.java, execution-panel.tsx).
THEOREM StatusesStayTrue == Spec => []StatusesAreTrue
  <1>1. TypeOK /\ StatusInv => StatusesAreTrue
    BY DEF StatusInv, ToldAll, Told, RecordKnows, StatusesAreTrue, AcceptedIsAnswered,
       RecordIsTrue, Over
  <1>2. QED  BY <1>1, StatusInvariant, PTL
=============================================================================
