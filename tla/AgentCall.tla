----------------------------- MODULE AgentCall ------------------------------
(***************************************************************************)
(* The workflows agent_call and llm_chat (workflows/*.sw.yaml) and the     *)
(* mock agent (AgentResource.java) that answers an asynchronous call by    *)
(* posting an event to a callback URL: the delay before the first post,    *)
(* the retries with the same event, the time-out of a post that may have   *)
(* arrived, and a restart of the runner.  The workflow engine, its event   *)
(* channel and the provider of the model are external: they are modelled   *)
(* from how the workflows and tests use them (a completed instance is      *)
(* evicted, an event for an instance that does not wait is dropped).       *)
(***************************************************************************)
EXTENDS Integers

CONSTANTS MaxInstances,     \* bound: instances the engine starts
          Requests,         \* the requests the clients send
          Attempts,         \* agent.callback.attempts
          MaxRestarts       \* bound: restarts of the runner

Modes == {"llm", "sync", "async", "queued"}    \* "queued": any mode the workflow refuses
Urls  == {"absent", "channel", "elsewhere", "refused", "long"}
Fails == {0, 400, 500}

\* A request body.  wellFormed: the messages of llm_chat, or the agent_request, have the
\* shape the workflow asks for; failWith: what the agent, or the provider, is told to fail
\* with.  A callback URL names this runner's channel, another receiver, or a place the
\* CallbackUrlValidator refuses; "long" is over 2048 characters, "absent" the default of the
\* workflow, which the development and test profiles allow.
Request == [mode : Modes, wellFormed : BOOLEAN, url : Urls, failWith : Fails]

ASSUME CallAssumption == /\ Requests \subseteq Request
                         /\ Attempts \in Int
                         /\ MaxInstances \in Nat /\ MaxRestarts \in Nat

None == "none"
NoRequest == [mode |-> None, wellFormed |-> FALSE, url |-> None, failWith |-> 0]
Instances == 1..MaxInstances       \* ids, in the order of their start
Tries == IF Attempts < 1 THEN 1 ELSE Attempts

VARIABLES inst,      \* inst[i]: state of the workflow, request and data of instance i
          post,      \* post[i]: the agent's dispatch of the event for i
          travelling,\* travelling[i]: its posts that have not arrived
          early,     \* history: instances an event reached before they were suspended
          restarts

callvars == <<inst, post, travelling, early, restarts>>

Unborn   == [at |-> "unborn", request |-> NoRequest, data |-> None]
NoPost   == [phase |-> None, left |-> 0, reply |-> None, status |-> None]
Working  == {"Call LLM", "Call Agent Sync", "Call Agent Async", "accepted", "waiting"}

CallInit ==
  /\ inst = [i \in Instances |-> Unborn]
  /\ post = [i \in Instances |-> NoPost]
  /\ travelling = [i \in Instances |-> {}]
  /\ early = {}
  /\ restarts = 0

-----------------------------------------------------------------------------
(* The workflows.                                                          *)

Ended(i, d) == [inst[i] EXCEPT !.at = "ended", !.data = d]

\* Validate Request, Validate Payload and Route Mode are switches without a wait.
FirstState(r) ==
  CASE ~r.wellFormed \/ r.mode = "queued" \/ r.url = "long" -> "Invalid Request"
    [] r.mode = "llm"   -> "Call LLM"
    [] r.mode = "async" -> "Call Agent Async"
    [] OTHER            -> "Call Agent Sync"

Start(i, r) ==
  /\ inst[i].at = "unborn" /\ \A j \in 1..(i - 1) : inst[j].at # "unborn"
  /\ inst' = [inst EXCEPT ![i] =
       IF FirstState(r) = "Invalid Request"
       THEN [at |-> "ended", request |-> r, data |-> "error"]
       ELSE [at |-> FirstState(r), request |-> r, data |-> None]]
  /\ UNCHANGED <<post, travelling, early, restarts>>

\* A call of the agent, or of the model, that answers in the response.
CallReturns(i) ==
  /\ inst[i].at \in {"Call LLM", "Call Agent Sync"}
  /\ inst' = [inst EXCEPT ![i] =
                Ended(i, IF inst[i].request.failWith = 0 THEN "answer" ELSE "error")]
  /\ UNCHANGED <<post, travelling, early, restarts>>

\* AgentResource.async refuses: the errors of the callback state lead to Agent Call Failed.
Refuses(r) == r.failWith # 0 \/ r.url = "refused"

\* The dispatch of the event starts.
Dispatch(i) ==
  post' = [post EXCEPT ![i] = [phase |-> "delay", left |-> Tries,
                               reply |-> None, status |-> None]]

FireRefused(i) ==
  /\ inst[i].at = "Call Agent Async" /\ Refuses(inst[i].request)
  /\ inst' = [inst EXCEPT ![i] = Ended(i, "error")]
  /\ UNCHANGED <<post, travelling, early, restarts>>

\* The agent starts its dispatch and answers 202; the instance is not suspended yet.
Fire(i) ==
  /\ inst[i].at = "Call Agent Async" /\ ~Refuses(inst[i].request)
  /\ inst' = [inst EXCEPT ![i].at = "accepted"]
  /\ Dispatch(i)
  /\ UNCHANGED <<travelling, early, restarts>>

\* No error of the workflow matches another status than 400 and 500, nor a connect or read
\* time-out: the instance is aborted.  The agent may have started its dispatch by then.
CallAborts(i) ==
  /\ inst[i].at \in {"Call LLM", "Call Agent Sync", "Call Agent Async"}
  /\ inst' = [inst EXCEPT ![i].at = "aborted"]
  /\ \/ UNCHANGED post
     \/ /\ inst[i].at = "Call Agent Async" /\ ~Refuses(inst[i].request)
        /\ Dispatch(i)
  /\ UNCHANGED <<travelling, early, restarts>>

Suspend(i) ==
  /\ inst[i].at = "accepted"
  /\ inst' = [inst EXCEPT ![i].at = "waiting"]
  /\ UNCHANGED <<post, travelling, early, restarts>>

-----------------------------------------------------------------------------
(* The agent posts its event.  A post is known by the attempts left when   *)
(* it was sent; posts that timed out may still travel.                     *)

Send(i) ==
  /\ post[i].phase = "delay"
  /\ post' = [post EXCEPT ![i] = [@ EXCEPT !.phase = "sending", !.reply = None]]
  /\ travelling' = [travelling EXCEPT ![i] = @ \cup {post[i].left}]
  /\ UNCHANGED <<inst, early, restarts>>

IsCurrent(i, n) == post[i].phase = "sending" /\ post[i].left = n

Replied(i, n, reply) ==
  /\ travelling' = [travelling EXCEPT ![i] = @ \ {n}]
  /\ post' = IF IsCurrent(i, n) THEN [post EXCEPT ![i].reply = reply] ELSE post

ToChannel(r) == r.url \in {"absent", "channel"}

\* The channel accepts every event; it resumes the instance if that is suspended.
Arrive(i, n) ==
  /\ n \in travelling[i]
  /\ Replied(i, n, "accepted")
  /\ IF ToChannel(inst[i].request) /\ inst[i].at = "waiting"
     THEN inst' = [inst EXCEPT ![i] = Ended(i, "answer")]
     ELSE UNCHANGED inst
  /\ early' = IF inst[i].at = "accepted" THEN early \cup {i} ELSE early
  /\ UNCHANGED restarts

\* The receiver answers with another status than 2xx, as while it starts.
TurnedAway(i, n) ==
  /\ n \in travelling[i]
  /\ Replied(i, n, "rejected")
  /\ UNCHANGED <<inst, early, restarts>>

Settle(i, s) == post' = [post EXCEPT ![i] = [@ EXCEPT !.phase = "settled", !.status = s]]

\* A mutant: any answer counts as acceptance.
Accepted_AnyReply(i) ==
  /\ post[i].phase = "sending" /\ post[i].reply # None
  /\ Settle(i, "accepted")
  /\ UNCHANGED <<inst, travelling, early, restarts>>

Accepted(i) ==
  /\ post[i].phase = "sending" /\ post[i].reply = "accepted"
  /\ Settle(i, "accepted")
  /\ UNCHANGED <<inst, travelling, early, restarts>>

\* A post fails by its reply, or by the connect or request time-out at any time: an accepted
\* event may be posted again.
Failure(i, s) ==
  /\ post[i].phase = "sending"
  /\ s = "failed" \/ (s = "rejected" /\ post[i].reply = "rejected")

\* A mutant: the last attempt is retried too.
Retry_Unbounded(i) ==
  /\ post[i].phase = "sending"
  /\ post' = [post EXCEPT ![i] = [@ EXCEPT !.phase = "delay", !.reply = None,
                                           !.left = post[i].left - 1]]
  /\ UNCHANGED <<inst, travelling, early, restarts>>

Retry(i) ==
  /\ post[i].phase = "sending" /\ post[i].left > 1
  /\ post' = [post EXCEPT ![i] = [@ EXCEPT !.phase = "delay", !.reply = None,
                                           !.left = post[i].left - 1]]
  /\ UNCHANGED <<inst, travelling, early, restarts>>

GiveUp(i) ==
  /\ post[i].left <= 1
  /\ \E s \in {"rejected", "failed"} : Failure(i, s) /\ Settle(i, s)
  /\ UNCHANGED <<inst, travelling, early, restarts>>

-----------------------------------------------------------------------------
\* Instances are kept in memory.  The agent's dispatches go too when it is the bundled one.
Restart ==
  /\ restarts < MaxRestarts
  /\ restarts' = restarts + 1
  /\ inst' = [i \in Instances |->
                IF inst[i].at \in Working THEN [inst[i] EXCEPT !.at = "lost"] ELSE inst[i]]
  /\ \E bundled \in BOOLEAN :
       post' = [i \in Instances |->
                  IF bundled /\ post[i].phase \in {"delay", "sending"} THEN NoPost ELSE post[i]]
  /\ UNCHANGED <<travelling, early>>

InstanceStep(i) == CallReturns(i) \/ CallAborts(i) \/ FireRefused(i) \/ Fire(i) \/ Suspend(i)
PostStep(i) == Send(i) \/ Accepted(i) \/ Retry(i) \/ GiveUp(i)
NetworkStep(i) == \E n \in 1..Tries : Arrive(i, n) \/ TurnedAway(i, n)

CallNext == \/ \E i \in Instances, r \in Requests : Start(i, r)
            \/ \E i \in Instances : InstanceStep(i) \/ PostStep(i) \/ NetworkStep(i)
            \/ Restart

CallSpec == CallInit /\ [][CallNext]_callvars

\* The engine runs its instances, and every post ends at the latest by its time-out.
CallFairness == \A i \in Instances :
                  WF_callvars(InstanceStep(i)) /\ WF_callvars(PostStep(i))

-----------------------------------------------------------------------------
Ats == {"unborn", "ended", "aborted", "lost"} \cup Working
InstType == [at : Ats, request : Requests \cup {NoRequest}, data : {None, "answer", "error"}]
PostType == [phase : {None, "delay", "sending", "settled"}, left : 0..Tries,
             reply : {None, "accepted", "rejected"},
             status : {None, "accepted", "rejected", "failed"}]

\* A request is known once the instance started, data once it ended; a post on its way has
\* attempts left, and only an asynchronous call has events that travel.
Consistent(x, p, T) ==
  /\ x.at \in {"unborn", "aborted"} \cup Working => x.data = None
  /\ x.at = "ended" => x.data # None
  /\ x.at # "unborn" => x.request \in Requests
  /\ p.phase \in {"delay", "sending"} => p.left >= 1
  /\ T # {} \/ p.phase # None
       => x.at \in {"accepted", "waiting", "ended", "aborted", "lost"}

\* The workflows and the agent keep these types, whatever arrives and whatever is retried.
CallTypeOK ==
  /\ inst \in [Instances -> InstType]
  /\ post \in [Instances -> PostType]
  /\ travelling \in [Instances -> SUBSET (1..Tries)]
  /\ early \subseteq Instances
  /\ restarts \in 0..MaxRestarts
  /\ \A i \in Instances : Consistent(inst[i], post[i], travelling[i])

\* A dispatch that was accepted by the runner's own channel has answered its instance
\* (AgentCallTest.java:114), unless the event came before the instance was suspended,
\* which AgentResource.java:175 means to avoid by its delay, was aborted as the agent's 202
\* did not reach it, or a restart took it away.
AcceptedIsAnswered ==
  \A i \in Instances :
    post[i].status = "accepted" /\ ToChannel(inst[i].request) /\ i \notin early
      => inst[i].at \in {"aborted", "lost"} \/ inst[i].data = "answer"
=============================================================================
