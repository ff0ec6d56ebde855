-------------------------- MODULE RuntimeValidation --------------------------
(***************************************************************************)
(* StudioRuntimeValidationService.java: request threads (Callers) hand a   *)
(* saved workflow to a fixed pool of compiler threads and wait for the     *)
(* result with a timeout.  A semaphore of as many slots as there are       *)
(* threads bounds the work that is admitted; the task gives its slot back  *)
(* itself, when the compiler exits.  What the compiler finds is left out.  *)
(***************************************************************************)
EXTENDS Integers, FiniteSets, Sequences

CONSTANTS
  Callers,      \* request threads
  Concurrency,  \* slots and compiler threads: 1..8, after initialize() has clamped it
  MaxTasks,     \* bound: tasks submitted in one behaviour
  NoTask        \* the caller has submitted nothing

ASSUME ConcurrencyAssumption == Concurrency \in 1..8
ASSUME TasksAssumption == MaxTasks \in Nat /\ NoTask \notin 1..MaxTasks
ASSUME CallersAssumption == IsFiniteSet(Callers)

Tasks == 1..MaxTasks

VARIABLES
  slots,      \* permits the semaphore has left
  caller,     \* caller[c]: the step of validateSaved c takes next
  task,       \* task[c]: the task c waits for
  stage,      \* stage[t]: where task t is
  future,     \* future[t]: what the Future of t holds
  queue,      \* the executor's queue of tasks
  submitted,  \* tasks submitted so far
  accepting   \* FALSE once shutdown() has stopped the executor

vars == <<slots, caller, task, stage, future, queue, submitted, accepting>>

Init ==
  /\ slots = Concurrency
  /\ caller = [c \in Callers |-> "idle"]
  /\ task = [c \in Callers |-> NoTask]
  /\ stage = [t \in Tasks |-> "new"]
  /\ future = [t \in Tasks |-> "pending"]
  /\ queue = <<>>
  /\ submitted = 0
  /\ accepting = TRUE

\* validateSaved returns or throws.
Answer(c) ==
  /\ caller' = [caller EXCEPT ![c] = "idle"]
  /\ task' = [task EXCEPT ![c] = NoTask]

Goto(c, step) == caller' = [caller EXCEPT ![c] = step] /\ UNCHANGED task

----
(* The request thread. *)

\* validateSaved is called; the document is there, or not (not found, not a workflow,
\* validation not enabled).  The bound on tasks is applied here.
Call(c) ==
  /\ caller[c] = "idle"
  /\ submitted + Cardinality({d \in Callers : caller[d] \in {"acquire", "submit"}}) < MaxTasks
  /\ Goto(c, "acquire") \/ Answer(c)
  /\ UNCHANGED <<slots, stage, future, queue, submitted, accepting>>

TryAcquire(c) ==
  /\ caller[c] = "acquire"
  /\ IF slots > 0
     THEN slots' = slots - 1 /\ Goto(c, "submit")
     ELSE Answer(c) /\ UNCHANGED slots
  /\ UNCHANGED <<stage, future, queue, submitted, accepting>>

\* Fault: the Future is not kept.
Submit_NoFuture(c) ==
  /\ caller[c] = "submit"
  /\ accepting
  /\ submitted' = submitted + 1
  /\ queue' = Append(queue, submitted')
  /\ stage' = [stage EXCEPT ![submitted'] = "queued"]
  /\ Goto(c, "wait")
  /\ UNCHANGED <<slots, future, accepting>>

Submit(c) ==
  /\ caller[c] = "submit"
  /\ accepting
  /\ submitted' = submitted + 1
  /\ queue' = Append(queue, submitted')
  /\ stage' = [stage EXCEPT ![submitted'] = "queued"]
  /\ caller' = [caller EXCEPT ![c] = "wait"]
  /\ task' = [task EXCEPT ![c] = submitted']
  /\ UNCHANGED <<slots, future, accepting>>

\* Fault: the slot of a rejected task is kept.
SubmitRejected_Keeps(c) ==
  /\ caller[c] = "submit"
  /\ ~accepting
  /\ Answer(c)
  /\ UNCHANGED <<slots, stage, future, queue, submitted, accepting>>

\* The executor has been shut down: RejectedExecutionException.
SubmitRejected(c) ==
  /\ caller[c] = "submit"
  /\ ~accepting
  /\ slots' = slots + 1
  /\ Answer(c)
  /\ UNCHANGED <<stage, future, queue, submitted, accepting>>

GetResult(c) ==
  /\ caller[c] = "wait" /\ future[task[c]] = "result"
  /\ Answer(c)
  /\ UNCHANGED <<slots, stage, future, queue, submitted, accepting>>

\* Fault: the time-out counts from the start of the compiler.
Expire_Started(c) ==
  /\ caller[c] = "wait" /\ future[task[c]] = "pending" /\ stage[task[c]] = "running"
  /\ Goto(c, "expired")
  /\ UNCHANGED <<slots, stage, future, queue, submitted, accepting>>

\* future.get gives up: the timeout has passed (answered 200 timed-out), or the request
\* thread was interrupted (503).
Expire(c) ==
  /\ caller[c] = "wait" /\ future[task[c]] = "pending"
  /\ Goto(c, "expired")
  /\ UNCHANGED <<slots, stage, future, queue, submitted, accepting>>

\* Fault: the caller gives the slot back itself.
Cancel_Releases(c) ==
  /\ caller[c] = "expired"
  /\ future' = [future EXCEPT ![task[c]] = IF @ = "pending" THEN "cancelled" ELSE @]
  /\ slots' = slots + 1
  /\ Answer(c)
  /\ UNCHANGED <<stage, queue, submitted, accepting>>

\* Fault: the caller leaves and the task goes on.
Cancel_Forgets(c) ==
  /\ caller[c] = "expired"
  /\ Answer(c)
  /\ UNCHANGED <<slots, stage, future, queue, submitted, accepting>>

\* future.cancel(true): of no effect on a future that has its result meanwhile.  The
\* interrupt it sends to a running compiler may or may not make it exit.
Cancel(c) ==
  /\ caller[c] = "expired"
  /\ future' = [future EXCEPT ![task[c]] = IF @ = "pending" THEN "cancelled" ELSE @]
  /\ Answer(c)
  /\ UNCHANGED <<slots, stage, queue, submitted, accepting>>

----
(* The compiler threads. *)

BusyThreads == {t \in Tasks : stage[t] \in {"running", "released"}}

\* A free thread takes the next task.  FutureTask.run returns at once when the future
\* was cancelled while the task was waiting: the callable, and its finally, never run.
Start ==
  /\ queue # <<>>
  /\ Cardinality(BusyThreads) < Concurrency
  /\ queue' = Tail(queue)
  /\ stage' = [stage EXCEPT ![Head(queue)] =
                 IF future[Head(queue)] = "cancelled" THEN "skipped" ELSE "running"]
  /\ UNCHANGED <<slots, caller, task, future, submitted, accepting>>

\* Fault: only a task somebody still waits for gives its slot back.
Release_IfAwaited(t) ==
  /\ stage[t] = "running"
  /\ slots' = IF future[t] = "cancelled" THEN slots ELSE slots + 1
  /\ stage' = [stage EXCEPT ![t] = "released"]
  /\ UNCHANGED <<caller, task, future, queue, submitted, accepting>>

\* compile returns or throws; finally { slots.release() }.
Release(t) ==
  /\ stage[t] = "running"
  /\ slots' = slots + 1
  /\ stage' = [stage EXCEPT ![t] = "released"]
  /\ UNCHANGED <<caller, task, future, queue, submitted, accepting>>

\* The thread sets the future and is free again.
Complete(t) ==
  /\ stage[t] = "released"
  /\ stage' = [stage EXCEPT ![t] = "done"]
  /\ future' = [future EXCEPT ![t] = IF @ = "pending" THEN "result" ELSE @]
  /\ UNCHANGED <<slots, caller, task, queue, submitted, accepting>>

\* executor.shutdownNow(): the tasks in the queue are dropped and the compilers that run
\* are interrupted.  The first n were given to threads of their own, which start them yet.
Shutdown ==
  /\ accepting
  /\ accepting' = FALSE
  /\ \E n \in 0..Concurrency - Cardinality(BusyThreads) :
       /\ n <= Len(queue)
       /\ queue' = SubSeq(queue, 1, n)
       /\ stage' = [t \in Tasks |-> IF \E i \in n + 1..Len(queue) : queue[i] = t
                                   THEN "dropped" ELSE stage[t]]
  /\ UNCHANGED <<slots, caller, task, future, submitted>>

\* The bound is reached and nothing is left to do.
Quiet ==
  /\ \A c \in Callers : caller[c] = "idle"
  /\ \A t \in Tasks : stage[t] \notin {"queued", "running", "released"}
  /\ submitted = MaxTasks
  /\ UNCHANGED vars

CallerStep(c) ==
  \/ TryAcquire(c) \/ Submit(c) \/ SubmitRejected(c) \/ GetResult(c) \/ Expire(c) \/ Cancel(c)

ThreadStep == Start \/ \E t \in Tasks : Release(t) \/ Complete(t)

Next == (\E c \in Callers : Call(c) \/ CallerStep(c)) \/ ThreadStep \/ Shutdown \/ Quiet

Spec == Init /\ [][Next]_vars

\* Request threads and the pool's threads are scheduled, a wait ends at its timeout, and
\* a compiler that is running exits at last.
FairSpec ==
  /\ Spec
  /\ \A c \in Callers : WF_vars(CallerStep(c))
  /\ WF_vars(Start)
  /\ \A t \in Tasks : WF_vars(Release(t)) /\ WF_vars(Complete(t))

----
Stages == {"new", "queued", "running", "released", "done", "skipped", "dropped"}

\* The types of the variables; a caller that waits has a task, and the queue holds tasks
\* that are queued.
TypeOK ==
  /\ slots \in Int
  /\ caller \in [Callers -> {"idle", "acquire", "submit", "wait", "expired"}]
  /\ task \in [Callers -> Tasks \cup {NoTask}]
  /\ stage \in [Tasks -> Stages]
  /\ future \in [Tasks -> {"pending", "result", "cancelled"}]
  /\ queue \in Seq(Tasks)
  /\ submitted \in 0..MaxTasks
  /\ accepting \in BOOLEAN
  /\ \A c \in Callers : caller[c] \in {"wait", "expired"} => task[c] \in Tasks

Admitting == {c \in Callers : caller[c] = "submit"}

\* The tasks that hold a slot; those that were skipped or dropped hold it for good.
Holding == {t \in Tasks : stage[t] \in {"queued", "running", "skipped", "dropped"}}

\* Every slot is free, or held by one caller about to submit or by one task that has not
\* passed its finally: none is given back twice, by a time-out and by the task.
SlotsAccountedFor == slots + Cardinality(Admitting) + Cardinality(Holding) = Concurrency

\* The slots bound the work: no more tasks are waiting or compiling than there are
\* slots, and a slot that is free is never negative.
WorkIsBounded ==
  /\ slots >= 0
  /\ Cardinality({t \in Tasks : stage[t] \in {"queued", "running"}}) <= Concurrency
  /\ Cardinality(BusyThreads) <= Concurrency

\* No work goes on unattended: a task that is not over has a caller that waits for it,
\* or it was cancelled and its compiler interrupted.
AbandonedWorkIsCancelled ==
  \A t \in Tasks :
    stage[t] \in {"queued", "running"} /\ future[t] = "pending" =>
      \E c \in Callers : caller[c] \in {"wait", "expired"} /\ task[c] = t

\* Every call is answered, even if the pool is shut down meanwhile.
EveryCallAnswered == \A c \in Callers : caller[c] = "wait" ~> caller[c] = "idle"

\* A pool with no slot left gets one back, unless slots were lost to tasks that were
\* cancelled before they started or dropped at shutdown.
SlotsComeBack ==
  slots = 0 ~> (slots > 0 \/ \E t \in Tasks : stage[t] \in {"skipped", "dropped"})

\* docs/studio/04 line 55: "A busy validator returns 429".  So there is work when a
\* caller is told busy.
BusyMeansBusy ==
  [][\A c \in Callers :
       accepting /\ caller[c] = "acquire" /\ caller'[c] = "idle" =>
         \/ Admitting # {}
         \/ \E t \in Tasks : stage[t] \in {"queued", "running"}]_vars
=============================================================================
