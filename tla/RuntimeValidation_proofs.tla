---------------------- MODULE RuntimeValidation_proofs ----------------------
(***************************************************************************)
(* The slots of RuntimeValidation are accounted for and bound the work, for *)
(* every number of callers, slots and tasks.                               *)
(***************************************************************************)
EXTENDS RuntimeValidation, FiniteSetTheorems, TLAPS

\* Callers that will submit a task, or have yet to find out whether they may.
Preparing == {c \in Callers : caller[c] \in {"acquire", "submit"}}

\* Every task to come is new, so that its number is free.
TasksInv ==
  /\ submitted + Cardinality(Preparing) <= MaxTasks
  /\ \A t \in Tasks : t > submitted => stage[t] = "new"

\* The queue holds tasks that are queued, each once.
QueueInv ==
  /\ \A i \in 1..Len(queue) : stage[queue[i]] = "queued"
  /\ \A i, j \in 1..Len(queue) : queue[i] = queue[j] => i = j

\* The inductive invariant.
SlotsInv ==
  /\ TypeOK /\ TasksInv /\ QueueInv
  /\ SlotsAccountedFor /\ slots >= 0
  /\ Cardinality(BusyThreads) <= Concurrency

LEMMA TasksFinite ==
  /\ IsFiniteSet(Tasks) /\ Tasks \subseteq Nat
  /\ \A S \in SUBSET Tasks : IsFiniteSet(S) /\ Cardinality(S) \in Nat
  /\ \A S \in SUBSET Callers : IsFiniteSet(S) /\ Cardinality(S) \in Nat
  <1>1. IsFiniteSet(Tasks) /\ Tasks \subseteq Nat
    BY FS_Interval, TasksAssumption DEF Tasks
  <1>2. \A S \in SUBSET Tasks : IsFiniteSet(S)
    BY <1>1, FS_Subset
  <1>3. \A S \in SUBSET Callers : IsFiniteSet(S)
    BY CallersAssumption, FS_Subset
  <1> QED BY <1>1, <1>2, <1>3, FS_CardinalityType

\* One element more, one less, and one exchanged for none.
LEMMA Gains ==
  ASSUME NEW S, NEW T, NEW x, IsFiniteSet(S), x \notin S, T = S \cup {x}
  PROVE  Cardinality(T) = Cardinality(S) + 1
  BY FS_AddElement

LEMMA Loses ==
  ASSUME NEW S, NEW T, NEW x, IsFiniteSet(S), x \in S, T = S \ {x}
  PROVE  Cardinality(T) = Cardinality(S) - 1
  BY FS_RemoveElement

\* A caller that is about to submit leaves Admitting and Preparing.
LEMMA Leaves ==
  ASSUME SlotsInv, NEW c \in Callers, caller[c] = "submit",
         NEW s \in {"idle", "wait"}, caller' = [caller EXCEPT ![c] = s]
  PROVE  /\ Cardinality(Admitting') = Cardinality(Admitting) - 1
         /\ Cardinality(Preparing') = Cardinality(Preparing) - 1
  <1>1. Admitting' = Admitting \ {c} /\ c \in Admitting
    BY DEF SlotsInv, TypeOK, Admitting
  <1>2. Preparing' = Preparing \ {c} /\ c \in Preparing
    BY DEF SlotsInv, TypeOK, Preparing
  <1>3. Admitting \in SUBSET Callers /\ Preparing \in SUBSET Callers
    BY DEF Admitting, Preparing
  <1> QED BY <1>1, <1>2, <1>3, Loses, TasksFinite

\* Steps of callers that neither take a slot nor give one back.
LEMMA Aside ==
  ASSUME SlotsInv, NEW c \in Callers, caller[c] \in {"wait", "expired"},
         NEW s \in {"idle", "expired"}, caller' = [caller EXCEPT ![c] = s]
  PROVE  Admitting' = Admitting /\ Preparing' = Preparing
  BY DEF SlotsInv, TypeOK, Admitting, Preparing

\* What does not depend on the control of the callers stays as it is.
LEMMA SameStages ==
  ASSUME SlotsInv, UNCHANGED <<stage, queue>>
  PROVE  Holding' = Holding /\ BusyThreads' = BusyThreads /\ QueueInv'
  BY DEF SlotsInv, Holding, BusyThreads, QueueInv

LEMMA CallStep ==
  ASSUME SlotsInv, NEW c \in Callers, Call(c)
  PROVE  SlotsInv'
  <1>1. TypeOK'
    BY DEF SlotsInv, TypeOK, Call, Goto, Answer
  <1>2. Admitting' = Admitting
    BY DEF SlotsInv, TypeOK, Call, Goto, Answer, Admitting
  <1>3. Preparing \in SUBSET Callers /\ c \notin Preparing
    BY DEF Call, Preparing
  <1>4. Preparing' = Preparing \/ Preparing' = Preparing \cup {c}
    BY DEF SlotsInv, TypeOK, Call, Goto, Answer, Preparing
  <1>5. Cardinality(Preparing') <= Cardinality(Preparing) + 1
    BY <1>3, <1>4, Gains, TasksFinite
  <1>6. submitted + Cardinality(Preparing) < MaxTasks
    BY DEF Call, Preparing
  <1>7. Cardinality(Preparing) \in Nat /\ Cardinality(Preparing') \in Nat
    BY <1>3, <1>4, TasksFinite
  <1>8. TasksInv'
    BY <1>5, <1>6, <1>7, TasksAssumption DEF SlotsInv, TypeOK, TasksInv, Call
  <1>9. UNCHANGED <<stage, queue, slots>>
    BY DEF Call
  <1> QED BY <1>1, <1>2, <1>8, <1>9, SameStages DEF SlotsInv, SlotsAccountedFor

LEMMA TryAcquireStep ==
  ASSUME SlotsInv, NEW c \in Callers, TryAcquire(c)
  PROVE  SlotsInv'
  <1>1. TypeOK' /\ UNCHANGED <<stage, queue, submitted>>
    BY DEF SlotsInv, TypeOK, TryAcquire, Goto, Answer
  <1>2. Admitting \in SUBSET Callers /\ c \notin Admitting
    BY DEF TryAcquire, Admitting
  <1>3. Preparing \in SUBSET Callers /\ Preparing' \in SUBSET Preparing
    BY DEF SlotsInv, TypeOK, TryAcquire, Goto, Answer, Preparing
  <1>4. Cardinality(Preparing') <= Cardinality(Preparing)
    BY <1>3, TasksFinite, FS_Subset
  <1>5. Cardinality(Preparing) \in Nat /\ Cardinality(Preparing') \in Nat
    BY <1>3, TasksFinite
  <1>6. TasksInv'
    BY <1>1, <1>4, <1>5, TasksAssumption DEF SlotsInv, TypeOK, TasksInv
  <1>7. slots' + Cardinality(Admitting') = slots + Cardinality(Admitting) /\ slots' >= 0
    <2>1. CASE slots > 0
      <3>1. Admitting' = Admitting \cup {c} /\ slots' = slots - 1
        BY <2>1 DEF SlotsInv, TypeOK, TryAcquire, Goto, Admitting
      <3>2. Cardinality(Admitting) \in Nat /\ slots \in Int
        BY <1>2, TasksFinite DEF SlotsInv, TypeOK
      <3> QED BY <2>1, <3>1, <3>2, <1>2, Gains, TasksFinite
    <2>2. CASE ~(slots > 0)
      BY <2>2 DEF SlotsInv, TypeOK, TryAcquire, Answer, Admitting
    <2> QED BY <2>1, <2>2
  <1>8. Cardinality(Holding) \in Nat /\ Cardinality(Admitting) \in Nat /\ Cardinality(Admitting') \in Nat
    BY TasksFinite DEF Holding, Admitting
  <1>9. SlotsAccountedFor'
    BY <1>1, <1>7, <1>8, SameStages DEF SlotsInv, SlotsAccountedFor, TypeOK
  <1> QED BY <1>1, <1>6, <1>7, <1>9, SameStages DEF SlotsInv

LEMMA SubmitRejectedStep ==
  ASSUME SlotsInv, NEW c \in Callers, SubmitRejected(c)
  PROVE  SlotsInv'
  <1>1. TypeOK' /\ UNCHANGED <<stage, queue, submitted>>
    BY DEF SlotsInv, TypeOK, SubmitRejected, Answer
  <1>2. caller[c] = "submit" /\ caller' = [caller EXCEPT ![c] = "idle"] /\ slots' = slots + 1
    BY DEF SubmitRejected, Answer
  <1>3. /\ Cardinality(Admitting') = Cardinality(Admitting) - 1
        /\ Cardinality(Preparing') = Cardinality(Preparing) - 1
    BY <1>2, Leaves
  <1>4. /\ Cardinality(Holding) \in Nat /\ Cardinality(Admitting) \in Nat
        /\ Cardinality(Preparing) \in Nat
    BY TasksFinite DEF Holding, Admitting, Preparing
  <1>5. SlotsAccountedFor' /\ slots' >= 0
    BY <1>1, <1>2, <1>3, <1>4, SameStages DEF SlotsInv, SlotsAccountedFor, TypeOK
  <1>6. TasksInv'
    BY <1>1, <1>3, <1>4, TasksAssumption DEF SlotsInv, TypeOK, TasksInv
  <1> QED BY <1>1, <1>5, <1>6, SameStages DEF SlotsInv

\* GetResult, Expire and Cancel: the slot belongs to the task.
LEMMA WaiterStep ==
  ASSUME SlotsInv, NEW c \in Callers, GetResult(c) \/ Expire(c) \/ Cancel(c)
  PROVE  SlotsInv'
  <1>1. TypeOK'
    BY DEF SlotsInv, TypeOK, GetResult, Expire, Cancel, Goto, Answer
  <1>2. UNCHANGED <<stage, queue, submitted, slots>>
    BY DEF GetResult, Expire, Cancel
  <1>3. Admitting' = Admitting /\ Preparing' = Preparing
    BY Aside DEF GetResult, Expire, Cancel, Goto, Answer
  <1>4. TasksInv'
    BY <1>2, <1>3 DEF SlotsInv, TasksInv
  <1> QED BY <1>1, <1>2, <1>3, <1>4, SameStages DEF SlotsInv, SlotsAccountedFor

\* A new task joins the queue and takes over the slot of its caller.
LEMMA SubmitStep ==
  ASSUME SlotsInv, NEW c \in Callers, Submit(c)
  PROVE  SlotsInv'
  <1> DEFINE t == submitted'
  <1>1. /\ caller[c] = "submit" /\ caller' = [caller EXCEPT ![c] = "wait"]
        /\ t = submitted + 1 /\ queue' = Append(queue, t)
        /\ stage' = [stage EXCEPT ![t] = "queued"]
        /\ task' = [task EXCEPT ![c] = t]
        /\ UNCHANGED <<slots, future, accepting>>
    BY DEF Submit
  <1>2. /\ Cardinality(Admitting') = Cardinality(Admitting) - 1
        /\ Cardinality(Preparing') = Cardinality(Preparing) - 1
    BY <1>1, Leaves
  <1>3. /\ Cardinality(Preparing) \in Nat /\ Cardinality(Preparing') \in Nat
        /\ Cardinality(Admitting) \in Nat /\ Cardinality(Admitting') \in Nat
        /\ Cardinality(Holding) \in Nat
    <2>1. Admitting' \in SUBSET Callers /\ Preparing' \in SUBSET Callers
      BY <1>1 DEF Admitting, Preparing
    <2> QED BY <2>1, TasksFinite DEF Admitting, Preparing, Holding
  <1>4. t \in Tasks /\ stage[t] = "new" /\ submitted \in Nat /\ t <= MaxTasks
    BY <1>1, <1>2, <1>3, TasksAssumption DEF SlotsInv, TypeOK, TasksInv, Tasks
  <1> HIDE DEF t
  <1>5. queue' \in Seq(Tasks) /\ queue \in Seq(Tasks)
    BY <1>1, <1>4 DEF SlotsInv, TypeOK
  <1>6. TypeOK'
    <2>1. submitted' \in 0..MaxTasks
      BY <1>1, <1>4, TasksAssumption DEF t
    <2> QED BY <1>1, <1>4, <1>5, <2>1 DEF SlotsInv, TypeOK, Stages
  <1>7. TasksInv'
    <2>1. submitted' + Cardinality(Preparing') <= MaxTasks
      BY <1>1, <1>2, <1>3, <1>4, TasksAssumption DEF SlotsInv, TasksInv, t
    <2>2. \A u \in Tasks : u > submitted' => stage'[u] = "new"
      BY <1>1, <1>4 DEF SlotsInv, TypeOK, TasksInv, Tasks, t
    <2> QED BY <2>1, <2>2 DEF TasksInv
  <1>8. QueueInv'
    <2>1. Len(queue') = Len(queue) + 1 /\ Len(queue) \in Nat /\ queue'[Len(queue) + 1] = t
      BY <1>1, <1>4, <1>5
    <2>2. \A i \in 1..Len(queue) : queue'[i] = queue[i] /\ queue[i] \in Tasks
      BY <1>1, <1>4, <1>5
    <2>3. \A i \in 1..Len(queue) : queue[i] # t /\ stage'[queue[i]] = "queued"
      BY <1>1, <1>4, <2>2 DEF SlotsInv, QueueInv, TypeOK
    <2>4. stage'[t] = "queued"
      BY <1>1, <1>4 DEF SlotsInv, TypeOK
    <2>5. \A i \in 1..Len(queue') : i \in 1..Len(queue) \/ i = Len(queue) + 1
      BY <2>1
    <2>6. \A i \in 1..Len(queue') : stage'[queue'[i]] = "queued"
      BY <2>1, <2>2, <2>3, <2>4, <2>5
    <2>7. \A i, j \in 1..Len(queue') : queue'[i] = queue'[j] => i = j
      BY <2>1, <2>2, <2>3, <2>5 DEF SlotsInv, QueueInv
    <2> QED BY <2>6, <2>7 DEF QueueInv
  <1>9. Holding' = Holding \cup {t} /\ t \notin Holding /\ BusyThreads' = BusyThreads
    BY <1>1, <1>4 DEF SlotsInv, TypeOK, Holding, BusyThreads
  <1>10. Cardinality(Holding') = Cardinality(Holding) + 1
    BY <1>9, Gains, TasksFinite DEF Holding
  <1>11. SlotsAccountedFor' /\ slots' >= 0
    <2>1. slots' = slots /\ slots \in Int
      BY <1>1 DEF SlotsInv, TypeOK
    <2> QED BY <1>2, <1>3, <1>10, <2>1 DEF SlotsInv, SlotsAccountedFor
  <1> QED BY <1>6, <1>7, <1>8, <1>9, <1>11 DEF SlotsInv

\* Steps of the pool leave the callers alone, and keep a task that is new.
LEMMA PoolTypes ==
  ASSUME SlotsInv, UNCHANGED <<caller, task, submitted>>,
         \A t \in Tasks : stage[t] = "new" => stage'[t] = "new"
  PROVE  Admitting' = Admitting /\ TasksInv'
  BY DEF SlotsInv, TasksInv, Admitting, Preparing

LEMMA StartStep ==
  ASSUME SlotsInv, Start
  PROVE  SlotsInv'
  <1> DEFINE h == Head(queue)
  <1>1. queue \in Seq(Tasks) /\ queue # <<>> /\ queue' = Tail(queue)
    BY DEF SlotsInv, TypeOK, Start
  <1>2. Len(queue) \in Nat /\ 1 \in 1..Len(queue) /\ h = queue[1] /\ h \in Tasks
    BY <1>1
  <1>3. stage[h] = "queued"
    BY <1>2 DEF SlotsInv, QueueInv
  <1>4. PICK s \in {"skipped", "running"} : stage' = [stage EXCEPT ![h] = s]
    BY DEF Start
  <1>5. UNCHANGED <<slots, caller, task, future, submitted, accepting>>
    BY DEF Start
  <1> HIDE DEF h
  <1>6. queue' \in Seq(Tasks) /\ Len(queue') = Len(queue) - 1
    BY <1>1
  <1>7. TypeOK'
    BY <1>2, <1>4, <1>5, <1>6 DEF SlotsInv, TypeOK, Stages
  <1>8. Admitting' = Admitting /\ TasksInv'
    BY <1>2, <1>3, <1>4, <1>5, PoolTypes DEF SlotsInv, TypeOK
  <1>9. QueueInv'
    <2>1. \A i \in 1..Len(queue') : i + 1 \in 1..Len(queue) /\ queue'[i] = queue[i + 1]
      BY <1>1, <1>2, <1>6
    <2>2. \A i \in 1..Len(queue') : queue'[i] # h /\ queue'[i] \in Tasks
      BY <2>1, <1>1, <1>2, <1>6 DEF SlotsInv, QueueInv
    <2>3. \A i \in 1..Len(queue') : stage'[queue'[i]] = "queued"
      BY <2>1, <2>2, <1>2, <1>4 DEF SlotsInv, TypeOK, QueueInv
    <2>4. \A i, j \in 1..Len(queue') : queue'[i] = queue'[j] => i = j
      BY <2>1, <1>2, <1>6 DEF SlotsInv, QueueInv
    <2> QED BY <2>3, <2>4 DEF QueueInv
  <1>10. Holding' = Holding
    BY <1>2, <1>3, <1>4 DEF SlotsInv, TypeOK, Holding
  <1>11. Cardinality(BusyThreads') <= Concurrency
    <2>1. BusyThreads' = BusyThreads \/ (BusyThreads' = BusyThreads \cup {h} /\ h \notin BusyThreads)
      BY <1>2, <1>3, <1>4 DEF SlotsInv, TypeOK, BusyThreads
    <2>2. Cardinality(BusyThreads') <= Cardinality(BusyThreads) + 1
      BY <2>1, Gains, TasksFinite DEF BusyThreads
    <2>3. Cardinality(BusyThreads) < Concurrency
      BY DEF Start
    <2>4. BusyThreads \in SUBSET Tasks /\ BusyThreads' \in SUBSET Tasks
      BY <2>1, <1>2 DEF BusyThreads
    <2> QED BY <2>2, <2>3, <2>4, TasksFinite, ConcurrencyAssumption
  <1> QED BY <1>5, <1>7, <1>8, <1>9, <1>10, <1>11 DEF SlotsInv, SlotsAccountedFor

\* Release and Complete: a task that is not in the queue moves on.
LEMMA ThreadQueue ==
  ASSUME SlotsInv, NEW t \in Tasks, stage[t] \in {"running", "released"},
         NEW s \in {"released", "done"}, stage' = [stage EXCEPT ![t] = s], UNCHANGED queue
  PROVE  QueueInv' /\ stage' \in [Tasks -> Stages]
  <1>1. \A i \in 1..Len(queue) : queue[i] \in Tasks
    BY DEF SlotsInv, TypeOK
  <1> QED BY <1>1 DEF SlotsInv, TypeOK, QueueInv, Stages

LEMMA ReleaseStep ==
  ASSUME SlotsInv, NEW t \in Tasks, Release(t)
  PROVE  SlotsInv'
  <1>1. /\ stage[t] = "running" /\ slots' = slots + 1 /\ stage' = [stage EXCEPT ![t] = "released"]
        /\ UNCHANGED <<caller, task, future, queue, submitted, accepting>>
    BY DEF Release
  <1>2. QueueInv' /\ stage' \in [Tasks -> Stages]
    BY <1>1, ThreadQueue
  <1>3. TypeOK'
    BY <1>1, <1>2 DEF SlotsInv, TypeOK
  <1>4. Admitting' = Admitting /\ TasksInv'
    BY <1>1, PoolTypes DEF SlotsInv, TypeOK
  <1>5. Holding' = Holding \ {t} /\ t \in Holding /\ BusyThreads' = BusyThreads
    BY <1>1 DEF SlotsInv, TypeOK, Holding, BusyThreads
  <1>6. Cardinality(Holding') = Cardinality(Holding) - 1
    BY <1>5, Loses, TasksFinite DEF Holding
  <1>7. Cardinality(Holding) \in Nat /\ Cardinality(Admitting) \in Nat
    BY TasksFinite DEF Holding, Admitting
  <1> QED BY <1>1, <1>2, <1>3, <1>4, <1>5, <1>6, <1>7 DEF SlotsInv, SlotsAccountedFor, TypeOK

LEMMA CompleteStep ==
  ASSUME SlotsInv, NEW t \in Tasks, Complete(t)
  PROVE  SlotsInv'
  <1>1. /\ stage[t] = "released" /\ stage' = [stage EXCEPT ![t] = "done"]
        /\ UNCHANGED <<slots, caller, task, queue, submitted, accepting>>
    BY DEF Complete
  <1>2. QueueInv' /\ stage' \in [Tasks -> Stages]
    BY <1>1, ThreadQueue
  <1>3. future' \in [Tasks -> {"pending", "result", "cancelled"}]
    BY DEF SlotsInv, TypeOK, Complete
  <1>4. TypeOK'
    BY <1>1, <1>2, <1>3 DEF SlotsInv, TypeOK
  <1>5. Admitting' = Admitting /\ TasksInv'
    BY <1>1, PoolTypes DEF SlotsInv, TypeOK
  <1>6. Holding' = Holding /\ BusyThreads' = BusyThreads \ {t} /\ t \in BusyThreads
    BY <1>1 DEF SlotsInv, TypeOK, Holding, BusyThreads
  <1>7. Cardinality(BusyThreads) \in Nat
    BY TasksFinite DEF BusyThreads
  <1>8. Cardinality(BusyThreads') = Cardinality(BusyThreads) - 1
    BY <1>6, Loses, TasksFinite DEF BusyThreads
  <1>9. Cardinality(BusyThreads') <= Concurrency
    BY <1>7, <1>8, ConcurrencyAssumption DEF SlotsInv
  <1> QED BY <1>1, <1>2, <1>4, <1>5, <1>6, <1>9 DEF SlotsInv, SlotsAccountedFor

\* The tasks that are dropped hold their slots for good.
LEMMA ShutdownStep ==
  ASSUME SlotsInv, Shutdown
  PROVE  SlotsInv'
  <1>1. PICK n \in 0..Concurrency - Cardinality(BusyThreads) :
          /\ n <= Len(queue)
          /\ queue' = SubSeq(queue, 1, n)
          /\ stage' = [t \in Tasks |-> IF \E i \in n + 1..Len(queue) : queue[i] = t
                                      THEN "dropped" ELSE stage[t]]
    BY DEF Shutdown
  <1>2. UNCHANGED <<slots, caller, task, future, submitted>> /\ accepting' = FALSE
    BY DEF Shutdown
  <1>3. n \in Nat /\ queue \in Seq(Tasks) /\ Len(queue) \in Nat
    BY <1>1, TasksFinite, ConcurrencyAssumption DEF SlotsInv, TypeOK, BusyThreads
  <1>4. \A i \in 1..Len(queue) : queue[i] \in Tasks /\ stage[queue[i]] = "queued"
    BY <1>3 DEF SlotsInv, QueueInv
  <1>5. /\ queue' \in Seq(Tasks) /\ Len(queue') = n
        /\ \A i \in 1..n : queue'[i] = queue[i] /\ i \in 1..Len(queue)
    BY <1>1, <1>3
  <1>6. \A t \in Tasks : stage'[t] = stage[t] \/ (stage[t] = "queued" /\ stage'[t] = "dropped")
    BY <1>1, <1>3, <1>4
  <1>7. stage' \in [Tasks -> Stages]
    BY <1>1 DEF SlotsInv, TypeOK, Stages
  <1>8. TypeOK'
    BY <1>2, <1>5, <1>7 DEF SlotsInv, TypeOK
  <1>9. Admitting' = Admitting /\ TasksInv'
    BY <1>2, <1>6, PoolTypes
  <1>10. QueueInv'
    <2>1. \A i \in 1..n : ~\E j \in n + 1..Len(queue) : queue[j] = queue[i]
      BY <1>1, <1>3, <1>5 DEF SlotsInv, QueueInv
    <2>2. \A i \in 1..n : stage'[queue'[i]] = "queued"
      BY <2>1, <1>1, <1>4, <1>5
    <2>3. \A i, j \in 1..n : queue'[i] = queue'[j] => i = j
      BY <1>5 DEF SlotsInv, QueueInv
    <2> QED BY <2>2, <2>3, <1>5 DEF QueueInv
  <1>11. Holding' = Holding /\ BusyThreads' = BusyThreads
    BY <1>6 DEF Holding, BusyThreads
  <1> QED BY <1>2, <1>8, <1>9, <1>10, <1>11 DEF SlotsInv, SlotsAccountedFor

LEMMA SlotsInit ==
  ASSUME Init
  PROVE  SlotsInv
  <1>1. TypeOK
    BY ConcurrencyAssumption, TasksAssumption DEF Init, TypeOK, Stages
  <1>2. Admitting = {} /\ Preparing = {} /\ Holding = {} /\ BusyThreads = {}
    BY DEF Init, Admitting, Preparing, Holding, BusyThreads
  <1>3. TasksInv
    BY <1>2, FS_EmptySet, TasksAssumption DEF Init, TasksInv
  <1>4. QueueInv
    BY DEF Init, QueueInv
  <1> QED BY <1>1, <1>2, <1>3, <1>4, FS_EmptySet, ConcurrencyAssumption
       DEF Init, SlotsInv, SlotsAccountedFor

LEMMA SlotsNext ==
  ASSUME SlotsInv, [Next]_vars
  PROVE  SlotsInv'
  <1>1. CASE UNCHANGED vars
    <2>1. TypeOK' /\ TasksInv' /\ QueueInv'
      BY <1>1 DEF vars, SlotsInv, TypeOK, TasksInv, QueueInv, Preparing
    <2>2. Admitting' = Admitting /\ UNCHANGED <<stage, queue, slots>>
      BY <1>1 DEF vars, Admitting
    <2> QED BY <2>1, <2>2, SameStages DEF SlotsInv, SlotsAccountedFor
  <1>2. CASE \E c \in Callers : Call(c) \/ CallerStep(c)
    BY <1>2, CallStep, TryAcquireStep, SubmitStep, SubmitRejectedStep, WaiterStep
       DEF CallerStep
  <1>3. CASE ThreadStep
    BY <1>3, StartStep, ReleaseStep, CompleteStep DEF ThreadStep
  <1>4. CASE Shutdown
    BY <1>4, ShutdownStep
  <1>5. CASE Quiet
    BY <1>5, <1>1 DEF Quiet
  <1> QED BY <1>1, <1>2, <1>3, <1>4, <1>5 DEF Next

\* The inductive invariant holds in every reachable state.
THEOREM SlotsInvariant == Spec => []SlotsInv
  <1>1. Init => SlotsInv
    BY SlotsInit
  <1>2. SlotsInv /\ [Next]_vars => SlotsInv'
    BY SlotsNext
  <1> QED BY <1>1, <1>2, PTL DEF Spec

\* The types of the runtime validation service.
THEOREM TypeCorrect == Spec => []TypeOK
  <1>1. SlotsInv => TypeOK
    BY DEF SlotsInv
  <1> QED BY <1>1, SlotsInvariant, PTL

\* Every slot of the semaphore is free or held by one caller or task, whatever the order
\* in which calls, time-outs, compilers and the shutdown come: none is given back twice.
THEOREM SlotsAreAccountedFor == Spec => []SlotsAccountedFor
  <1>1. SlotsInv => SlotsAccountedFor
    BY DEF SlotsInv
  <1> QED BY <1>1, SlotsInvariant, PTL

\* The slots bound the queue and the compilers, so that the executor's queue, which has
\* no bound of its own, never holds more than Concurrency tasks.
THEOREM WorkStaysBounded == Spec => []WorkIsBounded
  <1>1. SlotsInv => WorkIsBounded
    <2> SUFFICES ASSUME SlotsInv PROVE WorkIsBounded
      OBVIOUS
    <2> DEFINE W == {t \in Tasks : stage[t] \in {"queued", "running"}}
    <2>1. W \in SUBSET Holding /\ W \in SUBSET Tasks /\ Holding \in SUBSET Tasks
          /\ Admitting \in SUBSET Callers
      BY DEF Holding, Admitting
    <2>2. Cardinality(W) <= Cardinality(Holding)
      BY <2>1, TasksFinite, FS_Subset
    <2>3. /\ Cardinality(W) \in Nat /\ Cardinality(Holding) \in Nat
          /\ Cardinality(Admitting) \in Nat
      BY <2>1, TasksFinite
    <2> HIDE DEF W
    <2>4. Cardinality(W) <= Concurrency
      BY <2>2, <2>3, ConcurrencyAssumption DEF SlotsInv, SlotsAccountedFor, TypeOK
    <2> QED BY <2>4 DEF WorkIsBounded, SlotsInv, W
  <1> QED BY <1>1, SlotsInvariant, PTL

\* A task that is unfinished and that nobody has cancelled.
Wanted(t) == stage[t] \in {"queued", "running"} /\ future[t] = "pending"

AwaitedBy(c, t) == caller[c] \in {"wait", "expired"} /\ task[c] = t

LEMMA AwaitedNext ==
  ASSUME SlotsInv, AbandonedWorkIsCancelled, [Next]_vars
  PROVE  AbandonedWorkIsCancelled'
  <1> SUFFICES ASSUME NEW t \in Tasks, Wanted(t)'
               PROVE  \E c \in Callers : AwaitedBy(c, t)'
    BY DEF AbandonedWorkIsCancelled, Wanted, AwaitedBy
  <1>1. Wanted(t) => \E c \in Callers : AwaitedBy(c, t)
    BY DEF AbandonedWorkIsCancelled, Wanted, AwaitedBy
  <1>2. CASE \E c \in Callers : Submit(c)
    <2>1. PICK c \in Callers : Submit(c)
      BY <1>2
    <2>2. CASE t = submitted'
      BY <2>1, <2>2 DEF Submit, AwaitedBy, SlotsInv, TypeOK
    <2>3. CASE t # submitted'
      <3>1. Wanted(t)
        BY <2>1, <2>3 DEF Submit, Wanted, SlotsInv, TypeOK
      <3>2. \A d \in Callers : AwaitedBy(d, t) => AwaitedBy(d, t)'
        BY <2>1 DEF Submit, AwaitedBy, SlotsInv, TypeOK
      <3> QED BY <3>1, <3>2, <1>1
    <2> QED BY <2>2, <2>3
  <1>3. CASE \E c \in Callers : Call(c) \/ TryAcquire(c) \/ SubmitRejected(c)
    <2>1. Wanted(t)
      BY <1>3 DEF Call, TryAcquire, SubmitRejected, Wanted
    <2>2. \A d \in Callers : AwaitedBy(d, t) => AwaitedBy(d, t)'
      BY <1>3 DEF Call, TryAcquire, SubmitRejected, Goto, Answer, AwaitedBy, SlotsInv, TypeOK
    <2> QED BY <2>1, <2>2, <1>1
  <1>4. CASE \E c \in Callers : GetResult(c) \/ Expire(c) \/ Cancel(c)
    <2>1. Wanted(t)
      BY <1>4 DEF GetResult, Expire, Cancel, Wanted, SlotsInv, TypeOK
    <2>2. \A d \in Callers : AwaitedBy(d, t) => AwaitedBy(d, t)'
      BY <1>4 DEF GetResult, Expire, Cancel, Goto, Answer, Wanted, AwaitedBy, SlotsInv, TypeOK
    <2> QED BY <2>1, <2>2, <1>1
  <1>5. CASE ThreadStep \/ Shutdown \/ Quiet \/ UNCHANGED vars
    <2>1. UNCHANGED <<caller, task>>
      BY <1>5 DEF ThreadStep, Start, Release, Complete, Shutdown, Quiet, vars
    <2>2. Wanted(t)
      <3>1. CASE Start
        <4>1. Head(queue) \in Tasks /\ stage[Head(queue)] = "queued"
          <5>1. queue \in Seq(Tasks) /\ queue # <<>>
            BY <3>1 DEF Start, SlotsInv, TypeOK
          <5>2. 1 \in 1..Len(queue) /\ Head(queue) = queue[1] /\ Head(queue) \in Tasks
            BY <5>1
          <5> QED BY <5>2 DEF SlotsInv, QueueInv
        <4> QED BY <3>1, <4>1 DEF Start, Wanted, SlotsInv, TypeOK
      <3>2. CASE \E u \in Tasks : Release(u) \/ Complete(u)
        BY <3>2 DEF Release, Complete, Wanted, SlotsInv, TypeOK
      <3>3. CASE Shutdown
        BY <3>3 DEF Shutdown, Wanted, SlotsInv, TypeOK
      <3>4. CASE Quiet \/ UNCHANGED vars
        BY <3>4 DEF Quiet, vars, Wanted
      <3> QED BY <1>5, <3>1, <3>2, <3>3, <3>4 DEF ThreadStep
    <2> QED BY <2>1, <2>2, <1>1 DEF AwaitedBy
  <1> QED BY <1>2, <1>3, <1>4, <1>5 DEF Next, CallerStep

\* No task goes on unattended: one that is queued or compiling has a caller that waits
\* for it, until a time-out has cancelled it.
THEOREM NoWorkAbandoned == Spec => []AbandonedWorkIsCancelled
  <1>1. Init => AbandonedWorkIsCancelled
    BY DEF Init, AbandonedWorkIsCancelled
  <1>2. SlotsInv /\ AbandonedWorkIsCancelled /\ [Next]_vars => AbandonedWorkIsCancelled'
    BY AwaitedNext
  <1> QED BY <1>1, <1>2, SlotsInvariant, PTL DEF Spec
=============================================================================
