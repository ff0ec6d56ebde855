----------------------- MODULE DocumentService_proofs -----------------------
(***************************************************************************)
(* Theorems about DocumentService, for every workspace, every set of       *)
(* requests and every bound.                                               *)
(***************************************************************************)
EXTENDS DocumentService, TLAPS

(* TypeOK in three parts: what every step writes through Respond or        *)
(* Proceed, the files, and the count of faults.                            *)
ControlOK ==
  /\ pc \in [Workers -> Phases]
  /\ job \in [Workers -> Job \cup {NoJob}]
  /\ \A w \in Workers : IF pc[w] = "idle" THEN job[w] = NoJob ELSE JobOK(w)
  /\ reply \in [Workers -> {0, 200, 404, 409, 428, 500}]
  /\ served \in 0..MaxRequests
  /\ crashes \in 0..MaxCrashes

FilesOK == files \in [Paths -> File] /\ trash \in [Entries -> Entry]

LEMMA TypeParts == TypeOK <=> ControlOK /\ FilesOK /\ faults \in 0..MaxFaults
  BY DEF TypeOK, ControlOK, FilesOK

\* An answer leaves the threads well typed.
LEMMA RespondControl ==
  ASSUME ControlOK, NEW w \in Workers, NEW s \in {200, 404, 409, 428, 500}, Respond(w, s)
  PROVE  ControlOK'
  <1>1. pc' \in [Workers -> Phases] /\ job' \in [Workers -> Job \cup {NoJob}]
    BY DEF ControlOK, Respond, Phases
  <1>2. ASSUME NEW v \in Workers
        PROVE  IF pc'[v] = "idle" THEN job'[v] = NoJob ELSE JobOK(v)'
    <2>1. CASE v = w
      BY <2>1 DEF ControlOK, Respond
    <2>2. CASE v # w
      <3>1. pc'[v] = pc[v] /\ job'[v] = job[v]
        BY <2>2 DEF ControlOK, Respond
      <3>2. QED  BY <3>1 DEF ControlOK, JobOK
    <2>3. QED  BY <2>1, <2>2
  <1>3. reply' \in [Workers -> {0, 200, 404, 409, 428, 500}] /\ served' \in 0..MaxRequests
        /\ crashes' \in 0..MaxCrashes
    BY DEF ControlOK, Respond
  <1>4. QED  BY <1>1, <1>2, <1>3 DEF ControlOK

\* So does a step to a phase of the operation, with locals of the right type.
LEMMA ProceedControl ==
  ASSUME ControlOK, NEW w \in Workers, NEW j \in Job, NEW phase \in Phases,
         phase # "idle", phase \in PhasesOf(j.req.op),
         j.req.op = "update" /\ phase \notin {"match", "read"} => j.was # Absent,
         j.req.op = "create" => j.plan = {},
         phase \in {"dependents", "undoDependents"} => j.left \subseteq PlanPaths(j.plan),
         Proceed(w, phase, j)
  PROVE  ControlOK'
  <1>1. pc' \in [Workers -> Phases] /\ job' \in [Workers -> Job \cup {NoJob}]
    BY DEF ControlOK, Proceed
  <1>2. ASSUME NEW v \in Workers
        PROVE  IF pc'[v] = "idle" THEN job'[v] = NoJob ELSE JobOK(v)'
    <2>1. CASE v = w
      <3>1. pc'[v] = phase /\ job'[v] = j
        BY <2>1 DEF ControlOK, Proceed
      <3>2. QED  BY <3>1 DEF JobOK
    <2>2. CASE v # w
      <3>1. pc'[v] = pc[v] /\ job'[v] = job[v]
        BY <2>2 DEF ControlOK, Proceed
      <3>2. QED  BY <3>1 DEF ControlOK, JobOK
    <2>3. QED  BY <2>1, <2>2
  <1>3. reply' \in [Workers -> {0, 200, 404, 409, 428, 500}] /\ served' \in 0..MaxRequests
        /\ crashes' \in 0..MaxCrashes
    BY DEF ControlOK, Proceed
  <1>4. QED  BY <1>1, <1>2, <1>3 DEF ControlOK

LEMMA RunningJob ==
  ASSUME ControlOK, NEW w \in Workers, pc[w] # "idle"
  PROVE  /\ job[w] \in Job
         /\ pc[w] \in Phases
         /\ pc[w] \in PhasesOf(job[w].req.op)
         /\ job[w].req.op = "update" /\ pc[w] \notin {"match", "read"} => job[w].was # Absent
         /\ job[w].req.op = "create" => job[w].plan = {}
         /\ pc[w] \in {"dependents", "undoDependents"} =>
              job[w].left \subseteq PlanPaths(job[w].plan)
  BY DEF ControlOK, JobOK

----
(* What the rewriting operators return. *)

LEMMA RefFields ==
  \A r \in Refs : r.path \in Paths \cup {NoPath} /\ r.name \in Ids /\ r.found \in SUBSET Parts
  BY DEF Refs

LEMMA RepointedType ==
  ASSUME NEW c \in Content, NEW p \in Paths, NEW q \in Paths
  PROVE  Repointed(c, p, q) \in Content
  <1>1. c.refs \in SUBSET Refs
    BY DEF Content
  <1>2. ASSUME NEW x \in c.refs PROVE [x EXCEPT !.path = PathAfter(x, p, q)] \in Refs
    <2>1. PathAfter(x, p, q) \in Paths \cup {NoPath}
      <3>1. x.path \in Paths \cup {NoPath}
        BY <1>1, RefFields
      <3>2. x.path \in Paths => PathSplice[<<p, q>>][x.path] \in Paths
        BY SplicesAssumption
      <3>3. QED  BY <3>1, <3>2 DEF PathAfter
    <2>2. QED  BY <1>1, <2>1 DEF Refs
  <1>3. {[x EXCEPT !.path = PathAfter(x, p, q)] : x \in c.refs} \in SUBSET Refs
    BY <1>2
  <1>4. QED  BY <1>3 DEF Content, Repointed

LEMMA ReidentifiedType ==
  ASSUME NEW c \in Content, NEW p \in Paths \cup {NoPath}, NEW n \in Ids, NEW m \in Ids
  PROVE  Reidentified(c, p, n, m) \in Content
  <1> DEFINE named(x) == IF LooksAt(c, p, x) THEN [x EXCEPT !.name = NameAfter(x, p, n, m)] ELSE x
  <1>1. c.refs \in SUBSET Refs
    BY DEF Content
  <1>2. ASSUME NEW x \in c.refs PROVE named(x) \in Refs
    <2>1. NameAfter(x, p, n, m) \in Ids
      <3>1. x.name \in Ids
        BY <1>1, RefFields
      <3>2. NameSplice[<<n, m>>][x.name] \in Ids
        BY <3>1, SplicesAssumption
      <3>3. QED  BY <3>1, <3>2 DEF NameAfter
    <2>2. QED  BY <1>1, <2>1 DEF Refs
  <1>3. {named(x) : x \in c.refs} \in SUBSET Refs
    BY <1>2
  <1>4. QED  BY <1>3 DEF Content, Reidentified

LEMMA PlanOfType ==
  ASSUME NEW p, NEW new, FilesOK, \A q \in Workflows : files[q] # Absent => new[q] \in Content
  PROVE  PlanOf(p, new) \in SUBSET [path : Paths, was : Content, now : Content]
  <1>1. \A q \in Workflows : q \in Paths /\ (files[q] # Absent => files[q] \in Content)
    BY DEF FilesOK, File, Workflows
  <1>2. QED  BY <1>1 DEF PlanOf

LEMMA RewriteOfPlan ==
  ASSUME ControlOK, NEW w \in Workers, pc[w] \in {"dependents", "undoDependents"},
         NEW q \in job[w].left
  PROVE  RewriteOf(w, q) \in job[w].plan /\ RewriteOf(w, q).path = q
  <1>1. \E r \in job[w].plan : r.path = q
    BY RunningJob DEF PlanPaths
  <1>2. QED  BY <1>1 DEF RewriteOf

LEMMA RewriteOfType ==
  ASSUME ControlOK, NEW w \in Workers, pc[w] \in {"dependents", "undoDependents"},
         NEW q \in job[w].left
  PROVE  q \in Paths /\ RewriteOf(w, q).was \in File /\ RewriteOf(w, q).now \in File
  <1>1. job[w].plan \in SUBSET [path : Paths, was : Content, now : Content]
    BY RunningJob DEF Job
  <1>2. QED  BY <1>1, RewriteOfPlan, RunningJob DEF Job, File

----
(* Type correctness. *)

\* Assignments to the locals that keep their type.
LEMMA JobUpdates ==
  ASSUME NEW j \in Job
  PROVE  /\ \A x \in File : [j EXCEPT !.seen = x] \in Job /\ [j EXCEPT !.was = x] \in Job
         /\ \A x \in Paths : [j EXCEPT !.target = x] \in Job
         /\ \A x \in SUBSET Paths : [j EXCEPT !.left = x] \in Job
         /\ \A x \in SUBSET [path : Paths, was : Content, now : Content] :
              [j EXCEPT !.plan = x] \in Job
         /\ \A y \in File : \A x \in SUBSET [path : Paths, was : Content, now : Content] :
              [j EXCEPT !.next = y, !.plan = x] \in Job
  BY DEF Job

LEMMA PlanPathsType ==
  ASSUME NEW j \in Job PROVE PlanPaths(j.plan) \in SUBSET Paths
  BY DEF Job, PlanPaths

LEMMA SubmitType ==
  ASSUME TypeOK, NEW w \in Workers, Submit(w) PROVE TypeOK'
  <1>1. PICK r \in Requests :
          /\ pc' = [pc EXCEPT ![w] = Start(r)]
          /\ job' = [job EXCEPT ![w] =
               [req |-> r, tag |-> TagOf(r),
                entry |-> IF r.op = "restore" THEN r.entry ELSE served + 1,
                target |-> IF r.op = "rename" THEN r.to ELSE r.path, seen |-> Absent,
                was |-> Absent, next |-> r.content, plan |-> {}, left |-> {}, before |-> files,
                since |-> faults]]
    BY DEF Submit
  <1>2. r \in Request
    BY InputsAssumption
  <1>3. served' = served + 1 /\ served' \in 0..MaxRequests /\ served' \in Entries
    BY BoundsAssumption DEF Submit, TypeOK, Entries
  <1>4. TagOf(r) \in File \cup {Stale, AnyTag, NoTag}
    BY <1>2 DEF TagOf, TypeOK, Request
  <1>5. job'[w] \in Job
    <2>1. job'[w] = [req |-> r, tag |-> TagOf(r),
                entry |-> IF r.op = "restore" THEN r.entry ELSE served + 1,
                target |-> IF r.op = "rename" THEN r.to ELSE r.path, seen |-> Absent,
                was |-> Absent, next |-> r.content, plan |-> {}, left |-> {}, before |-> files,
                since |-> faults]
      BY <1>1 DEF TypeOK
    <2>2. (IF r.op = "restore" THEN r.entry ELSE served + 1) \in Entries
      BY <1>2, <1>3 DEF Request, Entries
    <2>3. (IF r.op = "rename" THEN r.to ELSE r.path) \in Paths /\ r.content \in File
      BY <1>2 DEF Request, File
    <2>4. Absent \in File /\ files \in [Paths -> File] /\ faults \in 0..MaxFaults
      BY DEF File, TypeOK
    <2>5. QED  BY <1>2, <1>4, <2>1, <2>2, <2>3, <2>4 DEF Job
  <1>6. Start(r) \in Phases /\ Start(r) # "idle" /\ Start(r) \in PhasesOf(r.op)
        /\ (r.op = "update" => Start(r) = "match")
    BY <1>2 DEF Start, Phases, PhasesOf, Request, Ops
  <1>7. job'[w].req = r /\ job'[w].left = {} /\ job'[w].plan = {} /\ pc'[w] = Start(r)
    BY <1>1 DEF TypeOK
  <1>8. ASSUME NEW v \in Workers
        PROVE  IF pc'[v] = "idle" THEN job'[v] = NoJob ELSE JobOK(v)'
    <2>1. CASE v = w
      BY <1>5, <1>6, <1>7, <2>1 DEF JobOK
    <2>2. CASE v # w
      <3>1. pc'[v] = pc[v] /\ job'[v] = job[v]
        BY <1>1, <2>2 DEF TypeOK
      <3>2. QED  BY <3>1 DEF TypeOK, JobOK
    <2>3. QED  BY <2>1, <2>2
  <1>9. pc' \in [Workers -> Phases] /\ job' \in [Workers -> Job \cup {NoJob}]
    <2>1. job' = [job EXCEPT ![w] = job'[w]]
      BY <1>1 DEF TypeOK
    <2>2. QED  BY <1>1, <1>5, <1>6, <2>1 DEF TypeOK
  <1>10. reply' \in [Workers -> {0, 200, 404, 409, 428, 500}]
    BY DEF Submit, TypeOK
  <1>11. QED  BY <1>3, <1>8, <1>9, <1>10 DEF Submit, TypeOK

LEMMA RefuseType ==
  ASSUME TypeOK, NEW w \in Workers, Refuse(w) PROVE TypeOK'
  <1>1. ControlOK'
    BY RespondControl, TypeParts DEF Refuse, MatchMissing, MatchRefused, Answer
  <1>2. FilesOK' /\ faults' = faults
    BY TypeParts DEF Refuse, MatchMissing, MatchRefused, Answer, FilesOK
  <1>3. QED  BY <1>1, <1>2 DEF TypeOK, ControlOK, FilesOK

LEMMA PrepareType ==
  ASSUME TypeOK, NEW w \in Workers, Prepare(w) PROVE TypeOK'
  <1>1. FilesOK' /\ faults' = faults
    BY TypeParts DEF Prepare, MatchPassed, ReadExisting, Impact, PlanUpdate, PlanRename, Cycle,
       CheckCreate, CheckUpdate, CheckDelete, CheckRename, CheckRestore, Answer, Continue, FilesOK
  <1>2. pc[w] # "idle" /\ ControlOK /\ FilesOK
    BY TypeParts DEF Prepare, MatchPassed, ReadExisting, Impact, PlanUpdate, PlanRename, Cycle,
       CheckCreate, CheckUpdate, CheckDelete, CheckRename, CheckRestore
  <1>3. /\ job[w] \in Job /\ job[w].req \in Request
        /\ pc[w] \in PhasesOf(job[w].req.op)
        /\ job[w].req.op = "update" /\ pc[w] \notin {"match", "read"} => job[w].was # Absent
        /\ job[w].req.op = "create" => job[w].plan = {}
    BY <1>2, RunningJob DEF Job
  <1>4. job[w].req.path \in Paths /\ files[job[w].req.path] \in File
    BY <1>2, <1>3 DEF Request, FilesOK
  <1>5. SUFFICES ControlOK'
    BY <1>1 DEF TypeOK, ControlOK, FilesOK
  <1>6. CASE MatchPassed(w)
    <2> DEFINE j == [job[w] EXCEPT !.seen = files[job[w].req.path]]
    <2>1. j \in Job /\ j.req = job[w].req /\ j.plan = job[w].plan
      BY <1>3, <1>4, JobUpdates DEF Job
    <2>2. Continue(w, AfterMatch(job[w].req.op), j) /\ pc[w] = "match"
      BY <1>6 DEF MatchPassed
    <2>3. job[w].req.op \in {"update", "rename", "delete"}
      BY <1>3, <2>2 DEF PhasesOf, Request, Ops
    <2>4. /\ AfterMatch(job[w].req.op) \in {"read", "check", "impact"}
          /\ AfterMatch(job[w].req.op) \in PhasesOf(job[w].req.op)
          /\ job[w].req.op = "update" => AfterMatch(job[w].req.op) = "read"
      BY <2>3 DEF AfterMatch, PhasesOf
    <2>5. QED  BY <1>2, <1>3, <2>1, <2>2, <2>4, ProceedControl DEF Continue, Phases
  <1>7. CASE ReadExisting(w)
    <2> DEFINE j == [job[w] EXCEPT !.was = files[job[w].req.path]]
    <2>1. j \in Job /\ j.req = job[w].req /\ j.plan = job[w].plan
          /\ j.was = files[job[w].req.path]
      BY <1>3, <1>4, JobUpdates DEF Job
    <2>2. pc[w] = "read" /\ job[w].req.op = "update"
      BY <1>3, <1>7 DEF ReadExisting, PhasesOf, Request, Ops
    <2>3. CASE files[job[w].req.path] = Absent
      BY <1>2, <1>7, <2>3, RespondControl DEF ReadExisting, Answer
    <2>4. CASE files[job[w].req.path] # Absent
      <3>1. Continue(w, "plan", j)
        BY <1>7, <2>4 DEF ReadExisting
      <3>2. QED  BY <1>2, <1>3, <2>1, <2>2, <2>4, <3>1, ProceedControl DEF Continue, Phases, PhasesOf
    <2>5. QED  BY <2>3, <2>4
  <1>8. CASE Impact(w) \/ Cycle(w) \/ CheckCreate(w) \/ CheckUpdate(w) \/ CheckDelete(w)
             \/ CheckRename(w)
    <2>1. \/ \E s \in {404, 409} : Answer(w, s)
          \/ pc[w] = "impact" /\ Continue(w, "check", job[w])
          \/ pc[w] = "cycle" /\ Continue(w, "check", job[w])
          \/ job[w].req.op = "create" /\ Continue(w, "write", job[w])
          \/ pc[w] = "check" /\ job[w].req.op = "update" /\ Continue(w, "write", job[w])
          \/ job[w].req.op = "delete" /\ Continue(w, "move", job[w])
          \/ job[w].req.op = "rename" /\ Continue(w, "plan", job[w])
      BY <1>8 DEF Impact, Cycle, CheckCreate, CheckUpdate, CheckDelete, CheckRename
    <2>2. job[w].req.op \in Ops
      BY <1>3 DEF Request
    <2>3. CASE \E s \in {404, 409} : Answer(w, s)
      BY <1>2, <2>3, RespondControl DEF Answer
    <2>4. CASE ~\E s \in {404, 409} : Answer(w, s)
      <3>1. PICK phase \in {"check", "write", "move", "plan"} :
              /\ Proceed(w, phase, job[w])
              /\ phase \in PhasesOf(job[w].req.op)
              /\ job[w].req.op = "update" => pc[w] \in {"cycle", "check"}
        BY <1>3, <2>1, <2>2, <2>4 DEF Continue, PhasesOf, Ops
      <3>2. QED  BY <1>2, <1>3, <3>1, ProceedControl DEF Phases
    <2>5. QED  BY <2>3, <2>4
  <1>9. CASE CheckRestore(w)
    <2> DEFINE e == trash[job[w].entry]
               j == [job[w] EXCEPT !.target = e.manifest]
    <2>1. e \in Entry /\ job[w].req.op = "restore"
      BY <1>2, <1>3, <1>9 DEF FilesOK, Job, CheckRestore
    <2>2. \/ \E s \in {428, 404, 500, 409} : Answer(w, s)
          \/ e.manifest \notin {Absent, Torn} /\ Continue(w, "move", j)
      BY <1>9 DEF CheckRestore
    <2>3. CASE e.manifest \notin {Absent, Torn} /\ Continue(w, "move", j)
      <3>1. e.manifest \in Paths
        BY <2>1, <2>3 DEF Entry
      <3>2. j \in Job /\ j.req = job[w].req /\ j.plan = job[w].plan
        BY <1>3, <3>1, JobUpdates DEF Job
      <3>3. QED  BY <1>2, <1>3, <2>1, <2>3, <3>2, ProceedControl DEF Continue, Phases, PhasesOf
    <2>4. CASE \E s \in {428, 404, 500, 409} : Answer(w, s)
      BY <1>2, <2>4, RespondControl DEF Answer
    <2>5. QED  BY <2>2, <2>3, <2>4
  <1>10. CASE PlanUpdate(w)
    <2> DEFINE p == job[w].req.path
               old == job[w].was.name
               new == job[w].req.content.name
               scope == IF p \in Catalogs THEN p ELSE NoPath
               renamed == old # NoName /\ new # NoName /\ old # new
               after == [q \in Workflows |->
                           IF files[q] = Absent THEN Absent
                           ELSE Reidentified(files[q], scope, old, new)]
               next == IF renamed /\ p \notin Catalogs
                       THEN Reidentified(job[w].req.content, scope, old, new)
                       ELSE job[w].req.content
               plan == IF renamed THEN PlanOf(p, after) ELSE {}
               j == [job[w] EXCEPT !.next = next, !.plan = plan]
    <2>1. pc[w] = "plan" /\ job[w].req.op = "update"
          /\ Continue(w, IF p \in Catalogs THEN "check" ELSE "cycle", j)
      BY <1>10 DEF PlanUpdate
    <2>2. job[w].was \in Content /\ job[w].req.content \in Content
      BY <1>3, <2>1 DEF Job, File, Request
    <2>3. old \in Ids /\ new \in Ids /\ scope \in Paths \cup {NoPath}
      BY <1>4, <2>2 DEF Content
    <2>4. next \in Content
      BY <2>2, <2>3, ReidentifiedType
    <2>5. \A q \in Workflows : files[q] # Absent => after[q] \in Content
      <3>1. SUFFICES ASSUME NEW q \in Workflows, files[q] # Absent PROVE after[q] \in Content
        OBVIOUS
      <3>2. files[q] \in Content
        BY <1>2, <3>1 DEF FilesOK, File, Workflows
      <3>3. Reidentified(files[q], scope, old, new) \in Content
        BY <2>3, <3>2, ReidentifiedType
      <3>4. QED  BY <3>1, <3>3
    <2>6. plan \in SUBSET [path : Paths, was : Content, now : Content]
      <3> HIDE DEF after
      <3>1. QED  BY <1>2, <2>5, PlanOfType
    <2> HIDE DEF next, plan
    <2>7. j \in Job /\ j.req = job[w].req /\ j.was = job[w].was
      BY <1>3, <2>4, <2>6, JobUpdates DEF Job, File
    <2> HIDE DEF j
    <2>8. QED  BY <1>2, <1>3, <2>1, <2>7, ProceedControl DEF Continue, Phases, PhasesOf
  <1>11. CASE PlanRename(w)
    <2> DEFINE p == job[w].req.path
               after == [q \in Workflows |->
                           IF files[q] = Absent THEN Absent
                           ELSE Repointed(files[q], p, job[w].req.to)]
               plan == PlanOf(p, after)
               j == [job[w] EXCEPT !.plan = plan]
    <2>1. pc[w] = "plan" /\ job[w].req.op = "rename" /\ Continue(w, "move", j)
      BY <1>11 DEF PlanRename
    <2>2. \A q \in Workflows : files[q] # Absent => after[q] \in Content
      <3>1. SUFFICES ASSUME NEW q \in Workflows, files[q] # Absent PROVE after[q] \in Content
        OBVIOUS
      <3>2. files[q] \in Content
        BY <1>2, <3>1 DEF FilesOK, File, Workflows
      <3>3. Repointed(files[q], p, job[w].req.to) \in Content
        BY <1>3, <3>2, RepointedType DEF Request
      <3>4. QED  BY <3>1, <3>3
    <2>3. plan \in SUBSET [path : Paths, was : Content, now : Content]
      <3> HIDE DEF after
      <3>1. QED  BY <1>2, <2>2, PlanOfType
    <2> HIDE DEF plan
    <2>4. j \in Job /\ j.req = job[w].req
      BY <1>3, <2>3, JobUpdates DEF Job
    <2> HIDE DEF j
    <2>5. QED  BY <1>2, <1>3, <2>1, <2>4, ProceedControl DEF Continue, Phases, PhasesOf
  <1>12. QED  BY <1>6, <1>7, <1>8, <1>9, <1>10, <1>11 DEF Prepare

\* What TypeOK says of a worker that is busy in a phase of the writing actions.
LEMMA BusyWorker ==
  ASSUME TypeOK, NEW w \in Workers, pc[w] # "idle"
  PROVE  /\ ControlOK /\ FilesOK /\ faults \in 0..MaxFaults
         /\ job[w] \in Job /\ job[w].req \in Request /\ job[w].req.op \in Ops
         /\ job[w].req.path \in Paths /\ job[w].req.to \in Paths /\ job[w].target \in Paths
         /\ job[w].entry \in Entries
         /\ job[w].was \in File /\ job[w].next \in File
         /\ PlanPaths(job[w].plan) \in SUBSET Paths
         /\ pc[w] \in PhasesOf(job[w].req.op)
         /\ job[w].req.op = "update" /\ pc[w] \notin {"match", "read"} => job[w].was # Absent
         /\ job[w].req.op = "create" => job[w].plan = {}
  <1>1. ControlOK /\ FilesOK /\ faults \in 0..MaxFaults
    BY TypeParts
  <1>2. job[w] \in Job /\ job[w].req \in Request
    BY <1>1, RunningJob DEF Job
  <1>3. QED  BY <1>1, <1>2, RunningJob, PlanPathsType DEF Job, Request

LEMMA FilesParts ==
  ASSUME FilesOK
  PROVE  /\ \A p \in Paths : files[p] \in File
         /\ \A t \in Entries : trash[t].payload \in File
         /\ \A p \in Paths, c \in File : [files EXCEPT ![p] = c] \in [Paths -> File]
         /\ \A p, q \in Paths, c \in File :
              [files EXCEPT ![p] = c, ![q] = Absent] \in [Paths -> File]
         /\ \A t \in Entries, c \in File : [trash EXCEPT ![t].payload = c] \in [Entries -> Entry]
         /\ \A t \in Entries, m \in Paths \cup {Absent, Torn} :
              [trash EXCEPT ![t].manifest = m] \in [Entries -> Entry]
         /\ \A t \in Entries : [trash EXCEPT ![t] = NoEntry] \in [Entries -> Entry]
         /\ Absent \in File
  BY DEF FilesOK, File, Entry, NoEntry

LEMMA FaultType ==
  ASSUME faults \in 0..MaxFaults, Fault PROVE faults' \in 0..MaxFaults
  BY BoundsAssumption DEF Fault

\* The phases that hold the rewrites still to be done start with all of the plan.
LEMMA WithLeft ==
  ASSUME NEW j \in Job, NEW x \in SUBSET Paths
  PROVE  /\ [j EXCEPT !.left = x] \in Job
         /\ [j EXCEPT !.left = x].req = j.req
         /\ [j EXCEPT !.left = x].was = j.was
         /\ [j EXCEPT !.left = x].plan = j.plan
         /\ [j EXCEPT !.left = x].left = x
  BY DEF Job

LEMMA WriteType ==
  ASSUME TypeOK, NEW w \in Workers, Write(w) PROVE TypeOK'
  <1> DEFINE j == job[w]
             full == [j EXCEPT !.left = PlanPaths(j.plan)]
  <1>1. pc[w] # "idle"
    BY DEF Write, WritePrimary, WritePrimaryFails, MoveRename, MoveRenameFails, WriteDependent,
       WriteDependentFails, Reread
  <1>2. full \in Job /\ full.req = j.req /\ full.was = j.was /\ full.plan = j.plan
        /\ full.left = PlanPaths(j.plan)
    BY <1>1, BusyWorker, WithLeft
  <1> HIDE DEF full
  <1>3. CASE WritePrimary(w)
    <2>1. Proceed(w, "dependents", full) /\ faults' = faults /\ pc[w] = "write"
      BY <1>3 DEF WritePrimary, Dependents, Continue, full
    <2>2. ControlOK'
      BY <1>1, <1>2, <2>1, BusyWorker, ProceedControl DEF Phases, PhasesOf, Ops
    <2>3. FilesOK'
      BY <1>1, <1>3, BusyWorker, FilesParts DEF WritePrimary, FilesOK
    <2>4. QED  BY <2>1, <2>2, <2>3 DEF TypeOK, ControlOK, FilesOK
  <1>4. CASE WritePrimaryFails(w)
    <2>1. ControlOK'
      <3>1. CASE j.req.op = "create"
        BY <1>1, <1>4, <3>1, BusyWorker, RespondControl DEF WritePrimaryFails
      <3>2. CASE j.req.op # "create"
        <4>1. j.req.op = "update" /\ Proceed(w, "undoPrimary", j)
          BY <1>1, <1>4, <3>2, BusyWorker DEF WritePrimaryFails, PhasesOf, Ops
        <4>2. QED  BY <1>1, <1>4, <4>1, BusyWorker, ProceedControl
                      DEF WritePrimaryFails, Phases, PhasesOf
      <3>3. QED  BY <3>1, <3>2
    <2>2. FilesOK' /\ faults' \in 0..MaxFaults
      BY <1>1, <1>4, BusyWorker, FaultType DEF WritePrimaryFails, FilesOK
    <2>3. QED  BY <2>1, <2>2 DEF TypeOK, ControlOK, FilesOK
  <1>5. CASE MoveRename(w)
    <2>1. /\ pc[w] = "move" /\ j.req.op = "rename" /\ faults' = faults
          /\ \E phase \in {"dependents", "undoDependents"} : Proceed(w, phase, full)
      BY <1>5 DEF MoveRename, Dependents, Continue, full
    <2>2. ControlOK'
      BY <1>1, <1>2, <2>1, BusyWorker, ProceedControl DEF Phases, PhasesOf
    <2>3. FilesOK'
      BY <1>1, <1>5, BusyWorker, FilesParts DEF MoveRename, FilesOK
    <2>4. QED  BY <2>1, <2>2, <2>3 DEF TypeOK, ControlOK, FilesOK
  <1>6. CASE MoveRenameFails(w)
    <2>1. pc[w] = "move" /\ j.req.op = "rename" /\ Proceed(w, "undoDependents", full)
      BY <1>6 DEF MoveRenameFails, full
    <2>2. ControlOK'
      BY <1>1, <1>2, <2>1, BusyWorker, ProceedControl DEF Phases, PhasesOf
    <2>3. FilesOK' /\ faults' \in 0..MaxFaults
      BY <1>1, <1>6, BusyWorker, FaultType DEF MoveRenameFails, FilesOK
    <2>4. QED  BY <2>2, <2>3 DEF TypeOK, ControlOK, FilesOK
  <1>7. ASSUME NEW q \in Paths, WriteDependent(w, q) PROVE TypeOK'
    <2> DEFINE k == [j EXCEPT !.left = @ \ {q}]
    <2>1. pc[w] = "dependents" /\ q \in j.left /\ Proceed(w, "dependents", k) /\ faults' = faults
      BY <1>7 DEF WriteDependent, Nth, Continue
    <2>2. k \in Job /\ k.req = j.req /\ k.was = j.was /\ k.plan = j.plan
        /\ k.left \subseteq PlanPaths(k.plan)
      BY <1>1, <2>1, BusyWorker, RunningJob DEF Job
    <2> HIDE DEF k
    <2>3. ControlOK'
      BY <1>1, <2>1, <2>2, BusyWorker, ProceedControl DEF Phases
    <2>4. FilesOK'
      BY <1>1, <1>7, <2>1, BusyWorker, RewriteOfType, FilesParts DEF WriteDependent, FilesOK
    <2>5. QED  BY <1>1, <2>1, <2>3, <2>4, BusyWorker DEF TypeOK, ControlOK, FilesOK
  <1>8. CASE WriteDependentFails(w)
    <2>1. /\ pc[w] = "dependents" /\ j.left # {}
          /\ Proceed(w, IF j.req.op = "update" THEN "undoPrimary" ELSE "undoDependents", full)
      BY <1>8 DEF WriteDependentFails, full
    <2>2. j.req.op \in {"update", "rename"}
      BY <1>1, <2>1, BusyWorker, RunningJob DEF PhasesOf, Ops, PlanPaths
    <2>3. ControlOK'
      BY <1>1, <1>2, <2>1, <2>2, BusyWorker, ProceedControl DEF Phases, PhasesOf
    <2>4. FilesOK' /\ faults' \in 0..MaxFaults
      BY <1>1, <1>8, BusyWorker, FaultType DEF WriteDependentFails, FilesOK
    <2>5. QED  BY <2>3, <2>4 DEF TypeOK, ControlOK, FilesOK
  <1>9. CASE Reread(w)
    <2>1. ControlOK'
      BY <1>1, <1>9, BusyWorker, RespondControl DEF Reread, Answer
    <2>2. FilesOK' /\ faults' = faults
      BY <1>1, <1>9, BusyWorker DEF Reread, Answer, FilesOK
    <2>3. QED  BY <1>1, <2>1, <2>2, BusyWorker DEF TypeOK, ControlOK, FilesOK
  <1>10. QED  BY <1>3, <1>4, <1>5, <1>6, <1>7, <1>8, <1>9 DEF Write

LEMMA UndoType ==
  ASSUME TypeOK, NEW w \in Workers, Undo(w) PROVE TypeOK'
  <1> DEFINE j == job[w]
             full == [j EXCEPT !.left = PlanPaths(j.plan)]
  <1>1. pc[w] # "idle"
    BY DEF Undo, UndoPrimary, UndoPrimaryFails, UndoDependent, UndoDependentFails, UndoDone,
       UndoMoveRename, UndoMoveRenameFails
  <1>2. full \in Job /\ full.req = j.req /\ full.was = j.was /\ full.plan = j.plan
        /\ full.left = PlanPaths(j.plan)
    BY <1>1, BusyWorker, WithLeft
  <1> HIDE DEF full
  <1>3. CASE UndoPrimary(w) \/ UndoPrimaryFails(w)
    <2>1. pc[w] = "undoPrimary" /\ Proceed(w, "undoDependents", full)
      BY <1>3 DEF UndoPrimary, UndoPrimaryFails, Continue, full
    <2>2. j.req.op = "update"
      BY <1>1, <2>1, BusyWorker DEF PhasesOf, Ops
    <2>3. ControlOK'
      BY <1>1, <1>2, <2>1, <2>2, BusyWorker, ProceedControl DEF Phases, PhasesOf
    <2>4. FilesOK'
      BY <1>1, <1>3, BusyWorker, FilesParts DEF UndoPrimary, UndoPrimaryFails, FilesOK
    <2>5. faults' \in 0..MaxFaults
      BY <1>1, <1>3, BusyWorker, FaultType DEF UndoPrimary, UndoPrimaryFails, Continue
    <2>6. QED  BY <2>3, <2>4, <2>5 DEF TypeOK, ControlOK, FilesOK
  <1>4. ASSUME NEW q \in Paths, UndoDependent(w, q) \/ UndoDependentFails(w, q) PROVE TypeOK'
    <2> DEFINE k == [j EXCEPT !.left = @ \ {q}]
    <2>1. pc[w] = "undoDependents" /\ q \in j.left /\ Proceed(w, "undoDependents", k)
      BY <1>4 DEF UndoDependent, UndoDependentFails, Nth, Continue
    <2>2. k \in Job /\ k.req = j.req /\ k.was = j.was /\ k.plan = j.plan
          /\ k.left \subseteq PlanPaths(k.plan)
      BY <1>1, <2>1, BusyWorker, RunningJob DEF Job
    <2> HIDE DEF k
    <2>3. ControlOK'
      BY <1>1, <2>1, <2>2, BusyWorker, ProceedControl DEF Phases
    <2>4. FilesOK'
      BY <1>1, <1>4, <2>1, BusyWorker, RewriteOfType, FilesParts
         DEF UndoDependent, UndoDependentFails, FilesOK
    <2>5. faults' \in 0..MaxFaults
      BY <1>1, <1>4, BusyWorker, FaultType DEF UndoDependent, UndoDependentFails, Continue
    <2>6. QED  BY <2>3, <2>4, <2>5 DEF TypeOK, ControlOK, FilesOK
  <1>5. CASE UndoDone(w)
    <2>1. ControlOK'
      <3>1. CASE j.req.op = "update"
        BY <1>1, <1>5, <3>1, BusyWorker, RespondControl DEF UndoDone, Answer
      <3>2. CASE j.req.op # "update"
        <4>1. pc[w] = "undoDependents" /\ Proceed(w, "undoMove", j)
          BY <1>5, <3>2 DEF UndoDone, Continue
        <4>2. j.req.op = "rename"
          BY <1>1, <3>2, <4>1, BusyWorker DEF PhasesOf, Ops
        <4>3. QED  BY <1>1, <4>1, <4>2, BusyWorker, ProceedControl DEF Phases, PhasesOf
      <3>3. QED  BY <3>1, <3>2
    <2>2. FilesOK' /\ faults' = faults
      BY <1>1, <1>5, BusyWorker DEF UndoDone, Answer, Continue, FilesOK
    <2>3. QED  BY <1>1, <2>1, <2>2, BusyWorker DEF TypeOK, ControlOK, FilesOK
  <1>6. CASE UndoMoveRename(w) \/ UndoMoveRenameFails(w)
    <2>1. ControlOK'
      BY <1>1, <1>6, BusyWorker, RespondControl DEF UndoMoveRename, UndoMoveRenameFails, Answer
    <2>2. FilesOK'
      BY <1>1, <1>6, BusyWorker, FilesParts DEF UndoMoveRename, UndoMoveRenameFails, FilesOK
    <2>3. faults' \in 0..MaxFaults
      BY <1>1, <1>6, BusyWorker, FaultType DEF UndoMoveRename, UndoMoveRenameFails, Answer
    <2>4. QED  BY <2>1, <2>2, <2>3 DEF TypeOK, ControlOK, FilesOK
  <1>7. QED  BY <1>3, <1>4, <1>5, <1>6 DEF Undo

LEMMA TrashType ==
  ASSUME TypeOK, NEW w \in Workers, Trash(w) PROVE TypeOK'
  <1> DEFINE j == job[w]
  <1>1. pc[w] # "idle"
    BY DEF Trash, MoveDelete, MoveDeleteFails, WriteManifest, WriteManifestFails, UndoMoveDelete,
       UndoMoveDeleteFails, MoveRestore, MoveRestoreFails, Cleanup, CleanupFails
  <1>2. CASE \/ MoveDelete(w) \/ MoveDeleteFails(w) \/ WriteManifestFails(w)
             \/ MoveRestore(w) /\ trash[j.entry].payload # Absent
    <2>1. /\ j.req.op \in {"delete", "restore"}
          /\ \E phase \in {"undoMove", "manifest", "cleanup"} :
                phase \in PhasesOf(j.req.op) /\ Proceed(w, phase, j)
      <3>1. pc[w] \in {"move", "manifest"}
        BY <1>2 DEF MoveDelete, MoveDeleteFails, WriteManifestFails, MoveRestore
      <3>2. pc[w] = "manifest" => j.req.op = "delete"
        BY <1>1, BusyWorker DEF PhasesOf, Ops
      <3>3. QED  BY <1>2, <3>1, <3>2
                 DEF MoveDelete, MoveDeleteFails, WriteManifestFails, MoveRestore, Continue, PhasesOf
    <2>2. ControlOK'
      BY <1>1, <2>1, BusyWorker, ProceedControl DEF Phases
    <2>3. FilesOK'
      <3>1. CASE MoveDelete(w) \/ MoveDeleteFails(w)
        BY <1>1, <3>1, BusyWorker, FilesParts DEF MoveDelete, MoveDeleteFails, FilesOK
      <3>2. CASE WriteManifestFails(w)
        <4>1. PICK m \in {Absent, Torn} : trash' = [trash EXCEPT ![j.entry].manifest = m]
          BY <3>2 DEF WriteManifestFails
        <4>2. QED  BY <1>1, <3>2, <4>1, BusyWorker, FilesParts DEF WriteManifestFails, FilesOK
      <3>3. CASE MoveRestore(w)
        BY <1>1, <3>3, BusyWorker, FilesParts DEF MoveRestore, FilesOK
      <3>4. QED  BY <1>2, <3>1, <3>2, <3>3
    <2>4. faults' \in 0..MaxFaults
      BY <1>1, <1>2, BusyWorker, FaultType
         DEF MoveDelete, MoveDeleteFails, WriteManifestFails, MoveRestore, Continue
    <2>5. QED  BY <2>2, <2>3, <2>4 DEF TypeOK, ControlOK, FilesOK
  <1>3. CASE \/ WriteManifest(w) \/ UndoMoveDelete(w) \/ UndoMoveDeleteFails(w)
             \/ MoveRestore(w) /\ trash[j.entry].payload = Absent
             \/ MoveRestoreFails(w) \/ Cleanup(w) \/ CleanupFails(w)
    <2>1. \E s \in {200, 404, 500} : Respond(w, s)
      BY <1>3 DEF WriteManifest, UndoMoveDelete, UndoMoveDeleteFails, MoveRestore,
         MoveRestoreFails, Cleanup, CleanupFails, Answer
    <2>2. ControlOK'
      BY <1>1, <2>1, BusyWorker, RespondControl
    <2>3. FilesOK'
      <3>1. CASE CleanupFails(w)
        <4>1. trash' = trash \/ trash' = [trash EXCEPT ![j.entry] = NoEntry]
          BY <1>1, <3>1, BusyWorker DEF CleanupFails, FilesOK
        <4>2. QED  BY <1>1, <3>1, <4>1, BusyWorker, FilesParts DEF CleanupFails, FilesOK
      <3>2. CASE ~CleanupFails(w)
        BY <1>1, <1>3, <3>2, BusyWorker, FilesParts
           DEF WriteManifest, UndoMoveDelete, UndoMoveDeleteFails, MoveRestore, MoveRestoreFails,
               Cleanup, FilesOK
      <3>3. QED  BY <3>1, <3>2
    <2>4. faults' \in 0..MaxFaults
      BY <1>1, <1>3, BusyWorker, FaultType
         DEF WriteManifest, UndoMoveDelete, UndoMoveDeleteFails, MoveRestore, MoveRestoreFails,
             Cleanup, CleanupFails, Answer
    <2>5. QED  BY <2>2, <2>3, <2>4 DEF TypeOK, ControlOK, FilesOK
  <1>4. QED  BY <1>2, <1>3 DEF Trash

LEMMA CrashType ==
  ASSUME TypeOK, Crash PROVE TypeOK'
  <1>1. pc' \in [Workers -> Phases] /\ job' \in [Workers -> Job \cup {NoJob}]
        /\ \A w \in Workers : pc'[w] = "idle" /\ job'[w] = NoJob
    BY DEF Crash, Phases
  <1>2. trash' \in [Entries -> Entry]
    <2>1. PICK torn \in SUBSET {w \in Workers : pc[w] = "manifest"} :
            trash' = [t \in Entries |->
                        IF \E w \in torn : job[w].entry = t
                        THEN [trash[t] EXCEPT !.manifest = Torn] ELSE trash[t]]
      BY DEF Crash
    <2>2. \A t \in Entries : trash[t] \in Entry /\ [trash[t] EXCEPT !.manifest = Torn] \in Entry
      BY DEF TypeOK, Entry
    <2>3. QED  BY <2>1, <2>2
  <1>3. crashes' \in 0..MaxCrashes
    BY BoundsAssumption DEF Crash, TypeOK
  <1>4. QED  BY <1>1, <1>2, <1>3 DEF Crash, TypeOK

LEMMA StutterType == ASSUME TypeOK, UNCHANGED vars PROVE TypeOK'
  BY DEF vars, TypeOK, JobOK

LEMMA InitType == Init => TypeOK
  <1> SUFFICES ASSUME Init PROVE TypeOK
    OBVIOUS
  <1>1. files \in [Paths -> File]
    BY InputsAssumption DEF Init
  <1>2. trash \in [Entries -> Entry]
    BY DEF Init, Entry, NoEntry, File
  <1>3. QED  BY <1>1, <1>2, BoundsAssumption DEF Init, TypeOK, Phases

\* Every state of the program has the types of the model: in particular a rollback
\* always has an image to go back to, and only planned dependents are rewritten.
THEOREM TypeCorrect == Spec => []TypeOK
  <1>1. TypeOK /\ [Next]_vars => TypeOK'
    <2> SUFFICES ASSUME TypeOK, [Next]_vars PROVE TypeOK'
      OBVIOUS
    <2>1. CASE \E w \in Workers : Submit(w) \/ Step(w)
      BY <2>1, SubmitType, RefuseType, PrepareType, WriteType, UndoType, TrashType DEF Step
    <2>2. CASE Crash
      BY <2>2, CrashType
    <2>3. CASE UNCHANGED vars
      BY <2>3, StutterType
    <2>4. QED  BY <2>1, <2>2, <2>3 DEF Next, Quiet
  <1>2. QED  BY <1>1, InitType, PTL DEF Spec

=============================================================================
