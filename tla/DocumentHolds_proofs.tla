------------------------ MODULE DocumentHolds_proofs ------------------------
(***************************************************************************)
(* What one client that awaits every answer may rely on, for every         *)
(* workspace, every set of requests and every bound on failing writes and  *)
(* restarts: a handler's files are what it last saw of them, no step       *)
(* discards a revision, a failing write or move leaves nothing behind,     *)
(* what is in the trash can be restored, an accepted rename or change of   *)
(* id keeps the links of the other documents, and no save closes a cycle.  *)
(* In sum, the handlers implement an atomic workspace (AtomicWorkspace).   *)
(***************************************************************************)
EXTENDS DocumentService_proofs

(* HandlersHoldTheirFiles for one thread, with what a handler assigned once *)
(* and for all: only update and rename plan rewrites, and a document is    *)
(* answered from the path it was put at.                                   *)
ShapeInv(w) ==
  pc[w] # "idle" =>
    /\ job[w].req.op \notin {"update", "rename"} => job[w].plan = {}
    /\ job[w].req.op \notin {"rename", "restore"} => job[w].target = job[w].req.path
    /\ job[w].req.op = "rename" => job[w].target = job[w].req.to

Holds(w) ==
  UpdateInv(w) /\ CreateInv(w) /\ RenameInv(w) /\ DeleteInv(w) /\ RestoreInv(w) /\ PlanInv(w)
  /\ ShapeInv(w)

Unused == \A t \in Entries : t > served => trash[t] = NoEntry

IInv == TypeOK /\ Unused /\ \A w \in Workers : Holds(w)

LEMMA JobFields ==
  ASSUME NEW j \in Job, NEW x
  PROVE  /\ LET k == [j EXCEPT !.seen = x] IN
              /\ k.seen = x /\ k.req = j.req /\ k.tag = j.tag /\ k.entry = j.entry
              /\ k.target = j.target /\ k.was = j.was /\ k.next = j.next /\ k.plan = j.plan
              /\ k.before = j.before /\ k.since = j.since
         /\ LET k == [j EXCEPT !.was = x] IN
              /\ k.was = x /\ k.req = j.req /\ k.tag = j.tag /\ k.entry = j.entry
              /\ k.target = j.target /\ k.seen = j.seen /\ k.next = j.next /\ k.plan = j.plan
              /\ k.before = j.before /\ k.since = j.since
         /\ LET k == [j EXCEPT !.target = x] IN
              /\ k.target = x /\ k.req = j.req /\ k.tag = j.tag /\ k.entry = j.entry
              /\ k.was = j.was /\ k.seen = j.seen /\ k.next = j.next /\ k.plan = j.plan
              /\ k.before = j.before /\ k.since = j.since
         /\ LET k == [j EXCEPT !.left = x] IN
              /\ k.req = j.req /\ k.tag = j.tag /\ k.entry = j.entry /\ k.target = j.target
              /\ k.was = j.was /\ k.seen = j.seen /\ k.next = j.next /\ k.plan = j.plan
              /\ k.before = j.before /\ k.since = j.since
         /\ LET k == [j EXCEPT !.plan = x] IN
              /\ k.plan = x /\ k.req = j.req /\ k.tag = j.tag /\ k.entry = j.entry
              /\ k.target = j.target /\ k.was = j.was /\ k.seen = j.seen /\ k.next = j.next
              /\ k.before = j.before /\ k.since = j.since
  BY DEF Job

LEMMA Proceeded ==
  ASSUME TypeOK, NEW w \in Workers, NEW phase, NEW j, Proceed(w, phase, j)
  PROVE  pc'[w] = phase /\ job'[w] = j /\ served' = served
  BY DEF TypeOK, Proceed

\* A finished handler holds nothing.
LEMMA Answered ==
  ASSUME TypeOK, NEW w \in Workers, NEW s, Respond(w, s)
  PROVE  Holds(w)' /\ served' = served
  <1>1. pc'[w] = "idle" /\ served' = served
    BY DEF TypeOK, Respond
  <1>2. QED  BY <1>1 DEF Holds, UpdateInv, CreateInv, RenameInv, DeleteInv, RestoreInv, PlanInv,
                ShapeInv

LEMMA UnusedKept ==
  ASSUME Unused, UNCHANGED trash, served' = served PROVE Unused'
  BY DEF Unused

\* A plan names other documents than the changed one, each once, with its source as
\* it is.
LEMMA PlanOfHolds ==
  ASSUME NEW p, NEW new
  PROVE  /\ \A r \in PlanOf(p, new) : r.path # p /\ files[r.path] = r.was /\ r.was # Absent
         /\ \A r, s \in PlanOf(p, new) : s.path = r.path => s = r
  BY DEF PlanOf

----
LEMMA SubmitHolds ==
  ASSUME IInv, NEW w \in Workers, Submit(w) PROVE Holds(w)' /\ Unused'
  <1>1. PICK r \in Requests :
          /\ pc' = [pc EXCEPT ![w] = Start(r)]
          /\ job' = [job EXCEPT ![w] =
               [req |-> r, tag |-> TagOf(r),
                entry |-> IF r.op = "restore" THEN r.entry ELSE served + 1,
                target |-> IF r.op = "rename" THEN r.to ELSE r.path, seen |-> Absent,
                was |-> Absent, next |-> r.content, plan |-> {}, left |-> {}, before |-> files,
                since |-> faults]]
    BY DEF Submit
  <1>2. r \in Request
    BY InputsAssumption
  <1>3. /\ pc'[w] = Start(r) /\ job'[w].req = r /\ job'[w].plan = {}
        /\ r.op # "restore" => job'[w].entry = served + 1
        /\ job'[w].target = IF r.op = "rename" THEN r.to ELSE r.path
    BY <1>1 DEF IInv, TypeOK
  <1>4. /\ r.op = "create" => Start(r) \in {"cycle", "check"}
        /\ r.op \in {"update", "rename", "delete"} => Start(r) = "match"
        /\ r.op = "restore" => Start(r) = "check"
        /\ r.op \in Ops
    BY <1>2 DEF Start, Request
  <1>5. /\ served' = served + 1 /\ served \in Nat /\ served + 1 \in Entries
        /\ trash' = trash
    BY BoundsAssumption DEF Submit, IInv, TypeOK, Entries
  <1>6. trash'[served'] = NoEntry /\ Unused'
    BY <1>5 DEF IInv, Unused, Entries
  <1>7. UpdateInv(w)' /\ CreateInv(w)' /\ RenameInv(w)' /\ RestoreInv(w)'
    BY <1>3, <1>4 DEF UpdateInv, CreateInv, RenameInv, RestoreInv, Ops
  <1>8. DeleteInv(w)'
    BY <1>3, <1>4, <1>5, <1>6 DEF DeleteInv, Ops
  <1>9. PlanInv(w)' /\ ShapeInv(w)'
    BY <1>3 DEF PlanInv, ShapeInv
  <1>10. QED  BY <1>6, <1>7, <1>8, <1>9 DEF Holds

LEMMA PrepareHolds ==
  ASSUME IInv, NEW w \in Workers, Refuse(w) \/ Prepare(w) PROVE Holds(w)' /\ Unused'
  <1> DEFINE j == job[w]
             p == job[w].req.path
  <1>1. pc[w] # "idle" /\ TypeOK /\ files' = files /\ trash' = trash
    BY DEF IInv, Refuse, MatchMissing, MatchRefused, Prepare, MatchPassed, ReadExisting, Impact,
       PlanUpdate, PlanRename, Cycle, CheckCreate, CheckUpdate, CheckDelete, CheckRename,
       CheckRestore
  <1>2. /\ j \in Job /\ j.req.op \in Ops /\ pc[w] \in PhasesOf(j.req.op)
        /\ p \in Paths /\ j.req.to \in Paths /\ j.target \in Paths /\ j.entry \in Entries
    BY <1>1, BusyWorker
  <1>3. Holds(w) /\ Unused
    BY DEF IInv
  <1>4. CASE MatchPassed(w)
    <2> DEFINE k == [j EXCEPT !.seen = files[p]]
    <2>1. /\ pc[w] = "match" /\ files[p] # Absent /\ TagMatches(j.tag, files[p])
          /\ Proceed(w, AfterMatch(j.req.op), k)
      BY <1>4 DEF MatchPassed, Continue
    <2>2. pc'[w] = AfterMatch(j.req.op) /\ job'[w] = k /\ served' = served
      BY <1>1, <2>1, Proceeded
    <2>3. /\ k.seen = files[p] /\ k.req = j.req /\ k.tag = j.tag /\ k.entry = j.entry
          /\ k.target = j.target /\ k.was = j.was /\ k.next = j.next /\ k.plan = j.plan
      BY <1>2, JobFields
    <2> HIDE DEF k
    <2>4. j.req.op \in {"update", "rename", "delete"}
      BY <1>2, <2>1 DEF PhasesOf, Ops
    <2>5. CASE j.req.op = "update"
      BY <1>1, <1>3, <2>1, <2>2, <2>3, <2>5, UnusedKept
         DEF AfterMatch, Holds, UpdateInv, CreateInv, RenameInv, DeleteInv, RestoreInv, PlanInv, ShapeInv
    <2>6. CASE j.req.op = "rename"
      BY <1>1, <1>3, <2>1, <2>2, <2>3, <2>6, UnusedKept
         DEF AfterMatch, Holds, UpdateInv, CreateInv, RenameInv, DeleteInv, RestoreInv, PlanInv, ShapeInv
    <2>7. CASE j.req.op = "delete"
      BY <1>1, <1>3, <2>1, <2>2, <2>3, <2>7, UnusedKept
         DEF AfterMatch, Holds, UpdateInv, CreateInv, RenameInv, DeleteInv, RestoreInv, PlanInv, ShapeInv
    <2>8. QED  BY <1>1, <1>3, <2>2, <2>4, <2>5, <2>6, <2>7, UnusedKept
  <1>5. CASE ReadExisting(w) /\ files[p] # Absent
    <2> DEFINE k == [j EXCEPT !.was = files[p]]
    <2>1. pc[w] = "read" /\ Proceed(w, "plan", k)
      BY <1>5 DEF ReadExisting, Continue
    <2>2. pc'[w] = "plan" /\ job'[w] = k /\ served' = served
      BY <1>1, <2>1, Proceeded
    <2>3. /\ k.was = files[p] /\ k.req = j.req /\ k.tag = j.tag /\ k.entry = j.entry
          /\ k.target = j.target /\ k.seen = j.seen /\ k.next = j.next /\ k.plan = j.plan
      BY <1>2, JobFields
    <2> HIDE DEF k
    <2>4. j.req.op = "update"
      BY <1>2, <2>1 DEF PhasesOf, Ops
    <2>5. QED  BY <1>1, <1>3, <2>1, <2>2, <2>3, <2>4, UnusedKept
               DEF Holds, UpdateInv, CreateInv, RenameInv, DeleteInv, RestoreInv, PlanInv, ShapeInv
  <1>6. ASSUME NEW phase, Proceed(w, phase, j),
               \/ pc[w] = "impact" /\ phase = "check"
               \/ pc[w] = "cycle" /\ phase = "check"
               \/ pc[w] = "check" /\ j.req.op = "create" /\ phase = "write" /\ files[p] = Absent
               \/ pc[w] = "check" /\ j.req.op = "update" /\ phase = "write"
               \/ pc[w] = "check" /\ j.req.op = "delete" /\ phase = "move"
               \/ /\ pc[w] = "check" /\ j.req.op = "rename" /\ phase = "plan"
                  /\ files[j.req.to] = Absent
        PROVE  Holds(w)' /\ Unused'
    <2>1. pc'[w] = phase /\ job'[w] = j /\ served' = served
      BY <1>1, <1>6, Proceeded
    <2>2. /\ pc[w] = "impact" => j.req.op = "delete"
          /\ pc[w] = "cycle" => j.req.op \in {"create", "update"}
      BY <1>2 DEF PhasesOf, Ops
    <2>3. UpdateInv(w)' /\ CreateInv(w)'
      BY <1>1, <1>3, <1>6, <2>1, <2>2 DEF Holds, UpdateInv, CreateInv
    <2>4. RenameInv(w)' /\ DeleteInv(w)'
      BY <1>1, <1>3, <1>6, <2>1, <2>2 DEF Holds, RenameInv, DeleteInv
    <2>5. RestoreInv(w)' /\ PlanInv(w)' /\ ShapeInv(w)'
      BY <1>1, <1>3, <1>6, <2>1, <2>2 DEF Holds, RestoreInv, PlanInv, ShapeInv
    <2>6. QED  BY <1>1, <1>3, <2>1, <2>3, <2>4, <2>5, UnusedKept DEF Holds
  <1>7. CASE \/ Impact(w) \/ Cycle(w) \/ CheckCreate(w) \/ CheckUpdate(w) \/ CheckDelete(w)
             \/ CheckRename(w)
    <2>1. \/ \E s \in {404, 409} : Respond(w, s)
          \/ pc[w] = "impact" /\ Proceed(w, "check", j)
          \/ pc[w] = "cycle" /\ Proceed(w, "check", j)
          \/ /\ pc[w] = "check" /\ j.req.op = "create" /\ files[p] = Absent
             /\ Proceed(w, "write", j)
          \/ pc[w] = "check" /\ j.req.op = "update" /\ Proceed(w, "write", j)
          \/ pc[w] = "check" /\ j.req.op = "delete" /\ Proceed(w, "move", j)
          \/ /\ pc[w] = "check" /\ j.req.op = "rename" /\ files[j.req.to] = Absent
             /\ Proceed(w, "plan", j)
      BY <1>7 DEF Impact, Cycle, CheckCreate, CheckUpdate, CheckDelete, CheckRename, Free,
                  Answer, Continue
    <2>2. CASE \E s \in {404, 409} : Respond(w, s)
      BY <1>1, <1>3, <2>2, Answered, UnusedKept
    <2>3. QED  BY <1>6, <2>1, <2>2
  <1>8. CASE CheckRestore(w)
    <2> DEFINE e == trash[j.entry]
               k == [j EXCEPT !.target = e.manifest]
    <2>1. \/ \E s \in {428, 404, 500, 409} : Respond(w, s)
          \/ /\ e.payload # Absent /\ files[e.manifest] = Absent /\ j.req.op = "restore"
             /\ Proceed(w, "move", k)
      BY <1>8 DEF CheckRestore, Free, Answer, Continue
    <2>2. CASE \E s \in {428, 404, 500, 409} : Respond(w, s)
      BY <1>1, <1>3, <2>2, Answered, UnusedKept
    <2>3. CASE /\ e.payload # Absent /\ files[e.manifest] = Absent /\ j.req.op = "restore"
               /\ Proceed(w, "move", k)
      <3>1. pc'[w] = "move" /\ job'[w] = k /\ served' = served
        BY <1>1, <2>3, Proceeded
      <3>2. /\ k.target = e.manifest /\ k.req = j.req /\ k.entry = j.entry /\ k.plan = j.plan
        BY <1>2, JobFields
      <3> HIDE DEF k
      <3>3. k.plan = {}
        BY <1>1, <1>3, <2>3, <3>2 DEF Holds, ShapeInv
      <3>4. QED  BY <1>1, <1>3, <2>3, <3>1, <3>2, <3>3, UnusedKept
                 DEF Holds, UpdateInv, CreateInv, RenameInv, DeleteInv, RestoreInv, PlanInv, ShapeInv
    <2>4. QED  BY <2>1, <2>2, <2>3
  <1>9. CASE PlanUpdate(w)
    <2> DEFINE old == j.was.name
               new == j.req.content.name
               scope == IF p \in Catalogs THEN p ELSE NoPath
               renamed == old # NoName /\ new # NoName /\ old # new
               after == [q \in Workflows |->
                           IF files[q] = Absent THEN Absent
                           ELSE Reidentified(files[q], scope, old, new)]
               next == IF renamed /\ p \notin Catalogs
                       THEN Reidentified(j.req.content, scope, old, new) ELSE j.req.content
               plan == IF renamed THEN PlanOf(p, after) ELSE {}
               phase == IF p \in Catalogs THEN "check" ELSE "cycle"
    <2>1. /\ pc[w] = "plan" /\ j.req.op = "update"
          /\ Proceed(w, phase, [j EXCEPT !.next = next, !.plan = plan])
      BY <1>9 DEF PlanUpdate, Continue
    <2>2. phase \in {"check", "cycle"} /\ (plan = {} \/ plan = PlanOf(p, after))
      OBVIOUS
    <2> HIDE DEF next, plan, phase, after
    <2> DEFINE k == [j EXCEPT !.next = next, !.plan = plan]
    <2>3. pc'[w] = phase /\ job'[w] = k /\ served' = served
      BY <1>1, <2>1, Proceeded
    <2>4. /\ k.plan = plan /\ k.req = j.req /\ k.tag = j.tag /\ k.target = j.target
          /\ k.was = j.was /\ k.seen = j.seen
      BY <1>2 DEF Job
    <2> HIDE DEF k
    <2>5. /\ \A r \in plan : r.path # p /\ files[r.path] = r.was
          /\ \A r, s \in plan : s.path = r.path => s = r
      BY <2>2, PlanOfHolds
    <2>6. PlanInv(w)' /\ ShapeInv(w)'
      BY <1>1, <1>3, <2>1, <2>3, <2>4, <2>5 DEF Holds, PlanInv, ShapeInv
    <2>7. UpdateInv(w)' /\ CreateInv(w)' /\ RenameInv(w)' /\ DeleteInv(w)' /\ RestoreInv(w)'
      BY <1>1, <1>3, <2>1, <2>2, <2>3, <2>4
         DEF Holds, UpdateInv, CreateInv, RenameInv, DeleteInv, RestoreInv
    <2>8. QED  BY <1>1, <1>3, <2>3, <2>6, <2>7, UnusedKept DEF Holds
  <1>10. CASE PlanRename(w)
    <2>1. /\ pc[w] = "plan" /\ j.req.op = "rename"
          /\ \E after : Proceed(w, "move", [j EXCEPT !.plan = PlanOf(p, after)])
      BY <1>10 DEF PlanRename, Continue
    <2>2. PICK after : Proceed(w, "move", [j EXCEPT !.plan = PlanOf(p, after)])
      BY <2>1
    <2> DEFINE plan == PlanOf(p, after)
               k == [j EXCEPT !.plan = plan]
    <2>3. pc'[w] = "move" /\ job'[w] = k /\ served' = served
      BY <1>1, <2>2, Proceeded
    <2>4. /\ \A r \in plan : r.path # p /\ files[r.path] = r.was /\ r.was # Absent
          /\ \A r, s \in plan : s.path = r.path => s = r
      BY PlanOfHolds
    <2> HIDE DEF plan
    <2>5. /\ k.plan = plan /\ k.req = j.req /\ k.tag = j.tag /\ k.target = j.target
          /\ k.was = j.was /\ k.seen = j.seen
      BY <1>2 DEF Job
    <2> HIDE DEF k
    <2>6. files[j.req.to] = Absent /\ j.target = j.req.to
      BY <1>1, <1>3, <2>1 DEF Holds, RenameInv, ShapeInv
    <2>7. PlanInv(w)' /\ ShapeInv(w)'
      BY <1>1, <1>3, <2>1, <2>3, <2>4, <2>5, <2>6 DEF PlanInv, ShapeInv
    <2>8. UpdateInv(w)' /\ CreateInv(w)' /\ RenameInv(w)' /\ DeleteInv(w)' /\ RestoreInv(w)'
      BY <1>1, <1>3, <2>1, <2>3, <2>5
         DEF Holds, UpdateInv, CreateInv, RenameInv, DeleteInv, RestoreInv
    <2>9. QED  BY <1>1, <1>3, <2>3, <2>7, <2>8, UnusedKept DEF Holds
  <1>11. CASE Refuse(w) \/ (ReadExisting(w) /\ files[p] = Absent)
    <2>1. \E s \in {404, 409, 428} : Respond(w, s)
      BY <1>11 DEF Refuse, MatchMissing, MatchRefused, ReadExisting, Answer
    <2>2. QED  BY <1>1, <1>3, <2>1, Answered, UnusedKept
  <1>12. QED  BY <1>4, <1>5, <1>7, <1>8, <1>9, <1>10, <1>11 DEF Prepare

----
(* Files change only at the path of the request, at the target of a rename *)
(* and at the planned dependents, none of which is one of the two.         *)

LEMMA RewriteHolds ==
  ASSUME IInv, NEW w \in Workers, pc[w] \in {"dependents", "undoDependents"},
         NEW q \in job[w].left
  PROVE  /\ RewriteOf(w, q) \in job[w].plan /\ RewriteOf(w, q).path = q
         /\ q \in Paths /\ q # job[w].req.path /\ q # job[w].target
         /\ files[q] \in {RewriteOf(w, q).was, RewriteOf(w, q).now}
         /\ \A r \in job[w].plan : r.path = q => r = RewriteOf(w, q)
  <1>1. TypeOK /\ pc[w] # "idle" /\ ControlOK /\ Holds(w)
    BY TypeParts DEF IInv
  <1>2. RewriteOf(w, q) \in job[w].plan /\ RewriteOf(w, q).path = q /\ q \in Paths
    BY <1>1, RewriteOfPlan, RewriteOfType
  <1>3. QED  BY <1>1, <1>2 DEF Holds, PlanInv

LEMMA WriteHolds ==
  ASSUME IInv, NEW w \in Workers, Write(w) PROVE Holds(w)' /\ Unused'
  <1> DEFINE j == job[w]
             p == job[w].req.path
             full == [j EXCEPT !.left = PlanPaths(j.plan)]
  <1>1. pc[w] # "idle" /\ TypeOK /\ trash' = trash /\ Holds(w) /\ Unused
    BY DEF IInv, Write, WritePrimary, WritePrimaryFails, MoveRename, MoveRenameFails,
       WriteDependent, WriteDependentFails, Reread
  <1>2. /\ j \in Job /\ j.req.op \in Ops /\ pc[w] \in PhasesOf(j.req.op)
        /\ p \in Paths /\ j.req.to \in Paths /\ j.target \in Paths /\ j.entry \in Entries
        /\ files \in [Paths -> File]
        /\ \A r \in j.plan : r.path \in Paths
    BY <1>1, BusyWorker DEF FilesOK, Job
  <1>3. /\ full.req = j.req /\ full.tag = j.tag /\ full.entry = j.entry /\ full.target = j.target
        /\ full.was = j.was /\ full.seen = j.seen /\ full.next = j.next /\ full.plan = j.plan
    BY <1>2, JobFields
  <1> HIDE DEF full
  <1>4. CASE WritePrimary(w)
    <2>1. /\ pc[w] = "write" /\ files' = [files EXCEPT ![p] = j.next]
          /\ Proceed(w, "dependents", full)
      BY <1>4 DEF WritePrimary, Dependents, Continue, full
    <2>2. pc'[w] = "dependents" /\ job'[w] = full /\ served' = served
      BY <1>1, <2>1, Proceeded
    <2>3. j.req.op \in {"create", "update"}
      BY <1>2, <2>1 DEF PhasesOf, Ops
    <2>4. PlanInv(w)'
      BY <1>1, <1>2, <1>3, <2>1, <2>2 DEF Holds, PlanInv
    <2>5. QED  BY <1>1, <1>2, <1>3, <2>1, <2>2, <2>3, <2>4, UnusedKept
               DEF Holds, UpdateInv, CreateInv, RenameInv, DeleteInv, RestoreInv, ShapeInv
  <1>5. CASE WritePrimaryFails(w)
    <2>1. /\ pc[w] = "write" /\ files' = files
          /\ Respond(w, 500) \/ (j.req.op = "update" /\ Proceed(w, "undoPrimary", j))
      BY <1>2, <1>5 DEF WritePrimaryFails, PhasesOf, Ops
    <2>2. CASE Respond(w, 500)
      BY <1>1, <2>2, Answered, UnusedKept
    <2>3. CASE j.req.op = "update" /\ Proceed(w, "undoPrimary", j)
      <3>1. pc'[w] = "undoPrimary" /\ job'[w] = j /\ served' = served
        BY <1>1, <2>3, Proceeded
      <3>2. QED  BY <1>1, <2>1, <2>3, <3>1, UnusedKept
                 DEF Holds, UpdateInv, CreateInv, RenameInv, DeleteInv, RestoreInv, PlanInv, ShapeInv
    <2>4. QED  BY <2>1, <2>2, <2>3
  <1>6. CASE MoveRename(w)
    <2>1. pc[w] = "move" /\ j.req.op = "rename"
      BY <1>6 DEF MoveRename
    <2>2. files[p] = j.seen /\ files[p] # Absent /\ files[j.req.to] = Absent /\ p # j.req.to
          /\ j.target = j.req.to
      BY <1>1, <2>1 DEF Holds, RenameInv, ShapeInv
    <2>3. /\ files' = [files EXCEPT ![j.req.to] = files[p], ![p] = Absent]
          /\ Proceed(w, "dependents", full)
      BY <1>6, <2>2 DEF MoveRename, Dependents, Continue, full
    <2>4. pc'[w] = "dependents" /\ job'[w] = full /\ served' = served
      BY <1>1, <2>3, Proceeded
    <2>5. PlanInv(w)'
      BY <1>1, <1>2, <1>3, <2>2, <2>3, <2>4 DEF Holds, PlanInv
    <2>6. QED  BY <1>1, <1>2, <1>3, <2>1, <2>2, <2>3, <2>4, <2>5, UnusedKept
               DEF Holds, UpdateInv, CreateInv, RenameInv, DeleteInv, RestoreInv, ShapeInv
  <1>7. CASE MoveRenameFails(w)
    <2>1. /\ pc[w] = "move" /\ j.req.op = "rename" /\ files' = files
          /\ Proceed(w, "undoDependents", full)
      BY <1>7 DEF MoveRenameFails, full
    <2>2. pc'[w] = "undoDependents" /\ job'[w] = full /\ served' = served
      BY <1>1, <2>1, Proceeded
    <2>3. QED  BY <1>1, <1>3, <2>1, <2>2, UnusedKept
               DEF Holds, UpdateInv, CreateInv, RenameInv, DeleteInv, RestoreInv, PlanInv, ShapeInv
  <1>8. ASSUME NEW q \in Paths, WriteDependent(w, q) PROVE Holds(w)' /\ Unused'
    <2> DEFINE k == [j EXCEPT !.left = @ \ {q}]
    <2>1. /\ pc[w] = "dependents" /\ q \in j.left /\ Proceed(w, "dependents", k)
          /\ files' = [files EXCEPT ![q] = RewriteOf(w, q).now]
      BY <1>8 DEF WriteDependent, Nth, Continue
    <2>2. pc'[w] = "dependents" /\ job'[w] = k /\ served' = served
      BY <1>1, <2>1, Proceeded
    <2>3. /\ k.req = j.req /\ k.tag = j.tag /\ k.entry = j.entry /\ k.target = j.target
          /\ k.was = j.was /\ k.seen = j.seen /\ k.next = j.next /\ k.plan = j.plan
      BY <1>2, JobFields
    <2> HIDE DEF k
    <2>4. /\ q # p /\ q # j.target
          /\ \A r \in j.plan : r.path = q => r = RewriteOf(w, q)
      BY <2>1, RewriteHolds
    <2>5. PlanInv(w)'
      BY <1>1, <1>2, <2>1, <2>2, <2>3, <2>4 DEF Holds, PlanInv
    <2>6. QED  BY <1>1, <1>2, <2>1, <2>2, <2>3, <2>4, <2>5, UnusedKept
               DEF Holds, UpdateInv, CreateInv, RenameInv, DeleteInv, RestoreInv, ShapeInv
  <1>9. CASE WriteDependentFails(w)
    <2>1. /\ pc[w] = "dependents" /\ files' = files /\ j.left # {}
          /\ Proceed(w, IF j.req.op = "update" THEN "undoPrimary" ELSE "undoDependents", full)
      BY <1>9 DEF WriteDependentFails, full
    <2>2. j.req.op \in {"update", "rename"}
      BY <1>1, <2>1, BusyWorker, RunningJob DEF PhasesOf, Ops, PlanPaths
    <2>3. pc'[w] = (IF j.req.op = "update" THEN "undoPrimary" ELSE "undoDependents")
          /\ job'[w] = full /\ served' = served
      BY <1>1, <2>1, Proceeded
    <2>4. QED  BY <1>1, <1>3, <2>1, <2>2, <2>3, UnusedKept
               DEF Holds, UpdateInv, CreateInv, RenameInv, DeleteInv, RestoreInv, PlanInv, ShapeInv
  <1>10. CASE Reread(w)
    <2>1. \E s \in {200, 404} : Respond(w, s)
      BY <1>10 DEF Reread, Answer
    <2>2. QED  BY <1>1, <2>1, Answered, UnusedKept
  <1>11. QED  BY <1>4, <1>5, <1>6, <1>7, <1>8, <1>9, <1>10 DEF Write

LEMMA UndoHolds ==
  ASSUME IInv, NEW w \in Workers, Undo(w) PROVE Holds(w)' /\ Unused'
  <1> DEFINE j == job[w]
             p == job[w].req.path
             full == [j EXCEPT !.left = PlanPaths(j.plan)]
  <1>1. pc[w] # "idle" /\ TypeOK /\ trash' = trash /\ Holds(w) /\ Unused
    BY DEF IInv, Undo, UndoPrimary, UndoPrimaryFails, UndoDependent, UndoDependentFails, UndoDone,
       UndoMoveRename, UndoMoveRenameFails
  <1>2. /\ j \in Job /\ j.req.op \in Ops /\ pc[w] \in PhasesOf(j.req.op)
        /\ p \in Paths /\ j.req.to \in Paths /\ j.target \in Paths /\ j.entry \in Entries
        /\ files \in [Paths -> File]
        /\ \A r \in j.plan : r.path \in Paths
    BY <1>1, BusyWorker DEF FilesOK, Job
  <1>3. CASE UndoPrimary(w) \/ UndoPrimaryFails(w)
    <2>1. /\ full.req = j.req /\ full.tag = j.tag /\ full.entry = j.entry
          /\ full.target = j.target /\ full.was = j.was /\ full.seen = j.seen
          /\ full.next = j.next /\ full.plan = j.plan
      BY <1>2, JobFields
    <2>2. /\ pc[w] = "undoPrimary" /\ Proceed(w, "undoDependents", full)
          /\ files' = files \/ files' = [files EXCEPT ![p] = j.was]
      BY <1>3 DEF UndoPrimary, UndoPrimaryFails, Continue
    <2> HIDE DEF full
    <2>3. pc'[w] = "undoDependents" /\ job'[w] = full /\ served' = served
      BY <1>1, <2>2, Proceeded
    <2>4. j.req.op = "update"
      BY <1>2, <2>2 DEF PhasesOf, Ops
    <2>5. PlanInv(w)'
      BY <1>1, <1>2, <2>1, <2>2, <2>3 DEF Holds, PlanInv
    <2>6. QED  BY <1>1, <2>1, <2>2, <2>3, <2>4, <2>5, UnusedKept
               DEF Holds, UpdateInv, CreateInv, RenameInv, DeleteInv, RestoreInv, ShapeInv
  <1>4. ASSUME NEW q \in Paths, UndoDependent(w, q) \/ UndoDependentFails(w, q)
        PROVE  Holds(w)' /\ Unused'
    <2> DEFINE k == [j EXCEPT !.left = @ \ {q}]
    <2>1. /\ pc[w] = "undoDependents" /\ q \in j.left /\ Proceed(w, "undoDependents", k)
          /\ files' = files \/ files' = [files EXCEPT ![q] = RewriteOf(w, q).was]
      BY <1>4 DEF UndoDependent, UndoDependentFails, Nth, Continue
    <2>2. pc'[w] = "undoDependents" /\ job'[w] = k /\ served' = served
      BY <1>1, <2>1, Proceeded
    <2>3. /\ k.req = j.req /\ k.tag = j.tag /\ k.entry = j.entry /\ k.target = j.target
          /\ k.was = j.was /\ k.seen = j.seen /\ k.next = j.next /\ k.plan = j.plan
      BY <1>2, JobFields
    <2> HIDE DEF k
    <2>4. /\ q # p /\ q # j.target
          /\ \A r \in j.plan : r.path = q => r = RewriteOf(w, q)
      BY <2>1, RewriteHolds
    <2>5. PlanInv(w)'
      BY <1>1, <1>2, <2>1, <2>2, <2>3, <2>4 DEF Holds, PlanInv
    <2>6. QED  BY <1>1, <1>2, <2>1, <2>2, <2>3, <2>4, <2>5, UnusedKept
               DEF Holds, UpdateInv, CreateInv, RenameInv, DeleteInv, RestoreInv, ShapeInv
  <1>5. CASE UndoDone(w)
    <2>1. /\ pc[w] = "undoDependents" /\ files' = files
          /\ Respond(w, 500) \/ (j.req.op # "update" /\ Proceed(w, "undoMove", j))
      BY <1>5 DEF UndoDone, Answer, Continue
    <2>2. CASE Respond(w, 500)
      BY <1>1, <2>2, Answered, UnusedKept
    <2>3. CASE j.req.op # "update" /\ Proceed(w, "undoMove", j)
      <3>1. pc'[w] = "undoMove" /\ job'[w] = j /\ served' = served
        BY <1>1, <2>3, Proceeded
      <3>2. j.req.op = "rename"
        BY <1>2, <2>1, <2>3 DEF PhasesOf, Ops
      <3>3. QED  BY <1>1, <2>1, <3>1, <3>2, UnusedKept
                 DEF Holds, UpdateInv, CreateInv, RenameInv, DeleteInv, RestoreInv, PlanInv, ShapeInv
    <2>4. QED  BY <2>1, <2>2, <2>3
  <1>6. CASE UndoMoveRename(w) \/ UndoMoveRenameFails(w)
    <2>1. Respond(w, 500)
      BY <1>6 DEF UndoMoveRename, UndoMoveRenameFails, Answer
    <2>2. QED  BY <1>1, <2>1, Answered, UnusedKept
  <1>7. QED  BY <1>3, <1>4, <1>5, <1>6 DEF Undo

LEMMA TrashHolds ==
  ASSUME IInv, NEW w \in Workers, Trash(w) PROVE Holds(w)' /\ Unused'
  <1> DEFINE j == job[w]
             p == job[w].req.path
             t == job[w].entry
  <1>1. pc[w] # "idle" /\ TypeOK /\ Holds(w) /\ Unused
    BY DEF IInv, Trash, MoveDelete, MoveDeleteFails, WriteManifest, WriteManifestFails,
       UndoMoveDelete, UndoMoveDeleteFails, MoveRestore, MoveRestoreFails, Cleanup, CleanupFails
  <1>2. /\ j \in Job /\ j.req.op \in Ops /\ pc[w] \in PhasesOf(j.req.op)
        /\ p \in Paths /\ j.target \in Paths /\ t \in Entries
        /\ files \in [Paths -> File] /\ trash \in [Entries -> Entry]
        /\ served \in Nat /\ Entries \subseteq Nat
    BY <1>1, BusyWorker, BoundsAssumption DEF FilesOK, ControlOK, Entries
  <1>3. /\ j.req.op = "delete" => t = served
        /\ j.req.op \in {"delete", "restore"} => j.plan = {}
    BY <1>1 DEF Holds, DeleteInv, ShapeInv
  <1>4. CASE MoveDelete(w)
    <2>1. /\ pc[w] = "move" /\ j.req.op = "delete" /\ files[p] = j.seen /\ j.seen # Absent
          /\ trash[t] = NoEntry /\ t = served
      BY <1>1, <1>4 DEF MoveDelete, Holds, DeleteInv
    <2>2. /\ trash' = [trash EXCEPT ![t].payload = files[p]]
          /\ files' = [files EXCEPT ![p] = Absent]
          /\ Proceed(w, "manifest", j)
      BY <1>4, <2>1 DEF MoveDelete, Continue
    <2>3. pc'[w] = "manifest" /\ job'[w] = j /\ served' = served
      BY <1>1, <2>2, Proceeded
    <2>4. Unused'
      BY <1>1, <1>2, <2>1, <2>2, <2>3 DEF Unused
    <2>5. files'[p] = Absent /\ trash'[t].payload = j.seen
      BY <1>2, <2>1, <2>2 DEF Entry
    <2>6. QED  BY <1>1, <1>3, <2>1, <2>3, <2>4, <2>5
               DEF Holds, UpdateInv, CreateInv, RenameInv, DeleteInv, RestoreInv, PlanInv, ShapeInv
  <1>5. CASE MoveDeleteFails(w) \/ WriteManifestFails(w)
    <2>1. /\ pc[w] \in {"move", "manifest"} /\ j.req.op = "delete" /\ t = served
          /\ j.seen # Absent /\ files' = files /\ Proceed(w, "undoMove", j)
      <3>1. pc[w] \in {"move", "manifest"} /\ files' = files /\ Proceed(w, "undoMove", j)
        BY <1>5 DEF MoveDeleteFails, WriteManifestFails
      <3>2. j.req.op = "delete"
        BY <1>2, <1>5 DEF MoveDeleteFails, WriteManifestFails, PhasesOf, Ops
      <3>3. QED  BY <1>1, <3>1, <3>2 DEF Holds, DeleteInv
    <2>2. pc'[w] = "undoMove" /\ job'[w] = j /\ served' = served
      BY <1>1, <2>1, Proceeded
    <2>3. trash' = trash \/ \E m : trash' = [trash EXCEPT ![t].manifest = m]
      BY <1>5 DEF MoveDeleteFails, WriteManifestFails
    <2>4. /\ trash'[t].payload = trash[t].payload
          /\ \A u \in Entries : u # t => trash'[u] = trash[u]
      BY <1>2, <2>3 DEF Entry
    <2>5. Unused'
      <3>1. \A u \in Entries : u > served => u # t
        BY <1>2, <2>1
      <3>2. QED  BY <1>1, <2>2, <2>4, <3>1 DEF Unused
    <2>6. \/ files[p] = j.seen /\ trash[t].payload = Absent
          \/ files[p] = Absent /\ trash[t].payload = j.seen
      BY <1>1, <2>1 DEF Holds, DeleteInv, NoEntry
    <2>7. QED  BY <1>1, <1>3, <2>1, <2>2, <2>4, <2>5, <2>6
               DEF Holds, UpdateInv, CreateInv, RenameInv, DeleteInv, RestoreInv, PlanInv, ShapeInv
  <1>6. CASE MoveRestore(w) /\ trash[t].payload # Absent
    <2>1. /\ pc[w] = "move" /\ j.req.op = "restore" /\ Proceed(w, "cleanup", j)
          /\ trash' = [trash EXCEPT ![t].payload = Absent]
      BY <1>6 DEF MoveRestore, Continue
    <2>2. pc'[w] = "cleanup" /\ job'[w] = j /\ served' = served
      BY <1>1, <2>1, Proceeded
    <2>3. trash'[t].payload = Absent /\ \A u \in Entries : u # t => trash'[u] = trash[u]
      BY <1>2, <2>1 DEF Entry
    <2>4. ~(t > served)
      <3>1. NoEntry.payload = Absent
        BY DEF NoEntry
      <3>2. QED  BY <1>1, <1>2, <1>6, <3>1 DEF Unused
    <2>5. Unused'
      BY <1>1, <1>2, <2>2, <2>3, <2>4 DEF Unused
    <2>6. QED  BY <1>3, <2>1, <2>2, <2>3, <2>5
               DEF Holds, UpdateInv, CreateInv, RenameInv, DeleteInv, RestoreInv, PlanInv, ShapeInv
  <1>7. CASE \/ WriteManifest(w) \/ UndoMoveDelete(w) \/ UndoMoveDeleteFails(w)
             \/ MoveRestore(w) /\ trash[t].payload = Absent
             \/ MoveRestoreFails(w) \/ Cleanup(w) \/ CleanupFails(w)
    <2>1. \E s \in {200, 404, 500} : Respond(w, s)
      BY <1>7 DEF WriteManifest, UndoMoveDelete, UndoMoveDeleteFails, MoveRestore,
         MoveRestoreFails, Cleanup, CleanupFails, Answer
    <2>2. Holds(w)' /\ served' = served
      BY <1>1, <2>1, Answered
    <2>3. CASE Cleanup(w) \/ CleanupFails(w)
      <3>1. trash' = [trash EXCEPT ![t] = NoEntry] \/ trash' = [trash EXCEPT ![t] = trash[t]]
        BY <2>3 DEF Cleanup, CleanupFails
      <3>2. \A u \in Entries : trash'[u] \in {trash[u], NoEntry}
        BY <1>2, <3>1
      <3>3. QED  BY <1>1, <2>2, <3>2 DEF Unused
    <2>4. CASE WriteManifest(w) \/ UndoMoveDelete(w)
      <3>1. pc[w] # "match" /\ j.req.op = "delete"
        BY <1>2, <2>4 DEF WriteManifest, UndoMoveDelete, PhasesOf, Ops
      <3>2. t = served
        BY <1>1, <3>1 DEF Holds, DeleteInv
      <3>3. \/ trash' = trash
            \/ trash' = [trash EXCEPT ![t].manifest = p]
            \/ trash' = [trash EXCEPT ![t].payload = Absent]
        BY <2>4 DEF WriteManifest, UndoMoveDelete
      <3>4. \A u \in Entries : u # t => trash'[u] = trash[u]
        BY <1>2, <3>3
      <3>5. QED  BY <1>1, <1>2, <2>2, <3>2, <3>4 DEF Unused
    <2>5. CASE trash' = trash
      BY <1>1, <2>2, <2>5, UnusedKept
    <2>6. QED  BY <1>7, <2>3, <2>4, <2>5 DEF UndoMoveDeleteFails, MoveRestore, MoveRestoreFails
  <1>8. QED  BY <1>4, <1>5, <1>6, <1>7 DEF Trash

LEMMA CrashHolds ==
  ASSUME IInv, Crash, NEW w \in Workers PROVE Holds(w)' /\ Unused'
  <1>1. pc'[w] = "idle"
    BY DEF Crash
  <1>2. Holds(w)'
    BY <1>1 DEF Holds, UpdateInv, CreateInv, RenameInv, DeleteInv, RestoreInv, PlanInv, ShapeInv
  <1>3. PICK torn \in SUBSET {v \in Workers : pc[v] = "manifest"} :
          trash' = [t \in Entries |->
                      IF \E v \in torn : job[v].entry = t
                      THEN [trash[t] EXCEPT !.manifest = Torn] ELSE trash[t]]
    BY DEF Crash
  <1>4. \A v \in torn : job[v].entry = served
    <2>1. SUFFICES ASSUME NEW v \in torn PROVE job[v].entry = served
      OBVIOUS
    <2>2. v \in Workers /\ pc[v] = "manifest" /\ TypeOK /\ DeleteInv(v)
      BY DEF IInv, Holds
    <2>3. job[v].req.op = "delete"
      BY <2>2, BusyWorker DEF PhasesOf, Ops
    <2>4. QED  BY <2>2, <2>3 DEF DeleteInv
  <1>5. served' = served /\ served \in Nat /\ Entries \subseteq Nat
    BY BoundsAssumption DEF Crash, IInv, TypeOK, Entries
  <1>6. \A t \in Entries : t > served => trash'[t] = trash[t]
    BY <1>3, <1>4, <1>5
  <1>7. QED  BY <1>2, <1>5, <1>6 DEF IInv, Unused

LEMMA NextHolds ==
  ASSUME Sequential, IInv, [Next]_vars PROVE IInv'
  <1>1. TypeOK'
    BY SubmitType, RefuseType, PrepareType, WriteType, UndoType, TrashType, CrashType, StutterType
       DEF IInv, Next, Step, Quiet
  <1>2. CASE \E w \in Workers : Submit(w) \/ Step(w)
    <2>1. PICK w \in Workers : Submit(w) \/ Step(w)
      BY <1>2
    <2>2. Holds(w)' /\ Unused'
      BY <2>1, SubmitHolds, PrepareHolds, WriteHolds, UndoHolds, TrashHolds DEF Step
    <2>3. \A v \in Workers : v = w
      BY DEF Sequential
    <2>4. QED  BY <1>1, <2>2, <2>3 DEF IInv
  <1>3. CASE Crash
    <2>1. Unused'
      <3>1. PICK w \in Workers : pc[w] # "idle"
        BY <1>3 DEF Crash
      <3>2. QED  BY <1>3, <3>1, CrashHolds
    <2>2. QED  BY <1>1, <1>3, <2>1, CrashHolds DEF IInv
  <1>4. CASE UNCHANGED vars
    BY <1>1, <1>4 DEF vars, IInv, Unused, Holds, UpdateInv, CreateInv, RenameInv, DeleteInv,
       RestoreInv, PlanInv, ShapeInv, TagMatches
  <1>5. QED  BY <1>2, <1>3, <1>4 DEF Next, Quiet

LEMMA IInvariant == Sequential /\ Spec => []IInv
  <1>1. SUFFICES ASSUME Sequential PROVE Spec => []IInv
    OBVIOUS
  <1>2. Init => IInv
    <2> SUFFICES ASSUME Init PROVE IInv
      OBVIOUS
    <2>1. TypeOK
      BY InitType
    <2>2. \A w \in Workers : pc[w] = "idle"
      BY DEF Init
    <2>3. QED  BY <2>1, <2>2 DEF Init, IInv, Unused, Holds, UpdateInv, CreateInv, RenameInv,
                  DeleteInv, RestoreInv, PlanInv, ShapeInv
  <1>3. IInv /\ [Next]_vars => IInv'
    BY <1>1, NextHolds
  <1>4. QED  BY <1>2, <1>3, PTL DEF Spec

\* One request at a time, every handler finds its files as it last saw them: update the
\* revision whose ETag it compared, rename and restore a free target, delete its own
\* trash entry, and every planned dependent its old or new source (checks at 147, 195,
\* 508 and 555 against the writes and moves after them).
THEOREM HandlersHold == Sequential /\ Spec => []HandlersHoldTheirFiles
  <1>1. IInv => HandlersHoldTheirFiles
    BY DEF IInv, Unused, Holds, HandlersHoldTheirFiles
  <1>2. QED  BY <1>1, IInvariant, PTL

----
(* The body of NoRevisionLost.                                             *)
Kept ==
  /\ \A p \in Paths :
       files[p] # Absent /\ files'[p] # files[p] =>
         Moved(p) \/ \E w \in Workers : MayReplace(w, p)
  /\ \A t \in Entries :
       trash[t].payload # Absent /\ trash'[t].payload # trash[t].payload =>
         \E p \in Paths : files[p] = Absent /\ files'[p] = trash[t].payload

LEMMA WriteKeeps ==
  ASSUME IInv, NEW w \in Workers, Write(w) \/ Undo(w) PROVE Kept
  <1> DEFINE j == job[w]
             p == job[w].req.path
             to == job[w].req.to
  <1>1. pc[w] # "idle" /\ TypeOK /\ trash' = trash /\ Holds(w)
    BY DEF IInv, Write, WritePrimary, WritePrimaryFails, MoveRename, MoveRenameFails,
       WriteDependent, WriteDependentFails, Reread, Undo, UndoPrimary, UndoPrimaryFails,
       UndoDependent, UndoDependentFails, UndoDone, UndoMoveRename, UndoMoveRenameFails
  <1>2. /\ j \in Job /\ j.req.op \in Ops /\ pc[w] \in PhasesOf(j.req.op)
        /\ p \in Paths /\ to \in Paths /\ files \in [Paths -> File]
    BY <1>1, BusyWorker DEF FilesOK
  <1>3. CASE files' = files
    BY <1>1, <1>3 DEF Kept
  <1>4. CASE WritePrimary(w)
    <2>1. pc[w] = "write" /\ files' = [files EXCEPT ![p] = j.next]
      BY <1>4 DEF WritePrimary
    <2>2. CASE j.req.op = "create"
      BY <1>1, <1>2, <2>1, <2>2 DEF Kept, Holds, CreateInv
    <2>3. CASE j.req.op = "update"
      <3>1. TagMatches(j.tag, files[p])
        BY <1>1, <2>1, <2>3 DEF Holds, UpdateInv
      <3>2. QED  BY <1>1, <1>2, <2>1, <2>3, <3>1 DEF Kept, MayReplace
    <2>4. QED  BY <1>2, <2>1, <2>2, <2>3 DEF PhasesOf, Ops
  <1>5. CASE UndoPrimary(w)
    <2>1. pc[w] = "undoPrimary" /\ files' = [files EXCEPT ![p] = j.was]
      BY <1>5 DEF UndoPrimary
    <2>2. j.req.op = "update"
      BY <1>2, <2>1 DEF PhasesOf, Ops
    <2>3. files[p] = j.next \/ TagMatches(j.tag, files[p])
      BY <1>1, <2>1, <2>2 DEF Holds, UpdateInv
    <2>4. QED  BY <1>1, <1>2, <2>1, <2>2, <2>3 DEF Kept, MayReplace
  <1>6. CASE \E q \in Paths : WriteDependent(w, q) \/ UndoDependent(w, q)
    <2>1. PICK q \in Paths : WriteDependent(w, q) \/ UndoDependent(w, q)
      BY <1>6
    <2>2. /\ pc[w] \in {"dependents", "undoDependents"} /\ q \in j.left
          /\ \A r \in Paths : r # q => files'[r] = files[r]
      BY <1>2, <2>1 DEF WriteDependent, UndoDependent, Nth
    <2>3. \E r \in j.plan : r.path = q /\ files[q] \in {r.was, r.now}
      BY <2>2, RewriteHolds
    <2>4. MayReplace(w, q)
      BY <1>1, <2>3 DEF MayReplace
    <2>5. QED  BY <1>1, <2>2, <2>4 DEF Kept
  <1>7. CASE MoveRename(w) \/ UndoMoveRename(w)
    <2>1. j.req.op = "rename" /\ pc[w] \in {"move", "undoMove"}
      BY <1>7 DEF MoveRename, UndoMoveRename
    <2>2. \/ files[p] # Absent /\ files[to] = Absent
          \/ files[p] = Absent /\ files[to] # Absent
      BY <1>1, <2>1 DEF Holds, RenameInv
    <2>3. \/ files' = files
          \/ /\ files[p] # Absent
             /\ files' = [files EXCEPT ![to] = files[p], ![p] = Absent]
          \/ /\ files[to] # Absent
             /\ files' = [files EXCEPT ![p] = files[to], ![to] = Absent]
      BY <1>7 DEF MoveRename, UndoMoveRename
    <2>4. CASE files[p] # Absent /\ files[to] = Absent
               /\ files' = [files EXCEPT ![to] = files[p], ![p] = Absent]
      <3>1. /\ p # to /\ files'[to] = files[p]
            /\ \A r \in Paths \ {p, to} : files'[r] = files[r]
        BY <1>2, <2>4
      <3>2. QED  BY <1>1, <1>2, <2>4, <3>1 DEF Kept, Moved
    <2>5. CASE files[p] = Absent /\ files[to] # Absent
               /\ files' = [files EXCEPT ![p] = files[to], ![to] = Absent]
      <3>1. /\ p # to /\ files'[p] = files[to]
            /\ \A r \in Paths \ {p, to} : files'[r] = files[r]
        BY <1>2, <2>5
      <3>2. QED  BY <1>1, <1>2, <2>5, <3>1 DEF Kept, Moved
    <2>6. QED  BY <1>3, <2>2, <2>3, <2>4, <2>5
  <1>8. QED  BY <1>3, <1>4, <1>5, <1>6, <1>7
             DEF Write, WritePrimaryFails, MoveRenameFails, WriteDependentFails, Reread, Undo,
                 UndoPrimaryFails, UndoDependentFails, UndoDone, UndoMoveRenameFails

LEMMA TrashKeeps ==
  ASSUME IInv, NEW w \in Workers, Trash(w) PROVE Kept
  <1> DEFINE j == job[w]
             p == job[w].req.path
             t == job[w].entry
  <1>1. pc[w] # "idle" /\ TypeOK /\ Holds(w)
    BY DEF IInv, Trash, MoveDelete, MoveDeleteFails, WriteManifest, WriteManifestFails,
       UndoMoveDelete, UndoMoveDeleteFails, MoveRestore, MoveRestoreFails, Cleanup, CleanupFails
  <1>2. /\ j \in Job /\ j.req.op \in Ops /\ pc[w] \in PhasesOf(j.req.op)
        /\ p \in Paths /\ j.target \in Paths /\ t \in Entries
        /\ files \in [Paths -> File] /\ trash \in [Entries -> Entry]
    BY <1>1, BusyWorker DEF FilesOK
  <1>3. CASE files' = files /\ \A u \in Entries : trash'[u].payload = trash[u].payload
    BY <1>3 DEF Kept
  <1>4. CASE MoveDelete(w)
    <2>1. /\ pc[w] = "move" /\ j.req.op = "delete" /\ files[p] # Absent
          /\ trash[t] = NoEntry
      BY <1>1, <1>4 DEF MoveDelete, Holds, DeleteInv
    <2>2. /\ trash' = [trash EXCEPT ![t].payload = files[p]]
          /\ files' = [files EXCEPT ![p] = Absent]
      BY <1>4, <2>1 DEF MoveDelete
    <2>3. /\ trash[t].payload = Absent /\ trash'[t].payload = files[p]
          /\ \A u \in Entries \ {t} : trash'[u] = trash[u]
          /\ \A q \in Paths \ {p} : files'[q] = files[q]
      BY <1>2, <2>1, <2>2 DEF Entry, NoEntry
    <2>4. QED  BY <1>2, <2>3 DEF Kept, Moved
  <1>5. CASE UndoMoveDelete(w) /\ trash[t].payload # Absent
    <2>1. pc[w] = "undoMove" /\ j.req.op = "delete" /\ files[p] = Absent
      BY <1>1, <1>5 DEF UndoMoveDelete, Holds, DeleteInv
    <2>2. /\ files' = [files EXCEPT ![p] = trash[t].payload]
          /\ trash' = [trash EXCEPT ![t].payload = Absent]
      BY <1>5 DEF UndoMoveDelete
    <2>3. /\ files'[p] = trash[t].payload
          /\ \A u \in Entries \ {t} : trash'[u] = trash[u]
          /\ \A q \in Paths \ {p} : files'[q] = files[q]
      BY <1>2, <2>2
    <2>4. QED  BY <1>2, <2>1, <2>3 DEF Kept
  <1>6. CASE MoveRestore(w) /\ trash[t].payload # Absent
    <2>1. pc[w] = "move" /\ j.req.op = "restore" /\ files[j.target] = Absent
      BY <1>1, <1>6 DEF MoveRestore, Holds, RestoreInv
    <2>2. /\ files' = [files EXCEPT ![j.target] = trash[t].payload]
          /\ trash' = [trash EXCEPT ![t].payload = Absent]
      BY <1>6 DEF MoveRestore
    <2>3. /\ files'[j.target] = trash[t].payload
          /\ \A u \in Entries \ {t} : trash'[u] = trash[u]
          /\ \A q \in Paths \ {j.target} : files'[q] = files[q]
      BY <1>2, <2>2
    <2>4. QED  BY <1>2, <2>1, <2>3 DEF Kept
  <1>7. CASE Cleanup(w) \/ CleanupFails(w)
    <2>1. pc[w] = "cleanup" /\ files' = files
          /\ (trash' = [trash EXCEPT ![t] = NoEntry] \/ trash' = [trash EXCEPT ![t] = trash[t]])
      BY <1>7 DEF Cleanup, CleanupFails
    <2>2. j.req.op = "restore"
      BY <1>2, <2>1 DEF PhasesOf, Ops
    <2>3. trash[t].payload = Absent
      BY <1>1, <2>1, <2>2 DEF Holds, RestoreInv
    <2>4. \A u \in Entries \ {t} : trash'[u] = trash[u]
      BY <1>2, <2>1
    <2>5. QED  BY <2>1, <2>3, <2>4 DEF Kept
  <1>8. CASE WriteManifest(w) \/ WriteManifestFails(w)
    <2>1. /\ files' = files
          /\ \E m : trash' = [trash EXCEPT ![t].manifest = m]
      BY <1>8 DEF WriteManifest, WriteManifestFails
    <2>2. \A u \in Entries : trash'[u].payload = trash[u].payload
      BY <1>2, <2>1 DEF Entry
    <2>3. QED  BY <1>3, <2>1, <2>2
  <1>9. CASE \/ MoveDeleteFails(w) \/ MoveRestoreFails(w) \/ UndoMoveDeleteFails(w)
             \/ (UndoMoveDelete(w) \/ MoveRestore(w)) /\ trash[t].payload = Absent
    BY <1>3, <1>9
       DEF MoveDeleteFails, MoveRestoreFails, UndoMoveDeleteFails, UndoMoveDelete, MoveRestore
  <1>10. QED  BY <1>4, <1>5, <1>6, <1>7, <1>8, <1>9 DEF Trash

LEMMA NextKeeps ==
  ASSUME IInv, Next PROVE Kept
  <1>1. CASE \E w \in Workers : Submit(w) \/ Refuse(w) \/ Prepare(w)
    <2>1. files' = files /\ trash' = trash
      BY <1>1 DEF Submit, Refuse, MatchMissing, MatchRefused, Prepare, MatchPassed, ReadExisting,
         Impact, PlanUpdate, PlanRename, Cycle, CheckCreate, CheckUpdate, CheckDelete,
         CheckRename, CheckRestore
    <2>2. QED  BY <2>1 DEF Kept
  <1>2. CASE \E w \in Workers : Write(w) \/ Undo(w) \/ Trash(w)
    BY <1>2, WriteKeeps, TrashKeeps
  <1>3. CASE Crash
    <2>1. files' = files
      BY <1>3 DEF Crash
    <2>2. \A t \in Entries : trash'[t].payload = trash[t].payload
      <3>1. PICK torn \in SUBSET {v \in Workers : pc[v] = "manifest"} :
              trash' = [t \in Entries |->
                          IF \E v \in torn : job[v].entry = t
                          THEN [trash[t] EXCEPT !.manifest = Torn] ELSE trash[t]]
        BY <1>3 DEF Crash
      <3>2. \A t \in Entries :
              trash[t] \in Entry /\ [trash[t] EXCEPT !.manifest = Torn].payload = trash[t].payload
        BY DEF IInv, TypeOK, Entry
      <3>3. QED  BY <3>1, <3>2
    <2>3. QED  BY <2>1, <2>2 DEF Kept
  <1>4. CASE Quiet
    BY <1>4 DEF Quiet, vars, Kept
  <1>5. QED  BY <1>1, <1>2, <1>3, <1>4 DEF Next, Step

\* One request at a time, no step discards a revision, whatever the requests, the failing
\* writes and the restarts: what documents_concurrent shows of two threads is the only
\* way to lose one.
THEOREM NothingIsLost == Sequential /\ Spec => NoRevisionLost
  <1>1. IInv /\ [Next]_vars => [Kept]_vars
    BY NextKeeps
  <1>2. QED  BY <1>1, IInvariant, PTL DEF Spec, NoRevisionLost, Kept

-----------------------------------------------------------------------------
(* What a failing write or move leaves behind.                             *)

(* A delete that takes its document out of the trash again met a failure,  *)
(* and only a delete has a payload in the trash without its manifest.      *)
InTrash(w) == job[w].req.op = "delete" /\ pc[w] \in {"manifest", "undoMove"}

Undoing == \A w \in Workers : InTrash(w) /\ pc[w] = "undoMove" => faults >= 1

Recoverable ==
  crashes = 0 /\ faults <= 1 =>
    \A t \in Entries :
      trash[t].payload # Absent =>
        trash[t].manifest \in Paths \/ \E w \in Workers : InTrash(w) /\ job[w].entry = t

RInv == Undoing /\ Recoverable

LEMMA Numbers ==
  ASSUME TypeOK
  PROVE  /\ faults \in Nat /\ crashes \in Nat /\ trash \in [Entries -> Entry]
         /\ \A t \in Entries :
              trash[t].payload \in File /\ trash[t].manifest \in Paths \cup {Absent, Torn}
  BY BoundsAssumption DEF TypeOK, Entry

\* A step that leaves the trash alone, outside the phases of a delete that are excused.
LEMMA TrashLeft ==
  ASSUME Sequential, TypeOK, TypeOK', RInv, NEW w \in Workers, trash' = trash,
         faults' >= faults, crashes' = crashes, ~InTrash(w),
         InTrash(w)' /\ pc'[w] = "undoMove" => faults' >= 1
  PROVE  RInv'
  <1>1. Undoing' /\ \A v \in Workers : v = w
    BY DEF Undoing, Sequential
  <1>2. faults \in Nat /\ faults' \in Nat
    BY BoundsAssumption DEF TypeOK
  <1>3. QED  BY <1>1, <1>2 DEF RInv, Recoverable

LEMMA OtherStepsRecoverable ==
  ASSUME Sequential, IInv, IInv', RInv, NEW w \in Workers,
         Submit(w) \/ Refuse(w) \/ Prepare(w) \/ Write(w) \/ Undo(w)
  PROVE  RInv'
  <1>1. TypeOK /\ TypeOK' /\ faults \in Nat
    BY Numbers DEF IInv
  <1>2. trash' = trash /\ crashes' = crashes
    BY DEF Submit, Refuse, MatchMissing, MatchRefused, Prepare, MatchPassed, ReadExisting,
       Impact, PlanUpdate, PlanRename, Cycle, CheckCreate, CheckUpdate, CheckDelete,
       CheckRename, CheckRestore, Write, WritePrimary, WritePrimaryFails, MoveRename,
       MoveRenameFails, WriteDependent, WriteDependentFails, Reread, Undo, UndoPrimary,
       UndoPrimaryFails, UndoDependent, UndoDependentFails, UndoDone, UndoMoveRename,
       UndoMoveRenameFails, Dependents, Answer, Continue, Respond, Proceed
  <1>3. faults' = faults \/ faults' = faults + 1
    BY DEF Submit, Refuse, MatchMissing, MatchRefused, Prepare, MatchPassed, ReadExisting,
       Impact, PlanUpdate, PlanRename, Cycle, CheckCreate, CheckUpdate, CheckDelete,
       CheckRename, CheckRestore, Write, WritePrimary, WritePrimaryFails, MoveRename,
       MoveRenameFails, WriteDependent, WriteDependentFails, Reread, Undo, UndoPrimary,
       UndoPrimaryFails, UndoDependent, UndoDependentFails, UndoDone, UndoMoveRename,
       UndoMoveRenameFails, Dependents, Answer, Continue, Fault
  <1>4. ~InTrash(w) /\ ~(InTrash(w)' /\ pc'[w] = "undoMove")
    <2>1. CASE Submit(w)
      <3>1. \E r \in Requests : pc'[w] = Start(r)
        BY <1>1, <2>1 DEF Submit, TypeOK
      <3>2. pc'[w] # "undoMove" /\ pc[w] = "idle"
        BY <2>1, <3>1, InputsAssumption DEF Start, Request, Ops, Submit
      <3>3. QED  BY <3>2 DEF InTrash
    <2>2. CASE ~Submit(w)
      <3>1. pc[w] # "idle" /\ pc[w] # "manifest" /\ (pc[w] = "undoMove" => job[w].req.op = "rename")
        BY <2>2
           DEF Refuse, MatchMissing, MatchRefused, Prepare, MatchPassed, ReadExisting, Impact,
               PlanUpdate, PlanRename, Cycle, CheckCreate, CheckUpdate, CheckDelete, CheckRename,
               CheckRestore, Write, WritePrimary, WritePrimaryFails, MoveRename, MoveRenameFails,
               WriteDependent, WriteDependentFails, Reread, Undo, UndoPrimary, UndoPrimaryFails,
               UndoDependent, UndoDependentFails, UndoDone, UndoMoveRename, UndoMoveRenameFails
      <3>2. SUFFICES ASSUME pc'[w] = "undoMove" PROVE job'[w].req.op # "delete"
        BY <3>1 DEF InTrash
      <3>3. job[w].req.op \in Ops /\ pc[w] \in PhasesOf(job[w].req.op)
        BY <1>1, <3>1, BusyWorker
      <3>4. ~MatchPassed(w)
        <4>1. SUFFICES ASSUME MatchPassed(w) PROVE FALSE
          OBVIOUS
        <4>2. pc[w] = "match" /\ pc'[w] = AfterMatch(job[w].req.op)
          BY <1>1, <4>1 DEF MatchPassed, Continue, Proceed, TypeOK
        <4>3. job[w].req.op \in {"update", "rename", "delete"}
          BY <3>3, <4>2 DEF PhasesOf, Ops
        <4>4. QED  BY <3>2, <4>2, <4>3 DEF AfterMatch
      <3>5. ~(Refuse(w) \/ Prepare(w))
        BY <1>1, <3>2, <3>4
           DEF TypeOK, Refuse, MatchMissing, MatchRefused, Prepare, ReadExisting, Impact,
               PlanUpdate, PlanRename, Cycle, CheckCreate, CheckUpdate, CheckDelete, CheckRename,
               CheckRestore, Answer, Continue, Respond, Proceed
      <3>6. ~Write(w)
        BY <1>1, <3>2
           DEF TypeOK, Write, WritePrimary, WritePrimaryFails, MoveRename, MoveRenameFails,
               WriteDependent, WriteDependentFails, Reread, Dependents, Answer, Continue, Respond,
               Proceed
      <3>7. UndoDone(w)
        BY <1>1, <2>2, <3>2, <3>5, <3>6
           DEF TypeOK, Undo, UndoPrimary, UndoPrimaryFails, UndoDependent, UndoDependentFails,
               UndoMoveRename, UndoMoveRenameFails, Answer, Continue, Respond, Proceed
      <3>8. pc[w] = "undoDependents" /\ job'[w] = job[w]
        BY <1>1, <3>2, <3>7 DEF UndoDone, Answer, Continue, Respond, Proceed, TypeOK
      <3>9. QED  BY <3>3, <3>8 DEF PhasesOf, Ops
    <2>3. QED  BY <2>1, <2>2
  <1>5. QED  BY <1>1, <1>2, <1>3, <1>4, TrashLeft

LEMMA TrashStepsRecoverable ==
  ASSUME Sequential, IInv, RInv, NEW w \in Workers, Trash(w) PROVE RInv'
  <1> DEFINE j == job[w]
             p == job[w].req.path
             t == job[w].entry
  <1>1. /\ pc[w] # "idle" /\ TypeOK /\ TypeOK' /\ crashes' = crashes /\ Holds(w)
        /\ \A v \in Workers : v = w
    BY TrashType DEF IInv, Sequential, Trash, MoveDelete, MoveDeleteFails, WriteManifest,
       WriteManifestFails, UndoMoveDelete, UndoMoveDeleteFails, MoveRestore, MoveRestoreFails,
       Cleanup, CleanupFails, Answer, Continue, Respond, Proceed
  <1>2. /\ j.req.op \in Ops /\ pc[w] \in PhasesOf(j.req.op) /\ p \in Paths /\ t \in Entries
        /\ trash \in [Entries -> Entry] /\ trash' \in [Entries -> Entry]
        /\ faults \in Nat /\ faults' \in Nat /\ crashes \in Nat
    BY <1>1, BusyWorker, Numbers, BoundsAssumption DEF TypeOK
  <1>3. CASE MoveDelete(w)
    <2>1. pc[w] = "move" /\ j.req.op = "delete" /\ files[p] # Absent
      BY <1>1, <1>3 DEF MoveDelete, Holds, DeleteInv
    <2>2. /\ trash' = [trash EXCEPT ![t].payload = files[p]]
          /\ Proceed(w, "manifest", j) /\ faults' = faults
      BY <1>3, <2>1 DEF MoveDelete, Continue
    <2>3. pc'[w] = "manifest" /\ job'[w] = j
      BY <1>1, <2>2, Proceeded
    <2>4. \A u \in Entries \ {t} : trash'[u] = trash[u]
      BY <1>2, <2>2
    <2>5. QED  BY <1>1, <1>2, <2>1, <2>2, <2>3, <2>4 DEF RInv, Undoing, Recoverable, InTrash
  <1>4. CASE MoveDeleteFails(w)
    <2>1. pc[w] = "move" /\ trash' = trash /\ faults' = faults + 1
      BY <1>4 DEF MoveDeleteFails, Fault
    <2>2. QED  BY <1>1, <1>2, <2>1, TrashLeft DEF InTrash
  <1>5. CASE WriteManifest(w)
    <2>1. /\ trash' = [trash EXCEPT ![t].manifest = p] /\ faults' = faults
          /\ pc[w] = "manifest" /\ pc'[w] = "idle"
      BY <1>1, <1>5 DEF WriteManifest, Answer, Respond, TypeOK
    <2>2. trash'[t].manifest = p /\ \A u \in Entries \ {t} : trash'[u] = trash[u]
      BY <1>2, <2>1 DEF Entry
    <2>3. QED  BY <1>1, <1>2, <2>1, <2>2 DEF RInv, Undoing, Recoverable, InTrash
  <1>6. CASE WriteManifestFails(w)
    <2>1. /\ pc[w] = "manifest" /\ faults' = faults + 1 /\ Proceed(w, "undoMove", j)
          /\ \E m : trash' = [trash EXCEPT ![t].manifest = m]
      BY <1>6 DEF WriteManifestFails, Fault
    <2>2. pc'[w] = "undoMove" /\ job'[w] = j
      BY <1>1, <2>1, Proceeded
    <2>3. \A u \in Entries \ {t} : trash'[u] = trash[u]
      BY <1>2, <2>1
    <2>4. j.req.op = "delete"
      BY <1>2, <2>1 DEF PhasesOf, Ops
    <2>5. QED  BY <1>1, <1>2, <2>1, <2>2, <2>3, <2>4 DEF RInv, Undoing, Recoverable, InTrash
  <1>7. CASE UndoMoveDelete(w)
    <2>1. /\ pc'[w] = "idle" /\ faults' = faults
          /\ (trash' = trash /\ trash[t].payload = Absent)
             \/ trash' = [trash EXCEPT ![t].payload = Absent]
      BY <1>1, <1>7 DEF UndoMoveDelete, Answer, Respond, TypeOK
    <2>2. trash'[t].payload = Absent /\ \A u \in Entries \ {t} : trash'[u] = trash[u]
      BY <1>2, <2>1 DEF Entry
    <2>3. QED  BY <1>1, <1>2, <2>1, <2>2 DEF RInv, Undoing, Recoverable, InTrash
  <1>8. CASE UndoMoveDeleteFails(w)
    <2>1. /\ pc[w] = "undoMove" /\ j.req.op = "delete" /\ faults' = faults + 1
          /\ pc'[w] = "idle"
      BY <1>1, <1>8 DEF UndoMoveDeleteFails, Fault, Respond, TypeOK
    <2>2. faults' > 1
      BY <1>1, <1>2, <2>1 DEF RInv, Undoing, InTrash
    <2>3. QED  BY <1>1, <1>2, <2>1, <2>2 DEF RInv, Undoing, Recoverable, InTrash
  <1>9. CASE MoveRestore(w)
    <2>1. /\ pc[w] = "move" /\ faults' = faults /\ pc'[w] \in {"idle", "cleanup"}
          /\ trash' = trash \/ trash' = [trash EXCEPT ![t].payload = Absent]
      BY <1>1, <1>9 DEF MoveRestore, Answer, Continue, Respond, Proceed, TypeOK
    <2>2. \A u \in Entries :
            trash'[u] = trash[u] \/ trash'[u].payload = Absent
      BY <1>2, <2>1 DEF Entry
    <2>3. QED  BY <1>1, <1>2, <2>1, <2>2 DEF RInv, Undoing, Recoverable, InTrash
  <1>10. CASE MoveRestoreFails(w)
    <2>1. pc[w] = "move" /\ trash' = trash /\ faults' = faults + 1
      BY <1>10 DEF MoveRestoreFails, Fault
    <2>2. QED  BY <1>1, <1>2, <2>1, TrashLeft DEF InTrash
  <1>11. CASE Cleanup(w) \/ CleanupFails(w)
    <2>1. /\ pc[w] = "cleanup" /\ pc'[w] = "idle" /\ (faults' = faults \/ faults' = faults + 1)
          /\ (trash' = [trash EXCEPT ![t] = NoEntry] \/ trash' = [trash EXCEPT ![t] = trash[t]])
      BY <1>1, <1>11 DEF Cleanup, CleanupFails, Answer, Respond, Fault, TypeOK
    <2>2. \A u \in Entries : trash'[u] = trash[u] \/ trash'[u].payload = Absent
      BY <1>2, <2>1 DEF NoEntry
    <2>3. QED  BY <1>1, <1>2, <2>1, <2>2 DEF RInv, Undoing, Recoverable, InTrash
  <1>12. QED  BY <1>3, <1>4, <1>5, <1>6, <1>7, <1>8, <1>9, <1>10, <1>11 DEF Trash

LEMMA RInvariant == Sequential /\ Spec => []RInv
  <1>1. SUFFICES ASSUME Sequential PROVE Spec => []RInv
    OBVIOUS
  <1>2. Init => RInv
    BY DEF Init, RInv, Undoing, Recoverable, InTrash, NoEntry
  <1>3. IInv /\ IInv' /\ RInv /\ [Next]_vars => RInv'
    <2> SUFFICES ASSUME IInv, IInv', RInv, [Next]_vars PROVE RInv'
      OBVIOUS
    <2>1. CASE \E w \in Workers : Submit(w) \/ Step(w)
      BY <1>1, <2>1, OtherStepsRecoverable, TrashStepsRecoverable DEF Step
    <2>2. CASE Crash
      <3>1. crashes' # 0 /\ \A w \in Workers : pc'[w] = "idle"
        BY <2>2, Numbers DEF Crash, IInv
      <3>2. QED  BY <3>1 DEF RInv, Undoing, Recoverable, InTrash
    <2>3. CASE UNCHANGED vars
      BY <2>3 DEF vars, RInv, Undoing, Recoverable, InTrash
    <2>4. QED  BY <2>1, <2>2, <2>3 DEF Next, Quiet
  <1>4. Spec => []IInv
    BY <1>1, IInvariant
  <1>5. QED  BY <1>2, <1>3, <1>4, PTL DEF Spec

\* One request at a time, what a delete put into the trash can be restored, unless the
\* process died or a second write failed: the manifest is written, or the source taken
\* out of the trash again (519-531).
THEOREM TrashStaysRecoverable == Sequential /\ Spec => []TrashIsRecoverable
  <1>1. RInv => TrashIsRecoverable
    BY DEF RInv, Recoverable, TrashIsRecoverable, InTrash
  <1>2. QED  BY <1>1, RInvariant, PTL

----
(* Rolling back.  The workspace a request found is kept until a first      *)
(* write; from then on every other file is as it was, the plan remembers   *)
(* what its documents were, and, with one failure, what has been rolled    *)
(* back is as it was too.                                                  *)

Early == {"match", "read", "impact", "plan", "cycle", "check", "write", "move"}

OthersAsBefore(w) ==
  \A q \in Paths \ ({job[w].req.path, job[w].target} \cup PlanPaths(job[w].plan)) :
    files[q] = job[w].before[q]

RolledBack(w) ==
  /\ pc[w] = "undoDependents" =>
       /\ \A r \in job[w].plan : r.path \in job[w].left \/ files[r.path] = job[w].before[r.path]
       /\ job[w].req.op = "update" => files[job[w].req.path] = job[w].before[job[w].req.path]
  /\ pc[w] = "undoMove" =>
       \A r \in job[w].plan : files[r.path] = job[w].before[r.path]

Remembers(w) ==
  LET j == job[w]  b == job[w].before IN
  /\ \A r \in j.plan : r.was = b[r.path]
  /\ j.req.op = "update" /\ pc[w] \notin {"match", "read"} => j.was = b[j.req.path]
  /\ j.req.op = "rename" /\ pc[w] \in {"dependents", "undoDependents", "undoMove"} =>
       j.seen = b[j.req.path] /\ b[j.req.to] = Absent
  /\ j.req.op = "delete" /\ pc[w] \in {"manifest", "undoMove"} => j.seen = b[j.req.path]

BInv(w) ==
  pc[w] # "idle" =>
    /\ reply[w] = 0 /\ job[w].since <= faults
    /\ pc[w] \in Early => files = job[w].before
    /\ pc[w] # "cleanup" => OthersAsBefore(w)
    /\ Remembers(w)
    /\ pc[w] \in {"undoPrimary", "undoDependents", "undoMove"} => faults > job[w].since
    /\ faults <= job[w].since + 1 => RolledBack(w)

(* FailedRequestLeavesNoTrace for one thread.                              *)
NoTrace(w) ==
  /\ Answers(w, {404, 409, 428, 500})
  /\ faults' <= job[w].since + 1
  /\ pc[w] \notin {"cleanup", "dependents"}
  => files' = job[w].before

LEMMA AnsweredBefore ==
  ASSUME TypeOK, NEW w \in Workers, NEW s, Respond(w, s)
  PROVE  BInv(w)'
  BY DEF TypeOK, Respond, BInv

LEMMA ProceededBefore ==
  ASSUME TypeOK, NEW w \in Workers, NEW phase, NEW j, Proceed(w, phase, j), phase # "idle"
  PROVE  pc'[w] = phase /\ job'[w] = j /\ reply' = reply /\ NoTrace(w)
  BY DEF TypeOK, Proceed, NoTrace, Answers

LEMMA SubmitBefore ==
  ASSUME TypeOK, NEW w \in Workers, Submit(w) PROVE BInv(w)' /\ NoTrace(w)
  <1>1. PICK r \in Requests :
          /\ pc' = [pc EXCEPT ![w] = Start(r)]
          /\ job' = [job EXCEPT ![w] =
               [req |-> r, tag |-> TagOf(r),
                entry |-> IF r.op = "restore" THEN r.entry ELSE served + 1,
                target |-> IF r.op = "rename" THEN r.to ELSE r.path, seen |-> Absent,
                was |-> Absent, next |-> r.content, plan |-> {}, left |-> {}, before |-> files,
                since |-> faults]]
    BY DEF Submit
  <1>2. /\ pc'[w] = Start(r) /\ job'[w].req = r /\ job'[w].plan = {} /\ job'[w].before = files
        /\ job'[w].since = faults /\ faults \in Nat /\ faults' = faults
        /\ reply'[w] = 0 /\ files' = files
    BY <1>1, Numbers DEF Submit, TypeOK
  <1>3. /\ Start(r) \in {"match", "cycle", "check"}
        /\ r.op = "update" => Start(r) = "match"
    BY InputsAssumption DEF Start, Request, Ops
  <1>4. BInv(w)'
    BY <1>2, <1>3 DEF BInv, Early, OthersAsBefore, Remembers, RolledBack
  <1>5. QED  BY <1>4 DEF NoTrace, Answers, Submit

LEMMA PrepareBefore ==
  ASSUME IInv, NEW w \in Workers, BInv(w), Refuse(w) \/ Prepare(w)
  PROVE  BInv(w)' /\ NoTrace(w)
  <1> DEFINE j == job[w]
             p == job[w].req.path
             b == job[w].before
  <1>1. /\ pc[w] \in Early /\ TypeOK /\ files' = files /\ faults' = faults
        /\ pc[w] # "idle"
    BY DEF IInv, Early, Refuse, MatchMissing, MatchRefused, Prepare, MatchPassed, ReadExisting,
       Impact, PlanUpdate, PlanRename, Cycle, CheckCreate, CheckUpdate, CheckDelete, CheckRename,
       CheckRestore, Answer, Continue
  <1>2. /\ j \in Job /\ j.req.op \in Ops /\ pc[w] \in PhasesOf(j.req.op)
    BY <1>1, BusyWorker
  <1>3. files = b /\ reply[w] = 0 /\ Remembers(w) /\ Holds(w) /\ j.since <= faults
    BY <1>1 DEF BInv, IInv
  <1>4. ASSUME NEW s, Respond(w, s) PROVE BInv(w)' /\ NoTrace(w)
    BY <1>1, <1>3, <1>4, AnsweredBefore DEF NoTrace
  <1>5. ASSUME NEW phase \in Early, NEW k, Proceed(w, phase, k),
               k.before = b, k.since = j.since, k.req = j.req,
               \A r \in k.plan : r.was = b[r.path],
               j.req.op = "update" /\ phase \notin {"match", "read"} => k.was = b[p]
        PROVE  BInv(w)' /\ NoTrace(w)
    <2>1. pc'[w] = phase /\ job'[w] = k /\ reply' = reply /\ NoTrace(w)
      BY <1>1, <1>5, ProceededBefore DEF Early
    <2>2. QED  BY <1>1, <1>3, <1>5, <2>1 DEF BInv, Early, OthersAsBefore, Remembers, RolledBack
  <1>6. CASE MatchPassed(w)
    <2> DEFINE k == [j EXCEPT !.seen = files[p]]
    <2>1. k.before = b /\ k.since = j.since /\ k.req = j.req /\ k.plan = j.plan /\ k.was = j.was
      BY <1>2, JobFields
    <2>2. pc[w] = "match" /\ Proceed(w, AfterMatch(j.req.op), k)
      BY <1>6 DEF MatchPassed, Continue
    <2> HIDE DEF k
    <2>3. j.req.op \in {"update", "rename", "delete"}
      BY <1>2, <2>2 DEF PhasesOf, Ops
    <2>4. AfterMatch(j.req.op) \in Early /\ (j.req.op = "update" => AfterMatch(j.req.op) = "read")
      BY <2>3 DEF AfterMatch, Early
    <2>5. QED  BY <1>3, <1>5, <2>1, <2>2, <2>4 DEF Remembers
  <1>7. CASE ReadExisting(w)
    <2> DEFINE k == [j EXCEPT !.was = files[p]]
    <2>1. k.before = b /\ k.since = j.since /\ k.req = j.req /\ k.plan = j.plan /\ k.was = files[p]
      BY <1>2, JobFields
    <2>2. Respond(w, 404) \/ Proceed(w, "plan", k)
      BY <1>7 DEF ReadExisting, Answer, Continue
    <2> HIDE DEF k
    <2>3. QED  BY <1>3, <1>4, <1>5, <2>1, <2>2 DEF Remembers, Early
  <1>8. CASE \/ Impact(w) \/ Cycle(w) \/ CheckCreate(w) \/ CheckUpdate(w) \/ CheckDelete(w)
             \/ CheckRename(w)
    <2>1. /\ pc[w] \notin {"match", "read"}
          /\ \/ \E s : Respond(w, s)
             \/ \E phase \in Early : Proceed(w, phase, j)
      BY <1>8 DEF Impact, Cycle, CheckCreate, CheckUpdate, CheckDelete, CheckRename, Answer,
                  Continue, Early
    <2>2. QED  BY <1>3, <1>4, <1>5, <2>1 DEF Remembers
  <1>9. CASE CheckRestore(w)
    <2> DEFINE k == [j EXCEPT !.target = trash[j.entry].manifest]
    <2>1. k.before = b /\ k.since = j.since /\ k.req = j.req /\ k.plan = j.plan
      BY <1>2, JobFields
    <2>2. j.req.op = "restore" /\ ((\E s : Respond(w, s)) \/ Proceed(w, "move", k))
      BY <1>9 DEF CheckRestore, Answer, Continue
    <2> HIDE DEF k
    <2>3. QED  BY <1>3, <1>4, <1>5, <2>1, <2>2 DEF Remembers, Early
  <1>10. CASE PlanUpdate(w)
    <2> DEFINE old == j.was.name
               new == j.req.content.name
               scope == IF p \in Catalogs THEN p ELSE NoPath
               renamed == old # NoName /\ new # NoName /\ old # new
               after == [q \in Workflows |->
                           IF files[q] = Absent THEN Absent
                           ELSE Reidentified(files[q], scope, old, new)]
               next == IF renamed /\ p \notin Catalogs
                       THEN Reidentified(j.req.content, scope, old, new) ELSE j.req.content
               plan == IF renamed THEN PlanOf(p, after) ELSE {}
               phase == IF p \in Catalogs THEN "check" ELSE "cycle"
               k == [j EXCEPT !.next = next, !.plan = plan]
    <2>1. pc[w] = "plan" /\ Proceed(w, phase, k)
      BY <1>10 DEF PlanUpdate, Continue
    <2>2. phase \in Early /\ (plan = {} \/ plan = PlanOf(p, after))
      BY DEF Early
    <2> HIDE DEF next, plan, phase, after
    <2>3. k.before = b /\ k.since = j.since /\ k.req = j.req /\ k.plan = plan /\ k.was = j.was
      BY <1>2 DEF Job
    <2> HIDE DEF k
    <2>4. \A r \in plan : r.was = b[r.path]
      BY <1>3, <2>2, PlanOfHolds
    <2>5. QED  BY <1>3, <1>5, <2>1, <2>2, <2>3, <2>4 DEF Remembers
  <1>11. CASE PlanRename(w)
    <2> DEFINE after == [q \in Workflows |->
                           IF files[q] = Absent THEN Absent
                           ELSE Repointed(files[q], p, j.req.to)]
               plan == PlanOf(p, after)
               k == [j EXCEPT !.plan = plan]
    <2>1. j.req.op = "rename" /\ Proceed(w, "move", k)
      BY <1>11 DEF PlanRename, Continue
    <2>2. \A r \in plan : r.was = b[r.path]
      BY <1>3, PlanOfHolds
    <2> HIDE DEF plan
    <2>3. k.before = b /\ k.since = j.since /\ k.req = j.req /\ k.plan = plan
      BY <1>2, JobFields
    <2> HIDE DEF k
    <2>4. QED  BY <1>3, <1>5, <2>1, <2>2, <2>3 DEF Early
  <1>12. CASE Refuse(w)
    BY <1>4, <1>12 DEF Refuse, MatchMissing, MatchRefused, Answer
  <1>13. QED  BY <1>6, <1>7, <1>8, <1>9, <1>10, <1>11, <1>12 DEF Prepare

LEMMA SameFiles ==
  ASSUME NEW f \in [Paths -> File], NEW g \in [Paths -> File], \A q \in Paths : f[q] = g[q]
  PROVE  f = g
  OBVIOUS

LEMMA WriteBefore ==
  ASSUME IInv, NEW w \in Workers, BInv(w), Write(w) PROVE BInv(w)' /\ NoTrace(w)
  <1> DEFINE j == job[w]
             p == job[w].req.path
             b == job[w].before
             full == [j EXCEPT !.left = PlanPaths(j.plan)]
  <1>1. pc[w] # "idle" /\ pc[w] # "cleanup" /\ TypeOK /\ Holds(w)
    BY DEF IInv, Write, WritePrimary, WritePrimaryFails, MoveRename, MoveRenameFails,
       WriteDependent, WriteDependentFails, Reread
  <1>2. /\ j \in Job /\ j.req.op \in Ops /\ pc[w] \in PhasesOf(j.req.op)
        /\ p \in Paths /\ j.req.to \in Paths /\ j.target \in Paths
        /\ files \in [Paths -> File] /\ b \in [Paths -> File] /\ faults \in Nat /\ j.since \in Nat
    BY <1>1, BusyWorker, Numbers, BoundsAssumption DEF FilesOK, Job
  <1>3. /\ full.req = j.req /\ full.before = b /\ full.since = j.since
        /\ full.target = j.target /\ full.was = j.was
        /\ full.seen = j.seen /\ full.plan = j.plan /\ full.left = PlanPaths(j.plan)
    BY <1>2 DEF Job
  <1> HIDE DEF full
  <1>4. reply[w] = 0 /\ OthersAsBefore(w) /\ Remembers(w) /\ j.since <= faults
        /\ (pc[w] \in Early => files = b)
    BY <1>1 DEF BInv
  <1>5. CASE WritePrimary(w)
    <2>1. /\ pc[w] = "write" /\ files' = [files EXCEPT ![p] = j.next]
          /\ Proceed(w, "dependents", full) /\ faults' = faults
      BY <1>5 DEF WritePrimary, Dependents, Continue, full
    <2>2. pc'[w] = "dependents" /\ job'[w] = full /\ reply' = reply /\ NoTrace(w)
      BY <1>1, <2>1, ProceededBefore
    <2>3. j.req.op \in {"create", "update"}
      BY <1>2, <2>1 DEF PhasesOf, Ops
    <2>4. OthersAsBefore(w)'
      BY <1>2, <1>3, <1>4, <2>1, <2>2 DEF OthersAsBefore
    <2>5. Remembers(w)'
      BY <1>3, <1>4, <2>1, <2>2, <2>3 DEF Remembers
    <2>6. QED  BY <1>2, <1>3, <1>4, <2>1, <2>2, <2>4, <2>5 DEF BInv, RolledBack, Early
  <1>6. CASE WritePrimaryFails(w)
    <2>1. /\ pc[w] = "write" /\ files' = files /\ faults' = faults + 1
          /\ Respond(w, 500) \/ (j.req.op = "update" /\ Proceed(w, "undoPrimary", j))
      BY <1>2, <1>6 DEF WritePrimaryFails, Fault, PhasesOf, Ops
    <2>2. files = b
      BY <1>4, <2>1 DEF Early
    <2>3. CASE Respond(w, 500)
      BY <1>1, <2>1, <2>2, <2>3, AnsweredBefore DEF NoTrace
    <2>4. CASE j.req.op = "update" /\ Proceed(w, "undoPrimary", j)
      <3>1. pc'[w] = "undoPrimary" /\ job'[w] = j /\ reply' = reply /\ NoTrace(w)
        BY <1>1, <2>4, ProceededBefore
      <3>2. OthersAsBefore(w)' /\ Remembers(w)'
        BY <1>4, <2>1, <2>4, <3>1 DEF OthersAsBefore, Remembers
      <3>3. QED  BY <1>2, <1>4, <2>1, <3>1, <3>2 DEF BInv, RolledBack, Early
    <2>5. QED  BY <2>1, <2>3, <2>4
  <1>7. CASE MoveRename(w)
    <2>1. pc[w] = "move" /\ j.req.op = "rename" /\ files = b
      BY <1>4, <1>7 DEF MoveRename, Early
    <2>2. /\ files[p] = j.seen /\ files[p] # Absent /\ files[j.req.to] = Absent
          /\ j.target = j.req.to
      BY <1>1, <2>1 DEF Holds, RenameInv, ShapeInv
    <2>3. /\ files' = [files EXCEPT ![j.req.to] = files[p], ![p] = Absent]
          /\ Proceed(w, "dependents", full) /\ faults' = faults
      BY <1>7, <2>2 DEF MoveRename, Dependents, Continue, full
    <2>4. pc'[w] = "dependents" /\ job'[w] = full /\ reply' = reply /\ NoTrace(w)
      BY <1>1, <2>3, ProceededBefore
    <2>5. OthersAsBefore(w)'
      BY <1>2, <1>3, <2>1, <2>2, <2>3, <2>4 DEF OthersAsBefore
    <2>6. Remembers(w)'
      BY <1>3, <1>4, <2>1, <2>2, <2>4 DEF Remembers
    <2>7. QED  BY <1>2, <1>3, <1>4, <2>3, <2>4, <2>5, <2>6 DEF BInv, RolledBack, Early
  <1>8. CASE MoveRenameFails(w)
    <2>1. /\ pc[w] = "move" /\ j.req.op = "rename" /\ files' = files /\ faults' = faults + 1
          /\ files = b /\ Proceed(w, "undoDependents", full)
      BY <1>4, <1>8 DEF MoveRenameFails, Fault, Early, full
    <2>2. files[p] = j.seen /\ files[j.req.to] = Absent
      BY <1>1, <2>1 DEF Holds, RenameInv
    <2>3. pc'[w] = "undoDependents" /\ job'[w] = full /\ reply' = reply /\ NoTrace(w)
      BY <1>1, <2>1, ProceededBefore
    <2>4. OthersAsBefore(w)' /\ Remembers(w)'
      BY <1>3, <1>4, <2>1, <2>2, <2>3 DEF OthersAsBefore, Remembers
    <2>5. RolledBack(w)'
      BY <1>3, <2>1, <2>3 DEF RolledBack, PlanPaths
    <2>6. QED  BY <1>2, <1>3, <1>4, <2>1, <2>3, <2>4, <2>5 DEF BInv, Early
  <1>9. ASSUME NEW q \in Paths, WriteDependent(w, q) PROVE BInv(w)' /\ NoTrace(w)
    <2> DEFINE k == [j EXCEPT !.left = @ \ {q}]
    <2>1. /\ pc[w] = "dependents" /\ q \in j.left /\ Proceed(w, "dependents", k)
          /\ files' = [files EXCEPT ![q] = RewriteOf(w, q).now] /\ faults' = faults
      BY <1>9 DEF WriteDependent, Nth, Continue
    <2>2. /\ k.req = j.req /\ k.before = b /\ k.since = j.since
          /\ k.target = j.target /\ k.was = j.was
          /\ k.seen = j.seen /\ k.plan = j.plan
      BY <1>2, JobFields
    <2> HIDE DEF k
    <2>3. pc'[w] = "dependents" /\ job'[w] = k /\ reply' = reply /\ NoTrace(w)
      BY <1>1, <2>1, ProceededBefore
    <2>4. q \in PlanPaths(j.plan)
      BY <2>1, RewriteHolds DEF PlanPaths
    <2>5. OthersAsBefore(w)' /\ Remembers(w)'
      BY <1>2, <1>4, <2>1, <2>2, <2>3, <2>4 DEF OthersAsBefore, Remembers
    <2>6. QED  BY <1>2, <1>4, <2>1, <2>2, <2>3, <2>5 DEF BInv, RolledBack, Early
  <1>10. CASE WriteDependentFails(w)
    <2>1. /\ pc[w] = "dependents" /\ files' = files /\ j.left # {} /\ faults' = faults + 1
          /\ Proceed(w, IF j.req.op = "update" THEN "undoPrimary" ELSE "undoDependents", full)
      BY <1>10 DEF WriteDependentFails, Fault, full
    <2>2. j.req.op \in {"update", "rename"}
      BY <1>1, <2>1, BusyWorker, RunningJob DEF PhasesOf, Ops, PlanPaths
    <2>3. /\ pc'[w] = (IF j.req.op = "update" THEN "undoPrimary" ELSE "undoDependents")
          /\ job'[w] = full /\ reply' = reply /\ NoTrace(w)
      BY <1>1, <2>1, ProceededBefore
    <2>4. OthersAsBefore(w)' /\ Remembers(w)'
      BY <1>3, <1>4, <2>1, <2>2, <2>3 DEF OthersAsBefore, Remembers
    <2>5. RolledBack(w)'
      BY <1>3, <2>2, <2>3 DEF RolledBack, PlanPaths
    <2>6. QED  BY <1>2, <1>3, <1>4, <2>1, <2>3, <2>4, <2>5 DEF BInv, Early
  <1>11. CASE Reread(w)
    <2>1. pc[w] = "dependents" /\ \E s : Respond(w, s)
      BY <1>11 DEF Reread, Answer
    <2>2. QED  BY <1>1, <2>1, AnsweredBefore DEF NoTrace
  <1>12. QED  BY <1>5, <1>6, <1>7, <1>8, <1>9, <1>10, <1>11 DEF Write

LEMMA UndoBefore ==
  ASSUME IInv, NEW w \in Workers, BInv(w), Undo(w) PROVE BInv(w)' /\ NoTrace(w)
  <1> DEFINE j == job[w]
             p == job[w].req.path
             b == job[w].before
             full == [j EXCEPT !.left = PlanPaths(j.plan)]
  <1>1. /\ pc[w] \in {"undoPrimary", "undoDependents", "undoMove"} /\ pc[w] # "idle"
        /\ TypeOK /\ TypeOK' /\ Holds(w)
    BY UndoType DEF IInv, Undo, UndoPrimary, UndoPrimaryFails, UndoDependent, UndoDependentFails,
       UndoDone, UndoMoveRename, UndoMoveRenameFails
  <1>2. /\ j \in Job /\ j.req.op \in Ops /\ pc[w] \in PhasesOf(j.req.op)
        /\ p \in Paths /\ j.req.to \in Paths /\ j.target \in Paths
        /\ files \in [Paths -> File] /\ files' \in [Paths -> File] /\ b \in [Paths -> File]
        /\ faults \in Nat /\ j.since \in Nat
    BY <1>1, BusyWorker, Numbers, BoundsAssumption DEF FilesOK, Job, TypeOK
  <1>3. /\ reply[w] = 0 /\ OthersAsBefore(w) /\ Remembers(w) /\ faults > j.since
        /\ faults <= j.since + 1 => RolledBack(w)
    BY <1>1 DEF BInv
  <1>4. CASE UndoPrimary(w) \/ UndoPrimaryFails(w)
    <2>1. /\ full.req = j.req /\ full.before = b /\ full.since = j.since
          /\ full.target = j.target /\ full.was = j.was
          /\ full.seen = j.seen /\ full.plan = j.plan /\ full.left = PlanPaths(j.plan)
      BY <1>2 DEF Job
    <2>2. /\ pc[w] = "undoPrimary" /\ Proceed(w, "undoDependents", full)
          /\ \/ files' = files /\ faults' = faults + 1
             \/ files' = [files EXCEPT ![p] = j.was] /\ faults' = faults
      BY <1>4 DEF UndoPrimary, UndoPrimaryFails, Continue, Fault
    <2> HIDE DEF full
    <2>3. pc'[w] = "undoDependents" /\ job'[w] = full /\ reply' = reply /\ NoTrace(w)
      BY <1>1, <2>2, ProceededBefore
    <2>4. j.req.op = "update"
      BY <1>2, <2>2 DEF PhasesOf, Ops
    <2>5. OthersAsBefore(w)' /\ Remembers(w)'
      BY <1>2, <1>3, <2>1, <2>2, <2>3, <2>4 DEF OthersAsBefore, Remembers
    <2>6. faults' <= j.since + 1 => files'[p] = b[p]
      BY <1>2, <1>3, <2>2, <2>4 DEF Remembers
    <2>7. faults' <= j.since + 1 => RolledBack(w)'
      BY <2>1, <2>3, <2>6 DEF RolledBack, PlanPaths
    <2>8. QED  BY <1>2, <1>3, <2>1, <2>2, <2>3, <2>5, <2>7 DEF BInv, Early
  <1>5. ASSUME NEW q \in Paths, UndoDependent(w, q) \/ UndoDependentFails(w, q)
        PROVE  BInv(w)' /\ NoTrace(w)
    <2> DEFINE k == [j EXCEPT !.left = @ \ {q}]
    <2>1. /\ pc[w] = "undoDependents" /\ q \in j.left /\ Proceed(w, "undoDependents", k)
          /\ \/ files' = files /\ faults' = faults + 1
             \/ files' = [files EXCEPT ![q] = RewriteOf(w, q).was] /\ faults' = faults
      BY <1>5 DEF UndoDependent, UndoDependentFails, Nth, Continue, Fault
    <2>2. /\ k.req = j.req /\ k.before = b /\ k.since = j.since
          /\ k.target = j.target /\ k.was = j.was
          /\ k.seen = j.seen /\ k.plan = j.plan /\ k.left = j.left \ {q}
      BY <1>2 DEF Job
    <2> HIDE DEF k
    <2>3. pc'[w] = "undoDependents" /\ job'[w] = k /\ reply' = reply /\ NoTrace(w)
      BY <1>1, <2>1, ProceededBefore
    <2>4. /\ RewriteOf(w, q) \in j.plan /\ RewriteOf(w, q).path = q
          /\ q \in PlanPaths(j.plan) /\ q # p /\ RewriteOf(w, q).was = b[q]
      BY <1>3, <2>1, RewriteHolds DEF PlanPaths, Remembers
    <2>5. OthersAsBefore(w)' /\ Remembers(w)'
      BY <1>2, <1>3, <2>1, <2>2, <2>3, <2>4 DEF OthersAsBefore, Remembers
    <2>6. ASSUME faults' <= j.since + 1 PROVE RolledBack(w)'
      <3>1. RolledBack(w) /\ files' = [files EXCEPT ![q] = b[q]]
        BY <1>2, <1>3, <2>1, <2>4, <2>6
      <3>2. \A r \in j.plan : r.path \in Paths
        BY <1>2 DEF Job
      <3>3. QED  BY <1>2, <2>1, <2>2, <2>3, <2>4, <3>1, <3>2 DEF RolledBack
    <2>7. QED  BY <1>2, <1>3, <2>1, <2>2, <2>3, <2>5, <2>6 DEF BInv, Early
  <1>6. CASE UndoDone(w)
    <2>1. /\ pc[w] = "undoDependents" /\ j.left = {} /\ files' = files /\ faults' = faults
          /\ \/ j.req.op = "update" /\ Respond(w, 500)
             \/ j.req.op # "update" /\ Proceed(w, "undoMove", j)
      BY <1>6 DEF UndoDone, Answer, Continue
    <2>2. CASE j.req.op = "update" /\ Respond(w, 500)
      <3>1. ASSUME faults' <= j.since + 1 PROVE files' = b
        <4>1. \A r \in j.plan : files[r.path] = b[r.path]
          BY <1>3, <2>1, <3>1 DEF RolledBack
        <4>2. files[p] = b[p] /\ j.target = p
          BY <1>1, <1>3, <2>1, <2>2, <3>1 DEF RolledBack, Holds, ShapeInv
        <4>3. \A q \in Paths : files[q] = b[q]
          BY <1>3, <4>1, <4>2 DEF OthersAsBefore, PlanPaths
        <4>4. QED  BY <1>2, <2>1, <4>3, SameFiles
      <3>2. QED  BY <1>1, <2>2, <3>1, AnsweredBefore DEF NoTrace
    <2>3. CASE j.req.op # "update" /\ Proceed(w, "undoMove", j)
      <3>1. pc'[w] = "undoMove" /\ job'[w] = j /\ reply' = reply /\ NoTrace(w)
        BY <1>1, <2>3, ProceededBefore
      <3>2. j.req.op = "rename"
        BY <1>2, <2>1, <2>3 DEF PhasesOf, Ops
      <3>3. OthersAsBefore(w)' /\ Remembers(w)'
        BY <1>3, <2>1, <3>1, <3>2 DEF OthersAsBefore, Remembers
      <3>4. faults' <= j.since + 1 => RolledBack(w)'
        BY <1>3, <2>1, <3>1 DEF RolledBack
      <3>5. QED  BY <1>3, <2>1, <3>1, <3>3, <3>4 DEF BInv, Early
    <2>4. QED  BY <2>1, <2>2, <2>3
  <1>7. CASE UndoMoveRename(w) \/ UndoMoveRenameFails(w)
    <2> DEFINE to == j.req.to
    <2>1. /\ pc[w] = "undoMove" /\ j.req.op = "rename" /\ Respond(w, 500)
          /\ \/ faults' = faults + 1
             \/ /\ faults' = faults
                /\ files' = IF files[to] = Absent THEN files
                            ELSE [files EXCEPT ![p] = files[to], ![to] = Absent]
      BY <1>7 DEF UndoMoveRename, UndoMoveRenameFails, Answer, Fault
    <2>2. ASSUME faults' <= j.since + 1 PROVE files' = b
      <3>1. /\ RolledBack(w)
            /\ files' = IF files[to] = Absent THEN files
                        ELSE [files EXCEPT ![p] = files[to], ![to] = Absent]
        BY <1>2, <1>3, <2>1, <2>2
      <3>2. /\ j.target = to /\ j.seen = b[p] /\ b[to] = Absent /\ j.seen # Absent
            /\ \/ files[p] = j.seen /\ files[to] = Absent
               \/ files[p] = Absent /\ files[to] = j.seen
        BY <1>1, <1>3, <2>1 DEF Holds, ShapeInv, RenameInv, Remembers
      <3>3. p # to
        BY <3>2
      <3>4. \A q \in Paths \ {p, to} : files[q] = b[q]
        BY <1>3, <2>1, <3>1, <3>2 DEF OthersAsBefore, RolledBack, PlanPaths
      <3>5. files'[p] = b[p] /\ files'[to] = b[to]
        BY <1>2, <3>1, <3>2, <3>3
      <3>6. \A q \in Paths \ {p, to} : files'[q] = b[q]
        BY <1>2, <3>1, <3>4
      <3>7. QED  BY <1>2, <3>5, <3>6, SameFiles
    <2>3. QED  BY <1>1, <2>1, <2>2, AnsweredBefore DEF NoTrace
  <1>8. QED  BY <1>4, <1>5, <1>6, <1>7 DEF Undo

LEMMA TrashBefore ==
  ASSUME IInv, NEW w \in Workers, BInv(w), Trash(w) PROVE BInv(w)' /\ NoTrace(w)
  <1> DEFINE j == job[w]
             p == job[w].req.path
             t == job[w].entry
             b == job[w].before
  <1>1. pc[w] # "idle" /\ TypeOK /\ TypeOK' /\ Holds(w)
    BY TrashType DEF IInv, Trash, MoveDelete, MoveDeleteFails, WriteManifest,
       WriteManifestFails, UndoMoveDelete, UndoMoveDeleteFails, MoveRestore, MoveRestoreFails,
       Cleanup, CleanupFails
  <1>2. /\ j \in Job /\ j.req.op \in Ops /\ pc[w] \in PhasesOf(j.req.op)
        /\ p \in Paths /\ t \in Entries
        /\ files \in [Paths -> File] /\ files' \in [Paths -> File] /\ b \in [Paths -> File]
        /\ faults \in Nat /\ j.since \in Nat
    BY <1>1, BusyWorker, Numbers, BoundsAssumption DEF FilesOK, Job, TypeOK
  <1>3. reply[w] = 0 /\ Remembers(w) /\ j.since <= faults /\ (pc[w] \in Early => files = b)
    BY <1>1 DEF BInv
  <1>4. /\ j.req.op \in {"delete", "restore"} => j.plan = {}
        /\ j.req.op = "delete" => j.target = p
    BY <1>1 DEF Holds, ShapeInv
  <1>5. CASE MoveDelete(w)
    <2>1. /\ pc[w] = "move" /\ j.req.op = "delete" /\ files = b /\ files[p] = j.seen
          /\ j.seen # Absent
      BY <1>1, <1>3, <1>5 DEF MoveDelete, Early, Holds, DeleteInv
    <2>2. /\ files' = [files EXCEPT ![p] = Absent] /\ faults' = faults
          /\ Proceed(w, "manifest", j)
      BY <1>5, <2>1 DEF MoveDelete, Continue
    <2>3. pc'[w] = "manifest" /\ job'[w] = j /\ reply' = reply /\ NoTrace(w)
      BY <1>1, <2>2, ProceededBefore
    <2>4. OthersAsBefore(w)' /\ Remembers(w)'
      BY <1>2, <1>4, <2>1, <2>2, <2>3 DEF OthersAsBefore, Remembers
    <2>5. QED  BY <1>2, <1>3, <2>2, <2>3, <2>4 DEF BInv, RolledBack, Early
  <1>6. CASE MoveDeleteFails(w) \/ WriteManifestFails(w)
    <2>1. /\ pc[w] \in {"move", "manifest"} /\ j.req.op = "delete" /\ files' = files
          /\ faults' = faults + 1 /\ Proceed(w, "undoMove", j)
      BY <1>2, <1>6 DEF MoveDeleteFails, WriteManifestFails, Fault, PhasesOf, Ops
    <2>2. pc'[w] = "undoMove" /\ job'[w] = j /\ reply' = reply /\ NoTrace(w)
      BY <1>1, <2>1, ProceededBefore
    <2>3. OthersAsBefore(w) /\ j.seen = b[p]
      <3>1. CASE pc[w] = "move"
        BY <1>1, <1>3, <2>1, <3>1 DEF OthersAsBefore, Early, Holds, DeleteInv
      <3>2. CASE pc[w] = "manifest"
        BY <1>3, <2>1, <3>2 DEF BInv, Remembers
      <3>3. QED  BY <2>1, <3>1, <3>2
    <2>4. OthersAsBefore(w)' /\ Remembers(w)'
      BY <1>4, <2>1, <2>2, <2>3 DEF OthersAsBefore, Remembers
    <2>5. QED  BY <1>2, <1>3, <1>4, <2>1, <2>2, <2>4 DEF BInv, RolledBack, Early
  <1>7. CASE WriteManifest(w)
    <2>1. Respond(w, 200)
      BY <1>7 DEF WriteManifest, Answer
    <2>2. reply'[w] = 200
      BY <1>1, <2>1 DEF Respond, TypeOK
    <2>3. QED  BY <1>1, <2>1, <2>2, AnsweredBefore DEF NoTrace, Answers
  <1>8. CASE UndoMoveDelete(w)
    <2>1. /\ pc[w] = "undoMove" /\ j.req.op = "delete" /\ Respond(w, 500)
          /\ files' = IF trash[t].payload = Absent THEN files
                      ELSE [files EXCEPT ![p] = trash[t].payload]
      BY <1>8 DEF UndoMoveDelete, Answer
    <2>2. /\ j.seen = b[p] /\ j.seen # Absent /\ OthersAsBefore(w)
          /\ \/ files[p] = j.seen /\ trash[t].payload = Absent
             \/ trash[t].payload = j.seen
      BY <1>1, <1>3, <2>1 DEF Remembers, Holds, DeleteInv, BInv
    <2>3. files'[p] = b[p]
      BY <1>2, <2>1, <2>2
    <2>4. \A q \in Paths \ {p} : files'[q] = b[q]
      BY <1>2, <1>4, <2>1, <2>2 DEF OthersAsBefore, PlanPaths
    <2>5. files' = b
      BY <1>2, <2>3, <2>4, SameFiles
    <2>6. QED  BY <1>1, <2>1, <2>5, AnsweredBefore DEF NoTrace
  <1>9. CASE UndoMoveDeleteFails(w)
    <2>1. pc[w] = "undoMove" /\ Respond(w, 500) /\ faults' = faults + 1
      BY <1>9 DEF UndoMoveDeleteFails, Fault
    <2>2. faults > j.since
      BY <1>1, <2>1 DEF BInv
    <2>3. ~(faults' <= j.since + 1)
      BY <1>2, <2>1, <2>2
    <2>4. QED  BY <1>1, <2>1, <2>3, AnsweredBefore DEF NoTrace
  <1>10. CASE MoveRestore(w)
    <2>1. /\ pc[w] = "move" /\ j.req.op = "restore" /\ files = b
          /\ \/ Respond(w, 500) /\ files' = files
             \/ Proceed(w, "cleanup", j) /\ faults' = faults
      BY <1>3, <1>10 DEF MoveRestore, Answer, Continue, Early
    <2>2. CASE Respond(w, 500) /\ files' = files
      BY <1>1, <2>1, <2>2, AnsweredBefore DEF NoTrace
    <2>3. CASE Proceed(w, "cleanup", j) /\ faults' = faults
      <3>1. pc'[w] = "cleanup" /\ job'[w] = j /\ reply' = reply /\ NoTrace(w)
        BY <1>1, <2>3, ProceededBefore
      <3>2. Remembers(w)'
        BY <1>4, <2>1, <3>1 DEF Remembers
      <3>3. QED  BY <1>2, <1>3, <2>3, <3>1, <3>2 DEF BInv, RolledBack, Early
    <2>4. QED  BY <2>1, <2>2, <2>3
  <1>11. CASE MoveRestoreFails(w)
    <2>1. pc[w] = "move" /\ Respond(w, 500) /\ files' = files
      BY <1>11 DEF MoveRestoreFails
    <2>2. files' = b
      BY <1>3, <2>1 DEF Early
    <2>3. QED  BY <1>1, <2>1, <2>2, AnsweredBefore DEF NoTrace
  <1>12. CASE Cleanup(w) \/ CleanupFails(w)
    <2>1. pc[w] = "cleanup" /\ \E s : Respond(w, s)
      BY <1>12 DEF Cleanup, CleanupFails, Answer
    <2>2. QED  BY <1>1, <2>1, AnsweredBefore DEF NoTrace
  <1>13. QED  BY <1>5, <1>6, <1>7, <1>8, <1>9, <1>10, <1>11, <1>12 DEF Trash

\* One step keeps the invariant of the only thread, and the answer it gives, if any,
\* leaves no trace.
LEMMA NextBefore ==
  ASSUME Sequential, IInv, \A w \in Workers : BInv(w), [Next]_vars
  PROVE  /\ \A w \in Workers : BInv(w)'
         /\ [\A w \in Workers : NoTrace(w)]_vars
  <1>1. CASE \E v \in Workers : Submit(v) \/ Step(v)
    <2>1. PICK v \in Workers : Submit(v) \/ Step(v)
      BY <1>1
    <2>2. TypeOK /\ \A w \in Workers : w = v
      BY DEF Sequential, IInv
    <2>3. BInv(v)' /\ NoTrace(v)
      BY <2>1, <2>2, SubmitBefore, PrepareBefore, WriteBefore, UndoBefore, TrashBefore DEF Step
    <2>4. QED  BY <2>2, <2>3
  <1>2. CASE Crash
    <2>1. \A w \in Workers : pc'[w] = "idle" /\ reply'[w] = reply[w]
      BY <1>2 DEF Crash
    <2>2. \A w \in Workers : BInv(w)'
      BY <2>1 DEF BInv
    <2>3. \A w \in Workers : pc[w] # "idle" => reply[w] = 0
      BY DEF BInv
    <2>4. \A w \in Workers : NoTrace(w)
      BY <2>1, <2>3 DEF NoTrace, Answers
    <2>5. QED  BY <2>2, <2>4
  <1>3. CASE UNCHANGED vars
    BY <1>3 DEF vars, BInv, OthersAsBefore, Remembers, RolledBack
  <1>4. QED  BY <1>1, <1>2, <1>3 DEF Next, Quiet

\* One request at a time, a request that is refused, or that meets one failing write
\* or move, leaves the workspace it found (the catch blocks at 177-180, 207-217 and
\* 525-532), but for a restore that fails after its payload is back and a document
\* that cannot be read back after its dependents were rewritten.
THEOREM FailuresLeaveNoTrace == Sequential /\ Spec => FailedRequestLeavesNoTrace
  <1>1. SUFFICES ASSUME Sequential PROVE Spec => FailedRequestLeavesNoTrace
    OBVIOUS
  <1> DEFINE Before == \A w \in Workers : BInv(w)
             Clean == \A w \in Workers : NoTrace(w)
  <1>2. Init => Before
    BY DEF Init, BInv
  <1>3. IInv /\ Before /\ [Next]_vars => Before' /\ [Clean]_vars
    BY <1>1, NextBefore
  <1>4. Spec => []IInv
    BY <1>1, IInvariant
  <1>5. [Clean]_vars <=>
          [\A w \in Workers :
             /\ Answers(w, {404, 409, 428, 500})
             /\ faults' <= job[w].since + 1
             /\ pc[w] \notin {"cleanup", "dependents"}
             => files' = job[w].before]_vars
    BY DEF NoTrace
  <1> HIDE DEF Before, Clean
  <1>6. QED  BY <1>2, <1>3, <1>4, <1>5, PTL DEF Spec, FailedRequestLeavesNoTrace

----
(* The reference graph, read as a relation.  With unique ids a reference   *)
(* has one candidate at most, so neither the order of the inventory nor    *)
(* the document that is being saved plays a part.                          *)

Means(fs, r, q) == r.path = q \/ (r.path = NoPath /\ r.name # NoName /\ fs[q].name = r.name)

Calls(fs, a, q) ==
  /\ q \in Workflows /\ fs[a] # Absent /\ fs[q] # Absent
  /\ \E r \in fs[a].refs : Means(fs, r, q)

LEMMA SourceParts ==
  ASSUME NEW fs \in [Paths -> File], NEW q \in Paths, fs[q] # Absent
  PROVE  /\ fs[q] \in Content /\ fs[q].name \in Names \cup {NoName}
         /\ \A r \in fs[q].refs : /\ r \in Refs /\ r.path \in Paths \cup {NoPath}
                                  /\ r.name \in Names \cup {NoName}
  BY DEF File, Content, Refs, Ids

LEMMA OneCandidate ==
  ASSUME NEW fs \in [Paths -> File], UniqueIds(fs), NEW r, NEW q \in Workflows, NEW s \in Workflows,
         fs[q] # Absent, fs[s] # Absent, Means(fs, r, q), Means(fs, r, s)
  PROVE  q = s
  <1>1. q # NoPath /\ s # NoPath
    BY PathsAssumption DEF Workflows
  <1>2. CASE r.path = NoPath
    BY <1>1, <1>2 DEF Means, UniqueIds
  <1>3. CASE r.path # NoPath
    BY <1>3 DEF Means
  <1>4. QED  BY <1>2, <1>3

LEMMA CalleesAreCalled ==
  ASSUME NEW fs \in [Paths -> File], UniqueIds(fs), NEW self \in Workflows, NEW late,
         NEW a \in Paths, NEW q \in Paths
  PROVE  q \in Callees(fs, self, late, a) <=> Calls(fs, a, q)
  <1>1. Workflows \cup {self} = Workflows /\ Workflows \subseteq Paths
    BY DEF Workflows
  <1>2. \A r : Candidates(fs, self, r) = {x \in Workflows : fs[x] # Absent /\ Means(fs, r, x)}
    BY <1>1 DEF Candidates, Means
  <1>3. ASSUME q \in Callees(fs, self, late, a) PROVE Calls(fs, a, q)
    <2>1. fs[a] # Absent /\ \E r \in fs[a].refs : q \in Candidates(fs, self, r)
      BY <1>3 DEF Callees
    <2>2. QED  BY <1>2, <2>1 DEF Calls
  <1>4. ASSUME Calls(fs, a, q) PROVE q \in Callees(fs, self, late, a)
    <2>1. PICK r \in fs[a].refs : Means(fs, r, q)
      BY <1>4 DEF Calls
    <2>2. q \in Candidates(fs, self, r)
      BY <1>2, <1>4, <2>1 DEF Calls
    <2>3. \A s \in Candidates(fs, self, r) : s = q
      BY <1>2, <1>4, <2>1, OneCandidate DEF Calls
    <2>4. Precedes(q, q, late)
      BY PathsAssumption DEF Precedes
    <2>5. QED  BY <1>4, <2>2, <2>3, <2>4 DEF Callees, Calls
  <1>5. QED  BY <1>3, <1>4

\* S holds whom x calls, and whom they call.
Closed(fs, x, S) ==
  /\ \A q \in Paths : Calls(fs, x, q) => q \in S
  /\ \A a \in S : \A q \in Paths : Calls(fs, a, q) => q \in S

LEMMA OutOfCycle ==
  ASSUME NEW fs \in [Paths -> File], UniqueIds(fs), NEW x \in Workflows, NEW late
  PROVE  ~InCycle(fs, x, late) <=> \E S \in SUBSET Paths : Closed(fs, x, S) /\ x \notin S
  <1>1. x \in Paths
    BY DEF Workflows
  <1>2. \A a \in Paths : \A S \in SUBSET Paths :
          Callees(fs, x, late, a) \subseteq S <=> \A q \in Paths : Calls(fs, a, q) => q \in S
    <2>1. \A a : Callees(fs, x, late, a) \subseteq Paths
      BY DEF Callees
    <2>2. QED  BY <2>1, CalleesAreCalled
  <1>3. \A S \in SUBSET Paths :
          Closed(fs, x, S) <=>
            /\ Callees(fs, x, late, x) \subseteq S
            /\ \A q \in S : Callees(fs, x, late, q) \subseteq S
    BY <1>1, <1>2 DEF Closed
  <1>4. QED  BY <1>3 DEF InCycle

LEMMA CallsElsewhere ==
  ASSUME NEW b, NEW F, NEW p, \A q \in Paths \ {p} : F[q] = b[q],
         NEW a \in Paths \ {p}, NEW q \in Paths \ {p}, Calls(F, a, q)
  PROVE  Calls(b, a, q)
  BY DEF Calls, Means

\* A workflow saved under its old id, or a new one, that is in no cycle itself, closes
\* none: a cycle that was not there leads through it.
LEMMA SavedAcyclic ==
  ASSUME NEW b \in [Paths -> File], NEW F \in [Paths -> File], NEW p \in Paths, F[p] # Absent,
         \A q \in Paths \ {p} : F[q] = b[q],
         b[p] = Absent \/ b[p].name = F[p].name,
         p \in Workflows => \E late : ~InCycle(F, p, late),
         UniqueIds(F), Acyclic(b)
  PROVE  Acyclic(F)
  <1>1. UniqueIds(b)
    <2>1. SUFFICES ASSUME NEW x \in Workflows, NEW y \in Workflows, b[x] # Absent, b[y] # Absent,
                          b[x].name = b[y].name, b[x].name # NoName
                   PROVE  x = y
      BY DEF UniqueIds
    <2>2. \A z \in Workflows : b[z] # Absent => F[z] # Absent /\ F[z].name = b[z].name
      BY DEF Workflows
    <2>3. QED  BY <2>1, <2>2 DEF UniqueIds
  <1>2. SUFFICES ASSUME NEW x \in Workflows, F[x] # Absent
                 PROVE  \E T \in SUBSET Paths : Closed(F, x, T) /\ x \notin T
    BY OutOfCycle DEF Acyclic
  <1>3. CASE x = p
    BY <1>2, <1>3, OutOfCycle
  <1>4. CASE x # p
    <2>1. b[x] # Absent /\ x \in Paths
      BY <1>2, <1>4 DEF Workflows
    <2>2. PICK S \in SUBSET Paths : Closed(b, x, S) /\ x \notin S
      BY <1>1, <1>2, <2>1, OutOfCycle DEF Acyclic
    <2>3. \A a, q \in Paths \ {p} : Calls(F, a, q) => Calls(b, a, q)
      BY CallsElsewhere
    <2>4. \A a, q : Calls(F, a, q) => q \in Workflows
      BY DEF Calls
    <2>5. CASE p \notin Workflows
      <3> DEFINE T == S \cap Workflows
      <3>1. \A q \in Paths : Calls(F, x, q) => q \in T
        BY <1>4, <2>1, <2>2, <2>3, <2>4, <2>5 DEF Closed
      <3>2. \A a \in T : \A q \in Paths : Calls(F, a, q) => q \in T
        BY <2>2, <2>3, <2>4, <2>5 DEF Closed
      <3>3. T \in SUBSET Paths /\ x \notin T
        BY <2>2
      <3> HIDE DEF T
      <3>4. QED  BY <3>1, <3>2, <3>3 DEF Closed
    <2>6. CASE p \in Workflows
      <3>1. PICK R \in SUBSET Paths : Closed(F, p, R) /\ p \notin R
        BY <2>6, OutOfCycle
      <3>2. CASE x \in R
        <4> DEFINE T == S \cap R
        <4>1. \A q \in Paths : Calls(F, x, q) => q \in T
          BY <1>4, <2>1, <2>2, <2>3, <3>1, <3>2 DEF Closed
        <4>2. \A a \in T : \A q \in Paths : Calls(F, a, q) => q \in T
          BY <2>2, <2>3, <3>1 DEF Closed
        <4>3. T \in SUBSET Paths /\ x \notin T
          BY <2>2
        <4> HIDE DEF T
        <4>4. QED  BY <4>1, <4>2, <4>3 DEF Closed
      <3>3. CASE x \notin R
        <4> DEFINE T == S \cup R \cup {p}
        <4>1. \A q \in Paths : Calls(F, x, q) => q \in T
          BY <1>4, <2>1, <2>2, <2>3 DEF Closed
        <4>2. \A a \in T : \A q \in Paths : Calls(F, a, q) => q \in T
          BY <2>2, <2>3, <3>1 DEF Closed
        <4>3. T \in SUBSET Paths /\ x \notin T
          BY <1>4, <2>2, <3>1, <3>3
        <4> HIDE DEF T
        <4>4. QED  BY <4>1, <4>2, <4>3 DEF Closed
      <3>4. QED  BY <3>2, <3>3
    <2>7. QED  BY <2>5, <2>6
  <1>5. QED  BY <1>3, <1>4

----
(* What an accepted update or rename makes of the references.              *)

\* Reference f makes a link to q: it calls q, or names the operation of q.
Makes(fs, f, q) ==
  \/ q \in Workflows /\ Means(fs, f, q)
  \/ q \in Catalogs /\ f.path = q /\ f.name = fs[q].name

LEMMA LinksAreMade ==
  ASSUME NEW fs \in [Paths -> File], UniqueIds(fs), NEW a \in Workflows, NEW q \in Paths
  PROVE  <<a, q>> \in Links(fs) <=>
           fs[a] # Absent /\ fs[q] # Absent /\ \E f \in fs[a].refs : Makes(fs, f, q)
  <1>1. a \in Paths
    BY DEF Workflows
  <1>2. q \in Callees(fs, a, NoPath, a) <=> Calls(fs, a, q)
    BY <1>1, CalleesAreCalled
  <1>3. QED  BY <1>2 DEF Links, Makes, Calls

\* A link of the plain part is made by a plain reference of the workspace itself.
LEMMA PlainLinksAreMade ==
  ASSUME NEW b \in [Paths -> File], NEW r, UniqueIds(b),
         NEW a \in Workflows, NEW q \in Paths, <<a, q>> \in Links(PlainPart(b, r))
  PROVE  /\ b[a] # Absent /\ b[q] # Absent
         /\ \E f \in b[a].refs : f \in Refs /\ Plain(f, r, b) /\ Makes(b, f, q)
  <1> DEFINE fs == PlainPart(b, r)
  <1>1. a \in Paths /\ Workflows \subseteq Paths
    BY DEF Workflows
  <1>2. ASSUME NEW p \in Paths, b[p] # Absent
        PROVE  /\ fs[p] \in Content /\ fs[p] # Absent /\ fs[p].name = b[p].name
               /\ fs[p].refs = {x \in b[p].refs : Plain(x, r, b)} /\ b[p].refs \subseteq Refs
    <2>1. b[p] \in Content
      BY <1>2 DEF File
    <2> DEFINE kept == {x \in b[p].refs : Plain(x, r, b)}
    <2>2. fs[p] = [b[p] EXCEPT !.refs = kept]
      BY <1>2 DEF PlainPart
    <2>3. kept \subseteq b[p].refs
      OBVIOUS
    <2> HIDE DEF fs, kept
    <2>4. /\ fs[p] \in Content /\ fs[p].name = b[p].name /\ fs[p].refs = kept
          /\ b[p].refs \subseteq Refs
      BY <2>1, <2>2, <2>3 DEF Content
    <2>5. QED  BY <2>4, SpecialsAssumption DEF kept
  <1>3. \A p \in Paths : b[p] = Absent => fs[p] = Absent
    BY DEF PlainPart
  <1>4. fs \in [Paths -> File]
    <2>1. fs = [p \in Paths |-> fs[p]]
      BY DEF PlainPart
    <2> HIDE DEF fs
    <2>2. \A p \in Paths : fs[p] \in File
      BY <1>2, <1>3 DEF File
    <2>3. QED  BY <2>1, <2>2
  <1> HIDE DEF fs
  <1>5. UniqueIds(fs)
    BY <1>1, <1>2, <1>3 DEF UniqueIds
  <1>6. fs[a] # Absent /\ fs[q] # Absent /\ \E f \in fs[a].refs : Makes(fs, f, q)
    BY <1>4, <1>5, LinksAreMade DEF fs
  <1>7. PICK f \in fs[a].refs : Makes(fs, f, q)
    BY <1>6
  <1>8. b[a] # Absent /\ b[q] # Absent /\ fs[q].name = b[q].name
    BY <1>1, <1>2, <1>3, <1>6
  <1>9. Makes(b, f, q)
    BY <1>7, <1>8 DEF Makes, Means
  <1>10. QED  BY <1>1, <1>2, <1>7, <1>8, <1>9

Scope(p) == IF p \in Catalogs THEN p ELSE NoPath

IdChanges(b, r) ==
  b[r.path].name # NoName /\ r.content.name # NoName /\ b[r.path].name # r.content.name

\* What the accepted request r makes of workflow q, other than its own document.
Becomes(b, r, q) ==
  IF b[q] = Absent THEN Absent
  ELSE IF r.op = "rename" THEN Repointed(b[q], r.path, r.to)
  ELSE IF r.op = "update" /\ IdChanges(b, r)
       THEN Reidentified(b[q], Scope(r.path), b[r.path].name, r.content.name)
       ELSE b[q]

LEMMA BecomesRenamed ==
  ASSUME NEW b \in [Paths -> File], NEW r \in Request, NEW q \in Workflows, b[q] # Absent,
         r.op = "rename"
  PROVE  /\ Becomes(b, r, q) # Absent /\ Becomes(b, r, q).name = b[q].name
         /\ \A f \in b[q].refs : Plain(f, r, b) =>
              IF f.path = r.path THEN [f EXCEPT !.path = r.to] \in Becomes(b, r, q).refs
              ELSE f \in Becomes(b, r, q).refs
  <1> DEFINE c == b[q]
             d == Becomes(b, r, q)
  <1>1. c \in Content /\ q \in Paths /\ r.path \in Paths /\ r.to \in Paths
    BY SourceParts DEF Workflows, Request
  <1>2. d = Repointed(c, r.path, r.to)
    BY DEF Becomes
  <1>3. d \in Content
    BY <1>1, <1>2, RepointedType
  <1>4. d # Absent /\ d.name = c.name
    BY <1>1, <1>2, <1>3, SpecialsAssumption DEF Repointed, Content
  <1>5. d.refs = {[f EXCEPT !.path = PathAfter(f, r.path, r.to)] : f \in c.refs}
    BY <1>1, <1>2 DEF Repointed, Content
  <1>6. ASSUME NEW f \in c.refs, Plain(f, r, b)
        PROVE  IF f.path = r.path THEN [f EXCEPT !.path = r.to] \in d.refs ELSE f \in d.refs
    <2>1. f \in Refs /\ f.path \in Paths \cup {NoPath} /\ NoPath \notin Paths
      BY <1>1, RefFields, PathsAssumption DEF Content
    <2>2. PathAfter(f, r.path, r.to) = IF f.path = r.path THEN r.to ELSE f.path
      BY <1>1, <1>6, <2>1 DEF PathAfter, Plain, Parts
    <2>3. [f EXCEPT !.path = f.path] = f
      BY <2>1 DEF Refs
    <2>4. [f EXCEPT !.path = PathAfter(f, r.path, r.to)] \in d.refs
      BY <1>5
    <2>5. QED  BY <2>2, <2>3, <2>4
  <1>7. QED  BY <1>4, <1>6

\* Reference f is by id n of the scope of the document of r.
ById(f, r, n) == f.path = Scope(r.path) /\ f.name = n

LEMMA BecomesUpdated ==
  ASSUME NEW b \in [Paths -> File], NEW r \in Request, NEW q \in Workflows, b[q] # Absent,
         r.op = "update", b[r.path] # Absent, NoName \notin {r.content.name, b[r.path].name},
         NEW n, n = b[r.path].name
  PROVE  /\ Becomes(b, r, q) # Absent /\ Becomes(b, r, q).name = b[q].name
         /\ \A f \in b[q].refs : Plain(f, r, b) =>
              IF ById(f, r, n) THEN [f EXCEPT !.name = r.content.name] \in Becomes(b, r, q).refs
              ELSE f \in Becomes(b, r, q).refs
  <1> DEFINE c == b[q]
             d == Becomes(b, r, q)
             s == Scope(r.path)
             m == r.content.name
             named(f) == IF LooksAt(c, s, f) THEN [f EXCEPT !.name = NameAfter(f, s, n, m)] ELSE f
  <1>1. /\ c \in Content /\ q \in Paths /\ r.path \in Paths /\ s \in Paths \cup {NoPath}
        /\ m \in Ids /\ n \in Ids /\ NoPath \notin Paths /\ c.refs \subseteq Refs
    BY SourceParts, PathsAssumption DEF Workflows, Request, Scope, Content, Ids
  <1>2. CASE n = m
    <2>1. d = c
      BY <1>2 DEF Becomes, IdChanges
    <2>2. \A f \in c.refs : f.name = m => [f EXCEPT !.name = m] = f
      BY <1>1 DEF Refs
    <2>3. QED  BY <1>2, <2>1, <2>2 DEF ById
  <1>3. CASE n # m
    <2>1. d = Reidentified(c, s, n, m)
      BY <1>3 DEF Becomes, IdChanges
    <2>2. d \in Content
      BY <1>1, <2>1, ReidentifiedType
    <2>3. d # Absent /\ d.name = c.name
      BY <1>1, <2>1, <2>2, SpecialsAssumption DEF Reidentified, Content
    <2>4. d.refs = {named(f) : f \in c.refs}
      BY <1>1, <2>1 DEF Reidentified, Content
    <2>5. ASSUME NEW f \in c.refs, Plain(f, r, b)
          PROVE  named(f) = IF ById(f, r, n) THEN [f EXCEPT !.name = m] ELSE f
      <3>1. f \in Refs /\ f.path \in Paths \cup {NoPath} /\ [f EXCEPT !.name = f.name] = f
        BY <1>1 DEF Refs
      <3>2. "name" \in f.found
        BY <2>5 DEF Plain, Parts
      <3>3. CASE r.path \in Catalogs
        <4>1. s = r.path /\ s # NoPath
          BY <1>1, <3>3 DEF Scope
        <4>2. f.path # s => ~LooksAt(c, s, f)
          BY <2>5, <3>3, <4>1 DEF LooksAt, Plain
        <4>3. NameSplice[<<n, m>>][n] = m
          BY <1>1, SplicesAssumption
        <4>4. f.path = s => NameAfter(f, s, n, m) = IF f.name = n THEN m ELSE f.name
          BY <2>5, <3>3, <4>1, <4>3 DEF NameAfter, Plain
        <4>5. f.path = s => LooksAt(c, s, f)
          BY <3>2 DEF LooksAt
        <4>6. QED  BY <3>1, <4>2, <4>4, <4>5 DEF ById
      <3>4. CASE r.path \notin Catalogs
        <4>1. s = NoPath /\ s \notin Catalogs
          BY <1>1, <3>4, PathsAssumption DEF Scope
        <4>2. LooksAt(c, s, f) <=> f.path = s
          BY <3>2, <4>1, SplicesAssumption DEF LooksAt
        <4>3. NameAfter(f, s, n, m) = IF f.name = n THEN m ELSE f.name
          BY <4>1 DEF NameAfter
        <4>4. QED  BY <3>1, <4>2, <4>3 DEF ById
      <3>5. QED  BY <3>3, <3>4
    <2> HIDE DEF named
    <2>6. QED  BY <2>3, <2>4, <2>5
  <1>4. QED  BY <1>2, <1>3

\* The workspace F an accepted update or rename r leaves of the workspace b.
Updated(b, F, r) ==
  /\ b[r.path] # Absent /\ F[r.path] # Absent /\ F[r.path].name = r.content.name
  /\ \A q \in Workflows \ {r.path} : F[q] = Becomes(b, r, q)
  /\ \A q \in Catalogs \ {r.path} : F[q] = b[q]

Renamed(b, F, r) ==
  /\ b[r.path] # Absent /\ b[r.to] = Absent /\ KindOf(r.to) = KindOf(r.path)
  /\ F[r.to] = b[r.path]
  /\ \A q \in Workflows \ {r.path, r.to} : F[q] = Becomes(b, r, q)
  /\ \A q \in Catalogs \ {r.path, r.to} : F[q] = b[q]

LEMMA UpdateLinks ==
  ASSUME NEW b \in [Paths -> File], NEW F \in [Paths -> File], NEW r \in Request,
         r.op = "update", NoName \notin {r.content.name, b[r.path].name}, Updated(b, F, r),
         UniqueIds(b), UniqueIds(F),
         NEW a \in Workflows \ {r.path}, NEW q \in Paths, <<a, q>> \in Links(PlainPart(b, r))
  PROVE  <<a, q>> \in Links(F)
  <1> DEFINE p == r.path
             n == b[r.path].name
             m == r.content.name
  <1>1. /\ p \in Paths /\ a \in Paths /\ Workflows \subseteq Paths /\ Catalogs \subseteq Paths
        /\ NoPath \notin Paths /\ b[p] # Absent /\ F[p].name = m
    BY PathsAssumption DEF Request, Workflows, Updated
  <1>2. PICK f \in b[a].refs : f \in Refs /\ Plain(f, r, b) /\ Makes(b, f, q)
    BY PlainLinksAreMade
  <1>3. b[a] # Absent /\ b[q] # Absent
    BY PlainLinksAreMade
  <1>4. \A x \in Workflows \ {p} : b[x] # Absent => F[x] # Absent /\ F[x].name = b[x].name
    BY BecomesUpdated DEF Updated
  <1>5. IF ById(f, r, n) THEN [f EXCEPT !.name = m] \in F[a].refs ELSE f \in F[a].refs
    BY <1>2, <1>3, BecomesUpdated DEF Updated
  <1>6. F[a] # Absent /\ F[q] # Absent /\ (q # p => F[q].name = b[q].name)
    BY <1>1, <1>3, <1>4 DEF Updated, Workflows
  <1>7. CASE ById(f, r, n)
    <2> DEFINE g == [f EXCEPT !.name = m]
    <2>1. g.path = f.path /\ g.name = m /\ g \in F[a].refs
      BY <1>2, <1>5, <1>7 DEF Refs
    <2> HIDE DEF g
    <2>2. CASE p \in Catalogs
      <3>1. f.path = p /\ f.name = n
        BY <1>7, <2>2 DEF ById, Scope
      <3>2. q = p
        BY <1>1, <1>2, <2>2, <3>1 DEF Makes, Means, Workflows
      <3>3. Makes(F, g, q)
        BY <1>1, <2>1, <2>2, <3>1, <3>2 DEF Makes
      <3>4. QED  BY <1>6, <2>1, <3>3, LinksAreMade
    <2>3. CASE p \notin Catalogs
      <3>1. f.path = NoPath /\ f.name = n /\ p \in Workflows
        BY <1>1, <1>7, <2>3 DEF ById, Scope, Workflows
      <3>2. q \in Workflows /\ b[q].name = n
        BY <1>1, <1>2, <3>1 DEF Makes, Means
      <3>3. q = p
        BY <1>1, <1>3, <3>1, <3>2 DEF UniqueIds
      <3>4. Makes(F, g, q)
        BY <1>1, <2>1, <3>1, <3>2, <3>3 DEF Makes, Means
      <3>5. QED  BY <1>6, <2>1, <3>4, LinksAreMade
    <2>4. QED  BY <2>2, <2>3
  <1>8. CASE ~ById(f, r, n)
    <2>1. q = p => f.path = p /\ q \in Workflows
      BY <1>2, <1>8 DEF ById, Scope, Makes, Means, Workflows
    <2>2. Makes(F, f, q)
      BY <1>2, <1>6, <2>1 DEF Makes, Means
    <2>3. QED  BY <1>5, <1>6, <1>8, <2>2, LinksAreMade
  <1>9. QED  BY <1>7, <1>8

LEMMA RenameLinks ==
  ASSUME NEW b \in [Paths -> File], NEW F \in [Paths -> File], NEW r \in Request,
         r.op = "rename", Renamed(b, F, r), UniqueIds(b), UniqueIds(F),
         NEW a \in Workflows, NEW q \in Paths, <<a, q>> \in Links(PlainPart(b, r)), a # q,
         NEW x, a = r.path => x = r.to, a # r.path => x = a,
         NEW y, q = r.path => y = r.to, q # r.path => y = q
  PROVE  <<x, y>> \in Links(F)
  <1> DEFINE p == r.path
             t == r.to
  <1>1. /\ p \in Paths /\ t \in Paths /\ a \in Paths /\ Workflows \subseteq Paths
        /\ Catalogs \subseteq Paths /\ NoPath \notin Paths
    BY PathsAssumption DEF Request, Workflows
  <1>2. PICK f \in b[a].refs : f \in Refs /\ Plain(f, r, b) /\ Makes(b, f, q)
    BY PlainLinksAreMade
  <1>3. b[a] # Absent /\ b[q] # Absent
    BY PlainLinksAreMade
  <1>4. a # t /\ q # t /\ p # t
    BY <1>3 DEF Renamed
  <1>5. p \in Catalogs <=> t \in Catalogs
    BY DEF Renamed, KindOf
  <1>6. /\ x \in Workflows /\ y \in Paths /\ (y \in Catalogs <=> q \in Catalogs)
        /\ (y \in Workflows <=> q \in Workflows)
    BY <1>1, <1>5 DEF Workflows
  <1>7. F[y] # Absent /\ F[y].name = b[q].name
    <2>1. CASE q = p
      BY <1>3, <2>1 DEF Renamed
    <2>2. CASE q \in Catalogs \ {p}
      BY <1>3, <1>4, <2>2 DEF Renamed
    <2>3. CASE q \in Workflows \ {p}
      BY <1>3, <1>4, <2>3, BecomesRenamed DEF Renamed
    <2>4. QED  BY <2>1, <2>2, <2>3 DEF Workflows
  <1>8. CASE f.path # p
    <2>1. F[x] # Absent /\ f \in F[x].refs
      <3>1. CASE a = p
        BY <1>2, <1>3, <3>1 DEF Renamed
      <3>2. CASE a # p
        <4>1. F[a] = Becomes(b, r, a) /\ x = a
          BY <1>4, <3>2 DEF Renamed
        <4>2. QED  BY <1>2, <1>3, <1>8, <4>1, BecomesRenamed
      <3>3. QED  BY <3>1, <3>2
    <2>2. Makes(F, f, y)
      BY <1>2, <1>6, <1>7, <1>8 DEF Makes, Means
    <2>3. QED  BY <1>6, <1>7, <2>1, <2>2, LinksAreMade
  <1>9. CASE f.path = p
    <2> DEFINE g == [f EXCEPT !.path = t]
    <2>1. q = p /\ y = t
      BY <1>1, <1>2, <1>9 DEF Makes, Means
    <2>2. F[x] # Absent /\ g \in F[x].refs
      BY <1>2, <1>3, <1>4, <1>9, <2>1, BecomesRenamed DEF Renamed
    <2>3. g.path = t /\ g.name = f.name
      BY <1>2 DEF Refs
    <2> HIDE DEF g
    <2>4. Makes(F, g, y)
      BY <1>2, <1>6, <1>7, <2>1, <2>3 DEF Makes, Means
    <2>5. QED  BY <1>6, <1>7, <2>2, <2>4, LinksAreMade
  <1>10. QED  BY <1>8, <1>9

----
(* The saving handlers: what the plan holds, and what of it is written.    *)

HasPlan(op, phase) ==
  \/ op = "create"
  \/ op = "update" /\ phase \in {"cycle", "check", "write", "dependents"}
  \/ op = "rename" /\ phase \in {"move", "dependents"}

\* The plan rewrites every workflow the request r changes, to what it becomes.
PlanFits(plan, b, r) ==
  /\ \A q \in Workflows \ {r.path} : Becomes(b, r, q) # b[q] => q \in PlanPaths(plan)
  /\ \A s \in plan : s.path \in Workflows /\ s.now = Becomes(b, r, s.path)

NotInCycle(b, p, next) == \E late : ~InCycle([b EXCEPT ![p] = next], p, late)

\* Of the plan, what is not left to write is written.
PlanWritten(plan, left, fs) ==
  \A s \in plan : fs[s.path] = IF s.path \in left THEN s.was ELSE s.now

SaveInv(w) ==
  LET j == job[w]  b == job[w].before  r == job[w].req  p == job[w].req.path IN
  /\ pc[w] # "idle" /\ r.op \in {"update", "rename"} => r.kind = KindOf(p)
  /\ pc[w] # "idle" /\ HasPlan(r.op, pc[w]) =>
      /\ PlanFits(j.plan, b, r)
      /\ r.op # "rename" => j.next \in Content /\ j.next.name = r.content.name
      /\ r.op = "create" /\ pc[w] \in {"write", "dependents"} => b[p] = Absent
      /\ r.op # "rename" /\ r.kind = "workflow" /\ p \in Workflows
           /\ pc[w] \in {"check", "write", "dependents"} => NotInCycle(b, p, j.next)
      /\ pc[w] = "dependents" =>
           /\ r.op = "create" => files[p] = j.next
           /\ PlanWritten(j.plan, j.left, files)

LEMMA PlanOfFits ==
  ASSUME NEW r, NEW new, \A q \in Workflows : new[q] = Becomes(files, r, q)
  PROVE  PlanFits(PlanOf(r.path, new), files, r)
  <1> DEFINE plan == PlanOf(r.path, new)
  <1>1. \A s \in plan : s.path \in Workflows /\ s.now = Becomes(files, r, s.path)
    BY DEF PlanOf
  <1>2. ASSUME NEW q \in Workflows \ {r.path}, Becomes(files, r, q) # files[q]
        PROVE  q \in PlanPaths(plan)
    <2>1. files[q] # Absent /\ new[q] # files[q]
      BY <1>2 DEF Becomes
    <2>2. [path |-> q, was |-> files[q], now |-> new[q]] \in plan
      BY <2>1 DEF PlanOf
    <2>3. [path |-> q, was |-> files[q], now |-> new[q]].path = q
      OBVIOUS
    <2> HIDE DEF plan
    <2>4. QED  BY <2>2, <2>3 DEF PlanPaths
  <1> HIDE DEF plan
  <1>3. PlanFits(plan, files, r)
    BY <1>1, <1>2 DEF PlanFits
  <1>4. QED  BY <1>3 DEF plan

LEMMA NothingToPlan ==
  ASSUME NEW b, NEW r, r.op # "rename", r.op = "update" => ~IdChanges(b, r)
  PROVE  PlanFits({}, b, r)
  BY DEF PlanFits, Becomes

LEMMA AnsweredSaves ==
  ASSUME TypeOK, NEW w \in Workers, NEW s, Respond(w, s) PROVE SaveInv(w)'
  BY DEF TypeOK, Respond, SaveInv

LEMMA SubmitSaves ==
  ASSUME TypeOK, NEW w \in Workers, Submit(w) PROVE SaveInv(w)'
  <1>1. PICK r \in Requests :
          /\ r.op \in {"update", "rename", "delete"} => r.kind = KindOf(r.path)
          /\ pc' = [pc EXCEPT ![w] = Start(r)]
          /\ job' = [job EXCEPT ![w] =
               [req |-> r, tag |-> TagOf(r),
                entry |-> IF r.op = "restore" THEN r.entry ELSE served + 1,
                target |-> IF r.op = "rename" THEN r.to ELSE r.path, seen |-> Absent,
                was |-> Absent, next |-> r.content, plan |-> {}, left |-> {}, before |-> files,
                since |-> faults]]
    BY DEF Submit
  <1>2. /\ pc'[w] = Start(r) /\ job'[w].req = r /\ job'[w].plan = {} /\ job'[w].before = files
        /\ job'[w].next = r.content
    BY <1>1 DEF TypeOK
  <1>3. r \in Request /\ r.op \in Ops /\ r.content \in Content
    BY InputsAssumption DEF Request
  <1>4. CASE r.op = "create"
    <2>1. PlanFits({}, files, r)
      BY <1>4, NothingToPlan
    <2>2. Start(r) = (IF r.kind = "workflow" THEN "cycle" ELSE "check")
      BY <1>4 DEF Start
    <2>3. QED  BY <1>1, <1>2, <1>3, <1>4, <2>1, <2>2 DEF SaveInv
  <1>5. CASE r.op # "create"
    <2>1. Start(r) \in {"match", "check"} /\ (r.op = "update" => Start(r) = "match")
      BY <1>3, <1>5 DEF Start, Ops
    <2>2. QED  BY <1>1, <1>2, <1>5, <2>1 DEF SaveInv, HasPlan
  <1>6. QED  BY <1>4, <1>5

LEMMA PrepareSaves ==
  ASSUME IInv, NEW w \in Workers, BInv(w), SaveInv(w), Refuse(w) \/ Prepare(w) PROVE SaveInv(w)'
  <1> DEFINE j == job[w]
             p == job[w].req.path
             b == job[w].before
             r == job[w].req
  <1>1. /\ pc[w] \in Early /\ TypeOK /\ files' = files /\ pc[w] # "idle"
    BY DEF IInv, Early, Refuse, MatchMissing, MatchRefused, Prepare, MatchPassed, ReadExisting,
       Impact, PlanUpdate, PlanRename, Cycle, CheckCreate, CheckUpdate, CheckDelete, CheckRename,
       CheckRestore, Answer, Continue
  <1>2. /\ j \in Job /\ r \in Request /\ r.op \in Ops /\ pc[w] \in PhasesOf(r.op)
        /\ p \in Paths /\ b \in [Paths -> File]
    BY <1>1, BusyWorker DEF Job
  <1>3. files = b /\ Remembers(w) /\ (r.op = "update" /\ pc[w] = "plan" => j.was = b[p])
    BY <1>1 DEF BInv, Remembers
  <1>4. ASSUME NEW s, Respond(w, s) PROVE SaveInv(w)'
    BY <1>1, <1>4, AnsweredSaves
  <1>5. ASSUME NEW phase, NEW k, Proceed(w, phase, k), k.req = r, ~HasPlan(r.op, phase)
        PROVE  SaveInv(w)'
    BY <1>1, <1>5, Proceeded DEF SaveInv
  <1>6. CASE MatchPassed(w) \/ ReadExisting(w)
    <2> DEFINE k == [j EXCEPT !.seen = files[p]]
               l == [j EXCEPT !.was = files[p]]
    <2>1. k.req = r /\ l.req = r
      BY <1>2, JobFields
    <2>2. /\ pc[w] \in {"match", "read"}
          /\ \/ \E s : Respond(w, s)
             \/ pc[w] = "match" /\ Proceed(w, AfterMatch(r.op), k)
             \/ pc[w] = "read" /\ Proceed(w, "plan", l)
      BY <1>6 DEF MatchPassed, ReadExisting, Answer, Continue
    <2> HIDE DEF k, l
    <2>3. r.op \in {"update", "rename", "delete"} /\ (pc[w] = "read" => r.op = "update")
      BY <1>2, <2>2 DEF PhasesOf, Ops
    <2>4. ~HasPlan(r.op, AfterMatch(r.op)) /\ (pc[w] = "read" => ~HasPlan(r.op, "plan"))
      BY <2>3 DEF AfterMatch, HasPlan
    <2>5. QED  BY <1>4, <1>5, <2>1, <2>2, <2>4
  <1>7. CASE Impact(w) \/ CheckDelete(w) \/ CheckRename(w)
    <2>1. \/ \E s : Respond(w, s)
          \/ r.op = "delete" /\ \E phase : Proceed(w, phase, j)
          \/ r.op = "rename" /\ Proceed(w, "plan", j)
      BY <1>2, <1>7 DEF Impact, CheckDelete, CheckRename, Answer, Continue, PhasesOf, Ops
    <2>2. QED  BY <1>4, <1>5, <2>1 DEF HasPlan
  <1>8. CASE CheckRestore(w)
    <2> DEFINE k == [j EXCEPT !.target = trash[j.entry].manifest]
    <2>1. k.req = r
      BY <1>2, JobFields
    <2>2. r.op = "restore" /\ ((\E s : Respond(w, s)) \/ Proceed(w, "move", k))
      BY <1>8 DEF CheckRestore, Answer, Continue
    <2> HIDE DEF k
    <2>3. QED  BY <1>4, <1>5, <2>1, <2>2 DEF HasPlan
  <1>9. CASE Cycle(w)
    <2>1. /\ pc[w] = "cycle"
          /\ \/ \E s : Respond(w, s)
             \/ ~RefusesCycle(w) /\ Proceed(w, "check", j)
      BY <1>9 DEF Cycle, Answer, Continue
    <2>2. CASE ~RefusesCycle(w) /\ Proceed(w, "check", j)
      <3>1. pc'[w] = "check" /\ job'[w] = j
        BY <1>1, <2>2, Proceeded
      <3>2. NotInCycle(b, p, j.next)
        BY <1>3, <2>2 DEF RefusesCycle, NotInCycle
      <3>3. r.op \in {"create", "update"}
        BY <1>2, <2>1 DEF PhasesOf, Ops
      <3>4. QED  BY <1>1, <2>1, <3>1, <3>2, <3>3 DEF SaveInv, HasPlan
    <2>3. QED  BY <1>4, <2>1, <2>2
  <1>10. CASE CheckCreate(w) \/ CheckUpdate(w)
    <2>1. /\ pc[w] = "check" /\ r.op \in {"create", "update"}
          /\ \/ \E s : Respond(w, s)
             \/ Proceed(w, "write", j) /\ (r.op = "create" => files[p] = Absent)
      BY <1>10 DEF CheckCreate, CheckUpdate, Answer, Continue, Free
    <2>2. CASE Proceed(w, "write", j) /\ (r.op = "create" => files[p] = Absent)
      <3>1. pc'[w] = "write" /\ job'[w] = j
        BY <1>1, <2>2, Proceeded
      <3>2. QED  BY <1>1, <1>3, <2>1, <2>2, <3>1 DEF SaveInv, HasPlan
    <2>3. QED  BY <1>4, <2>1, <2>2
  <1>11. CASE PlanUpdate(w)
    <2> DEFINE old == j.was.name
               new == r.content.name
               scope == IF p \in Catalogs THEN p ELSE NoPath
               renamed == old # NoName /\ new # NoName /\ old # new
               after == [q \in Workflows |->
                           IF files[q] = Absent THEN Absent
                           ELSE Reidentified(files[q], scope, old, new)]
               next == IF renamed /\ p \notin Catalogs
                       THEN Reidentified(r.content, scope, old, new) ELSE r.content
               plan == IF renamed THEN PlanOf(p, after) ELSE {}
               phase == IF p \in Catalogs THEN "check" ELSE "cycle"
               k == [j EXCEPT !.next = next, !.plan = plan]
    <2>1. /\ pc[w] = "plan" /\ r.op = "update" /\ Proceed(w, phase, k)
      BY <1>11 DEF PlanUpdate, Continue
    <2>2. old = b[p].name /\ scope = Scope(p) /\ (renamed <=> IdChanges(files, r))
      BY <1>3, <2>1 DEF Scope, IdChanges
    <2>3. PlanFits(plan, b, r)
      <3>1. CASE renamed
        <4>1. \A q \in Workflows : after[q] = Becomes(files, r, q)
          BY <1>3, <2>1, <2>2, <3>1 DEF Becomes
        <4> HIDE DEF after
        <4>2. PlanFits(PlanOf(p, after), files, r)
          BY <4>1, PlanOfFits
        <4>3. QED  BY <1>3, <3>1, <4>2
      <3>2. CASE ~renamed
        <4>1. PlanFits({}, b, r)
          BY <1>3, <2>1, <2>2, <3>2, NothingToPlan
        <4>2. plan = {}
          BY <3>2
        <4>3. QED  BY <4>1, <4>2
      <3>3. QED  BY <3>1, <3>2
    <2>4. next \in Content /\ next.name = new
      <3>1. /\ r.content \in Content /\ scope \in Paths \cup {NoPath}
            /\ old \in Ids /\ new \in Ids
        <4>1. j.was \in File /\ j.was # Absent
          BY <1>1, <2>1, BusyWorker
        <4>2. old \in Ids
          BY <4>1 DEF File, Content
        <4>3. r.content \in Content /\ new \in Ids
          BY <1>2 DEF Request, Content
        <4>4. QED  BY <1>2, <4>2, <4>3
      <3>2. CASE renamed /\ p \notin Catalogs
        <4>1. next = Reidentified(r.content, scope, old, new)
          BY <3>2
        <4>2. next \in Content
          BY <3>1, <4>1, ReidentifiedType
        <4>3. next.name = new
          BY <3>1, <4>1 DEF Reidentified, Content
        <4>4. QED  BY <4>2, <4>3
      <3>3. CASE ~(renamed /\ p \notin Catalogs)
        <4>1. next = r.content
          BY <3>3
        <4>2. QED  BY <3>1, <4>1
      <3>4. QED  BY <3>2, <3>3
    <2>5. phase = "check" => p \notin Workflows
      BY DEF Workflows
    <2>6. phase \in {"check", "cycle"}
      OBVIOUS
    <2> HIDE DEF next, plan, phase, after
    <2>7. k.plan = plan /\ k.next = next /\ k.req = r /\ k.before = b
      BY <1>2 DEF Job
    <2> HIDE DEF k
    <2>8. pc'[w] = phase /\ job'[w] = k
      BY <1>1, <2>1, Proceeded
    <2>9. QED  BY <2>1, <2>3, <2>4, <2>5, <2>6, <2>7, <2>8 DEF SaveInv
  <1>12. CASE PlanRename(w)
    <2> DEFINE after == [q \in Workflows |->
                           IF files[q] = Absent THEN Absent
                           ELSE Repointed(files[q], p, r.to)]
               plan == PlanOf(p, after)
               k == [j EXCEPT !.plan = plan]
    <2>1. /\ pc[w] = "plan" /\ r.op = "rename" /\ Proceed(w, "move", k)
      BY <1>12 DEF PlanRename, Continue
    <2>2. \A q \in Workflows : after[q] = Becomes(files, r, q)
      BY <2>1 DEF Becomes
    <2> HIDE DEF after
    <2>3. PlanFits(plan, b, r)
      BY <1>3, <2>2, PlanOfFits
    <2> HIDE DEF plan
    <2>4. k.plan = plan /\ k.req = r /\ k.before = b
      BY <1>2, JobFields
    <2> HIDE DEF k
    <2>5. pc'[w] = "move" /\ job'[w] = k
      BY <1>1, <2>1, Proceeded
    <2>6. QED  BY <2>1, <2>3, <2>4, <2>5 DEF SaveInv
  <1>13. CASE Refuse(w)
    <2>1. \E s : Respond(w, s)
      BY <1>13 DEF Refuse, MatchMissing, MatchRefused, Answer
    <2>2. QED  BY <1>4, <2>1
  <1>14. QED  BY <1>6, <1>7, <1>8, <1>9, <1>10, <1>11, <1>12, <1>13 DEF Prepare

LEMMA WriteSaves ==
  ASSUME IInv, NEW w \in Workers, BInv(w), SaveInv(w), Write(w) PROVE SaveInv(w)'
  <1> DEFINE j == job[w]
             p == job[w].req.path
             b == job[w].before
             r == job[w].req
             full == [j EXCEPT !.left = PlanPaths(j.plan)]
  <1>1. pc[w] # "idle" /\ TypeOK /\ Holds(w)
    BY DEF IInv, Write, WritePrimary, WritePrimaryFails, MoveRename, MoveRenameFails,
       WriteDependent, WriteDependentFails, Reread
  <1>2. /\ j \in Job /\ r.op \in Ops /\ pc[w] \in PhasesOf(r.op)
        /\ p \in Paths /\ r.to \in Paths /\ files \in [Paths -> File]
        /\ \A s \in j.plan : s.path \in Paths
    BY <1>1, BusyWorker DEF FilesOK, Job
  <1>3. /\ full.req = r /\ full.before = b /\ full.next = j.next /\ full.plan = j.plan
        /\ full.left = PlanPaths(j.plan)
    BY <1>2 DEF Job
  <1> HIDE DEF full
  <1>4. ASSUME pc[w] \in {"write", "move"}, r.op \in {"create", "update", "rename"}
        PROVE  \A s \in j.plan : files[s.path] = s.was /\ s.path \notin {p, j.target}
    BY <1>1, <1>4 DEF BInv, Early, Remembers, Holds, PlanInv
  <1>5. CASE WritePrimary(w)
    <2>1. /\ pc[w] = "write" /\ files' = [files EXCEPT ![p] = j.next]
          /\ Proceed(w, "dependents", full)
      BY <1>5 DEF WritePrimary, Dependents, Continue, full
    <2>2. pc'[w] = "dependents" /\ job'[w] = full
      BY <1>1, <2>1, Proceeded
    <2>3. r.op \in {"create", "update"}
      BY <1>2, <2>1 DEF PhasesOf, Ops
    <2>4. files'[p] = j.next /\ PlanWritten(j.plan, PlanPaths(j.plan), files')
      BY <1>2, <1>4, <2>1, <2>3 DEF PlanWritten, PlanPaths
    <2>5. QED  BY <1>1, <1>3, <2>1, <2>2, <2>3, <2>4 DEF SaveInv, HasPlan
  <1>6. CASE MoveRename(w) /\ files[p] # Absent
    <2>1. /\ pc[w] = "move" /\ files' = [files EXCEPT ![r.to] = files[p], ![p] = Absent]
          /\ r.op = "rename" /\ Proceed(w, "dependents", full)
      BY <1>6 DEF MoveRename, Dependents, Continue, full
    <2>2. pc'[w] = "dependents" /\ job'[w] = full
      BY <1>1, <2>1, Proceeded
    <2>3. j.target = r.to
      BY <1>1, <2>1 DEF Holds, ShapeInv
    <2>4. PlanWritten(j.plan, PlanPaths(j.plan), files')
      BY <1>2, <1>4, <2>1, <2>3 DEF PlanWritten, PlanPaths
    <2>5. QED  BY <1>1, <1>3, <2>1, <2>2, <2>4 DEF SaveInv, HasPlan
  <1>7. ASSUME NEW q \in Paths, WriteDependent(w, q) PROVE SaveInv(w)'
    <2> DEFINE k == [j EXCEPT !.left = @ \ {q}]
    <2>1. /\ pc[w] = "dependents" /\ q \in j.left /\ Proceed(w, "dependents", k)
          /\ files' = [files EXCEPT ![q] = RewriteOf(w, q).now]
      BY <1>7 DEF WriteDependent, Nth, Continue
    <2>2. /\ k.req = r /\ k.before = b /\ k.next = j.next /\ k.plan = j.plan
          /\ k.left = j.left \ {q}
      BY <1>2 DEF Job
    <2> HIDE DEF k
    <2>3. pc'[w] = "dependents" /\ job'[w] = k
      BY <1>1, <2>1, Proceeded
    <2>4. /\ q # p
          /\ \A s \in j.plan : s.path = q => s = RewriteOf(w, q)
      BY <2>1, RewriteHolds
    <2>5. files'[p] = files[p]
      BY <1>2, <2>1, <2>4
    <2>6. PlanWritten(j.plan, j.left, files) => PlanWritten(j.plan, j.left \ {q}, files')
      BY <1>2, <2>1, <2>4 DEF PlanWritten
    <2>7. r.op \in {"create", "update", "rename"}
      BY <1>2, <2>1 DEF PhasesOf, Ops
    <2>8. QED  BY <1>1, <2>1, <2>2, <2>3, <2>5, <2>6, <2>7 DEF SaveInv, HasPlan
  <1>8. ASSUME NEW phase \in {"undoPrimary", "undoDependents"}, NEW k, Proceed(w, phase, k),
               k.req = r, r.op # "create"
        PROVE  SaveInv(w)'
    BY <1>1, <1>8, Proceeded DEF SaveInv, HasPlan
  <1>9. CASE WritePrimaryFails(w) \/ WriteDependentFails(w) \/ MoveRenameFails(w) \/ Reread(w)
              \/ (MoveRename(w) /\ files[p] = Absent)
    <2>1. r.op = "create" => j.plan = {}
      BY <1>1, BusyWorker
    <2>2. pc[w] = "dependents" => j.left \subseteq PlanPaths(j.plan)
      BY <1>1, BusyWorker, RunningJob
    <2>3. pc[w] = "dependents" /\ j.left # {} => r.op # "create"
      BY <2>1, <2>2 DEF PlanPaths
    <2>4. \/ \E s : Respond(w, s)
          \/ r.op # "create" /\ \E phase \in {"undoPrimary", "undoDependents"} :
                                  Proceed(w, phase, j) \/ Proceed(w, phase, full)
      BY <1>9, <2>3 DEF WritePrimaryFails, MoveRename, MoveRenameFails,
         WriteDependentFails, Reread, Answer, Continue, full
    <2>5. QED  BY <1>1, <1>3, <1>8, <2>4, AnsweredSaves
  <1>10. QED  BY <1>5, <1>6, <1>7, <1>9 DEF Write

LEMMA OtherSaves ==
  ASSUME TypeOK, NEW w \in Workers, SaveInv(w), Undo(w) \/ Trash(w) PROVE SaveInv(w)'
  <1> DEFINE j == job[w]
             r == job[w].req
  <1>1. pc[w] # "idle"
    BY DEF Undo, UndoPrimary, UndoPrimaryFails, UndoDependent, UndoDependentFails,
       UndoDone, UndoMoveRename, UndoMoveRenameFails, Trash, MoveDelete, MoveDeleteFails,
       WriteManifest, WriteManifestFails, UndoMoveDelete, UndoMoveDeleteFails, MoveRestore,
       MoveRestoreFails, Cleanup, CleanupFails
  <1>2. j \in Job /\ r.op \in Ops /\ pc[w] \in PhasesOf(r.op)
    BY <1>1, BusyWorker
  <1>3. \A x : [j EXCEPT !.left = x].req = r
    BY <1>2, JobFields
  <1>4. ASSUME NEW s, Respond(w, s) PROVE SaveInv(w)'
    BY <1>4, AnsweredSaves
  <1>5. ASSUME NEW phase, NEW k, Proceed(w, phase, k), k.req = r, ~HasPlan(r.op, phase)
        PROVE  SaveInv(w)'
    BY <1>1, <1>5, Proceeded DEF SaveInv
  <1>6. CASE Undo(w)
    <2>1. r.op \in {"update", "rename", "delete"}
      BY <1>2, <1>6 DEF Undo, UndoPrimary, UndoPrimaryFails, UndoDependent, UndoDependentFails,
         UndoDone, UndoMoveRename, UndoMoveRenameFails, PhasesOf, Ops
    <2>2. \/ \E s : Respond(w, s)
          \/ \E phase \in {"undoDependents", "undoMove"} :
               Proceed(w, phase, j) \/ \E x : Proceed(w, phase, [j EXCEPT !.left = x])
      BY <1>6 DEF Undo, UndoPrimary, UndoPrimaryFails, UndoDependent, UndoDependentFails,
         UndoDone, UndoMoveRename, UndoMoveRenameFails, Answer, Continue
    <2>3. \A phase \in {"undoDependents", "undoMove"} : ~HasPlan(r.op, phase)
      BY <2>1 DEF HasPlan
    <2>4. QED  BY <1>3, <1>4, <1>5, <2>2, <2>3
  <1>7. CASE Trash(w)
    <2>1. \/ \E s : Respond(w, s)
          \/ r.op \in {"delete", "restore"} /\ \E phase : Proceed(w, phase, j)
      BY <1>2, <1>7 DEF Trash, MoveDelete, MoveDeleteFails, WriteManifest, WriteManifestFails,
         UndoMoveDelete, UndoMoveDeleteFails, MoveRestore, MoveRestoreFails, Cleanup,
         CleanupFails, Answer, Continue, PhasesOf, Ops
    <2>2. QED  BY <1>4, <1>5, <2>1 DEF HasPlan
  <1>8. QED  BY <1>6, <1>7

----
(* The answer 200 of a saving handler.                                     *)

LEMMA OnlyReread ==
  ASSUME TypeOK, NEW w \in Workers, Step(w), Answers(w, {200}),
         job[w].req.op \notin {"delete", "restore"}
  PROVE  /\ Reread(w)
         /\ files[job[w].target] # Absent /\ KindOf(job[w].target) = job[w].req.kind
  <1> DEFINE j == job[w]
             r == job[w].req
  <1>1. pc[w] # "idle" /\ pc'[w] = "idle" /\ reply'[w] = 200
    BY DEF Answers
  <1>2. r.op \in Ops /\ pc[w] \in PhasesOf(r.op)
    BY <1>1, BusyWorker
  <1>3. \A s : Respond(w, s) => s = 200
    BY <1>1 DEF Respond, TypeOK
  <1>4. \A phase, k : Proceed(w, phase, k) => phase = "idle"
    BY <1>1 DEF Proceed, TypeOK
  <1>5. ~Refuse(w)
    BY <1>3 DEF Refuse, MatchMissing, MatchRefused, Answer
  <1>6. ~Prepare(w)
    <2>1. ~MatchPassed(w)
      <3>1. SUFFICES ASSUME MatchPassed(w) PROVE FALSE
        OBVIOUS
      <3>2. pc[w] = "match" /\ AfterMatch(r.op) = "idle"
        BY <1>4, <3>1 DEF MatchPassed, Continue
      <3>3. r.op \in {"update", "rename", "delete"}
        BY <1>2, <3>2 DEF PhasesOf, Ops
      <3>4. QED  BY <3>2, <3>3 DEF AfterMatch
    <2>2. ~(PlanUpdate(w) \/ PlanRename(w) \/ Cycle(w) \/ ReadExisting(w) \/ Impact(w))
      BY <1>3, <1>4 DEF PlanUpdate, PlanRename, Cycle, ReadExisting, Impact, Answer, Continue
    <2>3. ~(CheckCreate(w) \/ CheckUpdate(w) \/ CheckDelete(w) \/ CheckRename(w))
      BY <1>3, <1>4 DEF CheckCreate, CheckUpdate, CheckDelete, CheckRename, Answer, Continue
    <2>4. ~CheckRestore(w)
      BY <1>3, <1>4 DEF CheckRestore, Answer, Continue
    <2>5. QED  BY <2>1, <2>2, <2>3, <2>4 DEF Prepare
  <1>7. ~Undo(w)
    <2>1. ~(UndoPrimary(w) \/ UndoPrimaryFails(w))
      BY <1>4 DEF UndoPrimary, UndoPrimaryFails, Continue
    <2>2. \A q \in Paths : ~(UndoDependent(w, q) \/ UndoDependentFails(w, q))
      BY <1>4 DEF UndoDependent, UndoDependentFails, Continue
    <2>3. ~(UndoDone(w) \/ UndoMoveRename(w) \/ UndoMoveRenameFails(w))
      BY <1>3, <1>4 DEF UndoDone, UndoMoveRename, UndoMoveRenameFails, Answer, Continue
    <2>4. QED  BY <2>1, <2>2, <2>3 DEF Undo
  <1>8. ~Trash(w)
    BY <1>2, <1>3, <1>4 DEF Trash, MoveDelete, MoveDeleteFails, WriteManifest,
       WriteManifestFails, UndoMoveDelete, UndoMoveDeleteFails, MoveRestore, MoveRestoreFails,
       Cleanup, CleanupFails, Answer, Continue, PhasesOf, Ops
  <1>9. Write(w) => Reread(w)
    <2>1. ~(WritePrimary(w) \/ WritePrimaryFails(w))
      BY <1>3, <1>4 DEF WritePrimary, WritePrimaryFails, Dependents, Continue
    <2>2. ~(MoveRename(w) \/ MoveRenameFails(w))
      BY <1>4 DEF MoveRename, MoveRenameFails, Dependents, Continue
    <2>3. \A q \in Paths : ~WriteDependent(w, q)
      BY <1>4 DEF WriteDependent, Continue
    <2>4. ~WriteDependentFails(w)
      BY <1>4 DEF WriteDependentFails
    <2>5. QED  BY <2>1, <2>2, <2>3, <2>4 DEF Write
  <1>10. Reread(w)
    BY <1>5, <1>6, <1>7, <1>8, <1>9 DEF Step
  <1>11. QED  BY <1>3, <1>10 DEF Reread, Answer

\* What the handler leaves at the other documents.
LEMMA OthersBecome ==
  ASSUME IInv, NEW w \in Workers, BInv(w), SaveInv(w), pc[w] = "dependents", job[w].left = {},
         NEW q \in Paths \ {job[w].req.path, job[w].target}
  PROVE  /\ q \in Workflows => files[q] = Becomes(job[w].before, job[w].req, q)
         /\ q \in Catalogs => files[q] = job[w].before[q]
  <1> DEFINE j == job[w]
             b == job[w].before
  <1>1. j.req.op \in {"create", "update", "rename"}
    <2>1. j.req.op \in Ops /\ pc[w] \in PhasesOf(j.req.op)
      BY BusyWorker DEF IInv
    <2>2. QED  BY <2>1 DEF PhasesOf, Ops
  <1>2. PlanFits(j.plan, b, j.req) /\ PlanWritten(j.plan, j.left, files) /\ OthersAsBefore(w)
    BY <1>1 DEF SaveInv, HasPlan, BInv
  <1>3. CASE q \in PlanPaths(j.plan)
    <2>1. PICK s \in j.plan : s.path = q
      BY <1>3 DEF PlanPaths
    <2>2. files[q] = s.now
      BY <1>2, <2>1 DEF PlanWritten
    <2>3. QED  BY <1>2, <2>1, <2>2 DEF PlanFits, Workflows
  <1>4. CASE q \notin PlanPaths(j.plan)
    <2>1. files[q] = b[q]
      BY <1>2, <1>4 DEF OthersAsBefore
    <2>2. QED  BY <1>2, <1>4, <2>1 DEF PlanFits
  <1>5. QED  BY <1>3, <1>4

LEMMA RereadLinks ==
  ASSUME IInv, NEW w \in Workers, BInv(w), SaveInv(w), Reread(w), files[job[w].target] # Absent,
         KindOf(job[w].target) = job[w].req.kind
  PROVE  KeepsLinks(w)
  <1> DEFINE j == job[w]
             r == job[w].req
             p == r.path
             b == job[w].before
             At(x) == IF r.op = "rename" /\ x = p THEN r.to ELSE x
  <1>1. /\ pc[w] = "dependents" /\ j.left = {} /\ files' = files /\ TypeOK /\ Holds(w)
        /\ pc[w] # "idle"
    BY DEF Reread, IInv
  <1>2. /\ j \in Job /\ r \in Request /\ p \in Paths /\ r.to \in Paths
        /\ b \in [Paths -> File] /\ files \in [Paths -> File]
        /\ r.op = "update" => j.was # Absent
    BY <1>1, BusyWorker DEF Job, FilesOK
  <1>3. SUFFICES ASSUME r.op = "rename" \/ (r.op = "update" /\ NoName \notin {r.content.name, b[p].name}),
                        UniqueIds(b), UniqueIds(files),
                        NEW l \in Links(PlainPart(b, r)), l[1] # l[2],
                        r.op = "rename" \/ l[1] # p
                 PROVE  <<At(l[1]), At(l[2])>> \in Links(files)
    BY <1>1 DEF KeepsLinks, KeepsLinksOf, Moves
  <1>4. l = <<l[1], l[2]>> /\ l[1] \in Workflows /\ l[2] \in Paths
    BY DEF Links
  <1>5. /\ \A q \in Workflows \ {p, j.target} : files[q] = Becomes(b, r, q)
        /\ \A q \in Catalogs \ {p, j.target} : files[q] = b[q]
    BY <1>1, OthersBecome, PathsAssumption DEF Workflows
  <1>6. Workflows \subseteq Paths
    BY DEF Workflows
  <1>7. CASE r.op = "update"
    <2>1. j.target = p /\ files[p] = j.next /\ j.was = b[p] /\ j.next.name = r.content.name
      BY <1>1, <1>7 DEF Holds, ShapeInv, UpdateInv, BInv, Remembers, SaveInv, HasPlan
    <2>2. Updated(b, files, r)
      BY <1>2, <1>5, <1>7, <2>1 DEF Updated
    <2>3. <<l[1], l[2]>> \in Links(files)
      BY <1>2, <1>3, <1>4, <1>7, <2>2, UpdateLinks
    <2>4. QED  BY <1>7, <2>3
  <1>8. CASE r.op = "rename"
    <2>1. j.target = r.to /\ files[r.to] = j.seen /\ j.seen = b[p] /\ b[r.to] = Absent
          /\ j.seen # Absent
      BY <1>1, <1>8 DEF Holds, ShapeInv, RenameInv, BInv, Remembers
    <2>2. KindOf(r.to) = KindOf(p)
      BY <1>1, <1>8, <2>1 DEF SaveInv
    <2>3. Renamed(b, files, r)
      BY <1>2, <1>5, <1>8, <2>1, <2>2 DEF Renamed
    <2>4. ASSUME NEW x, x = At(l[1]), NEW y, y = At(l[2]) PROVE <<x, y>> \in Links(files)
      <3>1. PICK a \in Workflows, q \in Paths : a = l[1] /\ q = l[2] /\ <<a, q>> \in Links(PlainPart(b, r))
        BY <1>3, <1>4
      <3>2. /\ a = p => x = r.to
            /\ a # p => x = a
            /\ q = p => y = r.to
            /\ q # p => y = q
        BY <1>8, <2>4, <3>1
      <3>3. a # q
        BY <1>3, <3>1
      <3>4. UniqueIds(b) /\ UniqueIds(files)
        BY <1>3
      <3>5. b \in [Paths -> File] /\ files \in [Paths -> File] /\ r \in Request
        BY <1>2
      <3> HIDE DEF At
      <3>6. <<a, q>> \in Links(PlainPart(b, r)) /\ r.op = "rename"
        BY <1>8, <3>1
      <3> HIDE DEF b, r
      <3>7. QED  BY <2>3, <3>2, <3>3, <3>4, <3>5, <3>6, RenameLinks
    <2>5. QED  BY <2>4
  <1>9. QED  BY <1>3, <1>7, <1>8

LEMMA RereadAcyclic ==
  ASSUME IInv, NEW w \in Workers, BInv(w), SaveInv(w), Reread(w), files[job[w].target] # Absent,
         KindOf(job[w].target) = job[w].req.kind
  PROVE  KeepsAcyclic(w)
  <1> DEFINE j == job[w]
             r == job[w].req
             p == job[w].req.path
             b == job[w].before
  <1>1. /\ pc[w] = "dependents" /\ j.left = {} /\ files' = files /\ TypeOK /\ Holds(w)
        /\ pc[w] # "idle"
    BY DEF Reread, IInv
  <1>2. /\ j \in Job /\ r \in Request /\ p \in Paths
        /\ b \in [Paths -> File] /\ files \in [Paths -> File]
    BY <1>1, BusyWorker DEF Job, FilesOK
  <1>3. SUFFICES ASSUME r.op = "create" \/ (r.op = "update" /\ r.content.name = b[p].name),
                        Acyclic(b), UniqueIds(files)
                 PROVE  Acyclic(files)
    BY <1>1 DEF KeepsAcyclic, KeepsId
  <1>4. j.target = p
    BY <1>1, <1>3 DEF Holds, ShapeInv
  <1>5. \A q \in Paths \ {p} : files[q] = b[q]
    <2>1. \A q \in Workflows : Becomes(b, r, q) = b[q]
      BY <1>3 DEF Becomes, IdChanges
    <2>2. QED  BY <1>1, <1>4, <2>1, OthersBecome DEF Workflows
  <1>6. /\ files[p] = j.next /\ j.next.name = r.content.name
        /\ r.op = "create" => b[p] = Absent
        /\ r.kind = "workflow" /\ p \in Workflows => NotInCycle(b, p, j.next)
    BY <1>1, <1>3 DEF Holds, UpdateInv, SaveInv, HasPlan
  <1>7. files = [b EXCEPT ![p] = j.next]
    <2>1. \A q \in Paths : files[q] = [b EXCEPT ![p] = j.next][q]
      BY <1>2, <1>5, <1>6
    <2>2. j.next \in File
      BY <1>2, <1>6
    <2>3. [b EXCEPT ![p] = j.next] \in [Paths -> File]
      BY <1>2, <2>2
    <2>4. QED  BY <1>2, <2>1, <2>3, SameFiles
  <1>8. p \in Workflows => \E late : ~InCycle(files, p, late)
    BY <1>4, <1>6, <1>7 DEF NotInCycle, KindOf, Workflows
  <1>9. QED  BY <1>2, <1>3, <1>4, <1>5, <1>6, <1>8, SavedAcyclic

----
\* One step keeps the saving handler's invariant, and its answer, if any, keeps the links
\* and the graph acyclic.
SavesWell(w) == KeepsLinks(w) /\ KeepsAcyclic(w)

LEMMA StepSaves ==
  ASSUME IInv, NEW w \in Workers, BInv(w), SaveInv(w), Submit(w) \/ Step(w)
  PROVE  SaveInv(w)' /\ SavesWell(w)
  <1>1. TypeOK
    BY DEF IInv
  <1>2. SaveInv(w)'
    BY <1>1, SubmitSaves, PrepareSaves, WriteSaves, OtherSaves DEF Step
  <1>3. CASE ~Answers(w, {200}) \/ job[w].req.op \in {"delete", "restore"}
    <2>1. KeepsLinks(w)
      BY <1>3 DEF KeepsLinks, KeepsLinksOf
    <2>2. KeepsAcyclic(w)
      BY <1>3 DEF KeepsAcyclic
    <2>3. QED  BY <1>2, <2>1, <2>2 DEF SavesWell
  <1>4. CASE Answers(w, {200}) /\ job[w].req.op \notin {"delete", "restore"}
    <2>1. Step(w)
      BY <1>4 DEF Answers, Submit
    <2>2. /\ Reread(w) /\ files[job[w].target] # Absent
          /\ KindOf(job[w].target) = job[w].req.kind
      BY <1>1, <1>4, <2>1, OnlyReread
    <2>3. QED  BY <1>2, <2>2, RereadLinks, RereadAcyclic DEF SavesWell
  <1>5. QED  BY <1>2, <1>3, <1>4

LEMMA NextSaves ==
  ASSUME Sequential, IInv, \A w \in Workers : BInv(w), \A w \in Workers : SaveInv(w), [Next]_vars
  PROVE  /\ \A w \in Workers : SaveInv(w)'
         /\ [\A w \in Workers : SavesWell(w)]_vars
  <1>1. CASE \E v \in Workers : Submit(v) \/ Step(v)
    <2>1. PICK v \in Workers : Submit(v) \/ Step(v)
      BY <1>1
    <2>2. \A w \in Workers : w = v
      BY DEF Sequential
    <2>3. SaveInv(v)' /\ SavesWell(v)
      BY <2>1, StepSaves
    <2>4. QED  BY <2>2, <2>3
  <1>2. CASE Crash
    <2>1. \A w \in Workers : pc'[w] = "idle" /\ reply'[w] = reply[w]
      BY <1>2 DEF Crash
    <2>2. \A w \in Workers : pc[w] # "idle" => reply[w] = 0
      BY DEF BInv
    <2>3. \A w \in Workers : SaveInv(w)' /\ ~Answers(w, {200})
      BY <2>1, <2>2 DEF SaveInv, Answers
    <2>4. QED  BY <2>3 DEF SavesWell, KeepsLinks, KeepsLinksOf, KeepsAcyclic
  <1>3. CASE UNCHANGED vars
    BY <1>3 DEF vars, SaveInv
  <1>4. QED  BY <1>1, <1>2, <1>3 DEF Next, Quiet

LEMMA SavesInvariant ==
  ASSUME Sequential
  PROVE  Spec => [][\A w \in Workers : SavesWell(w)]_vars
  <1> DEFINE Before == \A w \in Workers : BInv(w)
             Saves == \A w \in Workers : SaveInv(w)
             Well == \A w \in Workers : SavesWell(w)
  <1>1. Init => Before /\ Saves
    BY DEF Init, BInv, SaveInv
  <1>2. IInv /\ Before /\ Saves /\ [Next]_vars => Before' /\ Saves' /\ [Well]_vars
    BY NextBefore, NextSaves
  <1>3. Spec => []IInv
    BY IInvariant
  <1> HIDE DEF Before, Saves, Well
  <1>4. Spec => [][Well]_vars
    BY <1>1, <1>2, <1>3, PTL DEF Spec
  <1>5. QED  BY <1>4 DEF Well

\* One request at a time, an accepted rename, and an update that changes the workflow id or
\* operationId, keep every link of the other documents, for whatever references the
\* workspace holds (the dependent rewrites, 248-343).
THEOREM LinksAreKept == Sequential /\ Spec => LinksKept
  <1>1. SUFFICES ASSUME Sequential PROVE Spec => LinksKept
    OBVIOUS
  <1> DEFINE Well == \A w \in Workers : SavesWell(w)
             LinksWell == \A w \in Workers : KeepsLinks(w)
  <1>2. Spec => [][Well]_vars
    BY <1>1, SavesInvariant
  <1>3. [Well]_vars => [LinksWell]_vars
    BY DEF SavesWell
  <1> HIDE DEF Well
  <1>4. QED  BY <1>2, <1>3, PTL DEF LinksKept

\* One request at a time, a create, or an update that keeps the workflow id, never makes an
\* acyclic workspace cyclic: with unique ids, a cycle that was not there leads through the
\* saved document, and those are looked for (924-969).
THEOREM GraphStaysAcyclic == Sequential /\ Spec => SavesKeepGraphAcyclic
  <1>1. SUFFICES ASSUME Sequential PROVE Spec => SavesKeepGraphAcyclic
    OBVIOUS
  <1> DEFINE Well == \A w \in Workers : SavesWell(w)
             GraphWell == \A w \in Workers : KeepsAcyclic(w)
  <1>2. Spec => [][Well]_vars
    BY <1>1, SavesInvariant
  <1>3. [Well]_vars => [GraphWell]_vars
    BY DEF SavesWell
  <1> HIDE DEF Well
  <1>4. QED  BY <1>2, <1>3, PTL DEF SavesKeepGraphAcyclic

----
(* The refinement of AtomicWorkspace: until a handler answers, what its    *)
(* request was granted on, in the files it found, stays true (GrantInv),   *)
(* and with IInv, BInv and SaveInv this says what every answer has done.   *)

\* The tag a client sends for r when it has seen the files b.
TagAt(b, r) ==
  CASE r.match = "current" -> b[r.path]
    [] r.match = "stale" -> Stale
    [] r.match = "any" -> AnyTag
    [] r.match = "blank" -> NoTag

\* No workflow of b names p by its path.
NoDependents(b, p) ==
  \A q \in Workflows \ {p} : b[q] # Absent => \A x \in b[q].refs : x.path # p

\* What update and create write at their own path.
OwnNext(b, r) ==
  IF r.op = "update" /\ IdChanges(b, r) /\ r.path \notin Catalogs
  THEN Reidentified(r.content, Scope(r.path), b[r.path].name, r.content.name)
  ELSE r.content

\* The checks that the handler has passed hold of the files it found.
TagGranted(w) ==
  LET j == job[w]  b == job[w].before  r == job[w].req IN
  /\ r \in Requests /\ j.tag = TagAt(b, r)
  /\ r.op \in {"update", "rename", "delete"} /\ pc[w] # "match" =>
       b[r.path] # Absent /\ TagMatches(j.tag, b[r.path])
  /\ r.op = "delete" /\ pc[w] \notin {"match", "impact"} => r.accept \/ NoDependents(b, r.path)
  /\ r.op = "rename" /\ pc[w] \notin {"match", "check"} => b[r.to] = Absent
  /\ r.op = "restore" /\ pc[w] # "check" => j.tag # NoTag /\ b[j.target] = Absent
  /\ r.op = "restore" => j.entry = r.entry
  /\ pc[w] = "cycle" => r.kind = "workflow"

\* What it writes is what the request asks for, with the rewrites it planned.
TextGranted(w) ==
  LET j == job[w]  b == job[w].before  r == job[w].req IN
  /\ r.op = "create" => j.next = r.content
  /\ r.op = "update" /\ pc[w] \notin {"match", "read", "plan"} =>
       j.next = OwnNext(b, r) /\ PlanFits(j.plan, b, r)
  /\ r.op = "rename" /\ pc[w] \notin {"match", "check", "plan"} => PlanFits(j.plan, b, r)
  /\ r.op = "update" /\ pc[w] = "undoDependents" => files[r.path] \in {b[r.path], j.next}

\* The trash entry of a delete or restore that is under way.
TrashGranted(w) ==
  LET j == job[w]  b == job[w].before  r == job[w].req  e == trash[job[w].entry] IN
  /\ r.op = "restore" /\ pc[w] = "move" => e.manifest = j.target
  /\ pc[w] = "cleanup" =>
       files[j.target] # Absent /\ \A q \in Paths \ {j.target} : files[q] = b[q]
  /\ pc[w] = "manifest" => e.manifest = Absent
  /\ r.op = "delete" /\ pc[w] = "undoMove" => e.manifest \in {Absent, Torn}

\* What the request of w was granted on; part of the inductive invariant.
GrantInv(w) == pc[w] # "idle" => TagGranted(w) /\ TextGranted(w) /\ TrashGranted(w)

\* A step of a handler keeps the request it serves, and with it what it set out from.
SameRequest(w) ==
  /\ pc'[w] # "idle" /\ reply' = reply
  /\ job'[w].req = job[w].req /\ job'[w].tag = job[w].tag /\ job'[w].entry = job[w].entry
  /\ job'[w].before = job[w].before /\ job'[w].since = job[w].since

LEMMA StepBusy ==
  ASSUME NEW w, Step(w) PROVE pc[w] # "idle"
  <1>1. Refuse(w) \/ Prepare(w) => pc[w] # "idle"
    BY DEF Refuse, MatchMissing, MatchRefused, Prepare, MatchPassed, ReadExisting, Impact,
       PlanUpdate, PlanRename, Cycle, CheckCreate, CheckUpdate, CheckDelete, CheckRename,
       CheckRestore
  <1>2. Write(w) => pc[w] # "idle"
    BY DEF Write, WritePrimary, WritePrimaryFails, MoveRename, MoveRenameFails,
       WriteDependent, WriteDependentFails, Reread
  <1>3. Undo(w) \/ Trash(w) => pc[w] # "idle"
    BY DEF Undo, UndoPrimary, UndoPrimaryFails, UndoDependent, UndoDependentFails,
       UndoDone, UndoMoveRename, UndoMoveRenameFails, Trash, MoveDelete, MoveDeleteFails,
       WriteManifest, WriteManifestFails, UndoMoveDelete, UndoMoveDeleteFails, MoveRestore,
       MoveRestoreFails, Cleanup, CleanupFails
  <1>4. QED  BY <1>1, <1>2, <1>3 DEF Step

LEMMA StepKeepsRequest ==
  ASSUME TypeOK, NEW w \in Workers, Step(w)
  PROVE  SameRequest(w) \/ \E s : Respond(w, s)
  <1> DEFINE j == job[w]
             SameLocals(k) == /\ k.req = j.req /\ k.tag = j.tag /\ k.entry = j.entry
                              /\ k.before = j.before /\ k.since = j.since
  <1>1. pc[w] # "idle"
    BY StepBusy
  <1>2. j \in Job /\ j.req.op \in Ops /\ pc[w] \in PhasesOf(j.req.op)
    BY <1>1, BusyWorker
  <1>3. /\ SameLocals(j)
        /\ \A x : /\ SameLocals([j EXCEPT !.seen = x]) /\ SameLocals([j EXCEPT !.was = x])
                  /\ SameLocals([j EXCEPT !.target = x]) /\ SameLocals([j EXCEPT !.left = x])
                  /\ SameLocals([j EXCEPT !.plan = x])
        /\ \A x, y : SameLocals([j EXCEPT !.next = x, !.plan = y])
    BY <1>2 DEF Job
  <1> HIDE DEF SameLocals
  <1>4. ASSUME NEW phase, phase # "idle", NEW k, SameLocals(k), Proceed(w, phase, k)
        PROVE  SameRequest(w)
    <2>1. pc'[w] = phase /\ job'[w] = k
      BY <1>4, Proceeded
    <2>2. reply' = reply
      BY <1>4 DEF Proceed
    <2>3. QED  BY <1>4, <2>1, <2>2 DEF SameRequest, SameLocals
  <1>5. CASE Refuse(w)
    BY <1>5 DEF Refuse, MatchMissing, MatchRefused, Answer
  <1>6. CASE Prepare(w)
    <2>1. CASE MatchPassed(w)
      <3>1. pc[w] = "match"
        BY <2>1 DEF MatchPassed
      <3>2. AfterMatch(j.req.op) # "idle"
        BY <1>2, <3>1 DEF AfterMatch, PhasesOf, Ops
      <3>3. QED  BY <1>3, <1>4, <2>1, <3>2 DEF MatchPassed, Continue
    <2>2. CASE ReadExisting(w) \/ Impact(w) \/ PlanRename(w) \/ Cycle(w)
      BY <1>3, <1>4, <2>2 DEF ReadExisting, Impact, PlanRename, Cycle, Answer, Continue
    <2>3. CASE PlanUpdate(w)
      <3>1. \E phase \in {"check", "cycle"} : \E x, y :
              Proceed(w, phase, [j EXCEPT !.next = x, !.plan = y])
        BY <2>3 DEF PlanUpdate, Continue
      <3>2. QED  BY <1>3, <1>4, <3>1
    <2>4. CASE CheckCreate(w) \/ CheckUpdate(w) \/ CheckDelete(w) \/ CheckRename(w)
      BY <1>3, <1>4, <2>4 DEF CheckCreate, CheckUpdate, CheckDelete, CheckRename, Answer, Continue
    <2>5. CASE CheckRestore(w)
      BY <1>3, <1>4, <2>5 DEF CheckRestore, Answer, Continue
    <2>6. QED  BY <1>6, <2>1, <2>2, <2>3, <2>4, <2>5 DEF Prepare
  <1>7. CASE Write(w)
    <2>1. \/ \E s : Respond(w, s)
          \/ \E phase \in Phases \ {"idle"} :
               Proceed(w, phase, j) \/ \E x : Proceed(w, phase, [j EXCEPT !.left = x])
      BY <1>7 DEF Write, WritePrimary, WritePrimaryFails, MoveRename, MoveRenameFails,
         WriteDependent, WriteDependentFails, Reread, Dependents, Answer, Continue, Phases
    <2>2. QED  BY <1>3, <1>4, <2>1
  <1>8. CASE Undo(w)
    <2>1. \/ \E s : Respond(w, s)
          \/ \E phase \in Phases \ {"idle"} :
               Proceed(w, phase, j) \/ \E x : Proceed(w, phase, [j EXCEPT !.left = x])
      BY <1>8 DEF Undo, UndoPrimary, UndoPrimaryFails, UndoDependent, UndoDependentFails,
         UndoDone, UndoMoveRename, UndoMoveRenameFails, Answer, Continue, Phases
    <2>2. QED  BY <1>3, <1>4, <2>1
  <1>9. CASE Trash(w)
    <2>1. \/ \E s : Respond(w, s)
          \/ \E phase \in Phases \ {"idle"} : Proceed(w, phase, j)
      BY <1>9 DEF Trash, MoveDelete, MoveDeleteFails, WriteManifest, WriteManifestFails,
         UndoMoveDelete, UndoMoveDeleteFails, MoveRestore, MoveRestoreFails, Cleanup,
         CleanupFails, Answer, Continue, Phases
    <2>2. QED  BY <1>3, <1>4, <2>1
  <1>10. QED  BY <1>5, <1>6, <1>7, <1>8, <1>9 DEF Step

LEMMA SubmitGrants ==
  ASSUME TypeOK, NEW w \in Workers, Submit(w) PROVE GrantInv(w)'
  <1>1. PICK r \in Requests :
          /\ pc' = [pc EXCEPT ![w] = Start(r)]
          /\ job' = [job EXCEPT ![w] =
               [req |-> r, tag |-> TagOf(r),
                entry |-> IF r.op = "restore" THEN r.entry ELSE served + 1,
                target |-> IF r.op = "rename" THEN r.to ELSE r.path, seen |-> Absent,
                was |-> Absent, next |-> r.content, plan |-> {}, left |-> {}, before |-> files,
                since |-> faults]]
    BY DEF Submit
  <1>2. /\ pc'[w] = Start(r) /\ job'[w].req = r /\ job'[w].plan = {} /\ job'[w].before = files
        /\ job'[w].next = r.content /\ job'[w].tag = TagOf(r)
        /\ r.op = "restore" => job'[w].entry = r.entry
    BY <1>1 DEF TypeOK
  <1>3. r.op \in Ops
    BY InputsAssumption DEF Request
  <1>4. /\ r.op \in {"update", "rename", "delete"} => Start(r) = "match"
        /\ r.op = "create" => Start(r) \in {"cycle", "check"}
        /\ r.op = "restore" => Start(r) = "check"
        /\ Start(r) = "cycle" => r.kind = "workflow"
    BY <1>3 DEF Start, Ops
  <1>5. TagOf(r) = TagAt(files, r)
    BY DEF TagOf, TagAt
  <1>6. TagGranted(w)'
    BY <1>2, <1>3, <1>4, <1>5 DEF TagGranted, Ops
  <1>7. TextGranted(w)' /\ TrashGranted(w)'
    BY <1>2, <1>3, <1>4 DEF TextGranted, TrashGranted, Ops
  <1>8. QED  BY <1>6, <1>7 DEF GrantInv

LEMMA AnsweredGrants ==
  ASSUME TypeOK, NEW w \in Workers, NEW s, Respond(w, s) PROVE GrantInv(w)'
  BY DEF TypeOK, Respond, GrantInv

\* Once a handler writes, the locals it planned stay.
LEMMA LateStep ==
  ASSUME TypeOK, NEW w \in Workers, Write(w) \/ Undo(w) \/ Trash(w)
  PROVE  /\ pc[w] \notin {"idle", "match", "read", "impact", "plan", "cycle", "check"}
         /\ \/ \E s : Respond(w, s)
            \/ /\ SameRequest(w)
               /\ job'[w].next = job[w].next /\ job'[w].plan = job[w].plan
               /\ job'[w].target = job[w].target
               /\ pc'[w] \in {"dependents", "undoPrimary", "undoDependents", "undoMove",
                              "manifest", "cleanup"}
  <1> DEFINE j == job[w]
             late == {"dependents", "undoPrimary", "undoDependents", "undoMove", "manifest",
                      "cleanup"}
             SameLocals(k) == k.next = j.next /\ k.plan = j.plan /\ k.target = j.target
  <1>1. pc[w] \notin {"idle", "match", "read", "impact", "plan", "cycle", "check"}
    <2>1. CASE Write(w)
      BY <2>1 DEF Write, WritePrimary, WritePrimaryFails, MoveRename, MoveRenameFails,
         WriteDependent, WriteDependentFails, Reread
    <2>2. CASE Undo(w)
      BY <2>2 DEF Undo, UndoPrimary, UndoPrimaryFails, UndoDependent, UndoDependentFails,
         UndoDone, UndoMoveRename, UndoMoveRenameFails
    <2>3. CASE Trash(w)
      <3>1. Trash(w) => pc[w] \in {"move", "manifest", "undoMove", "cleanup"}
        BY DEF Trash, MoveDelete, MoveDeleteFails, WriteManifest, WriteManifestFails,
           UndoMoveDelete, UndoMoveDeleteFails, MoveRestore, MoveRestoreFails, Cleanup,
           CleanupFails
      <3>2. QED  BY <2>3, <3>1
    <2>4. QED  BY <2>1, <2>2, <2>3
  <1>2. j \in Job
    BY <1>1, BusyWorker
  <1>3. SameLocals(j) /\ \A x : SameLocals([j EXCEPT !.left = x])
    BY <1>2 DEF Job
  <1>4. \/ \E s : Respond(w, s)
        \/ \E phase \in late :
             Proceed(w, phase, j) \/ \E x : Proceed(w, phase, [j EXCEPT !.left = x])
    <2>1. CASE Write(w)
      BY <2>1 DEF Write, WritePrimary, WritePrimaryFails, MoveRename, MoveRenameFails,
         WriteDependent, WriteDependentFails, Reread, Dependents, Answer, Continue
    <2>2. CASE Undo(w)
      BY <2>2 DEF Undo, UndoPrimary, UndoPrimaryFails, UndoDependent, UndoDependentFails,
         UndoDone, UndoMoveRename, UndoMoveRenameFails, Answer, Continue
    <2>3. CASE Trash(w)
      BY <2>3 DEF Trash, MoveDelete, MoveDeleteFails, WriteManifest, WriteManifestFails,
         UndoMoveDelete, UndoMoveDeleteFails, MoveRestore, MoveRestoreFails, Cleanup,
         CleanupFails, Answer, Continue
    <2>4. QED  BY <2>1, <2>2, <2>3
  <1>5. SameRequest(w) \/ \E s : Respond(w, s)
    BY StepKeepsRequest DEF Step
  <1> HIDE DEF SameLocals
  <1>6. ASSUME NEW phase \in late, NEW k, SameLocals(k), Proceed(w, phase, k),
               ~ \E s : Respond(w, s)
        PROVE  /\ SameRequest(w) /\ SameLocals(job'[w]) /\ pc'[w] \in late
    BY <1>5, <1>6, Proceeded
  <1>7. CASE ~ \E s : Respond(w, s)
    <2>1. SameRequest(w) /\ SameLocals(job'[w]) /\ pc'[w] \in late
      BY <1>3, <1>4, <1>6, <1>7
    <2>2. QED  BY <1>1, <2>1 DEF SameLocals
  <1>8. QED  BY <1>1, <1>7

LEMMA LateGrants ==
  ASSUME IInv, NEW w \in Workers, BInv(w), GrantInv(w), Write(w) \/ Undo(w) \/ Trash(w)
  PROVE  GrantInv(w)'
  <1> DEFINE j == job[w]
             b == job[w].before
             r == job[w].req
             p == job[w].req.path
  <1>1. TypeOK /\ Holds(w)
    BY DEF IInv
  <1>2. CASE \E s : Respond(w, s)
    BY <1>1, <1>2, AnsweredGrants
  <1>3. CASE ~ \E s : Respond(w, s)
    <2>1. /\ pc[w] \notin {"idle", "match", "read", "impact", "plan", "cycle", "check"}
          /\ SameRequest(w)
          /\ job'[w].next = j.next /\ job'[w].plan = j.plan /\ job'[w].target = j.target
          /\ pc'[w] \in {"dependents", "undoPrimary", "undoDependents", "undoMove", "manifest",
                         "cleanup"}
      BY <1>1, <1>3, LateStep
    <2>2. /\ job'[w].req = r /\ job'[w].tag = j.tag /\ job'[w].entry = j.entry
          /\ job'[w].before = b /\ pc'[w] # "idle"
      BY <2>1 DEF SameRequest
    <2>3. TagGranted(w) /\ TextGranted(w) /\ TrashGranted(w)
      BY <2>1 DEF GrantInv
    <2>4. /\ j \in Job /\ r.op \in Ops /\ pc[w] \in PhasesOf(r.op)
          /\ p \in Paths /\ r.to \in Paths /\ j.target \in Paths /\ j.entry \in Entries
          /\ files \in [Paths -> File] /\ trash \in [Entries -> Entry]
      BY <1>1, <2>1, BusyWorker DEF FilesOK
    <2>5. TagGranted(w)'
      BY <2>1, <2>2, <2>3 DEF TagGranted
    <2>6. r.op = "update" /\ pc'[w] = "undoDependents" => files'[p] \in {b[p], j.next}
      <3>1. SUFFICES ASSUME r.op = "update", pc'[w] = "undoDependents"
                     PROVE  files'[p] \in {b[p], j.next}
        OBVIOUS
      <3>2. pc[w] = "undoPrimary" => j.was = b[p] /\ files[p] \in {j.was, j.next}
        BY <1>1, <3>1 DEF BInv, Remembers, Holds, UpdateInv
      <3>3. CASE UndoPrimary(w) \/ UndoPrimaryFails(w)
        BY <2>4, <3>2, <3>3 DEF UndoPrimary, UndoPrimaryFails
      <3>4. ASSUME NEW q \in Paths, UndoDependent(w, q) \/ UndoDependentFails(w, q)
            PROVE  files'[p] \in {b[p], j.next}
        <4>1. pc[w] = "undoDependents" /\ q \in j.left
              /\ (files' = files \/ files' = [files EXCEPT ![q] = RewriteOf(w, q).was])
          BY <3>4 DEF UndoDependent, UndoDependentFails, Nth
        <4>2. q # p
          BY <4>1, RewriteHolds
        <4>3. files[p] \in {b[p], j.next}
          BY <2>3, <3>1, <4>1 DEF TextGranted
        <4>4. QED  BY <2>4, <4>1, <4>2, <4>3
      <3>5. \A phase, k : Proceed(w, phase, k) => phase = "undoDependents"
        BY <1>1, <3>1, Proceeded
      <3>6. Undo(w) => UndoPrimary(w) \/ UndoPrimaryFails(w)
                       \/ \E q \in Paths : UndoDependent(w, q) \/ UndoDependentFails(w, q)
        BY <1>3, <3>1 DEF Undo, UndoDone, UndoMoveRename, UndoMoveRenameFails, Answer
      <3>7. ~Write(w)
        BY <1>3, <2>4, <3>1, <3>5 DEF Write, WritePrimary, WritePrimaryFails, MoveRename,
           MoveRenameFails, WriteDependent, WriteDependentFails, Reread, Dependents, Answer, Continue
      <3>8. ~Trash(w)
        BY <2>4, <3>1 DEF Trash, MoveDelete, MoveDeleteFails, WriteManifest, WriteManifestFails,
         UndoMoveDelete, UndoMoveDeleteFails, MoveRestore, MoveRestoreFails, Cleanup,
         CleanupFails, PhasesOf, Ops
      <3>9. QED  BY <3>3, <3>4, <3>6, <3>7, <3>8
    <2>7. TextGranted(w)'
      BY <2>1, <2>2, <2>3, <2>6 DEF TextGranted
    <2>8. ASSUME pc'[w] = "cleanup"
          PROVE  files'[j.target] # Absent /\ \A q \in Paths \ {j.target} : files'[q] = b[q]
      <3>1. \A phase, k : Proceed(w, phase, k) => phase = "cleanup"
        BY <1>1, <2>8, Proceeded
      <3>2. MoveRestore(w)
        <4>1. ~Write(w)
          BY <1>3, <3>1 DEF Write, WritePrimary, WritePrimaryFails, MoveRename, MoveRenameFails,
             WriteDependent, WriteDependentFails, Reread, Dependents, Answer, Continue
        <4>2. ~Undo(w)
          BY <1>3, <3>1 DEF Undo, UndoPrimary, UndoPrimaryFails, UndoDependent,
             UndoDependentFails, UndoDone, UndoMoveRename, UndoMoveRenameFails, Answer, Continue
        <4>3. ~(MoveDelete(w) \/ MoveDeleteFails(w) \/ WriteManifest(w) \/ WriteManifestFails(w))
          BY <1>3, <3>1 DEF MoveDelete, MoveDeleteFails, WriteManifest, WriteManifestFails,
             Answer, Continue
        <4>4. ~(UndoMoveDelete(w) \/ UndoMoveDeleteFails(w) \/ MoveRestoreFails(w) \/ Cleanup(w)
                  \/ CleanupFails(w))
          BY <1>3 DEF UndoMoveDelete, UndoMoveDeleteFails, MoveRestoreFails, Cleanup,
             CleanupFails, Answer
        <4>5. QED  BY <4>1, <4>2, <4>3, <4>4 DEF Trash
      <3>3. /\ trash[j.entry].payload # Absent
            /\ files' = [files EXCEPT ![j.target] = trash[j.entry].payload]
            /\ pc[w] = "move"
        BY <1>3, <3>2 DEF MoveRestore, Answer
      <3>4. files = b
        BY <2>1, <3>3 DEF BInv, Early
      <3>5. QED  BY <2>4, <3>3, <3>4
    <2>9. /\ pc'[w] = "manifest" => trash'[j.entry].manifest = Absent
          /\ r.op = "delete" /\ pc'[w] = "undoMove" =>
               trash'[j.entry].manifest \in {Absent, Torn}
      <3>1. SUFFICES ASSUME pc'[w] = "manifest" \/ (r.op = "delete" /\ pc'[w] = "undoMove")
                     PROVE  trash'[j.entry].manifest
                              \in IF pc'[w] = "manifest" THEN {Absent} ELSE {Absent, Torn}
        OBVIOUS
      <3>2. \A phase, k : Proceed(w, phase, k) => phase = pc'[w]
        BY <1>1, Proceeded
      <3>3. MoveDelete(w) \/ MoveDeleteFails(w) \/ WriteManifestFails(w)
        <4>1. ~Write(w)
          BY <1>3, <3>1, <3>2 DEF Write, WritePrimary, WritePrimaryFails, MoveRename, MoveRenameFails,
           WriteDependent, WriteDependentFails, Reread, Dependents, Answer, Continue
        <4>2. ~Undo(w)
          <5>1. Undo(w) => pc'[w] # "manifest"
            BY <1>3, <3>2 DEF Undo, UndoPrimary,
             UndoPrimaryFails, UndoDependent, UndoDependentFails, UndoDone, UndoMoveRename,
             UndoMoveRenameFails, Answer, Continue
          <5>2. r.op = "delete" => ~Undo(w)
            BY <2>4 DEF Undo, UndoPrimary,
             UndoPrimaryFails, UndoDependent, UndoDependentFails, UndoDone, UndoMoveRename,
             UndoMoveRenameFails, PhasesOf
          <5>3. QED  BY <3>1, <5>1, <5>2
        <4>3. Trash(w) => MoveDelete(w) \/ MoveDeleteFails(w) \/ WriteManifestFails(w)
          BY <1>3, <3>1, <3>2 DEF Trash, WriteManifest,
           UndoMoveDelete, UndoMoveDeleteFails, MoveRestore, MoveRestoreFails, Cleanup,
           CleanupFails, Answer, Continue
        <4>4. QED  BY <4>1, <4>2, <4>3
      <3>4. CASE MoveDelete(w) \/ MoveDeleteFails(w)
        <4>1. trash[j.entry] = NoEntry
          BY <1>1, <3>4 DEF Holds, DeleteInv, MoveDelete, MoveDeleteFails
        <4>2. trash' = trash \/ trash' = [trash EXCEPT ![j.entry].payload = files[p]]
          BY <3>4 DEF MoveDelete, MoveDeleteFails
        <4>3. QED  BY <2>4, <4>1, <4>2 DEF NoEntry, Entry
      <3>5. CASE WriteManifestFails(w)
        <4>1. PICK m \in {Absent, Torn} : trash' = [trash EXCEPT ![j.entry].manifest = m]
          BY <3>5 DEF WriteManifestFails
        <4>2. trash'[j.entry].manifest = m
          BY <2>4, <4>1 DEF Entry
        <4>3. pc'[w] = "undoMove"
          BY <3>2, <3>5 DEF WriteManifestFails
        <4>4. QED  BY <4>1, <4>2, <4>3
      <3>6. QED  BY <3>3, <3>4, <3>5
    <2>10. TrashGranted(w)'
      BY <2>1, <2>2, <2>8, <2>9 DEF TrashGranted
    <2>11. QED  BY <2>5, <2>7, <2>10 DEF GrantInv
  <1>4. QED  BY <1>2, <1>3

LEMMA PrepareGrants ==
  ASSUME IInv, NEW w \in Workers, BInv(w), SaveInv(w), GrantInv(w), Refuse(w) \/ Prepare(w)
  PROVE  GrantInv(w)'
  <1> DEFINE j == job[w]
             b == job[w].before
             r == job[w].req
             p == job[w].req.path
  <1>1. /\ pc[w] \in Early /\ TypeOK /\ files' = files /\ trash' = trash /\ pc[w] # "idle"
        /\ pc[w] \notin {"write", "move"}
    BY DEF IInv, Early, Refuse, MatchMissing, MatchRefused, Prepare, MatchPassed, ReadExisting,
       Impact, PlanUpdate, PlanRename, Cycle, CheckCreate, CheckUpdate, CheckDelete, CheckRename,
       CheckRestore, Answer, Continue
  <1>2. /\ j \in Job /\ r \in Request /\ r.op \in Ops /\ pc[w] \in PhasesOf(r.op)
        /\ p \in Paths /\ b \in [Paths -> File]
    BY <1>1, BusyWorker DEF Job
  <1>3. /\ files = b /\ (r.op = "update" /\ pc[w] = "plan" => j.was = b[p])
    BY <1>1 DEF BInv, Remembers
  <1>4. TagGranted(w) /\ TextGranted(w) /\ TrashGranted(w)
    BY <1>1 DEF GrantInv
  <1>5. ASSUME NEW s, Respond(w, s) PROVE GrantInv(w)'
    BY <1>1, <1>5, AnsweredGrants
  <1>6. SaveInv(w)'
    BY PrepareSaves
  \* What a step that goes on has to show.
  <1>7. ASSUME NEW phase \in {"read", "impact", "check", "plan", "cycle", "write", "move"},
               NEW k, Proceed(w, phase, k),
               k.req = r, k.tag = j.tag, k.before = b, k.entry = j.entry,
               phase \in PhasesOf(r.op),
               pc[w] # "match" \/ (b[p] # Absent /\ TagMatches(j.tag, b[p])),
               r.op = "delete" /\ phase \in {"check", "move"} => r.accept \/ NoDependents(b, p),
               r.op = "rename" /\ phase \in {"plan", "move"} => b[r.to] = Absent,
               r.op = "restore" /\ phase # "check" =>
                 j.tag # NoTag /\ b[k.target] = Absent /\ trash[j.entry].manifest = k.target,
               r.op = "create" => k.next = r.content,
               r.op = "update" /\ phase \in {"cycle", "check", "write"} => k.next = OwnNext(b, r),
               phase = "cycle" => r.kind = "workflow"
        PROVE  GrantInv(w)'
    <2>1. pc'[w] = phase /\ job'[w] = k
      BY <1>1, <1>7, Proceeded
    <2>2. /\ r.op = "delete" => phase \in {"impact", "check", "move"}
          /\ r.op = "rename" => phase \in {"check", "plan", "move"}
      BY <1>7 DEF PhasesOf
    <2>3. TagGranted(w)'
      BY <1>4, <1>7, <2>1, <2>2 DEF TagGranted
    <2>4. r.op = "update" /\ phase \in {"cycle", "check", "write"} => PlanFits(k.plan, b, r)
      BY <1>6, <1>7, <2>1 DEF SaveInv, HasPlan
    <2>5. r.op = "rename" /\ phase = "move" => PlanFits(k.plan, b, r)
      BY <1>6, <1>7, <2>1 DEF SaveInv, HasPlan
    <2>6. r.op = "update" => phase \in {"read", "plan", "cycle", "check", "write"}
      BY <1>7 DEF PhasesOf
    <2>7. TextGranted(w)'
      BY <1>7, <2>1, <2>2, <2>4, <2>5, <2>6 DEF TextGranted
    <2>8. r.op = "restore" => phase \in {"check", "move"}
      BY <1>7 DEF PhasesOf
    <2>9. TrashGranted(w)'
      BY <1>1, <1>7, <2>1, <2>8 DEF TrashGranted
    <2>10. QED  BY <2>3, <2>7, <2>9 DEF GrantInv
  <1>8. CASE MatchPassed(w)
    <2> DEFINE k == [j EXCEPT !.seen = files[p]]
    <2>1. /\ pc[w] = "match" /\ files[p] # Absent /\ TagMatches(j.tag, files[p])
          /\ Proceed(w, AfterMatch(r.op), k)
      BY <1>8 DEF MatchPassed, Continue
    <2>2. k.req = r /\ k.tag = j.tag /\ k.before = b /\ k.entry = j.entry /\ k.next = j.next
      BY <1>2, JobFields
    <2> HIDE DEF k
    <2>3. r.op \in {"update", "rename", "delete"}
      BY <1>2, <2>1 DEF PhasesOf, Ops
    <2>4. CASE r.op = "update"
      <3>1. AfterMatch(r.op) = "read" /\ "read" \in PhasesOf(r.op)
        BY <2>4 DEF AfterMatch, PhasesOf
      <3>2. QED  BY <1>3, <1>7, <2>1, <2>2, <2>4, <3>1
    <2>5. CASE r.op = "rename"
      <3>1. AfterMatch(r.op) = "check" /\ "check" \in PhasesOf(r.op)
        BY <2>5 DEF AfterMatch, PhasesOf
      <3>2. QED  BY <1>3, <1>7, <2>1, <2>2, <2>5, <3>1
    <2>6. CASE r.op = "delete"
      <3>1. AfterMatch(r.op) = "impact" /\ "impact" \in PhasesOf(r.op)
        BY <2>6 DEF AfterMatch, PhasesOf
      <3>2. QED  BY <1>3, <1>7, <2>1, <2>2, <2>6, <3>1
    <2>7. QED  BY <2>3, <2>4, <2>5, <2>6
  <1>9. CASE ReadExisting(w)
    <2> DEFINE k == [j EXCEPT !.was = files[p]]
    <2>1. pc[w] = "read" /\ ((\E s : Respond(w, s)) \/ Proceed(w, "plan", k))
      BY <1>9 DEF ReadExisting, Answer, Continue
    <2>2. k.req = r /\ k.tag = j.tag /\ k.before = b /\ k.entry = j.entry
      BY <1>2, JobFields
    <2> HIDE DEF k
    <2>3. r.op = "update" /\ "plan" \in PhasesOf(r.op)
      BY <1>2, <2>1 DEF PhasesOf, Ops
    <2>4. QED  BY <1>5, <1>7, <2>1, <2>2, <2>3
  <1>10. CASE Impact(w)
    <2>1. /\ pc[w] = "impact"
          /\ \/ \E s : Respond(w, s)
             \/ Proceed(w, "check", j) /\ (r.accept \/ ReferencesTo(p) = {})
      BY <1>10 DEF Impact, Answer, Continue
    <2>2. r.op = "delete" /\ "check" \in PhasesOf(r.op)
      BY <1>2, <2>1 DEF PhasesOf, Ops
    <2>3. ReferencesTo(p) = {} => NoDependents(b, p)
      BY <1>3 DEF ReferencesTo, NoDependents
    <2>4. QED  BY <1>5, <1>7, <2>1, <2>2, <2>3
  <1>11. CASE Cycle(w)
    <2>1. pc[w] = "cycle" /\ ((\E s : Respond(w, s)) \/ Proceed(w, "check", j))
      BY <1>11 DEF Cycle, Answer, Continue
    <2>2. r.op \in {"create", "update"} /\ "check" \in PhasesOf(r.op)
      BY <1>2, <2>1 DEF PhasesOf, Ops
    <2>3. QED  BY <1>4, <1>5, <1>7, <2>1, <2>2 DEF TextGranted
  <1>12. CASE CheckCreate(w) \/ CheckUpdate(w)
    <2>1. /\ pc[w] = "check" /\ r.op \in {"create", "update"}
          /\ (\E s : Respond(w, s)) \/ Proceed(w, "write", j)
      BY <1>12 DEF CheckCreate, CheckUpdate, Answer, Continue
    <2>2. "write" \in PhasesOf(r.op)
      BY <2>1 DEF PhasesOf
    <2>3. QED  BY <1>4, <1>5, <1>7, <2>1, <2>2 DEF TextGranted
  <1>13. CASE CheckDelete(w)
    <2>1. /\ pc[w] = "check" /\ r.op = "delete"
          /\ (\E s : Respond(w, s)) \/ Proceed(w, "move", j)
      BY <1>13 DEF CheckDelete, Answer, Continue
    <2>2. "move" \in PhasesOf(r.op)
      BY <2>1 DEF PhasesOf
    <2>3. r.accept \/ NoDependents(b, p)
      BY <1>4, <2>1 DEF TagGranted
    <2>4. QED  BY <1>5, <1>7, <2>1, <2>2, <2>3
  <1>14. CASE CheckRename(w)
    <2>1. /\ pc[w] = "check" /\ r.op = "rename"
          /\ (\E s : Respond(w, s)) \/ (Proceed(w, "plan", j) /\ files[r.to] = Absent)
      BY <1>14 DEF CheckRename, Answer, Continue, Free
    <2>2. "plan" \in PhasesOf(r.op)
      BY <2>1 DEF PhasesOf
    <2>3. QED  BY <1>3, <1>5, <1>7, <2>1, <2>2
  <1>15. CASE CheckRestore(w)
    <2> DEFINE e == trash[j.entry]
               k == [j EXCEPT !.target = e.manifest]
    <2>1. /\ pc[w] = "check" /\ r.op = "restore"
          /\ \/ \E s : Respond(w, s)
             \/ Proceed(w, "move", k) /\ j.tag # NoTag /\ files[e.manifest] = Absent
      BY <1>15 DEF CheckRestore, Answer, Continue, Free
    <2>2. /\ k.req = r /\ k.tag = j.tag /\ k.before = b /\ k.entry = j.entry
          /\ k.target = e.manifest
      BY <1>2, JobFields
    <2> HIDE DEF k
    <2>3. "move" \in PhasesOf(r.op)
      BY <2>1 DEF PhasesOf
    <2>4. QED  BY <1>3, <1>5, <1>7, <2>1, <2>2, <2>3
  <1>16. CASE PlanUpdate(w)
    <2> DEFINE old == j.was.name
               new == r.content.name
               scope == IF p \in Catalogs THEN p ELSE NoPath
               renamed == old # NoName /\ new # NoName /\ old # new
               next == IF renamed /\ p \notin Catalogs
                       THEN Reidentified(r.content, scope, old, new) ELSE r.content
               phase == IF p \in Catalogs THEN "check" ELSE "cycle"
    <2>1. PICK plan : /\ pc[w] = "plan" /\ r.op = "update"
                      /\ Proceed(w, phase, [j EXCEPT !.next = next, !.plan = plan])
      BY <1>16 DEF PlanUpdate, Continue
    <2>2. old = b[p].name /\ scope = Scope(p) /\ (renamed <=> IdChanges(b, r))
      BY <1>3, <2>1 DEF Scope, IdChanges
    <2>3. next = OwnNext(b, r)
      BY <2>1, <2>2 DEF OwnNext
    <2>4. phase \in {"check", "cycle"} /\ phase \in PhasesOf(r.op)
      BY <2>1 DEF PhasesOf
    <2>5. phase = "cycle" => r.kind = "workflow"
      BY <1>1, <2>1 DEF SaveInv, KindOf
    <2> DEFINE k == [j EXCEPT !.next = next, !.plan = plan]
    <2> HIDE DEF next, phase
    <2>6. k.req = r /\ k.tag = j.tag /\ k.before = b /\ k.entry = j.entry /\ k.next = next
      BY <1>2 DEF Job
    <2>7. Proceed(w, phase, k)
      BY <2>1
    <2> HIDE DEF k
    <2>8. QED  BY <1>7, <2>1, <2>3, <2>4, <2>5, <2>6, <2>7
  <1>17. CASE PlanRename(w)
    <2>1. PICK plan : /\ pc[w] = "plan" /\ r.op = "rename"
                      /\ Proceed(w, "move", [j EXCEPT !.plan = plan])
      BY <1>17 DEF PlanRename, Continue
    <2> DEFINE k == [j EXCEPT !.plan = plan]
    <2>2. k.req = r /\ k.tag = j.tag /\ k.before = b /\ k.entry = j.entry
      BY <1>2, JobFields
    <2>3. Proceed(w, "move", k)
      BY <2>1
    <2> HIDE DEF k
    <2>4. "move" \in PhasesOf(r.op) /\ b[r.to] = Absent
      BY <1>4, <2>1 DEF PhasesOf, TagGranted
    <2>5. QED  BY <1>7, <2>1, <2>2, <2>3, <2>4
  <1>18. CASE Refuse(w)
    <2>1. \E s : Respond(w, s)
      BY <1>18 DEF Refuse, MatchMissing, MatchRefused, Answer
    <2>2. QED  BY <1>5, <2>1
  <1>19. QED  BY <1>8, <1>9, <1>10, <1>11, <1>12, <1>13, <1>14, <1>15, <1>16, <1>17, <1>18
              DEF Prepare

LEMMA StepGrants ==
  ASSUME IInv, NEW w \in Workers, BInv(w), SaveInv(w), GrantInv(w), Submit(w) \/ Step(w)
  PROVE  GrantInv(w)'
  <1>1. TypeOK
    BY DEF IInv
  <1>2. QED  BY <1>1, SubmitGrants, PrepareGrants, LateGrants DEF Step

----
(* The atomic workspace, read at a handler that serves request r and found *)
(* the files b.                                                            *)

LEMMA FollowIs ==
  ASSUME NEW r \in Request, NEW b \in [Paths -> File], SeenFiles = b, NEW c \in Content
  PROVE  Workspace!Follow(r, c) =
           IF r.op = "rename" THEN Repointed(c, r.path, r.to)
           ELSE IF r.op = "update" /\ IdChanges(b, r)
                THEN Reidentified(c, Scope(r.path), b[r.path].name, r.content.name)
                ELSE c
  <1> DEFINE p == r.path
             s == Scope(r.path)
             n == b[r.path].name
             m == r.content.name
             followed == {Workspace!Redirect(r, c, x) : x \in c.refs}
  <1>1. Workspace!Follow(r, c) = [c EXCEPT !.refs = followed]
    BY DEF Workspace!Follow
  <1>2. /\ c.refs \in SUBSET Refs /\ p \in Paths /\ NoPath \notin Paths
        /\ AliasTails \subseteq Catalogs \X Catalogs /\ Catalogs \subseteq Paths
    BY PathsAssumption, SplicesAssumption DEF Content, Request
  <1>3. Workspace!IdChanges(r) <=> r.op = "update" /\ IdChanges(b, r)
    BY DEF Workspace!IdChanges, IdChanges
  <1>4. CASE r.op = "rename"
    <2> DEFINE moved == {[x EXCEPT !.path = PathAfter(x, p, r.to)] : x \in c.refs}
    <2>1. ASSUME NEW x \in c.refs
          PROVE  Workspace!Redirect(r, c, x) = [x EXCEPT !.path = PathAfter(x, p, r.to)]
      <3>1. x \in Refs /\ [x EXCEPT !.path = x.path] = x
        BY <1>2 DEF Refs
      <3>2. CASE x.path # NoPath /\ "path" \in x.found
        <4>1. Workspace!NewPath(r, x) = PathAfter(x, p, r.to)
          BY <3>2 DEF Workspace!NewPath, PathAfter
        <4>2. QED  BY <1>4, <3>2, <4>1 DEF Workspace!Redirect
      <3>3. CASE x.path = NoPath \/ "path" \notin x.found
        <4>1. PathAfter(x, p, r.to) = x.path /\ ~Workspace!IdChanges(r)
          BY <1>3, <1>4, <3>3 DEF PathAfter
        <4>2. QED  BY <3>1, <3>3, <4>1 DEF Workspace!Redirect
      <3>4. QED  BY <3>2, <3>3
    <2>2. followed = moved
      BY <2>1
    <2>3. QED  BY <1>1, <1>4, <2>2 DEF Repointed
  <1>5. CASE r.op = "update" /\ IdChanges(b, r)
    <2> DEFINE named(x) == IF LooksAt(c, s, x) THEN [x EXCEPT !.name = NameAfter(x, s, n, m)] ELSE x
               renamed == {named(x) : x \in c.refs}
    <2>1. ASSUME NEW x \in c.refs PROVE Workspace!Redirect(r, c, x) = named(x)
      <3>1. (s # NoPath <=> p \in Catalogs) /\ NoPath \notin Catalogs
        BY <1>2 DEF Scope
      <3>2. Workspace!Reaches(r, c, x) /\ "name" \in x.found <=> LooksAt(c, s, x)
        BY <1>2, <3>1 DEF Workspace!Reaches, LooksAt, Scope
      <3>3. Workspace!NewName(r, x) = NameAfter(x, s, n, m)
        BY <3>1 DEF Workspace!NewName, NameAfter
      <3>4. QED  BY <1>3, <1>5, <3>2, <3>3 DEF Workspace!Redirect
    <2> HIDE DEF named
    <2>2. followed = renamed
      BY <2>1
    <2>3. QED  BY <1>1, <1>5, <2>2 DEF Reidentified, named
  <1>6. CASE r.op # "rename" /\ ~(r.op = "update" /\ IdChanges(b, r))
    <2>1. \A x \in c.refs : Workspace!Redirect(r, c, x) = x
      BY <1>3, <1>6 DEF Workspace!Redirect
    <2>2. followed = c.refs
      BY <2>1
    <2>3. [c EXCEPT !.refs = c.refs] = c
      BY DEF Content
    <2>4. QED  BY <1>1, <1>6, <2>2, <2>3
  <1>7. QED  BY <1>4, <1>5, <1>6

\* What the request makes of the other documents.
LEMMA AfterOthers ==
  ASSUME NEW r \in Request, NEW b \in [Paths -> File], SeenFiles = b, NEW q \in Paths,
         r.op # "restore" => q # r.path, r.op = "rename" => q # r.to,
         r.op = "restore" => q # SeenTrash[r.entry].manifest
  PROVE  Workspace!After(r, q) = IF q \in Workflows THEN Becomes(b, r, q) ELSE b[q]
  <1>1. ~Workspace!Changes(r, q) /\ ~Workspace!MovesTo(r, q) /\ ~Workspace!PutsBack(r, q)
    BY DEF Workspace!Changes, Workspace!MovesTo, Workspace!PutsBack
  <1>2. Workspace!After(r, q) =
          IF b[q] = Absent \/ q \in Catalogs THEN b[q] ELSE Workspace!Follow(r, b[q])
    BY <1>1 DEF Workspace!After
  <1>3. b[q] # Absent => b[q] \in Content
    BY DEF File
  <1>4. q \in Workflows <=> q \notin Catalogs
    BY DEF Workflows
  <1>5. b[q] # Absent => Workspace!Follow(r, b[q]) = Becomes(b, r, q)
    BY <1>3, FollowIs DEF Becomes
  <1>6. QED  BY <1>2, <1>4, <1>5 DEF Becomes

\* What it makes of its own documents.
LEMMA AfterOwn ==
  ASSUME NEW r \in Request, NEW b \in [Paths -> File], SeenFiles = b
  PROVE  /\ r.op \in {"create", "update"} => Workspace!After(r, r.path) = OwnNext(b, r)
         /\ r.op \in {"rename", "delete"} => Workspace!After(r, r.path) = Absent
         /\ r.op = "rename" /\ r.to # r.path => Workspace!After(r, r.to) = b[r.path]
         /\ \A q : r.op = "restore" /\ q = SeenTrash[r.entry].manifest =>
                     Workspace!After(r, q) = SeenTrash[r.entry].payload
  <1>1. r.content \in Content
    BY DEF Request
  <1>2. r.op # "restore" => Workspace!After(r, r.path) = Workspace!OwnAfter(r)
    BY DEF Workspace!After, Workspace!Changes
  <1>3. r.op = "create" => Workspace!OwnAfter(r) = OwnNext(b, r)
    BY DEF Workspace!OwnAfter, OwnNext
  <1>4. r.op = "update" => Workspace!OwnAfter(r) = OwnNext(b, r)
    <2>1. ASSUME r.op = "update"
          PROVE  Workspace!OwnAfter(r) =
                   IF r.path \in Catalogs THEN r.content ELSE Workspace!Follow(r, r.content)
      BY <2>1 DEF Workspace!OwnAfter
    <2>2. QED  BY <1>1, <2>1, FollowIs DEF OwnNext
  <1>5. r.op \in {"rename", "delete"} => Workspace!OwnAfter(r) = Absent
    BY DEF Workspace!OwnAfter
  <1>6. r.op = "rename" /\ r.to # r.path => Workspace!After(r, r.to) = b[r.path]
    BY DEF Workspace!After, Workspace!Changes, Workspace!MovesTo
  <1>7. \A q : r.op = "restore" /\ q = SeenTrash[r.entry].manifest =>
                 Workspace!After(r, q) = SeenTrash[r.entry].payload
    BY DEF Workspace!After, Workspace!Changes, Workspace!MovesTo, Workspace!PutsBack
  <1>8. QED  BY <1>2, <1>3, <1>4, <1>5, <1>6, <1>7

\* The If-Match of a request says what its client knows of the document.
LEMMA TagSays ==
  ASSUME NEW r \in Request, NEW b \in [Paths -> File], NEW tag, tag = TagAt(b, r)
  PROVE  /\ b[r.path] # Absent /\ TagMatches(tag, b[r.path]) => r.match \in {"current", "any"}
         /\ ~TagMatches(tag, b[r.path]) => r.match \in {"stale", "blank"}
         /\ tag = NoTag <=> r.match = "blank"
  <1>1. r.match \in {"current", "stale", "any", "blank"} /\ b[r.path] \in File
    BY DEF Request
  <1>2. /\ r.match = "current" => tag = b[r.path]
        /\ r.match = "stale" => tag = Stale
        /\ r.match = "any" => tag = AnyTag
        /\ r.match = "blank" => tag = NoTag
    BY DEF TagAt
  <1>3. /\ AnyTag \notin Content /\ Stale \notin Content /\ NoTag \notin Content
        /\ Absent \notin {Stale, AnyTag, NoTag} /\ AnyTag \notin {NoTag, Stale} /\ Stale # NoTag
    BY SpecialsAssumption
  <1>4. QED  BY <1>1, <1>2, <1>3 DEF TagMatches, File

LEMMA SeenBusy ==
  ASSUME NEW w, w = Client, pc[w] # "idle"
  PROVE  /\ SeenFiles = job[w].before /\ SeenRequest = job[w].req
         /\ SeenSince = job[w].since
  BY DEF SeenFiles, SeenRequest, SeenSince

LEMMA SeenAnswered ==
  ASSUME TypeOK, NEW w \in Workers, w = Client, NEW s, Respond(w, s)
  PROVE  /\ pc'[w] = "idle" /\ reply'[w] = s
         /\ SeenFiles' = files' /\ SeenRequest' = NoJob /\ SeenSince' = 0
  <1>1. pc'[w] = "idle" /\ reply'[w] = s
    BY DEF TypeOK, Respond
  <1>2. Client' = Client
    BY DEF Client
  <1>3. QED  BY <1>1, <1>2 DEF SeenFiles, SeenRequest, SeenSince

LEMMA SeenProceeds ==
  ASSUME TypeOK, NEW w \in Workers, w = Client, Step(w), SameRequest(w)
  PROVE  /\ SeenFiles' = SeenFiles /\ SeenRequest' = SeenRequest /\ SeenSince' = SeenSince
         /\ reply' = reply
  <1>1. pc[w] # "idle" /\ pc'[w] # "idle" /\ job'[w].before = job[w].before
        /\ job'[w].req = job[w].req /\ job'[w].since = job[w].since
    BY StepBusy DEF SameRequest
  <1>2. Client' = Client
    BY DEF Client
  <1>3. SeenFiles' = SeenFiles /\ SeenRequest' = SeenRequest /\ SeenSince' = SeenSince
    BY <1>1, <1>2 DEF SeenFiles, SeenRequest, SeenSince
  <1>4. QED  BY <1>3 DEF SameRequest

LEMMA FaultsOnce ==
  ASSUME NEW w, Step(w) PROVE faults' = faults \/ faults' = faults + 1
  <1>1. Refuse(w) \/ Prepare(w) => faults' = faults
    BY DEF Refuse, MatchMissing, MatchRefused, Prepare, MatchPassed, ReadExisting, Impact,
       PlanUpdate, PlanRename, Cycle, CheckCreate, CheckUpdate, CheckDelete, CheckRename,
       CheckRestore, Answer, Continue
  <1>2. Write(w) => faults' = faults \/ faults' = faults + 1
    BY DEF Write, WritePrimary, WritePrimaryFails, MoveRename, MoveRenameFails,
       WriteDependent, WriteDependentFails, Reread, Dependents, Answer, Continue, Fault
  <1>3. Undo(w) => faults' = faults \/ faults' = faults + 1
    BY DEF Undo, UndoPrimary, UndoPrimaryFails, UndoDependent, UndoDependentFails,
       UndoDone, UndoMoveRename, UndoMoveRenameFails, Answer, Continue, Fault
  <1>4. Trash(w) => faults' = faults \/ faults' = faults + 1
    BY DEF Trash, MoveDelete, MoveDeleteFails, WriteManifest, WriteManifestFails,
       UndoMoveDelete, UndoMoveDeleteFails, MoveRestore, MoveRestoreFails, Cleanup,
       CleanupFails, Answer, Continue, Fault
  <1>5. QED  BY <1>1, <1>2, <1>3, <1>4 DEF Step

----
(* The trash a client sees: the entries with a payload, but for the one    *)
(* its handler is working on.                                              *)

\* A trash entry as it is listed: one without a payload is not.
Recovered(e) == IF e.payload = Absent THEN NoEntry ELSE e

\* The handler of w keeps the entry t to itself.
Working(w, t) ==
  /\ job[w].entry = t
  /\ pc[w] = "cleanup" \/ (pc[w] \in {"manifest", "undoMove"} /\ job[w].req.op = "delete")

LEMMA SeenEntryIs ==
  ASSUME NEW w, w = Client, NEW t
  PROVE  /\ ~Working(w, t) => SeenEntry(t) = Recovered(trash[t])
         /\ Working(w, t) /\ pc[w] # "cleanup" => SeenEntry(t) = NoEntry
         /\ Working(w, t) /\ pc[w] = "cleanup" =>
              SeenEntry(t) = [payload |-> files[job[w].target], manifest |-> job[w].target]
  BY DEF SeenEntry, Recovered, Working

LEMMA SeenEntryIsNext ==
  ASSUME NEW w, w = Client, NEW t
  PROVE  /\ ~Working(w, t)' => SeenEntry(t)' = Recovered(trash'[t])
         /\ Working(w, t)' /\ pc'[w] # "cleanup" => SeenEntry(t)' = NoEntry
         /\ Working(w, t)' /\ pc'[w] = "cleanup" =>
              SeenEntry(t)' = [payload |-> files'[job'[w].target], manifest |-> job'[w].target]
  <1>1. Client' = Client
    BY DEF Client
  <1>2. QED  BY <1>1 DEF SeenEntry, Recovered, Working

\* Only the handlers of the trash touch it.
LEMMA TrashAside ==
  ASSUME TypeOK, NEW w \in Workers, SameRequest(w), Refuse(w) \/ Prepare(w) \/ Write(w) \/ Undo(w)
  PROVE  /\ trash' = trash
         /\ pc[w] \notin {"cleanup", "manifest", "undoMove"} /\ pc'[w] \notin {"cleanup", "manifest"}
         /\ pc'[w] = "undoMove" => job[w].req.op # "delete"
  <1> DEFINE r == job[w].req
  <1>1. pc[w] # "idle" /\ pc'[w] # "idle"
    BY StepBusy DEF Step, SameRequest
  <1>2. r.op \in Ops /\ pc[w] \in PhasesOf(r.op)
    BY <1>1, BusyWorker
  <1>3. /\ \A s : ~Respond(w, s)
        /\ \A phase, k : Proceed(w, phase, k) => phase = pc'[w]
    BY <1>1 DEF TypeOK, Respond, Proceed
  <1>4. CASE Refuse(w)
    BY <1>3, <1>4 DEF Refuse, MatchMissing, MatchRefused, Answer
  <1>5. CASE Prepare(w)
    <2>1. /\ trash' = trash
          /\ pc[w] \in {"match", "read", "impact", "plan", "cycle", "check"}
      BY <1>5 DEF Prepare, MatchPassed, ReadExisting, Impact, PlanUpdate, PlanRename, Cycle,
         CheckCreate, CheckUpdate, CheckDelete, CheckRename, CheckRestore
    <2>2. MatchPassed(w) => pc'[w] \in {"read", "check", "impact"}
      <3>1. ASSUME MatchPassed(w) PROVE pc'[w] = AfterMatch(r.op) /\ pc[w] = "match"
        BY <1>3, <3>1 DEF MatchPassed, Continue
      <3>2. pc[w] = "match" => AfterMatch(r.op) \in {"read", "check", "impact"}
        BY <1>2 DEF AfterMatch, PhasesOf, Ops
      <3>3. QED  BY <3>1, <3>2
    <2>3. ~MatchPassed(w) => pc'[w] \in {"plan", "check", "cycle", "write", "move"}
      <3>1. ReadExisting(w) \/ Impact(w) \/ PlanUpdate(w) \/ PlanRename(w) \/ Cycle(w)
              => pc'[w] \in {"plan", "check", "cycle", "write", "move"}
        BY <1>3 DEF ReadExisting, Impact, PlanUpdate, PlanRename, Cycle, Answer, Continue
      <3>2. CheckCreate(w) \/ CheckUpdate(w) \/ CheckDelete(w) \/ CheckRename(w)
              => pc'[w] \in {"plan", "check", "cycle", "write", "move"}
        BY <1>3 DEF CheckCreate, CheckUpdate, CheckDelete, CheckRename, Answer, Continue
      <3>3. CheckRestore(w) => pc'[w] \in {"plan", "check", "cycle", "write", "move"}
        BY <1>3 DEF CheckRestore, Answer, Continue
      <3>4. QED  BY <1>5, <3>1, <3>2, <3>3 DEF Prepare
    <2>4. QED  BY <2>1, <2>2, <2>3
  <1>6. CASE Write(w)
    <2>1. trash' = trash /\ pc[w] \in {"write", "move", "dependents"}
      BY <1>6 DEF Write, WritePrimary, WritePrimaryFails, MoveRename, MoveRenameFails,
         WriteDependent, WriteDependentFails, Reread
    <2>2. pc'[w] \in {"dependents", "undoPrimary", "undoDependents"}
      BY <1>3, <1>6 DEF Write, WritePrimary, WritePrimaryFails, MoveRename, MoveRenameFails,
         WriteDependent, WriteDependentFails, Reread, Dependents, Answer, Continue
    <2>3. QED  BY <2>1, <2>2
  <1>7. CASE Undo(w)
    <2>1. ~UndoMoveRename(w) /\ ~UndoMoveRenameFails(w)
      BY <1>3 DEF UndoMoveRename, UndoMoveRenameFails, Answer
    <2>2. trash' = trash /\ pc[w] \in {"undoPrimary", "undoDependents"}
      BY <1>7, <2>1 DEF Undo, UndoPrimary, UndoPrimaryFails, UndoDependent, UndoDependentFails,
         UndoDone
    <2>3. pc'[w] \in {"undoDependents", "undoMove"}
      BY <1>3, <1>7, <2>1 DEF Undo, UndoPrimary, UndoPrimaryFails, UndoDependent,
         UndoDependentFails, UndoDone, Answer, Continue
    <2>4. r.op # "delete"
      BY <1>2, <2>2 DEF PhasesOf
    <2>5. QED  BY <2>2, <2>3, <2>4
  <1>8. QED  BY <1>4, <1>5, <1>6, <1>7

\* A handler that goes on changes nothing in the trash a client sees.
LEMMA TrashProceeds ==
  ASSUME IInv, NEW w \in Workers, w = Client, BInv(w), GrantInv(w), Step(w), SameRequest(w)
  PROVE  SeenTrash' = SeenTrash
  <1> DEFINE j == job[w]
             r == job[w].req
  <1>1. SUFFICES ASSUME NEW t \in Entries PROVE SeenEntry(t)' = SeenEntry(t)
    BY DEF SeenTrash
  <1>2. /\ TypeOK /\ Holds(w) /\ pc[w] # "idle" /\ pc'[w] # "idle"
        /\ job'[w].entry = j.entry /\ job'[w].req = r
    BY StepBusy DEF IInv, SameRequest
  <1>3. /\ j \in Job /\ r.op \in Ops /\ pc[w] \in PhasesOf(r.op)
        /\ r.path \in Paths /\ j.target \in Paths /\ j.entry \in Entries
        /\ files \in [Paths -> File] /\ trash \in [Entries -> Entry]
    BY <1>2, BusyWorker DEF FilesOK
  <1>4. /\ \A s : ~Respond(w, s)
        /\ \A phase, k : Proceed(w, phase, k) => phase = pc'[w] /\ k = job'[w]
    BY <1>2 DEF TypeOK, Respond, Proceed
  <1>5. CASE Refuse(w) \/ Prepare(w) \/ Write(w) \/ Undo(w)
    <2>1. /\ trash' = trash
          /\ pc[w] \notin {"cleanup", "manifest", "undoMove"}
          /\ pc'[w] \notin {"cleanup", "manifest"}
          /\ pc'[w] = "undoMove" => r.op # "delete"
      BY <1>2, <1>5, TrashAside
    <2>2. ~Working(w, t) /\ ~Working(w, t)'
      BY <1>2, <2>1 DEF Working
    <2>3. QED  BY <2>1, <2>2, SeenEntryIs, SeenEntryIsNext
  <1>6. CASE Trash(w) /\ t # j.entry
    <2>1. ~Working(w, t) /\ ~Working(w, t)'
      BY <1>2, <1>6 DEF Working
    <2>2. trash'[t] = trash[t]
      BY <1>3, <1>6 DEF Trash, MoveDelete, MoveDeleteFails, WriteManifest, WriteManifestFails,
         UndoMoveDelete, UndoMoveDeleteFails, MoveRestore, MoveRestoreFails, Cleanup, CleanupFails
    <2>3. QED  BY <2>1, <2>2, SeenEntryIs, SeenEntryIsNext
  <1>7. CASE Trash(w) /\ t = j.entry
    <2>1. MoveDelete(w) \/ MoveDeleteFails(w) \/ WriteManifestFails(w) \/ MoveRestore(w)
      BY <1>4, <1>7 DEF Trash, WriteManifest, UndoMoveDelete, UndoMoveDeleteFails,
         MoveRestoreFails, Cleanup, CleanupFails, Answer
    <2>2. CASE MoveDelete(w) \/ MoveDeleteFails(w)
      <3>1. pc[w] = "move" /\ r.op = "delete" /\ pc'[w] \in {"manifest", "undoMove"}
        BY <1>4, <2>2 DEF MoveDelete, MoveDeleteFails, Continue
      <3>2. trash[t] = NoEntry
        BY <1>2, <1>7, <3>1 DEF Holds, DeleteInv
      <3>3. ~Working(w, t) /\ Working(w, t)'
        BY <1>2, <1>7, <3>1 DEF Working
      <3>4. SeenEntry(t) = NoEntry
        BY <3>2, <3>3, SeenEntryIs DEF Recovered, NoEntry
      <3>5. QED  BY <3>1, <3>3, <3>4, SeenEntryIsNext
    <2>3. CASE WriteManifestFails(w)
      <3>1. pc[w] = "manifest" /\ pc'[w] = "undoMove"
        BY <1>4, <2>3 DEF WriteManifestFails
      <3>2. r.op = "delete"
        BY <1>3, <3>1 DEF PhasesOf, Ops
      <3>3. Working(w, t) /\ Working(w, t)'
        BY <1>2, <1>7, <3>1, <3>2 DEF Working
      <3>4. QED  BY <3>1, <3>3, SeenEntryIs, SeenEntryIsNext
    <2>4. CASE MoveRestore(w)
      <3>1. /\ pc[w] = "move" /\ r.op = "restore" /\ trash[t].payload # Absent
            /\ files' = [files EXCEPT ![j.target] = trash[t].payload]
            /\ pc'[w] = "cleanup" /\ job'[w] = j
        BY <1>4, <1>7, <2>4 DEF MoveRestore, Answer, Continue
      <3>2. trash[t].manifest = j.target
        BY <1>2, <1>7, <3>1 DEF GrantInv, TrashGranted
      <3>3. ~Working(w, t) /\ Working(w, t)'
        BY <1>2, <1>7, <3>1 DEF Working
      <3>4. SeenEntry(t) = trash[t]
        BY <3>1, <3>3, SeenEntryIs DEF Recovered
      <3>5. SeenEntry(t)' = [payload |-> trash[t].payload, manifest |-> j.target]
        BY <1>3, <3>1, <3>3, SeenEntryIsNext
      <3>6. trash[t] = [payload |-> trash[t].payload, manifest |-> trash[t].manifest]
        BY <1>3 DEF Entry
      <3>7. QED  BY <3>2, <3>4, <3>5, <3>6
    <2>5. QED  BY <2>1, <2>2, <2>3, <2>4
  <1>8. QED  BY <1>5, <1>6, <1>7 DEF Step

LEMMA ProceedsUnseen ==
  ASSUME IInv, NEW w \in Workers, w = Client, BInv(w), GrantInv(w), Step(w), SameRequest(w)
  PROVE  Workspace!Next \/ UNCHANGED Workspace!vars
  <1>1. TypeOK /\ pc[w] # "idle"
    BY StepBusy DEF IInv
  <1>2. /\ SeenFiles' = SeenFiles /\ SeenRequest' = SeenRequest /\ reply' = reply
        /\ SeenTrash' = SeenTrash /\ SeenSince' = SeenSince
    BY <1>1, SeenProceeds, TrashProceeds
  <1>3. reply[Client]' = reply[Client]
    BY <1>2 DEF Client
  <1>4. SeenRequest # NoJob
    BY <1>1, SeenBusy, BusyWorker, SpecialsAssumption
  <1>5. CASE faults' = faults
    BY <1>2, <1>3, <1>5 DEF Workspace!vars
  <1>6. CASE faults' = faults + 1
    BY <1>2, <1>3, <1>4, <1>6 DEF Workspace!Next, Workspace!Mishap
  <1>7. QED  BY <1>5, <1>6, FaultsOnce

LEMMA AnswersSeen ==
  ASSUME TypeOK, NEW w \in Workers, w = Client, pc[w] # "idle", NEW s, Respond(w, s)
  PROVE  Workspace!Answer(s) /\ SeenFiles' = files'
         /\ \A t \in Entries : SeenEntry(t)' = Recovered(trash'[t])
  <1>1. SeenRequest # NoJob
    BY SeenBusy, BusyWorker, SpecialsAssumption
  <1>2. /\ pc'[w] = "idle" /\ reply'[w] = s
        /\ SeenFiles' = files' /\ SeenRequest' = NoJob /\ SeenSince' = 0
    BY SeenAnswered
  <1>3. reply[Client]' = s
    BY <1>2 DEF Client
  <1>4. ASSUME NEW t \in Entries PROVE SeenEntry(t)' = Recovered(trash'[t])
    <2>1. ~Working(w, t)'
      BY <1>2 DEF Working
    <2>2. QED  BY <2>1, SeenEntryIsNext
  <1>5. QED  BY <1>1, <1>2, <1>3, <1>4 DEF Workspace!Answer

\* An answer that comes without a change.
LEMMA AnswersUnchanged ==
  ASSUME TypeOK, NEW w \in Workers, w = Client, pc[w] # "idle", NEW s, Respond(w, s),
         files' = job[w].before, trash' = trash, \A t : ~Working(w, t)
  PROVE  Workspace!Answer(s) /\ SeenFiles' = SeenFiles /\ SeenTrash' = SeenTrash
  <1>1. /\ Workspace!Answer(s) /\ SeenFiles' = files'
        /\ \A t \in Entries : SeenEntry(t)' = Recovered(trash'[t])
    BY AnswersSeen
  <1>2. SeenFiles = job[w].before /\ \A t \in Entries : SeenEntry(t) = Recovered(trash[t])
    BY SeenBusy, SeenEntryIs
  <1>3. \A t \in Entries : SeenEntry(t)' = SeenEntry(t)
    BY <1>1, <1>2
  <1>4. QED  BY <1>1, <1>2, <1>3 DEF SeenTrash

LEMMA DependentsIs ==
  ASSUME NEW r, NEW b, SeenFiles = b
  PROVE  Workspace!Dependents(r) = {} <=> NoDependents(b, r.path)
  BY DEF Workspace!Dependents, NoDependents, Workflows

\* A workflow without references closes no cycle.
LEMMA CyclesRefer ==
  ASSUME NEW fs \in [Paths -> File], NEW p \in Paths, NEW c \in Content, NEW late,
         InCycle([fs EXCEPT ![p] = c], p, late)
  PROVE  c.refs # {}
  <1> DEFINE gs == [fs EXCEPT ![p] = c]
  <1>1. gs[p] = c /\ c # Absent
    BY SpecialsAssumption
  <1>2. ASSUME c.refs = {} PROVE Callees(gs, p, late, p) = {}
    BY <1>1, <1>2 DEF Callees
  <1> HIDE DEF gs
  <1>3. ASSUME c.refs = {} PROVE FALSE
    <2>1. Callees(gs, p, late, p) \subseteq {} /\ {} \in SUBSET Paths
      BY <1>2, <1>3
    <2>2. InCycle(gs, p, late)
      BY DEF gs
    <2>3. QED  BY <2>1, <2>2 DEF InCycle
  <1>4. QED  BY <1>3

LEMMA OwnNextRefers ==
  ASSUME NEW b, NEW r, r.content.refs = {}, r.content \in Content
  PROVE  OwnNext(b, r).refs = {}
  <1>1. \A p, n, m : Reidentified(r.content, p, n, m).refs = {}
    BY DEF Reidentified, Content
  <1>2. QED  BY <1>1 DEF OwnNext

\* A request that is refused.
LEMMA RefusalSeen ==
  ASSUME IInv, NEW w \in Workers, w = Client, BInv(w), SaveInv(w), GrantInv(w),
         Refuse(w) \/ Prepare(w), ~SameRequest(w)
  PROVE  Workspace!Refuse \/ Workspace!Fail
  <1> DEFINE j == job[w]
             b == job[w].before
             r == job[w].req
             p == job[w].req.path
             e == trash[job[w].entry]
  <1>1. /\ pc[w] \in Early /\ TypeOK /\ files' = files /\ trash' = trash /\ pc[w] # "idle"
        /\ pc[w] \notin {"write", "move"} /\ faults' = faults
    BY DEF IInv, Early, Refuse, MatchMissing, MatchRefused, Prepare, MatchPassed, ReadExisting,
       Impact, PlanUpdate, PlanRename, Cycle, CheckCreate, CheckUpdate, CheckDelete, CheckRename,
       CheckRestore, Answer, Continue
  <1>2. /\ j \in Job /\ r \in Request /\ r.op \in Ops /\ pc[w] \in PhasesOf(r.op)
        /\ p \in Paths /\ r.to \in Paths /\ b \in [Paths -> File] /\ files = b
        /\ j.entry \in Entries /\ trash \in [Entries -> Entry]
    BY <1>1, BusyWorker DEF Job, FilesOK, BInv
  <1>3. TagGranted(w) /\ TextGranted(w)
    BY <1>1 DEF GrantInv
  <1>4. /\ b[p] # Absent /\ TagMatches(j.tag, b[p]) => r.match \in {"current", "any"}
        /\ ~TagMatches(j.tag, b[p]) => r.match \in {"stale", "blank"}
        /\ j.tag = NoTag <=> r.match = "blank"
    BY <1>2, <1>3, TagSays DEF TagGranted
  <1>5. \A t : ~Working(w, t)
    BY <1>1 DEF Working, Early
  <1>6. SeenFiles = b /\ SeenRequest = r
    BY <1>1, SeenBusy
  <1>7. ASSUME NEW s, Respond(w, s)
        PROVE  /\ Workspace!Answer(s)
               /\ SeenFiles' = SeenFiles /\ SeenTrash' = SeenTrash
    BY <1>1, <1>2, <1>5, <1>7, AnswersUnchanged
  <1>8. ASSUME Respond(w, 404), Workspace!Missing(r) PROVE Workspace!Refuse
    BY <1>1, <1>6, <1>7, <1>8 DEF Workspace!Refuse
  <1>9. ASSUME Respond(w, 428), Workspace!Unconditional(r) PROVE Workspace!Refuse
    BY <1>1, <1>6, <1>7, <1>9 DEF Workspace!Refuse
  <1>10. ASSUME Respond(w, 409), Workspace!Conflicting(r) PROVE Workspace!Refuse
    BY <1>1, <1>6, <1>7, <1>10 DEF Workspace!Refuse
  <1>11. \A phase, k : phase # "idle" => ~Proceed(w, phase, k)
    <2>1. ASSUME NEW phase, NEW k, phase # "idle", Proceed(w, phase, k) PROVE FALSE
      <3>1. pc'[w] # "idle"
        BY <1>1, <2>1, Proceeded
      <3>2. \A s : ~Respond(w, s)
        BY <1>1, <3>1 DEF TypeOK, Respond
      <3>3. QED  BY <1>1, <3>2, StepKeepsRequest DEF Step
    <2>2. QED  BY <2>1
  <1>12. CASE MatchMissing(w)
    <2>1. pc[w] = "match" /\ b[p] = Absent /\ Respond(w, 404)
      BY <1>2, <1>12 DEF MatchMissing, Answer
    <2>2. r.op \in {"update", "rename", "delete"}
      BY <1>2, <2>1 DEF PhasesOf, Ops
    <2>3. Workspace!Missing(r)
      BY <1>6, <2>1, <2>2 DEF Workspace!Missing
    <2>4. QED  BY <1>8, <2>1, <2>3
  <1>13. CASE MatchRefused(w)
    <2>1. /\ pc[w] = "match" /\ b[p] # Absent /\ ~TagMatches(j.tag, b[p])
          /\ Respond(w, IF j.tag = NoTag THEN 428 ELSE 409)
      BY <1>2, <1>13 DEF MatchRefused, Answer
    <2>2. r.op \in {"update", "rename", "delete"}
      BY <1>2, <2>1 DEF PhasesOf, Ops
    <2>3. CASE j.tag = NoTag
      <3>1. Workspace!Unconditional(r)
        BY <1>4, <1>6, <2>1, <2>2, <2>3 DEF Workspace!Unconditional
      <3>2. QED  BY <1>9, <2>1, <2>3, <3>1
    <2>4. CASE j.tag # NoTag
      <3>1. Workspace!Conflicting(r)
        BY <1>4, <1>6, <2>1, <2>2, <2>4 DEF Workspace!Conflicting
      <3>2. QED  BY <1>10, <2>1, <2>4, <3>1
    <2>5. QED  BY <2>3, <2>4
  <1>14. ~MatchPassed(w)
    <2>1. pc[w] = "match" => AfterMatch(r.op) # "idle"
      BY <1>2 DEF AfterMatch, PhasesOf, Ops
    <2>2. QED  BY <1>11, <2>1 DEF MatchPassed, Continue
  <1>15. ~ReadExisting(w)
    <2>1. pc[w] = "read" => files[p] # Absent
      <3>1. pc[w] = "read" => r.op = "update"
        BY <1>2 DEF PhasesOf, Ops
      <3>2. QED  BY <1>2, <1>3, <3>1 DEF TagGranted
    <2>2. QED  BY <1>11, <2>1 DEF ReadExisting, Continue
  <1>16. CASE Impact(w)
    <2>1. /\ pc[w] = "impact" /\ ReferencesTo(p) # {} /\ ~r.accept /\ Respond(w, 409)
      BY <1>11, <1>16 DEF Impact, Answer, Continue
    <2>2. r.op = "delete"
      BY <1>2, <2>1 DEF PhasesOf, Ops
    <2>3. ~NoDependents(b, p)
      BY <1>2, <2>1 DEF ReferencesTo, NoDependents
    <2>4. Workspace!Dependents(r) # {}
      BY <1>6, <2>3, DependentsIs
    <2>5. Workspace!Conflicting(r)
      BY <2>1, <2>2, <2>4 DEF Workspace!Conflicting
    <2>6. QED  BY <1>10, <2>1, <2>5
  <1>17. ~PlanUpdate(w) /\ ~PlanRename(w)
    BY <1>11 DEF PlanUpdate, PlanRename, Continue
  <1>18. CASE Cycle(w)
    <2>1. /\ pc[w] = "cycle" /\ RefusesCycle(w) /\ Respond(w, 409)
      BY <1>11, <1>18 DEF Cycle, Answer, Continue
    <2>2. r.op \in {"create", "update"}
      BY <1>2, <2>1 DEF PhasesOf, Ops
    <2>3. r.kind = "workflow" /\ j.next \in Content
      <3>1. HasPlan(r.op, pc[w])
        BY <2>1, <2>2 DEF HasPlan
      <3>2. j.next \in Content
        BY <1>1, <2>2, <3>1 DEF SaveInv
      <3>3. r.kind = "workflow"
        BY <1>3, <2>1 DEF TagGranted
      <3>4. QED  BY <3>2, <3>3
    <2>4. j.next.refs # {}
      <3>1. PICK late : InCycle([files EXCEPT ![p] = j.next], p, late)
        BY <2>1 DEF RefusesCycle
      <3>2. QED  BY <1>2, <2>3, <3>1, CyclesRefer
    <2>5. r.content.refs # {}
      <3>1. j.next = OwnNext(b, r) \/ j.next = r.content
        BY <1>3, <2>1, <2>2 DEF TextGranted
      <3>2. r.content \in Content
        BY <1>2 DEF Request
      <3>3. QED  BY <2>4, <3>1, <3>2, OwnNextRefers
    <2>6. Workspace!Conflicting(r)
      BY <2>2, <2>3, <2>5 DEF Workspace!Conflicting
    <2>7. QED  BY <1>10, <2>1, <2>6
  <1>19. CASE CheckCreate(w)
    <2>1. r.op = "create" /\ b[p] # Absent /\ Respond(w, 409)
      BY <1>2, <1>11, <1>19 DEF CheckCreate, Answer, Continue, Free
    <2>2. Workspace!Conflicting(r)
      BY <1>6, <2>1 DEF Workspace!Conflicting
    <2>3. QED  BY <1>10, <2>1, <2>2
  <1>20. ~CheckUpdate(w) /\ ~CheckDelete(w)
    <2>1. pc[w] = "check" /\ r.op \in {"update", "delete"} => files[p] # Absent
      BY <1>2, <1>3 DEF TagGranted
    <2>2. QED  BY <1>11, <2>1 DEF CheckUpdate, CheckDelete, Continue, Free
  <1>21. CASE CheckRename(w)
    <2>1. pc[w] = "check" /\ r.op = "rename"
      BY <1>21 DEF CheckRename
    <2>2. b[p] # Absent
      BY <1>3, <2>1 DEF TagGranted
    <2>3. b[r.to] # Absent /\ Respond(w, 409)
      BY <1>2, <1>11, <1>21, <2>2 DEF CheckRename, Answer, Continue, Free
    <2>4. Workspace!Conflicting(r)
      BY <1>6, <2>1, <2>3 DEF Workspace!Conflicting
    <2>5. QED  BY <1>10, <2>3, <2>4
  <1>22. CASE CheckRestore(w)
    <2>1. pc[w] = "check" /\ r.op = "restore" /\ j.entry = r.entry
      BY <1>3, <1>22 DEF CheckRestore, TagGranted
    <2>2. SeenTrash[r.entry] = Recovered(e)
      BY <1>2, <1>5, <2>1, SeenEntryIs DEF SeenTrash
    <2>3. CASE j.tag = NoTag
      <3>1. Respond(w, 428)
        BY <1>22, <2>3 DEF CheckRestore, Answer
      <3>2. Workspace!Unconditional(r)
        BY <1>4, <2>1, <2>3 DEF Workspace!Unconditional
      <3>3. QED  BY <1>9, <3>1, <3>2
    <2>4. CASE j.tag # NoTag /\ (e.payload = Absent \/ e.manifest = Absent)
      <3>1. Respond(w, 404)
        BY <1>22, <2>4 DEF CheckRestore, Answer
      <3>2. SeenTrash[r.entry].manifest = Absent
        BY <2>2, <2>4 DEF Recovered, NoEntry
      <3>3. Workspace!Missing(r)
        BY <1>4, <2>1, <2>4, <3>2 DEF Workspace!Missing
      <3>4. QED  BY <1>8, <3>1, <3>3
    <2>5. CASE j.tag # NoTag /\ e.payload # Absent /\ e.manifest = Torn
      <3>1. Respond(w, 500)
        BY <1>22, <2>5, SpecialsAssumption DEF CheckRestore, Answer
      <3>2. SeenTrash[r.entry].manifest = Torn
        BY <2>2, <2>5 DEF Recovered
      <3>3. QED  BY <1>1, <1>6, <1>7, <2>1, <3>1, <3>2 DEF Workspace!Fail, Workspace!Faulty
    <2>6. CASE j.tag # NoTag /\ e.payload # Absent /\ e.manifest \notin {Absent, Torn}
      <3>1. Respond(w, 409) /\ files[e.manifest] # Absent
        BY <1>11, <1>22, <2>6 DEF CheckRestore, Answer, Continue, Free
      <3>2. SeenTrash[r.entry].manifest = e.manifest /\ e.manifest \in Paths
        BY <1>2, <2>2, <2>6 DEF Recovered, Entry
      <3>3. Workspace!Conflicting(r)
        BY <1>2, <1>6, <2>1, <3>1, <3>2 DEF Workspace!Conflicting
      <3>4. QED  BY <1>10, <3>1, <3>3
    <2>7. QED  BY <2>3, <2>4, <2>5, <2>6
  <1>23. QED  BY <1>12, <1>13, <1>14, <1>15, <1>16, <1>17, <1>18, <1>19, <1>20, <1>21, <1>22
              DEF Refuse, Prepare

\* The phases after a first write, and the requests that save documents.
Late == {"dependents", "undoPrimary", "undoDependents", "undoMove", "manifest", "cleanup"}
Saving == {"create", "update", "rename"}

\* A handler that has written anything had its request granted.
LEMMA LateGranted ==
  ASSUME IInv, NEW w \in Workers, w = Client, BInv(w), SaveInv(w), GrantInv(w), pc[w] \in Late
  PROVE  Workspace!Granted(job[w].req)
  <1> DEFINE j == job[w]
             b == job[w].before
             r == job[w].req
             p == job[w].req.path
  <1>1. TypeOK /\ pc[w] # "idle" /\ pc[w] \notin Early
    BY DEF IInv, Late, Early
  <1>2. /\ j \in Job /\ r \in Request /\ r.op \in Ops /\ pc[w] \in PhasesOf(r.op)
        /\ p \in Paths /\ j.target \in Paths /\ b \in [Paths -> File] /\ j.entry \in Entries
    BY <1>1, BusyWorker DEF Job
  <1>3. TagGranted(w) /\ TrashGranted(w)
    BY <1>1 DEF GrantInv
  <1>4. SeenFiles = b
    BY <1>1, SeenBusy
  <1>5. /\ b[p] # Absent /\ TagMatches(j.tag, b[p]) => r.match \in {"current", "any"}
        /\ j.tag = NoTag <=> r.match = "blank"
    BY <1>2, <1>3, TagSays DEF TagGranted
  <1>6. r.op \in {"update", "rename", "delete"} =>
          b[p] # Absent /\ r.match \in {"current", "any"}
    BY <1>1, <1>3, <1>5 DEF TagGranted, Early
  <1>7. r.op = "create" => b[p] = Absent
    <2>1. r.op = "create" => pc[w] = "dependents"
      BY <1>2 DEF PhasesOf, Late
    <2>2. QED  BY <1>1, <2>1 DEF SaveInv, HasPlan
  <1>8. r.op = "rename" => b[r.to] = Absent
    BY <1>1, <1>3 DEF TagGranted, Early
  <1>9. r.op = "delete" => r.accept \/ Workspace!Dependents(r) = {}
    BY <1>1, <1>3, <1>4, DependentsIs DEF TagGranted, Early
  <1>10. r.op = "restore" =>
           /\ r.match # "blank" /\ SeenTrash[r.entry].payload # Absent
           /\ SeenTrash[r.entry].manifest \in Paths
           /\ b[SeenTrash[r.entry].manifest] = Absent
    <2>1. SUFFICES ASSUME r.op = "restore"
                   PROVE  /\ r.match # "blank" /\ SeenTrash[r.entry].payload # Absent
                          /\ SeenTrash[r.entry].manifest \in Paths
                          /\ b[SeenTrash[r.entry].manifest] = Absent
      OBVIOUS
    <2>2. pc[w] = "cleanup"
      BY <1>2, <2>1 DEF PhasesOf, Late
    <2>3. j.entry = r.entry /\ j.tag # NoTag /\ b[j.target] = Absent /\ files[j.target] # Absent
      BY <1>3, <2>1, <2>2 DEF TagGranted, TrashGranted
    <2>4. Working(w, r.entry)
      BY <2>2, <2>3 DEF Working
    <2>5. SeenTrash[r.entry] = [payload |-> files[j.target], manifest |-> j.target]
      BY <1>2, <2>2, <2>3, <2>4, SeenEntryIs DEF SeenTrash
    <2>6. QED  BY <1>2, <1>5, <2>3, <2>5
  <1>11. QED  BY <1>4, <1>6, <1>7, <1>8, <1>9, <1>10 DEF Workspace!Granted

\* While a create, update or rename is written or rolled back, every document is as the
\* handler found it or as the request makes it, and a renamed one at one of its paths.
LEMMA LateMixed ==
  ASSUME IInv, NEW w \in Workers, w = Client, BInv(w), SaveInv(w), GrantInv(w),
         pc[w] \in Late, job[w].req.op \in Saving
  PROVE  /\ \A q \in Paths : files[q] \in {job[w].before[q], Workspace!After(job[w].req, q)}
         /\ job[w].req.op = "rename" =>
              (files[job[w].req.path] = Absent) = (files[job[w].req.to] # Absent)
  <1> DEFINE j == job[w]
             b == job[w].before
             r == job[w].req
             p == job[w].req.path
  <1>1. TypeOK /\ pc[w] # "idle" /\ pc[w] \notin Early /\ Holds(w)
    BY DEF IInv, Late, Early
  <1>2. /\ j \in Job /\ r \in Request /\ r.op \in Ops /\ pc[w] \in PhasesOf(r.op)
        /\ p \in Paths /\ r.to \in Paths /\ j.target \in Paths /\ b \in [Paths -> File]
        /\ j.entry \in Entries
    BY <1>1, BusyWorker DEF Job
  <1>3. TagGranted(w) /\ TextGranted(w) /\ Remembers(w) /\ OthersAsBefore(w) /\ PlanInv(w)
        /\ ShapeInv(w)
    <2>1. pc[w] # "cleanup"
      BY <1>2 DEF PhasesOf, Saving
    <2>2. QED  BY <1>1, <2>1 DEF GrantInv, BInv, Holds
  <1>4. SeenFiles = b
    BY <1>1, SeenBusy
  <1>5. pc[w] \in {"dependents", "undoPrimary", "undoDependents", "undoMove"}
    BY <1>2 DEF PhasesOf, Saving, Late
  <1>6. /\ r.op = "create" => pc[w] = "dependents"
        /\ r.op = "update" => pc[w] \in {"dependents", "undoPrimary", "undoDependents"}
        /\ r.op = "rename" => pc[w] \in {"dependents", "undoDependents", "undoMove"}
    BY <1>2, <1>5 DEF PhasesOf
  <1>7. r.op # "rename" => j.target = p
    BY <1>1, <1>3 DEF ShapeInv, Saving
  <1>8. r.op = "rename" => j.target = r.to
    BY <1>1, <1>3 DEF ShapeInv
  <1>9. ASSUME NEW q \in Paths \ {p, j.target} PROVE files[q] \in {b[q], Workspace!After(r, q)}
    <2>1. Workspace!After(r, q) = IF q \in Workflows THEN Becomes(b, r, q) ELSE b[q]
      <3>1. r.op # "restore"
        BY DEF Saving
      <3>2. QED  BY <1>2, <1>4, <1>8, <1>9, <3>1, AfterOthers
    <2>2. CASE q \in PlanPaths(j.plan)
      <3>1. PICK s \in j.plan : s.path = q
        BY <2>2 DEF PlanPaths
      <3>2. files[q] \in {s.was, s.now} /\ s.was = b[q]
        BY <1>1, <1>3, <3>1 DEF PlanInv, Remembers
      <3>3. r.op \in {"update", "rename"}
        BY <1>1, <1>3, <3>1 DEF ShapeInv
      <3>4. PlanFits(j.plan, b, r)
        BY <1>3, <1>5, <3>3 DEF TextGranted
      <3>5. q \in Workflows /\ s.now = Becomes(b, r, q)
        BY <3>1, <3>4 DEF PlanFits
      <3>6. QED  BY <2>1, <3>2, <3>5
    <2>3. CASE q \notin PlanPaths(j.plan)
      BY <1>3, <1>9, <2>3 DEF OthersAsBefore
    <2>4. QED  BY <2>2, <2>3
  <1>10. CASE r.op \in {"create", "update"}
    <2>1. Workspace!After(r, p) = OwnNext(b, r)
      BY <1>2, <1>4, <1>10, AfterOwn
    <2>2. r.op = "create" => files[p] = j.next /\ j.next = r.content
      BY <1>1, <1>3, <1>6 DEF SaveInv, HasPlan, TextGranted
    <2>3. r.op = "create" => OwnNext(b, r) = r.content
      BY DEF OwnNext
    <2>4. r.op = "update" => j.next = OwnNext(b, r) /\ j.was = b[p]
      BY <1>3, <1>5 DEF TextGranted, Remembers
    <2>5. r.op = "update" => files[p] \in {b[p], j.next}
      <3>1. r.op = "update" /\ pc[w] = "undoDependents" => files[p] \in {b[p], j.next}
        BY <1>3 DEF TextGranted
      <3>2. r.op = "update" /\ pc[w] # "undoDependents" => files[p] \in {j.was, j.next}
        BY <1>1, <1>6 DEF Holds, UpdateInv
      <3>3. QED  BY <2>4, <3>1, <3>2
    <2>6. files[p] \in {b[p], Workspace!After(r, p)}
      BY <1>10, <2>1, <2>2, <2>3, <2>4, <2>5
    <2>7. QED  BY <1>7, <1>9, <1>10, <2>6
  <1>11. CASE r.op = "rename"
    <2>1. b[p] = j.seen /\ b[r.to] = Absent /\ j.seen # Absent
      BY <1>1, <1>3, <1>6, <1>11 DEF Remembers, Holds, RenameInv
    <2>2. p # r.to
      BY <2>1
    <2>3. \/ files[p] = j.seen /\ files[r.to] = Absent
          \/ files[p] = Absent /\ files[r.to] = j.seen
      BY <1>1, <1>6, <1>11 DEF Holds, RenameInv
    <2>4. Workspace!After(r, p) = Absent /\ Workspace!After(r, r.to) = b[p]
      BY <1>2, <1>4, <1>11, <2>2, AfterOwn
    <2>5. /\ files[p] \in {b[p], Workspace!After(r, p)}
          /\ files[r.to] \in {b[r.to], Workspace!After(r, r.to)}
          /\ (files[p] = Absent) = (files[r.to] # Absent)
      BY <2>1, <2>3, <2>4
    <2>6. QED  BY <1>8, <1>9, <1>11, <2>5
  <1>12. QED  BY <1>10, <1>11 DEF Saving

\* What is left of an interrupted create, update or rename.
LEMMA HalfSaved ==
  ASSUME IInv, NEW w \in Workers, w = Client, BInv(w), SaveInv(w), GrantInv(w),
         pc[w] \in Late, job[w].req.op \in Saving,
         SeenFiles' \in [Paths -> File], SeenTrash' = SeenTrash,
         \A q \in Paths : SeenFiles'[q] \in {job[w].before[q], Workspace!After(job[w].req, q)},
         job[w].req.op = "rename" =>
           (SeenFiles'[job[w].req.path] = Absent) = (SeenFiles'[job[w].req.to] # Absent)
  PROVE  Workspace!Half(job[w].req)
  <1> DEFINE r == job[w].req
             b == job[w].before
             S == {q \in Paths : SeenFiles'[q] = Workspace!After(r, q)}
  <1>1. Workspace!Granted(r)
    BY LateGranted
  <1>2. SeenFiles = b
    BY SeenBusy DEF Late
  <1>3. \A q \in Paths : SeenFiles'[q] = IF q \in S THEN Workspace!After(r, q) ELSE SeenFiles[q]
    BY <1>2
  <1>4. SeenFiles' = [q \in Paths |-> IF q \in S THEN Workspace!After(r, q) ELSE SeenFiles[q]]
    BY <1>3
  <1>5. S \in SUBSET Paths
    OBVIOUS
  <1> HIDE DEF S
  <1>6. Workspace!Trashed(r, {r.path, Absent, Torn})
    BY DEF Workspace!Trashed, Saving
  <1>7. r.op # "delete" /\ r.op # "restore"
    BY DEF Saving
  <1>8. QED  BY <1>1, <1>4, <1>5, <1>6, <1>7 DEF Workspace!Half

\* The answer after the last rewrite: the request has happened, all of it.
LEMMA RereadSeen ==
  ASSUME IInv, NEW w \in Workers, w = Client, BInv(w), SaveInv(w), GrantInv(w), Reread(w)
  PROVE  Workspace!Accept
  <1> DEFINE j == job[w]
             b == job[w].before
             r == job[w].req
             p == job[w].req.path
             status == IF files[j.target] # Absent /\ KindOf(j.target) = r.kind THEN 200 ELSE 404
  <1>1. /\ TypeOK /\ Holds(w) /\ pc[w] = "dependents" /\ j.left = {} /\ Respond(w, status)
        /\ files' = files /\ trash' = trash /\ faults' = faults
    BY DEF IInv, Reread, Answer
  <1>2. /\ j \in Job /\ r \in Request /\ r.op \in Ops /\ pc[w] \in PhasesOf(r.op)
        /\ p \in Paths /\ r.to \in Paths /\ b \in [Paths -> File] /\ files \in [Paths -> File]
    BY <1>1, BusyWorker DEF Job, FilesOK
  <1>3. r.op \in Saving
    BY <1>1, <1>2 DEF PhasesOf, Ops, Saving
  <1>4. SeenFiles = b /\ SeenRequest = r
    BY <1>1, SeenBusy
  <1>5. /\ Workspace!Answer(status) /\ SeenFiles' = files
        /\ \A t \in Entries : SeenEntry(t)' = Recovered(trash[t])
    BY <1>1, AnswersSeen
  <1>6. SeenTrash' = SeenTrash
    <2>1. \A t : ~Working(w, t)
      BY <1>1 DEF Working
    <2>2. \A t \in Entries : SeenEntry(t)' = SeenEntry(t)
      BY <1>5, <2>1, SeenEntryIs
    <2>3. QED  BY <2>2 DEF SeenTrash
  <1>7. Workspace!Granted(r)
    BY <1>1, LateGranted DEF Late
  <1>8. /\ r.op # "rename" => j.target = p
        /\ r.op = "rename" => j.target = r.to
    BY <1>1, <1>3 DEF Holds, ShapeInv, Saving
  <1>9. ASSUME NEW q \in Paths \ {p, j.target} PROVE files[q] = Workspace!After(r, q)
    <2>1. /\ q \in Workflows => files[q] = Becomes(b, r, q)
          /\ q \in Catalogs => files[q] = b[q]
      BY <1>1, <1>9, OthersBecome
    <2>2. Workspace!After(r, q) = IF q \in Workflows THEN Becomes(b, r, q) ELSE b[q]
      <3>1. r.op # "restore"
        BY <1>3 DEF Saving
      <3>2. QED  BY <1>2, <1>4, <1>8, <1>9, <3>1, AfterOthers
    <2>3. QED  BY <2>1, <2>2 DEF Workflows
  <1>10. /\ r.op \in {"create", "update"} => files[p] = OwnNext(b, r) /\ files[p] # Absent
         /\ r.op = "rename" => files[p] = Absent /\ files[r.to] = b[p] /\ b[p] # Absent /\ p # r.to
    <2>1. TextGranted(w) /\ TagGranted(w) /\ Remembers(w)
      BY <1>1 DEF GrantInv, BInv
    <2>2. ASSUME r.op \in {"create", "update"} PROVE files[p] = OwnNext(b, r) /\ files[p] # Absent
      <3>1. j.next = OwnNext(b, r)
        BY <1>1, <2>1, <2>2 DEF TextGranted, OwnNext
      <3>2. HasPlan(r.op, pc[w])
        BY <1>1, <2>2 DEF HasPlan
      <3>3. j.next \in Content /\ (r.op = "create" => files[p] = j.next)
        BY <1>1, <2>2, <3>2 DEF SaveInv
      <3>4. r.op = "update" => files[p] = j.next
        BY <1>1 DEF Holds, UpdateInv
      <3>5. QED  BY <2>2, <3>1, <3>3, <3>4, SpecialsAssumption
    <2>3. ASSUME r.op = "rename"
          PROVE  files[p] = Absent /\ files[r.to] = b[p] /\ b[p] # Absent /\ p # r.to
      <3>1. files[p] = Absent /\ files[r.to] = j.seen /\ j.seen # Absent
        BY <1>1, <2>3 DEF Holds, RenameInv
      <3>2. j.seen = b[p]
        BY <1>1, <2>1, <2>3 DEF Remembers
      <3>3. QED  BY <3>1, <3>2
    <2>4. QED  BY <2>2, <2>3
  <1>11. \A q \in Paths : files[q] = Workspace!After(r, q)
    <2>1. r.op \in {"create", "update"} => files[p] = Workspace!After(r, p)
      BY <1>2, <1>4, <1>10, AfterOwn
    <2>2. r.op = "rename" => files[p] = Workspace!After(r, p) /\ files[r.to] = Workspace!After(r, r.to)
      BY <1>2, <1>4, <1>10, AfterOwn
    <2>3. QED  BY <1>3, <1>8, <1>9, <2>1, <2>2 DEF Saving
  <1>12. SeenFiles' = [q \in Paths |-> Workspace!After(r, q)]
    BY <1>2, <1>5, <1>11
  <1>13. Workspace!Trashed(r, {r.path})
    BY <1>3, <1>6 DEF Workspace!Trashed, Saving
  <1>14. status = IF Workspace!Misfiled(r) THEN 404 ELSE 200
    <2>1. files[j.target] # Absent
      BY <1>3, <1>8, <1>10 DEF Saving
    <2>2. r.op = "update" => r.kind = KindOf(p)
      BY <1>1 DEF SaveInv
    <2>3. Workspace!Misfiled(r) <=> r.kind # KindOf(j.target)
      BY <1>3, <1>8, <2>2 DEF Workspace!Misfiled, Workspace!KindAt, KindOf, Saving
    <2>4. QED  BY <2>1, <2>3
  <1> HIDE DEF status
  <1>15. QED  BY <1>1, <1>4, <1>5, <1>7, <1>12, <1>13, <1>14 DEF Workspace!Accept, Workspace!Done

\* A failing request that left no trace.
LEMMA FailSeen ==
  ASSUME TypeOK, NEW w \in Workers, w = Client, pc[w] # "idle", Step(w), Respond(w, 500),
         files' = job[w].before, SeenTrash' = SeenTrash, faults' > job[w].since
  PROVE  Workspace!Fail
  <1>1. Workspace!Answer(500) /\ SeenFiles' = SeenFiles /\ SeenSince = job[w].since
    BY AnswersSeen, SeenBusy
  <1>2. faults' \in {faults, faults + 1}
    BY FaultsOnce
  <1>3. QED  BY <1>1, <1>2 DEF Workspace!Fail, Workspace!Faulty

\* The end of a roll-back: with one failure nothing is left of the request, with two it
\* may be half done.
LEMMA UndoneSeen ==
  ASSUME IInv, NEW w \in Workers, w = Client, BInv(w), SaveInv(w), GrantInv(w),
         Undo(w), ~SameRequest(w)
  PROVE  Workspace!Fail \/ Workspace!Mangle
  <1> DEFINE j == job[w]
             b == job[w].before
             r == job[w].req
             p == job[w].req.path
  <1>1. TypeOK /\ Holds(w) /\ pc[w] # "idle" /\ Step(w)
    BY StepBusy DEF IInv, Step
  <1>2. \A phase, k : phase # "idle" => ~Proceed(w, phase, k)
    <2>1. ASSUME NEW phase, NEW k, phase # "idle", Proceed(w, phase, k) PROVE FALSE
      <3>1. pc'[w] # "idle"
        BY <1>1, <2>1, Proceeded
      <3>2. \A s : ~Respond(w, s)
        BY <1>1, <3>1 DEF TypeOK, Respond
      <3>3. QED  BY <1>1, <3>2, StepKeepsRequest
    <2>2. QED  BY <2>1
  <1>3. \/ UndoDone(w) /\ r.op = "update"
        \/ UndoMoveRename(w) \/ UndoMoveRenameFails(w)
    BY <1>2 DEF Undo, UndoPrimary, UndoPrimaryFails, UndoDependent, UndoDependentFails,
       UndoDone, Continue
  <1>4. /\ pc[w] \in {"undoDependents", "undoMove"} /\ r.op \in Saving /\ Respond(w, 500)
        /\ trash' = trash
    BY <1>3 DEF UndoDone, UndoMoveRename, UndoMoveRenameFails, Answer, Saving
  <1>5. /\ j \in Job /\ r \in Request /\ p \in Paths /\ r.to \in Paths
        /\ b \in [Paths -> File] /\ files \in [Paths -> File] /\ faults \in Nat
        /\ j.since \in Nat
    BY <1>1, BusyWorker, Numbers, BoundsAssumption DEF Job, FilesOK
  <1>6. faults > j.since /\ (faults' = faults \/ faults' = faults + 1)
    BY <1>1, <1>4, FaultsOnce DEF BInv
  <1>7. /\ Workspace!Answer(500) /\ SeenFiles' = files'
        /\ \A t \in Entries : SeenEntry(t)' = Recovered(trash[t])
    BY <1>1, <1>4, AnswersSeen
  <1>8. SeenTrash' = SeenTrash
    <2>1. \A t : ~Working(w, t)
      BY <1>4 DEF Working, Saving
    <2>2. \A t \in Entries : SeenEntry(t)' = SeenEntry(t)
      BY <1>7, <2>1, SeenEntryIs
    <2>3. QED  BY <2>2 DEF SeenTrash
  <1>9. CASE faults' <= j.since + 1
    <2>1. NoTrace(w)
      BY <1>1, UndoBefore
    <2>2. Answers(w, {404, 409, 428, 500})
      BY <1>1, <1>4 DEF Answers, TypeOK, Respond
    <2>3. files' = b
      BY <1>4, <1>9, <2>1, <2>2 DEF NoTrace
    <2>4. faults' > j.since
      BY <1>5, <1>6
    <2>5. QED  BY <1>1, <1>4, <1>8, <2>3, <2>4, FailSeen
  <1>10. CASE ~(faults' <= j.since + 1)
    <2>1. /\ \A q \in Paths : files[q] \in {b[q], Workspace!After(r, q)}
          /\ r.op = "rename" => (files[p] = Absent) = (files[r.to] # Absent)
      BY <1>4, LateMixed DEF Late
    <2>2. /\ files' \in [Paths -> File]
          /\ \A q \in Paths : files'[q] \in {b[q], Workspace!After(r, q)}
          /\ r.op = "rename" => (files'[p] = Absent) = (files'[r.to] # Absent)
      <3>1. CASE files' = files
        BY <1>5, <2>1, <3>1
      <3>2. CASE files' # files
        <4>1. /\ r.op = "rename" /\ files[r.to] # Absent /\ pc[w] = "undoMove"
              /\ files' = [files EXCEPT ![p] = files[r.to], ![r.to] = Absent]
          BY <1>3, <3>2 DEF UndoDone, UndoMoveRename, UndoMoveRenameFails
        <4>2. files[p] = Absent /\ files[r.to] = j.seen /\ j.seen = b[p] /\ b[r.to] = Absent
          BY <1>1, <4>1 DEF Holds, RenameInv, BInv, Remembers
        <4>3. QED  BY <1>5, <2>1, <4>1, <4>2
      <3>3. QED  BY <3>1, <3>2
    <2>3. Workspace!Half(r)
      BY <1>4, <1>7, <1>8, <2>2, HalfSaved DEF Late
    <2>4. faults' \in {faults, faults + 1} /\ faults' > j.since + 1
      BY <1>5, <1>6, <1>10
    <2>5. SeenRequest = r /\ SeenSince = j.since
      BY <1>1, SeenBusy
    <2>6. QED  BY <1>7, <2>3, <2>4, <2>5 DEF Workspace!Mangle, Workspace!Faulty
  <1>11. QED  BY <1>9, <1>10

\* The source of a delete is in the trash, with m for its manifest.
LEMMA DeletedSeen ==
  ASSUME IInv, NEW w \in Workers, w = Client, BInv(w), SaveInv(w), GrantInv(w),
         job[w].req.op = "delete", pc[w] \in {"manifest", "undoMove"},
         files[job[w].req.path] = Absent, SeenFiles' = files, NEW m,
         \A t \in Entries : SeenEntry(t)' = Recovered(trash'[t]),
         \A t \in Entries : t # job[w].entry => trash'[t] = trash[t],
         trash'[job[w].entry] = [payload |-> trash[job[w].entry].payload, manifest |-> m]
  PROVE  /\ Workspace!Granted(job[w].req)
         /\ SeenFiles' = [q \in Paths |-> Workspace!After(job[w].req, q)]
         /\ Workspace!Binned(job[w].req, m)
  <1> DEFINE j == job[w]
             b == job[w].before
             r == job[w].req
             p == job[w].req.path
             e == [payload |-> b[p], manifest |-> m]
  <1>1. TypeOK /\ Holds(w) /\ pc[w] # "idle" /\ pc[w] # "cleanup"
    BY DEF IInv
  <1>2. /\ j \in Job /\ r \in Request /\ p \in Paths /\ j.entry \in Entries
        /\ b \in [Paths -> File] /\ files \in [Paths -> File]
    BY <1>1, BusyWorker DEF Job, FilesOK
  <1>3. SeenFiles = b
    BY <1>1, SeenBusy
  <1>4. Workspace!Granted(r)
    BY LateGranted DEF Late
  <1>5. \A q \in Paths \ {p} : files[q] = b[q]
    BY <1>1 DEF BInv, OthersAsBefore, Holds, ShapeInv, PlanPaths
  <1>6. ASSUME NEW q \in Paths PROVE files[q] = Workspace!After(r, q)
    <2>1. CASE q = p
      BY <1>2, <1>3, <2>1, AfterOwn
    <2>2. CASE q # p
      <3>1. Workspace!After(r, q) = IF q \in Workflows THEN Becomes(b, r, q) ELSE b[q]
        BY <1>2, <1>3, <2>2, AfterOthers
      <3>2. Becomes(b, r, q) = b[q]
        BY DEF Becomes
      <3>3. QED  BY <1>5, <2>2, <3>1, <3>2
    <2>3. QED  BY <2>1, <2>2
  <1>7. SeenFiles' = [q \in Paths |-> Workspace!After(r, q)]
    BY <1>2, <1>6
  <1>8. trash[j.entry].payload = b[p] /\ b[p] # Absent
    BY <1>1 DEF Holds, DeleteInv, BInv, Remembers
  <1>9. Recovered(trash'[j.entry]) = e
    BY <1>8 DEF Recovered
  <1>10. Working(w, j.entry) /\ \A t : t # j.entry => ~Working(w, t)
    BY DEF Working
  <1>11. SeenTrash[j.entry] = Workspace!Empty
    <2>1. SeenEntry(j.entry) = NoEntry
      BY <1>1, <1>10, SeenEntryIs
    <2>2. QED  BY <1>2, <2>1 DEF SeenTrash, Workspace!Empty, NoEntry
  <1>12. SeenTrash' = [SeenTrash EXCEPT ![j.entry] = e]
    <2>1. \A t \in Entries : t # j.entry => SeenEntry(t)' = SeenEntry(t)
      BY <1>10, SeenEntryIs
    <2>2. \A t \in Entries : t = j.entry => SeenEntry(t)' = e
      BY <1>9
    <2> HIDE DEF e
    <2>3. QED  BY <2>1, <2>2 DEF SeenTrash
  <1>13. Workspace!Binned(r, m)
    BY <1>2, <1>3, <1>11, <1>12 DEF Workspace!Binned
  <1>14. QED  BY <1>4, <1>7, <1>13

\* The payload of a restored entry is at its path again.
LEMMA RestoredSeen ==
  ASSUME IInv, NEW w \in Workers, w = Client, BInv(w), SaveInv(w), GrantInv(w),
         pc[w] = "cleanup", SeenFiles' = files,
         \A t \in Entries : SeenEntry(t)' = Recovered(trash'[t]),
         \A t \in Entries : t # job[w].entry => trash'[t] = trash[t],
         trash'[job[w].entry].payload = Absent
  PROVE  /\ Workspace!Granted(job[w].req)
         /\ SeenFiles' = [q \in Paths |-> Workspace!After(job[w].req, q)]
         /\ SeenTrash' = [SeenTrash EXCEPT ![job[w].req.entry] = Workspace!Empty]
         /\ job[w].req.op = "restore"
         /\ files[SeenTrash[job[w].req.entry].manifest] # Absent
  <1> DEFINE j == job[w]
             b == job[w].before
             r == job[w].req
  <1>1. TypeOK /\ pc[w] # "idle"
    BY DEF IInv
  <1>2. /\ j \in Job /\ r \in Request /\ j.target \in Paths /\ j.entry \in Entries
        /\ b \in [Paths -> File] /\ files \in [Paths -> File] /\ r.op = "restore"
    <2>1. r.op \in Ops /\ pc[w] \in PhasesOf(r.op)
      BY <1>1, BusyWorker
    <2>2. r.op = "restore"
      BY <2>1 DEF PhasesOf, Ops
    <2>3. QED  BY <1>1, <2>2, BusyWorker DEF Job, FilesOK
  <1>3. SeenFiles = b
    BY <1>1, SeenBusy
  <1>4. Workspace!Granted(r)
    BY LateGranted DEF Late
  <1>5. /\ j.entry = r.entry /\ files[j.target] # Absent
        /\ \A q \in Paths \ {j.target} : files[q] = b[q]
    BY <1>1, <1>2 DEF GrantInv, TagGranted, TrashGranted
  <1>6. Working(w, j.entry) /\ \A t : t # j.entry => ~Working(w, t)
    BY DEF Working
  <1>7. SeenTrash[r.entry] = [payload |-> files[j.target], manifest |-> j.target]
    BY <1>2, <1>5, <1>6, SeenEntryIs DEF SeenTrash
  <1>8. ASSUME NEW q \in Paths PROVE files[q] = Workspace!After(r, q)
    <2>1. CASE q = j.target
      BY <1>2, <1>3, <1>7, <2>1, AfterOwn
    <2>2. CASE q # j.target
      <3>1. q # SeenTrash[r.entry].manifest
        BY <1>7, <2>2
      <3>2. Workspace!After(r, q) = IF q \in Workflows THEN Becomes(b, r, q) ELSE b[q]
        BY <1>2, <1>3, <3>1, AfterOthers
      <3>3. Becomes(b, r, q) = b[q]
        BY <1>2 DEF Becomes
      <3>4. QED  BY <1>5, <2>2, <3>2, <3>3
    <2>3. QED  BY <2>1, <2>2
  <1>9. SeenFiles' = [q \in Paths |-> Workspace!After(r, q)]
    BY <1>2, <1>8
  <1>10. SeenTrash' = [SeenTrash EXCEPT ![r.entry] = Workspace!Empty]
    <2>1. \A t \in Entries : t # j.entry => SeenEntry(t)' = SeenEntry(t)
      BY <1>6, SeenEntryIs
    <2>2. \A t \in Entries : t = j.entry => SeenEntry(t)' = Workspace!Empty
      BY DEF Recovered, NoEntry, Workspace!Empty
    <2>3. QED  BY <1>5, <2>1, <2>2 DEF SeenTrash
  <1>11. QED  BY <1>2, <1>4, <1>5, <1>7, <1>9, <1>10

\* What is left of an interrupted delete whose source is in the trash, or restore whose
\* payload is back.
LEMMA HalfTrashed ==
  ASSUME NEW r, Workspace!Granted(r),
         SeenFiles' = [q \in Paths |-> Workspace!After(r, q)],
         \/ /\ r.op = "delete" /\ SeenFiles'[r.path] = Absent
            /\ \E m \in {r.path, Absent, Torn} : Workspace!Binned(r, m)
         \/ /\ r.op = "restore" /\ SeenFiles'[SeenTrash[r.entry].manifest] # Absent
            /\ SeenTrash' = [SeenTrash EXCEPT ![r.entry] = Workspace!Empty]
  PROVE  Workspace!Half(r)
  <1> DEFINE S == Paths
  <1>1. SeenFiles' = [q \in Paths |-> IF q \in S THEN Workspace!After(r, q) ELSE SeenFiles[q]]
    OBVIOUS
  <1>2. S \in SUBSET Paths
    OBVIOUS
  <1> HIDE DEF S
  <1>3. Workspace!Trashed(r, {r.path, Absent, Torn})
    BY DEF Workspace!Trashed
  <1>4. QED  BY <1>1, <1>2, <1>3 DEF Workspace!Half

\* The answers of delete and restore.
LEMMA TrashSeen ==
  ASSUME IInv, NEW w \in Workers, w = Client, BInv(w), SaveInv(w), GrantInv(w),
         Trash(w), ~SameRequest(w)
  PROVE  Workspace!Accept \/ Workspace!Fail \/ Workspace!RestoreUncleared \/ Workspace!Mangle
  <1> DEFINE j == job[w]
             b == job[w].before
             r == job[w].req
             p == job[w].req.path
  <1>1. TypeOK /\ Holds(w) /\ pc[w] # "idle" /\ Step(w)
    BY StepBusy DEF IInv, Step
  <1>2. \A phase, k : phase # "idle" => ~Proceed(w, phase, k)
    <2>1. ASSUME NEW phase, NEW k, phase # "idle", Proceed(w, phase, k) PROVE FALSE
      <3>1. pc'[w] # "idle"
        BY <1>1, <2>1, Proceeded
      <3>2. \A s : ~Respond(w, s)
        BY <1>1, <3>1 DEF TypeOK, Respond
      <3>3. QED  BY <1>1, <3>2, StepKeepsRequest
    <2>2. QED  BY <2>1
  <1>3. /\ j \in Job /\ r \in Request /\ r.op \in Ops /\ pc[w] \in PhasesOf(r.op)
        /\ p \in Paths /\ j.target \in Paths /\ j.entry \in Entries
        /\ b \in [Paths -> File] /\ files \in [Paths -> File] /\ trash \in [Entries -> Entry]
        /\ faults \in Nat /\ j.since \in Nat /\ j.since <= faults
    BY <1>1, BusyWorker, Numbers, BoundsAssumption DEF Job, FilesOK, BInv
  <1>4. SeenRequest = r /\ SeenFiles = b /\ SeenSince = j.since
    BY <1>1, SeenBusy
  <1>5. \/ WriteManifest(w) \/ UndoMoveDelete(w) \/ UndoMoveDeleteFails(w) \/ MoveRestore(w)
        \/ MoveRestoreFails(w) \/ Cleanup(w) \/ CleanupFails(w)
    BY <1>2 DEF Trash, MoveDelete, MoveDeleteFails, WriteManifestFails, Continue
  <1>6. ASSUME NEW s, Respond(w, s)
        PROVE  /\ Workspace!Answer(s) /\ SeenFiles' = files'
               /\ \A t \in Entries : SeenEntry(t)' = Recovered(trash'[t])
    BY <1>1, <1>6, AnswersSeen
  <1>7. CASE WriteManifest(w)
    <2>1. /\ pc[w] = "manifest" /\ trash' = [trash EXCEPT ![j.entry].manifest = p]
          /\ Respond(w, 200) /\ files' = files /\ faults' = faults
      BY <1>7 DEF WriteManifest, Answer
    <2>2. r.op = "delete"
      BY <1>3, <2>1 DEF PhasesOf, Ops
    <2>3. files[p] = Absent
      BY <1>1, <2>1, <2>2 DEF Holds, DeleteInv
    <2>4. /\ \A t \in Entries : t # j.entry => trash'[t] = trash[t]
          /\ trash'[j.entry] = [payload |-> trash[j.entry].payload, manifest |-> p]
      BY <1>3, <2>1 DEF Entry
    <2>5. Workspace!Answer(200) /\ SeenFiles' = files
          /\ \A t \in Entries : SeenEntry(t)' = Recovered(trash'[t])
      BY <1>6, <2>1
    <2>6. /\ Workspace!Granted(r) /\ SeenFiles' = [q \in Paths |-> Workspace!After(r, q)]
          /\ Workspace!Binned(r, p)
      BY <2>1, <2>2, <2>3, <2>4, <2>5, DeletedSeen
    <2>7. Workspace!Done(r)
      BY <2>2, <2>6 DEF Workspace!Done, Workspace!Trashed
    <2>8. ~Workspace!Misfiled(r)
      BY <2>2 DEF Workspace!Misfiled
    <2>9. QED  BY <1>4, <2>1, <2>5, <2>7, <2>8 DEF Workspace!Accept
  <1>8. CASE UndoMoveDelete(w) \/ UndoMoveDeleteFails(w)
    <2>1. pc[w] = "undoMove" /\ r.op = "delete" /\ Respond(w, 500)
      BY <1>8 DEF UndoMoveDelete, UndoMoveDeleteFails, Answer
    <2>2. faults > j.since /\ (faults' = faults \/ faults' = faults + 1)
      BY <1>1, <2>1, FaultsOnce DEF BInv
    <2>3. /\ Workspace!Answer(500) /\ SeenFiles' = files'
          /\ \A t \in Entries : SeenEntry(t)' = Recovered(trash'[t])
      BY <1>6, <2>1
    <2>4. /\ \/ files[p] = j.seen /\ trash[j.entry].payload = Absent
             \/ files[p] = Absent /\ trash[j.entry].payload = j.seen
          /\ j.seen # Absent /\ j.seen = b[p]
      BY <1>1, <2>1 DEF Holds, DeleteInv, BInv, Remembers
    <2>5. \A q \in Paths \ {p} : files[q] = b[q]
      BY <1>1, <2>1 DEF BInv, OthersAsBefore, Holds, ShapeInv, PlanPaths
    <2>6. Working(w, j.entry) /\ \A t : t # j.entry => ~Working(w, t)
      BY <2>1 DEF Working
    <2>7. CASE UndoMoveDelete(w)
      <3>1. \/ /\ trash[j.entry].payload = Absent /\ files' = files /\ trash' = trash
            \/ /\ trash[j.entry].payload # Absent
               /\ files' = [files EXCEPT ![p] = trash[j.entry].payload]
               /\ trash' = [trash EXCEPT ![j.entry].payload = Absent]
        BY <2>7 DEF UndoMoveDelete
      <3>2. \A q \in Paths : files'[q] = b[q]
        BY <1>3, <2>4, <2>5, <3>1
      <3>3. files' = b
        <4>1. files' \in [Paths -> File]
          BY <1>3, <3>1 DEF Entry
        <4>2. QED  BY <1>3, <3>2, <4>1
      <3>4. /\ trash'[j.entry].payload = Absent
            /\ \A t \in Entries : t # j.entry => trash'[t] = trash[t]
        BY <1>3, <3>1 DEF Entry
      <3>5. \A t \in Entries : t = j.entry => SeenEntry(t)' = NoEntry /\ SeenEntry(t) = NoEntry
        <4>1. \A t \in Entries : t = j.entry => SeenEntry(t) = NoEntry
          BY <2>1, <2>6, SeenEntryIs
        <4>2. \A t \in Entries : t = j.entry => SeenEntry(t)' = NoEntry
          BY <2>3, <3>4 DEF Recovered
        <4>3. QED  BY <4>1, <4>2
      <3>6. \A t \in Entries : SeenEntry(t)' = SeenEntry(t)
        BY <2>3, <2>6, <3>4, <3>5, SeenEntryIs
      <3>7. SeenTrash' = SeenTrash
        BY <3>6 DEF SeenTrash
      <3>8. faults' > j.since
        BY <1>3, <2>2
      <3>9. QED  BY <1>1, <2>1, <3>3, <3>7, <3>8, FailSeen
    <2>8. CASE UndoMoveDeleteFails(w)
      <3>1. /\ trash[j.entry].payload # Absent /\ files' = files /\ trash' = trash
            /\ faults' = faults + 1
        BY <2>8 DEF UndoMoveDeleteFails, Fault
      <3>2. trash[j.entry].manifest \in {Absent, Torn}
        BY <1>1, <2>1 DEF GrantInv, TrashGranted
      <3>3. /\ trash'[j.entry] = [payload |-> trash[j.entry].payload,
                                  manifest |-> trash[j.entry].manifest]
            /\ \A t \in Entries : t # j.entry => trash'[t] = trash[t]
        BY <1>3, <3>1 DEF Entry
      <3>4. files[p] = Absent /\ SeenFiles' = files
        BY <2>3, <2>4, <3>1
      <3>5. /\ Workspace!Granted(r) /\ SeenFiles' = [q \in Paths |-> Workspace!After(r, q)]
            /\ Workspace!Binned(r, trash[j.entry].manifest)
        BY <2>1, <2>3, <3>3, <3>4, DeletedSeen
      <3>6. Workspace!Half(r)
        BY <2>1, <3>2, <3>4, <3>5, HalfTrashed
      <3>7. faults' \in {faults, faults + 1} /\ faults' > j.since + 1
        BY <1>3, <2>2, <3>1
      <3>8. QED  BY <1>4, <2>3, <3>6, <3>7 DEF Workspace!Mangle, Workspace!Faulty
    <2>9. QED  BY <1>8, <2>7, <2>8
  <1>9. ~MoveRestore(w)
    <2>1. pc[w] = "move" /\ r.op = "restore" => trash[j.entry].payload # Absent
      BY <1>1 DEF Holds, RestoreInv
    <2>2. QED  BY <1>2, <2>1 DEF MoveRestore, Continue
  <1>10. CASE MoveRestoreFails(w)
    <2>1. /\ pc[w] = "move" /\ r.op = "restore" /\ Respond(w, 500) /\ files' = files
          /\ trash' = trash /\ faults' = faults + 1
      BY <1>10 DEF MoveRestoreFails, Fault
    <2>2. files' = b
      BY <1>1, <2>1 DEF BInv, Early
    <2>3. SeenTrash' = SeenTrash
      <3>1. \A t : ~Working(w, t)
        BY <2>1 DEF Working
      <3>2. QED  BY <1>1, <2>1, <2>2, <3>1, AnswersUnchanged
    <2>4. faults' > j.since
      BY <1>3, <2>1
    <2>5. QED  BY <1>1, <2>1, <2>2, <2>3, <2>4, FailSeen
  <1>11. CASE Cleanup(w) \/ CleanupFails(w)
    <2>1. pc[w] = "cleanup" /\ files' = files
      BY <1>11 DEF Cleanup, CleanupFails
    <2>2. PICK e \in {trash[j.entry], NoEntry} : trash' = [trash EXCEPT ![j.entry] = e]
      BY <1>11 DEF Cleanup, CleanupFails
    <2>3. r.op = "restore"
      BY <1>3, <2>1 DEF PhasesOf, Ops
    <2>4. trash[j.entry].payload = Absent /\ NoEntry.payload = Absent
      BY <1>1, <2>1, <2>3 DEF Holds, RestoreInv, NoEntry
    <2>5. /\ trash'[j.entry].payload = Absent
          /\ \A t \in Entries : t # j.entry => trash'[t] = trash[t]
      BY <1>3, <2>2, <2>4
    <2>6. ASSUME NEW s, Respond(w, s)
          PROVE  Workspace!Answer(s) /\ Workspace!Done(r)
      <3>1. /\ Workspace!Answer(s) /\ SeenFiles' = files
            /\ \A t \in Entries : SeenEntry(t)' = Recovered(trash'[t])
        BY <1>6, <2>1, <2>6
      <3>2. /\ Workspace!Granted(r)
            /\ SeenFiles' = [q \in Paths |-> Workspace!After(r, q)]
            /\ SeenTrash' = [SeenTrash EXCEPT ![r.entry] = Workspace!Empty]
        BY <2>1, <2>5, <3>1, RestoredSeen
      <3>3. QED  BY <2>3, <3>1, <3>2 DEF Workspace!Done, Workspace!Trashed
    <2>7. CASE Cleanup(w)
      <3>1. files[j.target] # Absent
        BY <1>1, <2>1 DEF GrantInv, TrashGranted
      <3>2. Respond(w, 200) /\ faults' = faults
        BY <2>7, <3>1 DEF Cleanup, Answer
      <3>3. ~Workspace!Misfiled(r)
        BY <2>3 DEF Workspace!Misfiled
      <3>4. QED  BY <1>4, <2>6, <3>2, <3>3 DEF Workspace!Accept
    <2>8. CASE CleanupFails(w)
      <3>1. Respond(w, 500) /\ faults' = faults + 1
        BY <2>8 DEF CleanupFails, Fault
      <3>2. faults' \in {faults, faults + 1} /\ faults' > j.since
        BY <1>3, <3>1
      <3>3. QED  BY <1>4, <2>3, <2>6, <3>1, <3>2 DEF Workspace!RestoreUncleared, Workspace!Faulty
    <2>9. QED  BY <1>11, <2>7, <2>8
  <1>12. QED  BY <1>5, <1>7, <1>8, <1>9, <1>10, <1>11

LEMMA WriteSeen ==
  ASSUME IInv, NEW w \in Workers, w = Client, BInv(w), SaveInv(w), GrantInv(w),
         Write(w), ~SameRequest(w)
  PROVE  Workspace!Accept \/ Workspace!Fail
  <1> DEFINE j == job[w]
             r == job[w].req
  <1>1. TypeOK /\ Holds(w) /\ pc[w] # "idle" /\ Step(w)
    BY StepBusy DEF IInv, Step
  <1>2. \A phase, k : phase # "idle" => ~Proceed(w, phase, k)
    <2>1. ASSUME NEW phase, NEW k, phase # "idle", Proceed(w, phase, k) PROVE FALSE
      <3>1. pc'[w] # "idle"
        BY <1>1, <2>1, Proceeded
      <3>2. \A s : ~Respond(w, s)
        BY <1>1, <3>1 DEF TypeOK, Respond
      <3>3. QED  BY <1>1, <3>2, StepKeepsRequest
    <2>2. QED  BY <2>1
  <1>3. ~WritePrimary(w) /\ ~MoveRename(w) /\ ~MoveRenameFails(w) /\ ~WriteDependentFails(w)
        /\ \A q \in Paths : ~WriteDependent(w, q)
    BY <1>2 DEF WritePrimary, MoveRename, MoveRenameFails, WriteDependentFails, WriteDependent,
       Dependents, Continue
  <1>4. CASE WritePrimaryFails(w)
    <2>1. /\ pc[w] = "write" /\ Respond(w, 500) /\ files' = files /\ trash' = trash
          /\ faults' = faults + 1
      BY <1>2, <1>4 DEF WritePrimaryFails, Fault
    <2>2. files' = job[w].before
      BY <1>1, <2>1 DEF BInv, Early
    <2>3. SeenTrash' = SeenTrash
      <3>1. \A t : ~Working(w, t)
        BY <2>1 DEF Working
      <3>2. QED  BY <1>1, <2>1, <2>2, <3>1, AnswersUnchanged
    <2>4. faults' > job[w].since
      <3>1. faults \in Nat /\ job[w].since \in Nat /\ job[w].since <= faults
        BY <1>1, BusyWorker, Numbers, BoundsAssumption DEF Job, BInv
      <3>2. QED  BY <2>1, <3>1
    <2>5. QED  BY <1>1, <2>1, <2>2, <2>3, <2>4, FailSeen
  <1>5. QED  BY <1>3, <1>4, RereadSeen DEF Write

\* The process dies: what the client finds is what the handler had written so far.
LEMMA CrashSeen ==
  ASSUME IInv, NEW w \in Workers, w = Client, BInv(w), SaveInv(w), GrantInv(w),
         pc[w] # "idle", \A v \in Workers : v = w, Crash
  PROVE  Workspace!Crash
  <1> DEFINE j == job[w]
             b == job[w].before
             r == job[w].req
             p == job[w].req.path
  <1>1. /\ TypeOK /\ Holds(w) /\ pc'[w] = "idle" /\ files' = files /\ faults' = faults
        /\ reply' = reply
    BY DEF IInv, Crash
  <1>2. /\ j \in Job /\ r \in Request /\ r.op \in Ops /\ pc[w] \in PhasesOf(r.op)
        /\ p \in Paths /\ j.entry \in Entries /\ b \in [Paths -> File]
        /\ files \in [Paths -> File] /\ trash \in [Entries -> Entry]
    BY <1>1, BusyWorker DEF Job, FilesOK
  <1>3. SeenRequest = r /\ SeenFiles = b /\ r # NoJob
    BY <1>2, SeenBusy, SpecialsAssumption
  <1>4. SeenFiles' = files /\ SeenRequest' = NoJob /\ SeenSince' = 0
    <2>1. Client' = Client
      BY DEF Client
    <2>2. QED  BY <1>1, <2>1 DEF SeenFiles, SeenRequest, SeenSince
  <1>5. \A t \in Entries : SeenEntry(t)' = Recovered(trash'[t])
    <2>1. \A t : ~Working(w, t)'
      BY <1>1 DEF Working
    <2>2. QED  BY <2>1, SeenEntryIsNext
  <1>6. \/ trash' = trash
        \/ /\ pc[w] = "manifest"
           /\ \A t \in Entries : t # j.entry => trash'[t] = trash[t]
           /\ trash'[j.entry] = [payload |-> trash[j.entry].payload, manifest |-> Torn]
    <2>1. PICK torn \in SUBSET {v \in Workers : pc[v] = "manifest"} :
            trash' = [t \in Entries |-> IF \E v \in torn : job[v].entry = t
                                        THEN [trash[t] EXCEPT !.manifest = Torn] ELSE trash[t]]
      BY DEF Crash
    <2>2. CASE torn = {}
      BY <1>2, <2>1, <2>2
    <2>3. CASE torn # {}
      <3>1. pc[w] = "manifest" /\ w \in torn /\ \A v \in torn : v = w
        BY <2>3
      <3>2. \A t \in Entries : t # j.entry => trash'[t] = trash[t]
        BY <2>1, <3>1
      <3>3. trash'[j.entry] = [trash[j.entry] EXCEPT !.manifest = Torn]
        BY <1>2, <2>1, <3>1
      <3>4. [trash[j.entry] EXCEPT !.manifest = Torn] =
              [payload |-> trash[j.entry].payload, manifest |-> Torn]
        BY <1>2 DEF Entry
      <3>5. QED  BY <3>1, <3>2, <3>3, <3>4
    <2>4. QED  BY <2>2, <2>3
  <1>7. SUFFICES Workspace!Half(r)
    <2>1. reply[Client]' = reply[Client]
      BY <1>1 DEF Client
    <2>2. QED  BY <1>1, <1>3, <1>4, <2>1 DEF Workspace!Crash
  <1>8. ASSUME trash' = trash, \A t : ~Working(w, t) PROVE SeenTrash' = SeenTrash
    <2>1. \A t \in Entries : SeenEntry(t)' = SeenEntry(t)
      BY <1>5, <1>8, SeenEntryIs
    <2>2. QED  BY <2>1 DEF SeenTrash
  <1>9. CASE pc[w] \in Early
    <2>1. files = b /\ trash' = trash /\ \A t : ~Working(w, t)
      BY <1>6, <1>9 DEF BInv, Early, Working
    <2>2. SeenTrash' = SeenTrash
      BY <1>8, <2>1
    <2>3. QED  BY <1>3, <1>4, <2>1, <2>2 DEF Workspace!Half
  <1>10. CASE pc[w] \notin Early /\ r.op \in Saving
    <2>1. pc[w] \in {"dependents", "undoPrimary", "undoDependents", "undoMove"}
      BY <1>2, <1>10 DEF PhasesOf, Early, Saving
    <2>2. \A t : ~Working(w, t)
      BY <1>10, <2>1 DEF Working, Saving
    <2>3. SeenTrash' = SeenTrash
      BY <1>6, <1>8, <2>1, <2>2
    <2>4. /\ \A q \in Paths : files[q] \in {b[q], Workspace!After(r, q)}
          /\ r.op = "rename" => (files[p] = Absent) = (files[r.to] # Absent)
      BY <1>10, <2>1, LateMixed DEF Late
    <2>5. QED  BY <1>2, <1>4, <1>10, <2>1, <2>3, <2>4, HalfSaved DEF Late
  <1>11. CASE pc[w] \notin Early /\ r.op = "delete"
    <2>1. pc[w] \in {"manifest", "undoMove"}
      BY <1>2, <1>11 DEF PhasesOf, Early
    <2>2. /\ pc[w] = "manifest" => files[p] = Absent
          /\ pc[w] = "undoMove" =>
               \/ files[p] = j.seen /\ trash[j.entry].payload = Absent
               \/ files[p] = Absent
          /\ j.seen = b[p]
      BY <1>1, <1>11, <2>1 DEF Holds, DeleteInv, BInv, Remembers
    <2>3. CASE files[p] = Absent
      <3>1. trash[j.entry].manifest \in {Absent, Torn}
        BY <1>11, <2>1 DEF GrantInv, TrashGranted
      <3>2. PICK m \in {Absent, Torn} :
              /\ \A t \in Entries : t # j.entry => trash'[t] = trash[t]
              /\ trash'[j.entry] = [payload |-> trash[j.entry].payload, manifest |-> m]
        <4>1. CASE trash' = trash
          BY <1>2, <3>1, <4>1 DEF Entry
        <4>2. CASE trash' # trash
          BY <1>6, <4>2
        <4>3. QED  BY <4>1, <4>2
      <3>3. /\ Workspace!Granted(r)
            /\ SeenFiles' = [q \in Paths |-> Workspace!After(r, q)]
            /\ Workspace!Binned(r, m)
        BY <1>4, <1>5, <1>11, <2>1, <2>3, <3>2, DeletedSeen
      <3>4. QED  BY <1>4, <1>11, <2>3, <3>3, HalfTrashed
    <2>4. CASE files[p] # Absent
      <3>1. /\ pc[w] = "undoMove" /\ files[p] = b[p] /\ trash[j.entry].payload = Absent
            /\ trash' = trash
        BY <1>6, <2>1, <2>2, <2>4
      <3>2. \A q \in Paths \ {p} : files[q] = b[q]
        BY <1>1, <1>11, <2>1 DEF BInv, OthersAsBefore, Holds, ShapeInv, PlanPaths
      <3>3. files = b
        BY <1>2, <3>1, <3>2
      <3>4. Working(w, j.entry) /\ \A t : t # j.entry => ~Working(w, t)
        BY <1>11, <2>1 DEF Working
      <3>5. \A t \in Entries : t = j.entry => SeenEntry(t)' = NoEntry /\ SeenEntry(t) = NoEntry
        <4>1. \A t \in Entries : t = j.entry => SeenEntry(t) = NoEntry
          BY <3>1, <3>4, SeenEntryIs
        <4>2. \A t \in Entries : t = j.entry => SeenEntry(t)' = NoEntry
          BY <1>5, <3>1 DEF Recovered
        <4>3. QED  BY <4>1, <4>2
      <3>6. \A t \in Entries : SeenEntry(t)' = SeenEntry(t)
        BY <1>5, <3>1, <3>4, <3>5, SeenEntryIs
      <3>7. SeenTrash' = SeenTrash
        BY <3>6 DEF SeenTrash
      <3>8. QED  BY <1>3, <1>4, <3>3, <3>7 DEF Workspace!Half
    <2>5. QED  BY <2>3, <2>4
  <1>12. CASE pc[w] \notin Early /\ r.op = "restore"
    <2>1. pc[w] = "cleanup"
      BY <1>2, <1>12 DEF PhasesOf, Early
    <2>2. trash' = trash /\ trash'[j.entry].payload = Absent
      BY <1>1, <1>6, <1>12, <2>1 DEF Holds, RestoreInv
    <2>3. /\ Workspace!Granted(r)
          /\ SeenFiles' = [q \in Paths |-> Workspace!After(r, q)]
          /\ SeenTrash' = [SeenTrash EXCEPT ![r.entry] = Workspace!Empty]
          /\ files[SeenTrash[r.entry].manifest] # Absent
      BY <1>4, <1>5, <2>1, <2>2, RestoredSeen
    <2>4. QED  BY <1>4, <1>12, <2>3, HalfTrashed
  <1>13. QED  BY <1>2, <1>9, <1>10, <1>11, <1>12 DEF Ops, Saving

LEMMA SubmitSeen ==
  ASSUME TypeOK, NEW w \in Workers, w = Client, Submit(w) PROVE Workspace!Next
  <1>1. PICK r \in Requests :
          /\ pc' = [pc EXCEPT ![w] = Start(r)]
          /\ job' = [job EXCEPT ![w] =
               [req |-> r, tag |-> TagOf(r),
                entry |-> IF r.op = "restore" THEN r.entry ELSE served + 1,
                target |-> IF r.op = "rename" THEN r.to ELSE r.path, seen |-> Absent,
                was |-> Absent, next |-> r.content, plan |-> {}, left |-> {}, before |-> files,
                since |-> faults]]
    BY DEF Submit
  <1>2. /\ pc[w] = "idle" /\ files' = files /\ trash' = trash /\ faults' = faults
        /\ reply'[w] = 0
    BY DEF Submit, TypeOK
  <1>3. pc'[w] = Start(r) /\ job'[w].req = r /\ job'[w].before = files /\ job'[w].since = faults
    BY <1>1 DEF TypeOK
  <1>4. pc'[w] \in {"match", "cycle", "check"}
    BY <1>3, InputsAssumption DEF Start, Request, Ops
  <1>5. Client' = Client
    BY DEF Client
  <1>6. SeenFiles' = SeenFiles /\ SeenRequest = NoJob /\ SeenRequest' = r
        /\ SeenSince' = faults
    BY <1>2, <1>3, <1>4, <1>5 DEF SeenFiles, SeenRequest, SeenSince
  <1>7. SeenTrash' = SeenTrash
    <2>1. \A t : ~Working(w, t) /\ ~Working(w, t)'
      BY <1>2, <1>4 DEF Working
    <2>2. \A t \in Entries : SeenEntry(t)' = SeenEntry(t)
      BY <1>2, <2>1, SeenEntryIs, SeenEntryIsNext
    <2>3. QED  BY <2>2 DEF SeenTrash
  <1>8. reply[Client]' = 0
    BY <1>2 DEF Client
  <1>9. Workspace!Ask(r)
    BY <1>2, <1>6, <1>7, <1>8 DEF Workspace!Ask
  <1>10. QED  BY <1>9 DEF Workspace!Next

LEMMA StepSeen ==
  ASSUME IInv, NEW w \in Workers, w = Client, BInv(w), SaveInv(w), GrantInv(w), Step(w)
  PROVE  Workspace!Next \/ UNCHANGED Workspace!vars
  <1>1. CASE SameRequest(w)
    BY <1>1, ProceedsUnseen
  <1>2. CASE ~SameRequest(w)
    BY <1>2, RefusalSeen, WriteSeen, UndoneSeen, TrashSeen DEF Step, Workspace!Next
  <1>3. QED  BY <1>1, <1>2

\* The handlers' invariants, together.
HandlerInv == IInv /\ \A w \in Workers : BInv(w) /\ SaveInv(w) /\ GrantInv(w)

LEMMA NextGrants ==
  ASSUME Sequential, HandlerInv, Next PROVE \A w \in Workers : GrantInv(w)'
  <1>1. CASE \E v \in Workers : Submit(v) \/ Step(v)
    <2>1. PICK v \in Workers : Submit(v) \/ Step(v)
      BY <1>1
    <2>2. GrantInv(v)'
      BY <2>1, StepGrants DEF HandlerInv
    <2>3. QED  BY <2>2 DEF Sequential
  <1>2. CASE Crash
    BY <1>2 DEF Crash, GrantInv
  <1>3. CASE UNCHANGED vars
    BY <1>3 DEF vars, HandlerInv, GrantInv, TagGranted, TextGranted, TrashGranted
  <1>4. QED  BY <1>1, <1>2, <1>3 DEF Next, Quiet

LEMMA NextSeen ==
  ASSUME Sequential, Workers # {}, HandlerInv, [Next]_vars
  PROVE  [Workspace!Next]_(Workspace!vars)
  <1>1. Client \in Workers /\ \A v \in Workers : v = Client
    BY DEF Client, Sequential
  <1>2. CASE \E v \in Workers : Submit(v) \/ Step(v)
    <2>1. Submit(Client) \/ Step(Client)
      BY <1>1, <1>2
    <2>2. QED  BY <1>1, <2>1, SubmitSeen, StepSeen DEF HandlerInv, IInv
  <1>3. CASE Crash
    <2>1. pc[Client] # "idle"
      BY <1>1, <1>3 DEF Crash
    <2>2. Workspace!Crash
      BY <1>1, <1>3, <2>1, CrashSeen DEF HandlerInv
    <2>3. QED  BY <2>2 DEF Workspace!Next
  <1>4. CASE UNCHANGED vars
    <2>1. UNCHANGED Workspace!vars
      BY <1>4 DEF vars, Workspace!vars, SeenFiles, SeenTrash, SeenEntry, SeenRequest,
                  SeenSince, Client
    <2>2. QED  BY <2>1
  <1>5. QED  BY <1>2, <1>3, <1>4 DEF Next, Quiet

LEMMA InitSeen ==
  ASSUME Workers # {}, Init PROVE Workspace!Init
  <1>1. Client \in Workers
    BY DEF Client
  <1>2. pc[Client] = "idle" /\ reply[Client] = 0 /\ faults = 0 /\ files \in Workspaces
    BY <1>1 DEF Init
  <1>3. SeenFiles = files /\ SeenRequest = NoJob /\ SeenSince = 0
    BY <1>2 DEF SeenFiles, SeenRequest, SeenSince
  <1>4. SeenTrash = [t \in Entries |-> Workspace!Empty]
    <2>1. \A t \in Entries : trash[t] = NoEntry
      BY DEF Init
    <2>2. \A t \in Entries : SeenEntry(t) = Workspace!Empty
      BY <1>2, <2>1 DEF SeenEntry, NoEntry, Workspace!Empty
    <2>3. QED  BY <2>2 DEF SeenTrash
  <1>5. QED  BY <1>2, <1>3, <1>4 DEF Workspace!Init

\* One request at a time, for every workspace, set of requests and bound on failures and
\* crashes, every step of a handler is a step of the atomic workspace or invisible: an
\* accepted save, rename, delete or restore (StudioDocumentService.java lines 113-350 and
\* 502-570) happens as one step, a refused or rolled-back one not at all.
THEOREM HandlersAreAtomic ==
  Sequential /\ Workers # {} /\ Spec => ImplementsAtomicWorkspace
  <1>1. SUFFICES ASSUME Sequential, Workers # {} PROVE Spec => ImplementsAtomicWorkspace
    OBVIOUS
  <1> DEFINE Others == \A w \in Workers : BInv(w) /\ SaveInv(w) /\ GrantInv(w)
  <1>2. Init => Others
    BY DEF Init, BInv, SaveInv, GrantInv
  <1>3. IInv /\ Others /\ [Next]_vars => Others'
    <2>1. SUFFICES ASSUME IInv, Others, [Next]_vars PROVE Others'
      OBVIOUS
    <2>2. /\ \A w \in Workers : BInv(w)'
          /\ \A w \in Workers : SaveInv(w)'
      BY <1>1, <2>1, NextBefore, NextSaves
    <2>3. \A w \in Workers : GrantInv(w)'
      <3>1. CASE Next
        BY <1>1, <2>1, <3>1, NextGrants DEF HandlerInv
      <3>2. CASE UNCHANGED vars
        BY <2>1, <3>2 DEF vars, GrantInv, TagGranted, TextGranted, TrashGranted
      <3>3. QED  BY <2>1, <3>1, <3>2
    <2>4. QED  BY <2>2, <2>3
  <1>4. IInv /\ Others /\ [Next]_vars => [Workspace!Next]_(Workspace!vars)
    BY <1>1, NextSeen DEF HandlerInv
  <1>5. Init => Workspace!Init
    BY <1>1, InitSeen
  <1>6. Spec => []IInv
    BY <1>1, IInvariant
  <1> HIDE DEF Others
  <1>7. QED  BY <1>2, <1>3, <1>4, <1>5, <1>6, PTL
             DEF Spec, ImplementsAtomicWorkspace, Workspace!Spec
=============================================================================
