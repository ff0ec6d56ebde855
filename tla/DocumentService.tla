--------------------------- MODULE DocumentService ---------------------------
(***************************************************************************)
(* The Studio workspace API: StudioDocumentService.java and the resources  *)
(* that call it.  Request threads (Workers) create, update, rename, delete *)
(* and restore documents straight on the file system: the service keeps no *)
(* state of its own and takes no lock, so each handler is a sequence of    *)
(* separate reads and writes of shared files, and any of the writes may    *)
(* fail or be the last one before the process dies.                        *)
(*                                                                         *)
(* An ETag is the hash of the bytes, so a revision is its content.  Of a   *)
(* content only what the handlers look at is kept: the workflow id (of a   *)
(* catalog, its operationId), the references to other documents, and the   *)
(* rest as an opaque body.                                                 *)
(***************************************************************************)
EXTENDS Integers, FiniteSets

CONSTANTS
  Paths,       \* canonical paths, numbered in the order inventory() sorts them
  Catalogs,    \* those below workflows/catalogs/
  Names,       \* workflow ids and operationIds
  Bodies,      \* the rest of a source
  PathSplice,  \* PathSplice[<<p, q>>][x]: path x with q for every p in its text
  NameSplice,  \* NameSplice[<<n, m>>][x]: operation x with m for an n it begins with
  AliasTails,  \* <<p, x>>: the alias of catalog x ends with the alias of catalog p
  Workers,     \* request threads
  Workspaces,  \* the workspaces a behaviour may start from
  Requests,    \* the requests clients send
  MaxRequests, \* bound: requests in one behaviour
  MaxFaults,   \* bound: failing writes and moves in one behaviour
  MaxCrashes,  \* bound: process restarts in one behaviour
  NoJob,       \* the locals of a thread that serves no request
  NoName,      \* no id in the source
  Absent,      \* no such file
  Torn,        \* a metadata.json cut short
  Stale, AnyTag, NoTag  \* If-Match: an older revision, "*", not sent

NoPath == 0

\* A reference, and which of its parts are written where a rewrite looks for them:
\* a subFlowRef that is not both unquoted and followed by a comment, definitions and
\* an operation on lines of their own.
Parts == {"path", "name"}
Ref(p, n) == [path |-> p, name |-> n, found |-> Parts]
Ids == Names \cup {NoName}
Refs == [path : Paths \cup {NoPath}, name : Ids, found : SUBSET Parts]
Content == [name : Ids, refs : SUBSET Refs, body : Bodies]
File == Content \cup {Absent}

Ops == {"create", "update", "rename", "delete", "restore"}
Request ==
  [op : Ops, kind : {"workflow", "catalog"}, path : Paths, to : Paths,
   content : Content, match : {"current", "stale", "any", "blank"},
   accept : BOOLEAN, entry : 1..MaxRequests]

ASSUME PathsAssumption == Paths \subseteq Nat \ {NoPath} /\ Catalogs \subseteq Paths
ASSUME BoundsAssumption ==
  MaxRequests \in Nat /\ MaxFaults \in Nat /\ MaxCrashes \in Nat
ASSUME SpecialsAssumption ==
  /\ NoName \notin Names
  /\ {Absent, Stale, AnyTag, NoTag} \cap Content = {}
  /\ {Absent, Torn} \cap Paths = {}
  /\ Absent # Torn
  /\ Absent \notin {Stale, AnyTag, NoTag} /\ AnyTag \notin {NoTag, Stale} /\ Stale # NoTag
  /\ NoJob \notin Request
ASSUME SplicesAssumption ==
  /\ PathSplice \in [Paths \X Paths -> [Paths -> Paths]]
  /\ NameSplice \in [Ids \X Ids -> [Ids -> Ids]]
  /\ \A n, m \in Ids : NameSplice[<<n, m>>][n] = m
  /\ AliasTails \subseteq Catalogs \X Catalogs
ASSUME InputsAssumption ==
  /\ Requests \subseteq Request
  /\ Workspaces \subseteq [Paths -> File]

VARIABLES
  files,    \* files[p]: the source at canonical path p
  trash,    \* trash[t]: the directory .studio/trash/<t>
  pc,       \* pc[w]: the step of its handler worker w takes next
  job,      \* job[w]: the local variables of that handler
  reply,    \* reply[w]: the status of w's last answer, 0 when it has none
  served,   \* requests received so far; numbers the trash ids (random UUIDs)
  faults,   \* writes and moves that failed so far
  crashes   \* process restarts so far

vars == <<files, trash, pc, job, reply, served, faults, crashes>>

Entries == 1..MaxRequests
Entry == [payload : File, manifest : Paths \cup {Absent, Torn}]
NoEntry == [payload |-> Absent, manifest |-> Absent]

Workflows == Paths \ Catalogs
KindOf(p) == IF p \in Catalogs THEN "catalog" ELSE "workflow"

----
(* The reference graph. *)

\* Which document a subflow reference of the workspace fs means: by path, or by
\* workflow id.  `self` is in the graph whatever its kind.
Candidates(fs, self, r) ==
  {p \in (Workflows \cup {self}) :
     /\ fs[p] # Absent
     /\ \/ r.path = p
        \/ r.path = NoPath /\ r.name # NoName /\ fs[p].name = r.name}

\* findFirst over the nodes: in inventory order, a path not in the inventory last.
Precedes(p, q, late) == q = late \/ (p # late /\ p <= q)

Callees(fs, self, late, p) ==
  IF fs[p] = Absent THEN {}
  ELSE {q \in Paths : \E r \in fs[p].refs :
          /\ q \in Candidates(fs, self, r)
          /\ \A s \in Candidates(fs, self, r) : Precedes(q, s, late)}

\* dependencyCycleDiagnostics: p reaches itself (every set of workflows closed
\* under the call relation that holds p's callees holds p).
InCycle(fs, p, late) ==
  \A S \in SUBSET Paths :
    /\ Callees(fs, p, late, p) \subseteq S
    /\ \A q \in S : Callees(fs, p, late, q) \subseteq S
    => p \in S

\* referencesTo: the other documents that name p by its path.
ReferencesTo(p) ==
  {q \in Workflows \ {p} : files[q] # Absent /\ \E r \in files[q].refs : r.path = p}

----
(* Rewriting the dependents of a change. *)

\* The path in reference x, once p is renamed q: a catalog's is replaced wherever its
\* text is found among the definitions, a workflow's only as a whole.
PathAfter(x, p, q) ==
  IF x.path = NoPath \/ "path" \notin x.found THEN x.path
  ELSE IF {p, x.path} \subseteq Catalogs THEN PathSplice[<<p, q>>][x.path]
  ELSE IF x.path = p THEN q ELSE x.path

\* c with its references to path p redirected to path q.
Repointed(c, p, q) == [c EXCEPT !.refs = {[x EXCEPT !.path = PathAfter(x, p, q)] : x \in c.refs}]

\* Whether the rewrite for ids of scope p looks at reference x of c: it finds
\* `alias#operation` also at the end of a longer alias, if c has an alias for p.
LooksAt(c, p, x) ==
  /\ "name" \in x.found
  /\ x.path = p \/ (<<p, x.path>> \in AliasTails /\ \E y \in c.refs : y.path = p)

\* The name it leaves: a workflow id is replaced as a whole, an operation also where a
\* longer one begins with it.
NameAfter(x, p, n, m) ==
  IF p # NoPath THEN NameSplice[<<n, m>>][x.name] ELSE IF x.name = n THEN m ELSE x.name

\* Fault: the scope of the name is ignored.
Reidentified_AnyScope(c, p, n, m) ==
  [c EXCEPT !.refs = {IF x.name = n THEN [x EXCEPT !.name = m] ELSE x : x \in c.refs}]

\* c with its references to id n (operation n of the catalog at p) made m.
Reidentified(c, p, n, m) ==
  [c EXCEPT !.refs =
     {IF LooksAt(c, p, x) THEN [x EXCEPT !.name = NameAfter(x, p, n, m)] ELSE x : x \in c.refs}]

\* The files to rewrite, given what every workflow should become: other than the
\* changed document, and only those that change.
PlanOf(p, new) ==
  {[path |-> q, was |-> files[q], now |-> new[q]] :
     q \in {q \in Workflows \ {p} : files[q] # Absent /\ new[q] # files[q]}}

PlanPaths(plan) == {r.path : r \in plan}

----
(* Requests and their handlers. *)

Job ==
  [req : Request, tag : File \cup {Stale, AnyTag, NoTag}, entry : Entries, target : Paths,
   seen : File, was : File, next : File,
   plan : SUBSET [path : Paths, was : Content, now : Content],
   left : SUBSET Paths, before : [Paths -> File], since : 0..MaxFaults]

Phases ==
  {"idle", "match", "read", "impact", "plan", "cycle", "check", "write", "move",
   "manifest", "dependents", "cleanup", "undoPrimary", "undoDependents", "undoMove"}

\* The ETag the client sends: of the revision it read just before, or one of the
\* other If-Match values.
TagOf(r) ==
  CASE r.match = "current" -> files[r.path]
    [] r.match = "stale" -> Stale
    [] r.match = "any" -> AnyTag
    [] r.match = "blank" -> NoTag

Start(r) ==
  CASE r.op \in {"update", "rename", "delete"} -> "match"
    [] r.op = "create" -> IF r.kind = "workflow" THEN "cycle" ELSE "check"
    [] r.op = "restore" -> "check"

Submit(w) ==
  /\ pc[w] = "idle"
  /\ served < MaxRequests
  /\ \E r \in Requests :
       /\ r.op \in {"update", "rename", "delete"} => r.kind = KindOf(r.path)
       /\ pc' = [pc EXCEPT ![w] = Start(r)]
       /\ job' = [job EXCEPT ![w] =
            [req |-> r, tag |-> TagOf(r),
             entry |-> IF r.op = "restore" THEN r.entry ELSE served + 1,
             target |-> IF r.op = "rename" THEN r.to ELSE r.path,
             seen |-> Absent, was |-> Absent, next |-> r.content,
             plan |-> {}, left |-> {}, before |-> files, since |-> faults]]
  /\ served' = served + 1
  /\ reply' = [reply EXCEPT ![w] = 0]
  /\ UNCHANGED <<files, trash, faults, crashes>>

\* The handler answers; a finished handler leaves nothing behind.
Respond(w, status) ==
  /\ pc' = [pc EXCEPT ![w] = "idle"]
  /\ job' = [job EXCEPT ![w] = NoJob]
  /\ reply' = [reply EXCEPT ![w] = status]
  /\ UNCHANGED <<served, crashes>>

\* The handler goes on at phase, with the locals j.
Proceed(w, phase, j) ==
  /\ pc' = [pc EXCEPT ![w] = phase]
  /\ job' = [job EXCEPT ![w] = j]
  /\ UNCHANGED <<reply, served, crashes>>

Answer(w, status) == Respond(w, status) /\ UNCHANGED faults
Continue(w, phase, j) == Proceed(w, phase, j) /\ UNCHANGED faults

\* A write or move throws.
Fault == faults < MaxFaults /\ faults' = faults + 1

----
(* Preconditions of update, rename and delete. *)

\* summaryRequired: not found.
MatchMissing(w) ==
  /\ pc[w] = "match" /\ files[job[w].req.path] = Absent
  /\ Answer(w, 404)
  /\ UNCHANGED <<files, trash>>

TagMatches(tag, revision) == tag \in {AnyTag, revision}

\* requireMatch refuses: no If-Match, or one of another revision.
MatchRefused(w) ==
  LET current == files[job[w].req.path] IN
  /\ pc[w] = "match" /\ current # Absent
  /\ ~TagMatches(job[w].tag, current)
  /\ Answer(w, IF job[w].tag = NoTag THEN 428 ELSE 409)
  /\ UNCHANGED <<files, trash>>

\* Fault: update goes on without reading the document it will replace.
AfterMatch_NoRead(op) ==
  CASE op = "update" -> "plan" [] op = "rename" -> "check" [] op = "delete" -> "impact"

AfterMatch(op) ==
  CASE op = "update" -> "read" [] op = "rename" -> "check" [] op = "delete" -> "impact"

MatchPassed(w) ==
  LET current == files[job[w].req.path] IN
  /\ pc[w] = "match" /\ current # Absent
  /\ TagMatches(job[w].tag, current)
  /\ Continue(w, AfterMatch(job[w].req.op), [job[w] EXCEPT !.seen = current])
  /\ UNCHANGED <<files, trash>>

\* update reads the document again: the image a failed write is rolled back to.
ReadExisting(w) ==
  LET current == files[job[w].req.path] IN
  /\ pc[w] = "read"
  /\ IF current = Absent
     THEN Answer(w, 404)
     ELSE Continue(w, "plan", [job[w] EXCEPT !.was = current])
  /\ UNCHANGED <<files, trash>>

\* delete looks for dependents; the client may have accepted the impact.
Impact(w) ==
  /\ pc[w] = "impact"
  /\ IF ReferencesTo(job[w].req.path) # {} /\ ~job[w].req.accept
     THEN Answer(w, 409)
     ELSE Continue(w, "check", job[w])
  /\ UNCHANGED <<files, trash>>

\* update: a changed workflow id (operationId of a catalog) is carried into the
\* document's own references and into every dependent.
PlanUpdate(w) ==
  LET p == job[w].req.path
      old == job[w].was.name
      new == job[w].req.content.name
      scope == IF p \in Catalogs THEN p ELSE NoPath
      renamed == old # NoName /\ new # NoName /\ old # new
      after == [q \in Workflows |->
                  IF files[q] = Absent THEN Absent
                  ELSE Reidentified(files[q], scope, old, new)]
  IN
  /\ pc[w] = "plan" /\ job[w].req.op = "update"
  /\ Continue(w, IF p \in Catalogs THEN "check" ELSE "cycle",
       [job[w] EXCEPT
          !.next = IF renamed /\ p \notin Catalogs
                   THEN Reidentified(job[w].req.content, scope, old, new)
                   ELSE job[w].req.content,
          !.plan = IF renamed THEN PlanOf(p, after) ELSE {}])
  /\ UNCHANGED <<files, trash>>

\* rename: every dependent's path references follow.
PlanRename(w) ==
  LET p == job[w].req.path
      after == [q \in Workflows |->
                  IF files[q] = Absent THEN Absent
                  ELSE Repointed(files[q], p, job[w].req.to)]
  IN
  /\ pc[w] = "plan" /\ job[w].req.op = "rename"
  /\ Continue(w, "move", [job[w] EXCEPT !.plan = PlanOf(p, after)])
  /\ UNCHANGED <<files, trash>>

\* Fault: only a document that calls itself is refused.
RefusesCycle_Direct(w) ==
  LET p == job[w].req.path IN
  p \in Callees([files EXCEPT ![p] = job[w].next], p, NoPath, p)

\* create and update of a workflow: the graph with the new source in place, and
\* the dependents as they are now.
RefusesCycle(w) ==
  LET p == job[w].req.path
      late == IF p \in Workflows /\ files[p] # Absent THEN NoPath ELSE p
  IN  InCycle([files EXCEPT ![p] = job[w].next], p, late)

Cycle(w) ==
  /\ pc[w] = "cycle"
  /\ IF RefusesCycle(w) THEN Answer(w, 409) ELSE Continue(w, "check", job[w])
  /\ UNCHANGED <<files, trash>>

----
(* The last look at the paths: secureMutationPath and the duplicate checks. *)

Free(p) == files[p] = Absent

CheckCreate(w) ==
  /\ pc[w] = "check" /\ job[w].req.op = "create"
  /\ IF Free(job[w].req.path) THEN Continue(w, "write", job[w]) ELSE Answer(w, 409)
  /\ UNCHANGED <<files, trash>>

CheckUpdate(w) ==
  /\ pc[w] = "check" /\ job[w].req.op = "update"
  /\ IF Free(job[w].req.path) THEN Answer(w, 404) ELSE Continue(w, "write", job[w])
  /\ UNCHANGED <<files, trash>>

CheckDelete(w) ==
  /\ pc[w] = "check" /\ job[w].req.op = "delete"
  /\ IF Free(job[w].req.path) THEN Answer(w, 404) ELSE Continue(w, "move", job[w])
  /\ UNCHANGED <<files, trash>>

\* Fault: rename does not look whether the new path is taken.
CheckRename_NoTarget(w) ==
  /\ pc[w] = "check" /\ job[w].req.op = "rename"
  /\ IF Free(job[w].req.path) THEN Answer(w, 404) ELSE Continue(w, "plan", job[w])
  /\ UNCHANGED <<files, trash>>

CheckRename(w) ==
  /\ pc[w] = "check" /\ job[w].req.op = "rename"
  /\ IF Free(job[w].req.path) THEN Answer(w, 404)
     ELSE IF Free(job[w].req.to) THEN Continue(w, "plan", job[w]) ELSE Answer(w, 409)
  /\ UNCHANGED <<files, trash>>

\* Fault: restore does not look whether the original path is taken again.
CheckRestore_NoTarget(w) ==
  LET e == trash[job[w].entry] IN
  /\ pc[w] = "check" /\ job[w].req.op = "restore"
  /\ IF job[w].tag = NoTag THEN Answer(w, 428)
     ELSE IF e.payload = Absent \/ e.manifest \notin Paths THEN Answer(w, 404)
     ELSE Continue(w, "move", [job[w] EXCEPT !.target = e.manifest])
  /\ UNCHANGED <<files, trash>>

\* restore: If-None-Match is required, both files of the entry must be there, the
\* manifest must parse, and the original path must be free.
CheckRestore(w) ==
  LET e == trash[job[w].entry] IN
  /\ pc[w] = "check" /\ job[w].req.op = "restore"
  /\ IF job[w].tag = NoTag THEN Answer(w, 428)
     ELSE IF e.payload = Absent \/ e.manifest = Absent THEN Answer(w, 404)
     ELSE IF e.manifest = Torn THEN Answer(w, 500)
     ELSE IF Free(e.manifest)
          THEN Continue(w, "move", [job[w] EXCEPT !.target = e.manifest])
          ELSE Answer(w, 409)
  /\ UNCHANGED <<files, trash>>

----
(* Writing.  A file is written to a temporary file and moved over the      *)
(* target, so it is replaced whole or not at all.                          *)

Dependents(w) ==
  Continue(w, "dependents", [job[w] EXCEPT !.left = PlanPaths(job[w].plan)])

WritePrimary(w) ==
  /\ pc[w] = "write"
  /\ files' = [files EXCEPT ![job[w].req.path] = job[w].next]
  /\ Dependents(w)
  /\ UNCHANGED trash

WritePrimaryFails(w) ==
  /\ pc[w] = "write"
  /\ IF job[w].req.op = "create"
     THEN Respond(w, 500)
     ELSE Proceed(w, "undoPrimary", job[w])
  /\ Fault
  /\ UNCHANGED <<files, trash>>

\* rename(2) replaces whatever is at the target by now; a missing source throws.
MoveRename(w) ==
  LET p == job[w].req.path  q == job[w].req.to IN
  /\ pc[w] = "move" /\ job[w].req.op = "rename"
  /\ IF files[p] = Absent
     THEN /\ Continue(w, "undoDependents", [job[w] EXCEPT !.left = PlanPaths(job[w].plan)])
          /\ UNCHANGED files
     ELSE /\ files' = [files EXCEPT ![q] = files[p], ![p] = Absent]
          /\ Dependents(w)
  /\ UNCHANGED trash

MoveRenameFails(w) ==
  /\ pc[w] = "move" /\ job[w].req.op = "rename"
  /\ Fault
  /\ Proceed(w, "undoDependents", [job[w] EXCEPT !.left = PlanPaths(job[w].plan)])
  /\ UNCHANGED <<files, trash>>

\* The rewrites of the plan, in path order.
Nth(w, q) == q \in job[w].left /\ \A s \in job[w].left : q <= s
RewriteOf(w, q) == CHOOSE r \in job[w].plan : r.path = q

\* Fault: the same dependent is written again and again.
WriteDependent_Again(w, q) ==
  /\ pc[w] = "dependents" /\ Nth(w, q)
  /\ files' = [files EXCEPT ![q] = RewriteOf(w, q).now]
  /\ Continue(w, "dependents", job[w])
  /\ UNCHANGED trash

WriteDependent(w, q) ==
  /\ pc[w] = "dependents" /\ Nth(w, q)
  /\ files' = [files EXCEPT ![q] = RewriteOf(w, q).now]
  /\ Continue(w, "dependents", [job[w] EXCEPT !.left = @ \ {q}])
  /\ UNCHANGED trash

WriteDependentFails(w) ==
  /\ pc[w] = "dependents" /\ job[w].left # {}
  /\ Fault
  /\ Proceed(w, IF job[w].req.op = "update" THEN "undoPrimary" ELSE "undoDependents",
       [job[w] EXCEPT !.left = PlanPaths(job[w].plan)])
  /\ UNCHANGED <<files, trash>>

\* The document is read back for the answer, by the id its kind and path give it.
Reread(w) ==
  LET p == job[w].target IN
  /\ pc[w] = "dependents" /\ job[w].left = {}
  /\ Answer(w, IF files[p] # Absent /\ KindOf(p) = job[w].req.kind THEN 200 ELSE 404)
  /\ UNCHANGED <<files, trash>>

----
(* Rolling back a failed update or rename: errors on the way are ignored.  *)

UndoPrimary(w) ==
  /\ pc[w] = "undoPrimary"
  /\ files' = [files EXCEPT ![job[w].req.path] = job[w].was]
  /\ Continue(w, "undoDependents", [job[w] EXCEPT !.left = PlanPaths(job[w].plan)])
  /\ UNCHANGED trash

UndoPrimaryFails(w) ==
  /\ pc[w] = "undoPrimary"
  /\ Fault
  /\ Proceed(w, "undoDependents", [job[w] EXCEPT !.left = PlanPaths(job[w].plan)])
  /\ UNCHANGED <<files, trash>>

\* Every dependent gets its old source, whether it was written already or not.
UndoDependent(w, q) ==
  /\ pc[w] = "undoDependents" /\ Nth(w, q)
  /\ files' = [files EXCEPT ![q] = RewriteOf(w, q).was]
  /\ Continue(w, "undoDependents", [job[w] EXCEPT !.left = @ \ {q}])
  /\ UNCHANGED trash

UndoDependentFails(w, q) ==
  /\ pc[w] = "undoDependents" /\ Nth(w, q)
  /\ Fault
  /\ Proceed(w, "undoDependents", [job[w] EXCEPT !.left = @ \ {q}])
  /\ UNCHANGED <<files, trash>>

\* Fault: a failed rename restores the dependents and leaves the document moved.
UndoDone_NoMove(w) ==
  /\ pc[w] = "undoDependents" /\ job[w].left = {}
  /\ Answer(w, 500)
  /\ UNCHANGED <<files, trash>>

UndoDone(w) ==
  /\ pc[w] = "undoDependents" /\ job[w].left = {}
  /\ IF job[w].req.op = "update" THEN Answer(w, 500) ELSE Continue(w, "undoMove", job[w])
  /\ UNCHANGED <<files, trash>>

\* rename: whatever is at the new path goes to the old one.
UndoMoveRename(w) ==
  LET p == job[w].req.path  q == job[w].req.to IN
  /\ pc[w] = "undoMove" /\ job[w].req.op = "rename"
  /\ files' = IF files[q] = Absent THEN files
              ELSE [files EXCEPT ![p] = files[q], ![q] = Absent]
  /\ Answer(w, 500)
  /\ UNCHANGED trash

UndoMoveRenameFails(w) ==
  /\ pc[w] = "undoMove" /\ job[w].req.op = "rename" /\ files[job[w].req.to] # Absent
  /\ Fault
  /\ Respond(w, 500)
  /\ UNCHANGED <<files, trash>>

----
(* Trash. *)

\* The entry directory is made and the source moved into it; a missing source throws.
MoveDelete(w) ==
  LET p == job[w].req.path IN
  /\ pc[w] = "move" /\ job[w].req.op = "delete"
  /\ IF files[p] = Absent
     THEN Continue(w, "undoMove", job[w]) /\ UNCHANGED <<files, trash>>
     ELSE /\ trash' = [trash EXCEPT ![job[w].entry].payload = files[p]]
          /\ files' = [files EXCEPT ![p] = Absent]
          /\ Continue(w, "manifest", job[w])

MoveDeleteFails(w) ==
  /\ pc[w] = "move" /\ job[w].req.op = "delete"
  /\ Fault
  /\ Proceed(w, "undoMove", job[w])
  /\ UNCHANGED <<files, trash>>

WriteManifest(w) ==
  /\ pc[w] = "manifest"
  /\ trash' = [trash EXCEPT ![job[w].entry].manifest = job[w].req.path]
  /\ Answer(w, 200)
  /\ UNCHANGED files

\* Files.writeString is not atomic: part of the manifest may be there.
WriteManifestFails(w) ==
  /\ pc[w] = "manifest"
  /\ \E m \in {Absent, Torn} : trash' = [trash EXCEPT ![job[w].entry].manifest = m]
  /\ Fault
  /\ Proceed(w, "undoMove", job[w])
  /\ UNCHANGED files

\* Fault: a delete whose manifest failed leaves the payload in the trash.
UndoMoveDelete_None(w) ==
  /\ pc[w] = "undoMove" /\ job[w].req.op = "delete"
  /\ Answer(w, 500)
  /\ UNCHANGED <<files, trash>>

UndoMoveDelete(w) ==
  LET p == job[w].req.path  t == job[w].entry IN
  /\ pc[w] = "undoMove" /\ job[w].req.op = "delete"
  /\ IF trash[t].payload = Absent THEN UNCHANGED <<files, trash>>
     ELSE /\ files' = [files EXCEPT ![p] = trash[t].payload]
          /\ trash' = [trash EXCEPT ![t].payload = Absent]
  /\ Answer(w, 500)

UndoMoveDeleteFails(w) ==
  /\ pc[w] = "undoMove" /\ job[w].req.op = "delete" /\ trash[job[w].entry].payload # Absent
  /\ Fault
  /\ Respond(w, 500)
  /\ UNCHANGED <<files, trash>>

\* rename(2) of the payload; replaces a document created since the check.
MoveRestore(w) ==
  LET t == job[w].entry IN
  /\ pc[w] = "move" /\ job[w].req.op = "restore"
  /\ IF trash[t].payload = Absent
     THEN Answer(w, 500) /\ UNCHANGED <<files, trash>>
     ELSE /\ files' = [files EXCEPT ![job[w].target] = trash[t].payload]
          /\ trash' = [trash EXCEPT ![t].payload = Absent]
          /\ Continue(w, "cleanup", job[w])

MoveRestoreFails(w) ==
  /\ pc[w] = "move" /\ job[w].req.op = "restore"
  /\ Fault
  /\ Respond(w, 500)
  /\ UNCHANGED <<files, trash>>

\* deleteTree; the restored document is then read back.
Cleanup(w) ==
  /\ pc[w] = "cleanup"
  /\ trash' = [trash EXCEPT ![job[w].entry] = NoEntry]
  /\ Answer(w, IF files[job[w].target] # Absent THEN 200 ELSE 404)
  /\ UNCHANGED files

\* The directory stays, with or without its manifest.
CleanupFails(w) ==
  /\ pc[w] = "cleanup"
  /\ \E e \in {trash[job[w].entry], NoEntry} : trash' = [trash EXCEPT ![job[w].entry] = e]
  /\ Fault
  /\ Respond(w, 500)
  /\ UNCHANGED files

----
\* The process dies: handlers are gone, files stay; a manifest being written may
\* be cut short.
Crash ==
  /\ crashes < MaxCrashes
  /\ crashes' = crashes + 1
  /\ \E w \in Workers : pc[w] # "idle"
  /\ pc' = [w \in Workers |-> "idle"]
  /\ job' = [w \in Workers |-> NoJob]
  /\ \E torn \in SUBSET {w \in Workers : pc[w] = "manifest"} :
       trash' = [t \in Entries |->
                   IF \E w \in torn : job[w].entry = t
                   THEN [trash[t] EXCEPT !.manifest = Torn] ELSE trash[t]]
  /\ UNCHANGED <<files, reply, served, faults>>

Refuse(w) == MatchMissing(w) \/ MatchRefused(w)
Prepare(w) ==
  \/ MatchPassed(w) \/ ReadExisting(w) \/ Impact(w) \/ PlanUpdate(w) \/ PlanRename(w)
  \/ Cycle(w) \/ CheckCreate(w) \/ CheckUpdate(w) \/ CheckDelete(w) \/ CheckRename(w)
  \/ CheckRestore(w)
Write(w) ==
  \/ WritePrimary(w) \/ WritePrimaryFails(w) \/ MoveRename(w) \/ MoveRenameFails(w)
  \/ (\E q \in Paths : WriteDependent(w, q)) \/ WriteDependentFails(w) \/ Reread(w)
Undo(w) ==
  \/ UndoPrimary(w) \/ UndoPrimaryFails(w)
  \/ (\E q \in Paths : UndoDependent(w, q) \/ UndoDependentFails(w, q))
  \/ UndoDone(w) \/ UndoMoveRename(w) \/ UndoMoveRenameFails(w)
Trash(w) ==
  \/ MoveDelete(w) \/ MoveDeleteFails(w) \/ WriteManifest(w) \/ WriteManifestFails(w)
  \/ UndoMoveDelete(w) \/ UndoMoveDeleteFails(w)
  \/ MoveRestore(w) \/ MoveRestoreFails(w) \/ Cleanup(w) \/ CleanupFails(w)

Step(w) == Refuse(w) \/ Prepare(w) \/ Write(w) \/ Undo(w) \/ Trash(w)

\* All requests of the bound are answered.
Quiet == served = MaxRequests /\ (\A w \in Workers : pc[w] = "idle") /\ UNCHANGED vars

Next == (\E w \in Workers : Submit(w) \/ Step(w)) \/ Crash \/ Quiet

Init ==
  /\ files \in Workspaces
  /\ trash = [t \in Entries |-> NoEntry]
  /\ pc = [w \in Workers |-> "idle"]
  /\ job = [w \in Workers |-> NoJob]
  /\ reply = [w \in Workers |-> 0]
  /\ served = 0 /\ faults = 0 /\ crashes = 0

Spec == Init /\ [][Next]_vars
FairSpec == Spec /\ \A w \in Workers : WF_vars(Step(w))

----
(* What the handlers promise. *)

\* The phases a handler of each operation goes through.
PhasesOf(op) ==
  CASE op = "create"  -> {"cycle", "check", "write", "dependents"}
    [] op = "update"  -> {"match", "read", "plan", "cycle", "check", "write", "dependents",
                          "undoPrimary", "undoDependents"}
    [] op = "rename"  -> {"match", "check", "plan", "move", "dependents", "undoDependents",
                          "undoMove"}
    [] op = "delete"  -> {"match", "impact", "check", "move", "manifest", "undoMove"}
    [] op = "restore" -> {"check", "move", "cleanup"}

\* A handler in phase pc[w] serves an operation that has this phase; once update has
\* read its document again it has an image of it to roll back to; create has no
\* dependents; what is left to rewrite was planned.
JobOK(w) ==
  /\ job[w] \in Job
  /\ pc[w] \in PhasesOf(job[w].req.op)
  /\ job[w].req.op = "update" /\ pc[w] \notin {"match", "read"} => job[w].was # Absent
  /\ job[w].req.op = "create" => job[w].plan = {}
  /\ pc[w] \in {"dependents", "undoDependents"} => job[w].left \subseteq PlanPaths(job[w].plan)

\* The types of the variables; an idle thread holds nothing.
TypeOK ==
  /\ files \in [Paths -> File]
  /\ trash \in [Entries -> Entry]
  /\ pc \in [Workers -> Phases]
  /\ job \in [Workers -> Job \cup {NoJob}]
  /\ \A w \in Workers : IF pc[w] = "idle" THEN job[w] = NoJob ELSE JobOK(w)
  /\ reply \in [Workers -> {0, 200, 404, 409, 428, 500}]
  /\ served \in 0..MaxRequests
  /\ faults \in 0..MaxFaults
  /\ crashes \in 0..MaxCrashes

\* The revisions the handler of w may replace at p: the one its client named (or
\* accepted unseen, with "*"), the ones it wrote itself, and the dependents it planned.
MayReplace(w, p) ==
  /\ pc[w] # "idle"
  /\ \/ /\ job[w].req.op = "update" /\ p = job[w].req.path
        /\ files[p] = job[w].next \/ TagMatches(job[w].tag, files[p])
     \/ \E r \in job[w].plan : r.path = p /\ files[p] \in {r.was, r.now}

Moved(p) ==
  \/ \E q \in Paths : files[q] = Absent /\ files'[q] = files[p]
  \/ \E t \in Entries : trash[t].payload = Absent /\ trash'[t].payload = files[p]

\* No step discards a revision: what leaves a path is found at another path or in the
\* trash, or a client that named it replaced it; what leaves the trash is live again
\* (docs/studio/04 lines 171-172 and 223: the check-then-act handlers of update,
\* rename, delete and restore, one request at a time).
NoRevisionLost ==
  [][/\ \A p \in Paths :
          files[p] # Absent /\ files'[p] # files[p] =>
            Moved(p) \/ \E w \in Workers : MayReplace(w, p)
     /\ \A t \in Entries :
          trash[t].payload # Absent /\ trash'[t].payload # trash[t].payload =>
            \E p \in Paths : files[p] = Absent /\ files'[p] = trash[t].payload]_vars

\* One request at a time: what a single client sees that awaits every answer.
Sequential == \A v, w \in Workers : v = w

\* What a handler relies on between its look at the files and its writes, when it is
\* alone: the revision the client named is still there until it is replaced, each
\* planned dependent holds its old or its new source, and the path a document is
\* moved or written to is still free.
UpdateInv(w) ==
  LET j == job[w]  p == job[w].req.path IN
  pc[w] # "idle" /\ j.req.op = "update" =>
    /\ pc[w] = "read" => files[p] = j.seen /\ TagMatches(j.tag, j.seen)
    /\ pc[w] \notin {"match", "read"} => TagMatches(j.tag, j.was)
    /\ pc[w] \in {"plan", "cycle", "check", "write"} => files[p] = j.was
    /\ pc[w] = "dependents" => files[p] = j.next
    /\ pc[w] = "undoPrimary" => files[p] \in {j.was, j.next}

CreateInv(w) ==
  pc[w] = "write" /\ job[w].req.op = "create" => files[job[w].req.path] = Absent

RenameInv(w) ==
  LET j == job[w]  p == job[w].req.path  q == job[w].req.to
      unmoved == files[p] = j.seen /\ files[q] = Absent
      moved == files[p] = Absent /\ files[q] = j.seen
  IN
  pc[w] # "idle" /\ j.req.op = "rename" =>
    /\ pc[w] # "match" => j.seen # Absent
    /\ pc[w] = "check" => files[p] = j.seen
    /\ pc[w] \in {"plan", "move"} => unmoved
    /\ pc[w] = "dependents" => moved
    /\ pc[w] \in {"undoDependents", "undoMove"} => unmoved \/ moved

DeleteInv(w) ==
  LET j == job[w]  p == job[w].req.path  e == trash[job[w].entry] IN
  pc[w] # "idle" /\ j.req.op = "delete" =>
    /\ j.entry = served
    /\ pc[w] # "match" => j.seen # Absent
    /\ pc[w] \in {"match", "impact", "check", "move"} => e = NoEntry
    /\ pc[w] \in {"impact", "check", "move"} => files[p] = j.seen
    /\ pc[w] = "manifest" => files[p] = Absent /\ e.payload = j.seen
    /\ pc[w] = "undoMove" =>
         \/ files[p] = j.seen /\ e.payload = Absent
         \/ files[p] = Absent /\ e.payload = j.seen

RestoreInv(w) ==
  pc[w] # "idle" /\ job[w].req.op = "restore" =>
    /\ pc[w] = "move" => files[job[w].target] = Absent /\ trash[job[w].entry].payload # Absent
    /\ pc[w] = "cleanup" => trash[job[w].entry].payload = Absent

PlanInv(w) ==
  pc[w] # "idle" =>
    \A r \in job[w].plan :
      /\ r.path \notin {job[w].req.path, job[w].target}
      /\ files[r.path] \in {r.was, r.now}
      /\ \A s \in job[w].plan : s.path = r.path => s = r

\* The handlers' hold on their files, and the trash entries not used yet are empty.
HandlersHoldTheirFiles ==
  /\ \A w \in Workers :
       UpdateInv(w) /\ CreateInv(w) /\ RenameInv(w) /\ DeleteInv(w) /\ RestoreInv(w) /\ PlanInv(w)
  /\ \A t \in Entries : t > served => trash[t] = NoEntry

Answers(w, statuses) == pc[w] # "idle" /\ pc'[w] = "idle" /\ reply'[w] \in statuses

\* A request that is refused, or that meets one failing write or move, leaves the
\* workspace as it was: update and rename roll back the document and every dependent,
\* delete takes the document out of the trash again (catch blocks at 177-180, 207-217,
\* 525-532).  A request that fails after its last write is not covered: the clean-up of
\* a restored trash entry, and the read-back of a document filed under another kind.
FailedRequestLeavesNoTrace ==
  [][\A w \in Workers :
       /\ Answers(w, {404, 409, 428, 500})
       /\ faults' <= job[w].since + 1
       /\ pc[w] \notin {"cleanup", "dependents"}
       => files' = job[w].before]_vars

\* What is in the trash can be restored: as long as no process died and at most one
\* write or move failed, a payload no handler works on has its manifest (delete moves
\* the source first and writes the manifest after it, 519-526).
TrashIsRecoverable ==
  crashes = 0 /\ faults <= 1 =>
    \A t \in Entries :
      trash[t].payload # Absent =>
        \/ trash[t].manifest \in Paths
        \/ \E w \in Workers : pc[w] \in {"manifest", "undoMove"} /\ job[w].entry = t

UniqueIds(fs) ==
  \A p, q \in Workflows :
    fs[p] # Absent /\ fs[q] # Absent /\ fs[p].name = fs[q].name /\ fs[p].name # NoName => p = q

\* <<a, b>>: workflow a calls workflow b, or an operation that catalog b declares.
Links(fs) ==
  {l \in Workflows \X Paths :
     /\ fs[l[1]] # Absent /\ fs[l[2]] # Absent
     /\ \/ l[2] \in Callees(fs, l[1], NoPath, l[1])
        \/ /\ l[2] \in Catalogs
           /\ \E x \in fs[l[1]].refs : x.path = l[2] /\ x.name = fs[l[2]].name}

KeepsId(r, fs) == r.content.name = fs[r.path].name

\* Reference x is written where the rewrites of r look for it, and r's text is no part of
\* a longer path, alias or operation in it.
Plain(x, r, old) ==
  /\ x.found = Parts
  /\ r.op = "rename" /\ {r.path, x.path} \subseteq Catalogs =>
       PathSplice[<<r.path, r.to>>][x.path] = IF x.path = r.path THEN r.to ELSE x.path
  /\ r.op = "update" /\ r.path \in Catalogs =>
       IF x.path # r.path THEN <<r.path, x.path>> \notin AliasTails
       ELSE x.name # old[r.path].name =>
              NameSplice[<<old[r.path].name, r.content.name>>][x.name] = x.name

\* The workspace with only those of its references.
PlainPart(fs, r) ==
  [p \in Paths |-> IF fs[p] = Absent THEN Absent
                   ELSE [fs[p] EXCEPT !.refs = {x \in fs[p].refs : Plain(x, r, fs)}]]

Moves(r, p) == IF r.op = "rename" /\ p = r.path THEN r.to ELSE p

\* An accepted rename, or update of a document with an id, keeps these links between the
\* other documents, and those to it.
KeepsLinksOf(w, fs) ==
  LET r == job[w].req
      old == job[w].before
  IN  /\ Answers(w, {200})
      /\ r.op = "rename" \/ (r.op = "update" /\ NoName \notin {r.content.name, old[r.path].name})
      /\ UniqueIds(old) /\ UniqueIds(files')
      => \A l \in Links(fs) :
           l[1] # l[2] /\ (r.op = "rename" \/ l[1] # r.path) =>
             <<Moves(r, l[1]), Moves(r, l[2])>> \in Links(files')

KeepsLinks(w) == KeepsLinksOf(w, PlainPart(job[w].before, job[w].req))

\* An accepted rename, and an update that changes the workflow id or operationId, keep
\* every link that a plainly spelled reference of another document makes, whatever else
\* its text holds: who called the document calls it under its new path or name, and
\* nobody else's link moves (the dependent rewrites, 248-343 and 354-472).
LinksKept == [][\A w \in Workers : KeepsLinks(w)]_vars

Acyclic(fs) == \A p \in Workflows : fs[p] # Absent => ~InCycle(fs, p, NoPath)

KeepsAcyclic(w) ==
  LET r == job[w].req  old == job[w].before IN
  /\ Answers(w, {200})
  /\ r.op = "create" \/ (r.op = "update" /\ KeepsId(r, old))
  /\ Acyclic(old) /\ UniqueIds(files')
  => Acyclic(files')

\* A create, or an update that keeps the workflow id, never makes an acyclic workspace
\* cyclic, although only cycles through the saved document are looked for and the new
\* document may pick up references of others that dangled until now (924-969).
SavesKeepGraphAcyclic == [][\A w \in Workers : KeepsAcyclic(w)]_vars

\* Every request is answered, unless the process dies: no handler waits for another,
\* and rolling back comes to an end whatever fails.
EveryRequestAnswered == \A w \in Workers : pc[w] # "idle" ~> pc[w] = "idle"
----
(* One client that awaits every answer sees an atomic workspace: a request *)
(* happens when it is answered, so until then the documents and the trash  *)
(* are those its handler found.                                            *)

Client == CHOOSE w \in Workers : TRUE

SeenFiles == IF pc[Client] = "idle" THEN files ELSE job[Client].before

SeenEntry(t) ==
  LET j == job[Client] IN
  IF pc[Client] = "cleanup" /\ j.entry = t
  THEN [payload |-> files[j.target], manifest |-> j.target]
  ELSE IF \/ trash[t].payload = Absent
          \/ pc[Client] \in {"manifest", "undoMove"} /\ j.req.op = "delete" /\ j.entry = t
  THEN NoEntry
  ELSE trash[t]

SeenTrash == [t \in Entries |-> SeenEntry(t)]

SeenRequest == IF pc[Client] = "idle" THEN NoJob ELSE job[Client].req

SeenSince == IF pc[Client] = "idle" THEN 0 ELSE job[Client].since

Workspace ==
  INSTANCE AtomicWorkspace WITH
    docs <- SeenFiles, bin <- SeenTrash, asked <- SeenRequest, answer <- reply[Client],
    since <- SeenSince, NoRequest <- NoJob

\* One request at a time, the handlers implement an atomic workspace: an accepted request
\* changes its document, its dependents and the trash as one step, a refused one, or one
\* that meets a failing write or move, changes nothing, and only a crash or a second
\* failure leaves a request half done (docs/studio/04 lines 171-172 and 223).
ImplementsAtomicWorkspace == Workspace!Spec

=============================================================================
