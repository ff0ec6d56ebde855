-------------------------- MODULE AtomicWorkspace --------------------------
(***************************************************************************)
(* What the Studio workspace API promises one client that awaits every     *)
(* answer: a store of documents and a trash in which a request either      *)
(* happens as a whole (200, or 404 for a document filed under another      *)
(* kind) or does not happen at all, is refused for a reason the client     *)
(* could have seen, and stops half way only when the process dies or a     *)
(* second write or move fails, and then in the few ways listed under Half. *)
(* DocumentService implements it, with every handler cut into separate     *)
(* reads and writes.                                                       *)
(***************************************************************************)
EXTENDS Integers

CONSTANTS
  Paths, Catalogs, Entries,     \* documents, those that are catalogs, trash entries
  Workspaces, Requests,         \* the documents at first, and what may be asked
  PathSplice, NameSplice, AliasTails, \* how paths, operations and aliases overlap
  Absent, Torn, NoName, NoPath, NoRequest

VARIABLES
  docs,    \* docs[p]: the source at path p, or Absent
  bin,     \* bin[t]: the trash entry t
  asked,   \* the request that waits for its answer, or NoRequest
  answer,  \* the status of the last answer, 0 while a request waits
  faults,  \* writes and moves that failed so far
  since    \* and how many had when the request was asked, 0 while none is

vars == <<docs, bin, asked, answer, faults, since>>

Empty == [payload |-> Absent, manifest |-> Absent]
KindAt(p) == IF p \in Catalogs THEN "catalog" ELSE "workflow"

----
(* What a request does to the documents.                                   *)

\* An update that gives its document another workflow id (of a catalog, operationId).
IdChanges(r) ==
  /\ r.op = "update"
  /\ docs[r.path].name # NoName /\ r.content.name # NoName
  /\ docs[r.path].name # r.content.name

\* A reference to the moved or renamed document follows it, if it is written where it is
\* looked for; the text of a catalog's path, alias and operation is also replaced where
\* it is part of another.
NewPath(r, x) ==
  IF x.path \in Catalogs /\ r.path \in Catalogs THEN PathSplice[<<r.path, r.to>>][x.path]
  ELSE IF x.path = r.path THEN r.to ELSE x.path

NewName(r, x) ==
  IF r.path \in Catalogs THEN NameSplice[<<docs[r.path].name, r.content.name>>][x.name]
  ELSE IF x.name = docs[r.path].name THEN r.content.name ELSE x.name

\* x, a reference of source c, names the document of r by an operation or workflow id,
\* or seems to.
Reaches(r, c, x) ==
  IF r.path \notin Catalogs THEN x.path = NoPath
  ELSE \/ x.path = r.path
       \/ <<r.path, x.path>> \in AliasTails /\ \E y \in c.refs : y.path = r.path

Redirect(r, c, x) ==
  IF r.op = "rename" /\ x.path # NoPath /\ "path" \in x.found
  THEN [x EXCEPT !.path = NewPath(r, x)]
  ELSE IF IdChanges(r) /\ "name" \in x.found /\ Reaches(r, c, x)
  THEN [x EXCEPT !.name = NewName(r, x)]
  ELSE x

Follow(r, c) == [c EXCEPT !.refs = {Redirect(r, c, x) : x \in c.refs}]

\* The document r is about, once it is done.
OwnAfter(r) ==
  CASE r.op = "create" -> r.content
    [] r.op = "update" -> IF r.path \in Catalogs THEN r.content ELSE Follow(r, r.content)
    [] r.op \in {"rename", "delete"} -> Absent

Changes(r, q) == r.op # "restore" /\ q = r.path
MovesTo(r, q) == r.op = "rename" /\ q = r.to
PutsBack(r, q) == r.op = "restore" /\ q = bin[r.entry].manifest

\* The document at q, once r is done: the workflows that refer to a moved or renamed
\* document follow it, every other document stays.
After(r, q) ==
  IF Changes(r, q) THEN OwnAfter(r)
  ELSE IF MovesTo(r, q) THEN docs[r.path]
  ELSE IF PutsBack(r, q) THEN bin[r.entry].payload
  ELSE IF docs[q] = Absent \/ q \in Catalogs THEN docs[q]
  ELSE Follow(r, docs[q])

----
(* When it may, and the reasons to refuse it.                              *)

Dependents(r) ==
  {q \in Paths \ (Catalogs \cup {r.path}) :
     docs[q] # Absent /\ \E x \in docs[q].refs : x.path = r.path}

Granted(r) ==
  /\ r.op \in {"update", "rename", "delete"} =>
       docs[r.path] # Absent /\ r.match \in {"current", "any"}
  /\ r.op = "create" => docs[r.path] = Absent
  /\ r.op = "rename" => docs[r.to] = Absent
  /\ r.op = "delete" => r.accept \/ Dependents(r) = {}
  /\ r.op = "restore" =>
       /\ r.match # "blank" /\ bin[r.entry].payload # Absent
       /\ bin[r.entry].manifest \in Paths /\ docs[bin[r.entry].manifest] = Absent

Missing(r) ==
  \/ r.op \in {"update", "rename", "delete"} /\ docs[r.path] = Absent
  \/ r.op = "restore" /\ r.match # "blank" /\ bin[r.entry].manifest = Absent

Unconditional(r) ==
  /\ r.op # "create" /\ r.match = "blank"
  /\ r.op = "restore" \/ docs[r.path] # Absent

\* Whether the saved workflow closes a cycle is left open; one without references does not.
Conflicting(r) ==
  \/ /\ r.op \in {"update", "rename", "delete"}
     /\ docs[r.path] # Absent /\ r.match = "stale"
  \/ r.op = "create" /\ docs[r.path] # Absent
  \/ r.op = "rename" /\ docs[r.to] # Absent
  \/ r.op \in {"create", "update"} /\ r.kind = "workflow" /\ r.content.refs # {}
  \/ r.op = "delete" /\ ~r.accept /\ Dependents(r) # {}
  \/ /\ r.op = "restore" /\ bin[r.entry].manifest \in Paths
     /\ docs[bin[r.entry].manifest] # Absent

\* The answer looks for the document under the kind of the request.
Misfiled(r) ==
  \/ r.op = "create" /\ r.kind # KindAt(r.path)
  \/ r.op = "rename" /\ r.kind # KindAt(r.to)

----
Ask(r) ==
  /\ asked = NoRequest
  /\ asked' = r /\ answer' = 0 /\ since' = faults
  /\ UNCHANGED <<docs, bin, faults>>

Answer(status) ==
  /\ asked # NoRequest
  /\ asked' = NoRequest /\ answer' = status /\ since' = 0

\* At most one more write or move fails in a step.
Faulty == faults' \in {faults, faults + 1}

\* The trash before and after r: delete fills an empty entry (with m as manifest),
\* restore empties one.
Binned(r, m) ==
  \E t \in Entries :
    /\ bin[t] = Empty
    /\ bin' = [bin EXCEPT ![t] = [payload |-> docs[r.path], manifest |-> m]]

Trashed(r, manifests) ==
  CASE r.op = "delete" -> \E m \in manifests : Binned(r, m)
    [] r.op = "restore" -> bin' = [bin EXCEPT ![r.entry] = Empty]
    [] OTHER -> bin' = bin

Done(r) ==
  /\ Granted(r)
  /\ docs' = [q \in Paths |-> After(r, q)]
  /\ Trashed(r, {r.path})

Accept ==
  /\ Answer(IF Misfiled(asked) THEN 404 ELSE 200)
  /\ Done(asked)
  /\ UNCHANGED faults

Refuse ==
  /\ \/ Answer(404) /\ Missing(asked)
     \/ Answer(428) /\ Unconditional(asked)
     \/ Answer(409) /\ Conflicting(asked)
  /\ UNCHANGED <<docs, bin, faults>>

\* One failure, or a manifest cut short by an earlier crash: nothing happened.
Fail ==
  /\ Answer(500)
  /\ Faulty
  /\ faults' > since \/ (asked.op = "restore" /\ bin[asked.entry].manifest = Torn)
  /\ UNCHANGED <<docs, bin>>

\* A restored document whose trash entry could not be removed: it happened, and is
\* answered 500 all the same.
RestoreUncleared ==
  /\ Answer(500)
  /\ asked.op = "restore" /\ Done(asked)
  /\ Faulty /\ faults' > since

\* What an interrupted request leaves: nothing, or some of its documents changed and the
\* others not, each of them whole; a rename has moved its document or not; the source of
\* a delete is in the trash, perhaps without a manifest; a restore is done.
Half(r) ==
  \/ UNCHANGED <<docs, bin>>
  \/ /\ Granted(r)
     /\ \E S \in SUBSET Paths : docs' = [q \in Paths |-> IF q \in S THEN After(r, q) ELSE docs[q]]
     /\ r.op = "rename" => (docs'[r.path] = Absent) = (docs'[r.to] # Absent)
     /\ r.op = "delete" => docs'[r.path] = Absent
     /\ r.op = "restore" => docs'[bin[r.entry].manifest] # Absent
     /\ Trashed(r, {r.path, Absent, Torn})

\* A second failure while the first is rolled back.
Mangle ==
  /\ Answer(500)
  /\ Half(asked)
  /\ Faulty /\ faults' > since + 1

Crash ==
  /\ asked # NoRequest /\ asked' = NoRequest /\ since' = 0
  /\ Half(asked)
  /\ UNCHANGED <<answer, faults>>

\* A write or move fails and is being rolled back.
Mishap ==
  /\ asked # NoRequest
  /\ faults' = faults + 1
  /\ UNCHANGED <<docs, bin, asked, answer, since>>

Next ==
  \/ \E r \in Requests : Ask(r)
  \/ Accept \/ Refuse \/ Fail \/ RestoreUncleared \/ Mangle \/ Crash \/ Mishap

Init ==
  /\ docs \in Workspaces /\ bin = [t \in Entries |-> Empty]
  /\ asked = NoRequest /\ answer = 0 /\ faults = 0 /\ since = 0

Spec == Init /\ [][Next]_vars
=============================================================================
