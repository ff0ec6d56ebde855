# Verification of OpenWorkflow with Agent

TLA+ models of the parts of this repository whose correctness depends on the order in which
things happen, or on what an edit of a text sees of it: request threads that share files,
counters and slots; workflow instances that wait for an agent's event; a browser tab that edits
documents other clients edit too; and the Studio's form editors, which change workflow and
catalog sources with line patterns. The models are checked on small instances with TLC;
the theorems are proved for all instances with TLAPS.

    tlc -workers 2 -config documents.cfg MCDocumentService      # one line per run below
    tlapm RateLimit_proofs.tla                                  # and the other *_proofs.tla

`PROJECT.json` maps every definition to the lines it models and lists the runs, the mutants
(plausible bugs that each property must catch), the findings, the hazards and the theorems.

## 1. Inventory

| Component | State | Operations | What is hard | What makes it correct |
|---|---|---|---|---|
| **Studio document service** (`StudioDocumentService.java`, `StudioWorkspaceResource`, `StudioRecoveryResource`) | the files below `workflows/`, the trash `.studio/trash/<uuid>/{payload, metadata.json}`; nothing in memory | create, update, rename, delete, restore, each with an ETag precondition, dependency impact, cycle check, rewriting of dependents, roll-back | no lock: each handler is a sequence of reads and writes that other threads interleave with; any write may fail; the process may die between two | no revision is lost; a failure leaves no trace; what is in the trash can be restored; links follow renames; saves close no cycle |
| **Workspace validation** (same file, 971-1029, 1313-1474, 575-662) | none | diagnostics of one document, of a dependency closure, of the workspace | graph searches over references that may dangle or be ambiguous | agree with their definition: closure, reachability, switch coverage |
| **Runtime validation** (`StudioRuntimeValidationService.java`) | semaphore of slots, fixed thread pool with its queue, one Future per call | validateSaved, compile, initialize, shutdown | the timeout races the result; cancellation races the start; shutdown races the submit | slots bound the work, none is released twice, every call is answered |
| **Request rate limit** (`RateLimitFilter.java`, and the same loop in `CloudEventHttpSecurityFilter.java`) | one `AtomicReference` to an immutable window | filter | a lock-free loop with a clock read before it | the cap, and that nobody is refused before it is reached |
| **API key, origin and header filters** | none | filter | nothing interleaves | predicates on one request |
| **Mock agent** (`AgentResource.java`, `CallbackUrlValidator.java`) | dispatch status per workflow instance | sync, async, dispatchCallback, dispatchWithRetry, scheduleRetry | the event races the suspension of the workflow; a timed-out POST may have been delivered and is retried | a dispatch settles; an instance resumes at most once; status says what happened |
| **Workflows** (`agent-call.sw.yaml`, `llm-chat.sw.yaml`, sub-flows) | the instance's state | the states of each workflow | suspension, error transitions, no timeout on the callback state | every instance that gets its event ends |
| **Studio shell** (`frontend/studio/src/app.tsx`, `draft-helpers.ts`, `autosave.ts`, `workspace.ts`) | drafts, bases, active revision, selection, conflict, pending requests, localStorage | fetch, edit, preview, save, autosave, resolve, select, recover | answers arrive late, after other edits, selections and revisions | edits leave only by the user's choice; no other client's revision is overwritten unseen |
| **Execution panel** (`execution-panel.tsx`, `execution.ts`) | the preset, the execution record, one abortable run | execute, monitor, stop, select a preset, unmount | answers of an old run, an instance evicted or lost, a bounded poll loop | what it says of an instance is so; it does not look busy for ever |
| **Graph** (`graph.ts`, `graph-layout.ts`) | none | deriveGraph, reachability, layers | a YAML draft is drawn with the branches of the saved document | shows the draft; layers are distances; "unreachable" is unreachable |
| **Workflow source patching** (`state-patch.ts`, `definition-patch.ts`, `metadata-patch.ts`, `subflow-patch.ts`, `subflow-extraction.ts`, `quick-fix.ts`) | none | create, duplicate, rename, delete, move and edit states and definitions, aliases, subflow calls, extraction, quick fixes | a YAML text is never parsed: what the patterns miss neither follows nor is refused; fixes of an older text | names stay unique, visible references follow, fixes and extraction keep the flow |
| **Catalog source patching and form** (`catalog-patch.ts`, `catalog-preview.ts`, `catalog-view.tsx`) | selection, field errors, impact dialog | metadata, servers, operations, components, deletion, examples | line splicing into a text whose parts may be inline; a dialog that outlives its selection | shown ids are unique, edits leave the text readable, deletions are meant, examples conform |
| **Views** (`state-editor.tsx`, `definition-editor.tsx`, `graph-view.tsx`, `issues-panel.tsx`, ...) | the shell's drafts | rendering, the handlers that call the patchers | a rename with every key | as the patchers |
| **Deployment scripts** | none | generation and sync | - | - |

How they interact: the shell calls the document service over HTTP (`PUT` with `If-Match`) and the
validation endpoints; the document service is shared by all tabs and other clients through the file
system only; the form editors, the graph and the Issues panel turn the draft into another draft by
the patchers, which the shell saves; the graph and the diagnostics are made from the saved
document; the execution panel starts workflow instances and polls them; runtime validation reads a saved document and compiles it; the rate limit stands before
the endpoints and, in a second copy, before the CloudEvent channel through which the mock agent
resumes a suspended workflow.

## 2. Modules

| Module | Code | Role |
|---|---|---|
| `DocumentService`, `MCDocumentService` | document service and its resources | state machine, instances |
| `AtomicWorkspace` | document service | abstract specification: the workspace one client sees; `DocumentService` with one thread implements it |
| `DocumentService_proofs`, `DocumentHolds_proofs` | | types; what one client may rely on, with roll-back, trash, links and cycles; the refinement |
| `RuntimeValidation`, `MCRuntimeValidation` | runtime validation | state machine, instance |
| `RuntimeValidation_proofs` | | type correctness and the three safety invariants |
| `RateLimit`, `MCRateLimit` | rate limit | state machine, instance |
| `RateLimit_proofs` | | type correctness, the cap, refusals |
| `AgentCall` | workflows and mock agent | state machine |
| `ExecutionPanel`, `MCAgentCall` | execution panel | state machine composed with `AgentCall`; instance |
| `AgentCall_proofs` | | types, the composition, and the truth of the statuses |
| `StudioEditor`, `MCStudioEditor` | shell of one tab beside the workspace | state machine, instances |
| `StudioEditor_proofs` | | types, the Save button, the lines of other clients, the edits of the user |
| `WorkflowDocument` | what the editors see of a workflow text | operators |
| `StatePatch`, `DefinitionPatch`, `SubflowExtraction`, `QuickFix` | the patchers of those names, with metadata and subflow patch | operators, each extending the one before |
| `WorkflowGraph` | `graph.ts`, `graph-layout.ts` | operators |
| `WorkflowEdits`, `MCWorkflowEdits` | the forms, the graph view and the Issues panel | state machine over all of them; instance |
| `WorkflowEdits_proofs` | | every property of the editing run |
| `CatalogDocument` | `catalog-patch.ts` | operators |
| `CatalogEdits` | `catalog-view.tsx` | state machine |
| `CatalogEdits_proofs` | | every property of the catalog run but the examples |
| `CatalogPreview`, `MCCatalogEdits` | `catalog-preview.ts` | operators on the same draft; instance |

### DocumentService

`files[p]` is the source at a canonical path, `trash[t]` a trash directory. Each request thread is a
program counter `pc[w]` with the handler's locals `job[w]`; one action is one step that reads or
writes shared files: the precondition (`MatchMissing`, `MatchRefused`, `MatchPassed`), the reading
back (`ReadExisting`), the plan of dependent rewrites (`PlanUpdate`, `PlanRename`, `Impact`), the
cycle check (`RefusesCycle`), the checks before a write (`Check...`), each write or move
(`WritePrimary`, `WriteDependent`, `MoveRename`, `MoveDelete`, `WriteManifest`, `MoveRestore`,
`Cleanup`) with its failure, and each step of each roll-back with its failure (`Undo...`). `Crash`
drops every handler. Two fields of `job[w]` are history: `before`, the workspace the request found, and
`since`, how many writes and moves had failed when it came.

Abstractions. An ETag is the hash of the bytes, so a revision is its content. Of a content the
workflow id (of a catalog, its one operationId), the references and an opaque body are kept. Reading
all dependents for the plan is one step. Status 200 stands for every 2xx. Left out: failing reads,
the 403 of a read-only deployment, several operations in one catalog, the renaming of an alias within
the saved workflow (`replaceOperationAlias`), references of the `classpath:` form, temporary files a
crash leaves behind.

References are rewritten in the text, not in the parsed document, and the model keeps what that
makes of them. `found` says which parts of a reference stand where a rewrite looks for them: a
`subFlowRef` with a comment behind it is not found, nor is a path outside of `definitions:` lines.
What is replaced is a piece of text: `PathSplice` says what the path of one catalog becomes when
another one's is replaced wherever its text is found, `NameSplice` what an operation becomes that
begins with the one renamed, and `AliasTails` which alias ends with another one (`alias#operation` is
then found in it too). These are constants with the weakest assumptions, so that the theorems hold
however the names of a workspace hold one another. `LinksKept` is about the links that plainly
spelled references make (`Plain`), whatever else their text holds; what becomes of the others is what
the code does, and `AtomicWorkspace` says it.

### AtomicWorkspace

What the API promises one client that awaits every answer: `docs`, the trash `bin`, the request
`asked`, its `answer`. A request is accepted in one step that changes its document, the workflows that
follow it and the trash (`Accept`, `After`); is refused, with a reason among those the client could
have seen (`Refuse`: `Missing`, `Unconditional`, `Conflicting`); or fails without effect (`Fail`).
Three steps say what the code cannot promise: a restore that has happened is answered 500 when its
trash entry cannot be removed (`RestoreUncleared`); a crash (`Crash`), or a second failure during the
roll-back (`Mangle`), leaves a request `Half` done: some of its documents changed and the others not, each
one whole, with the rewrites of the dependents possibly missing.

`DocumentService` is mapped to it at its end. A request happens when it is answered: while the one
handler is busy the client is shown the files it found (`SeenFiles` is `before`), and a trash that
hides the entry being filled and still holds the one being emptied (`SeenTrash`). All reads, writes and
roll-backs in between are stuttering. Failures are counted per request: `since` is what `faults` was when the
request came, so that whatever failed before, a request that meets one failure still happens as a
whole or not at all. Limits of the abstract specification: whether a saved workflow closes a cycle is left open (409 is allowed when it has references), since
`SavesKeepGraphAcyclic` says what the check achieves; a payload that a crash left without manifest is in
`bin` and cannot be restored. With two threads there is no such mapping: `documents_concurrent` is the
counterexample.

### RuntimeValidation

`slots` is the semaphore, `queue` the executor's queue, `stage[t]` and `future[t]` the task and its
Future; callers acquire, submit, wait, expire and cancel. `Shutdown` keeps those queued tasks whose
threads are just being started and drops the others. What the compiler reports is left out.

### RateLimit

A thread reads the clock once (`Arrive`), then loops: `Read` the window, compute `CountOf`, `Swap` by
compareAndSet or `SwapFails`. Windows are objects with an identity, so that compareAndSet compares
references as the code does. Requests that are never counted (exempt paths, 401, cap 0) are left out;
the clock only goes forward.

### StudioEditor

The React state as variables named like it (`drafts`, `base` for baseContents, `active` for
activeDocument, `loaded`, `selected`, `conflict`, `saving`, `preview`), localStorage (`stored`), and
what is on its way (`load`, `saves`, `validating`, the armed `timer`). One action is one event handler
or answer together with the render and the effects it causes (`Effects`). Callbacks that outlive
their render carry the values they closed over: a save its document, ETag and text, an autosave the
draft whose validation it awaits. The list of documents may arrive at any time, because the user can
refresh at any time and each save does. After a restart a save already sent may still be handled by
the server (`orphan`).

A text is two lines, one the user edits and one the other clients edit, each the set of texts it
shows; so an edit that disappears, from the editor or from the server, can be told from one that is
replaced on purpose, and `MergeThreeWay` can be what `mergeThreeWay` does, line by line, with a
conflict showing both texts. That each side keeps to its line is an abstraction: when a line of the
other side is gone, the program lost it. The text also stands for its ETag. The handling of a PUT is
one step here; its inside is DocumentService, and that the service may rewrite aliases on the way is
left out. Left out too: undo histories, format, and create, import, copy, rename, delete, restore and
extraction.

Three history variables record when the program is excused: `letGo` (edits the user gave up, or typed
while an earlier save, validation or conflict of the document was pending), `rebased` (documents whose
draft was put on a revision it was not made from), and `made` in a conflict.

### AgentCall, ExecutionPanel

`inst[i]` is the state of the workflow instance `i` is in, with the request and the data it ended
with; `post[i]` the agent's dispatch of its event (`dispatchCallback`, `dispatchWithRetry`,
`scheduleRetry`: delay, sending, settled, attempts left, status); `travelling[i]` the posts still on
the network. A post may be answered, turned away, time out at any moment (also after the channel
accepted it, so that `Retry` delivers a second copy), or arrive after its dispatch settled. The 202
of the agent and the suspension of the instance are two steps, so that an event may come too early;
the history variable `early` records it. `Restart` takes instances in memory away, and the
dispatches too when the agent is the bundled one. The engine and the channel are modelled from how
the workflows and tests use them: a completed instance is evicted or still readable, an event for an
instance that does not wait is dropped. An error status other than 400 and 500, or a time-out of the
call, is matched by no error of the workflows and aborts the instance (`CallAborts`); the agent may have
started its dispatch by then.

`ExecutionPanel` adds the panel: `panel` (workflow and preset), `record` (what it shows, with the
history field `of`, the instance the last answer was about) and `run` (the one request or monitor
loop). `Mount` is a change of key, whose clean-up aborts the run; `SelectPreset` is not, so that a
run of the former preset goes on into the new record. `PostArrives` is the composition: the run's
post is `Start` of `AgentCall`. `OtherClient` sends the requests the panel would refuse.

### WorkflowDocument, StatePatch, DefinitionPatch, SubflowExtraction, QuickFix, WorkflowGraph, WorkflowEdits

A draft is a record of what its text says: the start, the states in order (type, transition, end,
conditions, default, error branches, actions, event), the definitions in order and the catalog
aliases. `format` decides how much of it the editors see: a JSON text is parsed; in a YAML text they
look for lines, so a field in the set `inline` of a state (written on one line, as `renderYamlField`
does) is opaque, and `errorRef` in a list item is never seen. A collection in `flow` begins on the line
of its key: its definitions are not found, and a new one gets a second key of that name, which leaves a
text that does not parse. A branch is `written` with its condition on the first line of the item, as
a block (`>-`) below it, or inside an item that opens with another key; the repairs of a switch see the
line only (`OnItsLine`). The rename of a definition replaces its name wherever it is a word of a YAML
value: `Words` and `WordSplice` are constants that say which names are words of which, and what a name
becomes, or that the text breaks. Each operation of the patchers is an operator that returns the new
draft or a refusal, in the order the code tests.

`WorkflowEdits` makes actions of the handlers that call them: the state form, the advanced fields,
the graph's palette, connect and delete, the definition and alias forms, the start, the Issues panel's
fixes (offered for the diagnostics of `saved`, applied to `draft`), extraction, the source view that
breaks and mends a JSON text, and the save. `typed` is history: the targets the user wrote himself or
let go, which may dangle, and what a rename made of longer names (`Respelt`). A YAML text that an
edit broke ends the session. YAML items whose first key is not `name` are seen by none of the patterns
(`state-patch.ts:302-306`, `definition-patch.ts:255`) and left out, so a clash with the name of one is
not refused by the code and not shown here. Left out too: labels, comments, data filters, the other state types (those with
the same branches behave as `switch` or `operation` do), undo, and the validation dialogs around an
extraction.

`WorkflowGraph` gives the nodes and edges drawn from a draft and its saved document, the unreachable
states, and the layer of each node as the breadth-first queue finds it; coordinates are left out.

### CatalogDocument, CatalogEdits, CatalogPreview

A catalog has a `layout`: each part is absent, an exact `{}`, something else on the line of its key, or a
block. An inline part has no lines below it that a pattern could find, and lines spliced below one, or
a fragment put on a line it does not fit on, make the text unreadable (`sound` becomes FALSE). An entry
below `paths` is `written` as a block, on the line of its method, in a path item on the line of its
path, or hidden behind a path no pattern matches. A path with a colon is hidden when it is in quotes and
otherwise shown cut off at the colon (`CutOff`, `ShownPath`): it then collides with the path it seems to
be, and an operation is looked for in the first item that seems to have its path (`LocateItem`).

`CatalogEdits` is the form: the selected operation, the fields that show an error, the impact dialog and
the save button with what disables it. Operations are selected and compared by the key shown
(`ShownKey`). `moved` is history: whether the selection may have become another operation since the
dialog was opened. The operations shown are a set of places in the catalog's sequence, listed in their
order. A session begins with a catalog the server takes (`WellKept`): it refuses an operationId given
twice (`StudioDocumentService.java:1730`), and a parsed text has no key twice.

`CatalogPreview` makes the example of a payload: the one its media type gives, whatever the schema says,
or one generated from the schema, following references with the set of those already followed.
`ExamplesConform` compares a generated one with what it is for a value to be an example of the schema.
A card keeps the example of its first render (`catalog-view.tsx:449`, 691-695), so that it may show an
older one after the schema was changed and saved; the property is about what is made, not about what
is still shown.

## 3. Runs

| Run | Shows | Bounds, and why they are enough |
|---|---|---|
| `documents` (pass) | one client: `HandlersHoldTheirFiles`, `ImplementsAtomicWorkspace`, `NoRevisionLost`, `TrashIsRecoverable`, `LinksKept`, `SavesKeepGraphAcyclic`, `EveryRequestAnswered` | 3 workflow and 4 catalog paths: one document, one that calls it by path, by id and through a catalog, one free path; and a second workspace with a catalog whose path, alias and operation hold those of the first, and a reference that a comment follows. 3 requests reach delete, create at the freed path, restore. 2 faults: a write and its roll-back. 1 crash |
| `documents_concurrent` (violation) | two threads: `NoRevisionLost` fails, a rename moves over what was created meanwhile | 2 threads, 2 requests, no fault |
| `runtime_validation` (pass) | `SlotsAccountedFor`, `WorkIsBounded`, `AbandonedWorkIsCancelled`, `EveryCallAnswered`, `SlotsComeBack` | 3 callers for 2 slots, so that one is refused or comes when a slot is given back; 4 tasks, so that slots are used again |
| `runtime_busy` (violation) | `BusyMeansBusy` fails: a task cancelled in the queue never releases its slot | 2 callers, 1 slot |
| `rate_limit` (pass) | `CapPerStraggler`, `RefusalsAreEarned`, `EveryRequestAnswered` | 3 threads, cap 2, windows 0..2, 6 requests: a window fills, is left, and two stragglers come back to it |
| `rate_limit_cap` (violation) | `CapHolds` fails: a straggler wipes out the count of the present window | 2 threads, 2 windows |
| `editor` (pass) | `EveryEditKept`, `ForeignTextSurvives`, `SavingHasASave` | 2 documents, so that answers and conflicts meet another document; 2 saves at a time, a manual one and an autosave; 1 edit and 1 foreign revision, one autosave validation on its way. `Bound`: after the first rebased draft only behaviours with one document and one save are followed on. Documents and saves are interchangeable, hence the symmetry |
| `editor_overwrite` (violation) | `NewerRevisionsSurvive` fails | the same |
| `agent_call` (pass) | `StatusesAreTrue`, `EverythingSettles` | 5 requests: one of each mode, one the agent refuses, one the workflow refuses. 2 instances, so that a run of the panel meets the answers of an older one; 2 attempts, so that an event is delivered twice; 2 polls, so that the loop goes round and ends; 1 accepted dispatch; 1 restart |
| `workflow_edits` (pass) | `NothingVisibleDangles`, `GraphShowsTheDraft`, `LayersAreDistances`, `NamesStayUnique`, `RenameKeepsTheGraph`, `BranchFixKeepsTheChoice`, `UnreachableFixKeepsReach`, `ExtractionKeepsTheFlow` | every operation, at most 2 of them with a save anywhere, on 10 workflows of 2 or 3 states: a path, a switch with a repeated and a shadowed branch, duplicate states, a misspelt start, inline branches, conditions written as blocks, definitions whose names are words of others and a collection on the line of its key; both formats. Two edits are what a stale fix needs (one to move the draft on, one to fix it) and what an inline field needs (one to write it, one to rename). At most 4 states, 3 selected |
| `edits_rename` (violation) | `UsesAreDefined` fails: a renamed error keeps its old name in list items | the same |
| `catalog_edits` (pass) | `ShownIdsUnique`, `EditsLeaveItReadable`, `DeletionsAreMeant`, `ExamplesConform` | 2 changes of 11 catalogs: complete, broken, the template of a new one, a terse one with inline parts, an empty and an inline category, an inline path item, a path with a colon in quotes and without, inline paths; both formats; 2 paths, one with a colon that is cut off to the other, 2 methods, 2 ids, 2 components, 8 schemas with references that close a cycle |

Every pass run also checks its module's `TypeOK`.

Fairness. Request threads and the pool's threads are scheduled, and a compiler that runs exits at
last (`FairSpec` of `DocumentService`, `RuntimeValidation`, `RateLimit`): weak fairness of a thread's
own steps, never of requests, faults, crashes, the clock or a shutdown. The loop of `RateLimit` needs
no more than that, since a failed compareAndSet means that another request was counted, and those are
bounded. In `agent_call` the engine runs its instances, a post ends at the latest by its connect or
request time-out (`AgentResource.java:203-235`), and the timer of the panel's monitor loop goes off
(`Poll`). Nothing is assumed of the network, of the user, of restarts or of other clients: events may
travel for ever, and so may the panel's requests, which have no time-out (`execution-panel.tsx:103`,
306). `EverythingSettles` therefore says that a record stops looking busy unless one single fetch is
never answered. `StudioEditor` is checked without fairness: a request of the tab may stay unanswered forever,
for the code sets it no timeout.

Deadlock is checked in every run but those of `WorkflowEdits` and `CatalogEdits`: a session
there has no scheduler, it ends when its edits are used up and its draft is saved. Where the bounds
end a behaviour of `DocumentService`, `Quiet` says so.

### What the violations say

1. *Rename and update are check-then-act* (`documents_concurrent`). No per-path lock is taken although
   `docs/studio/04-workspace-api-and-persistence.md:184` describes one.
2. *A validation cancelled before it starts keeps its slot for good* (`runtime_busy`).
3. *A thread delayed over the end of its window resets the next one* (`rate_limit_cap`).
4. *A document fetched again moves the base and the ETag but keeps the draft* (`editor_overwrite`). The
   counterexample needs no edit at all: the tab opens a document, another client changes it, the list
   is refreshed, and the old text now counts as a dirty draft of the new revision; saving it replaces
   the other client's text without a conflict.
5. *A rename misses the uses in YAML list items* (`edits_rename`), although the form says that it
   updates all of them.

### What the passing runs excuse

Where a property has an exception, the code does what is excepted. These are known divergences, some of
them from what the repository says:

- documents: a save that changes the workflow id can close a cycle, because the cycle check sees the
  dependents before they are redirected (`TODO.md:388` claims otherwise); a delete of a workflow
  called by its id is not refused (`docs/studio/04-workspace-api-and-persistence.md:259`); a restore
  whose clean-up fails answers 500 for a restore that happened (`RestoreUncleared`); a workflow filed below `catalogs/` is
  written and then answered with 404; two operationIds exchanged in one update end up the same (the
  model has one operation per catalog);
- documents, again: an unquoted `subFlowRef` with a comment behind it is not rewritten and dangles
  (`StudioDocumentService.java:365-367`), although `frontend/studio/README.md:120` says that inbound values
  are rewritten while comments are preserved; and the text of a catalog's path, alias or operation is replaced
  also where it is part of a longer one (456, 470-471), so that links of other catalogs move;
- agent calls: an event that arrives before its instance is suspended is accepted and dropped; the
  monitor reads the 404 of an evicted, successful instance as "no longer available"
  (`AgentCallTest.java:124` reads it as completion); a run that outlives its preset writes into the
  record of the next one; a preset also stays when the document is fetched again with another
  workflow id (`execution-panel.tsx:39`, not modelled);
- workflow edits: branches written inline in YAML neither follow a rename nor stand against a
  deletion; a rename with every key captures references that dangled; the graph of an unsaved YAML
  draft has the conditions of the saved one; a rename changes every longer YAML name that has the old
  one as a word, which then dangles; the repair of a repeated branch compares one line of a condition, so
  that all conditions written as blocks are the same to it and a branch nothing repeats may go
  (`quick-fix.ts:257`), although its text says that the branch repeats an earlier one (160); the extraction
  looks only at the direct transitions into its selection, and the subflow's last state keeps its
  transition to a state that stays in the caller (`subflow-extraction.ts:102`), although behavior is to be
  preserved (`TODO.md:394`); an extracted state whose name is an invocation's captures dangling references;
- catalogs: an operation below a path with a colon is shown under another path or not at all, and
  its id may be given again; an operation added below an inline path item, or a component below an
  inline category, breaks the text; a mapping typed on one line is spliced onto the line of its key; the impact dialog stays open while
  another operation is selected, and its button then deletes that one, although its references were
  not listed (`frontend/studio/README.md:118`);
- the editor: after a restart the base of a restored draft is not known, so that `rebased` is always set
  for it and `ForeignTextSurvives` says nothing of it any more; an edit typed while a save is on its way is replaced by the answer (`app.tsx:872`); a
  conflict panel outlives the selection, so that Reload and Merge write the conflict's document into
  the draft of another one (1071-1075, 1815-1830); Merge takes as its base the base of now, not the
  one the local text was made from.

## 4. Proofs

| Theorem | Statement |
|---|---|
| `DocumentService_proofs!TypeCorrect` | `Spec => []TypeOK` for every workspace, request set, number of threads, faults and crashes |
| `DocumentHolds_proofs!HandlersHold` | `Sequential /\ Spec => []HandlersHoldTheirFiles` |
| `DocumentHolds_proofs!NothingIsLost` | `Sequential /\ Spec => NoRevisionLost`, whatever fails and wherever the process dies |
| `DocumentHolds_proofs!TrashStaysRecoverable` | `Sequential /\ Spec => []TrashIsRecoverable` |
| `DocumentHolds_proofs!FailuresLeaveNoTrace` | `Sequential /\ Spec => FailedRequestLeavesNoTrace` |
| `DocumentHolds_proofs!LinksAreKept` | `Sequential /\ Spec => LinksKept`, for every graph of references and every way in which paths, operations and aliases hold one another |
| `DocumentHolds_proofs!GraphStaysAcyclic` | `Sequential /\ Spec => SavesKeepGraphAcyclic`, for every graph of references |
| `DocumentHolds_proofs!HandlersAreAtomic` | `Sequential /\ Workers # {} /\ Spec => ImplementsAtomicWorkspace`: the handlers implement `AtomicWorkspace`, whatever the workspace, the requests, the failures and the crashes |
| `RuntimeValidation_proofs!SlotsInvariant` | `Spec => []SlotsInv` |
| `RuntimeValidation_proofs!TypeCorrect` | `Spec => []TypeOK` |
| `RuntimeValidation_proofs!SlotsAreAccountedFor` | `Spec => []SlotsAccountedFor` for every number of callers, slots and tasks |
| `RuntimeValidation_proofs!WorkStaysBounded` | `Spec => []WorkIsBounded` |
| `RuntimeValidation_proofs!NoWorkAbandoned` | `Spec => []AbandonedWorkIsCancelled` |
| `RateLimit_proofs!TypeCorrect` | `Spec => []TypeOK` |
| `RateLimit_proofs!CapInvariant` | `Spec => [](TypeOK /\ CapInv)` |
| `RateLimit_proofs!CapIsPerStraggler` | `Spec => []CapPerStraggler`: without a straggler no window lets more than the cap through |
| `RateLimit_proofs!RefusalIsEarned` | `Spec => RefusalsAreEarned` |
| `StudioEditor_proofs!EditorInvariant` | `Spec => []EditorInv` |
| `StudioEditor_proofs!TypeCorrect` | `Spec => []TypeOK` |
| `StudioEditor_proofs!SavingHoldsBack` | `Spec => []SavingHasASave` |
| `StudioEditor_proofs!ForeignTextStays` | `Spec => ForeignTextSurvives` for every number of documents, saves, edits and foreign revisions; the bound of the run is not assumed |
| `StudioEditor_proofs!EditsStay` | `Spec => []EveryEditKept`, with the same constants |
| `AgentCall_proofs!TypeCorrect` | `Spec => []TypeOK` for every set of requests, number of instances, attempts and polls |
| `AgentCall_proofs!PanelRefinesCalls` | `Spec => CallSpec`: the panel drives the workflows through their own actions only |
| `AgentCall_proofs!StatusesStayTrue` | `Spec => []StatusesAreTrue` |
| `WorkflowEdits_proofs!EditsInvariant` | `Spec => []EditsInv` |
| `WorkflowEdits_proofs!TypeCorrect` | `Spec => []TypeOK` for every set of documents, names and branch lists, and every number of edits |
| `WorkflowEdits_proofs!NamesAreKeptUnique` | `Spec => NamesStayUnique` |
| `WorkflowEdits_proofs!NothingSeenDangles` | `Spec => []NothingVisibleDangles` |
| `WorkflowEdits_proofs!BranchFixKeepsChoices` | `Spec => BranchFixKeepsTheChoice` |
| `WorkflowEdits_proofs!UnreachableFixKeepsTheReach` | `Spec => UnreachableFixKeepsReach` |
| `WorkflowEdits_proofs!RenamesKeepTheGraph` | `Spec => RenameKeepsTheGraph` |
| `WorkflowEdits_proofs!ExtractionsKeepTheFlow` | `Spec => ExtractionKeepsTheFlow` |
| `WorkflowEdits_proofs!GraphIsOfTheDraft` | `Spec => []GraphShowsTheDraft` |
| `WorkflowEdits_proofs!QueueFindsDistances` | `Spec => []LayersAreDistances` |
| `CatalogEdits_proofs!CatalogInvariant` | `Spec => []CatalogInv` |
| `CatalogEdits_proofs!TypeCorrect` | `Spec => []TypeOK` for every set of well-kept catalogs and every number of edits |
| `CatalogEdits_proofs!IdsStayUnique` | `Spec => []ShownIdsUnique` |
| `CatalogEdits_proofs!OnlyTheSelectedGoes` | `Spec => DeletionsAreMeant` |
| `CatalogEdits_proofs!EditsAreReadable` | `Spec => EditsLeaveItReadable` |

They rest on the constants' assumptions alone (`LimitAssumption`, `BoundsAssumption`, ...), which TLC
evaluates in every run; the bounds on requests and windows are arbitrary naturals.

*The cap.* `CapPerStraggler` is not inductive: it says nothing of the window object a thread is about
to replace, nor of the count that will be compared with the cap. `CapInv` adds `ObservedIsCurrent`
(whoever holds the current object's number holds the current count, which is what compareAndSet
tests) and `AdmittedSoFar`, which bounds what was let through in windows later than, equal to and
earlier than the referenced one. Only `Swap` changes the count: `SwapCounts` says what it does, and
the step is split by whether the thread's window is the referenced one, a later or an earlier one. The
lower bound on `admitted` in the middle case gives `RefusalsAreEarned`.

*The types of the document service.* `TypeOK` includes what each phase of a handler may assume of its
locals (`JobOK`); it is split into `ControlOK` (threads) and `FilesOK` (files and trash), and every
handler's step is an answer (`RespondControl`) or a move to a next phase (`ProceedControl`).

*One client.* Two request threads break `NoRevisionLost` (first violation), so the promises of the
document service are proved for `Sequential`: any number of requests, one at a time, of any kind, on
any workspace, with any number of failing writes and restarts. `HandlersHoldTheirFiles` says what a
handler relies on between its look at a file and its write, phase by phase; `IInv` adds to it the
types and `ShapeInv` (which operations plan rewrites, and which path they end at). A finished handler
holds nothing (`Answered`), so only steps to a next phase need an argument: what the phase they leave
held, with what the step wrote, is what the next one holds. `NoRevisionLost` then follows action by
action: what a write replaces is what its client named.

*Roll-back.* `BInv` relates the workspace to the one the request found (`before`): until the first
write it is the same; from then on every file outside the document, its target and its plan is the
same (`OthersAsBefore`), the handler's images are those of `before` (`Remembers`), and, as long as at
most one write or move has failed since it came, what has been undone is as it was (`RolledBack`). A handler that rolls
back has met its one failure already (`faults > since`), so a failing roll-back is the second and out of
the theorem's scope. `RInv` excuses a payload without manifest only while its delete is in the phase
that writes the manifest or takes the payload back.

*Links and cycles.* `SaveInv` carries what a saving handler found out to its answer: its plan holds
every workflow the request changes, with what it becomes (`PlanFits`, `Becomes`); what of it is not
left to write is written (`PlanWritten`); and, once past the check, the graph with the new source has no
cycle through the document (`NotInCycle`). With `BInv`, the workspace at the answer 200 is then a
function of the one the request found (`OthersBecome`), and the rest is about two workspaces and no
longer about steps. With unique ids a reference has one candidate at most (`OneCandidate`), so neither
the order of the inventory nor the saved document's own place in the graph matters, and callees are a
relation (`CalleesAreCalled`). `UpdateLinks` and `RenameLinks` follow one reference through the rewrite,
by path, by id and to an operation. For `SavedAcyclic` the sets that witness that `x` was in no cycle
before and that the saved `p` is in none now are put together: their intersection if `x` is in the set
of `p`, their union with `p` if it is not. The hypotheses are those of the properties: a save that changes
the id of a workflow can close a cycle, because the check sees the dependents as they were.

*The atomic workspace.* Between the request and the answer a step must be invisible, and at the answer
what the handlers did must be what `AtomicWorkspace` says of the workspace it found, which may be many
steps in the past. Of that past, `BInv` and `SaveInv` keep what was written; what is missing is why it was
granted. `GrantInv` keeps that, phase by phase: the checks that were passed hold of `before`
(`TagGranted`: the ETag matched, no dependent or the impact accepted, the target free), the source to be
written is what the request makes of it (`TextGranted`), and the trash entry is the one the request is about
(`TrashGranted`). `FollowIs`, `AfterOthers` and `AfterOwn` show that the two specifications rewrite alike,
one reference at a time; `RefusalSeen` that a refusal has its reason; `RereadSeen`, `TrashSeen` and
`UndoneSeen` are the answers of the handlers. A crash may find a handler anywhere in its writes or
its roll-back: `LateMixed` says that each file is then the one found or the one asked for, and that a
renamed document is at one of its two paths. Nothing is assumed of the failures: a roll-back that fails
has met its second (`RolledBack`), and is a `Mangle`. One more fact of the constants is used than before:
a stale ETag is not a missing one, and the marker of an idle thread is no request
(`SpecialsAssumption`).

*One tab.* `ForeignTextSurvives` is about the step in which the server accepts a save; what makes it
true happened long before, at a load, a merge or a validation. `OthersKept` says it of every place a
text passes through: the draft against its base, the base against the active document whose ETag will
be sent, each validation and each save against the ETag it carries, the local text of a conflict
against the revision it was to replace. For a merge the last two meet: `MergeKeeps` needs that the
local text was made from the present base (`InPlace`), which is why the merge of another document's
conflict, or on a moved base, is excused. `KnownInv` (nothing is on its way or shown without a draft)
makes the types inductive. `SavingHasASave` needs that the save is not an orphan of an earlier page
(`SavingInv`), because the answer to an orphan enables nothing.

`EveryEditKept` says where an edit is, not why it will still be there after the next answer.
`EditKept(n)` says that edit `n` was let go (typed over, reloaded, not restored, merged away, or typed while an
answer was pending), is not made yet and shown nowhere (`Unseen`), or is `KeptIn` one
document: its `Home` shows it, which is the draft, else what localStorage will restore, else the
server; every text that may come to replace that draft shows it (a save, a validation, the local text
of a conflict, a load that will find neither draft nor stored text); and every base, ETag and active
document that shows it does so because the server does, since a draft equal to its base is dropped
from localStorage. The edit may change its document: a conflict that outlives the selection writes
into another draft, and each such step is shown to leave it in one or to let it go. `DocsAssumption`
keeps the names of documents apart from the numbers of edits.

*The statuses.* `StatusesAreTrue` says nothing of what is still under way: an accepted reply that the
agent has not read, a poll that the panel has not. `Told` adds the first (a post that was accepted
answered its instance, an instance with a post can only end by its event), `RunKnows` the second
(what a run saw of its instance is over, and nothing touches an instance that is over: `OverStays`),
`RecordFollows` ties an answer shown to the run that still watches, and `RunMatches` the preset of a
run to the mode of its instance, because only an asynchronous one is ever suspended (`AsyncOnly`).

*The slots.* `SlotsAccountedFor` counts callers and tasks by their steps. It is not inductive: a
submission could reuse the number of a task that is under way, and a thread could start a task twice.
`SlotsInv` adds `TasksInv` (the numbers after `submitted` are new, and there are enough of them for the
callers that prepare a submission), `QueueInv` (the queue holds queued tasks, each once), `slots >= 0`,
and the bound on the busy threads. Each step then changes `Admitting`, `Holding` and `BusyThreads` by
one known element or not at all; `Gains` and `Loses` turn that into a count. `WorkIsBounded` follows,
because what is queued or running is part of `Holding`. `AbandonedWorkIsCancelled` is inductive
relative to `SlotsInv`: a step keeps the caller that waits, or cancels the task when that caller leaves.

*The workflow edits.* `NothingVisibleDangles` is stated of sets of names; `Sound` says the same state by
state (`SoundIs`), which is how an edit can be looked at: it changes one state, all the uses of one
name, or the states there are. For each operator of the patchers a lemma says that it keeps the types,
the soundness and the uniqueness of names (`Kept`), from a few lemmas about what it does to the
sequences of states and definitions (`Adds`, `Drops`, `Swaps`, `DefsChange`, `StateTo`, `UsesTo`). A
rename keeps soundness because what it does not see is not promised: the visible uses follow, so no
visible use is left of a name that has gone. A deletion keeps it because it is refused while a visible
use is left; deleting a selection is a fold of deletions from the last to the first, and its lemma takes
the first place of the fold that would break the promise. The repairs are of the draft as it is, so that
nothing need be known of the saved document they were offered for. The bound on the states is part of
the invariant because a repair or an extraction makes up a name, for which the numbers must not run
out. An extraction ends the session, and is asked for types and unique names only. The constants are
assumed to be what the code makes them: what the user writes are names, branches and calls
(`WrittenAssumption`), a session begins with a document (`SeedsAssumption`), a copy has another name
(`CopyAssumption`), numbers go on (`NumbersAssumption`), and no document is the absent name
(`DocumentAssumption`).

*The graph of an edit.* The edges are looked at one by one (`Leaves`, `RealEdgesAre`), so that an edit
is an image of the edges it leaves alone. A state that was renamed or redirected has its edges moved
(`RenamedAs`, `EdgesMoved`): a rename is that for every state, an extraction for the states outside the
range, whose edges moved back (`Back`) are those there were; the range itself gives its edges through
the subflow (`HoldsTheRest`), and where the subflow leaves its own states the exits of the invocation
follow (`InlinedEdges`). The branches that a repair removes
are a run (`IsRun`): whenever one of them holds, one before the run already holds.

*Searches.* The layers of the queue and the reachable states are recursive functions of the number of
rounds, and what they compute cannot be had by an induction over the data. It is had by counting
instead: a set of naturals has a least and, bounded, a greatest element (`LeastNat`, `GreatestNat`); a
round that finds nothing new is the last one that matters (`RoundsExist`), and as many rounds as there
are nodes reach it because each earlier one finds a node (`GrownFull`). `ReachableIs` then gives the
search as what lies in every closed set, and `QueueFindsDistances` the layers as distances. That a
repair removes nothing reachable does not follow from the saved text, which the diagnostic is of, but
from the draft: a state that no edge of the draft leads to is in no path (`RemovalKeepsReach`).

*The catalog edits.* `CatalogInv` adds to the types that the draft stays `WellKept`, that the selected
operation is one the form shows (`Followed`), and that the dialog is about the operation its button
will delete unless another one was selected under it (`Listed`). Every edit but two leaves the
operations at their places with their paths, methods and, but for one, their operationIds
(`Rewrites`, `KeepsIds`). A new operation moves the later ones up (`Adds`, `Lift`): it comes after all,
or after the last of the path item it is put into (`PlacedIs`), and what was shown is still shown
under its key (`AddFollows`). A deletion moves operations down (`Deletes`, `Drop`). The code deletes
the first operation it finds under the path and method shown (`LocatedFirst`, `LocatedShows`), and the
selection is by the same key: where a path cut off at its colon makes two operations share one, both
mean the first of them, which is what `OnlyTheSelectedGoes` needs; `TakenIsMeant` says what else can go
with it, and only in a text that does not parse. An operationId is compared with those of the
operations but the selected one; with the default selection, where nothing is left out, that is more
than is needed, and with a selection `Followed` is what makes it enough. The soundness of a text is
lost for good (`Rewrites`, `Adds`), so that the keys of a text that is still sound were always
different.

Only model-checked: the liveness properties (`EveryRequestAnswered` twice, `EveryCallAnswered`,
`SlotsComeBack`, `EverythingSettles`), which are outside the provers' reach; and `ExamplesConform` of
the catalog edits, whose examples are recursive over data. Graph searches are defined without recursion where theorems reach them (`InCycle`).

## 5. Not modelled

- The filters: predicates on one request; nothing interleaves.
- Workspace validation and the dependency closure of the document service: pure functions that only
  report; the dependency check they share with delete and with the saves is modelled (`ReferencesTo`,
  `InCycle`).
- The two sub-flows `boolean-decision` and `choice-decision`: they decide on data and keep no state.
- The YAML and JSON parsers and printers. What the line patterns find and miss is modelled, the text
  is not.
- Rendering, the read-only projections, undo histories, and the deployment scripts.
- Create, import, copy, rename, delete and restore of documents in the shell: the server's side is
  `DocumentService`; the shell's side adds dialogs and a refresh.
- The compiler and the workflow engine are external.

## 6. Plan

1. Composition: `StudioEditor` over `AtomicWorkspace` in place of its own `HandleSave`, and an abstract
   workspace for several clients, once the code takes the locks its documentation describes.
2. The rest of the shell: create, rename, delete, restore, and the undo histories.
3. Dependency closure and switch coverage as functions checked against reference definitions.
