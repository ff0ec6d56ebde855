---------------------------- MODULE StudioEditor ----------------------------
(***************************************************************************)
(* One browser tab of the Studio (frontend/studio/src/app.tsx): the drafts *)
(* of its documents, the revisions it fetches, its saves and autosaves and *)
(* their answers, conflicts, and the drafts kept in localStorage, beside a *)
(* workspace API that other clients write to.  One action is one event     *)
(* handler or one answer, with the re-render and the effects it causes.    *)
(*                                                                         *)
(* A document's text is two lines, each the set of texts it shows: the own *)
(* line, which the user of this tab edits, and the other line, which the   *)
(* other clients edit.  The text stands for its ETag, its hash.            *)
(***************************************************************************)
EXTENDS Integers, FiniteSets

CONSTANTS
  Docs,            \* the documents listed
  Edited,          \* bound: the documents that the user and others write to
  Slots,           \* bound: saves on their way at a time
  MaxTyped,        \* bound: edits the user types
  MaxForeign,      \* bound: revisions other clients write
  MaxValidations,  \* bound: autosave validations on their way at a time
  None             \* no document, no draft, no request

ASSUME BoundsAssumption ==
  /\ MaxTyped \in Nat /\ MaxForeign \in Nat /\ MaxValidations \in Nat
  /\ Edited \subseteq Docs

\* A document's name is not the text of an edit.
ASSUME DocsAssumption == Docs \cap (1..MaxTyped) = {}

VARIABLES
  server,      \* server[d]: the text of d in the workspace
  load,        \* the document being fetched, with its text once it was served
  selected,    \* effectiveSelectedId
  loaded,      \* loadedDocumentId
  active,      \* activeDocument: its id and the text whose ETag it carries
  drafts,      \* drafts[d]: the text in the editor
  base,        \* baseContents[d]
  stored,      \* stored[d]: the recoverable draft in localStorage
  saves,       \* saves[s]: a call of updateDocument and how far it is
  saving,
  preview,     \* savePreview
  conflict,    \* the conflict shown: the server's document, the local text and
               \* (history) the revision the local text was to replace
  timer,       \* the autosave timer is armed
  validating,  \* autosaves whose validation is on its way
  typed,       \* edits typed so far; the n-th shows the text n
  foreign,     \* revisions others wrote so far; the n-th shows the text -n
  letGo,       \* history: edits no longer owed to the user, see Type
  rebased      \* history: rebased[d], d's draft was put on a revision it was not made from

workspace == <<server, foreign>>
requests == <<load, saves, validating>>
editor == <<selected, loaded, active, drafts, base, saving, preview, conflict>>
history == <<typed, letGo, rebased>>
vars == <<workspace, requests, editor, stored, timer, history>>

Contents == [own : SUBSET (Docs \cup 1..MaxTyped), other : SUBSET (Docs \cup (-MaxForeign)..(-1))]
Documents == [id : Docs, content : Contents]

\* selectedDocumentReady: the document the editor works on.
Ready == IF selected = loaded THEN active ELSE None
Draft == drafts[Ready.id]
Dirty == Ready # None /\ Draft # base[Ready.id]

\* The condition under which the autosave effect sets its timer.
MayAutosave == Dirty /\ ~saving /\ ~preview /\ conflict = None

\* Mutant: savePreview is missing among the dependencies of the autosave effect.
Watched_NoPreview == <<Ready, Dirty, IF Ready = None THEN None ELSE Draft, saving, conflict>>

\* What the effects of a render see; a new activeDocument counts though equal.
Watched == <<Ready, Dirty, IF Ready = None THEN None ELSE Draft, saving, preview, conflict>>

\* The effects of the render after a step: dirty drafts are stored, clean ones
\* removed; the timer is set anew when something it watches has changed.
Effects(newActive) ==
  /\ stored' = [d \in Docs |->
       IF drafts'[d] = None THEN stored[d]
       ELSE IF drafts'[d] # base'[d] THEN drafts'[d] ELSE None]
  /\ timer' = IF newActive \/ Watched' # Watched THEN MayAutosave' ELSE timer

\* The edits a text shows.
Edits(text) == text.own \ Docs

Original(d) == [own |-> {d}, other |-> {}]

Init ==
  /\ server = [d \in Docs |-> Original(d)]
  /\ selected \in Docs
  /\ load = [id |-> selected, served |-> None]
  /\ loaded = None /\ active = None /\ conflict = None
  /\ drafts = [d \in Docs |-> None]
  /\ base = [d \in Docs |-> None]
  /\ stored = [d \in Docs |-> None]
  /\ saves = [s \in Slots |-> None]
  /\ saving = FALSE /\ preview = FALSE /\ timer = FALSE
  /\ validating = {}
  /\ typed = 0 /\ foreign = 0 /\ letGo = {}
  /\ rebased = [d \in Docs |-> FALSE]

(***************************************************************************)
(* Fetching.                                                               *)
(***************************************************************************)
\* The list arrives: the user asks for it at any time and every save does, and a
\* confirmed refresh discards nothing.  The selected document's summary is a new
\* object, so the document is fetched anew.
ListArrives ==
  /\ load' = [id |-> selected, served |-> None]
  /\ UNCHANGED <<workspace, saves, validating, editor, stored, timer, history>>

\* selectDocument, popstate.  Drafts are kept, whatever the user confirms.
Select(d) ==
  /\ d # selected
  /\ selected' = d
  /\ load' = [id |-> d, served |-> None]
  /\ UNCHANGED <<workspace, saves, validating, loaded, active, drafts, base,
                 saving, preview, conflict, history>>
  /\ Effects(FALSE)

ServeLoad ==
  /\ load # None /\ load.served = None
  /\ load' = [load EXCEPT !.served = server[load.id]]
  /\ UNCHANGED <<workspace, saves, validating, editor, stored, timer, history>>

\* Mutant: the text fetched replaces the draft.
DraftAfterLoad_Server(d, text, restore) == IF restore THEN stored[d] ELSE text

DraftAfterLoad(d, text, restore) ==
  IF drafts[d] # None THEN drafts[d] ELSE IF restore THEN stored[d] ELSE text

\* The text fetched becomes the base.  A draft the tab has is kept; otherwise the
\* stored one is offered, and the user restores it or lets it go.
LoadArrives ==
  /\ load # None /\ load.served # None
  /\ LET d == load.id
         text == load.served
         offered == drafts[d] = None /\ stored[d] # None /\ stored[d] # text
     IN \E restore \in BOOLEAN :
          /\ restore => offered
          /\ active' = [id |-> d, content |-> text]
          /\ loaded' = d
          /\ base' = [base EXCEPT ![d] = text]
          /\ drafts' = [drafts EXCEPT ![d] = DraftAfterLoad(d, text, restore)]
          /\ letGo' = IF offered /\ ~restore THEN letGo \cup Edits(stored[d]) ELSE letGo
          /\ rebased' = [rebased EXCEPT ![d] = @ \/ (drafts'[d] # text /\ base[d] # text)]
  /\ load' = None
  /\ UNCHANGED <<workspace, saves, validating, selected, saving, preview,
                 conflict, typed>>
  /\ Effects(TRUE)

LoadFails ==
  /\ load # None
  /\ load' = None
  /\ loaded' = None
  /\ UNCHANGED <<workspace, saves, validating, selected, active, drafts, base,
                 saving, preview, conflict, history>>
  /\ Effects(FALSE)

(***************************************************************************)
(* Editing.                                                                *)
(***************************************************************************)
\* Something of d from before is still to be answered or resolved.
Pending(d) ==
  \/ \E s \in Slots : saves[s] # None /\ saves[s].id = d
  \/ \E v \in validating : v.id = d
  \/ conflict # None /\ conflict.server.id = d

\* The edit replaces the user's line.  The text typed over is let go of, and so is
\* an edit typed while something of the document is pending (see EveryEditKept).
Type ==
  /\ Ready # None /\ Ready.id \in Edited
  /\ typed < MaxTyped
  /\ typed' = typed + 1
  /\ drafts' = [drafts EXCEPT ![Ready.id].own = {typed + 1}]
  /\ letGo' = letGo \cup Edits(Draft) \cup (IF Pending(Ready.id) THEN {typed + 1} ELSE {})
  /\ UNCHANGED <<workspace, requests, selected, loaded, active, base, saving, preview,
                 conflict, rebased>>
  /\ Effects(FALSE)

OpenPreview ==
  /\ Dirty /\ ~preview
  /\ preview' = TRUE
  /\ UNCHANGED <<workspace, requests, selected, loaded, active, drafts, base, saving,
                 conflict, history>>
  /\ Effects(FALSE)

CancelPreview ==
  /\ Dirty /\ preview
  /\ preview' = FALSE
  /\ UNCHANGED <<workspace, requests, selected, loaded, active, drafts, base, saving,
                 conflict, history>>
  /\ Effects(FALSE)

(***************************************************************************)
(* Saving.                                                                 *)
(***************************************************************************)
\* saveDraft: the document, ETag and draft are those of its closure.
Send(id, etag, text) ==
  \E s \in Slots :
    /\ saves[s] = None
    /\ saves' = [saves EXCEPT ![s] =
         [id |-> id, etag |-> etag, text |-> text, phase |-> "sent"]]
    /\ saving' = TRUE

ConfirmSave ==
  /\ Dirty /\ preview /\ ~saving
  /\ Send(Ready.id, Ready.content, Draft)
  /\ UNCHANGED <<workspace, load, validating, selected, loaded, active, drafts,
                 base, preview, conflict, history>>
  /\ Effects(FALSE)

\* The autosave timer fires and the draft goes to be validated.
TimerFires ==
  /\ timer
  /\ Cardinality(validating) < MaxValidations
  /\ timer' = FALSE
  /\ validating' = validating \cup {[id |-> Ready.id, etag |-> Ready.content, text |-> Draft]}
  /\ UNCHANGED <<workspace, load, saves, editor, stored, history>>

\* The draft was valid.  The guard compares the closure's draft with itself, so an
\* older draft than the editor's is saved, also when a save is on its way already.
ValidationArrives(v) ==
  /\ validating' = validating \ {v}
  /\ Send(v.id, v.etag, v.text)
  /\ UNCHANGED <<workspace, load, selected, loaded, active, drafts, base, preview,
                 conflict, history>>
  /\ Effects(FALSE)

\* The draft was invalid, or the validation failed.
ValidationStops(v) ==
  /\ validating' = validating \ {v}
  /\ UNCHANGED <<workspace, load, saves, editor, stored, timer, history>>

\* updateDocument at the server, which refuses a stale ETag with 412 and a text that
\* closes a cycle of subflows with 409.  Nobody waits for the answer to an orphan.
HandleSave(s) ==
  /\ saves[s] # None
  /\ saves[s].phase \in {"sent", "orphan"}
  /\ \E cycle \in BOOLEAN :
       LET save == saves[s]
           written == save.etag = server[save.id] /\ ~cycle
           answered == [save EXCEPT !.phase = IF written THEN "saved" ELSE "refused"]
       IN /\ server' = IF written THEN [server EXCEPT ![save.id] = save.text] ELSE server
          /\ saves' = [saves EXCEPT ![s] = IF save.phase = "sent" THEN answered ELSE None]
  /\ UNCHANGED <<foreign, load, validating, editor, stored, timer, history>>

\* Mutant: the button is enabled again only by a save that succeeds.
SaveEnds_OnSuccess(s) ==
  /\ saving' = (saving /\ saves[s].phase # "saved")
  /\ saves' = [saves EXCEPT ![s] = None]

\* The finally clause of saveDraft.
SaveEnds(s) ==
  /\ saving' = FALSE
  /\ saves' = [saves EXCEPT ![s] = None]

SaveArrives(s) ==
  /\ saves[s] # None /\ saves[s].phase = "saved"
  /\ LET save == saves[s]
     IN /\ active' = [id |-> save.id, content |-> save.text]
        /\ base' = [base EXCEPT ![save.id] = save.text]
        /\ drafts' = [drafts EXCEPT ![save.id] = save.text]
  /\ preview' = FALSE /\ conflict' = None
  /\ SaveEnds(s)
  /\ UNCHANGED <<workspace, load, validating, selected, loaded, history>>
  /\ Effects(TRUE)

\* The tab has read 412 or 409 and fetched the server's document, in one step: the
\* document the panel shows may be older than the server's in any case, and after 409
\* it may be the very revision the text was made from.
ConflictArrives(s) ==
  /\ saves[s] # None /\ saves[s].phase = "refused"
  /\ conflict' = [server |-> [id |-> saves[s].id, content |-> server[saves[s].id]],
                  local |-> saves[s].text, made |-> saves[s].etag]
  /\ SaveEnds(s)
  /\ UNCHANGED <<workspace, load, validating, selected, loaded, active, drafts, base,
                 preview, history>>
  /\ Effects(FALSE)

\* The request or an answer is lost, the server finds the text invalid or the fetch
\* after a refusal fails: a notice is all that is left.
SaveFails(s) ==
  /\ saves[s] # None /\ saves[s].phase # "orphan"
  /\ SaveEnds(s)
  /\ UNCHANGED <<workspace, load, validating, selected, loaded, active, drafts, base,
                 preview, conflict, history>>
  /\ Effects(FALSE)

(***************************************************************************)
(* Resolving a conflict.  The panel is shown with whatever document is     *)
(* ready, which need not be the one the conflict is about.                 *)
(***************************************************************************)
\* mergeThreeWay, line by line; a line both sides changed shows both texts.
MergeLine(original, yours, theirs) ==
  IF yours = theirs \/ theirs = original THEN yours
  ELSE IF yours = original THEN theirs ELSE yours \cup theirs

MergeThreeWay(original, yours, theirs) ==
  [own |-> MergeLine(original.own, yours.own, theirs.own),
   other |-> MergeLine(original.other, yours.other, theirs.other)]

\* The text the tab was to save is about the ready document and was made from the
\* revision that is its base now.
InPlace == conflict.server.id = Ready.id /\ conflict.made = base[Ready.id]

\* The server's document becomes the active one and the base of the ready one.
Resolve(text) ==
  /\ active' = conflict.server
  /\ base' = [base EXCEPT ![Ready.id] = conflict.server.content]
  /\ drafts' = [drafts EXCEPT ![Ready.id] = text]
  /\ conflict' = None
  /\ UNCHANGED <<workspace, requests, selected, loaded, saving, preview, typed>>
  /\ Effects(TRUE)

ReloadServer ==
  /\ conflict # None /\ Ready # None
  /\ letGo' = letGo \cup Edits(Draft)
  /\ rebased' = [rebased EXCEPT ![conflict.server.id] = @ \/ conflict.server.id # Ready.id]
  /\ Resolve(conflict.server.content)

MergeConflict ==
  /\ conflict # None /\ Ready # None
  /\ letGo' = IF InPlace THEN letGo ELSE letGo \cup Edits(Draft)
  /\ rebased' = [d \in Docs |->
                   rebased[d] \/ (~InPlace /\ d \in {Ready.id, conflict.server.id})]
  /\ Resolve(MergeThreeWay(base[Ready.id], conflict.local, conflict.server.content))

\* Mutant: the local draft is kept with the ETag of the server's document.
KeepLocal_NewETag ==
  /\ conflict # None /\ Ready # None
  /\ active' = conflict.server
  /\ conflict' = None
  /\ UNCHANGED <<workspace, requests, selected, loaded, drafts, base, saving, preview, history>>
  /\ Effects(TRUE)

KeepLocal ==
  /\ conflict # None /\ Ready # None
  /\ conflict' = None
  /\ UNCHANGED <<workspace, requests, selected, loaded, active, drafts, base, saving, preview,
                 history>>
  /\ Effects(FALSE)

(***************************************************************************)
(* The surroundings.                                                       *)
(***************************************************************************)
OthersWrite(d) ==
  /\ foreign < MaxForeign
  /\ foreign' = foreign + 1
  /\ server' = [server EXCEPT ![d].other = {-(foreign + 1)}]
  /\ UNCHANGED <<requests, editor, stored, timer, history>>

\* The tab is closed or reloaded and opened again: what the browser stores is left,
\* and the saves that have been sent.
Restart ==
  /\ selected' \in Docs
  /\ load' = [id |-> selected', served |-> None]
  /\ loaded' = None /\ active' = None /\ conflict' = None
  /\ drafts' = [d \in Docs |-> None]
  /\ base' = [d \in Docs |-> None]
  /\ saves' = [s \in Slots |->
       IF saves[s] # None /\ saves[s].phase \in {"sent", "orphan"}
       THEN [saves[s] EXCEPT !.phase = "orphan"] ELSE None]
  /\ saving' = FALSE /\ preview' = FALSE /\ timer' = FALSE
  /\ validating' = {}
  /\ UNCHANGED <<workspace, stored, history>>

Next ==
  \/ ListArrives \/ ServeLoad \/ LoadArrives \/ LoadFails
  \/ Type \/ OpenPreview \/ CancelPreview \/ ConfirmSave \/ TimerFires
  \/ ReloadServer \/ MergeConflict \/ KeepLocal \/ Restart
  \/ \E d \in Docs : Select(d)
  \/ \E d \in Edited : OthersWrite(d)
  \/ \E v \in validating : ValidationArrives(v) \/ ValidationStops(v)
  \/ \E s \in Slots :
       \/ HandleSave(s) \/ SaveArrives(s) \/ ConflictArrives(s) \/ SaveFails(s)

Spec == Init /\ [][Next]_vars
-----------------------------------------------------------------------------
Save == [id : Docs, etag : Contents, text : Contents,
         phase : {"sent", "orphan", "saved", "refused"}]
Validation == [id : Docs, etag : Contents, text : Contents]
Load == [id : Docs, served : Contents \cup {None}]
Conflict == [server : Documents, local : Contents, made : Contents]

\* None is not one of the values it stands for the lack of.
ASSUME NoneAssumption ==
  None \notin Docs \cup Contents \cup Documents \cup Save \cup Load \cup Conflict

\* Every variable has its type; an editor that shows a document has its draft and base.
TypeOK ==
  /\ server \in [Docs -> Contents]
  /\ saving \in BOOLEAN /\ preview \in BOOLEAN /\ timer \in BOOLEAN
  /\ load \in Load \cup {None}
  /\ selected \in Docs /\ loaded \in Docs \cup {None}
  /\ active \in Documents \cup {None}
  /\ drafts \in [Docs -> Contents \cup {None}]
  /\ base \in [Docs -> Contents \cup {None}]
  /\ stored \in [Docs -> Contents \cup {None}]
  /\ saves \in [Slots -> Save \cup {None}]
  /\ conflict \in Conflict \cup {None}
  /\ \A v \in validating : v \in Validation
  /\ Cardinality(validating) <= MaxValidations
  /\ typed \in 0..MaxTyped /\ foreign \in 0..MaxForeign
  /\ letGo \subseteq 1..MaxTyped
  /\ rebased \in [Docs -> BOOLEAN]
  /\ timer => MayAutosave
  /\ Ready # None => drafts[Ready.id] # None /\ base[Ready.id] # None

Shows(text, n) == text # None /\ n \in text.own

\* Every edit is in the editor, in localStorage or on the server, whatever loads,
\* lost answers, refusals, merges and restarts come (630-680, 850-905), unless the
\* user typed over it, reloaded the server's text, declined to restore it or
\* resolved another document's conflict over it, or it was typed while an earlier
\* save, validation or conflict of the document was pending: the answer replaces
\* the draft (872).
EveryEditKept ==
  \A n \in (1..typed) \ letGo : \E d \in Docs :
    Shows(drafts[d], n) \/ Shows(stored[d], n) \/ Shows(server[d], n)

\* A line another client wrote leaves the server only by another client, however
\* saves, conflicts, merges and restarts interleave (851-896, 1069-1085, 1809-1832),
\* unless the tab has put the draft on a revision it was not made from.
ForeignTextSurvives ==
  [][\A d \in Docs :
       server'[d].other # server[d].other => foreign' # foreign \/ rebased[d]]_vars

\* The Save button is disabled and the autosave held back only while a save is on
\* its way, whichever of several ends first and however it ends (855-905).
SavingHasASave == saving => \E s \in Slots : saves[s] # None

\* The server never overwrites a newer revision: If-Match carries the revision the
\* client edited (docs/studio/04-workspace-api-and-persistence.md:161-172).
NewerRevisionsSurvive ==
  [][\A d \in Docs : server'[d].other # server[d].other => foreign' # foreign]_vars
=============================================================================
