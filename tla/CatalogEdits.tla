----------------------------- MODULE CatalogEdits -----------------------------
(***************************************************************************)
(* The catalog form: what its fields and buttons do to the draft of a      *)
(* catalog, which operation is selected, which errors it shows, and the    *)
(* dialog that lists the workflows an operation's deletion leaves without  *)
(* it.  The form acts on the operations and components the draft shows;    *)
(* nothing else changes while it does.                                     *)
(***************************************************************************)
EXTENDS CatalogDocument

CONSTANTS Seeds,          \* the catalogs a session may begin with
          ComponentTexts, \* the schemas a user types, each with its kind of text
          Referenced,     \* the operationIds workflows of the workspace refer to
          None,
          MaxEdits        \* bound: changes of the draft in a session

ASSUME TextsAssumption == ComponentTexts \subseteq Schemas \X Fragments

ASSUME ReferencedAssumption == Referenced \subseteq Ids

ASSUME NoneAssumption == None \notin (Paths \X Methods) \cup ((Paths \X Methods) \X (Ids \cup {Absent}))

ErrorFields == {"operation", "structured", "servers", "component"}

VARIABLES draft,    \* the text being edited
          saved,    \* the document the view was given
          selected, \* the key of the operation the user selected, or None
          errors,   \* the fields that show an error
          impact,   \* the operation the dialog is about, by key and operationId, or None
          moved,    \* whether the selection may be another one since it opened
          edits     \* changes made

vars == << draft, saved, selected, errors, impact, moved, edits >>

Key(op) == << op.path, op.method >>

About(c, op) == << ShownKey(c, op), op.operationId >>

(* Below paths that are absent or an exact {} there is nothing.            *)
NoneWithout(c) == c.layout["paths"] \in {"absent", "empty"} => c.ops = << >>

(* No two operations shown have one operationId but those whose keys look  *)
(* the same, since the path of one is cut off.                             *)
IdsApart(c) ==
  \A i, j \in CatalogOperations(c) :
    c.ops[i].operationId # Absent /\ c.ops[i].operationId = c.ops[j].operationId =>
      i = j \/ ShownKey(c, c.ops[i]) = ShownKey(c, c.ops[j])

(* In a text that parses no path and method is given twice, and what a     *)
(* path has is written below one key in one way.                           *)
KeysApart(c) ==
  c.sound => \A i, j \in DOMAIN c.ops :
    /\ i # j => Key(c.ops[i]) # Key(c.ops[j])
    /\ c.ops[i].path = c.ops[j].path =>
         /\ SameItem(c, c.ops[i], c.ops[j])
         /\ Yaml(c) => (c.ops[i].written = "item" <=> c.ops[j].written = "item")

(* The entries below a key that is seen follow one another.                *)
Contiguous(c) ==
  \A i, j, k \in DOMAIN c.ops :
    i < k /\ k < j /\ SameItem(c, c.ops[i], c.ops[j]) /\ Recognised(c, c.ops[i]) =>
      SameItem(c, c.ops[i], c.ops[k])

(* A catalog as the server takes it.                                       *)
WellKept(c) == NoneWithout(c) /\ IdsApart(c) /\ KeysApart(c) /\ Contiguous(c)

ASSUME SeedsAssumption ==
  MaxEdits \in Nat /\ \A c \in Seeds : c \in Catalog /\ WellKept(c)

Shown == CatalogOperations(draft)

Init ==
  /\ draft \in Seeds
  /\ saved = draft
  /\ selected = None
  /\ errors = {}
  /\ impact = None
  /\ moved = FALSE
  /\ edits = 0

(* The first operation shown under the selected key, or the first of all,  *)
(* or none.                                                                *)
Selection ==
  LET chosen == {i \in Shown : ShownKey(draft, draft.ops[i]) = selected}
      offered == IF chosen # {} THEN chosen ELSE Shown
  IN {draft.ops[i] : i \in {k \in offered : \A l \in offered : k <= l}}

(* Bound.                                                                  *)
MayEdit == edits < MaxEdits

(* An edit that is refused shows its error and one that is not clears it.  *)
(* When the draft changes the servers are read from it again.              *)
Apply(result, field, kept) ==
  /\ draft' = result.source
  /\ edits' = IF draft' = draft THEN edits ELSE edits + 1
  /\ errors' = IF result.error THEN kept \cup {field}
               ELSE kept \ ({field} \cup IF draft' = draft THEN {} ELSE {"servers"})

Form(result, field) ==
  /\ MayEdit
  /\ Apply(result, field, errors)
  /\ UNCHANGED << saved, selected, impact, moved >>

-----------------------------------------------------------------------------
(* The error of a metadata patch is not looked at.                         *)
UpdateMetadata ==
  \E field \in InfoFields, value \in Texts \cup {Absent} :
    /\ MayEdit
    /\ draft' = PatchMetadata(draft, field, value).source
    /\ draft' # draft
    /\ edits' = edits + 1
    /\ errors' = errors \ {"servers"}
    /\ UNCHANGED << saved, selected, impact, moved >>

UpdateServers == \E text \in Fragments : Form(PatchServers(draft, text), "servers")

TakenByAnother_ButTheFirst(id) ==
  \E i, j \in Shown : i < j /\ draft.ops[j].operationId = id

(* An operationId is compared with those of all operations but the one the *)
(* user selected: none is left out when the selection is the default.      *)
TakenByAnother(id) ==
  \E i \in Shown : draft.ops[i].operationId = id /\ ShownKey(draft, draft.ops[i]) # selected

UpdateOperation ==
  \E op \in Selection, field \in {"operationId", "summary"} :
    \E value \in (IF field = "operationId" THEN Ids ELSE Texts) \cup {Absent} :
      /\ MayEdit
      /\ value # op[field]
      /\ Apply(IF field = "operationId" /\ value # Absent /\ TakenByAnother(value)
               THEN Refused(draft)
               ELSE PatchOperation(draft, ShownPath(draft, op), op.method, field, value),
               "operation", errors \ {"structured"})
      /\ moved' = (moved \/ (impact # None /\ field = "operationId"))
      /\ UNCHANGED << saved, selected, impact >>

UpdateStructured ==
  \E op \in Selection, text \in Fragments :
    Form(PatchStructured(draft, ShownPath(draft, op), op.method, text), "structured")

CreateOperation ==
  \E path \in Paths, method \in Methods, id \in Ids \cup {Absent} :
    /\ MayEdit
    /\ Apply(AddOperation(draft, path, method, id), "operation", errors)
    /\ moved' = (moved \/ impact # None)
    /\ UNCHANGED << saved, selected, impact >>

CreateComponent ==
  \E name \in ComponentNames \cup {Absent}, t \in ComponentTexts :
    Form(AddComponent(draft, name, t[1], t[2]), "component")

UpdateComponent ==
  \E name \in ShownComponents(draft), t \in ComponentTexts :
    Form(PatchComponent(draft, name, t[1], t[2]), "component")

-----------------------------------------------------------------------------
(* Selecting clears the errors of what was selected before; it does not    *)
(* close the dialog.                                                       *)
SelectOperation ==
  \E i \in Shown :
    /\ ShownKey(draft, draft.ops[i]) # selected
    /\ selected' = ShownKey(draft, draft.ops[i])
    /\ errors' = errors \ {"operation", "structured"}
    /\ moved' = (moved \/ (impact # None /\ selected' # impact[1]))
    /\ UNCHANGED << draft, saved, impact, edits >>

SelectComponent ==
  /\ "component" \in errors
  /\ errors' = errors \ {"component"}
  /\ UNCHANGED << draft, saved, selected, impact, moved, edits >>

(* Workflows refer to an operation by its operationId, in any catalog.     *)
HasReferences(op) == op.operationId \in Referenced

RemoveSelected(op) ==
  LET result == RemoveOperation(draft, ShownPath(draft, op), op.method)
  IN /\ MayEdit
     /\ Apply(result, "operation", errors)
     /\ IF result.error THEN UNCHANGED << selected, impact, moved >>
        ELSE selected' = None /\ impact' = None /\ moved' = FALSE
     /\ UNCHANGED saved

ReviewImpact ==
  \E op \in Selection :
    /\ HasReferences(op)
    /\ impact' = About(draft, op)
    /\ moved' = FALSE
    /\ UNCHANGED << draft, saved, selected, errors, edits >>

DeleteOperation == \E op \in Selection : ~ HasReferences(op) /\ RemoveSelected(op)

(* The button deletes the operation that is selected when it is pressed.   *)
AcceptImpact == impact # None /\ \E op \in Selection : RemoveSelected(op)

KeepOperation ==
  /\ impact # None
  /\ impact' = None
  /\ moved' = FALSE
  /\ UNCHANGED << draft, saved, selected, errors, edits >>

(* The save button, which the form's errors and empty fields disable.      *)
Save ==
  /\ draft # saved
  /\ errors = {}
  /\ \A field \in InfoFields : ShownMetadata(draft, field) # Absent
  /\ saved' = draft
  /\ UNCHANGED << draft, selected, errors, impact, moved, edits >>

Next ==
  \/ UpdateMetadata \/ UpdateServers \/ UpdateOperation \/ UpdateStructured
  \/ CreateOperation \/ CreateComponent \/ UpdateComponent
  \/ SelectOperation \/ SelectComponent
  \/ ReviewImpact \/ DeleteOperation \/ AcceptImpact \/ KeepOperation \/ Save

Spec == Init /\ [][Next]_vars

-----------------------------------------------------------------------------
(* Every variable has a value of its type; the draft is a catalog whose    *)
(* operations have distinct paths and methods as long as it is sound.      *)
TypeOK ==
  /\ draft \in Catalog /\ saved \in Catalog
  /\ selected \in (Paths \X Methods) \cup {None}
  /\ errors \subseteq ErrorFields
  /\ impact \in ((Paths \X Methods) \X (Ids \cup {Absent})) \cup {None}
  /\ moved \in BOOLEAN
  /\ edits \in 0 .. MaxEdits
  /\ draft.sound => \A i, j \in DOMAIN draft.ops : i # j => Key(draft.ops[i]) # Key(draft.ops[j])

(* No two operations the form shows share an operationId, however they     *)
(* were created, edited and deleted (catalog-view.tsx updateOperation and  *)
(* createOperation, catalog-patch.ts addCatalogOperation), but for those   *)
(* shown under one key: with a path cut off at its colon the form cannot   *)
(* tell its operation from one of the path it seems to be.  An operation   *)
(* that is not shown may share one.                                        *)
ShownIdsUnique ==
  \A i, j \in Shown :
    draft.ops[i].operationId # Absent /\ draft.ops[i].operationId = draft.ops[j].operationId =>
      i = j \/ ShownKey(draft, draft.ops[i]) = ShownKey(draft, draft.ops[j])

(* Parts the patterns can take apart: nothing is inline but the empty      *)
(* paths and an empty category, and no path has a colon.                   *)
Regular(c) ==
  /\ \A part \in {"info", "components"} : c.layout[part] \in {"absent", "block"}
  /\ \A part \in {"paths", "schemas"} : c.layout[part] # "inline"
  /\ \A i \in DOMAIN c.ops : c.ops[i].written = "block" /\ c.ops[i].path \notin ColonPaths

(* An edit the form takes leaves a catalog that can be read one that can   *)
(* be read: what is spliced in fits the place it is spliced into.  Not so  *)
(* for a YAML mapping typed on one line or a fragment that is no YAML,     *)
(* which are put on the line of the key, nor for irregular catalogs.       *)
LeavesItReadable ==
  Readable(draft) /\ Regular(draft) =>
    \/ Readable(draft')
    \/ Yaml(draft) /\ \/ \E i \in DOMAIN draft'.ops : ~ Fits(draft'.ops[i].responses)
                      \/ \E i \in DOMAIN draft'.schemas : ~ Fits(draft'.schemas[i].text)

EditsLeaveItReadable == [][LeavesItReadable]_vars

(* What a deletion by the button may take: the operation the form shows as *)
(* the selected one, alone while the text can be parsed; of a text that    *)
(* cannot, also what is written on the line of its path.                   *)
TakenWith(op, chosen) ==
  op = chosen \/ (~ draft.sound /\ op.written = "item" /\ op.path = chosen.path)

(* An operation disappears only as the selected one, when a button deletes *)
(* it, and when workflows refer to it a dialog listed them first, unless   *)
(* the user selected another operation, changed its operationId or created *)
(* one while the dialog was open: the button then may delete an operation  *)
(* whose impact nobody saw (catalog-view.tsx deleteOperation).             *)
DeletionIsMeant ==
  \A i \in DOMAIN draft.ops :
    LET op == draft.ops[i]
        remains == \E j \in DOMAIN draft'.ops : Key(draft'.ops[j]) = Key(op)
    IN ~ remains =>
         \E chosen \in Selection :
           /\ TakenWith(op, chosen)
           /\ draft.sound => Len(draft'.ops) = Len(draft.ops) - 1
           /\ HasReferences(chosen) => impact # None /\ (impact = About(draft, chosen) \/ moved)

DeletionsAreMeant == [][DeletionIsMeant]_vars
=============================================================================
