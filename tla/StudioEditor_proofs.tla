------------------------ MODULE StudioEditor_proofs ------------------------
(***************************************************************************)
(* One tab of the Studio, for every number of documents, saves, edits and  *)
(* foreign revisions: its types, the Save button, the lines that other     *)
(* clients wrote, and the edits of its user.                               *)
(***************************************************************************)
EXTENDS StudioEditor, FiniteSetTheorems, TLAPS

\* The types without what a render makes of them.
PlainTypes ==
  /\ server \in [Docs -> Contents]
  /\ saving \in BOOLEAN /\ preview \in BOOLEAN
  /\ load \in Load \cup {None}
  /\ selected \in Docs /\ loaded \in Docs \cup {None}
  /\ active \in Documents \cup {None}
  /\ drafts \in [Docs -> Contents \cup {None}]
  /\ base \in [Docs -> Contents \cup {None}]
  /\ saves \in [Slots -> Save \cup {None}]
  /\ conflict \in Conflict \cup {None}
  /\ \A v \in validating : v \in Validation
  /\ typed \in 0..MaxTyped /\ foreign \in 0..MaxForeign
  /\ letGo \subseteq 1..MaxTyped
  /\ rebased \in [Docs -> BOOLEAN]

FewValidations == IsFiniteSet(validating) /\ Cardinality(validating) <= MaxValidations

RenderTypes ==
  /\ stored \in [Docs -> Contents \cup {None}]
  /\ timer \in BOOLEAN /\ (timer => MayAutosave)

(* Whatever is on its way or shown is about a document with a draft.       *)
KnownInv ==
  /\ \A d \in Docs : drafts[d] = None <=> base[d] = None
  /\ active # None => drafts[active.id] # None
  /\ \A s \in Slots : saves[s] # None /\ saves[s].phase # "orphan" => drafts[saves[s].id] # None
  /\ \A v \in validating : drafts[v.id] # None
  /\ conflict # None => drafts[conflict.server.id] # None

(* The tab waits for a save of its own.                                    *)
SavingInv == saving => \E s \in Slots : saves[s] # None /\ saves[s].phase # "orphan"

(* The other line of whatever was made of d is that of the revision it was *)
(* made from, which is the one whose ETag is or was sent with it.          *)
ActiveKeeps(d) == active # None /\ active.id = d => base[d] = active.content
DraftKeeps(d) == drafts[d] # None => drafts[d].other = base[d].other
SavesKeep(d) == \A s \in Slots : saves[s] # None /\ saves[s].id = d
                                 => saves[s].text.other = saves[s].etag.other
ValidationsKeep(d) == \A v \in validating : v.id = d => v.text.other = v.etag.other
ConflictKeeps(d) == conflict # None /\ conflict.server.id = d
                      => conflict.local.other = conflict.made.other

KeepsOthers(d) == /\ ActiveKeeps(d) /\ DraftKeeps(d) /\ SavesKeep(d)
                  /\ ValidationsKeep(d) /\ ConflictKeeps(d)

OthersKept == \A d \in Docs : ~rebased[d] => KeepsOthers(d)

LEMMA Parts ==
  ASSUME KnownInv
  PROVE  TypeOK <=> PlainTypes /\ Cardinality(validating) <= MaxValidations /\ RenderTypes
  <1>1. PlainTypes => (Ready # None => drafts[Ready.id] # None /\ base[Ready.id] # None)
    BY DEF PlainTypes, KnownInv, Ready, Documents
  <1>2. QED  BY <1>1 DEF TypeOK, PlainTypes, RenderTypes

\* The document the editor works on.
LEMMA ReadyIs ==
  ASSUME PlainTypes, KnownInv, Ready # None
  PROVE  /\ Ready = active /\ Ready \in Documents
         /\ Ready.id \in Docs /\ Ready.content \in Contents
         /\ Draft = drafts[Ready.id] /\ Draft \in Contents /\ base[Ready.id] \in Contents
  <1>1. Ready = active /\ active # None
    BY DEF Ready
  <1>2. QED  BY <1>1 DEF PlainTypes, KnownInv, Documents, Draft

LEMMA DirtyReady == ASSUME Dirty PROVE Ready # None
  BY DEF Dirty

-----------------------------------------------------------------------------
(* The types.                                                              *)
LEMMA RenderStep ==
  ASSUME PlainTypes', RenderTypes, NEW newActive, Effects(newActive)
  PROVE  RenderTypes'
  <1>1. stored' \in [Docs -> Contents \cup {None}]
    BY DEF PlainTypes, RenderTypes, Effects
  <1>2. Watched' = Watched => (MayAutosave' <=> MayAutosave)
    BY DEF Watched, MayAutosave
  <1>3. timer' = MayAutosave' \/ (timer' = timer /\ Watched' = Watched)
    BY DEF Effects
  <1>4. MayAutosave' \in BOOLEAN
    BY DEF MayAutosave, Dirty
  <1>5. QED  BY <1>1, <1>2, <1>3, <1>4 DEF RenderTypes

\* A step that leaves alone what a render looks at.
LEMMA NoRender ==
  ASSUME RenderTypes, UNCHANGED <<editor, stored>>, timer' = timer \/ timer' = FALSE
  PROVE  RenderTypes'
  <1>1. UNCHANGED <<selected, loaded, active, drafts, base, saving, preview, conflict>>
    BY DEF editor
  <1>2. MayAutosave' <=> MayAutosave
    BY <1>1 DEF MayAutosave, Dirty, Draft, Ready
  <1>3. stored' \in [Docs -> Contents \cup {None}]
    BY DEF RenderTypes
  <1>4. CASE timer' = timer
    BY <1>2, <1>3, <1>4 DEF RenderTypes
  <1>5. CASE timer' = FALSE
    BY <1>3, <1>5 DEF RenderTypes
  <1>6. QED  BY <1>4, <1>5

\* A save that is sent.
NewSave(id, etag, text) ==
  \E s \in Slots, save \in Save :
    /\ saves' = [saves EXCEPT ![s] = save] /\ saves[s] = None
    /\ save.id = id /\ save.etag = etag /\ save.text = text /\ save.phase = "sent"
    /\ save # None

LEMMA SendIs ==
  ASSUME PlainTypes, NEW id \in Docs, NEW etag \in Contents, NEW text \in Contents,
         Send(id, etag, text)
  PROVE  /\ saving' = TRUE /\ saves' \in [Slots -> Save \cup {None}]
         /\ NewSave(id, etag, text)
  <1>1. PICK s \in Slots : /\ saves[s] = None
                          /\ saves' = [saves EXCEPT ![s] =
                               [id |-> id, etag |-> etag, text |-> text, phase |-> "sent"]]
    BY DEF Send
  <1> DEFINE save == [id |-> id, etag |-> etag, text |-> text, phase |-> "sent"]
  <1>2. save \in Save
    BY DEF Save
  <1>3. save # None
    BY <1>2, NoneAssumption
  <1>4. /\ save.id = id /\ save.etag = etag /\ save.text = text /\ save.phase = "sent"
        /\ saves' = [saves EXCEPT ![s] = save]
    BY <1>1
  <1> HIDE DEF save
  <1>5. saving' = TRUE /\ saves' \in [Slots -> Save \cup {None}]
    BY <1>2, <1>4 DEF Send, PlainTypes
  <1>6. NewSave(id, etag, text)
    BY <1>1, <1>2, <1>3, <1>4 DEF NewSave
  <1>7. QED  BY <1>5, <1>6

LEMMA PlainStep ==
  ASSUME PlainTypes, RenderTypes, KnownInv, FewValidations, [Next]_vars
  PROVE  PlainTypes'
  <1> USE NoneAssumption, BoundsAssumption
  <1>1. CASE ListArrives
    BY <1>1 DEF ListArrives, PlainTypes, Load, workspace, editor, history
  <1>2. CASE ServeLoad
    BY <1>2 DEF ServeLoad, PlainTypes, Load, workspace, editor, history
  <1>3. CASE LoadArrives
    <2>1. /\ load \in Load /\ load.id \in Docs /\ load.served \in Contents
      BY <1>3 DEF LoadArrives, PlainTypes, Load
    <2> DEFINE d == load.id
               text == load.served
    <2>2. PICK restore \in BOOLEAN :
            /\ restore => drafts[d] = None /\ stored[d] # None
            /\ active' = [id |-> d, content |-> text] /\ loaded' = d
            /\ base' = [base EXCEPT ![d] = text]
            /\ drafts' = [drafts EXCEPT ![d] = DraftAfterLoad(d, text, restore)]
            /\ letGo' \in {letGo, letGo \cup Edits(stored[d])}
            /\ letGo' # letGo => stored[d] # None
            /\ \E b \in BOOLEAN : rebased' = [rebased EXCEPT ![d] = b]
      BY <1>3 DEF LoadArrives, PlainTypes
    <2>3. DraftAfterLoad(d, text, restore) \in Contents
      BY <2>1, <2>2 DEF DraftAfterLoad, PlainTypes, RenderTypes
    <2>4. stored[d] # None => Edits(stored[d]) \subseteq 1..MaxTyped
      BY <2>1 DEF RenderTypes, Contents, Edits
    <2>5. /\ active' \in Documents /\ letGo' \subseteq 1..MaxTyped
          /\ rebased' \in [Docs -> BOOLEAN]
      BY <2>1, <2>2, <2>4 DEF PlainTypes, Documents
    <2>6. base' \in [Docs -> Contents \cup {None}] /\ drafts' \in [Docs -> Contents \cup {None}]
      BY <2>1, <2>2, <2>3 DEF PlainTypes
    <2>7. /\ load' = None
          /\ UNCHANGED <<server, foreign, saves, validating, selected, saving, preview,
                         conflict, typed>>
      BY <1>3 DEF LoadArrives, workspace
    <2>8. QED  BY <2>1, <2>2, <2>5, <2>6, <2>7 DEF PlainTypes
  <1>4. CASE LoadFails
    BY <1>4 DEF LoadFails, PlainTypes, workspace, history
  <1>5. CASE Type
    <2>1. Ready # None /\ Ready.id \in Docs /\ Draft = drafts[Ready.id] /\ Draft \in Contents
      BY <1>5, ReadyIs DEF Type
    <2>2. typed + 1 \in 1..MaxTyped /\ typed' = typed + 1
      BY <1>5 DEF Type, PlainTypes
    <2>3. [Draft EXCEPT !.own = {typed + 1}] \in Contents
      BY <2>1, <2>2 DEF Contents
    <2>4. drafts' = [drafts EXCEPT ![Ready.id] = [Draft EXCEPT !.own = {typed + 1}]]
      BY <1>5, <2>1 DEF Type
    <2>5. letGo' \subseteq 1..MaxTyped
      BY <1>5, <2>1, <2>2 DEF Type, PlainTypes, Edits, Contents
    <2>6. drafts' \in [Docs -> Contents \cup {None}]
      BY <2>1, <2>3, <2>4 DEF PlainTypes
    <2>7. QED  BY <1>5, <2>2, <2>5, <2>6 DEF Type, PlainTypes, workspace, requests
  <1>6. CASE OpenPreview \/ CancelPreview
    BY <1>6 DEF OpenPreview, CancelPreview, PlainTypes, workspace, requests, history
  <1>7. CASE ConfirmSave
    <2>1. /\ Ready # None /\ Send(Ready.id, Ready.content, Draft)
          /\ UNCHANGED <<workspace, load, validating, selected, loaded, active, drafts,
                         base, preview, conflict, history>>
      BY <1>7, DirtyReady DEF ConfirmSave
    <2>2. saves' \in [Slots -> Save \cup {None}] /\ saving' = TRUE
      BY <2>1, ReadyIs, SendIs
    <2>3. QED  BY <2>1, <2>2 DEF PlainTypes, workspace, history
  <1>8. CASE TimerFires
    <2>1. Ready # None
      BY <1>8, DirtyReady DEF TimerFires, RenderTypes, MayAutosave
    <2>2. [id |-> Ready.id, etag |-> Ready.content, text |-> Draft] \in Validation
      BY <2>1, ReadyIs DEF Validation
    <2>3. QED  BY <1>8, <2>2 DEF TimerFires, PlainTypes, workspace, editor, history
  <1>9. ASSUME NEW v \in validating, ValidationArrives(v) PROVE PlainTypes'
    <2>1. v.id \in Docs /\ v.etag \in Contents /\ v.text \in Contents
      BY DEF PlainTypes, Validation
    <2>2. /\ Send(v.id, v.etag, v.text) /\ validating' = validating \ {v}
          /\ UNCHANGED <<workspace, load, selected, loaded, active, drafts, base, preview,
                         conflict, history>>
      BY <1>9 DEF ValidationArrives
    <2>3. saves' \in [Slots -> Save \cup {None}] /\ saving' = TRUE
      BY <2>1, <2>2, SendIs
    <2>4. QED  BY <2>2, <2>3 DEF PlainTypes, workspace, history
  <1>10. ASSUME NEW v \in validating, ValidationStops(v) PROVE PlainTypes'
    BY <1>10 DEF ValidationStops, PlainTypes, workspace, editor, history
  <1>11. ASSUME NEW s \in Slots, HandleSave(s) PROVE PlainTypes'
    <2>1. saves[s] \in Save
      BY <1>11 DEF HandleSave, PlainTypes
    <2>2. /\ server' \in {server, [server EXCEPT ![saves[s].id] = saves[s].text]}
          /\ \E p \in {"saved", "refused"} : saves' \in {[saves EXCEPT ![s] = None],
                                  [saves EXCEPT ![s] = [saves[s] EXCEPT !.phase = p]]}
      BY <1>11 DEF HandleSave
    <2>3. server' \in [Docs -> Contents]
      BY <2>1, <2>2 DEF PlainTypes, Save
    <2>4. saves' \in [Slots -> Save \cup {None}]
      BY <2>1, <2>2 DEF PlainTypes, Save
    <2>5. QED  BY <1>11, <2>3, <2>4 DEF HandleSave, PlainTypes, editor, history
  <1>12. ASSUME NEW s \in Slots, SaveArrives(s) PROVE PlainTypes'
    <2>1. saves[s] \in Save
      BY <1>12 DEF SaveArrives, PlainTypes
    <2>2. QED  BY <1>12, <2>1
               DEF SaveArrives, SaveEnds, PlainTypes, Save, Documents, workspace, history
  <1>13. ASSUME NEW s \in Slots, ConflictArrives(s) PROVE PlainTypes'
    <2>1. saves[s] \in Save
      BY <1>13 DEF ConflictArrives, PlainTypes
    <2>2. conflict' \in Conflict
      BY <1>13, <2>1 DEF ConflictArrives, PlainTypes, Save, Conflict, Documents
    <2>3. QED  BY <1>13, <2>2 DEF ConflictArrives, SaveEnds, PlainTypes, workspace, history
  <1>14. ASSUME NEW s \in Slots, SaveFails(s) PROVE PlainTypes'
    BY <1>14 DEF SaveFails, SaveEnds, PlainTypes, workspace, history
  <1>15. ASSUME NEW text \in Contents, conflict # None, Ready # None, Resolve(text),
                letGo' \in {letGo, letGo \cup Edits(Draft)}, rebased' \in [Docs -> BOOLEAN]
         PROVE  PlainTypes'
    <2>1. Edits(Draft) \subseteq 1..MaxTyped /\ Ready.id \in Docs
      BY <1>15, ReadyIs DEF Edits, Contents
    <2>2. /\ conflict.server \in Documents /\ conflict.server.content \in Contents
          /\ letGo' \subseteq 1..MaxTyped
      BY <1>15, <2>1 DEF PlainTypes, Conflict, Documents
    <2>3. QED  BY <1>15, <2>1, <2>2 DEF Resolve, PlainTypes, workspace, requests
  <1>16. CASE ReloadServer
    <2>1. conflict.server.content \in Contents /\ rebased' \in [Docs -> BOOLEAN]
      BY <1>16 DEF ReloadServer, PlainTypes, Conflict, Documents
    <2>2. QED  BY <1>15, <1>16, <2>1 DEF ReloadServer
  <1>17. CASE MergeConflict
    <2>1. /\ conflict.server.content \in Contents /\ conflict.local \in Contents
          /\ base[Ready.id] \in Contents
      BY <1>17, ReadyIs DEF MergeConflict, PlainTypes, Conflict, Documents
    <2>2. MergeThreeWay(base[Ready.id], conflict.local, conflict.server.content) \in Contents
      BY <2>1 DEF MergeThreeWay, MergeLine, Contents
    <2>3. rebased' \in [Docs -> BOOLEAN]
      BY <1>17 DEF MergeConflict, PlainTypes, InPlace
    <2>4. QED  BY <1>15, <1>17, <2>2, <2>3 DEF MergeConflict
  <1>18. CASE KeepLocal
    BY <1>18 DEF KeepLocal, PlainTypes, workspace, requests, history
  <1>19. ASSUME NEW d \in Edited, OthersWrite(d) PROVE PlainTypes'
    <2>1. foreign + 1 \in 1..MaxForeign /\ foreign' = foreign + 1 /\ d \in Docs
      BY <1>19 DEF OthersWrite, PlainTypes
    <2>2. {-(foreign + 1)} \in SUBSET (-MaxForeign)..(-1)
      BY <2>1
    <2>3. [server[d] EXCEPT !.other = {-(foreign + 1)}] \in Contents
      BY <2>1, <2>2 DEF PlainTypes, Contents
    <2>4. server' \in [Docs -> Contents]
      BY <1>19, <2>1, <2>3 DEF OthersWrite, PlainTypes
    <2>5. QED  BY <1>19, <2>1, <2>4 DEF OthersWrite, PlainTypes, requests, editor, history
  <1>20. CASE Restart
    <2>1. saves' \in [Slots -> Save \cup {None}]
      BY <1>20 DEF Restart, PlainTypes, Save
    <2>2. QED  BY <1>20, <2>1 DEF Restart, PlainTypes, Load, workspace, history
  <1>21. ASSUME NEW d \in Docs, Select(d) PROVE PlainTypes'
    BY <1>21 DEF Select, PlainTypes, Load, workspace, history
  <1>22. CASE UNCHANGED vars
    BY <1>22 DEF PlainTypes, vars, workspace, requests, editor, history
  <1>23. QED  BY <1>1, <1>2, <1>3, <1>4, <1>5, <1>6, <1>7, <1>8, <1>9, <1>10, <1>11, <1>12, <1>13,
                 <1>14, <1>16, <1>17, <1>18, <1>19, <1>20, <1>21, <1>22 DEF Next

LEMMA FewStep ==
  ASSUME PlainTypes, FewValidations, [Next]_vars PROVE FewValidations'
  <1>0. Cardinality(validating) \in Nat
    BY FS_CardinalityType DEF FewValidations
  <1>1. CASE TimerFires
    <2>1. PICK v : validating' = validating \cup {v}
      BY <1>1 DEF TimerFires
    <2>2. /\ IsFiniteSet(validating')
          /\ Cardinality(validating') \in {Cardinality(validating), Cardinality(validating) + 1}
      BY <2>1, FS_AddElement DEF FewValidations
    <2>3. Cardinality(validating) < MaxValidations
      BY <1>1 DEF TimerFires
    <2>4. QED  BY <1>0, <2>2, <2>3, BoundsAssumption DEF FewValidations
  <1>2. ASSUME NEW v \in validating, validating' = validating \ {v} PROVE FewValidations'
    <2>1. IsFiniteSet(validating') /\ Cardinality(validating') = Cardinality(validating) - 1
      BY <1>2, FS_RemoveElement DEF FewValidations
    <2>2. QED  BY <1>0, <2>1, BoundsAssumption DEF FewValidations
  <1>3. CASE Restart
    BY <1>3, FS_EmptySet, BoundsAssumption DEF Restart, FewValidations
  <1>4. ASSUME validating' = validating PROVE FewValidations'
    BY <1>4 DEF FewValidations
  <1>5. QED
    BY <1>1, <1>2, <1>3, <1>4
       DEF Next, ListArrives, ServeLoad, LoadArrives, LoadFails, Type, OpenPreview, CancelPreview,
           ConfirmSave, ReloadServer, MergeConflict, Resolve, KeepLocal, Select, OthersWrite,
           ValidationArrives, ValidationStops, HandleSave, SaveArrives, ConflictArrives, SaveFails,
           vars, requests

LEMMA RenderTypesStep ==
  ASSUME PlainTypes', RenderTypes, KnownInv, [Next]_vars PROVE RenderTypes'
  <1>1. ASSUME NEW b, Effects(b) PROVE RenderTypes'
    BY <1>1, RenderStep
  <1>2. CASE ListArrives \/ ServeLoad
    BY <1>2, NoRender DEF ListArrives, ServeLoad
  <1>3. CASE TimerFires
    BY <1>3, NoRender DEF TimerFires
  <1>4. ASSUME NEW v \in validating, ValidationStops(v) PROVE RenderTypes'
    BY <1>4, NoRender DEF ValidationStops
  <1>5. ASSUME NEW s \in Slots, HandleSave(s) PROVE RenderTypes'
    BY <1>5, NoRender DEF HandleSave
  <1>6. ASSUME NEW d \in Docs, OthersWrite(d) PROVE RenderTypes'
    BY <1>6, NoRender DEF OthersWrite
  <1>7. CASE Restart
    BY <1>7 DEF Restart, RenderTypes
  <1>8. CASE UNCHANGED vars
    BY <1>8, NoRender DEF vars
  <1>9. QED
    BY <1>1, <1>2, <1>3, <1>4, <1>5, <1>6, <1>7, <1>8, BoundsAssumption
       DEF Next, LoadArrives, LoadFails, Type, OpenPreview, CancelPreview, ConfirmSave,
           ReloadServer, MergeConflict, Resolve, KeepLocal, Select, ValidationArrives,
           SaveArrives, ConflictArrives, SaveFails

-----------------------------------------------------------------------------
(* The Save button.                                                        *)
LEMMA SavingStep ==
  ASSUME PlainTypes, KnownInv, RenderTypes, SavingInv, [Next]_vars PROVE SavingInv'
  <1>1. ASSUME UNCHANGED <<saving, saves>> PROVE SavingInv'
    BY <1>1 DEF SavingInv
  <1>2. ASSUME saving' = FALSE PROVE SavingInv'
    BY <1>2 DEF SavingInv
  <1>3. ASSUME NEW id \in Docs, NEW etag \in Contents, NEW text \in Contents,
               Send(id, etag, text)
        PROVE  SavingInv'
    <2>1. PICK s \in Slots, save \in Save :
            /\ saves' = [saves EXCEPT ![s] = save] /\ save.phase = "sent" /\ save # None
      BY <1>3, SendIs DEF NewSave
    <2>2. saves'[s] = save
      BY <2>1 DEF PlainTypes
    <2>3. QED  BY <2>1, <2>2 DEF SavingInv
  <1>4. CASE ConfirmSave
    BY <1>3, <1>4, ReadyIs, DirtyReady DEF ConfirmSave
  <1>5. ASSUME NEW v \in validating, ValidationArrives(v) PROVE SavingInv'
    BY <1>3, <1>5 DEF ValidationArrives, PlainTypes, Validation
  <1>6. ASSUME NEW s \in Slots, HandleSave(s) PROVE SavingInv'
    <2>1. /\ saving' = saving /\ saves[s] \in Save
          /\ \A q \in Slots \ {s} : saves'[q] = saves[q]
          /\ saves[s].phase # "orphan" =>
               \E p \in {"saved", "refused"} : saves'[s] = [saves[s] EXCEPT !.phase = p]
      BY <1>6 DEF HandleSave, PlainTypes, editor
    <2>2. saves[s].phase # "orphan" => saves'[s] \in Save /\ saves'[s].phase # "orphan"
      BY <2>1 DEF Save
    <2>3. QED  BY <2>1, <2>2, NoneAssumption DEF SavingInv
  <1>7. ASSUME NEW s \in Slots, SaveArrives(s) \/ ConflictArrives(s) \/ SaveFails(s)
        PROVE  SavingInv'
    BY <1>2, <1>7 DEF SaveArrives, ConflictArrives, SaveFails, SaveEnds
  <1>8. CASE Restart
    BY <1>2, <1>8 DEF Restart
  <1>9. QED
    BY <1>1, <1>4, <1>5, <1>6, <1>7, <1>8
       DEF Next, ListArrives, ServeLoad, LoadArrives, LoadFails, Type, OpenPreview, CancelPreview,
           TimerFires, ReloadServer, MergeConflict, Resolve, KeepLocal, Select, OthersWrite,
           ValidationStops, vars, requests, editor

-----------------------------------------------------------------------------
(* What is known to the tab.                                               *)
LEMMA KnownFrame ==
  ASSUME PlainTypes, PlainTypes', KnownInv,
         \A d \in Docs : drafts[d] # None => drafts'[d] # None,
         \A d \in Docs : drafts'[d] = None <=> base'[d] = None,
         active' = active \/ drafts'[active'.id] # None,
         \A s \in Slots : saves'[s] = saves[s] \/ saves'[s] = None
                                               \/ drafts'[saves'[s].id] # None,
         \A v \in validating' : v \in validating \/ drafts'[v.id] # None,
         conflict' \in {None, conflict} \/ drafts'[conflict'.server.id] # None
  PROVE  KnownInv'
  <1>1. active' # None => drafts'[active'.id] # None
    BY DEF PlainTypes, KnownInv, Documents
  <1>2. \A s \in Slots : saves'[s] # None /\ saves'[s].phase # "orphan" =>
                           drafts'[saves'[s].id] # None
    BY DEF PlainTypes, KnownInv, Save
  <1>3. \A v \in validating' : drafts'[v.id] # None
    BY DEF PlainTypes, KnownInv, Validation
  <1>4. conflict' # None => drafts'[conflict'.server.id] # None
    BY DEF PlainTypes, KnownInv, Conflict, Documents
  <1>5. QED  BY <1>1, <1>2, <1>3, <1>4 DEF KnownInv

LEMMA KnownStep ==
  ASSUME PlainTypes, PlainTypes', RenderTypes, KnownInv, [Next]_vars PROVE KnownInv'
  <1> USE NoneAssumption
  <1>1. ASSUME UNCHANGED <<active, drafts, base>>,
               \A s \in Slots : saves'[s] \in {saves[s], None},
               validating' \subseteq validating, conflict' \in {conflict, None}
        PROVE  KnownInv'
    BY <1>1 DEF PlainTypes, KnownInv, Documents, Save, Validation, Conflict
  <1>2. CASE LoadArrives
    <2>1. /\ load \in Load /\ load.id \in Docs /\ load.served \in Contents
      BY <1>2 DEF LoadArrives, PlainTypes, Load
    <2>0. PICK restore \in BOOLEAN :
            /\ restore => stored[load.id] # None
            /\ active' = [id |-> load.id, content |-> load.served]
            /\ base' = [base EXCEPT ![load.id] = load.served]
            /\ drafts' = [drafts EXCEPT ![load.id] =
                                           DraftAfterLoad(load.id, load.served, restore)]
      BY <1>2 DEF LoadArrives
    <2>2. /\ UNCHANGED <<saves, validating, conflict>>
          /\ DraftAfterLoad(load.id, load.served, restore) # None
      BY <1>2, <2>0, <2>1 DEF LoadArrives, DraftAfterLoad
    <2>3. drafts'[load.id] # None /\ base'[load.id] # None
      BY <2>0, <2>1, <2>2 DEF PlainTypes
    <2>4. \A d \in Docs \ {load.id} : drafts'[d] = drafts[d] /\ base'[d] = base[d]
      BY <2>0, <2>1, <2>2 DEF PlainTypes
    <2>5. QED  BY <2>0, <2>1, <2>2, <2>3, <2>4, KnownFrame DEF KnownInv
  <1>3. CASE Type
    <2>1. /\ Ready.id \in Docs /\ drafts[Ready.id] \in Contents
          /\ drafts' = [drafts EXCEPT ![Ready.id].own = {typed + 1}]
          /\ UNCHANGED <<active, base, saves, validating, conflict>>
      BY <1>3, ReadyIs DEF Type, requests
    <2>2. drafts'[Ready.id] # None
      <3>1. drafts'[Ready.id] = [drafts[Ready.id] EXCEPT !.own = {typed + 1}]
        BY <2>1 DEF PlainTypes
      <3>2. drafts'[Ready.id].own = {typed + 1} /\ drafts'[Ready.id] \in Contents \cup {None}
        BY <2>1, <3>1 DEF PlainTypes, Contents
      <3>3. typed + 1 \in 1..MaxTyped
        BY <1>3, BoundsAssumption DEF Type, PlainTypes
      <3>4. [drafts[Ready.id] EXCEPT !.own = {typed + 1}] \in Contents
        BY <2>1, <3>3 DEF Contents
      <3>5. QED  BY <3>1, <3>4
    <2>3. \A d \in Docs \ {Ready.id} : drafts'[d] = drafts[d]
      BY <2>1 DEF PlainTypes
    <2>4. base[Ready.id] # None
      BY <1>3, ReadyIs DEF Type
    <2>5. QED  BY <2>1, <2>2, <2>3, <2>4, KnownFrame DEF KnownInv
  <1>4. ASSUME NEW id \in Docs, NEW etag \in Contents, NEW text \in Contents,
               Send(id, etag, text), drafts[id] # None, validating' \subseteq validating,
               UNCHANGED <<active, drafts, base, conflict>>
        PROVE  KnownInv'
    <2>1. PICK s \in Slots, save \in Save :
            /\ saves' = [saves EXCEPT ![s] = save] /\ save.id = id /\ save # None
      <3>1. NewSave(id, etag, text)
        BY <1>4, SendIs
      <3>2. QED  BY <3>1 DEF NewSave
    <2>2. saves'[s].id = id /\ \A q \in Slots \ {s} : saves'[q] = saves[q]
      BY <2>1 DEF PlainTypes
    <2>3. \A q \in Slots : saves'[q] = saves[q] \/ drafts'[saves'[q].id] # None
      BY <1>4, <2>2
    <2>4. QED  BY <1>4, <2>3, KnownFrame DEF KnownInv
  <1>5. CASE ConfirmSave
    <2>1. Ready # None
      BY <1>5, DirtyReady DEF ConfirmSave
    <2>2. QED  BY <1>4, <1>5, <2>1, ReadyIs DEF ConfirmSave
  <1>6. ASSUME NEW v \in validating, ValidationArrives(v) PROVE KnownInv'
    <2>1. v.id \in Docs /\ v.etag \in Contents /\ v.text \in Contents /\ drafts[v.id] # None
      BY DEF PlainTypes, Validation, KnownInv
    <2>2. QED  BY <1>4, <1>6, <2>1 DEF ValidationArrives
  <1>7. CASE TimerFires
    <2>1. Ready # None /\ UNCHANGED <<active, drafts, base, conflict, saves>>
      BY <1>7, DirtyReady DEF TimerFires, RenderTypes, MayAutosave, editor
    <2>2. drafts'[Ready.id] # None
      BY <2>1, ReadyIs
    <2>3. \A v \in validating' : v \in validating \/ v.id = Ready.id
      BY <1>7 DEF TimerFires
    <2>4. QED  BY <2>1, <2>2, <2>3, KnownFrame DEF KnownInv
  <1>8. ASSUME NEW s \in Slots, HandleSave(s) PROVE KnownInv'
    <2>1. /\ saves[s] \in Save /\ UNCHANGED <<active, drafts, base, conflict, validating>>
          /\ \A q \in Slots \ {s} : saves'[q] = saves[q]
          /\ saves'[s] = None \/
               (saves[s].phase = "sent"
                /\ \E p \in {"saved", "refused"} : saves'[s] = [saves[s] EXCEPT !.phase = p])
      BY <1>8 DEF HandleSave, PlainTypes, editor
    <2>2. saves'[s] = None \/ drafts'[saves'[s].id] # None
      BY <2>1 DEF Save, KnownInv
    <2>3. QED  BY <2>1, <2>2, KnownFrame DEF KnownInv
  <1>9. ASSUME NEW s \in Slots, SaveArrives(s) PROVE KnownInv'
    <2>1. saves[s] \in Save
      BY <1>9 DEF SaveArrives, PlainTypes
    <2>2. /\ active'.id = saves[s].id /\ validating' = validating /\ conflict' = None
          /\ base' = [base EXCEPT ![saves[s].id] = saves[s].text]
          /\ drafts' = [drafts EXCEPT ![saves[s].id] = saves[s].text]
          /\ saves' = [saves EXCEPT ![s] = None]
      BY <1>9 DEF SaveArrives, SaveEnds
    <2>3. drafts'[saves[s].id] # None /\ base'[saves[s].id] # None
      BY <2>1, <2>2 DEF PlainTypes, Save
    <2>4. \A d \in Docs \ {saves[s].id} : drafts'[d] = drafts[d] /\ base'[d] = base[d]
      BY <2>1, <2>2 DEF PlainTypes, Save
    <2>5. \A q \in Slots : saves'[q] \in {saves[q], None}
      BY <2>2 DEF PlainTypes
    <2>6. QED  BY <2>1, <2>2, <2>3, <2>4, <2>5, KnownFrame DEF KnownInv
  <1>10. ASSUME NEW s \in Slots, ConflictArrives(s) PROVE KnownInv'
    <2>1. saves[s] \in Save /\ saves[s].phase = "refused" /\ saves[s] # None
      BY <1>10 DEF ConflictArrives, PlainTypes
    <2>2. /\ UNCHANGED <<active, drafts, base, validating>>
          /\ conflict'.server.id = saves[s].id
          /\ saves' = [saves EXCEPT ![s] = None]
      BY <1>10 DEF ConflictArrives, SaveEnds
    <2>3. drafts'[conflict'.server.id] # None
      BY <2>1, <2>2 DEF KnownInv
    <2>4. \A q \in Slots : saves'[q] \in {saves[q], None}
      BY <2>2 DEF PlainTypes
    <2>5. QED  BY <2>2, <2>3, <2>4, KnownFrame DEF KnownInv
  <1>11. ASSUME NEW s \in Slots, SaveFails(s) PROVE KnownInv'
    BY <1>1, <1>11 DEF SaveFails, SaveEnds, PlainTypes
  <1>12. ASSUME NEW text \in Contents, conflict # None, Ready # None, Resolve(text)
         PROVE  KnownInv'
    <2>1. /\ Ready.id \in Docs /\ conflict.server \in Documents
          /\ drafts[conflict.server.id] # None
      BY <1>12, ReadyIs DEF PlainTypes, Conflict, KnownInv
    <2>2. /\ active' = conflict.server /\ conflict' = None /\ UNCHANGED <<saves, validating>>
          /\ base' = [base EXCEPT ![Ready.id] = conflict.server.content]
          /\ drafts' = [drafts EXCEPT ![Ready.id] = text]
      BY <1>12 DEF Resolve, requests
    <2>3. drafts'[Ready.id] # None /\ base'[Ready.id] # None
      BY <2>1, <2>2 DEF PlainTypes, Documents
    <2>4. \A d \in Docs \ {Ready.id} : drafts'[d] = drafts[d] /\ base'[d] = base[d]
      BY <2>1, <2>2 DEF PlainTypes
    <2>5. conflict.server.id \in Docs
      BY <2>1 DEF Documents
    <2>6. QED  BY <2>1, <2>2, <2>3, <2>4, <2>5, KnownFrame DEF KnownInv
  <1>13. CASE ReloadServer
    BY <1>12, <1>13 DEF ReloadServer, PlainTypes, Conflict, Documents
  <1>14. CASE MergeConflict
    <2>1. /\ conflict.server.content \in Contents /\ conflict.local \in Contents
          /\ base[Ready.id] \in Contents
      BY <1>14, ReadyIs DEF MergeConflict, PlainTypes, Conflict, Documents
    <2>2. MergeThreeWay(base[Ready.id], conflict.local, conflict.server.content) \in Contents
      BY <2>1 DEF MergeThreeWay, MergeLine, Contents
    <2>3. QED  BY <1>12, <1>14, <2>2 DEF MergeConflict
  <1>15. CASE Restart
    <2>1. /\ active' = None /\ conflict' = None /\ validating' = {}
          /\ \A d \in Docs : drafts'[d] = None /\ base'[d] = None
      BY <1>15 DEF Restart
    <2>2. \A s \in Slots : saves'[s] # None => saves'[s].phase = "orphan"
      BY <1>15 DEF Restart, PlainTypes, Save
    <2>3. QED  BY <2>1, <2>2 DEF KnownInv
  <1>16. CASE KeepLocal
    BY <1>1, <1>16 DEF KeepLocal, requests
  <1>17. ASSUME NEW v \in validating, ValidationStops(v) PROVE KnownInv'
    BY <1>1, <1>17 DEF ValidationStops, editor
  <1>18. QED
    BY <1>1, <1>2, <1>3, <1>5, <1>6, <1>7, <1>8, <1>9, <1>10, <1>11, <1>13, <1>14, <1>15,
       <1>16, <1>17
       DEF Next, ListArrives, ServeLoad, LoadFails, OpenPreview, CancelPreview, Select, OthersWrite,
           vars, requests, editor

-----------------------------------------------------------------------------
(* The lines of other clients.                                             *)
LEMMA RebasedStays ==
  ASSUME PlainTypes, KnownInv, [Next]_vars, NEW d \in Docs, ~rebased'[d] PROVE ~rebased[d]
  <1>1. CASE LoadArrives
    BY <1>1 DEF LoadArrives, PlainTypes
  <1>2. CASE ReloadServer
    BY <1>2 DEF ReloadServer, PlainTypes
  <1>3. CASE MergeConflict
    BY <1>3 DEF MergeConflict
  <1>4. QED
    BY <1>1, <1>2, <1>3
       DEF Next, ListArrives, ServeLoad, LoadFails, Type, OpenPreview, CancelPreview,
           ConfirmSave, TimerFires, KeepLocal, Select, OthersWrite, Restart, ValidationArrives,
           ValidationStops, HandleSave, SaveArrives, ConflictArrives, SaveFails, vars, history

\* What a step leaves alone keeps.
LEMMA KeepsFrame ==
  ASSUME PlainTypes, NEW d \in Docs, KeepsOthers(d)
  PROVE  /\ UNCHANGED <<active, base>> => ActiveKeeps(d)'
         /\ drafts'[d] = drafts[d] /\ base'[d] = base[d] => DraftKeeps(d)'
         /\ (\A s \in Slots : saves'[s] \in {saves[s], None}) => SavesKeep(d)'
         /\ validating' \subseteq validating => ValidationsKeep(d)'
         /\ conflict' \in {conflict, None} => ConflictKeeps(d)'
  <1>1. UNCHANGED <<active, base>> => ActiveKeeps(d)'
    BY DEF KeepsOthers, ActiveKeeps
  <1>2. drafts'[d] = drafts[d] /\ base'[d] = base[d] => DraftKeeps(d)'
    BY DEF KeepsOthers, DraftKeeps
  <1>3. (\A s \in Slots : saves'[s] \in {saves[s], None}) => SavesKeep(d)'
    BY DEF KeepsOthers, SavesKeep
  <1>4. validating' \subseteq validating => ValidationsKeep(d)'
    BY DEF KeepsOthers, ValidationsKeep
  <1>5. conflict' \in {conflict, None} => ConflictKeeps(d)'
    BY DEF KeepsOthers, ConflictKeeps
  <1>6. QED  BY <1>1, <1>2, <1>3, <1>4, <1>5

LEMMA SendKeeps ==
  ASSUME PlainTypes, NEW d \in Docs, SavesKeep(d),
         NEW id \in Docs, NEW etag \in Contents, NEW text \in Contents,
         Send(id, etag, text), id = d => text.other = etag.other
  PROVE  SavesKeep(d)'
  <1>1. PICK s \in Slots, save \in Save :
          /\ saves' = [saves EXCEPT ![s] = save]
          /\ save.id = id /\ save.etag = etag /\ save.text = text
    <2>1. NewSave(id, etag, text)
      BY SendIs
    <2>2. QED  BY <2>1 DEF NewSave
  <1>2. saves'[s] = save /\ \A q \in Slots \ {s} : saves'[q] = saves[q]
    BY <1>1 DEF PlainTypes
  <1>3. QED  BY <1>1, <1>2 DEF SavesKeep

\* The draft and the ETag that go on their way.
LEMMA ReadyKeeps ==
  ASSUME PlainTypes, KnownInv, Ready # None, KeepsOthers(Ready.id)
  PROVE  Draft.other = Ready.content.other
  <1>1. /\ Ready = active /\ Draft = drafts[Ready.id] /\ Draft # None
    BY ReadyIs, NoneAssumption
  <1>2. QED  BY <1>1 DEF KeepsOthers, ActiveKeeps, DraftKeeps

\* A conflict that is resolved: the texts are those of the ready document, or its draft and
\* the document of the conflict count as put on another revision.
LEMMA MergeKeeps ==
  ASSUME PlainTypes, KnownInv, Ready # None, conflict # None, InPlace, KeepsOthers(Ready.id)
  PROVE  MergeThreeWay(base[Ready.id], conflict.local, conflict.server.content).other
           = conflict.server.content.other
  <1>1. conflict.local.other = base[Ready.id].other
    BY DEF InPlace, KeepsOthers, ConflictKeeps
  <1>2. QED  BY <1>1 DEF MergeThreeWay, MergeLine

LEMMA ResolveKeeps ==
  ASSUME PlainTypes, KnownInv, OthersKept, NEW text, conflict # None, Ready # None, Resolve(text),
         NEW d \in Docs, ~rebased[d],
         conflict.server.id = d => d = Ready.id,
         d = Ready.id => text.other = conflict.server.content.other
  PROVE  KeepsOthers(d)'
  <1>1. KeepsOthers(d)
    BY DEF OthersKept
  <1>2. /\ active' = conflict.server /\ conflict' = None /\ UNCHANGED <<saves, validating>>
        /\ base' = [base EXCEPT ![Ready.id] = conflict.server.content]
        /\ drafts' = [drafts EXCEPT ![Ready.id] = text]
    BY DEF Resolve, requests
  <1>3. ActiveKeeps(d)'
    BY <1>2, ReadyIs DEF ActiveKeeps, PlainTypes
  <1>4. DraftKeeps(d)'
    <2>1. CASE d = Ready.id
      BY <1>2, <2>1 DEF DraftKeeps, PlainTypes
    <2>2. CASE d # Ready.id
      BY <1>1, <1>2, <2>2, KeepsFrame DEF PlainTypes
    <2>3. QED  BY <2>1, <2>2
  <1>5. QED  BY <1>1, <1>2, <1>3, <1>4, KeepsFrame DEF KeepsOthers

LEMMA OthersStep ==
  ASSUME PlainTypes, RenderTypes, KnownInv, OthersKept, [Next]_vars PROVE OthersKept'
  <1> SUFFICES ASSUME NEW d \in Docs, ~rebased'[d] PROVE KeepsOthers(d)'
    BY DEF OthersKept
  <1> USE NoneAssumption
  <1>0. ~rebased[d] /\ KeepsOthers(d)
    BY RebasedStays DEF OthersKept
  <1>1. ASSUME UNCHANGED <<active, drafts, base>>,
               \A s \in Slots : saves'[s] \in {saves[s], None},
               validating' \subseteq validating, conflict' \in {conflict, None}
        PROVE  KeepsOthers(d)'
    BY <1>0, <1>1, KeepsFrame DEF KeepsOthers
  <1>2. CASE LoadArrives
    <2>1. load.id \in Docs /\ load.served \in Contents
      BY <1>2 DEF LoadArrives, PlainTypes, Load
    <2>2. PICK text \in {DraftAfterLoad(load.id, load.served, restore) : restore \in BOOLEAN} :
            /\ active' = [id |-> load.id, content |-> load.served]
            /\ base' = [base EXCEPT ![load.id] = load.served]
            /\ drafts' = [drafts EXCEPT ![load.id] = text]
            /\ rebased' = [rebased EXCEPT ![load.id] = @ \/
                 (drafts'[load.id] # load.served /\ base[load.id] # load.served)]
      BY <1>2 DEF LoadArrives
    <2>3. UNCHANGED <<saves, validating, conflict>>
      BY <1>2 DEF LoadArrives
    <2>4. ActiveKeeps(d)'
      BY <2>1, <2>2 DEF ActiveKeeps, PlainTypes
    <2>5. CASE d # load.id
      BY <1>0, <2>2, <2>3, <2>4, <2>5, KeepsFrame DEF KeepsOthers, PlainTypes
    <2>6. CASE d = load.id
      <3>1. /\ drafts'[d] = text /\ base'[d] = load.served
            /\ text = load.served \/ base[d] = load.served
        BY <2>1, <2>2, <2>6 DEF PlainTypes
      <3>2. base[d] = load.served => text = drafts[d] /\ drafts[d].other = base[d].other
        BY <1>0, <2>1, <2>2, <2>6 DEF DraftAfterLoad, KnownInv, KeepsOthers, DraftKeeps
      <3>3. DraftKeeps(d)'
        BY <3>1, <3>2 DEF DraftKeeps
      <3>4. QED  BY <1>0, <2>3, <2>4, <3>3, KeepsFrame DEF KeepsOthers
    <2>7. QED  BY <2>5, <2>6
  <1>3. CASE Type
    <2>1. /\ Ready.id \in Docs /\ drafts[Ready.id] \in Contents
          /\ drafts' = [drafts EXCEPT ![Ready.id].own = {typed + 1}]
          /\ UNCHANGED <<active, base, saves, validating, conflict>>
      BY <1>3, ReadyIs DEF Type, requests
    <2>2. drafts'[d] = drafts[d] \/ (drafts[d] # None /\ drafts'[d].other = drafts[d].other)
      BY <2>1 DEF PlainTypes, Contents
    <2>3. DraftKeeps(d)'
      BY <1>0, <2>1, <2>2 DEF KeepsOthers, DraftKeeps
    <2>4. QED  BY <1>0, <2>1, <2>3, KeepsFrame DEF KeepsOthers
  <1>4. CASE ConfirmSave
    <2>1. /\ Ready # None /\ Send(Ready.id, Ready.content, Draft)
          /\ UNCHANGED <<active, drafts, base, validating, conflict>>
      BY <1>4, DirtyReady DEF ConfirmSave
    <2>2. Ready.id = d => Draft.other = Ready.content.other
      BY <1>0, <2>1, ReadyKeeps
    <2>3. SavesKeep(d)'
      BY <1>0, <2>1, <2>2, ReadyIs, SendKeeps DEF KeepsOthers
    <2>4. QED  BY <1>0, <2>1, <2>3, KeepsFrame DEF KeepsOthers
  <1>5. CASE TimerFires
    <2>1. /\ Ready # None /\ UNCHANGED <<active, drafts, base, saves, conflict>>
          /\ validating' = validating \cup
               {[id |-> Ready.id, etag |-> Ready.content, text |-> Draft]}
      BY <1>5, DirtyReady DEF TimerFires, RenderTypes, MayAutosave, editor
    <2>2. Ready.id = d => Draft.other = Ready.content.other
      BY <1>0, <2>1, ReadyKeeps
    <2>3. ValidationsKeep(d)'
      BY <1>0, <2>1, <2>2 DEF KeepsOthers, ValidationsKeep
    <2>4. QED  BY <1>0, <2>1, <2>3, KeepsFrame DEF KeepsOthers
  <1>6. ASSUME NEW v \in validating, ValidationArrives(v) PROVE KeepsOthers(d)'
    <2>1. v.id \in Docs /\ v.etag \in Contents /\ v.text \in Contents
      BY DEF PlainTypes, Validation
    <2>2. /\ Send(v.id, v.etag, v.text) /\ validating' = validating \ {v}
          /\ UNCHANGED <<active, drafts, base, conflict>>
      BY <1>6 DEF ValidationArrives
    <2>3. v.id = d => v.text.other = v.etag.other
      BY <1>0 DEF KeepsOthers, ValidationsKeep
    <2>4. SavesKeep(d)'
      BY <1>0, <2>1, <2>2, <2>3, SendKeeps DEF KeepsOthers
    <2>5. QED  BY <1>0, <2>2, <2>4, KeepsFrame DEF KeepsOthers
  <1>7. ASSUME NEW s \in Slots, HandleSave(s) PROVE KeepsOthers(d)'
    <2>1. /\ saves[s] \in Save /\ UNCHANGED <<active, drafts, base, conflict, validating>>
          /\ \A q \in Slots \ {s} : saves'[q] = saves[q]
          /\ saves'[s] = None \/
               (\E p \in {"saved", "refused"} : saves'[s] = [saves[s] EXCEPT !.phase = p])
          /\ saves[s] # None
      BY <1>7 DEF HandleSave, PlainTypes, editor
    <2>2. saves'[s] = None \/ (/\ saves'[s].id = saves[s].id /\ saves'[s].text = saves[s].text
                               /\ saves'[s].etag = saves[s].etag)
      BY <2>1 DEF Save
    <2>3. SavesKeep(d)'
      BY <1>0, <2>1, <2>2 DEF KeepsOthers, SavesKeep
    <2>4. QED  BY <1>0, <2>1, <2>3, KeepsFrame DEF KeepsOthers
  <1>8. ASSUME NEW s \in Slots, SaveArrives(s) PROVE KeepsOthers(d)'
    <2>1. saves[s] \in Save
      BY <1>8 DEF SaveArrives, PlainTypes
    <2>2. /\ active' = [id |-> saves[s].id, content |-> saves[s].text]
          /\ validating' = validating /\ conflict' = None
          /\ base' = [base EXCEPT ![saves[s].id] = saves[s].text]
          /\ drafts' = [drafts EXCEPT ![saves[s].id] = saves[s].text]
          /\ saves' = [saves EXCEPT ![s] = None]
      BY <1>8 DEF SaveArrives, SaveEnds
    <2>3. ActiveKeeps(d)'
      BY <2>1, <2>2 DEF ActiveKeeps, PlainTypes, Save
    <2>4. DraftKeeps(d)'
      BY <1>0, <2>1, <2>2 DEF KeepsOthers, DraftKeeps, PlainTypes, Save
    <2>5. \A q \in Slots : saves'[q] \in {saves[q], None}
      BY <2>2 DEF PlainTypes
    <2>6. QED  BY <1>0, <2>2, <2>3, <2>4, <2>5, KeepsFrame DEF KeepsOthers
  <1>9. ASSUME NEW s \in Slots, ConflictArrives(s) PROVE KeepsOthers(d)'
    <2>1. saves[s] # None
      BY <1>9 DEF ConflictArrives
    <2>2. /\ UNCHANGED <<active, drafts, base, validating>>
          /\ conflict'.server.id = saves[s].id /\ conflict'.local = saves[s].text
          /\ conflict'.made = saves[s].etag
          /\ saves' = [saves EXCEPT ![s] = None]
      BY <1>9 DEF ConflictArrives, SaveEnds
    <2>3. ConflictKeeps(d)'
      BY <1>0, <2>1, <2>2 DEF KeepsOthers, SavesKeep, ConflictKeeps
    <2>4. \A q \in Slots : saves'[q] \in {saves[q], None}
      BY <2>2 DEF PlainTypes
    <2>5. QED  BY <1>0, <2>2, <2>3, <2>4, KeepsFrame DEF KeepsOthers
  <1>10. ASSUME NEW s \in Slots, SaveFails(s) PROVE KeepsOthers(d)'
    BY <1>1, <1>10 DEF SaveFails, SaveEnds, PlainTypes
  <1>11. CASE ReloadServer
    <2>1. /\ conflict # None /\ Ready # None /\ Resolve(conflict.server.content)
          /\ conflict.server.id \in Docs
          /\ rebased' = [rebased EXCEPT ![conflict.server.id] =
                            @ \/ conflict.server.id # Ready.id]
      BY <1>11 DEF ReloadServer, PlainTypes, Conflict, Documents
    <2>2. conflict.server.id = d => d = Ready.id
      BY <2>1 DEF PlainTypes
    <2>3. QED  BY <1>0, <2>1, <2>2, ResolveKeeps
  <1>12. CASE MergeConflict
    <2> DEFINE text == MergeThreeWay(base[Ready.id], conflict.local, conflict.server.content)
    <2>1. /\ conflict # None /\ Ready # None /\ Resolve(text)
          /\ d \in {Ready.id, conflict.server.id} => InPlace
      BY <1>12 DEF MergeConflict
    <2>2. conflict.server.id = d => d = Ready.id
      BY <2>1 DEF InPlace
    <2>3. d = Ready.id => text.other = conflict.server.content.other
      BY <1>0, <2>1, MergeKeeps
    <2> HIDE DEF text
    <2>4. QED  BY <1>0, <2>1, <2>2, <2>3, ResolveKeeps
  <1>13. CASE Restart
    <2>1. /\ active' = None /\ conflict' = None /\ validating' = {} /\ drafts'[d] = None
      BY <1>13 DEF Restart
    <2>2. SavesKeep(d)'
      BY <1>0, <1>13 DEF Restart, PlainTypes, Save, KeepsOthers, SavesKeep
    <2>3. QED  BY <2>1, <2>2
               DEF KeepsOthers, ActiveKeeps, DraftKeeps, ValidationsKeep, ConflictKeeps
  <1>14. CASE KeepLocal
    BY <1>1, <1>14 DEF KeepLocal, requests
  <1>15. ASSUME NEW v \in validating, ValidationStops(v) PROVE KeepsOthers(d)'
    BY <1>1, <1>15 DEF ValidationStops, editor
  <1>16. QED
    BY <1>1, <1>2, <1>3, <1>4, <1>5, <1>6, <1>7, <1>8, <1>9, <1>10, <1>11, <1>12, <1>13,
       <1>14, <1>15
       DEF Next, ListArrives, ServeLoad, LoadFails, OpenPreview, CancelPreview, Select, OthersWrite,
           vars, requests, editor

-----------------------------------------------------------------------------
EditorInv == PlainTypes /\ FewValidations /\ RenderTypes /\ KnownInv /\ SavingInv /\ OthersKept

LEMMA EditorInit == Init => EditorInv
  <1> SUFFICES ASSUME Init PROVE EditorInv
    OBVIOUS
  <1> USE NoneAssumption, BoundsAssumption
  <1>1. \A d \in Docs : Original(d) \in Contents
    BY DEF Original, Contents
  <1>2. PlainTypes
    <2>1. load \in Load /\ server \in [Docs -> Contents] /\ saves \in [Slots -> Save \cup {None}]
      BY <1>1 DEF Init, Load
    <2>2. /\ drafts \in [Docs -> Contents \cup {None}] /\ base \in [Docs -> Contents \cup {None}]
          /\ rebased \in [Docs -> BOOLEAN]
      BY DEF Init
    <2>3. typed \in 0..MaxTyped /\ foreign \in 0..MaxForeign /\ letGo \subseteq 1..MaxTyped
      BY DEF Init
    <2>4. QED  BY <2>1, <2>2, <2>3 DEF Init, PlainTypes
  <1>3. FewValidations
    BY FS_EmptySet DEF Init, FewValidations
  <1>4. RenderTypes
    BY DEF Init, RenderTypes
  <1>5. KnownInv /\ SavingInv
    BY DEF Init, KnownInv, SavingInv
  <1>6. OthersKept
    BY DEF Init, OthersKept, KeepsOthers, ActiveKeeps, DraftKeeps, SavesKeep, ValidationsKeep,
           ConflictKeeps
  <1>7. QED  BY <1>2, <1>3, <1>4, <1>5, <1>6 DEF EditorInv

LEMMA EditorStep == EditorInv /\ [Next]_vars => EditorInv'
  <1> SUFFICES ASSUME EditorInv, [Next]_vars PROVE EditorInv'
    OBVIOUS
  <1> USE DEF EditorInv
  <1>1. PlainTypes'
    BY PlainStep
  <1>2. QED  BY <1>1, FewStep, RenderTypesStep, SavingStep, KnownStep, OthersStep

\* The invariant of one tab.
THEOREM EditorInvariant == Spec => []EditorInv
  BY EditorInit, EditorStep, PTL DEF Spec

\* The types of the tab hold for every number of documents, saves, edits and revisions.
THEOREM TypeCorrect == Spec => []TypeOK
  <1>1. EditorInv => TypeOK
    BY Parts DEF EditorInv, FewValidations
  <1>2. QED  BY <1>1, EditorInvariant, PTL

\* The Save button is disabled only while a save of this tab is on its way (855-905).
THEOREM SavingHoldsBack == Spec => []SavingHasASave
  <1>1. EditorInv => SavingHasASave
    BY DEF EditorInv, SavingInv, SavingHasASave
  <1>2. QED  BY <1>1, EditorInvariant, PTL

\* Only a save changes the server's text in a tab, and what it sends has the other lines of
\* the revision its ETag names.
LEMMA ServerStep ==
  ASSUME PlainTypes, OthersKept, [Next]_vars, NEW d \in Docs
  PROVE  server'[d].other # server[d].other => foreign' # foreign \/ rebased[d]
  <1>1. ASSUME NEW s \in Slots, HandleSave(s), ~rebased[d]
        PROVE  server'[d].other = server[d].other
    <2>1. saves[s] \in Save /\ saves[s] # None
      BY <1>1 DEF HandleSave, PlainTypes
    <2>2. \/ server' = server
          \/ /\ saves[s].etag = server[saves[s].id]
             /\ server' = [server EXCEPT ![saves[s].id] = saves[s].text]
      BY <1>1 DEF HandleSave
    <2>3. saves[s].id = d => saves[s].text.other = saves[s].etag.other
      BY <1>1, <2>1 DEF OthersKept, KeepsOthers, SavesKeep
    <2>4. QED  BY <2>1, <2>2, <2>3 DEF PlainTypes, Save
  <1>2. ASSUME NEW e \in Edited, OthersWrite(e) PROVE foreign' # foreign
    BY <1>2 DEF OthersWrite, PlainTypes
  <1>3. QED
    BY <1>1, <1>2
       DEF Next, ListArrives, ServeLoad, LoadArrives, LoadFails, Type, OpenPreview, CancelPreview,
           ConfirmSave, TimerFires, ReloadServer, MergeConflict, Resolve, KeepLocal, Select,
           Restart, ValidationArrives, ValidationStops, SaveArrives, ConflictArrives, SaveFails,
           vars, workspace, editor

\* A line of another client leaves the server only by another client, unless the tab has put
\* the draft on a revision it was not made from (851-896, 1069-1085).
THEOREM ForeignTextStays == Spec => ForeignTextSurvives
  <1>1. EditorInv /\ [Next]_vars =>
          [\A d \in Docs :
             server'[d].other # server[d].other => foreign' # foreign \/ rebased[d]]_vars
    BY ServerStep DEF EditorInv
  <1>2. QED  BY <1>1, EditorInvariant, PTL DEF Spec, ForeignTextSurvives
-----------------------------------------------------------------------------
\* localStorage holds the drafts that differ from their base.
StoredMirrors ==
  \A d \in Docs : drafts[d] # None =>
    stored[d] = IF drafts[d] # base[d] THEN drafts[d] ELSE None

\* The n-th edit is shown nowhere yet.
Unseen(n) ==
  /\ \A d \in Docs : /\ ~Shows(server[d], n) /\ ~Shows(drafts[d], n)
                     /\ ~Shows(base[d], n) /\ ~Shows(stored[d], n)
  /\ load # None => ~Shows(load.served, n)
  /\ active # None => ~Shows(active.content, n)
  /\ \A s \in Slots : saves[s] # None => ~Shows(saves[s].etag, n) /\ ~Shows(saves[s].text, n)
  /\ \A v \in validating : ~Shows(v.etag, n) /\ ~Shows(v.text, n)
  /\ conflict # None => /\ ~Shows(conflict.server.content, n)
                        /\ ~Shows(conflict.local, n) /\ ~Shows(conflict.made, n)

(* The n-th edit is kept in d: in the draft, else in the text that will be *)
(* restored, else on the server.  Whatever may replace the draft shows it, *)
(* and whatever shows it as the server's text is right to.                 *)
Home(d) == IF drafts[d] # None THEN drafts[d] ELSE IF stored[d] # None THEN stored[d] ELSE server[d]
Served(n, d) == Shows(server[d], n)
BaseServed(n, d) == Shows(base[d], n) => Served(n, d)
ActiveServed(n, d) == active # None /\ active.id = d /\ Shows(active.content, n) => Served(n, d)
LoadServed(n, d) ==
  load # None /\ load.id = d /\ load.served # None =>
    /\ Shows(load.served, n) => Served(n, d)
    /\ drafts[d] = None /\ stored[d] = None => Shows(load.served, n)
SaveShows(save, n, d) ==
  save # None /\ save.id = d =>
    /\ Shows(save.etag, n) => Served(n, d) /\ Shows(save.text, n)
    /\ save.phase # "orphan" => Shows(save.text, n)
    /\ save.phase = "saved" => Served(n, d)
SavesShow(n, d) == \A s \in Slots : SaveShows(saves[s], n, d)
ValidationsShow(n, d) ==
  \A v \in validating : v.id = d => Shows(v.text, n) /\ (Shows(v.etag, n) => Served(n, d))
ConflictShows(n, d) ==
  conflict # None /\ conflict.server.id = d =>
    /\ Shows(conflict.local, n)
    /\ Shows(conflict.server.content, n) => Served(n, d)
    /\ Shows(conflict.made, n) => Shows(conflict.server.content, n)

KeptIn(n, d) ==
  /\ Shows(Home(d), n)
  /\ BaseServed(n, d) /\ ActiveServed(n, d) /\ LoadServed(n, d)
  /\ SavesShow(n, d) /\ ValidationsShow(n, d) /\ ConflictShows(n, d)

EditKept(n) ==
  n \in letGo \/ (typed < n /\ Unseen(n)) \/ \E d \in Docs : KeptIn(n, d)

EditsInv == StoredMirrors /\ \A n \in 1..MaxTyped : EditKept(n)

(* What localStorage holds.                                               *)
LEMMA EffectsMirror ==
  ASSUME NEW newActive, Effects(newActive)
  PROVE  /\ StoredMirrors'
         /\ \A d \in Docs : drafts'[d] = None => stored'[d] = stored[d]
  <1>1. \A d \in Docs : stored'[d] = IF drafts'[d] = None THEN stored[d]
                                     ELSE IF drafts'[d] # base'[d] THEN drafts'[d] ELSE None
    BY DEF Effects
  <1>2. QED  BY <1>1 DEF StoredMirrors

LEMMA MirrorStep ==
  ASSUME StoredMirrors, [Next]_vars PROVE StoredMirrors'
  <1>1. ASSUME UNCHANGED <<drafts, base, stored>> PROVE StoredMirrors'
    BY <1>1 DEF StoredMirrors
  <1>2. ASSUME NEW newActive \in BOOLEAN, Effects(newActive) PROVE StoredMirrors'
    BY <1>2, EffectsMirror
  <1>3. CASE Restart
    BY <1>3 DEF Restart, StoredMirrors
  <1>4. CASE LoadArrives \/ LoadFails \/ Type \/ OpenPreview \/ CancelPreview \/ ConfirmSave
             \/ (\E d \in Docs : Select(d)) \/ (\E v \in validating : ValidationArrives(v))
    BY <1>2, <1>4 DEF LoadArrives, LoadFails, Type, OpenPreview, CancelPreview, ConfirmSave, Select,
                      ValidationArrives
  <1>5. CASE \/ ReloadServer \/ MergeConflict \/ KeepLocal
             \/ \E s \in Slots : SaveArrives(s) \/ ConflictArrives(s) \/ SaveFails(s)
    BY <1>2, <1>5 DEF ReloadServer, MergeConflict, Resolve, KeepLocal, SaveArrives, ConflictArrives,
                      SaveFails
  <1>6. QED
    BY <1>1, <1>3, <1>4, <1>5
       DEF Next, ListArrives, ServeLoad, TimerFires, OthersWrite, ValidationStops, HandleSave,
           vars, editor

(* An edit that is not made yet is shown nowhere.                          *)
LEMMA UnseenStep ==
  ASSUME PlainTypes, RenderTypes, KnownInv, [Next]_vars, NEW n \in 1..MaxTyped, Unseen(n),
         Type => n # typed + 1
  PROVE  Unseen(n)'
  <1> USE NoneAssumption, DocsAssumption DEF Shows
  <1>1. ASSUME UNCHANGED <<drafts, base, active, stored, conflict>>,
               \A s \in Slots : saves'[s] \in {saves[s], None},
               validating' \subseteq validating,
               \A d \in Docs : ~Shows(server'[d], n),
               load' # None => ~Shows(load'.served, n)
        PROVE  Unseen(n)'
    BY <1>1 DEF Unseen
  <1>2. ASSUME NEW newActive, Effects(newActive), server' = server,
               load' \in {load, None} \/ load'.served = None,
               active' # None => ~Shows(active'.content, n),
               \A d \in Docs : ~Shows(drafts'[d], n) /\ ~Shows(base'[d], n),
               \A s \in Slots : saves'[s] # None =>
                 ~Shows(saves'[s].etag, n) /\ ~Shows(saves'[s].text, n),
               validating' \subseteq validating,
               conflict' # None => /\ ~Shows(conflict'.server.content, n)
                                   /\ ~Shows(conflict'.local, n) /\ ~Shows(conflict'.made, n)
        PROVE  Unseen(n)'
    <2>1. \A d \in Docs : ~Shows(stored'[d], n)
      BY <1>2 DEF Effects, Unseen
    <2>2. QED  BY <1>2, <2>1 DEF Unseen
  <1>3. CASE ListArrives
    BY <1>1, <1>3 DEF ListArrives, workspace, editor, Unseen
  <1>4. CASE ServeLoad
    <2>1. load'.served = server[load.id] /\ load.id \in Docs
      BY <1>4 DEF ServeLoad, PlainTypes, Load
    <2>2. QED  BY <1>1, <1>4, <2>1 DEF ServeLoad, workspace, editor, Unseen
  <1>5. CASE LoadArrives
    <2> DEFINE d == load.id
    <2>1. /\ load # None /\ d \in Docs /\ load.served # None /\ ~Shows(load.served, n)
      BY <1>5 DEF LoadArrives, PlainTypes, Load, Unseen
    <2>2. PICK restore \in BOOLEAN :
            /\ active' = [id |-> d, content |-> load.served]
            /\ base' = [base EXCEPT ![d] = load.served]
            /\ drafts' = [drafts EXCEPT ![d] = DraftAfterLoad(d, load.served, restore)]
      BY <1>5 DEF LoadArrives
    <2>3. ~Shows(DraftAfterLoad(d, load.served, restore), n)
      BY <2>1 DEF DraftAfterLoad, Unseen
    <2>4. \A e \in Docs : ~Shows(drafts'[e], n) /\ ~Shows(base'[e], n)
      BY <2>1, <2>2, <2>3 DEF PlainTypes, Unseen
    <2>5. /\ Effects(TRUE) /\ server' = server /\ load' = None
          /\ UNCHANGED <<saves, validating, conflict>>
      BY <1>5 DEF LoadArrives, workspace
    <2>6. QED  BY <1>2, <2>1, <2>2, <2>4, <2>5 DEF Unseen
  <1>6. CASE LoadFails \/ OpenPreview \/ CancelPreview \/ KeepLocal
    <2>1. /\ Effects(FALSE)
          /\ UNCHANGED <<server, active, drafts, base, saves, validating>>
          /\ load' \in {load, None} /\ conflict' \in {conflict, None}
      BY <1>6 DEF LoadFails, OpenPreview, CancelPreview, KeepLocal, workspace, requests
    <2>2. QED  BY <1>2, <2>1 DEF Unseen
  <1>7. CASE Type
    <2>1. /\ Ready.id \in Docs /\ drafts[Ready.id] \in Contents
          /\ drafts' = [drafts EXCEPT ![Ready.id].own = {typed + 1}]
          /\ UNCHANGED <<server, load, active, base, saves, validating, conflict>>
          /\ Effects(FALSE)
      BY <1>7, ReadyIs DEF Type, requests, workspace
    <2>2. drafts'[Ready.id].own = {typed + 1}
      BY <2>1 DEF PlainTypes, Contents
    <2>3. \A e \in Docs : ~Shows(drafts'[e], n)
      BY <1>7, <2>1, <2>2 DEF PlainTypes, Unseen
    <2>4. QED  BY <1>2, <2>1, <2>3 DEF Unseen
  <1>8. ASSUME NEW id \in Docs, NEW etag \in Contents, NEW text \in Contents,
               ~Shows(etag, n), ~Shows(text, n), Send(id, etag, text), Effects(FALSE),
               validating' \subseteq validating,
               UNCHANGED <<server, load, active, drafts, base, conflict>>
        PROVE  Unseen(n)'
    <2>1. PICK s \in Slots, save \in Save :
            /\ saves' = [saves EXCEPT ![s] = save] /\ save.etag = etag /\ save.text = text
      <3>1. NewSave(id, etag, text)
        BY <1>8, SendIs
      <3>2. QED  BY <3>1 DEF NewSave
    <2>2. \A q \in Slots : saves'[q] = saves[q] \/ saves'[q] = save
      BY <2>1 DEF PlainTypes
    <2>3. \A q \in Slots : saves'[q] # None =>
                 ~Shows(saves'[q].etag, n) /\ ~Shows(saves'[q].text, n)
      BY <1>8, <2>1, <2>2 DEF Unseen
    <2>4. QED  BY <1>2, <1>8, <2>3 DEF Unseen
  <1>9. ASSUME Ready # None
        PROVE  /\ Ready.id \in Docs /\ Ready.content \in Contents /\ Draft \in Contents
               /\ ~Shows(Ready.content, n) /\ ~Shows(Draft, n)
    BY <1>9, ReadyIs DEF Unseen
  <1>10. CASE ConfirmSave
    BY <1>8, <1>9, <1>10, DirtyReady DEF ConfirmSave, workspace
  <1>11. CASE TimerFires
    <2>1. /\ Ready # None /\ validating' = validating \cup
               {[id |-> Ready.id, etag |-> Ready.content, text |-> Draft]}
          /\ UNCHANGED <<server, load, active, drafts, base, stored, saves, conflict>>
      BY <1>11, DirtyReady DEF TimerFires, RenderTypes, MayAutosave, editor, workspace
    <2>2. QED  BY <1>9, <2>1 DEF Unseen
  <1>12. ASSUME NEW v \in validating, ValidationArrives(v) PROVE Unseen(n)'
    <2>1. /\ v.id \in Docs /\ v.etag \in Contents /\ v.text \in Contents
          /\ ~Shows(v.etag, n) /\ ~Shows(v.text, n)
      BY DEF PlainTypes, Validation, Unseen
    <2>2. QED  BY <1>8, <1>12, <2>1 DEF ValidationArrives, workspace
  <1>13. ASSUME NEW v \in validating, ValidationStops(v) PROVE Unseen(n)'
    BY <1>1, <1>13 DEF ValidationStops, workspace, editor, Unseen
  <1>14. ASSUME NEW s \in Slots, HandleSave(s) PROVE Unseen(n)'
    <2>1. saves[s] \in Save /\ saves[s] # None
      BY <1>14 DEF HandleSave, PlainTypes
    <2>2. /\ server' \in {server, [server EXCEPT ![saves[s].id] = saves[s].text]}
          /\ saves' = [saves EXCEPT ![s] = None] \/ \E p \in {"saved", "refused"} :
                                  saves' = [saves EXCEPT ![s] = [saves[s] EXCEPT !.phase = p]]
          /\ UNCHANGED <<load, active, drafts, base, stored, validating, conflict>>
      BY <1>14 DEF HandleSave, editor
    <2>3. \A d \in Docs : ~Shows(server'[d], n)
      BY <2>1, <2>2 DEF PlainTypes, Save, Unseen
    <2>4. /\ \A q \in Slots \ {s} : saves'[q] = saves[q]
          /\ \/ saves'[s] = None
             \/ saves'[s].etag = saves[s].etag /\ saves'[s].text = saves[s].text
      BY <2>1, <2>2 DEF PlainTypes, Save
    <2>5. QED  BY <2>1, <2>2, <2>3, <2>4 DEF Unseen
  <1>15. ASSUME NEW s \in Slots, SaveArrives(s) PROVE Unseen(n)'
    <2>1. saves[s] \in Save /\ ~Shows(saves[s].text, n)
      BY <1>15 DEF SaveArrives, PlainTypes, Unseen
    <2>2. /\ active' = [id |-> saves[s].id, content |-> saves[s].text]
          /\ base' = [base EXCEPT ![saves[s].id] = saves[s].text]
          /\ drafts' = [drafts EXCEPT ![saves[s].id] = saves[s].text]
          /\ conflict' = None /\ saves' = [saves EXCEPT ![s] = None]
          /\ UNCHANGED <<server, load, validating>> /\ Effects(TRUE)
      BY <1>15 DEF SaveArrives, SaveEnds, workspace
    <2>3. \A e \in Docs : ~Shows(drafts'[e], n) /\ ~Shows(base'[e], n)
      BY <2>1, <2>2 DEF PlainTypes, Save, Unseen
    <2>4. \A q \in Slots : saves'[q] \in {saves[q], None}
      BY <2>2 DEF PlainTypes
    <2>5. QED  BY <1>2, <2>1, <2>2, <2>3, <2>4 DEF Unseen
  <1>16. ASSUME NEW s \in Slots, ConflictArrives(s) PROVE Unseen(n)'
    <2>1. saves[s] \in Save /\ ~Shows(saves[s].text, n) /\ ~Shows(saves[s].etag, n)
      BY <1>16 DEF ConflictArrives, PlainTypes, Unseen
    <2>2. /\ conflict'.server.content = server[saves[s].id] /\ conflict'.local = saves[s].text
          /\ conflict'.made = saves[s].etag
          /\ saves' = [saves EXCEPT ![s] = None]
          /\ UNCHANGED <<server, load, active, drafts, base, validating>> /\ Effects(FALSE)
      BY <1>16 DEF ConflictArrives, SaveEnds, workspace
    <2>3. \A q \in Slots : saves'[q] \in {saves[q], None}
      BY <2>2 DEF PlainTypes
    <2>4. ~Shows(server[saves[s].id], n)
      BY <2>1 DEF Save, Unseen
    <2>5. QED  BY <1>2, <2>1, <2>2, <2>3, <2>4 DEF Unseen
  <1>17. ASSUME NEW s \in Slots, SaveFails(s) PROVE Unseen(n)'
    <2>1. /\ saves' = [saves EXCEPT ![s] = None] /\ Effects(FALSE)
          /\ UNCHANGED <<server, load, active, drafts, base, validating, conflict>>
      BY <1>17 DEF SaveFails, SaveEnds, workspace
    <2>2. \A q \in Slots : saves'[q] \in {saves[q], None}
      BY <2>1 DEF PlainTypes
    <2>3. QED  BY <1>2, <2>1, <2>2 DEF Unseen
  <1>18. ASSUME NEW text, Ready # None, conflict # None, Resolve(text), ~Shows(text, n),
                UNCHANGED server
         PROVE  Unseen(n)'
    <2>1. /\ active' = conflict.server /\ conflict' = None
          /\ base' = [base EXCEPT ![Ready.id] = conflict.server.content]
          /\ drafts' = [drafts EXCEPT ![Ready.id] = text]
          /\ UNCHANGED <<load, saves, validating>> /\ Effects(TRUE)
      BY <1>18 DEF Resolve, requests
    <2>2. ~Shows(conflict.server.content, n)
      BY <1>18 DEF Unseen
    <2>3. \A e \in Docs : ~Shows(drafts'[e], n) /\ ~Shows(base'[e], n)
      BY <1>18, <2>1, <2>2 DEF PlainTypes, Unseen
    <2>4. QED  BY <1>2, <1>18, <2>1, <2>2, <2>3 DEF Unseen
  <1>19. CASE ReloadServer
    BY <1>18, <1>19 DEF ReloadServer, Resolve, workspace, Unseen
  <1>20. CASE MergeConflict
    <2> DEFINE text == MergeThreeWay(base[Ready.id], conflict.local, conflict.server.content)
    <2>1. /\ Ready # None /\ conflict # None /\ Resolve(text) /\ server' = server
      BY <1>20 DEF MergeConflict, Resolve, workspace
    <2>2. /\ n \notin base[Ready.id].own /\ n \notin conflict.local.own
          /\ n \notin conflict.server.content.own
      <3>1. /\ base[Ready.id] # None /\ conflict.local # None /\ conflict.server.content # None
            /\ Ready.id \in Docs
        BY <2>1, ReadyIs DEF PlainTypes, Conflict, Documents
      <3>2. QED  BY <2>1, <3>1 DEF Unseen
    <2>3. ~Shows(text, n)
      BY <2>2 DEF MergeThreeWay, MergeLine
    <2> HIDE DEF text
    <2>4. QED  BY <1>18, <2>1, <2>3
  <1>21. CASE Restart
    <2>1. \A q \in Slots : saves'[q] # None => /\ saves[q] # None /\ saves'[q].etag = saves[q].etag
                                               /\ saves'[q].text = saves[q].text
      BY <1>21 DEF Restart, PlainTypes, Save
    <2>2. /\ active' = None /\ conflict' = None /\ validating' = {} /\ load'.served = None
          /\ \A d \in Docs : drafts'[d] = None /\ base'[d] = None
          /\ UNCHANGED <<server, stored>>
      BY <1>21 DEF Restart, workspace
    <2>3. QED  BY <2>1, <2>2 DEF Unseen
  <1>22. ASSUME NEW d \in Docs, Select(d) PROVE Unseen(n)'
    BY <1>2, <1>22 DEF Select, workspace, Unseen
  <1>23. ASSUME NEW d \in Edited, OthersWrite(d) PROVE Unseen(n)'
    <2>1. d \in Docs /\ server' = [server EXCEPT ![d].other = {-(foreign + 1)}]
      BY <1>23, BoundsAssumption DEF OthersWrite
    <2>2. \A e \in Docs : server'[e].own = server[e].own
      BY <2>1 DEF PlainTypes, Contents
    <2>3. \A e \in Docs : server[e] # None
      BY DEF PlainTypes
    <2>4. QED  BY <1>1, <1>23, <2>2, <2>3 DEF OthersWrite, requests, editor, Unseen
  <1>24. CASE UNCHANGED vars
    BY <1>1, <1>24 DEF vars, workspace, requests, editor, Unseen
  <1>25. QED  BY <1>3, <1>4, <1>5, <1>6, <1>7, <1>10, <1>11, <1>12, <1>13, <1>14, <1>15, <1>16, <1>17,
                 <1>19, <1>20, <1>21, <1>22, <1>23, <1>24 DEF Next

\* What a step leaves alone is right about the edit as before, as long as the server keeps it.
LEMMA KeptFrame ==
  ASSUME PlainTypes, NEW n, NEW d \in Docs, KeptIn(n, d), Served(n, d) => Served(n, d)'
  PROVE  /\ drafts'[d] = drafts[d] /\ (drafts[d] = None => stored'[d] = stored[d])
              => Shows(Home(d), n)'
         /\ base'[d] \in {base[d], None} => BaseServed(n, d)'
         /\ active' \in {active, None} => ActiveServed(n, d)'
         /\ load' \in {load, None} \/ load'.served = None =>
              ((drafts'[d] = None /\ stored'[d] = None => drafts[d] = None /\ stored[d] = None)
                => LoadServed(n, d)')
         /\ (\A s \in Slots : saves'[s] \in {saves[s], None}) => SavesShow(n, d)'
         /\ validating' \subseteq validating => ValidationsShow(n, d)'
         /\ conflict' \in {conflict, None} => ConflictShows(n, d)'
  <1>1. drafts'[d] = drafts[d] /\ (drafts[d] = None => stored'[d] = stored[d])
              => Shows(Home(d), n)'
    BY DEF KeptIn, Home, Served, Shows
  <1>2. base'[d] \in {base[d], None} => BaseServed(n, d)'
    BY DEF KeptIn, BaseServed, Shows
  <1>3. active' \in {active, None} => ActiveServed(n, d)'
    BY DEF KeptIn, ActiveServed
  <1>4. load' \in {load, None} \/ load'.served = None =>
              ((drafts'[d] = None /\ stored'[d] = None => drafts[d] = None /\ stored[d] = None)
                => LoadServed(n, d)')
    BY DEF KeptIn, LoadServed
  <1>5. (\A s \in Slots : saves'[s] \in {saves[s], None}) => SavesShow(n, d)'
    BY DEF KeptIn, SavesShow, SaveShows
  <1>6. validating' \subseteq validating => ValidationsShow(n, d)'
    BY DEF KeptIn, ValidationsShow
  <1>7. conflict' \in {conflict, None} => ConflictShows(n, d)'
    BY DEF KeptIn, ConflictShows
  <1>8. QED  BY <1>1, <1>2, <1>3, <1>4, <1>5, <1>6, <1>7

(* An edit that is kept in a document stays kept in it.                    *)
LEMMA KeptStep ==
  ASSUME PlainTypes, RenderTypes, KnownInv, StoredMirrors, [Next]_vars,
         NEW n \in 1..MaxTyped, n \notin letGo', NEW d \in Docs, KeptIn(n, d)
  PROVE  KeptIn(n, d)'
  <1> USE NoneAssumption
  <1>n. n \notin Docs
    BY DocsAssumption
  <1>d. drafts[d] # None => Shows(drafts[d], n)
    BY DEF KeptIn, Home
  <1>1. ASSUME UNCHANGED server PROVE Served(n, d)'  <=> Served(n, d)
    BY <1>1 DEF Served
  <1>2. ASSUME UNCHANGED <<server, active, drafts, base, stored>>,
               load' \in {load, None} \/ load'.served = None,
               \A s \in Slots : saves'[s] \in {saves[s], None},
               validating' \subseteq validating, conflict' \in {conflict, None}
        PROVE  KeptIn(n, d)'
    BY <1>1, <1>2, KeptFrame DEF KeptIn
  <1>3. CASE ListArrives
    BY <1>2, <1>3 DEF ListArrives, workspace, editor
  <1>4. CASE ServeLoad
    <2>1. /\ load'.served = server[load.id] /\ load'.id = load.id
          /\ UNCHANGED <<server, saves, validating, active, drafts, base, conflict, stored>>
      BY <1>4 DEF ServeLoad, workspace, editor, PlainTypes, Load
    <2>2. LoadServed(n, d)'
      BY <2>1 DEF LoadServed, Served, KeptIn, Home
    <2>3. QED  BY <1>1, <2>1, <2>2, KeptFrame DEF KeptIn
  <1>5. CASE LoadArrives
    <2> DEFINE e == load.id
               text == load.served
    <2>1. /\ load # None /\ e \in Docs /\ text # None /\ text \in Contents
      BY <1>5 DEF LoadArrives, PlainTypes, Load
    <2>2. PICK restore \in BOOLEAN :
            /\ restore => drafts[e] = None /\ stored[e] # None /\ stored[e] # text
            /\ active' = [id |-> e, content |-> text]
            /\ base' = [base EXCEPT ![e] = text]
            /\ drafts' = [drafts EXCEPT ![e] = DraftAfterLoad(e, text, restore)]
            /\ drafts[e] = None /\ stored[e] # None /\ stored[e] # text /\ ~restore =>
                 letGo' = letGo \cup Edits(stored[e])
      BY <1>5 DEF LoadArrives
    <2>3. /\ Effects(TRUE) /\ server' = server /\ load' = None
          /\ UNCHANGED <<saves, validating, conflict>>
      BY <1>5 DEF LoadArrives, workspace
    <2>4. e = d /\ Shows(text, n) => Served(n, d)
      BY <2>1 DEF KeptIn, LoadServed
    <2>5. BaseServed(n, d)' /\ ActiveServed(n, d)'
      BY <1>1, <2>1, <2>2, <2>3, <2>4 DEF KeptIn, BaseServed, ActiveServed, PlainTypes
    <2>6. LoadServed(n, d)'
      BY <2>3 DEF LoadServed
    <2>7. Shows(Home(d), n)'
      <3>1. CASE d # e
        <4>1. drafts'[d] = drafts[d] /\ (drafts[d] = None => stored'[d] = stored[d])
          BY <2>1, <2>2, <2>3, <3>1, EffectsMirror DEF PlainTypes
        <4>2. QED  BY <1>1, <2>3, <4>1, KeptFrame
      <3>2. CASE d = e
        <4>1. drafts'[d] = DraftAfterLoad(d, text, restore)
          BY <2>1, <2>2, <3>2 DEF PlainTypes
        <4>2. CASE drafts[d] # None
          BY <1>d, <4>1, <4>2 DEF DraftAfterLoad, Home
        <4>3. CASE drafts[d] = None /\ stored[d] = None
          <5>1. ~restore /\ Shows(text, n)
            BY <2>1, <2>2, <3>2, <4>3 DEF KeptIn, LoadServed
          <5>2. QED  BY <2>1, <4>1, <4>3, <5>1 DEF DraftAfterLoad, Home
        <4>4. CASE drafts[d] = None /\ stored[d] # None
          <5>1. Shows(stored[d], n)
            BY <4>4 DEF KeptIn, Home
          <5>2. stored[d] = text \/ restore
            BY <1>n, <2>2, <3>2, <4>4, <5>1 DEF Edits, Shows
          <5>3. QED  BY <4>1, <4>4, <5>1, <5>2 DEF DraftAfterLoad, Home
        <4>5. QED  BY <4>2, <4>3, <4>4
      <3>3. QED  BY <3>1, <3>2
    <2>8. QED  BY <1>1, <2>3, <2>5, <2>6, <2>7, KeptFrame DEF KeptIn
  <1>6. ASSUME NEW newActive, Effects(newActive), load' \in {load, None} \/ load'.served = None,
               UNCHANGED <<server, drafts, base>>, active' \in {active, None}
        PROVE  /\ Shows(Home(d), n)' /\ BaseServed(n, d)' /\ ActiveServed(n, d)'
               /\ LoadServed(n, d)'
    <2>1. drafts[d] = None => stored'[d] = stored[d]
      BY <1>6, EffectsMirror
    <2>2. QED  BY <1>1, <1>6, <2>1, KeptFrame DEF KeptIn
  <1>7. ASSUME LoadFails \/ OpenPreview \/ CancelPreview \/ KeepLocal \/ \E q \in Docs : Select(q)
        PROVE  KeptIn(n, d)'
    <2>1. /\ Effects(FALSE)
          /\ UNCHANGED <<server, active, drafts, base, saves, validating>>
          /\ conflict' \in {conflict, None}
      BY <1>7 DEF LoadFails, OpenPreview, CancelPreview, KeepLocal, Select, workspace, requests
    <2>2. load' \in {load, None} \/ load'.served = None
      <3>1. CASE LoadFails \/ OpenPreview \/ CancelPreview \/ KeepLocal
        BY <3>1 DEF LoadFails, OpenPreview, CancelPreview, KeepLocal, requests
      <3>2. CASE \E q \in Docs : Select(q)
        BY <3>2 DEF Select
      <3>3. QED  BY <1>7, <3>1, <3>2
    <2>3. QED  BY <1>1, <1>6, <2>1, <2>2, KeptFrame DEF KeptIn
  <1>8. CASE Type
    <2>1. /\ Ready.id \in Docs /\ drafts[Ready.id] \in Contents /\ Draft = drafts[Ready.id]
          /\ drafts' = [drafts EXCEPT ![Ready.id].own = {typed + 1}]
          /\ letGo' = letGo \cup Edits(Draft) \cup (IF Pending(Ready.id) THEN {typed + 1} ELSE {})
          /\ UNCHANGED <<server, load, active, base, saves, validating, conflict>>
          /\ Effects(FALSE)
      BY <1>8, ReadyIs DEF Type, requests, workspace
    <2>2. d # Ready.id
      BY <1>n, <1>d, <2>1 DEF Edits, Shows
    <2>3. drafts'[d] = drafts[d] /\ (drafts[d] = None => stored'[d] = stored[d])
      BY <2>1, <2>2, EffectsMirror DEF PlainTypes
    <2>4. drafts'[d] = None /\ stored'[d] = None => drafts[d] = None /\ stored[d] = None
      BY <2>3
    <2>5. QED  BY <1>1, <2>1, <2>3, <2>4, KeptFrame DEF KeptIn
  <1>9. ASSUME NEW id \in Docs, NEW etag \in Contents, NEW text \in Contents,
               id = d => Shows(text, n) /\ (Shows(etag, n) => Served(n, d)),
               Send(id, etag, text), Effects(FALSE), validating' \subseteq validating,
               UNCHANGED <<server, load, active, drafts, base, conflict>>
        PROVE  KeptIn(n, d)'
    <2>1. PICK s \in Slots, save \in Save :
            /\ saves' = [saves EXCEPT ![s] = save]
            /\ save.id = id /\ save.etag = etag /\ save.text = text /\ save.phase = "sent"
      <3>1. NewSave(id, etag, text)
        BY <1>9, SendIs
      <3>2. QED  BY <3>1 DEF NewSave
    <2>2. saves'[s] = save /\ \A q \in Slots \ {s} : saves'[q] = saves[q]
      BY <2>1 DEF PlainTypes
    <2>3. SavesShow(n, d)'
      BY <1>1, <1>9, <2>1, <2>2 DEF KeptIn, SavesShow, SaveShows
    <2>4. QED  BY <1>1, <1>6, <1>9, <2>3, KeptFrame DEF KeptIn
  <1>10. ASSUME Ready # None
         PROVE  /\ Ready.id \in Docs /\ Ready.content \in Contents /\ Draft \in Contents
                /\ Ready.id = d => Shows(Draft, n) /\ (Shows(Ready.content, n) => Served(n, d))
    <2>1. /\ Ready = active /\ Draft = drafts[Ready.id] /\ Draft # None
      BY <1>10, ReadyIs
    <2>2. QED  BY <1>d, <1>10, <2>1, ReadyIs DEF KeptIn, ActiveServed
  <1>11. CASE ConfirmSave
    BY <1>9, <1>10, <1>11, DirtyReady DEF ConfirmSave, workspace
  <1>12. CASE TimerFires
    <2>1. /\ Ready # None /\ validating' = validating \cup
               {[id |-> Ready.id, etag |-> Ready.content, text |-> Draft]}
          /\ UNCHANGED <<server, load, active, drafts, base, stored, saves, conflict>>
      BY <1>12, DirtyReady DEF TimerFires, RenderTypes, MayAutosave, editor, workspace
    <2>2. ValidationsShow(n, d)'
      BY <1>1, <1>10, <2>1 DEF KeptIn, ValidationsShow
    <2>3. QED  BY <1>1, <2>1, <2>2, KeptFrame DEF KeptIn
  <1>13. ASSUME NEW v \in validating, ValidationArrives(v) PROVE KeptIn(n, d)'
    <2>1. /\ v.id \in Docs /\ v.etag \in Contents /\ v.text \in Contents
          /\ v.id = d => Shows(v.text, n) /\ (Shows(v.etag, n) => Served(n, d))
      BY DEF PlainTypes, Validation, KeptIn, ValidationsShow
    <2>2. QED  BY <1>9, <1>13, <2>1 DEF ValidationArrives, workspace
  <1>14. ASSUME NEW v \in validating, ValidationStops(v) PROVE KeptIn(n, d)'
    BY <1>2, <1>14 DEF ValidationStops, workspace, editor
  <1>15. ASSUME NEW s \in Slots, HandleSave(s) PROVE KeptIn(n, d)'
    <2>1. saves[s] \in Save /\ saves[s] # None /\ saves[s].id \in Docs /\ saves[s].text \in Contents
      BY <1>15 DEF HandleSave, PlainTypes, Save
    <2>2. PICK current \in BOOLEAN :
          /\ current => saves[s].etag = server[saves[s].id]
          /\ server' = IF current THEN [server EXCEPT ![saves[s].id] = saves[s].text] ELSE server
          /\ \/ saves[s].phase # "sent" /\ saves' = [saves EXCEPT ![s] = None]
             \/ /\ saves[s].phase = "sent"
                /\ saves' = [saves EXCEPT ![s] = [saves[s] EXCEPT
                               !.phase = IF current THEN "saved" ELSE "refused"]]
          /\ UNCHANGED <<load, active, drafts, base, stored, validating, conflict>>
      BY <1>15 DEF HandleSave, editor
    <2>3. SaveShows(saves[s], n, d)
      BY DEF KeptIn, SavesShow
    <2>4. /\ current /\ saves[s].id = d => server'[d] = saves[s].text
          /\ ~(current /\ saves[s].id = d) => server'[d] = server[d]
      BY <2>1, <2>2 DEF PlainTypes
    <2>5. Served(n, d) => Served(n, d)'
      BY <2>1, <2>2, <2>3, <2>4 DEF Served, SaveShows
    <2>6. Shows(Home(d), n)'
      <3>1. CASE drafts[d] = None /\ stored[d] = None
        <4>1. Served(n, d)
          BY <3>1 DEF KeptIn, Home, Served
        <4>2. QED  BY <2>2, <2>5, <3>1, <4>1 DEF Home, Served
      <3>2. CASE ~(drafts[d] = None /\ stored[d] = None)
        BY <2>2, <3>2 DEF KeptIn, Home
      <3>3. QED  BY <3>1, <3>2
    <2>7. SaveShows(saves[s], n, d)'
      <3>1. CASE saves[s].phase # "sent"
        BY <2>1, <2>2, <3>1 DEF SaveShows, PlainTypes
      <3>2. CASE saves[s].phase = "sent" /\ saves[s].id = d
        <4>1. /\ saves'[s].id = d /\ saves'[s].etag = saves[s].etag
              /\ saves'[s].text = saves[s].text
              /\ saves'[s].phase = IF current THEN "saved" ELSE "refused"
          BY <2>1, <2>2, <3>2 DEF PlainTypes, Save
        <4>2. Shows(saves[s].text, n)
          BY <2>1, <2>3, <3>2 DEF SaveShows
        <4>3. current => Served(n, d)'
          BY <2>4, <3>2, <4>2 DEF Served
        <4>4. Shows(saves[s].etag, n) => Served(n, d)'
          BY <2>1, <2>3, <2>5, <3>2 DEF SaveShows
        <4>5. QED  BY <4>1, <4>2, <4>3, <4>4 DEF SaveShows
      <3>3. CASE saves[s].phase = "sent" /\ saves[s].id # d
        <4>1. saves'[s].id = saves[s].id
          BY <2>1, <2>2, <3>3 DEF PlainTypes, Save
        <4>2. QED  BY <3>3, <4>1 DEF SaveShows
      <3>4. QED  BY <3>1, <3>2, <3>3
    <2>8. \A q \in Slots \ {s} : saves'[q] = saves[q]
      BY <2>1, <2>2 DEF PlainTypes
    <2>9. SavesShow(n, d)'
      BY <2>5, <2>7, <2>8 DEF KeptIn, SavesShow, SaveShows
    <2>10. QED  BY <2>2, <2>5, <2>6, <2>9, KeptFrame DEF KeptIn
  <1>16. ASSUME NEW s \in Slots, SaveArrives(s) PROVE KeptIn(n, d)'
    <2>1. /\ saves[s] \in Save /\ saves[s] # None /\ saves[s].phase = "saved"
          /\ SaveShows(saves[s], n, d)
      BY <1>16 DEF SaveArrives, PlainTypes, KeptIn, SavesShow
    <2>2. /\ active' = [id |-> saves[s].id, content |-> saves[s].text]
          /\ base' = [base EXCEPT ![saves[s].id] = saves[s].text]
          /\ drafts' = [drafts EXCEPT ![saves[s].id] = saves[s].text]
          /\ conflict' = None /\ saves' = [saves EXCEPT ![s] = None]
          /\ UNCHANGED <<server, load, validating>> /\ Effects(TRUE)
      BY <1>16 DEF SaveArrives, SaveEnds, workspace
    <2>3. saves[s].id = d => Served(n, d) /\ Shows(saves[s].text, n)
      BY <2>1 DEF SaveShows
    <2>4. BaseServed(n, d)' /\ ActiveServed(n, d)'
      BY <1>1, <2>1, <2>2, <2>3 DEF KeptIn, BaseServed, ActiveServed, PlainTypes, Save
    <2>5. drafts'[d] = IF saves[s].id = d THEN saves[s].text ELSE drafts[d]
      BY <2>1, <2>2 DEF PlainTypes, Save
    <2>6. drafts'[d] = None => drafts[d] = None /\ stored'[d] = stored[d] /\ saves[s].id # d
      BY <2>1, <2>2, <2>5, EffectsMirror DEF Save
    <2>7. Shows(Home(d), n)'
      <3>1. CASE saves[s].id = d
        BY <2>3, <2>5, <2>6, <3>1 DEF Home
      <3>2. CASE saves[s].id # d
        BY <1>1, <2>2, <2>5, <2>6, <3>2, KeptFrame
      <3>3. QED  BY <3>1, <3>2
    <2>8. LoadServed(n, d)'
      BY <1>1, <2>2, <2>6, KeptFrame
    <2>9. \A q \in Slots : saves'[q] \in {saves[q], None}
      BY <2>2 DEF PlainTypes
    <2>10. QED  BY <1>1, <2>2, <2>4, <2>7, <2>8, <2>9, KeptFrame DEF KeptIn
  <1>17. ASSUME NEW s \in Slots, ConflictArrives(s) PROVE KeptIn(n, d)'
    <2>1. /\ saves[s] \in Save /\ saves[s] # None /\ saves[s].phase = "refused"
          /\ SaveShows(saves[s], n, d)
      BY <1>17 DEF ConflictArrives, PlainTypes, KeptIn, SavesShow
    <2>2. /\ conflict' = [server |-> [id |-> saves[s].id, content |-> server[saves[s].id]],
                          local |-> saves[s].text, made |-> saves[s].etag]
          /\ saves' = [saves EXCEPT ![s] = None]
          /\ UNCHANGED <<server, load, active, drafts, base, validating>> /\ Effects(FALSE)
      BY <1>17 DEF ConflictArrives, SaveEnds, workspace
    <2>3. ConflictShows(n, d)'
      BY <2>1, <2>2 DEF ConflictShows, SaveShows, Served
    <2>4. \A q \in Slots : saves'[q] \in {saves[q], None}
      BY <2>2 DEF PlainTypes
    <2>5. QED  BY <1>1, <1>6, <2>2, <2>3, <2>4, KeptFrame DEF KeptIn
  <1>18. ASSUME NEW s \in Slots, SaveFails(s) PROVE KeptIn(n, d)'
    <2>1. /\ saves' = [saves EXCEPT ![s] = None] /\ Effects(FALSE)
          /\ UNCHANGED <<server, load, active, drafts, base, validating, conflict>>
      BY <1>18 DEF SaveFails, SaveEnds, workspace
    <2>2. \A q \in Slots : saves'[q] \in {saves[q], None}
      BY <2>1 DEF PlainTypes
    <2>3. QED  BY <1>1, <1>6, <2>1, <2>2, KeptFrame DEF KeptIn
  <1>19. ASSUME NEW text \in Contents, Ready # None, conflict # None, Resolve(text),
                UNCHANGED server,
                Ready.id = d => Shows(text, n) /\ conflict.server.id = d
         PROVE  KeptIn(n, d)'
    <2>1. /\ active' = conflict.server /\ conflict' = None
          /\ base' = [base EXCEPT ![Ready.id] = conflict.server.content]
          /\ drafts' = [drafts EXCEPT ![Ready.id] = text]
          /\ UNCHANGED <<load, saves, validating>> /\ Effects(TRUE)
      BY <1>19 DEF Resolve, requests
    <2>2. conflict.server.id = d /\ Shows(conflict.server.content, n) => Served(n, d)
      BY <1>19 DEF KeptIn, ConflictShows
    <2>3. Ready.id \in Docs
      BY <1>19, ReadyIs
    <2>4. BaseServed(n, d)' /\ ActiveServed(n, d)'
      BY <1>1, <1>19, <2>1, <2>2, <2>3 DEF KeptIn, BaseServed, ActiveServed, PlainTypes
    <2>5. drafts'[d] = IF Ready.id = d THEN text ELSE drafts[d]
      BY <2>1, <2>3 DEF PlainTypes
    <2>6. drafts'[d] = None => drafts[d] = None /\ stored'[d] = stored[d] /\ Ready.id # d
      BY <1>19, <2>1, <2>5, EffectsMirror
    <2>7. Shows(Home(d), n)'
      <3>1. CASE Ready.id = d
        BY <1>19, <2>5, <2>6, <3>1 DEF Home
      <3>2. CASE Ready.id # d
        BY <1>1, <1>19, <2>5, <2>6, <3>2, KeptFrame
      <3>3. QED  BY <3>1, <3>2
    <2>8. LoadServed(n, d)'
      BY <1>1, <1>19, <2>1, <2>6, KeptFrame
    <2>9. QED  BY <1>1, <1>19, <2>1, <2>4, <2>7, <2>8, KeptFrame DEF KeptIn
  <1>20. ASSUME Ready # None, Edits(Draft) \subseteq letGo' PROVE Ready.id # d
    <2>1. Draft = drafts[Ready.id] /\ Draft # None
      BY <1>20, ReadyIs
    <2>2. QED  BY <1>n, <1>d, <1>20, <2>1 DEF Edits, Shows
  <1>21. CASE ReloadServer
    <2>1. /\ conflict # None /\ Ready # None /\ Resolve(conflict.server.content)
          /\ Edits(Draft) \subseteq letGo' /\ server' = server
          /\ conflict.server.content \in Contents
      BY <1>21 DEF ReloadServer, Resolve, workspace, PlainTypes, Conflict, Documents
    <2>2. QED  BY <1>19, <1>20, <2>1
  <1>22. CASE MergeConflict
    <2> DEFINE text == MergeThreeWay(base[Ready.id], conflict.local, conflict.server.content)
    <2>1. /\ Ready # None /\ conflict # None /\ Resolve(text) /\ server' = server
          /\ ~InPlace => Edits(Draft) \subseteq letGo'
      BY <1>22 DEF MergeConflict, Resolve, workspace
    <2>2. /\ base[Ready.id] \in Contents /\ conflict.local \in Contents
          /\ conflict.server.content \in Contents
      BY <2>1, ReadyIs DEF PlainTypes, Conflict, Documents
    <2>3. text \in Contents
      BY <2>2 DEF MergeThreeWay, MergeLine, Contents
    <2>4. ASSUME Ready.id = d PROVE Shows(text, n) /\ conflict.server.id = d
      <3>1. conflict.server.id = d /\ conflict.made = base[d]
        BY <1>20, <2>1, <2>4 DEF InPlace
      <3>2. /\ n \in conflict.local.own
            /\ n \in base[d].own => n \in conflict.server.content.own
        BY <2>1, <2>2, <2>4, <3>1 DEF KeptIn, ConflictShows, Shows
      <3>3. n \in text.own
        BY <2>4, <3>2 DEF MergeThreeWay, MergeLine
      <3>4. QED  BY <2>3, <3>1, <3>3 DEF Shows
    <2> HIDE DEF text
    <2>5. QED  BY <1>19, <2>1, <2>3, <2>4
  <1>23. CASE Restart
    <2>1. \A q \in Slots : saves'[q] # None =>
            /\ saves[q] # None /\ saves'[q].phase = "orphan" /\ saves'[q].id = saves[q].id
            /\ saves'[q].etag = saves[q].etag /\ saves'[q].text = saves[q].text
      BY <1>23 DEF Restart, PlainTypes, Save
    <2>2. /\ active' = None /\ conflict' = None /\ validating' = {} /\ load'.served = None
          /\ drafts'[d] = None /\ base'[d] = None
          /\ UNCHANGED <<server, stored>>
      BY <1>23 DEF Restart, workspace
    <2>3. Shows(Home(d), n)'
      <3>1. CASE drafts[d] = None
        BY <2>2, <3>1 DEF KeptIn, Home
      <3>2. CASE drafts[d] # None
        <4>1. drafts[d] = base[d] => Served(n, d)
          BY <1>d, <3>2 DEF KeptIn, BaseServed
        <4>2. stored[d] = IF drafts[d] # base[d] THEN drafts[d] ELSE None
          BY <3>2 DEF StoredMirrors
        <4>3. QED  BY <1>d, <2>2, <3>2, <4>1, <4>2 DEF Home, Served
      <3>3. QED  BY <3>1, <3>2
    <2>4. SavesShow(n, d)'
      BY <1>1, <2>1, <2>2 DEF KeptIn, SavesShow, SaveShows
    <2>5. LoadServed(n, d)' /\ ActiveServed(n, d)' /\ ValidationsShow(n, d)' /\ ConflictShows(n, d)'
      BY <2>2 DEF LoadServed, ActiveServed, ValidationsShow, ConflictShows
    <2>6. BaseServed(n, d)'
      BY <2>2 DEF BaseServed, Shows
    <2>7. QED  BY <2>3, <2>4, <2>5, <2>6 DEF KeptIn
  <1>24. ASSUME NEW e \in Edited, OthersWrite(e) PROVE KeptIn(n, d)'
    <2>1. e \in Docs /\ server' = [server EXCEPT ![e].other = {-(foreign + 1)}]
      BY <1>24, BoundsAssumption DEF OthersWrite
    <2>2. server'[d].own = server[d].own /\ server[d] # None
      BY <2>1 DEF PlainTypes, Contents
    <2>3. server'[d] # None
      <3>1. foreign + 1 \in 1..MaxForeign /\ {-(foreign + 1)} \in SUBSET (-MaxForeign)..(-1)
        BY <1>24, BoundsAssumption DEF OthersWrite, PlainTypes
      <3>2. [server[e] EXCEPT !.other = {-(foreign + 1)}] \in Contents
        BY <2>1, <3>1 DEF PlainTypes, Contents
      <3>3. server'[d] = IF d = e THEN [server[e] EXCEPT !.other = {-(foreign + 1)}] ELSE server[d]
        BY <2>1 DEF PlainTypes
      <3>4. server'[d] \in Contents
        BY <3>2, <3>3 DEF PlainTypes
      <3>5. QED  BY <3>4
    <2>4. Served(n, d)' <=> Served(n, d)
      BY <2>2, <2>3 DEF Served, Shows
    <2>5. UNCHANGED <<load, saves, validating, active, drafts, base, conflict, stored>>
      BY <1>24 DEF OthersWrite, requests, editor
    <2>6. Shows(Home(d), n)'
      BY <2>4, <2>5 DEF KeptIn, Home, Served
    <2>7. QED  BY <2>4, <2>5, <2>6, KeptFrame DEF KeptIn
  <1>25. CASE UNCHANGED vars
    BY <1>2, <1>25 DEF vars, workspace, requests, editor
  <1>26. QED  BY <1>3, <1>4, <1>5, <1>7, <1>8, <1>11, <1>12, <1>13, <1>14, <1>15, <1>16, <1>17,
                 <1>18, <1>21, <1>22, <1>23, <1>24, <1>25 DEF Next

\* An edit typed when nothing of the document is pending is kept in it.
LEMMA TypedKept ==
  ASSUME PlainTypes, KnownInv, Type, NEW n, n = typed + 1, n \in 1..MaxTyped, Unseen(n),
         n \notin letGo'
  PROVE  \E d \in Docs : KeptIn(n, d)'
  <1> USE NoneAssumption
  <1>1. PICK d \in Docs : d = Ready.id
    BY ReadyIs DEF Type
  <1>2. /\ drafts[d] \in Contents /\ ~Pending(d)
        /\ drafts' = [drafts EXCEPT ![d].own = {n}]
        /\ UNCHANGED <<server, load, active, base, saves, validating, conflict>>
    BY <1>1, ReadyIs DEF Type, requests, workspace
  <1>3. drafts'[d] # None /\ n \in drafts'[d].own
    <2>1. drafts'[d] = [drafts[d] EXCEPT !.own = {n}]
      BY <1>2 DEF PlainTypes
    <2>2. [drafts[d] EXCEPT !.own = {n}] \in Contents /\ drafts'[d].own = {n}
      BY <1>2, <2>1 DEF Contents
    <2>3. QED  BY <2>1, <2>2
  <1>4. Shows(Home(d), n)'
    BY <1>3 DEF Home, Shows
  <1>5. BaseServed(n, d)'
    BY <1>2 DEF Unseen, BaseServed
  <1>6. ActiveServed(n, d)'
    BY <1>2 DEF Unseen, ActiveServed
  <1>7. LoadServed(n, d)'
    BY <1>2, <1>3 DEF Unseen, LoadServed
  <1>8. /\ \A s \in Slots : saves'[s] # None => saves'[s].id # d
        /\ \A v \in validating' : v.id # d
        /\ conflict' # None => conflict'.server.id # d
    BY <1>2 DEF Pending
  <1>9. SavesShow(n, d)' /\ ValidationsShow(n, d)' /\ ConflictShows(n, d)'
    BY <1>8 DEF SavesShow, SaveShows, ValidationsShow, ConflictShows
  <1>10. QED  BY <1>4, <1>5, <1>6, <1>7, <1>9 DEF KeptIn

LEMMA EditsInit == ASSUME Init PROVE EditsInv
  <1> USE NoneAssumption, DocsAssumption DEF Init
  <1>1. StoredMirrors
    BY DEF StoredMirrors
  <1>2. ASSUME NEW n \in 1..MaxTyped PROVE typed < n /\ Unseen(n)
    <2>1. n \notin Docs
      BY DocsAssumption
    <2>2. \A d \in Docs : server[d].own = {d}
      BY DEF Original
    <2>3. QED  BY <2>1, <2>2 DEF Unseen, Shows
  <1>3. QED  BY <1>1, <1>2 DEF EditsInv, EditKept

LEMMA EditsStep ==
  ASSUME PlainTypes, RenderTypes, KnownInv, [Next]_vars, EditsInv PROVE EditsInv'
  <1>1. letGo \subseteq letGo'
    BY DEF Next, ListArrives, ServeLoad, LoadArrives, LoadFails, Type, OpenPreview, CancelPreview,
           ConfirmSave, TimerFires, ReloadServer, MergeConflict, KeepLocal, Restart, Select,
           OthersWrite, ValidationArrives, ValidationStops, HandleSave, SaveArrives,
           ConflictArrives, SaveFails, history, vars
  <1>2. typed' = IF Type THEN typed + 1 ELSE typed
    BY DEF Next, ListArrives, ServeLoad, LoadArrives, LoadFails, Type, OpenPreview, CancelPreview,
           ConfirmSave, TimerFires, ReloadServer, MergeConflict, KeepLocal, Resolve, Restart, Select,
           OthersWrite, ValidationArrives, ValidationStops, HandleSave, SaveArrives,
           ConflictArrives, SaveFails, history, vars
  <1>3. ASSUME NEW n \in 1..MaxTyped PROVE EditKept(n)'
    <2>1. CASE n \in letGo'
      BY <2>1 DEF EditKept
    <2>2. CASE n \notin letGo' /\ \E d \in Docs : KeptIn(n, d)
      BY <2>2, KeptStep DEF EditsInv, EditKept
    <2>3. CASE n \notin letGo' /\ typed < n /\ Unseen(n) /\ ~(Type /\ n = typed + 1)
      <3>1. Unseen(n)'
        BY <2>3, UnseenStep
      <3>2. typed' < n
        BY <1>2, <2>3, BoundsAssumption DEF PlainTypes
      <3>3. QED  BY <3>1, <3>2 DEF EditKept
    <2>4. CASE n \notin letGo' /\ Unseen(n) /\ Type /\ n = typed + 1
      BY <2>4, TypedKept DEF EditKept
    <2>5. QED  BY <1>1, <2>1, <2>2, <2>3, <2>4 DEF EditsInv, EditKept
  <1>4. QED  BY <1>3, MirrorStep DEF EditsInv

\* Whatever the numbers of documents, saves, edits, revisions and restarts, an edit that the
\* tab still owes its user is in a draft, in localStorage or on the server (630-680, 850-905).
THEOREM EditsStay == Spec => []EveryEditKept
  <1>1. Init => EditorInv /\ EditsInv
    BY EditorInit, EditsInit
  <1>2. EditorInv /\ EditsInv /\ [Next]_vars => EditsInv'
    BY EditsStep DEF EditorInv
  <1>3. EditorInv /\ EditsInv => EveryEditKept
    <2> SUFFICES ASSUME EditorInv, EditsInv, NEW n \in (1..typed) \ letGo
                 PROVE  \E d \in Docs :
                          Shows(drafts[d], n) \/ Shows(stored[d], n) \/ Shows(server[d], n)
      BY DEF EveryEditKept
    <2>1. n \in 1..MaxTyped /\ ~(typed < n)
      BY BoundsAssumption DEF EditorInv, PlainTypes
    <2>2. PICK d \in Docs : KeptIn(n, d)
      BY <2>1 DEF EditsInv, EditKept
    <2>3. QED  BY <2>2 DEF KeptIn, Home
  <1>4. QED  BY <1>1, <1>2, <1>3, EditorInvariant, PTL DEF Spec
=============================================================================
