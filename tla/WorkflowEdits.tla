---------------------------- MODULE WorkflowEdits ----------------------------
(***************************************************************************)
(* A workflow edited in the Studio: every form, graph and Issues-panel     *)
(* operation that changes the draft, and the save that makes it the        *)
(* server's document, from which the graph and the diagnostics are made.   *)
(* Each operation is made on the text as it then is, and one that is       *)
(* refused leaves it alone and shows an error.                             *)
(***************************************************************************)
EXTENDS WorkflowGraph

CONSTANTS Seeds,       \* the documents a session may begin with
          CopyName,    \* what the copy of a name is called, where it has one
          Writable,    \* the names a user gives to states
          Definable,   \* the names a user gives to definitions, events and files
          BranchLists, \* the lists of branches a user may write
          ActionLists, \* the lists of actions a user may write
          MaxEdits,    \* bound: edits in a session
          MaxSelected, \* bound: states selected for an extraction
          MaxStates    \* bound: states of a workflow

ASSUME CopyAssumption ==
  /\ DOMAIN CopyName \subseteq Names \cup DefNames
  /\ \A n \in DOMAIN CopyName : CopyName[n] # n

ASSUME WrittenAssumption ==
  /\ Writable \subseteq Names
  /\ Definable \subseteq DefNames
  /\ BranchLists \subseteq Seq(Branch)
  /\ ActionLists \subseteq Seq(Call)

ASSUME SeedsAssumption ==
  /\ MaxEdits \in Nat /\ MaxSelected \in Nat /\ MaxStates \in Nat
  /\ Seeds \subseteq Document
  /\ \A d \in Seeds : Len(d.states) <= MaxStates

(* There is a number for every name the states of a workflow can take.     *)
ASSUME NumbersAssumption ==
  IsFiniteSet(NumberedNames) => Cardinality(NumberedNames) > MaxStates

VARIABLES draft,   \* the text being edited
          saved,   \* the document as the server has it
          subflow, \* the workflow an extraction made, or None
          typed,   \* names the user wrote or let go, or a rename made of others
          edits    \* edits made

vars == << draft, saved, subflow, typed, edits >>

(* What a document already names without having it.                        *)
Unresolved(d) ==
  Dangling(d) \cup DanglingAliases(d)
    \cup UNION {DefinitionUses(d, c) \ {d.defs[c][i].name : i \in DOMAIN d.defs[c]} :
                  c \in Collections}

Init ==
  /\ draft \in Seeds
  /\ saved = draft
  /\ subflow = None
  /\ typed = Unresolved(draft)
  /\ edits = 0

(* The bound of a session: it also ends when an edit has left a YAML text  *)
(* that does not parse, and when an extraction has taken the user to the   *)
(* workflow it made.                                                       *)
MayEdit ==
  /\ edits < MaxEdits
  /\ subflow = None
  /\ draft.format = "yaml" => draft.parses

Apply(result) ==
  /\ ~ result.error
  /\ Len(result.source.states) <= MaxStates
  /\ draft' = result.source
  /\ edits' = edits + 1
  /\ UNCHANGED << saved, subflow >>

Pick(result) == MayEdit /\ Apply(result) /\ UNCHANGED typed

Write(result, names) == MayEdit /\ Apply(result) /\ typed' = typed \cup names

(* A form acts on the first entry of the name it shows.                    *)
Firsts(seq) == {i \in DOMAIN seq : IndexOf(seq, seq[i].name) = i}

States == Firsts(StatesOf(draft))

StateOptions == NamesOf(draft) \cup {None}

Shown == {ShownStates(draft, saved)[i].name : i \in DOMAIN ShownStates(draft, saved)}

-----------------------------------------------------------------------------
(* The state form and the palette of the graph.                            *)
Create == \E n \in Writable, t \in Types : Pick(CreateState(draft, n, t))

Duplicate ==
  \E i \in States :
    /\ draft.states[i].name \in DOMAIN CopyName
    /\ CopyName[draft.states[i].name] \in Names
    /\ Pick(DuplicateState(draft, i, CopyName[draft.states[i].name]))

RenameTo(i, n) ==
  /\ n # draft.states[i].name
  /\ Pick(RenameState(draft, i, n))

Rename == \E i \in States, n \in Writable : RenameTo(i, n)

Delete == \E i \in States : Pick(DeleteState(draft, i))

Move ==
  \E i \in States :
    \/ i > 1 /\ Pick(MoveState(draft, i, "up"))
    \/ i < Len(draft.states) /\ Pick(MoveState(draft, i, "down"))

Edit ==
  \E i \in States :
    \/ \E t \in Types : Pick(EditState(draft, i, "type", t))
    \/ \E n \in StateOptions \ {draft.states[i].name} :
         Pick(EditState(draft, i, "transition", n))
    \/ \E b \in BOOLEAN : Pick(EditState(draft, i, "end", b))

(* The advanced fields: what is written there need not exist.              *)
WriteField ==
  \E i \in States, asJson \in BOOLEAN :
    \/ \E f \in BranchFields, b \in BranchLists :
         Write(SetStateField(draft, i, f, b, asJson),
               {b[k].to : k \in DOMAIN b} \cup {b[k].label : k \in DOMAIN b})
    \/ \E n \in Writable \cup {None} :
         Write(SetStateField(draft, i, "default", n, asJson), {n})
    \/ \E a \in ActionLists :
         Write(SetStateField(draft, i, "actions", a, asJson), {a[k].ref : k \in DOMAIN a})
    \/ \E e \in Definable \cup {None} :
         Write(SetStateField(draft, i, "event", e, asJson), {e})

CallSubflow ==
  \E i \in States, nth \in 0 .. 1 :
    Write(PatchSubflow(draft, i, nth, SubflowId), {SubflowId})

(* The graph.  Its states are those it shows, not those of the text.       *)
Connect == \E from, to \in Shown : Pick(ConnectStates(draft, from, to))

DeleteSelection == \E names \in SUBSET Shown : Pick(DeleteStates(draft, names))

(* What the rename of a definition makes of the names that have its name   *)
(* as a word.                                                              *)
Respelt(d, c, old, new) ==
  {UseAfter(d, old, new, x) : x \in DefinitionReferences(d, c) \ {old}}
    \ ((DefinitionReferences(d, c) \ {old}) \cup {None})

(* The definition form, the catalog aliases and the metadata form.         *)
EditDefinitions ==
  \E c \in Collections :
    \/ \E n \in Definable : Pick(CreateDefinition(draft, c, n))
    \/ \E i \in Firsts(SeenDefs(draft, c)) :
         \/ /\ draft.defs[c][i].name \in DOMAIN CopyName
            /\ CopyName[draft.defs[c][i].name] \in Definable
            /\ Pick(DuplicateDefinition(draft, c, i, CopyName[draft.defs[c][i].name]))
         \/ \E n \in Definable \ {draft.defs[c][i].name} :
              Write(RenameDefinition(draft, c, i, n),
                    Respelt(draft, c, draft.defs[c][i].name, n))
         \/ Pick(DeleteDefinition(draft, c, i))
         \/ i > 1 /\ Pick(MoveDefinition(draft, c, i, "up"))

EditAliases ==
  \E a \in Aliases, f \in Definable :
    \/ Pick(AddAlias(draft, a, f))
    \/ Pick(PatchAlias(draft, a, f))
    \/ Pick(DeleteAlias(draft, a, FALSE))
    \/ Write(DeleteAlias(draft, a, TRUE), {a})
    \/ /\ draft.aliases[a] # None
       /\ \E i \in Firsts(SeenDefs(draft, "functions")) : Pick(SetFunctionAlias(draft, i, a))

EditStart == \E n \in StateOptions : Pick(SetStart(draft, n))

(* Typing in the source view may break a JSON text, and mend it.           *)
TypeSource ==
  /\ draft.format = "json"
  /\ Pick(Patched([draft EXCEPT !.parses = ~ @]))

-----------------------------------------------------------------------------
(* The diagnostics of the saved document, and the repairs they offer.      *)
RealEdges(d) ==
  (IF d.start = None THEN {} ELSE {Edge(StartNode, d.start, "start")})
    \cup UNION {EdgesFrom(d.states[i], d.states[i].transition) : i \in DOMAIN d.states}

Switches(d) == {s \in {d.states[i] : i \in DOMAIN d.states} : s.type = "switch"}

WithoutDefault(s) == s.conditions # << >> /\ s.default = None

WithRepetition(s) ==
  \E k, l \in DOMAIN s.conditions : k < l /\ s.conditions[k].label = s.conditions[l].label

WithShadow(s) ==
  \E k \in DOMAIN s.conditions : s.conditions[k].label = "true" /\ k < Len(s.conditions)

DuplicateNames(d) ==
  {d.states[i].name : i \in {j \in DOMAIN d.states :
                               \E k \in 1 .. j - 1 : d.states[k].name = d.states[j].name}}

NeverReached(d) ==
  IF d.start \in NamesOf(d) THEN NamesOf(d) \ Reachable(RealEdges(d)) ELSE {}

FixDefault ==
  \E s \in Switches(saved) : WithoutDefault(s) /\ Pick(MissingDefaultFix(draft, s.name))

FixDuplicate == \E n \in DuplicateNames(saved) : Pick(DuplicateStateFix(draft, n))

FixUnreachable == \E n \in NeverReached(saved) : Pick(UnreachableStateFix(draft, n))

FixBranch ==
  \E s \in Switches(saved) :
    \/ WithRepetition(s) /\ Pick(BranchFix(draft, s.name, TRUE))
    \/ WithShadow(s) /\ Pick(BranchFix(draft, s.name, FALSE))

FixReference == \E n \in Dangling(saved) : Pick(BrokenReferenceFix(draft, n))

-----------------------------------------------------------------------------
Selections(names) ==
  {s \in UNION {[1 .. k -> names] : k \in 1 .. MaxSelected} :
     \A i, j \in DOMAIN s : s[i] = s[j] => i = j}

(* A confirmed extraction: the subflow is created and the caller saved.    *)
Extract ==
  \E names \in Selections(Shown) :
    LET result == ExtractStates(draft, names)
    IN /\ MayEdit
       /\ ~ result.error
       /\ draft' = result.workflow
       /\ saved' = result.workflow
       /\ subflow' = result.subflow
       /\ edits' = edits + 1
       /\ UNCHANGED typed

(* The server takes a text that parses.                                    *)
Save ==
  /\ draft.parses
  /\ draft # saved
  /\ saved' = draft
  /\ UNCHANGED << draft, subflow, typed, edits >>

Next ==
  \/ Create \/ Duplicate \/ Rename \/ Delete \/ Move \/ Edit \/ WriteField \/ CallSubflow
  \/ Connect \/ DeleteSelection \/ EditDefinitions \/ EditAliases \/ EditStart \/ TypeSource
  \/ FixDefault \/ FixDuplicate \/ FixUnreachable \/ FixBranch \/ FixReference
  \/ Extract \/ Save

Spec == Init /\ [][Next]_vars

-----------------------------------------------------------------------------
(* The variables hold documents and the sets of names that were written.   *)
TypeOK ==
  /\ draft \in Document
  /\ saved \in Document
  /\ subflow \in Document \cup {None}
  /\ typed \subseteq Names \cup DefNames \cup Aliases \cup {None, "true"}
  /\ edits \in Nat

UniquelyNamed(d) ==
  UniqueNames(d.states) /\ \A c \in Collections : UniqueNames(d.defs[c])

(* No operation gives two states, or two definitions of a collection, one  *)
(* name: duplicates only ever come with the document.                      *)
NamesStayUnique == [][UniquelyNamed(draft) => UniquelyNamed(draft')]_vars

(* Whatever the order of renames, deletions and repairs, a start, a        *)
(* transition, a use of a definition or of an alias that the editors can   *)
(* see names something that exists, unless the user wrote it, accepted the *)
(* deletion, or renamed a definition whose name is a word of it in YAML.   *)
(* An extraction is looked at on its own below.                            *)
NothingVisibleDangles ==
  subflow = None =>
    /\ VisiblyDangling(draft) \subseteq typed
    /\ \A c \in Collections :
         DefinitionReferences(draft, c)
           \subseteq {draft.defs[c][i].name : i \in DOMAIN draft.defs[c]} \cup typed
    /\ DanglingAliases(draft) \subseteq typed

(* The graph shows the edges of the text: all of them for a JSON draft and *)
(* for a YAML draft that is saved, and those of the start, the direct      *)
(* transitions and the ends for any YAML draft.  A state called End and    *)
(* states of one name are the cases it draws otherwise.                    *)
Direct(edges) == {e \in edges : e.kind \in {"start", "transition", "terminal"}}

GraphShowsTheDraft ==
  UniqueNames(draft.states) /\ "End" \notin Names =>
    IF Unreadable(draft) THEN Edges(draft, saved) = RealEdges(saved)
    ELSE IF draft.format = "json" \/ draft = saved
    THEN Edges(draft, saved) = RealEdges(draft)
    ELSE Direct(Edges(draft, saved)) = Direct(RealEdges(draft))

(* The queue visits the nodes by their distance from the start: an edge    *)
(* leads at most one layer on, a visited node follows one of the layer     *)
(* before, what no path reaches is drawn after all of them, and just the   *)
(* states outside every set closed under the edges are called unreachable. *)
LayersAreDistances ==
  LET edges == Edges(draft, saved)
      nodes == Nodes(draft, saved)
      layer == [n \in nodes |-> LayerOf(edges, n)]
      Closed(S) == StartNode \in S /\ \A e \in edges : e.from \in S => e.to \in S
      closed == {S \in SUBSET nodes : Closed(S)}
      visited == {n \in nodes : \A S \in closed : n \in S}
  IN /\ Unreachable(draft, saved) = Shown \ visited
     /\ \A e \in edges : e.from \in visited => layer[e.to] <= layer[e.from] + 1
     /\ \A n \in visited \ {StartNode} :
          \E e \in edges : e.to = n /\ e.from \in visited /\ layer[n] = layer[e.from] + 1
     /\ \A n \in nodes \ visited, v \in visited : layer[v] < layer[n]

-----------------------------------------------------------------------------
NothingInline(d) ==
  d.format = "json" \/ \A i \in DOMAIN d.states : d.states[i].inline = {}

OnlyTheNameChanges ==
  \A i \in States, n \in Writable :
    (/\ RenameTo(i, n)
     /\ n \notin AllReferences(draft)
     /\ NothingInline(draft)
     /\ UniqueNames(draft.states)) =>
      LET To(x) == IF x = draft.states[i].name THEN n ELSE x
      IN RealEdges(draft') = {Edge(To(e.from), To(e.to), e.kind) : e \in RealEdges(draft)}

(* A rename changes the graph in nothing but the name, unless a missing    *)
(* target already had the new name or a branch is written inline.          *)
RenameKeepsTheGraph == [][OnlyTheNameChanges]_vars

(* Where a switch leads when just the given conditions hold.               *)
Choice(s, holding) ==
  LET open == {k \in DOMAIN s.conditions : s.conditions[k].label \in holding \cup {"true"}}
  IN IF open = {} THEN s.default
     ELSE s.conditions[CHOOSE k \in open : \A l \in open : k <= l].to

SameChoice(i) ==
  \A holding \in SUBSET DefNames :
    Choice(draft.states[i], holding) = Choice(draft'.states[i], holding)

(* The repairs see every branch of a switch, and no two conditions of it   *)
(* look alike on their lines that are not the same.                        *)
ToldApart(d, s) ==
  /\ Seen(d, s.conditions) = DOMAIN s.conditions
  /\ \A k, l \in DOMAIN s.conditions :
       OnItsLine(d, s.conditions[k]) = OnItsLine(d, s.conditions[l])
         => s.conditions[k].label = s.conditions[l].label

(* Removing a duplicate or unreachable branch changes no choice, although  *)
(* the diagnostic is of the saved text and the draft may have moved on, of *)
(* a switch whose conditions can be told apart by their lines.             *)
BranchFixKeepsTheChoice ==
  [][FixBranch =>
       \A i \in DOMAIN draft.states : ToldApart(draft, draft.states[i]) => SameChoice(i)]_vars

(* Removing a state the saved text does not reach takes nothing that the   *)
(* draft reaches, unless the draft reaches it by a branch written inline.  *)
UnreachableFixKeepsReach ==
  [][FixUnreachable /\ NothingInline(draft) =>
       Reachable(RealEdges(draft)) = Reachable(RealEdges(draft'))]_vars

(* The caller with the invocation replaced by what it invokes: what leads  *)
(* to it leads to the entry, the subflow runs along the transitions it has *)
(* between its own states, and where it leaves them the caller goes on as  *)
(* the invocation does.                                                    *)
InlinedEdges(caller, entry, sub) ==
  LET called == {caller.states[i].name : i \in {j \in DOMAIN caller.states :
                   caller.states[j].actions = << [key |-> "subFlowRef", ref |-> SubflowId] >>}}
      To(n) == IF n \in called THEN entry ELSE n
      Within(e) == e.to \in NamesOf(sub)
      inner == {e \in RealEdges(sub) : e.from # StartNode}
      exits == {e \in RealEdges(caller) : e.from \in called}
  IN {Edge(e.from, To(e.to), e.kind) : e \in RealEdges(caller) \ exits}
     \cup {e \in inner : Within(e)}
     \cup UNION {{Edge(e.from, x.to, x.kind) : x \in exits} : e \in {f \in inner : ~ Within(f)}}

(* A selection made in the order of the path, left by its last state,      *)
(* entered by its first, and pointed into from outside by no branch; no    *)
(* state of it both ends and leads on.                                     *)
Orderly(d, names) ==
  LET at == [k \in DOMAIN names |-> IndexOf(d.states, names[k])]
      selected == {names[k] : k \in DOMAIN names}
      outside == DOMAIN d.states \ {at[k] : k \in DOMAIN names}
  IN /\ names # << >>
     /\ \A k \in 1 .. Len(names) - 1 : d.states[at[k]].transition = names[k + 1]
     /\ d.states[at[Len(names)]].transition \notin selected
     /\ \A k \in DOMAIN names : d.states[at[k]].end => d.states[at[k]].transition = None
     /\ d.start \notin selected \ {names[1]}
     /\ \A i \in outside : (Targets(d.states[i]) \cap selected) \subseteq {names[1]}

FlowIsKept ==
  LET names == [k \in DOMAIN subflow'.states |-> subflow'.states[k].name]
  IN (/\ subflow' # subflow
      /\ \A i \in DOMAIN draft.states : SubflowCalls(draft, draft.states[i]) = {}
      /\ NothingInline(draft)
      /\ UniqueNames(draft.states)
      /\ Orderly(draft, names)
      /\ (NamesOf(draft') \ NamesOf(draft)) \cap AllReferences(draft) = {}) =>
        /\ AllReferences(draft') \cap {names[k] : k \in DOMAIN names} = {}
        /\ InlinedEdges(draft', names[1], subflow') = RealEdges(draft)

(* Extracting such a selection keeps the flow: the caller names none of    *)
(* the extracted states any more and, put back in the place of the         *)
(* invocation, whose own exit is what follows it, the subflow gives the    *)
(* graph there was.                                                        *)
ExtractionKeepsTheFlow == [][FlowIsKept]_vars

-----------------------------------------------------------------------------
(* "Renaming updates all matching references in the workflow": every use   *)
(* of a definition names one, or a name the user wrote.                    *)
UsesAreDefined ==
  \A c \in Collections :
    DefinitionUses(draft, c)
      \subseteq {draft.defs[c][i].name : i \in DOMAIN draft.defs[c]} \cup typed
=============================================================================
