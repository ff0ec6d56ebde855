--------------------------- MODULE DefinitionPatch ---------------------------
(***************************************************************************)
(* The operations on the function, event and error definitions of a draft, *)
(* on its catalog aliases, and on its top-level start.                     *)
(***************************************************************************)
EXTENDS StatePatch

CONSTANTS
  Words,     \* Words[x]: the names that stand in the text of name x as words, x too
  WordSplice \* WordSplice[<<n, m>>][x]: x with 'm' for each word n, None when the quotes
             \* around x and those around m leave a text that cannot be read

ASSUME WordsAssumption ==
  /\ Words \in [Labels -> SUBSET Labels]
  /\ \A x \in Labels : x \in Words[x]
  /\ WordSplice \in [DefNames \X DefNames -> [Labels -> Labels \cup {None}]]
  /\ \A n, m \in DefNames :
       /\ WordSplice[<<n, m>>][n] = m
       /\ \A x \in DefNames : WordSplice[<<n, m>>][x] \in DefNames \cup {None}

(* The definitions the editors see: in YAML those below the collection's   *)
(* key, not those that begin on its line.                                  *)
SeenDefs(d, c) == IF d.format = "yaml" /\ c \in d.flow THEN << >> ELSE d.defs[c]

RefNames(s) == {s.actions[k].ref : k \in {l \in DOMAIN s.actions : s.actions[l].key = "refName"}}

ErrorRefs(s) == {s.errors[k].label : k \in DOMAIN s.errors}

(* What a state names in each collection.                                  *)
Uses(s, collection) ==
  IF collection = "functions" THEN RefNames(s)
  ELSE IF collection = "events" THEN {s.event} \ {None}
  ELSE ErrorRefs(s)

(* The pattern of the YAML editor wants the key first on its line, so it   *)
(* sees a refName in a block and an eventRef, and no errorRef: that key    *)
(* opens the list item, behind a dash.                                     *)
SeesUses(d, s, collection) ==
  \/ d.format = "json"
  \/ collection = "functions" /\ Visible(d, s, "actions")
  \/ collection = "events"

DefinitionUses(d, collection) ==
  UNION {Uses(d.states[i], collection) : i \in DOMAIN d.states}

DefinitionReferences(d, collection) ==
  UNION {Uses(d.states[i], collection) :
           i \in {j \in DOMAIN d.states : SeesUses(d, d.states[j], collection)}}

(* What a rename makes of a use: JSON values are compared as a whole, of a *)
(* YAML value each word that is the old name is replaced.                  *)
UseAfter(d, old, new, x) ==
  IF d.format = "yaml" THEN WordSplice[<<old, new>>][x]
  ELSE IF x = old THEN new ELSE x

RedirectedUses(d, collection, old, new) ==
  LET To(x) == IF x = None \/ UseAfter(d, old, new, x) = None THEN x ELSE UseAfter(d, old, new, x)
      Calls(a) ==
        [k \in DOMAIN a |->
           IF a[k].key = "refName" THEN [a[k] EXCEPT !.ref = To(@)] ELSE a[k]]
      Handlers(b) == [k \in DOMAIN b |-> [b[k] EXCEPT !.label = To(@)]]
      Rewritten(s) ==
        IF ~ SeesUses(d, s, collection) THEN s
        ELSE IF collection = "functions" THEN [s EXCEPT !.actions = Calls(s.actions)]
        ELSE IF collection = "events" THEN [s EXCEPT !.event = To(@)]
        ELSE [s EXCEPT !.errors = Handlers(s.errors)]
      breaks == \E x \in DefinitionReferences(d, collection) : UseAfter(d, old, new, x) = None
  IN [d EXCEPT !.states = [i \in DOMAIN @ |-> Rewritten(@[i])], !.parses = @ /\ ~ breaks]

(* A collection that begins on the line of its key is not found, and gets  *)
(* a second key, which no text may have.                                   *)
CreateDefinition(d, c, name) ==
  IF Unreadable(d) \/ NameTaken(SeenDefs(d, c), name, 0) THEN Refused(d)
  ELSE IF d.format = "yaml" /\ c \in d.flow THEN Patched([d EXCEPT !.parses = FALSE])
  ELSE Patched([d EXCEPT !.defs[c] = Append(@, [name |-> name, alias |-> None])])

(* In JSON the operation has no branch for a duplicate and succeeds        *)
(* without making one.                                                     *)
DuplicateDefinition(d, c, i, name) ==
  IF Unreadable(d) \/ NameTaken(d.defs[c], name, i) THEN Refused(d)
  ELSE IF d.format = "json" THEN Patched(d)
  ELSE Patched([d EXCEPT !.defs[c] = Inserted(@, i + 1, [@[i] EXCEPT !.name = name])])

RenameDefinition(d, c, i, name) ==
  IF Unreadable(d) \/ NameTaken(d.defs[c], name, i) THEN Refused(d)
  ELSE Patched(RedirectedUses([d EXCEPT !.defs[c][i].name = name],
                              c, d.defs[c][i].name, name))

(* A definition is kept whose name is a word of a use.                     *)
DeleteDefinition(d, c, i) ==
  IF \/ Unreadable(d)
     \/ \E x \in DefinitionReferences(d, c) : d.defs[c][i].name \in Words[x]
  THEN Refused(d)
  ELSE Patched([d EXCEPT !.defs[c] = Removed(@, i)])

MoveDefinition(d, c, i, direction) ==
  IF Unreadable(d) THEN Refused(d)
  ELSE Patched([d EXCEPT !.defs[c] = Moved(@, i, direction)])

(* The operation of a function names an operation of an alias.             *)
SetFunctionAlias(d, i, alias) ==
  IF Unreadable(d) \/ i \notin DOMAIN SeenDefs(d, "functions") THEN Refused(d)
  ELSE Patched([d EXCEPT !.defs["functions"][i].alias = alias])

-----------------------------------------------------------------------------
AliasUses(d) ==
  {SeenDefs(d, "functions")[i].alias : i \in DOMAIN SeenDefs(d, "functions")} \ {None}

AddAlias(d, alias, file) ==
  IF Unreadable(d) \/ d.aliases[alias] # None THEN Refused(d)
  ELSE Patched([d EXCEPT !.aliases[alias] = file])

PatchAlias(d, alias, file) ==
  IF Unreadable(d) \/ d.aliases[alias] = None THEN Refused(d)
  ELSE Patched([d EXCEPT !.aliases[alias] = file])

DeleteAlias(d, alias, acceptImpact) ==
  IF \/ Unreadable(d)
     \/ d.aliases[alias] = None
     \/ alias \in AliasUses(d) /\ ~ acceptImpact
  THEN Refused(d)
  ELSE Patched([d EXCEPT !.aliases[alias] = None])

DanglingAliases(d) == {a \in AliasUses(d) : d.aliases[a] = None}

-----------------------------------------------------------------------------
(* The metadata form sets or removes the start; it has no error to give    *)
(* and leaves a text it cannot read alone.                                 *)
SetStart(d, name) ==
  IF Unreadable(d) THEN Patched(d) ELSE Patched([d EXCEPT !.start = name])
=============================================================================
