--------------------------- MODULE CatalogDocument ---------------------------
(***************************************************************************)
(* An OpenAPI catalog as the catalog form sees it, and what each operation *)
(* of the form makes of its text.                                          *)
(*                                                                         *)
(* A JSON text is parsed and printed again.  A YAML text is never parsed:  *)
(* lines are found by their indentation and key, and spliced.  So a part   *)
(* written inline on the line of its key has nothing below it that could   *)
(* be found, a path with a colon is shown cut off there when it is written *)
(* without quotes and not at all with them, and lines spliced below an     *)
(* inline part, or a fragment put on a line it does not fit on, leave a    *)
(* text that no longer says what the form showed.                          *)
(***************************************************************************)
EXTENDS Naturals, Sequences, FiniteSets, SequencesExt

CONSTANTS Paths,          \* the paths of operations
          ColonPaths,     \* those of them that contain a colon
          CutOff,         \* what comes before the colon of each of these
          Methods,        \* HTTP methods, in lower case
          Ids,            \* operationIds
          Texts,          \* what a summary, title or version may say
          ComponentNames, \* what a schema component may be called
          Schemas         \* the schemas a component may be

ASSUME ColonAssumption ==
  ColonPaths \subseteq Paths /\ CutOff \in [ColonPaths -> Paths \ ColonPaths]

Absent == ""

ASSUME AbsentAssumption == Absent \notin Methods \cup Ids \cup Texts \cup ComponentNames

Formats == {"yaml", "json"}

InfoFields == {"title", "version"}

(* How a part is written: not at all, as an exact {} or as something else  *)
(* on the line of its key, or below it.                                    *)
Layouts == {"absent", "empty", "inline", "block"}

Parts == {"info", "paths", "components", "schemas"}

(* A fragment typed into a text area: nothing, JSON on one line, a YAML    *)
(* mapping on one line, YAML on several lines, or what nothing can read.   *)
Fragments == {"empty", "flow", "line", "block", "broken"}

(* How an entry below paths is written: on lines of its own, on the line   *)
(* of its method, in a path item on the line of its path, or behind a path *)
(* no line pattern matches, one in quotes with a colon or one on the line  *)
(* of paths itself.                                                        *)
Spellings == {"block", "line", "item", "hidden"}

(* An operation, or, with no method, the fields a path has of its own.     *)
Operation == [path : Paths, method : Methods \cup {Absent}, operationId : Ids \cup {Absent},
              summary : Texts \cup {Absent}, responses : Fragments, written : Spellings]

Component == [name : ComponentNames, schema : Schemas, text : Fragments, inline : BOOLEAN]

Catalog == [format : Formats, sound : BOOLEAN, layout : [Parts -> Layouts],
            info : [InfoFields -> Texts \cup {Absent}], servers : Fragments,
            ops : Seq(Operation), schemas : Seq(Component)]

Patched(c) == [source |-> c, error |-> FALSE]

Refused(c) == [source |-> c, error |-> TRUE]

(* Lines spliced below a part written inline are found again by the form,  *)
(* but the text as a whole no longer parses.                               *)
SoundIf(c, fits) == [c EXCEPT !.sound = c.sound /\ (c.format = "json" \/ fits)]

Yaml(c) == c.format = "yaml"

Unreadable(c) == ~ Yaml(c) /\ ~ c.sound

(* A fragment that fits on the line of its key, or below it.               *)
Fits(fragment) == fragment \in {"empty", "flow", "block"}

(* Whether the text says what the record does.                             *)
Readable(c) ==
  /\ c.sound
  /\ \A i \in DOMAIN c.ops : Fits(c.ops[i].responses)
  /\ \A i \in DOMAIN c.schemas : Fits(c.schemas[i].text)

-----------------------------------------------------------------------------
(* What the form shows.                                                    *)
ShownMetadata(c, field) == IF Unreadable(c) THEN Absent ELSE c.info[field]

Recognised(c, op) == Yaml(c) => op.written # "hidden"

OnLines(c, op) == Yaml(c) => op.written \in {"block", "line"}

(* The path the line of an entry seems to have.                            *)
ShownPath(c, op) == IF Yaml(c) /\ op.path \in ColonPaths THEN CutOff[op.path] ELSE op.path

ShownKey(c, op) == << ShownPath(c, op), op.method >>

(* The places of the operations shown, which are listed in their order.    *)
CatalogOperations(c) ==
  {i \in DOMAIN c.ops : ~ Unreadable(c) /\ c.ops[i].method # Absent /\ OnLines(c, c.ops[i])}

(* Entries below the same key.                                             *)
SameItem(c, o, p) ==
  o.path = p.path /\ (Yaml(c) => (o.written = "hidden" <=> p.written = "hidden"))

ItemOf(c, entry) == {i \in DOMAIN c.ops : SameItem(c, c.ops[i], entry)}

(* The first entry of the first path item whose key seems to be the path.  *)
LocateItem(c, path) ==
  IF Unreadable(c) THEN 0
  ELSE SelectInSeq(c.ops, LAMBDA op : Recognised(c, op) /\ ShownPath(c, op) = path)

(* The place of an operation, looked for in that item only: 0 when the     *)
(* text does not show it there.                                            *)
LocateOperation(c, path, method) ==
  LET item == LocateItem(c, path)
  IN IF item = 0 THEN 0
     ELSE SelectInSeq(c.ops, LAMBDA op : /\ SameItem(c, op, c.ops[item])
                                         /\ op.method = method /\ OnLines(c, op))

HasSchemas(c) == ~ Unreadable(c) /\ (Yaml(c) => c.layout["schemas"] # "absent")

LocateComponent(c, name) ==
  IF HasSchemas(c) THEN SelectInSeq(c.schemas, LAMBDA s : s.name = name /\ (Yaml(c) => ~ s.inline))
  ELSE 0

ShownComponents(c) == {name \in ComponentNames : LocateComponent(c, name) # 0}

-----------------------------------------------------------------------------
(* Metadata and servers.                                                   *)
PatchMetadata(c, field, value) ==
  IF Unreadable(c) \/ (Yaml(c) /\ c.layout["info"] = "absent") THEN Refused(c)
  ELSE Patched(SoundIf([c EXCEPT !.info[field] = value],
                       c.layout["info"] = "block" \/ value = Absent))

(* Both formats take the servers as JSON.                                  *)
PatchServers(c, text) ==
  IF Unreadable(c) \/ text \notin {"empty", "flow"} THEN Refused(c)
  ELSE Patched([c EXCEPT !.servers = text])

-----------------------------------------------------------------------------
(* Operations.                                                             *)
PatchOperation(c, path, method, field, value) ==
  LET at == LocateOperation(c, path, method)
  IN IF at = 0 THEN Refused(c)
     ELSE Patched(SoundIf([c EXCEPT !.ops[at][field] = value],
                          c.ops[at].written # "line" \/ value = Absent))

(* JSON asks for a value; YAML puts the fragment as it is.                 *)
TakesFragment(c, text) == Yaml(c) \/ text \in {"empty", "flow"}

PatchStructured(c, path, method, text) ==
  LET at == LocateOperation(c, path, method)
  IN IF at = 0 \/ ~ TakesFragment(c, text) THEN Refused(c)
     ELSE Patched(SoundIf([c EXCEPT !.ops[at].responses = text],
                          c.ops[at].written # "line" \/ text = "empty"))

(* The entries between two places, and both of these, taken away.          *)
Without(ops, first, last) == SubSeq(ops, 1, first - 1) \o SubSeq(ops, last + 1, Len(ops))

OthersOf_NoPath(c, at) ==
  LET item == ItemOf(c, c.ops[at]) IN Without(c.ops, Min(item), Max(item))

(* A path goes with the last lines below its key: what is written on the   *)
(* line of the key goes too.                                               *)
OthersOf(c, at) ==
  LET item == ItemOf(c, c.ops[at])
      gone == IF Yaml(c) /\ \A i \in item : i = at \/ ~ OnLines(c, c.ops[i]) THEN item ELSE {at}
  IN Without(c.ops, Min(gone), Max(gone))

RemoveOperation(c, path, method) ==
  LET at == LocateOperation(c, path, method)
  IN IF at = 0 THEN Refused(c)
     ELSE Patched([c EXCEPT !.ops = OthersOf(c, at)])

OperationIds(c) == {c.ops[i].operationId : i \in CatalogOperations(c)}

IdTaken(c, id) == id \in OperationIds(c)

(* A path with a colon is written in quotes.                               *)
NewOperation(path, method, id, written) ==
  [path |-> path, method |-> method, operationId |-> id, summary |-> Absent,
   responses |-> "flow", written |-> written]

PathsOf(c) == {c.ops[i].path : i \in DOMAIN c.ops}

(* Below the last line of an item, or below all.                           *)
Placed(c, item, op) ==
  InsertAt(c.ops, (IF item = 0 THEN Len(c.ops) ELSE Max(ItemOf(c, c.ops[item]))) + 1, op)

Added(c, item, path, method, id) ==
  LET op == NewOperation(IF item = 0 THEN path ELSE c.ops[item].path, method, id,
                         IF Yaml(c) /\ path \in ColonPaths THEN "hidden" ELSE "block")
  IN [c EXCEPT !.layout["paths"] = IF @ = "inline" THEN @ ELSE "block",
               !.ops = Placed(c, item, op)]

AddOperation_Twice(c, path, method, id) ==
  IF id = Absent \/ IdTaken(c, id) \/ Unreadable(c) THEN Refused(c)
  ELSE Patched(Added(c, LocateItem(c, path), path, method, id))

(* The operation goes to the first item that seems to have its path, or to *)
(* a new one.  The second key of a path whose first is not seen, and lines *)
(* below an item on the line of its key, or below such paths, break the    *)
(* text.                                                                   *)
AddOperation(c, path, method, id) ==
  LET item == LocateItem(c, path)
      fits == IF item = 0 THEN path \notin PathsOf(c) /\ c.layout["paths"] # "inline"
              ELSE \A i \in ItemOf(c, c.ops[item]) : c.ops[i].written # "item"
  IN IF \/ id = Absent \/ IdTaken(c, id) \/ LocateOperation(c, path, method) # 0
        \/ Unreadable(c)
        \/ Yaml(c) /\ c.layout["paths"] = "absent"
     THEN Refused(c)
     ELSE Patched(SoundIf(Added(c, item, path, method, id), fits))

-----------------------------------------------------------------------------
(* Components.                                                             *)
NewComponent(name, schema, text) ==
  [name |-> name, schema |-> schema, text |-> text, inline |-> FALSE]

WithComponent(c, component) ==
  [c EXCEPT !.layout["schemas"] = IF @ = "inline" THEN @ ELSE "block",
            !.schemas = Append(c.schemas, component)]

AddComponent_BelowInline(c, name, schema, text) ==
  IF name = Absent \/ Unreadable(c) \/ ~ TakesFragment(c, text) \/ LocateComponent(c, name) # 0
  THEN Refused(c)
  ELSE Patched(SoundIf(WithComponent(c, NewComponent(name, schema, text)),
                       c.layout["schemas"] # "empty"))

(* Below an exact {} the category is written anew, below anything else on  *)
(* the line of its key, or of components, the text breaks.                 *)
AddComponent(c, name, schema, text) ==
  LET none == c.layout["schemas"] = "absent"
  IN IF \/ name = Absent \/ Unreadable(c) \/ ~ TakesFragment(c, text)
        \/ LocateComponent(c, name) # 0
        \/ Yaml(c) /\ none /\ c.layout["components"] = "absent"
     THEN Refused(c)
     ELSE Patched(SoundIf(WithComponent(c, NewComponent(name, schema, text)),
                          /\ c.layout["schemas"] # "inline"
                          /\ none => c.layout["components"] = "block"))

PatchComponent(c, name, schema, text) ==
  LET at == LocateComponent(c, name)
  IN IF Unreadable(c) \/ ~ TakesFragment(c, text) \/ (at = 0 /\ Yaml(c)) THEN Refused(c)
     ELSE IF at = 0 THEN AddComponent(c, name, schema, text)
     ELSE Patched([c EXCEPT !.schemas[at] = NewComponent(name, schema, text)])
=============================================================================
