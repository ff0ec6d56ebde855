-------------------------- MODULE WorkflowDocument --------------------------
(***************************************************************************)
(* A workflow draft as the Studio's editors see it.                        *)
(*                                                                         *)
(* The draft of a document is its text.  The form, graph and quick-fix     *)
(* editors never parse a YAML text: they look for lines with patterns, and *)
(* a field written on one line as inline JSON (the way renderYamlField     *)
(* writes a structured value) is opaque to them.  A JSON text they parse.  *)
(* A draft is therefore a record of what the text says and, where an       *)
(* editor goes by it, of the form in which it is written.                  *)
(***************************************************************************)
EXTENDS Integers, Sequences, FiniteSets

CONSTANTS Names,    \* what a state may be called
          DefNames, \* what a function, event or error may be called
          Aliases,  \* what a catalog alias may be called
          None      \* an absent name

Collections == {"functions", "events", "errors"}

Formats == {"yaml", "json"}

BranchFields == {"conditions", "errors"}

InlineFields == BranchFields \cup {"default", "actions"}

Types == {"operation", "switch"}

Labels == DefNames \cup {"true"}

ASSUME NoneAssumption == None \notin Names \cup Labels \cup Aliases

(* What leads to another state: a condition or an error.  The item opens   *)
(* with its condition on one line, or with a condition that is a block of  *)
(* lines below (>-), or it opens with another key.                         *)
Branch == [label : Labels, to : Names,
           written : {"line", "block", "inside"}]

Call == [key : {"refName", "subFlowRef"}, ref : DefNames]

State == [name : Names, type : Types,
          transition : Names \cup {None}, end : BOOLEAN,
          conditions : Seq(Branch), default : Names \cup {None},
          errors : Seq(Branch), actions : Seq(Call),
          event : DefNames \cup {None}, inline : SUBSET InlineFields]

(* `inline` has the fields that a YAML state writes inline, `flow` the     *)
(* collections that a YAML text begins on the line of their key.           *)
Definition == [name : DefNames, alias : Aliases \cup {None}]

Document == [format : Formats, parses : BOOLEAN,
             start : Names \cup {None}, states : Seq(State),
             defs : [Collections -> Seq(Definition)], flow : SUBSET Collections,
             aliases : [Aliases -> DefNames \cup {None}]]

ASSUME DocumentAssumption == None \notin Document

-----------------------------------------------------------------------------
(* What an operation answers: the text it makes, or the text it was given  *)
(* and an error.                                                           *)
Patched(d) == [source |-> d, error |-> FALSE]

Refused(d) == [source |-> d, error |-> TRUE]

(* A JSON text that does not parse has no states and takes no edit.        *)
Unreadable(d) == d.format = "json" /\ ~ d.parses

StatesOf(d) == IF Unreadable(d) THEN << >> ELSE d.states

(* The place of the first state of a name, 0 when there is none.           *)
IndexOf(states, name) ==
  IF \E i \in DOMAIN states : states[i].name = name
  THEN CHOOSE i \in DOMAIN states :
         /\ states[i].name = name
         /\ \A j \in 1 .. i - 1 : states[j].name # name
  ELSE 0

NamesOf(d) == {d.states[i].name : i \in DOMAIN d.states}

UniqueNames(seq) == \A i, j \in DOMAIN seq : seq[i].name = seq[j].name => i = j

(* The editors see a field of a state unless it is inline in a YAML text.  *)
Visible(d, s, field) == d.format = "json" \/ field \notin s.inline

BranchTargets(s, field) == {s[field][i].to : i \in DOMAIN s[field]}

(* Where a state leads, and the part of it the editors see.                *)
Targets(s) ==
  ({s.transition, s.default} \cup BranchTargets(s, "conditions")
                             \cup BranchTargets(s, "errors")) \ {None}

VisibleTargets(d, s) ==
  ({s.transition}
    \cup (IF Visible(d, s, "default") THEN {s.default} ELSE {})
    \cup UNION {BranchTargets(s, f) : f \in {g \in BranchFields : Visible(d, s, g)}})
  \ {None}

AllReferences(d) ==
  ({d.start} \cup UNION {Targets(d.states[i]) : i \in DOMAIN d.states}) \ {None}

References(d) ==
  ({d.start} \cup UNION {VisibleTargets(d, d.states[i]) : i \in DOMAIN d.states}) \ {None}

Dangling(d) == AllReferences(d) \ NamesOf(d)

VisiblyDangling(d) == References(d) \ NamesOf(d)

(* Every start and transition the editors see among the states of I, and   *)
(* the start, that names one state is made to name another.                *)
(* Mutant: the start is forgotten.                                         *)
Redirected_NoStart(d, old, new, I) ==
  LET To(x) == IF x = old THEN new ELSE x
  IN [d EXCEPT !.states = [i \in DOMAIN @ |-> [@[i] EXCEPT !.transition = To(@)]]]

Redirected(d, old, new, I) ==
  LET To(x) == IF x = old THEN new ELSE x
      Branches(s, f) ==
        IF Visible(d, s, f)
        THEN [i \in DOMAIN s[f] |-> [s[f][i] EXCEPT !.to = To(@)]]
        ELSE s[f]
      Rewritten(s) ==
        [s EXCEPT !.transition = To(@),
                  !.default = IF Visible(d, s, "default") THEN To(@) ELSE @,
                  !.conditions = Branches(s, "conditions"),
                  !.errors = Branches(s, "errors")]
  IN [d EXCEPT !.start = To(@),
               !.states = [i \in DOMAIN @ |-> IF i \in I THEN Rewritten(@[i]) ELSE @[i]]]

-----------------------------------------------------------------------------
(* Splicing of sequences, as Array.splice does it.                         *)
Inserted(seq, at, x) ==
  [i \in 1 .. Len(seq) + 1 |-> IF i < at THEN seq[i] ELSE IF i = at THEN x ELSE seq[i - 1]]

Removed(seq, at) ==
  [i \in 1 .. Len(seq) - 1 |-> IF i < at THEN seq[i] ELSE seq[i + 1]]

Swapped(seq, i, j) == [seq EXCEPT ![i] = seq[j], ![j] = seq[i]]

(* Moving an entry past its neighbour; at either end nothing moves.        *)
Moved(seq, i, direction) ==
  LET j == IF direction = "up" THEN i - 1 ELSE i + 1
  IN IF j \in DOMAIN seq THEN Swapped(seq, i, j) ELSE seq
=============================================================================
