----------------------------- MODULE StatePatch -----------------------------
(***************************************************************************)
(* The operations on the states of a draft: creating, duplicating,         *)
(* renaming, deleting, moving and editing a state, connecting two of them, *)
(* deleting a selection, and setting one field of a state.                 *)
(***************************************************************************)
EXTENDS WorkflowDocument

NameTaken(seq, name, except) ==
  \E i \in DOMAIN seq : i # except /\ seq[i].name = name

NewState(name, type) ==
  [name |-> name, type |-> type, transition |-> None, end |-> TRUE,
   conditions |-> << >>, default |-> None, errors |-> << >>,
   actions |-> << >>, event |-> None, inline |-> {}]

CreateState(d, name, type) ==
  IF Unreadable(d) \/ NameTaken(d.states, name, 0) THEN Refused(d)
  ELSE Patched([d EXCEPT !.states = Append(@, NewState(name, type))])

(* The copy has every field of the original, its transitions included.     *)
DuplicateState(d, i, name) ==
  IF Unreadable(d) \/ NameTaken(d.states, name, i) THEN Refused(d)
  ELSE Patched([d EXCEPT !.states = Inserted(@, i + 1, [@[i] EXCEPT !.name = name])])

(* Mutant: the name is not looked for among the other states.              *)
RenameState_Unchecked(d, i, name) ==
  IF Unreadable(d) THEN Refused(d)
  ELSE Patched(Redirected([d EXCEPT !.states[i].name = name],
                          d.states[i].name, name, DOMAIN d.states))

RenameState(d, i, name) ==
  IF Unreadable(d) \/ NameTaken(d.states, name, i) THEN Refused(d)
  ELSE Patched(Redirected([d EXCEPT !.states[i].name = name],
                          d.states[i].name, name, DOMAIN d.states))

(* Mutant: only the start and the direct transitions are looked at.        *)
DeleteState_Direct(d, i) ==
  IF \/ Unreadable(d)
     \/ d.states[i].name = d.start
     \/ \E j \in DOMAIN d.states : d.states[j].transition = d.states[i].name
  THEN Refused(d)
  ELSE Patched([d EXCEPT !.states = Removed(@, i)])

DeleteState(d, i) ==
  IF Unreadable(d) \/ d.states[i].name \in References(d) THEN Refused(d)
  ELSE Patched([d EXCEPT !.states = Removed(@, i)])

MoveState(d, i, direction) ==
  IF Unreadable(d) THEN Refused(d)
  ELSE Patched([d EXCEPT !.states = Moved(@, i, direction)])

(* Mutant: an end that is cleared becomes an absent name.                  *)
EditState_NoEnd(d, i, field, value) ==
  Patched([d EXCEPT !.states[i][field] =
             IF field = "end" THEN IF value THEN TRUE ELSE None ELSE value])

EditState(d, i, field, value) ==
  IF Unreadable(d) THEN Refused(d)
  ELSE Patched([d EXCEPT !.states[i][field] = value])

ConnectStates(d, from, to) ==
  LET i == IndexOf(StatesOf(d), from)
  IN IF from = to \/ i = 0 \/ IndexOf(StatesOf(d), to) = 0 THEN Refused(d)
     ELSE EditState(d, i, "transition", to)

(* From the last index to the first, each deletion made on the text the    *)
(* one before it left; the first refusal gives the text back untouched.    *)
DeleteStates(d, names) ==
  LET states == StatesOf(d)
      chosen == {IndexOf(states, n) : n \in names}
      n == Len(states)
      Down[k \in 0 .. n] ==
        IF k = 0 THEN Patched(d)
        ELSE LET i == n - k + 1
             IN IF Down[k - 1].error \/ i \notin chosen THEN Down[k - 1]
                ELSE DeleteState(Down[k - 1].source, i)
  IN IF names = {} \/ 0 \in chosen \/ Down[n].error THEN Refused(d) ELSE Down[n]

(* A field of a state is replaced by what the user wrote.  In YAML, JSON   *)
(* text is written on one line and a YAML text as a block; an empty text   *)
(* removes the field.                                                      *)
SetStateField(d, i, field, value, asJson) ==
  IF i \notin DOMAIN StatesOf(d) THEN Refused(d)
  ELSE LET absent == value \in {None, << >>}
       IN Patched([d EXCEPT !.states[i][field] = value,
                            !.states[i].inline =
                               IF asJson /\ ~ absent /\ field \in InlineFields
                               THEN @ \cup {field} ELSE @ \ {field}])

-----------------------------------------------------------------------------
(* The calls of other workflows a state makes: the one chosen is given the *)
(* target, and when there is none of that index a call is added.  In YAML  *)
(* an inline list of actions hides its calls, and the new call is written  *)
(* as a list under the line the inline one is on.                          *)
SubflowCalls(d, s) ==
  IF Visible(d, s, "actions")
  THEN {k \in DOMAIN s.actions : s.actions[k].key = "subFlowRef"}
  ELSE {}

PatchSubflow(d, i, nth, target) ==
  IF i \notin DOMAIN StatesOf(d) THEN Refused(d)
  ELSE LET s == d.states[i]
           calls == SubflowCalls(d, s)
           chosen == {k \in calls : Cardinality({l \in calls : l < k}) = nth}
       IN IF chosen # {}
          THEN Patched([d EXCEPT !.states[i].actions =
                 [k \in DOMAIN @ |-> IF k \in chosen THEN [@[k] EXCEPT !.ref = target] ELSE @[k]]])
          ELSE IF Visible(d, s, "actions")
          THEN Patched([d EXCEPT !.states[i].actions =
                                    Append(@, [key |-> "subFlowRef", ref |-> target])])
          ELSE Patched([d EXCEPT !.parses = FALSE])
=============================================================================
