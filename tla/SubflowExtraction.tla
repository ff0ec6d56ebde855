-------------------------- MODULE SubflowExtraction --------------------------
(***************************************************************************)
(* Extracting a selection of states into a workflow of its own: the caller *)
(* keeps, in their place, one state that invokes it.                       *)
(***************************************************************************)
EXTENDS DefinitionPatch

CONSTANTS SubflowId,      \* the stable id given to the extracted workflow
          InvocationName, \* the name of the state that invokes it
          NumberedNames   \* the names with a number that stand for a taken one

ASSUME InvocationAssumption ==
  InvocationName \in Names /\ SubflowId \in DefNames /\ NumberedNames \subseteq Names

(* The numbers go on for ever; a finite instance may run out of them.      *)
Numbered(taken) == CHOOSE n \in NumberedNames : n \notin taken

(* The states of the text from the first selected to the last selected, in *)
(* the order of the selection: none when the last stands before the first. *)
Span(d, from, to) ==
  IF from <= to THEN SubSeq(d.states, from, to) ELSE << >>

Uncertain(s) == s.conditions # << >> \/ s.default # None \/ s.errors # << >>

Contiguous(indexes) ==
  \A i, j \in indexes : \A k \in i .. j : k \in indexes

(* The selection is a sequence of names in the order it was made.          *)
Refusal(d, names) ==
  LET at == [k \in DOMAIN names |-> IndexOf(d.states, names[k])]
      picked == [k \in DOMAIN names |-> d.states[at[k]]]
      selected == {names[k] : k \in DOMAIN names}
      first == picked[1]
      last == picked[Len(names)]
      raw == Span(d, at[1], at[Len(names)])
      Arrives(name, from) == \E i \in DOMAIN d.states :
                               d.states[i].transition = name /\ d.states[i].name \in from
  IN \/ Unreadable(d)
     \/ names = << >>
     \/ \E k \in DOMAIN names : at[k] = 0
     \/ ~ Contiguous({at[k] : k \in DOMAIN names})
     \/ \E k \in DOMAIN names : picked[k].type = "switch"
     \/ \E k \in DOMAIN raw : Uncertain(raw[k])
     \/ \E k \in 1 .. Len(names) - 1 : picked[k].transition \notin selected
     \/ ~ last.end /\ last.transition = None
     \/ \E k \in 2 .. Len(names) : Arrives(names[k], NamesOf(d) \ selected)
     \/ d.start # first.name /\ ~ Arrives(first.name, NamesOf(d))

(* The name of the invocation, or a numbered variant when it is taken.     *)
FreeName(taken, base) ==
  IF base \notin taken THEN base ELSE Numbered(taken)

Extracted(d, names) ==
  LET from == IndexOf(d.states, names[1])
      to == IndexOf(d.states, names[Len(names)])
  IN [d EXCEPT !.start = names[1],
               !.states = Span(d, from, to),
               !.defs = [c \in Collections |-> << >>],
               !.flow = {},
               !.aliases = [a \in Aliases |-> None]]

(* Mutant: the workflow ends with the invocation, wherever the range led.  *)
Invocation_Ends(d, names) ==
  [NewState(FreeName(NamesOf(d), InvocationName), "operation")
     EXCEPT !.actions = << [key |-> "subFlowRef", ref |-> SubflowId] >>]

(* The state that invokes the subflow leads where the last selected led.   *)
Invocation(d, names) ==
  LET last == d.states[IndexOf(d.states, names[Len(names)])]
  IN [NewState(FreeName(NamesOf(d), InvocationName), "operation")
        EXCEPT !.actions = << [key |-> "subFlowRef", ref |-> SubflowId] >>,
               !.transition = IF last.end THEN None ELSE last.transition,
               !.end = last.end]

(* The caller: what named the entry names the invocation, and the range is *)
(* replaced by it.                                                         *)
Caller(d, names) ==
  LET from == IndexOf(d.states, names[1])
      to == IndexOf(d.states, names[Len(names)])
      outside == DOMAIN d.states \ (from .. to)
      renamed == Redirected(d, names[1], Invocation(d, names).name, outside)
      rest == IF from <= to THEN to + 1 ELSE from
  IN [renamed EXCEPT !.states =
        SubSeq(@, 1, from - 1) \o << Invocation(d, names) >> \o SubSeq(@, rest, Len(@))]

ExtractStates(d, names) ==
  IF Refusal(d, names)
  THEN [workflow |-> d, subflow |-> d, error |-> TRUE]
  ELSE [workflow |-> Caller(d, names), subflow |-> Extracted(d, names), error |-> FALSE]
=============================================================================
