------------------------------ MODULE QuickFix ------------------------------
(***************************************************************************)
(* The repairs the Issues panel offers for a diagnostic.  The server found *)
(* the diagnostic in the saved text; the repair is made on the draft, in   *)
(* which what the diagnostic names may have changed since.                 *)
(***************************************************************************)
EXTENDS SubflowExtraction

CONSTANT NormalName \* a name without its case and punctuation

(* The pattern of a self-reference finds no key of a compact JSON text.    *)
SelfReferring(d, s, name) == d.format = "yaml" /\ name \in VisibleTargets(d, s)

TerminalStates(d) == {i \in DOMAIN StatesOf(d) : d.states[i].end}

MissingDefaultFix(d, name) ==
  LET i == IndexOf(StatesOf(d), name)
      target == d.states[CHOOSE t \in TerminalStates(d) : TRUE].name
  IN IF i = 0 \/ Cardinality(TerminalStates(d)) # 1 THEN Refused(d)
     ELSE IF target = name THEN Refused(d)
     ELSE SetStateField(d, i, "default", target, TRUE)

(* The name alone is written: what led to it still does.                   *)
RenamedOnly(d, i, name) == Patched([d EXCEPT !.states[i].name = name])

DuplicateStateFix(d, name) ==
  LET states == StatesOf(d)
      first == IndexOf(states, name)
      later == {i \in DOMAIN states : i > first /\ states[i].name = name}
      second == CHOOSE i \in later : \A j \in later : i <= j
  IN IF later = {} THEN Refused(d)
     ELSE IF SelfReferring(d, states[second], name) THEN Refused(d)
     ELSE RenamedOnly(d, second, Numbered(NamesOf(d)))

(* Mutant: the diagnostic is believed and the references not looked at.    *)
UnreachableStateFix_Believes(d, name) ==
  LET i == IndexOf(StatesOf(d), name)
  IN IF i = 0 THEN Refused(d) ELSE Patched([d EXCEPT !.states = Removed(@, i)])

UnreachableStateFix(d, name) ==
  LET i == IndexOf(StatesOf(d), name)
  IN IF i = 0 THEN Refused(d)
     ELSE IF SelfReferring(d, d.states[i], name) THEN Refused(d)
     ELSE DeleteState(d, i)

(* In YAML a repair sees the branches that open with their condition, and  *)
(* of a condition the line it opens: that of every block is the same.      *)
Sees(d, branch) == d.format = "json" \/ branch.written # "inside"

OnItsLine(d, branch) ==
  IF d.format = "yaml" /\ branch.written = "block" THEN None ELSE branch.label

Seen(d, conditions) == {k \in DOMAIN conditions : Sees(d, conditions[k])}

First(places) == CHOOSE k \in places : \A l \in places : k <= l

(* The branch at k, with those below it that are not seen.                 *)
Below(d, conditions, k) ==
  {l \in DOMAIN conditions : k <= l /\ \A m \in Seen(d, conditions) : m <= k \/ l < m}

(* Mutant: the earlier of two equal conditions is removed.                 *)
Repeated_Earlier(d, conditions) ==
  LET again == {k \in Seen(d, conditions) : \E l \in Seen(d, conditions) :
                  k < l /\ OnItsLine(d, conditions[l]) = OnItsLine(d, conditions[k])}
  IN IF again = {} THEN {} ELSE Below(d, conditions, First(again))

(* The branches of a switch a repair removes: the first whose condition    *)
(* repeats that of an earlier one, or what follows the first unconditional *)
(* branch - all of it in YAML, the next one in JSON.                       *)
Repeated(d, conditions) ==
  LET again == {k \in Seen(d, conditions) : \E l \in Seen(d, conditions) :
                  l < k /\ OnItsLine(d, conditions[l]) = OnItsLine(d, conditions[k])}
  IN IF again = {} THEN {} ELSE Below(d, conditions, First(again))

Shadowed(d, conditions) ==
  LET always == {k \in Seen(d, conditions) : OnItsLine(d, conditions[k]) = "true"}
      after == {k \in Seen(d, conditions) : First(always) < k}
  IN IF always = {} \/ after = {} THEN {}
     ELSE IF d.format = "yaml" THEN {k \in DOMAIN conditions : First(after) <= k}
     ELSE {First(after)}

WithoutSpan(seq, span) ==
  LET cut == Cardinality(span)
      at == CHOOSE k \in span : \A l \in span : k <= l
  IN [k \in 1 .. Len(seq) - cut |-> IF k < at THEN seq[k] ELSE seq[k + cut]]

BranchFix(d, name, duplicate) ==
  LET i == IndexOf(StatesOf(d), name)
      s == d.states[i]
      cut == IF duplicate THEN Repeated(d, s.conditions) ELSE Shadowed(d, s.conditions)
  IN IF i = 0 THEN Refused(d)
     ELSE IF ~ Visible(d, s, "conditions") \/ cut = {} THEN Refused(d)
     ELSE Patched([d EXCEPT !.states[i].conditions = WithoutSpan(@, cut)])

Retargeted(d, missing, replacement) ==
  IF missing \notin References(d) THEN Refused(d)
  ELSE Patched(Redirected(d, missing, replacement, DOMAIN d.states))

(* A target that is no state becomes the one state it is another spelling  *)
(* of.                                                                     *)
BrokenReferenceFix(d, missing) ==
  LET states == StatesOf(d)
      candidates == {i \in DOMAIN states : NormalName[states[i].name] = NormalName[missing]}
      replacement == states[CHOOSE i \in candidates : TRUE].name
  IN IF Cardinality(candidates) # 1 THEN Refused(d)
     ELSE IF replacement = missing THEN Refused(d)
     ELSE Retargeted(d, missing, replacement)
=============================================================================
