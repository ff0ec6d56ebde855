---------------------------- MODULE WorkflowGraph ----------------------------
(***************************************************************************)
(* The graph the Studio draws of a draft.  A JSON draft is parsed.  Of a   *)
(* YAML draft only the start and the name, type, direct transition and end *)
(* of each state are read; its branches are those the state of that name   *)
(* has in the saved document, which the server parsed.                     *)
(***************************************************************************)
EXTENDS QuickFix

CONSTANTS StartNode, \* the node the workflow starts from
          EndNode    \* the node in which states end

ASSUME NodesAssumption ==
  StartNode \notin Names /\ EndNode \notin Names /\ StartNode # EndNode

Last(states, name) ==
  CHOOSE i \in DOMAIN states :
    /\ states[i].name = name
    /\ \A j \in i + 1 .. Len(states) : states[j].name # name

(* The state of the saved document a state of the draft is drawn with.     *)
(* Mutant: the direct transition too comes from the saved document.        *)
Projected_Stale(s, saved) ==
  LET canonical == IF \E i \in DOMAIN saved.states : saved.states[i].name = s.name
                   THEN saved.states[Last(saved.states, s.name)]
                   ELSE s
  IN [canonical EXCEPT !.type = s.type]

Projected(s, saved) ==
  LET canonical == IF \E i \in DOMAIN saved.states : saved.states[i].name = s.name
                   THEN saved.states[Last(saved.states, s.name)]
                   ELSE NewState(s.name, s.type)
  IN [canonical EXCEPT !.type = s.type, !.transition = s.transition, !.end = s.end]

ShownStates(d, saved) ==
  IF d.format = "json"
  THEN IF d.parses THEN d.states ELSE saved.states
  ELSE [i \in DOMAIN d.states |-> Projected(d.states[i], saved)]

ShownStart(d, saved) == IF Unreadable(d) THEN saved.start ELSE d.start

(* States of one name all show the direct transition of the last of them.  *)
ShownTransition(d, s) ==
  IF Unreadable(d) THEN s.transition ELSE d.states[Last(d.states, s.name)].transition

Edge(from, to, kind) == [from |-> from, to |-> to, kind |-> kind]

(* A state called End is drawn as the end of the workflow.                 *)
NodeOf(target) == IF target = "End" THEN EndNode ELSE target

EdgesFrom(s, transition) ==
  LET To(targets, kind) == {Edge(s.name, t, kind) : t \in targets \ {None}}
  IN To({transition}, "transition")
     \cup To(BranchTargets(s, "conditions"), "conditional")
     \cup To({s.default}, "default")
     \cup To(BranchTargets(s, "errors"), "error")
     \cup (IF s.end THEN {Edge(s.name, EndNode, "terminal")} ELSE {})

Edges(d, saved) ==
  LET shown == ShownStates(d, saved)
      start == ShownStart(d, saved)
  IN (IF start = None THEN {} ELSE {Edge(StartNode, start, "start")})
     \cup {Edge(e.from, NodeOf(e.to), e.kind) : e \in
              UNION {EdgesFrom(shown[i], ShownTransition(d, shown[i])) : i \in DOMAIN shown}}

Nodes(d, saved) ==
  {StartNode} \cup {ShownStates(d, saved)[i].name : i \in DOMAIN ShownStates(d, saved)}
              \cup {e.to : e \in Edges(d, saved)}

(* Breadth-first from the start: what the first k rounds of the queue have *)
(* reached, and the layer in which a node is drawn.                        *)
Reached(edges) ==
  LET R[k \in 0 .. Cardinality(edges)] ==
        IF k = 0 THEN {StartNode}
        ELSE LET before == R[k - 1]
             IN before \cup {e.to : e \in {f \in edges : f.from \in before}}
  IN [k \in 0 .. Cardinality(edges) |-> R[k]]

Reachable(edges) == Reached(edges)[Cardinality(edges)]

(* Mutant: a node met again is moved to the later layer.                   *)
LayerOf_Latest(edges, node) ==
  LET rounds == {k \in DOMAIN Reached(edges) : node \in {e.to : e \in
                   {f \in edges : f.from \in Reached(edges)[k]}}}
  IN IF rounds = {} THEN 0 ELSE 1 + (CHOOSE k \in rounds : \A l \in rounds : l <= k)

LayerOf(edges, node) ==
  LET reached == Reached(edges)
      rounds == {k \in DOMAIN reached : node \in reached[k]}
      deepest == {k \in DOMAIN reached : k = 0 \/ reached[k] # reached[k - 1]}
  IN IF rounds # {} THEN CHOOSE k \in rounds : \A l \in rounds : k <= l
     ELSE 1 + (CHOOSE k \in deepest : \A l \in deepest : l <= k)

(* The states the graph marks as unreachable, and the targets it marks as  *)
(* missing.                                                                *)
Unreachable(d, saved) ==
  {ShownStates(d, saved)[i].name : i \in DOMAIN ShownStates(d, saved)}
    \ Reachable(Edges(d, saved))

Missing(d, saved) ==
  {e.to : e \in Edges(d, saved)}
    \ ({ShownStates(d, saved)[i].name : i \in DOMAIN ShownStates(d, saved)} \cup {EndNode})
=============================================================================
