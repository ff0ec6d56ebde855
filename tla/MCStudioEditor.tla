--------------------------- MODULE MCStudioEditor ---------------------------
(***************************************************************************)
(* Instances of StudioEditor for TLC: two documents, so that the answer of *)
(* a save or a conflict can find another document in the editor.           *)
(***************************************************************************)
EXTENDS StudioEditor, TLC

Symmetry == Permutations(Docs) \cup Permutations(Slots)

\* Bound: once a draft has been put on a revision it was not made from, a behaviour
\* is followed on only while the document selected is the only one touched and at
\* most one save is on its way.
Bound ==
  \/ \A d \in Docs : ~rebased[d]
  \/ /\ \A d \in Docs \ {selected} :
          drafts[d] = None /\ stored[d] = None /\ server[d] = Original(d)
     /\ Cardinality({s \in Slots : saves[s] # None}) <= 1
=============================================================================
