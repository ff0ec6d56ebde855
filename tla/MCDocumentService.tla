------------------------- MODULE MCDocumentService -------------------------
(***************************************************************************)
(* Instances of DocumentService for TLC: a workspace of three workflow     *)
(* paths and four catalog paths, and the requests its clients send.         *)
(***************************************************************************)
EXTENDS DocumentService

MCNames == {"a", "b", "c", "ab", "bb"}

Source(n, rs, b) == [name |-> n, refs |-> rs, body |-> b]

\* A subFlowRef with a comment behind it.
Commented(r) == [r EXCEPT !.found = {}]

\* Catalog 6 is at a path that ends with that of catalog 4, which is renamed 5, under an
\* alias that ends with 4's.  Its operation begins with that of 4, which is renamed b.
MCAliasTails == {<<4, 6>>}
MCPathSplice ==
  [pq \in Paths \X Paths |->
     [x \in Paths |-> IF x = pq[1] THEN pq[2] ELSE IF pq = <<4, 5>> /\ x = 6 THEN 7 ELSE x]]
MCNameSplice ==
  [nm \in Ids \X Ids |->
     [x \in Ids |-> IF x = nm[1] THEN nm[2] ELSE IF nm = <<"a", "b">> /\ x = "ab" THEN "bb" ELSE x]]

\* 1 calls nobody; 2 calls 1 by path and by id, and an operation of catalog 4.
MCWorkspace ==
  [p \in Paths |->
      CASE p = 1 -> Source("a", {}, 0)
        [] p = 2 -> Source("b", {Ref(1, NoName), Ref(NoPath, "a"), Ref(4, "a")}, 0)
        [] p = 4 -> Source("a", {}, 0)
        [] OTHER -> Absent]

\* 2 calls 1 by its id, with a comment behind it, and operations of 4 and 6.
MCOverlapping ==
  [MCWorkspace EXCEPT ![2] = Source("b", {Commented(Ref(NoPath, "a")), Ref(4, "a"), Ref(6, "ab")}, 0),
                      ![6] = Source("ab", {}, 0)]

MCWorkspaces == {MCWorkspace, MCOverlapping}

Asked(op, p, q, c, m, accept, e) ==
  [op |-> op, kind |-> KindOf(p), path |-> p, to |-> q, content |-> c, match |-> m,
   accept |-> accept, entry |-> e]

Blank == Source("c", {}, 0)

Create(p, c) == Asked("create", p, p, c, "any", FALSE, 1)
Update(p, c, m) == Asked("update", p, p, c, m, FALSE, 1)
Rename(p, q, m) == Asked("rename", p, q, Blank, m, FALSE, 1)
Delete(p, m, accept) == Asked("delete", p, p, Blank, m, accept, 1)
Restore(e, m) == Asked("restore", 1, 1, Blank, m, FALSE, e)

MCRequests ==
  { Create(3, Source("c", {Ref(NoPath, "b")}, 0)),
    Create(1, Source("a", {Ref(NoPath, "c")}, 0)),
    Update(1, Source("a", {Ref(NoPath, "c")}, 0), "current"),
    Update(1, Source("c", {Ref(NoPath, "a")}, 0), "current"),
    Update(1, Source("c", {Ref(NoPath, "b")}, 0), "current"),
    Update(1, Source("c", {}, 1), "any"),
    Update(2, Source("b", {}, 0), "stale"),
    Update(4, Source("b", {}, 0), "current"),
    Update(2, Source("b", {}, 0), "blank"),
    Rename(1, 3, "current"), Rename(1, 2, "any"), Rename(4, 5, "current"),
    Delete(1, "current", FALSE), Delete(1, "current", TRUE), Delete(2, "current", FALSE),
    Restore(1, "any"), Restore(2, "any"), Restore(1, "blank"),
    [Create(5, Source("c", {Ref(NoPath, "b")}, 0)) EXCEPT !.kind = "workflow"] }
=============================================================================
