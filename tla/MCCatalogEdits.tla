---------------------------- MODULE MCCatalogEdits ----------------------------
(* Catalogs in both formats: two operations and a component; the template  *)
(* of a new catalog; several written inline, or with a path with a colon,  *)
(* where the form does not expect it.                                      *)
EXTENDS CatalogPreview

Plain(shape) == [shape |-> shape, ref |-> Absent, props |-> << >>, parts |-> << >>]

Ref(name) == [Plain("ref") EXCEPT !.ref = name]

Both(s, t) == [Plain("object") EXCEPT !.props = ("p" :> s) @@ ("q" :> t)]

Of(shape, parts) == [Plain(shape) EXCEPT !.parts = parts]

MCSchemas ==
  {Plain("string"), Plain("given"), Ref("A"), Ref("B"), Both(Ref("B"), Ref("B")),
   Of("array", << Ref("A") >>), Of("oneOf", << Ref("B"), Plain("string") >>),
   Of("allOf", << Ref("A"), Both(Ref("B"), Ref("B")) >>)}

MCComponentTexts ==
  {<< s, "flow" >> : s \in MCSchemas} \cup {<< Plain("string"), t >> : t \in Fragments}

Op(path, method, id, written) == NewOperation(path, method, id, written)

Fields(path) == Op(path, Absent, Absent, "block")

MCCutOff == "/a:b" :> "/a"

Full(format) ==
  [format |-> format, sound |-> TRUE, layout |-> [p \in Parts |-> "block"],
   info |-> [f \in InfoFields |-> "t"], servers |-> "flow",
   ops |-> << Fields("/a"), Op("/a", "get", "x", "block"), Op("/a", "post", "y", "block") >>,
   schemas |-> << NewComponent("A", Plain("string"), "flow") >>]

Template ==
  [Full("yaml") EXCEPT !.layout = [p \in Parts |-> CASE p = "paths" -> "empty"
                                                     [] p = "info" -> "block"
                                                     [] OTHER -> "absent"],
                       !.ops = << >>, !.schemas = << >>]

Terse ==
  [Full("yaml") EXCEPT !.layout = [p \in Parts |-> CASE p = "paths" -> "block"
                                                     [] p = "schemas" -> "absent"
                                                     [] OTHER -> "inline"],
                       !.info = [f \in InfoFields |-> Absent],
                       !.ops = << Op("/a", "get", Absent, "line") >>,
                       !.schemas = << [NewComponent("A", Plain("string"), "flow")
                                       EXCEPT !.inline = TRUE] >>]

Category(layout, schemas) ==
  [Full("yaml") EXCEPT !.layout["schemas"] = layout, !.ops = << >>, !.schemas = schemas]

Written(ops) == [Full("yaml") EXCEPT !.ops = ops, !.schemas = << >>]

Items ==
  {<< Op("/a", "get", "x", "item") >>,
   << Op("/a:b", "get", "x", "block"), Op("/a", "get", "y", "block") >>,
   << Op("/a:b", "get", "x", "hidden"), Op("/a", "post", "y", "block") >>}

MCSeeds ==
  {Full("yaml"), Full("json"), [Full("json") EXCEPT !.sound = FALSE], Template, Terse,
   Category("empty", << >>),
   Category("inline", << [NewComponent("A", Plain("string"), "flow") EXCEPT !.inline = TRUE] >>)}
  \cup {Written(ops) : ops \in Items}
  \cup {[Written(<< Op("/a", "get", "x", "hidden") >>) EXCEPT !.layout["paths"] = "inline"]}
=============================================================================
