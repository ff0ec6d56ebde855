---------------------------- MODULE CatalogPreview ----------------------------
(***************************************************************************)
(* The examples the catalog form makes up from the schemas of a catalog,   *)
(* following references between its components, and what it means for a    *)
(* value to be an example of a schema.                                     *)
(*                                                                         *)
(* A schema is a record: its shape, the component a reference names, its   *)
(* properties, and its parts (the items of an array, the alternatives of   *)
(* oneOf and anyOf, the parts of allOf).  A value has a shape, properties  *)
(* and items.  The limit of forty properties is left out.                  *)
(***************************************************************************)
EXTENDS CatalogEdits, TLC

Value(shape, props, parts) == [shape |-> shape, props |-> props, parts |-> parts]

Undefined == Value("undefined", << >>, << >>)

EmptyObject == Value("object", << >>, << >>)

(* The component a reference names, as the parsed document has it.         *)
Resolved(c, name) ==
  IF \E i \in DOMAIN c.schemas : c.schemas[i].name = name
  THEN LET i == CHOOSE i \in DOMAIN c.schemas : c.schemas[i].name = name
       IN << c.schemas[i].schema >>
  ELSE << >>

(* One part of an allOf after another: an object adds its properties, what *)
(* is not an object counts only when nothing came before it.               *)
Merged(result, value) ==
  IF value.shape = "object"
  THEN << Value("object",
                IF result = << >> THEN value.props ELSE value.props @@ result[1].props, << >>) >>
  ELSE IF result # << >> \/ value = Undefined THEN result
  ELSE << Value("object", "value" :> value, << >>) >>

Followed_Anywhere(seen, name) == ComponentNames

(* References followed on the way to a schema are followed no more.        *)
Followed(seen, name) == seen \cup {name}

ExampleOf(c, schema) ==
  LET example[s \in Schemas, seen \in SUBSET ComponentNames] ==
        LET of(t) == example[t, seen]
        IN CASE s.shape = "ref" ->
                  IF s.ref \in seen THEN EmptyObject
                  ELSE IF Resolved(c, s.ref) = << >> THEN Undefined
                  ELSE example[Resolved(c, s.ref)[1], Followed(seen, s.ref)]
             [] s.shape = "oneOf" -> of(s.parts[1])
             [] s.shape = "allOf" ->
                  LET merged == FoldLeft(Merged, << >>, [i \in DOMAIN s.parts |-> of(s.parts[i])])
                  IN IF merged = << >> THEN Value("string", << >>, << >>) ELSE merged[1]
             [] s.shape = "object" ->
                  LET shown == {p \in DOMAIN s.props : of(s.props[p]) # Undefined}
                  IN Value("object", [p \in shown |-> of(s.props[p])], << >>)
             [] s.shape = "array" ->
                  Value("array", << >>,
                        SelectSeq(<< of(s.parts[1]) >>, LAMBDA item : item # Undefined))
             [] OTHER -> Value(s.shape, << >>, << >>)
  IN example[schema, {}]

-----------------------------------------------------------------------------
(* Where the example of a payload comes from: its media type may give one, *)
(* whatever its schema says.                                               *)
Payload == [given : BOOLEAN, schema : Schemas]

ExampleSource(c, payload) ==
  IF payload.given THEN "explicit"
  ELSE IF ExampleOf(c, payload.schema) = Undefined THEN "none" ELSE "generated"

-----------------------------------------------------------------------------
(* The schemas a schema is made of, those behind references included.      *)
Within(schema) ==
  LET within[s \in Schemas] ==
        {s} \cup UNION {within[s.props[p]] : p \in DOMAIN s.props}
            \cup UNION {within[s.parts[i]] : i \in DOMAIN s.parts}
  IN within[schema]

Direct(c, schemas) ==
  UNION {Range(Resolved(c, s.ref)) : s \in {t \in schemas : t.shape = "ref"}}

Reached(c, schema) ==
  LET reached[k \in 0 .. Cardinality(ComponentNames)] ==
        IF k = 0 THEN Within(schema)
        ELSE reached[k - 1] \cup UNION {Within(s) : s \in Direct(c, reached[k - 1])}
  IN reached[Cardinality(ComponentNames)]

OnCycle(c, name) ==
  \E target \in Range(Resolved(c, name)), s \in Schemas :
    /\ s \in Reached(c, target)
    /\ s.shape = "ref" /\ s.ref = name

(* Whether a value is an example of a schema.  Of a schema that refers to  *)
(* itself an example ends somewhere, with an empty object; of a missing    *)
(* component anything is one.  Names already followed for the value itself *)
(* say nothing more about it.                                              *)
RECURSIVE Conforms(_, _, _, _)
Conforms(c, value, s, seen) ==
  CASE s.shape = "ref" ->
         \/ s.ref \in seen
         \/ value = EmptyObject /\ OnCycle(c, s.ref)
         \/ \A target \in Range(Resolved(c, s.ref)) : Conforms(c, value, target, seen \cup {s.ref})
    [] s.shape = "oneOf" -> \E i \in DOMAIN s.parts : Conforms(c, value, s.parts[i], seen)
    [] s.shape = "allOf" -> \A i \in DOMAIN s.parts : Conforms(c, value, s.parts[i], seen)
    [] s.shape = "object" ->
         /\ value.shape = "object"
         /\ \A p \in DOMAIN value.props \cap DOMAIN s.props :
              Conforms(c, value.props[p], s.props[p], {})
    [] s.shape = "array" ->
         /\ value.shape = "array"
         /\ \A i \in DOMAIN value.parts : Conforms(c, value.parts[i], s.parts[1], {})
    [] OTHER -> value.shape = s.shape

(* The parts of every allOf in sight are objects.                          *)
Mergeable(c, schema) ==
  \A s \in Reached(c, schema) :
    s.shape = "allOf" =>
      \A i \in DOMAIN s.parts : ExampleOf(c, s.parts[i]).shape \in {"object", "undefined"}

(* What is offered as generated from the schema of a payload is an example *)
(* of that schema, whatever components it and they refer to                *)
(* (catalog-preview.ts exampleFromSchema).  It is what a card of the form  *)
(* shows when it is first drawn and when its example is made again: in     *)
(* between the card keeps its text though the catalog is saved with other  *)
(* schemas.  Only an allOf with a part that is no object, such as one      *)
(* around a reference to a string, gets an object nobody asked for.        *)
ExamplesConform ==
  Readable(saved) =>
    \A payload \in Payload :
      ExampleSource(saved, payload) = "generated" /\ Mergeable(saved, payload.schema) =>
        Conforms(saved, ExampleOf(saved, payload.schema), payload.schema, {})
=============================================================================
