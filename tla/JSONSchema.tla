----------------------------- MODULE JSONSchema -----------------------------
(***************************************************************************)
(* validateSchemaValue (metric/jsonschema.go): the part of JSON Schema the *)
(* SchemaCompliance metric knows, and what that part means in JSON Schema. *)
(*                                                                         *)
(* A schema has                                                            *)
(*   broken      it does not decode into schemaShape, or its type is       *)
(*               neither a string nor an array of strings                  *)
(*   types       its type; {} if absent or an empty array                  *)
(*   required    a set of names                                            *)
(*   properties  a function from names to schemas                          *)
(*   items       a sequence of one schema, or empty                        *)
(*   additional  "absent", "true" or "false"                               *)
(***************************************************************************)
EXTENDS JSONValues

CONSTANTS
  Shapes,     \* the schemas, and those below them
  ShapeDepth  \* how deep schemas are nested in each

\* The schemas of properties and items.
Subschemas(schema) == Range(schema.items) \cup Range(schema.properties)

\* Decoded schemas are finite trees.
ASSUME ShapesAssumption ==
  /\ ShapeDepth \in [Shapes -> Nat]
  /\ \A schema \in Shapes :
       /\ schema.broken \in BOOLEAN
       /\ schema.items \in {<<>>} \cup {<<item>> : item \in Shapes}
       /\ schema.properties \in [DOMAIN schema.properties -> Shapes]
       /\ \A below \in Subschemas(schema) :
            ShapeDepth[below] < ShapeDepth[schema]

AnySchema ==
  [broken |-> FALSE, types |-> {}, required |-> {}, properties |-> <<>>,
   items |-> <<>>, additional |-> "absent"]

\* matchesJSONType
MatchesJSONType(value, type) ==
  \/ type = "integer" /\ IsInteger(value)
  \/ /\ type \in {"null", "object", "array", "string", "boolean", "number"}
     /\ type = value.kind

\* Mutant of AsksForObject: additionalProperties by itself asks for nothing.
AsksForObjectByNames(schema) ==
  DOMAIN schema.properties # {} \/ schema.required # {}

\* Keywords of objects make the schema one of objects.
AsksForObject(schema) ==
  \/ DOMAIN schema.properties # {}
  \/ schema.required # {}
  \/ schema.additional # "absent"

\* The values in which validateSchemaValue finds no error.  A broken schema
\* below is only met when there is a value for it.
Accepted[schema \in Shapes] ==
  { value \in JSON :
      /\ ~schema.broken
      /\ schema.types # {} => \E t \in schema.types : MatchesJSONType(value, t)
      /\ AsksForObject(schema) =>
           /\ value.kind = "object"
           /\ schema.required \subseteq DOMAIN value.fields
           /\ \A name \in DOMAIN schema.properties \cap DOMAIN value.fields :
                value.fields[name] \in Accepted[schema.properties[name]]
           /\ schema.additional = "false" =>
                DOMAIN value.fields \subseteq DOMAIN schema.properties
      /\ schema.items # <<>> =>
           /\ value.kind = "array"
           /\ \A i \in DOMAIN value.items :
                value.items[i] \in Accepted[schema.items[1]] }

-----------------------------------------------------------------------------
(* References *)

\* A schema JSON Schema has a meaning for.
WellFormed[schema \in Shapes] ==
  /\ ~schema.broken
  /\ schema.types \subseteq {"null", "object", "array", "string", "boolean",
                             "number", "integer"}
  /\ \A below \in Subschemas(schema) : WellFormed[below]

\* Keywords of objects and arrays stand beside the type they are for, alone.
StatesItsTypes[schema \in Shapes] ==
  /\ AsksForObject(schema) => schema.types = {"object"}
  /\ schema.items # <<>> => schema.types = {"array"}
  /\ \A below \in Subschemas(schema) : StatesItsTypes[below]

\* A number that cannot be read counts as none.
Mistyped(schema, value) ==
  /\ schema.types # {}
  /\ value.kind \notin schema.types
  /\ ~("integer" \in schema.types /\ IsInteger(value))

\* The faults JSON Schema finds in each value, each fault at its path; a keyword
\* finds none in values of another kind than it is about.
Faults[schema \in Shapes] ==
  [value \in JSON |->
     LET fields == IF value.kind = "object" THEN value.fields ELSE <<>>
         items  == IF value.kind = "array" /\ schema.items # <<>>
                   THEN value.items ELSE <<>>
     IN  (IF Mistyped(schema, value) THEN {<<"type">>} ELSE {})
         \cup (IF value.kind # "object" THEN {}
               ELSE {<<"required", name>> :
                       name \in schema.required \ DOMAIN fields})
         \cup (IF schema.additional # "false" THEN {}
               ELSE {<<"additional", name>> :
                       name \in DOMAIN fields \ DOMAIN schema.properties})
         \cup (UNION {{<<name>> \o fault :
                         fault \in Faults[schema.properties[name]][fields[name]]} :
                      name \in DOMAIN schema.properties \cap DOMAIN fields})
         \cup (UNION {{<<"item">> \o fault :
                         fault \in Faults[schema.items[1]][items[i]]} :
                      i \in DOMAIN items})]
=============================================================================
