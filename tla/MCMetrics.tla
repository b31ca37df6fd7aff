------------------------------ MODULE MCMetrics ------------------------------
(* Judge numbers on both sides of [0,1] and at its ends, and some whose sums
   and complements are not exact, in twentieths; small schemas, JSON values and
   paths; counts on both sides of each bound.

   21 bits stand for the 53 of float64: a twentieth has a binary period of
   four and 53 - 21 is a multiple of four, so the twentieths, their sums and
   the quotients of these round as they do there. *)
EXTENDS Metrics

MCNumbers == {-1, 0, 2, 14, 15, 20, 21}

MCAtoi == [p \in {"0", "1", "01", "-1"} |->
             CASE p = "0" -> 0 [] p \in {"1", "01"} -> 1 [] p = "-1" -> -1]

MCArguments(m) ==
  CASE m = "g_eval" -> {"good", "blank"}
    [] m = "expected_regex" -> {"good", "blank", "broken"}
    [] OTHER -> {"none"}

-----------------------------------------------------------------------------
(* JSON *)

OneNumber == JSONNumber(1, 0)

Leaves ==
  {JSONNull, JSONBool(TRUE), JSONString("x"), OneNumber, JSONNumber(10, 1),
   JSONNumber(15, 1), JSONNumber(1, -1), JSONNumber(-100, 2), JSONNumber(0, 1),
   JSONUnreadable("1e99999999999999999999")}

Inner ==
  {JSONArray(<<>>), JSONArray(<<OneNumber, JSONString("x")>>),
   JSONObject(<<>>), JSONObject([b |-> JSONNumber(10, 1)]),
   JSONObject([a |-> JSONNull, b |-> OneNumber])}

Values ==
  Leaves \cup Inner
  \cup {JSONObject([a |-> v]) : v \in Leaves \cup Inner}
  \cup {JSONArray(<<v>>) : v \in {OneNumber, JSONNull} \cup Inner}
  \cup {JSONArray(<<JSONNumber(15, 1), v>>) : v \in {JSONNull} \cup Inner}

MCJSONDepth[v \in Values] ==
  IF Parts(v) = {} THEN 0 ELSE 1 + Max({MCJSONDepth[part] : part \in Parts(v)})

-----------------------------------------------------------------------------
(* Schemas *)

Typed(types) == [AnySchema EXCEPT !.types = types]

Broken == [AnySchema EXCEPT !.broken = TRUE]

LeafSchemas ==
  {AnySchema, Typed({"integer"}), Typed({"number"}), Typed({"string", "null"}),
   Typed({"mystery"}), Broken,
   [Typed({"object"}) EXCEPT !.required = {"b"}],
   [AnySchema EXCEPT !.additional = "true"]}

Properties == {<<>>} \cup {[a |-> s] : s \in LeafSchemas}
                     \cup {[a |-> AnySchema, b |-> Typed({"integer"})]}

MCSchemas ==
  LeafSchemas \cup
  [broken : {FALSE}, types : {{}, {"object"}, {"object", "null"}, {"boolean"}},
   required : {{}, {"a"}}, properties : Properties, items : {<<>>},
   additional : {"absent", "true", "false"}]
  \cup
  [broken : {FALSE}, types : {{}, {"array"}, {"array", "object"}},
   required : {{}}, properties : {<<>>}, items : {<<s>> : s \in LeafSchemas},
   additional : {"absent", "false"}]

MCShapeDepth == [s \in MCSchemas |-> IF Subschemas(s) = {} THEN 0 ELSE 1]

-----------------------------------------------------------------------------
(* Expected fields *)

Paths == {<<>>, <<"a">>, <<"b">>, <<"0">>, <<"01">>, <<"-1">>, <<"a", "b">>,
          <<"a", "0">>, <<"0", "b">>, <<"a", "b", "b">>}

Field(path, expected) == [path |-> path, expected |-> expected]

MCFields ==
  {<<>>} \cup
  {<<Field(p, v)>> : p \in Paths, v \in Leaves \cup Inner \cup {NotJSON}} \cup
  {<<Field(<<"a">>, v), Field(p, OneNumber)>> :
     p \in Paths, v \in {OneNumber, JSONNull}}

-----------------------------------------------------------------------------

Threshold(t) == [threshold |-> t]

Nil == [nil |-> TRUE]

JudgeOptions ==
  {<<Threshold(t)>> : t \in {0, 4, 12, 14, 15, 20, 21}} \cup {<<Nil>>}

\* Several options: the last counts, an error stays.
Common == {<<Threshold(20)>>, <<Threshold(0), Nil, Threshold(10)>>,
           <<Threshold(-1), Threshold(10)>>}

Bounds == {-1, 1, 3}

MCOptionLists(m) ==
  CASE m \in Metric -> JudgeOptions
    [] m = "schema_compliance" ->
         {<<>>, <<[schema |-> NotJSON], [schema |-> AnySchema]>>} \cup
         {<<[schema |-> s]>> : s \in MCSchemas}
    [] m = "expected_json" ->
         {<<>>} \cup {<<[expectedFields |-> f], Threshold(10)>> : f \in MCFields}
    [] m = "latency" ->
         Common \cup {<<[maxLatency |-> d]>> : d \in Bounds}
    [] m = "answer_length" ->
         Common \cup {<<[minLength |-> n]>> : n \in Bounds}
                \cup {<<[maxLength |-> n]>> : n \in Bounds}
                \cup {<<[minLength |-> a], [maxLength |-> b], [minLength |-> c]>> :
                        a, b, c \in Bounds}
    [] OTHER -> Common

Words == {"one", "two", "three"}

MCSubjects(m) ==
  CASE m \in JSONMetric -> [json : Values \cup {NotJSON}]
    [] m = "answer_similarity" ->
         [answer : SUBSET Words, expected : SUBSET Words, blank : {FALSE}]
         \cup [answer : SUBSET Words, expected : {{}}, blank : {TRUE}]
    [] m = "latency" -> [elapsed : 0 .. 4]
    [] m = "answer_length" -> [length : 0 .. 4]
    [] m = "expected_regex" -> [matches : BOOLEAN]
=============================================================================
