----------------------------- MODULE JSONValues -----------------------------
(***************************************************************************)
(* Decoded JSON values (metric/jsonschema.go) and what the deterministic   *)
(* metrics do with them: compare them, number by number in exact           *)
(* arithmetic, and find one by a dotted path.                              *)
(*                                                                         *)
(* Every kind of value has fields of its own.  A number is the digits it   *)
(* is written with, moved by a decimal scale: 1.0 and 1 are digits 10 and  *)
(* 1 with scales 1 and 0.  An exponent that strconv.Atoi does not read     *)
(* makes it unreadable.                                                    *)
(***************************************************************************)
EXTENDS Integers, SequencesExt

CONSTANTS
  Atoi,      \* strconv.Atoi on the parts of paths it can read
  JSON,      \* the values decodeJSONValue may return
  JSONDepth, \* how deep arrays and objects are nested in each
  MaxDigits  \* bound on the digits a number is written with

ASSUME AtoiAssumption ==
  DOMAIN Atoi \subseteq STRING /\ \A part \in DOMAIN Atoi : Atoi[part] \in Int

JSONNull                  == [kind |-> "null"]
JSONBool(truth)           == [kind |-> "boolean", truth |-> truth]
JSONString(text)          == [kind |-> "string", text |-> text]
JSONNumber(digits, scale) == [kind |-> "number", digits |-> digits, scale |-> scale]
JSONUnreadable(literal)   == [kind |-> "unreadable", literal |-> literal]
JSONArray(items)          == [kind |-> "array", items |-> items]
JSONObject(fields)        == [kind |-> "object", fields |-> fields]

\* A text decodeJSONValue and json.Valid refuse: no JSON, or more than one.
NotJSON == [kind |-> "not JSON"]

\* The powers of ten.
TenTo[k \in Nat] == IF k = 0 THEN 1 ELSE 10 * TenTo[k - 1]

ASSUME DigitsAssumption == MaxDigits \in Nat \ {0}

Digits == {d \in Int : -TenTo[MaxDigits] < d /\ d < TenTo[MaxDigits]}

\* decodeJSONValue: what a value of each kind is made of.
Decoded(value) ==
  CASE value.kind = "null"       -> value = JSONNull
    [] value.kind = "boolean"    -> value \in {JSONBool(TRUE), JSONBool(FALSE)}
    [] value.kind = "string"     -> value = JSONString(value.text)
    [] value.kind = "number"     -> /\ value = JSONNumber(value.digits, value.scale)
                                    /\ value.digits \in Digits
                                    /\ value.scale \in Int
    [] value.kind = "unreadable" -> value = JSONUnreadable(value.literal)
    [] value.kind = "array"      -> /\ value = JSONArray(value.items)
                                    /\ value.items \in Seq(JSON)
    [] value.kind = "object"     -> /\ value = JSONObject(value.fields)
                                    /\ DOMAIN value.fields \subseteq STRING
                                    /\ value.fields \in [DOMAIN value.fields -> JSON]
    [] OTHER                     -> FALSE

Parts(value) ==
  CASE value.kind = "array"  -> Range(value.items)
    [] value.kind = "object" -> Range(value.fields)
    [] OTHER                 -> {}

\* Decoded values are finite trees.
ASSUME JSONAssumption ==
  /\ JSONDepth \in [JSON -> Nat]
  /\ \A value \in JSON :
       /\ Decoded(value)
       /\ \A part \in Parts(value) : JSONDepth[part] < JSONDepth[value]

-----------------------------------------------------------------------------
(* Numbers *)

\* parseJSONNumberRat: <<numerator, denominator>>
Rational(n) ==
  IF n.scale > 0 THEN <<n.digits, TenTo[n.scale]>>
  ELSE <<n.digits * TenTo[-n.scale], 1>>

\* isJSONNumber
IsNumber(value) == value.kind = "number"

\* jsonNumberIsInteger
IsInteger(value) ==
  IsNumber(value) /\ Rational(value)[1] % Rational(value)[2] = 0

\* Mutant of NumbersEqual: numbers are compared as they are written.
NumbersEqualAsWritten(left, right) ==
  IsNumber(left) /\ IsNumber(right) /\ left = right

\* jsonNumbersEqual
NumbersEqual(left, right) ==
  /\ IsNumber(left)
  /\ IsNumber(right)
  /\ LET l == Rational(left)
         r == Rational(right)
     IN  l[1] * r[2] = r[1] * l[2]

-----------------------------------------------------------------------------
(* Equality *)

\* jsonValuesEqual: the values that are equal to each.
EqualTo[left \in JSON] ==
  { right \in JSON :
      \/ NumbersEqual(left, right)
      \/ /\ left.kind = "object"
         /\ right.kind = "object"
         /\ DOMAIN left.fields = DOMAIN right.fields
         /\ \A key \in DOMAIN left.fields :
              right.fields[key] \in EqualTo[left.fields[key]]
      \/ /\ left.kind = "array"
         /\ right.kind = "array"
         /\ Len(left.items) = Len(right.items)
         /\ \A i \in DOMAIN left.items :
              right.items[i] \in EqualTo[left.items[i]]
      \/ /\ left.kind \notin {"number", "object", "array"}
         /\ left = right }

-----------------------------------------------------------------------------
(* Paths *)

\* What one part of a path, a key or an index, leads to: at most one value.
Children(value, part) ==
  CASE value.kind = "object" /\ part \in DOMAIN value.fields ->
         {value.fields[part]}
    [] value.kind = "array" /\ part \in DOMAIN Atoi ->
         {value.items[i] : i \in {Atoi[part] + 1} \cap DOMAIN value.items}
    [] OTHER -> {}

\* lookupJSONPath: the value a path, the sequence of its parts, leads to, in a
\* set that is empty if there is none.
LookupJSONPath(value, path) ==
  FoldLeft(LAMBDA found, part : UNION {Children(v, part) : v \in found},
           {value}, path)

-----------------------------------------------------------------------------
(* References *)

\* A number without trailing zeros, which are the same if they are equal.
Shortest(n) ==
  IF n.digits = 0 THEN JSONNumber(0, 0)
  ELSE LET zeros == CHOOSE k \in 0 .. MaxDigits - 1 :
                      /\ n.digits % TenTo[k] = 0
                      /\ n.digits % TenTo[k + 1] # 0
       IN  JSONNumber(n.digits \div TenTo[zeros], n.scale - zeros)

Canonical[value \in JSON] ==
  CASE value.kind = "number" -> Shortest(value)
    [] value.kind = "array" ->
         JSONArray([i \in DOMAIN value.items |-> Canonical[value.items[i]]])
    [] value.kind = "object" ->
         JSONObject([key \in DOMAIN value.fields |->
                       Canonical[value.fields[key]]])
    [] value.kind \notin {"number", "array", "object"} -> value

\* All that can be addressed in a value: pairs of a path and what is there.
Addressed[value \in JSON] ==
  LET Below(part, child) ==
        {<<<<part>> \o place[1], place[2]>> : place \in Addressed[child]}
  IN  {<<<<>>, Canonical[value]>>}
      \cup (IF value.kind # "object" THEN {}
            ELSE UNION {Below(key, value.fields[key]) :
                          key \in DOMAIN value.fields})
      \cup (IF value.kind # "array" THEN {}
            ELSE UNION {Below(part, value.items[Atoi[part] + 1]) :
                          part \in {p \in DOMAIN Atoi :
                                      Atoi[p] + 1 \in DOMAIN value.items}})
=============================================================================
