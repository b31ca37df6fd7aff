------------------------------ MODULE Metrics -------------------------------
(***************************************************************************)
(* One evaluation of a built-in metric, from its options to its verdict:   *)
(* the sixteen that ask a judge, from the judge's answer on                *)
(* (metric/judge.go), and the seven that do not (metric/deterministic.go). *)
(*                                                                         *)
(* What a metric looks at is its subject: an answer as Schemas describes   *)
(* it for the judge metrics, else a record of                              *)
(*   json               the answer as a JSON value, or NotJSON             *)
(*   answer, expected   their sets of words, and whether expected is blank *)
(*   elapsed, length    of the answer                                      *)
(*   matches            the answer matches the pattern                     *)
(***************************************************************************)
EXTENDS Scores, MetricOptions, JSONSchema

CONSTANTS
  Arguments(_),    \* the pattern or the criteria given to a metric
  OptionLists(_),  \* the options given to a metric
  Subjects(_)      \* what a deterministic metric may look at

JSONMetric == {"json_validity", "schema_compliance", "expected_json"}

Deterministic ==
  JSONMetric \cup {"answer_similarity", "latency", "answer_length",
                   "expected_regex"}

\* The options there are.
Option ==
  [nil : {TRUE}]
  \cup [threshold : Int]
  \cup [schema : Shapes \cup {NotJSON}]
  \cup [expectedFields : Seq([path     : Seq(STRING),
                              expected : JSON \cup {NotJSON}])]
  \cup [maxLatency : Int] \cup [minLength : Int] \cup [maxLength : Int]

Text == {words \in SUBSET STRING : IsFiniteSet(words)}

ASSUME MetricsAssumption ==
  /\ \A m \in Metric \cup Deterministic : OptionLists(m) \subseteq Seq(Option)
  /\ \A m \in JSONMetric : Subjects(m) \subseteq [json : JSON \cup {NotJSON}]
  /\ Subjects("answer_similarity")
       \subseteq [answer : Text, expected : Text, blank : BOOLEAN]

VARIABLES
  metric, argument, options, subject,
  verdict,  \* "none", "error", "pass" or "fail"
  score     \* of a verdict "pass" or "fail", else 0

vars == <<metric, argument, options, subject, verdict, score>>

Init ==
  /\ metric \in Metric \cup Deterministic
  /\ argument \in Arguments(metric)
  /\ options \in OptionLists(metric)
  /\ subject \in IF metric \in Metric THEN Answers(metric) ELSE Subjects(metric)
  /\ verdict = "none"
  /\ score = 0

-----------------------------------------------------------------------------

Ready == verdict = "none" /\ ~Invalid(metric, argument, options)

Config == ApplyOptions(options)

\* An error in place of a result.
Errs ==
  /\ verdict' = "error"
  /\ UNCHANGED <<metric, argument, options, subject, score>>

\* The result: deterministicResult, and the end of judgeMetric.Evaluate.
Concludes(s) ==
  /\ score' = s
  /\ verdict' = IF s >= Float(Config.threshold[1]) THEN "pass" ELSE "fail"
  /\ UNCHANGED <<metric, argument, options, subject>>

\* invalidMetric.Evaluate
AnswersInvalid ==
  /\ verdict = "none"
  /\ Invalid(metric, argument, options)
  /\ Errs

-----------------------------------------------------------------------------
(* The metrics that ask a judge *)

ParseFails ==
  /\ Ready
  /\ metric \in Metric
  /\ ~Parses(ParserOf[metric], subject)
  /\ Errs

Judges ==
  /\ Ready
  /\ metric \in Metric
  /\ Parses(ParserOf[metric], subject)
  /\ Concludes(Score(ParserOf[metric], subject))

-----------------------------------------------------------------------------
(* The metrics that do not *)

BoolScore(holds) == IF holds THEN One ELSE 0

EvaluatesJSONValidity ==
  /\ Ready
  /\ metric = "json_validity"
  /\ Concludes(BoolScore(subject.json # NotJSON))

EvaluatesSchemaCompliance ==
  /\ Ready
  /\ metric = "schema_compliance"
  /\ Concludes(BoolScore(/\ subject.json # NotJSON
                         /\ subject.json \in Accepted[Config.schema[1]]))

\* The expected fields whose path leads to an equal value.
Matched(fields) ==
  { i \in DOMAIN fields :
      \E found \in LookupJSONPath(subject.json, fields[i].path) :
        fields[i].expected \in EqualTo[found] }

EvaluatesExpectedJSON ==
  /\ Ready
  /\ metric = "expected_json"
  /\ LET fields == Config.expectedFields[1]
     IN  Concludes(IF subject.json = NotJSON THEN 0
                   ELSE Round(Cardinality(Matched(fields)) * One, Len(fields)))

\* jaccardSimilarity
Similarity(answer, expected) ==
  LET union == Cardinality(answer \cup expected)
  IN  IF union = 0 THEN 0
      ELSE Round(Cardinality(answer \cap expected) * One, union)

LacksExpectation ==
  /\ Ready
  /\ metric = "answer_similarity"
  /\ subject.blank
  /\ Errs

EvaluatesAnswerSimilarity ==
  /\ Ready
  /\ metric = "answer_similarity"
  /\ ~subject.blank
  /\ Concludes(Similarity(subject.answer, subject.expected))

EvaluatesLatency ==
  /\ Ready
  /\ metric = "latency"
  /\ Concludes(BoolScore(subject.elapsed <= Config.maxLatency[1]))

EvaluatesAnswerLength ==
  /\ Ready
  /\ metric = "answer_length"
  /\ Concludes(BoolScore(
       /\ Config.minLength # <<>> => subject.length >= Config.minLength[1]
       /\ Config.maxLength # <<>> => subject.length <= Config.maxLength[1]))

EvaluatesExpectedRegex ==
  /\ Ready
  /\ metric = "expected_regex"
  /\ Concludes(BoolScore(subject.matches))

Next ==
  \/ AnswersInvalid \/ ParseFails \/ Judges
  \/ EvaluatesJSONValidity \/ EvaluatesSchemaCompliance
  \/ EvaluatesExpectedJSON
  \/ LacksExpectation \/ EvaluatesAnswerSimilarity
  \/ EvaluatesLatency \/ EvaluatesAnswerLength \/ EvaluatesExpectedRegex

Spec == Init /\ [][Next]_vars

-----------------------------------------------------------------------------
(* Properties *)

Judged == verdict \in {"pass", "fail"}

(***************************************************************************)
(* Schema and parser of each metric are written apart, and agree: an       *)
(* answer the schema describes is judged, and what is judged has every     *)
(* field and every bound the schema asks for, so that no score rests on a  *)
(* zero value that Go filled in.                                           *)
(***************************************************************************)
SchemaIsParsed ==
  metric \in Metric /\ verdict # "none" /\ ~Invalid(metric, argument, options)
    => (Judged <=> Conforms(SchemaOf[metric], subject))

-----------------------------------------------------------------------------
(* The documented score, as an exact fraction <<numerator, denominator>>. *)

NumbersOfItems == FoldLeft(LAMBDA sum, item : sum + item.number, 0, subject.items)

ExactJudgedScore ==
  LET n    == Len(subject.items)
      rule == ParserOf[metric].rule
  IN  CASE rule \in {"ratio", "mean"} /\ n = 0 -> <<0, 1>>
        [] rule = "inverse" /\ n = 0 -> <<1, 1>>
        [] rule = "ratio" /\ n > 0 -> <<Flagged(subject.items), n>>
        [] rule = "inverse" /\ n > 0 -> <<n - Flagged(subject.items), n>>
        [] rule = "mean" /\ n > 0 -> <<NumbersOfItems, Unit * n>>
        [] rule = "three" -> <<subject.numbers["coverage_score"]
                               + subject.numbers["fidelity_score"]
                               + subject.numbers["conciseness_score"], Unit * 3>>
        [] rule = "given" -> <<subject.numbers["score"], Unit>>

ExactScore ==
  CASE metric \in Metric -> ExactJudgedScore
    [] metric = "answer_similarity" ->
         LET words == Cardinality(subject.answer \cup subject.expected)
         IN  IF words = 0 THEN <<0, 1>>
             ELSE <<Cardinality(subject.answer)
                    + Cardinality(subject.expected) - words, words>>
    [] metric = "expected_json" ->
         IF subject.json = NotJSON THEN <<0, 1>>
         ELSE <<Cardinality(Matched(Config.expectedFields[1])),
                Len(Config.expectedFields[1])>>
    [] OTHER -> IF score = One THEN <<1, 1>> ELSE <<0, 1>>

\* The last option of a kind counts, wherever in the list it is.
LastThreshold ==
  LET given == {i \in DOMAIN options : "threshold" \in DOMAIN options[i]}
  IN  IF given = {} THEN 7 * (Unit \div 10) ELSE options[Max(given)].threshold

\* How far the documented score is above the threshold; with Doubt, in units of
\* the score's denominator.
Margin == Unit * ExactScore[1] - LastThreshold * ExactScore[2]

\* How often the score and the threshold are rounded: to read them, to divide
\* or to subtract, and with every number that is added.
Roundings ==
  LET rule == IF metric \in Metric THEN ParserOf[metric].rule ELSE "none"
  IN  CASE rule = "mean" -> Len(subject.items) + 3
        [] rule = "three" -> 3 + 3
        [] rule = "inverse" -> 3
        [] OTHER -> 2

\* What rounding may add up to, each time by 2^-Precision.
Doubt == (Roundings * ExactScore[2] * Unit) \div Resolution

(***************************************************************************)
(* The verdict compares the documented score with the threshold given      *)
(* last.  Rounding never turns it unless they are nearer than 2^-Precision *)
(* for each rounding, and never against an answer whose score reaches the  *)
(* threshold unless floats are added or subtracted.  No verdict comes from *)
(* a list with an option that was refused, whatever followed it, and the   *)
(* score is in [0,1].                                                      *)
(***************************************************************************)
VerdictMatchesScore ==
  Judged =>
    /\ score \in 0 .. One
    /\ Margin > Doubt => verdict = "pass"
    /\ -Margin > Doubt => verdict = "fail"
    /\ Margin >= 0 /\ Roundings = 2 => verdict = "pass"
    /\ \A i \in DOMAIN options : ~Refused(options[i])

\* Subjects that speak more for the answer: one element more in its favour,
\* one expected word more.
Better ==
  CASE metric \in Metric ->
         { [subject EXCEPT !.items[i].flag = ParserOf[metric].rule = "ratio",
                           !.items[i].number = Unit] : i \in DOMAIN subject.items }
    [] metric = "answer_similarity" ->
         { [subject EXCEPT !.answer = @ \cup {word}] : word \in subject.expected }
    [] OTHER -> {}

\* Evidence counts the right way round: what speaks more for the answer never
\* lowers its score, whatever rounding does.
MoreEvidenceNeverLowers ==
  Judged => \A better \in Better :
    score <= IF metric \in Metric THEN Score(ParserOf[metric], better)
             ELSE Similarity(better.answer, better.expected)

(***************************************************************************)
(* validateSchemaValue against JSON Schema: what it accepts has no fault,  *)
(* at any depth, and it rejects nothing else as long as keywords of        *)
(* objects and arrays stand beside their type (elsewhere the code takes    *)
(* them for a type of their own: see the README).                          *)
(***************************************************************************)
SchemaMeansSchema ==
  metric = "schema_compliance" /\ Judged =>
    LET schema  == Config.schema[1]
        correct == /\ subject.json # NotJSON
                   /\ Faults[schema][subject.json] = {}
    IN  /\ WellFormed[schema] /\ score = One => correct
        /\ WellFormed[schema] /\ StatesItsTypes[schema] /\ correct => score = One

(***************************************************************************)
(* A field counts if and only if its path addresses, in the answer, the    *)
(* value that was expected: numbers by their value and not by how they are *)
(* written, objects and arrays as a whole; and an answer that is no JSON   *)
(* matches none.                                                           *)
(***************************************************************************)
ExpectedFieldsMatched ==
  metric = "expected_json" /\ Judged =>
    LET fields == Config.expectedFields[1]
        there  == IF subject.json = NotJSON THEN {} ELSE Addressed[subject.json]
        met    == { i \in DOMAIN fields :
                      <<fields[i].path, Canonical[fields[i].expected]>> \in there }
    IN  score = Round(Cardinality(met) * One, Len(fields))
=============================================================================
