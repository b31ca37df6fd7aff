--------------------------- MODULE MetricsProofs ---------------------------
(***************************************************************************)
(* What an evaluation of a built-in metric ends with, whatever the options *)
(* it was built with and whatever it looks at.                             *)
(*                                                                         *)
(* A verdict is what the metric's rule gives for the inputs (Inv).  The    *)
(* rest is about the rules: floats round in order and near enough for the  *)
(* fractions that are scored; folds go round by round; and the functions   *)
(* of schemas and of JSON values, recursive on finite trees, compute what  *)
(* they are defined by.                                                    *)
(***************************************************************************)
EXTENDS Metrics, FiniteSetTheorems, SequenceTheorems, NaturalsInduction,
        WellFoundedInduction, TLAPS

\* The two kinds of metrics are apart.
LEMMA MetricNames ==
  /\ Metric = {"faithfulness", "answer_relevancy", "context_relevancy",
               "context_precision", "context_recall", "answer_correctness",
               "hallucination", "toxicity", "bias", "coherence", "conciseness",
               "completeness", "instruction_adherence", "citation_accuracy",
               "summarization_quality", "g_eval"}
  /\ Metric \cap Deterministic = {}
<1>1. Metric = {"faithfulness", "answer_relevancy", "context_relevancy",
               "context_precision", "context_recall", "answer_correctness",
               "hallucination", "toxicity", "bias", "coherence", "conciseness",
               "completeness", "instruction_adherence", "citation_accuracy",
               "summarization_quality", "g_eval"}
  BY DEF Metric, SchemaOf
<1> QED BY <1>1 DEF Deterministic, JSONMetric

-----------------------------------------------------------------------------
(* Schema and parser *)

\* A parser takes what its schema describes if they name the same fields.
LEMMA ParserFollowsSchema ==
  ASSUME NEW parser, NEW schema, NEW ans,
         parser.object = schema.object, parser.item = schema.item
  PROVE  Parses(parser, ans) <=> Conforms(schema, ans)
BY Zenon DEF Parses, DecodeStrict, MissingRequiredField, Range01Fails,
   Conforms, Fits

\* A rule reads no number the parser has not checked.
RuleFits(parser) ==
  /\ parser.rule \in {"ratio", "inverse", "mean", "three", "given"}
  /\ parser.rule = "mean" => parser.item.bounded # {}
  /\ parser.rule = "three" =>
       parser.object.bounded
         = {"coverage_score", "fidelity_score", "conciseness_score"}
  /\ parser.rule = "given" => "score" \in parser.object.bounded

\* They do, in each of the sixteen metrics.
LEMMA SameFields ==
  ASSUME NEW m \in Metric
  PROVE  /\ ParserOf[m].object = SchemaOf[m].object
         /\ ParserOf[m].item = SchemaOf[m].item
         /\ RuleFits(ParserOf[m])
<1> DEFINE Same(parser, schema) ==
             /\ parser.object = schema.object
             /\ parser.item = schema.item
             /\ RuleFits(parser)
<1>1. Same(Faithfulness, FaithfulnessSchema)
  BY DEF Faithfulness, FaithfulnessSchema, Parser, Schema, Object, NoItems,
     RuleFits
<1>2. Same(AnswerRelevancy, AnswerRelevancySchema)
  BY DEF AnswerRelevancy, AnswerRelevancySchema, Parser, Schema, Object,
     NoItems, RuleFits
<1>3. Same(ContextRelevancy, ContextRelevancySchema)
  BY DEF ContextRelevancy, ContextRelevancySchema, Parser, Schema, Object,
     NoItems, RuleFits
<1>4. Same(ContextPrecision, ContextPrecisionSchema)
  BY DEF ContextPrecision, ContextPrecisionSchema, Parser, Schema, Object,
     NoItems, RuleFits
<1>5. Same(ContextRecall, ContextRecallSchema)
  BY DEF ContextRecall, ContextRecallSchema, Parser, Schema, Object, NoItems,
     RuleFits
<1>6. Same(AnswerCorrectness, AnswerCorrectnessSchema)
  BY DEF AnswerCorrectness, AnswerCorrectnessSchema, Parser, Schema, Object,
     NoItems, RuleFits
<1>7. Same(Hallucination, HallucinationSchema)
  BY DEF Hallucination, HallucinationSchema, Parser, Schema, Object, NoItems,
     RuleFits
<1>8. Same(Toxicity, ToxicitySchema)
  BY DEF Toxicity, ToxicitySchema, Parser, Schema, Object, NoItems, RuleFits
<1>9. Same(Bias, BiasSchema)
  BY DEF Bias, BiasSchema, Parser, Schema, Object, NoItems, RuleFits
<1>10. Same(Coherence, ScoreIssuesSchema)
  BY DEF Coherence, ScoreIssuesSchema, Parser, Schema, Object, NoItems,
     RuleFits
<1>11. Same(Conciseness, ScoreIssuesSchema)
  BY DEF Conciseness, ScoreIssuesSchema, Parser, Schema, Object, NoItems,
     RuleFits
<1>12. Same(Completeness, CompletenessSchema)
  BY DEF Completeness, CompletenessSchema, Parser, Schema, Object, NoItems,
     RuleFits
<1>13. Same(InstructionAdherence, InstructionAdherenceSchema)
  BY DEF InstructionAdherence, InstructionAdherenceSchema, Parser, Schema,
     Object, NoItems, RuleFits
<1>14. Same(CitationAccuracy, CitationAccuracySchema)
  BY DEF CitationAccuracy, CitationAccuracySchema, Parser, Schema, Object,
     NoItems, RuleFits
<1>15. Same(SummarizationQuality, SummarizationQualitySchema)
  BY DEF SummarizationQuality, SummarizationQualitySchema, Parser, Schema,
     Object, NoItems, RuleFits
<1> HIDE DEF Same
<1> SUFFICES Same(ParserOf[m], SchemaOf[m])
  BY DEF Same
<1>16. CASE m = "faithfulness"
  BY <1>1, <1>16 DEF ParserOf, SchemaOf
<1>17. CASE m = "answer_relevancy"
  BY <1>2, <1>17 DEF ParserOf, SchemaOf
<1>18. CASE m = "context_relevancy"
  BY <1>3, <1>18 DEF ParserOf, SchemaOf
<1>19. CASE m = "context_precision"
  BY <1>4, <1>19 DEF ParserOf, SchemaOf
<1>20. CASE m = "context_recall"
  BY <1>5, <1>20 DEF ParserOf, SchemaOf
<1>21. CASE m = "answer_correctness"
  BY <1>6, <1>21 DEF ParserOf, SchemaOf
<1>22. CASE m = "hallucination"
  BY <1>7, <1>22 DEF ParserOf, SchemaOf
<1>23. CASE m = "toxicity"
  BY <1>8, <1>23 DEF ParserOf, SchemaOf
<1>24. CASE m = "bias"
  BY <1>9, <1>24 DEF ParserOf, SchemaOf
<1>25. CASE m = "coherence"
  BY <1>10, <1>25 DEF ParserOf, SchemaOf
<1>26. CASE m = "conciseness"
  BY <1>11, <1>26 DEF ParserOf, SchemaOf
<1>27. CASE m = "completeness"
  BY <1>12, <1>27 DEF ParserOf, SchemaOf
<1>28. CASE m = "instruction_adherence"
  BY <1>13, <1>28 DEF ParserOf, SchemaOf
<1>29. CASE m = "citation_accuracy"
  BY <1>14, <1>29 DEF ParserOf, SchemaOf
<1>30. CASE m = "summarization_quality"
  BY <1>15, <1>30 DEF ParserOf, SchemaOf
<1>31. CASE m = "g_eval"
  BY <1>2, <1>31 DEF ParserOf, SchemaOf
<1> QED BY MetricNames, <1>16, <1>17, <1>18, <1>19, <1>20, <1>21, <1>22, <1>23,
           <1>24, <1>25, <1>26, <1>27, <1>28, <1>29, <1>30, <1>31

\* What conforms to the schema of a metric is what its parser takes.
LEMMA ParsesWhatConforms ==
  ASSUME NEW m \in Metric, NEW ans
  PROVE  Parses(ParserOf[m], ans) <=> Conforms(SchemaOf[m], ans)
BY SameFields, ParserFollowsSchema

-----------------------------------------------------------------------------
(* What an evaluation has done *)

\* The inputs stay what they were.
Given ==
  /\ metric \in Metric \cup Deterministic
  /\ argument \in Arguments(metric)
  /\ options \in OptionLists(metric)
  /\ subject \in IF metric \in Metric THEN Answers(metric) ELSE Subjects(metric)

\* The score of each metric.
ScoreOf ==
  CASE metric \in Metric -> Score(ParserOf[metric], subject)
    [] metric = "json_validity" -> BoolScore(subject.json # NotJSON)
    [] metric = "schema_compliance" ->
         BoolScore(/\ subject.json # NotJSON
                   /\ subject.json \in Accepted[Config.schema[1]])
    [] metric = "expected_json" ->
         IF subject.json = NotJSON THEN 0
         ELSE Round(Cardinality(Matched(Config.expectedFields[1])) * One,
                    Len(Config.expectedFields[1]))
    [] metric = "answer_similarity" -> Similarity(subject.answer, subject.expected)
    [] metric = "latency" -> BoolScore(subject.elapsed <= Config.maxLatency[1])
    [] metric = "answer_length" -> BoolScore(
         /\ Config.minLength # <<>> => subject.length >= Config.minLength[1]
         /\ Config.maxLength # <<>> => subject.length <= Config.maxLength[1])
    [] metric = "expected_regex" -> BoolScore(subject.matches)

\* The metric answers with an error.
Refuses ==
  \/ Invalid(metric, argument, options)
  \/ metric \in Metric /\ ~Parses(ParserOf[metric], subject)
  \/ metric = "answer_similarity" /\ subject.blank

Settled ==
  /\ verdict \in {"none", "error", "pass", "fail"}
  /\ verdict = "none" => score = 0
  /\ verdict = "error" => Refuses
  /\ Judged =>
       /\ ~Refuses
       /\ score = ScoreOf
       /\ verdict = IF score >= Float(Config.threshold[1]) THEN "pass" ELSE "fail"

Inv == Given /\ Settled

\* Every evaluation starts settled.
LEMMA InitInv == Init => Inv
BY DEF Init, Inv, Given, Settled, Judged

\* One evaluation concludes with the score of its metric.
LEMMA ConcludesSettles ==
  ASSUME Inv, Ready, ~Refuses, NEW s, s = ScoreOf, Concludes(s)
  PROVE  Inv'
<1>1. UNCHANGED <<metric, argument, options, subject>>
  BY DEF Concludes
<1>2. ScoreOf' = ScoreOf /\ Refuses' = Refuses /\ Config' = Config /\ Given'
  BY <1>1 DEF ScoreOf, Refuses, Config, Inv, Given, Matched
<1>3. score' = s /\ verdict' = IF s >= Float(Config.threshold[1]) THEN "pass" ELSE "fail"
  BY DEF Concludes
<1> QED BY <1>2, <1>3 DEF Inv, Settled, Judged

\* Another ends with an error, for a reason.
LEMMA ErrsSettles ==
  ASSUME Inv, Refuses, Errs
  PROVE  Inv'
<1>1. UNCHANGED <<metric, argument, options, subject>> /\ verdict' = "error"
  BY DEF Errs
<1>2. Refuses' = Refuses /\ Given'
  BY <1>1 DEF Refuses, Inv, Given
<1> QED BY <1>1, <1>2 DEF Inv, Settled, Judged

\* No step unsettles an evaluation.
THEOREM StepInv == Inv /\ [Next]_vars => Inv'
<1> SUFFICES ASSUME Inv, [Next]_vars PROVE Inv'
  OBVIOUS
<1> USE MetricNames DEF Deterministic, JSONMetric
<1>1. CASE AnswersInvalid
  BY <1>1, ErrsSettles DEF AnswersInvalid, Refuses
<1>2. CASE ParseFails
  BY <1>2, ErrsSettles DEF ParseFails, Refuses
<1>3. CASE LacksExpectation
  BY <1>3, ErrsSettles DEF LacksExpectation, Refuses
<1>4. CASE Judges
  BY <1>4, ConcludesSettles DEF Judges, Refuses, Ready, ScoreOf
<1>5. CASE EvaluatesJSONValidity
  BY <1>5, ConcludesSettles DEF EvaluatesJSONValidity, Refuses, Ready, ScoreOf
<1>6. CASE EvaluatesSchemaCompliance
  BY <1>6, ConcludesSettles DEF EvaluatesSchemaCompliance, Refuses, Ready,
     ScoreOf
<1>7. CASE EvaluatesExpectedJSON
  BY <1>7, ConcludesSettles DEF EvaluatesExpectedJSON, Refuses, Ready, ScoreOf
<1>8. CASE EvaluatesAnswerSimilarity
  BY <1>8, ConcludesSettles DEF EvaluatesAnswerSimilarity, Refuses, Ready,
     ScoreOf
<1>9. CASE EvaluatesLatency
  BY <1>9, ConcludesSettles DEF EvaluatesLatency, Refuses, Ready, ScoreOf
<1>10. CASE EvaluatesAnswerLength
  BY <1>10, ConcludesSettles DEF EvaluatesAnswerLength, Refuses, Ready, ScoreOf
<1>11. CASE EvaluatesExpectedRegex
  BY <1>11, ConcludesSettles DEF EvaluatesExpectedRegex, Refuses, Ready,
     ScoreOf
<1>12. CASE UNCHANGED vars
  BY <1>12 DEF vars, Inv, Given, Settled, Judged, Refuses, ScoreOf, Config,
     Matched
<1> QED BY <1>1, <1>2, <1>3, <1>4, <1>5, <1>6, <1>7, <1>8, <1>9, <1>10, <1>11,
           <1>12 DEF Next

\* A verdict is what the metric's own rule gives for the inputs.
THEOREM EvaluationsSettle == Spec => []Inv
BY InitInv, StepInv, PTL DEF Spec

\* Schema and parser agree: an answer is judged exactly if its schema
\* describes it (SchemaIsParsed).
THEOREM SchemasAreParsed == Spec => []SchemaIsParsed
<1>1. Inv => SchemaIsParsed
  <2> SUFFICES ASSUME Inv, metric \in Metric, verdict # "none",
                      ~Invalid(metric, argument, options)
               PROVE  Judged <=> Conforms(SchemaOf[metric], subject)
    BY DEF SchemaIsParsed
  <2>1. metric # "answer_similarity"
    BY MetricNames
  <2>2. Judged <=> Parses(ParserOf[metric], subject)
    BY <2>1 DEF Inv, Settled, Judged, Refuses
  <2> QED BY <2>2, ParsesWhatConforms
<1> QED BY <1>1, EvaluationsSettle, PTL

-----------------------------------------------------------------------------
(* Floats *)

\* A set of natural numbers has a least element.
LEMMA LeastExists ==
  ASSUME NEW T, T \subseteq Nat, T # {}
  PROVE  \E m \in T : \A n \in T : m <= n
<1> DEFINE less == {pair \in Nat \X Nat : pair[1] < pair[2]}
<1>1. IsWellFoundedOn(less, Nat)
  BY NatLessThanWellFounded DEF OpToRel
<1>2. PICK m \in T : \A n \in T : ~ (<<n, m>> \in less)
  <2> HIDE DEF less
  <2> QED BY <1>1, WFMin
<1>3. \A n \in T : m <= n
  <2> TAKE n \in T
  <2>1. m \in Nat /\ n \in Nat
    OBVIOUS
  <2>2. n < m => <<n, m>> \in less
    BY <2>1
  <2> QED BY <1>2, <2>1, <2>2
<1> QED BY <1>3

\* f doubles, from 1 on the numbers in start, what it is for a smaller number.
Doubling(start, below, f, n) ==
  f = [k \in 0 .. n |-> IF k \in start THEN 1 ELSE 2 * f[below[k]]]

\* Two that do agree.
LEMMA DoublingAgrees ==
  ASSUME NEW start, NEW below, \A k \in Nat : k \notin start => below[k] \in Nat /\ below[k] < k,
         NEW n \in Nat, NEW m \in Nat, NEW f, NEW g,
         Doubling(start, below, f, n), Doubling(start, below, g, m)
  PROVE  \A k \in 0 .. n : k <= m => f[k] = g[k]
<1> DEFINE apart == {k \in 0 .. n : k <= m /\ f[k] # g[k]}
<1> SUFFICES ASSUME apart # {} PROVE FALSE
  OBVIOUS
<1>1. PICK k \in apart : \A j \in apart : k <= j
  <2>1. apart \subseteq Nat
    OBVIOUS
  <2> HIDE DEF apart
  <2> QED BY <2>1, LeastExists
<1>2. k \in 0 .. n /\ k \in 0 .. m /\ k \in Nat
  OBVIOUS
<1>3. /\ f[k] = IF k \in start THEN 1 ELSE 2 * f[below[k]]
      /\ g[k] = IF k \in start THEN 1 ELSE 2 * g[below[k]]
  BY <1>2 DEF Doubling
<1>4. k \notin start /\ f[below[k]] # g[below[k]]
  BY <1>3
<1>5. below[k] \in 0 .. n /\ below[k] <= m /\ ~ (k <= below[k])
  BY <1>2, <1>4
<1> QED BY <1>1, <1>4, <1>5

\* There is one up to any number.
LEMMA DoublingUpTo ==
  ASSUME NEW start, NEW below, \A k \in Nat : k \notin start => below[k] \in Nat /\ below[k] < k,
         NEW n \in Nat
  PROVE  \E f : Doubling(start, below, f, n)
<1> DEFINE bad == {m \in Nat : ~ \E f : Doubling(start, below, f, m)}
<1> SUFFICES ASSUME bad # {} PROVE FALSE
  OBVIOUS
<1>1. PICK m \in bad : \A j \in bad : m <= j
  <2>1. bad \subseteq Nat
    OBVIOUS
  <2> HIDE DEF bad
  <2> QED BY <2>1, LeastExists
<1>2. PICK g : \A k \in 0 .. m : k # m =>
                 g[k] = IF k \in start THEN 1 ELSE 2 * g[below[k]]
  <2>1. CASE m = 0
    <3>1. \A k \in 0 .. m : k = m
      BY <2>1
    <3> QED BY <3>1
  <2>2. CASE m # 0
    <3>1. m - 1 \in Nat /\ ~ (m <= m - 1)
      BY <2>2
    <3>2. PICK g : Doubling(start, below, g, m - 1)
      BY <1>1, <3>1
    <3>3. \A k \in 0 .. m : k # m => k \in 0 .. m - 1
      OBVIOUS
    <3> QED BY <3>2, <3>3 DEF Doubling
  <2> QED BY <2>1, <2>2
<1> DEFINE f == [k \in 0 .. m |-> IF k = m
                                    THEN IF k \in start THEN 1 ELSE 2 * g[below[k]]
                                    ELSE g[k]]
<1>3. \A k \in 0 .. m : k # m => f[k] = g[k]
  OBVIOUS
<1>4. \A k \in 0 .. m : k \notin start => below[k] \in 0 .. m /\ below[k] # m
  OBVIOUS
<1>5. \A k \in 0 .. m : f[k] = IF k \in start THEN 1 ELSE 2 * f[below[k]]
  <2> TAKE k \in 0 .. m
  <2>1. f[k] = IF k \in start THEN 1 ELSE 2 * g[below[k]]
    BY <1>2
  <2>2. k \notin start => f[below[k]] = g[below[k]]
    BY <1>3, <1>4
  <2> HIDE DEF f
  <2> QED BY <2>1, <2>2
<1>6. f = [k \in 0 .. m |-> f[k]]
  OBVIOUS
<1>7. Doubling(start, below, f, m)
  <2> HIDE DEF f
  <2> QED BY <1>5, <1>6 DEF Doubling
<1> QED BY <1>7

Doubles(start, below, f) ==
  f = [k \in Nat |-> IF k \in start THEN 1 ELSE 2 * f[below[k]]]

\* There is one for all numbers.
LEMMA DoublingExists ==
  ASSUME NEW start, NEW below, \A k \in Nat : k \notin start => below[k] \in Nat /\ below[k] < k
  PROVE  \E f : Doubles(start, below, f)
<1> DEFINE g(n) == CHOOSE g : Doubling(start, below, g, n)
           f == [k \in Nat |-> g(k)[k]]
<1>1. \A n \in Nat : Doubling(start, below, g(n), n)
  BY DoublingUpTo
<1>2. \A n \in Nat : \A k \in 0 .. n : g(n)[k] = g(k)[k]
  <2> TAKE n \in Nat
  <2> TAKE k \in 0 .. n
  <2>1. k \in Nat /\ k \in 0 .. n /\ k <= k
    OBVIOUS
  <2>2. Doubling(start, below, g(n), n) /\ Doubling(start, below, g(k), k)
    BY <1>1, <2>1
  <2> HIDE DEF g
  <2> QED BY <2>1, <2>2, DoublingAgrees
<1>3. \A k \in Nat : f[k] = IF k \in start THEN 1 ELSE 2 * f[below[k]]
  <2> TAKE k \in Nat
  <2>1. k \in 0 .. k
    OBVIOUS
  <2>2. Doubling(start, below, g(k), k)
    BY <1>1
  <2>3. g(k)[k] = IF k \in start THEN 1 ELSE 2 * g(k)[below[k]]
    <3> HIDE DEF g
    <3> QED BY <2>1, <2>2 DEF Doubling
  <2>4. k \notin start => g(k)[below[k]] = g(below[k])[below[k]] /\ below[k] \in Nat
    <3> SUFFICES ASSUME k \notin start
                 PROVE  g(k)[below[k]] = g(below[k])[below[k]] /\ below[k] \in Nat
      OBVIOUS
    <3>1. below[k] \in Nat /\ below[k] \in 0 .. k
      OBVIOUS
    <3> HIDE DEF g
    <3> QED BY <1>2, <3>1
  <2> HIDE DEF g
  <2> QED BY <2>3, <2>4
<1>4. f = [k \in Nat |-> f[k]]
  OBVIOUS
<1>5. Doubles(start, below, f)
  <2> HIDE DEF f
  <2> QED BY <1>3, <1>4 DEF Doubles
<1> QED BY <1>5

\* Powers of two.
LEMMA Twos ==
  /\ TwoTo[0] = 1
  /\ \A k \in Nat : TwoTo[k + 1] = 2 * TwoTo[k]
  /\ \A k \in Nat : TwoTo[k] \in Nat \ {0}
<1> DEFINE start == {0}
           below == [k \in Nat |-> k - 1]
           Is(f) == f = [k \in Nat |-> IF k = 0 THEN 1 ELSE 2 * f[k - 1]]
<1>1. \E f : Is(f)
  <2>1. \A k \in Nat : k \notin start => below[k] \in Nat /\ below[k] < k
    OBVIOUS
  <2>2. PICK f : Doubles(start, below, f)
    <3> HIDE DEF start, below
    <3> QED BY <2>1, DoublingExists
  <2>3. \A k \in Nat : f[k] = IF k = 0 THEN 1 ELSE 2 * f[k - 1]
    BY <2>2 DEF Doubles
  <2>4. f = [k \in Nat |-> f[k]]
    BY <2>2 DEF Doubles
  <2>5. Is(f)
    BY <2>3, <2>4
  <2> QED BY <2>5
<1>2. TwoTo = CHOOSE f : Is(f)
  BY DEF TwoTo
<1>3. Is(TwoTo)
  <2> HIDE DEF Is
  <2> QED BY <1>1, <1>2
<1>4. \A k \in Nat : TwoTo[k] = IF k = 0 THEN 1 ELSE 2 * TwoTo[k - 1]
  BY <1>3
<1> HIDE DEF Is
<1>5. \A k \in Nat : TwoTo[k + 1] = 2 * TwoTo[k]
  <2> TAKE k \in Nat
  <2>1. k + 1 \in Nat /\ k + 1 # 0 /\ (k + 1) - 1 = k
    OBVIOUS
  <2> QED BY <1>4, <2>1
<1>6. \A k \in Nat : TwoTo[k] \in Nat \ {0}
  <2> DEFINE bad == {k \in Nat : TwoTo[k] \notin Nat \ {0}}
  <2> SUFFICES ASSUME bad # {} PROVE FALSE
    OBVIOUS
  <2>1. PICK k \in bad : \A j \in bad : k <= j
    <3>1. bad \subseteq Nat
      OBVIOUS
    <3> HIDE DEF bad
    <3> QED BY <3>1, LeastExists
  <2>2. k # 0
    BY <1>4
  <2>3. k - 1 \in Nat /\ ~ (k <= k - 1)
    BY <2>2
  <2>4. TwoTo[k - 1] \in Nat \ {0}
    BY <2>1, <2>3
  <2>5. TwoTo[k] = 2 * TwoTo[k - 1]
    BY <1>4, <2>2
  <2> QED BY <2>4, <2>5
<1> QED BY <1>4, <1>5, <1>6

\* They multiply as their exponents add.
LEMMA TwosAdd ==
  ASSUME NEW j \in Nat, NEW k \in Nat
  PROVE  TwoTo[j + k] = TwoTo[j] * TwoTo[k]
<1> DEFINE bad == {n \in Nat : TwoTo[j + n] # TwoTo[j] * TwoTo[n]}
<1> SUFFICES ASSUME bad # {} PROVE FALSE
  OBVIOUS
<1>1. PICK n \in bad : \A i \in bad : n <= i
  <2>1. bad \subseteq Nat
    OBVIOUS
  <2> HIDE DEF bad
  <2> QED BY <2>1, LeastExists
<1>2. TwoTo[j] \in Nat
  BY Twos
<1>3. n # 0
  <2>1. j + 0 = j /\ TwoTo[j] * 1 = TwoTo[j]
    BY <1>2
  <2> QED BY <2>1, Twos
<1>4. n - 1 \in Nat /\ ~ (n <= n - 1) /\ (n - 1) + 1 = n /\ (j + (n - 1)) + 1 = j + n
      /\ j + (n - 1) \in Nat
  BY <1>3
<1>5. TwoTo[j + (n - 1)] = TwoTo[j] * TwoTo[n - 1]
  BY <1>1, <1>4
<1>6. TwoTo[n] = 2 * TwoTo[n - 1] /\ TwoTo[j + n] = 2 * TwoTo[j + (n - 1)]
  BY <1>4, Twos
<1>7. TwoTo[n - 1] \in Nat
  BY <1>4, Twos
<1>8. 2 * (TwoTo[j] * TwoTo[n - 1]) = TwoTo[j] * (2 * TwoTo[n - 1])
  BY <1>2, <1>7, SMT
<1> QED BY <1>5, <1>6, <1>8

\* What the least of the floats' whole numbers with all bits is; the grid of
\* the floats up to one.
Least == TwoTo[Precision - 1]

Ulp == TwoTo[Scale - Precision]

\* The numbers a float has in terms of them.
LEMMA Sizes ==
  /\ Least \in Nat \ {0} /\ Ulp \in Nat \ {0} /\ One \in Nat \ {0} /\ Unit \in Nat \ {0}
  /\ Resolution \in Nat /\ Resolution = 2 * Least /\ 2 <= Least
  /\ One = (2 * Least) * Ulp
<1>1. /\ Precision - 1 \in Nat /\ Scale - Precision \in Nat /\ (Precision - 1) + 1 = Precision
      /\ Precision \in Nat /\ Precision + (Scale - Precision) = Scale /\ Scale \in Nat
      /\ Precision - 2 \in Nat /\ (Precision - 2) + 1 = Precision - 1
  BY FloatsAssumption
<1>2. Resolution = 2 * Least /\ Least = 2 * TwoTo[Precision - 2]
  BY <1>1, Twos DEF Resolution, Least
<1>3. One = Resolution * Ulp
  BY <1>1, TwosAdd DEF One, Resolution, Ulp
<1>4. /\ Least \in Nat \ {0} /\ Ulp \in Nat \ {0} /\ One \in Nat \ {0}
      /\ TwoTo[Precision - 2] \in Nat \ {0}
  BY <1>1, Twos DEF Least, Ulp, One
<1> QED BY <1>2, <1>3, <1>4, FloatsAssumption

\* The grids floats are on.
Grids == {TwoTo[e] : e \in Nat}

\* Grids are positive.
LEMMA GridsPositive == Grids \subseteq Nat \ {0}
BY Twos DEF Grids

\* Each grid divides those that are not finer, and is at most half as wide as
\* the coarser ones.
LEMMA GridsDivide ==
  ASSUME NEW g \in Grids, NEW h \in Grids
  PROVE  /\ g <= h => \E m \in Nat \ {0} : h = m * g
         /\ g < h => 2 * g <= h /\ h # 1
<1>1. PICK j \in Nat : g = TwoTo[j]
  BY DEF Grids
<1>2. PICK k \in Nat : h = TwoTo[k]
  BY DEF Grids
<1>3. g \in Nat \ {0} /\ h \in Nat \ {0}
  BY GridsPositive
<1>4. CASE j = k
  <2>1. h = 1 * g
    BY <1>1, <1>2, <1>3, <1>4
  <2> QED BY <1>3, <2>1
<1>5. CASE j < k
  <2>1. (k - 1) - j \in Nat /\ j + ((k - 1) - j) = k - 1 /\ k - 1 \in Nat
        /\ (k - 1) + 1 = k
    BY <1>5
  <2> DEFINE m == TwoTo[(k - 1) - j]
  <2>2. m \in Nat \ {0}
    BY <2>1, Twos
  <2>3. TwoTo[k - 1] = g * m
    BY <1>1, <2>1, TwosAdd
  <2>4. h = 2 * TwoTo[k - 1]
    BY <1>2, <2>1, Twos
  <2> HIDE DEF m
  <2>5. h = (2 * m) * g /\ 2 * m \in Nat \ {0}
    BY <1>3, <2>2, <2>3, <2>4, SMT
  <2>6. g <= g * m
    BY <1>3, <2>2, SMT
  <2>7. 2 * g <= h /\ h # 1
    BY <1>3, <2>2, <2>3, <2>4, <2>6, SMT
  <2> QED BY <2>5, <2>7
<1>6. CASE k < j
  <2>1. (j - 1) - k \in Nat /\ k + ((j - 1) - k) = j - 1 /\ j - 1 \in Nat
        /\ (j - 1) + 1 = j
    BY <1>6
  <2> DEFINE m == TwoTo[(j - 1) - k]
  <2>2. m \in Nat \ {0}
    BY <2>1, Twos
  <2>3. TwoTo[j - 1] = h * m
    BY <1>2, <2>1, TwosAdd
  <2>4. g = 2 * TwoTo[j - 1]
    BY <1>1, <2>1, Twos
  <2> HIDE DEF m
  <2>5. h <= h * m
    BY <1>3, <2>2, SMT
  <2>6. h < g
    BY <1>3, <2>2, <2>3, <2>4, <2>5, SMT
  <2> QED BY <1>3, <2>6
<1> QED BY <1>4, <1>5, <1>6

\* One is on a grid, and its last bit is.
LEMMA SizesAreGrids ==
  /\ 1 \in Grids /\ One \in Grids /\ Ulp \in Grids
  /\ \A g \in Grids : 2 * g \in Grids
<1>1. Scale \in Nat /\ Scale - Precision \in Nat
  BY FloatsAssumption
<1>2. \A g \in Grids : 2 * g \in Grids
  <2> SUFFICES ASSUME NEW j \in Nat PROVE 2 * TwoTo[j] \in Grids
    BY DEF Grids
  <2>1. j + 1 \in Nat /\ 2 * TwoTo[j] = TwoTo[j + 1]
    BY Twos
  <2> QED BY <2>1 DEF Grids
<1> QED BY <1>1, <1>2, Twos DEF Grids, One, Ulp

\* How a grid is found.
LEMMA GridIs ==
  \A w \in Nat : Grid[w] = IF w < Resolution THEN 1 ELSE 2 * Grid[w \div 2]
<1> DEFINE start == {w \in Nat : w < Resolution}
           below == [w \in Nat |-> w \div 2]
           Is(f) == f = [whole \in Nat |->
                           IF whole < Resolution THEN 1 ELSE 2 * f[whole \div 2]]
<1>1. \E f : Is(f)
  <2>1. \A w \in Nat : w \notin start => below[w] \in Nat /\ below[w] < w
    <3> SUFFICES ASSUME NEW w \in Nat, w >= 4 PROVE w \div 2 \in Nat /\ w \div 2 < w
      BY Sizes
    <3> QED BY SMT
  <2>2. PICK f : Doubles(start, below, f)
    <3> HIDE DEF start, below
    <3> QED BY <2>1, DoublingExists
  <2>3. \A w \in Nat : f[w] = IF w < Resolution THEN 1 ELSE 2 * f[w \div 2]
    BY <2>2 DEF Doubles
  <2>4. f = [w \in Nat |-> f[w]]
    BY <2>2 DEF Doubles
  <2>5. Is(f)
    BY <2>3, <2>4
  <2> QED BY <2>5
<1>2. Grid = CHOOSE f : Is(f)
  BY DEF Grid
<1>3. Is(Grid)
  <2> HIDE DEF Is
  <2> QED BY <1>1, <1>2
<1> QED BY <1>3

\* The floats on grid g whose digits take all the bits are around whole, or it
\* is the finest.
Spans(whole, g) ==
  /\ whole < 2 * Least * g
  /\ g = 1 \/ whole >= Least * g

\* The grid of a number is such.
LEMMA GridSpans ==
  ASSUME NEW whole \in Nat
  PROVE  Grid[whole] \in Grids /\ Spans(whole, Grid[whole])
<1> DEFINE bad == {w \in Nat : ~(Grid[w] \in Grids /\ Spans(w, Grid[w]))}
<1> SUFFICES ASSUME bad # {} PROVE FALSE
  OBVIOUS
<1>1. PICK w \in bad : \A i \in bad : w <= i
  <2>1. bad \subseteq Nat
    OBVIOUS
  <2> HIDE DEF bad
  <2> QED BY <2>1, LeastExists
<1>2. w \in Nat /\ ~(Grid[w] \in Grids /\ Spans(w, Grid[w]))
  OBVIOUS
<1>3. CASE w < Resolution
  <2>1. Grid[w] = 1
    BY <1>2, <1>3, GridIs
  <2>2. w < 2 * Least * 1
    BY <1>3, Sizes
  <2> QED BY <1>2, <2>1, <2>2, SizesAreGrids DEF Spans
<1>4. CASE ~ (w < Resolution)
  <2> DEFINE half == w \div 2
             h == Grid[half]
  <2>1. half \in Nat /\ 2 * half <= w /\ w <= 2 * half + 1
    BY <1>2, SMT
  <2>2. ~ (w <= half)
    BY <1>2, <1>4, <2>1, Sizes
  <2>3. Grid[w] = 2 * h
    BY <1>2, <1>4, GridIs
  <2>4. half \notin bad
    <3> HIDE DEF bad, half
    <3> QED BY <1>1, <2>2
  <2>5. h \in Grids /\ Spans(half, h)
    BY <2>1, <2>4
  <2> HIDE DEF h, half
  <2>6. h \in Nat \ {0} /\ Least \in Nat \ {0}
    BY <2>5, GridsPositive, Sizes
  <2>7. w < 2 * Least * (2 * h)
    <3>1. half + 1 <= 2 * Least * h
      BY <2>1, <2>5, <2>6, SMT DEF Spans
    <3>2. 2 * Least * (2 * h) = 2 * (2 * Least * h) /\ 2 * Least * h \in Nat
      BY <2>6, SMT
    <3> QED BY <1>2, <2>1, <3>1, <3>2
  <2>8. w >= Least * (2 * h)
    <3>1. CASE h = 1
      BY <1>2, <1>4, <3>1, Sizes
    <3>2. CASE h # 1
      <4>1. half >= Least * h
        BY <2>5, <3>2 DEF Spans
      <4>2. Least * (2 * h) = 2 * (Least * h) /\ Least * h \in Nat
        BY <2>6, SMT
      <4> QED BY <1>2, <2>1, <4>1, <4>2
    <3> QED BY <3>1, <3>2
  <2> QED BY <1>2, <2>3, <2>5, <2>7, <2>8, SizesAreGrids DEF Spans
<1> QED BY <1>3, <1>4

\* The grid and the number of steps on it below num / den.
Stands(num, den, g, d) ==
  /\ g \in Grids
  /\ num < den * (2 * Least * g)
  /\ g = 1 \/ num >= den * (Least * g)
  /\ d \in Nat
  /\ (den * g) * d <= num
  /\ num < (den * g) * d + den * g

\* The upper neighbour is nearer, or as near and even.
Upwards(num, den, g, d) ==
  \/ 2 * (num - (den * g) * d) > den * g
  \/ 2 * (num - (den * g) * d) = den * g /\ d % 2 = 1

\* The floor of a quotient.
LEMMA Division ==
  ASSUME NEW n \in Nat, NEW d \in Nat \ {0}
  PROVE  /\ n \div d \in Nat
         /\ d * (n \div d) <= n
         /\ n < d * (n \div d) + d
BY SMT

\* Round is one of the two neighbours on the grid.
LEMMA RoundStands ==
  ASSUME NEW num \in Nat, NEW den \in Nat \ {0}
  PROVE  \E g, d : /\ Stands(num, den, g, d)
                   /\ Round(num, den) =
                        g * (IF Upwards(num, den, g, d) THEN d + 1 ELSE d)
<1> DEFINE whole == num \div den
           g == Grid[whole]
           d == num \div (den * g)
<1>0. Least \in Nat \ {0}
  BY Sizes
<1>1. /\ whole \in Nat
      /\ den * whole <= num /\ num < den * whole + den
  BY Division
<1> HIDE DEF whole
<1>3. g \in Grids /\ Spans(whole, g)
  BY <1>1, GridSpans
<1>4. Round(num, den) = g * (IF \/ 2 * (num - (d * den) * g) > den * g
                                \/ 2 * (num - (d * den) * g) = den * g /\ d % 2 = 1
                             THEN d + 1 ELSE d)
  BY DEF Round, whole
<1> HIDE DEF g
<1>5. g \in Nat \ {0}
  BY <1>3, GridsPositive
<1>6. den * g \in Nat \ {0}
  BY <1>5, SMT
<1>7. d \in Nat /\ (den * g) * d <= num /\ num < (den * g) * d + den * g
  BY <1>6, Division
<1> HIDE DEF d
<1>8. (d * den) * g = (den * g) * d
  BY <1>5, <1>7, SMT
<1>9. num < den * (2 * Least * g)
  <2>1. whole + 1 <= 2 * Least * g
    BY <1>0, <1>1, <1>3, <1>5, SMT DEF Spans
  <2>2. den * (whole + 1) <= den * (2 * Least * g)
    BY <1>0, <1>1, <1>5, <2>1, SMT
  <2>3. den * (whole + 1) = den * whole + den
    BY <1>1, SMT
  <2> QED BY <1>0, <1>1, <1>5, <2>2, <2>3, SMT
<1>10. g = 1 \/ num >= den * (Least * g)
  <2> SUFFICES ASSUME g # 1 PROVE num >= den * (Least * g)
    OBVIOUS
  <2>1. whole >= Least * g
    BY <1>3 DEF Spans
  <2>2. den * whole >= den * (Least * g)
    BY <1>0, <1>1, <1>5, <2>1, SMT
  <2> QED BY <1>0, <1>1, <1>5, <2>2, SMT
<1>11. Stands(num, den, g, d)
  BY <1>3, <1>7, <1>9, <1>10 DEF Stands
<1>12. Round(num, den) = g * (IF Upwards(num, den, g, d) THEN d + 1 ELSE d)
  BY <1>4, <1>8 DEF Upwards
<1> QED BY <1>11, <1>12

\* Comparing products: the steps the monotonicity of Round is made of.
LEMMA TimesMonotone ==
  ASSUME NEW a \in Int, NEW b \in Int, NEW c \in Nat, a <= b
  PROVE  c * a <= c * b
BY SMT

\* Strictly, for a positive factor.
LEMMA TimesStrict ==
  ASSUME NEW a \in Int, NEW b \in Int, NEW c \in Nat \ {0}, a < b
  PROVE  c * a < c * b
BY SMT

\* On one grid, the larger number has at least as many steps below it.
LEMMA StepsMonotone ==
  ASSUME NEW a \in Nat, NEW p \in Nat \ {0}, NEW b \in Nat, NEW q \in Nat \ {0},
         q * a <= p * b,
         NEW g, NEW d, NEW e, Stands(a, p, g, d), Stands(b, q, g, e)
  PROVE  d <= e
<1>1. g \in Nat \ {0} /\ d \in Nat /\ e \in Nat
  BY GridsPositive DEF Stands
<1>2. SUFFICES ASSUME e + 1 <= d PROVE FALSE
  BY <1>1, SMT
<1>3. (p * g) * d <= a /\ b < (q * g) * e + q * g
  BY DEF Stands
<1>4. p * g \in Nat \ {0} /\ q * g \in Nat \ {0}
  BY <1>1, SMT
<1>5. (q * g) * e + q * g = (q * g) * (e + 1)
  BY <1>1, <1>4, SMT
<1>6. (q * g) * (e + 1) <= (q * g) * d
  BY <1>1, <1>2, <1>4, TimesMonotone
<1>7. (q * g) * d \in Nat /\ (p * g) * d \in Nat /\ (q * g) * (e + 1) \in Nat
  BY <1>1, <1>4, SMT
<1>8. b < (q * g) * d
  BY <1>3, <1>5, <1>6, <1>7, SMT
<1>9. p * b < p * ((q * g) * d)
  BY <1>7, <1>8, TimesStrict
<1>10. q * ((p * g) * d) <= q * a
  BY <1>3, <1>7, TimesMonotone
<1>11. q * ((p * g) * d) = p * ((q * g) * d)
  BY <1>1, SMT
<1>12. p * b \in Nat /\ q * a \in Nat /\ p * ((q * g) * d) \in Nat
  BY <1>7, SMT
<1> QED BY <1>9, <1>10, <1>11, <1>12, SMT

\* With the same steps below, it rounds up if the smaller one does.
LEMMA UpwardsMonotone ==
  ASSUME NEW a \in Nat, NEW p \in Nat \ {0}, NEW b \in Nat, NEW q \in Nat \ {0},
         q * a <= p * b,
         NEW g, NEW d, Stands(a, p, g, d), Stands(b, q, g, d),
         Upwards(a, p, g, d)
  PROVE  Upwards(b, q, g, d)
<1> DEFINE x == a - (p * g) * d
           y == b - (q * g) * d
<1>1. g \in Nat \ {0} /\ d \in Nat
  BY GridsPositive DEF Stands
<1>2. p * g \in Nat \ {0} /\ q * g \in Nat \ {0}
  BY <1>1, SMT
<1>3. (q * g) * d \in Nat /\ (p * g) * d \in Nat
  BY <1>1, <1>2, SMT
<1>4. x \in Int /\ y \in Int
  BY <1>3
<1>5. q * x = q * a - q * ((p * g) * d) /\ p * y = p * b - p * ((q * g) * d)
  BY <1>3, SMT
<1>6. q * ((p * g) * d) = p * ((q * g) * d)
  BY <1>1, SMT
<1>7. q * x <= p * y
  <2>1. q * a \in Int /\ p * b \in Int /\ p * ((q * g) * d) \in Int
    BY <1>3, SMT
  <2> QED BY <1>5, <1>6, <2>1, SMT
<1>8. q * (p * g) = p * (q * g)
  BY <1>1, SMT
<1>9. /\ 2 * x > p * g \/ (2 * x = p * g /\ d % 2 = 1)
  BY DEF Upwards
<1> HIDE DEF x, y
<1>10. q * (2 * x) <= p * (2 * y)
  <2>1. q * (2 * x) = 2 * (q * x) /\ p * (2 * y) = 2 * (p * y)
    BY <1>4, SMT
  <2>2. q * x \in Int /\ p * y \in Int
    BY <1>4, SMT
  <2> QED BY <1>7, <2>1, <2>2, SMT
<1>11. 2 * x \in Int /\ 2 * y \in Int
  BY <1>4, SMT
<1>12. q * (2 * x) \in Int /\ p * (2 * y) \in Int /\ p * (q * g) \in Int
  BY <1>2, <1>11, SMT
<1>13. CASE 2 * x > p * g
  <2>1. SUFFICES ASSUME 2 * y <= q * g PROVE FALSE
    BY <1>2, <1>11, SMT DEF Upwards, y
  <2>2. q * (p * g) < q * (2 * x)
    BY <1>2, <1>11, <1>13, TimesStrict, SMT
  <2>3. p * (2 * y) <= p * (q * g)
    BY <1>2, <1>11, <2>1, TimesMonotone, SMT
  <2> QED BY <1>8, <1>10, <1>12, <2>2, <2>3, SMT
<1>14. CASE 2 * x = p * g /\ d % 2 = 1
  <2>1. SUFFICES ASSUME 2 * y < q * g PROVE FALSE
    BY <1>2, <1>11, <1>14, SMT DEF Upwards, y
  <2>2. q * (p * g) = q * (2 * x)
    BY <1>14
  <2>3. p * (2 * y) < p * (q * g)
    BY <1>2, <1>11, <2>1, TimesStrict, SMT
  <2> QED BY <1>8, <1>10, <1>12, <2>2, <2>3, SMT
<1> QED BY <1>9, <1>13, <1>14

\* A number has fewer steps below it than its grid has, and on every grid but
\* the first at least half of them.
LEMMA StepsBounded ==
  ASSUME NEW a \in Nat, NEW p \in Nat \ {0}, NEW g, NEW d, Stands(a, p, g, d)
  PROVE  /\ d < 2 * Least
         /\ g = 1 \/ Least <= d
<1>1. g \in Nat \ {0} /\ d \in Nat /\ Least \in Nat \ {0}
  BY GridsPositive, Sizes DEF Stands
<1>2. (p * g) * d <= a /\ a < (p * g) * d + p * g
  BY DEF Stands
<1>3. p * g \in Nat \ {0}
  BY <1>1, SMT
<1>4. d < 2 * Least
  <2>1. SUFFICES ASSUME 2 * Least <= d PROVE FALSE
    BY <1>1, SMT
  <2>2. (p * g) * (2 * Least) <= (p * g) * d
    BY <1>1, <1>3, <2>1, TimesMonotone, SMT
  <2>3. (p * g) * (2 * Least) = p * (2 * Least * g)
    BY <1>1, SMT
  <2>4. a < p * (2 * Least * g)
    BY DEF Stands
  <2>5. (p * g) * d \in Nat /\ p * (2 * Least * g) \in Nat
    BY <1>1, <1>3, SMT
  <2> QED BY <1>2, <2>2, <2>3, <2>4, <2>5, SMT
<1>5. ASSUME g # 1 PROVE Least <= d
  <2>1. SUFFICES ASSUME d + 1 <= Least PROVE FALSE
    BY <1>1, SMT
  <2>2. (p * g) * (d + 1) <= (p * g) * Least
    BY <1>1, <1>3, <2>1, TimesMonotone, SMT
  <2>3. (p * g) * Least = p * (Least * g)
    BY <1>1, SMT
  <2>4. a >= p * (Least * g)
    BY <1>5 DEF Stands
  <2>5. (p * g) * (d + 1) = (p * g) * d + p * g
    BY <1>1, <1>3, SMT
  <2>6. (p * g) * d \in Nat /\ p * (Least * g) \in Nat
    BY <1>1, <1>3, SMT
  <2> QED BY <1>2, <1>3, <2>2, <2>3, <2>4, <2>5, <2>6, SMT
<1> QED BY <1>4, <1>5

\* Larger numbers do not round to smaller floats.
LEMMA RoundMonotone ==
  ASSUME NEW a \in Nat, NEW p \in Nat \ {0}, NEW b \in Nat, NEW q \in Nat \ {0},
         q * a <= p * b
  PROVE  Round(a, p) <= Round(b, q)
<1>1. PICK g, d : /\ Stands(a, p, g, d)
                  /\ Round(a, p) = g * (IF Upwards(a, p, g, d) THEN d + 1 ELSE d)
  BY RoundStands
<1>2. PICK h, e : /\ Stands(b, q, h, e)
                  /\ Round(b, q) = h * (IF Upwards(b, q, h, e) THEN e + 1 ELSE e)
  BY RoundStands
<1>3. /\ g \in Nat \ {0} /\ h \in Nat \ {0} /\ d \in Nat /\ e \in Nat
      /\ g \in Grids /\ h \in Grids /\ Least \in Nat \ {0}
  BY <1>1, <1>2, GridsPositive, Sizes DEF Stands
<1>4. CASE g = h
  <2>1. d <= e
    BY <1>1, <1>2, <1>4, StepsMonotone
  <2>2. CASE d < e
    <3>1. d + 1 <= e
      BY <1>3, <2>2, SMT
    <3> QED BY <1>1, <1>2, <1>3, <1>4, <3>1, SMT
  <2>3. CASE d = e
    <3>1. Upwards(a, p, g, d) => Upwards(b, q, h, e)
      BY <1>1, <1>2, <1>4, <2>3, UpwardsMonotone
    <3> QED BY <1>1, <1>2, <1>3, <1>4, <2>3, <3>1, SMT
  <2> QED BY <1>3, <2>1, <2>2, <2>3, SMT
<1>5. CASE g < h
  <2>1. 2 * g <= h /\ h # 1
    BY <1>3, <1>5, GridsDivide
  <2>2. d + 1 <= 2 * Least /\ Least <= e
    BY <1>1, <1>2, <1>3, <2>1, StepsBounded, SMT
  <2>3. Round(a, p) <= g * (2 * Least)
    BY <1>1, <1>3, <2>2, SMT
  <2>4. h * Least <= Round(b, q)
    BY <1>2, <1>3, <2>2, SMT
  <2>5. Least * (2 * g) <= Least * h
    BY <1>3, <2>1, TimesMonotone, SMT
  <2>6. Round(a, p) \in Nat /\ Round(b, q) \in Nat
    BY <1>1, <1>2, <1>3, SMT
  <2> QED BY <1>3, <2>3, <2>4, <2>5, <2>6, SMT
<1>6. CASE h < g
  <2>1. 2 * h <= g /\ g # 1
    BY <1>3, <1>6, GridsDivide
  <2>2. p * (Least * g) <= a /\ b < q * (2 * Least * h)
    BY <1>1, <1>2, <2>1 DEF Stands
  <2>3. p * (Least * g) \in Nat /\ q * (2 * Least * h) \in Nat
    BY <1>3, SMT
  <2>4. q * (p * (Least * g)) <= q * a
    BY <2>2, <2>3, TimesMonotone
  <2>5. p * b < p * (q * (2 * Least * h))
    BY <2>2, <2>3, TimesStrict
  <2>6. q * (p * (Least * g)) < p * (q * (2 * Least * h))
    BY <2>3, <2>4, <2>5, SMT
  <2>7. (q * p * Least) * (2 * h) <= (q * p * Least) * g
    <3>1. q * p * Least \in Nat
      BY <1>3, SMT
    <3> QED BY <1>3, <2>1, <3>1, TimesMonotone, SMT
  <2>8. /\ (q * p * Least) * g = q * (p * (Least * g))
        /\ (q * p * Least) * (2 * h) = p * (q * (2 * Least * h))
    BY <1>3, SMT
  <2>9. q * (p * (Least * g)) \in Nat /\ p * (q * (2 * Least * h)) \in Nat
    BY <2>3, SMT
  <2> QED BY <2>6, <2>7, <2>8, <2>9, SMT
<1> QED BY <1>3, <1>4, <1>5, <1>6, SMT

\* Rounding yields a natural number.
LEMMA RoundType ==
  ASSUME NEW num \in Nat, NEW den \in Nat \ {0}
  PROVE  Round(num, den) \in Nat
<1>1. PICK g, d : /\ Stands(num, den, g, d)
                  /\ Round(num, den) =
                       g * (IF Upwards(num, den, g, d) THEN d + 1 ELSE d)
  BY RoundStands
<1>2. g \in Nat /\ d \in Nat
  BY <1>1, GridsPositive DEF Stands
<1>3. g * (d + 1) \in Nat /\ g * d \in Nat
  BY <1>2, SMT
<1> QED BY <1>1, <1>3

\* It errs by half a grid.
LEMMA RoundNear ==
  ASSUME NEW num \in Nat, NEW den \in Nat \ {0}, NEW u \in Nat \ {0},
         \A g \in Grids : den * (Least * g) <= num => g <= 2 * u
  PROVE  /\ Round(num, den) \in Nat
         /\ den * Round(num, den) <= num + den * u
         /\ num <= den * Round(num, den) + den * u
<1>2. PICK g, d : /\ Stands(num, den, g, d)
                  /\ Round(num, den) =
                       g * (IF Upwards(num, den, g, d) THEN d + 1 ELSE d)
  BY RoundStands
<1>3. g \in Grids /\ g \in Nat \ {0} /\ d \in Nat
  BY <1>2, GridsPositive DEF Stands
<1>5. g <= 2 * u
  BY <1>2, <1>3 DEF Stands
<1>6. den * g <= 2 * (den * u) /\ den * g \in Nat /\ den * u \in Nat
  <2>1. den * g <= den * (2 * u)
    BY <1>3, <1>5, TimesMonotone
  <2>2. den * (2 * u) = 2 * (den * u)
    BY SMT
  <2> QED BY <1>3, <2>1, <2>2, SMT
<1> DEFINE low == (den * g) * d
<1>7. low \in Nat /\ low <= num /\ num < low + den * g
  BY <1>2, <1>3, <1>6, SMT DEF Stands
<1>8. den * (g * d) = low /\ den * (g * (d + 1)) = low + den * g
  BY <1>3, SMT
<1>9. Round(num, den) \in Nat
  BY RoundType
<1> DEFINE e == den * u
           w == den * g
<1>10. CASE Upwards(num, den, g, d)
  <2>1. 2 * (num - low) >= w
    BY <1>6, <1>7, <1>10, SMT DEF Upwards
  <2>2. den * Round(num, den) = low + w
    BY <1>2, <1>8, <1>10
  <2>3. w <= 2 * e /\ w \in Nat /\ e \in Nat /\ num < low + w
    BY <1>6, <1>7
  <2> HIDE DEF low, w, e
  <2>4. low + w <= num + e /\ num <= (low + w) + e
    BY <1>7, <2>1, <2>3
  <2> QED BY <1>9, <2>2, <2>4 DEF e
<1>11. CASE ~Upwards(num, den, g, d)
  <2>1. 2 * (num - low) <= w
    BY <1>6, <1>7, <1>11, SMT DEF Upwards
  <2>2. den * Round(num, den) = low
    BY <1>2, <1>8, <1>11
  <2>3. w <= 2 * e /\ w \in Nat /\ e \in Nat
    BY <1>6
  <2> HIDE DEF low, w, e
  <2>4. low <= num + e /\ num <= low + e
    BY <1>7, <2>1, <2>3
  <2> QED BY <1>9, <2>2, <2>4 DEF e
<1> QED BY <1>10, <1>11

\* For a number up to m, by the last bit of one for every one in it.
LEMMA RoundWithin ==
  ASSUME NEW num \in Nat, NEW den \in Nat \ {0}, NEW m \in Nat \ {0},
         num <= den * (m * One)
  PROVE  /\ Round(num, den) \in Nat
         /\ den * Round(num, den) <= num + den * (m * Ulp)
         /\ num <= den * Round(num, den) + den * (m * Ulp)
<1> DEFINE u == m * Ulp
<1>1. u \in Nat \ {0}
  BY Sizes, SMT
<1>2. ASSUME NEW g \in Grids, den * (Least * g) <= num
      PROVE  g <= 2 * u
  <2>1. g \in Nat /\ Least \in Nat \ {0} /\ Ulp \in Nat
    BY GridsPositive, Sizes
  <2>2. m * One = Least * (2 * u)
    <3>1. One = (2 * Least) * Ulp
      BY Sizes
    <3> QED BY <2>1, <3>1, SMT
  <2> SUFFICES ASSUME 2 * u < g PROVE FALSE
    BY <1>1, <2>1
  <2> HIDE DEF u
  <2>3. Least * (2 * u) < Least * g
    BY <1>1, <2>1, TimesStrict, SMT
  <2>4. Least * (2 * u) \in Nat /\ Least * g \in Nat
    BY <1>1, <2>1, SMT
  <2>5. den * (Least * (2 * u)) < den * (Least * g)
    BY <2>3, <2>4, TimesStrict
  <2>6. den * (Least * (2 * u)) \in Nat /\ den * (Least * g) \in Nat
    BY <2>4, SMT
  <2>7. num <= den * (Least * (2 * u))
    BY <2>2
  <2> QED BY <1>2, <2>5, <2>6, <2>7
<1> HIDE DEF u
<1>3. /\ Round(num, den) \in Nat
      /\ den * Round(num, den) <= num + den * u
      /\ num <= den * Round(num, den) + den * u
  BY <1>1, <1>2, RoundNear
<1> QED BY <1>3 DEF u

\* For a number below two, by the last bit of one.
LEMMA RoundBelowTwo ==
  ASSUME NEW num \in Nat, NEW den \in Nat \ {0}, num < den * (2 * One)
  PROVE  /\ Round(num, den) \in Nat
         /\ den * Round(num, den) <= num + den * Ulp
         /\ num <= den * Round(num, den) + den * Ulp
<1>1. ASSUME NEW g \in Grids, den * (Least * g) <= num
      PROVE  g <= 2 * Ulp
  <2>1. g \in Nat \ {0} /\ Least \in Nat \ {0} /\ Ulp \in Nat \ {0}
    BY GridsPositive, Sizes
  <2>2. 2 * One = Least * (2 * (2 * Ulp))
    <3>1. One = (2 * Least) * Ulp
      BY Sizes
    <3> QED BY <2>1, <3>1, SMT
  <2> SUFFICES ASSUME 2 * Ulp < g PROVE FALSE
    BY <2>1
  <2>3. 2 * (2 * Ulp) <= g
    BY <2>1, SizesAreGrids, GridsDivide
  <2>4. Least * (2 * (2 * Ulp)) <= Least * g
    BY <2>1, <2>3, TimesMonotone, SMT
  <2>5. Least * (2 * (2 * Ulp)) \in Nat /\ Least * g \in Nat
    BY <2>1, SMT
  <2>6. den * (Least * (2 * (2 * Ulp))) <= den * (Least * g)
    BY <2>4, <2>5, TimesMonotone
  <2>7. den * (Least * (2 * (2 * Ulp))) \in Nat /\ den * (Least * g) \in Nat
    BY <2>5, SMT
  <2>8. num < den * (Least * (2 * (2 * Ulp)))
    BY <2>2
  <2> QED BY <1>1, <2>6, <2>7, <2>8
<1> QED BY <1>1, RoundNear, Sizes

\* Whole numbers are floats as long as they have no more bits.
LEMMA RoundExact ==
  ASSUME NEW k \in 0 .. Resolution
  PROVE  Round(k * One, 1) = k * One
<1>0. One \in Nat \ {0} /\ Least \in Nat \ {0} /\ Resolution = 2 * Least
      /\ One \in Grids /\ 2 * One \in Grids
  BY Sizes, SizesAreGrids
<1>1. k \in Nat /\ k <= 2 * Least /\ k * One \in Nat
  BY <1>0, SMT
<1>2. PICK g, d : /\ Stands(k * One, 1, g, d)
                  /\ Round(k * One, 1) =
                       g * (IF Upwards(k * One, 1, g, d) THEN d + 1 ELSE d)
  BY <1>1, RoundStands
<1>3. g \in Grids /\ g \in Nat \ {0} /\ d \in Nat
  BY <1>2, GridsPositive DEF Stands
<1>4. /\ g = 1 \/ k * One >= Least * g
      /\ g * d <= k * One /\ k * One < g * d + g
  <2>1. 1 * (Least * g) = Least * g /\ (1 * g) * d = g * d /\ 1 * g = g
    BY <1>0, <1>3, SMT
  <2> QED BY <1>2, <2>1 DEF Stands
<1>5. \E m \in Nat : k * One = g * m
  <2>1. CASE g <= One
    <3>1. PICK n \in Nat \ {0} : One = n * g
      BY <1>0, <1>3, <2>1, GridsDivide
    <3>2. k * n \in Nat /\ k * (n * g) = g * (k * n)
      BY <1>1, <1>3, <3>1, SMT
    <3> QED BY <3>1, <3>2
  <2>2. CASE One < g
    <3>1. 2 * One <= g /\ g # 1
      BY <1>0, <1>3, <2>2, GridsDivide
    <3>2. Least * (2 * One) <= Least * g
      BY <1>0, <1>3, <3>1, TimesMonotone, SMT
    <3>3. Least * (2 * One) = (2 * Least) * One /\ (2 * Least) * One \in Nat
          /\ Least * g \in Nat
      BY <1>0, <1>3, SMT
    <3>4. One * k <= One * (2 * Least)
      BY <1>0, <1>1, TimesMonotone, SMT
    <3>5. One * k = k * One /\ One * (2 * Least) = (2 * Least) * One
      BY <1>0, <1>1, SMT
    <3>6. k * One = Least * g
      BY <1>1, <1>4, <3>1, <3>2, <3>3, <3>4, <3>5
    <3>7. Least * g = g * Least
      BY <1>0, <1>3, SMT
    <3> QED BY <1>0, <3>6, <3>7
  <2> QED BY <1>0, <1>3, <2>1, <2>2
<1>6. PICK m \in Nat : k * One = g * m
  BY <1>5
<1>7. m = d
  <2>1. CASE m < d
    <3>1. g * m < g * d
      BY <1>3, <2>1, TimesStrict
    <3>2. g * m \in Nat /\ g * d \in Nat
      BY <1>3, SMT
    <3>3. FALSE
      BY <1>4, <1>6, <3>1, <3>2
    <3> QED BY <3>3
  <2>2. CASE d < m
    <3>1. g * (d + 1) <= g * m
      BY <1>3, <2>2, TimesMonotone, SMT
    <3>2. g * (d + 1) = g * d + g /\ g * m \in Nat /\ g * d \in Nat
      BY <1>3, SMT
    <3> DEFINE p == g * m
               q == g * d
    <3>3. p \in Nat /\ q \in Nat /\ q + g <= p /\ p < q + g
      BY <1>4, <1>6, <3>1, <3>2
    <3> HIDE DEF p, q
    <3>4. FALSE
      BY <1>3, <3>3
    <3> QED BY <3>4
  <2> QED BY <1>3, <1>6, <2>1, <2>2
<1>8. ~Upwards(k * One, 1, g, d)
  <2>1. (1 * g) * d = g * d /\ 1 * g = g /\ g * d \in Nat
    BY <1>3, SMT
  <2>2. k * One - (1 * g) * d = 0
    BY <1>6, <1>7, <2>1
  <2> QED BY <1>3, <2>1, <2>2 DEF Upwards
<1> QED BY <1>2, <1>6, <1>7, <1>8

\* A quotient between whole numbers stays between them.
LEMMA RoundBetween ==
  ASSUME NEW num \in Nat, NEW den \in Nat \ {0}, NEW k \in 0 .. Resolution
  PROVE  /\ num <= den * (k * One) => Round(num, den) <= k * One
         /\ den * (k * One) <= num => k * One <= Round(num, den)
<1>1. k * One \in Nat /\ Round(k * One, 1) = k * One
  BY RoundExact, Sizes, SMT
<1>2. 1 * num = num /\ den * (k * One) \in Nat /\ 1 \in Nat \ {0}
  BY <1>1, SMT
<1>3. ASSUME num <= den * (k * One) PROVE Round(num, den) <= k * One
  BY <1>1, <1>2, <1>3, RoundMonotone
<1>4. ASSUME den * (k * One) <= num PROVE k * One <= Round(num, den)
  BY <1>1, <1>2, <1>4, RoundMonotone
<1> QED BY <1>3, <1>4

\* A fraction of a whole is between 0 and 1.
LEMMA RoundFraction ==
  ASSUME NEW num \in Nat, NEW den \in Nat \ {0}, num <= den
  PROVE  /\ Round(num * One, den) \in 0 .. One
         /\ num = 0 => Round(num * One, den) = 0
         /\ num = den => Round(num * One, den) = One
<1>0. One \in Nat \ {0} /\ 0 \in 0 .. Resolution /\ 1 \in 0 .. Resolution
      /\ 0 * One = 0 /\ 1 * One = One
  BY Sizes, SMT
<1>1. num * One \in Nat /\ num * One <= den * One
  <2>1. One * num <= One * den
    BY <1>0, TimesMonotone
  <2>2. One * num = num * One /\ One * den = den * One /\ num * One \in Nat
    BY <1>0, SMT
  <2> QED BY <2>1, <2>2
<1>2. Round(num * One, den) \in Nat
  BY <1>1, RoundType
<1>3. Round(num * One, den) <= One
  BY <1>0, <1>1, RoundBetween
<1>4. num = 0 => Round(num * One, den) <= 0
  <2>1. den * 0 = 0
    OBVIOUS
  <2> QED BY <1>0, <1>1, <2>1, RoundBetween
<1>5. num = den => One <= Round(num * One, den)
  BY <1>0, <1>1, RoundBetween
<1> QED BY <1>0, <1>2, <1>3, <1>4, <1>5

\* More of a fraction's parts never make its float smaller.
LEMMA FractionMonotone ==
  ASSUME NEW a \in Nat, NEW b \in Nat, NEW den \in Nat \ {0}, a <= b
  PROVE  Round(a * One, den) <= Round(b * One, den)
<1>0. One \in Nat
  BY Sizes
<1>1. One * a <= One * b
  BY <1>0, TimesMonotone
<1>2. /\ a * One \in Nat /\ b * One \in Nat
      /\ One * a = a * One /\ One * b = b * One
  BY <1>0, SMT
<1>3. den * (a * One) <= den * (b * One)
  BY <1>1, <1>2, TimesMonotone
<1> QED BY <1>2, <1>3, RoundMonotone

\* r is the fraction a / b, but for the last bit of one k times.
Within(r, a, b, k) ==
  /\ b * r <= a * One + k * (b * Ulp)
  /\ a * One <= b * r + k * (b * Ulp)

\* A number that is taken is near its float.
LEMMA FloatNear ==
  ASSUME NEW n \in Int, InUnit(n)
  PROVE  Float(n) \in 0 .. One /\ Within(Float(n), n, Unit, 1)
<1>0. One \in Nat \ {0} /\ Unit \in Nat \ {0} /\ Ulp \in Nat \ {0} /\ 2 \in 0 .. Resolution
  BY Sizes
<1>1. Float(n) \in 0 .. One
  BY DEF InUnit
<1> DEFINE a == IF n < 0 THEN -n ELSE n
           R == Round(a * One, Unit)
<1>2. a \in Nat
  OBVIOUS
<1>3. Float(n) = IF n < 0 THEN -R ELSE R
  BY DEF Float
<1> HIDE DEF a
<1>4. a * One \in Nat /\ R \in Nat
  BY <1>0, <1>2, RoundType, SMT
<1>5. R <= One
  BY <1>0, <1>1, <1>3, <1>4
<1>6. a * One < Unit * (2 * One)
  <2> SUFFICES ASSUME Unit * (2 * One) <= a * One PROVE FALSE
    BY <1>0, <1>4, SMT
  <2>1. 2 * One <= R
    BY <1>0, <1>4, RoundBetween
  <2> HIDE DEF R
  <2> QED BY <1>0, <1>4, <1>5, <2>1
<1>7. Unit * R <= a * One + Unit * Ulp /\ a * One <= Unit * R + Unit * Ulp
  BY <1>0, <1>4, <1>6, RoundBelowTwo
<1>8. 1 * (Unit * Ulp) = Unit * Ulp /\ Unit * Ulp \in Nat
  BY <1>0, SMT
<1> HIDE DEF R
<1>9. CASE n < 0
  <2>1. R = 0 /\ Float(n) = 0
    BY <1>0, <1>1, <1>3, <1>4, <1>9
  <2>2. n = -a /\ n * One = -(a * One)
    <3>1. n = -a
      BY <1>9 DEF a
    <3> QED BY <1>0, <1>2, <3>1, SMT
  <2>3. Unit * 0 = 0
    BY <1>0
  <2>4. Within(0, n, Unit, 1)
    BY <1>4, <1>7, <1>8, <2>1, <2>2, <2>3 DEF Within
  <2> QED BY <1>1, <2>1, <2>4
<1>10. CASE ~ (n < 0)
  <2>1. a = n /\ Float(n) = R
    BY <1>3, <1>10 DEF a
  <2> QED BY <1>1, <1>7, <1>8, <2>1 DEF Within
<1> QED BY <1>9, <1>10

\* Floats are ordered as the numbers they are read from.
LEMMA FloatMonotone ==
  ASSUME NEW s \in Int, NEW t \in Int, s <= t
  PROVE  Float(s) \in Int /\ Float(t) \in Int /\ Float(s) <= Float(t)
<1>0. One \in Nat \ {0} /\ Unit \in Nat \ {0}
  BY Sizes
<1>1. ASSUME NEW n \in Nat PROVE n * One \in Nat /\ Round(n * One, Unit) \in Nat
  BY <1>0, RoundType, SMT
<1>2. /\ s < 0 => -s \in Nat /\ Float(s) = -Round((-s) * One, Unit)
      /\ t < 0 => -t \in Nat /\ Float(t) = -Round((-t) * One, Unit)
      /\ ~ (s < 0) => s \in Nat /\ Float(s) = Round(s * One, Unit)
      /\ ~ (t < 0) => t \in Nat /\ Float(t) = Round(t * One, Unit)
  BY DEF Float
<1>3. CASE t < 0
  <2>1. s < 0 /\ -t <= -s /\ -s \in Nat /\ -t \in Nat
    BY <1>3
  <2>2. Round((-t) * One, Unit) <= Round((-s) * One, Unit)
    BY <1>0, <2>1, FractionMonotone
  <2>3. Round((-t) * One, Unit) \in Nat /\ Round((-s) * One, Unit) \in Nat
    BY <1>1, <2>1
  <2> DEFINE x == Round((-t) * One, Unit)
             y == Round((-s) * One, Unit)
  <2>4. Float(s) = -y /\ Float(t) = -x
    BY <1>2, <1>3, <2>1
  <2> HIDE DEF x, y
  <2>5. x \in Nat /\ y \in Nat /\ x <= y
    BY <2>2, <2>3 DEF x, y
  <2> QED BY <2>4, <2>5
<1>4. CASE s < 0 /\ ~ (t < 0)
  <2> DEFINE x == Round(t * One, Unit)
             y == Round((-s) * One, Unit)
  <2>1. Float(s) = -y /\ Float(t) = x /\ x \in Nat /\ y \in Nat
    BY <1>1, <1>2, <1>4
  <2> HIDE DEF x, y
  <2> QED BY <2>1
<1>5. CASE ~ (s < 0) /\ ~ (t < 0)
  <2>1. s \in Nat /\ t \in Nat
    BY <1>2, <1>5
  <2>2. Round(s * One, Unit) <= Round(t * One, Unit)
    BY <1>0, <2>1, FractionMonotone
  <2> QED BY <1>1, <1>2, <1>5, <2>1, <2>2
<1> QED BY <1>3, <1>4, <1>5

\* Zero and one are floats, and what is between them is taken.
LEMMA FloatEnds ==
  /\ Float(0) = 0 /\ Float(Unit) = One
  /\ \A n \in 0 .. Unit : InUnit(n)
<1>0. Unit \in Nat \ {0} /\ One \in Nat
  BY Sizes
<1>1. \A n \in 0 .. Unit : Float(n) = Round(n * One, Unit)
  BY <1>0 DEF Float
<1>2. 0 \in 0 .. Unit /\ Unit \in 0 .. Unit
  BY <1>0
<1>3. \A n \in 0 .. Unit : Round(n * One, Unit) \in 0 .. One
  <2> TAKE n \in 0 .. Unit
  <2>1. n \in Nat /\ n <= Unit
    BY <1>0
  <2> QED BY <1>0, <2>1, RoundFraction
<1>4. Round(0 * One, Unit) = 0 /\ Round(Unit * One, Unit) = One
  BY <1>0, RoundFraction
<1> QED BY <1>1, <1>2, <1>3, <1>4 DEF InUnit

\* So is the default threshold.
LEMMA DefaultInUnit == 7 * (Unit \div 10) \in Int /\ InUnit(7 * (Unit \div 10))
<1>1. Unit \in Nat
  BY Sizes
<1>2. 7 * (Unit \div 10) \in 0 .. Unit
  BY <1>1, SMT
<1> QED BY <1>2, FloatEnds

(***************************************************************************)
(* What was rounded k times compares with a threshold, rounded once, as    *)
(* the fraction it stands for, unless the two are nearer than k + 1 last   *)
(* bits of one.                                                            *)
(***************************************************************************)
LEMMA Distinguished ==
  ASSUME NEW r \in Int, NEW a \in Int, NEW b \in Nat \ {0}, NEW k \in Nat,
         Within(r, a, b, k), NEW t \in Int, InUnit(t)
  PROVE  LET margin == Unit * a - t * b
             doubt  == ((k + 1) * b * Unit) \div Resolution
         IN  /\ margin > doubt => r >= Float(t)
             /\ -margin > doubt => r < Float(t)
<1> DEFINE margin == Unit * a - t * b
           slack == (k + 1) * b * Unit
           doubt == slack \div Resolution
           F == Float(t)
<1>0. /\ One \in Nat \ {0} /\ Unit \in Nat \ {0} /\ Ulp \in Nat \ {0}
      /\ Resolution \in Nat \ {0} /\ One = Resolution * Ulp
  BY Sizes
<1>1. margin \in Int /\ slack \in Nat
  BY <1>0, SMT
<1>2. F \in Int /\ Within(F, t, Unit, 1)
  BY <1>0, FloatNear, SMT
<1> HIDE DEF slack, F, margin
<1>3. doubt \in Nat /\ slack < Resolution * doubt + Resolution
  BY <1>0, <1>1, Division
<1> HIDE DEF doubt
<1>4. ASSUME NEW x \in Int, x > doubt PROVE x * One > slack * Ulp
  <2>1. Resolution * (doubt + 1) <= Resolution * x
    BY <1>0, <1>3, <1>4, TimesMonotone
  <2>2. Resolution * (doubt + 1) = Resolution * doubt + Resolution
        /\ Resolution * doubt \in Nat /\ Resolution * x \in Int
    BY <1>0, <1>3, SMT
  <2>3. slack < Resolution * x
    BY <1>0, <1>1, <1>3, <2>1, <2>2
  <2>4. Ulp * slack < Ulp * (Resolution * x)
    BY <1>0, <1>1, <2>2, <2>3, TimesStrict
  <2>5. Ulp * slack = slack * Ulp /\ Ulp * (Resolution * x) = x * One
    BY <1>0, <1>1, SMT
  <2> QED BY <2>4, <2>5
<1> DEFINE e == Unit * (b * Ulp)
           A == Unit * (a * One)
           B == b * (t * One)
           P == Unit * (b * r)
           Q == b * (Unit * F)
<1>5. e \in Nat /\ A \in Int /\ B \in Int /\ P \in Int /\ Q \in Int /\ k * e \in Nat
  BY <1>0, <1>2, SMT
<1>6. P <= A + k * e /\ A <= P + k * e
  <2>1. b * r \in Int /\ a * One \in Int /\ k * (b * Ulp) \in Nat
    BY <1>0, SMT
  <2>2. /\ Unit * (b * r) <= Unit * (a * One + k * (b * Ulp))
        /\ Unit * (a * One) <= Unit * (b * r + k * (b * Ulp))
    BY <1>0, <2>1, TimesMonotone DEF Within
  <2>3. /\ Unit * (a * One + k * (b * Ulp)) = A + k * e
        /\ Unit * (b * r + k * (b * Ulp)) = P + k * e
    BY <1>0, SMT
  <2> QED BY <2>2, <2>3
<1>7. Q <= B + e /\ B <= Q + e
  <2>1. Unit * F \in Int /\ t * One \in Int /\ 1 * (Unit * Ulp) \in Nat
    BY <1>0, <1>2, SMT
  <2>2. /\ b * (Unit * F) <= b * (t * One + 1 * (Unit * Ulp))
        /\ b * (t * One) <= b * (Unit * F + 1 * (Unit * Ulp))
    BY <1>0, <1>2, <2>1, TimesMonotone DEF Within
  <2>3. /\ b * (t * One + 1 * (Unit * Ulp)) = B + e
        /\ b * (Unit * F + 1 * (Unit * Ulp)) = Q + e
    BY <1>0, <1>2, SMT
  <2> QED BY <2>2, <2>3
<1>8. margin * One = A - B /\ (-margin) * One = B - A /\ slack * Ulp = k * e + e
  BY <1>0, SMT DEF margin, slack
<1>9. P = (Unit * b) * r /\ Q = (Unit * b) * F /\ Unit * b \in Nat \ {0}
  BY <1>0, <1>2, SMT
<1>10. ASSUME margin > doubt PROVE r >= F
  <2>1. A - B > k * e + e
    BY <1>1, <1>4, <1>8, <1>10
  <2> SUFFICES ASSUME r < F PROVE FALSE
    BY <1>2
  <2>2. P < Q
    BY <1>2, <1>9, TimesStrict
  <2> DEFINE ke == k * e
  <2> HIDE DEF e, A, B, P, Q, ke
  <2>3. ke \in Nat /\ A - B > ke + e /\ A <= P + ke /\ Q <= B + e
    BY <1>5, <1>6, <1>7, <2>1 DEF ke
  <2> QED BY <1>5, <2>2, <2>3
<1>11. ASSUME -margin > doubt PROVE r < F
  <2>0. -margin \in Int
    BY <1>1
  <2>1. B - A > k * e + e
    BY <1>4, <1>8, <1>11, <2>0
  <2> SUFFICES ASSUME F <= r PROVE FALSE
    BY <1>2
  <2>2. Q <= P
    BY <1>2, <1>9, TimesMonotone
  <2> DEFINE ke == k * e
  <2> HIDE DEF e, A, B, P, Q, ke
  <2>3. ke \in Nat /\ B - A > ke + e /\ P <= A + ke /\ B <= Q + e
    BY <1>5, <1>6, <1>7, <2>1 DEF ke
  <2> QED BY <1>5, <2>2, <2>3
<1> QED BY <1>10, <1>11 DEF F, doubt, margin, slack

-----------------------------------------------------------------------------
(* Lists *)

\* The flagged elements of a list are counted.
LEMMA FlaggedCounts ==
  ASSUME NEW items, NEW n \in Nat, DOMAIN items = 1 .. n
  PROVE  Flagged(items) \in 0 .. n
<1> DEFINE S == {i \in DOMAIN items : items[i].flag}
<1>1. S \subseteq 1 .. n
  OBVIOUS
<1>2. IsFiniteSet(1 .. n) /\ Cardinality(1 .. n) = n
  <2>1. 1 \in Int /\ n \in Int
    OBVIOUS
  <2>2. Cardinality(1 .. n) = IF 1 > n THEN 0 ELSE n - 1 + 1
    BY <2>1, FS_Interval
  <2> QED BY <2>1, <2>2, FS_Interval
<1> HIDE DEF S
<1>3. IsFiniteSet(S) /\ Cardinality(S) <= n
  <2>1. IsFiniteSet(S) /\ Cardinality(S) <= Cardinality(1 .. n)
    BY <1>1, <1>2, FS_Subset
  <2> QED BY <1>2, <2>1
<1>4. Cardinality(S) \in Nat
  BY <1>3, FS_CardinalityType
<1> QED BY <1>3, <1>4 DEF Flagged, S

\* More flags count as more.
LEMMA FlaggedMonotone ==
  ASSUME NEW items, NEW others, NEW n \in Nat,
         DOMAIN items = 1 .. n, DOMAIN others = 1 .. n,
         \A i \in 1 .. n : items[i].flag => others[i].flag
  PROVE  Flagged(items) <= Flagged(others)
<1> DEFINE S == {i \in DOMAIN items : items[i].flag}
           T == {i \in DOMAIN others : others[i].flag}
<1>1. S \subseteq T /\ T \subseteq 1 .. n
  OBVIOUS
<1>2. IsFiniteSet(1 .. n)
  BY FS_Interval
<1> HIDE DEF S, T
<1>3. IsFiniteSet(T)
  BY <1>1, <1>2, FS_Subset
<1>4. Cardinality(S) <= Cardinality(T)
  BY <1>1, <1>3, FS_Subset
<1> QED BY <1>4 DEF Flagged, S, T

-----------------------------------------------------------------------------
(* Folds over sequences *)

\* What each fold does with one element more.
Body(loop, acc, x) ==
  IF loop = "options" THEN ApplyOption(acc, x)
  ELSE IF loop = "floats" THEN Round(acc + x, 1)
  ELSE IF loop = "numbers" THEN acc + x.number
  ELSE UNION {Children(v, x) : v \in acc}

\* f is what the fold computes for the sets of the first m places.
Folding(loop, base, seq, S, f) ==
  f = [s \in SUBSET S |->
         IF s = {} THEN base
         ELSE Body(loop, f[s \ {Max(s)}], seq[Max(s)])]

\* The last place of a set of places.
LEMMA LastPlace ==
  ASSUME NEW m \in Nat, NEW s \in SUBSET (1 .. m), s # {}
  PROVE  Max(s) \in s /\ \A x \in s : x <= Max(s)
<1> DEFINE gaps == {m - x : x \in s}
<1>1. gaps \subseteq Nat /\ gaps # {}
  <2>1. PICK x \in s : TRUE
    OBVIOUS
  <2>2. \A y \in s : m - y \in Nat
    OBVIOUS
  <2> QED BY <2>1, <2>2
<1>2. PICK g \in gaps : \A h \in gaps : g <= h
  <2> HIDE DEF gaps
  <2> QED BY <1>1, LeastExists
<1>3. PICK top \in s : g = m - top
  OBVIOUS
<1>4. \A x \in s : top >= x
  <2> TAKE x \in s
  <2>1. g <= m - x /\ x \in Nat /\ top \in Nat
    BY <1>2
  <2> QED BY <1>3, <2>1
<1>5. Max(s) \in s /\ \A x \in s : Max(s) >= x
  BY <1>4 DEF Max
<1>6. \A x \in s : x \in Nat
  OBVIOUS
<1> QED BY <1>5, <1>6

\* The last of the first k places.
LEMMA LastOfFirst ==
  ASSUME NEW k \in Nat, k # 0
  PROVE  Max(1 .. k) = k /\ (1 .. k) \ {k} = 1 .. k - 1
<1>1. 1 .. k # {} /\ k \in 1 .. k
  OBVIOUS
<1>2. Max(1 .. k) \in 1 .. k /\ k <= Max(1 .. k)
  BY <1>1, LastPlace
<1>3. Max(1 .. k) = k
  BY <1>2
<1>4. (1 .. k) \ {k} = 1 .. k - 1
  OBVIOUS
<1> QED BY <1>3, <1>4

\* Every loop can be folded.
LEMMA FoldingExists ==
  ASSUME NEW loop, NEW base, NEW seq, NEW len \in Nat
  PROVE  \E f : Folding(loop, base, seq, 1 .. len, f)
<1> DEFINE Fold(m, f) == Folding(loop, base, seq, 1 .. m, f)
           bad == {m \in Nat : ~ \E f : Fold(m, f)}
<1> SUFFICES ASSUME bad # {} PROVE FALSE
  OBVIOUS
<1>1. PICK m \in bad : \A j \in bad : m <= j
  <2>1. bad \subseteq Nat
    OBVIOUS
  <2> HIDE DEF bad
  <2> QED BY <2>1, LeastExists
<1>2. CASE m = 0
  <2> DEFINE f == [s \in SUBSET (1 .. m) |-> base]
  <2>1. \A s \in SUBSET (1 .. m) : s = {}
    BY <1>2
  <2>2. f = [s \in SUBSET (1 .. m) |->
               IF s = {} THEN base
               ELSE Body(loop, f[s \ {Max(s)}], seq[Max(s)])]
    BY <2>1
  <2>3. Fold(m, f)
    BY <2>2 DEF Folding
  <2> QED BY <2>3
<1>3. CASE m > 0
  <2>1. m - 1 \in Nat /\ ~ (m <= m - 1)
    BY <1>3
  <2>2. PICK g : Fold(m - 1, g)
    BY <1>1, <2>1
  <2> DEFINE f == [s \in SUBSET (1 .. m) |->
                     IF s = {} THEN base
                     ELSE Body(loop, g[s \ {Max(s)}], seq[Max(s)])]
  <2>3. \A s \in SUBSET (1 .. m - 1) : f[s] = g[s]
    <3>1. SUBSET (1 .. m - 1) \subseteq SUBSET (1 .. m)
      BY <1>3
    <3>2. \A s \in SUBSET (1 .. m - 1) :
            g[s] = IF s = {} THEN base
                   ELSE Body(loop, g[s \ {Max(s)}], seq[Max(s)])
      BY <2>2 DEF Folding
    <3> QED BY <3>1, <3>2
  <2>4. \A s \in SUBSET (1 .. m) : s # {} =>
          s \ {Max(s)} \in SUBSET (1 .. m - 1)
    <3> SUFFICES ASSUME NEW s \in SUBSET (1 .. m), s # {},
                        NEW x \in s \ {Max(s)}
                 PROVE  x \in 1 .. m - 1
      OBVIOUS
    <3>1. Max(s) \in 1 .. m /\ x <= Max(s) /\ x # Max(s) /\ x \in 1 .. m
      BY LastPlace
    <3> QED BY <3>1
  <2>5. \A s \in SUBSET (1 .. m) :
          f[s] = IF s = {} THEN base
                 ELSE Body(loop, f[s \ {Max(s)}], seq[Max(s)])
    <3> TAKE s \in SUBSET (1 .. m)
    <3>1. f[s] = IF s = {} THEN base
                 ELSE Body(loop, g[s \ {Max(s)}], seq[Max(s)])
      OBVIOUS
    <3>2. s # {} => f[s \ {Max(s)}] = g[s \ {Max(s)}]
      BY <2>3, <2>4
    <3> HIDE DEF f
    <3> QED BY <3>1, <3>2
  <2>6. f = [s \in SUBSET (1 .. m) |-> f[s]]
    OBVIOUS
  <2>7. Fold(m, f)
    <3> HIDE DEF f
    <3> QED BY <2>5, <2>6 DEF Folding
  <2> QED BY <2>7
<1> QED BY <1>2, <1>3

\* f is what the loop has computed after each of its rounds.
Rounds(loop, base, seq, f) ==
  /\ f[0] = base
  /\ \A k \in 1 .. Len(seq) : f[k] = Body(loop, f[k - 1], seq[k])

\* The rounds of a loop that is folded.
LEMMA FoldingRounds ==
  ASSUME NEW loop, NEW base, NEW seq, Len(seq) \in Nat,
         NEW g, Folding(loop, base, seq, 1 .. Len(seq), g)
  PROVE  \E f : Rounds(loop, base, seq, f) /\ f[Len(seq)] = g[1 .. Len(seq)]
<1> DEFINE len == Len(seq)
           f == [k \in 0 .. len |-> g[1 .. k]]
<1>1. \A s \in SUBSET (1 .. len) :
        g[s] = IF s = {} THEN base
               ELSE Body(loop, g[s \ {Max(s)}], seq[Max(s)])
  BY DEF Folding
<1>2. f[0] = base
  <2>1. 1 .. 0 = {} /\ 0 \in 0 .. len
    OBVIOUS
  <2>2. g[{}] = base
    BY <1>1
  <2> QED BY <2>1, <2>2
<1>3. ASSUME NEW k \in 1 .. len
      PROVE  f[k] = Body(loop, f[k - 1], seq[k])
  <2>1. 1 .. k \in SUBSET (1 .. len) /\ 1 .. k # {}
    OBVIOUS
  <2>2. Max(1 .. k) = k /\ (1 .. k) \ {k} = 1 .. k - 1
    BY LastOfFirst
  <2>3. g[1 .. k] = Body(loop, g[1 .. k - 1], seq[k])
    BY <1>1, <2>1, <2>2
  <2>4. f[k] = g[1 .. k] /\ f[k - 1] = g[1 .. k - 1]
    OBVIOUS
  <2> QED BY <2>3, <2>4
<1>4. f[len] = g[1 .. len]
  OBVIOUS
<1> HIDE DEF f
<1> QED BY <1>2, <1>3, <1>4 DEF Rounds

\* The function a fold over a sequence is computed with.
Iterated(loop, base, seq) ==
  CHOOSE f : Folding(loop, base, seq, DOMAIN seq, f)

\* A fold over a sequence is the last round of the loop.
LEMMA FoldedRounds ==
  ASSUME NEW loop, NEW base, NEW seq, Len(seq) \in Nat,
         DOMAIN seq = 1 .. Len(seq)
  PROVE  \E f : /\ Rounds(loop, base, seq, f)
                /\ Iterated(loop, base, seq)[DOMAIN seq] = f[Len(seq)]
<1> DEFINE iter == Iterated(loop, base, seq)
<1>1. Folding(loop, base, seq, DOMAIN seq, iter)
  BY FoldingExists DEF Iterated
<1> HIDE DEF iter
<1>2. Folding(loop, base, seq, 1 .. Len(seq), iter)
  BY <1>1
<1>3. PICK f : /\ Rounds(loop, base, seq, f)
               /\ f[Len(seq)] = iter[1 .. Len(seq)]
  BY <1>2, FoldingRounds
<1> QED BY <1>3 DEF iter

\* The options are applied one by one.
LEMMA OptionRounds ==
  ASSUME NEW seq, Len(seq) \in Nat, DOMAIN seq = 1 .. Len(seq)
  PROVE  \E f : /\ Rounds("options", DefaultConfig, seq, f)
                /\ FoldLeft(ApplyOption, DefaultConfig, seq) = f[Len(seq)]
<1>1. FoldLeft(ApplyOption, DefaultConfig, seq)
        = Iterated("options", DefaultConfig, seq)[DOMAIN seq]
  BY DEF FoldLeft, MapThenFoldSet, Iterated, Folding, Body
<1>2. \E f : /\ Rounds("options", DefaultConfig, seq, f)
             /\ Iterated("options", DefaultConfig, seq)[DOMAIN seq] = f[Len(seq)]
  BY FoldedRounds
<1> QED BY <1>1, <1>2

\* Floats are added one by one.
LEMMA FloatRounds ==
  ASSUME NEW seq, Len(seq) \in Nat, DOMAIN seq = 1 .. Len(seq)
  PROVE  \E f : Rounds("floats", 0, seq, f) /\ Sum(seq) = f[Len(seq)]
<1>1. Sum(seq) = Iterated("floats", 0, seq)[DOMAIN seq]
  BY DEF Sum, FoldLeft, MapThenFoldSet, Iterated, Folding, Body
<1>2. \E f : /\ Rounds("floats", 0, seq, f)
             /\ Iterated("floats", 0, seq)[DOMAIN seq] = f[Len(seq)]
  BY FoldedRounds
<1> QED BY <1>1, <1>2

\* So are the numbers of a list.
LEMMA NumberRounds ==
  ASSUME Len(subject.items) \in Nat, DOMAIN subject.items = 1 .. Len(subject.items)
  PROVE  \E f : /\ Rounds("numbers", 0, subject.items, f)
                /\ NumbersOfItems = f[Len(subject.items)]
<1>1. NumbersOfItems
        = Iterated("numbers", 0, subject.items)[DOMAIN subject.items]
  BY DEF NumbersOfItems, FoldLeft, MapThenFoldSet, Iterated, Folding, Body
<1>2. \E f : /\ Rounds("numbers", 0, subject.items, f)
             /\ Iterated("numbers", 0, subject.items)[DOMAIN subject.items]
                  = f[Len(subject.items)]
  BY FoldedRounds
<1> QED BY <1>1, <1>2

\* A path is followed part by part.
LEMMA PathRounds ==
  ASSUME NEW value, NEW seq, Len(seq) \in Nat, DOMAIN seq = 1 .. Len(seq)
  PROVE  \E f : /\ Rounds("path", {value}, seq, f)
                /\ LookupJSONPath(value, seq) = f[Len(seq)]
<1>1. LookupJSONPath(value, seq) = Iterated("path", {value}, seq)[DOMAIN seq]
  BY DEF LookupJSONPath, FoldLeft, MapThenFoldSet, Iterated, Folding, Body
<1>2. \E f : /\ Rounds("path", {value}, seq, f)
             /\ Iterated("path", {value}, seq)[DOMAIN seq] = f[Len(seq)]
  BY FoldedRounds
<1> QED BY <1>1, <1>2

-----------------------------------------------------------------------------
(* Options *)

\* An option sets one field or none.
LEMMA OptionShape ==
  ASSUME NEW option \in Option
  PROVE  /\ \/ DOMAIN option = {"nil"}
            \/ DOMAIN option = {"threshold"}
            \/ DOMAIN option = {"schema"}
            \/ DOMAIN option = {"expectedFields"}
            \/ DOMAIN option = {"maxLatency"}
            \/ DOMAIN option = {"minLength"}
            \/ DOMAIN option = {"maxLength"}
         /\ "threshold" \in DOMAIN option => option.threshold \in Int
         /\ "schema" \in DOMAIN option => option.schema \in Shapes \cup {NotJSON}
         /\ "expectedFields" \in DOMAIN option =>
              option.expectedFields \in Seq([path     : Seq(STRING),
                                             expected : JSON \cup {NotJSON}])
BY DEF Option

\* Fields that WithExpectedFields takes.
GoodFields(fields) ==
  /\ fields \in Seq([path : Seq(STRING), expected : JSON \cup {NotJSON}])
  /\ ~BadFields(fields)

\* An option sets the threshold, and is not refused.
SetsThreshold(option) == "threshold" \in DOMAIN option /\ ~Refused(option)

\* The threshold of a configuration is the one set last by the first k options.
ThresholdSet(list, k, cfg) ==
  \/ /\ cfg.threshold = <<7 * (Unit \div 10)>>
     /\ \A i \in 1 .. k : ~SetsThreshold(list[i])
  \/ \E i \in 1 .. k :
       /\ SetsThreshold(list[i])
       /\ cfg.threshold = <<list[i].threshold>>
       /\ \A j \in i + 1 .. k : ~SetsThreshold(list[j])

\* The configuration the first k options make.
Configured(list, k, cfg) ==
  /\ DOMAIN cfg = {"threshold", "schema", "expectedFields", "maxLatency",
                   "minLength", "maxLength", "err"}
  /\ cfg.err \in BOOLEAN
  /\ cfg.err <=> \E i \in 1 .. k : Refused(list[i])
  /\ cfg.schema = <<>> \/ \E s \in Shapes : cfg.schema = <<s>>
  /\ \/ cfg.expectedFields = <<>>
     \/ \E fields : GoodFields(fields) /\ cfg.expectedFields = <<fields>>
  /\ ThresholdSet(list, k, cfg)

\* The defaults are a configuration of no options.
LEMMA DefaultConfigured ==
  ASSUME NEW list
  PROVE  Configured(list, 0, DefaultConfig)
<1>1. ~ \E i \in 1 .. 0 : TRUE
  OBVIOUS
<1> QED BY <1>1 DEF Configured, DefaultConfig, ThresholdSet

\* One option more.
LEMMA ThresholdKept ==
  ASSUME NEW list, NEW k \in Nat, NEW cfg, NEW next, ThresholdSet(list, k, cfg),
         ~SetsThreshold(list[k + 1]), next.threshold = cfg.threshold
  PROVE  ThresholdSet(list, k + 1, next)
<1>0. \A i \in 1 .. k + 1 : i \in 1 .. k \/ i = k + 1
  OBVIOUS
<1>1. CASE cfg.threshold = <<7 * (Unit \div 10)>> /\ \A i \in 1 .. k : ~SetsThreshold(list[i])
  <2>1. \A i \in 1 .. k + 1 : ~SetsThreshold(list[i])
    BY <1>0, <1>1
  <2> QED BY <1>1, <2>1 DEF ThresholdSet
<1>2. CASE \E i \in 1 .. k :
             /\ SetsThreshold(list[i])
             /\ cfg.threshold = <<list[i].threshold>>
             /\ \A j \in i + 1 .. k : ~SetsThreshold(list[j])
  <2>1. PICK i \in 1 .. k :
             /\ SetsThreshold(list[i])
             /\ cfg.threshold = <<list[i].threshold>>
             /\ \A j \in i + 1 .. k : ~SetsThreshold(list[j])
    BY <1>2
  <2>2. \A j \in i + 1 .. k + 1 : j \in i + 1 .. k \/ j = k + 1
    OBVIOUS
  <2>3. \A j \in i + 1 .. k + 1 : ~SetsThreshold(list[j])
    BY <2>1, <2>2
  <2>4. i \in 1 .. k + 1
    OBVIOUS
  <2> QED BY <2>1, <2>3, <2>4 DEF ThresholdSet
<1> QED BY <1>1, <1>2 DEF ThresholdSet

\* A threshold set by the last option is the last.
LEMMA ThresholdChanged ==
  ASSUME NEW list, NEW k \in Nat, NEW next, SetsThreshold(list[k + 1]),
         next.threshold = <<list[k + 1].threshold>>
  PROVE  ThresholdSet(list, k + 1, next)
<1>1. k + 1 \in 1 .. k + 1
  OBVIOUS
<1>2. \A j \in (k + 1) + 1 .. k + 1 : ~SetsThreshold(list[j])
  OBVIOUS
<1> QED BY <1>1, <1>2 DEF ThresholdSet

\* An option more keeps a configuration one.
LEMMA OptionConfigures ==
  ASSUME NEW list, NEW k \in Nat, NEW cfg, Configured(list, k, cfg),
         list[k + 1] \in Option
  PROVE  Configured(list, k + 1, ApplyOption(cfg, list[k + 1]))
<1> DEFINE option == list[k + 1]
           next == ApplyOption(cfg, option)
<1>0. \A i \in 1 .. k + 1 : i \in 1 .. k \/ i = k + 1
  OBVIOUS
<1>1. (\E i \in 1 .. k + 1 : Refused(list[i]))
        <=> (\E i \in 1 .. k : Refused(list[i])) \/ Refused(option)
  <2>1. \A i \in 1 .. k : i \in 1 .. k + 1
    OBVIOUS
  <2>2. k + 1 \in 1 .. k + 1
    OBVIOUS
  <2> QED BY <1>0, <2>1, <2>2
<1>2. /\ \/ DOMAIN option = {"nil"}
         \/ DOMAIN option = {"threshold"}
         \/ DOMAIN option = {"schema"}
         \/ DOMAIN option = {"expectedFields"}
         \/ DOMAIN option = {"maxLatency"}
         \/ DOMAIN option = {"minLength"}
         \/ DOMAIN option = {"maxLength"}
      /\ "schema" \in DOMAIN option => option.schema \in Shapes \cup {NotJSON}
      /\ "expectedFields" \in DOMAIN option =>
           option.expectedFields \in Seq([path     : Seq(STRING),
                                          expected : JSON \cup {NotJSON}])
  BY OptionShape
<1>c. /\ DOMAIN cfg = {"threshold", "schema", "expectedFields", "maxLatency",
                       "minLength", "maxLength", "err"}
      /\ cfg.err \in BOOLEAN
      /\ cfg.err <=> \E i \in 1 .. k : Refused(list[i])
      /\ cfg.schema = <<>> \/ \E s \in Shapes : cfg.schema = <<s>>
      /\ \/ cfg.expectedFields = <<>>
         \/ \E fields : GoodFields(fields) /\ cfg.expectedFields = <<fields>>
      /\ ThresholdSet(list, k, cfg)
  BY DEF Configured
<1> HIDE DEF option
<1>4. CASE "nil" \in DOMAIN option
  <2>1. DOMAIN option = {"nil"}
    BY <1>2, <1>4
  <2>2. ~Refused(option) /\ ~SetsThreshold(option)
    BY <2>1 DEF Refused, SetsThreshold
  <2>3. next = cfg
    BY <1>4 DEF ApplyOption
  <2>4. ThresholdSet(list, k + 1, next)
    BY <1>c, <2>2, <2>3, ThresholdKept DEF option
  <2> QED BY <1>1, <1>c, <2>2, <2>3, <2>4 DEF Configured, option
<1>5. CASE "nil" \notin DOMAIN option /\ Refused(option)
  <2>1. next = [cfg EXCEPT !.err = TRUE]
    BY <1>5 DEF ApplyOption
  <2>2. /\ DOMAIN next = DOMAIN cfg /\ next.err = TRUE
        /\ next.schema = cfg.schema /\ next.expectedFields = cfg.expectedFields
        /\ next.threshold = cfg.threshold
    BY <1>c, <2>1
  <2> HIDE DEF next
  <2>3. ThresholdSet(list, k + 1, next)
    BY <1>5, <1>c, <2>2, ThresholdKept DEF option, SetsThreshold
  <2>4. Configured(list, k + 1, next)
    BY <1>1, <1>5, <1>c, <2>2, <2>3 DEF Configured
  <2> QED BY <2>4 DEF next, option
<1>6. CASE "nil" \notin DOMAIN option /\ ~Refused(option)
  <2>1. next = [f \in DOMAIN cfg |->
                  IF f \in DOMAIN option THEN <<option[f]>> ELSE cfg[f]]
    BY <1>6 DEF ApplyOption
  <2>2. /\ DOMAIN next = DOMAIN cfg
        /\ next.err = IF "err" \in DOMAIN option THEN <<option["err"]>> ELSE cfg.err
        /\ next.schema =
             IF "schema" \in DOMAIN option THEN <<option.schema>> ELSE cfg.schema
        /\ next.expectedFields =
             IF "expectedFields" \in DOMAIN option THEN <<option.expectedFields>>
             ELSE cfg.expectedFields
        /\ next.threshold =
             IF "threshold" \in DOMAIN option THEN <<option.threshold>>
             ELSE cfg.threshold
    BY <1>c, <2>1
  <2> HIDE DEF next
  <2>3. next.err = cfg.err
    BY <1>2, <2>2
  <2>4. next.schema = <<>> \/ \E s \in Shapes : next.schema = <<s>>
    BY <1>2, <1>6, <1>c, <2>2 DEF Refused
  <2>5. \/ next.expectedFields = <<>>
        \/ \E fields : GoodFields(fields) /\ next.expectedFields = <<fields>>
    <3>1. CASE "expectedFields" \in DOMAIN option
      <4>1. GoodFields(option.expectedFields)
        BY <1>2, <1>6, <3>1 DEF GoodFields, Refused
      <4> QED BY <2>2, <3>1, <4>1
    <3>2. CASE "expectedFields" \notin DOMAIN option
      BY <1>c, <2>2, <3>2
    <3> QED BY <3>1, <3>2
  <2>6. ThresholdSet(list, k + 1, next)
    <3>1. CASE "threshold" \in DOMAIN option
      BY <1>6, <2>2, <3>1, ThresholdChanged DEF option, SetsThreshold
    <3>2. CASE "threshold" \notin DOMAIN option
      BY <1>c, <2>2, <3>2, ThresholdKept DEF option, SetsThreshold
    <3> QED BY <3>1, <3>2
  <2>7. Configured(list, k + 1, next)
    BY <1>1, <1>6, <1>c, <2>2, <2>3, <2>4, <2>5, <2>6 DEF Configured
  <2> QED BY <2>7 DEF next, option
<1> QED BY <1>4, <1>5, <1>6

\* All of them.
LEMMA OptionsConfigure ==
  ASSUME NEW list \in Seq(Option)
  PROVE  Configured(list, Len(list), FoldLeft(ApplyOption, DefaultConfig, list))
<1>0. Len(list) \in Nat /\ DOMAIN list = 1 .. Len(list)
      /\ \A i \in 1 .. Len(list) : list[i] \in Option
  BY LenProperties
<1>1. PICK f : /\ Rounds("options", DefaultConfig, list, f)
               /\ FoldLeft(ApplyOption, DefaultConfig, list) = f[Len(list)]
  BY <1>0, OptionRounds
<1>2. f[0] = DefaultConfig
  BY <1>1 DEF Rounds
<1>3. \A k \in 1 .. Len(list) : f[k] = ApplyOption(f[k - 1], list[k])
  BY <1>1 DEF Rounds, Body
<1> DEFINE bad == {k \in 0 .. Len(list) : ~Configured(list, k, f[k])}
<1> SUFFICES bad = {}
  <2>1. Len(list) \in 0 .. Len(list)
    BY <1>0
  <2> QED BY <1>1, <2>1
<1> SUFFICES ASSUME bad # {} PROVE FALSE
  OBVIOUS
<1>4. PICK k \in bad : \A j \in bad : k <= j
  <2>1. bad \subseteq Nat
    BY <1>0
  <2> HIDE DEF bad
  <2> QED BY <2>1, LeastExists
<1>5. k \in 0 .. Len(list) /\ ~Configured(list, k, f[k])
  OBVIOUS
<1>6. k # 0
  BY <1>2, <1>5, DefaultConfigured
<1>7. k - 1 \in Nat /\ k - 1 \in 0 .. Len(list) /\ (k - 1) + 1 = k
      /\ k \in 1 .. Len(list)
  BY <1>0, <1>5, <1>6
<1>8. Configured(list, k - 1, f[k - 1])
  <2>1. k - 1 \notin bad
    <3> HIDE DEF bad
    <3>1. ~ (k <= k - 1)
      BY <1>7
    <3> QED BY <1>4, <3>1
  <2> QED BY <1>7, <2>1
<1>9. list[k] \in Option
  BY <1>0, <1>7
<1> HIDE DEF bad
<1>10. Configured(list, k, ApplyOption(f[k - 1], list[k]))
  <2> DEFINE c == f[k - 1]
             m == k - 1
  <2>1. m \in Nat /\ Configured(list, m, c) /\ list[m + 1] \in Option
    BY <1>7, <1>8, <1>9
  <2> HIDE DEF c, m
  <2>2. Configured(list, m + 1, ApplyOption(c, list[m + 1]))
    BY <2>1, OptionConfigures
  <2> QED BY <1>7, <2>2 DEF c, m
<1> QED BY <1>3, <1>5, <1>7, <1>10

\* A metric that is not invalid has good options and a configuration of them.
LEMMA ConfigSet ==
  ASSUME NEW m, NEW arg, NEW list \in Seq(Option), ~Invalid(m, arg, list)
  PROVE  LET cfg == ApplyOptions(list)
         IN  /\ \A i \in 1 .. Len(list) : ~Refused(list[i])
             /\ ThresholdSet(list, Len(list), cfg)
             /\ m = "schema_compliance" => cfg.schema[1] \in Shapes
             /\ m = "expected_json" => GoodFields(cfg.expectedFields[1])
<1> DEFINE folded == FoldLeft(ApplyOption, DefaultConfig, list)
           cfg == ApplyOptions(list)
           crossed == /\ folded.minLength # <<>>
                      /\ folded.maxLength # <<>>
                      /\ folded.minLength[1] > folded.maxLength[1]
<1>1. Configured(list, Len(list), folded)
  BY OptionsConfigure
<1>2. cfg = [folded EXCEPT !.err = @ \/ crossed]
  BY DEF ApplyOptions
<1>3. ~cfg.err /\ ~Lacks(m, cfg)
  BY DEF Invalid
<1> HIDE DEF folded, cfg, crossed
<1>4. /\ cfg.threshold = folded.threshold /\ cfg.schema = folded.schema
      /\ cfg.expectedFields = folded.expectedFields
      /\ cfg.err = (folded.err \/ crossed)
  BY <1>1, <1>2, Zenon DEF Configured
<1>5. ~folded.err
  BY <1>3, <1>4
<1>6. \A i \in 1 .. Len(list) : ~Refused(list[i])
  BY <1>1, <1>5 DEF Configured
<1>7. ThresholdSet(list, Len(list), cfg)
  BY <1>1, <1>4 DEF Configured, ThresholdSet
<1>8. ASSUME m = "schema_compliance" PROVE cfg.schema[1] \in Shapes
  <2>1. cfg.schema # <<>>
    BY <1>3, <1>8 DEF Lacks
  <2>2. PICK s \in Shapes : cfg.schema = <<s>>
    BY <1>1, <1>4, <2>1 DEF Configured
  <2> QED BY <2>2
<1>9. ASSUME m = "expected_json" PROVE GoodFields(cfg.expectedFields[1])
  <2>1. cfg.expectedFields # <<>>
    BY <1>3, <1>9 DEF Lacks
  <2>2. PICK fields : GoodFields(fields) /\ cfg.expectedFields = <<fields>>
    BY <1>1, <1>4, <2>1 DEF Configured
  <2>3. cfg.expectedFields[1] = fields
    BY <2>2
  <2> QED BY <2>2, <2>3
<1> QED BY <1>6, <1>7, <1>8, <1>9 DEF cfg

\* The threshold counts that was given last, or 0.7.
LEMMA ThresholdIsLast ==
  ASSUME options \in Seq(Option), ThresholdSet(options, Len(options), Config),
         \A i \in 1 .. Len(options) : ~Refused(options[i])
  PROVE  /\ Config.threshold[1] = LastThreshold
         /\ LastThreshold \in Int /\ InUnit(LastThreshold)
<1> DEFINE given == {i \in DOMAIN options : "threshold" \in DOMAIN options[i]}
<1>0. Len(options) \in Nat /\ DOMAIN options = 1 .. Len(options)
  BY LenProperties
<1>1. \A i \in 1 .. Len(options) :
        SetsThreshold(options[i]) <=> "threshold" \in DOMAIN options[i]
  BY DEF SetsThreshold
<1>2. CASE /\ Config.threshold = <<7 * (Unit \div 10)>>
           /\ \A i \in 1 .. Len(options) : ~SetsThreshold(options[i])
  <2>1. given = {}
    BY <1>0, <1>1, <1>2
  <2> QED BY <1>2, <2>1, DefaultInUnit DEF LastThreshold
<1>3. CASE \E i \in 1 .. Len(options) :
             /\ SetsThreshold(options[i])
             /\ Config.threshold = <<options[i].threshold>>
             /\ \A j \in i + 1 .. Len(options) : ~SetsThreshold(options[j])
  <2>1. PICK i \in 1 .. Len(options) :
             /\ SetsThreshold(options[i])
             /\ Config.threshold = <<options[i].threshold>>
             /\ \A j \in i + 1 .. Len(options) : ~SetsThreshold(options[j])
    BY <1>3
  <2>2. i \in given
    BY <1>0, <1>1, <2>1
  <2>3. \A j \in given : i >= j
    <3> TAKE j \in given
    <3>1. j \in 1 .. Len(options) /\ SetsThreshold(options[j])
      BY <1>0, <1>1
    <3> SUFFICES ASSUME j > i PROVE FALSE
      BY <1>0, <3>1
    <3>2. j \in i + 1 .. Len(options)
      BY <1>0, <3>1
    <3> QED BY <2>1, <3>1, <3>2
  <2>4. given \subseteq Nat
    BY <1>0
  <2> HIDE DEF given
  <2>5. Max(given) \in given /\ \A j \in given : Max(given) >= j
    BY <2>2, <2>3 DEF Max
  <2>6. Max(given) = i
    <3> DEFINE top == Max(given)
    <3>1. top \in given /\ top >= i /\ i >= top
      BY <2>2, <2>3, <2>5
    <3> HIDE DEF top
    <3>2. top \in Nat /\ i \in Nat
      BY <2>2, <2>4, <3>1
    <3>3. top = i
      BY <3>1, <3>2
    <3> QED BY <3>3 DEF top
  <2>7. LastThreshold = options[i].threshold
    BY <2>2, <2>6 DEF LastThreshold, given
  <2>8. InUnit(options[i].threshold) /\ options[i].threshold \in Int
    <3>1. InUnit(options[i].threshold) /\ "threshold" \in DOMAIN options[i]
      BY <2>1 DEF SetsThreshold, Refused
    <3>2. options[i] \in Option
      BY <1>0
    <3> QED BY <3>1, <3>2, OptionShape
  <2> QED BY <2>1, <2>7, <2>8
<1> QED BY <1>2, <1>3 DEF ThresholdSet

-----------------------------------------------------------------------------
(* Scores *)

\* A score reaches every threshold that its fraction reaches.
Meets(r, a, b) == \A t \in Int : Unit * a >= t * b => r >= Float(t)

\* The float of a fraction does, and is near the fraction.
LEMMA FractionScore ==
  ASSUME NEW num \in Nat, NEW den \in Nat \ {0}, num <= den
  PROVE  /\ Round(num * One, den) \in 0 .. One
         /\ Within(Round(num * One, den), num, den, 1)
         /\ Meets(Round(num * One, den), num, den)
<1> DEFINE r == Round(num * One, den)
<1>0. One \in Nat \ {0} /\ Unit \in Nat \ {0} /\ Ulp \in Nat \ {0}
  BY Sizes
<1>1. r \in 0 .. One
  BY RoundFraction
<1>2. num * One \in Nat /\ num * One <= den * (1 * One)
  <2>1. One * num <= One * den
    BY <1>0, TimesMonotone
  <2>2. One * num = num * One /\ One * den = den * (1 * One) /\ num * One \in Nat
    BY <1>0, SMT
  <2> QED BY <2>1, <2>2
<1>3. Within(r, num, den, 1)
  <2>1. den * r <= num * One + den * (1 * Ulp) /\ num * One <= den * r + den * (1 * Ulp)
    BY <1>2, RoundWithin
  <2>2. den * (1 * Ulp) = 1 * (den * Ulp)
    BY <1>0, SMT
  <2> QED BY <2>1, <2>2 DEF Within
<1>4. Meets(r, num, den)
  <2> SUFFICES ASSUME NEW t \in Int, Unit * num >= t * den PROVE r >= Float(t)
    BY DEF Meets
  <2> HIDE DEF r
  <2>1. CASE t < 0
    <3>1. Float(t) <= 0 /\ Float(t) \in Int
      BY <2>1, FloatMonotone, FloatEnds
    <3> QED BY <1>0, <1>1, <3>1
  <2>2. CASE ~ (t < 0)
    <3>1. t \in Nat /\ t * One \in Nat /\ t * den \in Nat /\ Unit * num \in Nat
      BY <1>0, <2>2, SMT
    <3>2. One * (t * den) <= One * (Unit * num)
      BY <1>0, <3>1, TimesMonotone
    <3>3. One * (t * den) = den * (t * One) /\ One * (Unit * num) = Unit * (num * One)
      BY <1>0, <3>1, SMT
    <3>4. Round(t * One, Unit) <= Round(num * One, den)
      BY <1>0, <1>2, <3>1, <3>2, <3>3, RoundMonotone
    <3>5. Float(t) = Round(t * One, Unit)
      BY <2>2 DEF Float
    <3>6. Round(t * One, Unit) \in Nat
      BY <1>0, <3>1, RoundType
    <3>7. r >= Round(t * One, Unit)
      BY <1>0, <1>1, <3>4, <3>6 DEF r
    <3> QED BY <3>5, <3>7
  <2> QED BY <2>1, <2>2
<1> QED BY <1>1, <1>3, <1>4

(***************************************************************************)
(* A score is the fraction e, but for the last bit of one k times, and     *)
(* reaches every threshold that e reaches if it is exact.                  *)
(***************************************************************************)
ScoresAs(s, e, k, exact) ==
  /\ s \in 0 .. One /\ e[1] \in Int /\ e[2] \in Nat \ {0} /\ k \in Nat
  /\ Within(s, e[1], e[2], k)
  /\ exact => Meets(s, e[1], e[2])

\* More doubt does no harm.
LEMMA ScoresLoosely ==
  ASSUME NEW s, NEW e, NEW j, ScoresAs(s, e, j, TRUE), NEW k \in Nat, j <= k
  PROVE  ScoresAs(s, e, k, TRUE)
<1>1. /\ s \in 0 .. One /\ e[1] \in Int /\ e[2] \in Nat \ {0} /\ j \in Nat
      /\ Within(s, e[1], e[2], j) /\ Meets(s, e[1], e[2])
  BY DEF ScoresAs
<1> DEFINE w == e[2] * Ulp
           p == e[2] * s
           q == e[1] * One
<1>2. w \in Nat /\ p \in Int /\ q \in Int
  BY <1>1, Sizes, SMT
<1>3. w * j <= w * k
  BY <1>1, <1>2, TimesMonotone
<1>4. p <= q + j * w /\ q <= p + j * w
  BY <1>1 DEF Within
<1>5. w * j = j * w /\ w * k = k * w /\ j * w \in Nat /\ k * w \in Nat
  <2> HIDE DEF w
  <2> QED BY <1>1, <1>2, SMT
<1>6. p <= q + k * w /\ q <= p + k * w
  <2> DEFINE jw == j * w
             kw == k * w
  <2>1. jw \in Nat /\ kw \in Nat /\ jw <= kw /\ p <= q + jw /\ q <= p + jw
    BY <1>3, <1>4, <1>5
  <2> HIDE DEF w, p, q, jw, kw
  <2>2. p <= q + kw /\ q <= p + kw
    BY <1>2, <2>1
  <2> QED BY <2>2 DEF kw
<1> QED BY <1>1, <1>6 DEF ScoresAs, Within

\* The float of a fraction is a score.
LEMMA FractionAs ==
  ASSUME NEW num \in Nat, NEW den \in Nat \ {0}, num <= den
  PROVE  ScoresAs(Round(num * One, den), <<num, den>>, 1, TRUE)
BY FractionScore DEF ScoresAs

\* Nothing and everything.
LEMMA EndScores ==
  \A k \in {1, 2} : ScoresAs(0, <<0, 1>>, k, TRUE) /\ ScoresAs(One, <<1, 1>>, k, TRUE)
<1>1. 0 \in Nat /\ 1 \in Nat \ {0} /\ 0 <= 1 /\ 1 <= 1
  OBVIOUS
<1>2. Round(0 * One, 1) = 0 /\ Round(1 * One, 1) = One
  BY <1>1, RoundFraction
<1>3. ScoresAs(0, <<0, 1>>, 1, TRUE) /\ ScoresAs(One, <<1, 1>>, 1, TRUE)
  BY <1>1, <1>2, FractionAs
<1>4. ScoresAs(0, <<0, 1>>, 2, TRUE) /\ ScoresAs(One, <<1, 1>>, 2, TRUE)
  BY <1>3, ScoresLoosely, 1 <= 2, 2 \in Nat
<1> QED BY <1>3, <1>4

\* A number a judge gave.
LEMMA GivenScore ==
  ASSUME NEW n \in Int, InUnit(n)
  PROVE  ScoresAs(Float(n), <<n, Unit>>, 1, TRUE)
<1>0. Unit \in Nat \ {0}
  BY Sizes
<1>1. Float(n) \in 0 .. One /\ Within(Float(n), n, Unit, 1)
  BY FloatNear
<1>2. Meets(Float(n), n, Unit)
  <2> SUFFICES ASSUME NEW t \in Int, Unit * n >= t * Unit PROVE Float(n) >= Float(t)
    BY DEF Meets
  <2>1. t <= n
    <3> SUFFICES ASSUME n < t PROVE FALSE
      OBVIOUS
    <3>1. Unit * n < Unit * t
      BY <1>0, TimesStrict
    <3>2. Unit * t = t * Unit /\ Unit * n \in Int /\ t * Unit \in Int
      BY <1>0, SMT
    <3> QED BY <3>1, <3>2
  <2> QED BY <2>1, FloatMonotone
<1> QED BY <1>0, <1>1, <1>2 DEF ScoresAs

\* The share of flagged elements.
LEMMA RatioScore ==
  ASSUME NEW items, NEW n \in Nat \ {0}, Len(items) = n, DOMAIN items = 1 .. n
  PROVE  ScoresAs(Ratio(items), <<Flagged(items), n>>, 1, TRUE)
<1>1. items # <<>>
  OBVIOUS
<1>2. Ratio(items) = Round(Flagged(items) * One, n)
  BY <1>1 DEF Ratio
<1>3. Flagged(items) \in 0 .. n
  BY FlaggedCounts
<1>4. Flagged(items) \in Nat /\ Flagged(items) <= n
  BY <1>3
<1> QED BY <1>2, <1>4, FractionAs

\* Its complement, rounded once more.
LEMMA InverseScore ==
  ASSUME NEW items, NEW n \in Nat \ {0}, Len(items) = n, DOMAIN items = 1 .. n
  PROVE  ScoresAs(InverseRatio(items), <<n - Flagged(items), n>>, 2, FALSE)
<1> DEFINE R == Ratio(items)
           c == Flagged(items)
           r == InverseRatio(items)
<1>0. /\ One \in Nat \ {0} /\ Ulp \in Nat \ {0} /\ 1 \in 0 .. Resolution
      /\ 1 * One = One
  BY Sizes
<1>1. r = Round(One - R, 1)
  <2>1. items # <<>>
    OBVIOUS
  <2> QED BY <2>1 DEF InverseRatio
<1>2. R \in 0 .. One /\ Within(R, c, n, 1)
  BY RatioScore DEF ScoresAs
<1>3. c \in 0 .. n
  BY FlaggedCounts
<1> HIDE DEF R, c, r
<1>4. One - R \in Nat /\ One - R <= 1 * (1 * One)
  BY <1>0, <1>2
<1>5. r \in Nat /\ r <= One - R + Ulp /\ One - R <= r + Ulp
  <2>1. /\ r \in Nat
        /\ 1 * r <= One - R + 1 * (1 * Ulp)
        /\ One - R <= 1 * r + 1 * (1 * Ulp)
    BY <1>1, <1>4, RoundWithin
  <2> QED BY <1>0, <2>1
<1>6. r <= One
  BY <1>0, <1>1, <1>4, RoundBetween
<1>7. Within(r, n - c, n, 2)
  <2> DEFINE nr == n * r
             nR == n * R
             nO == n * One
             cO == c * One
             nU == n * Ulp
  <2>1. n * r <= n * (One - R + Ulp) /\ n * (One - R) <= n * (r + Ulp)
    BY <1>0, <1>2, <1>5, TimesMonotone
  <2>2. /\ n * (One - R + Ulp) = nO - nR + nU
        /\ n * (One - R) = nO - nR
        /\ n * (r + Ulp) = nr + nU
        /\ (n - c) * One = nO - cO
        /\ 1 * (n * Ulp) = nU /\ 2 * (n * Ulp) = 2 * nU
    BY <1>0, <1>2, <1>3, <1>5, SMT
  <2>3. nO \in Nat /\ nR \in Nat /\ nr \in Nat /\ cO \in Nat /\ nU \in Nat
    BY <1>0, <1>2, <1>3, <1>5, SMT
  <2>4. nR <= cO + nU /\ cO <= nR + nU
    BY <1>2, <2>2 DEF Within
  <2>5. nr <= nO - nR + nU /\ nO - nR <= nr + nU
    BY <2>1, <2>2
  <2> HIDE DEF nr, nR, nO, cO, nU
  <2>6. nr <= (nO - cO) + 2 * nU /\ nO - cO <= nr + 2 * nU
    BY <2>3, <2>4, <2>5
  <2>7. n * r = nr /\ (n - c) * One = nO - cO /\ 2 * (n * Ulp) = 2 * nU
    BY <2>2 DEF nr
  <2> QED BY <2>6, <2>7 DEF Within
<1>8. n - c \in Int /\ r \in 0 .. One
  BY <1>0, <1>3, <1>5, <1>6
<1>9. ScoresAs(r, <<n - c, n>>, 2, FALSE)
  BY <1>7, <1>8 DEF ScoresAs
<1> QED BY <1>9 DEF r, c

\* One float more in a sum.
LEMMA AddFloat ==
  ASSUME NEW k \in Nat, k + 1 <= Resolution,
         NEW a \in 0 .. k * One, NEW x \in 0 .. One
  PROVE  /\ Round(a + x, 1) \in 0 .. (k + 1) * One
         /\ Round(a + x, 1) <= a + x + (k + 1) * Ulp
         /\ a + x <= Round(a + x, 1) + (k + 1) * Ulp
<1>0. One \in Nat \ {0} /\ Ulp \in Nat \ {0} /\ Resolution \in Nat /\ k * One \in Nat
      /\ (k + 1) * One = k * One + One /\ (k + 1) * Ulp \in Nat
  BY Sizes, SMT
<1>1. a + x \in Nat /\ a + x <= 1 * ((k + 1) * One)
  BY <1>0
<1>2. k + 1 \in 0 .. Resolution /\ k + 1 \in Nat \ {0}
  BY <1>0
<1>3. Round(a + x, 1) <= (k + 1) * One
  BY <1>1, <1>2, RoundBetween
<1>4. /\ Round(a + x, 1) \in Nat
      /\ 1 * Round(a + x, 1) <= a + x + 1 * ((k + 1) * Ulp)
      /\ a + x <= 1 * Round(a + x, 1) + 1 * ((k + 1) * Ulp)
  BY <1>1, <1>2, RoundWithin
<1> QED BY <1>0, <1>3, <1>4

\* A sum of k floats is near the sum of the numbers they were read from.
NearSum(k, a, s) ==
  /\ a \in 0 .. k * One
  /\ s \in Int
  /\ Unit * a <= s * One + (k * (k + 1)) * (Unit * Ulp)
  /\ s * One <= Unit * a + (k * (k + 1)) * (Unit * Ulp)

\* One float more stays near.
LEMMA NearStep ==
  ASSUME NEW k \in Nat, k + 1 <= Resolution, NEW a, NEW s, NearSum(k, a, s),
         NEW t \in Int, InUnit(t)
  PROVE  NearSum(k + 1, Round(a + Float(t), 1), s + t)
<1> DEFINE x == Float(t)
           b == Round(a + x, 1)
           e == Unit * Ulp
<1>0. One \in Nat \ {0} /\ Ulp \in Nat \ {0} /\ Unit \in Nat \ {0} /\ k * One \in Nat
  BY Sizes, SMT
<1>1. x \in 0 .. One /\ Unit * x <= t * One + 1 * e /\ t * One <= Unit * x + 1 * e
  BY FloatNear DEF Within
<1>2. /\ a \in 0 .. k * One /\ s \in Int
      /\ Unit * a <= s * One + (k * (k + 1)) * e
      /\ s * One <= Unit * a + (k * (k + 1)) * e
  BY DEF NearSum
<1> HIDE DEF x
<1>3. /\ b \in 0 .. (k + 1) * One
      /\ b <= a + x + (k + 1) * Ulp
      /\ a + x <= b + (k + 1) * Ulp
  BY <1>1, <1>2, AddFloat
<1> HIDE DEF b
<1>4. a \in Nat /\ x \in Nat /\ b \in Nat /\ e \in Nat
  BY <1>0, <1>1, <1>2, <1>3, SMT
<1> DEFINE Ua == Unit * a
           Ux == Unit * x
           Ub == Unit * b
           sO == s * One
           tO == t * One
           ke == k * e
           kke == k * ke
<1>5. Ub <= Ua + Ux + ke + e /\ Ua + Ux <= Ub + ke + e
  <2>1. (k + 1) * Ulp \in Nat
    BY <1>0, SMT
  <2>2. /\ Unit * b <= Unit * (a + x + (k + 1) * Ulp)
        /\ Unit * (a + x) <= Unit * (b + (k + 1) * Ulp)
    BY <1>0, <1>3, <1>4, <2>1, TimesMonotone
  <2>3. /\ Unit * (a + x + (k + 1) * Ulp) = Ua + Ux + ke + e
        /\ Unit * (a + x) = Ua + Ux
        /\ Unit * (b + (k + 1) * Ulp) = Ub + ke + e
    BY <1>0, <1>4, SMT
  <2> QED BY <2>2, <2>3
<1>6. /\ (k * (k + 1)) * e = kke + ke
      /\ ((k + 1) * ((k + 1) + 1)) * e = kke + 3 * ke + 2 * e
      /\ (s + t) * One = sO + tO
  BY <1>0, <1>2, <1>4, SMT
<1>7. /\ Ua \in Int /\ Ux \in Int /\ Ub \in Int /\ sO \in Int /\ tO \in Int
      /\ ke \in Nat /\ kke \in Nat
  <2>1. ke \in Nat
    BY <1>4, SMT
  <2>2. kke \in Nat
    <3> HIDE DEF ke
    <3> QED BY <2>1, SMT
  <2> QED BY <1>0, <1>2, <1>4, <2>1, <2>2, SMT
<1>8. /\ Ua <= sO + (kke + ke) /\ sO <= Ua + (kke + ke)
      /\ Ux <= tO + e /\ tO <= Ux + e
  BY <1>1, <1>2, <1>4, <1>6
<1> HIDE DEF Ua, Ux, Ub, sO, tO, ke, kke, e
<1>9. /\ Ub <= (sO + tO) + (kke + 3 * ke + 2 * e)
      /\ sO + tO <= Ub + (kke + 3 * ke + 2 * e)
  BY <1>4, <1>5, <1>7, <1>8
<1>10. NearSum(k + 1, b, s + t)
  BY <1>2, <1>3, <1>6, <1>9 DEF NearSum, Ub, e
<1> QED BY <1>10 DEF x, b

\* The sum of a list.
LEMMA SumNear ==
  ASSUME NEW n \in 0 .. Resolution, NEW floats, Len(floats) = n,
         DOMAIN floats = 1 .. n, NEW numbers, NEW sums,
         \A i \in 1 .. n : /\ numbers[i] \in Int /\ InUnit(numbers[i])
                           /\ floats[i] = Float(numbers[i]),
         sums[0] = 0, \A i \in 1 .. n : sums[i] = sums[i - 1] + numbers[i]
  PROVE  NearSum(n, Sum(floats), sums[n])
<1>0. n \in Nat /\ Resolution \in Nat /\ n <= Resolution
  BY Sizes
<1>1. PICK f : Rounds("floats", 0, floats, f) /\ Sum(floats) = f[n]
  BY <1>0, FloatRounds
<1>2. f[0] = 0 /\ \A k \in 1 .. n : f[k] = Round(f[k - 1] + Float(numbers[k]), 1)
  BY <1>1 DEF Rounds, Body
<1> DEFINE bad == {k \in 0 .. n : ~NearSum(k, f[k], sums[k])}
<1> SUFFICES bad = {}
  <2>1. n \in 0 .. n
    BY <1>0
  <2> QED BY <1>1, <2>1
<1> SUFFICES ASSUME bad # {} PROVE FALSE
  OBVIOUS
<1>3. PICK k \in bad : \A j \in bad : k <= j
  <2>1. bad \subseteq Nat
    BY <1>0
  <2> HIDE DEF bad
  <2> QED BY <2>1, LeastExists
<1>4. k \in 0 .. n /\ ~NearSum(k, f[k], sums[k])
  OBVIOUS
<1>5. NearSum(0, 0, 0)
  <2>1. One \in Nat /\ Unit \in Nat /\ Ulp \in Nat
    BY Sizes
  <2>2. Unit * 0 = 0 /\ 0 * One = 0 /\ (0 * (0 + 1)) * (Unit * Ulp) = 0
    BY <2>1, SMT
  <2> QED BY <2>1, <2>2 DEF NearSum
<1>6. k # 0
  BY <1>2, <1>4, <1>5
<1> DEFINE j == k - 1
<1>7. /\ j \in Nat /\ j \in 0 .. n /\ j + 1 = k /\ k \in 1 .. n /\ j + 1 <= Resolution
      /\ ~ (k <= j)
  BY <1>0, <1>4, <1>6
<1>8. NearSum(j, f[j], sums[j])
  <2>1. j \notin bad
    <3> HIDE DEF bad, j
    <3> QED BY <1>3, <1>7
  <2> QED BY <1>7, <2>1
<1>9. f[k] = Round(f[j] + Float(numbers[k]), 1) /\ sums[k] = sums[j] + numbers[k]
  BY <1>2, <1>7
<1>10. numbers[k] \in Int /\ InUnit(numbers[k])
  BY <1>7
<1> HIDE DEF bad, j
<1>11. NearSum(j + 1, Round(f[j] + Float(numbers[k]), 1), sums[j] + numbers[k])
  BY <1>7, <1>8, <1>10, NearStep
<1> QED BY <1>4, <1>7, <1>9, <1>11

\* Their mean.
LEMMA MeanNear ==
  ASSUME NEW n \in 1 .. Resolution, NEW a, NEW s, NearSum(n, a, s)
  PROVE  ScoresAs(Round(a, n), <<s, Unit * n>>, n + 2, FALSE)
<1> DEFINE r == Round(a, n)
           e == Unit * Ulp
<1>0. /\ One \in Nat \ {0} /\ Ulp \in Nat \ {0} /\ Unit \in Nat \ {0}
      /\ n \in Nat \ {0} /\ 1 \in 0 .. Resolution /\ 1 * One = One /\ e \in Nat
  BY Sizes, SMT
<1>1. /\ a \in 0 .. n * One /\ s \in Int
      /\ Unit * a <= s * One + (n * (n + 1)) * e
      /\ s * One <= Unit * a + (n * (n + 1)) * e
  BY DEF NearSum
<1>2. a \in Nat /\ a <= n * One /\ n * One \in Nat
  BY <1>0, <1>1, SMT
<1>3. /\ r \in Nat
      /\ n * r <= a + n * (1 * Ulp)
      /\ a <= n * r + n * (1 * Ulp)
  BY <1>0, <1>2, RoundWithin
<1>4. r <= One
  BY <1>0, <1>2, RoundBetween
<1> HIDE DEF r
<1> DEFINE Ur == Unit * (n * r)
           Ua == Unit * a
           ne == n * e
           nne == n * ne
           sO == s * One
<1>5. Ur <= Ua + ne /\ Ua <= Ur + ne
  <2>1. n * r \in Nat /\ n * (1 * Ulp) \in Nat
    BY <1>0, <1>3, SMT
  <2>2. /\ Unit * (n * r) <= Unit * (a + n * (1 * Ulp))
        /\ Unit * a <= Unit * (n * r + n * (1 * Ulp))
    BY <1>0, <1>2, <1>3, <2>1, TimesMonotone
  <2>3. /\ Unit * (a + n * (1 * Ulp)) = Ua + ne
        /\ Unit * (n * r + n * (1 * Ulp)) = Ur + ne
    BY <1>0, <1>2, <1>3, SMT
  <2> QED BY <2>2, <2>3
<1>6. /\ (n * (n + 1)) * e = nne + ne
      /\ (n + 2) * ((Unit * n) * Ulp) = nne + 2 * ne
      /\ (Unit * n) * r = Ur
  BY <1>0, <1>3, SMT
<1>7. Ur \in Int /\ Ua \in Int /\ sO \in Int /\ ne \in Nat /\ nne \in Nat
  <2>1. ne \in Nat
    BY <1>0, SMT
  <2>2. nne \in Nat
    <3> HIDE DEF ne
    <3> QED BY <1>0, <2>1, SMT
  <2> QED BY <1>0, <1>1, <1>2, <1>3, <2>1, <2>2, SMT
<1>8. Ua <= sO + (nne + ne) /\ sO <= Ua + (nne + ne)
  BY <1>1, <1>6
<1>9. Unit * n \in Nat \ {0} /\ n + 2 \in Nat /\ r \in 0 .. One
  BY <1>0, <1>3, <1>4, SMT
<1> HIDE DEF Ur, Ua, ne, nne, sO, e
<1>10. Ur <= sO + (nne + 2 * ne) /\ sO <= Ur + (nne + 2 * ne)
  BY <1>5, <1>7, <1>8
<1>11. Within(r, s, Unit * n, n + 2)
  BY <1>6, <1>10 DEF Within, sO
<1>12. ScoresAs(r, <<s, Unit * n>>, n + 2, FALSE)
  BY <1>1, <1>9, <1>11 DEF ScoresAs
<1> QED BY <1>12 DEF r

\* Sums of floats are monotone.
LEMMA SumMonotone ==
  ASSUME NEW n \in 0 .. Resolution, NEW xs, NEW ys,
         Len(xs) = n, DOMAIN xs = 1 .. n, Len(ys) = n, DOMAIN ys = 1 .. n,
         \A i \in 1 .. n : xs[i] \in 0 .. One /\ ys[i] \in 0 .. One /\ xs[i] <= ys[i]
  PROVE  Sum(xs) \in 0 .. n * One /\ Sum(ys) \in 0 .. n * One /\ Sum(xs) <= Sum(ys)
<1> DEFINE Below(k, a, b) == a \in 0 .. k * One /\ b \in 0 .. k * One /\ a <= b
<1>0. n \in Nat /\ Resolution \in Nat /\ n <= Resolution /\ One \in Nat
  BY Sizes
<1>1. PICK f : Rounds("floats", 0, xs, f) /\ Sum(xs) = f[n]
  BY <1>0, FloatRounds
<1>2. PICK g : Rounds("floats", 0, ys, g) /\ Sum(ys) = g[n]
  BY <1>0, FloatRounds
<1>3. /\ f[0] = 0 /\ \A k \in 1 .. n : f[k] = Round(f[k - 1] + xs[k], 1)
      /\ g[0] = 0 /\ \A k \in 1 .. n : g[k] = Round(g[k - 1] + ys[k], 1)
  BY <1>1, <1>2 DEF Rounds, Body
<1> DEFINE bad == {k \in 0 .. n : ~Below(k, f[k], g[k])}
<1> SUFFICES bad = {}
  <2>1. n \in 0 .. n
    BY <1>0
  <2> QED BY <1>1, <1>2, <2>1
<1> SUFFICES ASSUME bad # {} PROVE FALSE
  OBVIOUS
<1>4. PICK k \in bad : \A j \in bad : k <= j
  <2>1. bad \subseteq Nat
    BY <1>0
  <2> HIDE DEF bad
  <2> QED BY <2>1, LeastExists
<1>5. k \in 0 .. n /\ ~Below(k, f[k], g[k])
  <2> HIDE DEF Below
  <2> QED OBVIOUS
<1>6. Below(0, 0, 0)
  BY <1>0
<1> HIDE DEF Below
<1>7. k # 0
  BY <1>3, <1>5, <1>6
<1> DEFINE j == k - 1
<1>8. /\ j \in Nat /\ j \in 0 .. n /\ j + 1 = k /\ k \in 1 .. n /\ j + 1 <= Resolution
      /\ ~ (k <= j)
  BY <1>0, <1>5, <1>7
<1>9. Below(j, f[j], g[j])
  <2>1. j \notin bad
    <3> HIDE DEF bad, j
    <3> QED BY <1>4, <1>8
  <2> QED BY <1>8, <2>1
<1> DEFINE a == f[j]
           b == g[j]
           x == xs[k]
           y == ys[k]
<1>10. f[k] = Round(a + x, 1) /\ g[k] = Round(b + y, 1)
  BY <1>3, <1>8
<1>11. /\ a \in 0 .. j * One /\ b \in 0 .. j * One /\ a <= b
       /\ x \in 0 .. One /\ y \in 0 .. One /\ x <= y
  BY <1>8, <1>9 DEF Below
<1> HIDE DEF bad, j, a, b, x, y
<1>12. /\ Round(a + x, 1) \in 0 .. (j + 1) * One
       /\ Round(b + y, 1) \in 0 .. (j + 1) * One
  BY <1>8, <1>11, AddFloat
<1>13. j * One \in Nat
  BY <1>0, <1>8, SMT
<1>14. a + x \in Nat /\ b + y \in Nat /\ 1 * (a + x) <= 1 * (b + y)
  BY <1>0, <1>11, <1>13
<1>15. Round(a + x, 1) <= Round(b + y, 1)
  BY <1>14, RoundMonotone
<1> QED BY <1>5, <1>8, <1>10, <1>12, <1>15 DEF Below

-----------------------------------------------------------------------------
(* Answers *)

\* An element of a list.
Element(item) ==
  DOMAIN item = {"fields", "flag", "number"} /\ item.number \in Int

\* The list of an answer.
ListOf(m, items) ==
  /\ Len(items) \in Nat
  /\ DOMAIN items = 1 .. Len(items)
  /\ items = <<>> <=> Len(items) = 0
  /\ SchemaOf[m].item.bounded # {} => Len(items) <= Resolution
  /\ \A i \in 1 .. Len(items) : Element(items[i])

\* What the bounded sequences of a set are.
LEMMA SeqOfLists ==
  ASSUME NEW S, NEW n \in Nat, NEW seq \in SeqOf(S, n)
  PROVE  /\ Len(seq) \in 0 .. n
         /\ DOMAIN seq = 1 .. Len(seq)
         /\ seq = <<>> <=> Len(seq) = 0
         /\ \A i \in 1 .. Len(seq) : seq[i] \in S
<1>1. PICK k \in 0 .. n : seq \in [1 .. k -> S]
  BY DEF SeqOf
<1>2. k \in Nat /\ seq \in Seq(S) /\ Len(seq) = k
  BY <1>1
<1>3. DOMAIN seq = 1 .. Len(seq) /\ \A i \in 1 .. Len(seq) : seq[i] \in S
  BY <1>1, <1>2
<1>4. seq = <<>> <=> Len(seq) = 0
  BY <1>2, EmptySeq
<1> QED BY <1>2, <1>3, <1>4

\* The lists of the answers there are.
LEMMA ItemListsAre ==
  ASSUME NEW m, NEW items \in ItemLists(m)
  PROVE  ListOf(m, items)
<1> DEFINE item == SchemaOf[m].item
           whole == Items(m, {item.required})
           any == Items(m, FieldSets(item))
           most == IF item.bounded # {} THEN MaxNumbers ELSE MaxItems
<1>0. /\ most \in Nat /\ (item.bounded # {} => most <= Resolution)
      /\ 0 <= Resolution /\ 1 <= Resolution /\ 2 <= Resolution /\ Resolution \in Nat
  BY ScoresAssumption, Sizes
<1>1. \A fieldSets : \A i \in Items(m, fieldSets) : Element(i)
  <2>1. (IF item.bounded # {} THEN Numbers ELSE {0}) \subseteq Int
    BY ScoresAssumption
  <2> TAKE fieldSets
  <2> TAKE i \in Items(m, fieldSets)
  <2>2. /\ DOMAIN i = {"fields", "flag", "number"}
        /\ i.number \in IF item.bounded # {} THEN Numbers ELSE {0}
    BY DEF Items
  <2> QED BY <2>1, <2>2 DEF Element
<1>2. \/ items = <<>>
      \/ items \in SeqOf(whole, most)
      \/ items \in SeqOf(any, 1)
      \/ \E a \in whole, b \in any : items = <<a, b>>
  <2>1. CASE item = NoItems
    BY <2>1 DEF ItemLists
  <2>2. CASE item # NoItems
    <3> DEFINE lists == SeqOf(whole, most)
               others == SeqOf(any, 1)
               pairs == {<<a, b>> : a \in whole, b \in any}
    <3>1. ItemLists(m) = lists \cup others \cup pairs
      BY <2>2 DEF ItemLists
    <3>2. items \in pairs => \E a \in whole, b \in any : items = <<a, b>>
      <4> HIDE DEF whole, any, item, most
      <4> QED OBVIOUS
    <3> HIDE DEF lists, others, pairs
    <3>3. items \in lists \/ items \in others \/ items \in pairs
      BY <3>1
    <3> QED BY <3>2, <3>3 DEF lists, others
  <2> QED BY <2>1, <2>2
<1>3. (\A i \in whole : Element(i)) /\ (\A i \in any : Element(i))
  BY <1>1
<1> HIDE DEF whole, any, most
<1>4. CASE items = <<>>
  BY <1>0, <1>4 DEF ListOf
<1>5. CASE items \in SeqOf(whole, most)
  <2>1. /\ Len(items) \in 0 .. most
        /\ DOMAIN items = 1 .. Len(items)
        /\ items = <<>> <=> Len(items) = 0
        /\ \A i \in 1 .. Len(items) : items[i] \in whole
    BY <1>0, <1>5, SeqOfLists
  <2>2. Len(items) \in Nat /\ Len(items) <= most
    <3> DEFINE n == Len(items)
    <3>1. n \in 0 .. most
      BY <2>1
    <3> HIDE DEF n
    <3>2. n \in Nat /\ n <= most
      BY <1>0, <3>1
    <3> QED BY <3>2 DEF n
  <2>3. item.bounded # {} => Len(items) <= Resolution
    <3> DEFINE n == Len(items)
    <3> HIDE DEF n
    <3>1. n \in Nat /\ n <= most
      BY <2>2 DEF n
    <3>2. item.bounded # {} => n <= Resolution
      BY <1>0, <3>1
    <3> QED BY <3>2 DEF n
  <2>4. \A i \in 1 .. Len(items) : Element(items[i])
    BY <1>3, <2>1
  <2> QED BY <2>1, <2>2, <2>3, <2>4 DEF ListOf
<1>6. CASE items \in SeqOf(any, 1)
  <2>1. /\ Len(items) \in 0 .. 1
        /\ DOMAIN items = 1 .. Len(items)
        /\ items = <<>> <=> Len(items) = 0
        /\ \A i \in 1 .. Len(items) : items[i] \in any
    BY <1>6, SeqOfLists
  <2>2. Len(items) \in Nat /\ Len(items) <= Resolution
    <3> DEFINE n == Len(items)
    <3>1. n \in 0 .. 1
      BY <2>1
    <3> HIDE DEF n
    <3>2. n \in Nat /\ n <= Resolution
      BY <1>0, <3>1
    <3> QED BY <3>2 DEF n
  <2> QED BY <1>3, <2>1, <2>2 DEF ListOf
<1>7. CASE \E a \in whole, b \in any : items = <<a, b>>
  <2>1. PICK a \in whole, b \in any : items = <<a, b>>
    BY <1>7
  <2>2. Len(items) = 2 /\ DOMAIN items = 1 .. 2 /\ items[1] = a /\ items[2] = b
    BY <2>1
  <2>3. items # <<>>
    BY <2>2
  <2> QED BY <1>0, <1>3, <2>2, <2>3 DEF ListOf
<1> QED BY <1>2, <1>4, <1>5, <1>6, <1>7

\* A number that the parsers take.
Taken(n) == n \in Int /\ InUnit(n)

\* What is known of an answer that parses.
Parsed(m, ans) ==
  /\ ListOf(m, ans.items)
  /\ RuleFits(ParserOf[m])
  /\ ParserOf[m].rule = "mean" =>
       /\ Len(ans.items) <= Resolution
       /\ \A i \in 1 .. Len(ans.items) : Taken(ans.items[i].number)
  /\ ParserOf[m].rule = "three" =>
       \A f \in {"coverage_score", "fidelity_score", "conciseness_score"} :
         Taken(ans.numbers[f])
  /\ ParserOf[m].rule = "given" => Taken(ans.numbers["score"])

\* An answer that was parsed has what the scoring reads.
LEMMA ParsedAnswer ==
  ASSUME NEW m \in Metric, NEW ans \in Answers(m), Parses(ParserOf[m], ans)
  PROVE  Parsed(m, ans)
<1>1. /\ ans.items \in ItemLists(m)
      /\ ans.numbers \in [SchemaOf[m].object.bounded -> Numbers]
  BY DEF Answers
<1>2. ListOf(m, ans.items)
  BY <1>1, ItemListsAre
<1>3. /\ ParserOf[m].item = SchemaOf[m].item
      /\ ParserOf[m].object.bounded = SchemaOf[m].object.bounded
      /\ RuleFits(ParserOf[m])
  BY SameFields
<1>4. \A f \in ParserOf[m].object.bounded : Taken(ans.numbers[f])
  <2> TAKE f \in ParserOf[m].object.bounded
  <2>1. InUnit(ans.numbers[f])
    BY DEF Parses, Range01Fails
  <2>2. ans.numbers[f] \in Int
    BY <1>1, <1>3, ScoresAssumption
  <2> QED BY <2>1, <2>2 DEF Taken
<1>5. ASSUME ParserOf[m].item.bounded # {}, NEW i \in 1 .. Len(ans.items)
      PROVE  Taken(ans.items[i].number)
  <2>1. \A item \in Range(ans.items) : InUnit(item.number)
    BY <1>5 DEF Parses, Range01Fails
  <2>2. ans.items[i] \in Range(ans.items) /\ ans.items[i].number \in Int
    BY <1>2 DEF ListOf, Element, Range
  <2> QED BY <2>1, <2>2 DEF Taken
<1> QED BY <1>2, <1>3, <1>4, <1>5 DEF Parsed, RuleFits, ListOf

\* The mean of a list of numbers.
LEMMA MeanScore ==
  ASSUME ListOf(metric, subject.items), Len(subject.items) \in 1 .. Resolution,
         \A i \in 1 .. Len(subject.items) : Taken(subject.items[i].number)
  PROVE  ScoresAs(Mean(subject.items), <<NumbersOfItems, Unit * Len(subject.items)>>,
                  Len(subject.items) + 2, FALSE)
<1> DEFINE items == subject.items
           n == Len(subject.items)
           floats == [i \in DOMAIN items |-> Float(items[i].number)]
           numbers == [i \in DOMAIN items |-> items[i].number]
<1>1. DOMAIN items = 1 .. n /\ n \in Nat /\ items # <<>>
  BY DEF ListOf
<1>2. PICK sums : Rounds("numbers", 0, items, sums) /\ NumbersOfItems = sums[n]
  BY <1>1, NumberRounds
<1>3. sums[0] = 0 /\ \A i \in 1 .. n : sums[i] = sums[i - 1] + numbers[i]
  BY <1>1, <1>2 DEF Rounds, Body
<1>4. Len(floats) = n /\ DOMAIN floats = 1 .. n
  <2>1. floats \in Seq(Range(floats))
    BY <1>1 DEF Range
  <2> QED BY <1>1
<1>5. \A i \in 1 .. n : /\ numbers[i] \in Int /\ InUnit(numbers[i])
                        /\ floats[i] = Float(numbers[i])
  BY <1>1 DEF Taken
<1>6. Mean(items) = Round(Sum(floats), n)
  BY <1>1 DEF Mean
<1>7. n \in 1 .. Resolution
  OBVIOUS
<1> HIDE DEF floats, numbers, n
<1>8. n \in 0 .. Resolution
  BY <1>7, Sizes
<1>9. NearSum(n, Sum(floats), sums[n])
  BY <1>3, <1>4, <1>5, <1>8, SumNear
<1>10. ScoresAs(Round(Sum(floats), n), <<sums[n], Unit * n>>, n + 2, FALSE)
  BY <1>7, <1>9, MeanNear
<1> QED BY <1>2, <1>6, <1>10 DEF n

\* The mean of the three numbers of summarization_quality.
LEMMA ThreeScore ==
  ASSUME NEW given,
         \A f \in {"coverage_score", "fidelity_score", "conciseness_score"} :
           Taken(given[f])
  PROVE  ScoresAs(MeanOfThree(given),
                  <<given["coverage_score"] + given["fidelity_score"]
                      + given["conciseness_score"], Unit * 3>>, 5, FALSE)
<1> DEFINE a == given["coverage_score"]
           b == given["fidelity_score"]
           c == given["conciseness_score"]
           floats == <<Float(a), Float(b), Float(c)>>
           numbers == <<a, b, c>>
           sums == [i \in 0 .. 3 |-> IF i = 0 THEN 0 ELSE IF i = 1 THEN a
                                     ELSE IF i = 2 THEN a + b ELSE a + b + c]
<1>1. Taken(a) /\ Taken(b) /\ Taken(c)
  OBVIOUS
<1>2. MeanOfThree(given) = Round(Sum(floats), 3)
  BY DEF MeanOfThree
<1> HIDE DEF a, b, c
<1>3. Len(floats) = 3 /\ DOMAIN floats = 1 .. 3
  OBVIOUS
<1>4. \A i \in 1 .. 3 : /\ numbers[i] \in Int /\ InUnit(numbers[i])
                        /\ floats[i] = Float(numbers[i])
  BY <1>1 DEF Taken
<1>5. sums[0] = 0 /\ \A i \in 1 .. 3 : sums[i] = sums[i - 1] + numbers[i]
  BY <1>1 DEF Taken
<1>6. sums[3] = a + b + c
  OBVIOUS
<1>7. 3 \in 0 .. Resolution /\ 3 \in 1 .. Resolution /\ 3 + 2 = 5
  BY Sizes
<1> HIDE DEF floats, numbers, sums
<1>8. NearSum(3, Sum(floats), sums[3])
  BY <1>3, <1>4, <1>5, <1>7, SumNear
<1>9. ScoresAs(Round(Sum(floats), 3), <<sums[3], Unit * 3>>, 5, FALSE)
  BY <1>7, <1>8, MeanNear
<1> QED BY <1>2, <1>6, <1>9 DEF a, b, c

\* How often the score of a judged answer is rounded.
ScoreRoundings ==
  CASE ParserOf[metric].rule = "mean" -> Len(subject.items) + 2
    [] ParserOf[metric].rule = "three" -> 5
    [] ParserOf[metric].rule = "inverse" -> 2
    [] OTHER -> 1

\* The score of a judged answer is the one that is documented.
LEMMA JudgedScore ==
  ASSUME Parsed(metric, subject)
  PROVE  ScoresAs(Score(ParserOf[metric], subject), ExactJudgedScore,
                  ScoreRoundings, ScoreRoundings = 1)
<1> DEFINE s == Score(ParserOf[metric], subject)
           e == ExactJudgedScore
           n == Len(subject.items)
           k == ScoreRoundings
           rule == ParserOf[metric].rule
<1> SUFFICES ScoresAs(s, e, k, k = 1)
  OBVIOUS
<1>1. /\ ListOf(metric, subject.items)
      /\ DOMAIN subject.items = 1 .. n
      /\ subject.items = <<>> <=> n = 0
      /\ n \in Nat /\ (n = 0 \/ n \in Nat \ {0})
  BY DEF Parsed, ListOf
<1>2. rule \in {"ratio", "inverse", "mean", "three", "given"}
  BY DEF Parsed, RuleFits
<1>3. CASE rule = "ratio"
  <2>1. s = Ratio(subject.items) /\ k = 1
    BY <1>3 DEF Score, ScoreRoundings
  <2>2. CASE n = 0
    <3>1. e = <<0, 1>>
      BY <1>3, <2>2 DEF ExactJudgedScore
    <3>2. s = 0
      BY <1>1, <2>1, <2>2 DEF Ratio
    <3> HIDE DEF s, e, k
    <3>3. ScoresAs(0, <<0, 1>>, 1, TRUE)
      BY EndScores
    <3> QED BY <2>1, <3>1, <3>2, <3>3
  <2>3. CASE n \in Nat \ {0}
    <3>1. e = <<Flagged(subject.items), n>>
      BY <1>3, <2>3 DEF ExactJudgedScore
    <3>2. ScoresAs(Ratio(subject.items), <<Flagged(subject.items), n>>, 1, TRUE)
      BY <1>1, <2>3, RatioScore
    <3> HIDE DEF s, e, n, k
    <3> QED BY <2>1, <3>1, <3>2
  <2> QED BY <1>1, <2>2, <2>3
<1>4. CASE rule = "inverse"
  <2>1. s = InverseRatio(subject.items) /\ k = 2
    BY <1>4 DEF Score, ScoreRoundings
  <2>2. CASE n = 0
    <3>1. e = <<1, 1>>
      BY <1>4, <2>2 DEF ExactJudgedScore
    <3>2. s = One
      BY <1>1, <2>1, <2>2 DEF InverseRatio
    <3>3. ScoresAs(One, <<1, 1>>, 2, TRUE)
      BY EndScores
    <3> HIDE DEF s, e, k
    <3> QED BY <2>1, <3>1, <3>2, <3>3 DEF ScoresAs
  <2>3. CASE n \in Nat \ {0}
    <3>1. e = <<n - Flagged(subject.items), n>>
      BY <1>4, <2>3 DEF ExactJudgedScore
    <3>2. ScoresAs(InverseRatio(subject.items), <<n - Flagged(subject.items), n>>,
                   2, FALSE)
      BY <1>1, <2>3, InverseScore
    <3> HIDE DEF s, e, n, k
    <3> QED BY <2>1, <3>1, <3>2 DEF ScoresAs
  <2> QED BY <1>1, <2>2, <2>3
<1>5. CASE rule = "mean"
  <2>1. s = Mean(subject.items) /\ k = n + 2
    BY <1>5 DEF Score, ScoreRoundings
  <2>2. CASE n = 0
    <3>1. e = <<0, 1>>
      BY <1>5, <2>2 DEF ExactJudgedScore
    <3>2. s = 0
      BY <1>1, <2>1, <2>2 DEF Mean
    <3>3. ScoresAs(0, <<0, 1>>, 2, TRUE)
      BY EndScores
    <3>4. k = 2
      BY <2>1, <2>2
    <3> HIDE DEF s, e, k
    <3> QED BY <3>1, <3>2, <3>3, <3>4 DEF ScoresAs
  <2>3. CASE n \in Nat \ {0}
    <3>1. e = <<NumbersOfItems, Unit * n>>
      BY <1>5, <2>3 DEF ExactJudgedScore
    <3>2. n \in 1 .. Resolution /\ \A i \in 1 .. n : Taken(subject.items[i].number)
      <4>1. n <= Resolution /\ \A i \in 1 .. n : Taken(subject.items[i].number)
        BY <1>5 DEF Parsed
      <4> HIDE DEF n
      <4> QED BY <2>3, <4>1, Sizes
    <3>3. ScoresAs(Mean(subject.items), <<NumbersOfItems, Unit * n>>, n + 2, FALSE)
      BY <1>1, <3>2, MeanScore
    <3> HIDE DEF s, e, n, k
    <3>4. (k = 1) = FALSE
      BY <2>1, <2>3
    <3> QED BY <2>1, <3>1, <3>3, <3>4
  <2> QED BY <1>1, <2>2, <2>3
<1>6. CASE rule = "three"
  <2>1. s = MeanOfThree(subject.numbers) /\ k = 5
    BY <1>6 DEF Score, ScoreRoundings
  <2>2. e = <<subject.numbers["coverage_score"]
              + subject.numbers["fidelity_score"]
              + subject.numbers["conciseness_score"], Unit * 3>>
    BY <1>6 DEF ExactJudgedScore
  <2>3. \A f \in {"coverage_score", "fidelity_score", "conciseness_score"} :
          Taken(subject.numbers[f])
    BY <1>6 DEF Parsed
  <2>4. ScoresAs(MeanOfThree(subject.numbers),
                 <<subject.numbers["coverage_score"]
                   + subject.numbers["fidelity_score"]
                   + subject.numbers["conciseness_score"], Unit * 3>>, 5, FALSE)
    BY <2>3, ThreeScore
  <2> HIDE DEF s, e, k
  <2> QED BY <2>1, <2>2, <2>4 DEF ScoresAs
<1>7. CASE rule = "given"
  <2>1. s = Float(subject.numbers["score"]) /\ k = 1
    BY <1>7 DEF Score, ScoreRoundings
  <2>2. e = <<subject.numbers["score"], Unit>>
    BY <1>7 DEF ExactJudgedScore
  <2>3. Taken(subject.numbers["score"])
    BY <1>7 DEF Parsed
  <2>4. ScoresAs(Float(subject.numbers["score"]),
                 <<subject.numbers["score"], Unit>>, 1, TRUE)
    BY <2>3, GivenScore DEF Taken
  <2> HIDE DEF s, e, k
  <2> QED BY <2>1, <2>2, <2>4
<1> QED BY <1>2, <1>3, <1>4, <1>5, <1>6, <1>7

\* All or nothing.
LEMMA BoolScoreAs ==
  ASSUME NEW holds \in BOOLEAN
  PROVE  ScoresAs(BoolScore(holds),
                  IF BoolScore(holds) = One THEN <<1, 1>> ELSE <<0, 1>>, 1, TRUE)
<1>1. One # 0
  BY Sizes
<1> QED BY <1>1, EndScores DEF BoolScore

\* The words two texts share, of all they have.
LEMMA SimilarityScore ==
  ASSUME NEW a \in Text, NEW b \in Text
  PROVE  ScoresAs(Similarity(a, b),
                  IF Cardinality(a \cup b) = 0 THEN <<0, 1>>
                  ELSE <<Cardinality(a) + Cardinality(b) - Cardinality(a \cup b),
                         Cardinality(a \cup b)>>, 1, TRUE)
<1> DEFINE all == Cardinality(a \cup b)
           both == Cardinality(a \cap b)
<1>1. IsFiniteSet(a) /\ IsFiniteSet(b)
  BY DEF Text
<1>2. /\ IsFiniteSet(a \cup b) /\ IsFiniteSet(a \cap b)
      /\ all = Cardinality(a) + Cardinality(b) - both
  BY <1>1, FS_Union, FS_Intersection
<1>3. both \in Nat /\ all \in Nat /\ Cardinality(a) \in Nat /\ Cardinality(b) \in Nat
  BY <1>1, <1>2, FS_CardinalityType
<1>4. both <= all
  <2>1. a \cap b \subseteq a \cup b
    OBVIOUS
  <2> QED BY <1>2, <2>1, FS_Subset
<1>5. Cardinality(a) + Cardinality(b) - all = both
  BY <1>2, <1>3
<1>6. Similarity(a, b) = IF all = 0 THEN 0 ELSE Round(both * One, all)
  BY DEF Similarity
<1> HIDE DEF all, both
<1>7. CASE all = 0
  <2>1. Similarity(a, b) = 0
    BY <1>6, <1>7
  <2> QED BY <1>7, <2>1, EndScores DEF all
<1>8. CASE all # 0
  <2>1. all \in Nat \ {0}
    BY <1>3, <1>8
  <2>2. ScoresAs(Round(both * One, all), <<both, all>>, 1, TRUE)
    BY <1>3, <1>4, <2>1, FractionAs
  <2>3. ScoresAs(Similarity(a, b), <<both, all>>, 1, TRUE)
    BY <1>6, <1>8, <2>2
  <2> QED BY <1>5, <1>8, <2>3 DEF all
<1> QED BY <1>7, <1>8

\* The fields that match, of all that were expected.
LEMMA MatchedScore ==
  ASSUME NEW fields, GoodFields(fields)
  PROVE  ScoresAs(Round(Cardinality(Matched(fields)) * One, Len(fields)),
                  <<Cardinality(Matched(fields)), Len(fields)>>, 1, TRUE)
<1> DEFINE n == Len(fields)
           c == Cardinality(Matched(fields))
<1>1. fields \in Seq([path : Seq(STRING), expected : JSON \cup {NotJSON}])
      /\ fields # <<>>
  BY DEF GoodFields, BadFields
<1>2. n \in Nat /\ DOMAIN fields = 1 .. n /\ n # 0
  BY <1>1, LenProperties, EmptySeq
<1>3. n \in Nat \ {0}
  BY <1>2
<1>4. c \in Nat /\ c <= n
  <2>1. Matched(fields) \subseteq 1 .. n
    BY <1>2 DEF Matched
  <2>2. IsFiniteSet(1 .. n) /\ Cardinality(1 .. n) = n
    <3>1. 1 \in Int /\ n \in Int
      BY <1>2
    <3>2. Cardinality(1 .. n) = IF 1 > n THEN 0 ELSE n - 1 + 1
      BY <3>1, FS_Interval
    <3> QED BY <1>2, <3>1, <3>2, FS_Interval
  <2>3. IsFiniteSet(Matched(fields)) /\ c <= Cardinality(1 .. n)
    BY <2>1, <2>2, FS_Subset
  <2> QED BY <2>2, <2>3, FS_CardinalityType
<1> HIDE DEF n, c
<1>5. ScoresAs(Round(c * One, n), <<c, n>>, 1, TRUE)
  BY <1>3, <1>4, FractionAs
<1> QED BY <1>5 DEF n, c

\* The score of a verdict is the one that is documented; the last of the
\* roundings is the threshold's.
LEMMA ScoreIsExact ==
  ASSUME Inv, Judged
  PROVE  /\ Roundings \in Nat /\ Roundings - 1 \in Nat
         /\ ScoresAs(score, ExactScore, Roundings - 1, Roundings = 2)
<1>0. /\ metric \in Metric \cup Deterministic
      /\ subject \in IF metric \in Metric THEN Answers(metric) ELSE Subjects(metric)
      /\ options \in OptionLists(metric)
      /\ ~Refuses /\ score = ScoreOf
  BY DEF Inv, Given, Settled
<1> USE MetricNames
<1>r. SUFFICES \E k \in Nat : Roundings = k + 1 /\ ScoresAs(score, ExactScore, k, k = 1)
  <2>1. PICK k \in Nat : Roundings = k + 1 /\ ScoresAs(score, ExactScore, k, k = 1)
    BY <1>r
  <2>2. Roundings - 1 = k /\ (Roundings = 2) = (k = 1) /\ Roundings \in Nat
    BY <2>1
  <2> QED BY <2>1, <2>2
<1>s. metric \notin Metric => Roundings = 1 + 1
  BY DEF Roundings
<1>1. CASE metric \in Metric
  <2>1. Parses(ParserOf[metric], subject) /\ subject \in Answers(metric)
    BY <1>0, <1>1 DEF Refuses
  <2>2. Parsed(metric, subject)
    BY <1>1, <2>1, ParsedAnswer
  <2>3. score = Score(ParserOf[metric], subject) /\ ExactScore = ExactJudgedScore
    BY <1>0, <1>1 DEF ScoreOf, ExactScore
  <2>4. ScoresAs(Score(ParserOf[metric], subject), ExactJudgedScore,
                 ScoreRoundings, ScoreRoundings = 1)
    BY <2>2, JudgedScore
  <2>5. ScoreRoundings \in Nat
    BY <2>4 DEF ScoresAs
  <2>6. Roundings = ScoreRoundings + 1
    <3>1. Len(subject.items) \in Nat
      BY <2>2 DEF Parsed, ListOf
    <3> DEFINE n == Len(subject.items)
               rule == ParserOf[metric].rule
    <3>2. /\ Roundings = CASE rule = "mean" -> n + 3
                           [] rule = "three" -> 3 + 3
                           [] rule = "inverse" -> 3
                           [] OTHER -> 2
          /\ ScoreRoundings = CASE rule = "mean" -> n + 2
                                [] rule = "three" -> 5
                                [] rule = "inverse" -> 2
                                [] OTHER -> 1
      BY <1>1 DEF Roundings, ScoreRoundings
    <3>3. n \in Nat
      BY <3>1
    <3> HIDE DEF n, rule
    <3>4. (n + 2) + 1 = n + 3
      BY <3>3
    <3> QED BY <3>2, <3>4
  <2> QED BY <2>3, <2>4, <2>5, <2>6
<1>2. CASE metric \notin Metric /\ metric = "answer_similarity"
  <2>1. subject \in Subjects("answer_similarity")
    BY <1>0, <1>2
  <2>2. subject \in [answer : Text, expected : Text, blank : BOOLEAN]
    BY <2>1, MetricsAssumption
  <2>3. subject.answer \in Text /\ subject.expected \in Text
    BY <2>2
  <2>4. score = Similarity(subject.answer, subject.expected)
    BY <1>0, <1>2 DEF ScoreOf
  <2>5. ExactScore =
          IF Cardinality(subject.answer \cup subject.expected) = 0 THEN <<0, 1>>
          ELSE <<Cardinality(subject.answer) + Cardinality(subject.expected)
                   - Cardinality(subject.answer \cup subject.expected),
                 Cardinality(subject.answer \cup subject.expected)>>
    BY <1>2 DEF ExactScore
  <2>6. ScoresAs(score, ExactScore, 1, TRUE)
    BY <2>3, <2>4, <2>5, SimilarityScore
  <2> QED BY <1>2, <1>s, <2>6
<1>3. CASE metric \notin Metric /\ metric = "expected_json"
  <2> DEFINE fields == Config.expectedFields[1]
  <2>1. GoodFields(fields)
    <3>1. metric \in Metric \cup Deterministic /\ ~Invalid(metric, argument, options)
      BY <1>0 DEF Refuses
    <3>2. options \in Seq(Option)
      BY <1>0, <3>1, MetricsAssumption
    <3> QED BY <1>3, <3>1, <3>2, ConfigSet DEF Config
  <2>2. CASE subject.json = NotJSON
    <3>1. score = 0
      BY <1>0, <1>3, <2>2 DEF ScoreOf
    <3>2. ExactScore = <<0, 1>>
      BY <1>3, <2>2 DEF ExactScore
    <3>3. ScoresAs(score, ExactScore, 1, TRUE)
      BY <3>1, <3>2, EndScores
    <3> QED BY <1>3, <1>s, <3>3
  <2>3. CASE subject.json # NotJSON
    <3>1. score = Round(Cardinality(Matched(fields)) * One, Len(fields))
      BY <1>0, <1>3, <2>3 DEF ScoreOf
    <3>2. ExactScore = <<Cardinality(Matched(fields)), Len(fields)>>
      BY <1>3, <2>3 DEF ExactScore
    <3> HIDE DEF fields
    <3>3. ScoresAs(score, ExactScore, 1, TRUE)
      BY <2>1, <3>1, <3>2, MatchedScore
    <3> QED BY <1>3, <1>s, <3>3
  <2> QED BY <2>2, <2>3
<1>4. CASE /\ metric \notin Metric
           /\ metric \in {"json_validity", "schema_compliance", "latency",
                          "answer_length", "expected_regex"}
  <2>1. PICK holds \in BOOLEAN : score = BoolScore(holds)
    <3>1. \A holds : BoolScore(holds) = BoolScore(holds = TRUE)
      BY DEF BoolScore
    <3> QED BY <1>0, <1>4, <3>1 DEF ScoreOf
  <2>2. ExactScore = IF score = One THEN <<1, 1>> ELSE <<0, 1>>
    BY <1>4 DEF ExactScore
  <2>3. ScoresAs(score, ExactScore, 1, TRUE)
    BY <2>1, <2>2, BoolScoreAs
  <2> QED BY <1>4, <1>s, <2>3
<1> QED BY <1>0, <1>1, <1>2, <1>3, <1>4 DEF Deterministic, JSONMetric

\* The verdict compares the documented score with the threshold that was given
\* last, and rounding does not turn it (VerdictMatchesScore).
THEOREM VerdictsMatchScores == Spec => []VerdictMatchesScore
<1>1. Inv => VerdictMatchesScore
  <2> SUFFICES ASSUME Inv, Judged
               PROVE  /\ score \in 0 .. One
                      /\ Margin > Doubt => verdict = "pass"
                      /\ -Margin > Doubt => verdict = "fail"
                      /\ Margin >= 0 /\ Roundings = 2 => verdict = "pass"
                      /\ \A i \in DOMAIN options : ~Refused(options[i])
    BY DEF VerdictMatchesScore
  <2>1. /\ metric \in Metric \cup Deterministic /\ options \in OptionLists(metric)
        /\ ~Invalid(metric, argument, options)
        /\ verdict = IF score >= Float(Config.threshold[1]) THEN "pass" ELSE "fail"
    BY DEF Inv, Given, Settled, Refuses
  <2>2. options \in Seq(Option)
    BY <2>1, MetricsAssumption
  <2>3. /\ \A i \in 1 .. Len(options) : ~Refused(options[i])
        /\ ThresholdSet(options, Len(options), Config)
    BY <2>1, <2>2, ConfigSet DEF Config
  <2>4. \A i \in DOMAIN options : ~Refused(options[i])
    BY <2>2, <2>3, LenProperties
  <2>5. /\ Config.threshold[1] = LastThreshold
        /\ LastThreshold \in Int /\ InUnit(LastThreshold)
    BY <2>2, <2>3, ThresholdIsLast
  <2> DEFINE a == ExactScore[1]
             b == ExactScore[2]
             t == LastThreshold
             k == Roundings - 1
  <2>6. /\ score \in 0 .. One /\ a \in Int /\ b \in Nat \ {0} /\ k \in Nat
        /\ Within(score, a, b, k)
        /\ Roundings = 2 => Meets(score, a, b)
        /\ Roundings \in Nat /\ k + 1 = Roundings
    BY ScoreIsExact DEF ScoresAs
  <2>7. score \in Int /\ Float(t) \in Int /\ Unit \in Nat
    <3>1. Float(t) \in 0 .. One
      BY <2>5 DEF InUnit
    <3> HIDE DEF t
    <3> QED BY <2>6, <3>1, Sizes
  <2>8. Margin = Unit * a - t * b /\ Doubt = ((k + 1) * b * Unit) \div Resolution
    BY <2>6 DEF Margin, Doubt
  <2>9. verdict = IF score >= Float(t) THEN "pass" ELSE "fail"
    BY <2>1, <2>5
  <2>10. t \in Int /\ InUnit(t)
    BY <2>5
  <2> HIDE DEF a, b, t, k
  <2>11. /\ Unit * a - t * b > ((k + 1) * b * Unit) \div Resolution => score >= Float(t)
         /\ -(Unit * a - t * b) > ((k + 1) * b * Unit) \div Resolution => score < Float(t)
    BY <2>6, <2>7, <2>10, Distinguished
  <2>12. Margin > Doubt => verdict = "pass"
    BY <2>8, <2>9, <2>11
  <2>13. -Margin > Doubt => verdict = "fail"
    <3>1. -Margin > Doubt => score < Float(t)
      BY <2>8, <2>11
    <3> QED BY <2>7, <2>9, <3>1
  <2>14. ASSUME Margin >= 0, Roundings = 2 PROVE verdict = "pass"
    <3>1. Unit * a \in Int /\ t * b \in Int
      BY <2>6, <2>7, <2>10, SMT
    <3>2. Unit * a >= t * b
      <4> DEFINE x == Unit * a
                 y == t * b
      <4>1. x \in Int /\ y \in Int /\ x - y >= 0
        BY <2>8, <2>14, <3>1
      <4> HIDE DEF x, y
      <4>2. x >= y
        BY <4>1
      <4> QED BY <4>2 DEF x, y
    <3>3. score >= Float(t)
      BY <2>6, <2>10, <2>14, <3>2 DEF Meets
    <3> QED BY <2>9, <3>3
  <2> QED BY <2>4, <2>6, <2>12, <2>13, <2>14
<1> QED BY <1>1, EvaluationsSettle, PTL

-----------------------------------------------------------------------------
(* More evidence *)

\* One element of an answer's list in its favour.
Improved(items, others, i, flag) ==
  /\ i \in 1 .. Len(items)
  /\ Len(others) = Len(items)
  /\ DOMAIN others = 1 .. Len(items)
  /\ \A j \in 1 .. Len(items) : j # i => others[j] = items[j]
  /\ others[i].flag = flag
  /\ others[i].number = Unit

\* A better answer has one better element.
LEMMA ImprovedItem ==
  ASSUME NEW m, NEW ans, DOMAIN ans = {"fields", "numbers", "items", "trailing"},
         ListOf(m, ans.items), NEW i \in DOMAIN ans.items, NEW flag \in BOOLEAN,
         NEW better,
         better = [ans EXCEPT !.items[i].flag = flag, !.items[i].number = Unit]
  PROVE  Improved(ans.items, better.items, i, flag) /\ better.numbers = ans.numbers
<1> DEFINE items == ans.items
           n == Len(items)
           item == [items[i] EXCEPT !.flag = flag, !.number = Unit]
           others == [items EXCEPT ![i] = item]
<1>1. /\ n \in Nat /\ DOMAIN items = 1 .. n /\ i \in 1 .. n
      /\ DOMAIN items[i] = {"fields", "flag", "number"}
  BY DEF ListOf, Element
<1>2. better.numbers = ans.numbers
  BY Zenon
<1>3. better.items = others
  BY <1>1
<1>4. item.flag = flag /\ item.number = Unit
  BY <1>1
<1> HIDE DEF item
<1>5. DOMAIN others = 1 .. n /\ others[i] = item
      /\ \A j \in 1 .. n : j # i => others[j] = items[j]
  BY <1>1
<1>6. Len(others) = n
  <2>1. others = [j \in 1 .. n |-> others[j]]
    BY <1>1
  <2> HIDE DEF others, n
  <2> QED BY <1>1, <2>1
<1> QED BY <1>1, <1>2, <1>3, <1>4, <1>5, <1>6 DEF Improved

\* One element more that counts.
LEMMA RatioImproves ==
  ASSUME NEW items, NEW others, Len(items) \in Nat, DOMAIN items = 1 .. Len(items),
         NEW i, Improved(items, others, i, TRUE)
  PROVE  Ratio(items) <= Ratio(others)
<1> DEFINE n == Len(items)
<1>1. /\ n \in Nat /\ i \in 1 .. n /\ Len(others) = n /\ DOMAIN others = 1 .. n
      /\ \A j \in 1 .. n : items[j].flag => others[j].flag
  BY DEF Improved
<1>2. items # <<>> /\ others # <<>> /\ n \in Nat \ {0}
  BY <1>1
<1>3. Flagged(items) <= Flagged(others)
  BY <1>1, FlaggedMonotone
<1>4. Flagged(items) \in 0 .. n /\ Flagged(others) \in 0 .. n
  BY <1>1, FlaggedCounts
<1>5. /\ Ratio(items) = Round(Flagged(items) * One, n)
      /\ Ratio(others) = Round(Flagged(others) * One, n)
  BY <1>1, <1>2 DEF Ratio
<1> HIDE DEF n
<1>6. Flagged(items) \in Nat /\ Flagged(others) \in Nat /\ Flagged(others) <= n
  BY <1>2, <1>4
<1> QED BY <1>2, <1>3, <1>5, <1>6, FractionMonotone

\* One element less that counts against the answer.
LEMMA InverseImproves ==
  ASSUME NEW items, NEW others, Len(items) \in Nat, DOMAIN items = 1 .. Len(items),
         NEW i, Improved(items, others, i, FALSE)
  PROVE  InverseRatio(items) <= InverseRatio(others)
<1> DEFINE n == Len(items)
<1>1. /\ n \in Nat /\ i \in 1 .. n /\ Len(others) = n /\ DOMAIN others = 1 .. n
      /\ \A j \in 1 .. n : others[j].flag => items[j].flag
  BY DEF Improved
<1>2. items # <<>> /\ others # <<>> /\ n \in Nat \ {0}
  BY <1>1
<1>3. Flagged(others) <= Flagged(items)
  BY <1>1, FlaggedMonotone
<1>4. Flagged(items) \in 0 .. n /\ Flagged(others) \in 0 .. n
  BY <1>1, FlaggedCounts
<1> DEFINE R == Ratio(items)
           S == Ratio(others)
<1>5. /\ R = Round(Flagged(items) * One, n)
      /\ S = Round(Flagged(others) * One, n)
  BY <1>1, <1>2 DEF Ratio
<1>6. InverseRatio(items) = Round(One - R, 1) /\ InverseRatio(others) = Round(One - S, 1)
  BY <1>2 DEF InverseRatio
<1> HIDE DEF n, R, S
<1>7. /\ Flagged(items) \in Nat /\ Flagged(others) \in Nat
      /\ Flagged(others) <= n /\ Flagged(items) <= n
  BY <1>2, <1>4
<1>8. S <= R
  BY <1>2, <1>3, <1>5, <1>7, FractionMonotone
<1>9. R \in 0 .. One /\ S \in 0 .. One
  BY <1>2, <1>5, <1>7, RoundFraction
<1>10. One \in Nat
  BY Sizes
<1>11. One - R \in Nat /\ One - S \in Nat /\ 1 * (One - R) <= 1 * (One - S)
  BY <1>8, <1>9, <1>10
<1> QED BY <1>6, <1>11, RoundMonotone

\* A larger number in the list.
LEMMA MeanImproves ==
  ASSUME NEW items, NEW others, Len(items) \in 0 .. Resolution,
         DOMAIN items = 1 .. Len(items),
         \A j \in 1 .. Len(items) : Taken(items[j].number),
         NEW i, NEW flag, Improved(items, others, i, flag)
  PROVE  Mean(items) <= Mean(others)
<1> DEFINE n == Len(items)
           xs == [j \in DOMAIN items |-> Float(items[j].number)]
           ys == [j \in DOMAIN others |-> Float(others[j].number)]
<1>0. Resolution \in Nat /\ One \in Nat \ {0}
  BY Sizes
<1>1. /\ n \in 0 .. Resolution /\ i \in 1 .. n /\ Len(others) = n /\ DOMAIN others = 1 .. n
      /\ \A j \in 1 .. n : j # i => others[j] = items[j]
      /\ others[i].number = Unit
  BY DEF Improved
<1>2. items # <<>> /\ others # <<>> /\ n \in Nat \ {0}
  <2>1. n \in Nat \ {0}
    <3> HIDE DEF n
    <3> QED BY <1>0, <1>1
  <2> QED BY <1>1, <2>1
<1>3. \A j \in 1 .. n : /\ Float(items[j].number) \in 0 .. One
                        /\ Float(others[j].number) \in 0 .. One
                        /\ Float(items[j].number) <= Float(others[j].number)
  <2> TAKE j \in 1 .. n
  <2>1. Float(items[j].number) \in 0 .. One
    BY DEF Taken, InUnit
  <2>2. Float(others[i].number) = One
    BY <1>1, FloatEnds
  <2>3. j # i => Float(others[j].number) = Float(items[j].number)
    BY <1>1
  <2> HIDE DEF n
  <2> QED BY <1>0, <2>1, <2>2, <2>3
<1>4. Mean(items) = Round(Sum(xs), n) /\ Mean(others) = Round(Sum(ys), n)
  BY <1>1, <1>2 DEF Mean
<1>5. Len(xs) = n /\ DOMAIN xs = 1 .. n /\ Len(ys) = n /\ DOMAIN ys = 1 .. n
  BY <1>1, <1>2
<1>6. \A j \in 1 .. n : xs[j] \in 0 .. One /\ ys[j] \in 0 .. One /\ xs[j] <= ys[j]
  <2> TAKE j \in 1 .. n
  <2>1. xs[j] = Float(items[j].number) /\ ys[j] = Float(others[j].number)
    BY <1>1
  <2> QED BY <1>3, <2>1
<1> HIDE DEF xs, ys, n
<1>7. Sum(xs) \in 0 .. n * One /\ Sum(ys) \in 0 .. n * One /\ Sum(xs) <= Sum(ys)
  BY <1>1, <1>5, <1>6, SumMonotone
<1> DEFINE a == Sum(xs)
           b == Sum(ys)
<1>8. a \in Nat /\ b \in Nat /\ a <= b
  BY <1>0, <1>2, <1>7, SMT
<1> HIDE DEF a, b
<1>9. n \in Nat \ {0} /\ n * a <= n * b
  BY <1>2, <1>8, TimesMonotone
<1>10. Round(a, n) <= Round(b, n)
  BY <1>8, <1>9, RoundMonotone
<1> QED BY <1>4, <1>10 DEF a, b

\* One word more that is expected.
LEMMA SimilarityImproves ==
  ASSUME NEW a \in Text, NEW b \in Text, NEW word \in b
  PROVE  Similarity(a, b) <= Similarity(a \cup {word}, b)
<1> DEFINE all == Cardinality(a \cup b)
           both == Cardinality(a \cap b)
           more == Cardinality((a \cup {word}) \cap b)
<1>1. (a \cup {word}) \cup b = a \cup b
  OBVIOUS
<1>2. /\ a \cap b \subseteq (a \cup {word}) \cap b
      /\ (a \cup {word}) \cap b \subseteq a \cup b
  OBVIOUS
<1>3. IsFiniteSet(a \cup b)
  <2>1. IsFiniteSet(a) /\ IsFiniteSet(b)
    BY DEF Text
  <2> QED BY <2>1, FS_Union
<1>4. IsFiniteSet((a \cup {word}) \cap b) /\ more <= all
  BY <1>2, <1>3, FS_Subset
<1>5. IsFiniteSet(a \cap b) /\ both <= more
  BY <1>2, <1>4, FS_Subset
<1>6. all \in Nat /\ both \in Nat /\ more \in Nat
  BY <1>3, <1>4, <1>5, FS_CardinalityType
<1>7. /\ Similarity(a, b) = IF all = 0 THEN 0 ELSE Round(both * One, all)
      /\ Similarity(a \cup {word}, b) = IF all = 0 THEN 0 ELSE Round(more * One, all)
  BY <1>1 DEF Similarity
<1> HIDE DEF all, both, more
<1>8. all # 0 => Round(both * One, all) <= Round(more * One, all)
  BY <1>4, <1>5, <1>6, FractionMonotone
<1> QED BY <1>7, <1>8

\* What speaks more for the answer never lowers its score
\* (MoreEvidenceNeverLowers).
THEOREM EvidenceCountsForTheAnswer == Spec => []MoreEvidenceNeverLowers
<1>1. Inv => MoreEvidenceNeverLowers
  <2> SUFFICES ASSUME Inv, Judged, NEW better \in Better
               PROVE  score <= IF metric \in Metric
                               THEN Score(ParserOf[metric], better)
                               ELSE Similarity(better.answer, better.expected)
    BY DEF MoreEvidenceNeverLowers
  <2>0. /\ metric \in Metric \cup Deterministic
        /\ subject \in IF metric \in Metric THEN Answers(metric) ELSE Subjects(metric)
        /\ ~Refuses /\ score = ScoreOf
    BY DEF Inv, Given, Settled
  <2> USE MetricNames
  <2>1. CASE metric \in Metric
    <3> DEFINE items == subject.items
               rule == ParserOf[metric].rule
               flag == rule = "ratio"
    <3>1. Parses(ParserOf[metric], subject) /\ subject \in Answers(metric)
      BY <2>0, <2>1 DEF Refuses
    <3>2. Parsed(metric, subject)
      BY <2>1, <3>1, ParsedAnswer
    <3>3. DOMAIN subject = {"fields", "numbers", "items", "trailing"}
      BY <3>1 DEF Answers
    <3>4. PICK i \in DOMAIN items :
            better = [subject EXCEPT !.items[i].flag = flag, !.items[i].number = Unit]
      BY <2>1 DEF Better
    <3>5. ListOf(metric, items)
      BY <3>2 DEF Parsed
    <3>6. Improved(items, better.items, i, flag) /\ better.numbers = subject.numbers
      <4>1. flag \in BOOLEAN
        OBVIOUS
      <4> HIDE DEF flag
      <4> QED BY <3>3, <3>4, <3>5, <4>1, ImprovedItem
    <3>7. Len(items) \in Nat /\ DOMAIN items = 1 .. Len(items)
      BY <3>5 DEF ListOf
    <3>8. score = Score(ParserOf[metric], subject)
      BY <2>0, <2>1 DEF ScoreOf
    <3>9. rule \in {"ratio", "inverse", "mean", "three", "given"}
      BY <3>2 DEF Parsed, RuleFits
    <3>10. CASE rule = "ratio"
      <4>1. Improved(items, better.items, i, TRUE)
        BY <3>6, <3>10
      <4>2. Ratio(items) <= Ratio(better.items)
        BY <3>7, <4>1, RatioImproves
      <4> QED BY <2>1, <3>8, <3>10, <4>2 DEF Score
    <3>11. CASE rule = "inverse"
      <4>1. Improved(items, better.items, i, FALSE)
        BY <3>6, <3>11
      <4>2. InverseRatio(items) <= InverseRatio(better.items)
        BY <3>7, <4>1, InverseImproves
      <4> QED BY <2>1, <3>8, <3>11, <4>2 DEF Score
    <3>12. CASE rule = "mean"
      <4>1. /\ Len(items) <= Resolution
            /\ \A j \in 1 .. Len(items) : Taken(items[j].number)
        BY <3>2, <3>12 DEF Parsed
      <4>2. Len(items) \in 0 .. Resolution
        <5> DEFINE n == Len(items)
        <5>1. n \in Nat /\ n <= Resolution
          BY <3>7, <4>1
        <5> HIDE DEF n
        <5>2. n \in 0 .. Resolution
          BY <5>1, Sizes
        <5> QED BY <5>2 DEF n
      <4>3. Mean(items) <= Mean(better.items)
        BY <3>6, <3>7, <4>1, <4>2, MeanImproves
      <4> QED BY <2>1, <3>8, <3>12, <4>3 DEF Score
    <3>13. CASE rule \in {"three", "given"}
      <4>1. Score(ParserOf[metric], better) = Score(ParserOf[metric], subject)
        BY <3>6, <3>13 DEF Score
      <4>2. score \in Int
        BY ScoreIsExact, Sizes DEF ScoresAs
      <4> QED BY <2>1, <3>8, <4>1, <4>2
    <3> QED BY <3>9, <3>10, <3>11, <3>12, <3>13
  <2>2. CASE metric \notin Metric
    <3>1. metric = "answer_similarity"
      BY <2>2 DEF Better
    <3>2. PICK word \in subject.expected :
            better = [subject EXCEPT !.answer = @ \cup {word}]
      BY <2>2, <3>1 DEF Better
    <3>3. subject \in [answer : Text, expected : Text, blank : BOOLEAN]
      BY <2>0, <2>2, <3>1, MetricsAssumption
    <3>4. /\ better.answer = subject.answer \cup {word}
          /\ better.expected = subject.expected
          /\ subject.answer \in Text /\ subject.expected \in Text
      BY <3>2, <3>3
    <3>5. Similarity(subject.answer, subject.expected)
            <= Similarity(subject.answer \cup {word}, subject.expected)
      BY <3>4, SimilarityImproves
    <3>6. score = Similarity(subject.answer, subject.expected)
      BY <2>0, <2>2, <3>1 DEF ScoreOf
    <3> QED BY <2>2, <3>4, <3>5, <3>6
  <2> QED BY <2>1, <2>2
<1> QED BY <1>1, EvaluationsSettle, PTL

-----------------------------------------------------------------------------
(* Functions of schemas and of values *)

\* What each is defined by, f standing for the function itself.
FieldsOf(value) == IF value.kind = "object" THEN value.fields ELSE <<>>

ItemsOf(schema, value) ==
  IF value.kind = "array" /\ schema.items # <<>> THEN value.items ELSE <<>>

OwnFaults(schema, value) ==
  (IF Mistyped(schema, value) THEN {<<"type">>} ELSE {})
  \cup (IF value.kind # "object" THEN {}
        ELSE {<<"required", name>> :
                name \in schema.required \ DOMAIN FieldsOf(value)})
  \cup (IF schema.additional # "false" THEN {}
        ELSE {<<"additional", name>> :
                name \in DOMAIN FieldsOf(value) \ DOMAIN schema.properties})

FieldFaults(f, schema, value, name) ==
  {<<name>> \o fault :
     fault \in f[schema.properties[name]][FieldsOf(value)[name]]}

ItemFaults(f, schema, value, i) ==
  {<<"item">> \o fault : fault \in f[schema.items[1]][ItemsOf(schema, value)[i]]}

FaultsIn(f, schema, value) ==
  OwnFaults(schema, value)
  \cup (UNION {FieldFaults(f, schema, value, name) :
                 name \in DOMAIN schema.properties \cap DOMAIN FieldsOf(value)})
  \cup (UNION {ItemFaults(f, schema, value, i) : i \in DOMAIN ItemsOf(schema, value)})

AcceptedIn(f, schema) ==
  { value \in JSON :
      /\ ~schema.broken
      /\ schema.types # {} => \E t \in schema.types : MatchesJSONType(value, t)
      /\ AsksForObject(schema) =>
           /\ value.kind = "object"
           /\ schema.required \subseteq DOMAIN value.fields
           /\ \A name \in DOMAIN schema.properties \cap DOMAIN value.fields :
                value.fields[name] \in f[schema.properties[name]]
           /\ schema.additional = "false" =>
                DOMAIN value.fields \subseteq DOMAIN schema.properties
      /\ schema.items # <<>> =>
           /\ value.kind = "array"
           /\ \A i \in DOMAIN value.items :
                value.items[i] \in f[schema.items[1]] }

FormedIn(f, schema) ==
  /\ ~schema.broken
  /\ schema.types \subseteq {"null", "object", "array", "string", "boolean",
                             "number", "integer"}
  /\ \A below \in Subschemas(schema) : f[below]

StatedIn(f, schema) ==
  /\ AsksForObject(schema) => schema.types = {"object"}
  /\ schema.items # <<>> => schema.types = {"array"}
  /\ \A below \in Subschemas(schema) : f[below]

EqualIn(f, left) ==
  { right \in JSON :
      \/ NumbersEqual(left, right)
      \/ /\ left.kind = "object"
         /\ right.kind = "object"
         /\ DOMAIN left.fields = DOMAIN right.fields
         /\ \A key \in DOMAIN left.fields :
              right.fields[key] \in f[left.fields[key]]
      \/ /\ left.kind = "array"
         /\ right.kind = "array"
         /\ Len(left.items) = Len(right.items)
         /\ \A i \in DOMAIN left.items :
              right.items[i] \in f[left.items[i]]
      \/ /\ left.kind \notin {"number", "object", "array"}
         /\ left = right }

CanonicalIn(f, value) ==
  CASE value.kind = "number" -> Shortest(value)
    [] value.kind = "array" ->
         JSONArray([i \in DOMAIN value.items |-> f[value.items[i]]])
    [] value.kind = "object" ->
         JSONObject([key \in DOMAIN value.fields |-> f[value.fields[key]]])
    [] value.kind \notin {"number", "array", "object"} -> value

AddressedIn(f, value) ==
  LET below(part, child) ==
        {<<<<part>> \o place[1], place[2]>> : place \in f[child]}
  IN  {<<<<>>, Canonical[value]>>}
      \cup (IF value.kind # "object" THEN {}
            ELSE UNION {below(key, value.fields[key]) :
                          key \in DOMAIN value.fields})
      \cup (IF value.kind # "array" THEN {}
            ELSE UNION {below(part, value.items[Atoi[part] + 1]) :
                          part \in {p \in DOMAIN Atoi :
                                      Atoi[p] + 1 \in DOMAIN value.items}})

TensIn(f, k) == IF k = 0 THEN 1 ELSE 10 * f[k - 1]

Evaluated(kind, f, node) ==
  CASE kind = "accepted"  -> AcceptedIn(f, node)
    [] kind = "formed"    -> FormedIn(f, node)
    [] kind = "stated"    -> StatedIn(f, node)
    [] kind = "faults"    -> [value \in JSON |-> FaultsIn(f, node, value)]
    [] kind = "equal"     -> EqualIn(f, node)
    [] kind = "canonical" -> CanonicalIn(f, node)
    [] kind = "addressed" -> AddressedIn(f, node)
    [] kind = "tens"      -> TensIn(f, node)

OfSchemas == {"accepted", "formed", "stated", "faults"}
OfValues  == {"equal", "canonical", "addressed"}

Kinds == OfSchemas \cup OfValues \cup {"tens"}

Nodes(kind) ==
  IF kind \in OfSchemas THEN Shapes ELSE IF kind \in OfValues THEN JSON ELSE Nat

Depth(kind) ==
  IF kind \in OfSchemas THEN ShapeDepth
  ELSE IF kind \in OfValues THEN JSONDepth ELSE [k \in Nat |-> k]

Below(kind, node) ==
  IF kind \in OfSchemas THEN Subschemas(node)
  ELSE IF kind \in OfValues THEN Parts(node)
  ELSE IF node = 0 THEN {} ELSE {node - 1}

\* What is below a schema.
LEMMA ShapeTree ==
  ASSUME NEW schema \in Shapes
  PROVE  /\ Subschemas(schema) \subseteq Shapes
         /\ \A name \in DOMAIN schema.properties :
              schema.properties[name] \in Subschemas(schema)
         /\ schema.items # <<>> => schema.items[1] \in Subschemas(schema)
<1>1. /\ schema.items \in {<<>>} \cup {<<item>> : item \in Shapes}
      /\ schema.properties \in [DOMAIN schema.properties -> Shapes]
  BY ShapesAssumption
<1>2. Range(schema.properties) \subseteq Shapes
  BY <1>1 DEF Range
<1>3. \A name \in DOMAIN schema.properties :
        schema.properties[name] \in Range(schema.properties)
  BY DEF Range
<1>4. /\ Range(schema.items) \subseteq Shapes
      /\ schema.items # <<>> => schema.items[1] \in Range(schema.items)
  <2>1. CASE schema.items = <<>>
    BY <2>1 DEF Range
  <2>2. CASE schema.items # <<>>
    <3>1. PICK item \in Shapes : schema.items = <<item>>
      BY <1>1, <2>2
    <3>2. DOMAIN <<item>> = {1} /\ <<item>>[1] = item
      OBVIOUS
    <3>3. Range(<<item>>) = {item}
      BY <3>2 DEF Range
    <3> QED BY <3>1, <3>2, <3>3
  <2> QED BY <2>1, <2>2
<1> QED BY <1>2, <1>3, <1>4 DEF Subschemas

\* What is below a value.
LEMMA JSONTree ==
  ASSUME NEW value \in JSON
  PROVE  /\ Parts(value) \subseteq JSON
         /\ value.kind = "object" => \A key \in DOMAIN value.fields :
              value.fields[key] \in Parts(value)
         /\ value.kind = "array" =>
              /\ value.items \in Seq(JSON)
              /\ \A i \in DOMAIN value.items : value.items[i] \in Parts(value)
<1>1. Decoded(value)
  BY JSONAssumption
<1>2. CASE value.kind = "object"
  <2>1. value.fields \in [DOMAIN value.fields -> JSON]
    BY <1>1, <1>2 DEF Decoded
  <2>2. Parts(value) = Range(value.fields)
    BY <1>2 DEF Parts
  <2> QED BY <1>2, <2>1, <2>2 DEF Range
<1>3. CASE value.kind = "array"
  <2>1. value.items \in Seq(JSON)
    BY <1>1, <1>3 DEF Decoded
  <2>2. Parts(value) = Range(value.items)
    BY <1>3 DEF Parts
  <2>3. \A i \in DOMAIN value.items : value.items[i] \in JSON
    BY <2>1
  <2> QED BY <1>3, <2>1, <2>2, <2>3 DEF Range
<1>4. CASE value.kind \notin {"object", "array"}
  BY <1>4 DEF Parts
<1> QED BY <1>2, <1>3, <1>4

\* Every kind of node is in trees of finite depth.
LEMMA Trees ==
  ASSUME NEW kind \in Kinds, NEW node \in Nodes(kind)
  PROVE  /\ Depth(kind)[node] \in Nat
         /\ \A b \in Below(kind, node) :
              b \in Nodes(kind) /\ Depth(kind)[b] < Depth(kind)[node]
<1>1. CASE kind \in OfSchemas
  <2>1. node \in Shapes /\ Depth(kind) = ShapeDepth
        /\ Below(kind, node) = Subschemas(node) /\ Nodes(kind) = Shapes
    BY <1>1 DEF Nodes, Depth, Below
  <2> QED BY <2>1, ShapeTree, ShapesAssumption
<1>2. CASE kind \in OfValues
  <2>1. node \in JSON /\ Depth(kind) = JSONDepth
        /\ Below(kind, node) = Parts(node) /\ Nodes(kind) = JSON
    BY <1>2 DEF Nodes, Depth, Below, OfSchemas, OfValues
  <2> QED BY <2>1, JSONTree, JSONAssumption
<1>3. CASE kind = "tens"
  <2>1. /\ node \in Nat /\ Depth(kind) = [k \in Nat |-> k] /\ Nodes(kind) = Nat
        /\ Below(kind, node) = IF node = 0 THEN {} ELSE {node - 1}
    BY <1>3 DEF Nodes, Depth, Below, OfSchemas, OfValues
  <2>2. Depth(kind)[node] = node
    BY <2>1
  <2>3. ASSUME NEW b \in Below(kind, node)
        PROVE  b \in Nat /\ Depth(kind)[b] = b /\ b < node
    BY <2>1
  <2> QED BY <2>1, <2>2, <2>3
<1> QED BY <1>1, <1>2, <1>3 DEF Kinds

\* What holds of a node if it holds of all below, holds of every node.
LEMMA TreeInduction ==
  ASSUME NEW kind \in Kinds, NEW T,
         \A node \in Nodes(kind) : Below(kind, node) \subseteq T => node \in T
  PROVE  Nodes(kind) \subseteq T
<1> DEFINE bad == Nodes(kind) \ T
           depths == {Depth(kind)[node] : node \in bad}
<1> SUFFICES ASSUME bad # {} PROVE FALSE
  OBVIOUS
<1>1. depths \subseteq Nat /\ depths # {}
  BY Trees
<1>2. PICK d \in depths : \A e \in depths : d <= e
  <2> HIDE DEF depths
  <2> QED BY <1>1, LeastExists
<1>3. PICK node \in bad : d = Depth(kind)[node]
  OBVIOUS
<1>4. ASSUME NEW b \in Below(kind, node) PROVE b \in T
  <2> SUFFICES ASSUME b \notin T PROVE FALSE
    OBVIOUS
  <2>1. b \in Nodes(kind) /\ Depth(kind)[b] \in Nat /\ Depth(kind)[node] \in Nat
        /\ Depth(kind)[b] < Depth(kind)[node]
    BY Trees
  <2>2. Depth(kind)[b] \in depths
    BY <2>1
  <2> HIDE DEF bad, depths
  <2>3. Depth(kind)[node] <= Depth(kind)[b]
    BY <1>2, <1>3, <2>2
  <2> QED BY <2>1, <2>3
<1> QED BY <1>4

\* Each looks no further than at what is below.
LEMMA FaultsLookBelow ==
  ASSUME NEW schema \in Shapes, NEW value, NEW f, NEW g,
         \A b \in Subschemas(schema) : f[b] = g[b]
  PROVE  FaultsIn(f, schema, value) = FaultsIn(g, schema, value)
<1>0. /\ \A name \in DOMAIN schema.properties :
           f[schema.properties[name]] = g[schema.properties[name]]
      /\ schema.items # <<>> => f[schema.items[1]] = g[schema.items[1]]
  BY ShapeTree
<1>1. \A name \in DOMAIN schema.properties :
        FieldFaults(f, schema, value, name) = FieldFaults(g, schema, value, name)
  BY <1>0 DEF FieldFaults
<1>2. \A i \in DOMAIN ItemsOf(schema, value) :
        ItemFaults(f, schema, value, i) = ItemFaults(g, schema, value, i)
  <2>1. schema.items = <<>> => DOMAIN ItemsOf(schema, value) = {}
    BY DEF ItemsOf
  <2>2. schema.items # <<>> => \A i \in DOMAIN ItemsOf(schema, value) :
          ItemFaults(f, schema, value, i) = ItemFaults(g, schema, value, i)
    BY <1>0 DEF ItemFaults
  <2> QED BY <2>1, <2>2
<1> QED BY <1>1, <1>2 DEF FaultsIn

\* So for what is addressed.
LEMMA AddressedLooksBelow ==
  ASSUME NEW value \in JSON, NEW f, NEW g, \A b \in Parts(value) : f[b] = g[b]
  PROVE  AddressedIn(f, value) = AddressedIn(g, value)
<1> DEFINE under(h, part, child) ==
             {<<<<part>> \o place[1], place[2]>> : place \in h[child]}
           keys(h) == UNION {under(h, key, value.fields[key]) :
                               key \in DOMAIN value.fields}
           indices == {p \in DOMAIN Atoi : Atoi[p] + 1 \in DOMAIN value.items}
           parts(h) == UNION {under(h, part, value.items[Atoi[part] + 1]) :
                                part \in indices}
           here == {<<<<>>, Canonical[value]>>}
<1>0. /\ value.kind = "object" => \A key \in DOMAIN value.fields :
           f[value.fields[key]] = g[value.fields[key]]
      /\ value.kind = "array" => \A i \in DOMAIN value.items :
           f[value.items[i]] = g[value.items[i]]
  BY JSONTree
<1>1. \A h : AddressedIn(h, value) =
               here \cup (IF value.kind # "object" THEN {} ELSE keys(h))
                    \cup (IF value.kind # "array" THEN {} ELSE parts(h))
  BY Zenon DEF AddressedIn
<1>2. \A part, child : f[child] = g[child] => under(f, part, child) = under(g, part, child)
  OBVIOUS
<1> HIDE DEF under
<1>3. value.kind = "object" => keys(f) = keys(g)
  BY <1>0, <1>2
<1>4. value.kind = "array" => parts(f) = parts(g)
  BY <1>0, <1>2
<1> HIDE DEF keys, parts, here
<1> QED BY <1>1, <1>3, <1>4

\* So for every kind.
LEMMA LooksBelow ==
  ASSUME NEW kind \in Kinds, NEW node \in Nodes(kind),
         NEW f, NEW g, \A b \in Below(kind, node) : f[b] = g[b]
  PROVE  Evaluated(kind, f, node) = Evaluated(kind, g, node)
<1>1. CASE kind \in OfSchemas
  <2>1. node \in Shapes /\ \A b \in Subschemas(node) : f[b] = g[b]
    BY <1>1 DEF Nodes, Below
  <2>2. /\ \A name \in DOMAIN node.properties :
             f[node.properties[name]] = g[node.properties[name]]
        /\ node.items # <<>> => f[node.items[1]] = g[node.items[1]]
    BY <2>1, ShapeTree
  <2>3. AcceptedIn(f, node) = AcceptedIn(g, node)
    BY <2>2 DEF AcceptedIn
  <2>4. FormedIn(f, node) = FormedIn(g, node) /\ StatedIn(f, node) = StatedIn(g, node)
    BY <2>1 DEF FormedIn, StatedIn
  <2>5. \A value : FaultsIn(f, node, value) = FaultsIn(g, node, value)
    BY <2>1, FaultsLookBelow
  <2> QED BY <1>1, <2>3, <2>4, <2>5 DEF OfSchemas, Evaluated
<1>2. CASE kind \in OfValues
  <2>1. node \in JSON /\ \A b \in Parts(node) : f[b] = g[b]
    BY <1>2 DEF Nodes, Below, OfSchemas, OfValues
  <2>2. /\ node.kind = "object" => \A key \in DOMAIN node.fields :
             f[node.fields[key]] = g[node.fields[key]]
        /\ node.kind = "array" => \A i \in DOMAIN node.items :
             f[node.items[i]] = g[node.items[i]]
    BY <2>1, JSONTree
  <2>3. EqualIn(f, node) = EqualIn(g, node)
    BY <2>2 DEF EqualIn
  <2>4. CanonicalIn(f, node) = CanonicalIn(g, node)
    <3>1. CASE node.kind = "object"
      BY <2>2, <3>1 DEF CanonicalIn
    <3>2. CASE node.kind = "array"
      BY <2>2, <3>2 DEF CanonicalIn
    <3>3. CASE node.kind \notin {"object", "array"}
      BY <3>3 DEF CanonicalIn
    <3> QED BY <3>1, <3>2, <3>3
  <2>5. AddressedIn(f, node) = AddressedIn(g, node)
    BY <2>1, AddressedLooksBelow
  <2> QED BY <1>2, <2>3, <2>4, <2>5 DEF OfValues, Evaluated
<1>3. CASE kind = "tens"
  <2>1. node \in Nat /\ Below(kind, node) = IF node = 0 THEN {} ELSE {node - 1}
    BY <1>3 DEF Nodes, Below, OfSchemas, OfValues
  <2>2. TensIn(f, node) = TensIn(g, node)
    BY <2>1 DEF TensIn
  <2> QED BY <1>3, <2>2 DEF Evaluated
<1> QED BY <1>1, <1>2, <1>3 DEF Kinds

-----------------------------------------------------------------------------
(* Recursion over trees *)

\* f is what kind defines for the nodes less than m deep.
Solves(kind, m, f) ==
  \A node \in Nodes(kind) :
    Depth(kind)[node] < m => f[node] = Evaluated(kind, f, node)

\* Two such functions are the same there.
LEMMA SolutionsAgree ==
  ASSUME NEW kind \in Kinds, NEW m \in Nat, NEW f, NEW g,
         Solves(kind, m, f), Solves(kind, m, g)
  PROVE  \A node \in Nodes(kind) : Depth(kind)[node] < m => f[node] = g[node]
<1> DEFINE T == {node \in Nodes(kind) : Depth(kind)[node] < m => f[node] = g[node]}
<1>1. ASSUME NEW node \in Nodes(kind), Below(kind, node) \subseteq T,
             Depth(kind)[node] < m
      PROVE  f[node] = g[node]
  <2>1. ASSUME NEW b \in Below(kind, node) PROVE f[b] = g[b]
    <3> DEFINE x == Depth(kind)[b]
               y == Depth(kind)[node]
    <3>1. x \in Nat /\ y \in Nat /\ x < y /\ y < m /\ b \in T
      BY <1>1, Trees
    <3>2. x < m
      <4> HIDE DEF x, y, T
      <4> QED BY <3>1
    <3> QED BY <3>1, <3>2
  <2>2. Evaluated(kind, f, node) = Evaluated(kind, g, node)
    <3> HIDE DEF T
    <3> QED BY <2>1, LooksBelow
  <2> QED BY <1>1, <2>2 DEF Solves
<1>2. \A node \in Nodes(kind) : Below(kind, node) \subseteq T => node \in T
  BY <1>1
<1>3. Nodes(kind) \subseteq T
  <2> HIDE DEF T
  <2> QED BY <1>2, TreeInduction
<1> QED BY <1>3

\* There is one for every depth.
LEMMA SolutionExists ==
  ASSUME NEW kind \in Kinds, NEW m \in Nat
  PROVE  \E f : Solves(kind, m, f)
<1> DEFINE bad == {k \in Nat : ~ \E f : Solves(kind, k, f)}
<1> SUFFICES ASSUME bad # {} PROVE FALSE
  OBVIOUS
<1>1. PICK k \in bad : \A j \in bad : k <= j
  <2>1. bad \subseteq Nat
    OBVIOUS
  <2> HIDE DEF bad
  <2> QED BY <2>1, LeastExists
<1>2. k \in Nat /\ ~ \E f : Solves(kind, k, f)
  OBVIOUS
<1>3. k # 0
  <2> SUFFICES ASSUME k = 0 PROVE FALSE
    OBVIOUS
  <2>1. Solves(kind, 0, 0)
    <3>1. \A node \in Nodes(kind) : ~ (Depth(kind)[node] < 0)
      BY Trees
    <3> QED BY <3>1 DEF Solves
  <2> QED BY <1>2, <2>1
<1>4. k - 1 \in Nat /\ ~ (k <= k - 1)
  BY <1>2, <1>3
<1>5. PICK g : Solves(kind, k - 1, g)
  BY <1>1, <1>4
<1> HIDE DEF bad
<1> DEFINE f == [node \in Nodes(kind) |-> Evaluated(kind, g, node)]
<1>6. ASSUME NEW node \in Nodes(kind), Depth(kind)[node] < k
      PROVE  f[node] = Evaluated(kind, f, node)
  <2>1. ASSUME NEW b \in Below(kind, node) PROVE f[b] = g[b]
    <3>1. b \in Nodes(kind) /\ Depth(kind)[b] \in Nat /\ Depth(kind)[node] \in Nat
          /\ Depth(kind)[b] < Depth(kind)[node]
      BY Trees
    <3>2. Depth(kind)[b] < k - 1
      <4> DEFINE x == Depth(kind)[b]
                 y == Depth(kind)[node]
      <4>1. x \in Nat /\ y \in Nat /\ x < y /\ y < k
        BY <1>6, <3>1
      <4> HIDE DEF x, y
      <4>2. x < k - 1
        BY <1>2, <4>1
      <4> QED BY <4>2 DEF x
    <3>3. g[b] = Evaluated(kind, g, b)
      BY <1>5, <3>1, <3>2 DEF Solves
    <3> QED BY <3>1, <3>3
  <2>2. f[node] = Evaluated(kind, g, node)
    OBVIOUS
  <2> HIDE DEF f
  <2>3. Evaluated(kind, f, node) = Evaluated(kind, g, node)
    BY <2>1, LooksBelow
  <2> QED BY <2>2, <2>3
<1>7. Solves(kind, k, f)
  <2> HIDE DEF f
  <2> QED BY <1>6 DEF Solves
<1> QED BY <1>2, <1>7

\* There is one for all of them.
LEMMA RecursionExists ==
  ASSUME NEW kind \in Kinds
  PROVE  \E f : f = [node \in Nodes(kind) |-> Evaluated(kind, f, node)]
<1> DEFINE upTo(m) == CHOOSE f : Solves(kind, m, f)
           f == [node \in Nodes(kind) |-> upTo(Depth(kind)[node] + 1)[node]]
<1>1. \A m \in Nat : Solves(kind, m, upTo(m))
  BY SolutionExists
<1> HIDE DEF upTo
<1>2. ASSUME NEW node \in Nodes(kind)
      PROVE  f[node] = Evaluated(kind, f, node)
  <2> DEFINE d == Depth(kind)[node]
             g == upTo(d + 1)
  <2>1. d \in Nat /\ d + 1 \in Nat /\ d < d + 1
    BY Trees
  <2>2. Solves(kind, d + 1, g)
    BY <1>1, <2>1
  <2>3. f[node] = g[node]
    OBVIOUS
  <2>4. g[node] = Evaluated(kind, g, node)
    <3> HIDE DEF g
    <3> QED BY <2>1, <2>2 DEF Solves
  <2>5. ASSUME NEW b \in Below(kind, node) PROVE f[b] = g[b]
    <3> DEFINE e == Depth(kind)[b]
               h == upTo(e + 1)
    <3>1. b \in Nodes(kind) /\ e \in Nat /\ e < d
      BY Trees
    <3>2. f[b] = h[b]
      BY <3>1
    <3>3. e + 1 \in Nat /\ e < e + 1
      BY <3>1
    <3>4. Solves(kind, e + 1, h)
      BY <1>1, <3>3
    <3> HIDE DEF h, g, f
    <3>5. \A n \in Nodes(kind) : Depth(kind)[n] < e + 1 => Depth(kind)[n] < d + 1
      <4> TAKE n \in Nodes(kind)
      <4>1. Depth(kind)[n] \in Nat
        BY Trees
      <4> DEFINE x == Depth(kind)[n]
      <4>2. x \in Nat
        BY <4>1
      <4>3. e \in Nat /\ d \in Nat /\ e < d
        BY <2>1, <3>1
      <4> HIDE DEF x, d, e
      <4>4. x < e + 1 => x < d + 1
        BY <4>2, <4>3
      <4> QED BY <4>4 DEF x
    <3>6. Solves(kind, e + 1, g)
      BY <2>2, <3>5 DEF Solves
    <3>7. h[b] = g[b]
      BY <3>1, <3>3, <3>4, <3>6, SolutionsAgree
    <3> QED BY <3>2, <3>7
  <2> HIDE DEF f, g
  <2>6. Evaluated(kind, f, node) = Evaluated(kind, g, node)
    BY <2>5, LooksBelow
  <2> QED BY <2>3, <2>4, <2>6
<1>3. f = [node \in Nodes(kind) |-> f[node]]
  OBVIOUS
<1> HIDE DEF f
<1>4. f = [node \in Nodes(kind) |-> Evaluated(kind, f, node)]
  BY <1>2, <1>3
<1> QED BY <1>4

\* So each function computes what it is defined by.
LEMMA Recursions ==
  /\ Accepted       = [schema \in Shapes |-> AcceptedIn(Accepted, schema)]
  /\ WellFormed     = [schema \in Shapes |-> FormedIn(WellFormed, schema)]
  /\ StatesItsTypes = [schema \in Shapes |-> StatedIn(StatesItsTypes, schema)]
  /\ Faults = [schema \in Shapes |->
                 [value \in JSON |-> FaultsIn(Faults, schema, value)]]
  /\ EqualTo   = [left \in JSON |-> EqualIn(EqualTo, left)]
  /\ Canonical = [value \in JSON |-> CanonicalIn(Canonical, value)]
  /\ Addressed = [value \in JSON |-> AddressedIn(Addressed, value)]
  /\ TenTo     = [k \in Nat |-> TensIn(TenTo, k)]
<1>1. /\ \A kind \in OfSchemas : \E f : f = [node \in Shapes |-> Evaluated(kind, f, node)]
      /\ \A kind \in OfValues : \E f : f = [node \in JSON |-> Evaluated(kind, f, node)]
      /\ \E f : f = [node \in Nat |-> Evaluated("tens", f, node)]
  <2>1. \A kind \in Kinds :
          \E f : f = [node \in Nodes(kind) |-> Evaluated(kind, f, node)]
    BY RecursionExists
  <2>2. /\ \A kind \in OfSchemas : kind \in Kinds /\ Nodes(kind) = Shapes
        /\ \A kind \in OfValues : kind \in Kinds /\ Nodes(kind) = JSON
        /\ "tens" \in Kinds /\ Nodes("tens") = Nat
    BY DEF Nodes, Kinds, OfSchemas, OfValues
  <2> QED BY <2>1, <2>2
<1>2. Accepted = [schema \in Shapes |-> AcceptedIn(Accepted, schema)]
  <2>1. \E f : f = [schema \in Shapes |-> AcceptedIn(f, schema)]
    BY <1>1, "accepted" \in OfSchemas DEF Evaluated, OfSchemas
  <2>2. Accepted = CHOOSE f : f = [schema \in Shapes |-> AcceptedIn(f, schema)]
    BY DEF Accepted, AcceptedIn
  <2> QED BY <2>1, <2>2
<1>3. WellFormed = [schema \in Shapes |-> FormedIn(WellFormed, schema)]
  <2>1. \E f : f = [schema \in Shapes |-> FormedIn(f, schema)]
    BY <1>1, "formed" \in OfSchemas DEF Evaluated, OfSchemas
  <2>2. WellFormed = CHOOSE f : f = [schema \in Shapes |-> FormedIn(f, schema)]
    BY DEF WellFormed, FormedIn
  <2> QED BY <2>1, <2>2
<1>4. StatesItsTypes = [schema \in Shapes |-> StatedIn(StatesItsTypes, schema)]
  <2>1. \E f : f = [schema \in Shapes |-> StatedIn(f, schema)]
    BY <1>1, "stated" \in OfSchemas DEF Evaluated, OfSchemas
  <2>2. StatesItsTypes = CHOOSE f : f = [schema \in Shapes |-> StatedIn(f, schema)]
    BY DEF StatesItsTypes, StatedIn
  <2> QED BY <2>1, <2>2
<1>5. Faults = [schema \in Shapes |->
                 [value \in JSON |-> FaultsIn(Faults, schema, value)]]
  <2>1. \E f : f = [schema \in Shapes |-> [value \in JSON |-> FaultsIn(f, schema, value)]]
    BY <1>1, "faults" \in OfSchemas DEF Evaluated, OfSchemas
  <2>2. Faults = CHOOSE f : f = [schema \in Shapes |->
                                  [value \in JSON |-> FaultsIn(f, schema, value)]]
    BY DEF Faults, FaultsIn, OwnFaults, FieldFaults, ItemFaults, FieldsOf,
       ItemsOf
  <2> QED BY <2>1, <2>2
<1>6. EqualTo = [left \in JSON |-> EqualIn(EqualTo, left)]
  <2>1. \E f : f = [left \in JSON |-> EqualIn(f, left)]
    BY <1>1, "equal" \in OfValues DEF Evaluated, OfValues
  <2>2. EqualTo = CHOOSE f : f = [left \in JSON |-> EqualIn(f, left)]
    BY DEF EqualTo, EqualIn
  <2> QED BY <2>1, <2>2
<1>7. Canonical = [value \in JSON |-> CanonicalIn(Canonical, value)]
  <2>1. \E f : f = [value \in JSON |-> CanonicalIn(f, value)]
    BY <1>1, "canonical" \in OfValues DEF Evaluated, OfValues
  <2> QED BY <2>1 DEF Canonical, CanonicalIn
<1>8. Addressed = [value \in JSON |-> AddressedIn(Addressed, value)]
  <2>1. \E f : f = [value \in JSON |-> AddressedIn(f, value)]
    BY <1>1, "addressed" \in OfValues DEF Evaluated, OfValues
  <2>2. Addressed = CHOOSE f : f = [value \in JSON |-> AddressedIn(f, value)]
    BY DEF Addressed, AddressedIn
  <2> QED BY <2>1, <2>2
<1>9. TenTo = [k \in Nat |-> TensIn(TenTo, k)]
  <2>1. \E f : f = [k \in Nat |-> TensIn(f, k)]
    BY <1>1 DEF Evaluated
  <2>2. TenTo = CHOOSE f : f = [k \in Nat |-> TensIn(f, k)]
    BY DEF TenTo, TensIn
  <2> QED BY <2>1, <2>2
<1> QED BY <1>2, <1>3, <1>4, <1>5, <1>6, <1>7, <1>8, <1>9

-----------------------------------------------------------------------------
(* Schemas *)

\* What validateSchemaValue accepts has no fault, and the other way round if
\* keywords stand beside their type.
Sound(schema) ==
  WellFormed[schema] => \A value \in Accepted[schema] : Faults[schema][value] = {}

Complete(schema) ==
  WellFormed[schema] /\ StatesItsTypes[schema] =>
    \A value \in JSON : Faults[schema][value] = {} => value \in Accepted[schema]

\* No fault is none of any kind.
LEMMA FaultlessIs ==
  ASSUME NEW f, NEW schema, NEW value
  PROVE  FaultsIn(f, schema, value) = {} <=>
           /\ ~Mistyped(schema, value)
           /\ value.kind = "object" =>
                schema.required \subseteq DOMAIN FieldsOf(value)
           /\ schema.additional = "false" =>
                DOMAIN FieldsOf(value) \subseteq DOMAIN schema.properties
           /\ \A name \in DOMAIN schema.properties \cap DOMAIN FieldsOf(value) :
                f[schema.properties[name]][FieldsOf(value)[name]] = {}
           /\ \A i \in DOMAIN ItemsOf(schema, value) :
                f[schema.items[1]][ItemsOf(schema, value)[i]] = {}
<1>1. OwnFaults(schema, value) = {} <=>
           /\ ~Mistyped(schema, value)
           /\ value.kind = "object" =>
                schema.required \subseteq DOMAIN FieldsOf(value)
           /\ schema.additional = "false" =>
                DOMAIN FieldsOf(value) \subseteq DOMAIN schema.properties
  BY DEF OwnFaults
<1>2. \A name : FieldFaults(f, schema, value, name) = {} <=>
                  f[schema.properties[name]][FieldsOf(value)[name]] = {}
  BY DEF FieldFaults
<1>3. \A i : ItemFaults(f, schema, value, i) = {} <=>
               f[schema.items[1]][ItemsOf(schema, value)[i]] = {}
  BY DEF ItemFaults
<1>4. FaultsIn(f, schema, value) = {} <=>
        /\ OwnFaults(schema, value) = {}
        /\ \A name \in DOMAIN schema.properties \cap DOMAIN FieldsOf(value) :
             FieldFaults(f, schema, value, name) = {}
        /\ \A i \in DOMAIN ItemsOf(schema, value) :
             ItemFaults(f, schema, value, i) = {}
  <2> DEFINE D == DOMAIN schema.properties \cap DOMAIN FieldsOf(value)
             E == DOMAIN ItemsOf(schema, value)
             named == UNION {FieldFaults(f, schema, value, name) : name \in D}
             listed == UNION {ItemFaults(f, schema, value, i) : i \in E}
  <2>1. FaultsIn(f, schema, value) = OwnFaults(schema, value) \cup named \cup listed
    BY DEF FaultsIn
  <2>2. named = {} <=> \A name \in D : FieldFaults(f, schema, value, name) = {}
    <3> HIDE DEF D
    <3> QED OBVIOUS
  <2>3. listed = {} <=> \A i \in E : ItemFaults(f, schema, value, i) = {}
    <3> HIDE DEF E
    <3> QED OBVIOUS
  <2> HIDE DEF named, listed
  <2>4. FaultsIn(f, schema, value) = {} <=>
          OwnFaults(schema, value) = {} /\ named = {} /\ listed = {}
    BY <2>1
  <2> QED BY <2>2, <2>3, <2>4
<1> QED BY <1>1, <1>2, <1>3, <1>4

\* Schemas that mean what they should below a schema do so there.
LEMMA SchemaStep ==
  ASSUME NEW schema \in Shapes,
         \A b \in Subschemas(schema) : Sound(b) /\ Complete(b)
  PROVE  Sound(schema) /\ Complete(schema)
<1>0. /\ Subschemas(schema) \subseteq Shapes
      /\ \A name \in DOMAIN schema.properties :
           schema.properties[name] \in Subschemas(schema)
      /\ schema.items # <<>> => schema.items[1] \in Subschemas(schema)
  BY ShapeTree
<1>1. WellFormed[schema] <=> FormedIn(WellFormed, schema)
  BY Recursions
<1>2. StatesItsTypes[schema] <=> StatedIn(StatesItsTypes, schema)
  BY Recursions
<1>3. Accepted[schema] = AcceptedIn(Accepted, schema)
  BY Recursions
<1>4. \A value \in JSON :
        Faults[schema][value] = FaultsIn(Faults, schema, value)
  BY Recursions
<1>5. \A value \in JSON :
        /\ \A name \in DOMAIN FieldsOf(value) : FieldsOf(value)[name] \in JSON
        /\ \A i \in DOMAIN ItemsOf(schema, value) : ItemsOf(schema, value)[i] \in JSON
  BY JSONTree DEF FieldsOf, ItemsOf
<1>6. Sound(schema)
  <2> SUFFICES ASSUME WellFormed[schema], NEW value \in Accepted[schema]
               PROVE  Faults[schema][value] = {}
    BY DEF Sound
  <2>1. \A b \in Subschemas(schema) : WellFormed[b]
    BY <1>1 DEF FormedIn
  <2>2. /\ value \in JSON
        /\ schema.types # {} => \E t \in schema.types : MatchesJSONType(value, t)
        /\ AsksForObject(schema) =>
             /\ value.kind = "object"
             /\ schema.required \subseteq DOMAIN value.fields
             /\ \A name \in DOMAIN schema.properties \cap DOMAIN value.fields :
                  value.fields[name] \in Accepted[schema.properties[name]]
             /\ schema.additional = "false" =>
                  DOMAIN value.fields \subseteq DOMAIN schema.properties
        /\ schema.items # <<>> =>
             /\ value.kind = "array"
             /\ \A i \in DOMAIN value.items :
                  value.items[i] \in Accepted[schema.items[1]]
    BY <1>3 DEF AcceptedIn
  <2>3. ~Mistyped(schema, value)
    BY <2>2 DEF Mistyped, MatchesJSONType
  <2>4. value.kind = "object" => schema.required \subseteq DOMAIN FieldsOf(value)
    BY <2>2 DEF FieldsOf, AsksForObject
  <2>5. schema.additional = "false" =>
          DOMAIN FieldsOf(value) \subseteq DOMAIN schema.properties
    BY <2>2 DEF FieldsOf, AsksForObject
  <2>6. ASSUME NEW name \in DOMAIN schema.properties \cap DOMAIN FieldsOf(value)
        PROVE  Faults[schema.properties[name]][FieldsOf(value)[name]] = {}
    <3>1. AsksForObject(schema)
      BY DEF AsksForObject
    <3>2. FieldsOf(value) = value.fields
      BY <2>2, <3>1 DEF FieldsOf
    <3>3. FieldsOf(value)[name] \in Accepted[schema.properties[name]]
      BY <2>2, <3>1, <3>2
    <3>4. Sound(schema.properties[name]) /\ WellFormed[schema.properties[name]]
      BY <1>0, <2>1
    <3> QED BY <3>3, <3>4 DEF Sound
  <2>7. ASSUME NEW i \in DOMAIN ItemsOf(schema, value)
        PROVE  Faults[schema.items[1]][ItemsOf(schema, value)[i]] = {}
    <3>1. schema.items # <<>> /\ ItemsOf(schema, value) = value.items
      BY DEF ItemsOf
    <3>2. ItemsOf(schema, value)[i] \in Accepted[schema.items[1]]
      BY <2>2, <3>1
    <3>3. Sound(schema.items[1]) /\ WellFormed[schema.items[1]]
      BY <1>0, <2>1, <3>1
    <3> QED BY <3>2, <3>3 DEF Sound
  <2> QED BY <1>4, <2>2, <2>3, <2>4, <2>5, <2>6, <2>7, FaultlessIs
<1>7. Complete(schema)
  <2> SUFFICES ASSUME WellFormed[schema], StatesItsTypes[schema], NEW value \in JSON,
                      Faults[schema][value] = {}
               PROVE  value \in Accepted[schema]
    BY DEF Complete
  <2>1. /\ ~schema.broken
        /\ schema.types \subseteq {"null", "object", "array", "string", "boolean",
                                   "number", "integer"}
        /\ \A b \in Subschemas(schema) : WellFormed[b]
    BY <1>1 DEF FormedIn
  <2>2. /\ AsksForObject(schema) => schema.types = {"object"}
        /\ schema.items # <<>> => schema.types = {"array"}
        /\ \A b \in Subschemas(schema) : StatesItsTypes[b]
    BY <1>2 DEF StatedIn
  <2>3. /\ ~Mistyped(schema, value)
        /\ value.kind = "object" =>
             schema.required \subseteq DOMAIN FieldsOf(value)
        /\ schema.additional = "false" =>
             DOMAIN FieldsOf(value) \subseteq DOMAIN schema.properties
        /\ \A name \in DOMAIN schema.properties \cap DOMAIN FieldsOf(value) :
             Faults[schema.properties[name]][FieldsOf(value)[name]] = {}
        /\ \A i \in DOMAIN ItemsOf(schema, value) :
             Faults[schema.items[1]][ItemsOf(schema, value)[i]] = {}
    <3>1. FaultsIn(Faults, schema, value) = {}
      BY <1>4
    <3> QED BY <3>1, FaultlessIs
  <2>4. schema.types # {} => \E t \in schema.types : MatchesJSONType(value, t)
    <3> SUFFICES ASSUME schema.types # {}
                 PROVE  \E t \in schema.types : MatchesJSONType(value, t)
      OBVIOUS
    <3>1. CASE value.kind \in schema.types
      <4>1. value.kind # "integer"
        BY JSONAssumption DEF Decoded
      <4>2. MatchesJSONType(value, value.kind)
        BY <2>1, <3>1, <4>1 DEF MatchesJSONType
      <4> QED BY <3>1, <4>2
    <3>2. CASE "integer" \in schema.types /\ IsInteger(value)
      BY <3>2 DEF MatchesJSONType
    <3> QED BY <2>3, <3>1, <3>2 DEF Mistyped
  <2>5. schema.types = {"object"} => value.kind = "object"
    BY <2>3 DEF Mistyped
  <2>6. schema.types = {"array"} => value.kind = "array"
    BY <2>3 DEF Mistyped
  <2>7. ASSUME AsksForObject(schema)
        PROVE  /\ value.kind = "object"
               /\ schema.required \subseteq DOMAIN value.fields
               /\ \A name \in DOMAIN schema.properties \cap DOMAIN value.fields :
                    value.fields[name] \in Accepted[schema.properties[name]]
               /\ schema.additional = "false" =>
                    DOMAIN value.fields \subseteq DOMAIN schema.properties
    <3>1. value.kind = "object" /\ FieldsOf(value) = value.fields
      BY <2>2, <2>5, <2>7 DEF FieldsOf
    <3>2. ASSUME NEW name \in DOMAIN schema.properties \cap DOMAIN value.fields
          PROVE  value.fields[name] \in Accepted[schema.properties[name]]
      <4>1. Complete(schema.properties[name]) /\ WellFormed[schema.properties[name]]
            /\ StatesItsTypes[schema.properties[name]]
        BY <1>0, <2>1, <2>2
      <4>2. value.fields[name] \in JSON
            /\ Faults[schema.properties[name]][value.fields[name]] = {}
        BY <1>5, <2>3, <3>1
      <4> QED BY <4>1, <4>2 DEF Complete
    <3> QED BY <2>3, <3>1, <3>2
  <2>8. ASSUME schema.items # <<>>
        PROVE  /\ value.kind = "array"
               /\ \A i \in DOMAIN value.items :
                    value.items[i] \in Accepted[schema.items[1]]
    <3>1. value.kind = "array" /\ ItemsOf(schema, value) = value.items
      BY <2>2, <2>6, <2>8 DEF ItemsOf
    <3>2. ASSUME NEW i \in DOMAIN value.items
          PROVE  value.items[i] \in Accepted[schema.items[1]]
      <4>1. Complete(schema.items[1]) /\ WellFormed[schema.items[1]]
            /\ StatesItsTypes[schema.items[1]]
        BY <1>0, <2>1, <2>2, <2>8
      <4>2. value.items[i] \in JSON /\ Faults[schema.items[1]][value.items[i]] = {}
        BY <1>5, <2>3, <3>1
      <4> QED BY <4>1, <4>2 DEF Complete
    <3> QED BY <3>1, <3>2
  <2>9. value \in AcceptedIn(Accepted, schema)
    BY <2>1, <2>4, <2>7, <2>8 DEF AcceptedIn
  <2> QED BY <1>3, <2>9
<1> QED BY <1>6, <1>7

\* So all schemas do.
LEMMA SchemasMean ==
  \A schema \in Shapes : Sound(schema) /\ Complete(schema)
<1> DEFINE T == {schema \in Shapes : Sound(schema) /\ Complete(schema)}
<1>1. "formed" \in Kinds /\ Nodes("formed") = Shapes
      /\ \A schema : Below("formed", schema) = Subschemas(schema)
  BY DEF Kinds, OfSchemas, Nodes, Below
<1>2. \A schema \in Shapes : Subschemas(schema) \subseteq T => schema \in T
  BY SchemaStep
<1>3. Shapes \subseteq T
  <2> HIDE DEF T
  <2> QED BY <1>1, <1>2, TreeInduction
<1> QED BY <1>3

\* validateSchemaValue means what JSON Schema means (SchemaMeansSchema).
THEOREM SchemasMeanSchema == Spec => []SchemaMeansSchema
<1>1. Inv => SchemaMeansSchema
  <2> SUFFICES ASSUME Inv, metric = "schema_compliance", Judged
               PROVE  LET schema  == Config.schema[1]
                          correct == /\ subject.json # NotJSON
                                     /\ Faults[schema][subject.json] = {}
                      IN  /\ WellFormed[schema] /\ score = One => correct
                          /\ /\ WellFormed[schema]
                             /\ StatesItsTypes[schema]
                             /\ correct
                             => score = One
    BY DEF SchemaMeansSchema
  <2> DEFINE schema == Config.schema[1]
  <2>0. metric \notin Metric
    BY MetricNames DEF Deterministic, JSONMetric
  <2>1. /\ metric \in Metric \cup Deterministic /\ options \in OptionLists(metric)
        /\ subject \in Subjects(metric) /\ ~Refuses /\ score = ScoreOf
    BY <2>0 DEF Inv, Given, Settled
  <2>2. schema \in Shapes
    <3>1. options \in Seq(Option)
      BY <2>1, MetricsAssumption
    <3> QED BY <2>1, <3>1, ConfigSet DEF Config, Refuses
  <2>3. subject.json \in JSON \cup {NotJSON}
    <3>1. subject \in [json : JSON \cup {NotJSON}]
      BY <2>1, MetricsAssumption DEF JSONMetric
    <3> QED BY <3>1
  <2>4. score = BoolScore(/\ subject.json # NotJSON
                          /\ subject.json \in Accepted[schema])
    BY <2>0, <2>1 DEF ScoreOf
  <2>5. One # 0
    BY Sizes
  <2>6. score = One <=> subject.json # NotJSON /\ subject.json \in Accepted[schema]
    BY <2>4, <2>5 DEF BoolScore
  <2>7. Sound(schema) /\ Complete(schema)
    BY <2>2, SchemasMean
  <2> HIDE DEF schema
  <2>8. WellFormed[schema] /\ score = One =>
          subject.json # NotJSON /\ Faults[schema][subject.json] = {}
    BY <2>6, <2>7 DEF Sound
  <2>9. /\ WellFormed[schema] /\ StatesItsTypes[schema]
        /\ subject.json # NotJSON /\ Faults[schema][subject.json] = {}
        => score = One
    BY <2>3, <2>6, <2>7 DEF Complete
  <2> QED BY <2>8, <2>9 DEF schema
<1> QED BY <1>1, EvaluationsSettle, PTL

-----------------------------------------------------------------------------
(* Powers of ten *)

\* A set of numbers with zero and, with each, the next has them all.
LEMMA AllNumbers ==
  ASSUME NEW T, T \subseteq Nat, 0 \in T, \A k \in T : k + 1 \in T
  PROVE  \A k \in Nat : k \in T
<1>1. "tens" \in Kinds /\ Nodes("tens") = Nat
      /\ \A k \in Nat : Below("tens", k) = IF k = 0 THEN {} ELSE {k - 1}
  BY DEF Kinds, OfSchemas, OfValues, Nodes, Below
<1>2. ASSUME NEW k \in Nat, Below("tens", k) \subseteq T PROVE k \in T
  <2>1. k # 0 => k - 1 \in T
    BY <1>1, <1>2
  <2>2. k # 0 => (k - 1) + 1 = k
    OBVIOUS
  <2> QED BY <2>1, <2>2
<1>3. Nat \subseteq T
  BY <1>1, <1>2, TreeInduction
<1> QED BY <1>3

\* Quotient and remainder.
LEMMA DivisionOfAny ==
  ASSUME NEW n \in Int, NEW d \in Nat \ {0}
  PROVE  /\ n \div d \in Int
         /\ n % d \in 0 .. d - 1
         /\ n = d * (n \div d) + (n % d)
BY SMT

\* A multiple is divided without a rest.
LEMMA DivisionOfMultiple ==
  ASSUME NEW x \in Int, NEW d \in Nat \ {0}
  PROVE  (d * x) % d = 0 /\ (d * x) \div d = x
<1> DEFINE n == d * x
           q == n \div d
           r == n % d
<1>1. n \in Int
  BY SMT
<1>2. q \in Int /\ r \in 0 .. d - 1 /\ n = d * q + r
  <2> HIDE DEF n
  <2> QED BY <1>1, DivisionOfAny
<1>3. d * (q + 1) = d * q + d /\ d * (x + 1) = d * x + d
  <2> HIDE DEF n, q
  <2> QED BY <1>2, SMT
<1>4. ~ (q < x)
  <2> SUFFICES ASSUME q < x PROVE FALSE
    OBVIOUS
  <2>1. d * (q + 1) <= d * x
    <3> HIDE DEF n, q
    <3>1. q + 1 <= x /\ q + 1 \in Int
      BY <1>2
    <3> QED BY <3>1, TimesMonotone
  <2> DEFINE a == d * q
             b == d * x
  <2>2. a \in Int /\ b \in Int
    <3> HIDE DEF n, q
    <3> QED BY <1>2, SMT
  <2>3. b = a + r /\ a + d <= b
    BY <1>2, <1>3, <2>1
  <2> HIDE DEF a, b, r, q, n
  <2> QED BY <1>2, <2>2, <2>3
<1>5. ~ (x < q)
  <2> SUFFICES ASSUME x < q PROVE FALSE
    OBVIOUS
  <2>1. d * (x + 1) <= d * q
    <3> HIDE DEF n, q
    <3>1. x + 1 <= q /\ x + 1 \in Int
      BY <1>2
    <3> QED BY <1>2, <3>1, TimesMonotone
  <2> DEFINE a == d * q
             b == d * x
  <2>2. a \in Int /\ b \in Int
    <3> HIDE DEF n, q
    <3> QED BY <1>2, SMT
  <2>3. b = a + r /\ b + d <= a
    BY <1>2, <1>3, <2>1
  <2> HIDE DEF a, b, r, q, n
  <2> QED BY <1>2, <2>2, <2>3
<1>6. q = x
  <2> HIDE DEF q, n
  <2> QED BY <1>2, <1>4, <1>5
<1>7. r = 0
  <2> DEFINE a == d * x
  <2>1. a \in Int /\ a = a + r
    BY <1>1, <1>2, <1>6
  <2> HIDE DEF a, r
  <2> QED BY <1>2, <2>1
<1> QED BY <1>6, <1>7

\* The powers of ten.
LEMMA Tens ==
  /\ TenTo[0] = 1
  /\ \A k \in Nat : TenTo[k + 1] = 10 * TenTo[k] /\ TenTo[k] \in Nat \ {0}
<1>1. \A k \in Nat : TenTo[k] = IF k = 0 THEN 1 ELSE 10 * TenTo[k - 1]
  BY Recursions DEF TensIn
<1>2. \A k \in Nat : TenTo[k + 1] = 10 * TenTo[k]
  <2> TAKE k \in Nat
  <2>1. k + 1 \in Nat /\ k + 1 # 0 /\ (k + 1) - 1 = k
    OBVIOUS
  <2> QED BY <1>1, <2>1
<1> DEFINE T == {k \in Nat : TenTo[k] \in Nat \ {0}}
<1>3. \A k \in Nat : k \in T
  <2>1. T \subseteq Nat /\ 0 \in T
    BY <1>1
  <2>2. ASSUME NEW k \in T PROVE k + 1 \in T
    <3> DEFINE x == TenTo[k]
    <3>1. k \in Nat /\ k + 1 \in Nat /\ x \in Nat \ {0} /\ TenTo[k + 1] = 10 * x
      BY <1>2
    <3>2. 10 * x \in Nat \ {0}
      <4> HIDE DEF x
      <4> QED BY <3>1
    <3> QED BY <3>1, <3>2
  <2> HIDE DEF T
  <2> QED BY <2>1, <2>2, AllNumbers
<1> QED BY <1>1, <1>2, <1>3

\* The product of two powers of ten.
LEMMA TensAdd ==
  ASSUME NEW m \in Nat, NEW n \in Nat
  PROVE  TenTo[m + n] = TenTo[m] * TenTo[n]
<1> DEFINE T == {k \in Nat : TenTo[k + n] = TenTo[k] * TenTo[n]}
<1>1. T \subseteq Nat /\ 0 \in T
  BY Tens
<1>2. ASSUME NEW k \in T PROVE k + 1 \in T
  <2> DEFINE a == TenTo[k]
             b == TenTo[n]
  <2>1. /\ k \in Nat /\ k + n \in Nat /\ k + 1 \in Nat
        /\ (k + 1) + n = (k + n) + 1
        /\ TenTo[k + n] = a * b
    OBVIOUS
  <2>2. a \in Nat /\ b \in Nat /\ TenTo[k + 1] = 10 * a
        /\ TenTo[(k + n) + 1] = 10 * (a * b)
    BY <2>1, Tens
  <2>3. 10 * (a * b) = (10 * a) * b
    <3> HIDE DEF a, b
    <3> QED BY <2>2, SMT
  <2> QED BY <2>1, <2>2, <2>3
<1>3. m \in T
  <2> HIDE DEF T
  <2> QED BY <1>1, <1>2, AllNumbers
<1> QED BY <1>3

\* A number ends in fewer zeros than it has digits.
LEMMA FewZeros ==
  ASSUME NEW d \in Digits, d # 0
  PROVE  \E k \in 0 .. MaxDigits - 1 : d % TenTo[k] = 0 /\ d % TenTo[k + 1] # 0
<1> DEFINE T == {k \in Nat : d % TenTo[k] # 0}
<1>0. /\ MaxDigits \in Nat \ {0}
      /\ d \in Int /\ -TenTo[MaxDigits] < d /\ d < TenTo[MaxDigits]
  BY DigitsAssumption DEF Digits
<1>2. d % TenTo[MaxDigits] # 0
  <2> SUFFICES ASSUME d % TenTo[MaxDigits] = 0 PROVE FALSE
    OBVIOUS
  <2> DEFINE t == TenTo[MaxDigits]
             q == d \div t
  <2>1. t \in Nat \ {0} /\ d % t = 0 /\ -t < d /\ d < t
    BY <1>0, Tens
  <2>2. q \in Int /\ d = t * q
    <3>1. q \in Int /\ d = t * q + (d % t)
      <4> HIDE DEF t
      <4> QED BY <1>0, <2>1, DivisionOfAny
    <3> DEFINE x == t * q
    <3>2. x \in Int
      <4> HIDE DEF t, q
      <4> QED BY <2>1, <3>1
    <3>3. d = x + 0
      BY <2>1, <3>1
    <3> HIDE DEF x, t, q
    <3> QED BY <3>1, <3>2, <3>3 DEF x
  <2> HIDE DEF t, q
  <2>3. t * 1 = t /\ t * (-1) = -t /\ t * 0 = 0
    BY <2>1
  <2>4. q = 0
    <3>1. q >= 1 => t * 1 <= t * q
      BY <2>1, <2>2, TimesMonotone
    <3>2. q <= -1 => t * q <= t * (-1)
      BY <2>1, <2>2, TimesMonotone
    <3>3. ~ (q >= 1)
      BY <1>0, <2>1, <2>2, <2>3, <3>1
    <3>4. ~ (q <= -1)
      BY <1>0, <2>1, <2>2, <2>3, <3>2
    <3> QED BY <2>2, <3>3, <3>4
  <2> QED BY <2>2, <2>3, <2>4
<1>3. PICK m \in T : \A j \in T : m <= j
  <2>1. T \subseteq Nat /\ MaxDigits \in T
    BY <1>0, <1>2, SMT
  <2> HIDE DEF T
  <2> QED BY <2>1, LeastExists
<1>4. m \in Nat /\ d % TenTo[m] # 0 /\ m <= MaxDigits
  BY <1>0, <1>2, <1>3, SMT
<1>5. m # 0
  <2> SUFFICES ASSUME m = 0 PROVE FALSE
    OBVIOUS
  <2>1. TenTo[m] = 1 /\ d % 1 = 0
    BY <1>0, Tens, SMT
  <2> QED BY <1>4, <2>1
<1>6. m - 1 \in 0 .. MaxDigits - 1 /\ m - 1 \in Nat /\ ~ (m <= m - 1) /\ (m - 1) + 1 = m
  <2> HIDE DEF T
  <2> QED BY <1>0, <1>4, <1>5, SMT
<1>7. d % TenTo[m - 1] = 0
  BY <1>3, <1>6
<1> QED BY <1>4, <1>6, <1>7

\* The shortest way to write a number ends in no zero.
LEMMA ShortestIs ==
  ASSUME NEW n, n.digits \in Digits, n.digits # 0
  PROVE  \E k \in Nat, a \in Int :
           /\ Shortest(n) = JSONNumber(a, n.scale - k)
           /\ n.digits = TenTo[k] * a
           /\ a % 10 # 0
<1> DEFINE d == n.digits
           k == CHOOSE j \in 0 .. MaxDigits - 1 : d % TenTo[j] = 0 /\ d % TenTo[j + 1] # 0
           a == d \div TenTo[k]
<1>0. d \in Int
  BY DEF Digits
<1>1. k \in 0 .. MaxDigits - 1 /\ d % TenTo[k] = 0 /\ d % TenTo[k + 1] # 0
  BY FewZeros
<1>2. Shortest(n) = JSONNumber(a, n.scale - k)
  BY DEF Shortest
<1>3. k \in Nat /\ TenTo[k] \in Nat \ {0} /\ TenTo[k + 1] = 10 * TenTo[k]
      /\ TenTo[k + 1] \in Nat \ {0}
  <2>1. k \in Nat /\ k + 1 \in Nat
    <3> HIDE DEF k
    <3> QED BY <1>1, DigitsAssumption
  <2> HIDE DEF k
  <2> QED BY <2>1, Tens
<1>4. a \in Int /\ d = TenTo[k] * a
  <2> DEFINE t == TenTo[k]
  <2>1. t \in Nat \ {0} /\ d % t = 0
    BY <1>1, <1>3
  <2>2. d \div t \in Int /\ d = t * (d \div t) + (d % t)
    <3> HIDE DEF t, d
    <3> QED BY <1>0, <2>1, DivisionOfAny
  <2> DEFINE x == t * (d \div t)
  <2>3. x \in Int
    <3> HIDE DEF t, d
    <3> QED BY <2>1, <2>2, SMT
  <2>4. d = x
    <3>1. d = x + 0
      BY <2>1, <2>2
    <3> HIDE DEF x, d
    <3> QED BY <2>3, <3>1
  <2> QED BY <2>2, <2>4
<1>5. a % 10 # 0
  <2> SUFFICES ASSUME a % 10 = 0 PROVE FALSE
    OBVIOUS
  <2>1. PICK b \in Int : a = 10 * b
    <3> HIDE DEF a
    <3> QED BY <1>4, SMT
  <2> DEFINE t == TenTo[k]
  <2>2. t * (10 * b) = (10 * t) * b
    <3>1. t \in Nat
      BY <1>3
    <3> HIDE DEF t, a
    <3> QED BY <3>1, SMT
  <2>3. d = TenTo[k + 1] * b
    BY <1>3, <1>4, <2>1, <2>2
  <2>4. d % TenTo[k + 1] = 0
    <3> HIDE DEF k, d, a
    <3> QED BY <1>3, <2>3, DivisionOfMultiple
  <2> QED BY <1>1, <2>4
<1> HIDE DEF k, a, d
<1> QED BY <1>2, <1>3, <1>4, <1>5 DEF d

\* A product that is written without its zeros in only one way.
LEMMA OneWayToTrim ==
  ASSUME NEW p \in Nat, NEW q \in Nat, p <= q, NEW a \in Int, NEW b \in Int,
         TenTo[p] * a = TenTo[q] * b, a % 10 # 0
  PROVE  p = q /\ a = b
<1> DEFINE t == TenTo[p]
           u == TenTo[q - p]
<1>1. q - p \in Nat /\ p + (q - p) = q
  OBVIOUS
<1>2. t \in Nat \ {0} /\ u \in Nat \ {0} /\ TenTo[q] = t * u
  <2>1. TenTo[p + (q - p)] = TenTo[p] * TenTo[q - p]
    BY <1>1, TensAdd
  <2> QED BY <1>1, <2>1, Tens
<1>3. u * b \in Int /\ t * a = t * (u * b)
  <2>1. t * a = (t * u) * b
    BY <1>2
  <2> HIDE DEF t, u
  <2> QED BY <1>2, <2>1, SMT
<1>4. a = u * b
  <2> DEFINE c == u * b
  <2>1. c \in Int /\ t * a = t * c
    BY <1>3
  <2>2. t * a \in Int
    <3> HIDE DEF t
    <3> QED BY <1>2, SMT
  <2>3. ~ (a < c) /\ ~ (c < a)
    <3>1. a < c => t * a < t * c
      <4> HIDE DEF t, c
      <4> QED BY <1>2, <2>1, TimesStrict
    <3>2. c < a => t * c < t * a
      <4> HIDE DEF t, c
      <4> QED BY <1>2, <2>1, TimesStrict
    <3> DEFINE x == t * a
    <3>3. x \in Int /\ ~ (x < x)
      <4>1. x \in Int
        BY <2>2
      <4> HIDE DEF x
      <4> QED BY <4>1
    <3> QED BY <2>1, <3>1, <3>2, <3>3
  <2> HIDE DEF c
  <2> QED BY <2>1, <2>3 DEF c
<1>5. q - p = 0
  <2> SUFFICES ASSUME q - p # 0 PROVE FALSE
    OBVIOUS
  <2>1. q - p - 1 \in Nat /\ (q - p - 1) + 1 = q - p
    BY <1>1
  <2> DEFINE v == TenTo[q - p - 1]
  <2>2. v \in Nat /\ u = 10 * v
    BY <2>1, Tens
  <2>3. a = 10 * (v * b) /\ v * b \in Int
    <3>1. a = (10 * v) * b
      BY <1>4, <2>2
    <3> HIDE DEF v, u, t
    <3> QED BY <2>2, <3>1, SMT
  <2> DEFINE w == v * b
  <2>4. w \in Int /\ a = 10 * w
    BY <2>3
  <2>5. a % 10 = 0
    <3> HIDE DEF w
    <3> QED BY <2>4, SMT
  <2> QED BY <2>5
<1>6. p = q /\ u = 1
  <2>1. u = 1
    BY <1>5, Tens
  <2> QED BY <1>5, <2>1
<1>7. u * b = b
  BY <1>6
<1> QED BY <1>4, <1>6, <1>7

-----------------------------------------------------------------------------
(* Equal numbers *)

\* How a scale enters the numerator and the denominator.
Raised(scale) == IF scale > 0 THEN 1 ELSE TenTo[-scale]
Divided(scale) == IF scale > 0 THEN TenTo[scale] ELSE 1

\* Two scales, brought to one denominator.
LEMMA ScalesCross ==
  ASSUME NEW l \in Int, NEW r \in Int, l <= r
  PROVE  /\ Raised(l) \in Nat \ {0} /\ Divided(r) \in Nat \ {0}
         /\ Raised(r) \in Nat \ {0} /\ Divided(l) \in Nat \ {0}
         /\ TenTo[r - l] \in Nat \ {0}
         /\ Raised(l) * Divided(r) = TenTo[r - l] * (Raised(r) * Divided(l))
<1>0. r - l \in Nat /\ TenTo[r - l] \in Nat \ {0}
  BY Tens
<1> DEFINE t == TenTo[r - l]
<1>1. CASE l > 0
  <2>1. r \in Nat /\ l \in Nat /\ r > 0 /\ (r - l) + l = r
    BY <1>1
  <2>2. TenTo[r] = t * TenTo[l] /\ TenTo[r] \in Nat \ {0} /\ TenTo[l] \in Nat \ {0}
    BY <1>0, <2>1, TensAdd, Tens
  <2>3. /\ Raised(l) = 1 /\ Raised(r) = 1
        /\ Divided(l) = TenTo[l] /\ Divided(r) = TenTo[r]
    BY <1>1, <2>1 DEF Raised, Divided
  <2>4. 1 * TenTo[r] = TenTo[r] /\ 1 * TenTo[l] = TenTo[l]
    BY <2>2
  <2> QED BY <1>0, <2>2, <2>3, <2>4
<1>2. CASE l <= 0 /\ r > 0
  <2>1. r \in Nat /\ -l \in Nat /\ -l + r = r - l /\ ~ (l > 0)
    BY <1>2
  <2>2. t = TenTo[-l] * TenTo[r] /\ TenTo[r] \in Nat \ {0} /\ TenTo[-l] \in Nat \ {0}
    BY <2>1, TensAdd, Tens
  <2>3. /\ Raised(l) = TenTo[-l] /\ Raised(r) = 1
        /\ Divided(l) = 1 /\ Divided(r) = TenTo[r]
    BY <1>2, <2>1 DEF Raised, Divided
  <2>4. t * (1 * 1) = t
    BY <1>0
  <2> QED BY <1>0, <2>2, <2>3, <2>4
<1>3. CASE l <= 0 /\ r <= 0
  <2>1. -r \in Nat /\ -l \in Nat /\ (r - l) + (-r) = -l /\ ~ (l > 0) /\ ~ (r > 0)
    BY <1>3
  <2>2. TenTo[-l] = t * TenTo[-r] /\ TenTo[-r] \in Nat \ {0} /\ TenTo[-l] \in Nat \ {0}
    <3>1. TenTo[(r - l) + (-r)] = TenTo[r - l] * TenTo[-r]
      BY <1>0, <2>1, TensAdd
    <3> QED BY <2>1, <3>1, Tens
  <2>3. /\ Raised(l) = TenTo[-l] /\ Raised(r) = TenTo[-r]
        /\ Divided(l) = 1 /\ Divided(r) = 1
    BY <2>1 DEF Raised, Divided
  <2>4. TenTo[-l] * 1 = TenTo[-l] /\ TenTo[-r] * 1 = TenTo[-r]
    BY <2>2
  <2> QED BY <1>0, <2>2, <2>3, <2>4
<1> QED BY <1>1, <1>2, <1>3

\* A number as decodeJSONValue returns it.
Numeral(n) == IsNumber(n) /\ n.digits \in Digits /\ n.scale \in Int

\* The fraction a numeral stands for.
LEMMA RationalIs ==
  ASSUME NEW n, Numeral(n)
  PROVE  /\ Rational(n)[1] = n.digits * Raised(n.scale)
         /\ Rational(n)[2] = Divided(n.scale)
<1>1. n.digits \in Int /\ n.scale \in Int
  BY DEF Numeral, Digits
<1>2. n.digits * 1 = n.digits
  BY <1>1
<1>3. CASE n.scale > 0
  BY <1>2, <1>3 DEF Rational, Raised, Divided
<1>4. CASE ~ (n.scale > 0)
  BY <1>4 DEF Rational, Raised, Divided
<1> QED BY <1>3, <1>4

\* Of two equal numbers, one is the other with zeros appended.
LEMMA EqualNumbersAre ==
  ASSUME NEW l, NEW r, Numeral(l), Numeral(r), l.scale <= r.scale
  PROVE  NumbersEqual(l, r) <=> r.digits = TenTo[r.scale - l.scale] * l.digits
<1> DEFINE x == l.digits
           y == r.digits
           a == Raised(l.scale)
           b == Divided(r.scale)
           c == Raised(r.scale)
           d == Divided(l.scale)
           t == TenTo[r.scale - l.scale]
<1>1. x \in Int /\ y \in Int /\ l.scale \in Int /\ r.scale \in Int
  BY DEF Numeral, Digits
<1>2. /\ a \in Nat \ {0} /\ b \in Nat \ {0} /\ c \in Nat \ {0} /\ d \in Nat \ {0}
      /\ t \in Nat \ {0} /\ a * b = t * (c * d)
  BY <1>1, ScalesCross
<1>3. NumbersEqual(l, r) <=> (x * a) * b = (y * c) * d
  BY RationalIs DEF NumbersEqual, Numeral
<1> DEFINE e == c * d
<1>4. (x * a) * b = e * (t * x)
  <2>1. a * b = t * e
    BY <1>2
  <2>2. e \in Int
    <3>1. c \in Int /\ d \in Int
      BY <1>2
    <3> HIDE DEF c, d
    <3> QED BY <3>1, SMT
  <2>3. (x * a) * b = x * (a * b)
    <3>1. a \in Int /\ b \in Int
      BY <1>2
    <3> HIDE DEF x, a, b
    <3> QED BY <1>1, <3>1, SMT
  <2>4. x * (t * e) = e * (t * x)
    <3>1. t \in Int
      BY <1>2
    <3> HIDE DEF x, t, e
    <3> QED BY <1>1, <2>2, <3>1, SMT
  <2> HIDE DEF x, a, b, e, t
  <2> QED BY <2>1, <2>3, <2>4
<1>5. (y * c) * d = e * y
  <2>1. c \in Int /\ d \in Int
    BY <1>2
  <2>2. (y * c) * d = (c * d) * y
    <3> HIDE DEF y, c, d
    <3> QED BY <1>1, <2>1, SMT
  <2> QED BY <2>2
<1>6. e \in Nat \ {0}
  <2> HIDE DEF c, d
  <2>1. c * 0 < c * d
    BY <1>2, TimesStrict
  <2>2. c * 0 = 0 /\ c * d \in Int
    BY <1>2, SMT
  <2> DEFINE p == c * d
  <2>3. p \in Int /\ 0 < p
    BY <2>1, <2>2
  <2> HIDE DEF p
  <2>4. p \in Nat \ {0}
    BY <2>3
  <2> QED BY <2>4 DEF p
<1> DEFINE z == t * x
<1>7. z \in Int
  <2>1. t \in Int
    BY <1>2
  <2> HIDE DEF t, x
  <2> QED BY <1>1, <2>1, SMT
<1>8. e * z = e * y <=> z = y
  <2> HIDE DEF e, z, x, y
  <2>1. z < y => e * z < e * y
    BY <1>1, <1>6, <1>7, TimesStrict
  <2>2. y < z => e * y < e * z
    BY <1>1, <1>6, <1>7, TimesStrict
  <2> DEFINE f == e * z
  <2>3. f \in Int
    BY <1>6, <1>7, SMT
  <2>4. ~ (f < f)
    <3> HIDE DEF f
    <3> QED BY <2>3
  <2>5. e * z = e * y => ~ (z < y) /\ ~ (y < z)
    BY <2>1, <2>2, <2>4
  <2> QED BY <1>1, <1>7, <2>5
<1> HIDE DEF x, y, a, b, c, d, e
<1>9. NumbersEqual(l, r) <=> z = y
  BY <1>3, <1>4, <1>5, <1>8
<1> QED BY <1>9 DEF x, y

\* Equal numbers have one shortest form, the smaller scale first.
LEMMA OrderedNumbers ==
  ASSUME NEW l, NEW r, Numeral(l), Numeral(r), l.scale <= r.scale
  PROVE  NumbersEqual(l, r) <=> Shortest(l) = Shortest(r)
<1> DEFINE x == l.digits
           y == r.digits
           s == r.scale - l.scale
           t == TenTo[s]
<1>1. x \in Digits /\ y \in Digits /\ l.scale \in Int /\ r.scale \in Int /\ s \in Nat
  BY DEF Numeral
<1>2. x \in Int /\ y \in Int /\ t \in Nat \ {0}
  BY <1>1, Tens DEF Digits
<1>3. NumbersEqual(l, r) <=> y = t * x
  BY EqualNumbersAre
<1>4. t * 0 = 0
  BY <1>2
<1>5. \A a, b, c, d : JSONNumber(a, b) = JSONNumber(c, d) <=> a = c /\ b = d
  <2>1. \A a, b : JSONNumber(a, b).digits = a /\ JSONNumber(a, b).scale = b
    BY DEF JSONNumber
  <2> QED BY <2>1
<1>6. CASE x = 0 /\ y = 0
  BY <1>3, <1>4, <1>6 DEF Shortest
<1>7. CASE x = 0 /\ y # 0
  <2>1. PICK j \in Nat, b \in Int :
          Shortest(r) = JSONNumber(b, r.scale - j) /\ b % 10 # 0
    BY <1>1, <1>7, ShortestIs
  <2>2. b # 0
    BY <2>1
  <2>3. Shortest(l) = JSONNumber(0, 0)
    BY <1>7 DEF Shortest
  <2> QED BY <1>3, <1>4, <1>5, <1>7, <2>1, <2>2, <2>3
<1>8. CASE x # 0 /\ y = 0
  <2>1. PICK k \in Nat, a \in Int :
          Shortest(l) = JSONNumber(a, l.scale - k) /\ a % 10 # 0
    BY <1>1, <1>8, ShortestIs
  <2>2. a # 0
    BY <2>1
  <2>3. Shortest(r) = JSONNumber(0, 0)
    BY <1>8 DEF Shortest
  <2>4. t * x # 0
    <3> HIDE DEF t, x
    <3>1. x < 0 => t * x < t * 0
      BY <1>2, TimesStrict
    <3>2. 0 < x => t * 0 < t * x
      BY <1>2, TimesStrict
    <3>3. x < 0 \/ 0 < x
      BY <1>2, <1>8
    <3> QED BY <1>4, <3>1, <3>2, <3>3
  <2> HIDE DEF x, y, t
  <2> QED BY <1>3, <1>5, <1>8, <2>1, <2>2, <2>3, <2>4
<1>9. CASE x # 0 /\ y # 0
  <2>1. PICK k \in Nat, a \in Int : /\ Shortest(l) = JSONNumber(a, l.scale - k)
                                    /\ x = TenTo[k] * a
                                    /\ a % 10 # 0
    BY <1>1, <1>9, ShortestIs
  <2>2. PICK j \in Nat, b \in Int : /\ Shortest(r) = JSONNumber(b, r.scale - j)
                                    /\ y = TenTo[j] * b
                                    /\ b % 10 # 0
    BY <1>1, <1>9, ShortestIs
  <2>3. t * x = TenTo[s + k] * a /\ s + k \in Nat
    <3>1. TenTo[s + k] = t * TenTo[k] /\ TenTo[k] \in Int /\ s + k \in Nat
      <4>1. TenTo[s + k] = TenTo[s] * TenTo[k] /\ s + k \in Nat
        <5>1. s \in Nat
          BY <1>1
        <5> HIDE DEF s
        <5> QED BY <5>1, TensAdd
      <4>2. TenTo[k] \in Int
        BY Tens
      <4> QED BY <4>1, <4>2
    <3> DEFINE u == TenTo[k]
    <3>2. t * (u * a) = (t * u) * a
      <4>1. u \in Int /\ t \in Int
        BY <1>2, <3>1
      <4> HIDE DEF t, u
      <4> QED BY <4>1, SMT
    <3> QED BY <2>1, <3>1, <3>2
  <2>4. y = t * x => j = s + k /\ a = b
    <3> SUFFICES ASSUME TenTo[j] * b = TenTo[s + k] * a PROVE j = s + k /\ a = b
      BY <2>2, <2>3
    <3>1. j <= s + k \/ s + k <= j
      BY <2>3
    <3> DEFINE m == s + k
    <3>2. m \in Nat
      BY <2>3
    <3> HIDE DEF m
    <3>3. j <= m => j = m /\ a = b
      BY <2>2, <3>2, OneWayToTrim DEF m
    <3>4. m <= j => j = m /\ a = b
      BY <2>1, <3>2, OneWayToTrim DEF m
    <3> QED BY <3>1, <3>3, <3>4 DEF m
  <2>5. Shortest(l) = Shortest(r) <=> a = b /\ l.scale - k = r.scale - j
    BY <1>5, <2>1, <2>2
  <2>6. l.scale - k = r.scale - j <=> j = s + k
    BY <1>1
  <2> HIDE DEF x, y, s, t
  <2> QED BY <1>3, <2>2, <2>3, <2>4, <2>5, <2>6
<1> QED BY <1>6, <1>7, <1>8, <1>9

\* Numbers are equal if and only if their shortest forms are the same.
LEMMA EqualNumbers ==
  ASSUME NEW l, NEW r, Numeral(l), Numeral(r)
  PROVE  NumbersEqual(l, r) <=> Shortest(l) = Shortest(r)
<1>1. l.scale <= r.scale \/ r.scale <= l.scale
  BY DEF Numeral
<1>2. NumbersEqual(l, r) <=> NumbersEqual(r, l)
  BY DEF NumbersEqual
<1>3. l.scale <= r.scale => (NumbersEqual(l, r) <=> Shortest(l) = Shortest(r))
  BY OrderedNumbers
<1>4. r.scale <= l.scale => (NumbersEqual(r, l) <=> Shortest(r) = Shortest(l))
  BY OrderedNumbers
<1> QED BY <1>1, <1>2, <1>3, <1>4

-----------------------------------------------------------------------------
(* Equal values *)

\* The canonical form of each kind of value.
LEMMA CanonicalIs ==
  ASSUME NEW v \in JSON
  PROVE  /\ Canonical[v].kind = v.kind
         /\ v.kind = "number" => Canonical[v] = Shortest(v) /\ Numeral(v)
         /\ v.kind = "array" => Canonical[v] =
              JSONArray([i \in DOMAIN v.items |-> Canonical[v.items[i]]])
         /\ v.kind = "object" => Canonical[v] =
              JSONObject([key \in DOMAIN v.fields |-> Canonical[v.fields[key]]])
         /\ v.kind \notin {"number", "array", "object"} => Canonical[v] = v
<1>1. Canonical[v] = CanonicalIn(Canonical, v)
  <2>1. Canonical = [value \in JSON |-> CanonicalIn(Canonical, value)]
    BY Recursions
  <2> QED BY <2>1
<1>2. CASE v.kind = "number"
  <2>1. Canonical[v] = Shortest(v)
    BY <1>1, <1>2 DEF CanonicalIn
  <2>2. Shortest(v).kind = "number"
    BY DEF Shortest, JSONNumber
  <2>3. Numeral(v)
    BY <1>2, JSONAssumption DEF Decoded, Numeral, IsNumber
  <2> QED BY <1>2, <2>1, <2>2, <2>3
<1>3. CASE v.kind = "array"
  <2>1. Canonical[v] = JSONArray([i \in DOMAIN v.items |-> Canonical[v.items[i]]])
    BY <1>1, <1>3 DEF CanonicalIn
  <2>2. \A items : JSONArray(items).kind = "array"
    BY DEF JSONArray
  <2> QED BY <1>3, <2>1, <2>2
<1>4. CASE v.kind = "object"
  <2>1. Canonical[v] =
          JSONObject([key \in DOMAIN v.fields |-> Canonical[v.fields[key]]])
    BY <1>1, <1>4 DEF CanonicalIn
  <2>2. \A fields : JSONObject(fields).kind = "object"
    BY DEF JSONObject
  <2> QED BY <1>4, <2>1, <2>2
<1>5. CASE v.kind \notin {"number", "array", "object"}
  BY <1>1, <1>5 DEF CanonicalIn
<1> QED BY <1>2, <1>3, <1>4, <1>5

EqualMeans(l) ==
  \A r \in JSON : r \in EqualTo[l] <=> Canonical[l] = Canonical[r]

\* Values that are equal below a value are equal there.
LEMMA EqualStep ==
  ASSUME NEW l \in JSON, \A part \in Parts(l) : EqualMeans(part)
  PROVE  EqualMeans(l)
<1> SUFFICES ASSUME NEW r \in JSON
             PROVE  r \in EqualTo[l] <=> Canonical[l] = Canonical[r]
  BY DEF EqualMeans
<1>1. EqualTo[l] = EqualIn(EqualTo, l)
  <2>1. EqualTo = [left \in JSON |-> EqualIn(EqualTo, left)]
    BY Recursions
  <2> QED BY <2>1
<1>2. Canonical[l].kind = l.kind /\ Canonical[r].kind = r.kind
  BY CanonicalIs
<1>3. CASE l.kind = "number"
  <2>1. r \in EqualTo[l] <=> NumbersEqual(l, r)
    BY <1>1, <1>3 DEF EqualIn
  <2>2. CASE r.kind = "number"
    <3>1. NumbersEqual(l, r) <=> Shortest(l) = Shortest(r)
      BY <1>3, <2>2, CanonicalIs, EqualNumbers
    <3> QED BY <1>3, <2>1, <2>2, <3>1, CanonicalIs
  <2>3. CASE r.kind # "number"
    BY <1>2, <1>3, <2>1, <2>3 DEF NumbersEqual, IsNumber
  <2> QED BY <2>2, <2>3
<1>4. CASE l.kind = "object"
  <2>1. r \in EqualTo[l] <=>
          /\ r.kind = "object"
          /\ DOMAIN l.fields = DOMAIN r.fields
          /\ \A key \in DOMAIN l.fields : r.fields[key] \in EqualTo[l.fields[key]]
    BY <1>1, <1>4 DEF EqualIn, NumbersEqual, IsNumber
  <2>2. CASE r.kind = "object"
    <3> DEFINE f == [key \in DOMAIN l.fields |-> Canonical[l.fields[key]]]
               g == [key \in DOMAIN r.fields |-> Canonical[r.fields[key]]]
    <3>1. Canonical[l] = JSONObject(f) /\ Canonical[r] = JSONObject(g)
      BY <1>4, <2>2, CanonicalIs
    <3>2. JSONObject(f) = JSONObject(g) <=> f = g
      <4>1. \A h : JSONObject(h).fields = h
        BY DEF JSONObject
      <4> HIDE DEF f, g
      <4> QED BY <4>1
    <3>3. ASSUME NEW key \in DOMAIN l.fields, DOMAIN l.fields = DOMAIN r.fields
          PROVE  r.fields[key] \in EqualTo[l.fields[key]] <=> f[key] = g[key]
      <4>1. EqualMeans(l.fields[key]) /\ r.fields[key] \in JSON
        BY <1>4, <2>2, <3>3, JSONTree
      <4>2. f[key] = Canonical[l.fields[key]] /\ g[key] = Canonical[r.fields[key]]
        BY <3>3
      <4> QED BY <4>1, <4>2 DEF EqualMeans
    <3>4. f = g <=> /\ DOMAIN l.fields = DOMAIN r.fields
                    /\ \A key \in DOMAIN l.fields : f[key] = g[key]
      <4>1. DOMAIN f = DOMAIN l.fields /\ DOMAIN g = DOMAIN r.fields
        OBVIOUS
      <4>2. f = [key \in DOMAIN f |-> f[key]] /\ g = [key \in DOMAIN g |-> g[key]]
        OBVIOUS
      <4> HIDE DEF f, g
      <4>3. DOMAIN f = DOMAIN g /\ (\A key \in DOMAIN f : f[key] = g[key]) => f = g
        BY <4>2
      <4> QED BY <4>1, <4>3
    <3> HIDE DEF f, g
    <3> QED BY <2>1, <2>2, <3>1, <3>2, <3>3, <3>4
  <2>3. CASE r.kind # "object"
    BY <1>2, <1>4, <2>1, <2>3
  <2> QED BY <2>2, <2>3
<1>5. CASE l.kind = "array"
  <2>1. r \in EqualTo[l] <=>
          /\ r.kind = "array"
          /\ Len(l.items) = Len(r.items)
          /\ \A i \in DOMAIN l.items : r.items[i] \in EqualTo[l.items[i]]
    BY <1>1, <1>5 DEF EqualIn, NumbersEqual, IsNumber
  <2>2. CASE r.kind = "array"
    <3> DEFINE f == [i \in DOMAIN l.items |-> Canonical[l.items[i]]]
               g == [i \in DOMAIN r.items |-> Canonical[r.items[i]]]
    <3>1. Canonical[l] = JSONArray(f) /\ Canonical[r] = JSONArray(g)
      BY <1>5, <2>2, CanonicalIs
    <3>2. JSONArray(f) = JSONArray(g) <=> f = g
      <4>1. \A h : JSONArray(h).items = h
        BY DEF JSONArray
      <4> HIDE DEF f, g
      <4> QED BY <4>1
    <3>3. ASSUME NEW i \in DOMAIN l.items, DOMAIN l.items = DOMAIN r.items
          PROVE  r.items[i] \in EqualTo[l.items[i]] <=> f[i] = g[i]
      <4>1. EqualMeans(l.items[i]) /\ r.items[i] \in JSON
        BY <1>5, <2>2, <3>3, JSONTree
      <4>2. f[i] = Canonical[l.items[i]] /\ g[i] = Canonical[r.items[i]]
        BY <3>3
      <4> QED BY <4>1, <4>2 DEF EqualMeans
    <3>4. f = g <=> /\ DOMAIN l.items = DOMAIN r.items
                    /\ \A i \in DOMAIN l.items : f[i] = g[i]
      <4>1. DOMAIN f = DOMAIN l.items /\ DOMAIN g = DOMAIN r.items
        OBVIOUS
      <4>2. f = [i \in DOMAIN f |-> f[i]] /\ g = [i \in DOMAIN g |-> g[i]]
        OBVIOUS
      <4> HIDE DEF f, g
      <4>3. DOMAIN f = DOMAIN g /\ (\A i \in DOMAIN f : f[i] = g[i]) => f = g
        BY <4>2
      <4> QED BY <4>1, <4>3
    <3>5. Len(l.items) = Len(r.items) <=> DOMAIN l.items = DOMAIN r.items
      <4>1. l.items \in Seq(JSON) /\ r.items \in Seq(JSON)
        BY <1>5, <2>2, JSONTree
      <4>2. /\ Len(l.items) \in Nat /\ DOMAIN l.items = 1 .. Len(l.items)
            /\ Len(r.items) \in Nat /\ DOMAIN r.items = 1 .. Len(r.items)
        BY <4>1
      <4>3. \A m, n \in Nat : 1 .. m = 1 .. n => m = n
        <5> SUFFICES ASSUME NEW m \in Nat, NEW n \in Nat, 1 .. m = 1 .. n
                     PROVE  m = n
          OBVIOUS
        <5>1. m > 0 => m \in 1 .. n
          OBVIOUS
        <5>2. n > 0 => n \in 1 .. m
          OBVIOUS
        <5> QED BY <5>1, <5>2
      <4> QED BY <4>2, <4>3
    <3> HIDE DEF f, g
    <3> QED BY <2>1, <2>2, <3>1, <3>2, <3>3, <3>4, <3>5
  <2>3. CASE r.kind # "array"
    BY <1>2, <1>5, <2>1, <2>3
  <2> QED BY <2>2, <2>3
<1>6. CASE l.kind \notin {"number", "object", "array"}
  <2>1. r \in EqualTo[l] <=> l = r
    BY <1>1, <1>6 DEF EqualIn, NumbersEqual, IsNumber
  <2>2. Canonical[l] = l
    BY <1>6, CanonicalIs
  <2>3. CASE r.kind \in {"number", "object", "array"}
    BY <1>2, <1>6, <2>1, <2>3
  <2>4. CASE r.kind \notin {"number", "object", "array"}
    BY <2>1, <2>2, <2>4, CanonicalIs
  <2> QED BY <2>3, <2>4
<1> QED BY <1>3, <1>4, <1>5, <1>6

\* jsonValuesEqual is the equality of what values stand for.
LEMMA EqualValues == \A value \in JSON : EqualMeans(value)
<1> DEFINE T == {value \in JSON : EqualMeans(value)}
<1>1. "equal" \in Kinds /\ Nodes("equal") = JSON
      /\ \A value : Below("equal", value) = Parts(value)
  BY DEF Kinds, OfSchemas, OfValues, Nodes, Below
<1>2. \A value \in JSON : Parts(value) \subseteq T => value \in T
  BY EqualStep
<1>3. JSON \subseteq T
  <2> HIDE DEF T
  <2> QED BY <1>1, <1>2, TreeInduction
<1> QED BY <1>3

-----------------------------------------------------------------------------
(* Paths *)

\* A part of a path leads to one value or to none.
LEMMA ChildrenAre ==
  ASSUME NEW v \in JSON, NEW part
  PROVE  /\ Children(v, part) \subseteq Parts(v)
         /\ Children(v, part) = {} \/ \E child : Children(v, part) = {child}
<1>1. CASE v.kind = "object" /\ part \in DOMAIN v.fields
  <2>1. Children(v, part) = {v.fields[part]}
    BY <1>1 DEF Children
  <2> QED BY <1>1, <2>1, JSONTree
<1>2. CASE v.kind = "array" /\ part \in DOMAIN Atoi
  <2> DEFINE n == Atoi[part] + 1
  <2>1. Children(v, part) = {v.items[i] : i \in {n} \cap DOMAIN v.items}
    BY <1>2 DEF Children
  <2> HIDE DEF n
  <2>2. CASE n \in DOMAIN v.items
    <3>1. Children(v, part) = {v.items[n]}
      BY <2>1, <2>2
    <3> QED BY <1>2, <2>2, <3>1, JSONTree
  <2>3. CASE n \notin DOMAIN v.items
    <3>1. Children(v, part) = {}
      BY <2>1, <2>3
    <3> QED BY <3>1
  <2> QED BY <2>2, <2>3
<1>3. CASE /\ ~ (v.kind = "object" /\ part \in DOMAIN v.fields)
           /\ ~ (v.kind = "array" /\ part \in DOMAIN Atoi)
  BY <1>3 DEF Children
<1> QED BY <1>1, <1>2, <1>3

\* The empty path stays where it is.
LEMMA LookupNowhere ==
  ASSUME NEW v
  PROVE  LookupJSONPath(v, <<>>) = {v}
<1>1. Len(<<>>) = 0 /\ DOMAIN <<>> = 1 .. Len(<<>>)
  OBVIOUS
<1>2. PICK f : /\ Rounds("path", {v}, <<>>, f)
               /\ LookupJSONPath(v, <<>>) = f[Len(<<>>)]
  BY <1>1, PathRounds
<1> QED BY <1>1, <1>2 DEF Rounds

\* The rest of a path is looked up in what its first part leads to.
LEMMA LookupStep ==
  ASSUME NEW v \in JSON, NEW path \in Seq(STRING), path # <<>>
  PROVE  LookupJSONPath(v, path) =
           UNION {LookupJSONPath(child, Tail(path)) : child \in Children(v, path[1])}
<1> DEFINE n == Len(path)
           rest == Tail(path)
           found == Children(v, path[1])
<1>1. /\ n \in Nat \ {0} /\ DOMAIN path = 1 .. n
      /\ Len(rest) = n - 1 /\ DOMAIN rest = 1 .. n - 1
      /\ \A m \in 1 .. n - 1 : rest[m] = path[m + 1]
  BY EmptySeq
<1>2. PICK f : Rounds("path", {v}, path, f) /\ LookupJSONPath(v, path) = f[n]
  BY <1>1, PathRounds
<1> HIDE DEF n, rest
<1>3. \A m \in 1 .. n : f[m] = UNION {Children(x, path[m]) : x \in f[m - 1]}
  BY <1>2 DEF Rounds, Body, n
<1>4. f[1] = found
  <2>1. f[0] = {v} /\ 1 \in 1 .. n /\ 1 - 1 = 0
    BY <1>1, <1>2 DEF Rounds
  <2>2. f[1] = UNION {Children(x, path[1]) : x \in {v}}
    BY <1>3, <2>1
  <2> QED BY <2>2
<1>5. CASE found = {}
  <2> DEFINE T == {m \in Nat : m + 1 <= n => f[m + 1] = {}}
  <2>1. T \subseteq Nat /\ 0 \in T
    BY <1>4, <1>5
  <2>2. ASSUME NEW m \in T PROVE m + 1 \in T
    <3> SUFFICES ASSUME (m + 1) + 1 <= n PROVE f[(m + 1) + 1] = {}
      OBVIOUS
    <3>1. m + 1 <= n /\ (m + 1) + 1 \in 1 .. n /\ ((m + 1) + 1) - 1 = m + 1
      BY <1>1
    <3>2. f[m + 1] = {}
      BY <3>1
    <3> QED BY <1>3, <3>1, <3>2
  <2>3. n - 1 \in T
    <3>1. n - 1 \in Nat
      BY <1>1
    <3> HIDE DEF T
    <3> QED BY <2>1, <2>2, <3>1, AllNumbers
  <2>4. f[n] = {}
    <3>1. (n - 1) + 1 = n /\ n <= n
      BY <1>1
    <3> QED BY <2>3, <3>1
  <2> QED BY <1>2, <1>5, <2>4
<1>6. CASE \E child : found = {child}
  <2>1. PICK child : found = {child}
    BY <1>6
  <2>2. PICK g : Rounds("path", {child}, rest, g) /\ LookupJSONPath(child, rest) = g[n - 1]
    <3>1. Len(rest) \in Nat /\ DOMAIN rest = 1 .. Len(rest)
      BY <1>1
    <3> QED BY <1>1, <3>1, PathRounds
  <2>3. \A m \in 1 .. n - 1 : g[m] = UNION {Children(x, rest[m]) : x \in g[m - 1]}
    BY <1>1, <2>2 DEF Rounds, Body
  <2> DEFINE T == {m \in Nat : m + 1 <= n => f[m + 1] = g[m]}
  <2>4. T \subseteq Nat /\ 0 \in T
    <3>1. 0 + 1 = 1 /\ g[0] = {child}
      BY <2>2 DEF Rounds
    <3> QED BY <1>4, <2>1, <3>1
  <2>5. ASSUME NEW m \in T PROVE m + 1 \in T
    <3> SUFFICES ASSUME (m + 1) + 1 <= n PROVE f[(m + 1) + 1] = g[m + 1]
      OBVIOUS
    <3>1. /\ m + 1 <= n /\ (m + 1) + 1 \in 1 .. n /\ ((m + 1) + 1) - 1 = m + 1
          /\ m + 1 \in 1 .. n - 1 /\ (m + 1) - 1 = m
      BY <1>1
    <3>2. f[m + 1] = g[m]
      BY <3>1
    <3>3. f[(m + 1) + 1] = UNION {Children(x, path[(m + 1) + 1]) : x \in f[m + 1]}
      BY <1>3, <3>1
    <3>4. g[m + 1] = UNION {Children(x, path[(m + 1) + 1]) : x \in g[m]}
      BY <1>1, <2>3, <3>1
    <3> QED BY <3>2, <3>3, <3>4
  <2>6. n - 1 \in T
    <3>1. n - 1 \in Nat
      BY <1>1
    <3> HIDE DEF T
    <3> QED BY <2>4, <2>5, <3>1, AllNumbers
  <2>7. f[n] = g[n - 1]
    <3>1. (n - 1) + 1 = n /\ n <= n
      BY <1>1
    <3> QED BY <2>6, <3>1
  <2>8. UNION {LookupJSONPath(c, rest) : c \in {child}} = LookupJSONPath(child, rest)
    OBVIOUS
  <2> QED BY <1>2, <2>1, <2>2, <2>7, <2>8 DEF rest
<1> HIDE DEF found
<1> QED BY <1>5, <1>6, ChildrenAre DEF found

\* What can be addressed in a value can be addressed in what is below it.
Deeper(v, place) ==
  \E part \in STRING : \E child \in Children(v, part) :
    \E below \in Addressed[child] : place = <<<<part>> \o below[1], below[2]>>

\* It is the value itself, or deeper.
LEMMA AddressedAre ==
  ASSUME NEW v \in JSON, NEW place
  PROVE  place \in Addressed[v] <=>
           place = <<<<>>, Canonical[v]>> \/ Deeper(v, place)
<1> DEFINE under(part, child) ==
             {<<<<part>> \o below[1], below[2]>> : below \in Addressed[child]}
           keys == UNION {under(key, v.fields[key]) : key \in DOMAIN v.fields}
           indices == {p \in DOMAIN Atoi : Atoi[p] + 1 \in DOMAIN v.items}
           parts == UNION {under(part, v.items[Atoi[part] + 1]) : part \in indices}
           here == <<<<>>, Canonical[v]>>
           lower == \E part \in STRING : \E child \in Children(v, part) :
                      place \in under(part, child)
<1>1. Addressed[v] = {here} \cup (IF v.kind # "object" THEN {} ELSE keys)
                            \cup (IF v.kind # "array" THEN {} ELSE parts)
  <2>1. Addressed = [value \in JSON |-> AddressedIn(Addressed, value)]
    BY Recursions
  <2>2. Addressed[v] = AddressedIn(Addressed, v)
    BY <2>1
  <2>3. AddressedIn(Addressed, v) =
          {here} \cup (IF v.kind # "object" THEN {} ELSE keys)
                 \cup (IF v.kind # "array" THEN {} ELSE parts)
    BY Zenon DEF AddressedIn
  <2> QED BY <2>2, <2>3
<1>2. lower <=> Deeper(v, place)
  BY Zenon DEF Deeper
<1> HIDE DEF under
<1>3. CASE v.kind = "object"
  <2>1. DOMAIN v.fields \subseteq STRING
    BY <1>3, JSONAssumption DEF Decoded
  <2>2. \A part : Children(v, part) =
          IF part \in DOMAIN v.fields THEN {v.fields[part]} ELSE {}
    BY <1>3 DEF Children
  <2>3. place \in keys <=> \E key \in DOMAIN v.fields : place \in under(key, v.fields[key])
    BY Zenon
  <2>4. place \in keys <=> lower
    BY <2>1, <2>2, <2>3
  <2>5. place \in Addressed[v] <=> place = here \/ place \in keys
    <3> HIDE DEF here, keys, parts
    <3> QED BY <1>1, <1>3
  <2> HIDE DEF lower, keys
  <2> QED BY <1>2, <2>4, <2>5
<1>4. CASE v.kind = "array"
  <2>1. indices \subseteq STRING
    BY AtoiAssumption
  <2>2. \A part : Children(v, part) =
          IF part \in indices THEN {v.items[Atoi[part] + 1]} ELSE {}
    <3> TAKE part
    <3> DEFINE n == Atoi[part] + 1
    <3>1. part \notin DOMAIN Atoi => Children(v, part) = {}
      BY <1>4 DEF Children
    <3>2. part \in DOMAIN Atoi =>
            Children(v, part) = {v.items[i] : i \in {n} \cap DOMAIN v.items}
      BY <1>4 DEF Children
    <3>3. part \in indices <=> part \in DOMAIN Atoi /\ n \in DOMAIN v.items
      OBVIOUS
    <3> HIDE DEF n, indices
    <3>4. {v.items[i] : i \in {n} \cap DOMAIN v.items} =
            IF n \in DOMAIN v.items THEN {v.items[n]} ELSE {}
      OBVIOUS
    <3> QED BY <3>1, <3>2, <3>3, <3>4 DEF n
  <2>3. place \in parts <=>
          \E part \in indices : place \in under(part, v.items[Atoi[part] + 1])
    <3> HIDE DEF indices
    <3> QED BY Zenon
  <2> HIDE DEF indices
  <2>4. place \in parts <=> lower
    BY <2>1, <2>2, <2>3
  <2>5. place \in Addressed[v] <=> place = here \/ place \in parts
    <3> HIDE DEF here, keys, parts
    <3> QED BY <1>1, <1>4
  <2> HIDE DEF lower, parts
  <2> QED BY <1>2, <2>4, <2>5
<1>5. CASE v.kind \notin {"object", "array"}
  <2>1. \A part : Children(v, part) = {}
    BY <1>5 DEF Children
  <2>2. ~ lower
    BY <2>1
  <2>3. place \in Addressed[v] <=> place = here
    <3> HIDE DEF here, keys, parts
    <3> QED BY <1>1, <1>5
  <2> HIDE DEF lower
  <2> QED BY <1>2, <2>2, <2>3
<1> QED BY <1>3, <1>4, <1>5

\* A path of one part more.
LEMMA OnePartMore ==
  ASSUME NEW S, NEW p \in S, NEW s \in Seq(S)
  PROVE  /\ <<p>> \o s \in Seq(S)
         /\ Len(<<p>> \o s) = 1 + Len(s)
         /\ (<<p>> \o s)[1] = p
         /\ \A t \in Seq(S) : <<p>> \o s = <<p>> \o t => s = t
<1>1. <<p>> \in Seq(S) /\ Len(<<p>>) = 1 /\ <<p>>[1] = p /\ Len(s) \in Nat
  OBVIOUS
<1>2. /\ <<p>> \o s \in Seq(S)
      /\ Len(<<p>> \o s) = Len(<<p>>) + Len(s)
      /\ \A i \in 1 .. Len(<<p>>) + Len(s) : (<<p>> \o s)[i] =
           IF i <= Len(<<p>>) THEN <<p>>[i] ELSE s[i - Len(<<p>>)]
  BY <1>1, ConcatProperties
<1>3. (<<p>> \o s)[1] = p
  <2>1. 1 \in 1 .. Len(<<p>>) + Len(s) /\ 1 <= Len(<<p>>)
    BY <1>1
  <2> QED BY <1>1, <1>2, <2>1
<1>4. \A t \in Seq(S) : <<p>> \o s = <<p>> \o t => s = t
  BY <1>1, ConcatSimplifications
<1> QED BY <1>1, <1>2, <1>3, <1>4

\* What lookupJSONPath finds is what is addressed.
Reached(v) ==
  /\ \A place \in Addressed[v] :
       place[1] \in Seq(STRING) /\ place = <<place[1], place[2]>>
  /\ \A path \in Seq(STRING) :
       /\ LookupJSONPath(v, path) \subseteq JSON
       /\ \A c : <<path, c>> \in Addressed[v] <=>
            \E found \in LookupJSONPath(v, path) : c = Canonical[found]

\* Paths that reach what they address below a value do so from it.
LEMMA ReachedStep ==
  ASSUME NEW v \in JSON, \A part \in Parts(v) : Reached(part)
  PROVE  Reached(v)
<1>0. \A part : \A child \in Children(v, part) : child \in JSON /\ Reached(child)
  BY ChildrenAre, JSONTree
<1>1. ASSUME NEW place \in Addressed[v]
      PROVE  place[1] \in Seq(STRING) /\ place = <<place[1], place[2]>>
  <2>1. CASE place = <<<<>>, Canonical[v]>>
    BY <2>1
  <2>2. CASE Deeper(v, place)
    <3>1. PICK part \in STRING : \E child \in Children(v, part) :
                 \E below \in Addressed[child] :
                   place = <<<<part>> \o below[1], below[2]>>
      BY <2>2 DEF Deeper
    <3>2. PICK child \in Children(v, part) : \E below \in Addressed[child] :
                   place = <<<<part>> \o below[1], below[2]>>
      BY <3>1
    <3>3. PICK below \in Addressed[child] : place = <<<<part>> \o below[1], below[2]>>
      BY <3>2
    <3>4. below[1] \in Seq(STRING)
      BY <1>0, <3>3 DEF Reached
    <3>5. <<part>> \o below[1] \in Seq(STRING)
      BY <3>4, OnePartMore
    <3> DEFINE whole == <<part>> \o below[1]
    <3> HIDE DEF whole
    <3>6. place = <<whole, below[2]>> /\ whole \in Seq(STRING)
      BY <3>3, <3>5 DEF whole
    <3> QED BY <3>6
  <2> QED BY <2>1, <2>2, AddressedAre
<1>2. ASSUME NEW path \in Seq(STRING)
      PROVE  /\ LookupJSONPath(v, path) \subseteq JSON
             /\ \A c : <<path, c>> \in Addressed[v] <=>
                  \E found \in LookupJSONPath(v, path) : c = Canonical[found]
  <2>1. CASE path = <<>>
    <3>1. LookupJSONPath(v, path) = {v}
      BY <2>1, LookupNowhere
    <3>2. ASSUME NEW c PROVE <<path, c>> \in Addressed[v] <=> c = Canonical[v]
      <4>1. ~ Deeper(v, <<path, c>>)
        <5> SUFFICES ASSUME NEW part \in STRING, NEW child \in Children(v, part),
                            NEW below \in Addressed[child],
                            path = <<part>> \o below[1]
                     PROVE  FALSE
          BY DEF Deeper
        <5>1. below[1] \in Seq(STRING)
          BY <1>0 DEF Reached
        <5>2. Len(<<part>> \o below[1]) = 1 + Len(below[1]) /\ Len(below[1]) \in Nat
          BY <5>1, OnePartMore
        <5>3. Len(path) = 0
          BY <2>1
        <5> QED BY <5>2, <5>3
      <4>2. <<path, c>> = <<<<>>, Canonical[v]>> <=> c = Canonical[v]
        BY <2>1
      <4> QED BY <4>1, <4>2, AddressedAre
    <3> QED BY <3>1, <3>2
  <2>2. CASE path # <<>>
    <3> DEFINE first == path[1]
               rest == Tail(path)
    <3>1. first \in STRING /\ rest \in Seq(STRING) /\ path = <<first>> \o rest
      BY <2>2, HeadTailProperties
    <3>2. LookupJSONPath(v, path) =
            UNION {LookupJSONPath(child, rest) : child \in Children(v, first)}
      BY <2>2, LookupStep
    <3> HIDE DEF first, rest
    <3>3. LookupJSONPath(v, path) \subseteq JSON
      BY <1>0, <3>1, <3>2 DEF Reached
    <3>4. ASSUME NEW c
          PROVE  <<path, c>> \in Addressed[v] <=>
                   \E child \in Children(v, first) : <<rest, c>> \in Addressed[child]
      <4>1. <<path, c>> # <<<<>>, Canonical[v]>>
        BY <2>2
      <4>2. ASSUME NEW part \in STRING, NEW child \in Children(v, part),
                   NEW below \in Addressed[child],
                   <<path, c>> = <<<<part>> \o below[1], below[2]>>
            PROVE  part = first /\ below = <<rest, c>>
        <5>1. below[1] \in Seq(STRING) /\ below = <<below[1], below[2]>>
          BY <1>0 DEF Reached
        <5>2. <<part>> \o below[1] = <<first>> \o rest
          BY <3>1, <4>2
        <5>3. part = first /\ below[1] = rest
          <6>1. (<<part>> \o below[1])[1] = part /\ (<<first>> \o rest)[1] = first
            BY <3>1, <5>1, OnePartMore
          <6>2. part = first
            BY <5>2, <6>1
          <6>3. <<first>> \o rest = <<first>> \o below[1]
            BY <5>2, <6>2
          <6> QED BY <3>1, <5>1, <6>2, <6>3, OnePartMore
        <5> QED BY <4>2, <5>1, <5>3
      <4>3. ASSUME NEW child \in Children(v, first), <<rest, c>> \in Addressed[child]
            PROVE  Deeper(v, <<path, c>>)
        <5>1. <<path, c>> = <<<<first>> \o <<rest, c>>[1], <<rest, c>>[2]>>
          BY <3>1
        <5> QED BY <3>1, <4>3, <5>1 DEF Deeper
      <4>4. Deeper(v, <<path, c>>) <=>
              \E child \in Children(v, first) : <<rest, c>> \in Addressed[child]
        BY <4>2, <4>3 DEF Deeper
      <4> QED BY <4>1, <4>4, AddressedAre
    <3>5. ASSUME NEW c
          PROVE  <<path, c>> \in Addressed[v] <=>
                   \E found \in LookupJSONPath(v, path) : c = Canonical[found]
      <4>1. \A child \in Children(v, first) : <<rest, c>> \in Addressed[child] <=>
              \E found \in LookupJSONPath(child, rest) : c = Canonical[found]
        BY <1>0, <3>1 DEF Reached
      <4>2. (\E found \in LookupJSONPath(v, path) : c = Canonical[found]) <=>
              \E child \in Children(v, first) :
                \E found \in LookupJSONPath(child, rest) : c = Canonical[found]
        BY <3>2
      <4> QED BY <3>4, <4>1, <4>2
    <3> QED BY <3>3, <3>5
  <2> QED BY <2>1, <2>2
<1> QED BY <1>1, <1>2 DEF Reached

\* So all paths do.
LEMMA PathsReach == \A value \in JSON : Reached(value)
<1> DEFINE T == {value \in JSON : Reached(value)}
<1>1. "addressed" \in Kinds /\ Nodes("addressed") = JSON
      /\ \A value : Below("addressed", value) = Parts(value)
  BY DEF Kinds, OfSchemas, OfValues, Nodes, Below
<1>2. \A value \in JSON : Parts(value) \subseteq T => value \in T
  BY ReachedStep
<1>3. JSON \subseteq T
  <2> HIDE DEF T
  <2> QED BY <1>1, <1>2, TreeInduction
<1> QED BY <1>3

\* A path leads to an equal value if and only if it addresses that value.
LEMMA MatchesAddress ==
  ASSUME NEW v \in JSON, NEW path \in Seq(STRING), NEW expected \in JSON
  PROVE  (\E found \in LookupJSONPath(v, path) : expected \in EqualTo[found])
           <=> <<path, Canonical[expected]>> \in Addressed[v]
<1>1. /\ LookupJSONPath(v, path) \subseteq JSON
      /\ <<path, Canonical[expected]>> \in Addressed[v] <=>
           \E found \in LookupJSONPath(v, path) : Canonical[expected] = Canonical[found]
  BY PathsReach DEF Reached
<1>2. \A found \in LookupJSONPath(v, path) :
        expected \in EqualTo[found] <=> Canonical[expected] = Canonical[found]
  BY <1>1, EqualValues DEF EqualMeans
<1> QED BY <1>1, <1>2

\* Expected fields are matched by value and as a whole
\* (ExpectedFieldsMatched).
THEOREM ExpectedFieldsAreMatched == Spec => []ExpectedFieldsMatched
<1>1. Inv => ExpectedFieldsMatched
  <2> SUFFICES ASSUME Inv, metric = "expected_json", Judged
               PROVE  ExpectedFieldsMatched
    BY DEF ExpectedFieldsMatched
  <2> DEFINE fields == Config.expectedFields[1]
             there == IF subject.json = NotJSON THEN {} ELSE Addressed[subject.json]
             met == { i \in DOMAIN fields :
                        <<fields[i].path, Canonical[fields[i].expected]>> \in there }
  <2>0. metric \notin Metric
    BY MetricNames DEF Deterministic, JSONMetric
  <2>1. /\ metric \in Metric \cup Deterministic /\ options \in OptionLists(metric)
        /\ subject \in Subjects(metric) /\ ~Refuses /\ score = ScoreOf
    BY <2>0 DEF Inv, Given, Settled
  <2>2. GoodFields(fields)
    <3>1. options \in Seq(Option)
      BY <2>1, MetricsAssumption
    <3> QED BY <2>1, <3>1, ConfigSet DEF Config, Refuses
  <2>3. subject.json \in JSON \cup {NotJSON}
    <3>1. subject \in [json : JSON \cup {NotJSON}]
      BY <2>1, MetricsAssumption DEF JSONMetric
    <3> QED BY <3>1
  <2>4. score = IF subject.json = NotJSON THEN 0
                ELSE Round(Cardinality(Matched(fields)) * One, Len(fields))
    BY <2>0, <2>1 DEF ScoreOf
  <2>5. ExpectedFieldsMatched <=> score = Round(Cardinality(met) * One, Len(fields))
    BY DEF ExpectedFieldsMatched
  <2> HIDE DEF fields
  <2>6. Len(fields) \in Nat \ {0}
        /\ \A i \in DOMAIN fields : fields[i].path \in Seq(STRING)
                                    /\ fields[i].expected \in JSON
    <3>1. fields \in Seq([path : Seq(STRING), expected : JSON \cup {NotJSON}])
          /\ fields # <<>> /\ \A i \in DOMAIN fields : fields[i].expected # NotJSON
      BY <2>2 DEF GoodFields, BadFields
    <3>2. Len(fields) \in Nat /\ Len(fields) # 0
      BY <3>1, LenProperties, EmptySeq
    <3>3. \A i \in DOMAIN fields :
            fields[i] \in [path : Seq(STRING), expected : JSON \cup {NotJSON}]
      <4> DEFINE S == [path : Seq(STRING), expected : JSON \cup {NotJSON}]
      <4>1. fields \in Seq(S)
        BY <3>1
      <4> HIDE DEF S
      <4>2. \A i \in DOMAIN fields : fields[i] \in S
        BY <4>1
      <4> QED BY <4>2 DEF S
    <3> QED BY <3>1, <3>2, <3>3
  <2>7. CASE subject.json = NotJSON
    <3>1. met = {}
      BY <2>7
    <3>2. Cardinality(met) = 0
      BY <3>1, FS_EmptySet
    <3>3. Round(0 * One, Len(fields)) = 0
      <4>1. 0 \in Nat /\ 0 <= Len(fields)
        BY <2>6
      <4> QED BY <2>6, <4>1, RoundFraction
    <3> QED BY <2>4, <2>5, <2>7, <3>2, <3>3
  <2>8. CASE subject.json # NotJSON
    <3>1. subject.json \in JSON /\ there = Addressed[subject.json]
      BY <2>3, <2>8
    <3>2. Matched(fields) = met
      BY <2>6, <3>1, MatchesAddress DEF Matched
    <3> HIDE DEF met
    <3> QED BY <2>4, <2>5, <2>8, <3>2
  <2> QED BY <2>7, <2>8
<1> QED BY <1>1, EvaluationsSettle, PTL
=============================================================================
