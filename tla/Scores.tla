------------------------------- MODULE Scores -------------------------------
(***************************************************************************)
(* What becomes of a judge's answer: each metric parses it strictly and    *)
(* makes a score of it (internal/metrics/.../parser.go).                   *)
(***************************************************************************)
EXTENDS Schemas, FiniteSets

CONSTANTS
  Numbers,    \* what a judge writes for a number
  MaxItems,   \* bound on the elements of an answer's list
  MaxNumbers  \* the same for a list with numbers

\* A list is not so long that its length is no float.
ASSUME ScoresAssumption ==
  /\ Numbers \subseteq Int
  /\ MaxItems \in Nat
  /\ MaxNumbers \in 0 .. Resolution

-----------------------------------------------------------------------------
(* Parsing *)

\* The fields a parser's struct has, those it insists on, and those it wants
\* in [0,1]; the same of the elements of its list; and what makes the score.
Parser(object, item, rule) ==
  [object |-> object, item |-> item, rule |-> rule]

\* Mutant of Faithfulness: the struct of a claim has no evidence.
FaithfulnessWithoutEvidence ==
  Parser(Object({"claims", "reason"}, {}, {}),
         Object({"text", "supported"}, {}, {}), "ratio")

Faithfulness ==
  Parser(Object({"claims", "reason"}, {}, {}),
         Object({"text", "supported"}, {"evidence"}, {}), "ratio")

ContextRecall ==
  Parser(Object({"claims", "reason"}, {}, {}),
         Object({"text", "attributed"}, {"evidence"}, {}), "ratio")

ContextPrecision ==
  Parser(Object({"documents", "reason"}, {}, {}),
         Object({"id", "useful", "reason"}, {}, {}), "ratio")

CitationAccuracy ==
  Parser(Object({"citations", "reason"}, {}, {}),
         Object({"text", "doc_id", "accurate", "reason"}, {}, {}), "ratio")

InstructionAdherence ==
  Parser(Object({"instructions", "reason"}, {}, {}),
         Object({"text", "followed", "reason"}, {}, {}), "ratio")

Hallucination ==
  Parser(Object({"claims", "reason"}, {}, {}),
         Object({"text", "hallucinated", "reason"}, {}, {}), "inverse")

ContextRelevancy ==
  Parser(Object({"documents", "reason"}, {}, {}),
         Object({"id", "score", "reason"}, {}, {"score"}), "mean")

SummarizationQuality ==
  LET scores == {"coverage_score", "fidelity_score", "conciseness_score"}
  IN  Parser(Object(scores \cup {"reason"}, {}, scores), NoItems, "three")

\* Used by the g-eval metric, too.
AnswerRelevancy ==
  Parser(Object({"score", "reason"}, {"issues"}, {"score"}), NoItems, "given")

AnswerCorrectness ==
  Parser(Object({"statements", "score", "reason"}, {}, {"score"}),
         Object({"text", "correct", "reason"}, {}, {}), "given")

Bias ==
  Parser(Object({"biased", "instances", "score", "reason"}, {}, {"score"}),
         Object({"text", "bias_type", "reason"}, {}, {}), "given")

Toxicity ==
  Parser(Object({"toxic", "categories", "score", "reason"}, {}, {"score"}),
         Object({"name", "detected", "severity"}, {}, {"severity"}), "given")

Coherence ==
  Parser(Object({"score", "issues", "reason"}, {}, {"score"}),
         Object({"text", "reason"}, {}, {}), "given")

Conciseness ==
  Parser(Object({"score", "issues", "reason"}, {}, {"score"}),
         Object({"text", "reason"}, {}, {}), "given")

Completeness ==
  Parser(Object({"score", "missing", "reason"}, {}, {"score"}),
         Object({"aspect", "reason"}, {}, {}), "given")

\* The parser and the scoring each metric is built with.
ParserOf ==
  [faithfulness          |-> Faithfulness,
   answer_relevancy      |-> AnswerRelevancy,
   context_relevancy     |-> ContextRelevancy,
   context_precision     |-> ContextPrecision,
   context_recall        |-> ContextRecall,
   answer_correctness    |-> AnswerCorrectness,
   hallucination         |-> Hallucination,
   toxicity              |-> Toxicity,
   bias                  |-> Bias,
   coherence             |-> Coherence,
   conciseness           |-> Conciseness,
   completeness          |-> Completeness,
   instruction_adherence |-> InstructionAdherence,
   citation_accuracy     |-> CitationAccuracy,
   summarization_quality |-> SummarizationQuality,
   g_eval                |-> AnswerRelevancy]

\* No unknown field, and nothing after the object.
DecodeStrict(parser, ans) ==
  /\ ans.fields \subseteq parser.object.required \cup parser.object.optional
  /\ \A item \in Range(ans.items) :
       item.fields \subseteq parser.item.required \cup parser.item.optional
  /\ ~ans.trailing

\* Some required field is missing, or null.
MissingRequiredField(parser, ans) ==
  \/ ~(parser.object.required \subseteq ans.fields)
  \/ \E item \in Range(ans.items) :
       ~(parser.item.required \subseteq item.fields)

\* Some number that is checked is outside [0,1].
Range01Fails(parser, ans) ==
  \/ \E f \in parser.object.bounded : ~InUnit(ans.numbers[f])
  \/ /\ parser.item.bounded # {}
     /\ \E item \in Range(ans.items) : ~InUnit(item.number)

Parses(parser, ans) ==
  /\ DecodeStrict(parser, ans)
  /\ ~MissingRequiredField(parser, ans)
  /\ ~Range01Fails(parser, ans)

-----------------------------------------------------------------------------
(* Scoring *)

Flagged(items) == Cardinality({i \in DOMAIN items : items[i].flag})

Ratio(items) ==
  IF items = <<>> THEN 0 ELSE Round(Flagged(items) * One, Len(items))

\* Mutant of InverseRatio: the ratio is not taken from one.
InverseRatioForgotten(items) == IF items = <<>> THEN One ELSE Ratio(items)

InverseRatio(items) == IF items = <<>> THEN One ELSE Round(One - Ratio(items), 1)

Sum(floats) == FoldLeft(LAMBDA a, b : Round(a + b, 1), 0, floats)

Mean(items) ==
  IF items = <<>> THEN 0
  ELSE Round(Sum([i \in DOMAIN items |-> Float(items[i].number)]), Len(items))

MeanOfThree(numbers) ==
  Round(Sum(<<Float(numbers["coverage_score"]),
              Float(numbers["fidelity_score"]),
              Float(numbers["conciseness_score"])>>), 3)

Score(parser, ans) ==
  CASE parser.rule = "ratio"   -> Ratio(ans.items)
    [] parser.rule = "inverse" -> InverseRatio(ans.items)
    [] parser.rule = "mean"    -> Mean(ans.items)
    [] parser.rule = "three"   -> MeanOfThree(ans.numbers)
    [] parser.rule = "given"   -> Float(ans.numbers["score"])

-----------------------------------------------------------------------------
(* Answers *)

(* An answer is what the schema asks for, with at most one thing wrong with
   its fields and any numbers; a wrong element comes in a list of up to two. *)

FieldSets(object) ==
  LET whole == {object.required \cup more : more \in SUBSET object.optional}
  IN  whole \cup {object.required \ {f} : f \in object.required}
            \cup {object.required \cup {"foreign"}}

\* Flags are told apart for the metrics that count them, numbers for those
\* that read them.
Items(m, fieldSets) ==
  [fields : fieldSets,
   flag   : IF ParserOf[m].rule \in {"ratio", "inverse"} THEN BOOLEAN
            ELSE {FALSE},
   number : IF SchemaOf[m].item.bounded # {} THEN Numbers ELSE {0}]

ItemLists(m) ==
  IF SchemaOf[m].item = NoItems THEN {<<>>}
  ELSE SeqOf(Items(m, {SchemaOf[m].item.required}),
             IF SchemaOf[m].item.bounded # {} THEN MaxNumbers ELSE MaxItems)
       \cup SeqOf(Items(m, FieldSets(SchemaOf[m].item)), 1)
       \cup {<<a, b>> : a \in Items(m, {SchemaOf[m].item.required}),
                        b \in Items(m, FieldSets(SchemaOf[m].item))}

Answers(m) ==
  [fields   : FieldSets(SchemaOf[m].object),
   numbers  : [SchemaOf[m].object.bounded -> Numbers],
   items    : ItemLists(m),
   trailing : BOOLEAN]
=============================================================================
