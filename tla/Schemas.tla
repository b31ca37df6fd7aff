------------------------------ MODULE Schemas -------------------------------
(***************************************************************************)
(* The JSON schemas a judge is asked to answer by (internal/prompt), one   *)
(* per metric: an object and, where there is one, the object in its list.  *)
(* Every schema has additionalProperties false; a bounded number is one in *)
(* [0,1].  Numbers are decimals, counted as in Floats.                     *)
(*                                                                         *)
(* An answer has                                                           *)
(*   fields    the fields that are there and not null                      *)
(*   numbers   the value of its bounded numbers                            *)
(*   items     the elements of its list, each with fields, one flag and    *)
(*             one number                                                  *)
(*   trailing  something follows the object                                *)
(***************************************************************************)
EXTENDS Floats, SequencesExt

Object(required, optional, bounded) ==
  [required |-> required, optional |-> optional, bounded |-> bounded]

Schema(object, item) == [object |-> object, item |-> item]

NoItems == Object({}, {}, {})

FaithfulnessSchema ==
  Schema(Object({"claims", "reason"}, {}, {}),
         Object({"text", "supported"}, {"evidence"}, {}))

AnswerRelevancySchema ==
  Schema(Object({"score", "reason"}, {"issues"}, {"score"}), NoItems)

ContextRelevancySchema ==
  Schema(Object({"documents", "reason"}, {}, {}),
         Object({"id", "score", "reason"}, {}, {"score"}))

ContextPrecisionSchema ==
  Schema(Object({"documents", "reason"}, {}, {}),
         Object({"id", "useful", "reason"}, {}, {}))

ContextRecallSchema ==
  Schema(Object({"claims", "reason"}, {}, {}),
         Object({"text", "attributed"}, {"evidence"}, {}))

AnswerCorrectnessSchema ==
  Schema(Object({"statements", "score", "reason"}, {}, {"score"}),
         Object({"text", "correct", "reason"}, {}, {}))

HallucinationSchema ==
  Schema(Object({"claims", "reason"}, {}, {}),
         Object({"text", "hallucinated", "reason"}, {}, {}))

ToxicitySchema ==
  Schema(Object({"toxic", "categories", "score", "reason"}, {}, {"score"}),
         Object({"name", "detected", "severity"}, {}, {"severity"}))

BiasSchema ==
  Schema(Object({"biased", "instances", "score", "reason"}, {}, {"score"}),
         Object({"text", "bias_type", "reason"}, {}, {}))

ScoreIssuesSchema ==
  Schema(Object({"score", "issues", "reason"}, {}, {"score"}),
         Object({"text", "reason"}, {}, {}))

CompletenessSchema ==
  Schema(Object({"score", "missing", "reason"}, {}, {"score"}),
         Object({"aspect", "reason"}, {}, {}))

InstructionAdherenceSchema ==
  Schema(Object({"instructions", "reason"}, {}, {}),
         Object({"text", "followed", "reason"}, {}, {}))

CitationAccuracySchema ==
  Schema(Object({"citations", "reason"}, {}, {}),
         Object({"text", "doc_id", "accurate", "reason"}, {}, {}))

SummarizationQualitySchema ==
  LET scores == {"coverage_score", "fidelity_score", "conciseness_score"}
  IN  Schema(Object(scores \cup {"reason"}, {}, scores), NoItems)

\* The schema each metric's request carries.
SchemaOf ==
  [faithfulness          |-> FaithfulnessSchema,
   answer_relevancy      |-> AnswerRelevancySchema,
   context_relevancy     |-> ContextRelevancySchema,
   context_precision     |-> ContextPrecisionSchema,
   context_recall        |-> ContextRecallSchema,
   answer_correctness    |-> AnswerCorrectnessSchema,
   hallucination         |-> HallucinationSchema,
   toxicity              |-> ToxicitySchema,
   bias                  |-> BiasSchema,
   coherence             |-> ScoreIssuesSchema,
   conciseness           |-> ScoreIssuesSchema,
   completeness          |-> CompletenessSchema,
   instruction_adherence |-> InstructionAdherenceSchema,
   citation_accuracy     |-> CitationAccuracySchema,
   summarization_quality |-> SummarizationQualitySchema,
   g_eval                |-> AnswerRelevancySchema]

Metric == DOMAIN SchemaOf

-----------------------------------------------------------------------------
(* What a schema means *)

Fits(object, fields) ==
  /\ object.required \subseteq fields
  /\ fields \subseteq object.required \cup object.optional

\* The answer is one the schema describes.
Conforms(schema, answer) ==
  /\ Fits(schema.object, answer.fields)
  /\ \A f \in schema.object.bounded : InUnit(answer.numbers[f])
  /\ \A item \in Range(answer.items) :
       /\ Fits(schema.item, item.fields)
       /\ schema.item.bounded # {} => InUnit(item.number)
  /\ ~answer.trailing
=============================================================================
