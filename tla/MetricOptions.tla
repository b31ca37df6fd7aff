--------------------------- MODULE MetricOptions ----------------------------
(***************************************************************************)
(* The options a metric is built with (metric/metric.go): each sets a      *)
(* field of the configuration or is refused, and a metric whose options    *)
(* were refused, contradict each other or lack one it needs answers every  *)
(* evaluation with the error.                                              *)
(*                                                                         *)
(* An option is the field it sets with the value, [threshold |-> t], or    *)
(* [nil |-> TRUE].  Thresholds are decimals, a schema may be NotJSON;      *)
(* expected fields are a sequence of [path, expected] with trimmed paths,  *)
(* a blank one being empty.                                                *)
(***************************************************************************)
EXTENDS Schemas, JSONValues

\* config with its default threshold; a field that is not set is empty.
DefaultConfig ==
  [threshold |-> <<7 * (Unit \div 10)>>, schema |-> <<>>, expectedFields |-> <<>>,
   maxLatency |-> <<>>, minLength |-> <<>>, maxLength |-> <<>>, err |-> FALSE]

\* WithExpectedFields: paths must be there and distinct, values JSON.
BadFields(fields) ==
  \/ fields = <<>>
  \/ \E i \in DOMAIN fields :
       \/ fields[i].path = <<>>
       \/ fields[i].expected = NotJSON
       \/ \E j \in DOMAIN fields \ {i} : fields[j].path = fields[i].path

\* The checks of the With... functions.
Refused(option) ==
  \/ "threshold" \in DOMAIN option /\ ~InUnit(option.threshold)
  \/ "schema" \in DOMAIN option /\ option.schema = NotJSON
  \/ "expectedFields" \in DOMAIN option /\ BadFields(option.expectedFields)
  \/ \E f \in {"maxLatency", "minLength", "maxLength"} \cap DOMAIN option :
       option[f] < 0

\* Mutant of ApplyOption: a good option clears the error of an earlier one.
ApplyOptionForgiving(cfg, option) ==
  CASE "nil" \in DOMAIN option -> cfg
    [] "nil" \notin DOMAIN option /\ Refused(option) -> [cfg EXCEPT !.err = TRUE]
    [] "nil" \notin DOMAIN option /\ ~Refused(option) ->
         [f \in DOMAIN cfg |-> CASE f \in DOMAIN option -> <<option[f]>>
                                 [] f = "err" -> FALSE
                                 [] OTHER -> cfg[f]]

ApplyOption(cfg, option) ==
  CASE "nil" \in DOMAIN option -> cfg
    [] "nil" \notin DOMAIN option /\ Refused(option) -> [cfg EXCEPT !.err = TRUE]
    [] "nil" \notin DOMAIN option /\ ~Refused(option) ->
         [f \in DOMAIN cfg |->
            IF f \in DOMAIN option THEN <<option[f]>> ELSE cfg[f]]

\* applyOptions; bounds are compared when all of them are known.
ApplyOptions(options) ==
  LET cfg     == FoldLeft(ApplyOption, DefaultConfig, options)
      crossed == /\ cfg.minLength # <<>>
                 /\ cfg.maxLength # <<>>
                 /\ cfg.minLength[1] > cfg.maxLength[1]
  IN  [cfg EXCEPT !.err = @ \/ crossed]

\* The constructors' own checks of what a metric cannot do without.
Lacks(metric, cfg) ==
  \/ metric = "schema_compliance" /\ cfg.schema = <<>>
  \/ metric = "expected_json" /\ cfg.expectedFields = <<>>
  \/ metric = "latency" /\ cfg.maxLatency = <<>>
  \/ metric = "answer_length" /\ cfg.minLength = <<>> /\ cfg.maxLength = <<>>

\* Whether the constructor returns an invalidMetric; argument is the pattern
\* or the criteria of the metrics that have one.
Invalid(metric, argument, options) ==
  \/ ApplyOptions(options).err
  \/ Lacks(metric, ApplyOptions(options))
  \/ metric \in {"g_eval", "expected_regex"} /\ argument = "blank"
  \/ metric = "expected_regex" /\ argument = "broken"
=============================================================================
