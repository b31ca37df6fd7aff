------------------------------- MODULE Wires --------------------------------
(***************************************************************************)
(* What the five wires (internal/provider/wire/...) make of a provider's   *)
(* reply: each runs an ordered list of checks over the decoded reply, and  *)
(* the first that fails decides the kind of the error.                     *)
(*                                                                         *)
(* A reply has                                                             *)
(*   decodes  the body is the JSON object the wire expects                 *)
(*   answers  there is a choice (chat) or a candidate (gemini)             *)
(*   stop     why the model stopped: "end", "limit" (its token limit; on   *)
(*            responses any incomplete answer), "refusal" (anthropic),     *)
(*            "blocked" (gemini's SAFETY, BLOCKLIST, PROHIBITED_CONTENT),  *)
(*            or "other", which no wire reads (chat's content_filter,      *)
(*            gemini's RECITATION, ...)                                    *)
(*   parts    its pieces of text, in order, each "blank", "verdict" (the   *)
(*            JSON the metric asked for), "json" (other JSON), "half"      *)
(*            (half a verdict), "prose", or "refusal" (chat's refusal      *)
(*            field, a refusal item of responses); the output_text of     *)
(*            responses is read before its items and counts as the first  *)
(***************************************************************************)
EXTENDS Failure, SequencesExt

Wire == {"chat", "responses", "messages", "generatecontent", "ollama"}

ASSUME WireLabels == Wire \subseteq Labels

Text == {"blank", "verdict", "json", "half", "prose"}

CONSTANT MaxParts  \* bound on the pieces of text of one reply
ASSUME MaxPartsAssumption == MaxParts \in Nat \ {0}

\* Chat and ollama have one string of text.
PartsOf(wire) ==
  CASE wire = "chat"      -> SeqOf(Text, 1) \cup {<<t, "refusal">> : t \in Text}
    [] wire = "responses" -> SeqOf(Text \cup {"refusal"}, MaxParts)
    [] wire = "ollama"    -> SeqOf(Text, 1)
    [] OTHER              -> SeqOf(Text, MaxParts)

StopsOf(wire) ==
  {"end", "limit", "other"}
  \cup CASE wire = "messages"        -> {"refusal"}
         [] wire = "generatecontent" -> {"blocked"}
         [] OTHER                    -> {}

Replies(wire) ==
  [decodes : BOOLEAN, answers : BOOLEAN, stop : StopsOf(wire),
   parts : PartsOf(wire)]

-----------------------------------------------------------------------------
(* The text of a reply *)

\* The first piece the loop returns on: text that is not blank, or a refusal.
FirstSpoken(parts) ==
  LET i == SelectInSeq(parts, LAMBDA part : part # "blank")
  IN  IF i = 0 THEN "blank" ELSE parts[i]

\* Gemini's pieces are joined by a newline; two halves of a verdict make it
\* whole, anything else that is joined is no JSON value.
Joined(parts) ==
  LET spoken == SelectSeq(parts, LAMBDA part : part # "blank")
  IN  CASE Len(spoken) < 2            -> FirstSpoken(spoken)
        [] spoken = <<"half", "half">> -> "verdict"
        [] OTHER                       -> "prose"

\* A code fence around the text is taken off (StripCodeFence).
TextOf(wire, parts) ==
  CASE wire = "generatecontent" -> Joined(parts)
    [] wire = "chat" -> FirstSpoken(SelectSeq(parts, LAMBDA p : p # "refusal"))
    [] OTHER         -> FirstSpoken(parts)

-----------------------------------------------------------------------------
(* The checks *)

Check(fails, kind) == [fails |-> fails, kind |-> kind]

Decoded(reply) == <<Check(~reply.decodes, "provider_response")>>

\* Common to all wires: some text, and valid JSON.
Content(text) ==
  <<Check(text = "blank", "provider_response"),
    Check(text \in {"half", "prose"}, "provider_response")>>

\* Mutant of ChatChecks: the finish reason is not looked at.
ChatChecksUnfinished(reply) ==
  Decoded(reply)
  \o <<Check(~reply.answers, "provider_response"),
       Check("refusal" \in Range(reply.parts), "provider_refusal")>>
  \o Content(TextOf("chat", reply.parts))

ChatChecks(reply) ==
  Decoded(reply)
  \o <<Check(~reply.answers, "provider_response"),
       Check(reply.stop = "limit", "provider_truncated"),
       Check("refusal" \in Range(reply.parts), "provider_refusal")>>
  \o Content(TextOf("chat", reply.parts))

\* A refusal counts if the loop meets it before any text.
ResponsesChecks(reply) ==
  LET text == TextOf("responses", reply.parts)
  IN  Decoded(reply)
      \o <<Check(reply.stop = "limit", "provider_truncated"),
           Check(text = "refusal", "provider_refusal")>>
      \o Content(text)

MessagesChecks(reply) ==
  Decoded(reply)
  \o <<Check(reply.stop = "refusal", "provider_refusal"),
       Check(reply.stop = "limit", "provider_truncated")>>
  \o Content(TextOf("messages", reply.parts))

\* The finish reason is read only if the candidate has parts.
GenerateContentChecks(reply) ==
  Decoded(reply)
  \o <<Check(~reply.answers \/ reply.parts = <<>>, "provider_response"),
       Check(reply.stop = "limit", "provider_truncated"),
       Check(reply.stop = "blocked", "provider_refusal")>>
  \o Content(TextOf("generatecontent", reply.parts))

\* Native chat: why the model stopped is not read.
OllamaChecks(reply) ==
  Decoded(reply) \o Content(TextOf("ollama", reply.parts))

Checks(wire, reply) ==
  CASE wire = "chat"            -> ChatChecks(reply)
    [] wire = "responses"       -> ResponsesChecks(reply)
    [] wire = "messages"        -> MessagesChecks(reply)
    [] wire = "generatecontent" -> GenerateContentChecks(reply)
    [] wire = "ollama"          -> OllamaChecks(reply)

\* The kind of the first check that fails, "" if the text is passed on.
Fault(wire, reply) ==
  LET checks == Checks(wire, reply)
      i      == SelectInSeq(checks, LAMBDA check : check.fails)
  IN  IF i = 0 THEN "" ELSE checks[i].kind
=============================================================================
