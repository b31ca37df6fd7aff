----------------------------- MODULE UserPrompt -----------------------------
(***************************************************************************)
(* The prompt a judge gets (BuildUserPromptWithExpectedAndInstructions in  *)
(* internal/prompt/prompt.go): the input, the answer, what was expected if *)
(* the case says so, and the context documents, each between marker lines, *)
(* written piece by piece into one bounded writer.  A document is cut on   *)
(* its own first.                                                          *)
(*                                                                         *)
(* Texts are trimmed already; an empty one is a blank one.  The fixed      *)
(* lines are shortened to a byte or two.                                   *)
(***************************************************************************)
EXTENDS CappedWriter, SequencesExt

CONSTANTS
  Inputs,       \* what prompts are built from
  DocLimit,     \* maxDocBytes
  PromptLimits  \* maxPromptBytes

\* What the fixed lines are made of.
FixedByte ==
  {"lead", "begin", "end", "[", "]", "nl", "(none)", "question", "answer",
   "expected", "instructions", "docs", "doc-", "1", "2", "3", "4", "5", "6",
   "7", "8", "9"}

\* Labels by place have one digit.
MaxDocs == 9

ASSUME PromptAssumption ==
  /\ FixedByte \subseteq Byte \ Continuation
  /\ Inputs \subseteq [question : Text, answer : Text,
                       expected : Text, instructions : Text,
                       docs : Seq([id : Text, text : Text])]
  /\ \A given \in Inputs : Len(given.docs) <= MaxDocs
  /\ DocLimit \in Nat \ {0}
  /\ PromptLimits \subseteq Nat \ {0}

VARIABLES
  input,    \* [question, answer, expected, instructions, docs]
  pc,       \* "question", "answer", "expected", "instructions", "docs", "done"
  at,       \* the document the loop is at
  written,  \* how many documents were written
  w,        \* the writer
  content   \* history: what was written, capped or not

vars == <<input, pc, at, written, w, content>>

Init ==
  /\ input \in Inputs
  /\ pc = "question"
  /\ at = 1
  /\ written = 0
  /\ w \in {Writer(limit) : limit \in PromptLimits}
  /\ content = <<>>

-----------------------------------------------------------------------------
(* The fixed lines *)

LeadLine       == <<"lead">>
BeginLine      == <<"begin">>
Heading(name)  == <<name>>
DataBegin(name) == BeginLine \o Heading(name)
DataEnd        == <<"end">>
DocBegin       == <<"[">>
DocMiddle      == <<"]">>
DocEnd         == <<"nl">>
NoDocs         == <<"(none)">>

\* "doc-1", "doc-2", ...
DefaultId(i) == <<"doc-", <<"1", "2", "3", "4", "5", "6", "7", "8", "9">>[i]>>

-----------------------------------------------------------------------------
(* Writing *)

\* The marker line and the heading of a section.
Opens(writer, name) == writer ++ BeginLine ++ Heading(name)

WriteQuestion ==
  /\ pc = "question"
  /\ pc' = "answer"
  /\ w' = Opens(w ++ LeadLine, "question") ++ input.question ++ DataEnd
  /\ content' = content \o LeadLine \o DataBegin("question")
                        \o input.question \o DataEnd
  /\ UNCHANGED <<input, at, written>>

WriteAnswer ==
  /\ pc = "answer"
  /\ pc' = "expected"
  /\ w' = Opens(w, "answer") ++ input.answer ++ DataEnd
  /\ content' = content \o DataBegin("answer") \o input.answer \o DataEnd
  /\ UNCHANGED <<input, at, written>>

WriteExpected ==
  /\ pc = "expected"
  /\ pc' = "instructions"
  /\ IF input.expected = <<>> THEN UNCHANGED <<w, content>>
     ELSE /\ w' = Opens(w, "expected") ++ input.expected ++ DataEnd
          /\ content' = content \o DataBegin("expected")
                                \o input.expected \o DataEnd
  /\ UNCHANGED <<input, at, written>>

\* The instructions, if any, and the head of the documents.
WriteInstructions ==
  /\ pc = "instructions"
  /\ pc' = "docs"
  /\ IF input.instructions = <<>>
     THEN /\ w' = Opens(w, "docs")
          /\ content' = content \o DataBegin("docs")
     ELSE /\ w' = Opens(Opens(w, "instructions") ++ input.instructions
                          ++ DataEnd, "docs")
          /\ content' = content \o DataBegin("instructions")
                                \o input.instructions
                                \o DataEnd \o DataBegin("docs")
  /\ UNCHANGED <<input, at, written>>

SkipDoc ==
  /\ pc = "docs"
  /\ ~w.truncated
  /\ at <= Len(input.docs)
  /\ input.docs[at].text = <<>>
  /\ at' = at + 1
  /\ UNCHANGED <<input, pc, written, w, content>>

\* The label of document i: its own id, or its place in the list.
Label(docs, i) == IF docs[i].id = <<>> THEN DefaultId(i) ELSE docs[i].id

\* Mutant of WriteDoc: a document without an id is numbered by what was
\* written before it.
WriteDocByCount ==
  /\ pc = "docs"
  /\ ~w.truncated
  /\ at <= Len(input.docs)
  /\ input.docs[at].text # <<>>
  /\ LET text  == TruncateText(input.docs[at].text, DocLimit)
         label == IF input.docs[at].id = <<>> THEN DefaultId(written + 1)
                  ELSE input.docs[at].id
     IN  /\ w' = w ++ DocBegin ++ label ++ DocMiddle ++ text ++ DocEnd
         /\ content' = content \o DocBegin \o label \o DocMiddle
                               \o text \o DocEnd
  /\ at' = at + 1
  /\ written' = written + 1
  /\ UNCHANGED <<input, pc>>

WriteDoc ==
  /\ pc = "docs"
  /\ ~w.truncated
  /\ at <= Len(input.docs)
  /\ input.docs[at].text # <<>>
  /\ LET text  == TruncateText(input.docs[at].text, DocLimit)
         label == Label(input.docs, at)
     IN  /\ w' = w ++ DocBegin ++ label ++ DocMiddle ++ text ++ DocEnd
         /\ content' = content \o DocBegin \o label \o DocMiddle
                               \o text \o DocEnd
  /\ at' = at + 1
  /\ written' = written + 1
  /\ UNCHANGED <<input, pc>>

\* The list is through, or broken off because the writer is full.
CloseDocs ==
  /\ pc = "docs"
  /\ w.truncated \/ at > Len(input.docs)
  /\ pc' = "done"
  /\ IF written = 0
     THEN /\ w' = w ++ NoDocs ++ DataEnd
          /\ content' = content \o NoDocs \o DataEnd
     ELSE /\ w' = w ++ DataEnd
          /\ content' = content \o DataEnd
  /\ UNCHANGED <<input, at, written>>

Next ==
  \/ WriteQuestion \/ WriteAnswer \/ WriteExpected \/ WriteInstructions
  \/ SkipDoc \/ WriteDoc \/ CloseDocs

Spec == Init /\ [][Next]_vars

-----------------------------------------------------------------------------
(* Properties *)

(***************************************************************************)
(* Writing in pieces makes no difference: at every moment the buffer is    *)
(* what was written so far as a writer of that size shows it: all of it,   *)
(* or as many whole characters as fit before one marker.  Wherever the     *)
(* limit falls, in a piece, between two, or where a marker no longer fits  *)
(* behind what is there already.                                           *)
(***************************************************************************)
PromptIsCapped ==
  /\ w.buf = Capped(content, w.limit)
  /\ w.truncated <=> Len(content) > w.limit

\* A section that is left out when there is nothing in it.
Section(name, text) ==
  IF text = <<>> THEN <<>> ELSE DataBegin(name) \o text \o DataEnd

DocLine(docs, i) ==
  IF docs[i].text = <<>> THEN <<>>
  ELSE DocBegin \o Label(docs, i) \o DocMiddle
                \o Capped(docs[i].text, DocLimit) \o DocEnd

\* The prompt without a cap.
WholePrompt ==
  LET docs  == input.docs
      lines == FlattenSeq([i \in DOMAIN docs |-> DocLine(docs, i)])
  IN  LeadLine
      \o DataBegin("question") \o input.question \o DataEnd
      \o DataBegin("answer") \o input.answer \o DataEnd
      \o Section("expected", input.expected)
      \o Section("instructions", input.instructions)
      \o DataBegin("docs")
      \o (IF lines = <<>> THEN NoDocs ELSE lines)
      \o DataEnd

(***************************************************************************)
(* The finished prompt is the front of the whole one: nothing is missing   *)
(* from it but what the cap cut off, a long document takes nothing from    *)
(* the others, and one without an id is called by its place in the list.   *)
(***************************************************************************)
PromptIsWhole == pc = "done" => w.buf = Capped(WholePrompt, w.limit)
=============================================================================
