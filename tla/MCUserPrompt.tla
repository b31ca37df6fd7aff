---------------------------- MODULE MCUserPrompt ----------------------------
(* Prompts of one-byte and three-byte characters, with up to three documents,
   and every limit up to one that holds them all. *)
EXTENDS UserPrompt

Wide == <<"wide", "cont", "cont">>

MCByte == FixedByte \cup {"a", "b", "wide", "cont", "..", ".", "id"}

MCMarker == <<"..", ".">>

Doc(id, text) == [id |-> id, text |-> text]

MCDocs ==
  LET doc == {Doc(<<>>, <<>>), Doc(<<>>, <<"a">>), Doc(<<"id">>, Wide),
              Doc(<<>>, <<"a">> \o Wide \o Wide)}
  IN  SeqOf(doc, 2) \cup {<<a, Doc(<<>>, <<>>), b>> : a, b \in doc}

MCInputs ==
  [question : {<<"a">>, <<"b">> \o Wide}, answer : {<<>>, Wide},
   expected : {<<>>, <<"b">>}, instructions : {<<>>, Wide}, docs : MCDocs]

\* The longest prompt has 43 bytes.
MCLimits == 1 .. 44
=============================================================================
