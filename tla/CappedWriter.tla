---------------------------- MODULE CappedWriter ----------------------------
(***************************************************************************)
(* The bounded writer prompts are built with (internal/prompt/prompt.go):  *)
(* it takes strings until its limit is reached, then cuts what it has so   *)
(* that a marker fits, and ignores the rest.  A string is a sequence of    *)
(* bytes; a cut must not fall before a continuation byte of UTF-8.         *)
(***************************************************************************)
EXTENDS Integers, Sequences

CONSTANTS
  Byte,
  Continuation,  \* the bytes that continue a character
  Marker         \* what stands for the part that was cut off

ASSUME WriterAssumption ==
  /\ Continuation \subseteq Byte
  /\ Marker \in Seq(Byte \ Continuation)

\* Strings of whole characters start with one.
Text == {s \in Seq(Byte) : s # <<>> => s[1] \notin Continuation}

-----------------------------------------------------------------------------

\* Mutant of PrefixByBytes: a character may be cut apart.
PrefixAnywhere(s, limit) ==
  IF limit <= 0 THEN <<>> ELSE IF Len(s) <= limit THEN s ELSE SubSeq(s, 1, limit)

\* The last end not after limit that is no place inside a character.
LastEnd(s, limit) ==
  CHOOSE end \in 0 .. limit :
    /\ end = 0 \/ s[end + 1] \notin Continuation
    /\ \A later \in end + 1 .. limit : s[later + 1] \in Continuation

\* prefixByBytes and copyPrefixByBytes.
PrefixByBytes(s, limit) ==
  CASE limit <= 0                  -> <<>>
    [] limit > 0 /\ Len(s) <= limit -> s
    [] limit > 0 /\ Len(s) > limit  -> SubSeq(s, 1, LastEnd(s, limit))

Writer(limit) == [limit |-> limit, buf |-> <<>>, truncated |-> FALSE]

\* What is in a full writer: the marker, and before it what leaves it room.
Marked(limit, buf) ==
  CASE Len(Marker) > limit -> SubSeq(Marker, 1, limit)
    [] Len(Marker) <= limit /\ Len(buf) + Len(Marker) <= limit -> buf \o Marker
    [] Len(Marker) <= limit /\ Len(buf) + Len(Marker) > limit ->
         PrefixByBytes(buf, limit - Len(Marker)) \o Marker

\* markTruncated; writeString calls it on writers that are not truncated yet.
MarkTruncated(w) ==
  [w EXCEPT !.truncated = TRUE, !.buf = Marked(w.limit, @)]

\* writeString
WriteString(w, s) ==
  LET remaining == w.limit - Len(w.buf)
      kept      == PrefixByBytes(s, remaining - Len(Marker))
  IN  CASE s = <<>> \/ w.limit <= 0 \/ w.truncated -> w
        [] s # <<>> /\ w.limit > 0 /\ ~w.truncated /\ Len(s) <= remaining ->
             [w EXCEPT !.buf = @ \o s]
        [] s # <<>> /\ w.limit > 0 /\ ~w.truncated /\ Len(s) > remaining ->
             MarkTruncated([w EXCEPT !.buf = @ \o kept])

w ++ s == WriteString(w, s)

\* truncateText
TruncateText(s, limit) == (Writer(limit) ++ s).buf

-----------------------------------------------------------------------------
(* What the writer is for, without a buffer *)

\* The numbers of bytes a text can be cut down to between two characters.
Cuts(s) == {0, Len(s)} \cup {n \in 1 .. Len(s) - 1 : s[n + 1] \notin Continuation}

\* A text as a writer of the given limit shows it: whole, or as many of its
\* characters as fit before the marker.
Capped(s, limit) ==
  CASE Len(s) <= limit -> s
    [] Len(s) > limit /\ Len(Marker) > limit -> SubSeq(Marker, 1, limit)
    [] Len(s) > limit /\ Len(Marker) <= limit ->
         LET fit  == {n \in Cuts(s) : n + Len(Marker) <= limit}
             most == CHOOSE n \in fit : \A other \in fit : other <= n
         IN  SubSeq(s, 1, most) \o Marker
=============================================================================
