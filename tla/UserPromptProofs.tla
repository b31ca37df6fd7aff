-------------------------- MODULE UserPromptProofs --------------------------
(***************************************************************************)
(* Prompts are whole and cut as Capped says, for every set of bytes, every *)
(* marker, every text and every limit.                                     *)
(***************************************************************************)
EXTENDS UserPrompt, TLAPS, WellFoundedInduction, SequenceTheorems

-----------------------------------------------------------------------------
(* Cuts *)

\* A set of naturals that is not empty and bounded has a greatest element.
LEMMA GreatestExists ==
  ASSUME NEW k \in Nat, NEW T \in SUBSET (0 .. k), T # {}
  PROVE  \E most \in T : \A n \in T : n <= most
<1> DEFINE less == {pair \in Nat \X Nat : pair[1] < pair[2]}
           gaps == {k - n : n \in T}
<1>1. gaps \subseteq Nat /\ gaps # {}
  <2>1. PICK n \in T : TRUE
    OBVIOUS
  <2>2. k - n \in gaps
    BY <2>1
  <2>3. \A m \in T : k - m \in Nat
    OBVIOUS
  <2>4. QED
    BY <2>2, <2>3
<1>2. IsWellFoundedOn(less, Nat)
  BY NatLessThanWellFounded DEF OpToRel
<1>3. PICK x \in gaps : \A y \in gaps : ~ (<<y, x>> \in less)
  <2> HIDE DEF less, gaps
  <2>1. QED
    BY <1>1, <1>2, WFMin
<1>4. \A y \in gaps : x <= y
  <2> TAKE y \in gaps
  <2>1. x \in Nat /\ y \in Nat
    BY <1>1
  <2>2. y < x => <<y, x>> \in less
    BY <2>1
  <2>3. QED
    BY <1>3, <2>1, <2>2
<1>5. PICK most \in T : x = k - most
  OBVIOUS
<1>6. \A n \in T : n <= most
  <2> TAKE n \in T
  <2>1. x <= k - n
    BY <1>4
  <2>2. QED
    BY <1>5, <2>1
<1>7. QED
  BY <1>6

LEMMA MarkerShape ==
  /\ Marker \in Seq(Byte)
  /\ Len(Marker) \in Nat
  /\ \A i \in 1 .. Len(Marker) : Marker[i] \in Byte \ Continuation
<1>1. Marker \in Seq(Byte \ Continuation)
  BY WriterAssumption
<1>2. QED
  BY <1>1

\* Where prefixByBytes ends when it cuts.
LEMMA PrefixEnd ==
  ASSUME NEW s \in Seq(Byte), NEW k \in Nat, k < Len(s)
  PROVE  \E end \in 0 .. k :
           /\ end = 0 \/ s[end + 1] \notin Continuation
           /\ \A n \in 0 .. k : n = 0 \/ s[n + 1] \notin Continuation => n <= end
           /\ PrefixByBytes(s, k) = SubSeq(s, 1, end)
<1>1. CASE k = 0
  <2>1. SubSeq(s, 1, 0) = <<>> /\ PrefixByBytes(s, k) = <<>>
    BY <1>1 DEF PrefixByBytes
  <2>2. \A n \in 0 .. k : n <= 0
    BY <1>1
  <2>3. 0 \in 0 .. k
    OBVIOUS
  <2>4. QED
    BY <2>1, <2>2, <2>3, Zenon
<1>2. CASE k > 0
  <2> DEFINE ends == {n \in 0 .. k : n = 0 \/ s[n + 1] \notin Continuation}
             Final(end) == /\ end = 0 \/ s[end + 1] \notin Continuation
                           /\ \A later \in end + 1 .. k :
                                s[later + 1] \in Continuation
  <2>1. 0 \in ends
    OBVIOUS
  <2>2. PICK most \in ends : \A n \in ends : n <= most
    <3> HIDE DEF ends
    <3>1. ends \in SUBSET (0 .. k)
      BY DEF ends
    <3>2. QED
      BY <2>1, <3>1, GreatestExists
  <2>3. \E end \in 0 .. k : Final(end)
    <3>1. \A later \in most + 1 .. k : s[later + 1] \in Continuation
      BY <2>2
    <3>2. QED
      BY <2>2, <3>1
  <2>4. LastEnd(s, k) \in 0 .. k /\ Final(LastEnd(s, k))
    BY <2>3, Zenon DEF LastEnd
  <2>5. \A n \in 0 .. k :
          n = 0 \/ s[n + 1] \notin Continuation => n <= LastEnd(s, k)
    BY <2>4
  <2>6. PrefixByBytes(s, k) = SubSeq(s, 1, LastEnd(s, k))
    <3>1. ~ (k <= 0) /\ ~ (Len(s) <= k)
      BY <1>2
    <3>2. QED
      BY <1>2, <3>1, Zenon DEF PrefixByBytes
  <2>7. QED
    BY <2>4, <2>5, <2>6
<1>3. QED
  BY <1>1, <1>2

\* A text that is too long is cut where the last of its cuts leaves room for
\* the marker.
LEMMA CappedEnd ==
  ASSUME NEW s \in Seq(Byte), NEW limit \in Nat,
         Len(s) > limit, Len(Marker) <= limit,
         NEW most \in Cuts(s), most + Len(Marker) <= limit,
         \A n \in Cuts(s) : n + Len(Marker) <= limit => n <= most
  PROVE  Capped(s, limit) = SubSeq(s, 1, most) \o Marker
<1> DEFINE fit   == {n \in Cuts(s) : n + Len(Marker) <= limit}
           choice == CHOOSE n \in fit : \A other \in fit : other <= n
<1>1. most \in fit /\ \A other \in fit : other <= most
  OBVIOUS
<1>2. choice \in fit /\ \A other \in fit : other <= choice
  BY <1>1, Zenon
<1>3. Cuts(s) \subseteq Nat
  BY DEF Cuts
<1>4. choice = most
  <2> HIDE DEF choice
  <2>1. choice \in Nat /\ most \in Nat
    BY <1>2, <1>3
  <2>2. choice <= most /\ most <= choice
    BY <1>1, <1>2
  <2>3. QED
    BY <2>1, <2>2
<1>5. Capped(s, limit) = SubSeq(s, 1, choice) \o Marker
  <2>1. ~ (Len(s) <= limit) /\ ~ (Len(Marker) > limit)
    BY MarkerShape
  <2>2. QED
    BY <2>1, Zenon DEF Capped
<1>6. QED
  BY <1>4, <1>5

\* The cuts of a text that is too long, where there is one.
LEMMA CapExists ==
  ASSUME NEW s \in Seq(Byte), NEW limit \in Nat,
         Len(s) > limit, Len(Marker) <= limit
  PROVE  \E most \in Cuts(s) :
           /\ most + Len(Marker) <= limit
           /\ most < Len(s)
           /\ \A n \in Cuts(s) : n + Len(Marker) <= limit => n <= most
           /\ Capped(s, limit) = SubSeq(s, 1, most) \o Marker
<1> DEFINE fit == {n \in Cuts(s) : n + Len(Marker) <= limit}
<1>1. Len(Marker) \in Nat
  BY MarkerShape
<1>2. Cuts(s) \subseteq Nat /\ 0 \in Cuts(s)
  BY DEF Cuts
<1>3. 0 \in fit /\ fit \in SUBSET (0 .. limit)
  BY <1>1, <1>2
<1>4. PICK most \in fit : \A n \in fit : n <= most
  <2> HIDE DEF fit
  <2>1. QED
    BY <1>3, GreatestExists
<1>5. most \in Cuts(s) /\ most + Len(Marker) <= limit
  BY <1>4
<1>6. \A n \in Cuts(s) : n + Len(Marker) <= limit => n <= most
  BY <1>4
<1>7. most < Len(s)
  BY <1>1, <1>2, <1>5
<1>8. Capped(s, limit) = SubSeq(s, 1, most) \o Marker
  BY <1>5, <1>6, CappedEnd
<1>9. QED
  BY <1>5, <1>6, <1>7, <1>8

-----------------------------------------------------------------------------
(* Writing *)

LEMMA FrontOfConcat ==
  ASSUME NEW c \in Seq(Byte), NEW s \in Seq(Byte), NEW n \in 0 .. Len(c)
  PROVE  SubSeq(c \o s, 1, n) = SubSeq(c, 1, n)
<1>1. CASE n = 0
  BY <1>1, SubSeqEmpty
<1>2. CASE n > 0
  <2>1. n \in 1 .. Len(c) /\ 1 \in 1 .. Len(c)
    BY <1>2
  <2>2. QED
    BY <2>1, SubSeqOfConcat1
<1>3. QED
  BY <1>1, <1>2

\* Where the cuts of a text with more behind it are.
LEMMA CutsOfConcat ==
  ASSUME NEW c \in Seq(Byte), NEW s \in Seq(Byte)
  PROVE  \A n \in 0 .. Len(c) - 1 : n \in Cuts(c \o s) <=> n \in Cuts(c)
<1> TAKE n \in 0 .. Len(c) - 1
<1>1. /\ Len(c) \in Nat /\ Len(s) \in Nat
      /\ Len(c \o s) = Len(c) + Len(s)
      /\ (c \o s)[n + 1] = c[n + 1]
  BY ConcatProperties
<1>2. n \in Cuts(c \o s) <=> n = 0 \/ c[n + 1] \notin Continuation
  BY <1>1 DEF Cuts
<1>3. n \in Cuts(c) <=> n = 0 \/ c[n + 1] \notin Continuation
  BY <1>1 DEF Cuts
<1>4. QED
  BY <1>2, <1>3

\* What is behind the limit does not show.
LEMMA CappedOfLonger ==
  ASSUME NEW c \in Seq(Byte), NEW s \in Seq(Byte), NEW limit \in Nat,
         Len(c) > limit
  PROVE  Capped(c \o s, limit) = Capped(c, limit)
<1>1. /\ Len(Marker) \in Nat /\ Len(c) \in Nat /\ c \o s \in Seq(Byte)
      /\ Len(c \o s) > limit
  BY MarkerShape, ConcatProperties
<1>2. CASE Len(Marker) > limit
  <2>1. /\ ~ (Len(c) <= limit) /\ ~ (Len(c \o s) <= limit)
        /\ ~ (Len(Marker) <= limit)
    BY <1>1, <1>2
  <2>2. QED
    BY <1>1, <1>2, <2>1, Zenon DEF Capped
<1>3. CASE Len(Marker) <= limit
  <2>1. PICK most \in Cuts(c) :
          /\ most + Len(Marker) <= limit
          /\ most < Len(c)
          /\ \A n \in Cuts(c) : n + Len(Marker) <= limit => n <= most
          /\ Capped(c, limit) = SubSeq(c, 1, most) \o Marker
    BY <1>3, CapExists
  <2>2. most \in 0 .. Len(c) - 1
    BY <1>1, <2>1 DEF Cuts
  <2>3. most \in Cuts(c \o s)
    BY <2>2, CutsOfConcat
  <2>4. \A n \in Cuts(c \o s) : n + Len(Marker) <= limit => n <= most
    <3> SUFFICES ASSUME NEW n \in Cuts(c \o s), n + Len(Marker) <= limit
                 PROVE  n <= most
      OBVIOUS
    <3>1. n \in 0 .. Len(c) - 1
      BY <1>1 DEF Cuts
    <3>2. n \in Cuts(c)
      BY <3>1, CutsOfConcat
    <3>3. QED
      BY <3>2, <2>1
  <2>5. Capped(c \o s, limit) = SubSeq(c \o s, 1, most) \o Marker
    <3>1. most + Len(Marker) <= limit
      BY <2>1
    <3>2. QED
      BY <1>1, <1>3, <2>3, <2>4, <3>1, CappedEnd
  <2>6. SubSeq(c \o s, 1, most) = SubSeq(c, 1, most)
    BY <2>2, FrontOfConcat
  <2>7. QED
    BY <2>1, <2>5, <2>6
<1>4. QED
  BY <1>1, <1>2, <1>3

\* A piece that does not fit, with room for the marker behind what is there.
LEMMA CutInPiece ==
  ASSUME NEW c \in Seq(Byte), NEW s \in Text, NEW limit \in Nat,
         Len(c) + Len(s) > limit, Len(c) + Len(Marker) <= limit
  PROVE  /\ Capped(c \o s, limit)
              = (c \o PrefixByBytes(s, limit - Len(c) - Len(Marker))) \o Marker
         /\ Len(PrefixByBytes(s, limit - Len(c) - Len(Marker)))
              <= limit - Len(c) - Len(Marker)
         /\ PrefixByBytes(s, limit - Len(c) - Len(Marker)) \in Seq(Byte)
<1> DEFINE k == limit - Len(c) - Len(Marker)
<1>1. /\ Len(Marker) \in Nat /\ Len(c) \in Nat /\ Len(s) \in Nat
      /\ s \in Seq(Byte) /\ c \o s \in Seq(Byte)
      /\ Len(c \o s) = Len(c) + Len(s)
  BY MarkerShape, ConcatProperties DEF Text
<1>2. k \in Nat /\ k < Len(s)
  BY <1>1
<1> HIDE DEF k
<1>3. PICK end \in 0 .. k :
        /\ end = 0 \/ s[end + 1] \notin Continuation
        /\ \A n \in 0 .. k : n = 0 \/ s[n + 1] \notin Continuation => n <= end
        /\ PrefixByBytes(s, k) = SubSeq(s, 1, end)
  BY <1>1, <1>2, PrefixEnd
<1>4. s[1] \notin Continuation
  BY <1>1, <1>2 DEF Text
<1>5. \A n \in 0 .. Len(s) - 1 : (c \o s)[Len(c) + n + 1] = s[n + 1]
  BY <1>1, ConcatProperties
<1>6. Len(c) + end \in Cuts(c \o s)
  <2>1. s[end + 1] \notin Continuation
    BY <1>3, <1>4
  <2>2. (c \o s)[Len(c) + end + 1] \notin Continuation
    BY <1>1, <1>2, <1>5, <2>1
  <2>3. QED
    BY <1>1, <1>2, <2>2 DEF Cuts
<1>7. \A n \in Cuts(c \o s) : n + Len(Marker) <= limit => n <= Len(c) + end
  <2> SUFFICES ASSUME NEW n \in Cuts(c \o s), n + Len(Marker) <= limit,
                      n > Len(c) + end
               PROVE  FALSE
    BY <1>1, <1>2 DEF Cuts
  <2>1. n \in Nat /\ n - Len(c) \in 0 .. k /\ n - Len(c) > end
    BY <1>1, <1>2 DEF Cuts, k
  <2>2. n # 0 /\ n # Len(c \o s)
    BY <1>1, <1>2, <2>1
  <2>3. (c \o s)[n + 1] \notin Continuation
    BY <2>2 DEF Cuts
  <2>4. s[n - Len(c) + 1] \notin Continuation
    <3>1. (c \o s)[Len(c) + (n - Len(c)) + 1] = s[n - Len(c) + 1]
      BY <1>1, <1>2, <1>5, <2>1
    <3>2. Len(c) + (n - Len(c)) + 1 = n + 1
      BY <1>1, <2>1
    <3>3. QED
      BY <2>3, <3>1, <3>2
  <2>5. n - Len(c) <= end
    BY <1>3, <2>1, <2>4
  <2>6. QED
    BY <1>1, <2>1, <2>5
<1>8. Capped(c \o s, limit) = SubSeq(c \o s, 1, Len(c) + end) \o Marker
  <2>1. /\ Len(c) + end + Len(Marker) <= limit
        /\ Len(c \o s) > limit /\ Len(Marker) <= limit
    BY <1>1, <1>2 DEF k
  <2>2. QED
    BY <1>1, <1>6, <1>7, <2>1, CappedEnd
<1>9. /\ SubSeq(s, 1, end) \in Seq(Byte)
      /\ Len(SubSeq(s, 1, end)) = end
      /\ \A i \in 1 .. end : SubSeq(s, 1, end)[i] = s[i]
  BY <1>1, <1>2, SubSeqProperties, ElementOfSeq
<1>10. SubSeq(c \o s, 1, Len(c) + end) = c \o SubSeq(s, 1, end)
  <2> DEFINE left  == SubSeq(c \o s, 1, Len(c) + end)
             right == c \o SubSeq(s, 1, end)
  <2>1. /\ left \in Seq(Byte)
        /\ Len(left) = Len(c) + end
        /\ \A i \in 1 .. Len(c) + end : left[i] = (c \o s)[i]
    BY <1>1, <1>2, SubSeqProperties, ElementOfSeq
  <2>2. /\ right \in Seq(Byte)
        /\ Len(right) = Len(c) + end
        /\ \A i \in 1 .. Len(c) + end :
             right[i] = IF i <= Len(c) THEN c[i] ELSE s[i - Len(c)]
    BY <1>1, <1>9, ConcatProperties
  <2>3. \A i \in 1 .. Len(c) + end :
          (c \o s)[i] = IF i <= Len(c) THEN c[i] ELSE s[i - Len(c)]
    BY <1>1, <1>2, ConcatProperties
  <2>4. \A i \in 1 .. Len(left) : left[i] = right[i]
    BY <2>1, <2>2, <2>3
  <2> HIDE DEF left, right
  <2>5. left = right
    BY <2>1, <2>2, <2>4, SeqEqual
  <2>6. QED
    BY <2>5 DEF left, right
<1>11. PrefixByBytes(s, k) = SubSeq(s, 1, end)
  BY <1>3
<1>12. /\ Capped(c \o s, limit) = (c \o PrefixByBytes(s, k)) \o Marker
       /\ PrefixByBytes(s, k) \in Seq(Byte)
  BY <1>8, <1>9, <1>10, <1>11, Zenon
<1>13. Len(PrefixByBytes(s, k)) <= k
  BY <1>2, <1>9, <1>11
<1>14. QED
  BY <1>12, <1>13 DEF k

\* A piece that does not fit, where the marker takes from what is there.
LEMMA CutBeforePiece ==
  ASSUME NEW c \in Seq(Byte), NEW s \in Seq(Byte), NEW limit \in Nat,
         Len(Marker) <= limit, Len(c) <= limit,
         Len(c) + Len(s) > limit, Len(c) + Len(Marker) > limit
  PROVE  Capped(c \o s, limit)
            = PrefixByBytes(c, limit - Len(Marker)) \o Marker
<1> DEFINE k == limit - Len(Marker)
<1>1. /\ Len(Marker) \in Nat /\ Len(c) \in Nat /\ Len(s) \in Nat
      /\ c \o s \in Seq(Byte)
      /\ Len(c \o s) = Len(c) + Len(s)
  BY MarkerShape, ConcatProperties
<1>2. k \in Nat /\ k < Len(c)
  BY <1>1
<1>3. \A n \in Nat : n + Len(Marker) <= limit <=> n <= k
  BY <1>1
<1>4. k + Len(Marker) = limit
  BY <1>1
<1> HIDE DEF k
<1>5. PICK end \in 0 .. k :
        /\ end = 0 \/ c[end + 1] \notin Continuation
        /\ \A n \in 0 .. k : n = 0 \/ c[n + 1] \notin Continuation => n <= end
        /\ PrefixByBytes(c, k) = SubSeq(c, 1, end)
  BY <1>2, PrefixEnd
<1>6. end \in 0 .. Len(c) - 1
  BY <1>1, <1>2
<1>7. end \in Cuts(c \o s)
  <2>1. end \in Cuts(c)
    BY <1>1, <1>2, <1>5 DEF Cuts
  <2>2. QED
    BY <1>6, <2>1, CutsOfConcat
<1>8. \A n \in Cuts(c \o s) : n + Len(Marker) <= limit => n <= end
  <2> SUFFICES ASSUME NEW n \in Cuts(c \o s), n + Len(Marker) <= limit
               PROVE  n <= end
    OBVIOUS
  <2>1. n \in Nat
    BY <1>1 DEF Cuts
  <2>2. n \in 0 .. k /\ n \in 0 .. Len(c) - 1
    BY <1>1, <1>2, <1>3, <2>1
  <2>3. n \in Cuts(c)
    BY <2>2, CutsOfConcat
  <2>4. n = 0 \/ c[n + 1] \notin Continuation
    BY <1>1, <2>2, <2>3 DEF Cuts
  <2>5. QED
    BY <1>5, <2>2, <2>4
<1>9. Capped(c \o s, limit) = SubSeq(c \o s, 1, end) \o Marker
  <2>1. end + Len(Marker) <= limit /\ Len(c \o s) > limit
    BY <1>1, <1>2, <1>4
  <2>2. QED
    BY <1>1, <1>7, <1>8, <2>1, CappedEnd
<1>10. SubSeq(c \o s, 1, end) = SubSeq(c, 1, end)
  BY <1>1, <1>6, FrontOfConcat
<1>11. Capped(c \o s, limit) = PrefixByBytes(c, k) \o Marker
  BY <1>5, <1>9, <1>10
<1>12. QED
  BY <1>11 DEF k

\* Cutting leaves a text.
LEMMA CappedType ==
  ASSUME NEW s \in Seq(Byte), NEW limit \in Nat
  PROVE  /\ Capped(s, limit) \in Seq(Byte)
         /\ s \in Text => Capped(s, limit) \in Text
<1>1. /\ Len(s) \in Nat /\ Len(Marker) \in Nat /\ Marker \in Seq(Byte)
      /\ \A i \in 1 .. Len(Marker) : Marker[i] \in Byte \ Continuation
  BY MarkerShape
<1>2. CASE Len(s) <= limit
  <2>1. ~ (Len(s) > limit)
    BY <1>1, <1>2
  <2>2. Capped(s, limit) = s
    BY <1>2, <2>1, Zenon DEF Capped
  <2>3. QED
    BY <2>2
<1>3. CASE Len(s) > limit /\ Len(Marker) > limit
  <2> DEFINE cut == SubSeq(Marker, 1, limit)
  <2>1. ~ (Len(s) <= limit) /\ ~ (Len(Marker) <= limit)
    BY <1>1, <1>3
  <2>2. Capped(s, limit) = cut
    BY <1>3, <2>1, Zenon DEF Capped
  <2>3. /\ cut \in Seq(Byte) /\ Len(cut) = limit
        /\ \A i \in 1 .. limit : cut[i] = Marker[i]
    BY <1>1, <1>3, SubSeqProperties
  <2>4. cut # <<>> => cut[1] \notin Continuation
    BY <1>1, <1>3, <2>3, EmptySeq
  <2>5. QED
    BY <2>2, <2>3, <2>4 DEF Text
<1>4. CASE Len(s) > limit /\ Len(Marker) <= limit
  <2>1. PICK most \in Cuts(s) :
          most < Len(s) /\ Capped(s, limit) = SubSeq(s, 1, most) \o Marker
    BY <1>4, CapExists
  <2> DEFINE front == SubSeq(s, 1, most)
  <2>2. most \in Nat
    BY <1>1 DEF Cuts
  <2>3. /\ front \in Seq(Byte) /\ Len(front) = most
        /\ \A i \in 1 .. most : front[i] = s[i]
    BY <1>1, <2>1, <2>2, SubSeqProperties, ElementOfSeq
  <2>4. /\ front \o Marker \in Seq(Byte)
        /\ Len(front \o Marker) = most + Len(Marker)
        /\ \A i \in 1 .. most + Len(Marker) : (front \o Marker)[i] =
             IF i <= most THEN front[i] ELSE Marker[i - most]
    BY <1>1, <2>3, ConcatProperties
  <2>5. s \in Text => front \o Marker \in Text
    <3> SUFFICES ASSUME s \in Text, front \o Marker # <<>>
                 PROVE  (front \o Marker)[1] \notin Continuation
      BY <2>4 DEF Text
    <3>1. most + Len(Marker) > 0
      BY <1>1, <2>2, <2>4, EmptySeq
    <3>2. CASE most > 0
      <4>1. (front \o Marker)[1] = s[1]
        BY <1>1, <2>2, <2>3, <2>4, <3>2
      <4>2. s # <<>>
        BY <1>1, <2>1, <2>2, <3>2
      <4>3. QED
        BY <4>1, <4>2 DEF Text
    <3>3. CASE most = 0
      <4>1. (front \o Marker)[1] = Marker[1]
        BY <1>1, <2>4, <3>1, <3>3
      <4>2. 1 \in 1 .. Len(Marker)
        BY <1>1, <3>1, <3>3
      <4>3. QED
        BY <1>1, <4>1, <4>2
    <3>4. QED
      BY <2>2, <3>2, <3>3
  <2>6. QED
    BY <2>1, <2>4, <2>5
<1>5. QED
  BY <1>1, <1>2, <1>3, <1>4

WriterType == [limit : Nat \ {0}, buf : Seq(Byte), truncated : BOOLEAN]

\* A writer that was given c, in whatever pieces.
Shows(writer, c) ==
  /\ writer \in WriterType
  /\ writer.buf = Capped(c, writer.limit)
  /\ writer.truncated <=> Len(c) > writer.limit

LEMMA FreshWriterShows ==
  ASSUME NEW limit \in Nat \ {0}
  PROVE  Shows(Writer(limit), <<>>)
<1>1. /\ Writer(limit) \in WriterType
      /\ Writer(limit).limit = limit /\ Writer(limit).buf = <<>>
      /\ Writer(limit).truncated = FALSE
  BY EmptySeq DEF Writer, WriterType
<1>2. Len(<<>>) <= limit /\ ~ (Len(<<>>) > limit)
  BY EmptySeq
<1>3. Capped(<<>>, limit) = <<>>
  BY <1>2, Zenon DEF Capped
<1>4. QED
  BY <1>1, <1>2, <1>3 DEF Shows

\* What markTruncated leaves of a piece that does not fit.
LEMMA MarkedIsCapped ==
  ASSUME NEW c \in Seq(Byte), NEW s \in Text, NEW limit \in Nat,
         Len(c) <= limit, Len(c) + Len(s) > limit
  PROVE  Marked(limit, c \o PrefixByBytes(s, limit - Len(c) - Len(Marker)))
            = Capped(c \o s, limit)
<1> DEFINE kept == PrefixByBytes(s, limit - Len(c) - Len(Marker))
<1>1. /\ Len(Marker) \in Nat /\ Len(c) \in Nat /\ Len(s) \in Nat
      /\ s \in Seq(Byte) /\ c \o s \in Seq(Byte)
      /\ Len(c \o s) = Len(c) + Len(s)
  BY MarkerShape, ConcatProperties DEF Text
<1>2. Len(c \o s) > limit /\ ~ (Len(c \o s) <= limit)
  BY <1>1
<1>3. CASE Len(Marker) > limit
  <2>1. ~ (Len(Marker) <= limit)
    BY <1>1, <1>3
  <2>2. Marked(limit, c \o kept) = SubSeq(Marker, 1, limit)
    BY <1>3, <2>1, Zenon DEF Marked
  <2>3. Capped(c \o s, limit) = SubSeq(Marker, 1, limit)
    BY <1>2, <1>3, <2>1, Zenon DEF Capped
  <2>4. QED
    BY <2>2, <2>3
<1>4. CASE Len(c) + Len(Marker) <= limit
  <2>1. /\ Capped(c \o s, limit) = (c \o kept) \o Marker
        /\ Len(kept) <= limit - Len(c) - Len(Marker)
        /\ kept \in Seq(Byte)
    BY <1>4, CutInPiece
  <2> HIDE DEF kept
  <2>2. Len(c \o kept) = Len(c) + Len(kept) /\ Len(kept) \in Nat
    BY <2>1, ConcatProperties
  <2>3. /\ Len(Marker) <= limit /\ ~ (Len(Marker) > limit)
        /\ Len(c \o kept) + Len(Marker) <= limit
        /\ ~ (Len(c \o kept) + Len(Marker) > limit)
    BY <1>1, <1>4, <2>1, <2>2
  <2>4. Marked(limit, c \o kept) = (c \o kept) \o Marker
    BY <2>3, Zenon DEF Marked
  <2>5. QED
    BY <2>1, <2>4 DEF kept
<1>5. CASE Len(Marker) <= limit /\ Len(c) + Len(Marker) > limit
  <2>1. kept = <<>>
    <3>1. limit - Len(c) - Len(Marker) <= 0
      BY <1>1, <1>5
    <3>2. ~ (limit - Len(c) - Len(Marker) > 0)
      BY <1>1, <1>5
    <3>3. QED
      BY <3>1, <3>2, Zenon DEF PrefixByBytes
  <2> HIDE DEF kept
  <2>2. c \o kept = c
    BY <2>1, ConcatEmptySeq
  <2>3. /\ Len(Marker) <= limit /\ ~ (Len(Marker) > limit)
        /\ Len(c) + Len(Marker) > limit
        /\ ~ (Len(c) + Len(Marker) <= limit)
    BY <1>1, <1>5
  <2>4. Marked(limit, c) = PrefixByBytes(c, limit - Len(Marker)) \o Marker
    BY <2>3, Zenon DEF Marked
  <2>5. Capped(c \o s, limit) = PrefixByBytes(c, limit - Len(Marker)) \o Marker
    BY <1>1, <2>3, CutBeforePiece
  <2>6. QED
    BY <2>2, <2>4, <2>5 DEF kept
<1>6. QED
  BY <1>1, <1>3, <1>4, <1>5

\* The three ways of writeString.
LEMMA WriteIgnores ==
  ASSUME NEW writer, NEW s, s = <<>> \/ writer.truncated
  PROVE  writer ++ s = writer
<1>1. s = <<>> \/ writer.limit <= 0 \/ writer.truncated
  OBVIOUS
<1>2. ~ (/\ s # <<>> /\ writer.limit > 0 /\ ~writer.truncated
         /\ Len(s) <= writer.limit - Len(writer.buf))
  OBVIOUS
<1>3. ~ (/\ s # <<>> /\ writer.limit > 0 /\ ~writer.truncated
         /\ Len(s) > writer.limit - Len(writer.buf))
  OBVIOUS
<1>4. WriteString(writer, s) = writer
  BY <1>1, <1>2, <1>3, Zenon DEF WriteString
<1>5. QED
  BY <1>4 DEF ++

LEMMA WriteFits ==
  ASSUME NEW writer, NEW s, s # <<>>, ~writer.truncated,
         writer.limit \in Nat \ {0},
         Len(s) \in Nat, Len(writer.buf) \in Nat,
         Len(s) <= writer.limit - Len(writer.buf)
  PROVE  writer ++ s = [writer EXCEPT !.buf = @ \o s]
<1>1. ~ (s = <<>> \/ writer.limit <= 0 \/ writer.truncated)
  OBVIOUS
<1>2. /\ s # <<>> /\ writer.limit > 0 /\ ~writer.truncated
      /\ Len(s) <= writer.limit - Len(writer.buf)
  OBVIOUS
<1>3. ~ (/\ s # <<>> /\ writer.limit > 0 /\ ~writer.truncated
         /\ Len(s) > writer.limit - Len(writer.buf))
  OBVIOUS
<1>4. WriteString(writer, s) = [writer EXCEPT !.buf = @ \o s]
  BY <1>1, <1>2, <1>3, Zenon DEF WriteString
<1>5. QED
  BY <1>4 DEF ++

LEMMA WriteCuts ==
  ASSUME NEW writer, NEW s, s # <<>>, ~writer.truncated,
         writer.limit \in Nat \ {0},
         Len(s) \in Nat, Len(writer.buf) \in Nat,
         Len(s) > writer.limit - Len(writer.buf)
  PROVE  writer ++ s =
           MarkTruncated([writer EXCEPT !.buf = @ \o
             PrefixByBytes(s, writer.limit - Len(writer.buf) - Len(Marker))])
<1>1. ~ (s = <<>> \/ writer.limit <= 0 \/ writer.truncated)
  OBVIOUS
<1>2. ~ (/\ s # <<>> /\ writer.limit > 0 /\ ~writer.truncated
         /\ Len(s) <= writer.limit - Len(writer.buf))
  OBVIOUS
<1>3. /\ s # <<>> /\ writer.limit > 0 /\ ~writer.truncated
      /\ Len(s) > writer.limit - Len(writer.buf)
  OBVIOUS
<1>4. WriteString(writer, s) =
        MarkTruncated([writer EXCEPT !.buf = @ \o
          PrefixByBytes(s, writer.limit - Len(writer.buf) - Len(Marker))])
  BY <1>1, <1>2, <1>3, Zenon DEF WriteString
<1>5. QED
  BY <1>4 DEF ++

\* One more piece: the writer shows what was written with the piece behind.
LEMMA WriteShows ==
  ASSUME NEW writer, NEW c \in Seq(Byte), Shows(writer, c), NEW s \in Text
  PROVE  /\ Shows(writer ++ s, c \o s)
         /\ c \o s \in Seq(Byte)
<1> DEFINE limit     == writer.limit
           remaining == limit - Len(writer.buf)
           kept      == PrefixByBytes(s, remaining - Len(Marker))
<1>1. /\ Len(Marker) \in Nat /\ Len(c) \in Nat /\ Len(s) \in Nat
      /\ s \in Seq(Byte) /\ c \o s \in Seq(Byte)
      /\ Len(c \o s) = Len(c) + Len(s)
  BY MarkerShape, ConcatProperties DEF Text
<1>2. /\ limit \in Nat \ {0} /\ writer.buf \in Seq(Byte)
      /\ writer.truncated \in BOOLEAN
      /\ writer = [limit |-> limit, buf |-> writer.buf,
                   truncated |-> writer.truncated]
  BY DEF Shows, WriterType
<1>3. Capped(c \o s, limit) \in Seq(Byte)
  BY <1>1, <1>2, CappedType
<1>4. CASE s = <<>>
  <2>1. writer ++ s = writer
    BY <1>4, WriteIgnores
  <2>2. c \o s = c
    BY <1>4, ConcatEmptySeq
  <2>3. QED
    BY <2>1, <2>2
<1>5. CASE writer.truncated
  <2>1. writer ++ s = writer
    BY <1>5, WriteIgnores
  <2>2. Len(c) > limit
    BY <1>5 DEF Shows
  <2>3. Capped(c \o s, limit) = Capped(c, limit)
    BY <1>1, <1>2, <2>2, CappedOfLonger
  <2>4. Len(c \o s) > limit
    BY <1>1, <1>2, <2>2
  <2>5. QED
    BY <1>1, <1>5, <2>1, <2>3, <2>4 DEF Shows
<1>6. ASSUME s # <<>>, ~ writer.truncated
      PROVE  Shows(writer ++ s, c \o s)
  <2>1. Len(c) <= limit /\ ~ (Len(c) > limit)
    BY <1>1, <1>2, <1>6 DEF Shows
  <2>2. writer.buf = c
    <3>1. Capped(c, limit) = c
      BY <2>1, Zenon DEF Capped
    <3>2. QED
      BY <3>1 DEF Shows
  <2>3. CASE Len(s) <= remaining
    <3>1. Len(writer.buf) \in Nat
      BY <1>1, <2>2
    <3>2. writer ++ s = [writer EXCEPT !.buf = @ \o s]
      BY <1>1, <1>2, <1>6, <2>3, <3>1, WriteFits
    <3>3. writer ++ s = [limit |-> limit, buf |-> c \o s, truncated |-> FALSE]
      BY <1>2, <1>6, <2>2, <3>2
    <3>4. Len(c \o s) <= limit /\ ~ (Len(c \o s) > limit)
      BY <1>1, <1>2, <2>2, <2>3
    <3>5. Capped(c \o s, limit) = c \o s
      BY <3>4, Zenon DEF Capped
    <3>6. QED
      BY <1>1, <1>2, <3>3, <3>4, <3>5 DEF Shows, WriterType
  <2>4. CASE Len(s) > remaining
    <3>1. Len(writer.buf) \in Nat
      BY <1>1, <2>2
    <3>2. writer ++ s = MarkTruncated([writer EXCEPT !.buf = @ \o kept])
      BY <1>1, <1>2, <1>6, <2>4, <3>1, WriteCuts
    <3>3. writer ++ s = [limit |-> limit, buf |-> Marked(limit, c \o kept),
                         truncated |-> TRUE]
      BY <1>2, <2>2, <3>2 DEF MarkTruncated
    <3>4. Len(c) + Len(s) > limit
      BY <1>1, <1>2, <2>2, <2>4
    <3>5. Marked(limit, c \o kept) = Capped(c \o s, limit)
      BY <1>2, <2>1, <2>2, <3>4, MarkedIsCapped
    <3> HIDE DEF kept
    <3>6. QED
      BY <1>1, <1>2, <1>3, <3>3, <3>4, <3>5 DEF Shows, WriterType
  <2>5. QED
    BY <1>1, <1>2, <2>2, <2>3, <2>4
<1>7. QED
  BY <1>1, <1>2, <1>4, <1>5, <1>6

-----------------------------------------------------------------------------
(* The prompt *)

\* What is true of every prompt on its way.
PromptInv ==
  /\ input \in Inputs
  /\ at \in Nat \ {0}
  /\ content \in Seq(Byte)
  /\ Shows(w, content)

\* The inputs and the fixed lines are texts.
LEMMA InputShape ==
  ASSUME input \in Inputs
  PROVE  /\ input.question \in Text /\ input.answer \in Text
         /\ input.expected \in Text /\ input.instructions \in Text
         /\ \A i \in 1 .. Len(input.docs) :
              input.docs[i].id \in Text /\ input.docs[i].text \in Text
         /\ Len(input.docs) \in Nat /\ Len(input.docs) <= MaxDocs
<1>1. input \in [question : Text, answer : Text, expected : Text,
                 instructions : Text, docs : Seq([id : Text, text : Text])]
  BY PromptAssumption
<1>2. input.docs \in Seq([id : Text, text : Text])
  BY <1>1
<1>3. \A i \in 1 .. Len(input.docs) : input.docs[i] \in [id : Text, text : Text]
  BY <1>2, ElementOfSeq
<1>4. QED
  BY <1>1, <1>2, <1>3, PromptAssumption

LEMMA FixedTexts ==
  /\ LeadLine \in Text /\ DataEnd \in Text /\ NoDocs \in Text
  /\ DocBegin \in Text /\ DocMiddle \in Text /\ DocEnd \in Text
  /\ \A name \in {"question", "answer", "expected", "instructions", "docs"} :
       DataBegin(name) \in Text
  /\ \A i \in 1 .. MaxDocs : DefaultId(i) \in Text
<1>1. \A a \in FixedByte : a \in Byte /\ a \notin Continuation
  BY PromptAssumption
<1>2. \A a \in FixedByte : <<a>> \in Text
  BY <1>1 DEF Text
<1>3. \A a, b \in FixedByte : <<a, b>> \in Text
  BY <1>1 DEF Text
<1>4. \A i \in 1 .. MaxDocs : DefaultId(i) \in Text
  <2> TAKE i \in 1 .. MaxDocs
  <2>1. <<"1", "2", "3", "4", "5", "6", "7", "8", "9">>[i] \in FixedByte
    BY DEF MaxDocs, FixedByte
  <2>2. "doc-" \in FixedByte
    BY DEF FixedByte
  <2>3. QED
    BY <1>3, <2>1, <2>2 DEF DefaultId
<1>5. /\ LeadLine \in Text /\ DataEnd \in Text /\ NoDocs \in Text
      /\ DocBegin \in Text /\ DocMiddle \in Text /\ DocEnd \in Text
  BY <1>2 DEF LeadLine, DataEnd, NoDocs, DocBegin, DocMiddle, DocEnd, FixedByte
<1>6. \A name \in {"question", "answer", "expected", "instructions", "docs"} :
        DataBegin(name) \in Text
  <2> TAKE name \in {"question", "answer", "expected", "instructions", "docs"}
  <2>1. BeginLine \in Text /\ Heading(name) \in Text
    BY <1>2 DEF BeginLine, Heading, FixedByte
  <2>2. Len(BeginLine) = 1 /\ BeginLine # <<>>
    BY DEF BeginLine
  <2>3. /\ BeginLine \o Heading(name) \in Seq(Byte)
        /\ (BeginLine \o Heading(name))[1] = BeginLine[1]
    BY <2>1, <2>2, ConcatProperties DEF Text
  <2>4. QED
    BY <2>1, <2>2, <2>3 DEF DataBegin, Text
<1>7. QED
  BY <1>4, <1>5, <1>6

\* A document cut by itself is a text.
LEMMA TruncatedText ==
  ASSUME NEW s \in Text
  PROVE  TruncateText(s, DocLimit) \in Text
<1>1. DocLimit \in Nat \ {0} /\ s \in Seq(Byte) /\ <<>> \in Seq(Byte)
  BY PromptAssumption, EmptySeq DEF Text
<1>2. Shows(Writer(DocLimit), <<>>)
  BY <1>1, FreshWriterShows
<1>3. Shows(Writer(DocLimit) ++ s, <<>> \o s)
  BY <1>1, <1>2, WriteShows
<1>4. <<>> \o s \in Text
  BY <1>1, ConcatEmptySeq
<1>5. (Writer(DocLimit) ++ s).limit \in Nat
  BY <1>3 DEF Shows, WriterType
<1>6. Capped(<<>> \o s, (Writer(DocLimit) ++ s).limit) \in Text
  BY <1>4, <1>5, CappedType DEF Text
<1>7. QED
  BY <1>3, <1>6 DEF Shows, TruncateText

LEMMA TwoPieces ==
  ASSUME NEW writer, NEW c \in Seq(Byte), Shows(writer, c),
         NEW s1 \in Text, NEW s2 \in Text
  PROVE  /\ Shows(writer ++ s1 ++ s2, c \o s1 \o s2)
         /\ c \o s1 \o s2 \in Seq(Byte)
<1>1. Shows(writer ++ s1, c \o s1) /\ c \o s1 \in Seq(Byte)
  BY WriteShows
<1>2. QED
  BY <1>1, WriteShows

LEMMA ThreePieces ==
  ASSUME NEW writer, NEW c \in Seq(Byte), Shows(writer, c),
         NEW s1 \in Text, NEW s2 \in Text, NEW s3 \in Text
  PROVE  /\ Shows(writer ++ s1 ++ s2 ++ s3, c \o s1 \o s2 \o s3)
         /\ c \o s1 \o s2 \o s3 \in Seq(Byte)
<1>1. Shows(writer ++ s1, c \o s1) /\ c \o s1 \in Seq(Byte)
  BY WriteShows
<1>2. QED
  BY <1>1, TwoPieces

\* The marker line and the heading are two writes, and show as one.
LEMMA OpensShows ==
  ASSUME NEW writer, NEW c \in Seq(Byte), Shows(writer, c),
         NEW name \in {"question", "answer", "expected", "instructions", "docs"}
  PROVE  /\ Shows(Opens(writer, name), c \o DataBegin(name))
         /\ c \o DataBegin(name) \in Seq(Byte)
<1>1. \A a \in FixedByte : <<a>> \in Text
  <2>1. \A a \in FixedByte : a \in Byte /\ a \notin Continuation
    BY PromptAssumption
  <2>2. QED
    BY <2>1 DEF Text
<1>2. BeginLine \in Text /\ Heading(name) \in Text
  BY <1>1 DEF BeginLine, Heading, FixedByte
<1>3. /\ Shows(Opens(writer, name), c \o BeginLine \o Heading(name))
      /\ c \o BeginLine \o Heading(name) \in Seq(Byte)
  BY <1>2, TwoPieces DEF Opens
<1>4. c \o BeginLine \o Heading(name) = c \o DataBegin(name)
  BY <1>2, ConcatAssociative DEF DataBegin, Text
<1>5. QED
  BY <1>3, <1>4

\* The invariant holds at the beginning and survives every step.
THEOREM InitPromptInv == Init => PromptInv
<1> SUFFICES ASSUME Init PROVE PromptInv
  OBVIOUS
<1>1. PICK limit \in PromptLimits : w = Writer(limit)
  BY DEF Init
<1>2. limit \in Nat \ {0}
  BY <1>1, PromptAssumption
<1>3. Shows(w, <<>>)
  BY <1>1, <1>2, FreshWriterShows
<1>4. QED
  BY <1>3, EmptySeq DEF Init, PromptInv

THEOREM StepPromptInv == PromptInv /\ [Next]_vars => PromptInv'
<1> SUFFICES ASSUME PromptInv, [Next]_vars PROVE PromptInv'
  OBVIOUS
<1>1. /\ input \in Inputs /\ at \in Nat \ {0}
      /\ content \in Seq(Byte) /\ Shows(w, content)
  BY DEF PromptInv
<1>2. /\ input.question \in Text /\ input.answer \in Text
      /\ input.expected \in Text /\ input.instructions \in Text
  BY <1>1, InputShape
<1>3. SUFFICES /\ input' = input /\ at' \in Nat \ {0}
               /\ content' \in Seq(Byte) /\ Shows(w', content')
  BY <1>1 DEF PromptInv, Shows
<1>4. CASE WriteQuestion
  <2>1. Shows(w ++ LeadLine, content \o LeadLine) /\ content \o LeadLine \in Seq(Byte)
    BY <1>1, FixedTexts, WriteShows
  <2>2. /\ Shows(Opens(w ++ LeadLine, "question"),
                 content \o LeadLine \o DataBegin("question"))
        /\ content \o LeadLine \o DataBegin("question") \in Seq(Byte)
    BY <2>1, OpensShows
  <2>3. /\ Shows(w', content') /\ content' \in Seq(Byte)
    BY <1>2, <1>4, <2>2, FixedTexts, TwoPieces DEF WriteQuestion
  <2>4. QED
    BY <1>1, <1>4, <2>3 DEF WriteQuestion
<1>5. CASE WriteAnswer
  <2>1. /\ Shows(Opens(w, "answer"), content \o DataBegin("answer"))
        /\ content \o DataBegin("answer") \in Seq(Byte)
    BY <1>1, OpensShows
  <2>2. /\ Shows(w', content') /\ content' \in Seq(Byte)
    BY <1>2, <1>5, <2>1, FixedTexts, TwoPieces DEF WriteAnswer
  <2>3. QED
    BY <1>1, <1>5, <2>2 DEF WriteAnswer
<1>6. CASE WriteExpected
  <2>1. /\ Shows(Opens(w, "expected"), content \o DataBegin("expected"))
        /\ content \o DataBegin("expected") \in Seq(Byte)
    BY <1>1, OpensShows
  <2>2. CASE input.expected = <<>>
    BY <1>1, <1>6, <2>2 DEF WriteExpected
  <2>3. CASE input.expected # <<>>
    <3>1. /\ Shows(Opens(w, "expected") ++ input.expected ++ DataEnd,
                   content \o DataBegin("expected") \o input.expected \o DataEnd)
          /\ content \o DataBegin("expected") \o input.expected \o DataEnd
               \in Seq(Byte)
      BY <1>2, <2>1, FixedTexts, TwoPieces
    <3>2. QED
      BY <1>1, <1>6, <2>3, <3>1 DEF WriteExpected
  <2>4. QED
    BY <2>2, <2>3
<1>7. CASE WriteInstructions
  <2>1. CASE input.instructions = <<>>
    <3>1. Shows(w', content') /\ content' \in Seq(Byte)
      BY <1>1, <1>7, <2>1, OpensShows DEF WriteInstructions
    <3>2. QED
      BY <1>1, <1>7, <3>1 DEF WriteInstructions
  <2>2. CASE input.instructions # <<>>
    <3> DEFINE w3 == Opens(w, "instructions") ++ input.instructions ++ DataEnd
               c3 == content \o DataBegin("instructions")
                       \o input.instructions \o DataEnd
    <3>1. /\ Shows(Opens(w, "instructions"), content \o DataBegin("instructions"))
          /\ content \o DataBegin("instructions") \in Seq(Byte)
      BY <1>1, OpensShows
    <3>2. Shows(w3, c3) /\ c3 \in Seq(Byte)
      BY <1>2, <3>1, FixedTexts, TwoPieces
    <3>3. w' = Opens(w3, "docs") /\ content' = c3 \o DataBegin("docs")
      BY <1>7, <2>2 DEF WriteInstructions
    <3> HIDE DEF w3, c3
    <3>4. Shows(w', content') /\ content' \in Seq(Byte)
      BY <3>2, <3>3, OpensShows
    <3>5. QED
      BY <1>1, <1>7, <3>4 DEF WriteInstructions
  <2>3. QED
    BY <2>1, <2>2
<1>8. CASE SkipDoc
  BY <1>1, <1>8 DEF SkipDoc
<1>9. CASE WriteDoc
  <2> DEFINE text  == TruncateText(input.docs[at].text, DocLimit)
             label == Label(input.docs, at)
  <2>1. at \in 1 .. Len(input.docs) /\ at \in 1 .. MaxDocs
    BY <1>1, <1>9, InputShape DEF WriteDoc, MaxDocs
  <2>2. text \in Text
    BY <1>1, <2>1, InputShape, TruncatedText
  <2>3. label \in Text
    BY <1>1, <2>1, InputShape, FixedTexts DEF Label
  <2>4. /\ w' = w ++ DocBegin ++ label ++ DocMiddle ++ text ++ DocEnd
        /\ content' = content \o DocBegin \o label \o DocMiddle
                              \o text \o DocEnd
    BY <1>9 DEF WriteDoc
  <2> HIDE DEF text, label
  <2>5. /\ Shows(w ++ DocBegin ++ label ++ DocMiddle,
                 content \o DocBegin \o label \o DocMiddle)
        /\ content \o DocBegin \o label \o DocMiddle \in Seq(Byte)
    BY <1>1, <2>3, FixedTexts, ThreePieces
  <2>6. Shows(w', content') /\ content' \in Seq(Byte)
    <3> DEFINE w3 == w ++ DocBegin ++ label ++ DocMiddle
               c3 == content \o DocBegin \o label \o DocMiddle
    <3>1. w' = w3 ++ text ++ DocEnd /\ content' = c3 \o text \o DocEnd
      BY <2>4
    <3>2. Shows(w3, c3) /\ c3 \in Seq(Byte)
      BY <2>5
    <3> HIDE DEF w3, c3
    <3>3. QED
      BY <2>2, <3>1, <3>2, FixedTexts, TwoPieces
  <2>7. QED
    BY <1>1, <1>9, <2>6 DEF WriteDoc
<1>10. CASE CloseDocs
  <2>1. Shows(w', content') /\ content' \in Seq(Byte)
    <3>1. CASE written = 0
      <4>1. /\ Shows(w ++ NoDocs ++ DataEnd, content \o NoDocs \o DataEnd)
            /\ content \o NoDocs \o DataEnd \in Seq(Byte)
        BY <1>1, FixedTexts, TwoPieces
      <4>2. QED
        BY <1>10, <3>1, <4>1 DEF CloseDocs
    <3>2. CASE written # 0
      BY <1>1, <1>10, <3>2, FixedTexts, WriteShows DEF CloseDocs
    <3>3. QED
      BY <3>1, <3>2
  <2>2. QED
    BY <1>1, <1>10, <2>1 DEF CloseDocs
<1>11. CASE UNCHANGED vars
  BY <1>1, <1>11 DEF vars
<1>12. QED
  BY <1>4, <1>5, <1>6, <1>7, <1>8, <1>9, <1>10, <1>11 DEF Next

(***************************************************************************)
(* Whatever the texts, the marker and the limits are: at every moment the  *)
(* prompt is what was written so far, whole or cut once, at the last place *)
(* between two characters that leaves room for the marker.                 *)
(***************************************************************************)
THEOREM PromptsAreCapped == Spec => []PromptIsCapped
<1>1. PromptInv => PromptIsCapped
  BY DEF PromptInv, PromptIsCapped, Shows
<1>2. QED
  BY <1>1, InitPromptInv, StepPromptInv, PTL DEF Spec

-----------------------------------------------------------------------------
(* The lines of the documents *)

LEMMA LeastExists ==
  ASSUME NEW T, T \subseteq Nat, T # {}
  PROVE  \E m \in T : \A n \in T : m <= n
<1> DEFINE less == {pair \in Nat \X Nat : pair[1] < pair[2]}
<1>1. IsWellFoundedOn(less, Nat)
  BY NatLessThanWellFounded DEF OpToRel
<1>2. PICK m \in T : \A n \in T : ~ (<<n, m>> \in less)
  <2> HIDE DEF less
  <2>1. QED
    BY <1>1, WFMin
<1>3. \A n \in T : m <= n
  <2> TAKE n \in T
  <2>1. m \in Nat /\ n \in Nat
    OBVIOUS
  <2>2. n < m => <<n, m>> \in less
    BY <2>1
  <2>3. QED
    BY <1>2, <2>1, <2>2
<1>4. QED
  BY <1>3

\* What FlattenSeq makes of the first strings, given what f makes of fewer.
Step(seqs, f, i) == IF i = 1 THEN seqs[i] ELSE f[i - 1] \o seqs[i]

\* f is FlattenSeq on the first n strings.
Joins(n, seqs, f) == f = [i \in 1 .. n |-> Step(seqs, f, i)]

LEMMA JoinsExist ==
  ASSUME NEW seqs, NEW n \in Nat
  PROVE  \E f : Joins(n, seqs, f)
<1> DEFINE bad == {m \in Nat : ~ \E f : Joins(m, seqs, f)}
<1> SUFFICES ASSUME bad # {} PROVE FALSE
  OBVIOUS
<1>1. PICK m \in bad : \A j \in bad : m <= j
  <2>1. bad \subseteq Nat
    OBVIOUS
  <2> HIDE DEF bad
  <2>2. QED
    BY <2>1, LeastExists
<1>2. CASE m = 0
  <2> DEFINE f == [i \in 1 .. m |-> <<>>]
  <2>1. 1 .. m = {}
    BY <1>2
  <2>2. f = [i \in 1 .. m |-> Step(seqs, f, i)]
    BY <2>1
  <2>3. Joins(m, seqs, f)
    BY <2>2 DEF Joins
  <2>4. QED
    BY <2>3
<1>3. CASE m > 0
  <2>1. m - 1 \in Nat /\ ~ (m <= m - 1)
    BY <1>3
  <2>2. PICK g : Joins(m - 1, seqs, g)
    BY <1>1, <2>1
  <2> DEFINE f == [i \in 1 .. m |-> Step(seqs, g, i)]
  <2>3. \A i \in 1 .. m - 1 : f[i] = g[i]
    <3>1. 1 .. m - 1 \subseteq 1 .. m
      BY <1>3
    <3>2. \A i \in 1 .. m - 1 : g[i] = Step(seqs, g, i)
      BY <2>2 DEF Joins
    <3>3. QED
      BY <3>1, <3>2
  <2>4. \A i \in 1 .. m : f[i] = Step(seqs, f, i)
    <3> TAKE i \in 1 .. m
    <3>1. f[i] = Step(seqs, g, i)
      OBVIOUS
    <3>2. i # 1 => i - 1 \in 1 .. m - 1
      BY <1>3
    <3>3. i # 1 => f[i - 1] = g[i - 1]
      BY <2>3, <3>2
    <3> HIDE DEF f
    <3>4. QED
      BY <3>1, <3>3 DEF Step
  <2>5. f = [i \in 1 .. m |-> f[i]]
    OBVIOUS
  <2>6. Joins(m, seqs, f)
    <3> HIDE DEF f
    <3>1. QED
      BY <2>4, <2>5 DEF Joins
  <2>7. QED
    BY <2>6
<1>4. QED
  BY <1>2, <1>3

\* The joined lines of the first k documents.
Lines(docs) == [i \in DOMAIN docs |-> DocLine(docs, i)]

Joined(docs) == CHOOSE f : Joins(Len(docs), Lines(docs), f)

LinesTo(docs, k) == IF k = 0 THEN <<>> ELSE Joined(docs)[k]

LEMMA LinesJoined ==
  ASSUME NEW docs, Len(docs) \in Nat, DOMAIN docs = 1 .. Len(docs),
         \A i \in 1 .. Len(docs) : DocLine(docs, i) \in Seq(Byte)
  PROVE  /\ LinesTo(docs, 0) = <<>>
         /\ \A k \in 0 .. Len(docs) : LinesTo(docs, k) \in Seq(Byte)
         /\ \A k \in 1 .. Len(docs) :
              LinesTo(docs, k) = LinesTo(docs, k - 1) \o DocLine(docs, k)
         /\ FlattenSeq(Lines(docs)) = LinesTo(docs, Len(docs))
<1> DEFINE n == Len(docs)
<1>1. Joins(n, Lines(docs), Joined(docs))
  BY JoinsExist DEF Joined
<1>2. \A i \in 1 .. n :
        Joined(docs)[i] = IF i = 1 THEN DocLine(docs, i)
                          ELSE Joined(docs)[i - 1] \o DocLine(docs, i)
  BY <1>1 DEF Joins, Step, Lines
<1>3. LinesTo(docs, 0) = <<>> /\ <<>> \in Seq(Byte)
  BY EmptySeq DEF LinesTo
<1>4. \A k \in 1 .. n :
        LinesTo(docs, k) = LinesTo(docs, k - 1) \o DocLine(docs, k)
  <2> TAKE k \in 1 .. n
  <2>1. CASE k = 1
    <3>1. LinesTo(docs, k) = DocLine(docs, k)
      BY <1>2, <2>1 DEF LinesTo
    <3>2. <<>> \o DocLine(docs, k) = DocLine(docs, k)
      BY ConcatEmptySeq
    <3>3. QED
      BY <1>3, <2>1, <3>1, <3>2
  <2>2. CASE k # 1
    <3>1. k # 0 /\ k - 1 # 0
      BY <2>2
    <3>2. Joined(docs)[k] = Joined(docs)[k - 1] \o DocLine(docs, k)
      BY <1>2, <2>2
    <3>3. QED
      BY <3>1, <3>2, Zenon DEF LinesTo
  <2>3. QED
    BY <2>1, <2>2
<1>5. \A k \in 0 .. n : LinesTo(docs, k) \in Seq(Byte)
  <2> DEFINE bad == {k \in 0 .. n : LinesTo(docs, k) \notin Seq(Byte)}
  <2> SUFFICES ASSUME bad # {} PROVE FALSE
    OBVIOUS
  <2>1. PICK k \in bad : \A j \in bad : k <= j
    <3>1. bad \subseteq Nat
      OBVIOUS
    <3> HIDE DEF bad
    <3>2. QED
      BY <3>1, LeastExists
  <2>2. k # 0 /\ k \in 1 .. n
    <3>1. k \in 0 .. n /\ LinesTo(docs, k) \notin Seq(Byte)
      OBVIOUS
    <3>2. k # 0
      BY <1>3, <3>1
    <3>3. QED
      BY <3>1, <3>2
  <2>3. k - 1 \in 0 .. n /\ ~ (k <= k - 1)
    BY <2>2
  <2>4. LinesTo(docs, k - 1) \in Seq(Byte)
    BY <2>1, <2>3
  <2>5. LinesTo(docs, k) \in Seq(Byte)
    BY <1>4, <2>2, <2>4, ConcatProperties
  <2>6. QED
    BY <2>5
<1>6. FlattenSeq(Lines(docs)) = LinesTo(docs, n)
  <2>1. Lines(docs) \in Seq(Seq(Byte)) /\ Len(Lines(docs)) = n
    BY DEF Lines
  <2>2. CASE n = 0
    <3>1. Lines(docs) = <<>>
      BY <2>1, <2>2, EmptySeq
    <3>2. QED
      BY <2>1, <2>2, <3>1 DEF FlattenSeq, LinesTo
  <2>3. CASE n # 0
    <3>1. FlattenSeq(Lines(docs)) = Joined(docs)[n]
      BY <2>1, <2>3 DEF FlattenSeq, Joined, Joins, Step
    <3>2. QED
      BY <2>3, <3>1 DEF LinesTo
  <2>4. QED
    BY <2>2, <2>3
<1>7. QED
  BY <1>3, <1>4, <1>5, <1>6

\* What was joined first is the front of what is joined later.
LEMMA LinesGrow ==
  ASSUME NEW docs, Len(docs) \in Nat, DOMAIN docs = 1 .. Len(docs),
         \A i \in 1 .. Len(docs) : DocLine(docs, i) \in Seq(Byte),
         NEW k \in 0 .. Len(docs)
  PROVE  \A m \in k .. Len(docs) :
           \E rest \in Seq(Byte) : LinesTo(docs, m) = LinesTo(docs, k) \o rest
<1> DEFINE n == Len(docs)
           Begins(m) == \E rest \in Seq(Byte) :
                         LinesTo(docs, m) = LinesTo(docs, k) \o rest
           bad == {m \in k .. n : ~Begins(m)}
<1> SUFFICES ASSUME bad # {} PROVE FALSE
  OBVIOUS
<1>1. PICK m \in bad : \A j \in bad : m <= j
  <2>1. bad \subseteq Nat
    OBVIOUS
  <2> HIDE DEF bad
  <2>2. QED
    BY <2>1, LeastExists
<1>2. m \in k .. n /\ ~Begins(m)
  BY <1>1
<1>3. LinesTo(docs, k) \in Seq(Byte)
  BY LinesJoined
<1>4. m # k
  <2>1. LinesTo(docs, k) = LinesTo(docs, k) \o <<>> /\ <<>> \in Seq(Byte)
    BY <1>3, ConcatEmptySeq, EmptySeq
  <2>2. Begins(k)
    BY <2>1
  <2>3. QED
    BY <1>2, <2>2
<1>5. /\ m - 1 \in k .. n /\ ~ (m <= m - 1) /\ m \in 1 .. n
  BY <1>2, <1>4
<1>6. Begins(m - 1)
  BY <1>1, <1>5
<1> HIDE DEF bad
<1>7. PICK rest \in Seq(Byte) : LinesTo(docs, m - 1) = LinesTo(docs, k) \o rest
  BY <1>6
<1>8. DocLine(docs, m) \in Seq(Byte)
  BY <1>5
<1>9. /\ rest \o DocLine(docs, m) \in Seq(Byte)
      /\ (LinesTo(docs, k) \o rest) \o DocLine(docs, m)
           = LinesTo(docs, k) \o (rest \o DocLine(docs, m))
  BY <1>3, <1>8, ConcatProperties, ConcatAssociative
<1>10. LinesTo(docs, m) = LinesTo(docs, m - 1) \o DocLine(docs, m)
  BY <1>5, LinesJoined
<1>11. Begins(m)
  BY <1>7, <1>9, <1>10
<1>12. QED
  BY <1>2, <1>11

\* A writer keeps its limit.
LEMMA LimitKept ==
  ASSUME NEW writer, NEW c \in Seq(Byte), Shows(writer, c), NEW s \in Text
  PROVE  (writer ++ s).limit = writer.limit
<1>1. /\ writer.limit \in Nat \ {0} /\ writer.buf \in Seq(Byte)
      /\ writer = [limit |-> writer.limit, buf |-> writer.buf,
                   truncated |-> writer.truncated]
      /\ Len(writer.buf) \in Nat /\ Len(s) \in Nat
  BY LenProperties DEF Shows, WriterType, Text
<1>2. CASE s = <<>> \/ writer.truncated
  BY <1>2, WriteIgnores
<1>3. CASE s # <<>> /\ ~writer.truncated
  <2>1. CASE Len(s) <= writer.limit - Len(writer.buf)
    <3>1. writer ++ s = [writer EXCEPT !.buf = @ \o s]
      BY <1>1, <1>3, <2>1, WriteFits
    <3>2. QED
      BY <1>1, <3>1
  <2>2. CASE Len(s) > writer.limit - Len(writer.buf)
    <3> DEFINE kept == PrefixByBytes(s, writer.limit - Len(writer.buf)
                                          - Len(Marker))
    <3>1. writer ++ s = MarkTruncated([writer EXCEPT !.buf = @ \o kept])
      BY <1>1, <1>3, <2>2, WriteCuts
    <3> HIDE DEF kept
    <3>2. QED
      BY <1>1, <3>1 DEF MarkTruncated
  <2>3. QED
    BY <1>1, <2>1, <2>2
<1>4. QED
  BY <1>2, <1>3

LEMMA TextIsCapped ==
  ASSUME NEW s \in Text
  PROVE  TruncateText(s, DocLimit) = Capped(s, DocLimit)
<1>1. DocLimit \in Nat \ {0} /\ s \in Seq(Byte) /\ <<>> \in Seq(Byte)
  BY PromptAssumption, EmptySeq DEF Text
<1>2. Shows(Writer(DocLimit), <<>>) /\ Writer(DocLimit).limit = DocLimit
  BY <1>1, FreshWriterShows DEF Writer
<1>3. Shows(Writer(DocLimit) ++ s, <<>> \o s)
  BY <1>1, <1>2, WriteShows
<1>4. (Writer(DocLimit) ++ s).limit = DocLimit
  BY <1>1, <1>2, LimitKept
<1>5. <<>> \o s = s
  BY <1>1, ConcatEmptySeq
<1>6. QED
  BY <1>3, <1>4, <1>5 DEF Shows, TruncateText

\* Pieces put together first or last.
Associates(s1, s2, s3) == (s1 \o s2) \o s3 = s1 \o (s2 \o s3)

LEMMA Associated ==
  \A s1, s2, s3 \in Seq(Byte) : Associates(s1, s2, s3)
BY ConcatAssociative DEF Associates

LEMMA InSeq ==
  \A s1, s2 \in Seq(Byte) : s1 \o s2 \in Seq(Byte)
BY ConcatProperties

Regroups(c, s1, s2, s3) ==
  /\ s1 \o s2 \o s3 \in Seq(Byte)
  /\ c \o s1 \o s2 \o s3 = c \o (s1 \o s2 \o s3)

LEMMA Regrouped ==
  \A c, s1, s2, s3 \in Seq(Byte) : Regroups(c, s1, s2, s3)
<1> TAKE c, s1, s2, s3 \in Seq(Byte)
<1> DEFINE p == s1 \o s2
<1>1. p \in Seq(Byte)
  BY InSeq
<1>2. (c \o s1) \o s2 = c \o p
  BY Associated DEF Associates
<1> HIDE DEF p
<1>3. p \o s3 \in Seq(Byte)
  BY <1>1, InSeq, Zenon
<1>4. Associates(c, p, s3)
  BY <1>1, Associated, Zenon
<1>5. QED
  BY <1>2, <1>3, <1>4 DEF p, Regroups, Associates

\* The line of a document.
LEMMA DocLineShape ==
  ASSUME NEW docs, NEW i \in 1 .. MaxDocs,
         docs[i].id \in Text, docs[i].text \in Text
  PROVE  /\ DocLine(docs, i) \in Seq(Byte)
         /\ docs[i].text # <<>> => DocLine(docs, i) # <<>>
         /\ docs[i].text # <<>> => \A c \in Seq(Byte) :
              c \o DocBegin \o Label(docs, i) \o DocMiddle
                \o Capped(docs[i].text, DocLimit) \o DocEnd
              = c \o DocLine(docs, i)
<1> DEFINE label == Label(docs, i)
           text  == Capped(docs[i].text, DocLimit)
           head  == DocBegin \o label \o DocMiddle
<1>1. label \in Text
  BY FixedTexts DEF Label
<1>2. /\ label \in Seq(Byte) /\ text \in Seq(Byte)
      /\ DocBegin \in Seq(Byte) /\ DocMiddle \in Seq(Byte)
      /\ DocEnd \in Seq(Byte) /\ <<>> \in Seq(Byte)
  BY <1>1, FixedTexts, CappedType, PromptAssumption, EmptySeq DEF Text
<1>3. /\ DocBegin # <<>>
  BY DEF DocBegin
<1> HIDE DEF label, text
<1>4. head \in Seq(Byte) /\ head # <<>>
  <2>1. DocBegin \o label \in Seq(Byte) /\ DocBegin \o label # <<>>
    BY <1>2, <1>3, ConcatProperties, ConcatEqualIffEmpty
  <2>2. QED
    BY <1>2, <2>1, ConcatProperties, ConcatEqualIffEmpty
<1>5. head \o text \o DocEnd \in Seq(Byte) /\ head \o text \o DocEnd # <<>>
  <2> HIDE DEF head
  <2>1. head \o text \in Seq(Byte) /\ head \o text # <<>>
    BY <1>2, <1>4, ConcatProperties, ConcatEqualIffEmpty
  <2>2. QED
    BY <1>2, <2>1, ConcatProperties, ConcatEqualIffEmpty
<1>6. docs[i].text # <<>> => DocLine(docs, i) = head \o text \o DocEnd
  BY DEF DocLine, label, text
<1>7. ASSUME NEW c \in Seq(Byte)
      PROVE  c \o DocBegin \o label \o DocMiddle \o text \o DocEnd
               = c \o (head \o text \o DocEnd)
  <2>1. c \o DocBegin \o label \o DocMiddle = c \o head
    <3>1. /\ c \in Seq(Byte) /\ DocBegin \in Seq(Byte)
          /\ label \in Seq(Byte) /\ DocMiddle \in Seq(Byte)
      BY <1>2, <1>7
    <3>2. Regroups(c, DocBegin, label, DocMiddle)
      BY <3>1, Regrouped, Zenon
    <3>3. QED
      BY <3>2 DEF Regroups
  <2> HIDE DEF head
  <2>2. (c \o head) \o text \o DocEnd = c \o (head \o text \o DocEnd)
    <3>1. /\ c \in Seq(Byte) /\ head \in Seq(Byte)
          /\ text \in Seq(Byte) /\ DocEnd \in Seq(Byte)
      BY <1>2, <1>4, <1>7
    <3>2. Regroups(c, head, text, DocEnd)
      BY <3>1, Regrouped, Zenon
    <3>3. QED
      BY <3>2 DEF Regroups
  <2>3. QED
    BY <2>1, <2>2
<1>8. docs[i].text = <<>> => DocLine(docs, i) = <<>>
  BY DEF DocLine
<1> HIDE DEF head
<1>9. QED
  BY <1>2, <1>5, <1>6, <1>7, <1>8, Zenon DEF label, text

-----------------------------------------------------------------------------
(* The whole prompt *)

\* The whole prompt, as far as each section.
Asked == LeadLine \o DataBegin("question") \o input.question \o DataEnd

Answered == Asked \o DataBegin("answer") \o input.answer \o DataEnd

Expecting == Answered \o Section("expected", input.expected)

Opening == Expecting \o Section("instructions", input.instructions)
                     \o DataBegin("docs")

\* What was written is the whole prompt up to where the writing is; none of
\* the documents before that has a line exactly when none was counted.
SoFar ==
  /\ pc = "question"     => content = <<>>
  /\ pc = "answer"       => content = Asked
  /\ pc = "expected"     => content = Answered
  /\ pc = "instructions" => content = Expecting
  /\ pc = "docs"         => content = Opening \o LinesTo(input.docs, at - 1)
  /\ pc \notin {"docs", "done"} => at = 1
  /\ at - 1 \in 0 .. Len(input.docs)
  /\ written \in Nat
  /\ written = 0 <=> LinesTo(input.docs, at - 1) = <<>>

WholeInv == PromptInv /\ SoFar /\ PromptIsWhole

\* The documents of an input have lines.
LEMMA DocsShape ==
  ASSUME input \in Inputs
  PROVE  /\ Len(input.docs) \in Nat
         /\ DOMAIN input.docs = 1 .. Len(input.docs)
         /\ \A i \in 1 .. Len(input.docs) :
              /\ i \in 1 .. MaxDocs
              /\ input.docs[i].id \in Text /\ input.docs[i].text \in Text
              /\ DocLine(input.docs, i) \in Seq(Byte)
<1>1. input \in [question : Text, answer : Text, expected : Text,
                 instructions : Text, docs : Seq([id : Text, text : Text])]
  BY PromptAssumption
<1>2. input.docs \in Seq([id : Text, text : Text])
  BY <1>1
<1>3. \A i \in 1 .. Len(input.docs) :
        /\ i \in 1 .. MaxDocs
        /\ input.docs[i].id \in Text /\ input.docs[i].text \in Text
  BY InputShape DEF MaxDocs
<1>4. \A i \in 1 .. Len(input.docs) : DocLine(input.docs, i) \in Seq(Byte)
  BY <1>3, DocLineShape
<1>5. QED
  BY <1>2, <1>3, <1>4

LEMMA LinesOfInput ==
  ASSUME input \in Inputs
  PROVE  /\ LinesTo(input.docs, 0) = <<>>
         /\ \A k \in 0 .. Len(input.docs) :
              LinesTo(input.docs, k) \in Seq(Byte)
         /\ \A k \in 1 .. Len(input.docs) :
              LinesTo(input.docs, k)
                = LinesTo(input.docs, k - 1) \o DocLine(input.docs, k)
         /\ FlattenSeq(Lines(input.docs))
              = LinesTo(input.docs, Len(input.docs))
BY DocsShape, LinesJoined

LEMMA SectionType ==
  ASSUME NEW text \in Text,
         NEW name \in {"expected", "instructions"}
  PROVE  Section(name, text) \in Seq(Byte)
<1>1. /\ DataBegin(name) \in Seq(Byte) /\ DataEnd \in Seq(Byte)
      /\ text \in Seq(Byte) /\ <<>> \in Seq(Byte)
  BY FixedTexts, EmptySeq DEF Text
<1>2. DataBegin(name) \o text \in Seq(Byte)
  BY <1>1, InSeq, Zenon
<1>3. DataBegin(name) \o text \o DataEnd \in Seq(Byte)
  BY <1>1, <1>2, InSeq, Zenon
<1>4. QED
  BY <1>1, <1>3 DEF Section

LEMMA OpeningType ==
  ASSUME input \in Inputs
  PROVE  /\ Answered \in Seq(Byte) /\ Expecting \in Seq(Byte)
         /\ Opening \in Seq(Byte)
<1>1. /\ input.question \in Seq(Byte) /\ input.answer \in Seq(Byte)
      /\ LeadLine \in Seq(Byte) /\ DataEnd \in Seq(Byte)
      /\ DataBegin("question") \in Seq(Byte)
      /\ DataBegin("answer") \in Seq(Byte)
      /\ DataBegin("docs") \in Seq(Byte)
  BY InputShape, FixedTexts DEF Text
<1>2. /\ Section("expected", input.expected) \in Seq(Byte)
      /\ Section("instructions", input.instructions) \in Seq(Byte)
  BY InputShape, SectionType
<1>3. Asked \in Seq(Byte)
  <2>1. LeadLine \o DataBegin("question") \in Seq(Byte)
    BY <1>1, InSeq
  <2>2. LeadLine \o DataBegin("question") \o input.question \in Seq(Byte)
    BY <1>1, <2>1, InSeq
  <2>3. QED
    BY <1>1, <2>2, InSeq DEF Asked
<1>4. Answered \in Seq(Byte)
  <2>1. Asked \o DataBegin("answer") \in Seq(Byte)
    BY <1>1, <1>3, InSeq
  <2>2. Asked \o DataBegin("answer") \o input.answer \in Seq(Byte)
    BY <1>1, <2>1, InSeq
  <2>3. QED
    BY <1>1, <2>2, InSeq DEF Answered
<1>5. Expecting \in Seq(Byte)
  BY <1>2, <1>4, InSeq DEF Expecting
<1>6. Opening \in Seq(Byte)
  <2>1. Expecting \o Section("instructions", input.instructions) \in Seq(Byte)
    BY <1>2, <1>5, InSeq
  <2>2. QED
    BY <1>1, <2>1, InSeq DEF Opening
<1>7. QED
  BY <1>4, <1>5, <1>6

LEMMA WholeIs ==
  WholePrompt = Opening \o (IF FlattenSeq(Lines(input.docs)) = <<>>
                            THEN NoDocs
                            ELSE FlattenSeq(Lines(input.docs)))
                        \o DataEnd
BY Zenon DEF WholePrompt, Opening, Expecting, Answered, Asked, Lines

\* While the documents are written, what is there is the front of the whole.
LEMMA FrontOfWhole ==
  ASSUME input \in Inputs, NEW k \in 0 .. Len(input.docs)
  PROVE  \E rest \in Seq(Byte) :
           WholePrompt = (Opening \o LinesTo(input.docs, k)) \o rest
<1> DEFINE done  == LinesTo(input.docs, k)
           lines == LinesTo(input.docs, Len(input.docs))
<1>1. /\ Opening \in Seq(Byte) /\ done \in Seq(Byte) /\ lines \in Seq(Byte)
      /\ DataEnd \in Seq(Byte) /\ NoDocs \in Seq(Byte)
      /\ Len(input.docs) \in Nat
  <2>1. Len(input.docs) \in Nat /\ Len(input.docs) \in 0 .. Len(input.docs)
    BY DocsShape
  <2>2. done \in Seq(Byte) /\ lines \in Seq(Byte)
    BY <2>1, LinesOfInput
  <2> HIDE DEF done, lines
  <2>3. QED
    BY <2>1, <2>2, OpeningType, FixedTexts DEF Text
<1>2. PICK more \in Seq(Byte) : lines = done \o more
  <2>1. Len(input.docs) \in k .. Len(input.docs)
    BY <1>1
  <2>2. QED
    BY <2>1, DocsShape, LinesGrow
<1>3. WholePrompt = Opening \o (IF lines = <<>> THEN NoDocs ELSE lines)
                            \o DataEnd
  BY WholeIs, LinesOfInput
<1> HIDE DEF done, lines
<1>4. CASE lines = <<>>
  <2>1. done = <<>>
    <3>1. done \o more = <<>>
      BY <1>2, <1>4
    <3>2. QED
      BY <1>1, <3>1, ConcatEqualIffEmpty
  <2>2. Opening \o done = Opening
    BY <1>1, <2>1, ConcatEmptySeq
  <2>3. WholePrompt = Opening \o NoDocs \o DataEnd
    BY <1>3, <1>4
  <2>4. NoDocs \o DataEnd \in Seq(Byte)
    BY <1>1, InSeq
  <2>5. Associates(Opening, NoDocs, DataEnd)
    BY <1>1, Associated, Zenon
  <2>6. WholePrompt = (Opening \o done) \o (NoDocs \o DataEnd)
    BY <2>2, <2>3, <2>5 DEF Associates
  <2>7. QED
    BY <2>4, <2>6 DEF done
<1>5. CASE lines # <<>>
  <2>1. WholePrompt = Opening \o (done \o more) \o DataEnd
    BY <1>2, <1>3, <1>5
  <2>2. Associates(Opening, done, more)
    BY <1>1, <1>2, Associated, Zenon
  <2>3. Opening \o done \in Seq(Byte) /\ more \o DataEnd \in Seq(Byte)
    BY <1>1, InSeq
  <2>4. Associates(Opening \o done, more, DataEnd)
    BY <1>1, <1>2, <2>3, Associated, Zenon
  <2>5. WholePrompt = (Opening \o done) \o (more \o DataEnd)
    BY <2>1, <2>2, <2>4 DEF Associates
  <2>6. QED
    BY <2>3, <2>5 DEF done
<1>6. QED
  BY <1>4, <1>5

THEOREM InitWholeInv == Init => WholeInv
<1> SUFFICES ASSUME Init PROVE WholeInv
  OBVIOUS
<1>1. PromptInv
  BY InitPromptInv
<1>2. /\ input \in Inputs /\ pc = "question" /\ at = 1 /\ written = 0
      /\ content = <<>>
  BY DEF Init
<1>3. LinesTo(input.docs, at - 1) = <<>> /\ at - 1 \in 0 .. Len(input.docs)
  BY <1>2, DocsShape, LinesOfInput
<1>4. QED
  BY <1>1, <1>2, <1>3 DEF WholeInv, SoFar, PromptIsWhole

\* A section is written as the whole prompt has it.
LEMMA SectionWritten ==
  ASSUME NEW text \in Text, text # <<>>,
         NEW name \in {"expected", "instructions"}, NEW c \in Seq(Byte)
  PROVE  c \o DataBegin(name) \o text \o DataEnd = c \o Section(name, text)
<1>1. /\ DataBegin(name) \in Seq(Byte) /\ text \in Seq(Byte)
      /\ DataEnd \in Seq(Byte)
  BY FixedTexts DEF Text
<1>2. Regroups(c, DataBegin(name), text, DataEnd)
  BY <1>1, Regrouped, Zenon
<1>3. QED
  BY <1>2 DEF Regroups, Section

LEMMA SectionLeftOut ==
  ASSUME NEW name, NEW c \in Seq(Byte)
  PROVE  c \o Section(name, <<>>) = c
BY ConcatEmptySeq DEF Section

\* The documents up to the next one.
LEMMA NextLine ==
  ASSUME input \in Inputs, NEW i \in 1 .. Len(input.docs)
  PROVE  /\ Opening \o LinesTo(input.docs, i)
              = (Opening \o LinesTo(input.docs, i - 1))
                  \o DocLine(input.docs, i)
         /\ LinesTo(input.docs, i) = <<>> <=>
              /\ LinesTo(input.docs, i - 1) = <<>>
              /\ DocLine(input.docs, i) = <<>>
<1> DEFINE done == LinesTo(input.docs, i - 1)
           line == DocLine(input.docs, i)
<1>1. /\ i - 1 \in 0 .. Len(input.docs)
      /\ LinesTo(input.docs, i) = done \o line
  BY DocsShape, LinesOfInput
<1>2. Opening \in Seq(Byte) /\ done \in Seq(Byte) /\ line \in Seq(Byte)
  BY <1>1, OpeningType, DocsShape, LinesOfInput
<1> HIDE DEF done, line
<1>3. Associates(Opening, done, line)
  BY <1>2, Associated, Zenon
<1>4. done \o line = <<>> <=> done = <<>> /\ line = <<>>
  BY <1>2, ConcatEqualIffEmpty
<1>5. QED
  BY <1>1, <1>3, <1>4 DEF done, line, Associates

THEOREM StepWholeInv == WholeInv /\ [Next]_vars => WholeInv'
<1> SUFFICES ASSUME WholeInv, [Next]_vars PROVE WholeInv'
  OBVIOUS
<1>1. PromptInv'
  BY StepPromptInv DEF WholeInv
<1>2. /\ input \in Inputs /\ at \in Nat \ {0}
      /\ content \in Seq(Byte) /\ Shows(w, content)
  BY DEF WholeInv, PromptInv
<1>3. /\ input.question \in Text /\ input.answer \in Text
      /\ input.expected \in Text /\ input.instructions \in Text
  BY <1>2, InputShape
<1>4. input' = input /\ Opening' = Opening /\ Answered' = Answered
      /\ Expecting' = Expecting /\ Asked' = Asked
      /\ WholePrompt' = WholePrompt
  <2>1. input' = input
    BY DEF Next, vars, WriteQuestion, WriteAnswer, WriteExpected,
           WriteInstructions, SkipDoc, WriteDoc, CloseDocs
  <2>2. Asked' = Asked
    BY <2>1 DEF Asked
  <2>3. Answered' = Answered
    BY <2>1, <2>2 DEF Answered
  <2>4. Expecting' = Expecting
    BY <2>1, <2>3 DEF Expecting
  <2>5. Opening' = Opening
    BY <2>1, <2>4 DEF Opening
  <2>6. WholePrompt' = WholePrompt
    BY <2>1 DEF WholePrompt
  <2>7. QED
    BY <2>1, <2>2, <2>3, <2>4, <2>5, <2>6
<1>5. SUFFICES (SoFar /\ PromptIsWhole)'
  BY <1>1 DEF WholeInv
<1>6. /\ Answered \in Seq(Byte) /\ Expecting \in Seq(Byte)
      /\ Opening \in Seq(Byte)
  BY <1>2, OpeningType
<1>7. /\ Len(input.docs) \in Nat
      /\ LinesTo(input.docs, 0) = <<>>
      /\ at - 1 \in 0 .. Len(input.docs) /\ written \in Nat
      /\ written = 0 <=> LinesTo(input.docs, at - 1) = <<>>
  BY <1>2, DocsShape, LinesOfInput DEF WholeInv, SoFar
<1>8. CASE WriteQuestion
  <2>1. content' = <<>> \o LeadLine \o DataBegin("question")
                        \o input.question \o DataEnd
    BY <1>8 DEF WriteQuestion, WholeInv, SoFar
  <2>2. <<>> \o LeadLine = LeadLine
    BY FixedTexts, ConcatEmptySeq DEF Text
  <2>3. content' = Asked
    BY <2>1, <2>2 DEF Asked
  <2>4. pc' = "answer" /\ at' = at /\ written' = written /\ at = 1
    BY <1>8 DEF WriteQuestion, WholeInv, SoFar
  <2>5. QED
    BY <1>4, <1>7, <2>3, <2>4 DEF SoFar, PromptIsWhole
<1>9. CASE WriteAnswer
  <2>1. content' = Answered
    BY <1>9 DEF WriteAnswer, WholeInv, SoFar, Answered
  <2>2. pc' = "expected" /\ at' = at /\ written' = written /\ at = 1
    BY <1>9 DEF WriteAnswer, WholeInv, SoFar
  <2>3. QED
    BY <1>4, <1>7, <2>1, <2>2 DEF SoFar, PromptIsWhole
<1>10. CASE WriteExpected
  <2>1. content = Answered
    BY <1>10 DEF WriteExpected, WholeInv, SoFar
  <2>2. content' = Expecting
    <3>1. CASE input.expected = <<>>
      <4>1. content' = content
        BY <1>10, <3>1 DEF WriteExpected
      <4>2. content \o Section("expected", <<>>) = content
        BY <1>2, SectionLeftOut
      <4>3. QED
        BY <2>1, <3>1, <4>1, <4>2 DEF Expecting
    <3>2. CASE input.expected # <<>>
      <4>1. content' = content \o DataBegin("expected")
                               \o input.expected \o DataEnd
        BY <1>10, <3>2 DEF WriteExpected
      <4>2. content' = content \o Section("expected", input.expected)
        BY <1>2, <1>3, <3>2, <4>1, SectionWritten
      <4>3. QED
        BY <2>1, <4>2 DEF Expecting
    <3>3. QED
      BY <3>1, <3>2
  <2>3. pc' = "instructions" /\ at' = at /\ written' = written /\ at = 1
    BY <1>10 DEF WriteExpected, WholeInv, SoFar
  <2>4. QED
    BY <1>4, <1>7, <2>2, <2>3 DEF SoFar, PromptIsWhole
<1>11. CASE WriteInstructions
  <2>1. content = Expecting /\ at = 1
    BY <1>11 DEF WriteInstructions, WholeInv, SoFar
  <2>2. content' = Opening
    <3>1. CASE input.instructions = <<>>
      <4>1. content' = content \o DataBegin("docs")
        BY <1>11, <3>1 DEF WriteInstructions
      <4>2. content \o Section("instructions", <<>>) = content
        BY <1>2, SectionLeftOut
      <4>3. QED
        BY <2>1, <3>1, <4>1, <4>2 DEF Opening
    <3>2. CASE input.instructions # <<>>
      <4>1. content' = (content \o DataBegin("instructions")
                                \o input.instructions \o DataEnd)
                         \o DataBegin("docs")
        BY <1>11, <3>2 DEF WriteInstructions
      <4>2. content \o DataBegin("instructions") \o input.instructions
                    \o DataEnd
              = content \o Section("instructions", input.instructions)
        BY <1>2, <1>3, <3>2, SectionWritten
      <4>3. QED
        BY <2>1, <4>1, <4>2 DEF Opening
    <3>3. QED
      BY <3>1, <3>2
  <2>3. Opening \o <<>> = Opening
    BY <1>6, ConcatEmptySeq
  <2>4. pc' = "docs" /\ at' = at /\ written' = written /\ at' - 1 = 0
    BY <1>11, <2>1 DEF WriteInstructions
  <2>5. content' = Opening \o LinesTo(input.docs, at' - 1)
    BY <1>7, <2>2, <2>3, <2>4
  <2>6. QED
    BY <1>4, <1>7, <2>4, <2>5 DEF SoFar, PromptIsWhole
<1>12. CASE SkipDoc
  <2>1. at \in 1 .. Len(input.docs) /\ at' - 1 = at
    BY <1>2, <1>7, <1>12 DEF SkipDoc
  <2>2. DocLine(input.docs, at) = <<>>
    BY <1>12 DEF SkipDoc, DocLine
  <2>3. content = Opening \o LinesTo(input.docs, at - 1)
    BY <1>12 DEF SkipDoc, WholeInv, SoFar
  <2>4. content \o <<>> = content
    BY <1>2, ConcatEmptySeq
  <2>5. /\ content = Opening \o LinesTo(input.docs, at)
        /\ LinesTo(input.docs, at) = <<>> <=>
             LinesTo(input.docs, at - 1) = <<>>
    BY <1>2, <2>1, <2>2, <2>3, <2>4, NextLine
  <2>6. pc' = "docs" /\ content' = content /\ written' = written
    BY <1>12 DEF SkipDoc
  <2>7. QED
    BY <1>4, <1>7, <2>1, <2>5, <2>6 DEF SoFar, PromptIsWhole
<1>13. CASE WriteDoc
  <2> DEFINE text  == input.docs[at].text
             label == Label(input.docs, at)
  <2>1. at \in 1 .. Len(input.docs) /\ at' - 1 = at /\ text # <<>>
    BY <1>2, <1>7, <1>13 DEF WriteDoc
  <2>2. at \in 1 .. MaxDocs /\ text \in Text /\ input.docs[at].id \in Text
    BY <1>2, <2>1, DocsShape
  <2>3. /\ DocLine(input.docs, at) # <<>>
        /\ \A c \in Seq(Byte) :
             c \o DocBegin \o label \o DocMiddle
               \o Capped(text, DocLimit) \o DocEnd
             = c \o DocLine(input.docs, at)
    BY <2>1, <2>2, DocLineShape
  <2>4. TruncateText(text, DocLimit) = Capped(text, DocLimit)
    BY <2>2, TextIsCapped
  <2>5. content' = content \o DocBegin \o label \o DocMiddle
                           \o TruncateText(text, DocLimit) \o DocEnd
    BY <1>13 DEF WriteDoc
  <2>6. content = Opening \o LinesTo(input.docs, at - 1)
    BY <1>13 DEF WriteDoc, WholeInv, SoFar
  <2> HIDE DEF text, label
  <2>7. content' = content \o DocLine(input.docs, at)
    BY <1>2, <2>3, <2>4, <2>5
  <2>8. /\ content' = Opening \o LinesTo(input.docs, at)
        /\ LinesTo(input.docs, at) # <<>>
    BY <1>2, <2>1, <2>3, <2>6, <2>7, NextLine
  <2>9. pc' = "docs" /\ written' = written + 1
    BY <1>13 DEF WriteDoc
  <2>10. QED
    BY <1>4, <1>7, <2>1, <2>8, <2>9 DEF SoFar, PromptIsWhole
<1>14. CASE CloseDocs
  <2>1. content = Opening \o LinesTo(input.docs, at - 1)
    BY <1>14 DEF CloseDocs, WholeInv, SoFar
  <2>2. pc' = "done" /\ at' = at /\ written' = written
    BY <1>14 DEF CloseDocs
  <2>3. w'.buf = Capped(content', w'.limit)
    BY <1>1 DEF PromptInv, Shows
  <2>4. CASE w.truncated
    <3>1. PICK rest \in Seq(Byte) : WholePrompt = content \o rest
      BY <1>2, <1>7, <2>1, FrontOfWhole
    <3>2. Len(content) > w.limit /\ w.limit \in Nat
      BY <1>2, <2>4 DEF Shows, WriterType
    <3>3. Capped(WholePrompt, w.limit) = Capped(content, w.limit)
      BY <1>2, <3>1, <3>2, CappedOfLonger
    <3>4. w' = w
      <4>1. w ++ DataEnd = w /\ w ++ NoDocs = w
        BY <2>4, WriteIgnores
      <4>2. QED
        BY <1>14, <4>1 DEF CloseDocs
    <3>5. w'.buf = Capped(WholePrompt, w'.limit)
      BY <1>2, <3>3, <3>4 DEF Shows
    <3>6. QED
      BY <1>4, <1>7, <2>2, <3>5 DEF SoFar, PromptIsWhole
  <2>5. CASE ~ w.truncated
    <3> DEFINE lines == LinesTo(input.docs, at - 1)
    <3>1. at - 1 = Len(input.docs)
      BY <1>2, <1>7, <1>14, <2>5 DEF CloseDocs
    <3>2. WholePrompt = Opening \o (IF lines = <<>> THEN NoDocs ELSE lines)
                                \o DataEnd
      BY <1>2, <3>1, WholeIs, LinesOfInput
    <3>3. content' = WholePrompt
      <4>1. CASE written = 0
        <5>1. content = Opening \o <<>>
          BY <1>7, <2>1, <4>1
        <5>2. content = Opening
          BY <1>6, <5>1, ConcatEmptySeq
        <5>3. content' = Opening \o NoDocs \o DataEnd
          BY <1>14, <4>1, <5>2 DEF CloseDocs
        <5>4. QED
          BY <1>7, <3>2, <4>1, <5>3
      <4>2. CASE written # 0
        <5>1. content' = Opening \o lines \o DataEnd
          BY <1>14, <2>1, <4>2 DEF CloseDocs
        <5>2. QED
          BY <1>7, <3>2, <4>2, <5>1
      <4>3. QED
        BY <4>1, <4>2
    <3>4. w'.buf = Capped(WholePrompt, w'.limit)
      BY <2>3, <3>3
    <3>5. QED
      BY <1>4, <1>7, <2>2, <3>4 DEF SoFar, PromptIsWhole
  <2>6. QED
    BY <2>4, <2>5
<1>15. CASE UNCHANGED vars
  BY <1>4, <1>15 DEF vars, WholeInv, SoFar, PromptIsWhole
<1>16. QED
  BY <1>8, <1>9, <1>10, <1>11, <1>12, <1>13, <1>14, <1>15 DEF Next

(***************************************************************************)
(* However long the documents are and wherever the limits fall, and        *)
(* although the loop breaks off at a full writer and counts what it wrote, *)
(* the finished prompt is the front of the one that holds every section    *)
(* and every document, each under its own label.                           *)
(***************************************************************************)
THEOREM PromptsAreWhole == Spec => []PromptIsWhole
<1>1. WholeInv => PromptIsWhole
  BY DEF WholeInv
<1>2. QED
  BY <1>1, InitWholeInv, StepWholeInv, PTL DEF Spec
=============================================================================
