-------------------------- MODULE JudgePathProofs ---------------------------
(***************************************************************************)
(* What Classify returns, for errors of any size made of any links; and    *)
(* what an evaluation reports and where its requests go, for judges of any *)
(* configurations and replies of any number of parts.                      *)
(***************************************************************************)
EXTENDS JudgePath, FailureWalk, SequenceTheorems, NaturalsInduction,
        WellFoundedInduction, TLAPS

-----------------------------------------------------------------------------
(* Classify link by link *)

\* Kinds stay kinds: of links, of status codes, of merged infos.
LEMMA StatusKind ==
  ASSUME NEW s \in Nat
  PROVE  /\ KindFromStatusCode(s) \in Kind
         /\ KindFromStatusCode(s) \notin ContextKind
BY DEF KindFromStatusCode, Kind, ContextKind

LEMMA LinkKindType ==
  ASSUME NEW link \in Links
  PROVE  /\ link \in LinkType
         /\ LinkKind(link) \in Kind
         /\ LinkKind(link) \in ContextKind => link.kind = LinkKind(link)
<1>1. link \in LinkType
  BY WellFormedLinks DEF LinksAssumption
<1>2. link.kind \in Kind /\ link.status \in Nat
  BY <1>1 DEF LinkType
<1>3. QED
  BY <1>1, <1>2, StatusKind DEF LinkKind

LEMMA MergeType ==
  ASSUME NEW i \in InfoType, NEW link \in Links
  PROVE  Merge(i, link) \in InfoType
<1>1. LinkKind(link) \in Kind /\ link \in LinkType
  BY LinkKindType
<1>2. QED
  BY <1>1 DEF Merge, Prefer, InfoType, LinkType

\* What merging one more link does to the parts WalkInv speaks of.
LEMMA MergeParts ==
  ASSUME NEW i, NEW link
  PROVE  /\ Merge(i, link).kind = Prefer(i.kind, LinkKind(link))
         /\ Merge(i, link).retryable = (i.retryable \/ link.retryable)
         /\ Merge(i, link).status =
              IF i.status = 0 THEN link.status ELSE i.status
BY DEF Merge

\* An error is a sequence of links.
LEMMA ErrorShape ==
  ASSUME WalkTypeOK
  PROVE  /\ Len(chain) \in 1 .. MaxLinks
         /\ DOMAIN chain = 1 .. Len(chain)
         /\ \A i \in DOMAIN chain : chain[i] \in Links
         /\ MaxLinks \in Nat
<1>1. PICK n \in 1 .. MaxLinks : chain \in [1 .. n -> Links]
  BY DEF WalkTypeOK
<1>2. MaxLinks \in Nat
  BY WellFormedLinks DEF LinksAssumption
<1>3. chain \in Seq(Links) /\ Len(chain) = n
  BY <1>1, <1>2
<1>4. QED
  BY <1>1, <1>2, <1>3

THEOREM InitWalkTypeOK == WalkInit => WalkTypeOK
<1> SUFFICES ASSUME WalkInit PROVE WalkTypeOK
  OBVIOUS
<1>1. PICK n \in 1 .. MaxLinks : chain \in [1 .. n -> Links]
  BY DEF WalkInit
<1>2. MaxLinks \in Nat
  BY WellFormedLinks DEF LinksAssumption
<1>3. chain \in Seq(Links) /\ Len(chain) = n
  BY <1>1, <1>2
<1>4. found \in InfoType
  BY CodesAssumption DEF WalkInit, NoInfo, InfoType, Kind, Code, CodesAssumption
<1>5. at \in 1 .. Len(chain) + 1
  BY <1>2, <1>3 DEF WalkInit
<1>6. chain \in UNION {[1 .. m -> Links] : m \in 1 .. MaxLinks}
  BY <1>1
<1>7. QED
  BY <1>4, <1>5, <1>6 DEF WalkTypeOK, WalkInit

\* Every step keeps the types.
THEOREM StepWalkTypeOK == WalkTypeOK /\ [WalkNext]_walkVars => WalkTypeOK'
<1> SUFFICES ASSUME WalkTypeOK, [WalkNext]_walkVars PROVE WalkTypeOK'
  OBVIOUS
<1>0. chain' = chain /\ chain \in UNION {[1 .. n -> Links] : n \in 1 .. MaxLinks}
  BY DEF WalkTypeOK, WalkNext, walkVars, FindsCanceled, FindsDeadline, FindsNoContext,
         Visit, Finish
<1>1. CASE FindsCanceled
  BY <1>0, <1>1, CodesAssumption
     DEF WalkTypeOK, FindsCanceled, ContextInfo, NoInfo, InfoType, Kind, ContextKind,
         Code
<1>2. CASE FindsDeadline
  BY <1>0, <1>2, CodesAssumption
     DEF WalkTypeOK, FindsDeadline, ContextInfo, NoInfo, InfoType, Kind, ContextKind,
         Code
<1>3. CASE FindsNoContext
  BY <1>0, <1>3 DEF WalkTypeOK, FindsNoContext
<1>4. CASE Visit
  <2>1. at \in DOMAIN chain /\ chain[at] \in Links
    BY <1>4, ErrorShape DEF Visit, WalkTypeOK
  <2>2. found' \in InfoType
    BY <1>4, <2>1, MergeType DEF Visit, WalkTypeOK
  <2>3. at' \in 1 .. Len(chain) + 1
    BY <1>4, ErrorShape DEF Visit, WalkTypeOK
  <2>4. QED
    BY <1>0, <1>4, <2>2, <2>3 DEF Visit, WalkTypeOK
<1>5. CASE Finish
  <2>1. found \in InfoType /\ found.status \in Nat
    BY DEF WalkTypeOK, InfoType
  <2>2. KindFromStatusCode(found.status) \in Kind
    BY <2>1, StatusKind
  <2>3. found' \in InfoType
    BY <1>5, <2>1, <2>2 DEF Finish, KindOrStatus, InfoType
  <2>4. QED
    BY <1>0, <1>5, <2>3 DEF Finish, WalkTypeOK
<1>6. CASE UNCHANGED walkVars
  BY <1>6 DEF WalkTypeOK, walkVars
<1>7. QED
  BY <1>1, <1>2, <1>3, <1>4, <1>5, <1>6 DEF WalkNext

\* The variables stay in their types: Classify reads no link beyond the last.
THEOREM FailureTypeCorrect == WalkSpec => []WalkTypeOK
BY InitWalkTypeOK, StepWalkTypeOK, PTL DEF WalkSpec

-----------------------------------------------------------------------------
(* The walk *)

WalkSafe == WalkTypeOK /\ WalkInv /\ KindIsOutermost /\ ContextOutranks /\ RetryableKept

THEOREM InitWalkInv == WalkInit => WalkSafe
BY InitWalkTypeOK
   DEF WalkInit, WalkSafe, WalkInv, KindIsOutermost, ContextOutranks, RetryableKept

\* One more link visited.
LEMMA VisitKeepsWalkInv == WalkSafe /\ Visit => WalkInv'
<1> SUFFICES ASSUME WalkSafe, Visit PROVE WalkInv'
  OBVIOUS
<1> DEFINE link == chain[at]
<1>1. /\ at \in DOMAIN chain /\ link \in Links /\ at \in Nat
      /\ at' = at + 1 /\ chain' = chain /\ stage = "walk" /\ stage' = "walk"
      /\ DOMAIN chain = 1 .. Len(chain)
  BY ErrorShape DEF WalkSafe, WalkTypeOK, Visit
<1>2. 1 .. at' - 1 = (1 .. at - 1) \cup {at}
  BY <1>1
<1>3. /\ found'.kind = Prefer(found.kind, LinkKind(link))
      /\ found'.retryable = (found.retryable \/ link.retryable)
  BY MergeParts DEF Visit
<1>4. found.retryable <=> \E j \in 1 .. at - 1 : chain[j].retryable
  BY <1>1 DEF WalkSafe, WalkInv
<1>5. found'.retryable <=> \E j \in 1 .. at' - 1 : chain'[j].retryable
  BY <1>1, <1>2, <1>3, <1>4
<1>6. ~ContextEnded(chain')
  BY <1>1 DEF WalkSafe, WalkInv
<1>7. \/ /\ found'.kind = "unknown"
         /\ \A j \in 1 .. at' - 1 : ~Known(LinkKind(chain'[j]))
      \/ \E i \in 1 .. at' - 1 : Decides(i)' /\ found'.kind = LinkKind(chain'[i])
  <2>1. CASE \E i \in 1 .. at - 1 : Decides(i) /\ found.kind = LinkKind(chain[i])
    <3>1. PICK i \in 1 .. at - 1 : Decides(i) /\ found.kind = LinkKind(chain[i])
      BY <2>1
    <3>2. found'.kind = found.kind
      BY <1>3, <3>1 DEF Prefer, Decides
    <3>3. Decides(i)'
      BY <1>1, <3>1 DEF Decides
    <3>4. QED
      BY <1>1, <1>2, <3>1, <3>2, <3>3
  <2>2. CASE /\ found.kind = "unknown"
             /\ \A j \in 1 .. at - 1 : ~Known(LinkKind(chain[j]))
    <3>1. CASE Known(LinkKind(link))
      <4>0. PICK i \in 1 .. at' - 1 : i = at
        BY <1>2
      <4>1. Decides(i)'
        BY <1>1, <2>2, <3>1, <4>0 DEF Decides
      <4>2. found'.kind = LinkKind(chain'[i])
        BY <1>1, <1>3, <2>2, <3>1, <4>0 DEF Prefer, Known
      <4>3. QED
        BY <4>1, <4>2
    <3>2. CASE ~Known(LinkKind(link))
      <4>1. found'.kind = "unknown"
        BY <1>3, <2>2, <3>2 DEF Prefer
      <4>2. QED
        BY <1>1, <1>2, <2>2, <3>2, <4>1
    <3>3. QED
      BY <3>1, <3>2
  <2>3. QED
    BY <1>1, <2>1, <2>2 DEF WalkSafe, WalkInv
<1>8. QED
  BY <1>1, <1>5, <1>6, <1>7 DEF WalkInv

\* The walk has visited every link.
LEMMA FinishDecides ==
  WalkSafe /\ Finish => (KindIsOutermost /\ ContextOutranks /\ RetryableKept)'
<1> SUFFICES ASSUME WalkSafe, Finish
             PROVE  (KindIsOutermost /\ ContextOutranks /\ RetryableKept)'
  OBVIOUS
<1>1. /\ DOMAIN chain = 1 .. Len(chain) /\ Len(chain) \in Nat
      /\ at = Len(chain) + 1 /\ chain' = chain /\ stage = "walk" /\ stage' = "done"
      /\ \A i \in DOMAIN chain : chain[i] \in Links
      /\ found \in InfoType /\ found' = KindOrStatus(found)
  BY ErrorShape DEF WalkSafe, WalkTypeOK, Finish
<1>2. 1 .. at - 1 = DOMAIN chain
  BY <1>1
<1>3. /\ ~ContextEnded(chain)
      /\ found.retryable <=> \E j \in DOMAIN chain : chain[j].retryable
      /\ \/ /\ found.kind = "unknown"
            /\ \A j \in DOMAIN chain : ~Known(LinkKind(chain[j]))
         \/ \E i \in DOMAIN chain : Decides(i) /\ found.kind = LinkKind(chain[i])
  BY <1>1, <1>2 DEF WalkSafe, WalkInv
<1>4. /\ found'.retryable = found.retryable /\ found'.status = found.status
      /\ found.status \in Nat
  BY <1>1 DEF KindOrStatus, InfoType
<1>5. RetryableKept'
  BY <1>1, <1>3, <1>4 DEF RetryableKept
<1>6. CASE \E i \in DOMAIN chain : Decides(i) /\ found.kind = LinkKind(chain[i])
  <2>1. PICK i \in DOMAIN chain : Decides(i) /\ found.kind = LinkKind(chain[i])
    BY <1>6
  <2>2. found'.kind = LinkKind(chain[i])
    BY <1>1, <2>1 DEF KindOrStatus, Decides
  <2>3. Decides(i)'
    BY <1>1, <2>1 DEF Decides
  <2>4. KindIsOutermost'
    BY <1>1, <2>2, <2>3 DEF KindIsOutermost
  <2>5. found'.kind \in ContextKind => chain[i].kind = found'.kind
    BY <1>1, <2>1, <2>2, LinkKindType
  <2>6. ContextOutranks'
    BY <1>1, <1>3, <2>1, <2>5 DEF ContextOutranks, ContextEnded
  <2>7. QED
    BY <1>5, <2>4, <2>6
<1>7. CASE /\ found.kind = "unknown"
           /\ \A j \in DOMAIN chain : ~Known(LinkKind(chain[j]))
  <2>1. found'.kind = IF found.status = 0 THEN "unknown"
                     ELSE KindFromStatusCode(found.status)
    BY <1>1, <1>7 DEF KindOrStatus, Known, InfoType
  <2>2. found'.kind \notin ContextKind
    BY <1>4, <2>1, StatusKind DEF ContextKind
  <2>3. KindIsOutermost'
    BY <1>1, <1>4, <1>7, <2>1 DEF KindIsOutermost
  <2>4. ContextOutranks'
    BY <1>1, <1>3, <2>2 DEF ContextOutranks, ContextEnded
  <2>5. QED
    BY <1>5, <2>3, <2>4
<1>8. QED
  BY <1>3, <1>6, <1>7

THEOREM StepWalkInv == WalkSafe /\ [WalkNext]_walkVars => WalkSafe'
<1> SUFFICES ASSUME WalkSafe, [WalkNext]_walkVars PROVE WalkSafe'
  OBVIOUS
<1>0. WalkTypeOK'
  BY StepWalkTypeOK DEF WalkSafe
<1>1. CASE FindsCanceled
  BY <1>0, <1>1 DEF FindsCanceled, WalkSafe, WalkInv, KindIsOutermost,
     ContextOutranks, RetryableKept, ContextEnded, ContextInfo, NoInfo
<1>2. CASE FindsDeadline
  BY <1>0, <1>2 DEF FindsDeadline, WalkSafe, WalkInv, KindIsOutermost,
     ContextOutranks, RetryableKept, ContextEnded, ContextInfo, NoInfo
<1>3. CASE FindsNoContext
  <2>1. found = NoInfo /\ at = 1 /\ UNCHANGED <<chain, at, found>> /\ stage' = "walk"
    BY <1>3 DEF FindsNoContext, WalkSafe, WalkInv
  <2>2. /\ found'.kind = "unknown" /\ found'.retryable = FALSE
        /\ stage' # "ask" /\ at' = 1
    <3>1. NoInfo.kind = "unknown" /\ NoInfo.retryable = FALSE
      BY DEF NoInfo
    <3>2. QED
      BY <2>1, <3>1
  <2>3. ~ContextEnded(chain')
    BY <1>3, <2>1 DEF FindsNoContext
  <2>4. WalkInv'
    <3>1. 1 .. at' - 1 = {}
      BY <2>2
    <3>2. QED
      BY <2>2, <2>3, <3>1 DEF WalkInv
  <2>5. QED
    BY <1>0, <2>1, <2>4 DEF WalkSafe, KindIsOutermost, ContextOutranks,
       RetryableKept
<1>4. CASE Visit
  <2>1. WalkInv'
    BY <1>4, VisitKeepsWalkInv
  <2>2. stage' = "walk"
    BY <1>4 DEF Visit
  <2>3. QED
    BY <1>0, <2>1, <2>2 DEF WalkSafe, KindIsOutermost, ContextOutranks,
       RetryableKept
<1>5. CASE Finish
  <2>1. stage' = "done"
    BY <1>5 DEF Finish
  <2>2. QED
    BY <1>0, <1>5, <2>1, FinishDecides DEF WalkSafe, WalkInv
<1>6. CASE UNCHANGED walkVars
  BY <1>6 DEF walkVars, WalkSafe, WalkTypeOK, WalkInv, KindIsOutermost, ContextOutranks,
     RetryableKept, Decides
<1>7. QED
  BY <1>1, <1>2, <1>3, <1>4, <1>5, <1>6 DEF WalkNext

\* The walk's invariant and what Classify promises hold throughout.
THEOREM WalkCorrect == WalkSpec => []WalkSafe
BY InitWalkInv, StepWalkInv, PTL DEF WalkSpec

\* Whatever the error, its kind is the outermost one known.
THEOREM OutermostKindWins == WalkSpec => []KindIsOutermost
<1>1. WalkSafe => KindIsOutermost
  BY DEF WalkSafe
<1>2. QED
  BY WalkCorrect, <1>1, PTL

\* Whatever the error, an ended context outranks every other kind.
THEOREM ContextKindWins == WalkSpec => []ContextOutranks
<1>1. WalkSafe => ContextOutranks
  BY DEF WalkSafe
<1>2. QED
  BY WalkCorrect, <1>1, PTL

\* Whatever the error, its classification is retryable if a link is.
THEOREM RetryableIsKept == WalkSpec => []RetryableKept
<1>1. WalkSafe => RetryableKept
  BY DEF WalkSafe
<1>2. QED
  BY WalkCorrect, <1>1, PTL

\* A value that the first of n links to say something said stays or is said
\* by one more, as that one is asked only while nothing is said.
LEMMA SaidByOneMore ==
  ASSUME NEW n \in Nat, NEW value, NEW said, NEW silence, NEW new,
         SaidFirst(value, said, silence, n),
         \/ value \notin silence /\ new = value
         \/ value \in silence /\ said[n + 1] \notin silence /\ new = said[n + 1]
         \/ value \in silence /\ said[n + 1] \in silence /\ new \in silence
  PROVE  SaidFirst(new, said, silence, n + 1)
<1>1. 1 .. n + 1 = (1 .. n) \cup {n + 1} /\ 1 .. (n + 1) - 1 = 1 .. n
  OBVIOUS
<1>2. CASE value \in silence
  <2>1. \A j \in 1 .. n : said[j] \in silence
    BY <1>2 DEF SaidFirst
  <2>2. CASE said[n + 1] \notin silence
    BY <1>1, <1>2, <2>1, <2>2 DEF SaidFirst
  <2>3. CASE said[n + 1] \in silence
    BY <1>1, <1>2, <2>1, <2>3 DEF SaidFirst
  <2> QED BY <2>2, <2>3
<1>3. CASE value \notin silence
  BY <1>1, <1>3 DEF SaidFirst
<1> QED BY <1>2, <1>3

\* What has been told of the links visited so far.
ToldInv == stage = "walk" => ToldFirst(at - 1)

\* One more link visited.
LEMMA VisitKeepsTold == WalkSafe /\ ToldInv /\ Visit => ToldInv'
<1> SUFFICES ASSUME WalkSafe, ToldInv, Visit PROVE ToldInv'
  OBVIOUS
<1> DEFINE link == chain[at]
           codes  == [i \in DOMAIN chain |-> chain[i].code]
           states == [i \in DOMAIN chain |-> chain[i].status]
           labels == [i \in DOMAIN chain |-> chain[i].label]
<1>1. /\ at \in DOMAIN chain /\ at \in Nat \ {0}
      /\ at' = at + 1 /\ chain' = chain /\ stage = "walk"
      /\ found' = Merge(found, link)
  BY ErrorShape DEF WalkSafe, WalkTypeOK, Visit
<1>2. /\ SaidFirst(found.code, codes, {"", "unknown"}, at - 1)
      /\ SaidFirst(found.status, states, {0}, at - 1)
      /\ SaidFirst(found.label, labels, {""}, at - 1)
  BY <1>1 DEF ToldInv, ToldFirst
<1>3. /\ codes[at] = link.code /\ states[at] = link.status /\ labels[at] = link.label
      /\ at - 1 \in Nat /\ (at - 1) + 1 = at
  BY <1>1
<1>4. /\ found'.code = Prefer(found.code, link.code)
      /\ found'.status = IF found.status = 0 THEN link.status ELSE found.status
      /\ found'.label = IF found.label = "" THEN link.label ELSE found.label
  BY <1>1 DEF Merge
<1> HIDE DEF link, codes, states, labels
<1>5. SaidFirst(found'.code, codes, {"", "unknown"}, at)
  BY <1>2, <1>3, <1>4, SaidByOneMore DEF Prefer, Known
<1>6. SaidFirst(found'.status, states, {0}, at)
  BY <1>2, <1>3, <1>4, SaidByOneMore
<1>7. SaidFirst(found'.label, labels, {""}, at)
  BY <1>2, <1>3, <1>4, SaidByOneMore
<1>8. at' - 1 = at
  BY <1>1
<1> QED BY <1>1, <1>5, <1>6, <1>7, <1>8 DEF ToldInv, ToldFirst, codes, states, labels

\* Code, status and labels are told by the outermost link that has them.
LEMMA StepTold ==
  /\ WalkSafe /\ ToldInv /\ DetailsAreOutermost /\ [WalkNext]_walkVars
  => (ToldInv /\ DetailsAreOutermost)'
<1> SUFFICES ASSUME WalkSafe, ToldInv, DetailsAreOutermost, [WalkNext]_walkVars
             PROVE  (ToldInv /\ DetailsAreOutermost)'
  OBVIOUS
<1>1. CASE FindsCanceled \/ FindsDeadline
  BY <1>1 DEF FindsCanceled, FindsDeadline, ToldInv, DetailsAreOutermost, ContextEnded
<1>2. CASE FindsNoContext
  <2>1. /\ found' = NoInfo /\ at' = 1 /\ chain' = chain /\ stage' = "walk"
    BY <1>2 DEF FindsNoContext, WalkSafe, WalkInv
  <2>2. 1 .. at' - 1 = {}
    BY <2>1
  <2>3. ToldFirst(at - 1)'
    BY <2>1, <2>2 DEF ToldFirst, SaidFirst, NoInfo
  <2> QED BY <2>1, <2>3 DEF ToldInv, DetailsAreOutermost
<1>3. CASE Visit
  BY <1>3, VisitKeepsTold DEF Visit, DetailsAreOutermost
<1>4. CASE Finish
  <2>1. /\ stage = "walk" /\ stage' = "done" /\ chain' = chain
        /\ found' = KindOrStatus(found) /\ at - 1 = Len(chain)
    BY <1>4, ErrorShape DEF Finish, WalkSafe, WalkTypeOK
  <2>2. /\ found'.code = found.code /\ found'.status = found.status
        /\ found'.label = found.label
    BY <2>1 DEF KindOrStatus, WalkSafe, WalkTypeOK, InfoType
  <2>3. ToldFirst(Len(chain))'
    BY <2>1, <2>2 DEF ToldInv, ToldFirst
  <2> QED BY <2>1, <2>3 DEF ToldInv, DetailsAreOutermost
<1>5. CASE UNCHANGED walkVars
  <2>1. ToldFirst(at - 1)' = ToldFirst(at - 1) /\ ToldFirst(Len(chain))' = ToldFirst(Len(chain))
    BY <1>5 DEF walkVars, ToldFirst
  <2> QED BY <1>5, <2>1 DEF walkVars, ToldInv, DetailsAreOutermost
<1> QED BY <1>1, <1>2, <1>3, <1>4, <1>5 DEF WalkNext

\* Whatever the error, its code, status and labels are each those of the
\* outermost link that has one.
THEOREM OutermostDetailsWin == WalkSpec => []DetailsAreOutermost
<1>1. WalkInit => ToldInv /\ DetailsAreOutermost
  BY DEF WalkInit, ToldInv, DetailsAreOutermost
<1> QED BY <1>1, StepTold, WalkCorrect, PTL DEF WalkSpec

\* Whatever the error, the kind of a *failure.Error is one errors.Is finds.
THEOREM TypedKindsMatch == WalkSpec => []TypedKindMatches
<1>1. WalkSafe => TypedKindMatches
  <2> SUFFICES ASSUME WalkSafe, stage = "done", ~ContextEnded(chain),
                      NEW i \in DOMAIN chain, Decides(i), chain[i].type = "gaugo"
               PROVE  /\ ErrorsIs(chain, Sentinel(found.kind))
                      /\ ErrorsIs(chain, Gaugo(found.kind, ""))
    BY DEF TypedKindMatches
  <2>1. PICK k \in DOMAIN chain : Decides(k) /\ found.kind = LinkKind(chain[k])
    BY DEF WalkSafe, KindIsOutermost, Decides
  <2>2. DOMAIN chain = 1 .. Len(chain) /\ Len(chain) \in Nat
    BY ErrorShape DEF WalkSafe
  <2>3. k = i
    <3>1. ~(k < i) /\ ~(i < k)
      BY <2>1, <2>2 DEF Decides
    <3>2. QED
      BY <2>2, <3>1
  <2>4. Known(found.kind) /\ LinkKind(chain[i]) = found.kind
    BY <2>1, <2>3 DEF Decides
  <2>5. Sentinel(found.kind).type = "sentinel" /\ Sentinel(found.kind).kind = found.kind
    BY DEF Sentinel, Silent
  <2>6. TypedIs(chain[i], Sentinel(found.kind))
    BY <2>4, <2>5 DEF TypedIs
  <2>7. /\ Gaugo(found.kind, "").type = "gaugo"
        /\ Gaugo(found.kind, "").kind = found.kind
        /\ Gaugo(found.kind, "").code = ""
        /\ Gaugo(found.kind, "").status = 0
    BY DEF Gaugo, Silent
  <2>8. LinkKind(Gaugo(found.kind, "")) = found.kind
    BY <2>7 DEF LinkKind
  <2>9. TypedIs(chain[i], Gaugo(found.kind, ""))
    BY <2>4, <2>7, <2>8 DEF TypedIs, MatchInfo, Known
  <2>10. QED
    BY <2>6, <2>9 DEF ErrorsIs
<1>2. QED
  BY WalkCorrect, <1>1, PTL

-----------------------------------------------------------------------------
(* Classify, whatever it is given *)

\* A set of naturals that is not empty has a least element.
LEMMA LeastExists ==
  ASSUME NEW T, T \subseteq Nat, T # {}
  PROVE  \E m \in T : \A n \in T : m <= n
<1> DEFINE less == {pair \in Nat \X Nat : pair[1] < pair[2]}
<1>1. IsWellFoundedOn(less, Nat)
  BY NatLessThanWellFounded DEF OpToRel
<1>2. PICK m \in T : \A n \in T : ~ (<<n, m>> \in less)
  <2> HIDE DEF less
  <2> QED BY <1>1, WFMin
<1>3. \A n \in T : m <= n
  <2> TAKE n \in T
  <2>1. m \in Nat /\ n \in Nat
    OBVIOUS
  <2>2. n < m => <<n, m>> \in less
    BY <2>1
  <2> QED BY <1>2, <2>1, <2>2
<1> QED BY <1>3

\* The errors, and those of no more than n links.
Errors == Seq(LinkType)

Short(n) == {s \in Errors : Len(s) <= n}

\* All links but the last.
Outer(s) == SubSeq(s, 1, Len(s) - 1)

\* What walk makes of an error, given what f makes of it without its last link.
Step(s, f) ==
  IF Len(s) = 0 THEN NoInfo ELSE Merge(f[Outer(s)], s[Len(s)])

\* f is walk as far as errors of n links go.
WalksUpTo(n, f) ==
  /\ f = [s \in Short(n) |-> f[s]]
  /\ \A s \in Short(n) : f[s] = Step(s, f)

\* An error is one link longer than what it is made of.
LEMMA OuterShorter ==
  ASSUME NEW s \in Errors
  PROVE  /\ Len(s) \in Nat
         /\ Len(s) # 0 =>
              /\ Outer(s) \in Errors
              /\ Len(Outer(s)) = Len(s) - 1
              /\ s[Len(s)] \in LinkType
              /\ \A i \in 1 .. Len(s) - 1 : Outer(s)[i] = s[i]
<1>1. Len(s) \in Nat /\ \A i \in 1 .. Len(s) : s[i] \in LinkType
  BY ElementOfSeq DEF Errors
<1>2. ASSUME Len(s) # 0
      PROVE  /\ Outer(s) \in Errors
             /\ Len(Outer(s)) = Len(s) - 1
             /\ s[Len(s)] \in LinkType
             /\ \A i \in 1 .. Len(s) - 1 : Outer(s)[i] = s[i]
  <2>0. Len(s) - 1 \in Nat
    BY <1>1, <1>2
  <2>1. \A i \in 1 .. Len(s) - 1 : s[i] \in LinkType
    BY <1>1, <1>2
  <2> DEFINE n == Len(s) - 1
  <2>2. /\ Outer(s) \in Seq(LinkType)
        /\ Len(Outer(s)) = IF 1 <= n THEN n - 1 + 1 ELSE 0
        /\ \A i \in 1 .. n - 1 + 1 : Outer(s)[i] = s[1 + i - 1]
    BY <1>1, <2>0, <2>1, SubSeqProperties DEF Outer, Errors
  <2>3. n \in Nat
    BY <2>0
  <2>4. s[Len(s)] \in LinkType
    BY <1>1, <1>2
  <2> HIDE DEF n
  <2>5. Len(Outer(s)) = n
    BY <2>2, <2>3
  <2>6. \A i \in 1 .. n : Outer(s)[i] = s[i]
    <3> TAKE i \in 1 .. n
    <3>1. i \in 1 .. n - 1 + 1 /\ 1 + i - 1 = i
      BY <2>3
    <3> QED BY <2>2, <3>1
  <2> QED BY <2>2, <2>4, <2>5, <2>6 DEF n, Errors
<1> QED BY <1>1, <1>2

\* Errors of a bounded length can be walked ...
LEMMA WalksExist ==
  ASSUME NEW n \in Nat
  PROVE  \E f : WalksUpTo(n, f)
<1> DEFINE bad == {m \in Nat : ~ \E f : WalksUpTo(m, f)}
<1> SUFFICES ASSUME bad # {} PROVE FALSE
  OBVIOUS
<1>1. PICK m \in bad : \A j \in bad : m <= j
  <2>1. bad \subseteq Nat
    OBVIOUS
  <2> HIDE DEF bad
  <2> QED BY <2>1, LeastExists
<1>2. CASE m = 0
  <2> DEFINE f == [s \in Short(m) |-> NoInfo]
  <2>1. \A s \in Short(m) : Len(s) = 0
    BY <1>2, OuterShorter DEF Short
  <2>2. \A s \in Short(m) : f[s] = Step(s, f)
    BY <2>1 DEF Step
  <2>3. f = [s \in Short(m) |-> f[s]]
    OBVIOUS
  <2>4. WalksUpTo(m, f)
    <3> HIDE DEF f
    <3> QED BY <2>2, <2>3 DEF WalksUpTo
  <2> QED BY <2>4
<1>3. CASE m > 0
  <2>1. m - 1 \in Nat /\ ~ (m <= m - 1)
    BY <1>3
  <2>2. PICK g : WalksUpTo(m - 1, g)
    BY <1>1, <2>1
  <2> DEFINE f == [s \in Short(m) |-> Step(s, g)]
  <2>3. \A s \in Short(m) : Len(s) # 0 =>
          Outer(s) \in Short(m - 1) /\ Outer(s) \in Short(m)
    BY <1>3, OuterShorter DEF Short
  <2>4. f = [s \in Short(m) |-> f[s]]
    OBVIOUS
  <2>5. \A s \in Short(m - 1) : f[s] = g[s]
    <3>1. Short(m - 1) \subseteq Short(m)
      BY <1>3, OuterShorter DEF Short
    <3> QED BY <2>2, <3>1 DEF WalksUpTo
  <2>6. \A s \in Short(m) : f[s] = Step(s, f)
    <3> TAKE s \in Short(m)
    <3>1. f[s] = Step(s, g)
      OBVIOUS
    <3>2. Len(s) # 0 => f[Outer(s)] = g[Outer(s)]
      BY <2>3, <2>5
    <3> HIDE DEF f
    <3> QED BY <3>1, <3>2 DEF Step
  <2>7. WalksUpTo(m, f)
    <3> HIDE DEF f
    <3> QED BY <2>4, <2>6 DEF WalksUpTo
  <2> QED BY <2>7
<1> QED BY <1>2, <1>3

\* ... in one way.
LEMMA WalksUnique ==
  ASSUME NEW m \in Nat, NEW n \in Nat, NEW f, NEW g,
         WalksUpTo(m, f), WalksUpTo(n, g),
         NEW s \in Short(m) \cap Short(n)
  PROVE  f[s] = g[s]
<1> DEFINE differ == {t \in Short(m) \cap Short(n) : f[t] # g[t]}
           lens   == {Len(t) : t \in differ}
<1> SUFFICES ASSUME differ # {} PROVE FALSE
  OBVIOUS
<1>1. lens \subseteq Nat /\ lens # {}
  <2>1. \A t \in differ : Len(t) \in Nat
    BY OuterShorter DEF Short
  <2>2. PICK t \in differ : TRUE
    OBVIOUS
  <2> HIDE DEF differ
  <2> QED BY <2>1, <2>2
<1>2. PICK k \in lens : \A j \in lens : k <= j
  <2> HIDE DEF lens
  <2> QED BY <1>1, LeastExists
<1>3. PICK t \in differ : k = Len(t)
  OBVIOUS
<1>4. t \in Short(m) /\ t \in Short(n) /\ t \in Errors /\ f[t] # g[t]
  BY <1>3 DEF Short
<1>5. f[t] = Step(t, f) /\ g[t] = Step(t, g)
  BY <1>4 DEF WalksUpTo
<1>6. Len(t) # 0
  BY <1>4, <1>5 DEF Step
<1>7. /\ Outer(t) \in Short(m) \cap Short(n)
      /\ ~ (Len(t) <= Len(Outer(t)))
  BY <1>4, <1>6, OuterShorter DEF Short
<1>8. f[Outer(t)] = g[Outer(t)]
  BY <1>2, <1>3, <1>7
<1> QED BY <1>4, <1>5, <1>8 DEF Step

\* walk merges the last link into what it makes of the others.
LEMMA WalkedByStep ==
  ASSUME NEW s \in Errors
  PROVE  Walked[s] = Step(s, Walked)
<1> DEFINE Walks(f) == f = [t \in Errors |-> Step(t, f)]
           part(n)  == CHOOSE f : WalksUpTo(n, f)
           all      == [t \in Errors |-> part(Len(t))[t]]
<1>1. \A n \in Nat : WalksUpTo(n, part(n))
  BY WalksExist
<1>2. \A t \in Errors : Len(t) \in Nat /\ t \in Short(Len(t))
  BY OuterShorter DEF Short
<1>3. \A t \in Errors : all[t] = Step(t, all)
  <2> TAKE t \in Errors
  <2>1. all[t] = Step(t, part(Len(t)))
    BY <1>1, <1>2 DEF WalksUpTo
  <2>2. Len(t) # 0 => all[Outer(t)] = part(Len(t))[Outer(t)]
    <3> SUFFICES ASSUME Len(t) # 0 PROVE all[Outer(t)] = part(Len(t))[Outer(t)]
      OBVIOUS
    <3>1. Outer(t) \in Short(Len(t)) \cap Short(Len(Outer(t))) /\ Len(Outer(t)) \in Nat
      BY <1>2, OuterShorter DEF Short
    <3>2. all[Outer(t)] = part(Len(Outer(t)))[Outer(t)]
      BY OuterShorter
    <3> HIDE DEF part, all
    <3> QED BY <1>1, <1>2, <3>1, <3>2, WalksUnique
  <2> HIDE DEF all, part
  <2> QED BY <2>1, <2>2 DEF Step
<1>4. Walks(all)
  <2>1. all = [t \in Errors |-> all[t]]
    OBVIOUS
  <2> HIDE DEF all
  <2> QED BY <1>3, <2>1
<1>5. Walked = CHOOSE f : Walks(f)
  BY Zenon DEF Walked, Step, Outer, Errors
<1>6. Walks(Walked)
  <2> HIDE DEF Walks, all
  <2> QED BY <1>4, <1>5, Zenon
<1> QED BY <1>6
\* One link more of an error is one merge more.
LEMMA WalkedPrefix ==
  ASSUME NEW s \in Errors, NEW k \in 1 .. Len(s)
  PROVE  Walked[SubSeq(s, 1, k)] = Merge(Walked[SubSeq(s, 1, k - 1)], s[k])
<1> DEFINE p == SubSeq(s, 1, k)
           q == SubSeq(s, 1, k - 1)
<1>1. Len(s) \in Nat /\ \A i \in 1 .. Len(s) : s[i] \in LinkType
  BY ElementOfSeq DEF Errors
<1>2. /\ p \in Errors /\ Len(p) = k
      /\ \A i \in 1 .. k : p[i] = s[i]
  <2>1. \A i \in 1 .. k : s[i] \in LinkType
    BY <1>1
  <2>2. /\ p \in Seq(LinkType)
        /\ Len(p) = IF 1 <= k THEN k - 1 + 1 ELSE 0
        /\ \A i \in 1 .. k - 1 + 1 : p[i] = s[1 + i - 1]
    BY <2>1, SubSeqProperties
  <2>3. 1 <= k /\ k - 1 + 1 = k /\ \A i \in 1 .. k : 1 + i - 1 = i
    BY <1>1
  <2> HIDE DEF p
  <2> QED BY <2>2, <2>3 DEF Errors
<1>3. /\ q \in Errors /\ Len(q) = k - 1
      /\ \A i \in 1 .. k - 1 : q[i] = s[i]
  <2>1. k - 1 \in Int /\ \A i \in 1 .. k - 1 : s[i] \in LinkType
    BY <1>1
  <2>2. /\ q \in Seq(LinkType)
        /\ Len(q) = IF 1 <= k - 1 THEN k - 1 - 1 + 1 ELSE 0
        /\ \A i \in 1 .. k - 1 - 1 + 1 : q[i] = s[1 + i - 1]
    BY <2>1, SubSeqProperties
  <2>3. /\ k - 1 - 1 + 1 = k - 1 /\ (~(1 <= k - 1) => k - 1 = 0)
        /\ \A i \in 1 .. k - 1 : 1 + i - 1 = i
    BY <1>1
  <2> HIDE DEF q
  <2> QED BY <2>2, <2>3 DEF Errors
<1> HIDE DEF p, q
<1>4. k # 0 /\ p[k] = s[k] /\ Len(p) # 0
  BY <1>1, <1>2
<1>5. Outer(p) = q
  <2>1. /\ Outer(p) \in Errors /\ Len(Outer(p)) = k - 1
        /\ \A i \in 1 .. k - 1 : Outer(p)[i] = p[i]
    BY <1>2, <1>4, OuterShorter
  <2>2. \A i \in 1 .. k - 1 : Outer(p)[i] = q[i]
    BY <1>1, <1>2, <1>3, <2>1
  <2> QED BY <1>3, <2>1, <2>2, SeqEqual DEF Errors
<1>6. Walked[p] = Step(p, Walked)
  BY <1>2, WalkedByStep
<1> QED BY <1>2, <1>4, <1>5, <1>6 DEF Step, p, q

\* The outermost link of an error that says what its kind is, its code, its
\* status.
NamesKind(s, i) ==
  /\ Known(LinkKind(s[i]))
  /\ \A j \in 1 .. i - 1 : ~Known(LinkKind(s[j]))

NamesCode(s, i) ==
  /\ Known(s[i].code)
  /\ \A j \in 1 .. i - 1 : ~Known(s[j].code)

NamesStatus(s, i) ==
  /\ s[i].status # 0
  /\ \A j \in 1 .. i - 1 : s[j].status = 0

\* What walk has to say of an error.
Told(s, w) ==
  /\ w \in InfoType
  /\ w.retryable <=> \E i \in 1 .. Len(s) : s[i].retryable
  /\ \/ /\ w.kind = "unknown"
        /\ \A i \in 1 .. Len(s) : ~Known(LinkKind(s[i]))
     \/ \E i \in 1 .. Len(s) : NamesKind(s, i) /\ w.kind = LinkKind(s[i])
  /\ \/ /\ w.code = ""
        /\ \A i \in 1 .. Len(s) : ~Known(s[i].code)
     \/ \E i \in 1 .. Len(s) : NamesCode(s, i) /\ w.code = s[i].code
  /\ \/ /\ w.status = 0
        /\ \A i \in 1 .. Len(s) : s[i].status = 0
     \/ \E i \in 1 .. Len(s) : NamesStatus(s, i) /\ w.status = s[i].status

\* The kind of a link is a kind.
LEMMA KindOfLink ==
  ASSUME NEW link \in LinkType
  PROVE  LinkKind(link) \in Kind
<1>1. link.kind \in Kind /\ link.status \in Nat
  BY DEF LinkType
<1> QED BY <1>1, StatusKind DEF LinkKind

\* Merging keeps infos infos.
LEMMA MergeIsInfo ==
  ASSUME NEW i \in InfoType, NEW link \in LinkType
  PROVE  Merge(i, link) \in InfoType
BY KindOfLink DEF Merge, Prefer, InfoType, LinkType

\* One link more does not make a liar of walk.
LEMMA ToldKept ==
  ASSUME NEW s \in Errors, Len(s) # 0, NEW w, Told(Outer(s), w)
  PROVE  Told(s, Merge(w, s[Len(s)]))
<1> DEFINE o == Outer(s)
           n == Len(s)
           v == Merge(w, s[n])
<1>1. /\ n \in Nat /\ n # 0
      /\ o \in Errors /\ Len(o) = n - 1 /\ s[n] \in LinkType
      /\ \A i \in 1 .. n - 1 : o[i] = s[i]
  BY OuterShorter
<1>2. w \in InfoType
  BY DEF Told
<1>3. v \in InfoType
  BY <1>1, <1>2, MergeIsInfo
<1>4. /\ n \in 1 .. n
      /\ \A i \in 1 .. n : i = n \/ i \in 1 .. n - 1
      /\ 1 .. n - 1 \subseteq 1 .. n
      /\ \A i \in 1 .. n - 1 : 1 .. i - 1 \subseteq 1 .. n - 1
  BY <1>1
<1>5. /\ v.kind = Prefer(w.kind, LinkKind(s[n]))
      /\ v.code = Prefer(w.code, s[n].code)
      /\ v.retryable = (w.retryable \/ s[n].retryable)
      /\ v.status = IF w.status = 0 THEN s[n].status ELSE w.status
  BY DEF Merge
<1> HIDE DEF o, n, v
<1>6. v.retryable <=> \E i \in 1 .. n : s[i].retryable
  <2>1. w.retryable <=> \E i \in 1 .. n - 1 : o[i].retryable
    BY <1>1 DEF Told, o
  <2>2. w.retryable <=> \E i \in 1 .. n - 1 : s[i].retryable
    BY <1>1, <2>1
  <2> QED BY <1>4, <1>5, <2>2, Zenon
<1>7. \/ /\ v.kind = "unknown"
         /\ \A i \in 1 .. n : ~Known(LinkKind(s[i]))
      \/ \E i \in 1 .. n : NamesKind(s, i) /\ v.kind = LinkKind(s[i])
  <2>1. \/ /\ w.kind = "unknown"
           /\ \A i \in 1 .. n - 1 : ~Known(LinkKind(s[i]))
        \/ \E i \in 1 .. n - 1 : NamesKind(s, i) /\ w.kind = LinkKind(s[i])
    <3>1. \/ /\ w.kind = "unknown"
             /\ \A i \in 1 .. n - 1 : ~Known(LinkKind(o[i]))
          \/ \E i \in 1 .. n - 1 : NamesKind(o, i) /\ w.kind = LinkKind(o[i])
      BY <1>1 DEF Told, o
    <3>2. \A i \in 1 .. n - 1 : NamesKind(o, i) => NamesKind(s, i)
      BY <1>1, <1>4 DEF NamesKind
    <3> QED BY <1>1, <3>1, <3>2
  <2>2. CASE \E i \in 1 .. n - 1 : NamesKind(s, i) /\ w.kind = LinkKind(s[i])
    BY <1>4, <1>5, <2>2 DEF NamesKind, Prefer
  <2>3. CASE /\ w.kind = "unknown"
             /\ \A i \in 1 .. n - 1 : ~Known(LinkKind(s[i]))
    <3>1. CASE Known(LinkKind(s[n]))
      BY <1>4, <1>5, <2>3, <3>1 DEF NamesKind, Prefer, Known
    <3>2. CASE ~Known(LinkKind(s[n]))
      BY <1>4, <1>5, <2>3, <3>2 DEF Prefer, Known
    <3> QED BY <3>1, <3>2
  <2> QED BY <2>1, <2>2, <2>3
<1>8. \/ /\ v.code = ""
         /\ \A i \in 1 .. n : ~Known(s[i].code)
      \/ \E i \in 1 .. n : NamesCode(s, i) /\ v.code = s[i].code
  <2>1. \/ /\ w.code = ""
           /\ \A i \in 1 .. n - 1 : ~Known(s[i].code)
        \/ \E i \in 1 .. n - 1 : NamesCode(s, i) /\ w.code = s[i].code
    <3>1. \/ /\ w.code = ""
             /\ \A i \in 1 .. n - 1 : ~Known(o[i].code)
          \/ \E i \in 1 .. n - 1 : NamesCode(o, i) /\ w.code = o[i].code
      BY <1>1 DEF Told, o
    <3>2. \A i \in 1 .. n - 1 : NamesCode(o, i) => NamesCode(s, i)
      BY <1>1, <1>4 DEF NamesCode
    <3> QED BY <1>1, <3>1, <3>2
  <2>2. CASE \E i \in 1 .. n - 1 : NamesCode(s, i) /\ w.code = s[i].code
    BY <1>4, <1>5, <2>2 DEF NamesCode, Prefer
  <2>3. CASE /\ w.code = ""
             /\ \A i \in 1 .. n - 1 : ~Known(s[i].code)
    <3>1. CASE Known(s[n].code)
      BY <1>4, <1>5, <2>3, <3>1 DEF NamesCode, Prefer, Known
    <3>2. CASE ~Known(s[n].code)
      BY <1>4, <1>5, <2>3, <3>2 DEF Prefer, Known
    <3> QED BY <3>1, <3>2
  <2> QED BY <2>1, <2>2, <2>3
<1>9. \/ /\ v.status = 0
         /\ \A i \in 1 .. n : s[i].status = 0
      \/ \E i \in 1 .. n : NamesStatus(s, i) /\ v.status = s[i].status
  <2>1. \/ /\ w.status = 0
           /\ \A i \in 1 .. n - 1 : s[i].status = 0
        \/ \E i \in 1 .. n - 1 : NamesStatus(s, i) /\ w.status = s[i].status
    <3>1. \/ /\ w.status = 0
             /\ \A i \in 1 .. n - 1 : o[i].status = 0
          \/ \E i \in 1 .. n - 1 : NamesStatus(o, i) /\ w.status = o[i].status
      BY <1>1 DEF Told, o
    <3>2. \A i \in 1 .. n - 1 : NamesStatus(o, i) => NamesStatus(s, i)
      BY <1>1, <1>4 DEF NamesStatus
    <3> QED BY <1>1, <3>1, <3>2
  <2>2. CASE \E i \in 1 .. n - 1 : NamesStatus(s, i) /\ w.status = s[i].status
    BY <1>4, <1>5, <2>2 DEF NamesStatus
  <2>3. CASE /\ w.status = 0
             /\ \A i \in 1 .. n - 1 : s[i].status = 0
    <3>1. CASE s[n].status # 0
      BY <1>4, <1>5, <2>3, <3>1 DEF NamesStatus
    <3>2. CASE s[n].status = 0
      BY <1>4, <1>5, <2>3, <3>2
    <3> QED BY <3>1, <3>2
  <2> QED BY <2>1, <2>2, <2>3
<1> QED BY <1>3, <1>6, <1>7, <1>8, <1>9 DEF Told, n, v

\* Of any error walk tells the outermost kind, the outermost code and the
\* outermost status that some link knows, and that it is retryable if one of
\* its links is.
LEMMA WalkedTells ==
  ASSUME NEW s \in Errors
  PROVE  Told(s, Walked[s])
<1> DEFINE bad  == {t \in Errors : ~Told(t, Walked[t])}
           lens == {Len(t) : t \in bad}
<1> SUFFICES ASSUME bad # {} PROVE FALSE
  OBVIOUS
<1>1. lens \subseteq Nat /\ lens # {}
  <2>1. \A t \in bad : Len(t) \in Nat
    BY OuterShorter
  <2> HIDE DEF bad
  <2> QED BY <2>1
<1>2. PICK k \in lens : \A j \in lens : k <= j
  <2> HIDE DEF lens
  <2> QED BY <1>1, LeastExists
<1>3. PICK t \in bad : k = Len(t)
  OBVIOUS
<1>4. t \in Errors /\ ~Told(t, Walked[t]) /\ Len(t) \in Nat
  BY OuterShorter
<1>5. Walked[t] = Step(t, Walked)
  BY <1>4, WalkedByStep
<1>6. CASE Len(t) = 0
  <2>1. Walked[t] = NoInfo /\ 1 .. Len(t) = {}
    BY <1>5, <1>6 DEF Step
  <2>2. /\ NoInfo.kind = "unknown" /\ NoInfo.code = "" /\ NoInfo.status = 0
        /\ NoInfo.retryable = FALSE
    BY DEF NoInfo
  <2>3. NoInfo \in InfoType
    BY CodesAssumption DEF NoInfo, InfoType, Kind, Code
  <2>4. Told(t, NoInfo)
    BY <2>1, <2>2, <2>3 DEF Told
  <2> QED BY <1>4, <2>1, <2>4
<1>7. CASE Len(t) # 0
  <2>1. /\ Outer(t) \in Errors /\ ~ (k <= Len(Outer(t)))
    BY <1>3, <1>4, <1>7, OuterShorter
  <2>2. Told(Outer(t), Walked[Outer(t)])
    BY <1>2, <2>1
  <2>3. Told(t, Merge(Walked[Outer(t)], t[Len(t)]))
    BY <1>4, <1>7, <2>2, ToldKept
  <2> QED BY <1>4, <1>5, <1>7, <2>3 DEF Step
<1> QED BY <1>6, <1>7

-----------------------------------------------------------------------------
(* The machine and the operator *)

\* The info is what the links visited so far merge to, and in the end what
\* Classify gives.
SoFar ==
  stage = "walk" => ~ContextEnded(chain) /\ found = Walked[SubSeq(chain, 1, at - 1)]

ComputesClassify == stage = "done" => found = Classify(chain)

WalkComputes == SoFar /\ ComputesClassify

\* What is classified is an error.
LEMMA ErrIsError ==
  ASSUME WalkTypeOK
  PROVE  chain \in Errors
<1>1. PICK n \in 1 .. MaxLinks : chain \in [1 .. n -> Links]
  BY DEF WalkTypeOK
<1>2. MaxLinks \in Nat /\ Links \subseteq LinkType
  BY WellFormedLinks DEF LinksAssumption
<1> QED BY <1>1, <1>2 DEF Errors

\* Each step computes a little more of Classify.
LEMMA StepComputes ==
  WalkSafe /\ WalkComputes /\ [WalkNext]_walkVars => WalkComputes'
<1> SUFFICES ASSUME WalkSafe, WalkComputes, [WalkNext]_walkVars PROVE WalkComputes'
  OBVIOUS
<1>0. WalkTypeOK /\ chain \in Errors /\ Len(chain) \in Nat /\ at \in Nat
  BY ErrIsError, OuterShorter DEF WalkSafe, WalkTypeOK
<1>1. CASE FindsCanceled
  BY <1>1 DEF FindsCanceled, WalkComputes, SoFar, ComputesClassify, Classify
<1>2. CASE FindsDeadline
  BY <1>2 DEF FindsDeadline, WalkComputes, SoFar, ComputesClassify, Classify
<1>3. CASE FindsNoContext
  <2>1. /\ found' = NoInfo /\ at' = 1 /\ chain' = chain /\ stage' = "walk"
        /\ ~ContextEnded(chain)
    BY <1>3 DEF FindsNoContext, WalkSafe, WalkInv
  <2>2. SubSeq(chain, 1, 0) = <<>> /\ <<>> \in Errors /\ Len(<<>>) = 0
    BY SubSeqEmpty DEF Errors
  <2>3. Walked[<<>>] = NoInfo
    BY <2>2, WalkedByStep DEF Step
  <2>4. at' - 1 = 0
    BY <2>1
  <2> QED BY <2>1, <2>2, <2>3, <2>4 DEF WalkComputes, SoFar, ComputesClassify
<1>4. CASE Visit
  <2>1. /\ at \in 1 .. Len(chain) /\ at' - 1 = at /\ chain' = chain
        /\ stage = "walk" /\ stage' = "walk" /\ found' = Merge(found, chain[at])
    BY <1>0, <1>4 DEF Visit, WalkSafe, WalkTypeOK
  <2>2. Walked[SubSeq(chain, 1, at)]
          = Merge(Walked[SubSeq(chain, 1, at - 1)], chain[at])
    BY <1>0, <2>1, WalkedPrefix
  <2> QED BY <2>1, <2>2 DEF WalkComputes, SoFar, ComputesClassify
<1>5. CASE Finish
  <2>1. /\ stage = "walk" /\ stage' = "done" /\ chain' = chain
        /\ found' = KindOrStatus(found) /\ at - 1 = Len(chain)
    BY <1>0, <1>5 DEF Finish, WalkSafe, WalkTypeOK
  <2>2. SubSeq(chain, 1, at - 1) = chain
    BY <1>0, <2>1, SubSeqFull DEF Errors
  <2>3. found = Walked[chain] /\ ~ContextEnded(chain)
    BY <2>1, <2>2 DEF WalkComputes, SoFar
  <2>4. found' = Classify(chain)
    BY <2>1, <2>3 DEF Classify, ContextEnded
  <2> QED BY <2>1, <2>4 DEF WalkComputes, SoFar, ComputesClassify
<1>6. CASE UNCHANGED walkVars
  BY <1>6 DEF walkVars, WalkComputes, SoFar, ComputesClassify
<1> QED BY <1>1, <1>2, <1>3, <1>4, <1>5, <1>6 DEF WalkNext

\* Whatever the error, looking for the context errors first and then visiting
\* one link after the other ends with what Classify says of it: the theorems
\* above are about the operator the other modules use.
LEMMA MachineIsClassify == WalkSpec => []ComputesClassify
<1>1. WalkInit => WalkComputes
  BY DEF WalkInit, WalkComputes, SoFar, ComputesClassify
<1>2. WalkComputes => ComputesClassify
  BY DEF WalkComputes
<1> QED BY <1>1, <1>2, StepComputes, WalkCorrect, PTL DEF WalkSpec

-----------------------------------------------------------------------------
(* What Classify finds in the errors of an evaluation *)

\* Classify reads off an error what its links say of themselves.
LEMMA WalkTells ==
  ASSUME NEW s \in Errors
  PROVE  LET w == Walked[s] IN
         /\ w \in InfoType
         /\ w.retryable <=> \E i \in 1 .. Len(s) : s[i].retryable
         /\ \A k \in 1 .. Len(s) :
              /\ Known(LinkKind(s[k]))
              /\ \A j \in 1 .. k - 1 : ~Known(LinkKind(s[j]))
              => w.kind = LinkKind(s[k])
         /\ \A k \in 1 .. Len(s) :
              /\ Known(s[k].code)
              /\ \A j \in 1 .. k - 1 : ~Known(s[j].code)
              => w.code = s[k].code
<1> DEFINE w == Walked[s]
<1>1. Told(s, w)
  BY WalkedTells
<1>2. /\ w \in InfoType
      /\ w.retryable <=> \E i \in 1 .. Len(s) : s[i].retryable
  BY <1>1 DEF Told
<1>3. Len(s) \in Nat
  BY LenProperties DEF Errors
<1>4. ASSUME NEW k \in 1 .. Len(s), Known(LinkKind(s[k])),
             \A j \in 1 .. k - 1 : ~Known(LinkKind(s[j]))
      PROVE  w.kind = LinkKind(s[k])
  <2>1. PICK i \in 1 .. Len(s) :
          /\ Known(LinkKind(s[i]))
          /\ \A j \in 1 .. i - 1 : ~Known(LinkKind(s[j]))
          /\ w.kind = LinkKind(s[i])
    BY <1>1, <1>4 DEF Told, NamesKind
  <2>2. ~(i < k) /\ ~(k < i)
    BY <1>3, <1>4, <2>1
  <2> QED BY <1>3, <2>1, <2>2
<1>5. ASSUME NEW k \in 1 .. Len(s), Known(s[k].code),
             \A j \in 1 .. k - 1 : ~Known(s[j].code)
      PROVE  w.code = s[k].code
  <2>1. PICK i \in 1 .. Len(s) :
          /\ Known(s[i].code)
          /\ \A j \in 1 .. i - 1 : ~Known(s[j].code)
          /\ w.code = s[i].code
    BY <1>1, <1>5 DEF Told, NamesCode
  <2>2. ~(i < k) /\ ~(k < i)
    BY <1>3, <1>5, <2>1
  <2> QED BY <1>3, <2>1, <2>2
<1> QED BY <1>2, <1>4, <1>5

\* Only the two context errors themselves count as such.
LEMMA IsContext ==
  ASSUME NEW s \in Errors, NEW target \in {Canceled, Deadline}
  PROVE  ErrorsIs(s, target) <=> \E i \in 1 .. Len(s) : s[i] = target
<1>1. DOMAIN s = 1 .. Len(s)
  BY LenProperties DEF Errors
<1>2. /\ target.type \in {"canceled", "deadline"}
      /\ target.kind = "" /\ target.code = ""
  BY DEF Canceled, Deadline, Silent
<1>3. \A link : ~TypedIs(link, target)
  BY <1>2 DEF TypedIs, Known
<1>4. target.type \in {"sentinel", "canceled", "deadline"}
  BY <1>2
<1> QED BY <1>1, <1>3, <1>4, Zenon DEF ErrorsIs

\* The status code alone makes no context kind.
LEMMA StatusKinds ==
  ASSUME NEW code \in Nat
  PROVE  /\ KindFromStatusCode(code) \in Kind \ ContextKind
BY DEF KindFromStatusCode, Kind, ContextKind

\* A classification is an ErrorInfo.
LEMMA ClassifyType ==
  ASSUME NEW s \in Errors
  PROVE  Classify(s) \in InfoType
<1>1. Walked[s] \in InfoType
  BY WalkTells
<1>2. /\ ContextInfo("context_canceled") \in InfoType
      /\ ContextInfo("context_deadline") \in InfoType
  BY CodesAssumption DEF ContextInfo, NoInfo, InfoType, Kind, ContextKind, Code
<1>3. KindOrStatus(Walked[s]) \in InfoType
  <2>1. Walked[s].status \in Nat
    BY <1>1 DEF InfoType
  <2>2. KindFromStatusCode(Walked[s].status) \in Kind
    BY <2>1, StatusKinds
  <2> QED BY <1>1, <2>2 DEF KindOrStatus, InfoType
<1> QED BY <1>2, <1>3 DEF Classify

-----------------------------------------------------------------------------
(* The errors of an evaluation *)

\* s is an error with an ended context in it, and reported as that.
Ends(s, kind) ==
  /\ s \in Errors /\ s # <<>>
  /\ ContextEnded(s)
  /\ Classify(s) = ContextInfo(kind)

\* s is reported under this kind and this code, and is retryable or not.
Names(s, kind, code, retryable) ==
  /\ s \in Errors /\ s # <<>>
  /\ ~ContextEnded(s)
  /\ Classify(s).kind = kind
  /\ Classify(s).code = code
  /\ Classify(s).retryable <=> retryable

\* Which context kind an error with a context error in it gets.
LEMMA EndsWith ==
  ASSUME NEW s \in Errors, NEW k \in 1 .. Len(s)
  PROVE  /\ s[k] = Canceled => Ends(s, "context_canceled")
         /\ /\ s[k] = Deadline
            /\ \A i \in 1 .. Len(s) : s[i] # Canceled
            => Ends(s, "context_deadline")
<1>1. s # <<>>
  BY EmptySeq, LenProperties DEF Errors
<1>2. s[k] = Canceled => ErrorsIs(s, Canceled)
  BY IsContext
<1>3. s[k] = Deadline /\ (\A i \in 1 .. Len(s) : s[i] # Canceled)
        => ErrorsIs(s, Deadline) /\ ~ErrorsIs(s, Canceled)
  BY IsContext
<1> QED BY <1>1, <1>2, <1>3 DEF Ends, ContextEnded, Classify

\* An error without a context error is named by its first link that is not
\* plain, when that one knows its kind and its code.
LEMMA NamedBy ==
  ASSUME NEW s \in Errors, NEW k \in 1 .. Len(s),
         \A j \in 1 .. k - 1 : s[j] = Plain,
         Known(LinkKind(s[k])), Known(s[k].code),
         \A i \in 1 .. Len(s) : s[i] \notin {Canceled, Deadline}
  PROVE  Names(s, LinkKind(s[k]), s[k].code,
               \E i \in 1 .. Len(s) : s[i].retryable)
<1> DEFINE w == Walked[s]
<1>1. s # <<>>
  BY EmptySeq, LenProperties DEF Errors
<1>2. ~ErrorsIs(s, Canceled) /\ ~ErrorsIs(s, Deadline)
  BY IsContext
<1>3. ~Known(LinkKind(Plain)) /\ ~Known(Plain.code)
  BY DEF Known, LinkKind, Plain, Silent
<1>4. /\ w.kind = LinkKind(s[k]) /\ w.code = s[k].code
      /\ w.retryable <=> \E i \in 1 .. Len(s) : s[i].retryable
  BY <1>3, WalkTells
<1>5. KindOrStatus(w) = w
  BY <1>4 DEF KindOrStatus
<1>6. Classify(s) = w
  BY <1>2, <1>5 DEF Classify
<1> HIDE DEF w
<1> QED BY <1>1, <1>2, <1>4, <1>6, Zenon DEF Names, ContextEnded

\* Wrapping: one link more in front.
LEMMA Wrapped ==
  ASSUME NEW a \in LinkType, NEW s \in Errors
  PROVE  /\ <<a>> \o s \in Errors
         /\ Len(<<a>> \o s) = Len(s) + 1 /\ Len(s) \in Nat
         /\ (<<a>> \o s)[1] = a
         /\ \A i \in 1 .. Len(s) : (<<a>> \o s)[i + 1] = s[i]
<1>1. <<a>> \in Seq(LinkType) /\ Len(<<a>>) = 1 /\ <<a>>[1] = a
  OBVIOUS
<1>2. /\ <<a>> \o s \in Seq(LinkType)
      /\ Len(<<a>> \o s) = Len(<<a>>) + Len(s)
      /\ \A i \in 1 .. Len(<<a>>) + Len(s) :
           (<<a>> \o s)[i] = IF i <= Len(<<a>>) THEN <<a>>[i]
                             ELSE s[i - Len(<<a>>)]
  BY <1>1, ConcatProperties DEF Errors
<1>3. Len(s) \in Nat
  BY LenProperties DEF Errors
<1> DEFINE w == <<a>> \o s
<1> HIDE DEF w
<1>4. /\ w \in Seq(LinkType) /\ Len(w) = 1 + Len(s)
      /\ \A i \in 1 .. 1 + Len(s) : w[i] = IF i <= 1 THEN a ELSE s[i - 1]
  BY <1>1, <1>2 DEF w
<1>5. w[1] = a /\ \A i \in 1 .. Len(s) : w[i + 1] = s[i]
  BY <1>3, <1>4
<1> QED BY <1>3, <1>4, <1>5 DEF w, Errors

\* The links that end a context.
Context == {Canceled, Deadline}

LEMMA PlainLinks ==
  /\ {Plain, Canceled, Deadline} \subseteq LinkType
  /\ Plain \notin Context /\ Canceled # Deadline
  /\ ~Plain.retryable
<1>1. "" \in Codes /\ "" \in Labels /\ "" \in Kind /\ 0 \in Nat
  BY CodesAssumption DEF Code, Kind
<1>2. Silent \in LinkType
  BY <1>1 DEF Silent, LinkType
<1>3. {Plain, Canceled, Deadline} \subseteq LinkType
  <2>1. Canceled \in LinkType
    BY <1>2 DEF Canceled, LinkType
  <2>2. Deadline \in LinkType
    BY <1>2 DEF Deadline, LinkType
  <2> QED BY <1>2, <2>1, <2>2 DEF Plain
<1>4. /\ Plain.type = "plain" /\ ~Plain.retryable
      /\ Canceled.type = "canceled" /\ Deadline.type = "deadline"
  BY DEF Plain, Canceled, Deadline, Silent
<1> QED BY <1>3, <1>4 DEF Context

\* A link that answers with this kind and this code, retryable or not.
Answers(link, kind, code, retryable) ==
  /\ link \in LinkType \ Context
  /\ LinkKind(link) = kind /\ link.code = code
  /\ link.retryable = retryable

LEMMA AnswersAsWritten ==
  ASSUME NEW link \in LinkType, link.type \in {"gaugo", "foreign"},
         Known(link.kind)
  PROVE  Answers(link, link.kind, link.code, link.retryable)
<1>1. Canceled.type = "canceled" /\ Deadline.type = "deadline"
  BY DEF Canceled, Deadline, Silent
<1>2. link \notin Context
  BY <1>1 DEF Context
<1>3. LinkKind(link) = link.kind
  BY DEF LinkKind
<1> QED BY <1>2, <1>3 DEF Answers

\* Gaugo's own links, and what is filled in of them, answer with their kind.
LEMMA GaugoLinks ==
  ASSUME NEW kind \in Kind, NEW code \in Codes, Known(kind)
  PROVE  /\ Answers(Gaugo(kind, code), kind, code, FALSE)
         /\ \A label \in Labels :
              Answers([Gaugo(kind, code) EXCEPT !.label = label],
                      kind, code, FALSE)
         /\ \A r \in BOOLEAN :
              Answers([Gaugo(kind, code) EXCEPT !.retryable = r], kind, code, r)
         /\ Answers([Gaugo(kind, code) EXCEPT !.type = "foreign"],
                    kind, code, FALSE)
         /\ \A n \in Nat, r \in BOOLEAN, label \in Labels :
              Answers([Gaugo(kind, code) EXCEPT !.status = n, !.retryable = r,
                                                !.label = label],
                      kind, code, r)
<1> DEFINE g == Gaugo(kind, code)
<1>1. /\ g \in LinkType
      /\ g.type = "gaugo" /\ g.kind = kind /\ g.code = code /\ g.retryable = FALSE
  <2>1. Silent \in LinkType /\ Silent.retryable = FALSE
    BY PlainLinks DEF Plain, Silent
  <2> QED BY <2>1 DEF Gaugo, LinkType
<1> HIDE DEF g
<1>2. ASSUME NEW h \in LinkType, h.type \in {"gaugo", "foreign"},
             h.kind = kind, h.code = code
      PROVE  Answers(h, kind, code, h.retryable)
  BY <1>2, AnswersAsWritten
<1>3. Answers(g, kind, code, FALSE)
  BY <1>1, <1>2
<1>4. ASSUME NEW label \in Labels
      PROVE  Answers([g EXCEPT !.label = label], kind, code, FALSE)
  <2> DEFINE h == [g EXCEPT !.label = label]
  <2>1. /\ h \in LinkType /\ h.type = "gaugo" /\ h.kind = kind
        /\ h.code = code /\ h.retryable = FALSE
    BY <1>1 DEF LinkType
  <2> HIDE DEF h
  <2>2. Answers(h, kind, code, FALSE)
    BY <1>2, <2>1
  <2> QED BY <2>2 DEF h
<1>5. ASSUME NEW r \in BOOLEAN
      PROVE  Answers([g EXCEPT !.retryable = r], kind, code, r)
  <2> DEFINE h == [g EXCEPT !.retryable = r]
  <2>1. /\ h \in LinkType /\ h.type = "gaugo" /\ h.kind = kind
        /\ h.code = code /\ h.retryable = r
    BY <1>1 DEF LinkType
  <2> HIDE DEF h
  <2>2. Answers(h, kind, code, r)
    BY <1>2, <2>1
  <2> QED BY <2>2 DEF h
<1>6. Answers([g EXCEPT !.type = "foreign"], kind, code, FALSE)
  <2> DEFINE h == [g EXCEPT !.type = "foreign"]
  <2>1. /\ h \in LinkType /\ h.type = "foreign" /\ h.kind = kind
        /\ h.code = code /\ h.retryable = FALSE
    BY <1>1 DEF LinkType
  <2> HIDE DEF h
  <2>2. Answers(h, kind, code, FALSE)
    BY <1>2, <2>1
  <2> QED BY <2>2 DEF h
<1>7. ASSUME NEW n \in Nat, NEW r \in BOOLEAN, NEW label \in Labels
      PROVE  Answers([g EXCEPT !.status = n, !.retryable = r, !.label = label],
                     kind, code, r)
  <2> DEFINE h == [g EXCEPT !.status = n, !.retryable = r, !.label = label]
  <2>1. /\ h \in LinkType /\ h.type = "gaugo" /\ h.kind = kind
        /\ h.code = code /\ h.retryable = r
    BY <1>1 DEF LinkType
  <2> HIDE DEF h
  <2>2. Answers(h, kind, code, r)
    BY <1>2, <2>1
  <2> QED BY <2>2 DEF h
<1> QED BY <1>3, <1>4, <1>5, <1>6, <1>7 DEF g

\* s has no context error in it, or none but this one.
NoContext(s) ==
  s \in Errors /\ \A i \in 1 .. Len(s) : s[i] \notin Context

OnlyContext(s, c) ==
  /\ s \in Errors
  /\ \E i \in 1 .. Len(s) : s[i] = c
  /\ \A i \in 1 .. Len(s) : s[i] \in Context => s[i] = c

\* How one link more changes that.
LEMMA WrappedContext ==
  ASSUME NEW a \in LinkType \ Context, NEW s \in Errors
  PROVE  /\ NoContext(s) => NoContext(<<a>> \o s)
         /\ \A c \in Context : OnlyContext(s, c) => OnlyContext(<<a>> \o s, c)
<1> DEFINE w == <<a>> \o s
<1>1. /\ w \in Errors /\ Len(w) = Len(s) + 1 /\ Len(s) \in Nat /\ w[1] = a
      /\ \A i \in 1 .. Len(s) : w[i + 1] = s[i]
  BY Wrapped
<1> HIDE DEF w
<1>2. \A i \in 1 .. Len(w) : i = 1 \/ \E j \in 1 .. Len(s) : i = j + 1
  <2> TAKE i \in 1 .. Len(w)
  <2>1. i = 1 \/ (i - 1 \in 1 .. Len(s) /\ i = (i - 1) + 1)
    BY <1>1
  <2> QED BY <2>1
<1>3. \A i \in 1 .. Len(w) : w[i] = a \/ \E j \in 1 .. Len(s) : w[i] = s[j]
  BY <1>1, <1>2
<1>4. \A j \in 1 .. Len(s) : j + 1 \in 1 .. Len(w)
  BY <1>1
<1>5. NoContext(s) => NoContext(w)
  BY <1>1, <1>3 DEF NoContext
<1>6. ASSUME NEW c \in Context, OnlyContext(s, c)
      PROVE  OnlyContext(w, c)
  <2>1. PICK j \in 1 .. Len(s) : s[j] = c
    BY <1>6 DEF OnlyContext
  <2>2. j + 1 \in 1 .. Len(w) /\ w[j + 1] = c
    BY <1>1, <1>4, <2>1
  <2>3. \A i \in 1 .. Len(w) : w[i] \in Context => w[i] = c
    BY <1>3, <1>6 DEF OnlyContext
  <2> QED BY <1>1, <2>2, <2>3 DEF OnlyContext
<1> QED BY <1>5, <1>6 DEF w

\* Short errors, written as wrapped ones.
LEMMA ShortErrors ==
  ASSUME NEW a \in LinkType
  PROVE  /\ <<>> \in Errors /\ NoContext(<<>>)
         /\ <<a>> \in Errors /\ Len(<<a>>) = 1 /\ <<a>>[1] = a
         /\ <<a>> = <<a>> \o <<>>
         /\ a \notin Context => NoContext(<<a>>)
         /\ a \in Context => OnlyContext(<<a>>, a)
         /\ \A b \in LinkType : <<a, b>> = <<a>> \o <<b>>
<1>1. <<>> \in Errors /\ Len(<<>>) = 0
  BY DEF Errors
<1>2. NoContext(<<>>)
  BY <1>1 DEF NoContext
<1>3. <<a>> \in Errors /\ Len(<<a>>) = 1 /\ <<a>>[1] = a
  BY DEF Errors
<1>4. <<a>> = <<a>> \o <<>>
  BY ConcatEmptySeq, <1>3 DEF Errors
<1>5. \A i \in 1 .. Len(<<a>>) : <<a>>[i] = a
  BY <1>3
<1>6. /\ a \notin Context => NoContext(<<a>>)
      /\ a \in Context => OnlyContext(<<a>>, a)
  BY <1>3, <1>5 DEF NoContext, OnlyContext
<1>7. ASSUME NEW b \in LinkType
      PROVE  <<a, b>> = <<a>> \o <<b>>
  OBVIOUS
<1> QED BY <1>1, <1>2, <1>3, <1>4, <1>6, <1>7

\* An error with one context error in it is reported as that one.
LEMMA OnlyContextEnds ==
  ASSUME NEW s, NEW c \in Context, OnlyContext(s, c)
  PROVE  Ends(s, IF c = Canceled THEN "context_canceled"
                 ELSE "context_deadline")
<1>1. PICK k \in 1 .. Len(s) : s[k] = c
  BY DEF OnlyContext
<1>2. s \in Errors /\ Canceled # Deadline /\ Canceled \in Context
  BY PlainLinks DEF OnlyContext, Context
<1>3. CASE c = Canceled
  BY <1>1, <1>2, <1>3, EndsWith
<1>4. CASE c = Deadline
  <2>1. \A i \in 1 .. Len(s) : s[i] # Canceled
    BY <1>2, <1>4 DEF OnlyContext
  <2> QED BY <1>1, <1>2, <1>4, <2>1, EndsWith
<1> QED BY <1>3, <1>4 DEF Context

\* An error whose first link, or the one after a plain link, knows its kind
\* and its code is named by it.
LEMMA NamedByFirst ==
  ASSUME NEW g \in LinkType \ Context, Known(LinkKind(g)), Known(g.code),
         NEW r, NoContext(r)
  PROVE  LET known == g.retryable \/ \E i \in 1 .. Len(r) : r[i].retryable IN
         /\ Names(<<g>> \o r, LinkKind(g), g.code, known)
         /\ Names(<<Plain>> \o (<<g>> \o r), LinkKind(g), g.code, known)
<1> DEFINE s == <<g>> \o r
           p == <<Plain>> \o s
<1>0. r \in Errors /\ Plain \in LinkType \ Context /\ ~Plain.retryable
  BY PlainLinks DEF NoContext
<1>1. /\ s \in Errors /\ Len(s) = Len(r) + 1 /\ Len(r) \in Nat /\ s[1] = g
      /\ \A i \in 1 .. Len(r) : s[i + 1] = r[i]
  BY <1>0, Wrapped
<1>2. NoContext(s)
  BY <1>0, WrappedContext
<1>3. NoContext(p)
  <2> HIDE DEF s
  <2> QED BY <1>0, <1>1, <1>2, WrappedContext
<1>4. /\ p \in Errors /\ Len(p) = Len(s) + 1 /\ p[1] = Plain
      /\ \A i \in 1 .. Len(s) : p[i + 1] = s[i]
  <2> HIDE DEF s
  <2> QED BY <1>0, <1>1, Wrapped
<1> HIDE DEF s, p
<1>5. \A i \in 1 .. Len(s) : i = 1 \/ \E j \in 1 .. Len(r) : i = j + 1
  <2> TAKE i \in 1 .. Len(s)
  <2>1. i = 1 \/ (i - 1 \in 1 .. Len(r) /\ i = (i - 1) + 1)
    BY <1>1
  <2> QED BY <2>1
<1>6. (\E i \in 1 .. Len(s) : s[i].retryable)
        <=> g.retryable \/ \E i \in 1 .. Len(r) : r[i].retryable
  <2>1. 1 \in 1 .. Len(s) /\ \A j \in 1 .. Len(r) : j + 1 \in 1 .. Len(s)
    BY <1>1
  <2>2. \A i \in 1 .. Len(s) : s[i] = g \/ \E j \in 1 .. Len(r) : s[i] = r[j]
    BY <1>1, <1>5
  <2>3. /\ \E i \in 1 .. Len(s) : s[i] = g
        /\ \A j \in 1 .. Len(r) : \E i \in 1 .. Len(s) : s[i] = r[j]
    BY <1>1, <2>1
  <2> QED BY <2>2, <2>3, Zenon
<1>7. (\E i \in 1 .. Len(p) : p[i].retryable)
        <=> \E i \in 1 .. Len(s) : s[i].retryable
  <2>1. /\ 1 \in 1 .. Len(p) /\ \A j \in 1 .. Len(s) : j + 1 \in 1 .. Len(p)
        /\ \A i \in 1 .. Len(p) : i = 1 \/ \E j \in 1 .. Len(s) : i = j + 1
    <3>1. \A i \in 1 .. Len(p) : i = 1 \/ (i - 1 \in 1 .. Len(s) /\ i = (i - 1) + 1)
      BY <1>1, <1>4
    <3>2. \A i \in 1 .. Len(p) : i = 1 \/ \E j \in 1 .. Len(s) : i = j + 1
      BY <3>1
    <3> QED BY <1>1, <1>4, <3>2
  <2>2. \A i \in 1 .. Len(p) : p[i] = Plain \/ \E j \in 1 .. Len(s) : p[i] = s[j]
    BY <1>4, <2>1
  <2>3. \A j \in 1 .. Len(s) : \E i \in 1 .. Len(p) : p[i] = s[j]
    BY <1>4, <2>1
  <2> QED BY <1>0, <2>2, <2>3, Zenon
<1>8. Names(s, LinkKind(g), g.code, \E i \in 1 .. Len(s) : s[i].retryable)
  <2>1. 1 \in 1 .. Len(s) /\ \A j \in 1 .. 1 - 1 : s[j] = Plain
    BY <1>1
  <2> QED BY <1>1, <1>2, <2>1, NamedBy DEF NoContext, Context
<1>9. Names(p, LinkKind(g), g.code, \E i \in 1 .. Len(p) : p[i].retryable)
  <2>1. /\ 2 \in 1 .. Len(p) /\ p[2] = g
        /\ \A j \in 1 .. 2 - 1 : p[j] = Plain
    <3>1. 1 \in 1 .. Len(s) /\ 1 + 1 = 2 /\ \A j \in 1 .. 2 - 1 : j = 1
      BY <1>1
    <3> QED BY <1>1, <1>4, <3>1
  <2> QED BY <1>3, <1>4, <2>1, NamedBy DEF NoContext, Context
<1> QED BY <1>6, <1>7, <1>8, <1>9, Zenon DEF Names, s, p

\* A judge of any configuration uses one of the wires.
LEMMA WireIsWire ==
  ASSUME NEW c \in ConfigType
  PROVE  WireOf(c) \in Wire /\ WireOf(c) \in Labels
<1>1. c.provider \in Provider
  BY DEF ConfigType
<1>2. WireOf(c) \in Wire
  BY <1>1 DEF WireOf, Wire, Provider
<1> QED BY <1>2, WireLabels

\* The kinds and codes an evaluation uses are kinds and codes it knows.
LEMMA KnownNames ==
  /\ \A kind \in {"metric", "metric_parse", "panic", "provider_request",
                  "provider_response", "provider_refusal",
                  "provider_truncated", "provider_auth", "config",
                  "provider_rate_limit", "provider_unavailable"} :
       kind \in Kind \ ContextKind /\ Known(kind)
  /\ \A code \in Code \ {"", "unknown"} : code \in Codes /\ Known(code)
BY CodesAssumption DEF Kind, ContextKind, Known

\* Errors made where they are reported, or one metric layer below.
LEMMA PlainlyNamed ==
  /\ Names(<<Gaugo("metric", "metric_invalid")>>,
           "metric", "metric_invalid", FALSE)
  /\ Names(<<[Gaugo("panic", "panic") EXCEPT !.type = "foreign"]>>,
           "panic", "panic", FALSE)
  /\ Names(<<Gaugo("metric_parse", "metric_parse"), Plain>>,
           "metric_parse", "metric_parse", FALSE)
<1>0. /\ Plain \in LinkType \ Context /\ ~Plain.retryable
      /\ NoContext(<<>>) /\ NoContext(<<Plain>>)
      /\ Len(<<>>) = 0 /\ Len(<<Plain>>) = 1 /\ <<Plain>>[1] = Plain
  BY PlainLinks, ShortErrors
<1>1. ~(\E i \in 1 .. Len(<<>>) : <<>>[i].retryable)
  BY <1>0
<1>2. ~(\E i \in 1 .. Len(<<Plain>>) : <<Plain>>[i].retryable)
  <2>1. \A i \in 1 .. Len(<<Plain>>) : <<Plain>>[i] = Plain
    BY <1>0
  <2> QED BY <1>0, <2>1
<1>3. /\ \A kind \in {"metric", "metric_parse", "panic"} :
           kind \in Kind /\ Known(kind)
      /\ \A code \in {"metric_invalid", "metric_parse", "panic"} :
           code \in Codes /\ Known(code)
  BY KnownNames DEF Code
<1>4. ASSUME NEW g \in LinkType \ Context, Known(LinkKind(g)), Known(g.code),
             ~g.retryable
      PROVE  /\ Names(<<g>>, LinkKind(g), g.code, FALSE)
             /\ Names(<<g, Plain>>, LinkKind(g), g.code, FALSE)
  <2>1. <<g>> = <<g>> \o <<>> /\ <<g, Plain>> = <<g>> \o <<Plain>>
    BY <1>0, ShortErrors
  <2>2. Names(<<g>> \o <<>>, LinkKind(g), g.code,
              g.retryable \/ \E i \in 1 .. Len(<<>>) : <<>>[i].retryable)
    BY <1>0, <1>4, NamedByFirst
  <2>3. Names(<<g>> \o <<Plain>>, LinkKind(g), g.code,
              g.retryable \/ \E i \in 1 .. Len(<<Plain>>) : <<Plain>>[i].retryable)
    BY <1>0, <1>4, NamedByFirst
  <2> QED BY <1>1, <1>2, <1>4, <2>1, <2>2, <2>3, Zenon DEF Names
<1>5. Names(<<Gaugo("metric", "metric_invalid")>>,
            "metric", "metric_invalid", FALSE)
  <2> DEFINE g == Gaugo("metric", "metric_invalid")
  <2>1. Answers(g, "metric", "metric_invalid", FALSE)
    BY <1>3, GaugoLinks
  <2> HIDE DEF g
  <2>2. Names(<<g>>, "metric", "metric_invalid", FALSE)
    BY <1>3, <1>4, <2>1 DEF Answers
  <2> QED BY <2>2 DEF g
<1>6. Names(<<[Gaugo("panic", "panic") EXCEPT !.type = "foreign"]>>,
            "panic", "panic", FALSE)
  <2> DEFINE g == [Gaugo("panic", "panic") EXCEPT !.type = "foreign"]
  <2>1. Answers(g, "panic", "panic", FALSE)
    BY <1>3, GaugoLinks
  <2> HIDE DEF g
  <2>2. Names(<<g>>, "panic", "panic", FALSE)
    BY <1>3, <1>4, <2>1 DEF Answers
  <2> QED BY <2>2 DEF g
<1>7. Names(<<Gaugo("metric_parse", "metric_parse"), Plain>>,
            "metric_parse", "metric_parse", FALSE)
  <2> DEFINE g == Gaugo("metric_parse", "metric_parse")
  <2>1. Answers(g, "metric_parse", "metric_parse", FALSE)
    BY <1>3, GaugoLinks
  <2> HIDE DEF g
  <2>2. Names(<<g, Plain>>, "metric_parse", "metric_parse", FALSE)
    BY <1>3, <1>4, <2>1 DEF Answers
  <2> QED BY <2>2 DEF g
<1> QED BY <1>5, <1>6, <1>7

\* One link of Gaugo's and what it wraps, in the wrapping of the metric.
LEMMA JudgeNamed ==
  ASSUME NEW g \in LinkType \ Context, Known(LinkKind(g)), Known(g.code)
  PROVE  /\ Names(JudgeEvaluationError(<<g>>), LinkKind(g), g.code, g.retryable)
         /\ Names(JudgeEvaluationError(<<g, Plain>>), LinkKind(g), g.code,
                  g.retryable)
<1>0. /\ Plain \in LinkType \ Context /\ ~Plain.retryable
      /\ NoContext(<<>>) /\ NoContext(<<Plain>>)
      /\ Len(<<>>) = 0 /\ Len(<<Plain>>) = 1 /\ <<Plain>>[1] = Plain
  BY PlainLinks, ShortErrors
<1>1. ~(\E i \in 1 .. Len(<<>>) : <<>>[i].retryable)
  BY <1>0
<1>2. ~(\E i \in 1 .. Len(<<Plain>>) : <<Plain>>[i].retryable)
  <2>1. \A i \in 1 .. Len(<<Plain>>) : <<Plain>>[i] = Plain
    BY <1>0
  <2> QED BY <1>0, <2>1
<1>3. <<g>> = <<g>> \o <<>> /\ <<g, Plain>> = <<g>> \o <<Plain>>
  BY <1>0, ShortErrors
<1>4. Names(<<Plain>> \o (<<g>> \o <<>>), LinkKind(g), g.code,
            g.retryable \/ \E i \in 1 .. Len(<<>>) : <<>>[i].retryable)
  BY <1>0, NamedByFirst
<1>5. Names(<<Plain>> \o (<<g>> \o <<Plain>>), LinkKind(g), g.code,
            g.retryable \/ \E i \in 1 .. Len(<<Plain>>) : <<Plain>>[i].retryable)
  BY <1>0, NamedByFirst
<1> QED BY <1>1, <1>2, <1>3, <1>4, <1>5, Zenon DEF Names, JudgeEvaluationError

\* The wire's own errors say which status, or which check on the reply.
LEMMA WireNamed ==
  ASSUME wire \in Labels
  PROVE  /\ \A code \in Status :
              Names(JudgeEvaluationError(StatusErrorForWire(code)),
                    KindFromStatusCode(code), "provider_http_status",
                    RetryableStatus(code))
         /\ \A kind \in {"provider_response", "provider_refusal",
                         "provider_truncated"} :
              Names(JudgeEvaluationError(DecodeResponseErrorForWire(kind)),
                    kind, DecodeErrorCode(kind), FALSE)
         /\ Names(JudgeEvaluationError(DecodeResponseWrapErrorForWire),
                  "provider_response", "provider_response_decode", FALSE)
<1>1. ASSUME NEW code \in Status
      PROVE  Names(JudgeEvaluationError(StatusErrorForWire(code)),
                   KindFromStatusCode(code), "provider_http_status",
                   RetryableStatus(code))
  <2>1. /\ code \in Nat
        /\ KindFromStatusCode(code) \in Kind /\ Known(KindFromStatusCode(code))
        /\ RetryableStatus(code) \in BOOLEAN
    BY DEF Status, KindFromStatusCode, Kind, Known, RetryableStatus
  <2>2. "provider_http_status" \in Codes /\ Known("provider_http_status")
    BY KnownNames DEF Code
  <2> DEFINE g == [Gaugo(KindFromStatusCode(code), "provider_http_status")
                     EXCEPT !.status = code,
                            !.retryable = RetryableStatus(code),
                            !.label = wire]
  <2>3. Answers(g, KindFromStatusCode(code), "provider_http_status",
                RetryableStatus(code))
    BY <2>1, <2>2, GaugoLinks
  <2>4. StatusErrorForWire(code) = <<g>>
    BY DEF StatusErrorForWire
  <2> HIDE DEF g
  <2>5. Names(JudgeEvaluationError(<<g>>), LinkKind(g), g.code, g.retryable)
    BY <2>1, <2>2, <2>3, JudgeNamed DEF Answers
  <2> QED BY <2>3, <2>4, <2>5, Zenon DEF Names, Answers
<1>2. ASSUME NEW kind \in {"provider_response", "provider_refusal",
                           "provider_truncated"}
      PROVE  Names(JudgeEvaluationError(DecodeResponseErrorForWire(kind)),
                   kind, DecodeErrorCode(kind), FALSE)
  <2>1. kind \in Kind /\ Known(kind)
    BY KnownNames
  <2>2. DecodeErrorCode(kind) \in Codes /\ Known(DecodeErrorCode(kind))
    BY KnownNames DEF Code, DecodeErrorCode
  <2> DEFINE g == [Gaugo(kind, DecodeErrorCode(kind)) EXCEPT !.label = wire]
  <2>3. Answers(g, kind, DecodeErrorCode(kind), FALSE)
    BY <2>1, <2>2, GaugoLinks
  <2>4. DecodeResponseErrorForWire(kind) = <<g>>
    BY DEF DecodeResponseErrorForWire
  <2> HIDE DEF g
  <2>5. Names(JudgeEvaluationError(<<g>>), LinkKind(g), g.code, g.retryable)
    BY <2>1, <2>2, <2>3, JudgeNamed DEF Answers
  <2> QED BY <2>3, <2>4, <2>5, Zenon DEF Names, Answers
<1>3. Names(JudgeEvaluationError(DecodeResponseWrapErrorForWire),
            "provider_response", "provider_response_decode", FALSE)
  <2>1. "provider_response" \in Kind /\ Known("provider_response")
    BY KnownNames
  <2>2. /\ "provider_response_decode" \in Codes
        /\ Known("provider_response_decode")
    BY KnownNames DEF Code
  <2> DEFINE g == [Gaugo("provider_response", "provider_response_decode")
                     EXCEPT !.label = wire]
  <2>3. Answers(g, "provider_response", "provider_response_decode", FALSE)
    BY <2>1, <2>2, GaugoLinks
  <2>4. DecodeResponseWrapErrorForWire = <<g, Plain>>
    BY DEF DecodeResponseWrapErrorForWire
  <2> HIDE DEF g
  <2>5. Names(JudgeEvaluationError(<<g, Plain>>), LinkKind(g), g.code,
              g.retryable)
    BY <2>1, <2>2, <2>3, JudgeNamed DEF Answers
  <2> QED BY <2>3, <2>4, <2>5, Zenon DEF Names, Answers
<1> QED BY <1>1, <1>2, <1>3

\* The HTTP client's errors keep their name when the wire wraps them.
LEMMA RequestNamed ==
  ASSUME wire \in Labels,
         NEW g \in LinkType \ Context, NEW r \in BOOLEAN,
         NEW kind \in Kind, NEW code \in Codes,
         Known(kind), Known(code), Answers(g, kind, code, r)
  PROVE  Names(JudgeEvaluationError(JudgeRequestErrorForWire(<<g, Plain>>)),
               kind, code, r)
<1> DEFINE s     == <<g, Plain>>
           outer == [Gaugo(kind, code) EXCEPT !.label = wire]
<1>1. /\ LinkKind(g) = kind /\ g.code = code /\ g.retryable = r
      /\ g \in LinkType \ Context
  BY DEF Answers
<1>2. /\ Plain \in LinkType \ Context /\ ~Plain.retryable
      /\ NoContext(<<Plain>>) /\ <<Plain>> \in Errors
      /\ Len(<<Plain>>) = 1 /\ <<Plain>>[1] = Plain
  BY PlainLinks, ShortErrors
<1>3. s = <<g>> \o <<Plain>>
  BY <1>1, <1>2, ShortErrors
<1>4. ~(\E i \in 1 .. Len(<<Plain>>) : <<Plain>>[i].retryable)
  <2>1. \A i \in 1 .. Len(<<Plain>>) : <<Plain>>[i] = Plain
    BY <1>2
  <2> QED BY <1>2, <2>1
<1>5. Names(s, kind, code, r) /\ NoContext(s)
  <2>1. Names(<<g>> \o <<Plain>>, LinkKind(g), g.code,
              g.retryable
                \/ \E i \in 1 .. Len(<<Plain>>) : <<Plain>>[i].retryable)
    BY <1>1, <1>2, NamedByFirst
  <2>2. NoContext(<<g>> \o <<Plain>>)
    BY <1>1, <1>2, WrappedContext
  <2> HIDE DEF s
  <2> QED BY <1>1, <1>3, <1>4, <2>1, <2>2, Zenon DEF Names
<1>6. JudgeRequestErrorForWire(s) = <<outer>> \o s
  <2> HIDE DEF s
  <2> QED BY <1>5 DEF Names, JudgeRequestErrorForWire
<1>7. Answers(outer, kind, code, FALSE)
  BY GaugoLinks
<1>8. (\E i \in 1 .. Len(s) : s[i].retryable) <=> r
  <2>1. Len(s) = 2 /\ s[1] = g /\ s[2] = Plain
    OBVIOUS
  <2> HIDE DEF s
  <2>2. 1 \in 1 .. Len(s) /\ \A i \in 1 .. Len(s) : i = 1 \/ i = 2
    BY <2>1
  <2> QED BY <1>1, <1>2, <2>1, <2>2, Zenon
<1> HIDE DEF s, outer
<1>9. Names(<<Plain>> \o (<<outer>> \o s), kind, code,
            outer.retryable \/ \E i \in 1 .. Len(s) : s[i].retryable)
  BY <1>5, <1>7, NamedByFirst DEF Answers
<1>10. Names(JudgeEvaluationError(JudgeRequestErrorForWire(s)), kind, code, r)
  BY <1>6, <1>7, <1>8, <1>9, Zenon DEF Answers, Names, JudgeEvaluationError
<1> QED BY <1>10 DEF s

\* What the HTTP client's attempts end with, wrapped.
LEMMA AttemptNamed ==
  ASSUME wire \in Labels
  PROVE  /\ \A r \in BOOLEAN :
              Names(JudgeEvaluationError(JudgeRequestErrorForWire(
                      ExecuteRequestError(r, Plain))),
                    "provider_request", "provider_http_request", r)
         /\ \A code \in {"provider_response_decode",
                         "provider_response_too_large"} :
              Names(JudgeEvaluationError(JudgeRequestErrorForWire(
                      ReadBodyError(code, Plain))),
                    "provider_response", code, FALSE)
<1>1. ASSUME NEW r \in BOOLEAN
      PROVE  Names(JudgeEvaluationError(JudgeRequestErrorForWire(
                     ExecuteRequestError(r, Plain))),
                   "provider_request", "provider_http_request", r)
  <2> DEFINE g == [Gaugo("provider_request", "provider_http_request")
                     EXCEPT !.retryable = r]
  <2>1. /\ "provider_request" \in Kind /\ Known("provider_request")
        /\ "provider_http_request" \in Codes /\ Known("provider_http_request")
    BY KnownNames DEF Code
  <2>2. Answers(g, "provider_request", "provider_http_request", r)
    BY <2>1, GaugoLinks
  <2>3. ExecuteRequestError(r, Plain) = <<g, Plain>>
    BY DEF ExecuteRequestError
  <2> HIDE DEF g
  <2> QED BY <2>1, <2>2, <2>3, RequestNamed DEF Answers
<1>2. ASSUME NEW code \in {"provider_response_decode",
                           "provider_response_too_large"}
      PROVE  Names(JudgeEvaluationError(JudgeRequestErrorForWire(
                     ReadBodyError(code, Plain))),
                   "provider_response", code, FALSE)
  <2> DEFINE g == Gaugo("provider_response", code)
  <2>1. /\ "provider_response" \in Kind /\ Known("provider_response")
        /\ code \in Codes /\ Known(code)
    BY KnownNames DEF Code
  <2>2. Answers(g, "provider_response", code, FALSE)
    BY <2>1, GaugoLinks
  <2>3. ReadBodyError(code, Plain) = <<g, Plain>>
    BY DEF ReadBodyError
  <2> HIDE DEF g
  <2> QED BY <2>1, <2>2, <2>3, RequestNamed DEF Answers
<1> QED BY <1>1, <1>2

\* The kind of a context error.
ContextName(c) == IF c = Canceled THEN "context_canceled" ELSE "context_deadline"

\* The wire's own link in front of a wrapped context error is no other one.
LEMMA RequestContext ==
  ASSUME wire \in Labels, NEW c \in Context, NEW s, OnlyContext(s, c)
  PROVE  Ends(JudgeEvaluationError(JudgeRequestErrorForWire(s)), ContextName(c))
<1> DEFINE outer == [Gaugo(ContextName(c), ContextName(c))
                       EXCEPT !.label = wire]
<1>1. ContextName(c) \in Kind /\ ContextName(c) \in Codes /\ Known(ContextName(c))
  BY CodesAssumption DEF ContextName, Kind, ContextKind, Code, Known
<1>2. Answers(outer, ContextName(c), ContextName(c), FALSE)
  BY <1>1, GaugoLinks
<1>3. s \in Errors /\ Classify(s) = ContextInfo(ContextName(c))
  BY OnlyContextEnds DEF Ends, ContextName
<1>4. /\ Classify(s).kind = ContextName(c)
      /\ Classify(s).code = ContextName(c)
  BY <1>3 DEF ContextInfo, NoInfo
<1>5. JudgeRequestErrorForWire(s) = <<outer>> \o s
  BY <1>1, <1>4 DEF JudgeRequestErrorForWire
<1> HIDE DEF outer
<1>6. OnlyContext(<<outer>> \o s, c)
  BY <1>2, <1>3, WrappedContext DEF Answers
<1>7. <<outer>> \o s \in Errors
  BY <1>6 DEF OnlyContext
<1>8. OnlyContext(<<Plain>> \o (<<outer>> \o s), c)
  BY <1>6, <1>7, PlainLinks, WrappedContext
<1>9. OnlyContext(JudgeEvaluationError(JudgeRequestErrorForWire(s)), c)
  BY <1>5, <1>8 DEF JudgeEvaluationError
<1> QED BY <1>9, OnlyContextEnds DEF ContextName

\* An ended context is told from everything else, wherever it was met.
LEMMA ContextNamed ==
  ASSUME wire \in Labels, NEW c \in Context
  PROVE  /\ Ends(JudgeEvaluationError(<<c>>), ContextName(c))
         /\ Ends(JudgeEvaluationError(JudgeRequestErrorForWire(<<c>>)),
                 ContextName(c))
         /\ \A r \in BOOLEAN :
              Ends(JudgeEvaluationError(JudgeRequestErrorForWire(
                     ExecuteRequestError(r, c))), ContextName(c))
         /\ Ends(JudgeEvaluationError(JudgeRequestErrorForWire(
                   ReadBodyError("provider_response_decode", c))),
                 ContextName(c))
<1>1. /\ c \in LinkType /\ Plain \in LinkType \ Context
      /\ OnlyContext(<<c>>, c) /\ <<c>> \in Errors
  BY PlainLinks, ShortErrors DEF Context
<1>2. Ends(JudgeEvaluationError(<<c>>), ContextName(c))
  <2>1. OnlyContext(<<Plain>> \o <<c>>, c)
    BY <1>1, WrappedContext
  <2> QED BY <2>1, OnlyContextEnds DEF JudgeEvaluationError, ContextName
<1>3. Ends(JudgeEvaluationError(JudgeRequestErrorForWire(<<c>>)), ContextName(c))
  BY <1>1, RequestContext
<1>4. ASSUME NEW g \in LinkType \ Context
      PROVE  Ends(JudgeEvaluationError(JudgeRequestErrorForWire(<<g, c>>)),
                  ContextName(c))
  <2>1. <<g, c>> = <<g>> \o <<c>>
    BY <1>1, ShortErrors
  <2>2. OnlyContext(<<g, c>>, c)
    BY <1>1, <2>1, WrappedContext
  <2> QED BY <2>2, RequestContext
<1>5. ASSUME NEW r \in BOOLEAN
      PROVE  Ends(JudgeEvaluationError(JudgeRequestErrorForWire(
                    ExecuteRequestError(r, c))), ContextName(c))
  <2> DEFINE g == [Gaugo("provider_request", "provider_http_request")
                     EXCEPT !.retryable = r]
  <2>1. /\ "provider_request" \in Kind /\ Known("provider_request")
        /\ "provider_http_request" \in Codes
    BY KnownNames DEF Code
  <2>2. Answers(g, "provider_request", "provider_http_request", r)
    BY <2>1, GaugoLinks
  <2>3. ExecuteRequestError(r, c) = <<g, c>>
    BY DEF ExecuteRequestError
  <2> HIDE DEF g
  <2> QED BY <1>4, <2>2, <2>3 DEF Answers
<1>6. Ends(JudgeEvaluationError(JudgeRequestErrorForWire(
             ReadBodyError("provider_response_decode", c))), ContextName(c))
  <2> DEFINE g == Gaugo("provider_response", "provider_response_decode")
  <2>1. /\ "provider_response" \in Kind /\ Known("provider_response")
        /\ "provider_response_decode" \in Codes
    BY KnownNames DEF Code
  <2>2. Answers(g, "provider_response", "provider_response_decode", FALSE)
    BY <2>1, GaugoLinks
  <2>3. ReadBodyError("provider_response_decode", c) = <<g, c>>
    BY DEF ReadBodyError
  <2> HIDE DEF g
  <2> QED BY <1>4, <2>2, <2>3 DEF Answers
<1> QED BY <1>2, <1>3, <1>5, <1>6

-----------------------------------------------------------------------------
(* The first check that fails *)

FirstFailing(checks) == SelectInSeq(checks, LAMBDA check : check.fails)

\* SelectInSeq finds the first one, or none fails.
LEMMA FirstFails ==
  ASSUME NEW checks, Len(checks) \in Nat
  PROVE  LET i == FirstFailing(checks) IN
         \/ i = 0 /\ \A j \in 1 .. Len(checks) : ~checks[j].fails
         \/ /\ i \in 1 .. Len(checks) /\ checks[i].fails
            /\ \A j \in 1 .. i - 1 : ~checks[j].fails
<1> DEFINE I == {j \in 1 .. Len(checks) : checks[j].fails}
           i == FirstFailing(checks)
<1>1. i = IF I # {} THEN Min(I) ELSE 0
  BY DEF FirstFailing, SelectInSeq
<1>2. CASE I = {}
  BY <1>1, <1>2
<1>3. CASE I # {}
  <2>1. I \subseteq Nat
    OBVIOUS
  <2>2. \E m \in I : \A n \in I : m <= n
    <3> HIDE DEF I
    <3> QED BY <1>3, <2>1, LeastExists
  <2>3. i \in I /\ \A n \in I : i <= n
    <3>1. i = CHOOSE m \in I : \A n \in I : m <= n
      BY <1>1, <1>3 DEF Min
    <3> HIDE DEF I, i
    <3> QED BY <2>2, <3>1
  <2>4. i \in 1 .. Len(checks) /\ checks[i].fails
    <3> HIDE DEF i
    <3> QED BY <2>3
  <2>5. \A j \in 1 .. i - 1 : ~checks[j].fails
    <3> HIDE DEF i
    <3> QED BY <2>3, <2>4
  <2> QED BY <2>4, <2>5
<1> QED BY <1>2, <1>3

\* What the first check that fails of a list is about.
FirstKind(checks) ==
  IF FirstFailing(checks) = 0 THEN "" ELSE checks[FirstFailing(checks)].kind

\* Of lists of three, five and six checks.
LEMMA FirstOf3 ==
  ASSUME NEW c, Len(c) = 3
  PROVE  FirstKind(c) =
           IF c[1].fails THEN c[1].kind
           ELSE IF c[2].fails THEN c[2].kind
           ELSE IF c[3].fails THEN c[3].kind
           ELSE ""
<1> DEFINE i == FirstFailing(c)
<1>0. Len(c) \in Nat
  OBVIOUS
<1>1. \/ i = 0 /\ \A j \in 1 .. 3 : ~c[j].fails
      \/ i \in 1 .. 3 /\ c[i].fails /\ \A j \in 1 .. i - 1 : ~c[j].fails
  <2>1. \/ i = 0 /\ \A j \in 1 .. Len(c) : ~c[j].fails
        \/ /\ i \in 1 .. Len(c) /\ c[i].fails
           /\ \A j \in 1 .. i - 1 : ~c[j].fails
    BY <1>0, FirstFails, Zenon
  <2> QED BY <2>1
<1>2. FirstKind(c) = IF i = 0 THEN "" ELSE c[i].kind
  BY DEF FirstKind
<1> HIDE DEF i
<1>3. CASE i = 0
  <2>1. ~c[1].fails /\ ~c[2].fails /\ ~c[3].fails
    BY <1>1, <1>3
  <2> QED BY <1>2, <1>3, <2>1
<1>4. CASE i = 1
  <2>1. c[1].fails
    BY <1>1, <1>4
  <2> QED BY <1>2, <1>4, <2>1
<1>5. CASE i = 2
  <2>1. ~c[1].fails /\ c[2].fails
    BY <1>1, <1>5
  <2> QED BY <1>2, <1>5, <2>1
<1>6. CASE i = 3
  <2>1. ~c[1].fails /\ ~c[2].fails /\ c[3].fails
    BY <1>1, <1>6
  <2> QED BY <1>2, <1>6, <2>1
<1>7. i = 0 \/ i = 1 \/ i = 2 \/ i = 3
  BY <1>1
<1> QED BY <1>3, <1>4, <1>5, <1>6, <1>7

LEMMA FirstOf5 ==
  ASSUME NEW c, Len(c) = 5
  PROVE  FirstKind(c) =
           IF c[1].fails THEN c[1].kind
           ELSE IF c[2].fails THEN c[2].kind
           ELSE IF c[3].fails THEN c[3].kind
           ELSE IF c[4].fails THEN c[4].kind
           ELSE IF c[5].fails THEN c[5].kind
           ELSE ""
<1> DEFINE i == FirstFailing(c)
<1>0. Len(c) \in Nat
  OBVIOUS
<1>1. \/ i = 0 /\ \A j \in 1 .. 5 : ~c[j].fails
      \/ i \in 1 .. 5 /\ c[i].fails /\ \A j \in 1 .. i - 1 : ~c[j].fails
  <2>1. \/ i = 0 /\ \A j \in 1 .. Len(c) : ~c[j].fails
        \/ /\ i \in 1 .. Len(c) /\ c[i].fails
           /\ \A j \in 1 .. i - 1 : ~c[j].fails
    BY <1>0, FirstFails, Zenon
  <2> QED BY <2>1
<1>2. FirstKind(c) = IF i = 0 THEN "" ELSE c[i].kind
  BY DEF FirstKind
<1> HIDE DEF i
<1>3. CASE i = 0
  <2>1. ~c[1].fails /\ ~c[2].fails /\ ~c[3].fails /\ ~c[4].fails /\ ~c[5].fails
    BY <1>1, <1>3
  <2> QED BY <1>2, <1>3, <2>1
<1>4. CASE i = 1
  <2>1. c[1].fails
    BY <1>1, <1>4
  <2> QED BY <1>2, <1>4, <2>1
<1>5. CASE i = 2
  <2>1. ~c[1].fails /\ c[2].fails
    BY <1>1, <1>5
  <2> QED BY <1>2, <1>5, <2>1
<1>6. CASE i = 3
  <2>1. ~c[1].fails /\ ~c[2].fails /\ c[3].fails
    BY <1>1, <1>6
  <2> QED BY <1>2, <1>6, <2>1
<1>7. CASE i = 4
  <2>1. ~c[1].fails /\ ~c[2].fails /\ ~c[3].fails /\ c[4].fails
    BY <1>1, <1>7
  <2> QED BY <1>2, <1>7, <2>1
<1>8. CASE i = 5
  <2>1. ~c[1].fails /\ ~c[2].fails /\ ~c[3].fails /\ ~c[4].fails /\ c[5].fails
    BY <1>1, <1>8
  <2> QED BY <1>2, <1>8, <2>1
<1>9. i = 0 \/ i = 1 \/ i = 2 \/ i = 3 \/ i = 4 \/ i = 5
  BY <1>1
<1> QED BY <1>3, <1>4, <1>5, <1>6, <1>7, <1>8, <1>9

LEMMA FirstOf6 ==
  ASSUME NEW c, Len(c) = 6
  PROVE  FirstKind(c) =
           IF c[1].fails THEN c[1].kind
           ELSE IF c[2].fails THEN c[2].kind
           ELSE IF c[3].fails THEN c[3].kind
           ELSE IF c[4].fails THEN c[4].kind
           ELSE IF c[5].fails THEN c[5].kind
           ELSE IF c[6].fails THEN c[6].kind
           ELSE ""
<1> DEFINE i == FirstFailing(c)
<1>0. Len(c) \in Nat
  OBVIOUS
<1>1. \/ i = 0 /\ \A j \in 1 .. 6 : ~c[j].fails
      \/ i \in 1 .. 6 /\ c[i].fails /\ \A j \in 1 .. i - 1 : ~c[j].fails
  <2>1. \/ i = 0 /\ \A j \in 1 .. Len(c) : ~c[j].fails
        \/ /\ i \in 1 .. Len(c) /\ c[i].fails
           /\ \A j \in 1 .. i - 1 : ~c[j].fails
    BY <1>0, FirstFails, Zenon
  <2> QED BY <2>1
<1>2. FirstKind(c) = IF i = 0 THEN "" ELSE c[i].kind
  BY DEF FirstKind
<1> HIDE DEF i
<1>3. CASE i = 0
  <2>1. ~c[1].fails /\ ~c[2].fails /\ ~c[3].fails /\ ~c[4].fails /\ ~c[5].fails /\ ~c[6].fails
    BY <1>1, <1>3
  <2> QED BY <1>2, <1>3, <2>1
<1>4. CASE i = 1
  <2>1. c[1].fails
    BY <1>1, <1>4
  <2> QED BY <1>2, <1>4, <2>1
<1>5. CASE i = 2
  <2>1. ~c[1].fails /\ c[2].fails
    BY <1>1, <1>5
  <2> QED BY <1>2, <1>5, <2>1
<1>6. CASE i = 3
  <2>1. ~c[1].fails /\ ~c[2].fails /\ c[3].fails
    BY <1>1, <1>6
  <2> QED BY <1>2, <1>6, <2>1
<1>7. CASE i = 4
  <2>1. ~c[1].fails /\ ~c[2].fails /\ ~c[3].fails /\ c[4].fails
    BY <1>1, <1>7
  <2> QED BY <1>2, <1>7, <2>1
<1>8. CASE i = 5
  <2>1. ~c[1].fails /\ ~c[2].fails /\ ~c[3].fails /\ ~c[4].fails /\ c[5].fails
    BY <1>1, <1>8
  <2> QED BY <1>2, <1>8, <2>1
<1>9. CASE i = 6
  <2>1. ~c[1].fails /\ ~c[2].fails /\ ~c[3].fails /\ ~c[4].fails /\ ~c[5].fails /\ c[6].fails
    BY <1>1, <1>9
  <2> QED BY <1>2, <1>9, <2>1
<1>10. i = 0 \/ i = 1 \/ i = 2 \/ i = 3 \/ i = 4 \/ i = 5 \/ i = 6
  BY <1>1
<1> QED BY <1>3, <1>4, <1>5, <1>6, <1>7, <1>8, <1>9, <1>10

\* A reply of chat.
LEMMA ChatFault ==
  ASSUME NEW r, NEW text, text = TextOf("chat", r.parts)
  PROVE  Fault("chat", r) =
           IF ~r.decodes THEN "provider_response"
           ELSE IF ~r.answers THEN "provider_response"
           ELSE IF r.stop = "limit" THEN "provider_truncated"
           ELSE IF "refusal" \in Range(r.parts) THEN "provider_refusal"
           ELSE IF text = "blank" THEN "provider_response"
           ELSE IF text \in {"half", "prose"} THEN "provider_response"
           ELSE ""
<1> DEFINE a == Check(~r.decodes, "provider_response")
           x == Check(~r.answers, "provider_response")
           y == Check(r.stop = "limit", "provider_truncated")
           z == Check("refusal" \in Range(r.parts), "provider_refusal")
           e == Check(text = "blank", "provider_response")
           f == Check(text \in {"half", "prose"}, "provider_response")
           c == ChatChecks(r)
<1>1. c = <<a>> \o <<x, y, z>> \o <<e, f>>
  BY DEF ChatChecks, Decoded, Content
<1>2. a.fails <=> (~r.decodes)
  BY Zenon DEF Check
<1>3. x.fails <=> (~r.answers)
  BY Zenon DEF Check
<1>4. y.fails <=> (r.stop = "limit")
  BY Zenon DEF Check
<1>5. z.fails <=> ("refusal" \in Range(r.parts))
  BY Zenon DEF Check
<1>6. e.fails <=> (text = "blank")
  BY Zenon DEF Check
<1>7. f.fails <=> (text \in {"half", "prose"})
  BY Zenon DEF Check
<1>8. /\ a.kind = "provider_response"
      /\ x.kind = "provider_response"
      /\ y.kind = "provider_truncated"
      /\ z.kind = "provider_refusal"
      /\ e.kind = "provider_response"
      /\ f.kind = "provider_response"
  BY DEF Check
<1> HIDE DEF a, x, y, z, e, f
<1>9. LET s == <<a>> \o <<x, y, z>> \o <<e, f>> IN
      /\ Len(s) = 6
      /\ s[1] = a /\ s[2] = x /\ s[3] = y /\ s[4] = z /\ s[5] = e /\ s[6] = f
  OBVIOUS
<1> HIDE DEF c
<1>10. /\ Len(c) = 6
      /\ c[1] = a /\ c[2] = x /\ c[3] = y /\ c[4] = z /\ c[5] = e /\ c[6] = f
  BY <1>1, <1>9
<1>11. FirstKind(c) =
           IF a.fails THEN a.kind
           ELSE IF x.fails THEN x.kind
           ELSE IF y.fails THEN y.kind
           ELSE IF z.fails THEN z.kind
           ELSE IF e.fails THEN e.kind
           ELSE IF f.fails THEN f.kind
           ELSE ""
  BY <1>10, FirstOf6
<1>12. Fault("chat", r) = FirstKind(c)
  BY DEF Fault, Checks, FirstKind, FirstFailing, c
<1> QED BY <1>2, <1>3, <1>4, <1>5, <1>6, <1>7,
            <1>8, <1>11, <1>12, Zenon

\* A reply of responses.
LEMMA ResponsesFault ==
  ASSUME NEW r, NEW text, text = TextOf("responses", r.parts)
  PROVE  Fault("responses", r) =
           IF ~r.decodes THEN "provider_response"
           ELSE IF r.stop = "limit" THEN "provider_truncated"
           ELSE IF text = "refusal" THEN "provider_refusal"
           ELSE IF text = "blank" THEN "provider_response"
           ELSE IF text \in {"half", "prose"} THEN "provider_response"
           ELSE ""
<1> DEFINE a == Check(~r.decodes, "provider_response")
           x == Check(r.stop = "limit", "provider_truncated")
           y == Check(text = "refusal", "provider_refusal")
           e == Check(text = "blank", "provider_response")
           f == Check(text \in {"half", "prose"}, "provider_response")
           c == ResponsesChecks(r)
<1>1. c = <<a>> \o <<x, y>> \o <<e, f>>
  BY DEF ResponsesChecks, Decoded, Content
<1>2. a.fails <=> (~r.decodes)
  BY Zenon DEF Check
<1>3. x.fails <=> (r.stop = "limit")
  BY Zenon DEF Check
<1>4. y.fails <=> (text = "refusal")
  BY Zenon DEF Check
<1>5. e.fails <=> (text = "blank")
  BY Zenon DEF Check
<1>6. f.fails <=> (text \in {"half", "prose"})
  BY Zenon DEF Check
<1>7. /\ a.kind = "provider_response"
      /\ x.kind = "provider_truncated"
      /\ y.kind = "provider_refusal"
      /\ e.kind = "provider_response"
      /\ f.kind = "provider_response"
  BY DEF Check
<1> HIDE DEF a, x, y, e, f
<1>8. LET s == <<a>> \o <<x, y>> \o <<e, f>> IN
      /\ Len(s) = 5
      /\ s[1] = a /\ s[2] = x /\ s[3] = y /\ s[4] = e /\ s[5] = f
  OBVIOUS
<1> HIDE DEF c
<1>9. /\ Len(c) = 5
      /\ c[1] = a /\ c[2] = x /\ c[3] = y /\ c[4] = e /\ c[5] = f
  BY <1>1, <1>8
<1>10. FirstKind(c) =
           IF a.fails THEN a.kind
           ELSE IF x.fails THEN x.kind
           ELSE IF y.fails THEN y.kind
           ELSE IF e.fails THEN e.kind
           ELSE IF f.fails THEN f.kind
           ELSE ""
  BY <1>9, FirstOf5
<1>11. Fault("responses", r) = FirstKind(c)
  BY DEF Fault, Checks, FirstKind, FirstFailing, c
<1> QED BY <1>2, <1>3, <1>4, <1>5, <1>6,
            <1>7, <1>10, <1>11, Zenon

\* A reply of messages.
LEMMA MessagesFault ==
  ASSUME NEW r, NEW text, text = TextOf("messages", r.parts)
  PROVE  Fault("messages", r) =
           IF ~r.decodes THEN "provider_response"
           ELSE IF r.stop = "refusal" THEN "provider_refusal"
           ELSE IF r.stop = "limit" THEN "provider_truncated"
           ELSE IF text = "blank" THEN "provider_response"
           ELSE IF text \in {"half", "prose"} THEN "provider_response"
           ELSE ""
<1> DEFINE a == Check(~r.decodes, "provider_response")
           x == Check(r.stop = "refusal", "provider_refusal")
           y == Check(r.stop = "limit", "provider_truncated")
           e == Check(text = "blank", "provider_response")
           f == Check(text \in {"half", "prose"}, "provider_response")
           c == MessagesChecks(r)
<1>1. c = <<a>> \o <<x, y>> \o <<e, f>>
  BY DEF MessagesChecks, Decoded, Content
<1>2. a.fails <=> (~r.decodes)
  BY Zenon DEF Check
<1>3. x.fails <=> (r.stop = "refusal")
  BY Zenon DEF Check
<1>4. y.fails <=> (r.stop = "limit")
  BY Zenon DEF Check
<1>5. e.fails <=> (text = "blank")
  BY Zenon DEF Check
<1>6. f.fails <=> (text \in {"half", "prose"})
  BY Zenon DEF Check
<1>7. /\ a.kind = "provider_response"
      /\ x.kind = "provider_refusal"
      /\ y.kind = "provider_truncated"
      /\ e.kind = "provider_response"
      /\ f.kind = "provider_response"
  BY DEF Check
<1> HIDE DEF a, x, y, e, f
<1>8. LET s == <<a>> \o <<x, y>> \o <<e, f>> IN
      /\ Len(s) = 5
      /\ s[1] = a /\ s[2] = x /\ s[3] = y /\ s[4] = e /\ s[5] = f
  OBVIOUS
<1> HIDE DEF c
<1>9. /\ Len(c) = 5
      /\ c[1] = a /\ c[2] = x /\ c[3] = y /\ c[4] = e /\ c[5] = f
  BY <1>1, <1>8
<1>10. FirstKind(c) =
           IF a.fails THEN a.kind
           ELSE IF x.fails THEN x.kind
           ELSE IF y.fails THEN y.kind
           ELSE IF e.fails THEN e.kind
           ELSE IF f.fails THEN f.kind
           ELSE ""
  BY <1>9, FirstOf5
<1>11. Fault("messages", r) = FirstKind(c)
  BY DEF Fault, Checks, FirstKind, FirstFailing, c
<1> QED BY <1>2, <1>3, <1>4, <1>5, <1>6,
            <1>7, <1>10, <1>11, Zenon

\* A reply of generatecontent.
LEMMA GenerateContentFault ==
  ASSUME NEW r, NEW text, text = TextOf("generatecontent", r.parts)
  PROVE  Fault("generatecontent", r) =
           IF ~r.decodes THEN "provider_response"
           ELSE IF ~r.answers \/ r.parts = <<>> THEN "provider_response"
           ELSE IF r.stop = "limit" THEN "provider_truncated"
           ELSE IF r.stop = "blocked" THEN "provider_refusal"
           ELSE IF text = "blank" THEN "provider_response"
           ELSE IF text \in {"half", "prose"} THEN "provider_response"
           ELSE ""
<1> DEFINE a == Check(~r.decodes, "provider_response")
           x == Check(~r.answers \/ r.parts = <<>>, "provider_response")
           y == Check(r.stop = "limit", "provider_truncated")
           z == Check(r.stop = "blocked", "provider_refusal")
           e == Check(text = "blank", "provider_response")
           f == Check(text \in {"half", "prose"}, "provider_response")
           c == GenerateContentChecks(r)
<1>1. c = <<a>> \o <<x, y, z>> \o <<e, f>>
  BY DEF GenerateContentChecks, Decoded, Content
<1>2. a.fails <=> (~r.decodes)
  BY Zenon DEF Check
<1>3. x.fails <=> (~r.answers \/ r.parts = <<>>)
  BY Zenon DEF Check
<1>4. y.fails <=> (r.stop = "limit")
  BY Zenon DEF Check
<1>5. z.fails <=> (r.stop = "blocked")
  BY Zenon DEF Check
<1>6. e.fails <=> (text = "blank")
  BY Zenon DEF Check
<1>7. f.fails <=> (text \in {"half", "prose"})
  BY Zenon DEF Check
<1>8. /\ a.kind = "provider_response"
      /\ x.kind = "provider_response"
      /\ y.kind = "provider_truncated"
      /\ z.kind = "provider_refusal"
      /\ e.kind = "provider_response"
      /\ f.kind = "provider_response"
  BY DEF Check
<1> HIDE DEF a, x, y, z, e, f
<1>9. LET s == <<a>> \o <<x, y, z>> \o <<e, f>> IN
      /\ Len(s) = 6
      /\ s[1] = a /\ s[2] = x /\ s[3] = y /\ s[4] = z /\ s[5] = e /\ s[6] = f
  OBVIOUS
<1> HIDE DEF c
<1>10. /\ Len(c) = 6
      /\ c[1] = a /\ c[2] = x /\ c[3] = y /\ c[4] = z /\ c[5] = e /\ c[6] = f
  BY <1>1, <1>9
<1>11. FirstKind(c) =
           IF a.fails THEN a.kind
           ELSE IF x.fails THEN x.kind
           ELSE IF y.fails THEN y.kind
           ELSE IF z.fails THEN z.kind
           ELSE IF e.fails THEN e.kind
           ELSE IF f.fails THEN f.kind
           ELSE ""
  BY <1>10, FirstOf6
<1>12. Fault("generatecontent", r) = FirstKind(c)
  BY DEF Fault, Checks, FirstKind, FirstFailing, c
<1> QED BY <1>2, <1>3, <1>4, <1>5, <1>6, <1>7,
            <1>8, <1>11, <1>12, Zenon

\* A reply of ollama.
LEMMA OllamaFault ==
  ASSUME NEW r, NEW text, text = TextOf("ollama", r.parts)
  PROVE  Fault("ollama", r) =
           IF ~r.decodes THEN "provider_response"
           ELSE IF text = "blank" THEN "provider_response"
           ELSE IF text \in {"half", "prose"} THEN "provider_response"
           ELSE ""
<1> DEFINE a == Check(~r.decodes, "provider_response")
           e == Check(text = "blank", "provider_response")
           f == Check(text \in {"half", "prose"}, "provider_response")
           c == OllamaChecks(r)
<1>1. c = <<a>> \o <<e, f>>
  BY DEF OllamaChecks, Decoded, Content
<1>2. a.fails <=> (~r.decodes)
  BY Zenon DEF Check
<1>3. e.fails <=> (text = "blank")
  BY Zenon DEF Check
<1>4. f.fails <=> (text \in {"half", "prose"})
  BY Zenon DEF Check
<1>5. /\ a.kind = "provider_response"
      /\ e.kind = "provider_response"
      /\ f.kind = "provider_response"
  BY DEF Check
<1> HIDE DEF a, e, f
<1>6. LET s == <<a>> \o <<e, f>> IN
      /\ Len(s) = 3
      /\ s[1] = a /\ s[2] = e /\ s[3] = f
  OBVIOUS
<1> HIDE DEF c
<1>7. /\ Len(c) = 3
      /\ c[1] = a /\ c[2] = e /\ c[3] = f
  BY <1>1, <1>6
<1>8. FirstKind(c) =
           IF a.fails THEN a.kind
           ELSE IF e.fails THEN e.kind
           ELSE IF f.fails THEN f.kind
           ELSE ""
  BY <1>7, FirstOf3
<1>9. Fault("ollama", r) = FirstKind(c)
  BY DEF Fault, Checks, FirstKind, FirstFailing, c
<1> QED BY <1>2, <1>3, <1>4,
            <1>5, <1>8, <1>9, Zenon

\* The piece a wire speaks of is one of the reply's.
LEMMA SpokenIsPart ==
  ASSUME NEW n \in Nat, NEW T, NEW parts \in [1 .. n -> T],
         FirstSpoken(parts) # "blank"
  PROVE  FirstSpoken(parts) \in Range(parts)
<1> DEFINE I == {j \in 1 .. Len(parts) : parts[j] # "blank"}
           i == SelectInSeq(parts, LAMBDA part : part # "blank")
<1>1. i = IF I # {} THEN Min(I) ELSE 0
  BY DEF SelectInSeq
<1>2. FirstSpoken(parts) = IF i = 0 THEN "blank" ELSE parts[i]
  BY DEF FirstSpoken
<1>3. Len(parts) = n /\ DOMAIN parts = 1 .. n
  OBVIOUS
<1>4. I \subseteq Nat
  BY <1>3
<1>5. I # {} => Min(I) \in I
  <2> SUFFICES ASSUME I # {} PROVE Min(I) \in I
    OBVIOUS
  <2> HIDE DEF I
  <2>1. \E m \in I : \A k \in I : m <= k
    BY <1>4, LeastExists
  <2> QED BY <2>1 DEF Min
<1>6. i \in DOMAIN parts
  <2>1. i # 0
    BY <1>2
  <2>2. i \in I
    <3> HIDE DEF i, I
    <3> QED BY <1>1, <1>5, <2>1
  <2> QED BY <1>3, <2>2
<1>7. FirstSpoken(parts) = parts[i]
  <2>1. i # 0
    BY <1>2
  <2> HIDE DEF i
  <2> QED BY <1>2, <2>1
<1> HIDE DEF i
<1> QED BY <1>6, <1>7 DEF Range

\* The parts of a reply are a sequence.
LEMMA PartsAreSome ==
  ASSUME NEW T, NEW parts \in SeqOf(T, MaxParts)
  PROVE  \E n \in Nat : parts \in [1 .. n -> T]
<1>1. \A n \in 0 .. MaxParts : n \in Nat
  BY MaxPartsAssumption
<1>2. PICK n \in 0 .. MaxParts : parts \in [1 .. n -> T]
  BY DEF SeqOf
<1> QED BY <1>1, <1>2

\* What the checks let pass was neither cut, nor refused, nor blocked, as far
\* as the wire reads it.
LEMMA PassedReply ==
  ASSUME wire \in Wire, reply \in Replies(wire), Fault(wire, reply) = ""
  PROVE  /\ reply.decodes
         /\ wire # "ollama" => reply.stop \in {"end", "other"}
         /\ wire = "chat" => "refusal" \notin Range(reply.parts)
<1>1. reply.decodes \in BOOLEAN /\ reply.stop \in StopsOf(wire)
  BY DEF Replies
<1>2. CASE wire = "chat"
  BY <1>1, <1>2, ChatFault DEF StopsOf
<1>3. CASE wire = "responses"
  BY <1>1, <1>3, ResponsesFault DEF StopsOf
<1>4. CASE wire = "messages"
  BY <1>1, <1>4, MessagesFault DEF StopsOf
<1>5. CASE wire = "generatecontent"
  BY <1>1, <1>5, GenerateContentFault DEF StopsOf
<1>6. CASE wire = "ollama"
  BY <1>1, <1>6, OllamaFault
<1> QED BY <1>2, <1>3, <1>4, <1>5, <1>6 DEF Wire

\* What they do not let pass is refused for what is wrong with it.
LEMMA RefusedReply ==
  ASSUME wire \in Wire, reply \in Replies(wire), Fault(wire, reply) # ""
  PROVE  /\ Fault(wire, reply) \in {"provider_response", "provider_refusal",
                                    "provider_truncated"}
         /\ reply.decodes => Fault(wire, reply) \in KindsOfReply
         /\ "provider_response" \in KindsOfReply \/ reply.decodes
<1>1. /\ reply.decodes \in BOOLEAN /\ reply.answers \in BOOLEAN
      /\ reply.stop \in StopsOf(wire) /\ reply.parts \in PartsOf(wire)
  BY DEF Replies
<1>2. CASE wire = "chat"
  BY <1>1, <1>2, ChatFault DEF StopsOf, KindsOfReply, StopRead
<1>3. CASE wire = "responses"
  <2> DEFINE text == TextOf("responses", reply.parts)
  <2>1. text = "refusal" => "refusal" \in Range(reply.parts)
    <3>1. text = FirstSpoken(reply.parts)
      BY DEF TextOf
    <3>2. reply.parts \in SeqOf(Text \cup {"refusal"}, MaxParts)
      BY <1>1, <1>3 DEF PartsOf
    <3>3. PICK n \in Nat : reply.parts \in [1 .. n -> Text \cup {"refusal"}]
      BY <3>2, PartsAreSome
    <3> HIDE DEF text
    <3> QED BY <3>1, <3>3, SpokenIsPart
  <2>2. Fault("responses", reply) =
           IF ~reply.decodes THEN "provider_response"
           ELSE IF reply.stop = "limit" THEN "provider_truncated"
           ELSE IF text = "refusal" THEN "provider_refusal"
           ELSE IF text = "blank" THEN "provider_response"
           ELSE IF text \in {"half", "prose"} THEN "provider_response"
           ELSE ""
    BY ResponsesFault
  <2> HIDE DEF text
  <2> QED BY <1>1, <1>3, <2>1, <2>2 DEF StopsOf, KindsOfReply, StopRead
<1>4. CASE wire = "messages"
  BY <1>1, <1>4, MessagesFault DEF StopsOf, KindsOfReply, StopRead
<1>5. CASE wire = "generatecontent"
  BY <1>1, <1>5, GenerateContentFault DEF StopsOf, KindsOfReply, StopRead
<1>6. CASE wire = "ollama"
  BY <1>1, <1>6, OllamaFault DEF KindsOfReply, StopRead
<1> QED BY <1>2, <1>3, <1>4, <1>5, <1>6 DEF Wire

-----------------------------------------------------------------------------
(* What New accepts, and what it says of what it does not *)

ConfigCode == {"provider_api_key_required", "validation_invalid",
               "retry_invalid", "rate_limit_invalid",
               "provider_config_invalid"}

ConfigErrors == {ConfigError(code) : code \in ConfigCode}
                \cup {ConfigWrapError(code) : code \in ConfigCode}

\* Each is a config error, also where a validation error is at its bottom.
LEMMA ConfigErrorKind ==
  ASSUME NEW s \in ConfigErrors
  PROVE  /\ s \in Errors /\ s # <<>>
         /\ Classify(s).kind = "config"
         /\ ErrorsIs(s, Sentinel("config"))
<1>1. /\ "config" \in Kind /\ "validation" \in Kind
      /\ Known("config") /\ Known("validation")
      /\ "" \in Codes /\ ConfigCode \subseteq Codes
  BY CodesAssumption DEF Kind, Known, Code, ConfigCode
<1>2. ASSUME NEW g \in LinkType \ Context, LinkKind(g) = "config",
             g.type = "gaugo", NoContext(s), Len(s) \in Nat,
             1 \in 1 .. Len(s), s[1] = g
      PROVE  /\ Classify(s).kind = "config"
             /\ ErrorsIs(s, Sentinel("config"))
  <2>1. s \in Errors /\ DOMAIN s = 1 .. Len(s)
    BY <1>2, LenProperties DEF NoContext, Errors
  <2>2. ~ErrorsIs(s, Canceled) /\ ~ErrorsIs(s, Deadline)
    BY <1>2, <2>1, IsContext DEF NoContext, Context
  <2>3. Walked[s].kind = "config"
    <3>1. \A j \in 1 .. 1 - 1 : ~Known(LinkKind(s[j]))
      OBVIOUS
    <3> QED BY <1>1, <1>2, <2>1, <3>1, WalkTells
  <2>4. Classify(s).kind = "config"
    BY <1>1, <2>2, <2>3 DEF Classify, KindOrStatus
  <2>5. Sentinel("config").kind = "config" /\ Sentinel("config").type = "sentinel"
    BY DEF Sentinel, Silent
  <2>6. TypedIs(g, Sentinel("config"))
    BY <1>1, <1>2, <2>5 DEF TypedIs
  <2>7. ErrorsIs(s, Sentinel("config"))
    BY <1>2, <2>1, <2>6 DEF ErrorsIs
  <2> QED BY <2>4, <2>7
<1>3. ASSUME NEW kind \in {"config", "validation"}, NEW code \in Codes
      PROVE  /\ Gaugo(kind, code) \in LinkType \ Context
             /\ LinkKind(Gaugo(kind, code)) = kind
             /\ Gaugo(kind, code).type = "gaugo"
  <2>1. kind \in Kind /\ Known(kind)
    BY <1>1
  <2>2. Answers(Gaugo(kind, code), kind, code, FALSE)
    BY <2>1, GaugoLinks
  <2>3. Gaugo(kind, code).type = "gaugo"
    BY DEF Gaugo, Silent
  <2> QED BY <2>2, <2>3 DEF Answers
<1>4. ASSUME NEW code \in ConfigCode, s = ConfigError(code)
      PROVE  NoContext(s) /\ Len(s) = 1 /\ s[1] = Gaugo("config", code)
  BY <1>1, <1>3, <1>4, ShortErrors DEF ConfigError
<1>5. ASSUME NEW code \in ConfigCode, s = ConfigWrapError(code)
      PROVE  NoContext(s) /\ Len(s) = 2 /\ s[1] = Gaugo("config", "")
  <2> DEFINE g == Gaugo("config", "")
             h == Gaugo("validation", code)
  <2>1. g \in LinkType \ Context /\ h \in LinkType \ Context
    BY <1>1, <1>3
  <2>2. s = <<g, h>>
    BY <1>5 DEF ConfigWrapError
  <2> HIDE DEF g, h
  <2>3. s = <<g>> \o <<h>> /\ NoContext(<<h>>)
    BY <2>1, <2>2, ShortErrors
  <2>4. NoContext(s)
    BY <2>1, <2>3, WrappedContext DEF NoContext
  <2> QED BY <2>2, <2>4 DEF g
<1>6. PICK code \in ConfigCode : s = ConfigError(code) \/ s = ConfigWrapError(code)
  BY DEF ConfigErrors
<1>7. ASSUME NEW n \in {1, 2}, NEW some \in Codes,
             NoContext(s), Len(s) = n, s[1] = Gaugo("config", some)
      PROVE  /\ s \in Errors /\ s # <<>>
             /\ Classify(s).kind = "config"
             /\ ErrorsIs(s, Sentinel("config"))
  <2>1. s \in Errors /\ s # <<>> /\ Len(s) \in Nat /\ 1 \in 1 .. Len(s)
    BY <1>7 DEF NoContext
  <2>2. /\ Gaugo("config", some) \in LinkType \ Context
        /\ LinkKind(Gaugo("config", some)) = "config"
        /\ Gaugo("config", some).type = "gaugo"
    BY <1>3
  <2> QED BY <1>2, <1>7, <2>1, <2>2
<1>8. CASE s = ConfigError(code)
  BY <1>1, <1>4, <1>7, <1>8
<1>9. CASE s = ConfigWrapError(code)
  BY <1>1, <1>5, <1>7, <1>9
<1> QED BY <1>6, <1>8, <1>9

\* The checks of hosted providers: key, base URL and endpoint come first.
LEMMA HostedList ==
  ASSUME NEW c
  PROVE  /\ Len(HostedChecks(c)) = 6
         /\ HostedChecks(c)[1].fails <=> c.apiKey = "blank"
         /\ HostedChecks(c)[2].fails <=>
              ~CloudURLOk(c.baseURL, c.allowUnsafeURL, OfficialHost(c.provider))
         /\ HostedChecks(c)[3].fails <=>
              ~CloudURLOk(c.endpointURL, c.allowUnsafeURL,
                          OfficialHost(c.provider))
         /\ \A j \in 1 .. 6 : HostedChecks(c)[j].kind \in ConfigErrors
<1> DEFINE Ok(u) == CloudURLOk(u, c.allowUnsafeURL, OfficialHost(c.provider))
           s == HostedChecks(c)
           k1 == ConfigError("provider_api_key_required")
           k2 == ConfigWrapError("validation_invalid")
           k4 == ConfigWrapError("retry_invalid")
           k5 == ConfigWrapError("rate_limit_invalid")
           k6 == ConfigError("provider_config_invalid")
           c1 == Check(c.apiKey = "blank", k1)
           c2 == Check(~Ok(c.baseURL), k2)
           c3 == Check(~Ok(c.endpointURL), k2)
           c4 == Check(~RetryOk(c.retry), k4)
           c5 == Check(~RateLimitOk(c.rateLimit), k5)
           c6 == Check(c.maxResponseBody < 0, k6)
<1>1. s = <<c1, c2, c3>> \o <<c4, c5, c6>>
  BY DEF HostedChecks, CommonChecks
<1>2. c1.fails <=> c.apiKey = "blank"
  BY Zenon DEF Check
<1>3. c2.fails <=> ~Ok(c.baseURL)
  BY Zenon DEF Check
<1>4. c3.fails <=> ~Ok(c.endpointURL)
  BY Zenon DEF Check
<1>5. {k1, k2, k4, k5, k6} \subseteq ConfigErrors
  BY DEF ConfigErrors, ConfigCode
<1> HIDE DEF k1, k2, k4, k5, k6
<1>6. /\ c1.kind = k1 /\ c2.kind = k2 /\ c3.kind = k2
      /\ c4.kind = k4 /\ c5.kind = k5 /\ c6.kind = k6
  BY Zenon DEF Check
<1> HIDE DEF c1, c2, c3, c4, c5, c6
<1>7. LET t == <<c1, c2, c3>> \o <<c4, c5, c6>> IN
      /\ Len(t) = 6 /\ t[1] = c1 /\ t[2] = c2 /\ t[3] = c3
      /\ t[4] = c4 /\ t[5] = c5 /\ t[6] = c6
  OBVIOUS
<1> HIDE DEF s
<1>8. /\ Len(s) = 6 /\ s[1] = c1 /\ s[2] = c2 /\ s[3] = c3
      /\ s[4] = c4 /\ s[5] = c5 /\ s[6] = c6
  BY <1>1, <1>7
<1>9. \A j \in 1 .. 6 : s[j].kind \in ConfigErrors
  <2>1. \A j \in 1 .. 6 : j \in {1, 2, 3, 4, 5, 6}
    OBVIOUS
  <2> QED BY <1>5, <1>6, <1>8, <2>1
<1>10. /\ s[1].fails <=> c.apiKey = "blank"
       /\ s[2].fails <=> ~Ok(c.baseURL)
       /\ s[3].fails <=> ~Ok(c.endpointURL)
  BY <1>2, <1>3, <1>4, <1>8, Zenon
<1> QED BY <1>8, <1>9, <1>10, Zenon DEF s

\* The checks of the custom provider.
LEMMA CustomList ==
  ASSUME NEW c
  PROVE  /\ Len(CustomChecks(c)) = 8
         /\ \A j \in 1 .. 8 : CustomChecks(c)[j].kind \in ConfigErrors
<1> DEFINE mode == NormalizeMode(c.mode)
           s == CustomChecks(c)
           k1 == ConfigWrapError("provider_config_invalid")
           k2 == ConfigWrapError("validation_invalid")
           k4 == ConfigError("provider_config_invalid")
           k6 == ConfigWrapError("retry_invalid")
           k7 == ConfigWrapError("rate_limit_invalid")
           c1 == Check(mode = "", k1)
           c2 == Check(~BaseURLOk(c.baseURL), k2)
           c3 == Check(~BaseURLOk(c.endpointURL), k2)
           c4 == Check(mode # "openai" /\ c.compatEndpoint # "blank", k4)
           c5 == Check(mode = "openai" /\ c.compatEndpoint \notin
                         {"blank", "chat_completions", "responses"}, k4)
           c6 == Check(~RetryOk(c.retry), k6)
           c7 == Check(~RateLimitOk(c.rateLimit), k7)
           c8 == Check(c.maxResponseBody < 0, k4)
<1>1. s = <<c1, c2, c3, c4, c5>> \o <<c6, c7, c8>>
  BY DEF CustomChecks, CommonChecks
<1>2. {k1, k2, k4, k6, k7} \subseteq ConfigErrors
  BY DEF ConfigErrors, ConfigCode
<1> HIDE DEF k1, k2, k4, k6, k7
<1>3. /\ c1.kind = k1 /\ c2.kind = k2 /\ c3.kind = k2 /\ c4.kind = k4
      /\ c5.kind = k4 /\ c6.kind = k6 /\ c7.kind = k7 /\ c8.kind = k4
  BY Zenon DEF Check
<1> HIDE DEF c1, c2, c3, c4, c5, c6, c7, c8
<1>4. LET t == <<c1, c2, c3, c4, c5>> \o <<c6, c7, c8>> IN
      /\ Len(t) = 8 /\ t[1] = c1 /\ t[2] = c2 /\ t[3] = c3 /\ t[4] = c4
      /\ t[5] = c5 /\ t[6] = c6 /\ t[7] = c7 /\ t[8] = c8
  OBVIOUS
<1> HIDE DEF s
<1>5. /\ Len(s) = 8 /\ s[1] = c1 /\ s[2] = c2 /\ s[3] = c3 /\ s[4] = c4
      /\ s[5] = c5 /\ s[6] = c6 /\ s[7] = c7 /\ s[8] = c8
  BY <1>1, <1>4
<1>6. \A j \in 1 .. 8 : s[j].kind \in ConfigErrors
  <2>1. \A j \in 1 .. 8 : j \in {1, 2, 3, 4, 5, 6, 7, 8}
    OBVIOUS
  <2> QED BY <1>2, <1>3, <1>5, <2>1
<1> QED BY <1>5, <1>6 DEF s

\* What New refuses it refuses with a config error; what it accepts of a
\* hosted provider has a key, and URLs of that provider unless unsafe ones
\* are allowed.
LEMMA RefusalTells ==
  ASSUME NEW c
  PROVE  /\ Refusal(c) # <<>> => Refusal(c) \in ConfigErrors
         /\ Refusal(c) = <<>> /\ c.provider # "custom" =>
              /\ c.apiKey # "blank"
              /\ CloudURLOk(c.baseURL, c.allowUnsafeURL, OfficialHost(c.provider))
              /\ CloudURLOk(c.endpointURL, c.allowUnsafeURL,
                            OfficialHost(c.provider))
<1> DEFINE checks == IF c.provider = "custom" THEN CustomChecks(c)
                     ELSE HostedChecks(c)
           i == FirstFailing(checks)
<1>1. Refusal(c) = IF i = 0 THEN <<>> ELSE checks[i].kind
  BY DEF Refusal, FirstFailing
<1>2. Len(checks) \in Nat /\ \A j \in 1 .. Len(checks) :
                                checks[j].kind \in ConfigErrors
  <2>1. CASE c.provider = "custom"
    <3>1. checks = CustomChecks(c)
      BY <2>1
    <3> HIDE DEF checks
    <3> QED BY <3>1, CustomList
  <2>2. CASE c.provider # "custom"
    <3>1. checks = HostedChecks(c)
      BY <2>2
    <3>2. /\ Len(HostedChecks(c)) = 6
          /\ \A j \in 1 .. 6 : HostedChecks(c)[j].kind \in ConfigErrors
      BY HostedList, Zenon
    <3> HIDE DEF checks
    <3> QED BY <3>1, <3>2
  <2> QED BY <2>1, <2>2
<1>3. \/ i = 0 /\ \A j \in 1 .. Len(checks) : ~checks[j].fails
      \/ i \in 1 .. Len(checks) /\ checks[i].fails
  <2> HIDE DEF checks
  <2> QED BY <1>2, FirstFails
<1>4. Refusal(c) # <<>> => Refusal(c) \in ConfigErrors
  <2> HIDE DEF checks, i
  <2> QED BY <1>1, <1>2, <1>3
<1>5. ASSUME Refusal(c) = <<>>, c.provider # "custom"
      PROVE  /\ c.apiKey # "blank"
             /\ CloudURLOk(c.baseURL, c.allowUnsafeURL, OfficialHost(c.provider))
             /\ CloudURLOk(c.endpointURL, c.allowUnsafeURL,
                           OfficialHost(c.provider))
  <2>1. \A j \in 1 .. Len(checks) : ~checks[j].fails
    <3> HIDE DEF checks, i
    <3>1. i = 0
      BY <1>1, <1>2, <1>3, <1>5, ConfigErrorKind
    <3> QED BY <1>2, <1>3, <3>1
  <2>2. checks = HostedChecks(c)
    BY <1>5
  <2> HIDE DEF checks
  <2>3. ~checks[1].fails /\ ~checks[2].fails /\ ~checks[3].fails
    <3>1. Len(HostedChecks(c)) = 6
      BY HostedList, Zenon
    <3>2. {1, 2, 3} \subseteq 1 .. Len(checks)
      BY <2>2, <3>1
    <3> QED BY <2>1, <3>2
  <2> QED BY <2>2, <2>3, HostedList, Zenon
<1> QED BY <1>4, <1>5

-----------------------------------------------------------------------------
(* Where the requests go *)

\* The paths of the defaults have no last slash to be taken off.
LEMMA TrimmedRoots ==
  /\ Trimmed(<<>>) = <<>>
  /\ Trimmed(<<"v1">>) = <<"v1">>
<1>1. Trimmed(<<>>) = <<>>
  <2> DEFINE I == {i \in 1 .. Len(<<>>) : <<>>[i] # ""}
  <2>1. I = {}
    OBVIOUS
  <2>2. SelectLastInSeq(<<>>, LAMBDA segment : segment # "")
          = IF I # {} THEN Max(I) ELSE 0
    BY DEF SelectLastInSeq
  <2>3. SelectLastInSeq(<<>>, LAMBDA segment : segment # "") = 0
    BY <2>1, <2>2
  <2>4. SubSeq(<<>>, 1, 0) = <<>>
    BY SubSeqEmpty
  <2> QED BY <2>3, <2>4 DEF Trimmed
<1>2. Trimmed(<<"v1">>) = <<"v1">>
  <2> DEFINE I == {i \in 1 .. Len(<<"v1">>) : <<"v1">>[i] # ""}
  <2>1. I = {1}
    <3>1. Len(<<"v1">>) = 1 /\ <<"v1">>[1] = "v1" /\ "v1" # ""
      OBVIOUS
    <3>2. 1 .. 1 = {1}
      OBVIOUS
    <3> QED BY <3>1, <3>2
  <2>2. SelectLastInSeq(<<"v1">>, LAMBDA segment : segment # "")
          = IF I # {} THEN Max(I) ELSE 0
    BY DEF SelectLastInSeq
  <2>3. Max({1}) = 1
    BY DEF Max
  <2>4. SelectLastInSeq(<<"v1">>, LAMBDA segment : segment # "") = 1
    BY <2>1, <2>2, <2>3
  <2>5. SubSeq(<<"v1">>, 1, Len(<<"v1">>)) = <<"v1">>
    BY SubSeqFull, <<"v1">> \in Seq({"v1"})
  <2> QED BY <2>4, <2>5 DEF Trimmed
<1> QED BY <1>1, <1>2

\* A custom root gets its /v1 once.
LEMMA SuffixOfRoots ==
  /\ ~IsSuffix(<<"v1">>, <<>>)
  /\ IsSuffix(<<"v1">>, <<"v1">>)
<1>1. Len(Reverse(<<>>)) = 0 /\ Len(Reverse(<<"v1">>)) = 1
  BY DEF Reverse
<1> QED BY <1>1 DEF IsSuffix, IsPrefix

\* The paths requests go to.
LEMMA Paths ==
  /\ <<"v1">> \o <<"chat", "completions">> = <<"v1", "chat", "completions">>
  /\ <<"v1">> \o <<"responses">> = <<"v1", "responses">>
  /\ <<>> \o <<"v1">> = <<"v1">>
  /\ <<>> \o <<"v1", "messages">> = <<"v1", "messages">>
  /\ <<>> \o <<"api", "chat">> = <<"api", "chat">>
  /\ <<>> \o <<"v1beta", "models", "model:generateContent">>
       = <<"v1beta", "models", "model:generateContent">>
<1> DEFINE S == {"v1", "chat", "completions", "responses", "messages", "api",
                 "v1beta", "models", "model:generateContent"}
<1>1. <<"v1">> \o <<"chat", "completions">> = <<"v1", "chat", "completions">>
  <2> DEFINE s == <<"v1">> \o <<"chat", "completions">>
             t == <<"v1", "chat", "completions">>
  <2>1. /\ s \in Seq(S) /\ t \in Seq(S) /\ Len(s) = 3 /\ Len(t) = 3
        /\ s[1] = t[1] /\ s[2] = t[2] /\ s[3] = t[3]
    OBVIOUS
  <2> HIDE DEF s, t, S
  <2>2. \A i \in 1 .. Len(s) : s[i] = t[i]
    BY <2>1
  <2> QED BY <2>1, <2>2, SeqEqual DEF s, t
<1>2. <<"v1">> \o <<"responses">> = <<"v1", "responses">>
  <2> DEFINE s == <<"v1">> \o <<"responses">>
             t == <<"v1", "responses">>
  <2>1. /\ s \in Seq(S) /\ t \in Seq(S) /\ Len(s) = 2 /\ Len(t) = 2
        /\ s[1] = t[1] /\ s[2] = t[2]
    OBVIOUS
  <2> HIDE DEF s, t, S
  <2>2. \A i \in 1 .. Len(s) : s[i] = t[i]
    BY <2>1
  <2> QED BY <2>1, <2>2, SeqEqual DEF s, t
<1>3. \A s \in Seq(S) : <<>> \o s = s
  BY ConcatEmptySeq
<1>4. /\ <<"v1">> \in Seq(S) /\ <<"v1", "messages">> \in Seq(S)
      /\ <<"api", "chat">> \in Seq(S)
      /\ <<"v1beta", "models", "model:generateContent">> \in Seq(S)
  OBVIOUS
<1> QED BY <1>1, <1>2, <1>3, <1>4

\* Setting the path of a URL leaves the rest of it.
IsURL(url) ==
  url = [form |-> url.form, scheme |-> url.scheme, host |-> url.host,
         user |-> url.user, path |-> url.path]

LEMMA PathSet ==
  ASSUME NEW url, IsURL(url), NEW path
  PROVE  LET u == [url EXCEPT !.path = path] IN
         /\ u.path = path /\ u.form = url.form /\ u.scheme = url.scheme
         /\ u.host = url.host /\ u.user = url.user
<1> DEFINE r == [form |-> url.form, scheme |-> url.scheme, host |-> url.host,
                 user |-> url.user, path |-> url.path]
           u == [r EXCEPT !.path = path]
<1>1. /\ u.path = path /\ u.form = url.form /\ u.scheme = url.scheme
      /\ u.host = url.host /\ u.user = url.user
  OBVIOUS
<1>2. url = r
  BY DEF IsURL
<1> HIDE DEF r
<1> QED BY <1>1, <1>2

LEMMA URLsAreURLs ==
  /\ \A url \in URLType : IsURL(url)
  /\ \A scheme, host, path :
       /\ IsURL(URL(scheme, host, path))
       /\ URL(scheme, host, path).form = "url"
       /\ URL(scheme, host, path).scheme = scheme
       /\ URL(scheme, host, path).host = host
       /\ URL(scheme, host, path).path = path
       /\ ~URL(scheme, host, path).user
<1>1. \A url \in URLType : IsURL(url)
  BY DEF URLType, IsURL
<1>2. ASSUME NEW scheme, NEW host, NEW path
      PROVE  /\ IsURL(URL(scheme, host, path))
             /\ URL(scheme, host, path).form = "url"
             /\ URL(scheme, host, path).scheme = scheme
             /\ URL(scheme, host, path).host = host
             /\ URL(scheme, host, path).path = path
             /\ ~URL(scheme, host, path).user
  BY DEF URL, IsURL
<1> QED BY <1>1, <1>2

\* The API root of each hosted provider.
HomeURL(provider) ==
  CASE provider = "openai"    -> OpenAIBaseURL
    [] provider = "anthropic" -> AnthropicBaseURL
    [] provider = "gemini"    -> GeminiBaseURL
    [] provider = "xai"       -> XAIBaseURL
    [] provider = "nvidia"    -> NVIDIABaseURL

HomePath(provider) ==
  IF provider \in {"openai", "xai", "nvidia"} THEN <<"v1">> ELSE <<>>

LEMMA HomeIsOfficial ==
  ASSUME NEW p \in Provider \ {"custom"}
  PROVE  /\ IsURL(HomeURL(p)) /\ HomeURL(p).form = "url"
         /\ HomeURL(p).scheme = "https" /\ ~HomeURL(p).user
         /\ HomeURL(p).host = OfficialHost(p)
         /\ HomeURL(p).path = HomePath(p)
<1>1. CASE p = "openai"
  BY <1>1, URLsAreURLs DEF HomeURL, OpenAIBaseURL, OfficialHost, HomePath
<1>2. CASE p = "anthropic"
  BY <1>2, URLsAreURLs DEF HomeURL, AnthropicBaseURL, OfficialHost, HomePath
<1>3. CASE p = "gemini"
  BY <1>3, URLsAreURLs DEF HomeURL, GeminiBaseURL, OfficialHost, HomePath
<1>4. CASE p = "xai"
  BY <1>4, URLsAreURLs DEF HomeURL, XAIBaseURL, OfficialHost, HomePath
<1>5. CASE p = "nvidia"
  BY <1>5, URLsAreURLs DEF HomeURL, NVIDIABaseURL, OfficialHost, HomePath
<1> QED BY <1>1, <1>2, <1>3, <1>4, <1>5 DEF Provider

\* Whether the judge or the wire fills it in, the default base URL of a hosted
\* provider is its own.
LEMMA HostedBase ==
  ASSUME NEW c \in ConfigType, c.provider # "custom"
  PROVE  OrDefault(JudgeBaseURL(c), WireBaseURL(WireOf(c)))
           = OrDefault(c.baseURL, HomeURL(c.provider))
<1>0. c.provider \in Provider
  BY DEF ConfigType
<1>1. CASE c.provider = "openai"
  BY <1>1 DEF JudgeBaseURL, OrDefault, WireOf, WireBaseURL, HomeURL
<1>2. CASE c.provider = "anthropic"
  BY <1>2 DEF JudgeBaseURL, OrDefault, WireOf, WireBaseURL, HomeURL
<1>3. CASE c.provider = "gemini"
  BY <1>3 DEF JudgeBaseURL, OrDefault, WireOf, WireBaseURL, HomeURL
<1>4. CASE c.provider = "xai"
  <2>1. XAIBaseURL.form # "blank"
    BY URLsAreURLs DEF XAIBaseURL
  <2> QED BY <1>4, <2>1 DEF JudgeBaseURL, OrDefault, HomeURL
<1>5. CASE c.provider = "nvidia"
  <2>1. NVIDIABaseURL.form # "blank"
    BY URLsAreURLs DEF NVIDIABaseURL
  <2> QED BY <1>5, <2>1 DEF JudgeBaseURL, OrDefault, HomeURL
<1> QED BY <1>0, <1>1, <1>2, <1>3, <1>4, <1>5 DEF Provider

\* Where a judge without an endpoint of its own sends its requests.
LEMMA BelowBase ==
  ASSUME NEW c, c.endpointURL.form = "blank",
         NEW base, IsURL(base),
         base = OrDefault(JudgeBaseURL(c), WireBaseURL(WireOf(c)))
  PROVE  /\ Target(c).scheme = base.scheme /\ Target(c).host = base.host
         /\ Target(c).user = base.user
         /\ Target(c).path = Trimmed(base.path) \o WirePath(WireOf(c))
<1> DEFINE path == Trimmed(base.path) \o WirePath(WireOf(c))
<1>1. Target(c) = [base EXCEPT !.path = path]
  BY DEF Target, EndpointURL
<1> HIDE DEF path
<1>2. /\ [base EXCEPT !.path = path].path = path
      /\ [base EXCEPT !.path = path].scheme = base.scheme
      /\ [base EXCEPT !.path = path].host = base.host
      /\ [base EXCEPT !.path = path].user = base.user
  BY PathSet
<1> QED BY <1>1, <1>2 DEF path

\* A hosted judge that New accepts sends to its provider over https, unless
\* the configuration allows unsafe URLs.
LEMMA HostedHost ==
  ASSUME NEW c \in ConfigType, Refusal(c) = <<>>, c.provider # "custom",
         ~c.allowUnsafeURL
  PROVE  /\ Target(c).scheme = "https" /\ ~Target(c).user
         /\ Target(c).host = OfficialHost(c.provider)
<1>1. /\ CloudURLOk(c.baseURL, c.allowUnsafeURL, OfficialHost(c.provider))
      /\ CloudURLOk(c.endpointURL, c.allowUnsafeURL, OfficialHost(c.provider))
  BY RefusalTells
<1>2. CASE c.endpointURL.form # "blank"
  <2>1. Target(c) = c.endpointURL
    BY <1>2 DEF Target, EndpointURL
  <2> QED BY <1>1, <1>2, <2>1 DEF CloudURLOk
<1>3. CASE c.endpointURL.form = "blank"
  <2> DEFINE base == OrDefault(c.baseURL, HomeURL(c.provider))
  <2>1. c.provider \in Provider \ {"custom"} /\ c.baseURL \in URLType
    BY DEF ConfigType
  <2>2. /\ IsURL(base)
        /\ base.scheme = "https" /\ ~base.user
        /\ base.host = OfficialHost(c.provider)
    <3>1. CASE c.baseURL.form = "blank"
      BY <2>1, <3>1, HomeIsOfficial DEF OrDefault
    <3>2. CASE c.baseURL.form # "blank"
      BY <1>1, <2>1, <3>2, URLsAreURLs DEF OrDefault, CloudURLOk
    <3> QED BY <3>1, <3>2
  <2>3. base = OrDefault(JudgeBaseURL(c), WireBaseURL(WireOf(c)))
    BY HostedBase
  <2> HIDE DEF base
  <2> QED BY <1>3, <2>2, <2>3, BelowBase
<1> QED BY <1>2, <1>3

\* The path below a root that comes down to this one.
LEMMA HostedPath ==
  ASSUME NEW c \in ConfigType, c.provider # "custom",
         c.endpointURL.form = "blank",
         \/ c.baseURL.form = "blank"
         \/ Trimmed(c.baseURL.path) = HomePath(c.provider)
  PROVE  Target(c).path = HomePath(c.provider) \o WirePath(WireOf(c))
<1> DEFINE base == OrDefault(c.baseURL, HomeURL(c.provider))
<1>1. c.provider \in Provider \ {"custom"} /\ c.baseURL \in URLType
  BY DEF ConfigType
<1>2. Trimmed(HomePath(c.provider)) = HomePath(c.provider)
  BY TrimmedRoots DEF HomePath
<1>3. IsURL(base) /\ Trimmed(base.path) = HomePath(c.provider)
  <2>1. CASE c.baseURL.form = "blank"
    BY <1>1, <1>2, <2>1, HomeIsOfficial DEF OrDefault
  <2>2. CASE c.baseURL.form # "blank"
    BY <1>1, <2>2, URLsAreURLs DEF OrDefault
  <2> QED BY <2>1, <2>2
<1>4. base = OrDefault(JudgeBaseURL(c), WireBaseURL(WireOf(c)))
  BY HostedBase
<1> HIDE DEF base
<1>5. Target(c).path = Trimmed(base.path) \o WirePath(WireOf(c))
  BY <1>3, <1>4, BelowBase
<1> QED BY <1>3, <1>5

\* A custom judge's root gets the /v1 its wire needs, once.
LEMMA CustomPath ==
  ASSUME NEW c \in ConfigType, c.provider = "custom",
         c.endpointURL.form = "blank",
         \/ c.baseURL.form = "blank"
         \/ Trimmed(c.baseURL.path) = <<>>
         \/ /\ NormalizeMode(c.mode) = "openai"
            /\ Trimmed(c.baseURL.path) = <<"v1">>
  PROVE  Target(c).path =
           (IF NormalizeMode(c.mode) = "openai" THEN <<"v1">> ELSE <<>>)
           \o WirePath(WireOf(c))
<1> DEFINE given == OrDefault(c.baseURL, CustomBaseURL)
           base  == JudgeBaseURL(c)
           root  == IF NormalizeMode(c.mode) = "openai" THEN <<"v1">> ELSE <<>>
<1>1. /\ IsURL(given) /\ given.form # "blank"
      /\ \/ Trimmed(given.path) = <<>>
         \/ /\ NormalizeMode(c.mode) = "openai"
            /\ Trimmed(given.path) = <<"v1">>
  <2>1. c.baseURL \in URLType
    BY DEF ConfigType
  <2>2. CASE c.baseURL.form = "blank"
    BY <2>2, URLsAreURLs, TrimmedRoots DEF OrDefault, CustomBaseURL
  <2>3. CASE c.baseURL.form # "blank"
    BY <2>1, <2>3, URLsAreURLs DEF OrDefault
  <2> QED BY <2>2, <2>3
<1>2. IsURL(base) /\ base.form # "blank" /\ Trimmed(base.path) = root
  <2>1. CASE NormalizeMode(c.mode) # "openai"
    <3>1. base = given /\ root = <<>>
      BY <2>1 DEF JudgeBaseURL
    <3> HIDE DEF base, given, root
    <3> QED BY <1>1, <2>1, <3>1
  <2>2. CASE NormalizeMode(c.mode) = "openai"
    <3> DEFINE path == IF IsSuffix(<<"v1">>, Trimmed(given.path))
                       THEN Trimmed(given.path)
                       ELSE Trimmed(given.path) \o <<"v1">>
    <3>1. base = [given EXCEPT !.path = path] /\ root = <<"v1">>
      BY <2>2 DEF JudgeBaseURL, OpenAICompatBaseURL
    <3>2. path = <<"v1">>
      BY <1>1, SuffixOfRoots, Paths
    <3> HIDE DEF path, given, base, root
    <3>3. /\ base.path = path /\ base.form = given.form
      BY <1>1, <3>1, PathSet
    <3>4. IsURL(base)
      BY <1>1, <3>1 DEF IsURL
    <3> QED BY <1>1, <3>1, <3>2, <3>3, <3>4, TrimmedRoots
  <2> QED BY <2>1, <2>2
<1>3. base = OrDefault(JudgeBaseURL(c), WireBaseURL(WireOf(c)))
  BY <1>2 DEF OrDefault
<1> HIDE DEF base
<1>4. Target(c).path = Trimmed(base.path) \o WirePath(WireOf(c))
  BY <1>2, <1>3, BelowBase
<1> QED BY <1>2, <1>4

\* All of GoesHome follows from what New checks and the defaults.
LEMMA AcceptedGoesHome ==
  ASSUME config \in ConfigType, Refusal(config) = <<>>
  PROVE  GoesHome
<1>1. /\ config.provider \in Provider /\ config.apiKey \in {"blank", "own"}
      /\ config.useChatCompletions \in BOOLEAN
  BY DEF ConfigType
<1>2. config.provider # "custom" => KeyOf(config) = "own"
  BY <1>1, RefusalTells DEF KeyOf
<1>3. config.provider # "custom" /\ ~config.allowUnsafeURL =>
        /\ Target(config).scheme = "https" /\ ~Target(config).user
        /\ Target(config).host = OfficialHost(config.provider)
  BY HostedHost
<1>4. wire # "ollama" => KeyOf(config) # "blank"
  BY DEF KeyOf, wire
<1>5. ASSUME config.endpointURL.form = "blank", Customary
      PROVE  Target(config).path = ApiPath
  <2>1. CASE config.provider # "custom"
    <3>1. Target(config).path
            = HomePath(config.provider) \o WirePath(WireOf(config))
      <4>1. \/ config.baseURL.form = "blank"
            \/ Trimmed(config.baseURL.path) = HomePath(config.provider)
        BY <1>5, <2>1 DEF Customary, HomePath
      <4> QED BY <1>5, <2>1, <4>1, HostedPath
    <3>2. CASE config.provider \in {"openai", "nvidia"}
      BY <3>1, <3>2, Paths DEF HomePath, WirePath, WireOf, ApiPath
    <3>3. CASE config.provider = "xai"
      BY <1>1, <3>1, <3>3, Paths DEF HomePath, WirePath, WireOf, ApiPath
    <3>4. CASE config.provider = "gemini"
      BY <3>1, <3>4, Paths DEF HomePath, WirePath, WireOf, ApiPath
    <3>5. CASE config.provider = "anthropic"
      BY <3>1, <3>5, Paths DEF HomePath, WirePath, WireOf, ApiPath
    <3> QED BY <1>1, <2>1, <3>2, <3>3, <3>4, <3>5 DEF Provider
  <2>2. CASE config.provider = "custom"
    <3>1. /\ NormalizeMode(config.mode) = "openai" <=> config.mode = "openai"
          /\ NormalizeMode(config.mode) = "anthropic"
               <=> config.mode = "anthropic"
      BY DEF NormalizeMode
    <3>2. Target(config).path =
            (IF NormalizeMode(config.mode) = "openai" THEN <<"v1">> ELSE <<>>)
            \o WirePath(WireOf(config))
      <4>1. \/ config.baseURL.form = "blank"
            \/ Trimmed(config.baseURL.path) = <<>>
            \/ /\ NormalizeMode(config.mode) = "openai"
               /\ Trimmed(config.baseURL.path) = <<"v1">>
        BY <1>5, <2>2, <3>1 DEF Customary
      <4> QED BY <1>5, <2>2, <4>1, CustomPath
    <3>3. CASE config.mode = "openai"
      BY <2>2, <3>1, <3>2, <3>3, Paths DEF WirePath, WireOf, ApiPath
    <3>4. CASE config.mode = "anthropic"
      BY <2>2, <3>1, <3>2, <3>4, Paths DEF WirePath, WireOf, ApiPath
    <3>5. CASE config.mode \notin {"openai", "anthropic"}
      BY <2>2, <3>1, <3>2, <3>5, Paths DEF WirePath, WireOf, ApiPath
    <3> QED BY <3>3, <3>4, <3>5
  <2> QED BY <2>1, <2>2
<1> QED BY <1>2, <1>3, <1>4, <1>5, Zenon DEF GoesHome

-----------------------------------------------------------------------------
(* Every step *)

\* The check of an evaluation under way fails with an error named like this.
LEMMA NamedFailure ==
  ASSUME PathInv, pc \in Running, NEW why \in Cause, NEW links,
         NEW kind \in Kind \ ContextKind, NEW code, NEW retryable,
         Names(links, kind, code, retryable),
         Fails(why, links)
  PROVE  /\ info' \in InfoType /\ info'.kind = kind /\ info'.code = code
         /\ info'.retryable <=> retryable
         /\ err' # <<>> /\ pc' = "done" /\ cause' = why
         /\ config' = config /\ ctx' = ctx /\ pass' = FALSE
         /\ stops' = FALSE
         /\ StopAgreesWithInfo'
<1>1. /\ err' = links /\ cause' = why /\ info' = Classify(links)
      /\ stops' = ContextEnded(links) /\ pc' = "done"
      /\ config' = config /\ ctx' = ctx /\ pass' = pass
  BY DEF Fails, MetricErrorCanceled
<1>2. pass = FALSE
  BY DEF PathInv, Quiet, TypeOK
<1>3. /\ links # <<>> /\ ~ContextEnded(links)
      /\ Classify(links) \in InfoType
      /\ Classify(links).kind = kind /\ Classify(links).code = code
      /\ Classify(links).retryable <=> retryable
  BY ClassifyType, Zenon DEF Names
<1>4. stops' = FALSE
  BY <1>1, <1>3, Zenon DEF ContextEnded, ErrorsIs
<1>5. StopAgreesWithInfo'
  BY <1>1, <1>3, <1>4 DEF StopAgreesWithInfo
<1> QED BY <1>1, <1>2, <1>3, <1>4, <1>5, Zenon

\* ... or because a context ended.
LEMMA EndedFailure ==
  ASSUME PathInv, pc \in Running, NEW why \in Cause, NEW links,
         NEW kind \in ContextKind, Ends(links, kind),
         Fails(why, links)
  PROVE  /\ info' \in InfoType /\ info'.kind = kind /\ info'.code = kind
         /\ ~info'.retryable
         /\ err' # <<>> /\ pc' = "done" /\ cause' = why
         /\ config' = config /\ ctx' = ctx /\ pass' = FALSE
         /\ stops' = TRUE
         /\ StopAgreesWithInfo'
<1>1. /\ err' = links /\ cause' = why /\ info' = Classify(links)
      /\ stops' = ContextEnded(links) /\ pc' = "done"
      /\ config' = config /\ ctx' = ctx /\ pass' = pass
  BY DEF Fails, MetricErrorCanceled
<1>2. pass = FALSE
  BY DEF PathInv, Quiet, TypeOK
<1>3. /\ links # <<>> /\ ContextEnded(links)
      /\ Classify(links) \in InfoType
      /\ Classify(links) = ContextInfo(kind)
  BY ClassifyType, Zenon DEF Ends
<1>4. /\ ContextInfo(kind).kind = kind /\ ContextInfo(kind).code = kind
      /\ ~ContextInfo(kind).retryable
  BY DEF ContextInfo, NoInfo
<1>5. stops' = TRUE
  BY <1>1, <1>3, Zenon DEF ContextEnded, ErrorsIs
<1>6. StopAgreesWithInfo'
  BY <1>1, <1>3, <1>4, <1>5 DEF StopAgreesWithInfo
<1> QED BY <1>1, <1>2, <1>3, <1>4, <1>5, <1>6, Zenon

\* A failed check keeps the invariant if its ErrorInfo names the cause.
LEMMA FailedKeeps ==
  ASSUME PathInv, pc \in Running,
         info' \in InfoType, err' # <<>>, pc' = "done", cause' \in Cause,
         config' = config, ctx' = ctx, reply' = reply, pass' = FALSE,
         stops' \in BOOLEAN, status' \in Status \cup {0, 200},
         StopAgreesWithInfo',
         (info.kind \in KindOf(cause))',
         info'.code = "provider_response_decode" <=> Unreadable',
         info'.retryable => cause' = "transport" \/ status' \in {429, 500, 503}
  PROVE  PathInv'
<1>1. TypeOK'
  <2>1. info'.kind \in Kind
    BY DEF InfoType
  <2>2. wire' = wire
    BY DEF wire
  <2>3. reply' \in Replies(wire') \cup {NoReply}
    BY <2>2 DEF PathInv, TypeOK
  <2>4. config' \in Configs /\ ctx' \in {"live", "canceled", "expired"}
    BY DEF PathInv, TypeOK
  <2> QED BY <2>1, <2>3, <2>4 DEF TypeOK
<1>2. Quiet'
  BY DEF Quiet, Running
<1>3. Legit'
  BY DEF PathInv, Legit, Running
<1>4. Checked'
  BY DEF Checked
<1>5. CauseTold'
  BY DEF CauseTold, Failed
<1>6. RetryableIsTransient'
  BY DEF RetryableIsTransient, Failed
<1>7. PassIsEarned'
  BY DEF PassIsEarned
<1>8. RequestGoesHome'
  BY DEF RequestGoesHome
<1> QED BY <1>1, <1>2, <1>3, <1>4, <1>5, <1>6, <1>7, <1>8 DEF PathInv

\* A failure named by its kind and code.
LEMMA NamedKeeps ==
  ASSUME PathInv, pc \in Running, NEW why \in Cause, NEW links,
         NEW kind \in Kind \ ContextKind, NEW code, NEW retryable,
         Names(links, kind, code, retryable),
         Fails(why, links),
         reply' = reply, status' \in Status \cup {0, 200},
         (kind \in KindOf(why))',
         code = "provider_response_decode" <=>
           why = "broken body" \/ (why = "reply" /\ ~reply.decodes),
         retryable => why = "transport" \/ status' \in {429, 500, 503}
  PROVE  PathInv'
<1>1. /\ info' \in InfoType /\ info'.kind = kind /\ info'.code = code
      /\ info'.retryable <=> retryable
      /\ err' # <<>> /\ pc' = "done" /\ cause' = why
      /\ config' = config /\ ctx' = ctx /\ pass' = FALSE
      /\ stops' = FALSE
      /\ StopAgreesWithInfo'
  BY NamedFailure
<1>2. (info.kind \in KindOf(cause))'
  BY <1>1 DEF KindOf
<1>3. info'.code = "provider_response_decode" <=> Unreadable'
  <2>1. Unreadable' <=> why = "broken body" \/ (why = "reply" /\ ~reply.decodes)
    BY <1>1, Zenon DEF Unreadable
  <2> QED BY <1>1, <2>1, Zenon
<1>4. info'.retryable => cause' = "transport" \/ status' \in {429, 500, 503}
  BY <1>1
<1>5. stops' \in BOOLEAN
  BY <1>1
<1> QED BY <1>1, <1>2, <1>3, <1>4, <1>5, FailedKeeps

\* A failure because a context ended.
LEMMA EndedKeeps ==
  ASSUME PathInv, pc \in Running, NEW why \in {"context", "client timeout"},
         NEW links, NEW kind \in ContextKind, Ends(links, kind),
         Fails(why, links),
         reply' = reply, status' = status,
         (kind \in KindOf(why))'
  PROVE  PathInv'
<1>0. why \in Cause
  BY DEF Cause
<1>1. /\ info' \in InfoType /\ info'.kind = kind /\ info'.code = kind
      /\ ~info'.retryable
      /\ err' # <<>> /\ pc' = "done" /\ cause' = why
      /\ config' = config /\ ctx' = ctx /\ pass' = FALSE
      /\ stops' = TRUE
      /\ StopAgreesWithInfo'
  BY <1>0, EndedFailure
<1>2. (info.kind \in KindOf(cause))'
  BY <1>1 DEF KindOf
<1>3. info'.code = "provider_response_decode" <=> Unreadable'
  BY <1>1 DEF Unreadable, ContextKind
<1>4. status' \in Status \cup {0, 200} /\ stops' \in BOOLEAN
  BY <1>1 DEF PathInv, TypeOK
<1> QED BY <1>0, <1>1, <1>2, <1>3, <1>4, FailedKeeps

\* The error of the case context that ended, and its name.
LEMMA CaseContext ==
  /\ CtxError \in Context
  /\ Classify(<<CtxError>>).kind = ContextName(CtxError)
  /\ ContextName(CtxError) \in ContextKind
<1>1. CtxError \in Context
  BY DEF CtxError, Context
<1>2. Ends(<<CtxError>>, ContextName(CtxError))
  BY <1>1, PlainLinks, ShortErrors, OnlyContextEnds DEF Context, ContextName
<1>3. Classify(<<CtxError>>).kind = ContextName(CtxError)
  BY <1>2 DEF Ends, ContextInfo, NoInfo
<1> QED BY <1>1, <1>3 DEF ContextName, ContextKind

\* Nothing is done before New has said yes, and Wires knows every wire.
LEMMA RunningOn ==
  ASSUME PathInv
  PROVE  /\ wire \in Wire /\ wire \in Labels
         /\ config \in ConfigType
         /\ status \in Status \cup {0, 200}
         /\ pc \in Running => Refusal(config) = <<>>
<1>1. config \in ConfigType
  BY ConfigsAssumption DEF PathInv, TypeOK
<1>2. wire \in Wire
  BY <1>1, WireIsWire DEF wire
<1> QED BY <1>1, <1>2, WireLabels DEF PathInv, TypeOK, Legit

LEMMA ParserFailsKeeps ==
  ASSUME PathInv, NoJudge \/ NoExpectation \/ ParseFails \/ Panics
  PROVE  PathInv'
<1>1. status' \in Status \cup {0, 200} /\ reply' = reply /\ pc \in Running
  BY RunningOn DEF NoJudge, NoExpectation, ParseFails, Panics, Running
<1>2. {"metric", "metric_parse", "panic"} \subseteq Kind \ ContextKind
  BY DEF Kind, ContextKind
<1>3. {"no judge", "no expectation", "verdict", "panic"} \subseteq Cause
  BY DEF Cause
<1>4. CASE NoJudge
  <2>1. ("metric" \in KindOf("no judge"))'
    BY DEF KindOf
  <2>2. Fails("no judge", <<Gaugo("metric", "metric_invalid")>>)
    BY <1>4 DEF NoJudge
  <2> QED BY <1>1, <1>2, <1>3, <2>1, <2>2, PlainlyNamed, NamedKeeps
<1>5. CASE NoExpectation
  <2>1. ("metric" \in KindOf("no expectation"))'
    BY DEF KindOf
  <2>2. Fails("no expectation", <<Gaugo("metric", "metric_invalid")>>)
    BY <1>5 DEF NoExpectation
  <2> QED BY <1>1, <1>2, <1>3, <2>1, <2>2, PlainlyNamed, NamedKeeps
<1>6. CASE ParseFails
  <2>1. ("metric_parse" \in KindOf("verdict"))'
    BY DEF KindOf
  <2>2. Fails("verdict", <<Gaugo("metric_parse", "metric_parse"), Plain>>)
    BY <1>6 DEF ParseFails
  <2> QED BY <1>1, <1>2, <1>3, <2>1, <2>2, PlainlyNamed, NamedKeeps
<1>7. CASE Panics
  <2>1. ("panic" \in KindOf("panic"))'
    BY DEF KindOf
  <2>2. Fails("panic", <<[Gaugo("panic", "panic") EXCEPT !.type = "foreign"]>>)
    BY <1>7 DEF Panics
  <2> QED BY <1>1, <1>2, <1>3, <2>1, <2>2, PlainlyNamed, NamedKeeps
<1> QED BY <1>4, <1>5, <1>6, <1>7

LEMMA ContextKeeps ==
  ASSUME PathInv, LimiterGivesUp \/ PostEnded \/ PostTimesOut
  PROVE  PathInv'
<1>1. wire \in Labels
  BY RunningOn
<1>2. CASE LimiterGivesUp \/ PostEnded
  <2>1. PICK links :
          /\ Ends(links, ContextName(CtxError))
          /\ Fails("context", links)
          /\ reply' = reply /\ status' = status /\ pc \in Running
    <3>1. CASE LimiterGivesUp
      BY <1>1, <3>1, CaseContext, ContextNamed DEF LimiterGivesUp, Running
    <3>2. CASE PostEnded
      <4>1. PICK inner :
              /\ inner \in {ExecuteRequestError(CtxError = Deadline, CtxError),
                            ReadBodyError("provider_response_decode", CtxError),
                            <<CtxError>>}
              /\ PostFails("context", inner)
        BY <3>2, Zenon DEF PostEnded
      <4>2. (CtxError = Deadline) \in BOOLEAN
        OBVIOUS
      <4>3. Ends(JudgeEvaluationError(JudgeRequestErrorForWire(inner)),
                 ContextName(CtxError))
        BY <1>1, <4>1, <4>2, CaseContext, ContextNamed
      <4> QED BY <4>1, <4>3 DEF PostFails, Running
    <3> QED BY <1>2, <3>1, <3>2
  <2>2. ctx' = ctx
    BY <2>1 DEF Fails
  <2>3. KindOf("context") = {ContextName(CtxError)}
    BY CaseContext DEF KindOf
  <2>4. KindOf("context")' = KindOf("context")
    BY <2>2 DEF KindOf, CtxError
  <2>5. (ContextName(CtxError))' = ContextName(CtxError)
    BY <2>2 DEF ContextName, CtxError
  <2> DEFINE kind == ContextName(CtxError)
  <2>6. PICK k \in ContextKind : k = kind
    BY CaseContext
  <2>7. (k \in KindOf("context"))'
    BY <2>3, <2>4, <2>6
  <2>8. Ends(links, k)
    BY <2>1, <2>6
  <2> QED BY <2>1, <2>7, <2>8, EndedKeeps
<1>3. CASE PostTimesOut
  <2>1. PICK links :
          /\ Ends(links, "context_deadline")
          /\ Fails("client timeout", links)
          /\ reply' = reply /\ status' = status /\ pc \in Running
    <3>1. PICK inner :
            /\ inner \in {ExecuteRequestError(TRUE, Deadline),
                          ReadBodyError("provider_response_decode", Deadline)}
            /\ PostFails("client timeout", inner)
      BY <1>3, Zenon DEF PostTimesOut
    <3>2. Deadline \in Context /\ ContextName(Deadline) = "context_deadline"
      BY PlainLinks DEF Context, ContextName
    <3>3. Ends(JudgeEvaluationError(JudgeRequestErrorForWire(inner)),
               "context_deadline")
      BY <1>1, <3>1, <3>2, ContextNamed
    <3> QED BY <3>1, <3>3 DEF PostFails, Running
  <2>2. ("context_deadline" \in KindOf("client timeout"))'
    BY DEF KindOf
  <2>3. "context_deadline" \in ContextKind
    BY DEF ContextKind
  <2> QED BY <2>1, <2>2, <2>3, EndedKeeps
<1> QED BY <1>2, <1>3

LEMMA AttemptKeeps ==
  ASSUME PathInv, PostBreaks \/ BodyBreaks \/ BodyTooLarge
  PROVE  PathInv'
<1>1. wire \in Labels /\ status \in Status \cup {0, 200}
  BY RunningOn
<1>2. {"provider_request", "provider_response"} \subseteq Kind \ ContextKind
  BY DEF Kind, ContextKind
<1>3. {"transport", "broken body", "large body"} \subseteq Cause
  BY DEF Cause
<1>4. CASE PostBreaks
  <2>1. PICK transient \in BOOLEAN :
          PostFails("transport", ExecuteRequestError(transient, Plain))
    BY <1>4, Zenon DEF PostBreaks
  <2> DEFINE links == JudgeEvaluationError(JudgeRequestErrorForWire(
                        ExecuteRequestError(transient, Plain)))
  <2>2. /\ Fails("transport", links) /\ pc \in Running
        /\ status' = status /\ reply' = reply
    BY <2>1 DEF PostFails, Running
  <2>3. Names(links, "provider_request", "provider_http_request", transient)
    BY <1>1, AttemptNamed
  <2>4. ("provider_request" \in KindOf("transport"))'
    BY DEF KindOf
  <2> HIDE DEF links
  <2> QED BY <1>1, <1>2, <1>3, <2>2, <2>3, <2>4, NamedKeeps
<1>5. CASE BodyBreaks
  <2> DEFINE links == JudgeEvaluationError(JudgeRequestErrorForWire(
                        ReadBodyError("provider_response_decode", Plain)))
  <2>1. /\ Fails("broken body", links) /\ pc \in Running
        /\ status' = status /\ reply' = reply
    BY <1>5 DEF BodyBreaks, PostFails, Running
  <2>2. Names(links, "provider_response", "provider_response_decode", FALSE)
    BY <1>1, AttemptNamed
  <2>3. ("provider_response" \in KindOf("broken body"))'
    BY DEF KindOf
  <2> HIDE DEF links
  <2> QED BY <1>1, <1>2, <1>3, <2>1, <2>2, <2>3, NamedKeeps
<1>6. CASE BodyTooLarge
  <2> DEFINE links == JudgeEvaluationError(JudgeRequestErrorForWire(
                        ReadBodyError("provider_response_too_large", Plain)))
  <2>1. /\ Fails("large body", links) /\ pc \in Running
        /\ status' = status /\ reply' = reply
    BY <1>6 DEF BodyTooLarge, PostFails, Running
  <2>2. Names(links, "provider_response", "provider_response_too_large", FALSE)
    BY <1>1, AttemptNamed
  <2>3. ("provider_response" \in KindOf("large body"))'
    BY DEF KindOf
  <2> HIDE DEF links
  <2> QED BY <1>1, <1>2, <1>3, <2>1, <2>2, <2>3, NamedKeeps
<1> QED BY <1>4, <1>5, <1>6

LEMMA StatusKeeps ==
  ASSUME PathInv, StatusFails
  PROVE  PathInv'
<1>1. PICK code \in Status : code = status'
  BY DEF StatusFails
<1> DEFINE links == JudgeEvaluationError(StatusErrorForWire(code))
<1>2. /\ Fails("status", links) /\ pc \in Running /\ reply' = reply
  BY <1>1 DEF StatusFails, Running
<1>3. wire \in Labels
  BY RunningOn
<1>4. /\ Names(links, KindFromStatusCode(code), "provider_http_status",
               RetryableStatus(code))
  BY <1>1, <1>3, WireNamed
<1>5. KindFromStatusCode(code) \in Kind \ ContextKind
  BY <1>1, StatusKinds DEF Status
<1>6. (KindFromStatusCode(code) \in KindOf("status"))'
  BY <1>1 DEF KindOf
<1>7. RetryableStatus(code) => status' \in {429, 500, 503}
  BY <1>1 DEF RetryableStatus, Status
<1>8. "status" \in Cause
  BY DEF Cause
<1> HIDE DEF links
<1> QED BY <1>1, <1>2, <1>4, <1>5, <1>6, <1>7, <1>8, NamedKeeps

LEMMA ReplyKeeps ==
  ASSUME PathInv, ReplyRefused
  PROVE  PathInv'
<1> DEFINE fault == Fault(wire, reply)
           Bad   == {"provider_response", "provider_refusal",
                     "provider_truncated"}
<1>1. /\ wire \in Wire /\ wire \in Labels
      /\ status' \in Status \cup {0, 200} /\ reply' = reply
      /\ pc \in Running
  BY RunningOn DEF ReplyRefused, Running
<1>2. reply \in Replies(wire) /\ fault # ""
  BY DEF ReplyRefused, PathInv, Checked
<1>3. /\ fault \in Bad
      /\ reply.decodes => fault \in KindsOfReply
      /\ "provider_response" \in KindsOfReply \/ reply.decodes
  BY <1>1, <1>2, RefusedReply
<1>4. Bad \subseteq Kind \ ContextKind /\ "reply" \in Cause
  BY DEF Kind, ContextKind, Cause
<1>5. config' = config
  BY DEF ReplyRefused, Fails
<1>6. KindOf("reply")' = KindsOfReply
  BY <1>1, <1>5 DEF KindOf, KindsOfReply, StopRead, wire
<1> HIDE DEF fault
<1>7. CASE reply.decodes
  <2> DEFINE links == JudgeEvaluationError(DecodeResponseErrorForWire(fault))
  <2>1. Fails("reply", links)
    BY <1>7 DEF ReplyRefused, fault
  <2>2. Names(links, fault, DecodeErrorCode(fault), FALSE)
    BY <1>1, <1>3, WireNamed
  <2>3. DecodeErrorCode(fault) # "provider_response_decode"
    BY DEF DecodeErrorCode
  <2>4. PICK kind \in Bad : kind = fault
    BY <1>3
  <2>5. (kind \in KindOf("reply"))'
    BY <1>3, <1>6, <1>7, <2>4
  <2>6. Names(links, kind, DecodeErrorCode(kind), FALSE)
    BY <2>2, <2>4
  <2> HIDE DEF links
  <2> QED BY <1>1, <1>4, <1>7, <2>1, <2>3, <2>4, <2>5, <2>6, NamedKeeps
<1>8. CASE ~reply.decodes
  <2> DEFINE links == JudgeEvaluationError(DecodeResponseWrapErrorForWire)
  <2>1. Fails("reply", links)
    BY <1>8 DEF ReplyRefused
  <2>2. Names(links, "provider_response", "provider_response_decode", FALSE)
    BY <1>1, WireNamed
  <2>3. ("provider_response" \in KindOf("reply"))'
    BY <1>3, <1>6, <1>8
  <2> HIDE DEF links
  <2> QED BY <1>1, <1>4, <1>8, <2>1, <2>2, <2>3, NamedKeeps
<1> QED BY <1>7, <1>8

\* A step on which nothing fails and the check is not decided.
LEMMA GoingOnKeeps ==
  ASSUME PathInv, pc \in Running \cup {"new"}, pc' \in Running,
         config' = config, err' = err, cause' = cause, info' = info,
         stops' = stops, pass' = pass,
         Refusal(config) = <<>>,
         ctx' \in {"live", "canceled", "expired"},
         status' \in Status \cup {0, 200},
         reply' \in Replies(wire) \cup {NoReply},
         Checked'
  PROVE  PathInv'
<1>1. err = <<>> /\ cause = "none" /\ ~stops /\ ~pass
  BY DEF PathInv, Quiet, Running
<1>2. TypeOK'
  <2>1. wire' = wire
    BY DEF wire
  <2>2. pc' \in {"evaluate", "admit", "post", "read", "parse"}
    BY DEF Running
  <2>3. config' \in Configs
    BY DEF PathInv, TypeOK
  <2>4. reply' \in Replies(wire') \cup {NoReply}
    BY <2>1
  <2>5. /\ cause' \in Cause /\ info'.kind \in Kind
        /\ stops' \in BOOLEAN /\ pass' \in BOOLEAN
    BY DEF PathInv, TypeOK
  <2> QED BY <2>2, <2>3, <2>4, <2>5 DEF TypeOK
<1>3. Quiet' /\ Legit'
  BY <1>1 DEF Quiet, Legit
<1>4. pc' \notin {"done", "refused"}
  BY DEF Running
<1>5. CauseTold' /\ StopAgreesWithInfo' /\ RetryableIsTransient'
  BY <1>4 DEF CauseTold, StopAgreesWithInfo, RetryableIsTransient, Failed
<1>6. PassIsEarned'
  BY <1>1 DEF PassIsEarned
<1>7. RequestGoesHome'
  <2>1. GoesHome
    BY RunningOn, AcceptedGoesHome
  <2>2. GoesHome'
    BY <2>1 DEF GoesHome, Customary, ApiPath, wire
  <2> QED BY <2>2 DEF RequestGoesHome
<1> QED BY <1>2, <1>3, <1>5, <1>6, <1>7 DEF PathInv

LEMMA ProgressKeeps ==
  ASSUME PathInv,
         NewJudge \/ Builds \/ Admitted \/ Replied \/ ReplyAccepted \/ EndContext
  PROVE  PathInv'
<1>1. /\ ctx \in {"live", "canceled", "expired"}
      /\ reply \in Replies(wire) \cup {NoReply}
      /\ status \in Status \cup {0, 200}
      /\ Checked
      /\ pc \in Running => Refusal(config) = <<>>
  BY RunningOn DEF PathInv, TypeOK
<1>2. CASE NewJudge
  <2>1. Checked'
    BY <1>2 DEF NewJudge, Checked
  <2> QED BY <1>1, <1>2, <2>1, GoingOnKeeps DEF NewJudge, Running
<1>3. CASE Builds \/ Admitted
  <2>1. Checked'
    BY <1>3 DEF Builds, Admitted, Checked
  <2> QED BY <1>1, <1>3, <2>1, GoingOnKeeps DEF Builds, Admitted, Running
<1>4. CASE Replied
  <2>1. Checked'
    BY <1>4 DEF Replied, Checked, wire
  <2> QED BY <1>1, <1>4, <2>1, GoingOnKeeps DEF Replied, Running
<1>5. CASE ReplyAccepted
  <2>1. Checked'
    BY <1>1, <1>5 DEF ReplyAccepted, Checked, wire
  <2> QED BY <1>1, <1>5, <2>1, GoingOnKeeps DEF ReplyAccepted, Running
<1>6. CASE EndContext
  <2>1. Checked'
    BY <1>1, <1>6 DEF EndContext, Checked, wire
  <2> QED BY <1>1, <1>6, <2>1, GoingOnKeeps DEF EndContext, Running
<1> QED BY <1>2, <1>3, <1>4, <1>5, <1>6

LEMMA RefusalKeeps ==
  ASSUME PathInv, NewRefuses
  PROVE  PathInv'
<1>1. /\ pc' = "refused" /\ info' = Classify(err') /\ err' \in ConfigErrors
      /\ config' = config /\ ctx' = ctx /\ status' = status /\ reply' = reply
      /\ cause' = cause /\ stops' = stops /\ pass' = pass
  BY RefusalTells DEF NewRefuses
<1>2. /\ info'.kind = "config"
      /\ ErrorsIs(err', Sentinel("config"))
  BY <1>1, ConfigErrorKind
<1>3. cause = "none" /\ ~stops /\ ~pass
  BY DEF PathInv, Quiet, NewRefuses
<1>4. TypeOK'
  <2>1. wire' = wire
    BY <1>1 DEF wire
  <2>2. "config" \in Kind
    BY DEF Kind
  <2> QED BY <1>1, <1>2, <2>1, <2>2 DEF PathInv, TypeOK
<1>5. Quiet' /\ Legit' /\ Checked'
  BY <1>1, <1>3 DEF Quiet, Legit, Checked, Running
<1>6. CauseTold' /\ StopAgreesWithInfo' /\ RetryableIsTransient'
  <2>1. ErrorsIs(err, Sentinel("config"))'
    BY <1>2 DEF ErrorsIs
  <2> QED BY <1>1, <1>2, <2>1
        DEF CauseTold, StopAgreesWithInfo, RetryableIsTransient, Failed
<1>7. PassIsEarned' /\ RequestGoesHome'
  BY <1>1, <1>3 DEF PassIsEarned, RequestGoesHome
<1> QED BY <1>4, <1>5, <1>6, <1>7 DEF PathInv

\* A check can pass only here.
LEMMA ScoredKeeps ==
  ASSUME PathInv, Scored
  PROVE  PathInv'
<1>1. /\ pc = "parse" /\ pc' = "done" /\ pass' \in BOOLEAN
      /\ config' = config /\ ctx' = ctx /\ status' = status /\ reply' = reply
      /\ err' = err /\ cause' = cause /\ info' = info /\ stops' = stops
      /\ TextOf(wire, reply.parts) = "verdict"
  BY DEF Scored
<1>2. err = <<>> /\ Refusal(config) = <<>> /\ wire' = wire
  BY <1>1 DEF PathInv, Quiet, Legit, Running, wire
<1>3. /\ reply.decodes
      /\ wire # "ollama" => reply.stop \in {"end", "other"}
      /\ wire = "chat" => "refusal" \notin Range(reply.parts)
  <2>1. /\ reply \in Replies(wire) /\ Fault(wire, reply) = ""
        /\ wire \in Wire
    BY <1>1, RunningOn DEF PathInv, Checked
  <2> QED BY <2>1, PassedReply
<1>4. TypeOK'
  BY <1>1, <1>2 DEF PathInv, TypeOK
<1>5. Quiet' /\ Legit' /\ Checked'
  BY <1>1, <1>2 DEF Quiet, Legit, Checked, Running
<1>6. CauseTold' /\ StopAgreesWithInfo' /\ RetryableIsTransient'
  BY <1>1, <1>2 DEF CauseTold, StopAgreesWithInfo, RetryableIsTransient, Failed
<1>7. PassIsEarned' /\ RequestGoesHome'
  BY <1>1, <1>2, <1>3 DEF PassIsEarned, RequestGoesHome
<1> QED BY <1>4, <1>5, <1>6, <1>7 DEF PathInv

-----------------------------------------------------------------------------
(* The theorems *)

LEMMA PathStarts ==
  ASSUME Init
  PROVE  PathInv
<1>1. TypeOK
  BY DEF Init, TypeOK, Cause, NoInfo, Kind
<1>2. Quiet /\ Legit /\ Checked
  BY DEF Init, Quiet, Legit, Checked, Running
<1>3. /\ CauseTold /\ StopAgreesWithInfo /\ RetryableIsTransient
      /\ PassIsEarned /\ RequestGoesHome
  BY DEF Init, CauseTold, StopAgreesWithInfo, RetryableIsTransient, Failed,
         PassIsEarned, RequestGoesHome
<1> QED BY <1>1, <1>2, <1>3 DEF PathInv

LEMMA PathSteps ==
  ASSUME PathInv, [Next]_vars
  PROVE  PathInv'
<1>1. CASE NewRefuses
  BY <1>1, RefusalKeeps
<1>2. CASE NewJudge \/ Builds \/ Admitted \/ Replied \/ ReplyAccepted \/ EndContext
  BY <1>2, ProgressKeeps
<1>3. CASE NoJudge \/ NoExpectation \/ ParseFails \/ Panics
  BY <1>3, ParserFailsKeeps
<1>4. CASE LimiterGivesUp \/ PostEnded \/ PostTimesOut
  BY <1>4, ContextKeeps
<1>5. CASE PostBreaks \/ BodyBreaks \/ BodyTooLarge
  BY <1>5, AttemptKeeps
<1>6. CASE StatusFails
  BY <1>6, StatusKeeps
<1>7. CASE ReplyRefused
  BY <1>7, ReplyKeeps
<1>8. CASE Scored
  BY <1>8, ScoredKeeps
<1>9. CASE UNCHANGED vars
  <2>1. /\ pc' = pc /\ config' = config /\ ctx' = ctx /\ status' = status
        /\ reply' = reply /\ err' = err /\ cause' = cause /\ info' = info
        /\ stops' = stops /\ pass' = pass /\ wire' = wire
    BY <1>9 DEF vars, wire
  <2>2. TypeOK'
    BY <2>1 DEF PathInv, TypeOK
  <2>3. Quiet' /\ Legit' /\ Checked'
    BY <2>1 DEF PathInv, Quiet, Legit, Checked
  <2>4. CauseTold'
    <3>1. KindOf(cause)' = KindOf(cause) /\ (Unreadable <=> Unreadable')
      BY <2>1 DEF KindOf, KindsOfReply, StopRead, CtxError, Unreadable
    <3>2. Failed' <=> Failed
      BY <2>1 DEF Failed
    <3> QED BY <2>1, <3>1, <3>2 DEF PathInv, CauseTold
  <2>5. StopAgreesWithInfo' /\ RetryableIsTransient'
    BY <2>1 DEF PathInv, StopAgreesWithInfo, RetryableIsTransient, Failed
  <2>6. PassIsEarned'
    BY <2>1 DEF PathInv, PassIsEarned
  <2>7. RequestGoesHome'
    BY <2>1 DEF PathInv, RequestGoesHome, GoesHome, Customary, ApiPath
  <2> QED BY <2>2, <2>3, <2>4, <2>5, <2>6, <2>7 DEF PathInv
<1> QED BY <1>1, <1>2, <1>3, <1>4, <1>5, <1>6, <1>7, <1>8, <1>9 DEF Next

\* For every set of configurations and every number of pieces of text, the
\* invariant holds in all states of an evaluation.
THEOREM PathInvariant == Spec => []PathInv
BY PathStarts, PathSteps, PTL DEF Spec

\* The types of an evaluation's state (suite.go, wire.go, judge.go).
THEOREM PathTyped == Spec => []TypeOK
<1>1. PathInv => TypeOK
  BY DEF PathInv
<1> QED BY <1>1, PathInvariant, PTL

\* The stored ErrorInfo names what went wrong, through all layers of wrapping
\* and through the re-classification of JudgeRequestErrorForWire.
THEOREM CausesTold == Spec => []CauseTold
<1>1. PathInv => CauseTold
  BY DEF PathInv
<1> QED BY <1>1, PathInvariant, PTL

\* metricErrorCanceled and Classify agree on which errors end the case.
THEOREM StopsAgree == Spec => []StopAgreesWithInfo
<1>1. PathInv => StopAgreesWithInfo
  BY DEF PathInv
<1> QED BY <1>1, PathInvariant, PTL

\* Only what the HTTP client would retry is stored as retryable.
THEOREM RetryableTransient == Spec => []RetryableIsTransient
<1>1. PathInv => RetryableIsTransient
  BY DEF PathInv
<1> QED BY <1>1, PathInvariant, PTL

\* No check passes on a reply that a wire which reads why the model stopped
\* knows to be cut, refused or blocked, nor on text that is no verdict.
THEOREM PassEarned == Spec => []PassIsEarned
<1>1. PathInv => PassIsEarned
  BY DEF PathInv
<1> QED BY <1>1, PathInvariant, PTL

\* Whatever configuration New accepts, the requests of its judge go to the
\* provider's own host and path unless the configuration says otherwise.
THEOREM RequestsGoHome == Spec => []RequestGoesHome
<1>1. PathInv => RequestGoesHome
  BY DEF PathInv
<1> QED BY <1>1, PathInvariant, PTL
=============================================================================
