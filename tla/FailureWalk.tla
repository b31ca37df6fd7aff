----------------------------- MODULE FailureWalk ----------------------------
(***************************************************************************)
(* Classify (internal/failure/failure.go) link by link: the two context    *)
(* errors first, then the walk over the tree, then the kind of the status. *)
(* The error is any sequence of at most MaxLinks of the given Links.       *)
(***************************************************************************)
EXTENDS Failure

CONSTANTS Links,     \* the links errors are made of
          MaxLinks   \* bound on the links of one error

\* Errors of the standard library say nothing of Gaugo's kinds.
LinksAssumption ==
  /\ Links \subseteq LinkType
  /\ MaxLinks \in Nat \ {0}
  /\ \A link \in Links :
       link.type \in {"canceled", "deadline", "plain"} =>
         link = [Silent EXCEPT !.type = link.type]
ASSUME WellFormedLinks == LinksAssumption

VARIABLES chain,  \* the error to classify
          stage,  \* "ask" the context errors, "walk", "done"
          at,     \* the link walk visits next
          found   \* the ErrorInfo being filled

walkVars == <<chain, stage, at, found>>

WalkTypeOK ==
  /\ chain \in UNION {[1 .. n -> Links] : n \in 1 .. MaxLinks}
  /\ stage \in {"ask", "walk", "done"}
  /\ at \in 1 .. Len(chain) + 1
  /\ found \in InfoType

WalkInit ==
  /\ \E n \in 1 .. MaxLinks : chain \in [1 .. n -> Links]
  /\ stage = "ask"
  /\ at = 1
  /\ found = NoInfo

FindsCanceled ==
  /\ stage = "ask"
  /\ ErrorsIs(chain, Canceled)
  /\ found' = ContextInfo("context_canceled")
  /\ stage' = "done"
  /\ UNCHANGED <<chain, at>>

FindsDeadline ==
  /\ stage = "ask"
  /\ ~ErrorsIs(chain, Canceled)
  /\ ErrorsIs(chain, Deadline)
  /\ found' = ContextInfo("context_deadline")
  /\ stage' = "done"
  /\ UNCHANGED <<chain, at>>

\* Mutant of FindsNoContext: a context error does not keep walk away.
FindsNoContextEver ==
  /\ stage = "ask"
  /\ stage' = "walk"
  /\ UNCHANGED <<chain, at, found>>

FindsNoContext ==
  /\ stage = "ask"
  /\ ~ContextEnded(chain)
  /\ stage' = "walk"
  /\ UNCHANGED <<chain, at, found>>

Visit ==
  /\ stage = "walk"
  /\ at <= Len(chain)
  /\ found' = Merge(found, chain[at])
  /\ at' = at + 1
  /\ UNCHANGED <<chain, stage>>

Finish ==
  /\ stage = "walk"
  /\ at > Len(chain)
  /\ found' = KindOrStatus(found)
  /\ stage' = "done"
  /\ UNCHANGED <<chain, at>>

WalkNext == FindsCanceled \/ FindsDeadline \/ FindsNoContext \/ Visit \/ Finish

WalkSpec == WalkInit /\ [][WalkNext]_walkVars

-----------------------------------------------------------------------------
(* Properties *)

\* The link that decides the kind: the outermost one that knows its own.
Decides(i) ==
  /\ i \in DOMAIN chain
  /\ Known(LinkKind(chain[i]))
  /\ \A j \in 1 .. i - 1 : ~Known(LinkKind(chain[j]))

\* What has been merged so far: the walk's own invariant.
WalkInv ==
  /\ stage = "ask"  => found = NoInfo /\ at = 1
  /\ stage = "walk" =>
       /\ ~ContextEnded(chain)
       /\ \/ /\ found.kind = "unknown"
             /\ \A j \in 1 .. at - 1 : ~Known(LinkKind(chain[j]))
          \/ \E i \in 1 .. at - 1 : Decides(i) /\ found.kind = LinkKind(chain[i])
       /\ found.retryable <=> \E j \in 1 .. at - 1 : chain[j].retryable

\* The kind an ErrorInfo carries is the one of the outermost link that knows
\* its kind, however deep other kinds are (a wire that wraps a classified
\* error keeps the last word); with no such link it is the kind of the status,
\* and "unknown" only without either.
KindIsOutermost ==
  stage = "done" /\ ~ContextEnded(chain) =>
    \/ \E i \in DOMAIN chain : Decides(i) /\ found.kind = LinkKind(chain[i])
    \/ /\ \A i \in DOMAIN chain : ~Known(LinkKind(chain[i]))
       /\ found.kind = IF found.status = 0 THEN "unknown"
                      ELSE KindFromStatusCode(found.status)

\* An ended context outranks every other kind wherever it is in the tree, a
\* canceled one outranks a passed deadline, and no other error is reported as
\* an ended context unless a link claims that kind itself.
ContextOutranks ==
  stage = "done" =>
    /\ ErrorsIs(chain, Canceled) => found.kind = "context_canceled"
    /\ ErrorsIs(chain, Deadline) /\ ~ErrorsIs(chain, Canceled)
         => found.kind = "context_deadline"
    /\ found.kind \in ContextKind =>
         \/ ContextEnded(chain)
         \/ \E i \in DOMAIN chain : chain[i].kind = found.kind

\* A retryable cause is never lost on the way out, and none is invented: the
\* classification of an error that is not an ended context is retryable
\* exactly if one of its links is.
RetryableKept ==
  stage = "done" /\ ~ContextEnded(chain) =>
    (found.retryable <=> \E i \in DOMAIN chain : chain[i].retryable)

\* The two documented ways to branch agree on Gaugo's own errors: when the
\* link that decides the kind is a *failure.Error, errors.Is finds the
\* sentinel of that kind and a *failure.Error of that kind.
TypedKindMatches ==
  stage = "done" /\ ~ContextEnded(chain) =>
    \A i \in DOMAIN chain :
      Decides(i) /\ chain[i].type = "gaugo" =>
        /\ ErrorsIs(chain, Sentinel(found.kind))
        /\ ErrorsIs(chain, Gaugo(found.kind, ""))

\* value is what the outermost of the first n links with something to say said,
\* if one had.
SaidFirst(value, said, silence, n) ==
  \/ value \in silence /\ \A j \in 1 .. n : said[j] \in silence
  \/ \E i \in 1 .. n :
       /\ said[i] \notin silence
       /\ value = said[i]
       /\ \A j \in 1 .. i - 1 : said[j] \in silence

\* What code, status and labels are after the first n links.
ToldFirst(n) ==
  /\ SaidFirst(found.code, [i \in DOMAIN chain |-> chain[i].code],
               {"", "unknown"}, n)
  /\ SaidFirst(found.status, [i \in DOMAIN chain |-> chain[i].status], {0}, n)
  /\ SaidFirst(found.label, [i \in DOMAIN chain |-> chain[i].label], {""}, n)

\* Code, status and labels are each those of the outermost link that has one,
\* whichever link the kind is from: what an inner layer knew and no outer one
\* says better is not lost, and no outer one is overruled.
DetailsAreOutermost ==
  stage = "done" /\ ~ContextEnded(chain) => ToldFirst(Len(chain))

\* docs/reference/errors-and-retries.md lines 13-14, "Use errors.Is or
\* ErrorInfo.Kind for branching": the two agree whatever the error's type.
KindMatches ==
  stage = "done" /\ ~ContextEnded(chain) =>
    \A i \in DOMAIN chain : Decides(i) => ErrorsIs(chain, Sentinel(found.kind))
=============================================================================
