---------------------------- MODULE RunnerProofs ----------------------------
(***************************************************************************)
(* Proofs about Runner, for any number of cases, metrics, workers and      *)
(* callers' choices.  The runner takes steps of WorkerPool, so the pool's  *)
(* inductive invariant holds in it; together with RunnerInv below it gives *)
(* the properties of the result.                                           *)
(***************************************************************************)
EXTENDS Runner, SequenceTheorems, NaturalsInduction, WellFoundedInduction,
        TLAPS

PoolProofs == INSTANCE WorkerPoolProofs

\* The configurations of a runner are what RunIndexed may be called with.
LEMMA PoolAssumption == MaxTotal \in Nat /\ Limits \subseteq Int
  BY RunnerAssumption DEF RunnerAssumption, Limits

\* A set of naturals that is not empty has a least element.
LEMMA LeastExists ==
  ASSUME NEW T, T \subseteq Nat, T # {}
  PROVE  \E m \in T : \A n \in T : m <= n
<1> DEFINE less == {pair \in Nat \X Nat : pair[1] < pair[2]}
<1>1. IsWellFoundedOn(less, Nat)
  BY NatLessThanWellFounded DEF OpToRel
<1>2. PICK m \in T : \A n \in T : ~ (<<n, m>> \in less)
  <2> HIDE DEF less
  <2> QED BY <1>1, WFMin
<1>3. \A n \in T : m <= n
  <2> TAKE n \in T
  <2>1. m \in Nat /\ n \in Nat
    OBVIOUS
  <2>2. n < m => <<n, m>> \in less
    BY <2>1
  <2> QED BY <1>2, <2>1, <2>2
<1> QED BY <1>3

-----------------------------------------------------------------------------
(* The loops of result.go and reporter.go, folds in the model *)

\* The bodies of the loops, by name; n is the name MetricsByName looks for.
Body(loop, n, acc, x) ==
  IF loop = "tell check" THEN TellCheck(acc, x)
  ELSE IF loop = "count check" THEN CountCheck(acc, x)
  ELSE IF loop = "take failed" THEN IF x.pass THEN acc ELSE Append(acc, x)
  ELSE IF loop = "take named" THEN IF x.check = n THEN Append(acc, x) ELSE acc
  ELSE IF loop = "tell case" THEN TellCase(acc, x)
  ELSE IF loop = "count case" THEN CountCase(acc, x)
  ELSE IF loop = "failed cases" THEN IF Failed(x) THEN acc + 1 ELSE acc
  ELSE IF loop = "sum failed" THEN acc + Len(FailedMetrics(x))
  ELSE acc + Len(MetricsByName(x, n))

\* f is what the fold computes for the sets of the first m places.
Folding(loop, n, base, seq, S, f) ==
  f = [s \in SUBSET S |->
         IF s = {} THEN base
         ELSE Body(loop, n, f[s \ {Max(s)}], seq[Max(s)])]

\* The last place of a set of places.
LEMMA LastPlace ==
  ASSUME NEW m \in Nat, NEW s \in SUBSET (1 .. m), s # {}
  PROVE  Max(s) \in s /\ \A x \in s : x <= Max(s)
<1> DEFINE gaps == {m - x : x \in s}
<1>1. gaps \subseteq Nat /\ gaps # {}
  <2>1. PICK x \in s : TRUE
    OBVIOUS
  <2>2. \A y \in s : m - y \in Nat
    OBVIOUS
  <2> QED BY <2>1, <2>2
<1>2. PICK g \in gaps : \A h \in gaps : g <= h
  <2> HIDE DEF gaps
  <2> QED BY <1>1, LeastExists
<1>3. PICK top \in s : g = m - top
  OBVIOUS
<1>4. \A x \in s : top >= x
  <2> TAKE x \in s
  <2>1. g <= m - x /\ x \in Nat /\ top \in Nat
    BY <1>2
  <2> QED BY <1>3, <2>1
<1>5. Max(s) \in s /\ \A x \in s : Max(s) >= x
  BY <1>4 DEF Max
<1>6. \A x \in s : x \in Nat
  OBVIOUS
<1> QED BY <1>5, <1>6

\* The last of the first k places.
LEMMA LastOfFirst ==
  ASSUME NEW k \in Nat, k # 0
  PROVE  Max(1 .. k) = k /\ (1 .. k) \ {k} = 1 .. k - 1
<1>1. 1 .. k # {} /\ k \in 1 .. k
  OBVIOUS
<1>2. Max(1 .. k) \in 1 .. k /\ k <= Max(1 .. k)
  BY <1>1, LastPlace
<1>3. Max(1 .. k) = k
  BY <1>2
<1>4. (1 .. k) \ {k} = 1 .. k - 1
  OBVIOUS
<1> QED BY <1>3, <1>4

\* Every loop can be folded.
LEMMA FoldingExists ==
  ASSUME NEW loop, NEW n, NEW base, NEW seq, NEW len \in Nat
  PROVE  \E f : Folding(loop, n, base, seq, 1 .. len, f)
<1> DEFINE Fold(m, f) == Folding(loop, n, base, seq, 1 .. m, f)
           bad == {m \in Nat : ~ \E f : Fold(m, f)}
<1> SUFFICES ASSUME bad # {} PROVE FALSE
  OBVIOUS
<1>1. PICK m \in bad : \A j \in bad : m <= j
  <2>1. bad \subseteq Nat
    OBVIOUS
  <2> HIDE DEF bad
  <2> QED BY <2>1, LeastExists
<1>2. CASE m = 0
  <2> DEFINE f == [s \in SUBSET (1 .. m) |-> base]
  <2>1. \A s \in SUBSET (1 .. m) : s = {}
    BY <1>2
  <2>2. f = [s \in SUBSET (1 .. m) |->
               IF s = {} THEN base
               ELSE Body(loop, n, f[s \ {Max(s)}], seq[Max(s)])]
    BY <2>1
  <2>3. Fold(m, f)
    BY <2>2 DEF Folding
  <2> QED BY <2>3
<1>3. CASE m > 0
  <2>1. m - 1 \in Nat /\ ~ (m <= m - 1)
    BY <1>3
  <2>2. PICK g : Fold(m - 1, g)
    BY <1>1, <2>1
  <2> DEFINE f == [s \in SUBSET (1 .. m) |->
                     IF s = {} THEN base
                     ELSE Body(loop, n, g[s \ {Max(s)}], seq[Max(s)])]
  <2>3. \A s \in SUBSET (1 .. m - 1) : f[s] = g[s]
    <3>1. SUBSET (1 .. m - 1) \subseteq SUBSET (1 .. m)
      BY <1>3
    <3>2. \A s \in SUBSET (1 .. m - 1) :
            g[s] = IF s = {} THEN base
                   ELSE Body(loop, n, g[s \ {Max(s)}], seq[Max(s)])
      BY <2>2 DEF Folding
    <3> QED BY <3>1, <3>2
  <2>4. \A s \in SUBSET (1 .. m) : s # {} =>
          s \ {Max(s)} \in SUBSET (1 .. m - 1)
    <3> SUFFICES ASSUME NEW s \in SUBSET (1 .. m), s # {},
                        NEW x \in s \ {Max(s)}
                 PROVE  x \in 1 .. m - 1
      OBVIOUS
    <3>1. Max(s) \in 1 .. m /\ x <= Max(s) /\ x # Max(s) /\ x \in 1 .. m
      BY LastPlace
    <3> QED BY <3>1
  <2>5. \A s \in SUBSET (1 .. m) :
          f[s] = IF s = {} THEN base
                 ELSE Body(loop, n, f[s \ {Max(s)}], seq[Max(s)])
    <3> TAKE s \in SUBSET (1 .. m)
    <3>1. f[s] = IF s = {} THEN base
                 ELSE Body(loop, n, g[s \ {Max(s)}], seq[Max(s)])
      OBVIOUS
    <3>2. s # {} => f[s \ {Max(s)}] = g[s \ {Max(s)}]
      BY <2>3, <2>4
    <3> HIDE DEF f
    <3> QED BY <3>1, <3>2
  <2>6. f = [s \in SUBSET (1 .. m) |-> f[s]]
    OBVIOUS
  <2>7. Fold(m, f)
    <3> HIDE DEF f
    <3> QED BY <2>5, <2>6 DEF Folding
  <2> QED BY <2>7
<1> QED BY <1>2, <1>3

\* f is what the loop has computed after each of its rounds.
Rounds(loop, n, base, seq, f) ==
  /\ f[0] = base
  /\ \A k \in 1 .. Len(seq) : f[k] = Body(loop, n, f[k - 1], seq[k])

\* The rounds of a loop that is folded.
LEMMA FoldingRounds ==
  ASSUME NEW loop, NEW n, NEW base, NEW seq, Len(seq) \in Nat,
         NEW g, Folding(loop, n, base, seq, 1 .. Len(seq), g)
  PROVE  \E f : Rounds(loop, n, base, seq, f) /\ f[Len(seq)] = g[1 .. Len(seq)]
<1> DEFINE len == Len(seq)
           f == [k \in 0 .. len |-> g[1 .. k]]
<1>1. \A s \in SUBSET (1 .. len) :
        g[s] = IF s = {} THEN base
               ELSE Body(loop, n, g[s \ {Max(s)}], seq[Max(s)])
  BY DEF Folding
<1>2. f[0] = base
  <2>1. 1 .. 0 = {} /\ 0 \in 0 .. len
    OBVIOUS
  <2>2. g[{}] = base
    BY <1>1
  <2> QED BY <2>1, <2>2
<1>3. ASSUME NEW k \in 1 .. len
      PROVE  f[k] = Body(loop, n, f[k - 1], seq[k])
  <2>1. 1 .. k \in SUBSET (1 .. len) /\ 1 .. k # {}
    OBVIOUS
  <2>2. Max(1 .. k) = k /\ (1 .. k) \ {k} = 1 .. k - 1
    BY LastOfFirst
  <2>3. g[1 .. k] = Body(loop, n, g[1 .. k - 1], seq[k])
    BY <1>1, <2>1, <2>2
  <2>4. f[k] = g[1 .. k] /\ f[k - 1] = g[1 .. k - 1]
    OBVIOUS
  <2> QED BY <2>3, <2>4
<1>4. f[len] = g[1 .. len]
  OBVIOUS
<1> HIDE DEF f
<1> QED BY <1>2, <1>3, <1>4 DEF Rounds

\* The function a fold over a sequence is computed with.
Iterated(loop, n, base, seq) ==
  CHOOSE f : Folding(loop, n, base, seq, DOMAIN seq, f)

\* A fold over a sequence is the last round of the loop.
LEMMA FoldedRounds ==
  ASSUME NEW loop, NEW n, NEW base, NEW seq, Len(seq) \in Nat,
         DOMAIN seq = 1 .. Len(seq)
  PROVE  \E f : /\ Rounds(loop, n, base, seq, f)
                /\ Iterated(loop, n, base, seq)[DOMAIN seq] = f[Len(seq)]
<1> DEFINE iter == Iterated(loop, n, base, seq)
<1>1. Folding(loop, n, base, seq, DOMAIN seq, iter)
  BY FoldingExists DEF Iterated
<1> HIDE DEF iter
<1>2. Folding(loop, n, base, seq, 1 .. Len(seq), iter)
  BY <1>1
<1>3. PICK f : /\ Rounds(loop, n, base, seq, f)
               /\ f[Len(seq)] = iter[1 .. Len(seq)]
  BY <1>2, FoldingRounds
<1> QED BY <1>3 DEF iter

\* Assert goes through the checks of a case.
LEMMA TellCheckRounds ==
  ASSUME NEW base, NEW seq, Len(seq) \in Nat, DOMAIN seq = 1 .. Len(seq)
  PROVE  \E f : /\ Rounds("tell check", "", base, seq, f)
                /\ FoldLeft(TellCheck, base, seq) = f[Len(seq)]
<1>1. FoldLeft(TellCheck, base, seq)
        = Iterated("tell check", "", base, seq)[DOMAIN seq]
  BY DEF FoldLeft, MapThenFoldSet, Iterated, Folding, Body
<1>2. \E f : /\ Rounds("tell check", "", base, seq, f)
             /\ Iterated("tell check", "", base, seq)[DOMAIN seq] = f[Len(seq)]
  BY FoldedRounds
<1> QED BY <1>1, <1>2

\* FailedMetrics collects the failing checks one by one.
LEMMA TakeFailedRounds ==
  ASSUME NEW seq, Len(seq) \in Nat, DOMAIN seq = 1 .. Len(seq)
  PROVE  \E f : /\ Rounds("take failed", "", <<>>, seq, f)
                /\ FailedMetrics([checks |-> seq]) = f[Len(seq)]
<1>1. FailedMetrics([checks |-> seq])
        = Iterated("take failed", "", <<>>, seq)[DOMAIN seq]
  BY DEF FailedMetrics, FoldLeft, MapThenFoldSet, Iterated, Folding, Body
<1>2. \E f : /\ Rounds("take failed", "", <<>>, seq, f)
             /\ Iterated("take failed", "", <<>>, seq)[DOMAIN seq] = f[Len(seq)]
  BY FoldedRounds
<1> QED BY <1>1, <1>2

\* MetricsByName collects the checks of a name one by one.
LEMMA TakeNamedRounds ==
  ASSUME NEW seq, Len(seq) \in Nat, DOMAIN seq = 1 .. Len(seq), NEW n
  PROVE  \E f : /\ Rounds("take named", n, <<>>, seq, f)
                /\ MetricsByName([checks |-> seq], n) = f[Len(seq)]
<1>1. MetricsByName([checks |-> seq], n)
        = Iterated("take named", n, <<>>, seq)[DOMAIN seq]
  BY DEF MetricsByName, FoldLeft, MapThenFoldSet, Iterated, Folding, Body
<1>2. \E f : /\ Rounds("take named", n, <<>>, seq, f)
             /\ Iterated("take named", n, <<>>, seq)[DOMAIN seq] = f[Len(seq)]
  BY FoldedRounds
<1> QED BY <1>1, <1>2

\* counts goes through the checks of a case.
LEMMA CountCheckRounds ==
  ASSUME NEW base, NEW seq, Len(seq) \in Nat, DOMAIN seq = 1 .. Len(seq)
  PROVE  \E f : /\ Rounds("count check", "", base, seq, f)
                /\ FoldLeft(CountCheck, base, seq) = f[Len(seq)]
<1>1. FoldLeft(CountCheck, base, seq)
        = Iterated("count check", "", base, seq)[DOMAIN seq]
  BY DEF FoldLeft, MapThenFoldSet, Iterated, Folding, Body
<1>2. \E f : /\ Rounds("count check", "", base, seq, f)
             /\ Iterated("count check", "", base, seq)[DOMAIN seq] = f[Len(seq)]
  BY FoldedRounds
<1> QED BY <1>1, <1>2

\* Assert goes through the cases.
LEMMA TellCaseRounds ==
  ASSUME NEW base, NEW seq, Len(seq) \in Nat, DOMAIN seq = 1 .. Len(seq)
  PROVE  \E f : /\ Rounds("tell case", "", base, seq, f)
                /\ FoldLeft(TellCase, base, seq) = f[Len(seq)]
<1>1. FoldLeft(TellCase, base, seq)
        = Iterated("tell case", "", base, seq)[DOMAIN seq]
  BY DEF FoldLeft, MapThenFoldSet, Iterated, Folding, Body
<1>2. \E f : /\ Rounds("tell case", "", base, seq, f)
             /\ Iterated("tell case", "", base, seq)[DOMAIN seq] = f[Len(seq)]
  BY FoldedRounds
<1> QED BY <1>1, <1>2

\* counts goes through the cases.
LEMMA CountCaseRounds ==
  ASSUME NEW base, NEW seq, Len(seq) \in Nat, DOMAIN seq = 1 .. Len(seq)
  PROVE  \E f : /\ Rounds("count case", "", base, seq, f)
                /\ FoldLeft(CountCase, base, seq) = f[Len(seq)]
<1>1. FoldLeft(CountCase, base, seq)
        = Iterated("count case", "", base, seq)[DOMAIN seq]
  BY DEF FoldLeft, MapThenFoldSet, Iterated, Folding, Body
<1>2. \E f : /\ Rounds("count case", "", base, seq, f)
             /\ Iterated("count case", "", base, seq)[DOMAIN seq] = f[Len(seq)]
  BY FoldedRounds
<1> QED BY <1>1, <1>2

\* failedCases goes through the cases.
LEMMA FailedCasesRounds ==
  ASSUME NEW seq, Len(seq) \in Nat, DOMAIN seq = 1 .. Len(seq)
  PROVE  \E f : /\ Rounds("failed cases", "", 0, seq, f)
                /\ FailedCases(seq) = f[Len(seq)]
<1>1. FailedCases(seq)
        = Iterated("failed cases", "", 0, seq)[DOMAIN seq]
  BY DEF FailedCases, FoldLeft, MapThenFoldSet, Iterated, Folding, Body
<1>2. \E f : /\ Rounds("failed cases", "", 0, seq, f)
             /\ Iterated("failed cases", "", 0, seq)[DOMAIN seq] = f[Len(seq)]
  BY FoldedRounds
<1> QED BY <1>1, <1>2

\* The two sums over the cases that SignalsAgree speaks of.
SumFailed(seq) ==
  FoldLeft(LAMBDA sum, c : sum + Len(FailedMetrics(c)), 0, seq)

SumNamed(seq, n) ==
  FoldLeft(LAMBDA sum, c : sum + Len(MetricsByName(c, n)), 0, seq)

\* The sum over the cases of what FailedMetrics returns.
LEMMA SumFailedRounds ==
  ASSUME NEW seq, Len(seq) \in Nat, DOMAIN seq = 1 .. Len(seq)
  PROVE  \E f : /\ Rounds("sum failed", "", 0, seq, f)
                /\ SumFailed(seq) = f[Len(seq)]
<1>1. SumFailed(seq) = Iterated("sum failed", "", 0, seq)[DOMAIN seq]
  BY DEF SumFailed, FoldLeft, MapThenFoldSet, Iterated, Folding, Body
<1>2. \E f : /\ Rounds("sum failed", "", 0, seq, f)
             /\ Iterated("sum failed", "", 0, seq)[DOMAIN seq] = f[Len(seq)]
  BY FoldedRounds
<1> QED BY <1>1, <1>2

\* The sum over the cases of what MetricsByName returns.
LEMMA SumNamedRounds ==
  ASSUME NEW seq, Len(seq) \in Nat, DOMAIN seq = 1 .. Len(seq), NEW n
  PROVE  \E f : /\ Rounds("sum named", n, 0, seq, f)
                /\ SumNamed(seq, n) = f[Len(seq)]
<1>1. SumNamed(seq, n) = Iterated("sum named", n, 0, seq)[DOMAIN seq]
  BY DEF SumNamed, FoldLeft, MapThenFoldSet, Iterated, Folding, Body
<1>2. \E f : /\ Rounds("sum named", n, 0, seq, f)
             /\ Iterated("sum named", n, 0, seq)[DOMAIN seq] = f[Len(seq)]
  BY FoldedRounds
<1> QED BY <1>1, <1>2

-----------------------------------------------------------------------------
(* What the loops have told and counted, side by side *)

\* The reporter's variables, with their types; failed is not looked at.
Told(keys, told) ==
  /\ DOMAIN told = {"failed", "logged", "suppressed", "errorfs",
                    "totalMetrics", "failedCases", "failedMetrics",
                    "metricTotals", "metricFailed"}
  /\ told.logged \in Nat /\ told.suppressed \in Nat
  /\ told.totalMetrics \in Nat /\ told.failedCases \in Nat
  /\ told.failedMetrics \in Nat
  /\ told.metricTotals \in [keys -> Nat]

Counted(counts) ==
  /\ DOMAIN counts = {"checks", "failedChecks", "runErrors"}
  /\ counts.checks \in Nat /\ counts.failedChecks \in Nat
  /\ counts.runErrors \in Nat

\* A failure is logged by itself as long as there is room.
LogInv(told) ==
  /\ told.logged <= MaxFailureLogs
  /\ told.suppressed > 0 => told.logged = MaxFailureLogs
  /\ told.errorfs = told.logged

\* The reporter's variables, the counts, the failed checks collected so far
\* and those collected under name n.
Tally(keys, told, counts, failed, n, named) ==
  /\ Told(keys, told) /\ LogInv(told)
  /\ Counted(counts) /\ counts.failedChecks <= counts.checks
  /\ failed = counts.failedChecks
  /\ told.totalMetrics = counts.checks
  /\ told.failedCases = counts.runErrors
  /\ told.failedMetrics = failed
  /\ told.logged + told.suppressed = counts.failedChecks + counts.runErrors
  /\ told.metricTotals[n] = named

\* A failure is logged or counted as suppressed, and nothing else changes.
LEMMA LogFailureTells ==
  ASSUME NEW keys, NEW told, Told(keys, told), LogInv(told)
  PROVE  LET after == LogFailure(told) IN
         /\ Told(keys, after) /\ LogInv(after)
         /\ after.logged + after.suppressed = told.logged + told.suppressed + 1
         /\ after.totalMetrics = told.totalMetrics
         /\ after.failedCases = told.failedCases
         /\ after.failedMetrics = told.failedMetrics
         /\ after.metricTotals = told.metricTotals
         /\ after.metricFailed = told.metricFailed
<1>1. MaxFailureLogs \in Nat \ {0}
  BY ReportingAssumption
<1>2. CASE told.logged < MaxFailureLogs
  BY <1>1, <1>2 DEF LogFailure, LogInv, Told
<1>3. CASE ~ (told.logged < MaxFailureLogs)
  BY <1>1, <1>3 DEF LogFailure, LogInv, Told
<1> QED BY <1>2, <1>3

\* One check more.
LEMMA TallyCheck ==
  ASSUME NEW keys, NEW told, NEW counts, NEW failed \in Nat,
         NEW n \in keys, NEW named \in Nat,
         Tally(keys, told, counts, failed, n, named),
         NEW x, x.pass \in BOOLEAN, x.check \in keys
  PROVE  Tally(keys, TellCheck(told, x), CountCheck(counts, x),
               IF x.pass THEN failed ELSE failed + 1, n,
               IF x.check = n THEN named + 1 ELSE named)
<1> DEFINE counted == [told EXCEPT !.totalMetrics = @ + 1,
                                   !.metricTotals[x.check] = @ + 1]
           fails   == [counted EXCEPT !.failedMetrics = @ + 1,
                                      !.metricFailed[x.check] = @ + 1]
           after   == CountCheck(counts, x)
<1>1. /\ Told(keys, told) /\ LogInv(told)
      /\ Counted(counts) /\ counts.failedChecks <= counts.checks
  BY DEF Tally
<1>2. /\ Told(keys, counted) /\ LogInv(counted)
      /\ counted.totalMetrics = told.totalMetrics + 1
      /\ counted.failedCases = told.failedCases
      /\ counted.failedMetrics = told.failedMetrics
      /\ counted.logged = told.logged /\ counted.suppressed = told.suppressed
      /\ counted.metricTotals[n]
           = IF x.check = n THEN told.metricTotals[n] + 1
             ELSE told.metricTotals[n]
  BY <1>1 DEF Told, LogInv
<1>3. /\ Told(keys, fails) /\ LogInv(fails)
      /\ fails.totalMetrics = counted.totalMetrics
      /\ fails.failedCases = counted.failedCases
      /\ fails.failedMetrics = counted.failedMetrics + 1
      /\ fails.logged = counted.logged /\ fails.suppressed = counted.suppressed
      /\ fails.metricTotals = counted.metricTotals
  <2> HIDE DEF counted
  <2> QED BY <1>2 DEF Told, LogInv
<1>4. /\ Counted(after) /\ after.failedChecks <= after.checks
      /\ after.checks = counts.checks + 1
      /\ after.runErrors = counts.runErrors
      /\ after.failedChecks = IF x.pass THEN counts.failedChecks
                              ELSE counts.failedChecks + 1
  <2>1. CASE x.pass
    <3>1. after = [counts EXCEPT !.checks = @ + 1,
                                 !.failedChecks = counts.failedChecks]
      BY <2>1 DEF CountCheck
    <3> HIDE DEF after
    <3> QED BY <1>1, <2>1, <3>1 DEF Counted
  <2>2. CASE ~x.pass
    <3>1. after = [counts EXCEPT !.checks = @ + 1,
                                 !.failedChecks = counts.failedChecks + 1]
      BY <2>2 DEF CountCheck
    <3> HIDE DEF after
    <3> QED BY <1>1, <2>2, <3>1 DEF Counted
  <2> QED BY <2>1, <2>2
<1>5. TellCheck(told, x) = IF x.pass THEN counted ELSE LogFailure(fails)
  BY DEF TellCheck
<1> HIDE DEF counted, fails, after
<1>6. CASE x.pass
  <2>1. TellCheck(told, x) = counted
    BY <1>5, <1>6
  <2>2. after.failedChecks = counts.failedChecks
    BY <1>4, <1>6
  <2>3. Tally(keys, counted, after, failed, n,
              IF x.check = n THEN named + 1 ELSE named)
    BY <1>1, <1>2, <1>4, <2>2 DEF Tally, Told, Counted
  <2> QED BY <1>6, <2>1, <2>3 DEF after
<1>7. CASE ~x.pass
  <2> DEFINE logs == LogFailure(fails)
  <2>1. TellCheck(told, x) = logs
    BY <1>5, <1>7
  <2>2. after.failedChecks = counts.failedChecks + 1
    BY <1>4, <1>7
  <2>3. /\ Told(keys, logs) /\ LogInv(logs)
        /\ logs.logged + logs.suppressed = fails.logged + fails.suppressed + 1
        /\ logs.totalMetrics = fails.totalMetrics
        /\ logs.failedCases = fails.failedCases
        /\ logs.failedMetrics = fails.failedMetrics
        /\ logs.metricTotals = fails.metricTotals
    BY <1>3, LogFailureTells
  <2> HIDE DEF logs
  <2>4. Tally(keys, logs, after, failed + 1, n,
              IF x.check = n THEN named + 1 ELSE named)
    BY <1>1, <1>2, <1>3, <1>4, <2>2, <2>3 DEF Tally, Told, Counted
  <2> QED BY <1>7, <2>1, <2>4 DEF after
<1> QED BY <1>6, <1>7

\* One case more, that was not answered.
LEMMA TallyError ==
  ASSUME NEW keys, NEW told, NEW counts, NEW failed \in Nat,
         NEW n \in keys, NEW named \in Nat,
         Tally(keys, told, counts, failed, n, named)
  PROVE  Tally(keys, LogFailure([told EXCEPT !.failedCases = @ + 1]),
               [counts EXCEPT !.runErrors = @ + 1], failed, n, named)
<1> DEFINE fails == [told EXCEPT !.failedCases = @ + 1]
           logs  == LogFailure(fails)
           after == [counts EXCEPT !.runErrors = @ + 1]
<1>1. /\ Told(keys, told) /\ LogInv(told)
      /\ Counted(counts) /\ counts.failedChecks <= counts.checks
  BY DEF Tally
<1>2. /\ Told(keys, fails) /\ LogInv(fails)
      /\ fails.totalMetrics = told.totalMetrics
      /\ fails.failedCases = told.failedCases + 1
      /\ fails.failedMetrics = told.failedMetrics
      /\ fails.logged = told.logged /\ fails.suppressed = told.suppressed
      /\ fails.metricTotals = told.metricTotals
  BY <1>1 DEF Told, LogInv
<1> HIDE DEF fails
<1>3. /\ Told(keys, logs) /\ LogInv(logs)
      /\ logs.logged + logs.suppressed = fails.logged + fails.suppressed + 1
      /\ logs.totalMetrics = fails.totalMetrics
      /\ logs.failedCases = fails.failedCases
      /\ logs.failedMetrics = fails.failedMetrics
      /\ logs.metricTotals = fails.metricTotals
  BY <1>2, LogFailureTells
<1>4. /\ Counted(after) /\ after.failedChecks <= after.checks
      /\ after.checks = counts.checks
      /\ after.runErrors = counts.runErrors + 1
      /\ after.failedChecks = counts.failedChecks
  BY <1>1 DEF Counted
<1> HIDE DEF logs, after
<1>5. Tally(keys, logs, after, failed, n, named)
  BY <1>1, <1>2, <1>3, <1>4 DEF Tally, Told, Counted
<1> QED BY <1>5 DEF logs, fails, after

-----------------------------------------------------------------------------
(* The loops over the checks of a case *)

\* The checks of a case, as Assert and counts go through them.
Reportable(keys, checks) ==
  /\ Len(checks) \in Nat /\ DOMAIN checks = 1 .. Len(checks)
  /\ \A k \in DOMAIN checks :
       checks[k].pass \in BOOLEAN /\ checks[k].check \in keys

\* What the loops over the checks of an answered case add, side by side.
LEMMA TallyChecks ==
  ASSUME NEW keys, NEW told, NEW counts, NEW failed \in Nat,
         NEW n \in keys, NEW named \in Nat,
         Tally(keys, told, counts, failed, n, named),
         NEW seq, Reportable(keys, seq)
  PROVE  LET fails == Len(FailedMetrics([checks |-> seq]))
             match == Len(MetricsByName([checks |-> seq], n))
             after == FoldLeft(CountCheck, counts, seq)
         IN  /\ fails \in Nat /\ match \in Nat
             /\ Tally(keys, FoldLeft(TellCheck, told, seq), after,
                      failed + fails, n, named + match)
             /\ after.checks = counts.checks + Len(seq)
             /\ after.failedChecks = counts.failedChecks + fails
             /\ after.runErrors = counts.runErrors
             /\ fails > 0 <=> \E k \in DOMAIN seq : ~seq[k].pass
<1> DEFINE len == Len(seq)
           elts == {seq[k] : k \in 1 .. len}
<1>1. /\ len \in Nat /\ DOMAIN seq = 1 .. len
      /\ \A k \in 1 .. len : seq[k].pass \in BOOLEAN /\ seq[k].check \in keys
  BY DEF Reportable
<1>2. PICK t : /\ Rounds("tell check", "", told, seq, t)
               /\ FoldLeft(TellCheck, told, seq) = t[len]
  BY <1>1, TellCheckRounds
<1>3. PICK c : /\ Rounds("count check", "", counts, seq, c)
               /\ FoldLeft(CountCheck, counts, seq) = c[len]
  BY <1>1, CountCheckRounds
<1>4. PICK f : /\ Rounds("take failed", "", <<>>, seq, f)
               /\ FailedMetrics([checks |-> seq]) = f[len]
  BY <1>1, TakeFailedRounds
<1>5. PICK b : /\ Rounds("take named", n, <<>>, seq, b)
               /\ MetricsByName([checks |-> seq], n) = b[len]
  BY <1>1, TakeNamedRounds
<1>6. /\ t[0] = told /\ c[0] = counts /\ f[0] = <<>> /\ b[0] = <<>>
      /\ \A k \in 1 .. len :
           /\ t[k] = TellCheck(t[k - 1], seq[k])
           /\ c[k] = CountCheck(c[k - 1], seq[k])
           /\ f[k] = IF seq[k].pass THEN f[k - 1] ELSE Append(f[k - 1], seq[k])
           /\ b[k] = IF seq[k].check = n THEN Append(b[k - 1], seq[k])
                     ELSE b[k - 1]
  BY <1>2, <1>3, <1>4, <1>5 DEF Rounds, Body
<1> DEFINE Good(k) ==
             /\ f[k] \in Seq(elts) /\ b[k] \in Seq(elts)
             /\ Tally(keys, t[k], c[k], failed + Len(f[k]), n, named + Len(b[k]))
             /\ c[k].checks = counts.checks + k
             /\ c[k].failedChecks = counts.failedChecks + Len(f[k])
             /\ c[k].runErrors = counts.runErrors
             /\ Len(f[k]) > 0 <=> \E j \in 1 .. k : ~seq[j].pass
<1>7. Good(0)
  <2>1. f[0] \in Seq(elts) /\ b[0] \in Seq(elts)
        /\ Len(f[0]) = 0 /\ Len(b[0]) = 0
    BY <1>6
  <2>2. failed + Len(f[0]) = failed /\ named + Len(b[0]) = named
    BY <2>1
  <2>3. 1 .. 0 = {}
    OBVIOUS
  <2>4. counts.checks \in Nat /\ counts.failedChecks \in Nat
    BY DEF Tally, Counted
  <2>5. Tally(keys, t[0], c[0], failed + Len(f[0]), n, named + Len(b[0]))
    BY <1>6, <2>2
  <2> QED BY <1>6, <2>1, <2>3, <2>4, <2>5
<1>8. ASSUME NEW k \in 1 .. len, Good(k - 1) PROVE Good(k)
  <2> DEFINE x == seq[k]
  <2>1. /\ k \in Nat /\ k - 1 \in Nat /\ x \in elts
        /\ x.pass \in BOOLEAN /\ x.check \in keys
    BY <1>1
  <2>2. /\ t[k] = TellCheck(t[k - 1], x) /\ c[k] = CountCheck(c[k - 1], x)
        /\ f[k] = IF x.pass THEN f[k - 1] ELSE Append(f[k - 1], x)
        /\ b[k] = IF x.check = n THEN Append(b[k - 1], x) ELSE b[k - 1]
    BY <1>6
  <2>3. \A j : j \in 1 .. k <=> j = k \/ j \in 1 .. k - 1
    BY <2>1
  <2>g. /\ f[k - 1] \in Seq(elts) /\ b[k - 1] \in Seq(elts)
        /\ Tally(keys, t[k - 1], c[k - 1], failed + Len(f[k - 1]), n,
                 named + Len(b[k - 1]))
        /\ c[k - 1].checks = counts.checks + (k - 1)
        /\ c[k - 1].failedChecks = counts.failedChecks + Len(f[k - 1])
        /\ c[k - 1].runErrors = counts.runErrors
        /\ Len(f[k - 1]) > 0 <=> \E j \in 1 .. k - 1 : ~seq[j].pass
    BY <1>8
  <2> HIDE DEF Good, elts
  <2>4. /\ f[k] \in Seq(elts)
        /\ Len(f[k]) = IF x.pass THEN Len(f[k - 1]) ELSE Len(f[k - 1]) + 1
    BY <2>1, <2>2, <2>g
  <2>5. /\ b[k] \in Seq(elts)
        /\ Len(b[k]) = IF x.check = n THEN Len(b[k - 1]) + 1 ELSE Len(b[k - 1])
    BY <2>1, <2>2, <2>g
  <2>6. /\ Len(f[k - 1]) \in Nat /\ Len(b[k - 1]) \in Nat
        /\ failed + Len(f[k - 1]) \in Nat /\ named + Len(b[k - 1]) \in Nat
    BY <2>g
  <2>7. Tally(keys, t[k], c[k],
              IF x.pass THEN failed + Len(f[k - 1])
              ELSE failed + Len(f[k - 1]) + 1, n,
              IF x.check = n THEN named + Len(b[k - 1]) + 1
              ELSE named + Len(b[k - 1]))
    <3> HIDE DEF x
    <3> QED BY <2>1, <2>2, <2>6, <2>g, TallyCheck
  <2>8. Tally(keys, t[k], c[k], failed + Len(f[k]), n, named + Len(b[k]))
    <3>1. failed + Len(f[k]) = IF x.pass THEN failed + Len(f[k - 1])
                               ELSE failed + Len(f[k - 1]) + 1
      BY <2>4, <2>6
    <3>2. named + Len(b[k])
            = IF x.check = n THEN named + Len(b[k - 1]) + 1
              ELSE named + Len(b[k - 1])
      BY <2>5, <2>6
    <3> QED BY <2>7, <3>1, <3>2
  <2>9. /\ c[k].checks = counts.checks + k
        /\ c[k].failedChecks = counts.failedChecks + Len(f[k])
        /\ c[k].runErrors = counts.runErrors
    <3>1. /\ Counted(c[k - 1])
          /\ counts.checks \in Nat /\ counts.failedChecks \in Nat
      BY <2>g DEF Tally, Counted
    <3>2. /\ c[k].checks = c[k - 1].checks + 1
          /\ c[k].runErrors = c[k - 1].runErrors
          /\ c[k].failedChecks = IF x.pass THEN c[k - 1].failedChecks
                                 ELSE c[k - 1].failedChecks + 1
      BY <2>2, <3>1 DEF CountCheck, Counted
    <3> HIDE DEF x
    <3>3. c[k].checks = counts.checks + k
      BY <2>1, <2>g, <3>1, <3>2
    <3>4. c[k].failedChecks = counts.failedChecks + Len(f[k])
      <4>1. CASE x.pass
        <5>1. /\ c[k].failedChecks = c[k - 1].failedChecks
              /\ Len(f[k]) = Len(f[k - 1])
          BY <2>4, <3>2, <4>1
        <5> QED BY <2>g, <5>1
      <4>2. CASE ~x.pass
        <5>1. /\ c[k].failedChecks = c[k - 1].failedChecks + 1
              /\ Len(f[k]) = Len(f[k - 1]) + 1
          BY <2>4, <3>2, <4>2
        <5>2. c[k - 1].failedChecks = counts.failedChecks + Len(f[k - 1])
          BY <2>g
        <5> QED BY <2>6, <3>1, <5>1, <5>2
      <4> QED BY <4>1, <4>2
    <3> QED BY <2>g, <3>2, <3>3, <3>4
  <2>10. Len(f[k]) > 0 <=> \E j \in 1 .. k : ~seq[j].pass
    <3>1. CASE x.pass
      <4>1. Len(f[k]) = Len(f[k - 1])
        BY <2>4, <3>1
      <4> QED BY <2>3, <2>g, <3>1, <4>1
    <3>2. CASE ~x.pass
      <4>1. Len(f[k]) > 0
        BY <2>4, <2>6, <3>2
      <4> QED BY <2>3, <3>2, <4>1
    <3> QED BY <3>1, <3>2
  <2> QED BY <2>4, <2>5, <2>8, <2>9, <2>10 DEF Good
<1>9. Good(len)
  <2> DEFINE bad == {k \in 0 .. len : ~Good(k)}
  <2> HIDE DEF Good
  <2> SUFFICES ASSUME bad # {} PROVE FALSE
    <3>1. len \in 0 .. len
      BY <1>1
    <3> QED BY <3>1
  <2>1. PICK k \in bad : \A j \in bad : k <= j
    <3>1. bad \subseteq Nat
      BY <1>1
    <3> HIDE DEF bad
    <3> QED BY <3>1, LeastExists
  <2>2. k # 0
    BY <1>7
  <2>3. k \in 1 .. len /\ k - 1 \in 0 .. len /\ ~ (k <= k - 1)
    BY <1>1, <2>2
  <2>4. Good(k - 1)
    BY <2>1, <2>3
  <2> QED BY <1>8, <2>3, <2>4
<1>10. /\ f[len] \in Seq(elts) /\ b[len] \in Seq(elts)
       /\ Tally(keys, t[len], c[len], failed + Len(f[len]), n,
                named + Len(b[len]))
       /\ c[len].checks = counts.checks + len
       /\ c[len].failedChecks = counts.failedChecks + Len(f[len])
       /\ c[len].runErrors = counts.runErrors
       /\ Len(f[len]) > 0 <=> \E j \in 1 .. len : ~seq[j].pass
  BY <1>9
<1> HIDE DEF elts, len
<1>11. Len(f[len]) \in Nat /\ Len(b[len]) \in Nat
  BY <1>10
<1> QED BY <1>1, <1>2, <1>3, <1>4, <1>5, <1>10, <1>11 DEF len

\* What is taken from a case depends on its checks only.
LEMMA TakenFromChecks ==
  ASSUME NEW x, NEW n
  PROVE  /\ FailedMetrics(x) = FailedMetrics([checks |-> x.checks])
         /\ MetricsByName(x, n) = MetricsByName([checks |-> x.checks], n)
<1>1. [checks |-> x.checks].checks = x.checks
  OBVIOUS
<1> QED BY <1>1 DEF FailedMetrics, MetricsByName

\* From no checks nothing is taken.
LEMMA NoChecks ==
  ASSUME NEW n
  PROVE  /\ FailedMetrics([checks |-> <<>>]) = <<>>
         /\ MetricsByName([checks |-> <<>>], n) = <<>>
<1> DEFINE seq == <<>>
<1>1. Len(seq) = 0 /\ DOMAIN seq = 1 .. Len(seq) /\ Len(seq) \in Nat
  OBVIOUS
<1>2. PICK f : /\ Rounds("take failed", "", <<>>, seq, f)
               /\ FailedMetrics([checks |-> seq]) = f[Len(seq)]
  BY <1>1, TakeFailedRounds
<1>3. PICK b : /\ Rounds("take named", n, <<>>, seq, b)
               /\ MetricsByName([checks |-> seq], n) = b[Len(seq)]
  BY <1>1, TakeNamedRounds
<1>4. f[0] = <<>> /\ b[0] = <<>>
  BY <1>2, <1>3 DEF Rounds
<1> QED BY <1>1, <1>2, <1>3, <1>4

-----------------------------------------------------------------------------
(* The loops over the cases *)

\* The result of a case as its reader finds it.
ReportableCase(keys, x) ==
  /\ Reportable(keys, x.checks)
  /\ x.runError # "none" => x.checks = <<>>
  /\ x.runError = "none" => Len(x.checks) > 0

\* What a case adds, on both sides.
CaseTallied(keys, told, counts, failed, n, named, x) ==
  LET fails == Len(FailedMetrics(x))
      match == Len(MetricsByName(x, n))
      after == CountCase(counts, x)
  IN  /\ fails \in Nat /\ match \in Nat
      /\ Tally(keys, TellCase(told, x), after, failed + fails, n, named + match)
      /\ after.checks + after.runErrors > counts.checks + counts.runErrors
      /\ Failed(x) => after.failedChecks + after.runErrors > 0
      /\ ~Failed(x) => after.failedChecks + after.runErrors
                         = counts.failedChecks + counts.runErrors

\* One case more, whichever way it went.
LEMMA TallyCase ==
  ASSUME NEW keys, NEW told, NEW counts, NEW failed \in Nat,
         NEW n \in keys, NEW named \in Nat,
         Tally(keys, told, counts, failed, n, named),
         NEW x, ReportableCase(keys, x)
  PROVE  CaseTallied(keys, told, counts, failed, n, named, x)
<1> DEFINE fails == Len(FailedMetrics(x))
           match == Len(MetricsByName(x, n))
           after == CountCase(counts, x)
           seq   == x.checks
<1>1. /\ fails = Len(FailedMetrics([checks |-> seq]))
      /\ match = Len(MetricsByName([checks |-> seq], n))
  BY TakenFromChecks
<1>2. Counted(counts) /\ Reportable(keys, seq)
  BY DEF Tally, ReportableCase
<1>3. CASE x.runError # "none"
  <2>1. after = [counts EXCEPT !.runErrors = @ + 1]
    BY <1>3 DEF CountCase
  <2>2. TellCase(told, x) = LogFailure([told EXCEPT !.failedCases = @ + 1])
    BY <1>3 DEF TellCase
  <2>3. seq = <<>>
    BY <1>3 DEF ReportableCase
  <2>4. fails = 0 /\ match = 0
    <3>1. /\ FailedMetrics([checks |-> seq]) = <<>>
          /\ MetricsByName([checks |-> seq], n) = <<>>
      BY <2>3, NoChecks
    <3> HIDE DEF fails, match, seq
    <3> QED BY <1>1, <3>1
  <2> HIDE DEF after, fails, match, seq
  <2>5. failed + fails = failed /\ named + match = named
    BY <2>4
  <2>6. Tally(keys, TellCase(told, x), after, failed + fails, n, named + match)
    BY <2>1, <2>2, <2>5, TallyError
  <2>7. /\ after.checks = counts.checks /\ after.runErrors = counts.runErrors + 1
        /\ after.failedChecks = counts.failedChecks
    BY <1>2, <2>1 DEF Counted
  <2>8. /\ after.checks + after.runErrors > counts.checks + counts.runErrors
        /\ after.failedChecks + after.runErrors > 0
    BY <1>2, <2>7 DEF Counted
  <2>9. Failed(x)
    BY <1>3 DEF Failed
  <2> QED BY <2>4, <2>6, <2>8, <2>9 DEF after, fails, match, CaseTallied
<1>4. CASE x.runError = "none"
  <2>1. after = FoldLeft(CountCheck, counts, seq)
    BY <1>4 DEF CountCase
  <2>2. TellCase(told, x) = FoldLeft(TellCheck, told, seq)
    BY <1>4 DEF TellCase
  <2>3. Failed(x) <=> \E k \in DOMAIN seq : ~seq[k].pass
    BY <1>4 DEF Failed
  <2>4. Len(seq) \in Nat /\ Len(seq) > 0
    BY <1>2, <1>4 DEF ReportableCase, Reportable
  <2> HIDE DEF after, fails, match, seq
  <2>5. LET fl == Len(FailedMetrics([checks |-> seq]))
            mt == Len(MetricsByName([checks |-> seq], n))
            af == FoldLeft(CountCheck, counts, seq)
        IN  /\ fl \in Nat /\ mt \in Nat
            /\ Tally(keys, FoldLeft(TellCheck, told, seq), af,
                     failed + fl, n, named + mt)
            /\ af.checks = counts.checks + Len(seq)
            /\ af.failedChecks = counts.failedChecks + fl
            /\ af.runErrors = counts.runErrors
            /\ fl > 0 <=> \E k \in DOMAIN seq : ~seq[k].pass
    BY <1>2, TallyChecks
  <2>6. /\ fails \in Nat /\ match \in Nat
        /\ Tally(keys, TellCase(told, x), after, failed + fails, n, named + match)
        /\ after.checks = counts.checks + Len(seq)
        /\ after.failedChecks = counts.failedChecks + fails
        /\ after.runErrors = counts.runErrors
        /\ fails > 0 <=> Failed(x)
    BY <1>1, <2>1, <2>2, <2>3, <2>5
  <2>7. after.checks + after.runErrors > counts.checks + counts.runErrors
    BY <1>2, <2>4, <2>6 DEF Counted
  <2>8. Failed(x) => after.failedChecks + after.runErrors > 0
    BY <1>2, <2>6 DEF Counted
  <2>9. ~Failed(x) => after.failedChecks + after.runErrors
                        = counts.failedChecks + counts.runErrors
    <3> SUFFICES ASSUME ~Failed(x)
                 PROVE  after.failedChecks = counts.failedChecks
      BY <2>6
    <3>1. fails = 0
      BY <2>6
    <3> QED BY <1>2, <2>6, <3>1 DEF Counted
  <2> QED BY <2>6, <2>7, <2>8, <2>9 DEF after, fails, match, CaseTallied
<1> QED BY <1>3, <1>4

\* After any number of cases the reporter and the counts are in step.
LEMMA TallyCases ==
  ASSUME NEW keys, NEW n \in keys, NEW seq,
         Len(seq) \in Nat, DOMAIN seq = 1 .. Len(seq),
         \A i \in 1 .. Len(seq) : ReportableCase(keys, seq[i])
  PROVE  LET told   == FoldLeft(TellCase, NothingTold(keys), seq)
             counts == Counts(seq)
             fallen == FailedCases(seq)
             sum    == SumFailed(seq)
             named  == SumNamed(seq, n)
         IN  /\ sum \in Nat /\ named \in Nat /\ fallen \in Nat
             /\ Tally(keys, told, counts, sum, n, named)
             /\ counts.checks + counts.runErrors >= Len(seq)
             /\ RunFailed(seq) <=> fallen > 0
             /\ RunFailed(seq) <=> counts.failedChecks + counts.runErrors > 0
<1> DEFINE len  == Len(seq)
           zero == [checks |-> 0, failedChecks |-> 0, runErrors |-> 0]
           none == NothingTold(keys)
<1>1. /\ len \in Nat /\ DOMAIN seq = 1 .. len
      /\ \A i \in 1 .. len : ReportableCase(keys, seq[i])
  OBVIOUS
<1>2. PICK t : /\ Rounds("tell case", "", none, seq, t)
               /\ FoldLeft(TellCase, none, seq) = t[len]
  BY TellCaseRounds
<1>3. PICK c : /\ Rounds("count case", "", zero, seq, c)
               /\ Counts(seq) = c[len]
  BY CountCaseRounds DEF Counts
<1>4. PICK f : /\ Rounds("failed cases", "", 0, seq, f)
               /\ FailedCases(seq) = f[len]
  BY FailedCasesRounds
<1>5. PICK s : /\ Rounds("sum failed", "", 0, seq, s)
               /\ SumFailed(seq)
                    = s[len]
  BY SumFailedRounds
<1>6. PICK b : /\ Rounds("sum named", n, 0, seq, b)
               /\ SumNamed(seq, n)
                    = b[len]
  BY SumNamedRounds
<1>7. /\ t[0] = none /\ c[0] = zero /\ f[0] = 0 /\ s[0] = 0 /\ b[0] = 0
      /\ \A k \in 1 .. len :
           /\ t[k] = TellCase(t[k - 1], seq[k])
           /\ c[k] = CountCase(c[k - 1], seq[k])
           /\ f[k] = IF Failed(seq[k]) THEN f[k - 1] + 1 ELSE f[k - 1]
           /\ s[k] = s[k - 1] + Len(FailedMetrics(seq[k]))
           /\ b[k] = b[k - 1] + Len(MetricsByName(seq[k], n))
  <2> HIDE DEF none, zero
  <2> QED BY <1>2, <1>3, <1>4, <1>5, <1>6 DEF Rounds, Body
<1> DEFINE Good(k) ==
             /\ s[k] \in Nat /\ b[k] \in Nat /\ f[k] \in Nat
             /\ Tally(keys, t[k], c[k], s[k], n, b[k])
             /\ c[k].checks + c[k].runErrors >= k
             /\ f[k] > 0 <=> \E i \in 1 .. k : Failed(seq[i])
             /\ c[k].failedChecks + c[k].runErrors > 0
                  <=> \E i \in 1 .. k : Failed(seq[i])
<1>8. Good(0)
  <2>1. Tally(keys, none, zero, 0, n, 0)
    BY ReportingAssumption DEF Tally, NothingTold, Told, LogInv, Counted
  <2>2. 1 .. 0 = {}
    OBVIOUS
  <2>3. zero.checks = 0 /\ zero.failedChecks = 0 /\ zero.runErrors = 0
    OBVIOUS
  <2> HIDE DEF none, zero
  <2> QED BY <1>7, <2>1, <2>2, <2>3
<1> HIDE DEF none, zero
<1>9. ASSUME NEW k \in 1 .. len, Good(k - 1) PROVE Good(k)
  <2> DEFINE x == seq[k]
             fails == Len(FailedMetrics(x))
             match == Len(MetricsByName(x, n))
             before == c[k - 1]
             after == c[k]
  <2>1. k \in Nat /\ k - 1 \in Nat /\ ReportableCase(keys, x)
    BY <1>1
  <2>2. /\ t[k] = TellCase(t[k - 1], x) /\ after = CountCase(before, x)
        /\ f[k] = IF Failed(x) THEN f[k - 1] + 1 ELSE f[k - 1]
        /\ s[k] = s[k - 1] + fails /\ b[k] = b[k - 1] + match
    BY <1>7
  <2>3. \A j : j \in 1 .. k <=> j = k \/ j \in 1 .. k - 1
    BY <2>1
  <2>4. /\ s[k - 1] \in Nat /\ b[k - 1] \in Nat /\ f[k - 1] \in Nat
        /\ Tally(keys, t[k - 1], before, s[k - 1], n, b[k - 1])
        /\ before.checks + before.runErrors >= k - 1
        /\ f[k - 1] > 0 <=> \E i \in 1 .. k - 1 : Failed(seq[i])
        /\ before.failedChecks + before.runErrors > 0
             <=> \E i \in 1 .. k - 1 : Failed(seq[i])
    BY <1>9
  <2> HIDE DEF Good
  <2>5. /\ fails \in Nat /\ match \in Nat
        /\ Tally(keys, t[k], after, s[k - 1] + fails, n, b[k - 1] + match)
        /\ after.checks + after.runErrors > before.checks + before.runErrors
        /\ Failed(x) => after.failedChecks + after.runErrors > 0
        /\ ~Failed(x) => after.failedChecks + after.runErrors
                           = before.failedChecks + before.runErrors
    <3>1. CaseTallied(keys, t[k - 1], before, s[k - 1], n, b[k - 1], x)
      BY <2>1, <2>4, TallyCase
    <3> HIDE DEF x, before, after
    <3> QED BY <2>2, <3>1 DEF CaseTallied
  <2>6. (\E i \in 1 .. k : Failed(seq[i]))
          <=> Failed(x) \/ \E i \in 1 .. k - 1 : Failed(seq[i])
    BY <2>3
  <2>7. Counted(before) /\ Counted(after)
    BY <2>4, <2>5 DEF Tally
  <2> HIDE DEF x, fails, match, before, after
  <2>8. s[k] \in Nat /\ b[k] \in Nat /\ f[k] \in Nat
    BY <2>2, <2>4, <2>5
  <2>9. Tally(keys, t[k], after, s[k], n, b[k])
    BY <2>2, <2>5
  <2>10. after.checks + after.runErrors >= k
    BY <2>1, <2>4, <2>5, <2>7 DEF Counted
  <2>11. f[k] > 0 <=> \E i \in 1 .. k : Failed(seq[i])
    <3>1. CASE Failed(x)
      BY <2>2, <2>4, <2>6, <3>1
    <3>2. CASE ~Failed(x)
      BY <2>2, <2>4, <2>6, <3>2
    <3> QED BY <3>1, <3>2
  <2>12. after.failedChecks + after.runErrors > 0
           <=> \E i \in 1 .. k : Failed(seq[i])
    <3>1. CASE Failed(x)
      BY <2>5, <2>6, <3>1
    <3>2. CASE ~Failed(x)
      BY <2>4, <2>5, <2>6, <3>2
    <3> QED BY <3>1, <3>2
  <2> QED BY <2>8, <2>9, <2>10, <2>11, <2>12 DEF Good, after
<1>10. Good(len)
  <2> DEFINE bad == {k \in 0 .. len : ~Good(k)}
  <2> HIDE DEF Good
  <2> SUFFICES ASSUME bad # {} PROVE FALSE
    <3>1. len \in 0 .. len
      BY <1>1
    <3> QED BY <3>1
  <2>1. PICK k \in bad : \A j \in bad : k <= j
    <3>1. bad \subseteq Nat
      BY <1>1
    <3> HIDE DEF bad
    <3> QED BY <3>1, LeastExists
  <2>2. k # 0
    BY <1>8
  <2>3. k \in 1 .. len /\ k - 1 \in 0 .. len /\ ~ (k <= k - 1)
    BY <1>1, <2>2
  <2>4. Good(k - 1)
    BY <2>1, <2>3
  <2> QED BY <1>9, <2>3, <2>4
<1>11. RunFailed(seq) <=> \E i \in 1 .. len : Failed(seq[i])
  BY <1>1 DEF RunFailed
<1>12. /\ s[len] \in Nat /\ b[len] \in Nat /\ f[len] \in Nat
       /\ Tally(keys, t[len], c[len], s[len], n, b[len])
       /\ c[len].checks + c[len].runErrors >= len
       /\ f[len] > 0 <=> RunFailed(seq)
       /\ c[len].failedChecks + c[len].runErrors > 0 <=> RunFailed(seq)
  BY <1>10, <1>11
<1> HIDE DEF len
<1> QED BY <1>2, <1>3, <1>4, <1>5, <1>6, <1>12 DEF none, len

\* All that is told of a result, as SignalsAgree compares it.
Agreed(keys, seq) ==
  LET counts == Counts(seq)
      rate   == PassRate(seq)
      told   == AssertRun(seq, keys)
  IN  /\ RunFailed(seq) <=> rate[1] < rate[2]
      /\ RunFailed(seq) <=> FailedCases(seq) > 0
      /\ RunFailed(seq) <=> told.errorfs > 0
      /\ told.logged + told.suppressed = rate[2] - rate[1]
      /\ told.totalMetrics = counts.checks
      /\ told.failedCases = counts.runErrors
      /\ told.failedMetrics = SumFailed(seq)
      /\ \A n \in keys : told.metricTotals[n] = SumNamed(seq, n)

\* Whatever is told of a result that has a verdict for each of its cases,
\* agrees.
LEMMA ReportsAgree ==
  ASSUME NEW keys, keys # {}, NEW seq,
         Len(seq) \in Nat \ {0}, DOMAIN seq = 1 .. Len(seq),
         \A i \in 1 .. Len(seq) : ReportableCase(keys, seq[i])
  PROVE  Agreed(keys, seq)
<1> DEFINE before == FoldLeft(TellCase, NothingTold(keys), seq)
           told   == AssertRun(seq, keys)
           counts == Counts(seq)
           fallen == FailedCases(seq)
           sum    == SumFailed(seq)
           named(n) == SumNamed(seq, n)
           judged  == counts.checks + counts.runErrors
<1>1. ASSUME NEW n \in keys
      PROVE  /\ sum \in Nat /\ fallen \in Nat
             /\ Tally(keys, before, counts, sum, n, named(n))
             /\ counts.checks + counts.runErrors >= Len(seq)
             /\ RunFailed(seq) <=> fallen > 0
             /\ RunFailed(seq) <=> counts.failedChecks + counts.runErrors > 0
  BY TallyCases
<1>2. told = IF before.suppressed > 0 THEN [before EXCEPT !.errorfs = @ + 1]
             ELSE before
  BY DEF AssertRun
<1>3. PassRate(seq) = IF judged = 0 THEN <<0, 1>>
                      ELSE <<counts.checks - counts.failedChecks, judged>>
  BY DEF PassRate
<1> HIDE DEF before, told, counts, fallen, sum, named
<1>4. PICK n0 \in keys : TRUE
  OBVIOUS
<1>5. /\ Told(keys, before) /\ LogInv(before) /\ Counted(counts)
      /\ before.totalMetrics = counts.checks
      /\ before.failedCases = counts.runErrors
      /\ before.failedMetrics = sum
      /\ before.logged + before.suppressed
           = counts.failedChecks + counts.runErrors
  BY <1>1, <1>4 DEF Tally
<1>6. \A n \in keys : before.metricTotals[n] = named(n)
  BY <1>1 DEF Tally
<1>7. /\ judged > 0
      /\ RunFailed(seq) <=> fallen > 0
      /\ RunFailed(seq) <=> counts.failedChecks + counts.runErrors > 0
  BY <1>1, <1>4, <1>5 DEF Counted
<1>8. /\ told.totalMetrics = before.totalMetrics
      /\ told.failedCases = before.failedCases
      /\ told.failedMetrics = before.failedMetrics
      /\ told.logged = before.logged /\ told.suppressed = before.suppressed
      /\ told.metricTotals = before.metricTotals
      /\ told.errorfs > 0 <=> before.logged + before.suppressed > 0
  <2>1. CASE before.suppressed > 0
    BY <1>2, <1>5, <2>1 DEF Told, LogInv
  <2>2. CASE ~ (before.suppressed > 0)
    BY <1>2, <1>5, <2>2 DEF Told, LogInv
  <2> QED BY <2>1, <2>2
<1>9. PassRate(seq)[1] = counts.checks - counts.failedChecks
      /\ PassRate(seq)[2] = judged
  BY <1>3, <1>7
<1>10. /\ RunFailed(seq) <=> PassRate(seq)[1] < PassRate(seq)[2]
       /\ told.logged + told.suppressed = PassRate(seq)[2] - PassRate(seq)[1]
  BY <1>5, <1>7, <1>8, <1>9 DEF Counted
<1>11. \A n \in keys : told.metricTotals[n] = named(n)
  BY <1>6, <1>8
<1> QED BY <1>5, <1>7, <1>8, <1>10, <1>11 
  DEF told, counts, fallen, sum, named, Agreed

-----------------------------------------------------------------------------
(* compactMetrics *)

\* The metric arguments Run may be given, and those no longer than n.
Lists == Seq(MetricNames \cup {NilMetric})

UpTo(n) == {s \in Lists : Len(s) <= n}

\* What compactMetrics makes of a list, given what f makes of its tail.
Compacted(s, f) ==
  IF s = <<>> THEN <<>>
  ELSE (IF Head(s) = NilMetric THEN <<>> ELSE <<Head(s)>>) \o f[Tail(s)]

\* f is compactMetrics as far as lists of n elements go.
CompactsUpTo(n, f) ==
  /\ f \in [UpTo(n) -> Seq(MetricNames)]
  /\ \A s \in UpTo(n) : f[s] = Compacted(s, f)

\* Dropping the first element leaves a shorter sequence.
LEMMA TailShorter ==
  ASSUME NEW s \in Lists, s # <<>>
  PROVE  /\ Tail(s) \in Lists
         /\ Len(s) \in Nat \ {0}
         /\ Len(Tail(s)) = Len(s) - 1
         /\ Head(s) \in MetricNames \cup {NilMetric}
  BY HeadTailProperties, EmptySeq DEF Lists

\* Any function that compacts the lists of a bounded length returns lists of metrics.
LEMMA CompactedTyped ==
  ASSUME NEW s \in Lists, NEW f, s # <<>> => f[Tail(s)] \in Seq(MetricNames)
  PROVE  Compacted(s, f) \in Seq(MetricNames)
<1>1. CASE s = <<>>
  BY <1>1 DEF Compacted
<1>2. CASE s # <<>>
  <2> DEFINE first == IF Head(s) = NilMetric THEN <<>> ELSE <<Head(s)>>
  <2>1. first \in Seq(MetricNames)
    BY <1>2, TailShorter
  <2>2. first \o f[Tail(s)] \in Seq(MetricNames)
    <3> HIDE DEF first
    <3> QED BY <1>2, <2>1, ConcatProperties
  <2> QED BY <1>2, <2>2 DEF Compacted
<1> QED BY <1>1, <1>2

\* Lists of a bounded length can be compacted ...
LEMMA CompactsExist ==
  ASSUME NEW n \in Nat
  PROVE  \E f : CompactsUpTo(n, f)
<1> DEFINE bad == {m \in Nat : ~ \E f : CompactsUpTo(m, f)}
<1> SUFFICES ASSUME bad # {} PROVE FALSE
  OBVIOUS
<1>1. PICK m \in bad : \A j \in bad : m <= j
  <2>1. bad \subseteq Nat
    OBVIOUS
  <2> HIDE DEF bad
  <2> QED BY <2>1, LeastExists
<1>2. CASE m = 0
  <2> DEFINE f == [s \in UpTo(m) |-> <<>>]
  <2>1. \A s \in UpTo(m) : s = <<>>
    BY <1>2, EmptySeq DEF UpTo, Lists
  <2>2. \A s \in UpTo(m) : Compacted(s, f) = <<>>
    BY <2>1 DEF Compacted
  <2>3. f \in [UpTo(m) -> Seq(MetricNames)]
    BY EmptySeq
  <2>4. CompactsUpTo(m, f)
    BY <2>2, <2>3 DEF CompactsUpTo
  <2> QED BY <2>4
<1>3. CASE m > 0
  <2>1. m - 1 \in Nat /\ ~ (m <= m - 1)
    BY <1>3
  <2>2. PICK g : CompactsUpTo(m - 1, g)
    BY <1>1, <2>1
  <2> DEFINE f == [s \in UpTo(m) |-> Compacted(s, g)]
  <2>3. \A s \in UpTo(m) : s # <<>> =>
          Tail(s) \in UpTo(m - 1) /\ Tail(s) \in UpTo(m)
    BY <1>3, TailShorter DEF UpTo
  <2>4. f \in [UpTo(m) -> Seq(MetricNames)]
    <3>1. \A s \in UpTo(m) : Compacted(s, g) \in Seq(MetricNames)
      <4> TAKE s \in UpTo(m)
      <4>1. s # <<>> => g[Tail(s)] \in Seq(MetricNames)
        BY <2>2, <2>3 DEF CompactsUpTo
      <4> QED BY <4>1, CompactedTyped DEF UpTo
    <3> QED BY <3>1
  <2>5. \A s \in UpTo(m - 1) : f[s] = g[s]
    <3>1. UpTo(m - 1) \subseteq UpTo(m)
      BY <1>3, LenProperties DEF UpTo, Lists
    <3> QED BY <2>2, <3>1 DEF CompactsUpTo
  <2>6. \A s \in UpTo(m) : f[s] = Compacted(s, f)
    <3> TAKE s \in UpTo(m)
    <3>1. f[s] = Compacted(s, g)
      OBVIOUS
    <3>2. s # <<>> => f[Tail(s)] = g[Tail(s)]
      BY <2>3, <2>5
    <3> HIDE DEF f
    <3> QED BY <3>1, <3>2 DEF Compacted
  <2>7. CompactsUpTo(m, f)
    <3> HIDE DEF f
    <3> QED BY <2>4, <2>6 DEF CompactsUpTo
  <2> QED BY <2>7
<1> QED BY <1>2, <1>3

\* ... in one way.
LEMMA CompactsUnique ==
  ASSUME NEW m \in Nat, NEW n \in Nat, NEW f, NEW g,
         CompactsUpTo(m, f), CompactsUpTo(n, g),
         NEW s \in UpTo(m) \cap UpTo(n)
  PROVE  f[s] = g[s]
<1> DEFINE differ == {t \in UpTo(m) \cap UpTo(n) : f[t] # g[t]}
           lens   == {Len(t) : t \in differ}
<1> SUFFICES ASSUME differ # {} PROVE FALSE
  OBVIOUS
<1>1. lens \subseteq Nat /\ lens # {}
  <2>1. \A t \in differ : Len(t) \in Nat
    BY LenProperties DEF UpTo, Lists
  <2>2. PICK t \in differ : TRUE
    OBVIOUS
  <2> HIDE DEF differ
  <2> QED BY <2>1, <2>2
<1>2. PICK k \in lens : \A j \in lens : k <= j
  <2> HIDE DEF lens
  <2> QED BY <1>1, LeastExists
<1>3. PICK t \in differ : k = Len(t)
  OBVIOUS
<1>4. t \in UpTo(m) /\ t \in UpTo(n) /\ t \in Lists /\ f[t] # g[t]
  BY <1>3 DEF UpTo
<1>5. f[t] = Compacted(t, f) /\ g[t] = Compacted(t, g)
  BY <1>4 DEF CompactsUpTo
<1>6. t # <<>>
  BY <1>4, <1>5 DEF Compacted
<1>7. /\ Tail(t) \in UpTo(m) \cap UpTo(n)
      /\ ~ (Len(t) <= Len(Tail(t)))
  BY <1>4, <1>6, TailShorter DEF UpTo
<1>8. f[Tail(t)] = g[Tail(t)]
  BY <1>2, <1>3, <1>7
<1> QED BY <1>4, <1>5, <1>8 DEF Compacted

\* compactMetrics returns metrics: no nil is among them.
LEMMA CompactTyped ==
  ASSUME NEW list \in Lists
  PROVE  CompactMetrics[list] \in Seq(MetricNames)
<1> DEFINE Compacts(f) == f = [s \in Lists |-> Compacted(s, f)]
           part(n)     == CHOOSE f : CompactsUpTo(n, f)
           all         == [s \in Lists |-> part(Len(s))[s]]
<1>1. \A n \in Nat : CompactsUpTo(n, part(n))
  BY CompactsExist
<1>2. \A s \in Lists : Len(s) \in Nat /\ s \in UpTo(Len(s))
  BY LenProperties DEF UpTo, Lists
<1>3. \A s \in Lists : all[s] = Compacted(s, all) /\ all[s] \in Seq(MetricNames)
  <2> TAKE s \in Lists
  <2>1. all[s] = Compacted(s, part(Len(s))) /\ all[s] \in Seq(MetricNames)
    BY <1>1, <1>2 DEF CompactsUpTo
  <2>2. s # <<>> => all[Tail(s)] = part(Len(s))[Tail(s)]
    <3> SUFFICES ASSUME s # <<>> PROVE all[Tail(s)] = part(Len(s))[Tail(s)]
      OBVIOUS
    <3>1. Tail(s) \in UpTo(Len(s)) \cap UpTo(Len(Tail(s))) /\ Len(Tail(s)) \in Nat
      BY <1>2, TailShorter DEF UpTo
    <3>2. all[Tail(s)] = part(Len(Tail(s)))[Tail(s)]
      BY TailShorter
    <3> HIDE DEF part, all
    <3> QED BY <1>1, <1>2, <3>1, <3>2, CompactsUnique
  <2> HIDE DEF all, part
  <2> QED BY <2>1, <2>2 DEF Compacted
<1>4. Compacts(all)
  <2>1. all = [s \in Lists |-> all[s]]
    OBVIOUS
  <2> HIDE DEF all
  <2> QED BY <1>3, <2>1
<1>5. CompactMetrics = CHOOSE f : Compacts(f)
  BY Zenon DEF CompactMetrics, Compacted, Lists
<1>6. Compacts(CompactMetrics)
  <2> HIDE DEF Compacts, all
  <2> QED BY <1>4, <1>5, Zenon
<1>7. \A s \in Lists : CompactMetrics[s] = all[s]
  <2> HIDE DEF all
  <2> DEFINE differ == {s \in Lists : CompactMetrics[s] # all[s]}
             lens   == {Len(s) : s \in differ}
  <2> SUFFICES ASSUME differ # {} PROVE FALSE
    OBVIOUS
  <2>1. lens \subseteq Nat /\ lens # {}
    BY <1>2
  <2>2. PICK k \in lens : \A j \in lens : k <= j
    <3> HIDE DEF lens
    <3> QED BY <2>1, LeastExists
  <2>3. PICK t \in differ : k = Len(t)
    OBVIOUS
  <2>4. t \in Lists /\ CompactMetrics[t] # all[t]
    OBVIOUS
  <2>5. CompactMetrics[t] = Compacted(t, CompactMetrics)
    BY <1>6, <2>4
  <2>6. all[t] = Compacted(t, all)
    BY <1>3, <2>4
  <2>7. t # <<>>
    BY <2>4, <2>5, <2>6 DEF Compacted
  <2>8. Tail(t) \in Lists /\ ~ (Len(t) <= Len(Tail(t)))
    BY <2>4, <2>7, TailShorter
  <2>9. CompactMetrics[Tail(t)] = all[Tail(t)]
    BY <2>2, <2>3, <2>8
  <2> QED BY <2>4, <2>5, <2>6, <2>9 DEF Compacted
<1> QED BY <1>3, <1>7
-----------------------------------------------------------------------------
(* The runner takes steps of the pool *)

\* What a runner knows before Run is called.
RegistryInv ==
  /\ cfg \in Configs
  /\ registered \in Seq(CaseRecord)
  /\ Len(registered) \in 0 .. MaxTotal
  /\ names \subseteq Names

\* The registry of a new runner is in order.
LEMMA InitRegistry == Init => RegistryInv
  BY RunnerAssumption, EmptySeq DEF Init, RegistryInv, RunnerAssumption

\* Registration and runs keep the registry in order.
LEMMA NextRegistry == RegistryInv /\ [Next]_vars => RegistryInv'
<1> SUFFICES ASSUME RegistryInv, [Next]_vars PROVE RegistryInv'
  OBVIOUS
<1>1. ASSUME NEW c \in CaseInputs, Register(c) PROVE RegistryInv'
  <2>1. [name |-> c.name, contains |-> c.contains] \in CaseRecord
    <3>1. c.name \in Names \cup {Blank} /\ c.contains \in SUBSET (Needles \cup {Blank})
      BY RunnerAssumption DEF RunnerAssumption
    <3>2. c.name \in Names /\ c.contains \in SUBSET Needles
      BY <1>1, <3>1 DEF Register, ValidCase
    <3> QED BY <3>2 DEF CaseRecord
  <2>2. /\ registered' \in Seq(CaseRecord)
        /\ Len(registered') = Len(registered) + 1
    BY <1>1, <2>1, AppendProperties DEF RegistryInv, Register
  <2>3. names' \subseteq Names
    BY <1>1, <2>1 DEF RegistryInv, Register, CaseRecord
  <2> QED
    BY <1>1, <2>2, <2>3, RunnerAssumption
    DEF RegistryInv, Register, RunnerAssumption
<1>2. CASE UNCHANGED <<cfg, registered, names>>
  BY <1>2 DEF RegistryInv
<1>3. ASSUME NEW list \in MetricLists, NEW nilRun \in BOOLEAN,
             RunStarts(list, nilRun) \/ RunRejected(list, nilRun)
      PROVE  UNCHANGED <<cfg, registered, names>>
  BY <1>3 DEF RunStarts, RunRejected
<1>4. ASSUME PoolStep \/ Cancel \/ Settle \/ Report \/ Terminated \/ UNCHANGED vars
      PROVE  UNCHANGED <<cfg, registered, names>>
  BY <1>4 DEF PoolStep, Cancel, Settle, Report, Terminated, vars, runVars
<1>5. ASSUME NEW w \in Worker, StartCase(w) \/ CaseTimeout(w) \/ CallbackStep(w)
      PROVE  UNCHANGED <<cfg, registered, names>>
  BY <1>5
  DEF StartCase, CaseTimeout, CallbackStep, runVars, RunFuncFails,
      RunFuncAnswers, MetricBegins, MetricFindsCtxDone, MetricsExhausted,
      MetricJudges, MetricErrs, MetricErrsOnContext, EndCase
<1> QED BY <1>1, <1>2, <1>3, <1>4, <1>5 DEF Next

\* A step of the runner is one of the pool, or none the pool can see.
LEMMA StepOfPool ==
  RegistryInv /\ [Next]_vars => [PoolProofs!Next]_(PoolProofs!poolVars)
<1> SUFFICES ASSUME RegistryInv, [Next]_vars
             PROVE  [PoolProofs!Next]_(PoolProofs!poolVars)
  OBVIOUS
<1>1. CASE UNCHANGED poolVars
  BY <1>1 DEF poolVars, PoolProofs!poolVars
<1>2. ASSUME NEW list \in MetricLists, NEW nilRun \in BOOLEAN,
             RunStarts(list, nilRun)
      PROVE  PoolProofs!Next
  <2>1. Len(registered) \in 0 .. MaxTotal /\ cfg.parallelism \in Limits
    BY DEF RegistryInv, Limits
  <2>2. PoolProofs!Invoke(Len(registered), cfg.parallelism)
    BY <1>2 DEF RunStarts, Pool!Invoke, PoolProofs!Invoke
  <2> QED BY <2>1, <2>2 DEF PoolProofs!Next
<1>3. CASE PoolStep
  <2>1. PoolProofs!Dispatcher \/ \E w \in Worker : PoolProofs!WorkerExit(w)
    BY <1>3
    DEF PoolStep, Worker, Pool!Worker, PoolProofs!Worker,
        Pool!Dispatcher, PoolProofs!Dispatcher, Pool!Spawn, PoolProofs!Spawn,
        Pool!SpawnedAll, PoolProofs!SpawnedAll, Pool!Handoff,
        PoolProofs!Handoff, Pool!CloseJobs, PoolProofs!CloseJobs,
        Pool!Join, PoolProofs!Join, Pool!WorkerExit, PoolProofs!WorkerExit,
        Pool!NumWorkers, PoolProofs!NumWorkers
  <2> QED
    BY <2>1 DEF PoolProofs!Next, PoolProofs!WorkerStep, Worker, PoolProofs!Worker
<1>4. CASE Cancel
  BY <1>4 DEF Cancel, Pool!Cancel, PoolProofs!Cancel, PoolProofs!Next
<1>5. ASSUME NEW w \in Worker, StartCase(w) \/ EndCase(w)
      PROVE  PoolProofs!Next
  <2>1. PoolProofs!Call(w) \/ PoolProofs!CallReturns(w)
    BY <1>5
    DEF StartCase, EndCase, Pool!Call, PoolProofs!Call, Pool!CallReturns,
        PoolProofs!CallReturns
  <2> QED
    BY <2>1 DEF PoolProofs!Next, PoolProofs!WorkerStep, Worker, PoolProofs!Worker
<1>6. ASSUME NEW c \in CaseInputs, Register(c)
      PROVE  UNCHANGED poolVars
  BY <1>6 DEF Register
<1>7. ASSUME NEW list \in MetricLists, NEW nilRun \in BOOLEAN,
             RunRejected(list, nilRun)
      PROVE  UNCHANGED poolVars
  BY <1>7 DEF RunRejected
<1>8. ASSUME Settle \/ Report \/ Terminated \/ UNCHANGED vars
      PROVE  UNCHANGED poolVars
  BY <1>8 DEF Settle, Report, Terminated, vars
<1>9. ASSUME NEW w \in Worker, CaseTimeout(w) \/ CallbackStep(w), ~EndCase(w)
      PROVE  UNCHANGED poolVars
  BY <1>9
  DEF CaseTimeout, CallbackStep, RunFuncFails, RunFuncAnswers, MetricBegins,
      MetricFindsCtxDone, MetricsExhausted, MetricJudges, MetricErrs,
      MetricErrsOnContext
<1> QED
  BY <1>1, <1>2, <1>3, <1>4, <1>5, <1>6, <1>7, <1>8, <1>9
  DEF Next, CallbackStep

\* In every reachable state of the runner the registry is in order.
LEMMA RegistryInvariant == Safety => []RegistryInv
  BY InitRegistry, NextRegistry, PTL DEF Safety

\* The names of the pool, as Runner and as the pool's proofs know it.
LEMMA SamePool ==
  /\ Pool!Init <=> PoolProofs!Init
  /\ [PoolProofs!Next]_(PoolProofs!poolVars) => [Pool!Next]_(Pool!poolVars)
<1>1. Pool!Init <=> PoolProofs!Init
  BY DEF Pool!Init, PoolProofs!Init, Pool!Worker, PoolProofs!Worker,
         Pool!Index, PoolProofs!Index
<1>2. ASSUME PoolProofs!Next PROVE Pool!Next
  BY <1>2
  DEF Pool!Next, PoolProofs!Next, Pool!Invoke, PoolProofs!Invoke, Pool!Cancel,
      PoolProofs!Cancel, Pool!Dispatcher, PoolProofs!Dispatcher, Pool!Spawn,
      PoolProofs!Spawn, Pool!SpawnedAll, PoolProofs!SpawnedAll, Pool!Handoff,
      PoolProofs!Handoff, Pool!CloseJobs, PoolProofs!CloseJobs, Pool!Join,
      PoolProofs!Join, Pool!WorkerExit, PoolProofs!WorkerExit,
      Pool!WorkerStep, PoolProofs!WorkerStep, Pool!Call, PoolProofs!Call,
      Pool!CallReturns, PoolProofs!CallReturns, Pool!Terminated,
      PoolProofs!Terminated, Pool!poolVars, PoolProofs!poolVars,
      Pool!NumWorkers, PoolProofs!NumWorkers, Pool!Worker, PoolProofs!Worker
<1>3. PoolProofs!poolVars = Pool!poolVars
  BY DEF PoolProofs!poolVars, Pool!poolVars
<1> QED BY <1>1, <1>2, <1>3 DEF Pool!poolVars, PoolProofs!poolVars

(***************************************************************************)
(* The runner uses the pool as RunIndexed allows: its steps are steps of   *)
(* WorkerPool.  This is the safety part of ImplementsPool.                 *)
(***************************************************************************)
THEOREM RunnerImplementsPool == Safety => Pool!Safety
<1>1. Init => Pool!Init
  BY DEF Init
<1> QED
  BY <1>1, RegistryInvariant, StepOfPool, SamePool, PTL
  DEF Safety, Pool!Safety

(***************************************************************************)
(* So what is proved of the pool holds in the runner.                      *)
(***************************************************************************)
LEMMA PoolInvariant == Safety => []PoolProofs!PoolInv
<1>1. Init => PoolProofs!Init
  BY SamePool DEF Init
<1>2. Safety => PoolProofs!Safety
  BY <1>1, RegistryInvariant, StepOfPool, PTL DEF Safety, PoolProofs!Safety
<1> QED BY <1>2, PoolAssumption, PoolProofs!PoolInvariant, PTL
-----------------------------------------------------------------------------
(* What the pool's invariant says to the runner *)

\* A worker in a callback has an index of the run to itself, entered once and
\* not left, and the dispatcher waits for it.
LEMMA RunningFacts ==
  ASSUME PoolProofs!PoolInv, NEW w \in Worker, wstate[w] = "running"
  PROVE  /\ job[w] \in Index /\ job[w] \in 0 .. total - 1
         /\ begun[job[w]] = 1 /\ begun[job[w]] # 0 /\ ended[job[w]] = 0
         /\ pc \notin {"call", "returned"}
         /\ \A v \in Worker : v # w /\ wstate[v] = "running" => job[v] # job[w]
<1> USE DEF PoolProofs!PoolInv, PoolProofs!TypeOK, PoolProofs!Worker,
            PoolProofs!Index, Worker, Index
<1>1. w \in PoolProofs!Holding
  BY DEF PoolProofs!Holding
<1>2. /\ job[w] \in 0 .. MaxTotal /\ job[w] < next /\ next <= total
      /\ total \in 0 .. MaxTotal /\ next \in 0 .. MaxTotal
  BY <1>1 DEF PoolProofs!JobsInv, PoolProofs!DispatcherInv
<1>3. job[w] \in Index /\ job[w] \in 0 .. total - 1
  BY <1>2, PoolAssumption
<1>4. begun[job[w]] = 1 /\ begun[job[w]] # 0 /\ ended[job[w]] = 0
  BY <1>1 DEF PoolProofs!JobsInv
<1>5. pc \notin {"call", "returned"}
  BY <1>2 DEF PoolProofs!DispatcherInv, PoolProofs!WorkersInv
<1>6. \A v \in Worker : v # w /\ wstate[v] = "running" => job[v] # job[w]
  BY <1>1 DEF PoolProofs!JobsInv, PoolProofs!Holding
<1> QED BY <1>3, <1>4, <1>5, <1>6

\* When RunIndexed is back no callback is left, an index was entered and left
\* or not at all, and indexes remain only if the context was done.
LEMMA ReturnedFacts ==
  ASSUME PoolProofs!PoolInv, pc = "returned"
  PROVE  /\ \A w \in Worker : wstate[w] \in {"unspawned", "exited"}
         /\ \A i \in Index : begun[i] = 0 \/ ended[i] = 1
         /\ \A i \in Index : i < total /\ begun[i] = 0 => ctxDone
<1> USE DEF PoolProofs!PoolInv, PoolProofs!TypeOK, PoolProofs!Worker,
            PoolProofs!Index, Worker, Index
<1>1. \A w \in Worker : wstate[w] \in {"unspawned", "exited"}
  BY DEF PoolProofs!DispatcherInv, PoolProofs!WorkersInv, PoolProofs!WStates
<1>2. PoolProofs!Holding = {}
  BY <1>1 DEF PoolProofs!Holding
<1>3. \A i \in Index : IF i < next THEN begun[i] = 1 /\ ended[i] = 1
                      ELSE begun[i] = 0 /\ ended[i] = 0
  <2> TAKE i \in Index
  <2>1. i \in Int /\ next \in Int
    OBVIOUS
  <2>2. i < next \/ i >= next
    BY <2>1
  <2> QED BY <1>2, <2>2 DEF PoolProofs!CountsInv
<1>4. next = total \/ ctxDone
  BY DEF PoolProofs!DispatcherInv
<1> QED BY <1>1, <1>3, <1>4

\* Before RunIndexed is called there is no worker.
LEMMA CalledFacts ==
  ASSUME PoolProofs!PoolInv, pc = "call"
  PROVE  /\ \A w \in Worker : wstate[w] = "unspawned"
         /\ \A i \in Index : begun[i] = 0 /\ ended[i] = 0
<1> USE DEF PoolProofs!PoolInv, PoolProofs!TypeOK, PoolProofs!Worker,
            PoolProofs!Index, Worker, Index
<1>1. spawned = 0 /\ next = 0
  BY DEF PoolProofs!DispatcherInv
<1> QED BY <1>1 DEF PoolProofs!WorkersInv, PoolProofs!CountsInv

\* The pool's variables have the types the runner's type invariant gives them.
LEMMA PoolTyped ==
  /\ PoolProofs!PoolInv => Pool!TypeOK
  /\ PoolProofs!PoolInv' => Pool!TypeOK'
  BY DEF PoolProofs!PoolInv, PoolProofs!TypeOK, Pool!TypeOK, Pool!Worker,
         PoolProofs!Worker, Pool!Index, PoolProofs!Index, Pool!PCs,
         PoolProofs!PCs, Pool!WStates, PoolProofs!WStates

\* An index is entered and left a whole number of times, and entered first.
LEMMA CountsTyped ==
  ASSUME PoolProofs!PoolInv
  PROVE  /\ total \in 0 .. MaxTotal
         /\ \A i \in Index : begun[i] \in Nat /\ ended[i] \in Nat
         /\ \A i \in Index : begun[i] = 0 => ended[i] = 0
<1> USE DEF PoolProofs!PoolInv, PoolProofs!TypeOK, PoolProofs!Index, Index
<1>1. \A i \in Index : begun[i] = 0 => ended[i] = 0
  <2> TAKE i \in Index
  <2>1. i \in Int /\ next \in Int
    OBVIOUS
  <2>2. i < next \/ i >= next
    BY <2>1
  <2> QED BY <2>2 DEF PoolProofs!CountsInv, PoolProofs!JobsInv
<1> QED BY <1>1

-----------------------------------------------------------------------------
(* Checks and results *)

\* The checks a case is meant to go through: the containment check, if any,
\* then the metrics.
LEMMA ExpectedShape ==
  ASSUME metrics \in Seq(MetricNames), NEW i
  PROVE  /\ Lead(i) \in {0, 1}
         /\ Len(metrics) \in Nat
         /\ ExpectedChecks(i) \in Seq(MetricNames \cup {ContainsCheck})
         /\ Len(ExpectedChecks(i)) = Lead(i) + Len(metrics)
         /\ Lead(i) = 1 => ExpectedChecks(i)[1] = ContainsCheck
         /\ \A k \in 1 .. Len(metrics) : ExpectedChecks(i)[Lead(i) + k] = metrics[k]
<1> DEFINE S    == MetricNames \cup {ContainsCheck}
           lead == IF cases[i + 1].contains = {} THEN <<>> ELSE <<ContainsCheck>>
<1>1. metrics \in Seq(S) /\ Len(metrics) \in Nat
  BY SeqMonotonic
<1>2. lead \in Seq(S) /\ Len(lead) = Lead(i) /\ Lead(i) \in {0, 1}
  <2>1. CASE cases[i + 1].contains = {}
    BY <2>1, EmptySeq DEF Lead
  <2>2. CASE cases[i + 1].contains # {}
    <3>1. lead = <<ContainsCheck>> /\ Lead(i) = 1
      BY <2>2 DEF Lead
    <3>2. ContainsCheck \in S
      OBVIOUS
    <3> HIDE DEF lead, S
    <3> QED BY <3>1, <3>2
  <2> QED BY <2>1, <2>2
<1>3. Lead(i) = 1 => lead[1] = ContainsCheck
  BY DEF Lead
<1>4. ExpectedChecks(i) = lead \o metrics
  BY DEF ExpectedChecks
<1> HIDE DEF lead
<1>5. /\ ExpectedChecks(i) \in Seq(S)
      /\ Len(ExpectedChecks(i)) = Lead(i) + Len(metrics)
      /\ \A k \in 1 .. Lead(i) + Len(metrics) :
           ExpectedChecks(i)[k] = IF k <= Lead(i) THEN lead[k] ELSE metrics[k - Lead(i)]
  BY <1>1, <1>2, <1>4, ConcatProperties
<1>6. Lead(i) = 1 => ExpectedChecks(i)[1] = ContainsCheck
  BY <1>1, <1>3, <1>5
<1>7. \A k \in 1 .. Len(metrics) : ExpectedChecks(i)[Lead(i) + k] = metrics[k]
  BY <1>1, <1>2, <1>5
<1> QED BY <1>1, <1>2, <1>5, <1>6, <1>7

\* limitDetails leaves details that fit as they are, and of others nothing
\* that can be read, as long as the limit.
LEMMA LimitDetailsTyped ==
  ASSUME cfg \in Configs, NEW text, NEW size \in Nat \ {0}
  PROVE  LET left == LimitDetails(text, size) IN
         /\ cfg.detailsMax \in Nat
         /\ left \in [text : {"none", text, "cut"}, length : Nat]
         /\ \/ left.text = text /\ left.length <= cfg.detailsMax
            \/ left.text \in {"none", "cut"} /\ left.length = cfg.detailsMax
<1>1. cfg.detailsMax \in Nat
  BY RunnerAssumption DEF RunnerAssumption
<1>2. CASE cfg.detailsMax = 0
  <2>1. ~(cfg.detailsMax > 0 /\ size <= cfg.detailsMax)
    BY <1>1, <1>2
  <2>2. LimitDetails(text, size) = NoDetails
    BY <1>2, <2>1, Zenon DEF LimitDetails
  <2> QED BY <1>1, <1>2, <2>2 DEF NoDetails
<1>3. CASE cfg.detailsMax # 0 /\ size <= cfg.detailsMax
  <2>1. cfg.detailsMax > 0 /\ cfg.detailsMax # 0
    BY <1>1, <1>3
  <2>2. LimitDetails(text, size) = [text |-> text, length |-> size]
    BY <1>3, <2>1, Zenon DEF LimitDetails
  <2> QED BY <1>1, <1>3, <2>2
<1>4. CASE cfg.detailsMax # 0 /\ ~(size <= cfg.detailsMax)
  <2>1. ~(cfg.detailsMax > 0 /\ size <= cfg.detailsMax)
    BY <1>4
  <2>2. LimitDetails(text, size) = [text |-> "cut", length |-> cfg.detailsMax]
    BY <1>4, <2>1, Zenon DEF LimitDetails
  <2> QED BY <1>1, <2>2
<1> QED BY <1>2, <1>3, <1>4

\* The check results the callback records.
LEMMA ChecksTyped ==
  ASSUME cfg \in Configs, NEW check \in MetricNames \cup {ContainsCheck},
         NEW pass \in BOOLEAN, NEW size \in Nat \ {0},
         NEW text \in {"info", "context"}
  PROVE  /\ Judged(check, pass, NoDetails) \in CheckResult
         /\ Judged(check, pass, LimitDetails("own", size)) \in CheckResult
         /\ Unjudged(check, text, size) \in CheckResult
<1>1. /\ LimitDetails("own", size) \in Details
      /\ LimitDetails(text, size) \in Details
      /\ NoDetails \in Details
  BY LimitDetailsTyped DEF Details, NoDetails
<1> QED BY <1>1 DEF Judged, Unjudged, CheckResult

\* The sizes of a metric's details are sizes.
LEMMA SizesTyped ==
  ASSUME NEW m \in MetricNames, NEW size \in DetailsSizes[m]
  PROVE  size \in Nat \ {0}
  BY RunnerAssumption DEF RunnerAssumption

\* A check result is appended to one case, which is otherwise left alone.
LEMMA AddResultEffect ==
  ASSUME result \in [Index -> CaseResult], NEW w, job[w] \in Index,
         NEW r \in CheckResult, AddResult(w, r)
  PROVE  LET i    == job[w]
             old  == result[i].checks
             new  == result'[i].checks
         IN  /\ result' \in [Index -> CaseResult]
             /\ \A j \in Index : j # i => result'[j] = result[j]
             /\ result'[i].runError = result[i].runError
             /\ Len(old) \in Nat
             /\ Len(new) = Len(old) + 1
             /\ \A k \in 1 .. Len(old) : new[k] = old[k]
             /\ new[Len(old) + 1] = r
<1> DEFINE i   == job[w]
           old == result[i].checks
           row == [result[i] EXCEPT !.checks = Append(old, r)]
<1>1. result[i] \in CaseResult /\ old \in Seq(CheckResult)
  BY DEF CaseResult
<1>2. /\ Append(old, r) \in Seq(CheckResult)
      /\ Len(old) \in Nat
      /\ Len(Append(old, r)) = Len(old) + 1
      /\ \A k \in 1 .. Len(old) : Append(old, r)[k] = old[k]
      /\ Append(old, r)[Len(old) + 1] = r
  <2> HIDE DEF old
  <2> QED BY <1>1, AppendProperties, LenProperties
<1>3. /\ row \in CaseResult
      /\ row.checks = Append(old, r)
      /\ row.runError = result[i].runError
  BY <1>1, <1>2 DEF CaseResult
<1>4. result' = [result EXCEPT ![i] = row]
  BY DEF AddResult
<1>5. /\ result' \in [Index -> CaseResult]
      /\ \A j \in Index : j # i => result'[j] = result[j]
      /\ result'[i] = row
  <2> HIDE DEF row
  <2> QED BY <1>3, <1>4
<1> QED BY <1>2, <1>3, <1>5
-----------------------------------------------------------------------------
(* The inductive invariant *)

\* A new runner satisfies the invariant.
LEMMA InitRunnerInv == Init /\ PoolProofs!PoolInv => RunnerInv
<1> SUFFICES ASSUME Init, PoolProofs!PoolInv PROVE RunnerInv
  OBVIOUS
<1>1. NoResult \in CaseResult
  BY EmptySeq DEF NoResult, CaseResult
<1>2. TypeOK
  <2>1. /\ registered \in Seq(CaseRecord) /\ cases \in Seq(CaseRecord)
        /\ metrics \in Seq(MetricNames)
    BY EmptySeq DEF Init
  <2>2. result \in [Index -> CaseResult] /\ done \in [Index -> BOOLEAN]
    BY <1>1 DEF Init
  <2>3. /\ step \in [Worker -> Steps] /\ metricAt \in [Worker -> Nat]
        /\ expired \in [Worker -> BOOLEAN]
    BY DEF Init, Steps
  <2>4. /\ cfg \in Configs /\ names \subseteq Names
        /\ phase \in {"idle", "running", "reporting", "returned"}
        /\ runErr \in {"none", "invalid", "reporter panicked"}
    BY DEF Init
  <2> QED BY <2>1, <2>2, <2>3, <2>4, PoolTyped DEF TypeOK
<1>3. pc = "call" /\ total = 0
  BY DEF Init, Pool!Init
<1>4. PhaseInv
  BY <1>3 DEF Init, PhaseInv, HasResult
<1>5. \A w \in Worker : CallInv(w)
  BY <1>3, CalledFacts DEF Init, CallInv
<1>6. \A i \in Index : CaseInv(i)
  <2> TAKE i \in Index
  <2>1. begun[i] = 0 /\ ended[i] = 0 /\ i \in Nat /\ ~ (i < total)
    BY <1>3, CalledFacts DEF Index
  <2>2. result[i] = NoResult /\ done[i] = FALSE
    BY DEF Init
  <2> QED BY <2>1, <2>2 DEF CaseInv, NoResult
<1> QED BY <1>2, <1>4, <1>5, <1>6 DEF RunnerInv

\* What is said of a case's checks is said of them, its error and the run.
LEMMA SameCase ==
  ASSUME UNCHANGED <<cfg, cases, metrics>>, NEW i,
         result'[i].checks = result[i].checks,
         result'[i].runError = result[i].runError
  PROVE  /\ Over(i)' <=> Over(i)
         /\ Aligned(i)' <=> Aligned(i)
         /\ Unbroken(i)' <=> Unbroken(i)
<1>1. ExpectedChecks(i)' = ExpectedChecks(i)
  BY DEF ExpectedChecks
<1>2. Over(i)' <=> Over(i)
  BY <1>1 DEF Over, BreaksOff, LostToLimit, ReadsInfo
<1>3. (Aligned(i)' <=> Aligned(i)) /\ (Unbroken(i)' <=> Unbroken(i))
  BY <1>1 DEF Aligned, Unbroken
<1> QED BY <1>2, <1>3

\* What the callbacks record is judged by the cases, the locals and the
\* entered and left counts alone.
LEMMA CasesUnchanged ==
  ASSUME RunnerInv, HasResult' = HasResult,
         UNCHANGED <<cfg, total, cases, metrics, done, result, begun, ended>>
  PROVE  \A i \in Index : CaseInv(i)'
<1> TAKE i \in Index
<1>1. CaseInv(i)
  BY DEF RunnerInv
<1>2. (Over(i)' <=> Over(i)) /\ (Aligned(i)' <=> Aligned(i))
  BY SameCase
<1> QED BY <1>1, <1>2 DEF CaseInv

\* The locals of the callbacks are judged by them and the counts alone.
LEMMA CallsUnchanged ==
  ASSUME RunnerInv,
         UNCHANGED <<cfg, result, job, step, metricAt, cases, metrics>>,
         \A w \in Worker : wstate'[w] = "running" <=> wstate[w] = "running"
  PROVE  \A w \in Worker : CallInv(w)'
  BY DEF RunnerInv, CallInv, Over, BreaksOff, LostToLimit, ReadsInfo, Unbroken,
         ExpectedChecks, Lead

\* Registration does not touch the run in progress.
LEMMA RegisterKeeps ==
  ASSUME RunnerInv, PoolProofs!PoolInv', RegistryInv',
         NEW c \in CaseInputs, Register(c)
  PROVE  RunnerInv'
<1> USE DEF Register, poolVars, callVars
<1>1. TypeOK'
  BY PoolTyped DEF RunnerInv, TypeOK, RegistryInv
<1>2. PhaseInv'
  BY DEF RunnerInv, PhaseInv, HasResult
<1> QED
  BY <1>1, <1>2, CasesUnchanged, CallsUnchanged DEF RunnerInv, HasResult

\* Run checks its inputs and calls RunIndexed: no case has begun.
LEMMA RunStartsKeeps ==
  ASSUME RunnerInv, PoolProofs!PoolInv, PoolProofs!PoolInv', RegistryInv,
         NEW list \in MetricLists, NEW nilRun \in BOOLEAN, RunStarts(list, nilRun)
  PROVE  RunnerInv'
<1> USE DEF RunStarts, Pool!Invoke, callVars
<1>1. /\ phase = "idle" /\ runErr = "none"
      /\ pc = "call" /\ total = 0
  BY DEF RunnerInv, PhaseInv
<1>2. Len(registered) \in Nat \ {0}
  BY EmptySeq DEF RegistryInv
<1>3. pc' = "spawn" /\ total' = Len(registered) /\ phase' = "running"
  BY <1>2
<1>4. metrics' \in Seq(MetricNames)
  BY CompactTyped, RunnerAssumption DEF RunnerAssumption, Lists
<1>5. result' \in [Index -> CaseResult]
  <2>1. NoResult \in CaseResult
    BY EmptySeq DEF NoResult, CaseResult
  <2>2. \A i \in Index : i < Len(registered) =>
          [NoResult EXCEPT !.name = registered[i + 1].name] \in CaseResult
    <3> TAKE i \in Index
    <3>1. i < Len(registered) => registered[i + 1] \in CaseRecord
      BY <1>2 DEF RegistryInv, Index
    <3> QED BY <2>1, <3>1 DEF NoResult, CaseResult, CaseRecord
  <2> QED BY <2>1, <2>2
<1>6. \A i \in Index : result'[i].checks = <<>> /\ result'[i].runError = "none"
  <2> TAKE i \in Index
  <2>1. result'[i] = IF i < Len(registered)
                     THEN [NoResult EXCEPT !.name = registered[i + 1].name]
                     ELSE NoResult
    OBVIOUS
  <2> QED BY <2>1 DEF NoResult
<1>7. TypeOK'
  BY <1>4, <1>5, PoolTyped DEF RunnerInv, TypeOK
<1>8. PhaseInv'
  BY <1>1, <1>2, <1>3 DEF PhaseInv, HasResult
<1>9. \A w \in Worker : CallInv(w)'
  BY <1>1, CalledFacts DEF RunnerInv, CallInv
<1>10. \A i \in Index : CaseInv(i)'
  <2> TAKE i \in Index
  <2>1. begun'[i] = 0 /\ ended'[i] = 0 /\ ~HasResult'
    BY <1>1, <1>3, CalledFacts DEF HasResult
  <2>2. ~done'[i]
    BY <1>1, CalledFacts DEF RunnerInv, CaseInv
  <2>3. Aligned(i)'
    <3> DEFINE lead == IF cases'[i + 1].contains = {} THEN <<>> ELSE <<ContainsCheck>>
               S    == MetricNames \cup {ContainsCheck}
    <3>4. lead = <<>> \/ lead = <<ContainsCheck>>
      OBVIOUS
    <3>5. metrics' \in Seq(S)
      BY <1>4, SeqMonotonic
    <3>6. ExpectedChecks(i)' = lead \o metrics'
      BY DEF ExpectedChecks
    <3>1. Len(ExpectedChecks(i)') \in Nat
      <4> HIDE DEF lead
      <4>1. lead \in Seq(S)
        <5>1. CASE lead = <<>>
          BY <5>1, EmptySeq
        <5>2. CASE lead = <<ContainsCheck>>
          <6>1. ContainsCheck \in S
            OBVIOUS
          <6> HIDE DEF S
          <6> QED BY <5>2, <6>1
        <5> QED BY <3>4, <5>1, <5>2
      <4> HIDE DEF S
      <4> QED BY <3>5, <3>6, <4>1, ConcatProperties, LenProperties
    <3> QED BY <1>6, <3>1, EmptySeq DEF Aligned
  <2> QED BY <1>6, <2>1, <2>2, <2>3 DEF CaseInv
<1> QED BY <1>7, <1>8, <1>9, <1>10 DEF RunnerInv

\* Run refuses its inputs: the report is untouched.
LEMMA RunRejectedKeeps ==
  ASSUME RunnerInv, PoolProofs!PoolInv, PoolProofs!PoolInv',
         NEW list \in MetricLists, NEW nilRun \in BOOLEAN, RunRejected(list, nilRun)
  PROVE  RunnerInv'
<1> USE DEF RunRejected, poolVars, callVars
<1>1. TypeOK'
  BY PoolTyped DEF RunnerInv, TypeOK
<1>2. PhaseInv' /\ HasResult' = HasResult
  BY DEF RunnerInv, PhaseInv, HasResult
<1>3. \A w \in Worker : CallInv(w)'
  BY CallsUnchanged DEF RunnerInv
<1>4. \A i \in Index : CaseInv(i)'
  BY <1>2, CasesUnchanged
<1> QED BY <1>1, <1>2, <1>3, <1>4 DEF RunnerInv

\* Settle marks the cases that no callback was entered for.
LEMMA SettleKeeps ==
  ASSUME RunnerInv, PoolProofs!PoolInv, PoolProofs!PoolInv', Settle
  PROVE  RunnerInv'
<1> USE DEF Settle, poolVars, callVars
<1>1. runErr = "none" /\ ~HasResult /\ HasResult'
  BY DEF RunnerInv, PhaseInv, HasResult
<1>2. \A i \in Index :
        result'[i] = IF ctxDone /\ i < total /\ ~done[i]
                     THEN [result[i] EXCEPT !.runError = "canceled"]
                     ELSE result[i]
  OBVIOUS
<1>3. \A i \in Index : result[i] \in CaseResult
  BY DEF RunnerInv, TypeOK
<1>4. \A i \in Index :
        /\ result'[i] \in CaseResult
        /\ result'[i].checks = result[i].checks
        /\ result'[i].runError = IF ctxDone /\ i < total /\ ~done[i]
                                 THEN "canceled" ELSE result[i].runError
  BY <1>2, <1>3 DEF CaseResult
<1>5. TypeOK'
  <2>1. result' \in [Index -> CaseResult]
    BY <1>4
  <2> QED BY <2>1, PoolTyped DEF RunnerInv, TypeOK
<1>6. PhaseInv'
  BY <1>1 DEF RunnerInv, PhaseInv, HasResult
<1>7. \A w \in Worker : CallInv(w)'
  BY ReturnedFacts DEF RunnerInv, CallInv
<1>8. \A i \in Index : CaseInv(i)'
  <2> TAKE i \in Index
  <2>1. CaseInv(i)
    BY DEF RunnerInv
  <2>2. begun[i] = 0 => ended[i] = 0
    BY CountsTyped
  <2>3. Aligned(i)' <=> Aligned(i)
    BY <1>4 DEF Aligned, ExpectedChecks
  <2>4. i < total /\ begun[i] = 0 => ctxDone
    BY ReturnedFacts
  <2>5. CASE ctxDone /\ i < total /\ ~done[i]
    <3>1. begun[i] = 0 /\ result'[i].runError = "canceled"
      BY <1>4, <2>1, <2>5 DEF CaseInv
    <3> QED BY <1>1, <1>4, <2>1, <2>2, <2>3, <2>5, <3>1 DEF CaseInv
  <2>6. CASE ~(ctxDone /\ i < total /\ ~done[i])
    <3>1. result'[i].runError = result[i].runError
      BY <1>4, <2>6
    <3>2. Over(i)' <=> Over(i)
      BY <1>4, <3>1 DEF Over, BreaksOff, LostToLimit, ReadsInfo, ExpectedChecks
    <3>3. ~(i < total /\ begun[i] = 0)
      BY <2>1, <2>4, <2>6 DEF CaseInv
    <3>4. result[i].runError # "canceled"
      BY <1>1, <2>1 DEF CaseInv
    <3> QED
      BY <1>4, <2>1, <2>3, <3>1, <3>2, <3>3, <3>4 DEF CaseInv
  <2> QED BY <2>5, <2>6
<1> QED BY <1>5, <1>6, <1>7, <1>8 DEF RunnerInv

\* Run returns: the cases nobody entered have been settled.
LEMMA ReportKeeps ==
  ASSUME RunnerInv, PoolProofs!PoolInv', Report
  PROVE  RunnerInv'
<1> USE DEF Report, poolVars, callVars
<1>1. runErr = "none" /\ runErr' \in {"none", "reporter panicked"}
  BY DEF RunnerInv, PhaseInv
<1>2. HasResult /\ HasResult'
  BY <1>1 DEF HasResult
<1>3. TypeOK'
  BY <1>1, PoolTyped DEF RunnerInv, TypeOK
<1>4. PhaseInv'
  BY <1>1, <1>2 DEF RunnerInv, PhaseInv
<1>5. \A w \in Worker : CallInv(w)'
  BY CallsUnchanged DEF RunnerInv
<1>6. \A i \in Index : CaseInv(i)'
  BY <1>2, CasesUnchanged
<1> QED BY <1>3, <1>4, <1>5, <1>6 DEF RunnerInv

\* What the pool does between callbacks, and a cancellation, is seen neither
\* by the callbacks nor in the result.
LEMMA PoolStepKeeps ==
  ASSUME RunnerInv, PoolProofs!PoolInv, PoolProofs!PoolInv', PoolStep \/ Cancel
  PROVE  RunnerInv'
<1>1. UNCHANGED <<runVars, callVars, total, begun, ended>>
  BY DEF PoolStep, Cancel, Pool!Dispatcher, Pool!Spawn, Pool!SpawnedAll,
         Pool!Handoff, Pool!CloseJobs, Pool!Join, Pool!WorkerExit, Pool!Cancel
<1>2. pc' = "call" <=> pc = "call"
  BY DEF PoolStep, Cancel, Pool!Dispatcher, Pool!Spawn, Pool!SpawnedAll,
         Pool!Handoff, Pool!CloseJobs, Pool!Join, Pool!WorkerExit, Pool!Cancel
<1>3. pc = "returned" => pc' = "returned"
  BY DEF PoolStep, Cancel, Pool!Dispatcher, Pool!Spawn, Pool!SpawnedAll,
         Pool!Handoff, Pool!CloseJobs, Pool!Join, Pool!WorkerExit, Pool!Cancel
<1>4. TypeOK'
  BY <1>1, PoolTyped DEF RunnerInv, TypeOK, runVars, callVars
<1>5. PhaseInv'
  BY <1>1, <1>2, <1>3 DEF RunnerInv, PhaseInv, HasResult, runVars
<1>6. \A w \in Worker : /\ wstate'[w] = "running" <=> wstate[w] = "running"
                        /\ wstate[w] = "running" => job'[w] = job[w]
  <2>1. wstate \in [Worker -> PoolProofs!WStates] /\ job \in [Worker -> 0 .. MaxTotal]
    BY DEF PoolProofs!PoolInv, PoolProofs!TypeOK, PoolProofs!Worker, Worker
  <2>2. wstate' \in [Worker -> PoolProofs!WStates]
    BY DEF PoolProofs!PoolInv, PoolProofs!TypeOK, PoolProofs!Worker, Worker
  <2>3. CASE Pool!Spawn
    <3>1. wstate[spawned + 1] # "running" \/ spawned + 1 \notin Worker
      BY DEF PoolProofs!PoolInv, PoolProofs!WorkersInv, PoolProofs!TypeOK,
             PoolProofs!Worker, Worker
    <3> QED BY <2>1, <2>3, <3>1 DEF Pool!Spawn
  <2>4. CASE \E w \in Worker : Pool!Handoff(w) \/ Pool!WorkerExit(w)
    BY <2>1, <2>4 DEF Pool!Handoff, Pool!WorkerExit
  <2>5. CASE Pool!SpawnedAll \/ Pool!CloseJobs \/ Pool!Join \/ Cancel
    BY <2>5 DEF Pool!SpawnedAll, Pool!CloseJobs, Pool!Join, Cancel, Pool!Cancel
  <2> QED
    BY <2>3, <2>4, <2>5 DEF PoolStep, Pool!Dispatcher, Pool!Worker, Worker
<1>7. \A w \in Worker : CallInv(w)'
  <2> TAKE w \in Worker
  <2>1. CallInv(w)
    BY DEF RunnerInv
  <2>2. CASE wstate[w] = "running"
    <3>1. job'[w] = job[w] /\ wstate'[w] = "running"
      BY <1>6, <2>2
    <3> QED
      BY <1>1, <2>1, <2>2, <3>1
      DEF CallInv, Over, BreaksOff, LostToLimit, ReadsInfo, Unbroken,
         ExpectedChecks, Lead, runVars, callVars
  <2>3. CASE wstate[w] # "running"
    BY <1>1, <1>6, <2>1, <2>3 DEF CallInv, callVars
  <2> QED BY <2>2, <2>3
<1>8. \A i \in Index : CaseInv(i)'
  BY <1>1, CasesUnchanged DEF HasResult, runVars
<1> QED BY <1>4, <1>5, <1>7, <1>8 DEF RunnerInv

\* The callback begins.
LEMMA StartCaseKeeps ==
  ASSUME RunnerInv, PoolProofs!PoolInv, PoolProofs!PoolInv',
         NEW w \in Worker, StartCase(w)
  PROVE  RunnerInv'
<1> USE DEF StartCase, Pool!Call
<1>1. /\ wstate \in [Worker -> PoolProofs!WStates]
      /\ wstate' \in [Worker -> PoolProofs!WStates]
      /\ job' = job /\ begun \in [Index -> Nat]
  BY DEF PoolProofs!PoolInv, PoolProofs!TypeOK, PoolProofs!Worker, Worker,
         PoolProofs!Index, Index
<1>2. wstate'[w] = "running" /\ \A v \in Worker : v # w => wstate'[v] = wstate[v]
  BY <1>1
<1>3. /\ job[w] \in Index /\ begun[job[w]] = 0 /\ ended[job[w]] = 0
      /\ pc \notin {"call", "returned"}
  <2> USE DEF PoolProofs!PoolInv, PoolProofs!TypeOK, PoolProofs!Worker,
              PoolProofs!Index, Worker, Index
  <2>1. w \in PoolProofs!Holding
    BY DEF PoolProofs!Holding
  <2>2. /\ job[w] \in 0 .. MaxTotal /\ job[w] < next /\ next <= total
        /\ total \in 0 .. MaxTotal /\ next \in 0 .. MaxTotal
    BY <2>1 DEF PoolProofs!JobsInv, PoolProofs!DispatcherInv
  <2>3. job[w] \in Index
    BY <2>2, PoolAssumption
  <2>4. begun[job[w]] = 0 /\ ended[job[w]] = 0
    BY <2>1 DEF PoolProofs!JobsInv
  <2>5. pc \notin {"call", "returned"}
    BY <2>2 DEF PoolProofs!DispatcherInv, PoolProofs!WorkersInv
  <2> QED BY <2>3, <2>4, <2>5
<1>4. /\ \A i \in Index : i # job[w] => begun'[i] = begun[i] /\ done'[i] = done[i]
      /\ begun'[job[w]] = 1 /\ done'[job[w]]
  <2>1. /\ \A i \in Index : i # job[w] => begun'[i] = begun[i]
        /\ begun'[job[w]] = 1
    BY <1>1, <1>3
  <2>2. done \in [Index -> BOOLEAN]
    BY DEF RunnerInv, TypeOK
  <2>3. /\ \A i \in Index : i # job[w] => done'[i] = done[i]
        /\ done'[job[w]] = TRUE
    BY <1>3, <2>2
  <2> QED BY <2>1, <2>3
<1>5. ~HasResult /\ ~HasResult'
  BY <1>3 DEF RunnerInv, PhaseInv, HasResult
<1>6. TypeOK'
  BY PoolTyped DEF RunnerInv, TypeOK, Steps
<1>7. PhaseInv'
  BY <1>5 DEF RunnerInv, PhaseInv
<1>8. \A v \in Worker : CallInv(v)'
  <2> TAKE v \in Worker
  <2>1. CallInv(v) /\ CaseInv(job[w])
    BY <1>3 DEF RunnerInv
  <2>2. CASE v = w
    <3>1. step'[w] = "run"
      BY DEF RunnerInv, TypeOK
    <3>2. result[job[w]].checks = <<>> /\ result[job[w]].runError = "none"
      <4>1. result[job[w]] \in CaseResult
        BY <1>3 DEF RunnerInv, TypeOK
      <4> QED BY <1>3, <1>5, <2>1, <4>1 DEF CaseInv, CaseResult
    <3> QED BY <1>1, <1>2, <2>2, <3>1, <3>2 DEF CallInv
  <2>3. CASE v # w
    <3>1. step'[v] = step[v]
      BY <2>3 DEF RunnerInv, TypeOK
    <3> QED
      BY <1>1, <1>2, <2>1, <2>3, <3>1
      DEF CallInv, Over, BreaksOff, LostToLimit, ReadsInfo, Unbroken,
         ExpectedChecks, Lead
  <2> QED BY <2>2, <2>3
<1>9. \A i \in Index : CaseInv(i)'
  <2> TAKE i \in Index
  <2>1. CaseInv(i)
    BY DEF RunnerInv
  <2>2. (Aligned(i)' <=> Aligned(i)) /\ (Over(i)' <=> Over(i))
    BY DEF Aligned, Over, BreaksOff, LostToLimit, ReadsInfo,
           ExpectedChecks
  <2>3. CASE i = job[w]
    <3>1. result[i].runError # "canceled"
      BY <1>5, <2>1 DEF CaseInv
    <3>2. begun'[i] # 0 /\ begun[i] = 0 /\ ended'[i] = 0 /\ done'[i]
      BY <1>3, <1>4, <2>3
    <3>3. result'[i] = result[i] /\ total' = total
      OBVIOUS
    <3> QED BY <1>5, <2>1, <2>2, <3>1, <3>2, <3>3, Zenon DEF CaseInv
  <2>4. CASE i # job[w]
    BY <1>4, <1>5, <2>1, <2>2, <2>4 DEF CaseInv
  <2> QED BY <2>3, <2>4
<1> QED BY <1>6, <1>7, <1>8, <1>9 DEF RunnerInv

\* A step inside the callback of worker w changes nothing but where the worker
\* is and what its case has; it keeps the invariant if these still go together.
LEMMA CallbackKeeps ==
  ASSUME RunnerInv, PoolProofs!PoolInv, PoolProofs!PoolInv',
         NEW w \in Worker, step[w] # "none",
         UNCHANGED <<poolVars, cfg, registered, names, phase, cases, metrics,
                     done, runErr>>,
         step' \in [Worker -> Steps], metricAt' \in [Worker -> Nat],
         expired' \in [Worker -> BOOLEAN], result' \in [Index -> CaseResult],
         \A v \in Worker : v # w => step'[v] = step[v] /\ metricAt'[v] = metricAt[v],
         \A i \in Index : i # job[w] => result'[i] = result[i],
         CallInv(w)', Aligned(job[w])',
         \/ result'[job[w]].runError = "none"
         \/ /\ result'[job[w]].runError = "run failed"
            /\ result'[job[w]].checks = <<>>
  PROVE  RunnerInv'
<1> USE DEF poolVars
<1>1. wstate[w] = "running"
  BY DEF RunnerInv, CallInv
<1>2. /\ job[w] \in Index /\ begun[job[w]] # 0 /\ ended[job[w]] = 0
      /\ pc \notin {"call", "returned"}
      /\ \A v \in Worker : v # w /\ wstate[v] = "running" => job[v] # job[w]
  BY <1>1, RunningFacts
<1>3. ~HasResult /\ ~HasResult'
  BY <1>2 DEF RunnerInv, PhaseInv, HasResult
<1>4. TypeOK'
  BY PoolTyped DEF RunnerInv, TypeOK
<1>5. PhaseInv'
  BY <1>3 DEF RunnerInv, PhaseInv
<1>6. \A v \in Worker : CallInv(v)'
  <2> TAKE v \in Worker
  <2>1. CASE v = w
    BY <2>1
  <2>2. CASE v # w /\ wstate[v] = "running"
    <3>1. job[v] \in Index /\ job[v] # job[w]
      BY <1>2, <2>2, RunningFacts
    <3>2. /\ result'[job[v]] = result[job[v]]
          /\ step'[v] = step[v] /\ metricAt'[v] = metricAt[v]
      BY <2>2, <3>1
    <3>3. CallInv(v)
      BY DEF RunnerInv
    <3> QED
      BY <3>2, <3>3 DEF CallInv, Over, BreaksOff, LostToLimit, ReadsInfo, Unbroken,
         ExpectedChecks, Lead
  <2>3. CASE v # w /\ wstate[v] # "running"
    <3>1. step[v] = "none" /\ step'[v] = "none"
      BY <2>3 DEF RunnerInv, CallInv
    <3> QED BY <2>3, <3>1 DEF CallInv
  <2> QED BY <2>1, <2>2, <2>3
<1>7. \A i \in Index : CaseInv(i)'
  <2> TAKE i \in Index
  <2>1. CaseInv(i)
    BY DEF RunnerInv
  <2>2. CASE i = job[w]
    <3>1. begun'[i] # 0 /\ begun[i] # 0 /\ ended'[i] = 0
      <4>1. begun' = begun /\ ended' = ended
        OBVIOUS
      <4> QED BY <1>2, <2>2, <4>1, Zenon
    <3>2. Aligned(i)' /\ done'[i] = done[i]
      BY <2>2
    <3>3. /\ result'[i].runError # "canceled"
          /\ result'[i].runError # "none" => result'[i].checks = <<>>
      BY <2>2
    <3> QED BY <1>3, <2>1, <3>1, <3>2, <3>3, Zenon DEF CaseInv
  <2>3. CASE i # job[w]
    <3>1. /\ result'[i] = result[i] /\ done'[i] = done[i] /\ begun'[i] = begun[i]
          /\ ended'[i] = ended[i] /\ total' = total
      BY <2>3
    <3>3. (Aligned(i)' <=> Aligned(i)) /\ (Over(i)' <=> Over(i))
      BY <3>1, SameCase
    <3> QED BY <1>3, <2>1, <3>1, <3>3, Zenon DEF CaseInv
  <2> QED BY <2>2, <2>3
<1> QED BY <1>4, <1>5, <1>6, <1>7 DEF RunnerInv

\* A check that follows in order keeps the checks in order.
LEMMA AppendAligned ==
  ASSUME RunnerInv, NEW w, job[w] \in Index, NEW r \in CheckResult,
         AddResult(w, r), UNCHANGED <<job, cases, metrics>>, Aligned(job[w]),
         Unbroken(job[w]),
         LET n == Len(result[job[w]].checks) + 1
         IN  /\ n <= Len(ExpectedChecks(job[w]))
             /\ r.check = ExpectedChecks(job[w])[n]
  PROVE  /\ Aligned(job[w])'
         /\ r.details.text # "context" => Unbroken(job[w])'
<1> DEFINE i   == job[w]
           old == result[i].checks
           new == result'[i].checks
<1>1. /\ Len(old) \in Nat
      /\ Len(new) = Len(old) + 1
      /\ \A k \in 1 .. Len(old) : new[k] = old[k]
      /\ new[Len(old) + 1] = r
  BY AddResultEffect DEF RunnerInv, TypeOK
<1>2. ExpectedChecks(i)' = ExpectedChecks(i)
  BY DEF ExpectedChecks
<1>3. \A k \in 1 .. Len(new) : k \in 1 .. Len(old) \/ k = Len(old) + 1
  BY <1>1
<1>4. \A k \in 1 .. Len(old) : old[k].check = ExpectedChecks(i)[k]
  BY DEF Aligned
<1>5. \A k \in 1 .. Len(new) : new[k].check = ExpectedChecks(i)[k]
  BY <1>1, <1>3, <1>4
<1>6. Len(new) <= Len(ExpectedChecks(i))
  BY <1>1
<1>7. \A k \in 1 .. Len(new) :
        /\ new[k].details.text = "context" => k = Len(new)
        /\ r.details.text # "context" => new[k].details.text # "context"
  BY <1>1, <1>3 DEF Unbroken
<1> QED BY <1>2, <1>5, <1>6, <1>7 DEF Aligned, Unbroken

\* The places where a callback records a check or finds its checks exhausted.
LEMMA InCallback ==
  ASSUME RunnerInv, PoolProofs!PoolInv, NEW w \in Worker, step[w] # "none"
  PROVE  /\ job[w] \in Index /\ job[w] < total
         /\ wstate[w] = "running"
         /\ Aligned(job[w]) /\ CaseInv(job[w]) /\ CallInv(w)
         /\ Len(cases) = total /\ cases[job[w] + 1] \in CaseRecord
         /\ metrics \in Seq(MetricNames) /\ cfg \in Configs
         /\ result \in [Index -> CaseResult]
         /\ step \in [Worker -> Steps] /\ metricAt \in [Worker -> Nat]
         /\ expired \in [Worker -> BOOLEAN]
<1>1. CallInv(w) /\ wstate[w] = "running"
  BY DEF RunnerInv, CallInv
<1>2. job[w] \in Index /\ job[w] \in 0 .. total - 1 /\ pc # "call"
  BY <1>1, RunningFacts
<1>3. CaseInv(job[w]) /\ total \in Nat
  BY <1>2, CountsTyped DEF RunnerInv
<1>4. job[w] < total /\ Aligned(job[w])
  <2>1. job[w] < total
    BY <1>2, <1>3
  <2> QED BY <1>3, <2>1, Zenon DEF CaseInv
<1>5. Len(cases) = total /\ cases \in Seq(CaseRecord)
  BY <1>2 DEF RunnerInv, PhaseInv, TypeOK
<1>6. cases[job[w] + 1] \in CaseRecord
  BY <1>2, <1>3, <1>5
<1> QED
  BY <1>1, <1>2, <1>3, <1>4, <1>5, <1>6 DEF RunnerInv, TypeOK

\* The per-case timeout only marks the context of the callback done.
LEMMA CaseTimeoutKeeps ==
  ASSUME RunnerInv, PoolProofs!PoolInv, PoolProofs!PoolInv',
         NEW w \in Worker, CaseTimeout(w)
  PROVE  RunnerInv'
<1> USE DEF CaseTimeout, poolVars, runVars
<1>1. TypeOK'
  BY PoolTyped DEF RunnerInv, TypeOK
<1>2. PhaseInv'
  BY DEF RunnerInv, PhaseInv, HasResult
<1> QED
  BY <1>1, <1>2, CasesUnchanged, CallsUnchanged DEF RunnerInv, HasResult

\* RunFunc fails: its error check is recorded and the metrics are skipped.
LEMMA RunFuncFailsKeeps ==
  ASSUME RunnerInv, PoolProofs!PoolInv, PoolProofs!PoolInv',
         NEW w \in Worker, RunFuncFails(w)
  PROVE  RunnerInv'
<1> USE DEF RunFuncFails
<1> DEFINE i == job[w]
<1>1. step[w] # "none" /\ i \in Index
  BY InCallback
<1>2. result[i] \in CaseResult /\ result[i].checks = <<>>
  BY <1>1, InCallback DEF CallInv
<1>3. /\ result' \in [Index -> CaseResult]
      /\ \A j \in Index : j # i => result'[j] = result[j]
      /\ result'[i].runError = "run failed"
      /\ result'[i].checks = <<>>
  BY <1>1, <1>2, InCallback DEF CaseResult
<1>4. /\ step' \in [Worker -> Steps] /\ step'[w] = "end"
      /\ \A v \in Worker : v # w => step'[v] = step[v]
  BY <1>1, InCallback DEF Steps
<1>5. /\ metricAt' \in [Worker -> Nat] /\ expired' \in [Worker -> BOOLEAN]
      /\ metricAt' = metricAt /\ job' = job /\ wstate' = wstate
  BY <1>1, InCallback DEF poolVars
<1>6. Aligned(i)'
  <2>1. ExpectedChecks(i)' = ExpectedChecks(i)
    BY <1>5 DEF ExpectedChecks
  <2>2. Aligned(i) /\ result[i].checks = result'[i].checks
    BY <1>1, <1>2, <1>3, InCallback
  <2> QED BY <1>5, <2>1, <2>2 DEF Aligned
<1>7. CallInv(w)'
  <2>1. wstate'[w] = "running"
    BY <1>1, <1>5, InCallback
  <2> QED BY <1>3, <1>4, <1>5, <2>1 DEF CallInv, Over
<1>8. Aligned(job[w])'
  BY <1>5, <1>6
<1> QED BY <1>1, <1>3, <1>4, <1>5, <1>7, <1>8, CallbackKeeps

\* The check of a metric comes where its metric is expected.
LEMMA MetricExpected ==
  ASSUME RunnerInv, PoolProofs!PoolInv, NEW w \in Worker,
         step[w] \in {"metric", "evaluate"}, metricAt[w] <= Len(metrics)
  PROVE  LET n == Len(result[job[w]].checks) + 1
         IN  /\ metrics[metricAt[w]] \in MetricNames
             /\ n <= Len(ExpectedChecks(job[w]))
             /\ ExpectedChecks(job[w])[n] = metrics[metricAt[w]]
             /\ n = Lead(job[w]) + metricAt[w]
<1>1. /\ metrics \in Seq(MetricNames) /\ metricAt[w] \in Nat
      /\ metricAt[w] >= 1
      /\ Len(result[job[w]].checks) = Lead(job[w]) + metricAt[w] - 1
  BY InCallback DEF CallInv
<1>2. /\ Lead(job[w]) \in {0, 1} /\ Len(metrics) \in Nat
      /\ Len(ExpectedChecks(job[w])) = Lead(job[w]) + Len(metrics)
      /\ \A k \in 1 .. Len(metrics) :
           ExpectedChecks(job[w])[Lead(job[w]) + k] = metrics[k]
  BY <1>1, ExpectedShape
<1>3. metricAt[w] \in 1 .. Len(metrics)
  BY <1>1, <1>2
<1>4. Len(result[job[w]].checks) + 1 = Lead(job[w]) + metricAt[w]
  BY <1>1, <1>2
<1>5. metrics[metricAt[w]] \in MetricNames
  BY <1>1, <1>3, ElementOfSeq
<1>6. Lead(job[w]) + metricAt[w] <= Len(ExpectedChecks(job[w]))
  BY <1>2, <1>3
<1> QED BY <1>2, <1>3, <1>4, <1>5, <1>6

\* RunFunc answers: its checks are recorded and the metrics begin.
LEMMA RunFuncAnswersKeeps ==
  ASSUME RunnerInv, PoolProofs!PoolInv, PoolProofs!PoolInv',
         NEW w \in Worker, RunFuncAnswers(w)
  PROVE  RunnerInv'
<1> USE DEF RunFuncAnswers
<1> DEFINE i == job[w]
<1>1. step[w] = "run" /\ step[w] # "none"
  OBVIOUS
<1>2. /\ i \in Index /\ wstate[w] = "running" /\ Aligned(i)
      /\ result[i].checks = <<>> /\ result[i].runError = "none"
      /\ metrics \in Seq(MetricNames) /\ result \in [Index -> CaseResult]
      /\ cfg \in Configs
  BY <1>1, InCallback DEF CallInv
<1>3. /\ step' \in [Worker -> Steps] /\ step'[w] = "metric"
      /\ \A v \in Worker : v # w => step'[v] = step[v]
  BY <1>1, InCallback DEF Steps
<1>4. /\ metricAt' \in [Worker -> Nat] /\ metricAt'[w] = 1
      /\ \A v \in Worker : v # w => metricAt'[v] = metricAt[v]
  BY <1>1, InCallback
<1>5. expired' \in [Worker -> BOOLEAN] /\ job' = job /\ wstate' = wstate
  BY <1>1, InCallback DEF poolVars
<1>6. Lead(i)' = Lead(i) /\ ExpectedChecks(i)' = ExpectedChecks(i)
  BY <1>5 DEF Lead, ExpectedChecks
<1>7. /\ result' \in [Index -> CaseResult]
      /\ \A j \in Index : j # i => result'[j] = result[j]
      /\ result'[i].runError = "none"
      /\ Len(result'[i].checks) = Lead(i)
      /\ Aligned(i)' /\ Unbroken(i)'
  <2>1. CASE cases[i + 1].contains = {}
    <3>1. result' = result /\ Lead(i) = 0
      BY <2>1 DEF Lead
    <3>2. Aligned(i)' /\ Unbroken(i)'
      BY <1>2, <1>5, <1>6, <3>1, EmptySeq DEF Aligned, Unbroken
    <3> QED BY <1>2, <3>1, <3>2, EmptySeq
  <2>2. CASE cases[i + 1].contains # {}
    <3>1. PICK matched \in BOOLEAN :
            AddResult(w, Judged(ContainsCheck, matched, NoDetails))
      BY <2>2
    <3> DEFINE r == Judged(ContainsCheck, matched, NoDetails)
    <3>2. /\ r \in CheckResult /\ r.check = ContainsCheck
          /\ r.details.text # "context"
      BY DEF Judged, CheckResult, Details, NoDetails
    <3>3. Lead(i) = 1
      BY <2>2 DEF Lead
    <3>4. /\ Len(result[i].checks) = 0
          /\ 1 <= Len(ExpectedChecks(i)) /\ ExpectedChecks(i)[1] = ContainsCheck
      BY <1>2, <3>3, ExpectedShape, EmptySeq
    <3> HIDE DEF r
    <3>5. AddResult(w, r)
      BY <3>1 DEF r
    <3>6. /\ result' \in [Index -> CaseResult]
          /\ \A j \in Index : j # i => result'[j] = result[j]
          /\ result'[i].runError = "none"
          /\ Len(result'[i].checks) = 1
      <4>1. /\ result' \in [Index -> CaseResult]
            /\ \A j \in Index : j # i => result'[j] = result[j]
            /\ result'[i].runError = result[i].runError
            /\ Len(result'[i].checks) = Len(result[i].checks) + 1
        BY <1>2, <3>2, <3>5, AddResultEffect
      <4> QED BY <1>2, <3>4, <4>1
    <3>7. Aligned(i)' /\ Unbroken(i)'
      <4>1. Unbroken(i)
        BY <1>2, EmptySeq DEF Unbroken
      <4> QED BY <1>2, <1>5, <3>2, <3>4, <3>5, <4>1, AppendAligned
    <3> QED BY <3>3, <3>6, <3>7
  <2> QED BY <2>1, <2>2
<1>8. CallInv(w)'
  <2>1. Lead(i) \in {0, 1}
    BY DEF Lead
  <2>2. Len(result'[i].checks) = Lead(i) + 1 - 1
    BY <1>7, <2>1
  <2>3. Unbroken(job[w])'
    BY <1>5, <1>7
  <2> QED BY <1>2, <1>3, <1>4, <1>5, <1>6, <1>7, <2>2, <2>3 DEF CallInv
<1>9. Aligned(job[w])'
  BY <1>5, <1>7
<1> QED
  BY <1>1, <1>3, <1>4, <1>5, <1>7, <1>8, <1>9, CallbackKeeps

\* A metric's check is recorded: it comes in order, and the result of the case
\* is otherwise left alone.
LEMMA MetricRecords ==
  ASSUME RunnerInv, PoolProofs!PoolInv, NEW w \in Worker,
         step[w] \in {"metric", "evaluate"}, metricAt[w] <= Len(metrics),
         UNCHANGED <<job, cases, metrics>>, NEW r \in CheckResult,
         r.check = metrics[metricAt[w]], AddResult(w, r)
  PROVE  /\ result' \in [Index -> CaseResult]
         /\ \A j \in Index : j # job[w] => result'[j] = result[j]
         /\ result'[job[w]].runError = "none"
         /\ Len(result'[job[w]].checks) = Lead(job[w]) + metricAt[w]
         /\ Len(result'[job[w]].checks) \in DOMAIN result'[job[w]].checks
         /\ result'[job[w]].checks[Len(result'[job[w]].checks)] = r
         /\ Aligned(job[w])'
         /\ r.details.text # "context" => Unbroken(job[w])'
<1> DEFINE i == job[w]
<1>1. /\ i \in Index /\ Aligned(i) /\ result \in [Index -> CaseResult]
      /\ result[i].runError = "none" /\ Unbroken(i)
  BY InCallback DEF CallInv
<1>2. /\ Len(result[i].checks) + 1 <= Len(ExpectedChecks(i))
      /\ ExpectedChecks(i)[Len(result[i].checks) + 1] = r.check
      /\ Len(result[i].checks) + 1 = Lead(i) + metricAt[w]
  BY MetricExpected
<1>3. /\ result' \in [Index -> CaseResult]
      /\ \A j \in Index : j # i => result'[j] = result[j]
      /\ result'[i].runError = result[i].runError
      /\ Len(result[i].checks) \in Nat
      /\ Len(result'[i].checks) = Len(result[i].checks) + 1
      /\ result'[i].checks[Len(result[i].checks) + 1] = r
  BY <1>1, AddResultEffect
<1>4. Aligned(i)' /\ (r.details.text # "context" => Unbroken(i)')
  BY <1>1, <1>2, AppendAligned
<1>5. Len(result'[i].checks) \in DOMAIN result'[i].checks
  <2>1. result'[i].checks \in Seq(CheckResult)
    BY <1>1, <1>3 DEF CaseResult
  <2>2. DOMAIN result'[i].checks = 1 .. Len(result'[i].checks)
    BY <2>1, LenProperties
  <2> QED BY <1>3, <2>2
<1>6. /\ Len(result'[i].checks) = Lead(i) + metricAt[w]
      /\ result'[i].checks[Len(result'[i].checks)] = r
  BY <1>2, <1>3
<1> QED BY <1>1, <1>3, <1>4, <1>5, <1>6

\* The loop moves on without recording anything.
LEMMA MetricMovesKeeps ==
  ASSUME RunnerInv, PoolProofs!PoolInv, PoolProofs!PoolInv',
         NEW w \in Worker, MetricBegins(w) \/ MetricsExhausted(w)
  PROVE  RunnerInv'
<1> USE DEF runVars
<1> DEFINE i == job[w]
<1>1. step[w] = "metric" /\ step[w] # "none"
  BY DEF MetricBegins, MetricsExhausted
<1>2. UNCHANGED <<poolVars, runVars, metricAt, expired>>
  BY DEF MetricBegins, MetricsExhausted
<1>3. /\ i \in Index /\ wstate[w] = "running" /\ Aligned(i)
      /\ result \in [Index -> CaseResult] /\ result[i].runError = "none"
      /\ metricAt \in [Worker -> Nat] /\ metrics \in Seq(MetricNames)
      /\ metricAt[w] >= 1 /\ Len(result[i].checks) = Lead(i) + metricAt[w] - 1
      /\ expired \in [Worker -> BOOLEAN] /\ step \in [Worker -> Steps]
      /\ Unbroken(i)
  BY <1>1, InCallback DEF CallInv
<1>4. /\ Lead(i) \in {0, 1} /\ Len(metrics) \in Nat
      /\ Len(ExpectedChecks(i)) = Lead(i) + Len(metrics)
  BY <1>3, ExpectedShape
<1>5. job' = job /\ wstate' = wstate
  BY <1>2 DEF poolVars
<1>6. Lead(i)' = Lead(i) /\ ExpectedChecks(i)' = ExpectedChecks(i)
  BY <1>2, <1>5 DEF Lead, ExpectedChecks
<1>7. Aligned(i)' /\ Unbroken(job[w])'
  BY <1>2, <1>3, <1>5, <1>6 DEF Aligned, Unbroken
<1>8. /\ step' \in [Worker -> Steps]
      /\ \A v \in Worker : v # w => step'[v] = step[v]
  BY <1>3 DEF MetricBegins, MetricsExhausted, Steps
<1>9. CallInv(w)'
  <2>1. CASE MetricBegins(w)
    <3>1. step'[w] = "evaluate" /\ metricAt[w] <= Len(metrics)
      BY <1>3, <2>1 DEF MetricBegins
    <3> QED BY <1>2, <1>3, <1>5, <1>6, <1>7, <3>1 DEF CallInv
  <2>2. CASE MetricsExhausted(w)
    <3>1. step'[w] = "end" /\ metricAt[w] > Len(metrics)
      BY <1>3, <2>2 DEF MetricsExhausted
    <3>2. Len(result[i].checks) <= Len(ExpectedChecks(i))
      BY <1>3 DEF Aligned
    <3>3. metricAt[w] \in Nat
      BY <1>3
    <3>4. Len(result[i].checks) = Len(ExpectedChecks(i))
      BY <1>3, <1>4, <3>1, <3>2, <3>3
    <3>5. Over(i)'
      BY <1>2, <1>5, <1>6, <3>4 DEF Over
    <3> QED BY <1>3, <1>5, <3>1, <3>5 DEF CallInv
  <2> QED BY <2>1, <2>2
<1>10. Aligned(job[w])' /\ result'[job[w]].runError = "none"
  BY <1>2, <1>3, <1>5, <1>7
<1>11. \A v \in Worker : v # w => step'[v] = step[v] /\ metricAt'[v] = metricAt[v]
  BY <1>2, <1>8
<1>12. /\ metricAt' \in [Worker -> Nat] /\ expired' \in [Worker -> BOOLEAN]
       /\ result' \in [Index -> CaseResult] /\ result' = result
  BY <1>2, <1>3
<1> QED
  BY <1>1, <1>2, <1>8, <1>9, <1>10, <1>11, <1>12, CallbackKeeps

\* A check is recorded and the loop goes on with the next metric.
LEMMA MetricGoesOnKeeps ==
  ASSUME RunnerInv, PoolProofs!PoolInv, PoolProofs!PoolInv',
         NEW w \in Worker, MetricJudges(w) \/ MetricErrs(w)
  PROVE  RunnerInv'
<1> DEFINE i == job[w]
<1>1. /\ step[w] = "evaluate" /\ step[w] # "none"
      /\ step' = [step EXCEPT ![w] = "metric"]
      /\ metricAt' = [metricAt EXCEPT ![w] = @ + 1]
      /\ UNCHANGED <<poolVars, expired, cfg, registered, names, phase,
                     cases, metrics, done, runErr>>
  BY DEF MetricJudges, MetricErrs
<1>2. /\ i \in Index /\ wstate[w] = "running" /\ cfg \in Configs
      /\ metricAt \in [Worker -> Nat] /\ metricAt[w] <= Len(metrics)
      /\ expired \in [Worker -> BOOLEAN] /\ step \in [Worker -> Steps]
  BY <1>1, InCallback DEF CallInv
<1>3. job' = job /\ wstate' = wstate
  BY <1>1 DEF poolVars
<1>4. metrics[metricAt[w]] \in MetricNames
  BY <1>1, <1>2, MetricExpected
<1>5. PICK r \in CheckResult :
        /\ r.check = metrics[metricAt[w]]
        /\ r.details.text # "context"
        /\ AddResult(w, r)
  <2> DEFINE m == metrics[metricAt[w]]
  <2>1. CASE MetricJudges(w)
    <3>1. PICK pass \in BOOLEAN, size \in DetailsSizes[m] :
            AddResult(w, Judged(m, pass, LimitDetails("own", size)))
      BY <2>1 DEF MetricJudges
    <3>2. /\ Judged(m, pass, LimitDetails("own", size)) \in CheckResult
          /\ LimitDetails("own", size).text # "context"
      BY <1>2, <1>4, SizesTyped, ChecksTyped, LimitDetailsTyped
    <3> QED BY <3>1, <3>2 DEF Judged
  <2>2. CASE MetricErrs(w)
    <3>1. PICK size \in DetailsSizes[m] : AddResult(w, Unjudged(m, "info", size))
      BY <2>2 DEF MetricErrs
    <3>2. /\ Unjudged(m, "info", size) \in CheckResult
          /\ LimitDetails("info", size).text # "context"
      BY <1>2, <1>4, SizesTyped, ChecksTyped, LimitDetailsTyped
    <3> QED BY <3>1, <3>2 DEF Unjudged
  <2> QED BY <2>1, <2>2
<1>6. /\ result' \in [Index -> CaseResult]
      /\ \A j \in Index : j # i => result'[j] = result[j]
      /\ result'[i].runError = "none"
      /\ Len(result'[i].checks) = Lead(i) + metricAt[w]
      /\ Aligned(i)' /\ Unbroken(i)'
  BY <1>1, <1>2, <1>3, <1>5, MetricRecords
<1>7. Lead(i)' = Lead(i)
  BY <1>1, <1>3 DEF Lead
<1>8. /\ step' \in [Worker -> Steps] /\ step'[w] = "metric"
      /\ \A v \in Worker : v # w => step'[v] = step[v]
  BY <1>1, <1>2 DEF Steps
<1>9. /\ metricAt' \in [Worker -> Nat] /\ metricAt'[w] = metricAt[w] + 1
      /\ \A v \in Worker : v # w => metricAt'[v] = metricAt[v]
  BY <1>1, <1>2
<1>10. CallInv(w)'
  <2>1. Lead(i) \in {0, 1} /\ metricAt[w] \in Nat
    BY <1>2 DEF Lead
  <2>2. metricAt'[w] >= 1 /\ Len(result'[i].checks) = Lead(i) + metricAt'[w] - 1
    BY <1>6, <1>9, <2>1
  <2>3. Unbroken(job[w])'
    BY <1>3, <1>6
  <2> QED BY <1>2, <1>3, <1>6, <1>7, <1>8, <2>2, <2>3 DEF CallInv
<1>11. Aligned(job[w])' /\ expired' \in [Worker -> BOOLEAN]
  BY <1>1, <1>2, <1>3, <1>6
<1> QED
  BY <1>1, <1>6, <1>8, <1>9, <1>10, <1>11, CallbackKeeps

\* A failing check is recorded and the loop ends.
LEMMA MetricBreaksOffKeeps ==
  ASSUME RunnerInv, PoolProofs!PoolInv, PoolProofs!PoolInv',
         NEW w \in Worker, MetricFindsCtxDone(w) \/ MetricErrsOnContext(w)
  PROVE  RunnerInv'
<1> DEFINE i == job[w]
<1>1. /\ step[w] \in {"metric", "evaluate"} /\ step[w] # "none"
      /\ step' = [step EXCEPT ![w] = "end"]
      /\ UNCHANGED <<poolVars, metricAt, expired, cfg, registered, names, phase,
                     cases, metrics, done, runErr>>
  BY DEF MetricFindsCtxDone, MetricErrsOnContext
<1>2. /\ i \in Index /\ wstate[w] = "running" /\ cfg \in Configs
      /\ metricAt \in [Worker -> Nat]
      /\ expired \in [Worker -> BOOLEAN] /\ step \in [Worker -> Steps]
  BY <1>1, InCallback
<1>3. metricAt[w] <= Len(metrics)
  <2>1. CallInv(w)
    BY <1>1, InCallback
  <2> QED BY <2>1 DEF MetricFindsCtxDone, MetricErrsOnContext, CallInv
<1>4. job' = job /\ wstate' = wstate
  BY <1>1 DEF poolVars
<1>5. metrics[metricAt[w]] \in MetricNames
  BY <1>1, <1>3, MetricExpected
<1>6. PICK size \in DetailsSizes[metrics[metricAt[w]]] :
        AddResult(w, Unjudged(metrics[metricAt[w]], "context", size))
  BY DEF MetricFindsCtxDone, MetricErrsOnContext
<1> DEFINE r == Unjudged(metrics[metricAt[w]], "context", size)
<1>7. r \in CheckResult
  BY <1>2, <1>5, SizesTyped, ChecksTyped
<1>8. r.check = metrics[metricAt[w]] /\ BreaksOff(r)
  <2>1. LET left == LimitDetails("context", size) IN
        \/ left.text = "context"
        \/ left.text \in {"none", "cut"} /\ left.length = cfg.detailsMax
    BY <1>2, <1>5, SizesTyped, LimitDetailsTyped
  <2> QED BY <2>1 DEF Unjudged, BreaksOff, LostToLimit, ReadsInfo
<1> HIDE DEF r
<1>9. AddResult(w, r)
  BY <1>6 DEF r
<1>10. /\ result' \in [Index -> CaseResult]
       /\ \A j \in Index : j # i => result'[j] = result[j]
       /\ result'[i].runError = "none"
       /\ Len(result'[i].checks) \in DOMAIN result'[i].checks
       /\ result'[i].checks[Len(result'[i].checks)] = r
       /\ Aligned(i)'
  BY <1>1, <1>3, <1>4, <1>7, <1>8, <1>9, MetricRecords
<1>11. /\ step' \in [Worker -> Steps] /\ step'[w] = "end"
       /\ \A v \in Worker : v # w => step'[v] = step[v]
  BY <1>1, <1>2 DEF Steps
<1>12. Over(i)'
  <2>1. /\ ~r.pass
        /\ \/ r.details.text = "context"
           \/ /\ r.details.text \notin {"info", "context"}
              /\ r.details.length = cfg'.detailsMax
    BY <1>1, <1>8 DEF BreaksOff, LostToLimit, ReadsInfo
  <2>2. Len(result'[i].checks) > 0
    <3>1. result'[i].checks \in Seq(CheckResult)
      BY <1>2, <1>10 DEF CaseResult
    <3> QED BY <1>10, <3>1, LenProperties
  <2> QED
    BY <1>4, <1>10, <2>1, <2>2 DEF Over, BreaksOff, LostToLimit, ReadsInfo
<1>13. CallInv(w)'
  BY <1>2, <1>4, <1>11, <1>12 DEF CallInv
<1>14. /\ Aligned(job[w])' /\ expired' \in [Worker -> BOOLEAN]
       /\ metricAt' \in [Worker -> Nat] /\ metricAt' = metricAt
  BY <1>1, <1>2, <1>4, <1>10
<1> QED
  BY <1>1, <1>10, <1>11, <1>13, <1>14, CallbackKeeps

\* The callback returns.
LEMMA EndCaseKeeps ==
  ASSUME RunnerInv, PoolProofs!PoolInv, PoolProofs!PoolInv',
         NEW w \in Worker, EndCase(w)
  PROVE  RunnerInv'
<1> USE DEF EndCase, Pool!CallReturns
<1> DEFINE i == job[w]
<1>1. step[w] = "end" /\ step[w] # "none"
  OBVIOUS
<1>2. /\ i \in Index /\ wstate[w] = "running" /\ Over(i)
      /\ result \in [Index -> CaseResult]
      /\ step \in [Worker -> Steps] /\ metricAt \in [Worker -> Nat]
      /\ expired \in [Worker -> BOOLEAN]
  BY <1>1, InCallback DEF CallInv
<1>3. /\ begun[i] # 0 /\ pc \notin {"call", "returned"}
      /\ \A v \in Worker : v # w /\ wstate[v] = "running" => job[v] # i
  BY <1>2, RunningFacts
<1>4. /\ wstate \in [Worker -> PoolProofs!WStates] /\ ended \in [Index -> Nat]
      /\ job' = job /\ begun' = begun /\ total' = total
  BY DEF PoolProofs!PoolInv, PoolProofs!TypeOK, PoolProofs!Worker, Worker,
         PoolProofs!Index, Index
<1>5. wstate'[w] = "select" /\ \A v \in Worker : v # w => wstate'[v] = wstate[v]
  BY <1>4
<1>6. \A j \in Index : j # i => ended'[j] = ended[j]
  BY <1>2, <1>4
<1>7. ~HasResult /\ ~HasResult'
  BY <1>3 DEF RunnerInv, PhaseInv, HasResult
<1>8. \A j \in Index : /\ result'[j] \in CaseResult
                       /\ result'[j].checks = result[j].checks
                       /\ result'[j].runError = result[j].runError
  <2> DEFINE live == ~CtxErr(w)
  <2>1. live \in BOOLEAN /\ result' = [result EXCEPT ![i].lived = live]
    BY DEF CtxErr
  <2> HIDE DEF live
  <2>2. \A j \in Index : result[j] \in CaseResult
    BY <1>2
  <2>3. [result[i] EXCEPT !.lived = live] \in CaseResult
    BY <1>2, <2>1, <2>2 DEF CaseResult
  <2>4. result'[i] = [result[i] EXCEPT !.lived = live]
    BY <1>2, <2>1
  <2>5. \A j \in Index : j # i => result'[j] = result[j]
    BY <1>2, <2>1
  <2>6. result'[i].checks = result[i].checks /\ result'[i].runError = result[i].runError
    BY <1>2, <2>2, <2>4 DEF CaseResult
  <2> QED BY <2>2, <2>3, <2>4, <2>5, <2>6
<1>9. \A j \in Index : (Over(j)' <=> Over(j)) /\ (Aligned(j)' <=> Aligned(j))
  <2> TAKE j \in Index
  <2>1. ExpectedChecks(j)' = ExpectedChecks(j)
    BY DEF ExpectedChecks
  <2> QED BY <1>8, <2>1 DEF Over, BreaksOff, LostToLimit, ReadsInfo, Aligned
<1>10. TypeOK'
  <2>1. result' \in [Index -> CaseResult]
    BY <1>2, <1>8
  <2>2. step' \in [Worker -> Steps] /\ metricAt' \in [Worker -> Nat]
    BY <1>2 DEF Steps
  <2>3. expired' \in [Worker -> BOOLEAN]
    BY <1>2
  <2> QED BY <2>1, <2>2, <2>3, PoolTyped DEF RunnerInv, TypeOK
<1>11. PhaseInv'
  BY <1>7 DEF RunnerInv, PhaseInv
<1>12. \A v \in Worker : CallInv(v)'
  <2> TAKE v \in Worker
  <2>1. CallInv(v)
    BY DEF RunnerInv
  <2>2. CASE v = w
    <3>1. step'[v] = "none" /\ wstate'[v] # "running"
      BY <1>2, <1>5, <2>2
    <3> QED BY <3>1 DEF CallInv
  <2>3. CASE v # w /\ wstate[v] = "running"
    <3>1. job[v] \in Index
      BY <2>3, RunningFacts
    <3>2. /\ step'[v] = step[v] /\ metricAt'[v] = metricAt[v]
          /\ wstate'[v] = wstate[v] /\ job'[v] = job[v]
      BY <1>2, <1>4, <1>5, <2>3
    <3>3. /\ result'[job[v]].checks = result[job[v]].checks
          /\ result'[job[v]].runError = result[job[v]].runError
      BY <1>8, <3>1
    <3>4. /\ Lead(job[v])' = Lead(job[v])
          /\ Over(job[v])' <=> Over(job[v])
          /\ Unbroken(job[v])' <=> Unbroken(job[v])
      <4>1. Lead(job[v])' = Lead(job[v])
        BY DEF Lead
      <4>2. job'[v] = job[v]
        BY <3>2
      <4>3. /\ Over(job[v])' <=> Over(job[v])
            /\ Unbroken(job[v])' <=> Unbroken(job[v])
        BY <1>4, <3>3, <4>2
        DEF Over, Unbroken, BreaksOff, LostToLimit, ReadsInfo, ExpectedChecks
      <4> QED BY <4>1, <4>3
    <3>5. metrics' = metrics
      OBVIOUS
    <3> QED BY <2>1, <3>2, <3>3, <3>4, <3>5 DEF CallInv
  <2>4. CASE v # w /\ wstate[v] # "running"
    <3>1. step'[v] = "none" /\ wstate'[v] # "running"
      BY <1>2, <1>5, <2>1, <2>4 DEF CallInv
    <3> QED BY <3>1 DEF CallInv
  <2> QED BY <2>2, <2>3, <2>4
<1>13. \A j \in Index : CaseInv(j)'
  <2> TAKE j \in Index
  <2>1. CaseInv(j)
    BY DEF RunnerInv
  <2>2. /\ done' = done /\ begun'[j] = begun[j] /\ total' = total
        /\ result'[j].checks = result[j].checks
        /\ result'[j].runError = result[j].runError
    BY <1>4, <1>8
  <2>3. ended'[j] # 0 => Over(j)'
    BY <1>2, <1>6, <1>9, <2>1 DEF CaseInv
  <2> QED BY <1>7, <1>9, <2>1, <2>2, <2>3, Zenon DEF CaseInv
<1> QED BY <1>10, <1>11, <1>12, <1>13 DEF RunnerInv

\* Every step of the runner keeps the invariant.
LEMMA NextRunnerInv ==
  ASSUME RunnerInv, RegistryInv, RegistryInv', PoolProofs!PoolInv,
         PoolProofs!PoolInv', [Next]_vars
  PROVE  RunnerInv'
<1>1. CASE UNCHANGED vars
  <2> USE <1>1 DEF vars, poolVars, runVars, callVars
  <2>1. TypeOK'
    BY PoolTyped DEF RunnerInv, TypeOK
  <2>2. PhaseInv'
    BY DEF RunnerInv, PhaseInv, HasResult
  <2> QED
    BY <2>1, <2>2, CasesUnchanged, CallsUnchanged DEF RunnerInv, HasResult
<1>2. ASSUME NEW c \in CaseInputs, Register(c) PROVE RunnerInv'
  BY <1>2, RegisterKeeps
<1>3. ASSUME NEW list \in MetricLists, NEW nilRun \in BOOLEAN,
             RunStarts(list, nilRun) \/ RunRejected(list, nilRun)
      PROVE  RunnerInv'
  BY <1>3, RunStartsKeeps, RunRejectedKeeps
<1>4. CASE PoolStep \/ Cancel
  BY <1>4, PoolStepKeeps
<1>5. ASSUME NEW w \in Worker, StartCase(w) \/ CaseTimeout(w) \/ CallbackStep(w)
      PROVE  RunnerInv'
  BY <1>5, StartCaseKeeps, CaseTimeoutKeeps, RunFuncFailsKeeps,
     RunFuncAnswersKeeps, MetricMovesKeeps, MetricGoesOnKeeps,
     MetricBreaksOffKeeps, EndCaseKeeps
  DEF CallbackStep
<1>6. CASE Settle \/ Report
  BY <1>6, SettleKeeps, ReportKeeps
<1>7. CASE Terminated
  BY <1>1, <1>7 DEF Terminated
<1> QED BY <1>1, <1>2, <1>3, <1>4, <1>5, <1>6, <1>7 DEF Next

(***************************************************************************)
(* The inductive invariant holds in every reachable state, whatever the    *)
(* numbers of cases, metrics and workers, and however registrations,       *)
(* cancellations, timeouts, failures and panics fall between the steps.    *)
(***************************************************************************)
THEOREM RunnerInvariant == Safety => []RunnerInv
<1>1. Init /\ PoolProofs!PoolInv => RunnerInv
  BY InitRunnerInv
<1>2. /\ RunnerInv /\ RegistryInv /\ RegistryInv'
      /\ PoolProofs!PoolInv /\ PoolProofs!PoolInv' /\ [Next]_vars
      => RunnerInv'
  BY NextRunnerInv
<1> QED
  BY <1>1, <1>2, RegistryInvariant, PoolInvariant, PTL DEF Safety

(***************************************************************************)
(* The variables of Run, of its callbacks and of the pool have their       *)
(* types; every check a case records is one of the run's.                  *)
(***************************************************************************)
THEOREM RunnerTyped == Safety => []TypeOK
<1>1. RunnerInv => TypeOK
  BY DEF RunnerInv
<1> QED BY <1>1, RunnerInvariant, PTL

\* A case that has come back and lacks checks failed.
LEMMA OverSaysWhy ==
  ASSUME RunnerInv, NEW i \in Index, Over(i)
  PROVE  Failed(result[i]) \/ Len(result[i].checks) = Len(ExpectedChecks(i))
<1> DEFINE checks == result[i].checks
<1>1. checks \in Seq(CheckResult)
  BY DEF RunnerInv, TypeOK, CaseResult
<1>2. CASE Len(checks) > 0 /\ BreaksOff(checks[Len(checks)])
  <2>1. Len(checks) \in DOMAIN checks
    <3> HIDE DEF checks
    <3> QED BY <1>1, <1>2, LenProperties
  <2> QED BY <1>2, <2>1 DEF Failed, BreaksOff
<1> QED BY <1>2 DEF Over, Failed

(***************************************************************************)
(* The checks of a case are recorded in order without gap or repetition,   *)
(* and a case that does not fail went through all of them, whatever ended  *)
(* the metric loop of executeCase.                                         *)
(***************************************************************************)
THEOREM PassIsComplete == Safety => []PassMeansComplete
<1>1. RunnerInv /\ PoolProofs!PoolInv => PassMeansComplete
  <2> SUFFICES ASSUME RunnerInv, PoolProofs!PoolInv PROVE PassMeansComplete
    OBVIOUS
  <2> USE DEF RunIndexes
  <2>1. total \in Nat /\ RunIndexes \subseteq Index
    BY CountsTyped, PoolAssumption DEF Index
  <2>2. ASSUME NEW i \in RunIndexes
        PROVE  LET checks == result[i].checks IN
               /\ checks \in Seq(CheckResult)
               /\ CheckNames(i) \in Seq(MetricNames \cup {ContainsCheck})
               /\ Len(CheckNames(i)) = Len(checks)
               /\ \A k \in 1 .. Len(checks) : CheckNames(i)[k] = checks[k].check
    <3>1. result[i] \in CaseResult
      BY <2>1, <2>2 DEF RunnerInv, TypeOK
    <3>2. /\ result[i].checks \in Seq(CheckResult)
          /\ DOMAIN result[i].checks = 1 .. Len(result[i].checks)
          /\ Len(result[i].checks) \in Nat
          /\ \A k \in 1 .. Len(result[i].checks) :
               result[i].checks[k].check \in MetricNames \cup {ContainsCheck}
      <4> DEFINE checks == result[i].checks
      <4>1. checks \in Seq(CheckResult)
        BY <3>1 DEF CaseResult
      <4> HIDE DEF checks
      <4>2. /\ DOMAIN checks = 1 .. Len(checks) /\ Len(checks) \in Nat
            /\ \A k \in 1 .. Len(checks) : checks[k] \in CheckResult
        BY <4>1, LenProperties, ElementOfSeq
      <4>3. \A r \in CheckResult : r.check \in MetricNames \cup {ContainsCheck}
        BY DEF CheckResult
      <4> QED BY <4>1, <4>2, <4>3 DEF checks
    <3> QED BY <3>2 DEF CheckNames
  <2>3. ASSUME NEW i \in RunIndexes
        PROVE  /\ Aligned(i) /\ CaseInv(i)
               /\ ExpectedChecks(i) \in Seq(MetricNames \cup {ContainsCheck})
    <3>1. metrics \in Seq(MetricNames)
      BY DEF RunnerInv, TypeOK
    <3>2. CaseInv(i) /\ i < total
      BY <2>1, <2>3 DEF RunnerInv
    <3> QED BY <3>1, <3>2, ExpectedShape DEF CaseInv
  <2>4. ASSUME NEW i \in RunIndexes
        PROVE  IsPrefix(CheckNames(i), ExpectedChecks(i))
    <3> DEFINE S == MetricNames \cup {ContainsCheck}
               c == CheckNames(i)
               e == ExpectedChecks(i)
    <3>1. /\ c \in Seq(S) /\ e \in Seq(S) /\ Len(c) \in Nat /\ Len(e) \in Nat
          /\ Len(c) <= Len(e)
          /\ \A k \in 1 .. Len(c) : c[k] = e[k]
      BY <2>2, <2>3, <2>4, LenProperties DEF Aligned
    <3> HIDE DEF S, c, e
    <3>2. SubSeq(c, 1, Len(c)) = c
      BY <3>1, SubSeqFull
    <3>3. \A k \in 1 .. Len(c) : e[k] \in S
      BY <3>1
    <3>4. /\ SubSeq(e, 1, Len(c)) \in Seq(S)
          /\ Len(SubSeq(e, 1, Len(c))) = Len(c)
          /\ \A k \in 1 .. Len(c) : SubSeq(e, 1, Len(c))[k] = e[k]
      BY <3>1, <3>3, SubSeqProperties
    <3>5. SubSeq(e, 1, Len(c)) = c
      BY <3>1, <3>4, SeqEqual
    <3> QED BY <3>1, <3>2, <3>5 DEF IsPrefix, c, e
  <2>5. ASSUME HasResult, NEW i \in RunIndexes, ~Failed(result[i])
        PROVE  CheckNames(i) = ExpectedChecks(i)
    <3>1. pc = "returned" /\ i \in Index
      BY <2>1, <2>5 DEF RunnerInv, PhaseInv
    <3>2. CaseInv(i) /\ i < total
      BY <2>1, <2>3, <2>5
    <3>3. begun[i] # 0
      BY <2>5, <3>2 DEF CaseInv, Failed
    <3>4. ended[i] # 0
      BY <3>1, <3>3, ReturnedFacts
    <3>5. Len(result[i].checks) = Len(ExpectedChecks(i))
      BY <2>5, <3>1, <3>2, <3>4, OverSaysWhy DEF CaseInv
    <3> DEFINE S == MetricNames \cup {ContainsCheck}
               c == CheckNames(i)
               e == ExpectedChecks(i)
    <3>6. /\ c \in Seq(S) /\ e \in Seq(S) /\ Len(c) = Len(e)
          /\ \A k \in 1 .. Len(c) : c[k] = e[k]
      BY <2>2, <2>3, <2>5, <3>5 DEF Aligned
    <3> HIDE DEF S, c, e
    <3>7. c = e
      BY <3>6, SeqEqual
    <3> QED BY <3>7 DEF c, e
  <2> QED BY <2>4, <2>5 DEF PassMeansComplete
<1> QED BY <1>1, RunnerInvariant, PoolInvariant, PTL

(***************************************************************************)
(* A RunError excludes check results, and "canceled before execution" is   *)
(* said of exactly the cases whose callback RunIndexed never entered.      *)
(***************************************************************************)
THEOREM RunErrorsTruthful == Safety => []RunErrorsAreTruthful
<1>1. RunnerInv /\ PoolProofs!PoolInv => RunErrorsAreTruthful
  <2> SUFFICES ASSUME RunnerInv, PoolProofs!PoolInv, NEW i \in Index
               PROVE  /\ result[i].runError # "none" => result[i].checks = <<>>
                      /\ result[i].runError = "run failed" => begun[i] = 1
                      /\ HasResult /\ i < total =>
                           (result[i].runError = "canceled" <=> begun[i] = 0)
    BY DEF RunErrorsAreTruthful
  <2>1. CaseInv(i)
    BY DEF RunnerInv
  <2>2. begun[i] # 0 => begun[i] = 1
    <3> USE DEF PoolProofs!PoolInv, PoolProofs!TypeOK, PoolProofs!Index, Index
    <3>1. i \in Int /\ next \in Int
      OBVIOUS
    <3>2. i < next \/ i >= next
      BY <3>1
    <3>3. \A w \in PoolProofs!Holding : begun[job[w]] \in {0, 1}
      BY DEF PoolProofs!JobsInv
    <3> QED BY <3>2, <3>3 DEF PoolProofs!CountsInv
  <2>3. result[i].runError = "run failed" => begun[i] = 1
    BY <2>1, <2>2 DEF CaseInv
  <2>4. HasResult /\ i < total => (result[i].runError = "canceled" <=> begun[i] = 0)
    BY <2>1 DEF CaseInv
  <2> QED BY <2>1, <2>3, <2>4 DEF CaseInv
<1> QED BY <1>1, RunnerInvariant, PoolInvariant, PTL

(***************************************************************************)
(* Once the reporter or the caller has the result, nothing writes to it:   *)
(* RunIndexed has waited for every goroutine that could.                   *)
(***************************************************************************)
THEOREM ResultStaysFinal == Safety => ResultIsFinal
<1>1. ASSUME RunnerInv, PoolProofs!PoolInv, [Next]_vars,
             phase = "reporting" \/ phase = "returned"
      PROVE  UNCHANGED <<result, done>>
  <2>1. \A w \in Worker : wstate[w] \notin {"received", "running"}
    <3>1. CASE runErr = "invalid"
      <4>1. pc = "call"
        BY <1>1, <3>1 DEF RunnerInv, PhaseInv
      <4> QED BY <1>1, <4>1, CalledFacts
    <3>2. CASE runErr # "invalid"
      <4>1. pc = "returned"
        BY <1>1, <3>2 DEF RunnerInv, PhaseInv, HasResult
      <4> QED BY <1>1, <4>1, ReturnedFacts
    <3> QED BY <3>1, <3>2
  <2>2. \A w \in Worker : step[w] = "none"
    BY <1>1, <2>1 DEF RunnerInv, CallInv
  <2>3. ASSUME NEW c \in CaseInputs, Register(c) PROVE UNCHANGED <<result, done>>
    BY <2>3 DEF Register
  <2>4. ASSUME NEW list \in MetricLists, NEW nilRun \in BOOLEAN,
               RunStarts(list, nilRun) \/ RunRejected(list, nilRun)
        PROVE  FALSE
    BY <1>1, <2>4 DEF RunStarts, RunRejected
  <2>5. ASSUME NEW w \in Worker, StartCase(w) \/ CaseTimeout(w) \/ CallbackStep(w)
        PROVE  FALSE
    BY <2>1, <2>2, <2>5
    DEF StartCase, Pool!Call, CaseTimeout, CallbackStep, RunFuncFails,
        RunFuncAnswers, MetricBegins, MetricFindsCtxDone, MetricsExhausted,
        MetricJudges, MetricErrs, MetricErrsOnContext, EndCase
  <2>6. CASE PoolStep \/ Cancel \/ Report \/ Terminated \/ UNCHANGED vars
    BY <2>6 DEF PoolStep, Cancel, Report, Terminated, vars, runVars
  <2>7. ~Settle
    BY <1>1 DEF Settle
  <2> QED BY <1>1, <2>3, <2>4, <2>5, <2>6, <2>7 DEF Next
<1>2. RunnerInv /\ PoolProofs!PoolInv /\ [Next]_vars =>
        [(phase = "reporting" \/ phase = "returned") =>
           UNCHANGED <<result, done>>]_vars
  BY <1>1
<1> QED
  BY <1>2, RunnerInvariant, PoolInvariant, PTL DEF Safety, ResultIsFinal

-----------------------------------------------------------------------------
(* Everything that tells of a run tells the same *)

\* A run that got past validation has a case, and a check for every case.
ValidRun ==
  phase # "idle" /\ runErr # "invalid" =>
    cases # <<>> /\ EffectiveChecks(cases, metrics)

\* validateEffectiveChecks is asked once, and its answer stays true.
LEMMA NextValidRun ==
  RunnerInv /\ ValidRun /\ [Next]_vars => ValidRun'
<1> SUFFICES ASSUME RunnerInv, ValidRun, [Next]_vars PROVE ValidRun'
  OBVIOUS
<1>1. ASSUME NEW list \in MetricLists, NEW nilRun \in BOOLEAN,
             RunStarts(list, nilRun)
      PROVE  ValidRun'
  BY <1>1 DEF RunStarts, ValidRun, EffectiveChecks
<1>2. ASSUME NEW list \in MetricLists, NEW nilRun \in BOOLEAN,
             RunRejected(list, nilRun)
      PROVE  ValidRun'
  BY <1>2 DEF RunRejected, ValidRun
<1>3. CASE Settle
  BY <1>3 DEF Settle, ValidRun, EffectiveChecks
<1>4. CASE Report
  <2>1. runErr # "invalid" /\ phase # "idle"
    BY <1>4 DEF Report, RunnerInv, PhaseInv
  <2> QED BY <1>4, <2>1 DEF Report, ValidRun, EffectiveChecks
<1>5. ASSUME UNCHANGED <<phase, runErr, cases, metrics>> PROVE ValidRun'
  BY <1>5 DEF ValidRun, EffectiveChecks
<1>6. ASSUME NEW c \in CaseInputs, Register(c)
      PROVE  UNCHANGED <<phase, runErr, cases, metrics>>
  BY <1>6 DEF Register
<1>7. ASSUME PoolStep \/ Cancel \/ Terminated \/ UNCHANGED vars
      PROVE  UNCHANGED <<phase, runErr, cases, metrics>>
  BY <1>7 DEF PoolStep, Cancel, Terminated, vars, runVars
<1>8. ASSUME NEW w \in Worker, StartCase(w) \/ CaseTimeout(w) \/ CallbackStep(w)
      PROVE  UNCHANGED <<phase, runErr, cases, metrics>>
  BY <1>8
  DEF StartCase, CaseTimeout, CallbackStep, runVars, RunFuncFails,
      RunFuncAnswers, MetricBegins, MetricFindsCtxDone, MetricsExhausted,
      MetricJudges, MetricErrs, MetricErrsOnContext, EndCase
<1> QED BY <1>1, <1>2, <1>3, <1>4, <1>5, <1>6, <1>7, <1>8 DEF Next

\* When the result is with its reader every case has a verdict.
LEMMA EveryCaseReportable ==
  ASSUME RunnerInv, PoolProofs!PoolInv, ValidRun, HasResult
  PROVE  /\ total \in Nat \ {0}
         /\ \A i \in RunIndexes :
              ReportableCase(MetricNames \cup {ContainsCheck}, result[i])
<1>1. /\ pc = "returned" /\ total \in Nat /\ RunIndexes \subseteq Index
      /\ Len(cases) = total
  BY CountsTyped, PoolAssumption DEF RunnerInv, PhaseInv, Index, RunIndexes
<1>2. /\ cases \in Seq(CaseRecord) /\ metrics \in Seq(MetricNames)
      /\ cases # <<>> /\ EffectiveChecks(cases, metrics)
  BY DEF RunnerInv, TypeOK, ValidRun, HasResult
<1>3. total # 0
  BY <1>1, <1>2, EmptySeq
<1>4. ASSUME NEW i \in RunIndexes
      PROVE  ReportableCase(MetricNames \cup {ContainsCheck}, result[i])
  <2> DEFINE checks == result[i].checks
             error  == result[i].runError
  <2>1. CaseInv(i) /\ i \in Index /\ i < total /\ i \in Nat
    BY <1>1 DEF RunnerInv, RunIndexes
  <2>2. checks \in Seq(CheckResult)
    <3>1. result[i] \in CaseResult
      BY <2>1 DEF RunnerInv, TypeOK
    <3> QED BY <3>1 DEF CaseResult
  <2>3. Reportable(MetricNames \cup {ContainsCheck}, checks)
    <3> HIDE DEF checks
    <3>1. /\ DOMAIN checks = 1 .. Len(checks) /\ Len(checks) \in Nat
          /\ \A k \in 1 .. Len(checks) : checks[k] \in CheckResult
      BY <2>2, LenProperties, ElementOfSeq
    <3>2. \A r \in CheckResult :
            r.pass \in BOOLEAN /\ r.check \in MetricNames \cup {ContainsCheck}
      BY DEF CheckResult
    <3> QED BY <3>1, <3>2 DEF Reportable
  <2>4. error # "none" => checks = <<>>
    BY <2>1 DEF CaseInv
  <2>5. ASSUME error = "none" PROVE Len(checks) > 0
    <3>1. begun[i] # 0
      BY <2>1, <2>5 DEF CaseInv
    <3>2. ended[i] # 0
      BY <1>1, <2>1, <3>1, ReturnedFacts
    <3>3. Failed(result[i]) \/ Len(checks) = Len(ExpectedChecks(i))
      BY <2>1, <3>2, OverSaysWhy DEF CaseInv
    <3>4. ASSUME Failed(result[i]) PROVE Len(checks) > 0
      <4>1. PICK k \in DOMAIN checks : ~checks[k].pass
        BY <2>5, <3>4 DEF Failed
      <4> HIDE DEF checks
      <4>2. k \in 1 .. Len(checks) /\ Len(checks) \in Nat
        BY <2>2, <4>1, LenProperties
      <4> QED BY <4>2
    <3>5. ASSUME Len(checks) = Len(ExpectedChecks(i)) PROVE Len(checks) > 0
      <4>1. /\ Len(checks) = Lead(i) + Len(metrics)
            /\ Lead(i) \in {0, 1} /\ Len(metrics) \in Nat
        BY <1>2, <3>5, ExpectedShape
      <4>2. CASE metrics # <<>>
        <5>1. Len(metrics) # 0
          BY <1>2, <4>2, EmptySeq
        <5> QED BY <4>1, <5>1
      <4>3. CASE metrics = <<>>
        <5>1. i + 1 \in DOMAIN cases
          BY <1>1, <1>2, <2>1, LenProperties
        <5>2. cases[i + 1].contains # {}
          BY <1>2, <4>3, <5>1 DEF EffectiveChecks
        <5> QED BY <4>1, <5>2 DEF Lead
      <4> QED BY <4>2, <4>3
    <3> QED BY <3>3, <3>4, <3>5
  <2> QED BY <2>3, <2>4, <2>5 DEF ReportableCase
<1> QED BY <1>1, <1>3, <1>4

(***************************************************************************)
(* Failed, PassRate, the counts and the summary of Assert agree on every   *)
(* run whose result gets to its reader, however many cases it has, however *)
(* many failures are suppressed and however the run was cut short, and no  *)
(* case of it is without a verdict.                                        *)
(***************************************************************************)
THEOREM SignalsAgreed == Safety => []SignalsAgree
<1>1. Init => ValidRun
  BY DEF Init, ValidRun
<1>2. RunnerInv /\ ValidRun /\ [Next]_vars => ValidRun'
  BY NextValidRun
<1>3. RunnerInv /\ PoolProofs!PoolInv /\ ValidRun => SignalsAgree
  <2> SUFFICES ASSUME RunnerInv, PoolProofs!PoolInv, ValidRun, HasResult
               PROVE  SignalsAgree
    BY DEF SignalsAgree
  <2> DEFINE keys == MetricNames \cup {ContainsCheck}
             seq  == CaseResults
  <2>1. /\ total \in Nat \ {0}
        /\ \A i \in RunIndexes : ReportableCase(keys, result[i])
    BY EveryCaseReportable
  <2>2. /\ Len(seq) = total /\ DOMAIN seq = 1 .. Len(seq)
        /\ \A i \in 1 .. Len(seq) : seq[i] = result[i - 1] /\ i - 1 \in RunIndexes
    BY <2>1 DEF CaseResults, RunIndexes
  <2>3. keys # {}
    OBVIOUS
  <2>4. \A i \in RunIndexes :
          result[i].runError # "none" \/ result[i].checks # <<>>
    <3> TAKE i \in RunIndexes
    <3>1. ReportableCase(keys, result[i])
      BY <2>1
    <3>2. Len(<<>>) = 0
      OBVIOUS
    <3> QED BY <3>1, <3>2 DEF ReportableCase
  <2> HIDE DEF keys, seq
  <2>5. \A i \in 1 .. Len(seq) : ReportableCase(keys, seq[i])
    BY <2>1, <2>2
  <2>6. Agreed(keys, seq)
    BY <2>1, <2>2, <2>3, <2>5, ReportsAgree
  <2> QED
    BY <2>4, <2>6 DEF SignalsAgree, Agreed, SumFailed, SumNamed, keys, seq
<1> QED
  BY <1>1, <1>2, <1>3, RunnerInvariant, PoolInvariant, PTL DEF Safety

-----------------------------------------------------------------------------
(* Details *)

\* Every check recorded so far is one of Good.
ChecksIn(Good) ==
  \A i \in Index : \A k \in DOMAIN result[i].checks : result[i].checks[k] \in Good

\* Check results are only added, and by the callback.
LEMMA AddKeepsChecks ==
  ASSUME RunnerInv, PoolProofs!PoolInv, NEW w \in Worker, step[w] # "none",
         NEW Good, ChecksIn(Good), NEW r \in CheckResult \cap Good, AddResult(w, r)
  PROVE  ChecksIn(Good)'
<1> DEFINE old == result[job[w]].checks
           new == result'[job[w]].checks
<1>1. job[w] \in Index /\ result \in [Index -> CaseResult]
  BY InCallback
<1>2. /\ result' \in [Index -> CaseResult]
      /\ \A j \in Index : j # job[w] => result'[j] = result[j]
      /\ Len(old) \in Nat /\ Len(new) = Len(old) + 1
      /\ \A k \in 1 .. Len(old) : new[k] = old[k]
      /\ new[Len(old) + 1] = r
  BY <1>1, AddResultEffect
<1>3. old \in Seq(CheckResult) /\ new \in Seq(CheckResult)
  BY <1>1, <1>2 DEF CaseResult
<1>4. DOMAIN old = 1 .. Len(old) /\ DOMAIN new = 1 .. Len(old) + 1
  BY <1>2, <1>3, LenProperties
<1>5. \A k \in DOMAIN new : new[k] \in Good
  <2> TAKE k \in DOMAIN new
  <2>1. CASE k \in 1 .. Len(old)
    <3>1. old[k] \in Good
      BY <1>1, <1>4, <2>1 DEF ChecksIn
    <3> QED BY <1>2, <2>1, <3>1
  <2>2. CASE k = Len(old) + 1
    BY <1>2, <2>2
  <2>3. k \in 1 .. Len(old) \/ k = Len(old) + 1
    BY <1>2, <1>4
  <2> QED BY <2>1, <2>2, <2>3
<1>6. ASSUME NEW i \in Index, NEW k \in DOMAIN result'[i].checks
      PROVE  result'[i].checks[k] \in Good
  <2>1. CASE i = job[w]
    BY <1>5, <1>6, <2>1
  <2>2. CASE i # job[w]
    BY <1>2, <1>6, <2>2 DEF ChecksIn
  <2> QED BY <2>1, <2>2
<1> QED BY <1>6 DEF ChecksIn

\* If every check result a callback can make is one of Good, all recorded are.
LEMMA NextKeepsChecks ==
  ASSUME RunnerInv, PoolProofs!PoolInv, [Next]_vars, NEW Good, ChecksIn(Good),
         \A pass \in BOOLEAN : Judged(ContainsCheck, pass, NoDetails) \in Good,
         \A check \in MetricNames, pass \in BOOLEAN, size \in Nat \ {0} :
           /\ Judged(check, pass, LimitDetails("own", size)) \in Good
           /\ Unjudged(check, "info", size) \in Good
           /\ Unjudged(check, "context", size) \in Good
  PROVE  ChecksIn(Good)'
<1>1. CASE result' = result
  BY <1>1 DEF ChecksIn
<1>2. ASSUME NEW list \in MetricLists, NEW nilRun \in BOOLEAN, RunStarts(list, nilRun)
      PROVE  ChecksIn(Good)'
  <2>1. \A i \in Index : result'[i].checks = <<>>
    <3> TAKE i \in Index
    <3>1. result'[i] = IF i < Len(registered)
                       THEN [NoResult EXCEPT !.name = registered[i + 1].name]
                       ELSE NoResult
      BY <1>2 DEF RunStarts
    <3> QED BY <3>1 DEF NoResult
  <2>2. DOMAIN <<>> = {}
    OBVIOUS
  <2> QED BY <2>1, <2>2 DEF ChecksIn
<1>3. ASSUME NEW w \in Worker, RunFuncFails(w) \/ EndCase(w)
      PROVE  ChecksIn(Good)'
  <2>1. job[w] \in Index /\ result \in [Index -> CaseResult]
    BY <1>3, InCallback DEF RunFuncFails, EndCase
  <2>2. \A i \in Index : result'[i].checks = result[i].checks
    <3> DEFINE live == ~CtxErr(w)
    <3>1. \/ result' = [result EXCEPT ![job[w]].runError = "run failed"]
          \/ result' = [result EXCEPT ![job[w]].lived = live]
      BY <1>3 DEF RunFuncFails, EndCase
    <3> HIDE DEF live
    <3> TAKE i \in Index
    <3>2. CASE i # job[w]
      BY <2>1, <3>1, <3>2
    <3>3. CASE i = job[w]
      <4>1. result[i] \in CaseResult
        BY <2>1
      <4>2. \/ result'[i] = [result[i] EXCEPT !.runError = "run failed"]
            \/ result'[i] = [result[i] EXCEPT !.lived = live]
        BY <2>1, <3>1, <3>3
      <4> QED BY <4>1, <4>2 DEF CaseResult
    <3> QED BY <3>2, <3>3
  <2> QED BY <2>2 DEF ChecksIn
<1>4. ASSUME Settle PROVE ChecksIn(Good)'
  <2>1. \A i \in Index : result'[i].checks = result[i].checks
    <3> TAKE i \in Index
    <3>1. result[i] \in CaseResult
      BY DEF RunnerInv, TypeOK
    <3>2. result'[i] = IF ctxDone /\ i < total /\ ~done[i]
                       THEN [result[i] EXCEPT !.runError = "canceled"]
                       ELSE result[i]
      BY <1>4 DEF Settle
    <3> QED BY <3>1, <3>2 DEF CaseResult
  <2> QED BY <2>1 DEF ChecksIn
<1>5. ASSUME NEW w \in Worker, RunFuncAnswers(w), result' # result
      PROVE  ChecksIn(Good)'
  <2>1. PICK pass \in BOOLEAN : AddResult(w, Judged(ContainsCheck, pass, NoDetails))
    BY <1>5 DEF RunFuncAnswers
  <2>2. Judged(ContainsCheck, pass, NoDetails) \in CheckResult
    BY DEF Judged, CheckResult, Details, NoDetails
  <2>3. step[w] # "none"
    BY <1>5 DEF RunFuncAnswers
  <2> QED BY <2>1, <2>2, <2>3, AddKeepsChecks
<1>6. ASSUME NEW w \in Worker,
             \/ MetricJudges(w) \/ MetricErrs(w)
             \/ MetricFindsCtxDone(w) \/ MetricErrsOnContext(w)
      PROVE  ChecksIn(Good)'
  <2>1. step[w] \in {"metric", "evaluate"} /\ step[w] # "none"
    BY <1>6 DEF MetricJudges, MetricErrs, MetricFindsCtxDone, MetricErrsOnContext
  <2>2. metricAt[w] <= Len(metrics)
    <3>1. CallInv(w)
      BY <2>1, InCallback
    <3> QED
      BY <1>6, <3>1
      DEF MetricJudges, MetricErrs, MetricFindsCtxDone, MetricErrsOnContext, CallInv
  <2>3. metrics[metricAt[w]] \in MetricNames /\ cfg \in Configs
    BY <2>1, <2>2, MetricExpected, InCallback
  <2>4. CASE MetricJudges(w)
    <3>1. PICK pass \in BOOLEAN, size \in DetailsSizes[metrics[metricAt[w]]] :
            AddResult(w, Judged(metrics[metricAt[w]], pass, LimitDetails("own", size)))
      BY <2>4 DEF MetricJudges
    <3>2. Judged(metrics[metricAt[w]], pass, LimitDetails("own", size)) \in CheckResult \cap Good
      BY <2>3, SizesTyped, ChecksTyped
    <3> QED BY <2>1, <3>1, <3>2, AddKeepsChecks
  <2>5. CASE MetricErrs(w) \/ MetricFindsCtxDone(w) \/ MetricErrsOnContext(w)
    <3>1. PICK text \in {"info", "context"}, size \in DetailsSizes[metrics[metricAt[w]]] :
            AddResult(w, Unjudged(metrics[metricAt[w]], text, size))
      BY <2>5 DEF MetricErrs, MetricFindsCtxDone, MetricErrsOnContext
    <3>2. Unjudged(metrics[metricAt[w]], text, size) \in CheckResult \cap Good
      BY <2>3, SizesTyped, ChecksTyped
    <3> QED BY <2>1, <3>1, <3>2, AddKeepsChecks
  <2> QED BY <1>6, <2>4, <2>5
<1>7. ASSUME NEW c \in CaseInputs, Register(c) PROVE result' = result
  BY <1>7 DEF Register
<1>8. ASSUME NEW list \in MetricLists, NEW nilRun \in BOOLEAN, RunRejected(list, nilRun)
      PROVE  result' = result
  BY <1>8 DEF RunRejected
<1>9. ASSUME PoolStep \/ Cancel \/ Report \/ Terminated \/ UNCHANGED vars
      PROVE  result' = result
  BY <1>9 DEF PoolStep, Cancel, Report, Terminated, vars, runVars
<1>10. ASSUME NEW w \in Worker,
              StartCase(w) \/ CaseTimeout(w) \/ MetricBegins(w) \/ MetricsExhausted(w)
       PROVE  result' = result
  BY <1>10 DEF StartCase, CaseTimeout, MetricBegins, MetricsExhausted, runVars
<1> QED
  BY <1>1, <1>2, <1>3, <1>4, <1>5, <1>6, <1>7, <1>8, <1>9, <1>10
  DEF Next, CallbackStep

\* The check results whose details keep to a limit, and tell of an error by an
\* ErrorInfo unless that fills the limit.
Telling(max) ==
  {r \in CheckResult :
     LET readable == r.details.text \in {"info", "context"} IN
     /\ r.details.length <= max
     /\ readable => ~r.pass /\ r.cause = "operational"
     /\ r.cause = "operational" => readable \/ r.details.length = max}

\* Before Run there are no checks.
LEMMA InitChecks == Init => \A Good : ChecksIn(Good)
<1> SUFFICES ASSUME Init, NEW Good PROVE ChecksIn(Good)
  OBVIOUS
<1>1. \A i \in Index : result[i].checks = <<>>
  BY DEF Init, NoResult
<1>2. DOMAIN <<>> = {}
  OBVIOUS
<1> QED BY <1>1, <1>2 DEF ChecksIn

\* The configuration of a runner is never changed.
LEMMA NextKeepsConfig ==
  ASSUME [Next]_vars
  PROVE  cfg' = cfg
<1>1. ASSUME NEW w \in Worker, CallbackStep(w) PROVE cfg' = cfg
  BY <1>1 DEF CallbackStep, RunFuncFails, RunFuncAnswers, MetricBegins,
     MetricFindsCtxDone, MetricsExhausted, MetricJudges, MetricErrs,
     MetricErrsOnContext, EndCase, runVars
<1>2. ASSUME NEW w \in Worker, StartCase(w) \/ CaseTimeout(w) PROVE cfg' = cfg
  BY <1>2 DEF StartCase, CaseTimeout, runVars
<1>3. ASSUME NEW list \in MetricLists, NEW nilRun \in BOOLEAN,
             RunStarts(list, nilRun) \/ RunRejected(list, nilRun)
      PROVE  cfg' = cfg
  BY <1>3 DEF RunStarts, RunRejected
<1>4. ASSUME NEW c \in CaseInputs, Register(c) PROVE cfg' = cfg
  BY <1>4 DEF Register
<1>5. CASE PoolStep \/ Cancel \/ Settle \/ Report \/ Terminated \/ UNCHANGED vars
  BY <1>5 DEF PoolStep, Cancel, Settle, Report, Terminated, vars, runVars
<1> QED BY <1>1, <1>2, <1>3, <1>4, <1>5 DEF Next

\* The checks recorded so far tell as much as the limit of this run lets them.
ChecksTold == ChecksIn(Telling(cfg.detailsMax))

\* So do the checks after one more step.
LEMMA NextKeepsTold ==
  ASSUME RunnerInv, PoolProofs!PoolInv, [Next]_vars, ChecksTold
  PROVE  ChecksTold'
<1>1. cfg \in Configs /\ cfg' = cfg
  BY NextKeepsConfig DEF RunnerInv, TypeOK
<1> SUFFICES ASSUME NEW max, max = cfg.detailsMax, ChecksIn(Telling(max))
             PROVE  ChecksIn(Telling(max))'
  BY <1>1 DEF ChecksTold
<1> DEFINE Good == Telling(max)
<1>2. \A pass \in BOOLEAN : Judged(ContainsCheck, pass, NoDetails) \in Good
  <2>1. max \in Nat
    BY <1>1, RunnerAssumption DEF RunnerAssumption
  <2> QED BY <2>1 DEF Judged, CheckResult, Details, NoDetails, Telling
<1>3. ASSUME NEW check \in MetricNames, NEW pass \in BOOLEAN, NEW size \in Nat \ {0}
      PROVE  /\ Judged(check, pass, LimitDetails("own", size)) \in Good
             /\ Unjudged(check, "info", size) \in Good
             /\ Unjudged(check, "context", size) \in Good
  <2>1. ASSUME NEW text \in {"own", "info", "context"}
        PROVE  LET left == LimitDetails(text, size) IN
               /\ left.length <= max /\ left.text \in {"none", text, "cut"}
               /\ left.text = text \/ left.length = max
    BY <1>1, LimitDetailsTyped
  <2>2. /\ Judged(check, pass, LimitDetails("own", size)) \in CheckResult
        /\ Unjudged(check, "info", size) \in CheckResult
        /\ Unjudged(check, "context", size) \in CheckResult
    BY <1>1, ChecksTyped
  <2>3. Judged(check, pass, LimitDetails("own", size)) \in Good
    BY <2>1, <2>2 DEF Judged, Telling
  <2>4. /\ Unjudged(check, "info", size) \in Good
        /\ Unjudged(check, "context", size) \in Good
    BY <2>1, <2>2 DEF Unjudged, Telling
  <2> QED BY <2>3, <2>4
<1> HIDE DEF Good
<1>4. ChecksIn(Good)
  BY DEF Good
<1>5. ChecksIn(Good)'
  BY <1>2, <1>3, <1>4, NextKeepsChecks
<1> QED BY <1>5 DEF Good

\* A case of the finished run that was answered and lacks checks says why.
LEMMA LackingSaysWhy ==
  ASSUME RunnerInv, PoolProofs!PoolInv, HasResult, NEW i \in RunIndexes,
         result[i].runError = "none", CheckNames(i) # ExpectedChecks(i)
  PROVE  /\ result[i].checks # <<>>
         /\ BreaksOff(Last(result[i].checks))
<1> DEFINE checks == result[i].checks
<1>1. /\ pc = "returned" /\ total \in Nat /\ RunIndexes \subseteq Index
  BY CountsTyped, PoolAssumption DEF RunnerInv, PhaseInv, Index, RunIndexes
<1>2. CaseInv(i) /\ i \in Index /\ i < total
  BY <1>1 DEF RunnerInv, RunIndexes
<1>3. begun[i] # 0
  BY <1>2 DEF CaseInv
<1>4. ended[i] # 0
  BY <1>1, <1>2, <1>3, ReturnedFacts
<1>5. Over(i) /\ Aligned(i)
  BY <1>2, <1>4 DEF CaseInv
<1>6. /\ checks \in Seq(CheckResult)
      /\ ExpectedChecks(i) \in Seq(MetricNames \cup {ContainsCheck})
  BY <1>2, ExpectedShape DEF RunnerInv, TypeOK, CaseResult
<1>7. Len(checks) # Len(ExpectedChecks(i))
  <2> SUFFICES ASSUME Len(checks) = Len(ExpectedChecks(i)) PROVE FALSE
    OBVIOUS
  <2> DEFINE S == MetricNames \cup {ContainsCheck}
             c == CheckNames(i)
             e == ExpectedChecks(i)
  <2>1. /\ DOMAIN checks = 1 .. Len(checks) /\ Len(checks) \in Nat
        /\ \A k \in 1 .. Len(checks) : checks[k].check = e[k]
    <3>1. \A k \in 1 .. Len(checks) : checks[k].check = e[k]
      BY <1>5 DEF Aligned
    <3> HIDE DEF checks
    <3> QED BY <1>6, <3>1, LenProperties
  <2>2. c = [k \in 1 .. Len(checks) |-> e[k]]
    BY <2>1 DEF CheckNames
  <2>3. e = [k \in 1 .. Len(e) |-> e[k]]
    <3> HIDE DEF e
    <3> QED BY <1>6, LenProperties DEF e
  <2> QED BY <2>2, <2>3
<1>8. Len(checks) > 0 /\ BreaksOff(checks[Len(checks)])
  BY <1>5, <1>7 DEF Over
<1>9. checks # <<>>
  <2> HIDE DEF checks
  <2> QED BY <1>6, <1>8, EmptySeq
<1> QED BY <1>8, <1>9 DEF Last

(***************************************************************************)
(* What a reader of the result can tell from it, whatever the limit on     *)
(* details cuts off and whatever ends the metric loop: an ErrorInfo is     *)
(* only in a failing check that did not judge, there it is missing only to *)
(* the limit, and an answered case that lacks checks says so in its last   *)
(* one and nowhere else.                                                   *)
(***************************************************************************)
THEOREM FailuresTold == Safety => []FailuresAreTold
<1>1. Init => ChecksTold
  <2> SUFFICES ASSUME Init PROVE ChecksTold
    OBVIOUS
  <2>1. \A Good : ChecksIn(Good)
    BY InitChecks
  <2> QED BY <2>1 DEF ChecksTold
<1>2. RunnerInv /\ PoolProofs!PoolInv /\ [Next]_vars /\ ChecksTold => ChecksTold'
  BY NextKeepsTold
<1>3. RunnerInv /\ PoolProofs!PoolInv /\ ChecksTold => FailuresAreTold
  <2> SUFFICES ASSUME RunnerInv, PoolProofs!PoolInv, ChecksTold
               PROVE  FailuresAreTold
    OBVIOUS
  <2>1. ASSUME NEW i \in RunIndexes, NEW k \in DOMAIN result[i].checks
        PROVE  LET check == result[i].checks[k] IN
               /\ check.details.length <= cfg.detailsMax
               /\ ReadsInfo(check) => ~check.pass /\ check.cause = "operational"
               /\ check.cause = "operational" =>
                    ReadsInfo(check) \/ LostToLimit(check)
               /\ check.details.text = "context" => k = Len(result[i].checks)
    <3> DEFINE check == result[i].checks[k]
    <3>1. total \in Nat /\ i \in Index /\ i < total
      BY <2>1, CountsTyped, PoolAssumption DEF Index, RunIndexes
    <3>2. check \in Telling(cfg.detailsMax)
      BY <2>1, <3>1 DEF ChecksTold, ChecksIn
    <3>3. Aligned(i)
      BY <3>1 DEF RunnerInv, CaseInv
    <3>4. k \in 1 .. Len(result[i].checks)
      <4>1. result[i].checks \in Seq(CheckResult)
        BY <3>1 DEF RunnerInv, TypeOK, CaseResult
      <4> QED BY <2>1, <4>1, LenProperties
    <3>5. check.details.text = "context" => k = Len(result[i].checks)
      BY <3>3, <3>4 DEF Aligned
    <3> HIDE DEF check
    <3>6. /\ check.details.length <= cfg.detailsMax
          /\ ReadsInfo(check) => ~check.pass /\ check.cause = "operational"
          /\ check.cause = "operational" => ReadsInfo(check) \/ LostToLimit(check)
      BY <3>2 DEF Telling, ReadsInfo, LostToLimit
    <3> QED BY <3>5, <3>6 DEF check
  <2>2. ASSUME HasResult, NEW i \in RunIndexes, result[i].runError = "none",
               CheckNames(i) # ExpectedChecks(i)
        PROVE  /\ result[i].checks # <<>>
               /\ BreaksOff(Last(result[i].checks))
    BY <2>2, LackingSaysWhy
  <2> QED BY <2>1, <2>2 DEF FailuresAreTold
<1> QED
  BY <1>1, <1>2, <1>3, RunnerInvariant, PoolInvariant, PTL DEF Safety

-----------------------------------------------------------------------------

(***************************************************************************)
(* What RunIndexed promises is so in the runner: no more callbacks at a    *)
(* time than the configured parallelism, no case run twice, none left      *)
(* behind at the return.                                                   *)
(***************************************************************************)
THEOREM RunnerKeepsPromise == Safety => PoolProofs!Promise!Safety
<1>1. Init => PoolProofs!Init
  BY SamePool DEF Init
<1>2. Safety => PoolProofs!Safety
  BY <1>1, RegistryInvariant, StepOfPool, PTL DEF Safety, PoolProofs!Safety
<1> QED BY <1>2, PoolAssumption, PoolProofs!PoolImplementsPromise, PTL
=============================================================================
