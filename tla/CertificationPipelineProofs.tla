---------------------- MODULE CertificationPipelineProofs ----------------------
(***************************************************************************)
(* Proofs about CertificationPipeline for any number of changes, reruns,   *)
(* failed stages and bytes.                                                *)
(***************************************************************************)
EXTENDS CertificationPipeline, FiniteSetTheorems, SequenceTheorems, WellFoundedInduction, TLAPS

-------------------------------------------------------------------------------
(* The totals of a benchmark report *)

\* Induction over the natural numbers, for a set.
LEMMA SetInduction ==
    ASSUME NEW S \in SUBSET Nat, 0 \in S, \A n \in S : n + 1 \in S
    PROVE  S = Nat
<1> DEFINE Less == {p \in Nat \X Nat : p[1] < p[2]}
<1>1. IsWellFoundedOn(Less, Nat)
  BY NatLessThanWellFounded DEF OpToRel
<1>2. SUFFICES ASSUME Nat \ S # {} PROVE FALSE
  OBVIOUS
<1>3. PICK x \in Nat \ S : \A y \in Nat \ S : <<y, x>> \notin Less
  <2> HIDE DEF Less
  <2> QED
    BY <1>1, <1>2, WFMin
<1>4. x - 1 \in Nat /\ <<x - 1, x>> \in Less
  BY <1>3
<1> QED
  BY <1>3, <1>4

\* The running sums of a field exist, and they stay above zero where the field does.
LEMMA SumsExist ==
    ASSUME NEW cases, Len(cases) \in Nat, NEW field,
           \A i \in 1 .. Len(cases) : cases[i][field] \in Int
    PROVE  \E sum \in [0 .. Len(cases) -> Int] :
              sum = [i \in 0 .. Len(cases) |->
                        IF i = 0 THEN 0 ELSE sum[i - 1] + cases[i][field]]
<1> DEFINE Sums(n, s) == s = [i \in 0 .. n |-> IF i = 0 THEN 0 ELSE s[i - 1] + cases[i][field]]
           Exist(n) == n <= Len(cases) => \E s \in [0 .. n -> Int] : Sums(n, s)
           S == {n \in Nat : Exist(n)}
<1>1. Exist(0)
  <2> DEFINE s == [i \in 0 .. 0 |-> 0]
  <2>1. s \in [0 .. 0 -> Int] /\ Sums(0, s)
    OBVIOUS
  <2> QED
    BY <2>1
<1>2. ASSUME NEW n \in Nat, Exist(n) PROVE Exist(n + 1)
  <2>1. SUFFICES ASSUME n + 1 <= Len(cases)
                 PROVE  \E s \in [0 .. n + 1 -> Int] : Sums(n + 1, s)
    OBVIOUS
  <2>2. PICK s \in [0 .. n -> Int] : Sums(n, s)
    <3>1. n <= Len(cases)
      BY <2>1
    <3> QED
      BY <1>2, <3>1, ZenonT(60)
  <2> DEFINE t == [i \in 0 .. n + 1 |->
                      IF i = n + 1 THEN s[n] + cases[n + 1][field] ELSE s[i]]
  <2>3. t \in [0 .. n + 1 -> Int]
    BY <1>2, <2>1, <2>2, SMTT(30)
  <2>4. \A i \in 0 .. n : s[i] = IF i = 0 THEN 0 ELSE s[i - 1] + cases[i][field]
    BY <2>2
  <2>5. Sums(n + 1, t)
    BY <1>2, <2>1, <2>4
  <2> QED
    BY <2>3, <2>5
<1>3. S = Nat
  <2> HIDE DEF Exist
  <2>1. S \in SUBSET Nat /\ 0 \in S /\ \A n \in S : n + 1 \in S
    BY <1>1, <1>2
  <2> HIDE DEF S
  <2> QED
    BY <2>1, SetInduction
<1>4. Exist(Len(cases))
  <2> HIDE DEF Exist
  <2> QED
    BY <1>3
<1> QED
  BY <1>4

\* A total is the last of the running sums.
LEMMA TotalIsLastSum ==
    ASSUME NEW cases, Len(cases) \in Nat, NEW field,
           \A i \in 1 .. Len(cases) : cases[i][field] \in Int
    PROVE  \E sum \in [0 .. Len(cases) -> Int] :
              /\ sum[0] = 0 /\ Total(cases, field) = sum[Len(cases)]
              /\ \A i \in 1 .. Len(cases) : sum[i] = sum[i - 1] + cases[i][field]
<1> DEFINE Sums(s) == s = [i \in 0 .. Len(cases) |->
                              IF i = 0 THEN 0 ELSE s[i - 1] + cases[i][field]]
           c == CHOOSE s : Sums(s)
<1>1. PICK s \in [0 .. Len(cases) -> Int] : Sums(s)
  BY SumsExist, ZenonT(60)
<1>2. Sums(c)
  BY <1>1
<1>3. Total(cases, field) = c[Len(cases)]
  BY DEF Total
<1> DEFINE S == {n \in Nat : n <= Len(cases) => c[n] \in Int}
<1>4. /\ c[0] = 0 /\ DOMAIN c = 0 .. Len(cases)
      /\ \A i \in 1 .. Len(cases) : c[i] = c[i - 1] + cases[i][field]
  <2> HIDE DEF c
  <2> QED
    BY <1>2
<1> HIDE DEF c
<1>5. ASSUME NEW n \in Nat, n \in S PROVE n + 1 \in S
  BY <1>4, <1>5
<1>6. S = Nat
  <2>1. S \in SUBSET Nat /\ 0 \in S
    BY <1>4
  <2> HIDE DEF S
  <2> QED
    BY <1>5, <2>1, SetInduction
<1>7. c = [i \in 0 .. Len(cases) |-> c[i]]
  BY <1>2
<1>8. c \in [0 .. Len(cases) -> Int]
  BY <1>6, <1>7
<1> QED
  BY <1>3, <1>4, <1>8

\* The total of numbers above zero is above zero, unless there are none.
LEMMA TotalIsPositive ==
    ASSUME NEW cases, Len(cases) \in Nat \ {0}, NEW field,
           \A i \in 1 .. Len(cases) : cases[i][field] \in Nat \ {0}
    PROVE  Total(cases, field) \in Nat \ {0}
<1>0. Len(cases) \in Nat /\ \A i \in 1 .. Len(cases) : cases[i][field] \in Int
  OBVIOUS
<1>1. PICK sum \in [0 .. Len(cases) -> Int] :
              /\ sum[0] = 0 /\ Total(cases, field) = sum[Len(cases)]
              /\ \A i \in 1 .. Len(cases) : sum[i] = sum[i - 1] + cases[i][field]
  BY <1>0, TotalIsLastSum
<1> DEFINE S == {n \in Nat : n <= Len(cases) => sum[n] >= n}
<1>2. 0 \in S /\ S \in SUBSET Nat
  BY <1>1
<1>3. ASSUME NEW n \in Nat, n \in S PROVE n + 1 \in S
  <2>1. SUFFICES ASSUME n + 1 <= Len(cases) PROVE sum[n + 1] >= n + 1
    OBVIOUS
  <2>2. sum[n] >= n /\ sum[n + 1] = sum[n] + cases[n + 1][field] /\ sum[n] \in Int
    BY <1>1, <1>3, <2>1
  <2>3. cases[n + 1][field] \in Nat \ {0}
    BY <2>1
  <2> QED
    BY <2>2, <2>3
<1>4. S = Nat
  <2> HIDE DEF S
  <2> QED
    BY <1>2, <1>3, SetInduction
<1>5. sum[Len(cases)] >= Len(cases) /\ sum[Len(cases)] \in Int
  BY <1>1, <1>4
<1> QED
  BY <1>1, <1>5

\* A total of numbers is a number.
LEMMA TotalIsInt ==
    ASSUME NEW cases, Len(cases) \in Nat, NEW field,
           \A i \in 1 .. Len(cases) : cases[i][field] \in Int
    PROVE  Total(cases, field) \in Int
BY TotalIsLastSum

\* Division rounds down: the quotient reaches a number when the multiple does.
LEMMA QuotientReaches ==
    ASSUME NEW x \in Int, NEW y \in Nat \ {0}, NEW b \in Int
    PROVE  (x \div y >= b) <=> (x >= b * y)
<1>1. x \div y \in Int /\ x % y \in 0 .. y - 1 /\ x = y * (x \div y) + (x % y)
  OBVIOUS
<1> QED
  BY <1>1

\* A product, and the test of the savings, kept from the arithmetic of the provers.
Times(n, total) == n * total
SavesEnough(raw, out, basis) == (raw - out) * 10000 >= raw * basis

\* Repeating the cases scales both totals and leaves the savings as they are.
LEMMA SavingsScale ==
    ASSUME NEW n \in Nat \ {0}, NEW raw \in Nat \ {0}, NEW out \in Int, NEW basis \in Int
    PROVE  (SavingsBasisPoints(Times(n, raw) - Times(n, out), Times(n, raw)) >= basis)
               <=> SavesEnough(raw, out, basis)
<1> DEFINE x == (n * raw - n * out) * 10000
           y == n * raw
<1>1. x \in Int /\ y \in Nat \ {0}
  OBVIOUS
<1>2. SavingsBasisPoints(Times(n, raw) - Times(n, out), Times(n, raw)) = x \div y
  BY DEF SavingsBasisPoints, Times
<1>3. x - basis * y = n * ((raw - out) * 10000 - raw * basis)
  OBVIOUS
<1>4. (raw - out) * 10000 - raw * basis \in Int
  OBVIOUS
<1>5. ASSUME NEW d \in Int PROVE n * d >= 0 <=> d >= 0
  OBVIOUS
<1>6. x >= basis * y <=> (raw - out) * 10000 >= raw * basis
  BY <1>1, <1>3, <1>4, <1>5
<1> HIDE DEF x, y
<1>7. x \div y >= basis <=> x >= basis * y
  BY <1>1, QuotientReaches
<1> QED
  BY <1>2, <1>6, <1>7 DEF SavesEnough

\* A benchmark report that is kept passes as its cases earn it.
LEMMA BenchmarkEarns ==
    ASSUME NEW e, NEW s, BenchReportIsValid(e.report, s),
           e.report.iterations \in Nat \ {0}, e.policy.basis \in Int,
           Len(e.report.cases) \in Nat \ {0}, DOMAIN e.report.cases = 1 .. Len(e.report.cases),
           \A i \in 1 .. Len(e.report.cases) :
               e.report.cases[i].input \in Nat /\ e.report.cases[i].output \in Nat
    PROVE  (/\ Len(e.report.cases) >= e.policy.cases
            /\ e.report.iterations >= e.policy.iterations
            /\ e.report.input >= e.policy.input
            /\ SavingsBasisPoints(e.report.input - e.report.output, e.report.input)
                   >= e.policy.basis
            /\ e.fast)
               <=> Earns("benchmark", e)
<1> DEFINE cases == e.report.cases
           n == e.report.iterations
           raw == Total(cases, "input")
           out == Total(cases, "output")
<1>1. \A i \in 1 .. Len(cases) : cases[i].input \in Nat \ {0} /\ cases[i].output \in Int
  BY DEF BenchReportIsValid, CaseIsConsistent
<1>2. raw \in Nat \ {0} /\ out \in Int
  BY <1>1, TotalIsPositive, TotalIsInt
<1>3. e.report.input = Times(n, raw) /\ e.report.output = Times(n, out)
  BY DEF BenchReportIsValid, BenchReport, Times
<1>4. n \in Nat \ {0} /\ Times(n, raw) = raw * n
  BY <1>2 DEF Times
<1> HIDE DEF n, raw, out
<1>5. SavingsBasisPoints(e.report.input - e.report.output, e.report.input) >= e.policy.basis
          <=> SavesEnough(raw, out, e.policy.basis)
  BY <1>2, <1>3, <1>4, SavingsScale
<1> QED
  BY <1>3, <1>4, <1>5 DEF Earns, SavesEnough, n, raw, out

\* The report of two cases, one that was optimized or passed and one that was passed.
LEMMA TwoCases ==
    ASSUME NEW a, NEW n, NEW name, NEW action, NEW raw, NEW out, NEW r,
           r = BenchReport(a, <<Case(name, action, raw, out), Case("two", "pass", 1, 1)>>, n)
    PROVE  /\ r.artifact = a /\ r.iterations = n
           /\ r.cases = <<Case(name, action, raw, out), Case("two", "pass", 1, 1)>>
           /\ r = BenchReport(r.artifact, r.cases, r.iterations) /\ r.cases # <<>>
           /\ NamesDistinct(r.cases) <=> name # "two"
<1>1. /\ r.artifact = a /\ r.iterations = n
      /\ r.cases = <<Case(name, action, raw, out), Case("two", "pass", 1, 1)>>
  BY DEF BenchReport
<1>2. r = BenchReport(r.artifact, r.cases, r.iterations) /\ r.cases # <<>>
  BY <1>1
<1>3. NamesDistinct(r.cases) <=> name # "two"
  <2>1. /\ DOMAIN r.cases = 1 .. 2
        /\ r.cases[1].name = name /\ r.cases[2].name = "two"
    BY <1>1 DEF Case
  <2>2. NamesDistinct(r.cases)
            <=> \A i, j \in 1 .. 2 : r.cases[i].name = r.cases[j].name => i = j
    BY <2>1 DEF NamesDistinct, IsInjective
  <2> QED
    BY <2>1, <2>2
<1> QED
  BY <1>1, <1>2, <1>3

\* The fixtures of the workbench.
Fixtures == [name : CaseNames, raw : Nat, golden : Nat, action : Actions]

\* What passes as a test matches as a benchmark case, which is consistent unless it is empty.
LEMMA TestedIsConsistent ==
    ASSUME NEW f \in Fixtures, NEW answer \in [content : Nat, action : Actions],
           FixtureIsValid(f), TestPasses(f, answer)
    PROVE  /\ BenchMatches(f, answer)
           /\ CaseIsConsistent(Case(f.name, answer.action, f.raw, OutputOf(f, answer)))
                  <=> f.raw # 0
           /\ CaseIsConsistent(Case("two", "pass", 1, 1))
<1> USE DEF Fixtures, FixtureIsValid, TestPasses, HostRuns, OutputOf, HostAccepts, Actions
<1>1. BenchMatches(f, answer)
  BY DEF BenchMatches
<1>2. CaseIsConsistent(Case(f.name, answer.action, f.raw, OutputOf(f, answer))) <=> f.raw # 0
  BY DEF CaseIsConsistent, Case, CaseIsValid
<1>3. CaseIsConsistent(Case("two", "pass", 1, 1))
  BY DEF CaseIsConsistent, Case
<1> QED
  BY <1>1, <1>2, <1>3

\* What the workbench ran was a fixture, and the verdict is that of "tsp bench".
LEMMA WorkbenchIsTyped ==
    ASSUME BenchInv, bench # Idle
    PROVE  /\ bench.fixture \in Fixtures
           /\ bench.answer \in [content : Nat, action : Actions]
           /\ FixtureIsValid(bench.fixture)
           /\ bench.verdict = IF BenchMatches(bench.fixture, bench.answer)
                                 THEN "accepted" ELSE "rejected"
<1> DEFINE f == bench.fixture
           answer == bench.answer
<1>1. PICK name \in CaseNames, raw \in 0 .. MaxBytes, golden \in 0 .. MaxBytes,
           content \in 0 .. MaxBytes, a \in Actions, b \in Actions :
           LET fixture == [name |-> name, raw |-> raw, golden |-> golden, action |-> a]
               given == [content |-> content, action |-> b]
           IN  /\ FixtureIsValid(fixture)
               /\ bench = [fixture |-> fixture, answer |-> given,
                           verdict |-> IF BenchMatches(fixture, given) THEN "accepted"
                                                                       ELSE "rejected"]
  BY DEF BenchInv
<1>2. f = [name |-> name, raw |-> raw, golden |-> golden, action |-> a]
      /\ answer = [content |-> content, action |-> b]
  BY <1>1
<1>3. f \in Fixtures /\ answer \in [content : Nat, action : Actions]
  BY <1>2, PipelineAssumption DEF Fixtures
<1> QED
  BY <1>1, <1>2, <1>3

\* What the workbench accepted of a valid fixture is a consistent benchmark case, unless the
\* fixture is empty, and of a name of its own, unless it has the other's.
LEMMA ReportableFollows == PipelineIInv => AcceptedIsReportable
<1> DEFINE f == bench.fixture
           answer == bench.answer
           case == Case(f.name, answer.action, f.raw, OutputOf(f, answer))
           other == Case("two", "pass", 1, 1)
<1> SUFFICES ASSUME PipelineIInv, bench # Idle, TestPasses(bench.fixture, bench.answer)
             PROVE  /\ bench.verdict = "accepted"
                    /\ files.artifact = subject.artifact =>
                           (EvaluateBenchmark(subject, MeasuredBy(Benched)) # {}
                                <=> bench.fixture.raw # 0 /\ bench.fixture.name # "two")
  BY DEF AcceptedIsReportable
<1>1. /\ f \in Fixtures /\ answer \in [content : Nat, action : Actions]
      /\ FixtureIsValid(f)
      /\ bench.verdict = IF BenchMatches(f, answer) THEN "accepted" ELSE "rejected"
  BY WorkbenchIsTyped DEF PipelineIInv
<1>2. /\ BenchMatches(f, answer) /\ CaseIsConsistent(other)
      /\ CaseIsConsistent(case) <=> f.raw # 0
  BY <1>1, TestedIsConsistent
<1>3. ASSUME files.artifact = subject.artifact
      PROVE  BenchReportIsValid(Benched, subject) <=> f.raw # 0 /\ f.name # "two"
  <2>1. Benched = BenchReport(files.artifact, <<case, other>>, 2)
    BY DEF Benched, Reported
  <2>2. /\ Benched.artifact = files.artifact /\ Benched.cases = <<case, other>>
        /\ Benched = BenchReport(Benched.artifact, Benched.cases, Benched.iterations)
        /\ Benched.cases # <<>>
        /\ NamesDistinct(Benched.cases) <=> f.name # "two"
    BY <2>1, TwoCases
  <2>3. (\A i \in DOMAIN Benched.cases : CaseIsConsistent(Benched.cases[i])) <=> f.raw # 0
    <3> HIDE DEF f, case, other
    <3>1. /\ DOMAIN Benched.cases = 1 .. 2
          /\ Benched.cases[1] = case /\ Benched.cases[2] = other
      BY <2>2
    <3> QED
      BY <1>2, <3>1
  <2> HIDE DEF f, case, other
  <2> QED
    BY <1>3, <2>2, <2>3 DEF BenchReportIsValid
<1>4. /\ MeasuredBy(Benched).sound /\ MeasuredBy(Benched).report = Benched
      /\ BenchPolicyIsValid(MeasuredBy(Benched).policy)
  BY DEF MeasuredBy, BenchPolicyIsValid, BenchPolicy
<1>5. ASSUME NEW ok PROVE Document("benchmark", subject, ok,
                                   <<subject.package, Paper, Paper>>, <<Paper>>) # {}
  BY DEF Document
<1> QED
  BY <1>1, <1>2, <1>3, <1>4, <1>5 DEF EvaluateBenchmark

-------------------------------------------------------------------------------
(* The other evaluators and what earns a pass *)

\* Distinct elements are as many as their places.
LEMMA PlacesCount ==
    ASSUME NEW n \in Nat, NEW all, DOMAIN all = 1 .. n, IsInjective([i \in 1 .. n |-> all[i].ref])
    PROVE  Cardinality(ToSet(all)) = n
<1> DEFINE f == [i \in 1 .. n |-> all[i]]
<1>1. f \in Bijection(1 .. n, ToSet(all))
  BY DEF Bijection, Injection, Surjection, IsInjective, ToSet
<1>2. IsFiniteSet(1 .. n) /\ Cardinality(1 .. n) = n
  BY FS_Interval
<1> QED
  BY <1>1, <1>2, FS_Bijection DEF ExistsBijection

\* As many as there are, or none.
LEMMA CountIsAll ==
    ASSUME NEW n \in Nat, NEW P, P \subseteq 1 .. n
    PROVE  /\ (Cardinality(P) = n) <=> (P = 1 .. n)
           /\ (Cardinality(P) = 0) <=> (P = {})
<1>1. IsFiniteSet(1 .. n) /\ Cardinality(1 .. n) = n
  BY FS_Interval
<1>2. IsFiniteSet(P) /\ (Cardinality(1 .. n) = Cardinality(P) => P = 1 .. n)
  BY <1>1, FS_Subset
<1> QED
  BY <1>1, <1>2, FS_EmptySet

\* All of n are n.
LEMMA AllCount == ASSUME NEW n \in Nat PROVE Cardinality({i \in 1 .. n : TRUE}) = n
<1>1. {i \in 1 .. n : TRUE} = 1 .. n
  OBVIOUS
<1>2. Cardinality(1 .. n) = n
  BY FS_Interval
<1> QED
  BY <1>1, <1>2

\* Two that differ are two.
LEMMA PairCount == ASSUME NEW a, NEW b PROVE (Cardinality({a, b}) = 2) <=> (a # b)
<1>1. IsFiniteSet({a}) /\ Cardinality({a}) = 1
  BY FS_Singleton
<1>2. Cardinality({a} \union {b}) = IF b \in {a} THEN 1 ELSE 2
  BY <1>1, FS_AddElement
<1>3. {a} \union {b} = {a, b}
  OBVIOUS
<1> QED
  BY <1>2, <1>3

\* Fuzzing passes when all that was executed was as expected.
LEMMA FuzzingEarns ==
    ASSUME NEW e, FuzzReportIsValid(e.report),
           \A f \in {"valid", "accepted", "malformed", "rejected", "unsafe"} : e.report[f] \in Nat
    PROVE  FuzzingPasses(e.report, e.policy) <=> Earns("fuzzing", e)
<1> DEFINE r == e.report
<1>1. /\ r.valid \in Nat /\ r.accepted \in Nat /\ r.malformed \in Nat /\ r.rejected \in Nat
      /\ r.unsafe \in Nat /\ r.accepted <= r.valid /\ r.rejected <= r.malformed
  BY DEF FuzzReportIsValid
<1>2. ASSUME NEW v \in Nat, NEW a \in Nat, NEW m \in Nat, NEW d \in Nat, NEW u \in Nat,
             a <= v, d <= m
      PROVE  ((v - a) + (m - d) + u = 0) <=> (a = v /\ d = m /\ u = 0)
  BY <1>2
<1>3. ((r.valid - r.accepted) + (r.malformed - r.rejected) + r.unsafe = 0)
          <=> (r.accepted = r.valid /\ r.rejected = r.malformed /\ r.unsafe = 0)
  <2> HIDE DEF r
  <2> QED
    BY <1>1, <1>2
<1> QED
  BY <1>3 DEF Earns, FuzzingPasses

\* Two builds pass when they are two, clean, in time and of the subject's package.
LEMMA ReproducibleEarns ==
    ASSUME NEW e, BuildReportIsValid(e.report, e.outputs), files.package = subject.package,
           DOMAIN e.report.builds = 1 .. 2,
           \A i \in 1 .. 2, f \in {"exit", "network", "undeclared"} :
               e.report.builds[i][f] \in Nat
    PROVE  (/\ Distinct(e.report.builds, "attempt") /\ Distinct(e.report.builds, "environment")
            /\ e.report.duration <= e.policy.total
            /\ \A i \in 1 .. 2 :
                  /\ e.report.builds[i].exit = 0
                  /\ e.report.builds[i].network = 0 /\ e.report.builds[i].undeclared = 0
                  /\ e.report.builds[i].duration <= e.policy.build
                  /\ e.outputs[i] = subject.package)
               <=> Earns("reproducible", e)
<1> DEFINE a == e.report.builds[1]
           b == e.report.builds[2]
           builds == {e.report.builds[i] : i \in 1 .. 2}
<1>1. builds = {a, b}
  OBVIOUS
<1>2. {x.environment : x \in builds} = {a.environment, b.environment}
      /\ {x.attempt : x \in builds} = {a.attempt, b.attempt}
  BY <1>1
<1>3. ASSUME NEW field
      PROVE  Distinct(e.report.builds, field) <=> (a[field] # b[field])
  <2>1. Distinct(e.report.builds, field)
            <=> \A i, j \in 1 .. 2 : e.report.builds[i][field] = e.report.builds[j][field] => i = j
    BY DEF Distinct, IsInjective
  <2> QED
    BY <2>1
<1>4. /\ (Cardinality({x.environment : x \in builds}) = 2) <=> (a.environment # b.environment)
      /\ (Cardinality({x.attempt : x \in builds}) = 2) <=> (a.attempt # b.attempt)
  <2> HIDE DEF a, b, builds
  <2>1. (Cardinality({a.environment, b.environment}) = 2) <=> (a.environment # b.environment)
    BY PairCount
  <2>2. (Cardinality({a.attempt, b.attempt}) = 2) <=> (a.attempt # b.attempt)
    BY PairCount
  <2> QED
    BY <1>2, <2>1, <2>2
<1>5. \A x \in builds :
          /\ x.exit + x.network + x.undeclared = 0
                 <=> x.exit = 0 /\ x.network = 0 /\ x.undeclared = 0
  <2>1. \A i \in 1 .. 2 : /\ e.report.builds[i].exit \in Nat /\ e.report.builds[i].network \in Nat
                          /\ e.report.builds[i].undeclared \in Nat
    OBVIOUS
  <2> QED
    BY <2>1
<1>6. a.package = e.outputs[1] /\ b.package = e.outputs[2]
  BY DEF BuildReportIsValid
<1> HIDE DEF builds
<1>7. Earns("reproducible", e)
          <=> /\ a.environment # b.environment /\ a.attempt # b.attempt
              /\ \A x \in {a, b} :
                    /\ x.exit = 0 /\ x.network = 0 /\ x.undeclared = 0
                    /\ x.duration <= e.policy.build /\ x.package = files.package
              /\ e.report.duration <= e.policy.total
  BY <1>1, <1>4, <1>5 DEF Earns, builds
<1> QED
  BY <1>3, <1>6, <1>7

\* A signature is accepted when a key of its store covers it.
LEMMA SignatureEarns ==
    ASSUME NEW e, e.now \in Int, e.signature.issued \in Int, e.signature.expires \in Int,
           e.policy.lifetime \in Int, e.policy.remaining \in Nat,
           \A key \in e.store : key.notBefore \in Int /\ key.notAfter \in Int
    PROVE  SignatureIsAccepted(e.signature, e.policy, e.store, e.now) <=> Earns("signature", e)
<1> DEFINE i == e.signature.issued
           x == e.signature.expires
           now == e.now
           lifetime == e.policy.lifetime
           remaining == e.policy.remaining
           Covers(k) == /\ k.id = e.signature.key /\ k.notBefore <= i /\ x <= k.notAfter
                        /\ e.signature.signedWith = k.id
           Earned(k) == /\ i \in k.notBefore .. now /\ x \in (now + remaining) .. k.notAfter
                        /\ x - i \in 1 .. lifetime
                        /\ {e.signature.key, e.signature.signedWith} = {k.id}
           Timely == /\ x > i /\ x - i <= lifetime /\ now \in i .. x /\ x - now >= remaining
<1>1. ASSUME NEW k \in e.store
      PROVE  (Timely /\ Covers(k)) <=> Earned(k)
  <2>1. k.notBefore \in Int /\ k.notAfter \in Int
    OBVIOUS
  <2>2. ({e.signature.key, e.signature.signedWith} = {k.id})
            <=> (k.id = e.signature.key /\ e.signature.signedWith = k.id)
    OBVIOUS
  <2>3. (Timely /\ k.notBefore <= i /\ x <= k.notAfter)
            <=> (/\ i \in k.notBefore .. now /\ x \in (now + remaining) .. k.notAfter
                 /\ x - i \in 1 .. lifetime)
    <3>1. /\ i \in Int /\ x \in Int /\ now \in Int /\ lifetime \in Int /\ remaining \in Nat
      OBVIOUS
    <3> HIDE DEF i, x, now, lifetime, remaining
    <3> QED
      BY <2>1, <3>1
  <2> HIDE DEF i, x, now, lifetime, remaining, Timely
  <2> QED
    BY <2>2, <2>3
<1>2. SignatureIsAccepted(e.signature, e.policy, e.store, e.now)
          <=> (Timely /\ \E k \in e.store : Covers(k))
  BY DEF SignatureIsAccepted
<1>3. Earns("signature", e) <=> \E k \in e.store : Earned(k)
  BY DEF Earns
<1> HIDE DEF Timely, Covers, Earned
<1> QED
  BY <1>1, <1>2, <1>3

\* The integrity of a manifest is complete when its platforms are those it digests.
LEMMA AdminEarns ==
    ASSUME IsFiniteSet(DOMAIN files.manifest.digests), IsFiniteSet(files.manifest.platforms)
    PROVE  IntegrityIsComplete(files.manifest, subject) <=> \A e : Earns("admin", e)
<1> DEFINE m == files.manifest
<1>1. m.platforms \subseteq DOMAIN m.digests
          => ((Cardinality(DOMAIN m.digests) = Cardinality(m.platforms))
                  <=> (m.platforms = DOMAIN m.digests))
  BY FS_Subset
<1> QED
  BY <1>1 DEF IntegrityIsComplete, Earns

\* The components of an SBOM of one dependency are its root, the dependency and those nested in it.
LEMMA ComponentsOfOne ==
    ASSUME NEW sbom, NEW part, sbom.parts = <<part>>, NEW T, part.nested \in Seq(T)
    PROVE  /\ Components(sbom) = <<sbom.root>> \o (<<part.part>> \o part.nested)
           /\ DOMAIN Components(sbom) = 1 .. 2 + Len(part.nested)
<1> DEFINE seqs == [i \in DOMAIN sbom.parts |->
                        <<sbom.parts[i].part>> \o sbom.parts[i].nested]
           one == <<part.part>> \o part.nested
           flat == [i \in 1 .. 1 |-> one]
           Flat(f) == f = [i \in 1 .. 1 |-> IF i = 1 THEN seqs[i] ELSE f[i - 1] \o seqs[i]]
           c == CHOOSE f : Flat(f)
<1>1. seqs = <<one>> /\ Len(seqs) = 1
  OBVIOUS
<1>2. Flat(flat)
  BY <1>1
<1>3. Flat(c)
  BY <1>2
<1>4. c[1] = one
  <2> HIDE DEF c, one
  <2> QED
    BY <1>1, <1>3
<1>5. FlattenSeq(seqs) = c[1]
  BY <1>1 DEF FlattenSeq
<1>6. Components(sbom) = <<sbom.root>> \o one
  BY <1>4, <1>5 DEF Components
<1> QED
  BY <1>6

\* An SBOM passes when every component it names has a hash, a licence and a package URL.
LEMMA SbomEarns ==
    ASSUME NEW e, NEW n \in Nat, DOMAIN Components(files.sbom) = 1 .. n,
           RefsDistinct(files.sbom), NEW m, m = SbomMetrics(files.sbom)
    PROVE  (/\ m.count <= e.policy.components
            /\ m.hashed = m.count /\ m.licensed = m.count /\ m.purls = m.count)
               <=> Earns("sbom", e)
<1> DEFINE all == Components(files.sbom)
<1>1. Cardinality(ToSet(all)) = n
  BY PlacesCount DEF RefsDistinct
<1>2. /\ m.count = Cardinality({i \in 1 .. n : TRUE})
      /\ m.hashed = Cardinality({i \in 1 .. n : all[i].hashes # {}})
      /\ m.licensed = Cardinality({i \in 1 .. n : SpdxIds(all[i]) # {}})
      /\ m.purls = Cardinality({i \in 1 .. n : all[i].purl})
  BY DEF SbomMetrics, Count
<1>3. m.count = n
  BY <1>2, AllCount
<1>4. (m.hashed = n) <=> \A i \in 1 .. n : all[i].hashes # {}
  <2>1. (m.hashed = n) <=> ({i \in 1 .. n : all[i].hashes # {}} = 1 .. n)
    BY <1>2, CountIsAll
  <2> QED
    BY <2>1
<1>5. (m.licensed = n) <=> \A i \in 1 .. n : SpdxIds(all[i]) # {}
  <2>1. (m.licensed = n) <=> ({i \in 1 .. n : SpdxIds(all[i]) # {}} = 1 .. n)
    BY <1>2, CountIsAll
  <2> QED
    BY <2>1
<1>6. (m.purls = n) <=> \A i \in 1 .. n : all[i].purl
  <2>1. (m.purls = n) <=> ({i \in 1 .. n : all[i].purl} = 1 .. n)
    BY <1>2, CountIsAll, ZenonT(60)
  <2> QED
    BY <2>1
<1>7. ToSet(all) = {all[i] : i \in 1 .. n}
  BY DEF ToSet
<1>8. Earns("sbom", e)
          <=> (/\ Cardinality(ToSet(all)) <= e.policy.components
               /\ \A c \in ToSet(all) : c.purl /\ c.hashes # {} /\ SpdxIds(c) # {})
  BY DEF Earns
<1> HIDE DEF all
<1> QED
  BY <1>1, <1>3, <1>4, <1>5, <1>6, <1>7, <1>8

\* The licences pass when every component has one, allows all it has, and comes from somewhere.
LEMMA LicensesEarns ==
    ASSUME NEW e, NEW n \in Nat, DOMAIN Components(files.sbom) = 1 .. n,
           RefsDistinct(files.sbom), e.policy.allowed \intersect e.policy.denied = {},
           NEW m, m = LicenseMetrics(files.sbom, e.policy)
    PROVE  (/\ m.count <= e.policy.components
            /\ m.denied = 0 /\ m.unknown = 0 /\ m.missing = 0 /\ m.unproven = 0)
               <=> Earns("licenses", e)
<1> DEFINE all == Components(files.sbom)
           known == e.policy.allowed \union e.policy.denied
           missing == {i \in 1 .. n : SpdxIds(all[i]) = {}}
           denied == {i \in 1 .. n : SpdxIds(all[i]) \intersect e.policy.denied # {}}
           unknown == {i \in 1 .. n : all[i].expression \/ ~(SpdxIds(all[i]) \subseteq known)}
           unproven == {i \in 1 .. n : ~HasProvenance(all[i])}
<1>1. Cardinality(ToSet(all)) = n
  BY PlacesCount DEF RefsDistinct
<1>2. /\ m.count = Cardinality({i \in 1 .. n : TRUE}) /\ m.missing = Cardinality(missing)
      /\ m.denied = Cardinality(denied) /\ m.unknown = Cardinality(unknown)
      /\ m.unproven = Cardinality(unproven)
  BY DEF LicenseMetrics, Count
<1>3. m.count = n
  BY <1>2, AllCount
<1>4. /\ (m.missing = 0) <=> (missing = {})
      /\ (m.denied = 0) <=> (denied = {})
  BY <1>2, CountIsAll
<1>5. (m.unknown = 0) <=> (unknown = {})
  BY <1>2, CountIsAll
<1>6. (m.unproven = 0) <=> (unproven = {})
  BY <1>2, CountIsAll
<1>7. ToSet(all) = {all[i] : i \in 1 .. n}
  BY DEF ToSet
<1>8. (missing = {} /\ denied = {} /\ unknown = {} /\ unproven = {})
          <=> \A c \in ToSet(all) :
                 /\ SpdxIds(c) # {} /\ SpdxIds(c) \subseteq e.policy.allowed
                 /\ ~c.expression /\ c.purl /\ c.hashes # {}
  <2>1. (\A c \in ToSet(all) :
            /\ SpdxIds(c) # {} /\ SpdxIds(c) \subseteq e.policy.allowed
            /\ ~c.expression /\ c.purl /\ c.hashes # {})
            <=> \A i \in 1 .. n :
                   /\ SpdxIds(all[i]) # {} /\ SpdxIds(all[i]) \subseteq e.policy.allowed
                   /\ ~all[i].expression /\ all[i].purl /\ all[i].hashes # {}
    BY <1>7, ZenonT(60)
  <2>2. ASSUME NEW i \in 1 .. n
        PROVE  (i \notin missing /\ i \notin denied /\ i \notin unknown /\ i \notin unproven)
                   <=> (/\ SpdxIds(all[i]) # {} /\ SpdxIds(all[i]) \subseteq e.policy.allowed
                        /\ ~all[i].expression /\ all[i].purl /\ all[i].hashes # {})
    BY DEF HasProvenance
  <2>3. (missing = {} /\ denied = {} /\ unknown = {} /\ unproven = {})
            <=> \A i \in 1 .. n :
                   i \notin missing /\ i \notin denied /\ i \notin unknown /\ i \notin unproven
    OBVIOUS
  <2> HIDE DEF missing, denied, unknown, unproven, all
  <2> QED
    BY <2>1, <2>2, <2>3, ZenonT(60)
<1>9. Earns("licenses", e)
          <=> (/\ Cardinality(ToSet(all)) <= e.policy.components
               /\ \A c \in ToSet(all) :
                     /\ SpdxIds(c) # {} /\ SpdxIds(c) \subseteq e.policy.allowed
                     /\ ~c.expression /\ c.purl /\ c.hashes # {})
  BY DEF Earns
<1> HIDE DEF all, missing, denied, unknown, unproven
<1> QED
  BY <1>1, <1>3, <1>4, <1>5, <1>6, <1>8, <1>9

-------------------------------------------------------------------------------
(* The evidence *)

\* Evidence near the usual one has, field by field, the usual value or one of the others.
LEMMA NearField ==
    ASSUME NEW usual, NEW others, NEW x \in Near(usual, others), NEW g \in DOMAIN usual
    PROVE  x[g] = usual[g] \/ (g \in DOMAIN others /\ x[g] \in others[g])
<1>1. CASE x = usual
  BY <1>1
<1>2. ASSUME NEW f \in DOMAIN others, NEW v \in others[f], x = [usual EXCEPT ![f] = v]
      PROVE  x[g] = usual[g] \/ (g \in DOMAIN others /\ x[g] \in others[g])
  BY <1>2
<1> QED
  BY <1>1, <1>2 DEF Near

\* What a fuzzing report counts is counted in natural numbers.
LEMMA FuzzIsTyped ==
    ASSUME NEW e \in FuzzEvidence
    PROVE  \A f \in {"valid", "accepted", "malformed", "rejected", "unsafe"} : e.report[f] \in Nat
<1> DEFINE counted == [valid |-> 2, accepted |-> 2, malformed |-> 4, rejected |-> 4,
                       unsafe |-> 0, covered |-> TRUE, sanitizers |-> {"address"},
                       duration |-> 2500, seconds |-> 2]
           wanted == [total |-> 6, valid |-> 2, malformed |-> 4, duration |-> 2600]
           odd == [valid |-> {1, 3}, accepted |-> {1}, malformed |-> {3}, rejected |-> {3},
                   unsafe |-> {1, 7}, covered |-> {FALSE}, sanitizers |-> {{}},
                   duration |-> {2600, 2601, 3000}]
           reports == Near(counted, odd)
           policies == Near(wanted, [total |-> {7}, malformed |-> {1}, duration |-> {0, 2499}])
           usual == [sound |-> TRUE, report |-> counted, policy |-> wanted,
                     corpus |-> [valid |-> 1, malformed |-> 2, repetitions |-> 2,
                                 sanitizers |-> {"address"}]]
           others == [sound |-> {FALSE}, report |-> reports, policy |-> policies]
<1>1. e \in Near(usual, others)
  BY DEF FuzzEvidence
<1>2. e.report = counted \/ e.report \in reports
  <2>1. "report" \in DOMAIN usual /\ usual["report"] = counted /\ others["report"] = reports
    OBVIOUS
  <2> HIDE DEF usual, others, counted, reports
  <2>2. e["report"] = usual["report"] \/ e["report"] \in others["report"]
    BY <1>1, <2>1, NearField
  <2> QED
    BY <2>1, <2>2
<1>3. ASSUME NEW f \in {"valid", "accepted", "malformed", "rejected", "unsafe"}
      PROVE  e.report[f] \in Nat
  <2>1. f \in DOMAIN counted /\ counted[f] \in Nat /\ odd[f] \subseteq Nat
    OBVIOUS
  <2> HIDE DEF counted, odd
  <2>2. e.report[f] = counted[f] \/ e.report[f] \in odd[f]
    BY <1>2, <2>1, NearField
  <2> QED
    BY <2>1, <2>2
<1> QED
  BY <1>3

\* The times of a signature, of the keys and of its policy are numbers.
LEMMA SignatureIsTyped ==
    ASSUME NEW e \in SignatureEvidence
    PROVE  /\ e.now \in Int /\ e.signature.issued \in Int /\ e.signature.expires \in Int
           /\ e.policy.lifetime \in Int /\ e.policy.remaining \in Nat
           /\ \A key \in e.store : key.notBefore \in Int /\ key.notAfter \in Int
<1> DEFINE signature == [artifact |-> files.artifact, key |-> "k1", signedWith |-> "k1",
                         issued |-> 2, expires |-> 5]
           key == [id |-> "k1", notBefore |-> 2, notAfter |-> 5]
           odd == [artifact |-> {0}, signedWith |-> {"k2"}, issued |-> {0, 1, 5},
                   expires |-> {3, 4, 6}]
           signatures == Near(signature, odd)
           stores == {{}, {[key EXCEPT !.id = "k2"]}, {[key EXCEPT !.notAfter = 4]},
                      {[key EXCEPT !.notBefore = 3]}}
           usual == [sound |-> TRUE, now |-> 3, store |-> {key}, signature |-> signature,
                     policy |-> [lifetime |-> 3, remaining |-> 1]]
           others == [sound |-> {FALSE}, now |-> {1, 5, 6}, store |-> stores,
                      signature |-> signatures, policy |-> {[lifetime |-> 3, remaining |-> 4]}]
<1>1. e \in Near(usual, others)
  BY DEF SignatureEvidence
<1>2. /\ DOMAIN usual = {"sound", "now", "store", "signature", "policy"}
      /\ DOMAIN others = {"sound", "now", "store", "signature", "policy"}
      /\ usual["now"] = 3 /\ others["now"] = {1, 5, 6}
      /\ usual["store"] = {key} /\ others["store"] = stores
      /\ usual["signature"] = signature /\ others["signature"] = signatures
      /\ usual["policy"] = [lifetime |-> 3, remaining |-> 1]
      /\ others["policy"] = {[lifetime |-> 3, remaining |-> 4]}
  OBVIOUS
<1>3. /\ e.now \in {3, 1, 5, 6} /\ e.store \in {{key}} \union stores
      /\ e.signature = signature \/ e.signature \in signatures
      /\ e.policy \in {[lifetime |-> 3, remaining |-> 1], [lifetime |-> 3, remaining |-> 4]}
  <2> HIDE DEF usual, others, signatures, stores, key, signature
  <2>1. \A g \in DOMAIN usual :
            e[g] = usual[g] \/ (g \in DOMAIN others /\ e[g] \in others[g])
    BY <1>1, NearField
  <2> QED
    BY <1>2, <2>1
<1>4. e.signature.issued \in {2, 0, 1, 5} /\ e.signature.expires \in {5, 3, 4, 6}
  <2>1. /\ DOMAIN signature = {"artifact", "key", "signedWith", "issued", "expires"}
        /\ signature["issued"] = 2 /\ odd["issued"] = {0, 1, 5}
        /\ signature["expires"] = 5 /\ odd["expires"] = {3, 4, 6}
    OBVIOUS
  <2> HIDE DEF signature, odd
  <2> QED
    BY <1>3, <2>1, NearField
<1>5. \A k \in e.store : k.notBefore \in Int /\ k.notAfter \in Int
  <2>1. \A s \in {{key}} \union stores : \A k \in s : k.notBefore \in Int /\ k.notAfter \in Int
    OBVIOUS
  <2> QED
    BY <1>3, <2>1
<1> QED
  BY <1>3, <1>4, <1>5

\* Two builds, each with its counts.
Built(builds) ==
    /\ DOMAIN builds = 1 .. 2
    /\ \A i \in 1 .. 2, f \in {"exit", "network", "undeclared"} : builds[i][f] \in Nat

\* A report of two builds counts in natural numbers.
LEMMA BuildIsTyped ==
    ASSUME NEW e \in BuildEvidence
    PROVE  Built(e.report.builds)
<1> DEFINE build(slot) == [slot |-> slot, attempt |-> slot, environment |-> slot, exit |-> 0,
                           network |-> 0, undeclared |-> 0, duration |-> 1500,
                           package |-> files.package]
           odd == [slot |-> {"a"}, attempt |-> {"a"}, environment |-> {"a"}, exit |-> {1},
                   network |-> {1}, undeclared |-> {1}, duration |-> {2500, 2501, 3000},
                   package |-> {0}]
           usual == [duration |-> 2000, seconds |-> 2, builds |-> <<build("a"), build("b")>>]
           reports == {[usual EXCEPT !.builds[2] = b] : b \in Near(build("b"), odd)}
           late == {[usual EXCEPT !.duration = ms] : ms \in {2801, 3000}}
           wanted == [build |-> 2500, total |-> 2800]
           base == [sound |-> TRUE, policy |-> wanted, report |-> usual,
                    outputs |-> <<files.package, files.package>>]
           others == [sound |-> {FALSE}, policy |-> {[wanted EXCEPT !.build = 2801]},
                      report |-> reports \union late]
           other == [base EXCEPT !.outputs[2] = 0, !.report.builds[2].package = 0]
<1>1. e \in Near(base, others) \/ e = other
  BY DEF BuildEvidence
<1>2. /\ Built(usual.builds) /\ Built(other.report.builds)
      /\ \A x \in late : Built(x.builds)
  BY DEF Built
<1>3. ASSUME NEW b \in Near(build("b"), odd)
      PROVE  Built([usual EXCEPT !.builds[2] = b].builds)
  <2>1. [usual EXCEPT !.builds[2] = b].builds = <<build("a"), b>>
    OBVIOUS
  <2>2. \A f \in {"exit", "network", "undeclared"} :
            f \in DOMAIN build("b") /\ build("b")[f] \in Nat /\ odd[f] \subseteq Nat
            /\ build("a")[f] \in Nat
    OBVIOUS
  <2>3. \A f \in {"exit", "network", "undeclared"} : b[f] \in Nat
    <3> HIDE DEF build, odd
    <3>1. \A f \in DOMAIN build("b") :
              b[f] = build("b")[f] \/ (f \in DOMAIN odd /\ b[f] \in odd[f])
      BY <1>3, NearField
    <3> QED
      BY <2>2, <3>1
  <2> HIDE DEF build
  <2> QED
    BY <2>1, <2>2, <2>3 DEF Built
<1>4. ASSUME e \in Near(base, others)
      PROVE  e.report = usual \/ e.report \in reports \/ e.report \in late
  <2>1. "report" \in DOMAIN base /\ base["report"] = usual
        /\ others["report"] = reports \union late
    OBVIOUS
  <2> HIDE DEF base, others, usual, reports, late
  <2>2. e["report"] = base["report"] \/ e["report"] \in others["report"]
    BY <1>4, <2>1, NearField
  <2> QED
    BY <2>1, <2>2
<1>5. ASSUME e.report \in reports PROVE Built(e.report.builds)
  <2> HIDE DEF usual, build, odd
  <2> QED
    BY <1>3, <1>5
<1> HIDE DEF usual, reports, late, other
<1> QED
  BY <1>1, <1>2, <1>4, <1>5

\* Cases, each with its lengths.
Measured(cases) ==
    /\ Len(cases) \in Nat /\ DOMAIN cases = 1 .. Len(cases)
    /\ \A i \in 1 .. Len(cases) : cases[i].input \in Nat /\ cases[i].output \in Nat

\* A report of such cases on the executable there is, or on none.
Counted(r) ==
    r.artifact \in {0, files.artifact} /\ r.iterations \in Nat \ {0} /\ Measured(r.cases)

\* The report of a fixture and one that was passed is of measured cases.
LEMMA ReportedIsCounted ==
    ASSUME NEW name, NEW action, NEW raw \in Nat, NEW out \in Nat,
           NEW r, r = Reported(Case(name, action, raw, out))
    PROVE  /\ Counted(r) /\ r.artifact = files.artifact /\ r.iterations = 2
           /\ r.cases = <<Case(name, action, raw, out), Case("two", "pass", 1, 1)>>
<1>1. /\ r.artifact = files.artifact /\ r.iterations = 2
      /\ r.cases = <<Case(name, action, raw, out), Case("two", "pass", 1, 1)>>
  BY TwoCases DEF Reported
<1>2. Measured(<<Case(name, action, raw, out), Case("two", "pass", 1, 1)>>)
  BY DEF Measured, Case
<1> QED
  BY <1>1, <1>2 DEF Counted

\* So are the reports of an earlier run, edited, or of poorer fixtures.
LEMMA BenchReportsAreCounted ==
    ASSUME NEW x \in BenchReports
    PROVE  Counted(x)
<1> DEFINE r == Optimized(10, 2)
           odd == [artifact |-> {0}, input |-> {r.input + 9}, output |-> {0}, cases |-> {<<>>}]
           one == <<Case("one", "pass", 10, 10)>>
           twice == <<r.cases[1], r.cases[1]>>
<1>1. /\ Counted(r) /\ r.artifact = files.artifact /\ r.iterations = 2
      /\ r.cases = <<Case("one", "optimize", 10, 2), Case("two", "pass", 1, 1)>>
  BY ReportedIsCounted DEF Optimized
<1>2. Counted(Optimized(10, 9)) /\ Counted(Optimized(10, 8)) /\ Counted(Optimized(3, 1))
  BY ReportedIsCounted DEF Optimized
<1>3. Measured(one) /\ Measured(twice) /\ Measured(<<>>)
  BY <1>1 DEF Measured, Case
<1>4. ASSUME NEW cases, Measured(cases), NEW n \in Nat \ {0}
      PROVE  Counted(BenchReport(r.artifact, cases, n))
  BY <1>1, <1>4 DEF Counted, BenchReport
<1>5. ASSUME x \in Near(r, odd) PROVE Counted(x)
  <2>1. {"artifact", "iterations", "cases"} \subseteq DOMAIN r
    BY DEF Optimized, Reported, BenchReport
  <2>2. DOMAIN odd = {"artifact", "input", "output", "cases"} /\ odd["artifact"] = {0}
        /\ odd["cases"] = {<<>>}
    OBVIOUS
  <2> HIDE DEF r, odd
  <2>3. \A g \in DOMAIN r : x[g] = r[g] \/ (g \in DOMAIN odd /\ x[g] \in odd[g])
    BY <1>5, NearField
  <2> QED
    BY <1>1, <1>3, <2>1, <2>2, <2>3 DEF Counted
<1>6. Measured(r.cases)
  BY <1>1 DEF Counted
<1>7. x \in Near(r, odd)
          \union {Optimized(10, 9), Optimized(10, 8), Optimized(3, 1),
                  BenchReport(r.artifact, one, 2), BenchReport(r.artifact, twice, 2),
                  BenchReport(r.artifact, r.cases, 1)}
  BY DEF BenchReports
<1> HIDE DEF r, odd, one, twice
<1> QED
  BY <1>2, <1>3, <1>4, <1>5, <1>6, <1>7

\* The evidence of the benchmark stage is about measured cases, under its policy.
LEMMA BenchIsTyped ==
    ASSUME BenchInv, NEW e \in BenchEvidence
    PROVE  Counted(e.report) /\ e.policy.basis \in Int
<1>1. CASE bench.verdict = "accepted"
  <2>1. bench # Idle
    BY <1>1 DEF Idle
  <2>2. bench.fixture.raw \in Nat /\ bench.answer.content \in Nat
    BY <2>1, WorkbenchIsTyped DEF Fixtures
  <2>3. OutputOf(bench.fixture, bench.answer) \in Nat
    BY <2>2 DEF OutputOf
  <2>4. Counted(Benched)
    BY <2>2, <2>3, ReportedIsCounted DEF Benched
  <2> QED
    BY <1>1, <2>4 DEF BenchEvidence, MeasuredBy, BenchPolicy
<1>2. CASE bench.verdict # "accepted"
  <2> DEFINE r == Optimized(10, 2)
             usual == MeasuredBy(r)
             policies == {[BenchPolicy EXCEPT !.basis = 10001]}
             odd == [sound |-> {FALSE}, report |-> BenchReports, fast |-> {FALSE},
                     policy |-> policies]
  <2>1. e \in Near(usual, odd)
    BY <1>2 DEF BenchEvidence
  <2>2. /\ {"report", "policy"} \subseteq DOMAIN usual /\ usual["report"] = r
        /\ usual["policy"] = BenchPolicy
        /\ DOMAIN odd = {"sound", "report", "fast", "policy"}
        /\ odd["report"] = BenchReports /\ odd["policy"] = policies
    BY DEF MeasuredBy
  <2>3. Counted(r)
    BY ReportedIsCounted DEF Optimized
  <2>5. \A p \in {BenchPolicy} \union policies : p.basis \in Int
    BY DEF BenchPolicy
  <2> HIDE DEF r, usual, odd, policies
  <2>4. \A g \in DOMAIN usual : e[g] = usual[g] \/ (g \in DOMAIN odd /\ e[g] \in odd[g])
    BY <2>1, NearField
  <2> QED
    BY <2>2, <2>3, <2>4, <2>5, BenchReportsAreCounted
<1> QED
  BY <1>1, <1>2

-------------------------------------------------------------------------------
(* The documents of the stages *)

\* The SBOMs there are have a list of components.
LEMMA ComponentsAreListed ==
    ASSUME FilesInv
    PROVE  \E n \in Nat : DOMAIN Components(files.sbom) = 1 .. n
<1>1. ASSUME NEW part, NEW T, files.sbom.parts = <<part>>, part.nested \in Seq(T)
      PROVE  \E n \in Nat : DOMAIN Components(files.sbom) = 1 .. n
  <2>1. DOMAIN Components(files.sbom) = 1 .. 2 + Len(part.nested)
    BY <1>1, ComponentsOfOne
  <2> QED
    BY <1>1, <2>1
<1>2. ASSUME NEW c, NEW nested, files.sbom.parts = <<[part |-> c, nested |-> nested]>>,
             nested = <<>> \/ \E x : nested = <<x>>
      PROVE  \E n \in Nat : DOMAIN Components(files.sbom) = 1 .. n
  <2>1. \E T : nested \in Seq(T)
    <3>1. CASE nested = <<>>
      <4>1. nested \in Seq({})
        BY <3>1
      <4> QED
        BY <4>1
    <3>2. ASSUME NEW x, nested = <<x>> PROVE \E T : nested \in Seq(T)
      <4>1. nested \in Seq({x})
        BY <3>2
      <4> QED
        BY <4>1
    <3> QED
      BY <1>2, <3>1, <3>2
  <2>2. PICK T : nested \in Seq(T)
    BY <2>1
  <2> DEFINE part == [part |-> c, nested |-> nested]
  <2>3. part.nested \in Seq(T) /\ files.sbom.parts = <<part>>
    BY <1>2, <2>2
  <2> HIDE DEF part
  <2> QED
    BY <1>1, <2>3
<1>3. \E c, nested : /\ files.sbom.parts = <<[part |-> c, nested |-> nested]>>
                     /\ nested = <<>> \/ \E x : nested = <<x>>
  BY ZenonT(60) DEF FilesInv, OddParts, PartsOf
<1> QED
  BY <1>2, <1>3

\* A document as it is kept, and what is to be shown of it.
Kept(d, requirement, e) ==
    [doc |-> d, earned |-> Earns(requirement, e), made |-> Versions(files)]

SoundDocument(d, requirement, e) ==
    /\ d.requirement = requirement /\ d.subject = subject
    /\ DocInv(Kept(d, requirement, e))

\* What a document made by an evaluator is.
LEMMA DocumentFields ==
    ASSUME NEW requirement, NEW s, NEW ok, NEW inputs, NEW outputs,
           NEW d \in Document(requirement, s, ok, inputs, outputs)
    PROVE  /\ d.requirement = requirement /\ d.subject = s /\ d.ok = ok
           /\ d.inputs = inputs /\ d.outputs = outputs
BY DEF Document

\* The benchmark stage compares the executable, by its report, and passes as the cases earn.
LEMMA BenchmarkDocument ==
    ASSUME FilesInv, BenchInv, NEW e \in BenchEvidence, NEW d \in EvaluateBenchmark(subject, e)
    PROVE  SoundDocument(d, "benchmark", e)
<1> DEFINE ok == /\ Len(e.report.cases) >= e.policy.cases
                 /\ e.report.iterations >= e.policy.iterations
                 /\ e.report.input >= e.policy.input
                 /\ SavingsBasisPoints(e.report.input - e.report.output, e.report.input)
                        >= e.policy.basis
                 /\ e.fast
<1>1. BenchReportIsValid(e.report, subject)
  BY DEF EvaluateBenchmark
<1>2. d \in Document("benchmark", subject, ok, <<subject.package, Paper, Paper>>, <<Paper>>)
  BY DEF EvaluateBenchmark
<1>3. Counted(e.report) /\ e.policy.basis \in Int
  BY BenchIsTyped
<1>4. e.report.cases # <<>> /\ e.report.artifact = subject.artifact
  BY <1>1 DEF BenchReportIsValid
<1>5. Len(e.report.cases) \in Nat \ {0}
  BY <1>3, <1>4 DEF Counted, Measured
<1>6. ok <=> Earns("benchmark", e)
  BY <1>1, <1>3, <1>5, BenchmarkEarns DEF Counted, Measured
<1>7. files.artifact = subject.artifact
  BY <1>3, <1>4 DEF Counted, FilesInv
<1>8. ok \in BOOLEAN /\ Earns("benchmark", e) \in BOOLEAN
  BY DEF Earns
<1> HIDE DEF ok
<1>9. /\ d.requirement = "benchmark" /\ d.subject = subject /\ d.ok = ok
      /\ d.inputs[1] = subject.package
  BY <1>2, DocumentFields
<1> QED
  BY <1>6, <1>7, <1>8, <1>9 DEF SoundDocument, Kept, DocInv, SubjectBound, RebuildBound, Versions

\* The fuzzing stage compares the executable, and passes as what was executed earns.
LEMMA FuzzingDocument ==
    ASSUME NEW e \in FuzzEvidence, NEW d \in EvaluateFuzzing(files, subject, e)
    PROVE  SoundDocument(d, "fuzzing", e)
<1> DEFINE ok == FuzzingPasses(e.report, e.policy)
<1>1. FuzzReportIsValid(e.report) /\ files.artifact = subject.artifact
  BY DEF EvaluateFuzzing
<1>2. d \in Document("fuzzing", subject, ok, <<subject.artifact, Paper, Paper>>, <<Paper>>)
  BY DEF EvaluateFuzzing
<1>3. ok <=> Earns("fuzzing", e)
  BY <1>1, FuzzIsTyped, FuzzingEarns
<1>4. ok \in BOOLEAN /\ Earns("fuzzing", e) \in BOOLEAN
  BY DEF Earns, FuzzingPasses
<1> HIDE DEF ok
<1>5. /\ d.requirement = "fuzzing" /\ d.subject = subject /\ d.ok = ok
      /\ d.inputs[1] = subject.artifact
  BY <1>2, DocumentFields
<1> QED
  BY <1>1, <1>3, <1>4, <1>5
     DEF SoundDocument, Kept, DocInv, SubjectBound, RebuildBound, Versions

\* The reproducible stage compares the package, and passes with two builds of the same.
LEMMA ReproducibleDocument ==
    ASSUME NEW e \in BuildEvidence, NEW d \in EvaluateReproducible(files, subject, e)
    PROVE  SoundDocument(d, "reproducible", e)
<1> DEFINE ok == /\ Distinct(e.report.builds, "attempt")
                 /\ Distinct(e.report.builds, "environment")
                 /\ e.report.duration <= e.policy.total
                 /\ \A i \in 1 .. 2 :
                       /\ e.report.builds[i].exit = 0
                       /\ e.report.builds[i].network = 0 /\ e.report.builds[i].undeclared = 0
                       /\ e.report.builds[i].duration <= e.policy.build
                       /\ e.outputs[i] = subject.package
<1>1. BuildReportIsValid(e.report, e.outputs) /\ files.package = subject.package
  BY DEF EvaluateReproducible
<1>2. d \in Document("reproducible", subject, ok, <<subject.package, Paper, Paper>>,
                     <<Paper, e.outputs[1], e.outputs[2]>>)
  BY DEF EvaluateReproducible
<1>3. ok <=> Earns("reproducible", e)
  BY <1>1, BuildIsTyped, ReproducibleEarns DEF Built
<1>4. ok \in BOOLEAN /\ Earns("reproducible", e) \in BOOLEAN
  BY DEF Earns
<1>5. ok => e.outputs[1] = subject.package /\ e.outputs[2] = subject.package
  OBVIOUS
<1> HIDE DEF ok
<1>6. /\ d.requirement = "reproducible" /\ d.subject = subject /\ d.ok = ok
      /\ d.inputs[1] = subject.package
      /\ d.outputs[2] = e.outputs[1] /\ d.outputs[3] = e.outputs[2]
  BY <1>2, DocumentFields
<1> QED
  BY <1>1, <1>3, <1>4, <1>5, <1>6
     DEF SoundDocument, Kept, DocInv, SubjectBound, RebuildBound, Versions

\* The signature stage compares the executable, and passes as a key of the store covers it.
LEMMA SignatureDocument ==
    ASSUME NEW e \in SignatureEvidence, NEW d \in EvaluateSignedArtifact(files, subject, e)
    PROVE  SoundDocument(d, "signature", e)
<1> DEFINE ok == SignatureIsAccepted(e.signature, e.policy, e.store, e.now)
<1>1. files.artifact = subject.artifact
  BY DEF EvaluateSignedArtifact
<1>2. d \in Document("signature", subject, ok, <<subject.artifact, Paper, Paper>>, <<Paper>>)
  BY DEF EvaluateSignedArtifact
<1>3. ok <=> Earns("signature", e)
  BY SignatureIsTyped, SignatureEarns
<1>4. ok \in BOOLEAN /\ Earns("signature", e) \in BOOLEAN
  BY DEF Earns, SignatureIsAccepted
<1> HIDE DEF ok
<1>5. /\ d.requirement = "signature" /\ d.subject = subject /\ d.ok = ok
      /\ d.inputs[1] = subject.artifact
  BY <1>2, DocumentFields
<1> QED
  BY <1>1, <1>3, <1>4, <1>5
     DEF SoundDocument, Kept, DocInv, SubjectBound, RebuildBound, Versions

\* The SBOM stage compares the package, and passes as every component earns.
LEMMA SbomDocument ==
    ASSUME FilesInv, NEW e, NEW d \in EvaluateSbom(files, subject, e)
    PROVE  SoundDocument(d, "sbom", e)
<1> DEFINE m == SbomMetrics(files.sbom)
           ok == /\ m.count <= e.policy.components
                 /\ m.hashed = m.count /\ m.licensed = m.count /\ m.purls = m.count
<1>1. files.package = subject.package /\ RefsDistinct(files.sbom)
  BY DEF EvaluateSbom
<1>2. d \in Document("sbom", subject, ok, <<subject.package, Paper>>, <<files.sbom.id, Paper>>)
  BY DEF EvaluateSbom
<1>3. ok <=> Earns("sbom", e)
  <2>1. PICK n \in Nat : DOMAIN Components(files.sbom) = 1 .. n
    BY ComponentsAreListed
  <2> HIDE DEF m
  <2>2. m = SbomMetrics(files.sbom)
    BY DEF m
  <2> QED
    BY <1>1, <2>1, <2>2, SbomEarns
<1>4. ok \in BOOLEAN /\ Earns("sbom", e) \in BOOLEAN
  BY DEF Earns
<1> HIDE DEF ok
<1>5. /\ d.requirement = "sbom" /\ d.subject = subject /\ d.ok = ok
      /\ d.inputs[1] = subject.package /\ d.outputs[1] = files.sbom.id
  BY <1>2, DocumentFields
<1> QED
  BY <1>1, <1>3, <1>4, <1>5
     DEF SoundDocument, Kept, DocInv, SubjectBound, RebuildBound, Versions

\* The licence stage looks for the package in the SBOM, and passes as every component earns.
LEMMA LicensesDocument ==
    ASSUME FilesInv, NEW e, NEW d \in EvaluateLicenses(files, subject, e)
    PROVE  SoundDocument(d, "licenses", e)
<1> DEFINE m == LicenseMetrics(files.sbom, e.policy)
           ok == /\ m.count <= e.policy.components
                 /\ m.denied = 0 /\ m.unknown = 0 /\ m.missing = 0 /\ m.unproven = 0
<1>1. /\ subject.package \in files.sbom.root.hashes /\ RefsDistinct(files.sbom)
      /\ e.policy.allowed \intersect e.policy.denied = {}
  BY DEF EvaluateLicenses, RootIsSubject, LicensePolicyIsValid
<1>2. d \in Document("licenses", subject, ok, <<files.sbom.id, Paper>>, <<Paper>>)
  BY DEF EvaluateLicenses
<1>3. ok <=> Earns("licenses", e)
  <2>1. PICK n \in Nat : DOMAIN Components(files.sbom) = 1 .. n
    BY ComponentsAreListed
  <2> HIDE DEF m
  <2>2. m = LicenseMetrics(files.sbom, e.policy)
    BY DEF m
  <2> QED
    BY <1>1, <2>1, <2>2, LicensesEarns
<1>4. ok \in BOOLEAN /\ Earns("licenses", e) \in BOOLEAN
  BY DEF Earns
<1> HIDE DEF ok
<1>5. /\ d.requirement = "licenses" /\ d.subject = subject /\ d.ok = ok
      /\ d.inputs[1] = files.sbom.id
  BY <1>2, DocumentFields
<1> QED
  BY <1>1, <1>3, <1>4, <1>5
     DEF SoundDocument, Kept, DocInv, SubjectBound, RebuildBound, Versions

\* The admin stage passes when the manifest digests its platforms, this one's as the subject.
LEMMA AdminDocument ==
    ASSUME FilesInv, NEW e, NEW d \in EvaluateAdmin(files, subject, e)
    PROVE  SoundDocument(d, "admin", e)
<1> DEFINE m == files.manifest
           ok == IntegrityIsComplete(m, subject)
<1>1. "here" \in m.platforms
  BY DEF EvaluateAdmin, ManifestIsSubjects
<1>2. d \in Document("admin", subject, ok, <<m.id>>, <<Paper>>)
  BY DEF EvaluateAdmin
<1>3. ok <=> Earns("admin", e)
  <2>1. IsFiniteSet({"here", "there"})
    <3>1. IsFiniteSet({"here"} \union {"there"})
      BY FS_Singleton, FS_AddElement
    <3>2. {"here"} \union {"there"} = {"here", "there"}
      OBVIOUS
    <3> QED
      BY <3>1, <3>2
  <2>2. IsFiniteSet(DOMAIN m.digests) /\ IsFiniteSet(m.platforms)
    BY <2>1, FS_Subset DEF FilesInv
  <2>3. \A y, z : Earns("admin", y) <=> Earns("admin", z)
    BY DEF Earns
  <2> QED
    BY <2>2, <2>3, AdminEarns
<1>4. ok \in BOOLEAN /\ Earns("admin", e) \in BOOLEAN
  BY DEF Earns, IntegrityIsComplete
<1>5. ok => Versions(files).lists = {subject.artifact}
  BY <1>1 DEF IntegrityIsComplete, Versions
<1>6. Versions(files).manifest = m.id
  BY DEF Versions
<1> HIDE DEF ok
<1>7. /\ d.requirement = "admin" /\ d.subject = subject /\ d.ok = ok
      /\ d.inputs[1] = m.id
  BY <1>2, DocumentFields
<1> QED
  BY <1>3, <1>4, <1>5, <1>6, <1>7
     DEF SoundDocument, Kept, DocInv, SubjectBound, RebuildBound

\* The stages of level 1 name the manifest or the executable they were run on.
LEMMA LevelOneDocument ==
    ASSUME NEW r \in {"manifest", "lifecycle", "safety"}, NEW e \in [passed : BOOLEAN],
           NEW d \in ExternalDocument(r, e)
    PROVE  SoundDocument(d, r, e)
<1>1. /\ d.requirement = r /\ d.subject = subject /\ d.ok = e.passed
      /\ d.inputs[1] = IF r = "manifest" THEN files.manifest.id ELSE files.artifact
  BY DocumentFields, SMTT(20) DEF ExternalDocument
<1>2. Earns(r, e) = e.passed
  <2>1. /\ r # "benchmark" /\ r # "fuzzing" /\ r # "reproducible" /\ r # "signature"
        /\ r # "sbom" /\ r # "licenses" /\ r # "admin"
    OBVIOUS
  <2> QED
    BY <2>1, SMT DEF Earns
<1> QED
  BY <1>1, <1>2 DEF SoundDocument, Kept, DocInv, SubjectBound, RebuildBound, Versions

\* Whatever stage is run, its document is of its requirement, of the job's subject and of the
\* files there are, and passes as it earned it.
LEMMA DocumentsAreSound ==
    ASSUME FilesInv, BenchInv, NEW r \in {Requirements[i] : i \in 1 .. 10},
           NEW x \in StageDocuments(r)
    PROVE  /\ x.doc.requirement = r /\ x.doc.subject = subject
           /\ x.made = Versions(files) /\ DocInv(x)
<1>1. PICK e \in Evidence(r) : \E d \in Evaluate(r, e) : x = Kept(d, r, e)
  BY DEF StageDocuments, Kept
<1>2. PICK d \in Evaluate(r, e) : x = Kept(d, r, e)
  BY <1>1
<1>3. SoundDocument(d, r, e)
  <2>1. CASE r = "benchmark"
    BY <2>1, BenchmarkDocument DEF Evidence, Evaluate
  <2>2. CASE r = "fuzzing"
    BY <2>2, FuzzingDocument DEF Evidence, Evaluate
  <2>3. CASE r = "reproducible"
    BY <2>3, ReproducibleDocument DEF Evidence, Evaluate
  <2>4. CASE r = "signature"
    BY <2>4, SignatureDocument DEF Evidence, Evaluate
  <2>5. CASE r = "sbom"
    BY <2>5, SbomDocument DEF Evaluate
  <2>6. CASE r = "licenses"
    BY <2>6, LicensesDocument DEF Evaluate
  <2>7. CASE r = "admin"
    BY <2>7, AdminDocument DEF Evaluate
  <2>8. CASE r \in {"manifest", "lifecycle", "safety"}
    BY <2>8, LevelOneDocument DEF Evidence, Evaluate
  <2> QED
    BY <2>1, <2>2, <2>3, <2>4, <2>5, <2>6, <2>7, <2>8 DEF Requirements
<1>4. x.doc = d /\ x.made = Versions(files)
  BY <1>2 DEF Kept
<1> QED
  BY <1>2, <1>3, <1>4 DEF SoundDocument

-------------------------------------------------------------------------------
(* The invariant *)

\* The requirements of a level are the first three, seven or ten.
LEMMA LevelsAreFirst ==
    ASSUME NEW level \in 1 .. 3
    PROVE  /\ LevelRequirements[level] = SubSeq(Requirements, 1, Len(LevelRequirements[level]))
           /\ Len(LevelRequirements[level]) = <<3, 7, 10>>[level]
           /\ DOMAIN LevelRequirements[level] = 1 .. Len(LevelRequirements[level])
           /\ \A i \in 1 .. Len(LevelRequirements[level]) :
                  LevelRequirements[level][i] = Requirements[i]
<1> DEFINE n == <<3, 7, 10>>[level]
           S == {Requirements[i] : i \in 1 .. 10}
<1>1. n \in 1 .. 10
  OBVIOUS
<1>2. LevelRequirements[level] = SubSeq(Requirements, 1, n)
  BY DEF LevelRequirements
<1> HIDE DEF n
<1>3. /\ SubSeq(Requirements, 1, n) \in Seq(S) /\ Len(SubSeq(Requirements, 1, n)) = n
      /\ \A i \in 1 .. n : SubSeq(Requirements, 1, n)[i] = Requirements[i]
  <2>1. 1 \in Int /\ n \in Int /\ \A i \in 1 .. n : Requirements[i] \in S
    BY <1>1
  <2> HIDE DEF S
  <2>2. /\ SubSeq(Requirements, 1, n) \in Seq(S)
        /\ Len(SubSeq(Requirements, 1, n)) = IF 1 <= n THEN n - 1 + 1 ELSE 0
        /\ \A i \in 1 .. n - 1 + 1 :
              SubSeq(Requirements, 1, n)[i] = Requirements[1 + i - 1]
    BY <2>1, SubSeqProperties
  <2> QED
    BY <1>1, <2>2
<1>4. DOMAIN SubSeq(Requirements, 1, n) = 1 .. n
  BY <1>1, <1>3
<1> QED
  BY <1>2, <1>3, <1>4 DEF n

\* A job begins with the files of the first version, usual or odd, and no document.
LEMMA InitEstablishes == Init => PipelineIInv
<1> SUFFICES ASSUME Init PROVE PipelineIInv
  OBVIOUS
<1> DEFINE first == FilesOf(1)
<1>1. /\ first.artifact = 1 /\ first.package = 101
      /\ first.manifest = [id |-> 201, platforms |-> {"here", "there"}, algorithm |-> "sha256",
                           digests |-> [p \in {"here", "there"} |-> 1]]
      /\ first.sbom.parts = PartsOf({"open"})
      /\ DOMAIN first = {"artifact", "package", "manifest", "sbom"}
      /\ DOMAIN first.sbom = {"id", "parts", "root"}
  BY DEF FilesOf, Bytes, Manifest, Sbom
<1>2. \A m \in OddManifests(first.manifest) :
          /\ m.id = 201 /\ m.platforms \subseteq {"here", "there"}
          /\ DOMAIN m.digests \subseteq {"here", "there"}
  <2> DEFINE m0 == [id |-> 201, platforms |-> {"here", "there"}, algorithm |-> "sha256",
                    digests |-> [p \in {"here", "there"} |-> 1]]
  <2>1. SUFFICES ASSUME NEW m \in OddManifests(m0)
                 PROVE  /\ m.id = 201 /\ m.platforms \subseteq {"here", "there"}
                        /\ DOMAIN m.digests \subseteq {"here", "there"}
    BY <1>1
  <2>2. \/ m = [m0 EXCEPT !.digests = [p \in {"here"} |-> 1]]
        \/ m = [m0 EXCEPT !.digests = [p \in {"there"} |-> 1]]
        \/ m = [m0 EXCEPT !.platforms = {"here"}]
        \/ m = [m0 EXCEPT !.platforms = {"there"}]
        \/ m = [m0 EXCEPT !.digests = <<>>, !.algorithm = "none"]
    BY DEF OddManifests
  <2> DEFINE Odd(x) == /\ x.id = 201 /\ x.platforms \subseteq {"here", "there"}
                       /\ DOMAIN x.digests \subseteq {"here", "there"}
  <2>3. Odd([m0 EXCEPT !.digests = [p \in {"here"} |-> 1]])
    OBVIOUS
  <2>4. Odd([m0 EXCEPT !.digests = [p \in {"there"} |-> 1]])
    OBVIOUS
  <2>5. Odd([m0 EXCEPT !.platforms = {"here"}]) /\ Odd([m0 EXCEPT !.platforms = {"there"}])
    OBVIOUS
  <2>6. Odd([m0 EXCEPT !.digests = <<>>, !.algorithm = "none"])
    OBVIOUS
  <2>7. Odd(m)
    <3> HIDE DEF Odd, m0
    <3> QED
      BY <2>2, <2>3, <2>4, <2>5, <2>6
  <2> QED
    BY <2>7
<1> HIDE DEF first
<1>3. /\ files.artifact = 1
      /\ DOMAIN files = {"artifact", "package", "manifest", "sbom"}
      /\ files.manifest = first.manifest \/ files.manifest \in OddManifests(first.manifest)
      /\ files.sbom.parts \in {PartsOf({"open"})} \union OddParts
  <2>1. \/ files = first
        \/ \E p \in OddParts : files = [first EXCEPT !.sbom.parts = p]
        \/ \E m \in OddManifests(first.manifest) : files = [first EXCEPT !.manifest = m]
    BY DEF Init, first
  <2> QED
    BY <1>1, <2>1
<1>4. FilesInv
  BY <1>1, <1>2, <1>3 DEF Init, FilesInv, SubjectOf
<1>5. BenchInv /\ DocsInv /\ ReportInv
  BY DEF Init, BenchInv, DocsInv, ReportInv
<1> QED
  BY <1>4, <1>5 DEF PipelineIInv

\* A changed manifest has an id that no document names yet.
LEMMA ChangedFiles ==
    ASSUME FilesInv, NEW g \in ChangesOf(files, changes + 2)
    PROVE  /\ DOMAIN g = {"artifact", "package", "manifest", "sbom"}
           /\ g.artifact \in {files.artifact, changes + 2}
           /\ g.sbom.parts \in {files.sbom.parts, PartsOf({"open"})}
           /\ \/ g.manifest = files.manifest
              \/ /\ g.manifest.id = changes + 202
                 /\ g.manifest.platforms = {"here", "there"}
                 /\ DOMAIN g.manifest.digests = {"here", "there"}
<1> DEFINE v == changes + 2
           Changed(h) ==
               /\ DOMAIN h = {"artifact", "package", "manifest", "sbom"}
               /\ h.artifact \in {files.artifact, v}
               /\ h.sbom.parts \in {files.sbom.parts, PartsOf({"open"})}
               /\ \/ h.manifest = files.manifest
                  \/ /\ h.manifest.id = changes + 202
                     /\ h.manifest.platforms = {"here", "there"}
                     /\ DOMAIN h.manifest.digests = {"here", "there"}
<1>1. /\ v \in Nat /\ changes \in Nat
      /\ DOMAIN files = {"artifact", "package", "manifest", "sbom"}
  BY DEF FilesInv
<1>2. /\ Bytes("executable", v) = v /\ Bytes("package", v) = 100 + v
      /\ Bytes("manifest", v) = changes + 202 /\ Bytes("sbom", v) = 300 + v
  BY <1>1 DEF Bytes
<1>3. \A a, b, c : /\ Sbom(a, b, c).parts = PartsOf({"open"})
                   /\ Manifest(a, b).id = a /\ Manifest(a, b).platforms = {"here", "there"}
                   /\ DOMAIN Manifest(a, b).digests = {"here", "there"}
  BY DEF Sbom, Manifest
<1>4. Changed(FilesOf(v))
  BY <1>1, <1>2, <1>3 DEF FilesOf
<1>5. Changed([files EXCEPT !.artifact = Bytes("executable", v)])
  BY <1>1, <1>2
<1>6. Changed([files EXCEPT !.package = Bytes("package", v)])
  BY <1>1
<1>7. Changed([files EXCEPT !.manifest = Manifest(Bytes("manifest", v), files.artifact)])
  BY <1>1, <1>2, <1>3
<1>8. Changed([files EXCEPT !.sbom = Sbom(Bytes("sbom", v), files.artifact, files.package)])
  BY <1>1, <1>3
<1>9. Changed(g)
  <2> HIDE DEF Changed
  <2> QED
    BY <1>4, <1>5, <1>6, <1>7, <1>8 DEF ChangesOf
<1> QED
  BY <1>9

\* What the workbench ran stays a fixture.
LEMMA BenchStays ==
    ASSUME BenchInv, bench' = bench
    PROVE  BenchInv'
BY ZenonT(60) DEF BenchInv

\* What is known of the files stays known while they, the job's subject and the changes do.
LEMMA FilesStay ==
    ASSUME FilesInv, files' = files, subject' = subject, changes' = changes
    PROVE  FilesInv'
BY ZenonT(60) DEF FilesInv

\* A report and its envelope stay those of documents while neither changes.
LEMMA ReportStays ==
    ASSUME ReportInv, report' = report, envelope' = envelope
    PROVE  ReportInv'
BY ZenonT(60) DEF ReportInv

\* A change gives what it changes a version it never had, so that no document is about it yet.
LEMMA ChangeFilesKeeps == PipelineIInv /\ ChangeFiles => PipelineIInv'
<1> SUFFICES ASSUME PipelineIInv, ChangeFiles PROVE PipelineIInv'
  OBVIOUS
<1>1. /\ changes' = changes + 1 /\ files' \in ChangesOf(files, changes + 2)
      /\ UNCHANGED <<subject, bench, docs, reruns, report, envelope>>
  BY DEF ChangeFiles
<1>2. FilesInv /\ BenchInv /\ DocsInv /\ ReportInv
  BY DEF PipelineIInv
<1>3. /\ DOMAIN files' = {"artifact", "package", "manifest", "sbom"}
      /\ files'.artifact \in {files.artifact, changes + 2}
      /\ files'.sbom.parts \in {files.sbom.parts, PartsOf({"open"})}
      /\ \/ files'.manifest = files.manifest
         \/ /\ files'.manifest.id = changes + 202
            /\ files'.manifest.platforms = {"here", "there"}
            /\ DOMAIN files'.manifest.digests = {"here", "there"}
  BY <1>1, <1>2, ChangedFiles
<1>4. FilesInv'
  BY <1>1, <1>2, <1>3 DEF FilesInv
<1>5. DocsInv'
  <2>1. ASSUME NEW i \in DOMAIN docs
        PROVE  /\ docs[i].made.manifest \in 201 .. 201 + changes'
               /\ SameLists(docs[i].made, Versions(files'))
    <3>1. /\ docs[i].made.manifest \in 201 .. 201 + changes /\ changes \in Nat
          /\ SameLists(docs[i].made, Versions(files))
      BY <1>2 DEF DocsInv, FilesInv
    <3>2. docs[i].made.manifest \in 201 .. 201 + changes'
      BY <1>1, <3>1
    <3>3. CASE files'.manifest = files.manifest
      BY <3>1, <3>2, <3>3 DEF SameLists, Versions
    <3>4. CASE files'.manifest.id = changes + 202
      BY <3>1, <3>2, <3>4 DEF SameLists, Versions
    <3> QED
      BY <1>3, <3>3, <3>4
  <2>2. changes' # 0
    BY <1>1, <1>2 DEF FilesInv
  <2>3. docs' = docs
    BY <1>1
  <2>4. Len(docs) \in 0 .. 10 /\ docs = [i \in 1 .. Len(docs) |-> docs[i]]
    BY <1>2 DEF DocsInv
  <2>5. \A i \in DOMAIN docs : docs[i].doc.requirement = Requirements[i] /\ DocInv(docs[i])
    BY <1>2 DEF DocsInv
  <2>6. \A i, j \in DOMAIN docs : SameLists(docs[i].made, docs[j].made)
    BY <1>2 DEF DocsInv
  <2> QED
    BY <2>1, <2>2, <2>3, <2>4, <2>5, <2>6, ZenonT(60) DEF DocsInv
<1>6. BenchInv' /\ ReportInv'
  BY <1>1, <1>2, BenchStays, ReportStays
<1> QED
  BY <1>4, <1>5, <1>6 DEF PipelineIInv

\* What is known of the documents stays known while nothing of it changes.
LEMMA DocsStay ==
    ASSUME DocsInv, UNCHANGED <<files, subject, docs, changes>>
    PROVE  DocsInv'
<1>1. docs' = docs /\ files' = files /\ subject' = subject /\ changes' = changes
  OBVIOUS
<1>2. Len(docs') \in 0 .. 10 /\ docs' = [i \in 1 .. Len(docs') |-> docs'[i]]
  BY <1>1 DEF DocsInv
<1>3. \A i \in DOMAIN docs :
          /\ docs[i].doc.requirement = Requirements[i] /\ DocInv(docs[i])
          /\ docs[i].made.manifest \in 201 .. 201 + changes
          /\ SameLists(docs[i].made, Versions(files))
          /\ changes = 0 => docs[i].made = Versions(files) /\ docs[i].doc.subject = subject
  BY DEF DocsInv
<1>4. \A i, j \in DOMAIN docs : SameLists(docs[i].made, docs[j].made)
  BY DEF DocsInv
<1>5. \A i \in DOMAIN docs' :
          /\ docs'[i].doc.requirement = Requirements[i] /\ DocInv(docs'[i])
          /\ docs'[i].made.manifest \in 201 .. 201 + changes'
          /\ SameLists(docs'[i].made, Versions(files'))
          /\ changes' = 0 => docs'[i].made = Versions(files') /\ docs'[i].doc.subject = subject'
  BY <1>1, <1>3
<1>6. \A i, j \in DOMAIN docs' : SameLists(docs'[i].made, docs'[j].made)
  BY <1>1, <1>4
<1> QED
  BY <1>2, <1>5, <1>6, Zenon DEF DocsInv

\* A subject read from the files again leaves the documents that were made for the old one.
LEMMA RestartKeeps == PipelineIInv /\ Restart => PipelineIInv'
<1> SUFFICES ASSUME PipelineIInv, Restart PROVE PipelineIInv'
  OBVIOUS
<1>1. /\ subject # SubjectOf(files) /\ subject' = SubjectOf(files)
      /\ UNCHANGED <<files, bench, docs, changes, reruns, report, envelope>>
  BY DEF Restart
<1>2. FilesInv /\ BenchInv /\ DocsInv /\ ReportInv
  BY DEF PipelineIInv
<1>3. changes # 0
  BY <1>1, <1>2 DEF FilesInv
<1>4. FilesInv'
  BY <1>1, <1>2, <1>3 DEF FilesInv, SubjectOf
<1>5. DocsInv'
  BY <1>1, <1>2, <1>3, ZenonT(60) DEF DocsInv
<1>6. BenchInv' /\ ReportInv'
  BY <1>1, <1>2, BenchStays, ReportStays
<1> QED
  BY <1>4, <1>5, <1>6 DEF PipelineIInv

\* bench_plugin judges a valid fixture by the answer of the plugin alone.
LEMMA ExchangeKeeps == PipelineIInv /\ Exchange => PipelineIInv'
<1> SUFFICES ASSUME PipelineIInv, Exchange PROVE PipelineIInv'
  OBVIOUS
<1>1. UNCHANGED <<files, subject, docs, changes, reruns, report, envelope>>
  BY DEF Exchange
<1>2. FilesInv /\ DocsInv /\ ReportInv
  BY DEF PipelineIInv
<1>3. FilesInv' /\ DocsInv' /\ ReportInv'
  <2>1. FilesInv' /\ ReportInv'
    BY <1>1, <1>2 DEF FilesInv, ReportInv
  <2>2. DocsInv'
    BY <1>1, <1>2, DocsStay
  <2> QED
    BY <2>1, <2>2
<1>4. BenchInv'
  <2>1. PICK fixture \in [name : CaseNames, raw : 0 .. MaxBytes, golden : 0 .. MaxBytes,
                         action : Actions],
             answer \in [content : 0 .. MaxBytes, action : Actions] :
             /\ FixtureIsValid(fixture)
             /\ bench' = [fixture |-> fixture, answer |-> answer,
                          verdict |-> IF BenchMatches(fixture, answer) THEN "accepted"
                                                                       ELSE "rejected"]
    BY DEF Exchange
  <2>2. /\ fixture = [name |-> fixture.name, raw |-> fixture.raw, golden |-> fixture.golden,
                       action |-> fixture.action]
        /\ fixture.name \in CaseNames
        /\ fixture.raw \in 0 .. MaxBytes /\ fixture.golden \in 0 .. MaxBytes
        /\ fixture.action \in Actions
    OBVIOUS
  <2>3. /\ answer = [content |-> answer.content, action |-> answer.action]
        /\ answer.content \in 0 .. MaxBytes /\ answer.action \in Actions
    OBVIOUS
  <2> DEFINE name == fixture.name
             raw == fixture.raw
             golden == fixture.golden
             a == fixture.action
             content == answer.content
             b == answer.action
  <2>4. /\ fixture = [name |-> name, raw |-> raw, golden |-> golden, action |-> a]
        /\ answer = [content |-> content, action |-> b]
    BY <2>2, <2>3
  <2>5. LET f == [name |-> name, raw |-> raw, golden |-> golden, action |-> a]
            given == [content |-> content, action |-> b]
        IN  /\ FixtureIsValid(f)
            /\ bench' = [fixture |-> f, answer |-> given,
                         verdict |-> IF BenchMatches(f, given) THEN "accepted" ELSE "rejected"]
    BY <2>1, <2>4
  <2>6. /\ name \in CaseNames /\ raw \in 0 .. MaxBytes /\ golden \in 0 .. MaxBytes /\ a \in Actions
        /\ content \in 0 .. MaxBytes /\ b \in Actions
    BY <2>2, <2>3
  <2> HIDE DEF name, raw, golden, a, content, b
  <2> QED
    BY <2>5, <2>6 DEF BenchInv
<1> QED
  BY <1>3, <1>4 DEF PipelineIInv

\* A document of the stage for its place can be added, or take the place of one.
LEMMA DocsMayChange ==
    ASSUME PipelineIInv, NEW n \in 1 .. 10, NEW k \in 1 .. n,
           NEW x \in StageDocuments(Requirements[k]),
           \A i \in 1 .. n : i # k => i \in DOMAIN docs,
           docs' = [i \in 1 .. n |-> IF i = k THEN x ELSE docs[i]],
           UNCHANGED <<files, subject, changes>>
    PROVE  DocsInv'
<1>1. /\ x.doc.requirement = Requirements[k] /\ x.doc.subject = subject
      /\ x.made = Versions(files) /\ DocInv(x)
  BY DocumentsAreSound DEF PipelineIInv
<1>2. /\ Versions(files).manifest \in 201 .. 201 + changes
      /\ changes = 0 => SubjectOf(files) = subject
  BY DEF PipelineIInv, FilesInv, Versions
<1>3. DOMAIN docs' = 1 .. n /\ \A i \in 1 .. n : docs'[i] = IF i = k THEN x ELSE docs[i]
  OBVIOUS
<1>4. Len(docs') = n
  BY <1>3
<1>5. Len(docs') \in 0 .. 10 /\ docs' = [i \in 1 .. Len(docs') |-> docs'[i]]
  BY <1>3, <1>4
<1>6. \A i \in 1 .. n \ {k} :
          /\ docs[i].doc.requirement = Requirements[i] /\ DocInv(docs[i])
          /\ docs[i].made.manifest \in 201 .. 201 + changes
          /\ SameLists(docs[i].made, Versions(files))
          /\ changes = 0 => docs[i].made = Versions(files) /\ docs[i].doc.subject = subject
  BY DEF PipelineIInv, DocsInv
<1>7. \A i, j \in 1 .. n \ {k} : SameLists(docs[i].made, docs[j].made)
  BY DEF PipelineIInv, DocsInv
<1>8. \A i \in DOMAIN docs' :
          /\ docs'[i].doc.requirement = Requirements[i] /\ DocInv(docs'[i])
          /\ docs'[i].made.manifest \in 201 .. 201 + changes
          /\ SameLists(docs'[i].made, Versions(files))
          /\ changes = 0 => docs'[i].made = Versions(files) /\ docs'[i].doc.subject = subject
  <2>1. SameLists(Versions(files), Versions(files))
    BY DEF SameLists
  <2>2. ASSUME NEW i \in 1 .. n
        PROVE  /\ docs'[i].doc.requirement = Requirements[i] /\ DocInv(docs'[i])
               /\ docs'[i].made.manifest \in 201 .. 201 + changes
               /\ SameLists(docs'[i].made, Versions(files))
               /\ changes = 0 => /\ docs'[i].made = Versions(files)
                                 /\ docs'[i].doc.subject = subject
    <3>1. CASE i = k
      <4>1. docs'[i] = x
        BY <1>3, <3>1
      <4> QED
        BY <1>1, <1>2, <2>1, <3>1, <4>1
    <3>2. CASE i # k
      <4>1. docs'[i] = docs[i] /\ i \in 1 .. n \ {k}
        BY <1>3, <3>2
      <4> QED
        BY <1>6, <4>1
    <3> QED
      BY <3>1, <3>2
  <2> QED
    BY <1>3, <2>2
<1>9. \A i, j \in DOMAIN docs' : SameLists(docs'[i].made, docs'[j].made)
  <2>1. ASSUME NEW i \in 1 .. n, NEW j \in 1 .. n
        PROVE  SameLists(docs'[i].made, docs'[j].made)
    <3>1. CASE i = k /\ j = k
      BY <1>3, <3>1 DEF SameLists
    <3>2. CASE i # k /\ j = k
      BY <1>1, <1>3, <1>6, <3>2
    <3>3. CASE i = k /\ j # k
      <4>1. SameLists(docs'[j].made, docs'[i].made)
        BY <1>1, <1>3, <1>6, <3>3
      <4> QED
        BY <4>1 DEF SameLists
    <3>4. CASE i # k /\ j # k
      BY <1>3, <1>7, <3>4
    <3> QED
      BY <3>1, <3>2, <3>3, <3>4
  <2> QED
    BY <1>3, <2>1
<1>10. files' = files /\ subject' = subject /\ changes' = changes
  OBVIOUS
<1>11. \A i \in DOMAIN docs' :
          /\ docs'[i].doc.requirement = Requirements[i] /\ DocInv(docs'[i])
          /\ docs'[i].made.manifest \in 201 .. 201 + changes'
          /\ SameLists(docs'[i].made, Versions(files'))
          /\ changes' = 0 => docs'[i].made = Versions(files') /\ docs'[i].doc.subject = subject'
  BY <1>8, <1>10
<1> QED
  BY <1>5, <1>9, <1>11, Zenon DEF DocsInv

\* A stage adds the document of the next requirement, earned or failed, about the files of now.
LEMMA RunStageKeeps == PipelineIInv /\ RunStage => PipelineIInv'
<1> SUFFICES ASSUME PipelineIInv, RunStage PROVE PipelineIInv'
  OBVIOUS
<1>1. /\ bench' = Idle /\ Len(docs) < Len(Requirements)
      /\ UNCHANGED <<files, subject, changes, reruns, report, envelope>>
  BY DEF RunStage
<1>2. PICK x \in StageDocuments(Requirements[Len(docs) + 1]) : docs' = Append(docs, x)
  BY DEF RunStage
<1>3. Len(docs) \in 0 .. 10 /\ DOMAIN docs = 1 .. Len(docs)
  BY DEF PipelineIInv, DocsInv
<1>4. Len(docs) + 1 \in 1 .. 10
  BY <1>1, <1>3 DEF Requirements
<1>5. docs' = [i \in 1 .. Len(docs) + 1 |-> IF i = Len(docs) + 1 THEN x ELSE docs[i]]
  <2> DEFINE T == {docs[i] : i \in DOMAIN docs} \union {x}
  <2>1. docs \in Seq(T) /\ x \in T
    <3>1. docs = [i \in 1 .. Len(docs) |-> docs[i]] /\ \A i \in 1 .. Len(docs) : docs[i] \in T
      BY <1>3 DEF PipelineIInv, DocsInv
    <3> HIDE DEF T
    <3>2. docs \in Seq(T)
      BY <1>3, <3>1
    <3> QED
      BY <3>2 DEF T
  <2> HIDE DEF T
  <2>2. /\ docs' \in Seq(T) /\ Len(docs') = Len(docs) + 1
        /\ \A i \in 1 .. Len(docs) : docs'[i] = docs[i]
        /\ docs'[Len(docs) + 1] = x
    BY <1>2, <2>1, AppendProperties
  <2> QED
    BY <1>3, <2>2
<1>6. DocsInv'
  <2> DEFINE n == Len(docs) + 1
  <2>1. n \in 1 .. 10 /\ n \in 1 .. n /\ x \in StageDocuments(Requirements[n])
    BY <1>2, <1>4
  <2>2. \A i \in 1 .. n : i # n => i \in DOMAIN docs
    BY <1>3
  <2>3. docs' = [i \in 1 .. n |-> IF i = n THEN x ELSE docs[i]]
    BY <1>5
  <2> HIDE DEF n
  <2> QED
    BY <1>1, <2>1, <2>2, <2>3, DocsMayChange
<1>7. FilesInv' /\ BenchInv' /\ ReportInv'
  BY <1>1 DEF PipelineIInv, FilesInv, BenchInv, ReportInv
<1> QED
  BY <1>6, <1>7 DEF PipelineIInv

\* A stage that is run again replaces its document by one that is about the files of now.
LEMMA RunAgainKeeps == PipelineIInv /\ RunAgain => PipelineIInv'
<1> SUFFICES ASSUME PipelineIInv, RunAgain PROVE PipelineIInv'
  OBVIOUS
<1>1. UNCHANGED <<files, subject, bench, changes, report, envelope>>
  BY DEF RunAgain
<1>2. PICK k \in DOMAIN docs : \E x \in StageDocuments(Requirements[k]) :
              docs' = [docs EXCEPT ![k] = x]
  BY DEF RunAgain
<1>3. PICK x \in StageDocuments(Requirements[k]) : docs' = [docs EXCEPT ![k] = x]
  BY <1>2
<1>4. Len(docs) \in 0 .. 10 /\ DOMAIN docs = 1 .. Len(docs)
  BY DEF PipelineIInv, DocsInv
<1>5. docs' = [i \in 1 .. Len(docs) |-> IF i = k THEN x ELSE docs[i]]
  BY <1>3, <1>4
<1>6. DocsInv'
  <2> DEFINE n == Len(docs)
  <2>1. n \in 1 .. 10 /\ k \in 1 .. n /\ 1 .. n = DOMAIN docs
    <3>1. n \in 0 .. 10 /\ DOMAIN docs = 1 .. n
      BY <1>4
    <3> HIDE DEF n
    <3>2. k \in 1 .. n
      BY <3>1
    <3> QED
      BY <3>1, <3>2
  <2>2. docs' = [i \in 1 .. n |-> IF i = k THEN x ELSE docs[i]]
    BY <1>5
  <2> HIDE DEF n
  <2> QED
    BY <1>1, <2>1, <2>2, DocsMayChange
<1>7. FilesInv' /\ BenchInv' /\ ReportInv'
  BY <1>1, FilesStay, BenchStays, ReportStays DEF PipelineIInv
<1> QED
  BY <1>6, <1>7 DEF PipelineIInv

\* A list of n of the job's documents, and the same list without what is remembered beside them.
ListsDocs(list, n) ==
    /\ DOMAIN list = 1 .. n /\ Len(list) = n
    /\ \A k \in 1 .. n : \E l \in DOMAIN docs : list[k] = docs[l]
    /\ DOMAIN Bare(list) = 1 .. n /\ Len(Bare(list)) = n
    /\ \A k \in 1 .. n : Bare(list)[k] = list[k].doc

\* The job's first documents, with one of them in the place of another, are such a list.
LEMMA ListOfDocs ==
    ASSUME DocsInv, NEW n \in 2 .. Len(docs), NEW i \in 1 .. n, NEW j \in DOMAIN docs
    PROVE  ListsDocs([SubSeq(docs, 1, n) EXCEPT ![i] = docs[j]], n)
<1> DEFINE list == [SubSeq(docs, 1, n) EXCEPT ![i] = docs[j]]
           T == {docs[k] : k \in DOMAIN docs}
<1>1. Len(docs) \in 0 .. 10 /\ DOMAIN docs = 1 .. Len(docs)
  BY DEF DocsInv
<1>2. 1 \in Int /\ n \in Int /\ n >= 2 /\ \A k \in 1 .. n : docs[k] \in T
  BY <1>1
<1> HIDE DEF T
<1>3. /\ SubSeq(docs, 1, n) \in Seq(T)
      /\ Len(SubSeq(docs, 1, n)) = IF 1 <= n THEN n - 1 + 1 ELSE 0
      /\ \A k \in 1 .. n - 1 + 1 : SubSeq(docs, 1, n)[k] = docs[1 + k - 1]
  BY <1>2, SubSeqProperties
<1>4. /\ DOMAIN SubSeq(docs, 1, n) = 1 .. n
      /\ \A k \in 1 .. n : SubSeq(docs, 1, n)[k] = docs[k]
  BY <1>2, <1>3
<1>5. DOMAIN list = 1 .. n /\ \A k \in 1 .. n : list[k] = IF k = i THEN docs[j] ELSE docs[k]
  BY <1>4
<1>6. Bare(list) = [k \in 1 .. n |-> list[k].doc]
  BY <1>5 DEF Bare
<1>7. \A s : DOMAIN s = 1 .. n => Len(s) = n
  BY <1>2
<1>8. DOMAIN Bare(list) = 1 .. n /\ \A k \in 1 .. n : Bare(list)[k] = list[k].doc
  BY <1>6
<1>9. \A k \in 1 .. n : k \in DOMAIN docs
  BY <1>1, <1>2
<1> HIDE DEF list
<1> QED
  BY <1>5, <1>7, <1>8, <1>9 DEF ListsDocs, list

\* assemble_certification_report takes only a whole list of documents that are bound together.
LEMMA AssembleKeeps == PipelineIInv /\ Assemble => PipelineIInv'
<1> SUFFICES ASSUME PipelineIInv, Assemble PROVE PipelineIInv'
  OBVIOUS
<1>1. UNCHANGED <<files, subject, bench, docs, changes, reruns, envelope>>
  BY DEF Assemble
<1>2. PICK level \in 1 .. 3, n \in 2 .. Len(docs) : \E i \in 1 .. n, j \in DOMAIN docs :
          LET list == [SubSeq(docs, 1, n) EXCEPT ![i] = docs[j]] IN
          /\ Assembles(level, Bare(list))
          /\ report' = [level |-> level, subject |-> subject, checks |-> list,
                        ok |-> \A c \in DOMAIN list : list[c].doc.ok]
  BY DEF Assemble
<1>3. PICK i \in 1 .. n, j \in DOMAIN docs :
          LET list == [SubSeq(docs, 1, n) EXCEPT ![i] = docs[j]] IN
          /\ Assembles(level, Bare(list))
          /\ report' = [level |-> level, subject |-> subject, checks |-> list,
                        ok |-> \A c \in DOMAIN list : list[c].doc.ok]
  BY <1>2
<1> DEFINE list == [SubSeq(docs, 1, n) EXCEPT ![i] = docs[j]]
<1>4. /\ Assembles(level, Bare(list))
      /\ report' = [level |-> level, subject |-> subject, checks |-> list,
                    ok |-> \A c \in DOMAIN list : list[c].doc.ok]
  BY <1>3
<1>5. ListsDocs(list, n)
  BY ListOfDocs DEF PipelineIInv
<1> HIDE DEF list
<1>6. /\ Len(LevelRequirements[level]) = n /\ n \in {3, 7, 10}
      /\ \A k \in 1 .. n : LevelRequirements[level][k] = Requirements[k]
  <2>1. Len(LevelRequirements[level]) = n
    BY <1>4, <1>5 DEF Assembles, ListsDocs
  <2>2. <<3, 7, 10>>[level] \in {3, 7, 10}
    OBVIOUS
  <2> QED
    BY <2>1, <2>2, LevelsAreFirst
<1>7. ASSUME NEW k \in 1 .. n
      PROVE  /\ list[k].doc.requirement = Requirements[k] /\ DocInv(list[k])
             /\ StageIsValid(list[k].doc, subject)
  <2>1. DocInv(list[k])
    BY <1>5 DEF PipelineIInv, DocsInv, ListsDocs
  <2>2. list[k].doc.requirement = Requirements[k] /\ StageIsValid(list[k].doc, subject)
    BY <1>4, <1>5, <1>6 DEF Assembles, ListsDocs
  <2> QED
    BY <2>1, <2>2
<1>8. \A k, l \in 1 .. n : SameLists(list[k].made, list[l].made)
  BY <1>5 DEF PipelineIInv, DocsInv, ListsDocs
<1>9. CrossBound(Bare(list))
  BY <1>4 DEF Assembles
<1>10. /\ report' = [level |-> report'.level, subject |-> report'.subject,
                     checks |-> report'.checks, ok |-> report'.ok]
       /\ report'.level = level /\ report'.subject = subject /\ report'.checks = list
  BY <1>4
<1>11. ChecksInv(report')
  BY <1>5, <1>6, <1>7, <1>8, <1>9, <1>10 DEF ChecksInv, ListsDocs
<1>12. ReportInv'
  BY <1>1, <1>11 DEF PipelineIInv, ReportInv
<1>13. FilesInv' /\ BenchInv' /\ DocsInv'
  <2>1. FilesInv'
    BY <1>1 DEF PipelineIInv, FilesInv
  <2>2. BenchInv'
    BY <1>1, BenchStays DEF PipelineIInv
  <2> QED
    BY <1>1, <2>1, <2>2, DocsStay DEF PipelineIInv
<1> QED
  BY <1>12, <1>13 DEF PipelineIInv

\* The issuer signs no report but one that has succeeded.
LEMMA IssueKeeps == PipelineIInv /\ Issue => PipelineIInv'
<1> SUFFICES ASSUME PipelineIInv, Issue PROVE PipelineIInv'
  OBVIOUS
<1>1. UNCHANGED <<files, subject, bench, docs, changes, reruns, report>> /\ report # None
  BY DEF Issue
<1>2. PICK r \in {report, [report EXCEPT !.ok = TRUE]}
               \union {[report EXCEPT !.level = level] : level \in 1 .. 3} :
          ReportSucceeds(r) /\ envelope' = r
  BY DEF Issue
<1>3. ChecksInv(report)
  BY <1>1 DEF PipelineIInv, ReportInv
<1> DEFINE l == report.level
           s == report.subject
           c == report.checks
           ok == report.ok
<1>4. report = [level |-> l, subject |-> s, checks |-> c, ok |-> ok] /\ l \in 1 .. 3
  BY <1>3 DEF ChecksInv
<1>5. \E level \in 1 .. 3 : \E o : r = [level |-> level, subject |-> s, checks |-> c, ok |-> o]
  <2> HIDE DEF l, s, c, ok
  <2>1. CASE r = report
    BY <1>4, <2>1
  <2>2. CASE r = [report EXCEPT !.ok = TRUE]
    <3>1. r = [level |-> l, subject |-> s, checks |-> c, ok |-> TRUE]
      BY <1>4, <2>2
    <3> QED
      BY <1>4, <3>1
  <2>3. ASSUME NEW level \in 1 .. 3, r = [report EXCEPT !.level = level]
        PROVE  \E m \in 1 .. 3 : \E o : r = [level |-> m, subject |-> s, checks |-> c, ok |-> o]
    <3>1. r = [level |-> level, subject |-> s, checks |-> c, ok |-> ok]
      BY <1>4, <2>3
    <3> QED
      BY <3>1
  <2> QED
    BY <2>1, <2>2, <2>3
<1>6. /\ r = [level |-> r.level, subject |-> r.subject, checks |-> r.checks, ok |-> r.ok]
      /\ r.level \in 1 .. 3 /\ r.subject = s /\ r.checks = c
  <2> HIDE DEF s, c
  <2> QED
    BY <1>5
<1>7. ChecksInv(r)
  BY <1>3, <1>6 DEF ChecksInv
<1>8. ReportInv'
  BY <1>1, <1>2, <1>3, <1>7 DEF ReportInv
<1>9. FilesInv' /\ BenchInv' /\ DocsInv'
  <2>1. FilesInv'
    BY <1>1 DEF PipelineIInv, FilesInv
  <2>2. BenchInv'
    BY <1>1, BenchStays DEF PipelineIInv
  <2> QED
    BY <1>1, <2>1, <2>2, DocsStay DEF PipelineIInv
<1> QED
  BY <1>8, <1>9 DEF PipelineIInv

\* The documents of a job name the files their stages were given, each place its own stage, and
\* a report and its envelope are of such documents bound to one subject.
THEOREM PipelineInvariance == Spec => []PipelineIInv
<1>1. PipelineIInv /\ [Next]_pipelineVars => PipelineIInv'
  <2>1. PipelineIInv /\ UNCHANGED pipelineVars => PipelineIInv'
    <3> SUFFICES ASSUME PipelineIInv, UNCHANGED pipelineVars PROVE PipelineIInv'
      OBVIOUS
    <3>1. DocsInv'
      BY DocsStay DEF PipelineIInv, pipelineVars
    <3>2. FilesInv' /\ BenchInv' /\ ReportInv'
      BY FilesStay, BenchStays, ReportStays DEF PipelineIInv, pipelineVars
    <3> QED
      BY <3>1, <3>2 DEF PipelineIInv
  <2> QED
    BY <2>1, ChangeFilesKeeps, RestartKeeps, ExchangeKeeps, RunStageKeeps, RunAgainKeeps,
       AssembleKeeps, IssueKeeps DEF Next
<1> QED
  BY <1>1, InitEstablishes, PTL DEF Spec

\* A stage passes exactly when its evidence earns it, whatever is changed or run again.
THEOREM PassesAreEarned == Spec => []PassIsEarned
<1>1. PipelineIInv => PassIsEarned
  BY DEF PipelineIInv, DocsInv, DocInv, PassIsEarned
<1> QED
  BY <1>1, PipelineInvariance, PTL

\* What the documents of one subject, in their places, say of its files.
LEMMA ChecksAreOneRelease ==
    ASSUME NEW r, ChecksInv(r), ReportSucceeds(r)
    PROVE  /\ Len(r.checks) = Len(LevelRequirements[r.level])
           /\ \A i \in DOMAIN r.checks : r.checks[i].earned
           /\ OneRelease(r)
<1> DEFINE n == Len(r.checks)
           s == r.subject
           made(i) == r.checks[i].made
<1>1. /\ n \in {3, 7, 10} /\ DOMAIN r.checks = 1 .. n /\ r.level \in 1 .. 3
      /\ \A i \in 1 .. n : /\ r.checks[i].doc.requirement = Requirements[i]
                           /\ DocInv(r.checks[i]) /\ StageIsValid(r.checks[i].doc, s)
                           /\ r.checks[i].doc.ok
      /\ \A i, j \in 1 .. n : SameLists(made(i), made(j))
  BY DEF ChecksInv, ReportSucceeds
<1>2. Len(LevelRequirements[r.level]) = n
  <2>1. DOMAIN LevelRequirements[r.level] = 1 .. n
    BY <1>1 DEF ReportSucceeds
  <2>2. /\ DOMAIN LevelRequirements[r.level] = 1 .. Len(LevelRequirements[r.level])
        /\ Len(LevelRequirements[r.level]) = <<3, 7, 10>>[r.level]
    BY <1>1, LevelsAreFirst
  <2>3. <<3, 7, 10>>[r.level] \in Nat
    BY <1>1
  <2>4. \A m, k \in Nat : 1 .. m = 1 .. k => m = k
    <3>1. ASSUME NEW m \in Nat, NEW k \in Nat, 1 .. m = 1 .. k PROVE m = k
      <4>1. m > 0 => m \in 1 .. k
        BY <3>1
      <4>2. k > 0 => k \in 1 .. m
        BY <3>1
      <4> QED
        BY <4>1, <4>2
    <3> QED
      BY <3>1
  <2> QED
    BY <1>1, <2>1, <2>2, <2>3, <2>4
<1>3. \A i \in 1 .. n : r.checks[i].earned
  BY <1>1 DEF DocInv
<1>4. ASSUME NEW i \in 1 .. n
      PROVE  /\ Requirements[i] \in {"lifecycle", "safety", "benchmark", "fuzzing", "signature"}
                    => made(i).artifact = s.artifact
             /\ Requirements[i] \in {"reproducible", "sbom"} => made(i).package = s.package
  <2> DEFINE d == r.checks[i].doc
  <2>1. d.requirement = Requirements[i] /\ d.subject = s /\ SubjectBound(d, s)
    BY <1>1 DEF StageIsValid
  <2>2. /\ d.requirement \in {"lifecycle", "safety"} => d.inputs[1] = made(i).artifact
        /\ d.requirement \in {"benchmark", "fuzzing", "signature"}
               => made(i).artifact = d.subject.artifact
        /\ d.requirement \in {"reproducible", "sbom"} => made(i).package = d.subject.package
    BY <1>1 DEF DocInv
  <2>3. d.requirement \in {"lifecycle", "safety"} => d.inputs[1] = s.artifact
    BY <2>1 DEF SubjectBound
  <2> HIDE DEF d, made
  <2> QED
    BY <2>1, <2>2, <2>3
<1>5. r.level = 3 => /\ made(1).manifest = made(10).manifest /\ made(8).sbom = made(9).sbom
                    /\ made(1).lists = {s.artifact} /\ s.package \in made(9).hashed
  <2> SUFFICES ASSUME r.level = 3
               PROVE  /\ made(1).manifest = made(10).manifest /\ made(8).sbom = made(9).sbom
                      /\ made(1).lists = {s.artifact} /\ s.package \in made(9).hashed
    OBVIOUS
  <2>1. n = 10
    BY <1>2, LevelsAreFirst
  <2> DEFINE d(i) == r.checks[i].doc
  <2>2. ASSUME NEW i \in {1, 8, 9, 10}
        PROVE  /\ i \in 1 .. n /\ d(i).requirement = Requirements[i] /\ DocInv(r.checks[i])
               /\ d(i).subject = s /\ d(i).ok
    <3>1. i \in 1 .. n
      <4> HIDE DEF n
      <4> QED
        BY <2>1
    <3> QED
      BY <1>1, <3>1 DEF StageIsValid
  <2>3. d(1).requirement = "manifest" /\ d(1).inputs[1] = made(1).manifest
    <3>1. d(1).requirement = "manifest"
      BY <2>2 DEF Requirements
    <3> QED
      BY <2>2, <3>1 DEF DocInv
  <2>4. d(8).requirement = "sbom" /\ d(8).outputs[1] = made(8).sbom
    <3>1. d(8).requirement = "sbom"
      BY <2>2 DEF Requirements
    <3> QED
      BY <2>2, <3>1 DEF DocInv
  <2>5. d(9).requirement = "licenses" /\ d(9).inputs[1] = made(9).sbom
        /\ s.package \in made(9).hashed
    <3>1. d(9).requirement = "licenses"
      BY <2>2 DEF Requirements
    <3> QED
      BY <2>2, <3>1 DEF DocInv
  <2>6. d(10).requirement = "admin" /\ d(10).inputs[1] = made(10).manifest
        /\ made(10).lists = {s.artifact}
    <3>1. d(10).requirement = "admin"
      BY <2>2 DEF Requirements
    <3> QED
      BY <2>2, <3>1 DEF DocInv
  <2>7. d(10).inputs[1] = d(1).inputs[1] /\ d(9).inputs[1] = d(8).outputs[1]
    <3>1. CrossBound(Bare(r.checks))
      BY DEF ChecksInv
    <3>2. DOMAIN r.checks = 1 .. 10
      <4> HIDE DEF n
      <4> QED
        BY <1>1, <2>1
    <3>3. Bare(r.checks) = [i \in 1 .. 10 |-> d(i)]
      BY <3>2 DEF Bare
    <3>4. Len(Bare(r.checks)) = Len(Requirements)
      BY <3>3 DEF Requirements
    <3> HIDE DEF d
    <3> QED
      BY <3>1, <3>3, <3>4 DEF CrossBound
  <2>8. SameLists(made(1), made(10))
    BY <1>1, <2>2
  <2> HIDE DEF d, made
  <2> QED
    BY <2>3, <2>4, <2>5, <2>6, <2>7, <2>8 DEF SameLists
<1>6. OneRelease(r)
  <2>1. \A i \in DOMAIN r.checks : [k \in DOMAIN r.checks |-> r.checks[k].made][i] = made(i)
    OBVIOUS
  <2>2. r.level = 3 => {1, 8, 9, 10} \subseteq DOMAIN r.checks
    <3>1. r.level = 3 => n = 10
      BY <1>2, LevelsAreFirst
    <3> HIDE DEF n
    <3> QED
      BY <1>1, <3>1
  <2> QED
    BY <1>1, <1>4, <1>5, <2>1, <2>2 DEF OneRelease
<1> QED
  BY <1>1, <1>2, <1>3, <1>6

\* What is signed was earned by evidence about one release, however the files and the documents
\* came and went while the job ran.
THEOREM SignaturesAreEarned == Spec => []SignedIsEarned
<1>1. PipelineIInv => SignedIsEarned
  BY ChecksAreOneRelease DEF PipelineIInv, ReportInv, SignedIsEarned
<1> QED
  BY <1>1, PipelineInvariance, PTL

\* The documents of a job that nothing disturbed are bound to its subject, and to each other.
LEMMA UndisturbedDocs ==
    ASSUME PipelineIInv, changes = 0, NEW level \in 1 .. 3,
           Len(docs) >= Len(LevelRequirements[level])
    PROVE  Assembles(level, Bare(SubSeq(docs, 1, Len(LevelRequirements[level]))))
<1> DEFINE n == Len(LevelRequirements[level])
           list == SubSeq(docs, 1, n)
           T == {docs[k] : k \in DOMAIN docs}
<1>1. /\ n \in {3, 7, 10} /\ DOMAIN LevelRequirements[level] = 1 .. n
      /\ \A i \in 1 .. n : LevelRequirements[level][i] = Requirements[i]
  <2>1. <<3, 7, 10>>[level] \in {3, 7, 10}
    OBVIOUS
  <2> QED
    BY <2>1, LevelsAreFirst
<1>2. Len(docs) \in 0 .. 10 /\ DOMAIN docs = 1 .. Len(docs) /\ n <= Len(docs)
  BY DEF PipelineIInv, DocsInv
<1> HIDE DEF n
<1>3. DOMAIN list = 1 .. n /\ \A i \in 1 .. n : list[i] = docs[i] /\ i \in DOMAIN docs
  <2>1. 1 \in Int /\ n \in Int /\ n >= 1 /\ \A k \in 1 .. n : docs[k] \in T /\ k \in DOMAIN docs
    BY <1>1, <1>2
  <2> HIDE DEF T
  <2>2. /\ SubSeq(docs, 1, n) \in Seq(T)
        /\ Len(SubSeq(docs, 1, n)) = IF 1 <= n THEN n - 1 + 1 ELSE 0
        /\ \A k \in 1 .. n - 1 + 1 : SubSeq(docs, 1, n)[k] = docs[1 + k - 1]
    BY <2>1, SubSeqProperties
  <2> QED
    BY <2>1, <2>2
<1> HIDE DEF list
<1>4. /\ DOMAIN Bare(list) = 1 .. n /\ Len(Bare(list)) = n
      /\ \A i \in 1 .. n : Bare(list)[i] = docs[i].doc
  BY <1>1, <1>3 DEF Bare
<1>5. ASSUME NEW i \in 1 .. n
      PROVE  /\ docs[i].doc.requirement = Requirements[i] /\ DocInv(docs[i])
             /\ docs[i].made = Versions(files) /\ docs[i].doc.subject = subject
  BY <1>3 DEF PipelineIInv, DocsInv
<1>6. subject = SubjectOf(files)
  BY DEF PipelineIInv, FilesInv
<1>7. ASSUME NEW i \in 1 .. n PROVE StageIsValid(docs[i].doc, subject)
  <2>1. Versions(files).artifact = subject.artifact
    BY <1>6 DEF SubjectOf, Versions
  <2> QED
    BY <1>5, <2>1 DEF StageIsValid, SubjectBound, DocInv
<1>8. CrossBound(Bare(list))
  <2> SUFFICES ASSUME n = 10
               PROVE  /\ docs[10].doc.inputs[1] = docs[1].doc.inputs[1]
                      /\ docs[9].doc.inputs[1] = docs[8].doc.outputs[1]
    BY <1>4 DEF CrossBound, Requirements
  <2>1. \A i \in {1, 8, 9, 10} :
            /\ docs[i].doc.requirement = Requirements[i] /\ DocInv(docs[i])
            /\ docs[i].made = Versions(files)
    <3>1. \A i \in {1, 8, 9, 10} : i \in 1 .. n
      OBVIOUS
    <3> QED
      BY <1>5, <3>1
  <2>2. docs[1].doc.inputs[1] = Versions(files).manifest
    <3>1. docs[1].doc.requirement = "manifest" /\ DocInv(docs[1])
      BY <2>1 DEF Requirements
    <3> QED
      BY <2>1, <3>1 DEF DocInv
  <2>3. docs[10].doc.inputs[1] = Versions(files).manifest
    <3>1. docs[10].doc.requirement = "admin" /\ DocInv(docs[10])
      BY <2>1 DEF Requirements
    <3> QED
      BY <2>1, <3>1 DEF DocInv
  <2>4. docs[8].doc.outputs[1] = Versions(files).sbom
    <3>1. docs[8].doc.requirement = "sbom" /\ DocInv(docs[8])
      BY <2>1 DEF Requirements
    <3> QED
      BY <2>1, <3>1 DEF DocInv
  <2>5. docs[9].doc.inputs[1] = Versions(files).sbom
    <3>1. docs[9].doc.requirement = "licenses" /\ DocInv(docs[9])
      BY <2>1 DEF Requirements
    <3> QED
      BY <2>1, <3>1 DEF DocInv
  <2> QED
    BY <2>2, <2>3, <2>4, <2>5
<1> QED
  BY <1>1, <1>4, <1>5, <1>7, <1>8 DEF Assembles, n, list

\* A job that nothing disturbs is never turned away.
THEOREM UndisturbedIsAssembled == Spec => []UndisturbedJobReports
<1>1. PipelineIInv => UndisturbedJobReports
  BY UndisturbedDocs DEF UndisturbedJobReports
<1> QED
  BY <1>1, PipelineInvariance, PTL

\* A fixture of any length and name that "tsp test" passes has a benchmark, whose report the
\* benchmark stage keeps unless the fixture is empty or has the name of another.
THEOREM TestedIsReportable == Spec => []AcceptedIsReportable
BY ReportableFollows, PipelineInvariance, PTL
====
