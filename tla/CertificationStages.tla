-------------------------- MODULE CertificationStages --------------------------
(***************************************************************************)
(* The evaluators of the certification stages: what evidence evaluate_*    *)
(* refuses, and what it keeps as a passed or a failed stage document.      *)
(*                                                                         *)
(* An evaluator yields the set of its stage document, empty when it        *)
(* returns an error.  Bytes are the number of the version they are of, and *)
(* a digest is that number.  A record of evidence holds what the evaluator *)
(* compares; "sound" answers for the rest of a document: its size, that it *)
(* is unambiguous JSON of its schema, its tokens, and timestamps that are  *)
(* those of the stage.  Durations are in milliseconds; "seconds" is what   *)
(* lies between a report's own timestamps.  The plugin's id, version and   *)
(* platform ("here") stay the same, so that its release id is that of its  *)
(* executable.                                                             *)
(***************************************************************************)
EXTENDS ReductionRule, FiniteSets, Sequences, SequencesExt

Document(requirement, subject, ok, inputs, outputs) ==
    {[requirement |-> requirement, subject |-> subject, ok |-> ok,
      inputs |-> inputs, outputs |-> outputs]}

\* The digest of a policy, a corpus or a report: nothing is compared with it.
Paper == 0

\* The sum of a field over the cases.
Total(cases, field) ==
    LET sum[i \in 0 .. Len(cases)] == IF i = 0 THEN 0 ELSE sum[i - 1] + cases[i][field]
    IN  sum[Len(cases)]

\* MAX_FUZZ_DURATION_MILLISECONDS and MAX_BUILD_DURATION_MILLISECONDS.
SevenDays == 604800000

\* A duration that fits between timestamps of whole seconds.
TimingIsConsistent(report) ==
    report.duration <= SevenDays /\ report.duration <= report.seconds * 1000 + 999

-------------------------------------------------------------------------------
(* Public-corpus benchmark *)

\* validate_case_expectation: only a fixture to optimize has a golden output.
FixtureIsValid(fixture) == (fixture.golden # 0) = (fixture.action = "optimize")

\* What the host makes of a plugin's answer: the input is kept on a pass.
HostRuns(fixture, answer) == answer.action = "optimize" => HostAccepts(fixture.raw, answer.content)

OutputOf(fixture, answer) ==
    IF answer.action = "pass" THEN fixture.raw ELSE answer.content

\* test_plugin: the action and then the bytes that belong to it.
TestPasses(fixture, answer) ==
    /\ HostRuns(fixture, answer) /\ answer.action = fixture.action
    /\ OutputOf(fixture, answer) =
          (IF fixture.action = "optimize" THEN fixture.golden ELSE fixture.raw)

\* bench_plugin: the golden output, or the input where there is none.
BenchMatches(fixture, answer) ==
    /\ HostRuns(fixture, answer) /\ answer.action = fixture.action
    /\ OutputOf(fixture, answer) = (IF fixture.golden # 0 THEN fixture.golden ELSE fixture.raw)

Samples(cases, action) == Cardinality({i \in DOMAIN cases : cases[i].action = action})

\* The report of bench_plugin, when every repetition gave the same result.
BenchReport(artifact, cases, iterations) ==
    [artifact |-> artifact, iterations |-> iterations, cases |-> cases,
     samples |-> iterations * Len(cases),
     input |-> iterations * Total(cases, "input"),
     output |-> iterations * Total(cases, "output"),
     pass |-> iterations * Samples(cases, "pass"),
     optimize |-> iterations * Samples(cases, "optimize")]

NamesDistinct(cases) == IsInjective([i \in DOMAIN cases |-> cases[i].name])

CaseIsConsistent(case) ==
    /\ case.input # 0 /\ case.output <= case.input
    /\ IF case.action = "pass" THEN case.output = case.input
                               ELSE CaseIsValid(case.input, case.output)

\* validate_benchmark_report, which computes the totals again from the cases.
BenchReportIsValid(report, subject) ==
    /\ report.artifact = subject.artifact
    /\ report.cases # <<>> /\ NamesDistinct(report.cases)
    /\ \A i \in DOMAIN report.cases : CaseIsConsistent(report.cases[i])
    /\ report = BenchReport(report.artifact, report.cases, report.iterations)

\* validate_benchmark_policy.
BenchPolicyIsValid(policy) ==
    0 \notin {policy.cases, policy.iterations, policy.input} /\ policy.basis <= 10000

SavingsBasisPoints(saved, input) == (saved * 10000) \div input

EvaluateBenchmark(subject, e) ==
    IF ~(e.sound /\ BenchPolicyIsValid(e.policy) /\ BenchReportIsValid(e.report, subject)) THEN {}
    ELSE Document("benchmark", subject,
             /\ Len(e.report.cases) >= e.policy.cases
             /\ e.report.iterations >= e.policy.iterations
             /\ e.report.input >= e.policy.input
             /\ SavingsBasisPoints(e.report.input - e.report.output, e.report.input)
                    >= e.policy.basis
             /\ e.fast,
             <<subject.package, Paper, Paper>>, <<Paper>>)

-------------------------------------------------------------------------------
(* Protocol fuzzing *)

FuzzPolicyIsValid(policy) ==
    0 \notin {policy.total, policy.valid, policy.malformed} /\ policy.duration \in 1 .. SevenDays

FuzzCorpusIsValid(corpus) ==
    0 \notin {corpus.valid, corpus.malformed, corpus.repetitions} /\ corpus.sanitizers # {}

\* planned_execution_counts, of each class of input.
Planned(corpus) == [class \in {"valid", "malformed"} |-> corpus[class] * corpus.repetitions]

\* validate_certification_fuzz_plan and validate_policy_corpus.
PlanIsValid(policy, corpus) ==
    /\ FuzzPolicyIsValid(policy) /\ FuzzCorpusIsValid(corpus)
    /\ \A class \in {"valid", "malformed"} : policy[class] <= Planned(corpus)[class]
    /\ policy.total <= Planned(corpus).valid + Planned(corpus).malformed

FuzzReportIsValid(report) ==
    /\ report.sanitizers # {} /\ TimingIsConsistent(report)
    /\ report.accepted <= report.valid /\ report.rejected <= report.malformed
    /\ report.unsafe <= report.valid + report.malformed

\* validate_report_corpus, with validate_certification_fuzz_engine.
ReportFitsCorpus(report, corpus) ==
    /\ corpus.sanitizers \subseteq report.sanitizers
    /\ \A class \in {"valid", "malformed"} : report[class] <= Planned(corpus)[class]

\* Fault: a campaign may take longer than the policy allows.
AnyDuration(report, policy) ==
    /\ report.valid + report.malformed >= policy.total
    /\ report.valid >= policy.valid /\ report.malformed >= policy.malformed
    /\ report.covered
    /\ report.accepted = report.valid /\ report.rejected = report.malformed
    /\ report.unsafe = 0

\* The thresholds of evaluate_protocol_fuzzing.
FuzzingPasses(report, policy) ==
    /\ report.valid + report.malformed >= policy.total
    /\ report.valid >= policy.valid /\ report.malformed >= policy.malformed
    /\ report.covered
    /\ report.duration <= policy.duration
    /\ report.accepted = report.valid /\ report.rejected = report.malformed
    /\ report.unsafe = 0

EvaluateFuzzing(files, subject, e) ==
    IF ~(/\ e.sound /\ PlanIsValid(e.policy, e.corpus)
         /\ files.artifact = subject.artifact
         /\ FuzzReportIsValid(e.report) /\ ReportFitsCorpus(e.report, e.corpus))
    THEN {}
    ELSE Document("fuzzing", subject, FuzzingPasses(e.report, e.policy),
                  <<subject.artifact, Paper, Paper>>, <<Paper>>)

-------------------------------------------------------------------------------
(* Reproducible build *)

\* validate_policy.
BuildPolicyIsValid(policy) ==
    policy.total \in 1 .. SevenDays /\ policy.build \in 1 .. policy.total

\* validate_report: the report is about these bytes, its slots are "a" and "b".
\* A build may outlast the report's duration by less than a second.
BuildReportIsValid(report, outputs) ==
    /\ TimingIsConsistent(report) /\ Len(report.builds) = 2
    /\ \A i \in 1 .. 2 :
           /\ report.builds[i].slot = <<"a", "b">>[i]
           /\ report.builds[i].package = outputs[i]
           /\ report.builds[i].duration <= report.duration + 999

Distinct(builds, field) == IsInjective([i \in DOMAIN builds |-> builds[i][field]])

EvaluateReproducible(files, subject, e) ==
    IF ~(/\ e.sound /\ BuildPolicyIsValid(e.policy)
         /\ files.package = subject.package /\ BuildReportIsValid(e.report, e.outputs))
    THEN {}
    ELSE Document("reproducible", subject,
             /\ Distinct(e.report.builds, "attempt") /\ Distinct(e.report.builds, "environment")
             /\ e.report.duration <= e.policy.total
             /\ \A i \in 1 .. 2 :
                    /\ e.report.builds[i].exit = 0
                    /\ e.report.builds[i].network = 0 /\ e.report.builds[i].undeclared = 0
                    /\ e.report.builds[i].duration <= e.policy.build
                    /\ e.outputs[i] = subject.package,
             <<subject.package, Paper, Paper>>, <<Paper, e.outputs[1], e.outputs[2]>>)

-------------------------------------------------------------------------------
(* Signed artifact *)

\* assess_signature, at the stage's completion.
SignatureIsAccepted(signature, policy, store, now) ==
    /\ signature.expires > signature.issued
    /\ signature.expires - signature.issued <= policy.lifetime
    /\ now \in signature.issued .. signature.expires
    /\ signature.expires - now >= policy.remaining
    /\ \E key \in store :
           /\ key.id = signature.key
           /\ key.notBefore <= signature.issued /\ signature.expires <= key.notAfter
           /\ signature.signedWith = key.id

\* validate_policy.
SignaturePolicyIsValid(policy) == policy.lifetime # 0 /\ policy.remaining <= policy.lifetime

TrustStoreIsValid(store) ==
    /\ store # {}
    /\ \A key \in store :
           /\ key.notBefore < key.notAfter
           /\ \A other \in store : other.id = key.id => other = key

\* validate_signature_contract.
SignatureIsSubjects(signature, subject) ==
    signature.artifact = subject.artifact /\ signature.issued # 0

EvaluateSignedArtifact(files, subject, e) ==
    IF ~(/\ e.sound /\ files.artifact = subject.artifact
         /\ SignaturePolicyIsValid(e.policy) /\ TrustStoreIsValid(e.store)
         /\ SignatureIsSubjects(e.signature, subject))
    THEN {}
    ELSE Document("signature", subject,
             SignatureIsAccepted(e.signature, e.policy, e.store, e.now),
             <<subject.artifact, Paper, Paper>>, <<Paper>>)

-------------------------------------------------------------------------------
(* SBOM and licence provenance *)

\* collect_components: the root, the components and those nested in them.
Components(sbom) ==
    <<sbom.root>> \o FlattenSeq([i \in DOMAIN sbom.parts |->
                                      <<sbom.parts[i].part>> \o sbom.parts[i].nested])

RefsDistinct(sbom) ==
    LET all == Components(sbom) IN IsInjective([i \in DOMAIN all |-> all[i].ref])

\* An identifier that is not in the form of an SPDX id does not count as one.
SpdxIds(component) == component.licenses \ {"free text"}

HasProvenance(component) == component.hashes # {} /\ component.purl

Count(sbom, Test(_)) ==
    LET all == Components(sbom) IN Cardinality({i \in DOMAIN all : Test(all[i])})

SbomMetrics(sbom) ==
    [count |-> Count(sbom, LAMBDA c : TRUE),
     hashed |-> Count(sbom, LAMBDA c : c.hashes # {}),
     licensed |-> Count(sbom, LAMBDA c : SpdxIds(c) # {}),
     purls |-> Count(sbom, LAMBDA c : c.purl)]

\* validate_sbom_identity: the root is the subject's release and package.
RootIsSubject(sbom, subject) ==
    sbom.root.ref = <<"release", subject.artifact>> /\ subject.package \in sbom.root.hashes

\* validate_sbom_policy.
SbomPolicyIsValid(policy) == policy.components # 0

\* validate_sbom_report and validate_license_report: the scanner saw what is there.
ReportAgrees(metrics, found) == metrics = found

EvaluateSbom(files, subject, e) ==
    LET m == SbomMetrics(files.sbom) IN
    IF ~(/\ e.sound /\ SbomPolicyIsValid(e.policy) /\ files.package = subject.package
         /\ RootIsSubject(files.sbom, subject) /\ RefsDistinct(files.sbom)
         /\ ReportAgrees(e.metrics, m))
    THEN {}
    ELSE Document("sbom", subject,
             /\ m.count <= e.policy.components
             /\ m.hashed = m.count /\ m.licensed = m.count /\ m.purls = m.count,
             <<subject.package, Paper>>, <<files.sbom.id, Paper>>)

LicenseMetrics(sbom, policy) ==
    [count |-> Count(sbom, LAMBDA c : TRUE),
     missing |-> Count(sbom, LAMBDA c : SpdxIds(c) = {}),
     denied |-> Count(sbom, LAMBDA c : SpdxIds(c) \intersect policy.denied # {}),
     unknown |-> Count(sbom, LAMBDA c :
         c.expression \/ ~(SpdxIds(c) \subseteq policy.allowed \union policy.denied)),
     unproven |-> Count(sbom, LAMBDA c : ~HasProvenance(c))]

\* validate_license_policy.
LicensePolicyIsValid(policy) ==
    /\ policy.allowed # {} /\ policy.allowed \intersect policy.denied = {}
    /\ policy.components # 0

EvaluateLicenses(files, subject, e) ==
    LET m == LicenseMetrics(files.sbom, e.policy) IN
    IF ~(/\ e.sound /\ LicensePolicyIsValid(e.policy)
         /\ RootIsSubject(files.sbom, subject) /\ RefsDistinct(files.sbom)
         /\ ReportAgrees(e.metrics, m))
    THEN {}
    ELSE Document("licenses", subject,
             /\ m.count <= e.policy.components
             /\ m.denied = 0 /\ m.unknown = 0 /\ m.missing = 0 /\ m.unproven = 0,
             <<files.sbom.id, Paper>>, <<Paper>>)

-------------------------------------------------------------------------------
(* Admin policy metadata *)

\* integrity_complete of project_metadata.
IntegrityIsComplete(manifest, subject) ==
    /\ manifest.algorithm = "sha256"
    /\ manifest.platforms \subseteq DOMAIN manifest.digests
    /\ Cardinality(DOMAIN manifest.digests) = Cardinality(manifest.platforms)
    /\ manifest.digests["here"] = subject.artifact

\* validate_manifest_subject: a digest of the subject's platform is that of its executable.
ManifestIsSubjects(manifest, subject) ==
    /\ "here" \in manifest.platforms
    /\ "here" \in DOMAIN manifest.digests => manifest.digests["here"] = subject.artifact

\* "projected" says that the metadata is what project_metadata makes of it.
EvaluateAdmin(files, subject, e) ==
    LET manifest == files.manifest IN
    IF ~(e.sound /\ ManifestIsSubjects(manifest, subject) /\ e.projected) THEN {}
    ELSE Document("admin", subject, IntegrityIsComplete(manifest, subject),
                  <<manifest.id>>, <<Paper>>)
===============================================================================
