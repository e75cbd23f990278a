------------------------- MODULE CertificationPipeline -------------------------
(***************************************************************************)
(* The certification pipeline of one release: a job runs the stages in     *)
(* order over the plugin's files and keeps their documents, and            *)
(* assemble_certification_report makes the unsigned report of a level from *)
(* a list of documents, which the issuer then signs.                       *)
(*                                                                         *)
(* The files change underneath, a stage may be run again, and documents of *)
(* before and after meet in one list: all that ties them together is the   *)
(* digests they name.                                                      *)
(***************************************************************************)
EXTENDS CertificationStages

CONSTANTS MaxChanges,    \* bound on the changes of a file
          MaxReruns,     \* bound on the stages that are run again
          MaxFailed,     \* bound on the stages whose evidence earns no pass
          MaxBytes       \* bound on the lengths of fixture and proposal

ASSUME PipelineAssumption ==
    {MaxChanges, MaxReruns, MaxFailed, MaxBytes} \subseteq Nat

VARIABLES files,         \* the plugin's files
          subject,       \* the subject the job certifies: the digests it names
          bench,         \* the fixture the workbench ran and what became of it
          docs,          \* the job's stage documents, in canonical order
          changes,       \* changes of the files so far
          reruns,        \* stages run again so far
          report,        \* the unsigned report, or None
          envelope       \* the report the issuer signed, or None

pipelineVars == <<files, subject, bench, docs, changes, reruns, report, envelope>>

Requirements ==
    <<"manifest", "lifecycle", "safety", "benchmark", "fuzzing", "reproducible",
      "signature", "sbom", "licenses", "admin">>

\* CertificationLevel::requirements.
LevelRequirements == [level \in 1 .. 3 |-> SubSeq(Requirements, 1, <<3, 7, 10>>[level])]

Actions == {"pass", "optimize"}

SubjectOf(f) == [artifact |-> f.artifact, package |-> f.package]

-------------------------------------------------------------------------------
(* Files *)

Component(ref, licenses) ==
    [ref |-> ref, hashes |-> {0}, licenses |-> licenses, expression |-> FALSE, purl |-> TRUE]

\* The dependencies an SBOM lists below its root.
PartsOf(licenses) == <<[part |-> Component(<<"dep", 1>>, {"open"}),
                        nested |-> <<Component(<<"dep", 2>>, licenses)>>]>>

Sbom(id, artifact, package) ==
    [id |-> id, parts |-> PartsOf({"open"}),
     root |-> [Component(<<"release", artifact>>, {"open"}) EXCEPT !.hashes = {package}]]

\* The dependencies of releases that should not pass.
OddParts ==
    {PartsOf({}), PartsOf({"closed"}), PartsOf({"open", "odd"}),
     <<[part |-> Component(<<"dep", 1>>, {"open"}), nested |-> <<Component(<<"dep", 1>>, {"open"})>>]>>}
    \union {<<[part |-> c, nested |-> <<>>]>> : c \in
                {[Component(<<"dep", 1>>, {"open"}) EXCEPT !.hashes = {}],
                 [Component(<<"dep", 1>>, {"open"}) EXCEPT !.purl = FALSE],
                 [Component(<<"dep", 1>>, {"open"}) EXCEPT !.expression = TRUE]}}

Manifest(id, artifact) ==
    [id |-> id, platforms |-> {"here", "there"}, algorithm |-> "sha256",
     digests |-> [p \in {"here", "there"} |-> artifact]]

\* Manifests that list less, more or other than their executables.
OddManifests(m) ==
    {[m EXCEPT !.digests = [p \in {"here"} |-> m.digests["here"]]],
     [m EXCEPT !.digests = [p \in {"there"} |-> m.digests["here"]]],
     [m EXCEPT !.platforms = {"here"}], [m EXCEPT !.platforms = {"there"}],
     [m EXCEPT !.digests = <<>>, !.algorithm = "none"]}

Bytes(file, version) == [executable |-> 0, package |-> 100, manifest |-> 200, sbom |-> 300][file]
                        + version

FilesOf(version) ==
    LET executable == Bytes("executable", version) package == Bytes("package", version) IN
    [artifact |-> executable, package |-> package,
     manifest |-> Manifest(Bytes("manifest", version), executable),
     sbom |-> Sbom(Bytes("sbom", version), executable, package)]

\* One file made anew, or all of them.
ChangesOf(f, version) ==
    {FilesOf(version),
     [f EXCEPT !.artifact = Bytes("executable", version)],
     [f EXCEPT !.package = Bytes("package", version)],
     [f EXCEPT !.manifest = Manifest(Bytes("manifest", version), f.artifact)],
     [f EXCEPT !.sbom = Sbom(Bytes("sbom", version), f.artifact, f.package)]}

-------------------------------------------------------------------------------
(* Evidence: what a job may hand to the evaluators.  These sets are chosen, *)
(* near what earns a pass and at the thresholds; the evaluators judge them. *)

\* Evidence that differs from the usual one in one field at most.
Near(usual, others) ==
    {usual} \union
    UNION {{[usual EXCEPT ![f] = v] : v \in others[f]} : f \in DOMAIN others}

Case(name, action, raw, content) ==
    [name |-> name, action |-> action, input |-> raw, output |-> content]

None == [level |-> 0]
Idle == [verdict |-> "none"]

CaseNames == {"one", "two"}

\* A report of the workbench: a fixture and one that was passed.
Reported(case) == BenchReport(files.artifact, <<case, Case("two", "pass", 1, 1)>>, 2)

Optimized(raw, content) == Reported(Case("one", "optimize", raw, content))

Benched ==
    Reported(Case(bench.fixture.name, bench.answer.action, bench.fixture.raw,
                  OutputOf(bench.fixture, bench.answer)))

BenchPolicy == [cases |-> 2, iterations |-> 2, input |-> 10, basis |-> 2000]

\* Reports of an earlier run, edited, or of poorer fixtures.
BenchReports ==
    LET r == Optimized(10, 2) IN
    Near(r, [artifact |-> {0}, input |-> {r.input + 9}, output |-> {0}, cases |-> {<<>>}])
    \union {Optimized(10, 9), Optimized(10, 8), Optimized(3, 1),
            BenchReport(r.artifact, <<Case("one", "pass", 10, 10)>>, 2),
            BenchReport(r.artifact, <<r.cases[1], r.cases[1]>>, 2),
            BenchReport(r.artifact, r.cases, 1)}

MeasuredBy(r) == [sound |-> TRUE, report |-> r, policy |-> BenchPolicy, fast |-> TRUE]

BenchEvidence ==
    IF bench.verdict = "accepted" THEN {MeasuredBy(Benched)}
    ELSE Near(MeasuredBy(Optimized(10, 2)),
              [sound |-> {FALSE}, report |-> BenchReports, fast |-> {FALSE},
               policy |-> {[BenchPolicy EXCEPT !.basis = 10001]}])

FuzzEvidence ==
    LET counted == [valid |-> 2, accepted |-> 2, malformed |-> 4, rejected |-> 4, unsafe |-> 0,
                    covered |-> TRUE, sanitizers |-> {"address"},
                    duration |-> 2500, seconds |-> 2]
        wanted == [total |-> 6, valid |-> 2, malformed |-> 4, duration |-> 2600]
    IN Near([sound |-> TRUE, report |-> counted, policy |-> wanted,
             corpus |-> [valid |-> 1, malformed |-> 2, repetitions |-> 2,
                         sanitizers |-> {"address"}]],
            [sound |-> {FALSE},
             report |-> Near(counted, [valid |-> {1, 3}, accepted |-> {1}, malformed |-> {3},
                                       rejected |-> {3}, unsafe |-> {1, 7},
                                       covered |-> {FALSE}, sanitizers |-> {{}},
                                       duration |-> {2600, 2601, 3000}]),
             policy |-> Near(wanted, [total |-> {7}, malformed |-> {1}, duration |-> {0, 2499}])])

BuildEvidence ==
    LET build(slot) == [slot |-> slot, attempt |-> slot, environment |-> slot, exit |-> 0,
                        network |-> 0, undeclared |-> 0, duration |-> 1500,
                        package |-> files.package]
        others == [slot |-> {"a"}, attempt |-> {"a"}, environment |-> {"a"}, exit |-> {1},
                   network |-> {1}, undeclared |-> {1}, duration |-> {2500, 2501, 3000},
                   package |-> {0}]
        usual == [duration |-> 2000, seconds |-> 2, builds |-> <<build("a"), build("b")>>]
        reports == {[usual EXCEPT !.builds[2] = b] : b \in Near(build("b"), others)}
        wanted == [build |-> 2500, total |-> 2800]
        base == [sound |-> TRUE, policy |-> wanted, report |-> usual,
                 outputs |-> <<files.package, files.package>>]
    IN Near(base, [sound |-> {FALSE}, policy |-> {[wanted EXCEPT !.build = 2801]},
                   report |-> reports \union {[usual EXCEPT !.duration = ms] : ms \in {2801, 3000}}])
       \union {[base EXCEPT !.outputs[2] = 0, !.report.builds[2].package = 0]}

SignatureEvidence ==
    LET usual == [artifact |-> files.artifact, key |-> "k1", signedWith |-> "k1",
                  issued |-> 2, expires |-> 5]
        key == [id |-> "k1", notBefore |-> 2, notAfter |-> 5]
    IN Near([sound |-> TRUE, now |-> 3, store |-> {key}, signature |-> usual,
             policy |-> [lifetime |-> 3, remaining |-> 1]],
            [sound |-> {FALSE}, now |-> {1, 5, 6},
             store |-> {{}, {[key EXCEPT !.id = "k2"]}, {[key EXCEPT !.notAfter = 4]},
                        {[key EXCEPT !.notBefore = 3]}},
             signature |-> Near(usual, [artifact |-> {0}, signedWith |-> {"k2"},
                                        issued |-> {0, 1, 5}, expires |-> {3, 4, 6}]),
             policy |-> {[lifetime |-> 3, remaining |-> 4]}])

SbomEvidence ==
    LET m == SbomMetrics(files.sbom) IN
    Near([sound |-> TRUE, policy |-> [components |-> 3], metrics |-> m],
         [sound |-> {FALSE}, policy |-> {[components |-> n] : n \in {0, 2}},
          metrics |-> {[m EXCEPT !.hashed = 9]}])

LicenseEvidence ==
    LET usual == [allowed |-> {"open"}, denied |-> {"closed"}, components |-> 3]
        reviewed(policy, sound) == [sound |-> sound, policy |-> policy,
                                    metrics |-> LicenseMetrics(files.sbom, policy)]
    IN {reviewed(p, TRUE) : p \in Near(usual, [allowed |-> {{}}, denied |-> {{"open"}}, components |-> {0, 2}])}
       \union {reviewed(usual, FALSE), [reviewed(usual, TRUE) EXCEPT !.metrics.unknown = 9]}

AdminEvidence ==
    Near([sound |-> TRUE, projected |-> TRUE], [sound |-> {FALSE}, projected |-> {FALSE}])

-------------------------------------------------------------------------------
(* Stages *)

\* The stages of level 1 are run elsewhere, on the manifest or the executable.
ExternalDocument(requirement, e) ==
    Document(requirement, subject, e.passed,
             <<IF requirement = "manifest" THEN files.manifest.id ELSE files.artifact>>,
             <<Paper>>)

Evidence(requirement) ==
    CASE requirement = "benchmark" -> BenchEvidence
      [] requirement = "fuzzing" -> FuzzEvidence
      [] requirement = "reproducible" -> BuildEvidence
      [] requirement = "signature" -> SignatureEvidence
      [] requirement = "sbom" -> SbomEvidence
      [] requirement = "licenses" -> LicenseEvidence
      [] requirement = "admin" -> AdminEvidence
      [] OTHER -> [passed : BOOLEAN]

Evaluate(requirement, e) ==
    CASE requirement = "benchmark" -> EvaluateBenchmark(subject, e)
      [] requirement = "fuzzing" -> EvaluateFuzzing(files, subject, e)
      [] requirement = "reproducible" -> EvaluateReproducible(files, subject, e)
      [] requirement = "signature" -> EvaluateSignedArtifact(files, subject, e)
      [] requirement = "sbom" -> EvaluateSbom(files, subject, e)
      [] requirement = "licenses" -> EvaluateLicenses(files, subject, e)
      [] requirement = "admin" -> EvaluateAdmin(files, subject, e)
      [] OTHER -> ExternalDocument(requirement, e)

\* A reference for the evaluators: when evidence they keep earns a pass.
Earns(requirement, e) ==
    CASE requirement = "benchmark" ->
           LET raw == Total(e.report.cases, "input") IN
           /\ Len(e.report.cases) >= e.policy.cases /\ e.fast
           /\ e.report.iterations >= e.policy.iterations
           /\ raw * e.report.iterations >= e.policy.input
           /\ (raw - Total(e.report.cases, "output")) * 10000 >= raw * e.policy.basis
      [] requirement = "fuzzing" ->
           LET r == e.report IN
           /\ (r.valid - r.accepted) + (r.malformed - r.rejected) + r.unsafe = 0
           /\ r.valid + r.malformed >= e.policy.total /\ r.covered
           /\ r.valid >= e.policy.valid /\ r.malformed >= e.policy.malformed
           /\ r.duration <= e.policy.duration
      [] requirement = "reproducible" ->
           LET builds == {e.report.builds[i] : i \in 1 .. 2} IN
           /\ Cardinality({b.environment : b \in builds}) = 2
           /\ Cardinality({b.attempt : b \in builds}) = 2
           /\ \A b \in builds :
                  /\ b.exit + b.network + b.undeclared = 0
                  /\ b.duration <= e.policy.build /\ b.package = files.package
           /\ e.report.duration <= e.policy.total
      [] requirement = "signature" ->
           \E key \in e.store :
               /\ e.signature.issued \in key.notBefore .. e.now
               /\ e.signature.expires \in (e.now + e.policy.remaining) .. key.notAfter
               /\ e.signature.expires - e.signature.issued \in 1 .. e.policy.lifetime
               /\ {e.signature.key, e.signature.signedWith} = {key.id}
      [] requirement = "sbom" ->
           LET all == ToSet(Components(files.sbom)) IN
           /\ Cardinality(all) <= e.policy.components
           /\ \A c \in all : c.purl /\ c.hashes # {} /\ SpdxIds(c) # {}
      [] requirement = "licenses" ->
           LET all == ToSet(Components(files.sbom)) IN
           /\ Cardinality(all) <= e.policy.components
           /\ \A c \in all :
                  /\ SpdxIds(c) # {} /\ SpdxIds(c) \subseteq e.policy.allowed
                  /\ ~c.expression /\ c.purl /\ c.hashes # {}
      [] requirement = "admin" ->
           LET m == files.manifest IN
           /\ m.algorithm = "sha256" /\ m.platforms = DOMAIN m.digests
           /\ m.digests["here"] = subject.artifact
      [] OTHER -> e.passed

\* What the files are: their versions, the executable that the manifest lists
\* and the packages that the root of the SBOM hashes.
Versions(f) ==
    [artifact |-> f.artifact, package |-> f.package,
     manifest |-> f.manifest.id, sbom |-> f.sbom.id,
     lists |-> {f.manifest.digests[p] : p \in {"here"} \intersect DOMAIN f.manifest.digests},
     hashed |-> f.sbom.root.hashes]

\* The documents of a stage: whether its evidence earns a pass, and the files
\* it was about, are remembered beside it.
StageDocuments(requirement) ==
    UNION {{[doc |-> d, earned |-> Earns(requirement, e), made |-> Versions(files)] :
               d \in Evaluate(requirement, e)} : e \in Evidence(requirement)}

-------------------------------------------------------------------------------
(* Report and envelope *)

SubjectBound(d, s) ==
    CASE d.requirement \in {"lifecycle", "safety", "fuzzing", "signature"} ->
           d.inputs[1] = s.artifact
      [] d.requirement \in {"benchmark", "reproducible", "sbom"} ->
           d.inputs[1] = s.package
      [] OTHER -> TRUE

\* Fault: the first two outputs are taken for the rebuilt packages.
ReportTakenForPackage(d, s) ==
    d.requirement = "reproducible" /\ d.ok
        => d.outputs[1] = s.package /\ d.outputs[2] = s.package

RebuildBound(d, s) ==
    d.requirement = "reproducible" /\ d.ok
        => d.outputs[2] = s.package /\ d.outputs[3] = s.package

\* validate_stage, with validate_subject_bindings.
StageIsValid(d, s) == d.subject = s /\ SubjectBound(d, s) /\ RebuildBound(d, s)

\* Fault: the stages are only bound to the subject.
Unrelated(list) == TRUE

\* validate_cross_stage_bindings, on the documents of a level in their order.
CrossBound(list) ==
    Len(list) = Len(Requirements)
        => /\ list[10].inputs[1] = list[1].inputs[1]
           /\ list[9].inputs[1] = list[8].outputs[1]

\* What assemble_certification_report accepts.
Assembles(level, list) ==
    /\ Len(list) = Len(LevelRequirements[level])
    /\ \A i \in DOMAIN list :
          /\ list[i].requirement = LevelRequirements[level][i]
          /\ StageIsValid(list[i], subject)
    /\ CrossBound(list)

Bare(list) == [i \in DOMAIN list |-> list[i].doc]

\* validate_certification_report: its requirements are those of its level.
ReportSucceeds(r) ==
    /\ [i \in DOMAIN r.checks |-> r.checks[i].doc.requirement] = LevelRequirements[r.level]
    /\ \A i \in DOMAIN r.checks : r.checks[i].doc.ok
    /\ r.ok

-------------------------------------------------------------------------------
(* Actions *)

Init ==
    /\ files \in {FilesOf(1)}
           \union {[FilesOf(1) EXCEPT !.sbom.parts = p] : p \in OddParts}
           \union {[FilesOf(1) EXCEPT !.manifest = m] : m \in OddManifests(FilesOf(1).manifest)}
    /\ subject = SubjectOf(files)
    /\ bench = Idle /\ docs = <<>>
    /\ changes = 0 /\ reruns = 0
    /\ report = None /\ envelope = None

ChangeFiles ==
    /\ changes < MaxChanges
    /\ changes' = changes + 1
    /\ files' \in ChangesOf(files, changes + 2)
    /\ UNCHANGED <<subject, bench, docs, reruns, report, envelope>>

\* The job is started again for the files as they are now.
Restart ==
    /\ report = None /\ subject # SubjectOf(files)
    /\ subject' = SubjectOf(files)
    /\ UNCHANGED <<files, bench, docs, changes, reruns, report, envelope>>

\* bench_plugin runs a fixture, and fails unless the golden result comes out.
Exchange ==
    /\ bench = Idle /\ Len(docs) = 3 /\ changes = 0 /\ reruns = 0
    /\ \E fixture \in [name : CaseNames, raw : 0 .. MaxBytes, golden : 0 .. MaxBytes,
                        action : Actions],
          answer \in [content : 0 .. MaxBytes, action : Actions] :
          /\ FixtureIsValid(fixture)
          /\ bench' = [fixture |-> fixture, answer |-> answer,
                       verdict |-> IF BenchMatches(fixture, answer) THEN "accepted"
                                                                    ELSE "rejected"]
    /\ UNCHANGED <<files, subject, docs, changes, reruns, report, envelope>>

Failed(list) == Cardinality({i \in DOMAIN list : ~list[i].earned})

RunStage ==
    /\ report = None /\ Len(docs) < Len(Requirements)
    /\ bench.verdict # "rejected"
    /\ \E d \in StageDocuments(Requirements[Len(docs) + 1]) : docs' = Append(docs, d)
    /\ Failed(docs') <= MaxFailed
    /\ bench' = Idle
    /\ UNCHANGED <<files, subject, changes, reruns, report, envelope>>

RunAgain ==
    /\ report = None /\ reruns < MaxReruns /\ bench = Idle
    /\ reruns' = reruns + 1
    /\ \E i \in DOMAIN docs : \E d \in StageDocuments(Requirements[i]) :
          docs' = [docs EXCEPT ![i] = d]
    /\ Failed(docs') <= MaxFailed
    /\ UNCHANGED <<files, subject, bench, changes, report, envelope>>

\* Of the job's documents: too few, too many, or one in the place of another.
Assemble ==
    /\ report = None /\ bench = Idle /\ Len(docs) \in {3, 7, 10}
    /\ \E level \in 1 .. 3, n \in 2 .. Len(docs) :
       \E i \in 1 .. n, j \in DOMAIN docs :
          LET list == [SubSeq(docs, 1, n) EXCEPT ![i] = docs[j]] IN
          /\ Assembles(level, Bare(list))
          /\ report' = [level |-> level, subject |-> subject, checks |-> list,
                        ok |-> \A c \in DOMAIN list : list[c].doc.ok]
    /\ UNCHANGED <<files, subject, bench, docs, changes, reruns, envelope>>

\* issue_certification_envelope, on the report or one that was edited since.
Issue ==
    /\ report # None /\ envelope = None
    /\ \E r \in {report, [report EXCEPT !.ok = TRUE]}
                \union {[report EXCEPT !.level = level] : level \in 1 .. 3} :
          ReportSucceeds(r) /\ envelope' = r
    /\ UNCHANGED <<files, subject, bench, docs, changes, reruns, report>>

Next == \/ ChangeFiles \/ Restart \/ Exchange \/ RunStage \/ RunAgain
        \/ Assemble \/ Issue

Spec == Init /\ [][Next]_pipelineVars

-------------------------------------------------------------------------------
(* The inductive invariant *)

\* Files are those of a version, or odd ones that the job began with.
FilesInv ==
    /\ changes \in Nat
    /\ DOMAIN files = {"artifact", "package", "manifest", "sbom"}
    /\ files.artifact \in 1 .. changes + 1 /\ subject.artifact \in Nat \ {0}
    /\ files.manifest.id \in 201 .. 201 + changes
    /\ files.manifest.platforms \subseteq {"here", "there"}
    /\ DOMAIN files.manifest.digests \subseteq {"here", "there"}
    /\ files.sbom.parts \in {PartsOf({"open"})} \union OddParts
    /\ changes = 0 => subject = SubjectOf(files)

\* What the workbench ran was a valid fixture.
BenchInv ==
    \/ bench = Idle
    \/ \E name \in CaseNames, raw, golden, content \in 0 .. MaxBytes, a, b \in Actions :
          LET fixture == [name |-> name, raw |-> raw, golden |-> golden, action |-> a]
              answer == [content |-> content, action |-> b]
          IN  /\ FixtureIsValid(fixture)
              /\ bench = [fixture |-> fixture, answer |-> answer,
                          verdict |-> IF BenchMatches(fixture, answer) THEN "accepted"
                                                                       ELSE "rejected"]

\* A stage document passes as it earned it, and names the files it was made of: of its own
\* subject, those whose digests its evaluator has compared with the subject's.
DocInv(d) ==
    LET r == d.doc.requirement s == d.doc.subject IN
    /\ d.doc.ok = d.earned
    /\ r \in {"lifecycle", "safety"} => d.doc.inputs[1] = d.made.artifact
    /\ r \in {"benchmark", "fuzzing", "signature"} => d.made.artifact = s.artifact
    /\ r \in {"reproducible", "sbom"} => d.made.package = s.package
    /\ r \in {"lifecycle", "safety"} \/ SubjectBound(d.doc, s)
    /\ RebuildBound(d.doc, s)
    /\ r \in {"manifest", "admin"} => d.doc.inputs[1] = d.made.manifest
    /\ r = "admin" /\ d.doc.ok => d.made.lists = {s.artifact}
    /\ r = "sbom" => d.doc.outputs[1] = d.made.sbom
    /\ r = "licenses" => d.doc.inputs[1] = d.made.sbom /\ s.package \in d.made.hashed

\* A manifest's id tells what it lists.
SameLists(v, w) == v.manifest = w.manifest => v.lists = w.lists

DocsInv ==
    /\ Len(docs) \in 0 .. 10 /\ docs = [i \in 1 .. Len(docs) |-> docs[i]]
    /\ \A i \in DOMAIN docs :
          /\ docs[i].doc.requirement = Requirements[i] /\ DocInv(docs[i])
          /\ docs[i].made.manifest \in 201 .. 201 + changes
          /\ SameLists(docs[i].made, Versions(files))
          /\ changes = 0 => docs[i].made = Versions(files) /\ docs[i].doc.subject = subject
    /\ \A i, j \in DOMAIN docs : SameLists(docs[i].made, docs[j].made)

\* A report, whatever level it names, has the documents it was assembled of.
ChecksInv(r) ==
    /\ r = [level |-> r.level, subject |-> r.subject, checks |-> r.checks, ok |-> r.ok]
    /\ r.level \in 1 .. 3
    /\ Len(r.checks) \in {3, 7, 10} /\ DOMAIN r.checks = 1 .. Len(r.checks)
    /\ \A i \in DOMAIN r.checks :
          /\ r.checks[i].doc.requirement = Requirements[i] /\ DocInv(r.checks[i])
          /\ StageIsValid(r.checks[i].doc, r.subject)
    /\ CrossBound(Bare(r.checks))
    /\ \A i, j \in DOMAIN r.checks : SameLists(r.checks[i].made, r.checks[j].made)

ReportInv ==
    /\ report = None \/ ChecksInv(report)
    /\ envelope = None \/ (ChecksInv(envelope) /\ ReportSucceeds(envelope))

PipelineIInv == FilesInv /\ BenchInv /\ DocsInv /\ ReportInv

-------------------------------------------------------------------------------
(* Properties *)

\* A stage passes exactly when its evidence earns it: no counter or duration of
\* a report, nested component, expired key or second build is judged by less
\* than all the evidence there is for it.
PassIsEarned == \A i \in DOMAIN docs : docs[i].doc.ok = docs[i].earned

\* The checks of a report are about the files of its subject, and at level 3
\* about one manifest, that lists the subject's executable, and one SBOM, of
\* the subject's package.
OneRelease(r) ==
    LET made == [i \in DOMAIN r.checks |-> r.checks[i].made] IN
    /\ \A i \in DOMAIN made :
          /\ Requirements[i] \in {"lifecycle", "safety", "benchmark", "fuzzing", "signature"}
                => made[i].artifact = r.subject.artifact
          /\ Requirements[i] \in {"reproducible", "sbom"}
                => made[i].package = r.subject.package
    /\ r.level = 3 =>
          /\ made[1].manifest = made[10].manifest /\ made[8].sbom = made[9].sbom
          /\ made[1].lists = {r.subject.artifact} /\ r.subject.package \in made[9].hashed

\* What is signed was earned: whatever happened to the files and the documents
\* while the job ran, a signed report has every check of its level, each passed
\* on evidence about one release.
SignedIsEarned ==
    envelope # None =>
        /\ Len(envelope.checks) = Len(LevelRequirements[envelope.level])
        /\ \A i \in DOMAIN envelope.checks : envelope.checks[i].earned
        /\ OneRelease(envelope)

\* A job that nothing disturbs is not turned away: its documents assemble into
\* a report of each level it has run the stages of.
UndisturbedJobReports ==
    changes = 0 => \A level \in 1 .. 3 :
        Len(docs) >= Len(LevelRequirements[level]) =>
            Assembles(level, Bare(SubSeq(docs, 1, Len(LevelRequirements[level]))))

\* What the workbench tests, it benchmarks, and what it benchmarks the pipeline
\* can use: for a plugin that passes a fixture in "tsp test", "tsp bench" has a
\* report, and the benchmark stage keeps it in all but two cases.  A fixture may
\* be empty, and two may have one name; the workbench takes no offence at
\* either, and the stage throws such a report away.
AcceptedIsReportable ==
    bench # Idle /\ TestPasses(bench.fixture, bench.answer) =>
        /\ bench.verdict = "accepted"
        /\ files.artifact = subject.artifact =>
               (EvaluateBenchmark(subject, MeasuredBy(Benched)) # {}
                    <=> bench.fixture.raw # 0 /\ bench.fixture.name # "two")

\* "At least 20 percent": a proposal of at most four fifths of the input, that
\* is the golden one, is not rejected for its size.
TwentyPercentIsEnough ==
    bench # Idle => LET raw == bench.fixture.raw content == bench.answer.content IN
        /\ bench.fixture.action = "optimize" /\ bench.answer.action = "optimize"
        /\ content = bench.fixture.golden /\ content <= raw /\ (raw - content) * 5 >= raw
        => bench.verdict # "rejected"
===============================================================================
