# TLA+ models of the TokenSaver plugin SDK

The repository is the SDK of the TokenSaver Plugin Protocol (TSPP): protocol
libraries in four languages, and the `tsp` tools with which a plugin is
developed, packaged, run under confinement, fuzzed, and certified. The models
here are about the parts whose correctness rests on the order of steps of several
actors: processes that share a state directory or a release directory, a host and a
plugin that exchange frames over two pipes, a supervisor and a process that is to be
confined, issuers and hosts that see documents of different ages, and stages of a
certification job that look at files which change.

Run everything from this directory, for instance
`tlc -config RevocationStore.cfg RevocationStore` and `tlapm RevocationProofs.tla`.

## 1. Inventory

Paths are relative to `src/`; `tsp` stands for `tools/tsp/src`.

### Revocation state store (`tsp/certification_distribution.rs`)
- **State**: a root directory; per issuer a lock file and a directory with one
  file per accepted revocation sequence. Nothing is held in memory.
- **Operations**: `highest_sequence`, `record_verified`. Both create the layout,
  take the issuer's advisory lock by polling until a deadline, scan the directory;
  `record_verified` rejects an older sequence, accepts one already present, and
  otherwise appends a marker: pending file, `sync_all`, `hard_link`, directory
  `fsync`, removal of the pending file.
- **Interaction**: several verifier processes meet only in the file system.
- **Hard**: scan and link are separate steps; every file operation may fail; a
  process may die anywhere; power may fail; the lock holder may stop for ever.
- **Correct when**: no verifier accepts a list older than one anybody had been told
  of, markers only grow, and each call is answered.

### Certification decision (`fetch_verify_and_record_certification`, `tsp/certification_trust.rs`, `tools/tsp-certification-host`, `tsp/certification_issuer.rs`)
- **State**: issuers' signed envelopes and revocation lists, the store, a clock.
- **Operations**: issue an envelope, publish a list; a host fetches report, envelope
  and list one after the other under one deadline, verifies them as of the time its
  call began, and records the list's sequence.
- **Hard**: an endpoint serves documents of any age and mix; each is checked
  separately; freshness is tested before up to a minute of fetching and half a minute
  of lock wait; evidence refused as revoked never records its own newer sequence.
- **Correct when**: a revocation one host of a store has been told of holds for all
  later calls on that store, and a revocation takes effect at every host within the
  freshness window.

### Workbench protocol host (`tsp/protocol.rs`)
- **State**: a child process, two pipes, a worker thread, a one-slot channel.
- **Operations**: three conformance scenarios (`lifecycle`, optimize before
  initialize, malformed base64) and the fixture run: spawn, a worker speaks the
  script, the main thread waits with a timeout, kills, joins, reaps.
- **Hard**: timeout against result, blocked pipes, plugins that die, stall, flood,
  answer out of order, or leave processes behind.
- **Correct when**: every path reaps the child and ends the worker, a pass means a
  clean exit, every run returns.

### SDK protocol loops (`sdk/rust`, `sdk/go`, `sdk/python`, `sdk/typescript`) and the context service (`sdk/rust/.../context.rs`)
- **State**: whether `initialize` was accepted; the optimizer is stateless.
- **Operations**: read a frame, dispatch, run the optimizer or the service behind
  whatever the language catches panics with, write the reply; end at shutdown, at
  bytes that are no frame, or at the end of input.
- **Hard**: the four processes end differently once a pipe is closed under them.
- **Correct when**: the workbench never fails a plugin for what a v1 loop says, and
  the plugin ends when its host, whichever it is, has gone.

### Certification pipeline (`tsp/certification_pipeline.rs`, `certification_supply_chain.rs`, `certification_artifact.rs`, `certification_reproducible.rs`, `certification_admin.rs`, `fixtures.rs`, `bench.rs`)
- **State**: the plugin's files and the stage documents made about them, in files.
- **Operations**: the workbench tests and benches a fixture; seven evaluators turn
  evidence into a passed or a failed stage document, or refuse it; assembly makes a
  report of a level from a list of documents; the issuer signs a report.
- **Hard**: the stages are run one after the other by hand or script while the files
  change; stages are run again; all that ties documents together is the digests they
  name. The 20 percent rule is computed twice, with different comparisons.
- **Correct when**: a stage passes exactly on evidence that earns it, and what is
  signed was earned on one release.

### Fuzzing worker and confinement adapter (`tools/tsp-certification-worker`, `tools/tsp-certification-confinement`, `tsp/certification_fuzz.rs`)
- **State**: the campaign's counters and deadline, the driver's profile, two clocks.
- **Operations**: one execution after another under the remaining campaign time,
  each behind a comparison of the profile; what the driver observed becomes findings
  and a disposition; coverage and duration are measured and the report is evaluated.
- **Hard**: the deadline cuts a campaign short; an execution ends by itself but
  late; a profile drifts while an execution runs; the wall clock is set; the report's
  milliseconds are compared with seconds.
- **Correct when**: evidence that passes was earned by each execution of the
  plan, and a campaign that ended early never passes.

### Confinement drivers (`tools/tsp-certification-confinement-linux|macos|windows`) and the runtime host (`tools/tsp-runtime-host`)
- **State**: per attempt a process and what holds it (a control-group leaf and a root
  directory, a process group, a job object), captured streams, kill reasons.
- **Operations**: verify the executable's digest; spawn, supervise, kill, reap, drain,
  classify, clean up.
- **Interaction**: the fuzzing campaign calls the certification driver, users call the
  runtime host; both call the same three kernels.
- **Hard**: deadline, stream limit, memory limit, setup failure and the plugin's own
  exit race; cleanup after a failed kill; output that comes with the end; an
  executable replaced after it was hashed.
- **Correct when**: a result means that the process is gone, is of the file that was
  verified and names a cause that was there; an error leaves nothing running; dropped
  output is marked as such; every call returns. Section 4 says where the code falls short of the last two.

### Package and catalog assembly (`tsp/package.rs`, `catalog.rs`, `manifest.rs`, `identity.rs`, `superec.rs`)
- **State**: a plugin directory, a release directory with archives, reports, a catalog.
- **Operations**: `tsp package` resolves the directory, runs three conformance
  scenarios, packs, and writes under the release name; `tsp catalog` reads reports and
  archives and seals them.
- **Hard**: the executable is rebuilt while its scenarios run; two packagers race for a
  name tested long before it is taken; the cataloger reads while others write; deaths
  leave temporary files; power fails between write and rename.
- **Correct when**: what is under a release name is a whole archive of a build that
  conforms, and a catalog ties each release to the archive of that very build.

### Scaffold, examples, schemas, scripts
Templates, demonstrations and text; they keep no state and are left out.

`PROJECT.json` lists these components with their files and the hazards of the code
with the line where each bites.

## 2. Plan

| Order | Module | Of | State |
|---|---|---|---|
| 1 | `RollbackRegister` | abstract store: an atomic compare-and-raise | done |
| 2 | `RevocationStore` | the store, step by step; refines 1 | done, proved |
| 3 | `RevocationDurability` | 2 on a machine that loses power | done, proved |
| 4 | `CertificationDecision` | issuers, endpoint and hosts on 1 | done, proved |
| 5 | `TsppPipes`, `PluginServer`, `WorkbenchHost`, `TsppSession` | pipes, SDK loops, workbench, and their composition | done, proved |
| 6 | `ReductionRule`, `CertificationStages`, `CertificationPipeline` | evaluators, job, assembly, signing | done, proved |
| 7 | `ConfinementAdapter`, `FuzzCampaign` | a campaign over any observations of a driver | done, proved |
| 8 | `AttemptContract` | abstract executor of one attempt | done |
| 9 | `LinuxAttempt`, `MacAttempt`, `WindowsAttempt`, `NativeDriver` | three kernels behind their callers; refine 8 | done, proved, their refinement of 8 too |
| 10 | `PackageSource`, `ReleaseToolchain` | package and catalog on one release directory | done, proved |
| 11 | `FuzzCampaign` on `AttemptContract` instead of any observations | | open |

Every safety property and the refinements are proved; what is left to prove is that a campaign
that meets only the contract's results is a campaign over any observations (11), which would tie the two together.

## 3. Modules, and how they correspond to the code

**`RollbackRegister`** is what callers of the store may rely on: `Open` starts a
call, `Commit` raises the register or finds the sequence in it, `Accept`,
`Answer` and `Refuse` answer; `Die` takes a process away. A committed call may
still be refused, because the code can fail after its marker is visible.

**`RevocationStore`** has one action per file-system step. `pc` is the
position in `record_verified` or `highest_sequence`; `visible` the names in each
issuer's directory; `lock` the holder of the advisory lock; `scanned` the local
`highest`; `waited` the polling intervals spent. `Begin`, `LayoutFails`,
`AcquireLock`, `RetryLock`, `LockTimeout` are `prepare_layout` and `acquire_lock`;
`Scan` and `ScanFails` are `scan_highest_sequence` and the three tests
`record_verified` makes; `WritePending`, `Link`, `LinkFails`, `SyncDirectory` and
`RemovePending` are `append_marker`; `Unlock` is the drop of `StateLock`. `Crash` may happen at
every place of a call. The pending file has a random name that nothing
reads, so only the success or failure of its operations is kept. `told` and `floor` are
ghosts: what callers have been told, and what had been told when a call began.

**`RevocationDurability`** adds `durable`, the entries on stable storage, and `rooted`,
whether the issuer's directory is itself there: `create_dir_all` makes it and nobody
syncs its parent. `sync_directory` moves all visible entries to `durable`; `PowerLoss`
kills every process and keeps a set between durable and visible, or nothing of a
directory that is not rooted. `DirectorySync` is FALSE for the
non-unix build, where `sync_directory` does nothing; the runs use the unix build.

**`CertificationDecision`** composes issuers, an endpoint and hosts
over `RollbackRegister`. A signature is membership of a document in what the
issuers signed. `Verified` lists, test by test, `verify_certification_evidence`.
`begun` is `now_unix`, which the host supplies before it fetches. Issuers follow
`issue_certification_*`; that publications have rising sequences and never take a
revocation back is the issuer's own procedure, which the code leaves to the
caller: `ListsOf` and `RevokedBy` stand for it and are marked external.
`MCCertificationDecision` gives it two releases of one issuer and its keys.

**`TsppPipes`** is the shared state of a session: two bounded pipes, which ends are
open, the process, and `heir`, a process the plugin started and that inherited
its pipe ends. **`WorkbenchHost`** has the worker thread as a script of sends
and expected replies, each with the way the code leaves on error (`?` directly, or
through the shutdown notification), and the main thread from spawn to return.
**`PluginServer`** is the five loops of the SDKs: `ServeV1` is what the four v1 loops
answer alike, `ServeRust` and its three siblings where each ends, `ServeContext` the TSPP v2 loop.
`run` only logs what `serve` returns, so `Finishes` exits with success; outside Windows
the Go runtime kills a process that writes to a closed stdout; the Python interpreter flushes
once more at its exit; a TypeScript process may stay until its stdin ends
(`serving = "ended"`). **`TsppSession`** composes them; `plugin`, chosen at the start, is
one of these loops or any program at all, and the host is the workbench or, for a loop,
any other one that writes every frame in any order and closes pipes as it likes. Frames are records of
the id and the class of the body; framing bytes and JSON are abstracted, a
frame that cannot be parsed or breaks the limits is `junk` or unreadable.

**`ReductionRule`** has the two size tests. **`CertificationStages`** has one operator per
`evaluate_*` function, which yields the set of its stage document: empty for an error,
else passed or failed. A record of evidence holds the fields the evaluator compares, and `sound` stands
for the rest (size, schema, unambiguous JSON, tokens). Durations are in milliseconds and what lies between
a report's timestamps in whole seconds, with the 999 ms the code allows for that, in both the campaign's report and the build's. Each
document's own tests are an operator (`FuzzPolicyIsValid`, `BuildReportIsValid`, `TrustStoreIsValid`). `SbomMetrics` and `LicenseMetrics`
count over nested components as the code does. **`CertificationPipeline`** is the job:
`ChangeFiles` (the outside world), `Restart` (a new subject), `Exchange` (`bench_plugin` on a
fixture), `RunStage` and `RunAgain` (an evaluator on the files as they are now),
`Assemble` (`assemble_certification_report` on any list near the job's documents) and
`Issue` (the report's own tests before it is signed). `earned` and `made` beside a document are ghosts: whether
a separately written reference, `Earns`, grants the pass, and which files the evidence was about. The sets `BenchEvidence` to
`AdminEvidence`, like `OddParts` and `OddManifests`, are inputs chosen for the runs and translate no code.

**`ConfinementAdapter`** is the pure part of `NativeCertificationFuzzExecutor::execute`:
from an observation (how the process ended, which limits it broke, how long it
ran) to findings, the question to the oracle, and the disposition.
**`FuzzCampaign`** is `run_with_clock` of the worker: `ReadWallClock`, `Mark`, then
per execution `BeginExecution` (remaining time, narrowed deadline, comparison
of the profile) and `FinishExecution` (the driver's observation, the adapter,
`Counters::record`), `EndLoop`, `MeasureCoverage` (its comparison of the profile and
the measurement are one step: like an execution, the measurement may meet a drift the comparison no longer sees, and
`DriftLeavesNoEvidence` claims nothing of it), `MeasureDuration`, and
`Complete`, which evaluates the report as `evaluate_protocol_fuzzing` does. Every
`?` is `Abandon`. Time passes between any two steps (`Tick`); `StepWallClock` sets the wall clock;
`DriftProfile` changes the sandbox. `flawed` and `stepped` are
ghosts: they say what happened, however it is reported. `MCFuzzCampaign` has the corpus.

**`AttemptContract`** is what `NativeConfinementDriver::execute` promises whatever the
platform: a result is given of a process group that is gone (`ReturnsResult`), an error leaves
none that runs on (`ReturnsError`), and a result names a cause that was there (`Truthful`). `LinuxAttempt` says
by `LinuxGroup`, `EndOf` and `LinuxCauses` which of its states is which of the contract's; the other two
are mapped in `NativeDriver`.

**`LinuxAttempt`** is `LinuxKernel::execute`. `pc` is the host's place in
`CgroupLeaf::create`, `spawn` and `run`; `Preflight` to `Release` are the way to a
running child, `Watch` is one turn of the supervision loop, read by read, `Supervise`
its three tests and kills in their order, `TakeDown` the second loop and the
removals. `reasons` is `kill_started`, `killed_for_stream` and
`killed_for_deadline` in one set. `Fail` is every `?`: a call fails wherever one can,
and `OnError` says which guard then runs (`terminate_and_reap`, `ProcessCleanup`, `RootCleanup`,
`CgroupLeaf`); a removal within the cleanup may fail too, which the code ignores. The
child is parked until the sync byte, sets up its sandbox, and then
executes the plugin or leaves a byte in the status pipe; it may be ended by a signal or
for lack of memory at any moment. `leaf` and `root` start as absent or as another attempt's.
`executed` and `untidy` are ghosts.

**`MacAttempt`** is `MacosKernel::execute`, a record `mac`: `Spawn` of the launcher, one drain per
stream with its read and its one-byte probe (`ReadSome`, `ReadNothing`, `Probe`), the memory
sample, the stream and deadline tests, `WaitChild`, the loop that empties the pipes of the
ended process (`More`, `CloseExceeded`), `VerifyGroupEmpty`, `Classify`; `CleanUp` and `Await`
are `ProcessCleanup::drop`, which waits without a bound. Output is counted, so that "read past the limit" and "nothing behind the
limit at the moment of the probe" (`quiet`) are different.
**`WindowsAttempt`** is `Win32Kernel::execute`, a record `win`: the job that kills on close,
the process made suspended, assigned and resumed, the writer thread, notices of the job's port,
the tests in their order, the last drain, `Observe`; `OnError` says which guard an error meets:
`terminate_unassigned_and_reap`, `terminate_job_and_reap` or `AssignedProcessCleanup`, whose
waits are bounded. The last ignores that both its terminations failed (`Fail` at `cleanup`); the writer is then joined
(`JoinLast`) while the process may run, and `Return` closes the job's handle behind every path.
**`NativeDriver`** puts them behind their callers: the certification driver (preflight, then
`verify_artifact`) or the runtime host (validate with the digest, then prepare), and composes
the three kernels. `ReplaceFile` puts another file at the executable's path, at any moment;
`loaded` is the file the kernel opened.

**`PackageSource`** is a plugin directory as `tsp package` sees it. Each rule a manifest, a
SuperEC record or a tree may break is a name, and a document breaks at most one.
**`ReleaseToolchain`** is the machine: `BeginPackage` to `Report` or `Refuse` are one call of
`tsp package --json > report`, `BeginCatalog` to `EndCatalog` one of `tsp catalog`, and both
write with `write_atomic` (`CreateTemporary`, `WriteTemporary`, `Rename`, `Clean`). `Edit`
rebuilds the executable or moves the manifest to another version; `Die`, `Fail` and `PowerLoss` are the
faults. `past` holds what a power loss may bring back, since the directory is never synced
after a rename. `MCReleaseToolchain` has the directories to start from.

## 4. Runs

| Run | Shows | Distinct states |
|---|---|---|
| `store` | two verifiers, one of which may stop for ever at any point: inductive invariant, the four safety properties, append-only, refinement of the register, and that each call of the running process is decided | 648 000 |
| `durable_append` | sequences accepted by the call that appended them, in a directory that is on the disk itself, survive any number of power losses | 364 000 |
| `durable_equal` | **violated**: acceptance through the "already present" branch need not be durable | |
| `session` | the workbench or any other host, which may be killed at any point, with a plugin on one of the four SDK loops, a context service, or any program: all cleanup is done, a pass means a clean exit, an SDK plugin is never failed for what it says, none outlives its host, and a run returns unless an heir holds the pipes for ever | 269 000 |
| `session_fork` | **violated**: a run need not return when the plugin leaves a process behind | |
| `pipeline` | a job of ten stages over files that may change once, with one stage run again and any document in the place of another: stages pass exactly on evidence that earns it, what is signed was earned on one release, an undisturbed job is reported, and whatever passes `tsp test` is benchmarked and kept by the benchmark stage, except exactly fixtures that are empty or share a name | 700 000 |
| `reduction_boundary` | **violated**: exactly 20 percent is rejected by the workbench | |
| `decision` | two hosts on one store, two releases, keys of different validity, a moving clock, an endpoint that serves any mix of old documents: a revocation one host was told of holds for both, and it takes effect within the window | 4.7 million |
| `campaign` | four executions with any observations, a clock that may be set, a profile that may drift: a pass was earned, an early end does not pass, nothing is executed after a process that could not be reaped, an honest report is never refused | 534 000 |
| `attempt` | one attempt for a certification driver or the runtime host, on each of the three platforms, with any plugin, failing calls and a file replaced at any moment: the kernels keep one contract, report for the file they verified, say when they drop output (but for what macOS's one-byte probe passes over), and return (but for two cases on Windows); the inductive invariants of all three and of their callers | 979 000 |
| `toolchain` | two packagers and a cataloger on one release directory, with edits, deaths, failing calls and power losses: packages are sound, a catalog ties releases to archives of their builds, a good directory is packaged in the end | 795 000 |
| `package_bare` | **violated**: a good directory is refused when `--output` has no directory part | |

Every property of a passing run has a mutant in `PROJECT.json`: a plausible bug
in one mapped definition with which the same run fails. Where the bug is more than a dropped
word, the mutated form stands in the module, marked "Fault:" or "Variant of".

### Findings
1. `record_verified` accepts a sequence it finds present without syncing the directory
   (`certification_distribution.rs:120`). The marker may come from a call that died or
   failed between `hard_link` and `sync_directory`; a power loss may then remove an
   accepted sequence, while the function's comment promises a durable record. Run `durable_equal`.
2. The main thread kills the plugin and joins the worker (`protocol.rs:406`), but the
   worker reads until all write ends are closed. A process the plugin started keeps them
   open, and the deadline no longer bounds the run. Run `session_fork`; `session`
   shows that this is the only way a run fails to return.
3. The workbench rejects content of exactly 80 percent of the input (`protocol.rs:669`),
   while its own message and the wiki say "at least 20 percent". Run `reduction_boundary`.
4. `package_plugin` asks whether the parent of `--output` is a directory (`package.rs:74`).
   The parent of a bare file name is the empty path, which is none, so that the command of
   `README.md:213`, and the default name taken when `--output` is left out, are refused on every
   good directory. `catalog.rs:69` has the same test. Run `package_bare`.

Seen while reading and not stated as properties of a run:

- *Store*: outside unix `sync_directory` is a no-op; the entries of the root and issuer
  directories are never synced (`AppendedAcceptanceSurvives` states the limit).
- *Session*: `wait_for_exit` reports "250 ms" although `EXIT_GRACE_MS` is 2000; `run` of the
  Rust SDK exits with 0 after a protocol error. On frames no host of the repository writes,
  the SDKs differ: a missing or non-string method (Rust ends, Go answers -32601), a missing `jsonrpc`
  (Rust ends, the others answer -32600), `id: null`, and duplicate members (Rust and the context service refuse, the
  others take the last one). Go reads a header line to its end before it tests the length.
- *Campaign*: a campaign cut short whose duration is exactly the maximum passes;
  `ShortCampaignFails` states this exception, while `wiki/certification.md:96` counts "deadline exhaustion" among
  failed evidence.
- *Pipeline*: the workbench's test and bench allow duplicate case names and fixtures of length zero, which
  the benchmark stage refuses (`AcceptedIsReportable` states it: these two and no others); a license that is not in SPDX form is ignored beside one that is;
  assembly puts no bound on a stage document's age, and a signature's validity is judged when
  its stage completes; at levels 1 and 2 the manifest stage is bound to nothing.
- *Attempts*: the macOS kernel drops what it read past the limit when its one-byte probe finds
  nothing more at that moment (`TruncationIsReported` states it); the Windows kernel reads a
  stream until it finds it empty, which a plugin can prolong, and when neither the job nor the process could be terminated its writer is
  joined all the same, which returns when the plugin takes the input or ends (`EveryCallReturns` states both); it reports
  a kill for memory as the deadline's if that passes too; a Windows process
  that cannot be assigned and cannot be terminated stays suspended; the macOS launcher's own exit codes are reported as
  the plugin's; an executable replaced between its verification and the start goes unseen
  (`ReportedForTheRightFile` states it).
- *Toolchain*: `plugin.json` is read again to be packed (`package.rs:118`) and not compared with the manifest that was
  validated, so that an archive may state another version than its name; `README.md:219` says that existing output is
  never overwritten, but the name is tested before the scenarios and replaced by the rename; a temporary file a dead packager left
  makes `tsp catalog` refuse until it is removed; `valid_version` accepts leading zeros and refuses
  "1.0.0-rc.1+build".

### Bounds
- `store`: one issuer (issuers share no state but the root directory; the theorems
  cover any number), sequences 0..2 so that there are older, equal and newer ones,
  `MaxMarkers = 2` so that the limit is reached with a newer sequence waiting,
  `Patience = 1` so that a call waits, is woken, and times out. Calls are unlimited in number.
- `durable_*`: one issuer, two sequences, two verifiers: one that appends and fails or
  dies, one that finds the marker; no waiting (`Patience = 0`), which `store` covers. Power losses are unlimited in number.
- `session`, `session_fork`: pipes of one frame (`Room`), so that both sides block on full pipes;
  `MaxFrames = 2` so that a frame can be skipped and the budget exhausted; all four
  scripts. The proofs cover any of these bounds. Optimizer outcomes are `pass` and `optimize` for the conformance property;
  an arbitrary program may write every reply, and another host every frame.
- `pipeline`: one change of the files (`MaxChanges`), one stage run again (`MaxReruns`), at most one document not earned
  (`MaxFailed`), because one decides; evidence differs from the usual one in one field (`Near`), so that each test of an
  evaluator is met alone from both sides, a duration on, just past and well past its limit; fixtures, golden outputs and answers
  of zero to five bytes (`MaxBytes`), which include the empty fixture and the first exact fifth; the fixture has the name of
  the one reported beside it, or another (`CaseNames`). `reduction_boundary` needs none of the first three.
- `decision`: two hosts, two releases of one issuer, two lists (`MaxSequence = 1`), which
  gives one before and one after a revocation; lifetime, window and fetch budget of one tick in a clock of three, so that
  each test fails and passes; keys that end at different ticks; one envelope. Hosts are interchangeable (symmetry; no liveness in this run).
- `campaign`: one case of each class, twice, so that the loops wrap; a second of two
  milliseconds, so that a campaign begins within, and crosses, a second; five
  milliseconds (`MaxTime`), which reach past the campaign's maximum of three and the
  worker's own of four; at most one mark beside the termination of an observation (`MaxMarks`), because
  each mark alone already decides, and at most one flawed execution
  (`MaxFlawed`), because the first one decides; thresholds below the plan, which leaves
  room for a short campaign. The clock is set once, by a second either way.
- `attempt`: one call fails, anywhere, and on Windows two, since it takes two to leave a
  process behind; the two terminations of a Windows clean-up fail together, as one (for Linux the proofs cover any number). Both Linux directories may exist
  already. A macOS plugin writes two units (`MaxOutput`) where a stream holds one; on the other platforms a stream carries more
  than its limit or not, which is all the host's tests ask. The executable is replaced at most once.
- `toolchain`: two packagers that race for a name, two platforms and two versions, so that a
  catalog has several entries and may mix versions; two scenarios instead of three, so that a
  build may change between two of them; one edit and one fault (`MaxEdits`, `MaxFaults`), because each alone
  already meets every place of the other processes. Edits never bring old bytes of the executable back:
  a build exchanged during the scenarios and put back before the comparison is not noticed by the code
  either. The calls start with a plain directory beside a package of another platform, of the same version or of another one, with a sealed one beside the temporary files of earlier calls that died, with a bare `--output`, and with one directory for each rule that may be broken.

### Fairness
- `EveryCallDecided`: weak fairness of the steps of a verifier that is scheduled (a
  running thread continues); none for `Stalled` ones, and none for failures or crashes: no
  call counts on one to end. The deadline is modelled by the bounded number of retries
  of the polling loop, each of which sleeps and then compares with the clock.
- `RunsReturnUnlessHeld`, `EveryRunReturns`: weak fairness of the host's two threads while the host lives,
  which covers the clock of `recv_timeout` and of the exit grace. Nothing is assumed of an arbitrary plugin.
- `NoOrphanPlugin`: weak fairness of the process on an SDK loop, whose optimizer returns. Any host may be killed at any point.
- `EveryCallReturns`: weak fairness of the host's thread, of the kernel completing a
  kill, of the deadline passing, and of the bounded waits of the Windows kernel, of which one may be for a process that could not
  be terminated; the grace periods of the other two need none, because a kill is completed. Nothing is assumed of the plugin.
- `GoodDirectoryIsPackaged`: weak fairness of each packager's steps, the beginning of another
  call after a refused one included: callers try again. Nothing is assumed of the cataloger.

The pass runs check for deadlock, except `pipeline`, where a job that is rejected, signed, or has no stage left to
run has reached its end; `reduction_boundary` is the same specification. A session and an attempt that have returned stutter explicitly.

## 5. Proofs

`RevocationProofs` proves, for every set of verifiers and issuers and every
bound: type correctness, `NoStaleAcceptance`, `ReadsAreCurrent`,
`AcceptedIsRecorded`, `WithinMarkerLimit`, `AppendOnly`, and that `RevocationStore` implements
`RollbackRegister`. None of these is inductive alone: that a linked marker is
the highest needs what the scan found to be true still at the link, which needs
the lock. The inductive invariant `IInv` says so: `LockInv` (whoever is past
the lock holds it), `ScanInv` (a call that is about to link has a scan that
is still the maximum and a directory with room), `CommitInv` and `ReadInv` (what a
call is about to say is in the store and not below its floor), `ToldInv` (what was
told is still recorded), `OutcomeInv` (which places already carry a result).
`TypePreserved` and `RestPreserved` show that each action keeps it, `Invariance` is the
temporal step, and the properties follow. `Refinement` uses `IInv` in `StepRefines`:
the link, or the scan that finds the marker, is the register's `Commit`; every other step maps to an
answer or a stutter.

`CertificationDecisionProofs` proves `KnownRevocationHolds` and
`RevocationTakesEffect` for any number of hosts, issuers, releases and keys, any
window and any budget. `DecisionIInv` joins the order of what issuers sign
(`ListsInv`: later lists have larger numbers and contain earlier revocations), what verification
established about a call (`VerifiedInv`), and what the store keeps (`StoreInv`).
`RevokedLater` then turns a numerical order of sequences into an inclusion of revocations.

`LinuxAttemptProofs` proves, for any number of failing calls, that an attempt returns with
no process left (`AttemptLeavesNoProcess`) and without its directories
(`AttemptRemovesItsFiles`), never touches another attempt's (`OthersUntouched`), and reports
an exit or signal only if it was the plugin's (`ExitedMeansExecuted`, `OwnEndIsOwn`). The
inductive invariant `AttemptIInv` says what each place of the host holds: the child (`ChildInv`)
and the directories (`DirInv`); that a kill outside the cleanup has a reason and that each reason but the deadline
leaves a mark of its own (`KillInv`), which decides the result before the wait status does; and that a child which gave up has
its byte in the pipe or read, since the host listens until it has seen the pipe's end
(`SetupInv`). It is why the second loop must wait for `status` as well as for the two
streams. `OwnEndIsOwn` says nothing of the reverse: a plugin that exits just before the deadline test is reported as killed at its deadline.

`LinuxAttemptProofs` also proves `Refinement`: the Linux kernel implements `AttemptContract`, whatever fails.
The part of `AttemptIInv` it needs beside the others is `EndInv` (nothing is killed before there is a child, and
nothing for a deadline that has not passed); every step is then the contract's start, doom, end, collection, cause or return, or invisible.
`DrainInv` says that a closed stream carries nothing that is not known, and that a result is given when both are closed.

`NativeDriverProofs` does the same for all three kernels behind their two callers, for any number of failing calls and any
amount of output: `DriverRefinement`, that each of them implements `AttemptContract`; `DroppedIsReported`; and `RightFileIsReported`.
`DriverIInv` joins the kernels' invariants, each in its own module, with what the callers know: a file
that was verified is there until it is replaced behind the verification (`CallInv`), and an observation is
one the kernel has returned (`ObservedInv`). A step of one kernel leaves the other two alone (`LeftAlone`), so that there is one lemma
per kernel and group of its actions (`MacHostPreserves` to `WindowsRestPreserves`). What the kernels' invariants are about:
on macOS, `DrainInv`, that whatever was taken past the limit is marked, or was passed over by a probe, or is still in front of its
probe; on Windows, `ProcessInv`, that the process is in the job before it runs, whichever of three guards an error
meets, so that closing the job ends it, and `DrainInv`, that what is past a limit is marked or still in its pipe.
Two parts were found by failed proofs: a stream is closed only once its process has ended (that it is not alive
says too little: it may not have been started); and the Windows process that is about to
be resumed is in its job, without which an error at that point would leave it running.
For the refinement, `MacView` and `WindowsView` say what the contract sees of a kernel's record, and a step is looked
at through it alone (`MacKeepsContract`, `WindowsKeepsContract`).

`CertificationPipelineProofs` proves `PassIsEarned`, `SignedIsEarned`, `UndisturbedJobReports` and `AcceptedIsReportable` for any
number of changes, stages run again and failed stages, and any `MaxBytes`: fixtures, golden outputs and answers of every length, the empty one included, so that
`AcceptedIsReportable` says of all of them which reports the benchmark stage keeps. The evidence is
the model's: near the usual in one field. `PipelineIInv` says of every document, in the job or in a report, that it passes as it earned it
and which files it names (`DocInv`: only digests that its evaluator has compared tie it to the files of
its subject; the manifest's and the SBOM's digests tie those stages to one manifest and one SBOM);
that a manifest's id tells what it lists (`SameLists`, for which a change must give an id no document has, hence the bound on ids in `DocsInv`);
and of a report that its documents are bound together, each in its place (`ChecksInv`). That what is earned is of one release
then follows by following the digests through `CrossBound` (`ChecksAreOneRelease`).
That each evaluator agrees with `Earns`, which counts differently, is one lemma per stage (`BenchmarkEarns` to `AdminEarns`);
they hold for all evidence of the right type, not only for that near the usual. The benchmark's
needs a total over cases of any number, and that repeating them leaves the savings in percent as they are (`SavingsScale`, which
is about rounding): the totals are sums by recursive functions, and the induction over them goes
through the well-foundedness of the natural numbers, for a set instead of a predicate (`SetInduction`).

`ReleaseToolchainProofs` proves, for any packagers, platforms, versions and number of edits
and faults, from any of the starts `ToolchainAssumption` allows, that `PackagesAreSound` and
`CatalogIsSound`. `ToolchainIInv` follows the data on their way under a name:
`ScenarioInv` (no edit brings a build number back, so that a packager whose executable is the one it read before the
scenarios has the one they ran, which conforms), `WriteInv` (what is being written may
stay under its target, and the temporary file is that, whole and synced, when it is renamed),
`FilesInv` (so is every file a name has had since the directory was last on the disk; this is what a power loss needs,
which may bring back any of them), `ReportsInv` (a report states the build of its archive) and `EntriesInv` (each entry read
agrees with an archive that was under its name then). `MoveKeeps` reduces a step of one process to what the invariant asks of its next place
(`Fits`), since a step of one process disturbs no other; there is one lemma per action. That a `tsp package` may replace an archive
after the cataloger read its report is no obstacle: the entry holds the archive that was compared, and whatever is under a name conforms.

`TsppSessionProofs` proves, for any pipe size and frame budget and every plugin of the model, that
`NothingLeftBehind`, `OkMeansCleanExit` and `SdkPluginConforms`. `SessionIInv` has two parts. `HostInv` holds with any plugin:
where the main thread is when the worker is at each of its places (`ThreadsInv`), what has been decided by then
(`DecidedInv`: the channel holds what the worker ended with, and only its success leads to the exit being judged), which requests
the worker has behind it (`ScriptInv`), and that a TSPP v2 service has refused the workbench's
initialize (`ContextInv`). `InStepInv` is about a plugin on an SDK loop, whose optimizer keeps to the protocol (`Conforming`): between two requests nothing is
in the pipes, and after one there is exactly one of the request, the optimizer's call, the reply
being written, and the reply (`Exchanging`). Without it nothing excludes a reply to an earlier
request when the worker asks the next one. Past the exchange, shutdown is under way or was taken (`Ending`),
so that the plugin ends with success whichever of the two it sees first, the notification or the end of its input.
The property is about what a plugin says and how it exits: a deadline may pass at any moment, and fails the run under its own name.

`RevocationProofs` proves `AppendedAcceptanceSurvives` for any verifiers and issuers and any number
of power losses, under `DirectorySync`: what is kept is durable and what is durable is visible
(`KeptInv`), and a sequence whose call is past `SyncDirectory` is durable (`AppendInv`).
`FuzzCampaignProofs` proves, for any corpus, policy, limits and length, `PassIsEarned`, `ShortCampaignFails`,
`DriftLeavesNoEvidence`, `NoExecutionAfterUnreaped` and `HonestReportIsEvaluated`. `CountsInv` says that whatever was wrong with an execution shows in some counter,
because the oracle cannot call a flawed one right without a finding beside it
(`RightIsFlawless`); `StopInv` why a loop that ended early was stopped; `VerdictInv` what a verdict was measured under.
A second invariant on top of it, `ReportIInv`, is about the report: `SharesInv`, that each class was executed once per repetition done and
once per case done of the one under way, which bounds it by the plan (`SharesAreBounded`) and needs the cases
counted over a corpus of any length and order; and `ClocksInv`, that the start was read before the mark and the end after the duration, so that
rounding to seconds takes less than the `Second - 1` the evaluator adds (`HonestIsConsistent`).

Assumptions: only the named `ASSUME`s of the modules (bounds are naturals, `NoOne` is no verifier, platforms are the three there are,
authorities and keys are well formed, a plan has passed its validation), and `DirectorySync` where it is said; TLC evaluates the
`ASSUME`s in the runs. The inductive invariants are also checked by TLC in `store`, `decision`, `session`, `attempt` and
`toolchain`; those of the durable store, of the campaign and of the pipeline are stated by the proofs alone.

Only model-checked, on the bounds above: liveness (`EveryCallDecided`, `RunsReturnUnlessHeld`, `NoOrphanPlugin`, `EveryCallReturns`,
`GoodDirectoryIsPackaged`), which is out of the prover's reach. All other properties of the passing runs are theorems.

## 6. Left out, and why

- Text grammars, JSON, Ed25519 and digests: a document verifies or it does not, and two builds never have the same digest.
- `scaffold.rs`: templates of a new plugin, written once into an empty directory, without later state. Examples, schemas, scripts, argument parsing and printing.
- A panic of the worker thread (`RecvTimeoutError::Disconnected`): the worker's code has no reachable panic.
- The tests of one HTTP response in the host connector: any failure is one `FetchFails`. The admin command line around the issuer is file I/O.
- The three stages of level 1: the repository has no evaluator for them. Their documents are external inputs of the
  pipeline, passed or failed, bound to the manifest or the executable.
- In the campaign: the checks of digests, subject and engine before it begins, and the
  counters' overflow, which the bound on planned executions excludes. That a deadline kill
  is reported with a duration of at least the deadline is assumed of the driver (the Linux
  driver measures the duration after the test that kills). The campaign runs over any observation; that it
  gets one only through the contract is not composed.
- In the attempts: the death of the host itself, after which leaf, root and process stay and only
  `OthersUntouched` says what the next attempt of that name does (a parked Linux child holds the
  write end of its own sync pipe and so does not see its host end); the input written to the plugin, except for the
  Windows writer thread; a plugin that closes its streams before it ends; the time limit of `wait_empty`, which finds the Linux group
  empty because the child is the init process of its PID namespace, and the kernel ends
  the namespace with it; the contents of seccomp, Landlock, sandbox and container profiles; the configuration's checks before the attempt, which are
  one failing step; a Windows handle to stdin that leaks if the writer cannot be started.
- `deprovision` of the runtime host, which removes a Windows container profile and its files.
- In the toolchain: the bytes of the archive, its sorted entries and its ZIP32 limits are rules that refuse or not; a removal in an error path that
  fails as well leaves what a death leaves.
