--------------------------- MODULE ReleaseToolchain ---------------------------
(***************************************************************************)
(* `tsp package` and `tsp catalog` on one machine and one release          *)
(* directory, which may hold packages of other machines already.  Packagers*)
(* resolve a plugin directory, run it through Level 1 conformance, pack it *)
(* and put the archive under its release name; the report that `--json`    *)
(* prints goes beside it by the shell's redirection, as in the release     *)
(* workflow.  One cataloger seals the archives and reports it finds.       *)
(*                                                                         *)
(* Directories may be edited, and the executable rebuilt, at any moment; a *)
(* process may die, a call of the system may fail and the machine may lose *)
(* power.  A process that is started again may get the process id it had,  *)
(* as in a container, and with it the name of its old temporary file.      *)
(* The plugin id is one and left out.                                      *)
(***************************************************************************)
EXTENDS PackageSource

CONSTANTS Packagers,     \* process ids of `tsp package`
          Cataloger,     \* process id of `tsp catalog`
          Platforms,     \* platforms a release has packages for
          Platform,      \* platform_key of this machine
          Release,       \* the version in the --output names of the workflow
          Scenarios,     \* of the conformance run; there are three
          Starts,        \* the cases to start from, see below
          MaxFaults      \* bound on deaths, failed calls and power losses

Writers == Packagers \union {Cataloger}

\* Canonical archive names, the one --output states, and the name of the catalog.
Names == [version : Versions, platform : Platforms]
OutputName == [version |-> Release, platform |-> Platform]
CatalogName == [version |-> "all", platform |-> "all"]
Targets == Names \union {CatalogName}

ASSUME ToolchainAssumption ==
    /\ Cataloger \notin Packagers /\ MaxFaults \in Nat
    /\ Platform \in Platforms /\ Release \in Versions
    /\ Scenarios \in Nat \ {0}
    /\ CatalogName \notin Names
    /\ \A s \in Starts :
          /\ s.directory \in Directories /\ s.directory.build = 0       \* the plugin directory
          /\ s.downloaded \subseteq Names      \* packages made on other machines
          /\ s.left \subseteq Packagers        \* earlier calls died while they wrote
          /\ s.conforms \in [Builds -> BOOLEAN]
          /\ s.downloaded # {} => s.conforms[0]
          /\ s.form \in {"inDirectory", "bare"}

Absent == [kind |-> "absent"]
Partial == [kind |-> "partial"]
Archive(p, build, version) ==
    [kind |-> "archive", platform |-> p, build |-> build, version |-> version]

\* The release id of a report stands for the version, the platform and the build
\* that were resolved; the archive for its digest and size.
ReportOf(n, release, archive) ==
    [kind |-> "report", version |-> {n.version}, platform |-> n.platform,
     release |-> release, build |-> archive.build, archive |-> archive]

\* A file: its data, and whether they are sure to survive a power loss.
File(data, stable) == [data |-> data, stable |-> stable]
NoFile == File(Absent, TRUE)

VARIABLES form,          \* how the callers spell --output
          conforms,      \* which builds pass the three scenarios
          directory,     \* the plugin directory
          files,         \* what each target name holds
          past,          \* what a power loss may bring back under a name
          temporary,     \* each writer's temporary file beside a target
          reports,       \* what each package report file holds
          pc, call,      \* each packager's place and what its call has read
          stage, listed, entry, entries,     \* the cataloger's
          edits, faults

world == <<form, conforms>>
disk == <<files, past, temporary>>
catalogVars == <<stage, listed, entry, entries>>
toolchainVars == <<world, directory, disk, reports, pc, call, catalogVars, edits, faults>>

\* What a call has read so far; `data` is what it is about to write.
Blank == [version |-> {}, build |-> 0, before |-> 0, runs |-> 0, data |-> Absent]
NoEntry == [kind |-> "none"]

ToolchainInit ==
    /\ \E s \in Starts :
          /\ directory = s.directory /\ form = s.form /\ conforms = s.conforms
          /\ files = [t \in Targets |-> IF t \in s.downloaded
                                        THEN File(Archive(t.platform, 0, t.version), TRUE)
                                        ELSE NoFile]
          /\ reports = [n \in Names |-> IF n \in s.downloaded
                                        THEN ReportOf(n, 0, Archive(n.platform, 0, n.version))
                                        ELSE Absent]
          /\ temporary = [w \in Writers |-> IF w \in s.left THEN File(Partial, TRUE) ELSE NoFile]
    /\ past = [t \in Targets |-> {}]
    /\ pc = [w \in Writers |-> "idle"] /\ call = [w \in Writers |-> Blank]
    /\ stage = "idle" /\ listed = {} /\ entry = NoEntry /\ entries = {}
    /\ edits = 0 /\ faults = 0

-------------------------------------------------------------------------------
(* write_atomic, the same in package.rs and catalog.rs: a temporary file      *)
(* beside the target, named after it and the process id; create_new, write,   *)
(* sync_all, rename.  The directory is not synced.                            *)

Goto(w, place) == pc' = [pc EXCEPT ![w] = place]
Target(w) == IF w = Cataloger THEN CatalogName ELSE OutputName
SetTemporary(w, file) == temporary' = [temporary EXCEPT ![w] = file]

CreateTemporary(w) ==
    /\ pc[w] = "creating"
    /\ IF temporary[w] = NoFile
       THEN SetTemporary(w, File(Partial, FALSE)) /\ Goto(w, "writing")
       ELSE UNCHANGED temporary /\ Goto(w, "removing")
    /\ UNCHANGED <<files, past>>

\* write_all and sync_all: the data of the temporary are on the disk.
WriteTemporary(w) ==
    /\ pc[w] = "writing"
    /\ SetTemporary(w, File(call[w].data, TRUE))
    /\ Goto(w, "renaming")
    /\ UNCHANGED <<files, past>>

\* rename replaces whatever has the name by now.
Rename(w) ==
    /\ pc[w] = "renaming"
    /\ files' = [files EXCEPT ![Target(w)] = temporary[w]]
    /\ past' = [past EXCEPT ![Target(w)] = @ \union {files[Target(w)]}]
    /\ SetTemporary(w, NoFile)
    /\ Goto(w, "reporting")

\* Fault: a temporary the call did not create stays.
LeavesTemporary(w) == UNCHANGED temporary

\* remove_file after any error, an older call's temporary included.
RemoveTemporary(w) == SetTemporary(w, NoFile)

Clean(w) ==
    /\ pc[w] = "removing"
    /\ RemoveTemporary(w)
    /\ Goto(w, "failing")
    /\ UNCHANGED <<files, past>>

AtomicWrite(w) ==
    /\ CreateTemporary(w) \/ WriteTemporary(w) \/ Rename(w) \/ Clean(w)
    /\ UNCHANGED <<world, directory, reports, call, catalogVars, edits, faults>>

-------------------------------------------------------------------------------
(* tsp package *)

Learn(k, field, value) == call' = [call EXCEPT ![k][field] = value]

\* A step that only reads: on to the next place, or to the failed end.  Reads of
\* different files that follow each other are one step: no edit between them makes
\* a difference that an edit before or after both does not.
Check(k, from, holds, to) ==
    /\ pc[k] = from
    /\ Goto(k, IF holds THEN to ELSE "failing")
    /\ UNCHANGED <<world, directory, disk, reports, catalogVars, edits, faults>>

\* The workflow opens `> <package>.package-report.json` before the tool starts.
BeginPackage(k) ==
    /\ pc[k] \in {"idle", "failed"}
    /\ reports' = [reports EXCEPT ![OutputName] = Partial]
    /\ Goto(k, "resolving")
    /\ UNCHANGED <<world, directory, disk, call, catalogVars, edits, faults>>

\* load_and_resolve: the manifest, then the digest of the executable.
Resolve(k) ==
    /\ Check(k, "resolving",
             /\ ValidManifest(directory.manifest)
             /\ SealAgrees(directory.manifest, directory.build), "admitting")
    /\ call' = [call EXCEPT ![k].version = {directory.manifest.version},
                            ![k].build = directory.build]

\* output.exists(), and output.parent().is_dir(): the parent of a bare file name
\* is the empty path, which is no directory.
ParentIsDirectory == form # "bare"

\* The executable is still the one whose digest is in the release id.
StillResolved(k) == directory.build = call[k].build

\* package_plugin up to the scenarios; validate_superec is the last of it.
Admit(k) ==
    /\ Check(k, "admitting",
             /\ files[OutputName].data = Absent /\ ParentIsDirectory
             /\ StillResolved(k)
             /\ \E v \in call[k].version : RecordAccepted(directory.record, v), "running")
    /\ Learn(k, "before", directory.build)

\* run_scenario starts the executable that is at its path now.
RunScenario(k) ==
    /\ Check(k, "running", conforms[directory.build],
             IF call[k].runs + 1 < Scenarios THEN "running" ELSE "collecting")
    /\ Learn(k, "runs", call[k].runs + 1)

\* Fault: the executable is not compared again.
NotComparedAgain(k) == TRUE

\* The executable is still the one that was read before the scenarios.
StillConformant(k) == directory.build = call[k].before

\* The executable is compared again; plugin.json is read again too, and packed
\* without being compared with the manifest that was validated.
Collect(k) ==
    /\ Check(k, "collecting", StillConformant(k) /\ TreeAccepted(directory), "creating")
    /\ Learn(k, "data", Archive(Platform, directory.build, directory.manifest.version))

\* The report states the release that was resolved and the archive written.
Report(k) ==
    /\ pc[k] = "reporting"
    /\ LET r == ReportOf(OutputName, call[k].build, call[k].data)
       IN  reports' = [reports EXCEPT ![OutputName] = [r EXCEPT !.version = call[k].version]]
    /\ call' = [call EXCEPT ![k] = Blank]
    /\ Goto(k, "idle")
    /\ UNCHANGED <<world, directory, disk, catalogVars, edits, faults>>

\* The JSON error goes where the report would have gone.
Refuse(k) ==
    /\ pc[k] = "failing"
    /\ reports' = [reports EXCEPT ![OutputName] = Partial]
    /\ call' = [call EXCEPT ![k] = Blank]
    /\ Goto(k, "failed")
    /\ UNCHANGED <<world, directory, disk, catalogVars, edits, faults>>

Package(k) ==
    \/ BeginPackage(k) \/ Resolve(k) \/ Admit(k) \/ RunScenario(k) \/ Collect(k)
    \/ AtomicWrite(k) \/ Report(k) \/ Refuse(k)

-------------------------------------------------------------------------------
(* tsp catalog *)

Packages == {n \in Names : files[n].data # Absent}
Reported == {n \in Names : reports[n] # Absent}

\* A temporary file of any packager is an unexpected file of the directory.
OnlyReleaseFiles == \A k \in Packagers : temporary[k] = NoFile

\* The tests of assemble_package_catalog up to the report set.  A refusal here
\* changes nothing.
BeginCatalog ==
    /\ stage = "idle"
    /\ files[CatalogName].data = Absent /\ ParentIsDirectory
    /\ OnlyReleaseFiles
    /\ Packages # {} /\ Packages = Reported
    /\ stage' = "reading" /\ listed' = Packages
    /\ UNCHANGED <<world, directory, disk, reports, pc, call, entry, entries, edits, faults>>

RefuseCatalog ==
    /\ stage' = "idle" /\ listed' = {} /\ entry' = NoEntry /\ entries' = {}

\* read_report's contract: the release id is computed again from the report.
ReportContract(r) == r.kind = "report" /\ r.release = r.build

\* validate_report_identity, and one version for all packages.
IdentityAgrees(r, n) ==
    /\ r.version = {n.version} /\ r.platform = n.platform
    /\ \A e \in entries : e.name.version = n.version

ReadReport(n) ==
    /\ stage = "reading" /\ n \in listed /\ entry = NoEntry
    /\ IF ReportContract(reports[n]) /\ IdentityAgrees(reports[n], n)
       THEN entry' = [kind |-> "entry", name |-> n, report |-> reports[n]]
            /\ UNCHANGED <<stage, listed, entries>>
       ELSE RefuseCatalog
    /\ UNCHANGED <<world, directory, disk, reports, pc, call, edits, faults>>

\* Fault: the archive is taken for the reported one.
AnyArchive(n) == TRUE

\* Size and SHA-256 digest of the archive are those the report states.
ArchiveAgrees(n) == files[n].data = entry.report.archive

ReadPackage ==
    /\ stage = "reading" /\ entry # NoEntry
    /\ LET n == entry.name
       IN  IF ArchiveAgrees(n)
           THEN /\ entries' = entries \union
                      {[name |-> n, release |-> entry.report.release, archive |-> files[n].data]}
                /\ listed' = listed \ {n} /\ entry' = NoEntry
                /\ UNCHANGED stage
           ELSE RefuseCatalog
    /\ UNCHANGED <<world, directory, disk, reports, pc, call, edits, faults>>

WriteCatalog ==
    /\ stage = "reading" /\ listed = {}
    /\ stage' = "writing"
    /\ Learn(Cataloger, "data", [kind |-> "catalog", entries |-> entries])
    /\ Goto(Cataloger, "creating")
    /\ UNCHANGED <<world, directory, disk, reports, listed, entry, entries, edits, faults>>

EndCatalog ==
    /\ pc[Cataloger] \in {"reporting", "failing"}
    /\ Goto(Cataloger, "idle")
    /\ call' = [call EXCEPT ![Cataloger] = Blank]
    /\ RefuseCatalog
    /\ UNCHANGED <<world, directory, disk, reports, edits, faults>>

Catalog ==
    \/ BeginCatalog \/ (\E n \in Names : ReadReport(n)) \/ ReadPackage \/ WriteCatalog
    \/ AtomicWrite(Cataloger) \/ EndCatalog

-------------------------------------------------------------------------------
(* Edits, failures and power losses *)

\* The executable is rebuilt, or the manifest moved to another version.  No edit
\* brings old bytes of the executable back.
Edit ==
    /\ edits < MaxEdits
    /\ edits' = edits + 1
    /\ \/ directory' = [directory EXCEPT !.build = edits + 1]
       \/ \E v \in Versions \ {directory.manifest.version} :
             directory' = [directory EXCEPT !.manifest.version = v]
    /\ UNCHANGED <<world, disk, reports, pc, call, catalogVars, faults>>

\* A call of the system fails: a read, the conformance run, or a write.  A removal
\* that fails as well leaves what a death leaves, and is left out.
Fail(w) ==
    /\ faults < MaxFaults /\ faults' = faults + 1
    /\ pc[w] \notin {"idle", "failed", "removing", "reporting", "failing"}
    /\ Goto(w, IF pc[w] \in {"creating", "writing", "renaming"} THEN "removing" ELSE "failing")
    /\ UNCHANGED <<world, directory, disk, reports, call, catalogVars, edits>>

\* The process is killed; its temporary file stays.
Running(w) == pc[w] \notin {"idle", "failed"}

Die(w) ==
    /\ faults < MaxFaults /\ faults' = faults + 1
    /\ \/ w \in Packagers /\ Running(w) /\ UNCHANGED catalogVars
       \/ w = Cataloger /\ stage # "idle" /\ RefuseCatalog
    /\ Goto(w, "idle")
    /\ call' = [call EXCEPT ![w] = Blank]
    /\ UNCHANGED <<world, directory, disk, reports, edits>>

\* What the disk may hold of a file afterwards.
Settled(file) == {File(file.data, TRUE)} \union
                 (IF file.stable THEN {} ELSE {File(Partial, TRUE)})

Settlements(t) == UNION {Settled(file) : file \in past[t] \union {files[t]}}

Renamed == {t \in Targets : past[t] # {}}

\* All processes die.  A rename may be undone, since the directory was not
\* synced; so may the creation of a temporary or of a report.
PowerLoss ==
    /\ faults < MaxFaults /\ faults' = faults + 1
    /\ \E left \in [Renamed -> UNION {Settlements(t) : t \in Renamed}] :
          /\ \A t \in Renamed : left[t] \in Settlements(t)
          /\ files' = [t \in Targets |-> IF t \in Renamed THEN left[t] ELSE files[t]]
    /\ \E kept \in BOOLEAN :
          temporary' = [w \in Writers |->
              IF ~kept \/ temporary[w] = NoFile THEN NoFile
              ELSE File(IF temporary[w].stable THEN temporary[w].data ELSE Partial, TRUE)]
    /\ \E lost \in {{}, {n \in Reported : n.platform = Platform}}, rest \in {Absent, Partial} :
          reports' = [n \in Names |-> IF n \in lost THEN rest ELSE reports[n]]
    /\ past' = [t \in Targets |-> {}]
    /\ pc' = [w \in Writers |-> "idle"] /\ call' = [w \in Writers |-> Blank]
    /\ RefuseCatalog
    /\ UNCHANGED <<world, directory, edits>>

ToolchainNext ==
    \/ \E k \in Packagers : Package(k)
    \/ Catalog
    \/ Edit
    \/ \E w \in Writers : Fail(w) \/ Die(w)
    \/ PowerLoss

\* Callers try again until there is a package, and a process that runs goes on.
ToolchainSpec ==
    /\ ToolchainInit /\ [][ToolchainNext]_toolchainVars
    /\ \A k \in Packagers : WF_toolchainVars(Package(k))

-------------------------------------------------------------------------------
(* The inductive invariant behind the first two properties *)

Places == {"idle", "resolving", "admitting", "running", "collecting", "creating",
           "writing", "renaming", "removing", "reporting", "failing", "failed"}
Archives == [kind : {"archive"}, platform : Platforms, build : Builds, version : Versions]
Entries == [name : Names, release : Builds, archive : Archives]
Data == {Absent, Partial} \union Archives \union [kind : {"catalog"}, entries : SUBSET Entries]
Files == [data : Data, stable : BOOLEAN]
FullReports == [kind : {"report"}, version : SUBSET Versions, platform : Platforms,
                release : Builds, build : Builds, archive : Archives]
Reports == {Absent, Partial} \union FullReports
Calls == [version : SUBSET Versions, build : Builds, before : Builds, runs : Nat, data : Data]

ToolchainTypeOK ==
    /\ conforms \in [Builds -> BOOLEAN] /\ directory \in Directories
    /\ files \in [Targets -> Files] /\ past \in [Targets -> SUBSET Files]
    /\ temporary \in [Writers -> Files] /\ reports \in [Names -> Reports]
    /\ pc \in [Writers -> Places]
    /\ call \in [Writers -> Calls]
    /\ listed \subseteq Names /\ entries \subseteq Entries
    /\ entry \in {NoEntry} \union [kind : {"entry"}, name : Names, report : FullReports]
    /\ edits \in 0 .. MaxEdits

SoundArchive(p, d) == d.kind = "archive" /\ d.platform = p /\ conforms[d.build]

SoundEntries(es) ==
    \A e \in es : /\ e.release = e.archive.build /\ conforms[e.release]
                  /\ \A f \in es : f.name.version = e.name.version

\* What may be under a name, or on its way there.
Sound(t, d) ==
    d # Absent => IF t = CatalogName THEN d.kind = "catalog" /\ SoundEntries(d.entries)
                                     ELSE SoundArchive(t.platform, d)

\* A power loss brings back nothing that is half written.
FilesInv ==
    \A t \in Targets : \A f \in past[t] \union {files[t]} : f.stable /\ Sound(t, f.data)

\* No build comes back, so that one that has not changed since before the scenarios
\* is the one they ran.
ScenarioInv ==
    /\ directory.build <= edits
    /\ \A k \in Packagers :
          /\ call[k].before <= edits
          /\ pc[k] = "collecting" /\ call[k].before = directory.build
                => conforms[directory.build]

\* What is being written may stay, and the temporary file that is renamed is whole.
WriteInv ==
    /\ \A w \in Writers :
          /\ pc[w] \in {"creating", "writing", "renaming"} => Sound(Target(w), call[w].data)
          /\ pc[w] = "renaming" => temporary[w] = File(call[w].data, TRUE)
    /\ \A k \in Packagers :
          pc[k] \in {"creating", "writing", "renaming", "reporting"}
              => call[k].data \in Archives

\* A report states the build of its archive.
ReportsInv ==
    \A n \in Names : reports[n].kind = "report" => reports[n].build = reports[n].archive.build

\* So does an entry, whose archive was there when it was read.
EntriesInv ==
    /\ SoundEntries(entries)
    /\ entry # NoEntry =>
          /\ entry.report.release = entry.report.archive.build
          /\ \A e \in entries : e.name.version = entry.name.version

\* The conjunction that every step preserves: what is under the names, what the
\* scenarios established, what is on its way, and what the cataloger has read.
ToolchainIInv ==
    ToolchainTypeOK /\ FilesInv /\ ScenarioInv /\ WriteInv /\ ReportsInv /\ EntriesInv

-------------------------------------------------------------------------------
(* Properties *)

\* Whatever is under a release name is a whole archive of a build that conforms,
\* for the platform of the name, at every moment and after any power loss: the
\* build that is packed is the one the three scenarios ran, although a path and
\* not an open file was run, and write_atomic syncs before it renames.
PackagesAreSound ==
    \A n \in Names : files[n].data # Absent =>
        /\ files[n].data.kind = "archive"
        /\ files[n].data.platform = n.platform
        /\ conforms[files[n].data.build]

\* Every entry of a catalog under its name ties a release to the archive of that
\* very build, of one version in all names, although packagers may have raced for
\* a name, and reports and archives are read one after the other.
CatalogIsSound ==
    LET c == files[CatalogName].data
    IN  c # Absent =>
        /\ c.kind = "catalog"
        /\ \A e \in c.entries :
              /\ e.release = e.archive.build /\ conforms[e.release]
              /\ \A f \in c.entries : f.name.version = e.name.version

\* The plugin directory could be packaged as it is.
Packagable == form = "inDirectory" /\ Accepted(directory) /\ conforms[directory.build]

\* A directory that stays good is packaged in the end and the package stays,
\* whatever dead processes left beside it: a temporary file of the name the call
\* needs costs that one call, whose error path removes it.
GoodDirectoryIsPackaged ==
    <>[]Packagable => <>(files[OutputName].data # Absent)

\* With nothing changed and nothing failing, `tsp package` on a good directory
\* only refuses a name that is taken, as the commands in the documents assume.
UndisturbedCallPackages ==
    \A k \in Packagers :
        pc[k] = "failed" /\ edits = 0 /\ faults = 0
            /\ Accepted(directory) /\ conforms[directory.build]
        => files[OutputName].data # Absent
===============================================================================
