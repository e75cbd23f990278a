------------------------ MODULE ReleaseToolchainProofs ------------------------
(***************************************************************************)
(* Proofs about ReleaseToolchain for any packagers, platforms, versions    *)
(* and starting directories, and any number of edits and faults.           *)
(***************************************************************************)
EXTENDS ReleaseToolchain, TLAPS

\* The names the two tools write.
LEMMA NameFacts ==
    /\ OutputName \in Names /\ OutputName \in Targets /\ OutputName.platform = Platform
    /\ CatalogName \in Targets /\ CatalogName \notin Names /\ OutputName # CatalogName
    /\ Names \subseteq Targets
    /\ \A k \in Packagers : k \in Writers /\ k # Cataloger /\ Target(k) = OutputName
    /\ Cataloger \in Writers /\ Target(Cataloger) = CatalogName
    /\ \A w \in Writers : Target(w) \in Targets
<1>1. OutputName \in Names /\ OutputName.platform = Platform /\ CatalogName \notin Names
  BY ToolchainAssumption DEF OutputName, Names
<1>2. \A k \in Packagers : k # Cataloger
  BY ToolchainAssumption
<1> QED BY <1>1, <1>2 DEF Targets, Target, Writers

\* What the constructors of files and archives return.
LEMMA FileFacts ==
    /\ NoFile \in Files /\ NoFile.data = Absent /\ NoFile.stable = TRUE
    /\ Absent \in Data /\ Partial \in Data
    /\ \A d \in Data, b \in BOOLEAN :
          File(d, b) \in Files /\ File(d, b).data = d /\ File(d, b).stable = b
BY DEF NoFile, File, Files, Data

\* What Archive returns.
LEMMA ArchiveFacts ==
    ASSUME NEW p \in Platforms, NEW b \in Builds, NEW v \in Versions
    PROVE  /\ Archive(p, b, v) \in Archives /\ Archive(p, b, v) \in Data
           /\ Archive(p, b, v).kind = "archive" /\ Archive(p, b, v).platform = p
           /\ Archive(p, b, v).build = b
BY DEF Archive, Archives, Data

\* A call that has read nothing.
LEMMA BlankFacts == 0 \in Builds /\ Blank \in Calls /\ Blank.before = 0
BY SourceAssumption, FileFacts DEF Builds, Blank, Calls

\* What is there at the start is sound; nothing is on its way.
LEMMA InitEstablishes == ToolchainInit => ToolchainIInv
<1> SUFFICES ASSUME ToolchainInit PROVE ToolchainIInv
  OBVIOUS
<1>1. PICK s \in Starts :
        /\ directory = s.directory /\ form = s.form /\ conforms = s.conforms
        /\ files = [t \in Targets |-> IF t \in s.downloaded
                                      THEN File(Archive(t.platform, 0, t.version), TRUE)
                                      ELSE NoFile]
        /\ reports = [n \in Names |-> IF n \in s.downloaded
                                      THEN ReportOf(n, 0, Archive(n.platform, 0, n.version))
                                      ELSE Absent]
        /\ temporary = [w \in Writers |-> IF w \in s.left THEN File(Partial, TRUE) ELSE NoFile]
  BY DEF ToolchainInit
<1>2. /\ s.directory \in Directories /\ s.directory.build = 0
      /\ s.downloaded \subseteq Names /\ s.conforms \in [Builds -> BOOLEAN]
      /\ s.downloaded # {} => s.conforms[0]
  BY ToolchainAssumption
<1>3. \A n \in s.downloaded :
         /\ n \in Names /\ n.platform \in Platforms /\ n.version \in Versions /\ conforms[0]
         /\ Archive(n.platform, 0, n.version) \in Archives
         /\ Archive(n.platform, 0, n.version) \in Data
         /\ Archive(n.platform, 0, n.version).kind = "archive"
         /\ Archive(n.platform, 0, n.version).platform = n.platform
         /\ Archive(n.platform, 0, n.version).build = 0
  <2> TAKE n \in s.downloaded
  <2>1. n \in Names /\ n.platform \in Platforms /\ n.version \in Versions /\ conforms[0]
    BY <1>1, <1>2 DEF Names
  <2> QED BY <2>1, ArchiveFacts, BlankFacts
<1>4. files \in [Targets -> Files]
  BY <1>1, <1>3, FileFacts
<1>5. \A n \in s.downloaded :
         /\ ReportOf(n, 0, Archive(n.platform, 0, n.version)) \in FullReports
         /\ ReportOf(n, 0, Archive(n.platform, 0, n.version)).build = 0
         /\ ReportOf(n, 0, Archive(n.platform, 0, n.version)).archive.build = 0
  BY <1>3, BlankFacts DEF ReportOf, FullReports
<1>6. reports \in [Names -> Reports]
  BY <1>1, <1>5 DEF Reports
<1>7. ReportsInv
  BY <1>1, <1>5 DEF ReportsInv, Absent
<1>8. temporary \in [Writers -> Files]
  BY <1>1, FileFacts
<1>9. ToolchainTypeOK
  <2>1. past \in [Targets -> SUBSET Files] /\ pc \in [Writers -> Places]
    BY DEF ToolchainInit, Places
  <2>2. call \in [Writers -> Calls]
    BY BlankFacts DEF ToolchainInit
  <2>3. listed \subseteq Names /\ entries \subseteq Entries /\ entry = NoEntry
    BY DEF ToolchainInit
  <2>4. edits \in 0 .. MaxEdits
    BY SourceAssumption DEF ToolchainInit
  <2> QED BY <1>1, <1>2, <1>4, <1>6, <1>8, <2>1, <2>2, <2>3, <2>4
          DEF ToolchainTypeOK
<1>10. FilesInv
  <2> SUFFICES ASSUME NEW t \in Targets PROVE files[t].stable /\ Sound(t, files[t].data)
    BY DEF ToolchainInit, FilesInv
  <2>1. CASE t \in s.downloaded
    <3>1. /\ files[t].stable = TRUE /\ files[t].data = Archive(t.platform, 0, t.version)
          /\ t # CatalogName
      BY <1>1, <1>3, <2>1, FileFacts, NameFacts
    <3> QED BY <1>3, <2>1, <3>1 DEF Sound, SoundArchive
  <2>2. CASE t \notin s.downloaded
    BY <1>1, <2>2, FileFacts DEF Sound
  <2> QED BY <2>1, <2>2
<1>11. ScenarioInv
  <2>1. directory.build = 0 /\ edits = 0 /\ \A k \in Packagers : call[k].before = 0
    BY <1>1, <1>2, BlankFacts, NameFacts DEF ToolchainInit
  <2>2. \A k \in Packagers : pc[k] = "idle"
    BY NameFacts DEF ToolchainInit
  <2> QED BY <2>1, <2>2 DEF ScenarioInv
<1>12. WriteInv /\ EntriesInv
  <2>1. \A w \in Writers : pc[w] = "idle"
    BY DEF ToolchainInit
  <2>2. entries = {} /\ entry = NoEntry
    BY DEF ToolchainInit
  <2> QED BY <2>1, <2>2, NameFacts DEF WriteInv, EntriesInv, SoundEntries
<1> QED BY <1>7, <1>9, <1>10, <1>11, <1>12 DEF ToolchainIInv

-------------------------------------------------------------------------------
\* What an action leaves alone keeps its part of the invariant.
LEMMA Kept ==
    ASSUME ToolchainIInv, UNCHANGED conforms
    PROVE  /\ UNCHANGED <<files, past>> => FilesInv'
           /\ UNCHANGED reports => ReportsInv'
           /\ UNCHANGED <<entry, entries>> => EntriesInv'
BY DEF ToolchainIInv, FilesInv, ReportsInv, EntriesInv, Sound, SoundArchive, SoundEntries

\* The part of ScenarioInv and WriteInv about one process.
PackagerInv(k) ==
    /\ call[k].before <= edits
    /\ pc[k] = "collecting" /\ call[k].before = directory.build => conforms[directory.build]
    /\ pc[k] \in {"creating", "writing", "renaming", "reporting"} => call[k].data \in Archives

WriterInv(w) ==
    /\ pc[w] \in {"creating", "writing", "renaming"} => Sound(Target(w), call[w].data)
    /\ pc[w] = "renaming" => temporary[w] = File(call[w].data, TRUE)

ProcessInv ==
    /\ directory.build <= edits
    /\ \A k \in Packagers : PackagerInv(k)
    /\ \A w \in Writers : WriterInv(w)

\* ScenarioInv and WriteInv, process by process.
LEMMA Processes == ScenarioInv /\ WriteInv <=> ProcessInv
BY DEF ScenarioInv, WriteInv, ProcessInv, PackagerInv, WriterInv

\* Writer w moves to a place, with what its call has read and its temporary file.
Moves(w, place, c, file) ==
    /\ pc' = [pc EXCEPT ![w] = place]
    /\ call' = [call EXCEPT ![w] = c]
    /\ temporary' = [temporary EXCEPT ![w] = file]

\* What the invariant asks of that place.
Fits(w, place, c, file) ==
    /\ place \in Places /\ c \in Calls /\ file \in Files
    /\ place \in {"creating", "writing", "renaming"} => Sound(Target(w), c.data)
    /\ place = "renaming" => file = File(c.data, TRUE)
    /\ w \in Packagers =>
          /\ c.before <= edits
          /\ place = "collecting" /\ c.before = directory.build => conforms[directory.build]
          /\ place \in {"creating", "writing", "renaming", "reporting"} => c.data \in Archives

\* A step of one process moves no other.
LEMMA MoveKeeps ==
    ASSUME ToolchainIInv, UNCHANGED <<conforms, directory, edits>>,
           NEW w \in Writers, NEW place, NEW c, NEW file,
           Moves(w, place, c, file), Fits(w, place, c, file)
    PROVE  /\ pc' \in [Writers -> Places] /\ call' \in [Writers -> Calls]
           /\ temporary' \in [Writers -> Files]
           /\ ScenarioInv' /\ WriteInv'
<1>1. ToolchainTypeOK /\ ProcessInv
  BY Processes DEF ToolchainIInv
<1>2. /\ pc' \in [Writers -> Places] /\ call' \in [Writers -> Calls]
      /\ temporary' \in [Writers -> Files]
  BY <1>1 DEF Moves, Fits, ToolchainTypeOK
<1>3. /\ pc'[w] = place /\ call'[w] = c /\ temporary'[w] = file
      /\ \A v \in Writers \ {w} :
            pc'[v] = pc[v] /\ call'[v] = call[v] /\ temporary'[v] = temporary[v]
  BY <1>1 DEF Moves, ToolchainTypeOK
<1>4. \A t, d : Sound(t, d) => (d # Absent => IF t = CatalogName
                        THEN d.kind = "catalog"
                             /\ \A e \in d.entries :
                                   /\ e.release = e.archive.build /\ conforms'[e.release]
                                   /\ \A f \in d.entries : f.name.version = e.name.version
                        ELSE d.kind = "archive" /\ d.platform = t.platform /\ conforms'[d.build])
  BY DEF Sound, SoundArchive, SoundEntries
<1>5. \A v \in Writers : WriterInv(v)'
  <2> SUFFICES ASSUME NEW v \in Writers PROVE WriterInv(v)'
    OBVIOUS
  <2>1. CASE v = w
    <3>1. pc'[v] \in {"creating", "writing", "renaming"} => Sound(Target(v), call'[v].data)
      BY <1>3, <2>1 DEF Fits
    <3>2. pc'[v] = "renaming" => temporary'[v] = File(call'[v].data, TRUE)
      BY <1>3, <2>1 DEF Fits
    <3> QED BY <1>4, <3>1, <3>2
            DEF WriterInv, File, Sound, SoundArchive, SoundEntries, Target
  <2>2. CASE v # w
    <3>1. WriterInv(v)
      BY <1>1 DEF ProcessInv
    <3>2. pc'[v] = pc[v] /\ call'[v] = call[v] /\ temporary'[v] = temporary[v]
      BY <1>3, <2>2
    <3>3. Sound(Target(v), call[v].data) => Sound(Target(v), call[v].data)'
      BY <3>2 DEF Sound, SoundArchive, SoundEntries, Target
    <3> QED BY <3>1, <3>2, <3>3 DEF WriterInv, File
  <2> QED BY <2>1, <2>2
<1>6. \A k \in Packagers : PackagerInv(k)'
  <2> SUFFICES ASSUME NEW k \in Packagers PROVE PackagerInv(k)'
    OBVIOUS
  <2>1. CASE k = w
    BY <1>3, <2>1 DEF Fits, PackagerInv
  <2>2. CASE k # w
    <3>1. PackagerInv(k)
      BY <1>1 DEF ProcessInv
    <3>2. pc'[k] = pc[k] /\ call'[k] = call[k]
      BY <1>3, <2>2, NameFacts
    <3> QED BY <3>1, <3>2 DEF PackagerInv
  <2> QED BY <2>1, <2>2
<1>7. directory'.build <= edits'
  BY <1>1 DEF ProcessInv
<1> QED BY <1>2, <1>5, <1>6, <1>7 DEF ScenarioInv, WriteInv, PackagerInv, WriterInv

\* A step of one process that touches no name and no report.
LEMMA LocalStep ==
    ASSUME ToolchainIInv,
           UNCHANGED <<conforms, directory, edits, files, past, reports, listed, entry, entries>>,
           NEW w \in Writers, NEW place, NEW c, NEW file,
           Moves(w, place, c, file), Fits(w, place, c, file)
    PROVE  ToolchainIInv'
<1>1. /\ pc' \in [Writers -> Places] /\ call' \in [Writers -> Calls]
      /\ temporary' \in [Writers -> Files]
      /\ ScenarioInv' /\ WriteInv'
  BY MoveKeeps
<1>2. FilesInv' /\ ReportsInv' /\ EntriesInv'
  BY Kept
<1>3. ToolchainTypeOK'
  BY <1>1 DEF ToolchainIInv, ToolchainTypeOK
<1> QED BY <1>1, <1>2, <1>3 DEF ToolchainIInv

\* Where a writer is, and the step it takes when it stays there.
LEMMA Here ==
    ASSUME ToolchainIInv, NEW w \in Writers
    PROVE  /\ pc[w] \in Places /\ call[w] \in Calls /\ call[w].data \in Data
           /\ temporary[w] \in Files
           /\ WriterInv(w)
           /\ w \in Packagers => PackagerInv(w)
           /\ pc = [pc EXCEPT ![w] = pc[w]] /\ call = [call EXCEPT ![w] = call[w]]
           /\ temporary = [temporary EXCEPT ![w] = temporary[w]]
<1>1. ToolchainTypeOK /\ ProcessInv
  BY Processes DEF ToolchainIInv
<1>2. pc[w] \in Places /\ call[w] \in Calls /\ temporary[w] \in Files
  BY <1>1 DEF ToolchainTypeOK
<1>3. call[w].data \in Data
  BY <1>2 DEF Calls
<1>4. WriterInv(w) /\ (w \in Packagers => PackagerInv(w))
  BY <1>1 DEF ProcessInv
<1> QED BY <1>1, <1>2, <1>3, <1>4 DEF ToolchainTypeOK

\* The types of what a call reads of the directory.
LEMMA DirectoryFacts ==
    ASSUME ToolchainIInv
    PROVE  directory.build \in Builds /\ directory.manifest.version \in Versions
BY DEF ToolchainIInv, ToolchainTypeOK, Directories, Manifests

\* A process at rest may have read nothing.
LEMMA RestFits ==
    ASSUME ToolchainIInv, NEW w \in Writers, NEW place \in {"idle", "failed"}, NEW file \in Files
    PROVE  Fits(w, place, Blank, file)
<1>1. edits \in Nat
  BY SourceAssumption DEF ToolchainIInv, ToolchainTypeOK
<1>2. /\ place \in Places /\ place # "collecting"
      /\ place \notin {"creating", "writing", "renaming", "reporting"}
  BY DEF Places
<1>3. Blank \in Calls /\ Blank.before <= edits
  BY <1>1, BlankFacts
<1> QED BY <1>2, <1>3 DEF Fits

\* A step that puts a report beside the package.
LEMMA ReportStep ==
    ASSUME ToolchainIInv,
           UNCHANGED <<conforms, directory, edits, files, past, listed, entry, entries>>,
           NEW k \in Writers, NEW place, NEW c, NEW file,
           Moves(k, place, c, file), Fits(k, place, c, file),
           NEW report \in Reports, report.kind = "report" => report.build = report.archive.build,
           reports' = [reports EXCEPT ![OutputName] = report]
    PROVE  ToolchainIInv'
<1>1. /\ pc' \in [Writers -> Places] /\ call' \in [Writers -> Calls]
      /\ temporary' \in [Writers -> Files]
      /\ ScenarioInv' /\ WriteInv'
  BY MoveKeeps
<1>2. FilesInv' /\ EntriesInv'
  BY Kept
<1>3. reports \in [Names -> Reports] /\ ReportsInv
  BY DEF ToolchainIInv, ToolchainTypeOK
<1>4. reports' \in [Names -> Reports] /\ ReportsInv'
  BY <1>3 DEF ReportsInv
<1>5. ToolchainTypeOK'
  BY <1>1, <1>4 DEF ToolchainIInv, ToolchainTypeOK
<1> QED BY <1>1, <1>2, <1>4, <1>5 DEF ToolchainIInv

-------------------------------------------------------------------------------
(* write_atomic *)

\* create_new: the temporary file is empty or somebody else's.
LEMMA CreateKeeps ==
    ASSUME ToolchainIInv, NEW w \in Writers, AtomicWrite(w), CreateTemporary(w)
    PROVE  ToolchainIInv'
<1>1. UNCHANGED <<conforms, directory, edits, files, past, reports, listed, entry, entries>>
  BY DEF AtomicWrite, CreateTemporary, world, catalogVars
<1>2. pc[w] = "creating" /\ call' = call
  BY DEF AtomicWrite, CreateTemporary
<1>3. File(Partial, FALSE) \in Files
  BY FileFacts
<1>4. CASE temporary[w] = NoFile
  <2>1. Moves(w, "writing", call[w], File(Partial, FALSE))
    BY <1>2, <1>4, Here DEF Moves, CreateTemporary, SetTemporary, Goto
  <2>2. Fits(w, "writing", call[w], File(Partial, FALSE))
    BY <1>2, <1>3, Here DEF Fits, Places, WriterInv, PackagerInv
  <2> QED BY <1>1, <2>1, <2>2, LocalStep
<1>5. CASE temporary[w] # NoFile
  <2>1. Moves(w, "removing", call[w], temporary[w])
    BY <1>2, <1>5, Here DEF Moves, CreateTemporary, SetTemporary, Goto
  <2>2. Fits(w, "removing", call[w], temporary[w])
    BY <1>2, Here DEF Fits, Places, WriterInv, PackagerInv
  <2> QED BY <1>1, <2>1, <2>2, LocalStep
<1> QED BY <1>4, <1>5

\* write_all and sync_all: the temporary file is whole and stable from here.
LEMMA WriteKeeps ==
    ASSUME ToolchainIInv, NEW w \in Writers, AtomicWrite(w), WriteTemporary(w)
    PROVE  ToolchainIInv'
<1>1. UNCHANGED <<conforms, directory, edits, files, past, reports, listed, entry, entries>>
  BY DEF AtomicWrite, WriteTemporary, world, catalogVars
<1>2. pc[w] = "writing" /\ call' = call
  BY DEF AtomicWrite, WriteTemporary
<1>3. File(call[w].data, TRUE) \in Files
  BY Here, FileFacts
<1>4. Moves(w, "renaming", call[w], File(call[w].data, TRUE))
  BY <1>2, Here DEF Moves, WriteTemporary, SetTemporary, Goto
<1>5. Fits(w, "renaming", call[w], File(call[w].data, TRUE))
  BY <1>2, <1>3, Here DEF Fits, Places, WriterInv, PackagerInv
<1> QED BY <1>1, <1>4, <1>5, LocalStep

\* remove_file after an error.
LEMMA CleanKeeps ==
    ASSUME ToolchainIInv, NEW w \in Writers, AtomicWrite(w), Clean(w)
    PROVE  ToolchainIInv'
<1>1. UNCHANGED <<conforms, directory, edits, files, past, reports, listed, entry, entries>>
  BY DEF AtomicWrite, Clean, world, catalogVars
<1>2. pc[w] = "removing" /\ call' = call
  BY DEF AtomicWrite, Clean
<1>3. Moves(w, "failing", call[w], NoFile)
  BY <1>2, Here DEF Moves, Clean, RemoveTemporary, SetTemporary, Goto
<1>4. Fits(w, "failing", call[w], NoFile)
  BY <1>2, Here, FileFacts DEF Fits, Places, PackagerInv
<1> QED BY <1>1, <1>3, <1>4, LocalStep

\* What is renamed is whole and may stay; what it replaces may come back.
LEMMA RenameKeeps ==
    ASSUME ToolchainIInv, NEW w \in Writers, AtomicWrite(w), Rename(w)
    PROVE  ToolchainIInv'
<1>1. UNCHANGED <<conforms, directory, edits, reports, listed, entry, entries>>
  BY DEF AtomicWrite, world, catalogVars
<1>2. pc[w] = "renaming" /\ call' = call
  BY DEF AtomicWrite, Rename
<1>3. Moves(w, "reporting", call[w], NoFile)
  BY <1>2, Here DEF Moves, Rename, SetTemporary, Goto
<1>4. Fits(w, "reporting", call[w], NoFile)
  BY <1>2, Here, FileFacts DEF Fits, Places, PackagerInv
<1>5. /\ pc' \in [Writers -> Places] /\ call' \in [Writers -> Calls]
      /\ temporary' \in [Writers -> Files]
      /\ ScenarioInv' /\ WriteInv'
  BY <1>1, <1>3, <1>4, MoveKeeps
<1>6. ReportsInv' /\ EntriesInv'
  BY <1>1, Kept
<1>7. /\ temporary[w] = File(call[w].data, TRUE) /\ temporary[w] \in Files
      /\ temporary[w].stable = TRUE /\ temporary[w].data = call[w].data
      /\ Sound(Target(w), temporary[w].data)
  <2>1. /\ temporary[w] = File(call[w].data, TRUE) /\ temporary[w] \in Files
        /\ call[w].data \in Data /\ Sound(Target(w), call[w].data)
    BY <1>2, Here DEF WriterInv
  <2>2. temporary[w].data = call[w].data /\ temporary[w].stable = TRUE
    BY <2>1, FileFacts
  <2>3. Sound(Target(w), temporary[w].data)
    BY <2>1, <2>2
  <2> QED BY <2>1, <2>2, <2>3
<1>8. /\ Target(w) \in Targets
      /\ files' = [files EXCEPT ![Target(w)] = temporary[w]]
      /\ past' = [past EXCEPT ![Target(w)] = @ \union {files[Target(w)]}]
  BY NameFacts DEF Rename
<1>9. ToolchainTypeOK'
  <2>1. files' \in [Targets -> Files] /\ past' \in [Targets -> SUBSET Files]
    BY <1>7, <1>8 DEF ToolchainIInv, ToolchainTypeOK
  <2> QED BY <1>1, <1>5, <2>1 DEF ToolchainIInv, ToolchainTypeOK
<1>10. FilesInv'
  <2> SUFFICES ASSUME NEW t \in Targets, NEW f \in past'[t] \union {files'[t]}
               PROVE  f.stable /\ Sound(t, f.data)
    BY <1>1 DEF FilesInv, Sound, SoundArchive, SoundEntries
  <2>1. f \in past[t] \union {files[t]} \/ (t = Target(w) /\ f = temporary[w])
    BY <1>8 DEF ToolchainIInv, ToolchainTypeOK
  <2> QED BY <1>7, <2>1 DEF ToolchainIInv, FilesInv
<1> QED BY <1>5, <1>6, <1>9, <1>10 DEF ToolchainIInv

\* Every step of write_atomic keeps the invariant.
LEMMA AtomicWriteKeeps ==
    ASSUME ToolchainIInv, NEW w \in Writers, AtomicWrite(w)
    PROVE  ToolchainIInv'
BY CreateKeeps, WriteKeeps, RenameKeeps, CleanKeeps DEF AtomicWrite

-------------------------------------------------------------------------------
(* tsp package *)

\* The redirection empties the report.
LEMMA BeginPackageKeeps ==
    ASSUME ToolchainIInv, NEW k \in Packagers, BeginPackage(k)
    PROVE  ToolchainIInv'
<1>1. UNCHANGED <<conforms, directory, edits, files, past, listed, entry, entries>>
  BY DEF BeginPackage, world, disk, catalogVars
<1>2. Moves(k, "resolving", call[k], temporary[k])
  BY Here, NameFacts DEF BeginPackage, Moves, Goto, disk
<1>3. Fits(k, "resolving", call[k], temporary[k])
  BY Here, NameFacts DEF Fits, Places, PackagerInv
<1>4. reports' = [reports EXCEPT ![OutputName] = Partial]
  BY DEF BeginPackage
<1> QED BY <1>1, <1>2, <1>3, <1>4, ReportStep, NameFacts DEF Partial, Reports

\* Reading the manifest establishes nothing yet.
LEMMA ResolveKeeps ==
    ASSUME ToolchainIInv, NEW k \in Packagers, Resolve(k)
    PROVE  ToolchainIInv'
<1> DEFINE place == IF /\ ValidManifest(directory.manifest)
                       /\ SealAgrees(directory.manifest, directory.build)
                    THEN "admitting" ELSE "failing"
           c == [call[k] EXCEPT !.version = {directory.manifest.version},
                                !.build = directory.build]
<1>1. UNCHANGED <<conforms, directory, edits, files, past, temporary, reports,
                  listed, entry, entries>>
  BY DEF Resolve, Check, world, disk, catalogVars
<1>2. directory.manifest.version \in Versions /\ directory.build \in Builds
  BY DirectoryFacts
<1>3. Moves(k, place, c, temporary[k])
  <2>1. call' = [call EXCEPT ![k] = c]
    BY Here, NameFacts DEF Resolve
  <2>2. pc' = [pc EXCEPT ![k] = place] /\ temporary' = [temporary EXCEPT ![k] = temporary[k]]
    BY <1>1, Here, NameFacts DEF Resolve, Check, Goto
  <2> QED BY <2>1, <2>2 DEF Moves
<1>4. Fits(k, place, c, temporary[k])
  <2>1. c \in Calls /\ c.before = call[k].before
    BY <1>2, Here, NameFacts DEF Calls
  <2> QED BY <2>1, Here, NameFacts DEF Fits, Places, PackagerInv
<1> QED BY <1>1, <1>3, <1>4, LocalStep, NameFacts

\* The build read before the scenarios is one of those made so far.
LEMMA AdmitKeeps ==
    ASSUME ToolchainIInv, NEW k \in Packagers, Admit(k)
    PROVE  ToolchainIInv'
<1> DEFINE c == [call[k] EXCEPT !.before = directory.build]
<1>1. UNCHANGED <<conforms, directory, edits, files, past, temporary, reports,
                  listed, entry, entries>>
  BY DEF Admit, Check, world, disk, catalogVars
<1>2. PICK place \in {"running", "failing"} : pc' = [pc EXCEPT ![k] = place]
  BY DEF Admit, Check, Goto
<1>3. Moves(k, place, c, temporary[k])
  <2>1. call' = [call EXCEPT ![k] = c]
    BY Here, NameFacts DEF Admit, Learn
  <2> QED BY <1>1, <1>2, <2>1, Here, NameFacts DEF Moves
<1>4. Fits(k, place, c, temporary[k])
  <2>1. c \in Calls /\ c.before = directory.build
    BY Here, NameFacts, DirectoryFacts DEF Calls
  <2>2. directory.build <= edits
    BY DEF ToolchainIInv, ScenarioInv
  <2> QED BY <2>1, <2>2, Here, NameFacts DEF Fits, Places
<1> QED BY <1>1, <1>3, <1>4, LocalStep, NameFacts

\* The scenario that ran is of the build that is there.
LEMMA RunScenarioKeeps ==
    ASSUME ToolchainIInv, NEW k \in Packagers, RunScenario(k)
    PROVE  ToolchainIInv'
<1> DEFINE c == [call[k] EXCEPT !.runs = call[k].runs + 1]
<1>1. UNCHANGED <<conforms, directory, edits, files, past, temporary, reports,
                  listed, entry, entries>>
  BY DEF RunScenario, Check, world, disk, catalogVars
<1>2. PICK place \in {"running", "collecting", "failing"} :
          /\ pc' = [pc EXCEPT ![k] = place]
          /\ place = "collecting" => conforms[directory.build]
  BY DEF RunScenario, Check, Goto
<1>3. Moves(k, place, c, temporary[k])
  <2>1. call' = [call EXCEPT ![k] = c]
    BY Here, NameFacts DEF RunScenario, Learn
  <2> QED BY <1>1, <1>2, <2>1, Here, NameFacts DEF Moves
<1>4. Fits(k, place, c, temporary[k])
  <2>1. c \in Calls /\ c.before = call[k].before
    BY Here, NameFacts DEF Calls
  <2> QED BY <1>2, <2>1, Here, NameFacts DEF Fits, Places, PackagerInv
<1> QED BY <1>1, <1>3, <1>4, LocalStep, NameFacts

\* What is packed is the build the scenarios ran.
LEMMA CollectKeeps ==
    ASSUME ToolchainIInv, NEW k \in Packagers, Collect(k)
    PROVE  ToolchainIInv'
<1> DEFINE a == Archive(Platform, directory.build, directory.manifest.version)
           c == [call[k] EXCEPT !.data = a]
<1>1. UNCHANGED <<conforms, directory, edits, files, past, temporary, reports,
                  listed, entry, entries>>
  BY DEF Collect, Check, world, disk, catalogVars
<1>2. PICK place \in {"creating", "failing"} :
          /\ pc[k] = "collecting" /\ pc' = [pc EXCEPT ![k] = place]
          /\ place = "creating" => directory.build = call[k].before
  BY DEF Collect, Check, Goto, StillConformant
<1>3. /\ a \in Archives /\ a \in Data /\ a.kind = "archive" /\ a.platform = Platform
      /\ a.build = directory.build
  BY ArchiveFacts, DirectoryFacts, ToolchainAssumption
<1>4. Moves(k, place, c, temporary[k])
  <2>1. call' = [call EXCEPT ![k] = c]
    BY Here, NameFacts DEF Collect, Learn
  <2> QED BY <1>1, <1>2, <2>1, Here, NameFacts DEF Moves
<1>5. Fits(k, place, c, temporary[k])
  <2>1. c \in Calls /\ c.before = call[k].before /\ c.data = a
    BY <1>3, Here, NameFacts DEF Calls
  <2>2. place = "creating" => conforms[directory.build]
    BY <1>2, Here, NameFacts DEF PackagerInv
  <2>3. place = "creating" => Sound(Target(k), a)
    BY <1>3, <2>2, NameFacts DEF Sound, SoundArchive
  <2>4. temporary[k] \in Files /\ PackagerInv(k)
    BY Here, NameFacts
  <2> QED BY <1>2, <1>3, <2>1, <2>3, <2>4 DEF Fits, Places, PackagerInv
<1> QED BY <1>1, <1>4, <1>5, LocalStep, NameFacts

\* The report states the build of the archive that was written.
LEMMA ReportKeeps ==
    ASSUME ToolchainIInv, NEW k \in Packagers, Report(k)
    PROVE  ToolchainIInv'
<1> DEFINE r == ReportOf(OutputName, call[k].build, call[k].data)
           report == [r EXCEPT !.version = call[k].version]
<1>1. UNCHANGED <<conforms, directory, edits, files, past, temporary, listed, entry, entries>>
  BY DEF Report, world, disk, catalogVars
<1>2. pc[k] = "reporting" /\ reports' = [reports EXCEPT ![OutputName] = report]
  BY DEF Report
<1>3. call[k].data \in Archives /\ call[k].data.build \in Builds
  BY <1>2, Here, NameFacts DEF PackagerInv, Archives
<1>4. report \in Reports /\ report.build = report.archive.build
  <2>1. call[k].build \in Builds /\ call[k].version \in SUBSET Versions
    BY Here, NameFacts DEF Calls
  <2>2. report \in FullReports
    BY <1>3, <2>1, ToolchainAssumption, NameFacts DEF ReportOf, FullReports
  <2> QED BY <2>2 DEF ReportOf, Reports
<1>5. Moves(k, "idle", Blank, temporary[k])
  BY <1>1, Here, NameFacts DEF Report, Moves, Goto
<1>6. Fits(k, "idle", Blank, temporary[k])
  BY RestFits, Here, NameFacts
<1> QED BY <1>1, <1>2, <1>4, <1>5, <1>6, ReportStep, NameFacts

\* An error in place of the report.
LEMMA RefuseKeeps ==
    ASSUME ToolchainIInv, NEW k \in Packagers, Refuse(k)
    PROVE  ToolchainIInv'
<1>1. UNCHANGED <<conforms, directory, edits, files, past, temporary, listed, entry, entries>>
  BY DEF Refuse, world, disk, catalogVars
<1>2. Moves(k, "failed", Blank, temporary[k])
  BY <1>1, Here, NameFacts DEF Refuse, Moves, Goto
<1>3. Fits(k, "failed", Blank, temporary[k])
  BY RestFits, Here, NameFacts
<1>4. reports' = [reports EXCEPT ![OutputName] = Partial]
  BY DEF Refuse
<1> QED BY <1>1, <1>2, <1>3, <1>4, ReportStep, NameFacts DEF Partial, Reports

\* Every step of `tsp package` keeps the invariant.
LEMMA PackageKeeps ==
    ASSUME ToolchainIInv, NEW k \in Packagers, Package(k)
    PROVE  ToolchainIInv'
BY BeginPackageKeeps, ResolveKeeps, AdmitKeeps, RunScenarioKeeps, CollectKeeps,
   AtomicWriteKeeps, ReportKeeps, RefuseKeeps, NameFacts DEF Package

-------------------------------------------------------------------------------
(* tsp catalog *)

\* A step that only moves the cataloger's own list and entries.
LEMMA CatalogStep ==
    ASSUME ToolchainIInv, UNCHANGED <<world, directory, disk, reports, pc, call, edits>>,
           listed' \subseteq Names, entries' \subseteq Entries,
           entry' \in {NoEntry} \union [kind : {"entry"}, name : Names, report : FullReports],
           EntriesInv'
    PROVE  ToolchainIInv'
<1>1. FilesInv' /\ ReportsInv'
  BY Kept DEF world, disk
<1>2. ScenarioInv' /\ WriteInv'
  <2>1. Moves(Cataloger, pc[Cataloger], call[Cataloger], temporary[Cataloger])
    BY Here, NameFacts DEF Moves, disk
  <2>2. Fits(Cataloger, pc[Cataloger], call[Cataloger], temporary[Cataloger])
    BY Here, ToolchainAssumption, NameFacts DEF Fits, WriterInv
  <2> QED BY <2>1, <2>2, MoveKeeps, NameFacts DEF world
<1>3. ToolchainTypeOK'
  BY DEF ToolchainIInv, ToolchainTypeOK, world, disk
<1> QED BY <1>1, <1>2, <1>3 DEF ToolchainIInv

\* A cataloger that gives up forgets what it read.
LEMMA NothingRead ==
    ASSUME RefuseCatalog
    PROVE  /\ listed' \subseteq Names /\ entries' \subseteq Entries /\ entry' = NoEntry
           /\ EntriesInv'
BY DEF RefuseCatalog, EntriesInv, SoundEntries, NoEntry

\* Listing the directory reads no entry yet.
LEMMA BeginCatalogKeeps ==
    ASSUME ToolchainIInv, BeginCatalog
    PROVE  ToolchainIInv'
<1>1. EntriesInv'
  BY Kept DEF BeginCatalog, world
<1> QED BY <1>1, CatalogStep
        DEF BeginCatalog, Packages, ToolchainIInv, ToolchainTypeOK

\* The entry that is begun states the build of its archive, and its version is that
\* of all the others.
LEMMA ReadReportKeeps ==
    ASSUME ToolchainIInv, NEW n \in Names, ReadReport(n)
    PROVE  ToolchainIInv'
<1>1. UNCHANGED <<world, directory, disk, reports, pc, call, edits>>
  BY DEF ReadReport
<1>2. CASE RefuseCatalog
  BY <1>1, <1>2, NothingRead, CatalogStep
<1>3. CASE ~RefuseCatalog
  <2>1. /\ ReportContract(reports[n]) /\ IdentityAgrees(reports[n], n)
        /\ entry' = [kind |-> "entry", name |-> n, report |-> reports[n]]
        /\ listed' = listed /\ entries' = entries /\ conforms' = conforms
    BY <1>3 DEF ReadReport, world
  <2>2. /\ reports[n] \in FullReports /\ reports[n].release = reports[n].archive.build
    <3>1. reports[n] \in Reports /\ reports[n].kind = "report"
      BY <2>1 DEF ReportContract, ToolchainIInv, ToolchainTypeOK
    <3>2. reports[n] \in FullReports
      BY <3>1 DEF Reports, Absent, Partial
    <3> QED BY <2>1, <3>1, <3>2 DEF ReportContract, ToolchainIInv, ReportsInv
  <2>3. entry' \in [kind : {"entry"}, name : Names, report : FullReports]
    BY <2>1, <2>2
  <2>4. EntriesInv'
    <3>1. SoundEntries(entries)'
      BY <2>1 DEF ToolchainIInv, EntriesInv, SoundEntries
    <3>2. entry'.report = reports[n] /\ entry'.name = n
      BY <2>1
    <3> QED BY <2>1, <2>2, <3>1, <3>2 DEF EntriesInv, IdentityAgrees
  <2>5. listed' \subseteq Names /\ entries' \subseteq Entries
    BY <2>1 DEF ToolchainIInv, ToolchainTypeOK
  <2> QED BY <1>1, <2>3, <2>4, <2>5, CatalogStep
<1> QED BY <1>2, <1>3

\* The archive that is reported and was read conforms, since it is under its name.
LEMMA ReadPackageKeeps ==
    ASSUME ToolchainIInv, ReadPackage
    PROVE  ToolchainIInv'
<1> DEFINE n == entry.name
           new == [name |-> n, release |-> entry.report.release, archive |-> files[n].data]
<1>1. UNCHANGED <<world, directory, disk, reports, pc, call, edits>>
  BY DEF ReadPackage
<1>2. CASE RefuseCatalog
  BY <1>1, <1>2, NothingRead, CatalogStep
<1>3. CASE ~RefuseCatalog
  <2>1. /\ entry # NoEntry /\ files[n].data = entry.report.archive
        /\ entries' = entries \union {new}
        /\ listed' = listed \ {n} /\ entry' = NoEntry /\ conforms' = conforms
    BY <1>3 DEF ReadPackage, ArchiveAgrees, world
  <2>2. n \in Names /\ entry.report \in FullReports
    BY <2>1 DEF ToolchainIInv, ToolchainTypeOK
  <2>3. files[n].data \in Archives /\ entry.report.release \in Builds
    BY <2>1, <2>2 DEF FullReports
  <2>4. new \in Entries /\ new.name = n /\ new.release = entry.report.release
        /\ new.archive = files[n].data
    BY <2>2, <2>3 DEF Entries
  <2>5. conforms[files[n].data.build]
    <3>1. n \in Targets /\ n # CatalogName
      BY <2>2, NameFacts
    <3>2. Sound(n, files[n].data)
      BY <3>1 DEF ToolchainIInv, FilesInv
    <3>3. files[n].data # Absent
      BY <2>3 DEF Archives, Absent
    <3> QED BY <3>1, <3>2, <3>3 DEF Sound, SoundArchive
  <2>6. /\ new.release = new.archive.build
        /\ \A e \in entries : e.name.version = new.name.version
    BY <2>1, <2>4 DEF ToolchainIInv, EntriesInv
  <2>7. EntriesInv'
    <3>1. \A e \in entries' : /\ e.release = e.archive.build /\ conforms'[e.release]
                              /\ \A f \in entries' : f.name.version = e.name.version
      <4>1. SoundEntries(entries)
        BY DEF ToolchainIInv, EntriesInv
      <4>2. conforms[new.release]
        BY <2>4, <2>5, <2>6
      <4> QED BY <2>1, <2>6, <4>1, <4>2 DEF SoundEntries
    <3> QED BY <2>1, <3>1 DEF EntriesInv, SoundEntries, NoEntry
  <2>8. listed' \subseteq Names /\ entries' \subseteq Entries
    BY <2>1, <2>4 DEF ToolchainIInv, ToolchainTypeOK
  <2> QED BY <1>1, <2>1, <2>7, <2>8, CatalogStep
<1> QED BY <1>2, <1>3

\* The catalog that is written holds the entries that were read.
LEMMA WriteCatalogKeeps ==
    ASSUME ToolchainIInv, WriteCatalog
    PROVE  ToolchainIInv'
<1> DEFINE d == [kind |-> "catalog", entries |-> entries]
           c == [call[Cataloger] EXCEPT !.data = d]
<1>1. /\ UNCHANGED <<conforms, directory, edits, files, past, temporary, reports,
                     listed, entry, entries>>
      /\ call' = [call EXCEPT ![Cataloger].data = d]
      /\ pc' = [pc EXCEPT ![Cataloger] = "creating"]
  BY DEF WriteCatalog, world, disk, Learn, Goto
<1>2. d \in Data /\ Sound(CatalogName, d)
  <2>1. entries \subseteq Entries /\ SoundEntries(entries)
    BY DEF ToolchainIInv, ToolchainTypeOK, EntriesInv
  <2>2. d \in Data /\ d.kind = "catalog" /\ d.entries = entries
    BY <2>1 DEF Data
  <2> QED BY <2>1, <2>2 DEF Sound
<1>3. Moves(Cataloger, "creating", c, temporary[Cataloger])
  <2>1. call' = [call EXCEPT ![Cataloger] = c]
    BY <1>1, Here, NameFacts
  <2> QED BY <1>1, <2>1, Here, NameFacts DEF Moves
<1>4. Fits(Cataloger, "creating", c, temporary[Cataloger])
  <2>1. c \in Calls /\ c.data = d
    BY <1>2, Here, NameFacts DEF Calls
  <2> QED BY <1>2, <2>1, Here, NameFacts, ToolchainAssumption DEF Fits, Places
<1> QED BY <1>1, <1>3, <1>4, LocalStep, NameFacts

\* A writer that gives up, or has done, has read nothing.
LEMMA RestStep ==
    ASSUME ToolchainIInv, NEW w \in Writers,
           UNCHANGED <<world, directory, disk, reports, edits>>,
           pc' = [pc EXCEPT ![w] = "idle"], call' = [call EXCEPT ![w] = Blank],
           RefuseCatalog \/ UNCHANGED catalogVars
    PROVE  ToolchainIInv'
<1>1. Moves(w, "idle", Blank, temporary[w])
  BY Here DEF Moves, disk
<1>2. Fits(w, "idle", Blank, temporary[w])
  BY RestFits, Here
<1>3. /\ pc' \in [Writers -> Places] /\ call' \in [Writers -> Calls]
      /\ temporary' \in [Writers -> Files]
      /\ ScenarioInv' /\ WriteInv'
  BY <1>1, <1>2, MoveKeeps DEF world
<1>4. FilesInv' /\ ReportsInv'
  BY Kept DEF world, disk
<1>5. EntriesInv'
  BY Kept, NothingRead DEF world, catalogVars
<1>6. /\ listed' \subseteq Names /\ entries' \subseteq Entries
      /\ entry' \in {NoEntry} \union [kind : {"entry"}, name : Names, report : FullReports]
  BY NothingRead DEF ToolchainIInv, ToolchainTypeOK, catalogVars
<1>7. ToolchainTypeOK'
  BY <1>3, <1>6 DEF ToolchainIInv, ToolchainTypeOK, world, disk
<1> QED BY <1>3, <1>4, <1>5, <1>7 DEF ToolchainIInv

\* Every step of `tsp catalog` keeps the invariant.
LEMMA CatalogKeeps ==
    ASSUME ToolchainIInv, Catalog
    PROVE  ToolchainIInv'
<1>1. EndCatalog => ToolchainIInv'
  BY RestStep, NameFacts DEF EndCatalog, Goto
<1> QED BY <1>1, BeginCatalogKeeps, ReadReportKeeps, ReadPackageKeeps, WriteCatalogKeeps,
           AtomicWriteKeeps, NameFacts DEF Catalog

-------------------------------------------------------------------------------
(* Edits, failures and power losses *)

\* A new build has a number no call has read, so that no call collects it as the one
\* its scenarios ran.
LEMMA EditKeeps ==
    ASSUME ToolchainIInv, Edit
    PROVE  ToolchainIInv'
<1>1. /\ UNCHANGED <<conforms, files, past, temporary, reports, pc, call, listed, entry, entries>>
      /\ edits < MaxEdits /\ edits' = edits + 1
  BY DEF Edit, world, disk, catalogVars
<1>2. ToolchainTypeOK /\ ProcessInv /\ edits \in Nat /\ MaxEdits \in Nat
  BY Processes, SourceAssumption DEF ToolchainIInv, ToolchainTypeOK
<1>3. /\ directory' \in Directories
      /\ directory'.build = directory.build \/ directory'.build = edits + 1
  <2>1. directory \in Directories /\ edits + 1 \in Builds
    BY <1>1, <1>2 DEF ToolchainTypeOK, Builds
  <2>2. CASE directory' = [directory EXCEPT !.build = edits + 1]
    BY <2>1, <2>2 DEF Directories
  <2>3. ASSUME NEW v \in Versions, directory' = [directory EXCEPT !.manifest.version = v]
        PROVE  directory' \in Directories /\ directory'.build = directory.build
    <3>1. [directory.manifest EXCEPT !.version = v] \in Manifests
      BY <2>1 DEF Directories, Manifests
    <3> QED BY <2>1, <2>3, <3>1 DEF Directories
  <2> QED BY <2>1, <2>2, <2>3 DEF Edit, Directories
<1>4. directory.build \in Nat /\ directory.build <= edits
  <2>1. directory.build \in Nat
    BY <1>2, DirectoryFacts DEF Builds
  <2> QED BY <1>2, <2>1 DEF ProcessInv
<1>5. directory'.build <= edits'
  BY <1>1, <1>2, <1>3, <1>4
<1>6. \A k \in Packagers : PackagerInv(k)'
  <2> SUFFICES ASSUME NEW k \in Packagers PROVE PackagerInv(k)'
    OBVIOUS
  <2>1. PackagerInv(k) /\ call[k].before \in Nat /\ call[k].before <= edits
    BY <1>2, Here, NameFacts DEF ProcessInv, PackagerInv, Calls, Builds
  <2>2. call[k].before <= edits + 1 /\ call[k].before # edits + 1
    BY <1>2, <2>1
  <2>3. pc[k] = "collecting" /\ call[k].before = directory'.build
           => conforms[directory'.build]
    BY <1>3, <2>1, <2>2 DEF PackagerInv
  <2> QED BY <1>1, <2>1, <2>2, <2>3 DEF PackagerInv
<1>7. \A w \in Writers : WriterInv(w)'
  <2> SUFFICES ASSUME NEW w \in Writers PROVE WriterInv(w)'
    OBVIOUS
  <2>1. WriterInv(w)
    BY <1>2 DEF ProcessInv
  <2> QED BY <1>1, <2>1 DEF WriterInv, Sound, SoundArchive, SoundEntries, Target, File
<1>8. ScenarioInv' /\ WriteInv'
  BY <1>5, <1>6, <1>7 DEF ScenarioInv, WriteInv, PackagerInv, WriterInv
<1>9. FilesInv' /\ ReportsInv' /\ EntriesInv'
  BY <1>1, Kept
<1>10. edits' \in 0 .. MaxEdits
  BY <1>1, <1>2
<1>11. ToolchainTypeOK'
  BY <1>1, <1>2, <1>3, <1>10 DEF ToolchainTypeOK
<1> QED BY <1>8, <1>9, <1>11 DEF ToolchainIInv

\* A failing call of the system only sends the process to its error path.
LEMMA FailKeeps ==
    ASSUME ToolchainIInv, NEW w \in Writers, Fail(w)
    PROVE  ToolchainIInv'
<1>1. UNCHANGED <<conforms, directory, edits, files, past, temporary, reports,
                  call, listed, entry, entries>>
  BY DEF Fail, world, disk, catalogVars
<1>2. PICK place \in {"removing", "failing"} : pc' = [pc EXCEPT ![w] = place]
  BY DEF Fail, Goto
<1>3. Moves(w, place, call[w], temporary[w])
  BY <1>1, <1>2, Here DEF Moves
<1>4. Fits(w, place, call[w], temporary[w])
  BY Here DEF Fits, Places, PackagerInv
<1> QED BY <1>1, <1>3, <1>4, LocalStep

\* A process that dies leaves its temporary file, and nothing under a name.
LEMMA DieKeeps ==
    ASSUME ToolchainIInv, NEW w \in Writers, Die(w)
    PROVE  ToolchainIInv'
BY RestStep DEF Die, Goto

\* Every file a name has had since the directory was last on the disk is whole, so
\* that what comes back is.
LEMMA PowerLossKeeps ==
    ASSUME ToolchainIInv, PowerLoss
    PROVE  ToolchainIInv'
<1>1. /\ conforms' = conforms /\ directory' = directory /\ edits' = edits
      /\ past' = [t \in Targets |-> {}]
      /\ pc' = [w \in Writers |-> "idle"] /\ call' = [w \in Writers |-> Blank]
      /\ RefuseCatalog
  BY DEF PowerLoss, world
<1>2. ToolchainTypeOK /\ FilesInv /\ ReportsInv /\ edits \in Nat
  BY SourceAssumption DEF ToolchainIInv, ToolchainTypeOK
<1>3. \A t \in Targets : \A f \in Settlements(t) :
         f \in Files /\ f.stable = TRUE /\ Sound(t, f.data)
  <2> SUFFICES ASSUME NEW t \in Targets, NEW g \in past[t] \union {files[t]},
                      NEW f \in Settled(g)
               PROVE  f \in Files /\ f.stable = TRUE /\ Sound(t, f.data)
    BY DEF Settlements
  <2>1. g \in Files /\ g.stable /\ Sound(t, g.data)
    BY <1>2 DEF ToolchainTypeOK, FilesInv
  <2>2. f = File(g.data, TRUE) /\ g.data \in Data
    BY <2>1 DEF Settled, Files
  <2>3. f \in Files /\ f.stable = TRUE /\ f.data = g.data
    BY <2>2, FileFacts
  <2> QED BY <2>1, <2>3
<1>4. \A t \in Targets : /\ files'[t] \in Files /\ files'[t].stable
                         /\ Sound(t, files'[t].data)
  <2>1. PICK left \in [Renamed -> UNION {Settlements(t) : t \in Renamed}] :
           /\ \A t \in Renamed : left[t] \in Settlements(t)
           /\ files' = [t \in Targets |-> IF t \in Renamed THEN left[t] ELSE files[t]]
    BY DEF PowerLoss
  <2> TAKE t \in Targets
  <2>2. CASE t \in Renamed
    BY <1>3, <2>1, <2>2
  <2>3. CASE t \notin Renamed
    BY <1>2, <2>1, <2>3 DEF ToolchainTypeOK, FilesInv
  <2> QED BY <2>2, <2>3
<1>5. files' \in [Targets -> Files] /\ FilesInv'
  <2>1. files' \in [Targets -> Files]
    BY <1>4 DEF PowerLoss
  <2>2. \A t \in Targets : past'[t] = {}
    BY <1>1
  <2> QED BY <1>1, <1>4, <2>1, <2>2 DEF FilesInv, Sound, SoundArchive, SoundEntries
<1>6. temporary' \in [Writers -> Files]
  <2>1. PICK kept \in BOOLEAN :
           temporary' = [w \in Writers |->
              IF ~kept \/ temporary[w] = NoFile THEN NoFile
              ELSE File(IF temporary[w].stable THEN temporary[w].data ELSE Partial, TRUE)]
    BY DEF PowerLoss
  <2>2. \A w \in Writers : temporary[w].data \in Data
    BY <1>2 DEF ToolchainTypeOK, Files
  <2>3. \A w \in Writers :
           File(IF temporary[w].stable THEN temporary[w].data ELSE Partial, TRUE) \in Files
    BY <2>2, FileFacts
  <2> QED BY <2>1, <2>3, FileFacts
<1>7. reports' \in [Names -> Reports] /\ ReportsInv'
  <2>1. PICK lost \in {{}, {n \in Reported : n.platform = Platform}}, rest \in {Absent, Partial} :
           reports' = [n \in Names |-> IF n \in lost THEN rest ELSE reports[n]]
    BY DEF PowerLoss
  <2>2. rest \in Reports /\ rest.kind # "report"
    BY DEF Reports, Absent, Partial
  <2>3. \A n \in Names : reports[n] \in Reports
    BY <1>2 DEF ToolchainTypeOK
  <2>4. \A n \in Names : reports'[n] = rest \/ reports'[n] = reports[n]
    BY <2>1
  <2> QED BY <1>2, <2>1, <2>2, <2>3, <2>4 DEF ReportsInv
<1>8. pc' \in [Writers -> Places] /\ call' \in [Writers -> Calls]
  BY <1>1, BlankFacts DEF Places
<1>9. ScenarioInv' /\ WriteInv'
  <2>1. \A w \in Writers : pc'[w] = "idle" /\ call'[w] = Blank
    BY <1>1
  <2>2. directory'.build <= edits'
    BY <1>1 DEF ToolchainIInv, ScenarioInv
  <2>3. \A k \in Packagers : call'[k].before <= edits'
    BY <1>1, <1>2, <2>1, BlankFacts, NameFacts
  <2> QED BY <2>1, <2>2, <2>3, NameFacts DEF ScenarioInv, WriteInv
<1>10. EntriesInv'
  BY <1>1, NothingRead
<1>11. ToolchainTypeOK'
  BY <1>1, <1>2, <1>5, <1>6, <1>7, <1>8, NothingRead DEF ToolchainTypeOK
<1> QED BY <1>5, <1>7, <1>9, <1>10, <1>11 DEF ToolchainIInv

\* Every step of the system keeps the invariant.
LEMMA StepKeeps == ToolchainIInv /\ [ToolchainNext]_toolchainVars => ToolchainIInv'
<1> SUFFICES ASSUME ToolchainIInv, [ToolchainNext]_toolchainVars PROVE ToolchainIInv'
  OBVIOUS
<1>1. CASE UNCHANGED toolchainVars
  <2>1. UNCHANGED <<world, directory, disk, reports, pc, call, edits, listed, entry, entries>>
    BY <1>1 DEF toolchainVars, catalogVars
  <2>2. EntriesInv'
    BY <2>1, Kept DEF world
  <2> QED BY <2>1, <2>2, CatalogStep DEF ToolchainIInv, ToolchainTypeOK
<1>2. CASE ToolchainNext
  BY <1>2, PackageKeeps, CatalogKeeps, EditKeeps, FailKeeps, DieKeeps, PowerLossKeeps
     DEF ToolchainNext
<1> QED BY <1>1, <1>2

-------------------------------------------------------------------------------
(* The theorems *)

\* The conjunction that every step of both tools, every edit and every fault
\* preserves, from any of the starts.
THEOREM Invariance == ToolchainSpec => []ToolchainIInv
BY InitEstablishes, StepKeeps, PTL DEF ToolchainSpec

\* Whatever has a release name is a whole archive of a conforming build.
THEOREM PackagesStaySound == ToolchainSpec => []PackagesAreSound
<1>1. ToolchainIInv => PackagesAreSound
  <2> SUFFICES ASSUME ToolchainIInv, NEW n \in Names, files[n].data # Absent
               PROVE  SoundArchive(n.platform, files[n].data)
    BY DEF PackagesAreSound, SoundArchive
  <2>1. n \in Targets /\ n # CatalogName
    BY NameFacts
  <2>2. Sound(n, files[n].data)
    BY <2>1 DEF ToolchainIInv, FilesInv
  <2> QED BY <2>1, <2>2 DEF Sound
<1> QED BY <1>1, Invariance, PTL

\* Every catalog ties each release to the archive of that build, in one version.
THEOREM CatalogStaysSound == ToolchainSpec => []CatalogIsSound
<1>1. ToolchainIInv => CatalogIsSound
  <2> SUFFICES ASSUME ToolchainIInv, files[CatalogName].data # Absent
               PROVE  /\ files[CatalogName].data.kind = "catalog"
                      /\ SoundEntries(files[CatalogName].data.entries)
    BY DEF CatalogIsSound, SoundEntries
  <2>1. Sound(CatalogName, files[CatalogName].data)
    BY NameFacts DEF ToolchainIInv, FilesInv
  <2> QED BY <2>1 DEF Sound
<1> QED BY <1>1, Invariance, PTL
===============================================================================
