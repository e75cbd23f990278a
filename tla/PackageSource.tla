----------------------------- MODULE PackageSource -----------------------------
(***************************************************************************)
(* What `tsp package` requires of a plugin directory: its plugin.json, its *)
(* executable, its optional plugin.superec and the files packed with them. *)
(*                                                                         *)
(* An executable is known by its build number: two builds never have the   *)
(* same bytes, so a number is a SHA-256 digest too.  Every rule a document *)
(* may break is a name, and a document breaks at most one.                 *)
(***************************************************************************)
EXTENDS Naturals

CONSTANTS Versions,      \* release versions a manifest may state
          MaxEdits       \* bound on the changes made to the directories

ASSUME SourceAssumption == MaxEdits \in Nat /\ Versions # {}

Builds == 0 .. MaxEdits

\* validate_manifest.
ManifestRules == {"apiVersion", "id", "name", "version", "creator", "permissions",
                  "kind", "entry", "arguments", "kinds", "inputBytes", "budget",
                  "integrity"}

\* load_and_resolve, about the file itself and the executable it names.
LoadRules == {"size", "json", "platform", "executable"}

\* validate_superec, function by function.  That the record describes the version
\* that was resolved is apart, see RecordAccepted.
DocumentRules == {"size", "duplicateMember", "json"}
EnvelopeRules == {"envelope", "graphCapability"}
IntegrityRules == {"declaration", "digest"}
GraphRules == {"subject", "profile", "implements"}
KnowledgeRules == {"path", "index"}
RecordRules ==
    DocumentRules \union EnvelopeRules \union IntegrityRules \union GraphRules \union KnowledgeRules

\* What refuses the packed files: no regular file, an unsafe or duplicate path in
\* the archive, more than 4096 files, 256 MiB or what ZIP32 can hold.
FileRules == {"symlink", "specialFile", "fileSize"}
PathRules == {"unsafe", "duplicate"}
BoundRules == {"files", "bytes", "zip32"}
TreeRules == FileRules \union PathRules \union BoundRules

None == "nothing"

\* The seal is the integrity digest of this platform, when there is one.
Manifests == [version : Versions, seal : {{}} \union {{b} : b \in Builds},
              breaks : ManifestRules \union LoadRules \union {None}]

\* A record describes one version of the plugin.
NoRecord == [about |-> {}, breaks |-> None]
Records == {NoRecord} \union [about : {{v} : v \in Versions}, breaks : RecordRules \union {None}]

Directories == [build : Builds, manifest : Manifests, record : Records,
                tree : TreeRules \union {None}]

\* load_and_resolve accepts the manifest.
ValidManifest(m) == m.breaks = None

\* The integrity test of load_and_resolve: a sealed manifest names this build.
SealAgrees(m, build) == m.seal \subseteq {build}

\* validate_superec, for the version that was resolved.
RecordAccepted(r, version) == r = NoRecord \/ (r.breaks = None /\ r.about = {version})

\* collect_tree, insert_file, ensure_package_bounds and write_zip succeed.
TreeAccepted(d) == d.tree = None

\* A directory `tsp package` accepts as it is, when the build conforms.
Accepted(d) ==
    /\ ValidManifest(d.manifest) /\ SealAgrees(d.manifest, d.build)
    /\ RecordAccepted(d.record, d.manifest.version)
    /\ TreeAccepted(d)
===============================================================================
