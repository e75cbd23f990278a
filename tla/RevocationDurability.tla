------------------------- MODULE RevocationDurability -------------------------
(***************************************************************************)
(* RevocationStore on a machine that may lose power.  A directory entry    *)
(* made by hard_link is sure to survive only after sync_directory; until   *)
(* then the file system may have written it out, or not.  Unix fsyncs the  *)
(* directory, elsewhere sync_directory returns Ok without doing anything.  *)
(* The entry of an issuer's directory in the state root, and of the root,  *)
(* made by create_dir_all, is never synced: a power loss may take a whole  *)
(* new directory away, synced markers and all.                             *)
(***************************************************************************)
EXTENDS RevocationStore

CONSTANT DirectorySync   \* TRUE for the cfg(unix) sync_directory

ASSUME DirectorySyncAssumption == DirectorySync \in BOOLEAN

VARIABLES durable,       \* entries on stable storage, per issuer
          rooted,        \* the issuer's directory is itself on stable storage
          kept           \* ghost: sequences appended and accepted in a rooted directory

dvars == <<vars, durable, rooted, kept>>

\* The directory of an issuer may be from an earlier life of the machine.
DInit ==
    /\ Init
    /\ durable = [i \in Issuers |-> {}]
    /\ rooted \in [Issuers -> BOOLEAN]
    /\ kept = [i \in Issuers |-> {}]

\* Variant of PersistDirectory: the directory is never synced.
SkipsSync(v) == UNCHANGED durable

\* What a successful sync_directory has written out.
PersistDirectory(v) ==
    durable' = IF DirectorySync
               THEN [durable EXCEPT ![issuer[v]] = visible[issuer[v]]]
               ELSE durable

Appended(v) == outcome[v] = "accepted" /\ scanned[v] < seq[v]

DurableStep(v) ==
    \/ /\ SyncDirectory(v)
       /\ IF outcome'[v] = "accepted" THEN PersistDirectory(v)
                                      ELSE UNCHANGED durable
       /\ UNCHANGED <<rooted, kept>>
    \/ /\ Return(v)
       /\ kept' = IF Appended(v) /\ rooted[issuer[v]]
                  THEN [kept EXCEPT ![issuer[v]] = @ \union {seq[v]}]
                  ELSE kept
       /\ UNCHANGED <<durable, rooted>>
    \/ /\ \/ Begin(v) \/ Crash(v) \/ Fail(v)
          \/ Step(v) /\ pc[v] \notin {"syncing", "returning"}
       /\ UNCHANGED <<durable, rooted, kept>>

\* All processes die; what was not synced may be gone, or may have been
\* written out anyway.  What is found afterwards is on the disk.
PowerLoss ==
    /\ \E left \in [Issuers -> SUBSET SequenceNumbers],
          gone \in SUBSET {i \in Issuers : ~rooted[i]} :
          /\ \A i \in Issuers :
                IF i \in gone THEN left[i] = {}
                ELSE durable[i] \subseteq left[i] /\ left[i] \subseteq visible[i]
          /\ visible' = left
          /\ durable' = left
          /\ rooted' = [i \in Issuers |-> rooted[i] \/ left[i] # {}]
    /\ lock' = [i \in Issuers |-> NoOne]
    /\ pc' = [v \in Verifiers |-> "idle"]
    /\ outcome' = [v \in Verifiers |-> "none"]
    /\ UNCHANGED <<args, scanned, waited, told, floor, kept>>

DNext == PowerLoss \/ \E v \in Verifiers : DurableStep(v)

DSpec == DInit /\ [][DNext]_dvars

-------------------------------------------------------------------------------
(* The inductive invariant behind the first property, where directories are synced *)

DTypeOK ==
    /\ TypeOK
    /\ durable \in [Issuers -> SUBSET SequenceNumbers]
    /\ rooted \in [Issuers -> BOOLEAN]
    /\ kept \in [Issuers -> SUBSET SequenceNumbers]

\* What is kept is on the disk, in a directory that is; what is on the disk is seen.
KeptInv ==
    \A i \in Issuers :
        /\ kept[i] \subseteq durable[i] /\ durable[i] \subseteq visible[i]
        /\ kept[i] # {} => rooted[i]

\* A marker is seen before it is synced, and synced before its call has succeeded.
AppendInv ==
    \A v \in Verifiers :
        /\ pc[v] \in {"locking", "scanning"} => outcome[v] = "none"
        /\ pc[v] = "syncing" => seq[v] \in Markers(v)
        /\ Appended(v) => seq[v] \in durable[issuer[v]]

DurableIInv == DTypeOK /\ KeptInv /\ AppendInv

-------------------------------------------------------------------------------
(* Properties *)

\* A sequence accepted by the call that appended it, in an issuer's directory that
\* is on the disk itself, is found by every later scan, through any number of power
\* losses: append_marker syncs the directory before it answers Ok, whatever other
\* verifiers do meanwhile.  In a directory made since the machine started it may be
\* lost, since nobody syncs the directory's own entry.
AppendedAcceptanceSurvives ==
    \A i \in Issuers : kept[i] \subseteq visible[i]

\* Every accepted sequence is on stable storage when it is returned, as the
\* comment on fetch_verify_and_record_certification says.
AcceptedIsDurable ==
    \A v \in Verifiers : Accepted(v) => seq[v] \in durable[issuer[v]]
===============================================================================
