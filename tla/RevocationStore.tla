---------------------------- MODULE RevocationStore ----------------------------
(***************************************************************************)
(* CertificationRevocationStateStore: the append-only directory of         *)
(* sequence markers with which verifiers on one machine refuse to go back  *)
(* to an older revocation list (tools/tsp/src/certification_distribution). *)
(*                                                                         *)
(* A call is record_verified or highest_sequence, each made by a verifier  *)
(* that is a process of its own.  The calls synchronise only through the   *)
(* file system: an advisory lock per issuer, taken by polling, and the     *)
(* names in the issuer's directory.  A process may die between any two     *)
(* steps; the operating system then drops its lock.  Every file operation  *)
(* may fail.                                                               *)
(*                                                                         *)
(* The pending file's name is random and nothing ever reads it, so only    *)
(* its success or failure is kept.  Marker contents are the sequence in    *)
(* the name; a directory entry the scan rejects is a failing scan.         *)
(***************************************************************************)
EXTENDS Integers, FiniteSets

CONSTANTS Verifiers,     \* processes that share the state directory
          Issuers,       \* issuers, each with its own lock file and directory
          MaxSequence,   \* bound on revocation-list sequences (u64 in the code)
          MaxMarkers,    \* MAX_STATE_MARKERS, 10000 in the code
          Patience,      \* lock timeout in units of LOCK_RETRY_INTERVAL
          Stalled,       \* verifiers the scheduler may stop running for ever
          NoOne          \* the value of a free lock

ASSUME ConstantsAssumption ==
    /\ MaxSequence \in Nat
    /\ MaxMarkers \in Nat
    /\ Patience \in Nat
    /\ Stalled \subseteq Verifiers
    /\ NoOne \notin Verifiers

SequenceNumbers == 0 .. MaxSequence
None == -1

VARIABLES visible,       \* names a scan of each issuer's directory returns
          lock,          \* holder of each issuer's lock file
          pc,            \* where each verifier's call is
          op,            \* which operation it is
          issuer,        \* verified.issuer_id
          seq,           \* verified.revocation_sequence
          scanned,       \* highest, the result of scan_highest_sequence
          waited,        \* retry intervals spent waiting for the lock
          outcome,       \* Result the call is going to return, or returned
          told,          \* ghost: highest sequence any caller was told, per issuer
          floor          \* ghost: told, for the call's issuer, when the call began

args == <<op, issuer, seq>>
vars == <<visible, lock, pc, args, scanned, waited, outcome, told, floor>>

Operations == {"record", "read"}
Outcomes == {"none", "accepted", "answered", "rejected"}
Locked == {"scanning", "appending", "linking", "syncing", "cleaning", "unlocking"}
Places == Locked \union {"idle", "locking", "returning", "done"}

TypeOK ==
    /\ visible \in [Issuers -> SUBSET SequenceNumbers]
    /\ lock \in [Issuers -> Verifiers \union {NoOne}]
    /\ pc \in [Verifiers -> Places]
    /\ op \in [Verifiers -> Operations]
    /\ issuer \in [Verifiers -> Issuers]
    /\ seq \in [Verifiers -> SequenceNumbers]
    /\ scanned \in [Verifiers -> SequenceNumbers \union {None}]
    /\ waited \in [Verifiers -> 0 .. Patience]
    /\ outcome \in [Verifiers -> Outcomes]
    /\ told \in [Issuers -> SequenceNumbers \union {None}]
    /\ floor \in [Verifiers -> SequenceNumbers \union {None}]

Init ==
    /\ visible = [i \in Issuers |-> {}]
    /\ lock = [i \in Issuers |-> NoOne]
    /\ pc = [v \in Verifiers |-> "idle"]
    /\ op = [v \in Verifiers |-> "read"]
    /\ issuer \in [Verifiers -> Issuers]
    /\ seq = [v \in Verifiers |-> 0]
    /\ scanned = [v \in Verifiers |-> None]
    /\ waited = [v \in Verifiers |-> 0]
    /\ outcome = [v \in Verifiers |-> "none"]
    /\ told = [i \in Issuers |-> None]
    /\ floor = [v \in Verifiers |-> None]

-------------------------------------------------------------------------------
Markers(v) == visible[issuer[v]]

\* Fault: the scan keeps the first entry it reads, not the maximum.
FirstEntry(h, M) == h \in M \/ (h = None /\ M = {})

\* h is what scan_highest_sequence computes over the names M.
IsHighest(h, M) ==
    \/ h = None /\ M = {}
    \/ h \in M /\ \A s \in M : s <= h

Goto(v, place) == pc' = [pc EXCEPT ![v] = place]
Decide(v, result) == outcome' = [outcome EXCEPT ![v] = result]

\* The call begins: validate_issuer_id and prepare_layout come before the lock.
Begin(v) ==
    /\ pc[v] \in {"idle", "done"}
    /\ Goto(v, "locking")
    /\ \E o \in Operations, i \in Issuers, s \in SequenceNumbers :
          /\ op' = [op EXCEPT ![v] = o]
          /\ issuer' = [issuer EXCEPT ![v] = i]
          /\ seq' = [seq EXCEPT ![v] = s]
          /\ floor' = [floor EXCEPT ![v] = told[i]]
    /\ scanned' = [scanned EXCEPT ![v] = None]
    /\ waited' = [waited EXCEPT ![v] = 0]
    /\ Decide(v, "none")
    /\ UNCHANGED <<visible, lock, told>>

\* The layout or the lock file cannot be used: no lock is held.
LayoutFails(v) ==
    /\ pc[v] = "locking"
    /\ Goto(v, "returning")
    /\ Decide(v, "rejected")
    /\ UNCHANGED <<visible, lock, args, scanned, waited, told, floor>>

\* Fault: the lock is not exclusive.
SharedLock(v) == TRUE

LockFree(v) == lock[issuer[v]] = NoOne

AcquireLock(v) ==
    /\ pc[v] = "locking"
    /\ LockFree(v)
    /\ lock' = [lock EXCEPT ![issuer[v]] = v]
    /\ Goto(v, "scanning")
    /\ UNCHANGED <<visible, args, scanned, waited, outcome, told, floor>>

\* Fault: the deadline is never compared with the clock.
NoDeadline(v) == TRUE

BeforeDeadline(v) == waited[v] < Patience

\* try_lock_exclusive was contended and the deadline has not passed: sleep.
RetryLock(v) ==
    /\ pc[v] = "locking"
    /\ lock[issuer[v]] # NoOne
    /\ BeforeDeadline(v)
    /\ waited' = [waited EXCEPT ![v] = @ + 1]
    /\ UNCHANGED <<visible, lock, pc, args, scanned, outcome, told, floor>>

\* Fault: the loop retries for ever.
NeverTimesOut(v) == FALSE

LockTimeout(v) ==
    /\ pc[v] = "locking"
    /\ lock[issuer[v]] # NoOne
    /\ ~BeforeDeadline(v)
    /\ Goto(v, "returning")
    /\ Decide(v, "rejected")
    /\ UNCHANGED <<visible, lock, args, scanned, waited, told, floor>>

\* An unreadable, foreign, malformed or surplus entry: the scan fails closed.
ScanFails(v) ==
    /\ pc[v] = "scanning"
    /\ Goto(v, "unlocking")
    /\ Decide(v, "rejected")
    /\ UNCHANGED <<visible, lock, args, scanned, waited, told, floor>>

\* Faults of the three tests below: no rollback check; any marker counts as
\* this one; the count may pass the limit by one.
NeverOlder(s, h) == FALSE
AnyMarker(s, h) == h # None
RoomForOneMore(v) == Cardinality(Markers(v)) <= MaxMarkers

\* The three tests record_verified makes of the highest sequence h, in order.
Older(s, h) == s < h
Recorded(s, h) == s = h
RoomForMarker(v) == Cardinality(Markers(v)) < MaxMarkers

\* scan_highest_sequence and, for record_verified, what it decides from it.
Scan(v) ==
    /\ pc[v] = "scanning"
    /\ Cardinality(Markers(v)) <= MaxMarkers
    /\ \E h \in Markers(v) \union {None} :
          /\ IsHighest(h, Markers(v))
          /\ scanned' = [scanned EXCEPT ![v] = h]
          /\ \/ /\ op[v] = "read"
                /\ Goto(v, "unlocking")
                /\ Decide(v, "answered")
             \/ /\ op[v] = "record"
                /\ Older(seq[v], h)
                /\ Goto(v, "unlocking")
                /\ Decide(v, "rejected")
             \/ /\ op[v] = "record"
                /\ ~Older(seq[v], h)
                /\ Recorded(seq[v], h)
                /\ Goto(v, "unlocking")
                /\ Decide(v, "accepted")
             \/ /\ op[v] = "record"
                /\ ~Older(seq[v], h)
                /\ ~Recorded(seq[v], h)
                /\ ~RoomForMarker(v)
                /\ Goto(v, "unlocking")
                /\ Decide(v, "rejected")
             \/ /\ op[v] = "record"
                /\ ~Older(seq[v], h)
                /\ ~Recorded(seq[v], h)
                /\ RoomForMarker(v)
                /\ Goto(v, "appending")
                /\ UNCHANGED outcome
    /\ UNCHANGED <<visible, lock, args, waited, told, floor>>

\* append_marker up to sync_all: the pending file is created, written, synced.
WritePending(v) ==
    /\ pc[v] = "appending"
    /\ \/ Goto(v, "linking") /\ UNCHANGED outcome
       \/ Goto(v, "unlocking") /\ Decide(v, "rejected")    \* create_new failed
       \/ Goto(v, "cleaning") /\ Decide(v, "rejected")     \* write or sync failed
    /\ UNCHANGED <<visible, lock, args, scanned, waited, told, floor>>

\* hard_link(pending, final_path): never replaces an existing name.
Link(v) ==
    /\ pc[v] = "linking"
    /\ seq[v] \notin Markers(v)
    /\ visible' = [visible EXCEPT ![issuer[v]] = @ \union {seq[v]}]
    /\ Goto(v, "syncing")
    /\ UNCHANGED <<lock, args, scanned, waited, outcome, told, floor>>

LinkFails(v) ==
    /\ pc[v] = "linking"
    /\ Goto(v, "cleaning")
    /\ Decide(v, "rejected")
    /\ UNCHANGED <<visible, lock, args, scanned, waited, told, floor>>

\* sync_directory: an error leaves the marker in place and rejects.
SyncDirectory(v) ==
    /\ pc[v] = "syncing"
    /\ Goto(v, "cleaning")
    /\ Decide(v, "accepted") \/ Decide(v, "rejected")
    /\ UNCHANGED <<visible, lock, args, scanned, waited, told, floor>>

\* remove_file(pending): an error turns Ok into Err, the marker stays.
RemovePending(v) ==
    /\ pc[v] = "cleaning"
    /\ Goto(v, "unlocking")
    /\ UNCHANGED outcome \/ Decide(v, "rejected")
    /\ UNCHANGED <<visible, lock, args, scanned, waited, told, floor>>

\* StateLock is dropped when the call's frame ends, whatever its result.
Unlock(v) ==
    /\ pc[v] = "unlocking"
    /\ lock' = [lock EXCEPT ![issuer[v]] = NoOne]
    /\ Goto(v, "returning")
    /\ UNCHANGED <<visible, args, scanned, waited, outcome, told, floor>>

\* What the caller learns: the sequence it offered, or the one it read.
Answer(v) == IF outcome[v] = "accepted" THEN seq[v]
             ELSE IF outcome[v] = "answered" THEN scanned[v]
             ELSE None

Return(v) ==
    /\ pc[v] = "returning"
    /\ Goto(v, "done")
    /\ told' = IF Answer(v) > told[issuer[v]]
               THEN [told EXCEPT ![issuer[v]] = Answer(v)] ELSE told
    /\ UNCHANGED <<visible, lock, args, scanned, waited, outcome, floor>>

\* The process dies; closing its descriptors releases the advisory lock.
Crash(v) ==
    /\ pc[v] \notin {"idle", "done"}
    /\ Goto(v, "idle")
    /\ Decide(v, "none")
    /\ lock' = IF pc[v] \in Locked
               THEN [lock EXCEPT ![issuer[v]] = NoOne] ELSE lock
    /\ UNCHANGED <<visible, args, scanned, waited, told, floor>>

Step(v) ==
    \/ AcquireLock(v) \/ RetryLock(v) \/ LockTimeout(v) \/ Scan(v)
    \/ WritePending(v) \/ Link(v) \/ SyncDirectory(v) \/ RemovePending(v)
    \/ Unlock(v) \/ Return(v)

Fail(v) == LayoutFails(v) \/ ScanFails(v) \/ LinkFails(v)

Next == \E v \in Verifiers : Begin(v) \/ Step(v) \/ Fail(v) \/ Crash(v)

Spec == Init /\ [][Next]_vars

\* A running thread is scheduled again; one in Stalled may never be.  Nothing
\* is assumed of failures: no call may count on one to end.
Fairness == \A v \in Verifiers \ Stalled : WF_vars(Step(v))
FairSpec == Spec /\ Fairness

-------------------------------------------------------------------------------
(* The inductive invariant behind the properties *)

Undecided == {"idle", "locking", "scanning", "appending", "linking", "syncing"}
Committed(v) == pc[v] = "syncing" \/ outcome[v] = "accepted"

LockInv == \A v \in Verifiers : pc[v] \in Locked => lock[issuer[v]] = v

\* What the scan found still holds when the marker is linked.
ScanInv ==
    \A v \in Verifiers : pc[v] \in {"appending", "linking"} =>
        /\ op[v] = "record"
        /\ scanned[v] < seq[v]
        /\ IsHighest(scanned[v], Markers(v))
        /\ Cardinality(Markers(v)) < MaxMarkers

CommitInv ==
    \A v \in Verifiers : Committed(v) => seq[v] \in Markers(v) /\ seq[v] >= floor[v]

ReadInv ==
    \A v \in Verifiers : outcome[v] = "answered" =>
        /\ scanned[v] \in Markers(v) \union {None}
        /\ scanned[v] >= floor[v]

\* What callers were told is still there to be found.
ToldInv ==
    /\ \A i \in Issuers : told[i] \in visible[i] \union {None}
    /\ \A v \in Verifiers : floor[v] \in Markers(v) \union {None}

OutcomeInv ==
    \A v \in Verifiers :
        /\ outcome[v] = "none" <=> pc[v] \in Undecided
        /\ pc[v] = "cleaning" => outcome[v] # "answered"

\* No interleaving of the count and the link of two verifiers fills a
\* directory past MAX_STATE_MARKERS, which would make every later scan fail.
WithinMarkerLimit ==
    \A i \in Issuers : Cardinality(visible[i]) <= MaxMarkers

\* The conjunction that every step preserves: the lock protects what a scan
\* found until the link, and whatever was told stays recorded.
IInv ==
    /\ TypeOK /\ LockInv /\ ScanInv /\ CommitInv /\ ReadInv /\ ToldInv
    /\ OutcomeInv /\ WithinMarkerLimit

-------------------------------------------------------------------------------
(* Properties *)

Accepted(v) == pc[v] = "done" /\ outcome[v] = "accepted"

\* A verifier never accepts a list older than one that any verifier of the
\* same store had already been told of when its own call began: the whole
\* point of record_verified, across processes that only share files.
NoStaleAcceptance ==
    \A v \in Verifiers : Accepted(v) => seq[v] >= floor[v]

\* highest_sequence answers with at least everything told before it began.
ReadsAreCurrent ==
    \A v \in Verifiers :
        pc[v] = "done" /\ outcome[v] = "answered" => scanned[v] >= floor[v]

\* An accepted decision is backed by its marker, whichever branch accepted it
\* and whatever failed or crashed in between.
AcceptedIsRecorded ==
    \A v \in Verifiers : Accepted(v) => seq[v] \in Markers(v)

\* Markers are never removed, and a new one is above all that were there
\* when it appeared, although scan and link are separate steps.
NewMarkersAreHighest ==
    \A i \in Issuers :
        /\ visible[i] \subseteq visible'[i]
        /\ \A n \in visible'[i] \ visible[i], s \in visible[i] : s < n

AppendOnly == [][NewMarkersAreHighest]_vars

\* Every call of a running process is decided, even when the process that
\* holds the lock never runs again: acquire_lock gives up at its deadline.
EveryCallDecided ==
    \A v \in Verifiers \ Stalled :
        pc[v] = "locking" ~> pc[v] \in {"done", "idle"}

\* The register the store implements.  A call commits at the instant its
\* marker becomes visible, or at the scan that finds it there already.
PhaseOf(place, result) ==
    IF result = "rejected" THEN "refused"
    ELSE IF result = "answered" THEN "answered"
    ELSE IF result = "accepted"
         THEN IF place = "done" THEN "accepted" ELSE "committed"
    ELSE IF place = "idle" THEN "idle"
    ELSE IF place = "syncing" THEN "committed"
    ELSE "open"

RegisterPhase == [v \in Verifiers |-> PhaseOf(pc[v], outcome[v])]

Register == INSTANCE RollbackRegister
                WITH recorded <- visible, phase <- RegisterPhase

\* Scan, link, sync and cleanup under a polled lock, with crashes and I/O
\* errors, look to callers like an atomic compare-and-raise.
ImplementsRegister == Register!RSpec
===============================================================================
