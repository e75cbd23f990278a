--------------------------- MODULE RevocationProofs ---------------------------
(***************************************************************************)
(* Proofs about RevocationStore, and about RevocationDurability on it, for *)
(* any number of verifiers, issuers and power losses, and any bounds.      *)
(***************************************************************************)
EXTENDS RevocationDurability, FiniteSetTheorems, TLAPS

-------------------------------------------------------------------------------
(* The store *)

\* Names in a directory are finitely many, so counting them means something.
LEMMA MarkersFinite ==
    ASSUME TypeOK, NEW i \in Issuers
    PROVE  IsFiniteSet(visible[i]) /\ Cardinality(visible[i]) \in Nat
<1>1. IsFiniteSet(SequenceNumbers)
  BY ConstantsAssumption, FS_Interval DEF SequenceNumbers
<1>2. visible[i] \subseteq SequenceNumbers
  BY DEF TypeOK
<1>3. IsFiniteSet(visible[i])
  BY <1>1, <1>2, FS_Subset
<1> QED BY <1>3, FS_CardinalityType

\* The store begins empty and unlocked, with no call under way.
LEMMA InitEstablishes == Init => IInv
<1> SUFFICES ASSUME Init PROVE IInv
  OBVIOUS
<1>1. TypeOK
  BY ConstantsAssumption DEF Init, TypeOK, SequenceNumbers, Operations, Outcomes, Places, Locked
<1>2. WithinMarkerLimit
  BY FS_EmptySet, ConstantsAssumption DEF Init, WithinMarkerLimit
<1> QED
  BY <1>1, <1>2 DEF Init, IInv, LockInv, ScanInv, CommitInv, ReadInv, ToldInv, OutcomeInv,
     Committed, Locked, Undecided, Markers, None

\* Type correctness is preserved by every action.
LEMMA TypePreserved == TypeOK /\ [Next]_vars => TypeOK'
<1> SUFFICES ASSUME TypeOK, [Next]_vars PROVE TypeOK'
  OBVIOUS
<1> USE ConstantsAssumption DEF TypeOK, SequenceNumbers, Operations, Outcomes, Places, Locked,
        Goto, Decide, args
<1>1. ASSUME NEW v \in Verifiers, Begin(v) PROVE TypeOK'
  BY <1>1 DEF Begin
<1>2. ASSUME NEW v \in Verifiers, Step(v) PROVE TypeOK'
  <2>1. CASE AcquireLock(v)
    BY <2>1 DEF AcquireLock
  <2>2. CASE RetryLock(v)
    BY <2>2 DEF RetryLock, BeforeDeadline
  <2>3. CASE LockTimeout(v)
    BY <2>3 DEF LockTimeout
  <2>4. CASE Scan(v)
    BY <2>4 DEF Scan, Markers, None
  <2>5. CASE WritePending(v)
    BY <2>5 DEF WritePending
  <2>6. CASE Link(v)
    BY <2>6 DEF Link
  <2>7. CASE SyncDirectory(v)
    BY <2>7 DEF SyncDirectory
  <2>8. CASE RemovePending(v)
    BY <2>8 DEF RemovePending
  <2>9. CASE Unlock(v)
    BY <2>9 DEF Unlock
  <2>10. CASE Return(v)
    BY <2>10 DEF Return, Answer, None
  <2> QED
    BY <1>2, <2>1, <2>2, <2>3, <2>4, <2>5, <2>6, <2>7, <2>8, <2>9, <2>10 DEF Step
<1>3. ASSUME NEW v \in Verifiers, Fail(v) PROVE TypeOK'
  BY <1>3 DEF Fail, LayoutFails, ScanFails, LinkFails
<1>4. ASSUME NEW v \in Verifiers, Crash(v) PROVE TypeOK'
  BY <1>4 DEF Crash
<1>5. CASE UNCHANGED vars
  BY <1>5 DEF vars
<1> QED
  BY <1>1, <1>2, <1>3, <1>4, <1>5 DEF Next

\* The rest of IInv, given the types.
Rest ==
    /\ LockInv /\ ScanInv /\ CommitInv /\ ReadInv /\ ToldInv
    /\ OutcomeInv /\ WithinMarkerLimit

\* Each step of a verifier keeps what the lock, the scan and the markers say together.
LEMMA RestPreserved == IInv /\ TypeOK' /\ [Next]_vars => Rest'
<1> SUFFICES ASSUME IInv, TypeOK', [Next]_vars PROVE Rest'
  OBVIOUS
<1> USE ConstantsAssumption DEF IInv, Rest, LockInv, ScanInv, CommitInv, ReadInv, ToldInv,
        OutcomeInv, WithinMarkerLimit, Committed, Locked, Undecided, Markers, None, Goto, Decide, args,
        TypeOK
<1>1. ASSUME NEW v \in Verifiers, Begin(v) PROVE Rest'
  BY <1>1 DEF Begin
<1>2. ASSUME NEW v \in Verifiers, Step(v) PROVE Rest'
  <2>1. CASE AcquireLock(v)
    BY <2>1 DEF AcquireLock, LockFree
  <2>2. CASE RetryLock(v)
    BY <2>2 DEF RetryLock, BeforeDeadline
  <2>3. CASE LockTimeout(v)
    BY <2>3 DEF LockTimeout
  <2>4. CASE Scan(v)
    <3> DEFINE h == scanned'[v]
    <3>1. /\ h \in Markers(v) \union {None} /\ IsHighest(h, Markers(v))
          /\ scanned' = [scanned EXCEPT ![v] = h]
          /\ \A n \in Markers(v) : n <= h
          /\ floor[v] <= h
      BY <2>4 DEF Scan, IsHighest, SequenceNumbers
    <3>2. LockInv' /\ ToldInv' /\ WithinMarkerLimit'
      BY <2>4 DEF Scan
    <3>3. OutcomeInv'
      BY <2>4 DEF Scan
    <3>4. ScanInv'
      BY <2>4, <3>1 DEF Scan, Older, Recorded, RoomForMarker, SequenceNumbers
    <3>5. ReadInv'
      BY <2>4, <3>1 DEF Scan
    <3>6. CommitInv'
      BY <2>4, <3>1 DEF Scan, Recorded, SequenceNumbers
    <3> QED
      BY <3>2, <3>3, <3>4, <3>5, <3>6
  <2>5. CASE WritePending(v)
    BY <2>5 DEF WritePending
  <2>6. CASE Link(v)
    <3>1. WithinMarkerLimit'
      <4>1. /\ IsFiniteSet(Markers(v)) /\ Cardinality(Markers(v)) \in Nat
            /\ Cardinality(Markers(v)) < MaxMarkers
        <5>1. issuer[v] \in Issuers /\ Cardinality(Markers(v)) < MaxMarkers
          BY <2>6 DEF Link
        <5> HIDE DEF TypeOK
        <5> QED BY <5>1, MarkersFinite
      <4>2. Cardinality(Markers(v) \union {seq[v]}) <= MaxMarkers
        <5> DEFINE M == Markers(v)
        <5>1. IsFiniteSet(M) /\ Cardinality(M) \in Nat /\ Cardinality(M) < MaxMarkers
          BY <4>1
        <5> HIDE DEF M
        <5>2. Cardinality(M \union {seq[v]}) \in {Cardinality(M), Cardinality(M) + 1}
          BY <5>1, FS_AddElement
        <5>3. Cardinality(M \union {seq[v]}) <= MaxMarkers
          BY <5>1, <5>2
        <5> QED BY <5>3 DEF M
      <4> QED BY <2>6, <4>2 DEF Link
    \* Only the holder of the issuer's lock is between its scan and its link.
    <3>2. \A w \in Verifiers \ {v} : pc[w] \in Locked => Markers(w)' = Markers(w)
      BY <2>6 DEF Link
    <3>3. ScanInv'
      BY <2>6, <3>2 DEF Link
    <3>4. CommitInv'
      BY <2>6 DEF Link, IsHighest, SequenceNumbers
    <3>5. LockInv' /\ ReadInv' /\ ToldInv' /\ OutcomeInv'
      BY <2>6 DEF Link
    <3> QED BY <3>1, <3>3, <3>4, <3>5
  <2>7. CASE SyncDirectory(v)
    BY <2>7 DEF SyncDirectory
  <2>8. CASE RemovePending(v)
    BY <2>8 DEF RemovePending
  <2>9. CASE Unlock(v)
    BY <2>9 DEF Unlock
  <2>10. CASE Return(v)
    BY <2>10 DEF Return, Answer, None
  <2> QED
    BY <1>2, <2>1, <2>2, <2>3, <2>4, <2>5, <2>6, <2>7, <2>8, <2>9, <2>10 DEF Step
<1>3. ASSUME NEW v \in Verifiers, Fail(v) PROVE Rest'
  BY <1>3 DEF Fail, LayoutFails, ScanFails, LinkFails
<1>4. ASSUME NEW v \in Verifiers, Crash(v) PROVE Rest'
  BY <1>4 DEF Crash
<1>5. CASE UNCHANGED vars
  BY <1>5 DEF vars
<1> QED
  BY <1>1, <1>2, <1>3, <1>4, <1>5 DEF Next

\* The lock protects what a scan found until the marker is linked, and every
\* sequence a caller was told of stays recorded.
THEOREM Invariance == Spec => []IInv
<1>1. IInv /\ [Next]_vars => IInv'
  BY TypePreserved, RestPreserved DEF IInv, Rest
<1> QED BY InitEstablishes, <1>1, PTL DEF Spec

\* Every variable keeps its type.
THEOREM TypeCorrect == Spec => []TypeOK
<1>1. IInv => TypeOK
  BY DEF IInv
<1> QED BY Invariance, <1>1, PTL

\* The code never accepts a list older than one any caller had been told of
\* when the call began: whatever floor was, it is still among the markers the
\* scan reads under the lock.
THEOREM NoRollback == Spec => []NoStaleAcceptance
<1>1. IInv => NoStaleAcceptance
  BY DEF IInv, CommitInv, Committed, NoStaleAcceptance, Accepted
<1> QED BY Invariance, <1>1, PTL

\* highest_sequence is never behind what callers had been told.
THEOREM FreshReads == Spec => []ReadsAreCurrent
<1>1. IInv => ReadsAreCurrent
  BY DEF IInv, ReadInv, ReadsAreCurrent
<1> QED BY Invariance, <1>1, PTL

\* An accepted decision is backed by its marker.
THEOREM AcceptedHasMarker == Spec => []AcceptedIsRecorded
<1>1. IInv => AcceptedIsRecorded
  BY DEF IInv, CommitInv, Committed, AcceptedIsRecorded, Accepted
<1> QED BY Invariance, <1>1, PTL

\* Concurrent appends never pass MAX_STATE_MARKERS.
THEOREM MarkerLimitHolds == Spec => []WithinMarkerLimit
<1>1. IInv => WithinMarkerLimit
  BY DEF IInv
<1> QED BY Invariance, <1>1, PTL

\* A linked marker is above every marker already there.
LEMMA LinkIsHighest ==
    ASSUME IInv, NEW v \in Verifiers, Link(v)
    PROVE  \A s \in Markers(v) : s < seq[v]
BY DEF IInv, TypeOK, ScanInv, IsHighest, Link, SequenceNumbers, Markers, None

\* Only Link changes a directory.
LEMMA OnlyLinkWrites ==
    ASSUME [Next]_vars, ~\E v \in Verifiers : Link(v)
    PROVE  visible' = visible
BY DEF Next, vars, Begin, Step, Fail, Crash, AcquireLock, RetryLock, LockTimeout, Scan,
       WritePending, SyncDirectory, RemovePending, Unlock, Return, LayoutFails, ScanFails,
       LinkFails

\* Markers are never removed and only ever added at the top.
THEOREM MarkersAppendOnly == Spec => AppendOnly
<1>1. IInv /\ [Next]_vars => [NewMarkersAreHighest]_vars
  <2> SUFFICES ASSUME IInv, [Next]_vars PROVE NewMarkersAreHighest
    OBVIOUS
  <2>1. CASE \E v \in Verifiers : Link(v)
    <3> PICK v \in Verifiers : Link(v)
      BY <2>1
    <3>1. visible' = [visible EXCEPT ![issuer[v]] = Markers(v) \union {seq[v]}]
      BY DEF Link, Markers
    <3>2. \A s \in Markers(v) : s < seq[v]
      BY LinkIsHighest
    <3> QED
      BY <3>1, <3>2 DEF NewMarkersAreHighest, Markers, IInv, TypeOK
  <2>2. CASE ~\E v \in Verifiers : Link(v)
    BY <2>2, OnlyLinkWrites DEF NewMarkersAreHighest
  <2> QED BY <2>1, <2>2
<1> QED BY Invariance, <1>1, PTL DEF Spec, AppendOnly

-------------------------------------------------------------------------------
(* Refinement *)

\* How a step of one verifier changes the abstract phases.
LEMMA PhaseStep ==
    ASSUME TypeOK, NEW v \in Verifiers, NEW p, NEW r,
           pc' = [pc EXCEPT ![v] = p], outcome' = [outcome EXCEPT ![v] = r]
    PROVE  RegisterPhase' = [RegisterPhase EXCEPT ![v] = PhaseOf(p, r)]
BY DEF RegisterPhase, TypeOK

\* The places of a call that its refinement meets, as phases of the register.
LEMMA PhaseValues ==
    /\ PhaseOf("locking", "none") = "open"
    /\ PhaseOf("idle", "none") = "idle"
    /\ PhaseOf("unlocking", "accepted") = "committed"
    /\ PhaseOf("syncing", "none") = "committed"
BY DEF PhaseOf

\* The empty store is the register at its start.
LEMMA InitRefines == Init => Register!RInit
<1> SUFFICES ASSUME Init PROVE Register!RInit
  OBVIOUS
<1>1. RegisterPhase = [v \in Verifiers |-> "idle"]
  BY DEF Init, RegisterPhase, PhaseOf
<1> QED
  BY <1>1, ConstantsAssumption
     DEF Init, Register!RInit, Register!SequenceNumbers, SequenceNumbers

\* Every step commits, answers, refuses, opens, dies, accepts or stutters.
LEMMA StepRefines == IInv /\ [Next]_vars => [Register!RNext]_(Register!regVars)
<1> SUFFICES ASSUME IInv, [Next]_vars
             PROVE  [Register!RNext]_(Register!regVars)
  OBVIOUS
<1> DEFINE Ph(v) == PhaseOf(pc[v], outcome[v])
           Stutter == UNCHANGED <<visible, RegisterPhase, issuer, seq>>
           Move(v, p) == /\ RegisterPhase' = [RegisterPhase EXCEPT ![v] = p]
                         /\ UNCHANGED <<issuer, seq>>
<1>t. TypeOK /\ OutcomeInv
  BY DEF IInv
<1>p. \A v \in Verifiers : RegisterPhase[v] = Ph(v)
  BY DEF RegisterPhase
<1>r. ASSUME NEW v \in Verifiers, Ph(v) \in {"open", "committed"}, Move(v, "refused"),
             UNCHANGED visible
      PROVE  Register!RNext
  BY <1>r, <1>p DEF Register!RNext, Register!Refuse
<1>c. ASSUME NEW v \in Verifiers, Ph(v) = "open", Move(v, "committed"),
             \A s \in Markers(v) : s <= seq[v],
             visible' = [visible EXCEPT ![issuer[v]] = @ \union {seq[v]}]
      PROVE  Register!RNext
  BY <1>c, <1>p DEF Register!RNext, Register!Commit, Markers
<1>s. ASSUME NEW v \in Verifiers, Ph(v)' = Ph(v), UNCHANGED <<visible, issuer, seq>>,
             \A w \in Verifiers \ {v} : Ph(w)' = Ph(w)
      PROVE  Stutter
  BY <1>s DEF RegisterPhase
<1> USE DEF Goto, Decide, args
<1>1. ASSUME NEW v \in Verifiers, Begin(v) PROVE Register!RNext
  <2>1. RegisterPhase' = [RegisterPhase EXCEPT ![v] = "open"]
    <3>1. pc' = [pc EXCEPT ![v] = "locking"] /\ outcome' = [outcome EXCEPT ![v] = "none"]
      BY <1>1 DEF Begin
    <3>2. RegisterPhase' = [RegisterPhase EXCEPT ![v] = PhaseOf("locking", "none")]
      BY <3>1, <1>t, PhaseStep
    <3> QED BY <1>1, <3>2, PhaseValues DEF Begin
  <2>2. Ph(v) \in Register!Finished
    BY <1>1, <1>t DEF Begin, PhaseOf, OutcomeInv, Undecided, TypeOK, Outcomes, Register!Finished
  <2> QED
    <3>1. Register!Open(v)
      BY <1>1, <2>1, <2>2, <1>p
         DEF Begin, Register!Open, SequenceNumbers, Register!SequenceNumbers
    <3> QED BY <3>1 DEF Register!RNext
<1>2. ASSUME NEW v \in Verifiers, Step(v) PROVE Stutter \/ Register!RNext
  <2>1. CASE AcquireLock(v) \/ RetryLock(v)
    BY <2>1, <1>s, <1>t DEF AcquireLock, RetryLock, PhaseOf, OutcomeInv, Undecided, TypeOK
  <2>2. CASE LockTimeout(v)
    <3>1. Move(v, "refused")
      BY <2>2, <1>t, PhaseStep DEF LockTimeout, PhaseOf
    <3> QED BY <2>2, <3>1, <1>r, <1>t DEF LockTimeout, PhaseOf, OutcomeInv, Undecided
  <2>3. CASE Scan(v)
    <3>o. outcome[v] = "none" /\ Ph(v) = "open"
      BY <2>3, <1>t DEF Scan, PhaseOf, OutcomeInv, Undecided
    <3>1. CASE Decide(v, "answered") /\ Goto(v, "unlocking")
      <4>1. Move(v, "answered")
        BY <2>3, <3>1, <1>t, PhaseStep DEF Scan, PhaseOf
      <4> QED BY <2>3, <4>1, <3>o, <1>p DEF Scan, Register!RNext, Register!Answer
    <3>2. CASE Decide(v, "rejected") /\ Goto(v, "unlocking")
      <4>1. Move(v, "refused")
        BY <2>3, <3>2, <1>t, PhaseStep DEF Scan, PhaseOf
      <4> QED BY <2>3, <4>1, <3>o, <1>r DEF Scan
    <3>3. CASE /\ Decide(v, "accepted") /\ Goto(v, "unlocking")
               /\ \E h \in Markers(v) \union {None} :
                     IsHighest(h, Markers(v)) /\ Recorded(seq[v], h)
      <4>1. Move(v, "committed")
        <5>1. pc' = [pc EXCEPT ![v] = "unlocking"] /\ outcome' = [outcome EXCEPT ![v] = "accepted"]
          BY <2>3, <3>3 DEF Scan
        <5>2. RegisterPhase' = [RegisterPhase EXCEPT ![v] = PhaseOf("unlocking", "accepted")]
          BY <5>1, <1>t, PhaseStep
        <5> QED BY <2>3, <3>3, <5>2, PhaseValues DEF Scan
      <4>2. /\ seq[v] \in Markers(v)
            /\ \A s \in Markers(v) : s <= seq[v]
        BY <3>3, <1>t, ConstantsAssumption
           DEF IsHighest, Recorded, TypeOK, SequenceNumbers, None
      <4>3. visible' = [visible EXCEPT ![issuer[v]] = @ \union {seq[v]}]
        BY <2>3, <4>2, <1>t DEF Scan, Markers, TypeOK
      <4> QED BY <4>1, <4>2, <4>3, <3>o, <1>c
    <3>4. CASE Goto(v, "appending") /\ UNCHANGED outcome
      BY <2>3, <3>4, <3>o, <1>s, <1>t DEF Scan, PhaseOf, TypeOK
    <3> QED BY <2>3, <3>1, <3>2, <3>3, <3>4 DEF Scan
  <2>4. CASE WritePending(v)
    <3>1. CASE Goto(v, "linking") /\ UNCHANGED outcome
      BY <2>4, <3>1, <1>s, <1>t DEF WritePending, PhaseOf, OutcomeInv, Undecided, TypeOK
    <3>2. CASE Decide(v, "rejected") /\ (Goto(v, "unlocking") \/ Goto(v, "cleaning"))
      <4>1. Move(v, "refused")
        BY <2>4, <3>2, <1>t, PhaseStep DEF WritePending, PhaseOf
      <4> QED
        BY <2>4, <4>1, <1>r, <1>t DEF WritePending, PhaseOf, OutcomeInv, Undecided
    <3> QED BY <2>4, <3>1, <3>2 DEF WritePending
  <2>5. CASE Link(v)
    <3>1. pc' = [pc EXCEPT ![v] = "syncing"] /\ outcome' = [outcome EXCEPT ![v] = "none"]
      BY <2>5, <1>t DEF Link, OutcomeInv, Undecided, TypeOK
    <3>2. Move(v, "committed")
      <4>1. RegisterPhase' = [RegisterPhase EXCEPT ![v] = PhaseOf("syncing", "none")]
        BY <3>1, <1>t, PhaseStep
      <4> QED BY <2>5, <4>1, PhaseValues DEF Link
    <3>3. Ph(v) = "open"
      BY <2>5, <1>t DEF Link, PhaseOf, OutcomeInv, Undecided
    <3>4. \A s \in Markers(v) : s <= seq[v]
      BY <2>5, LinkIsHighest DEF IInv, TypeOK, Markers, SequenceNumbers
    <3> QED BY <2>5, <3>2, <3>3, <3>4, <1>c DEF Link
  <2>6. CASE SyncDirectory(v)
    <3>1. CASE Decide(v, "accepted")
      BY <2>6, <3>1, <1>s, <1>t DEF SyncDirectory, PhaseOf, OutcomeInv, Undecided, TypeOK
    <3>2. CASE Decide(v, "rejected")
      <4>1. Move(v, "refused")
        BY <2>6, <3>2, <1>t, PhaseStep DEF SyncDirectory, PhaseOf
      <4> QED
        BY <2>6, <4>1, <1>r, <1>t DEF SyncDirectory, PhaseOf, OutcomeInv, Undecided
    <3> QED BY <2>6, <3>1, <3>2 DEF SyncDirectory
  <2>7. CASE RemovePending(v)
    <3>1. outcome[v] \in {"accepted", "rejected"}
      BY <2>7, <1>t DEF RemovePending, OutcomeInv, Undecided, TypeOK, Outcomes
    <3>2. CASE UNCHANGED outcome \/ outcome[v] = "rejected"
      BY <2>7, <3>1, <3>2, <1>s, <1>t DEF RemovePending, PhaseOf, TypeOK
    <3>3. CASE Decide(v, "rejected") /\ outcome[v] = "accepted"
      <4>1. Move(v, "refused")
        BY <2>7, <3>3, <1>t, PhaseStep DEF RemovePending, PhaseOf
      <4> QED BY <2>7, <3>3, <4>1, <1>r DEF RemovePending, PhaseOf
    <3> QED BY <2>7, <3>1, <3>2, <3>3 DEF RemovePending
  <2>8. CASE Unlock(v)
    BY <2>8, <1>s, <1>t DEF Unlock, PhaseOf, OutcomeInv, Undecided, TypeOK
  <2>9. CASE Return(v)
    <3>1. CASE outcome[v] = "accepted"
      <4>1. outcome' = [outcome EXCEPT ![v] = "accepted"]
        BY <2>9, <3>1, <1>t DEF Return, TypeOK
      <4>2. Move(v, "accepted")
        BY <2>9, <4>1, <1>t, PhaseStep DEF Return, PhaseOf
      <4> QED
        BY <2>9, <3>1, <4>2, <1>p DEF Return, PhaseOf, Register!RNext, Register!Accept
    <3>2. CASE outcome[v] # "accepted"
      BY <2>9, <3>2, <1>s, <1>t DEF Return, PhaseOf, OutcomeInv, Undecided, TypeOK
    <3> QED BY <3>1, <3>2
  <2> QED
    BY <1>2, <2>1, <2>2, <2>3, <2>4, <2>5, <2>6, <2>7, <2>8, <2>9 DEF Step
<1>3. ASSUME NEW v \in Verifiers, Fail(v) PROVE Register!RNext
  <2>1. Move(v, "refused")
    BY <1>3, <1>t, PhaseStep DEF Fail, LayoutFails, ScanFails, LinkFails, PhaseOf
  <2> QED
    BY <1>3, <2>1, <1>r, <1>t
       DEF Fail, LayoutFails, ScanFails, LinkFails, PhaseOf, OutcomeInv, Undecided
<1>4. ASSUME NEW v \in Verifiers, Crash(v) PROVE Register!RNext
  <2>1. Move(v, "idle")
    <3>1. pc' = [pc EXCEPT ![v] = "idle"] /\ outcome' = [outcome EXCEPT ![v] = "none"]
      BY <1>4 DEF Crash
    <3>2. RegisterPhase' = [RegisterPhase EXCEPT ![v] = PhaseOf("idle", "none")]
      BY <3>1, <1>t, PhaseStep
    <3> QED BY <1>4, <3>2, PhaseValues DEF Crash
  <2> QED BY <1>4, <2>1 DEF Crash, Register!RNext, Register!Die
<1>5. CASE UNCHANGED vars
  BY <1>5 DEF vars, RegisterPhase, Register!regVars
<1> QED
  BY <1>1, <1>2, <1>3, <1>4, <1>5 DEF Next, Register!regVars

\* Callers cannot tell the polled lock, the scan, the link and the sync from
\* one atomic compare-and-raise that may be refused.
THEOREM Refinement == Spec => ImplementsRegister
BY Invariance, InitRefines, StepRefines, PTL DEF Spec, ImplementsRegister, Register!RSpec

-------------------------------------------------------------------------------
(* Power losses *)

\* A machine that starts has promised nothing.
LEMMA DInitEstablishes == DInit => DurableIInv
<1> SUFFICES ASSUME DInit PROVE DurableIInv
  OBVIOUS
<1>1. TypeOK
  BY InitEstablishes DEF DInit, IInv
<1> QED
  BY <1>1 DEF DInit, Init, DurableIInv, DTypeOK, KeptInv, AppendInv, Appended

\* A step of a call, with what it does to the disk, is a step of the store.
LEMMA CallSteps ==
    ASSUME NEW v \in Verifiers, DurableStep(v)
    PROVE  Begin(v) \/ Step(v) \/ Fail(v) \/ Crash(v)
BY DEF DurableStep, Step

\* Where the directory is synced before append_marker answers, every call keeps it.
LEMMA CallKeeps ==
    ASSUME DurableIInv, DirectorySync, NEW v \in Verifiers, DurableStep(v)
    PROVE  DurableIInv'
<1>1. TypeOK'
  BY CallSteps, TypePreserved DEF DurableIInv, DTypeOK, Next
<1> USE DEF DurableIInv, DTypeOK, KeptInv, AppendInv, Appended, Markers, Goto, Decide, args
<1>2. CASE SyncDirectory(v) /\ (IF outcome'[v] = "accepted" THEN PersistDirectory(v)
                                                         ELSE UNCHANGED durable)
           /\ UNCHANGED <<rooted, kept>>
  <2>1. /\ UNCHANGED <<visible, issuer, seq, scanned, rooted, kept>> /\ pc[v] = "syncing"
        /\ pc' = [pc EXCEPT ![v] = "cleaning"]
        /\ \/ /\ outcome' = [outcome EXCEPT ![v] = "accepted"]
              /\ durable' = [durable EXCEPT ![issuer[v]] = visible[issuer[v]]]
           \/ outcome' = [outcome EXCEPT ![v] = "rejected"] /\ durable' = durable
    BY <1>2 DEF SyncDirectory, PersistDirectory, TypeOK
  <2>2. /\ durable' \in [Issuers -> SUBSET SequenceNumbers]
        /\ \A i \in Issuers : durable[i] \subseteq durable'[i] /\ durable'[i] \subseteq visible[i]
    BY <2>1 DEF TypeOK
  <2>3. \A w \in Verifiers : outcome'[w] = "accepted" =>
            outcome[w] = "accepted" \/ (w = v /\ seq[w] \in durable'[issuer[w]])
    BY <2>1 DEF TypeOK
  <2>4. \A w \in Verifiers : pc'[w] \in {"locking", "scanning", "syncing"} =>
            w # v /\ pc'[w] = pc[w] /\ outcome'[w] = outcome[w]
    BY <2>1 DEF TypeOK
  <2>5. AppendInv'
    BY <2>1, <2>2, <2>3, <2>4 DEF TypeOK
  <2> QED BY <1>1, <2>1, <2>2, <2>5
<1>3. CASE Return(v) /\ UNCHANGED <<durable, rooted>>
           /\ kept' = IF Appended(v) /\ rooted[issuer[v]]
                      THEN [kept EXCEPT ![issuer[v]] = @ \union {seq[v]}] ELSE kept
  BY <1>1, <1>3 DEF Return, TypeOK
<1>4. CASE UNCHANGED <<durable, rooted, kept>> /\ pc[v] \notin {"syncing", "returning"}
           /\ Step(v)
  <2>1. CASE AcquireLock(v) \/ RetryLock(v) \/ LockTimeout(v)
    BY <1>1, <1>4, <2>1 DEF AcquireLock, RetryLock, LockTimeout, TypeOK
  <2>2. CASE Scan(v)
    <3>1. /\ UNCHANGED <<visible, issuer, seq>> /\ pc[v] = "scanning"
          /\ \E h \in SequenceNumbers \union {None} : scanned' = [scanned EXCEPT ![v] = h]
          /\ \E place \in {"unlocking", "appending"} : pc' = [pc EXCEPT ![v] = place]
          /\ \/ outcome' = outcome
             \/ \E r \in {"answered", "rejected"} : outcome' = [outcome EXCEPT ![v] = r]
             \/ outcome' = [outcome EXCEPT ![v] = "accepted"] /\ scanned'[v] = seq[v]
      BY <2>2 DEF Scan, Recorded, TypeOK
    <3>2. \A w \in Verifiers : w # v =>
              pc'[w] = pc[w] /\ outcome'[w] = outcome[w] /\ scanned'[w] = scanned[w]
      BY <3>1 DEF TypeOK
    <3>3. outcome'[v] = "accepted" => scanned'[v] = seq[v]
      BY <3>1 DEF TypeOK
    <3>4. ~(seq[v] < seq[v]) /\ pc'[v] \in {"unlocking", "appending"}
      BY <3>1, ConstantsAssumption DEF TypeOK, SequenceNumbers
    <3>5. AppendInv'
      BY <1>4, <3>1, <3>2, <3>3, <3>4
    <3> QED BY <1>1, <1>4, <3>1, <3>5
  <2>3. CASE WritePending(v) \/ RemovePending(v) \/ Unlock(v)
    BY <1>1, <1>4, <2>3 DEF WritePending, RemovePending, Unlock, TypeOK
  <2>4. CASE Link(v)
    BY <1>1, <1>4, <2>4 DEF Link, TypeOK
  <2> QED BY <1>4, <2>1, <2>2, <2>3, <2>4 DEF Step, SyncDirectory, Return
<1>5. CASE UNCHANGED <<durable, rooted, kept>> /\ (Begin(v) \/ Crash(v) \/ Fail(v))
  BY <1>1, <1>5 DEF Begin, Crash, Fail, LayoutFails, ScanFails, LinkFails, TypeOK
<1> QED BY <1>2, <1>3, <1>4, <1>5 DEF DurableStep

\* A power loss takes away what was not synced, and every call under way.
LEMMA PowerLossKeeps ==
    ASSUME DurableIInv, PowerLoss
    PROVE  DurableIInv'
<1>1. PICK left \in [Issuers -> SUBSET SequenceNumbers],
           gone \in SUBSET {i \in Issuers : ~rooted[i]} :
        /\ \A i \in Issuers :
              IF i \in gone THEN left[i] = {}
              ELSE durable[i] \subseteq left[i] /\ left[i] \subseteq visible[i]
        /\ visible' = left
        /\ durable' = left
        /\ rooted' = [i \in Issuers |-> rooted[i] \/ left[i] # {}]
  BY DEF PowerLoss
<1>2. /\ lock' = [i \in Issuers |-> NoOne]
      /\ pc' = [v \in Verifiers |-> "idle"]
      /\ outcome' = [v \in Verifiers |-> "none"]
      /\ UNCHANGED <<op, issuer, seq, scanned, waited, told, floor, kept>>
  BY DEF PowerLoss, args
<1>3. DTypeOK'
  BY <1>1, <1>2 DEF DurableIInv, DTypeOK, TypeOK, Places, Locked, Outcomes
<1>4. KeptInv'
  BY <1>1, <1>2 DEF DurableIInv, KeptInv, DTypeOK
<1>5. AppendInv'
  BY <1>2 DEF AppendInv, Appended
<1> QED BY <1>3, <1>4, <1>5 DEF DurableIInv

\* Through any number of power losses and dead processes, on a machine that syncs a
\* directory: what is kept is on the disk, and a marker is there before its call succeeds.
THEOREM DurableInvariance == ASSUME DirectorySync PROVE DSpec => []DurableIInv
<1>1. DurableIInv /\ [DNext]_dvars => DurableIInv'
  <2> SUFFICES ASSUME DurableIInv, [DNext]_dvars PROVE DurableIInv'
    OBVIOUS
  <2>1. CASE PowerLoss
    BY <2>1, PowerLossKeeps
  <2>2. ASSUME NEW v \in Verifiers, DurableStep(v) PROVE DurableIInv'
    BY <2>2, CallKeeps
  <2>3. CASE UNCHANGED dvars
    BY <2>3 DEF dvars, vars, args, DurableIInv, DTypeOK, TypeOK, KeptInv, AppendInv, Appended,
                Markers
  <2> QED BY <2>1, <2>2, <2>3 DEF DNext
<1> QED BY <1>1, DInitEstablishes, PTL DEF DSpec

\* A sequence that append_marker accepted, in a directory that is itself on the disk, is
\* found again by every later scan.
THEOREM AcceptanceSurvives == ASSUME DirectorySync PROVE DSpec => []AppendedAcceptanceSurvives
<1>1. DurableIInv => AppendedAcceptanceSurvives
  BY DEF DurableIInv, KeptInv, AppendedAcceptanceSurvives
<1> QED BY <1>1, DurableInvariance, PTL
===============================================================================
