-------------------------- MODULE LinuxAttemptProofs --------------------------
(***************************************************************************)
(* Proofs about LinuxAttempt for any number of calls that fail.            *)
(***************************************************************************)
EXTENDS LinuxAttempt, TLAPS

\* A request has not done anything yet.
LEMMA InitEstablishes == Init => AttemptIInv
<1> SUFFICES ASSUME Init PROVE AttemptIInv
  OBVIOUS
<1>1. TypeOK
  <2>1. failures \in 0 .. MaxFailures
    BY FailuresAssumption DEF Init
  <2>2. pc \in Places /\ result \in Results /\ child \in Children
    BY DEF Init, Places, Results, Children
  <2>3. leaf \in Directory /\ root \in Directory
    BY DEF Init, Directory
  <2> QED
    BY <2>1, <2>2, <2>3 DEF Init, TypeOK
<1>2. ChildInv /\ DirInv
  BY DEF Init, ChildInv, DirInv, WithChild, Watching, Emptying, Drained
<1>3. KillInv /\ SetupInv /\ ResultInv /\ EndInv /\ DrainInv
  BY DEF Init, KillInv, SetupInv, ResultInv, EndInv, DrainInv, Drained
<1> QED
  BY <1>1, <1>2, <1>3 DEF AttemptIInv

\* One call more that fails stays within the bound.
LEMMA FailuresBounded ==
    ASSUME NEW m \in 0 .. MaxFailures, NEW n,
           n = m \/ (m < MaxFailures /\ n = m + 1)
    PROVE  n \in 0 .. MaxFailures
BY FailuresAssumption

\* Type correctness is preserved by every action.
LEMMA TypePreserved == TypeOK /\ [Next]_attemptVars => TypeOK'
<1> SUFFICES ASSUME TypeOK, [Next]_attemptVars PROVE TypeOK'
  OBVIOUS
<1> USE FailuresAssumption DEF TypeOK, Places, Children, Results, Directory, Reasons, Streams,
        Watching, Emptying, Alive, At, Goto, Return, attemptVars, hostVars, childVars, dirVars,
        clocks, faults,
        KillReasons, SetupReason, StreamReason, DeadlineReason,
        DeadlineDue, AllEndsClosed
<1>1. CASE Setup
  <2>1. CASE Preflight
    BY <2>1 DEF Preflight
  <2>2. CASE CreateLeaf
    BY <2>2 DEF CreateLeaf
  <2>3. CASE ConfigureLeaf
    BY <2>3 DEF ConfigureLeaf
  <2>4. CASE CreateRoot
    BY <2>4 DEF CreateRoot, RootFree
  <2>5. CASE OpenPipes
    BY <2>5 DEF OpenPipes
  <2>6. CASE Clone
    BY <2>6 DEF Clone
  <2>7. CASE ConfigureMaps
    BY <2>7 DEF ConfigureMaps
  <2>8. CASE Release
    <3>1. released' \in BOOLEAN
      BY <2>8 DEF Release
    <3>2. pc' \in Places /\ result' \in Results
      BY <2>8 DEF Release
    <3> QED
      BY <2>8, <3>1, <3>2 DEF Release
  <2> QED
    BY <1>1, <2>1, <2>2, <2>3, <2>4, <2>5, <2>6, <2>7, <2>8 DEF Setup
<1>2. CASE Watch
  <2>1. CASE DrainStream("stdout", "stdout", "stderr")
    BY <2>1 DEF DrainStream, Drain
  <2>2. CASE DrainStream("stderr", "stderr", "status")
    BY <2>2 DEF DrainStream, Drain
  <2>3. CASE WatchStatus
    <3>1. statusOpen' \in BOOLEAN /\ setupFailed' \in BOOLEAN /\ failureByte' \in BOOLEAN
      BY <2>3 DEF WatchStatus, ReadStatus
    <3>2. pc' \in Places /\ result' \in Results
      BY <2>3 DEF WatchStatus
    <3> QED
      BY <2>3, <3>1, <3>2 DEF WatchStatus
  <2>4. CASE Supervise
    <3>1. killed' \in BOOLEAN
      BY <2>4 DEF Supervise
    <3>2. reasons' \subseteq Reasons
      BY <2>4 DEF Supervise
    <3>3. pc' \in Places /\ result' \in Results
      BY <2>4 DEF Supervise
    <3> QED
      BY <2>4, <3>1, <3>2, <3>3 DEF Supervise
  <2>5. CASE CheckExit
    BY <2>5 DEF CheckExit
  <2>6. CASE Reap
    <3>1. closed' \subseteq Streams /\ exceeded' \subseteq beyond'
      BY <2>6 DEF Reap
    <3>2. pc' \in Places /\ result' \in Results /\ child' \in Children
      BY <2>6 DEF Reap
    <3>3. reasons' \subseteq Reasons /\ overdue' \in BOOLEAN
      BY <2>6 DEF Reap
    <3> QED
      BY <2>6, <3>1, <3>2, <3>3 DEF Reap
  <2> QED
    BY <1>2, <2>1, <2>2, <2>3, <2>4, <2>5, <2>6 DEF Watch
<1>3. CASE TakeDown
  <2>1. CASE More
    BY <2>1 DEF More, AllRead
  <2>2. CASE DrainStream("lastStdout", "stdout", "lastStderr")
    BY <2>2 DEF DrainStream, Drain
  <2>3. CASE DrainStream("lastStderr", "stderr", "lastStatus")
    BY <2>3 DEF DrainStream, Drain
  <2>4. CASE LastStatus
    <3>1. statusOpen' \in BOOLEAN /\ setupFailed' \in BOOLEAN /\ failureByte' \in BOOLEAN
      BY <2>4 DEF LastStatus, ReadStatus
    <3>2. pc' \in Places /\ result' \in Results
      BY <2>4 DEF LastStatus
    <3> QED
      BY <2>4, <3>1, <3>2 DEF LastStatus
  <2>5. CASE WaitEmpty
    BY <2>5 DEF WaitEmpty
  <2>6. CASE RemoveRoot
    BY <2>6 DEF RemoveRoot
  <2>7. CASE Finish
    BY <2>7 DEF Finish
  <2>8. CASE Classify
    BY <2>8 DEF Classify, SetupGaveUp, Termination, WaitStatus
  <2> QED
    BY <1>3, <2>1, <2>2, <2>3, <2>4, <2>5, <2>6, <2>7, <2>8 DEF TakeDown
<1>4. CASE CleanUp
  <2>1. CASE Kill
    BY <2>1 DEF Kill
  <2>2. CASE AwaitChild
    BY <2>2 DEF AwaitChild, Waited
  <2>3. CASE DropRoot
    <3>1. root' \in Directory
      BY <2>3 DEF DropRoot
    <3>2. failures' = failures \/ (failures < MaxFailures /\ failures' = failures + 1)
      BY <2>3 DEF DropRoot
    <3>3. failures' \in 0 .. MaxFailures
      BY <3>2, FailuresBounded
    <3>4. untidy' \in BOOLEAN
      BY <2>3 DEF DropRoot
    <3> QED
      BY <2>3, <3>1, <3>3, <3>4 DEF DropRoot
  <2>4. CASE DropLeaf
    <3>1. leaf' \in Directory
      BY <2>4 DEF DropLeaf
    <3>2. failures' = failures \/ (failures < MaxFailures /\ failures' = failures + 1)
      BY <2>4 DEF DropLeaf
    <3>3. failures' \in 0 .. MaxFailures
      BY <3>2, FailuresBounded
    <3>4. untidy' \in BOOLEAN
      BY <2>4 DEF DropLeaf
    <3> QED
      BY <2>4, <3>1, <3>3, <3>4 DEF DropLeaf
  <2> QED
    BY <1>4, <2>1, <2>2, <2>3, <2>4 DEF CleanUp
<1>5. CASE Fail
  BY <1>5 DEF Fail, OnError, BeforeClone
<1>6. CASE Child
  <2>1. CASE ChildSetup
    BY <2>1 DEF ChildSetup, EndChild
  <2>2. CASE ChildExecutes
    BY <2>2 DEF ChildExecutes, EndChild
  <2>3. CASE ChildFails
    BY <2>3 DEF ChildFails, EndChild
  <2>4. CASE PluginWritesBeyond
    BY <2>4 DEF PluginWritesBeyond, EndChild
  <2>5. CASE ChildExits
    BY <2>5 DEF ChildExits, EndChild
  <2>6. CASE ChildIsSignaled
    BY <2>6 DEF ChildIsSignaled, EndChild
  <2>7. CASE KernelRunsOutOfMemory
    BY <2>7 DEF KernelRunsOutOfMemory, EndChild
  <2> QED
    BY <1>6, <2>1, <2>2, <2>3, <2>4, <2>5, <2>6, <2>7 DEF Child
<1>7. CASE KernelKills
  BY <1>7 DEF KernelKills, EndChild
<1>8. CASE DeadlinePasses
  BY <1>8 DEF DeadlinePasses
<1>9. CASE GracePasses
  BY <1>9 DEF GracePasses
<1>10. CASE UNCHANGED attemptVars
  BY <1>10
<1> QED
  BY <1>1, <1>2, <1>3, <1>4, <1>5, <1>6, <1>7, <1>8, <1>9, <1>10 DEF Next, Host

\* AttemptIInv without the types and the streams.
Rest == ChildInv /\ DirInv /\ KillInv /\ SetupInv /\ ResultInv /\ EndInv

\* Every step of host, child, kernel and clock keeps it.
LEMMA RestPreserved == AttemptIInv /\ TypeOK' /\ [Next]_attemptVars => Rest'
<1> SUFFICES ASSUME AttemptIInv, TypeOK', [Next]_attemptVars PROVE Rest'
  OBVIOUS
<1> USE DEF Rest, AttemptIInv, TypeOK, ChildInv, DirInv, KillInv, SetupInv, ResultInv, EndInv,
        BeforeChild, WithChild, Drained, InCleanUp, Watching, Emptying, Alive, At, Goto,
        Return, attemptVars, hostVars, childVars, dirVars,
        clocks, faults,
        KillReasons, SetupReason, StreamReason, DeadlineReason,
        DeadlineDue, AllEndsClosed
<1>1. CASE Setup
  <2>1. CASE Preflight
    BY <2>1 DEF Preflight
  <2>2. CASE CreateLeaf
    BY <2>2 DEF CreateLeaf
  <2>3. CASE ConfigureLeaf
    BY <2>3 DEF ConfigureLeaf
  <2>4. CASE CreateRoot
    BY <2>4 DEF CreateRoot, RootFree
  <2>5. CASE OpenPipes
    BY <2>5 DEF OpenPipes
  <2>6. CASE Clone
    BY <2>6 DEF Clone
  <2>7. CASE ConfigureMaps
    BY <2>7 DEF ConfigureMaps
  <2>8. CASE Release
    BY <2>8 DEF Release
  <2> QED
    BY <1>1, <2>1, <2>2, <2>3, <2>4, <2>5, <2>6, <2>7, <2>8 DEF Setup
<1>2. CASE Watch
  <2>1. CASE DrainStream("stdout", "stdout", "stderr")
    BY <2>1 DEF DrainStream, Drain
  <2>2. CASE DrainStream("stderr", "stderr", "status")
    BY <2>2 DEF DrainStream, Drain
  <2>3. CASE WatchStatus
    BY <2>3 DEF WatchStatus, ReadStatus
  <2>4. CASE Supervise
    BY <2>4 DEF Supervise
  <2>5. CASE CheckExit
    BY <2>5 DEF CheckExit
  <2>6. CASE Reap
    BY <2>6 DEF Reap
  <2> QED
    BY <1>2, <2>1, <2>2, <2>3, <2>4, <2>5, <2>6 DEF Watch
<1>3. CASE TakeDown
  <2>1. CASE More
    BY <2>1 DEF More, AllRead
  <2>2. CASE DrainStream("lastStdout", "stdout", "lastStderr")
    BY <2>2 DEF DrainStream, Drain
  <2>3. CASE DrainStream("lastStderr", "stderr", "lastStatus")
    BY <2>3 DEF DrainStream, Drain
  <2>4. CASE LastStatus
    BY <2>4 DEF LastStatus, ReadStatus
  <2>5. CASE WaitEmpty
    BY <2>5 DEF WaitEmpty
  <2>6. CASE RemoveRoot
    BY <2>6 DEF RemoveRoot
  <2>7. CASE Finish
    BY <2>7 DEF Finish
  <2>8. CASE Classify
    <3>1. ResultInv'
      BY <2>8 DEF Classify, SetupGaveUp, Termination, WaitStatus, Reasons
    <3> QED
      BY <2>8, <3>1 DEF Classify
  <2> QED
    BY <1>3, <2>1, <2>2, <2>3, <2>4, <2>5, <2>6, <2>7, <2>8 DEF TakeDown
<1>4. CASE CleanUp
  <2>1. CASE Kill
    <3>1. ChildInv'
      BY <2>1 DEF Kill, Children
    <3>2. DirInv' /\ KillInv'
      BY <2>1 DEF Kill
    <3>3. SetupInv' /\ ResultInv' /\ EndInv'
      BY <2>1 DEF Kill
    <3> QED
      BY <3>1, <3>2, <3>3
  <2>2. CASE AwaitChild
    BY <2>2 DEF AwaitChild, Waited
  <2>3. CASE DropRoot
    BY <2>3 DEF DropRoot
  <2>4. CASE DropLeaf
    BY <2>4 DEF DropLeaf
  <2> QED
    BY <1>4, <2>1, <2>2, <2>3, <2>4 DEF CleanUp
<1>5. CASE Fail
  BY <1>5 DEF Fail, OnError, BeforeClone
<1>6. CASE Child
  <2>1. CASE ChildSetup
    BY <2>1 DEF ChildSetup, EndChild
  <2>2. CASE ChildExecutes
    BY <2>2 DEF ChildExecutes, EndChild
  <2>3. CASE ChildFails
    BY <2>3 DEF ChildFails, EndChild
  <2>4. CASE PluginWritesBeyond
    BY <2>4 DEF PluginWritesBeyond, EndChild
  <2>5. CASE ChildExits
    BY <2>5 DEF ChildExits, EndChild
  <2>6. CASE ChildIsSignaled
    BY <2>6 DEF ChildIsSignaled, EndChild
  <2>7. CASE KernelRunsOutOfMemory
    BY <2>7 DEF KernelRunsOutOfMemory, EndChild
  <2> QED
    BY <1>6, <2>1, <2>2, <2>3, <2>4, <2>5, <2>6, <2>7 DEF Child
<1>7. CASE KernelKills
  BY <1>7 DEF KernelKills, EndChild
<1>8. CASE DeadlinePasses
  BY <1>8 DEF DeadlinePasses
<1>9. CASE GracePasses
  BY <1>9 DEF GracePasses
<1>10. CASE UNCHANGED attemptVars
  BY <1>10
<1> QED
  BY <1>1, <1>2, <1>3, <1>4, <1>5, <1>6, <1>7, <1>8, <1>9, <1>10 DEF Next, Host

\* A drain closes a stream only when nobody writes to it any more and what passed its
\* limit has been seen.
LEMMA DrainKeeps ==
    ASSUME DrainInv, TypeOK, child # "none", NEW s \in Streams, Drain(s),
           UNCHANGED <<child, beyond>>
    PROVE  /\ closed' # {} => child' \in {"zombie", "reaped"}
           /\ closed' \intersect beyond' \subseteq exceeded'
           /\ closed = Streams => closed' = Streams
BY DEF DrainInv, TypeOK, Drain, AllEndsClosed, Streams, Alive, Children

\* Every step keeps what is known of the streams.
LEMMA DrainPreserved == AttemptIInv /\ TypeOK' /\ [Next]_attemptVars => DrainInv'
<1> SUFFICES ASSUME AttemptIInv, TypeOK', [Next]_attemptVars PROVE DrainInv'
  OBVIOUS
<1>0. DrainInv /\ ChildInv /\ TypeOK /\ (result # "none" => pc = "done")
  BY DEF AttemptIInv, ResultInv
\* Most steps change neither streams nor result, and no ended child comes back.
<1>1. ASSUME UNCHANGED <<closed, exceeded, result>>,
             closed # {} => beyond' = beyond,
             closed # {} => child' \in {"zombie", "reaped"},
             pc' \in Drained => pc \in Drained
      PROVE  DrainInv'
  BY <1>0, <1>1 DEF DrainInv
\* The drains, of which there are four.
<1>2. ASSUME NEW place \in {"stdout", "stderr", "lastStdout", "lastStderr"},
             NEW s \in Streams, NEW next \in {"stderr", "status", "lastStderr", "lastStatus"},
             DrainStream(place, s, next)
      PROVE  DrainInv'
  <2>1. child # "none" /\ Drain(s) /\ UNCHANGED <<child, beyond, result>> /\ pc' = next
    BY <1>0, <1>2 DEF DrainStream, At, Goto, childVars, ChildInv, WithChild, Watching,
                      Emptying, Alive
  <2>2. result = "none" /\ next \notin Drained
    BY <1>0, <1>2 DEF DrainStream, At, Drained
  <2> QED
    BY <1>0, <2>1, <2>2, DrainKeeps DEF DrainInv
<1> USE DEF At, Goto, Return, dirVars, childVars, hostVars, clocks, faults, Drained
<1>3. CASE Setup
  <2>1. closed = {} \/ Release \/ ConfigureMaps
    BY <1>0, <1>3 DEF Setup, Preflight, CreateLeaf, ConfigureLeaf, CreateRoot, OpenPipes, Clone,
                      DrainInv, ChildInv, BeforeChild
  <2>2. CASE CreateLeaf
    BY <1>0, <2>1, <2>2 DEF CreateLeaf, DrainInv, ConfigureMaps, Release
  <2> QED
    BY <1>0, <1>1, <1>3, <2>1, <2>2
    DEF Setup, Preflight, ConfigureLeaf, CreateRoot, OpenPipes, Clone, ConfigureMaps, Release,
        DrainInv
<1>4. CASE Watch
  <2>1. CASE Reap
    BY <1>0, <2>1 DEF Reap, DrainInv, TypeOK
  <2>2. CASE WatchStatus \/ Supervise \/ CheckExit
    BY <1>0, <1>1, <2>2 DEF WatchStatus, Supervise, CheckExit, DrainInv
  <2> QED
    BY <1>2, <1>4, <2>1, <2>2 DEF Watch, Streams
<1>5. CASE TakeDown
  <2>1. CASE More
    BY <1>0, <2>1 DEF More, AllRead, DrainInv
  <2>2. CASE Classify
    BY <1>0, <2>2 DEF Classify, DrainInv
  <2>3. CASE LastStatus \/ WaitEmpty \/ RemoveRoot \/ Finish
    BY <1>0, <1>1, <2>3 DEF LastStatus, WaitEmpty, RemoveRoot, Finish, DrainInv
  <2> QED
    BY <1>2, <1>5, <2>1, <2>2, <2>3 DEF TakeDown, Streams
<1>6. CASE CleanUp
  <2>1. CASE Kill
    BY <1>0, <1>1, <2>1 DEF Kill, DrainInv
  <2>2. CASE AwaitChild
    BY <1>0, <1>1, <2>2 DEF AwaitChild, Waited, DrainInv
  <2>3. CASE DropRoot
    BY <1>0, <1>1, <2>3 DEF DropRoot, DrainInv
  <2>4. CASE DropLeaf
    BY <1>0, <2>4 DEF DropLeaf, DrainInv
  <2> QED
    BY <1>6, <2>1, <2>2, <2>3, <2>4 DEF CleanUp
<1>7. CASE Fail
  <2>1. CASE result' = result
    BY <1>0, <1>1, <1>7, <2>1 DEF Fail, DrainInv, OnError, BeforeClone
  <2>2. CASE result' # result
    BY <1>0, <1>7, <2>2 DEF Fail, DrainInv
  <2> QED
    BY <2>1, <2>2
<1>8. CASE Child \/ KernelKills
  <2>1. child \in Alive /\ UNCHANGED <<closed, exceeded, result, pc>>
    BY <1>8 DEF Child, KernelKills, ChildSetup, ChildExecutes, ChildFails, PluginWritesBeyond,
                ChildExits, ChildIsSignaled, KernelRunsOutOfMemory, EndChild, Alive
  <2>2. closed = {}
    BY <1>0, <2>1 DEF DrainInv, Alive
  <2> QED
    BY <1>1, <2>1, <2>2
<1>9. CASE DeadlinePasses \/ GracePasses \/ UNCHANGED attemptVars
  BY <1>0, <1>1, <1>9 DEF DeadlinePasses, GracePasses, attemptVars, DrainInv
<1> QED
  BY <1>3, <1>4, <1>5, <1>6, <1>7, <1>8, <1>9 DEF Next, Host

\* The inductive invariant holds throughout.
THEOREM Invariance == Spec => []AttemptIInv
<1>1. AttemptIInv /\ [Next]_attemptVars => AttemptIInv'
  BY TypePreserved, RestPreserved, DrainPreserved DEF AttemptIInv, Rest
<1> QED
  BY InitEstablishes, <1>1, PTL DEF Spec

\* No path out of execute leaves a process alive or unreaped.
THEOREM NoProcessLeft == Spec => []AttemptLeavesNoProcess
<1>1. AttemptIInv => AttemptLeavesNoProcess
  BY DEF AttemptIInv, ChildInv, AttemptLeavesNoProcess
<1> QED
  BY Invariance, <1>1, PTL

\* Both directories are removed, unless their removal fails in the cleanup.
THEOREM FilesRemoved == Spec => []AttemptRemovesItsFiles
<1>1. AttemptIInv => AttemptRemovesItsFiles
  BY DEF AttemptIInv, DirInv, AttemptRemovesItsFiles
<1> QED
  BY Invariance, <1>1, PTL

\* A child that never executed the plugin is not reported to have exited.
THEOREM ExitsAreThePlugins == Spec => []ExitedMeansExecuted
<1>1. AttemptIInv => ExitedMeansExecuted
  BY DEF AttemptIInv, ResultInv, ExitedMeansExecuted
<1> QED
  BY Invariance, <1>1, PTL

\* The work of the host's kill is not reported as the plugin's own end.
THEOREM EndsAreOwn == Spec => []OwnEndIsOwn
<1>1. AttemptIInv => OwnEndIsOwn
  BY DEF AttemptIInv, ResultInv, OwnEndIsOwn
<1> QED
  BY Invariance, <1>1, PTL

\* The directories of another attempt are left alone by every step: what is
\* removed is what CreateLeaf and CreateRoot have made.
THEOREM OthersLeftAlone == Spec => OthersUntouched
<1> DEFINE Step == (leaf = "other" => leaf' = "other") /\ (root = "other" => root' = "other")
<1>1. AttemptIInv /\ [Next]_attemptVars => [Step]_attemptVars
  <2> SUFFICES ASSUME DirInv, Next PROVE Step
    BY DEF AttemptIInv
  <2> USE DEF DirInv, At, Goto, Return, hostVars, childVars, dirVars, clocks, faults
  <2>1. CASE Setup
    BY <2>1 DEF Setup, Preflight, CreateLeaf, ConfigureLeaf, CreateRoot, RootFree, OpenPipes,
        Clone, ConfigureMaps, Release
  <2>2. CASE Watch
    BY <2>2 DEF Watch, DrainStream, WatchStatus, Supervise, CheckExit, Reap
  <2>3. CASE TakeDown
    BY <2>3 DEF TakeDown, More, DrainStream, LastStatus, WaitEmpty, RemoveRoot, Finish, Classify
  <2>4. CASE CleanUp
    BY <2>4 DEF CleanUp, Kill, AwaitChild, DropRoot, DropLeaf
  <2>5. CASE Fail \/ DeadlinePasses \/ GracePasses \/ UNCHANGED attemptVars
    BY <2>5 DEF Fail, DeadlinePasses, GracePasses, attemptVars
  <2>6. CASE Child \/ KernelKills
    BY <2>6 DEF Child, KernelKills, EndChild, ChildSetup, ChildExecutes, ChildFails,
        PluginWritesBeyond, ChildExits, ChildIsSignaled, KernelRunsOutOfMemory
  <2> QED
    BY <2>1, <2>2, <2>3, <2>4, <2>5, <2>6 DEF Next, Host
<1>2. [][Step]_attemptVars => OthersUntouched
  BY DEF OthersUntouched
<1> QED
  BY Invariance, <1>1, <1>2, PTL DEF Spec

-------------------------------------------------------------------------------
(* Refinement *)

\* What the contract sees of an attempt.
Seen == <<LinuxGroup, EndOf(ended), LinuxCauses, ResultOf(result)>>

\* A host before its first call has no group yet.
LEMMA InitRefines == Init => LinuxContract!Init
BY DEF Init, LinuxContract!Init, LinuxGroup, Alive, EndOf, LinuxCauses, Has, ResultOf

\* The attempt's processes, by where the child is.
LEMMA GroupFacts ==
    ASSUME AttemptIInv
    PROVE  /\ child = "none" => LinuxGroup = "none" /\ EndOf(ended) = "not"
           /\ child \in Alive /\ ~killed => LinuxGroup = "alive" /\ EndOf(ended) = "not"
           /\ child \in Alive /\ killed => LinuxGroup = "doomed" /\ EndOf(ended) = "not"
           /\ child = "zombie" => LinuxGroup = "doomed" /\ EndOf(ended) # "not"
           /\ child = "reaped" => LinuxGroup = "gone" /\ EndOf(ended) # "not"
           /\ ended \in {"exited", "signaled"} => EndOf(ended) = "itself"
           /\ ended = "killed" => EndOf(ended) = "killed"
<1>1. ended = "not" <=> child \in Alive \union {"none"}
  BY DEF AttemptIInv, EndInv
<1>2. EndOf(ended) = "not" <=> ended = "not"
  BY DEF EndOf
<1>3. /\ child = "none" => LinuxGroup = "none"
      /\ child \in Alive /\ ~killed => LinuxGroup = "alive"
      /\ child \in Alive /\ killed => LinuxGroup = "doomed"
      /\ child = "zombie" => LinuxGroup = "doomed"
      /\ child = "reaped" => LinuxGroup = "gone"
  BY DEF LinuxGroup, Alive
<1>4. "zombie" \notin Alive \union {"none"} /\ "reaped" \notin Alive \union {"none"}
  BY DEF Alive
<1>5. /\ ended \in {"exited", "signaled"} => EndOf(ended) = "itself"
      /\ ended = "killed" => EndOf(ended) = "killed"
  BY DEF EndOf
<1> QED BY <1>1, <1>2, <1>3, <1>4, <1>5

\* Each cause is seen exactly when it is there.
LEMMA CauseFacts ==
    /\ LinuxCauses \subseteq LinuxContract!Causes
    /\ "deadline" \in LinuxCauses <=> late
    /\ "memory" \in LinuxCauses <=> oom
    /\ "stream" \in LinuxCauses <=> exceeded # {}
BY DEF LinuxCauses, Has, LinuxContract!Causes

\* A step of host, child, kernel and clock is a step of the contract, or nothing
\* the contract sees.
LEMMA StepRefines ==
    AttemptIInv /\ AttemptIInv' /\ [Next]_attemptVars
        => [LinuxContract!Next]_(LinuxContract!contractVars)
<1> SUFFICES ASSUME AttemptIInv, AttemptIInv', [Next]_attemptVars
             PROVE  LinuxContract!Next \/ UNCHANGED Seen
  BY DEF Seen, LinuxContract!contractVars
<1>1. ASSUME UNCHANGED <<child, ended, killed, late, oom, exceeded, result>>
      PROVE  UNCHANGED Seen
  BY <1>1 DEF Seen, LinuxGroup, Alive, LinuxCauses
<1>2. ASSUME UNCHANGED <<ended, late, oom, exceeded, result>>, LinuxGroup' = LinuxGroup
      PROVE  UNCHANGED Seen
  BY <1>2 DEF Seen, LinuxCauses
\* Output past its limit, and the deadline.
<1>3. ASSUME UNCHANGED <<child, ended, killed, late, oom, result>>, exceeded \subseteq exceeded'
      PROVE  LinuxContract!Next \/ UNCHANGED Seen
  <2>1. CASE exceeded # {} \/ exceeded' = {}
    BY <1>3, <2>1 DEF Seen, LinuxGroup, Alive, LinuxCauses, Has
  <2>2. CASE exceeded = {} /\ exceeded' # {}
    <3>1. LinuxCauses' = LinuxCauses \union {"stream"} /\ "stream" \notin LinuxCauses
      BY <1>3, <2>2 DEF LinuxCauses, Has
    <3>2. LinuxGroup' = LinuxGroup
      BY <1>3 DEF LinuxGroup, Alive
    <3> QED BY <1>3, <3>1, <3>2
            DEF LinuxContract!Next, LinuxContract!CauseArises, LinuxContract!Causes
  <2> QED BY <2>1, <2>2
<1>4. ASSUME DeadlinePasses PROVE LinuxContract!Next
  <2>1. LinuxCauses' = LinuxCauses \union {"deadline"} /\ "deadline" \notin LinuxCauses
    BY <1>4 DEF DeadlinePasses, childVars, hostVars, LinuxCauses, Has
  <2>2. UNCHANGED <<LinuxGroup, EndOf(ended), ResultOf(result)>>
    BY <1>4 DEF DeadlinePasses, childVars, LinuxGroup, Alive
  <2> QED BY <2>1, <2>2
          DEF LinuxContract!Next, LinuxContract!CauseArises, LinuxContract!Causes
\* The host's kill.
<1>5. ASSUME UNCHANGED <<child, ended, late, oom, exceeded, result>>,
             killed => killed', child # "none"
      PROVE  LinuxContract!Next \/ UNCHANGED Seen
  <2>1. CASE LinuxGroup' = LinuxGroup
    BY <1>2, <1>5, <2>1
  <2>2. CASE LinuxGroup' # LinuxGroup
    <3>1. LinuxGroup = "alive" /\ LinuxGroup' = "doomed"
      BY <1>5, <2>2 DEF LinuxGroup, Alive
    <3>2. UNCHANGED <<EndOf(ended), LinuxCauses, ResultOf(result)>>
      BY <1>5 DEF LinuxCauses
    <3> QED BY <3>1, <3>2 DEF LinuxContract!Next, LinuxContract!GroupIsDoomed
  <2> QED BY <2>1, <2>2
\* The end of the child, its own or the kernel's.
<1>6. ASSUME NEW how \in {"exited", "signaled", "killed"}, child \in Alive, EndChild(how),
             how = "killed" => killed, UNCHANGED oom \/ oom'
      PROVE  LinuxContract!Next
  <2>1. LinuxGroup \in {"alive", "doomed"} /\ EndOf(ended) = "not"
        /\ (killed => LinuxGroup = "doomed")
    BY <1>6, GroupFacts
  <2>2. LinuxGroup' = "doomed"
    BY <1>6 DEF EndChild, LinuxGroup, Alive
  <2>3. EndOf(ended)' \in {"itself", "killed"} /\ (EndOf(ended)' = "killed" => how = "killed")
    BY <1>6 DEF EndChild, EndOf
  <2>4. LinuxCauses \subseteq LinuxCauses' /\ LinuxCauses' \subseteq LinuxCauses \union {"memory"}
    BY <1>6 DEF EndChild, clocks, hostVars, LinuxCauses, Has
  <2>5. ResultOf(result)' = ResultOf(result)
    BY <1>6 DEF EndChild
  <2> QED BY <1>6, <2>1, <2>2, <2>3, <2>4, <2>5
          DEF LinuxContract!Next, LinuxContract!GroupEnds
\* The host collects the child.
<1>7. ASSUME child = "zombie", child' = "reaped",
             UNCHANGED <<ended, killed, late, oom, exceeded, result>>
      PROVE  LinuxContract!Next
  <2>1. LinuxGroup = "doomed" /\ EndOf(ended) # "not" /\ LinuxGroup' = "gone"
    BY <1>7, GroupFacts DEF LinuxGroup, Alive
  <2> QED BY <1>7, <2>1
          DEF LinuxContract!Next, LinuxContract!GroupIsCollected, LinuxCauses
\* An error is returned when nothing runs any more.
<1>8. ASSUME result' = "error", pc # "done", child \notin Alive,
             UNCHANGED <<child, ended, killed, late, oom, exceeded>>
      PROVE  LinuxContract!Next
  <2>1. ResultOf(result) = "none" /\ ResultOf(result)' = "error"
    BY <1>8 DEF AttemptIInv, ResultInv, ResultOf
  <2>2. LinuxGroup # "alive" /\ LinuxGroup' = LinuxGroup
    BY <1>8 DEF AttemptIInv, TypeOK, Children, LinuxGroup, Alive
  <2> QED BY <1>8, <2>1, <2>2
          DEF LinuxContract!Next, LinuxContract!ReturnsError, LinuxCauses
\* The result that is reported.
<1>9. ASSUME Classify PROVE LinuxContract!Next
  <2>1. /\ pc = "classify" /\ result = "none" /\ child = "reaped"
        /\ UNCHANGED <<child, ended, killed, late, oom, exceeded>>
    BY <1>9 DEF Classify, At, childVars, hostVars, clocks, AttemptIInv, TypeOK, ResultInv,
                ChildInv, Drained
  <2>2. CASE setupFailed
    BY <1>8, <1>9, <2>1, <2>2 DEF Classify, SetupGaveUp, Return, Alive
  <2>3. CASE ~setupFailed
    <3>1. result' = Termination
      BY <1>9, <2>3 DEF Classify, SetupGaveUp, Return
    <3>2. UNCHANGED <<LinuxGroup, EndOf(ended), LinuxCauses>> /\ LinuxGroup = "gone"
          /\ ResultOf(result) = "none"
      BY <2>1, GroupFacts DEF LinuxGroup, Alive, LinuxCauses, ResultOf
    <3>3. CASE oom
      <4>1. ResultOf(result)' = "memoryLimitKilled" /\ "memory" \in LinuxCauses
        BY <3>1, <3>3, CauseFacts DEF Termination, ResultOf
      <4> QED BY <3>2, <4>1 DEF LinuxContract!Next, LinuxContract!ReturnsResult,
                                LinuxContract!Truthful, LinuxContract!Results
    <3>4. CASE ~oom /\ "deadline" \in reasons
      <4>1. ResultOf(result)' = "deadlineKilled" /\ "deadline" \in LinuxCauses
        BY <3>1, <3>4, CauseFacts DEF Termination, ResultOf, AttemptIInv, EndInv
      <4> QED BY <3>2, <4>1 DEF LinuxContract!Next, LinuxContract!ReturnsResult,
                                LinuxContract!Truthful, LinuxContract!Results
    <3>5. CASE ~oom /\ "deadline" \notin reasons
      <4>1. ResultOf(result)' = "own"
        BY <3>1, <3>5 DEF Termination, WaitStatus, ResultOf
      <4>2. ended # "killed" \/ "stream" \in LinuxCauses
        <5>1. ended = "killed" => reasons # {}
          BY <2>1 DEF AttemptIInv, KillInv, InCleanUp
        <5>2. "setup" \notin reasons /\ ("stream" \in reasons => exceeded # {})
          BY <2>3 DEF AttemptIInv, KillInv
        <5>3. reasons \subseteq {"setup", "stream", "deadline"}
          BY DEF AttemptIInv, TypeOK, Reasons
        <5> QED BY <3>5, <5>1, <5>2, <5>3, CauseFacts
      <4>3. EndOf(ended) = "itself" \/ "stream" \in LinuxCauses
        BY <2>1, <4>2, GroupFacts DEF AttemptIInv, TypeOK, EndOf
      <4> QED BY <3>2, <4>1, <4>3 DEF LinuxContract!Next, LinuxContract!ReturnsResult,
                                      LinuxContract!Truthful, LinuxContract!Results
    <3> QED BY <3>3, <3>4, <3>5
  <2> QED BY <2>2, <2>3
<1> USE DEF At, Goto, Return, dirVars, childVars, hostVars, clocks, faults
<1>10. CASE Setup
  <2>1. CASE Preflight \/ ConfigureLeaf \/ CreateRoot \/ OpenPipes \/ ConfigureMaps \/ Release
    BY <1>1, <2>1 DEF Preflight, ConfigureLeaf, CreateRoot, OpenPipes, ConfigureMaps, Release
  <2>2. CASE CreateLeaf
    <3>1. pc = "leaf" /\ child = "none"
      BY <2>2 DEF CreateLeaf, AttemptIInv, ChildInv, BeforeChild
    <3> QED BY <1>1, <1>8, <2>2, <3>1 DEF CreateLeaf, Alive
  <2>3. CASE Clone
    <3>1. child = "none" /\ ~killed
      BY <2>3 DEF Clone, AttemptIInv, ChildInv, EndInv, BeforeChild
    <3>2. LinuxGroup = "none" /\ LinuxGroup' = "alive"
      BY <2>3, <3>1 DEF Clone, LinuxGroup, Alive
    <3>3. UNCHANGED <<EndOf(ended), LinuxCauses, ResultOf(result)>>
      BY <2>3 DEF Clone, LinuxCauses
    <3> QED BY <3>2, <3>3 DEF LinuxContract!Next, LinuxContract!GroupStarts
  <2> QED BY <1>10, <2>1, <2>2, <2>3 DEF Setup
<1>11. CASE Watch
  <2>1. CASE DrainStream("stdout", "stdout", "stderr") \/ DrainStream("stderr", "stderr", "status")
    BY <1>3, <2>1 DEF DrainStream, Drain
  <2>2. CASE WatchStatus \/ CheckExit
    BY <1>1, <2>2 DEF WatchStatus, CheckExit
  <2>3. CASE Supervise
    <3>1. child # "none"
      BY <2>3 DEF Supervise, AttemptIInv, ChildInv, WithChild, Watching, Alive
    <3> QED BY <1>5, <2>3, <3>1 DEF Supervise
  <2>4. CASE Reap
    <3>1. child = "zombie"
      BY <2>4 DEF Reap, AttemptIInv, ChildInv
    <3> QED BY <1>7, <2>4, <3>1 DEF Reap
  <2> QED BY <1>11, <2>1, <2>2, <2>3, <2>4 DEF Watch
<1>12. CASE TakeDown
  <2>1. CASE \/ DrainStream("lastStdout", "stdout", "lastStderr")
             \/ DrainStream("lastStderr", "stderr", "lastStatus")
    BY <1>3, <2>1 DEF DrainStream, Drain
  <2>2. CASE More \/ LastStatus \/ WaitEmpty \/ RemoveRoot \/ Finish
    BY <1>1, <2>2 DEF More, LastStatus, WaitEmpty, RemoveRoot, Finish
  <2> QED BY <1>9, <1>12, <2>1, <2>2 DEF TakeDown
<1>13. CASE CleanUp
  <2>1. CASE Kill
    <3>1. child # "none"
      BY <2>1 DEF Kill, AttemptIInv, ChildInv, WithChild, Alive
    <3> QED BY <1>5, <2>1, <3>1 DEF Kill
  <2>2. CASE AwaitChild
    BY <1>7, <2>2 DEF AwaitChild, Waited
  <2>3. CASE DropRoot
    BY <1>1, <2>3 DEF DropRoot
  <2>4. CASE DropLeaf
    <3>1. pc = "dropLeaf" /\ child \notin Alive
      BY <2>4 DEF DropLeaf, AttemptIInv, ChildInv, Alive
    <3> QED BY <1>8, <2>4, <3>1 DEF DropLeaf
  <2> QED BY <1>13, <2>1, <2>2, <2>3, <2>4 DEF CleanUp
<1>14. CASE Fail
  <2>1. CASE pc \in {"preflight", "leaf"} /\ result' = "error"
    <3>1. child \notin Alive
      BY <2>1 DEF AttemptIInv, ChildInv, BeforeChild, Alive
    <3> QED BY <1>8, <1>14, <2>1, <3>1 DEF Fail
  <2>2. CASE result' = result
    BY <1>1, <1>14, <2>2 DEF Fail
  <2> QED BY <1>14, <2>1, <2>2 DEF Fail
<1>15. CASE Child \/ KernelKills
  <2>1. CASE ChildSetup \/ ChildExecutes \/ ChildFails
    <3>1. LinuxGroup' = LinuxGroup
      BY <2>1 DEF ChildSetup, ChildExecutes, ChildFails, LinuxGroup, Alive
    <3> QED BY <1>2, <2>1, <3>1 DEF ChildSetup, ChildExecutes, ChildFails
  <2>2. CASE PluginWritesBeyond
    BY <1>1, <2>2 DEF PluginWritesBeyond
  <2>3. CASE ChildExits
    BY <1>6, <2>3 DEF ChildExits, Alive
  <2>4. CASE ChildIsSignaled \/ KernelRunsOutOfMemory \/ KernelKills
    BY <1>6, <2>4 DEF ChildIsSignaled, KernelRunsOutOfMemory, KernelKills
  <2> QED BY <1>15, <2>1, <2>2, <2>3, <2>4 DEF Child
<1>16. CASE GracePasses \/ UNCHANGED attemptVars
  BY <1>1, <1>16 DEF GracePasses, attemptVars
<1> QED BY <1>4, <1>10, <1>11, <1>12, <1>13, <1>14, <1>15, <1>16 DEF Next, Host

\* The Linux kernel keeps the contract of all platforms: a result is given only of a
\* process that is gone, an error leaves none that will run, and a result names a cause
\* that was there.
THEOREM Refinement == Spec => LinuxContract!Spec
BY Invariance, InitRefines, StepRefines, PTL DEF Spec, LinuxContract!Spec
===============================================================================
