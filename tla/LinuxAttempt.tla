----------------------------- MODULE LinuxAttempt -----------------------------
(***************************************************************************)
(* LinuxKernel::execute: one attempt of the Linux confinement driver.  The *)
(* host makes a control-group leaf and a root directory, clones a child    *)
(* into the leaf, supervises it, reaps it and takes everything down again, *)
(* on every path.                                                          *)
(*                                                                         *)
(* The child is the init process of a PID namespace of its own: when it    *)
(* ends, the kernel has ended every process it started before it reports   *)
(* the end, so the child stands for the whole group.  Output is kept as    *)
(* whether a stream carries more than its limit.  Input changes no branch  *)
(* but that a failed write is an error, and is left out otherwise.         *)
(***************************************************************************)
EXTENDS Naturals

CONSTANT MaxFailures       \* bound on operating-system calls that fail

ASSUME FailuresAssumption == MaxFailures \in Nat

VARIABLES pc,              \* where the host is
          result,          \* what execute returned
          leaf, root,      \* the attempt's directory in the hierarchy, in the sandbox
          child,           \* the cloned process
          ended,           \* how the child ended
          released,        \* the sync byte was written
          executed,        \* ghost: execve has succeeded
          killed,          \* a SIGKILL of the host is on its way
          oom,             \* memory.events counts an oom
          beyond,          \* streams the plugin has written more than the limit to
          failureByte,     \* a setup code is in the status pipe
          exceeded, closed,      \* Capture::exceeded and Capture::closed
          statusOpen, setupFailed,    \* status.is_some(), setup_failure.is_some()
          reasons,         \* what the host has killed for
          late,            \* the deadline has passed
          overdue,         \* the running REAP_GRACE is over
          failures,        \* calls that have failed
          untidy           \* ghost: a removal in the cleanup failed

hostVars == <<exceeded, closed, statusOpen, setupFailed, reasons>>
childVars == <<child, ended, released, executed, killed, oom, beyond, failureByte>>
dirVars == <<leaf, root>>
clocks == <<late, overdue>>
faults == <<failures, untidy>>
attemptVars == <<pc, result, dirVars, childVars, hostVars, clocks, faults>>

Streams == {"stdout", "stderr"}
Directory == {"absent", "mine", "other"}
Reasons == {"setup", "stream", "deadline"}
Results == {"none", "error", "exited", "signaled", "deadlineKilled", "memoryLimitKilled"}

\* The loop while the child lives, and what follows its reaping.
Watching == {"stdout", "stderr", "status", "supervise", "check"}
Emptying == {"more", "lastStdout", "lastStderr", "lastStatus"}
Places == Watching \union Emptying \union
    {"preflight", "leaf", "configure", "root", "pipes", "clone", "maps", "sync",
     "reap", "empty", "removeRoot", "finish", "classify",
     "terminate", "cleanup", "await", "dropRoot", "dropLeaf", "done"}

\* parked waits for the sync byte, setup prepares the sandbox, failed has
\* reported the stage at which it gave up.
Alive == {"parked", "setup", "failed", "running"}
Children == Alive \union {"none", "zombie", "reaped"}

TypeOK ==
    /\ pc \in Places /\ result \in Results
    /\ leaf \in Directory /\ root \in Directory
    /\ child \in Children /\ ended \in {"not", "exited", "signaled", "killed"}
    /\ released \in BOOLEAN /\ executed \in BOOLEAN /\ killed \in BOOLEAN
    /\ oom \in BOOLEAN /\ failureByte \in BOOLEAN
    /\ beyond \subseteq Streams /\ exceeded \subseteq beyond /\ closed \subseteq Streams
    /\ statusOpen \in BOOLEAN /\ setupFailed \in BOOLEAN
    /\ reasons \subseteq Reasons
    /\ late \in BOOLEAN /\ overdue \in BOOLEAN
    /\ failures \in 0 .. MaxFailures /\ untidy \in BOOLEAN

\* Either directory may exist already: an attempt id is derived from the
\* release, the case and the repetition, and comes again when they do.
Init ==
    /\ pc = "preflight" /\ result = "none"
    /\ leaf \in {"absent", "other"} /\ root \in {"absent", "other"}
    /\ child = "none" /\ ended = "not"
    /\ released = FALSE /\ executed = FALSE /\ killed = FALSE
    /\ oom = FALSE /\ beyond = {} /\ failureByte = FALSE
    /\ exceeded = {} /\ closed = {}
    /\ statusOpen = TRUE /\ setupFailed = FALSE /\ reasons = {}
    /\ late = FALSE /\ overdue = FALSE
    /\ failures = 0 /\ untidy = FALSE

-------------------------------------------------------------------------------
(* From the request to a released child *)

At(place) == pc = place
Goto(place) == pc' = place /\ UNCHANGED result

Return(outcome) == pc' = "done" /\ result' = outcome

Preflight ==
    /\ At("preflight") /\ Goto("leaf")
    /\ UNCHANGED <<dirVars, childVars, hostVars, clocks, faults>>

\* create_dir: a directory that exists is an error, and stays.
CreateLeaf ==
    /\ At("leaf")
    /\ IF leaf = "absent" THEN leaf' = "mine" /\ Goto("configure")
                          ELSE leaf' = leaf /\ Return("error")
    /\ UNCHANGED <<root, childVars, hostVars, clocks, faults>>

ConfigureLeaf ==
    /\ At("configure") /\ Goto("root")
    /\ UNCHANGED <<dirVars, childVars, hostVars, clocks, faults>>

\* Fault: a directory that exists is taken over.
AnyRoot == TRUE

RootFree == root = "absent"

CreateRoot ==
    /\ At("root")
    /\ IF RootFree THEN root' = "mine" /\ Goto("pipes")
                   ELSE root' = root /\ Goto("dropLeaf")
    /\ UNCHANGED <<leaf, childVars, hostVars, clocks, faults>>

OpenPipes ==
    /\ At("pipes") /\ Goto("clone")
    /\ UNCHANGED <<dirVars, childVars, hostVars, clocks, faults>>

Clone ==
    /\ At("clone") /\ Goto("maps")
    /\ child' = "parked"
    /\ UNCHANGED <<dirVars, ended, released, executed, killed, oom, beyond, failureByte,
                   hostVars, clocks, faults>>

ConfigureMaps ==
    /\ At("maps") /\ Goto("sync")
    /\ UNCHANGED <<dirVars, childVars, hostVars, clocks, faults>>

\* A child that has ended holds no read end: the write fails.
Release ==
    /\ At("sync")
    /\ IF child = "zombie" THEN Goto("terminate") /\ UNCHANGED released
                           ELSE Goto("stdout") /\ released' = TRUE
    /\ UNCHANGED <<dirVars, child, ended, executed, killed, oom, beyond, failureByte,
                   hostVars, clocks, faults>>

Setup == Preflight \/ CreateLeaf \/ ConfigureLeaf \/ CreateRoot \/ OpenPipes
             \/ Clone \/ ConfigureMaps \/ Release

-------------------------------------------------------------------------------
(* Supervision *)

\* Nobody holds the other end of the pipes any more.
AllEndsClosed == child \notin Alive

\* Capture::drain reads until nothing is there, the limit is passed, or the end.
Drain(s) ==
    /\ exceeded' = exceeded \union ({s} \cap beyond)
    /\ closed' = IF AllEndsClosed /\ (s \notin beyond \/ s \in exceeded)
                 THEN closed \union {s} ELSE closed

\* read_setup_status: the byte comes before the end of the pipe, which execve
\* closes too.
ReadStatus ==
    IF statusOpen /\ failureByte
    THEN setupFailed' = TRUE /\ failureByte' = FALSE /\ UNCHANGED statusOpen
    ELSE /\ statusOpen' = (statusOpen /\ ~executed /\ ~AllEndsClosed)
         /\ UNCHANGED <<setupFailed, failureByte>>

DrainStream(place, s, next) ==
    /\ At(place) /\ Goto(next) /\ Drain(s)
    /\ UNCHANGED <<dirVars, childVars, statusOpen, setupFailed, reasons, clocks, faults>>

WatchStatus ==
    /\ At("status") /\ Goto("supervise") /\ ReadStatus
    /\ UNCHANGED <<dirVars, child, ended, released, executed, killed, oom, beyond,
                   exceeded, closed, reasons, clocks, faults>>

\* Fault: the deadline is left to the caller.
NeverDue == FALSE

DeadlineDue == late

\* The three tests in their order.  A kill for the deadline is the first or
\* none; a stream past its limit is killed for even after another kill.
SetupReason == {r \in {"setup"} : setupFailed /\ reasons = {}}
StreamReason == {r \in {"stream"} : exceeded # {}}
DeadlineReason ==
    {r \in {"deadline"} : DeadlineDue /\ reasons \union SetupReason \union StreamReason = {}}
KillReasons == reasons \union SetupReason \union StreamReason \union DeadlineReason

Supervise ==
    /\ At("supervise")
    /\ reasons' = KillReasons
    /\ killed' = (killed \/ KillReasons # reasons)
    /\ IF reasons # {} /\ overdue THEN Goto("cleanup") ELSE Goto("check")
    /\ UNCHANGED <<dirVars, child, ended, released, executed, oom, beyond, failureByte,
                   exceeded, closed, statusOpen, setupFailed, clocks, faults>>

\* pidfd_exited, and otherwise a poll and the next turn.
CheckExit ==
    /\ At("check")
    /\ Goto(IF child = "zombie" THEN "reap" ELSE "stdout")
    /\ UNCHANGED <<dirVars, childVars, hostVars, clocks, faults>>

\* What is past its limit is not read to its end; a new grace begins.
Reap ==
    /\ At("reap") /\ Goto("more")
    /\ child' = "reaped"
    /\ closed' = closed \union exceeded
    /\ overdue' = FALSE
    /\ UNCHANGED <<dirVars, ended, released, executed, killed, oom, beyond, failureByte,
                   exceeded, statusOpen, setupFailed, reasons, late, faults>>

AllRead == closed = Streams /\ ~statusOpen

More ==
    /\ At("more") /\ Goto(IF AllRead THEN "empty" ELSE "lastStdout")
    /\ UNCHANGED <<dirVars, childVars, hostVars, clocks, faults>>

LastStatus ==
    /\ At("lastStatus") /\ ReadStatus
    /\ Goto(IF overdue THEN "cleanup" ELSE "more")
    /\ UNCHANGED <<dirVars, child, ended, released, executed, killed, oom, beyond,
                   exceeded, closed, reasons, clocks, faults>>

\* wait_empty: the group ended with the child.
WaitEmpty ==
    /\ At("empty") /\ child \notin Alive /\ Goto("removeRoot")
    /\ UNCHANGED <<dirVars, childVars, hostVars, clocks, faults>>

RemoveRoot ==
    /\ At("removeRoot") /\ Goto("finish")
    /\ root' = "absent"
    /\ UNCHANGED <<leaf, childVars, hostVars, clocks, faults>>

Finish ==
    /\ At("finish") /\ Goto("classify")
    /\ leaf' = "absent"
    /\ UNCHANGED <<root, childVars, hostVars, clocks, faults>>

\* WIFEXITED and WIFSIGNALED of the wait status.
WaitStatus == IF ended = "exited" THEN "exited" ELSE "signaled"

\* Fault: the wait status is believed before the host's own reason.
StatusFirst == IF oom THEN "memoryLimitKilled" ELSE WaitStatus

Termination ==
    IF oom THEN "memoryLimitKilled"
    ELSE IF "deadline" \in reasons THEN "deadlineKilled" ELSE WaitStatus

\* Fault: a setup counts as failed only if the host had to end it.
EndedForSetup == "setup" \in reasons

SetupGaveUp == setupFailed

Classify ==
    /\ At("classify")
    /\ Return(IF SetupGaveUp THEN "error" ELSE Termination)
    /\ UNCHANGED <<dirVars, childVars, hostVars, clocks, faults>>

Watch ==
    \/ DrainStream("stdout", "stdout", "stderr")
    \/ DrainStream("stderr", "stderr", "status")
    \/ WatchStatus \/ Supervise \/ CheckExit \/ Reap

TakeDown ==
    \/ More
    \/ DrainStream("lastStdout", "stdout", "lastStderr")
    \/ DrainStream("lastStderr", "stderr", "lastStatus")
    \/ LastStatus \/ WaitEmpty \/ RemoveRoot \/ Finish \/ Classify

-------------------------------------------------------------------------------
(* Failures and the guards that clean up *)

\* Fault: the root is left to the child, as if it had been cloned already.
LeavesRoot == "dropLeaf"

\* What spawn does about an error before there is a child.
BeforeClone == "dropRoot"

OnError(place) ==
    CASE place \in {"configure", "root"} -> "dropLeaf"
      [] place \in {"pipes", "clone"} -> BeforeClone
      [] place \in {"maps", "sync"} -> "terminate"
      [] place = "finish" -> "dropLeaf"
      [] OTHER -> "cleanup"

\* A call of the operating system fails: the ? operator.
Fail ==
    /\ failures < MaxFailures /\ failures' = failures + 1
    /\ \/ pc \in {"preflight", "leaf"} /\ Return("error")
       \/ /\ pc \in Watching \union
                 {"configure", "root", "pipes", "clone", "maps", "sync", "reap",
                  "lastStdout", "lastStderr", "lastStatus", "empty", "removeRoot", "finish"}
          /\ pc = "supervise" => KillReasons # reasons
          /\ Goto(OnError(pc))
    /\ UNCHANGED <<dirVars, childVars, hostVars, clocks, untidy>>

\* terminate_and_reap and ProcessCleanup::drop kill before they wait.
Kill ==
    /\ \/ At("terminate") /\ Goto("await")
       \/ At("cleanup") /\ Goto(IF child = "reaped" THEN "dropRoot" ELSE "await")
    /\ killed' = TRUE
    /\ UNCHANGED <<dirVars, child, ended, released, executed, oom, beyond, failureByte,
                   hostVars, clocks, faults>>

Waited == child = "zombie"

\* A waitpid that blocks until the child is gone.
AwaitChild ==
    /\ At("await") /\ Waited /\ Goto("dropRoot")
    /\ child' = IF child = "zombie" THEN "reaped" ELSE child
    /\ UNCHANGED <<dirVars, ended, released, executed, killed, oom, beyond, failureByte,
                   hostVars, clocks, faults>>

\* remove_dir in RootCleanup and ProcessCleanup, whose error is ignored.
DropRoot ==
    /\ At("dropRoot") /\ Goto("dropLeaf")
    /\ \/ root' = "absent" /\ UNCHANGED faults
       \/ /\ failures < MaxFailures /\ failures' = failures + 1
          /\ untidy' = TRUE /\ UNCHANGED root
    /\ UNCHANGED <<leaf, childVars, hostVars, clocks>>

\* CgroupLeaf::drop: a kill for whatever is left, and one look whether the
\* leaf is empty.
DropLeaf ==
    /\ At("dropLeaf") /\ Return("error")
    /\ \/ /\ leaf' = IF child \in Alive THEN leaf ELSE "absent"
          /\ UNCHANGED faults
       \/ /\ failures < MaxFailures /\ failures' = failures + 1
          /\ untidy' = TRUE /\ UNCHANGED leaf
    /\ UNCHANGED <<root, childVars, hostVars, clocks>>

CleanUp == Kill \/ AwaitChild \/ DropRoot \/ DropLeaf

Host == Setup \/ Watch \/ TakeDown \/ CleanUp

-------------------------------------------------------------------------------
(* The child, the kernel and the clock *)

EndChild(how) ==
    /\ child' = "zombie" /\ ended' = how
    /\ UNCHANGED <<pc, result, dirVars, released, executed, killed, beyond, failureByte,
                   hostVars, clocks, faults>>

\* PreparedChild::run: setup, then execve or a code in the status pipe.
ChildSetup ==
    /\ child = "parked" /\ released /\ child' = "setup"
    /\ UNCHANGED <<pc, result, dirVars, ended, released, executed, killed, oom, beyond,
                   failureByte, hostVars, clocks, faults>>

ChildExecutes ==
    /\ child = "setup" /\ child' = "running" /\ executed' = TRUE
    /\ UNCHANGED <<pc, result, dirVars, ended, released, killed, oom, beyond,
                   failureByte, hostVars, clocks, faults>>

ChildFails ==
    /\ child = "setup" /\ child' = "failed" /\ failureByte' = TRUE
    /\ UNCHANGED <<pc, result, dirVars, ended, released, executed, killed, oom, beyond,
                   hostVars, clocks, faults>>

PluginWritesBeyond ==
    /\ child = "running"
    /\ \E s \in Streams \ beyond : beyond' = beyond \union {s}
    /\ UNCHANGED <<pc, result, dirVars, child, ended, released, executed, killed, oom,
                   failureByte, hostVars, clocks, faults>>

ChildExits == child \in {"failed", "running"} /\ EndChild("exited") /\ UNCHANGED oom

ChildIsSignaled == child \in Alive /\ EndChild("signaled") /\ UNCHANGED oom

KernelRunsOutOfMemory == child \in Alive /\ EndChild("signaled") /\ oom' = TRUE

KernelKills == killed /\ child \in Alive /\ EndChild("killed") /\ UNCHANGED oom

Child ==
    \/ ChildSetup \/ ChildExecutes \/ ChildFails \/ PluginWritesBeyond
    \/ ChildExits \/ ChildIsSignaled \/ KernelRunsOutOfMemory

DeadlinePasses ==
    /\ ~late /\ pc \in Watching /\ late' = TRUE
    /\ UNCHANGED <<pc, result, dirVars, childVars, hostVars, overdue, faults>>

\* Five seconds after the first kill, or after the reaping.
GracePasses ==
    /\ ~overdue /\ overdue' = TRUE
    /\ (pc \in Watching /\ reasons # {}) \/ pc \in Emptying
    /\ UNCHANGED <<pc, result, dirVars, childVars, hostVars, late, faults>>

Next ==
    \/ Host \/ Fail \/ Child \/ KernelKills \/ DeadlinePasses \/ GracePasses
    \/ pc = "done" /\ UNCHANGED attemptVars

Spec == Init /\ [][Next]_attemptVars

-------------------------------------------------------------------------------
(* The inductive invariant *)

BeforeChild == {"preflight", "leaf", "configure", "root", "pipes", "clone"}
WithChild == Watching \union {"maps", "sync", "reap", "terminate", "await"}
Drained == {"empty", "removeRoot", "finish", "classify"}
InCleanUp == {"terminate", "cleanup", "await", "dropRoot", "dropLeaf"}

\* The child is there from the clone to its reaping.
ChildInv ==
    /\ pc \in BeforeChild => child = "none"
    /\ pc \in WithChild => child \in Alive \union {"zombie"}
    /\ pc = "reap" => child = "zombie"
    /\ pc \in Emptying \union Drained => child = "reaped"
    /\ pc = "cleanup" => child # "none"
    /\ pc \in {"dropRoot", "dropLeaf", "done"} => child \in {"none", "reaped"}

\* Which of the attempt's directories are there.
DirInv ==
    /\ pc \notin {"preflight", "leaf", "classify", "done"} => leaf = "mine"
    /\ pc \notin {"preflight", "leaf", "configure", "root", "finish", "classify",
                  "dropLeaf", "done"} => root = "mine"
    /\ pc \in {"preflight", "leaf", "classify"} => leaf # "mine"
    /\ pc \in {"preflight", "leaf", "configure", "root", "finish", "classify"} =>
           root # "mine"
    /\ pc = "dropLeaf" /\ ~untidy => root # "mine"
    /\ pc = "done" /\ ~untidy => leaf # "mine" /\ root # "mine"

\* A kill outside the cleanup has a reason, and each reason leaves its mark.
KillInv ==
    /\ ended = "killed" => killed
    /\ killed => reasons # {} \/ pc \in InCleanUp \/ pc = "done"
    /\ "setup" \in reasons => setupFailed
    /\ "stream" \in reasons => exceeded # {}

\* A child that gave up has said so, and the host does not stop listening
\* before it has heard it.
SetupInv ==
    /\ executed => child \notin {"none", "parked", "setup", "failed"}
    /\ child = "running" => executed
    /\ child = "failed" \/ (ended = "exited" /\ ~executed) => failureByte \/ setupFailed
    /\ ~statusOpen => ~failureByte /\ (executed \/ child \in {"zombie", "reaped"})
    /\ pc \in Drained => ~statusOpen

\* What a result says is what happened.
ResultInv ==
    /\ result # "none" => pc = "done"
    /\ result = "exited" => executed
    /\ result \in {"exited", "signaled"} /\ exceeded = {} => ended # "killed"

\* Nothing is killed before there is a child, a child has an end when it has ended, and
\* nothing is killed for a deadline that has not passed.
EndInv ==
    /\ pc \in BeforeChild => ~killed
    /\ ended = "not" <=> child \in Alive \union {"none"}
    /\ "deadline" \in reasons => late

\* A stream that is closed carries no more, and what passed its limit was seen; a result
\* is given when both are closed.
DrainInv ==
    /\ closed # {} => child \in {"zombie", "reaped"}
    /\ closed \intersect beyond \subseteq exceeded
    /\ pc \in Drained \/ result \notin {"none", "error"} => closed = Streams

AttemptIInv ==
    TypeOK /\ ChildInv /\ DirInv /\ KillInv /\ SetupInv /\ ResultInv /\ EndInv /\ DrainInv

-------------------------------------------------------------------------------
(* What the attempt is to its caller: AttemptContract *)

\* The process, doomed once its end is under way.
LinuxGroup ==
    CASE child = "none" -> "none" [] child = "reaped" -> "gone"
      [] child = "zombie" \/ (child \in Alive /\ killed) -> "doomed"
      [] child \in Alive /\ ~killed -> "alive"

\* An end that was not the host's.
EndOf(how) == IF how \in {"exited", "signaled"} THEN "itself" ELSE how

Has(cause, there) == {c \in {cause} : there}

LinuxCauses ==
    Has("deadline", late) \union Has("memory", oom) \union Has("stream", exceeded # {})

ResultOf(r) == IF r \in {"exited", "signaled"} THEN "own" ELSE r

LinuxContract == INSTANCE AttemptContract
    WITH group <- LinuxGroup, how <- EndOf(ended), causes <- LinuxCauses,
         result <- ResultOf(result)

-------------------------------------------------------------------------------
(* Properties *)

\* No path out of execute, whichever call failed, leaves a process that is
\* alive or a zombie.
AttemptLeavesNoProcess == pc = "done" => child \in {"none", "reaped"}

\* Every path out removes both directories it made, if only the removal
\* itself does not fail in the cleanup.
AttemptRemovesItsFiles == pc = "done" /\ ~untidy => leaf # "mine" /\ root # "mine"

\* The directories of an earlier attempt of the same name are never taken
\* over or removed: they may hold a process that still runs.
OthersUntouched ==
    [][(leaf = "other" => leaf' = "other") /\ (root = "other" => root' = "other")]_attemptVars

\* An exit is the plugin's: a child that gave up before execve is never
\* reported as a plugin that exited.
ExitedMeansExecuted == result = "exited" => executed

\* An end by exit or signal, with no stream past its limit, was the plugin's
\* own doing and never the work of the host's kill.
OwnEndIsOwn ==
    result \in {"exited", "signaled"} /\ exceeded = {} => ended # "killed"
===============================================================================
