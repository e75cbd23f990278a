------------------------------ MODULE MacAttempt ------------------------------
(***************************************************************************)
(* MacosKernel::execute: one attempt of the macOS confinement driver.  The *)
(* host starts sandbox-exec in a process group of its own, which becomes   *)
(* the limit launcher and then the plugin; the sandbox denies fork, so the *)
(* group is that one process.                                              *)
(*                                                                         *)
(* Output is counted in units: a stream holds one unit within its limit,   *)
(* and what is sent beyond that passes the limit.                          *)
(***************************************************************************)
EXTENDS Naturals

CONSTANTS MaxFailures,     \* bound on operating-system calls that fail
          MaxOutput        \* bound on units the plugin writes

VARIABLE mac               \* the attempt, a record

Streams == {"stdout", "stderr"}
Limit == 1

Places == {"limits", "spawn", "drain", "input", "memory", "tests", "wait",
           "last", "closing", "more", "verify", "classify", "cleanup", "await", "done"}
Alive == {"launcher", "running"}
Attempts ==
    [pc : Places,
     result : {"none", "error", "exited", "signaled", "deadlineKilled", "memoryLimitKilled"},
     child : Alive \union {"none", "zombie", "reaped"},
     ended : {"not", "exited", "signaled", "killed"},
     killed : BOOLEAN,                     \* a SIGKILL to the group is on its way
     heavy : BOOLEAN,                      \* the footprint is past the threshold
     reason : {"none", "memory", "stream", "deadline"},    \* the three killed_for flags
     stream : Streams, probing : BOOLEAN,  \* where the running drain is
     sent : [Streams -> 0 .. MaxOutput], taken : [Streams -> 0 .. MaxOutput],
     exceeded : SUBSET Streams, closed : SUBSET Streams,
     quiet : SUBSET Streams,               \* ghost: a probe found nothing past the limit
     late : BOOLEAN, overdue : BOOLEAN,    \* the deadline, REAP_GRACE
     failures : 0 .. MaxFailures]

Start ==
    [pc |-> "limits", result |-> "none", child |-> "none", ended |-> "not",
     killed |-> FALSE, heavy |-> FALSE, reason |-> "none",
     stream |-> "stdout", probing |-> FALSE,
     sent |-> [s \in Streams |-> 0], taken |-> [s \in Streams |-> 0],
     exceeded |-> {}, closed |-> {}, quiet |-> {},
     late |-> FALSE, overdue |-> FALSE, failures |-> 0]

At(place) == mac.pc = place
Goto(place) == mac' = [mac EXCEPT !.pc = place]
Return(outcome) == mac' = [mac EXCEPT !.pc = "done", !.result = outcome]

-------------------------------------------------------------------------------
(* The host *)

\* A limit of zero is refused.
CheckLimits == At("limits") /\ (Goto("spawn") \/ Return("error"))

Spawn ==
    /\ At("spawn")
    /\ mac' = [mac EXCEPT !.pc = "drain", !.child = "launcher"]

\* Capture::drain of one stream, and then of the other: in the loop, and after
\* the reaping.
Draining == mac.pc \in {"drain", "last"}
InPipe == mac.sent[mac.stream] - mac.taken[mac.stream]
Ended == mac.child \notin Alive

AfterDrain ==
    IF mac.stream = "stdout" THEN [mac EXCEPT !.stream = "stderr"]
    ELSE [mac EXCEPT !.stream = "stdout", !.pc = IF At("drain") THEN "input" ELSE "closing"]

DrainSkips ==
    /\ Draining /\ ~mac.probing
    /\ mac.stream \in mac.closed \union mac.exceeded
    /\ mac' = AfterDrain

\* The end of the stream, or nothing there yet.
ReadNothing ==
    /\ Draining /\ ~mac.probing /\ mac.stream \notin mac.closed \union mac.exceeded
    /\ InPipe = 0
    /\ mac' = [AfterDrain EXCEPT
                  !.closed = IF Ended THEN @ \union {mac.stream} ELSE @]

\* A read takes what is there, or as much of it as the buffer holds; what the
\* limit leaves no room for is dropped.
ReadSome ==
    /\ Draining /\ ~mac.probing /\ mac.stream \notin mac.closed \union mac.exceeded
    /\ \E count \in 1 .. InPipe :
          mac' = [mac EXCEPT !.taken[mac.stream] = @ + count,
                             !.probing = mac.taken[mac.stream] + count >= Limit]

\* One more byte tells that the limit is passed; without it nothing is said.
Probe ==
    /\ Draining /\ mac.probing
    /\ mac' = IF InPipe > 0
              THEN [AfterDrain EXCEPT !.taken[mac.stream] = @ + 1, !.probing = FALSE,
                                      !.exceeded = @ \union {mac.stream}]
              ELSE [mac EXCEPT
                       !.probing = FALSE,
                       !.quiet = IF mac.taken[mac.stream] > Limit
                                 THEN @ \union {mac.stream} ELSE @,
                       !.closed = IF Ended THEN @ \union {mac.stream} ELSE @]

WriteInput == At("input") /\ Goto("memory")

\* kill_group; each of the three tests is made only if none has killed before.
KillFor(reason) == [mac EXCEPT !.reason = reason, !.killed = TRUE]

\* resident_memory_bytes against memory_kill_threshold.
TestMemory ==
    /\ At("memory")
    /\ mac' = [IF mac.heavy /\ ~Ended /\ mac.reason = "none" THEN KillFor("memory") ELSE mac
               EXCEPT !.pc = "tests"]

TestStreamsAndDeadline ==
    /\ At("tests")
    /\ LET due == IF mac.exceeded # {} THEN "stream"
                  ELSE IF mac.late THEN "deadline" ELSE "none"
       IN  mac' = [IF mac.reason = "none" /\ due # "none" THEN KillFor(due) ELSE mac
                   EXCEPT !.pc = "wait"]

\* wait4 with WNOHANG, and otherwise a poll and the next turn.
WaitChild ==
    /\ At("wait")
    /\ mac' = IF mac.child = "zombie"
              THEN [mac EXCEPT !.pc = "more", !.child = "reaped"]
              ELSE [mac EXCEPT !.pc = "drain"]

\* The loop that empties the pipes of the ended process.
More == At("more") /\ Goto(IF mac.closed = Streams THEN "verify" ELSE "last")

\* A stream past its limit is closed without reading on.
CloseExceeded ==
    /\ At("closing")
    /\ LET closed == mac.closed \union mac.exceeded
       IN  mac' = [mac EXCEPT !.closed = closed,
                              !.pc = IF closed # Streams /\ mac.overdue
                                     THEN "cleanup" ELSE "more"]

\* The signal 0 finds no process left in the group.
VerifyGroupEmpty == At("verify") /\ mac.child = "reaped" /\ Goto("classify")

Termination ==
    CASE mac.reason = "memory" -> "memoryLimitKilled"
      [] mac.reason = "deadline" -> "deadlineKilled"
      [] OTHER -> IF mac.ended = "exited" THEN "exited" ELSE "signaled"

Classify == At("classify") /\ Return(Termination)

\* ProcessCleanup::drop: the kill, and a wait that blocks, unless the child has
\* been reaped.
CleanUp ==
    /\ At("cleanup")
    /\ mac' = IF mac.child = "reaped"
              THEN [mac EXCEPT !.pc = "done", !.result = "error"]
              ELSE [mac EXCEPT !.pc = "await", !.killed = TRUE]

Await ==
    /\ At("await") /\ mac.child = "zombie"
    /\ mac' = [mac EXCEPT !.pc = "done", !.result = "error", !.child = "reaped"]

\* A call of the operating system fails: the ? operator.  ESRCH is no failure
\* of a kill or of a reading of the memory.
Fail ==
    /\ mac.failures < MaxFailures
    /\ mac.pc \in {"spawn", "drain", "input", "memory", "tests", "wait", "last", "verify"}
    /\ ~Draining \/ mac.stream \notin mac.closed \union mac.exceeded
    /\ At("tests") => mac.reason = "none" /\ (mac.exceeded # {} \/ mac.late)
    /\ mac' = [mac EXCEPT !.failures = @ + 1,
                          !.pc = IF At("spawn") THEN "done" ELSE "cleanup",
                          !.result = IF At("spawn") THEN "error" ELSE @]

Host ==
    \/ CheckLimits \/ Spawn \/ DrainSkips \/ ReadNothing \/ ReadSome \/ Probe \/ WriteInput
    \/ TestMemory \/ TestStreamsAndDeadline \/ WaitChild \/ More \/ CloseExceeded
    \/ VerifyGroupEmpty \/ Classify \/ CleanUp \/ Await

-------------------------------------------------------------------------------
(* The process, the kernel and the clock *)

EndChild(how) == mac' = [mac EXCEPT !.child = "zombie", !.ended = how]

\* The launcher sets its limits and executes the plugin, or exits with a code.
LauncherExecutes ==
    mac.child = "launcher" /\ mac' = [mac EXCEPT !.child = "running"]

PluginWrites ==
    /\ mac.child = "running" /\ mac.sent["stdout"] + mac.sent["stderr"] < MaxOutput
    /\ \E s \in Streams : mac' = [mac EXCEPT !.sent[s] = @ + 1]

\* A footprint that is back before it is sampled is as if it had never been.
PluginGrows ==
    mac.child = "running" /\ ~mac.heavy /\ mac' = [mac EXCEPT !.heavy = TRUE]

ChildEnds == ~Ended /\ \E how \in {"exited", "signaled"} : EndChild(how)

KernelKills == mac.killed /\ ~Ended /\ EndChild("killed")

Child == LauncherExecutes \/ PluginWrites \/ PluginGrows \/ ChildEnds

DeadlinePasses ==
    /\ ~mac.late /\ mac.child \in Alive \union {"zombie"}
    /\ mac' = [mac EXCEPT !.late = TRUE]

GracePasses ==
    /\ ~mac.overdue /\ mac.pc \in {"last", "closing", "more"}
    /\ mac' = [mac EXCEPT !.overdue = TRUE]

-------------------------------------------------------------------------------
(* The inductive invariant *)

\* The process is there from the spawn to its reaping.
ChildInv ==
    /\ mac.pc \in {"limits", "spawn"} => mac.child = "none"
    /\ mac.pc \in {"drain", "input", "memory", "tests", "wait", "await"} =>
           mac.child \in Alive \union {"zombie"}
    /\ mac.pc \in {"last", "closing", "more", "verify", "classify"} => mac.child = "reaped"
    /\ mac.pc = "cleanup" => mac.child # "none"
    /\ mac.pc = "done" => mac.child \in {"none", "reaped"}
    /\ mac.ended = "not" <=> mac.child \in Alive \union {"none"}

\* A kill has a reason or comes from the cleanup, and each reason was there.
KillInv ==
    /\ mac.ended = "killed" => mac.killed
    /\ mac.killed =>
           mac.child # "none" /\ (mac.reason # "none" \/ mac.pc \in {"await", "done"})
    /\ mac.reason = "deadline" => mac.late
    /\ mac.reason = "memory" => mac.heavy
    /\ mac.reason = "stream" => mac.exceeded # {}

\* What was taken past the limit is known or was passed over by a probe, but while that
\* probe is still to be made; a closed stream holds nothing that is not known.
DrainInv ==
    /\ \A s \in Streams :
           /\ mac.taken[s] <= mac.sent[s]
           /\ mac.taken[s] > Limit =>
                  s \in mac.exceeded \union mac.quiet \/ (mac.probing /\ s = mac.stream)
           /\ s \in mac.closed => mac.taken[s] = mac.sent[s] \/ s \in mac.exceeded
    /\ mac.closed # {} => mac.child \in {"zombie", "reaped"}
    /\ mac.probing => mac.pc \in {"drain", "last", "cleanup", "await", "done"}
    /\ mac.pc \in {"verify", "classify"} => mac.closed = Streams

\* A result is given at the end, of streams that have been read to theirs.
ResultInv ==
    /\ mac.result # "none" <=> mac.pc = "done"
    /\ mac.result \notin {"none", "error"} => mac.closed = Streams /\ ~mac.probing

AttemptIInv == mac \in Attempts /\ ChildInv /\ KillInv /\ DrainInv /\ ResultInv
===============================================================================
