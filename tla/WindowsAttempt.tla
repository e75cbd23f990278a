---------------------------- MODULE WindowsAttempt ----------------------------
(***************************************************************************)
(* Win32Kernel::execute: one attempt of the Windows confinement driver.    *)
(* The host makes a job object that allows one process and kills it when   *)
(* its handle closes, creates the process suspended, assigns it to the     *)
(* job, lets it run, and supervises it; a thread of its own writes the     *)
(* input.                                                                  *)
(***************************************************************************)
EXTENDS Naturals

CONSTANT MaxFailures       \* bound on operating-system calls that fail

VARIABLE win               \* the attempt, a record

Streams == {"stdout", "stderr"}

Places == {"loopback", "create", "assign", "endUnassigned", "resume", "spawnWriter",
           "endJob", "reap", "drain", "notices", "streams", "wait", "deadline", "grace",
           "join", "last", "observe", "classify", "cleanup", "cleanupReap", "joinLast",
           "done"}
Alive == {"suspended", "running"}
Attempts ==
    [pc : Places,
     result : {"none", "error", "exited", "deadlineKilled", "memoryLimitKilled"},
     process : Alive \union {"none", "gone"},
     ended : {"not", "itself", "killed"},
     assigned : BOOLEAN, jobOpen : BOOLEAN,
     killed : BOOLEAN,                     \* a termination is on its way
     notice : BOOLEAN, violated : BOOLEAN, \* the port's and the job's word on memory
     reasons : SUBSET {"memory", "stream", "deadline"},    \* the three killed flags
     writer : {"none", "writing", "done", "failed"},
     stream : Streams,                     \* where the running drain is
     waiting : SUBSET Streams,             \* bytes are in the pipe
     beyond : SUBSET Streams,              \* streams the plugin has overfilled
     exceeded : SUBSET Streams, closed : SUBSET Streams,
     late : BOOLEAN, overdue : BOOLEAN,    \* the deadline, REAP_TIMEOUT
     failures : 0 .. MaxFailures]

Start ==
    [pc |-> "loopback", result |-> "none", process |-> "none", ended |-> "not",
     assigned |-> FALSE, jobOpen |-> FALSE, killed |-> FALSE,
     notice |-> FALSE, violated |-> FALSE, reasons |-> {}, writer |-> "none",
     stream |-> "stdout", waiting |-> {}, beyond |-> {}, exceeded |-> {}, closed |-> {},
     late |-> FALSE, overdue |-> FALSE, failures |-> 0]

At(place) == win.pc = place
Goto(place) == win' = [win EXCEPT !.pc = place]

\* The handles close when execute returns, the job's among them.
Return(outcome) == [win EXCEPT !.pc = "done", !.result = outcome, !.jobOpen = FALSE]

Gone == win.process = "gone"

-------------------------------------------------------------------------------
(* From the job to a running process *)

\* verify_not_loopback_exempt finds the container exempt, or not.
CheckLoopback == At("loopback") /\ (Goto("create") \/ win' = Return("error"))

CreateSuspended ==
    /\ At("create")
    /\ win' = [win EXCEPT !.pc = "assign", !.jobOpen = TRUE, !.process = "suspended"]

Assign ==
    /\ At("assign")
    /\ win' = [win EXCEPT !.pc = "resume", !.assigned = TRUE]

Resume ==
    /\ At("resume")
    /\ win' = [win EXCEPT !.pc = "spawnWriter",
                          !.process = "running"]

SpawnWriter ==
    /\ At("spawnWriter")
    /\ win' = [win EXCEPT !.pc = "drain", !.writer = "writing"]

\* terminate_unassigned_and_reap and terminate_job_and_reap: the wait is bounded.
Terminate ==
    /\ win.pc \in {"endUnassigned", "endJob"}
    /\ win' = [win EXCEPT !.pc = "reap", !.killed = TRUE]

Reap == At("reap") /\ (Gone \/ win.overdue) /\ win' = Return("error")

Setup == CheckLoopback \/ CreateSuspended \/ Assign \/ Resume \/ SpawnWriter
             \/ Terminate \/ Reap

-------------------------------------------------------------------------------
(* Supervision *)

Draining == win.pc \in {"drain", "last"}

AfterDrain ==
    IF win.stream = "stdout" THEN [win EXCEPT !.stream = "stderr"]
    ELSE [win EXCEPT !.stream = "stdout",
                     !.pc = IF At("drain") THEN "notices" ELSE "observe"]

\* StreamCapture::drain_available: a peek that finds nothing, or the broken pipe.
PeekNothing ==
    /\ Draining /\ (win.stream \in win.closed \/ win.stream \notin win.waiting)
    /\ win' = [AfterDrain EXCEPT !.closed = IF Gone THEN @ \union {win.stream} ELSE @]

\* A read takes what is there; it goes on until nothing is, past the limit too.
ReadSome ==
    /\ Draining /\ win.stream \in win.waiting \ win.closed
    /\ win' = [win EXCEPT !.waiting = @ \ {win.stream},
                          !.exceeded = @ \union ({win.stream} \intersect win.beyond)]

KillFor(reason) ==
    [win EXCEPT !.killed = TRUE, !.reasons = @ \union {reason}, !.overdue = FALSE]

\* drain_job_notifications: the notice is taken, whatever is made of it.
TakeNotices ==
    /\ At("notices")
    /\ win' = [IF win.notice /\ win.reasons = {} THEN KillFor("memory") ELSE win
               EXCEPT !.notice = FALSE, !.pc = "streams"]

TestStreams ==
    /\ At("streams")
    /\ win' = [IF win.exceeded # {} /\ "stream" \notin win.reasons
               THEN KillFor("stream") ELSE win
               EXCEPT !.pc = "wait"]

WaitProcess == At("wait") /\ Goto(IF Gone THEN "join" ELSE "deadline")

\* A kill for memory does not keep the deadline from being the reason too.
TestDeadline ==
    /\ At("deadline")
    /\ win' = [IF win.late /\ win.reasons \intersect {"stream", "deadline"} = {}
               THEN KillFor("deadline") ELSE win
               EXCEPT !.pc = "grace"]

TestGrace ==
    /\ At("grace")
    /\ Goto(IF win.reasons # {} /\ win.overdue THEN "cleanup" ELSE "drain")

Watch == PeekNothing \/ ReadSome \/ TakeNotices \/ TestStreams \/ WaitProcess
             \/ TestDeadline \/ TestGrace

\* Fault: what the pipes still hold when the process has ended is not read.
NoLastDrain == "observe"

AfterJoin == "last"

\* The writer ends at the latest when the process has: input that was not
\* taken is an error, unless the host's kill is the reason.
JoinWriter ==
    /\ At("join") /\ win.writer \in {"done", "failed"}
    /\ Goto(IF win.writer = "failed" /\ win.reasons \intersect {"stream", "deadline"} = {}
            THEN "cleanup" ELSE AfterJoin)

\* The last notices, the exit code, and job_observation, which waits until the
\* job has no process.
Observe ==
    /\ At("observe") /\ Gone
    /\ win' = [win EXCEPT !.pc = "classify", !.notice = FALSE,
                          !.reasons = IF win.notice \/ win.violated
                                      THEN @ \union {"memory"} ELSE @]

\* Fault: the exit code alone says how the process ended.
ExitCodeOnly == "exited"

\* An exception's code is told from another by its highest bit; both are the
\* process's own end here.
Termination ==
    IF "deadline" \in win.reasons THEN "deadlineKilled"
    ELSE IF "memory" \in win.reasons THEN "memoryLimitKilled" ELSE "exited"

Classify == At("classify") /\ win' = Return(Termination)

-------------------------------------------------------------------------------
(* Failures, and the guards that clean up *)

OnError(place) ==
    CASE place = "assign" -> "endUnassigned"
      [] place \in {"resume", "spawnWriter"} -> "endJob"
      [] OTHER -> "cleanup"

\* A call of the operating system fails.
Fail ==
    /\ win.failures < MaxFailures
    /\ \/ /\ win.pc \in {"loopback", "create", "endUnassigned", "endJob"}
          /\ win' = [Return("error") EXCEPT !.failures = @ + 1]
       \/ /\ win.pc \in {"assign", "resume", "spawnWriter", "drain", "notices", "streams",
                         "wait", "deadline", "last", "observe"}
          /\ At("streams") => win.exceeded # {} /\ "stream" \notin win.reasons
          /\ At("deadline") =>
                 win.late /\ win.reasons \intersect {"stream", "deadline"} = {}
          /\ win' = [win EXCEPT !.pc = OnError(win.pc), !.failures = @ + 1]
       \/ /\ At("cleanup")       \* TerminateJobObject and TerminateProcess both
          /\ win' = [win EXCEPT !.pc = "cleanupReap", !.overdue = FALSE, !.failures = @ + 1]

\* AssignedProcessCleanup::drop: TerminateJobObject, or else TerminateProcess,
\* and a bounded wait.  What comes of them is ignored.
CleanUp ==
    /\ At("cleanup")
    /\ win' = [win EXCEPT !.pc = "cleanupReap", !.killed = TRUE, !.overdue = FALSE]

CleanUpReap == At("cleanupReap") /\ (Gone \/ win.overdue) /\ Goto("joinLast")

\* StdinWriter::drop comes after it, and waits without a bound for a writer whose
\* process may still run; the job's handle closes last.
JoinLast ==
    /\ At("joinLast") /\ win.writer \in {"done", "failed"}
    /\ win' = Return("error")

Host == Setup \/ Watch \/ JoinWriter \/ Observe \/ Classify \/ CleanUp \/ CleanUpReap
            \/ JoinLast

-------------------------------------------------------------------------------
(* The process, the writer, the kernel and the clock *)

Running == win.process = "running"

EndProcess(how) == win' = [win EXCEPT !.process = "gone", !.ended = how]

PluginWrites ==
    /\ Running
    /\ \E s \in Streams, full \in BOOLEAN :
          win' = [win EXCEPT !.waiting = @ \union {s},
                             !.beyond = IF full THEN @ \union {s} ELSE @]

\* An allocation beyond the limit is refused and reported.
KernelReports ==
    Running /\ ~win.violated /\ win' = [win EXCEPT !.notice = TRUE, !.violated = TRUE]

ProcessEnds == Running /\ EndProcess("itself")

Plugin == PluginWrites \/ KernelReports \/ ProcessEnds

\* The plugin takes the input; a write to an ended process fails.
WriterDone == win.writer = "writing" /\ Running /\ win' = [win EXCEPT !.writer = "done"]

WriterFails == win.writer = "writing" /\ Gone /\ win' = [win EXCEPT !.writer = "failed"]

\* A termination completes; a job whose last handle closes is terminated.
KernelKills ==
    /\ win.process \in Alive
    /\ win.killed \/ (win.assigned /\ ~win.jobOpen)
    /\ EndProcess("killed")

Kernel == KernelKills \/ WriterFails

DeadlinePasses ==
    /\ ~win.late /\ win.process # "none" /\ win' = [win EXCEPT !.late = TRUE]

TimeoutPasses ==
    /\ ~win.overdue
    /\ win.reasons # {} \/ win.pc \in {"reap", "cleanupReap"}
    /\ win' = [win EXCEPT !.overdue = TRUE]

-------------------------------------------------------------------------------
(* The inductive invariant *)

\* The process is in the job before it runs, and the job is open as long as execute is.
ProcessInv ==
    /\ win.pc \in {"loopback", "create"} => win.process = "none"
    /\ win.process = "none" =>
           win.pc \in {"loopback", "create", "done"} /\ ~win.assigned /\ ~win.killed
    /\ win.pc \in {"assign", "endUnassigned"} => ~win.assigned /\ ~win.killed
    /\ win.process = "running" => win.assigned
    /\ win.pc \in {"assign", "endUnassigned", "resume"} => win.process = "suspended"
    /\ win.pc = "resume" => win.assigned /\ ~win.killed
    /\ win.pc \in {"join", "last", "classify"} => Gone
    /\ win.jobOpen <=> win.pc \notin {"loopback", "create", "done"}
    /\ win.ended = "not" <=> win.process # "gone"

\* A process that is killed was killed by the host, or by the job that closed.
KillInv ==
    /\ win.ended = "killed" => win.killed \/ win.pc = "done"
    /\ win.killed => win.reasons # {} \/ win.pc \in {"reap", "cleanupReap", "joinLast", "done"}
    /\ win.pc = "reap" => win.killed
    /\ "deadline" \in win.reasons => win.late
    /\ win.notice \/ "memory" \in win.reasons => win.violated
    /\ "stream" \in win.reasons => win.exceeded # {}

\* What is past a limit is known or still in its pipe, and the pipes are read to their
\* ends behind the process.
DrainInv ==
    /\ win.beyond \subseteq win.waiting \union win.exceeded
    /\ win.closed # {} => Gone
    /\ win.closed \intersect win.waiting = {}
    /\ win.pc \in {"notices", "streams", "wait", "deadline", "grace", "join"} =>
           win.stream = "stdout"
    /\ win.pc = "last" /\ win.stream = "stderr" => "stdout" \notin win.waiting
    /\ win.pc \in {"observe", "classify"} => Gone /\ win.waiting = {}

ResultInv ==
    /\ win.result # "none" <=> win.pc = "done"
    /\ win.result \notin {"none", "error"} => Gone /\ win.waiting = {}

AttemptIInv == win \in Attempts /\ ProcessInv /\ KillInv /\ DrainInv /\ ResultInv
===============================================================================
