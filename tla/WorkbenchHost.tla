----------------------------- MODULE WorkbenchHost -----------------------------
(***************************************************************************)
(* run_scenario and run_fixture_with_activation of the workbench: the main *)
(* thread spawns the plugin, waits for a worker thread that speaks the     *)
(* protocol, and stops and reaps the process whatever happens.             *)
(***************************************************************************)
EXTENDS TsppPipes

CONSTANTS Scenarios,     \* a subset of AllScenarios
          MaxFrames      \* MAX_FRAMES, 32 in the code

AllScenarios == {"lifecycle", "beforeInitialize", "malformedBase64", "fixture"}

ASSUME HostAssumption == Scenarios \subseteq AllScenarios /\ MaxFrames \in Nat \ {0}

VARIABLES scenario,      \* which exchange the worker speaks
          main,          \* where the main thread is
          worker,        \* where the worker thread is
          step,          \* next step of its script
          frames,        \* frames read_response has read for this step
          exchanged,     \* the worker's Result: "ok" or "error"
          slot,          \* the sync_channel(1): a result, or "empty"
          result         \* what the caller gets: "ok", or the rule that failed

hostVars == <<scenario, main, worker, step, frames, exchanged, slot, result>>

HostTypeOK ==
    /\ scenario \in AllScenarios
    /\ main \in {"spawning", "receiving", "stopping", "joining", "exiting",
                 "finishing", "returned", "gone", "outside"}
    /\ worker \in {"absent", "exchanging", "shutting", "closing",
                   "sending", "done", "gone"}
    /\ step \in 1 .. 5 /\ frames \in 0 .. MaxFrames - 1
    /\ exchanged \in {"ok", "error"} /\ slot \in {"empty", "ok", "error"}
    /\ result \in {"none", "ok", "spawn", "timeout", "exchange", "shutdown", "exit"}

HostInit ==
    /\ scenario \in Scenarios
    /\ main = "spawning" /\ worker = "absent"
    /\ step = 1 /\ frames = 0
    /\ exchanged = "ok" /\ slot = "empty" /\ result = "none"

\* The host is another program: nothing of this module runs.
OutsideInit ==
    /\ scenario = "lifecycle"
    /\ main = "outside" /\ worker = "absent"
    /\ step = 1 /\ frames = 0
    /\ exchanged = "ok" /\ slot = "empty" /\ result = "none"

-------------------------------------------------------------------------------
(* The worker: exchange and exchange_fixture *)

\* A script step writes a request or waits for the reply with an id.  An error
\* leaves exchange at once ("leave") where the code uses ? outside the value
\* it keeps in result, and otherwise still sends shutdown ("close").
Send(request, onError) ==
    [op |-> "send", request |-> request, id |-> 0, good |-> {}, onError |-> onError]
Expect(id, good, onError) ==
    [op |-> "expect", request |-> Shutdown, id |-> id, good |-> good, onError |-> onError]

\* initialize, then optimize once.
Handshaken(onError, payload, onSendError, good) ==
    <<Send(Initialize, onError), Expect(1, {"identity"}, onError),
      Send(Optimize(payload), onSendError), Expect(2, good, "close")>>

Optimized == {"pass", "optimize"}

Script ==
    [lifecycle |-> Handshaken("leave", "text", "close", Optimized),
     beforeInitialize |->
         <<Send(Optimize("empty"), "leave"), Expect(2, {"-32002"}, "close")>>,
     malformedBase64 |-> Handshaken("leave", "malformed", "leave", {"-32602"}),
     fixture |-> Handshaken("close", "text", "close", Optimized)]

Current == Script[scenario][step]
AtStep(op) ==
    /\ worker = "exchanging"
    /\ step <= Len(Script[scenario])
    /\ Current.op = op

StepDone ==
    /\ step' = step + 1
    /\ frames' = 0
    /\ worker' = IF step = Len(Script[scenario]) THEN "shutting" ELSE worker
    /\ UNCHANGED exchanged

StepFails ==
    /\ exchanged' = "error"
    /\ worker' = IF Current.onError = "leave" THEN "closing" ELSE "shutting"
    /\ UNCHANGED <<step, frames>>

\* write_frame blocks while the pipe is full and fails with no reader left.
WorkerSend ==
    /\ AtStep("send")
    /\ \/ /\ PluginSideOpen /\ Len(toPlugin) < Room
          /\ toPlugin' = Append(toPlugin, Current.request)
          /\ StepDone
       \/ /\ ~PluginSideOpen
          /\ StepFails
          /\ UNCHANGED toPlugin
    /\ UNCHANGED <<toHost, stdinOpen, stdoutOpen, child, exit, heir,
                   scenario, main, slot, result>>

\* Fault: the loop reads one frame more than MAX_FRAMES.
OneMoreFrame == frames = MaxFrames

FrameBudgetSpent == frames + 1 = MaxFrames

\* read_response: frames for other ids are skipped, up to MAX_FRAMES.
WorkerReceive ==
    /\ AtStep("expect")
    /\ toHost # <<>>
    /\ toHost' = Tail(toHost)
    /\ LET f == Head(toHost)
           readable == f.body # "junk"
           matches == f.id = Current.id
       IN
       \/ ~readable /\ StepFails
       \/ readable /\ matches /\ f.body \in Current.good /\ StepDone
       \/ readable /\ matches /\ f.body \notin Current.good /\ StepFails
       \/ readable /\ ~matches /\ FrameBudgetSpent /\ StepFails
       \/ /\ readable /\ ~matches /\ ~FrameBudgetSpent
          /\ frames' = frames + 1
          /\ UNCHANGED <<step, worker, exchanged>>
    /\ UNCHANGED <<toPlugin, stdinOpen, stdoutOpen, child, exit, heir,
                   scenario, main, slot, result>>

\* read_frame at the end of stdout: every write end is closed.
WorkerEof ==
    /\ AtStep("expect")
    /\ toHost = <<>> /\ ~PluginSideOpen
    /\ StepFails
    /\ UNCHANGED <<pipeVars, scenario, main, slot, result>>

\* The shutdown notification; its write error is ignored.
WorkerShutdown ==
    /\ worker = "shutting"
    /\ \/ /\ PluginSideOpen /\ Len(toPlugin) < Room
          /\ toPlugin' = Append(toPlugin, Shutdown)
       \/ ~PluginSideOpen /\ UNCHANGED toPlugin
    /\ worker' = "closing"
    /\ UNCHANGED <<toHost, stdinOpen, stdoutOpen, child, exit, heir,
                   scenario, main, step, frames, exchanged, slot, result>>

\* exchange has returned: its ends of the two pipes are dropped.
WorkerClose ==
    /\ worker = "closing"
    /\ worker' = "sending"
    /\ stdinOpen' = FALSE /\ stdoutOpen' = FALSE
    /\ UNCHANGED <<toPlugin, toHost, child, exit, heir,
                   scenario, main, step, frames, exchanged, slot, result>>

\* Fault: a rendezvous channel, whose send waits for the receiver.
Rendezvous == main = "receiving"

ChannelHasRoom == slot = "empty"

\* sender.send(result): with one slot it does not wait for the receiver.
WorkerDone ==
    /\ worker = "sending"
    /\ ChannelHasRoom
    /\ slot' = exchanged
    /\ worker' = "done"
    /\ UNCHANGED <<pipeVars, scenario, main, step, frames, exchanged, result>>

WorkerNext ==
    WorkerSend \/ WorkerReceive \/ WorkerEof \/ WorkerShutdown
    \/ WorkerClose \/ WorkerDone

-------------------------------------------------------------------------------
(* The main thread *)

MainSpawn ==
    /\ main = "spawning"
    /\ \/ /\ child' = "running" /\ stdinOpen' = TRUE /\ stdoutOpen' = TRUE
          /\ worker' = "exchanging" /\ main' = "receiving"
          /\ UNCHANGED result
       \/ /\ main' = "returned" /\ result' = "spawn"
          /\ UNCHANGED <<child, stdinOpen, stdoutOpen, worker>>
    /\ UNCHANGED <<toPlugin, toHost, exit, heir, scenario, step, frames, exchanged, slot>>

\* recv_timeout returns the worker's result.
MainReceive ==
    /\ main = "receiving"
    /\ slot # "empty"
    /\ \/ slot = "ok" /\ main' = "exiting" /\ UNCHANGED result
       \/ slot = "error" /\ main' = "stopping" /\ result' = "exchange"
    /\ UNCHANGED <<pipeVars, scenario, worker, step, frames, exchanged, slot>>

\* budget_ms + SPAWN_GRACE_MS have passed without one.
MainTimeout ==
    /\ main = "receiving"
    /\ slot = "empty"
    /\ main' = "stopping" /\ result' = "timeout"
    /\ UNCHANGED <<pipeVars, scenario, worker, step, frames, exchanged, slot>>

\* Fault: the process is left alone.
LeaveChild == UNCHANGED <<child, exit>>

\* stop_child: kill, then wait.  A process that already ended is only reaped.
StopChild ==
    /\ child' = "reaped"
    /\ exit' = IF child = "running" THEN "failure" ELSE exit

MainStop ==
    /\ main = "stopping"
    /\ StopChild
    /\ main' = "joining"
    /\ UNCHANGED <<toPlugin, toHost, stdinOpen, stdoutOpen, heir, scenario, worker,
                   step, frames, exchanged, slot, result>>

MainJoin ==
    /\ main = "joining"
    /\ worker = "done"
    /\ main' = "returned"
    /\ UNCHANGED <<pipeVars, scenario, worker, step, frames, exchanged, slot, result>>

\* wait_for_exit: try_wait finds the status.
MainExited ==
    /\ main = "exiting"
    /\ child = "exited"
    /\ child' = "reaped"
    /\ main' = "finishing"
    /\ UNCHANGED <<toPlugin, toHost, stdinOpen, stdoutOpen, exit, heir, scenario,
                   worker, step, frames, exchanged, slot, result>>

\* EXIT_GRACE_MS passed, or try_wait failed: the child is stopped and the ?
\* returns at once.
MainGraceOver ==
    /\ main = "exiting"
    /\ child # "exited"
    /\ StopChild
    /\ main' = "returned" /\ result' = "shutdown"
    /\ UNCHANGED <<toPlugin, toHost, stdinOpen, stdoutOpen, heir, scenario, worker,
                   step, frames, exchanged, slot>>

\* Fault: the exit status is not looked at.
AnyStatus == TRUE

ExitedWell == exit = "success"

MainFinish ==
    /\ main = "finishing"
    /\ worker = "done"
    /\ main' = "returned"
    /\ result' = IF ExitedWell THEN "ok" ELSE "exit"
    /\ UNCHANGED <<pipeVars, scenario, worker, step, frames, exchanged, slot>>

MainNext == MainSpawn \/ MainReceive \/ MainTimeout \/ MainStop \/ MainJoin
            \/ MainExited \/ MainGraceOver \/ MainFinish
===============================================================================
