------------------------------ MODULE TsppSession ------------------------------
(***************************************************************************)
(* A host in session with a plugin.  The plugin is built with the loop of  *)
(* an SDK, or is any program at all, which may write replies nobody asked  *)
(* for, stop reading, exit, and start processes that inherit its pipes.    *)
(* The host is the workbench or, for a plugin on an SDK loop, any other    *)
(* one, which writes frames in any order and closes pipes as it likes.     *)
(***************************************************************************)
EXTENDS PluginServer, WorkbenchHost

CONSTANTS Hosts,         \* a subset of {"workbench", "other"}
          HostMayDie     \* the host's process may be killed

ASSUME SessionAssumption ==
    Hosts \subseteq {"workbench", "other"} /\ HostMayDie \in BOOLEAN

sessionVars == <<pipeVars, serverVars, hostVars>>

TypeOK == PipesTypeOK /\ ServerTypeOK /\ HostTypeOK

\* Another host has no threads of the workbench.
Init ==
    /\ PipesInit /\ ServerInit
    /\ \/ "workbench" \in Hosts /\ HostInit
       \/ "other" \in Hosts /\ plugin # "any" /\ OutsideInit

-------------------------------------------------------------------------------
(* Another host *)

OtherStarts ==
    /\ child = "absent"
    /\ child' = "running" /\ stdinOpen' = TRUE /\ stdoutOpen' = TRUE
    /\ UNCHANGED <<toPlugin, toHost, exit, heir>>

OtherWrites ==
    /\ child = "running" /\ stdinOpen /\ Len(toPlugin) < Room
    /\ \E f \in Requests : toPlugin' = Append(toPlugin, f)
    /\ UNCHANGED <<toHost, stdinOpen, stdoutOpen, child, exit, heir>>

OtherReads ==
    /\ stdoutOpen /\ toHost # <<>>
    /\ toHost' = Tail(toHost)
    /\ UNCHANGED <<toPlugin, stdinOpen, stdoutOpen, child, exit, heir>>

OtherCloses ==
    /\ \/ stdinOpen /\ stdinOpen' = FALSE /\ UNCHANGED stdoutOpen
       \/ stdoutOpen /\ stdoutOpen' = FALSE /\ UNCHANGED stdinOpen
    /\ UNCHANGED <<toPlugin, toHost, child, exit, heir>>

OtherHost ==
    /\ main = "outside"
    /\ OtherStarts \/ OtherWrites \/ OtherReads \/ OtherCloses
    /\ UNCHANGED <<serverVars, hostVars>>

-------------------------------------------------------------------------------
(* An arbitrary program, or a process it started *)

AnyRead ==
    /\ PluginSideOpen /\ toPlugin # <<>>
    /\ toPlugin' = Tail(toPlugin)
    /\ UNCHANGED <<toHost, stdinOpen, stdoutOpen, child, exit, heir>>

AnyWrite ==
    /\ PluginSideOpen /\ stdoutOpen /\ Len(toHost) < Room
    /\ \E r \in Replies : toHost' = Append(toHost, r)
    /\ UNCHANGED <<toPlugin, stdinOpen, stdoutOpen, child, exit, heir>>

AnyExit ==
    /\ \E status \in {"success", "failure"} : ChildExits(status)
    /\ UNCHANGED <<toPlugin, toHost, stdinOpen, stdoutOpen, heir>>

AnyFork ==
    /\ child = "running" /\ ~heir
    /\ heir' = TRUE
    /\ UNCHANGED <<toPlugin, toHost, stdinOpen, stdoutOpen, child, exit>>

HeirExits ==
    /\ heir
    /\ heir' = FALSE
    /\ UNCHANGED <<toPlugin, toHost, stdinOpen, stdoutOpen, child, exit>>

\* The host is killed, in the middle of a frame perhaps: the kernel closes its
\* ends of the pipes, and the plugin is left to notice.
HostDies ==
    /\ HostMayDie
    /\ main \notin {"returned", "gone"}
    /\ main' = "gone" /\ worker' = "gone"
    /\ stdinOpen' = FALSE /\ stdoutOpen' = FALSE
    /\ \/ UNCHANGED toPlugin
       \/ /\ AtStep("send") \/ worker = "shutting" \/ main = "outside"
          /\ stdinOpen /\ Len(toPlugin) < Room
          /\ toPlugin' = Append(toPlugin, Unreadable)
    /\ UNCHANGED <<toHost, child, exit, heir, serverVars,
                   scenario, step, frames, exchanged, slot, result>>

AnyProgram == AnyRead \/ AnyWrite \/ AnyExit \/ AnyFork \/ HeirExits

-------------------------------------------------------------------------------
MainStep == MainNext /\ UNCHANGED serverVars
WorkerStep == WorkerNext /\ UNCHANGED serverVars
ServerStep == plugin \in Loops /\ ServerNext /\ UNCHANGED hostVars

Next ==
    \/ MainStep \/ WorkerStep \/ ServerStep \/ OtherHost \/ HostDies
    \/ plugin = "any" /\ AnyProgram /\ UNCHANGED <<serverVars, hostVars>>
    \/ main \in {"returned", "gone"} /\ UNCHANGED sessionVars

Spec == Init /\ [][Next]_sessionVars

\* The host's threads are scheduled and its clock runs; so is a plugin on an
\* SDK loop, whose optimizer returns.  Of any other nothing is assumed.
Fairness ==
    /\ WF_sessionVars(MainStep)
    /\ WF_sessionVars(WorkerStep)
    /\ WF_sessionVars(ServerStep)

FairSpec == Spec /\ Fairness

-------------------------------------------------------------------------------
(* The inductive invariant behind the first three properties *)

Within == {"exchanging", "shutting", "closing", "sending", "done"}

\* Where one thread is when the other is somewhere, and what became of the process.
ThreadsInv ==
    /\ main \in {"spawning", "outside"} => worker = "absent"
    /\ main = "spawning" => child = "absent"
    /\ main \in {"receiving", "stopping", "joining"} => worker \in Within
    /\ main \in {"exiting", "finishing"} => worker = "done"
    /\ main \in {"joining", "finishing"} => child = "reaped"
    /\ main = "returned" /\ result # "spawn" => child = "reaped" /\ worker = "done"

\* What has been decided at each place: nothing but the worker's own success leads to
\* the exit of the plugin, and nothing but its exit to success.
DecidedInv ==
    /\ slot \in {"empty", exchanged}
    /\ slot # "empty" => worker \in {"done", "gone"}
    /\ main \in {"spawning", "receiving", "exiting", "finishing"} => result = "none"
    /\ main \in {"stopping", "joining"} => result \in {"timeout", "exchange"}
    /\ main \in {"exiting", "finishing"} => slot = "ok"
    /\ main = "returned" /\ result = "ok" => slot = "ok" /\ exit = "success"

\* An exchange that has not failed is within its script, or past its end.
ScriptInv ==
    /\ worker = "absent" => step = 1 /\ exchanged = "ok"
    /\ worker = "exchanging" => step <= Len(Script[scenario]) /\ exchanged = "ok"
    /\ worker \in Within \ {"exchanging"} /\ exchanged = "ok" => step > Len(Script[scenario])

\* A context service never sees the initialize it accepts, says nothing a workbench
\* takes for it, and keeps the exchange at its second step.
ContextInv ==
    plugin = "context" /\ main \notin {"outside", "gone"} =>
        /\ \A i \in 1 .. Len(toPlugin) : toPlugin[i].payload # "context"
        /\ \A i \in 1 .. Len(toHost) : toHost[i].body # "identity"
        /\ reply.body # "identity"
        /\ scenario # "beforeInitialize" => step <= 2

\* The reply the exchange waits for.
Good(r) == r.id = Current.id /\ r.body \in Current.good

\* Between two requests nothing is under way; after one, it is exactly one of the
\* request, the call of the optimizer, the reply being written, and the reply.
Quiet == toPlugin = <<>> /\ toHost = <<>> /\ serving = "reading"
Asked ==
    /\ toPlugin = <<Script[scenario][step - 1].request>>
    /\ toHost = <<>> /\ serving = "reading"
    /\ (step = 2 /\ ~initialized) \/ (step = 4 /\ initialized)
Answered ==
    /\ toPlugin = <<>>
    /\ scenario # "beforeInitialize" => initialized
    /\ \/ toHost = <<>> /\ serving = "optimizing"
          /\ reply.id = Current.id /\ Optimized \subseteq Current.good
       \/ toHost = <<>> /\ serving = "replying" /\ Good(reply)
       \/ serving = "reading" /\ \E r \in Replies : toHost = <<r>> /\ Good(r)

Exchanging ==
    /\ child = "running" /\ stdinOpen /\ stdoutOpen
    /\ \/ step = 1 /\ Quiet /\ ~initialized
       \/ step = 3 /\ Quiet /\ initialized
       \/ step \in {2, 4} /\ (Asked \/ Answered)

\* The exchange is over, and the plugin has shutdown before it or behind it.
Ending ==
    \/ child = "running" /\ toPlugin = <<Shutdown>> /\ toHost = <<>> /\ serving = "reading"
    \/ child = "running" /\ serving = "ended"
    \/ child = "exited" /\ exit = "success"

\* The workbench and a plugin on an SDK loop, whose optimizer keeps to the protocol,
\* are always in step, as long as no deadline has passed.
Conforming == plugin \in Optimizers /\ Outcomes \subseteq Optimized
InStep ==
    /\ main = "spawning" => Quiet /\ ~initialized
    /\ main = "receiving" /\ worker = "exchanging" => Exchanging
    /\ main = "receiving" /\ worker = "shutting" =>
           child = "running" /\ stdinOpen /\ stdoutOpen /\ Quiet
    /\ main \in {"receiving", "exiting"} =>
           /\ exchanged = "ok"
           /\ worker \in {"closing", "sending", "done"} => Ending
    /\ main = "finishing" => exit = "success"
    /\ result \notin {"exchange", "exit"}

InStepInv == Conforming => InStep

HostInv == TypeOK /\ ThreadsInv /\ DecidedInv /\ ScriptInv /\ ContextInv
SessionIInv == HostInv /\ InStepInv

-------------------------------------------------------------------------------
(* Properties *)

Returned(r) == main = "returned" /\ result = r

\* Whatever the plugin does, the host returns with the process it spawned
\* reaped and its worker thread finished, on every path that got past spawn.
NothingLeftBehind ==
    main = "returned" /\ result # "spawn" => child = "reaped" /\ worker = "done"

\* A passed check means that the plugin itself ended, with success, after the
\* whole exchange: no process that was killed or failed can pass, and no TSPP v2
\* service wherever a v1 initialize is part of the exchange.
OkMeansCleanExit ==
    Returned("ok") => /\ exit = "success" /\ exchanged = "ok"
                      /\ step > Len(Script[scenario])
                      /\ plugin = "context" => scenario = "beforeInitialize"

\* A plugin built with the loop of any of the four SDKs is never failed for what it
\* says: only a missed deadline or exit grace, or its own optimizer, can make a
\* check fail, although their processes end differently once a pipe is closed.
SdkPluginConforms ==
    Conforming => ~Returned("exchange") /\ ~Returned("exit")

\* A plugin on an SDK loop ends by itself when its host, whichever it is, has gone
\* away without a shutdown, wherever the exchange was: at the end of stdin, in the
\* middle of a frame, or at the failed write of a reply.
NoOrphanPlugin == plugin \in Loops /\ main = "gone" ~> child # "running"

\* The host's deadlines bound the whole session: every run of the workbench
\* returns, unless it is killed itself.
EveryRunReturns == <>(main \in {"returned", "gone", "outside"})

\* Without further assumptions about the plugin, every run returns unless a
\* process the plugin started holds its pipes for ever: kill and exit grace
\* reach the child alone, and the join waits for the pipes.
RunsReturnUnlessHeld == EveryRunReturns \/ []<>heir
===============================================================================
