----------------------------- MODULE PluginServer -----------------------------
(***************************************************************************)
(* serve, the protocol loop of the Rust, Go, Python and TypeScript SDKs,   *)
(* the loop of the Rust SDK's TSPP v2 context service, and with them the   *)
(* plugin main function run: one frame is read, answered and flushed       *)
(* before the next.  The four v1 loops answer every frame here alike; they *)
(* part where a loop ends.                                                 *)
(***************************************************************************)
EXTENDS TsppPipes

CONSTANTS Outcomes,      \* what the optimizer may do with a decoded request
          Programs       \* what the plugin may be

Optimizers == {"rust", "go", "python", "typescript"}
Loops == Optimizers \union {"context"}

\* "any" is a program of its own, which need not keep the protocol.
ASSUME ServerAssumption ==
    /\ Outcomes \subseteq {"pass", "optimize", "verbose", "unsafe", "panic"}
    /\ Programs \subseteq Loops \union {"any"}

VARIABLES plugin,        \* the program in the package, one of Programs
          initialized,   \* an initialize request has been accepted
          serving,       \* where the loop is
          reply          \* the frame being written

serverVars == <<plugin, initialized, serving, reply>>

NoReply == [id |-> 0, body |-> "junk"]

ServerTypeOK ==
    /\ plugin \in Programs /\ initialized \in BOOLEAN
    /\ serving \in {"reading", "optimizing", "replying", "ended"}
    /\ reply \in Replies

ServerInit ==
    /\ plugin \in Programs
    /\ initialized = FALSE /\ serving = "reading" /\ reply = NoReply

Answer(f, body) ==
    /\ reply' = [id |-> f.id, body |-> body]
    /\ serving' = "replying"
    /\ UNCHANGED <<initialized, child, exit>>

\* The optimizer, or the service, is called.
Call(f) ==
    /\ reply' = [NoReply EXCEPT !.id = f.id]
    /\ serving' = "optimizing"
    /\ UNCHANGED <<initialized, child, exit>>

Accept(f) ==
    /\ initialized' = TRUE
    /\ reply' = [id |-> f.id, body |-> "identity"] /\ serving' = "replying"
    /\ UNCHANGED <<child, exit>>

Exits(statuses) ==
    /\ \E status \in statuses : ChildExits(status)
    /\ UNCHANGED <<initialized, serving, reply>>

\* run only logs what serve returns: main ends well.
Finishes == Exits({"success"})

\* The iterator over stdin is not returned, so that the process may stay until the
\* stream has ended.
TypeScriptFinishes ==
    \/ Finishes
    \/ serving' = "ended" /\ UNCHANGED <<initialized, reply, child, exit>>

\* Fault: optimize is served before initialize.
AlwaysReady == TRUE

Ready == initialized

ServeInitialize(f) ==
    /\ f.method = "initialize"
    /\ \/ f.payload = "v1" /\ Accept(f)
       \/ f.payload # "v1" /\ Answer(f, "-32602")

ServeOptimize(f) ==
    /\ f.method = "optimize"
    /\ \/ ~Ready /\ Answer(f, "-32002")
       \/ Ready /\ f.payload # "text" /\ Answer(f, "-32602")
       \/ Ready /\ f.payload = "text" /\ Call(f)

\* What the four v1 loops answer alike.
ServeV1(f) ==
    \/ ServeInitialize(f) \/ ServeOptimize(f)
    \/ f.method \in {"notRpc", "context", "unknown"} /\ Answer(f, "error")

\* A v1 loop ends at shutdown, and with an error at bytes it cannot read.
EndsLoop(f) == f.method \in {"shutdown", "unreadable"}

ServeRust(f) == plugin = "rust" /\ (ServeV1(f) \/ (EndsLoop(f) /\ Finishes))
ServeGo(f) == plugin = "go" /\ (ServeV1(f) \/ (EndsLoop(f) /\ Finishes))
ServePython(f) == plugin = "python" /\ (ServeV1(f) \/ (EndsLoop(f) /\ Finishes))
ServeTypeScript(f) ==
    plugin = "typescript" /\ (ServeV1(f) \/ (EndsLoop(f) /\ TypeScriptFinishes))

\* context::serve: a frame without an id is passed over, and a second initialize is
\* refused.  main is the service's own, and what it makes of an error too.
ServeContext(f) ==
    /\ plugin = "context"
    /\ \/ f.method \in {"unreadable", "notRpc"} /\ Exits({"success", "failure"})
       \/ f.method = "shutdown" /\ Finishes
       \/ f.method = "optimize" /\ f.id = 0
          /\ UNCHANGED <<initialized, serving, reply, child, exit>>
       \/ /\ f.id # 0 /\ f.method = "initialize"
          /\ IF f.payload = "context" /\ ~initialized
             THEN Accept(f) ELSE Answer(f, "-32602")
       \/ /\ f.id # 0 /\ f.method \in {"optimize", "unknown", "context"}
          /\ \/ ~initialized /\ Answer(f, "-32002")
             \/ initialized /\ f.method # "context" /\ Answer(f, "error")
             \/ initialized /\ f.method = "context" /\ Call(f)

\* serve reads one frame and dispatches on its method.
ServeFrame ==
    /\ child = "running" /\ serving = "reading"
    /\ toPlugin # <<>>
    /\ toPlugin' = Tail(toPlugin)
    /\ LET f == Head(toPlugin)
       IN  \/ ServeRust(f) \/ ServeGo(f) \/ ServePython(f) \/ ServeTypeScript(f)
           \/ ServeContext(f)
    /\ UNCHANGED <<toHost, stdinOpen, stdoutOpen, heir, plugin>>

\* Fault: the end of stdin is taken for a read to be tried again.
NeverAtEnd == FALSE

\* The first header line reads nothing.
AtEnd == toPlugin = <<>> /\ ~stdinOpen

\* read_frame returns nothing: serve returns well.  A TypeScript process whose loop
\* has ended reads what is left by itself.
ServeEnd ==
    /\ child = "running"
    /\ (serving = "reading" /\ AtEnd) \/ (serving = "ended" /\ ~stdinOpen)
    /\ ChildExits("success")
    /\ UNCHANGED <<toPlugin, toHost, stdinOpen, stdoutOpen, heir, serverVars>>

\* The optimizer returns, or fails in a way the loop catches; unsafe content is
\* what the boundary test refuses, while the size of safe content is left to the
\* host.  A context service answers, or returns one of its three errors.
Answers ==
    IF plugin = "context" THEN {"answer", "-32602", "error"}
    ELSE {IF o \in {"unsafe", "panic"} THEN "error" ELSE o : o \in Outcomes}

RunOptimizer ==
    /\ child = "running" /\ serving = "optimizing"
    /\ \E body \in Answers : Answer(reply, body)
    /\ UNCHANGED <<toPlugin, toHost, stdinOpen, stdoutOpen, heir, plugin>>

\* A write to a closed stdout ends the loop.  Outside Windows the Go runtime kills
\* the process; the Python interpreter flushes once more when it exits, and tells
\* if it cannot.
RustWriteFails == plugin = "rust" /\ Finishes
GoWriteFails == plugin = "go" /\ Exits({"success", "failure"})
PythonWriteFails == plugin = "python" /\ Exits({"success", "failure"})
TypeScriptWriteFails == plugin = "typescript" /\ TypeScriptFinishes
ContextWriteFails == plugin = "context" /\ Exits({"success", "failure"})

\* write_frame blocks on a full pipe and fails once the host has closed it.
WriteReply ==
    /\ child = "running" /\ serving = "replying"
    /\ \/ /\ stdoutOpen /\ Len(toHost) < Room
          /\ toHost' = Append(toHost, reply)
          /\ serving' = "reading" /\ reply' = NoReply
          /\ UNCHANGED <<child, exit, initialized>>
       \/ /\ ~stdoutOpen
          /\ \/ RustWriteFails \/ GoWriteFails \/ PythonWriteFails
             \/ TypeScriptWriteFails \/ ContextWriteFails
          /\ UNCHANGED toHost
    /\ UNCHANGED <<toPlugin, stdinOpen, stdoutOpen, heir, plugin>>

ServerNext == ServeFrame \/ ServeEnd \/ RunOptimizer \/ WriteReply
===============================================================================
