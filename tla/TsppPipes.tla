------------------------------- MODULE TsppPipes -------------------------------
(***************************************************************************)
(* The two pipes and the process of one TSPP v1 session: what the host and *)
(* the plugin share.  A frame is one JSON-RPC message; framing bytes and   *)
(* contents are abstracted to what either side decides from them.          *)
(***************************************************************************)
EXTENDS Naturals, Sequences

CONSTANT Room            \* frames a pipe holds before its writer blocks

ASSUME RoomAssumption == Room \in Nat \ {0}

VARIABLES toPlugin,      \* the child's stdin
          toHost,        \* the child's stdout
          stdinOpen,     \* the host still holds the write end of stdin
          stdoutOpen,    \* the host still holds the read end of stdout
          child,         \* the process the host spawned
          exit,          \* its exit status, once it has one
          heir           \* a process it started still holds its pipe ends

pipeVars == <<toPlugin, toHost, stdinOpen, stdoutOpen, child, exit, heir>>

\* Requests of a v1 host.  Only optimize distinguishes payloads: valid base64 text,
\* content that is not base64, and params that do not deserialize.
Frame(method, id, payload) == [method |-> method, id |-> id, payload |-> payload]
Initialize == Frame("initialize", 1, "v1")
Optimize(payload) == Frame("optimize", 2, payload)
Shutdown == Frame("shutdown", 0, "none")

\* What another host may write as well: a major version or params the loop does
\* not know, a request without an id, a call of a TSPP v2 context service, a method
\* of no protocol, a frame without jsonrpc 2.0, and bytes that are no frame or no
\* JSON, which is also what a host that dies within a frame has written.
Unreadable == Frame("unreadable", 0, "none")
OtherFrames ==
    {Frame("initialize", 1, p) : p \in {"context", "bad"}} \union
    {Frame("optimize", 0, "text"), Frame("context", 2, "none"),
     Frame("unknown", 2, "none"), Frame("notRpc", 2, "none"), Unreadable}

Requests == {Initialize, Shutdown} \union OtherFrames \union
            {Optimize(p) : p \in {"text", "malformed", "empty"}}

\* Replies.  junk stands for any frame the host cannot read as JSON-RPC 2.0, error
\* for a code no scenario waits for.  verbose is safe content that is not small
\* enough for the host, answer the value a context service returns.
Bodies == {"identity", "pass", "optimize", "verbose", "answer", "-32002", "-32602",
           "error", "junk"}
Replies == [id : {0, 1, 2}, body : Bodies]

PipesTypeOK ==
    /\ toPlugin \in Seq(Requests) /\ Len(toPlugin) <= Room
    /\ toHost \in Seq(Replies) /\ Len(toHost) <= Room
    /\ stdinOpen \in BOOLEAN /\ stdoutOpen \in BOOLEAN /\ heir \in BOOLEAN
    /\ child \in {"absent", "running", "exited", "reaped"}
    /\ exit \in {"none", "success", "failure"}

PipesInit ==
    /\ toPlugin = <<>> /\ toHost = <<>>
    /\ stdinOpen = FALSE /\ stdoutOpen = FALSE /\ heir = FALSE
    /\ child = "absent" /\ exit = "none"

\* Some process can still read stdin and write stdout.
PluginSideOpen == child = "running" \/ heir

\* The child ends by itself; the kernel keeps its status until it is waited for.
ChildExits(status) ==
    /\ child = "running"
    /\ child' = "exited"
    /\ exit' = status
===============================================================================
