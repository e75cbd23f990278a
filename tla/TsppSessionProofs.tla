--------------------------- MODULE TsppSessionProofs ---------------------------
(***************************************************************************)
(* Proofs about TsppSession for pipes of any size, any number of frames,   *)
(* any scenarios, any host and any program.                                *)
(***************************************************************************)
EXTENDS TsppSession, TLAPS

\* A pipe from which the first frame is taken.
LEMMA Shorter ==
    ASSUME NEW S, NEW s \in Seq(S), s # <<>>, Len(s) <= Room
    PROVE  /\ Tail(s) \in Seq(S) /\ Len(Tail(s)) <= Room
           /\ Head(s) \in S /\ \E j \in 1 .. Len(s) : Head(s) = s[j]
           /\ \A i \in 1 .. Len(Tail(s)) : \E j \in 1 .. Len(s) : Tail(s)[i] = s[j]
<1>1. /\ Tail(s) \in Seq(S) /\ Len(Tail(s)) = Len(s) - 1 /\ Len(s) \in Nat \ {0}
      /\ Head(s) \in S /\ Head(s) = s[1]
      /\ \A i \in 1 .. Len(Tail(s)) : i + 1 \in 1 .. Len(s) /\ Tail(s)[i] = s[i + 1]
  OBVIOUS
<1> QED BY <1>1, RoomAssumption

\* A pipe to which a frame is added.
LEMMA Longer ==
    ASSUME NEW S, NEW s \in Seq(S), NEW x \in S, Len(s) < Room
    PROVE  /\ Append(s, x) \in Seq(S) /\ Len(Append(s, x)) <= Room
           /\ \A i \in 1 .. Len(Append(s, x)) :
                 \/ \E j \in 1 .. Len(s) : Append(s, x)[i] = s[j]
                 \/ Append(s, x)[i] = x
<1>1. /\ Append(s, x) \in Seq(S) /\ Len(Append(s, x)) = Len(s) + 1 /\ Len(s) \in Nat
      /\ \A i \in 1 .. Len(Append(s, x)) :
            \/ i \in 1 .. Len(s) /\ Append(s, x)[i] = s[i]
            \/ Append(s, x)[i] = x
  OBVIOUS
<1> QED BY <1>1, RoomAssumption

\* What writing to the plugin, or failing to, leaves in its pipe.
LEMMA Written ==
    ASSUME NEW s \in Seq(Requests), NEW x \in Requests, NEW t, Len(s) <= Room,
           t = s \/ (Len(s) < Room /\ t = Append(s, x))
    PROVE  /\ t \in Seq(Requests) /\ Len(t) <= Room
           /\ \A i \in 1 .. Len(t) : t[i] = x \/ \E j \in 1 .. Len(s) : t[i] = s[j]
<1>1. CASE t = s
  BY <1>1
<1>2. CASE Len(s) < Room /\ t = Append(s, x)
  BY <1>2, Longer
<1> QED BY <1>1, <1>2

\* What the invariant needs to know of the four scripts.
LEMMA ScriptFacts ==
    ASSUME NEW s \in AllScenarios
    PROVE  /\ Len(Script[s]) \in 2 .. 4
           /\ \A i \in 1 .. Len(Script[s]) :
                 /\ Script[s][i].request \in Requests
                 /\ Script[s][i].request.payload # "context"
           /\ s # "beforeInitialize" =>
                 /\ Len(Script[s]) = 4
                 /\ Script[s][1].op = "send"
                 /\ Script[s][2].op = "expect" /\ Script[s][2].good = {"identity"}
<1>1. ASSUME NEW onError, NEW payload \in {"text", "malformed"}, NEW onSendError, NEW good,
             Script[s] = Handshaken(onError, payload, onSendError, good)
      PROVE  /\ Len(Script[s]) = 4
             /\ \A i \in 1 .. 4 : /\ Script[s][i].request \in Requests
                                  /\ Script[s][i].request.payload # "context"
             /\ Script[s][1].op = "send"
             /\ Script[s][2].op = "expect" /\ Script[s][2].good = {"identity"}
  BY <1>1 DEF Handshaken, Requests, Initialize, Optimize, Shutdown, Frame, Send, Expect
<1>2. CASE s = "beforeInitialize"
  <2>1. Script[s] = <<Send(Optimize("empty"), "leave"), Expect(2, {"-32002"}, "close")>>
    BY <1>2 DEF Script
  <2> QED BY <1>2, <2>1 DEF Requests, Initialize, Optimize, Shutdown, Frame, Send, Expect
<1>3. CASE s = "lifecycle"
  <2>1. Script[s] = Handshaken("leave", "text", "close", Optimized)
    BY <1>3 DEF Script
  <2> QED BY <1>1, <1>3, <2>1
<1>4. CASE s = "malformedBase64"
  <2>1. Script[s] = Handshaken("leave", "malformed", "leave", {"-32602"})
    BY <1>4 DEF Script
  <2> QED BY <1>1, <1>4, <2>1
<1>5. CASE s = "fixture"
  <2>1. Script[s] = Handshaken("close", "text", "close", Optimized)
    BY <1>5 DEF Script
  <2> QED BY <1>1, <1>5, <2>1
<1> QED BY <1>2, <1>3, <1>4, <1>5 DEF AllScenarios

\* Before anything is spawned the pipes are empty and nothing has been decided.
LEMMA InitEstablishes == Init => HostInv
<1> SUFFICES ASSUME Init PROVE HostInv
  OBVIOUS
<1>1. /\ PipesInit /\ ServerInit
      /\ HostInit \/ OutsideInit
  BY DEF Init
<1>2. scenario \in AllScenarios
  BY <1>1, HostAssumption DEF HostInit, OutsideInit, AllScenarios
<1>3. step = 1 /\ frames = 0 /\ Len(Script[scenario]) \in 2 .. 4
  BY <1>1, <1>2, ScriptFacts DEF HostInit, OutsideInit
<1>4. PipesTypeOK
  <2>1. <<>> \in Seq(Requests) /\ <<>> \in Seq(Replies) /\ Len(<<>>) = 0
    OBVIOUS
  <2>2. 0 <= Room
    BY RoomAssumption
  <2> QED BY <1>1, <2>1, <2>2 DEF PipesInit, PipesTypeOK
<1>5. ServerTypeOK
  BY <1>1 DEF ServerInit, ServerTypeOK, NoReply, Replies, Bodies
<1>6. HostTypeOK
  BY <1>1, <1>2, <1>3, HostAssumption DEF HostInit, OutsideInit, HostTypeOK
<1>7. ThreadsInv /\ DecidedInv
  BY <1>1 DEF PipesInit, HostInit, OutsideInit, ThreadsInv, DecidedInv, Within
<1>8. ScriptInv
  BY <1>1, <1>3 DEF HostInit, OutsideInit, ScriptInv, Within
<1>9. ContextInv
  BY <1>1, <1>3 DEF PipesInit, ServerInit, ContextInv, NoReply
<1> QED BY <1>4, <1>5, <1>6, <1>7, <1>8, <1>9 DEF HostInv, TypeOK

-------------------------------------------------------------------------------
(* The main thread *)

\* No step of the main thread of run_scenario breaks what the host relies on.
LEMMA MainKeeps ==
    ASSUME HostInv, MainNext, UNCHANGED serverVars
    PROVE  HostInv'
<1>0. Len(Script[scenario]) \in 2 .. 4
  BY ScriptFacts DEF HostInv, TypeOK, HostTypeOK
<1>1. /\ UNCHANGED <<toPlugin, toHost, heir, scenario, step, frames, exchanged, slot>>
      /\ main' \notin {"outside", "gone"} /\ main \notin {"outside", "gone"}
      /\ \/ worker' = worker
         \/ main = "spawning" /\ worker' = "exchanging"
  BY DEF MainNext, MainSpawn, MainReceive, MainTimeout, MainStop, MainJoin, MainExited,
         MainGraceOver, MainFinish, pipeVars
<1>2. UNCHANGED <<plugin, initialized, serving, reply>>
  BY DEF serverVars
<1>3. ServerTypeOK'
  BY <1>2 DEF HostInv, TypeOK, ServerTypeOK
<1>4. /\ stdinOpen' \in BOOLEAN /\ stdoutOpen' \in BOOLEAN
      /\ child' \in {"absent", "running", "exited", "reaped"}
      /\ exit' \in {"none", "success", "failure"}
      /\ main' \in {"spawning", "receiving", "stopping", "joining", "exiting",
                    "finishing", "returned", "gone", "outside"}
      /\ result' \in {"none", "ok", "spawn", "timeout", "exchange", "shutdown", "exit"}
  BY DEF HostInv, TypeOK, PipesTypeOK, HostTypeOK, pipeVars, MainNext, MainSpawn,
         MainReceive, MainTimeout, MainStop, MainJoin, MainExited, MainGraceOver, MainFinish,
         StopChild
<1>5. PipesTypeOK'
  BY <1>1, <1>4 DEF HostInv, TypeOK, PipesTypeOK
<1>6. HostTypeOK'
  BY <1>1, <1>4 DEF HostInv, TypeOK, HostTypeOK
<1>7. ThreadsInv' /\ DecidedInv'
  <2> USE DEF HostInv, TypeOK, PipesTypeOK, HostTypeOK, ThreadsInv, DecidedInv, Within,
              pipeVars
  <2>1. CASE MainSpawn
    BY <2>1 DEF MainSpawn
  <2>2. CASE MainReceive
    BY <2>2 DEF MainReceive
  <2>3. CASE MainTimeout
    BY <2>3 DEF MainTimeout
  <2>4. CASE MainStop
    BY <2>4 DEF MainStop, StopChild
  <2>5. CASE MainJoin
    BY <2>5 DEF MainJoin
  <2>6. CASE MainExited
    BY <2>6 DEF MainExited
  <2>7. CASE MainGraceOver
    BY <2>7 DEF MainGraceOver, StopChild
  <2>8. CASE MainFinish
    BY <2>8 DEF MainFinish, ExitedWell
  <2> QED BY <2>1, <2>2, <2>3, <2>4, <2>5, <2>6, <2>7, <2>8 DEF MainNext
<1>8. ScriptInv'
  BY <1>0, <1>1 DEF HostInv, ThreadsInv, ScriptInv, Within
<1>9. ContextInv'
  BY <1>1, <1>2 DEF HostInv, ContextInv
<1> QED BY <1>3, <1>5, <1>6, <1>7, <1>8, <1>9 DEF HostInv, TypeOK

-------------------------------------------------------------------------------
(* The worker *)

\* A step of the script that succeeds or fails.
LEMMA ScriptStep ==
    ASSUME HostInv, worker = "exchanging", UNCHANGED <<scenario, main, slot, result>>,
           StepDone \/ StepFails,
           plugin = "context" /\ main \notin {"outside", "gone"}
               /\ scenario # "beforeInitialize" /\ step = 2 => StepFails
    PROVE  /\ HostTypeOK' /\ ScriptInv'
           /\ worker' \in {"exchanging", "shutting", "closing"} /\ slot = "empty"
           /\ main # "outside"
           /\ plugin = "context" /\ main \notin {"outside", "gone"}
                  /\ scenario # "beforeInitialize" => step' <= 2
<1>0. /\ Len(Script[scenario]) \in 2 .. 4 /\ 0 \in 0 .. MaxFrames - 1
      /\ step \in 1 .. 4 /\ step <= Len(Script[scenario]) /\ exchanged = "ok"
      /\ main \notin {"spawning", "outside"} /\ slot = "empty"
  BY ScriptFacts, HostAssumption
  DEF HostInv, TypeOK, HostTypeOK, ScriptInv, ThreadsInv, DecidedInv
<1>1. CASE StepDone
  <2>1. /\ step' = step + 1 /\ frames' = 0 /\ exchanged' = exchanged
        /\ worker' \in {"exchanging", "shutting"}
        /\ worker' = "exchanging" => step # Len(Script[scenario])
        /\ worker' = "shutting" => step = Len(Script[scenario])
    BY <1>1 DEF StepDone
  <2>2. ScriptInv' /\ step' \in 1 .. 5
    BY <1>0, <2>1 DEF ScriptInv, Within
  <2>3. HostTypeOK'
    BY <1>0, <2>1, <2>2 DEF HostInv, TypeOK, HostTypeOK
  <2>4. plugin = "context" /\ main \notin {"outside", "gone"}
            /\ scenario # "beforeInitialize" => step' <= 2
    <3>1. SUFFICES ASSUME plugin = "context", main \notin {"outside", "gone"},
                          scenario # "beforeInitialize"
                   PROVE  step' <= 2
      OBVIOUS
    <3>2. step <= 2
      BY <3>1 DEF HostInv, ContextInv
    <3>3. CASE step = 2
      <4>1. step' = step
        BY <3>1, <3>3 DEF StepFails
      <4> QED BY <4>1, <3>3
    <3> QED BY <1>0, <2>1, <3>2, <3>3
  <2> QED BY <1>0, <2>1, <2>2, <2>3, <2>4
<1>2. CASE StepFails
  <2>1. /\ step' = step /\ frames' = frames /\ exchanged' = "error"
        /\ worker' \in {"shutting", "closing"}
    BY <1>2 DEF StepFails
  <2>2. ScriptInv'
    BY <2>1 DEF ScriptInv, Within
  <2>3. HostTypeOK'
    BY <1>0, <2>1 DEF HostInv, TypeOK, HostTypeOK
  <2> QED BY <1>0, <2>1, <2>2, <2>3 DEF HostInv, ContextInv
<1> QED BY <1>1, <1>2

\* No step of exchange, exchange_fixture or the channel does.
LEMMA WorkerKeeps ==
    ASSUME HostInv, WorkerNext, UNCHANGED serverVars
    PROVE  HostInv'
<1>1. /\ UNCHANGED <<heir, child, exit, plugin, initialized, serving, reply, scenario, main,
                     result>>
      /\ ServerTypeOK'
  BY DEF WorkerNext, WorkerSend, WorkerReceive, WorkerEof, WorkerShutdown, WorkerClose,
         WorkerDone, pipeVars, serverVars, HostInv, TypeOK, ServerTypeOK
<1>2. /\ toPlugin \in Seq(Requests) /\ Len(toPlugin) <= Room
      /\ toHost \in Seq(Replies) /\ Len(toHost) <= Room
  BY DEF HostInv, TypeOK, PipesTypeOK
<1>3. ASSUME worker = "exchanging", UNCHANGED <<slot, stdinOpen, stdoutOpen>>,
             StepDone \/ StepFails,
             plugin = "context" /\ main \notin {"outside", "gone"}
                 /\ scenario # "beforeInitialize" /\ step = 2 => StepFails,
             toPlugin' \in Seq(Requests), Len(toPlugin') <= Room,
             toHost' \in Seq(Replies), Len(toHost') <= Room,
             \A i \in 1 .. Len(toPlugin') :
                 \/ \E j \in 1 .. Len(toPlugin) : toPlugin'[i] = toPlugin[j]
                 \/ toPlugin'[i].payload # "context",
             \A i \in 1 .. Len(toHost') :
                 \E j \in 1 .. Len(toHost) : toHost'[i] = toHost[j]
      PROVE  HostInv'
  <2>1. /\ HostTypeOK' /\ ScriptInv'
        /\ worker' \in {"exchanging", "shutting", "closing"} /\ slot = "empty"
        /\ main # "outside"
        /\ plugin = "context" /\ main \notin {"outside", "gone"}
               /\ scenario # "beforeInitialize" => step' <= 2
    BY <1>1, <1>3, ScriptStep
  <2>2. PipesTypeOK'
    BY <1>1, <1>3 DEF HostInv, TypeOK, PipesTypeOK
  <2>3. ThreadsInv'
    BY <1>1, <1>3, <2>1 DEF HostInv, ThreadsInv, Within
  <2>4. DecidedInv'
    BY <1>1, <1>3, <2>1 DEF HostInv, DecidedInv
  <2>5. ContextInv'
    BY <1>1, <1>3, <2>1 DEF HostInv, ContextInv
  <2> QED BY <1>1, <2>1, <2>2, <2>3, <2>4, <2>5 DEF HostInv, TypeOK
<1>4. ASSUME NEW op, AtStep(op)
      PROVE  /\ worker = "exchanging" /\ step \in 1 .. Len(Script[scenario])
             /\ Current = Script[scenario][step] /\ Current.op = op
             /\ Current.request \in Requests /\ Current.request.payload # "context"
             /\ scenario # "beforeInitialize" /\ step = 2 =>
                    Current.op = "expect" /\ Current.good = {"identity"}
  BY <1>4, ScriptFacts DEF AtStep, Current, HostInv, TypeOK, HostTypeOK
<1>5. CASE WorkerSend
  <2>1. /\ worker = "exchanging" /\ UNCHANGED <<slot, stdinOpen, stdoutOpen, toHost>>
        /\ Current.request \in Requests /\ Current.request.payload # "context"
        /\ ~(scenario # "beforeInitialize" /\ step = 2)
    BY <1>4, <1>5 DEF WorkerSend
  <2>2. /\ StepDone \/ StepFails
        /\ \/ toPlugin' = toPlugin
           \/ Len(toPlugin) < Room /\ toPlugin' = Append(toPlugin, Current.request)
    BY <1>5 DEF WorkerSend
  <2>3. /\ toPlugin' \in Seq(Requests) /\ Len(toPlugin') <= Room
        /\ \A i \in 1 .. Len(toPlugin') :
               \/ \E j \in 1 .. Len(toPlugin) : toPlugin'[i] = toPlugin[j]
               \/ toPlugin'[i].payload # "context"
    BY <1>2, <2>1, <2>2, Written
  <2> QED BY <1>2, <1>3, <2>1, <2>2, <2>3
<1>6. CASE WorkerReceive
  <2>1. /\ worker = "exchanging" /\ UNCHANGED <<slot, stdinOpen, stdoutOpen, toPlugin>>
        /\ scenario # "beforeInitialize" /\ step = 2 => Current.good = {"identity"}
        /\ toHost # <<>> /\ toHost' = Tail(toHost)
    BY <1>4, <1>6 DEF WorkerReceive
  <2>2. /\ toHost' \in Seq(Replies) /\ Len(toHost') <= Room
        /\ \E j \in 1 .. Len(toHost) : Head(toHost) = toHost[j]
        /\ \A i \in 1 .. Len(toHost') :
               \E j \in 1 .. Len(toHost) : toHost'[i] = toHost[j]
    BY <1>2, <2>1, Shorter
  <2>3. \/ StepFails
        \/ StepDone /\ Head(toHost).body \in Current.good
        \/ /\ frames + 1 # MaxFrames /\ frames' = frames + 1
           /\ UNCHANGED <<step, worker, exchanged>>
    BY <1>6 DEF WorkerReceive, FrameBudgetSpent
  <2>4. CASE StepFails \/ (StepDone /\ Head(toHost).body \in Current.good)
    <3>1. plugin = "context" /\ main \notin {"outside", "gone"}
              /\ scenario # "beforeInitialize" /\ step = 2 => StepFails
      BY <2>1, <2>2, <2>4 DEF HostInv, ContextInv
    <3> QED BY <1>2, <1>3, <2>1, <2>2, <2>4, <3>1
  <2>5. CASE /\ frames + 1 # MaxFrames /\ frames' = frames + 1
             /\ UNCHANGED <<step, worker, exchanged>>
    <3>1. frames' \in 0 .. MaxFrames - 1
      BY <2>5, HostAssumption DEF HostInv, TypeOK, HostTypeOK
    <3>2. HostTypeOK'
      BY <1>1, <2>1, <2>5, <3>1 DEF HostInv, TypeOK, HostTypeOK
    <3>3. PipesTypeOK'
      BY <1>1, <2>1, <2>2 DEF HostInv, TypeOK, PipesTypeOK
    <3>4. ThreadsInv' /\ DecidedInv' /\ ScriptInv'
      BY <1>1, <2>1, <2>5 DEF HostInv, ThreadsInv, DecidedInv, ScriptInv
    <3>5. ContextInv'
      BY <1>1, <2>1, <2>2, <2>5 DEF HostInv, ContextInv
    <3> QED BY <1>1, <3>2, <3>3, <3>4, <3>5 DEF HostInv, TypeOK
  <2> QED BY <2>3, <2>4, <2>5
<1>7. CASE WorkerEof
  <2>1. /\ worker = "exchanging" /\ StepFails
        /\ UNCHANGED <<slot, stdinOpen, stdoutOpen, toPlugin, toHost>>
    BY <1>4, <1>7 DEF WorkerEof, pipeVars
  <2>2. /\ toPlugin' \in Seq(Requests) /\ Len(toPlugin') <= Room
        /\ \A i \in 1 .. Len(toPlugin') :
               \/ \E j \in 1 .. Len(toPlugin) : toPlugin'[i] = toPlugin[j]
               \/ toPlugin'[i].payload # "context"
    BY <1>2, <2>1
  <2>3. /\ toHost' \in Seq(Replies) /\ Len(toHost') <= Room
        /\ \A i \in 1 .. Len(toHost') : \E j \in 1 .. Len(toHost) : toHost'[i] = toHost[j]
    BY <1>2, <2>1
  <2> QED BY <1>3, <2>1, <2>2, <2>3
<1>8. CASE WorkerShutdown \/ WorkerClose \/ WorkerDone
  <2>1. /\ worker \in {"shutting", "closing", "sending"}
        /\ worker' \in {"closing", "sending", "done"}
        /\ UNCHANGED <<step, frames, exchanged, toHost>>
        /\ \/ slot' = slot
           \/ slot = "empty" /\ slot' = exchanged /\ worker' = "done"
        /\ stdinOpen' \in {stdinOpen, FALSE} /\ stdoutOpen' \in {stdoutOpen, FALSE}
        /\ \/ toPlugin' = toPlugin
           \/ Len(toPlugin) < Room /\ toPlugin' = Append(toPlugin, Shutdown)
    BY <1>8 DEF WorkerShutdown, WorkerClose, WorkerDone, ChannelHasRoom, pipeVars
  <2>2. Shutdown \in Requests /\ Shutdown.payload # "context"
    BY DEF Requests, Shutdown, Frame
  <2>3. /\ toPlugin' \in Seq(Requests) /\ Len(toPlugin') <= Room
        /\ \A i \in 1 .. Len(toPlugin') :
               \/ \E j \in 1 .. Len(toPlugin) : toPlugin'[i] = toPlugin[j]
               \/ toPlugin'[i].payload # "context"
    BY <1>2, <2>1, <2>2, Written
  <2>4. PipesTypeOK'
    BY <1>1, <2>1, <2>3 DEF HostInv, TypeOK, PipesTypeOK
  <2>5. HostTypeOK'
    BY <1>1, <2>1 DEF HostInv, TypeOK, HostTypeOK
  <2>6. ThreadsInv' /\ DecidedInv'
    BY <1>1, <2>1 DEF HostInv, ThreadsInv, DecidedInv, Within, TypeOK, HostTypeOK
  <2>7. ScriptInv'
    BY <1>1, <2>1 DEF HostInv, ScriptInv, Within
  <2>8. ContextInv'
    BY <1>1, <2>1, <2>3 DEF HostInv, ContextInv
  <2> QED BY <1>1, <2>4, <2>5, <2>6, <2>7, <2>8 DEF HostInv, TypeOK
<1> QED BY <1>5, <1>6, <1>7, <1>8 DEF WorkerNext

-------------------------------------------------------------------------------
(* The loops *)

\* What becomes of the process in a step of its own.
ProcessGoesOn ==
    \/ UNCHANGED <<child, exit>>
    \/ child = "running" /\ child' = "exited" /\ exit' \in {"success", "failure"}

\* What one frame makes of a loop: it replies, calls, passes it over or ends, and a
\* context service accepts no initialize of a v1 host.
LEMMA Served ==
    ASSUME ServerTypeOK, NEW f \in Requests, UNCHANGED plugin,
           ServeRust(f) \/ ServeGo(f) \/ ServePython(f) \/ ServeTypeScript(f) \/ ServeContext(f)
    PROVE  /\ ServerTypeOK' /\ ProcessGoesOn
           /\ plugin = "context" /\ f.payload # "context" /\ reply.body # "identity"
                  => reply'.body # "identity"
<1>1. f.id \in {0, 1, 2}
  BY DEF Requests, OtherFrames, Initialize, Optimize, Shutdown, Unreadable, Frame
<1> DEFINE Keeps == /\ ServerTypeOK' /\ ProcessGoesOn
           Silent == reply.body # "identity" => reply'.body # "identity"
<1>2. ASSUME NEW body \in Bodies, Answer(f, body)
      PROVE  Keeps /\ (body # "identity" => Silent)
  BY <1>1, <1>2 DEF Answer, ServerTypeOK, Replies, ProcessGoesOn
<1>3. ASSUME Call(f)
      PROVE  Keeps /\ Silent
  BY <1>1, <1>3 DEF Call, NoReply, ServerTypeOK, Replies, Bodies, ProcessGoesOn
<1>4. ASSUME Accept(f)
      PROVE  Keeps
  BY <1>1, <1>4 DEF Accept, ServerTypeOK, Replies, Bodies, ProcessGoesOn
<1>5. ASSUME NEW statuses \in SUBSET {"success", "failure"}, Exits(statuses)
      PROVE  Keeps /\ Silent
  BY <1>5 DEF Exits, ChildExits, ServerTypeOK, ProcessGoesOn
<1>6. ASSUME ServeV1(f)
      PROVE  Keeps
  BY <1>2, <1>3, <1>4, <1>6 DEF ServeV1, ServeInitialize, ServeOptimize, Bodies
<1>7. ASSUME Finishes
      PROVE  Keeps
  BY <1>5, <1>7 DEF Finishes
<1>8. ASSUME TypeScriptFinishes
      PROVE  Keeps
  BY <1>7, <1>8 DEF TypeScriptFinishes, ServerTypeOK, ProcessGoesOn
<1>9. CASE ServeRust(f) \/ ServeGo(f) \/ ServePython(f) \/ ServeTypeScript(f)
  <2>1. plugin # "context"
    BY <1>9 DEF ServeRust, ServeGo, ServePython, ServeTypeScript
  <2>2. ServeV1(f) \/ Finishes \/ TypeScriptFinishes
    BY <1>9 DEF ServeRust, ServeGo, ServePython, ServeTypeScript
  <2> QED BY <1>6, <1>7, <1>8, <2>1, <2>2
<1>10. CASE ServeContext(f)
  <2>1. \/ \E statuses \in SUBSET {"success", "failure"} : Exits(statuses)
        \/ UNCHANGED <<initialized, serving, reply, child, exit>>
        \/ f.payload = "context" /\ Accept(f)
        \/ \E body \in {"-32602", "-32002", "error"} : Answer(f, body)
        \/ Call(f)
    BY <1>10 DEF ServeContext, Finishes
  <2>2. ASSUME NEW body \in {"-32602", "-32002", "error"}, Answer(f, body)
        PROVE  Keeps /\ Silent
    BY <1>2, <2>2 DEF Bodies
  <2>3. ASSUME UNCHANGED <<initialized, serving, reply, child, exit>>
        PROVE  Keeps /\ Silent
    BY <2>3 DEF ServerTypeOK, ProcessGoesOn
  <2> QED BY <1>3, <1>4, <1>5, <2>1, <2>2, <2>3
<1> QED BY <1>9, <1>10

\* No step of any of the five loops does.
LEMMA ServerKeeps ==
    ASSUME HostInv, ServerNext, UNCHANGED hostVars
    PROVE  HostInv'
<1>1. UNCHANGED <<stdinOpen, stdoutOpen, heir, plugin, scenario, main, worker, step, frames,
                  exchanged, slot, result>>
  BY DEF ServerNext, ServeFrame, ServeEnd, RunOptimizer, WriteReply, serverVars, hostVars
<1>2. /\ toPlugin \in Seq(Requests) /\ Len(toPlugin) <= Room /\ ServerTypeOK
      /\ toHost \in Seq(Replies) /\ Len(toHost) <= Room
  BY DEF HostInv, TypeOK, PipesTypeOK
<1> DEFINE Known == plugin = "context" /\ main \notin {"outside", "gone"}
<1>3. ASSUME ServerTypeOK', ProcessGoesOn,
             toPlugin' \in Seq(Requests), Len(toPlugin') <= Room,
             toHost' \in Seq(Replies), Len(toHost') <= Room,
             Known => reply'.body # "identity",
             \A i \in 1 .. Len(toPlugin') :
                 \E j \in 1 .. Len(toPlugin) : toPlugin'[i] = toPlugin[j],
             \A i \in 1 .. Len(toHost') :
                 \/ \E j \in 1 .. Len(toHost) : toHost'[i] = toHost[j]
                 \/ toHost'[i] = reply
      PROVE  HostInv'
  <2>1. PipesTypeOK' /\ HostTypeOK'
    BY <1>1, <1>3 DEF HostInv, TypeOK, PipesTypeOK, HostTypeOK, ProcessGoesOn
  <2>2. ThreadsInv' /\ DecidedInv'
    BY <1>1, <1>3 DEF HostInv, ThreadsInv, DecidedInv, ProcessGoesOn
  <2>3. ScriptInv'
    BY <1>1 DEF HostInv, ScriptInv
  <2>4. ContextInv'
    BY <1>1, <1>3 DEF HostInv, ContextInv
  <2> QED BY <1>3, <2>1, <2>2, <2>3, <2>4 DEF HostInv, TypeOK
<1>4. /\ Known => reply.body # "identity"
      /\ Known => \A i \in 1 .. Len(toPlugin) : toPlugin[i].payload # "context"
  BY DEF HostInv, ContextInv
<1>5. CASE ServeFrame
  <2>1. toPlugin # <<>> /\ toPlugin' = Tail(toPlugin) /\ toHost' = toHost
    BY <1>5 DEF ServeFrame
  <2>2. /\ toPlugin' \in Seq(Requests) /\ Len(toPlugin') <= Room
        /\ Head(toPlugin) \in Requests
        /\ \E j \in 1 .. Len(toPlugin) : Head(toPlugin) = toPlugin[j]
        /\ \A i \in 1 .. Len(toPlugin') :
               \E j \in 1 .. Len(toPlugin) : toPlugin'[i] = toPlugin[j]
    BY <1>2, <2>1, Shorter
  <2>3. \/ ServeRust(Head(toPlugin)) \/ ServeGo(Head(toPlugin)) \/ ServePython(Head(toPlugin))
        \/ ServeTypeScript(Head(toPlugin)) \/ ServeContext(Head(toPlugin))
    BY <1>5 DEF ServeFrame
  <2>4. /\ ServerTypeOK' /\ ProcessGoesOn
        /\ Known => reply'.body # "identity"
    BY <1>1, <1>2, <1>4, <2>2, <2>3, Served
  <2>5. /\ toHost' \in Seq(Replies) /\ Len(toHost') <= Room
        /\ \A i \in 1 .. Len(toHost') :
               \/ \E j \in 1 .. Len(toHost) : toHost'[i] = toHost[j]
               \/ toHost'[i] = reply
    BY <1>2, <2>1
  <2> QED BY <1>3, <2>2, <2>4, <2>5
<1>6. CASE ServeEnd \/ RunOptimizer
  <2>1. toPlugin' = toPlugin /\ toHost' = toHost
    BY <1>6 DEF ServeEnd, RunOptimizer
  <2>2. ServerTypeOK' /\ ProcessGoesOn /\ (Known => reply'.body # "identity")
    <3>1. CASE ServeEnd
      BY <1>2, <1>4, <3>1 DEF ServeEnd, ChildExits, ServerTypeOK, ProcessGoesOn, serverVars
    <3>2. CASE RunOptimizer
      <4>1. Answers \subseteq Bodies /\ (plugin = "context" => "identity" \notin Answers)
        BY ServerAssumption DEF Answers, Bodies
      <4>2. PICK body \in Answers : Answer(reply, body) /\ UNCHANGED plugin
        BY <3>2 DEF RunOptimizer
      <4> QED BY <1>2, <4>1, <4>2 DEF Answer, ServerTypeOK, ProcessGoesOn, Replies
    <3> QED BY <1>6, <3>1, <3>2
  <2>3. /\ toPlugin' \in Seq(Requests) /\ Len(toPlugin') <= Room
        /\ \A i \in 1 .. Len(toPlugin') :
               \E j \in 1 .. Len(toPlugin) : toPlugin'[i] = toPlugin[j]
    BY <1>2, <2>1
  <2>4. /\ toHost' \in Seq(Replies) /\ Len(toHost') <= Room
        /\ \A i \in 1 .. Len(toHost') :
               \/ \E j \in 1 .. Len(toHost) : toHost'[i] = toHost[j]
               \/ toHost'[i] = reply
    BY <1>2, <2>1
  <2> QED BY <1>3, <2>2, <2>3, <2>4
<1>7. CASE WriteReply
  <2>1. /\ toPlugin' = toPlugin
        /\ \/ toHost' = toHost
           \/ Len(toHost) < Room /\ toHost' = Append(toHost, reply)
    BY <1>7 DEF WriteReply
  <2>2. ServerTypeOK' /\ ProcessGoesOn /\ (Known => reply'.body # "identity")
    <3>1. CASE /\ serving' = "reading" /\ reply' = NoReply
               /\ UNCHANGED <<child, exit, initialized>>
      BY <1>1, <1>2, <3>1 DEF ServerTypeOK, NoReply, Replies, Bodies, ProcessGoesOn
    <3>2. CASE \/ RustWriteFails \/ GoWriteFails \/ PythonWriteFails
               \/ TypeScriptWriteFails \/ ContextWriteFails
      BY <1>1, <1>2, <1>4, <3>2 DEF RustWriteFails, GoWriteFails, PythonWriteFails,
         TypeScriptWriteFails, ContextWriteFails, TypeScriptFinishes, Finishes, Exits,
         ChildExits, ServerTypeOK, ProcessGoesOn
    <3> QED BY <1>7, <3>1, <3>2 DEF WriteReply
  <2>3. /\ toPlugin' \in Seq(Requests) /\ Len(toPlugin') <= Room
        /\ \A i \in 1 .. Len(toPlugin') :
               \E j \in 1 .. Len(toPlugin) : toPlugin'[i] = toPlugin[j]
    BY <1>2, <2>1
  <2>4. /\ toHost' \in Seq(Replies) /\ Len(toHost') <= Room
        /\ \A i \in 1 .. Len(toHost') :
               \/ \E j \in 1 .. Len(toHost) : toHost'[i] = toHost[j]
               \/ toHost'[i] = reply
    <3>1. reply \in Replies
      BY <1>2 DEF ServerTypeOK
    <3>2. CASE toHost' = toHost
      BY <1>2, <3>2
    <3>3. CASE Len(toHost) < Room /\ toHost' = Append(toHost, reply)
      BY <1>2, <3>1, <3>3, Longer
    <3> QED BY <2>1, <3>2, <3>3
  <2> QED BY <1>3, <2>2, <2>3, <2>4
<1> QED BY <1>5, <1>6, <1>7 DEF ServerNext

-------------------------------------------------------------------------------
(* Another host, any program, and the death of the host *)

\* Another host changes the pipes and its own child alone.
LEMMA OtherHostKeeps ==
    ASSUME HostInv, OtherHost
    PROVE  HostInv'
<1>1. /\ UNCHANGED <<exit, heir, plugin, initialized, serving, reply, scenario, main, worker,
                     step, frames, exchanged, slot, result>>
      /\ main = "outside"
  BY DEF OtherHost, OtherStarts, OtherWrites, OtherReads, OtherCloses, serverVars, hostVars
<1>2. /\ toPlugin \in Seq(Requests) /\ Len(toPlugin) <= Room
      /\ toHost \in Seq(Replies) /\ Len(toHost) <= Room
  BY DEF HostInv, TypeOK, PipesTypeOK
<1>3. toPlugin' \in Seq(Requests) /\ Len(toPlugin') <= Room
  <2>1. CASE toPlugin' = toPlugin
    BY <1>2, <2>1
  <2>2. CASE OtherWrites
    <3>1. PICK f \in Requests : Len(toPlugin) < Room /\ toPlugin' = Append(toPlugin, f)
      BY <2>2 DEF OtherWrites
    <3> QED BY <1>2, <3>1, Written
  <2> QED BY <2>1, <2>2 DEF OtherHost, OtherStarts, OtherReads, OtherCloses
<1>4. toHost' \in Seq(Replies) /\ Len(toHost') <= Room
  <2>1. CASE toHost' = toHost
    BY <1>2, <2>1
  <2>2. CASE toHost # <<>> /\ toHost' = Tail(toHost)
    BY <1>2, <2>2, Shorter
  <2> QED BY <2>1, <2>2 DEF OtherHost, OtherStarts, OtherWrites, OtherReads, OtherCloses
<1>5. /\ stdinOpen' \in BOOLEAN /\ stdoutOpen' \in BOOLEAN
      /\ child' \in {child, "running"}
  BY DEF OtherHost, OtherStarts, OtherWrites, OtherReads, OtherCloses, HostInv, TypeOK,
         PipesTypeOK
<1>6. PipesTypeOK'
  BY <1>1, <1>3, <1>4, <1>5 DEF HostInv, TypeOK, PipesTypeOK
<1>7. ServerTypeOK' /\ HostTypeOK'
  BY <1>1 DEF HostInv, TypeOK, ServerTypeOK, HostTypeOK
<1>8. ThreadsInv' /\ DecidedInv'
  BY <1>1 DEF HostInv, ThreadsInv, DecidedInv
<1>9. ScriptInv' /\ ContextInv'
  BY <1>1 DEF HostInv, ScriptInv, ContextInv
<1> QED BY <1>6, <1>7, <1>8, <1>9 DEF HostInv, TypeOK

\* A program of its own changes the pipes, its exit and what it started alone.
LEMMA AnyProgramKeeps ==
    ASSUME HostInv, AnyProgram, plugin = "any", UNCHANGED <<serverVars, hostVars>>
    PROVE  HostInv'
<1>1. UNCHANGED <<stdinOpen, stdoutOpen, plugin, initialized, serving, reply, scenario, main,
                  worker, step, frames, exchanged, slot, result>>
  BY DEF AnyProgram, AnyRead, AnyWrite, AnyExit, AnyFork, HeirExits, serverVars, hostVars
<1>2. /\ toPlugin \in Seq(Requests) /\ Len(toPlugin) <= Room
      /\ toHost \in Seq(Replies) /\ Len(toHost) <= Room
  BY DEF HostInv, TypeOK, PipesTypeOK
<1>3. toPlugin' \in Seq(Requests) /\ Len(toPlugin') <= Room
  <2>1. CASE toPlugin' = toPlugin
    BY <1>2, <2>1
  <2>2. CASE toPlugin # <<>> /\ toPlugin' = Tail(toPlugin)
    BY <1>2, <2>2, Shorter
  <2> QED BY <2>1, <2>2 DEF AnyProgram, AnyRead, AnyWrite, AnyExit, AnyFork, HeirExits
<1>4. toHost' \in Seq(Replies) /\ Len(toHost') <= Room
  <2>1. CASE toHost' = toHost
    BY <1>2, <2>1
  <2>2. CASE AnyWrite
    <3>1. PICK r \in Replies : Len(toHost) < Room /\ toHost' = Append(toHost, r)
      BY <2>2 DEF AnyWrite
    <3> QED BY <1>2, <3>1, Longer
  <2> QED BY <2>1, <2>2 DEF AnyProgram, AnyRead, AnyExit, AnyFork, HeirExits
<1>5. ProcessGoesOn /\ heir' \in BOOLEAN
  BY DEF AnyProgram, AnyRead, AnyWrite, AnyExit, AnyFork, HeirExits, ChildExits, ProcessGoesOn,
         HostInv, TypeOK, PipesTypeOK
<1>6. PipesTypeOK'
  BY <1>1, <1>3, <1>4, <1>5 DEF HostInv, TypeOK, PipesTypeOK, ProcessGoesOn
<1>7. ServerTypeOK' /\ HostTypeOK'
  BY <1>1 DEF HostInv, TypeOK, ServerTypeOK, HostTypeOK
<1>8. ThreadsInv' /\ DecidedInv'
  BY <1>1, <1>5 DEF HostInv, ThreadsInv, DecidedInv, ProcessGoesOn
<1>9. ScriptInv' /\ ContextInv'
  BY <1>1 DEF HostInv, ScriptInv, ContextInv
<1> QED BY <1>6, <1>7, <1>8, <1>9 DEF HostInv, TypeOK

\* The killed host leaves the pipes closed, and a piece of a frame perhaps.
LEMMA DeathKeeps ==
    ASSUME HostInv, HostDies
    PROVE  HostInv'
<1>1. /\ UNCHANGED <<toHost, child, exit, heir, plugin, initialized, serving, reply, scenario,
                     step, frames, exchanged, slot, result>>
      /\ main' = "gone" /\ worker' = "gone" /\ stdinOpen' = FALSE /\ stdoutOpen' = FALSE
      /\ \/ toPlugin' = toPlugin
         \/ Len(toPlugin) < Room /\ toPlugin' = Append(toPlugin, Unreadable)
  BY DEF HostDies, serverVars
<1>2. toPlugin \in Seq(Requests) /\ Len(toPlugin) <= Room /\ Unreadable \in Requests
  BY DEF HostInv, TypeOK, PipesTypeOK, Requests, OtherFrames
<1>3. toPlugin' \in Seq(Requests) /\ Len(toPlugin') <= Room
  BY <1>1, <1>2, Written
<1>4. PipesTypeOK' /\ ServerTypeOK' /\ HostTypeOK'
  <2>1. PipesTypeOK'
    BY <1>1, <1>3 DEF HostInv, TypeOK, PipesTypeOK
  <2>2. ServerTypeOK'
    BY <1>1 DEF HostInv, TypeOK, ServerTypeOK
  <2>3. HostTypeOK'
    BY <1>1 DEF HostInv, TypeOK, HostTypeOK
  <2> QED BY <2>1, <2>2, <2>3
<1>5. ThreadsInv' /\ DecidedInv' /\ ScriptInv' /\ ContextInv'
  BY <1>1 DEF HostInv, ThreadsInv, DecidedInv, ScriptInv, ContextInv, Within
<1> QED BY <1>4, <1>5 DEF HostInv, TypeOK

\* What the host relies on is kept by every step of the session.
LEMMA HostStepKeeps == HostInv /\ [Next]_sessionVars => HostInv'
<1> SUFFICES ASSUME HostInv, [Next]_sessionVars PROVE HostInv'
  OBVIOUS
<1>1. CASE MainStep
  BY <1>1, MainKeeps DEF MainStep
<1>2. CASE WorkerStep
  BY <1>2, WorkerKeeps DEF WorkerStep
<1>3. CASE ServerStep
  BY <1>3, ServerKeeps DEF ServerStep
<1>4. CASE OtherHost
  BY <1>4, OtherHostKeeps
<1>5. CASE HostDies
  BY <1>5, DeathKeeps
<1>6. CASE plugin = "any" /\ AnyProgram /\ UNCHANGED <<serverVars, hostVars>>
  BY <1>6, AnyProgramKeeps
<1>7. CASE UNCHANGED sessionVars
  <2>1. PipesTypeOK' /\ ServerTypeOK' /\ HostTypeOK'
    BY <1>7 DEF sessionVars, pipeVars, serverVars, hostVars, HostInv, TypeOK, PipesTypeOK,
                ServerTypeOK, HostTypeOK
  <2>2. ThreadsInv' /\ DecidedInv' /\ ScriptInv' /\ ContextInv'
    BY <1>7 DEF sessionVars, pipeVars, serverVars, hostVars, HostInv, ThreadsInv,
                DecidedInv, ScriptInv, ContextInv
  <2> QED BY <2>1, <2>2 DEF HostInv, TypeOK
<1> QED BY <1>1, <1>2, <1>3, <1>4, <1>5, <1>6, <1>7 DEF Next

-------------------------------------------------------------------------------
(* A plugin on an SDK loop is in step with the workbench *)

\* A request and the reply waited for: what the loop answers to the request, in the
\* state it is in by then, is among what the exchange takes.
LEMMA ScriptPairs ==
    ASSUME NEW s \in AllScenarios
    PROVE  /\ Len(Script[s]) = (IF s = "beforeInitialize" THEN 2 ELSE 4)
           /\ Script[s][1].op = "send"
           /\ /\ Script[s][2].op = "expect" /\ "junk" \notin Script[s][2].good
              /\ Script[s][1].request.id = Script[s][2].id
           /\ s = "beforeInitialize" =>
                 /\ Script[s][1].request.method = "optimize" /\ "-32002" \in Script[s][2].good
           /\ s # "beforeInitialize" =>
                 /\ Script[s][1].request.method = "initialize"
                 /\ Script[s][1].request.payload = "v1" /\ "identity" \in Script[s][2].good
                 /\ Script[s][3].op = "send"
                 /\ Script[s][4].op = "expect" /\ "junk" \notin Script[s][4].good
                 /\ Script[s][3].request.id = Script[s][4].id
                 /\ Script[s][3].request.method = "optimize"
                 /\ \/ /\ Script[s][3].request.payload = "text"
                       /\ Optimized \subseteq Script[s][4].good
                    \/ /\ Script[s][3].request.payload = "malformed"
                       /\ "-32602" \in Script[s][4].good
<1>1. ASSUME NEW onError, NEW payload, NEW onSendError, NEW good, "junk" \notin good,
             \/ payload = "text" /\ Optimized \subseteq good
             \/ payload = "malformed" /\ "-32602" \in good,
             Script[s] = Handshaken(onError, payload, onSendError, good)
      PROVE  /\ Len(Script[s]) = 4
             /\ Script[s][1].op = "send"
             /\ Script[s][2].op = "expect" /\ "junk" \notin Script[s][2].good
             /\ Script[s][1].request.id = Script[s][2].id
             /\ Script[s][1].request.method = "initialize"
             /\ Script[s][1].request.payload = "v1" /\ "identity" \in Script[s][2].good
             /\ Script[s][3].op = "send"
             /\ Script[s][4].op = "expect" /\ "junk" \notin Script[s][4].good
             /\ Script[s][3].request.id = Script[s][4].id
             /\ Script[s][3].request.method = "optimize"
             /\ \/ /\ Script[s][3].request.payload = "text"
                   /\ Optimized \subseteq Script[s][4].good
                \/ /\ Script[s][3].request.payload = "malformed"
                   /\ "-32602" \in Script[s][4].good
  BY <1>1 DEF Handshaken, Initialize, Optimize, Shutdown, Frame, Send, Expect
<1>2. CASE s = "beforeInitialize"
  <2>1. Script[s] = <<Send(Optimize("empty"), "leave"), Expect(2, {"-32002"}, "close")>>
    BY <1>2 DEF Script
  <2> QED BY <1>2, <2>1 DEF Optimize, Shutdown, Frame, Send, Expect
<1>3. CASE s = "lifecycle"
  <2>1. Script[s] = Handshaken("leave", "text", "close", Optimized) /\ "junk" \notin Optimized
    BY <1>3 DEF Script, Optimized
  <2> QED BY <1>1, <1>3, <2>1
<1>4. CASE s = "malformedBase64"
  <2>1. Script[s] = Handshaken("leave", "malformed", "leave", {"-32602"})
    BY <1>4 DEF Script
  <2> QED BY <1>1, <1>4, <2>1
<1>5. CASE s = "fixture"
  <2>1. Script[s] = Handshaken("close", "text", "close", Optimized) /\ "junk" \notin Optimized
    BY <1>5 DEF Script, Optimized
  <2> QED BY <1>1, <1>5, <2>1
<1> QED BY <1>2, <1>3, <1>4, <1>5 DEF AllScenarios

\* The main thread leaves a run in step, and learns of nothing but success or a deadline.
LEMMA MainInStep ==
    ASSUME HostInv, InStep, MainNext, UNCHANGED serverVars
    PROVE  InStep'
<1>1. CASE MainSpawn
  <2>1. step = 1 /\ exchanged = "ok" /\ result = "none"
    BY <1>1 DEF MainSpawn, HostInv, ThreadsInv, DecidedInv, ScriptInv
  <2>2. UNCHANGED <<toPlugin, toHost, serving, initialized, step, exchanged>>
    BY <1>1 DEF MainSpawn, serverVars
  <2>3. /\ Quiet' /\ ~initialized'
    BY <1>1, <2>2 DEF MainSpawn, InStep, Quiet
  <2>4. \/ /\ main' = "receiving" /\ worker' = "exchanging" /\ child' = "running"
           /\ stdinOpen' = TRUE /\ stdoutOpen' = TRUE /\ result' = "none"
        \/ main' = "returned" /\ result' = "spawn"
    BY <1>1, <2>1 DEF MainSpawn
  <2>5. main' = "receiving" => Exchanging'
    BY <2>1, <2>2, <2>3, <2>4 DEF Exchanging
  <2> QED BY <2>1, <2>2, <2>4, <2>5 DEF InStep
<1>2. CASE MainReceive
  <2>1. worker = "done" /\ exchanged = "ok" /\ slot = "ok" /\ Ending
    BY <1>2 DEF MainReceive, InStep, HostInv, ThreadsInv, DecidedInv, Within
  <2>2. main' = "exiting" /\ Ending' /\ UNCHANGED <<worker, exchanged, result>>
    BY <1>2, <2>1 DEF MainReceive, Ending, pipeVars, serverVars
  <2> QED BY <2>1, <2>2 DEF InStep
<1>3. CASE MainTimeout \/ MainStop \/ MainJoin \/ MainGraceOver
  <2>1. main' \in {"stopping", "joining", "returned"} /\ result' \in {result, "timeout", "shutdown"}
    BY <1>3 DEF MainTimeout, MainStop, MainJoin, MainGraceOver
  <2> QED BY <2>1 DEF InStep
<1>4. CASE MainExited
  <2>1. child = "exited" /\ worker = "done" /\ main = "exiting"
    BY <1>4 DEF MainExited, HostInv, ThreadsInv
  <2>2. exit = "success"
    BY <2>1 DEF InStep, Ending
  <2>3. main' = "finishing" /\ exit' = exit /\ result' = result
    BY <1>4 DEF MainExited
  <2> QED BY <2>2, <2>3 DEF InStep
<1>5. CASE MainFinish
  <2>1. main' = "returned" /\ result' = "ok"
    BY <1>5 DEF MainFinish, ExitedWell, InStep
  <2> QED BY <2>1 DEF InStep
<1> QED BY <1>1, <1>2, <1>3, <1>4, <1>5 DEF MainNext

\* The worker sends when nothing is under way, and takes the reply it waits for.
LEMMA WorkerInStep ==
    ASSUME HostInv, InStep, WorkerNext, UNCHANGED serverVars
    PROVE  InStep'
<1>1. UNCHANGED <<child, exit, heir, main, result, serving, initialized, reply, scenario>>
  BY DEF WorkerNext, WorkerSend, WorkerReceive, WorkerEof, WorkerShutdown, WorkerClose,
         WorkerDone, pipeVars, serverVars
<1>2. worker \in {"exchanging", "shutting", "closing", "sending"}
  BY DEF WorkerNext, WorkerSend, WorkerReceive, WorkerEof, WorkerShutdown, WorkerClose,
         WorkerDone, AtStep
<1>3. main \notin {"spawning", "exiting", "finishing"}
  BY <1>2 DEF HostInv, ThreadsInv
<1>4. CASE main # "receiving"
  BY <1>1, <1>3, <1>4 DEF InStep
<1>5. CASE main = "receiving"
  <2>1. scenario \in AllScenarios /\ exchanged = "ok"
    BY <1>5 DEF HostInv, TypeOK, HostTypeOK, InStep
  <2>2. CASE worker = "exchanging"
    <3>1. Exchanging
      BY <1>5, <2>2 DEF InStep
    <3>2. PluginSideOpen
      BY <3>1 DEF Exchanging, PluginSideOpen
    <3>3. step <= Len(Script[scenario]) /\ step \in Nat
      BY <2>2 DEF HostInv, TypeOK, HostTypeOK, ScriptInv
    <3>4. CASE WorkerSend
      <4>1. step \in {1, 3} /\ Quiet
        BY <2>1, <3>1, <3>3, <3>4, ScriptPairs DEF WorkerSend, AtStep, Current, Exchanging
      <4>2. /\ toPlugin' = <<Script[scenario][step].request>> /\ toHost' = <<>>
            /\ StepDone /\ UNCHANGED <<stdinOpen, stdoutOpen>>
        BY <3>2, <3>4, <4>1 DEF WorkerSend, Current, Quiet
      <4>3. /\ step' = step + 1 /\ worker' = "exchanging" /\ exchanged' = "ok"
        BY <2>1, <2>2, <3>3, <4>1, <4>2, ScriptPairs DEF StepDone
      <4>4. Asked'
        <5>1. step' - 1 = step
          BY <4>1, <4>3
        <5>2. (step' = 2 /\ ~initialized') \/ (step' = 4 /\ initialized')
          BY <1>1, <3>1, <4>1, <4>3 DEF Exchanging
        <5> QED BY <1>1, <4>1, <4>2, <5>1, <5>2 DEF Asked, Quiet
      <4>5. Exchanging'
        BY <1>1, <3>1, <4>1, <4>2, <4>3, <4>4 DEF Exchanging
      <4> QED BY <1>1, <1>5, <4>3, <4>5 DEF InStep
    <3>5. CASE WorkerReceive
      <4>1. step \in {2, 4} /\ toHost # <<>> /\ toHost' = Tail(toHost)
        BY <2>1, <3>1, <3>3, <3>5, ScriptPairs
        DEF WorkerReceive, AtStep, Current, Exchanging, Quiet
      <4>2. Answered
        BY <3>1, <4>1 DEF Exchanging, Asked
      <4>3. PICK r \in Replies : toHost = <<r>> /\ Good(r)
        BY <4>1, <4>2 DEF Answered
      <4>4. /\ toPlugin' = <<>> /\ serving = "reading" /\ UNCHANGED <<stdinOpen, stdoutOpen>>
            /\ scenario # "beforeInitialize" => initialized
        BY <3>5, <4>1, <4>2 DEF Answered, WorkerReceive
      <4>5. Head(toHost) = r /\ Tail(toHost) = <<>>
        BY <4>3
      <4>6. r.body # "junk"
        BY <2>1, <3>3, <4>1, <4>3, ScriptPairs DEF Good, Current
      <4>7. StepDone
        BY <3>5, <4>3, <4>5, <4>6 DEF WorkerReceive, Good
      <4>8. /\ step' = step + 1 /\ exchanged' = "ok"
            /\ \/ step = 2 /\ scenario # "beforeInitialize" /\ worker' = "exchanging"
               \/ worker' = "shutting"
        BY <2>1, <2>2, <3>3, <4>1, <4>7, ScriptPairs DEF StepDone
      <4>9. Quiet'
        BY <1>1, <4>1, <4>4, <4>5 DEF Quiet
      <4>10. child' = "running" /\ stdinOpen' /\ stdoutOpen'
        BY <1>1, <3>1, <4>4 DEF Exchanging
      <4>11. worker' = "exchanging" => Exchanging'
        BY <1>1, <4>4, <4>8, <4>9, <4>10 DEF Exchanging
      <4> QED BY <1>1, <1>5, <4>8, <4>9, <4>10, <4>11 DEF InStep
    <3>6. ~WorkerEof
      BY <3>2 DEF WorkerEof
    <3> QED BY <2>2, <3>4, <3>5, <3>6 DEF WorkerNext, WorkerShutdown, WorkerClose, WorkerDone
  <2>3. CASE worker = "shutting"
    <3>1. child = "running" /\ Quiet
      BY <1>5, <2>3 DEF InStep
    <3>2. WorkerShutdown
      BY <2>3 DEF WorkerNext, WorkerSend, WorkerReceive, WorkerEof, AtStep, WorkerClose, WorkerDone
    <3>3. /\ toPlugin' = <<Shutdown>> /\ toHost' = toHost
          /\ worker' = "closing" /\ exchanged' = exchanged
      BY <3>1, <3>2 DEF WorkerShutdown, PluginSideOpen, Quiet
    <3>4. Ending'
      BY <1>1, <3>1, <3>3 DEF Ending, Quiet
    <3> QED BY <1>1, <1>5, <2>1, <3>3, <3>4 DEF InStep
  <2>4. CASE worker \in {"closing", "sending"}
    <3>1. Ending
      BY <1>5, <2>4 DEF InStep
    <3>2. /\ UNCHANGED <<toPlugin, toHost, exchanged>> /\ worker' \in {"sending", "done"}
      BY <2>4 DEF WorkerNext, WorkerSend, WorkerReceive, WorkerEof, AtStep, WorkerShutdown,
                  WorkerClose, WorkerDone, pipeVars
    <3>3. Ending'
      BY <1>1, <3>1, <3>2 DEF Ending
    <3> QED BY <1>1, <1>5, <2>1, <3>2, <3>3 DEF InStep
  <2> QED BY <1>2, <2>2, <2>3, <2>4
<1> QED BY <1>4, <1>5

\* The loop turns a request into the reply the script waits for, and ends at shutdown.
LEMMA ServerInStep ==
    ASSUME HostInv, InStep, Conforming, ServerNext, UNCHANGED hostVars
    PROVE  InStep'
<1>1. /\ UNCHANGED <<scenario, main, worker, step, exchanged, result>>
      /\ UNCHANGED <<stdinOpen, stdoutOpen, plugin>> /\ child = "running"
  BY DEF ServerNext, ServeFrame, ServeEnd, RunOptimizer, WriteReply, serverVars, hostVars
<1>2. /\ main \notin {"spawning", "finishing"}
      /\ scenario \in AllScenarios /\ plugin # "context"
      /\ reply \in Replies
  BY <1>1 DEF HostInv, ThreadsInv, TypeOK, HostTypeOK, ServerTypeOK, Conforming, Optimizers
<1>3. ASSUME ServeFrame
      PROVE  /\ toPlugin # <<>> /\ toPlugin' = Tail(toPlugin) /\ toHost' = toHost
             /\ serving = "reading"
             /\ \/ ServeV1(Head(toPlugin))
                \/ EndsLoop(Head(toPlugin)) /\ (Finishes \/ TypeScriptFinishes)
  BY <1>2, <1>3 DEF ServeFrame, ServeRust, ServeGo, ServePython, ServeTypeScript, ServeContext
<1>4. ASSUME stdinOpen, stdoutOpen, Quiet
      PROVE  FALSE
  BY <1>4 DEF Quiet, ServerNext, ServeFrame, ServeEnd, AtEnd, RunOptimizer, WriteReply
<1>5. CASE main \notin {"receiving", "exiting"}
  BY <1>1, <1>2, <1>5 DEF InStep
<1>6. CASE main = "receiving" /\ worker = "exchanging"
  <2>1. Exchanging /\ step \in {2, 4} /\ (Asked \/ Answered)
    BY <1>4, <1>6 DEF InStep, Exchanging
  <2>2. stdinOpen /\ stdoutOpen /\ step <= Len(Script[scenario])
    BY <1>6, <2>1 DEF Exchanging, HostInv, ScriptInv
  <2>3. Current' = Current
    BY <1>1 DEF Current
  <2>4. Answered' /\ child' = "running"
    <3>1. CASE Asked
      <4> DEFINE f == Script[scenario][step - 1].request
      <4>1. ServeFrame
        BY <2>2, <3>1 DEF Asked, ServerNext, ServeEnd, AtEnd, RunOptimizer, WriteReply
      <4>2. Head(toPlugin) = f /\ Tail(toPlugin) = <<>> /\ toHost = <<>>
        BY <3>1 DEF Asked
      <4>3. /\ \/ /\ step = 2 /\ ~initialized
                 /\ \/ /\ scenario = "beforeInitialize" /\ f.method = "optimize"
                       /\ "-32002" \in Current.good
                    \/ /\ scenario # "beforeInitialize" /\ f.method = "initialize"
                       /\ f.payload = "v1" /\ "identity" \in Current.good
              \/ /\ step = 4 /\ initialized /\ f.method = "optimize"
                 /\ \/ f.payload = "text" /\ Optimized \subseteq Current.good
                    \/ f.payload = "malformed" /\ "-32602" \in Current.good
            /\ f.id = Current.id
        <5>1. CASE step = 2 /\ ~initialized
          BY <1>2, <5>1, ScriptPairs DEF Current
        <5>2. CASE step = 4 /\ initialized
          BY <1>2, <2>2, <5>2, ScriptPairs DEF Current
        <5> QED BY <3>1, <5>1, <5>2 DEF Asked
      <4>4. /\ toPlugin' = <<>> /\ toHost' = <<>> /\ ServeV1(f)
        BY <1>3, <4>1, <4>2, <4>3 DEF EndsLoop
      <4>5. CASE /\ f.method = "initialize" /\ f.payload = "v1" /\ "identity" \in Current.good
        <5>1. Accept(f)
          BY <4>4, <4>5 DEF ServeV1, ServeInitialize, ServeOptimize
        <5>2. /\ initialized' = TRUE /\ serving' = "replying" /\ child' = child
              /\ reply'.id = f.id /\ reply'.body = "identity"
          BY <5>1 DEF Accept
        <5> QED BY <1>1, <2>3, <4>3, <4>4, <4>5, <5>2 DEF Answered, Good
      <4>6. CASE /\ f.method = "optimize" /\ ~initialized /\ scenario = "beforeInitialize"
                 /\ "-32002" \in Current.good
        <5>1. Answer(f, "-32002")
          BY <4>4, <4>6 DEF ServeV1, ServeInitialize, ServeOptimize, Ready
        <5>2. /\ serving' = "replying" /\ child' = child
              /\ reply'.id = f.id /\ reply'.body = "-32002"
          BY <5>1 DEF Answer
        <5> QED BY <1>1, <2>3, <4>3, <4>4, <4>6, <5>2 DEF Answered, Good
      <4>7. CASE /\ f.method = "optimize" /\ initialized
                 /\ f.payload = "malformed" /\ "-32602" \in Current.good
        <5>1. Answer(f, "-32602")
          BY <4>4, <4>7 DEF ServeV1, ServeInitialize, ServeOptimize, Ready
        <5>2. /\ serving' = "replying" /\ child' = child /\ initialized' = initialized
              /\ reply'.id = f.id /\ reply'.body = "-32602"
          BY <5>1 DEF Answer
        <5> QED BY <1>1, <2>3, <4>3, <4>4, <4>7, <5>2 DEF Answered, Good
      <4>8. CASE /\ f.method = "optimize" /\ initialized
                 /\ f.payload = "text" /\ Optimized \subseteq Current.good
        <5>1. Call(f)
          BY <4>4, <4>8 DEF ServeV1, ServeInitialize, ServeOptimize, Ready
        <5>2. /\ serving' = "optimizing" /\ child' = child /\ initialized' = initialized
              /\ reply'.id = f.id
          BY <5>1 DEF Call, NoReply
        <5> QED BY <1>1, <2>3, <4>3, <4>4, <4>8, <5>2 DEF Answered
      <4> QED BY <4>3, <4>5, <4>6, <4>7, <4>8
    <3>2. CASE Answered
      <4>1. RunOptimizer \/ WriteReply
        BY <2>2, <3>2 DEF Answered, ServerNext, ServeFrame, ServeEnd, AtEnd
      <4>2. CASE RunOptimizer
        <5>1. Answers \subseteq Optimized
          BY <1>2 DEF Answers, Conforming, Optimized
        <5>2. PICK body \in Answers : Answer(reply, body)
          BY <4>2 DEF RunOptimizer
        <5>3. /\ toPlugin' = toPlugin /\ toHost' = toHost /\ serving = "optimizing"
          BY <4>2 DEF RunOptimizer
        <5>4. /\ reply.id = Current.id /\ Optimized \subseteq Current.good
              /\ toPlugin = <<>> /\ toHost = <<>>
              /\ scenario # "beforeInitialize" => initialized
          BY <3>2, <5>3 DEF Answered
        <5>5. /\ serving' = "replying" /\ child' = child /\ initialized' = initialized
              /\ reply'.id = reply.id /\ reply'.body = body
          BY <5>2 DEF Answer
        <5> QED BY <1>1, <2>3, <5>1, <5>3, <5>4, <5>5 DEF Answered, Good
      <4>3. CASE WriteReply
        <5>1. /\ toPlugin = <<>> /\ toHost = <<>> /\ Good(reply)
              /\ scenario # "beforeInitialize" => initialized
          BY <3>2, <4>3 DEF Answered, WriteReply
        <5>2. /\ toHost' = <<reply>> /\ toPlugin' = <<>> /\ serving' = "reading"
              /\ UNCHANGED <<child, initialized>>
          BY <2>2, <4>3, <5>1 DEF WriteReply
        <5>3. \E r \in Replies : toHost' = <<r>> /\ Good(r)'
          BY <1>2, <2>3, <5>1, <5>2 DEF Good
        <5> QED BY <1>1, <2>3, <5>1, <5>2, <5>3 DEF Answered, Good
      <4> QED BY <4>1, <4>2, <4>3
    <3> QED BY <2>1, <3>1, <3>2
  <2>5. Exchanging'
    BY <1>1, <2>1, <2>2, <2>4 DEF Exchanging
  <2> QED BY <1>1, <1>6, <2>5 DEF InStep
<1>7. CASE main = "receiving" /\ worker = "shutting"
  BY <1>4, <1>7 DEF InStep
<1>8. CASE main \in {"receiving", "exiting"} /\ worker \in {"closing", "sending", "done"}
  <2>1. Ending
    BY <1>8 DEF InStep
  <2>2. Ending'
    <3>1. CASE toPlugin = <<Shutdown>> /\ serving = "reading"
      <4>1. ServeFrame
        BY <3>1 DEF ServerNext, ServeEnd, AtEnd, RunOptimizer, WriteReply
      <4>2. Head(toPlugin) = Shutdown
        BY <3>1
      <4>3. Finishes \/ TypeScriptFinishes
        BY <1>3, <4>1, <4>2 DEF ServeV1, ServeInitialize, ServeOptimize, Shutdown, Frame
      <4> QED BY <1>1, <4>3 DEF Finishes, TypeScriptFinishes, Exits, ChildExits, Ending
    <3>2. CASE serving = "ended"
      <4>1. ServeEnd
        BY <3>2 DEF ServerNext, ServeFrame, RunOptimizer, WriteReply
      <4> QED BY <4>1 DEF ServeEnd, ChildExits, Ending
    <3> QED BY <1>1, <2>1, <3>1, <3>2 DEF Ending
  <2> QED BY <1>1, <1>8, <2>2 DEF InStep
<1> QED BY <1>5, <1>6, <1>7, <1>8 DEF HostInv, ThreadsInv, Within

\* Host and plugin stay in step until a deadline has passed.
LEMMA InStepKeeps == HostInv /\ InStepInv /\ [Next]_sessionVars => InStepInv'
<1> SUFFICES ASSUME HostInv, InStepInv, [Next]_sessionVars, Conforming'
             PROVE  InStep'
  BY DEF InStepInv
<1>1. plugin' = plugin
  BY DEF Next, MainStep, WorkerStep, ServerStep, OtherHost, HostDies, sessionVars, serverVars,
         ServerNext, ServeFrame, ServeEnd, RunOptimizer, WriteReply
<1>2. Conforming /\ InStep /\ plugin # "any"
  BY <1>1 DEF Conforming, InStepInv, Optimizers
<1>3. CASE MainStep
  BY <1>2, <1>3, MainInStep DEF MainStep
<1>4. CASE WorkerStep
  BY <1>2, <1>4, WorkerInStep DEF WorkerStep
<1>5. CASE ServerStep
  BY <1>2, <1>5, ServerInStep DEF ServerStep
<1>6. CASE OtherHost \/ HostDies
  <2>1. main' \in {"outside", "gone"} /\ result' = result
    BY <1>6 DEF OtherHost, HostDies, hostVars
  <2> QED BY <1>2, <2>1 DEF InStep
<1>7. CASE UNCHANGED sessionVars
  <2>1. /\ UNCHANGED <<toPlugin, toHost, stdinOpen, stdoutOpen, child, exit>>
        /\ UNCHANGED <<initialized, serving, reply>>
        /\ UNCHANGED <<scenario, main, worker, step, exchanged, result>>
    BY <1>7 DEF sessionVars, pipeVars, serverVars, hostVars
  <2>2. Quiet' = Quiet /\ Current' = Current /\ Ending' = Ending
    BY <2>1 DEF Quiet, Current, Ending
  <2>3. Exchanging => Exchanging'
    BY <2>1, <2>2 DEF Exchanging, Asked, Answered, Good
  <2> QED BY <1>2, <2>1, <2>2, <2>3 DEF InStep
<1> QED BY <1>2, <1>3, <1>4, <1>5, <1>6, <1>7 DEF Next

\* They start in step.
LEMMA SessionInit == Init => SessionIInv
<1>1. Init => InStepInv
  BY DEF Init, PipesInit, ServerInit, HostInit, OutsideInit, InStepInv, InStep, Quiet
<1> QED BY <1>1, InitEstablishes DEF SessionIInv

-------------------------------------------------------------------------------
(* The theorems *)

\* Where the two threads of run_fixture_with_activation are, what has been decided at
\* each place, how far an exchange has got that has not failed, and what a context
\* service can have said: invariant for every plugin and every host.
THEOREM Invariance == Spec => []SessionIInv
<1>1. SessionIInv /\ [Next]_sessionVars => SessionIInv'
  BY HostStepKeeps, InStepKeeps DEF SessionIInv
<1> QED BY <1>1, SessionInit, PTL DEF Spec

\* However large the pipes, and whatever the plugin writes, reads or leaves behind, the
\* workbench returns with its process reaped and its worker thread finished.
THEOREM NothingIsLeft == Spec => []NothingLeftBehind
<1>1. SessionIInv => NothingLeftBehind
  BY DEF SessionIInv, HostInv, ThreadsInv, NothingLeftBehind
<1> QED BY <1>1, Invariance, PTL

\* A check that passed is the plugin's own clean exit after the whole exchange.
THEOREM OkIsEarned == Spec => []OkMeansCleanExit
<1>1. SessionIInv => OkMeansCleanExit
  <2> SUFFICES ASSUME SessionIInv, Returned("ok")
               PROVE  /\ exit = "success" /\ exchanged = "ok"
                      /\ step > Len(Script[scenario])
                      /\ plugin = "context" => scenario = "beforeInitialize"
    BY DEF OkMeansCleanExit
  <2>1. exit = "success" /\ slot = "ok" /\ exchanged = "ok" /\ worker = "done"
    BY DEF SessionIInv, HostInv, ThreadsInv, DecidedInv, Returned
  <2>2. step > Len(Script[scenario])
    BY <2>1 DEF SessionIInv, HostInv, ScriptInv, Within
  <2>3. ASSUME plugin = "context", scenario # "beforeInitialize"
        PROVE  FALSE
    <3>1. step <= 2
      BY <2>3 DEF SessionIInv, HostInv, ContextInv, Returned
    <3>2. Len(Script[scenario]) = 4
      BY <2>3, ScriptFacts DEF SessionIInv, HostInv, TypeOK, HostTypeOK
    <3> QED BY <2>2, <3>1, <3>2 DEF SessionIInv, HostInv, TypeOK, HostTypeOK
  <2> QED BY <2>1, <2>2, <2>3
<1> QED BY <1>1, Invariance, PTL

\* However a plugin on one of the four SDK loops is scheduled against the workbench, if
\* its optimizer keeps to the protocol no check fails for what it says or how it exits.
THEOREM SdkPluginsConform == Spec => []SdkPluginConforms
<1>1. SessionIInv => SdkPluginConforms
  BY DEF SessionIInv, InStepInv, InStep, SdkPluginConforms, Returned
<1> QED BY <1>1, Invariance, PTL
===============================================================================
