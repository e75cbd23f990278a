-------------------------- MODULE NativeDriverProofs --------------------------
(***************************************************************************)
(* Proofs about NativeDriver for any number of calls that fail, any amount *)
(* of output and any choice of platforms.                                  *)
(***************************************************************************)
EXTENDS NativeDriver, LinuxAttemptProofs

-------------------------------------------------------------------------------
(* macOS *)

\* A step that leaves what has been written and read alone.
MacStreamsKept ==
    /\ mac'.taken = mac.taken /\ mac'.sent = mac.sent /\ mac'.exceeded = mac.exceeded
    /\ mac'.closed = mac.closed /\ mac'.quiet = mac.quiet
    /\ mac'.stream = mac.stream /\ mac'.probing = mac.probing

\* Such a step keeps what is known of the streams, if it does not bring the process back
\* and does not leave a loop before it may.
LEMMA MacDrainKept ==
    ASSUME Mac!DrainInv, mac \in Mac!Attempts, mac' \in Mac!Attempts, MacStreamsKept,
           mac.closed # {} => mac'.child \in {"zombie", "reaped"},
           mac.probing => mac'.pc \in {"drain", "last", "cleanup", "await", "done"},
           mac'.pc \in {"verify", "classify"} => mac.closed = Mac!Streams
    PROVE  Mac!DrainInv'
<1>1. \A s \in Mac!Streams :
          /\ mac'.taken[s] <= mac'.sent[s]
          /\ mac'.taken[s] > Mac!Limit =>
                 s \in mac'.exceeded \union mac'.quiet \/ (mac'.probing /\ s = mac'.stream)
          /\ s \in mac'.closed => mac'.taken[s] = mac'.sent[s] \/ s \in mac'.exceeded
  BY DEF MacStreamsKept, Mac!DrainInv
<1> QED
  BY <1>1 DEF Mac!DrainInv, MacStreamsKept

\* An attempt that has not begun.
LEMMA MacStarts == mac = Mac!Start => Mac!AttemptIInv
BY FailuresAssumption, DriverAssumption
DEF Mac!Start, Mac!AttemptIInv, Mac!Attempts, Mac!Places, Mac!Alive, Mac!Streams,
    Mac!ChildInv, Mac!KillInv, Mac!DrainInv,
    Mac!ResultInv, Mac!Limit

\* The steps of the host that read nothing.
LEMMA MacHostPreserves ==
    Mac!AttemptIInv /\ (Mac!CheckLimits \/ Mac!Spawn \/ Mac!WriteInput \/ Mac!TestMemory
        \/ Mac!TestStreamsAndDeadline \/ Mac!WaitChild \/ Mac!More \/ Mac!VerifyGroupEmpty
        \/ Mac!Classify \/ Mac!CleanUp \/ Mac!Await) => Mac!AttemptIInv'
<1> SUFFICES ASSUME Mac!AttemptIInv, Mac!CheckLimits \/ Mac!Spawn \/ Mac!WriteInput
        \/ Mac!TestMemory \/ Mac!TestStreamsAndDeadline \/ Mac!WaitChild \/ Mac!More
        \/ Mac!VerifyGroupEmpty \/ Mac!Classify \/ Mac!CleanUp \/ Mac!Await
             PROVE Mac!AttemptIInv'
  OBVIOUS
<1> USE FailuresAssumption, DriverAssumption
    DEF Mac!AttemptIInv, Mac!Attempts, Mac!Places, Mac!Streams, Mac!Alive, Mac!Ended,
        Mac!At, Mac!Goto, Mac!Return, Mac!Draining,
        Mac!ChildInv, Mac!KillInv, Mac!ResultInv, MacStreamsKept
<1>1. CASE Mac!CheckLimits
  <2>1. CASE mac' = [mac EXCEPT !.pc = "spawn"]
    <3>1. mac' \in Mac!Attempts
      BY <1>1, <2>1 DEF Mac!CheckLimits
    <3>2. Mac!ChildInv' /\ Mac!KillInv' /\ Mac!ResultInv'
      BY <1>1, <2>1 DEF Mac!CheckLimits
    <3>3. Mac!DrainInv'
      BY <1>1, <2>1, <3>1, MacDrainKept DEF Mac!CheckLimits, Mac!DrainInv
    <3> QED
      BY <3>1, <3>2, <3>3
  <2>2. CASE mac' = [mac EXCEPT !.pc = "done", !.result = "error"]
    <3>1. mac' \in Mac!Attempts
      BY <1>1, <2>2 DEF Mac!CheckLimits
    <3>2. Mac!ChildInv' /\ Mac!KillInv' /\ Mac!ResultInv'
      BY <1>1, <2>2 DEF Mac!CheckLimits
    <3>3. Mac!DrainInv'
      BY <1>1, <2>2, <3>1, MacDrainKept DEF Mac!CheckLimits, Mac!DrainInv
    <3> QED
      BY <3>1, <3>2, <3>3
  <2> QED
    BY <1>1, <2>1, <2>2 DEF Mac!CheckLimits
<1>2. CASE Mac!Spawn
  <2>1. mac' \in Mac!Attempts
    BY <1>2 DEF Mac!Spawn
  <2>2. Mac!ChildInv' /\ Mac!KillInv' /\ Mac!ResultInv'
    BY <1>2 DEF Mac!Spawn, Mac!DrainInv
  <2>3. Mac!DrainInv'
    BY <1>2, <2>1, MacDrainKept DEF Mac!Spawn, Mac!DrainInv
  <2> QED
    BY <2>1, <2>2, <2>3
<1>3. CASE Mac!WriteInput
  <2>1. mac' \in Mac!Attempts
    BY <1>3 DEF Mac!WriteInput
  <2>2. Mac!ChildInv' /\ Mac!KillInv' /\ Mac!ResultInv'
    BY <1>3 DEF Mac!WriteInput, Mac!DrainInv
  <2>3. Mac!DrainInv'
    BY <1>3, <2>1, MacDrainKept DEF Mac!WriteInput, Mac!DrainInv
  <2> QED
    BY <2>1, <2>2, <2>3
<1>4. CASE Mac!TestMemory
  <2>1. CASE mac.heavy /\ mac.child \in Mac!Alive /\ mac.reason = "none"
    <3>1. mac' \in Mac!Attempts
      BY <1>4, <2>1 DEF Mac!TestMemory, Mac!KillFor
    <3>2. Mac!ChildInv' /\ Mac!KillInv' /\ Mac!ResultInv'
      BY <1>4, <2>1 DEF Mac!TestMemory, Mac!KillFor
    <3>3. Mac!DrainInv'
      BY <1>4, <2>1, <3>1, MacDrainKept DEF Mac!TestMemory, Mac!KillFor, Mac!DrainInv
    <3> QED
      BY <3>1, <3>2, <3>3
  <2>2. CASE ~(mac.heavy /\ mac.child \in Mac!Alive /\ mac.reason = "none")
    <3>1. mac' \in Mac!Attempts
      BY <1>4, <2>2 DEF Mac!TestMemory, Mac!KillFor
    <3>2. Mac!ChildInv' /\ Mac!KillInv' /\ Mac!ResultInv'
      BY <1>4, <2>2 DEF Mac!TestMemory, Mac!KillFor
    <3>3. Mac!DrainInv'
      BY <1>4, <2>2, <3>1, MacDrainKept DEF Mac!TestMemory, Mac!KillFor, Mac!DrainInv
    <3> QED
      BY <3>1, <3>2, <3>3
  <2> QED
    BY <1>4, <2>1, <2>2 DEF Mac!TestMemory, Mac!KillFor
<1>5. CASE Mac!TestStreamsAndDeadline
  <2>1. CASE mac.reason = "none" /\ mac.exceeded # {}
    <3>1. mac' \in Mac!Attempts
      BY <1>5, <2>1 DEF Mac!TestStreamsAndDeadline, Mac!KillFor
    <3>2. Mac!ChildInv' /\ Mac!KillInv' /\ Mac!ResultInv'
      BY <1>5, <2>1 DEF Mac!TestStreamsAndDeadline, Mac!KillFor
    <3>3. Mac!DrainInv'
      BY <1>5, <2>1, <3>1, MacDrainKept
      DEF Mac!TestStreamsAndDeadline, Mac!KillFor, Mac!DrainInv
    <3> QED
      BY <3>1, <3>2, <3>3
  <2>2. CASE mac.reason = "none" /\ mac.exceeded = {} /\ mac.late
    <3>1. mac' \in Mac!Attempts
      BY <1>5, <2>2, ZenonT(60) DEF Mac!TestStreamsAndDeadline, Mac!KillFor
    <3>2. Mac!ChildInv' /\ Mac!KillInv' /\ Mac!ResultInv'
      BY <1>5, <2>2 DEF Mac!TestStreamsAndDeadline, Mac!KillFor
    <3>3. Mac!DrainInv'
      BY <1>5, <2>2, <3>1, MacDrainKept
      DEF Mac!TestStreamsAndDeadline, Mac!KillFor, Mac!DrainInv
    <3> QED
      BY <3>1, <3>2, <3>3
  <2>3. CASE ~(mac.reason = "none" /\ (mac.exceeded # {} \/ mac.late))
    <3>0. mac.pc = "tests" /\ mac' = [mac EXCEPT !.pc = "wait"]
      BY <1>5, <2>3 DEF Mac!TestStreamsAndDeadline
    <3>1. mac' \in Mac!Attempts /\ Mac!ChildInv' /\ Mac!KillInv' /\ Mac!ResultInv'
      BY <3>0
    <3>2. Mac!DrainInv'
      BY <3>0, <3>1, MacDrainKept DEF Mac!DrainInv
    <3> QED
      BY <3>1, <3>2
  <2> QED
    BY <1>5, <2>1, <2>2, <2>3 DEF Mac!TestStreamsAndDeadline, Mac!KillFor
<1>6. CASE Mac!WaitChild
  <2>1. CASE mac.child = "zombie"
    <3>1. mac' \in Mac!Attempts
      BY <1>6, <2>1, ZenonT(60) DEF Mac!WaitChild
    <3>2. Mac!ChildInv' /\ Mac!KillInv' /\ Mac!ResultInv'
      BY <1>6, <2>1 DEF Mac!WaitChild
    <3>3. Mac!DrainInv'
      BY <1>6, <2>1, <3>1, MacDrainKept DEF Mac!WaitChild, Mac!DrainInv
    <3> QED
      BY <3>1, <3>2, <3>3
  <2>2. CASE mac.child # "zombie"
    <3>1. mac' \in Mac!Attempts
      BY <1>6, <2>2 DEF Mac!WaitChild
    <3>2. Mac!ChildInv' /\ Mac!KillInv' /\ Mac!ResultInv'
      BY <1>6, <2>2 DEF Mac!WaitChild
    <3>3. Mac!DrainInv'
      BY <1>6, <2>2, <3>1, MacDrainKept DEF Mac!WaitChild, Mac!DrainInv
    <3> QED
      BY <3>1, <3>2, <3>3
  <2> QED
    BY <1>6, <2>1, <2>2 DEF Mac!WaitChild
<1>7. CASE Mac!More
  <2>1. mac' \in Mac!Attempts
    BY <1>7 DEF Mac!More
  <2>2. Mac!ChildInv' /\ Mac!KillInv' /\ Mac!ResultInv'
    BY <1>7 DEF Mac!More, Mac!DrainInv
  <2>3. Mac!DrainInv'
    BY <1>7, <2>1, MacDrainKept DEF Mac!More, Mac!DrainInv
  <2> QED
    BY <2>1, <2>2, <2>3
<1>8. CASE Mac!VerifyGroupEmpty
  <2>1. mac' \in Mac!Attempts
    BY <1>8 DEF Mac!VerifyGroupEmpty
  <2>2. Mac!ChildInv' /\ Mac!KillInv' /\ Mac!ResultInv'
    BY <1>8 DEF Mac!VerifyGroupEmpty, Mac!DrainInv
  <2>3. Mac!DrainInv'
    BY <1>8, <2>1, MacDrainKept DEF Mac!VerifyGroupEmpty, Mac!DrainInv
  <2> QED
    BY <2>1, <2>2, <2>3
<1>9. CASE Mac!Classify
  <2>0. PICK t \in {"exited", "signaled", "deadlineKilled", "memoryLimitKilled"} :
             mac.pc = "classify" /\ mac' = [mac EXCEPT !.pc = "done", !.result = t]
    BY <1>9 DEF Mac!Classify, Mac!Termination
  <2>1. mac' \in Mac!Attempts
    BY <2>0
  <2>2. Mac!ChildInv' /\ Mac!KillInv' /\ Mac!ResultInv'
    BY <2>0 DEF Mac!DrainInv
  <2>3. Mac!DrainInv'
    BY <2>0, <2>1, MacDrainKept DEF Mac!DrainInv
  <2> QED
    BY <2>1, <2>2, <2>3
<1>10. CASE Mac!CleanUp
  <2>1. CASE mac.child = "reaped"
    <3>1. mac' \in Mac!Attempts
      BY <1>10, <2>1, ZenonT(60) DEF Mac!CleanUp
    <3>2. Mac!ChildInv' /\ Mac!KillInv' /\ Mac!ResultInv'
      BY <1>10, <2>1 DEF Mac!CleanUp
    <3>3. Mac!DrainInv'
      BY <1>10, <2>1, <3>1, MacDrainKept DEF Mac!CleanUp, Mac!DrainInv
    <3> QED
      BY <3>1, <3>2, <3>3
  <2>2. CASE mac.child # "reaped"
    <3>1. mac' \in Mac!Attempts
      BY <1>10, <2>2 DEF Mac!CleanUp
    <3>2. Mac!ChildInv' /\ Mac!KillInv' /\ Mac!ResultInv'
      BY <1>10, <2>2 DEF Mac!CleanUp
    <3>3. Mac!DrainInv'
      BY <1>10, <2>2, <3>1, MacDrainKept DEF Mac!CleanUp, Mac!DrainInv
    <3> QED
      BY <3>1, <3>2, <3>3
  <2> QED
    BY <1>10, <2>1, <2>2 DEF Mac!CleanUp
<1>11. CASE Mac!Await
  <2>1. mac' \in Mac!Attempts
    BY <1>11 DEF Mac!Await
  <2>2. Mac!ChildInv' /\ Mac!KillInv' /\ Mac!ResultInv'
    BY <1>11 DEF Mac!Await, Mac!DrainInv
  <2>3. Mac!DrainInv'
    BY <1>11, <2>1, MacDrainKept DEF Mac!Await, Mac!DrainInv
  <2> QED
    BY <2>1, <2>2, <2>3
<1> QED
  BY <1>1, <1>2, <1>3, <1>4, <1>5, <1>6, <1>7, <1>8, <1>9, <1>10, <1>11

\* Failures, the process, the kernel and the clock.
LEMMA MacRestPreserves ==
    Mac!AttemptIInv /\ (Mac!Fail \/ Mac!LauncherExecutes \/ Mac!PluginGrows \/ Mac!ChildEnds
        \/ Mac!KernelKills \/ Mac!DeadlinePasses \/ Mac!GracePasses) => Mac!AttemptIInv'
<1> SUFFICES ASSUME Mac!AttemptIInv, Mac!Fail \/ Mac!LauncherExecutes \/ Mac!PluginGrows
        \/ Mac!ChildEnds \/ Mac!KernelKills \/ Mac!DeadlinePasses \/ Mac!GracePasses
             PROVE Mac!AttemptIInv'
  OBVIOUS
<1> USE FailuresAssumption, DriverAssumption
    DEF Mac!AttemptIInv, Mac!Attempts, Mac!Places, Mac!Streams, Mac!Alive, Mac!Ended,
        Mac!At, Mac!Goto, Mac!Return, Mac!Draining,
        Mac!ChildInv, Mac!KillInv, Mac!ResultInv, MacStreamsKept
<1>1. CASE Mac!Fail
  <2>0. mac.failures + 1 \in 0 .. MaxFailures
    BY <1>1 DEF Mac!Fail
  <2>1. PICK p \in {"done", "cleanup"}, r \in {"error", mac.result}, f \in 0 .. MaxFailures :
            mac' = [mac EXCEPT !.failures = f, !.pc = p, !.result = r]
    BY <1>1, <2>0 DEF Mac!Fail
  <2>2. p \in Mac!Places
        /\ r \in {"none", "error", "exited", "signaled", "deadlineKilled",
             "memoryLimitKilled"}
    OBVIOUS
  <2>3. mac' \in Mac!Attempts
    BY <2>1, <2>2, ZenonT(60)
  <2>4. Mac!ChildInv' /\ Mac!KillInv' /\ Mac!ResultInv'
    BY <1>1 DEF Mac!Fail
  <2>5. Mac!DrainInv'
    BY <1>1, <2>3, MacDrainKept DEF Mac!Fail, Mac!DrainInv
  <2> QED
    BY <2>3, <2>4, <2>5
<1>2. CASE Mac!LauncherExecutes
  <2>1. mac' \in Mac!Attempts
    BY <1>2 DEF Mac!LauncherExecutes
  <2>2. Mac!ChildInv' /\ Mac!KillInv' /\ Mac!ResultInv'
    BY <1>2 DEF Mac!LauncherExecutes, Mac!DrainInv
  <2>3. Mac!DrainInv'
    BY <1>2, <2>1, MacDrainKept DEF Mac!LauncherExecutes, Mac!DrainInv
  <2> QED
    BY <2>1, <2>2, <2>3
<1>3. CASE Mac!PluginGrows
  <2>1. mac' \in Mac!Attempts
    BY <1>3 DEF Mac!PluginGrows
  <2>2. Mac!ChildInv' /\ Mac!KillInv' /\ Mac!ResultInv'
    BY <1>3 DEF Mac!PluginGrows, Mac!DrainInv
  <2>3. Mac!DrainInv'
    BY <1>3, <2>1, MacDrainKept DEF Mac!PluginGrows, Mac!DrainInv
  <2> QED
    BY <2>1, <2>2, <2>3
<1>4. CASE Mac!ChildEnds \/ Mac!KernelKills
  <2>0. PICK how \in {"exited", "signaled", "killed"} :
             /\ mac' = [mac EXCEPT !.child = "zombie", !.ended = how]
             /\ mac.child \in Mac!Alive /\ (how = "killed" => mac.killed)
    BY <1>4 DEF Mac!ChildEnds, Mac!KernelKills, Mac!EndChild
  <2>1. mac' \in Mac!Attempts
    BY <2>0
  <2>2. Mac!ChildInv' /\ Mac!KillInv' /\ Mac!ResultInv'
    BY <2>0 DEF Mac!DrainInv
  <2>3. Mac!DrainInv'
    BY <2>0, <2>1, MacDrainKept DEF Mac!DrainInv
  <2> QED
    BY <2>1, <2>2, <2>3
<1>5. CASE Mac!DeadlinePasses
  <2>1. mac' \in Mac!Attempts
    BY <1>5 DEF Mac!DeadlinePasses
  <2>2. Mac!ChildInv' /\ Mac!KillInv' /\ Mac!ResultInv'
    BY <1>5 DEF Mac!DeadlinePasses, Mac!DrainInv
  <2>3. Mac!DrainInv'
    BY <1>5, <2>1, MacDrainKept DEF Mac!DeadlinePasses, Mac!DrainInv
  <2> QED
    BY <2>1, <2>2, <2>3
<1>6. CASE Mac!GracePasses
  <2>1. mac' \in Mac!Attempts
    BY <1>6 DEF Mac!GracePasses
  <2>2. Mac!ChildInv' /\ Mac!KillInv' /\ Mac!ResultInv'
    BY <1>6 DEF Mac!GracePasses, Mac!DrainInv
  <2>3. Mac!DrainInv'
    BY <1>6, <2>1, MacDrainKept DEF Mac!GracePasses, Mac!DrainInv
  <2> QED
    BY <2>1, <2>2, <2>3
<1> QED
  BY <1>1, <1>2, <1>3, <1>4, <1>5, <1>6

\* Where a drain goes on when it is done with a stream.
LEMMA MacAfterDrain ==
    ASSUME mac \in Mac!Attempts, Mac!Draining
    PROVE  \E s \in Mac!Streams, p \in Mac!Places :
              /\ Mac!AfterDrain = [mac EXCEPT !.stream = s, !.pc = p]
              /\ p = mac.pc \/ (p = "input" /\ mac.pc = "drain") \/ (p = "closing"
                   /\ mac.pc = "last")
<1>1. CASE mac.stream = "stdout"
  <2>1. Mac!AfterDrain = [mac EXCEPT !.stream = "stderr", !.pc = mac.pc]
    BY <1>1 DEF Mac!AfterDrain, Mac!Attempts
  <2> QED BY <2>1 DEF Mac!Attempts, Mac!Streams
<1>2. CASE mac.stream # "stdout"
  BY <1>2 DEF Mac!AfterDrain, Mac!At, Mac!Streams, Mac!Attempts, Mac!Draining, Mac!Places
<1> QED BY <1>1, <1>2

\* A drain that has nothing to do.
LEMMA MacDrainSkips == Mac!AttemptIInv /\ Mac!DrainSkips => Mac!AttemptIInv'
<1> SUFFICES ASSUME Mac!AttemptIInv, Mac!DrainSkips PROVE Mac!AttemptIInv'
  OBVIOUS
<1>0. mac \in Mac!Attempts /\ Mac!Draining /\ ~mac.probing /\ Mac!ChildInv /\ Mac!KillInv
          /\ Mac!DrainInv /\ Mac!ResultInv
  BY DEF Mac!AttemptIInv, Mac!DrainSkips
<1>1. PICK s \in Mac!Streams, p \in Mac!Places : 
         mac' = [mac EXCEPT !.stream = s, !.pc = p] /\ (p = mac.pc \/ (p = "input"
             /\ mac.pc = "drain") \/ (p = "closing" /\ mac.pc = "last"))
  BY <1>0, MacAfterDrain DEF Mac!DrainSkips
<1>2. mac' \in Mac!Attempts
  BY <1>0, <1>1 DEF Mac!Attempts
<1>3. Mac!ChildInv' /\ Mac!KillInv' /\ Mac!ResultInv'
  BY <1>0, <1>1 DEF Mac!Attempts, Mac!ChildInv, Mac!KillInv, Mac!ResultInv, Mac!Draining
<1>4. Mac!DrainInv'
  BY <1>0, <1>1 DEF Mac!Attempts, Mac!DrainInv, Mac!Draining
<1> QED
  BY <1>2, <1>3, <1>4 DEF Mac!AttemptIInv

\* A read that finds nothing: of an ended process that is the end of the stream.
LEMMA MacReadNothing == Mac!AttemptIInv /\ Mac!ReadNothing => Mac!AttemptIInv'
<1> SUFFICES ASSUME Mac!AttemptIInv, Mac!ReadNothing PROVE Mac!AttemptIInv'
  OBVIOUS
<1>0. mac \in Mac!Attempts /\ Mac!Draining /\ ~mac.probing /\ Mac!ChildInv /\ Mac!KillInv
          /\ Mac!DrainInv /\ Mac!ResultInv
  BY DEF Mac!AttemptIInv, Mac!ReadNothing
<1>1. PICK s \in Mac!Streams, p \in Mac!Places : 
         /\ Mac!AfterDrain = [mac EXCEPT !.stream = s, !.pc = p] 
         /\ (p = mac.pc \/ (p = "input" /\ mac.pc = "drain") \/ (p = "closing"
              /\ mac.pc = "last"))
  BY <1>0, MacAfterDrain
<1>2. PICK c \in SUBSET Mac!Streams :
         /\ c = mac.closed \/ (Mac!Ended /\ c = mac.closed \union {mac.stream})
         /\ mac' = [mac EXCEPT !.stream = s, !.pc = p, !.closed = c]
  BY <1>0, <1>1 DEF Mac!ReadNothing, Mac!Attempts
<1>3. mac' \in Mac!Attempts
  BY <1>0, <1>1, <1>2 DEF Mac!Attempts
<1>4. Mac!ChildInv' /\ Mac!KillInv' /\ Mac!ResultInv'
  BY <1>0, <1>1, <1>2 DEF Mac!Attempts, Mac!ChildInv, Mac!KillInv, Mac!ResultInv, Mac!Draining
<1>5. mac.taken[mac.stream] = mac.sent[mac.stream]
  BY <1>0, DriverAssumption DEF Mac!ReadNothing, Mac!InPipe, Mac!Attempts
<1>6. Mac!DrainInv'
  BY <1>0, <1>1, <1>2, <1>5
  DEF Mac!Attempts, Mac!DrainInv, Mac!Draining, Mac!ChildInv, Mac!Ended, Mac!Alive
<1> QED
  BY <1>3, <1>4, <1>6 DEF Mac!AttemptIInv

\* A read that takes what is there; it reaches the limit or is within it.
LEMMA MacReadSome == Mac!AttemptIInv /\ Mac!ReadSome => Mac!AttemptIInv'
<1> SUFFICES ASSUME Mac!AttemptIInv, Mac!ReadSome PROVE Mac!AttemptIInv'
  OBVIOUS
<1>0. mac \in Mac!Attempts /\ Mac!Draining /\ ~mac.probing /\ Mac!ChildInv /\ Mac!KillInv
          /\ Mac!DrainInv /\ Mac!ResultInv
  BY DEF Mac!AttemptIInv, Mac!ReadSome
<1>1. PICK count \in 1 .. Mac!InPipe : 
          mac' = [mac EXCEPT !.taken[mac.stream] = @ + count,
                             !.probing = mac.taken[mac.stream] + count >= Mac!Limit]
  BY DEF Mac!ReadSome
<1>2. /\ mac.stream \in Mac!Streams
      /\ mac.taken \in [Mac!Streams -> 0 .. MaxOutput]
           /\ mac.sent \in [Mac!Streams -> 0 .. MaxOutput]
  BY <1>0 DEF Mac!Attempts
<1>3. mac.taken[mac.stream] + count \in 0 .. MaxOutput
          /\ mac.taken[mac.stream] + count <= mac.sent[mac.stream]
  BY <1>2, DriverAssumption DEF Mac!InPipe
<1> DEFINE t == [mac.taken EXCEPT ![mac.stream] = @ + count]
           b == mac.taken[mac.stream] + count >= Mac!Limit
<1>4. t \in [Mac!Streams -> 0 .. MaxOutput] /\ b \in BOOLEAN
  BY <1>2, <1>3
<1>5. mac' = [mac EXCEPT !.taken = t, !.probing = b]
  BY <1>0, <1>1 DEF Mac!Attempts
<1>6. \A s \in Mac!Streams :
          /\ t[s] = IF s = mac.stream THEN mac.taken[s] + count ELSE mac.taken[s]
          /\ t[s] <= mac.sent[s]
  BY <1>0, <1>2, <1>3 DEF Mac!DrainInv
<1>62. \A s \in Mac!Streams : t[s] > Mac!Limit /\ ~(b /\ s = mac.stream)
           => s \in mac.exceeded \union mac.quiet
  BY <1>0, <1>2, <1>3, <1>6 DEF Mac!DrainInv, Mac!Limit
<1>63. \A s \in Mac!Streams : s \in mac.closed => t[s] = mac.sent[s] \/ s \in mac.exceeded
  BY <1>0, <1>2, <1>3, <1>6 DEF Mac!DrainInv, Mac!ReadSome
<1> HIDE DEF t, b
<1>7. mac' \in Mac!Attempts
  BY <1>0, <1>4, <1>5 DEF Mac!Attempts
<1>8. Mac!ChildInv' /\ Mac!KillInv' /\ Mac!ResultInv'
  BY <1>0, <1>5 DEF Mac!Attempts, Mac!ChildInv, Mac!KillInv, Mac!ResultInv, Mac!Draining
<1>9. Mac!DrainInv'
  BY <1>0, <1>5, <1>6, <1>62, <1>63 DEF Mac!Attempts, Mac!DrainInv, Mac!Draining
<1> QED
  BY <1>7, <1>8, <1>9 DEF Mac!AttemptIInv
\* The probe: what is behind the limit is known now, or was not there.
LEMMA MacProbe == Mac!AttemptIInv /\ Mac!Probe => Mac!AttemptIInv'
<1> SUFFICES ASSUME Mac!AttemptIInv, Mac!Probe PROVE Mac!AttemptIInv'
  OBVIOUS
<1>0. mac \in Mac!Attempts /\ Mac!Draining /\ mac.probing /\ Mac!ChildInv /\ Mac!KillInv
          /\ Mac!DrainInv /\ Mac!ResultInv
  BY DEF Mac!AttemptIInv, Mac!Probe
<1>1. /\ mac.stream \in Mac!Streams
      /\ mac.taken \in [Mac!Streams -> 0 .. MaxOutput]
           /\ mac.sent \in [Mac!Streams -> 0 .. MaxOutput]
      /\ mac.exceeded \subseteq Mac!Streams
  BY <1>0 DEF Mac!Attempts
<1>2. CASE Mac!InPipe > 0
  <2>1. PICK s \in Mac!Streams, p \in Mac!Places : 
         /\ Mac!AfterDrain = [mac EXCEPT !.stream = s, !.pc = p] 
         /\ (p = mac.pc \/ (p = "input" /\ mac.pc = "drain") \/ (p = "closing"
              /\ mac.pc = "last"))
    BY <1>0, MacAfterDrain
  <2> DEFINE t == [mac.taken EXCEPT ![mac.stream] = @ + 1]
             e == mac.exceeded \union {mac.stream}
  <2>2. mac.taken[mac.stream] + 1 \in 0 .. MaxOutput
            /\ mac.taken[mac.stream] + 1 <= mac.sent[mac.stream]
    BY <1>1, <1>2, DriverAssumption DEF Mac!InPipe
  <2>3. t \in [Mac!Streams -> 0 .. MaxOutput] /\ e \subseteq Mac!Streams
    BY <1>1, <2>2
  <2>4. mac' = [mac EXCEPT !.stream = s, !.pc = p, !.taken = t, !.probing = FALSE,
            !.exceeded = e]
    BY <1>0, <1>2, <2>1 DEF Mac!Probe, Mac!Attempts
  <2>5. \A q \in Mac!Streams :
            /\ t[q] = IF q = mac.stream THEN mac.taken[q] + 1 ELSE mac.taken[q]
            /\ t[q] <= mac.sent[q]
    BY <1>0, <1>1, <2>2 DEF Mac!DrainInv
  <2>6. \A q \in Mac!Streams : t[q] > Mac!Limit => q \in e \union mac.quiet
    BY <1>0, <2>5 DEF Mac!DrainInv
  <2>7. \A q \in Mac!Streams : q \in mac.closed => t[q] = mac.sent[q] \/ q \in e
    BY <1>0, <2>5 DEF Mac!DrainInv
  <2>8. mac.exceeded \subseteq e
    OBVIOUS
  <2> HIDE DEF t, e
  <2>9. mac' \in Mac!Attempts
    BY <1>0, <2>1, <2>3, <2>4 DEF Mac!Attempts
  <2>10. Mac!ChildInv' /\ Mac!KillInv' /\ Mac!ResultInv'
    BY <1>0, <2>1, <2>4, <2>8
    DEF Mac!Attempts, Mac!ChildInv, Mac!KillInv, Mac!ResultInv, Mac!Draining
  <2>11. Mac!DrainInv'
    BY <1>0, <2>1, <2>4, <2>5, <2>6, <2>7 DEF Mac!Attempts, Mac!DrainInv, Mac!Draining
  <2> QED BY <2>9, <2>10, <2>11 DEF Mac!AttemptIInv
<1>3. CASE ~(Mac!InPipe > 0)
  <2> DEFINE c == IF Mac!Ended THEN mac.closed \union {mac.stream} ELSE mac.closed
             u == IF mac.taken[mac.stream] > Mac!Limit
                  THEN mac.quiet \union {mac.stream} ELSE mac.quiet
  <2>1. /\ c \subseteq Mac!Streams /\ u \subseteq Mac!Streams
        /\ c = mac.closed \/ (Mac!Ended /\ c = mac.closed \union {mac.stream})
        /\ mac.quiet \subseteq u /\ (mac.taken[mac.stream] > Mac!Limit => mac.stream \in u)
        /\ mac' = [mac EXCEPT !.probing = FALSE, !.quiet = u, !.closed = c]
    BY <1>0, <1>1, <1>3 DEF Mac!Probe, Mac!Attempts
  <2> HIDE DEF c, u
  <2>2. mac.taken[mac.stream] = mac.sent[mac.stream]
    BY <1>0, <1>1, <1>3, DriverAssumption DEF Mac!InPipe, Mac!DrainInv
  <2>3. mac' \in Mac!Attempts
    BY <1>0, <2>1 DEF Mac!Attempts
  <2>4. Mac!ChildInv' /\ Mac!KillInv' /\ Mac!ResultInv'
    BY <1>0, <2>1 DEF Mac!Attempts, Mac!ChildInv, Mac!KillInv, Mac!ResultInv, Mac!Draining
  <2>5. Mac!DrainInv'
    BY <1>0, <2>1, <2>2
    DEF Mac!Attempts, Mac!DrainInv, Mac!Draining, Mac!ChildInv, Mac!Ended, Mac!Alive
  <2> QED BY <2>3, <2>4, <2>5 DEF Mac!AttemptIInv
<1> QED
  BY <1>2, <1>3 

\* What is past its limit is closed.
LEMMA MacCloseExceeded == Mac!AttemptIInv /\ Mac!CloseExceeded => Mac!AttemptIInv'
<1> SUFFICES ASSUME Mac!AttemptIInv, Mac!CloseExceeded PROVE Mac!AttemptIInv'
  OBVIOUS
<1>0. mac \in Mac!Attempts /\ mac.pc = "closing" /\ Mac!ChildInv /\ Mac!KillInv
          /\ Mac!DrainInv /\ Mac!ResultInv
  BY DEF Mac!AttemptIInv, Mac!CloseExceeded, Mac!At
<1>1. PICK p \in {"cleanup",
          "more"} : mac' = [mac EXCEPT !.closed = mac.closed \union mac.exceeded, !.pc = p]
  BY DEF Mac!CloseExceeded
<1>2. mac' \in Mac!Attempts
  BY <1>0, <1>1 DEF Mac!Attempts, Mac!Places
<1>3. Mac!ChildInv' /\ Mac!KillInv' /\ Mac!ResultInv'
  BY <1>0, <1>1 DEF Mac!Attempts, Mac!ChildInv, Mac!KillInv, Mac!ResultInv
<1>4. Mac!DrainInv'
  BY <1>0, <1>1 DEF Mac!Attempts, Mac!DrainInv, Mac!ChildInv
<1> QED
  BY <1>2, <1>3, <1>4 DEF Mac!AttemptIInv

\* A plugin that writes has not ended, and no stream of it is closed.
LEMMA MacPluginWrites == Mac!AttemptIInv /\ Mac!PluginWrites => Mac!AttemptIInv'
<1> SUFFICES ASSUME Mac!AttemptIInv, Mac!PluginWrites PROVE Mac!AttemptIInv'
  OBVIOUS
<1>0. mac \in Mac!Attempts /\ mac.child = "running" /\ Mac!ChildInv /\ Mac!KillInv
          /\ Mac!DrainInv /\ Mac!ResultInv
  BY DEF Mac!AttemptIInv, Mac!PluginWrites
<1>1. PICK s \in Mac!Streams : mac' = [mac EXCEPT !.sent[s] = @ + 1]
  BY DEF Mac!PluginWrites
<1>2. mac.taken \in [Mac!Streams -> 0 .. MaxOutput]
          /\ mac.sent \in [Mac!Streams -> 0 .. MaxOutput]
  BY <1>0 DEF Mac!Attempts
<1> DEFINE t == [mac.sent EXCEPT ![s] = @ + 1]
<1>3. mac.sent[s] + 1 \in 0 .. MaxOutput
  BY <1>2, DriverAssumption DEF Mac!PluginWrites, Mac!Streams
<1>4. t \in [Mac!Streams -> 0 .. MaxOutput] /\ \A q \in Mac!Streams : mac.taken[q] <= t[q]
  BY <1>0, <1>2, <1>3, DriverAssumption DEF Mac!DrainInv
<1>5. mac' = [mac EXCEPT !.sent = t]
  BY <1>0, <1>1 DEF Mac!Attempts
<1> HIDE DEF t
<1>6. mac' \in Mac!Attempts
  BY <1>0, <1>4, <1>5 DEF Mac!Attempts
<1>7. Mac!ChildInv' /\ Mac!KillInv' /\ Mac!ResultInv'
  BY <1>0, <1>5 DEF Mac!Attempts, Mac!ChildInv, Mac!KillInv, Mac!ResultInv
<1>8. Mac!DrainInv'
  BY <1>0, <1>4, <1>5 DEF Mac!Attempts, Mac!DrainInv
<1> QED
  BY <1>6, <1>7, <1>8 DEF Mac!AttemptIInv

MacStep ==
    Mac!Host \/ Mac!Fail \/ Mac!Child \/ Mac!KernelKills \/ Mac!DeadlinePasses
        \/ Mac!GracePasses

\* Every step of the macOS kernel keeps its invariant.
LEMMA MacPreserves == Mac!AttemptIInv /\ MacStep => Mac!AttemptIInv'
BY MacHostPreserves, MacRestPreserves, MacDrainSkips, MacReadNothing, MacReadSome, MacProbe,
   MacCloseExceeded, MacPluginWrites
DEF MacStep, Mac!Host, Mac!Child

-------------------------------------------------------------------------------
(* Windows *)

\* An attempt that has not begun.
LEMMA WindowsStarts == win = Windows!Start => Windows!AttemptIInv
BY FailuresAssumption
DEF Windows!Start, Windows!AttemptIInv, Windows!Attempts, Windows!Places, Windows!Alive,
    Windows!Streams, Windows!ProcessInv, Windows!KillInv,
    Windows!DrainInv, Windows!ResultInv, Windows!Gone

\* What a return leaves is an attempt.
LEMMA WindowsReturns ==
    ASSUME win \in Windows!Attempts, NEW f \in 0 .. MaxFailures + 1,
           NEW t \in {"none", "error", "exited", "deadlineKilled", "memoryLimitKilled"}
    PROVE  /\ [win EXCEPT !.pc = "done", !.result = t, !.jobOpen = FALSE] \in Windows!Attempts
           /\ [win EXCEPT !.pc = "done", !.result = t, !.jobOpen = FALSE, !.failures = f]
                  \in Windows!Attempts
<1>1. [win EXCEPT !.pc = "done", !.result = t, !.jobOpen = FALSE] \in Windows!Attempts
  BY ZenonT(60) DEF Windows!Attempts, Windows!Places
<1>2. [win EXCEPT !.pc = "done", !.result = t, !.jobOpen = FALSE, !.failures = f]
          \in Windows!Attempts
  BY ZenonT(60) DEF Windows!Attempts, Windows!Places
<1> QED
  BY <1>1, <1>2

\* The three kills of the watch.
LEMMA WindowsKills ==
    ASSUME Windows!AttemptIInv, win.pc \in {"notices", "streams", "deadline"},
           NEW why \in {"memory", "stream", "deadline"}, NEW notice \in {FALSE, win.notice},
           NEW p \in {"streams", "wait", "grace"},
           why = "memory" => win.violated,
           why = "stream" => win.exceeded # {},
           why = "deadline" => win.late,
           win' = [win EXCEPT !.killed = TRUE, !.reasons = win.reasons \union {why},
                              !.overdue = FALSE, !.notice = notice, !.pc = p]
    PROVE  Windows!AttemptIInv'
<1>1. /\ win \in Windows!Attempts /\ Windows!ProcessInv /\ Windows!KillInv
      /\ Windows!DrainInv /\ Windows!ResultInv
  BY DEF Windows!AttemptIInv
<1>2. PICK r \in SUBSET {"memory", "stream", "deadline"} : r = win.reasons \union {why}
  BY <1>1 DEF Windows!Attempts
<1>3. p \in Windows!Places /\ notice \in BOOLEAN
  BY <1>1 DEF Windows!Attempts, Windows!Places
<1>4. win' = [win EXCEPT !.killed = TRUE, !.reasons = r, !.overdue = FALSE,
                         !.notice = notice, !.pc = p]
  BY <1>2
<1>5. win' \in Windows!Attempts
  BY <1>1, <1>3, <1>4, ZenonT(60) DEF Windows!Attempts
<1>6. Windows!ProcessInv'
  BY <1>1, <1>4 DEF Windows!Attempts, Windows!ProcessInv, Windows!Gone
<1>7. Windows!KillInv'
  <2>1. /\ win'.killed /\ win'.reasons = r /\ win'.pc = p /\ win'.notice = notice
        /\ win'.ended = win.ended /\ win'.violated = win.violated /\ win'.late = win.late
        /\ win'.exceeded = win.exceeded
    BY <1>1, <1>4 DEF Windows!Attempts
  <2>2. r # {} /\ (notice => win.notice)
    BY <1>2
  <2>3. \A x \in r : x = why \/ x \in win.reasons
    BY <1>2
  <2> QED
    BY <1>1, <2>1, <2>2, <2>3 DEF Windows!KillInv
<1>8. Windows!DrainInv'
  BY <1>1, <1>4 DEF Windows!Attempts, Windows!DrainInv, Windows!Gone
<1>9. Windows!ResultInv'
  BY <1>1, <1>4 DEF Windows!Attempts, Windows!ResultInv, Windows!Gone
<1> QED
  BY <1>5, <1>6, <1>7, <1>8, <1>9 DEF Windows!AttemptIInv

\* From the job to the running process.
LEMMA WindowsSetUp ==
    Windows!AttemptIInv /\ (Windows!CheckLoopback \/ Windows!CreateSuspended
        \/ Windows!Assign \/ Windows!Resume \/ Windows!SpawnWriter \/ Windows!Terminate
        \/ Windows!Reap) => Windows!AttemptIInv'
<1> SUFFICES ASSUME Windows!AttemptIInv, Windows!CheckLoopback \/ Windows!CreateSuspended
        \/ Windows!Assign \/ Windows!Resume \/ Windows!SpawnWriter \/ Windows!Terminate
        \/ Windows!Reap
             PROVE Windows!AttemptIInv'
  OBVIOUS
<1>0. win \in Windows!Attempts /\ Windows!ProcessInv /\ Windows!KillInv /\ Windows!DrainInv
          /\ Windows!ResultInv
  BY DEF Windows!AttemptIInv
<1> USE FailuresAssumption, <1>0 DEF Windows!Alive, Windows!Gone, Windows!At, Windows!Goto,
                                     Windows!Return, Windows!Draining
<1>1. CASE Windows!CheckLoopback
  <2>1. CASE win' = [win EXCEPT !.pc = "create"]
    <3>1. win' \in Windows!Attempts
      BY <1>1, <2>1
      DEF Windows!Attempts, Windows!Places, Windows!Streams, Windows!CheckLoopback
    <3>2. Windows!ProcessInv' /\ Windows!KillInv'
      BY <1>1, <2>1
      DEF Windows!Attempts, Windows!ProcessInv, Windows!KillInv, Windows!CheckLoopback
    <3>3. Windows!DrainInv' /\ Windows!ResultInv'
      BY <1>1, <2>1
      DEF Windows!Attempts, Windows!ProcessInv, Windows!DrainInv, Windows!ResultInv,
          Windows!Streams, Windows!CheckLoopback
    <3> QED
      BY <3>1, <3>2, <3>3 DEF Windows!AttemptIInv
  <2>2. CASE win' = Windows!Return("error")
    <3>1. win' \in Windows!Attempts
      BY <1>1, <2>2
      DEF Windows!Attempts, Windows!Places, Windows!Streams, Windows!CheckLoopback
    <3>2. Windows!ProcessInv' /\ Windows!KillInv'
      BY <1>1, <2>2
      DEF Windows!Attempts, Windows!ProcessInv, Windows!KillInv, Windows!CheckLoopback
    <3>3. Windows!DrainInv' /\ Windows!ResultInv'
      BY <1>1, <2>2
      DEF Windows!Attempts, Windows!ProcessInv, Windows!DrainInv, Windows!ResultInv,
          Windows!Streams, Windows!CheckLoopback
    <3> QED
      BY <3>1, <3>2, <3>3 DEF Windows!AttemptIInv
  <2> QED
    BY <1>1, <2>1, <2>2 DEF Windows!CheckLoopback
<1>2. CASE Windows!CreateSuspended
  <2>1. win' \in Windows!Attempts
    BY <1>2 DEF Windows!Attempts, Windows!Places, Windows!Streams, Windows!CreateSuspended
  <2>2. Windows!ProcessInv' /\ Windows!KillInv'
    BY <1>2 DEF Windows!Attempts, Windows!ProcessInv, Windows!KillInv, Windows!CreateSuspended
  <2>3. Windows!DrainInv' /\ Windows!ResultInv'
    BY <1>2 DEF Windows!Attempts, Windows!ProcessInv, Windows!DrainInv, Windows!ResultInv,
      Windows!Streams, Windows!CreateSuspended
  <2> QED
    BY <2>1, <2>2, <2>3 DEF Windows!AttemptIInv
<1>3. CASE Windows!Assign
  <2>1. win' \in Windows!Attempts
    BY <1>3 DEF Windows!Attempts, Windows!Places, Windows!Streams, Windows!Assign
  <2>2. Windows!ProcessInv' /\ Windows!KillInv'
    BY <1>3 DEF Windows!Attempts, Windows!ProcessInv, Windows!KillInv, Windows!Assign
  <2>3. Windows!DrainInv' /\ Windows!ResultInv'
    BY <1>3 DEF Windows!Attempts, Windows!ProcessInv, Windows!DrainInv, Windows!ResultInv,
      Windows!Streams, Windows!Assign
  <2> QED
    BY <2>1, <2>2, <2>3 DEF Windows!AttemptIInv
<1>4. CASE Windows!Resume
  <2>1. win' \in Windows!Attempts
    BY <1>4 DEF Windows!Attempts, Windows!Places, Windows!Streams, Windows!Resume
  <2>2. Windows!ProcessInv' /\ Windows!KillInv'
    BY <1>4 DEF Windows!Attempts, Windows!ProcessInv, Windows!KillInv, Windows!Resume
  <2>3. Windows!DrainInv' /\ Windows!ResultInv'
    BY <1>4 DEF Windows!Attempts, Windows!ProcessInv, Windows!DrainInv, Windows!ResultInv,
      Windows!Streams, Windows!Resume
  <2> QED
    BY <2>1, <2>2, <2>3 DEF Windows!AttemptIInv
<1>5. CASE Windows!SpawnWriter
  <2>1. win' \in Windows!Attempts
    BY <1>5, ZenonT(60)
    DEF Windows!Attempts, Windows!Places, Windows!Streams, Windows!SpawnWriter
  <2>2. Windows!ProcessInv' /\ Windows!KillInv'
    BY <1>5 DEF Windows!Attempts, Windows!ProcessInv, Windows!KillInv, Windows!SpawnWriter
  <2>3. Windows!DrainInv' /\ Windows!ResultInv'
    BY <1>5 DEF Windows!Attempts, Windows!ProcessInv, Windows!DrainInv, Windows!ResultInv,
      Windows!Streams, Windows!SpawnWriter
  <2> QED
    BY <2>1, <2>2, <2>3 DEF Windows!AttemptIInv
<1>6. CASE Windows!Terminate
  <2>1. win' \in Windows!Attempts
    BY <1>6 DEF Windows!Attempts, Windows!Places, Windows!Streams, Windows!Terminate
  <2>2. Windows!ProcessInv' /\ Windows!KillInv'
    BY <1>6 DEF Windows!Attempts, Windows!ProcessInv, Windows!KillInv, Windows!Terminate
  <2>3. Windows!DrainInv' /\ Windows!ResultInv'
    BY <1>6 DEF Windows!Attempts, Windows!ProcessInv, Windows!DrainInv, Windows!ResultInv,
      Windows!Streams, Windows!Terminate
  <2> QED
    BY <2>1, <2>2, <2>3 DEF Windows!AttemptIInv
<1>7. CASE Windows!Reap
  <2>1. win' \in Windows!Attempts
    BY <1>7, ZenonT(60) DEF Windows!Attempts, Windows!Places, Windows!Streams, Windows!Reap
  <2>2. Windows!ProcessInv' /\ Windows!KillInv'
    BY <1>7 DEF Windows!Attempts, Windows!ProcessInv, Windows!KillInv, Windows!Reap
  <2>3. Windows!DrainInv' /\ Windows!ResultInv'
    BY <1>7 DEF Windows!Attempts, Windows!ProcessInv, Windows!DrainInv, Windows!ResultInv,
      Windows!Streams, Windows!Reap
  <2> QED
    BY <2>1, <2>2, <2>3 DEF Windows!AttemptIInv
<1> QED
  BY <1>1, <1>2, <1>3, <1>4, <1>5, <1>6, <1>7

\* Supervision, and what follows it.
LEMMA WindowsWatches ==
    Windows!AttemptIInv /\ (Windows!PeekNothing \/ Windows!ReadSome \/ Windows!TakeNotices
        \/ Windows!TestStreams \/ Windows!WaitProcess \/ Windows!TestDeadline
        \/ Windows!TestGrace \/ Windows!JoinWriter \/ Windows!Observe \/ Windows!Classify
        \/ Windows!CleanUp \/ Windows!CleanUpReap \/ Windows!JoinLast)
        => Windows!AttemptIInv'
<1> SUFFICES ASSUME Windows!AttemptIInv, Windows!PeekNothing \/ Windows!ReadSome
        \/ Windows!TakeNotices \/ Windows!TestStreams \/ Windows!WaitProcess
        \/ Windows!TestDeadline \/ Windows!TestGrace \/ Windows!JoinWriter
        \/ Windows!Observe \/ Windows!Classify \/ Windows!CleanUp \/ Windows!CleanUpReap
        \/ Windows!JoinLast
             PROVE Windows!AttemptIInv'
  OBVIOUS
<1>0. win \in Windows!Attempts /\ Windows!ProcessInv /\ Windows!KillInv /\ Windows!DrainInv
          /\ Windows!ResultInv
  BY DEF Windows!AttemptIInv
<1> USE FailuresAssumption, <1>0 DEF Windows!Alive, Windows!Gone, Windows!At, Windows!Goto,
                                     Windows!Return, Windows!Draining
<1>1. CASE Windows!PeekNothing
  <2>1. PICK s \in Windows!Streams, p \in Windows!Places, c \in SUBSET Windows!Streams :
            /\ win' = [win EXCEPT !.stream = s, !.pc = p, !.closed = c]
            /\ c = win.closed \/ (Windows!Gone /\ c = win.closed \union {win.stream})
            /\ win.stream = "stdout" => s = "stderr" /\ p = win.pc
            /\ win.stream = "stderr" =>
                   s = "stdout" /\ p = IF win.pc = "drain" THEN "notices" ELSE "observe"
    <3> DEFINE c == IF Windows!Gone THEN win.closed \union {win.stream} ELSE win.closed
    <3>1. c \in SUBSET Windows!Streams /\ win.pc \in Windows!Places
              /\ win.stream \in {"stdout", "stderr"}
      BY DEF Windows!Attempts, Windows!Streams
    <3>2. c = win.closed \/ (Windows!Gone /\ c = win.closed \union {win.stream})
      OBVIOUS
    <3>3. CASE win.stream = "stdout"
      <4>1. win' = [win EXCEPT !.stream = "stderr", !.pc = win.pc, !.closed = c]
        BY <1>1, <3>3 DEF Windows!PeekNothing, Windows!AfterDrain, Windows!Attempts
      <4> QED
        BY <3>1, <3>2, <3>3, <4>1 DEF Windows!Streams
    <3>4. CASE win.stream = "stderr"
      <4> DEFINE p == IF win.pc = "drain" THEN "notices" ELSE "observe"
      <4>1. win' = [win EXCEPT !.stream = "stdout", !.pc = p, !.closed = c]
        BY <1>1, <3>4 DEF Windows!PeekNothing, Windows!AfterDrain, Windows!Attempts
      <4>2. p \in Windows!Places
        BY DEF Windows!Places
      <4> QED
        BY <3>1, <3>2, <3>4, <4>1, <4>2 DEF Windows!Streams
    <3> QED
      BY <3>1, <3>3, <3>4
  <2>2. win.pc \in {"drain", "last"} /\ (win.stream \in win.closed
            \/ win.stream \notin win.waiting)
    BY <1>1 DEF Windows!PeekNothing
  <2>3. win' = [win EXCEPT !.stream = s, !.pc = p, !.closed = c]
    BY <2>1
  <2>4. win' \in Windows!Attempts
    BY <2>3 DEF Windows!Attempts
  <2>5. Windows!ProcessInv'
    BY <2>1, <2>2, <2>3 DEF Windows!Attempts, Windows!ProcessInv, Windows!Streams
  <2>6. Windows!KillInv'
    BY <2>1, <2>2, <2>3 DEF Windows!Attempts, Windows!KillInv, Windows!Streams
  <2>7. Windows!DrainInv'
    BY <2>1, <2>2, <2>3
    DEF Windows!Attempts, Windows!DrainInv, Windows!Streams, Windows!ProcessInv
  <2>8. Windows!ResultInv'
    BY <2>1, <2>2, <2>3 DEF Windows!Attempts, Windows!ResultInv, Windows!Streams
  <2> QED
    BY <2>4, <2>5, <2>6, <2>7, <2>8 DEF Windows!AttemptIInv
<1>2. CASE Windows!ReadSome
  <2>1. win' \in Windows!Attempts
    BY <1>2 DEF Windows!Attempts, Windows!Places, Windows!Streams, Windows!ReadSome
  <2>2. Windows!ProcessInv' /\ Windows!KillInv'
    BY <1>2 DEF Windows!Attempts, Windows!ProcessInv, Windows!KillInv, Windows!ReadSome
  <2>3. Windows!DrainInv' /\ Windows!ResultInv'
    BY <1>2 DEF Windows!Attempts, Windows!ProcessInv, Windows!DrainInv, Windows!ResultInv,
      Windows!Streams, Windows!ReadSome
  <2> QED
    BY <2>1, <2>2, <2>3 DEF Windows!AttemptIInv
<1>3. CASE Windows!TakeNotices
  <2>0. win.pc = "notices"
    BY <1>3 DEF Windows!TakeNotices
  <2>1. CASE win.notice /\ win.reasons = {}
    <3>1. win' = [win EXCEPT !.killed = TRUE, !.reasons = win.reasons \union {"memory"},
                             !.overdue = FALSE, !.notice = FALSE, !.pc = "streams"]
      BY <1>3, <2>1 DEF Windows!TakeNotices, Windows!KillFor, Windows!Attempts
    <3> QED
      BY <2>0, <2>1, <3>1, WindowsKills DEF Windows!Attempts, Windows!KillInv
  <2>2. CASE ~(win.notice /\ win.reasons = {})
    <3>1. win' = [win EXCEPT !.notice = FALSE, !.pc = "streams"]
      BY <1>3, <2>2 DEF Windows!TakeNotices
    <3>2. win' \in Windows!Attempts
      BY <3>1 DEF Windows!Attempts, Windows!Places
    <3>3. Windows!ProcessInv' /\ Windows!KillInv'
      BY <2>0, <3>1 DEF Windows!Attempts, Windows!ProcessInv, Windows!KillInv
    <3>4. Windows!DrainInv' /\ Windows!ResultInv'
      BY <2>0, <3>1 DEF Windows!Attempts, Windows!DrainInv, Windows!ResultInv
    <3> QED
      BY <3>2, <3>3, <3>4 DEF Windows!AttemptIInv
  <2> QED
    BY <2>1, <2>2
<1>4. CASE Windows!TestStreams
  <2>0. win.pc = "streams"
    BY <1>4 DEF Windows!TestStreams
  <2>1. CASE win.exceeded # {} /\ "stream" \notin win.reasons
    <3>1. win' = [win EXCEPT !.killed = TRUE, !.reasons = win.reasons \union {"stream"},
                             !.overdue = FALSE, !.notice = win.notice, !.pc = "wait"]
      BY <1>4, <2>1 DEF Windows!TestStreams, Windows!KillFor, Windows!Attempts
    <3> QED
      BY <2>0, <2>1, <3>1, WindowsKills DEF Windows!Attempts, Windows!KillInv
  <2>2. CASE ~(win.exceeded # {} /\ "stream" \notin win.reasons)
    <3>1. win' = [win EXCEPT !.pc = "wait"]
      BY <1>4, <2>2 DEF Windows!TestStreams
    <3>2. win' \in Windows!Attempts
      BY <3>1 DEF Windows!Attempts, Windows!Places
    <3>3. Windows!ProcessInv' /\ Windows!KillInv'
      BY <2>0, <3>1 DEF Windows!Attempts, Windows!ProcessInv, Windows!KillInv
    <3>4. Windows!DrainInv' /\ Windows!ResultInv'
      BY <2>0, <3>1 DEF Windows!Attempts, Windows!DrainInv, Windows!ResultInv
    <3> QED
      BY <3>2, <3>3, <3>4 DEF Windows!AttemptIInv
  <2> QED
    BY <2>1, <2>2
<1>5. CASE Windows!WaitProcess
  <2>1. win' \in Windows!Attempts
    BY <1>5 DEF Windows!Attempts, Windows!Places, Windows!Streams, Windows!WaitProcess
  <2>2. Windows!ProcessInv' /\ Windows!KillInv'
    BY <1>5 DEF Windows!Attempts, Windows!ProcessInv, Windows!KillInv, Windows!WaitProcess
  <2>3. Windows!DrainInv' /\ Windows!ResultInv'
    BY <1>5 DEF Windows!Attempts, Windows!ProcessInv, Windows!DrainInv, Windows!ResultInv,
      Windows!Streams, Windows!WaitProcess
  <2> QED
    BY <2>1, <2>2, <2>3 DEF Windows!AttemptIInv
<1>6. CASE Windows!TestDeadline
  <2>0. win.pc = "deadline"
    BY <1>6 DEF Windows!TestDeadline
  <2>1. CASE win.late /\ win.reasons \intersect {"stream", "deadline"} = {}
    <3>1. win' = [win EXCEPT !.killed = TRUE, !.reasons = win.reasons \union {"deadline"},
                             !.overdue = FALSE, !.notice = win.notice, !.pc = "grace"]
      BY <1>6, <2>1 DEF Windows!TestDeadline, Windows!KillFor, Windows!Attempts
    <3> QED
      BY <2>0, <2>1, <3>1, WindowsKills DEF Windows!Attempts, Windows!KillInv
  <2>2. CASE ~(win.late /\ win.reasons \intersect {"stream", "deadline"} = {})
    <3>1. win' = [win EXCEPT !.pc = "grace"]
      BY <1>6, <2>2 DEF Windows!TestDeadline
    <3>2. win' \in Windows!Attempts
      BY <3>1 DEF Windows!Attempts, Windows!Places
    <3>3. Windows!ProcessInv' /\ Windows!KillInv'
      BY <2>0, <3>1 DEF Windows!Attempts, Windows!ProcessInv, Windows!KillInv
    <3>4. Windows!DrainInv' /\ Windows!ResultInv'
      BY <2>0, <3>1 DEF Windows!Attempts, Windows!DrainInv, Windows!ResultInv
    <3> QED
      BY <3>2, <3>3, <3>4 DEF Windows!AttemptIInv
  <2> QED
    BY <2>1, <2>2
<1>7. CASE Windows!TestGrace
  <2>1. win' \in Windows!Attempts
    BY <1>7 DEF Windows!Attempts, Windows!Places, Windows!Streams, Windows!TestGrace
  <2>2. Windows!ProcessInv' /\ Windows!KillInv'
    BY <1>7 DEF Windows!Attempts, Windows!ProcessInv, Windows!KillInv, Windows!TestGrace
  <2>3. Windows!DrainInv' /\ Windows!ResultInv'
    BY <1>7 DEF Windows!Attempts, Windows!ProcessInv, Windows!DrainInv, Windows!ResultInv,
      Windows!Streams, Windows!TestGrace
  <2> QED
    BY <2>1, <2>2, <2>3 DEF Windows!AttemptIInv
<1>8. CASE Windows!JoinWriter
  <2>1. win' \in Windows!Attempts
    BY <1>8 DEF Windows!Attempts, Windows!Places, Windows!Streams, Windows!JoinWriter,
      Windows!AfterJoin
  <2>2. Windows!ProcessInv' /\ Windows!KillInv'
    BY <1>8 DEF Windows!Attempts, Windows!ProcessInv, Windows!KillInv, Windows!JoinWriter,
      Windows!AfterJoin
  <2>3. Windows!DrainInv' /\ Windows!ResultInv'
    BY <1>8 DEF Windows!Attempts, Windows!ProcessInv, Windows!DrainInv, Windows!ResultInv,
      Windows!Streams, Windows!JoinWriter, Windows!AfterJoin
  <2> QED
    BY <2>1, <2>2, <2>3 DEF Windows!AttemptIInv
<1>9. CASE Windows!Observe
  <2>1. PICK r \in SUBSET {"memory", "stream", "deadline"} :
            r = IF win.notice
                \/ win.violated THEN win.reasons \union {"memory"} ELSE win.reasons
    BY DEF Windows!Attempts
  <2>2. win' = [win EXCEPT !.pc = "classify", !.notice = FALSE, !.reasons = r]
    BY <1>9, <2>1 DEF Windows!Observe
  <2>3. win.pc = "observe" /\ Windows!Gone
    BY <1>9 DEF Windows!Observe
  <2>4. win' \in Windows!Attempts
    BY <2>2, ZenonT(60) DEF Windows!Attempts, Windows!Places, Windows!Streams
  <2>5. Windows!ProcessInv' /\ Windows!KillInv'
    BY <2>1, <2>2, <2>3 DEF Windows!Attempts, Windows!ProcessInv, Windows!KillInv
  <2>6. Windows!DrainInv' /\ Windows!ResultInv'
    BY <2>1, <2>2, <2>3
    DEF Windows!Attempts, Windows!ProcessInv, Windows!DrainInv, Windows!ResultInv,
        Windows!Streams
  <2> QED
    BY <2>4, <2>5, <2>6 DEF Windows!AttemptIInv
<1>10. CASE Windows!Classify
  <2>1. PICK t \in {"deadlineKilled", "memoryLimitKilled", "exited"} :
            win' = [win EXCEPT !.pc = "done", !.result = t, !.jobOpen = FALSE]
    BY <1>10 DEF Windows!Classify, Windows!Termination
  <2>2. win.pc = "classify"
    BY <1>10 DEF Windows!Classify
  <2>3. win' \in Windows!Attempts
    <3>1. win.failures \in 0 .. MaxFailures + 1
      BY DEF Windows!Attempts
    <3> QED
      BY <2>1, <3>1, WindowsReturns
  <2>4. Windows!ProcessInv' /\ Windows!KillInv'
    BY <2>1, <2>2 DEF Windows!Attempts, Windows!ProcessInv, Windows!KillInv
  <2>5. Windows!DrainInv' /\ Windows!ResultInv'
    BY <2>1, <2>2
    DEF Windows!Attempts, Windows!ProcessInv, Windows!DrainInv, Windows!ResultInv,
        Windows!Streams
  <2> QED
    BY <2>3, <2>4, <2>5 DEF Windows!AttemptIInv
<1>11. CASE Windows!CleanUp
  <2>1. win' \in Windows!Attempts
    BY <1>11 DEF Windows!Attempts, Windows!Places, Windows!Streams, Windows!CleanUp
  <2>2. Windows!ProcessInv' /\ Windows!KillInv'
    BY <1>11 DEF Windows!Attempts, Windows!ProcessInv, Windows!KillInv, Windows!CleanUp
  <2>3. Windows!DrainInv' /\ Windows!ResultInv'
    BY <1>11 DEF Windows!Attempts, Windows!ProcessInv, Windows!DrainInv, Windows!ResultInv,
      Windows!Streams, Windows!CleanUp
  <2> QED
    BY <2>1, <2>2, <2>3 DEF Windows!AttemptIInv
<1>12. CASE Windows!CleanUpReap
  <2>1. win' \in Windows!Attempts
    BY <1>12 DEF Windows!Attempts, Windows!Places, Windows!Streams, Windows!CleanUpReap
  <2>2. Windows!ProcessInv' /\ Windows!KillInv'
    BY <1>12 DEF Windows!Attempts, Windows!ProcessInv, Windows!KillInv, Windows!CleanUpReap
  <2>3. Windows!DrainInv' /\ Windows!ResultInv'
    BY <1>12 DEF Windows!Attempts, Windows!ProcessInv, Windows!DrainInv, Windows!ResultInv,
      Windows!Streams, Windows!CleanUpReap
  <2> QED
    BY <2>1, <2>2, <2>3 DEF Windows!AttemptIInv
<1>13. CASE Windows!JoinLast
  <2>1. win' \in Windows!Attempts
    BY <1>13, ZenonT(60)
    DEF Windows!Attempts, Windows!Places, Windows!Streams, Windows!JoinLast
  <2>2. Windows!ProcessInv' /\ Windows!KillInv'
    BY <1>13 DEF Windows!Attempts, Windows!ProcessInv, Windows!KillInv, Windows!JoinLast
  <2>3. Windows!DrainInv' /\ Windows!ResultInv'
    BY <1>13 DEF Windows!Attempts, Windows!ProcessInv, Windows!DrainInv, Windows!ResultInv,
      Windows!Streams, Windows!JoinLast
  <2> QED
    BY <2>1, <2>2, <2>3 DEF Windows!AttemptIInv
<1> QED
  BY <1>1, <1>2, <1>3, <1>4, <1>5, <1>6, <1>7, <1>8, <1>9, <1>10, <1>11, <1>12, <1>13

\* Failures, the process, the writer, the kernel and the clock.
LEMMA WindowsRestPreserves ==
    Windows!AttemptIInv /\ (Windows!Fail \/ Windows!PluginWrites \/ Windows!KernelReports
        \/ Windows!ProcessEnds \/ Windows!WriterDone \/ Windows!WriterFails
        \/ Windows!KernelKills \/ Windows!DeadlinePasses \/ Windows!TimeoutPasses)
        => Windows!AttemptIInv'
<1> SUFFICES ASSUME Windows!AttemptIInv, Windows!Fail \/ Windows!PluginWrites
        \/ Windows!KernelReports \/ Windows!ProcessEnds \/ Windows!WriterDone
        \/ Windows!WriterFails \/ Windows!KernelKills \/ Windows!DeadlinePasses
        \/ Windows!TimeoutPasses
             PROVE Windows!AttemptIInv'
  OBVIOUS
<1>0. win \in Windows!Attempts /\ Windows!ProcessInv /\ Windows!KillInv /\ Windows!DrainInv
          /\ Windows!ResultInv
  BY DEF Windows!AttemptIInv
<1> USE FailuresAssumption, <1>0 DEF Windows!Alive, Windows!Gone, Windows!At, Windows!Goto,
                                     Windows!Return, Windows!Draining
<1>1. CASE Windows!Fail
  <2>1. PICK f \in 0 .. MaxFailures + 1 : f = win.failures + 1
    BY <1>1 DEF Windows!Fail, Windows!Attempts
  <2>2. CASE win.pc \in {"loopback", "create", "endUnassigned", "endJob"}
    <3>1. win' = [win EXCEPT !.pc = "done", !.result = "error", !.jobOpen = FALSE,
              !.failures = f]
      BY <1>1, <2>1, <2>2 DEF Windows!Fail
    <3>2. win' \in Windows!Attempts
      BY <3>1, WindowsReturns
    <3>3. Windows!ProcessInv' /\ Windows!KillInv'
      BY <2>2, <3>1 DEF Windows!Attempts, Windows!ProcessInv, Windows!KillInv
    <3>4. Windows!DrainInv' /\ Windows!ResultInv'
      BY <2>2, <3>1
      DEF Windows!Attempts, Windows!ProcessInv, Windows!DrainInv, Windows!ResultInv,
          Windows!Streams
    <3> QED
      BY <3>2, <3>3, <3>4 DEF Windows!AttemptIInv
  <2>3. CASE win.pc \in {"assign", "resume", "spawnWriter", "drain", "notices", "streams",
                         "wait", "deadline", "last", "observe"}
    <3>1. PICK p \in {"endUnassigned", "endJob", "cleanup"} : p = Windows!OnError(win.pc)
      BY DEF Windows!OnError
    <3>2. win' = [win EXCEPT !.pc = p, !.failures = f]
      BY <1>1, <2>1, <2>3, <3>1 DEF Windows!Fail
    <3>3. win' \in Windows!Attempts
      BY <3>2, ZenonT(60) DEF Windows!Attempts, Windows!Places, Windows!Streams
    <3>4. Windows!ProcessInv' /\ Windows!KillInv'
      BY <2>3, <3>1, <3>2
      DEF Windows!Attempts, Windows!ProcessInv, Windows!KillInv, Windows!OnError
    <3>5. Windows!DrainInv' /\ Windows!ResultInv'
      BY <2>3, <3>1, <3>2
      DEF Windows!Attempts, Windows!ProcessInv, Windows!DrainInv, Windows!ResultInv,
          Windows!Streams, Windows!OnError
    <3> QED
      BY <3>3, <3>4, <3>5 DEF Windows!AttemptIInv
  <2>4. CASE win.pc = "cleanup"
    <3>1. win' = [win EXCEPT !.pc = "cleanupReap", !.overdue = FALSE, !.failures = f]
      BY <1>1, <2>1, <2>4 DEF Windows!Fail
    <3>2. win' \in Windows!Attempts
      BY <3>1, ZenonT(60) DEF Windows!Attempts, Windows!Places, Windows!Streams
    <3>3. Windows!ProcessInv' /\ Windows!KillInv'
      BY <2>4, <3>1 DEF Windows!Attempts, Windows!ProcessInv, Windows!KillInv
    <3>4. Windows!DrainInv' /\ Windows!ResultInv'
      BY <2>4, <3>1
      DEF Windows!Attempts, Windows!ProcessInv, Windows!DrainInv, Windows!ResultInv,
          Windows!Streams
    <3> QED
      BY <3>2, <3>3, <3>4 DEF Windows!AttemptIInv
  <2> QED
    BY <1>1, <2>2, <2>3, <2>4 DEF Windows!Fail
<1>2. CASE Windows!PluginWrites
  <2>1. PICK s \in Windows!Streams, full \in BOOLEAN :
            win' = [win EXCEPT !.waiting = @ \union {s},
                               !.beyond = IF full THEN @ \union {s} ELSE @]
    BY <1>2 DEF Windows!PluginWrites
  <2> DEFINE w == win.waiting \union {s}
             b == IF full THEN win.beyond \union {s} ELSE win.beyond
  <2>2. w \subseteq Windows!Streams /\ b \subseteq Windows!Streams
    BY DEF Windows!Attempts
  <2>3. win' = [win EXCEPT !.waiting = w, !.beyond = b]
    BY <2>1, <2>2
  <2>4. win.process = "running"
    BY <1>2 DEF Windows!PluginWrites, Windows!Running
  <2>5. win' \in Windows!Attempts
    BY <2>3, ZenonT(60) DEF Windows!Attempts, Windows!Places, Windows!Streams
  <2>6. Windows!ProcessInv' /\ Windows!KillInv'
    BY <2>2, <2>3, <2>4 DEF Windows!Attempts, Windows!ProcessInv, Windows!KillInv
  <2>7. Windows!DrainInv' /\ Windows!ResultInv'
    BY <2>2, <2>3, <2>4
    DEF Windows!Attempts, Windows!ProcessInv, Windows!DrainInv, Windows!ResultInv,
        Windows!Streams
  <2> QED
    BY <2>5, <2>6, <2>7 DEF Windows!AttemptIInv
<1>3. CASE Windows!KernelReports
  <2>1. win' \in Windows!Attempts
    BY <1>3 DEF Windows!Attempts, Windows!Places, Windows!Streams, Windows!KernelReports,
      Windows!Running
  <2>2. Windows!ProcessInv' /\ Windows!KillInv'
    BY <1>3 DEF Windows!Attempts, Windows!ProcessInv, Windows!KillInv,
      Windows!KernelReports, Windows!Running
  <2>3. Windows!DrainInv' /\ Windows!ResultInv'
    BY <1>3 DEF Windows!Attempts, Windows!ProcessInv, Windows!DrainInv, Windows!ResultInv,
      Windows!Streams, Windows!KernelReports, Windows!Running
  <2> QED
    BY <2>1, <2>2, <2>3 DEF Windows!AttemptIInv
<1>4. CASE Windows!ProcessEnds
  <2>1. win' \in Windows!Attempts
    BY <1>4, ZenonT(60)
    DEF Windows!Attempts, Windows!Places, Windows!Streams, Windows!ProcessEnds,
      Windows!Running, Windows!EndProcess
  <2>2. Windows!ProcessInv' /\ Windows!KillInv'
    BY <1>4 DEF Windows!Attempts, Windows!ProcessInv, Windows!KillInv, Windows!ProcessEnds,
      Windows!Running, Windows!EndProcess
  <2>3. Windows!DrainInv' /\ Windows!ResultInv'
    BY <1>4 DEF Windows!Attempts, Windows!ProcessInv, Windows!DrainInv, Windows!ResultInv,
      Windows!Streams, Windows!ProcessEnds, Windows!Running, Windows!EndProcess
  <2> QED
    BY <2>1, <2>2, <2>3 DEF Windows!AttemptIInv
<1>5. CASE Windows!WriterDone
  <2>1. win' \in Windows!Attempts
    BY <1>5 DEF Windows!Attempts, Windows!Places, Windows!Streams, Windows!WriterDone,
      Windows!Running
  <2>2. Windows!ProcessInv' /\ Windows!KillInv'
    BY <1>5 DEF Windows!Attempts, Windows!ProcessInv, Windows!KillInv, Windows!WriterDone,
      Windows!Running
  <2>3. Windows!DrainInv' /\ Windows!ResultInv'
    BY <1>5 DEF Windows!Attempts, Windows!ProcessInv, Windows!DrainInv, Windows!ResultInv,
      Windows!Streams, Windows!WriterDone, Windows!Running
  <2> QED
    BY <2>1, <2>2, <2>3 DEF Windows!AttemptIInv
<1>6. CASE Windows!WriterFails
  <2>1. win' \in Windows!Attempts
    BY <1>6 DEF Windows!Attempts, Windows!Places, Windows!Streams, Windows!WriterFails
  <2>2. Windows!ProcessInv' /\ Windows!KillInv'
    BY <1>6 DEF Windows!Attempts, Windows!ProcessInv, Windows!KillInv, Windows!WriterFails
  <2>3. Windows!DrainInv' /\ Windows!ResultInv'
    BY <1>6 DEF Windows!Attempts, Windows!ProcessInv, Windows!DrainInv, Windows!ResultInv,
      Windows!Streams, Windows!WriterFails
  <2> QED
    BY <2>1, <2>2, <2>3 DEF Windows!AttemptIInv
<1>7. CASE Windows!KernelKills
  <2>1. win' \in Windows!Attempts
    BY <1>7, ZenonT(60)
    DEF Windows!Attempts, Windows!Places, Windows!Streams, Windows!KernelKills,
      Windows!EndProcess
  <2>2. Windows!ProcessInv' /\ Windows!KillInv'
    BY <1>7 DEF Windows!Attempts, Windows!ProcessInv, Windows!KillInv, Windows!KernelKills,
      Windows!EndProcess
  <2>3. Windows!DrainInv' /\ Windows!ResultInv'
    BY <1>7 DEF Windows!Attempts, Windows!ProcessInv, Windows!DrainInv, Windows!ResultInv,
      Windows!Streams, Windows!KernelKills, Windows!EndProcess
  <2> QED
    BY <2>1, <2>2, <2>3 DEF Windows!AttemptIInv
<1>8. CASE Windows!DeadlinePasses
  <2>1. win' \in Windows!Attempts
    BY <1>8 DEF Windows!Attempts, Windows!Places, Windows!Streams, Windows!DeadlinePasses
  <2>2. Windows!ProcessInv' /\ Windows!KillInv'
    BY <1>8 DEF Windows!Attempts, Windows!ProcessInv, Windows!KillInv, Windows!DeadlinePasses
  <2>3. Windows!DrainInv' /\ Windows!ResultInv'
    BY <1>8 DEF Windows!Attempts, Windows!ProcessInv, Windows!DrainInv, Windows!ResultInv,
      Windows!Streams, Windows!DeadlinePasses
  <2> QED
    BY <2>1, <2>2, <2>3 DEF Windows!AttemptIInv
<1>9. CASE Windows!TimeoutPasses
  <2>1. win' \in Windows!Attempts
    BY <1>9 DEF Windows!Attempts, Windows!Places, Windows!Streams, Windows!TimeoutPasses
  <2>2. Windows!ProcessInv' /\ Windows!KillInv'
    BY <1>9 DEF Windows!Attempts, Windows!ProcessInv, Windows!KillInv, Windows!TimeoutPasses
  <2>3. Windows!DrainInv' /\ Windows!ResultInv'
    BY <1>9 DEF Windows!Attempts, Windows!ProcessInv, Windows!DrainInv, Windows!ResultInv,
      Windows!Streams, Windows!TimeoutPasses
  <2> QED
    BY <2>1, <2>2, <2>3 DEF Windows!AttemptIInv
<1> QED
  BY <1>1, <1>2, <1>3, <1>4, <1>5, <1>6, <1>7, <1>8, <1>9

WindowsStep ==
    Windows!Host \/ Windows!Fail \/ Windows!Plugin \/ Windows!WriterDone \/ Windows!Kernel
        \/ Windows!DeadlinePasses \/ Windows!TimeoutPasses

\* Every step of the Windows kernel keeps its invariant.
LEMMA WindowsPreserves == Windows!AttemptIInv /\ WindowsStep => Windows!AttemptIInv'
BY WindowsSetUp, WindowsWatches, WindowsRestPreserves
DEF WindowsStep, Windows!Host, Windows!Setup, Windows!Watch, Windows!Plugin, Windows!Kernel

-------------------------------------------------------------------------------
(* The caller *)

\* Every step of the Linux kernel keeps its invariant.
LEMMA LinuxPreserves == AttemptIInv /\ [Next]_attemptVars => AttemptIInv'
BY TypePreserved, RestPreserved, DrainPreserved DEF AttemptIInv, Rest

\* An attempt that is left alone stays what it is.
LEMMA LeftAlone ==
    /\ Mac!AttemptIInv /\ UNCHANGED mac => Mac!AttemptIInv'
    /\ Windows!AttemptIInv /\ UNCHANGED win => Windows!AttemptIInv'
<1>1. Mac!AttemptIInv /\ UNCHANGED mac => Mac!AttemptIInv'
  BY DEF Mac!AttemptIInv, Mac!ChildInv, Mac!KillInv, Mac!DrainInv, Mac!ResultInv
<1>2. Windows!AttemptIInv /\ UNCHANGED win => Windows!AttemptIInv'
  BY DEF Windows!AttemptIInv, Windows!ProcessInv, Windows!KillInv, Windows!DrainInv,
         Windows!ResultInv, Windows!Gone
<1> QED
  BY <1>1, <1>2

\* What the three kernels may do, of themselves or for the caller.
LinuxEnv == KernelKills \/ DeadlinePasses \/ GracePasses \/ Child
MacEnv == Mac!KernelKills \/ Mac!DeadlinePasses \/ Mac!GracePasses \/ Mac!Child
WindowsEnv ==
    \/ Windows!Kernel \/ Windows!DeadlinePasses \/ Windows!TimeoutPasses
    \/ Windows!Plugin \/ Windows!WriterDone

\* A step of the driver is one of the caller, a replacement, or one of the platform's kernel,
\* of which the host's steps and failures come before the caller has returned.
LEMMA DriverSteps ==
    ASSUME [DriverNext]_driverVars
    PROVE  \/ Caller \/ ReplaceFile \/ UNCHANGED driverVars
           \/ OnLinux(LinuxEnv) \/ (Begun /\ OnLinux(Host \/ Fail))
           \/ OnMac(MacEnv) \/ (Begun /\ OnMac(Mac!Host \/ Mac!Fail))
           \/ OnWindows(WindowsEnv) \/ (Begun /\ OnWindows(Windows!Host \/ Windows!Fail))
BY DEF DriverNext, HostMoves, CallsFail, ProcessActs, KernelEnds, TimePasses, GraceEnds,
       OnLinux, OnMac, OnWindows, LinuxEnv, MacEnv, WindowsEnv

\* Before the call nothing has happened.
LEMMA DriverStarts == DriverInit => DriverIInv
<1> SUFFICES ASSUME DriverInit PROVE DriverIInv
  OBVIOUS
<1>1. AttemptIInv
  BY InitEstablishes DEF DriverInit
<1>2. Mac!AttemptIInv /\ Windows!AttemptIInv
  BY MacStarts, WindowsStarts DEF DriverInit
<1>3. CallInv /\ ObservedInv /\ platform \in Platforms
  BY DEF DriverInit, CallInv, ObservedInv, Calls, CallPlaces, Files, Placed
<1> QED
  BY <1>1, <1>2, <1>3 DEF DriverIInv

\* The platform stays, and the invariants of its kernel and of the other two hold on.
LEMMA KernelsPreserve ==
    ASSUME DriverIInv, [DriverNext]_driverVars
    PROVE  /\ platform' = platform
           /\ AttemptIInv' /\ Mac!AttemptIInv' /\ Windows!AttemptIInv'
<1>1. CASE Caller \/ ReplaceFile \/ UNCHANGED driverVars
  <2>1. UNCHANGED <<platform, mac, win, attemptVars>>
    BY <1>1 DEF Caller, ReplaceFile, driverVars
  <2> QED
    BY <2>1, LinuxPreserves, LeftAlone DEF DriverIInv
<1>2. CASE OnLinux(LinuxEnv) \/ OnLinux(Host \/ Fail)
  <2>1. Next /\ UNCHANGED <<platform, mac, win>>
    BY <1>2 DEF OnLinux, LinuxEnv, Next
  <2> QED
    BY <2>1, LinuxPreserves, LeftAlone DEF DriverIInv
<1>3. CASE OnMac(MacEnv) \/ OnMac(Mac!Host \/ Mac!Fail)
  <2>1. MacStep /\ UNCHANGED <<platform, win, attemptVars>>
    BY <1>3 DEF OnMac, MacEnv, MacStep
  <2> QED
    BY <2>1, LinuxPreserves, MacPreserves, LeftAlone DEF DriverIInv
<1>4. CASE OnWindows(WindowsEnv) \/ OnWindows(Windows!Host \/ Windows!Fail)
  <2>1. WindowsStep /\ UNCHANGED <<platform, mac, attemptVars>>
    BY <1>4 DEF OnWindows, WindowsEnv, WindowsStep
  <2> QED
    BY <2>1, LinuxPreserves, WindowsPreserves, LeftAlone DEF DriverIInv
<1> QED
  BY <1>1, <1>2, <1>3, <1>4, DriverSteps

\* What has been executed is the file that was there when it was.
LEMMA LoadsKeeps ==
    ASSUME CallInv, NEW now, Loads(now), call.place \in {"kernel", "done"}
    PROVE  CallInv' /\ call'.outcome = call.outcome
BY DEF CallInv, Calls, CallPlaces, Files, Loads, Placed

\* Only the kernel of the platform gives a result, and one is given once.
LEMMA ResultStays ==
    ASSUME DriverIInv, platform' = platform,
           \/ UNCHANGED <<mac, win, attemptVars>>
           \/ OnLinux(LinuxEnv) \/ OnMac(MacEnv) \/ OnWindows(WindowsEnv)
    PROVE  KernelResult' = KernelResult
<1>1. CASE UNCHANGED <<mac, win, attemptVars>>
  BY <1>1 DEF KernelResult, attemptVars
<1>2. CASE OnLinux(LinuxEnv)
  BY <1>2 DEF KernelResult, OnLinux, LinuxEnv, KernelKills, DeadlinePasses, GracePasses,
    Child,
              ChildSetup, ChildExecutes, ChildFails, PluginWritesBeyond, ChildExits,
              ChildIsSignaled, KernelRunsOutOfMemory, EndChild
<1>3. CASE OnMac(MacEnv)
  <2>1. mac \in Mac!Attempts
    BY DEF DriverIInv, Mac!AttemptIInv
  <2>2. mac'.result = mac.result
    BY <1>3, <2>1 DEF OnMac, MacEnv, Mac!Attempts, Mac!KernelKills, Mac!DeadlinePasses,
         Mac!GracePasses, Mac!Child, Mac!LauncherExecutes, Mac!PluginWrites, Mac!PluginGrows,
         Mac!ChildEnds, Mac!EndChild
  <2> QED
    BY <1>3, <2>2 DEF KernelResult, OnMac
<1>4. CASE OnWindows(WindowsEnv)
  <2>1. win \in Windows!Attempts
    BY DEF DriverIInv, Windows!AttemptIInv
  <2>2. win'.result = win.result
    BY <1>4, <2>1
    DEF OnWindows, WindowsEnv, Windows!Attempts, Windows!Kernel, Windows!KernelKills,
         Windows!WriterFails, Windows!DeadlinePasses, Windows!TimeoutPasses, Windows!Plugin,
         Windows!PluginWrites, Windows!KernelReports, Windows!ProcessEnds, Windows!WriterDone,
         Windows!EndProcess
  <2> QED
    BY <1>4, <2>2 DEF KernelResult, OnWindows
<1> QED
  BY <1>1, <1>2, <1>3, <1>4

\* The caller verifies before it calls, and observes what the kernel has returned.
LEMMA CallPreserves == DriverIInv /\ [DriverNext]_driverVars => CallInv' /\ ObservedInv'
<1> SUFFICES ASSUME DriverIInv, [DriverNext]_driverVars PROVE CallInv' /\ ObservedInv'
  OBVIOUS
<1>0. CallInv /\ ObservedInv /\ platform' = platform
  BY KernelsPreserve DEF DriverIInv
<1>1. CASE Caller
  <2>1. KernelResult' = KernelResult
    BY <1>0, <1>1, ResultStays DEF Caller
  <2>2. CASE DriverPreflight \/ PreparePlatform
    BY <1>0, <2>2
    DEF DriverPreflight, PreparePlatform, Placed, CallGoes, CallReturns, CallInv,
                      ObservedInv, Calls, CallPlaces
  <2>3. CASE VerifyArtifact
    BY <1>0, <2>3 DEF VerifyArtifact, IsVerified, Placed, CallGoes, CallReturns, CallInv,
                      ObservedInv, Calls, CallPlaces
  <2>4. CASE Observe
    BY <1>0, <2>1, <2>4
    DEF Observe, Placed, CallReturns, CallInv, ObservedInv, Calls, CallPlaces
  <2> QED
    BY <1>1, <2>2, <2>3, <2>4 DEF Caller
<1>2. CASE ReplaceFile
  <2>1. KernelResult' = KernelResult
    BY <1>0, <1>2, ResultStays DEF ReplaceFile
  <2> DEFINE f == IF call.file = "right" THEN "other" ELSE "right"
             c == call.place \in {"prepare", "kernel"}
  <2>2. /\ f \in Files /\ c \in BOOLEAN
        /\ call' = [call EXCEPT !.file = f, !.replaced = TRUE, !.changed = c]
    BY <1>2 DEF ReplaceFile, Files
  <2>3. call.outcome = "none"
    BY <1>0, <1>2 DEF ReplaceFile, CallInv
  <2> QED
    BY <1>0, <2>1, <2>2, <2>3 DEF Placed, CallInv, ObservedInv, Calls
<1>3. CASE OnLinux(LinuxEnv) \/ OnMac(MacEnv) \/ OnWindows(WindowsEnv)
  <2>1. CallInv' /\ call'.outcome = call.outcome
    BY <1>0, <1>3, LoadsKeeps DEF OnLinux, OnMac, OnWindows
  <2> QED
    BY <1>0, <1>3, <2>1, ResultStays DEF ObservedInv
<1>4. CASE \/ Begun /\ OnLinux(Host \/ Fail)
           \/ Begun /\ OnMac(Mac!Host \/ Mac!Fail)
           \/ Begun /\ OnWindows(Windows!Host \/ Windows!Fail)
  <2>1. CallInv' /\ call'.outcome = call.outcome
    BY <1>0, <1>4, LoadsKeeps DEF OnLinux, OnMac, OnWindows
  <2>2. call.outcome = "none"
    BY <1>0, <1>4 DEF Begun, CallInv, Placed
  <2> QED
    BY <2>1, <2>2 DEF ObservedInv
<1>5. CASE UNCHANGED driverVars
  BY <1>0, <1>5 DEF driverVars, attemptVars, CallInv, ObservedInv, KernelResult, Placed
<1> QED
  BY <1>1, <1>2, <1>3, <1>4, <1>5, DriverSteps

\* The inductive invariant of the driver holds throughout, on every platform.
THEOREM DriverInvariance == DriverSpec => []DriverIInv
<1>1. DriverIInv /\ [DriverNext]_driverVars => DriverIInv'
  BY KernelsPreserve, CallPreserves DEF DriverIInv
<1> QED
  BY DriverStarts, <1>1, PTL DEF DriverSpec

\* Output that was dropped is reported as past its limit: what is beyond it is still in a
\* pipe, or known, or, on macOS, was passed over by a probe that found nothing behind it; and
\* a result is given of streams that were read to their ends.
THEOREM DroppedIsReported == DriverSpec => []TruncationIsReported
<1>1. DriverIInv => TruncationIsReported
  <2> SUFFICES ASSUME DriverIInv, call.outcome = "ok" PROVE TruncationIsReported
    BY DEF TruncationIsReported
  <2>0. KernelResult \notin {"none", "error"} /\ AttemptIInv /\ Mac!AttemptIInv
        /\ Windows!AttemptIInv
    BY DEF DriverIInv, ObservedInv
  <2>1. CASE platform = "linux"
    <3>1. beyond \subseteq exceeded
      BY <2>0, <2>1 DEF KernelResult, AttemptIInv, TypeOK, DrainInv
    <3> QED
      BY <2>1, <3>1 DEF TruncationIsReported
  <2>2. CASE platform = "macos"
    <3>1. mac \in Mac!Attempts /\ Mac!DrainInv /\ mac.closed = Mac!Streams /\ ~mac.probing
      BY <2>0, <2>2 DEF KernelResult, Mac!AttemptIInv, Mac!ResultInv
    <3>2. ASSUME NEW s \in Streams, mac.sent[s] > Mac!Limit
          PROVE  s \in mac.exceeded \union mac.quiet
      BY <3>1, <3>2 DEF Mac!DrainInv, Streams, Mac!Streams
    <3> QED
      BY <2>2, <3>2 DEF TruncationIsReported
  <2>3. CASE platform = "windows"
    <3>1. win.beyond \subseteq win.exceeded
      BY <2>0, <2>3 DEF KernelResult, Windows!AttemptIInv, Windows!ResultInv, Windows!DrainInv
    <3> QED
      BY <2>3, <3>1 DEF TruncationIsReported
  <2> QED
    BY <2>1, <2>2, <2>3, DriverAssumption DEF DriverIInv
<1> QED
  BY DriverInvariance, <1>1, PTL

\* What is reported for a subject was done by the file of its digest, unless that was replaced
\* between its verification and the start.
THEOREM RightFileIsReported == DriverSpec => []ReportedForTheRightFile
<1>1. DriverIInv => ReportedForTheRightFile
  BY DEF DriverIInv, CallInv, ReportedForTheRightFile
<1> QED
  BY DriverInvariance, <1>1, PTL

-------------------------------------------------------------------------------
(* The contract *)

\* What the contract sees of the attempt.
SeenOfAttempt == <<GroupOn(platform), HowEnded, CausesSeen, ResultOf(KernelResult)>>

\* What the contract sees of a macOS attempt.
MacViewed ==
    /\ GroupOn(platform) =
           IF mac.child \in {"none", "zombie", "reaped"}
           THEN IF mac.child = "none" THEN "none"
                ELSE IF mac.child = "reaped" THEN "gone" ELSE "doomed"
           ELSE IF mac.killed THEN "doomed" ELSE "alive"
    /\ HowEnded = EndOf(mac.ended)
    /\ CausesSeen = Has("deadline", mac.late) \union Has("memory", mac.heavy)
                        \union Has("stream", mac.exceeded # {})
    /\ ResultOf(KernelResult) = ResultOf(mac.result)

\* That is what it sees of it.
LEMMA MacView == platform = "macos" /\ mac \in Mac!Attempts => MacViewed
<1> SUFFICES ASSUME platform = "macos", mac \in Mac!Attempts PROVE MacViewed
  OBVIOUS
<1>1. mac.child \in {"none", "launcher", "running", "zombie", "reaped"}
          /\ mac.killed \in BOOLEAN
  BY DEF Mac!Attempts, Mac!Alive
<1>2. GroupOn(platform) =
          IF mac.child \in {"none", "zombie", "reaped"}
          THEN IF mac.child = "none" THEN "none"
               ELSE IF mac.child = "reaped" THEN "gone" ELSE "doomed"
          ELSE IF mac.killed THEN "doomed" ELSE "alive"
  BY <1>1 DEF GroupOn, Mac!Alive
<1>3. HowEnded = EndOf(mac.ended) /\ ResultOf(KernelResult) = ResultOf(mac.result)
  BY DEF HowEnded, KernelResult
<1>4. CausesSeen = Has("deadline", mac.late) \union Has("memory", mac.heavy)
                       \union Has("stream", mac.exceeded # {})
  BY DEF CausesSeen
<1> QED
  BY <1>2, <1>3, <1>4 DEF MacViewed

\* What the contract sees of a Windows attempt.
WindowsViewed ==
    /\ GroupOn(platform) =
           IF win.process \in {"none", "gone"} THEN win.process
           ELSE IF win.killed \/ (win.assigned /\ ~win.jobOpen) THEN "doomed"
           ELSE IF win.process = "suspended" THEN "idle" ELSE "alive"
    /\ HowEnded = EndOf(win.ended)
    /\ CausesSeen = Has("deadline", win.late) \union Has("memory", win.violated)
                        \union Has("stream", win.exceeded # {})
    /\ ResultOf(KernelResult) = ResultOf(win.result)

\* That is what it sees of it.
LEMMA WindowsView == platform = "windows" /\ win \in Windows!Attempts => WindowsViewed
<1> SUFFICES ASSUME platform = "windows", win \in Windows!Attempts PROVE WindowsViewed
  OBVIOUS
<1>1. /\ win.process \in {"none", "gone", "suspended", "running"}
      /\ win.killed \in BOOLEAN /\ win.assigned \in BOOLEAN /\ win.jobOpen \in BOOLEAN
  BY DEF Windows!Attempts, Windows!Alive
<1>2. GroupOn(platform) =
          IF win.process \in {"none", "gone"} THEN win.process
          ELSE IF win.killed \/ (win.assigned /\ ~win.jobOpen) THEN "doomed"
          ELSE IF win.process = "suspended" THEN "idle" ELSE "alive"
  BY <1>1 DEF GroupOn, Windows!Alive
<1>3. HowEnded = EndOf(win.ended) /\ ResultOf(KernelResult) = ResultOf(win.result)
  BY DEF HowEnded, KernelResult
<1>4. CausesSeen = Has("deadline", win.late) \union Has("memory", win.violated)
                       \union Has("stream", win.exceeded # {})
  BY DEF CausesSeen
<1> QED
  BY <1>2, <1>3, <1>4 DEF WindowsViewed

\* Before the call there is no process.
LEMMA ContractStarts == DriverInit => Contract!Init
<1> SUFFICES ASSUME DriverInit PROVE Contract!Init
  OBVIOUS
<1>0. DriverIInv /\ platform \in {"linux", "macos", "windows"}
  BY DriverStarts, DriverAssumption DEF DriverInit
<1>1. CASE platform = "linux"
  <2>1. LinuxContract!Init
    BY InitRefines DEF DriverInit
  <2> QED
    BY <1>1, <2>1
    DEF LinuxContract!Init, Contract!Init, GroupOn, HowEnded, CausesSeen, KernelResult
<1>2. CASE platform = "macos"
  <2>1. MacViewed
    BY <1>0, <1>2, MacView DEF DriverIInv, Mac!AttemptIInv
  <2> QED
    BY <2>1 DEF MacViewed, DriverInit, Mac!Start, EndOf, ResultOf, Has, Contract!Init
<1>3. CASE platform = "windows"
  <2>1. WindowsViewed
    BY <1>0, <1>3, WindowsView DEF DriverIInv, Windows!AttemptIInv
  <2> QED
    BY <2>1 DEF WindowsViewed, DriverInit, Windows!Start, EndOf, ResultOf, Has, Contract!Init
<1> QED
  BY <1>0, <1>1, <1>2, <1>3

\* On Linux the contract is that of the kernel.
LEMMA LinuxKeepsContract ==
    ASSUME DriverIInv, AttemptIInv', platform = "linux", platform' = platform,
           [Next]_attemptVars
    PROVE  Contract!Next \/ UNCHANGED SeenOfAttempt
<1>1. /\ GroupOn(platform) = LinuxGroup /\ HowEnded = EndOf(ended)
      /\ CausesSeen = LinuxCauses /\ ResultOf(KernelResult) = ResultOf(result)
  BY DEF GroupOn, HowEnded, CausesSeen, KernelResult
<1>2. /\ GroupOn(platform)' = LinuxGroup' /\ HowEnded' = EndOf(ended)'
      /\ CausesSeen' = LinuxCauses' /\ ResultOf(KernelResult)' = ResultOf(result)'
  BY DEF GroupOn, HowEnded, CausesSeen, KernelResult
<1>3. LinuxContract!Next \/ UNCHANGED <<LinuxGroup, EndOf(ended), LinuxCauses,
          ResultOf(result)>>
  BY StepRefines DEF DriverIInv, LinuxContract!contractVars
<1>4. CASE UNCHANGED <<LinuxGroup, EndOf(ended), LinuxCauses, ResultOf(result)>>
  BY <1>1, <1>2, <1>4 DEF SeenOfAttempt
<1>5. CASE LinuxContract!Next
  BY <1>1, <1>2, <1>5
  DEF LinuxContract!Next, LinuxContract!GroupStarts, LinuxContract!GroupIsDoomed,
      LinuxContract!GroupEnds, LinuxContract!GroupIsCollected, LinuxContract!CauseArises,
      LinuxContract!ReturnsResult, LinuxContract!ReturnsError, LinuxContract!Truthful,
      LinuxContract!Causes, LinuxContract!Results,
      Contract!Next, Contract!GroupStarts, Contract!GroupIsDoomed,
      Contract!GroupEnds, Contract!GroupIsCollected, Contract!CauseArises,
      Contract!ReturnsResult, Contract!ReturnsError, Contract!Truthful,
      Contract!Causes, Contract!Results
<1> QED
  BY <1>3, <1>4, <1>5

\* On macOS every step of the kernel is one of the contract, or nothing it sees.
LEMMA MacKeepsContract ==
    ASSUME DriverIInv, Mac!AttemptIInv', platform = "macos", platform' = platform,
           MacStep \/ UNCHANGED mac
    PROVE  Contract!Next \/ UNCHANGED SeenOfAttempt
<1>1. MacViewed /\ MacViewed'
  <2>1. platform = "macos" /\ mac \in Mac!Attempts /\ (platform = "macos"
            /\ mac \in Mac!Attempts)'
    BY DEF DriverIInv, Mac!AttemptIInv
  <2>2. (platform = "macos" /\ mac \in Mac!Attempts)' => MacViewed'
    BY MacView, PTL
  <2> QED
    BY <2>1, <2>2, MacView
<1>2. /\ mac \in Mac!Attempts /\ Mac!ChildInv /\ Mac!KillInv /\ Mac!DrainInv /\ Mac!ResultInv
      /\ mac' \in Mac!Attempts
  BY DEF DriverIInv, Mac!AttemptIInv
<1>3. /\ mac.child \in {"none", "launcher", "running", "zombie", "reaped"}
      /\ mac.ended \in {"not", "exited", "signaled", "killed"}
           /\ mac.exceeded \subseteq Mac!Streams
      /\ {mac.killed, mac.late, mac.heavy} \subseteq BOOLEAN
  BY <1>2 DEF Mac!Attempts, Mac!Alive
\* Nothing that the contract sees.
<1>4. ASSUME mac'.child = mac.child \/ {mac.child, mac'.child} \subseteq Mac!Alive,
             mac'.ended = mac.ended, mac'.killed = mac.killed, mac'.late = mac.late,
             mac'.heavy = mac.heavy, mac'.result = mac.result,
             mac.exceeded = {} <=> mac'.exceeded = {}
      PROVE  UNCHANGED SeenOfAttempt
  BY <1>1, <1>4 DEF MacViewed, SeenOfAttempt, Mac!Alive
\* A kill.
<1>5. ASSUME mac'.child = mac.child, mac.child # "none", mac'.killed,
             mac'.ended = mac.ended, mac'.late = mac.late, mac'.heavy = mac.heavy,
             mac'.exceeded = mac.exceeded, mac'.result = mac.result
      PROVE  Contract!Next \/ UNCHANGED SeenOfAttempt
  <2>1. CASE mac.killed \/ mac.child \in {"zombie", "reaped"}
    BY <1>1, <1>5, <2>1 DEF MacViewed, SeenOfAttempt
  <2>2. CASE ~mac.killed /\ mac.child \notin {"zombie", "reaped"}
    <3>1. /\ GroupOn(platform) = "alive" /\ GroupOn(platform)' = "doomed"
          /\ UNCHANGED <<HowEnded, CausesSeen, ResultOf(KernelResult)>>
      BY <1>1, <1>3, <1>5, <2>2 DEF MacViewed
    <3> QED
      BY <3>1 DEF Contract!Next, Contract!GroupIsDoomed
  <2> QED
    BY <2>1, <2>2
\* A cause: the deadline, the footprint, a stream.
<1>6. ASSUME mac'.child = mac.child, mac'.ended = mac.ended, mac'.killed = mac.killed,
             mac'.result = mac.result, NEW c \in Contract!Causes,
             c \notin CausesSeen, CausesSeen' = CausesSeen \union {c}
      PROVE  Contract!Next
  <2>1. UNCHANGED <<GroupOn(platform), HowEnded, ResultOf(KernelResult)>>
    BY <1>1, <1>6 DEF MacViewed
  <2> QED
    BY <1>6, <2>1 DEF Contract!Next, Contract!CauseArises
\* The end of the process.
<1>7. ASSUME mac.child \in Mac!Alive, NEW how \in {"exited", "signaled", "killed"},
             how = "killed" => mac.killed,
             mac' = [mac EXCEPT !.child = "zombie", !.ended = how]
      PROVE  Contract!Next
  <2>1. /\ mac'.child = "zombie" /\ mac'.ended = how /\ mac'.killed = mac.killed
        /\ mac'.late = mac.late /\ mac'.heavy = mac.heavy /\ mac'.exceeded = mac.exceeded
        /\ mac'.result = mac.result /\ mac.ended = "not"
    BY <1>2, <1>7 DEF Mac!Attempts, Mac!ChildInv
  <2>2. /\ GroupOn(platform) \in {"alive", "doomed"} /\ GroupOn(platform)' = "doomed"
        /\ mac.killed => GroupOn(platform) = "doomed"
        /\ UNCHANGED <<CausesSeen, ResultOf(KernelResult)>>
    BY <1>1, <1>7, <2>1 DEF MacViewed, Mac!Alive
  <2>3. /\ HowEnded = "not" /\ HowEnded' \in {"itself", "killed"}
        /\ HowEnded' = "killed" => how = "killed"
    BY <1>1, <2>1 DEF MacViewed, EndOf
  <2> QED
    BY <1>7, <2>2, <2>3 DEF Contract!Next, Contract!GroupEnds
\* The host collects it, and may return an error in the same step.
<1>8. ASSUME mac.child = "zombie", mac'.child = "reaped", mac'.ended = mac.ended,
             mac'.late = mac.late, mac'.heavy = mac.heavy, mac'.exceeded = mac.exceeded,
             mac'.result = mac.result \/ (mac.result = "none" /\ mac'.result = "error")
      PROVE  Contract!Next
  <2>1. /\ GroupOn(platform) = "doomed" /\ GroupOn(platform)' = "gone"
        /\ HowEnded # "not" /\ UNCHANGED <<HowEnded, CausesSeen>>
    BY <1>1, <1>2, <1>8 DEF MacViewed, EndOf, Mac!ChildInv, Mac!Alive
  <2>2. \/ ResultOf(KernelResult)' = ResultOf(KernelResult)
        \/ ResultOf(KernelResult) = "none" /\ ResultOf(KernelResult)' = "error"
    BY <1>1, <1>8 DEF MacViewed, ResultOf
  <2> QED
    BY <2>1, <2>2 DEF Contract!Next, Contract!GroupIsCollected, Contract!ReturnsError
\* An error is returned when nothing runs.
<1>9. ASSUME mac'.child = mac.child, mac.child \in {"none", "reaped"}, mac.result = "none",
             mac'.result = "error", mac'.ended = mac.ended, mac'.killed = mac.killed,
             mac'.late = mac.late, mac'.heavy = mac.heavy, mac'.exceeded = mac.exceeded
      PROVE  Contract!Next
  <2>1. /\ GroupOn(platform)' = GroupOn(platform) /\ GroupOn(platform) # "alive"
        /\ UNCHANGED <<HowEnded, CausesSeen>>
        /\ ResultOf(KernelResult) = "none" /\ ResultOf(KernelResult)' = "error"
    BY <1>1, <1>9 DEF MacViewed, ResultOf
  <2> QED
    BY <2>1 DEF Contract!Next, Contract!ReturnsError
\* The result that is reported.
<1>10. CASE Mac!Classify
  <2>1. PICK t : mac.pc = "classify" /\ t = Mac!Termination
                 /\ mac' = [mac EXCEPT !.pc = "done", !.result = t]
    BY <1>10 DEF Mac!Classify, Mac!At, Mac!Return
  <2>2. /\ mac'.child = mac.child /\ mac.child = "reaped" /\ mac.result = "none"
        /\ mac'.ended = mac.ended /\ mac'.killed = mac.killed /\ mac'.result = t
        /\ mac'.late = mac.late /\ mac'.heavy = mac.heavy /\ mac'.exceeded = mac.exceeded
    BY <1>2, <2>1 DEF Mac!Attempts, Mac!ChildInv, Mac!ResultInv
  <2>3. /\ UNCHANGED <<GroupOn(platform), HowEnded, CausesSeen>> /\ GroupOn(platform) = "gone"
        /\ ResultOf(KernelResult) = "none" /\ ResultOf(KernelResult)' = ResultOf(t)
    BY <1>1, <2>2 DEF MacViewed, ResultOf
  <2>4. /\ t = "memoryLimitKilled" => mac.heavy
        /\ t = "deadlineKilled" => mac.late
        /\ t \in {"exited", "signaled"} => mac.ended # "killed" \/ mac.exceeded # {}
        /\ t \in {"memoryLimitKilled", "deadlineKilled", "exited", "signaled"}
    <3>1. mac.reason \in {"none", "memory", "stream", "deadline"}
      BY <1>2 DEF Mac!Attempts
    <3> QED
      BY <1>2, <2>1, <3>1 DEF Mac!Termination, Mac!KillInv
  <2>5. mac.ended # "not"
    BY <1>2, <2>2 DEF Mac!ChildInv, Mac!Alive
  <2>6. Contract!Truthful(ResultOf(t))
    <3>1. CASE t = "memoryLimitKilled"
      BY <1>1, <2>4, <3>1 DEF MacViewed, ResultOf, Has, Contract!Truthful
    <3>2. CASE t = "deadlineKilled"
      BY <1>1, <2>4, <3>2 DEF MacViewed, ResultOf, Has, Contract!Truthful
    <3>3. CASE t \in {"exited", "signaled"}
      <4>1. ResultOf(t) = "own"
        BY <3>3 DEF ResultOf
      <4>2. HowEnded = "itself" \/ "stream" \in CausesSeen
        BY <1>1, <1>3, <2>4, <2>5, <3>3 DEF MacViewed, EndOf, Has
      <4> QED
        BY <4>1, <4>2 DEF Contract!Truthful
    <3> QED
      BY <2>4, <3>1, <3>2, <3>3
  <2>7. ResultOf(t) \in Contract!Results \ {"none", "error"}
    BY <2>4 DEF ResultOf, Contract!Results
  <2> QED
    BY <2>3, <2>6, <2>7 DEF Contract!Next, Contract!ReturnsResult
<1>11. CASE Mac!Spawn
  <2>1. /\ mac.child = "none" /\ ~mac.killed /\ mac'.child = "launcher"
            /\ mac'.ended = mac.ended
        /\ mac'.killed = mac.killed /\ mac'.late = mac.late /\ mac'.heavy = mac.heavy
        /\ mac'.exceeded = mac.exceeded /\ mac'.result = mac.result
    BY <1>2, <1>11 DEF Mac!Spawn, Mac!At, Mac!Attempts, Mac!ChildInv, Mac!KillInv
  <2>2. /\ GroupOn(platform) = "none" /\ GroupOn(platform)' = "alive"
        /\ UNCHANGED <<HowEnded, CausesSeen, ResultOf(KernelResult)>>
    BY <1>1, <2>1 DEF MacViewed
  <2> QED
    BY <2>2 DEF Contract!Next, Contract!GroupStarts
<1> USE DEF Mac!At, Mac!Goto, Mac!Return
<1>12. CASE Mac!WriteInput \/ Mac!More \/ Mac!VerifyGroupEmpty \/ Mac!GracePasses
  BY <1>2, <1>4, <1>12
  DEF Mac!WriteInput, Mac!More, Mac!VerifyGroupEmpty, Mac!GracePasses, Mac!Attempts
<1>26. CASE Mac!CloseExceeded \/ Mac!LauncherExecutes
  BY <1>2, <1>4, <1>26, ZenonT(60)
  DEF Mac!CloseExceeded, Mac!LauncherExecutes, Mac!Alive, Mac!Attempts
<1>27. CASE Mac!ReadSome \/ Mac!PluginWrites
  <2>1. CASE Mac!ReadSome
    <3>1. PICK n \in 1 .. Mac!InPipe :
             mac' = [mac EXCEPT !.taken[mac.stream] = @ + n,
                                !.probing = mac.taken[mac.stream] + n >= Mac!Limit]
      BY <2>1 DEF Mac!ReadSome
    <3> QED
      BY <1>2, <1>4, <3>1 DEF Mac!Attempts
  <2>2. CASE Mac!PluginWrites
    <3>1. PICK s \in Mac!Streams : mac' = [mac EXCEPT !.sent[s] = @ + 1]
      BY <2>2 DEF Mac!PluginWrites
    <3> QED
      BY <1>2, <1>4, <3>1 DEF Mac!Attempts
  <2> QED
    BY <1>27, <2>1, <2>2
<1>13. CASE Mac!CheckLimits
  <2>1. CASE mac' = [mac EXCEPT !.pc = "spawn"]
    BY <1>2, <1>4, <2>1 DEF Mac!Attempts
  <2>2. CASE mac' = [mac EXCEPT !.pc = "done", !.result = "error"]
    <3>1. mac.child = "none" /\ mac.result = "none"
      BY <1>2, <1>13 DEF Mac!CheckLimits, Mac!ChildInv, Mac!ResultInv, Mac!Attempts
    <3> QED
      BY <1>2, <1>9, <2>2, <3>1 DEF Mac!Attempts
  <2> QED
    BY <1>13, <2>1, <2>2 DEF Mac!CheckLimits
<1>14. CASE Mac!DrainSkips \/ Mac!ReadNothing
  <2>1. PICK s \in Mac!Streams, p \in Mac!Places :
            Mac!AfterDrain = [mac EXCEPT !.stream = s, !.pc = p]
    BY <1>2, <1>14, MacAfterDrain DEF Mac!DrainSkips, Mac!ReadNothing
  <2>2. \/ mac' = [mac EXCEPT !.stream = s, !.pc = p]
        \/ \E c : mac' = [[mac EXCEPT !.stream = s, !.pc = p] EXCEPT !.closed = c]
    BY <1>14, <2>1 DEF Mac!DrainSkips, Mac!ReadNothing
  <2> QED
    BY <1>2, <1>4, <2>2 DEF Mac!Attempts
<1>15. CASE Mac!Probe
  <2>1. CASE Mac!InPipe > 0
    <3>1. PICK s \in Mac!Streams, p \in Mac!Places :
              Mac!AfterDrain = [mac EXCEPT !.stream = s, !.pc = p]
      BY <1>2, <1>15, MacAfterDrain DEF Mac!Probe
    <3> DEFINE u == [mac.taken EXCEPT ![mac.stream] = @ + 1]
    <3>2. mac' = [mac EXCEPT !.stream = s, !.pc = p, !.taken = u, !.probing = FALSE,
                             !.exceeded = mac.exceeded \union {mac.stream}]
      BY <1>2, <1>15, <2>1, <3>1 DEF Mac!Probe, Mac!Attempts
    <3>3. /\ mac'.child = mac.child /\ mac'.ended = mac.ended /\ mac'.killed = mac.killed
          /\ mac'.late = mac.late /\ mac'.heavy = mac.heavy /\ mac'.result = mac.result
          /\ mac'.exceeded = mac.exceeded \union {mac.stream}
      BY <1>2, <3>2 DEF Mac!Attempts
    <3>4. CASE mac.exceeded # {}
      BY <1>4, <3>3, <3>4
    <3>5. CASE mac.exceeded = {}
      <4>1. "stream" \notin CausesSeen /\ CausesSeen' = CausesSeen \union {"stream"}
        BY <1>1, <3>3, <3>5 DEF MacViewed, Has
      <4> QED
        BY <1>6, <3>3, <4>1 DEF Contract!Causes
    <3> QED
      BY <3>4, <3>5
  <2>2. CASE ~(Mac!InPipe > 0)
    <3>1. PICK q, c : mac' = [mac EXCEPT !.probing = FALSE, !.quiet = q, !.closed = c]
      BY <1>15, <2>2 DEF Mac!Probe
    <3> QED
      BY <1>2, <1>4, <3>1 DEF Mac!Attempts
  <2> QED
    BY <2>1, <2>2
<1>16. CASE Mac!TestMemory
  <2>1. CASE mac.heavy /\ ~Mac!Ended /\ mac.reason = "none"
    <3>1. mac' = [mac EXCEPT !.reason = "memory", !.killed = TRUE, !.pc = "tests"]
      BY <1>2, <1>16, <2>1 DEF Mac!TestMemory, Mac!KillFor, Mac!Attempts
    <3>2. /\ mac'.child = mac.child /\ mac'.ended = mac.ended /\ mac'.killed
          /\ mac'.late = mac.late /\ mac'.heavy = mac.heavy /\ mac'.result = mac.result
          /\ mac'.exceeded = mac.exceeded
      BY <1>2, <3>1 DEF Mac!Attempts
    <3> QED
      BY <1>5, <2>1, <3>2 DEF Mac!Ended, Mac!Alive
  <2>2. CASE ~(mac.heavy /\ ~Mac!Ended /\ mac.reason = "none")
    BY <1>2, <1>4, <1>16, <2>2 DEF Mac!TestMemory, Mac!Attempts
  <2> QED
    BY <2>1, <2>2
<1>17. CASE Mac!TestStreamsAndDeadline
  <2>1. mac.child # "none"
    BY <1>2, <1>17 DEF Mac!TestStreamsAndDeadline, Mac!ChildInv, Mac!Alive, Mac!Attempts
  <2>2. \/ mac' = [mac EXCEPT !.pc = "wait"]
        \/ \E why : mac' = [mac EXCEPT !.reason = why, !.killed = TRUE, !.pc = "wait"]
    BY <1>2, <1>17, ZenonT(60) DEF Mac!TestStreamsAndDeadline, Mac!KillFor, Mac!Attempts
  <2>3. CASE mac' = [mac EXCEPT !.pc = "wait"]
    BY <1>2, <1>4, <2>3 DEF Mac!Attempts
  <2>4. ASSUME NEW why, mac' = [mac EXCEPT !.reason = why, !.killed = TRUE, !.pc = "wait"]
        PROVE  Contract!Next \/ UNCHANGED SeenOfAttempt
    BY <1>2, <1>5, <2>1, <2>4 DEF Mac!Attempts
  <2> QED
    BY <2>2, <2>3, <2>4
<1>18. CASE Mac!WaitChild
  <2>1. CASE mac.child = "zombie"
    BY <1>2, <1>8, <1>18, <2>1 DEF Mac!WaitChild, Mac!Attempts
  <2>2. CASE mac.child # "zombie"
    BY <1>2, <1>4, <1>18, <2>2 DEF Mac!WaitChild, Mac!Attempts
  <2> QED
    BY <2>1, <2>2
<1>19. CASE Mac!CleanUp
  <2>1. CASE mac.child = "reaped"
    BY <1>2, <1>9, <1>19, <2>1 DEF Mac!CleanUp, Mac!ResultInv, Mac!Attempts
  <2>2. CASE mac.child # "reaped"
    BY <1>2, <1>5, <1>19, <2>2 DEF Mac!CleanUp, Mac!ChildInv, Mac!Attempts
  <2> QED
    BY <2>1, <2>2
<1>20. CASE Mac!Await
  BY <1>2, <1>8, <1>20 DEF Mac!Await, Mac!ResultInv, Mac!Attempts
<1>21. CASE Mac!Fail
  <2>1. CASE mac.pc = "spawn"
    <3>1. mac.child = "none" /\ mac.result = "none"
      BY <1>2, <2>1 DEF Mac!ChildInv, Mac!ResultInv, Mac!Attempts
    <3> QED
      BY <1>2, <1>9, <1>21, <2>1, <3>1 DEF Mac!Fail, Mac!Attempts
  <2>2. CASE mac.pc # "spawn"
    BY <1>2, <1>4, <1>21, <2>2 DEF Mac!Fail, Mac!Attempts
  <2> QED
    BY <2>1, <2>2
<1>22. CASE Mac!PluginGrows
  <2>1. /\ mac'.child = mac.child /\ mac'.ended = mac.ended /\ mac'.killed = mac.killed
        /\ mac'.late = mac.late /\ ~mac.heavy /\ mac'.heavy /\ mac'.result = mac.result
        /\ mac'.exceeded = mac.exceeded
    BY <1>2, <1>22 DEF Mac!PluginGrows, Mac!Attempts
  <2>2. "memory" \notin CausesSeen /\ CausesSeen' = CausesSeen \union {"memory"}
    BY <1>1, <2>1 DEF MacViewed, Has
  <2> QED
    BY <1>6, <2>1, <2>2 DEF Contract!Causes
<1>23. CASE Mac!DeadlinePasses
  <2>1. /\ mac'.child = mac.child /\ mac'.ended = mac.ended /\ mac'.killed = mac.killed
        /\ ~mac.late /\ mac'.late /\ mac'.heavy = mac.heavy /\ mac'.result = mac.result
        /\ mac'.exceeded = mac.exceeded
    BY <1>2, <1>23 DEF Mac!DeadlinePasses, Mac!Attempts
  <2>2. "deadline" \notin CausesSeen /\ CausesSeen' = CausesSeen \union {"deadline"}
    BY <1>1, <2>1 DEF MacViewed, Has
  <2> QED
    BY <1>6, <2>1, <2>2 DEF Contract!Causes
<1>24. CASE Mac!ChildEnds \/ Mac!KernelKills
  BY <1>7, <1>24 DEF Mac!ChildEnds, Mac!KernelKills, Mac!EndChild, Mac!Ended, Mac!Attempts
<1>25. CASE UNCHANGED mac
  BY <1>4, <1>25 DEF Mac!Attempts
<1> QED
  BY <1>10, <1>11, <1>12, <1>13, <1>14, <1>15, <1>16, <1>17, <1>18, <1>19, <1>20, <1>21,
    <1>22,
     <1>23, <1>24, <1>25, <1>26, <1>27 DEF MacStep, Mac!Host, Mac!Child

\* On Windows every step of the kernel is one of the contract, or nothing it sees.
LEMMA WindowsKeepsContract ==
    ASSUME DriverIInv, Windows!AttemptIInv', platform = "windows", platform' = platform,
           WindowsStep \/ UNCHANGED win
    PROVE  Contract!Next \/ UNCHANGED SeenOfAttempt
<1>1. WindowsViewed /\ WindowsViewed'
  <2>1. /\ platform = "windows" /\ win \in Windows!Attempts
        /\ (platform = "windows" /\ win \in Windows!Attempts)'
    BY DEF DriverIInv, Windows!AttemptIInv
  <2>2. (platform = "windows" /\ win \in Windows!Attempts)' => WindowsViewed'
    BY WindowsView, PTL
  <2> QED
    BY <2>1, <2>2, WindowsView
<1>2. /\ win \in Windows!Attempts /\ Windows!ProcessInv /\ Windows!KillInv /\ Windows!DrainInv
      /\ Windows!ResultInv
  BY DEF DriverIInv, Windows!AttemptIInv
<1>3. /\ win.process \in {"none", "gone", "suspended", "running"}
      /\ win.ended \in {"not", "itself", "killed"} /\ win.exceeded \subseteq Windows!Streams
      /\ {win.killed, win.late, win.violated, win.assigned, win.jobOpen} \subseteq BOOLEAN
      /\ win.process # "none" /\ win.process # "gone"
           => win.process \in {"suspended", "running"}
  BY <1>2 DEF Windows!Attempts, Windows!Alive
<1> DEFINE Ending == win.killed \/ (win.assigned /\ ~win.jobOpen)
           Kept == /\ win'.ended = win.ended /\ win'.late = win.late
                   /\ win'.violated = win.violated /\ win'.exceeded = win.exceeded
\* Nothing that the contract sees.
<1>4. ASSUME Kept, win'.process = win.process, win'.result = win.result,
             Ending' = Ending \/ win.process \in {"none", "gone"}
      PROVE  UNCHANGED SeenOfAttempt
  <2>1. GroupOn(platform)' = GroupOn(platform)
    BY <1>1, <1>4 DEF WindowsViewed
  <2> QED
    BY <1>1, <1>4, <2>1 DEF WindowsViewed, SeenOfAttempt
\* A kill.
<1>5. ASSUME Kept, win'.process = win.process, win.process # "none", win'.killed,
             win'.result = win.result
      PROVE  Contract!Next \/ UNCHANGED SeenOfAttempt
  <2>1. CASE Ending \/ win.process = "gone"
    BY <1>4, <1>5, <2>1
  <2>2. CASE ~Ending /\ win.process # "gone"
    <3>1. /\ GroupOn(platform) \in {"idle", "alive"} /\ GroupOn(platform)' = "doomed"
          /\ UNCHANGED <<HowEnded, CausesSeen, ResultOf(KernelResult)>>
      BY <1>1, <1>3, <1>5, <2>2 DEF WindowsViewed
    <3> QED
      BY <3>1 DEF Contract!Next, Contract!GroupIsDoomed
  <2> QED
    BY <2>1, <2>2
\* A cause: the deadline, the job's word on memory, a stream.
<1>6. ASSUME win'.process = win.process, win'.ended = win.ended, Ending' = Ending,
             win'.result = win.result, NEW c \in Contract!Causes,
             c \notin CausesSeen, CausesSeen' = CausesSeen \union {c}
      PROVE  Contract!Next
  <2>1. UNCHANGED <<GroupOn(platform), HowEnded, ResultOf(KernelResult)>>
    BY <1>1, <1>6 DEF WindowsViewed
  <2> QED
    BY <1>6, <2>1 DEF Contract!Next, Contract!CauseArises
\* The end of the process.
<1>7. ASSUME NEW how \in {"itself", "killed"}, win.process \in {"suspended", "running"},
             how = "killed" => Ending, how = "itself" => win.process = "running",
             win' = [win EXCEPT !.process = "gone", !.ended = how]
      PROVE  Contract!Next
  <2>1. /\ win'.process = "gone" /\ win'.ended = how /\ win'.late = win.late
        /\ win'.violated = win.violated /\ win'.exceeded = win.exceeded
        /\ win'.result = win.result /\ win.ended = "not"
    BY <1>2, <1>7 DEF Windows!Attempts, Windows!ProcessInv
  <2>2. /\ GroupOn(platform) \in {"alive", "doomed"} /\ GroupOn(platform)' = "gone"
        /\ how = "killed" => GroupOn(platform) = "doomed"
        /\ UNCHANGED <<CausesSeen, ResultOf(KernelResult)>>
    BY <1>1, <1>7, <2>1 DEF WindowsViewed
  <2>3. HowEnded = "not" /\ HowEnded' = how
    BY <1>1, <2>1 DEF WindowsViewed, EndOf
  <2> QED
    BY <1>7, <2>2, <2>3 DEF Contract!Next, Contract!GroupEnds
\* An error is returned, and the job closes with it.
<1>8. ASSUME Kept, win'.process = win.process, win'.killed = win.killed,
             win'.assigned = win.assigned, ~win'.jobOpen, win.result = "none",
             win'.result = "error", win.process = "running" => win.assigned
      PROVE  Contract!Next
  <2>1. /\ UNCHANGED <<HowEnded, CausesSeen>>
        /\ ResultOf(KernelResult) = "none" /\ ResultOf(KernelResult)' = "error"
    BY <1>1, <1>8 DEF WindowsViewed, ResultOf
  <2>2. /\ \/ GroupOn(platform)' = GroupOn(platform)
           \/ GroupOn(platform) \in {"idle", "alive"} /\ GroupOn(platform)' = "doomed"
        /\ GroupOn(platform)' # "alive"
    BY <1>1, <1>3, <1>8 DEF WindowsViewed
  <2> QED
    BY <2>1, <2>2 DEF Contract!Next, Contract!ReturnsError
\* The result that is reported.
<1>9. CASE Windows!Classify
  <2>1. PICK x : win.pc = "classify" /\ x = Windows!Termination
                 /\ win' = [win EXCEPT !.pc = "done", !.result = x, !.jobOpen = FALSE]
    BY <1>9 DEF Windows!Classify, Windows!At, Windows!Return
  <2>2. /\ win'.process = "gone" /\ win.process = "gone" /\ win.result = "none"
        /\ Kept /\ win'.result = x
    BY <1>2, <2>1 DEF Windows!Attempts, Windows!ProcessInv, Windows!ResultInv, Windows!Gone
  <2>3. /\ UNCHANGED <<GroupOn(platform), HowEnded, CausesSeen>> /\ GroupOn(platform) = "gone"
        /\ ResultOf(KernelResult) = "none" /\ ResultOf(KernelResult)' = ResultOf(x)
    BY <1>1, <2>2 DEF WindowsViewed, ResultOf
  <2>4. win.ended \in {"itself", "killed"} /\ (win.ended = "killed" => win.reasons # {})
    BY <1>2, <1>3, <2>1, <2>2 DEF Windows!ProcessInv, Windows!KillInv
  <2>5. /\ "deadline" \in win.reasons => win.late
        /\ "memory" \in win.reasons => win.violated
        /\ "stream" \in win.reasons => win.exceeded # {}
        /\ win.reasons \subseteq {"memory", "stream", "deadline"}
    BY <1>2 DEF Windows!KillInv, Windows!Attempts
  <2>6. CASE "deadline" \in win.reasons
    <3>1. ResultOf(x) = "deadlineKilled" /\ "deadline" \in CausesSeen
      BY <1>1, <2>1, <2>5, <2>6 DEF Windows!Termination, ResultOf, WindowsViewed, Has
    <3> QED
      BY <2>3, <3>1
      DEF Contract!Next, Contract!ReturnsResult, Contract!Results, Contract!Truthful
  <2>7. CASE "deadline" \notin win.reasons /\ "memory" \in win.reasons
    <3>1. ResultOf(x) = "memoryLimitKilled" /\ "memory" \in CausesSeen
      BY <1>1, <2>1, <2>5, <2>7 DEF Windows!Termination, ResultOf, WindowsViewed, Has
    <3> QED
      BY <2>3, <3>1
      DEF Contract!Next, Contract!ReturnsResult, Contract!Results, Contract!Truthful
  <2>8. CASE "deadline" \notin win.reasons /\ "memory" \notin win.reasons
    <3>1. ResultOf(x) = "own"
      BY <2>1, <2>8 DEF Windows!Termination, ResultOf
    <3>2. HowEnded = "itself" \/ "stream" \in CausesSeen
      BY <1>1, <2>4, <2>5, <2>8 DEF WindowsViewed, EndOf, Has
    <3> QED
      BY <2>3, <3>1, <3>2 DEF Contract!Next, Contract!ReturnsResult, Contract!Results,
                              Contract!Truthful
  <2> QED
    BY <2>6, <2>7, <2>8
\* The process is made, suspended, and let run.
<1>10. CASE Windows!CreateSuspended
  <2>1. /\ win.process = "none" /\ ~win.killed /\ ~win.assigned /\ win'.process = "suspended"
        /\ Kept /\ win'.killed = win.killed /\ win'.assigned = win.assigned
        /\ win'.result = win.result
    BY <1>2, <1>10
    DEF Windows!CreateSuspended, Windows!At, Windows!Attempts, Windows!ProcessInv
  <2>2. /\ GroupOn(platform) = "none" /\ GroupOn(platform)' = "idle"
        /\ UNCHANGED <<HowEnded, CausesSeen, ResultOf(KernelResult)>>
    BY <1>1, <2>1 DEF WindowsViewed
  <2> QED
    BY <2>2 DEF Contract!Next, Contract!GroupStarts
<1>11. CASE Windows!Resume
  <2>1. /\ win.process = "suspended" /\ ~win.killed /\ win.jobOpen /\ win'.process = "running"
        /\ Kept /\ win'.killed = win.killed /\ win'.jobOpen = win.jobOpen
        /\ win'.result = win.result
    BY <1>2, <1>11 DEF Windows!Resume, Windows!At, Windows!Attempts, Windows!ProcessInv
  <2>2. /\ GroupOn(platform) = "idle" /\ GroupOn(platform)' = "alive"
        /\ UNCHANGED <<HowEnded, CausesSeen, ResultOf(KernelResult)>>
    BY <1>1, <2>1 DEF WindowsViewed
  <2> QED
    BY <2>2 DEF Contract!Next, Contract!GroupStarts
<1> USE DEF Windows!At, Windows!Goto, Windows!Return
<1>12. CASE Windows!Assign
  <2>1. /\ Kept /\ win'.process = win.process /\ win'.result = win.result
        /\ ~win.assigned /\ win.jobOpen /\ win'.jobOpen /\ win'.killed = win.killed
    BY <1>2, <1>12 DEF Windows!Assign, Windows!Attempts, Windows!ProcessInv
  <2> QED
    BY <1>4, <2>1
<1>13. CASE \/ Windows!SpawnWriter \/ Windows!WaitProcess \/ Windows!TestGrace
            \/ Windows!JoinWriter \/ Windows!CleanUpReap
  <2>1. /\ Kept /\ win'.process = win.process /\ win'.result = win.result
        /\ win'.killed = win.killed /\ win'.assigned = win.assigned
             /\ win'.jobOpen = win.jobOpen
    BY <1>2, <1>13, ZenonT(60) DEF Windows!Attempts, Windows!SpawnWriter, Windows!WaitProcess,
         Windows!TestGrace, Windows!JoinWriter, Windows!CleanUpReap
  <2> QED
    BY <1>4, <2>1
<1>14. CASE \/ Windows!PluginWrites \/ Windows!WriterDone \/ Windows!WriterFails
            \/ Windows!TimeoutPasses \/ Windows!Observe
  <2>1. /\ Kept /\ win'.process = win.process /\ win'.result = win.result
        /\ win'.killed = win.killed /\ win'.assigned = win.assigned
             /\ win'.jobOpen = win.jobOpen
    BY <1>2, <1>14 DEF Windows!Attempts, Windows!PluginWrites, Windows!WriterDone,
         Windows!WriterFails, Windows!TimeoutPasses, Windows!Observe
  <2> QED
    BY <1>4, <2>1
<1>15. CASE Windows!PeekNothing
  <2>1. PICK s, p, c : win' = [[win EXCEPT !.stream = s, !.pc = p] EXCEPT !.closed = c]
                       \/ win' = [[win EXCEPT !.stream = s] EXCEPT !.closed = c]
    BY <1>15 DEF Windows!PeekNothing, Windows!AfterDrain
  <2>2. /\ Kept /\ win'.process = win.process /\ win'.result = win.result
        /\ win'.killed = win.killed /\ win'.assigned = win.assigned
             /\ win'.jobOpen = win.jobOpen
    BY <1>2, <2>1 DEF Windows!Attempts
  <2> QED
    BY <1>4, <2>2
<1>16. CASE Windows!ReadSome
  <2>1. PICK w, e : /\ win' = [win EXCEPT !.waiting = w, !.exceeded = e]
                    /\ win.exceeded \subseteq e
    BY <1>16 DEF Windows!ReadSome
  <2>2. /\ win'.process = win.process /\ win'.result = win.result /\ win'.ended = win.ended
        /\ win'.killed = win.killed /\ win'.assigned = win.assigned
             /\ win'.jobOpen = win.jobOpen
        /\ win'.late = win.late /\ win'.violated = win.violated /\ win'.exceeded = e
    BY <1>2, <2>1 DEF Windows!Attempts
  <2>3. CASE (win.exceeded = {}) <=> (e = {})
    <3>1. UNCHANGED CausesSeen
      BY <1>1, <2>2, <2>3 DEF WindowsViewed, Has
    <3> QED
      BY <1>1, <2>2, <3>1 DEF WindowsViewed, SeenOfAttempt
  <2>4. CASE win.exceeded = {} /\ e # {}
    <3>1. "stream" \notin CausesSeen /\ CausesSeen' = CausesSeen \union {"stream"}
      BY <1>1, <2>2, <2>4 DEF WindowsViewed, Has
    <3> QED
      BY <1>6, <2>2, <3>1 DEF Contract!Causes
  <2> QED
    BY <2>1, <2>3, <2>4
\* A kill for a reason, written in one step.
<1>17. ASSUME NEW place, NEW rs, NEW taken, win.process # "none",
              win' = [win EXCEPT !.killed = TRUE, !.reasons = rs, !.overdue = FALSE,
                                 !.notice = taken, !.pc = place]
       PROVE  Contract!Next \/ UNCHANGED SeenOfAttempt
  <2>1. Kept /\ win'.process = win.process /\ win'.result = win.result /\ win'.killed
    BY <1>2, <1>17 DEF Windows!Attempts
  <2> QED
    BY <1>5, <1>17, <2>1
<1>18. ASSUME NEW place, NEW taken, win' = [win EXCEPT !.notice = taken, !.pc = place]
       PROVE  UNCHANGED SeenOfAttempt
  <2>1. /\ Kept /\ win'.process = win.process /\ win'.result = win.result
        /\ win'.killed = win.killed /\ win'.assigned = win.assigned
             /\ win'.jobOpen = win.jobOpen
    BY <1>2, <1>18 DEF Windows!Attempts
  <2> QED
    BY <1>4, <2>1
<1>19. CASE Windows!TakeNotices
  <2>1. CASE win.notice /\ win.reasons = {}
    <3>1. win' = [win EXCEPT !.killed = TRUE, !.reasons = win.reasons \union {"memory"},
                             !.overdue = FALSE, !.notice = FALSE, !.pc = "streams"]
      BY <1>19, <2>1 DEF Windows!TakeNotices, Windows!KillFor
    <3>2. win.process # "none"
      BY <1>2, <1>19 DEF Windows!TakeNotices, Windows!ProcessInv
    <3> QED
      BY <1>17, <3>1, <3>2
  <2>2. CASE ~(win.notice /\ win.reasons = {})
    BY <1>18, <1>19, <2>2 DEF Windows!TakeNotices
  <2> QED
    BY <2>1, <2>2
<1>20. CASE Windows!TestStreams
  <2>1. CASE win.exceeded # {} /\ "stream" \notin win.reasons
    <3>1. win' = [win EXCEPT !.killed = TRUE, !.reasons = win.reasons \union {"stream"},
                             !.overdue = FALSE, !.notice = win.notice, !.pc = "wait"]
      BY <1>2, <1>20, <2>1 DEF Windows!TestStreams, Windows!KillFor, Windows!Attempts
    <3>2. win.process # "none"
      BY <1>2, <1>20 DEF Windows!TestStreams, Windows!ProcessInv
    <3> QED
      BY <1>17, <3>1, <3>2
  <2>2. CASE ~(win.exceeded # {} /\ "stream" \notin win.reasons)
    <3>1. win' = [win EXCEPT !.notice = win.notice, !.pc = "wait"]
      BY <1>2, <1>20, <2>2 DEF Windows!TestStreams, Windows!Attempts
    <3> QED
      BY <1>18, <3>1
  <2> QED
    BY <2>1, <2>2
<1>21. CASE Windows!TestDeadline
  <2>1. CASE win.late /\ win.reasons \intersect {"stream", "deadline"} = {}
    <3>1. win' = [win EXCEPT !.killed = TRUE, !.reasons = win.reasons \union {"deadline"},
                             !.overdue = FALSE, !.notice = win.notice, !.pc = "grace"]
      BY <1>2, <1>21, <2>1 DEF Windows!TestDeadline, Windows!KillFor, Windows!Attempts
    <3>2. win.process # "none"
      BY <1>2, <1>21 DEF Windows!TestDeadline, Windows!ProcessInv
    <3> QED
      BY <1>17, <3>1, <3>2
  <2>2. CASE ~(win.late /\ win.reasons \intersect {"stream", "deadline"} = {})
    <3>1. win' = [win EXCEPT !.notice = win.notice, !.pc = "grace"]
      BY <1>2, <1>21, <2>2 DEF Windows!TestDeadline, Windows!Attempts
    <3> QED
      BY <1>18, <3>1
  <2> QED
    BY <2>1, <2>2
<1>22. CASE Windows!Terminate \/ Windows!CleanUp
  <2>1. /\ Kept /\ win'.process = win.process /\ win'.result = win.result /\ win'.killed
    BY <1>2, <1>22 DEF Windows!Attempts, Windows!Terminate, Windows!CleanUp
  <2>2. win.process # "none"
    BY <1>2, <1>22 DEF Windows!ProcessInv, Windows!Terminate, Windows!CleanUp
  <2> QED
    BY <1>5, <2>1, <2>2
\* The ways to return an error.
<1>23. ASSUME win.pc # "done", NEW f,
              win' = [win EXCEPT !.pc = "done", !.result = "error", !.jobOpen = FALSE,
                                 !.failures = f]
       PROVE  Contract!Next
  <2>1. /\ Kept /\ win'.process = win.process /\ win'.killed = win.killed
        /\ win'.assigned = win.assigned /\ ~win'.jobOpen /\ win'.result = "error"
    BY <1>2, <1>23 DEF Windows!Attempts
  <2>2. win.result = "none" /\ (win.process = "running" => win.assigned)
    BY <1>2, <1>23 DEF Windows!ResultInv, Windows!ProcessInv
  <2> QED
    BY <1>8, <2>1, <2>2
<1>24. ASSUME win.pc # "done", win' = Windows!Return("error")
       PROVE  Contract!Next
  <2>1. win' = [win EXCEPT !.pc = "done", !.result = "error", !.jobOpen = FALSE,
                           !.failures = win.failures]
    BY <1>2, <1>24 DEF Windows!Attempts
  <2> QED
    BY <1>23, <1>24, <2>1
<1>25. CASE Windows!CheckLoopback
  <2>1. CASE win' = [win EXCEPT !.pc = "create"]
    <3>1. win' = [win EXCEPT !.notice = win.notice, !.pc = "create"]
      BY <1>2, <2>1 DEF Windows!Attempts
    <3> QED
      BY <1>18, <3>1
  <2>2. CASE win' = Windows!Return("error")
    BY <1>24, <1>25, <2>2 DEF Windows!CheckLoopback
  <2> QED
    BY <1>25, <2>1, <2>2 DEF Windows!CheckLoopback
<1>26. CASE Windows!Reap \/ Windows!JoinLast
  <2>1. win.pc # "done" /\ win' = Windows!Return("error")
    BY <1>26 DEF Windows!Reap, Windows!JoinLast
  <2> QED
    BY <1>24, <2>1
<1>27. CASE Windows!Fail
  <2> DEFINE f == win.failures + 1
  <2>1. CASE win.pc \in {"loopback", "create", "endUnassigned", "endJob"}
    <3>1. win' = [win EXCEPT !.pc = "done", !.result = "error", !.jobOpen = FALSE,
                             !.failures = f]
      BY <1>27, <2>1 DEF Windows!Fail
    <3> QED
      BY <1>23, <2>1, <3>1
  <2>2. CASE win.pc \notin {"loopback", "create", "endUnassigned", "endJob"}
    <3>1. PICK place, due : win' = [win EXCEPT !.pc = place, !.overdue = due, !.failures = f]
      <4>1. CASE win.pc = "cleanup"
        BY <1>27, <4>1 DEF Windows!Fail
      <4>2. CASE win.pc # "cleanup"
        <5>1. win' = [win EXCEPT !.pc = Windows!OnError(win.pc), !.failures = f]
          BY <1>27, <2>2, <4>2 DEF Windows!Fail
        <5>2. win' = [win EXCEPT !.pc = Windows!OnError(win.pc), !.overdue = win.overdue,
                                 !.failures = f]
          BY <1>2, <5>1 DEF Windows!Attempts
        <5> QED
          BY <5>2
      <4> QED
        BY <4>1, <4>2
    <3>2. /\ Kept /\ win'.process = win.process /\ win'.result = win.result
          /\ win'.killed = win.killed /\ win'.assigned = win.assigned
          /\ win'.jobOpen = win.jobOpen
      BY <1>2, <3>1 DEF Windows!Attempts
    <3> QED
      BY <1>4, <3>2
  <2> QED
    BY <2>1, <2>2
\* The causes, and the end of the process.
<1>28. CASE Windows!KernelReports
  <2>1. /\ win'.process = win.process /\ win'.ended = win.ended /\ win'.killed = win.killed
        /\ win'.assigned = win.assigned /\ win'.jobOpen = win.jobOpen
        /\ win'.result = win.result /\ win'.late = win.late /\ win'.exceeded = win.exceeded
        /\ ~win.violated /\ win'.violated
    BY <1>2, <1>28 DEF Windows!KernelReports, Windows!Attempts
  <2>2. "memory" \notin CausesSeen /\ CausesSeen' = CausesSeen \union {"memory"}
    BY <1>1, <2>1 DEF WindowsViewed, Has
  <2> QED
    BY <1>6, <2>1, <2>2 DEF Contract!Causes
<1>29. CASE Windows!DeadlinePasses
  <2>1. /\ win'.process = win.process /\ win'.ended = win.ended /\ win'.killed = win.killed
        /\ win'.assigned = win.assigned /\ win'.jobOpen = win.jobOpen
        /\ win'.result = win.result /\ win'.violated = win.violated
        /\ win'.exceeded = win.exceeded /\ ~win.late /\ win'.late
    BY <1>2, <1>29 DEF Windows!DeadlinePasses, Windows!Attempts
  <2>2. "deadline" \notin CausesSeen /\ CausesSeen' = CausesSeen \union {"deadline"}
    BY <1>1, <2>1 DEF WindowsViewed, Has
  <2> QED
    BY <1>6, <2>1, <2>2 DEF Contract!Causes
<1>30. CASE Windows!ProcessEnds
  BY <1>7, <1>30 DEF Windows!ProcessEnds, Windows!EndProcess, Windows!Running
<1>31. CASE Windows!KernelKills
  BY <1>7, <1>31 DEF Windows!KernelKills, Windows!EndProcess, Windows!Alive
<1>32. CASE UNCHANGED win
  BY <1>4, <1>32
<1> QED
  BY <1>9, <1>10, <1>11, <1>12, <1>13, <1>14, <1>15, <1>16, <1>19, <1>20, <1>21, <1>22, <1>25,
     <1>26, <1>27, <1>28, <1>29, <1>30, <1>31, <1>32
  DEF WindowsStep, Windows!Host, Windows!Setup, Windows!Watch, Windows!Plugin, Windows!Kernel

\* Every step of the driver is one of the contract, or nothing that the contract sees.
LEMMA DriverStepRefines ==
    ASSUME DriverIInv, DriverIInv', [DriverNext]_driverVars
    PROVE  [Contract!Next]_(Contract!contractVars)
<1>0. /\ platform \in {"linux", "macos", "windows"} /\ platform' = platform
      /\ AttemptIInv' /\ Mac!AttemptIInv' /\ Windows!AttemptIInv'
  BY DriverSteps, DriverAssumption
  DEF DriverIInv, Caller, ReplaceFile, driverVars, OnLinux, OnMac, OnWindows
<1>1. SUFFICES Contract!Next \/ UNCHANGED SeenOfAttempt
  BY DEF SeenOfAttempt, Contract!contractVars
<1>2. CASE platform = "linux"
  <2>1. [Next]_attemptVars
    BY <1>2, DriverSteps
    DEF Caller, ReplaceFile, driverVars, OnLinux, OnMac, OnWindows, LinuxEnv, Next
  <2> QED
    BY <1>0, <1>2, <2>1, LinuxKeepsContract
<1>3. CASE platform = "macos"
  <2>1. MacStep \/ UNCHANGED mac
    BY <1>3, DriverSteps
    DEF Caller, ReplaceFile, driverVars, OnLinux, OnMac, OnWindows, MacEnv, MacStep
  <2> QED
    BY <1>0, <1>3, <2>1, MacKeepsContract
<1>4. CASE platform = "windows"
  <2>1. WindowsStep \/ UNCHANGED win
    BY <1>4, DriverSteps
    DEF Caller, ReplaceFile, driverVars, OnLinux, OnMac, OnWindows, WindowsEnv, WindowsStep,
        Windows!Kernel, Windows!Plugin
  <2> QED
    BY <1>0, <1>4, <2>1, WindowsKeepsContract
<1> QED
  BY <1>0, <1>2, <1>3, <1>4

\* On every platform the driver implements the contract.
THEOREM DriverRefinement == DriverSpec => ImplementsContract
BY DriverInvariance, ContractStarts, DriverStepRefines, PTL
DEF DriverSpec, ImplementsContract, Contract!Spec
===============================================================================
