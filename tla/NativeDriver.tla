----------------------------- MODULE NativeDriver -----------------------------
(***************************************************************************)
(* One attempt seen from its caller: the certification driver of a         *)
(* platform, or the runtime host, verifies the executable, has the kernel  *)
(* of the platform run it, and reports what was observed.  Linux, macOS    *)
(* and Windows are three implementations of one contract, AttemptContract. *)
(***************************************************************************)
EXTENDS LinuxAttempt

CONSTANTS Platforms,       \* of {"linux", "macos", "windows"}
          MaxOutput        \* bound on units a macOS plugin writes

ASSUME DriverAssumption ==
    Platforms \subseteq {"linux", "macos", "windows"} /\ MaxOutput \in Nat

VARIABLES platform,
          call,            \* the caller: a record
          mac, win         \* the attempts of the other two platforms

Mac == INSTANCE MacAttempt
\* One failure more: it takes two to leave a process behind.
Windows == INSTANCE WindowsAttempt WITH MaxFailures <- MaxFailures + 1

driverVars == <<platform, call, mac, win, attemptVars>>

\* The subject names the digest of the right file.
Files == {"right", "other"}
\* The driver goes from preflight to verify, the runtime host from validate to
\* prepare, and both to the kernel.
CallPlaces == {"preflight", "verify", "validate", "prepare", "kernel", "done"}
Calls ==
    [place : CallPlaces, outcome : {"none", "error", "ok"},
     file : Files,                  \* what is at the executable's path
     replaced : BOOLEAN,            \* the file has been replaced, once at most
     changed : BOOLEAN,             \* ghost: after it was verified
     loaded : Files \union {"none"}]    \* ghost: what the kernel has executed

DriverInit ==
    /\ platform \in Platforms
    /\ \E front \in {"preflight", "validate"}, file \in Files :
          call = [place |-> front, outcome |-> "none", file |-> file,
                  replaced |-> FALSE, changed |-> FALSE, loaded |-> "none"]
    /\ Init /\ mac = Mac!Start /\ win = Windows!Start
    /\ platform # "linux" => leaf = "absent" /\ root = "absent"

-------------------------------------------------------------------------------
(* The caller *)

Placed(place) == call.place = place
CallGoes(place) == call' = [call EXCEPT !.place = place]
CallReturns(outcome) == call' = [call EXCEPT !.place = "done", !.outcome = outcome]

\* The driver's preflight, and the request's limits and names.
DriverPreflight == Placed("preflight") /\ (CallGoes("verify") \/ CallReturns("error"))

\* Fault: the executable is not hashed again.
VerifiedEarlier == TRUE

\* verify_artifact, digest_file: the file's bytes against the subject's digest.
IsVerified == call.file = "right"

VerifyArtifact ==
    \/ Placed("verify") /\ IF IsVerified THEN CallGoes("kernel") ELSE CallReturns("error")
    \/ /\ Placed("validate")
       /\ CallReturns("error") \/ (IsVerified /\ CallGoes("prepare"))

\* The runtime host configures and preflights after it has verified; on Windows
\* it makes the profile and grants access, too.
PreparePlatform == Placed("prepare") /\ (CallGoes("kernel") \/ CallReturns("error"))

KernelResult ==
    CASE platform = "linux" -> result
      [] platform = "macos" -> mac.result
      [] platform = "windows" -> win.result

\* The observation is returned as it is: the kernels keep the bounds that are
\* checked on it.
Observe ==
    /\ Placed("kernel") /\ KernelResult # "none"
    /\ CallReturns(IF KernelResult = "error" THEN "error" ELSE "ok")

Caller ==
    /\ DriverPreflight \/ VerifyArtifact \/ PreparePlatform \/ Observe
    /\ UNCHANGED <<platform, mac, win, attemptVars>>

\* A build, an update or an installation puts another file at the path.
ReplaceFile ==
    /\ ~call.replaced /\ ~Placed("done")
    /\ call' = [call EXCEPT !.file = IF @ = "right" THEN "other" ELSE "right",
                            !.replaced = TRUE,
                            !.changed = call.place \in {"prepare", "kernel"}]
    /\ UNCHANGED <<platform, mac, win, attemptVars>>

-------------------------------------------------------------------------------
(* The three kernels *)

\* The file is opened by its path when the process is made of it.
Loads(now) == call' = IF now THEN [call EXCEPT !.loaded = call.file] ELSE call

\* A kernel begins with the call and may have something to end after it.
OnLinux(step) ==
    /\ platform = "linux" /\ call.place \in {"kernel", "done"} /\ step
    /\ Loads(executed' # executed)
    /\ UNCHANGED <<platform, mac, win>>

OnMac(step) ==
    /\ platform = "macos" /\ call.place \in {"kernel", "done"} /\ step
    /\ Loads(mac.child = "launcher" /\ mac'.child = "running")
    /\ UNCHANGED <<platform, win, attemptVars>>

OnWindows(step) ==
    /\ platform = "windows" /\ call.place \in {"kernel", "done"} /\ step
    /\ Loads(win.process = "none" /\ win'.process # "none")
    /\ UNCHANGED <<platform, mac, attemptVars>>

Begun == Placed("kernel")

HostMoves ==
    \/ Caller
    \/ Begun /\ (OnLinux(Host) \/ OnMac(Mac!Host) \/ OnWindows(Windows!Host))

KernelEnds ==
    \/ OnLinux(KernelKills) \/ OnMac(Mac!KernelKills) \/ OnWindows(Windows!Kernel)

TimePasses ==
    \/ OnLinux(DeadlinePasses) \/ OnMac(Mac!DeadlinePasses)
    \/ OnWindows(Windows!DeadlinePasses)

GraceEnds ==
    \/ OnLinux(GracePasses) \/ OnMac(Mac!GracePasses) \/ OnWindows(Windows!TimeoutPasses)

CallsFail == Begun /\ (OnLinux(Fail) \/ OnMac(Mac!Fail) \/ OnWindows(Windows!Fail))

ProcessActs ==
    OnLinux(Child) \/ OnMac(Mac!Child) \/ OnWindows(Windows!Plugin \/ Windows!WriterDone)

DriverNext ==
    \/ HostMoves \/ CallsFail \/ ReplaceFile
    \/ ProcessActs \/ KernelEnds \/ TimePasses \/ GraceEnds
    \/ Placed("done") /\ UNCHANGED driverVars

DriverSpec == DriverInit /\ [][DriverNext]_driverVars

\* The host's thread runs, the kernel completes a termination, and time passes,
\* for the deadline and for the bounded waits of Windows; nothing is assumed of
\* the plugin, and no grace on Linux or macOS need ever end.
DriverFairness ==
    /\ WF_driverVars(HostMoves) /\ WF_driverVars(KernelEnds) /\ WF_driverVars(TimePasses)
    /\ WF_driverVars(OnWindows(Windows!TimeoutPasses))

FairDriverSpec == DriverSpec /\ DriverFairness

-------------------------------------------------------------------------------
(* The contract *)

\* The process, doomed once its end is under way.
GroupOn(p) ==
    CASE p = "linux" -> LinuxGroup
      [] p = "macos" ->
           (CASE mac.child = "none" -> "none" [] mac.child = "reaped" -> "gone"
              [] mac.child = "zombie" \/ (mac.child \in Mac!Alive /\ mac.killed) -> "doomed"
              [] mac.child \in Mac!Alive /\ ~mac.killed -> "alive")
      [] p = "windows" ->
           LET ending == win.killed \/ (win.assigned /\ ~win.jobOpen)
           IN  CASE win.process \in {"none", "gone"} -> win.process
                 [] win.process \in Windows!Alive /\ ending -> "doomed"
                 [] win.process = "suspended" /\ ~ending -> "idle"
                 [] win.process = "running" /\ ~ending -> "alive"

HowEnded ==
    EndOf(CASE platform = "linux" -> ended
            [] platform = "macos" -> mac.ended
            [] platform = "windows" -> win.ended)

CausesSeen ==
    CASE platform = "linux" -> LinuxCauses
      [] platform = "macos" ->
           Has("deadline", mac.late) \union Has("memory", mac.heavy)
               \union Has("stream", mac.exceeded # {})
      [] platform = "windows" ->
           Has("deadline", win.late) \union Has("memory", win.violated)
               \union Has("stream", win.exceeded # {})

Contract == INSTANCE AttemptContract
    WITH group <- GroupOn(platform), how <- HowEnded, causes <- CausesSeen,
         result <- ResultOf(KernelResult)

-------------------------------------------------------------------------------
(* The inductive invariant *)

\* A file that was verified is still there unless it was replaced behind the verification,
\* and a kernel has executed nothing else.
CallInv ==
    /\ call \in Calls
    /\ call.outcome = "none" <=> ~Placed("done")
    /\ call.changed => call.replaced
    /\ call.place \notin {"kernel", "done"} => call.loaded = "none"
    /\ call.place \in {"prepare", "kernel"} \/ call.outcome = "ok" =>
           call.changed \/ (call.file = "right" /\ call.loaded \in {"right", "none"})

\* An observation is that of a kernel that has returned it.
ObservedInv == call.outcome = "ok" => KernelResult \notin {"none", "error"}

DriverIInv ==
    /\ platform \in Platforms /\ CallInv /\ ObservedInv
    /\ AttemptIInv /\ Mac!AttemptIInv /\ Windows!AttemptIInv

-------------------------------------------------------------------------------
(* Properties *)

\* On every platform, however calls fail and whenever plugin, kernel and clock
\* move: a result is given only of a process that is gone, an error leaves none
\* that will run, and an end reported as the plugin's own, the deadline's or
\* the memory limit's was that.
ImplementsContract == Contract!Spec

\* Output that was dropped is reported as past its limit.  The macOS kernel
\* alone may keep silent, when nothing lay behind the dropped bytes at the
\* moment of its one-byte probe.
TruncationIsReported ==
    call.outcome = "ok" =>
        CASE platform = "linux" -> beyond \subseteq exceeded
          [] platform = "macos" ->
                {s \in Streams : mac.sent[s] > Mac!Limit} \subseteq mac.exceeded \union mac.quiet
          [] platform = "windows" -> win.beyond \subseteq win.exceeded

\* What is reported for a subject was done by the file of its digest, or by
\* none, however the file at the path was replaced before the call; only a
\* replacement between the verification and the start goes unseen.
ReportedForTheRightFile ==
    call.outcome = "ok" /\ ~call.changed => call.loaded \in {"right", "none"}

\* Every call returns, whatever the plugin does; but for two on Windows.  The
\* kernel reads a stream until it finds it empty, and a plugin that always has
\* more for it keeps it from its deadline.  And when it could not terminate the
\* process, it still waits for the input to be taken.
EveryCallReturns ==
    \/ <>Placed("done")
    \/ []<>(platform = "windows" /\ win.pc = "drain" /\ win.waiting # {})
    \/ <>[](/\ platform = "windows" /\ win.pc = "joinLast" /\ ~win.killed
            /\ Windows!Running /\ win.writer = "writing")
===============================================================================
