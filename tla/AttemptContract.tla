---------------------------- MODULE AttemptContract ---------------------------
(***************************************************************************)
(* What every NativeConfinementDriver promises of one attempt, whatever    *)
(* the platform: a result is given of a process group that is gone, an     *)
(* error of one that runs nothing more, and a result names a cause that    *)
(* was there.                                                              *)
(***************************************************************************)
VARIABLES group,     \* the attempt's processes
          how,       \* how they ended
          causes,    \* what the host has been given a reason to kill for
          result     \* what execute returned

contractVars == <<group, how, causes, result>>

\* An idle group has run nothing; a doomed one is being ended, or has ended and
\* is not collected.
Groups == {"none", "idle", "alive", "doomed", "gone"}
Hows == {"not", "itself", "killed"}
Causes == {"deadline", "memory", "stream"}
Results == {"none", "error", "own", "deadlineKilled", "memoryLimitKilled"}

Init == group = "none" /\ how = "not" /\ causes = {} /\ result = "none"

GroupStarts ==
    /\ group \in {"none", "idle"} /\ group' \in {"idle", "alive"}
    /\ UNCHANGED <<how, causes, result>>

\* A host that has given up, or kills, leaves the group to the kernel.
GroupIsDoomed ==
    /\ group \in {"idle", "alive"} /\ group' = "doomed"
    /\ UNCHANGED <<how, causes, result>>

\* The kernel may end a group for a cause of its own, memory.
GroupEnds ==
    /\ group \in {"alive", "doomed"} /\ group' \in {"doomed", "gone"}
    /\ how = "not" /\ how' \in {"itself", "killed"}
    /\ how' = "killed" => group = "doomed"
    /\ causes \subseteq causes' /\ causes' \subseteq causes \union {"memory"}
    /\ UNCHANGED result

\* The host collects what has ended.
GroupIsCollected ==
    /\ group = "doomed" /\ how # "not" /\ group' = "gone"
    /\ UNCHANGED <<how, causes, result>>

CauseArises ==
    /\ \E c \in Causes \ causes : causes' = causes \union {c}
    /\ UNCHANGED <<group, how, result>>

\* An own end is reported of a process that was not killed, unless for its
\* output, which the observation marks apart.
Truthful(r) ==
    CASE r = "own" -> how = "itself" \/ "stream" \in causes
      [] r = "deadlineKilled" -> "deadline" \in causes
      [] r = "memoryLimitKilled" -> "memory" \in causes
      [] OTHER -> FALSE

ReturnsResult ==
    /\ result = "none" /\ result' \in Results \ {"none", "error"}
    /\ group = "gone" /\ Truthful(result')
    /\ UNCHANGED <<how, causes>> /\ group' = group

\* The handles that close with the return may doom the group in the same step.
ReturnsError ==
    /\ result = "none" /\ result' = "error"
    /\ \/ group' = group
       \/ group \in {"idle", "alive"} /\ group' = "doomed"
       \/ group = "doomed" /\ how # "not" /\ group' = "gone"
    /\ group' # "alive"
    /\ UNCHANGED <<how, causes>>

Next ==
    \/ GroupStarts \/ GroupIsDoomed \/ GroupEnds \/ GroupIsCollected \/ CauseArises
    \/ ReturnsResult \/ ReturnsError

Spec == Init /\ [][Next]_contractVars
===============================================================================
