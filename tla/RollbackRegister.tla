--------------------------- MODULE RollbackRegister ---------------------------
(***************************************************************************)
(* What the revocation state of the certification verifier promises its    *)
(* callers: for each issuer a set of recorded sequences that only grows    *)
(* upwards.  A call that records commits in one indivisible step, which    *)
(* never records a sequence below one already recorded, and is accepted    *)
(* only after that step.  A call may be refused at any time, even after    *)
(* it committed, and its process may die at any time.                      *)
(***************************************************************************)
EXTENDS Integers

CONSTANTS Verifiers,     \* callers of the store, each with one call at a time
          Issuers,       \* certification issuers
          MaxSequence    \* bound on revocation-list sequences

SequenceNumbers == 0 .. MaxSequence
None == -1               \* Option::None where a sequence is expected

VARIABLES recorded,      \* [Issuers -> SUBSET SequenceNumbers]
          phase,         \* what each caller has been told
          issuer,        \* [Verifiers -> Issuers], argument of the call
          seq            \* [Verifiers -> SequenceNumbers], argument of the call

regVars == <<recorded, phase, issuer, seq>>

Phases == {"idle", "open", "committed", "accepted", "answered", "refused"}
Finished == {"idle", "accepted", "answered", "refused"}

RInit ==
    /\ recorded = [i \in Issuers |-> {}]
    /\ phase = [v \in Verifiers |-> "idle"]
    /\ issuer \in [Verifiers -> Issuers]
    /\ seq \in [Verifiers -> SequenceNumbers]

Open(v) ==
    /\ phase[v] \in Finished
    /\ phase' = [phase EXCEPT ![v] = "open"]
    /\ \E i \in Issuers, s \in SequenceNumbers :
          /\ issuer' = [issuer EXCEPT ![v] = i]
          /\ seq' = [seq EXCEPT ![v] = s]
    /\ UNCHANGED recorded

\* Compare and raise, in one step.
Commit(v) ==
    /\ phase[v] = "open"
    /\ \A s \in recorded[issuer[v]] : s <= seq[v]
    /\ recorded' = [recorded EXCEPT ![issuer[v]] = @ \union {seq[v]}]
    /\ phase' = [phase EXCEPT ![v] = "committed"]
    /\ UNCHANGED <<issuer, seq>>

Accept(v) ==
    /\ phase[v] = "committed"
    /\ phase' = [phase EXCEPT ![v] = "accepted"]
    /\ UNCHANGED <<recorded, issuer, seq>>

Answer(v) ==
    /\ phase[v] = "open"
    /\ phase' = [phase EXCEPT ![v] = "answered"]
    /\ UNCHANGED <<recorded, issuer, seq>>

Refuse(v) ==
    /\ phase[v] \in {"open", "committed"}
    /\ phase' = [phase EXCEPT ![v] = "refused"]
    /\ UNCHANGED <<recorded, issuer, seq>>

Die(v) ==
    /\ phase' = [phase EXCEPT ![v] = "idle"]
    /\ UNCHANGED <<recorded, issuer, seq>>

RNext == \E v \in Verifiers :
    Open(v) \/ Commit(v) \/ Accept(v) \/ Answer(v) \/ Refuse(v) \/ Die(v)

RSpec == RInit /\ [][RNext]_regVars
===============================================================================
