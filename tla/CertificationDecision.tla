------------------------- MODULE CertificationDecision -------------------------
(***************************************************************************)
(* fetch_verify_and_record_certification end to end.  Issuers sign report  *)
(* envelopes and revocation lists with the SDK's issuer functions.  A host *)
(* fetches a report, its envelope and a revocation list one after the      *)
(* other under one deadline, verifies them as of the time its call began,  *)
(* and records the list's sequence in the store it shares with others.     *)
(*                                                                         *)
(* The store is the RollbackRegister that RevocationStore implements.  The *)
(* endpoint may serve any signed document it ever had, however old, and    *)
(* documents of another release or issuer.  A signature stands for the     *)
(* membership of a document among those the issuers signed; documents that *)
(* do not parse or verify only ever lead to a rejection and are not kept.  *)
(***************************************************************************)
EXTENDS RollbackRegister, FiniteSets

CONSTANTS Releases,      \* the immutable subjects; a release is its report too
          AuthorityOf,   \* report.authority.issuer_id of each release
          TrustStore,    \* provisioned keys: issuer, purpose, window
          MaxLifetime,   \* MAX_CERTIFICATION_LIFETIME_SECONDS, 366 days
          MaxWindow,     \* MAX_REVOCATION_WINDOW_SECONDS, 7 days
          FetchBudget,   \* total_timeout of the HTTPS source
          MaxTime,       \* bound on the clock
          MaxEnvelopes,  \* bound on the envelopes signed
          NoDocument     \* a document not fetched yet

ASSUME DecisionAssumption ==
    /\ AuthorityOf \in [Releases -> Issuers]
    /\ MaxLifetime \in Nat /\ MaxWindow \in Nat /\ FetchBudget \in Nat
    /\ MaxTime \in Nat /\ MaxEnvelopes \in Nat /\ MaxSequence \in Nat
    /\ \A k \in TrustStore : k.notBefore \in Nat /\ k.notAfter \in Nat

Time == Nat
Envelopes == [report : Releases, issuer : Issuers, issued : Time, expires : Time]
Lists == [issuer : Issuers, sequence : SequenceNumbers, issued : Time,
          next : Time, revoked : SUBSET Releases]

VARIABLES clock,         \* one clock for issuers and hosts
          envelopes,     \* envelopes issuers have signed
          lists,         \* revocation lists issuers have signed
          at,            \* where each host's call is
          subject,       \* expected_subject
          begun,         \* now_unix
          report, envelope, list,     \* documents fetched so far
          told,          \* ghost: highest sequence a host was told it accepted
          floor          \* ghost: told, for the subject's issuer, at the start

fetched == <<report, envelope, list>>
callVars == <<at, subject, begun, fetched, floor>>
issuerVars == <<envelopes, lists>>
decisionVars == <<regVars, clock, issuerVars, callVars, told>>

Places == {"idle", "report", "envelope", "revocations", "verifying", "recording", "done"}

DecisionTypeOK ==
    /\ recorded \in [Issuers -> SUBSET SequenceNumbers]
    /\ phase \in [Verifiers -> Phases]
    /\ issuer \in [Verifiers -> Issuers] /\ seq \in [Verifiers -> SequenceNumbers]
    /\ clock \in 0 .. MaxTime
    /\ envelopes \subseteq Envelopes /\ lists \subseteq Lists
    /\ at \in [Verifiers -> Places]
    /\ subject \in [Verifiers -> Releases]
    /\ begun \in [Verifiers -> 0 .. MaxTime]
    /\ report \in [Verifiers -> Releases \union {NoDocument}]
    /\ envelope \in [Verifiers -> envelopes \union {NoDocument}]
    /\ list \in [Verifiers -> lists \union {NoDocument}]
    /\ told \in [Issuers -> SequenceNumbers \union {None}]
    /\ floor \in [Verifiers -> SequenceNumbers \union {None}]

DecisionInit ==
    /\ RInit
    /\ seq = [v \in Verifiers |-> 0]
    /\ \E i \in Issuers : issuer = [v \in Verifiers |-> i]
    /\ clock = 0 /\ envelopes = {} /\ lists = {}
    /\ at = [v \in Verifiers |-> "idle"]
    /\ \E s \in Releases : subject = [v \in Verifiers |-> s]
    /\ begun = [v \in Verifiers |-> 0]
    /\ report = [v \in Verifiers |-> NoDocument]
    /\ envelope = [v \in Verifiers |-> NoDocument]
    /\ list = [v \in Verifiers |-> NoDocument]
    /\ told = [i \in Issuers |-> None]
    /\ floor = [v \in Verifiers |-> None]

-------------------------------------------------------------------------------
(* The contracts that issuance and verification share *)

Bounded(span, maximum) == span > 0 /\ span <= maximum

\* The time tests of validate_envelope.
EnvelopeCurrent(e, now) ==
    /\ e.issued <= now /\ now <= e.expires
    /\ Bounded(e.expires - e.issued, MaxLifetime)

\* Fault: a list that has expired passes.
NeverExpires(l, now) == l.issued <= now /\ Bounded(l.next - l.issued, MaxWindow)

\* The time tests of validate_revocation_list_contract.
ListCurrent(l, now) ==
    /\ l.issued <= now /\ now <= l.next
    /\ Bounded(l.next - l.issued, MaxWindow)

\* trusted_key and validate_key_window: a key of this issuer, provisioned for
\* this purpose, whose validity covers the whole life of the document.
TrustedKeyCovers(i, purpose, from, to) ==
    \E k \in TrustStore :
        /\ k.issuer = i /\ k.purpose = purpose
        /\ k.notBefore <= from /\ to <= k.notAfter

-------------------------------------------------------------------------------
(* Issuers: issue_certification_envelope and issue_certification_revocations *)

\* issue_certification_envelope, at the issuer's own time, for a report that
\* names it as the authority.
IssueEnvelope(s) ==
    /\ Cardinality(envelopes) < MaxEnvelopes
    /\ \E to \in clock .. clock + MaxLifetime :
          LET e == [report |-> s, issuer |-> AuthorityOf[s],
                    issued |-> clock, expires |-> to]
          IN  /\ EnvelopeCurrent(e, e.issued)
              /\ envelopes' = envelopes \union {e}
    /\ UNCHANGED <<regVars, clock, lists, callVars, told>>

ListsOf(i) == {l \in lists : l.issuer = i}
RevokedBy(i) == UNION {l.revoked : l \in ListsOf(i)}

\* issue_certification_revocations checks one publication.  That publications
\* follow each other with rising sequences and keep what they revoked is the
\* issuer's own procedure, which the code leaves to its caller.
PublishList(i) ==
    /\ Cardinality(ListsOf(i)) <= MaxSequence
    /\ \E to \in clock .. clock + MaxWindow + 1,
          more \in SUBSET {s \in Releases : AuthorityOf[s] = i} :
          LET l == [issuer |-> i, sequence |-> Cardinality(ListsOf(i)),
                    issued |-> clock, next |-> to, revoked |-> RevokedBy(i) \union more]
          IN  /\ ListCurrent(l, l.issued)
              /\ lists' = lists \union {l}
    /\ UNCHANGED <<regVars, clock, envelopes, callVars, told>>

-------------------------------------------------------------------------------
(* Hosts *)

Goto(v, place) == at' = [at EXCEPT ![v] = place]

\* Documents live as long as the call that fetched them.
Drop(v) ==
    /\ report' = [report EXCEPT ![v] = NoDocument]
    /\ envelope' = [envelope EXCEPT ![v] = NoDocument]
    /\ list' = [list EXCEPT ![v] = NoDocument]

\* A call that is over without a decision leaves nothing.
Forget(v) ==
    /\ Drop(v)
    /\ begun' = [begun EXCEPT ![v] = 0] /\ floor' = [floor EXCEPT ![v] = None]

Begin(v) ==
    /\ at[v] \in {"idle", "done"}
    /\ Goto(v, "report")
    /\ \E s \in Releases :
          /\ subject' = [subject EXCEPT ![v] = s]
          /\ floor' = [floor EXCEPT ![v] = told[AuthorityOf[s]]]
    /\ begun' = [begun EXCEPT ![v] = clock]
    /\ Drop(v)
    /\ phase' = [phase EXCEPT ![v] = "idle"]
    /\ UNCHANGED <<recorded, issuer, seq, clock, issuerVars, told>>

\* What is left of total_timeout when the next request starts is not zero.
BudgetLeft(v) == clock - begun[v] < FetchBudget

FetchReport(v) ==
    /\ at[v] = "report" /\ BudgetLeft(v)
    /\ \E s \in Releases : report' = [report EXCEPT ![v] = s]
    /\ Goto(v, "envelope")
    /\ UNCHANGED <<regVars, clock, issuerVars, subject, begun, envelope, list, floor, told>>

FetchEnvelope(v) ==
    /\ at[v] = "envelope" /\ BudgetLeft(v)
    /\ \E e \in envelopes : envelope' = [envelope EXCEPT ![v] = e]
    /\ Goto(v, "revocations")
    /\ UNCHANGED <<regVars, clock, issuerVars, subject, begun, report, list, floor, told>>

FetchList(v) ==
    /\ at[v] = "revocations" /\ BudgetLeft(v)
    /\ \E l \in lists : list' = [list EXCEPT ![v] = l]
    /\ Goto(v, "verifying")
    /\ UNCHANGED <<regVars, clock, issuerVars, subject, begun, report, envelope, floor, told>>

Reject(v) ==
    /\ Goto(v, "done")
    /\ Forget(v)
    /\ phase' = [phase EXCEPT ![v] = "refused"]
    /\ UNCHANGED <<recorded, issuer, seq, clock, issuerVars, subject, told>>

\* A transport error, a response the source refuses, or no budget left.
FetchFails(v) ==
    /\ at[v] \in {"report", "envelope", "revocations"}
    /\ Reject(v)

\* verify_certification_evidence, test by test.
BindsReport(v) == envelope[v].report = report[v]
ReportIsExpected(v) == report[v] = subject[v]
IssuerAgrees(v) == AuthorityOf[report[v]] = envelope[v].issuer

ListIssuerAgrees(v) == list[v].issuer = envelope[v].issuer

\* Fault: a revoked release passes.
NeverRevoked(v) == FALSE

IsRevoked(v) == report[v] \in list[v].revoked

Verified(v) ==
    /\ EnvelopeCurrent(envelope[v], begun[v])
    /\ BindsReport(v)
    /\ TrustedKeyCovers(envelope[v].issuer, "certification",
                        envelope[v].issued, envelope[v].expires)
    /\ ReportIsExpected(v) /\ IssuerAgrees(v)
    /\ ListIssuerAgrees(v)
    /\ ListCurrent(list[v], begun[v])
    /\ TrustedKeyCovers(list[v].issuer, "revocation", list[v].issued, list[v].next)
    /\ ~IsRevoked(v)

VerifyFails(v) ==
    /\ at[v] = "verifying" /\ ~Verified(v)
    /\ Reject(v)

\* Verification is done: record_verified opens a call on the store.
VerifyPasses(v) ==
    /\ at[v] = "verifying" /\ Verified(v)
    /\ Open(v)
    /\ issuer'[v] = list[v].issuer /\ seq'[v] = list[v].sequence
    /\ Goto(v, "recording")
    /\ UNCHANGED <<clock, issuerVars, subject, begun, fetched, floor, told>>

RecordCommits(v) ==
    /\ at[v] = "recording"
    /\ Commit(v)
    /\ UNCHANGED <<clock, issuerVars, callVars, told>>

RecordRefused(v) ==
    /\ at[v] = "recording"
    /\ Refuse(v)
    /\ Goto(v, "done")
    /\ Forget(v)
    /\ UNCHANGED <<clock, issuerVars, subject, told>>

\* The decision is returned to the host.
Decide(v) ==
    /\ at[v] = "recording"
    /\ Accept(v)
    /\ Goto(v, "done")
    /\ told' = IF told[issuer[v]] < seq[v]
               THEN [told EXCEPT ![issuer[v]] = seq[v]] ELSE told
    /\ UNCHANGED <<clock, issuerVars, subject, begun, fetched, floor>>

Crash(v) ==
    /\ at[v] \notin {"idle", "done"}
    /\ Die(v)
    /\ Goto(v, "idle")
    /\ Forget(v)
    /\ UNCHANGED <<clock, issuerVars, subject, told>>

Host(v) ==
    \/ Begin(v) \/ FetchReport(v) \/ FetchEnvelope(v) \/ FetchList(v) \/ FetchFails(v)
    \/ VerifyFails(v) \/ VerifyPasses(v)
    \/ RecordCommits(v) \/ RecordRefused(v) \/ Decide(v) \/ Crash(v)

Tick ==
    /\ clock < MaxTime
    /\ clock' = clock + 1
    /\ UNCHANGED <<regVars, issuerVars, callVars, told>>

DecisionNext ==
    \/ Tick
    \/ \E s \in Releases : IssueEnvelope(s)
    \/ \E i \in Issuers : PublishList(i)
    \/ \E v \in Verifiers : Host(v)

DecisionSpec == DecisionInit /\ [][DecisionNext]_decisionVars

-------------------------------------------------------------------------------
(* The inductive invariant behind the properties *)

Accepted(v) == at[v] = "done" /\ phase[v] = "accepted"
Decided(v) == at[v] = "recording" \/ Accepted(v)

\* An issuer's lists are numbered in the order they were issued in and never
\* take a revocation back.
ListsInv ==
    /\ IsFiniteSet(lists)
    /\ \A l \in lists : l.issued <= clock /\ l.sequence < Cardinality(ListsOf(l.issuer))
    /\ \A l, m \in lists : l.issuer = m.issuer /\ l.sequence <= m.sequence =>
          l.issued <= m.issued /\ l.revoked \subseteq m.revoked

\* What was verified is what is being recorded.
VerifiedInv ==
    /\ \A v \in Verifiers : at[v] = "verifying" => list[v] \in lists
    /\ \A v \in Verifiers : Decided(v) =>
        /\ list[v] \in lists
        /\ list[v].issuer = AuthorityOf[subject[v]] /\ list[v].issuer = issuer[v]
        /\ list[v].sequence = seq[v]
        /\ ListCurrent(list[v], begun[v])
        /\ subject[v] \notin list[v].revoked

\* Whatever a host was told is in the store, and a committed call is above it.
StoreInv ==
    /\ \A i \in Issuers : told[i] \in recorded[i] \union {None}
    /\ \A v \in Verifiers : floor[v] \in recorded[AuthorityOf[subject[v]]] \union {None}
    /\ \A v \in Verifiers : Decided(v) /\ phase[v] \in {"committed", "accepted"} =>
          seq[v] \in recorded[issuer[v]] /\ floor[v] <= seq[v]

\* The conjunction that every step preserves: the order of what issuers sign,
\* what verification established, and what the store keeps.
DecisionIInv == DecisionTypeOK /\ ListsInv /\ VerifiedInv /\ StoreInv

-------------------------------------------------------------------------------
(* Properties *)

\* Lists of the subject's own issuer that revoke it.
Revocations(v) ==
    {l \in lists : l.issuer = AuthorityOf[subject[v]] /\ subject[v] \in l.revoked}

\* Once any host of the store was told of a list, no later call accepts a
\* release that this list or an earlier one revoked, whatever mix of old
\* documents the endpoint serves it.
KnownRevocationHolds ==
    \A v \in Verifiers : Accepted(v) =>
        \A l \in Revocations(v) : l.sequence > floor[v]

\* A revocation takes effect everywhere within the freshness window: a host
\* with no state at all, served the oldest documents there are, refuses the
\* release in every call that starts more than seven days after the list that
\* revoked it was issued.
RevocationTakesEffect ==
    \A v \in Verifiers : Accepted(v) =>
        \A l \in Revocations(v) : begun[v] <= l.issued + MaxWindow
===============================================================================
