---------------------- MODULE CertificationDecisionProofs ----------------------
(***************************************************************************)
(* Proofs about CertificationDecision for any issuers, releases, hosts,    *)
(* trust store and bounds.                                                 *)
(***************************************************************************)
EXTENDS CertificationDecision, FiniteSetTheorems, TLAPS

\* What a host's action leaves alone.
LEMMA HostsChange ==
    ASSUME NEW v \in Verifiers, Host(v)
    PROVE  UNCHANGED <<clock, issuerVars>>
BY DEF Host, Begin, FetchReport, FetchEnvelope, FetchList, FetchFails, VerifyFails,
       VerifyPasses, RecordCommits, RecordRefused, Decide, Crash, Reject, issuerVars,
       callVars, fetched

\* Nothing is issued, recorded or decided at the start.
LEMMA InitEstablishes == DecisionInit => DecisionIInv
<1> SUFFICES ASSUME DecisionInit PROVE DecisionIInv
  OBVIOUS
<1>1. DecisionTypeOK
  BY DecisionAssumption DEF DecisionInit, RInit, DecisionTypeOK, SequenceNumbers, None,
     Places, Phases, Envelopes, Lists
<1>2. ListsInv
  BY FS_EmptySet DEF DecisionInit, ListsInv
<1>3. VerifiedInv /\ StoreInv
  BY DEF DecisionInit, RInit, VerifiedInv, StoreInv, Decided, Accepted, None
<1> QED BY <1>1, <1>2, <1>3 DEF DecisionIInv

-------------------------------------------------------------------------------
\* Type correctness, one action at a time.
LEMMA TypePreserved == DecisionTypeOK /\ ListsInv /\ [DecisionNext]_decisionVars => DecisionTypeOK'
<1> SUFFICES ASSUME DecisionTypeOK, ListsInv, [DecisionNext]_decisionVars
             PROVE  DecisionTypeOK'
  OBVIOUS
<1> USE DecisionAssumption DEF DecisionTypeOK, Places, Phases
<1>1. CASE Tick
  BY <1>1 DEF Tick, regVars, issuerVars, callVars, fetched
<1>2. ASSUME NEW s \in Releases, IssueEnvelope(s) PROVE DecisionTypeOK'
  <2>1. PICK to \in clock .. clock + MaxLifetime :
          envelopes' = envelopes \union
            {[report |-> s, issuer |-> AuthorityOf[s], issued |-> clock, expires |-> to]}
    BY <1>2 DEF IssueEnvelope
  <2>2. envelopes' \subseteq Envelopes /\ envelopes \subseteq envelopes'
    BY <2>1 DEF Envelopes, Time
  <2> QED BY <1>2, <2>2 DEF IssueEnvelope, regVars, callVars, fetched
<1>3. ASSUME NEW i \in Issuers, PublishList(i) PROVE DecisionTypeOK'
  <2>1. PICK to \in clock .. clock + MaxWindow + 1, more \in SUBSET Releases :
          lists' = lists \union
            {[issuer |-> i, sequence |-> Cardinality(ListsOf(i)), issued |-> clock,
              next |-> to, revoked |-> RevokedBy(i) \union more]}
    BY <1>3 DEF PublishList
  <2>2. Cardinality(ListsOf(i)) \in SequenceNumbers
    <3>1. IsFiniteSet(ListsOf(i))
      BY FS_Subset DEF ListsInv, ListsOf
    <3> QED BY <1>3, <3>1, FS_CardinalityType DEF PublishList, SequenceNumbers
  <2>3. RevokedBy(i) \subseteq Releases
    BY DEF RevokedBy, ListsOf, Lists
  <2>4. lists' \subseteq Lists /\ lists \subseteq lists'
    BY <2>1, <2>2, <2>3 DEF Lists, Time
  <2> QED BY <1>3, <2>4 DEF PublishList, regVars, callVars, fetched
<1>4. ASSUME NEW v \in Verifiers, Host(v) PROVE DecisionTypeOK'
  <2> USE DEF Goto, Drop, Forget, Reject, issuerVars, callVars, fetched, regVars
  <2>1. CASE Begin(v)
    BY <2>1 DEF Begin
  <2>2. CASE FetchReport(v)
    BY <2>2 DEF FetchReport
  <2>3. CASE FetchEnvelope(v)
    BY <2>3 DEF FetchEnvelope
  <2>4. CASE FetchList(v)
    BY <2>4 DEF FetchList
  <2>5. CASE FetchFails(v) \/ VerifyFails(v)
    BY <2>5 DEF FetchFails, VerifyFails
  <2>6. CASE VerifyPasses(v)
    BY <2>6 DEF VerifyPasses, Open
  <2>7. CASE RecordCommits(v)
    BY <2>7 DEF RecordCommits, Commit
  <2>8. CASE RecordRefused(v)
    BY <2>8 DEF RecordRefused, Refuse
  <2>9. CASE Decide(v)
    BY <2>9 DEF Decide, Accept
  <2>10. CASE Crash(v)
    BY <2>10 DEF Crash, Die
  <2> QED BY <1>4, <2>1, <2>2, <2>3, <2>4, <2>5, <2>6, <2>7, <2>8, <2>9, <2>10 DEF Host
<1>5. CASE UNCHANGED decisionVars
  BY <1>5 DEF decisionVars, regVars, issuerVars, callVars, fetched
<1> QED BY <1>1, <1>2, <1>3, <1>4, <1>5 DEF DecisionNext

-------------------------------------------------------------------------------
\* A published list is numbered above those before it and keeps what they revoked.
LEMMA ListsPreserved ==
    DecisionTypeOK /\ ListsInv /\ [DecisionNext]_decisionVars => ListsInv'
<1> SUFFICES ASSUME DecisionTypeOK, ListsInv, [DecisionNext]_decisionVars
             PROVE  ListsInv'
  OBVIOUS
<1>1. ASSUME NEW i \in Issuers, PublishList(i) PROVE ListsInv'
  <2>1. PICK to \in clock .. clock + MaxWindow + 1, more \in SUBSET Releases :
          lists' = lists \union
            {[issuer |-> i, sequence |-> Cardinality(ListsOf(i)), issued |-> clock,
              next |-> to, revoked |-> RevokedBy(i) \union more]}
    BY <1>1 DEF PublishList
  <2> DEFINE new == [issuer |-> i, sequence |-> Cardinality(ListsOf(i)), issued |-> clock,
                     next |-> to, revoked |-> RevokedBy(i) \union more]
  <2>2. IsFiniteSet(ListsOf(i)) /\ Cardinality(ListsOf(i)) \in Nat
    BY FS_Subset, FS_CardinalityType DEF ListsInv, ListsOf
  <2>3. clock' = clock /\ clock \in Nat
    BY <1>1 DEF PublishList, DecisionTypeOK
  <2>4. new \notin ListsOf(i)
    BY <2>2 DEF ListsInv, ListsOf
  <2>5. ListsOf(i)' = ListsOf(i) \union {new}
    BY <2>1 DEF ListsOf
  <2>6. Cardinality(ListsOf(i)') = Cardinality(ListsOf(i)) + 1
    BY <2>2, <2>4, <2>5, FS_AddElement
  <2>7. ASSUME NEW j \in Issuers, j # i PROVE ListsOf(j)' = ListsOf(j)
    BY <2>1, <2>7 DEF ListsOf
  <2>8. IsFiniteSet(lists')
    BY <2>1, FS_AddElement DEF ListsInv
  <2>9. ASSUME NEW l \in lists'
        PROVE  l.issued <= clock' /\ l.sequence < Cardinality(ListsOf(l.issuer)')
    <3>1. CASE l = new
      BY <3>1, <2>2, <2>3, <2>6
    <3>2. CASE l \in lists
      <4>1. l \in Lists /\ l.issued <= clock /\ l.sequence < Cardinality(ListsOf(l.issuer))
        BY <3>2 DEF ListsInv, DecisionTypeOK
      <4>2. CASE l.issuer = i
        BY <4>1, <4>2, <2>2, <2>3, <2>6 DEF Lists, SequenceNumbers, Time
      <4>3. CASE l.issuer # i
        BY <4>1, <4>3, <2>3, <2>7 DEF Lists
      <4> QED BY <4>2, <4>3
    <3> QED BY <2>1, <3>1, <3>2
  <2>10. ASSUME NEW l \in lists', NEW m \in lists',
                l.issuer = m.issuer, l.sequence <= m.sequence
         PROVE  l.issued <= m.issued /\ l.revoked \subseteq m.revoked
    <3>1. CASE l \in lists /\ m \in lists
      BY <3>1, <2>10 DEF ListsInv
    <3>2. CASE l \in lists /\ m = new
      <4>1. l \in ListsOf(i)
        BY <2>10, <3>2 DEF ListsOf
      <4> QED BY <3>2, <4>1 DEF ListsInv, RevokedBy
    <3>3. CASE l = new /\ m \in lists
      <4>1. m.issuer = i /\ m.sequence < Cardinality(ListsOf(i)) /\ m.sequence \in Nat
        BY <3>3, <2>10 DEF ListsInv, DecisionTypeOK, Lists, SequenceNumbers
      <4> QED BY <3>3, <4>1, <2>2, <2>10
    <3>4. CASE l = new /\ m = new
      BY <3>4, <2>3
    <3> QED BY <2>1, <3>1, <3>2, <3>3, <3>4
  <2> QED BY <2>8, <2>9, <2>10 DEF ListsInv
<1>2. CASE UNCHANGED lists /\ clock <= clock' /\ clock' \in Nat
  <2>1. \A i \in Issuers : ListsOf(i)' = ListsOf(i)
    BY <1>2 DEF ListsOf
  <2>2. clock \in Nat /\ \A l \in lists : l.issued \in Nat /\ l.issuer \in Issuers
    BY DEF DecisionTypeOK, Lists, Time
  <2>3. \A l \in lists : l.issued <= clock'
    BY <1>2, <2>2 DEF ListsInv
  <2>4. \A l \in lists : l.sequence < Cardinality(ListsOf(l.issuer)')
    BY <2>1, <2>2 DEF ListsInv
  <2> QED BY <1>2, <2>3, <2>4 DEF ListsInv
<1>3. clock \in Nat
  BY DEF DecisionTypeOK
<1>4. CASE Tick
  BY <1>2, <1>3, <1>4 DEF Tick, issuerVars
<1>5. ASSUME NEW s \in Releases, IssueEnvelope(s) PROVE ListsInv'
  BY <1>2, <1>3, <1>5 DEF IssueEnvelope
<1>6. ASSUME NEW v \in Verifiers, Host(v) PROVE ListsInv'
  BY <1>2, <1>3, <1>6, HostsChange DEF issuerVars
<1>7. CASE UNCHANGED decisionVars
  BY <1>2, <1>3, <1>7 DEF decisionVars, issuerVars
<1> QED BY <1>1, <1>4, <1>5, <1>6, <1>7 DEF DecisionNext

-------------------------------------------------------------------------------
\* The part of VerifiedInv and StoreInv about one host.
HostInv(v) ==
    /\ at[v] = "verifying" => list[v] \in lists
    /\ Decided(v) =>
        /\ list[v] \in lists
        /\ list[v].issuer = AuthorityOf[subject[v]] /\ list[v].issuer = issuer[v]
        /\ list[v].sequence = seq[v]
        /\ ListCurrent(list[v], begun[v])
        /\ subject[v] \notin list[v].revoked
    /\ floor[v] \in recorded[AuthorityOf[subject[v]]] \union {None}
    /\ Decided(v) /\ phase[v] \in {"committed", "accepted"} =>
        seq[v] \in recorded[issuer[v]] /\ floor[v] <= seq[v]

ToldInv == \A i \in Issuers : told[i] \in recorded[i] \union {None}

\* What the invariant says of the hosts, host by host.
LEMMA Conjuncts ==
    VerifiedInv /\ StoreInv <=> ToldInv /\ \A v \in Verifiers : HostInv(v)
BY DEF VerifiedInv, StoreInv, HostInv, ToldInv

\* What one host does or the issuers do leaves another host's call alone.
Unmoved(v) ==
    /\ at'[v] = at[v] /\ phase'[v] = phase[v] /\ issuer'[v] = issuer[v]
    /\ seq'[v] = seq[v] /\ subject'[v] = subject[v] /\ begun'[v] = begun[v]
    /\ list'[v] = list[v] /\ floor'[v] = floor[v]

Grows == lists \subseteq lists' /\ \A i \in Issuers : recorded[i] \subseteq recorded'[i]

\* A call keeps what it has while lists and records only grow.
LEMMA UnmovedHost ==
    ASSUME DecisionTypeOK, NEW v \in Verifiers, HostInv(v), Unmoved(v), Grows
    PROVE  HostInv(v)'
<1>1. AuthorityOf[subject[v]] \in Issuers /\ issuer[v] \in Issuers
  BY DecisionAssumption DEF DecisionTypeOK
<1> QED BY <1>1 DEF HostInv, Unmoved, Grows, Decided, Accepted, ListCurrent, Bounded

\* Every action lets the store and the lists grow, and moves at most one host.
LEMMA OthersUnmoved ==
    ASSUME DecisionTypeOK, NEW v \in Verifiers, Host(v)
    PROVE  Grows /\ \A w \in Verifiers \ {v} : Unmoved(w)
<1> USE DEF Unmoved, Grows, Goto, Drop, Forget, Reject, issuerVars, callVars, fetched, regVars,
        DecisionTypeOK
<1>1. CASE Begin(v)
  BY <1>1 DEF Begin
<1>2. CASE FetchReport(v)
  BY <1>2 DEF FetchReport
<1>3. CASE FetchEnvelope(v)
  BY <1>3 DEF FetchEnvelope
<1>4. CASE FetchList(v)
  BY <1>4 DEF FetchList
<1>5. CASE FetchFails(v) \/ VerifyFails(v)
  BY <1>5 DEF FetchFails, VerifyFails
<1>6. CASE VerifyPasses(v)
  BY <1>6 DEF VerifyPasses, Open
<1>7. CASE RecordCommits(v)
  BY <1>7 DEF RecordCommits, Commit
<1>8. CASE RecordRefused(v)
  BY <1>8 DEF RecordRefused, Refuse
<1>9. CASE Decide(v)
  BY <1>9 DEF Decide, Accept
<1>10. CASE Crash(v)
  BY <1>10 DEF Crash, Die
<1> QED BY <1>1, <1>2, <1>3, <1>4, <1>5, <1>6, <1>7, <1>8, <1>9, <1>10 DEF Host

\* A host's own action: verification establishes its part of the invariant,
\* the commit puts its sequence above everything told.
LEMMA MovedHost ==
    ASSUME DecisionTypeOK, DecisionTypeOK', ToldInv, NEW v \in Verifiers, HostInv(v), Host(v)
    PROVE  HostInv(v)' /\ ToldInv'
<1> USE DEF Goto, issuerVars, callVars, fetched, regVars
<1>1. AuthorityOf[subject[v]] \in Issuers /\ issuer[v] \in Issuers /\ seq[v] \in Nat
  BY DecisionAssumption DEF DecisionTypeOK, SequenceNumbers
<1>2. CASE Begin(v)
  <2>1. at'[v] = "report" /\ UNCHANGED <<recorded, told>>
    BY <1>2 DEF Begin, DecisionTypeOK
  <2>2. PICK s \in Releases : subject'[v] = s /\ floor'[v] = told[AuthorityOf[s]]
    BY <1>2 DEF Begin, DecisionTypeOK
  <2>3. AuthorityOf[subject'[v]] \in Issuers
    BY <2>2, DecisionAssumption
  <2> QED BY <2>1, <2>2, <2>3 DEF HostInv, ToldInv, Decided, Accepted
<1>3. CASE FetchReport(v) \/ FetchEnvelope(v) \/ FetchList(v)
  <2>1. /\ at'[v] \in {"envelope", "revocations", "verifying"}
        /\ at'[v] = "verifying" => list'[v] \in lists'
        /\ UNCHANGED <<recorded, told, floor, subject>>
    BY <1>3 DEF FetchReport, FetchEnvelope, FetchList, DecisionTypeOK
  <2> QED BY <2>1 DEF HostInv, ToldInv, Decided, Accepted
<1>4. CASE FetchFails(v) \/ VerifyFails(v) \/ RecordRefused(v)
  <2>1. /\ at'[v] = "done" /\ phase'[v] = "refused" /\ floor'[v] = None
        /\ UNCHANGED <<recorded, told, subject>>
    BY <1>4 DEF FetchFails, VerifyFails, RecordRefused, Reject, Refuse, Forget, DecisionTypeOK
  <2> QED BY <2>1 DEF HostInv, ToldInv, Decided, Accepted
<1>5. CASE VerifyPasses(v)
  <2>1. /\ at'[v] = "recording" /\ phase'[v] = "open"
        /\ issuer'[v] = list[v].issuer /\ seq'[v] = list[v].sequence
        /\ UNCHANGED <<recorded, told, floor, subject, begun, list, lists>>
    BY <1>5 DEF VerifyPasses, Open, DecisionTypeOK
  <2>2. /\ list[v].issuer = AuthorityOf[subject[v]]
        /\ subject[v] \notin list[v].revoked /\ ListCurrent(list[v], begun[v])
    BY <1>5 DEF VerifyPasses, Verified, ReportIsExpected, IssuerAgrees, ListIssuerAgrees,
       IsRevoked
  <2>3. list[v] \in lists
    BY <1>5 DEF VerifyPasses, HostInv
  <2> QED BY <2>1, <2>2, <2>3 DEF HostInv, ToldInv, Decided, Accepted, ListCurrent, Bounded
<1>6. CASE RecordCommits(v)
  <2>1. /\ at[v] = "recording" /\ \A s \in recorded[issuer[v]] : s <= seq[v]
        /\ recorded' = [recorded EXCEPT ![issuer[v]] = @ \union {seq[v]}]
        /\ UNCHANGED <<at, issuer, seq, subject, begun, list, lists, floor, told>>
    BY <1>6 DEF RecordCommits, Commit
  <2>2. seq[v] \in recorded'[issuer[v]] /\ \A i \in Issuers : recorded[i] \subseteq recorded'[i]
    BY <1>1, <2>1 DEF DecisionTypeOK
  <2>3. Decided(v) /\ issuer[v] = AuthorityOf[subject[v]]
    BY <2>1 DEF HostInv, Decided
  <2>4. floor[v] <= seq[v]
    BY <1>1, <2>1, <2>3 DEF HostInv, None
  <2> QED BY <1>1, <2>1, <2>2, <2>3, <2>4 DEF HostInv, ToldInv, Decided, Accepted,
          ListCurrent, Bounded
<1>7. CASE Decide(v)
  <2>1. /\ at[v] = "recording" /\ phase[v] = "committed"
        /\ UNCHANGED <<recorded, issuer, seq, subject, begun, list, lists, floor>>
        /\ told' = IF told[issuer[v]] < seq[v]
                   THEN [told EXCEPT ![issuer[v]] = seq[v]] ELSE told
    BY <1>7 DEF Decide, Accept
  <2>2. seq[v] \in recorded[issuer[v]]
    BY <2>1 DEF HostInv, Decided
  <2>3. ToldInv'
    BY <2>1, <2>2 DEF ToldInv, DecisionTypeOK
  <2>4. HostInv(v)'
    BY <2>1 DEF HostInv, Decided, Accepted, ListCurrent, Bounded
  <2> QED BY <2>3, <2>4
<1>8. CASE Crash(v)
  <2>1. at'[v] = "idle" /\ floor'[v] = None /\ UNCHANGED <<recorded, told, subject>>
    BY <1>8 DEF Crash, Die, Forget, DecisionTypeOK
  <2> QED BY <2>1 DEF HostInv, ToldInv, Decided, Accepted
<1> QED BY <1>2, <1>3, <1>4, <1>5, <1>6, <1>7, <1>8 DEF Host

\* Each step of issuers, clock, endpoint and hosts keeps the invariant.
LEMMA StepPreserves == DecisionIInv /\ [DecisionNext]_decisionVars => DecisionIInv'
<1> SUFFICES ASSUME DecisionIInv, [DecisionNext]_decisionVars PROVE DecisionIInv'
  OBVIOUS
<1>1. DecisionTypeOK' /\ ListsInv'
  BY TypePreserved, ListsPreserved DEF DecisionIInv
<1>2. ToldInv /\ \A v \in Verifiers : HostInv(v)
  BY Conjuncts DEF DecisionIInv
<1>3. CASE UNCHANGED <<regVars, callVars, told>> /\ lists \subseteq lists'
  <2>1. Grows /\ \A v \in Verifiers : Unmoved(v)
    BY <1>3 DEF Grows, Unmoved, regVars, callVars, fetched
  <2>2. ToldInv'
    BY <1>2, <1>3 DEF ToldInv, regVars
  <2>3. \A v \in Verifiers : HostInv(v)'
    BY <1>2, <2>1, UnmovedHost DEF DecisionIInv
  <2>4. VerifiedInv'
    BY <2>3 DEF VerifiedInv, HostInv
  <2>5. StoreInv'
    BY <2>2, <2>3 DEF StoreInv, HostInv, ToldInv
  <2> QED BY <1>1, <2>4, <2>5 DEF DecisionIInv
<1>4. ASSUME NEW v \in Verifiers, Host(v) PROVE VerifiedInv' /\ StoreInv'
  <2>1. HostInv(v)' /\ ToldInv'
    BY <1>1, <1>2, <1>4, MovedHost DEF DecisionIInv
  <2>2. \A w \in Verifiers \ {v} : HostInv(w)'
    BY <1>2, <1>4, OthersUnmoved, UnmovedHost DEF DecisionIInv
  <2>3. \A w \in Verifiers : HostInv(w)'
    BY <2>1, <2>2
  <2> QED BY <2>1, <2>3 DEF VerifiedInv, StoreInv, HostInv, ToldInv, Decided, Accepted
<1>5. CASE Tick \/ (\E s \in Releases : IssueEnvelope(s)) \/ (\E i \in Issuers : PublishList(i))
           \/ UNCHANGED decisionVars
  <2>1. UNCHANGED <<regVars, callVars, told>> /\ lists \subseteq lists'
    BY <1>5 DEF Tick, IssueEnvelope, PublishList, decisionVars, issuerVars
  <2> QED BY <1>3, <2>1
<1> QED BY <1>1, <1>4, <1>5 DEF DecisionNext, DecisionIInv

\* Issuers' lists stay ordered, what is being recorded was verified, and what
\* hosts were told is in the store.
THEOREM Invariance == DecisionSpec => []DecisionIInv
BY InitEstablishes, StepPreserves, PTL DEF DecisionSpec

\* An accepted release is in none of its issuer's lists up to the one it was
\* accepted under.
LEMMA RevokedLater ==
    ASSUME DecisionIInv, NEW v \in Verifiers, Accepted(v), NEW l \in Revocations(v)
    PROVE  list[v].sequence < l.sequence /\ list[v].issued <= l.issued
<1>1. /\ list[v] \in lists /\ l \in lists /\ l.issuer = list[v].issuer
      /\ subject[v] \in l.revoked /\ subject[v] \notin list[v].revoked
  BY DEF DecisionIInv, VerifiedInv, Decided, Revocations
<1>2. ~ (l.sequence <= list[v].sequence)
  BY <1>1 DEF DecisionIInv, ListsInv
<1>3. l.sequence \in Nat /\ list[v].sequence \in Nat
  BY <1>1 DEF DecisionIInv, DecisionTypeOK, Lists, SequenceNumbers
<1>4. list[v].sequence < l.sequence
  BY <1>2, <1>3
<1> QED BY <1>1, <1>3, <1>4 DEF DecisionIInv, ListsInv

\* For every issuer, host, endpoint and bound: what one host of a store was
\* told of, no later call of any host goes back on.
THEOREM KnownRevocations == DecisionSpec => []KnownRevocationHolds
<1>1. DecisionIInv => KnownRevocationHolds
  <2> SUFFICES ASSUME DecisionIInv, NEW v \in Verifiers, Accepted(v), NEW l \in Revocations(v)
               PROVE  l.sequence > floor[v]
    BY DEF KnownRevocationHolds
  <2>1. list[v].sequence < l.sequence
    BY RevokedLater
  <2>2. floor[v] <= list[v].sequence
    BY DEF DecisionIInv, StoreInv, VerifiedInv, Decided, Accepted
  <2>3. floor[v] \in Int /\ l.sequence \in Nat /\ list[v].sequence \in Nat
    BY DEF DecisionIInv, DecisionTypeOK, VerifiedInv, Decided, Revocations, Lists,
       SequenceNumbers, None
  <2> QED BY <2>1, <2>2, <2>3
<1> QED BY <1>1, Invariance, PTL

\* For every issuer, host, endpoint and bound: a revocation is effective
\* everywhere once the freshness window has passed.
THEOREM RevocationEffective == DecisionSpec => []RevocationTakesEffect
<1>1. DecisionIInv => RevocationTakesEffect
  <2> SUFFICES ASSUME DecisionIInv, NEW v \in Verifiers, Accepted(v), NEW l \in Revocations(v)
               PROVE  begun[v] <= l.issued + MaxWindow
    BY DEF RevocationTakesEffect
  <2>1. list[v].issued <= l.issued
    BY RevokedLater
  <2>2. begun[v] <= list[v].next /\ list[v].next - list[v].issued <= MaxWindow
    BY DEF DecisionIInv, VerifiedInv, Decided, ListCurrent, Bounded
  <2>3. list[v] \in Lists /\ l \in Lists /\ begun[v] \in Nat
    BY DEF DecisionIInv, DecisionTypeOK, VerifiedInv, Decided, Revocations
  <2> QED BY <2>1, <2>2, <2>3, DecisionAssumption DEF Lists, Time
<1> QED BY <1>1, Invariance, PTL
===============================================================================
