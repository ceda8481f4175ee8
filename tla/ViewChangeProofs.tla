-------------------------- MODULE ViewChangeProofs --------------------------
(***************************************************************************)
(* Proofs about Election and ViewChange, for every pool, every number of   *)
(* protocol instances, views and rounds: first what both share (the types  *)
(* of the elector's methods), then ViewChange, in every scene with at most *)
(* f faulty nodes, and from FirstInv on the first round of Election.       *)
(***************************************************************************)
EXTENDS ViewChange, DataInduction, FiniteSetTheorems, SequenceTheorems

Votes == [name : Nodes, seq : Nat]
ElectionMsg ==
    [type : {"NOMINATE", "PRIMARY"}, instId : Insts, viewNo : Views, vote : Votes]
        \cup [type : {"REELECTION"}, instId : Insts, viewNo : Views,
              round : Nat, tieAmong : SUBSET Votes]
Mail == ElectionMsg \cup [type : {"INSTANCE_CHANGE"}, viewNo : Views \ {0}]

Ballots == [Insts -> [Nodes -> Votes \cup {None}]]

\* Electors in one of the views V that send messages of M.
ElectorIn(V, M) ==
    [viewNo : V, participating : BOOLEAN,
     nominations : Ballots, primaryDeclarations : Ballots,
     reElectionProposals : [Insts -> [Nodes -> (SUBSET Votes) \cup {None}]],
     reElectionRounds : [Insts -> Nat],
     timer : [Insts -> {"none", "running", "expired"}],
     replicaNominatedForItself : Insts \cup {None},
     previous_master_primary : Nodes \cup {None},
     primaryName : [Insts -> Nodes \cup {None}],
     lastOrdered : Nat,
     decide : SUBSET Insts, start : BOOLEAN, nominate : SUBSET Insts, delayed : SUBSET Insts,
     out : Seq(M)]
Elector(v) == ElectorIn({v}, ElectionMsg)
AnyElector == ElectorIn(Views, Mail)

-----------------------------------------------------------------------------
(* The elector's methods keep its type, its view and what it sends.         *)

LEMMA SendType ==
    ASSUME NEW v \in Views, NEW e \in Elector(v), NEW m \in ElectionMsg
    PROVE  send(e, m) \in Elector(v)
<1>. DEFINE o == Append(e.out, m)
<1>1. o \in Seq(ElectionMsg)
  BY AppendProperties DEF Elector, ElectorIn
<1>2. send(e, m) = [e EXCEPT !.out = o]
  BY DEF send
<1>. HIDE DEF o
<1>. QED BY <1>1, <1>2 DEF Elector, ElectorIn

LEMMA SetBallot ==
    ASSUME NEW b \in Ballots, NEW i \in Insts, NEW n \in Nodes, NEW x \in Votes
    PROVE  [b EXCEPT ![i][n] = x] \in Ballots
BY DEF Ballots

LEMMA ClearBallot ==
    ASSUME NEW b \in Ballots, NEW i \in Insts
    PROVE  [b EXCEPT ![i] = NoVotes] \in Ballots
BY DEF Ballots, NoVotes

LEMMA NominateType ==
    ASSUME NEW v \in Views, NEW e \in Elector(v), NEW n \in Nodes, NEW i \in Insts, NEW x \in Votes
    PROVE  Nominate(n, e, i, x) \in Elector(v)
<1>. DEFINE b == [e.nominations EXCEPT ![i][n] = x]
            m == [type |-> "NOMINATE", instId |-> i, viewNo |-> e.viewNo, vote |-> x]
            e1 == [e EXCEPT !.nominations = b]
<1>1. b \in Ballots
  BY SetBallot DEF Elector, ElectorIn
<1>2. e.viewNo = v /\ m \in ElectionMsg
  BY DEF Elector, ElectorIn, ElectionMsg
<1>3. Nominate(n, e, i, x) = send(e1, m)
  BY DEF Nominate
<1>. HIDE DEF b, m
<1>4. e1 \in Elector(v)
  BY <1>1 DEF Elector, ElectorIn
<1>. HIDE DEF e1
<1>. QED BY <1>2, <1>3, <1>4, SendType

LEMMA NominateReplicaType ==
    ASSUME NEW v \in Views, NEW e \in Elector(v), NEW n \in Nodes, NEW i \in Insts
    PROVE  nominateReplica(n, e, i) \in Elector(v)
<1>. DEFINE x == [name |-> n, seq |-> e.lastOrdered]
<1>1. x \in Votes
  BY DEF Elector, ElectorIn, Votes
<1>. HIDE DEF x
<1>. QED BY <1>1, NominateType DEF nominateReplica, x

LEMMA NominateRandomType ==
    ASSUME NEW V, NEW M, NEW e \in ElectorIn(V, M), NEW n \in Nodes
    PROVE  /\ nominateRandomReplica(n, e) \subseteq ElectorIn(V, M)
           /\ \A x \in nominateRandomReplica(n, e) :
                  x.viewNo = e.viewNo /\ x.out = e.out /\ x.primaryName = e.primaryName
<1>1. CASE ~e.participating \/ Undecided(n, e) = {}
  BY <1>1 DEF nominateRandomReplica
<1>2. CASE ~(~e.participating \/ Undecided(n, e) = {})
  <2>. SUFFICES ASSUME NEW x \in nominateRandomReplica(n, e)
                PROVE  /\ x \in ElectorIn(V, M)
                       /\ x.viewNo = e.viewNo /\ x.out = e.out /\ x.primaryName = e.primaryName
    OBVIOUS
  <2>1. PICK i \in Undecided(n, e) :
            x = [e EXCEPT !.replicaNominatedForItself = i, !.nominate = @ \cup {i}]
    BY <1>2 DEF nominateRandomReplica
  <2>2. i \in Insts
    BY DEF Undecided
  <2>. QED BY <2>1, <2>2 DEF ElectorIn
<1>. QED BY <1>1, <1>2

LEMMA StartElectionType ==
    ASSUME NEW v \in Views, NEW e \in Elector(v), NEW n \in Nodes
    PROVE  startElection(n, e) \subseteq Elector(v)
BY NominateRandomType DEF startElection, Elector

LEMMA ScheduleElectionType ==
    ASSUME NEW v \in Views, NEW e \in Elector(v), NEW n \in Nodes
    PROVE  scheduleElection(n, e) \in Elector(v) /\ scheduleElection(n, e).out = e.out
<1>. DEFINE s == startElection(n, e) # {e}
<1>1. s \in BOOLEAN
  OBVIOUS
<1>2. scheduleElection(n, e) = [e EXCEPT !.start = s]
  BY DEF scheduleElection
<1>. HIDE DEF s
<1>. QED BY <1>1, <1>2 DEF Elector, ElectorIn

LEMMA ScheduleDecisionType ==
    ASSUME NEW v \in Views, NEW e \in Elector(v), NEW n \in Nodes, NEW i \in Insts
    PROVE  scheduleDecision(n, e, i) \in Elector(v)
BY DEF scheduleDecision, Elector, ElectorIn

LEMMA ProcessNominateType ==
    ASSUME NEW v \in Views, NEW e \in Elector(v), NEW n \in Nodes, NEW s \in Nodes,
           NEW m \in ElectionMsg, m.type = "NOMINATE"
    PROVE  processNominate(n, e, m, s) \in Elector(v)
<1>. DEFINE i == m.instId
            own == IF didReplicaNominate(n, e, i) THEN e ELSE Nominate(n, e, i, m.vote)
            b == [own.nominations EXCEPT ![i][s] = m.vote]
            e1 == [own EXCEPT !.nominations = b]
<1>1. i \in Insts /\ m.vote \in Votes
  BY DEF ElectionMsg
<1>2. own \in Elector(v)
  <2>. HIDE DEF i
  <2>. QED BY <1>1, NominateType
<1>3. processNominate(n, e, m, s) =
         IF LedBefore(e, m) THEN e
         ELSE IF own.nominations[i][s] # None THEN own ELSE scheduleDecision(n, e1, i)
  BY DEF processNominate
<1>. HIDE DEF i, own
<1>4. b \in Ballots
  BY <1>1, <1>2, SetBallot DEF Elector, ElectorIn
<1>. HIDE DEF b
<1>5. e1 \in Elector(v)
  BY <1>2, <1>4 DEF Elector, ElectorIn
<1>. HIDE DEF e1
<1>. QED BY <1>1, <1>2, <1>3, <1>5, ScheduleDecisionType

\* What there is most of was voted for.
LEMMA MostCommonType ==
    ASSUME NEW b \in [Nodes -> Votes \cup {None}]
    PROVE  MostCommon(b) \subseteq Votes
BY DEF MostCommon, Voters

LEMMA PrimaryChangedType ==
    ASSUME NEW v \in Views, NEW e \in Elector(v), NEW n \in Nodes, NEW i \in Insts, NEW x \in Votes
    PROVE  primaryChanged(n, e, i, x) \in Elector(v)
<1>. DEFINE p == [e.primaryName EXCEPT ![i] = x.name]
            l == IF e.lastOrdered < x.seq THEN x.seq ELSE e.lastOrdered
            q == IF i = 0 THEN None ELSE e.previous_master_primary
            r == IF e.replicaNominatedForItself = i THEN None ELSE e.replicaNominatedForItself
            e1 == [e EXCEPT !.primaryName = p, !.lastOrdered = l,
                            !.previous_master_primary = q, !.replicaNominatedForItself = r]
<1>1. /\ p \in [Insts -> Nodes \cup {None}] /\ l \in Nat
      /\ q \in Nodes \cup {None} /\ r \in Insts \cup {None}
  BY DEF Elector, ElectorIn, Votes
<1>2. primaryChanged(n, e, i, x) = scheduleElection(n, e1)
  BY DEF primaryChanged
<1>. HIDE DEF p, l, q, r
<1>3. e1 \in Elector(v)
  BY <1>1 DEF Elector, ElectorIn
<1>. HIDE DEF e1
<1>. QED BY <1>2, <1>3, ScheduleElectionType

LEMMA ProcessPrimaryType ==
    ASSUME NEW v \in Views, NEW e \in Elector(v), NEW n \in Nodes, NEW s \in Nodes,
           NEW m \in ElectionMsg, m.type = "PRIMARY"
    PROVE  processPrimary(n, e, m, s) \subseteq Elector(v)
<1>. DEFINE i == m.instId
            b == [e.primaryDeclarations EXCEPT ![i][s] = m.vote]
            e1 == [e EXCEPT !.primaryDeclarations = b]
<1>1. i \in Insts /\ m.vote \in Votes
  BY DEF ElectionMsg
<1>2. b \in Ballots
  <2>. HIDE DEF i
  <2>. QED BY <1>1, SetBallot DEF Elector, ElectorIn
<1>3. processPrimary(n, e, m, s) =
         IF LedBefore(e, m) \/ e.primaryDeclarations[i][s] # None THEN {e}
         ELSE IF e.primaryName[i] # None \/ ~hasPrimaryQuorum(e1, i) THEN {e1}
         ELSE {primaryChanged(n, e1, i, x) : x \in MostCommon(e1.primaryDeclarations[i])}
  BY DEF processPrimary
<1>. HIDE DEF i, b
<1>4. e1 \in Elector(v)
  BY <1>2 DEF Elector, ElectorIn
<1>5. e1.primaryDeclarations[i] \in [Nodes -> Votes \cup {None}]
  BY <1>1, <1>4 DEF Elector, ElectorIn, Ballots
<1>. HIDE DEF e1
<1>6. MostCommon(e1.primaryDeclarations[i]) \subseteq Votes
  BY <1>5, MostCommonType
<1>7. \A x \in MostCommon(e1.primaryDeclarations[i]) : primaryChanged(n, e1, i, x) \in Elector(v)
  BY <1>1, <1>4, <1>6, PrimaryChangedType
<1>. QED BY <1>3, <1>4, <1>7

LEMMA DefaultsType ==
    ASSUME NEW v \in Views, NEW e \in Elector(v), NEW i \in Insts
    PROVE  setElectionDefaults(e, i) \in Elector(v)
<1>. DEFINE a == [e.nominations EXCEPT ![i] = NoVotes]
            b == [e.primaryDeclarations EXCEPT ![i] = NoVotes]
            c == [e.reElectionProposals EXCEPT ![i] = NoVotes]
            t == [e.timer EXCEPT ![i] = "none"]
<1>1. a \in Ballots /\ b \in Ballots
  BY ClearBallot DEF Elector, ElectorIn
<1>2. c \in [Insts -> [Nodes -> (SUBSET Votes) \cup {None}]]
  BY DEF Elector, ElectorIn, NoVotes
<1>3. t \in [Insts -> {"none", "running", "expired"}]
  BY DEF Elector, ElectorIn
<1>4. setElectionDefaults(e, i) =
         [e EXCEPT !.nominations = a, !.primaryDeclarations = b,
                   !.reElectionProposals = c, !.timer = t]
  BY DEF setElectionDefaults
<1>. HIDE DEF a, b, c, t
<1>. QED BY ZenonT(60), <1>1, <1>2, <1>3, <1>4 DEF Elector, ElectorIn

LEMMA ProcessReelectionType ==
    ASSUME NEW v \in Views, NEW e \in Elector(v), NEW n \in Nodes, NEW s \in Nodes,
           NEW m \in ElectionMsg, m.type = "REELECTION"
    PROVE  processReelection(n, e, m, s) \subseteq Elector(v)
<1>. DEFINE i == m.instId
            p == [e.reElectionProposals EXCEPT ![i][s] = m.tieAmong]
            e1 == [e EXCEPT !.reElectionProposals = p]
            e2 == setElectionDefaults(e1, i)
            e3 == [e2 EXCEPT !.delayed = @ \cup {i}]
<1>1. i \in Insts /\ m.tieAmong \in SUBSET Votes
  BY DEF ElectionMsg
<1>2. p \in [Insts -> [Nodes -> (SUBSET Votes) \cup {None}]]
  <2>. HIDE DEF i
  <2>. QED BY <1>1 DEF Elector, ElectorIn
<1>3. processReelection(n, e, m, s) \subseteq {e, e1, e2, e3, nominateReplica(n, e2, i)}
  BY DEF processReelection
<1>. HIDE DEF i, p
<1>4. e1 \in Elector(v)
  BY <1>2 DEF Elector, ElectorIn
<1>. HIDE DEF e1
<1>5. e2 \in Elector(v)
  BY <1>1, <1>4, DefaultsType
<1>. HIDE DEF e2
<1>6. e3 \in Elector(v)
  BY <1>1, <1>5 DEF Elector, ElectorIn
<1>. HIDE DEF e3
<1>7. nominateReplica(n, e2, i) \in Elector(v)
  BY <1>1, <1>5, NominateReplicaType
<1>. QED BY <1>3, <1>4, <1>5, <1>6, <1>7

LEMMA HandleType ==
    ASSUME NEW v \in Views, NEW e \in Elector(v), NEW n \in Nodes, NEW s \in Nodes,
           NEW m \in ElectionMsg
    PROVE  Handle(n, e, m, s) \subseteq Elector(v)
<1>1. m.type \in {"NOMINATE", "PRIMARY", "REELECTION"}
  BY DEF ElectionMsg
<1>2. CASE m.type = "NOMINATE"
  BY <1>2, ProcessNominateType DEF Handle
<1>3. CASE m.type = "PRIMARY"
  BY <1>3, ProcessPrimaryType DEF Handle
<1>4. CASE m.type = "REELECTION"
  BY <1>4, ProcessReelectionType DEF Handle
<1>. QED BY <1>1, <1>2, <1>3, <1>4

LEMMA SendPrimaryType ==
    ASSUME NEW v \in Views, NEW e \in Elector(v), NEW n \in Nodes, NEW i \in Insts, NEW x \in Votes
    PROVE  sendPrimary(n, e, i, x) \in Elector(v)
<1>. DEFINE b == [e.primaryDeclarations EXCEPT ![i][n] = x]
            t == [e.timer EXCEPT ![i] = "none"]
            m == [type |-> "PRIMARY", instId |-> i, viewNo |-> e.viewNo, vote |-> x]
            e1 == [e EXCEPT !.primaryDeclarations = b, !.timer = t]
<1>1. b \in Ballots
  BY SetBallot DEF Elector, ElectorIn
<1>2. t \in [Insts -> {"none", "running", "expired"}]
  BY DEF Elector, ElectorIn
<1>3. e.viewNo = v /\ m \in ElectionMsg
  BY DEF Elector, ElectorIn, ElectionMsg
<1>4. sendPrimary(n, e, i, x) = send(e1, m)
  BY DEF sendPrimary
<1>. HIDE DEF b, t, m
<1>5. e1 \in Elector(v)
  BY <1>1, <1>2 DEF Elector, ElectorIn
<1>. HIDE DEF e1
<1>. QED BY <1>3, <1>4, <1>5, SendType

LEMMA SendReelectionType ==
    ASSUME NEW v \in Views, NEW e \in Elector(v), NEW n \in Nodes, NEW i \in Insts,
           NEW c \in SUBSET Votes
    PROVE  sendReelection(n, e, i, c) \in Elector(v)
<1>. DEFINE p == [e.reElectionProposals EXCEPT ![i][n] = c]
            r == [e.reElectionRounds EXCEPT ![i] = @ + 1]
            t == [e.timer EXCEPT ![i] = "none"]
            m == [type |-> "REELECTION", instId |-> i, viewNo |-> e.viewNo,
                  round |-> e.reElectionRounds[i] + 1, tieAmong |-> c]
            e1 == [e EXCEPT !.reElectionRounds = r, !.reElectionProposals = p, !.timer = t]
<1>1. p \in [Insts -> [Nodes -> (SUBSET Votes) \cup {None}]]
  BY DEF Elector, ElectorIn
<1>2. t \in [Insts -> {"none", "running", "expired"}] /\ r \in [Insts -> Nat]
  BY DEF Elector, ElectorIn
<1>3. e.viewNo = v /\ e.reElectionRounds[i] + 1 \in Nat
  BY DEF Elector, ElectorIn
<1>4. m \in ElectionMsg
  BY <1>3 DEF ElectionMsg
<1>5. sendReelection(n, e, i, c) = send(e1, m)
  BY DEF sendReelection
<1>. HIDE DEF p, r, t, m
<1>6. e1 \in Elector(v)
  BY <1>1, <1>2 DEF Elector, ElectorIn
<1>. HIDE DEF e1
<1>. QED BY <1>4, <1>5, <1>6, SendType

LEMMA ScheduleTimerType ==
    ASSUME NEW v \in Views, NEW e \in Elector(v), NEW i \in Insts
    PROVE  schedulePrimaryDecision(e, i) \in Elector(v)
<1>. DEFINE t == [e.timer EXCEPT ![i] = "running"]
<1>1. t \in [Insts -> {"none", "running", "expired"}]
  BY DEF Elector, ElectorIn
<1>2. schedulePrimaryDecision(e, i) \in {e, [e EXCEPT !.timer = t]}
  BY DEF schedulePrimaryDecision
<1>. HIDE DEF t
<1>. QED BY ZenonT(60), <1>1, <1>2 DEF Elector, ElectorIn

LEMMA DecidePrimaryType ==
    ASSUME NEW v \in Views, NEW e \in Elector(v), NEW n \in Nodes, NEW i \in Insts
    PROVE  decidePrimary(n, e, i) \in Elector(v)
<1>. DEFINE c == getPrimaryCandidates(e, i)
            w == CHOOSE x \in c : TRUE
<1>1. e.nominations[i] \in [Nodes -> Votes \cup {None}]
  BY DEF Elector, ElectorIn, Ballots
<1>2. c \subseteq Votes
  BY <1>1, MostCommonType DEF getPrimaryCandidates
<1>3. Cardinality(c) = 1 => w \in Votes
  <2>. HIDE DEF c
  <2>. SUFFICES ASSUME Cardinality(c) = 1 PROVE w \in Votes
    OBVIOUS
  <2>1. c # {}
    BY FS_EmptySet
  <2>. QED BY <1>2, <2>1
<1>4. \/ decidePrimary(n, e, i) \in {e, schedulePrimaryDecision(e, i), sendReelection(n, e, i, c)}
      \/ /\ Cardinality(c) = 1
         /\ decidePrimary(n, e, i) = sendPrimary(n, e, i, w)
  BY DEF decidePrimary
<1>. HIDE DEF c, w
<1>5. schedulePrimaryDecision(e, i) \in Elector(v)
  BY ScheduleTimerType
<1>6. sendReelection(n, e, i, c) \in Elector(v)
  BY <1>2, SendReelectionType
<1>7. Cardinality(c) = 1 => sendPrimary(n, e, i, w) \in Elector(v)
  BY <1>3, SendPrimaryType
<1>. QED BY <1>4, <1>5, <1>6, <1>7

LEMMA DecideAllType ==
    ASSUME NEW v \in Views, NEW e \in Elector(v), NEW n \in Nodes, NEW insts,
           pool.instances \in Nat
    PROVE  decideAll(n, e, insts) \in Elector(v)
<1>. DEFINE N == pool.instances
            V == Elector(v)
            step(k, x) == IF k - 1 \in insts THEN decidePrimary(n, x, k - 1) ELSE x
            E == [k \in 1..N |-> [x \in V |-> step(k, x)]]
            Eq(g) == g = [k \in 0..N |-> IF k = 0 THEN e ELSE step(k, g[k - 1])]
            done == CHOOSE g : Eq(g)
<1>1. N \in Nat /\ \A k \in 1..N : k - 1 \in Insts
  BY DEF Insts
<1>2. \A k \in 1..N, x \in V : step(k, x) \in V
  BY <1>1, DecidePrimaryType
<1>3. decideAll(n, e, insts) = done[N]
  BY DEF decideAll
<1>. HIDE DEF N, V, step
<1>4. E \in [1..N -> [V -> V]] /\ e \in V
  BY <1>2 DEF V
<1>5. PICK g \in [0..N -> V] : Recurs(g, N, e, E)
  <2>. HIDE DEF E
  <2>. QED BY <1>1, <1>4, RecursionUpTo
<1>6. Eq(g)
  <2>1. ASSUME NEW k \in 0..N PROVE g[k] = IF k = 0 THEN e ELSE step(k, g[k - 1])
    <3>1. g[k] = IF k = 0 THEN e ELSE E[k][g[k - 1]]
      <4>. HIDE DEF E
      <4>. QED BY <1>5 DEF Recurs
    <3>2. k # 0 => k \in 1..N /\ k - 1 \in 0..N
      BY <1>1
    <3>. QED BY <3>1, <3>2
  <2>2. g = [k \in 0..N |-> g[k]]
    OBVIOUS
  <2>. QED BY <2>1, <2>2
<1>7. Eq(done)
  <2>. HIDE DEF Eq
  <2>. QED BY <1>6
<1>8. \A k \in 0..N : done[k] = IF k = 0 THEN e ELSE step(k, done[k - 1])
  <2>. HIDE DEF done
  <2>. QED BY <1>7, Zenon
<1>. HIDE DEF done
<1>9. done[0] \in V
  BY <1>1, <1>4, <1>8
<1>10. \A k \in 1..N : done[k - 1] \in V => done[k] \in V
  BY <1>1, <1>2, <1>8
<1>11. done[N] \in V
  <2>. HIDE DEF E, Eq
  <2>. QED BY <1>1, <1>9, <1>10, StaysIn
<1>. QED BY <1>3, <1>11 DEF V

LEMMA NominateAllType ==
    ASSUME NEW v \in Views, NEW e \in Elector(v), NEW n \in Nodes, NEW insts,
           pool.instances \in Nat
    PROVE  nominateAll(n, e, insts) \in Elector(v)
<1>. DEFINE N == pool.instances
            V == Elector(v)
            step(k, x) == IF k - 1 \in insts THEN nominateReplica(n, x, k - 1) ELSE x
            E == [k \in 1..N |-> [x \in V |-> step(k, x)]]
            Eq(g) == g = [k \in 0..N |-> IF k = 0 THEN e ELSE step(k, g[k - 1])]
            done == CHOOSE g : Eq(g)
<1>1. N \in Nat /\ \A k \in 1..N : k - 1 \in Insts
  BY DEF Insts
<1>2. \A k \in 1..N, x \in V : step(k, x) \in V
  BY <1>1, NominateReplicaType
<1>3. nominateAll(n, e, insts) = done[N]
  BY DEF nominateAll
<1>. HIDE DEF N, V, step
<1>4. E \in [1..N -> [V -> V]] /\ e \in V
  BY <1>2 DEF V
<1>5. PICK g \in [0..N -> V] : Recurs(g, N, e, E)
  <2>. HIDE DEF E
  <2>. QED BY <1>1, <1>4, RecursionUpTo
<1>6. Eq(g)
  <2>1. ASSUME NEW k \in 0..N PROVE g[k] = IF k = 0 THEN e ELSE step(k, g[k - 1])
    <3>1. g[k] = IF k = 0 THEN e ELSE E[k][g[k - 1]]
      <4>. HIDE DEF E
      <4>. QED BY <1>5 DEF Recurs
    <3>2. k # 0 => k \in 1..N /\ k - 1 \in 0..N
      BY <1>1
    <3>. QED BY <3>1, <3>2
  <2>2. g = [k \in 0..N |-> g[k]]
    OBVIOUS
  <2>. QED BY <2>1, <2>2
<1>7. Eq(done)
  <2>. HIDE DEF Eq
  <2>. QED BY <1>6
<1>8. \A k \in 0..N : done[k] = IF k = 0 THEN e ELSE step(k, done[k - 1])
  <2>. HIDE DEF done
  <2>. QED BY <1>7, Zenon
<1>. HIDE DEF done
<1>9. done[0] \in V
  BY <1>1, <1>4, <1>8
<1>10. \A k \in 1..N : done[k - 1] \in V => done[k] \in V
  BY <1>1, <1>2, <1>8
<1>11. done[N] \in V
  <2>. HIDE DEF E, Eq
  <2>. QED BY <1>1, <1>9, <1>10, StaysIn
<1>. QED BY <1>3, <1>11 DEF V

LEMMA ServiceType ==
    ASSUME NEW v \in Views, NEW e \in Elector(v), NEW n \in Nodes, pool.instances \in Nat
    PROVE  _serviceActions(n, e) \subseteq Elector(v)
<1>. DEFINE e0 == [e EXCEPT !.decide = {}, !.start = FALSE]
            decided == decideAll(n, e0, e.decide)
            ds == IF e.start THEN startElection(n, decided) ELSE {decided}
            un(d) == [d EXCEPT !.nominate = {}]
<1>1. e0 \in Elector(v)
  BY DEF Elector, ElectorIn
<1>2. decided \in Elector(v)
  <2>. HIDE DEF e0
  <2>. QED BY <1>1, DecideAllType
<1>3. ds \subseteq Elector(v)
  <2>. HIDE DEF decided
  <2>. QED BY <1>2, StartElectionType
<1>4. _serviceActions(n, e) = {nominateAll(n, un(d), d.nominate) : d \in ds}
  BY DEF _serviceActions
<1>. HIDE DEF ds
<1>5. ASSUME NEW d \in ds PROVE nominateAll(n, un(d), d.nominate) \in Elector(v)
  <2>1. un(d) \in Elector(v)
    BY ZenonT(60), <1>3 DEF Elector, ElectorIn
  <2>. HIDE DEF un
  <2>. QED BY <2>1, NominateAllType
<1>. QED BY <1>4, <1>5

\* The elector of a new view has no primary and sends what it had to send.
LEMMA ViewChangedType ==
    ASSUME NEW e \in AnyElector, NEW n \in Nodes, NEW v \in Views, 0 \in Insts,
           NEW x \in viewChanged(n, e, v)
    PROVE  x \in AnyElector /\ x.viewNo = v /\ x.out = e.out
<1>. DEFINE p == e.primaryName[0]
            none == [i \in Insts |-> None]
            no == [i \in Insts |-> NoVotes]
            r == [i \in Insts |-> 0]
            t == [i \in Insts |-> "none"]
            e1 == [e EXCEPT !.previous_master_primary = p, !.viewNo = v, !.primaryName = none,
                            !.nominations = no, !.primaryDeclarations = no,
                            !.reElectionProposals = no, !.reElectionRounds = r,
                            !.timer = t, !.replicaNominatedForItself = None]
<1>1. /\ p \in Nodes \cup {None} /\ none \in [Insts -> Nodes \cup {None}]
      /\ no \in Ballots /\ no \in [Insts -> [Nodes -> (SUBSET Votes) \cup {None}]]
      /\ r \in [Insts -> Nat] /\ t \in [Insts -> {"none", "running", "expired"}]
  BY DEF AnyElector, ElectorIn, NoVotes, Ballots
<1>2. viewChanged(n, e, v) = nominateRandomReplica(n, e1)
  BY DEF viewChanged
<1>. HIDE DEF p, none, no, r, t
<1>3. e1 \in ElectorIn(Views, Mail) /\ e1.viewNo = v /\ e1.out = e.out
  BY <1>1 DEF AnyElector, ElectorIn
<1>. HIDE DEF e1
<1>. QED BY <1>2, <1>3, NominateRandomType DEF AnyElector

LEMMA ElectionMsgsType ==
    ASSUME NEW v \in Views, NEW e \in Elector(v), NEW n \in Nodes, NEW i \in Insts
    PROVE  getElectionMsgsForInstance(n, e, i) \in Seq(ElectionMsg)
<1>. DEFINE Msg(t, x) == [type |-> t, instId |-> i, viewNo |-> e.viewNo, vote |-> x]
            Own(t, b) == IF b[n] = None THEN <<>> ELSE << Msg(t, b[n]) >>
            a == Own("NOMINATE", e.nominations[i])
            b == Own("PRIMARY", e.primaryDeclarations[i])
<1>1. \A t \in {"NOMINATE", "PRIMARY"}, x \in Votes : Msg(t, x) \in ElectionMsg
  BY DEF Elector, ElectorIn, ElectionMsg
<1>2. /\ e.nominations[i][n] \in Votes \cup {None}
      /\ e.primaryDeclarations[i][n] \in Votes \cup {None}
      /\ e.primaryName[i] \in Nodes \cup {None} /\ e.lastOrdered \in Nat
  BY DEF Elector, ElectorIn, Ballots
<1>3. getElectionMsgsForInstance(n, e, i) =
         IF e.primaryName[i] # None
         THEN << Msg("PRIMARY", [name |-> e.primaryName[i], seq |-> e.lastOrdered]) >>
         ELSE a \o b
  BY DEF getElectionMsgsForInstance
<1>4. e.primaryName[i] # None => [name |-> e.primaryName[i], seq |-> e.lastOrdered] \in Votes
  BY <1>2 DEF Votes
<1>. HIDE DEF Msg
<1>5. a \in Seq(ElectionMsg) /\ b \in Seq(ElectionMsg)
  BY <1>1, <1>2
<1>. HIDE DEF a, b
<1>6. a \o b \in Seq(ElectionMsg)
  BY <1>5, ConcatProperties
<1>7. \A x \in ElectionMsg : <<x>> \in Seq(ElectionMsg)
  OBVIOUS
<1>. QED BY <1>1, <1>3, <1>4, <1>6, <1>7

LEMMA LaggedSteps ==
    ASSUME NEW v \in Views, NEW n \in Nodes, el[n] \in Elector(v), pool.instances \in Nat
    PROVE  \E msgs :
              /\ msgs[0] = <<>> /\ msgs[pool.instances] = getElectionMsgsForLaggedNodes(n)
              /\ \A k \in 0 .. pool.instances : msgs[k] \in Seq(ElectionMsg)
              /\ \A k \in 1 .. pool.instances :
                    msgs[k] = msgs[k - 1] \o getElectionMsgsForInstance(n, el[n], k - 1)
<1>. DEFINE N == pool.instances
            V == Seq(ElectionMsg)
            step(k, q) == q \o getElectionMsgsForInstance(n, el[n], k - 1)
            E == [k \in 1..N |-> [q \in V |-> step(k, q)]]
            Eq(g) == g = [k \in 0..N |-> IF k = 0 THEN <<>> ELSE step(k, g[k - 1])]
            msgs == CHOOSE g : Eq(g)
<1>1. N \in Nat /\ \A k \in 1..N : k - 1 \in Insts
  BY DEF Insts
<1>2. \A k \in 1..N, q \in V : step(k, q) \in V
  BY <1>1, ElectionMsgsType, ConcatProperties
<1>3. getElectionMsgsForLaggedNodes(n) = msgs[N]
  BY DEF getElectionMsgsForLaggedNodes
<1>4. <<>> \in V
  BY EmptySeq
<1>. HIDE DEF N, V, step
<1>5. E \in [1..N -> [V -> V]]
  BY <1>2
<1>6. PICK g \in [0..N -> V] : Recurs(g, N, <<>>, E)
  <2>. HIDE DEF E
  <2>. QED BY <1>1, <1>4, <1>5, RecursionUpTo
<1>7. Eq(g)
  <2>1. ASSUME NEW k \in 0..N PROVE g[k] = IF k = 0 THEN <<>> ELSE step(k, g[k - 1])
    <3>1. g[k] = IF k = 0 THEN <<>> ELSE E[k][g[k - 1]]
      <4>. HIDE DEF E
      <4>. QED BY <1>6 DEF Recurs
    <3>2. k # 0 => k \in 1..N /\ k - 1 \in 0..N
      BY <1>1
    <3>. QED BY <3>1, <3>2
  <2>2. g = [k \in 0..N |-> g[k]]
    OBVIOUS
  <2>. QED BY <2>1, <2>2
<1>8. Eq(msgs)
  <2>. HIDE DEF Eq
  <2>. QED BY <1>7
<1>9. \A k \in 0..N : msgs[k] = IF k = 0 THEN <<>> ELSE step(k, msgs[k - 1])
  <2>. HIDE DEF msgs
  <2>. QED BY <1>8, Zenon
<1>. HIDE DEF msgs, E, Eq
<1>10. msgs[0] = <<>> /\ \A k \in 1..N : msgs[k] = step(k, msgs[k - 1])
  BY <1>1, <1>9
<1>11. \A j \in 0..N : msgs[j] \in V
  <2>. DEFINE S == {k \in 0..N : msgs[k] \in V}
  <2>1. 0 \in S
    BY <1>1, <1>4, <1>10
  <2>2. ASSUME NEW k \in 0..(N - 1), k \in S PROVE k + 1 \in S
    <3>1. k + 1 \in 1..N /\ k + 1 \in 0..N /\ (k + 1) - 1 = k
      BY <1>1
    <3>. QED BY <1>2, <1>10, <2>2, <3>1
  <2>. HIDE DEF S
  <2>3. 0..N \subseteq S
    BY <1>1, <2>1, <2>2, InductionUpTo
  <2>. QED BY <2>3 DEF S
<1>. QED BY <1>3, <1>10, <1>11 DEF N, V, step

LEMMA LaggedMsgsType ==
    ASSUME NEW v \in Views, NEW n \in Nodes, el[n] \in Elector(v), pool.instances \in Nat
    PROVE  getElectionMsgsForLaggedNodes(n) \in Seq(ElectionMsg)
<1>1. PICK msgs : /\ msgs[pool.instances] = getElectionMsgsForLaggedNodes(n)
                  /\ \A k \in 0 .. pool.instances : msgs[k] \in Seq(ElectionMsg)
  BY LaggedSteps
<1>. QED BY <1>1

-----------------------------------------------------------------------------
(* The type of the state                                                    *)

Stash == Seq(ElectionMsg \X Nodes)
NodeRecord ==
    [instanceChanges : [Views -> SUBSET Nodes],
     msgsForFutureViews : [Views -> Stash], msgsToElector : Stash,
     view_change_in_progress : BOOLEAN, degraded : BOOLEAN, throttled : BOOLEAN,
     cooled : Nat, lost : {"no", "waiting", "proposed"}]

\* What a node may become: what it keeps for other views is for later ones.
NodeState ==
    {st \in [e : AnyElector, d : NodeRecord] :
        /\ \A v \in Views : st.d.msgsForFutureViews[v] # <<>> => v > st.e.viewNo
        /\ st.d.cooled <= scene.coolDowns}

Channels == [Nodes -> [Nodes -> Seq(Mail)]]

TypeInv ==
    /\ pool \in Pools /\ scene \in Scenes
    /\ conns \subseteq Nodes /\ crashed \subseteq Nodes /\ suspecting \subseteq Nodes
    /\ el \in [Nodes -> AnyElector] /\ nd \in [Nodes -> NodeRecord] /\ chan \in Channels
    /\ \A n \in Nodes : el[n].out = <<>> /\ State(n) \in NodeState

LEMMA ViewNumbers ==
    /\ Views \subseteq Nat /\ MaxView \in Views /\ 0 \in Views
    /\ \A v \in Views : v < MaxView => v + 1 \in Views \ {0}
BY ViewChangeAssumption DEF Views

\* An elector at rest sends election messages only.
LEMMA AtRest ==
    ASSUME NEW e \in AnyElector, e.out = <<>>
    PROVE  e.viewNo \in Views /\ e \in Elector(e.viewNo)
<1>1. <<>> \in Seq(ElectionMsg)
  OBVIOUS
<1>. QED BY <1>1 DEF AnyElector, ElectorIn, Elector

LEMMA ElectorIsAny ==
    ASSUME NEW v \in Views, NEW e \in Elector(v)
    PROVE  e \in AnyElector /\ e.viewNo = v /\ e.out \in Seq(ElectionMsg)
<1>1. Seq(ElectionMsg) \subseteq Seq(Mail)
  <2>1. ElectionMsg \subseteq Mail
    BY DEF Mail
  <2>. QED BY <2>1, SeqMonotonic
<1>. QED BY <1>1 DEF AnyElector, ElectorIn, Elector

\* Votes and views: the methods of the node.

LEMMA StartViewChangeType ==
    ASSUME NEW n \in Nodes, NEW st \in NodeState, NEW v \in Views, 0 \in Insts,
           scene.coolDowns \in Nat, v > st.e.viewNo, NEW x \in startViewChange(n, st, v)
    PROVE  x \in NodeState /\ x.e.out = st.e.out
<1>. DEFINE future == [w \in Views |-> IF w <= v THEN <<>> ELSE st.d.msgsForFutureViews[w]]
            inbox == st.d.msgsToElector \o st.d.msgsForFutureViews[v]
            d == [st.d EXCEPT !.msgsToElector = inbox, !.msgsForFutureViews = future,
                              !.view_change_in_progress = TRUE, !.degraded = FALSE,
                              !.throttled = FALSE, !.cooled = 0]
<1>1. st.e \in AnyElector /\ st.d \in NodeRecord
  BY DEF NodeState
<1>2. inbox \in Stash
  BY <1>1, ConcatProperties DEF NodeRecord, Stash
<1>3. future \in [Views -> Stash]
  BY <1>1, EmptySeq DEF NodeRecord, Stash
<1>4. \A w \in Views : future[w] # <<>> => w > v
  BY ViewNumbers
<1>5. PICK e \in viewChanged(n, st.e, v) : x = [e |-> e, d |-> d]
  BY DEF startViewChange, processStashedMsgsForView
<1>6. e \in AnyElector /\ e.viewNo = v /\ e.out = st.e.out
  BY <1>1, <1>5, ViewChangedType
<1>. HIDE DEF future, inbox
<1>7. d \in NodeRecord /\ d.msgsForFutureViews = future /\ d.cooled = 0
  BY <1>1, <1>2, <1>3 DEF NodeRecord
<1>. HIDE DEF d
<1>. QED BY <1>4, <1>5, <1>6, <1>7 DEF NodeState

LEMMA PossiblyChangeType ==
    ASSUME NEW n \in Nodes, NEW st \in NodeState, NEW v \in Views, 0 \in Insts,
           scene.coolDowns \in Nat, NEW x \in do_view_change_if_possible(n, st, v)
    PROVE  x \in NodeState /\ x.e.out = st.e.out
BY StartViewChangeType DEF do_view_change_if_possible, canViewChange

LEMMA RecordType ==
    ASSUME NEW n \in Nodes, NEW st \in NodeState, NEW v \in Views, NEW frm \in Nodes, 0 \in Insts,
           scene.coolDowns \in Nat, NEW x \in _record_inst_change_msg(n, st, v, frm)
    PROVE  x \in NodeState /\ x.e.out = st.e.out
<1>. DEFINE c == [st.d.instanceChanges EXCEPT ![v] = @ \cup {frm}]
            d == [st.d EXCEPT !.instanceChanges = c]
            voted == [st EXCEPT !.d = d]
<1>1. c \in [Views -> SUBSET Nodes]
  BY DEF NodeState, NodeRecord
<1>2. x \in do_view_change_if_possible(n, voted, v) \cup {voted}
  BY DEF _record_inst_change_msg
<1>. HIDE DEF c
<1>3. /\ d \in NodeRecord /\ d.msgsForFutureViews = st.d.msgsForFutureViews
      /\ d.cooled = st.d.cooled
  BY <1>1 DEF NodeState, NodeRecord
<1>. HIDE DEF d
<1>4. voted \in NodeState /\ voted.e.out = st.e.out
  BY <1>3 DEF NodeState
<1>. HIDE DEF voted
<1>. QED BY <1>2, <1>4, PossiblyChangeType

LEMMA SendInstanceChangeType ==
    ASSUME NEW n \in Nodes, NEW st \in NodeState, NEW v \in Views \ {0}, 0 \in Insts,
           scene.coolDowns \in Nat, NEW x \in sendInstanceChange(n, st, v)
    PROVE  /\ x \in NodeState
           /\ st.d.throttled => x = st
           /\ ~st.d.throttled => x.e.out = Append(st.e.out, VoteFor(v))
<1>. DEFINE o == Append(st.e.out, VoteFor(v))
            e == [st.e EXCEPT !.out = o]
            d == [st.d EXCEPT !.throttled = TRUE]
            sent == [e |-> e, d |-> d]
<1>1. st.e \in AnyElector /\ st.d \in NodeRecord
  BY DEF NodeState
<1>2. VoteFor(v) \in Mail
  BY DEF VoteFor, Mail
<1>3. o \in Seq(Mail)
  BY <1>1, <1>2, AppendProperties DEF AnyElector, ElectorIn
<1>4. x \in IF st.d.throttled THEN {st} ELSE _record_inst_change_msg(n, sent, v, n)
  BY DEF sendInstanceChange, send
<1>. HIDE DEF o
<1>5. e \in AnyElector /\ e.viewNo = st.e.viewNo /\ e.out = o
  BY <1>1, <1>3 DEF AnyElector, ElectorIn
<1>6. /\ d \in NodeRecord /\ d.msgsForFutureViews = st.d.msgsForFutureViews
      /\ d.cooled = st.d.cooled
  BY <1>1 DEF NodeRecord
<1>. HIDE DEF e, d
<1>7. sent \in NodeState /\ sent.e.out = o
  BY <1>5, <1>6 DEF NodeState
<1>. HIDE DEF sent
<1>. QED BY <1>4, <1>7, RecordType DEF o

LEMMA ProposeType ==
    ASSUME NEW n \in Nodes, NEW st \in NodeState, st.e.viewNo < MaxView, ~st.d.throttled,
           0 \in Insts, scene.coolDowns \in Nat, NEW x \in Propose(n, st)
    PROVE  x \in NodeState /\ x.e.out = Append(st.e.out, VoteFor(st.e.viewNo + 1))
<1>1. st.e.viewNo + 1 \in Views \ {0}
  BY ViewNumbers DEF NodeState, AnyElector, ElectorIn
<1>. DEFINE next(y) == IF y.e.viewNo < MaxView THEN y.e.viewNo + 1 ELSE MaxView
            v == st.e.viewNo + 1
<1>2. PICK y \in sendInstanceChange(n, st, v) :
          x \in do_view_change_if_possible(n, y, next(y))
  BY DEF Propose
<1>. HIDE DEF v
<1>3. y \in NodeState /\ y.e.out = Append(st.e.out, VoteFor(v))
  BY <1>1, <1>2, SendInstanceChangeType DEF v
<1>4. next(y) \in Views
  BY <1>3, ViewNumbers DEF NodeState, AnyElector, ElectorIn
<1>. HIDE DEF next
<1>. QED BY <1>2, <1>3, <1>4, PossiblyChangeType DEF v

LEMMA ProcessVoteType ==
    ASSUME NEW n \in Nodes, NEW st \in NodeState, NEW v \in Views \ {0}, NEW frm \in Nodes,
           0 \in Insts, scene.coolDowns \in Nat, NEW x \in processInstanceChange(n, st, v, frm)
    PROVE  x \in NodeState
<1>1. CASE v <= st.e.viewNo
  BY <1>1 DEF processInstanceChange
<1>2. CASE ~(v <= st.e.viewNo)
  <2>1. PICK y \in IF frm \in st.d.instanceChanges[v] THEN {st}
                   ELSE _record_inst_change_msg(n, st, v, frm) :
            x \in IF y.d.degraded /\ n \notin y.d.instanceChanges[v]
                  THEN sendInstanceChange(n, y, v) ELSE {y}
    BY <1>2 DEF processInstanceChange
  <2>2. y \in NodeState
    BY <2>1, RecordType
  <2>. QED BY <2>1, <2>2, SendInstanceChangeType
<1>. QED BY <1>1, <1>2

LEMMA ElectType ==
    ASSUME NEW n \in Nodes, NEW s \in Nodes, NEW m \in ElectionMsg, NEW st \in NodeState,
           NEW v \in Views, st.e \in Elector(v), NEW x \in Elect(n, st, m, s)
    PROVE  /\ x \in NodeState /\ x.e \in Elector(v)
           /\ \A w \in Views : x.d.instanceChanges[w] \subseteq st.d.instanceChanges[w]
<1>1. PICK e \in Handle(n, st.e, m, s) :
          x = IF Found(st.e, e) THEN primary_found([st EXCEPT !.e = e]) ELSE [st EXCEPT !.e = e]
  BY DEF Elect
<1>2. e \in Elector(v)
  BY <1>1, HandleType
<1>3. e \in AnyElector /\ e.viewNo = v /\ st.e.viewNo = v
  BY <1>2, ElectorIsAny
<1>. DEFINE y == [st EXCEPT !.e = e]
            c == [st.d.instanceChanges EXCEPT ![e.viewNo - 1] = {}]
            d == [st.d EXCEPT !.view_change_in_progress = FALSE, !.instanceChanges = c]
            z == [y EXCEPT !.d = d]
<1>4. y \in NodeState /\ y.e = e /\ y.d = st.d
  BY <1>3 DEF NodeState
<1>5. /\ c \in [Views -> SUBSET Nodes]
      /\ \A w \in Views : c[w] \subseteq st.d.instanceChanges[w]
  BY DEF NodeState, NodeRecord
<1>6. x \in {y, on_view_change_complete(y)}
  <2>. HIDE DEF y
  <2>1. x = IF Found(st.e, e) THEN primary_found(y) ELSE y
    BY <1>1 DEF y
  <2>. QED BY <2>1 DEF primary_found
<1>9. on_view_change_complete(y) = z
  <2>. HIDE DEF y
  <2>. DEFINE d1 == [y.d EXCEPT !.view_change_in_progress = FALSE]
              y1 == [y EXCEPT !.d = d1]
  <2>1. on_view_change_complete(y) =
           [y1 EXCEPT !.d = [y1.d EXCEPT !.instanceChanges =
                                 [y1.d.instanceChanges EXCEPT ![y.e.viewNo - 1] = {}]]]
    BY DEF on_view_change_complete
  <2>2. d1 \in NodeRecord /\ d1.instanceChanges = y.d.instanceChanges
    BY <1>4 DEF NodeState, NodeRecord
  <2>. HIDE DEF d1
  <2>3. y = [e |-> y.e, d |-> y.d]
    BY <1>4 DEF NodeState
  <2>4. y1 = [e |-> y.e, d |-> d1]
    BY <2>3
  <2>. HIDE DEF y1
  <2>. DEFINE k == [y1.d.instanceChanges EXCEPT ![y.e.viewNo - 1] = {}]
  <2>7. y1.d = d1 /\ y.e.viewNo = e.viewNo /\ y1.d.instanceChanges = st.d.instanceChanges
    BY <1>4, <2>2, <2>4
  <2>8. k = c
    BY <2>7
  <2>. HIDE DEF k, c
  <2>5. on_view_change_complete(y) = [e |-> y.e, d |-> [d1 EXCEPT !.instanceChanges = c]]
    <3>1. on_view_change_complete(y) = [y1 EXCEPT !.d = [d1 EXCEPT !.instanceChanges = c]]
      BY <2>1, <2>7, <2>8 DEF k
    <3>. QED BY <2>4, <3>1
  <2>6. z = [e |-> y.e, d |-> d]
    <3>. HIDE DEF d
    <3>. QED BY <2>3
  <2>. QED BY <1>4, <2>5, <2>6 DEF d1
<1>. HIDE DEF c, y
<1>7. /\ d \in NodeRecord /\ d.msgsForFutureViews = st.d.msgsForFutureViews
      /\ d.cooled = st.d.cooled /\ d.instanceChanges = c
  BY <1>5 DEF NodeState, NodeRecord
<1>. HIDE DEF d
<1>8. z \in NodeState /\ z.e = e /\ z.d = d
  BY <1>3, <1>4, <1>7 DEF NodeState
<1>. HIDE DEF z
<1>. QED BY <1>2, <1>4, <1>5, <1>6, <1>7, <1>8, <1>9

LEMMA SendToElectorType ==
    ASSUME NEW n \in Nodes, NEW s \in Nodes, NEW m \in ElectionMsg, NEW st \in NodeState,
           NEW v \in Views, st.e \in Elector(v), NEW x \in sendToElector(n, st, m, s)
    PROVE  /\ x \in NodeState /\ x.e \in Elector(v)
           /\ \A w \in Views : x.d.instanceChanges[w] \subseteq st.d.instanceChanges[w]
<1>. DEFINE w == m.viewNo
            q == Append(st.d.msgsForFutureViews[w], <<m, s>>)
            c == [st.d.msgsForFutureViews EXCEPT ![w] = q]
            d == [st.d EXCEPT !.msgsForFutureViews = c]
            y == [st EXCEPT !.d = d]
<1>1. w \in Views /\ st.e.viewNo = v
  BY ElectorIsAny DEF ElectionMsg
<1>2. q \in Stash
  <2>. HIDE DEF w
  <2>. QED BY <1>1, AppendProperties DEF NodeState, NodeRecord, Stash
<1>3. (x = y /\ w > v) \/ x = st \/ x \in Elect(n, st, m, s)
  BY <1>1 DEF sendToElector
<1>. HIDE DEF q, w
<1>4. c \in [Views -> Stash] /\ \A u \in Views : u # w => c[u] = st.d.msgsForFutureViews[u]
  BY <1>1, <1>2 DEF NodeState, NodeRecord
<1>. HIDE DEF c
<1>5. /\ d \in NodeRecord /\ d.msgsForFutureViews = c /\ d.cooled = st.d.cooled
      /\ d.instanceChanges = st.d.instanceChanges
  BY <1>4 DEF NodeState, NodeRecord
<1>. HIDE DEF d
<1>6. w > v => y \in NodeState /\ y.e = st.e /\ y.d = d
  BY <1>1, <1>4, <1>5 DEF NodeState
<1>. HIDE DEF y
<1>7. CASE x = y /\ w > v
  BY <1>5, <1>6, <1>7
<1>8. CASE x \in Elect(n, st, m, s)
  BY <1>8, ElectType
<1>. QED BY <1>3, <1>7, <1>8

LEMMA SceneType ==
    ASSUME TypeInv
    PROVE  /\ pool.instances \in Nat \ {0} /\ 0 \in Insts /\ pool.up \subseteq Nodes
           /\ scene.coolDowns \in Nat /\ scene.faulty \subseteq Nodes /\ Correct \subseteq Nodes
BY ElectionAssumption, ViewChangeAssumption DEF TypeInv, Insts, Correct

LEMMA NodeType ==
    ASSUME TypeInv, NEW n \in Nodes
    PROVE  /\ el[n].viewNo \in Views /\ el[n] \in Elector(el[n].viewNo) /\ el[n].out = <<>>
           /\ nd[n] \in NodeRecord /\ State(n) \in NodeState
           /\ State(n).e = el[n] /\ State(n).d = nd[n]
BY AtRest DEF TypeInv, State

LEMMA SameTypes ==
    ASSUME UNCHANGED <<pool, scene>>
    PROVE  AnyElector' = AnyElector /\ NodeRecord' = NodeRecord /\ NodeState' = NodeState
           /\ Channels' = Channels /\ \A v \in Views : Elector(v)' = Elector(v)
BY DEF AnyElector, ElectorIn, Elector, NodeRecord, NodeState, Channels, Stash, Mail, ElectionMsg,
       Ballots, Insts

\* It is enough to look at every node by itself.
LEMMA TypeKept ==
    ASSUME TypeInv, UNCHANGED <<pool, scene>>,
           conns' \subseteq Nodes, crashed' \subseteq Nodes, suspecting' \subseteq Nodes,
           chan' \in Channels,
           el' = [x \in Nodes |-> el'[x]], nd' = [x \in Nodes |-> nd'[x]],
           \A x \in Nodes : el'[x].out = <<>> /\ [e |-> el'[x], d |-> nd'[x]] \in NodeState
    PROVE  TypeInv'
<1>1. AnyElector' = AnyElector /\ NodeRecord' = NodeRecord /\ NodeState' = NodeState
      /\ Channels' = Channels
  BY SameTypes
<1>2. \A x \in Nodes : el'[x] \in AnyElector /\ nd'[x] \in NodeRecord
  BY DEF NodeState
<1>3. el' \in [Nodes -> AnyElector] /\ nd' \in [Nodes -> NodeRecord]
  BY <1>2
<1>. QED BY <1>1, <1>3 DEF TypeInv, State

\* A node whose elector stays in its view, and that keeps the rest.
LEMMA SameView ==
    ASSUME TypeInv, NEW n \in Nodes, NEW e \in Elector(el[n].viewNo)
    PROVE  [e |-> e, d |-> nd[n]] \in NodeState
           /\ [e |-> [e EXCEPT !.out = <<>>], d |-> nd[n]] \in NodeState
<1>1. e \in AnyElector /\ e.viewNo = el[n].viewNo
  BY NodeType, ElectorIsAny
<1>. DEFINE e0 == [e EXCEPT !.out = <<>>]
<1>2. e0 \in AnyElector /\ e0.viewNo = el[n].viewNo
  BY <1>1, EmptySeq DEF AnyElector, ElectorIn
<1>3. ASSUME NEW z \in AnyElector, z.viewNo = el[n].viewNo
      PROVE  [e |-> z, d |-> nd[n]] \in NodeState
  BY <1>3, NodeType DEF NodeState
<1>. QED BY <1>1, <1>2, <1>3

LEMMA BroadcastType ==
    ASSUME NEW c \in Channels, NEW n \in Nodes, NEW q \in Seq(Mail)
    PROVE  Broadcast(c, n, q) \in Channels
<1>1. \A r \in Nodes : c[n][r] \o q \in Seq(Mail)
  BY ConcatProperties DEF Channels
<1>. QED BY <1>1 DEF Broadcast, Channels

LEMMA StoreType ==
    ASSUME TypeInv, NEW n \in Nodes, NEW st \in NodeState, NEW c \in Channels,
           StoreNode(n, st, c), suspecting' \subseteq Nodes
    PROVE  TypeInv'
<1>. DEFINE e0 == [st.e EXCEPT !.out = <<>>]
<1>1. /\ el' = [el EXCEPT ![n] = e0] /\ nd' = [nd EXCEPT ![n] = st.d]
      /\ chan' = Broadcast(c, n, st.e.out) /\ UNCHANGED <<pool, conns, scene, crashed>>
  BY DEF StoreNode, Store
<1>2. /\ el \in [Nodes -> AnyElector] /\ nd \in [Nodes -> NodeRecord]
      /\ conns \subseteq Nodes /\ crashed \subseteq Nodes
  BY DEF TypeInv
<1>3. chan' \in Channels
  BY <1>1, BroadcastType DEF NodeState, AnyElector, ElectorIn
<1>4. e0 \in AnyElector /\ e0.out = <<>> /\ e0.viewNo = st.e.viewNo
  BY EmptySeq DEF NodeState, AnyElector, ElectorIn
<1>. HIDE DEF e0
<1>5. [e |-> e0, d |-> st.d] \in NodeState
  BY <1>4 DEF NodeState
<1>6. \A x \in Nodes : el'[x].out = <<>> /\ [e |-> el'[x], d |-> nd'[x]] \in NodeState
  BY <1>1, <1>2, <1>4, <1>5, NodeType DEF State
<1>. QED BY <1>1, <1>2, <1>3, <1>6, TypeKept

\* One elector changes and stays in its view.
LEMMA ElectorStep ==
    ASSUME TypeInv, NEW n \in Nodes, NEW e \in Elector(el[n].viewNo),
           \/ el' = [el EXCEPT ![n] = [e EXCEPT !.out = <<>>]]
           \/ el' = [el EXCEPT ![n] = e] /\ e.out = <<>>,
           chan' \in Channels, UNCHANGED <<pool, conns, vvars>>
    PROVE  TypeInv'
<1>1. /\ el \in [Nodes -> AnyElector] /\ nd \in [Nodes -> NodeRecord]
      /\ conns \subseteq Nodes /\ crashed \subseteq Nodes /\ suspecting \subseteq Nodes
  BY DEF TypeInv
<1>2. \A x \in Nodes \ {n} : el'[x] = el[x]
  BY <1>1
<1>3. el'[n].out = <<>> /\ [e |-> el'[n], d |-> nd[n]] \in NodeState
  <2>1. [e EXCEPT !.out = <<>>].out = <<>>
    BY DEF Elector, ElectorIn
  <2>. QED BY <1>1, <2>1, SameView
<1>4. \A x \in Nodes : el'[x].out = <<>> /\ [e |-> el'[x], d |-> nd'[x]] \in NodeState
  BY <1>2, <1>3, NodeType DEF State, vvars
<1>5. el' = [x \in Nodes |-> el'[x]] /\ nd' = [x \in Nodes |-> nd'[x]]
  BY <1>1 DEF vvars
<1>. QED BY <1>1, <1>4, <1>5, TypeKept DEF vvars

LEMMA HeadType ==
    ASSUME TypeInv, NEW n \in Nodes, NEW s \in Nodes, chan[s][n] # <<>>
    PROVE  /\ Head(chan[s][n]) \in Mail
           /\ Head(chan[s][n]).type = "INSTANCE_CHANGE" => Head(chan[s][n]).viewNo \in Views \ {0}
           /\ Head(chan[s][n]).type # "INSTANCE_CHANGE" => Head(chan[s][n]) \in ElectionMsg
           /\ [chan EXCEPT ![s][n] = Tail(@)] \in Channels
<1>1. chan[s][n] \in Seq(Mail) /\ chan \in Channels
  BY DEF TypeInv, Channels
<1>2. Head(chan[s][n]) \in Mail /\ Tail(chan[s][n]) \in Seq(Mail)
  BY <1>1, HeadTailProperties
<1>3. \A m \in Mail : /\ m.type = "INSTANCE_CHANGE" => m.viewNo \in Views \ {0}
                      /\ m.type # "INSTANCE_CHANGE" => m \in ElectionMsg
  BY DEF Mail, ElectionMsg
<1>. QED BY <1>1, <1>2, <1>3 DEF Channels

LEMMA ReceiveVoteType ==
    ASSUME TypeInv, NEW n \in Nodes, NEW s \in Nodes, ReceiveVote(n, s)
    PROVE  TypeInv'
<1>. DEFINE c == [chan EXCEPT ![s][n] = Tail(@)]
<1>1. PICK st \in processInstanceChange(n, State(n), Head(chan[s][n]).viewNo, s) :
          /\ StoreNode(n, st, c)
          /\ suspecting' = suspecting \cup (IF nd[n].degraded /\ st.e.out # <<>> THEN {n} ELSE {})
  BY DEF ReceiveVote
<1>2. c \in Channels /\ Head(chan[s][n]).viewNo \in Views \ {0}
  BY HeadType DEF ReceiveVote
<1>3. st \in NodeState
  BY <1>1, <1>2, NodeType, SceneType, ProcessVoteType
<1>4. suspecting' \subseteq Nodes
  BY <1>1 DEF TypeInv
<1>. QED BY <1>1, <1>2, <1>3, <1>4, StoreType

\* A message is handed to the elector: what that does to the node.
LEMMA ReceiveElectionType ==
    ASSUME TypeInv, NEW n \in Nodes, NEW s \in Nodes, ReceiveElection(n, s)
    PROVE  TypeInv'
<1>. DEFINE c == [chan EXCEPT ![s][n] = Tail(@)]
<1>1. /\ UNCHANGED suspecting
      /\ \E st \in sendToElector(n, State(n), Head(chan[s][n]), s) : StoreNode(n, st, c)
  BY DEF ReceiveElection
<1>2. PICK st \in sendToElector(n, State(n), Head(chan[s][n]), s) : StoreNode(n, st, c)
  BY <1>1
<1>3. c \in Channels /\ Head(chan[s][n]) \in ElectionMsg
  BY HeadType DEF ReceiveElection
<1>4. st \in NodeState
  BY <1>2, <1>3, NodeType, SendToElectorType
<1>5. suspecting' \subseteq Nodes
  BY <1>1 DEF TypeInv
<1>. QED BY <1>2, <1>3, <1>4, <1>5, StoreType

\* The node whose elector's inbox is shorter by a message.
LEMMA InboxType ==
    ASSUME TypeInv, NEW n \in Nodes, nd[n].msgsToElector # <<>>
    PROVE  /\ [State(n) EXCEPT !.d.msgsToElector = Tail(@)] \in NodeState
           /\ [State(n) EXCEPT !.d.msgsToElector = Tail(@)].e = el[n]
           /\ [State(n) EXCEPT !.d.msgsToElector = Tail(@)].d.instanceChanges
                 = nd[n].instanceChanges
           /\ Head(nd[n].msgsToElector) \in ElectionMsg \X Nodes
<1>. DEFINE q == Tail(nd[n].msgsToElector)
            d == [nd[n] EXCEPT !.msgsToElector = q]
            st == [State(n) EXCEPT !.d = d]
<1>1. q \in Stash /\ Head(nd[n].msgsToElector) \in ElectionMsg \X Nodes
  BY NodeType, HeadTailProperties DEF NodeRecord, Stash
<1>2. [State(n) EXCEPT !.d.msgsToElector = Tail(@)] = st
  BY NodeType
<1>. HIDE DEF q
<1>3. /\ d \in NodeRecord /\ d.msgsForFutureViews = nd[n].msgsForFutureViews
      /\ d.cooled = nd[n].cooled /\ d.instanceChanges = nd[n].instanceChanges
  BY <1>1, NodeType DEF NodeRecord
<1>. HIDE DEF d
<1>4. st \in NodeState /\ st.e = el[n] /\ st.d = d
  BY <1>3, NodeType DEF NodeState
<1>. HIDE DEF st
<1>. QED BY <1>1, <1>2, <1>3, <1>4

LEMMA InboxStepType ==
    ASSUME TypeInv, NEW n \in Nodes, serviceElectorInbox(n)
    PROVE  TypeInv'
<1>. DEFINE x == Head(nd[n].msgsToElector)
            st == [State(n) EXCEPT !.d.msgsToElector = Tail(@)]
<1>1. st \in NodeState /\ st.e = el[n] /\ x \in ElectionMsg \X Nodes
  BY InboxType DEF serviceElectorInbox
<1>2. PICK new \in Elect(n, st, x[1], x[2]) : StoreNode(n, new, chan) /\ UNCHANGED suspecting
  BY DEF serviceElectorInbox
<1>. HIDE DEF x, st
<1>3. new \in NodeState
  BY <1>1, <1>2, NodeType, ElectType
<1>4. chan \in Channels /\ suspecting' \subseteq Nodes
  BY <1>2 DEF TypeInv
<1>. QED BY <1>2, <1>3, <1>4, StoreType

LEMMA ElectorActionsType ==
    ASSUME TypeInv, NEW n \in Nodes, serviceElectorActions(n)
    PROVE  TypeInv'
<1>1. PICK e \in _serviceActions(n, el[n]) : Store(n, e, chan) /\ UNCHANGED vvars
  BY DEF serviceElectorActions, RunActions
<1>2. e \in Elector(el[n].viewNo)
  BY <1>1, NodeType, SceneType, ServiceType
<1>3. chan' \in Channels
  BY <1>1, <1>2, NodeType, ElectorIsAny, BroadcastType DEF Store, TypeInv, AnyElector, ElectorIn
<1>. QED BY <1>1, <1>2, <1>3, ElectorStep DEF Store

LEMMA ElectorTimerType ==
    ASSUME TypeInv, NEW n \in Nodes, ElectorTimer(n)
    PROVE  TypeInv'
<1>. DEFINE v == el[n].viewNo
<1>1. v \in Views /\ el[n] \in Elector(v) /\ el[n].out = <<>> /\ chan \in Channels
  BY NodeType DEF TypeInv
<1>2. ASSUME NEW i \in Insts, DelayOver(n, i) PROVE TypeInv'
  <2>. DEFINE e0 == [el[n] EXCEPT !.delayed = @ \ {i}]
              e == nominateReplica(n, e0, i)
  <2>1. e0 \in Elector(v)
    BY <1>1 DEF Elector, ElectorIn
  <2>2. e \in Elector(v)
    <3>. HIDE DEF e0, v
    <3>. QED BY <1>1, <2>1, NominateReplicaType
  <2>3. Store(n, e, chan) /\ UNCHANGED vvars
    BY <1>2 DEF DelayOver, ElectorTimer
  <2>. HIDE DEF e
  <2>4. chan' \in Channels
    BY <1>1, <2>2, <2>3, ElectorIsAny, BroadcastType DEF Store, AnyElector, ElectorIn
  <2>. QED BY <2>2, <2>3, <2>4, ElectorStep DEF Store
<1>3. ASSUME NEW i \in Insts, Timeout(n, i) PROVE TypeInv'
  <2>. DEFINE t == [el[n].timer EXCEPT ![i] = "expired"]
              e0 == [el[n] EXCEPT !.timer = t]
              e == scheduleDecision(n, e0, i)
  <2>1. t \in [Insts -> {"none", "running", "expired"}]
    BY <1>1 DEF Elector, ElectorIn
  <2>2. el' = [el EXCEPT ![n] = e] /\ UNCHANGED <<pool, chan, conns, vvars>>
    BY <1>3 DEF Timeout, ElectorTimer
  <2>. HIDE DEF t
  <2>3. e0 \in Elector(v) /\ e0.out = <<>>
    BY <1>1, <2>1 DEF Elector, ElectorIn
  <2>. HIDE DEF e0
  <2>4. e \in Elector(v) /\ e.out = <<>>
    <3>1. e \in Elector(v)
      <4>. HIDE DEF v
      <4>. QED BY <1>1, <2>3, ScheduleDecisionType
    <3>2. e.out = <<>>
      BY <2>3 DEF scheduleDecision, Elector, ElectorIn
    <3>. QED BY <3>1, <3>2
  <2>. HIDE DEF e
  <2>. QED BY <1>1, <2>2, <2>4, ElectorStep
<1>. QED BY <1>2, <1>3 DEF ElectorTimer

\* One node record changes, and no elector does.
LEMMA RecordStep ==
    ASSUME TypeInv, NEW n \in Nodes, NEW d \in NodeRecord, nd' = [nd EXCEPT ![n] = d],
           d.msgsForFutureViews = nd[n].msgsForFutureViews, d.cooled <= scene.coolDowns,
           UNCHANGED <<evars, scene, crashed, suspecting>>
    PROVE  TypeInv'
<1>1. /\ el \in [Nodes -> AnyElector] /\ nd \in [Nodes -> NodeRecord] /\ chan \in Channels
      /\ conns \subseteq Nodes /\ crashed \subseteq Nodes /\ suspecting \subseteq Nodes
  BY DEF TypeInv
<1>2. [e |-> el[n], d |-> d] \in NodeState
  BY NodeType DEF NodeState
<1>3. \A x \in Nodes : el'[x].out = <<>> /\ [e |-> el'[x], d |-> nd'[x]] \in NodeState
  BY <1>1, <1>2, NodeType DEF State, evars
<1>4. el' = [x \in Nodes |-> el'[x]] /\ nd' = [x \in Nodes |-> nd'[x]]
  BY <1>1 DEF evars
<1>. QED BY <1>1, <1>3, <1>4, TypeKept DEF evars

LEMMA MonitorType ==
    ASSUME TypeInv, NEW n \in Nodes, MasterSlow(n) \/ CoolDown(n)
    PROVE  TypeInv'
<1>1. nd \in [Nodes -> NodeRecord] /\ nd[n] \in NodeRecord /\ nd[n].cooled <= scene.coolDowns
      /\ scene.coolDowns \in Nat
  BY NodeType, SceneType DEF TypeInv, NodeState, State
<1>2. CASE MasterSlow(n)
  <2>. DEFINE d == [nd[n] EXCEPT !.degraded = TRUE]
  <2>1. nd' = [nd EXCEPT ![n] = d] /\ UNCHANGED <<evars, scene, crashed, suspecting>>
    BY <1>2 DEF MasterSlow
  <2>2. /\ d \in NodeRecord /\ d.msgsForFutureViews = nd[n].msgsForFutureViews
        /\ d.cooled <= scene.coolDowns
    BY <1>1 DEF NodeRecord
  <2>. HIDE DEF d
  <2>. QED BY <2>1, <2>2, RecordStep
<1>3. CASE CoolDown(n)
  <2>. DEFINE d == [nd[n] EXCEPT !.throttled = FALSE, !.cooled = @ + 1]
  <2>1. nd' = [nd EXCEPT ![n] = d] /\ UNCHANGED <<evars, scene, crashed, suspecting>>
    BY <1>1, <1>3 DEF CoolDown
  <2>2. /\ d \in NodeRecord /\ d.msgsForFutureViews = nd[n].msgsForFutureViews
        /\ d.cooled <= scene.coolDowns
    BY <1>1, <1>3 DEF NodeRecord, CoolDown
  <2>. HIDE DEF d
  <2>. QED BY <2>1, <2>2, RecordStep
<1>. QED BY <1>2, <1>3

LEMMA CheckType ==
    ASSUME TypeInv, NEW n \in Nodes, checkPerformance(n)
    PROVE  TypeInv'
<1>1. PICK st \in Propose(n, State(n)) : StoreNode(n, st, chan)
  BY DEF checkPerformance
<1>2. el[n].viewNo < MaxView /\ ~nd[n].throttled /\ suspecting' = suspecting \cup {n}
  BY DEF checkPerformance
<1>3. st \in NodeState
  BY <1>1, <1>2, NodeType, SceneType, ProposeType
<1>4. chan \in Channels /\ suspecting' \subseteq Nodes
  BY <1>2 DEF TypeInv
<1>. QED BY <1>1, <1>3, <1>4, StoreType

\* The node that has proposed a view change because its primary is lost.
LEMMA ProposedType ==
    ASSUME TypeInv, NEW n \in Nodes
    PROVE  /\ [State(n) EXCEPT !.d.lost = "proposed"] \in NodeState
           /\ [State(n) EXCEPT !.d.lost = "proposed"].e = el[n]
           /\ [State(n) EXCEPT !.d.lost = "proposed"].d.instanceChanges = nd[n].instanceChanges
<1>. DEFINE d == [nd[n] EXCEPT !.lost = "proposed"]
            st == [State(n) EXCEPT !.d = d]
<1>1. [State(n) EXCEPT !.d.lost = "proposed"] = st
  BY NodeType
<1>2. /\ d \in NodeRecord /\ d.msgsForFutureViews = nd[n].msgsForFutureViews
      /\ d.cooled = nd[n].cooled /\ d.instanceChanges = nd[n].instanceChanges
  BY NodeType DEF NodeRecord
<1>. HIDE DEF d
<1>3. st \in NodeState /\ st.e = el[n] /\ st.d = d
  BY <1>2, NodeType DEF NodeState
<1>. HIDE DEF st
<1>. QED BY <1>1, <1>2, <1>3

LEMMA ProposeStepType ==
    ASSUME TypeInv, NEW n \in Nodes, propose_view_change(n)
    PROVE  TypeInv'
<1>. DEFINE st0 == [State(n) EXCEPT !.d.lost = "proposed"]
            v == el[n].viewNo + 1
<1>1. v \in Views \ {0}
  BY NodeType, ViewNumbers DEF propose_view_change
<1>7. PICK x \in sendInstanceChange(n, st0, v) :
          \E st \in do_view_change_if_possible(n, x, v) :
              /\ StoreNode(n, st, chan)
              /\ suspecting' = suspecting \cup (IF st.e.out # <<>> THEN {n} ELSE {})
  BY DEF propose_view_change
<1>2. PICK st \in do_view_change_if_possible(n, x, v) :
          /\ StoreNode(n, st, chan)
          /\ suspecting' = suspecting \cup (IF st.e.out # <<>> THEN {n} ELSE {})
  BY <1>7
<1>3. st0 \in NodeState
  BY ProposedType
<1>. HIDE DEF st0, v
<1>4. x \in NodeState
  BY <1>1, <1>3, <1>7, SceneType, SendInstanceChangeType
<1>5. st \in NodeState
  BY <1>1, <1>2, <1>4, SceneType, PossiblyChangeType
<1>6. chan \in Channels /\ suspecting' \subseteq Nodes
  BY <1>2 DEF TypeInv
<1>. QED BY <1>2, <1>5, <1>6, StoreType

LEMMA FaultyVoteType ==
    ASSUME TypeInv, NEW n \in Nodes, NEW v \in 1 .. MaxView, FaultyVote(n, v)
    PROVE  TypeInv'
<1>1. v \in Views \ {0}
  BY ViewChangeAssumption DEF Views
<1>2. <<VoteFor(v)>> \in Seq(Mail)
  <2>1. VoteFor(v) \in Mail
    BY <1>1 DEF VoteFor, Mail
  <2>. QED BY <2>1
<1>3. /\ el \in [Nodes -> AnyElector] /\ nd \in [Nodes -> NodeRecord] /\ chan \in Channels
      /\ conns \subseteq Nodes /\ crashed \subseteq Nodes /\ suspecting \subseteq Nodes
  BY DEF TypeInv
<1>4. chan' \in Channels /\ suspecting' \subseteq Nodes
  BY <1>2, <1>3, BroadcastType DEF FaultyVote
<1>5. UNCHANGED <<pool, el, conns, scene, nd, crashed>>
  BY DEF FaultyVote
<1>6. \A x \in Nodes : el'[x].out = <<>> /\ [e |-> el'[x], d |-> nd'[x]] \in NodeState
  BY <1>5, NodeType DEF State
<1>. QED BY <1>3, <1>4, <1>5, <1>6, TypeKept

LEMMA NewElectorType ==
    ASSUME TypeInv, NEW n \in Nodes
    PROVE  NewElector(n) \in Elector(0) /\ NewElector(n).out = <<>>
<1>1. <<>> \in Seq(ElectionMsg) /\ LastOrdered[n] \in Nat /\ (n \in pool.up) \in BOOLEAN
  BY EmptySeq, ElectionAssumption
<1>2. [i \in Insts |-> NoVotes] \in Ballots
      /\ [i \in Insts |-> NoVotes] \in [Insts -> [Nodes -> (SUBSET Votes) \cup {None}]]
  BY DEF Ballots, NoVotes
<1>. QED BY <1>1, <1>2 DEF NewElector, Elector, ElectorIn

LEMMA NewNodeType ==
    ASSUME TypeInv
    PROVE  /\ NewNode \in NodeRecord /\ \A v \in Views : NewNode.msgsForFutureViews[v] = <<>>
           /\ NewNode.cooled = 0 /\ \A v \in Views : NewNode.instanceChanges[v] = {}
<1>1. <<>> \in Stash
  BY EmptySeq DEF Stash
<1>. QED BY <1>1 DEF NewNode, NodeRecord

LEMMA CrashType ==
    ASSUME TypeInv, NEW n \in Nodes, Crash(n)
    PROVE  TypeInv'
<1>. DEFINE e0 == [NewElector(n) EXCEPT !.participating = FALSE]
<1>1. /\ el \in [Nodes -> AnyElector] /\ nd \in [Nodes -> NodeRecord] /\ chan \in Channels
      /\ conns \subseteq Nodes /\ crashed \subseteq Nodes /\ suspecting \subseteq Nodes
  BY DEF TypeInv
<1>2. /\ conns' \subseteq Nodes /\ crashed' \subseteq Nodes
      /\ el' = [x \in Nodes |-> IF x = n THEN e0 ELSE scheduleElection(x, el[x])]
      /\ nd' = [x \in Nodes |-> IF x = n THEN NewNode
                                ELSE IF el[x].primaryName[0] = n
                                THEN [nd[x] EXCEPT !.lost = "waiting"] ELSE nd[x]]
      /\ chan' = [s \in Nodes |-> [r \in Nodes |-> IF n \in {s, r} THEN <<>> ELSE chan[s][r]]]
      /\ UNCHANGED <<pool, scene, suspecting>>
  BY <1>1 DEF Crash
<1>3. chan' \in Channels
  BY <1>1, <1>2, EmptySeq DEF Channels
<1>4. e0 \in Elector(0) /\ e0.out = <<>>
  BY ZenonT(60), NewElectorType DEF Elector, ElectorIn
<1>. HIDE DEF e0
<1>5. e0 \in AnyElector /\ e0.viewNo = 0
  BY <1>4, ElectorIsAny, ViewNumbers
<1>6. [e |-> e0, d |-> NewNode] \in NodeState
  BY <1>5, NewNodeType, SceneType DEF NodeState
<1>7. ASSUME NEW x \in Nodes \ {n}
      PROVE  el'[x].out = <<>> /\ [e |-> el'[x], d |-> nd'[x]] \in NodeState
  <2>1. el'[x] \in Elector(el[x].viewNo) /\ el'[x].out = <<>>
    BY ZenonT(60), <1>2, NodeType, ScheduleElectionType
  <2>2. [e |-> el'[x], d |-> nd[x]] \in NodeState
    BY <2>1, SameView
  <2>. DEFINE d == [nd[x] EXCEPT !.lost = "waiting"]
  <2>3. /\ d \in NodeRecord /\ d.msgsForFutureViews = nd[x].msgsForFutureViews
        /\ d.cooled = nd[x].cooled
    BY NodeType DEF NodeRecord
  <2>4. nd'[x] = d \/ nd'[x] = nd[x]
    BY <1>2
  <2>. HIDE DEF d
  <2>5. [e |-> el'[x], d |-> d] \in NodeState
    BY <2>2, <2>3 DEF NodeState
  <2>. QED BY <2>1, <2>2, <2>4, <2>5
<1>8. el'[n] = e0 /\ nd'[n] = NewNode
  BY <1>2
<1>9. \A x \in Nodes : el'[x].out = <<>> /\ [e |-> el'[x], d |-> nd'[x]] \in NodeState
  BY <1>4, <1>6, <1>7, <1>8
<1>10. el' = [x \in Nodes |-> el'[x]] /\ nd' = [x \in Nodes |-> nd'[x]]
  BY <1>2
<1>11. suspecting' \subseteq Nodes
  BY <1>1, <1>2
<1>. QED BY <1>2, <1>3, <1>9, <1>10, <1>11, TypeKept

LEMMA LaggedType ==
    ASSUME TypeInv, NEW s \in Nodes
    PROVE  /\ MsgsForLaggedNodes(s) \in Seq(Mail)
           /\ el[s].viewNo = 0 => MsgsForLaggedNodes(s) \in Seq(ElectionMsg)
<1>. DEFINE a == getElectionMsgsForLaggedNodes(s)
            b == IF el[s].viewNo > 0 THEN << VoteFor(el[s].viewNo) >> ELSE <<>>
<1>1. a \in Seq(ElectionMsg)
  BY NodeType, SceneType, LaggedMsgsType
<1>2. Seq(ElectionMsg) \subseteq Seq(Mail)
  <2>1. ElectionMsg \subseteq Mail
    BY DEF Mail
  <2>. QED BY <2>1, SeqMonotonic
<1>3. b \in Seq(Mail) /\ (el[s].viewNo = 0 => b \in Seq(ElectionMsg))
  <2>1. el[s].viewNo \in Views /\ Views \subseteq Nat
    BY NodeType, ViewNumbers
  <2>2. el[s].viewNo > 0 => VoteFor(el[s].viewNo) \in Mail
    BY <2>1 DEF VoteFor, Mail
  <2>. QED BY <2>1, <2>2, EmptySeq
<1>4. MsgsForLaggedNodes(s) = a \o b
  BY DEF MsgsForLaggedNodes
<1>. HIDE DEF a, b
<1>. QED BY <1>1, <1>2, <1>3, <1>4, ConcatProperties

LEMMA ReconnectType ==
    ASSUME TypeInv, NEW n \in Nodes, Reconnect(n)
    PROVE  TypeInv'
<1>. DEFINE ready == Cardinality(conns \cup {n}) >= quorum
<1>1. /\ el \in [Nodes -> AnyElector] /\ nd \in [Nodes -> NodeRecord] /\ chan \in Channels
      /\ conns \subseteq Nodes /\ crashed \subseteq Nodes /\ suspecting \subseteq Nodes
  BY DEF TypeInv
<1>2. /\ conns' = conns \cup {n}
      /\ el' = [x \in Nodes |-> IF x \in conns' /\ ready THEN scheduleElection(x, el[x]) ELSE el[x]]
      /\ chan' = [s \in Nodes |-> [r \in Nodes |->
                     IF s \in conns /\ r = n /\ ready THEN MsgsForLaggedNodes(s) ELSE chan[s][r]]]
      /\ nd' = [x \in Nodes |-> IF x \in conns /\ el[x].primaryName[0] = n
                                THEN [nd[x] EXCEPT !.lost = "no"] ELSE nd[x]]
      /\ UNCHANGED <<pool, scene, crashed, suspecting>>
  BY DEF Reconnect, Connected
<1>. HIDE DEF ready
<1>3. chan' \in Channels
  BY <1>1, <1>2, LaggedType DEF Channels
<1>4. ASSUME NEW x \in Nodes
      PROVE  el'[x].out = <<>> /\ [e |-> el'[x], d |-> nd'[x]] \in NodeState
  <2>1. el'[x] \in Elector(el[x].viewNo) /\ el'[x].out = <<>>
    BY <1>2, NodeType, ScheduleElectionType
  <2>2. [e |-> el'[x], d |-> nd[x]] \in NodeState
    BY <2>1, SameView
  <2>. DEFINE d == [nd[x] EXCEPT !.lost = "no"]
  <2>3. /\ d \in NodeRecord /\ d.msgsForFutureViews = nd[x].msgsForFutureViews
        /\ d.cooled = nd[x].cooled
    BY NodeType DEF NodeRecord
  <2>4. nd'[x] = d \/ nd'[x] = nd[x]
    BY <1>2
  <2>. HIDE DEF d
  <2>5. [e |-> el'[x], d |-> d] \in NodeState
    BY <2>2, <2>3 DEF NodeState
  <2>. QED BY <2>1, <2>2, <2>4, <2>5
<1>5. el' = [x \in Nodes |-> el'[x]] /\ nd' = [x \in Nodes |-> nd'[x]]
  BY <1>2
<1>6. conns' \subseteq Nodes /\ crashed' \subseteq Nodes /\ suspecting' \subseteq Nodes
  BY <1>1, <1>2
<1>. QED BY <1>2, <1>3, <1>4, <1>5, <1>6, TypeKept

LEMMA CaughtUpType ==
    ASSUME TypeInv, NEW n \in Nodes, NodeCaughtUp(n)
    PROVE  TypeInv'
<1>. DEFINE v == el[n].viewNo
            e0 == [el[n] EXCEPT !.participating = TRUE]
            e == scheduleElection(n, e0)
<1>1. el' = [el EXCEPT ![n] = e] /\ UNCHANGED <<pool, chan, conns, vvars>>
  BY DEF NodeCaughtUp, CaughtUp
<1>2. v \in Views /\ e0 \in Elector(v) /\ e0.out = <<>>
  <2>1. v \in Views /\ el[n] \in Elector(v) /\ el[n].out = <<>>
    BY NodeType
  <2>. QED BY <2>1 DEF Elector, ElectorIn
<1>3. e \in Elector(v) /\ e.out = <<>>
  <2>. HIDE DEF v, e0
  <2>. QED BY <1>2, ScheduleElectionType
<1>. HIDE DEF e
<1>4. chan' \in Channels
  BY <1>1 DEF TypeInv
<1>. QED BY <1>1, <1>3, <1>4, ElectorStep

LEMMA TypeInit == VInit => TypeInv
<1>. SUFFICES ASSUME VInit PROVE TypeInv
  OBVIOUS
<1>1. /\ pool \in Pools /\ scene \in Scenes /\ conns \subseteq Nodes
      /\ crashed = {} /\ suspecting = {} /\ scene.coolDowns \in Nat /\ 0 \in Insts
  BY ElectionAssumption, ViewChangeAssumption DEF VInit, Insts
<1>2. <<>> \in Seq(Mail) /\ <<>> \in Stash /\ 0 \in Views
  BY EmptySeq, ViewNumbers DEF Stash
<1>3. chan \in Channels
  BY <1>2 DEF VInit, Channels
<1>4. ASSUME NEW n \in Nodes PROVE Elected(n) \in AnyElector /\ Elected(n).out = <<>>
  <2>. DEFINE v == [name |-> Leader, seq |-> LastOrdered[Leader]]
              all == [x \in Nodes |-> v]
              none == [i \in Insts |-> NoVotes]
              b == [none EXCEPT ![0] = all]
              p == [[i \in Insts |-> None] EXCEPT ![0] = Leader]
              new == NewElector(n)
  <2>1. /\ v \in Votes /\ Leader \in Nodes /\ LastOrdered[n] \in Nat
        /\ (n \in pool.up) \in BOOLEAN
    BY ElectionAssumption, ViewChangeAssumption DEF Votes
  <2>. HIDE DEF v
  <2>2. all \in [Nodes -> Votes \cup {None}]
    BY <2>1
  <2>. HIDE DEF all
  <2>3. none \in Ballots /\ none \in [Insts -> [Nodes -> (SUBSET Votes) \cup {None}]]
    BY DEF Ballots, NoVotes
  <2>4. b \in Ballots /\ p \in [Insts -> Nodes \cup {None}]
    <3>. HIDE DEF none
    <3>. QED BY <2>1, <2>2, <2>3 DEF Ballots
  <2>5. new \in AnyElector /\ new.out = <<>> /\ new.nominations = none
        /\ new.primaryDeclarations = none /\ new.primaryName = [i \in Insts |-> None]
    <3>. HIDE DEF b, p
    <3>. QED BY <1>2, <2>1, <2>3 DEF NewElector, AnyElector, ElectorIn
  <2>6. Elected(n) = [new EXCEPT !.primaryName[0] = Leader, !.nominations[0] = all,
                                 !.primaryDeclarations[0] = all]
    BY DEF Elected, all, v
  <2>. HIDE DEF new
  <2>7. Elected(n) = [new EXCEPT !.primaryName = p, !.nominations = b, !.primaryDeclarations = b]
    <3>. HIDE DEF none
    <3>. QED BY <2>5, <2>6
  <2>. HIDE DEF b, p, none
  <2>. QED BY ZenonT(60), <2>4, <2>5, <2>7 DEF AnyElector, ElectorIn
<1>5. /\ NewNode \in NodeRecord /\ \A v \in Views : NewNode.msgsForFutureViews[v] = <<>>
      /\ NewNode.cooled = 0
  BY <1>2 DEF NewNode, NodeRecord
<1>6. \A n \in Nodes : el[n] = Elected(n) /\ nd[n] = NewNode
  BY DEF VInit
<1>7. el \in [Nodes -> AnyElector] /\ nd \in [Nodes -> NodeRecord]
  BY <1>4, <1>5 DEF VInit
<1>8. \A n \in Nodes : State(n) \in NodeState
  BY <1>1, <1>4, <1>5, <1>6 DEF State, NodeState
<1>. QED BY <1>1, <1>3, <1>4, <1>6, <1>7, <1>8 DEF TypeInv

LEMMA TypeStep == TypeInv /\ [VNext]_vars => TypeInv'
<1>. SUFFICES ASSUME TypeInv, [VNext]_vars PROVE TypeInv'
  OBVIOUS
<1>1. CASE UNCHANGED vars
  <2>1. UNCHANGED <<pool, scene, conns, crashed, suspecting, el, nd, chan>>
    BY <1>1 DEF vars, evars, vvars
  <2>2. AnyElector' = AnyElector /\ NodeRecord' = NodeRecord /\ NodeState' = NodeState
        /\ Channels' = Channels
    BY <2>1, SameTypes
  <2>. QED BY <2>1, <2>2 DEF TypeInv, State
<1>2. CASE VNext
  <2>. PICK n \in Nodes :
        \/ \E s \in Nodes : ReceiveVote(n, s)
        \/ \E s \in Nodes : ReceiveElection(n, s)
        \/ serviceElectorInbox(n)
        \/ serviceElectorActions(n)
        \/ ElectorTimer(n)
        \/ MasterSlow(n)
        \/ checkPerformance(n)
        \/ CoolDown(n)
        \/ propose_view_change(n)
        \/ \E v \in 1 .. MaxView : FaultyVote(n, v)
        \/ Crash(n)
        \/ Reconnect(n)
        \/ NodeCaughtUp(n)
    BY <1>2 DEF VNext
  <2>. QED BY ReceiveVoteType, ReceiveElectionType, InboxStepType, ElectorActionsType,
              ElectorTimerType, MonitorType, CheckType, ProposeStepType, FaultyVoteType,
              CrashType, ReconnectType, CaughtUpType
<1>. QED BY <1>1, <1>2

\* What a node keeps of votes and of messages for other views stays well formed:
\* messages are stashed for later views only, and throttling ends as often as
\* the scene allows (node.py:233-329).
THEOREM TypeCorrect == VSpec => []VTypeOK
<1>1. TypeInv => VTypeOK
  <2>. SUFFICES ASSUME TypeInv PROVE VTypeOK
    OBVIOUS
  <2>1. scene \in Scenes /\ crashed \subseteq Nodes /\ scene.coolDowns \in Nat
    BY SceneType DEF TypeInv
  <2>2. ASSUME NEW n \in Nodes
        PROVE  LET d == nd[n] IN
               /\ el[n].viewNo \in Views /\ d.instanceChanges \in [Views -> SUBSET Nodes]
               /\ \A v \in Views : d.msgsForFutureViews[v] # <<>> => v > el[n].viewNo
               /\ d.cooled \in 0 .. scene.coolDowns /\ d.lost \in {"no", "waiting", "proposed"}
    <3>1. nd[n] \in NodeRecord /\ el[n].viewNo \in Views /\ State(n) \in NodeState
          /\ State(n).e = el[n] /\ State(n).d = nd[n]
      BY NodeType
    <3>2. nd[n].cooled \in 0 .. scene.coolDowns
      BY <2>1, <3>1 DEF NodeState, NodeRecord
    <3>. QED BY <3>1, <3>2 DEF NodeState, NodeRecord
  <2>. QED BY <2>1, <2>2 DEF VTypeOK
<1>. QED BY <1>1, TypeInit, TypeStep, PTL DEF VSpec

-----------------------------------------------------------------------------
(* A view change needs f+1 correct nodes.                                   *)
(*                                                                          *)
(* As long as at most f correct nodes have suspected the master, all correct *)
(* nodes are in view 0, every vote of a correct node that another one has    *)
(* counted or that is on its way is the vote of a node that suspected, and   *)
(* so at most 2f votes are there for any view.                               *)

Backed == Cardinality(suspecting \cap Correct) > f

Loyal(st, S) == st.e.viewNo = 0 /\ \A v \in Views : st.d.instanceChanges[v] \cap Correct \subseteq S

Unmoved ==
    \A n \in Correct :
        /\ Loyal(State(n), suspecting)
        /\ n \notin suspecting => \A r \in Nodes : chan[n][r] \in Seq(ElectionMsg)

BackInv == Backed \/ Unmoved

\* The correct nodes in S are too few to back a view change.
TooFew(S) == S \subseteq Nodes /\ ~(Cardinality(S \cap Correct) > f)

LEMMA NoQuorum ==
    ASSUME TypeInv, NEW S, TooFew(S), NEW st \in NodeState, Loyal(st, S), NEW v \in Views
    PROVE  ~hasQuorum(st, v)
<1>. DEFINE A == st.d.instanceChanges[v]
            C == A \cap Correct
            F == A \cap scene.faulty
            T == S \cap Correct
<1>1. A \subseteq Nodes /\ C \subseteq T /\ A = C \cup F
  BY DEF NodeState, NodeRecord, Loyal, Correct
<1>2. Leader \in Nodes /\ IsFiniteSet(Nodes) /\ scene.faulty \subseteq Nodes
      /\ Cardinality(scene.faulty) <= f
  BY ElectionAssumption, ViewChangeAssumption, SceneType DEF TypeInv
<1>3. f \in Nat
  <2>1. Cardinality(Nodes) \in Nat /\ Cardinality(Nodes) # 0
    BY <1>2, FS_CardinalityType, FS_EmptySet
  <2>. QED BY <2>1 DEF f
<1>4. ~(Cardinality(T) > f) /\ T \subseteq Nodes
  BY DEF TooFew
<1>5. hasQuorum(st, v) => Cardinality(A) >= 2 * f + 1
  BY DEF hasQuorum, quorum
<1>. HIDE DEF A, C, F, T
<1>6. /\ IsFiniteSet(T) /\ IsFiniteSet(scene.faulty) /\ IsFiniteSet(C) /\ IsFiniteSet(F)
      /\ Cardinality(T) \in Nat
  <2>1. IsFiniteSet(T) /\ IsFiniteSet(scene.faulty)
    BY <1>2, <1>4, FS_Subset
  <2>2. IsFiniteSet(C) /\ IsFiniteSet(F)
    BY <1>1, <2>1, FS_Subset DEF F
  <2>. QED BY <2>1, <2>2, FS_CardinalityType
<1>7. Cardinality(C) <= Cardinality(T)
  BY <1>1, <1>6, FS_Subset
<1>8. Cardinality(F) <= Cardinality(scene.faulty)
  BY <1>6, FS_Subset DEF F
<1>9. /\ Cardinality(C) \in Nat /\ Cardinality(F) \in Nat /\ Cardinality(C \cap F) \in Nat
      /\ Cardinality(scene.faulty) \in Nat
  <2>1. IsFiniteSet(C \cap F)
    BY <1>6, FS_Subset
  <2>. QED BY <1>6, <2>1, FS_CardinalityType
<1>10. Cardinality(A) = Cardinality(C) + Cardinality(F) - Cardinality(C \cap F)
  BY <1>1, <1>6, FS_Union
<1>. QED BY <1>2, <1>3, <1>4, <1>5, <1>6, <1>7, <1>8, <1>9, <1>10

LEMMA NoChange ==
    ASSUME TypeInv, NEW S, TooFew(S), NEW n, NEW st \in NodeState, Loyal(st, S), NEW v \in Views
    PROVE  do_view_change_if_possible(n, st, v) = {st}
BY NoQuorum DEF do_view_change_if_possible, canViewChange

\* A vote that is counted is that of a node in S or of a faulty one.
LEMMA RecordLoyal ==
    ASSUME TypeInv, NEW S, TooFew(S), NEW n \in Nodes, NEW st \in NodeState, Loyal(st, S),
           NEW v \in Views, NEW frm \in Nodes, frm \in S \/ frm \notin Correct,
           NEW x \in _record_inst_change_msg(n, st, v, frm)
    PROVE  Loyal(x, S) /\ x.e = st.e /\ x.d.degraded = st.d.degraded
<1>. DEFINE c == [st.d.instanceChanges EXCEPT ![v] = @ \cup {frm}]
            d == [st.d EXCEPT !.instanceChanges = c]
            voted == [st EXCEPT !.d = d]
<1>1. /\ c \in [Views -> SUBSET Nodes]
      /\ \A w \in Views : c[w] \cap Correct \subseteq S
  BY DEF NodeState, NodeRecord, Loyal
<1>2. x \in do_view_change_if_possible(n, voted, v) \cup {voted}
  BY DEF _record_inst_change_msg
<1>. HIDE DEF c
<1>3. /\ d \in NodeRecord /\ d.msgsForFutureViews = st.d.msgsForFutureViews
      /\ d.cooled = st.d.cooled /\ d.instanceChanges = c /\ d.degraded = st.d.degraded
  BY <1>1 DEF NodeState, NodeRecord
<1>. HIDE DEF d
<1>4. voted \in NodeState /\ voted.e = st.e /\ voted.d = d
  BY <1>3 DEF NodeState
<1>. HIDE DEF voted
<1>5. Loyal(voted, S)
  BY <1>1, <1>3, <1>4 DEF Loyal
<1>6. x = voted
  BY <1>2, <1>4, <1>5, NoChange
<1>. QED BY <1>3, <1>4, <1>5, <1>6

LEMMA SendLoyal ==
    ASSUME TypeInv, NEW S, TooFew(S), NEW n \in S, NEW st \in NodeState, Loyal(st, S),
           NEW v \in Views \ {0}, NEW x \in sendInstanceChange(n, st, v)
    PROVE  Loyal(x, S)
<1>. DEFINE o == Append(st.e.out, VoteFor(v))
            e == [st.e EXCEPT !.out = o]
            d == [st.d EXCEPT !.throttled = TRUE]
            sent == [e |-> e, d |-> d]
<1>1. st.e \in AnyElector /\ st.d \in NodeRecord /\ n \in Nodes
  BY DEF NodeState, TooFew
<1>2. VoteFor(v) \in Mail
  BY DEF VoteFor, Mail
<1>3. o \in Seq(Mail)
  BY <1>1, <1>2, AppendProperties DEF AnyElector, ElectorIn
<1>4. x \in IF st.d.throttled THEN {st} ELSE _record_inst_change_msg(n, sent, v, n)
  BY DEF sendInstanceChange, send
<1>. HIDE DEF o
<1>5. e \in AnyElector /\ e.viewNo = st.e.viewNo
  BY <1>1, <1>3 DEF AnyElector, ElectorIn
<1>6. /\ d \in NodeRecord /\ d.msgsForFutureViews = st.d.msgsForFutureViews
      /\ d.cooled = st.d.cooled /\ d.instanceChanges = st.d.instanceChanges
  BY <1>1 DEF NodeRecord
<1>. HIDE DEF e, d
<1>7. sent \in NodeState /\ Loyal(sent, S)
  BY <1>5, <1>6 DEF NodeState, Loyal
<1>. HIDE DEF sent
<1>. QED BY <1>1, <1>4, <1>7, RecordLoyal

LEMMA ProcessVoteLoyal ==
    ASSUME TypeInv, NEW S, TooFew(S), NEW n \in Nodes, NEW st \in NodeState, Loyal(st, S),
           st.e.out = <<>>, NEW v \in Views \ {0}, NEW frm \in Nodes,
           frm \in S \/ frm \notin Correct,
           NEW x \in processInstanceChange(n, st, v, frm),
           st.d.degraded /\ x.e.out # <<>> => n \in S
    PROVE  Loyal(x, S) /\ (x.e.out = <<>> \/ n \in S)
<1>1. CASE v <= st.e.viewNo
  BY <1>1 DEF processInstanceChange
<1>2. CASE ~(v <= st.e.viewNo)
  <2>1. PICK y \in IF frm \in st.d.instanceChanges[v] THEN {st}
                   ELSE _record_inst_change_msg(n, st, v, frm) :
            x \in IF y.d.degraded /\ n \notin y.d.instanceChanges[v]
                  THEN sendInstanceChange(n, y, v) ELSE {y}
    BY <1>2 DEF processInstanceChange
  <2>2. y \in NodeState
    BY <2>1, SceneType, RecordType
  <2>3. Loyal(y, S) /\ y.e = st.e /\ y.d.degraded = st.d.degraded
    BY <2>1, RecordLoyal
  <2>4. CASE x = y
    BY <2>3, <2>4
  <2>5. CASE y.d.degraded /\ x \in sendInstanceChange(n, y, v)
    <3>1. /\ y.d.throttled => x = y
          /\ ~y.d.throttled => x.e.out = Append(<<>>, VoteFor(v))
      BY <2>2, <2>3, <2>5, SceneType, SendInstanceChangeType
    <3>2. Append(<<>>, VoteFor(v)) # <<>>
      OBVIOUS
    <3>3. CASE ~y.d.throttled
      <4>1. n \in S
        BY <2>3, <2>5, <3>1, <3>2, <3>3
      <4>. QED BY <2>2, <2>3, <2>5, <4>1, SendLoyal
    <3>. QED BY <2>4, <3>1, <3>3
  <2>. QED BY <2>1, <2>4, <2>5
<1>. QED BY <1>1, <1>2

\* It is enough to look at every correct node by itself.
LEMMA UnmovedKept ==
    ASSUME TypeInv, Unmoved, UNCHANGED <<pool, scene>>,
           \A x \in Correct :
               /\ el'[x].viewNo = 0
               /\ \A v \in Views : nd'[x].instanceChanges[v] \cap Correct \subseteq suspecting'
               /\ x \notin suspecting' => \A r \in Nodes : chan'[x][r] \in Seq(ElectionMsg)
    PROVE  Unmoved'
<1>1. ElectionMsg' = ElectionMsg /\ Correct' = Correct
  BY DEF ElectionMsg, Insts, Correct
<1>. QED BY <1>1 DEF Unmoved, Loyal, State

\* What Unmoved says of a correct node.
LEMMA UnmovedNode ==
    ASSUME TypeInv, Unmoved, NEW x \in Correct
    PROVE  /\ x \in Nodes /\ el[x].viewNo = 0
           /\ \A v \in Views : nd[x].instanceChanges[v] \cap Correct \subseteq suspecting
           /\ x \notin suspecting => \A r \in Nodes : chan[x][r] \in Seq(ElectionMsg)
BY DEF Unmoved, Loyal, State, Correct

\* A node that sends election messages only.
LEMMA BroadcastLoyal ==
    ASSUME NEW c \in Channels, NEW n \in Nodes, NEW q \in Seq(Mail), NEW s \in Nodes, NEW r \in Nodes
    PROVE  /\ s # n => Broadcast(c, n, q)[s][r] = c[s][r]
           /\ c[s][r] \in Seq(ElectionMsg) /\ q \in Seq(ElectionMsg)
              => Broadcast(c, n, q)[s][r] \in Seq(ElectionMsg)
<1>1. Broadcast(c, n, q)[s][r] = IF s = n /\ r \in conns \ {n} THEN c[s][r] \o q ELSE c[s][r]
  BY DEF Broadcast, Channels
<1>2. c[s][r] \in Seq(ElectionMsg) /\ q \in Seq(ElectionMsg) => c[s][r] \o q \in Seq(ElectionMsg)
  BY ConcatProperties
<1>. QED BY <1>1, <1>2

LEMMA StoreLoyal ==
    ASSUME TypeInv, Unmoved, NEW n \in Nodes, NEW st \in NodeState, NEW c \in Channels,
           StoreNode(n, st, c), suspecting \subseteq suspecting',
           n \in Correct => /\ Loyal(st, suspecting')
                            /\ n \in suspecting' \/ st.e.out \in Seq(ElectionMsg),
           \A s, r \in Nodes : chan[s][r] \in Seq(ElectionMsg) => c[s][r] \in Seq(ElectionMsg)
    PROVE  Unmoved'
<1>. DEFINE e0 == [st.e EXCEPT !.out = <<>>]
            q == st.e.out
<1>1. /\ el' = [el EXCEPT ![n] = e0] /\ nd' = [nd EXCEPT ![n] = st.d]
      /\ chan' = Broadcast(c, n, q) /\ UNCHANGED <<pool, conns, scene, crashed>>
  BY DEF StoreNode, Store
<1>2. e0.viewNo = st.e.viewNo /\ q \in Seq(Mail)
  BY DEF NodeState, AnyElector, ElectorIn
<1>. HIDE DEF e0
<1>3. el \in [Nodes -> AnyElector] /\ nd \in [Nodes -> NodeRecord]
  BY DEF TypeInv
<1>4. ASSUME NEW x \in Correct
      PROVE  /\ el'[x].viewNo = 0
             /\ \A v \in Views : nd'[x].instanceChanges[v] \cap Correct \subseteq suspecting'
             /\ x \notin suspecting' => \A r \in Nodes : chan'[x][r] \in Seq(ElectionMsg)
  <2>1. /\ x \in Nodes /\ el[x].viewNo = 0
        /\ \A v \in Views : nd[x].instanceChanges[v] \cap Correct \subseteq suspecting
        /\ x \notin suspecting => \A r \in Nodes : chan[x][r] \in Seq(ElectionMsg)
    BY UnmovedNode
  <2>2. x \notin suspecting' => \A r \in Nodes : c[x][r] \in Seq(ElectionMsg)
    BY <2>1
  <2>3. CASE x # n
    <3>1. el'[x] = el[x] /\ nd'[x] = nd[x]
      BY <1>1, <1>3, <2>1, <2>3
    <3>2. \A r \in Nodes : chan'[x][r] = c[x][r]
      <4>. HIDE DEF q
      <4>. QED BY <1>1, <1>2, <2>1, <2>3, BroadcastLoyal
    <3>. QED BY <2>1, <2>2, <3>1, <3>2
  <2>4. CASE x = n
    <3>1. el'[x] = e0 /\ nd'[x] = st.d
      BY <1>1, <1>3, <2>4
    <3>2. Loyal(st, suspecting') /\ (n \in suspecting' \/ q \in Seq(ElectionMsg))
      BY <2>4
    <3>3. x \notin suspecting' => \A r \in Nodes : chan'[x][r] \in Seq(ElectionMsg)
      <4>. HIDE DEF q
      <4>. QED BY <1>1, <1>2, <2>2, <2>4, <3>2, BroadcastLoyal
    <3>. QED BY <1>2, <3>1, <3>2, <3>3 DEF Loyal
  <2>. QED BY <2>3, <2>4
<1>. QED BY <1>1, <1>4, UnmovedKept

\* One elector changes, stays in its view and sends election messages.
LEMMA ElectorLoyal ==
    ASSUME TypeInv, Unmoved, NEW n \in Nodes, NEW e \in Elector(el[n].viewNo),
           \/ el' = [el EXCEPT ![n] = [e EXCEPT !.out = <<>>]]
           \/ el' = [el EXCEPT ![n] = e],
           chan' = chan \/ chan' = Broadcast(chan, n, e.out), UNCHANGED <<pool, conns, vvars>>
    PROVE  Unmoved'
<1>1. /\ e \in AnyElector /\ e.viewNo = el[n].viewNo /\ e.out \in Seq(ElectionMsg)
      /\ [e EXCEPT !.out = <<>>].viewNo = e.viewNo /\ e.out \in Seq(Mail)
  BY NodeType, ElectorIsAny DEF AnyElector, ElectorIn
<1>2. el \in [Nodes -> AnyElector] /\ chan \in Channels
  BY DEF TypeInv
<1>3. \A x \in Nodes : el'[x].viewNo = el[x].viewNo
  BY <1>1, <1>2
<1>. DEFINE q == e.out
<1>4. \A x, r \in Nodes : chan[x][r] \in Seq(ElectionMsg) => chan'[x][r] \in Seq(ElectionMsg)
  <2>1. q \in Seq(ElectionMsg) /\ q \in Seq(Mail) /\ (chan' = chan \/ chan' = Broadcast(chan, n, q))
    BY <1>1
  <2>. HIDE DEF q
  <2>. QED BY <1>2, <2>1, BroadcastLoyal
<1>5. UNCHANGED <<pool, scene, nd, suspecting>>
  BY DEF vvars
<1>. QED BY <1>3, <1>4, <1>5, UnmovedNode, UnmovedKept

\* Taking a message from a channel does not put a vote there.
LEMMA TakenLoyal ==
    ASSUME TypeInv, NEW n \in Nodes, NEW s \in Nodes, chan[s][n] # <<>>
    PROVE  LET c == [chan EXCEPT ![s][n] = Tail(@)] IN
           \A x, r \in Nodes : chan[x][r] \in Seq(ElectionMsg) => c[x][r] \in Seq(ElectionMsg)
<1>1. chan \in Channels
  BY DEF TypeInv
<1>2. chan[s][n] \in Seq(ElectionMsg) => Tail(chan[s][n]) \in Seq(ElectionMsg)
  BY HeadTailProperties
<1>. QED BY <1>1, <1>2 DEF Channels

LEMMA ReceiveVoteLoyal ==
    ASSUME TypeInv, Unmoved, TooFew(suspecting'), NEW n \in Nodes, NEW s \in Nodes,
           ReceiveVote(n, s)
    PROVE  Unmoved'
<1>. DEFINE c == [chan EXCEPT ![s][n] = Tail(@)]
            m == Head(chan[s][n])
            S == suspecting'
<1>1. PICK st \in processInstanceChange(n, State(n), m.viewNo, s) :
          /\ StoreNode(n, st, c)
          /\ suspecting' = suspecting \cup (IF nd[n].degraded /\ st.e.out # <<>> THEN {n} ELSE {})
  BY DEF ReceiveVote
<1>2. /\ c \in Channels /\ m.viewNo \in Views \ {0}
      /\ m.type = "INSTANCE_CHANGE" /\ chan[s][n] # <<>>
  BY HeadType DEF ReceiveVote
<1>3. st \in NodeState
  BY <1>1, <1>2, NodeType, SceneType, ProcessVoteType
<1>4. \A x, r \in Nodes : chan[x][r] \in Seq(ElectionMsg) => c[x][r] \in Seq(ElectionMsg)
  BY <1>2, TakenLoyal
<1>5. s \in S \/ s \notin Correct
  <2>1. SUFFICES ASSUME s \in Correct, s \notin suspecting PROVE FALSE
    BY <1>1
  <2>2. chan[s][n] \in Seq(ElectionMsg)
    BY <2>1, UnmovedNode
  <2>3. m \in ElectionMsg
    BY <1>2, <2>2, HeadTailProperties
  <2>. QED BY <1>2, <2>3 DEF ElectionMsg
<1>6. ASSUME n \in Correct
      PROVE  Loyal(st, S) /\ (n \in S \/ st.e.out \in Seq(ElectionMsg))
  <2>1. Loyal(State(n), S)
    BY <1>1, <1>6, UnmovedNode DEF Loyal, State
  <2>2. State(n).d.degraded /\ st.e.out # <<>> => n \in S
    BY <1>1, NodeType
  <2>3. State(n) \in NodeState /\ State(n).e.out = <<>>
    BY NodeType
  <2>. HIDE DEF c, m, S
  <2>4. TooFew(S)
    BY DEF S
  <2>5. Loyal(st, S) /\ (st.e.out = <<>> \/ n \in S)
    BY <1>1, <1>2, <1>5, <2>1, <2>2, <2>3, <2>4, ProcessVoteLoyal
  <2>. QED BY <2>5, EmptySeq
<1>7. suspecting \subseteq suspecting'
  BY <1>1
<1>. HIDE DEF c
<1>. QED BY <1>1, <1>2, <1>3, <1>4, <1>6, <1>7, StoreLoyal

\* A message is handed to the elector.
LEMMA ElectLoyal ==
    ASSUME TypeInv, Unmoved, NEW n \in Nodes,
           (\E s \in Nodes : ReceiveElection(n, s)) \/ serviceElectorInbox(n)
    PROVE  Unmoved'
<1>1. ASSUME NEW st \in NodeState, NEW c \in Channels, st.e \in Elector(el[n].viewNo),
             \A w \in Views : st.d.instanceChanges[w] \subseteq nd[n].instanceChanges[w],
             \A s, r \in Nodes : chan[s][r] \in Seq(ElectionMsg) => c[s][r] \in Seq(ElectionMsg),
             StoreNode(n, st, c), UNCHANGED suspecting
      PROVE  Unmoved'
  <2>1. st.e.viewNo = el[n].viewNo /\ st.e.out \in Seq(ElectionMsg)
    BY <1>1, NodeType, ElectorIsAny
  <2>2. n \in Correct => Loyal(st, suspecting')
    BY <1>1, <2>1, UnmovedNode DEF Loyal
  <2>. QED BY <1>1, <2>1, <2>2, StoreLoyal
<1>2. ASSUME NEW s \in Nodes, ReceiveElection(n, s) PROVE Unmoved'
  <2>. DEFINE c == [chan EXCEPT ![s][n] = Tail(@)]
  <2>1. /\ UNCHANGED suspecting /\ chan[s][n] # <<>>
        /\ \E st \in sendToElector(n, State(n), Head(chan[s][n]), s) : StoreNode(n, st, c)
    BY <1>2 DEF ReceiveElection
  <2>2. PICK st \in sendToElector(n, State(n), Head(chan[s][n]), s) : StoreNode(n, st, c)
    BY <2>1
  <2>3. c \in Channels /\ Head(chan[s][n]) \in ElectionMsg
    BY <1>2, HeadType DEF ReceiveElection
  <2>4. \A x, r \in Nodes : chan[x][r] \in Seq(ElectionMsg) => c[x][r] \in Seq(ElectionMsg)
    BY <2>1, TakenLoyal
  <2>5. /\ st \in NodeState /\ st.e \in Elector(el[n].viewNo)
        /\ \A w \in Views : st.d.instanceChanges[w] \subseteq nd[n].instanceChanges[w]
    BY <2>2, <2>3, NodeType, SendToElectorType
  <2>. QED BY <1>1, <2>1, <2>2, <2>3, <2>4, <2>5
<1>3. CASE serviceElectorInbox(n)
  <2>. DEFINE x == Head(nd[n].msgsToElector)
              st == [State(n) EXCEPT !.d.msgsToElector = Tail(@)]
  <2>1. /\ st \in NodeState /\ st.e = el[n] /\ x \in ElectionMsg \X Nodes
        /\ st.d.instanceChanges = nd[n].instanceChanges
    BY <1>3, InboxType DEF serviceElectorInbox
  <2>2. PICK new \in Elect(n, st, x[1], x[2]) : StoreNode(n, new, chan) /\ UNCHANGED suspecting
    BY <1>3 DEF serviceElectorInbox
  <2>. HIDE DEF x, st
  <2>3. /\ new \in NodeState /\ new.e \in Elector(el[n].viewNo)
        /\ \A w \in Views : new.d.instanceChanges[w] \subseteq nd[n].instanceChanges[w]
    BY <2>1, <2>2, NodeType, ElectType
  <2>4. chan \in Channels
    BY DEF TypeInv
  <2>. QED BY <1>1, <2>2, <2>3, <2>4
<1>. QED BY <1>2, <1>3

LEMMA ElectorActionsLoyal ==
    ASSUME TypeInv, Unmoved, NEW n \in Nodes, serviceElectorActions(n)
    PROVE  Unmoved'
<1>1. PICK e \in _serviceActions(n, el[n]) : Store(n, e, chan) /\ UNCHANGED vvars
  BY DEF serviceElectorActions, RunActions
<1>2. e \in Elector(el[n].viewNo)
  BY <1>1, NodeType, SceneType, ServiceType
<1>. QED BY <1>1, <1>2, ElectorLoyal DEF Store

LEMMA ElectorTimerLoyal ==
    ASSUME TypeInv, Unmoved, NEW n \in Nodes, ElectorTimer(n) \/ NodeCaughtUp(n)
    PROVE  Unmoved'
<1>. DEFINE v == el[n].viewNo
<1>1. v \in Views /\ el[n] \in Elector(v)
  BY NodeType
<1>2. ASSUME NEW i \in Insts, DelayOver(n, i), UNCHANGED vvars PROVE Unmoved'
  <2>. DEFINE e0 == [el[n] EXCEPT !.delayed = @ \ {i}]
              e == nominateReplica(n, e0, i)
  <2>1. e0 \in Elector(v)
    BY <1>1 DEF Elector, ElectorIn
  <2>2. e \in Elector(v)
    <3>. HIDE DEF e0, v
    <3>. QED BY <1>1, <2>1, NominateReplicaType
  <2>3. Store(n, e, chan)
    BY <1>2 DEF DelayOver
  <2>. HIDE DEF e
  <2>. QED BY <1>2, <2>2, <2>3, ElectorLoyal DEF Store
<1>3. ASSUME NEW i \in Insts, Timeout(n, i), UNCHANGED vvars PROVE Unmoved'
  <2>. DEFINE t == [el[n].timer EXCEPT ![i] = "expired"]
              e0 == [el[n] EXCEPT !.timer = t]
              e == scheduleDecision(n, e0, i)
  <2>1. t \in [Insts -> {"none", "running", "expired"}]
    BY <1>1 DEF Elector, ElectorIn
  <2>2. el' = [el EXCEPT ![n] = e] /\ UNCHANGED <<pool, chan, conns, vvars>>
    BY <1>3 DEF Timeout
  <2>. HIDE DEF t
  <2>3. e0 \in Elector(v)
    BY <1>1, <2>1 DEF Elector, ElectorIn
  <2>4. e \in Elector(v)
    <3>. HIDE DEF e0, v
    <3>. QED BY <1>1, <2>3, ScheduleDecisionType
  <2>. HIDE DEF e
  <2>. QED BY <2>2, <2>4, ElectorLoyal
<1>4. CASE NodeCaughtUp(n)
  <2>. DEFINE e0 == [el[n] EXCEPT !.participating = TRUE]
              e == scheduleElection(n, e0)
  <2>1. el' = [el EXCEPT ![n] = e] /\ UNCHANGED <<pool, chan, conns, vvars>>
    BY <1>4 DEF NodeCaughtUp, CaughtUp
  <2>2. e0 \in Elector(v)
    BY <1>1 DEF Elector, ElectorIn
  <2>3. e \in Elector(v)
    <3>. HIDE DEF e0, v
    <3>. QED BY <1>1, <2>2, ScheduleElectionType
  <2>. HIDE DEF e
  <2>. QED BY <2>1, <2>3, ElectorLoyal
<1>. QED BY <1>2, <1>3, <1>4 DEF ElectorTimer

LEMMA ProposeLoyal ==
    ASSUME TypeInv, Unmoved, TooFew(suspecting'), NEW n \in Nodes,
           checkPerformance(n) \/ propose_view_change(n)
    PROVE  Unmoved'
<1>. DEFINE S == suspecting'
            v == el[n].viewNo + 1
<1>1. v \in Views \ {0} /\ chan \in Channels /\ State(n).e.viewNo + 1 = v
  BY NodeType, ViewNumbers DEF checkPerformance, propose_view_change, TypeInv, State
<1>2. CASE checkPerformance(n)
  <2>. DEFINE next(y) == IF y.e.viewNo < MaxView THEN y.e.viewNo + 1 ELSE MaxView
  <2>1. PICK st \in Propose(n, State(n)) : StoreNode(n, st, chan)
    BY <1>2 DEF checkPerformance
  <2>2. /\ suspecting' = suspecting \cup {n} /\ el[n].viewNo < MaxView
        /\ ~nd[n].throttled
    BY <1>2 DEF checkPerformance
  <2>3. PICK x \in sendInstanceChange(n, State(n), v) : st \in do_view_change_if_possible(n, x, next(x))
    BY <1>1, <2>1 DEF Propose
  <2>. HIDE DEF v
  <2>4. x \in NodeState /\ State(n) \in NodeState
    BY <1>1, <2>3, NodeType, SceneType, SendInstanceChangeType
  <2>5. next(x) \in Views
    BY <2>4, ViewNumbers DEF NodeState, AnyElector, ElectorIn
  <2>. HIDE DEF next
  <2>6. st \in NodeState
    BY <2>3, <2>4, <2>5, SceneType, PossiblyChangeType
  <2>7. ASSUME n \in Correct PROVE Loyal(st, S)
    <3>1. Loyal(State(n), S)
      BY <2>2, <2>7, UnmovedNode DEF Loyal, State
    <3>2. TooFew(S) /\ n \in S
      BY <2>2
    <3>. HIDE DEF S
    <3>3. Loyal(x, S)
      BY <1>1, <2>3, <2>4, <3>1, <3>2, SendLoyal
    <3>4. st = x
      BY <2>3, <2>4, <2>5, <3>2, <3>3, NoChange
    <3>. QED BY <3>3, <3>4
  <2>. QED BY <1>1, <2>1, <2>2, <2>6, <2>7, StoreLoyal
<1>3. CASE propose_view_change(n)
  <2>. DEFINE st0 == [State(n) EXCEPT !.d.lost = "proposed"]
  <2>1. PICK x \in sendInstanceChange(n, st0, v) :
            \E st \in do_view_change_if_possible(n, x, v) :
                /\ StoreNode(n, st, chan)
                /\ suspecting' = suspecting \cup (IF st.e.out # <<>> THEN {n} ELSE {})
    BY <1>3 DEF propose_view_change
  <2>2. PICK st \in do_view_change_if_possible(n, x, v) :
            /\ StoreNode(n, st, chan)
            /\ suspecting' = suspecting \cup (IF st.e.out # <<>> THEN {n} ELSE {})
    BY <2>1
  <2>3. /\ st0 \in NodeState /\ st0.e = el[n] /\ st0.e.out = <<>>
        /\ st0.d.instanceChanges = nd[n].instanceChanges
    BY ProposedType, NodeType
  <2>. HIDE DEF st0, v
  <2>4. /\ x \in NodeState
        /\ st0.d.throttled => x = st0
        /\ ~st0.d.throttled => x.e.out = Append(<<>>, VoteFor(v))
    BY <1>1, <2>1, <2>3, SceneType, SendInstanceChangeType
  <2>5. st \in NodeState /\ st.e.out = x.e.out
    BY <1>1, <2>2, <2>4, SceneType, PossiblyChangeType
  <2>6. st0.d.throttled \/ n \in S
    <3>1. Append(<<>>, VoteFor(v)) # <<>>
      OBVIOUS
    <3>. QED BY <2>2, <2>4, <2>5, <3>1
  <2>7. ASSUME n \in Correct PROVE Loyal(st, S) /\ (n \in S \/ st.e.out \in Seq(ElectionMsg))
    <3>1. Loyal(st0, S)
      BY <2>2, <2>3, <2>7, UnmovedNode DEF Loyal
    <3>2. TooFew(S)
      OBVIOUS
    <3>. HIDE DEF S
    <3>3. Loyal(x, S)
      <4>1. CASE x = st0
        BY <3>1, <4>1
      <4>2. CASE n \in S
        BY <1>1, <2>1, <2>3, <3>1, <3>2, <4>2, SendLoyal
      <4>. QED BY <2>4, <2>6, <4>1, <4>2
    <3>4. st = x
      BY <1>1, <2>2, <2>4, <3>2, <3>3, NoChange
    <3>5. n \in S \/ st.e.out = <<>>
      BY <2>3, <2>4, <2>6, <3>4
    <3>. QED BY <3>3, <3>4, <3>5, EmptySeq
  <2>8. suspecting \subseteq suspecting'
    BY <2>2
  <2>. QED BY <1>1, <2>2, <2>5, <2>7, <2>8, StoreLoyal
<1>. QED BY <1>2, <1>3

LEMMA CrashLoyal ==
    ASSUME TypeInv, Unmoved, NEW n \in Nodes, Crash(n)
    PROVE  Unmoved'
<1>. DEFINE e0 == [NewElector(n) EXCEPT !.participating = FALSE]
<1>1. /\ el' = [x \in Nodes |-> IF x = n THEN e0 ELSE scheduleElection(x, el[x])]
      /\ nd' = [x \in Nodes |-> IF x = n THEN NewNode
                                ELSE IF el[x].primaryName[0] = n
                                THEN [nd[x] EXCEPT !.lost = "waiting"] ELSE nd[x]]
      /\ chan' = [s \in Nodes |-> [r \in Nodes |-> IF n \in {s, r} THEN <<>> ELSE chan[s][r]]]
      /\ UNCHANGED <<pool, scene, suspecting>>
  BY DEF Crash
<1>2. e0.viewNo = 0
  BY DEF NewElector
<1>. HIDE DEF e0
<1>3. ASSUME NEW x \in Correct
      PROVE  /\ el'[x].viewNo = 0
             /\ \A v \in Views : nd'[x].instanceChanges[v] \cap Correct \subseteq suspecting'
             /\ x \notin suspecting' => \A r \in Nodes : chan'[x][r] \in Seq(ElectionMsg)
  <2>1. /\ x \in Nodes /\ el[x].viewNo = 0 /\ nd[x] \in NodeRecord
        /\ \A v \in Views : nd[x].instanceChanges[v] \cap Correct \subseteq suspecting
        /\ x \notin suspecting => \A r \in Nodes : chan[x][r] \in Seq(ElectionMsg)
    BY UnmovedNode, NodeType
  <2>2. x # n => el'[x].viewNo = 0
    <3>1. scheduleElection(x, el[x]) \in Elector(el[x].viewNo)
      BY <2>1, NodeType, ScheduleElectionType
    <3>2. scheduleElection(x, el[x]).viewNo = 0
      BY <2>1, <3>1 DEF Elector, ElectorIn
    <3>. QED BY <1>1, <2>1, <3>2
  <2>3. x = n => el'[x].viewNo = 0 /\ nd'[x] = NewNode
    BY <1>1, <1>2
  <2>4. x # n => nd'[x].instanceChanges = nd[x].instanceChanges
    BY <1>1, <2>1 DEF NodeRecord
  <2>5. \A r \in Nodes : chan'[x][r] = <<>> \/ chan'[x][r] = chan[x][r]
    BY <1>1, <2>1
  <2>. QED BY <1>1, <2>1, <2>2, <2>3, <2>4, <2>5, NewNodeType, EmptySeq
<1>. QED BY <1>1, <1>3, UnmovedKept

LEMMA ReconnectLoyal ==
    ASSUME TypeInv, Unmoved, NEW n \in Nodes, Reconnect(n)
    PROVE  Unmoved'
<1>. DEFINE ready == Cardinality(conns \cup {n}) >= quorum
<1>1. /\ el' = [x \in Nodes |-> IF x \in conns' /\ ready THEN scheduleElection(x, el[x]) ELSE el[x]]
      /\ chan' = [s \in Nodes |-> [r \in Nodes |->
                     IF s \in conns /\ r = n /\ ready THEN MsgsForLaggedNodes(s) ELSE chan[s][r]]]
      /\ nd' = [x \in Nodes |-> IF x \in conns /\ el[x].primaryName[0] = n
                                THEN [nd[x] EXCEPT !.lost = "no"] ELSE nd[x]]
      /\ UNCHANGED <<pool, scene, crashed, suspecting>>
  BY DEF Reconnect, Connected
<1>. HIDE DEF ready
<1>2. ASSUME NEW x \in Correct
      PROVE  /\ el'[x].viewNo = 0
             /\ \A v \in Views : nd'[x].instanceChanges[v] \cap Correct \subseteq suspecting'
             /\ x \notin suspecting' => \A r \in Nodes : chan'[x][r] \in Seq(ElectionMsg)
  <2>1. /\ x \in Nodes /\ el[x].viewNo = 0 /\ nd[x] \in NodeRecord
        /\ \A v \in Views : nd[x].instanceChanges[v] \cap Correct \subseteq suspecting
        /\ x \notin suspecting => \A r \in Nodes : chan[x][r] \in Seq(ElectionMsg)
    BY UnmovedNode, NodeType
  <2>2. el'[x].viewNo = 0
    <3>1. scheduleElection(x, el[x]) \in Elector(el[x].viewNo)
      BY <2>1, NodeType, ScheduleElectionType
    <3>2. scheduleElection(x, el[x]).viewNo = 0
      BY <2>1, <3>1 DEF Elector, ElectorIn
    <3>. QED BY <1>1, <2>1, <3>2
  <2>3. nd'[x].instanceChanges = nd[x].instanceChanges
    BY <1>1, <2>1 DEF NodeRecord
  <2>4. MsgsForLaggedNodes(x) \in Seq(ElectionMsg)
    BY <2>1, LaggedType
  <2>5. \A r \in Nodes : chan'[x][r] = MsgsForLaggedNodes(x) \/ chan'[x][r] = chan[x][r]
    BY <1>1, <2>1
  <2>. QED BY <1>1, <2>1, <2>2, <2>3, <2>4, <2>5
<1>. QED BY <1>1, <1>2, UnmovedKept

LEMMA OthersLoyal ==
    ASSUME TypeInv, Unmoved, NEW n \in Nodes,
           MasterSlow(n) \/ CoolDown(n) \/ \E v \in 1 .. MaxView : FaultyVote(n, v)
    PROVE  Unmoved'
<1>1. nd \in [Nodes -> NodeRecord] /\ nd[n] \in NodeRecord /\ chan \in Channels
  BY NodeType DEF TypeInv
<1>2. CASE MasterSlow(n) \/ CoolDown(n)
  <2>1. UNCHANGED <<pool, el, chan, scene, suspecting>>
    BY <1>2 DEF MasterSlow, CoolDown, evars
  <2>2. \A x \in Nodes : nd'[x].instanceChanges = nd[x].instanceChanges
    <3>1. CASE MasterSlow(n)
      <4>. DEFINE d == [nd[n] EXCEPT !.degraded = TRUE]
      <4>1. nd' = [nd EXCEPT ![n] = d]
        BY <3>1 DEF MasterSlow
      <4>2. d.instanceChanges = nd[n].instanceChanges
        BY <1>1 DEF NodeRecord
      <4>. HIDE DEF d
      <4>. QED BY <1>1, <4>1, <4>2
    <3>2. CASE CoolDown(n)
      <4>. DEFINE d == [nd[n] EXCEPT !.throttled = FALSE, !.cooled = @ + 1]
      <4>1. nd' = [nd EXCEPT ![n] = d]
        BY <1>1, <3>2 DEF CoolDown
      <4>2. d.instanceChanges = nd[n].instanceChanges
        BY <1>1 DEF NodeRecord
      <4>. HIDE DEF d
      <4>. QED BY <1>1, <4>1, <4>2
    <3>. QED BY <1>2, <3>1, <3>2
  <2>. QED BY <2>1, <2>2, UnmovedNode, UnmovedKept
<1>3. ASSUME NEW v \in 1 .. MaxView, FaultyVote(n, v) PROVE Unmoved'
  <2>1. /\ n \notin Correct /\ suspecting' = suspecting \cup {n}
        /\ chan' = Broadcast(chan, n, <<VoteFor(v)>>) /\ UNCHANGED <<pool, el, scene, nd>>
    BY <1>3 DEF FaultyVote, Correct
  <2>2. \A x \in Nodes \ {n}, r \in Nodes : chan'[x][r] = chan[x][r]
    BY <1>1, <2>1 DEF Broadcast, Channels
  <2>3. \A x \in Correct : x # n
    BY <2>1
  <2>. QED BY <2>1, <2>2, <2>3, UnmovedNode, UnmovedKept
<1>. QED BY <1>2, <1>3

\* Nobody who suspected the master ever counts as not having done so.
LEMMA SuspicionGrows == [VNext]_vars => suspecting \subseteq suspecting' /\ UNCHANGED scene
<1>1. CASE UNCHANGED vars
  BY <1>1 DEF vars, evars, vvars
<1>2. CASE VNext
  <2>. PICK n \in Nodes :
        \/ \E s \in Nodes : ReceiveVote(n, s)
        \/ \E s \in Nodes : ReceiveElection(n, s)
        \/ serviceElectorInbox(n)
        \/ serviceElectorActions(n)
        \/ ElectorTimer(n)
        \/ MasterSlow(n)
        \/ checkPerformance(n)
        \/ CoolDown(n)
        \/ propose_view_change(n)
        \/ \E v \in 1 .. MaxView : FaultyVote(n, v)
        \/ Crash(n)
        \/ Reconnect(n)
        \/ NodeCaughtUp(n)
    BY <1>2 DEF VNext
  <2>1. ASSUME NEW s \in Nodes, ReceiveVote(n, s)
        PROVE  (\E S : suspecting' = suspecting \cup S) /\ UNCHANGED scene
    BY <2>1, Zenon DEF ReceiveVote, StoreNode
  <2>2. ASSUME NEW s \in Nodes, ReceiveElection(n, s) PROVE UNCHANGED <<suspecting, scene>>
    BY <2>2, Zenon DEF ReceiveElection, StoreNode
  <2>3. ASSUME serviceElectorInbox(n) PROVE UNCHANGED <<suspecting, scene>>
    BY <2>3, Zenon DEF serviceElectorInbox, StoreNode
  <2>4. ASSUME serviceElectorActions(n) PROVE UNCHANGED <<suspecting, scene>>
    BY <2>4, Zenon DEF serviceElectorActions, vvars
  <2>5. ASSUME ElectorTimer(n) PROVE UNCHANGED <<suspecting, scene>>
    BY <2>5, Zenon DEF ElectorTimer, vvars
  <2>6. ASSUME MasterSlow(n) \/ CoolDown(n) \/ Crash(n) PROVE UNCHANGED <<suspecting, scene>>
    BY <2>6, Zenon DEF MasterSlow, CoolDown, Crash
  <2>7. ASSUME checkPerformance(n)
        PROVE  suspecting' = suspecting \cup {n} /\ UNCHANGED scene
    BY <2>7, Zenon DEF checkPerformance, StoreNode
  <2>8. ASSUME propose_view_change(n)
        PROVE  (\E S : suspecting' = suspecting \cup S) /\ UNCHANGED scene
    BY <2>8, Zenon DEF propose_view_change, StoreNode
  <2>9. ASSUME NEW v \in 1 .. MaxView, FaultyVote(n, v)
        PROVE  suspecting' = suspecting \cup {n} /\ UNCHANGED scene
    BY <2>9, Zenon DEF FaultyVote
  <2>10. ASSUME Reconnect(n) PROVE UNCHANGED <<suspecting, scene>>
    BY <2>10, Zenon DEF Reconnect
  <2>11. ASSUME NodeCaughtUp(n) PROVE UNCHANGED <<suspecting, scene>>
    BY <2>11, Zenon DEF NodeCaughtUp, vvars
  <2>. QED BY <2>1, <2>2, <2>3, <2>4, <2>5, <2>6, <2>7, <2>8, <2>9, <2>10, <2>11
<1>. QED BY <1>1, <1>2

LEMMA BackStep == TypeInv /\ TypeInv' /\ BackInv /\ [VNext]_vars => BackInv'
<1>. SUFFICES ASSUME TypeInv, TypeInv', BackInv, [VNext]_vars, ~Backed'
              PROVE  Unmoved'
  BY DEF BackInv
<1>1. suspecting \subseteq suspecting' /\ UNCHANGED scene
  BY SuspicionGrows
<1>2. Correct' = Correct
  BY <1>1 DEF Correct
<1>3. TooFew(suspecting')
  BY <1>2 DEF TooFew, Backed, TypeInv
<1>4. Unmoved
  <2>1. SUFFICES ASSUME Backed PROVE FALSE
    BY DEF BackInv
  <2>. DEFINE A == suspecting \cap Correct
              B == suspecting' \cap Correct
  <2>2. B \subseteq Nodes /\ A \subseteq B
    BY <1>1, SceneType
  <2>3. Cardinality(A) > f /\ ~(Cardinality(B) > f)
    BY <1>2, <2>1 DEF Backed
  <2>. HIDE DEF A, B
  <2>4. IsFiniteSet(B) /\ Cardinality(A) <= Cardinality(B)
    BY <2>2, FS_Subset, ElectionAssumption
  <2>5. Cardinality(A) \in Nat /\ Cardinality(B) \in Nat /\ f \in Int
    <3>1. IsFiniteSet(A) /\ IsFiniteSet(B) /\ IsFiniteSet(Nodes)
      BY <2>2, <2>4, FS_Subset, ElectionAssumption
    <3>2. Cardinality(A) \in Nat /\ Cardinality(B) \in Nat /\ Cardinality(Nodes) \in Nat
      BY <3>1, FS_CardinalityType
    <3>. QED BY <3>2 DEF f
  <2>. QED BY <2>3, <2>4, <2>5
<1>5. CASE UNCHANGED vars
  <2>1. UNCHANGED <<pool, scene, el, nd, chan, suspecting>>
    BY <1>5 DEF vars, evars, vvars
  <2>. QED BY <1>4, <2>1, UnmovedNode, UnmovedKept
<1>6. CASE VNext
  <2>. PICK n \in Nodes :
        \/ \E s \in Nodes : ReceiveVote(n, s)
        \/ \E s \in Nodes : ReceiveElection(n, s)
        \/ serviceElectorInbox(n)
        \/ serviceElectorActions(n)
        \/ ElectorTimer(n)
        \/ MasterSlow(n)
        \/ checkPerformance(n)
        \/ CoolDown(n)
        \/ propose_view_change(n)
        \/ \E v \in 1 .. MaxView : FaultyVote(n, v)
        \/ Crash(n)
        \/ Reconnect(n)
        \/ NodeCaughtUp(n)
    BY <1>6 DEF VNext
  <2>. QED BY <1>3, <1>4, ReceiveVoteLoyal, ElectLoyal, ElectorActionsLoyal, ElectorTimerLoyal,
              ProposeLoyal, OthersLoyal, CrashLoyal, ReconnectLoyal
<1>. QED BY <1>5, <1>6

LEMMA BackInit == VInit => BackInv
<1>. SUFFICES ASSUME VInit PROVE Unmoved
  BY DEF BackInv
<1>1. TypeInv
  BY TypeInit
<1>2. ASSUME NEW n \in Correct
      PROVE  /\ el[n].viewNo = 0 /\ \A v \in Views : nd[n].instanceChanges[v] = {}
             /\ \A r \in Nodes : chan[n][r] = <<>>
  <2>1. n \in Nodes
    BY DEF Correct
  <2>2. Elected(n).viewNo = 0
    BY DEF Elected, NewElector
  <2>. QED BY <1>1, <2>1, <2>2, NewNodeType DEF VInit
<1>. QED BY <1>2, EmptySeq DEF Unmoved, Loyal, State

\* Neither the votes of f faulty nodes nor the views that are told to a node
\* that connects get a correct node out of view 0: that takes f+1 correct nodes
\* that suspected the master themselves (canViewChange, node.py:1809).
THEOREM ChangeIsBacked == VSpec => []ViewBacked
<1>1. BackInv => ViewBacked
  <2>. SUFFICES ASSUME Unmoved PROVE ViewBacked
    BY DEF BackInv, ViewBacked, Backed
  <2>1. \A n \in Correct : el[n].viewNo = 0
    BY DEF Unmoved, Loyal, State
  <2>. QED BY <2>1 DEF ViewBacked
<1>. QED BY <1>1, TypeInit, TypeStep, BackInit, BackStep, PTL DEF VSpec
-----------------------------------------------------------------------------
(* The election of Election.tla in its first round: what one turn of an     *)
(* elector may do, for every instance and every order of the messages.      *)

\* A sequence of messages holds m.
Holds(q, m) == \E k \in DOMAIN q : q[k] = m

VoteMsg(t, i, v) == [type |-> t, instId |-> i, viewNo |-> 0, vote |-> v]

LEMMA HoldsEmpty == \A m : ~Holds(<<>>, m)
BY DEF Holds

LEMMA HoldsAppend ==
    ASSUME NEW S, NEW q \in Seq(S), NEW x \in S, NEW m
    PROVE  Holds(Append(q, x), m) <=> Holds(q, m) \/ m = x
<1>. DEFINE p == Append(q, x)
<1>1. /\ DOMAIN p = DOMAIN q \cup {Len(q) + 1} /\ p[Len(q) + 1] = x
      /\ \A k \in DOMAIN q : p[k] = q[k]
  BY AppendProperties
<1>. HIDE DEF p
<1>. QED BY <1>1 DEF Holds

LEMMA HoldsConcat ==
    ASSUME NEW S, NEW q \in Seq(S), NEW p \in Seq(S), NEW m
    PROVE  Holds(q \o p, m) <=> Holds(q, m) \/ Holds(p, m)
<1>1. ASSUME Holds(q \o p, m) PROVE Holds(q, m) \/ Holds(p, m)
  BY <1>1 DEF Holds
<1>2. ASSUME Holds(q, m) PROVE Holds(q \o p, m)
  BY <1>2 DEF Holds
<1>3. ASSUME Holds(p, m) PROVE Holds(q \o p, m)
  <2>1. PICK k \in DOMAIN p : p[k] = m
    BY <1>3 DEF Holds
  <2>2. Len(q) + k \in DOMAIN (q \o p) /\ (q \o p)[Len(q) + k] = m
    BY <2>1
  <2>. QED BY <2>2 DEF Holds
<1>. QED BY <1>1, <1>2, <1>3

LEMMA HoldsTail ==
    ASSUME NEW S, NEW q \in Seq(S), q # <<>>, NEW m
    PROVE  Holds(q, m) <=> m = Head(q) \/ Holds(Tail(q), m)
<1>1. ASSUME Holds(q, m), m # Head(q) PROVE Holds(Tail(q), m)
  <2>1. PICK k \in DOMAIN q : q[k] = m
    BY <1>1 DEF Holds
  <2>2. k - 1 \in DOMAIN Tail(q) /\ Tail(q)[k - 1] = m
    BY <1>1, <2>1
  <2>. QED BY <2>2 DEF Holds
<1>2. ASSUME Holds(Tail(q), m) PROVE Holds(q, m)
  <2>1. PICK k \in DOMAIN Tail(q) : Tail(q)[k] = m
    BY <1>2 DEF Holds
  <2>2. k + 1 \in DOMAIN q /\ q[k + 1] = m
    BY <2>1
  <2>. QED BY <2>2 DEF Holds
<1>3. Holds(q, Head(q))
  BY DEF Holds
<1>. QED BY <1>1, <1>2, <1>3

-----------------------------------------------------------------------------
\* An elector that has voted itself does so again, or whatever made it want to
\* has been settled: startElection would change nothing.
Willing(n, e) ==
    e.start \/ ~e.participating \/ e.replicaNominatedForItself # None
        \/ hasPrimaryReplica(n, e) \/ Undecided(n, e) = {}

LEMMA ScheduledIsWilling ==
    ASSUME NEW e \in Elector(0), NEW n \in Nodes
    PROVE  /\ Willing(n, scheduleElection(n, e))
           /\ \E b \in BOOLEAN : scheduleElection(n, e) = [e EXCEPT !.start = b]
<1>. DEFINE b == startElection(n, e) # {e}
            x == [e EXCEPT !.start = b]
<1>1. scheduleElection(n, e) = x /\ b \in BOOLEAN
  BY DEF scheduleElection
<1>2. /\ x.start = b /\ x.participating = e.participating /\ x.primaryName = e.primaryName
      /\ x.replicaNominatedForItself = e.replicaNominatedForItself
      /\ x.previous_master_primary = e.previous_master_primary
  BY DEF Elector, ElectorIn
<1>3. Undecided(n, x) = Undecided(n, e) /\ hasPrimaryReplica(n, x) = hasPrimaryReplica(n, e)
  BY <1>2 DEF Undecided, hasPrimaryReplica, was_master_primary_in_prev_view
<1>4. ASSUME ~b, e.participating, e.replicaNominatedForItself = None, ~hasPrimaryReplica(n, e),
             Undecided(n, e) # {}
      PROVE  FALSE
  <2>1. e \in nominateRandomReplica(n, e)
    BY <1>4 DEF startElection
  <2>2. PICK i \in Undecided(n, e) :
            e = [e EXCEPT !.replicaNominatedForItself = i, !.nominate = @ \cup {i}]
    BY <1>4, <2>1 DEF nominateRandomReplica
  <2>3. i \in Insts /\ e.replicaNominatedForItself = i
    BY <2>2 DEF Undecided, Elector, ElectorIn
  <2>4. None \notin Insts
    BY ElectionAssumption DEF Insts
  <2>. QED BY <1>4, <2>3, <2>4
<1>. HIDE DEF b, x
<1>. QED BY <1>1, <1>2, <1>3, <1>4 DEF Willing, x

\* What an elector does about an instance whose decision is due.
Decides(n, e, i, v) ==
    /\ e.primaryDeclarations[i][n] = None /\ hasNominationQuorum(e, i)
    /\ MostCommon(e.nominations[i]) = {v}
    /\ \/ hasNominationsFromAll(e, i) \/ e.timer[i] = "expired"
       \/ CountOf(e.nominations[i], v) >= votesNeeded

\* An elector e that has become x in a decision about instance i without a tie.
Outcome(n, e, x, i) ==
    \/ \E v \in Votes :
          /\ Decides(n, e, i, v) /\ x.timer[i] = "none"
          /\ x.primaryDeclarations[i] = [e.primaryDeclarations[i] EXCEPT ![n] = v]
    \/ /\ x.primaryDeclarations[i] = e.primaryDeclarations[i]
       /\ \/ x.timer[i] = e.timer[i]
          \/ /\ x.timer[i] = "running"
             /\ e.primaryDeclarations[i][n] = None /\ hasNominationQuorum(e, i)
       /\ hasNominationQuorum(e, i) /\ hasNominationsFromAll(e, i)
             => e.primaryDeclarations[i][n] # None

\* What no decision changes.
Steady(e, x) ==
    /\ x.viewNo = e.viewNo /\ x.participating = e.participating /\ x.nominations = e.nominations
    /\ x.replicaNominatedForItself = e.replicaNominatedForItself
    /\ x.previous_master_primary = e.previous_master_primary
    /\ x.primaryName = e.primaryName /\ x.lastOrdered = e.lastOrdered
    /\ x.decide = e.decide /\ x.start = e.start /\ x.nominate = e.nominate
    /\ x.delayed = e.delayed

SameAt(e, x, j) ==
    /\ x.primaryDeclarations[j] = e.primaryDeclarations[j] /\ x.timer[j] = e.timer[j]
    /\ x.reElectionProposals[j] = e.reElectionProposals[j]

Announced(n, e, x, m) ==
    \E j \in Insts : /\ e.primaryDeclarations[j][n] = None /\ x.primaryDeclarations[j][n] # None
                     /\ m = VoteMsg("PRIMARY", j, x.primaryDeclarations[j][n])

\* What decidePrimary may make of an elector: another round, or no tie.
OneDecided(n, e, x, i) ==
    /\ x \in Elector(0) /\ Steady(e, x)
    /\ \A j \in Insts \ {i} : SameAt(e, x, j) /\ x.reElectionRounds[j] = e.reElectionRounds[j]
    /\ \/ x.reElectionRounds[i] = e.reElectionRounds[i] + 1
       \/ /\ x.reElectionRounds[i] = e.reElectionRounds[i]
          /\ x.reElectionProposals[i] = e.reElectionProposals[i]
          /\ Outcome(n, e, x, i)
          /\ \A m : Holds(x.out, m) <=> Holds(e.out, m) \/ Announced(n, e, x, m)

LEMMA NoneIsNoVote == None \notin Votes /\ None \notin Nodes /\ None \notin Insts
BY ElectionAssumption DEF Votes, Insts

\* There are finitely many candidates.
LEMMA CandidatesFinite ==
    ASSUME NEW b \in [Nodes -> Votes \cup {None}]
    PROVE  IsFiniteSet(MostCommon(b)) /\ MostCommon(b) \subseteq Votes
<1>. DEFINE T == {b[x] : x \in Nodes}
            g == [x \in Nodes |-> b[x]]
<1>1. g \in Surjection(Nodes, T)
  BY DEF Surjection
<1>2. IsFiniteSet(T)
  <2>. HIDE DEF T, g
  <2>. QED BY <1>1, FS_Surjection, ElectionAssumption
<1>3. MostCommon(b) \subseteq T
  BY DEF MostCommon, Voters
<1>. HIDE DEF T
<1>. QED BY <1>2, <1>3, FS_Subset, MostCommonType

LEMMA DecideOne ==
    ASSUME NEW e \in Elector(0), NEW n \in Nodes, NEW i \in Insts,
           e.reElectionProposals[i][n] = None
    PROVE  OneDecided(n, e, decidePrimary(n, e, i), i)
<1>. SUFFICES ASSUME NEW x, x = decidePrimary(n, e, i) PROVE OneDecided(n, e, x, i)
  OBVIOUS
<1>. DEFINE c == getPrimaryCandidates(e, i)
            w == CHOOSE v \in c : TRUE
            waited == hasNominationsFromAll(e, i) \/ e.timer[i] = "expired"
            D == e.primaryDeclarations
            Done(y) == /\ y.reElectionRounds[i] = e.reElectionRounds[i]
                       /\ y.reElectionProposals[i] = e.reElectionProposals[i]
                       /\ Outcome(n, e, y, i)
                       /\ \A m : Holds(y.out, m) <=> Holds(e.out, m) \/ Announced(n, e, y, m)
            Others(y) == \A j \in Insts \ {i} :
                            SameAt(e, y, j) /\ y.reElectionRounds[j] = e.reElectionRounds[j]
<1>0. /\ e.viewNo = 0
      /\ e.out \in Seq(ElectionMsg) /\ e.timer[i] \in {"none", "running", "expired"}
      /\ e.nominations[i] \in [Nodes -> Votes \cup {None}]
      /\ e.primaryDeclarations \in [Insts -> [Nodes -> Votes \cup {None}]]
  BY DEF Elector, ElectorIn, Ballots
<1>00. x \in Elector(0) /\ 0 \in Views
  BY ViewNumbers, DecidePrimaryType
<1>1. CASE Decided(n, e, i)
  <2>1. x = e
    BY <1>1 DEF decidePrimary
  <2>2. D[i][n] # None \/ ~hasNominationQuorum(e, i)
    BY <1>1 DEF Decided
  <2>3. \A m : ~Announced(n, e, e, m)
    BY DEF Announced
  <2>. QED BY <1>0, <1>00, <2>1, <2>2, <2>3 DEF Outcome, Steady, SameAt, OneDecided
<1>2. CASE ~Decided(n, e, i) /\ Cardinality(c) = 1
           /\ (waited \/ CountOf(e.nominations[i], w) >= votesNeeded)
  <2>1. x = sendPrimary(n, e, i, w)
    BY <1>2 DEF decidePrimary
  <2>2. c = {w} /\ w \in Votes
    <3>1. c \subseteq Votes /\ IsFiniteSet(c)
      BY <1>0, CandidatesFinite DEF getPrimaryCandidates
    <3>. HIDE DEF c
    <3>2. PICK y : c = {y}
      BY <1>2, <3>1, FS_Singleton
    <3>. QED BY <3>1, <3>2
  <2>. DEFINE b == [D EXCEPT ![i][n] = w]
              t == [e.timer EXCEPT ![i] = "none"]
              m0 == VoteMsg("PRIMARY", i, w)
              e1 == [e EXCEPT !.primaryDeclarations = b, !.timer = t]
              o == Append(e.out, m0)
  <2>3. x = [e1 EXCEPT !.out = Append(e1.out, m0)]
    BY <1>0, <1>00, <2>1 DEF sendPrimary, send, VoteMsg
  <2>. HIDE DEF w, c, b, t, m0
  <2>4. /\ Steady(e, x) /\ x.primaryDeclarations = b /\ x.timer = t /\ x.out = o
        /\ x.reElectionProposals = e.reElectionProposals
        /\ x.reElectionRounds = e.reElectionRounds
    BY <2>3 DEF Elector, ElectorIn, Steady
  <2>5. /\ b[i] = [D[i] EXCEPT ![n] = w] /\ b[i][n] = w
        /\ \A j \in Insts \ {i} : b[j] = D[j]
    BY <1>0 DEF b
  <2>6. t[i] = "none" /\ \A j \in Insts \ {i} : t[j] = e.timer[j]
    BY DEF t, Elector, ElectorIn
  <2>7. Decides(n, e, i, w)
    BY <1>2, <2>2 DEF Decides, Decided, getPrimaryCandidates, c
  <2>8. \A m : Holds(o, m) <=> Holds(e.out, m) \/ m = m0
    <3>1. m0 \in ElectionMsg
      BY <1>0, <1>00, <2>2 DEF m0, VoteMsg, ElectionMsg
    <3>. QED BY <1>0, <3>1, HoldsAppend
  <2>9. ASSUME NEW m PROVE Announced(n, e, x, m) <=> m = m0
    <3>1. D[i][n] = None /\ w # None
      BY <2>2, <2>7, NoneIsNoVote DEF Decides
    <3>2. \A j \in Insts : D[j][n] = None /\ b[j][n] # None <=> j = i
      BY <2>5, <3>1
    <3>. QED BY <2>4, <2>5, <3>2 DEF Announced, m0
  <2>10. Outcome(n, e, x, i)
    BY <2>2, <2>4, <2>5, <2>6, <2>7 DEF Outcome
  <2>11. Others(x)
    BY <2>4, <2>5, <2>6 DEF SameAt
  <2>. QED BY <1>0, <1>00, <2>4, <2>8, <2>9, <2>10, <2>11 DEF OneDecided
<1>3. CASE /\ ~Decided(n, e, i) /\ ~waited
           /\ Cardinality(c) = 1 => ~(CountOf(e.nominations[i], w) >= votesNeeded)
  <2>1. x = schedulePrimaryDecision(e, i)
    BY <1>3 DEF decidePrimary
  <2>. DEFINE t == [e.timer EXCEPT ![i] = "running"]
              y == [e EXCEPT !.timer = t]
  <2>2. x = e \/ x = y
    BY <2>1 DEF schedulePrimaryDecision
  <2>3. /\ t[i] = "running" /\ \A j \in Insts \ {i} : t[j] = e.timer[j]
    BY DEF Elector, ElectorIn
  <2>. HIDE DEF t
  <2>4. /\ Steady(e, x) /\ x.primaryDeclarations = D /\ x.timer \in {e.timer, t} /\ x.out = e.out
        /\ x.reElectionProposals = e.reElectionProposals
        /\ x.reElectionRounds = e.reElectionRounds
    BY <2>2 DEF Elector, ElectorIn, Steady
  <2>5. \A m : ~Announced(n, e, x, m)
    BY <2>4 DEF Announced
  <2>6. D[i][n] = None /\ hasNominationQuorum(e, i) /\ ~hasNominationsFromAll(e, i)
    BY <1>3 DEF Decided
  <2>7. Outcome(n, e, x, i)
    BY <2>3, <2>4, <2>6 DEF Outcome
  <2>8. Others(x)
    BY <2>3, <2>4 DEF SameAt
  <2>. QED BY <1>0, <1>00, <2>4, <2>5, <2>7, <2>8 DEF OneDecided
<1>4. CASE ~Decided(n, e, i) /\ Cardinality(c) # 1 /\ waited
  <2>1. x = sendReelection(n, e, i, c)
    BY <1>4 DEF decidePrimary
  <2>. DEFINE p == [e.reElectionProposals EXCEPT ![i][n] = c]
              r == [e.reElectionRounds EXCEPT ![i] = @ + 1]
              t == [e.timer EXCEPT ![i] = "none"]
              m0 == [type |-> "REELECTION", instId |-> i, viewNo |-> e.viewNo,
                     round |-> e.reElectionRounds[i] + 1, tieAmong |-> c]
              e1 == [e EXCEPT !.reElectionRounds = r, !.reElectionProposals = p, !.timer = t]
  <2>2. x = [e1 EXCEPT !.out = Append(e1.out, m0)]
    BY <2>1 DEF sendReelection, send
  <2>3. /\ r[i] = e.reElectionRounds[i] + 1
        /\ \A j \in Insts \ {i} : /\ r[j] = e.reElectionRounds[j] /\ t[j] = e.timer[j]
                                  /\ p[j] = e.reElectionProposals[j]
    BY DEF Elector, ElectorIn
  <2>. HIDE DEF c, p, r, t, m0
  <2>4. /\ Steady(e, x) /\ x.primaryDeclarations = D /\ x.timer = t
        /\ x.reElectionProposals = p /\ x.reElectionRounds = r
    BY <2>2 DEF Elector, ElectorIn, Steady
  <2>. QED BY <1>0, <1>00, <2>3, <2>4 DEF SameAt, OneDecided
<1>. QED BY <1>1, <1>2, <1>3, <1>4

\* The electors between the scheduled decisions.
LEMMA DecideAllSteps ==
    ASSUME NEW v \in Views, NEW e \in Elector(v), NEW n \in Nodes, NEW insts,
           pool.instances \in Nat
    PROVE  \E done :
              /\ done[0] = e /\ done[pool.instances] = decideAll(n, e, insts)
              /\ \A k \in 1 .. pool.instances :
                    done[k] = IF k - 1 \in insts THEN decidePrimary(n, done[k - 1], k - 1)
                              ELSE done[k - 1]
<1>. DEFINE N == pool.instances
            V == Elector(v)
            step(k, x) == IF k - 1 \in insts THEN decidePrimary(n, x, k - 1) ELSE x
            E == [k \in 1..N |-> [x \in V |-> step(k, x)]]
            Eq(g) == g = [k \in 0..N |-> IF k = 0 THEN e ELSE step(k, g[k - 1])]
            done == CHOOSE g : Eq(g)
<1>1. N \in Nat /\ \A k \in 1..N : k - 1 \in Insts
  BY DEF Insts
<1>2. \A k \in 1..N, x \in V : step(k, x) \in V
  BY <1>1, DecidePrimaryType
<1>3. decideAll(n, e, insts) = done[N]
  BY DEF decideAll
<1>. HIDE DEF N, V, step
<1>4. E \in [1..N -> [V -> V]] /\ e \in V
  BY <1>2 DEF V
<1>5. PICK g \in [0..N -> V] : Recurs(g, N, e, E)
  <2>. HIDE DEF E
  <2>. QED BY <1>1, <1>4, RecursionUpTo
<1>6. Eq(g)
  <2>1. ASSUME NEW k \in 0..N PROVE g[k] = IF k = 0 THEN e ELSE step(k, g[k - 1])
    <3>1. g[k] = IF k = 0 THEN e ELSE E[k][g[k - 1]]
      <4>. HIDE DEF E
      <4>. QED BY <1>5 DEF Recurs
    <3>2. k # 0 => k \in 1..N /\ k - 1 \in 0..N
      BY <1>1
    <3>. QED BY <3>1, <3>2
  <2>2. g = [k \in 0..N |-> g[k]]
    OBVIOUS
  <2>. QED BY <2>1, <2>2
<1>7. Eq(done)
  <2>. HIDE DEF Eq
  <2>. QED BY <1>6
<1>8. \A k \in 0..N : done[k] = IF k = 0 THEN e ELSE step(k, done[k - 1])
  <2>. HIDE DEF done
  <2>. QED BY <1>7, Zenon
<1>. HIDE DEF done
<1>9. done[0] = e /\ \A k \in 1..N : done[k] = step(k, done[k - 1])
  BY <1>1, <1>8
<1>. QED BY <1>3, <1>9 DEF N, step

LEMMA NominateAllSteps ==
    ASSUME NEW v \in Views, NEW e \in Elector(v), NEW n \in Nodes, NEW insts,
           pool.instances \in Nat
    PROVE  \E done :
              /\ done[0] = e /\ done[pool.instances] = nominateAll(n, e, insts)
              /\ \A k \in 1 .. pool.instances :
                    done[k] = IF k - 1 \in insts THEN nominateReplica(n, done[k - 1], k - 1)
                              ELSE done[k - 1]
<1>. DEFINE N == pool.instances
            V == Elector(v)
            step(k, x) == IF k - 1 \in insts THEN nominateReplica(n, x, k - 1) ELSE x
            E == [k \in 1..N |-> [x \in V |-> step(k, x)]]
            Eq(g) == g = [k \in 0..N |-> IF k = 0 THEN e ELSE step(k, g[k - 1])]
            done == CHOOSE g : Eq(g)
<1>1. N \in Nat /\ \A k \in 1..N : k - 1 \in Insts
  BY DEF Insts
<1>2. \A k \in 1..N, x \in V : step(k, x) \in V
  BY <1>1, NominateReplicaType
<1>3. nominateAll(n, e, insts) = done[N]
  BY DEF nominateAll
<1>. HIDE DEF N, V, step
<1>4. E \in [1..N -> [V -> V]] /\ e \in V
  BY <1>2 DEF V
<1>5. PICK g \in [0..N -> V] : Recurs(g, N, e, E)
  <2>. HIDE DEF E
  <2>. QED BY <1>1, <1>4, RecursionUpTo
<1>6. Eq(g)
  <2>1. ASSUME NEW k \in 0..N PROVE g[k] = IF k = 0 THEN e ELSE step(k, g[k - 1])
    <3>1. g[k] = IF k = 0 THEN e ELSE E[k][g[k - 1]]
      <4>. HIDE DEF E
      <4>. QED BY <1>5 DEF Recurs
    <3>2. k # 0 => k \in 1..N /\ k - 1 \in 0..N
      BY <1>1
    <3>. QED BY <3>1, <3>2
  <2>2. g = [k \in 0..N |-> g[k]]
    OBVIOUS
  <2>. QED BY <2>1, <2>2
<1>7. Eq(done)
  <2>. HIDE DEF Eq
  <2>. QED BY <1>6
<1>8. \A k \in 0..N : done[k] = IF k = 0 THEN e ELSE step(k, done[k - 1])
  <2>. HIDE DEF done
  <2>. QED BY <1>7, Zenon
<1>. HIDE DEF done
<1>9. done[0] = e /\ \A k \in 1..N : done[k] = step(k, done[k - 1])
  BY <1>1, <1>8
<1>. QED BY <1>3, <1>9 DEF N, step

-----------------------------------------------------------------------------
\* The electors x that e may be when the decisions of instances below k among
\* insts have been made, if there was no tie.
Rounds(e, x) == \A j \in Insts : x.reElectionRounds[j] >= e.reElectionRounds[j]
SameRounds(e, x) == \A j \in Insts : x.reElectionRounds[j] = e.reElectionRounds[j]

DecidedUpTo(n, e, x, insts, k) ==
    /\ Steady(e, x)
    /\ \A j \in Insts : x.reElectionProposals[j] = e.reElectionProposals[j]
    /\ \A j \in Insts : IF j \in insts /\ j < k THEN Outcome(n, e, x, j) ELSE SameAt(e, x, j)
    /\ \A m : Holds(x.out, m) <=> Holds(e.out, m) \/ Announced(n, e, x, m)

LEMMA DecideNext ==
    ASSUME NEW e \in Elector(0), NEW n \in Nodes, NEW k \in Insts, NEW insts, k \in insts,
           \A j \in Insts : e.reElectionProposals[j][n] = None,
           NEW y \in Elector(0), DecidedUpTo(n, e, y, insts, k), SameRounds(e, y),
           NEW x, x = decidePrimary(n, y, k), x.reElectionRounds[k] = e.reElectionRounds[k]
    PROVE  DecidedUpTo(n, e, x, insts, k + 1)
<1>1. y.reElectionProposals[k][n] = None /\ k \in Nat /\ e.reElectionRounds[k] \in Nat
  <2>1. y.reElectionProposals[k][n] = None
    BY DEF DecidedUpTo
  <2>2. e.reElectionRounds \in [Insts -> Nat] /\ k \in Nat
    BY DEF Insts, Elector, ElectorIn
  <2>. QED BY <2>1, <2>2
<1>2. /\ Steady(y, x)
      /\ \A j \in Insts \ {k} : SameAt(y, x, j)
      /\ x.reElectionProposals[k] = y.reElectionProposals[k]
      /\ Outcome(n, y, x, k)
      /\ \A m : Holds(x.out, m) <=> Holds(y.out, m) \/ Announced(n, y, x, m)
  <2>1. y.reElectionRounds[k] = e.reElectionRounds[k]
    BY DEF SameRounds
  <2>2. ~(x.reElectionRounds[k] = y.reElectionRounds[k] + 1)
    BY <1>1, <2>1
  <2>3. OneDecided(n, y, x, k)
    BY <1>1, DecideOne
  <2>. QED BY <2>2, <2>3 DEF OneDecided
<1>3. Steady(e, x)
  BY <1>2 DEF Steady, DecidedUpTo
<1>4. \A j \in Insts : x.reElectionProposals[j] = e.reElectionProposals[j]
  BY <1>2 DEF SameAt, DecidedUpTo
<1>5. SameAt(e, y, k) /\ y.nominations = e.nominations
  <2>1. ~(k < k)
    BY <1>1
  <2>. QED BY <2>1 DEF DecidedUpTo, Steady
<1>6. Outcome(n, e, x, k)
  <2>1. /\ y.primaryDeclarations[k] = e.primaryDeclarations[k] /\ y.timer[k] = e.timer[k]
    BY <1>5 DEF SameAt
  <2>2. /\ hasNominationQuorum(y, k) = hasNominationQuorum(e, k)
        /\ hasNominationsFromAll(y, k) = hasNominationsFromAll(e, k)
    BY <1>5 DEF hasNominationQuorum, hasNominationsFromAll
  <2>3. \A v : Decides(n, y, k, v) = Decides(n, e, k, v)
    BY <1>5, <2>1, <2>2 DEF Decides
  <2>. QED BY <1>2, <2>1, <2>2, <2>3 DEF Outcome
<1>7. ASSUME NEW j \in Insts
      PROVE  IF j \in insts /\ j < k + 1 THEN Outcome(n, e, x, j) ELSE SameAt(e, x, j)
  <2>1. CASE j = k
    BY <1>1, <1>6, <2>1
  <2>2. CASE j # k
    <3>1. SameAt(y, x, j) /\ (j < k + 1 <=> j < k)
      BY <1>1, <1>2, <2>2 DEF Insts
    <3>2. Outcome(n, e, y, j) => Outcome(n, e, x, j)
      BY <3>1 DEF Outcome, SameAt
    <3>3. SameAt(e, y, j) => SameAt(e, x, j)
      BY <3>1 DEF SameAt
    <3>. QED BY <3>1, <3>2, <3>3 DEF DecidedUpTo
  <2>. QED BY <2>1, <2>2
<1>8. ASSUME NEW m PROVE Announced(n, e, x, m) <=> Announced(n, e, y, m) \/ Announced(n, y, x, m)
  <2>1. \A j \in Insts \ {k} : y.primaryDeclarations[j] = x.primaryDeclarations[j]
    BY <1>2 DEF SameAt
  <2>2. y.primaryDeclarations[k] = e.primaryDeclarations[k]
    BY <1>5 DEF SameAt
  <2>. QED BY <2>1, <2>2 DEF Announced
<1>. QED BY <1>2, <1>3, <1>4, <1>7, <1>8 DEF DecidedUpTo

LEMMA DecideAllEffect ==
    ASSUME NEW e \in Elector(0), NEW n \in Nodes, NEW insts, pool.instances \in Nat,
           \A j \in Insts : e.reElectionProposals[j][n] = None,
           NEW x, x = decideAll(n, e, insts)
    PROVE  /\ x \in Elector(0)
           /\ SameRounds(e, x) => DecidedUpTo(n, e, x, insts, pool.instances)
<1>. DEFINE N == pool.instances
<1>0. N \in Nat /\ \A k \in 1..N : k - 1 \in Insts
  BY DEF Insts
<1>00. 0 \in Views
  BY ViewNumbers
<1>1. PICK done : /\ done[0] = e /\ done[N] = x
                  /\ \A k \in 1..N :
                        done[k] = IF k - 1 \in insts THEN decidePrimary(n, done[k - 1], k - 1)
                                  ELSE done[k - 1]
  BY <1>00, DecideAllSteps
<1>. DEFINE P(k) == /\ done[k] \in Elector(0) /\ Rounds(e, done[k])
                    /\ \A j \in Insts :
                          j >= k => done[k].reElectionProposals[j] = e.reElectionProposals[j]
                    /\ SameRounds(e, done[k]) => DecidedUpTo(n, e, done[k], insts, k)
            S == {k \in 0..N : P(k)}
<1>2. P(0)
  <2>1. e.reElectionRounds \in [Insts -> Nat]
    BY DEF Elector, ElectorIn
  <2>2. Rounds(e, e)
    BY <2>1 DEF Rounds
  <2>3. Steady(e, e) /\ (\A j \in Insts : SameAt(e, e, j) /\ ~(j < 0)) /\ (\A m : ~Announced(n, e, e, m))
    BY DEF Steady, SameAt, Announced, Insts
  <2>4. DecidedUpTo(n, e, e, insts, 0)
    BY <2>3 DEF DecidedUpTo
  <2>. QED BY <1>1, <2>2, <2>4
<1>3. ASSUME NEW k \in 0..(N - 1), P(k) PROVE P(k + 1)
  <2>. DEFINE y == done[k]
              z == done[k + 1]
  <2>0. k + 1 \in 1..N /\ (k + 1) - 1 = k /\ k \in Insts /\ k \in Nat
    BY <1>0 DEF Insts
  <2>1. z = IF k \in insts THEN decidePrimary(n, y, k) ELSE y
    BY <1>1, <2>0
  <2>2. y.reElectionProposals[k][n] = None
    BY <1>3, <2>0
  <2>. HIDE DEF y, z
  <2>3. CASE k \notin insts
    <3>1. DecidedUpTo(n, e, y, insts, k) => DecidedUpTo(n, e, y, insts, k + 1)
      <4>1. \A j \in Insts : j \in insts => (j < k <=> j < k + 1)
        BY <2>0, <2>3 DEF Insts
      <4>. QED BY <4>1 DEF DecidedUpTo
    <3>2. \A j \in Insts : j >= k + 1 => j >= k
      BY <2>0 DEF Insts
    <3>. QED BY <1>3, <2>1, <2>3, <3>1, <3>2 DEF y, z
  <2>4. CASE k \in insts
    <3>1. OneDecided(n, y, z, k)
      BY <1>3, <2>0, <2>1, <2>2, <2>4, DecideOne DEF y
    <3>2. /\ y.reElectionRounds \in [Insts -> Nat] /\ e.reElectionRounds \in [Insts -> Nat]
          /\ z \in Elector(0)
      <4>1. z \in Elector(0)
        BY <3>1 DEF OneDecided
      <4>2. \A u \in Elector(0) : u.reElectionRounds \in [Insts -> Nat]
        BY DEF Elector, ElectorIn
      <4>. QED BY <1>3, <4>1, <4>2 DEF y
    <3>3. Rounds(e, y) /\ \A j \in Insts : j >= k => y.reElectionProposals[j] = e.reElectionProposals[j]
      BY <1>3 DEF y
    <3>4. \A j \in Insts : z.reElectionRounds[j] \in {y.reElectionRounds[j], y.reElectionRounds[j] + 1}
      BY <3>1 DEF OneDecided
    <3>5. Rounds(e, z) /\ (SameRounds(e, z) => SameRounds(e, y))
      <4>1. ASSUME NEW j \in Insts
            PROVE  /\ z.reElectionRounds[j] >= e.reElectionRounds[j]
                   /\ z.reElectionRounds[j] = e.reElectionRounds[j]
                        => y.reElectionRounds[j] = e.reElectionRounds[j]
        <5>1. y.reElectionRounds[j] \in Nat /\ e.reElectionRounds[j] \in Nat
              /\ y.reElectionRounds[j] >= e.reElectionRounds[j]
          BY <3>2, <3>3 DEF Rounds
        <5>. QED BY <3>4, <5>1
      <4>. QED BY <4>1 DEF Rounds, SameRounds
    <3>6. ASSUME NEW j \in Insts, j >= k + 1
          PROVE  z.reElectionProposals[j] = e.reElectionProposals[j]
      <4>1. j # k /\ j >= k
        BY <2>0, <3>6 DEF Insts
      <4>. QED BY <3>1, <3>3, <4>1 DEF OneDecided, SameAt
    <3>7. SameRounds(e, z) => DecidedUpTo(n, e, z, insts, k + 1)
      <4>. SUFFICES ASSUME SameRounds(e, z) PROVE DecidedUpTo(n, e, z, insts, k + 1)
        OBVIOUS
      <4>1. DecidedUpTo(n, e, y, insts, k) /\ y \in Elector(0) /\ SameRounds(e, y)
        BY <1>3, <3>5 DEF y
      <4>2. z = decidePrimary(n, y, k) /\ z.reElectionRounds[k] = e.reElectionRounds[k]
        BY <2>0, <2>1, <2>4 DEF SameRounds
      <4>. QED BY <2>0, <2>4, <4>1, <4>2, DecideNext
    <3>. QED BY <3>2, <3>5, <3>6, <3>7 DEF z
  <2>. QED BY <2>3, <2>4
<1>. HIDE DEF P
<1>4. 0 \in S
  BY <1>0, <1>2
<1>5. \A k \in 0..(N - 1) : k \in S => k + 1 \in S
  BY <1>0, <1>3
<1>. HIDE DEF S
<1>6. 0..N \subseteq S
  BY <1>0, <1>4, <1>5, InductionUpTo
<1>7. P(N)
  BY <1>0, <1>6 DEF S
<1>. QED BY <1>1, <1>7 DEF P

\* What nominating a replica does not change.
Kept(e, x) ==
    /\ x.viewNo = e.viewNo /\ x.participating = e.participating
    /\ x.primaryDeclarations = e.primaryDeclarations
    /\ x.reElectionProposals = e.reElectionProposals
    /\ x.reElectionRounds = e.reElectionRounds /\ x.timer = e.timer
    /\ x.replicaNominatedForItself = e.replicaNominatedForItself
    /\ x.previous_master_primary = e.previous_master_primary
    /\ x.primaryName = e.primaryName /\ x.lastOrdered = e.lastOrdered
    /\ x.decide = e.decide /\ x.start = e.start /\ x.nominate = e.nominate
    /\ x.delayed = e.delayed

Proposed(n, e, x, m) ==
    \E j \in Insts : /\ e.nominations[j][n] = None /\ x.nominations[j][n] # None
                     /\ m = VoteMsg("NOMINATE", j, x.nominations[j][n])

NominatesFor(n, e, x, i, v) ==
    /\ x \in Elector(0) /\ Kept(e, x)
    /\ x.nominations[i] = [e.nominations[i] EXCEPT ![n] = v]
    /\ \A j \in Insts \ {i} : x.nominations[j] = e.nominations[j]
    /\ \A m : Holds(x.out, m) <=> Holds(e.out, m) \/ m = VoteMsg("NOMINATE", i, v)

LEMMA NominateEffect ==
    ASSUME NEW e \in Elector(0), NEW n \in Nodes, NEW i \in Insts, NEW v \in Votes
    PROVE  NominatesFor(n, e, Nominate(n, e, i, v), i, v)
<1>. SUFFICES ASSUME NEW x, x = Nominate(n, e, i, v) PROVE NominatesFor(n, e, x, i, v)
  OBVIOUS
<1>. DEFINE b == [e.nominations EXCEPT ![i][n] = v]
            m0 == VoteMsg("NOMINATE", i, v)
            e1 == [e EXCEPT !.nominations = b]
            o == Append(e.out, m0)
<1>0. /\ e.viewNo = 0 /\ e.out \in Seq(ElectionMsg)
      /\ e.nominations \in [Insts -> [Nodes -> Votes \cup {None}]]
  BY DEF Elector, ElectorIn, Ballots
<1>00. x \in Elector(0) /\ 0 \in Views
  BY ViewNumbers, NominateType
<1>1. x = [e1 EXCEPT !.out = Append(e1.out, m0)]
  BY <1>0 DEF Nominate, send, VoteMsg
<1>2. b[i] = [e.nominations[i] EXCEPT ![n] = v] /\ \A j \in Insts \ {i} : b[j] = e.nominations[j]
  BY <1>0
<1>3. m0 \in ElectionMsg
  BY <1>00 DEF VoteMsg, ElectionMsg
<1>. HIDE DEF b, m0
<1>4. Kept(e, x) /\ x.nominations = b /\ x.out = o
  BY <1>1 DEF Elector, ElectorIn, Kept
<1>5. \A m : Holds(o, m) <=> Holds(e.out, m) \/ m = m0
  BY <1>0, <1>3, HoldsAppend
<1>. QED BY <1>00, <1>2, <1>4, <1>5 DEF m0, NominatesFor

SelfVote(n, e) == [name |-> n, seq |-> e.lastOrdered]

\* The elector e has become x by nominating its replicas of the instances insts.
Named(n, e, x, insts) ==
    /\ x \in Elector(0) /\ Kept(e, x)
    /\ \A j \in Insts :
          x.nominations[j] = IF j \in insts /\ e.nominations[j][n] = None
                             THEN [e.nominations[j] EXCEPT ![n] = SelfVote(n, e)]
                             ELSE e.nominations[j]
    /\ \A m : Holds(x.out, m) <=> Holds(e.out, m) \/ Proposed(n, e, x, m)

LEMMA SelfVoteType ==
    ASSUME NEW e \in Elector(0), NEW n \in Nodes
    PROVE  SelfVote(n, e) \in Votes /\ SelfVote(n, e).name = n /\ SelfVote(n, e) # None
BY NoneIsNoVote DEF SelfVote, Votes, Elector, ElectorIn

LEMMA NameNobody == ASSUME NEW e \in Elector(0), NEW n \in Nodes PROVE Named(n, e, e, {})
BY DEF Named, Kept, Proposed

LEMMA NameOne ==
    ASSUME NEW e \in Elector(0), NEW n \in Nodes, NEW i \in Insts
    PROVE  Named(n, e, nominateReplica(n, e, i), {i})
<1>. DEFINE v == SelfVote(n, e)
            x == Nominate(n, e, i, v)
<1>1. CASE e.nominations[i][n] # None
  <2>1. nominateReplica(n, e, i) = e
    BY <1>1 DEF nominateReplica, didReplicaNominate
  <2>2. \A m : ~Proposed(n, e, e, m)
    BY DEF Proposed
  <2>. QED BY <1>1, <2>1, <2>2 DEF Named, Kept
<1>2. CASE e.nominations[i][n] = None
  <2>0. nominateReplica(n, e, i) = x
    BY <1>2 DEF nominateReplica, didReplicaNominate, SelfVote
  <2>00. v \in Votes /\ v # None
    BY SelfVoteType
  <2>. HIDE DEF v
  <2>1. /\ x \in Elector(0) /\ Kept(e, x)
        /\ x.nominations[i] = [e.nominations[i] EXCEPT ![n] = v]
        /\ \A j \in Insts \ {i} : x.nominations[j] = e.nominations[j]
        /\ \A m : Holds(x.out, m) <=> Holds(e.out, m) \/ m = VoteMsg("NOMINATE", i, v)
    BY <2>00, NominateEffect DEF NominatesFor
  <2>2. x.nominations[i][n] = v
    <3>1. e.nominations[i] \in [Nodes -> Votes \cup {None}]
      BY DEF Elector, ElectorIn, Ballots
    <3>. QED BY <2>1, <3>1
  <2>. HIDE DEF x
  <2>3. ASSUME NEW m PROVE Proposed(n, e, x, m) <=> m = VoteMsg("NOMINATE", i, v)
    <3>1. \A j \in Insts : e.nominations[j][n] = None /\ x.nominations[j][n] # None <=> j = i
      BY <1>2, <2>00, <2>1, <2>2
    <3>. QED BY <2>2, <3>1 DEF Proposed
  <2>. QED BY <1>2, <2>0, <2>1, <2>3 DEF Named, v
<1>. QED BY <1>1, <1>2

LEMMA NameMore ==
    ASSUME NEW e \in Elector(0), NEW n \in Nodes, NEW k \in Insts, NEW A, k \notin A,
           NEW y, Named(n, e, y, A), NEW x, Named(n, y, x, {k})
    PROVE  Named(n, e, x, A \cup {k})
<1>1. Kept(e, x) /\ SelfVote(n, y) = SelfVote(n, e)
  BY DEF Named, Kept, SelfVote
<1>2. ASSUME NEW j \in Insts
      PROVE  /\ x.nominations[j] = IF j \in A \cup {k} /\ e.nominations[j][n] = None
                                   THEN [e.nominations[j] EXCEPT ![n] = SelfVote(n, e)]
                                   ELSE e.nominations[j]
             /\ j # k => x.nominations[j] = y.nominations[j]
             /\ j = k => y.nominations[j] = e.nominations[j]
  BY <1>1 DEF Named
<1>3. ASSUME NEW m PROVE Proposed(n, e, x, m) <=> Proposed(n, e, y, m) \/ Proposed(n, y, x, m)
  <2>1. \A j \in Insts : j # k => x.nominations[j] = y.nominations[j]
    BY <1>2
  <2>2. y.nominations[k] = e.nominations[k]
    BY <1>2
  <2>. QED BY <2>1, <2>2 DEF Proposed
<1>4. \A m : Holds(x.out, m) <=> Holds(e.out, m) \/ Proposed(n, e, x, m)
  BY <1>3 DEF Named
<1>. QED BY <1>1, <1>2, <1>4 DEF Named

LEMMA NameAll ==
    ASSUME NEW e \in Elector(0), NEW n \in Nodes, NEW insts, insts \subseteq Insts,
           pool.instances \in Nat
    PROVE  Named(n, e, nominateAll(n, e, insts), insts)
<1>. DEFINE N == pool.instances
<1>0. N \in Nat /\ (\A k \in 1..N : k - 1 \in Insts) /\ \A j \in insts : j \in Nat /\ j < N
  BY DEF Insts
<1>00. 0 \in Views
  BY ViewNumbers
<1>1. PICK done : /\ done[0] = e /\ done[N] = nominateAll(n, e, insts)
                  /\ \A k \in 1..N :
                        done[k] = IF k - 1 \in insts THEN nominateReplica(n, done[k - 1], k - 1)
                                  ELSE done[k - 1]
  BY <1>00, NominateAllSteps
<1>. DEFINE Below(k) == {j \in insts : j < k}
            S == {k \in 0..N : Named(n, e, done[k], Below(k))}
<1>2. Named(n, e, done[0], Below(0))
  <2>1. Below(0) = {}
    BY <1>0
  <2>. QED BY <1>1, <2>1, NameNobody
<1>3. ASSUME NEW k \in 0..(N - 1), Named(n, e, done[k], Below(k))
      PROVE  Named(n, e, done[k + 1], Below(k + 1))
  <2>0. k + 1 \in 1..N /\ (k + 1) - 1 = k /\ k \in Insts /\ k \in Nat /\ k \notin Below(k)
    BY <1>0 DEF Insts
  <2>1. done[k + 1] = IF k \in insts THEN nominateReplica(n, done[k], k) ELSE done[k]
    BY <1>1, <2>0
  <2>2. Below(k + 1) = IF k \in insts THEN Below(k) \cup {k} ELSE Below(k)
    <3>1. \A j \in insts : j < k + 1 <=> j < k \/ j = k
      BY <1>0, <2>0
    <3>. QED BY <3>1
  <2>. HIDE DEF Below
  <2>3. CASE k \notin insts
    BY <1>3, <2>1, <2>2, <2>3
  <2>4. CASE k \in insts
    <3>1. done[k] \in Elector(0)
      BY <1>3 DEF Named
    <3>2. Named(n, done[k], done[k + 1], {k})
      BY <2>0, <2>1, <2>4, <3>1, NameOne
    <3>. QED BY <1>3, <2>0, <2>2, <2>4, <3>2, NameMore
  <2>. QED BY <2>3, <2>4
<1>. HIDE DEF Below
<1>4. 0 \in S
  BY <1>0, <1>2
<1>5. \A k \in 0..(N - 1) : k \in S => k + 1 \in S
  BY <1>0, <1>3
<1>. HIDE DEF S
<1>6. 0..N \subseteq S
  BY <1>0, <1>4, <1>5, InductionUpTo
<1>7. Named(n, e, done[N], Below(N))
  BY <1>0, <1>6 DEF S
<1>8. Below(N) = insts
  BY <1>0 DEF Below
<1>. QED BY <1>1, <1>7, <1>8

\* What messages of other nodes do not change.
Unheard(e, x) ==
    /\ x.viewNo = e.viewNo /\ x.participating = e.participating
    /\ x.reElectionProposals = e.reElectionProposals
    /\ x.reElectionRounds = e.reElectionRounds /\ x.timer = e.timer
    /\ x.previous_master_primary = e.previous_master_primary
    /\ x.nominate = e.nominate /\ x.delayed = e.delayed

Nominated(n, e, x, s, i, v) ==
    /\ x \in Elector(0) /\ Unheard(e, x)
    /\ x.primaryDeclarations = e.primaryDeclarations /\ x.primaryName = e.primaryName
    /\ x.replicaNominatedForItself = e.replicaNominatedForItself /\ x.start = e.start
    /\ \A j \in Insts \ {i} : x.nominations[j] = e.nominations[j]
    /\ \A y \in Nodes : x.nominations[i][y] = IF y \in {n, s} /\ e.nominations[i][y] = None
                                              THEN v ELSE e.nominations[i][y]
    /\ e.decide \subseteq x.decide /\ x.decide \subseteq e.decide \cup {i}
    /\ e.nominations[i][s] = None => i \in x.decide \/ Decided(n, x, i)
    /\ \A m : Holds(x.out, m) <=> \/ Holds(e.out, m)
                                  \/ (e.nominations[i][n] = None /\ m = VoteMsg("NOMINATE", i, v))

LEMMA NominateHeard ==
    ASSUME NEW e \in Elector(0), e.previous_master_primary = None, NEW n \in Nodes,
           NEW s \in Nodes \ {n}, NEW i \in Insts, NEW v \in Votes
    PROVE  Nominated(n, e, processNominate(n, e, VoteMsg("NOMINATE", i, v), s), s, i, v)
<1>. DEFINE m == VoteMsg("NOMINATE", i, v)
            own == IF e.nominations[i][n] # None THEN e ELSE Nominate(n, e, i, v)
            b == [own.nominations EXCEPT ![i][s] = v]
            e1 == [own EXCEPT !.nominations = b]
            x == IF own.nominations[i][s] # None THEN own ELSE scheduleDecision(n, e1, i)
<1>0. m.instId = i /\ m.vote = v /\ v.name # None /\ m \in ElectionMsg /\ m.type = "NOMINATE"
  BY NoneIsNoVote, ViewNumbers DEF VoteMsg, Votes, ElectionMsg
<1>1. processNominate(n, e, m, s) = x
  <2>1. ~LedBefore(e, m)
    BY <1>0 DEF LedBefore
  <2>. HIDE DEF m
  <2>. QED BY <1>0, <2>1 DEF processNominate, didReplicaNominate
<1>2. x \in Elector(0)
  <2>. HIDE DEF x, m
  <2>. QED BY <1>0, <1>1, ViewNumbers, ProcessNominateType
<1>3. /\ own \in Elector(0) /\ Kept(e, own)
      /\ \A j \in Insts \ {i} : own.nominations[j] = e.nominations[j]
      /\ \A y \in Nodes : own.nominations[i][y] = IF y = n /\ e.nominations[i][y] = None
                                                  THEN v ELSE e.nominations[i][y]
      /\ \A k : Holds(own.out, k) <=> \/ Holds(e.out, k)
                                      \/ (e.nominations[i][n] = None /\ k = m)
  <2>1. CASE e.nominations[i][n] # None
    BY <2>1 DEF Kept
  <2>2. CASE e.nominations[i][n] = None
    <3>1. own = Nominate(n, e, i, v) /\ e.nominations[i] \in [Nodes -> Votes \cup {None}]
      BY <2>2 DEF Elector, ElectorIn, Ballots
    <3>. HIDE DEF own
    <3>2. NominatesFor(n, e, own, i, v)
      BY <3>1, NominateEffect
    <3>. QED BY <2>2, <3>1, <3>2 DEF NominatesFor
  <2>. QED BY <2>1, <2>2
<1>. HIDE DEF own
<1>4. CASE own.nominations[i][s] # None
  <2>1. x = own /\ e.nominations[i][s] # None
    BY <1>3, <1>4
  <2>. HIDE DEF x
  <2>. QED BY <1>1, <1>2, <1>3, <2>1 DEF Nominated, Kept, Unheard
<1>5. CASE own.nominations[i][s] = None
  <2>1. /\ \A j \in Insts \ {i} : b[j] = own.nominations[j]
        /\ \A y \in Nodes : b[i][y] = IF y = s THEN v ELSE own.nominations[i][y]
    BY <1>3 DEF Elector, ElectorIn, Ballots
  <2>. HIDE DEF b
  <2>2. /\ e1.nominations = b /\ Unheard(own, e1) /\ e1.decide = own.decide /\ e1.out = own.out
        /\ e1.primaryDeclarations = own.primaryDeclarations /\ e1.primaryName = own.primaryName
        /\ e1.replicaNominatedForItself = own.replicaNominatedForItself /\ e1.start = own.start
    BY <1>3 DEF Elector, ElectorIn, Unheard
  <2>3. x = IF Decided(n, e1, i) THEN e1 ELSE [e1 EXCEPT !.decide = @ \cup {i}]
    BY <1>5 DEF scheduleDecision
  <2>4. /\ x.nominations = b /\ Unheard(own, x) /\ x.out = own.out
        /\ x.primaryDeclarations = own.primaryDeclarations /\ x.primaryName = own.primaryName
        /\ x.replicaNominatedForItself = own.replicaNominatedForItself /\ x.start = own.start
        /\ own.decide \subseteq x.decide /\ x.decide \subseteq own.decide \cup {i}
        /\ i \in x.decide \/ (Decided(n, e1, i) /\ x = e1)
    <3>1. CASE Decided(n, e1, i)
      BY <2>2, <2>3, <3>1
    <3>2. CASE ~Decided(n, e1, i)
      <4>1. x = [e1 EXCEPT !.decide = @ \cup {i}]
        BY <2>3, <3>2
      <4>. HIDE DEF x
      <4>2. /\ x.nominations = e1.nominations /\ Unheard(e1, x) /\ x.out = e1.out
            /\ x.primaryDeclarations = e1.primaryDeclarations /\ x.primaryName = e1.primaryName
            /\ x.replicaNominatedForItself = e1.replicaNominatedForItself /\ x.start = e1.start
            /\ x.decide = e1.decide \cup {i}
        BY <1>3, <4>1 DEF Elector, ElectorIn, Unheard
      <4>. HIDE DEF e1
      <4>. QED BY <2>2, <4>2 DEF Unheard
    <3>. QED BY <3>1, <3>2
  <2>. HIDE DEF x, e1
  <2>5. Unheard(e, x) /\ e.decide = own.decide
    BY <1>3, <2>4 DEF Unheard, Kept
  <2>6. \A y \in Nodes : x.nominations[i][y] = IF y \in {n, s} /\ e.nominations[i][y] = None
                                               THEN v ELSE e.nominations[i][y]
    BY <1>3, <1>5, <2>1, <2>4
  <2>7. \A j \in Insts \ {i} : x.nominations[j] = e.nominations[j]
    BY <1>3, <2>1, <2>4
  <2>8. i \in x.decide \/ Decided(n, x, i)
    BY <2>4
  <2>. QED BY <1>1, <1>2, <1>3, <2>4, <2>5, <2>6, <2>7, <2>8 DEF Nominated, Kept
<1>. QED BY <1>4, <1>5

Noted(n, e, x, s, i, v) ==
    /\ x \in Elector(0) /\ Unheard(e, x)
    /\ x.nominations = e.nominations /\ x.decide = e.decide /\ x.out = e.out
    /\ \A j \in Insts \ {i} : /\ x.primaryDeclarations[j] = e.primaryDeclarations[j]
                              /\ x.primaryName[j] = e.primaryName[j]
    /\ \A y \in Nodes : x.primaryDeclarations[i][y] =
                            IF y = s /\ e.primaryDeclarations[i][y] = None
                            THEN v ELSE e.primaryDeclarations[i][y]
    /\ \/ /\ x.primaryName[i] = e.primaryName[i] /\ x.start = e.start
          /\ x.replicaNominatedForItself = e.replicaNominatedForItself
          /\ \/ e.primaryName[i] # None \/ ~hasPrimaryQuorum(x, i)
             \/ x.primaryDeclarations[i] = e.primaryDeclarations[i]
       \/ /\ e.primaryName[i] = None /\ hasPrimaryQuorum(x, i)
          /\ \E w \in MostCommon(x.primaryDeclarations[i]) : x.primaryName[i] = w.name
          /\ x.replicaNominatedForItself = (IF e.replicaNominatedForItself = i THEN None
                                            ELSE e.replicaNominatedForItself)
          /\ Willing(n, x)

LEMMA PrimaryHeard ==
    ASSUME NEW e \in Elector(0), e.previous_master_primary = None, NEW n \in Nodes,
           NEW s \in Nodes, NEW i \in Insts, NEW v \in Votes,
           NEW x \in processPrimary(n, e, VoteMsg("PRIMARY", i, v), s)
    PROVE  Noted(n, e, x, s, i, v)
<1>. DEFINE m == VoteMsg("PRIMARY", i, v)
            b == [e.primaryDeclarations EXCEPT ![i][s] = v]
            e1 == [e EXCEPT !.primaryDeclarations = b]
<1>0. m.instId = i /\ m.vote = v /\ v.name # None /\ m \in ElectionMsg /\ m.type = "PRIMARY"
  BY NoneIsNoVote, ViewNumbers DEF VoteMsg, Votes, ElectionMsg
<1>1. processPrimary(n, e, m, s) =
         IF e.primaryDeclarations[i][s] # None THEN {e}
         ELSE IF e.primaryName[i] # None \/ ~hasPrimaryQuorum(e1, i) THEN {e1}
         ELSE {primaryChanged(n, e1, i, w) : w \in MostCommon(e1.primaryDeclarations[i])}
  <2>1. ~LedBefore(e, m)
    BY <1>0 DEF LedBefore
  <2>. HIDE DEF m
  <2>. QED BY <1>0, <2>1 DEF processPrimary
<1>2. x \in Elector(0)
  <2>. HIDE DEF m
  <2>. QED BY <1>0, ViewNumbers, ProcessPrimaryType DEF m
<1>. HIDE DEF m
<1>3. CASE e.primaryDeclarations[i][s] # None
  <2>1. x = e
    BY <1>1, <1>3 DEF m
  <2>. QED BY <1>2, <1>3, <2>1 DEF Noted, Unheard
<1>. SUFFICES ASSUME e.primaryDeclarations[i][s] = None PROVE Noted(n, e, x, s, i, v)
  BY <1>3
<1>4. /\ b \in Ballots /\ \A j \in Insts \ {i} : b[j] = e.primaryDeclarations[j]
      /\ \A y \in Nodes : b[i][y] = IF y = s THEN v ELSE e.primaryDeclarations[i][y]
  BY DEF Elector, ElectorIn, Ballots
<1>. HIDE DEF b
<1>5. /\ e1 \in Elector(0) /\ e1.primaryDeclarations = b /\ Unheard(e, e1)
      /\ e1.nominations = e.nominations /\ e1.decide = e.decide /\ e1.out = e.out
      /\ e1.primaryName = e.primaryName /\ e1.start = e.start
      /\ e1.replicaNominatedForItself = e.replicaNominatedForItself
  BY <1>4 DEF Elector, ElectorIn, Unheard
<1>. HIDE DEF e1
<1>6. CASE e.primaryName[i] # None \/ ~hasPrimaryQuorum(e1, i)
  <2>1. x = e1
    BY <1>1, <1>6 DEF m
  <2>. QED BY <1>4, <1>5, <1>6, <2>1 DEF Noted
<1>7. CASE e.primaryName[i] = None /\ hasPrimaryQuorum(e1, i)
  <2>1. PICK w \in MostCommon(b[i]) : x = primaryChanged(n, e1, i, w)
    BY <1>1, <1>5, <1>7 DEF m
  <2>2. w \in Votes
    BY <1>4, MostCommonType DEF Ballots
  <2>. DEFINE p == [e1.primaryName EXCEPT ![i] = w.name]
              l == IF e1.lastOrdered < w.seq THEN w.seq ELSE e1.lastOrdered
              q == IF i = 0 THEN None ELSE e1.previous_master_primary
              r == IF e1.replicaNominatedForItself = i THEN None
                   ELSE e1.replicaNominatedForItself
              e2 == [e1 EXCEPT !.primaryName = p, !.lastOrdered = l,
                               !.previous_master_primary = q, !.replicaNominatedForItself = r]
  <2>3. x = scheduleElection(n, e2)
    BY <2>1 DEF primaryChanged
  <2>4. /\ p \in [Insts -> Nodes \cup {None}] /\ p[i] = w.name
        /\ \A j \in Insts \ {i} : p[j] = e1.primaryName[j]
    BY <1>5, <2>2 DEF Elector, ElectorIn, Votes
  <2>5. q = None /\ e1.previous_master_primary = None
    BY <1>5 DEF Unheard
  <2>6. r \in Insts \cup {None}
    BY <1>5 DEF Elector, ElectorIn
  <2>7. l \in Nat
    BY <1>5, <2>2 DEF Elector, ElectorIn, Votes
  <2>. HIDE DEF p, l, q, r
  <2>8. /\ e2 \in Elector(0) /\ e2.primaryDeclarations = b /\ e2.primaryName = p
        /\ Unheard(e1, e2) /\ e2.replicaNominatedForItself = r
        /\ e2.nominations = e1.nominations /\ e2.decide = e1.decide /\ e2.out = e1.out
    BY <1>5, <2>4, <2>5, <2>6, <2>7 DEF Elector, ElectorIn, Unheard
  <2>. HIDE DEF e2
  <2>9. Willing(n, x) /\ \E s1 \in BOOLEAN : x = [e2 EXCEPT !.start = s1]
    BY <2>3, <2>8, ScheduledIsWilling
  <2>10. /\ x.primaryDeclarations = b /\ x.primaryName = p
         /\ Unheard(e2, x) /\ x.replicaNominatedForItself = r
         /\ x.nominations = e2.nominations /\ x.decide = e2.decide /\ x.out = e2.out
    <3>1. PICK s1 \in BOOLEAN : x = [e2 EXCEPT !.start = s1]
      BY <2>9
    <3>. QED BY <2>8, <3>1 DEF Elector, ElectorIn, Unheard
  <2>11. Unheard(e, x)
    BY <1>5, <2>8, <2>10 DEF Unheard
  <2>12. hasPrimaryQuorum(x, i)
    BY <1>5, <1>7, <2>10 DEF hasPrimaryQuorum
  <2>13. \A j \in Insts \ {i} : x.primaryName[j] = e.primaryName[j]
    BY <1>5, <2>4, <2>10
  <2>14. x.replicaNominatedForItself = (IF e.replicaNominatedForItself = i THEN None
                                        ELSE e.replicaNominatedForItself)
    BY <1>5, <2>10 DEF r
  <2>. QED BY <1>2, <1>4, <1>5, <1>7, <2>1, <2>4, <2>8, <2>9, <2>10, <2>11, <2>12, <2>13, <2>14
           DEF Noted
<1>. QED BY <1>6, <1>7

\* What starting an election does not change.
Resumed(d, y) ==
    /\ y.viewNo = d.viewNo /\ y.participating = d.participating
    /\ y.nominations = d.nominations /\ y.primaryDeclarations = d.primaryDeclarations
    /\ y.reElectionProposals = d.reElectionProposals
    /\ y.reElectionRounds = d.reElectionRounds /\ y.timer = d.timer
    /\ y.previous_master_primary = d.previous_master_primary
    /\ y.primaryName = d.primaryName /\ y.lastOrdered = d.lastOrdered
    /\ y.decide = d.decide /\ y.start = d.start /\ y.delayed = d.delayed /\ y.out = d.out

\* If an election is due (b), startElection picks the replica k for the node to
\* nominate, and picks none (None) if it is not.
Picks(n, b, d, y, k) ==
    \/ k = None /\ y.replicaNominatedForItself = d.replicaNominatedForItself
    \/ /\ k \in Undecided(n, d) /\ b /\ d.participating
       /\ d.replicaNominatedForItself = None /\ ~hasPrimaryReplica(n, d)
       /\ y.replicaNominatedForItself = k

Begun(n, b, d, y) ==
    /\ y \in Elector(0) /\ Resumed(d, y)
    /\ \E k \in Insts \cup {None} :
          y.nominate = d.nominate \cup ({k} \ {None}) /\ Picks(n, b, d, y, k)
    /\ \/ ~b \/ ~d.participating \/ y.replicaNominatedForItself # None
       \/ hasPrimaryReplica(n, d) \/ Undecided(n, d) = {}

LEMMA ElectionBegun ==
    ASSUME NEW d \in Elector(0), NEW n \in Nodes, NEW b \in BOOLEAN,
           NEW y \in IF b THEN startElection(n, d) ELSE {d}
    PROVE  Begun(n, b, d, y)
<1>1. CASE y = d /\ (\/ ~b \/ ~d.participating \/ d.replicaNominatedForItself # None
                     \/ hasPrimaryReplica(n, d) \/ Undecided(n, d) = {})
  <2>1. d.nominate = d.nominate \cup ({None} \ {None}) /\ Picks(n, b, d, d, None)
    BY DEF Picks
  <2>. QED BY <1>1, <2>1 DEF Begun, Resumed
<1>2. ASSUME NEW k \in Undecided(n, d), b, d.participating, d.replicaNominatedForItself = None,
             ~hasPrimaryReplica(n, d),
             y = [d EXCEPT !.replicaNominatedForItself = k, !.nominate = @ \cup {k}]
      PROVE  Begun(n, b, d, y)
  <2>1. k \in Insts /\ k # None
    BY NoneIsNoVote DEF Undecided
  <2>2. /\ y \in Elector(0) /\ Resumed(d, y)
        /\ y.nominate = d.nominate \cup {k} /\ y.replicaNominatedForItself = k
    BY <1>2, <2>1 DEF Elector, ElectorIn, Resumed
  <2>3. {k} \ {None} = {k}
    BY <2>1
  <2>4. Picks(n, b, d, y, k)
    BY <1>2, <2>2 DEF Picks
  <2>. QED BY <2>1, <2>2, <2>3, <2>4 DEF Begun
<1>3. \/ y = d /\ (\/ ~b \/ ~d.participating \/ d.replicaNominatedForItself # None
                   \/ hasPrimaryReplica(n, d) \/ Undecided(n, d) = {})
      \/ \E k \in Undecided(n, d) :
            /\ b /\ d.participating /\ d.replicaNominatedForItself = None
            /\ ~hasPrimaryReplica(n, d)
            /\ y = [d EXCEPT !.replicaNominatedForItself = k, !.nominate = @ \cup {k}]
  BY DEF startElection, nominateRandomReplica
<1>. QED BY <1>1, <1>2, <1>3

-----------------------------------------------------------------------------
\* An elector e that has become x by running what was scheduled.
Acted(n, e, x) ==
    /\ x \in Elector(0)
    /\ x.viewNo = e.viewNo /\ x.participating = e.participating
    /\ x.primaryName = e.primaryName
    /\ x.previous_master_primary = e.previous_master_primary /\ x.delayed = e.delayed
    /\ x.decide = {} /\ x.nominate = {} /\ x.start = FALSE
    /\ \A j \in Insts : x.reElectionProposals[j] = e.reElectionProposals[j]
    /\ \A j \in Insts :
          IF j \in e.decide THEN Outcome(n, e, x, j)
          ELSE x.primaryDeclarations[j] = e.primaryDeclarations[j] /\ x.timer[j] = e.timer[j]
    /\ \E k \in Insts \cup {None} :
          /\ Picks(n, e.start, e, x, k)
          /\ \A j \in Insts :
                x.nominations[j] = IF j \in e.nominate \cup {k} /\ e.nominations[j][n] = None
                                   THEN [e.nominations[j] EXCEPT ![n] = SelfVote(n, e)]
                                   ELSE e.nominations[j]
    /\ \A m : Holds(x.out, m) <=> Holds(e.out, m) \/ Announced(n, e, x, m) \/ Proposed(n, e, x, m)
    /\ Willing(n, e) => Willing(n, x)

LEMMA ActionsRun ==
    ASSUME NEW e \in Elector(0), NEW n \in Nodes, pool.instances \in Nat,
           \A j \in Insts : e.reElectionProposals[j][n] = None,
           NEW x \in _serviceActions(n, e)
    PROVE  SameRounds(e, x) => Acted(n, e, x)
<1>. DEFINE e0 == [e EXCEPT !.decide = {}, !.start = FALSE]
            d == decideAll(n, e0, e.decide)
            ds == IF e.start THEN startElection(n, d) ELSE {d}
            un(y) == [y EXCEPT !.nominate = {}]
<1>0. e.decide \subseteq Insts /\ e.nominate \subseteq Insts /\ e.start \in BOOLEAN
  BY DEF Elector, ElectorIn
<1>1. /\ e0 \in Elector(0) /\ e0.decide = {} /\ e0.start = FALSE
      /\ e0.viewNo = e.viewNo /\ e0.participating = e.participating
      /\ e0.nominations = e.nominations /\ e0.primaryDeclarations = e.primaryDeclarations
      /\ e0.reElectionProposals = e.reElectionProposals
      /\ e0.reElectionRounds = e.reElectionRounds /\ e0.timer = e.timer
      /\ e0.replicaNominatedForItself = e.replicaNominatedForItself
      /\ e0.previous_master_primary = e.previous_master_primary
      /\ e0.primaryName = e.primaryName /\ e0.lastOrdered = e.lastOrdered
      /\ e0.nominate = e.nominate /\ e0.delayed = e.delayed /\ e0.out = e.out
  BY DEF Elector, ElectorIn
<1>2. PICK y \in ds : x = nominateAll(n, un(y), y.nominate)
  BY DEF _serviceActions
<1>. HIDE DEF e0
<1>3. d \in Elector(0) /\ (SameRounds(e0, d) => DecidedUpTo(n, e0, d, e.decide, pool.instances))
  BY <1>1, DecideAllEffect
<1>. HIDE DEF d
<1>4. Begun(n, e.start, d, y)
  BY <1>0, <1>3, ElectionBegun
<1>. HIDE DEF ds
<1>. DEFINE z == un(y)
<1>5. z \in Elector(0) /\ z.nominate = {} /\ Resumed(y, z)
      /\ z.replicaNominatedForItself = y.replicaNominatedForItself
  BY <1>4 DEF Elector, ElectorIn, Resumed, Begun
<1>. HIDE DEF un
<1>6. Named(n, z, x, y.nominate)
  <2>1. y.nominate \subseteq Insts
    BY <1>4 DEF Elector, ElectorIn, Begun
  <2>. HIDE DEF z
  <2>. QED BY <1>2, <1>5, <2>1, NameAll DEF z
<1>. HIDE DEF z
<1>. SUFFICES ASSUME SameRounds(e, x) PROVE Acted(n, e, x)
  OBVIOUS
<1>7. DecidedUpTo(n, e0, d, e.decide, pool.instances)
  <2>1. x.reElectionRounds = d.reElectionRounds
    BY <1>4, <1>5, <1>6 DEF Named, Kept, Begun, Resumed
  <2>. QED BY <1>1, <1>3, <2>1 DEF SameRounds
<1>8. /\ x \in Elector(0) /\ x.participating = e.participating /\ x.primaryName = e.primaryName
      /\ x.viewNo = e.viewNo
      /\ x.previous_master_primary = e.previous_master_primary /\ x.delayed = e.delayed
      /\ x.decide = {} /\ x.nominate = {} /\ x.start = FALSE
      /\ x.reElectionProposals = d.reElectionProposals
      /\ x.primaryDeclarations = d.primaryDeclarations /\ x.timer = d.timer
      /\ x.replicaNominatedForItself = y.replicaNominatedForItself
      /\ z.nominations = e.nominations /\ z.lastOrdered = e.lastOrdered
      /\ z.out = d.out
  BY <1>1, <1>4, <1>5, <1>6, <1>7 DEF Named, Kept, Begun, Resumed, DecidedUpTo, Steady
<1>9. \A j \in Insts : x.reElectionProposals[j] = e.reElectionProposals[j]
  BY <1>1, <1>7, <1>8 DEF DecidedUpTo
<1>10. ASSUME NEW j \in Insts
       PROVE  IF j \in e.decide THEN Outcome(n, e, x, j)
              ELSE x.primaryDeclarations[j] = e.primaryDeclarations[j] /\ x.timer[j] = e.timer[j]
  <2>1. j < pool.instances
    BY DEF Insts
  <2>2. Outcome(n, e0, d, j) => Outcome(n, e, x, j)
    <3>1. /\ hasNominationQuorum(e0, j) = hasNominationQuorum(e, j)
          /\ hasNominationsFromAll(e0, j) = hasNominationsFromAll(e, j)
      BY <1>1 DEF hasNominationQuorum, hasNominationsFromAll
    <3>2. \A v : Decides(n, e0, j, v) = Decides(n, e, j, v)
      BY <1>1, <3>1 DEF Decides
    <3>. QED BY <1>1, <1>8, <3>1, <3>2 DEF Outcome
  <2>. QED BY <1>1, <1>7, <1>8, <2>1, <2>2 DEF DecidedUpTo, SameAt
<1>11. /\ d.participating = e.participating /\ d.primaryName = e.primaryName
       /\ d.previous_master_primary = e.previous_master_primary
       /\ d.replicaNominatedForItself = e.replicaNominatedForItself
       /\ d.nominate = e.nominate
  BY <1>1, <1>7 DEF DecidedUpTo, Steady
<1>12. \A u : u.primaryName = e.primaryName /\ u.previous_master_primary = e.previous_master_primary
              => Undecided(n, u) = Undecided(n, e) /\ hasPrimaryReplica(n, u) = hasPrimaryReplica(n, e)
  BY DEF Undecided, hasPrimaryReplica, was_master_primary_in_prev_view
<1>13. \E k \in Insts \cup {None} :
          /\ Picks(n, e.start, e, x, k)
          /\ \A j \in Insts :
                x.nominations[j] = IF j \in e.nominate \cup {k} /\ e.nominations[j][n] = None
                                   THEN [e.nominations[j] EXCEPT ![n] = SelfVote(n, e)]
                                   ELSE e.nominations[j]
  <2>1. PICK k \in Insts \cup {None} :
            y.nominate = d.nominate \cup ({k} \ {None}) /\ Picks(n, e.start, d, y, k)
    BY <1>4 DEF Begun
  <2>2. Undecided(n, d) = Undecided(n, e) /\ hasPrimaryReplica(n, d) = hasPrimaryReplica(n, e)
    BY <1>11, <1>12
  <2>3. Picks(n, e.start, e, x, k)
    BY <1>8, <1>11, <2>1, <2>2 DEF Picks
  <2>4. SelfVote(n, z) = SelfVote(n, e)
    BY <1>8 DEF SelfVote
  <2>5. \A j \in Insts : j \in y.nominate <=> j \in e.nominate \cup {k}
    BY <1>11, <2>1, NoneIsNoVote
  <2>6. ASSUME NEW j \in Insts
        PROVE  x.nominations[j] = IF j \in e.nominate \cup {k} /\ e.nominations[j][n] = None
                                   THEN [e.nominations[j] EXCEPT ![n] = SelfVote(n, e)]
                                   ELSE e.nominations[j]
    <3>1. x.nominations[j] = IF j \in y.nominate /\ z.nominations[j][n] = None
                             THEN [z.nominations[j] EXCEPT ![n] = SelfVote(n, z)]
                             ELSE z.nominations[j]
      BY <1>6 DEF Named
    <3>. QED BY <1>8, <2>4, <2>5, <3>1
  <2>. QED BY <2>3, <2>6
<1>14. ASSUME NEW m
       PROVE  Holds(x.out, m) <=> Holds(e.out, m) \/ Announced(n, e, x, m) \/ Proposed(n, e, x, m)
  <2>1. Holds(x.out, m) <=> Holds(d.out, m) \/ Proposed(n, z, x, m)
    BY <1>6, <1>8 DEF Named
  <2>2. Holds(d.out, m) <=> Holds(e.out, m) \/ Announced(n, e0, d, m)
    BY <1>1, <1>7 DEF DecidedUpTo
  <2>3. Proposed(n, z, x, m) <=> Proposed(n, e, x, m)
    BY <1>8 DEF Proposed
  <2>4. Announced(n, e0, d, m) <=> Announced(n, e, x, m)
    BY <1>1, <1>8 DEF Announced
  <2>. QED BY <2>1, <2>2, <2>3, <2>4
<1>15. Willing(n, e) => Willing(n, x)
  <2>1. /\ Undecided(n, d) = Undecided(n, e) /\ hasPrimaryReplica(n, d) = hasPrimaryReplica(n, e)
        /\ Undecided(n, x) = Undecided(n, e) /\ hasPrimaryReplica(n, x) = hasPrimaryReplica(n, e)
    BY <1>8, <1>11, <1>12
  <2>2. x.replicaNominatedForItself # None \/ x.replicaNominatedForItself = e.replicaNominatedForItself
    <3>1. PICK k \in Insts \cup {None} : Picks(n, e.start, e, x, k)
      BY <1>13
    <3>2. k \in Undecided(n, e) => k # None
      BY NoneIsNoVote DEF Undecided
    <3>. QED BY <3>1, <3>2 DEF Picks
  <2>3. \/ ~e.start \/ ~e.participating \/ x.replicaNominatedForItself # None
        \/ hasPrimaryReplica(n, e) \/ Undecided(n, e) = {}
    BY <1>4, <1>8, <1>11, <2>1 DEF Begun
  <2>. QED BY <1>8, <2>1, <2>2, <2>3 DEF Willing
<1>. QED BY <1>8, <1>9, <1>10, <1>13, <1>14, <1>15 DEF Acted

VoteTypes == {"NOMINATE", "PRIMARY"}
BallotsOf(t, e) == IF t = "NOMINATE" THEN e.nominations ELSE e.primaryDeclarations

\* An elector that knows of no previous view and of no further round.
Plain(e) ==
    /\ e \in Elector(0) /\ e.previous_master_primary = None /\ e.delayed = {}
    /\ \A j \in Insts : e.reElectionProposals[j] = NoVotes

\* The votes of other nodes: what x has not from e it has heard from s (H holds
\* the message that s has sent, if any), and what s has sent it has.
Hears(n, e, x, s, H) ==
    \A t \in VoteTypes, j \in Insts, y \in Nodes \ {n} :
        /\ BallotsOf(t, x)[j][y] # BallotsOf(t, e)[j][y]
             => /\ BallotsOf(t, e)[j][y] = None /\ y = s
                /\ VoteMsg(t, j, BallotsOf(t, x)[j][y]) \in H
        /\ y = s /\ (\E v \in Votes : VoteMsg(t, j, v) \in H) => BallotsOf(t, x)[j][y] # None

\* Its own votes stand, and it sends exactly the new ones.
Cast(n, e, x, t, j) == BallotsOf(t, e)[j][n] = None /\ BallotsOf(t, x)[j][n] # None
Speaks(n, e, x, o) ==
    /\ \A t \in VoteTypes, j \in Insts :
          BallotsOf(t, e)[j][n] # None => BallotsOf(t, x)[j][n] = BallotsOf(t, e)[j][n]
    /\ \A m : Holds(o, m) <=> \E t \in VoteTypes, j \in Insts :
                                 Cast(n, e, x, t, j) /\ m = VoteMsg(t, j, BallotsOf(t, x)[j][n])

SameOthers(n, a, b) == \A y \in Nodes \ {n} : a[y] = b[y]

\* It nominates itself or whom it has heard nominated, and before it counts a
\* nomination it makes its own.
Supports(n, e, x, H) ==
    \A j \in Insts :
        /\ Cast(n, e, x, "NOMINATE", j)
             => \/ x.nominations[j][n].name = n
                \/ VoteMsg("NOMINATE", j, x.nominations[j][n]) \in H
        /\ ~SameOthers(n, x.nominations[j], e.nominations[j]) => x.nominations[j][n] # None

\* It declares what its nominations decide, when a decision is due.
Declares(n, e, x) ==
    \A j \in Insts :
        /\ Cast(n, e, x, "PRIMARY", j)
             => Decides(n, e, j, x.primaryDeclarations[j][n]) /\ x.timer[j] = "none"
        /\ x.timer[j] # "none"
             => \/ /\ x.timer[j] = e.timer[j]
                   /\ x.primaryDeclarations[j][n] = e.primaryDeclarations[j][n]
                \/ /\ x.timer[j] = "running" /\ hasNominationQuorum(e, j)
                   /\ x.primaryDeclarations[j][n] = None
        /\ hasNominationQuorum(x, j) /\ hasNominationsFromAll(x, j)
           /\ x.primaryDeclarations[j][n] = None
             => \/ j \in x.decide
                \/ /\ SameOthers(n, x.nominations[j], e.nominations[j])
                   /\ j \notin e.decide \/ e.nominations[j][n] = None

\* It takes for the primary of an instance the winner of 2f+1 declarations, when
\* another node's declaration comes in.
Follows(n, e, x, H) ==
    \A j \in Insts :
        /\ x.primaryName[j] # e.primaryName[j]
             => /\ e.primaryName[j] = None /\ hasPrimaryQuorum(x, j)
                /\ \E w \in MostCommon(x.primaryDeclarations[j]) : x.primaryName[j] = w.name
                /\ \E v \in Votes : VoteMsg("PRIMARY", j, v) \in H
        /\ x.primaryName[j] = None /\ hasPrimaryQuorum(x, j)
             => SameOthers(n, x.primaryDeclarations[j], e.primaryDeclarations[j])

\* The instances in which a node proposes its own replica.
SelfProposed(n, e) ==
    {i \in Insts : \/ i \in e.nominate
                   \/ e.nominations[i][n] # None /\ e.nominations[i][n].name = n}

\* It proposes one after the other: while one is undecided, and once it leads.
SelfOK(n, e) ==
    /\ \A i \in SelfProposed(n, e) :
          e.primaryName[i] # None \/ e.replicaNominatedForItself = i
    /\ e.replicaNominatedForItself # None
         => /\ e.primaryName[e.replicaNominatedForItself] = None
            /\ \/ e.replicaNominatedForItself \in e.nominate
               \/ e.nominations[e.replicaNominatedForItself][n] # None
    /\ \A i, j \in SelfProposed(n, e) :
          i # j => e.primaryName[i] \notin {None, n} \/ e.primaryName[j] \notin {None, n}

\* One turn of the elector of n: e becomes x and sends o, having heard H from s.
Turn(n, e, x, o, s, H) ==
    /\ Plain(x) /\ (e.participating => x.participating)
    /\ Hears(n, e, x, s, H) /\ Speaks(n, e, x, o) /\ Supports(n, e, x, H)
    /\ Declares(n, e, x) /\ Follows(n, e, x, H)
    /\ SelfOK(n, e) => SelfOK(n, x)
    /\ Willing(n, e) => Willing(n, x)

LEMMA VoteMsgInjective ==
    ASSUME NEW t, NEW u, NEW i, NEW j, NEW v, NEW w, VoteMsg(t, i, v) = VoteMsg(u, j, w)
    PROVE  t = u /\ i = j /\ v = w
BY DEF VoteMsg

LEMMA TurnNominate ==
    ASSUME NEW e, Plain(e), e.out = <<>>, NEW n \in Nodes,
           NEW s \in Nodes \ {n}, NEW i \in Insts, NEW v \in Votes, NEW x, Nominated(n, e, x, s, i, v),
           v.name = n => e.nominations[i][n] # None
    PROVE  Turn(n, e, x, x.out, s, {VoteMsg("NOMINATE", i, v)})
<1>. DEFINE H == {VoteMsg("NOMINATE", i, v)}
<1>0. \A t, j, w : VoteMsg(t, j, w) \in H <=> t = "NOMINATE" /\ j = i /\ w = v
  BY VoteMsgInjective
<1>00. v # None /\ None \notin Nodes /\ v.name \in Nodes
  BY NoneIsNoVote DEF Votes
<1>. HIDE DEF H
<1>1. Plain(x)
  BY DEF Nominated, Unheard, Plain
<1>2. Hears(n, e, x, s, H)
  <2>. SUFFICES ASSUME NEW t \in VoteTypes, NEW j \in Insts, NEW y \in Nodes \ {n}
                PROVE  /\ BallotsOf(t, x)[j][y] # BallotsOf(t, e)[j][y]
                            => /\ BallotsOf(t, e)[j][y] = None /\ y = s
                               /\ VoteMsg(t, j, BallotsOf(t, x)[j][y]) \in H
                       /\ y = s /\ (\E w \in Votes : VoteMsg(t, j, w) \in H)
                            => BallotsOf(t, x)[j][y] # None
    BY DEF Hears
  <2>. QED BY <1>0, <1>00 DEF VoteTypes, BallotsOf, Nominated
<1>3. \A j \in Insts : Cast(n, e, x, "NOMINATE", j) <=> j = i /\ e.nominations[i][n] = None
  BY <1>00 DEF Cast, BallotsOf, Nominated
<1>4. \A j \in Insts : ~Cast(n, e, x, "PRIMARY", j)
  BY DEF Cast, BallotsOf, Nominated
<1>5. Speaks(n, e, x, x.out)
  <2>1. ASSUME NEW t \in VoteTypes, NEW j \in Insts, BallotsOf(t, e)[j][n] # None
        PROVE  BallotsOf(t, x)[j][n] = BallotsOf(t, e)[j][n]
    BY <2>1 DEF VoteTypes, BallotsOf, Nominated
  <2>2. ASSUME NEW m
        PROVE  Holds(x.out, m) <=> \E t \in VoteTypes, j \in Insts :
                                 Cast(n, e, x, t, j) /\ m = VoteMsg(t, j, BallotsOf(t, x)[j][n])
    <3>1. Holds(x.out, m) <=> e.nominations[i][n] = None /\ m = VoteMsg("NOMINATE", i, v)
      BY HoldsEmpty DEF Nominated
    <3>2. e.nominations[i][n] = None => BallotsOf("NOMINATE", x)[i][n] = v
      BY DEF BallotsOf, Nominated
    <3>. QED BY <1>3, <1>4, <3>1, <3>2 DEF VoteTypes
  <2>. QED BY <2>1, <2>2 DEF Speaks
<1>6. Supports(n, e, x, H)
  <2>. SUFFICES ASSUME NEW j \in Insts
                PROVE  /\ Cast(n, e, x, "NOMINATE", j)
                             => \/ x.nominations[j][n].name = n
                                \/ VoteMsg("NOMINATE", j, x.nominations[j][n]) \in H
                       /\ ~SameOthers(n, x.nominations[j], e.nominations[j])
                             => x.nominations[j][n] # None
    BY DEF Supports
  <2>. QED BY <1>0, <1>00, <1>3 DEF SameOthers, Nominated
<1>7. Declares(n, e, x)
  <2>. SUFFICES ASSUME NEW j \in Insts, hasNominationQuorum(x, j),
                       x.primaryDeclarations[j][n] = None
                PROVE  \/ j \in x.decide
                       \/ /\ SameOthers(n, x.nominations[j], e.nominations[j])
                          /\ j \notin e.decide \/ e.nominations[j][n] = None
    BY <1>4 DEF Declares, Nominated, Unheard
  <2>1. CASE j # i
    BY <2>1 DEF SameOthers, Nominated
  <2>2. CASE j = i /\ e.nominations[i][s] = None
    <3>1. x.reElectionProposals[i][n] = None
      BY <1>1 DEF Plain, NoVotes
    <3>. QED BY <2>2, <3>1 DEF Nominated, Decided
  <2>3. CASE j = i /\ e.nominations[i][s] # None
    BY <2>3 DEF SameOthers, Nominated
  <2>. QED BY <2>1, <2>2, <2>3
<1>8. Follows(n, e, x, H)
  BY DEF Follows, SameOthers, Nominated
<1>9. Willing(n, e) => Willing(n, x)
  BY DEF Willing, hasPrimaryReplica, Undecided, was_master_primary_in_prev_view, Nominated, Unheard
<1>10. SelfProposed(n, x) = SelfProposed(n, e)
  <2>1. ASSUME NEW j \in Insts
        PROVE  x.nominations[j][n] # None /\ x.nominations[j][n].name = n
               <=> e.nominations[j][n] # None /\ e.nominations[j][n].name = n
    BY <1>00 DEF Nominated
  <2>. QED BY <2>1 DEF SelfProposed, Nominated, Unheard
<1>11. SelfOK(n, e) => SelfOK(n, x)
  <2>1. \A j \in Insts : e.nominations[j][n] # None => x.nominations[j][n] # None
    BY DEF Nominated
  <2>2. e.replicaNominatedForItself # None => e.replicaNominatedForItself \in Insts
    BY DEF Plain, Elector, ElectorIn
  <2>. QED BY <1>10, <2>1, <2>2 DEF SelfOK, Nominated, Unheard
<1>. QED BY <1>1, <1>2, <1>5, <1>6, <1>7, <1>8, <1>9, <1>11 DEF Turn, H, Nominated, Unheard

LEMMA TurnPrimary ==
    ASSUME NEW e, Plain(e), e.out = <<>>, NEW n \in Nodes,
           NEW s \in Nodes \ {n}, NEW i \in Insts, NEW v \in Votes, NEW x, Noted(n, e, x, s, i, v)
    PROVE  Turn(n, e, x, x.out, s, {VoteMsg("PRIMARY", i, v)})
<1>. DEFINE H == {VoteMsg("PRIMARY", i, v)}
<1>0. \A t, j, w : VoteMsg(t, j, w) \in H <=> t = "PRIMARY" /\ j = i /\ w = v
  BY VoteMsgInjective
<1>00. v # None
  BY NoneIsNoVote
<1>. HIDE DEF H
<1>1. Plain(x)
  BY DEF Noted, Unheard, Plain
<1>2. Hears(n, e, x, s, H)
  <2>. SUFFICES ASSUME NEW t \in VoteTypes, NEW j \in Insts, NEW y \in Nodes \ {n}
                PROVE  /\ BallotsOf(t, x)[j][y] # BallotsOf(t, e)[j][y]
                            => /\ BallotsOf(t, e)[j][y] = None /\ y = s
                               /\ VoteMsg(t, j, BallotsOf(t, x)[j][y]) \in H
                       /\ y = s /\ (\E w \in Votes : VoteMsg(t, j, w) \in H)
                            => BallotsOf(t, x)[j][y] # None
    BY DEF Hears
  <2>. QED BY <1>0, <1>00 DEF VoteTypes, BallotsOf, Noted
<1>3. \A t \in VoteTypes, j \in Insts : BallotsOf(t, x)[j][n] = BallotsOf(t, e)[j][n]
  BY DEF VoteTypes, BallotsOf, Noted
<1>4. \A t \in VoteTypes, j \in Insts : ~Cast(n, e, x, t, j)
  BY <1>3 DEF Cast
<1>5. Speaks(n, e, x, x.out)
  <2>1. \A m : ~Holds(x.out, m)
    BY HoldsEmpty DEF Noted
  <2>. QED BY <1>3, <1>4, <2>1 DEF Speaks
<1>6. Supports(n, e, x, H)
  BY <1>4 DEF Supports, SameOthers, Noted, VoteTypes
<1>7. Declares(n, e, x)
  <2>1. \A j \in Insts : ~Cast(n, e, x, "PRIMARY", j)
    BY <1>4 DEF VoteTypes
  <2>2. \A j \in Insts : x.primaryDeclarations[j][n] = e.primaryDeclarations[j][n]
    BY DEF Noted
  <2>3. \A j \in Insts : \/ j \in x.decide
                         \/ /\ SameOthers(n, x.nominations[j], e.nominations[j])
                            /\ j \notin e.decide \/ e.nominations[j][n] = None
    BY DEF SameOthers, Noted
  <2>4. x.timer = e.timer
    BY DEF Noted, Unheard
  <2>. QED BY <2>1, <2>2, <2>3, <2>4 DEF Declares
<1>8. Follows(n, e, x, H)
  <2>. SUFFICES ASSUME NEW j \in Insts
                PROVE /\ x.primaryName[j] # e.primaryName[j]
                           => /\ e.primaryName[j] = None /\ hasPrimaryQuorum(x, j)
                              /\ \E w \in MostCommon(x.primaryDeclarations[j]) :
                                    x.primaryName[j] = w.name
                              /\ \E w \in Votes : VoteMsg("PRIMARY", j, w) \in H
                      /\ x.primaryName[j] = None /\ hasPrimaryQuorum(x, j)
                           => SameOthers(n, x.primaryDeclarations[j], e.primaryDeclarations[j])
    BY DEF Follows
  <2>1. CASE j # i
    BY <2>1 DEF SameOthers, Noted
  <2>2. CASE j = i
    <3>1. \E w \in Votes : VoteMsg("PRIMARY", j, w) \in H
      BY <1>0, <2>2
    <3>2. \A w \in MostCommon(x.primaryDeclarations[i]) : w.name # None
      <4>1. x.primaryDeclarations[i] \in [Nodes -> Votes \cup {None}]
        BY <1>1 DEF Plain, Elector, ElectorIn, Ballots
      <4>. QED BY <4>1, MostCommonType, NoneIsNoVote DEF Votes
    <3>. QED BY <2>2, <3>1, <3>2 DEF SameOthers, Noted
  <2>. QED BY <2>1, <2>2
<1>9. Willing(n, e) => Willing(n, x)
  <2>1. CASE x.primaryName[i] = e.primaryName[i] /\ x.start = e.start
             /\ x.replicaNominatedForItself = e.replicaNominatedForItself
    <3>1. \A j \in Insts : x.primaryName[j] = e.primaryName[j]
      BY <2>1 DEF Noted
    <3>. QED BY <2>1, <3>1 DEF Willing, hasPrimaryReplica, Undecided,
                                was_master_primary_in_prev_view, Noted, Unheard
  <2>. QED BY <2>1 DEF Noted
<1>10. SelfProposed(n, x) = SelfProposed(n, e)
  BY DEF SelfProposed, Noted, Unheard
<1>11. SelfOK(n, e) => SelfOK(n, x)
  <2>1. e.replicaNominatedForItself # None => e.replicaNominatedForItself \in Insts
    BY DEF Plain, Elector, ElectorIn
  <2>2. CASE x.primaryName[i] = e.primaryName[i]
             /\ x.replicaNominatedForItself = e.replicaNominatedForItself
    <3>1. \A j \in Insts : x.primaryName[j] = e.primaryName[j]
      BY <2>2 DEF Noted
    <3>2. x.nominate = e.nominate /\ x.nominations = e.nominations
      BY DEF Noted, Unheard
    <3>3. SelfProposed(n, e) \subseteq Insts
      BY DEF SelfProposed
    <3>. QED BY <1>10, <2>1, <2>2, <3>1, <3>2, <3>3 DEF SelfOK
  <2>3. CASE e.primaryName[i] = None /\ x.primaryName[i] # None
             /\ x.replicaNominatedForItself = (IF e.replicaNominatedForItself = i THEN None
                                               ELSE e.replicaNominatedForItself)
    <3>1. \A j \in Insts \ {i} : x.primaryName[j] = e.primaryName[j]
      BY DEF Noted
    <3>2. x.nominate = e.nominate /\ x.nominations = e.nominations
      BY DEF Noted, Unheard
    <3>3. SelfProposed(n, e) \subseteq Insts
      BY DEF SelfProposed
    <3>. QED BY <1>10, <2>1, <2>3, <3>1, <3>2, <3>3 DEF SelfOK
  <2>4. \A w \in MostCommon(x.primaryDeclarations[i]) : w.name # None
    <3>1. x.primaryDeclarations[i] \in [Nodes -> Votes \cup {None}]
      BY <1>1 DEF Plain, Elector, ElectorIn, Ballots
    <3>. QED BY <3>1, MostCommonType, NoneIsNoVote DEF Votes
  <2>. QED BY <2>2, <2>3, <2>4 DEF Noted
<1>. QED BY <1>1, <1>2, <1>5, <1>6, <1>7, <1>8, <1>9, <1>11 DEF Turn, H, Noted, Unheard

LEMMA TurnRun ==
    ASSUME NEW e, Plain(e), e.out = <<>>, NEW n \in Nodes, NEW x, Acted(n, e, x)
    PROVE  Turn(n, e, x, x.out, n, {})
<1>0. e \in Elector(0) /\ x \in Elector(0) /\ SelfVote(n, e) # None /\ SelfVote(n, e).name = n
  BY SelfVoteType DEF Plain, Acted
<1>00. /\ e.primaryDeclarations \in Ballots /\ e.nominations \in Ballots
       /\ e.replicaNominatedForItself \in Insts \cup {None} /\ None \notin Votes
       /\ e.nominate \subseteq Insts
  BY NoneIsNoVote DEF Plain, Elector, ElectorIn
<1>1. Plain(x)
  BY DEF Acted, Plain
<1>2. PICK k \in Insts \cup {None} :
          /\ Picks(n, e.start, e, x, k)
          /\ \A j \in Insts :
                x.nominations[j] = IF j \in e.nominate \cup {k} /\ e.nominations[j][n] = None
                                   THEN [e.nominations[j] EXCEPT ![n] = SelfVote(n, e)]
                                   ELSE e.nominations[j]
  BY DEF Acted
<1>3. ASSUME NEW j \in Insts
      PROVE  /\ SameOthers(n, x.nominations[j], e.nominations[j])
             /\ x.nominations[j][n] = IF j \in e.nominate \cup {k} /\ e.nominations[j][n] = None
                                      THEN SelfVote(n, e) ELSE e.nominations[j][n]
             /\ e.nominations[j][n] # None => x.nominations[j] = e.nominations[j]
  <2>1. e.nominations[j] \in [Nodes -> Votes \cup {None}]
    BY <1>00 DEF Ballots
  <2>. QED BY <1>2, <2>1 DEF SameOthers
<1>4. ASSUME NEW j \in Insts
      PROVE  /\ SameOthers(n, x.primaryDeclarations[j], e.primaryDeclarations[j])
             /\ e.primaryDeclarations[j][n] # None
                  => x.primaryDeclarations[j][n] = e.primaryDeclarations[j][n]
             /\ Cast(n, e, x, "PRIMARY", j)
                  => Decides(n, e, j, x.primaryDeclarations[j][n]) /\ x.timer[j] = "none"
  <2>0. e.primaryDeclarations[j] \in [Nodes -> Votes \cup {None}]
    BY <1>00 DEF Ballots
  <2>1. CASE x.primaryDeclarations[j] = e.primaryDeclarations[j]
    BY <2>1 DEF SameOthers, Cast, BallotsOf
  <2>2. ASSUME NEW v \in Votes, Decides(n, e, j, v), x.timer[j] = "none",
               x.primaryDeclarations[j] = [e.primaryDeclarations[j] EXCEPT ![n] = v]
        PROVE  /\ SameOthers(n, x.primaryDeclarations[j], e.primaryDeclarations[j])
               /\ e.primaryDeclarations[j][n] = None
               /\ Decides(n, e, j, x.primaryDeclarations[j][n]) /\ x.timer[j] = "none"
    BY <2>0, <2>2 DEF SameOthers, Decides
  <2>. QED BY <2>1, <2>2 DEF Acted, Outcome
<1>5. Hears(n, e, x, n, {})
  BY <1>3, <1>4 DEF Hears, SameOthers, BallotsOf
<1>6. Speaks(n, e, x, x.out)
  <2>1. ASSUME NEW t \in VoteTypes, NEW j \in Insts, BallotsOf(t, e)[j][n] # None
        PROVE  BallotsOf(t, x)[j][n] = BallotsOf(t, e)[j][n]
    BY <1>3, <1>4, <2>1 DEF BallotsOf
  <2>2. ASSUME NEW m
        PROVE  Holds(x.out, m) <=> \E t \in VoteTypes, j \in Insts :
                                 Cast(n, e, x, t, j) /\ m = VoteMsg(t, j, BallotsOf(t, x)[j][n])
    <3>1. Holds(x.out, m) <=> Announced(n, e, x, m) \/ Proposed(n, e, x, m)
      BY HoldsEmpty DEF Acted
    <3>. QED BY <3>1 DEF Announced, Proposed, Cast, BallotsOf, VoteTypes
  <2>. QED BY <2>1, <2>2 DEF Speaks
<1>7. Supports(n, e, x, {})
  BY <1>0, <1>3 DEF Supports, Cast, BallotsOf
<1>8. Declares(n, e, x)
  <2>. SUFFICES ASSUME NEW j \in Insts
       PROVE
        /\ x.timer[j] # "none"
             => \/ /\ x.timer[j] = e.timer[j]
                   /\ x.primaryDeclarations[j][n] = e.primaryDeclarations[j][n]
                \/ /\ x.timer[j] = "running" /\ hasNominationQuorum(e, j)
                   /\ x.primaryDeclarations[j][n] = None
        /\ hasNominationQuorum(x, j) /\ hasNominationsFromAll(x, j)
           /\ x.primaryDeclarations[j][n] = None
             => j \notin e.decide \/ e.nominations[j][n] = None
    BY <1>3, <1>4 DEF Declares
  <2>1. CASE j \notin e.decide
    BY <2>1 DEF Acted
  <2>2. CASE j \in e.decide
    <3>1. Outcome(n, e, x, j)
      BY <2>2 DEF Acted
    <3>2. x.nominations[j] = e.nominations[j]
          => /\ hasNominationQuorum(x, j) = hasNominationQuorum(e, j)
             /\ hasNominationsFromAll(x, j) = hasNominationsFromAll(e, j)
      BY DEF hasNominationQuorum, hasNominationsFromAll
    <3>3. ASSUME NEW v \in Votes, x.timer[j] = "none",
                 x.primaryDeclarations[j] = [e.primaryDeclarations[j] EXCEPT ![n] = v]
          PROVE  x.primaryDeclarations[j][n] # None
      <4>1. e.primaryDeclarations[j] \in [Nodes -> Votes \cup {None}]
        BY <1>00 DEF Ballots
      <4>. QED BY <1>00, <3>3, <4>1
    <3>4. CASE \E v \in Votes : /\ x.timer[j] = "none"
                 /\ x.primaryDeclarations[j] = [e.primaryDeclarations[j] EXCEPT ![n] = v]
      BY <3>3, <3>4
    <3>5. CASE /\ x.primaryDeclarations[j] = e.primaryDeclarations[j]
               /\ \/ x.timer[j] = e.timer[j]
                  \/ /\ x.timer[j] = "running"
                     /\ e.primaryDeclarations[j][n] = None /\ hasNominationQuorum(e, j)
               /\ hasNominationQuorum(e, j) /\ hasNominationsFromAll(e, j)
                     => e.primaryDeclarations[j][n] # None
      BY <1>3, <3>2, <3>5
    <3>. QED BY <3>1, <3>4, <3>5 DEF Outcome
  <2>. QED BY <2>1, <2>2
<1>9. Follows(n, e, x, {})
  BY <1>4 DEF Follows, Acted
<1>10. SelfOK(n, e) => SelfOK(n, x)
  <2>. SUFFICES ASSUME SelfOK(n, e) PROVE SelfOK(n, x)
    OBVIOUS
  <2>1. x.primaryName = e.primaryName /\ x.nominate = {}
    BY DEF Acted
  <2>2. SelfProposed(n, x) \subseteq SelfProposed(n, e) \cup ({k} \ {None})
    <3>. SUFFICES ASSUME NEW j \in SelfProposed(n, x), j # k \/ k = None
                  PROVE  j \in SelfProposed(n, e)
      OBVIOUS
    <3>1. j \in Insts /\ x.nominations[j][n] # None /\ x.nominations[j][n].name = n
      BY <2>1 DEF SelfProposed
    <3>2. j # k
      BY <3>1, NoneIsNoVote
    <3>. QED BY <1>3, <3>1, <3>2 DEF SelfProposed
  <2>3. CASE k = None /\ x.replicaNominatedForItself = e.replicaNominatedForItself
    <3>1. \A j \in Insts : j \in e.nominate \/ e.nominations[j][n] # None => x.nominations[j][n] # None
      BY <1>0, <1>3
    <3>. QED BY <1>00, <2>1, <2>2, <2>3, <3>1 DEF SelfOK
  <2>4. CASE /\ k \in Undecided(n, e) /\ e.replicaNominatedForItself = None
             /\ ~hasPrimaryReplica(n, e) /\ x.replicaNominatedForItself = k
    <3>1. k \in Insts /\ e.primaryName[k] = None
      BY <2>4 DEF Undecided
    <3>2. x.nominations[k][n] # None
      BY <1>0, <1>3, <3>1
    <3>3. \A j \in SelfProposed(n, e) : e.primaryName[j] \notin {None, n}
      <4>1. SelfProposed(n, e) \subseteq Insts
        BY DEF SelfProposed
      <4>. QED BY <2>4, <4>1, NoneIsNoVote DEF SelfOK, hasPrimaryReplica
    <3>. QED BY <2>1, <2>2, <2>4, <3>1, <3>2, <3>3 DEF SelfOK
  <2>. QED BY <1>2, <2>3, <2>4 DEF Picks
<1>. QED BY <1>1, <1>5, <1>6, <1>7, <1>8, <1>9, <1>10 DEF Turn, Acted

\* A node that has caught up looks whether an election is due.
LEMMA TurnCaughtUp ==
    ASSUME NEW e, Plain(e), e.out = <<>>, NEW n \in Nodes, NEW b \in BOOLEAN, e.participating => b,
           NEW x, x = scheduleElection(n, [e EXCEPT !.participating = b])
    PROVE  Turn(n, e, x, <<>>, n, {}) /\ x.out = <<>>
<1>. DEFINE e1 == [e EXCEPT !.participating = b]
<1>1. e1 \in Elector(0)
  BY ZenonT(30) DEF Plain, Elector, ElectorIn
<1>2. Willing(n, x) /\ \E c \in BOOLEAN : x = [e1 EXCEPT !.start = c]
  <2>. HIDE DEF e1
  <2>. QED BY <1>1, ScheduledIsWilling DEF e1
<1>3. PICK c \in BOOLEAN : x = [e1 EXCEPT !.start = c]
  BY <1>2
<1>4. /\ x \in Elector(0) /\ x.nominations = e.nominations /\ x.out = <<>>
      /\ x.primaryDeclarations = e.primaryDeclarations /\ x.timer = e.timer
      /\ x.reElectionProposals = e.reElectionProposals
      /\ x.replicaNominatedForItself = e.replicaNominatedForItself
      /\ x.previous_master_primary = e.previous_master_primary
      /\ x.primaryName = e.primaryName /\ x.decide = e.decide /\ x.nominate = e.nominate
      /\ x.delayed = e.delayed /\ x.participating = b
  BY ZenonT(30), <1>3 DEF Plain, Elector, ElectorIn
<1>5. Plain(x)
  BY <1>4 DEF Plain
<1>6. \A t : BallotsOf(t, x) = BallotsOf(t, e)
  BY <1>4 DEF BallotsOf
<1>7. \A t, j : ~Cast(n, e, x, t, j)
  BY <1>6 DEF Cast
<1>8. Hears(n, e, x, n, {}) /\ Speaks(n, e, x, <<>>)
  BY <1>6, <1>7, HoldsEmpty DEF Hears, Speaks
<1>9. Supports(n, e, x, {}) /\ Declares(n, e, x) /\ Follows(n, e, x, {})
  BY <1>4, <1>7 DEF Supports, Declares, Follows, SameOthers
<1>10. SelfProposed(n, x) = SelfProposed(n, e)
  BY <1>4 DEF SelfProposed
<1>11. SelfOK(n, e) => SelfOK(n, x)
  BY <1>4, <1>10 DEF SelfOK
<1>. QED BY <1>2, <1>4, <1>5, <1>8, <1>9, <1>11 DEF Turn

\* What the elector has sent is taken out of its outBox.
LEMMA TurnStored ==
    ASSUME NEW e, NEW n \in Nodes, NEW x, NEW s, NEW H, Turn(n, e, x, x.out, s, H),
           NEW z, z = [x EXCEPT !.out = <<>>]
    PROVE  Turn(n, e, z, x.out, s, H) /\ z.out = <<>>
<1>1. /\ z \in Elector(0) /\ z.out = <<>> /\ z.nominations = x.nominations
      /\ z.primaryDeclarations = x.primaryDeclarations /\ z.timer = x.timer
      /\ z.reElectionProposals = x.reElectionProposals
      /\ z.replicaNominatedForItself = x.replicaNominatedForItself
      /\ z.previous_master_primary = x.previous_master_primary
      /\ z.primaryName = x.primaryName /\ z.decide = x.decide /\ z.nominate = x.nominate
      /\ z.delayed = x.delayed /\ z.participating = x.participating /\ z.start = x.start
  <2>1. x \in Elector(0)
    BY DEF Turn, Plain
  <2>2. <<>> \in Seq(ElectionMsg)
    OBVIOUS
  <2>. QED BY <2>1, <2>2 DEF Elector, ElectorIn
<1>2. Plain(z)
  BY <1>1 DEF Turn, Plain
<1>3. \A t : BallotsOf(t, z) = BallotsOf(t, x)
  BY <1>1 DEF BallotsOf
<1>4. \A t, j : Cast(n, e, z, t, j) = Cast(n, e, x, t, j)
  BY <1>3 DEF Cast
<1>5. Hears(n, e, z, s, H)
  BY <1>3 DEF Hears, Turn
<1>6. Speaks(n, e, z, x.out)
  BY <1>3, <1>4 DEF Speaks, Turn
<1>7. \A j : /\ hasNominationQuorum(z, j) = hasNominationQuorum(x, j)
             /\ hasNominationsFromAll(z, j) = hasNominationsFromAll(x, j)
             /\ hasPrimaryQuorum(z, j) = hasPrimaryQuorum(x, j)
  BY <1>1 DEF hasNominationQuorum, hasNominationsFromAll, hasPrimaryQuorum
<1>8. Supports(n, e, z, H)
  BY <1>1, <1>4 DEF Supports, Turn
<1>9. Declares(n, e, z)
  BY <1>1, <1>4, <1>7 DEF Declares, Turn
<1>10. Follows(n, e, z, H)
  BY <1>1, <1>7 DEF Follows, Turn
<1>11. SelfOK(n, z) = SelfOK(n, x)
  <2>1. SelfProposed(n, z) = SelfProposed(n, x)
    BY <1>1 DEF SelfProposed
  <2>. QED BY <1>1, <2>1 DEF SelfOK
<1>12. Willing(n, z) = Willing(n, x)
  BY <1>1 DEF Willing, hasPrimaryReplica, Undecided, was_master_primary_in_prev_view
<1>. QED BY <1>1, <1>2, <1>5, <1>6, <1>8, <1>9, <1>10, <1>11, <1>12 DEF Turn
-----------------------------------------------------------------------------
(* Rounds are never taken back, and the type of the state of Election.      *)

\* The rounds of an elector are R.
InRounds(e, R) == "reElectionRounds" \in DOMAIN e /\ e.reElectionRounds = R

LEMMA ElectorRounds ==
    ASSUME NEW e \in Elector(0)
    PROVE  InRounds(e, e.reElectionRounds) /\ e.reElectionRounds \in [Insts -> Nat]
BY DEF InRounds, Elector, ElectorIn

\* No message and no nomination takes an elector to another round.
LEMMA NominateRounds ==
    ASSUME NEW R, NEW e, InRounds(e, R), NEW n, NEW i
    PROVE  /\ \A v : InRounds(Nominate(n, e, i, v), R)
           /\ InRounds(nominateReplica(n, e, i), R)
           /\ InRounds(scheduleDecision(n, e, i), R)
           /\ InRounds(scheduleElection(n, e), R)
           /\ InRounds(setElectionDefaults(e, i), R)
           /\ InRounds(schedulePrimaryDecision(e, i), R)
           /\ \A v : InRounds(sendPrimary(n, e, i, v), R)
<1>1. \A v : InRounds(Nominate(n, e, i, v), R)
  BY DEF Nominate, send, InRounds
<1>2. InRounds(nominateReplica(n, e, i), R)
  BY <1>1 DEF nominateReplica
<1>3. InRounds(scheduleDecision(n, e, i), R)
  BY DEF scheduleDecision, InRounds
<1>4. InRounds(scheduleElection(n, e), R)
  <2>. DEFINE b == startElection(n, e) # {e}
  <2>1. scheduleElection(n, e) = [e EXCEPT !.start = b]
    BY DEF scheduleElection
  <2>. HIDE DEF b
  <2>. QED BY <2>1 DEF InRounds
<1>5. InRounds(setElectionDefaults(e, i), R)
  BY DEF setElectionDefaults, InRounds
<1>6. InRounds(schedulePrimaryDecision(e, i), R)
  BY DEF schedulePrimaryDecision, InRounds
<1>7. \A v : InRounds(sendPrimary(n, e, i, v), R)
  BY DEF sendPrimary, send, InRounds
<1>. QED BY <1>1, <1>2, <1>3, <1>4, <1>5, <1>6, <1>7

LEMMA HandleRounds ==
    ASSUME NEW R, NEW e, InRounds(e, R), NEW n, NEW s, NEW m \in ElectionMsg,
           NEW x \in Handle(n, e, m, s)
    PROVE  InRounds(x, R)
<1>. DEFINE i == m.instId
<1>1. CASE m.type = "NOMINATE"
  <2>. DEFINE own == IF didReplicaNominate(n, e, i) THEN e ELSE Nominate(n, e, i, m.vote)
              e1 == [own EXCEPT !.nominations[i][s] = m.vote]
  <2>1. x \in {e, own, scheduleDecision(n, e1, i)}
    BY <1>1 DEF Handle, processNominate
  <2>2. InRounds(own, R)
    BY NominateRounds
  <2>. HIDE DEF own
  <2>3. InRounds(e1, R)
    BY <2>2 DEF InRounds
  <2>. HIDE DEF e1
  <2>. QED BY <2>1, <2>2, <2>3, NominateRounds
<1>2. CASE m.type = "PRIMARY"
  <2>. DEFINE e1 == [e EXCEPT !.primaryDeclarations[i][s] = m.vote]
  <2>1. x \in {e, e1} \/ \E v : x = primaryChanged(n, e1, i, v)
    BY <1>2 DEF Handle, processPrimary
  <2>2. InRounds(e1, R)
    BY DEF InRounds
  <2>. HIDE DEF e1
  <2>3. ASSUME NEW v PROVE InRounds(primaryChanged(n, e1, i, v), R)
    <3>. DEFINE e2 == [e1 EXCEPT !.primaryName[i] = v.name,
                  !.lastOrdered = IF @ < v.seq THEN v.seq ELSE @,
                  !.previous_master_primary = IF i = 0 THEN None ELSE @,
                  !.replicaNominatedForItself = IF @ = i THEN None ELSE @]
    <3>1. InRounds(e2, R)
      BY <2>2 DEF InRounds
    <3>2. primaryChanged(n, e1, i, v) = scheduleElection(n, e2)
      BY DEF primaryChanged
    <3>. HIDE DEF e2
    <3>. QED BY <3>1, <3>2, NominateRounds
  <2>. QED BY <2>1, <2>2, <2>3
<1>3. CASE m.type = "REELECTION"
  <2>. DEFINE e1 == [e EXCEPT !.reElectionProposals[i][s] = m.tieAmong]
              e2 == setElectionDefaults(e1, i)
              e3 == [e2 EXCEPT !.delayed = @ \cup {i}]
  <2>1. x \in {e, e1, e2, e3, nominateReplica(n, e2, i)}
    BY <1>3 DEF Handle, processReelection
  <2>2. InRounds(e1, R)
    BY DEF InRounds
  <2>. HIDE DEF e1
  <2>3. InRounds(e2, R)
    BY <2>2, NominateRounds
  <2>. HIDE DEF e2
  <2>4. InRounds(e3, R)
    BY <2>3 DEF InRounds
  <2>. QED BY <2>1, <2>2, <2>3, <2>4, NominateRounds
<1>4. m.type \in {"NOMINATE", "PRIMARY", "REELECTION"}
  BY DEF ElectionMsg
<1>. QED BY <1>1, <1>2, <1>3, <1>4

\* A decision may take it to the next round, never back to an earlier one.
LEMMA DecideRounds ==
    ASSUME NEW e \in Elector(0), NEW n \in Nodes, NEW i \in Insts
    PROVE  Rounds(e, decidePrimary(n, e, i)) /\ decidePrimary(n, e, i) \in Elector(0)
<1>. DEFINE x == decidePrimary(n, e, i)
            r == [e.reElectionRounds EXCEPT ![i] = @ + 1]
<1>1. \/ x = e \/ (\E v : x = sendPrimary(n, e, i, v)) \/ x = schedulePrimaryDecision(e, i)
      \/ x = sendReelection(n, e, i, getPrimaryCandidates(e, i))
  BY DEF decidePrimary
<1>2. ASSUME NEW c PROVE InRounds(sendReelection(n, e, i, c), r)
  BY ElectorRounds DEF sendReelection, send, InRounds
<1>3. InRounds(x, e.reElectionRounds) \/ InRounds(x, r)
  <2>. HIDE DEF x, r
  <2>. QED BY <1>1, <1>2, ElectorRounds, NominateRounds
<1>4. \A j \in Insts : r[j] >= e.reElectionRounds[j] /\ e.reElectionRounds[j] >= e.reElectionRounds[j]
  BY ElectorRounds
<1>5. x \in Elector(0)
  BY ViewNumbers, DecidePrimaryType
<1>. HIDE DEF x, r
<1>6. Rounds(e, x)
  BY <1>3, <1>4 DEF Rounds, InRounds
<1>. QED BY <1>5, <1>6 DEF x

LEMMA RoundsChain ==
    ASSUME NEW e \in Elector(0), NEW y \in Elector(0), NEW x \in Elector(0),
           Rounds(e, y), Rounds(y, x)
    PROVE  Rounds(e, x)
<1>. SUFFICES ASSUME NEW j \in Insts PROVE x.reElectionRounds[j] >= e.reElectionRounds[j]
  BY DEF Rounds
<1>1. /\ e.reElectionRounds[j] \in Nat /\ y.reElectionRounds[j] \in Nat
      /\ x.reElectionRounds[j] \in Nat
  BY ElectorRounds
<1>. QED BY <1>1 DEF Rounds

LEMMA DecideAllRounds ==
    ASSUME NEW e \in Elector(0), NEW n \in Nodes, NEW insts, pool.instances \in Nat
    PROVE  Rounds(e, decideAll(n, e, insts)) /\ decideAll(n, e, insts) \in Elector(0)
<1>. DEFINE N == pool.instances
            V == {x \in Elector(0) : Rounds(e, x)}
<1>0. N \in Nat /\ \A k \in 1..N : k - 1 \in Insts
  BY DEF Insts
<1>1. PICK done : /\ done[0] = e /\ done[N] = decideAll(n, e, insts)
                  /\ \A k \in 1..N :
                        done[k] = IF k - 1 \in insts THEN decidePrimary(n, done[k - 1], k - 1)
                                  ELSE done[k - 1]
  BY ViewNumbers, DecideAllSteps
<1>2. done[0] \in V
  <2>1. \A j \in Insts : e.reElectionRounds[j] >= e.reElectionRounds[j]
    BY ElectorRounds
  <2>. QED BY <1>1, <2>1 DEF Rounds
<1>3. ASSUME NEW k \in 1..N, done[k - 1] \in V PROVE done[k] \in V
  <2>1. CASE k - 1 \in insts
    <3>1. done[k] = decidePrimary(n, done[k - 1], k - 1) /\ k - 1 \in Insts
      BY <1>0, <1>1, <2>1
    <3>2. Rounds(done[k - 1], done[k]) /\ done[k] \in Elector(0)
      BY <1>3, <3>1, DecideRounds
    <3>. QED BY <1>3, <3>2, RoundsChain
  <2>2. CASE k - 1 \notin insts
    BY <1>1, <1>3, <2>2
  <2>. QED BY <2>1, <2>2
<1>4. done[N] \in V
  <2>. HIDE DEF V
  <2>. QED BY <1>0, <1>2, <1>3, StaysIn
<1>. QED BY <1>1, <1>4

LEMMA ServiceRounds ==
    ASSUME NEW e \in Elector(0), NEW n \in Nodes, pool.instances \in Nat,
           NEW x \in _serviceActions(n, e)
    PROVE  Rounds(e, x)
<1>. DEFINE e0 == [e EXCEPT !.decide = {}, !.start = FALSE]
            d == decideAll(n, e0, e.decide)
            ds == IF e.start THEN startElection(n, d) ELSE {d}
            un(y) == [y EXCEPT !.nominate = {}]
<1>1. e0 \in Elector(0) /\ e0.reElectionRounds = e.reElectionRounds /\ e.start \in BOOLEAN
  BY DEF Elector, ElectorIn
<1>2. PICK y \in ds : x = nominateAll(n, un(y), y.nominate)
  BY DEF _serviceActions
<1>. HIDE DEF e0
<1>3. Rounds(e0, d) /\ d \in Elector(0)
  BY <1>1, DecideAllRounds
<1>. HIDE DEF d
<1>4. Begun(n, e.start, d, y)
  BY <1>1, <1>3, ElectionBegun
<1>. HIDE DEF ds
<1>. DEFINE z == un(y)
<1>5. z \in Elector(0) /\ z.reElectionRounds = y.reElectionRounds
      /\ y.nominate \subseteq Insts
  BY <1>4 DEF Elector, ElectorIn, Begun
<1>. HIDE DEF z
<1>6. Named(n, z, x, y.nominate)
  BY <1>2, <1>5, NameAll DEF z
<1>. QED BY <1>1, <1>3, <1>4, <1>5, <1>6 DEF Rounds, Begun, Resumed, Named, Kept

\* The elections of the module Election: one view, no crash.
Mailboxes == [Nodes -> [Nodes -> Seq(ElectionMsg)]]
ElectionTypes ==
    /\ pool \in Pools /\ conns \subseteq Nodes
    /\ el \in [Nodes -> Elector(0)] /\ (\A n \in Nodes : el[n].out = <<>>)
    /\ chan \in Mailboxes

\* Rounds are never taken back.
OnwardOnly == \A n \in Nodes : Rounds(el[n], el'[n])

LEMMA PoolTypes ==
    ASSUME pool \in Pools
    PROVE  pool.instances \in Nat \ {0} /\ 0 \in Insts /\ pool.up \subseteq Nodes
           /\ pool.late \subseteq Nodes
BY ElectionAssumption DEF Insts

LEMMA SamePool ==
    ASSUME pool' = pool
    PROVE  /\ Insts' = Insts /\ Elector(0)' = Elector(0) /\ Mailboxes' = Mailboxes
           /\ ElectionMsg' = ElectionMsg
BY DEF Insts, Elector, ElectorIn, ElectionMsg, Ballots, Mailboxes

LEMMA RoundsReflexive == ASSUME NEW e \in Elector(0) PROVE Rounds(e, e)
<1>1. \A j \in Insts : e.reElectionRounds[j] >= e.reElectionRounds[j]
  BY ElectorRounds
<1>. QED BY <1>1 DEF Rounds

\* One elector changes.
LEMMA OneElector ==
    ASSUME ElectionTypes, NEW n \in Nodes, NEW x \in Elector(0), x.out = <<>>,
           Rounds(el[n], x), el' = [el EXCEPT ![n] = x], chan' \in Mailboxes,
           UNCHANGED <<pool, conns>>
    PROVE  ElectionTypes' /\ OnwardOnly
<1>1. el \in [Nodes -> Elector(0)]
  BY DEF ElectionTypes
<1>2. el' \in [Nodes -> Elector(0)] /\ \A y \in Nodes : el'[y] = IF y = n THEN x ELSE el[y]
  BY <1>1
<1>3. \A y \in Nodes : el'[y].out = <<>> /\ Rounds(el[y], el'[y])
  BY <1>1, <1>2, RoundsReflexive DEF ElectionTypes
<1>4. /\ pool' \in Pools /\ conns' \subseteq Nodes /\ el' \in [Nodes -> Elector(0)']
      /\ chan' \in Mailboxes'
  BY <1>2, SamePool DEF ElectionTypes
<1>. QED BY <1>3, <1>4 DEF ElectionTypes, OnwardOnly

LEMMA BroadcastMail ==
    ASSUME NEW c \in Mailboxes, NEW n \in Nodes, NEW q \in Seq(ElectionMsg)
    PROVE  Broadcast(c, n, q) \in Mailboxes
<1>1. \A r \in Nodes : c[n][r] \o q \in Seq(ElectionMsg)
  BY ConcatProperties DEF Mailboxes
<1>. QED BY <1>1 DEF Broadcast, Mailboxes

LEMMA StoreTypes ==
    ASSUME ElectionTypes, NEW n \in Nodes, NEW x \in Elector(0), NEW c \in Mailboxes,
           Rounds(el[n], x), Store(n, x, c)
    PROVE  ElectionTypes' /\ OnwardOnly
<1>. DEFINE z == [x EXCEPT !.out = <<>>]
<1>1. z \in Elector(0) /\ z.out = <<>> /\ z.reElectionRounds = x.reElectionRounds
      /\ x.out \in Seq(ElectionMsg)
  <2>1. <<>> \in Seq(ElectionMsg)
    OBVIOUS
  <2>. QED BY <2>1 DEF Elector, ElectorIn
<1>2. el' = [el EXCEPT ![n] = z] /\ chan' = Broadcast(c, n, x.out) /\ UNCHANGED <<pool, conns>>
  BY DEF Store
<1>. HIDE DEF z
<1>3. Rounds(el[n], z)
  BY <1>1 DEF Rounds
<1>4. chan' \in Mailboxes
  BY <1>1, <1>2, BroadcastMail
<1>. QED BY <1>1, <1>2, <1>3, <1>4, OneElector

LEMMA HeadMail ==
    ASSUME ElectionTypes, NEW n \in Nodes, NEW s \in Nodes, chan[s][n] # <<>>
    PROVE  /\ Head(chan[s][n]) \in ElectionMsg
           /\ [chan EXCEPT ![s][n] = Tail(@)] \in Mailboxes
<1>1. chan[s][n] \in Seq(ElectionMsg) /\ chan \in Mailboxes
  BY DEF ElectionTypes, Mailboxes
<1>2. Head(chan[s][n]) \in ElectionMsg /\ Tail(chan[s][n]) \in Seq(ElectionMsg)
  BY <1>1, HeadTailProperties
<1>. QED BY <1>1, <1>2 DEF Mailboxes

LEMMA ReceiveTypes ==
    ASSUME ElectionTypes, NEW n \in Nodes, NEW s \in Nodes, Receive(n, s)
    PROVE  ElectionTypes' /\ OnwardOnly
<1>. DEFINE m == Head(chan[s][n])
            c == [chan EXCEPT ![s][n] = Tail(@)]
<1>1. PICK x \in IF m.viewNo = el[n].viewNo THEN Handle(n, el[n], m, s) ELSE {el[n]} :
          Store(n, x, c)
  BY DEF Receive
<1>2. c \in Mailboxes /\ m \in ElectionMsg
  BY HeadMail DEF Receive
<1>3. el[n] \in Elector(0)
  BY DEF ElectionTypes
<1>. HIDE DEF m, c
<1>4. x \in Elector(0) /\ Rounds(el[n], x)
  <2>1. CASE x = el[n]
    BY <1>3, <2>1, RoundsReflexive
  <2>2. CASE x \in Handle(n, el[n], m, s)
    <3>1. x \in Elector(0)
      BY <1>2, <1>3, <2>2, ViewNumbers, HandleType
    <3>2. InRounds(x, el[n].reElectionRounds)
      BY <1>2, <1>3, <2>2, ElectorRounds, HandleRounds
    <3>. QED BY <1>3, <3>1, <3>2, RoundsReflexive DEF Rounds, InRounds
  <2>. QED BY <1>1, <2>1, <2>2
<1>. QED BY <1>1, <1>2, <1>4, StoreTypes

LEMMA RunActionsTypes ==
    ASSUME ElectionTypes, NEW n \in Nodes, RunActions(n)
    PROVE  ElectionTypes' /\ OnwardOnly
<1>1. PICK x \in _serviceActions(n, el[n]) : Store(n, x, chan)
  BY DEF RunActions
<1>2. el[n] \in Elector(0) /\ chan \in Mailboxes /\ pool.instances \in Nat
  BY PoolTypes DEF ElectionTypes
<1>3. x \in Elector(0) /\ Rounds(el[n], x)
  BY <1>2, ServiceRounds, ServiceType, ViewNumbers
<1>. QED BY <1>1, <1>2, <1>3, StoreTypes

LEMMA DelayOverTypes ==
    ASSUME ElectionTypes, NEW n \in Nodes, NEW i \in Insts, DelayOver(n, i)
    PROVE  ElectionTypes' /\ OnwardOnly
<1>. DEFINE e1 == [el[n] EXCEPT !.delayed = @ \ {i}]
            x == nominateReplica(n, e1, i)
<1>1. Store(n, x, chan) /\ el[n] \in Elector(0) /\ chan \in Mailboxes
  BY DEF DelayOver, ElectionTypes
<1>2. e1 \in Elector(0) /\ e1.reElectionRounds = el[n].reElectionRounds
  BY <1>1 DEF Elector, ElectorIn
<1>. HIDE DEF e1
<1>3. x \in Elector(0) /\ InRounds(x, e1.reElectionRounds)
  BY <1>2, ViewNumbers, NominateReplicaType, NominateRounds, ElectorRounds
<1>. HIDE DEF x
<1>4. Rounds(el[n], x)
  BY <1>1, <1>2, <1>3, RoundsReflexive DEF Rounds, InRounds
<1>. QED BY <1>1, <1>3, <1>4, StoreTypes

LEMMA TimeoutTypes ==
    ASSUME ElectionTypes, NEW n \in Nodes, NEW i \in Insts, Timeout(n, i)
    PROVE  ElectionTypes' /\ OnwardOnly
<1>. DEFINE e1 == [el[n] EXCEPT !.timer[i] = "expired"]
            x == scheduleDecision(n, e1, i)
<1>1. el' = [el EXCEPT ![n] = x] /\ UNCHANGED <<pool, chan, conns>>
      /\ el[n] \in Elector(0) /\ chan \in Mailboxes /\ el[n].out = <<>>
  BY DEF Timeout, ElectionTypes
<1>2. e1 \in Elector(0) /\ e1.reElectionRounds = el[n].reElectionRounds /\ e1.out = <<>>
  BY <1>1 DEF Elector, ElectorIn
<1>. HIDE DEF e1
<1>3. x \in Elector(0) /\ InRounds(x, e1.reElectionRounds)
  BY <1>2, ViewNumbers, ScheduleDecisionType, NominateRounds, ElectorRounds
<1>4. x.out = <<>>
  BY <1>2 DEF scheduleDecision, Elector, ElectorIn
<1>. HIDE DEF x
<1>5. Rounds(el[n], x)
  BY <1>1, <1>2, <1>3, RoundsReflexive DEF Rounds, InRounds
<1>. QED BY <1>1, <1>3, <1>4, <1>5, OneElector

LEMMA CaughtUpTypes ==
    ASSUME ElectionTypes, NEW n \in Nodes, CaughtUp(n)
    PROVE  ElectionTypes' /\ OnwardOnly
<1>. DEFINE e1 == [el[n] EXCEPT !.participating = TRUE]
            x == scheduleElection(n, e1)
<1>1. el' = [el EXCEPT ![n] = x] /\ UNCHANGED <<pool, chan, conns>>
      /\ el[n] \in Elector(0) /\ chan \in Mailboxes /\ el[n].out = <<>>
  BY DEF CaughtUp, ElectionTypes
<1>2. e1 \in Elector(0) /\ e1.reElectionRounds = el[n].reElectionRounds /\ e1.out = <<>>
  BY <1>1 DEF Elector, ElectorIn
<1>. HIDE DEF e1
<1>3. x \in Elector(0) /\ InRounds(x, e1.reElectionRounds) /\ x.out = <<>>
  BY <1>2, ViewNumbers, ScheduleElectionType, NominateRounds, ElectorRounds
<1>. HIDE DEF x
<1>5. Rounds(el[n], x)
  BY <1>1, <1>2, <1>3, RoundsReflexive DEF Rounds, InRounds
<1>. QED BY <1>1, <1>3, <1>5, OneElector

LEMMA JoinTypes ==
    ASSUME ElectionTypes, NEW n \in Nodes, Join(n)
    PROVE  ElectionTypes' /\ OnwardOnly
<1>. DEFINE ready == Cardinality(conns \cup {n}) >= quorum
            Msgs(s) == getElectionMsgsForLaggedNodes(s)
<1>1. /\ conns' = conns \cup {n} /\ pool' = pool
      /\ el' = [x \in Nodes |-> IF x \in conns' /\ ready THEN scheduleElection(x, el[x])
                                  ELSE el[x]]
      /\ chan' = [s \in Nodes |-> [r \in Nodes |->
                        IF s \in conns /\ r = n /\ ready THEN Msgs(s) ELSE chan[s][r]]]
  BY DEF Join, Connected
<1>2. \A s \in Nodes : Msgs(s) \in Seq(ElectionMsg)
  BY LaggedMsgsType, ViewNumbers, PoolTypes DEF ElectionTypes
<1>. HIDE DEF ready, Msgs
<1>3. chan' \in Mailboxes
  BY <1>1, <1>2 DEF ElectionTypes, Mailboxes
<1>4. ASSUME NEW x \in Nodes
      PROVE  el'[x] \in Elector(0) /\ el'[x].out = <<>> /\ Rounds(el[x], el'[x])
  <2>1. el[x] \in Elector(0) /\ el[x].out = <<>>
    BY DEF ElectionTypes
  <2>. DEFINE y == scheduleElection(x, el[x])
  <2>2. y \in Elector(0) /\ InRounds(y, el[x].reElectionRounds) /\ y.out = <<>>
    BY <2>1, ViewNumbers, ScheduleElectionType, NominateRounds, ElectorRounds
  <2>3. el'[x] \in {y, el[x]}
    BY <1>1
  <2>. HIDE DEF y
  <2>4. Rounds(el[x], y)
    BY <2>1, <2>2, RoundsReflexive DEF Rounds, InRounds
  <2>. QED BY <2>1, <2>2, <2>3, <2>4, RoundsReflexive
<1>5. el' \in [Nodes -> Elector(0)]
  <2>1. el' = [x \in Nodes |-> el'[x]]
    BY <1>1
  <2>. QED BY <1>4, <2>1
<1>6. /\ pool' \in Pools /\ conns' \subseteq Nodes /\ el' \in [Nodes -> Elector(0)']
      /\ chan' \in Mailboxes'
  BY <1>1, <1>3, <1>5, SamePool DEF ElectionTypes
<1>. QED BY <1>4, <1>6 DEF ElectionTypes, OnwardOnly

LEMMA ElectionTypesStep == ElectionTypes /\ [Next]_evars => ElectionTypes' /\ OnwardOnly
<1>. SUFFICES ASSUME ElectionTypes, [Next]_evars PROVE ElectionTypes' /\ OnwardOnly
  OBVIOUS
<1>1. CASE UNCHANGED evars
  <2>1. UNCHANGED <<pool, el, chan, conns>>
    BY <1>1 DEF evars
  <2>2. ElectionTypes'
    BY <2>1, SamePool DEF ElectionTypes
  <2>3. OnwardOnly
    BY <2>1, RoundsReflexive DEF ElectionTypes, OnwardOnly
  <2>. QED BY <2>2, <2>3
<1>2. ASSUME NEW n \in Nodes, NEW s \in Nodes, Receive(n, s) PROVE ElectionTypes' /\ OnwardOnly
  BY <1>2, ReceiveTypes
<1>3. ASSUME NEW n \in Nodes, RunActions(n) PROVE ElectionTypes' /\ OnwardOnly
  BY <1>3, RunActionsTypes
<1>4. ASSUME NEW n \in Nodes, NEW i \in Insts, DelayOver(n, i) PROVE ElectionTypes' /\ OnwardOnly
  BY <1>4, DelayOverTypes
<1>5. ASSUME NEW n \in Nodes, NEW i \in Insts, Timeout(n, i) PROVE ElectionTypes' /\ OnwardOnly
  BY <1>5, TimeoutTypes
<1>6. ASSUME NEW n \in Nodes, Join(n) PROVE ElectionTypes' /\ OnwardOnly
  BY <1>6, JoinTypes
<1>7. ASSUME NEW n \in Nodes, CaughtUp(n) PROVE ElectionTypes' /\ OnwardOnly
  BY <1>7, CaughtUpTypes
<1>. QED BY <1>1, <1>2, <1>3, <1>4, <1>5, <1>6, <1>7 DEF Next

LEMMA ElectionTypesInit == Init => ElectionTypes
<1>. SUFFICES ASSUME Init PROVE ElectionTypes
  OBVIOUS
<1>1. /\ pool \in Pools /\ conns = pool.up
      /\ el = [n \in Nodes |-> scheduleElection(n, NewElector(n))]
      /\ chan = [s \in Nodes |-> [r \in Nodes |-> <<>>]]
  BY DEF Init
<1>2. ASSUME NEW n \in Nodes
      PROVE  /\ scheduleElection(n, NewElector(n)) \in Elector(0)
             /\ scheduleElection(n, NewElector(n)).out = <<>>
  <2>1. NewElector(n) \in Elector(0) /\ NewElector(n).out = <<>>
    <3>1. <<>> \in Seq(ElectionMsg) /\ [i \in Insts |-> NoVotes] \in Ballots
          /\ [i \in Insts |-> NoVotes] \in [Insts -> [Nodes -> (SUBSET Votes) \cup {None}]]
      BY DEF NoVotes, Ballots
    <3>2. LastOrdered[n] \in Nat
      BY ElectionAssumption
    <3>. QED BY <3>1, <3>2 DEF NewElector, Elector, ElectorIn
  <2>. QED BY <2>1, ViewNumbers, ScheduleElectionType
<1>3. chan \in Mailboxes
  <2>1. <<>> \in Seq(ElectionMsg)
    OBVIOUS
  <2>. QED BY <1>1, <2>1 DEF Mailboxes
<1>. QED BY <1>1, <1>2, <1>3, PoolTypes DEF ElectionTypes

\* The state of an election has its type: no handler of the elector leaves a
\* vote, a round, a scheduled action or a message that is not one.
THEOREM ElectionTypesHold == Spec => []ElectionTypes
<1>1. Spec => []ElectionTypes
  BY ElectionTypesInit, ElectionTypesStep, PTL DEF Spec
<1>. QED BY <1>1

\* A later state of the first round comes from one of the first round.
LEMMA FirstRoundBefore ==
    ASSUME ElectionTypes, [Next]_evars, FirstRound'
    PROVE  FirstRound /\ \A n \in Nodes : SameRounds(el[n], el'[n])
<1>1. OnwardOnly /\ pool' = pool
  <2>1. pool' = pool
    BY DEF Next, evars, Receive, RunActions, DelayOver, Timeout, Join, CaughtUp, Store
  <2>. QED BY <2>1, ElectionTypesStep
<1>2. \A n \in Nodes : \A i \in Insts : el'[n].reElectionRounds[i] = 0
  BY <1>1, SamePool DEF FirstRound
<1>3. ASSUME NEW n \in Nodes, NEW i \in Insts PROVE el[n].reElectionRounds[i] = 0
  <2>1. el[n].reElectionRounds[i] \in Nat
    BY ElectorRounds DEF ElectionTypes
  <2>2. el[n].reElectionRounds[i] <= 0
    BY <1>1, <1>2 DEF OnwardOnly, Rounds
  <2>. QED BY <2>1, <2>2
<1>. QED BY <1>2, <1>3 DEF FirstRound, SameRounds
-----------------------------------------------------------------------------
(* The pool in the first round.  While the connected nodes vote about an    *)
(* instance (Voting), every nomination is known or on its way, whoever has  *)
(* declared a winner has one that nobody can overtake any more (Beats), and *)
(* at most one node that has 2f+1 declarations has not chosen (LastsApart). *)

VoteMail == {VoteMsg(t, i, v) : t \in VoteTypes, i \in Insts, v \in Votes}

\* Votes of type t for instance i that are on their way from s to r.
OnWay(s, r, t, i) == {v \in Votes : Holds(chan[s][r], VoteMsg(t, i, v))}

Vote(n, t, i, s) == BallotsOf(t, el[n])[i][s]

\* Only nodes that are connected take part, and nobody has come to another round.
Calm ==
    /\ \A n \in Nodes : Plain(el[n])
    /\ \A s, r \in Nodes : \A m : Holds(chan[s][r], m)
          => m \in VoteMail /\ s # r /\ s \in conns /\ r \in conns /\ isReady
    /\ \A t \in VoteTypes, i \in Insts, n, s \in Nodes :
          Vote(n, t, i, s) # None => n \in conns /\ s \in conns /\ isReady

\* Everybody knows of the votes of a node, or they are on their way to it.
Told(t, i) ==
    /\ \A n, s \in Nodes : Vote(n, t, i, s) # None => Vote(n, t, i, s) = Vote(s, t, i, s)
    /\ \A s, r \in Nodes : \A v \in OnWay(s, r, t, i) : v = Vote(s, t, i, s)
    /\ \A s \in Nodes : \A r \in conns \ {s} :
          Vote(s, t, i, s) # None => Vote(r, t, i, s) # None \/ OnWay(s, r, t, i) # {}

\* A step of one elector, with what it does to the messages on their way.
Flow(n, o, s, H) ==
    /\ \A a, r \in Nodes : \A m :
          Holds(chan'[a][r], m)
            => Holds(chan[a][r], m) \/ (a = n /\ r \in conns \ {n} /\ Holds(o, m))
    /\ \A a, r \in Nodes : \A m :
          Holds(chan[a][r], m) => Holds(chan'[a][r], m) \/ (a = s /\ r = n /\ m \in H)
    /\ \A r \in conns \ {n} : \A m : Holds(o, m) => Holds(chan'[n][r], m)
    /\ \A m \in H : Holds(chan[s][n], m)

Move(n, o, s, H) ==
    /\ n \in conns /\ isReady /\ s \in Nodes /\ (H # {} => s # n)
    /\ Turn(n, el[n], el'[n], o, s, H) /\ Flow(n, o, s, H)
    /\ el' = [el EXCEPT ![n] = el'[n]] /\ UNCHANGED <<pool, conns>>

LEMMA BallotType ==
    ASSUME NEW e \in Elector(0), NEW t, NEW i \in Insts, NEW b \in Nodes
    PROVE  BallotsOf(t, e)[i][b] \in Votes \cup {None}
BY DEF Elector, ElectorIn, Ballots, BallotsOf

LEMMA MoveVotes ==
    ASSUME ElectionTypes, NEW n \in Nodes, NEW o, NEW s, NEW H, Move(n, o, s, H),
           NEW t \in VoteTypes, NEW i \in Insts
    PROVE  /\ \A a \in Nodes \ {n}, b \in Nodes : Vote(a, t, i, b)' = Vote(a, t, i, b)
           /\ Vote(n, t, i, n) # None => Vote(n, t, i, n)' = Vote(n, t, i, n)
           /\ \A b \in Nodes \ {n} :
                 /\ Vote(n, t, i, b)' # Vote(n, t, i, b)
                      => Vote(n, t, i, b) = None /\ b = s /\ VoteMsg(t, i, Vote(n, t, i, b)') \in H
                 /\ b = s /\ (\E v \in Votes : VoteMsg(t, i, v) \in H) => Vote(n, t, i, b)' # None
           /\ \A a, b \in Nodes : Vote(a, t, i, b) # None => Vote(a, t, i, b)' = Vote(a, t, i, b)
           /\ \A a, b \in Nodes : Vote(a, t, i, b) \in Votes \cup {None}
<1>1. \A a \in Nodes \ {n} : el'[a] = el[a]
  BY DEF Move, ElectionTypes
<1>2. \A a \in Nodes \ {n}, b \in Nodes : Vote(a, t, i, b)' = Vote(a, t, i, b)
  BY <1>1 DEF Vote, BallotsOf
<1>3. Vote(n, t, i, n) # None => Vote(n, t, i, n)' = Vote(n, t, i, n)
  BY DEF Vote, Move, Turn, Speaks
<1>4. ASSUME NEW b \in Nodes \ {n}
      PROVE  /\ Vote(n, t, i, b)' # Vote(n, t, i, b)
                  => Vote(n, t, i, b) = None /\ b = s /\ VoteMsg(t, i, Vote(n, t, i, b)') \in H
             /\ b = s /\ (\E v \in Votes : VoteMsg(t, i, v) \in H) => Vote(n, t, i, b)' # None
  BY DEF Vote, Move, Turn, Hears
<1>5. \A a, b \in Nodes : Vote(a, t, i, b) # None => Vote(a, t, i, b)' = Vote(a, t, i, b)
  BY <1>2, <1>3, <1>4
<1>6. \A a, b \in Nodes : Vote(a, t, i, b) \in Votes \cup {None}
  BY BallotType DEF ElectionTypes, Vote
<1>. QED BY <1>2, <1>3, <1>4, <1>5, <1>6

\* Messages on their way after a move.
LEMMA MoveMail ==
    ASSUME ElectionTypes, NEW n \in Nodes, NEW o, NEW s, NEW H, Move(n, o, s, H),
           NEW t \in VoteTypes, NEW i \in Insts, NEW a \in Nodes, NEW r \in Nodes
    PROVE  /\ \A v \in OnWay(a, r, t, i)' :
                 \/ v \in OnWay(a, r, t, i)
                 \/ /\ a = n /\ r \in conns \ {n} /\ Vote(n, t, i, n) = None
                    /\ v = Vote(n, t, i, n)'
           /\ \A v \in OnWay(a, r, t, i) :
                 v \in OnWay(a, r, t, i)' \/ (a = s /\ r = n /\ VoteMsg(t, i, v) \in H)
           /\ Vote(n, t, i, n) = None /\ Vote(n, t, i, n)' \in Votes /\ r \in conns \ {n}
                => Vote(n, t, i, n)' \in OnWay(n, r, t, i)'
           /\ \A v \in Votes : VoteMsg(t, i, v) \in H => v \in OnWay(s, n, t, i)
<1>1. \A m : Holds(o, m) <=> \E u \in VoteTypes, j \in Insts :
                 Vote(n, u, j, n) = None /\ Vote(n, u, j, n)' # None /\ m = VoteMsg(u, j, Vote(n, u, j, n)')
  BY DEF Move, Turn, Speaks, Cast, Vote
<1>2. ASSUME NEW v \in Votes
      PROVE  Holds(o, VoteMsg(t, i, v)) <=> Vote(n, t, i, n) = None /\ v = Vote(n, t, i, n)'
  <2>1. v # None
    BY NoneIsNoVote
  <2>2. ASSUME NEW u \in VoteTypes, NEW j \in Insts, VoteMsg(t, i, v) = VoteMsg(u, j, Vote(n, u, j, n)')
        PROVE  u = t /\ j = i /\ v = Vote(n, u, j, n)'
    BY <2>2, VoteMsgInjective
  <2>. QED BY <1>1, <2>1, <2>2
<1>3. Flow(n, o, s, H)
  BY DEF Move
<1>. QED BY <1>2, <1>3 DEF Flow, OnWay

LEMMA ToldKept ==
    ASSUME ElectionTypes, NEW n \in Nodes, NEW o, NEW s, NEW H, Move(n, o, s, H),
           NEW t \in VoteTypes, NEW i \in Insts, Told(t, i), ElectionTypes'
    PROVE  Told(t, i)'
<1>0. /\ None \notin Votes /\ conns' = conns
      /\ \A a, b \in Nodes : Vote(a, t, i, b)' \in Votes \cup {None}
  <2>1. \A a, b \in Nodes : Vote(a, t, i, b)' \in Votes \cup {None}
    <3>1. \A a \in Nodes : el'[a] \in Elector(0)
      BY SamePool DEF ElectionTypes, Move
    <3>. QED BY <3>1, BallotType DEF Vote
  <2>. QED BY <2>1, NoneIsNoVote DEF Move
<1>1. ASSUME NEW a \in Nodes, NEW b \in Nodes, Vote(a, t, i, b)' # None
      PROVE  Vote(a, t, i, b)' = Vote(b, t, i, b)'
  <2>1. CASE Vote(a, t, i, b) # None
    <3>1. Vote(a, t, i, b) = Vote(b, t, i, b)
      BY <2>1 DEF Told
    <3>. QED BY <2>1, <3>1, MoveVotes
  <2>2. CASE Vote(a, t, i, b) = None /\ a # b
    <3>1. a = n /\ b = s /\ VoteMsg(t, i, Vote(a, t, i, b)') \in H
      BY <1>1, <2>2, MoveVotes
    <3>2. Vote(a, t, i, b)' \in OnWay(s, n, t, i)
      BY <1>0, <1>1, <3>1, MoveMail
    <3>3. Vote(a, t, i, b)' = Vote(b, t, i, b)
      BY <3>1, <3>2 DEF Told
    <3>. QED BY <1>1, <3>3, MoveVotes
  <2>. QED BY <2>1, <2>2
<1>2. ASSUME NEW a \in Nodes, NEW r \in Nodes, NEW v \in OnWay(a, r, t, i)'
      PROVE  v = Vote(a, t, i, a)'
  <2>0. v \in Votes
    BY DEF OnWay
  <2>1. CASE v \in OnWay(a, r, t, i)
    <3>1. v = Vote(a, t, i, a)
      BY <2>1 DEF Told
    <3>. QED BY <1>0, <2>0, <3>1, MoveVotes
  <2>. QED BY <2>1, MoveMail
<1>3. ASSUME NEW a \in Nodes, NEW r \in conns \ {a}, Vote(a, t, i, a)' # None
      PROVE  Vote(r, t, i, a)' # None \/ OnWay(a, r, t, i)' # {}
  <2>0. r \in Nodes
    BY DEF ElectionTypes
  <2>1. CASE Vote(a, t, i, a) = None
    <3>1. a = n
      BY <1>3, <2>1, MoveVotes
    <3>. QED BY <1>0, <1>3, <2>0, <2>1, <3>1, MoveMail
  <2>2. CASE Vote(a, t, i, a) # None
    <3>1. CASE Vote(r, t, i, a) # None
      BY <2>0, <3>1, MoveVotes
    <3>2. ASSUME NEW v \in OnWay(a, r, t, i)
          PROVE  Vote(r, t, i, a)' # None \/ OnWay(a, r, t, i)' # {}
      <4>1. v \in Votes
        BY DEF OnWay
      <4>2. CASE v \in OnWay(a, r, t, i)'
        BY <4>2
      <4>3. CASE a = s /\ r = n /\ VoteMsg(t, i, v) \in H
        BY <4>1, <4>3, MoveVotes
      <4>. QED BY <2>0, <4>2, <4>3, MoveMail
    <3>. QED BY <2>0, <2>2, <3>1, <3>2 DEF Told
  <2>. QED BY <2>1, <2>2
<1>. QED BY <1>0, <1>1, <1>2, <1>3 DEF Told

OwnVote(n, i) == Vote(n, "NOMINATE", i, n)
OwnDeclaration(n, i) == Vote(n, "PRIMARY", i, n)

Supporters(v, i) == {x \in conns : OwnVote(x, i) = v}
\* Those who have nominated w, and those who may still do so.
Possible(w, i) == {x \in conns : OwnVote(x, i) \in {w, None}}

\* Whatever the nodes that have not voted do, v gets more nominations than others.
Beats(v, i) ==
    \A w \in Votes \ {v} : Cardinality(Possible(w, i)) < Cardinality(Supporters(v, i))

LastToDeclare(n, i) == el[n].primaryName[i] = None /\ hasPrimaryQuorum(el[n], i)

VotesFirst(i) == \A n, s \in Nodes : Vote(n, "NOMINATE", i, s) # None => OwnVote(n, i) # None
Ahead(i) == \A n \in Nodes, v \in Votes : OwnDeclaration(n, i) = v => Beats(v, i)
Timed(i) ==
    \A n \in Nodes : el[n].timer[i] # "none"
        => el[n].timer[i] = "running" /\ OwnDeclaration(n, i) = None
           /\ hasNominationQuorum(el[n], i)
Due(i) ==
    \A n \in Nodes : hasNominationQuorum(el[n], i) /\ hasNominationsFromAll(el[n], i)
                       /\ OwnDeclaration(n, i) = None => i \in el[n].decide
Led(i) ==
    \A n \in Nodes : el[n].primaryName[i] # None
        => \E s \in Nodes : OwnDeclaration(s, i) # None
                            /\ OwnDeclaration(s, i).name = el[n].primaryName[i]
LastDeclared(i) == \A n \in Nodes : LastToDeclare(n, i) => OwnDeclaration(n, i) # None
LastsApart(i) ==
    \A n, m \in Nodes : n # m /\ LastToDeclare(n, i) /\ LastToDeclare(m, i)
        => Vote(n, "PRIMARY", i, m) = None \/ Vote(m, "PRIMARY", i, n) = None

\* An instance that the connected nodes vote about.
Voting(i) ==
    /\ Told("NOMINATE", i) /\ Told("PRIMARY", i) /\ VotesFirst(i) /\ Ahead(i)
    /\ Timed(i) /\ Due(i) /\ Led(i) /\ LastDeclared(i) /\ LastsApart(i)

LEMMA VoteFields ==
    ASSUME NEW n, NEW i, NEW s
    PROVE  /\ Vote(n, "NOMINATE", i, s) = el[n].nominations[i][s]
           /\ Vote(n, "PRIMARY", i, s) = el[n].primaryDeclarations[i][s]
BY DEF Vote, BallotsOf

LEMMA ConnsFinite ==
    ASSUME ElectionTypes
    PROVE  /\ IsFiniteSet(Nodes) /\ IsFiniteSet(conns) /\ Cardinality(conns) \in Nat
           /\ \A S : S \subseteq conns => IsFiniteSet(S) /\ Cardinality(S) \in Nat
                                          /\ Cardinality(S) <= Cardinality(conns)
           /\ \A S, T : T \subseteq conns /\ S \subseteq T => Cardinality(S) <= Cardinality(T)
BY FS_Subset, FS_CardinalityType, ElectionAssumption DEF ElectionTypes

LEMMA VotesFirstKept ==
    ASSUME ElectionTypes, NEW n \in Nodes, NEW o, NEW s, NEW H, Move(n, o, s, H), NEW i \in Insts,
           VotesFirst(i)
    PROVE  VotesFirst(i)'
<1>. SUFFICES ASSUME NEW a \in Nodes, NEW b \in Nodes, Vote(a, "NOMINATE", i, b)' # None
              PROVE  OwnVote(a, i)' # None
  BY DEF VotesFirst
<1>0. "NOMINATE" \in VoteTypes
  BY DEF VoteTypes
<1>1. CASE Vote(a, "NOMINATE", i, b) # None
  <2>1. OwnVote(a, i) # None
    BY <1>1 DEF VotesFirst
  <2>. QED BY <1>0, <2>1, MoveVotes DEF OwnVote
<1>2. CASE Vote(a, "NOMINATE", i, b) = None /\ a # b
  <2>1. a = n
    BY <1>0, <1>2, MoveVotes
  <2>2. Supports(n, el[n], el'[n], H)
    BY DEF Move, Turn
  <2>3. ~SameOthers(n, el'[n].nominations[i], el[n].nominations[i])
    <3>1. el'[n].nominations[i][b] # None /\ el[n].nominations[i][b] = None
      BY <1>2, <2>1 DEF Vote, BallotsOf
    <3>. QED BY <1>2, <2>1, <3>1 DEF SameOthers
  <2>. QED BY <2>1, <2>2, <2>3 DEF Supports, OwnVote, Vote, BallotsOf
<1>. QED BY <1>1, <1>2 DEF OwnVote

\* A lead is kept: votes are not changed.
LEMMA BeatsKept ==
    ASSUME ElectionTypes, NEW n \in Nodes, NEW o, NEW s, NEW H, Move(n, o, s, H), NEW i \in Insts,
           NEW v \in Votes, Beats(v, i)
    PROVE  Beats(v, i)'
<1>. SUFFICES ASSUME NEW w \in Votes \ {v}
              PROVE  Cardinality(Possible(w, i)') < Cardinality(Supporters(v, i)')
  BY DEF Beats
<1>0. "NOMINATE" \in VoteTypes /\ conns' = conns /\ None \notin Votes /\ conns \subseteq Nodes
  BY NoneIsNoVote DEF VoteTypes, Move, ElectionTypes
<1>1. \A x \in conns : OwnVote(x, i) # None => OwnVote(x, i)' = OwnVote(x, i)
  BY <1>0, MoveVotes DEF OwnVote
<1>2. Possible(w, i)' \subseteq Possible(w, i) /\ Supporters(v, i) \subseteq Supporters(v, i)'
  BY <1>0, <1>1 DEF Possible, Supporters
<1>3. Possible(w, i) \subseteq conns /\ Supporters(v, i)' \subseteq conns
  BY <1>0 DEF Possible, Supporters
<1>4. Cardinality(Possible(w, i)) < Cardinality(Supporters(v, i))
  BY DEF Beats
<1>. DEFINE p == Cardinality(Possible(w, i))
            q == Cardinality(Supporters(v, i))
            p1 == Cardinality(Possible(w, i)')
            q1 == Cardinality(Supporters(v, i)')
<1>5. p1 <= p /\ q <= q1 /\ p \in Nat /\ q \in Nat /\ p1 \in Nat /\ q1 \in Nat
  BY <1>2, <1>3, ConnsFinite
<1>6. p < q
  BY <1>4
<1>. HIDE DEF p, q, p1, q1
<1>7. p1 < q1
  BY <1>5, <1>6
<1>. QED BY <1>7 DEF p1, q1

\* What a node decides is ahead of the others.
LEMMA DecidedBeats ==
    ASSUME ElectionTypes, Calm, NEW n \in Nodes, NEW i \in Insts, NEW v \in Votes,
           Told("NOMINATE", i), el[n].timer[i] # "expired", Decides(n, el[n], i, v)
    PROVE  Beats(v, i)
<1>. DEFINE N == el[n].nominations[i]
            Nm == Cardinality(conns)
<1>0. /\ N \in [Nodes -> Votes \cup {None}] /\ None \notin Votes /\ conns \subseteq Nodes
      /\ \A y \in Nodes : N[y] = Vote(n, "NOMINATE", i, y)
  BY NoneIsNoVote DEF ElectionTypes, Elector, ElectorIn, Ballots, Vote, BallotsOf
<1>1. \A y \in Nodes : N[y] # None => N[y] = OwnVote(y, i) /\ y \in conns
  BY <1>0 DEF Told, Calm, VoteTypes, OwnVote
<1>2. MostCommon(N) = {v}
  BY DEF Decides
<1>3. \/ Cardinality(Voters(N)) = Nm
      \/ CountOf(N, v) >= (Nm + 2) \div 2
  BY DEF Decides, hasNominationsFromAll, votesNeeded, nodeCount
<1>. HIDE DEF N
<1>4. Voters(N) \subseteq conns
  BY <1>1 DEF Voters
<1>. SUFFICES ASSUME NEW w \in Votes \ {v}
              PROVE  Cardinality(Possible(w, i)) < Cardinality(Supporters(v, i))
  BY DEF Beats
<1>. DEFINE P == Possible(w, i)
            S == Supporters(v, i)
<1>5. P \subseteq conns /\ S \subseteq conns
  BY DEF Possible, Supporters
<1>6. CASE Cardinality(Voters(N)) = Nm
  <2>1. Voters(N) = conns
    BY <1>4, <1>6, FS_Subset, ConnsFinite
  <2>2. \A x \in conns : N[x] = OwnVote(x, i) /\ N[x] # None
    BY <1>0, <1>1, <2>1 DEF Voters
  <2>. DEFINE cast == {N[x] : x \in Voters(N)}
              A(u) == {x \in Nodes : N[x] = u}
  <2>3. \A u \in Votes : A(u) = {x \in conns : OwnVote(x, i) = u}
    BY <1>0, <1>1, <2>2
  <2>4. P = A(w) /\ S = A(v)
    BY <2>2, <2>3 DEF Possible, Supporters
  <2>5. /\ v \in cast /\ \A u \in cast : Cardinality(A(u)) <= Cardinality(A(v))
        /\ w \in cast => ~ \A u \in cast : Cardinality(A(u)) <= Cardinality(A(w))
    BY <1>2 DEF MostCommon, CountOf
  <2>6. \A u \in Votes : Cardinality(A(u)) \in Nat /\ A(u) \subseteq conns
    BY <2>3, ConnsFinite
  <2>7. cast \subseteq Votes
    BY <1>0 DEF Voters
  <2>8. CASE w \in cast
    <3>1. PICK u \in cast : ~(Cardinality(A(u)) <= Cardinality(A(w)))
      BY <2>5, <2>8
    <3>2. Cardinality(A(u)) <= Cardinality(A(v)) /\ u \in Votes
      BY <2>5, <2>7, <3>1
    <3>. HIDE DEF A
    <3>. QED BY <2>4, <2>6, <3>1, <3>2
  <2>9. CASE w \notin cast
    <3>1. A(w) = {}
      BY <1>0, <2>9 DEF Voters
    <3>2. A(v) # {}
      BY <2>5 DEF Voters
    <3>3. Cardinality(A(w)) = 0 /\ Cardinality(A(v)) # 0
      BY <2>6, <3>1, <3>2, FS_EmptySet, ConnsFinite
    <3>. HIDE DEF A
    <3>. QED BY <2>4, <2>6, <3>3
  <2>. QED BY <2>8, <2>9
<1>7. CASE CountOf(N, v) >= (Nm + 2) \div 2
  <2>1. {x \in Nodes : N[x] = v} \subseteq S
    BY <1>0, <1>1 DEF Supporters
  <2>2. CountOf(N, v) <= Cardinality(S) /\ CountOf(N, v) \in Nat
    <3>1. {x \in Nodes : N[x] = v} \subseteq conns
      BY <1>5, <2>1
    <3>. QED BY <1>5, <2>1, <3>1, ConnsFinite DEF CountOf
  <2>3. P \subseteq conns \ S
    BY <1>0 DEF Possible, Supporters
  <2>4. Cardinality(conns \ S) = Nm - Cardinality(S)
    <3>1. conns \cap S = S /\ IsFiniteSet(conns)
      BY <1>5, ConnsFinite
    <3>2. Cardinality(conns \ S) = Cardinality(conns) - Cardinality(conns \cap S)
      BY <3>1, FS_Difference
    <3>. HIDE DEF S
    <3>. QED BY <3>1, <3>2
  <2>5. Cardinality(P) <= Cardinality(conns \ S) /\ Cardinality(P) \in Nat
        /\ Cardinality(S) \in Nat /\ Nm \in Nat
    BY <1>5, <2>3, ConnsFinite
  <2>. HIDE DEF P, S, Nm
  <2>6. Cardinality(P) < Cardinality(S)
    BY <1>7, <2>2, <2>4, <2>5
  <2>. QED BY <2>6 DEF P, S
<1>. QED BY <1>3, <1>6, <1>7

\* A pool of 3f+1 nodes with f at least one, whose timers are patient.
PatientPool == Patient /\ Cardinality(Nodes) = 3 * f + 1 /\ f >= 1

LEMMA Thresholds ==
    ASSUME PatientPool
    PROVE  f \in Nat /\ quorum \in Nat /\ quorum = 2 * f + 1 /\ quorum >= 3
<1>1. Cardinality(Nodes) \in Nat
  BY ElectionAssumption, FS_CardinalityType
<1>2. f \in Int
  BY <1>1 DEF f
<1>. QED BY <1>2 DEF PatientPool, quorum

LEMMA MoveElectors ==
    ASSUME ElectionTypes, NEW n \in Nodes, NEW o, NEW s, NEW H, Move(n, o, s, H)
    PROVE  /\ \A a \in Nodes \ {n} : el'[a] = el[a]
           /\ conns' = conns /\ pool' = pool /\ Insts' = Insts /\ nodeCount' = nodeCount
           /\ conns \subseteq Nodes
BY SamePool DEF Move, ElectionTypes, nodeCount

\* Quorums of the electors after a step.
LEMMA MoveQuorums ==
    ASSUME ElectionTypes, NEW n \in Nodes, NEW o, NEW s, NEW H, Move(n, o, s, H), NEW i \in Insts,
           NEW a \in Nodes
    PROVE  /\ hasNominationQuorum(el[a], i)' <=> hasNominationQuorum(el'[a], i)
           /\ hasNominationsFromAll(el[a], i)' <=> hasNominationsFromAll(el'[a], i)
           /\ hasPrimaryQuorum(el[a], i)' <=> hasPrimaryQuorum(el'[a], i)
BY MoveElectors DEF hasNominationQuorum, hasNominationsFromAll, hasPrimaryQuorum

LEMMA AheadKept ==
    ASSUME ElectionTypes, Calm, NEW n \in Nodes, NEW o, NEW s, NEW H,
           Move(n, o, s, H), NEW i \in Insts, Told("NOMINATE", i), Timed(i), Ahead(i)
    PROVE  Ahead(i)'
<1>. SUFFICES ASSUME NEW a \in Nodes, NEW v \in Votes, OwnDeclaration(a, i)' = v
              PROVE  Beats(v, i)'
  BY DEF Ahead
<1>0. "PRIMARY" \in VoteTypes /\ None \notin Votes
  BY NoneIsNoVote DEF VoteTypes
<1>1. CASE OwnDeclaration(a, i) # None
  <2>1. OwnDeclaration(a, i) = v
    BY <1>0, <1>1, MoveVotes DEF OwnDeclaration
  <2>2. Beats(v, i)
    BY <2>1 DEF Ahead
  <2>. QED BY <2>2, BeatsKept
<1>2. CASE OwnDeclaration(a, i) = None
  <2>1. a = n
    BY <1>0, <1>2, MoveVotes DEF OwnDeclaration
  <2>2. Cast(n, el[n], el'[n], "PRIMARY", i) /\ el'[n].primaryDeclarations[i][n] = v
    BY <1>0, <1>2, <2>1 DEF Cast, OwnDeclaration, Vote, BallotsOf
  <2>3. Decides(n, el[n], i, v)
    BY <2>2 DEF Move, Turn, Declares
  <2>4. el[n].timer[i] # "expired"
    BY DEF Timed
  <2>. QED BY <2>3, <2>4, DecidedBeats, BeatsKept
<1>. QED BY <1>1, <1>2

\* Nominations are added only.
LEMMA NominationsGrow ==
    ASSUME ElectionTypes, NEW n \in Nodes, NEW o, NEW s, NEW H, Move(n, o, s, H), NEW i \in Insts,
           NEW a \in Nodes, hasNominationQuorum(el[a], i), PatientPool
    PROVE  hasNominationQuorum(el'[a], i)
<1>1. Voters(el[a].nominations[i]) \subseteq Voters(el'[a].nominations[i])
  <2>1. "NOMINATE" \in VoteTypes
    BY DEF VoteTypes
  <2>2. \A b \in Nodes : el[a].nominations[i][b] # None => el'[a].nominations[i][b] # None
    BY <2>1, MoveVotes DEF Vote, BallotsOf
  <2>. QED BY <2>2 DEF Voters
<1>2. Voters(el'[a].nominations[i]) \subseteq Nodes
  BY DEF Voters
<1>. DEFINE p == Cardinality(Voters(el[a].nominations[i]))
            q == Cardinality(Voters(el'[a].nominations[i]))
<1>3. p <= q /\ p \in Nat /\ q \in Nat
  BY <1>1, <1>2, FS_Subset, FS_CardinalityType, ElectionAssumption
<1>4. p >= quorum
  BY DEF hasNominationQuorum
<1>. HIDE DEF p, q
<1>5. q >= quorum
  BY <1>3, <1>4, Thresholds
<1>. QED BY <1>5 DEF q, hasNominationQuorum

LEMMA TimedKept ==
    ASSUME ElectionTypes, NEW n \in Nodes, NEW o, NEW s, NEW H,
           Move(n, o, s, H), NEW i \in Insts, Timed(i), PatientPool
    PROVE  Timed(i)'
<1>. SUFFICES ASSUME NEW a \in Nodes, el'[a].timer[i] # "none"
              PROVE  el'[a].timer[i] = "running" /\ OwnDeclaration(a, i)' = None
                     /\ hasNominationQuorum(el'[a], i)
  BY MoveQuorums DEF Timed
<1>1. CASE a # n
  <2>1. el'[a] = el[a]
    BY <1>1, MoveElectors
  <2>2. OwnDeclaration(a, i)' = OwnDeclaration(a, i)
    BY <2>1 DEF OwnDeclaration, Vote, BallotsOf
  <2>. QED BY <2>1, <2>2 DEF Timed
<1>2. CASE a = n
  <2>1. \/ /\ el'[n].timer[i] = el[n].timer[i]
           /\ el'[n].primaryDeclarations[i][n] = el[n].primaryDeclarations[i][n]
        \/ /\ el'[n].timer[i] = "running" /\ hasNominationQuorum(el[n], i)
           /\ el'[n].primaryDeclarations[i][n] = None
    BY <1>2 DEF Move, Turn, Declares
  <2>2. OwnDeclaration(n, i)' = el'[n].primaryDeclarations[i][n]
        /\ OwnDeclaration(n, i) = el[n].primaryDeclarations[i][n]
    BY DEF OwnDeclaration, Vote, BallotsOf
  <2>. QED BY <1>2, <2>1, <2>2, NominationsGrow DEF Timed
<1>. QED BY <1>1, <1>2

LEMMA DueKept ==
    ASSUME ElectionTypes, NEW n \in Nodes, NEW o, NEW s, NEW H,
           Move(n, o, s, H), NEW i \in Insts, VotesFirst(i), Due(i), PatientPool
    PROVE  Due(i)'
<1>0. \A a \in Nodes : /\ hasNominationQuorum(el[a], i)' <=> hasNominationQuorum(el'[a], i)
                       /\ hasNominationsFromAll(el[a], i)' <=> hasNominationsFromAll(el'[a], i)
  BY MoveQuorums
<1>. SUFFICES ASSUME NEW a \in Nodes, hasNominationQuorum(el'[a], i),
                     hasNominationsFromAll(el'[a], i), OwnDeclaration(a, i)' = None
              PROVE  i \in el'[a].decide
  BY <1>0 DEF Due
<1>1. CASE a # n
  <2>1. el'[a] = el[a]
    BY <1>1, MoveElectors
  <2>2. OwnDeclaration(a, i)' = OwnDeclaration(a, i)
    BY <2>1 DEF OwnDeclaration, Vote, BallotsOf
  <2>. QED BY <2>1, <2>2 DEF Due
<1>2. CASE a = n
  <2>. SUFFICES ASSUME i \notin el'[n].decide PROVE FALSE
    BY <1>2
  <2>1. /\ SameOthers(n, el'[n].nominations[i], el[n].nominations[i])
        /\ i \notin el[n].decide \/ el[n].nominations[i][n] = None
    BY <1>2 DEF Move, Turn, Declares, OwnDeclaration, Vote, BallotsOf
  <2>2. /\ el[n].nominations[i] \in [Nodes -> Votes \cup {None}]
        /\ el'[n].nominations[i] \in [Nodes -> Votes \cup {None}]
    BY DEF Move, Turn, Plain, ElectionTypes, Elector, ElectorIn, Ballots
  <2>3. CASE el[n].nominations[i][n] = None
    <3>1. \A b \in Nodes : el[n].nominations[i][b] = None
      BY <2>3 DEF VotesFirst, OwnVote, Vote, BallotsOf
    <3>2. Voters(el'[n].nominations[i]) \subseteq {n}
      BY <2>1, <3>1 DEF Voters, SameOthers
    <3>3. Cardinality(Voters(el'[n].nominations[i])) <= 1
          /\ Cardinality(Voters(el'[n].nominations[i])) \in Nat
      <4>. DEFINE V == Voters(el'[n].nominations[i])
      <4>1. IsFiniteSet({n}) /\ Cardinality({n}) = 1 /\ V \in SUBSET {n}
        BY <3>2, FS_Singleton
      <4>. HIDE DEF V
      <4>2. Cardinality(V) <= 1 /\ Cardinality(V) \in Nat
        BY <4>1, FS_Subset, FS_CardinalityType
      <4>. QED BY <4>2 DEF V
    <3>4. Cardinality(Voters(el'[n].nominations[i])) >= quorum
      BY <1>2 DEF hasNominationQuorum
    <3>. QED BY <3>3, <3>4, Thresholds
  <2>4. CASE el[n].nominations[i][n] # None
    <3>1. el'[n].nominations[i][n] = el[n].nominations[i][n]
      <4>1. "NOMINATE" \in VoteTypes
        BY DEF VoteTypes
      <4>. QED BY <2>4, <4>1, MoveVotes DEF Vote, BallotsOf
    <3>2. el'[n].nominations[i] = el[n].nominations[i]
      BY <2>1, <2>2, <3>1 DEF SameOthers
    <3>3. hasNominationQuorum(el[n], i) /\ hasNominationsFromAll(el[n], i)
      BY <1>2, <3>2 DEF hasNominationQuorum, hasNominationsFromAll
    <3>4. OwnDeclaration(n, i) = None
      <4>1. "PRIMARY" \in VoteTypes
        BY DEF VoteTypes
      <4>. QED BY <1>2, <4>1, MoveVotes DEF OwnDeclaration
    <3>. QED BY <2>1, <2>4, <3>3, <3>4 DEF Due
  <2>. QED BY <2>3, <2>4
<1>. QED BY <1>1, <1>2

\* What is declared most often has been declared.
LEMMA MostCommonIsCast ==
    ASSUME NEW b, NEW w \in MostCommon(b)
    PROVE  \E y \in Nodes : b[y] = w /\ w # None
BY DEF MostCommon, Voters

LEMMA LedKept ==
    ASSUME ElectionTypes, NEW n \in Nodes, NEW o, NEW s, NEW H,
           Move(n, o, s, H), NEW i \in Insts, Told("PRIMARY", i)', Led(i)
    PROVE  Led(i)'
<1>. SUFFICES ASSUME NEW a \in Nodes, el'[a].primaryName[i] # None
              PROVE  \E b \in Nodes : OwnDeclaration(b, i)' # None
                            /\ OwnDeclaration(b, i)'.name = el'[a].primaryName[i]
  BY DEF Led
<1>0. "PRIMARY" \in VoteTypes
  BY DEF VoteTypes
<1>1. CASE el'[a].primaryName[i] = el[a].primaryName[i]
  <2>1. PICK b \in Nodes : OwnDeclaration(b, i) # None
                           /\ OwnDeclaration(b, i).name = el[a].primaryName[i]
    BY <1>1 DEF Led
  <2>2. OwnDeclaration(b, i)' = OwnDeclaration(b, i)
    BY <1>0, <2>1, MoveVotes DEF OwnDeclaration
  <2>. QED BY <1>1, <2>1, <2>2
<1>2. CASE el'[a].primaryName[i] # el[a].primaryName[i]
  <2>1. a = n
    BY <1>2, MoveElectors
  <2>2. PICK w \in MostCommon(el'[n].primaryDeclarations[i]) : el'[n].primaryName[i] = w.name
    BY <1>2, <2>1 DEF Move, Turn, Follows
  <2>3. PICK y \in Nodes : el'[n].primaryDeclarations[i][y] = w /\ w # None
    BY <2>2, MostCommonIsCast
  <2>4. Vote(n, "PRIMARY", i, y)' = w
    BY <2>3 DEF Vote, BallotsOf
  <2>5. OwnDeclaration(y, i)' = w
    BY <2>3, <2>4 DEF Told, OwnDeclaration
  <2>. QED BY <2>1, <2>2, <2>3, <2>5
<1>. QED BY <1>1, <1>2

\* Only its own declaration makes a node the last one to choose.
LEMMA LastStep ==
    ASSUME ElectionTypes, NEW n \in Nodes, NEW o, NEW s, NEW H,
           Move(n, o, s, H), NEW i \in Insts, NEW a \in Nodes, LastToDeclare(a, i)'
    PROVE  /\ OwnDeclaration(a, i) # None => LastToDeclare(a, i)
           /\ OwnDeclaration(a, i)' = None => LastToDeclare(a, i)
           /\ \A b \in Nodes \ {a} : Vote(a, "PRIMARY", i, b)' = Vote(a, "PRIMARY", i, b)
           /\ el[a].primaryName[i] = None
<1>0. "PRIMARY" \in VoteTypes
  BY DEF VoteTypes
<1>1. el'[a].primaryName[i] = None /\ hasPrimaryQuorum(el'[a], i)
  BY MoveQuorums DEF LastToDeclare
<1>2. CASE a # n
  <2>1. el'[a] = el[a]
    BY <1>2, MoveElectors
  <2>2. \A b \in Nodes : Vote(a, "PRIMARY", i, b)' = Vote(a, "PRIMARY", i, b)
    BY <2>1 DEF Vote, BallotsOf
  <2>. QED BY <1>1, <2>1, <2>2 DEF LastToDeclare
<1>3. CASE a = n
  <2>1. SameOthers(n, el'[n].primaryDeclarations[i], el[n].primaryDeclarations[i])
    BY <1>1, <1>3 DEF Move, Turn, Follows
  <2>2. el[n].primaryName[i] = None
    BY <1>1, <1>3 DEF Move, Turn, Follows
  <2>3. OwnDeclaration(n, i)' = OwnDeclaration(n, i) => LastToDeclare(n, i)
    <3>. SUFFICES ASSUME OwnDeclaration(n, i)' = OwnDeclaration(n, i) PROVE LastToDeclare(n, i)
      OBVIOUS
    <3>1. \A b \in Nodes : el'[n].primaryDeclarations[i][b] = el[n].primaryDeclarations[i][b]
      BY <2>1 DEF OwnDeclaration, Vote, BallotsOf, SameOthers
    <3>2. Voters(el'[n].primaryDeclarations[i]) = Voters(el[n].primaryDeclarations[i])
      BY <3>1 DEF Voters
    <3>. QED BY <1>1, <1>3, <2>2, <3>2 DEF LastToDeclare, hasPrimaryQuorum
  <2>4. \A b \in Nodes \ {n} : Vote(n, "PRIMARY", i, b)' = Vote(n, "PRIMARY", i, b)
    BY <2>1 DEF SameOthers, Vote, BallotsOf
  <2>. QED BY <1>0, <1>3, <2>2, <2>3, <2>4, MoveVotes DEF OwnDeclaration
<1>. QED BY <1>2, <1>3

LEMMA LastKept ==
    ASSUME ElectionTypes, NEW n \in Nodes, NEW o, NEW s, NEW H,
           Move(n, o, s, H), NEW i \in Insts, Told("PRIMARY", i), LastDeclared(i), LastsApart(i)
    PROVE  LastDeclared(i)' /\ LastsApart(i)'
<1>0. "PRIMARY" \in VoteTypes
  BY DEF VoteTypes
<1>1. ASSUME NEW a \in Nodes, LastToDeclare(a, i)' PROVE OwnDeclaration(a, i)' # None
  <2>1. OwnDeclaration(a, i) # None => OwnDeclaration(a, i)' = OwnDeclaration(a, i)
    BY <1>0, MoveVotes DEF OwnDeclaration
  <2>. QED BY <1>1, <2>1, LastStep DEF LastDeclared
<1>2. ASSUME NEW a \in Nodes, NEW b \in Nodes, a # b, LastToDeclare(a, i)', LastToDeclare(b, i)',
             Vote(a, "PRIMARY", i, b)' # None, Vote(b, "PRIMARY", i, a)' # None
      PROVE  FALSE
  <2>1. Vote(a, "PRIMARY", i, b) # None /\ Vote(b, "PRIMARY", i, a) # None
    BY <1>2, LastStep
  <2>2. OwnDeclaration(a, i) # None /\ OwnDeclaration(b, i) # None
    BY <2>1 DEF Told, OwnDeclaration
  <2>3. LastToDeclare(a, i) /\ LastToDeclare(b, i)
    BY <1>2, <2>2, LastStep
  <2>. QED BY <1>2, <2>1, <2>3 DEF LastsApart
<1>. QED BY <1>1, <1>2 DEF LastDeclared, LastsApart

LEMMA VotingKept ==
    ASSUME ElectionTypes, ElectionTypes', Calm, NEW n \in Nodes, NEW o, NEW s, NEW H,
           Move(n, o, s, H), NEW i \in Insts, Voting(i), PatientPool
    PROVE  Voting(i)'
<1>1. "NOMINATE" \in VoteTypes /\ "PRIMARY" \in VoteTypes
  BY DEF VoteTypes
<1>2. Told("NOMINATE", i)' /\ Told("PRIMARY", i)'
  BY <1>1, ToldKept DEF Voting
<1>3. VotesFirst(i)' /\ Ahead(i)' /\ Timed(i)' /\ Due(i)'
  BY VotesFirstKept, AheadKept, TimedKept, DueKept DEF Voting
<1>4. Led(i)' /\ LastDeclared(i)' /\ LastsApart(i)'
  BY <1>2, LedKept, LastKept DEF Voting
<1>. QED BY <1>2, <1>3, <1>4 DEF Voting
-----------------------------------------------------------------------------
(* Once a node joins late, it may find an instance decided.  Then 2f+1 nodes*)
(* have declared the same replica, all but one of them have chosen it, and a*)
(* node that comes later gets too few nominations to decide otherwise.      *)

\* The nodes that have declared a winner, and the one of them that may still
\* have to choose it.
Settlers(i) == {n \in Nodes : OwnDeclaration(n, i) # None}
Last(i) == {n \in Settlers(i) : el[n].primaryName[i] = None}

\* What has been declared, or chosen, names the replica x.
Names(i, x) ==
    /\ \A n, s \in Nodes : LET v == Vote(n, "PRIMARY", i, s) IN v # None => v.name = x
    /\ \A s, r \in Nodes : \A v \in OnWay(s, r, "PRIMARY", i) : v.name = x
    /\ \A n \in Nodes : el[n].primaryName[i] \in {None, x}

\* The settlers have all voted and heard one another.
Concluded(i) ==
    /\ Settlers(i) \subseteq conns /\ Cardinality(Settlers(i)) >= quorum
    /\ \A n, m \in Settlers(i) : Vote(n, "PRIMARY", i, m) # None /\ OwnVote(n, i) # None
    /\ \A s, r \in Nodes : OnWay(s, r, "PRIMARY", i) # {} => r \notin Settlers(i)
    /\ \A n, m \in Last(i) : n = m

\* A node that comes later hears the declarations of the settlers, and too few
\* nominations to decide itself.
Passed(i) ==
    /\ \A s \in Nodes, j \in Nodes \ Settlers(i) :
          Vote(j, "NOMINATE", i, s) # None \/ OnWay(s, j, "NOMINATE", i) # {}
            => s \notin Settlers(i) \/ s \in Last(i)
    /\ \A s \in Settlers(i), j \in conns :
          j \notin Settlers(i)
            => Vote(j, "PRIMARY", i, s) # None \/ OnWay(s, j, "PRIMARY", i) # {}
    /\ \A n \in Nodes : el[n].timer[i] = "none"

\* An instance whose primary the connected nodes have chosen.
Chosen(i) ==
    Concluded(i) /\ Passed(i) /\ LastDeclared(i) /\ \E x \in Nodes : Names(i, x)

\* Somebody who has not declared cannot decide any more.
LEMMA FewNominations ==
    ASSUME ElectionTypes, PatientPool, NEW i \in Insts, Concluded(i), Passed(i),
           NEW n \in Nodes, OwnDeclaration(n, i) = None
    PROVE  ~hasNominationQuorum(el[n], i)
<1>. DEFINE S == Settlers(i)
            L == Last(i)
            V == Voters(el[n].nominations[i])
            c == Cardinality(Nodes)
            p == Cardinality(S)
            q == Cardinality(Nodes \ S)
            l == Cardinality(L)
            w == Cardinality(V)
<1>1. IsFiniteSet(Nodes) /\ S \subseteq Nodes /\ L \subseteq S /\ V \subseteq Nodes
  BY ElectionAssumption DEF Settlers, Last, Voters
<1>2. V \subseteq (Nodes \ S) \cup L
  <2>1. \A y \in V : Vote(n, "NOMINATE", i, y) # None /\ y \in Nodes
    BY DEF Voters, Vote, BallotsOf
  <2>2. n \in Nodes \ S
    BY DEF Settlers
  <2>. QED BY <1>1, <2>1, <2>2 DEF Passed
<1>3. \A a, b \in L : a = b
  BY DEF Concluded
<1>4. p >= quorum
  BY DEF Concluded
<1>. HIDE DEF S, L, V
<1>5. IsFiniteSet(S) /\ IsFiniteSet(Nodes \ S) /\ IsFiniteSet(L)
      /\ q = c - p /\ p \in Nat /\ q \in Nat /\ c \in Nat
  <2>1. Nodes \cap S = S /\ (Nodes \ S) \subseteq Nodes
    BY <1>1
  <2>2. IsFiniteSet(S) /\ IsFiniteSet(Nodes \ S)
    BY <1>1, <2>1, FS_Subset
  <2>3. Cardinality(Nodes \ S) = Cardinality(Nodes) - Cardinality(Nodes \cap S)
    BY <1>1, FS_Difference
  <2>4. IsFiniteSet(L)
    BY <1>1, <2>2, FS_Subset
  <2>. QED BY <1>1, <2>1, <2>2, <2>3, <2>4, FS_CardinalityType
<1>6. l \in Nat /\ l <= 1
  <2>1. CASE L = {}
    BY <2>1, FS_EmptySet
  <2>2. ASSUME NEW a \in L PROVE l \in Nat /\ l <= 1
    <3>1. L = {a}
      BY <1>3
    <3>2. Cardinality({a}) = 1
      BY FS_Singleton
    <3>. QED BY <3>1, <3>2
  <2>. QED BY <2>1, <2>2
<1>7. w \in Nat /\ w <= q + l
  <2>. DEFINE U == (Nodes \ S) \cup L
  <2>1. IsFiniteSet(U) /\ Cardinality(U) <= q + l /\ Cardinality(U) \in Nat
    <3>1. IsFiniteSet(U) /\ Cardinality(U) = Cardinality(Nodes \ S) + Cardinality(L)
                             - Cardinality((Nodes \ S) \cap L)
      BY <1>5, FS_Union
    <3>2. (Nodes \ S) \cap L = {}
      BY <1>1
    <3>3. Cardinality((Nodes \ S) \cap L) = 0
      BY <3>2, FS_EmptySet
    <3>. HIDE DEF U
    <3>. QED BY <1>5, <1>6, <3>1, <3>3
  <2>2. V \subseteq U
    BY <1>2
  <2>. HIDE DEF U
  <2>3. Cardinality(V) <= Cardinality(U) /\ Cardinality(V) \in Nat
    BY <2>1, <2>2, FS_Subset, FS_CardinalityType
  <2>. QED BY <1>5, <1>6, <2>1, <2>3
<1>8. c = 3 * f + 1 /\ f >= 1
  BY DEF PatientPool
<1>. HIDE DEF c, p, q, l, w
<1>9. ~(w >= quorum)
  BY <1>4, <1>5, <1>6, <1>7, <1>8, Thresholds
<1>. QED BY <1>9 DEF w, V, hasNominationQuorum

LEMMA HeardVote ==
    ASSUME ElectionTypes, NEW n \in Nodes, NEW o, NEW s, NEW H, Move(n, o, s, H),
           NEW t \in VoteTypes, NEW i \in Insts, NEW a \in Nodes, NEW b \in Nodes,
           Vote(a, t, i, b)' # None
    PROVE  Vote(a, t, i, b)' \in Votes
<1>1. el'[a] \in Elector(0)
  BY MoveElectors DEF Move, Turn, Plain, ElectionTypes
<1>. QED BY <1>1, BallotType DEF Vote

\* What a step changes of an instance that has been chosen.
LEMMA ChosenStep ==
    ASSUME ElectionTypes, PatientPool, NEW n \in Nodes, NEW o, NEW s, NEW H, Move(n, o, s, H),
           NEW i \in Insts, Concluded(i), Passed(i)
    PROVE  /\ \A a \in Nodes : OwnDeclaration(a, i)' = OwnDeclaration(a, i)
           /\ Settlers(i)' = Settlers(i) /\ Last(i)' = Last(i)
           /\ \A a \in Nodes : el[a].primaryName[i] # None => el'[a].primaryName[i] = el[a].primaryName[i]
           /\ \A a, r \in Nodes : OnWay(a, r, "PRIMARY", i)' \subseteq OnWay(a, r, "PRIMARY", i)
<1>0. "PRIMARY" \in VoteTypes
  BY DEF VoteTypes
<1>1. OwnDeclaration(n, i) = None => OwnDeclaration(n, i)' = None
  <2>. SUFFICES ASSUME OwnDeclaration(n, i) = None, OwnDeclaration(n, i)' # None PROVE FALSE
    OBVIOUS
  <2>1. Cast(n, el[n], el'[n], "PRIMARY", i)
    BY DEF Cast, OwnDeclaration, Vote
  <2>2. \E v : Decides(n, el[n], i, v)
    BY <2>1 DEF Move, Turn, Declares
  <2>3. hasNominationQuorum(el[n], i)
    BY <2>2 DEF Decides
  <2>. QED BY <2>3, FewNominations
<1>2. \A a \in Nodes : OwnDeclaration(a, i)' = OwnDeclaration(a, i)
  BY <1>0, <1>1, MoveVotes DEF OwnDeclaration
<1>3. Settlers(i)' = Settlers(i)
  BY <1>2 DEF Settlers
<1>4. \A a, r \in Nodes : OnWay(a, r, "PRIMARY", i)' \subseteq OnWay(a, r, "PRIMARY", i)
  <2>. SUFFICES ASSUME NEW a \in Nodes, NEW r \in Nodes, NEW v \in OnWay(a, r, "PRIMARY", i)',
                       v \notin OnWay(a, r, "PRIMARY", i)
                PROVE  FALSE
    OBVIOUS
  <2>1. OwnDeclaration(n, i) = None /\ v = OwnDeclaration(n, i)'
    BY <1>0, MoveMail DEF OwnDeclaration
  <2>2. v \in Votes
    BY DEF OnWay
  <2>. QED BY <1>1, <2>1, <2>2, NoneIsNoVote
<1>5. \A a \in Nodes : el[a].primaryName[i] # None => el'[a].primaryName[i] = el[a].primaryName[i]
  <2>1. el[n].primaryName[i] # None => el'[n].primaryName[i] = el[n].primaryName[i]
    BY DEF Move, Turn, Follows
  <2>. QED BY <2>1, MoveElectors
<1>6. \A a \in Settlers(i) : el'[a].primaryName[i] = el[a].primaryName[i]
  <2>1. ASSUME n \in Settlers(i), el'[n].primaryName[i] # el[n].primaryName[i] PROVE FALSE
    <3>1. PICK v \in Votes : VoteMsg("PRIMARY", i, v) \in H
      BY <2>1 DEF Move, Turn, Follows
    <3>2. v \in OnWay(s, n, "PRIMARY", i) /\ s \in Nodes
      BY <1>0, <3>1, MoveMail DEF Move
    <3>. QED BY <2>1, <3>2 DEF Concluded
  <2>. QED BY <2>1, MoveElectors DEF Settlers
<1>7. Last(i)' = Last(i)
  BY <1>3, <1>6 DEF Last
<1>. QED BY <1>2, <1>3, <1>4, <1>5, <1>7

LEMMA ConcludedKept ==
    ASSUME ElectionTypes, PatientPool, NEW n \in Nodes, NEW o, NEW s, NEW H, Move(n, o, s, H),
           NEW i \in Insts, Concluded(i), Passed(i)
    PROVE  Concluded(i)'
<1>0. "PRIMARY" \in VoteTypes /\ "NOMINATE" \in VoteTypes
  BY DEF VoteTypes
<1>1. /\ Settlers(i)' = Settlers(i) /\ Last(i)' = Last(i) /\ conns' = conns /\ quorum' = quorum
      /\ \A a, r \in Nodes : OnWay(a, r, "PRIMARY", i)' \subseteq OnWay(a, r, "PRIMARY", i)
  BY ChosenStep, MoveElectors DEF quorum, f
<1>2. Settlers(i) \subseteq Nodes
  BY DEF Settlers
<1>3. ASSUME NEW a \in Settlers(i), NEW b \in Settlers(i)
      PROVE  Vote(a, "PRIMARY", i, b)' # None /\ OwnVote(a, i)' # None
  <2>1. Vote(a, "PRIMARY", i, b) # None /\ OwnVote(a, i) # None
    BY DEF Concluded
  <2>. QED BY <1>0, <1>2, <2>1, MoveVotes DEF OwnVote
<1>4. \A a, r \in Nodes : OnWay(a, r, "PRIMARY", i)' # {} => r \notin Settlers(i)
  <2>1. \A a, r \in Nodes : OnWay(a, r, "PRIMARY", i) # {} => r \notin Settlers(i)
    BY DEF Concluded
  <2>. QED BY <1>1, <2>1
<1>5. /\ Settlers(i)' \subseteq conns' /\ Cardinality(Settlers(i)') >= quorum'
      /\ \A a, b \in Last(i)' : a = b
  BY <1>1 DEF Concluded
<1>6. /\ \A a, b \in Settlers(i)' : Vote(a, "PRIMARY", i, b)' # None /\ OwnVote(a, i)' # None
      /\ \A a, r \in Nodes : OnWay(a, r, "PRIMARY", i)' # {} => r \notin Settlers(i)'
  BY <1>1, <1>3, <1>4
<1>. QED BY <1>5, <1>6 DEF Concluded

LEMMA PassedKept ==
    ASSUME ElectionTypes, PatientPool, NEW n \in Nodes, NEW o, NEW s, NEW H, Move(n, o, s, H),
           NEW i \in Insts, Concluded(i), Passed(i)
    PROVE  Passed(i)'
<1>0. "PRIMARY" \in VoteTypes /\ "NOMINATE" \in VoteTypes
  BY DEF VoteTypes
<1>1. /\ Settlers(i)' = Settlers(i) /\ Last(i)' = Last(i) /\ conns' = conns
      /\ Settlers(i) \subseteq Nodes /\ conns \subseteq Nodes
  BY ChosenStep, MoveElectors DEF Settlers
<1>2. ASSUME NEW a \in Nodes, NEW j \in Nodes \ Settlers(i),
             Vote(j, "NOMINATE", i, a)' # None \/ OnWay(a, j, "NOMINATE", i)' # {}
      PROVE  a \notin Settlers(i) \/ a \in Last(i)
  <2>1. CASE Vote(j, "NOMINATE", i, a) # None \/ OnWay(a, j, "NOMINATE", i) # {}
    BY <2>1 DEF Passed
  <2>2. CASE a = j
    BY <2>2
  <2>3. CASE Vote(j, "NOMINATE", i, a) = None /\ Vote(j, "NOMINATE", i, a)' # None /\ a # j
    <3>1. j = n /\ a = s /\ VoteMsg("NOMINATE", i, Vote(n, "NOMINATE", i, a)') \in H
      BY <1>0, <2>3, MoveVotes
    <3>2. Vote(n, "NOMINATE", i, a)' \in Votes
      BY <1>0, <2>3, <3>1, HeardVote
    <3>3. OnWay(a, j, "NOMINATE", i) # {}
      BY <1>0, <3>1, <3>2, MoveMail
    <3>. QED BY <3>3 DEF Passed
  <2>4. ASSUME NEW v \in OnWay(a, j, "NOMINATE", i)', v \notin OnWay(a, j, "NOMINATE", i)
        PROVE  a \notin Settlers(i)
    <3>1. a = n /\ OwnVote(n, i) = None
      BY <1>0, <2>4, MoveMail DEF OwnVote
    <3>. QED BY <3>1 DEF Concluded
  <2>. QED BY <1>2, <2>1, <2>2, <2>3, <2>4
<1>3. ASSUME NEW a \in Settlers(i), NEW j \in conns, j \notin Settlers(i)
      PROVE  Vote(j, "PRIMARY", i, a)' # None \/ OnWay(a, j, "PRIMARY", i)' # {}
  <2>1. CASE Vote(j, "PRIMARY", i, a) # None
    BY <1>0, <1>1, <2>1, MoveVotes
  <2>2. ASSUME NEW v \in OnWay(a, j, "PRIMARY", i), v \notin OnWay(a, j, "PRIMARY", i)'
        PROVE  Vote(j, "PRIMARY", i, a)' # None
    <3>1. a = s /\ j = n /\ VoteMsg("PRIMARY", i, v) \in H /\ v \in Votes
      BY <1>0, <1>1, <2>2, MoveMail DEF OnWay
    <3>2. a # n
      BY <1>3, <3>1
    <3>. QED BY <1>0, <1>1, <3>1, <3>2, MoveVotes
  <2>. QED BY <1>3, <2>1, <2>2 DEF Passed
<1>4. ASSUME NEW a \in Nodes PROVE el'[a].timer[i] = "none"
  <2>1. el[a].timer[i] = "none"
    BY DEF Passed
  <2>2. CASE a # n
    BY <2>1, <2>2, MoveElectors
  <2>3. CASE a = n
    <3>. SUFFICES ASSUME el'[n].timer[i] # "none" PROVE FALSE
      BY <2>3
    <3>1. hasNominationQuorum(el[n], i) /\ OwnDeclaration(n, i)' = None
      BY <2>1, <2>3 DEF Move, Turn, Declares, OwnDeclaration, Vote, BallotsOf
    <3>2. OwnDeclaration(n, i) = None
      BY <3>1, ChosenStep
    <3>. QED BY <3>1, <3>2, FewNominations
  <2>. QED BY <2>2, <2>3
<1>5. /\ \A a \in Nodes, j \in Nodes \ Settlers(i)' :
            Vote(j, "NOMINATE", i, a)' # None \/ OnWay(a, j, "NOMINATE", i)' # {}
              => a \notin Settlers(i)' \/ a \in Last(i)'
      /\ \A a \in Settlers(i)', j \in conns' :
            j \notin Settlers(i)'
              => Vote(j, "PRIMARY", i, a)' # None \/ OnWay(a, j, "PRIMARY", i)' # {}
  BY <1>1, <1>2, <1>3
<1>. QED BY <1>4, <1>5 DEF Passed

LEMMA NamesKept ==
    ASSUME ElectionTypes, ElectionTypes', PatientPool, NEW n \in Nodes, NEW o, NEW s, NEW H,
           Move(n, o, s, H), NEW i \in Insts, Concluded(i), Passed(i), NEW x \in Nodes, Names(i, x)
    PROVE  Names(i, x)'
<1>0. "PRIMARY" \in VoteTypes
  BY DEF VoteTypes
<1>1. ASSUME NEW a \in Nodes, NEW b \in Nodes, Vote(a, "PRIMARY", i, b)' # None
      PROVE  Vote(a, "PRIMARY", i, b)'.name = x
  <2>1. CASE Vote(a, "PRIMARY", i, b) # None
    BY <1>0, <2>1, MoveVotes DEF Names
  <2>2. CASE Vote(a, "PRIMARY", i, b) = None /\ a = b
    BY <1>1, <2>2, ChosenStep DEF OwnDeclaration
  <2>3. CASE Vote(a, "PRIMARY", i, b) = None /\ a # b
    <3>1. a = n /\ b = s /\ VoteMsg("PRIMARY", i, Vote(n, "PRIMARY", i, b)') \in H
      BY <1>0, <1>1, <2>3, MoveVotes
    <3>2. Vote(n, "PRIMARY", i, b)' \in Votes
      BY <1>0, <1>1, <3>1, HeardVote
    <3>. QED BY <1>0, <3>1, <3>2, MoveMail DEF Names
  <2>. QED BY <2>1, <2>2, <2>3
<1>2. ASSUME NEW a \in Nodes, NEW r \in Nodes, NEW v \in OnWay(a, r, "PRIMARY", i)' PROVE v.name = x
  BY ChosenStep DEF Names
<1>3. ASSUME NEW a \in Nodes PROVE el'[a].primaryName[i] \in {None, x}
  <2>1. CASE el'[a].primaryName[i] = el[a].primaryName[i]
    BY <2>1 DEF Names
  <2>2. CASE el'[a].primaryName[i] # el[a].primaryName[i]
    <3>1. a = n
      BY <2>2, MoveElectors
    <3>2. PICK w \in MostCommon(el'[n].primaryDeclarations[i]) : el'[n].primaryName[i] = w.name
      BY <2>2, <3>1 DEF Move, Turn, Follows
    <3>3. PICK y \in Nodes : el'[n].primaryDeclarations[i][y] = w /\ w # None
      BY MostCommonIsCast
    <3>4. Vote(n, "PRIMARY", i, y)' = w
      BY <3>3 DEF Vote, BallotsOf
    <3>. QED BY <1>1, <3>1, <3>2, <3>3, <3>4
  <2>. QED BY <2>1, <2>2
<1>. QED BY <1>1, <1>2, <1>3 DEF Names

LEMMA ChosenKept ==
    ASSUME ElectionTypes, ElectionTypes', PatientPool, NEW n \in Nodes, NEW o, NEW s, NEW H,
           Move(n, o, s, H), NEW i \in Insts, Chosen(i)
    PROVE  Chosen(i)'
<1>1. Concluded(i) /\ Passed(i) /\ LastDeclared(i)
  BY DEF Chosen
<1>2. PICK x \in Nodes : Names(i, x)
  BY DEF Chosen
<1>3. ASSUME NEW a \in Nodes, LastToDeclare(a, i)' PROVE OwnDeclaration(a, i)' # None
  BY <1>1, <1>3, LastStep, ChosenStep DEF LastDeclared
<1>4. Concluded(i)' /\ Passed(i)' /\ Names(i, x)' /\ LastDeclared(i)'
  BY <1>1, <1>2, <1>3, ConcludedKept, PassedKept, NamesKept DEF LastDeclared
<1>. QED BY <1>4 DEF Chosen
-----------------------------------------------------------------------------
(* Who nominates: a node proposes itself for one instance after the other.  *)

SelfVoted(x, i) == OwnVote(x, i) # None /\ OwnVote(x, i).name = x

\* Whoever is voted for, or leads, has nominated itself.
Candidates ==
    /\ \A t \in VoteTypes, i \in Insts, n, s \in Nodes, v \in Votes :
          Vote(n, t, i, s) = v => SelfVoted(v.name, i)
    /\ \A t \in VoteTypes, i \in Insts, s, r \in Nodes :
          \A v \in OnWay(s, r, t, i) : SelfVoted(v.name, i)
    /\ \A i \in Insts, n, x \in Nodes : el[n].primaryName[i] = x => SelfVoted(x, i)
    /\ \A n \in Nodes : SelfOK(n, el[n])

\* The nodes that are there from the start take part, and nobody forgets to.
Started ==
    \A n \in Nodes : /\ Willing(n, el[n])
                     /\ n \in pool.up => n \in conns /\ el[n].participating

LEMMA SelfVotedKept ==
    ASSUME ElectionTypes, NEW n \in Nodes, NEW o, NEW s, NEW H, Move(n, o, s, H), NEW i \in Insts,
           NEW x, x \in Nodes, SelfVoted(x, i)
    PROVE  SelfVoted(x, i)'
<1>1. "NOMINATE" \in VoteTypes
  BY DEF VoteTypes
<1>. QED BY <1>1, MoveVotes DEF SelfVoted, OwnVote

LEMMA VotesOfCandidates ==
    ASSUME ElectionTypes, NEW n \in Nodes, NEW o, NEW s, NEW H, Move(n, o, s, H), Candidates,
           NEW t \in VoteTypes, NEW i \in Insts, NEW a \in Nodes, NEW b \in Nodes,
           NEW v \in Votes, Vote(a, t, i, b)' = v
    PROVE  SelfVoted(v.name, i)'
<1>0. v # None /\ v.name \in Nodes /\ s \in Nodes
  BY NoneIsNoVote DEF Votes, Move
<1>1. CASE Vote(a, t, i, b) # None
  <2>1. v = Vote(a, t, i, b)
    BY <1>1, MoveVotes
  <2>2. SelfVoted(v.name, i)
    BY <1>1, <2>1 DEF Candidates
  <2>. QED BY <1>0, <2>2, SelfVotedKept
<1>2. CASE VoteMsg(t, i, v) \in H
  <2>1. v \in OnWay(s, n, t, i)
    BY <1>0, <1>2, MoveMail
  <2>2. SelfVoted(v.name, i)
    BY <1>0, <2>1 DEF Candidates
  <2>. QED BY <1>0, <2>2, SelfVotedKept
<1>3. CASE Vote(a, t, i, b) = None /\ a # b /\ VoteMsg(t, i, v) \notin H
  BY <1>0, <1>3, MoveVotes
<1>4. CASE Vote(a, t, i, b) = None /\ a = b /\ VoteMsg(t, i, v) \notin H
  <2>1. a = n /\ Cast(n, el[n], el'[n], t, i)
    BY <1>0, <1>4, MoveVotes DEF Cast, Vote
  <2>2. CASE t = "NOMINATE"
    <3>1. v = el'[n].nominations[i][n]
      BY <1>4, <2>1, <2>2 DEF Vote, BallotsOf
    <3>2. v.name = n
      BY <1>4, <2>1, <2>2, <3>1 DEF Move, Turn, Supports
    <3>3. OwnVote(n, i)' = v
      BY <1>4, <2>1, <2>2 DEF OwnVote
    <3>4. SelfVoted(n, i)'
      BY <1>0, <3>2, <3>3 DEF SelfVoted
    <3>. QED BY <3>2, <3>4
  <2>3. CASE t = "PRIMARY"
    <3>1. v = el'[n].primaryDeclarations[i][n]
      BY <1>4, <2>1, <2>3 DEF Vote, BallotsOf
    <3>2. Decides(n, el[n], i, v)
      BY <2>1, <2>3, <3>1 DEF Move, Turn, Declares
    <3>3. v \in MostCommon(el[n].nominations[i])
      BY <3>2 DEF Decides
    <3>4. PICK y \in Nodes : el[n].nominations[i][y] = v /\ v # None
      BY <3>3, MostCommonIsCast
    <3>5. Vote(n, "NOMINATE", i, y) = v /\ "NOMINATE" \in VoteTypes
      BY <3>4 DEF Vote, BallotsOf, VoteTypes
    <3>6. SelfVoted(v.name, i)
      BY <3>4, <3>5 DEF Candidates
    <3>. QED BY <1>0, <3>6, SelfVotedKept
  <2>. QED BY <2>2, <2>3 DEF VoteTypes
<1>. QED BY <1>1, <1>2, <1>3, <1>4

LEMMA CandidatesKept ==
    ASSUME ElectionTypes, ElectionTypes', NEW n \in Nodes, NEW o, NEW s, NEW H, Move(n, o, s, H),
           Candidates
    PROVE  Candidates'
<1>0. Insts' = Insts /\ s \in Nodes
  BY MoveElectors DEF Move
<1>1. ASSUME NEW t \in VoteTypes, NEW i \in Insts, NEW a \in Nodes, NEW b \in Nodes
      PROVE  \A v \in Votes : Vote(a, t, i, b)' = v => SelfVoted(v.name, i)'
  BY VotesOfCandidates
<1>2. ASSUME NEW t \in VoteTypes, NEW i \in Insts, NEW a \in Nodes, NEW r \in Nodes,
             NEW v \in OnWay(a, r, t, i)'
      PROVE  SelfVoted(v.name, i)'
  <2>0. v \in Votes /\ v.name \in Nodes /\ v # None
    BY NoneIsNoVote DEF OnWay, Votes
  <2>1. CASE v \in OnWay(a, r, t, i)
    <3>1. SelfVoted(v.name, i)
      BY <2>1 DEF Candidates
    <3>. QED BY <2>0, <3>1, SelfVotedKept
  <2>2. CASE v = Vote(n, t, i, n)'
    BY <2>0, <2>2, <1>1
  <2>. QED BY <2>1, <2>2, MoveMail
<1>3. ASSUME NEW i \in Insts, NEW a \in Nodes, NEW x \in Nodes, el'[a].primaryName[i] = x
      PROVE  SelfVoted(x, i)'
  <2>1. CASE el'[a].primaryName[i] = el[a].primaryName[i]
    <3>1. SelfVoted(x, i)
      BY <1>3, <2>1 DEF Candidates
    <3>. QED BY <3>1, SelfVotedKept
  <2>2. CASE el'[a].primaryName[i] # el[a].primaryName[i]
    <3>1. a = n
      BY <2>2, MoveElectors
    <3>2. PICK w \in MostCommon(el'[n].primaryDeclarations[i]) : el'[n].primaryName[i] = w.name
      BY <2>2, <3>1 DEF Move, Turn, Follows
    <3>3. PICK y \in Nodes : el'[n].primaryDeclarations[i][y] = w /\ w # None
      BY MostCommonIsCast
    <3>4. Vote(n, "PRIMARY", i, y)' = w /\ "PRIMARY" \in VoteTypes
      BY <3>3 DEF Vote, BallotsOf, VoteTypes
    <3>5. w \in Votes
      BY <3>3, <3>4, HeardVote
    <3>. QED BY <1>1, <1>3, <3>1, <3>2, <3>4, <3>5
  <2>. QED BY <2>1, <2>2
<1>4. ASSUME NEW a \in Nodes PROVE SelfOK(a, el[a])'
  <2>1. SelfOK(a, el[a])' <=> SelfOK(a, el'[a])
    BY <1>0 DEF SelfOK, SelfProposed
  <2>2. SelfOK(a, el[a])
    BY DEF Candidates
  <2>3. CASE a = n
    BY <2>1, <2>2, <2>3 DEF Move, Turn
  <2>4. CASE a # n
    <3>1. el'[a] = el[a]
      BY <2>4, MoveElectors
    <3>. QED BY <2>1, <2>2, <3>1
  <2>. QED BY <2>3, <2>4
<1>5. /\ \A t \in VoteTypes, i \in Insts, a, r \in Nodes :
            \A v \in OnWay(a, r, t, i)' : SelfVoted(v.name, i)'
      /\ \A t \in VoteTypes, i \in Insts, a, b \in Nodes, v \in Votes :
            Vote(a, t, i, b)' = v => SelfVoted(v.name, i)'
      /\ \A i \in Insts, a, x \in Nodes : el'[a].primaryName[i] = x => SelfVoted(x, i)'
  BY <1>1, <1>2, <1>3
<1>. QED BY <1>0, <1>4, <1>5 DEF Candidates

LEMMA StartedKept ==
    ASSUME ElectionTypes, NEW n \in Nodes, NEW o, NEW s, NEW H, Move(n, o, s, H), Started
    PROVE  Started'
<1>. SUFFICES ASSUME NEW a \in Nodes
              PROVE  /\ Willing(a, el'[a])
                     /\ a \in pool.up => a \in conns /\ el'[a].participating
  BY MoveElectors DEF Started, Willing, hasPrimaryReplica, Undecided, was_master_primary_in_prev_view
<1>1. Willing(a, el[a]) /\ (a \in pool.up => a \in conns /\ el[a].participating)
  BY DEF Started
<1>. QED BY <1>1, MoveElectors DEF Move, Turn

LEMMA CalmKept ==
    ASSUME ElectionTypes, NEW n \in Nodes, NEW o, NEW s, NEW H, Move(n, o, s, H), Calm
    PROVE  Calm'
<1>0. /\ conns' = conns /\ pool' = pool /\ Insts' = Insts /\ quorum' = quorum
      /\ isReady' = isReady /\ VoteMail' = VoteMail /\ Elector(0)' = Elector(0)
      /\ n \in conns /\ isReady /\ s \in Nodes
  BY MoveElectors, SamePool DEF quorum, f, isReady, nodeCount, VoteMail, Move
<1>1. ASSUME NEW a \in Nodes PROVE Plain(el[a])'
  <2>1. Plain(el'[a])
    BY MoveElectors DEF Calm, Move, Turn
  <2>. QED BY <1>0, <2>1 DEF Plain
<1>2. ASSUME NEW a \in Nodes, NEW r \in Nodes, NEW m, Holds(chan'[a][r], m)
      PROVE  m \in VoteMail /\ a # r /\ a \in conns /\ r \in conns
  <2>1. CASE Holds(chan[a][r], m)
    BY <2>1 DEF Calm
  <2>2. CASE a = n /\ r \in conns \ {n} /\ Holds(o, m)
    <3>1. PICK t \in VoteTypes, j \in Insts :
              Cast(n, el[n], el'[n], t, j) /\ m = VoteMsg(t, j, Vote(n, t, j, n)')
      BY <2>2 DEF Move, Turn, Speaks, Vote
    <3>2. Vote(n, t, j, n)' \in Votes
      BY <3>1, HeardVote DEF Cast, Vote
    <3>. QED BY <1>0, <2>2, <3>1, <3>2 DEF VoteMail
  <2>. QED BY <1>2, <2>1, <2>2 DEF Move, Flow
<1>3. ASSUME NEW t \in VoteTypes, NEW i \in Insts, NEW a \in Nodes, NEW b \in Nodes,
             Vote(a, t, i, b)' # None
      PROVE  a \in conns /\ b \in conns
  <2>1. CASE Vote(a, t, i, b) # None
    BY <2>1 DEF Calm
  <2>2. CASE Vote(a, t, i, b) = None /\ a = b
    BY <1>0, <1>3, <2>2, MoveVotes
  <2>3. CASE Vote(a, t, i, b) = None /\ a # b
    <3>1. a = n /\ b = s /\ VoteMsg(t, i, Vote(n, t, i, b)') \in H
      BY <1>3, <2>3, MoveVotes
    <3>2. Holds(chan[s][n], VoteMsg(t, i, Vote(n, t, i, b)'))
      BY <3>1 DEF Move, Flow
    <3>. QED BY <1>0, <3>1, <3>2 DEF Calm
  <2>. QED BY <2>1, <2>2, <2>3
<1>4. /\ \A a, r \in Nodes : \A m : Holds(chan'[a][r], m)
            => m \in VoteMail' /\ a # r /\ a \in conns' /\ r \in conns' /\ isReady'
      /\ \A t \in VoteTypes, i \in Insts', a, b \in Nodes :
            Vote(a, t, i, b)' # None => a \in conns' /\ b \in conns' /\ isReady'
  BY <1>0, <1>2, <1>3
<1>. QED BY <1>1, <1>4 DEF Calm
-----------------------------------------------------------------------------
(* The actions of Election are moves; Join is what happens at rest.         *)

\* A turn of n that is stored; c is what is on its way without what n has heard.
LEMMA StoredMove ==
    ASSUME ElectionTypes, NEW n \in conns, isReady, NEW s \in Nodes, NEW H, H # {} => s # n,
           NEW x, Turn(n, el[n], x, x.out, s, H), NEW c \in Mailboxes, Store(n, x, c),
           \A a, r \in Nodes : \A m : Holds(c[a][r], m) => Holds(chan[a][r], m),
           \A a, r \in Nodes : \A m :
              Holds(chan[a][r], m) => Holds(c[a][r], m) \/ (a = s /\ r = n /\ m \in H),
           \A m \in H : Holds(chan[s][n], m)
    PROVE  Move(n, x.out, s, H)
<1>. DEFINE z == [x EXCEPT !.out = <<>>]
            q == x.out
<1>1. /\ n \in Nodes /\ x \in Elector(0) /\ q \in Seq(ElectionMsg)
      /\ el' = [el EXCEPT ![n] = z] /\ chan' = Broadcast(c, n, q) /\ UNCHANGED <<pool, conns>>
      /\ el \in [Nodes -> Elector(0)]
  BY DEF ElectionTypes, Turn, Plain, Elector, ElectorIn, Store
<1>2. Turn(n, el[n], z, q, s, H)
  BY <1>1, TurnStored
<1>. HIDE DEF z
<1>3. el'[n] = z
  BY <1>1
<1>4. ASSUME NEW a \in Nodes, NEW r \in Nodes, NEW m
      PROVE  Holds(chan'[a][r], m) <=> \/ Holds(c[a][r], m)
                                       \/ a = n /\ r \in conns \ {n} /\ Holds(q, m)
  <2>1. chan'[a][r] = IF a = n /\ r \in conns \ {n} THEN c[a][r] \o q ELSE c[a][r]
    BY <1>1 DEF Broadcast, Mailboxes
  <2>2. c[a][r] \in Seq(ElectionMsg)
    BY DEF Mailboxes
  <2>3. Holds(c[a][r] \o q, m) <=> Holds(c[a][r], m) \/ Holds(q, m)
    BY <1>1, <2>2, HoldsConcat
  <2>. QED BY <2>1, <2>3
<1>. HIDE DEF q
<1>5. conns \subseteq Nodes
  BY DEF ElectionTypes
<1>6. Flow(n, q, s, H)
  BY <1>1, <1>4, <1>5 DEF Flow
<1>7. Move(n, q, s, H)
  BY <1>1, <1>2, <1>3, <1>6 DEF Move
<1>. QED BY <1>7 DEF q

LEMMA ReceiveMove ==
    ASSUME ElectionTypes, Calm, Candidates, NEW n \in Nodes, NEW s \in Nodes, Receive(n, s)
    PROVE  \E o, H : Move(n, o, s, H)
<1>. DEFINE m == Head(chan[s][n])
            c == [chan EXCEPT ![s][n] = Tail(@)]
            H == {m}
<1>0. n \in conns /\ isReady /\ chan[s][n] # <<>> /\ chan \in Mailboxes
      /\ chan[s][n] \in Seq(ElectionMsg)
  BY DEF Receive, ElectionTypes, Mailboxes
<1>1. PICK x \in IF m.viewNo = el[n].viewNo THEN Handle(n, el[n], m, s) ELSE {el[n]} :
          Store(n, x, c)
  BY DEF Receive
<1>2. c \in Mailboxes /\ m \in ElectionMsg
  BY <1>0, HeadMail
<1>3. \A w : Holds(chan[s][n], w) <=> w = m \/ Holds(Tail(chan[s][n]), w)
  BY <1>0, HoldsTail
<1>4. m \in VoteMail /\ s # n
  BY <1>3 DEF Calm
<1>5. PICK t \in VoteTypes, i \in Insts, v \in Votes : m = VoteMsg(t, i, v)
  BY <1>4 DEF VoteMail
<1>6. \A a, r \in Nodes : c[a][r] = IF a = s /\ r = n THEN Tail(chan[s][n]) ELSE chan[a][r]
  BY <1>0 DEF Mailboxes
<1>. HIDE DEF m, c
<1>7. /\ Plain(el[n]) /\ el[n].out = <<>> /\ el[n] \in Elector(0) /\ el[n].viewNo = 0
      /\ el[n].previous_master_primary = None
  <2>1. Plain(el[n]) /\ el[n].out = <<>>
    BY DEF Calm, ElectionTypes
  <2>. QED BY <2>1 DEF Plain, Elector, ElectorIn
<1>8. m.viewNo = 0 /\ m.type = t
  BY <1>5 DEF VoteMsg
<1>9. Turn(n, el[n], x, x.out, s, H)
  <2>1. CASE t = "NOMINATE"
    <3>1. x = processNominate(n, el[n], m, s)
      BY <1>1, <1>7, <1>8, <2>1 DEF Handle
    <3>2. Nominated(n, el[n], x, s, i, v)
      BY <1>4, <1>5, <1>7, <2>1, <3>1, NominateHeard
    <3>3. v.name = n => el[n].nominations[i][n] # None
      <4>1. v \in OnWay(s, n, t, i)
        BY <1>3, <1>5 DEF OnWay
      <4>2. SelfVoted(v.name, i)
        BY <4>1 DEF Candidates
      <4>. QED BY <4>2 DEF SelfVoted, OwnVote, Vote, BallotsOf
    <3>. QED BY <1>4, <1>5, <1>7, <2>1, <3>2, <3>3, TurnNominate
  <2>2. CASE t = "PRIMARY"
    <3>1. x \in processPrimary(n, el[n], m, s)
      BY <1>1, <1>7, <1>8, <2>2 DEF Handle
    <3>2. Noted(n, el[n], x, s, i, v)
      BY <1>5, <1>7, <2>2, <3>1, PrimaryHeard
    <3>. QED BY <1>4, <1>5, <1>7, <2>2, <3>2, TurnPrimary
  <2>. QED BY <2>1, <2>2 DEF VoteTypes
<1>10. Move(n, x.out, s, H)
  BY ZenonT(30), <1>0, <1>1, <1>2, <1>3, <1>4, <1>6, <1>9, StoredMove
<1>. QED BY <1>10

LEMMA RunActionsMove ==
    ASSUME ElectionTypes, Calm, NEW n \in Nodes, RunActions(n), SameRounds(el[n], el'[n])
    PROVE  \E o : Move(n, o, n, {})
<1>1. PICK x \in _serviceActions(n, el[n]) : Store(n, x, chan)
  BY DEF RunActions
<1>2. /\ Plain(el[n]) /\ el[n].out = <<>> /\ el[n] \in Elector(0)
      /\ chan \in Mailboxes /\ pool.instances \in Nat /\ n \in conns /\ isReady
  BY PoolTypes DEF Calm, Plain, ElectionTypes, RunActions
<1>3. \A j \in Insts : el[n].reElectionProposals[j][n] = None
  BY <1>2 DEF Plain, NoVotes
<1>4. x \in Elector(0)
  BY <1>1, <1>2, ServiceType, ViewNumbers
<1>5. SameRounds(el[n], x)
  <2>1. el'[n] = [x EXCEPT !.out = <<>>]
    BY <1>1 DEF Store, ElectionTypes
  <2>2. el'[n].reElectionRounds = x.reElectionRounds
    BY <1>4, <2>1 DEF Elector, ElectorIn
  <2>. QED BY <2>2 DEF SameRounds
<1>6. Acted(n, el[n], x)
  BY <1>1, <1>2, <1>3, <1>5, ActionsRun
<1>7. Turn(n, el[n], x, x.out, n, {})
  BY <1>2, <1>6, TurnRun
<1>8. Move(n, x.out, n, {})
  BY <1>1, <1>2, <1>7, StoredMove
<1>. QED BY <1>8

LEMMA CaughtUpMove ==
    ASSUME ElectionTypes, Calm, NEW n \in Nodes, CaughtUp(n)
    PROVE  Move(n, <<>>, n, {})
<1>. DEFINE x == scheduleElection(n, [el[n] EXCEPT !.participating = TRUE])
<1>1. el' = [el EXCEPT ![n] = x] /\ UNCHANGED <<pool, chan, conns>>
      /\ n \in conns /\ isReady /\ el \in [Nodes -> Elector(0)]
  BY DEF CaughtUp, ElectionTypes
<1>2. Turn(n, el[n], x, <<>>, n, {})
  <2>1. Plain(el[n]) /\ el[n].out = <<>>
    BY DEF Calm, ElectionTypes
  <2>2. TRUE \in BOOLEAN /\ (el[n].participating => TRUE)
    OBVIOUS
  <2>. QED BY <2>1, <2>2, TurnCaughtUp
<1>. HIDE DEF x
<1>3. el'[n] = x
  BY <1>1
<1>4. Flow(n, <<>>, n, {})
  BY <1>1, HoldsEmpty DEF Flow
<1>. QED BY <1>1, <1>2, <1>3, <1>4 DEF Move

LEMMA LaggedMail ==
    ASSUME NEW n \in Nodes, el[n] \in Elector(0), pool.instances \in Nat, NEW m
    PROVE  Holds(getElectionMsgsForLaggedNodes(n), m)
             <=> \E i \in Insts : Holds(getElectionMsgsForInstance(n, el[n], i), m)
<1>. DEFINE N == pool.instances
            part(i) == getElectionMsgsForInstance(n, el[n], i)
<1>0. N \in Nat /\ Insts = 0..(N - 1) /\ 0 \in Views
  BY ViewNumbers DEF Insts
<1>00. \A i \in Insts : part(i) \in Seq(ElectionMsg)
  BY <1>0, ElectionMsgsType
<1>1. PICK msgs :
          /\ msgs[0] = <<>> /\ msgs[N] = getElectionMsgsForLaggedNodes(n)
          /\ \A k \in 0..N : msgs[k] \in Seq(ElectionMsg)
          /\ \A k \in 1..N : msgs[k] = msgs[k - 1] \o part(k - 1)
  BY <1>0, LaggedSteps
<1>. DEFINE P(k) == Holds(msgs[k], m) <=> \E i \in Insts : i < k /\ Holds(part(i), m)
            S == {k \in 0..N : P(k)}
<1>. HIDE DEF N, part
<1>2. 0 \in S
  <2>1. P(0)
    BY <1>0, <1>1, HoldsEmpty
  <2>. QED BY <1>0, <2>1
<1>3. ASSUME NEW k \in 0..(N - 1), k \in S PROVE k + 1 \in S
  <2>1. k \in 0..N /\ k + 1 \in 1..N /\ k + 1 \in 0..N /\ (k + 1) - 1 = k /\ k \in Insts
    BY <1>0
  <2>2. msgs[k + 1] = msgs[k] \o part(k) /\ msgs[k] \in Seq(ElectionMsg)
        /\ part(k) \in Seq(ElectionMsg)
    BY <1>00, <1>1, <2>1
  <2>3. Holds(msgs[k + 1], m) <=> Holds(msgs[k], m) \/ Holds(part(k), m)
    BY <2>2, HoldsConcat
  <2>4. P(k)
    BY <1>3
  <2>5. \A i \in Insts : i < k + 1 <=> i < k \/ i = k
    BY <1>0
  <2>6. P(k + 1)
    BY <2>1, <2>3, <2>4, <2>5
  <2>. QED BY <2>1, <2>6
<1>. HIDE DEF S
<1>4. 0..N \subseteq S
  BY <1>0, <1>2, <1>3, InductionUpTo
<1>5. P(N)
  BY <1>0, <1>4 DEF S
<1>6. \A i \in Insts : i < N
  BY <1>0
<1>. QED BY <1>1, <1>5, <1>6 DEF part

\* What a node that was late hears of an instance from n.
Recalls(n, e, i, m) ==
    \/ /\ e.primaryName[i] # None
       /\ m = VoteMsg("PRIMARY", i, [name |-> e.primaryName[i], seq |-> e.lastOrdered])
    \/ /\ e.primaryName[i] = None
       /\ \E t \in VoteTypes : /\ BallotsOf(t, e)[i][n] # None
                               /\ m = VoteMsg(t, i, BallotsOf(t, e)[i][n])

LEMMA InstanceMail ==
    ASSUME NEW e \in Elector(0), NEW n \in Nodes, NEW i \in Insts, NEW m
    PROVE  Holds(getElectionMsgsForInstance(n, e, i), m) <=> Recalls(n, e, i, m)
<1>. DEFINE Own(t, b) == IF b[n] = None THEN <<>> ELSE << VoteMsg(t, i, b[n]) >>
            a == Own("NOMINATE", e.nominations[i])
            b == Own("PRIMARY", e.primaryDeclarations[i])
            w == [name |-> e.primaryName[i], seq |-> e.lastOrdered]
<1>0. e.viewNo = 0
  BY DEF Elector, ElectorIn
<1>1. getElectionMsgsForInstance(n, e, i) =
          IF e.primaryName[i] # None THEN << VoteMsg("PRIMARY", i, w) >> ELSE a \o b
  BY <1>0 DEF getElectionMsgsForInstance, VoteMsg
<1>2. \A z : Holds(<<z>>, m) <=> m = z
  BY DEF Holds
<1>3. /\ Holds(a, m) <=> e.nominations[i][n] # None /\ m = VoteMsg("NOMINATE", i, e.nominations[i][n])
      /\ Holds(b, m) <=> e.primaryDeclarations[i][n] # None
                         /\ m = VoteMsg("PRIMARY", i, e.primaryDeclarations[i][n])
  BY <1>2, HoldsEmpty
<1>4. PICK S : a \in Seq(S) /\ b \in Seq(S)
  <2>. DEFINE x == VoteMsg("NOMINATE", i, e.nominations[i][n])
              y == VoteMsg("PRIMARY", i, e.primaryDeclarations[i][n])
              S == {x, y}
  <2>1. a \in {<<>>, <<x>>} /\ b \in {<<>>, <<y>>} /\ x \in S /\ y \in S
    OBVIOUS
  <2>. HIDE DEF a, b, x, y, S
  <2>2. \A z \in S : <<z>> \in Seq(S)
    OBVIOUS
  <2>3. <<>> \in Seq(S)
    OBVIOUS
  <2>. QED BY <2>1, <2>2, <2>3
<1>. HIDE DEF a, b
<1>5. Holds(a \o b, m) <=> Holds(a, m) \/ Holds(b, m)
  BY <1>4, HoldsConcat
<1>. QED BY <1>1, <1>2, <1>3, <1>5 DEF Recalls, VoteTypes, BallotsOf

\* An instance that nobody has voted about.
Unvoted(i) ==
    /\ \A t \in VoteTypes, n, s \in Nodes : Vote(n, t, i, s) = None
    /\ \A t \in VoteTypes, s, r \in Nodes : OnWay(s, r, t, i) = {}
    /\ \A n \in Nodes : el[n].primaryName[i] = None /\ el[n].timer[i] = "none"

LEMMA QuietMail ==
    ASSUME Calm, Quiet, NEW s \in Nodes, NEW r \in Nodes, NEW t, NEW i
    PROVE  OnWay(s, r, t, i) = {}
<1>. SUFFICES ASSUME NEW v \in OnWay(s, r, t, i) PROVE FALSE
  OBVIOUS
<1>1. Holds(chan[s][r], VoteMsg(t, i, v))
  BY DEF OnWay
<1>2. r \in conns
  BY <1>1 DEF Calm
<1>3. chan[s][r] = <<>>
  BY <1>2 DEF Quiet
<1>. QED BY <1>1, <1>3, HoldsEmpty

LEMMA OneBeats ==
    ASSUME ElectionTypes, NEW i \in Insts, NEW v \in Votes, NEW w \in Votes, Beats(v, i), Beats(w, i)
    PROVE  v = w
<1>. SUFFICES ASSUME v # w PROVE FALSE
  OBVIOUS
<1>. DEFINE a == Cardinality(Supporters(v, i))
            b == Cardinality(Supporters(w, i))
            p == Cardinality(Possible(v, i))
            q == Cardinality(Possible(w, i))
<1>1. /\ Supporters(v, i) \subseteq Possible(v, i) /\ Supporters(w, i) \subseteq Possible(w, i)
      /\ Possible(v, i) \subseteq conns /\ Possible(w, i) \subseteq conns
  BY DEF Supporters, Possible
<1>2. a <= p /\ b <= q /\ a \in Nat /\ b \in Nat /\ p \in Nat /\ q \in Nat
  BY <1>1, ConnsFinite
<1>3. q < a /\ p < b
  BY DEF Beats
<1>. HIDE DEF a, b, p, q
<1>. QED BY <1>2, <1>3

\* A node without votes has no quorum of them.
LEMMA NoVotesNoQuorum ==
    ASSUME PatientPool, NEW e, NEW i \in Insts
    PROVE  /\ (\A s \in Nodes : e.nominations[i][s] = None) => ~hasNominationQuorum(e, i)
           /\ (\A s \in Nodes : e.primaryDeclarations[i][s] = None) => ~hasPrimaryQuorum(e, i)
<1>1. \A b : (\A s \in Nodes : b[s] = None) => Voters(b) = {}
  BY DEF Voters
<1>2. Cardinality({}) = 0 /\ ~(0 >= quorum)
  BY FS_EmptySet, Thresholds
<1>. QED BY <1>1, <1>2 DEF hasNominationQuorum, hasPrimaryQuorum

\* That is how the votes about it begin.
Beginnings == \A i \in Insts : Unvoted(i) => Voting(i)

LEMMA UnvotedIsVoting == PatientPool => Beginnings
<1>. SUFFICES ASSUME PatientPool, NEW i \in Insts, Unvoted(i) PROVE Voting(i)
  BY DEF Beginnings
<1>0. "NOMINATE" \in VoteTypes /\ "PRIMARY" \in VoteTypes /\ None \notin Votes
  BY NoneIsNoVote DEF VoteTypes
<1>1. \A a \in Nodes : ~hasNominationQuorum(el[a], i) /\ ~hasPrimaryQuorum(el[a], i)
  BY <1>0, NoVotesNoQuorum, VoteFields DEF Unvoted
<1>2. Told("NOMINATE", i) /\ Told("PRIMARY", i) /\ VotesFirst(i)
  BY <1>0 DEF Unvoted, Told, VotesFirst
<1>3. Ahead(i) /\ Led(i)
  BY <1>0 DEF Unvoted, Ahead, Led, OwnDeclaration
<1>4. Timed(i) /\ Due(i) /\ LastDeclared(i) /\ LastsApart(i)
  BY <1>1 DEF Unvoted, Timed, Due, LastDeclared, LastsApart, LastToDeclare
<1>. QED BY <1>2, <1>3, <1>4 DEF Voting

LEMMA NobodyVoted ==
    ASSUME ElectionTypes, Calm, Quiet, PatientPool, NEW i \in Insts, Voting(i),
           \A n \in Nodes : OwnVote(n, i) = None
    PROVE  Unvoted(i)
<1>0. "NOMINATE" \in VoteTypes /\ "PRIMARY" \in VoteTypes /\ None \notin Votes
  BY NoneIsNoVote DEF VoteTypes
<1>1. \A n, s \in Nodes : Vote(n, "NOMINATE", i, s) = None
  BY DEF Voting, VotesFirst
<1>2. \A n \in Nodes : OwnDeclaration(n, i) = None
  <2>. SUFFICES ASSUME NEW n \in Nodes, OwnDeclaration(n, i) # None PROVE FALSE
    OBVIOUS
  <2>1. PICK v \in Votes : OwnDeclaration(n, i) = v
    BY BallotType DEF OwnDeclaration, Vote, ElectionTypes
  <2>2. Beats(v, i)
    BY <2>1 DEF Voting, Ahead
  <2>3. PICK w \in Votes : w # v
    <3>1. [v EXCEPT !.seq = @ + 1] \in Votes /\ [v EXCEPT !.seq = @ + 1] # v
      BY DEF Votes
    <3>. QED BY <3>1
  <2>4. Supporters(v, i) = {} /\ Possible(w, i) \subseteq conns
    BY <1>0 DEF Supporters, ElectionTypes, Possible
  <2>5. Cardinality(Supporters(v, i)) = 0 /\ Cardinality(Possible(w, i)) \in Nat
    BY <2>4, ConnsFinite, FS_EmptySet
  <2>6. Cardinality(Possible(w, i)) < Cardinality(Supporters(v, i))
    BY <2>2, <2>3 DEF Beats
  <2>. DEFINE p == Cardinality(Possible(w, i))
  <2>7. p \in Nat /\ p < 0
    BY <2>5, <2>6
  <2>. HIDE DEF p
  <2>. QED BY <2>7
<1>3. \A n, s \in Nodes : Vote(n, "PRIMARY", i, s) = None
  BY <1>2 DEF Voting, Told, OwnDeclaration
<1>4. ASSUME NEW n \in Nodes PROVE el[n].primaryName[i] = None /\ el[n].timer[i] = "none"
  <2>1. ~hasNominationQuorum(el[n], i)
    BY <1>1, NoVotesNoQuorum DEF Vote, BallotsOf
  <2>. QED BY <1>2, <2>1 DEF Voting, Led, Timed
<1>5. \A t \in VoteTypes, s, r \in Nodes : OnWay(s, r, t, i) = {}
  BY QuietMail
<1>. QED BY <1>1, <1>3, <1>4, <1>5 DEF Unvoted, VoteTypes

\* When the pool has come to rest somebody's vote has made everybody vote.
LEMMA EverybodyVoted ==
    ASSUME ElectionTypes, Calm, Quiet, PatientPool, NEW i \in Insts, Voting(i),
           NEW n \in Nodes, OwnVote(n, i) # None
    PROVE  /\ n \in conns /\ isReady
           /\ \A r, s \in conns : Vote(r, "NOMINATE", i, s) # None
           /\ \A r, s \in conns : Vote(r, "PRIMARY", i, s) # None
<1>0. "NOMINATE" \in VoteTypes /\ "PRIMARY" \in VoteTypes /\ conns \subseteq Nodes
  BY DEF VoteTypes, ElectionTypes
<1>1. n \in conns /\ isReady
  BY <1>0 DEF Calm, OwnVote
<1>2. \A t \in VoteTypes : Told(t, i)
          => \A r, s \in conns : Vote(s, t, i, s) # None => Vote(r, t, i, s) # None
  <2>. SUFFICES ASSUME NEW t \in VoteTypes, Told(t, i), NEW r \in conns, NEW s \in conns,
                       Vote(s, t, i, s) # None
                PROVE  Vote(r, t, i, s) # None
    OBVIOUS
  <2>1. CASE r = s
    BY <2>1
  <2>2. CASE r # s
    <3>1. Vote(r, t, i, s) # None \/ OnWay(s, r, t, i) # {}
      BY <1>0, <2>2 DEF Told
    <3>. QED BY <1>0, <3>1, QuietMail
  <2>. QED BY <2>1, <2>2
<1>3. \A r \in conns : OwnVote(r, i) # None
  <2>1. \A r \in conns : Vote(r, "NOMINATE", i, n) # None
    BY <1>0, <1>1, <1>2 DEF Voting, OwnVote
  <2>. QED BY <1>0, <2>1 DEF Voting, VotesFirst
<1>4. \A r, s \in conns : Vote(r, "NOMINATE", i, s) # None
  BY <1>0, <1>2, <1>3 DEF Voting, OwnVote
<1>5. ASSUME NEW r \in conns PROVE OwnDeclaration(r, i) # None
  <2>1. Voters(el[r].nominations[i]) = conns
    <3>1. \A s \in Nodes : Vote(r, "NOMINATE", i, s) = el[r].nominations[i][s]
      BY VoteFields
    <3>2. \A s \in Nodes : Vote(r, "NOMINATE", i, s) # None <=> s \in conns
      BY <1>0, <1>4 DEF Calm
    <3>. QED BY <1>0, <3>1, <3>2 DEF Voters
  <2>2. hasNominationQuorum(el[r], i) /\ hasNominationsFromAll(el[r], i)
    BY <1>1, <2>1 DEF hasNominationQuorum, hasNominationsFromAll, isReady, nodeCount
  <2>3. i \notin el[r].decide
    BY DEF Quiet, HasActions
  <2>. QED BY <1>0, <2>2, <2>3 DEF Voting, Due
<1>6. \A r, s \in conns : Vote(r, "PRIMARY", i, s) # None
  BY <1>0, <1>2, <1>5 DEF Voting, OwnDeclaration
<1>. QED BY <1>1, <1>4, <1>6

LEMMA QuietInstance ==
    ASSUME ElectionTypes, Calm, Quiet, PatientPool, NEW i \in Insts, Voting(i)
    PROVE  Unvoted(i) \/ Chosen(i)
<1>. SUFFICES ASSUME NEW n \in Nodes, OwnVote(n, i) # None PROVE Chosen(i)
  BY NobodyVoted
<1>0. "NOMINATE" \in VoteTypes /\ "PRIMARY" \in VoteTypes /\ None \notin Votes /\ conns \subseteq Nodes
  BY NoneIsNoVote DEF VoteTypes, ElectionTypes
<1>1. /\ n \in conns /\ isReady
      /\ \A r, s \in conns : Vote(r, "NOMINATE", i, s) # None
      /\ \A r, s \in conns : Vote(r, "PRIMARY", i, s) # None
  BY EverybodyVoted
<1>2. \A t \in VoteTypes, r, s \in Nodes : Vote(r, t, i, s) # None => r \in conns /\ s \in conns
  BY DEF Calm
<1>3. Settlers(i) = conns /\ Last(i) \subseteq conns
  BY <1>0, <1>1, <1>2 DEF Settlers, OwnDeclaration, Last
<1>4. ASSUME NEW r \in conns PROVE hasPrimaryQuorum(el[r], i)
  <2>1. Voters(el[r].primaryDeclarations[i]) = conns
    <3>1. \A s \in Nodes : Vote(r, "PRIMARY", i, s) = el[r].primaryDeclarations[i][s]
      BY VoteFields
    <3>2. \A s \in Nodes : Vote(r, "PRIMARY", i, s) # None <=> s \in conns
      BY <1>0, <1>1, <1>2
    <3>. QED BY <1>0, <3>1, <3>2 DEF Voters
  <2>. QED BY <1>1, <2>1 DEF hasPrimaryQuorum, isReady, nodeCount
<1>5. Concluded(i)
  <2>1. Cardinality(Settlers(i)) >= quorum
    BY <1>1, <1>3 DEF isReady, nodeCount
  <2>2. \A a, b \in Last(i) : a = b
    <3>. SUFFICES ASSUME NEW a \in Last(i), NEW b \in Last(i), a # b PROVE FALSE
      OBVIOUS
    <3>1. LastToDeclare(a, i) /\ LastToDeclare(b, i) /\ a \in conns /\ b \in conns
      BY <1>3, <1>4 DEF LastToDeclare, Last
    <3>. QED BY <1>0, <1>1, <3>1 DEF Voting, LastsApart
  <2>3. \A s, r \in Nodes : OnWay(s, r, "PRIMARY", i) = {}
    BY QuietMail
  <2>. QED BY <1>1, <1>3, <2>1, <2>2, <2>3 DEF Concluded, OwnVote
<1>6. Passed(i)
  <2>1. \A s, j \in Nodes : OnWay(s, j, "NOMINATE", i) = {}
    BY QuietMail
  <2>2. \A s \in Nodes, j \in Nodes \ conns : Vote(j, "NOMINATE", i, s) = None
    BY <1>0, <1>2
  <2>3. ASSUME NEW a \in Nodes PROVE el[a].timer[i] = "none"
    <3>. SUFFICES ASSUME el[a].timer[i] # "none" PROVE FALSE
      OBVIOUS
    <3>1. OwnDeclaration(a, i) = None /\ hasNominationQuorum(el[a], i)
      BY DEF Voting, Timed
    <3>2. a \notin conns
      BY <1>1, <3>1 DEF OwnDeclaration
    <3>. QED BY <2>2, <3>1, <3>2, NoVotesNoQuorum, VoteFields
  <2>. QED BY <1>3, <2>1, <2>2, <2>3 DEF Passed
<1>7. PICK v \in Votes : OwnDeclaration(n, i) = v
  <2>1. OwnDeclaration(n, i) # None
    BY <1>1 DEF OwnDeclaration
  <2>. QED BY <2>1, BallotType DEF OwnDeclaration, Vote, ElectionTypes
<1>8. \A s \in Nodes : OwnDeclaration(s, i) # None => OwnDeclaration(s, i) = v
  <2>. SUFFICES ASSUME NEW s \in Nodes, OwnDeclaration(s, i) # None PROVE OwnDeclaration(s, i) = v
    OBVIOUS
  <2>1. PICK w \in Votes : OwnDeclaration(s, i) = w
    BY BallotType DEF OwnDeclaration, Vote, ElectionTypes
  <2>2. Beats(v, i) /\ Beats(w, i)
    BY <1>7, <2>1 DEF Voting, Ahead
  <2>. QED BY <2>1, <2>2, OneBeats
<1>9. Names(i, v.name) /\ v.name \in Nodes
  <2>1. \A a, s \in Nodes : Vote(a, "PRIMARY", i, s) # None => Vote(a, "PRIMARY", i, s) = v
    BY <1>8 DEF Voting, Told, OwnDeclaration
  <2>2. \A s, r \in Nodes : OnWay(s, r, "PRIMARY", i) = {}
    BY QuietMail
  <2>3. \A a \in Nodes : el[a].primaryName[i] \in {None, v.name}
    BY <1>8 DEF Voting, Led
  <2>. QED BY <2>1, <2>2, <2>3 DEF Names, Votes
<1>. QED BY <1>5, <1>6, <1>9 DEF Chosen, Voting

\* An elector of n that may have been woken to start an election.
Woken(n, e, x) ==
    /\ \E b \in BOOLEAN : x = [e EXCEPT !.start = b]
    /\ Willing(n, e) => Willing(n, x)

LEMMA WokenFields ==
    ASSUME NEW n \in Nodes, NEW e \in Elector(0), NEW x, Woken(n, e, x)
    PROVE  /\ x \in Elector(0) /\ x.nominations = e.nominations
           /\ x.primaryDeclarations = e.primaryDeclarations /\ x.timer = e.timer
           /\ x.reElectionProposals = e.reElectionProposals
           /\ x.replicaNominatedForItself = e.replicaNominatedForItself
           /\ x.previous_master_primary = e.previous_master_primary
           /\ x.primaryName = e.primaryName /\ x.decide = e.decide /\ x.nominate = e.nominate
           /\ x.delayed = e.delayed /\ x.participating = e.participating
<1>1. PICK b \in BOOLEAN : x = [e EXCEPT !.start = b]
  BY DEF Woken
<1>. QED BY <1>1 DEF Elector, ElectorIn

\* The node n joins; those that are enough now wake and send it their mail.
Joined(n) ==
    /\ n \notin conns /\ conns' = conns \cup {n} /\ pool' = pool
    /\ \A x \in Nodes : Woken(x, el[x], el'[x])
    /\ \A s, r \in Nodes :
          ~(s \in conns /\ r = n /\ isReady') => chan'[s][r] = chan[s][r]
    /\ \A s \in conns : \A m : isReady'
          => (Holds(chan'[s][n], m) <=> \E i \in Insts : Recalls(s, el[s], i, m))

LEMMA JoinIsJoined ==
    ASSUME ElectionTypes, NEW n \in Nodes, Join(n)
    PROVE  Joined(n)
<1>. DEFINE ready == Cardinality(conns \cup {n}) >= quorum
<1>1. /\ conns' = conns \cup {n} /\ pool' = pool /\ n \notin conns
      /\ el' = [x \in Nodes |-> IF x \in conns' /\ ready THEN scheduleElection(x, el[x])
                                ELSE el[x]]
      /\ chan' = [s \in Nodes |-> [r \in Nodes |->
                     IF s \in conns /\ r = n /\ ready THEN getElectionMsgsForLaggedNodes(s)
                     ELSE chan[s][r]]]
  BY DEF Join, Connected
<1>2. isReady' <=> ready
  BY <1>1 DEF isReady, nodeCount, quorum, f
<1>. HIDE DEF ready
<1>3. ASSUME NEW x \in Nodes PROVE Woken(x, el[x], el'[x])
  <2>0. el[x] \in Elector(0)
    BY DEF ElectionTypes
  <2>. DEFINE y == scheduleElection(x, el[x])
  <2>1. Woken(x, el[x], y)
    BY <2>0, ScheduledIsWilling DEF Woken
  <2>2. Woken(x, el[x], el[x])
    <3>1. el[x].start \in BOOLEAN /\ el[x] = [el[x] EXCEPT !.start = el[x].start]
      BY <2>0 DEF Elector, ElectorIn
    <3>. QED BY <3>1 DEF Woken
  <2>. HIDE DEF y
  <2>3. el'[x] \in {y, el[x]}
    BY <1>1 DEF y
  <2>. QED BY <2>1, <2>2, <2>3
<1>4. ASSUME NEW s \in conns, NEW m, ready
      PROVE  Holds(chan'[s][n], m) <=> \E i \in Insts : Recalls(s, el[s], i, m)
  <2>1. s \in Nodes /\ el[s] \in Elector(0) /\ pool.instances \in Nat
    BY PoolTypes DEF ElectionTypes
  <2>2. chan'[s][n] = getElectionMsgsForLaggedNodes(s)
    BY <1>1, <1>4, <2>1
  <2>. QED BY <2>1, <2>2, LaggedMail, InstanceMail
<1>5. \A s, r \in Nodes : ~(s \in conns /\ r = n /\ ready) => chan'[s][r] = chan[s][r]
  BY <1>1
<1>. QED BY <1>1, <1>2, <1>3, <1>4, <1>5 DEF Joined

LEMMA JoinVotes ==
    ASSUME ElectionTypes, NEW n \in Nodes, Joined(n)
    PROVE  /\ \A a, b \in Nodes : \A t, i : Vote(a, t, i, b)' = Vote(a, t, i, b)
           /\ \A a \in Nodes : /\ el'[a].primaryName = el[a].primaryName
                               /\ el'[a].timer = el[a].timer /\ el'[a].decide = el[a].decide
                               /\ el'[a].nominations = el[a].nominations
                               /\ el'[a].primaryDeclarations = el[a].primaryDeclarations
           /\ Insts' = Insts /\ quorum' = quorum /\ conns \subseteq Nodes
<1>1. \A a \in Nodes : /\ el'[a].primaryName = el[a].primaryName
                       /\ el'[a].timer = el[a].timer /\ el'[a].decide = el[a].decide
                       /\ el'[a].nominations = el[a].nominations
                       /\ el'[a].primaryDeclarations = el[a].primaryDeclarations
  BY WokenFields DEF Joined, ElectionTypes
<1>. QED BY <1>1, SamePool DEF Joined, Vote, BallotsOf, quorum, f, ElectionTypes

\* What is on its way for instance i after n has joined.
LEMMA JoinMail ==
    ASSUME ElectionTypes, Calm, NEW n \in Nodes, Joined(n), NEW s \in Nodes, NEW r \in Nodes,
           NEW t \in VoteTypes, NEW i \in Insts
    PROVE  /\ r # n => OnWay(s, r, t, i)' = OnWay(s, r, t, i)
           /\ r = n => \A v \in Votes : v \in OnWay(s, r, t, i)' <=>
                 /\ s \in conns /\ isReady'
                 /\ \/ /\ t = "PRIMARY" /\ el[s].primaryName[i] # None
                       /\ v = [name |-> el[s].primaryName[i], seq |-> el[s].lastOrdered]
                    \/ el[s].primaryName[i] = None /\ v = Vote(s, t, i, s)
<1>1. ASSUME r # n PROVE OnWay(s, r, t, i)' = OnWay(s, r, t, i)
  BY <1>1 DEF Joined, OnWay
<1>2. ASSUME r = n, NEW v \in Votes
      PROVE  v \in OnWay(s, r, t, i)' <=>
                 /\ s \in conns /\ isReady'
                 /\ \/ /\ t = "PRIMARY" /\ el[s].primaryName[i] # None
                       /\ v = [name |-> el[s].primaryName[i], seq |-> el[s].lastOrdered]
                    \/ el[s].primaryName[i] = None /\ v = Vote(s, t, i, s)
  <2>1. CASE ~(s \in conns /\ isReady')
    <3>1. chan'[s][n] = chan[s][n]
      BY <2>1 DEF Joined
    <3>2. \A m : ~Holds(chan[s][n], m)
      BY DEF Calm, Joined
    <3>. QED BY <1>2, <2>1, <3>1, <3>2 DEF OnWay
  <2>2. CASE s \in conns /\ isReady'
    <3>1. v \in OnWay(s, r, t, i)' <=> \E j \in Insts : Recalls(s, el[s], j, VoteMsg(t, i, v))
      BY <1>2, <2>2 DEF Joined, OnWay
    <3>2. \A j \in Insts : Recalls(s, el[s], j, VoteMsg(t, i, v))
             => j = i /\ \/ /\ t = "PRIMARY" /\ el[s].primaryName[i] # None
                            /\ v = [name |-> el[s].primaryName[i], seq |-> el[s].lastOrdered]
                         \/ el[s].primaryName[i] = None /\ v = Vote(s, t, i, s)
      BY VoteMsgInjective DEF Recalls, Vote
    <3>3. ASSUME \/ /\ t = "PRIMARY" /\ el[s].primaryName[i] # None
                    /\ v = [name |-> el[s].primaryName[i], seq |-> el[s].lastOrdered]
                 \/ el[s].primaryName[i] = None /\ v = Vote(s, t, i, s)
          PROVE  Recalls(s, el[s], i, VoteMsg(t, i, v))
      BY <3>3, NoneIsNoVote DEF Recalls, Vote
    <3>. QED BY <2>2, <3>1, <3>2, <3>3
  <2>. QED BY <2>1, <2>2
<1>. QED BY <1>1, <1>2

LEMMA JoinUnvoted ==
    ASSUME ElectionTypes, Calm, PatientPool, NEW n \in Nodes, Joined(n), NEW i \in Insts, Unvoted(i)
    PROVE  Voting(i)'
<1>0. "NOMINATE" \in VoteTypes /\ "PRIMARY" \in VoteTypes /\ None \notin Votes
  BY NoneIsNoVote DEF VoteTypes
<1>1. \A t \in VoteTypes, a, b \in Nodes : Vote(a, t, i, b)' = None
  BY JoinVotes DEF Unvoted
<1>2. \A t \in VoteTypes, a, r \in Nodes : OnWay(a, r, t, i)' = {}
  <2>. SUFFICES ASSUME NEW t \in VoteTypes, NEW a \in Nodes, NEW r \in Nodes,
                       NEW v \in OnWay(a, r, t, i)'
                PROVE  FALSE
    OBVIOUS
  <2>1. v \in Votes
    BY DEF OnWay
  <2>. QED BY <1>0, <2>1, JoinMail DEF Unvoted
<1>3. \A a \in Nodes : el'[a].primaryName[i] = None /\ el'[a].timer[i] = "none"
  BY JoinVotes DEF Unvoted
<1>4. Unvoted(i)'
  BY <1>1, <1>2, <1>3 DEF Unvoted
<1>5. Beginnings'
  BY UnvotedIsVoting, PTL
<1>. QED BY <1>4, <1>5, JoinVotes DEF Beginnings

LEMMA JoinChosen ==
    ASSUME ElectionTypes, Calm, PatientPool, NEW n \in Nodes, Joined(n), NEW i \in Insts, Chosen(i)
    PROVE  Chosen(i)'
<1>0. "NOMINATE" \in VoteTypes /\ "PRIMARY" \in VoteTypes /\ None \notin Votes
  BY NoneIsNoVote DEF VoteTypes
<1>00. Concluded(i) /\ Passed(i) /\ LastDeclared(i)
  BY DEF Chosen
<1>1. /\ \A a \in Nodes : OwnDeclaration(a, i)' = OwnDeclaration(a, i)
                          /\ el'[a].primaryName[i] = el[a].primaryName[i]
      /\ \A a, b \in Nodes : /\ Vote(a, "PRIMARY", i, b)' = Vote(a, "PRIMARY", i, b)
                             /\ Vote(a, "NOMINATE", i, b)' = Vote(a, "NOMINATE", i, b)
      /\ quorum' = quorum /\ n \notin conns /\ conns' = conns \cup {n} /\ conns \subseteq Nodes
  BY JoinVotes DEF OwnDeclaration, Joined
<1>2. Settlers(i)' = Settlers(i) /\ Last(i)' = Last(i)
  BY <1>1 DEF Settlers, Last
<1>3. Settlers(i) \subseteq conns /\ n \notin Settlers(i) /\ Settlers(i) \subseteq Nodes
  BY <1>00, <1>1 DEF Concluded
<1>4. \A a, r \in Nodes : OnWay(a, r, "PRIMARY", i)' # {} => r \notin Settlers(i)
  <2>. SUFFICES ASSUME NEW a \in Nodes, NEW r \in Nodes, OnWay(a, r, "PRIMARY", i)' # {}
                PROVE  r \notin Settlers(i)
    OBVIOUS
  <2>1. r # n => OnWay(a, r, "PRIMARY", i) # {}
    BY <1>0, JoinMail
  <2>. QED BY <1>00, <1>3, <2>1 DEF Concluded
<1>5. Concluded(i)'
  <2>1. \A a, b \in Settlers(i) : Vote(a, "PRIMARY", i, b)' # None /\ OwnVote(a, i)' # None
    BY <1>00, <1>1, <1>3 DEF Concluded, OwnVote
  <2>. QED BY <1>00, <1>1, <1>2, <1>3, <1>4, <2>1 DEF Concluded
<1>6. ASSUME NEW a \in Nodes, NEW j \in Nodes \ Settlers(i),
             Vote(j, "NOMINATE", i, a)' # None \/ OnWay(a, j, "NOMINATE", i)' # {}
      PROVE  a \notin Settlers(i) \/ a \in Last(i)
  <2>1. CASE Vote(j, "NOMINATE", i, a)' # None \/ j # n
    <3>1. Vote(j, "NOMINATE", i, a) # None \/ OnWay(a, j, "NOMINATE", i) # {}
      BY <1>0, <1>1, <1>6, <2>1, JoinMail
    <3>. QED BY <1>00, <3>1 DEF Passed
  <2>2. ASSUME NEW v \in OnWay(a, n, "NOMINATE", i)' PROVE a \notin Settlers(i) \/ a \in Last(i)
    <3>1. v \in Votes
      BY DEF OnWay
    <3>2. el[a].primaryName[i] = None
      BY <1>0, <3>1, <2>2, JoinMail
    <3>. QED BY <3>2 DEF Last
  <2>. QED BY <1>6, <2>1, <2>2
<1>7. isReady'
  <2>1. Settlers(i) \subseteq conns' /\ IsFiniteSet(conns')
    BY <1>1, <1>3, ConnsFinite, FS_AddElement
  <2>2. Cardinality(Settlers(i)) <= Cardinality(conns') /\ Cardinality(conns') \in Nat
        /\ Cardinality(Settlers(i)) \in Nat
    BY <1>3, <2>1, ConnsFinite, FS_Subset, FS_CardinalityType
  <2>3. Cardinality(Settlers(i)) >= quorum
    BY <1>00 DEF Concluded
  <2>. DEFINE p == Cardinality(Settlers(i))
              q == Cardinality(conns')
  <2>4. p <= q /\ p >= quorum /\ p \in Nat /\ q \in Nat
    BY <2>2, <2>3
  <2>. HIDE DEF p, q
  <2>5. q >= quorum
    BY <2>4, Thresholds
  <2>. QED BY <1>1, <2>5 DEF q, isReady, nodeCount
<1>8. ASSUME NEW a \in Settlers(i), NEW j \in conns', j \notin Settlers(i)
      PROVE  Vote(j, "PRIMARY", i, a)' # None \/ OnWay(a, j, "PRIMARY", i)' # {}
  <2>0. a \in conns /\ a \in Nodes /\ j \in Nodes /\ OwnDeclaration(a, i) # None
    BY <1>1, <1>3 DEF Settlers
  <2>1. CASE j # n
    BY <1>0, <1>00, <1>1, <1>8, <2>0, <2>1, JoinMail DEF Passed
  <2>2. CASE j = n /\ el[a].primaryName[i] # None
    <3>. DEFINE v == [name |-> el[a].primaryName[i], seq |-> el[a].lastOrdered]
    <3>1. v \in Votes
      BY <2>0, <2>2 DEF ElectionTypes, Elector, ElectorIn, Votes
    <3>2. v \in OnWay(a, n, "PRIMARY", i)'
      BY <1>0, <1>7, <2>0, <2>2, <3>1, JoinMail
    <3>. QED BY <2>2, <3>2
  <2>3. CASE j = n /\ el[a].primaryName[i] = None
    <3>1. OwnDeclaration(a, i) \in Votes
      BY <2>0, BallotType DEF OwnDeclaration, Vote, ElectionTypes
    <3>2. OwnDeclaration(a, i) \in OnWay(a, n, "PRIMARY", i)'
      BY <1>0, <1>7, <2>0, <2>3, <3>1, JoinMail DEF OwnDeclaration
    <3>. QED BY <2>3, <3>2
  <2>. QED BY <2>1, <2>2, <2>3
<1>9. Passed(i)'
  <2>1. /\ \A a \in Nodes, j \in Nodes \ Settlers(i)' :
              Vote(j, "NOMINATE", i, a)' # None \/ OnWay(a, j, "NOMINATE", i)' # {}
                => a \notin Settlers(i)' \/ a \in Last(i)'
        /\ \A a \in Settlers(i)', j \in conns' :
              j \notin Settlers(i)'
                => Vote(j, "PRIMARY", i, a)' # None \/ OnWay(a, j, "PRIMARY", i)' # {}
    BY <1>2, <1>6, <1>8
  <2>2. \A a \in Nodes : el'[a].timer[i] = "none"
    BY <1>00, JoinVotes DEF Passed
  <2>. QED BY <2>1, <2>2 DEF Passed
<1>10. LastDeclared(i)'
  <2>1. \A a \in Nodes : hasPrimaryQuorum(el[a], i)' <=> hasPrimaryQuorum(el[a], i)
    BY JoinVotes DEF hasPrimaryQuorum
  <2>. QED BY <1>00, <1>1, <2>1 DEF LastDeclared, LastToDeclare
<1>11. ASSUME NEW x \in Nodes, Names(i, x) PROVE Names(i, x)'
  <2>1. ASSUME NEW a \in Nodes, NEW r \in Nodes, NEW v \in OnWay(a, r, "PRIMARY", i)'
        PROVE  v.name = x
    <3>1. v \in Votes /\ v # None
      BY <1>0 DEF OnWay
    <3>2. r # n => v \in OnWay(a, r, "PRIMARY", i)
      BY <1>0, <2>1, JoinMail
    <3>3. r = n => \/ el[a].primaryName[i] # None /\ v.name = el[a].primaryName[i]
                   \/ v = Vote(a, "PRIMARY", i, a)
      BY <1>0, <2>1, <3>1, JoinMail
    <3>. QED BY <1>11, <3>1, <3>2, <3>3 DEF Names
  <2>. QED BY <1>1, <1>11, <2>1 DEF Names
<1>. QED BY <1>5, <1>9, <1>10, <1>11 DEF Chosen

LEMMA JoinCalm ==
    ASSUME ElectionTypes, Calm, NEW n \in Nodes, Joined(n), PatientPool
    PROVE  Calm'
<1>0. /\ Insts' = Insts /\ VoteMail' = VoteMail /\ Elector(0)' = Elector(0)
      /\ n \notin conns /\ conns' = conns \cup {n} /\ conns \subseteq Nodes
  BY JoinVotes, SamePool DEF Joined, VoteMail
<1>1. ASSUME NEW a \in Nodes PROVE Plain(el[a])'
  <2>1. Plain(el[a]) /\ el[a] \in Elector(0) /\ Woken(a, el[a], el'[a])
    BY DEF Calm, ElectionTypes, Joined
  <2>2. /\ el'[a] \in Elector(0) /\ el'[a].reElectionProposals = el[a].reElectionProposals
        /\ el'[a].previous_master_primary = el[a].previous_master_primary
        /\ el'[a].delayed = el[a].delayed
    BY <2>1, WokenFields
  <2>. QED BY <1>0, <2>1, <2>2 DEF Plain
<1>2. isReady => isReady'
  <2>1. IsFiniteSet(conns') /\ Cardinality(conns) <= Cardinality(conns')
        /\ Cardinality(conns) \in Nat /\ Cardinality(conns') \in Nat
    BY <1>0, ConnsFinite, FS_AddElement, FS_Subset, FS_CardinalityType
  <2>. DEFINE p == Cardinality(conns)
              q == Cardinality(conns')
  <2>2. p <= q /\ p \in Nat /\ q \in Nat
    BY <2>1
  <2>3. (isReady <=> p >= quorum) /\ (isReady' <=> q >= quorum)
    BY JoinVotes DEF isReady, nodeCount
  <2>. HIDE DEF p, q
  <2>. QED BY <2>2, <2>3, Thresholds
<1>3. ASSUME NEW a \in Nodes, NEW r \in Nodes, NEW m, Holds(chan'[a][r], m)
      PROVE  m \in VoteMail /\ a # r /\ a \in conns' /\ r \in conns' /\ isReady'
  <2>1. CASE ~(a \in conns /\ r = n /\ isReady')
    <3>1. Holds(chan[a][r], m)
      BY <1>3, <2>1 DEF Joined
    <3>. QED BY <1>0, <1>2, <3>1 DEF Calm
  <2>2. CASE a \in conns /\ r = n /\ isReady'
    <3>1. PICK i \in Insts : Recalls(a, el[a], i, m)
      BY <1>3, <2>2 DEF Joined
    <3>2. m \in VoteMail
      <4>1. CASE el[a].primaryName[i] # None
        <5>1. [name |-> el[a].primaryName[i], seq |-> el[a].lastOrdered] \in Votes
          BY <4>1 DEF ElectionTypes, Elector, ElectorIn, Votes
        <5>. QED BY <3>1, <4>1, <5>1 DEF Recalls, VoteMail, VoteTypes
      <4>2. CASE el[a].primaryName[i] = None
        <5>1. \A t : Vote(a, t, i, a) \in Votes \cup {None}
          BY BallotType DEF Vote, ElectionTypes
        <5>. QED BY <3>1, <4>2, <5>1 DEF Recalls, VoteMail, Vote
      <4>. QED BY <4>1, <4>2
    <3>. QED BY <1>0, <2>2, <3>2
  <2>. QED BY <2>1, <2>2
<1>4. \A t \in VoteTypes, i \in Insts', a, b \in Nodes :
         Vote(a, t, i, b)' # None => a \in conns' /\ b \in conns' /\ isReady'
  BY <1>0, <1>2, JoinVotes DEF Calm
<1>5. \A a, r \in Nodes : \A m : Holds(chan'[a][r], m)
         => m \in VoteMail' /\ a # r /\ a \in conns' /\ r \in conns' /\ isReady'
  BY <1>0, <1>3
<1>. QED BY <1>1, <1>4, <1>5 DEF Calm

LEMMA JoinCandidates ==
    ASSUME ElectionTypes, Calm, Candidates, NEW n \in Nodes, Joined(n)
    PROVE  Candidates'
<1>0. /\ Insts' = Insts /\ None \notin Votes
      /\ \A a, b \in Nodes : \A t, i : Vote(a, t, i, b)' = Vote(a, t, i, b)
  BY JoinVotes, NoneIsNoVote
<1>1. \A x \in Nodes : \A i : SelfVoted(x, i)' <=> SelfVoted(x, i)
  BY <1>0 DEF SelfVoted, OwnVote
<1>2. ASSUME NEW t \in VoteTypes, NEW i \in Insts, NEW a \in Nodes, NEW b \in Nodes,
             NEW v \in Votes, Vote(a, t, i, b)' = v
      PROVE  SelfVoted(v.name, i)'
  BY <1>0, <1>1, <1>2 DEF Candidates, Votes
<1>3. ASSUME NEW t \in VoteTypes, NEW i \in Insts, NEW a \in Nodes, NEW r \in Nodes,
             NEW v \in OnWay(a, r, t, i)'
      PROVE  SelfVoted(v.name, i)'
  <2>1. v \in Votes /\ v.name \in Nodes
    BY DEF OnWay, Votes
  <2>2. SelfVoted(v.name, i)
    <3>1. CASE r # n
      <4>1. v \in OnWay(a, r, t, i)
        BY <1>3, <3>1, JoinMail
      <4>. QED BY <4>1 DEF Candidates
    <3>2. CASE r = n /\ el[a].primaryName[i] = v.name
      BY <2>1, <3>2 DEF Candidates
    <3>3. CASE r = n /\ v = Vote(a, t, i, a)
      BY <2>1, <3>3 DEF Candidates
    <3>. QED BY <1>3, <2>1, <3>1, <3>2, <3>3, JoinMail
  <2>. QED BY <1>1, <2>1, <2>2
<1>4. \A i \in Insts, a, x \in Nodes : el'[a].primaryName[i] = x => SelfVoted(x, i)'
  BY <1>1, JoinVotes DEF Candidates
<1>5. ASSUME NEW a \in Nodes PROVE SelfOK(a, el[a])'
  <2>1. SelfOK(a, el[a])' <=> SelfOK(a, el'[a])
    BY <1>0 DEF SelfOK, SelfProposed
  <2>2. /\ el'[a].replicaNominatedForItself = el[a].replicaNominatedForItself
        /\ el'[a].primaryName = el[a].primaryName /\ el'[a].nominate = el[a].nominate
        /\ el'[a].nominations = el[a].nominations
    BY WokenFields DEF Joined, ElectionTypes
  <2>3. SelfProposed(a, el'[a]) = SelfProposed(a, el[a])
    BY <2>2 DEF SelfProposed
  <2>4. SelfOK(a, el[a])
    BY DEF Candidates
  <2>. QED BY <2>1, <2>2, <2>3, <2>4 DEF SelfOK
<1>6. /\ \A t \in VoteTypes, i \in Insts, a, b \in Nodes, v \in Votes :
            Vote(a, t, i, b)' = v => SelfVoted(v.name, i)'
      /\ \A t \in VoteTypes, i \in Insts, a, r \in Nodes :
            \A v \in OnWay(a, r, t, i)' : SelfVoted(v.name, i)'
  BY <1>2, <1>3
<1>. QED BY <1>0, <1>4, <1>5, <1>6 DEF Candidates

LEMMA JoinStarted ==
    ASSUME ElectionTypes, Started, NEW n \in Nodes, Joined(n)
    PROVE  Started'
<1>. SUFFICES ASSUME NEW a \in Nodes
              PROVE  /\ Willing(a, el'[a])
                     /\ a \in pool.up => a \in conns' /\ el'[a].participating
  BY JoinVotes DEF Started, Joined, Willing, hasPrimaryReplica, Undecided,
                   was_master_primary_in_prev_view
<1>1. Willing(a, el[a]) /\ (a \in pool.up => a \in conns /\ el[a].participating)
  BY DEF Started
<1>2. Woken(a, el[a], el'[a]) /\ el[a] \in Elector(0) /\ conns' = conns \cup {n}
  BY DEF Joined, ElectionTypes
<1>. QED BY <1>1, <1>2, WokenFields DEF Woken
-----------------------------------------------------------------------------
(* The inductive invariant of the first round, and what follows from it.    *)

\* An election in its first round.
FirstState ==
    /\ Calm /\ Candidates /\ Started
    /\ \A i \in Insts : Voting(i) \/ Chosen(i)

FirstInv == FirstRound => FirstState

LEMMA MoveFirst ==
    ASSUME ElectionTypes, ElectionTypes', PatientPool, NEW n \in Nodes, NEW o, NEW s, NEW H,
           Move(n, o, s, H), FirstState
    PROVE  FirstState'
<1>1. Calm' /\ Candidates' /\ Started' /\ Insts' = Insts
  BY CalmKept, CandidatesKept, StartedKept, MoveElectors DEF FirstState
<1>2. \A i \in Insts : Voting(i)' \/ Chosen(i)'
  BY VotingKept, ChosenKept DEF FirstState
<1>. QED BY <1>1, <1>2 DEF FirstState

LEMMA JoinFirst ==
    ASSUME ElectionTypes, PatientPool, NEW n \in Nodes, Join(n), FirstState
    PROVE  FirstState'
<1>1. Joined(n)
  BY JoinIsJoined
<1>2. Quiet
  BY DEF Join, PatientPool
<1>3. Calm' /\ Candidates' /\ Started' /\ Insts' = Insts
  BY <1>1, JoinCalm, JoinCandidates, JoinStarted, JoinVotes DEF FirstState
<1>4. ASSUME NEW i \in Insts PROVE Voting(i)' \/ Chosen(i)'
  <2>1. Unvoted(i) \/ Chosen(i)
    BY <1>2, QuietInstance DEF FirstState
  <2>. QED BY <1>1, <2>1, JoinUnvoted, JoinChosen DEF FirstState
<1>. QED BY <1>3, <1>4 DEF FirstState

\* With patient timers nobody's timer expires.
LEMMA NoTimeout ==
    ASSUME ElectionTypes, PatientPool, NEW n \in Nodes, NEW i \in Insts, Timeout(n, i), FirstState
    PROVE  FALSE
<1>1. Quiet /\ el[n].timer[i] = "running"
  BY DEF Timeout, PatientPool
<1>2. Unvoted(i) \/ Chosen(i)
  BY <1>1, QuietInstance DEF FirstState
<1>. QED BY <1>1, <1>2 DEF Unvoted, Chosen, Passed

LEMMA StutterFirst ==
    ASSUME FirstState, UNCHANGED evars
    PROVE  FirstState'
<1>0. pool' = pool /\ el' = el /\ chan' = chan /\ conns' = conns
  BY DEF evars
<1>1. /\ Insts' = Insts /\ Elector(0)' = Elector(0) /\ VoteMail' = VoteMail
      /\ quorum' = quorum /\ isReady' = isReady /\ nodeCount' = nodeCount
  BY <1>0, SamePool DEF VoteMail, quorum, f, isReady, nodeCount
<1>2. /\ \A n, t, i, s : Vote(n, t, i, s)' = Vote(n, t, i, s)
      /\ \A s, r, t, i : OnWay(s, r, t, i)' = OnWay(s, r, t, i)
      /\ \A n, i : OwnVote(n, i)' = OwnVote(n, i) /\ OwnDeclaration(n, i)' = OwnDeclaration(n, i)
  BY <1>0 DEF Vote, OnWay, OwnVote, OwnDeclaration
<1>3. Calm'
  BY <1>0, <1>1, <1>2 DEF FirstState, Calm, Plain
<1>4. Candidates' /\ Started'
  BY <1>0, <1>1, <1>2 DEF FirstState, Candidates, SelfVoted, SelfOK, SelfProposed, Started,
     Willing, hasPrimaryReplica, Undecided, was_master_primary_in_prev_view
<1>5. /\ \A i : LastDeclared(i)' <=> LastDeclared(i)
      /\ \A n, i : /\ hasPrimaryQuorum(el[n], i)' <=> hasPrimaryQuorum(el[n], i)
                   /\ hasNominationQuorum(el[n], i)' <=> hasNominationQuorum(el[n], i)
                   /\ hasNominationsFromAll(el[n], i)' <=> hasNominationsFromAll(el[n], i)
      /\ \A i : Settlers(i)' = Settlers(i) /\ Last(i)' = Last(i)
      /\ \A v, i : Beats(v, i)' <=> Beats(v, i)
  BY <1>0, <1>1, <1>2 DEF LastDeclared, LastToDeclare, Settlers, Last, Beats, Possible, Supporters,
     hasPrimaryQuorum, hasNominationQuorum, hasNominationsFromAll
<1>6. \A i \in Insts : Voting(i) => Voting(i)'
  <2>1. \A t, i : Told(t, i) => Told(t, i)'
    BY <1>0, <1>2 DEF Told
  <2>2. \A i : VotesFirst(i) /\ Ahead(i) => VotesFirst(i)' /\ Ahead(i)'
    BY <1>2, <1>5 DEF VotesFirst, Ahead
  <2>3. \A i : Timed(i) /\ Due(i) => Timed(i)' /\ Due(i)'
    BY <1>0, <1>2, <1>5 DEF Timed, Due
  <2>4. \A i : Led(i) /\ LastsApart(i) => Led(i)' /\ LastsApart(i)'
    BY <1>0, <1>2, <1>5 DEF Led, LastsApart, LastToDeclare
  <2>. QED BY <1>5, <2>1, <2>2, <2>3, <2>4 DEF Voting
<1>7. \A i \in Insts : Chosen(i) => Chosen(i)'
  BY <1>0, <1>1, <1>2, <1>5 DEF Chosen, Concluded, Passed, Names
<1>. QED BY <1>1, <1>3, <1>4, <1>6, <1>7 DEF FirstState

LEMMA FirstStep ==
    ASSUME ElectionTypes, FirstInv, PatientPool, [Next]_evars
    PROVE  FirstInv'
<1>. SUFFICES ASSUME FirstRound' PROVE FirstState'
  BY DEF FirstInv
<1>1. ElectionTypes' /\ FirstRound /\ (\A n \in Nodes : SameRounds(el[n], el'[n]))
  BY ElectionTypesStep, FirstRoundBefore
<1>2. FirstState
  BY <1>1 DEF FirstInv
<1>3. ASSUME NEW n \in Nodes, NEW s \in Nodes, Receive(n, s) PROVE FirstState'
  BY <1>1, <1>2, <1>3, ReceiveMove, MoveFirst DEF FirstState
<1>4. ASSUME NEW n \in Nodes, RunActions(n) PROVE FirstState'
  BY <1>1, <1>2, <1>4, RunActionsMove, MoveFirst DEF FirstState
<1>5. ASSUME NEW n \in Nodes, NEW i \in Insts, DelayOver(n, i) PROVE FirstState'
  BY <1>2, <1>5 DEF FirstState, Calm, Plain, DelayOver
<1>6. ASSUME NEW n \in Nodes, NEW i \in Insts, Timeout(n, i) PROVE FirstState'
  BY <1>2, <1>6, NoTimeout
<1>7. ASSUME NEW n \in Nodes, Join(n) PROVE FirstState'
  BY <1>2, <1>7, JoinFirst
<1>8. ASSUME NEW n \in Nodes, CaughtUp(n) PROVE FirstState'
  BY <1>1, <1>2, <1>8, CaughtUpMove, MoveFirst DEF FirstState
<1>9. CASE UNCHANGED evars
  BY <1>2, <1>9, StutterFirst
<1>. QED BY <1>3, <1>4, <1>5, <1>6, <1>7, <1>8, <1>9 DEF Next

LEMMA FirstInit == PatientPool /\ Init => FirstInv
<1>. SUFFICES ASSUME PatientPool, Init PROVE FirstState
  BY DEF FirstInv
<1>0. /\ ElectionTypes /\ "NOMINATE" \in VoteTypes /\ "PRIMARY" \in VoteTypes
      /\ None \notin Votes /\ None \notin Nodes /\ None \notin Insts
  BY ElectionTypesInit, NoneIsNoVote DEF VoteTypes
<1>1. /\ conns = pool.up /\ chan = [s \in Nodes |-> [r \in Nodes |-> <<>>]]
      /\ el = [n \in Nodes |-> scheduleElection(n, NewElector(n))]
  BY DEF Init
<1>2. ASSUME NEW n \in Nodes
      PROVE  /\ Willing(n, el[n]) /\ (\A i \in Insts : el[n].reElectionProposals[i] = NoVotes)
             /\ el[n].previous_master_primary = None /\ el[n].delayed = {} /\ el[n].nominate = {}
             /\ el[n].replicaNominatedForItself = None
             /\ (n \in pool.up => el[n].participating)
             /\ \A i \in Insts : /\ el[n].primaryName[i] = None /\ el[n].timer[i] = "none"
                                 /\ \A s \in Nodes : /\ el[n].nominations[i][s] = None
                                                     /\ el[n].primaryDeclarations[i][s] = None
  <2>. DEFINE e == NewElector(n)
  <2>1. e \in Elector(0)
    <3>1. <<>> \in Seq(ElectionMsg) /\ [i \in Insts |-> NoVotes] \in Ballots
          /\ [i \in Insts |-> NoVotes] \in [Insts -> [Nodes -> (SUBSET Votes) \cup {None}]]
      BY DEF NoVotes, Ballots
    <3>2. LastOrdered[n] \in Nat
      BY ElectionAssumption
    <3>. QED BY <3>1, <3>2 DEF NewElector, Elector, ElectorIn
  <2>2. Willing(n, el[n]) /\ Woken(n, e, el[n])
    BY <1>1, <2>1, ScheduledIsWilling DEF Woken
  <2>3. /\ e.previous_master_primary = None /\ e.delayed = {} /\ e.nominate = {}
        /\ e.replicaNominatedForItself = None /\ e.participating = (n \in pool.up)
        /\ \A i \in Insts : /\ e.primaryName[i] = None /\ e.timer[i] = "none"
                            /\ e.nominations[i] = NoVotes /\ e.primaryDeclarations[i] = NoVotes
                            /\ e.reElectionProposals[i] = NoVotes
    BY DEF NewElector
  <2>4. \A s \in Nodes : NoVotes[s] = None
    BY DEF NoVotes
  <2>. DEFINE x == el[n]
  <2>. HIDE DEF e, x
  <2>5. /\ x.nominations = e.nominations /\ x.primaryDeclarations = e.primaryDeclarations
        /\ x.timer = e.timer /\ x.reElectionProposals = e.reElectionProposals
        /\ x.replicaNominatedForItself = e.replicaNominatedForItself
        /\ x.previous_master_primary = e.previous_master_primary
        /\ x.primaryName = e.primaryName /\ x.nominate = e.nominate
        /\ x.delayed = e.delayed /\ x.participating = e.participating
    BY <2>1, <2>2, WokenFields DEF x
  <2>6. \A i \in Insts : /\ x.primaryName[i] = None /\ x.timer[i] = "none"
                          /\ x.reElectionProposals[i] = NoVotes
                          /\ \A s \in Nodes : /\ x.nominations[i][s] = None
                                              /\ x.primaryDeclarations[i][s] = None
    BY <2>3, <2>4, <2>5
  <2>. QED BY <2>2, <2>3, <2>5, <2>6 DEF x
<1>3. \A s, r \in Nodes : \A m : ~Holds(chan[s][r], m)
  BY <1>1, HoldsEmpty
<1>4. \A t \in VoteTypes, i \in Insts, n, s \in Nodes : Vote(n, t, i, s) = None
  BY <1>2 DEF Vote, BallotsOf
<1>5. \A t, i : \A s, r \in Nodes : OnWay(s, r, t, i) = {}
  BY <1>3 DEF OnWay
<1>6. Calm
  BY <1>0, <1>2, <1>3, <1>4 DEF Calm, Plain, ElectionTypes
<1>7. Candidates
  <2>1. \A n \in Nodes : SelfProposed(n, el[n]) = {}
    BY <1>2 DEF SelfProposed
  <2>2. \A n \in Nodes : SelfOK(n, el[n])
    BY <1>2, <2>1 DEF SelfOK
  <2>. QED BY <1>0, <1>2, <1>4, <1>5, <2>2 DEF Candidates
<1>8. Started
  BY <1>1, <1>2 DEF Started
<1>9. \A i \in Insts : Unvoted(i)
  BY <1>2, <1>4, <1>5 DEF Unvoted
<1>10. \A i \in Insts : Voting(i)
  BY <1>9, UnvotedIsVoting DEF Beginnings
<1>. QED BY <1>6, <1>7, <1>8, <1>10 DEF FirstState

LEMMA FirstAlways == PatientPool => (Spec => [](ElectionTypes /\ FirstInv))
<1>. SUFFICES ASSUME PatientPool PROVE Spec => [](ElectionTypes /\ FirstInv)
  OBVIOUS
<1>1. Init => ElectionTypes /\ FirstInv
  BY ElectionTypesInit, FirstInit
<1>2. ElectionTypes /\ FirstInv /\ [Next]_evars => (ElectionTypes /\ FirstInv)'
  BY ElectionTypesStep, FirstStep
<1>. QED BY <1>1, <1>2, PTL DEF Spec

LEMMA NamesAgree ==
    ASSUME ElectionTypes, FirstState, NEW i \in Insts, NEW a \in Nodes, NEW b \in Nodes,
           el[a].primaryName[i] # None, el[b].primaryName[i] # None
    PROVE  el[a].primaryName[i] = el[b].primaryName[i]
<1>1. CASE Voting(i)
  <2>1. PICK s \in Nodes : OwnDeclaration(s, i) # None
                           /\ OwnDeclaration(s, i).name = el[a].primaryName[i]
    BY <1>1 DEF Voting, Led
  <2>2. PICK r \in Nodes : OwnDeclaration(r, i) # None
                           /\ OwnDeclaration(r, i).name = el[b].primaryName[i]
    BY <1>1 DEF Voting, Led
  <2>3. PICK v \in Votes : OwnDeclaration(s, i) = v
    BY <2>1, BallotType DEF OwnDeclaration, Vote, ElectionTypes
  <2>4. PICK w \in Votes : OwnDeclaration(r, i) = w
    BY <2>2, BallotType DEF OwnDeclaration, Vote, ElectionTypes
  <2>5. Beats(v, i) /\ Beats(w, i)
    BY <1>1, <2>3, <2>4 DEF Voting, Ahead
  <2>. QED BY <2>1, <2>2, <2>3, <2>4, <2>5, OneBeats
<1>2. CASE Chosen(i)
  BY <1>2 DEF Chosen, Names
<1>. QED BY <1>1, <1>2 DEF FirstState

LEMMA FirstLeaders ==
    ASSUME ElectionTypes, FirstState
    PROVE  OnePrimaryEach
<1>. SUFFICES ASSUME NEW n \in Nodes, NEW i \in Insts, NEW j \in Insts, i # j,
                     el[n].primaryName[i] # None, el[n].primaryName[i] = el[n].primaryName[j]
              PROVE  FALSE
  BY DEF OnePrimaryEach
<1>. DEFINE x == el[n].primaryName[i]
<1>1. x \in Nodes /\ x # None /\ el[n].primaryName[j] = x
  BY DEF ElectionTypes, Elector, ElectorIn
<1>2. SelfVoted(x, i) /\ SelfVoted(x, j)
  BY <1>1 DEF FirstState, Candidates
<1>3. el[x].primaryName[i] \in {None, x} /\ el[x].primaryName[j] \in {None, x}
  BY <1>1, NamesAgree
<1>. HIDE DEF x
<1>4. i \in SelfProposed(x, el[x]) /\ j \in SelfProposed(x, el[x])
  BY <1>2, VoteFields DEF SelfVoted, OwnVote, SelfProposed
<1>5. SelfOK(x, el[x])
  BY <1>1 DEF FirstState, Candidates
<1>. QED BY <1>3, <1>4, <1>5 DEF SelfOK

\* At rest, who is connected has heard everybody who has declared.
LEMMA QuietChosen ==
    ASSUME ElectionTypes, FirstState, Quiet, NEW i \in Insts, Chosen(i), NEW n \in conns
    PROVE  el[n].primaryName[i] # None \/ hasPrimaryQuorum(el[n], i)
<1>. DEFINE S == Settlers(i)
            V == Voters(el[n].primaryDeclarations[i])
<1>1. IsFiniteSet(Nodes) /\ S \subseteq Nodes /\ V \subseteq Nodes /\ n \in Nodes
  BY ElectionAssumption DEF Settlers, Voters, ElectionTypes
<1>2. \A s \in S : Vote(n, "PRIMARY", i, s) # None
  <2>1. CASE n \in S
    BY <2>1 DEF Chosen, Concluded
  <2>2. CASE n \notin S
    <3>1. \A s \in S : Vote(n, "PRIMARY", i, s) # None \/ OnWay(s, n, "PRIMARY", i) # {}
      BY <2>2 DEF Chosen, Passed
    <3>. QED BY <1>1, <3>1, QuietMail DEF FirstState
  <2>. QED BY <2>1, <2>2
<1>3. S \subseteq V
  BY <1>1, <1>2, VoteFields DEF Voters
<1>4. Cardinality(S) >= quorum
  BY DEF Chosen, Concluded
<1>. HIDE DEF S, V
<1>. DEFINE p == Cardinality(S)
            q == Cardinality(V)
<1>5. p <= q /\ p \in Nat /\ q \in Nat /\ p >= quorum /\ quorum \in Int
  <2>1. IsFiniteSet(V) /\ IsFiniteSet(S)
    BY <1>1, FS_Subset
  <2>2. quorum \in Int
    BY <1>1, FS_CardinalityType DEF quorum, f
  <2>. QED BY <1>3, <1>4, <2>1, <2>2, FS_Subset, FS_CardinalityType
<1>. HIDE DEF p, q
<1>6. q >= quorum
  BY <1>5
<1>. QED BY <1>6 DEF q, V, hasPrimaryQuorum

\* The pools a node starts the election in: 2f+1 nodes are connected, and they
\* run at most the f+1 instances of a node (node.py, requiredNumberOfInstances).
SmallPool == \A p \in Pools : Cardinality(p.up) >= quorum /\ p.instances <= f + 1

\* Why a node that may nominate has not nominated for i: it leads another
\* instance, or it is the last to choose one.
Roles == {"leads", "last"}
Engaged(x, k, role) == IF role = "leads" THEN el[x].primaryName[k] = x ELSE x \in Last(k)

LEMMA StarterEngaged ==
    ASSUME ElectionTypes, FirstState, Quiet, PatientPool, NEW i \in Insts, Unvoted(i),
           NEW x \in pool.up
    PROVE  \E k \in Insts \ {i}, role \in Roles : Engaged(x, k, role)
<1>1. x \in Nodes /\ x \in conns /\ el[x].participating /\ Willing(x, el[x])
  BY PoolTypes DEF ElectionTypes, FirstState, Started
<1>2. Plain(el[x]) /\ SelfOK(x, el[x])
  BY <1>1 DEF FirstState, Calm, Candidates
<1>3. ~el[x].start /\ el[x].nominate = {}
  BY <1>1 DEF Quiet, HasActions
<1>4. i \in Undecided(x, el[x])
  BY <1>1, <1>2, NoneIsNoVote DEF Undecided, was_master_primary_in_prev_view, Plain, Unvoted
<1>5. el[x].replicaNominatedForItself # None \/ \E k \in Insts : el[x].primaryName[k] = x
  BY <1>1, <1>3, <1>4 DEF Willing, hasPrimaryReplica
<1>6. el[x].primaryName[i] = None /\ x # None
  BY <1>1, NoneIsNoVote DEF Unvoted
<1>7. ASSUME NEW k \in Insts, el[x].primaryName[k] = x PROVE k # i /\ Engaged(x, k, "leads")
  BY <1>6, <1>7 DEF Engaged
<1>8. ASSUME NEW k \in Insts, k = el[x].replicaNominatedForItself PROVE k # i /\ Engaged(x, k, "last")
  <2>1. k # None
    BY NoneIsNoVote
  <2>2. el[x].primaryName[k] = None /\ OwnVote(x, k) # None
    BY <1>2, <1>3, <1>8, <2>1, VoteFields DEF SelfOK, OwnVote
  <2>3. k # i /\ ~Unvoted(k)
    <3>1. "NOMINATE" \in VoteTypes
      BY DEF VoteTypes
    <3>. QED BY <1>1, <2>2, <3>1 DEF Unvoted, OwnVote
  <2>4. Chosen(k)
    BY <2>3, QuietInstance DEF FirstState
  <2>5. hasPrimaryQuorum(el[x], k)
    BY <1>1, <2>2, <2>4, QuietChosen
  <2>6. x \in Settlers(k)
    BY <1>1, <2>2, <2>4, <2>5 DEF Chosen, LastDeclared, LastToDeclare, Settlers
  <2>. QED BY <2>2, <2>3, <2>6 DEF Last, Engaged
<1>9. el[x].replicaNominatedForItself \in Insts \cup {None}
  BY <1>1 DEF ElectionTypes, Elector, ElectorIn
<1>10. "leads" \in Roles /\ "last" \in Roles
  BY DEF Roles
<1>. QED BY <1>5, <1>7, <1>8, <1>9, <1>10

\* There are more nodes than such reasons.
LEMMA EngagedApart ==
    ASSUME ElectionTypes, FirstState, Quiet, PatientPool, NEW k \in Insts, NEW role \in Roles,
           NEW x \in Nodes, NEW y \in Nodes, Engaged(x, k, role), Engaged(y, k, role)
    PROVE  x = y
<1>1. CASE role = "leads"
  <2>1. el[x].primaryName[k] = x /\ el[y].primaryName[k] = y /\ x # None /\ y # None
    BY <1>1, NoneIsNoVote DEF Engaged
  <2>. QED BY <2>1, NamesAgree
<1>2. CASE role # "leads"
  <2>1. x \in Last(k) /\ y \in Last(k)
    BY <1>2 DEF Engaged
  <2>2. ~Unvoted(k)
    <3>1. "PRIMARY" \in VoteTypes
      BY DEF VoteTypes
    <3>. QED BY <2>1, <3>1 DEF Last, Settlers, OwnDeclaration, Unvoted
  <2>3. Chosen(k)
    BY <2>2, QuietInstance DEF FirstState
  <2>. QED BY <2>1, <2>3 DEF Chosen, Concluded
<1>. QED BY <1>1, <1>2

LEMMA SomebodyNominates ==
    ASSUME ElectionTypes, FirstState, Quiet, PatientPool, SmallPool, NEW i \in Insts, Unvoted(i)
    PROVE  FALSE
<1>. DEFINE P == pool.up
            T == (Insts \ {i}) \X Roles
            g == [x \in P |-> CHOOSE p \in T : Engaged(x, p[1], p[2])]
<1>1. \A x \in P : \E p \in T : Engaged(x, p[1], p[2])
  <2>. SUFFICES ASSUME NEW x \in P PROVE \E p \in T : Engaged(x, p[1], p[2])
    OBVIOUS
  <2>1. PICK k \in Insts \ {i}, role \in Roles : Engaged(x, k, role)
    BY StarterEngaged
  <2>2. <<k, role>> \in T /\ Engaged(x, <<k, role>>[1], <<k, role>>[2])
    BY <2>1
  <2>. QED BY <2>2
<1>2. g \in [P -> T] /\ \A x \in P : Engaged(x, g[x][1], g[x][2])
  <2>1. \A x \in P : g[x] \in T /\ Engaged(x, g[x][1], g[x][2])
    BY <1>1
  <2>. QED BY <2>1
<1>3. P \subseteq Nodes /\ IsFiniteSet(P) /\ Cardinality(P) \in Nat
  BY PoolTypes, ElectionAssumption, FS_Subset, FS_CardinalityType DEF ElectionTypes
<1>4. IsFiniteSet(T) /\ Cardinality(T) = (pool.instances - 1) * 2
  <2>1. pool.instances \in Nat \ {0} /\ Insts = 0 .. (pool.instances - 1)
    BY PoolTypes DEF ElectionTypes, Insts
  <2>2. IsFiniteSet(Insts) /\ Cardinality(Insts) = pool.instances
    <3>. DEFINE m == pool.instances - 1
    <3>1. m \in Int /\ 0 \in Int /\ 0 <= m /\ Insts = 0 .. m
      BY <2>1
    <3>. HIDE DEF m
    <3>2. IsFiniteSet(0 .. m) /\ Cardinality(0 .. m) = m + 1
      <4>1. Cardinality(0 .. m) = IF 0 > m THEN 0 ELSE m - 0 + 1
        BY <3>1, FS_Interval
      <4>. QED BY <3>1, <4>1, FS_Interval
    <3>. QED BY <2>1, <3>1, <3>2 DEF m
  <2>3. IsFiniteSet(Insts \ {i}) /\ Cardinality(Insts \ {i}) = pool.instances - 1
    BY <2>2, FS_RemoveElement
  <2>4. IsFiniteSet(Roles) /\ Cardinality(Roles) = 2
    <3>. DEFINE S == {"leads"}
    <3>1. IsFiniteSet(S) /\ Cardinality(S) = 1 /\ "last" \notin S /\ Roles = S \cup {"last"}
      BY FS_Singleton DEF Roles
    <3>. HIDE DEF S
    <3>. QED BY <3>1, FS_AddElement
  <2>. QED BY <2>3, <2>4, FS_Product
<1>5. Cardinality(T) < Cardinality(P)
  <2>1. Cardinality(P) >= quorum /\ pool.instances <= f + 1
    BY DEF SmallPool, ElectionTypes
  <2>2. pool.instances \in Nat \ {0}
    BY PoolTypes DEF ElectionTypes
  <2>. DEFINE p == Cardinality(P)
              t == Cardinality(T)
              k == pool.instances
  <2>3. t = (k - 1) * 2 /\ k \in Nat /\ k <= f + 1 /\ p \in Nat /\ p >= quorum
    BY <1>3, <1>4, <2>1, <2>2
  <2>. HIDE DEF p, t, k
  <2>4. t < p
    BY <2>3, Thresholds
  <2>. QED BY <2>4 DEF t, p
<1>. HIDE DEF P, T, g
<1>6. PICK x, y \in P : x # y /\ g[x] = g[y]
  BY <1>2, <1>3, <1>4, <1>5, FS_PigeonHole
<1>7. g[x][1] \in Insts /\ g[x][2] \in Roles
  BY <1>2, <1>6 DEF T
<1>. QED BY <1>2, <1>3, <1>6, <1>7, EngagedApart

LEMMA FirstSettled ==
    ASSUME ElectionTypes, FirstState, Quiet, PatientPool, SmallPool, NEW n \in conns, NEW i \in Insts
    PROVE  el[n].primaryName[i] # None \/ hasPrimaryQuorum(el[n], i)
<1>1. Chosen(i)
  BY QuietInstance, SomebodyNominates DEF FirstState
<1>. QED BY <1>1, QuietChosen

\* As long as there has been no re-election, all nodes choose the same primary
\* for an instance, whatever the order of nominations and declarations and
\* however many nodes connect late (primary_elector.py, processPrimary).
THEOREM FirstRoundAgreement == PatientPool => (Spec => [](FirstRound => PrimaryAgreed))
<1>. SUFFICES ASSUME PatientPool PROVE Spec => [](FirstRound => PrimaryAgreed)
  OBVIOUS
<1>1. Spec => [](ElectionTypes /\ FirstInv)
  BY FirstAlways
<1>2. ElectionTypes /\ FirstInv => (FirstRound => PrimaryAgreed)
  BY NamesAgree DEF FirstInv, PrimaryAgreed
<1>. QED BY <1>1, <1>2, PTL

\* As long as there has been no re-election, no node is given two instances to
\* lead, although nodes nominate for all instances at the same time
\* (primary_elector.py, startElection and primaryChanged).
THEOREM FirstRoundLeaders == PatientPool => (Spec => []LeadersApart)
<1>. SUFFICES ASSUME PatientPool PROVE Spec => []LeadersApart
  OBVIOUS
<1>1. Spec => [](ElectionTypes /\ FirstInv)
  BY FirstAlways
<1>2. ElectionTypes /\ FirstInv => LeadersApart
  BY FirstLeaders DEF FirstInv, LeadersApart
<1>. QED BY <1>1, <1>2, PTL

\* An election without a tie that has come to rest has settled every instance at
\* every connected node: no nomination, endorsement or scheduled action is lost
\* (primary_elector.py, getElectionMsgsForLaggedNodes and scheduleElection).
THEOREM FirstRoundSettlement == PatientPool /\ SmallPool => (Spec => []FirstRoundSettles)
<1>. SUFFICES ASSUME PatientPool, SmallPool PROVE Spec => []FirstRoundSettles
  OBVIOUS
<1>1. Spec => [](ElectionTypes /\ FirstInv)
  BY FirstAlways
<1>2. ElectionTypes /\ FirstInv => FirstRoundSettles
  BY FirstSettled DEF FirstInv, FirstRoundSettles
<1>. QED BY <1>1, <1>2, PTL
=============================================================================
