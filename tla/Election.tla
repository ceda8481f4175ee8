------------------------------ MODULE Election ------------------------------
(***************************************************************************)
(* The primary election of plenum (server/primary_elector.py): every node  *)
(* nominates a replica for a protocol instance, declares the winner of the *)
(* nominations it has seen with a PRIMARY, or proposes another round with  *)
(* a REELECTION when there is a tie; 2f+1 declarations choose the primary. *)
(*                                                                         *)
(* A replica is named by its node.  `el[n]' is the elector of node n with  *)
(* what it reads and writes of the node's replicas; its outBox and the     *)
(* connection to a peer are one FIFO queue, `chan[s][r]'.  The operators   *)
(* below are the elector's methods: they map an elector to the electors    *)
(* it may become, and what they send is left in `out'.                     *)
(***************************************************************************)
EXTENDS Naturals, Sequences, FiniteSets

CONSTANTS
    Nodes,          \* the pool
    Pools,          \* the situations an election may start in
    LastOrdered,    \* per node, lastOrderedPPSeqNo when the election starts
    MaxRound,       \* bound on re-election rounds
    Patient,        \* TRUE: timers and connections are slower than messages
    None

ASSUME ElectionAssumption ==
    /\ IsFiniteSet(Nodes)
    /\ None \notin Nodes \cup Nat /\ None \notin [name : Nodes, seq : Nat]
    /\ LastOrdered \in [Nodes -> Nat] /\ MaxRound \in Nat /\ Patient \in BOOLEAN
    /\ Pools \subseteq [instances : Nat \ {0},     \* protocol instances a node runs
                        up : SUBSET Nodes,          \* connected from the start
                        late : SUBSET Nodes]        \* connect at some later time

VARIABLES
    pool,       \* the member of Pools that this election starts in
    el,         \* electors
    chan,       \* chan[s][r]: election messages on their way from s to r
    conns       \* the nodes that are connected with one another

evars == <<pool, el, chan, conns>>

Insts == 0 .. pool.instances - 1
f == (Cardinality(Nodes) - 1) \div 3
quorum == 2 * f + 1
NoVotes == [x \in Nodes |-> None]      \* a vote is [name, seq]

\* Elector and replicas of a node that has just been started.
NewElector(n) ==
    [viewNo |-> 0,
     participating |-> n \in pool.up,
     nominations |-> [i \in Insts |-> NoVotes],
     primaryDeclarations |-> [i \in Insts |-> NoVotes],
     reElectionProposals |-> [i \in Insts |-> NoVotes],
     reElectionRounds |-> [i \in Insts |-> 0],
     timer |-> [i \in Insts |-> "none"],
     replicaNominatedForItself |-> None,
     previous_master_primary |-> None,
     primaryName |-> [i \in Insts |-> None],
     lastOrdered |-> LastOrdered[n],
     decide |-> {},      \* decidePrimary(i) in the action queue
     start |-> FALSE,    \* startElection in the action queue
     nominate |-> {},    \* nominateReplica(i) in the action queue
     delayed |-> {},     \* nominateReplica(i) after a random delay
     out |-> <<>>]
-----------------------------------------------------------------------------
Voters(votes) == {x \in Nodes : votes[x] # None}
CountOf(votes, v) == Cardinality({x \in Nodes : votes[x] = v})
\* The votes of which there are most.
MostCommon(votes) ==
    LET cast == {votes[x] : x \in Voters(votes)}
    IN  {v \in cast : \A w \in cast : CountOf(votes, w) <= CountOf(votes, v)}

nodeCount == Cardinality(conns)
isReady == nodeCount >= quorum
send(e, m) == [e EXCEPT !.out = Append(@, m)]

hasPrimaryReplica(n, e) == \E i \in Insts : e.primaryName[i] = n
was_master_primary_in_prev_view(n, e) == e.previous_master_primary = n
didReplicaNominate(n, e, i) == e.nominations[i][n] # None
Undecided(n, e) ==
    {i \in Insts : e.primaryName[i] = None
                   /\ ~(i = 0 /\ was_master_primary_in_prev_view(n, e))}

setElectionDefaults(e, i) ==
    [e EXCEPT !.nominations[i] = NoVotes, !.primaryDeclarations[i] = NoVotes,
              !.reElectionProposals[i] = NoVotes, !.timer[i] = "none"]

Nominate(n, e, i, v) ==
    send([e EXCEPT !.nominations[i][n] = v],
         [type |-> "NOMINATE", instId |-> i, viewNo |-> e.viewNo, vote |-> v])

nominateReplica(n, e, i) ==
    IF didReplicaNominate(n, e, i) THEN e
    ELSE Nominate(n, e, i, [name |-> n, seq |-> e.lastOrdered])

nominateRandomReplica(n, e) ==
    IF ~e.participating \/ Undecided(n, e) = {} THEN {e}
    ELSE {[e EXCEPT !.replicaNominatedForItself = i, !.nominate = @ \cup {i}]
              : i \in Undecided(n, e)}

\* Mutant of startElection: a node that leads an instance nominates for another.
StartAgain(n, e) ==
    IF e.replicaNominatedForItself = None THEN nominateRandomReplica(n, e) ELSE {e}

startElection(n, e) ==
    IF e.replicaNominatedForItself = None /\ ~hasPrimaryReplica(n, e)
    THEN nominateRandomReplica(n, e) ELSE {e}

\* A scheduled startElection that would change nothing is not kept.
scheduleElection(n, e) == [e EXCEPT !.start = startElection(n, e) # {e}]

hasNominationQuorum(e, i) == Cardinality(Voters(e.nominations[i])) >= quorum

\* decidePrimary returns at once.
Decided(n, e, i) ==
    \/ e.primaryDeclarations[i][n] # None
    \/ e.reElectionProposals[i][n] # None
    \/ ~hasNominationQuorum(e, i)

\* Nor is a scheduled decidePrimary that would return at once.
scheduleDecision(n, e, i) ==
    IF Decided(n, e, i) THEN e ELSE [e EXCEPT !.decide = @ \cup {i}]
-----------------------------------------------------------------------------
\* A candidate that led the master instance of the previous view.
LedBefore(e, m) ==
    m.instId = 0 /\ m.vote.name = e.previous_master_primary

processNominate(n, e, m, s) ==
    LET i == m.instId
        own == IF didReplicaNominate(n, e, i) THEN e ELSE Nominate(n, e, i, m.vote)
    IN  IF LedBefore(e, m) THEN e
        ELSE IF own.nominations[i][s] # None THEN own
        ELSE scheduleDecision(n, [own EXCEPT !.nominations[i][s] = m.vote], i)

hasPrimaryQuorum(e, i) == Cardinality(Voters(e.primaryDeclarations[i])) >= quorum

\* Mutant of primaryChanged: no further election is scheduled.
ChangedOnly(n, e, i, v) ==
    [e EXCEPT !.primaryName[i] = v.name, !.lastOrdered = IF @ < v.seq THEN v.seq ELSE @,
              !.previous_master_primary = IF i = 0 THEN None ELSE @,
              !.replicaNominatedForItself = IF @ = i THEN None ELSE @]

primaryChanged(n, e, i, v) ==
    scheduleElection(n,
        [e EXCEPT !.primaryName[i] = v.name,
                  !.lastOrdered = IF @ < v.seq THEN v.seq ELSE @,
                  !.previous_master_primary = IF i = 0 THEN None ELSE @,
                  !.replicaNominatedForItself = IF @ = i THEN None ELSE @])

processPrimary(n, e, m, s) ==
    LET i == m.instId
        e1 == [e EXCEPT !.primaryDeclarations[i][s] = m.vote]
    IN  IF LedBefore(e, m) \/ e.primaryDeclarations[i][s] # None THEN {e}
        ELSE IF e.primaryName[i] # None \/ ~hasPrimaryQuorum(e1, i) THEN {e1}
        ELSE {primaryChanged(n, e1, i, v) : v \in MostCommon(e1.primaryDeclarations[i])}

hasReelectionQuorum(e, i) == Cardinality(Voters(e.reElectionProposals[i])) >= quorum

expectedRound(n, e, i) ==
    e.reElectionRounds[i] + (IF e.reElectionProposals[i][n] # None THEN 0 ELSE 1)

\* The proposals are compared as lists whose order is arbitrary, so that any
\* of them may come out as the most common one.
processReelection(n, e, m, s) ==
    LET i == m.instId
        e1 == [e EXCEPT !.reElectionProposals[i][s] = m.tieAmong]
        ties == {e1.reElectionProposals[i][x] : x \in Voters(e1.reElectionProposals[i])}
        e2 == setElectionDefaults(e1, i)
        Again(tie) ==
            IF hasPrimaryReplica(n, e) \/ was_master_primary_in_prev_view(n, e) THEN e2
            ELSE IF \E v \in tie : v.name = n
                 THEN [e2 EXCEPT !.delayed = @ \cup {i}]
                 ELSE nominateReplica(n, e2, i)
    IN  IF m.round # expectedRound(n, e, i) \/ e.reElectionProposals[i][s] # None
        THEN {e}
        ELSE IF hasReelectionQuorum(e1, i) THEN {Again(tie) : tie \in ties} ELSE {e1}

Handle(n, e, m, s) ==
    CASE m.type = "NOMINATE" -> {processNominate(n, e, m, s)}
      [] m.type = "PRIMARY" -> processPrimary(n, e, m, s)
      [] m.type = "REELECTION" -> processReelection(n, e, m, s)
-----------------------------------------------------------------------------
getPrimaryCandidates(e, i) == MostCommon(e.nominations[i])
hasNominationsFromAll(e, i) == Cardinality(Voters(e.nominations[i])) = nodeCount
votesNeeded == (nodeCount + 2) \div 2       \* ceil((nodeCount + 1) / 2)

sendPrimary(n, e, i, v) ==
    send([e EXCEPT !.primaryDeclarations[i][n] = v, !.timer[i] = "none"],
         [type |-> "PRIMARY", instId |-> i, viewNo |-> e.viewNo, vote |-> v])

\* Mutant of sendReelection: in a tie everyone declares the replica it nominated.
DeclareOwn(n, e, i, candidates) == sendPrimary(n, e, i, e.nominations[i][n])

sendReelection(n, e, i, candidates) ==
    send([e EXCEPT !.reElectionRounds[i] = @ + 1,
                   !.reElectionProposals[i][n] = candidates, !.timer[i] = "none"],
         [type |-> "REELECTION", instId |-> i, viewNo |-> e.viewNo,
          round |-> e.reElectionRounds[i] + 1, tieAmong |-> candidates])

schedulePrimaryDecision(e, i) ==
    IF e.timer[i] = "none" THEN [e EXCEPT !.timer[i] = "running"] ELSE e

decidePrimary(n, e, i) ==
    LET candidates == getPrimaryCandidates(e, i)
        waited == hasNominationsFromAll(e, i) \/ e.timer[i] = "expired"
        winner == CHOOSE v \in candidates : TRUE
    IN  IF Decided(n, e, i) THEN e
        ELSE IF Cardinality(candidates) = 1
             THEN IF waited \/ CountOf(e.nominations[i], winner) >= votesNeeded
                  THEN sendPrimary(n, e, i, winner) ELSE schedulePrimaryDecision(e, i)
             ELSE IF waited THEN sendReelection(n, e, i, candidates)
                  ELSE schedulePrimaryDecision(e, i)

\* The scheduled decisions and nominations, instance after instance.
decideAll(n, e, insts) ==
    LET done[k \in 0 .. pool.instances] ==
            IF k = 0 THEN e
            ELSE IF k - 1 \in insts THEN decidePrimary(n, done[k - 1], k - 1) ELSE done[k - 1]
    IN  done[pool.instances]

nominateAll(n, e, insts) ==
    LET done[k \in 0 .. pool.instances] ==
            IF k = 0 THEN e
            ELSE IF k - 1 \in insts THEN nominateReplica(n, done[k - 1], k - 1) ELSE done[k - 1]
    IN  done[pool.instances]

\* What the action queue holds is run before the next message is looked at.
_serviceActions(n, e) ==
    LET decided == decideAll(n, [e EXCEPT !.decide = {}, !.start = FALSE], e.decide)
    IN  {nominateAll(n, [d EXCEPT !.nominate = {}], d.nominate)
             : d \in IF e.start THEN startElection(n, decided) ELSE {decided}}

\* Mutant of viewChanged: who led the previous view is not remembered.
ForgetLeader(n, e, viewNo) ==
    nominateRandomReplica(n,
        [NewElector(n) EXCEPT !.viewNo = viewNo, !.participating = e.participating,
                              !.lastOrdered = e.lastOrdered, !.out = e.out])

\* A new view: a fresh election for every instance.
viewChanged(n, e, viewNo) ==
    nominateRandomReplica(n,
        [e EXCEPT !.previous_master_primary = e.primaryName[0],
                  !.viewNo = viewNo,
                  !.primaryName = [i \in Insts |-> None],
                  !.nominations = [i \in Insts |-> NoVotes],
                  !.primaryDeclarations = [i \in Insts |-> NoVotes],
                  !.reElectionProposals = [i \in Insts |-> NoVotes],
                  !.reElectionRounds = [i \in Insts |-> 0],
                  !.timer = [i \in Insts |-> "none"],
                  !.replicaNominatedForItself = None])

getElectionMsgsForInstance(n, e, i) ==
    LET Msg(t, v) == [type |-> t, instId |-> i, viewNo |-> e.viewNo, vote |-> v]
        Own(t, votes) == IF votes[n] = None THEN <<>> ELSE << Msg(t, votes[n]) >>
    IN  IF e.primaryName[i] # None
        THEN << Msg("PRIMARY", [name |-> e.primaryName[i], seq |-> e.lastOrdered]) >>
        ELSE Own("NOMINATE", e.nominations[i]) \o Own("PRIMARY", e.primaryDeclarations[i])

getElectionMsgsForLaggedNodes(n) ==
    LET msgs[k \in 0 .. pool.instances] ==
            IF k = 0 THEN <<>> ELSE msgs[k - 1] \o getElectionMsgsForInstance(n, el[n], k - 1)
    IN  msgs[pool.instances]
-----------------------------------------------------------------------------
\* Store the elector of n; what it has sent goes to every connected node.
Broadcast(c, n, msgs) ==
    [c EXCEPT ![n] = [r \in Nodes |-> IF r \in conns \ {n} THEN @[r] \o msgs ELSE @[r]]]

Store(n, e, c) ==
    /\ el' = [el EXCEPT ![n] = [e EXCEPT !.out = <<>>]]
    /\ chan' = Broadcast(c, n, e.out)
    /\ UNCHANGED <<pool, conns>>

WithinRounds(e) == \A i \in Insts : e.reElectionRounds[i] <= MaxRound

Receive(n, s) ==
    /\ n \in conns /\ isReady /\ chan[s][n] # <<>>
    /\ LET m == Head(chan[s][n])
           c == [chan EXCEPT ![s][n] = Tail(@)]
       IN  \E e \in IF m.viewNo = el[n].viewNo THEN Handle(n, el[n], m, s) ELSE {el[n]} :
               Store(n, e, c)

HasActions(e) == e.decide # {} \/ e.nominate # {} \/ e.start

RunActions(n) ==
    /\ n \in conns /\ isReady /\ HasActions(el[n])
    /\ \E e \in _serviceActions(n, el[n]) : WithinRounds(e) /\ Store(n, e, chan)

DelayOver(n, i) ==
    /\ n \in conns /\ isReady /\ i \in el[n].delayed
    /\ Store(n, nominateReplica(n, [el[n] EXCEPT !.delayed = @ \ {i}], i), chan)

Quiet ==
    \A n \in conns : /\ ~HasActions(el[n]) /\ el[n].delayed = {}
                     /\ \A s \in Nodes : chan[s][n] = <<>>

Timeout(n, i) ==
    /\ n \in conns /\ isReady /\ el[n].timer[i] = "running"
    /\ Patient => Quiet
    /\ el' = [el EXCEPT ![n] = scheduleDecision(n, [@ EXCEPT !.timer[i] = "expired"], i)]
    /\ UNCHANGED <<pool, chan, conns>>

\* A node that connects gets Msgs(s) from every s, and everybody who has now
\* enough connections looks whether an election is due.
Connected(n, Msgs(_)) ==
    LET ready == Cardinality(conns \cup {n}) >= quorum
    IN  /\ conns' = conns \cup {n}
        /\ el' = [x \in Nodes |-> IF x \in conns' /\ ready THEN scheduleElection(x, el[x])
                                  ELSE el[x]]
        /\ chan' = [s \in Nodes |-> [r \in Nodes |->
                        IF s \in conns /\ r = n /\ ready THEN Msgs(s) ELSE chan[s][r]]]

Join(n) ==
    /\ n \in pool.late \ conns /\ (Patient => Quiet)
    /\ Connected(n, getElectionMsgsForLaggedNodes)
    /\ UNCHANGED pool

CaughtUp(n) ==
    /\ n \in conns /\ isReady /\ ~el[n].participating
    /\ el' = [el EXCEPT ![n] = scheduleElection(n, [@ EXCEPT !.participating = TRUE])]
    /\ UNCHANGED <<pool, chan, conns>>

Init ==
    /\ pool \in Pools
    /\ conns = pool.up
    /\ el = [n \in Nodes |-> scheduleElection(n, NewElector(n))]
    /\ chan = [s \in Nodes |-> [r \in Nodes |-> <<>>]]

Next ==
    \E n \in Nodes :
        \/ \E s \in Nodes : Receive(n, s)
        \/ RunActions(n)
        \/ \E i \in Insts : DelayOver(n, i) \/ Timeout(n, i)
        \/ Join(n)
        \/ CaughtUp(n)

Fairness ==
    \A n \in Nodes :
        /\ \A s \in Nodes : WF_evars(Receive(n, s))
        /\ WF_evars(RunActions(n))
        /\ \A i \in Insts : WF_evars(DelayOver(n, i)) /\ WF_evars(Timeout(n, i))
        /\ WF_evars(Join(n)) /\ WF_evars(CaughtUp(n))

Spec == Init /\ [][Next]_evars /\ Fairness
-----------------------------------------------------------------------------
\* Agreement.  Two nodes that have chosen a primary for an instance in the same
\* view have chosen the same one, as processPrimary assumes when it takes the
\* most common declaration (primary_elector.py:361-375).  It rests on timers
\* that do not overtake nominations (Patient) and on nodes that do not forget.
PrimaryAgreed ==
    \A m, n \in Nodes : \A i \in Insts :
        /\ el[m].viewNo = el[n].viewNo
        /\ el[m].primaryName[i] # None /\ el[n].primaryName[i] # None
        => el[m].primaryName[i] = el[n].primaryName[i]

\* At any time there is at most one primary replica per node, as RBFT needs it
\* (test/README.md:68-70, checkEveryNodeHasAtMostOnePrimary).
OnePrimaryEach ==
    \A n \in Nodes : \A i, j \in Insts :
        i # j /\ el[n].primaryName[i] # None => el[n].primaryName[i] # el[n].primaryName[j]

\* There has been no re-election.
FirstRound == \A n \in Nodes : \A i \in Insts : el[n].reElectionRounds[i] = 0

\* That much the code does keep until a tie sends an instance into another round
\* (processReelection then nominates without looking at replicaNominatedForItself):
\* nodes nominate, endorse and lead in several instances at once and may lag
\* behind, and yet no node is given two instances.
LeadersApart == FirstRound => OnePrimaryEach

\* As long as there has been no re-election, an election that has come to rest
\* has given every connected node 2f+1 declarations for every instance: no
\* nomination, endorsement or scheduled decision got lost on the way.
FirstRoundSettles ==
    Quiet /\ FirstRound
    => \A n \in conns : \A i \in Insts :
           el[n].primaryName[i] # None \/ hasPrimaryQuorum(el[n], i)

=============================================================================
