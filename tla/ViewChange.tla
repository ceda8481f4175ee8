----------------------------- MODULE ViewChange -----------------------------
(***************************************************************************)
(* The view change of plenum (server/node.py) with the election it starts: *)
(* a node that finds the master slow, or has lost its primary for too      *)
(* long, votes with an INSTANCE_CHANGE; 2f+1 votes move a node to the next *)
(* view, where its elector starts afresh.  A node that connects is told    *)
(* the view and the election messages of those it connects to.             *)
(*                                                                         *)
(* The node's and the elector's view number are one, el[n].viewNo.         *)
(***************************************************************************)
EXTENDS Election

CONSTANTS
    Scenes,         \* what may go wrong: see the assumption
    Leader,         \* the primary of view 0
    MaxView         \* bound on views

ASSUME ViewChangeAssumption ==
    /\ Leader \in Nodes /\ MaxView \in Nat \ {0}
    /\ Scenes \subseteq [crash : SUBSET Nodes,      \* may stop and start again
                         slow : SUBSET Nodes,       \* their monitor finds the master slow
                         faulty : SUBSET Nodes,     \* vote without a reason: at most f
                         coolDowns : Nat]           \* bound on throttling periods that
                                                    \* end at a node within a view
    /\ \A s \in Scenes : Cardinality(s.faulty) <= f

VARIABLES
    scene,      \* the member of Scenes that happens
    nd,         \* what a node keeps for view changes
    crashed,    \* nodes that have stopped once
    suspecting, \* history: nodes that voted of their own accord
    led         \* history: led[v] are the nodes chosen to lead the master in view v

vvars == <<scene, nd, crashed, suspecting, led>>
vars == <<evars, vvars>>

Views == 0 .. MaxView
Correct == Nodes \ scene.faulty

NewNode ==
    [instanceChanges |-> [v \in Views |-> {}],
     msgsForFutureViews |-> [v \in Views |-> <<>>],
     msgsToElector |-> <<>>,
     view_change_in_progress |-> FALSE,
     degraded |-> FALSE,                \* monitor.isMasterDegraded()
     throttled |-> FALSE,               \* insChngThrottler refuses
     cooled |-> 0,
     lost |-> "no"]                     \* lost_primary_at and its timer
-----------------------------------------------------------------------------
\* A step of node n takes it from its elector and node record to st.e, st.d.
\* What it sends is st.e.out; st.s records whether it voted out of suspicion.
State(n) == [e |-> el[n], d |-> nd[n]]

\* Mutant of hasQuorum: f+1 votes are enough.
WeakQuorum(st, v) == Cardinality(st.d.instanceChanges[v]) > f

hasQuorum(st, v) == Cardinality(st.d.instanceChanges[v]) >= quorum
canViewChange(st, v) == hasQuorum(st, v) /\ v > st.e.viewNo

\* Mutant of processStashedMsgsForView: what is handed over is not removed.
KeepStashed(d, v) ==
    [d EXCEPT !.msgsToElector = @ \o d.msgsForFutureViews[v]]

\* Stashed messages of the view are handed to the elector, older ones go.
processStashedMsgsForView(d, v) ==
    [d EXCEPT !.msgsToElector = @ \o d.msgsForFutureViews[v],
              !.msgsForFutureViews = [w \in Views |-> IF w <= v THEN <<>> ELSE @[w]]]

startViewChange(n, st, v) ==
    {[e |-> e,
      d |-> [processStashedMsgsForView(st.d, v) EXCEPT
                 !.view_change_in_progress = TRUE, !.degraded = FALSE,
                 !.throttled = FALSE, !.cooled = 0]] : e \in viewChanged(n, st.e, v)}

do_view_change_if_possible(n, st, v) ==
    IF canViewChange(st, v) THEN startViewChange(n, st, v) ELSE {st}

_record_inst_change_msg(n, st, v, frm) ==
    LET voted == [st EXCEPT !.d.instanceChanges[v] = @ \cup {frm}]
    IN  IF v > st.e.viewNo THEN do_view_change_if_possible(n, voted, v) ELSE {voted}

VoteFor(v) == [type |-> "INSTANCE_CHANGE", viewNo |-> v]

sendInstanceChange(n, st, v) ==
    IF st.d.throttled THEN {st}
    ELSE _record_inst_change_msg(n, [e |-> send(st.e, VoteFor(v)),
                                     d |-> [st.d EXCEPT !.throttled = TRUE]], v, n)

\* checkPerformance reads the view again after the vote.
Propose(n, st) ==
    UNION {do_view_change_if_possible(n, x, IF x.e.viewNo < MaxView THEN x.e.viewNo + 1 ELSE MaxView)
               : x \in sendInstanceChange(n, st, st.e.viewNo + 1)}

\* Mutant of processInstanceChange: votes count only at a node that is degraded.
IgnoreVotes(n, st, v, frm) ==
    IF v <= st.e.viewNo \/ ~st.d.degraded THEN {st}
    ELSE _record_inst_change_msg(n, st, v, frm)

processInstanceChange(n, st, v, frm) ==
    IF v <= st.e.viewNo THEN {st}
    ELSE UNION {IF x.d.degraded /\ n \notin x.d.instanceChanges[v]
                THEN sendInstanceChange(n, x, v) ELSE {x}
                    : x \in IF frm \in st.d.instanceChanges[v] THEN {st}
                            ELSE _record_inst_change_msg(n, st, v, frm)}
-----------------------------------------------------------------------------
all_instances_have_primary(e) == \A i \in Insts : e.primaryName[i] # None

on_view_change_complete(st) ==
    [st EXCEPT !.d.view_change_in_progress = FALSE,
               !.d.instanceChanges[st.e.viewNo - 1] = {}]

\* Called when the elector has found a primary.
primary_found(st) ==
    IF st.d.view_change_in_progress /\ all_instances_have_primary(st.e)
    THEN on_view_change_complete(st) ELSE st

Found(old, new) == \E i \in Insts : old.primaryName[i] = None /\ new.primaryName[i] # None

Elect(n, st, m, s) ==
    {LET x == [st EXCEPT !.e = e] IN IF Found(st.e, e) THEN primary_found(x) ELSE x
         : e \in Handle(n, st.e, m, s)}

\* Mutant of sendToElector: a message of a later view is handled at once.
AnyView(n, st, m, s) == IF m.viewNo < st.e.viewNo THEN {st} ELSE Elect(n, st, m, s)

\* Messages of the previous view pass, and the elector's filterMsgs drops them.
sendToElector(n, st, m, s) ==
    IF m.viewNo > st.e.viewNo
    THEN {[st EXCEPT !.d.msgsForFutureViews[m.viewNo] = Append(@, <<m, s>>)]}
    ELSE IF m.viewNo < st.e.viewNo THEN {st} ELSE Elect(n, st, m, s)

StoreNode(n, st, c) ==
    /\ Store(n, st.e, c)
    /\ nd' = [nd EXCEPT ![n] = st.d]
    /\ led' = [led EXCEPT ![st.e.viewNo] =
                   @ \cup ({st.e.primaryName[0]} \ {None})]
    /\ UNCHANGED <<scene, crashed>>
-----------------------------------------------------------------------------
Running(n) == n \in conns /\ isReady
Settled == Quiet /\ \A n \in conns : nd[n].msgsToElector = <<>>

ReceiveVote(n, s) ==
    /\ n \in conns /\ chan[s][n] # <<>> /\ Head(chan[s][n]).type = "INSTANCE_CHANGE"
    /\ \E st \in processInstanceChange(n, State(n), Head(chan[s][n]).viewNo, s) :
           /\ StoreNode(n, st, [chan EXCEPT ![s][n] = Tail(@)])
           /\ suspecting' = suspecting \cup (IF nd[n].degraded /\ st.e.out # <<>> THEN {n} ELSE {})

ReceiveElection(n, s) ==
    /\ Running(n) /\ chan[s][n] # <<>> /\ Head(chan[s][n]).type # "INSTANCE_CHANGE"
    /\ nd[n].msgsToElector = <<>>
    /\ \E st \in sendToElector(n, State(n), Head(chan[s][n]), s) :
           StoreNode(n, st, [chan EXCEPT ![s][n] = Tail(@)])
    /\ UNCHANGED suspecting

serviceElectorInbox(n) ==
    /\ Running(n) /\ nd[n].msgsToElector # <<>>
    /\ LET x == Head(nd[n].msgsToElector)
           st == [State(n) EXCEPT !.d.msgsToElector = Tail(@)]
       IN  \E new \in Elect(n, st, x[1], x[2]) : StoreNode(n, new, chan)
    /\ UNCHANGED suspecting

serviceElectorActions(n) ==
    /\ nd[n].msgsToElector = <<>> /\ RunActions(n)
    /\ UNCHANGED vvars

ElectorTimer(n) ==
    /\ \E i \in Insts : DelayOver(n, i) \/ ((Patient => Settled) /\ Timeout(n, i))
    /\ UNCHANGED vvars

\* The monitor's verdict changes.
MasterSlow(n) ==
    /\ Running(n) /\ n \in scene.slow /\ ~nd[n].degraded /\ el[n].viewNo < MaxView
    /\ nd' = [nd EXCEPT ![n].degraded = TRUE]
    /\ UNCHANGED <<evars, scene, crashed, suspecting, led>>

checkPerformance(n) ==
    /\ Running(n) /\ el[n].participating /\ nd[n].degraded /\ ~nd[n].throttled
    /\ el[n].viewNo < MaxView
    /\ \E st \in Propose(n, State(n)) : StoreNode(n, st, chan)
    /\ suspecting' = suspecting \cup {n}

\* The throttling period ends; a node that has no reason to vote does not notice.
CoolDown(n) ==
    /\ nd[n].throttled /\ nd[n].cooled < scene.coolDowns
    /\ nd[n].degraded \/ nd[n].lost = "waiting"
    /\ nd' = [nd EXCEPT ![n].throttled = FALSE, ![n].cooled = @ + 1]
    /\ UNCHANGED <<evars, scene, crashed, suspecting, led>>

propose_view_change(n) ==
    /\ n \in conns /\ nd[n].lost = "waiting" /\ (Patient => Settled)
    /\ el[n].viewNo < MaxView
    /\ LET v == el[n].viewNo + 1
           voted == sendInstanceChange(n, [State(n) EXCEPT !.d.lost = "proposed"], v)
       IN  \E st \in UNION {do_view_change_if_possible(n, x, v) : x \in voted} :
               /\ StoreNode(n, st, chan)
               /\ suspecting' = suspecting \cup (IF st.e.out # <<>> THEN {n} ELSE {})

\* A faulty node votes once, for any view and at any time.
FaultyVote(n, v) ==
    /\ n \in (scene.faulty \cap conns) \ suspecting
    /\ suspecting' = suspecting \cup {n}
    /\ chan' = Broadcast(chan, n, <<VoteFor(v)>>)
    /\ UNCHANGED <<pool, el, conns, scene, nd, crashed, led>>
-----------------------------------------------------------------------------
\* Node n stops; those it leaves start waiting when it led the master.
Crash(n) ==
    /\ n \in (scene.crash \cap conns) \ crashed
    /\ crashed' = crashed \cup {n}
    /\ conns' = conns \ {n}
    /\ el' = [x \in Nodes |-> IF x = n THEN [NewElector(n) EXCEPT !.participating = FALSE]
                              ELSE scheduleElection(x, el[x])]
    /\ nd' = [x \in Nodes |-> IF x = n THEN NewNode
                              ELSE IF el[x].primaryName[0] = n THEN [nd[x] EXCEPT !.lost = "waiting"]
                              ELSE nd[x]]
    /\ chan' = [s \in Nodes |-> [r \in Nodes |-> IF n \in {s, r} THEN <<>> ELSE chan[s][r]]]
    /\ UNCHANGED <<pool, scene, suspecting, led>>

\* Mutant of MsgsForLaggedNodes: the view is not communicated.
ElectionOnly(s) == getElectionMsgsForLaggedNodes(s)

MsgsForLaggedNodes(s) ==
    getElectionMsgsForLaggedNodes(s)
        \o (IF el[s].viewNo > 0 THEN << VoteFor(el[s].viewNo) >> ELSE <<>>)

\* It connects again: every other node sends its election messages and its
\* view, and stops waiting if it is the primary that has come back.
Reconnect(n) ==
    /\ n \in crashed \ conns /\ (Patient => Settled)
    /\ Connected(n, MsgsForLaggedNodes)
    /\ UNCHANGED <<pool, scene, crashed, suspecting, led>>
    /\ nd' = [x \in Nodes |-> IF x \in conns /\ el[x].primaryName[0] = n
                              THEN [nd[x] EXCEPT !.lost = "no"] ELSE nd[x]]

NodeCaughtUp(n) == CaughtUp(n) /\ UNCHANGED vvars
Elected(n) ==
    LET v == [name |-> Leader, seq |-> LastOrdered[Leader]]
    IN  [NewElector(n) EXCEPT !.primaryName[0] = Leader,
                              !.nominations[0] = [x \in Nodes |-> v],
                              !.primaryDeclarations[0] = [x \in Nodes |-> v]]

\* View 0, with Leader elected and everybody connected.
VInit ==
    /\ pool \in Pools /\ conns = pool.up
    /\ scene \in Scenes
    /\ el = [n \in Nodes |-> Elected(n)]
    /\ chan = [s \in Nodes |-> [r \in Nodes |-> <<>>]]
    /\ nd = [n \in Nodes |-> NewNode]
    /\ crashed = {} /\ suspecting = {}
    /\ led = [v \in Views |-> IF v = 0 THEN {Leader} ELSE {}]

VNext ==
    \E n \in Nodes :
        \/ \E s \in Nodes : ReceiveVote(n, s)
        \/ \E s \in Nodes : ReceiveElection(n, s)
        \/ serviceElectorInbox(n)
        \/ serviceElectorActions(n)
        \/ ElectorTimer(n)
        \/ MasterSlow(n)
        \/ checkPerformance(n)
        \/ CoolDown(n)
        \/ propose_view_change(n)
        \/ \E v \in 1 .. MaxView : FaultyVote(n, v)
        \/ Crash(n)
        \/ Reconnect(n)
        \/ NodeCaughtUp(n)

\* What the event loop of a node finds to do.
prod(n) ==
    \/ \E s \in Nodes : ReceiveVote(n, s) \/ ReceiveElection(n, s)
    \/ serviceElectorInbox(n) \/ serviceElectorActions(n)

\* Event loops run and timers expire.
VFairness ==
    \A n \in Nodes :
        WF_vars(prod(n)) /\ WF_vars(ElectorTimer(n)) /\ WF_vars(propose_view_change(n))

VSpec == VInit /\ [][VNext]_vars /\ VFairness
-----------------------------------------------------------------------------
\* The type invariant of the view change state of the nodes (node.py:233-312).
VTypeOK ==
    /\ scene \in Scenes /\ crashed \subseteq Nodes
    /\ \A n \in Nodes : LET d == nd[n] IN
           /\ el[n].viewNo \in Views /\ d.instanceChanges \in [Views -> SUBSET Nodes]
           /\ \A v \in Views : d.msgsForFutureViews[v] # <<>> => v > el[n].viewNo
           /\ d.cooled \in 0 .. scene.coolDowns /\ d.lost \in {"no", "waiting", "proposed"}

\* A view change needs f+1 correct nodes that suspected the master themselves:
\* neither the votes of f faulty nodes, nor the views that are communicated to
\* a node that connects, get a correct node out of view 0 (canViewChange).
ViewBacked ==
    (\E n \in Correct : el[n].viewNo > 0) => Cardinality(suspecting \cap Correct) > f

\* The node that led the master in one view is not chosen by anybody in the
\* next, also when it has restarted and forgotten that it led
\* (previous_master_primary).
NewLeader == \A v \in Views \ {0} : led[v] \cap led[v - 1] = {}

\* Nobody chooses a master primary other than the one of its view, across
\* nodes that change view early, late, or after a restart.
OneLeader == \A v \in Views : Cardinality(led[v]) <= 1

\* When nothing is on its way and no vote is still to be cast, all correct
\* nodes are in the same view, the one that came back included: it learns the
\* view from what onConnsChanged sends it (node.py:755-766).
ViewsMeet ==
    Settled /\ (\A n \in conns : /\ ~nd[n].degraded
                                 /\ nd[n].lost = "waiting" => el[n].viewNo = MaxView)
    => \A m, n \in conns \cap Correct : el[m].viewNo = el[n].viewNo

\* A primary that stays away is replaced: the nodes that lost it get to the
\* next view (lost_master_primary, propose_view_change).
LeaderReplaced ==
    Leader \notin conns ~> (Leader \in conns \/ \A n \in conns : el[n].viewNo > 0)
=============================================================================
