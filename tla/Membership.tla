----------------------------- MODULE Membership -----------------------------
(* Pool membership on one node, Me (pool_manager.py, pool_req_handler.py,   *)
(* domain_req_handler.py, stack_manager.py and the node's replicas and      *)
(* monitor).  NODE and NYM requests are validated against the uncommitted   *)
(* states, applied in batches, committed or reverted; a committed NODE      *)
(* transaction changes the registry of nodes, f, the number of replicas and *)
(* the connections.  A restart rebuilds all of it from the pool ledger and  *)
(* catches up, first the pool ledger and then the domain ledger.            *)
(*                                                                          *)
(* A NODE request is [by, nym, alias, ha, services, key]: its author, the   *)
(* node's identifier and name, an address (node and client address as one)  *)
(* or None, the validator service switched "on" or "off" or None, and       *)
(* whether it has a new verification key.  A NYM request is [by, nym,       *)
(* role], with role "steward", "none", or None if the field is missing.     *)
EXTENDS Monitor

CONSTANTS Me, None,
          Genesis,      \* the pool ledger at the start
          GenesisNyms,  \* the domain ledger at the start
          stewardThreshold,
          Primaries,    \* the nodes that elections may choose
          Requests,     \* client requests the instances order, <<client, id>>
          Instances,    \* 1..the largest number of replicas
          Scenes        \* bounds: [proposals, the batches [ledger, reqs] that may
                        \* be proposed; and how often each kind of step may happen]

\* None is no role and no service.  The genesis transactions give every node a
\* steward of its own, and logs and proposals are sequences of transactions.  Instances are numbered.
ASSUME MembershipAssumption ==
    /\ None \notin {"steward", "on"}
    /\ Genesis \in Seq(Range(Genesis)) /\ GenesisNyms \in Seq(Range(GenesisNyms))
    /\ \A i, j \in DOMAIN Genesis :
          i # j => Genesis[i].nym # Genesis[j].nym /\ Genesis[i].by # Genesis[j].by
    /\ \A i \in DOMAIN Genesis : \E j \in DOMAIN GenesisNyms :
          GenesisNyms[j].nym = Genesis[i].by /\ GenesisNyms[j].role = "steward"
    /\ \A s \in Scenes :
          /\ "proposals" \in DOMAIN s
          /\ \A p \in s.proposals : /\ p.ledger \in {"pool", "domain"}
                                    /\ p.reqs \in Seq(Range(p.reqs)) \ {<<>>}
    /\ Instances \subseteq Nat

VARIABLES pool,      \* the committed pool ledger
          domain,    \* the committed domain ledger: NYM transactions
          ahead,     \* NYM transactions the pool has committed and this node
                     \* has yet to catch up
          batches,   \* batches [ledger, txns] applied and not yet committed
          cache,     \* lru_cache of isStewardOfNode: set of <<by, nym, answer>>
          node,      \* the node's registry, replicas and monitor, see NewNode
          mode,      \* "starting" while the pool ledger catches up, "discovered"
                     \* while the domain ledger does, then "participating"
          primary,   \* master_primary: the node with the master's primary, or None
          previous_master_primary,  \* the elector's: who may not win this election
          clock,
          past,      \* history, see Init
          left       \* what the scene still allows

vars == <<pool, domain, ahead, batches, cache, node, mode, primary,
          previous_master_primary, clock, past, left>>

MaxFailures(n) == IF n >= 4 THEN (n - 1) \div 3 ELSE 0

\* A ledger with the batches that are applied only: log, and then the ledger
\* after each of the batches bs.
Applied(log, bs, ledger) ==
    LET after[k \in 0..Len(bs)] ==
            IF k = 0 THEN log
            ELSE IF bs[k].ledger = ledger THEN after[k - 1] \o bs[k].txns ELSE after[k - 1]
    IN  after
Uncommitted == Applied(pool, batches, "pool")[Len(batches)]
UncommittedNyms == Applied(domain, batches, "domain")[Len(batches)]

-----------------------------------------------------------------------------
(* Node data.  The state holds, for a nym, the author of its first          *)
(* transaction and the latest value of every field; the ledger's            *)
(* getNodeInfoFromLedger builds the same from the transactions.             *)

\* The places in the log of the transactions of a nym.
TxnsOf(log, nym) == {i \in DOMAIN log : log[i].nym = nym}
nodeNyms(log) == {log[i].nym : i \in DOMAIN log}

\* The latest of the values that is given.
Latest(values) ==
    LET given == {i \in DOMAIN values : values[i] # None}
    IN  IF given = {} THEN None ELSE values[Max(given)]

updateState(log, places) ==
    [by |-> log[Min(places)].by,
     alias |-> Latest([i \in places |-> log[i].alias]),
     ha |-> Latest([i \in places |-> log[i].ha]),
     services |-> Latest([i \in places |-> log[i].services])]
getNodeData(log, nym) == updateState(log, TxnsOf(log, nym))

\* The node's data before its last transaction, if it has several.
getNodeInfoFromLedger(log, nym) ==
    LET places == TxnsOf(log, nym)
        older == places \ {Max(places)}
    IN  updateState(log, IF older = {} THEN places ELSE older)

-----------------------------------------------------------------------------
(* DomainRequestHandler: may the NYM request be applied?                    *)

\* The role is the latest one given; a new nym without a role has none.
isSteward(nyms, by) == Latest([i \in TxnsOf(nyms, by) |-> nyms[i].role]) = "steward"

countStewards(nyms) == Cardinality({i \in DOMAIN nyms : nyms[i].role = "steward"})

\* Stewards are counted in the committed transactions only.
validateNym(nyms, committed, t) ==
    /\ isSteward(nyms, t.by)
    /\ t.role = "steward" => countStewards(committed) <= stewardThreshold

-----------------------------------------------------------------------------
(* PoolRequestHandler: may the NODE request be applied?                     *)

OwnsSome(log, by) == \E n \in nodeNyms(log) : getNodeData(log, n).by = by
\* Mutant of isStewardOfNode: any node of the steward will do.
StewardOfSome(log, known, by, nym) ==
    IF <<by, nym, TRUE>> \in known THEN TRUE ELSE OwnsSome(log, by)

\* From the cache, if it was asked before.
isStewardOfNode(log, known, by, nym) ==
    IF \E a \in BOOLEAN : <<by, nym, a>> \in known
    THEN <<by, nym, TRUE>> \in known
    ELSE getNodeData(log, nym).by = by

\* Mutant of stewardHasNode: only the committed nodes are looked at.
HasCommittedNode(log, by) == OwnsSome(pool, by)
stewardHasNode(log, by) == OwnsSome(log, by)

isNodeDataSame(log, t) ==
    LET d == getNodeData(log, t.nym)
    IN  d.alias = t.alias /\ d.ha = t.ha /\ d.services = t.services

\* For a new node the comparison is between the others' data and nothing, so
\* it never conflicts.
isNodeDataConflicting(log, t) ==
    LET d == getNodeData(log, t.nym)
        ha == IF t.ha = None THEN d.ha ELSE t.ha
    IN  \/ d.alias # t.alias
        \/ \E n \in nodeNyms(log) \ {t.nym} :
              LET o == getNodeData(log, n) IN o.alias = t.alias \/ o.ha = ha

authErrorWhileAddingNode(log, nyms, t) ==
    \/ t.ha = None
    \/ ~isSteward(nyms, t.by)
    \/ stewardHasNode(log, t.by)

authErrorWhileUpdatingNode(log, nyms, known, t) ==
    \/ ~isSteward(nyms, t.by)
    \/ ~isStewardOfNode(log, known, t.by, t.nym)
    \/ isNodeDataSame(log, t)
    \/ isNodeDataConflicting(log, t)

Exists(log, nym) == nym \in nodeNyms(log)
validateNode(log, nyms, known, t) ==
    IF Exists(log, t.nym) THEN ~authErrorWhileUpdatingNode(log, nyms, known, t)
    ELSE ~authErrorWhileAddingNode(log, nyms, t)

\* What isStewardOfNode remembers once t was validated.
Remembered(log, nyms, known, t) ==
    IF Exists(log, t.nym) /\ isSteward(nyms, t.by)
    THEN known \cup {<<t.by, t.nym, isStewardOfNode(log, known, t.by, t.nym)>>}
    ELSE known

\* A request of the batch is applied if it is valid, and left out otherwise.
processReqDuringBatch(ledger, s, t) ==
    IF ledger = "domain"
    THEN [s EXCEPT !.nyms = IF validateNym(s.nyms, domain, t) THEN Append(@, t) ELSE @]
    ELSE [s EXCEPT !.log = IF validateNode(s.log, s.nyms, s.cache, t) THEN Append(@, t) ELSE @,
                   !.cache = Remembered(s.log, s.nyms, s.cache, t)]

ProcessReqs(p) ==
    LET after[k \in 0..Len(p.reqs)] ==
            IF k = 0 THEN [log |-> Uncommitted, nyms |-> UncommittedNyms, cache |-> cache]
            ELSE processReqDuringBatch(p.ledger, after[k - 1], p.reqs[k])
    IN  after[Len(p.reqs)]

-----------------------------------------------------------------------------
(* The node.                                                                *)
(*   reg        nodeReg, name -> address                                    *)
(*   conns      names of the connected nodes                                *)
(*   f          as setF last computed it                                    *)
(*   replicas   their number                                                *)
(*   inbox[i]   messages with replica i (msgsToReplicas and its inBox)      *)
(*   stash[i]   msgsForFutureReplicas                                       *)
(*   voted      an INSTANCE_CHANGE for the next view was sent               *)
(*   monitor    see Monitor                                                 *)
(* History: got[i], messages that came for instance i and were not removed  *)
(* with its replica; unsized, the registry grew without setF.               *)

setF(n) ==
    [n EXCEPT !.f = MaxFailures(Cardinality(DOMAIN n.reg \cup {Me})), !.unsized = FALSE]

addReplica(n) == [n EXCEPT !.replicas = @ + 1, !.monitor = addInstance(@)]

\* The monitor, too, gets an instance more.
removeReplica(n) ==
    [n EXCEPT !.replicas = @ - 1, !.inbox[n.replicas] = 0, !.got[n.replicas] = 0,
              !.monitor = addInstance(@)]

\* Mutant of processStashedMsgsForReplica: a new replica does not get them.
SkipStashed(n, i) == n
processStashedMsgsForReplica(n, i) ==
    [n EXCEPT !.inbox[i] = @ + n.stash[i], !.stash[i] = 0]

\* So many replicas more, or fewer.
grow(n, number) ==
    LET more[k \in 0..number] ==
            IF k = 0 THEN n
            ELSE processStashedMsgsForReplica(addReplica(more[k - 1]), more[k - 1].replicas + 1)
    IN  more[number]
shrink(n, number) ==
    LET fewer[k \in 0..number] == IF k = 0 THEN n ELSE removeReplica(fewer[k - 1])
    IN  fewer[number]

adjustReplicas(n) ==
    LET required == n.f + 1
        done == IF n.replicas <= required THEN grow(n, required - n.replicas)
                ELSE shrink(n, n.replicas - required)
    IN  [done EXCEPT !.stash = [i \in Instances |-> IF i <= done.replicas THEN 0 ELSE @[i]]]

\* adjustReplicas is called twice: the second call has nothing to do, so
\* start_election_for_instance is never reached.
newNodeJoined(n) == adjustReplicas(setF(n))

\* Mutant of nodeLeft: f stays as it was.
KeepSize(n) == adjustReplicas(n)
nodeLeft(n) == adjustReplicas(setF(n))

connectNewRemote(n, name, ha) == [n EXCEPT !.reg = Put(@, name, ha)]
removeRemote(n, name) == [n EXCEPT !.conns = @ \ {name}]

\* Mutant of node_about_to_be_disconnected: no vote.
StayInView(n, name) == n
node_about_to_be_disconnected(n, name) ==
    IF primary = name THEN [n EXCEPT !.voted = TRUE] ELSE n

getNodeName(log, nym) == getNodeInfoFromLedger(log, nym).alias

stackKeysChanged(n, name) == removeRemote(n, name)
stackHaChanged(n, name, ha) == [removeRemote(n, name) EXCEPT !.reg = Put(@, name, ha)]
nodeHaChanged(log, n, t) ==
    LET name == getNodeName(log, t.nym)
    IN  node_about_to_be_disconnected(
            IF name = Me THEN n ELSE stackHaChanged(n, name, t.ha), name)

nodeKeysChanged(log, n, t) ==
    LET name == getNodeName(log, t.nym)
    IN  IF name = Me THEN n
        ELSE node_about_to_be_disconnected(stackKeysChanged(n, name), name)

\* Switching the service on adds the node to the registry and does not call
\* setF.
enableService(n, name, ha) == [connectNewRemote(n, name, ha) EXCEPT !.unsized = TRUE]

\* Mutant of disableService: the node stays in the registry.
RemoteOnly(n, name) == node_about_to_be_disconnected(nodeLeft(removeRemote(n, name)), name)
disableService(n, name) ==
    LET gone == [n EXCEPT !.reg = Restrict(@, DOMAIN @ \ {name})]
    IN  node_about_to_be_disconnected(nodeLeft(removeRemote(gone, name)), name)

nodeServicesChanged(log, n, t) ==
    LET info == getNodeInfoFromLedger(log, t.nym)
        ha == IF t.ha = None THEN info.ha ELSE t.ha
        on == info.services = "on"
    IN  IF info.alias = Me \/ on = (t.services = "on") THEN n
        ELSE IF on THEN disableService(n, info.alias)
        ELSE enableService(n, info.alias, ha)

_updateNode(log, n, t) ==
    LET n1 == IF t.ha # None THEN nodeHaChanged(log, n, t) ELSE n
        n2 == IF t.key THEN nodeKeysChanged(log, n1, t) ELSE n1
    IN  IF t.services # None THEN nodeServicesChanged(log, n2, t) ELSE n2

addNewNodeAndConnect(n, t) ==
    IF t.alias = Me THEN n ELSE newNodeJoined(connectNewRemote(n, t.alias, t.ha))

\* log already has the transaction, and all the others of its batch.
onPoolMembershipChange(log, n, t) ==
    IF t.alias \in DOMAIN n.reg
    THEN _updateNode(log, n, t)
    ELSE IF Cardinality(TxnsOf(log, t.nym)) = 1
    THEN IF t.services = "on" THEN addNewNodeAndConnect(n, t) ELSE n
    ELSE LET info == getNodeInfoFromLedger(log, t.nym)
             known == [n EXCEPT !.reg = Put(@, t.alias, info.ha), !.unsized = TRUE]
         IN  _updateNode(log, known, t)

\* The validators in service, with their addresses.
parseLedgerForHaAndKeys(log) ==
    LET txnsOf(name) == {i \in DOMAIN log : log[i].alias = name}
        active == {name \in {log[i].alias : i \in DOMAIN log} :
                      Latest([i \in txnsOf(name) |-> log[i].services]) = "on"}
    IN  [name \in active |-> Latest([i \in txnsOf(name) |-> log[i].ha])]

\* Node.__init__ registers itself whether or not the ledger has it.
getStackParamsAndNodeReg(log) ==
    LET own == {i \in DOMAIN log : log[i].alias = Me}
    IN  Put(parseLedgerForHaAndKeys(log), Me, Latest([i \in own |-> log[i].ha]))

NewNode(log) ==
    adjustReplicas(setF(
        [reg |-> getStackParamsAndNodeReg(log), conns |-> {}, f |-> 0, replicas |-> 0,
         inbox |-> [i \in Instances |-> 0], stash |-> [i \in Instances |-> 0],
         voted |-> FALSE, monitor |-> NewMonitor,
         got |-> [i \in Instances |-> 0], unsized |-> FALSE]))

-----------------------------------------------------------------------------
(* Steps.  Spend(x) takes one of the scene's x.                             *)

Spend(x) == left[x] > 0 /\ left' = [left EXCEPT ![x] = @ - 1]

\* The parts of the state that a kind of step leaves alone.
measuring == <<mode, primary, previous_master_primary, clock>>
ledgers == <<pool, domain, ahead, batches, cache>>

\* The nodes that the log t has and the log s, before it, has not.
Added(t, s) == nodeNyms(t) \ nodeNyms(s)

\* A node's data can no longer be told from its last transaction alone: the
\* batch has two of them, or the node was out of service and stays so.
Apart(log, t, batch) ==
    \/ Cardinality({i \in DOMAIN batch : batch[i].nym = t.nym}) > 1
    \/ Exists(log, t.nym) /\ getNodeData(log, t.nym).services # "on" /\ t.services # "on"

\* A primary proposes the requests, or this node as primary does.
create3PCBatch(p) ==
    LET done == ProcessReqs(p)
        after == IF p.ledger = "pool" THEN done.log ELSE done.nyms
        before == IF p.ledger = "pool" THEN Uncommitted ELSE UncommittedNyms
        valid == SubSeq(after, Len(before) + 1, Len(after))
    IN  /\ mode = "participating" /\ Spend("batches")
        /\ batches' = IF valid = <<>> THEN batches
                      ELSE Append(batches, [ledger |-> p.ledger, txns |-> valid])
        /\ cache' = done.cache
        /\ UNCHANGED <<pool, domain, ahead, node, measuring, past>>

\* A suspicion of the primary's digest, discarded requests or roots is a vote.
reportSuspiciousNode(n) == [n EXCEPT !.voted = TRUE]

\* A PRE-PREPARE with a wrong digest or root: its requests were applied and
\* are reverted, and the primary is reported.
revert(p) ==
    /\ mode = "participating" /\ Spend("refused")
    /\ cache' = ProcessReqs(p).cache
    /\ node' = reportSuspiciousNode(node)
    /\ past' = [past EXCEPT !.undone = @ \cup Added(ProcessReqs(p).log, Uncommitted)]
    /\ UNCHANGED <<pool, domain, ahead, batches, measuring>>

\* The node as each transaction of the batch changes it.
applyTxns(log, n, batch) ==
    LET after[k \in 0..Len(batch)] ==
            IF k = 0 THEN n ELSE onPoolMembershipChange(log, after[k - 1], batch[k])
    IN  after[Len(batch)]

\* The whole batch is committed before the first of its transactions is acted on.
executePoolTxnBatch(batch) ==
    LET log == pool \o batch
    IN  /\ pool' = log
        /\ node' = applyTxns(log, node, batch)
        /\ past' = [past EXCEPT !.apart =
                       @ \cup {batch[i].alias : i \in {j \in DOMAIN batch :
                                                       Apart(pool, batch[j], batch)}}]
        /\ UNCHANGED domain

executeDomainTxns(batch) ==
    domain' = domain \o batch /\ UNCHANGED <<pool, node, past>>

executeBatch ==
    /\ mode = "participating" /\ batches # <<>>
    /\ LET batch == Head(batches)
       IN  \/ batch.ledger = "pool" /\ executePoolTxnBatch(batch.txns)
           \/ batch.ledger = "domain" /\ executeDomainTxns(batch.txns)
    /\ batches' = Tail(batches)
    /\ UNCHANGED <<ahead, cache, measuring, left>>

\* A node stops, and what is not on disk is gone; when it starts it reads the
\* pool ledger.
onStopping == batches' = <<>> /\ cache' = {} /\ primary' = None /\ previous_master_primary' = None
start ==
    /\ Spend("restarts")
    /\ onStopping
    /\ mode' = "starting"
    /\ node' = NewNode(pool)
    /\ past' = [past EXCEPT !.apart = {}, !.late = FALSE, !.fresh = {}, !.measured = {}]
    /\ UNCHANGED <<pool, domain, ahead, clock>>

\* The other nodes execute a NYM transaction that this node has yet to catch up.
ExecutedMeanwhile(t) ==
    /\ mode # "participating" /\ Spend("missed")
    /\ validateNym(domain \o ahead, domain \o ahead, t)
    /\ ahead' = Append(ahead, t)
    /\ UNCHANGED <<pool, domain, batches, cache, node, measuring, past>>

\* The catch-up checks a NODE transaction against nothing.  The other nodes
\* committed it, so it is valid after their ledgers: their domain ledger may
\* be ahead of this node's, which is not caught up before the pool ledger is.
\* They are taken to have no stale answer in their caches.
postRecvTxnFromCatchup(t) ==
    /\ mode = "starting" /\ Spend("missed")
    /\ validateNode(pool, domain \o ahead, {}, t)
    /\ pool' = Append(pool, t)
    /\ node' = onPoolMembershipChange(pool', node, t)
    /\ past' = [past EXCEPT !.apart = IF Apart(pool, t, <<t>>) THEN @ \cup {t.alias} ELSE @]
    /\ UNCHANGED <<domain, ahead, batches, cache, measuring>>

postPoolLedgerCaughtUp ==
    /\ mode = "starting" /\ mode' = "discovered"
    /\ UNCHANGED <<ledgers, node, primary, previous_master_primary, clock, past, left>>

\* The next transaction of the domain ledger.
post_txn_from_catchup_added_to_domain_ledger ==
    /\ mode = "discovered" /\ ahead # <<>>
    /\ domain' = Append(domain, Head(ahead)) /\ ahead' = Tail(ahead)
    /\ UNCHANGED <<pool, batches, cache, node, measuring, past, left>>

\* Includes the reset of the monitor by processStashedOrderedReqs.
allLedgersCaughtUp ==
    /\ mode = "discovered" /\ ahead = <<>>
    /\ mode' = "participating"
    /\ node' = [node EXCEPT !.monitor = reset(@)]
    /\ UNCHANGED <<ledgers, primary, previous_master_primary, clock, past, left>>

Connect(name) ==
    /\ name \in DOMAIN node.reg \ ({Me} \cup node.conns)
    /\ node' = [node EXCEPT !.conns = @ \cup {name}]
    /\ UNCHANGED <<ledgers, measuring, past, left>>

sendToReplica(i) ==
    /\ Spend("msgs")
    /\ node' = IF i > node.replicas
               THEN [node EXCEPT !.got[i] = @ + 1, !.stash[i] = @ + 1]
               ELSE [node EXCEPT !.got[i] = @ + 1, !.inbox[i] = @ + 1]
    /\ UNCHANGED <<ledgers, measuring, past>>

\* A node that was the primary in the previous view reverts the batches it sent
\* last and that have too few PREPAREs, whenever its primary changes.
removeObsoletePpReqs(keep, wasPrimary) ==
    /\ keep = Len(batches) \/ wasPrimary
    /\ batches' = SubSeq(batches, 1, keep)
Undone(keep) == past.undone \cup Added(Uncommitted, Applied(pool, batches, "pool")[keep])

\* A view change leaves the master without a primary, whatever the mode.
startViewChange(keep) ==
    /\ Spend("views")
    /\ previous_master_primary' = primary /\ primary' = None
    /\ removeObsoletePpReqs(keep, primary = Me)
    /\ node' = [node EXCEPT !.voted = FALSE, !.monitor = reset(@)]
    /\ past' = [past EXCEPT !.undone = Undone(keep), !.late = FALSE, !.fresh = {}, !.measured = {}]
    /\ UNCHANGED <<pool, domain, ahead, cache, mode, clock>>

\* The election ends: the PRIMARY messages name p, whether or not p is still in
\* the registry.  They are processed in every mode.
processPrimary(p, keep) ==
    /\ primary = None /\ p # previous_master_primary
    /\ primary' = p /\ previous_master_primary' = None
    /\ removeObsoletePpReqs(keep, previous_master_primary = Me)
    /\ past' = [past EXCEPT !.undone = Undone(keep), !.late = p \notin DOMAIN node.reg]
    /\ UNCHANGED <<pool, domain, ahead, cache, node, mode, clock, left>>

forward(r) ==
    /\ mode = "participating" /\ r \notin past.forwarded /\ Spend("reqs")
    /\ node' = [node EXCEPT !.monitor = requestUnOrdered(@, r, clock)]
    /\ past' = [past EXCEPT !.forwarded = @ \cup {r}, !.fresh = @ \cup {r}]
    /\ UNCHANGED <<ledgers, measuring>>

\* Instance i has ordered the requests rs, each of them once.
processOrdered(i, rs) ==
    /\ mode = "participating" /\ i <= node.replicas
    /\ rs # {} /\ rs \subseteq past.forwarded /\ \A r \in rs : <<i, r>> \notin past.ordered
    /\ node' = [node EXCEPT !.monitor = requestOrdered(@, rs, i, clock)]
    /\ past' = [past EXCEPT !.ordered = @ \cup {<<i, r>> : r \in rs},
                            !.measured = IF i = master THEN @ \cup (rs \cap past.fresh) ELSE @]
    /\ UNCHANGED <<ledgers, measuring, left>>

checkPerformance ==
    /\ mode = "participating" /\ ~node.voted /\ isMasterDegraded(node.monitor)
    /\ node' = [node EXCEPT !.voted = TRUE]
    /\ UNCHANGED <<ledgers, measuring, past, left>>

Tick ==
    /\ Spend("ticks") /\ clock' = clock + 1
    /\ UNCHANGED <<ledgers, node, mode, primary, previous_master_primary, past>>

-----------------------------------------------------------------------------
(* Init.  past.apart: see Apart.  past.undone: nodes whose addition was     *)
(* reverted.  past.late: the primary was out of the registry when elected.  *)
(* past.forwarded and past.ordered: client requests forwarded to the        *)
(* replicas, and <<instance, request>> ordered.  past.fresh: forwarded in   *)
(* this view; past.measured: of these, ordered by the master in this view.  *)

Init ==
    /\ pool = Genesis /\ domain = GenesisNyms /\ ahead = <<>> /\ batches = <<>> /\ cache = {}
    /\ mode = "participating"
    /\ node = LET n == NewNode(Genesis) IN [n EXCEPT !.conns = DOMAIN n.reg \ {Me}]
    /\ primary \in Primaries \cap DOMAIN node.reg /\ previous_master_primary = None
    /\ clock = 0
    /\ past = [apart |-> {}, undone |-> {}, late |-> FALSE, forwarded |-> {}, ordered |-> {},
               fresh |-> {}, measured |-> {}]
    /\ left \in Scenes

Ledger ==
    \/ \E p \in left.proposals : create3PCBatch(p)
    \/ \E p \in left.proposals : revert(p)
    \/ executeBatch
    \/ \E keep \in 0..Len(batches) : startViewChange(keep)
    \/ \E p \in Primaries, keep \in 0..Len(batches) : processPrimary(p, keep)

Restarted ==
    \/ start
    \/ \E p \in left.proposals : p.ledger = "domain" /\ ExecutedMeanwhile(p.reqs[1])
    \/ \E p \in left.proposals : p.ledger = "pool" /\ postRecvTxnFromCatchup(p.reqs[1])
    \/ postPoolLedgerCaughtUp
    \/ post_txn_from_catchup_added_to_domain_ledger
    \/ allLedgersCaughtUp

Traffic ==
    \/ \E name \in DOMAIN node.reg : Connect(name)
    \/ \E i \in Instances : sendToReplica(i)
    \/ \E r \in Requests : forward(r)
    \/ \E i \in Instances, rs \in SUBSET Requests : processOrdered(i, rs)
    \/ checkPerformance
    \/ Tick

Next == Ledger \/ Restarted \/ Traffic

Spec == Init /\ [][Next]_vars

-----------------------------------------------------------------------------
(* Properties                                                               *)

\* No steward has two nodes, not even in batches that are only applied:
\* authErrorWhileAddingNode looks at the uncommitted state, and batches are
\* committed, reverted and caught up in any order meanwhile.
OneNodePerSteward ==
    \A m, n \in nodeNyms(Uncommitted) :
        m # n => getNodeData(Uncommitted, m).by # getNodeData(Uncommitted, n).by

\* The author of every NODE transaction was made a steward by the domain ledger,
\* although the two ledgers are reverted apart; only a node that is catching up
\* may hold the transaction without the one that made its author a steward.  And
\* an update comes from the steward that added the node, across reverts of other
\* nodes: isStewardOfNode answers from a cache that a revert does not clear, so a
\* node that is added again by another steward is left out (see past.undone).
Authorised ==
    \A i \in DOMAIN Uncommitted :
        LET t == Uncommitted[i]
        IN  /\ mode = "participating" =>
                  \E j \in DOMAIN UncommittedNyms :
                      UncommittedNyms[j].nym = t.by /\ UncommittedNyms[j].role = "steward"
            /\ t.nym \notin past.undone => getNodeData(Uncommitted, t.nym).by = t.by

\* The registry that a running node updates with every transaction is the one
\* it would read from its ledger if it restarted now, except for nodes that are
\* changed twice in a batch or while out of service (see Apart).
RegistryMatches ==
    LET parsed == getStackParamsAndNodeReg(pool)
    IN  \A name \in (DOMAIN parsed \cup DOMAIN node.reg) \ past.apart :
            /\ name \in DOMAIN parsed /\ name \in DOMAIN node.reg
            /\ parsed[name] = node.reg[name]

\* f and the number of replicas follow the registry, whatever joins, leaves and
\* comes back, except that a validator that is switched on again waits for the
\* next setF.
PoolSizeKnown ==
    /\ ~node.unsized => node.f = MaxFailures(Cardinality(DOMAIN node.reg))
    /\ node.replicas = node.f + 1

\* A master primary that stops being a validator has this node's vote against
\* it, whichever transaction, alone or in a batch, in this view or caught up, took
\* it out of the registry; unless that happened before this node knew it as the
\* primary, since then node_about_to_be_disconnected asks for no view change.
PrimaryLossNoticed ==
    primary \notin {None} \cup DOMAIN node.reg => node.voted \/ past.late

\* A message that came for an instance is with the replica of that instance, or
\* waits until there is such a replica, however often the pool grows and
\* shrinks in between.
NoneOverlooked ==
    \A i \in Instances :
        /\ node.got[i] = node.inbox[i] + node.stash[i]
        /\ node.stash[i] > 0 => i > node.replicas

\* The master is not judged by what its predecessor did: a node that finds the
\* master degraded has measured a request that was forwarded in this view and
\* that the master ordered in this view.
NewMasterUnblamed == isMasterDegraded(node.monitor) => past.measured # {}
=============================================================================
