----------------------------- MODULE ThreePhase -----------------------------
(***************************************************************************)
(* The three phase commit of one protocol instance in one view             *)
(* (plenum/server/replica.py): the primary batches requests into           *)
(* PRE-PREPAREs, backups vote with PREPAREs, everybody votes with COMMITs, *)
(* and a batch with enough COMMITs is handed to the node as Ordered.       *)
(*                                                                         *)
(* The module covers the batches below the first checkpoint: no sequence   *)
(* number is stable and none is above the high watermark.  A request is an *)
(* atom and a batch is the set of its requests together with whether the   *)
(* backups find it valid; the digest and the two root hashes of a          *)
(* PRE-PREPARE stand or fall together with that record.                    *)
(*                                                                         *)
(* The primary proposes one batch per sequence number.  The replicas in    *)
(* Faulty are backups that are down, or send any of FaultyVotes to anybody *)
(* at any time, but not a second COMMIT while the first one is stashed.  A *)
(* COMMIT carries no digest and canOrder looks at COMMITs alone, so what   *)
(* is shown here says nothing of a primary that proposes two batches under *)
(* one number.                                                             *)
(***************************************************************************)
EXTENDS Integers, Sequences, FiniteSets

CONSTANTS Replicas,     \* the replicas of the instance, one per node
          Primary,      \* the one the election chose for this view
          Faulty,       \* backups that are down or do not follow the protocol
          FaultyVotes,  \* the PREPAREs and COMMITs these may send
          Slow,         \* replicas that have not finalised any request yet
          Requests,     \* client requests
          BatchSize,    \* Max3PCBatchSize
          MaxSeq,       \* bound: batches proposed (below CHK_FREQ)
          WrongBatches, \* sequence numbers whose batch fails validation
          MaxLost,      \* bound: messages lost when a connection drops
          MaxCatchups   \* bound: times a node falls out of sync

ASSUME ReplicasAssumption ==
    /\ IsFiniteSet(Replicas)
    /\ Primary \in Replicas
    /\ Faulty \subseteq Replicas \ {Primary}
    /\ Slow \subseteq Replicas

ASSUME BoundsAssumption ==
    /\ BatchSize \in Nat \ {0}
    /\ MaxSeq \in Nat
    /\ WrongBatches \subseteq 1..MaxSeq
    /\ MaxLost \in Nat
    /\ MaxCatchups \in Nat

\* getMaxFailures: the number of faults a pool of this size tolerates.
f == (Cardinality(Replicas) - 1) \div 3

ASSUME FaultAssumption == Cardinality(Faulty) <= f

Correct == Replicas \ Faulty
SeqNos == 1..MaxSeq

\* The content of a PRE-PREPARE; NoBatch marks a key that holds none.
NoBatch == [reqs |-> {}, ok |-> FALSE]
Batches == [reqs : (SUBSET Requests) \ {{}}, ok : BOOLEAN]

(* Messages.  `stamp' orders the messages of one sender: connections are   *)
(* FIFO.                                                                   *)
PrePrepareMsg == [type : {"PREPREPARE"}, from : Replicas, seq : SeqNos,
                  batch : Batches, stamp : Nat]
PrepareMsg == [type : {"PREPARE"}, from : Replicas, seq : SeqNos,
               batch : Batches, stamp : Nat]
CommitMsg == [type : {"COMMIT"}, from : Replicas, seq : SeqNos, stamp : Nat]
Message == PrePrepareMsg \cup PrepareMsg \cup CommitMsg

ASSUME FaultyVotesAssumption ==
    FaultyVotes \subseteq {m \in PrepareMsg \cup CommitMsg : m.from \in Faulty}

VARIABLES
    finalised,        \* finalised[r]: requests finalised at r's node
    inboxKeys,        \* inboxKeys[r]: ReqKeys the node has put in r's inBox
    requestQueue,     \* requestQueue[r]: requestQueues of r
    prePrepares,      \* prePrepares[r][n]: sentPrePrepares and prePrepares
    pendingFinReqs,   \* pendingFinReqs[r]: prePreparesPendingFinReqs
    pendingPrevPP,    \* pendingPrevPP[r]: prePreparesPendingPrevPP
    prepares,         \* prepares[r][n]: voters in prepares
    preparesWaiting,  \* preparesWaiting[r][n]: preparesWaitingForPrePrepare
    commits,          \* commits[r][n]: voters in commits
    commitsWaiting,   \* commitsWaiting[r][n]: commitsWaitingForPrepare
    ordered,          \* ordered[r]: the OrderedSet `ordered'
    orderedSent,      \* orderedSent[r]: the Ordered messages given to the node
    outOfOrder,       \* outOfOrder[r]: stashed_out_of_order_commits
    participating,    \* participating[r]: the node's mode is `participating'
    stashedSyncing,   \* stashedSyncing[r]: stashingWhileCatchingUp
    suspected,        \* suspected[r]: batches r asked a view change for
    halted,           \* halted[r]: a SuspiciousNode escaped from serviceQueues
    clock,            \* clock[r]: stamp of the next message of r
    network,          \* network[r]: messages on their way to r
    lost, catchups    \* what the bounds have been spent on

requestVars == <<finalised, inboxKeys, requestQueue>>
pendingVars == <<pendingFinReqs, pendingPrevPP>>
voteVars == <<prepares, preparesWaiting, commits, commitsWaiting>>
orderVars == <<ordered, orderedSent, outOfOrder>>
modeVars == <<participating, stashedSyncing, suspected, halted>>
netVars == <<clock, network>>
boundVars == <<lost, catchups>>
vars == <<requestVars, prePrepares, pendingVars, voteVars, orderVars,
          modeVars, netVars, boundVars>>

-----------------------------------------------------------------------------
(* State of one replica *)

Elements(s) == {s[i] : i \in DOMAIN s}
HasPrePrepare(r, n) == prePrepares[r][n] # NoBatch
IsOrdered(r, n) == n \in Elements(ordered[r])

\* Keys found in any of the dictionaries all_prev_ordered looks at.
KnownKeys(r) == {n \in SeqNos : \/ HasPrePrepare(r, n)
                                \/ prepares[r][n] # {}
                                \/ commits[r][n] # {}}

\* lastOrderedPPSeqNo.
LastOrdered(r) ==
    CHOOSE n \in 0..MaxSeq :
        /\ n \in Elements(ordered[r]) \cup {0}
        /\ \A m \in Elements(ordered[r]) : m <= n

\* lastPrePrepare and lastPrePrepareSeqNo: the highest batch held.
LastPrePrepare(r) ==
    CHOOSE n \in 0..MaxSeq :
        /\ n = 0 \/ HasPrePrepare(r, n)
        /\ \A m \in SeqNos : HasPrePrepare(r, m) => m <= n

LastSeqNo(r) == IF LastPrePrepare(r) > LastOrdered(r) THEN LastPrePrepare(r)
                                                       ELSE LastOrdered(r)

isNextPrePrepare(r, n) == n = LastSeqNo(r) + 1

\* Mutant: a syncing replica votes.
VotesWhileSyncing(r, n) == n \notin stashedSyncing[r]
shouldParticipate(r, n) == participating[r] /\ n \notin stashedSyncing[r]

\* Mutants: quorums that are one vote off.
OneMorePrepare(votes) == Cardinality(votes) >= 2 * f + 1
OneCommitLess(votes) == Cardinality(votes) >= 2 * f
hasPrepareQuorum(votes) == votes # {} /\ Cardinality(votes) >= 2 * f
hasCommitQuorum(votes) == Cardinality(votes) >= 2 * f + 1

\* Mutant: the order of batches is not checked.
AnyOrder(r, n) == TRUE
all_prev_ordered(r, n) ==
    \/ ordered[r] # <<>> /\ ordered[r][Len(ordered[r])] = n - 1
    \/ \A p \in KnownKeys(r) : p < n => IsOrdered(r, p)

\* Mutant: any PREPARE is enough to commit.
EagerCommit(r, n, prepareVotes) ==
    /\ shouldParticipate(r, n)
    /\ prepareVotes # {}
    /\ r \notin commits[r][n]
canCommit(r, n, prepareVotes) ==
    /\ shouldParticipate(r, n)
    /\ hasPrepareQuorum(prepareVotes)
    /\ r \notin commits[r][n]

-----------------------------------------------------------------------------
(* Sending and receiving *)

\* outBox to every other replica, on top of the network `net'.  What becomes of
\* a message at a faulty backup does not matter.
Broadcast(r, net, ms) ==
    [q \in Replicas |-> IF q \in Faulty \cup {r} THEN net[q] ELSE net[q] \cup ms]

\* What r may process next: the oldest message of some sender, or whatever a
\* faulty backup chooses to send.
Deliverable(r) ==
    {m \in network[r] : \A o \in network[r] : o.from = m.from => m.stamp <= o.stamp}
    \cup
    {m \in FaultyVotes :
        m.type = "COMMIT" => m.from \notin commitsWaiting[r][m.seq]}

Consume(r, m) == [network EXCEPT ![r] = @ \ {m}]

\* The consecutive sequence numbers lo, .., hi.
Run(lo, hi) == [i \in 1..(hi - lo + 1) |-> lo + i - 1]

-----------------------------------------------------------------------------
(* Ordering *)

\* doOrder for lo, .., hi in this order: each becomes the last ordered one, is
\* handed to the node, leaves the catch-up stash and its requests leave the
\* queue.
doOrder(r, lo, hi, pps) ==
    /\ ordered' = [ordered EXCEPT ![r] = @ \o Run(lo, hi)]
    /\ orderedSent' = [orderedSent EXCEPT ![r] = @ \o Run(lo, hi)]
    /\ requestQueue' =
          [requestQueue EXCEPT ![r] = @ \ UNION {pps[n].reqs : n \in lo..hi}]

\* Mutant: hasOrdered is not asked.
OrderAgain(r, n, votes) ==
    IF hasCommitQuorum(votes) /\ all_prev_ordered(r, n)
    THEN /\ doOrder(r, n, n, prePrepares[r])
         /\ UNCHANGED <<outOfOrder, stashedSyncing>>
    ELSE UNCHANGED <<ordered, orderedSent, requestQueue, outOfOrder, stashedSyncing>>

\* tryOrder for one batch whose COMMIT votes became `votes'.
tryOrder(r, n, votes) ==
    LET quorum == hasCommitQuorum(votes) /\ ~IsOrdered(r, n)
    IN  IF quorum /\ all_prev_ordered(r, n)
        THEN /\ doOrder(r, n, n, prePrepares[r])
             /\ stashedSyncing' = [stashedSyncing EXCEPT ![r] = @ \ {n}]
             /\ UNCHANGED outOfOrder
        ELSE /\ outOfOrder' =
                  [outOfOrder EXCEPT ![r] = IF quorum THEN @ \cup {n} ELSE @]
             /\ UNCHANGED <<ordered, orderedSent, requestQueue, stashedSyncing>>


-----------------------------------------------------------------------------
(* PRE-PREPAREs *)

\* dequeuePrepares: the voters once the PREPAREs stashed for batch b are counted.
dequeuePrepares(r, n, b) ==
    prepares[r][n] \cup
        {p.from : p \in {q \in preparesWaiting[r][n] : q.batch = b}}

canPrepare(r, n, b) ==
    shouldParticipate(r, n) /\ r \notin dequeuePrepares(r, n, b)

\* tryPrepare: the replica's own PREPARE comes after the stashed ones.
tryPrepare(r, n, b) ==
    dequeuePrepares(r, n, b) \cup IF canPrepare(r, n, b) THEN {r} ELSE {}

\* dequeueCommits, run between the two: the stashed COMMITs are dropped when no
\* PREPARE is recorded yet.
dequeueCommits(r, n, b) ==
    commits[r][n] \cup
        IF dequeuePrepares(r, n, b) # {} THEN commitsWaiting[r][n] ELSE {}

tryCommit(r, n, b) ==
    dequeueCommits(r, n, b) \cup
        IF canCommit(r, n, tryPrepare(r, n, b)) THEN {r} ELSE {}

\* The votes the replica sends, from stamp t on.  A COMMIT that the stashed
\* PREPAREs alone justify leaves before the replica's own PREPARE.
SentVotes(r, n, b, t) ==
    LET early == canCommit(r, n, dequeuePrepares(r, n, b))
    IN  {m \in {[type |-> "PREPARE", from |-> r, seq |-> n, batch |-> b,
                 stamp |-> IF early THEN t + 1 ELSE t]} : canPrepare(r, n, b)}
        \cup
        {m \in {[type |-> "COMMIT", from |-> r, seq |-> n,
                 stamp |-> IF early THEN t ELSE t + 1]} :
            canCommit(r, n, tryPrepare(r, n, b))}

orderable(r, n, b) ==
    hasCommitQuorum(tryCommit(r, n, b)) /\ ~IsOrdered(r, n)

\* addToPrePrepares and the rest of processPrePrepare for the batches lo, ..,
\* top with contents pp, one after the other.
addToPrePrepares(r, lo, top, pp, net) ==
    LET K == lo..top
        newly == {n \in K : /\ all_prev_ordered(r, lo)
                            /\ \A k \in K : k <= n => orderable(r, k, pp[k])}
    IN  /\ prePrepares' = [prePrepares EXCEPT ![r] =
              [n \in SeqNos |-> IF n \in K THEN pp[n] ELSE prePrepares[r][n]]]
        /\ prepares' = [prepares EXCEPT ![r] =
              [n \in SeqNos |-> IF n \in K THEN tryPrepare(r, n, pp[n])
                                           ELSE prepares[r][n]]]
        /\ commits' = [commits EXCEPT ![r] =
              [n \in SeqNos |-> IF n \in K THEN tryCommit(r, n, pp[n])
                                           ELSE commits[r][n]]]
        /\ preparesWaiting' = [preparesWaiting EXCEPT ![r] =
              [n \in SeqNos |-> IF n \in K THEN {} ELSE preparesWaiting[r][n]]]
        /\ commitsWaiting' = [commitsWaiting EXCEPT ![r] =
              [n \in SeqNos |-> IF n \in K THEN {} ELSE commitsWaiting[r][n]]]
        /\ \E hi \in (lo - 1)..top : newly = lo..hi /\ doOrder(r, lo, hi, pp)
        /\ outOfOrder' = [outOfOrder EXCEPT ![r] =
              @ \cup ({n \in K : orderable(r, n, pp[n])} \ newly)]
        /\ stashedSyncing' = [stashedSyncing EXCEPT ![r] =
              IF participating[r] THEN @ ELSE @ \cup K]
        /\ clock' = [clock EXCEPT ![r] = @ + 2 * (top - lo + 1)]
        /\ network' = Broadcast(r, net, UNION
              {SentVotes(r, n, pp[n], clock[r] + 2 * (n - lo)) : n \in K})

-----------------------------------------------------------------------------
(* Actions *)

\* The node finalises a request (enough PROPAGATEs) and forwards its key to the
\* inBox of its replica.
FinaliseRequest(r, q) ==
    /\ q \notin finalised[r]
    /\ finalised' = [finalised EXCEPT ![r] = @ \cup {q}]
    /\ inboxKeys' = [inboxKeys EXCEPT ![r] = @ \cup {q}]
    /\ UNCHANGED <<requestQueue, prePrepares, pendingVars, voteVars, orderVars,
                   modeVars, netVars, boundVars>>

\* readyFor3PC: the replica takes the key out of its inBox into its queue.
readyFor3PC(r, q) ==
    /\ q \in inboxKeys[r]
    /\ inboxKeys' = [inboxKeys EXCEPT ![r] = @ \ {q}]
    /\ requestQueue' = [requestQueue EXCEPT ![r] = @ \cup {q}]
    /\ UNCHANGED <<finalised, prePrepares, pendingVars, voteVars, orderVars,
                   modeVars, netVars, boundVars>>

\* send3PCBatch: the primary moves requests from its queue into the next batch.
send3PCBatch(S) ==
    LET n == LastPrePrepare(Primary) + 1
        batch == [reqs |-> S, ok |-> n \notin WrongBatches]
    IN  /\ participating[Primary]
        /\ n \in SeqNos
        /\ S \subseteq requestQueue[Primary]
        /\ S # {} /\ Cardinality(S) <= BatchSize
        /\ requestQueue' = [requestQueue EXCEPT ![Primary] = @ \ S]
        /\ prePrepares' = [prePrepares EXCEPT ![Primary][n] = batch]
        /\ network' = Broadcast(Primary, network,
              {[type |-> "PREPREPARE", from |-> Primary, seq |-> n,
                batch |-> batch, stamp |-> clock[Primary]]})
        /\ clock' = [clock EXCEPT ![Primary] = @ + 1]
        /\ UNCHANGED <<finalised, inboxKeys, pendingVars, voteVars, orderVars,
                       modeVars, boundVars>>

\* processPrePrepare of a PRE-PREPARE that canProcessPrePrepare does not take
\* at once: a request is not finalised, or an earlier batch is missing.
enqueuePrePrepare(r, m) ==
    /\ participating[r]
    /\ IF m.batch.reqs \subseteq finalised[r]
       THEN /\ ~isNextPrePrepare(r, m.seq)
            /\ pendingPrevPP' = [pendingPrevPP EXCEPT ![r] = @ \cup {m}]
            /\ UNCHANGED pendingFinReqs
       ELSE /\ pendingFinReqs' = [pendingFinReqs EXCEPT ![r] = @ \cup {m}]
            /\ UNCHANGED pendingPrevPP
    /\ network' = Consume(r, m)
    /\ UNCHANGED <<requestVars, prePrepares, voteVars, orderVars, modeVars,
                   clock, boundVars>>

\* validatePrePrepare raises a PPR_* suspicion: the batch is not kept and the
\* node votes for a view change.
rejectPrePrepare(r, m) ==
    /\ participating[r]
    /\ m.batch.reqs \subseteq finalised[r]
    /\ isNextPrePrepare(r, m.seq)
    /\ ~m.batch.ok
    /\ suspected' = [suspected EXCEPT ![r] = @ \cup {m.seq}]
    /\ network' = Consume(r, m)
    /\ UNCHANGED <<requestVars, prePrepares, pendingVars, voteVars, orderVars,
                   participating, stashedSyncing, halted, clock, boundVars>>

\* processPrePrepare of a PRE-PREPARE that is taken: valid and next, or the
\* node is syncing and takes it unseen.
acceptPrePrepare(r, m) ==
    /\ \/ ~participating[r]
       \/ /\ m.batch.reqs \subseteq finalised[r]
          /\ isNextPrePrepare(r, m.seq)
          /\ m.batch.ok
    /\ addToPrePrepares(r, m.seq, m.seq, [n \in {m.seq} |-> m.batch], Consume(r, m))
    /\ UNCHANGED <<finalised, inboxKeys, pendingVars, participating, suspected,
                   halted, boundVars>>

processPrePrepare(r, m) ==
    /\ m.type = "PREPREPARE"
    /\ \/ enqueuePrePrepare(r, m)
       \/ rejectPrePrepare(r, m)
       \/ acceptPrePrepare(r, m)

\* dequeuePrePrepares, run before the inBox is looked at: batches whose requests
\* became finalised join those that wait for earlier batches; then, as long as
\* the lowest of these is the next one, it is taken.  An invalid one raises a
\* SuspiciousNode that nothing below the node's event loop catches.
dequeuePrePrepares(r) ==
    LET ready == {m \in pendingFinReqs[r] : m.batch.reqs \subseteq finalised[r]}
        waiting == pendingPrevPP[r] \cup ready
        next == LastSeqNo(r) + 1
        at(n) == CHOOSE m \in waiting : m.seq = n
        has(n) == \E m \in waiting : m.seq = n
        head == \A m \in waiting : m.seq >= next
        reached == IF head
                   THEN {n \in SeqNos : n >= next /\ \A p \in next..n : has(p)}
                   ELSE {}
        K == {n \in reached : \A p \in next..n : at(p).batch.ok}
    IN  /\ participating[r]
        /\ ready # {} \/ reached # {}
        /\ pendingFinReqs' = [pendingFinReqs EXCEPT ![r] = @ \ ready]
        /\ pendingPrevPP' = [pendingPrevPP EXCEPT ![r] =
              {m \in waiting : \/ m.seq \notin reached
                               \/ \E p \in reached \ K : p < m.seq}]
        /\ halted' = [halted EXCEPT ![r] = reached # K]
        /\ IF K = {}
           THEN UNCHANGED <<requestQueue, prePrepares, voteVars, orderVars,
                            stashedSyncing, netVars>>
           ELSE \E top \in K : /\ K = next..top
                               /\ addToPrePrepares(r, next, top,
                                      [n \in K |-> at(n).batch], network)
        /\ UNCHANGED <<finalised, inboxKeys, participating, suspected, boundVars>>

\* processPrepare of a PREPARE that validatePrepare refuses: sent twice, not
\* the digest of the batch, or (at the primary) for a batch never proposed.
discardPrepare(r, m) ==
    /\ \/ m.from \in prepares[r][m.seq]
       \/ HasPrePrepare(r, m.seq) /\ m.batch # prePrepares[r][m.seq]
       \/ ~HasPrePrepare(r, m.seq) /\ r = Primary
    /\ network' = Consume(r, m)
    /\ UNCHANGED <<requestVars, prePrepares, pendingVars, voteVars, orderVars,
                   modeVars, clock, boundVars>>

\* enqueuePrepare: no PRE-PREPARE yet.
enqueuePrepare(r, m) ==
    /\ ~HasPrePrepare(r, m.seq) /\ r # Primary
    /\ preparesWaiting' = [preparesWaiting EXCEPT ![r][m.seq] =
          @ \cup {[from |-> m.from, batch |-> m.batch]}]
    /\ network' = Consume(r, m)
    /\ UNCHANGED <<requestVars, prePrepares, pendingVars, prepares, commits,
                   commitsWaiting, orderVars, modeVars, clock, boundVars>>

\* addToPrepares and tryCommit: the vote is counted; with a quorum the replica
\* sends its COMMIT, counts it, and tries to order.
addToPrepares(r, m) ==
    LET n == m.seq
        votes == prepares[r][n] \cup {m.from}
        commit == [type |-> "COMMIT", from |-> r, seq |-> n, stamp |-> clock[r]]
    IN  /\ HasPrePrepare(r, n) /\ m.batch = prePrepares[r][n]
        /\ m.from \notin prepares[r][n]
        /\ prepares' = [prepares EXCEPT ![r][n] = votes]
        /\ IF canCommit(r, n, votes)
           THEN /\ commits' = [commits EXCEPT ![r][n] = @ \cup {r}]
                /\ network' = Broadcast(r, Consume(r, m), {commit})
                /\ clock' = [clock EXCEPT ![r] = @ + 1]
                /\ tryOrder(r, n, commits[r][n] \cup {r})
           ELSE /\ network' = Consume(r, m)
                /\ UNCHANGED <<commits, clock, requestQueue, orderVars, stashedSyncing>>
        /\ UNCHANGED <<finalised, inboxKeys, prePrepares, pendingVars,
                       preparesWaiting, commitsWaiting, participating, suspected,
                       halted, boundVars>>

processPrepare(r, m) ==
    /\ m.type = "PREPARE"
    /\ \/ discardPrepare(r, m)
       \/ enqueuePrepare(r, m)
       \/ addToPrepares(r, m)

\* Mutant: the stash keeps the number of the COMMIT instead of its sender.
StashSeqNo(r, m) ==
    /\ ~HasPrePrepare(r, m.seq)
    /\ commitsWaiting' = [commitsWaiting EXCEPT ![r][m.seq] = @ \cup {m.seq}]
    /\ network' = Consume(r, m)
    /\ UNCHANGED <<requestVars, prePrepares, pendingVars, prepares, preparesWaiting,
                   commits, orderVars, modeVars, clock, boundVars>>

\* enqueueCommit: no PRE-PREPARE yet.
enqueueCommit(r, m) ==
    /\ ~HasPrePrepare(r, m.seq)
    /\ commitsWaiting' = [commitsWaiting EXCEPT ![r][m.seq] = @ \cup {m.from}]
    /\ network' = Consume(r, m)
    /\ UNCHANGED <<requestVars, prePrepares, pendingVars, prepares, preparesWaiting,
                   commits, orderVars, modeVars, clock, boundVars>>

\* validateCommit refuses: no PREPARE recorded for the batch, or sent twice.
discardCommit(r, m) ==
    /\ HasPrePrepare(r, m.seq)
    /\ \/ prepares[r][m.seq] = {} /\ preparesWaiting[r][m.seq] = {}
       \/ m.from \in commits[r][m.seq]
    /\ network' = Consume(r, m)
    /\ UNCHANGED <<requestVars, prePrepares, pendingVars, voteVars, orderVars,
                   modeVars, clock, boundVars>>

addToCommits(r, m) ==
    LET n == m.seq
        votes == commits[r][n] \cup {m.from}
    IN  /\ HasPrePrepare(r, n)
        /\ prepares[r][n] # {} \/ preparesWaiting[r][n] # {}
        /\ m.from \notin commits[r][n]
        /\ commits' = [commits EXCEPT ![r][n] = votes]
        /\ tryOrder(r, n, votes)
        /\ network' = Consume(r, m)
        /\ UNCHANGED <<finalised, inboxKeys, prePrepares, pendingVars, prepares,
                       preparesWaiting, commitsWaiting, participating, suspected,
                       halted, clock, boundVars>>

processCommit(r, m) ==
    /\ m.type = "COMMIT"
    /\ \/ enqueueCommit(r, m)
       \/ discardCommit(r, m)
       \/ addToCommits(r, m)

\* process_stashed_out_of_order_commits, every second while something is
\* stashed: goes through the stash once, in the order of a dictionary, and
\* orders a batch it meets right after the last ordered one.
process_stashed_out_of_order_commits(r, hi) ==
    LET last == ordered[r][Len(ordered[r])]
        stash == {n \in outOfOrder[r] : ~IsOrdered(r, n)}
    IN  /\ ordered[r] # <<>>
        /\ hi >= last /\ (last + 1)..hi \subseteq stash
        /\ last + 1 \in stash => hi > last
        /\ hi > last \/ stash # outOfOrder[r]
        /\ doOrder(r, last + 1, hi, prePrepares[r])
        /\ outOfOrder' = [outOfOrder EXCEPT ![r] = stash \ ((last + 1)..hi)]
        /\ stashedSyncing' = [stashedSyncing EXCEPT ![r] = @ \ ((last + 1)..hi)]
        /\ UNCHANGED <<finalised, inboxKeys, prePrepares, pendingVars, voteVars,
                       participating, suspected, halted, netVars, boundVars>>

\* preDomainLedgerCatchUp: the node finds its ledger behind the others'.
preLedgerCatchUp(r) ==
    /\ catchups < MaxCatchups
    /\ participating[r]
    /\ participating' = [participating EXCEPT ![r] = FALSE]
    /\ catchups' = catchups + 1
    /\ UNCHANGED <<requestVars, prePrepares, pendingVars, voteVars, orderVars,
                   stashedSyncing, suspected, halted, netVars, lost>>

\* allLedgersCaughtUp: the ledger holds the batches up to k, which another
\* correct node had executed; k = 0 stands for "none of this view".
allLedgersCaughtUp(r, k) ==
    /\ ~participating[r]
    /\ k = 0 \/ \E q \in Correct \ {r} : k \in Elements(ordered[q])
    /\ ordered' = [ordered EXCEPT ![r] =
          IF k = 0 \/ IsOrdered(r, k) THEN @ ELSE Append(@, k)]
    /\ participating' = [participating EXCEPT ![r] = TRUE]
    /\ UNCHANGED <<requestVars, prePrepares, pendingVars, voteVars, orderedSent,
                   outOfOrder, stashedSyncing, suspected, halted, netVars, boundVars>>

\* A dropped connection takes a message with it.
Lose(r, m) ==
    /\ lost < MaxLost
    /\ lost' = lost + 1
    /\ network' = Consume(r, m)
    /\ UNCHANGED <<requestVars, prePrepares, pendingVars, voteVars, orderVars,
                   modeVars, clock, catchups>>

-----------------------------------------------------------------------------

Init ==
    /\ finalised = [r \in Replicas |-> IF r \in Slow THEN {} ELSE Requests]
    /\ inboxKeys = [r \in Replicas |-> {}]
    /\ requestQueue = finalised
    /\ prePrepares = [r \in Replicas |-> [n \in SeqNos |-> NoBatch]]
    /\ pendingFinReqs = [r \in Replicas |-> {}]
    /\ pendingPrevPP = [r \in Replicas |-> {}]
    /\ prepares = [r \in Replicas |-> [n \in SeqNos |-> {}]]
    /\ preparesWaiting = [r \in Replicas |-> [n \in SeqNos |-> {}]]
    /\ commits = [r \in Replicas |-> [n \in SeqNos |-> {}]]
    /\ commitsWaiting = [r \in Replicas |-> [n \in SeqNos |-> {}]]
    /\ ordered = [r \in Replicas |-> <<>>]
    /\ orderedSent = [r \in Replicas |-> <<>>]
    /\ outOfOrder = [r \in Replicas |-> {}]
    /\ participating = [r \in Replicas |-> TRUE]
    /\ stashedSyncing = [r \in Replicas |-> {}]
    /\ suspected = [r \in Replicas |-> {}]
    /\ halted = [r \in Replicas |-> FALSE]
    /\ clock = [r \in Replicas |-> 0]
    /\ network = [r \in Replicas |-> {}]
    /\ lost = 0
    /\ catchups = 0

\* serviceQueues looks at the pending PRE-PREPAREs before the inBox.
Serviced(r) ==
    participating[r] =>
        ~\E m \in pendingFinReqs[r] : m.batch.reqs \subseteq finalised[r]

\* The inBox of a replica: a message of s, or a request key from the node.
ReceiveFrom(r, s) ==
    /\ ~halted[r] /\ Serviced(r)
    /\ \E m \in Deliverable(r) :
          /\ m.from = s
          /\ \/ processPrePrepare(r, m)
             \/ processPrepare(r, m)
             \/ processCommit(r, m)

ReceiveKey(r) == ~halted[r] /\ Serviced(r) /\ \E q \in Requests : readyFor3PC(r, q)

Finalise(r) == ~halted[r] /\ \E q \in Requests : FinaliseRequest(r, q)

Reorder(r) ==
    ~halted[r] /\ \E hi \in 0..MaxSeq : process_stashed_out_of_order_commits(r, hi)

CaughtUp(r) == ~halted[r] /\ \E k \in 0..MaxSeq : allLedgersCaughtUp(r, k)

Dequeue(r) == ~halted[r] /\ dequeuePrePrepares(r)

StartCatchUp(r) == ~halted[r] /\ preLedgerCatchUp(r)

Drop(r) == \E m \in network[r] : Lose(r, m)

ReplicaStep(r) ==
    \/ \E s \in Replicas : ReceiveFrom(r, s)
    \/ ReceiveKey(r)
    \/ Finalise(r)
    \/ Dequeue(r)
    \/ Reorder(r)
    \/ StartCatchUp(r)
    \/ CaughtUp(r)
    \/ Drop(r)

Propose == ~halted[Primary] /\ \E S \in SUBSET Requests : send3PCBatch(S)

Next ==
    \/ Propose
    \/ \E r \in Correct : ReplicaStep(r)

Spec == Init /\ [][Next]_vars

\* The event loop of every correct node keeps running and reads every peer.
Fairness ==
    /\ WF_vars(Propose)
    /\ \A r \in Correct :
          /\ \A s \in Correct : WF_vars(ReceiveFrom(r, s))
          /\ WF_vars(ReceiveKey(r))
          /\ WF_vars(Finalise(r))
          /\ WF_vars(Dequeue(r))
          /\ WF_vars(Reorder(r))

FairSpec == Spec /\ Fairness

-----------------------------------------------------------------------------
(* Properties *)

\* Every dictionary of a replica holds what its comment in replica.py says.
TypeOK ==
    /\ finalised \in [Replicas -> SUBSET Requests]
    /\ inboxKeys \in [Replicas -> SUBSET Requests]
    /\ requestQueue \in [Replicas -> SUBSET Requests]
    /\ prePrepares \in [Replicas -> [SeqNos -> Batches \cup {NoBatch}]]
    /\ pendingFinReqs \in [Replicas -> SUBSET PrePrepareMsg]
    /\ pendingPrevPP \in [Replicas -> SUBSET PrePrepareMsg]
    /\ prepares \in [Replicas -> [SeqNos -> SUBSET Replicas]]
    /\ preparesWaiting \in
          [Replicas -> [SeqNos -> SUBSET [from : Replicas, batch : Batches]]]
    /\ commits \in [Replicas -> [SeqNos -> SUBSET Replicas]]
    /\ commitsWaiting \in [Replicas -> [SeqNos -> SUBSET Replicas]]
    /\ ordered \in [Replicas -> Seq(SeqNos)]
    /\ orderedSent \in [Replicas -> Seq(SeqNos)]
    /\ outOfOrder \in [Replicas -> SUBSET SeqNos]
    /\ participating \in [Replicas -> BOOLEAN]
    /\ stashedSyncing \in [Replicas -> SUBSET SeqNos]
    /\ suspected \in [Replicas -> SUBSET SeqNos]
    /\ halted \in [Replicas -> BOOLEAN]
    /\ clock \in [Replicas -> Nat]
    /\ network \in [Replicas -> SUBSET Message]
    /\ lost \in Nat
    /\ catchups \in Nat

\* A batch that doOrder hands to the node is backed by at least f+1 correct
\* replicas that each recorded 2f PREPAREs for it, although canOrder itself
\* counts COMMITs only and a catching-up replica orders without voting.
OrderedHasCertificate ==
    \A r \in Correct : \A n \in Elements(orderedSent[r]) :
        Cardinality({q \in Correct : Cardinality(prepares[q][n]) >= 2 * f}) >= f + 1

\* A COMMIT of a correct replica, counted or stashed, was sent by that replica.
CommitsCounted ==
    \A r, s \in Correct : \A n \in SeqNos :
        s \in commits[r][n] \cup commitsWaiting[r][n] => s \in commits[s][n]

CommitsInTransit ==
    \A r \in Correct : \A m \in network[r] :
        m.type = "COMMIT" => m.from \in commits[m.from][m.seq]

\* A correct replica commits to prepared batches only.
CommitsPrepared ==
    \A r \in Correct : \A n \in SeqNos :
        r \in commits[r][n] => Cardinality(prepares[r][n]) >= 2 * f

\* What is ordered, or stashed as out of order, has its COMMITs.
OrderedCommitted ==
    \A r \in Correct : \A n \in Elements(orderedSent[r]) \cup outOfOrder[r] :
        Cardinality(commits[r][n]) >= 2 * f + 1

\* The inductive invariant behind OrderedHasCertificate: votes are counted as
\* they were sent, by doCommit after canCommit, and quorums are never undone,
\* although process_stashed_out_of_order_commits orders without looking at the
\* COMMITs again and dequeueCommits counts them late.
CertificateInv ==
    CommitsCounted /\ CommitsInTransit /\ CommitsPrepared /\ OrderedCommitted

\* validatePrePrepare is skipped while syncing, yet no correct replica hands a
\* batch to the node that the validating backups refused.
InvalidNeverOrdered ==
    \A r \in Correct : \A n \in Elements(orderedSent[r]) : n \notin WrongBatches

\* doOrder asserts that the batch it orders is known; the batch goes to the
\* node once.
OrderedOnceAndKnown ==
    \A r \in Correct :
        /\ \A n \in Elements(orderedSent[r]) : HasPrePrepare(r, n)
        /\ \A i, j \in DOMAIN orderedSent[r] :
              orderedSent[r][i] = orderedSent[r][j] => i = j

\* With one backup down and the others connected and in sync, a batch the
\* primary proposes is handed to the node by every replica that is up.
EventuallyOrdered ==
    \A n \in SeqNos : HasPrePrepare(Primary, n) ~>
        \A r \in Correct : n \in Elements(orderedSent[r])

\* The batches proposed, and those handed to each node, as TotalOrder sees them.
ProposedLog == [n \in 1..LastPrePrepare(Primary) |-> prePrepares[Primary][n].reqs]
DeliveredLog == [r \in Correct |-> [i \in DOMAIN orderedSent[r] |->
                    prePrepares[r][orderedSent[r][i]].reqs]]

Total == INSTANCE TotalOrder WITH Replicas <- Correct, Values <- SUBSET Requests,
                                  log <- ProposedLog, delivered <- DeliveredLog

\* As long as no node falls out of sync, every replica hands the primary's
\* batches to its node in the primary's order, whatever order the PRE-PREPAREs
\* became valid and the COMMITs came in, and whatever was lost on the way.
ImplementsTotalOrder == Total!Spec

=============================================================================
