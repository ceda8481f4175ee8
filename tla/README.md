# TLA+ models of plenum

plenum is a Byzantine fault tolerant ledger: a pool of `3f+1` nodes orders the
requests of clients with RBFT (redundant BFT: `f+1` protocol instances run in
parallel, the first one, the master, is executed, the others only measure it)
and keeps the ordered transactions in merkle-tree ledgers. This directory models
the parts of it that decide what is ordered and executed, checks the models with
TLC and proves the most important invariants with TLAPS.

Paths below are relative to `src/plenum/`.

## 1. Inventory

| Component | State | Operations | Talks to |
|---|---|---|---|
| Node, `server/node.py` | mode, inboxes, `requests`, `requestSender`, `stashedOrderedReqs`, `instanceChanges`, messages for future views and replicas | `prod` services replicas, node messages, client messages, timers, elector in turn; handlers per message type | everything |
| Propagator, `server/propagator.py` | `Requests`: per key the PROPAGATEs by sender, the finalised request, `forwarded`, `forwardedTo` | `propagate`, `canForward`, `forward`, `tryForwarding` | hands request keys to every replica; `Replica.gc` removes entries |
| Replica, `server/replica.py`, vote counters in `server/models.py` | per batch: PRE-PREPARE, PREPARE and COMMIT voters and a stash for each kind of message that comes too early; `ordered`; queues of request keys; checkpoints and watermarks | batching, the three phases, ordering, checkpoints, view change cleanup | Ordered and Reject messages to the node; applies and reverts batches on the ledger |
| Ledger, `common/ledger.py`, request handlers `server/req_handler.py`, `server/domain_req_handler.py` | committed log, `uncommittedTxns`, `uncommittedTree`; state trie | `appendTxns`, `commitTxns`, `discardTxns`, `commit` | called by replica and node |
| Ledger manager, `common/ledger_manager.py` | per ledger: sync state, statuses, consistency proofs, catch-up replies, timers | ledger status, consistency proof, catch-up request and reply handlers, two timeouts | switches the mode of the node |
| Elector, `server/primary_elector.py` | nominations, primary declarations, re-election proposals per instance | handlers for the three messages, timeouts | sets the primary of every replica |
| View change, `server/node.py`, `server/models.py` | `instanceChanges` | `sendInstanceChange`, `processInstanceChange`, `startViewChange` | elector, replicas |
| Monitor, `server/monitor.py`, `server/instances.py` | per instance: requests ordered and their time, latencies per client | `requestUnOrdered`, `requestOrdered`, `reset`, `isMasterDegraded` | the node's `checkPerformance` votes for a view change |
| Client, `client/client.py`, `persistence/client_*.py` | request store, transaction log, who has to acknowledge and to reply | sends, collects `f+1` equal replies, retries on timeouts | nodes |
| Pool manager, `server/pool_manager.py`, `server/pool_req_handler.py`, `common/stack_manager.py`, `server/domain_req_handler.py` | pool ledger and state, node registry, `f`, replicas, stewards | validates, applies, commits NODE and NYM transactions; reacts to committed ones | node, replicas, stacks |
| Stacks, authentication, message validation, CLI, plugins | connections, keys | | |

What is hard here:

* every message may come before the one it depends on, and each has its own
  stash that is replayed from inside another handler;
* a node changes between *participating* and *syncing* at any moment, while
  batches are half way through the three phases; the mode is read again at
  several later points;
* quorums differ by one (`f+1`, `2f`, `2f+1`, "more than f+1") with the own vote
  counted or not;
* requests are forgotten at checkpoints while messages about them are still on
  their way;
* batches are applied optimistically and reverted, in order, on one list of
  uncommitted transactions;
* nodes leave a view at different times, restart in view 0, and elect with
  messages, timers and ties of several rounds and instances under way;
* the node set changes while the pool runs, and `f`, the number of replicas, the
  registry and the connections have to follow a ledger that is also reverted
  and caught up;
* the handlers run on one event loop: a handler is atomic, everything between
  two handlers interleaves.

`PROJECT.json` lists each of these as a hazard at its line, with the properties
that watch it.

## 2. Plan

Done, in this order: what decides the order of transactions first.

1. `ThreePhase`: the three phase commit of one instance; abstract specification
   `TotalOrder`; proofs, the refinement's included, in `ThreePhaseProofs`.
2. `Propagation`: from the client's request to the replica's queue and back to
   the reply; proofs in `ClientProofs`.
3. `Execution`: applying, reverting and committing batches while the mode changes;
   proofs in `ExecutionProofs`.
4. `Catchup`: ledger statuses, consistency proofs, requests, replies and both
   timeouts of one node; the division into requests is `CatchupRanges`; proofs
   about both in `CatchupProofs`.
5. `Checkpoints`: checkpoints, watermarks, the stash outside them; proofs in
   `CheckpointsProofs`.
6. `Election`, and `ViewChange` which composes it with the votes for a new view;
   proofs about both in `ViewChangeProofs`.
7. `Client`, composed with `Propagation`; proofs about both in `ClientProofs`.
8. `Monitor`, and `Membership` which composes it with the pool's node set;
   proofs in `MembershipProofs`.

Left, in order of what it would add:

* `ThreePhase` over several views: what a new primary finds in `requestQueues` (a
  request key that reaches the replica after its batch was ordered stays there
  and would be proposed again), and unordered batches of an earlier view, which
  count as previous ones since `view_ends_at` is never filled in
  (`server/replica.py:1160`);
* `Propagation` composed with `Execution`, for requests that are rejected in one
  batch and ordered in another (`server/node.py:995`);
* catch-up of the pool ledger on a node that keeps running (`Membership` has it
  after a restart only), and both ledgers in `Catchup` (their order is in `Membership`);
* peers of `Catchup` that are behind the pool, with which a wrong number of statuses
  or a stale list would show;
* requests that are signed but fail validation for another reason, in `Client`.

Theorems worth proving next: agreement of an election after a re-election, and
`OneLeader`, on top of the first round in `ViewChangeProofs`;
`OrderedHasCertificate` across views.

## 3. Modules and their correspondence to the code

### ThreePhase (`server/replica.py`, `server/models.py`)

One protocol instance, one view, before the first checkpoint. A variable holds
each dictionary of `Replica.__init__`, indexed by replica and, where the code
uses `(viewNo, ppSeqNo)`, by sequence number:

| Variable | Code |
|---|---|
| `finalised`, `inboxKeys`, `requestQueue` | the node's finalised requests, ReqKeys in `inBox`, `requestQueues` |
| `prePrepares` | `sentPrePrepares` and `prePrepares` |
| `pendingFinReqs`, `pendingPrevPP` | `prePreparesPendingFinReqs`, `prePreparesPendingPrevPP` |
| `prepares`, `preparesWaiting`, `commits`, `commitsWaiting` | `prepares`, `preparesWaitingForPrePrepare`, `commits`, `commitsWaitingForPrepare` |
| `ordered`, `orderedSent`, `outOfOrder` | `ordered`, Ordered messages in `outBox`, `stashed_out_of_order_commits` |
| `participating`, `stashedSyncing` | `node.isParticipating`, `stashingWhileCatchingUp` |
| `suspected`, `halted` | InstanceChange asked for; an exception that escaped `serviceQueues` |

An action is a whole handler. Taking a PRE-PREPARE (`addToPrePrepares`) replays
the stashed PREPAREs, then the stashed COMMITs, then sends the replica's own
PREPARE, and each step may send a COMMIT or order the batch: the operators
`dequeuePrepares`, `tryPrepare`, `dequeueCommits`, `tryCommit` are the vote sets
after each of these, in that order. `dequeuePrePrepares` does this for a run of
consecutive batches. `Serviced` states that `serviceQueues` empties the pending
PRE-PREPAREs before it reads the inbox.

Requests are atoms; a batch is a set of requests plus one bit that says whether
a backup that looks at it finds digest, reject count and roots right.
Connections are FIFO per sender (message `stamp`), may lose messages (`Lose`)
and otherwise deliver in any interleaving. Up to `f` backups are faulty: silent,
or sending the votes in `FaultyVotes` to anybody at any time. The primary
proposes one batch per number; a COMMIT carries no digest in this code, so none
of the results extends to a primary that does not.

`TotalOrder` is what the instance promises: a growing log of batches, each
replica delivering a prefix of it.

### Propagation (`server/propagator.py`, request handlers of `server/node.py`)

The life of one request key at every node. `Requests` is a dictionary and no
operation looks at two keys. `propagates[n][s]` is the PROPAGATE of sender `s`
recorded at `n`, with later ones overwriting earlier ones, `finalised` and
`forwardedTo` are the fields of `ReqState` (a request is forwarded exactly when
`forwardedTo > 0`), `requestSender[n]` the client that the node's dictionary has
for the key: `Asker`, who sends the REQUEST, or `Other`. The name comes with the
REQUEST or with the first PROPAGATE (`startedProcessingReq`), where a faulty node may
put any of `FaultyNames`, is passed on by the nodes' own PROPAGATEs, and goes when the
reply is sent (`sendReplyToClient`). `misnamed` is history: a correct node has
processed a PROPAGATE of a faulty one that names another client. `processRequest` and
`processPropagate` are the handlers with everything they call; the node's own
PROPAGATE is recorded always and sent only while participating. Ordering is the
environment: `commitAndSendReplies` may happen once the key was forwarded, `gc`
once per instance after it was ordered. The client may sign several requests
under the key.

### Execution (`common/ledger.py`, `server/req_handler.py`, master part of `server/replica.py`, Ordered messages in `server/node.py`)

One backup node and one ledger. `ledger` is the `Ledger` object as a record
(committed log, uncommitted transactions, uncommitted tree); the operators
`appendTxns`, `commitTxns`, `discardTxns`, `commit` are its methods, Python's
slices included. A merkle tree is the sequence of its leaves, so comparing roots
is comparing sequences (collision-free hashing). Actions: a PRE-PREPARE
validated (`validatePrePrepare`), refused (`revert`) or taken unseen while
syncing; ordering; the node reading an Ordered message; start and end of a
catch-up with the stashed Ordered messages processed in one go. The state trie
goes through the same calls and is left out.

One thing the model shows that no run states: a batch whose PRE-PREPARE came
while the node was syncing is applied a second time when its COMMITs come after a
catch-up that covered it, because only Ordered messages are compared with
`lastCaughtUpPpSeqNo` and the call that would drop the PRE-PREPAREs is commented
out (`server/replica.py`, `caught_up_till_pp_seq_no`). This is why
`UncommittedTracksBatches` speaks of the time before the first catch-up, and
`OrderedNotLost` of a node that has not failed with a wrong root. `OrderedNotLost` follows a
batch from the moment the replica orders it: it is in the outbox, put aside while the
node syncs, or in the ledger, and two filters (`lastCaughtUpPpSeqNo` and
`gotInCatchupReplies`) drop nothing that the catch-up did not bring.
`processStashedOrderedReqs` is a recursive function over the stash, with
`processStashed` for one message.

### Catchup and CatchupRanges (`common/ledger_manager.py`, `common/ledger_info.py`, callbacks in `server/node.py`)

One ledger of one node and its peers. The fields of `LedgerInfo` are a record
`node`, together with the node's mode and its outgoing messages: a handler runs
others (`processConsistencyProof` may start or end the catch-up, the replay of
stashed statuses may end it), so handlers are operators from record to record,
and to a set of records where the code's choice depends on the order of a
dictionary. Transaction `i` is the number `i`; a ledger, a proof and a root are
determined by lengths. `recvdConsistencyProofs` distinguishes no entry, `None`
and a proof, as the code counts them differently. Scheduled actions are counted
(`consistencyProofsActions`, `catchupReplyActions`) apart from the timers they
look at, because the code never cancels them. `_processCatchupReplies` is a
recursive function of the number of pieces appended (`appendPiece`) that follows
the code's slices over the merged list, repetitions included; merging and the
replay of stashed statuses are recursive functions too. `getCatchupReqs` asks for
one empty piece when there is nothing to ask for, as the code does. An exception that would escape the event loop sets
`halted`. The order of `conns`, the shuffled `eligibleNodes` and the dictionary of
senders is a free choice (`Orders`).

Peers answer statuses, proof requests and catch-up requests with the same
manager's handlers, correctly; they may be down, execute more, or have restarted
and lost `batchToSeqNos`. Connections are FIFO and may drop with what is on them,
whereupon both sides send their status again.

### Checkpoints (`server/replica.py`)

A replica is a record: `checkpoints` is the sorted dictionary of
`CheckpointState`s, `stashedRecvd` is `stashedRecvdCheckpoints`, `stashed`
`stashingWhileOutsideWaterMarks`, `h` the low watermark. The three phases of a
batch are one step: a batch is decided when `2f+1` replicas have it between their
watermarks, and decided batches reach every replica in order
(`dispatchThreePhaseMsg`, `addToCheckpoint`). One call may order a batch, complete
a window, send its CHECKPOINT, take the stashed CHECKPOINTs, find it stable,
clear the log, move the watermarks and release stashed batches, which starts
over; the operators call each other as the methods do. The call that starts over
is `release`, a function from replicas to replicas: `released(n)` is what
`processStashedMsgsForNewWaterMarks` does with `n` items in the stash, and calls
within it use `released(n - 1)`, since the batch they are due to was taken from the
stash. What is never read again
(CHECKPOINTs stashed for a complete window, digests of a stable one) is left out.
A window is named by its first batch, and a digest is right or wrong. `failed` is
the `IndexError` of a nested `processStashedMsgsForNewWaterMarks` that has emptied
the deque its caller is still counting down.

### Election (`server/primary_elector.py`, `server/primary_decider.py`)

`el[n]` holds the dictionaries of the elector of node `n` (`nominations`,
`primaryDeclarations`, `reElectionProposals`, `reElectionRounds`, the timer of
`scheduledPrimaryDecisions`) and of its replicas (`primaryName`, `lastOrdered`).
The elector's `outBox` and the connection to a peer are one FIFO queue. Handlers
are operators from an elector to the electors it may become: the random choices of
`nominateRandomReplica` and `most_common` are sets. `_schedule`d actions are kept
in `decide`, `start` and `nominate` and run before the next message, as the action
queue does; the random delay before a re-nomination is an action. A scheduled
action that would return at once is not kept. Tie lists come from dictionaries in
any order and are compared as lists, so any proposal may come out as the most
common one. `duplicateMsgs`, which nothing reads, is left out.

`Patient` says that timers and late connections are slower than messages.
Without it two nodes may choose different primaries (section 7).

### ViewChange (`server/node.py`)

EXTENDS `Election` with the node's part: `instanceChanges` by view,
`msgsForFutureViews`, `msgsToElector`, `view_change_in_progress`, the monitor's
verdict (`degraded`, a free choice here), the throttler (`throttled`), and
`lost_primary_at` with its timer (`lost`). `processInstanceChange` records a vote,
may change the view, then may vote itself, all in one call. Nodes of
`scene.crash` stop and come back in view 0 with nothing; every node they connect
to sends its election messages and its view (`onConnsChanged`). Faulty nodes vote
once, for any view and at any time. `suspecting` and `led` are history.

### Client (`client/client.py`, request store, transaction log; nodes through `Propagation`)

EXTENDS `Propagation`: the nodes are those of that module with a queue to and
from the client. `cl` holds the two dictionaries of expected answers
(`expectingAcksFor`, `expectingRepliesFor`: nodes, retries), the scheduled
`resendRequests`, the request store (`acks` counts lines, since a repeated REQACK
is a second line) and the transaction log. `shared` says that a retry has put one
and the same Python set in both dictionaries. `retryForExpected` and
`resendRequests` are two steps, and the second uses the nodes of the first.
What is on a connection is lost when it drops. REJECT is handled as REQNACK.

A faulty node sends any answer of `scene.says`, `scene.lies` times in all and the same one
again if it likes, and propagates the request to the nodes of `scene.relays` as any
client's. `scene.valid` is whether the signature is found valid: both
`handleOneClientMsg` and `validateNodeMsg`, which all PROPAGATEs pass, verify it.
Requests that are signed but fail another check are not covered.

### Monitor and Membership (`server/monitor.py`, `server/pool_manager.py`, `server/pool_req_handler.py`, `server/domain_req_handler.py`, `common/stack_manager.py`)

`Monitor` is a module of operators on a monitor record, with exact fractions for
the code's floats and no variables; windows and totals that only feed the
statistics plugins are left out.

`Membership` EXTENDS it and models one node, `Me`: committed pool and domain
ledger, batches that are applied only, `node.reg` (`nodeReg`), `node.f`, the number
of replicas, their inboxes and the stash for replicas to come, the monitor. Node
data in the state and `getNodeInfoFromLedger` are both computed from the ledger.
`create3PCBatch` applies the valid requests of a batch, `executeBatch` commits it
and runs `onPoolMembershipChange` for each transaction with the whole batch already
on disk, `revert` refuses it. A view change is two steps with others in between:
`startViewChange` leaves the master without a primary and keeps the last one in
`previous_master_primary`, and `processPrimary` ends the election with any other of
`Primaries`, in the registry or not; both revert what this node proposed last and
nobody prepared (`removeObsoletePpReqs`). Both, and the loss of the primary, happen in
every mode. View numbers and votes of others are `ViewChange`'s. `start` rebuilds the
node from its ledger; `postRecvTxnFromCatchup` then takes NODE transactions that the
others committed meanwhile, and NYM transactions after `postPoolLedgerCaughtUp` only.
The code validates neither. What the others commit is valid after *their* ledgers:
`ahead` holds the NYM transactions that they have and this node has not
(`ExecutedMeanwhile`), so that a NODE transaction may come before the one that made
its author a steward. The others are taken to have no stale answer in their caches.
`past.undone` (nodes whose addition was reverted) and `past.late` (the primary was out
of the registry when it was elected) are history. What a loop does is a recursive function on the number of
rounds: `Applied` over the batches, `ProcessReqs` over the requests of one, `applyTxns`
over the transactions of one, `grow` and `shrink` over replicas. A node's two
addresses are one value. The
`lru_cache` never evicts (there are fewer than 64 pairs). Changes of `Me` itself
are not proposed.

## 4. Runs

Four nodes in the pool models: the smallest pool that tolerates a fault, where
quorums are `2f = 2`, `2f+1 = 3`, `f+2 = 3`. `Catchup` has five, because its
thresholds use the `f` of the pool without the node itself, which is 0 in a pool
of four; `Membership` grows from four to five and shrinks to three. Deadlock is
not checked: all models stop when their bounds are spent.

| Run | What it asks | Bounds |
|---|---|---|
| `reorder` | refinement of `TotalOrder` when batch 2 collects votes before batch 1, using the out-of-order stash; an ordered batch has a certificate, is known and goes to the node once | 2 batches, `d` sends a COMMIT for batch 2 at any time; no catch-up, which the theorems add |
| `wrong` | types; an invalid batch that a syncing node took unseen is not ordered | 1 wrong batch, `d` votes at will, `a` finalises late, 1 lost message, 1 catch-up |
| `live` | what is proposed is ordered by everybody that is up | 2 batches, `d` silent |
| `agree` | what is forwarded is vouched for by two correct nodes, the same everywhere | 2 signed requests, the faulty node relays both, 1 node syncs or forgets, 1 instance |
| `client` | the client takes only the pool's result, and gets it; a refused request has no effect; a node does not lose the asker unless misled; types of `Propagation` | 1 request, 6 scenes: a drop, a liar, one connection at first, forgetting nodes, a faulty node that propagates the request to one node, as another client's, and a refusal with 2 answers of the faulty node, which propagates it everywhere; 1 retry, 2 instances |
| `modes` | types; the uncommitted ledger is the agreed one until a catch-up; no ordered batch is lost on its way to the ledger | 4 batches of sizes 2, 0, 2, 1; 2 catch-ups, 1 refused batch of 1 or 2 |
| `catchup` | the ledger is the pool's; catch-up does not end early and does end | 1 of 5 transactions at the start, one peer down, one executing a sixth, 1 dropped connection or partition, 1 early timeout |
| `election` | one primary per instance; until a re-election no node with two instances, and no vote lost | 3 nodes and a late one with 1 instance, or 3 nodes with 2 instances; 1 re-election round |
| `leaders` | (violation) after a tie one node leads two instances, against `test/README.md:68` | the whole pool with 2 instances, whose nodes take turns; 1 re-election round |
| `viewchange` | a view change has f+1 correct suspicions, ends with one new primary and with everybody in the same view; an absent primary is replaced | views 0 and 1; a crash and restart, or 1 or 2 nodes that find the master slow and a faulty voter, 1 end of throttling |
| `checkpoints` | stable checkpoints are backed, the log is bounded, no batch is lost, nobody waits for ever | 5 batches, windows of 2, a log of 3, 1 catch-up, 1 lost CHECKPOINT, 2 faulty ones |
| `members` | registry, `f`, replicas and connections follow the ledger; only stewards change their nodes; the loss of the primary is voted on; a new master is not blamed | 6 scenes of up to 3 batches, 1 restart, 2 transactions missed meanwhile, 1 refused batch, 1 view change and its election, 2 requests, 3 ticks |

The bounds are enough for the cases the properties are about: a second batch is
what it takes to be out of order, one catch-up to meet a batch in any of its
phases, two signed requests to disagree; four missing transactions among three
connections give pieces of different sizes, one drop a gap between them, one
early timeout repeated replies. A log of 3 with windows of 2 makes a batch wait
in the stash in the middle of a window and fill it when it is released. Two
instances are what it takes to lead two, a re-election round in one of them to give
both to one node; `leaders` takes a few of the behaviours only (`InTurns`), which is
enough to reach it. One end of throttling lets a node vote
twice in a view. In `members`, a transaction changes a node alone, twice in a
batch, and after a restart, a steward adds two nodes in different batches, an
addition is reverted while its answer is cached, the primary is switched off before,
during and after an election, and a NODE transaction is caught up before the NYM
transaction it needs. The messages of a batch are not bounded.

The scenes of a run are disjoint situations among which `Init` chooses; they keep
the hardships apart where all of them at once would be too many states.

The symmetry sets permute replicas (or nodes, requests) that no constant of the
cfg tells apart, and are used with safety properties only.

### Fairness

`live` assumes weak fairness of every replica's reading from each correct peer,
of its request keys, its pending PRE-PREPAREs, its timer for stashed COMMITs and
of the primary's batching. `prod` runs all of these in every cycle of the event
loop, reads all connections, and the timer repeats every second
(`startRepeating`), so no enabled one is passed over for ever. Nothing is
assumed of faulty nodes.

`client` assumes that, while an event loop of the client or of a correct node has
work, some loop runs (the work between two timeouts is finite, so fairness to each
of them would add nothing), that its timer becomes due (`retryForExpected` runs in every cycle), and that
connections come back (the stack retries). `Prompt` lets the timer become due only
when the pool has nothing left to do: timeouts are longer than the pool takes
(`CLIENT_REQACK_TIMEOUT` 5 s, `CLIENT_REPLY_TIMEOUT` 15 s), otherwise the
retries may be spent before the first answer. `EventuallyConfirmed` speaks of
requests that `f+1` correct nodes are expected to answer; with fewer the code
does not try again.

`catchup` assumes that connections deliver, peers that are up answer and
scheduled actions become due (`_serviceActions` runs in every cycle);
`EventuallyCaughtUp` gives up when a timeout overtakes an answer, since the code
then may blacklist honest peers or stop its timer (section 7).

`viewchange` assumes that event loops run (`prod`) and that the timers of the
elector and of `lost_master_primary` expire, each `_schedule`d action once. It
does not assume that the monitor finds anything or that throttling ends:
`LeaderReplaced` rests on the proposals after a lost connection alone.

## 5. Proofs

Proved by TLAPS for every value of the constants allowed by the named
assumptions (finite pool, primary correct, at most `f` faulty, `f` as
`getMaxFailures` computes it):

* `ThreePhaseProofs!TypeCorrect`: `Spec => []TypeOK`.
* `ThreePhaseProofs!Certificate`: `Spec => []OrderedHasCertificate`. The
  invariant is not inductive: it speaks of PREPAREs at other replicas while
  ordering looks at COMMITs here. `CertificateInv` adds the links: a COMMIT of a
  correct replica that is counted, stashed (`CommitsCounted`) or on its way
  (`CommitsInTransit`) was really sent by it; a correct replica that committed
  had `2f` PREPAREs (`CommitsPrepared`), and never loses them; what is ordered or
  stashed out of order had `2f+1` COMMITs (`OrderedCommitted`), which the timer
  that orders from the stash relies on. Of `2f+1` committers at most `f` are
  faulty, so `f+1` correct ones remain. One lemma per handler shows that the
  votes only grow and that every new vote is covered.
* `ThreePhaseProofs!OrderedOnce`: `Spec => []OrderedOnceAndKnown`. `OnceInv` adds
  that what was handed over counts as ordered, with what catch-up inserted between
  (so asking `hasOrdered` is enough), and that the batches in the out-of-order
  stash are held, which the timer does not look at. One lemma per handler shows
  that it hands over a run of known batches that were not ordered before.
* `ThreePhaseProofs!NoInvalidOrdered`: `Spec => []InvalidNeverOrdered`. `ValidInv`
  says that whoever votes for a refused batch, counted, stashed or on its way, is
  faulty: a syncing replica takes the batch unseen but does not vote, one that
  participates validates it, and the faulty alone are no quorum of PREPAREs
  (`FaultyAreFew`, also for `f = 0`), so no correct replica sends a COMMIT either.
* `ClientProofs!TypeCorrect` and `Backed`: `Spec => []BackedInv`. PROPAGATEs
  recorded or on their way from correct nodes were vouched for by them
  (`RecordedVouched`, `SentVouched`); a finalised request had more than `f+1`
  equal PROPAGATEs, so all but the faulty ones of `f+2` nodes vouched, and
  `vouched` never shrinks although the PROPAGATEs are overwritten and forgotten.
* `ClientProofs!Agreed`: in a pool of four, `Spec => []FinalisedAgree`.
  `BackedInv` alone allows two requests with the same backers; `VotesInv` adds
  that a correct node that has not forgotten the request vouched for nothing but
  the PROPAGATE recorded as its own (`OneVote`), which no message overwrites since
  nodes do not send to themselves (`NotToSelf`). Two backers each among at most
  four nodes, with a fault, share one (`FourAgree`). With `f >= 2` two requests can
  each have enough backers, so the pool size is a premise.
* `ClientProofs!SenderNotLost` and `AskerNotLost`: `Spec => []SenderKept` and `CSpec =>
  []SenderKept`, the latter with a client that retries. What `SenderKept` says of one
  node depends on the names that others pass on: the inductive invariant adds that
  until a faulty node has misled somebody no other name is recorded or on its way
  (`NamesTrue`).
* `CatchupProofs!AskedOnce`, `AskedIsMissing`, `OneRequestPerNode`: the
  requests divide what is missing without gap or overlap, for every range, size of
  piece and number of nodes. The argument is integer division: transaction `n` is
  in piece `(n - frm) \div batchSize + 1`, and in no other because products with a
  positive factor can be cancelled (`Cancel`).
* `CatchupProofs!MissingAskedOnce`: `Spec => []GapsAsked`. While a catch-up waits for
  replies, what `checkIfTxnsNeeded` would ask for (`MissingRanges`, a loop over the
  replies that wait) has each transaction that neither the ledger nor a waiting
  reply has in exactly one request, and no waiting one in any, for every size of a
  piece. It holds although numbers may wait twice, or lie below the ledger's size or
  above the target. The argument (`SoFar`) says after each waiting number how many
  requests have a given transaction and that what is left is the target, less the
  number, less the replies still to come; the count is right with duplicates because
  the second of two equal numbers adds one to what is left. It needs that the heap
  is in order (`Queues`), which `CatchupInv` has and `heapq.merge` (`InsertOK`) keeps.
  A catch-up with a replies timer has a target, so the premise is met in every
  catch-up. It says what is asked for when requests are sent, not that they are: with
  repeated replies `totalMissing` may be zero or less while transactions are missing, and
  then `checkIfTxnsNeeded` asks for nothing (a hazard no property covers). No run
  checks `GapsAsked`, which quantifies over all sizes of pieces.
* `ThreePhaseProofs!VotesCounted`: `Spec => []CertificateInv`, the inductive
  invariant of `Certificate` as a result of its own, since the run `reorder` checks it.
* `ThreePhaseProofs!InPrimaryOrder`: `Spec /\ [](catchups = 0) =>
  ImplementsTotalOrder`, the refinement of `TotalOrder`. The premise is that of the
  property: a catch-up brings batches in that were never handed over, so the log of
  that replica has a gap. `LogInv` says that every correct replica holds an
  unbroken prefix of the primary's batches (`HoldsPrefix`), also those that wait
  behind one that is missing (`FromPrimary`), and has ordered the numbers `1, 2,
  ..` (`InOrder`). One lemma per handler shows that it takes a run of batches that
  goes on where the last one ended and orders such a run (`LogStep`), among them
  the timer that orders from the out-of-order stash; a step of the primary maps to
  a proposal, a step of another replica to a delivery or a stutter.
* `ExecutionProofs!TypeCorrect`, `OrderedIsKept`: `Spec => []OrderedNotLost`, for all
  batch sizes, modes and catch-ups. The property needs two more facts: the committed
  ledger is the agreed one of some batch while the node has not failed (`LedgerAgreed`),
  and it has at least what the last catch-up claims to have brought. Then a batch that a
  filter leaves out is in it. `processStashedOrderedReqs`, which may write many batches
  in one step, keeps them message by message (`StaysIn`).
* `ExecutionProofs!UncommittedTracked`: `0 \notin RefusedSizes => (Spec =>
  []UncommittedTracksBatches)`. The property is not inductive: `TrackInv` adds three
  numbers, the batches received, those ordered and those executed, with
  `prePrepares`, `ordered` and `outBox` as the intervals they bound (`Tracks`), so
  that the message the node reads next is the oldest uncommitted batch and
  `commitTxns` removes exactly its transactions. The premise is needed: refusing a
  batch without a valid request discards the transactions of the earlier ones
  (section 7).
* `ClientProofs!TakenIsTrue`: `CSpec => []ResultTrue`. `ClientInv` adds that
  what a correct node answered, stored or on its way, is true (`AnswersTrue`), and
  that an answer "right" means it has executed the request; of `f+1` nodes with the
  same result one is correct. `NodesTypeCorrect` is the type of `Propagation`'s
  variables when the client drives them.
* `ClientProofs!RefusedIsVoid`: `CSpec => []RefusedNoEffect`, whatever faulty nodes
  answer and propagate. `RefusedInv` says that no correct node has begun (`PoolIdle`)
  and that no REQACK of a correct node is stored or on its way (`NoAck`): with one
  each, those of the faulty are less than the quorum, so that a client that is misled
  has two of the same node. A result would be true (`ResultTrue`), thus executed by a
  node that has begun.
* `ViewChangeProofs!TypeCorrect`: `VSpec => []VTypeOK`, with the types of the electors,
  of all messages on their way and of those stashed (`TypeInv`); about half of the
  module shows that each method of the elector keeps type and view.
* `ViewChangeProofs!ChangeIsBacked`: `VSpec => []ViewBacked`. `ViewBacked` is not
  inductive: it says nothing about votes. `BackInv` says that more than `f` correct
  nodes have suspected the master, or else that nobody has moved (`Unmoved`): all
  correct nodes are in view 0, votes of correct nodes that are recorded anywhere
  are of nodes that suspected, and one that has not suspected has sent election
  messages only, which includes what `onConnsChanged` tells a node that restarts.
  Then at most `f` correct and `f` faulty votes are there for a view, one less than
  the quorum (`NoQuorum`). The assumption is that a scene has at most `f` faulty
  nodes.
* `ViewChangeProofs!FirstRoundAgreement`, `FirstRoundLeaders`, `FirstRoundSettlement`:
  until the first re-election nodes choose the same primary for an instance, no node
  is given two instances, and an election that has come to rest has given every
  connected node `2f+1` declarations for every instance. For any number of instances
  and late nodes, in a pool of `3f+1` nodes with patient timers (`PatientPool`;
  `test/README.md:57` asks for `3f+1`; without patience the first is false, see section
  7); the last theorem also needs `2f+1` nodes at the start and at most `f+1` instances
  (`SmallPool`, `requiredNumberOfInstances`), or there may be nobody left to nominate.
  The inductive invariant `FirstInv` says of every instance one of two things. While
  the connected nodes vote (`Voting`), every vote is known to a node or on its way to it
  (`Told`), and whoever has declared a winner has one that nobody can overtake
  (`Beats`: more nominations than any other would have if all that have not voted
  voted for it), so that there is only one such. That is kept because a node decides
  with a majority of the connected nodes, or when it has heard all of them, and
  timers do not expire before that. When a node joins late (`Join`) the number of
  connected nodes changes, and with it what a majority is; the pool is at rest then,
  which is shown to mean that nobody has voted or that the instance is `Chosen`:
  `2f+1` nodes have declared the same (`Concluded`), and who comes later hears that and
  too few nominations to decide otherwise (`Passed`: a node that has chosen sends its
  choice instead of its nomination, and at most one of the `2f+1` has not chosen,
  since a node's own declaration is counted only with the next message). For the
  second theorem `Candidates` follows who proposes itself: whoever is voted for has
  nominated itself, and a node that leads, or may come to lead, one instance does not
  propose itself for another (`SelfOK`). For the third, of `2f+1` nodes each leads an
  instance, or is the last to choose one, or has started an election: `f` other
  instances leave one node that has (`SomebodyNominates`). Half of the proof is one
  description of what a turn of the elector may do (`Turn`), which each handler is
  shown to satisfy.
* `ViewChangeProofs!ElectionTypesHold`: `Spec => []ElectionTypes`, the type of the state of
  `Election`.
* `MembershipProofs!OneNodeEach` and `StewardsOnly`: `Spec => []OneNodePerSteward` and
  `Spec => []Authorised`, for every genesis in which each node has a steward of its own
  (`MembershipAssumption`), all proposals, thresholds and bounds. Neither is
  inductive: a view change reverts a part of the batches, a restart all of
  them, and a request was validated against the rest. `LedgerInv` therefore asks the
  property of *every* prefix of the batches (`LogOK` after each one of them), which is
  what a revert leaves, and adds that all transactions of a nym have one alias, that
  updates come from the owner (`Owned`), and that the answers in the cache of
  `isStewardOfNode` are true of the uncommitted log (`CacheOK`), both but for the nodes in
  `past.undone`: a revert adds what the log loses to these (`CacheReverted`), and nothing
  else can make an answer wrong. While the node catches up, the authors are stewards in
  the ledger that the pool has (`Nyms`, the node's domain ledger with `ahead`), and
  when the catch-up ends the two are the same.
  The lemmas say that a log keeps its owners when it grows (`OwnerKept`,
  `LogAppend`), what processing a batch keeps (`ProcessReqsKeeps`), and what
  committing, appending and dropping batches make of the logs in between
  (`AppliedTail`, `AppliedAppend`, `AppliedSubSeq`).
* `MembershipProofs!SizeFollowsRegistry`, `LossIsVoted`, `StashedAreDelivered` and
  `MasterMeasuredAnew`: `PoolSizeKnown`, `PrimaryLossNoticed`, `NoneOverlooked` and
  `NewMasterUnblamed`, for pools, batches and numbers of instances of any size. They
  are parts of one invariant, `NodeInv`, which follows the primary that was a validator
  when it was elected (`Voter`) and adds that the registry is finite and
  has the node itself (so `setF` counts it once), that the monitor's entries belong to
  requests forwarded in this view, and that its record of the master is blank until
  the master ordered one of these (`MonitorOK`). It needs `LedgerInv`: the primary is
  noticed under the name the transaction gives, and the name the code looks up in the
  ledger is the same because the transactions of a nym have one alias (`NameIsAlias`).
  `TxnOK` takes a transaction through every branch of `onPoolMembershipChange`,
  `ResizeOK` through `setF` and `adjustReplicas`, `TxnsOK` a whole batch.
* `MembershipProofs!RegistryFollowsLedger`: `OwnNames => (Spec => []RegistryMatches)`, for
  every genesis, all batches, reverts, restarts and transactions caught up. `OwnNames`
  asks of the proposals, valid or not, that no two nodes are given one name and that
  nobody moves this node to another address. Without the first it is false: nothing keeps
  two new nodes from one alias (section 7), and the registry is keyed by it; without the
  second it is false because `nodeHaChanged` leaves the node's own entry alone. It
  holds of the scenes of the run `members`. The theorem says that two ways to the same
  map agree: `parseLedgerForHaAndKeys` reads a ledger from the first transaction to the
  last, and `onPoolMembershipChange` changes the map it has, with the whole batch already
  in the ledger, looking at what the ledger says of the node before its *last*
  transaction. `TxnReg` is what a transaction makes of a registry, and `TxnOK` that every
  branch of the handler makes that. `InfoIsOlder` says that for a transaction alone of its
  node in the batch (`Single`) `getNodeInfoFromLedger` returns what the ledger before the
  batch said, `TxnMatches` that the name is then right in the ledger with the batch, and
  `OthersKept` that the other names stay. So in the middle of a batch the registry is
  right for two ledgers at once, by name: `MatchedUpTo` is the invariant of that loop. The
  property sets a node apart (`Apart`) where one of these steps would fail. `RegInv` carries it over the steps, with `NamesInv`, that the
  ledger and the batches hold nothing that was not proposed.

* `CheckpointsProofs!StableIsBacked`, `LogStaysBounded` and `NothingLost`: `Spec =>
  []StableBacked`, `Spec => []LogBounded` and `Spec => []NoneLost`, for every window and
  log size, number of batches, catch-ups and losses, and all CHECKPOINTs of the faulty.
  `CInv` says of each correct replica (`Good`) that windows do not overlap and only the
  first is stable (`WindowsOK`), that right digests, counted, stashed or on their way,
  are of replicas that are faulty or have ordered the window (`DigestsOK`), and that
  `2f` others have where the low watermark is (`HBacked`); with the replica itself and
  without the faulty, `f+1` correct ones remain. What makes it hard is one call that
  starts over: it may order, complete a window, make it stable, move the watermarks and
  go through the stash, while the caller is in the middle of the same stash. `Contract`
  states what `release` keeps for stashes of up to `d` items, each operator is shown to
  keep it given such a `release`, and induction over `d` (`ReleasedOK`) closes the
  circle. Inside the loop a batch may be below the high watermark and still stashed:
  `Waits(x, k, flight)` allows this for the next `k` items, and for the one that was
  taken out, and the loop starts with `k` the length of the stash and ends with 0.

* `CatchupProofs!LedgerStaysVerified` and `NeverEndsEarly`: `Spec => []LedgerVerified` and
  `Spec => CaughtUpToPool`, an action property, for every pool, target, replies repeated or
  out of order, timeouts, dropped connections and peers that are down, restarted or ahead.
  `CatchupInv` says of the node (`Good`) that its ledger is `1..n`, that a null proof is
  there only when the ledger has what the pool had, and that a node that syncs, or has a
  timer for replies, has a target of at least that size; and of peers and messages that
  all speak of at least that size. The peers are correct; the proofs they send are
  not of the same target, and the node may put pieces together that were made for
  different ones. Since every handler may end the catch-up, directly or through
  the stashed statuses, each lemma says of a call that what it leaves is `Good` and that
  the node ends only with enough (`Ends`). The loops over stashed statuses, replies,
  merged numbers and gaps are recursive functions, reasoned about with
  `DataInduction`.

Two results about data are proved by induction, which the theorems of the library
cannot be used for as they take operators: `DataInduction` states induction with the
property as a *set* (`InductionUpTo`, from well-foundedness) and derives that a
recursive function on `0..N` satisfies its equation and stays in a set that each
step keeps (`RecursionUpTo`, `StaysIn`). So the fold over stashed Ordered messages
(`Execution`) and the loops over protocol instances (`_serviceActions` in
`Election`) are recursive functions and not community-module folds, and so are the
loops of `Membership`, `Checkpoints` and `Catchup`.

Only model-checked: liveness, which is out of the prover's reach altogether; what the
elections agree on after a re-election (`PrimaryAgreed`: nominations carry no round, so
that one of an earlier round may count in a later one) and after a view change
(`NewLeader`, `OneLeader`, `ViewsMeet`: they hold of the scenes that are checked and not
of all, since a node that restarts has forgotten its votes); and `NobodyStuck`, which speaks
of ENABLED.

## 6. Not modelled

Planned: see section 2. Left out for good: cryptography, transport, message field
validation, the state trie, the statistics plugins, storage, CLI and scripts,
the primary selector (round robin, used in tests instead of the elector), wallets
and the client's copy of the pool ledger.

## 7. What the models show about the code

The models follow the code where it does not do what its comments say; the
properties are stated so that they hold, and this is what they leave out.

Three phase commit. COMMITs that come before the PRE-PREPARE are stored, but
`addToPrePrepares` replays them before the replica's own PREPARE is recorded
(`server/replica.py:1084`); if no other PREPARE has come, `validateCommit` refuses
them and they are gone, although the comment at line 160 says that COMMITs without
"PRE-PREPARE or PREPARE" are stored. A stashed COMMIT that comes twice raises
`DUPLICATE_CM_SENT` in the middle of `addToPrePrepares`. After a catch-up the lowest
pending PRE-PREPARE may be older than the last ordered batch and then holds back
everything behind it (`server/replica.py:1505`).

Propagation. `canForward` passes `f+1` to `checkIfMoreThanFSameItems`, which asks for
*more* than its argument, so that a request is forwarded with `f+2` equal PROPAGATEs,
the node's own included (`server/propagator.py:179`, `common/util.py:347`). The
repository says `f+1`: "If exactly f+1 PROPAGATE requests are received, then forward"
(`server/propagator.py:168`), "When a node has received f + 1 copies of a client request
(possibly including its own copy) ... it gives the request to the f + 1 replicas it
hosts" (`test/README.md:119-124`). The scenario of
`test/propagate/test_num_of_sufficient_propagate.py:24-26` forwards at `PROP_count = 2`,
which is `f+1` in the four nodes it describes. `BackedInv` states what the code's number
gives, two correct nodes behind every request that is forwarded; with `f+1` it would be
one. What the higher number costs is a request that `f+1` nodes have and nobody passes
on; each of them also propagates it, so that the others come to have it.

The client that gets the reply is the one that the first REQUEST or PROPAGATE names
(`server/node.py:1561`, 1585-1588), and the name in a PROPAGATE is not part of what the
client signed. If a faulty node's PROPAGATE with another name comes first, the node
acknowledges the client's REQUEST and sends its reply elsewhere (line 2014); honest nodes
pass the name on. The client gets its reply from the ledger when it asks again
(`SenderKept`, `EventuallyConfirmed`).

`Requests.forwarded` lives in the entry that `Replica.gc` removes. A
PROPAGATE that comes later makes a new entry, and the request may be forwarded and
ordered again (`server/propagator.py:50`, against the docstring at line 171).

Ledger. `discardTxns(0)` keeps `uncommittedTxns[:-0]`, the empty list, so that
refusing a batch none of whose requests is valid discards the uncommitted
transactions of all earlier batches (`common/ledger.py:83`).

Catch-up. Answers to a retry that cross the first ones are merged with them;
`hasValidCatchupReplies` then builds a tree with a repeated transaction and the
honest sender of a correct reply is blacklisted (`common/ledger_manager.py:522`).
With repeated replies `totalMissing` may be zero or negative although transactions
are missing (line 121). `catchupCompleted` leaves `consistencyProofsTimer` set, and
the scheduled check indexes an empty list (line 716).

Checkpoints. Windows are counted from the first batch a replica orders. A catch-up
that ends in the middle of a window shifts the windows of that replica
(`server/replica.py:1291`, 1309): its checkpoints match nobody's, never become
stable, and it stalls a log size later. A nested
`processStashedMsgsForNewWaterMarks` empties the deque and its caller fails with an
`IndexError` (line 1405). `stashedRecvdCheckpoints` of windows that complete late
are never removed.

Election. A node's own PRIMARY or REELECTION is counted without looking at the
quorum, which is seen only when the next message of another node comes.
Nominations carry no round, so one of an earlier round may be counted in a later
one. If messages are slower than timers, or a node restarts during the election
while another joins late, nodes may choose different primaries; this is why the
runs are `Patient` and `PrimaryAgreed` is not claimed across a crash. A PRIMARY sent
to a lagged node carries the sender's own `lastOrderedPPSeqNo`.
`processReelection` may nominate a node for an instance while it is nominated for
another (`server/primary_elector.py:486`), and the node may then lead both: the run
`leaders` shows it, against `test/README.md:68`. Without a re-election this does not
happen (`FirstRoundLeaders`).

View change. A node that restarts while the others change view, and hears the old
view from enough of them, stays behind until the next vote. A proposal for a lost
primary that the throttler refuses is not made again
(`server/node.py:1822`).

Client. A request that waited for connections is sent without being expected
(`client/client.py:467`), so it is never sent again. `resendRequests` puts one set
in both dictionaries and uses the nodes of the time of the timeout. A repeated
REQACK counts twice (`persistence/client_req_rep_store_file.py:101`): one faulty node makes
`isRequestSuccessful` true of a request that the pool refuses, which `RefusedNoEffect`
states as its exception. `ClientTxnLog.hasTxn` compares another key than `append`
writes and is always false. A connection that drops more than
`CLIENT_MAX_RETRY_REPLY` times may leave a request without its result.

Monitor. A master that orders nothing has no throughput and is never degraded
(`server/monitor.py:344`). The comparison of average latencies stops at a client
the master has no record of. `removeReplica` calls `monitor.addInstance`
(`server/node.py:942`), so the monitor has instances that no longer exist.

Membership. `newNodeJoined` calls `adjustReplicas` twice, and the elections for new
replicas, which depend on the second result, never start (`server/node.py:783`).
Switching a validator on again, or any change of a node that is out of service,
puts it in the registry without `setF` (`server/pool_manager.py:181`, 256); the
latter also when it stays out of service. Two transactions of a node in one batch:
`getNodeInfoFromLedger` leaves out only the last, so a node that is switched off and
moved stays in the registry (`common/stack_manager.py:225`). These are the nodes in
`past.apart` and the flag `unsized`. `isNodeDataConflicting` compares nothing for a
new node (`server/pool_req_handler.py:144`), against its comment that "ip, port
and alias shuuld be unique". `isStewardOfNode` answers from an `lru_cache` that a
revert does not clear (line 111): a steward whose node was added, changed and reverted
still passes for the steward of the node when another one has added it again
(`past.undone` in `Authorised`). The catch-up validates nothing and takes the pool ledger
before the domain ledger (`server/node.py:1388`, 1435), so that until it ends a NODE
transaction may be there without the one that made its author a steward. A node that
stops being a validator during an election is nobody's primary then, so no vote is cast
against it (`server/pool_manager.py:203`), and the election may still choose it
(`past.late` in `PrimaryLossNoticed`). The steward threshold counts committed
transactions only.
