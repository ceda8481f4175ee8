------------------------------ MODULE Catchup ------------------------------
(***************************************************************************)
(* How a node brings one ledger up to date (plenum/common/                 *)
(* ledger_manager.py, ledger_info.py and the callbacks in                  *)
(* plenum/server/node.py): it compares ledger statuses with its peers,     *)
(* collects consistency proofs, asks for the missing transactions in       *)
(* pieces, checks and appends what comes, and asks again on timeouts.      *)
(*                                                                         *)
(* Transaction i of the pool is the number i, so that every correct ledger *)
(* is <<1, .., n>> and n determines its roots.  No peer is malicious (the  *)
(* comment above canStartCatchUpProcess assumes the same), but peers may   *)
(* be down or behind, and connections drop with everything on them.        *)
(*                                                                         *)
(* The node's fields are one record, because a handler may run others.     *)
(***************************************************************************)
EXTENDS CatchupRanges, FiniteSets, SequencesExt

CONSTANTS Peers,          \* the other nodes of the pool
          Down,           \* peers that cannot be reached
          Ahead,          \* peers that execute further transactions meanwhile
          Restarted,      \* peers that do not know the batch of a transaction
          StartModes,     \* "starting", or "participating" after a partition
          OwnSize,        \* the node's ledger when it gets its connections
          PoolSize,       \* the peers' ledgers at that time
          MaxSize,        \* bound: transactions
          MaxReconnects,  \* bound: partitions and connections that drop
          MaxOvertakes    \* bound: timeouts while messages are on their way

ASSUME CatchupAssumption ==
    /\ IsFiniteSet(Peers) /\ Down \subseteq Peers /\ Down # Peers
    /\ Ahead \subseteq Peers /\ Restarted \subseteq Peers
    /\ StartModes \subseteq {"starting", "participating"}
    /\ {OwnSize, PoolSize, MaxSize, MaxReconnects, MaxOvertakes} \subseteq Nat
    /\ OwnSize <= PoolSize /\ PoolSize <= MaxSize

\* owner.f, and getMaxFailures(totalNodes - 1).
f == Cardinality(Peers) \div 3
adjustedF == (Cardinality(Peers) - 1) \div 3

Conns == Peers \ Down

(* Messages *)
Status(n) == [type |-> "LedgerStatus", size |-> n]
ProofRequest(i, j) == [type |-> "ConsProofRequest", start |-> i, end |-> j]
Request(r, n) == [type |-> "CatchupReq", s |-> r.s, e |-> r.e, till |-> n]
Reply(i, j, n) == [type |-> "CatchupRep", s |-> i, e |-> j, till |-> n]
Proof(i, j, pp) == [type |-> "ConsistencyProof", start |-> i, end |-> j, ppSeqNo |-> pp]

\* Entries of recvdConsistencyProofs: none, None, or a proof.
NoEntry == [type |-> "no entry"]
NullProof == [type |-> "null"]

VARIABLES node,        \* the node: its LedgerInfo, mode and outgoing messages
          size,        \* size[p]: the ledger of peer p
          toNode,      \* toNode[p]: messages from p on their way to the node
          reconnects,  \* what MaxReconnects has been spent on
          overtakes    \* what MaxOvertakes has been spent on

vars == <<node, size, toNode, reconnects, overtakes>>

-----------------------------------------------------------------------------
(* Sending *)

sendTo(N, p, m) ==
    IF p \in Conns THEN [N EXCEPT !.out[p] = Append(@, m)] ELSE N

send(N, m) ==
    [N EXCEPT !.out = [p \in Peers |-> IF p \in Conns THEN Append(N.out[p], m)
                                       ELSE N.out[p]]]

\* Requests go to the nodes of `order' in turn: the node at place i gets the
\* requests i, i + Len(order) and so on.
sendRequests(N, reqs, till, order) ==
    LET turns(i) == (Len(reqs) - i + Len(order)) \div Len(order)
        share(i) == [k \in 1..turns(i) |-> Request(reqs[i + (k - 1) * Len(order)], till)]
        place(p) == CHOOSE i \in DOMAIN order : order[i] = p
    IN  [N EXCEPT !.out = [p \in Peers |->
            IF p \in Range(order) THEN N.out[p] \o share(place(p)) ELSE N.out[p]]]

isNodeBlacklisted(N, p) == p \in N.blacklisted
blacklistNode(N, p) == [N EXCEPT !.blacklisted = @ \cup {p}]

NoEntries == [p \in Peers |-> NoEntry]

\* catchupCompleted with the callbacks up to allLedgersCaughtUp.  The timer for
\* consistency proofs goes on.
catchupCompleted(N, lastPpSeqNo) ==
    [N EXCEPT !.lastCaughtUpPpSeqNo = IF @ < lastPpSeqNo THEN lastPpSeqNo ELSE @,
              !.catchupReplyTimer = FALSE, !.canSync = FALSE, !.state = "synced",
              !.ledgerStatusOk = {}, !.recvdConsistencyProofs = NoEntries,
              !.mode = "participating"]

-----------------------------------------------------------------------------
(* Ledger statuses *)

\* Mutant: statuses of nodes that are ahead count as well.
AnyStatusOk(N, p, n) ==
    LET ok == [N EXCEPT !.recvdConsistencyProofs[p] = NullProof,
                        !.ledgerStatusOk = @ \cup {p}]
    IN  IF N.state # "synced" /\ ~N.canSync
        THEN [N EXCEPT !.stashedLedgerStatuses = Append(@, <<p, n>>)]
        ELSE IF Cardinality(ok.ledgerStatusOk) = 2 * f /\ N.state # "synced"
             THEN catchupCompleted(ok, -1) ELSE ok

\* A peer that is behind is sent a proof, which is no concern here.
processLedgerStatus(N, p, n) ==
    LET ok == [N EXCEPT !.recvdConsistencyProofs[p] = NullProof,
                        !.ledgerStatusOk = @ \cup {p}]
    IN  CASE N.state # "synced" /\ ~N.canSync ->
                 [N EXCEPT !.stashedLedgerStatuses = Append(@, <<p, n>>)]
          [] N.state = "synced" /\ Len(N.ledger) < n ->
                 sendTo([N EXCEPT !.canSync = TRUE], p, Status(Len(N.ledger)))
          [] N.state # "synced" /\ N.canSync /\ Len(N.ledger) < n -> N
          [] OTHER ->
                 IF Cardinality(ok.ledgerStatusOk) = 2 * f /\ N.state # "synced"
                 THEN catchupCompleted(ok, -1) ELSE ok

\* The last one stashed is processed first; what a synced ledger makes of the
\* others is the same handler.
unstash(N) ==
    IF N.stashedLedgerStatuses = <<>> THEN N
    ELSE LET x == Last(N.stashedLedgerStatuses)
         IN  processLedgerStatus([N EXCEPT !.stashedLedgerStatuses = Front(@)], x[1], x[2])

\* None is stashed again, so that there are as many rounds as there are statuses.
processStashedLedgerStatuses(N) ==
    LET after[k \in 0..Len(N.stashedLedgerStatuses)] ==
            IF k = 0 THEN N ELSE unstash(after[k - 1])
    IN  after[Len(N.stashedLedgerStatuses)]

start_domain_ledger_sync(N) ==
    processStashedLedgerStatuses(send([N EXCEPT !.canSync = TRUE, !.mode = "discovered"],
                                      Status(Len(N.ledger))))

-----------------------------------------------------------------------------
(* Consistency proofs *)

Entries(N) == {p \in Peers : N.recvdConsistencyProofs[p] # NoEntry}
NullProofs(N) == {p \in Peers : N.recvdConsistencyProofs[p] = NullProof}
Proofs(N) == {N.recvdConsistencyProofs[p] : p \in Entries(N) \ NullProofs(N)}
Count(N, c) == Cardinality({p \in Peers : N.recvdConsistencyProofs[p] = c})

_reliableProofs(N) == {c \in Proofs(N) : Count(N, c) > adjustedF}

\* The proofs _latestReliableProof may return, by the order of a dictionary.
_latestReliableProof(N) ==
    LET fit == {c \in _reliableProofs(N) : c.start = Len(N.ledger)}
    IN  {c \in fit : \A d \in fit : d.end <= c.end}

checkLedgerIsOutOfSync(N) ==
    Cardinality(Entries(N) \ NullProofs(N)) >= Cardinality(Peers) - adjustedF

\* A synced ledger with enough proofs against it is out of sync from now on.
LoseSync(N) ==
    IF N.canSync /\ N.state = "synced" /\ checkLedgerIsOutOfSync(N)
    THEN [N EXCEPT !.state = "not_synced", !.mode = "syncing"] ELSE N

canProcessConsistencyProof(N, c) ==
    /\ N.canSync /\ N.state = "not_synced"
    /\ c.start <= Len(N.ledger) /\ c.end > c.start

\* Mutant: nothing is scheduled that looks for replies that do not come.
Unwatched(N, c, order) ==
    sendRequests([N EXCEPT !.state = "syncing", !.consistencyProofsTimer = FALSE,
                           !.recvdConsistencyProofs = NoEntries, !.catchUpTill = c,
                           !.catchupReplyTimer = TRUE],
                 getCatchupReqs(c.start, c.end, Cardinality(Conns)), c.end, order)

\* `order' is the order in which the connections are listed.
startCatchUpProcess(N, c, order) ==
    sendRequests([N EXCEPT !.state = "syncing", !.consistencyProofsTimer = FALSE,
                           !.recvdConsistencyProofs = NoEntries, !.catchUpTill = c,
                           !.catchupReplyTimer = TRUE, !.catchupReplyActions = @ + 1],
                 getCatchupReqs(c.start, c.end, Cardinality(Conns)), c.end, order)

\* canStartCatchUpProcess and what follows from it.
tryCatchUp(N, order) ==
    LET timed == IF Cardinality(Entries(N)) = adjustedF + 1
                 THEN [N EXCEPT !.consistencyProofsTimer = TRUE,
                                !.consistencyProofsActions = @ + 1]
                 ELSE N
    IN  CASE Cardinality(Entries(N)) <= 2 * adjustedF -> {timed}
          [] Cardinality(Entries(N)) > 2 * adjustedF
                /\ Cardinality(NullProofs(N)) > adjustedF -> {catchupCompleted(timed, -1)}
          [] OTHER -> IF _latestReliableProof(N) = {} THEN {timed}
                      ELSE {startCatchUpProcess(timed, c, order) :
                               c \in _latestReliableProof(N)}

\* The outcomes of processConsistencyProof.
processConsistencyProof(N, p, c, order) ==
    LET after == LoseSync([N EXCEPT !.recvdConsistencyProofs[p] = c])
    IN  IF canProcessConsistencyProof(after, c) THEN tryCatchUp(after, order) ELSE {after}

\* getConsistencyProofRequest: the ends of the ranges that may be in the middle
\* when they are sorted by the votes for their most frequent proof.
Ranges(N) == {<<c.start, c.end>> : c \in Proofs(N)}
Votes(N, r) ==
    CHOOSE v \in 1..Cardinality(Peers) :
        /\ \E c \in Proofs(N) : <<c.start, c.end>> = r /\ Count(N, c) = v
        /\ \A c \in Proofs(N) : <<c.start, c.end>> = r => Count(N, c) <= v
MiddleEnds(N) ==
    LET mid == Cardinality(Ranges(N)) \div 2
        Below(r) == {q \in Ranges(N) : Votes(N, q) < Votes(N, r)}
        UpTo(r) == {q \in Ranges(N) : Votes(N, q) <= Votes(N, r)}
    IN  {r[2] : r \in {r \in Ranges(N) : Cardinality(Below(r)) <= mid
                                         /\ mid < Cardinality(UpTo(r))}}

\* checkIfCPsNeeded, a scheduled action.  The request needs a proof to go by: an
\* empty list of proofs is indexed otherwise.
checkIfCPsNeeded(N) ==
    LET fired == [N EXCEPT !.consistencyProofsActions = @ - 1]
        wiped == [fired EXCEPT !.recvdConsistencyProofs = NoEntries,
                               !.consistencyProofsTimer = FALSE,
                               !.recvdCatchupRepliesFrm = [p \in Peers |-> <<>>]]
    IN  IF ~N.consistencyProofsTimer \/ Cardinality(NullProofs(N)) > adjustedF
        THEN {fired}
        ELSE IF _latestReliableProof(N) # {} THEN {wiped}
        ELSE IF Proofs(N) = {} THEN {[fired EXCEPT !.halted = TRUE]}
        ELSE {send(wiped, ProofRequest(Len(N.ledger), j)) : j \in MiddleEnds(N)}

-----------------------------------------------------------------------------
(* Catch-up replies *)

\* The proof in a reply leads from the tree after its last transaction to the
\* tree it was asked for; it is not looked at when that tree is reached.
\* Mutant: what comes next in number is taken.
Unverified(N, tree, r) == TRUE
verify_tree_consistency(N, tree, r) ==
    LET end == N.catchUpTill.end
    IN  /\ tree = [i \in 1..Len(tree) |-> i]
        /\ Len(tree) = end \/ (Len(tree) = r.e /\ r.till = end)

\* _getCatchupReplyForSeqNo: the first reply with n, senders taken in `order'.
With(N, p, n) == {r \in Range(N.recvdCatchupRepliesFrm[p]) : n \in r.s..r.e}
Holders(N, n) == {p \in Conns : With(N, p, n) # {}}
FirstIn(s, S) == CHOOSE i \in DOMAIN s : s[i] \in S /\ \A j \in 1..(i - 1) : s[j] \notin S

\* What waits without the transactions that the ledger has.
New(N) ==
    LET numProcessed == Cardinality({i \in DOMAIN N.receivedCatchUpReplies :
                                        N.receivedCatchUpReplies[i] <= Len(N.ledger)})
    IN  SubSeq(N.receivedCatchUpReplies, numProcessed + 1, Len(N.receivedCatchUpReplies))

\* The piece of p that is next: what waits and is in its reply, the tree it makes
\* and the node without the piece.
Piece(N, p) ==
    LET n == Len(N.ledger) + 1
        i == FirstIn(N.recvdCatchupRepliesFrm[p], With(N, p, n))
        r == N.recvdCatchupRepliesFrm[p][i]
        toBeProcessed == Cardinality({j \in 1..Smaller(Len(New(N)), r.e - r.s + 1) :
                                         New(N)[j] \in r.s..r.e})
    IN  [reply |-> r,
         tree |-> N.ledger \o SubSeq(New(N), 1, toBeProcessed),
         rest |-> [N EXCEPT !.recvdCatchupRepliesFrm[p] = RemoveAt(@, i),
                            !.receivedCatchUpReplies =
                                SubSeq(New(N), toBeProcessed + 1, Len(New(N)))]]

\* Whether what comes next has come.
NextHere(N) == New(N) # <<>> /\ Head(New(N)) = Len(N.ledger) + 1
Sender(N, order) == order[FirstIn(order, Holders(N, Len(N.ledger) + 1))]
Held(N) == NextHere(N) /\ Holders(N, Len(N.ledger) + 1) # {}
Verified(N, order) ==
    LET piece == Piece(N, Sender(N, order))
    IN  verify_tree_consistency(N, piece.tree, piece.reply)

appendPiece(N, order) ==
    LET piece == Piece(N, Sender(N, order))
    IN  IF Held(N) /\ Verified(N, order) THEN [piece.rest EXCEPT !.ledger = piece.tree] ELSE N

\* _processCatchupReplies: append the pieces that fit, one after the other; a
\* piece that does not verify is dropped and its sender blacklisted.  Each piece
\* takes something from what waits.
_processCatchupReplies(N, order) ==
    LET after[k \in 0..Len(N.receivedCatchUpReplies)] ==
            IF k = 0 THEN N ELSE appendPiece(after[k - 1], order)
        M == after[Len(N.receivedCatchUpReplies)]
    IN  IF ~NextHere(M) THEN [M EXCEPT !.receivedCatchUpReplies = New(M)]
        ELSE IF ~Held(M) THEN [M EXCEPT !.halted = TRUE]
        ELSE blacklistNode(Piece(M, Sender(M, order)).rest, Sender(M, order))

canProcessCatchupReply(N, r) == N.state = "syncing" /\ r.e > Len(N.ledger)

\* heapq.merge: each number after those that are not greater.
Insert(a, n) == InsertAt(a, Cardinality({i \in DOMAIN a : a[i] <= n}) + 1, n)
Merge(a, r) ==
    LET with[k \in 0..(r.e - r.s + 1)] == IF k = 0 THEN a ELSE Insert(with[k - 1], r.s + k - 1)
    IN  with[r.e - r.s + 1]

processCatchupRep(N, p, r, order) ==
    LET M == _processCatchupReplies(
                [N EXCEPT !.recvdCatchupRepliesFrm[p] = Append(@, r),
                          !.receivedCatchUpReplies = Merge(@, r)],
                order)
    IN  IF ~canProcessCatchupReply(N, r) THEN N
        ELSE IF M.catchUpTill.end = Len(M.ledger) /\ ~M.halted
        THEN catchupCompleted([M EXCEPT !.catchUpTill = NoEntry], M.catchUpTill.ppSeqNo)
        ELSE M

\* The requests of checkIfTxnsNeeded: the gaps before each reply that waits, and
\* what is missing after the last one.
MissingRanges(N, batchSize) ==
    LET end == N.catchUpTill.end
        own == Len(N.ledger)
        waits == N.receivedCatchUpReplies
        Gap(acc, n) ==
            IF n - acc.last = 1 THEN [acc EXCEPT !.last = n]
            ELSE [last |-> n, left |-> acc.left - (n - acc.last - 1),
                  reqs |-> acc.reqs \o addReqsForMissing(acc.last + 1, n - 1, batchSize)]
        before[k \in 0..Len(waits)] ==
            IF k = 0 THEN [last |-> own, reqs |-> <<>>, left |-> end - own - Len(waits)]
            ELSE Gap(before[k - 1], waits[k])
        gaps == before[Len(waits)]
    IN  gaps.reqs \o (IF gaps.left > 0 /\ gaps.last # end
                      THEN addReqsForMissing(gaps.last + 1, end, batchSize) ELSE <<>>)

\* checkIfTxnsNeeded, a scheduled action.  With more replies than transactions
\* missing the size of a piece is not positive: a division by zero, or no
\* request and an action that schedules itself at once for ever.
checkIfTxnsNeeded(N, eligibleNodes) ==
    LET total == N.catchUpTill.end - Len(N.ledger) - Len(N.receivedCatchUpReplies)
        fired == [N EXCEPT !.catchupReplyActions = @ - 1]
    IN  IF ~N.catchupReplyTimer THEN fired
        ELSE IF total = 0 THEN [fired EXCEPT !.catchupReplyTimer = FALSE]
        ELSE IF eligibleNodes = <<>> THEN fired
        ELSE IF total < 0 THEN [fired EXCEPT !.halted = TRUE]
        ELSE sendRequests(N, MissingRanges(N, Ceil(total, Len(eligibleNodes))),
                          N.catchUpTill.end, eligibleNodes)

-----------------------------------------------------------------------------
(* Peers *)

\* ppSeqNoForTxnSeqNo.
BatchOf(p, n) == IF p \in Restarted THEN 0 ELSE n

_buildConsistencyProof(p, i, j) ==
    IF i <= j /\ j <= size[p] THEN <<Proof(i, j, BatchOf(p, j))>> ELSE <<>>

\* processCatchupReq.  A peer that is behind `till' cannot make the proof.
processCatchupReq(p, m) ==
    IF m.s <= m.e /\ m.s <= size[p] /\ m.till <= size[p]
    THEN <<Reply(m.s, Smaller(m.e, size[p]), m.till)>> ELSE <<>>

Answer(p, m) ==
    CASE m.type = "LedgerStatus" ->
             IF m.size < size[p] THEN _buildConsistencyProof(p, m.size, size[p])
             ELSE IF m.size > size[p] THEN <<Status(size[p])>> ELSE <<>>
      [] m.type = "ConsProofRequest" -> _buildConsistencyProof(p, m.start, m.end)
      [] m.type = "CatchupReq" -> processCatchupReq(p, m)

PeerAnswers(p) ==
    /\ node.out[p] # <<>>
    /\ node' = [node EXCEPT !.out[p] = Tail(@)]
    /\ toNode' = [toNode EXCEPT ![p] = @ \o Answer(p, Head(node.out[p]))]
    /\ UNCHANGED <<size, reconnects, overtakes>>

PeerExecutes(p) ==
    /\ p \in Ahead /\ size[p] < MaxSize
    /\ size' = [size EXCEPT ![p] = @ + 1]
    /\ UNCHANGED <<node, toNode, reconnects, overtakes>>

\* A connection drops with what is on it; both sides send their status again,
\* the node only when it is not in the middle of something.
Reconnect(p) ==
    /\ reconnects < MaxReconnects
    /\ reconnects' = reconnects + 1
    /\ toNode' = [toNode EXCEPT ![p] = <<Status(size[p])>>]
    /\ node' = [node EXCEPT !.out[p] =
                   IF node.mode \in {"discovered", "participating"}
                   THEN <<Status(Len(node.ledger))>> ELSE <<>>]
    /\ UNCHANGED <<size, overtakes>>

-----------------------------------------------------------------------------
(* The node *)

\* Every connection has just been made, and whoever may sends its status.
Init ==
    /\ \E mode \in StartModes :
         node = [ledger |-> [i \in 1..OwnSize |-> i], mode |-> mode,
                 state |-> IF mode = "starting" THEN "not_synced" ELSE "synced",
                 canSync |-> FALSE,
                 stashedLedgerStatuses |-> <<>>, ledgerStatusOk |-> {},
                 recvdConsistencyProofs |-> NoEntries, catchUpTill |-> NoEntry,
                 receivedCatchUpReplies |-> <<>>,
                 recvdCatchupRepliesFrm |-> [p \in Peers |-> <<>>],
                 consistencyProofsTimer |-> FALSE, catchupReplyTimer |-> FALSE,
                 consistencyProofsActions |-> 0, catchupReplyActions |-> 0,
                 lastCaughtUpPpSeqNo |-> -1, blacklisted |-> {}, halted |-> FALSE,
                 out |-> [p \in Peers |-> IF mode = "starting" \/ p \in Down THEN <<>>
                                          ELSE <<Status(OwnSize)>>]]
    /\ size = [p \in Peers |-> PoolSize]
    /\ toNode = [p \in Peers |-> IF p \in Conns THEN <<Status(PoolSize)>> ELSE <<>>]
    /\ reconnects = (IF node.mode = "starting" THEN 0 ELSE 1) /\ overtakes = 0

Orders == SetToSeqs(Conns)

StartSync ==
    /\ node.mode = "starting"
    /\ node' = start_domain_ledger_sync(node)
    /\ UNCHANGED <<size, toNode, reconnects, overtakes>>

\* A message of a peer that is not blacklisted.
Deliverable(p) == ~node.halted /\ toNode[p] # <<>>
Receive(p) ==
    /\ Deliverable(p)
    /\ toNode' = [toNode EXCEPT ![p] = Tail(@)]
    /\ LET m == Head(toNode[p])
       IN  \/ /\ isNodeBlacklisted(node, p)
              /\ UNCHANGED node
           \/ /\ ~isNodeBlacklisted(node, p) /\ m.type = "LedgerStatus"
              /\ node' = processLedgerStatus(node, p, m.size)
           \/ /\ ~isNodeBlacklisted(node, p) /\ m.type = "ConsistencyProof"
              /\ \E order \in Orders : node' \in processConsistencyProof(node, p, m, order)
           \/ /\ ~isNodeBlacklisted(node, p) /\ m.type = "CatchupRep"
              /\ \E order \in Orders : node' = processCatchupRep(node, p, m, order)
    /\ UNCHANGED <<size, reconnects, overtakes>>

\* A scheduled action is due, with or without messages still on their way.
Waits == \E p \in Peers : toNode[p] # <<>> \/ node.out[p] # <<>>
Due(actions) == ~node.halted /\ actions > 0 /\ (Waits => overtakes < MaxOvertakes)
TakesTime ==
    /\ overtakes' = IF Waits THEN overtakes + 1 ELSE overtakes
    /\ UNCHANGED <<size, toNode, reconnects>>

ProofsTimeout ==
    /\ Due(node.consistencyProofsActions)
    /\ node' \in checkIfCPsNeeded(node)
    /\ TakesTime

RepliesTimeout ==
    /\ Due(node.catchupReplyActions)
    /\ \E eligibleNodes \in SetToSeqs(Conns \ node.blacklisted) :
          node' = checkIfTxnsNeeded(node, eligibleNodes)
    /\ TakesTime

\* The node executes the next transaction of the pool together with the others,
\* one that is ordered while it is connected.
Execute ==
    /\ ~node.halted /\ node.mode = "participating" /\ Len(node.ledger) >= PoolSize
    /\ \E p \in Conns : size[p] > Len(node.ledger)
    /\ node' = [node EXCEPT !.ledger = Append(@, Len(@) + 1)]
    /\ UNCHANGED <<size, toNode, reconnects, overtakes>>

Next ==
    \/ StartSync
    \/ \E p \in Conns : Receive(p) \/ PeerAnswers(p) \/ PeerExecutes(p) \/ Reconnect(p)
    \/ ProofsTimeout
    \/ RepliesTimeout
    \/ Execute

Spec == Init /\ [][Next]_vars

\* Connections deliver, peers answer, and what is scheduled becomes due.  The
\* three conditions with a guard are weak fairness of actions that the guard
\* enables, written out.
FairSpec ==
    /\ Spec
    /\ WF_vars(StartSync)
    /\ \A p \in Conns :
          /\ []<>~Deliverable(p) \/ []<><<Receive(p)>>_vars
          /\ WF_vars(PeerAnswers(p))
    /\ []<>~Due(node.consistencyProofsActions) \/ []<><<ProofsTimeout>>_vars
    /\ []<>~Due(node.catchupReplyActions) \/ []<><<RepliesTimeout>>_vars

-----------------------------------------------------------------------------
(* Properties *)

\* Replies come in any order, twice, in pieces of different sizes and for an
\* earlier target; the ledger is nevertheless always a prefix of the pool's, in
\* order and without a repetition.
LedgerVerified == node.ledger = [i \in 1..Len(node.ledger) |-> i]

\* A node that ends a catch-up, be it by statuses, by null proofs or by
\* replies, has at least what the pool had when it got its connections.
CaughtUpToPool ==
    [][node.state # "synced" /\ node'.state = "synced" => Len(node'.ledger) >= PoolSize]_vars

\* A node that starts, or comes back from a partition, gets what the pool has
\* although connections drop, as long as no timeout overtakes an answer.
EventuallyCaughtUp == <>(Len(node.ledger) >= PoolSize \/ overtakes > 0)

=============================================================================
