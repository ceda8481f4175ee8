----------------------------- MODULE Execution -----------------------------
(***************************************************************************)
(* How one node applies, commits and reverts the batches of its master     *)
(* replica on a ledger (plenum/common/ledger.py, the master's part of      *)
(* plenum/server/replica.py, plenum/server/req_handler.py and the Ordered  *)
(* messages in plenum/server/node.py), while the mode of the node changes. *)
(*                                                                         *)
(* The node is a backup.  The primary proposes the batches 1, 2, ..; the   *)
(* i-th valid request of batch n becomes the transaction <<n, i>>.  A      *)
(* merkle tree is the sequence of its leaves, so that equal roots mean     *)
(* equal leaves.  Consensus on the batches, and which batches the other    *)
(* nodes have executed, is the environment; the state trie is left out.    *)
(***************************************************************************)
EXTENDS Integers, Sequences, FiniteSets

CONSTANTS Size,          \* Size[n]: valid requests of batch n (pp.discarded)
          StartModes,    \* FALSE: just started, TRUE: started with nothing to catch up
          RefusedSizes,  \* valid requests of batches that are not in order
          MaxRefused,    \* bound: such batches
          MaxCatchups    \* bound: times the node catches up

MaxSeq == Len(Size)
SeqNos == 1..MaxSeq

ASSUME ExecutionAssumption ==
    /\ Size \in Seq(Nat)
    /\ StartModes \subseteq BOOLEAN
    /\ RefusedSizes \subseteq Nat
    /\ MaxRefused \in Nat /\ MaxCatchups \in Nat

\* The transactions of batch n, and the ledger after batch n.
Txns(n) == [i \in 1..Size[n] |-> <<n, i>>]
Agreed[n \in 0..MaxSeq] == IF n = 0 THEN <<>> ELSE Agreed[n - 1] \o Txns(n)

\* Instead of a tree: a leaf that is no transaction.
NoTree == << <<>> >>

VARIABLES
    ledger,                   \* the Ledger object, a record
    failed,                   \* the assertion in RequestHandler.commit failed
    prePrepares,              \* batches held by the master replica
    received,                 \* the last PRE-PREPARE that came
    ordered,                  \* the replica's OrderedSet
    stashingWhileCatchingUp,  \* batches taken unseen while syncing
    outBox,                   \* Ordered messages of the replica
    stashedOrderedReqs,       \* Ordered messages the node has put aside
    reqsFromCatchupReplies,   \* transactions that came by catch-up
    lastCaughtUpPpSeqNo,
    participating,            \* the node's mode
    suspected,                \* batches the node raised a suspicion on
    pool,                     \* batches the other nodes have executed
    refused, catchups         \* what the bounds have been spent on

replicaVars == <<prePrepares, received, ordered, stashingWhileCatchingUp, outBox>>
nodeVars == <<stashedOrderedReqs, reqsFromCatchupReplies, lastCaughtUpPpSeqNo,
              participating, suspected>>
boundVars == <<pool, refused, catchups>>
vars == <<ledger, failed, replicaVars, nodeVars, boundVars>>

Elements(s) == {s[i] : i \in DOMAIN s}

-----------------------------------------------------------------------------
(* common/ledger.py *)

Tree(L) == IF L.tree = NoTree THEN L.committed ELSE L.tree

appendTxns(L, txns) ==
    [L EXCEPT !.tree = Tree(L) \o txns, !.uncommitted = @ \o txns]

\* uncommittedTxns[:count] and uncommittedTxns[count:].
Front(s, count) == SubSeq(s, 1, IF count < Len(s) THEN count ELSE Len(s))
Rest(s, count) == SubSeq(s, count + 1, Len(s))

\* Mutant: the uncommitted tree is dropped with every commit.
CommitDropsTree(L, count) ==
    [committed |-> L.committed \o Front(L.uncommitted, count),
     uncommitted |-> Rest(L.uncommitted, count), tree |-> NoTree]
commitTxns(L, count) ==
    LET rest == Rest(L.uncommitted, count)
    IN  [committed |-> L.committed \o Front(L.uncommitted, count),
         uncommitted |-> rest,
         tree |-> IF rest = <<>> THEN NoTree ELSE L.tree]

\* uncommittedTxns[:-count]: nothing is left when count is 0.
discardTxns(L, count) ==
    LET left == IF count = 0 THEN <<>>
                ELSE SubSeq(L.uncommitted, 1, Len(L.uncommitted) - count)
    IN  [L EXCEPT !.uncommitted = left,
                  !.tree = IF left = <<>> THEN NoTree ELSE L.committed \o left]

\* RequestHandler.commit for the Ordered batch n; the root is compared after
\* the transactions have been written.
RootMatches(L, n) == L.committed = Agreed[n]

commit(n, L, ok) ==
    LET after == commitTxns(L, Size[n])
    IN  IF ok THEN [ledger |-> after, ok |-> RootMatches(after, n)]
              ELSE [ledger |-> L, ok |-> FALSE]

-----------------------------------------------------------------------------
(* The master replica *)

MaxOf(S) == CHOOSE n \in S : \A m \in S : m <= n
LastSeqNo == MaxOf({0} \cup prePrepares \cup Elements(ordered))

\* processPrePrepare at a participating node: the batch is applied, and taken
\* back if the root is not the one in the PRE-PREPARE.
validatePrePrepare(n) ==
    LET applied == appendTxns(ledger, Txns(n))
    IN  /\ participating
        /\ n = LastSeqNo + 1 /\ n \in SeqNos /\ n \notin suspected
        /\ received' = IF n > received THEN n ELSE received
        /\ IF Tree(applied) = Agreed[n]
           THEN /\ ledger' = applied
                /\ prePrepares' = prePrepares \cup {n}
                /\ UNCHANGED suspected
           ELSE /\ ledger' = discardTxns(applied, Size[n])
                /\ suspected' = suspected \cup {n}
                /\ UNCHANGED prePrepares
        /\ UNCHANGED <<failed, ordered, stashingWhileCatchingUp, outBox,
                       stashedOrderedReqs, reqsFromCatchupReplies,
                       lastCaughtUpPpSeqNo, participating, boundVars>>

\* The same for a PRE-PREPARE that does not stand up: `count' of its requests
\* were applied and are reverted.
revert(count) ==
    /\ participating /\ refused < MaxRefused
    /\ ledger' = discardTxns(appendTxns(ledger, [i \in 1..count |-> <<0, i>>]), count)
    /\ refused' = refused + 1
    /\ UNCHANGED <<failed, replicaVars, nodeVars, pool, catchups>>

\* processPrePrepare while syncing: taken unseen.
stashPrePrepare(n) ==
    /\ ~participating
    /\ n \in SeqNos \ prePrepares
    /\ received = 0 \/ n = received + 1
    /\ received' = n
    /\ prePrepares' = prePrepares \cup {n}
    /\ stashingWhileCatchingUp' = stashingWhileCatchingUp \cup {n}
    /\ UNCHANGED <<ledger, failed, ordered, outBox, nodeVars, boundVars>>

all_prev_ordered(n) ==
    \/ ordered # <<>> /\ ordered[Len(ordered)] = n - 1
    \/ \A p \in prePrepares : p < n => p \in Elements(ordered)

\* doOrder, when the COMMITs are there: a batch taken unseen is applied now if
\* the node participates again.
doOrder(n) ==
    /\ n \in prePrepares \ Elements(ordered)
    /\ all_prev_ordered(n)
    /\ ordered' = Append(ordered, n)
    /\ ledger' = IF n \in stashingWhileCatchingUp /\ participating
                 THEN appendTxns(ledger, Txns(n)) ELSE ledger
    /\ stashingWhileCatchingUp' = stashingWhileCatchingUp \ {n}
    /\ outBox' = Append(outBox, n)
    /\ UNCHANGED <<failed, prePrepares, received, nodeVars, boundVars>>

-----------------------------------------------------------------------------
(* The node *)

gotInCatchupReplies(n) == Elements(Txns(n)) \cap reqsFromCatchupReplies # {}

\* serviceReplicaOutBox for the oldest Ordered message: executed, or put aside.
serviceReplicaOutBox ==
    /\ outBox # <<>>
    /\ outBox' = Tail(outBox)
    /\ IF participating /\ ~gotInCatchupReplies(Head(outBox))
       THEN LET r == commit(Head(outBox), ledger, TRUE)
            IN  /\ ledger' = r.ledger /\ failed' = ~r.ok
                /\ UNCHANGED stashedOrderedReqs
       ELSE /\ stashedOrderedReqs' = Append(stashedOrderedReqs, Head(outBox))
            /\ UNCHANGED <<ledger, failed>>
    /\ UNCHANGED <<prePrepares, received, ordered, stashingWhileCatchingUp,
                   reqsFromCatchupReplies, lastCaughtUpPpSeqNo, participating,
                   suspected, boundVars>>

\* preDomainLedgerCatchUp: the node learns that the others are ahead.
preDomainLedgerCatchUp ==
    /\ participating /\ catchups < MaxCatchups
    /\ Len(Agreed[pool]) > Len(ledger.committed)
    /\ participating' = FALSE
    /\ catchups' = catchups + 1
    /\ UNCHANGED <<ledger, failed, replicaVars, stashedOrderedReqs,
                   reqsFromCatchupReplies, lastCaughtUpPpSeqNo, suspected, pool,
                   refused>>

\* Mutant: the batch after the caught up ones is left out too.
LeaveOutNext(n, state, last, got) ==
    IF n <= last + 1 \/ Elements(Txns(n)) \cap got # {} THEN state
    ELSE commit(n, IF state.ok THEN appendTxns(state.ledger, Txns(n)) ELSE state.ledger,
                state.ok)

\* One Ordered message that was put aside: left out if its batch, or one of its
\* transactions, came by catch-up, else applied and committed.
processStashed(n, state, last, got) ==
    IF n <= last \/ Elements(Txns(n)) \cap got # {} THEN state
    ELSE commit(n, IF state.ok THEN appendTxns(state.ledger, Txns(n)) ELSE state.ledger,
                state.ok)

\* processStashedOrderedReqs on ledger L, oldest message first.
processStashedOrderedReqs(L, last, got) ==
    LET done[i \in 0..Len(stashedOrderedReqs)] ==
            IF i = 0 THEN [ledger |-> L, ok |-> TRUE]
            ELSE processStashed(stashedOrderedReqs[i], done[i - 1], last, got)
    IN  done[Len(stashedOrderedReqs)]

\* Mutant: the number of the last transaction is kept, not that of its batch.
LastTxnSeqNo(k, reported) == Len(Agreed[k])

\* The largest batch number the catch-ups ended with.
catchupCompleted(k, reported) ==
    IF reported > lastCaughtUpPpSeqNo THEN reported ELSE lastCaughtUpPpSeqNo

\* The end of a catch-up, allLedgersCaughtUp: the ledger got the transactions of
\* the batches up to k (k = 0: it was not behind).  The nodes asked report k, or
\* 0 if they came by that batch in a catch-up of their own.
allLedgersCaughtUp(k, reported) ==
    LET caught == {t \in Elements(Agreed[k]) : t \notin Elements(ledger.committed)}
        got == reqsFromCatchupReplies \cup caught
        last == IF k > 0 THEN catchupCompleted(k, reported) ELSE lastCaughtUpPpSeqNo
        L == IF caught = {} THEN ledger ELSE [ledger EXCEPT !.committed = Agreed[k]]
        r == processStashedOrderedReqs(L, last, got)
    IN  /\ ~participating
        /\ k <= pool /\ (k > 0 => caught # {} /\ Size[k] > 0)
        /\ reqsFromCatchupReplies' = got
        /\ lastCaughtUpPpSeqNo' = last
        /\ ordered' = IF last > 0 /\ last \notin Elements(ordered)
                      THEN Append(ordered, last) ELSE ordered
        /\ participating' = TRUE
        /\ ledger' = r.ledger /\ failed' = ~r.ok
        /\ stashedOrderedReqs' = <<>>
        /\ UNCHANGED <<prePrepares, received, stashingWhileCatchingUp, outBox,
                       suspected, boundVars>>

\* The other nodes execute a batch.
PoolExecutes ==
    /\ pool < MaxSeq
    /\ pool' = pool + 1
    /\ UNCHANGED <<ledger, failed, replicaVars, nodeVars, refused, catchups>>

Init ==
    /\ ledger = [committed |-> <<>>, uncommitted |-> <<>>, tree |-> NoTree]
    /\ failed = FALSE
    /\ prePrepares = {} /\ received = 0 /\ ordered = <<>>
    /\ stashingWhileCatchingUp = {} /\ outBox = <<>>
    /\ stashedOrderedReqs = <<>> /\ reqsFromCatchupReplies = {}
    /\ lastCaughtUpPpSeqNo = -1
    /\ participating \in StartModes
    /\ catchups = IF participating THEN 0 ELSE 1
    /\ suspected = {}
    /\ pool = 0 /\ refused = 0

Replica ==
    \E n \in SeqNos : validatePrePrepare(n) \/ stashPrePrepare(n) \/ doOrder(n)

Refuse == \E count \in RefusedSizes : revert(count)

CatchUp ==
    \/ preDomainLedgerCatchUp
    \/ \E k \in 0..MaxSeq : \E reported \in {0, k} : allLedgersCaughtUp(k, reported)

Next ==
    /\ ~failed
    /\ Replica \/ Refuse \/ serviceReplicaOutBox \/ CatchUp \/ PoolExecutes

Spec == Init /\ [][Next]_vars

-----------------------------------------------------------------------------
(* Properties *)

Txn == (0..MaxSeq) \X Nat
Ledger == [committed : Seq(Txn), uncommitted : Seq(Txn), tree : Seq(Txn) \cup {NoTree}]

\* The fields of a node and its ledger hold what their comments say.
TypeOK ==
    /\ ledger \in Ledger
    /\ failed \in BOOLEAN /\ participating \in BOOLEAN
    /\ prePrepares \subseteq SeqNos /\ stashingWhileCatchingUp \subseteq SeqNos
    /\ suspected \subseteq SeqNos
    /\ ordered \in Seq(SeqNos) /\ outBox \in Seq(SeqNos)
    /\ stashedOrderedReqs \in Seq(SeqNos)
    /\ reqsFromCatchupReplies \subseteq Txn
    /\ lastCaughtUpPpSeqNo \in -1..MaxSeq
    /\ {received, pool} \subseteq 0..MaxSeq /\ {refused, catchups} \subseteq Nat

\* As long as the node has always participated, what it has applied and not
\* committed is exactly the batches it holds and has not executed, in the
\* agreed order, and its uncommitted root is the one the next PRE-PREPARE is
\* compared with: refused batches in between leave no trace.
UncommittedTracksBatches ==
    catchups = 0 =>
        /\ ledger.committed \o ledger.uncommitted = Agreed[LastSeqNo]
        /\ Tree(ledger) = Agreed[LastSeqNo]
        /\ suspected = {} /\ ~failed

\* However the mode changes between a PRE-PREPARE, its ordering and its
\* execution, a batch that the replica has ordered is written, or on its way to
\* be: in the replica's outbox or put aside.  It is left out, while it waits or
\* when it is taken up again, only if the catch-up brought all of it.
Written(n) == Elements(Txns(n)) \subseteq Elements(ledger.committed)
OrderedNotLost ==
    ~failed => \A n \in Elements(ordered) :
        Written(n) \/ n \in Elements(outBox) \/ n \in Elements(stashedOrderedReqs)

=============================================================================
