--------------------------- MODULE CatchupProofs ---------------------------
(***************************************************************************)
(* Proofs about Catchup: first how its requests divide what is missing,    *)
(* for every range, every number of nodes and every size of a piece; then  *)
(* what the node ends up with, for every pool, whoever is down, behind or  *)
(* ahead, and however often connections drop and timers run out.           *)
(***************************************************************************)
EXTENDS Catchup, DataInduction, FiniteSetTheorems, SequenceTheorems

-----------------------------------------------------------------------------
(* Division by a positive number *)

LEMMA Division ==
    ASSUME NEW a \in Int, NEW b \in Nat, b > 0
    PROVE  /\ a \div b \in Int
           /\ (a \div b) * b <= a
           /\ a < (a \div b) * b + b
  BY Z3

LEMMA Cancel ==
    ASSUME NEW i \in Int, NEW j \in Int, NEW b \in Nat, b > 0, i * b < j * b
    PROVE  i < j
<1>. SUFFICES ASSUME i >= j PROVE FALSE
  OBVIOUS
<1>1. (i - j) * b >= 0
  BY Z3
<1>2. (i - j) * b = i * b - j * b
  BY Z3
<1>. QED BY <1>1, <1>2

\* The number of pieces is what math.ceil says.
LEMMA CeilBounds ==
    ASSUME NEW a \in Int, NEW b \in Nat, b > 0
    PROVE  /\ Ceil(a, b) \in Int
           /\ Ceil(a, b) * b >= a
           /\ (Ceil(a, b) - 1) * b < a
<1>. DEFINE q == (-a) \div b
<1>1. q \in Int /\ q * b <= -a /\ -a < q * b + b
  BY Division
<1>2. Ceil(a, b) = -q
  BY DEF Ceil
<1>. HIDE DEF q
<1>3. (-q) * b = -(q * b) /\ (-q - 1) * b = -(q * b) - b
  BY <1>1, Z3
<1>. QED BY <1>1, <1>2, <1>3

-----------------------------------------------------------------------------
(* Requests *)

Covers(r, n) == r.s <= n /\ n <= r.e

\* addReqsForMissing asks for every missing transaction in one request and in
\* one only, so that no reply repeats another's transactions.
THEOREM AskedOnce ==
    ASSUME NEW frm \in Int, NEW to \in Int, NEW batchSize \in Nat, batchSize > 0,
           NEW n \in frm..to
    PROVE  LET reqs == addReqsForMissing(frm, to, batchSize)
           IN  \E i \in DOMAIN reqs :
                  /\ Covers(reqs[i], n)
                  /\ \A j \in DOMAIN reqs : Covers(reqs[j], n) => j = i
<1>. DEFINE reqs == addReqsForMissing(frm, to, batchSize)
            count == Ceil(to - frm + 1, batchSize)
            k == (n - frm) \div batchSize
<1>1. /\ count \in Int
      /\ count * batchSize >= to - frm + 1
  BY CeilBounds
<1>2. k \in Int /\ k * batchSize <= n - frm /\ n - frm < k * batchSize + batchSize
  BY Division
<1>3. /\ DOMAIN reqs = 1..count
      /\ \A i \in 1..count : /\ reqs[i].s = frm + (i - 1) * batchSize
                             /\ reqs[i].e = Smaller(to, frm + i * batchSize - 1)
  BY DEF addReqsForMissing
<1>. HIDE DEF reqs, count, k
<1>4. k + 1 \in 1..count
  <2>1. k < count
    BY <1>1, <1>2, Cancel
  <2>2. (k + 1) * batchSize = k * batchSize + batchSize /\ 0 * batchSize = 0
    BY <1>2, Z3
  <2>3. 0 < k + 1
    BY <1>2, <2>2, Cancel
  <2>. QED BY <1>1, <1>2, <2>1, <2>3
<1>5. \A j \in 1..count : Covers(reqs[j], n) <=>
          (j - 1) * batchSize <= n - frm /\ n - frm < j * batchSize
  <2>. SUFFICES ASSUME NEW j \in 1..count
                PROVE  Covers(reqs[j], n) <=>
                          (j - 1) * batchSize <= n - frm /\ n - frm < j * batchSize
    OBVIOUS
  <2>1. j * batchSize \in Int /\ (j - 1) * batchSize \in Int
    BY <1>1
  <2>. QED BY <1>3, <2>1 DEF Covers, Smaller
<1>6. Covers(reqs[k + 1], n)
  <2>1. (k + 1) * batchSize = k * batchSize + batchSize /\ (k + 1) - 1 = k
    BY <1>2, Z3
  <2>. QED BY <1>2, <1>4, <1>5, <2>1
<1>7. ASSUME NEW j \in 1..count, Covers(reqs[j], n)
      PROVE  j = k + 1
  <2>1. (j - 1) * batchSize <= n - frm /\ n - frm < j * batchSize
    BY <1>5, <1>7
  <2>2. (k + 1) * batchSize = k * batchSize + batchSize
    BY <1>2, Z3
  <2>3. j \in Int /\ (j - 1) * batchSize < (k + 1) * batchSize /\ k * batchSize < j * batchSize
    BY <1>1, <1>2, <2>1, <2>2
  <2>4. j - 1 < k + 1
    BY <1>2, <2>3, Cancel
  <2>5. k < j
    BY <1>2, <2>3, Cancel
  <2>. QED BY <1>2, <2>3, <2>4, <2>5
<1>. QED BY <1>3, <1>4, <1>6, <1>7 DEF reqs

\* addReqsForMissing asks for nothing else, and never for an empty range, which
\* processCatchupReq of the peer would refuse.
THEOREM AskedIsMissing ==
    ASSUME NEW frm \in Int, NEW to \in Int, NEW batchSize \in Nat, batchSize > 0
    PROVE  LET reqs == addReqsForMissing(frm, to, batchSize)
           IN  \A i \in DOMAIN reqs : /\ frm <= reqs[i].s /\ reqs[i].s <= reqs[i].e
                                      /\ reqs[i].e <= to
<1>. DEFINE reqs == addReqsForMissing(frm, to, batchSize)
            count == Ceil(to - frm + 1, batchSize)
<1>1. count \in Int /\ (count - 1) * batchSize < to - frm + 1
  BY CeilBounds
<1>2. /\ DOMAIN reqs = 1..count
      /\ \A i \in 1..count : /\ reqs[i].s = frm + (i - 1) * batchSize
                             /\ reqs[i].e = Smaller(to, frm + i * batchSize - 1)
  BY DEF addReqsForMissing
<1>. HIDE DEF reqs, count
<1>3. ASSUME NEW i \in 1..count
      PROVE  frm <= reqs[i].s /\ reqs[i].s <= reqs[i].e /\ reqs[i].e <= to
  <2>1. /\ (i - 1) * batchSize \in Int /\ 0 <= (i - 1) * batchSize
        /\ i * batchSize = (i - 1) * batchSize + batchSize
    BY <1>1, Z3
  <2>2. (i - 1) * batchSize <= (count - 1) * batchSize
    <3>1. i \in Int /\ i <= count
      BY <1>1
    <3>2. (count - i) * batchSize >= 0
      BY <1>1, <3>1, Z3
    <3>3. (count - 1) * batchSize - (i - 1) * batchSize = (count - i) * batchSize
      BY <1>1, <3>1, Z3
    <3>4. (count - 1) * batchSize \in Int
      BY <1>1
    <3>. QED BY <2>1, <3>2, <3>3, <3>4
  <2>3. (count - 1) * batchSize \in Int
    BY <1>1
  <2>4. \A x, y \in Int : 0 <= x /\ x <= y /\ y < to - frm + 1 =>
           /\ frm <= frm + x /\ Smaller(to, frm + (x + batchSize) - 1) <= to
           /\ frm + x <= Smaller(to, frm + (x + batchSize) - 1)
    BY DEF Smaller
  <2>5. /\ reqs[i].s = frm + (i - 1) * batchSize
        /\ reqs[i].e = Smaller(to, frm + ((i - 1) * batchSize + batchSize) - 1)
    BY <1>2, <2>1
  <2>. QED BY <1>1, <2>1, <2>2, <2>3, <2>4, <2>5
<1>. QED BY <1>2, <1>3 DEF reqs

\* getCatchupReqs makes no more requests than there are connected nodes: the
\* zip of requests and connections in startCatchUpProcess drops none.
THEOREM OneRequestPerNode ==
    ASSUME NEW start \in Int, NEW end \in Int, start <= end,
           NEW nodeCount \in Nat, nodeCount > 0
    PROVE  LET reqs == getCatchupReqs(start, end, nodeCount)
           IN  \E count \in Nat : DOMAIN reqs = 1..count /\ count <= nodeCount
<1>1. CASE start = end
  <2>1. DOMAIN getCatchupReqs(start, end, nodeCount) = 1..1
    BY <1>1 DEF getCatchupReqs
  <2>. QED BY <2>1
<1>2. CASE start < end
  <2>. DEFINE piece == Ceil(end - start, nodeCount)
              count == Ceil(end - start, piece)
  <2>1. piece \in Int /\ piece * nodeCount >= end - start
    BY <1>2, CeilBounds
  <2>2. piece \in Nat /\ piece > 0
    <3>1. 0 * nodeCount = 0 /\ piece * nodeCount \in Int
      BY <2>1
    <3>2. 0 * nodeCount < piece * nodeCount
      BY <1>2, <2>1, <3>1
    <3>. HIDE DEF piece
    <3>3. 0 < piece
      BY <2>1, <3>2, Cancel
    <3>. QED BY <2>1, <3>3
  <2>. HIDE DEF piece
  <2>3. /\ count \in Int /\ count * piece >= end - start
        /\ (count - 1) * piece < end - start
    BY <2>2, CeilBounds
  <2>4. DOMAIN getCatchupReqs(start, end, nodeCount) = 1..count
    <3>1. end - (start + 1) + 1 = end - start
      OBVIOUS
    <3>. QED BY <1>2, <3>1 DEF getCatchupReqs, addReqsForMissing, piece
  <2>. HIDE DEF count
  <2>5. 0 < count
    <3>1. 0 * piece = 0 /\ count * piece \in Int
      BY <2>2, <2>3
    <3>2. 0 * piece < count * piece
      BY <1>2, <2>3, <3>1
    <3>. QED BY <2>2, <2>3, <3>2, Cancel
  <2>6. count - 1 < nodeCount
    <3>1. nodeCount * piece = piece * nodeCount /\ nodeCount * piece \in Int
          /\ (count - 1) * piece \in Int
      BY <2>2, <2>3, Z3
    <3>2. (count - 1) * piece < nodeCount * piece
      BY <2>1, <2>3, <3>1
    <3>. QED BY <2>2, <2>3, <3>2, Cancel
  <2>. QED BY <2>3, <2>4, <2>5, <2>6
<1>. QED BY <1>1, <1>2

-----------------------------------------------------------------------------
(* What holds of the node and of the messages                              *)

\* The ledgers of peers: the pool's when the node got its connections, or later.
Sizes == {n \in Nat : n >= PoolSize}

ProofMsg == {m \in [type : {"ConsistencyProof"}, start : Nat, end : Sizes, ppSeqNo : Nat] :
                m.start <= m.end}
ReplyMsg == {m \in [type : {"CatchupRep"}, s : Int, e : Int, till : Int] : m.s <= m.e}
PeerMsg == [type : {"LedgerStatus"}, size : Sizes] \cup ProofMsg \cup ReplyMsg

RequestMsg == [type : {"CatchupReq"}, s : Int, e : Int, till : Int]
NodeMsg == [type : {"LedgerStatus"}, size : Nat] \cup RequestMsg
           \cup [type : {"ConsProofRequest"}, start : Nat, end : Sizes]

\* heapq keeps the numbers that wait in order; some may be there twice.
Queues == {q \in Seq(Int) : \A i, j \in 1..Len(q) : i <= j => q[i] <= q[j]}

NodeState ==
    [ledger : Seq(Int), mode : {"starting", "discovered", "syncing", "participating"},
     state : {"not_synced", "syncing", "synced"}, canSync : BOOLEAN,
     stashedLedgerStatuses : Seq(Peers \X Sizes), ledgerStatusOk : SUBSET Peers,
     recvdConsistencyProofs : [Peers -> {NoEntry, NullProof} \cup ProofMsg],
     catchUpTill : {NoEntry} \cup ProofMsg, receivedCatchUpReplies : Queues,
     recvdCatchupRepliesFrm : [Peers -> Seq(ReplyMsg)],
     consistencyProofsTimer : BOOLEAN, catchupReplyTimer : BOOLEAN,
     consistencyProofsActions : Int, catchupReplyActions : Int,
     lastCaughtUpPpSeqNo : Int, blacklisted : SUBSET Peers, halted : BOOLEAN,
     out : [Peers -> Seq(NodeMsg)]]

\* The ledger has the pool's transactions in order, who is told to be up to date
\* is, and a catch-up in progress has a target.
Good(N) ==
    /\ N \in NodeState
    /\ N.ledger = [i \in 1..Len(N.ledger) |-> i]
    /\ NullProofs(N) # {} => Len(N.ledger) >= PoolSize
    /\ N.state = "syncing" \/ N.catchupReplyTimer => N.catchUpTill \in ProofMsg

CatchupInv ==
    /\ Good(node)
    /\ size \in [Peers -> Sizes]
    /\ toNode \in [Peers -> Seq(PeerMsg)]

\* One call ends a catch-up only with what the pool had.
Ends(N, M) == N.state # "synced" /\ M.state = "synced" => Len(M.ledger) >= PoolSize

-----------------------------------------------------------------------------
(* Constants and orders                                                    *)

LEMMA PoolFacts ==
    /\ PoolSize \in Nat /\ OwnSize \in Nat /\ MaxSize \in Nat
    /\ IsFiniteSet(Peers) /\ IsFiniteSet(Conns) /\ Conns \subseteq Peers
    /\ Cardinality(Peers) \in Nat \ {0} /\ Cardinality(Conns) \in Nat \ {0}
    /\ adjustedF \in Nat
<1>1. /\ PoolSize \in Nat /\ OwnSize \in Nat /\ MaxSize \in Nat
      /\ IsFiniteSet(Peers) /\ Conns \subseteq Peers /\ Conns # {} /\ Peers # {}
  BY CatchupAssumption DEF Conns
<1>2. IsFiniteSet(Conns)
  BY <1>1, FS_Subset
<1>3. Cardinality(Peers) \in Nat \ {0} /\ Cardinality(Conns) \in Nat \ {0}
  BY <1>1, <1>2, FS_CardinalityType, FS_EmptySet
<1>4. adjustedF \in Nat
  BY <1>3 DEF adjustedF
<1>. QED BY <1>1, <1>2, <1>3, <1>4

\* An order of a set is a sequence of its elements in which each one has a place.
LEMMA OrderFacts ==
    ASSUME NEW S, IsFiniteSet(S), NEW order \in SetToSeqs(S)
    PROVE  /\ order \in Seq(S) /\ Len(order) = Cardinality(S)
           /\ \A p \in S : \E i \in DOMAIN order : order[i] = p
<1>. DEFINE n == Cardinality(S)
<1>1. n \in Nat
  BY FS_CardinalityType
<1>2. order \in [1..n -> S] /\ \A i, j \in 1..n : i # j => order[i] # order[j]
  BY DEF SetToSeqs
<1>3. order \in Seq(S) /\ Len(order) = n /\ DOMAIN order = 1..n
  BY <1>1, <1>2
<1>4. ASSUME NEW p \in S, \A i \in 1..n : order[i] # p PROVE FALSE
  <2>1. IsFiniteSet(S \ {p}) /\ Cardinality(S \ {p}) = n - 1
    BY FS_RemoveElement
  <2>2. IsFiniteSet(1..n) /\ Cardinality(1..n) = n
    BY <1>1, FS_Interval
  <2>3. order \in [1..n -> S \ {p}]
    BY <1>2, <1>4
  <2>4. \E i, j \in 1..n : i # j /\ order[i] = order[j]
    <3>. HIDE DEF n
    <3>. QED BY <1>1, <2>1, <2>2, <2>3, FS_PigeonHole
  <2>. QED BY <1>2, <2>4
<1>. QED BY <1>3, <1>4

\* There is a first place where an item of s is in S.
LEMMA FirstFacts ==
    ASSUME NEW T, NEW s \in Seq(T), NEW S, \E i \in DOMAIN s : s[i] \in S
    PROVE  FirstIn(s, S) \in DOMAIN s /\ s[FirstIn(s, S)] \in S
<1>. DEFINE N == Len(s)
            First(i) == s[i] \in S /\ \A j \in 1..(i - 1) : s[j] \notin S
            A == {k \in 0..N : \A j \in 1..k : s[j] \notin S}
<1>1. N \in Nat /\ DOMAIN s = 1..N
  OBVIOUS
<1>2. \E i \in 1..N : First(i)
  <2>. SUFFICES ASSUME \A i \in 1..N : ~First(i) PROVE FALSE
    OBVIOUS
  <2>1. 0 \in A
    BY <1>1
  <2>2. \A k \in 0..(N - 1) : k \in A => k + 1 \in A
    <3>. SUFFICES ASSUME NEW k \in 0..(N - 1), k \in A PROVE k + 1 \in A
      OBVIOUS
    <3>1. k + 1 \in 1..N /\ (k + 1) - 1 = k /\ k + 1 \in 0..N
      BY <1>1
    <3>2. s[k + 1] \notin S
      BY <3>1
    <3>3. \A j \in 1..(k + 1) : j \in 1..k \/ j = k + 1
      BY <1>1
    <3>. QED BY <3>1, <3>2, <3>3
  <2>. HIDE DEF A
  <2>3. 0..N \subseteq A
    BY <1>1, <2>1, <2>2, InductionUpTo
  <2>4. N \in A
    BY <1>1, <2>3
  <2>. QED BY <1>1, <2>4 DEF A
<1>. QED BY <1>1, <1>2 DEF FirstIn

-----------------------------------------------------------------------------
(* Sending                                                                 *)

\* M is N with more to send.
Sent(M, N) == M = [N EXCEPT !.out = M.out] /\ M.out \in [Peers -> Seq(NodeMsg)]

LEMMA SentKeeps ==
    ASSUME NEW N, Good(N), NEW M, Sent(M, N)
    PROVE  Good(M) /\ Ends(N, M) /\ M.ledger = N.ledger
<1>1. M \in NodeState
  BY DEF Good, Sent, NodeState
<1>2. /\ M.ledger = N.ledger /\ M.state = N.state /\ M.catchupReplyTimer = N.catchupReplyTimer
      /\ M.catchUpTill = N.catchUpTill /\ M.recvdConsistencyProofs = N.recvdConsistencyProofs
  BY DEF Good, Sent, NodeState
<1>3. NullProofs(M) = NullProofs(N)
  BY <1>2 DEF NullProofs
<1>. QED BY <1>1, <1>2, <1>3 DEF Good, Ends

LEMMA SendToSent ==
    ASSUME NEW N, Good(N), NEW p \in Peers, NEW m \in NodeMsg
    PROVE  Sent(sendTo(N, p, m), N)
<1>1. N \in NodeState /\ N.out \in [Peers -> Seq(NodeMsg)]
  BY DEF Good, NodeState
<1>2. [N.out EXCEPT ![p] = Append(@, m)] \in [Peers -> Seq(NodeMsg)]
  BY <1>1
<1>3. N = [N EXCEPT !.out = N.out]
  BY <1>1 DEF NodeState
<1>. QED BY <1>1, <1>2, <1>3 DEF sendTo, Sent, NodeState

LEMMA SendSent ==
    ASSUME NEW N, Good(N), NEW m \in NodeMsg
    PROVE  Sent(send(N, m), N)
<1>. DEFINE o == [p \in Peers |-> IF p \in Conns THEN Append(N.out[p], m) ELSE N.out[p]]
<1>1. N \in NodeState /\ N.out \in [Peers -> Seq(NodeMsg)]
  BY DEF Good, NodeState
<1>2. o \in [Peers -> Seq(NodeMsg)]
  BY <1>1
<1>. QED BY <1>1, <1>2 DEF send, Sent, NodeState

Pieces == [s : Int, e : Int]

LEMMA SendRequestsSent ==
    ASSUME NEW N, Good(N), NEW reqs \in Seq(Pieces), NEW till \in Int,
           NEW order \in Seq(Peers), order # <<>>
    PROVE  Sent(sendRequests(N, reqs, till, order), N)
<1>. DEFINE turns(i) == (Len(reqs) - i + Len(order)) \div Len(order)
            item(i, k) == Request(reqs[i + (k - 1) * Len(order)], till)
            share(i) == [k \in 1..turns(i) |-> item(i, k)]
            place(p) == CHOOSE i \in DOMAIN order : order[i] = p
            o == [p \in Peers |-> IF p \in Range(order) THEN N.out[p] \o share(place(p))
                                  ELSE N.out[p]]
<1>1. N \in NodeState /\ N.out \in [Peers -> Seq(NodeMsg)]
  BY DEF Good, NodeState
<1>2. Len(order) \in Nat \ {0} /\ DOMAIN order = 1..Len(order) /\ Len(reqs) \in Nat
  BY EmptySeq, LenProperties
<1>3. ASSUME NEW i \in DOMAIN order PROVE share(i) \in Seq(NodeMsg)
  <2>1. i \in 1..Len(order) /\ Len(reqs) - i + Len(order) \in Nat
    BY <1>2
  <2>2. turns(i) \in Nat /\ turns(i) * Len(order) <= Len(reqs) - i + Len(order)
    <3>1. \A a \in Nat, b \in Nat \ {0} : a \div b \in Nat /\ (a \div b) * b <= a
      BY Z3
    <3>. QED BY <1>2, <2>1, <3>1
  <2>3. ASSUME NEW k \in 1..turns(i)
        PROVE  i + (k - 1) * Len(order) \in 1..Len(reqs)
    <3>1. (k - 1) * Len(order) + Len(order) <= turns(i) * Len(order)
      <4>1. \A a, b, c \in Nat : a <= b => a * c <= b * c
        BY Z3
      <4>. HIDE DEF turns
      <4>2. k * Len(order) <= turns(i) * Len(order)
        <5>1. k \in Nat /\ turns(i) \in Nat /\ Len(order) \in Nat /\ k <= turns(i)
          BY <1>2, <2>2
        <5>. QED BY <4>1, <5>1
      <4>3. (k - 1) * Len(order) + Len(order) = k * Len(order)
        BY <1>2, <2>2, Z3
      <4>. QED BY <4>2, <4>3
    <3>2. (k - 1) * Len(order) \in Nat
      BY SMTT(30), <1>2, <2>2
    <3>3. turns(i) * Len(order) \in Int
      BY <1>2, <2>2
    <3>. HIDE DEF turns
    <3>. QED BY <1>2, <2>1, <2>2, <3>1, <3>2, <3>3
  <2>4. ASSUME NEW k \in 1..turns(i)
        PROVE  item(i, k) \in NodeMsg
    <3>1. reqs[i + (k - 1) * Len(order)] \in Pieces
      BY <1>2, <2>3
    <3>. QED BY <3>1 DEF Pieces, Request, RequestMsg, NodeMsg
  <2>. HIDE DEF turns, item
  <2>. QED BY <2>2, <2>4
<1>4. ASSUME NEW p \in Range(order) PROVE place(p) \in DOMAIN order
  BY DEF Range
<1>5. o \in [Peers -> Seq(NodeMsg)]
  <2>. HIDE DEF share, place
  <2>. QED BY <1>1, <1>3, <1>4
<1>6. sendRequests(N, reqs, till, order) = [N EXCEPT !.out = o]
  BY DEF sendRequests
<1>. HIDE DEF o
<1>. QED BY <1>1, <1>5, <1>6 DEF Sent, NodeState

-----------------------------------------------------------------------------
(* Ledger statuses                                                         *)

\* A catch-up that ends leaves a node with what the pool had.
LEMMA CompletedOK ==
    ASSUME NEW N \in NodeState, N.ledger = [i \in 1..Len(N.ledger) |-> i],
           Len(N.ledger) >= PoolSize, NEW n \in Int
    PROVE  LET M == catchupCompleted(N, n) IN Good(M) /\ M.ledger = N.ledger
<1>. DEFINE M == catchupCompleted(N, n)
<1>1. N \in NodeState
  OBVIOUS
<1>2. NoEntries \in [Peers -> {NoEntry, NullProof} \cup ProofMsg]
  BY DEF NoEntries
<1>3. M \in NodeState /\ M.ledger = N.ledger /\ M.state = "synced" /\ ~M.catchupReplyTimer
  <2>. DEFINE last == IF N.lastCaughtUpPpSeqNo < n THEN n ELSE N.lastCaughtUpPpSeqNo
              M1 == [N EXCEPT !.lastCaughtUpPpSeqNo = last, !.catchupReplyTimer = FALSE,
                              !.canSync = FALSE, !.state = "synced"]
  <2>1. last \in Int
    BY <1>1 DEF NodeState
  <2>2. M1 \in NodeState /\ M1.ledger = N.ledger /\ M1.state = "synced" /\ ~M1.catchupReplyTimer
    <3>. HIDE DEF last
    <3>. QED BY <1>1, <2>1 DEF NodeState
  <2>. DEFINE M2 == [M1 EXCEPT !.ledgerStatusOk = {}, !.mode = "participating"]
  <2>3. M = [M2 EXCEPT !.recvdConsistencyProofs = NoEntries]
    BY DEF catchupCompleted
  <2>. HIDE DEF M1
  <2>4. M2 \in NodeState /\ M2.ledger = N.ledger /\ M2.state = "synced" /\ ~M2.catchupReplyTimer
    BY <2>2 DEF NodeState
  <2>. HIDE DEF M2, M
  <2>. QED BY <1>2, <2>3, <2>4 DEF NodeState
<1>. QED BY <1>3 DEF Good

\* p and what it stands for are noted, the ledger and its state stay.
Noted(N, p, c, S) == [N EXCEPT !.recvdConsistencyProofs[p] = c, !.ledgerStatusOk = S]

LEMMA NotedOK ==
    ASSUME NEW N, Good(N), NEW p \in Peers, NEW c \in {NullProof} \cup ProofMsg,
           c = NullProof => Len(N.ledger) >= PoolSize, NEW S \in SUBSET Peers
    PROVE  LET M == Noted(N, p, c, S)
           IN  Good(M) /\ M.ledger = N.ledger /\ M.state = N.state
<1>. DEFINE M == Noted(N, p, c, S)
<1>1. N \in NodeState /\ N.recvdConsistencyProofs \in [Peers -> {NoEntry, NullProof} \cup ProofMsg]
  BY DEF Good, NodeState
<1>2. [N.recvdConsistencyProofs EXCEPT ![p] = c] \in [Peers -> {NoEntry, NullProof} \cup ProofMsg]
  BY <1>1
<1>3. /\ M \in NodeState /\ M.ledger = N.ledger /\ M.state = N.state
      /\ M.catchupReplyTimer = N.catchupReplyTimer /\ M.catchUpTill = N.catchUpTill
      /\ M.recvdConsistencyProofs = [N.recvdConsistencyProofs EXCEPT ![p] = c]
  BY <1>1, <1>2 DEF Noted, NodeState
<1>4. NullProofs(M) # {} => Len(M.ledger) >= PoolSize
  <2>1. NullProofs(M) \subseteq NullProofs(N) \cup (IF c = NullProof THEN {p} ELSE {})
    BY <1>1, <1>3 DEF NullProofs
  <2>. QED BY <1>3, <2>1 DEF Good
<1>5. Good(M)
  <2>. HIDE DEF M
  <2>. QED BY <1>3, <1>4 DEF Good
<1>. QED BY <1>3, <1>5

LEMMA LedgerStatusOK ==
    ASSUME NEW N, Good(N), NEW p \in Peers, NEW n \in Sizes
    PROVE  LET M == processLedgerStatus(N, p, n)
           IN  Good(M) /\ Ends(N, M) /\ M.ledger = N.ledger
<1>. DEFINE M == processLedgerStatus(N, p, n)
            ok == [N EXCEPT !.recvdConsistencyProofs[p] = NullProof,
                            !.ledgerStatusOk = @ \cup {p}]
            stashed == [N EXCEPT !.stashedLedgerStatuses = Append(@, <<p, n>>)]
            asks == [N EXCEPT !.canSync = TRUE]
<1>1. /\ N \in NodeState /\ Len(N.ledger) \in Nat /\ n \in Nat /\ n >= PoolSize
      /\ N.ledgerStatusOk \in SUBSET Peers /\ PoolSize \in Nat
  BY PoolFacts DEF Good, NodeState, Sizes
<1>2. CASE N.state # "synced" /\ ~N.canSync
  <2>1. M = stashed
    BY <1>2 DEF processLedgerStatus
  <2>2. Append(N.stashedLedgerStatuses, <<p, n>>) \in Seq(Peers \X Sizes)
    BY <1>1 DEF NodeState
  <2>3. /\ stashed \in NodeState /\ stashed.ledger = N.ledger /\ stashed.state = N.state
        /\ stashed.catchupReplyTimer = N.catchupReplyTimer
        /\ stashed.catchUpTill = N.catchUpTill
        /\ stashed.recvdConsistencyProofs = N.recvdConsistencyProofs
    BY <1>1, <2>2 DEF NodeState
  <2>4. Good(M) /\ Ends(N, M) /\ M.ledger = N.ledger
    <3>. HIDE DEF stashed, M
    <3>. QED BY <2>1, <2>3 DEF Good, Ends, NullProofs
  <2>. QED BY <2>4
<1>3. CASE ~(N.state # "synced" /\ ~N.canSync) /\ N.state = "synced" /\ Len(N.ledger) < n
  <2>1. M = sendTo(asks, p, Status(Len(N.ledger)))
    BY <1>3 DEF processLedgerStatus
  <2>2. /\ asks \in NodeState /\ asks.ledger = N.ledger /\ asks.state = N.state
        /\ asks.catchupReplyTimer = N.catchupReplyTimer
        /\ asks.catchUpTill = N.catchUpTill
        /\ asks.recvdConsistencyProofs = N.recvdConsistencyProofs
    BY <1>1 DEF NodeState
  <2>3. Good(asks) /\ Ends(N, asks)
    <3>. HIDE DEF asks
    <3>. QED BY <2>2 DEF Good, Ends, NullProofs
  <2>4. Status(Len(N.ledger)) \in NodeMsg
    BY <1>1 DEF Status, NodeMsg
  <2>5. Sent(M, asks)
    <3>. HIDE DEF asks
    <3>. QED BY <2>1, <2>3, <2>4, SendToSent
  <2>6. Good(M) /\ M.ledger = asks.ledger
    <3>. HIDE DEF asks, M
    <3>. QED BY <2>3, <2>5, SentKeeps
  <2>7. Ends(N, M) /\ M.ledger = N.ledger
    <3>. HIDE DEF asks, M
    <3>. QED BY <1>3, <2>2, <2>6 DEF Ends
  <2>. QED BY <2>6, <2>7
<1>4. CASE ~(N.state # "synced" /\ ~N.canSync) /\ N.state # "synced" /\ Len(N.ledger) < n
  <2>1. M = N
    BY <1>4 DEF processLedgerStatus
  <2>. QED BY <2>1 DEF Ends
<1>5. CASE ~(N.state # "synced" /\ ~N.canSync) /\ ~(Len(N.ledger) < n)
  <2>1. M = IF Cardinality(ok.ledgerStatusOk) = 2 * f /\ N.state # "synced"
            THEN catchupCompleted(ok, -1) ELSE ok
    BY <1>5 DEF processLedgerStatus
  <2>2. Len(N.ledger) >= PoolSize
    BY <1>1, <1>5
  <2>3. Good(ok) /\ ok.ledger = N.ledger /\ ok.state = N.state
    <3>1. N.ledgerStatusOk \cup {p} \in SUBSET Peers /\ NullProof \in {NullProof} \cup ProofMsg
      BY <1>1
    <3>2. ok = Noted(N, p, NullProof, N.ledgerStatusOk \cup {p})
      BY DEF Noted
    <3>. HIDE DEF ok
    <3>. QED BY <2>2, <3>1, <3>2, NotedOK
  <2>4. Good(catchupCompleted(ok, -1)) /\ catchupCompleted(ok, -1).ledger = N.ledger
    <3>. HIDE DEF ok
    <3>. QED BY <2>2, <2>3, CompletedOK DEF Good
  <2>5. Good(M) /\ Ends(N, M) /\ M.ledger = N.ledger
    <3>. HIDE DEF ok, M
    <3>. QED BY <2>1, <2>2, <2>3, <2>4 DEF Ends
  <2>. QED BY <2>5
<1>. QED BY <1>2, <1>3, <1>4, <1>5

LEMMA UnstashOK ==
    ASSUME NEW N, Good(N)
    PROVE  Good(unstash(N)) /\ Ends(N, unstash(N)) /\ unstash(N).ledger = N.ledger
<1>. DEFINE stash == N.stashedLedgerStatuses
            M == [N EXCEPT !.stashedLedgerStatuses = Front(stash)]
            x == Last(stash)
<1>1. N \in NodeState /\ stash \in Seq(Peers \X Sizes)
  BY DEF Good, NodeState
<1>2. CASE stash = <<>>
  BY <1>2 DEF unstash, Ends
<1>3. CASE stash # <<>>
  <2>. HIDE DEF stash
  <2>1. Len(stash) \in Nat \ {0}
    BY <1>1, <1>3, EmptySeq, LenProperties
  <2>2. Front(stash) \in Seq(Peers \X Sizes) /\ x[1] \in Peers /\ x[2] \in Sizes
    BY <1>1, <2>1 DEF Front, Last
  <2>3. /\ M \in NodeState /\ M.ledger = N.ledger /\ M.state = N.state
        /\ M.catchupReplyTimer = N.catchupReplyTimer /\ M.catchUpTill = N.catchUpTill
        /\ M.recvdConsistencyProofs = N.recvdConsistencyProofs
    BY <1>1, <2>2 DEF NodeState
  <2>4. unstash(N) = processLedgerStatus(M, x[1], x[2])
    BY <1>3 DEF unstash, stash
  <2>. HIDE DEF M, x
  <2>5. Good(M) /\ Ends(N, M)
    BY <2>3 DEF Good, Ends, NullProofs
  <2>6. Good(unstash(N)) /\ Ends(M, unstash(N)) /\ unstash(N).ledger = M.ledger
    BY <2>2, <2>4, <2>5, LedgerStatusOK
  <2>. QED BY <2>3, <2>6 DEF Ends
<1>. QED BY <1>2, <1>3

\* What Good nodes with the same ledger a call may make of N.
Kept(N) == {M \in NodeState : Good(M) /\ Ends(N, M) /\ M.ledger = N.ledger}

LEMMA StashedStatusesOK ==
    ASSUME NEW N, Good(N)
    PROVE  processStashedLedgerStatuses(N) \in Kept(N)
<1>. DEFINE n == Len(N.stashedLedgerStatuses)
            V == Kept(N)
            step(k, x) == unstash(x)
            E == [k \in 1..n |-> [x \in V |-> step(k, x)]]
            Eq(g) == g = [k \in 0..n |-> IF k = 0 THEN N ELSE step(k, g[k - 1])]
            done == CHOOSE g : Eq(g)
<1>1. n \in Nat
  BY DEF Good, NodeState
<1>2. \A k \in 1..n, x \in V : step(k, x) \in V
  BY UnstashOK DEF Kept, Ends, Good
<1>3. processStashedLedgerStatuses(N) = done[n]
  BY DEF processStashedLedgerStatuses
<1>4. N \in V
  BY DEF Kept, Ends, Good
<1>. HIDE DEF n, V, step
<1>5. E \in [1..n -> [V -> V]]
  BY <1>2
<1>6. PICK g \in [0..n -> V] : Recurs(g, n, N, E)
  <2>. HIDE DEF E
  <2>. QED BY <1>1, <1>4, <1>5, RecursionUpTo
<1>7. Eq(g)
  <2>1. ASSUME NEW k \in 0..n PROVE g[k] = IF k = 0 THEN N ELSE step(k, g[k - 1])
    <3>1. g[k] = IF k = 0 THEN N ELSE E[k][g[k - 1]]
      <4>. HIDE DEF E
      <4>. QED BY <1>6 DEF Recurs
    <3>2. k # 0 => k \in 1..n /\ k - 1 \in 0..n
      BY <1>1
    <3>. QED BY <3>1, <3>2
  <2>2. g = [k \in 0..n |-> g[k]]
    OBVIOUS
  <2>. QED BY <2>1, <2>2
<1>8. Eq(done)
  <2>. HIDE DEF Eq
  <2>. QED BY <1>7
<1>9. \A k \in 0..n : done[k] = IF k = 0 THEN N ELSE step(k, done[k - 1])
  <2>. HIDE DEF done
  <2>. QED BY <1>8, Zenon
<1>. HIDE DEF done
<1>10. done[0] \in V /\ \A k \in 1..n : done[k - 1] \in V => done[k] \in V
  BY <1>1, <1>2, <1>4, <1>9
<1>11. done[n] \in V
  <2>. HIDE DEF E, Eq
  <2>. QED BY <1>1, <1>10, StaysIn
<1>. QED BY <1>3, <1>11 DEF V

LEMMA StartSyncOK ==
    ASSUME NEW N, Good(N)
    PROVE  start_domain_ledger_sync(N) \in Kept(N)
<1>. DEFINE A == [N EXCEPT !.canSync = TRUE, !.mode = "discovered"]
            B == send(A, Status(Len(N.ledger)))
<1>1. /\ A \in NodeState /\ A.ledger = N.ledger /\ A.state = N.state
      /\ A.catchupReplyTimer = N.catchupReplyTimer /\ A.catchUpTill = N.catchUpTill
      /\ A.recvdConsistencyProofs = N.recvdConsistencyProofs
  BY DEF Good, NodeState
<1>2. Status(Len(N.ledger)) \in NodeMsg
  BY DEF Good, NodeState, Status, NodeMsg
<1>3. start_domain_ledger_sync(N) = processStashedLedgerStatuses(B)
  BY DEF start_domain_ledger_sync
<1>. HIDE DEF A
<1>4. Good(A) /\ Ends(N, A)
  BY <1>1 DEF Good, Ends, NullProofs
<1>5. Good(B) /\ Ends(A, B) /\ B.ledger = A.ledger
  BY <1>2, <1>4, SendSent, SentKeeps
<1>. HIDE DEF B
<1>6. processStashedLedgerStatuses(B) \in Kept(B)
  BY <1>5, StashedStatusesOK
<1>. QED BY <1>1, <1>3, <1>4, <1>5, <1>6 DEF Kept, Ends

-----------------------------------------------------------------------------
(* Consistency proofs                                                      *)

\* The pieces of a range are ranges, whatever its bounds are.
LEMMA PiecesOK ==
    ASSUME NEW frm \in Int, NEW to \in Int, NEW batchSize \in Nat, batchSize > 0
    PROVE  addReqsForMissing(frm, to, batchSize) \in Seq(Pieces)
<1>. DEFINE n == Ceil(to - frm + 1, batchSize)
            item(i) == [s |-> frm + (i - 1) * batchSize,
                        e |-> Smaller(to, frm + i * batchSize - 1)]
<1>1. n \in Int
  BY CeilBounds
<1>2. \A i \in 1..n : item(i) \in Pieces
  <2>. SUFFICES ASSUME NEW i \in 1..n PROVE item(i) \in Pieces
    OBVIOUS
  <2>1. i * batchSize \in Int /\ (i - 1) * batchSize \in Int
    BY <1>1
  <2>. QED BY <2>1 DEF Smaller, Pieces
<1>3. addReqsForMissing(frm, to, batchSize) = [i \in 1..n |-> item(i)]
  BY DEF addReqsForMissing
<1>. HIDE DEF n, item
<1>4. PICK m \in Nat : 1..n = 1..m
  <2>1. CASE n >= 0
    BY <1>1, <2>1
  <2>2. CASE n < 0
    <3>1. 1..n = 1..0
      BY <1>1, <2>2
    <3>. QED BY <3>1
  <2>. QED BY <1>1, <2>1, <2>2
<1>5. [i \in 1..m |-> item(i)] \in Seq(Pieces)
  <2>1. \A i \in 1..m : item(i) \in Pieces
    BY <1>2, <1>4, Zenon
  <2>. QED BY <2>1
<1>. QED BY <1>3, <1>4, <1>5

LEMMA CatchupReqsOK ==
    ASSUME NEW start \in Nat, NEW end \in Nat, start <= end
    PROVE  getCatchupReqs(start, end, Cardinality(Conns)) \in Seq(Pieces)
<1>. DEFINE n == Cardinality(Conns)
            piece == Ceil(end - start, n)
<1>1. n \in Nat \ {0}
  BY PoolFacts
<1>2. CASE start = end
  <2>1. [s |-> start + 1, e |-> end] \in Pieces
    BY DEF Pieces
  <2>. QED BY <1>2, <2>1 DEF getCatchupReqs
<1>3. CASE start < end
  <2>. HIDE DEF n
  <2>1. piece \in Int /\ piece * n >= end - start
    BY <1>1, CeilBounds
  <2>2. 0 * n = 0 /\ piece * n \in Int
    BY <1>1, <2>1
  <2>3. 0 * n < piece * n
    BY <1>3, <2>1, <2>2
  <2>. HIDE DEF piece
  <2>4. 0 < piece
    BY <1>1, <2>1, <2>3, Cancel
  <2>5. addReqsForMissing(start + 1, end, piece) \in Seq(Pieces)
    BY <2>1, <2>4, PiecesOK
  <2>. QED BY <1>3, <2>5 DEF getCatchupReqs, n, piece
<1>. QED BY <1>2, <1>3

LEMMA ProofsOK ==
    ASSUME NEW N, Good(N)
    PROVE  Proofs(N) \subseteq ProofMsg
<1>1. N.recvdConsistencyProofs \in [Peers -> {NoEntry, NullProof} \cup ProofMsg]
  BY DEF Good, NodeState
<1>. QED BY <1>1 DEF Proofs, Entries, NullProofs

LEMMA LoseSyncOK ==
    ASSUME NEW N, Good(N)
    PROVE  LoseSync(N) \in Kept(N)
<1>. DEFINE M == [N EXCEPT !.state = "not_synced", !.mode = "syncing"]
<1>1. /\ M \in NodeState /\ M.ledger = N.ledger /\ M.state = "not_synced"
      /\ M.catchupReplyTimer = N.catchupReplyTimer /\ M.catchUpTill = N.catchUpTill
      /\ M.recvdConsistencyProofs = N.recvdConsistencyProofs
  BY DEF Good, NodeState
<1>2. LoseSync(N) = M \/ LoseSync(N) = N
  BY DEF LoseSync
<1>. HIDE DEF M
<1>. QED BY <1>1, <1>2 DEF Good, Ends, NullProofs, Kept

LEMMA StartCatchUpOK ==
    ASSUME NEW N, Good(N), NEW c \in ProofMsg, NEW order \in Orders
    PROVE  startCatchUpProcess(N, c, order) \in Kept(N)
<1>. DEFINE A == [N EXCEPT !.state = "syncing", !.consistencyProofsTimer = FALSE,
                           !.recvdConsistencyProofs = NoEntries, !.catchUpTill = c,
                           !.catchupReplyTimer = TRUE, !.catchupReplyActions = @ + 1]
            B == startCatchUpProcess(N, c, order)
            reqs == getCatchupReqs(c.start, c.end, Cardinality(Conns))
<1>1. NoEntries \in [Peers -> {NoEntry, NullProof} \cup ProofMsg]
  BY DEF NoEntries
<1>2. /\ A \in NodeState /\ A.ledger = N.ledger /\ A.state = "syncing" /\ A.catchUpTill = c
      /\ A.recvdConsistencyProofs = NoEntries
  <2>. DEFINE A1 == [N EXCEPT !.state = "syncing", !.consistencyProofsTimer = FALSE,
                              !.recvdConsistencyProofs = NoEntries]
  <2>1. /\ A1 \in NodeState /\ A1.ledger = N.ledger /\ A1.state = "syncing"
        /\ A1.recvdConsistencyProofs = NoEntries
        /\ A1.catchupReplyActions = N.catchupReplyActions
    BY <1>1 DEF Good, NodeState
  <2>2. A = [A1 EXCEPT !.catchUpTill = c, !.catchupReplyTimer = TRUE,
                       !.catchupReplyActions = A1.catchupReplyActions + 1]
    BY <2>1
  <2>. HIDE DEF A, A1
  <2>3. A1.catchupReplyActions + 1 \in Int
    BY <2>1 DEF NodeState
  <2>. QED BY <2>1, <2>2, <2>3 DEF NodeState
<1>3. Good(A)
  <2>1. NullProofs(A) = {}
    <3>1. \A p \in Peers : NoEntries[p] # NullProof
      <4>1. NoEntry.type # NullProof.type
        BY DEF NoEntry, NullProof
      <4>. QED BY <4>1 DEF NoEntries
    <3>. HIDE DEF A
    <3>. QED BY <1>2, <3>1 DEF NullProofs
  <2>. HIDE DEF A
  <2>. QED BY <1>2, <2>1 DEF Good
<1>4. c.start \in Nat /\ c.end \in Nat /\ c.start <= c.end
  BY DEF ProofMsg, Sizes
<1>5. reqs \in Seq(Pieces)
  BY <1>4, CatchupReqsOK
<1>6. order \in Seq(Peers) /\ order # <<>>
  <2>1. order \in Seq(Conns) /\ Len(order) # 0
    BY PoolFacts, OrderFacts DEF Orders
  <2>. QED BY <2>1, PoolFacts
<1>7. B = sendRequests(A, reqs, c.end, order)
  BY DEF startCatchUpProcess
<1>. HIDE DEF A, reqs
<1>8. Sent(B, A)
  BY <1>3, <1>4, <1>5, <1>6, <1>7, SendRequestsSent
<1>. HIDE DEF B
<1>9. Good(B) /\ B.ledger = A.ledger /\ Ends(A, B)
  BY <1>3, <1>8, SentKeeps
<1>10. B \in Kept(N)
  BY <1>2, <1>9 DEF Kept, Ends, Good
<1>. QED BY <1>10 DEF B

\* The timer for consistency proofs is set or not.
LEMMA TimersKept ==
    ASSUME NEW N, Good(N), NEW b \in BOOLEAN, NEW n \in Int
    PROVE  [N EXCEPT !.consistencyProofsTimer = b, !.consistencyProofsActions = n] \in Kept(N)
<1>. DEFINE M == [N EXCEPT !.consistencyProofsTimer = b, !.consistencyProofsActions = n]
<1>1. /\ M \in NodeState /\ M.ledger = N.ledger /\ M.state = N.state
      /\ M.catchupReplyTimer = N.catchupReplyTimer /\ M.catchUpTill = N.catchUpTill
      /\ M.recvdConsistencyProofs = N.recvdConsistencyProofs
  BY DEF Good, NodeState
<1>2. M \in Kept(N)
  <2>. HIDE DEF M
  <2>. QED BY <1>1 DEF Good, Ends, NullProofs, Kept
<1>. QED BY <1>2

LEMMA TryCatchUpOK ==
    ASSUME NEW N, Good(N), NEW order \in Orders
    PROVE  tryCatchUp(N, order) \subseteq Kept(N)
<1>. DEFINE timed == IF Cardinality(Entries(N)) = adjustedF + 1
                     THEN [N EXCEPT !.consistencyProofsTimer = TRUE,
                                    !.consistencyProofsActions = @ + 1]
                     ELSE N
<1>1. timed \in Kept(N)
  <2>1. N.consistencyProofsActions + 1 \in Int
    BY DEF Good, NodeState
  <2>2. [N EXCEPT !.consistencyProofsTimer = TRUE, !.consistencyProofsActions = @ + 1] \in Kept(N)
    BY <2>1, TimersKept
  <2>3. N \in Kept(N)
    BY DEF Kept, Ends, Good
  <2>. QED BY <2>2, <2>3
<1>2. Good(timed) /\ timed.ledger = N.ledger /\ Ends(N, timed)
  BY <1>1 DEF Kept
<1>3. ASSUME Cardinality(NullProofs(N)) > adjustedF
      PROVE  catchupCompleted(timed, -1) \in Kept(N)
  <2>1. NullProofs(N) # {}
    BY <1>3, PoolFacts, FS_EmptySet
  <2>2. Len(N.ledger) >= PoolSize
    BY <2>1 DEF Good
  <2>. HIDE DEF timed
  <2>3. /\ Good(catchupCompleted(timed, -1))
        /\ catchupCompleted(timed, -1).ledger = N.ledger
    BY <1>2, <2>2, CompletedOK DEF Good
  <2>. QED BY <2>2, <2>3 DEF Kept, Ends, Good
<1>4. ASSUME NEW c \in _latestReliableProof(N)
      PROVE  startCatchUpProcess(timed, c, order) \in Kept(N)
  <2>1. c \in ProofMsg
    BY ProofsOK DEF _latestReliableProof, _reliableProofs
  <2>. HIDE DEF timed
  <2>2. startCatchUpProcess(timed, c, order) \in Kept(timed)
    BY <1>2, <2>1, StartCatchUpOK
  <2>. QED BY <1>2, <2>2 DEF Kept, Ends
<1>. HIDE DEF timed
<1>5. tryCatchUp(N, order) \subseteq
         {timed} \cup (IF Cardinality(NullProofs(N)) > adjustedF
                       THEN {catchupCompleted(timed, -1)} ELSE {})
         \cup {startCatchUpProcess(timed, c, order) : c \in _latestReliableProof(N)}
  <2>1. /\ Cardinality(Entries(N)) \in Nat
        /\ adjustedF \in Nat
    <3>1. Entries(N) \subseteq Peers
      BY DEF Entries
    <3>. QED BY <3>1, PoolFacts, FS_Subset, FS_CardinalityType
  <2>2. tryCatchUp(N, order) =
           CASE Cardinality(Entries(N)) <= 2 * adjustedF -> {timed}
             [] Cardinality(Entries(N)) > 2 * adjustedF
                   /\ Cardinality(NullProofs(N)) > adjustedF -> {catchupCompleted(timed, -1)}
             [] OTHER -> IF _latestReliableProof(N) = {} THEN {timed}
                         ELSE {startCatchUpProcess(timed, c, order) :
                                  c \in _latestReliableProof(N)}
    BY DEF tryCatchUp, timed
  <2>. QED BY <2>1, <2>2
<1>. QED BY <1>1, <1>3, <1>4, <1>5

LEMMA ConsistencyProofOK ==
    ASSUME NEW N, Good(N), NEW p \in Peers, NEW c \in ProofMsg, NEW order \in Orders
    PROVE  processConsistencyProof(N, p, c, order) \subseteq Kept(N)
<1>. DEFINE A == [N EXCEPT !.recvdConsistencyProofs[p] = c]
            after == LoseSync(A)
<1>1. c # NullProof
  <2>1. c.type # NullProof.type
    BY DEF ProofMsg, NullProof
  <2>. QED BY <2>1
<1>2. A = Noted(N, p, c, N.ledgerStatusOk) /\ N.ledgerStatusOk \in SUBSET Peers
  BY DEF Noted, Good, NodeState
<1>3. /\ processConsistencyProof(N, p, c, order) =
           IF canProcessConsistencyProof(after, c) THEN tryCatchUp(after, order) ELSE {after}
  BY DEF processConsistencyProof
<1>. HIDE DEF A
<1>4. Good(A) /\ A.ledger = N.ledger /\ A.state = N.state
  BY <1>1, <1>2, NotedOK
<1>5. after \in Kept(A)
  BY <1>4, LoseSyncOK
<1>. HIDE DEF after
<1>6. Good(after) /\ after.ledger = A.ledger /\ Ends(A, after)
  BY <1>5 DEF Kept
<1>7. tryCatchUp(after, order) \subseteq Kept(after)
  BY <1>6, TryCatchUpOK
<1>8. \A M \in Kept(after) : M \in Kept(N)
  BY <1>4, <1>6 DEF Kept, Ends
<1>9. after \in Kept(N)
  BY <1>4, <1>6 DEF Kept, Ends, Good
<1>. QED BY <1>3, <1>7, <1>8, <1>9

LEMMA ProofsTimeoutOK ==
    ASSUME NEW N, Good(N)
    PROVE  checkIfCPsNeeded(N) \subseteq Kept(N)
<1>. DEFINE fired == [N EXCEPT !.consistencyProofsActions = @ - 1]
            wiped == [fired EXCEPT !.recvdConsistencyProofs = NoEntries,
                                   !.consistencyProofsTimer = FALSE,
                                   !.recvdCatchupRepliesFrm = [p \in Peers |-> <<>>]]
            broken == [fired EXCEPT !.halted = TRUE]
            asks(j) == send(wiped, ProofRequest(Len(N.ledger), j))
<1>1. /\ fired \in NodeState /\ fired.ledger = N.ledger /\ fired.state = N.state
      /\ fired.catchupReplyTimer = N.catchupReplyTimer /\ fired.catchUpTill = N.catchUpTill
      /\ fired.recvdConsistencyProofs = N.recvdConsistencyProofs
  <2>1. N \in NodeState /\ N.consistencyProofsActions - 1 \in Int
    BY DEF Good, NodeState
  <2>. QED BY <2>1 DEF NodeState
<1>2. /\ broken \in NodeState /\ broken.ledger = N.ledger /\ broken.state = N.state
      /\ broken.catchupReplyTimer = N.catchupReplyTimer /\ broken.catchUpTill = N.catchUpTill
      /\ broken.recvdConsistencyProofs = N.recvdConsistencyProofs
  <2>. HIDE DEF fired
  <2>. QED BY <1>1 DEF NodeState
<1>3. /\ wiped \in NodeState /\ wiped.ledger = N.ledger /\ wiped.state = N.state
      /\ wiped.catchupReplyTimer = N.catchupReplyTimer /\ wiped.catchUpTill = N.catchUpTill
      /\ wiped.recvdConsistencyProofs = NoEntries
  <2>1. NoEntries \in [Peers -> {NoEntry, NullProof} \cup ProofMsg]
    BY DEF NoEntries
  <2>2. [p \in Peers |-> <<>>] \in [Peers -> Seq(ReplyMsg)]
    OBVIOUS
  <2>. HIDE DEF fired
  <2>. QED BY <1>1, <2>1, <2>2 DEF NodeState
<1>4. checkIfCPsNeeded(N) \subseteq {fired, wiped, broken} \cup {asks(j) : j \in MiddleEnds(N)}
  BY DEF checkIfCPsNeeded
<1>. HIDE DEF fired, wiped, broken
<1>5. fired \in Kept(N) /\ broken \in Kept(N)
  BY <1>1, <1>2 DEF Good, Ends, NullProofs, Kept
<1>6. Good(wiped) /\ wiped.ledger = N.ledger /\ Ends(N, wiped)
  <2>1. NullProofs(wiped) = {}
    <3>1. NoEntry.type # NullProof.type
      BY DEF NoEntry, NullProof
    <3>. QED BY <1>3, <3>1 DEF NullProofs, NoEntries
  <2>. QED BY <1>3, <2>1 DEF Good, Ends
<1>7. ASSUME NEW j \in MiddleEnds(N) PROVE asks(j) \in Kept(N)
  <2>1. j \in Sizes
    <3>1. PICK c \in Proofs(N) : j = <<c.start, c.end>>[2]
      BY <1>7 DEF MiddleEnds, Ranges
    <3>2. c \in ProofMsg
      BY ProofsOK
    <3>. QED BY <3>1, <3>2 DEF ProofMsg
  <2>2. ProofRequest(Len(N.ledger), j) \in NodeMsg
    BY <2>1 DEF ProofRequest, NodeMsg, Good, NodeState
  <2>3. Sent(asks(j), wiped)
    BY <1>6, <2>2, SendSent
  <2>4. Good(asks(j)) /\ Ends(wiped, asks(j)) /\ asks(j).ledger = wiped.ledger
    BY <1>6, <2>3, SentKeeps
  <2>. HIDE DEF asks
  <2>. QED BY <1>6, <2>4 DEF Kept, Ends, Good
<1>. QED BY SMTT(30), <1>3, <1>4, <1>5, <1>6, <1>7 DEF Kept, Good

-----------------------------------------------------------------------------
(* Catch-up replies                                                        *)

LEMMA WaitsOK ==
    ASSUME NEW N \in NodeState
    PROVE  /\ N.receivedCatchUpReplies \in Queues
           /\ N.receivedCatchUpReplies \in Seq(Int)
  BY DEF NodeState, Queues

\* The rest of a queue is one.
LEMMA RestSorted ==
    ASSUME NEW q \in Queues, NEW m \in Nat \ {0}
    PROVE  SubSeq(q, m, Len(q)) \in Queues
<1>. DEFINE r == SubSeq(q, m, Len(q))
<1>1. /\ q \in Seq(Int) /\ Len(q) \in Nat
      /\ \A i, j \in 1..Len(q) : i <= j => q[i] <= q[j]
  BY DEF Queues
<1>2. r \in Seq(Int)
  <2>1. \A i \in m..Len(q) : q[i] \in Int
    BY <1>1
  <2>. QED BY <1>1, <2>1
<1>3. Len(r) \in Nat /\ \A i \in 1..Len(r) : r[i] = q[m + i - 1] /\ m + i - 1 \in 1..Len(q)
  BY <1>1
<1>. HIDE DEF r
<1>4. \A i, j \in 1..Len(r) : i <= j => r[i] <= r[j]
  <2>. SUFFICES ASSUME NEW i \in 1..Len(r), NEW j \in 1..Len(r), i <= j PROVE r[i] <= r[j]
    OBVIOUS
  <2>1. m + i - 1 <= m + j - 1
    BY <1>3
  <2>2. q[m + i - 1] <= q[m + j - 1]
    BY <1>1, <1>3, <2>1
  <2>. QED BY <1>3, <2>2
<1>. QED BY <1>2, <1>4 DEF Queues, r

LEMMA NewOK ==
    ASSUME NEW N \in NodeState
    PROVE  New(N) \in Queues
<1>. DEFINE waits == N.receivedCatchUpReplies
            had == {i \in DOMAIN waits : waits[i] <= Len(N.ledger)}
<1>1. /\ waits \in Queues /\ waits \in Seq(Int)
      /\ Len(waits) \in Nat /\ DOMAIN waits = 1..Len(waits)
  BY DEF NodeState, Queues
<1>2. Cardinality(had) \in Nat
  <2>1. had \subseteq 1..Len(waits)
    BY <1>1
  <2>. HIDE DEF had, waits
  <2>2. IsFiniteSet(1..Len(waits))
    BY <1>1, FS_Interval
  <2>3. IsFiniteSet(had)
    BY <2>1, <2>2, FS_Subset
  <2>. QED BY <2>3, FS_CardinalityType
<1>3. New(N) = SubSeq(waits, Cardinality(had) + 1, Len(waits))
  BY DEF New
<1>. HIDE DEF waits, had
<1>4. Cardinality(had) + 1 \in Nat \ {0}
  BY <1>2
<1>. QED BY <1>1, <1>3, <1>4, RestSorted

\* The piece that is next comes from a reply of its sender, and without it the
\* node has the same ledger and the same target.
LEMMA PieceOK ==
    ASSUME NEW N \in NodeState, NEW p \in Holders(N, Len(N.ledger) + 1)
    PROVE  LET piece == Piece(N, p)
           IN  /\ piece.reply \in ReplyMsg
               /\ Len(N.ledger) + 1 \in piece.reply.s .. piece.reply.e
               /\ piece.rest = [N EXCEPT !.recvdCatchupRepliesFrm = piece.rest.recvdCatchupRepliesFrm,
                                         !.receivedCatchUpReplies = piece.rest.receivedCatchUpReplies]
               /\ piece.rest \in NodeState
<1>. DEFINE n == Len(N.ledger) + 1
            replies == N.recvdCatchupRepliesFrm[p]
            i == FirstIn(replies, With(N, p, n))
            r == replies[i]
            window == 1..Smaller(Len(New(N)), r.e - r.s + 1)
            count == Cardinality({j \in window : New(N)[j] \in r.s..r.e})
            left == SubSeq(New(N), count + 1, Len(New(N)))
            others == [N.recvdCatchupRepliesFrm EXCEPT ![p] = RemoveAt(@, i)]
            rest == [N EXCEPT !.recvdCatchupRepliesFrm = others, !.receivedCatchUpReplies = left]
<1>1. p \in Peers /\ With(N, p, n) # {} /\ replies \in Seq(ReplyMsg)
  BY PoolFacts DEF Holders, NodeState
<1>2. i \in DOMAIN replies /\ r \in With(N, p, n)
  <2>1. \E k \in DOMAIN replies : replies[k] \in With(N, p, n)
    BY <1>1 DEF With, Range
  <2>. HIDE DEF replies
  <2>. QED BY <1>1, <2>1, FirstFacts
<1>3. r \in ReplyMsg /\ n \in r.s..r.e
  <2>1. r \in ReplyMsg
    <3>. HIDE DEF replies, i
    <3>. QED BY <1>1, <1>2
  <2>. HIDE DEF r
  <2>. QED BY <1>2, <2>1 DEF With
<1>4. left \in Queues
  <2>1. New(N) \in Queues /\ New(N) \in Seq(Int)
    BY NewOK DEF Queues
  <2>2. window \subseteq Nat /\ IsFiniteSet(window)
    <3>1. Smaller(Len(New(N)), r.e - r.s + 1) \in Int
      BY <1>3, <2>1 DEF Smaller, ReplyMsg
    <3>. QED BY <3>1, FS_Interval
  <2>3. count \in Nat
    <3>1. {j \in window : New(N)[j] \in r.s..r.e} \subseteq window
      OBVIOUS
    <3>. HIDE DEF window
    <3>. QED BY <2>2, <3>1, FS_Subset, FS_CardinalityType
  <2>. HIDE DEF count
  <2>4. count + 1 \in Nat \ {0}
    BY <2>3
  <2>. QED BY <2>1, <2>4, RestSorted
<1>5. others \in [Peers -> Seq(ReplyMsg)]
  <2>1. RemoveAt(replies, i) \in Seq(ReplyMsg)
    <3>1. i \in 1..Len(replies) /\ Len(replies) \in Nat
      BY <1>1, <1>2
    <3>. HIDE DEF replies, i
    <3>2. SubSeq(replies, 1, i - 1) \in Seq(ReplyMsg) /\ SubSeq(replies, i + 1, Len(replies)) \in Seq(ReplyMsg)
      BY <1>1, <3>1
    <3>. QED BY <3>2 DEF RemoveAt
  <2>2. N.recvdCatchupRepliesFrm \in [Peers -> Seq(ReplyMsg)]
    BY DEF NodeState
  <2>. QED BY <1>1, <2>1, <2>2
<1>6. Piece(N, p).reply = r /\ Piece(N, p).rest = rest
  BY DEF Piece
<1>. HIDE DEF left, others
<1>7. /\ rest \in NodeState /\ rest.recvdCatchupRepliesFrm = others
      /\ rest.receivedCatchUpReplies = left
  BY <1>4, <1>5 DEF NodeState
<1>. QED BY <1>3, <1>6, <1>7

\* Nodes in the middle of a catch-up with the target c.
Syncing(c) == {M \in NodeState : Good(M) /\ M.state = "syncing" /\ M.catchUpTill = c}

LEMMA SenderOK ==
    ASSUME NEW N, Held(N), NEW order \in Orders
    PROVE  Sender(N, order) \in Holders(N, Len(N.ledger) + 1)
<1>. DEFINE H == Holders(N, Len(N.ledger) + 1)
<1>1. H # {} /\ H \subseteq Conns
  BY DEF Held, Holders
<1>2. order \in Seq(Conns) /\ \A p \in Conns : \E i \in DOMAIN order : order[i] = p
  BY PoolFacts, OrderFacts DEF Orders
<1>. HIDE DEF H
<1>3. \E i \in DOMAIN order : order[i] \in H
  BY <1>1, <1>2
<1>4. order[FirstIn(order, H)] \in H
  BY <1>2, <1>3, FirstFacts
<1>. QED BY <1>4 DEF Sender, H

LEMMA AppendPieceOK ==
    ASSUME NEW c \in ProofMsg, NEW N \in Syncing(c), NEW order \in Orders
    PROVE  appendPiece(N, order) \in Syncing(c)
<1>. DEFINE p == Sender(N, order)
            piece == Piece(N, p)
            tree == piece.tree
            M == [piece.rest EXCEPT !.ledger = tree]
<1>1. CASE ~(Held(N) /\ Verified(N, order))
  BY <1>1 DEF appendPiece
<1>2. CASE Held(N) /\ Verified(N, order)
  <2>1. p \in Holders(N, Len(N.ledger) + 1) /\ N \in NodeState /\ Good(N)
        /\ N.state = "syncing" /\ N.catchUpTill = c /\ Len(N.ledger) \in Nat
    BY <1>2, SenderOK DEF Syncing, NodeState
  <2>2. verify_tree_consistency(N, tree, piece.reply)
    BY <1>2 DEF Verified
  <2>3. appendPiece(N, order) = M
    BY <1>2 DEF appendPiece
  <2>. HIDE DEF p
  <2>4. /\ piece.reply \in ReplyMsg /\ Len(N.ledger) + 1 \in piece.reply.s .. piece.reply.e
        /\ piece.rest = [N EXCEPT !.recvdCatchupRepliesFrm = piece.rest.recvdCatchupRepliesFrm,
                                  !.receivedCatchUpReplies = piece.rest.receivedCatchUpReplies]
        /\ piece.rest \in NodeState
    BY <2>1, PieceOK
  <2>. HIDE DEF piece
  <2>5. c.end \in Nat /\ c.end >= PoolSize /\ piece.reply.e \in Int
        /\ piece.reply.e >= Len(N.ledger) + 1
    BY <2>4 DEF ProofMsg, Sizes, ReplyMsg
  <2>. HIDE DEF tree
  <2>6. /\ tree = [i \in 1..Len(tree) |-> i]
        /\ Len(tree) = c.end \/ Len(tree) = piece.reply.e
    BY <2>1, <2>2 DEF verify_tree_consistency
  <2>7. Len(tree) \in Nat /\ (Len(tree) >= PoolSize \/ Len(tree) >= Len(N.ledger) + 1)
    BY <2>1, <2>5, <2>6
  <2>8. tree \in Seq(Int)
    <3>. DEFINE l == Len(tree)
    <3>1. l \in Nat
      BY <2>7
    <3>. HIDE DEF l
    <3>2. [i \in 1..l |-> i] \in Seq(Int)
      BY <3>1
    <3>. QED BY <2>6, <3>2 DEF l
  <2>9. /\ piece.rest.state = N.state /\ piece.rest.catchUpTill = N.catchUpTill
        /\ piece.rest.recvdConsistencyProofs = N.recvdConsistencyProofs
    BY <2>1, <2>4 DEF NodeState
  <2>10. /\ M \in NodeState /\ M.ledger = tree /\ M.state = "syncing" /\ M.catchUpTill = c
         /\ M.recvdConsistencyProofs = N.recvdConsistencyProofs
    BY <2>1, <2>4, <2>8, <2>9 DEF NodeState
  <2>. HIDE DEF M
  <2>11. NullProofs(M) # {} => Len(M.ledger) >= PoolSize
    <3>1. NullProofs(M) = NullProofs(N)
      BY <2>10 DEF NullProofs
    <3>. QED BY <2>1, <2>7, <2>10, <3>1, PoolFacts DEF Good
  <2>12. Good(M)
    BY <2>6, <2>10, <2>11 DEF Good
  <2>. QED BY <2>3, <2>10, <2>12 DEF Syncing
<1>. QED BY <1>1, <1>2

LEMMA AppendedOK ==
    ASSUME NEW c \in ProofMsg, NEW N \in Syncing(c), NEW order \in Orders
    PROVE  LET after[k \in 0..Len(N.receivedCatchUpReplies)] ==
                   IF k = 0 THEN N ELSE appendPiece(after[k - 1], order)
           IN  after[Len(N.receivedCatchUpReplies)] \in Syncing(c)
<1>. DEFINE n == Len(N.receivedCatchUpReplies)
            V == Syncing(c)
            step(k, x) == appendPiece(x, order)
            E == [k \in 1..n |-> [x \in V |-> step(k, x)]]
            Eq(g) == g = [k \in 0..n |-> IF k = 0 THEN N ELSE step(k, g[k - 1])]
            done == CHOOSE g : Eq(g)
<1>1. n \in Nat
  BY DEF Syncing, NodeState
<1>2. \A k \in 1..n, x \in V : step(k, x) \in V
  BY AppendPieceOK
<1>. SUFFICES done[n] \in V
  OBVIOUS
<1>3. N \in V
  OBVIOUS
<1>. HIDE DEF n, V, step
<1>4. E \in [1..n -> [V -> V]]
  BY <1>2
<1>5. PICK g \in [0..n -> V] : Recurs(g, n, N, E)
  <2>. HIDE DEF E
  <2>. QED BY <1>1, <1>3, <1>4, RecursionUpTo
<1>6. Eq(g)
  <2>1. ASSUME NEW k \in 0..n PROVE g[k] = IF k = 0 THEN N ELSE step(k, g[k - 1])
    <3>1. g[k] = IF k = 0 THEN N ELSE E[k][g[k - 1]]
      <4>. HIDE DEF E
      <4>. QED BY <1>5 DEF Recurs
    <3>2. k # 0 => k \in 1..n /\ k - 1 \in 0..n
      BY <1>1
    <3>. QED BY <3>1, <3>2
  <2>2. g = [k \in 0..n |-> g[k]]
    OBVIOUS
  <2>. QED BY <2>1, <2>2
<1>7. Eq(done)
  <2>. HIDE DEF Eq
  <2>. QED BY <1>6
<1>8. \A k \in 0..n : done[k] = IF k = 0 THEN N ELSE step(k, done[k - 1])
  <2>. HIDE DEF done
  <2>. QED BY <1>7, Zenon
<1>. HIDE DEF done
<1>9. done[0] \in V /\ \A k \in 1..n : done[k - 1] \in V => done[k] \in V
  BY <1>1, <1>2, <1>3, <1>8
<1>. HIDE DEF E, Eq
<1>. QED BY <1>1, <1>9, StaysIn

LEMMA ProcessedOK ==
    ASSUME NEW c \in ProofMsg, NEW N \in Syncing(c), NEW order \in Orders
    PROVE  _processCatchupReplies(N, order) \in Syncing(c)
<1>. DEFINE after[k \in 0..Len(N.receivedCatchUpReplies)] ==
                IF k = 0 THEN N ELSE appendPiece(after[k - 1], order)
            M == after[Len(N.receivedCatchUpReplies)]
            trimmed == [M EXCEPT !.receivedCatchUpReplies = New(M)]
            broken == [M EXCEPT !.halted = TRUE]
            p == Sender(M, order)
            rest == Piece(M, p).rest
            refused == blacklistNode(rest, p)
<1>1. M \in Syncing(c)
  BY AppendedOK
<1>2. _processCatchupReplies(N, order) =
         IF ~NextHere(M) THEN trimmed ELSE IF ~Held(M) THEN broken ELSE refused
  BY DEF _processCatchupReplies
<1>. HIDE DEF after, M
<1>3. M \in NodeState /\ Good(M) /\ M.state = "syncing" /\ M.catchUpTill = c
  BY <1>1 DEF Syncing
<1>4. trimmed \in Syncing(c)
  <2>1. New(M) \in Queues
    BY <1>3, NewOK
  <2>2. /\ trimmed \in NodeState /\ trimmed.ledger = M.ledger /\ trimmed.state = "syncing"
        /\ trimmed.catchUpTill = c /\ trimmed.recvdConsistencyProofs = M.recvdConsistencyProofs
    BY <1>3, <2>1 DEF NodeState
  <2>. HIDE DEF trimmed
  <2>. QED BY <1>3, <2>2 DEF Good, NullProofs, Syncing
<1>5. broken \in Syncing(c)
  <2>1. /\ broken \in NodeState /\ broken.ledger = M.ledger /\ broken.state = "syncing"
        /\ broken.catchUpTill = c /\ broken.recvdConsistencyProofs = M.recvdConsistencyProofs
    BY <1>3 DEF NodeState
  <2>. HIDE DEF broken
  <2>. QED BY <1>3, <2>1 DEF Good, NullProofs, Syncing
<1>6. ASSUME Held(M) PROVE refused \in Syncing(c)
  <2>1. p \in Holders(M, Len(M.ledger) + 1) /\ p \in Peers
    BY <1>6, SenderOK, PoolFacts DEF Holders
  <2>. HIDE DEF p
  <2>2. /\ rest = [M EXCEPT !.recvdCatchupRepliesFrm = rest.recvdCatchupRepliesFrm,
                            !.receivedCatchUpReplies = rest.receivedCatchUpReplies]
        /\ rest \in NodeState
    BY <1>3, <2>1, PieceOK
  <2>. HIDE DEF rest
  <2>3. /\ rest.ledger = M.ledger /\ rest.state = "syncing" /\ rest.catchUpTill = c
        /\ rest.recvdConsistencyProofs = M.recvdConsistencyProofs
    BY <1>3, <2>2 DEF NodeState
  <2>4. /\ refused \in NodeState /\ refused.ledger = M.ledger /\ refused.state = "syncing"
        /\ refused.catchUpTill = c /\ refused.recvdConsistencyProofs = M.recvdConsistencyProofs
    BY <2>1, <2>2, <2>3 DEF NodeState, blacklistNode
  <2>. HIDE DEF refused
  <2>. QED BY <1>3, <2>4 DEF Good, NullProofs, Syncing
<1>. HIDE DEF trimmed, broken, refused
<1>. QED BY <1>2, <1>4, <1>5, <1>6 DEF Held

\* What is not greater comes first.
LEMMA FirstOnes ==
    ASSUME NEW n \in Nat, NEW S, S \subseteq 1..n,
           \A i \in S : \A j \in 1..n : j <= i => j \in S
    PROVE  Cardinality(S) \in 0..n /\ S = 1..Cardinality(S)
<1>. DEFINE T == {k \in 0..n : \E c \in 0..k : S \cap (1..k) = 1..c}
<1>1. 0 \in T
  <2>1. S \cap (1..0) = 1..0 /\ 0 \in 0..0 /\ 0 \in 0..n
    OBVIOUS
  <2>. QED BY <2>1
<1>2. ASSUME NEW k \in 0..(n - 1), k \in T PROVE k + 1 \in T
  <2>1. PICK c \in 0..k : S \cap (1..k) = 1..c
    BY <1>2
  <2>2. k + 1 \in 0..n /\ k + 1 \in 1..n /\ 1..(k + 1) = (1..k) \cup {k + 1} /\ k \in Nat
    OBVIOUS
  <2>3. CASE k + 1 \in S
    <3>1. 1..(k + 1) \subseteq S
      BY <2>2, <2>3
    <3>2. S \cap (1..(k + 1)) = 1..(k + 1) /\ k + 1 \in 0..(k + 1)
      BY <2>2, <3>1
    <3>. QED BY <2>2, <3>2
  <2>4. CASE k + 1 \notin S
    <3>1. S \cap (1..(k + 1)) = 1..c /\ c \in 0..(k + 1)
      BY <2>1, <2>2, <2>4
    <3>. QED BY <2>2, <3>1
  <2>. QED BY <2>3, <2>4
<1>. HIDE DEF T
<1>3. n \in T
  <2>1. 0..n \subseteq T
    BY <1>1, <1>2, InductionUpTo
  <2>. QED BY <2>1
<1>4. PICK c \in 0..n : S = 1..c
  BY <1>3 DEF T
<1>5. Cardinality(S) = c
  BY <1>4, FS_Interval
<1>. QED BY <1>4, <1>5

LEMMA InsertOK ==
    ASSUME NEW a \in Queues, NEW n \in Int
    PROVE  Insert(a, n) \in Queues
<1>. DEFINE upTo == {i \in DOMAIN a : a[i] <= n}
            c == Cardinality(upTo)
            b == Insert(a, n)
<1>1. /\ Len(a) \in Nat /\ DOMAIN a = 1..Len(a) /\ a \in Seq(Int)
      /\ \A i, j \in 1..Len(a) : i <= j => a[i] <= a[j]
      /\ \A i \in 1..Len(a) : a[i] \in Int
  BY DEF Queues
<1>2. c \in 0..Len(a) /\ upTo = 1..c
  <2>1. upTo \subseteq 1..Len(a)
    BY <1>1
  <2>2. \A i \in upTo : \A j \in 1..Len(a) : j <= i => j \in upTo
    <3>. SUFFICES ASSUME NEW i \in upTo, NEW j \in 1..Len(a), j <= i PROVE a[j] <= n
      BY <1>1
    <3>1. a[j] <= a[i] /\ a[i] <= n /\ a[j] \in Int /\ a[i] \in Int
      BY <1>1
    <3>. QED BY <3>1
  <2>. HIDE DEF upTo
  <2>. QED BY <1>1, <2>1, <2>2, FirstOnes
<1>3. /\ \A i \in 1..c : i \in 1..Len(a) /\ a[i] <= n
      /\ \A i \in 1..Len(a) : i > c => n <= a[i]
  <2>1. \A i \in 1..Len(a) : i \in 1..c <=> a[i] <= n
    BY <1>1, <1>2
  <2>. HIDE DEF c
  <2>. QED BY <1>1, <1>2, <2>1
<1>4. b = SubSeq(a, 1, (c + 1) - 1) \o <<n>> \o SubSeq(a, c + 1, Len(a))
  BY DEF Insert, InsertAt
<1>. HIDE DEF c, b, upTo
<1>5. SubSeq(a, 1, (c + 1) - 1) \in Seq(Int) /\ SubSeq(a, c + 1, Len(a)) \in Seq(Int)
  BY <1>1, <1>2
<1>6. <<n>> \in Seq(Int)
  OBVIOUS
<1>7. /\ b \in Seq(Int) /\ Len(b) = Len(a) + 1
      /\ \A i \in 1..Len(b) : b[i] = IF i <= c THEN a[i] ELSE IF i = c + 1 THEN n ELSE a[i - 1]
  <2>. DEFINE x == SubSeq(a, 1, (c + 1) - 1)
              y == <<n>>
              z == SubSeq(a, c + 1, Len(a))
  <2>1. /\ x \in Seq(Int) /\ Len(x) = c /\ \A i \in 1..c : x[i] = a[i]
        /\ z \in Seq(Int) /\ Len(z) = Len(a) - c /\ \A i \in 1..Len(z) : z[i] = a[c + i]
        /\ y \in Seq(Int) /\ Len(y) = 1 /\ y[1] = n
    <3>1. c \in Nat /\ c <= Len(a) /\ (c + 1) - 1 = c
      BY <1>1, <1>2
    <3>2. x \in Seq(Int) /\ z \in Seq(Int) /\ y \in Seq(Int)
      BY <1>5, <1>6
    <3>3. Len(x) = c /\ \A i \in 1..c : x[i] = a[i]
      BY <1>1, <3>1
    <3>4. Len(z) = Len(a) - c /\ \A i \in 1..Len(z) : z[i] = a[c + i]
      <4>. DEFINE m == c + 1
      <4>0. m \in Int /\ Len(a) - m + 1 = Len(a) - c /\ (m <= Len(a) \/ m = Len(a) + 1)
            /\ z = SubSeq(a, m, Len(a)) /\ m >= 1
        BY <1>1, <3>1
      <4>. HIDE DEF m, z
      <4>1. Len(z) = Len(a) - c
        <5>1. CASE m <= Len(a)
          BY <1>1, <4>0, <5>1
        <5>2. CASE m = Len(a) + 1
          BY <1>1, <4>0, <5>2
        <5>. QED BY <4>0, <5>1, <5>2
      <4>2. ASSUME NEW i \in 1..Len(z) PROVE z[i] = a[c + i]
        <5>1. i \in 1..(Len(a) - c) /\ c + i = c + 1 + i - 1
          BY <1>1, <3>1, <4>1
        <5>2. z[i] = a[m + i - 1]
          <6>1. \A j \in m..Len(a) : a[j] \in Int
            BY <1>1, <4>0
          <6>2. \A j \in 1..(Len(a) - m + 1) : z[j] = a[m + j - 1]
            BY <1>1, <4>0, <6>1, SubSeqProperties
          <6>. QED BY <4>0, <5>1, <6>2
        <5>. QED BY <5>1, <5>2 DEF m
      <4>. QED BY <4>1, <4>2
    <3>5. Len(y) = 1 /\ y[1] = n
      OBVIOUS
    <3>. QED BY <3>2, <3>3, <3>4, <3>5, Zenon
  <2>. HIDE DEF x, y, z
  <2>. DEFINE u == x \o y
  <2>2. u \in Seq(Int) /\ Len(u) = c + 1 /\ \A i \in 1..(c + 1) : u[i] = IF i <= c THEN a[i] ELSE n
    <3>1. /\ u \in Seq(Int) /\ Len(u) = Len(x) + Len(y)
          /\ \A i \in 1..Len(x) + Len(y) : u[i] = IF i <= Len(x) THEN x[i] ELSE y[i - Len(x)]
      BY <2>1, ConcatProperties
    <3>. HIDE DEF u
    <3>2. c \in Nat /\ Len(u) = c + 1
      BY <1>1, <1>2, <2>1, <3>1
    <3>3. ASSUME NEW i \in 1..(c + 1) PROVE u[i] = IF i <= c THEN a[i] ELSE n
      <4>1. u[i] = IF i <= c THEN x[i] ELSE y[i - c]
        BY <2>1, <3>1, <3>2
      <4>2. CASE i <= c
        BY <2>1, <3>2, <4>1, <4>2
      <4>3. CASE ~(i <= c)
        <5>1. i - c = 1
          BY <3>2, <4>3
        <5>. QED BY <2>1, <4>1, <4>3, <5>1
      <4>. QED BY <4>2, <4>3
    <3>. QED BY <3>1, <3>2, <3>3
  <2>3. b = u \o z
    BY <1>4 DEF x, y, z
  <2>. HIDE DEF u
  <2>0. /\ b \in Seq(Int) /\ Len(b) = Len(u) + Len(z)
        /\ \A i \in 1..Len(u) + Len(z) : b[i] = IF i <= Len(u) THEN u[i] ELSE z[i - Len(u)]
    <3>1. u \in Seq(Int) /\ z \in Seq(Int)
      BY <2>1, <2>2
    <3>. QED BY <2>3, <3>1, ConcatProperties
  <2>4. b \in Seq(Int) /\ Len(b) = Len(a) + 1
    BY <1>1, <1>2, <2>0, <2>1, <2>2
  <2>5. \A i \in 1..Len(b) : b[i] = IF i <= c + 1 THEN u[i] ELSE z[i - (c + 1)]
    BY <2>0, <2>2
  <2>6. ASSUME NEW i \in 1..Len(b)
        PROVE  b[i] = IF i <= c THEN a[i] ELSE IF i = c + 1 THEN n ELSE a[i - 1]
    <3>1. CASE i <= c + 1
      BY <1>2, <2>2, <2>5, <3>1
    <3>2. CASE i > c + 1
      <4>1. i - (c + 1) \in 1..Len(z) /\ c + (i - (c + 1)) = i - 1
        BY <1>1, <1>2, <2>1, <2>4, <3>2
      <4>2. b[i] = z[i - (c + 1)]
        BY <1>2, <2>5, <3>2
      <4>3. z[i - (c + 1)] = a[c + (i - (c + 1))]
        BY <2>1, <4>1
      <4>4. ~(i <= c) /\ i # c + 1
        BY <1>2, <3>2
      <4>. QED BY <4>1, <4>2, <4>3, <4>4
    <3>. QED BY <1>2, <3>1, <3>2
  <2>. QED BY <2>4, <2>6
<1>8. ASSUME NEW i \in 1..Len(b), NEW j \in 1..Len(b), i <= j PROVE b[i] <= b[j]
  <2>1. CASE j <= c
    <3>1. i \in 1..Len(a) /\ j \in 1..Len(a) /\ b[i] = a[i] /\ b[j] = a[j]
      BY <1>1, <1>2, <1>7, <1>8, <2>1
    <3>. QED BY <1>1, <1>8, <3>1
  <2>2. CASE j = c + 1
    <3>1. b[j] = n
      BY <1>2, <1>7, <2>2
    <3>2. CASE i = j
      BY <3>1, <3>2
    <3>3. CASE i # j
      <4>1. i \in 1..c /\ b[i] = a[i]
        BY <1>2, <1>7, <1>8, <2>2, <3>3
      <4>. QED BY <1>3, <3>1, <4>1
    <3>. QED BY <3>2, <3>3
  <2>3. CASE j > c + 1
    <3>1. b[j] = a[j - 1] /\ j - 1 \in 1..Len(a) /\ j - 1 > c
      BY <1>1, <1>2, <1>7, <2>3
    <3>2. n <= a[j - 1]
      BY <1>3, <3>1
    <3>3. CASE i <= c
      <4>1. b[i] = a[i] /\ i \in 1..Len(a) /\ i <= j - 1
        BY <1>1, <1>2, <1>7, <1>8, <2>3, <3>3
      <4>. QED BY <1>1, <3>1, <4>1
    <3>4. CASE i = c + 1
      <4>1. b[i] = n
        BY <1>2, <1>7, <3>4
      <4>. QED BY <3>1, <3>2, <4>1
    <3>5. CASE i > c + 1
      <4>1. b[i] = a[i - 1] /\ i - 1 \in 1..Len(a) /\ i - 1 <= j - 1
        BY <1>1, <1>2, <1>7, <1>8, <3>5
      <4>. QED BY <1>1, <3>1, <4>1
    <3>. QED BY <1>2, <3>3, <3>4, <3>5
  <2>. QED BY <1>2, <2>1, <2>2, <2>3
<1>. QED BY <1>7, <1>8 DEF Queues, b

LEMMA MergeOK ==
    ASSUME NEW a \in Queues, NEW r \in ReplyMsg
    PROVE  Merge(a, r) \in Queues
<1>. DEFINE n == r.e - r.s + 1
            V == Queues
            step(k, x) == Insert(x, r.s + k - 1)
            E == [k \in 1..n |-> [x \in V |-> step(k, x)]]
            Eq(g) == g = [k \in 0..n |-> IF k = 0 THEN a ELSE step(k, g[k - 1])]
            done == CHOOSE g : Eq(g)
<1>1. n \in Nat /\ r.s \in Int
  BY DEF ReplyMsg
<1>2. \A k \in 1..n, x \in V : step(k, x) \in V
  <2>1. \A k \in 1..n : r.s + k - 1 \in Int
    BY <1>1
  <2>. QED BY <2>1, InsertOK, Zenon
<1>3. Merge(a, r) = done[n]
  BY DEF Merge
<1>4. a \in V
  OBVIOUS
<1>. HIDE DEF n, V, step
<1>5. E \in [1..n -> [V -> V]]
  BY <1>2
<1>6. PICK g \in [0..n -> V] : Recurs(g, n, a, E)
  <2>. HIDE DEF E
  <2>. QED BY <1>1, <1>4, <1>5, RecursionUpTo
<1>7. Eq(g)
  <2>1. ASSUME NEW k \in 0..n PROVE g[k] = IF k = 0 THEN a ELSE step(k, g[k - 1])
    <3>1. g[k] = IF k = 0 THEN a ELSE E[k][g[k - 1]]
      <4>. HIDE DEF E
      <4>. QED BY <1>6 DEF Recurs
    <3>2. k # 0 => k \in 1..n /\ k - 1 \in 0..n
      BY <1>1
    <3>. QED BY <3>1, <3>2
  <2>2. g = [k \in 0..n |-> g[k]]
    OBVIOUS
  <2>. QED BY <2>1, <2>2
<1>8. Eq(done)
  <2>. HIDE DEF Eq
  <2>. QED BY <1>7
<1>9. \A k \in 0..n : done[k] = IF k = 0 THEN a ELSE step(k, done[k - 1])
  <2>. HIDE DEF done
  <2>. QED BY <1>8, Zenon
<1>. HIDE DEF done
<1>10. done[0] \in V /\ \A k \in 1..n : done[k - 1] \in V => done[k] \in V
  BY <1>1, <1>2, <1>4, <1>9
<1>11. done[n] \in V
  <2>. HIDE DEF E, Eq
  <2>. QED BY <1>1, <1>10, StaysIn
<1>. QED BY <1>3, <1>11 DEF V

LEMMA CatchupRepOK ==
    ASSUME NEW N, Good(N), NEW p \in Peers, NEW r \in ReplyMsg, NEW order \in Orders
    PROVE  LET M == processCatchupRep(N, p, r, order) IN Good(M) /\ Ends(N, M)
<1>. DEFINE waits == Merge(N.receivedCatchUpReplies, r)
            A == [N EXCEPT !.recvdCatchupRepliesFrm[p] = Append(@, r),
                           !.receivedCatchUpReplies = waits]
            M == _processCatchupReplies(A, order)
            B == [M EXCEPT !.catchUpTill = NoEntry]
            C == catchupCompleted(B, M.catchUpTill.ppSeqNo)
            R == processCatchupRep(N, p, r, order)
<1>1. R = IF ~canProcessCatchupReply(N, r) THEN N
          ELSE IF M.catchUpTill.end = Len(M.ledger) /\ ~M.halted THEN C ELSE M
  BY DEF processCatchupRep
<1>2. CASE ~canProcessCatchupReply(N, r)
  <2>1. R = N
    BY <1>1, <1>2
  <2>2. Good(R) /\ Ends(N, R)
    <3>. HIDE DEF R
    <3>. QED BY <2>1 DEF Ends
  <2>. QED BY <2>2
<1>3. CASE canProcessCatchupReply(N, r)
  <2>. DEFINE c == N.catchUpTill
  <2>1. N \in NodeState /\ N.state = "syncing" /\ c \in ProofMsg
    BY <1>3 DEF canProcessCatchupReply, Good
  <2>2. /\ waits \in Queues
        /\ [N.recvdCatchupRepliesFrm EXCEPT ![p] = Append(@, r)] \in [Peers -> Seq(ReplyMsg)]
    BY <2>1, MergeOK DEF NodeState
  <2>. HIDE DEF waits
  <2>3. /\ A \in NodeState /\ A.ledger = N.ledger /\ A.state = "syncing" /\ A.catchUpTill = c
        /\ A.recvdConsistencyProofs = N.recvdConsistencyProofs
    BY <2>1, <2>2 DEF NodeState
  <2>. HIDE DEF A, c
  <2>4. A \in Syncing(c)
    BY <2>1, <2>3 DEF Good, NullProofs, Syncing
  <2>5. M \in Syncing(c)
    BY <2>1, <2>4, ProcessedOK
  <2>6. M \in NodeState /\ Good(M) /\ M.state = "syncing" /\ M.catchUpTill = c
    BY <2>5 DEF Syncing
  <2>. HIDE DEF M
  <2>7. ASSUME c.end = Len(M.ledger) PROVE Good(C) /\ Len(C.ledger) >= PoolSize
    <3>1. c.end >= PoolSize /\ c.ppSeqNo \in Int
      BY <2>1 DEF ProofMsg, Sizes
    <3>2. B \in NodeState /\ B.ledger = M.ledger
      BY <2>6 DEF NodeState
    <3>. HIDE DEF B
    <3>3. B.ledger = [i \in 1..Len(B.ledger) |-> i] /\ Len(B.ledger) >= PoolSize
      BY <2>6, <2>7, <3>1, <3>2 DEF Good
    <3>4. M.catchUpTill.ppSeqNo \in Int
      BY <2>6, <3>1
    <3>5. Good(C) /\ C.ledger = B.ledger
      BY <3>2, <3>3, <3>4, CompletedOK
    <3>. QED BY <3>3, <3>5
  <2>. HIDE DEF C
  <2>8. Good(R) /\ Ends(N, R)
    <3>. HIDE DEF R
    <3>. QED BY <1>1, <1>3, <2>6, <2>7 DEF Ends
  <2>. QED BY <2>8
<1>. QED BY <1>2, <1>3

\* The gaps before the first k replies that wait, as MissingRanges counts them.
GapState == [last : Int, left : Int, reqs : Seq(Pieces)]

NoGaps(N) ==
    LET own == Len(N.ledger)
    IN  [last |-> own, reqs |-> <<>>,
         left |-> N.catchUpTill.end - own - Len(N.receivedCatchUpReplies)]

NextGap(N, batchSize, k, x) ==
    LET n == N.receivedCatchUpReplies[k]
    IN  IF n - x.last = 1 THEN [x EXCEPT !.last = n]
        ELSE [last |-> n, left |-> x.left - (n - x.last - 1),
              reqs |-> x.reqs \o addReqsForMissing(x.last + 1, n - 1, batchSize)]

Gaps(N, batchSize, g) ==
    /\ \A k \in 0..Len(N.receivedCatchUpReplies) : g[k] \in GapState
    /\ g[0] = NoGaps(N)
    /\ \A k \in 1..Len(N.receivedCatchUpReplies) : g[k] = NextGap(N, batchSize, k, g[k - 1])

LEMMA MissingRangesSteps ==
    ASSUME NEW N, Good(N), N.catchUpTill \in ProofMsg, NEW batchSize \in Nat, batchSize > 0
    PROVE  \E g : LET x == g[Len(N.receivedCatchUpReplies)]
                      end == N.catchUpTill.end
                  IN  /\ Gaps(N, batchSize, g)
                      /\ MissingRanges(N, batchSize) =
                            x.reqs \o (IF x.left > 0 /\ x.last # end
                                       THEN addReqsForMissing(x.last + 1, end, batchSize)
                                       ELSE <<>>)
<1>. DEFINE end == N.catchUpTill.end
            waits == N.receivedCatchUpReplies
            own == Len(N.ledger)
            n == Len(waits)
            V == GapState
            first == NoGaps(N)
            step(k, x) == NextGap(N, batchSize, k, x)
            E == [k \in 1..n |-> [x \in V |-> step(k, x)]]
            Eq(g) == g = [k \in 0..n |-> IF k = 0 THEN first ELSE step(k, g[k - 1])]
            done == CHOOSE g : Eq(g)
<1>1. n \in Nat /\ own \in Nat /\ end \in Nat /\ \A k \in 1..n : waits[k] \in Int
  <2>1. waits \in Seq(Int)
    BY WaitsOK DEF Good
  <2>2. own \in Nat /\ end \in Nat
    BY DEF Good, NodeState, ProofMsg, Sizes
  <2>. QED BY <2>1, <2>2
<1>2. first \in V
  <2>1. <<>> \in Seq(Pieces)
    OBVIOUS
  <2>. QED BY <1>1, <2>1 DEF NoGaps, GapState
<1>3. ASSUME NEW k \in 1..n, NEW x \in V PROVE step(k, x) \in V
  <2>. DEFINE i == waits[k]
              more == addReqsForMissing(x.last + 1, i - 1, batchSize)
  <2>1. i \in Int /\ x.last \in Int /\ x.left \in Int /\ x.reqs \in Seq(Pieces)
    BY <1>1 DEF GapState
  <2>2. step(k, x) = IF i - x.last = 1 THEN [x EXCEPT !.last = i]
                     ELSE [last |-> i, left |-> x.left - (i - x.last - 1), reqs |-> x.reqs \o more]
    BY DEF NextGap
  <2>. HIDE DEF i
  <2>3. [x EXCEPT !.last = i] \in V
    BY <2>1 DEF GapState
  <2>4. more \in Seq(Pieces)
    <3>1. x.last + 1 \in Int /\ i - 1 \in Int
      BY <2>1
    <3>. QED BY <3>1, PiecesOK, Zenon
  <2>. HIDE DEF more
  <2>5. x.reqs \o more \in Seq(Pieces)
    BY <2>1, <2>4
  <2>6. [last |-> i, left |-> x.left - (i - x.last - 1), reqs |-> x.reqs \o more] \in V
    BY <2>1, <2>5 DEF GapState
  <2>. HIDE DEF step, V
  <2>. QED BY <2>2, <2>3, <2>6
<1>4. MissingRanges(N, batchSize) =
         done[n].reqs \o (IF done[n].left > 0 /\ done[n].last # end
                          THEN addReqsForMissing(done[n].last + 1, end, batchSize) ELSE <<>>)
  BY DEF MissingRanges, NoGaps, NextGap
<1>. HIDE DEF n, V, step, first, end
<1>5. E \in [1..n -> [V -> V]]
  BY <1>3
<1>6. PICK g \in [0..n -> V] : Recurs(g, n, first, E)
  <2>. HIDE DEF E
  <2>. QED BY <1>1, <1>2, <1>5, RecursionUpTo
<1>7. Eq(g)
  <2>1. ASSUME NEW k \in 0..n PROVE g[k] = IF k = 0 THEN first ELSE step(k, g[k - 1])
    <3>1. g[k] = IF k = 0 THEN first ELSE E[k][g[k - 1]]
      <4>. HIDE DEF E
      <4>. QED BY <1>6 DEF Recurs
    <3>2. k # 0 => k \in 1..n /\ k - 1 \in 0..n
      BY <1>1
    <3>. QED BY <3>1, <3>2
  <2>2. g = [k \in 0..n |-> g[k]]
    OBVIOUS
  <2>. QED BY <2>1, <2>2
<1>8. Eq(done)
  <2>. HIDE DEF Eq
  <2>. QED BY <1>7
<1>9. \A k \in 0..n : done[k] = IF k = 0 THEN first ELSE step(k, done[k - 1])
  <2>. HIDE DEF done
  <2>. QED BY <1>8, Zenon
<1>. HIDE DEF done
<1>10. done[0] = first /\ \A k \in 1..n : done[k] = step(k, done[k - 1])
  BY <1>1, <1>9
<1>11. ASSUME NEW m \in 0..n PROVE done[m] \in V
  <2>1. done[0] \in V /\ \A k \in 1..m : done[k - 1] \in V => done[k] \in V
    BY <1>1, <1>2, <1>3, <1>10
  <2>. HIDE DEF E, Eq
  <2>. QED BY <1>1, <2>1, StaysIn
<1>12. Gaps(N, batchSize, done)
  BY <1>10, <1>11 DEF Gaps, n, V, first, step
<1>. QED BY <1>4, <1>12 DEF n, end

LEMMA MissingRangesOK ==
    ASSUME NEW N, Good(N), N.catchUpTill \in ProofMsg, NEW batchSize \in Nat, batchSize > 0
    PROVE  MissingRanges(N, batchSize) \in Seq(Pieces)
<1>. DEFINE n == Len(N.receivedCatchUpReplies)
            end == N.catchUpTill.end
<1>1. n \in Nat /\ end \in Int
  BY WaitsOK DEF Good, ProofMsg, Sizes
<1>2. PICK g : /\ Gaps(N, batchSize, g)
               /\ MissingRanges(N, batchSize) =
                     g[n].reqs \o (IF g[n].left > 0 /\ g[n].last # end
                                   THEN addReqsForMissing(g[n].last + 1, end, batchSize) ELSE <<>>)
  BY MissingRangesSteps
<1>3. g[n].last \in Int /\ g[n].reqs \in Seq(Pieces)
  BY <1>1, <1>2 DEF Gaps, GapState
<1>. HIDE DEF n, end
<1>4. addReqsForMissing(g[n].last + 1, end, batchSize) \in Seq(Pieces)
  <2>1. g[n].last + 1 \in Int
    BY <1>3
  <2>. QED BY <1>1, <2>1, PiecesOK, Zenon
<1>5. <<>> \in Seq(Pieces)
  OBVIOUS
<1>. QED BY <1>2, <1>3, <1>4, <1>5

\* The requests that ask for transaction m: none of them, or exactly one.
Asking(reqs, m) == {i \in DOMAIN reqs : Covers(reqs[i], m)}
AskedNever(reqs, m) == Asking(reqs, m) = {}
AskedExactlyOnce(reqs, m) == \E i \in DOMAIN reqs : Asking(reqs, m) = {i}

LEMMA RangeAsks ==
    ASSUME NEW frm \in Int, NEW to \in Int, NEW batchSize \in Nat, batchSize > 0, NEW m \in Int
    PROVE  LET reqs == addReqsForMissing(frm, to, batchSize)
           IN  /\ m \in frm..to => AskedExactlyOnce(reqs, m)
               /\ m \notin frm..to => AskedNever(reqs, m)
<1>. DEFINE reqs == addReqsForMissing(frm, to, batchSize)
<1>1. ASSUME m \in frm..to PROVE AskedExactlyOnce(reqs, m)
  <2>1. PICK i \in DOMAIN reqs :
           Covers(reqs[i], m) /\ \A j \in DOMAIN reqs : Covers(reqs[j], m) => j = i
    BY <1>1, AskedOnce
  <2>. HIDE DEF reqs
  <2>2. Asking(reqs, m) = {i}
    BY <2>1 DEF Asking
  <2>. QED BY <2>2 DEF AskedExactlyOnce
<1>2. ASSUME m \notin frm..to PROVE AskedNever(reqs, m)
  <2>1. \A i \in DOMAIN reqs : frm <= reqs[i].s /\ reqs[i].s <= reqs[i].e /\ reqs[i].e <= to
    BY AskedIsMissing
  <2>2. reqs \in Seq(Pieces)
    BY PiecesOK, Zenon
  <2>. HIDE DEF reqs
  <2>3. ASSUME NEW i \in DOMAIN reqs PROVE ~Covers(reqs[i], m)
    <3>1. reqs[i] \in Pieces
      BY <2>2
    <3>2. reqs[i].s \in Int /\ reqs[i].e \in Int
      BY <3>1 DEF Pieces
    <3>. QED BY <1>2, <2>1, <3>2 DEF Covers
  <2>. QED BY <2>3 DEF AskedNever, Asking
<1>. QED BY <1>1, <1>2

\* Requests that do not ask for m change nothing, in front or behind.
LEMMA JoinedAsks ==
    ASSUME NEW a \in Seq(Pieces), NEW b \in Seq(Pieces), NEW m \in Int
    PROVE  /\ AskedNever(a, m) /\ AskedNever(b, m) => AskedNever(a \o b, m)
           /\ AskedNever(a, m) /\ AskedExactlyOnce(b, m) => AskedExactlyOnce(a \o b, m)
           /\ AskedExactlyOnce(a, m) /\ AskedNever(b, m) => AskedExactlyOnce(a \o b, m)
<1>. DEFINE c == a \o b
<1>1. /\ Len(a) \in Nat /\ Len(b) \in Nat /\ Len(c) = Len(a) + Len(b)
      /\ DOMAIN a = 1..Len(a) /\ DOMAIN b = 1..Len(b) /\ DOMAIN c = 1..(Len(a) + Len(b))
      /\ \A i \in 1..(Len(a) + Len(b)) : c[i] = IF i <= Len(a) THEN a[i] ELSE b[i - Len(a)]
  <2>1. c \in Seq(Pieces)
    BY ConcatProperties
  <2>. QED BY <2>1, ConcatProperties
<1>. HIDE DEF c
<1>2. ASSUME NEW i \in DOMAIN c, Covers(c[i], m)
      PROVE  \/ i \in Asking(a, m)
             \/ i - Len(a) \in Asking(b, m)
  <2>1. CASE i <= Len(a)
    <3>1. c[i] = a[i] /\ i \in DOMAIN a
      BY <1>1, <2>1
    <3>. QED BY <1>2, <3>1 DEF Asking
  <2>2. CASE ~(i <= Len(a))
    <3>1. c[i] = b[i - Len(a)] /\ i - Len(a) \in DOMAIN b
      BY <1>1, <2>2
    <3>. QED BY <1>2, <3>1 DEF Asking
  <2>. QED BY <2>1, <2>2
<1>3. ASSUME NEW i \in Asking(a, m) PROVE i \in Asking(c, m)
  <2>1. i \in DOMAIN a /\ Covers(a[i], m)
    BY DEF Asking
  <2>2. i \in DOMAIN c /\ c[i] = a[i]
    BY <1>1, <2>1
  <2>. QED BY <2>1, <2>2 DEF Asking
<1>4. ASSUME NEW i \in Asking(b, m) PROVE Len(a) + i \in Asking(c, m)
  <2>1. i \in DOMAIN b /\ Covers(b[i], m)
    BY DEF Asking
  <2>2. Len(a) + i \in DOMAIN c /\ c[Len(a) + i] = b[i]
    <3>1. Len(a) + i \in 1..(Len(a) + Len(b)) /\ ~(Len(a) + i <= Len(a)) /\ (Len(a) + i) - Len(a) = i
      BY <1>1, <2>1
    <3>. QED BY <1>1, <3>1
  <2>. QED BY <2>1, <2>2 DEF Asking
<1>5. ASSUME AskedNever(a, m), AskedNever(b, m) PROVE AskedNever(c, m)
  BY <1>2, <1>5 DEF AskedNever, Asking
<1>6. ASSUME AskedNever(a, m), AskedExactlyOnce(b, m) PROVE AskedExactlyOnce(c, m)
  <2>1. PICK i \in DOMAIN b : Asking(b, m) = {i}
    BY <1>6 DEF AskedExactlyOnce
  <2>2. Len(a) + i \in Asking(c, m)
    BY <1>4, <2>1
  <2>3. ASSUME NEW j \in Asking(c, m) PROVE j = Len(a) + i
    <3>1. j \in DOMAIN c /\ Covers(c[j], m)
      BY DEF Asking
    <3>2. j - Len(a) = i
      BY <1>2, <1>6, <2>1, <3>1 DEF AskedNever
    <3>. QED BY <1>1, <3>1, <3>2
  <2>4. Asking(c, m) = {Len(a) + i} /\ Len(a) + i \in DOMAIN c
    BY <2>2, <2>3 DEF Asking
  <2>. QED BY <2>4 DEF AskedExactlyOnce
<1>7. ASSUME AskedExactlyOnce(a, m), AskedNever(b, m) PROVE AskedExactlyOnce(c, m)
  <2>1. PICK i \in DOMAIN a : Asking(a, m) = {i}
    BY <1>7 DEF AskedExactlyOnce
  <2>2. i \in Asking(c, m)
    BY <1>3, <2>1
  <2>3. ASSUME NEW j \in Asking(c, m) PROVE j = i
    <3>1. j \in DOMAIN c /\ Covers(c[j], m)
      BY DEF Asking
    <3>. QED BY <1>2, <1>7, <2>1, <3>1 DEF AskedNever
  <2>4. Asking(c, m) = {i} /\ i \in DOMAIN c
    BY <2>2, <2>3 DEF Asking
  <2>. QED BY <2>4 DEF AskedExactlyOnce
<1>. QED BY <1>5, <1>6, <1>7 DEF c

\* What is asked for before the k-th reply that waits, with what is left.
SoFar(N, g, m, k) ==
    LET waits == N.receivedCatchUpReplies
        wanted == m <= g[k].last /\ \A i \in 1..k : waits[i] # m
    IN  /\ g[k].last = IF k = 0 THEN Len(N.ledger) ELSE waits[k]
        /\ g[k].left = N.catchUpTill.end - g[k].last - (Len(waits) - k)
        /\ wanted => AskedExactlyOnce(g[k].reqs, m)
        /\ ~wanted => AskedNever(g[k].reqs, m)

LEMMA GapsSoFar ==
    ASSUME NEW N, Good(N), N.catchUpTill \in ProofMsg, NEW batchSize \in Nat, batchSize > 0,
           NEW g, Gaps(N, batchSize, g),
           NEW m \in Int, m > Len(N.ledger),
           NEW k \in 0..Len(N.receivedCatchUpReplies)
    PROVE  SoFar(N, g, m, k)
<1>. DEFINE waits == N.receivedCatchUpReplies
            n == Len(waits)
            own == Len(N.ledger)
            end == N.catchUpTill.end
            wanted(j) == m <= g[j].last /\ \A i \in 1..j : waits[i] # m
            P(j) == /\ g[j].last = IF j = 0 THEN own ELSE waits[j]
                    /\ g[j].left = end - g[j].last - (n - j)
                    /\ wanted(j) => AskedExactlyOnce(g[j].reqs, m)
                    /\ ~wanted(j) => AskedNever(g[j].reqs, m)
            S == {j \in 0..n : P(j)}
<1>1. /\ n \in Nat /\ own \in Nat /\ end \in Nat
      /\ \A i \in 1..n : waits[i] \in Int
      /\ \A i, j \in 1..n : i <= j => waits[i] <= waits[j]
  <2>1. waits \in Seq(Int) /\ waits \in Queues
    BY WaitsOK DEF Good
  <2>2. own \in Nat /\ end \in Nat
    BY DEF Good, NodeState, ProofMsg, Sizes
  <2>. QED BY <2>1, <2>2 DEF Queues
<1>2. \A j \in 0..n : g[j].last \in Int /\ g[j].left \in Int /\ g[j].reqs \in Seq(Pieces)
  BY DEF Gaps, GapState
<1>3. P(0)
  <2>1. g[0].last = own /\ g[0].left = end - own - n /\ g[0].reqs = <<>>
    BY DEF Gaps, NoGaps
  <2>2. AskedNever(g[0].reqs, m)
    BY <2>1 DEF AskedNever, Asking
  <2>3. ~wanted(0)
    BY <1>1, <2>1
  <2>. QED BY <1>1, <2>1, <2>2, <2>3
<1>4. ASSUME NEW j \in 0..(n - 1), P(j) PROVE P(j + 1)
  <2>. DEFINE w == waits[j + 1]
              last == g[j].last
              more == addReqsForMissing(last + 1, w - 1, batchSize)
  <2>1. /\ j + 1 \in 1..n /\ (j + 1) - 1 = j /\ j \in 0..n /\ j \in Nat /\ j + 1 # 0
        /\ w \in Int /\ last \in Int /\ g[j].left \in Int /\ g[j].reqs \in Seq(Pieces)
    <3>1. j + 1 \in 1..n /\ (j + 1) - 1 = j /\ j \in 0..n /\ j \in Nat /\ j + 1 # 0
      <4>1. n \in Nat
        BY <1>1
      <4>. HIDE DEF n
      <4>. QED BY <4>1
    <3>. QED BY <1>1, <1>2, <3>1
  <2>2. g[j + 1] = IF w - last = 1 THEN [g[j] EXCEPT !.last = w]
                   ELSE [last |-> w, left |-> g[j].left - (w - last - 1), reqs |-> g[j].reqs \o more]
    BY <2>1 DEF Gaps, NextGap
  <2>3. g[j + 1].last = w
    <3>1. g[j] \in GapState
      BY <2>1 DEF Gaps
    <3>. QED BY <2>2, <3>1 DEF GapState
  <2>4. wanted(j + 1) <=> m <= w /\ m # w /\ \A i \in 1..j : waits[i] # m
    <3>1. 1..(j + 1) = (1..j) \cup {j + 1}
      BY <2>1
    <3>. QED BY <2>3, <3>1
  <2>5. \A i \in 1..j : waits[i] <= last /\ waits[i] \in Int
    <3>. SUFFICES ASSUME NEW i \in 1..j PROVE waits[i] <= last /\ waits[i] \in Int
      OBVIOUS
    <3>1. j # 0 /\ i \in 1..n /\ j \in 1..n /\ i <= j
      BY <2>1
    <3>. QED BY <1>1, <1>4, <3>1
  \* m is up to the last one exactly when it was, and then it is before this one.
  <2>6. m <= last => m <= w /\ (m = w => \E i \in 1..j : waits[i] = m)
    <3>. SUFFICES ASSUME m <= last PROVE m <= w /\ (m = w => \E i \in 1..j : waits[i] = m)
      OBVIOUS
    <3>1. j # 0
      BY <1>1, <1>4
    <3>2. j \in 1..n /\ j + 1 \in 1..n /\ j <= j + 1 /\ j \in 1..j /\ last = waits[j]
      BY <1>4, <2>1, <3>1
    <3>3. last <= w
      BY <1>1, <3>2
    <3>4. m <= w /\ (m = w => m = last)
      BY <2>1, <3>3
    <3>. QED BY <3>2, <3>4
  <2>. HIDE DEF w, last, more
  <2>7. g[j + 1].left = end - w - (n - (j + 1))
    <3>1. g[j].left = end - last - (n - j) /\ end \in Int /\ n \in Int /\ j \in Int
      BY <1>1, <1>4, <2>1 DEF last
    <3>0. w \in Int /\ last \in Int
      BY <2>1
    <3>2. CASE w - last = 1
      <4>1. g[j + 1].left = g[j].left
        BY <2>2, <3>2
      <4>. HIDE DEF end, n
      <4>. QED BY <3>0, <3>1, <3>2, <4>1
    <3>3. CASE w - last # 1
      <4>1. g[j + 1].left = g[j].left - (w - last - 1)
        BY <2>2, <3>3
      <4>. HIDE DEF end, n
      <4>. QED BY <3>0, <3>1, <4>1
    <3>. QED BY <3>2, <3>3
  <2>8. /\ wanted(j) <=> m <= last /\ \A i \in 1..j : waits[i] # m
        /\ wanted(j) => AskedExactlyOnce(g[j].reqs, m)
        /\ ~wanted(j) => AskedNever(g[j].reqs, m)
    BY <1>4 DEF last
  <2>9. /\ wanted(j + 1) => AskedExactlyOnce(g[j + 1].reqs, m)
        /\ ~wanted(j + 1) => AskedNever(g[j + 1].reqs, m)
    <3>. HIDE DEF wanted
    <3>1. CASE w - last = 1
      <4>1. g[j + 1].reqs = g[j].reqs
        BY <2>2, <3>1
      <4>2. wanted(j + 1) <=> wanted(j)
        <5>1. m <= last \/ m = w \/ m > w
          BY <2>1, <3>1
        <5>2. m <= last => m # w
          BY <2>1, <3>1
        <5>3. m = w \/ m > w => ~(m <= last)
          BY <2>1, <3>1
        <5>4. m > w => ~(m <= w)
          BY <2>1
        <5>. QED BY <2>4, <2>6, <2>8, <5>1, <5>2, <5>3, <5>4
      <4>. QED BY <2>8, <4>1, <4>2
    <3>2. CASE w - last # 1
      <4>1. g[j + 1].reqs = g[j].reqs \o more
        BY <2>2, <3>2
      <4>2. last + 1 \in Int /\ w - 1 \in Int
        BY <2>1
      <4>3. more \in Seq(Pieces)
        BY <4>2, PiecesOK, Zenon DEF more
      <4>4. /\ m \in (last + 1)..(w - 1) => AskedExactlyOnce(more, m)
            /\ m \notin (last + 1)..(w - 1) => AskedNever(more, m)
        BY <4>2, RangeAsks DEF more
      <4>5. CASE m <= last
        <5>1. m \notin (last + 1)..(w - 1)
          BY <2>1, <4>5
        <5>2. wanted(j + 1) <=> wanted(j)
          BY <2>4, <2>6, <2>8, <4>5
        <5>. QED BY <2>1, <2>8, <4>1, <4>3, <4>4, <5>1, <5>2, JoinedAsks
      <4>6. CASE ~(m <= last) /\ m < w
        <5>1. m \in (last + 1)..(w - 1) /\ m <= w /\ m # w
          BY <2>1, <4>6
        <5>2. \A i \in 1..j : waits[i] # m
          BY <2>1, <2>5, <4>6
        <5>3. wanted(j + 1) /\ ~wanted(j)
          BY <2>4, <2>8, <4>6, <5>1, <5>2
        <5>. QED BY <2>1, <2>8, <4>1, <4>3, <4>4, <5>1, <5>3, JoinedAsks
      <4>7. CASE ~(m <= last) /\ ~(m < w)
        <5>1. m \notin (last + 1)..(w - 1) /\ ~(m <= w /\ m # w)
          BY <2>1, <4>7
        <5>2. ~wanted(j + 1) /\ ~wanted(j)
          BY <2>4, <2>8, <4>7, <5>1
        <5>. QED BY <2>1, <2>8, <4>1, <4>3, <4>4, <5>1, <5>2, JoinedAsks
      <4>. QED BY <4>5, <4>6, <4>7
    <3>. QED BY <3>1, <3>2
  <2>. QED BY <2>1, <2>3, <2>7, <2>9 DEF w
<1>. HIDE DEF P
<1>5. 0 \in S /\ \A j \in 0..(n - 1) : j \in S => j + 1 \in S
  BY <1>1, <1>3, <1>4
<1>. HIDE DEF S
<1>6. 0..n \subseteq S
  BY <1>1, <1>5, InductionUpTo
<1>7. P(k)
  BY <1>6 DEF S
<1>. QED BY <1>7, Zenon DEF P, SoFar

\* The requests of checkIfTxnsNeeded, whatever replies wait and whatever pieces
\* the missing transactions are cut into: each transaction that neither the
\* ledger nor a waiting reply has is asked for once, and no waiting one is
\* asked for again.
GapsAsked ==
    node.catchupReplyTimer =>
        \A batchSize \in Nat \ {0} :
            \A m \in Len(node.ledger) + 1 .. node.catchUpTill.end :
                LET reqs == MissingRanges(node, batchSize)
                IN  IF \E i \in DOMAIN node.receivedCatchUpReplies :
                           node.receivedCatchUpReplies[i] = m
                    THEN AskedNever(reqs, m)
                    ELSE AskedExactlyOnce(reqs, m)

\* Of one number: the gaps before the replies that wait, then the last one.
LEMMA MissingAsked ==
    ASSUME NEW N, Good(N), N.catchUpTill \in ProofMsg, NEW batchSize \in Nat, batchSize > 0,
           NEW m \in Len(N.ledger) + 1 .. N.catchUpTill.end
    PROVE  LET waits == N.receivedCatchUpReplies
               reqs == MissingRanges(N, batchSize)
           IN  IF \E i \in DOMAIN waits : waits[i] = m
               THEN AskedNever(reqs, m) ELSE AskedExactlyOnce(reqs, m)
<1>. DEFINE waits == N.receivedCatchUpReplies
            n == Len(waits)
            own == Len(N.ledger)
            end == N.catchUpTill.end
            reqs == MissingRanges(N, batchSize)
            waiting == \E i \in 1..n : waits[i] = m
<1>1. /\ n \in Nat /\ own \in Nat /\ end \in Nat /\ n \in 0..n /\ DOMAIN waits = 1..n
      /\ \A i \in 1..n : waits[i] \in Int
      /\ \A i, j \in 1..n : i <= j => waits[i] <= waits[j]
  <2>1. waits \in Seq(Int) /\ waits \in Queues
    BY WaitsOK DEF Good
  <2>2. own \in Nat /\ end \in Nat
    BY DEF Good, NodeState, ProofMsg, Sizes
  <2>. QED BY <2>1, <2>2 DEF Queues
<1>2. m \in Int /\ m > own /\ m <= end
  BY <1>1
<1>3. PICK g : /\ Gaps(N, batchSize, g)
               /\ reqs = g[n].reqs \o (IF g[n].left > 0 /\ g[n].last # end
                                       THEN addReqsForMissing(g[n].last + 1, end, batchSize) ELSE <<>>)
  BY MissingRangesSteps
<1>. DEFINE last == g[n].last
            more == IF g[n].left > 0 /\ last # end
                    THEN addReqsForMissing(last + 1, end, batchSize) ELSE <<>>
            wanted == m <= last /\ ~waiting
<1>4. last \in Int /\ g[n].left \in Int /\ g[n].reqs \in Seq(Pieces)
  BY <1>1, <1>3 DEF Gaps, GapState
<1>5. /\ last = IF n = 0 THEN own ELSE waits[n]
      /\ g[n].left = end - last - (n - n)
      /\ wanted => AskedExactlyOnce(g[n].reqs, m)
      /\ ~wanted => AskedNever(g[n].reqs, m)
  <2>1. n \in 0..n /\ m \in Int /\ m > own /\ Gaps(N, batchSize, g)
    BY <1>1, <1>2, <1>3
  <2>2. SoFar(N, g, m, n)
    BY <2>1, GapsSoFar, Zenon
  <2>. QED BY <2>2 DEF SoFar
<1>6. waiting => m <= last
  <2>. SUFFICES ASSUME NEW i \in 1..n, waits[i] = m PROVE m <= last
    OBVIOUS
  <2>1. n # 0 /\ n \in 1..n /\ i <= n
    BY <1>1
  <2>. QED BY <1>1, <1>5, <2>1
<1>7. reqs = g[n].reqs \o more
  BY <1>3
<1>. HIDE DEF waiting, last, n, end, own, reqs
<1>8. g[n].left = end - last
  BY <1>1, <1>4, <1>5
<1>9. more \in Seq(Pieces) /\ (m <= last => AskedNever(more, m))
      /\ (~(m <= last) => AskedExactlyOnce(more, m))
  <2>1. CASE g[n].left > 0 /\ last # end
    <3>1. more = addReqsForMissing(last + 1, end, batchSize) /\ last + 1 \in Int /\ end \in Int
      BY <1>1, <1>4, <2>1
    <3>. HIDE DEF more
    <3>2. more \in Seq(Pieces)
      BY <3>1, PiecesOK, Zenon
    <3>3. /\ m \in (last + 1)..end => AskedExactlyOnce(more, m)
          /\ m \notin (last + 1)..end => AskedNever(more, m)
      BY <1>2, <3>1, RangeAsks
    <3>4. m \in (last + 1)..end <=> ~(m <= last)
      BY <1>1, <1>2, <1>4
    <3>. QED BY <3>2, <3>3, <3>4
  <2>2. CASE ~(g[n].left > 0 /\ last # end)
    <3>1. more = <<>> /\ more \in Seq(Pieces) /\ AskedNever(more, m)
      BY <2>2 DEF AskedNever, Asking
    <3>2. m <= last
      BY <1>1, <1>2, <1>4, <1>8, <2>2
    <3>. QED BY <3>1, <3>2
  <2>. QED BY <2>1, <2>2
<1>. HIDE DEF more
<1>10. IF waiting THEN AskedNever(reqs, m) ELSE AskedExactlyOnce(reqs, m)
  <2>1. CASE waiting
    <3>1. AskedNever(g[n].reqs, m) /\ AskedNever(more, m)
      BY <1>5, <1>6, <1>9, <2>1
    <3>. QED BY <1>2, <1>4, <1>7, <1>9, <2>1, <3>1, JoinedAsks
  <2>2. CASE ~waiting /\ m <= last
    <3>1. AskedExactlyOnce(g[n].reqs, m) /\ AskedNever(more, m)
      BY <1>5, <1>9, <2>2
    <3>. QED BY <1>2, <1>4, <1>7, <1>9, <2>2, <3>1, JoinedAsks
  <2>3. CASE ~waiting /\ ~(m <= last)
    <3>1. AskedNever(g[n].reqs, m) /\ AskedExactlyOnce(more, m)
      BY <1>5, <1>9, <2>3
    <3>. QED BY <1>2, <1>4, <1>7, <1>9, <2>3, <3>1, JoinedAsks
  <2>. QED BY <2>1, <2>2, <2>3
<1>. QED BY <1>1, <1>10 DEF waiting, reqs, n

LEMMA RepliesTimeoutOK ==
    ASSUME NEW N, Good(N), NEW nodes \in SetToSeqs(Conns \ N.blacklisted)
    PROVE  checkIfTxnsNeeded(N, nodes) \in Kept(N)
<1>. DEFINE total == N.catchUpTill.end - Len(N.ledger) - Len(N.receivedCatchUpReplies)
            fired == [N EXCEPT !.catchupReplyActions = @ - 1]
            over == [fired EXCEPT !.catchupReplyTimer = FALSE]
            broken == [fired EXCEPT !.halted = TRUE]
            reqs == MissingRanges(N, Ceil(total, Len(nodes)))
            asks == sendRequests(N, reqs, N.catchUpTill.end, nodes)
            R == checkIfTxnsNeeded(N, nodes)
<1>1. R = IF ~N.catchupReplyTimer THEN fired ELSE IF total = 0 THEN over
          ELSE IF nodes = <<>> THEN fired ELSE IF total < 0 THEN broken ELSE asks
  BY DEF checkIfTxnsNeeded
<1>2. /\ fired \in NodeState /\ fired.ledger = N.ledger /\ fired.state = N.state
      /\ fired.catchupReplyTimer = N.catchupReplyTimer /\ fired.catchUpTill = N.catchUpTill
      /\ fired.recvdConsistencyProofs = N.recvdConsistencyProofs
  <2>1. N \in NodeState /\ N.catchupReplyActions - 1 \in Int
    BY DEF Good, NodeState
  <2>. QED BY <2>1 DEF NodeState
<1>. HIDE DEF fired
<1>3. /\ over \in NodeState /\ over.ledger = N.ledger /\ over.state = N.state
      /\ over.catchupReplyTimer = FALSE /\ over.catchUpTill = N.catchUpTill
      /\ over.recvdConsistencyProofs = N.recvdConsistencyProofs
  BY <1>2 DEF NodeState
<1>4. /\ broken \in NodeState /\ broken.ledger = N.ledger /\ broken.state = N.state
      /\ broken.catchupReplyTimer = N.catchupReplyTimer /\ broken.catchUpTill = N.catchUpTill
      /\ broken.recvdConsistencyProofs = N.recvdConsistencyProofs
  BY <1>2 DEF NodeState
<1>. HIDE DEF over, broken
<1>5. fired \in Kept(N) /\ over \in Kept(N) /\ broken \in Kept(N)
  BY <1>2, <1>3, <1>4 DEF Good, Ends, NullProofs, Kept
<1>6. ASSUME N.catchupReplyTimer, total # 0, ~(total < 0), nodes # <<>>
      PROVE  asks \in Kept(N)
  <2>1. N.catchUpTill \in ProofMsg
    BY <1>6 DEF Good
  <2>2. N.catchUpTill.end \in Nat /\ Len(N.ledger) \in Nat /\ Len(N.receivedCatchUpReplies) \in Nat
    BY <2>1 DEF ProofMsg, Sizes, Good, NodeState
  <2>3. total \in Int /\ total > 0
    BY <1>6, <2>2
  <2>4. nodes \in Seq(Peers) /\ Len(nodes) \in Nat \ {0}
    <3>1. IsFiniteSet(Conns \ N.blacklisted) /\ Conns \ N.blacklisted \subseteq Peers
      BY PoolFacts, FS_Subset
    <3>2. nodes \in Seq(Conns \ N.blacklisted)
      BY <3>1, OrderFacts
    <3>3. nodes \in Seq(Peers)
      BY <3>1, <3>2
    <3>. QED BY <1>6, <3>3, EmptySeq, LenProperties
  <2>. DEFINE piece == Ceil(total, Len(nodes))
  <2>. HIDE DEF total
  <2>5. piece \in Int /\ piece * Len(nodes) >= total
    <3>1. Len(nodes) \in Nat /\ Len(nodes) > 0
      BY <2>4
    <3>. QED BY <2>3, <3>1, CeilBounds, Zenon
  <2>6. piece \in Nat /\ piece > 0
    <3>1. 0 * Len(nodes) = 0 /\ piece * Len(nodes) \in Int
      BY <2>4, <2>5
    <3>2. 0 * Len(nodes) < piece * Len(nodes)
      BY <2>3, <2>5, <3>1
    <3>. HIDE DEF piece
    <3>3. 0 < piece
      BY <2>4, <2>5, <3>2, Cancel
    <3>. QED BY <2>5, <3>3
  <2>7. reqs \in Seq(Pieces)
    <3>1. MissingRanges(N, piece) \in Seq(Pieces)
      <4>. HIDE DEF piece
      <4>. QED BY <2>1, <2>6, MissingRangesOK
    <3>. QED BY <3>1
  <2>. HIDE DEF reqs
  <2>8. Sent(asks, N)
    BY <1>6, <2>2, <2>4, <2>7, SendRequestsSent
  <2>. HIDE DEF asks
  <2>. QED BY <2>8, SentKeeps DEF Kept, Good
<1>. HIDE DEF total, asks, R
<1>7. R \in Kept(N)
  BY <1>1, <1>5, <1>6
<1>. QED BY <1>7 DEF R

-----------------------------------------------------------------------------
(* Peers                                                                   *)

LEMMA AnswerOK ==
    ASSUME NEW p \in Peers, size \in [Peers -> Sizes], NEW m \in NodeMsg
    PROVE  Answer(p, m) \in Seq(PeerMsg)
<1>1. size[p] \in Nat /\ size[p] \in Sizes /\ size[p] >= PoolSize
  BY DEF Sizes
<1>2. ASSUME NEW i \in Nat, NEW j \in Sizes
      PROVE  _buildConsistencyProof(p, i, j) \in Seq(PeerMsg)
  <2>1. BatchOf(p, j) \in Nat
    BY DEF BatchOf, Sizes
  <2>2. i <= j => Proof(i, j, BatchOf(p, j)) \in PeerMsg
    BY <2>1 DEF Proof, PeerMsg, ProofMsg
  <2>. QED BY <2>2 DEF _buildConsistencyProof
<1>3. CASE m.type = "LedgerStatus"
  <2>1. m.size \in Nat
    BY <1>3 DEF NodeMsg, RequestMsg
  <2>2. Status(size[p]) \in PeerMsg
    BY <1>1 DEF Status, PeerMsg
  <2>3. _buildConsistencyProof(p, m.size, size[p]) \in Seq(PeerMsg)
    BY <1>1, <1>2, <2>1
  <2>. QED BY <1>3, <2>2, <2>3 DEF Answer
<1>4. CASE m.type = "ConsProofRequest"
  <2>1. m.start \in Nat /\ m.end \in Sizes
    BY <1>4 DEF NodeMsg, RequestMsg
  <2>. QED BY <1>2, <1>4, <2>1 DEF Answer
<1>5. CASE m.type = "CatchupReq"
  <2>1. m.s \in Int /\ m.e \in Int /\ m.till \in Int
    BY <1>5 DEF NodeMsg, RequestMsg
  <2>2. m.s <= m.e /\ m.s <= size[p] => Reply(m.s, Smaller(m.e, size[p]), m.till) \in PeerMsg
    BY <1>1, <2>1 DEF Reply, Smaller, PeerMsg, ReplyMsg
  <2>. QED BY <1>5, <2>2 DEF Answer, processCatchupReq
<1>. QED BY <1>3, <1>4, <1>5 DEF NodeMsg, RequestMsg

-----------------------------------------------------------------------------
(* Steps                                                                   *)

LEMMA CatchupInit == Init => CatchupInv
<1>. SUFFICES ASSUME Init PROVE CatchupInv
  OBVIOUS
<1>1. PoolSize \in Nat /\ PoolSize \in Sizes /\ OwnSize \in Nat /\ OwnSize <= PoolSize
  BY CatchupAssumption, PoolFacts DEF Sizes
<1>2. size \in [Peers -> Sizes]
  BY <1>1 DEF Init
<1>3. toNode \in [Peers -> Seq(PeerMsg)]
  <2>1. Status(PoolSize) \in PeerMsg
    BY <1>1 DEF Status, PeerMsg
  <2>2. <<Status(PoolSize)>> \in Seq(PeerMsg) /\ <<>> \in Seq(PeerMsg)
    BY <2>1
  <2>. QED BY <2>2 DEF Init
<1>4. Good(node)
  <2>. DEFINE ledger == [i \in 1..OwnSize |-> i]
              none == [p \in Peers |-> <<>>]
              out(mode) == [p \in Peers |-> IF mode = "starting" \/ p \in Down THEN <<>>
                                            ELSE <<Status(OwnSize)>>]
  <2>1. ledger \in Seq(Int) /\ Len(ledger) = OwnSize
    BY <1>1
  <2>2. \A mode \in StartModes : out(mode) \in [Peers -> Seq(NodeMsg)]
    <3>1. Status(OwnSize) \in NodeMsg
      BY <1>1 DEF Status, NodeMsg
    <3>2. <<Status(OwnSize)>> \in Seq(NodeMsg) /\ <<>> \in Seq(NodeMsg)
      BY <3>1
    <3>. QED BY <3>2
  <2>3. NoEntries \in [Peers -> {NoEntry, NullProof} \cup ProofMsg] /\ none \in [Peers -> Seq(ReplyMsg)]
        /\ \A p \in Peers : NoEntries[p] # NullProof
    <3>1. NoEntry.type # NullProof.type
      BY DEF NoEntry, NullProof
    <3>. QED BY <3>1 DEF NoEntries
  <2>. DEFINE state(mode) == IF mode = "starting" THEN "not_synced" ELSE "synced"
  <2>4. PICK mode \in StartModes :
          node = [ledger |-> ledger, mode |-> mode, state |-> state(mode),
                  canSync |-> FALSE,
                  stashedLedgerStatuses |-> <<>>, ledgerStatusOk |-> {},
                  recvdConsistencyProofs |-> NoEntries, catchUpTill |-> NoEntry,
                  receivedCatchUpReplies |-> <<>>, recvdCatchupRepliesFrm |-> none,
                  consistencyProofsTimer |-> FALSE, catchupReplyTimer |-> FALSE,
                  consistencyProofsActions |-> 0, catchupReplyActions |-> 0,
                  lastCaughtUpPpSeqNo |-> -1, blacklisted |-> {}, halted |-> FALSE,
                  out |-> out(mode)]
    BY DEF Init
  <2>5. mode \in {"starting", "participating"} /\ state(mode) \in {"not_synced", "synced"}
        /\ out(mode) \in [Peers -> Seq(NodeMsg)]
    BY <2>2, CatchupAssumption
  <2>. HIDE DEF ledger, none, out, state
  <2>6. node \in NodeState
    <3>1. <<>> \in Queues
      BY DEF Queues
    <3>. QED BY <2>1, <2>3, <2>4, <2>5, <3>1 DEF NodeState
  <2>7. node.ledger = ledger /\ node.state = state(mode) /\ ~node.catchupReplyTimer
        /\ node.recvdConsistencyProofs = NoEntries
    BY <2>4
  <2>8. NullProofs(node) = {}
    BY <2>3, <2>7 DEF NullProofs
  <2>9. node.ledger = [i \in 1..Len(node.ledger) |-> i]
    BY <2>1, <2>7 DEF ledger
  <2>. QED BY <2>5, <2>6, <2>7, <2>8, <2>9 DEF Good
<1>. QED BY <1>2, <1>3, <1>4 DEF CatchupInv

\* What a message of a peer makes of the node.
LEMMA ReceiveOK ==
    ASSUME CatchupInv, NEW p \in Conns, Receive(p)
    PROVE  CatchupInv' /\ Ends(node, node')
<1>. DEFINE m == Head(toNode[p])
<1>1. p \in Peers /\ Good(node) /\ toNode[p] \in Seq(PeerMsg) /\ toNode[p] # <<>>
  BY PoolFacts DEF CatchupInv, Receive, Deliverable
<1>2. m \in PeerMsg /\ Tail(toNode[p]) \in Seq(PeerMsg)
  BY <1>1
<1>3. toNode' = [toNode EXCEPT ![p] = Tail(@)] /\ size' = size
  BY DEF Receive
<1>4. toNode' \in [Peers -> Seq(PeerMsg)] /\ size' \in [Peers -> Sizes]
  BY <1>1, <1>2, <1>3 DEF CatchupInv
<1>5. \/ node' = node
      \/ m.type = "LedgerStatus" /\ node' = processLedgerStatus(node, p, m.size)
      \/ /\ m.type = "ConsistencyProof"
         /\ \E order \in Orders : node' \in processConsistencyProof(node, p, m, order)
      \/ /\ m.type = "CatchupRep"
         /\ \E order \in Orders : node' = processCatchupRep(node, p, m, order)
  BY DEF Receive
<1>. HIDE DEF m
<1>6. Good(node') /\ Ends(node, node')
  <2>1. CASE node' = node
    BY <1>1, <2>1 DEF Ends
  <2>2. CASE m.type = "LedgerStatus" /\ node' = processLedgerStatus(node, p, m.size)
    <3>1. m.size \in Sizes
      BY <1>2, <2>2 DEF PeerMsg, ProofMsg, ReplyMsg
    <3>. QED BY <1>1, <2>2, <3>1, LedgerStatusOK
  <2>3. ASSUME m.type = "ConsistencyProof", NEW order \in Orders,
               node' \in processConsistencyProof(node, p, m, order)
        PROVE  Good(node') /\ Ends(node, node')
    <3>1. m \in ProofMsg
      BY <1>2, <2>3 DEF PeerMsg, ReplyMsg
    <3>2. node' \in Kept(node)
      BY <1>1, <2>3, <3>1, ConsistencyProofOK
    <3>. QED BY <3>2 DEF Kept
  <2>4. ASSUME m.type = "CatchupRep", NEW order \in Orders,
               node' = processCatchupRep(node, p, m, order)
        PROVE  Good(node') /\ Ends(node, node')
    <3>1. m \in ReplyMsg
      BY <1>2, <2>4 DEF PeerMsg, ProofMsg
    <3>. QED BY <1>1, <2>4, <3>1, CatchupRepOK
  <2>. QED BY <1>5, <2>1, <2>2, <2>3, <2>4
<1>. QED BY <1>4, <1>6 DEF CatchupInv

LEMMA PeerAnswersOK ==
    ASSUME CatchupInv, NEW p \in Conns, PeerAnswers(p)
    PROVE  CatchupInv' /\ Ends(node, node')
<1>. DEFINE o == [node.out EXCEPT ![p] = Tail(@)]
<1>1. p \in Peers /\ Good(node) /\ node \in NodeState /\ node.out \in [Peers -> Seq(NodeMsg)]
      /\ node.out[p] # <<>>
  BY PoolFacts DEF CatchupInv, PeerAnswers, Good, NodeState
<1>2. Head(node.out[p]) \in NodeMsg /\ o \in [Peers -> Seq(NodeMsg)]
  <2>1. Head(node.out[p]) \in NodeMsg /\ Tail(node.out[p]) \in Seq(NodeMsg)
    BY <1>1
  <2>. QED BY <1>1, <2>1
<1>3. node' = [node EXCEPT !.out = o]
  BY DEF PeerAnswers
<1>. HIDE DEF o
<1>4. Sent(node', node)
  BY <1>1, <1>2, <1>3 DEF Sent, NodeState
<1>5. Good(node') /\ Ends(node, node')
  BY <1>1, <1>4, SentKeeps
<1>6. Answer(p, Head(node.out[p])) \in Seq(PeerMsg)
  BY <1>1, <1>2, AnswerOK DEF CatchupInv
<1>7. toNode' \in [Peers -> Seq(PeerMsg)] /\ size' \in [Peers -> Sizes]
  BY <1>1, <1>6 DEF CatchupInv, PeerAnswers
<1>. QED BY <1>5, <1>7 DEF CatchupInv

LEMMA ReconnectOK ==
    ASSUME CatchupInv, NEW p \in Conns, Reconnect(p)
    PROVE  CatchupInv' /\ Ends(node, node')
<1>. DEFINE own == IF node.mode \in {"discovered", "participating"}
                   THEN <<Status(Len(node.ledger))>> ELSE <<>>
            o == [node.out EXCEPT ![p] = own]
<1>1. p \in Peers /\ Good(node) /\ node \in NodeState /\ node.out \in [Peers -> Seq(NodeMsg)]
      /\ Len(node.ledger) \in Nat /\ size[p] \in Sizes
  <2>1. p \in Peers /\ Good(node) /\ node \in NodeState /\ size[p] \in Sizes
    BY PoolFacts DEF CatchupInv, Good
  <2>2. node.out \in [Peers -> Seq(NodeMsg)] /\ node.ledger \in Seq(Int)
    BY <2>1 DEF NodeState
  <2>. QED BY <2>1, <2>2
<1>2. Status(Len(node.ledger)) \in NodeMsg /\ Status(size[p]) \in PeerMsg
  BY <1>1 DEF Status, NodeMsg, PeerMsg
<1>3. own \in Seq(NodeMsg) /\ <<Status(size[p])>> \in Seq(PeerMsg)
  BY <1>2
<1>4. node' = [node EXCEPT !.out = o]
  BY DEF Reconnect
<1>. HIDE DEF own
<1>5. o \in [Peers -> Seq(NodeMsg)]
  BY <1>1, <1>3
<1>. HIDE DEF o
<1>6. Sent(node', node)
  BY <1>1, <1>4, <1>5 DEF Sent, NodeState
<1>7. Good(node') /\ Ends(node, node')
  BY <1>1, <1>6, SentKeeps
<1>8. toNode' \in [Peers -> Seq(PeerMsg)] /\ size' \in [Peers -> Sizes]
  BY <1>1, <1>3 DEF CatchupInv, Reconnect
<1>. QED BY <1>7, <1>8 DEF CatchupInv

LEMMA ExecuteOK ==
    ASSUME CatchupInv, Execute
    PROVE  CatchupInv' /\ Ends(node, node')
<1>. DEFINE l == Append(node.ledger, Len(node.ledger) + 1)
<1>1. Good(node) /\ node \in NodeState /\ node.ledger \in Seq(Int) /\ Len(node.ledger) \in Nat
  BY DEF CatchupInv, Good, NodeState
<1>2. l \in Seq(Int) /\ Len(l) = Len(node.ledger) + 1
  BY <1>1
<1>3. l = [i \in 1..Len(l) |-> i]
  <2>1. node.ledger = [i \in 1..Len(node.ledger) |-> i]
    BY <1>1 DEF Good
  <2>. DEFINE n == Len(node.ledger)
  <2>2. n \in Nat
    BY <1>1
  <2>. HIDE DEF n
  <2>3. Append([i \in 1..n |-> i], n + 1) = [i \in 1..(n + 1) |-> i]
    BY <2>2
  <2>. QED BY <1>2, <2>1, <2>3 DEF n
<1>4. node' = [node EXCEPT !.ledger = l]
  BY DEF Execute
<1>. HIDE DEF l
<1>5. /\ node' \in NodeState /\ node'.ledger = l /\ node'.state = node.state
      /\ node'.catchupReplyTimer = node.catchupReplyTimer
      /\ node'.catchUpTill = node.catchUpTill
      /\ node'.recvdConsistencyProofs = node.recvdConsistencyProofs
  BY <1>1, <1>2, <1>4 DEF NodeState
<1>6. NullProofs(node)' = NullProofs(node)
  BY <1>5 DEF NullProofs
<1>7. Good(node') /\ Ends(node, node')
  BY <1>1, <1>2, <1>3, <1>5, <1>6, PoolFacts DEF Good, Ends, NullProofs
<1>8. size' = size /\ toNode' = toNode
  BY DEF Execute
<1>. QED BY <1>7, <1>8 DEF CatchupInv

LEMMA CatchupStep ==
    ASSUME CatchupInv, [Next]_vars
    PROVE  CatchupInv' /\ Ends(node, node')
<1>1. Good(node)
  BY DEF CatchupInv
<1>2. ASSUME node' \in Kept(node), size' = size, toNode' = toNode
      PROVE  CatchupInv' /\ Ends(node, node')
  BY <1>2 DEF CatchupInv, Kept
<1>3. CASE StartSync
  BY <1>1, <1>2, <1>3, StartSyncOK DEF StartSync
<1>4. ASSUME NEW p \in Conns, Receive(p)
      PROVE  CatchupInv' /\ Ends(node, node')
  BY <1>4, ReceiveOK
<1>5. ASSUME NEW p \in Conns, PeerAnswers(p)
      PROVE  CatchupInv' /\ Ends(node, node')
  BY <1>5, PeerAnswersOK
<1>6. ASSUME NEW p \in Conns, PeerExecutes(p)
      PROVE  CatchupInv' /\ Ends(node, node')
  <2>1. p \in Peers /\ node' = node /\ toNode' = toNode /\ size' = [size EXCEPT ![p] = @ + 1]
    BY <1>6, PoolFacts DEF PeerExecutes
  <2>2. size' \in [Peers -> Sizes]
    <3>1. size[p] + 1 \in Sizes
      BY <2>1, PoolFacts DEF CatchupInv, Sizes
    <3>. QED BY <2>1, <3>1 DEF CatchupInv
  <2>3. Ends(node, node')
    BY <2>1 DEF Ends
  <2>. QED BY <1>1, <2>1, <2>2, <2>3 DEF CatchupInv
<1>7. ASSUME NEW p \in Conns, Reconnect(p)
      PROVE  CatchupInv' /\ Ends(node, node')
  BY <1>7, ReconnectOK
<1>8. CASE ProofsTimeout
  BY <1>1, <1>2, <1>8, ProofsTimeoutOK DEF ProofsTimeout, TakesTime
<1>9. CASE RepliesTimeout
  BY <1>1, <1>2, <1>9, RepliesTimeoutOK DEF RepliesTimeout, TakesTime
<1>10. CASE Execute
  BY <1>10, ExecuteOK
<1>11. CASE UNCHANGED vars
  BY <1>1, <1>11 DEF vars, CatchupInv, Ends
<1>. QED BY <1>3, <1>4, <1>5, <1>6, <1>7, <1>8, <1>9, <1>10, <1>11 DEF Next

THEOREM CatchupInvariant == Spec => []CatchupInv
<1>1. CatchupInv /\ [Next]_vars => CatchupInv'
  BY CatchupStep
<1>. QED BY <1>1, CatchupInit, PTL DEF Spec

\* Whatever replies come, in whatever order and for whatever target: what
\* _processCatchupReplies appends is what the pool has.
THEOREM LedgerStaysVerified == Spec => []LedgerVerified
<1>1. CatchupInv => LedgerVerified
  BY DEF CatchupInv, Good, LedgerVerified
<1>. QED BY <1>1, CatchupInvariant, PTL

\* catchupCompleted is called, by statuses, by null proofs or by replies, only
\* when the ledger has what the pool had when the node was connected.
THEOREM NeverEndsEarly == Spec => CaughtUpToPool
<1>1. CatchupInv /\ [Next]_vars
         => [node.state # "synced" /\ node'.state = "synced" => Len(node'.ledger) >= PoolSize]_vars
  BY CatchupStep DEF Ends
<1>. QED BY <1>1, CatchupInvariant, PTL DEF Spec, CaughtUpToPool

\* checkIfTxnsNeeded asks again for exactly what is missing: while a catch-up
\* waits for replies, no gap is forgotten and no transaction is asked for twice.
\* (Whether it asks is another matter: repeated replies may stop the timer.)
THEOREM MissingAskedOnce == Spec => []GapsAsked
<1>1. CatchupInv => GapsAsked
  <2>. SUFFICES ASSUME CatchupInv, node.catchupReplyTimer,
                       NEW batchSize \in Nat \ {0},
                       NEW m \in Len(node.ledger) + 1 .. node.catchUpTill.end
                PROVE  IF \E i \in DOMAIN node.receivedCatchUpReplies :
                             node.receivedCatchUpReplies[i] = m
                       THEN AskedNever(MissingRanges(node, batchSize), m)
                       ELSE AskedExactlyOnce(MissingRanges(node, batchSize), m)
    BY Zenon DEF GapsAsked
  <2>1. Good(node) /\ node.catchUpTill \in ProofMsg
    BY DEF CatchupInv, Good
  <2>2. batchSize \in Nat /\ batchSize > 0
    OBVIOUS
  <2>. QED BY <2>1, <2>2, MissingAsked
<1>. QED BY <1>1, CatchupInvariant, PTL
=============================================================================
