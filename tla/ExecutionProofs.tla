-------------------------- MODULE ExecutionProofs --------------------------
(***************************************************************************)
(* Proofs about Execution, for every number of batches, every assignment   *)
(* of sizes to them and every bound.                                       *)
(***************************************************************************)
EXTENDS Execution, DataInduction, SequenceTheorems

-----------------------------------------------------------------------------
(* The agreed ledger *)

LEMMA MaxSeqNat == MaxSeq \in Nat /\ \A n \in SeqNos : Size[n] \in Nat
BY ExecutionAssumption, LenProperties DEF MaxSeq, SeqNos

LEMMA TxnsType ==
    ASSUME NEW n \in SeqNos
    PROVE  /\ Txns(n) \in Seq(Txn) /\ Len(Txns(n)) = Size[n]
           /\ \A i \in 1..Size[n] : Txns(n)[i] = <<n, i>>
<1>. DEFINE e(i) == <<n, i>>
<1>1. Size[n] \in Nat /\ n \in 0..MaxSeq
  BY MaxSeqNat DEF SeqNos
<1>2. \A i \in 1..Size[n] : e(i) \in Txn
  BY <1>1 DEF Txn
<1>3. Txns(n) = [i \in 1..Size[n] |-> e(i)]
  BY DEF Txns
<1>. HIDE DEF e
<1>4. Txns(n) \in Seq(Txn)
  BY <1>1, <1>2, <1>3, IsASeq
<1>. QED BY <1>1, <1>3, <1>4, LenProperties DEF e

\* The ledger after every batch is the one before with the transactions of that
\* batch.
LEMMA AgreedDef ==
    /\ Agreed \in [0..MaxSeq -> Seq(Txn)]
    /\ Agreed[0] = <<>>
    /\ \A n \in SeqNos : Agreed[n] = Agreed[n - 1] \o Txns(n)
<1>. DEFINE V == Seq(Txn)
            E == [n \in 1..MaxSeq |-> [s \in V |-> s \o Txns(n)]]
            Eq(g) == g = [n \in 0..MaxSeq |-> IF n = 0 THEN <<>> ELSE g[n - 1] \o Txns(n)]
<1>1. MaxSeq \in Nat /\ <<>> \in V
  BY MaxSeqNat
<1>2. E \in [1..MaxSeq -> [V -> V]]
  BY TxnsType, ConcatProperties DEF SeqNos
<1>3. PICK g \in [0..MaxSeq -> V] : Recurs(g, MaxSeq, <<>>, E)
  <2>. HIDE DEF V, E
  <2>. QED BY <1>1, <1>2, RecursionUpTo
<1>4. Eq(g)
  <2>1. ASSUME NEW n \in 0..MaxSeq
        PROVE  g[n] = IF n = 0 THEN <<>> ELSE g[n - 1] \o Txns(n)
    <3>1. g[n] = IF n = 0 THEN <<>> ELSE E[n][g[n - 1]]
      <4>. HIDE DEF E, V
      <4>. QED BY <1>3 DEF Recurs
    <3>2. n # 0 => n \in 1..MaxSeq /\ n - 1 \in 0..MaxSeq
      BY <1>1
    <3>. QED BY <3>1, <3>2
  <2>2. g = [n \in 0..MaxSeq |-> g[n]]
    OBVIOUS
  <2>. QED BY <2>1, <2>2
<1>5. Agreed = CHOOSE h : Eq(h)
  BY DEF Agreed
<1>6. Eq(Agreed)
  <2>. HIDE DEF Eq
  <2>. QED BY <1>4, <1>5
<1>7. /\ Agreed[0] = <<>>
      /\ \A n \in SeqNos : Agreed[n] = Agreed[n - 1] \o Txns(n)
      /\ Agreed = [n \in 0..MaxSeq |-> Agreed[n]]
  <2>1. 0 \in 0..MaxSeq /\ \A n \in SeqNos : n \in 0..MaxSeq /\ n # 0
    BY <1>1 DEF SeqNos
  <2>2. \A n \in 0..MaxSeq : Agreed[n] = IF n = 0 THEN <<>> ELSE Agreed[n - 1] \o Txns(n)
    BY <1>6, Zenon
  <2>3. Agreed = [n \in 0..MaxSeq |-> Agreed[n]]
    BY <1>6, Zenon
  <2>. QED BY <2>1, <2>2, <2>3
<1>. HIDE DEF V
<1>8. 0..MaxSeq \subseteq {n \in 0..MaxSeq : Agreed[n] \in V}
  <2>. DEFINE S == {n \in 0..MaxSeq : Agreed[n] \in V}
  <2>1. 0 \in S
    BY <1>1, <1>7
  <2>2. ASSUME NEW n \in 0..(MaxSeq - 1), n \in S PROVE n + 1 \in S
    <3>1. n + 1 \in SeqNos /\ (n + 1) - 1 = n /\ n + 1 \in 0..MaxSeq
      BY <1>1 DEF SeqNos
    <3>2. Agreed[n + 1] = Agreed[n] \o Txns(n + 1)
      BY <1>7, <3>1
    <3>3. Agreed[n] \o Txns(n + 1) \in V
      BY <2>2, <3>1, TxnsType, ConcatProperties DEF V
    <3>. QED BY <3>1, <3>2, <3>3
  <2>. HIDE DEF S
  <2>3. 0..MaxSeq \subseteq S
    BY <1>1, <2>1, <2>2, InductionUpTo
  <2>. QED BY <2>3 DEF S
<1>. QED BY <1>1, <1>7, <1>8 DEF V

-----------------------------------------------------------------------------
(* Type correctness *)

\* A transaction is not the mark of a missing tree.
LEMMA NoTreeIsNone == NoTree \notin Seq(Txn)
<1>. SUFFICES ASSUME NoTree \in Seq(Txn) PROVE FALSE
  OBVIOUS
<1>1. Len(NoTree) = 1 /\ NoTree[1] = <<>>
  BY DEF NoTree
<1>2. <<>> \in Txn
  BY <1>1, ElementOfSeq
<1>. QED BY <1>2 DEF Txn

\* The two parts a commit cuts the uncommitted transactions into.
LEMMA CutType ==
    ASSUME NEW S, NEW s \in Seq(S), NEW count \in Nat
    PROVE  Front(s, count) \in Seq(S) /\ Rest(s, count) \in Seq(S)
<1>1. Len(s) \in Nat /\ \A i \in 1..Len(s) : s[i] \in S
  BY LenProperties, ElementOfSeq
<1>2. ASSUME NEW k \in Int, k <= Len(s) PROVE SubSeq(s, 1, k) \in Seq(S)
  <2>1. \A i \in 1..k : s[i] \in S
    BY <1>1, <1>2
  <2>. QED BY <2>1, SubSeqProperties
<1>3. SubSeq(s, count + 1, Len(s)) \in Seq(S)
  <2>1. \A i \in (count + 1)..Len(s) : s[i] \in S
    BY <1>1
  <2>. QED BY <1>1, <2>1, SubSeqProperties
<1>4. (IF count < Len(s) THEN count ELSE Len(s)) \in Int
      /\ (IF count < Len(s) THEN count ELSE Len(s)) <= Len(s)
  BY <1>1
<1>. QED BY <1>2, <1>3, <1>4 DEF Front, Rest

LEMMA AppendTxnsType ==
    ASSUME NEW L \in Ledger, NEW txns \in Seq(Txn)
    PROVE  /\ appendTxns(L, txns) \in Ledger
           /\ Tree(L) \in Seq(Txn)
           /\ appendTxns(L, txns) = [committed |-> L.committed,
                                     uncommitted |-> L.uncommitted \o txns,
                                     tree |-> Tree(L) \o txns]
<1>1. Tree(L) \in Seq(Txn)
  BY DEF Tree, Ledger
<1>2. Tree(L) \o txns \in Seq(Txn) /\ L.uncommitted \o txns \in Seq(Txn)
  BY <1>1, ConcatProperties DEF Ledger
<1>. DEFINE t == Tree(L) \o txns
            u == L.uncommitted \o txns
<1>3. /\ appendTxns(L, txns) = [[L EXCEPT !.tree = t] EXCEPT !.uncommitted = u]
      /\ t \in Seq(Txn) /\ u \in Seq(Txn)
  BY <1>2 DEF appendTxns
<1>. HIDE DEF t, u
<1>4. L = [committed |-> L.committed, uncommitted |-> L.uncommitted, tree |-> L.tree]
      /\ L.committed \in Seq(Txn)
  BY DEF Ledger
<1>5. appendTxns(L, txns) = [committed |-> L.committed, uncommitted |-> u, tree |-> t]
  BY <1>3, <1>4
<1>6. appendTxns(L, txns) \in Ledger
  BY <1>3, <1>4, <1>5 DEF Ledger
<1>. QED BY <1>1, <1>5, <1>6 DEF t, u

LEMMA CommitTxnsType ==
    ASSUME NEW L \in Ledger, NEW count \in Nat
    PROVE  commitTxns(L, count) \in Ledger
<1>1. /\ Front(L.uncommitted, count) \in Seq(Txn)
      /\ Rest(L.uncommitted, count) \in Seq(Txn)
  BY CutType DEF Ledger
<1>2. L.committed \o Front(L.uncommitted, count) \in Seq(Txn)
  BY <1>1, ConcatProperties DEF Ledger
<1>. QED BY <1>1, <1>2 DEF commitTxns, Ledger

LEMMA DiscardTxnsType ==
    ASSUME NEW L \in Ledger, NEW count \in Nat
    PROVE  discardTxns(L, count) \in Ledger
<1>. DEFINE u == L.uncommitted
            left == IF count = 0 THEN <<>> ELSE SubSeq(u, 1, Len(u) - count)
<1>1. u \in Seq(Txn) /\ Len(u) \in Nat /\ \A i \in 1..Len(u) : u[i] \in Txn
  BY LenProperties, ElementOfSeq DEF Ledger
<1>2. left \in Seq(Txn)
  <2>. HIDE DEF u
  <2>1. \A i \in 1..(Len(u) - count) : u[i] \in Txn
    BY <1>1
  <2>2. SubSeq(u, 1, Len(u) - count) \in Seq(Txn)
    BY <1>1, <2>1, SubSeqProperties
  <2>. QED BY <2>2
<1>. HIDE DEF left
<1>3. L.committed \o left \in Seq(Txn)
  BY <1>2, ConcatProperties DEF Ledger
<1>4. discardTxns(L, count) =
         [L EXCEPT !.uncommitted = left,
                   !.tree = IF left = <<>> THEN NoTree ELSE L.committed \o left]
  BY DEF discardTxns, left
<1>. QED BY <1>2, <1>3, <1>4 DEF Ledger

Outcome == [ledger : Ledger, ok : BOOLEAN]

LEMMA CommitType ==
    ASSUME NEW n \in SeqNos, NEW L \in Ledger, NEW ok \in BOOLEAN
    PROVE  commit(n, L, ok) \in Outcome
BY CommitTxnsType, MaxSeqNat DEF commit, Outcome, RootMatches

LEMMA ProcessStashedType ==
    ASSUME NEW n \in SeqNos, NEW s \in Outcome, NEW last, NEW got
    PROVE  processStashed(n, s, last, got) \in Outcome
<1>1. s.ledger \in Ledger /\ s.ok \in BOOLEAN
  BY DEF Outcome
<1>2. (IF s.ok THEN appendTxns(s.ledger, Txns(n)) ELSE s.ledger) \in Ledger
  BY <1>1, TxnsType, AppendTxnsType
<1>. QED BY <1>1, <1>2, CommitType DEF processStashed

\* The messages are handled one by one; what every single one keeps stays.
LEMMA ProcessStashedSteps ==
    ASSUME NEW V, NEW L, NEW last, NEW got,
           [ledger |-> L, ok |-> TRUE] \in V,
           \A n \in SeqNos, s \in V : processStashed(n, s, last, got) \in V,
           stashedOrderedReqs \in Seq(SeqNos)
    PROVE  \E done \in [0..Len(stashedOrderedReqs) -> V] :
               /\ done[0] = [ledger |-> L, ok |-> TRUE]
               /\ \A i \in 1..Len(stashedOrderedReqs) :
                      done[i] = processStashed(stashedOrderedReqs[i], done[i - 1], last, got)
               /\ done[Len(stashedOrderedReqs)] = processStashedOrderedReqs(L, last, got)
<1>. DEFINE N == Len(stashedOrderedReqs)
            a == [ledger |-> L, ok |-> TRUE]
            step(i, s) == processStashed(stashedOrderedReqs[i], s, last, got)
            E == [i \in 1..N |-> [s \in V |-> step(i, s)]]
            Eq(g) == g = [i \in 0..N |-> IF i = 0 THEN a ELSE step(i, g[i - 1])]
            done == CHOOSE g : Eq(g)
<1>1. N \in Nat /\ \A i \in 1..N : stashedOrderedReqs[i] \in SeqNos
  BY LenProperties, ElementOfSeq
<1>2. \A i \in 1..N, s \in V : step(i, s) \in V
  BY <1>1
<1>3. processStashedOrderedReqs(L, last, got) = done[N]
  BY DEF processStashedOrderedReqs
<1>. HIDE DEF N, a, step
<1>4. E \in [1..N -> [V -> V]] /\ a \in V
  BY <1>2 DEF a
<1>5. PICK g \in [0..N -> V] : Recurs(g, N, a, E)
  <2>. HIDE DEF E
  <2>. QED BY <1>1, <1>4, RecursionUpTo
<1>6. Eq(g)
  <2>1. ASSUME NEW i \in 0..N PROVE g[i] = IF i = 0 THEN a ELSE step(i, g[i - 1])
    <3>1. g[i] = IF i = 0 THEN a ELSE E[i][g[i - 1]]
      <4>. HIDE DEF E
      <4>. QED BY <1>5 DEF Recurs
    <3>2. i # 0 => i \in 1..N /\ i - 1 \in 0..N
      BY <1>1
    <3>. QED BY <3>1, <3>2
  <2>2. g = [i \in 0..N |-> g[i]]
    OBVIOUS
  <2>. QED BY <2>1, <2>2
<1>7. Eq(done)
  <2>. HIDE DEF Eq
  <2>. QED BY <1>6
<1>8. g = done
  <2>1. ASSUME NEW h, Eq(h) PROVE \A i \in 0..N : h[i] = IF i = 0 THEN a ELSE step(i, h[i - 1])
    BY <2>1, Zenon
  <2>2. DOMAIN done = 0..N /\ done = [i \in 0..N |-> done[i]]
    <3>. HIDE DEF done
    <3>. QED BY <1>7
  <2>. DEFINE S == {i \in 0..N : done[i] = g[i]}
  <2>. HIDE DEF done
  <2>3. 0 \in S
    BY <1>1, <1>6, <1>7, <2>1
  <2>4. ASSUME NEW i \in 0..(N - 1), i \in S PROVE i + 1 \in S
    <3>1. (i + 1) - 1 = i /\ i + 1 \in 0..N /\ i + 1 # 0
      BY <1>1
    <3>2. done[i + 1] = step(i + 1, done[i]) /\ g[i + 1] = step(i + 1, g[i])
      <4>. HIDE DEF Eq, S
      <4>. QED BY <1>6, <1>7, <2>1, <3>1
    <3>. QED BY <2>4, <3>1, <3>2
  <2>. HIDE DEF S
  <2>5. 0..N \subseteq S
    BY <1>1, <2>3, <2>4, InductionUpTo
  <2>. QED BY <2>2, <2>5 DEF S
<1>9. /\ g[0] = a
      /\ \A i \in 1..N : g[i] = step(i, g[i - 1])
  <2>1. \A i \in 0..N : g[i] = IF i = 0 THEN a ELSE step(i, g[i - 1])
    <3>. HIDE DEF done
    <3>. QED BY <1>6, Zenon
  <2>2. 0 \in 0..N /\ \A i \in 1..N : i \in 0..N /\ i # 0
    BY <1>1
  <2>. QED BY <2>1, <2>2
<1>. HIDE DEF done, Eq
<1>. QED BY <1>3, <1>8, <1>9 DEF N, a, step

\* What every single message keeps, all of them keep.
LEMMA ProcessStashedAll ==
    ASSUME NEW V, NEW L, NEW last, NEW got,
           [ledger |-> L, ok |-> TRUE] \in V,
           \A n \in SeqNos, s \in V : processStashed(n, s, last, got) \in V,
           stashedOrderedReqs \in Seq(SeqNos)
    PROVE  processStashedOrderedReqs(L, last, got) \in V
<1>1. Len(stashedOrderedReqs) \in 0..Len(stashedOrderedReqs)
  BY LenProperties
<1>. QED BY <1>1, ProcessStashedSteps

LEMMA TypeInit == Init => TypeOK
<1>. SUFFICES ASSUME Init PROVE TypeOK
  OBVIOUS
<1>1. <<>> \in Seq(Txn) /\ <<>> \in Seq(SeqNos) /\ MaxSeq \in Nat
  BY MaxSeqNat, EmptySeq
<1>2. ledger \in Ledger
  BY <1>1 DEF Init, Ledger
<1>3. participating \in BOOLEAN
  BY ExecutionAssumption DEF Init
<1>4. catchups \in Nat
  BY DEF Init
<1>5. /\ failed \in BOOLEAN /\ prePrepares \subseteq SeqNos
      /\ stashingWhileCatchingUp \subseteq SeqNos /\ suspected \subseteq SeqNos
      /\ ordered \in Seq(SeqNos) /\ outBox \in Seq(SeqNos)
      /\ stashedOrderedReqs \in Seq(SeqNos) /\ reqsFromCatchupReplies \subseteq Txn
      /\ refused \in Nat
  BY <1>1 DEF Init
<1>6. lastCaughtUpPpSeqNo = -1 /\ received = 0 /\ pool = 0
  BY DEF Init
<1>7. lastCaughtUpPpSeqNo \in -1..MaxSeq
  BY <1>1, <1>6
<1>8. {received, pool} \subseteq 0..MaxSeq
  BY <1>1, <1>6
<1>. QED BY <1>2, <1>3, <1>4, <1>5, <1>7, <1>8 DEF TypeOK

\* The last batch of catch-up becomes the last ordered one, and is in range.
LEMMA CaughtUpType ==
    ASSUME TypeOK, NEW k \in 0..MaxSeq, NEW reported \in {0, k},
           allLedgersCaughtUp(k, reported)
    PROVE  TypeOK'
<1>. DEFINE caught == {t \in Elements(Agreed[k]) : t \notin Elements(ledger.committed)}
            got == reqsFromCatchupReplies \cup caught
            last == IF k > 0 THEN catchupCompleted(k, reported) ELSE lastCaughtUpPpSeqNo
            L == IF caught = {} THEN ledger ELSE [ledger EXCEPT !.committed = Agreed[k]]
            r == processStashedOrderedReqs(L, last, got)
<1>0. MaxSeq \in Nat /\ Agreed[k] \in Seq(Txn)
  BY MaxSeqNat, AgreedDef
<1>1. caught \subseteq Txn
  <2>1. Elements(Agreed[k]) \subseteq Txn
    BY <1>0, LenProperties, ElementOfSeq DEF Elements
  <2>. QED BY <2>1
<1>2. last \in -1..MaxSeq
  BY <1>0 DEF TypeOK, catchupCompleted
<1>3. L \in Ledger
  BY <1>0 DEF TypeOK, Ledger
<1>4. /\ reqsFromCatchupReplies' = got /\ lastCaughtUpPpSeqNo' = last
      /\ ordered' = IF last > 0 /\ last \notin Elements(ordered)
                    THEN Append(ordered, last) ELSE ordered
      /\ participating' = TRUE /\ ledger' = r.ledger /\ failed' = ~r.ok
      /\ stashedOrderedReqs' = <<>>
      /\ UNCHANGED <<prePrepares, received, stashingWhileCatchingUp, outBox,
                     suspected, boundVars>>
  BY DEF allLedgersCaughtUp
<1>. HIDE DEF last, L
<1>5. r \in Outcome
  <2>1. [ledger |-> L, ok |-> TRUE] \in Outcome
    BY <1>3 DEF Outcome
  <2>2. stashedOrderedReqs \in Seq(SeqNos)
    BY DEF TypeOK
  <2>. HIDE DEF got
  <2>. QED BY <2>1, <2>2, ProcessStashedType, ProcessStashedAll
<1>. HIDE DEF r, caught
<1>6. ledger' \in Ledger /\ failed' \in BOOLEAN
  BY <1>4, <1>5 DEF Outcome
<1>7. ordered' \in Seq(SeqNos)
  <2>1. ordered \in Seq(SeqNos) /\ (last > 0 => last \in SeqNos)
    BY <1>0, <1>2 DEF TypeOK, SeqNos
  <2>. QED BY <1>4, <2>1, AppendProperties
<1>8. stashedOrderedReqs' \in Seq(SeqNos) /\ got \subseteq Txn
  BY <1>1, <1>4, EmptySeq DEF TypeOK
<1>. HIDE DEF got
<1>. QED BY <1>2, <1>4, <1>6, <1>7, <1>8 DEF TypeOK, boundVars, SeqNos, Txn, Ledger,
         NoTree, MaxSeq

LEMMA TypeStep == TypeOK /\ [Next]_vars => TypeOK'
<1>. SUFFICES ASSUME TypeOK, [Next]_vars PROVE TypeOK'
  OBVIOUS
<1>0. MaxSeq \in Nat /\ SeqNos \subseteq 0..MaxSeq /\ ledger \in Ledger
  BY MaxSeqNat DEF SeqNos, TypeOK
<1>1. ASSUME NEW n \in SeqNos, validatePrePrepare(n) PROVE TypeOK'
  <2>. DEFINE applied == appendTxns(ledger, Txns(n))
  <2>1. applied \in Ledger /\ discardTxns(applied, Size[n]) \in Ledger
    BY <1>0, TxnsType, AppendTxnsType, DiscardTxnsType, MaxSeqNat
  <2>2. /\ ledger' = applied \/ ledger' = discardTxns(applied, Size[n])
        /\ received' \in {n, received}
        /\ prePrepares' \subseteq prePrepares \cup {n}
        /\ suspected' \subseteq suspected \cup {n}
        /\ UNCHANGED <<failed, ordered, stashingWhileCatchingUp, outBox,
                       stashedOrderedReqs, reqsFromCatchupReplies,
                       lastCaughtUpPpSeqNo, participating, boundVars>>
    BY <1>1 DEF validatePrePrepare
  <2>. HIDE DEF applied
  <2>. QED BY <1>0, <2>1, <2>2 DEF TypeOK, boundVars
<1>2. ASSUME NEW n \in SeqNos, stashPrePrepare(n) PROVE TypeOK'
  BY <1>0, <1>2 DEF stashPrePrepare, TypeOK, nodeVars, boundVars
<1>3. ASSUME NEW n \in SeqNos, doOrder(n) PROVE TypeOK'
  <2>1. ledger' \in Ledger
    BY <1>0, <1>3, TxnsType, AppendTxnsType DEF doOrder
  <2>2. Append(ordered, n) \in Seq(SeqNos) /\ Append(outBox, n) \in Seq(SeqNos)
    BY AppendProperties DEF TypeOK
  <2>. QED BY <1>3, <2>1, <2>2 DEF doOrder, TypeOK, nodeVars, boundVars
<1>4. ASSUME NEW count \in RefusedSizes, revert(count) PROVE TypeOK'
  <2>. DEFINE txns == [i \in 1..count |-> <<0, i>>]
  <2>1. count \in Nat
    BY ExecutionAssumption
  <2>2. txns \in Seq(Txn)
    <3>. DEFINE e(i) == <<0, i>>
    <3>1. \A i \in 1..count : e(i) \in Txn
      BY <1>0, <2>1 DEF Txn
    <3>2. txns = [i \in 1..count |-> e(i)]
      OBVIOUS
    <3>. HIDE DEF e, txns
    <3>. QED BY <2>1, <3>1, <3>2, IsASeq
  <2>3. ledger' = discardTxns(appendTxns(ledger, txns), count)
    BY <1>4 DEF revert
  <2>. HIDE DEF txns
  <2>4. ledger' \in Ledger
    BY <1>0, <2>1, <2>2, <2>3, AppendTxnsType, DiscardTxnsType
  <2>. QED BY <1>4, <2>4 DEF revert, TypeOK, replicaVars, nodeVars
<1>5. CASE serviceReplicaOutBox
  <2>. DEFINE n == Head(outBox)
              r == commit(n, ledger, TRUE)
  <2>1. n \in SeqNos /\ Tail(outBox) \in Seq(SeqNos)
    BY <1>5, HeadTailProperties DEF TypeOK, serviceReplicaOutBox
  <2>2. Append(stashedOrderedReqs, n) \in Seq(SeqNos)
    BY <2>1, AppendProperties DEF TypeOK
  <2>3. r \in Outcome
    BY <1>0, <2>1, CommitType
  <2>4. /\ outBox' = Tail(outBox)
        /\ \/ ledger' = r.ledger /\ failed' = ~r.ok /\ UNCHANGED stashedOrderedReqs
           \/ /\ stashedOrderedReqs' = Append(stashedOrderedReqs, n)
              /\ UNCHANGED <<ledger, failed>>
        /\ UNCHANGED <<prePrepares, received, ordered, stashingWhileCatchingUp,
                       reqsFromCatchupReplies, lastCaughtUpPpSeqNo, participating,
                       suspected, boundVars>>
    BY <1>5 DEF serviceReplicaOutBox
  <2>. HIDE DEF r, n
  <2>. QED BY <1>0, <2>1, <2>2, <2>3, <2>4 DEF TypeOK, boundVars, Outcome
<1>6. CASE preDomainLedgerCatchUp
  <2>1. /\ participating' = FALSE /\ catchups' = catchups + 1
        /\ UNCHANGED <<ledger, failed, prePrepares, received, ordered,
                       stashingWhileCatchingUp, outBox, stashedOrderedReqs,
                       reqsFromCatchupReplies, lastCaughtUpPpSeqNo, suspected, pool,
                       refused>>
    BY <1>6 DEF preDomainLedgerCatchUp, replicaVars
  <2>2. catchups' \in Nat
    BY <2>1 DEF TypeOK
  <2>. QED BY <2>1, <2>2 DEF TypeOK
<1>7. CASE PoolExecutes
  BY <1>0, <1>7 DEF PoolExecutes, TypeOK, replicaVars, nodeVars
<1>8. CASE UNCHANGED vars
  BY <1>8 DEF vars, TypeOK, replicaVars, nodeVars, boundVars
<1>. QED BY <1>1, <1>2, <1>3, <1>4, <1>5, <1>6, <1>7, <1>8, CaughtUpType
        DEF Next, Replica, Refuse, CatchUp

\* Whatever the sizes of the batches and whenever the mode changes, the lists of
\* transactions and batch numbers keep their form, also when more transactions
\* are discarded or committed than there are.
THEOREM TypeCorrect == Spec => []TypeOK
BY TypeInit, TypeStep, PTL DEF Spec

-----------------------------------------------------------------------------
(* The ledger that is written is the agreed one *)

IsAgreed(L) == \E n \in 0..MaxSeq : L.committed = Agreed[n]

\* A commit that goes through has compared the root.
LEMMA CommitAgreed ==
    ASSUME NEW n \in SeqNos, NEW L, NEW ok \in BOOLEAN, commit(n, L, ok).ok
    PROVE  IsAgreed(commit(n, L, ok).ledger)
<1>1. n \in 0..MaxSeq
  BY MaxSeqNat DEF SeqNos
<1>. QED BY <1>1 DEF commit, RootMatches, IsAgreed

LEMMA ProcessStashedAgreed ==
    ASSUME NEW n \in SeqNos, NEW s \in Outcome, NEW last, NEW got,
           s.ok => IsAgreed(s.ledger)
    PROVE  processStashed(n, s, last, got).ok
               => IsAgreed(processStashed(n, s, last, got).ledger)
<1>. DEFINE L == IF s.ok THEN appendTxns(s.ledger, Txns(n)) ELSE s.ledger
<1>1. \/ processStashed(n, s, last, got) = s
      \/ processStashed(n, s, last, got) = commit(n, L, s.ok)
  BY DEF processStashed
<1>2. s.ok \in BOOLEAN
  BY DEF Outcome
<1>. HIDE DEF L
<1>. QED BY <1>1, <1>2, CommitAgreed

\* A ledger that is not the agreed one is noticed when it is written.
LedgerAgreed == ~failed => \E n \in 0..MaxSeq : ledger.committed = Agreed[n]

LEMMA AgreedInit == Init => LedgerAgreed
<1>1. 0 \in 0..MaxSeq
  BY MaxSeqNat
<1>. QED BY <1>1, AgreedDef DEF Init, LedgerAgreed

LEMMA AgreedStep == TypeOK /\ LedgerAgreed /\ [Next]_vars => LedgerAgreed'
<1>. SUFFICES ASSUME TypeOK, LedgerAgreed, [Next]_vars PROVE LedgerAgreed'
  OBVIOUS
<1>1. CASE UNCHANGED vars
  BY <1>1 DEF vars, LedgerAgreed
<1>. SUFFICES ASSUME Next PROVE ~failed' => IsAgreed(ledger')
  BY <1>1 DEF LedgerAgreed, IsAgreed
<1>0. IsAgreed(ledger) /\ ledger \in Ledger
  BY DEF Next, LedgerAgreed, IsAgreed, TypeOK
\* What is applied or discarded has not been written.
<1>2. ASSUME NEW L \in Ledger, NEW txns \in Seq(Txn), NEW count
      PROVE  /\ appendTxns(L, txns).committed = L.committed
             /\ discardTxns(L, count).committed = L.committed
  BY AppendTxnsType DEF discardTxns, Ledger
<1>3. ASSUME NEW n \in SeqNos, validatePrePrepare(n) PROVE IsAgreed(ledger')
  <2>. DEFINE applied == appendTxns(ledger, Txns(n))
  <2>1. ledger' = applied \/ ledger' = discardTxns(applied, Size[n])
    BY <1>3 DEF validatePrePrepare
  <2>2. Txns(n) \in Seq(Txn) /\ applied \in Ledger
    BY <1>0, TxnsType, AppendTxnsType
  <2>3. applied.committed = ledger.committed
    BY <1>0, <1>2, <2>2
  <2>. HIDE DEF applied
  <2>4. discardTxns(applied, Size[n]).committed = ledger.committed
    BY <1>2, <2>2, <2>3
  <2>. QED BY <1>0, <2>1, <2>3, <2>4 DEF IsAgreed
<1>4. ASSUME NEW n \in SeqNos, doOrder(n) PROVE IsAgreed(ledger')
  <2>1. ledger' = appendTxns(ledger, Txns(n)) \/ ledger' = ledger
    BY <1>4 DEF doOrder
  <2>2. appendTxns(ledger, Txns(n)).committed = ledger.committed
    BY <1>0, <1>2, TxnsType
  <2>. QED BY <1>0, <2>1, <2>2 DEF IsAgreed
<1>5. ASSUME NEW count \in RefusedSizes, revert(count) PROVE IsAgreed(ledger')
  <2>. DEFINE txns == [i \in 1..count |-> <<0, i>>]
              applied == appendTxns(ledger, txns)
  <2>1. txns \in Seq(Txn)
    <3>. DEFINE e(i) == <<0, i>>
    <3>1. count \in Nat /\ 0 \in 0..MaxSeq
      BY ExecutionAssumption, MaxSeqNat
    <3>2. \A i \in 1..count : e(i) \in Txn
      BY <3>1 DEF Txn
    <3>3. txns = [i \in 1..count |-> e(i)]
      OBVIOUS
    <3>. HIDE DEF e, txns
    <3>. QED BY <3>1, <3>2, <3>3, IsASeq
  <2>2. ledger' = discardTxns(applied, count)
    BY <1>5 DEF revert
  <2>. HIDE DEF txns
  <2>3. applied \in Ledger /\ applied.committed = ledger.committed
    BY <1>0, <1>2, <2>1, AppendTxnsType
  <2>. HIDE DEF applied
  <2>4. discardTxns(applied, count).committed = ledger.committed
    BY <1>2, <2>1, <2>3
  <2>. QED BY <1>0, <2>2, <2>4 DEF IsAgreed
<1>6. ASSUME serviceReplicaOutBox PROVE ~failed' => IsAgreed(ledger')
  <2>. DEFINE r == commit(Head(outBox), ledger, TRUE)
  <2>1. Head(outBox) \in SeqNos
    BY <1>6, HeadTailProperties DEF TypeOK, serviceReplicaOutBox
  <2>2. r.ok => IsAgreed(r.ledger)
    BY <2>1, CommitAgreed
  <2>3. \/ ledger' = ledger
        \/ ledger' = r.ledger /\ failed' = ~r.ok
    BY <1>6 DEF serviceReplicaOutBox
  <2>. HIDE DEF r
  <2>. QED BY <1>0, <2>2, <2>3
<1>7. ASSUME NEW k \in 0..MaxSeq, NEW reported \in {0, k}, allLedgersCaughtUp(k, reported)
      PROVE  ~failed' => IsAgreed(ledger')
  <2>. DEFINE caught == {t \in Elements(Agreed[k]) : t \notin Elements(ledger.committed)}
              got == reqsFromCatchupReplies \cup caught
              last == IF k > 0 THEN catchupCompleted(k, reported)
                      ELSE lastCaughtUpPpSeqNo
              L == IF caught = {} THEN ledger
                   ELSE [ledger EXCEPT !.committed = Agreed[k]]
              r == processStashedOrderedReqs(L, last, got)
              V == {s \in Outcome : s.ok => IsAgreed(s.ledger)}
  <2>1. Agreed[k] \in Seq(Txn)
    BY AgreedDef
  <2>2. L \in Ledger /\ IsAgreed(L)
    BY <1>0, <2>1 DEF Ledger, IsAgreed
  <2>3. ledger' = r.ledger /\ failed' = ~r.ok
    BY <1>7 DEF allLedgersCaughtUp
  <2>. HIDE DEF L, got, last
  <2>4. [ledger |-> L, ok |-> TRUE] \in V
    BY <2>2 DEF Outcome
  <2>5. \A n \in SeqNos, s \in V : processStashed(n, s, last, got) \in V
    BY ProcessStashedType, ProcessStashedAgreed
  <2>6. stashedOrderedReqs \in Seq(SeqNos)
    BY DEF TypeOK
  <2>7. r \in V
    <3>. HIDE DEF V
    <3>. QED BY <2>4, <2>5, <2>6, ProcessStashedAll
  <2>. HIDE DEF r
  <2>. QED BY <2>3, <2>7
<1>8. ASSUME NEW n \in SeqNos, stashPrePrepare(n) PROVE ledger' = ledger
  BY <1>8 DEF stashPrePrepare
<1>9. CASE preDomainLedgerCatchUp \/ PoolExecutes
  BY <1>0, <1>9 DEF preDomainLedgerCatchUp, PoolExecutes
<1>. QED BY <1>0, <1>3, <1>4, <1>5, <1>6, <1>7, <1>8, <1>9
        DEF Next, Replica, Refuse, CatchUp

-----------------------------------------------------------------------------
(* What is applied and not committed, while the node participates *)

LEMMA Assoc == \A a, b, c \in Seq(Txn) : (a \o b) \o c = a \o (b \o c)
BY ConcatAssociative

LEMMA Empties ==
    \A a, b \in Seq(Txn) : (a \o b = a => b = <<>>) /\ (a \o b = <<>> => b = <<>>)
BY ConcatEqualIffEmpty


\* The ledger of an earlier batch begins the ledger of a later one.
LEMMA AgreedGrows ==
    ASSUME NEW k \in 0..MaxSeq, NEW e \in 0..k
    PROVE  \E t \in Seq(Txn) : Agreed[k] = Agreed[e] \o t
<1>. DEFINE From(i) == \A j \in 0..i : \E t \in Seq(Txn) : Agreed[i] = Agreed[j] \o t
            S == {i \in 0..MaxSeq : From(i)}
<1>0. MaxSeq \in Nat
  BY MaxSeqNat
<1>1. ASSUME NEW i \in 0..MaxSeq PROVE Agreed[i] = Agreed[i] \o <<>> /\ <<>> \in Seq(Txn)
  BY AgreedDef, ConcatEmptySeq
<1>2. 0 \in S
  <2>1. 0 \in 0..MaxSeq /\ \A j \in 0..0 : j = 0
    BY <1>0
  <2>2. \E t \in Seq(Txn) : Agreed[0] = Agreed[0] \o t
    BY <1>1, <2>1
  <2>. QED BY <2>1, <2>2
<1>3. ASSUME NEW i \in 0..(MaxSeq - 1), i \in S PROVE i + 1 \in S
  <2>1. i + 1 \in 0..MaxSeq /\ i + 1 \in SeqNos /\ (i + 1) - 1 = i /\ i \in 0..MaxSeq
    BY <1>0 DEF SeqNos
  <2>2. Agreed[i + 1] = Agreed[i] \o Txns(i + 1) /\ Txns(i + 1) \in Seq(Txn)
    BY <2>1, AgreedDef, TxnsType
  <2>3. ASSUME NEW j \in 0..(i + 1)
        PROVE  \E t \in Seq(Txn) : Agreed[i + 1] = Agreed[j] \o t
    <3>1. CASE j = i + 1
      BY <1>1, <2>1, <3>1
    <3>2. CASE j # i + 1
      <4>1. j \in 0..i /\ j \in 0..MaxSeq
        BY <1>0, <2>1, <3>2
      <4>2. PICK t \in Seq(Txn) : Agreed[i] = Agreed[j] \o t
        BY <1>3, <4>1
      <4>3. Agreed[j] \in Seq(Txn)
        BY <4>1, AgreedDef
      <4>. DEFINE u == Txns(i + 1)
                  a == Agreed[j]
      <4>4. u \in Seq(Txn) /\ a \in Seq(Txn) /\ Agreed[i + 1] = (a \o t) \o u
        BY <2>2, <4>2, <4>3
      <4>. HIDE DEF u, a
      <4>5. (a \o t) \o u = a \o (t \o u)
        BY <4>4, Assoc
      <4>6. t \o u \in Seq(Txn)
        BY <4>4, ConcatProperties
      <4>. QED BY <4>4, <4>5, <4>6 DEF a
    <3>. QED BY <3>1, <3>2
  <2>. QED BY <2>1, <2>3
<1>. HIDE DEF S
<1>4. 0..MaxSeq \subseteq S
  BY <1>0, <1>2, <1>3, InductionUpTo
<1>. QED BY <1>4 DEF S

LEMMA ElementsConcat ==
    ASSUME NEW S, NEW s \in Seq(S), NEW t \in Seq(S)
    PROVE  Elements(s \o t) = Elements(s) \cup Elements(t)
<1>. DEFINE u == s \o t
<1>1. /\ Len(u) = Len(s) + Len(t) /\ Len(s) \in Nat /\ Len(t) \in Nat
      /\ \A i \in 1..(Len(s) + Len(t)) : u[i] = IF i <= Len(s) THEN s[i] ELSE t[i - Len(s)]
      /\ DOMAIN u = 1..Len(u) /\ DOMAIN s = 1..Len(s) /\ DOMAIN t = 1..Len(t)
  BY ConcatProperties, LenProperties
<1>. HIDE DEF u
<1>2. \A i \in 1..Len(s) : i \in 1..Len(u) /\ u[i] = s[i]
  BY <1>1
<1>3. \A i \in 1..Len(t) : i + Len(s) \in 1..Len(u) /\ u[i + Len(s)] = t[i]
  BY <1>1
<1>4. \A i \in 1..Len(u) :
          (i \in 1..Len(s) /\ u[i] = s[i]) \/ (i - Len(s) \in 1..Len(t) /\ u[i] = t[i - Len(s)])
  BY <1>1
<1>5. Elements(u) \subseteq Elements(s) \cup Elements(t)
  BY <1>1, <1>4 DEF Elements
<1>6. Elements(s) \subseteq Elements(u)
  BY <1>1, <1>2 DEF Elements
<1>7. Elements(t) \subseteq Elements(u)
  <2>. SUFFICES ASSUME NEW i \in 1..Len(t) PROVE \E j \in 1..Len(u) : t[i] = u[j]
    BY <1>1 DEF Elements
  <2>. QED BY <1>3
<1>. QED BY <1>5, <1>6, <1>7 DEF u

LEMMA AgreedMonotone ==
    ASSUME NEW k \in 0..MaxSeq, NEW e \in 0..k
    PROVE  Elements(Agreed[e]) \subseteq Elements(Agreed[k])
<1>1. e \in 0..MaxSeq
  BY MaxSeqNat
<1>2. PICK t \in Seq(Txn) : Agreed[k] = Agreed[e] \o t
  BY AgreedGrows
<1>3. Agreed[e] \in Seq(Txn)
  BY <1>1, AgreedDef
<1>4. Elements(Agreed[e] \o t) = Elements(Agreed[e]) \cup Elements(t)
  BY <1>3, ElementsConcat
<1>. QED BY <1>2, <1>4

LEMMA CutConcat ==
    ASSUME NEW S, NEW s \in Seq(S), NEW t \in Seq(S)
    PROVE  /\ Front(s \o t, Len(s)) = s /\ Rest(s \o t, Len(s)) = t
           /\ SubSeq(s \o t, 1, Len(s)) = s
<1>. DEFINE u == s \o t
<1>1. /\ u \in Seq(S) /\ Len(u) = Len(s) + Len(t)
      /\ \A i \in 1..(Len(s) + Len(t)) :
             u[i] = IF i <= Len(s) THEN s[i] ELSE t[i - Len(s)]
      /\ Len(s) \in Nat /\ Len(t) \in Nat
  BY ConcatProperties, LenProperties
<1>. HIDE DEF u
<1>2. \A i \in 1..Len(u) : u[i] \in S
  BY <1>1, ElementOfSeq
<1>3. SubSeq(u, 1, Len(s)) = s
  <2>. DEFINE f == SubSeq(u, 1, Len(s))
  <2>1. \A i \in 1..Len(s) : u[i] \in S
    BY <1>1, <1>2
  <2>2. f \in Seq(S) /\ Len(f) = Len(s) /\ \A i \in 1..Len(s) : f[i] = u[i]
    BY <1>1, <2>1, SubSeqProperties
  <2>. HIDE DEF f
  <2>3. \A i \in 1..Len(f) : f[i] = s[i]
    BY <1>1, <2>2
  <2>4. f = s
    BY <2>2, <2>3, SeqEqual
  <2>. QED BY <2>4 DEF f
<1>4. Front(u, Len(s)) = s
  <2>1. (IF Len(s) < Len(u) THEN Len(s) ELSE Len(u)) = Len(s)
    BY <1>1
  <2>. QED BY <1>3, <2>1 DEF Front
<1>5. Rest(u, Len(s)) = t
  <2>. DEFINE f == SubSeq(u, Len(s) + 1, Len(u))
  <2>1. \A i \in (Len(s) + 1)..Len(u) : u[i] \in S
    BY <1>1, <1>2
  <2>2. f \in Seq(S) /\ Len(f) = Len(t) /\ \A i \in 1..Len(t) : f[i] = u[Len(s) + i]
    BY <1>1, <2>1, SubSeqProperties
  <2>. HIDE DEF f
  <2>3. ASSUME NEW i \in 1..Len(f) PROVE f[i] = t[i]
    <3>1. /\ Len(s) + i \in 1..(Len(s) + Len(t)) /\ ~(Len(s) + i <= Len(s))
          /\ (Len(s) + i) - Len(s) = i /\ i \in 1..Len(t)
      BY <1>1, <2>2
    <3>2. u[Len(s) + i] = t[i]
      BY <1>1, <3>1
    <3>. QED BY <2>2, <3>1, <3>2
  <2>4. f = t
    BY <2>2, <2>3, SeqEqual
  <2>. QED BY <2>4 DEF f, Rest
<1>. QED BY <1>3, <1>4, <1>5 DEF u

\* The batches 1..k are held, 1..m of them ordered and 1..e executed.
Tracks(k, m, e) ==
    /\ prePrepares = 1..k
    /\ Len(ordered) = m /\ \A i \in 1..m : ordered[i] = i
    /\ Len(outBox) = m - e /\ \A i \in 1..(m - e) : outBox[i] = e + i
    /\ ledger.committed = Agreed[e]
    /\ ledger.committed \o ledger.uncommitted = Agreed[k]
    /\ Tree(ledger) = Agreed[k]

AllBatches == \E k \in 0..MaxSeq : \E m \in 0..k : \E e \in 0..m : Tracks(k, m, e)

\* The inductive invariant: nothing was taken unseen, came by catch-up or is
\* suspected, and the three numbers exist.
TrackInv ==
    catchups = 0 =>
        /\ participating /\ ~failed /\ suspected = {}
        /\ stashingWhileCatchingUp = {} /\ reqsFromCatchupReplies = {}
        /\ AllBatches

LEMMA LastIsHeld ==
    ASSUME NEW k \in Nat, NEW m \in 0..k, ordered \in Seq(SeqNos),
           prePrepares = 1..k, Len(ordered) = m, \A i \in 1..m : ordered[i] = i
    PROVE  Elements(ordered) = 1..m /\ LastSeqNo = k
<1>1. Elements(ordered) = 1..m
  BY LenProperties DEF Elements
<1>2. {0} \cup prePrepares \cup Elements(ordered) = 0..k
  BY <1>1
<1>3. LastSeqNo = MaxOf(0..k)
  BY <1>2 DEF LastSeqNo
<1>4. k \in 0..k /\ \A n \in 0..k : n <= k
  OBVIOUS
<1>5. \A n \in 0..k : (\A j \in 0..k : j <= n) => n = k
  BY <1>4
<1>. QED BY <1>1, <1>3, <1>4, <1>5 DEF MaxOf

LEMMA TrackImplies == TypeOK /\ TrackInv => UncommittedTracksBatches
<1>. SUFFICES ASSUME TypeOK, TrackInv, catchups = 0
              PROVE  /\ ledger.committed \o ledger.uncommitted = Agreed[LastSeqNo]
                     /\ Tree(ledger) = Agreed[LastSeqNo]
                     /\ suspected = {} /\ ~failed
  BY DEF UncommittedTracksBatches
<1>1. PICK k \in 0..MaxSeq : \E m \in 0..k : \E e \in 0..m : Tracks(k, m, e)
  BY DEF TrackInv, AllBatches
<1>2. PICK m \in 0..k : \E e \in 0..m : Tracks(k, m, e)
  BY <1>1
<1>3. PICK e \in 0..m : Tracks(k, m, e)
  BY <1>2
<1>4. LastSeqNo = k
  BY <1>3, LastIsHeld, MaxSeqNat DEF Tracks, TypeOK
<1>. QED BY <1>3, <1>4 DEF Tracks, TrackInv

LEMMA TrackInit == Init => TrackInv
<1>. SUFFICES ASSUME Init, catchups = 0 PROVE TrackInv
  BY DEF TrackInv
<1>1. participating
  BY ExecutionAssumption DEF Init
<1>2. Tracks(0, 0, 0)
  <2>1. Agreed[0] = <<>> /\ <<>> \o <<>> = <<>> /\ 1..0 = {}
    BY AgreedDef, ConcatEmptySeq, EmptySeq
  <2>2. Tree(ledger) = <<>>
    BY DEF Init, Tree
  <2>3. Len(ordered) = 0 /\ Len(outBox) = 0 - 0
    BY EmptySeq DEF Init
  <2>. QED BY <2>1, <2>2, <2>3 DEF Init, Tracks
<1>3. AllBatches
  BY <1>2, MaxSeqNat DEF AllBatches
<1>. QED BY <1>1, <1>3 DEF Init, TrackInv


\* A batch is applied: the next batch is held.
LEMMA AppendTracks ==
    ASSUME NEW k \in 0..MaxSeq, k + 1 \in SeqNos, NEW L \in Ledger,
           L.committed \o L.uncommitted = Agreed[k], Tree(L) = Agreed[k]
    PROVE  LET M == appendTxns(L, Txns(k + 1))
           IN  /\ M.committed = L.committed
               /\ M.committed \o M.uncommitted = Agreed[k + 1]
               /\ Tree(M) = Agreed[k + 1]
<1>. DEFINE M == appendTxns(L, Txns(k + 1))
            u == Txns(k + 1)
            a == L.committed
            b == L.uncommitted
<1>1. u \in Seq(Txn) /\ a \in Seq(Txn) /\ b \in Seq(Txn)
  BY TxnsType DEF Ledger
<1>2. (k + 1) - 1 = k
  BY MaxSeqNat
<1>3. Agreed[k + 1] = Agreed[k] \o u /\ Agreed[k + 1] \in Seq(Txn)
  <2>1. Agreed[k + 1] = Agreed[k] \o u
    BY <1>2, AgreedDef, Zenon
  <2>2. k + 1 \in 0..MaxSeq
    BY MaxSeqNat DEF SeqNos
  <2>. QED BY <2>1, <2>2, AgreedDef
<1>. HIDE DEF u
<1>4. M.committed = a /\ M.uncommitted = b \o u /\ M.tree = Tree(L) \o u
  <2>1. M = [committed |-> a, uncommitted |-> b \o u, tree |-> Tree(L) \o u]
    BY <1>1, AppendTxnsType DEF u
  <2>. QED BY <2>1
<1>5. Tree(M) = Agreed[k + 1]
  BY <1>3, <1>4, NoTreeIsNone DEF Tree
<1>. HIDE DEF M, a, b
<1>6. (a \o b) \o u = a \o (b \o u)
  BY <1>1, Assoc
<1>7. a \o b = Agreed[k]
  BY DEF a, b
<1>. QED BY <1>3, <1>4, <1>5, <1>6, <1>7 DEF M, a

\* A batch with valid requests is refused: no trace is left.
LEMMA RevertTracks ==
    ASSUME NEW k \in 0..MaxSeq, NEW L \in Ledger, NEW txns \in Seq(Txn), Len(txns) # 0,
           L.committed \o L.uncommitted = Agreed[k]
    PROVE  LET M == discardTxns(appendTxns(L, txns), Len(txns))
           IN  /\ M.committed = L.committed
               /\ M.committed \o M.uncommitted = Agreed[k]
               /\ Tree(M) = Agreed[k]
<1>. DEFINE A == appendTxns(L, txns)
            M == discardTxns(A, Len(txns))
            a == L.committed
            b == L.uncommitted
<1>1. a \in Seq(Txn) /\ b \in Seq(Txn) /\ Len(b) \in Nat /\ Len(txns) \in Nat
  BY LenProperties DEF Ledger
<1>2. A \in Ledger /\ A.committed = a /\ A.uncommitted = b \o txns
  <2>1. A \in Ledger /\ A = [committed |-> a, uncommitted |-> b \o txns,
                              tree |-> Tree(L) \o txns]
    BY AppendTxnsType
  <2>. QED BY <2>1
<1>. HIDE DEF b
<1>3. Len(b \o txns) - Len(txns) = Len(b)
  BY <1>1, ConcatProperties
<1>4. SubSeq(b \o txns, 1, Len(b)) = b
  BY <1>1, CutConcat
<1>. HIDE DEF A, a
<1>5. M = [A EXCEPT !.uncommitted = b, !.tree = IF b = <<>> THEN NoTree ELSE a \o b]
  BY <1>2, <1>3, <1>4 DEF discardTxns
<1>6. /\ M.committed = a /\ M.uncommitted = b
      /\ M.tree = IF b = <<>> THEN NoTree ELSE a \o b
  BY <1>2, <1>5 DEF Ledger
<1>. HIDE DEF M
<1>7. a \o b = Agreed[k] /\ Agreed[k] \in Seq(Txn)
  BY AgreedDef DEF a, b
<1>8. a \o <<>> = a
  BY <1>1, ConcatEmptySeq
<1>9. Tree(M) = Agreed[k]
  BY <1>6, <1>7, <1>8, NoTreeIsNone DEF Tree
<1>. QED BY <1>6, <1>7, <1>9 DEF M, A, a

\* The oldest batch is committed: its root matches and the others stay applied.
LEMMA CommitTracks ==
    ASSUME NEW k \in 0..MaxSeq, NEW e \in 0..k, e + 1 \in 0..k, NEW L \in Ledger,
           L.committed = Agreed[e],
           L.committed \o L.uncommitted = Agreed[k], Tree(L) = Agreed[k]
    PROVE  LET r == commit(e + 1, L, TRUE)
           IN  /\ r.ok
               /\ r.ledger.committed = Agreed[e + 1]
               /\ r.ledger.committed \o r.ledger.uncommitted = Agreed[k]
               /\ Tree(r.ledger) = Agreed[k]
<1>0. /\ MaxSeq \in Nat /\ e + 1 \in SeqNos /\ (e + 1) - 1 = e /\ e \in 0..MaxSeq
      /\ e + 1 \in 0..MaxSeq
  BY MaxSeqNat DEF SeqNos
<1>. DEFINE u == Txns(e + 1)
            a == L.committed
            b == L.uncommitted
            M == commitTxns(L, Size[e + 1])
<1>1. u \in Seq(Txn) /\ a \in Seq(Txn) /\ b \in Seq(Txn) /\ Len(u) = Size[e + 1]
  BY <1>0, TxnsType DEF Ledger
<1>2. Agreed[e + 1] = Agreed[e] \o u
  BY <1>0, AgreedDef
<1>3. PICK t \in Seq(Txn) : Agreed[k] = Agreed[e + 1] \o t
  BY <1>0, AgreedGrows
<1>4. /\ M.committed = a \o Front(b, Len(u)) /\ M.uncommitted = Rest(b, Len(u))
      /\ M.tree = IF Rest(b, Len(u)) = <<>> THEN NoTree ELSE L.tree
  BY <1>1 DEF commitTxns
<1>5. commit(e + 1, L, TRUE) = [ledger |-> M, ok |-> M.committed = Agreed[e + 1]]
  BY DEF commit, RootMatches
<1>. HIDE DEF u, M
<1>6. a = Agreed[e] /\ a \o b = Agreed[k]
  OBVIOUS
<1>6a. Tree(L) = IF L.tree = NoTree THEN a ELSE L.tree
  BY DEF Tree
<1>. HIDE DEF a, b
<1>7. b = u \o t
  <2>1. (a \o u) \o t = a \o (u \o t) /\ u \o t \in Seq(Txn)
    BY <1>1, Assoc, ConcatProperties
  <2>2. a \o b = a \o (u \o t)
    BY <1>2, <1>3, <1>6, <2>1
  <2>. QED BY <1>1, <2>1, <2>2, ConcatSimplifications
<1>8. Front(b, Len(u)) = u /\ Rest(b, Len(u)) = t
  BY <1>1, <1>7, CutConcat
<1>9. M.committed = Agreed[e + 1] /\ M.uncommitted = t
  BY <1>2, <1>4, <1>6, <1>8
<1>10. Tree(M) = Agreed[k]
  <2>1. CASE t = <<>>
    <3>1. M.tree = NoTree
      BY <1>4, <1>8, <2>1
    <3>2. Agreed[e + 1] \o <<>> = Agreed[e + 1]
      BY <1>0, AgreedDef, ConcatEmptySeq
    <3>. QED BY <1>3, <1>9, <2>1, <3>1, <3>2 DEF Tree
  <2>2. CASE t # <<>>
    <3>1. M.tree = L.tree
      BY <1>4, <1>8, <2>2
    <3>2. L.tree # NoTree
      <4>1. SUFFICES ASSUME L.tree = NoTree PROVE FALSE
        OBVIOUS
      <4>2. a \o b = a
        BY <1>6, <1>6a, <4>1
      <4>3. b = <<>>
        BY <1>1, <4>2, Empties
      <4>. QED BY <1>1, <1>7, <2>2, <4>3, Empties
    <3>. QED BY <1>6a, <3>1, <3>2 DEF Tree
  <2>. QED BY <2>1, <2>2
<1>. DEFINE r == commit(e + 1, L, TRUE)
<1>11. r.ledger = M /\ r.ok
  <2>1. (M.committed = Agreed[e + 1]) = TRUE
    BY <1>9
  <2>2. r = [ledger |-> M, ok |-> TRUE]
    BY <1>5, <2>1, Zenon
  <2>. HIDE DEF r
  <2>3. r.ledger = M /\ r.ok = TRUE
    BY <2>2
  <2>. QED BY <2>3
<1>. HIDE DEF r
<1>12. /\ r.ok /\ r.ledger.committed = Agreed[e + 1]
       /\ r.ledger.committed \o r.ledger.uncommitted = Agreed[k]
       /\ Tree(r.ledger) = Agreed[k]
  BY <1>3, <1>9, <1>10, <1>11
<1>. QED BY <1>12 DEF r


\* The next-state relation while the node has always participated; no batch
\* without a valid request is refused.
LEMMA TrackNext ==
    ASSUME 0 \notin RefusedSizes, TypeOK, TrackInv, catchups = 0, Next, catchups' = 0
    PROVE  TrackInv'
<1>0. /\ participating /\ ~failed /\ suspected = {}
      /\ stashingWhileCatchingUp = {} /\ reqsFromCatchupReplies = {}
      /\ ledger \in Ledger /\ ordered \in Seq(SeqNos) /\ outBox \in Seq(SeqNos)
  BY DEF TrackInv, TypeOK
<1>1. PICK k \in 0..MaxSeq : \E m \in 0..k : \E e \in 0..m : Tracks(k, m, e)
  BY DEF TrackInv, AllBatches
<1>2. PICK m \in 0..k : \E e \in 0..m : Tracks(k, m, e)
  BY <1>1
<1>3. PICK e \in 0..m : Tracks(k, m, e)
  BY <1>2
<1>4. MaxSeq \in Nat /\ k \in Nat /\ m \in Nat /\ e \in Nat
  BY MaxSeqNat
<1>5. LastSeqNo = k /\ Elements(ordered) = 1..m
  BY <1>0, <1>3, <1>4, LastIsHeld DEF Tracks
<1>6. /\ prePrepares = 1..k
      /\ Len(ordered) = m /\ \A i \in 1..m : ordered[i] = i
      /\ Len(outBox) = m - e /\ \A i \in 1..(m - e) : outBox[i] = e + i
      /\ ledger.committed = Agreed[e]
      /\ ledger.committed \o ledger.uncommitted = Agreed[k]
      /\ Tree(ledger) = Agreed[k]
  BY <1>3 DEF Tracks
\* It is enough to show the new numbers and that the rest stays as it is.
<1>7. ASSUME /\ participating' /\ ~failed'
             /\ suspected' = {} /\ stashingWhileCatchingUp' = {}
             /\ reqsFromCatchupReplies' = {},
             NEW a \in 0..MaxSeq, NEW b \in 0..a, NEW c \in 0..b, Tracks(a, b, c)'
      PROVE  TrackInv'
  BY <1>0, <1>7 DEF TrackInv, AllBatches
<1>8. ASSUME NEW n \in SeqNos, validatePrePrepare(n) PROVE TrackInv'
  <2>. DEFINE applied == appendTxns(ledger, Txns(n))
  <2>1. n = k + 1 /\ k + 1 \in SeqNos /\ n \in 0..MaxSeq /\ m \in 0..n
    BY <1>4, <1>5, <1>8 DEF validatePrePrepare, SeqNos
  <2>2. /\ applied.committed = ledger.committed
        /\ applied.committed \o applied.uncommitted = Agreed[n]
        /\ Tree(applied) = Agreed[n]
    BY <1>0, <1>6, <2>1, AppendTracks
  <2>3. /\ ledger' = applied /\ prePrepares' = prePrepares \cup {n}
        /\ UNCHANGED <<suspected, failed, ordered, stashingWhileCatchingUp, outBox,
                       reqsFromCatchupReplies, participating>>
    BY <1>8, <2>2 DEF validatePrePrepare
  <2>. HIDE DEF applied
  <2>4. prePrepares' = 1..n
    BY <1>4, <1>6, <2>1, <2>3
  <2>5. Tracks(n, m, e)'
    BY <1>6, <2>2, <2>3, <2>4 DEF Tracks
  <2>. QED BY <1>0, <1>7, <2>1, <2>3, <2>5
<1>9. ASSUME NEW count \in RefusedSizes, revert(count) PROVE TrackInv'
  <2>. DEFINE txns == [i \in 1..count |-> <<0, i>>]
              L == discardTxns(appendTxns(ledger, txns), count)
  <2>1. count \in Nat /\ count # 0
    BY ExecutionAssumption
  <2>2. txns \in Seq(Txn) /\ Len(txns) = count
    <3>. DEFINE f(i) == <<0, i>>
    <3>1. \A i \in 1..count : f(i) \in Txn
      BY <1>4, <2>1 DEF Txn
    <3>2. txns = [i \in 1..count |-> f(i)]
      OBVIOUS
    <3>3. DOMAIN txns = 1..count
      OBVIOUS
    <3>. HIDE DEF f, txns
    <3>4. txns \in Seq(Txn)
      BY <2>1, <3>1, <3>2, IsASeq
    <3>. QED BY <2>1, <3>3, <3>4, LenProperties
  <2>3. /\ ledger' = L
        /\ UNCHANGED <<prePrepares, suspected, failed, ordered,
                       stashingWhileCatchingUp, outBox, reqsFromCatchupReplies,
                       participating>>
    BY <1>9 DEF revert, replicaVars, nodeVars
  <2>. HIDE DEF txns
  <2>4. /\ L.committed = ledger.committed
        /\ L.committed \o L.uncommitted = Agreed[k]
        /\ Tree(L) = Agreed[k]
    BY <1>0, <1>6, <2>1, <2>2, RevertTracks
  <2>. HIDE DEF L
  <2>5. Tracks(k, m, e)'
    BY <1>6, <2>3, <2>4 DEF Tracks
  <2>. QED BY <1>0, <1>7, <2>3, <2>5
<1>10. ASSUME NEW n \in SeqNos, stashPrePrepare(n) PROVE FALSE
  BY <1>0, <1>10 DEF stashPrePrepare
<1>11. ASSUME NEW n \in SeqNos, doOrder(n) PROVE TrackInv'
  <2>1. n \in 1..k /\ ~(n <= m)
    BY <1>4, <1>5, <1>6, <1>11 DEF doOrder, SeqNos
  <2>2. n = m + 1
    <3>1. CASE ordered # <<>> /\ ordered[Len(ordered)] = n - 1
      <4>1. m # 0
        BY <1>0, <1>6, <3>1, EmptySeq
      <4>. QED BY <1>4, <1>6, <2>1, <3>1, <4>1
    <3>2. CASE \A p \in prePrepares : p < n => p \in Elements(ordered)
      BY <1>4, <1>5, <1>6, <2>1, <3>2
    <3>. QED BY <1>11, <3>1, <3>2 DEF doOrder, all_prev_ordered
  <2>3. /\ ordered' = Append(ordered, n) /\ outBox' = Append(outBox, n)
        /\ ledger' = ledger /\ stashingWhileCatchingUp' = {}
        /\ UNCHANGED <<prePrepares, suspected, failed, reqsFromCatchupReplies,
                       participating>>
    BY <1>0, <1>11 DEF doOrder, nodeVars
  <2>4. Len(ordered') = n /\ \A i \in 1..n : ordered'[i] = i
    <3>1. /\ Len(ordered') = m + 1 /\ ordered'[m + 1] = n
          /\ \A i \in 1..m : ordered'[i] = ordered[i]
      BY <1>0, <1>6, <2>3, AppendProperties
    <3>. QED BY <1>4, <1>6, <2>2, <3>1
  <2>5. Len(outBox') = n - e /\ \A i \in 1..(n - e) : outBox'[i] = e + i
    <3>1. /\ Len(outBox') = (m - e) + 1 /\ outBox'[(m - e) + 1] = n
          /\ \A i \in 1..(m - e) : outBox'[i] = outBox[i]
      BY <1>0, <1>6, <2>3, AppendProperties
    <3>2. n - e = (m - e) + 1 /\ e + ((m - e) + 1) = n
      BY <1>4, <2>2
    <3>3. \A i \in 1..(n - e) : i \in 1..(m - e) \/ i = (m - e) + 1
      BY <1>4, <3>2
    <3>. QED BY <1>6, <3>1, <3>2, <3>3
  <2>6. Tracks(k, n, e)'
    BY <1>6, <2>3, <2>4, <2>5 DEF Tracks
  <2>7. n \in 0..k /\ e \in 0..n
    BY <1>4, <2>1, <2>2
  <2>. QED BY <1>0, <1>7, <2>3, <2>6, <2>7
<1>12. CASE serviceReplicaOutBox
  <2>. DEFINE r == commit(e + 1, ledger, TRUE)
  <2>1. outBox # <<>> /\ outBox' = Tail(outBox)
    BY <1>12 DEF serviceReplicaOutBox
  <2>2. Len(outBox) # 0 /\ Head(outBox) = outBox[1]
    BY <1>0, <2>1, EmptySeq
  <2>3. e + 1 \in 0..m /\ e + 1 \in 0..k /\ Head(outBox) = e + 1
    BY <1>4, <1>6, <2>2
  <2>4. ~gotInCatchupReplies(e + 1)
    BY <1>0 DEF gotInCatchupReplies
  <2>5. /\ ledger' = r.ledger /\ failed' = ~r.ok
        /\ UNCHANGED <<prePrepares, ordered, stashingWhileCatchingUp,
                       reqsFromCatchupReplies, participating, suspected>>
    BY <1>0, <1>12, <2>3, <2>4 DEF serviceReplicaOutBox
  <2>6. /\ r.ok
        /\ r.ledger.committed = Agreed[e + 1]
        /\ r.ledger.committed \o r.ledger.uncommitted = Agreed[k]
        /\ Tree(r.ledger) = Agreed[k]
    <3>1. e \in 0..k
      BY <1>4
    <3>. QED BY <1>0, <1>6, <2>3, <3>1, CommitTracks
  <2>. HIDE DEF r
  <2>7. Len(outBox') = m - (e + 1) /\ \A i \in 1..(m - (e + 1)) : outBox'[i] = (e + 1) + i
    <3>1. /\ Len(outBox') = (m - e) - 1
          /\ \A i \in 1..Len(outBox') : outBox'[i] = outBox[i + 1]
      BY <1>0, <1>6, <2>1, HeadTailProperties
    <3>2. (m - e) - 1 = m - (e + 1)
      BY <1>4
    <3>3. ASSUME NEW i \in 1..(m - (e + 1)) PROVE outBox'[i] = (e + 1) + i
      <4>1. i + 1 \in 1..(m - e) /\ e + (i + 1) = (e + 1) + i
        BY <1>4
      <4>. QED BY <1>6, <3>1, <3>2, <4>1
    <3>. QED BY <3>1, <3>2, <3>3
  <2>8. Tracks(k, m, e + 1)'
    BY <1>6, <2>5, <2>6, <2>7 DEF Tracks
  <2>9. participating' /\ ~failed'
    BY <1>0, <2>5, <2>6
  <2>. QED BY <1>0, <1>7, <2>3, <2>5, <2>8, <2>9
<1>13. CASE preDomainLedgerCatchUp
  BY <1>13 DEF preDomainLedgerCatchUp
<1>14. ASSUME NEW j \in 0..MaxSeq, NEW reported \in {0, j}, allLedgersCaughtUp(j, reported)
       PROVE  FALSE
  BY <1>0, <1>14 DEF allLedgersCaughtUp
<1>15. CASE PoolExecutes
  <2>1. UNCHANGED <<ledger, failed, prePrepares, ordered, stashingWhileCatchingUp,
                    outBox, reqsFromCatchupReplies, participating, suspected>>
    BY <1>15 DEF PoolExecutes, replicaVars, nodeVars
  <2>2. Tracks(k, m, e)'
    BY <1>6, <2>1 DEF Tracks
  <2>. QED BY <1>0, <1>7, <2>1, <2>2
<1>. QED BY <1>8, <1>9, <1>10, <1>11, <1>12, <1>13, <1>14, <1>15
        DEF Next, Replica, Refuse, CatchUp

\* A node that is not there yet has never been: catchups never falls.
LEMMA CatchupsGrow == TypeOK /\ [Next]_vars => catchups' \in Nat /\ catchups <= catchups'
<1>. SUFFICES ASSUME TypeOK, [Next]_vars PROVE catchups' \in Nat /\ catchups <= catchups'
  OBVIOUS
<1>1. catchups \in Nat
  BY DEF TypeOK
<1>2. catchups' = catchups \/ catchups' = catchups + 1
  BY DEF Next, vars, boundVars, Replica, Refuse, CatchUp, validatePrePrepare,
     stashPrePrepare, doOrder, revert, serviceReplicaOutBox, preDomainLedgerCatchUp,
     allLedgersCaughtUp, PoolExecutes
<1>. QED BY <1>1, <1>2

LEMMA TrackStep == 0 \notin RefusedSizes /\ TypeOK /\ TrackInv /\ [Next]_vars => TrackInv'
<1>. SUFFICES ASSUME 0 \notin RefusedSizes, TypeOK, TrackInv, [Next]_vars, catchups' = 0
              PROVE  TrackInv'
  BY DEF TrackInv
<1>1. catchups = 0
  BY CatchupsGrow DEF TypeOK
<1>2. CASE UNCHANGED vars
  BY <1>2 DEF vars, replicaVars, nodeVars, boundVars, TrackInv, AllBatches, Tracks
<1>3. CASE Next
  BY <1>1, <1>3, TrackNext
<1>. QED BY <1>2, <1>3

\* As long as the node has always participated and no batch without a valid
\* request is refused (ledger.py:83 would discard everything), what it has
\* applied and not committed is exactly the batches it holds and has not executed,
\* and the root the next PRE-PREPARE is compared with is the agreed one.
THEOREM UncommittedTracked ==
    0 \notin RefusedSizes => (Spec => []UncommittedTracksBatches)
<1>. SUFFICES ASSUME 0 \notin RefusedSizes PROVE Spec => []UncommittedTracksBatches
  OBVIOUS
<1>1. TypeOK /\ TrackInv /\ [Next]_vars => TrackInv'
  BY TrackStep
<1>. QED BY <1>1, TypeCorrect, TrackInit, TrackImplies, PTL DEF Spec

-----------------------------------------------------------------------------
(* An ordered batch is written or waits *)

LEMMA ElementsAppend ==
    ASSUME NEW S, NEW s \in Seq(S), NEW e \in S
    PROVE  Elements(Append(s, e)) = Elements(s) \cup {e}
<1>. DEFINE t == Append(s, e)
<1>1. /\ Len(t) = Len(s) + 1 /\ t[Len(s) + 1] = e /\ Len(s) \in Nat
      /\ \A i \in 1..Len(s) : t[i] = s[i]
      /\ DOMAIN t = 1..Len(t) /\ DOMAIN s = 1..Len(s)
  BY AppendProperties, LenProperties
<1>. HIDE DEF t
<1>2. 1..Len(t) = 1..Len(s) \cup {Len(s) + 1}
  BY <1>1
<1>3. Elements(t) = Elements(s) \cup {e}
  BY <1>1, <1>2 DEF Elements
<1>. QED BY <1>3 DEF t

\* The head of a queue leaves, the others stay.
LEMMA ElementsTail ==
    ASSUME NEW S, NEW s \in Seq(S), s # <<>>
    PROVE  Elements(s) \subseteq Elements(Tail(s)) \cup {Head(s)}
<1>. DEFINE t == Tail(s)
<1>1. /\ Len(s) \in Nat \ {0} /\ Head(s) = s[1] /\ Len(t) = Len(s) - 1
      /\ \A i \in 1..Len(t) : t[i] = s[i + 1]
      /\ DOMAIN s = 1..Len(s) /\ DOMAIN t = 1..Len(t)
  BY EmptySeq, HeadTailProperties, LenProperties
<1>. HIDE DEF t
<1>2. \A i \in 1..Len(s) : i = 1 \/ (i - 1 \in 1..Len(t) /\ t[i - 1] = s[i])
  BY <1>1
<1>3. Elements(s) \subseteq Elements(t) \cup {Head(s)}
  BY <1>1, <1>2 DEF Elements
<1>. QED BY <1>3 DEF t

\* The agreed ledger holds the transactions of its batches, all of them.
LEMMA AgreedHolds ==
    ASSUME NEW m \in 0..MaxSeq, NEW n \in 1..m
    PROVE  n \in SeqNos /\ Elements(Txns(n)) \subseteq Elements(Agreed[m])
<1>1. n \in SeqNos /\ n \in 0..m /\ n \in 0..MaxSeq /\ n - 1 \in 0..MaxSeq
  BY MaxSeqNat DEF SeqNos
<1>2. PICK t \in Seq(Txn) : Agreed[m] = Agreed[n] \o t
  BY <1>1, AgreedGrows
<1>3. /\ Agreed[n] = Agreed[n - 1] \o Txns(n) /\ Txns(n) \in Seq(Txn)
      /\ Agreed[n - 1] \in Seq(Txn) /\ Agreed[n] \in Seq(Txn)
  BY <1>1, AgreedDef, TxnsType
<1>4. /\ Elements(Txns(n)) \subseteq Elements(Agreed[n])
      /\ Elements(Agreed[n]) \subseteq Elements(Agreed[m])
  <2>1. Elements(Agreed[n - 1] \o Txns(n)) = Elements(Agreed[n - 1]) \cup Elements(Txns(n))
    BY <1>3, ElementsConcat
  <2>2. Elements(Agreed[n] \o t) = Elements(Agreed[n]) \cup Elements(t)
    <3>. DEFINE a == Agreed[n]
    <3>1. a \in Seq(Txn) /\ t \in Seq(Txn)
      BY <1>3
    <3>. HIDE DEF a
    <3>2. Elements(a \o t) = Elements(a) \cup Elements(t)
      BY <3>1, ElementsConcat
    <3>. QED BY <3>2 DEF a
  <2>. QED BY <1>2, <1>3, <2>1, <2>2
<1>. QED BY <1>1, <1>4

\* And no others.
LEMMA AgreedHoldsOnly ==
    ASSUME NEW m \in 0..MaxSeq, NEW e \in Elements(Agreed[m])
    PROVE  \E n \in 1..m : e \in Elements(Txns(n))
<1>. DEFINE Only(i) == \A x \in Elements(Agreed[i]) : \E n \in 1..i : x \in Elements(Txns(n))
            S == {i \in 0..MaxSeq : Only(i)}
<1>0. MaxSeq \in Nat
  BY MaxSeqNat
<1>1. 0 \in S
  <2>1. Elements(Agreed[0]) = {}
    BY AgreedDef DEF Elements
  <2>. QED BY <1>0, <2>1
<1>2. ASSUME NEW i \in 0..(MaxSeq - 1), i \in S PROVE i + 1 \in S
  <2>1. /\ i + 1 \in 0..MaxSeq /\ i + 1 \in SeqNos /\ (i + 1) - 1 = i /\ i \in 0..MaxSeq
        /\ i + 1 \in 1..(i + 1) /\ 1..i \subseteq 1..(i + 1)
    BY <1>0 DEF SeqNos
  <2>2. /\ Agreed[i + 1] = Agreed[i] \o Txns(i + 1) /\ Txns(i + 1) \in Seq(Txn)
        /\ Agreed[i] \in Seq(Txn)
    BY <2>1, AgreedDef, TxnsType
  <2>3. Elements(Agreed[i + 1]) = Elements(Agreed[i]) \cup Elements(Txns(i + 1))
    BY <2>2, ElementsConcat
  <2>. QED BY <1>2, <2>1, <2>3
<1>. HIDE DEF S
<1>3. 0..MaxSeq \subseteq S
  BY <1>0, <1>1, <1>2, InductionUpTo
<1>. QED BY <1>3 DEF S

\* An agreed ledger with one transaction of a batch has all of them.
LEMMA AllOrNone ==
    ASSUME NEW L, IsAgreed(L), NEW n \in SeqNos,
           Elements(Txns(n)) \cap Elements(L.committed) # {}
    PROVE  Elements(Txns(n)) \subseteq Elements(L.committed)
<1>1. PICK m \in 0..MaxSeq : L.committed = Agreed[m]
  BY DEF IsAgreed
<1>2. PICK e : e \in Elements(Txns(n)) /\ e \in Elements(Agreed[m])
  BY <1>1
<1>3. PICK j \in 1..m : e \in Elements(Txns(j))
  BY <1>2, AgreedHoldsOnly
<1>4. j \in SeqNos
  BY AgreedHolds
<1>5. ASSUME NEW i \in SeqNos, e \in Elements(Txns(i)) PROVE e[1] = i
  <2>1. DOMAIN Txns(i) = 1..Size[i]
    BY DEF Txns
  <2>2. PICK x \in 1..Size[i] : e = Txns(i)[x]
    BY <1>5, <2>1 DEF Elements
  <2>. QED BY <2>2, TxnsType
<1>6. j = n
  BY <1>2, <1>3, <1>4, <1>5
<1>. QED BY <1>1, <1>6, AgreedHolds

\* What is written stays, and a batch that is committed is.
LEMMA CommitWrites ==
    ASSUME NEW n \in SeqNos, NEW L \in Ledger, NEW ok \in BOOLEAN, commit(n, L, ok).ok
    PROVE  /\ ok
           /\ Elements(L.committed) \subseteq Elements(commit(n, L, ok).ledger.committed)
           /\ Elements(Txns(n)) \subseteq Elements(commit(n, L, ok).ledger.committed)
<1>. DEFINE after == commitTxns(L, Size[n])
<1>1. /\ ok /\ commit(n, L, ok).ledger = after /\ after.committed = Agreed[n]
  BY DEF commit, RootMatches
<1>2. after.committed = L.committed \o Front(L.uncommitted, Size[n])
  BY DEF commitTxns
<1>3. L.committed \in Seq(Txn) /\ Front(L.uncommitted, Size[n]) \in Seq(Txn)
  BY CutType, MaxSeqNat DEF Ledger
<1>. HIDE DEF after
<1>4. Elements(L.committed) \subseteq Elements(after.committed)
  BY <1>2, <1>3, ElementsConcat
<1>5. Elements(Txns(n)) \subseteq Elements(Agreed[n])
  <2>1. n \in 0..MaxSeq /\ n \in 1..n
    BY MaxSeqNat DEF SeqNos
  <2>. QED BY <2>1, AgreedHolds
<1>. QED BY <1>1, <1>4, <1>5

\* What decides that a message put aside is left out: all of it is on ledger L.
CaughtUp(L, last, got) ==
    /\ last \in -1..MaxSeq
    /\ last > 0 => Elements(Agreed[last]) \subseteq Elements(L.committed)
    /\ got \subseteq Elements(L.committed)

LEMMA StashedWrites ==
    ASSUME NEW n \in SeqNos, NEW s \in Outcome, NEW L, NEW last, NEW got,
           CaughtUp(L, last, got),
           s.ok => /\ IsAgreed(s.ledger)
                   /\ Elements(L.committed) \subseteq Elements(s.ledger.committed),
           processStashed(n, s, last, got).ok
    PROVE  /\ s.ok
           /\ Elements(s.ledger.committed)
                  \subseteq Elements(processStashed(n, s, last, got).ledger.committed)
           /\ Elements(Txns(n)) \subseteq Elements(processStashed(n, s, last, got).ledger.committed)
<1>. DEFINE r == processStashed(n, s, last, got)
            B == IF s.ok THEN appendTxns(s.ledger, Txns(n)) ELSE s.ledger
<1>0. s.ok \in BOOLEAN /\ s.ledger \in Ledger /\ n \in 1..MaxSeq
  BY DEF Outcome, SeqNos
<1>1. CASE n <= last \/ Elements(Txns(n)) \cap got # {}
  <2>1. r = s /\ s.ok
    BY <1>1 DEF processStashed
  <2>2. Elements(Txns(n)) \subseteq Elements(s.ledger.committed)
    <3>1. CASE n <= last
      <4>1. last \in 0..MaxSeq /\ n \in 1..last /\ last > 0
        BY <1>0, <3>1, MaxSeqNat DEF CaughtUp
      <4>2. Elements(Txns(n)) \subseteq Elements(Agreed[last])
        BY <4>1, AgreedHolds
      <4>. QED BY <2>1, <4>1, <4>2 DEF CaughtUp
    <3>2. CASE Elements(Txns(n)) \cap got # {}
      <4>1. Elements(Txns(n)) \cap Elements(s.ledger.committed) # {}
        BY <2>1, <3>2 DEF CaughtUp
      <4>. QED BY <2>1, <4>1, AllOrNone
    <3>. QED BY <1>1, <3>1, <3>2
  <2>. QED BY <2>1, <2>2
<1>2. CASE ~(n <= last \/ Elements(Txns(n)) \cap got # {})
  <2>1. r = commit(n, B, s.ok)
    BY <1>2 DEF processStashed
  <2>2. B \in Ledger /\ B.committed = s.ledger.committed
    <3>1. Txns(n) \in Seq(Txn)
      BY TxnsType
    <3>. DEFINE M == s.ledger
    <3>2. M \in Ledger
      BY <1>0
    <3>. HIDE DEF M
    <3>. DEFINE txns == Txns(n)
    <3>3. txns \in Seq(Txn)
      BY <3>1
    <3>. HIDE DEF txns
    <3>4. /\ appendTxns(M, txns) \in Ledger
          /\ appendTxns(M, txns) = [committed |-> M.committed,
                                    uncommitted |-> M.uncommitted \o txns,
                                    tree |-> Tree(M) \o txns]
      BY <3>2, <3>3, AppendTxnsType
    <3>5. appendTxns(M, txns).committed = M.committed
      BY <3>4
    <3>. QED BY <1>0, <3>4, <3>5 DEF M, txns
  <2>. HIDE DEF B
  <2>. QED BY <1>0, <2>1, <2>2, CommitWrites
<1>. QED BY <1>1, <1>2

\* All messages put aside are written or left out, in the order they came.
LEMMA AllStashedWritten ==
    ASSUME NEW L \in Ledger, IsAgreed(L), NEW last, NEW got, CaughtUp(L, last, got),
           stashedOrderedReqs \in Seq(SeqNos),
           processStashedOrderedReqs(L, last, got).ok
    PROVE  LET r == processStashedOrderedReqs(L, last, got)
           IN  /\ Elements(L.committed) \subseteq Elements(r.ledger.committed)
               /\ \A n \in Elements(stashedOrderedReqs) :
                      Elements(Txns(n)) \subseteq Elements(r.ledger.committed)
<1>. DEFINE N == Len(stashedOrderedReqs)
            C(s) == Elements(s.ledger.committed)
            V == {s \in Outcome : s.ok => /\ IsAgreed(s.ledger)
                                          /\ Elements(L.committed) \subseteq C(s)}
            T(j) == Elements(Txns(stashedOrderedReqs[j]))
<1>1. /\ N \in Nat /\ DOMAIN stashedOrderedReqs = 1..N
      /\ \A i \in 1..N : stashedOrderedReqs[i] \in SeqNos
  BY LenProperties, ElementOfSeq
<1>2. [ledger |-> L, ok |-> TRUE] \in V
  BY DEF Outcome
<1>3. \A n \in SeqNos, s \in V : processStashed(n, s, last, got) \in V
  <2>. SUFFICES ASSUME NEW n \in SeqNos, NEW s \in V PROVE processStashed(n, s, last, got) \in V
    OBVIOUS
  <2>1. processStashed(n, s, last, got) \in Outcome
    BY ProcessStashedType
  <2>2. processStashed(n, s, last, got).ok =>
            /\ IsAgreed(processStashed(n, s, last, got).ledger)
            /\ Elements(L.committed) \subseteq C(processStashed(n, s, last, got))
    BY StashedWrites, ProcessStashedAgreed
  <2>. QED BY <2>1, <2>2
<1>4. PICK done \in [0..N -> V] :
          /\ done[0] = [ledger |-> L, ok |-> TRUE]
          /\ \A i \in 1..N : done[i] = processStashed(stashedOrderedReqs[i], done[i - 1], last, got)
          /\ done[N] = processStashedOrderedReqs(L, last, got)
  <2>. HIDE DEF V
  <2>. QED BY <1>2, <1>3, ProcessStashedSteps
<1>. DEFINE S == {i \in 0..N : done[i].ok => \A j \in 1..i : T(j) \subseteq C(done[i])}
<1>. HIDE DEF N
<1>5. 0 \in S
  BY <1>1
<1>6. ASSUME NEW i \in 0..(N - 1), i \in S PROVE i + 1 \in S
  <2>1. i + 1 \in 1..N /\ i + 1 \in 0..N /\ (i + 1) - 1 = i /\ i \in 0..N
    BY <1>1
  <2>2. \A j \in 1..(i + 1) : j \in 1..i \/ j = i + 1
    BY <2>1
  <2>3. /\ done[i] \in Outcome
        /\ done[i].ok => IsAgreed(done[i].ledger) /\ Elements(L.committed) \subseteq C(done[i])
    BY <2>1
  <2>4. done[i + 1] = processStashed(stashedOrderedReqs[i + 1], done[i], last, got)
    BY <1>4, <2>1
  <2>5. stashedOrderedReqs[i + 1] \in SeqNos
    BY <1>1, <2>1
  <2>6. done[i + 1].ok => /\ done[i].ok /\ C(done[i]) \subseteq C(done[i + 1])
                          /\ T(i + 1) \subseteq C(done[i + 1])
    BY <2>3, <2>4, <2>5, StashedWrites
  <2>. HIDE DEF V, T, C
  <2>. QED BY <1>6, <2>1, <2>2, <2>6
<1>. HIDE DEF S
<1>7. 0..N \subseteq S
  BY <1>1, <1>5, <1>6, InductionUpTo
<1>8. N \in S /\ done[N] \in V
  BY <1>1, <1>7
<1>9. \A n \in Elements(stashedOrderedReqs) : \E j \in 1..N : n = stashedOrderedReqs[j]
  BY <1>1 DEF Elements
<1>. QED BY <1>4, <1>8, <1>9 DEF S

\* The inductive invariant: what was caught up is on the ledger, and no ordered
\* batch is lost.
OrderedInv ==
    /\ LedgerAgreed /\ OrderedNotLost
    /\ ~failed => CaughtUp(ledger, lastCaughtUpPpSeqNo, reqsFromCatchupReplies)

LEMMA OrderedInit == Init => OrderedInv
<1>1. -1 \in -1..MaxSeq /\ ~(-1 > 0)
  BY MaxSeqNat
<1>. QED BY <1>1, AgreedInit DEF Init, OrderedInv, OrderedNotLost, CaughtUp, Elements

\* Nothing leaves the ledger, nothing new is ordered or caught up.
LEMMA OrderedKept ==
    ASSUME OrderedInv, ~failed, LedgerAgreed',
           Elements(ledger.committed) \subseteq Elements(ledger'.committed),
           UNCHANGED <<lastCaughtUpPpSeqNo, reqsFromCatchupReplies>>,
           Elements(ordered') \subseteq Elements(ordered) \cup Elements(outBox'),
           \A n \in Elements(outBox) \cup Elements(stashedOrderedReqs) :
               \/ n \in Elements(outBox') \/ n \in Elements(stashedOrderedReqs')
               \/ ~failed' => Elements(Txns(n)) \subseteq Elements(ledger'.committed)
    PROVE  OrderedInv'
<1>1. CaughtUp(ledger, lastCaughtUpPpSeqNo, reqsFromCatchupReplies)'
  BY DEF OrderedInv, CaughtUp
<1>2. OrderedNotLost'
  BY DEF OrderedInv, OrderedNotLost, Written
<1>. QED BY <1>1, <1>2 DEF OrderedInv

LEMMA OrderedStep == TypeOK /\ OrderedInv /\ [Next]_vars => OrderedInv'
<1>. SUFFICES ASSUME TypeOK, OrderedInv, [Next]_vars PROVE OrderedInv'
  OBVIOUS
<1>0. LedgerAgreed' /\ ledger \in Ledger
  BY AgreedStep DEF OrderedInv, TypeOK
<1>1. CASE UNCHANGED vars
  BY <1>1 DEF vars, replicaVars, nodeVars, OrderedInv, LedgerAgreed, OrderedNotLost, Written, CaughtUp
<1>. SUFFICES ASSUME Next PROVE OrderedInv'
  BY <1>1
<1>2. ~failed /\ IsAgreed(ledger)
  BY DEF Next, OrderedInv, LedgerAgreed, IsAgreed
<1>3. ASSUME ledger'.committed = ledger.committed,
             UNCHANGED <<lastCaughtUpPpSeqNo, reqsFromCatchupReplies, ordered, outBox,
                         stashedOrderedReqs>>
      PROVE  OrderedInv'
  BY <1>0, <1>2, <1>3, OrderedKept
<1>4. ASSUME NEW L \in Ledger, NEW txns \in Seq(Txn), NEW count
      PROVE  /\ appendTxns(L, txns) \in Ledger
             /\ appendTxns(L, txns).committed = L.committed
             /\ discardTxns(L, count).committed = L.committed
  BY AppendTxnsType DEF discardTxns, Ledger
<1>5. ASSUME NEW n \in SeqNos, validatePrePrepare(n) PROVE OrderedInv'
  <2>. DEFINE applied == appendTxns(ledger, Txns(n))
  <2>1. ledger' = applied \/ ledger' = discardTxns(applied, Size[n])
    BY <1>5 DEF validatePrePrepare
  <2>2. Txns(n) \in Seq(Txn)
    BY TxnsType
  <2>3. applied \in Ledger /\ applied.committed = ledger.committed
    BY <1>0, <1>4, <2>2
  <2>. HIDE DEF applied
  <2>4. ledger'.committed = ledger.committed
    BY <1>4, <2>1, <2>2, <2>3
  <2>5. UNCHANGED <<lastCaughtUpPpSeqNo, reqsFromCatchupReplies, ordered, outBox,
                    stashedOrderedReqs>>
    BY <1>5 DEF validatePrePrepare
  <2>. QED BY <1>3, <2>4, <2>5
<1>6. ASSUME NEW n \in SeqNos, stashPrePrepare(n) PROVE OrderedInv'
  BY <1>3, <1>6 DEF stashPrePrepare, nodeVars
<1>7. ASSUME NEW n \in SeqNos, doOrder(n) PROVE OrderedInv'
  <2>1. ledger' = appendTxns(ledger, Txns(n)) \/ ledger' = ledger
    BY <1>7 DEF doOrder
  <2>2. ledger'.committed = ledger.committed
    BY <1>0, <1>4, <2>1, TxnsType
  <2>3. /\ Elements(ordered') = Elements(ordered) \cup {n}
        /\ Elements(outBox') = Elements(outBox) \cup {n}
    BY <1>7, ElementsAppend DEF doOrder, TypeOK
  <2>4. UNCHANGED <<lastCaughtUpPpSeqNo, reqsFromCatchupReplies, stashedOrderedReqs>>
    BY <1>7 DEF doOrder, nodeVars
  <2>. QED BY <1>0, <1>2, <2>2, <2>3, <2>4, OrderedKept
<1>8. ASSUME NEW count \in RefusedSizes, revert(count) PROVE OrderedInv'
  <2>. DEFINE txns == [i \in 1..count |-> <<0, i>>]
              applied == appendTxns(ledger, txns)
  <2>1. txns \in Seq(Txn)
    <3>. DEFINE e(i) == <<0, i>>
    <3>1. count \in Nat /\ 0 \in 0..MaxSeq
      BY ExecutionAssumption, MaxSeqNat
    <3>2. \A i \in 1..count : e(i) \in Txn
      BY <3>1 DEF Txn
    <3>3. txns = [i \in 1..count |-> e(i)]
      OBVIOUS
    <3>. HIDE DEF e, txns
    <3>. QED BY <3>1, <3>2, <3>3, IsASeq
  <2>2. ledger' = discardTxns(applied, count)
    BY <1>8 DEF revert
  <2>. HIDE DEF txns
  <2>3. applied \in Ledger /\ applied.committed = ledger.committed
    BY <1>0, <1>4, <2>1
  <2>. HIDE DEF applied
  <2>4. ledger'.committed = ledger.committed
    BY <1>4, <2>1, <2>2, <2>3
  <2>5. UNCHANGED <<lastCaughtUpPpSeqNo, reqsFromCatchupReplies, ordered, outBox,
                    stashedOrderedReqs>>
    BY <1>8 DEF revert, replicaVars, nodeVars
  <2>. QED BY <1>3, <2>4, <2>5
<1>9. CASE serviceReplicaOutBox
  <2>. DEFINE n == Head(outBox)
              r == commit(n, ledger, TRUE)
  <2>1. /\ n \in SeqNos /\ outBox \in Seq(SeqNos) /\ outBox # <<>>
        /\ stashedOrderedReqs \in Seq(SeqNos)
    BY <1>9, HeadTailProperties DEF TypeOK, serviceReplicaOutBox
  <2>2. /\ outBox' = Tail(outBox)
        /\ UNCHANGED <<lastCaughtUpPpSeqNo, reqsFromCatchupReplies, ordered>>
        /\ \/ ledger' = r.ledger /\ failed' = ~r.ok /\ UNCHANGED stashedOrderedReqs
           \/ /\ stashedOrderedReqs' = Append(stashedOrderedReqs, n)
              /\ UNCHANGED <<ledger, failed>>
    BY <1>9 DEF serviceReplicaOutBox
  <2>3. r.ok => /\ Elements(ledger.committed) \subseteq Elements(r.ledger.committed)
                /\ Elements(Txns(n)) \subseteq Elements(r.ledger.committed)
    BY <1>0, <2>1, CommitWrites
  <2>4. r.ok \in BOOLEAN /\ Elements(outBox) \subseteq Elements(Tail(outBox)) \cup {n}
    BY <1>0, <2>1, CommitType, ElementsTail DEF Outcome
  <2>5. Elements(Append(stashedOrderedReqs, n)) = Elements(stashedOrderedReqs) \cup {n}
    BY <2>1, ElementsAppend
  <2>. HIDE DEF r, n
  <2>6. CASE failed'
    BY <1>0, <2>6 DEF OrderedInv, OrderedNotLost
  <2>7. CASE ~failed'
    <3>1. Elements(ledger.committed) \subseteq Elements(ledger'.committed)
      BY <2>2, <2>3, <2>7
    <3>2. \A q \in Elements(outBox) \cup Elements(stashedOrderedReqs) :
              \/ q \in Elements(outBox') \/ q \in Elements(stashedOrderedReqs')
              \/ Elements(Txns(q)) \subseteq Elements(ledger'.committed)
      BY <2>2, <2>3, <2>4, <2>5, <2>7
    <3>. QED BY <1>0, <1>2, <2>2, <3>1, <3>2, OrderedKept
  <2>. QED BY <2>6, <2>7
<1>10. CASE preDomainLedgerCatchUp \/ PoolExecutes
  BY <1>3, <1>10 DEF preDomainLedgerCatchUp, PoolExecutes, replicaVars, nodeVars
<1>11. ASSUME NEW k \in 0..MaxSeq, NEW reported \in {0, k}, allLedgersCaughtUp(k, reported)
       PROVE  OrderedInv'
  <2>. DEFINE caught == {t \in Elements(Agreed[k]) : t \notin Elements(ledger.committed)}
              got == reqsFromCatchupReplies \cup caught
              last == IF k > 0 THEN catchupCompleted(k, reported)
                      ELSE lastCaughtUpPpSeqNo
              L == IF caught = {} THEN ledger
                   ELSE [ledger EXCEPT !.committed = Agreed[k]]
              r == processStashedOrderedReqs(L, last, got)
  <2>1. CaughtUp(ledger, lastCaughtUpPpSeqNo, reqsFromCatchupReplies) /\ k \in Int /\ MaxSeq \in Nat
    BY <1>2, MaxSeqNat DEF OrderedInv
  <2>2. L \in Ledger /\ IsAgreed(L) /\ Elements(Agreed[k]) \subseteq Elements(L.committed)
    <3>1. Agreed[k] \in Seq(Txn)
      BY AgreedDef
    <3>. QED BY <1>0, <1>2, <3>1 DEF Ledger, IsAgreed
  <2>3. Elements(ledger.committed) \subseteq Elements(L.committed)
    <3>1. CASE caught = {}
      BY <3>1
    <3>2. CASE caught # {}
      <4>1. PICK m \in 0..MaxSeq : ledger.committed = Agreed[m]
        BY <1>2 DEF IsAgreed
      <4>2. ~(k <= m)
        <5>. SUFFICES ASSUME k <= m PROVE FALSE
          OBVIOUS
        <5>1. k \in 0..m
          BY <4>1
        <5>2. Elements(Agreed[k]) \subseteq Elements(Agreed[m])
          BY <4>1, <5>1, AgreedMonotone
        <5>. QED BY <3>2, <4>1, <5>2
      <4>3. m \in 0..k
        BY <4>1, <4>2
      <4>4. Elements(Agreed[m]) \subseteq Elements(Agreed[k])
        BY <4>3, AgreedMonotone
      <4>. QED BY <2>2, <4>1, <4>4
    <3>. QED BY <3>1, <3>2
  <2>4. CaughtUp(L, last, got)
    <3>1. last = lastCaughtUpPpSeqNo \/ last = 0 \/ (last = k /\ k > 0)
      BY DEF catchupCompleted
    <3>2. got \subseteq Elements(L.committed)
      BY <2>1, <2>2, <2>3 DEF CaughtUp
    <3>. HIDE DEF last, got, L
    <3>3. last \in -1..MaxSeq
      BY <2>1, <3>1, MaxSeqNat DEF CaughtUp
    <3>4. last > 0 => Elements(Agreed[last]) \subseteq Elements(L.committed)
      BY <2>1, <2>2, <2>3, <3>1 DEF CaughtUp
    <3>. QED BY <3>2, <3>3, <3>4 DEF CaughtUp
  <2>5. /\ reqsFromCatchupReplies' = got /\ lastCaughtUpPpSeqNo' = last
        /\ ledger' = r.ledger /\ failed' = ~r.ok
        /\ UNCHANGED outBox
        /\ ordered' = IF last > 0 /\ last \notin Elements(ordered)
                      THEN Append(ordered, last) ELSE ordered
    BY <1>11 DEF allLedgersCaughtUp
  <2>6. r.ok => /\ Elements(L.committed) \subseteq Elements(r.ledger.committed)
                /\ \A n \in Elements(stashedOrderedReqs) :
                       Elements(Txns(n)) \subseteq Elements(r.ledger.committed)
    <3>. HIDE DEF L, last, got
    <3>. QED BY <2>2, <2>4, AllStashedWritten DEF TypeOK
  <2>. HIDE DEF L, last, got, r
  <2>7. CASE failed'
    BY <1>0, <2>7 DEF OrderedInv, OrderedNotLost
  <2>8. CASE ~failed'
    <3>1. Elements(L.committed) \subseteq Elements(ledger'.committed)
      BY <2>5, <2>6, <2>8
    <3>2. CaughtUp(ledger, lastCaughtUpPpSeqNo, reqsFromCatchupReplies)'
      BY <2>4, <2>5, <3>1 DEF CaughtUp
    <3>3. \A n \in Elements(ordered') : n \in Elements(ordered) \/ (n = last /\ last > 0)
      <4>1. CASE last > 0 /\ last \notin Elements(ordered)
        <5>1. last \in SeqNos
          BY <2>4, <4>1, MaxSeqNat DEF CaughtUp, SeqNos
        <5>2. Elements(ordered') = Elements(ordered) \cup {last}
          BY <2>5, <4>1, <5>1, ElementsAppend DEF TypeOK
        <5>. QED BY <4>1, <5>2
      <4>. QED BY <2>5, <4>1
    <3>4. last > 0 => Elements(Txns(last)) \subseteq Elements(L.committed)
      <4>. SUFFICES ASSUME last > 0 PROVE Elements(Txns(last)) \subseteq Elements(L.committed)
        OBVIOUS
      <4>1. last \in 0..MaxSeq /\ last \in 1..last
        BY <2>4, MaxSeqNat DEF CaughtUp
      <4>. QED BY <2>4, <4>1, AgreedHolds DEF CaughtUp
    <3>5. OrderedNotLost'
      <4>. SUFFICES ASSUME NEW n \in Elements(ordered'), n \notin Elements(outBox')
                    PROVE  Elements(Txns(n)) \subseteq Elements(ledger'.committed)
        BY DEF OrderedNotLost, Written
      <4>1. CASE n = last /\ last > 0
        BY <3>1, <3>4, <4>1
      <4>2. CASE n \in Elements(ordered)
        <5>1. \/ Elements(Txns(n)) \subseteq Elements(ledger.committed)
              \/ n \in Elements(stashedOrderedReqs)
          BY <1>2, <2>5, <4>2 DEF OrderedInv, OrderedNotLost, Written
        <5>. QED BY <2>3, <2>5, <2>6, <2>8, <3>1, <5>1
      <4>. QED BY <3>3, <4>1, <4>2
    <3>. QED BY <1>0, <3>2, <3>5 DEF OrderedInv
  <2>. QED BY <2>7, <2>8
<1>. QED BY <1>5, <1>6, <1>7, <1>8, <1>9, <1>10, <1>11 DEF Next, Replica, Refuse, CatchUp

\* However the mode changes between a PRE-PREPARE, its ordering and its execution, a
\* batch that the replica has ordered is written or waits, unless the assertion in
\* RequestHandler.commit fails, for every number of batches and every size of theirs:
\* serviceReplicaOutBox, processStashedOrderedReqs and allLedgersCaughtUp leave out
\* only what a catch-up has brought.
THEOREM OrderedIsKept == Spec => []OrderedNotLost
<1>1. TypeOK /\ OrderedInv /\ [Next]_vars => (TypeOK /\ OrderedInv)'
  BY TypeStep, OrderedStep
<1>2. Init => TypeOK /\ OrderedInv
  BY TypeInit, OrderedInit
<1>3. OrderedInv => OrderedNotLost
  BY DEF OrderedInv
<1>. QED BY <1>1, <1>2, <1>3, PTL DEF Spec
=============================================================================
