-------------------------- MODULE ThreePhaseProofs --------------------------
(***************************************************************************)
(* Proofs about ThreePhase: its type invariant, and that every batch       *)
(* handed to a node has a certificate, is known there and is handed over   *)
(* once, for every pool size, every set of at most f faulty backups and    *)
(* every bound.                                                            *)
(***************************************************************************)
EXTENDS ThreePhase, FiniteSetTheorems, SequenceTheorems, TLAPS

-----------------------------------------------------------------------------
(* Facts about the helpers *)

\* Consecutive numbers form a sequence over any set that holds them.
LEMMA RunType ==
    ASSUME NEW lo \in Int, NEW hi \in Int, hi >= lo - 1,
           NEW S, lo..hi \subseteq S
    PROVE  /\ Run(lo, hi) \in Seq(S)
           /\ Elements(Run(lo, hi)) = lo..hi
<1>1. hi - lo + 1 \in Nat
  OBVIOUS
<1>2. \A i \in 1..(hi - lo + 1) : lo + i - 1 \in S
  OBVIOUS
<1>3. Run(lo, hi) \in Seq(S)
  BY <1>1, <1>2, IsASeq DEF Run
<1>4. Elements(Run(lo, hi)) \subseteq lo..hi
  BY <1>1 DEF Run, Elements
<1>5. ASSUME NEW n \in lo..hi PROVE n \in Elements(Run(lo, hi))
  <2>1. n - lo + 1 \in 1..(hi - lo + 1)
    OBVIOUS
  <2>2. Run(lo, hi)[n - lo + 1] = n
    BY <2>1 DEF Run
  <2>. QED BY <2>1, <2>2 DEF Run, Elements
<1>. QED BY <1>3, <1>4, <1>5

\* Concatenation adds the elements of the second sequence, and no others.
LEMMA ConcatElements ==
    ASSUME NEW S, NEW s \in Seq(S), NEW t \in Seq(S)
    PROVE  /\ s \o t \in Seq(S)
           /\ Elements(s \o t) \subseteq Elements(s) \cup Elements(t)
<1>1. /\ s \o t \in Seq(S)
      /\ Len(s \o t) = Len(s) + Len(t)
      /\ \A i \in 1 .. Len(s) + Len(t) : (s \o t)[i] =
            IF i <= Len(s) THEN s[i] ELSE t[i - Len(s)]
  BY ConcatProperties
<1>2. /\ DOMAIN (s \o t) = 1..(Len(s) + Len(t)) /\ DOMAIN s = 1..Len(s)
      /\ DOMAIN t = 1..Len(t) /\ Len(s) \in Nat /\ Len(t) \in Nat
  BY <1>1, LenProperties
<1>3. ASSUME NEW i \in 1..(Len(s) + Len(t))
      PROVE  (s \o t)[i] \in Elements(s) \cup Elements(t)
  <2>1. CASE i <= Len(s)
    BY <1>1, <1>2, <2>1 DEF Elements
  <2>2. CASE ~(i <= Len(s))
    <3>1. i - Len(s) \in 1..Len(t)
      BY <1>2, <2>2
    <3>. QED BY <1>1, <1>2, <2>2, <3>1 DEF Elements
  <2>. QED BY <2>1, <2>2
<1>. QED BY <1>1, <1>2, <1>3 DEF Elements

\* getMaxFailures is a natural number for every nonempty pool.
LEMMA FaultsNat == f \in Nat /\ Cardinality(Replicas) \in Nat
<1>1. Cardinality(Replicas) \in Nat /\ Cardinality(Replicas) # 0
  BY ReplicasAssumption, FS_CardinalityType, FS_EmptySet
<1>. QED BY <1>1 DEF f

-----------------------------------------------------------------------------
(* Type correctness *)

\* What the two ends of a connection exchange is a message.
LEMMA DeliverableType ==
    ASSUME TypeOK, NEW r \in Correct, NEW m \in Deliverable(r)
    PROVE  /\ m \in Message
           /\ m.type = "PREPREPARE" => m \in PrePrepareMsg
           /\ m.type = "PREPARE" => m \in PrepareMsg
           /\ m.type = "COMMIT" => m \in CommitMsg
<1>1. r \in Replicas
  BY DEF Correct
<1>2. m \in Message
  BY <1>1, FaultyVotesAssumption DEF Deliverable, TypeOK, Message
<1>. QED BY <1>2 DEF Message, PrePrepareMsg, PrepareMsg, CommitMsg

LEMMA ConsumeType ==
    ASSUME TypeOK, NEW r \in Replicas, NEW m
    PROVE  Consume(r, m) \in [Replicas -> SUBSET Message]
BY DEF TypeOK, Consume

LEMMA BroadcastType ==
    ASSUME NEW r \in Replicas, NEW net \in [Replicas -> SUBSET Message],
           NEW ms \in SUBSET Message
    PROVE  Broadcast(r, net, ms) \in [Replicas -> SUBSET Message]
BY DEF Broadcast

\* What doOrder changes keeps its type when the batches it orders are in range.
LEMMA DoOrderType ==
    ASSUME TypeOK, NEW r \in Replicas, NEW lo \in Int, NEW hi \in Int,
           hi >= lo - 1, lo..hi \subseteq SeqNos, NEW pps, doOrder(r, lo, hi, pps)
    PROVE  /\ ordered' \in [Replicas -> Seq(SeqNos)]
           /\ orderedSent' \in [Replicas -> Seq(SeqNos)]
           /\ requestQueue' \in [Replicas -> SUBSET Requests]
<1>1. Run(lo, hi) \in Seq(SeqNos)
  BY RunType
<1>2. ordered[r] \o Run(lo, hi) \in Seq(SeqNos)
  BY <1>1, ConcatElements DEF TypeOK
<1>3. orderedSent[r] \o Run(lo, hi) \in Seq(SeqNos)
  BY <1>1, ConcatElements DEF TypeOK
<1>. QED BY <1>2, <1>3 DEF TypeOK, doOrder

LEMMA TryOrderType ==
    ASSUME TypeOK, NEW r \in Replicas, NEW n \in SeqNos, NEW votes,
           tryOrder(r, n, votes)
    PROVE  /\ ordered' \in [Replicas -> Seq(SeqNos)]
           /\ orderedSent' \in [Replicas -> Seq(SeqNos)]
           /\ requestQueue' \in [Replicas -> SUBSET Requests]
           /\ outOfOrder' \in [Replicas -> SUBSET SeqNos]
           /\ stashedSyncing' \in [Replicas -> SUBSET SeqNos]
<1>. DEFINE quorum == hasCommitQuorum(votes) /\ ~IsOrdered(r, n)
<1>0. n \in Int /\ n >= n - 1 /\ n..n \subseteq SeqNos
  BY BoundsAssumption DEF SeqNos
<1>1. CASE quorum /\ all_prev_ordered(r, n)
  <2>1. /\ doOrder(r, n, n, prePrepares[r])
        /\ stashedSyncing' = [stashedSyncing EXCEPT ![r] = @ \ {n}]
        /\ outOfOrder' = outOfOrder
    BY <1>1 DEF tryOrder
  <2>. HIDE DEF quorum
  <2>2. /\ ordered' \in [Replicas -> Seq(SeqNos)]
        /\ orderedSent' \in [Replicas -> Seq(SeqNos)]
        /\ requestQueue' \in [Replicas -> SUBSET Requests]
    BY <2>1, <1>0, DoOrderType
  <2>. QED BY <2>1, <2>2 DEF TypeOK
<1>2. CASE ~(quorum /\ all_prev_ordered(r, n))
  <2>1. /\ outOfOrder' = [outOfOrder EXCEPT ![r] = IF quorum THEN @ \cup {n} ELSE @]
        /\ UNCHANGED <<ordered, orderedSent, requestQueue, stashedSyncing>>
    BY <1>2 DEF tryOrder
  <2>. HIDE DEF quorum
  <2>. QED BY <2>1 DEF TypeOK
<1>. QED BY <1>1, <1>2

\* The votes counted, and those sent, for one PRE-PREPARE.
LEMMA VotesType ==
    ASSUME TypeOK, NEW r \in Replicas, NEW n \in SeqNos, NEW b \in Batches,
           NEW t \in Nat
    PROVE  /\ dequeuePrepares(r, n, b) \subseteq Replicas
           /\ tryPrepare(r, n, b) \subseteq Replicas
           /\ tryCommit(r, n, b) \subseteq Replicas
           /\ SentVotes(r, n, b, t) \subseteq Message
<1>1. dequeuePrepares(r, n, b) \subseteq Replicas
  BY DEF TypeOK, dequeuePrepares
<1>2. tryPrepare(r, n, b) \subseteq Replicas
  BY <1>1 DEF tryPrepare
<1>3. tryCommit(r, n, b) \subseteq Replicas
  BY DEF TypeOK, tryCommit, dequeueCommits
<1>4. SentVotes(r, n, b, t) \subseteq Message
  <2>1. t + 1 \in Nat
    OBVIOUS
  <2>2. \A u \in Nat :
          [type |-> "PREPARE", from |-> r, seq |-> n, batch |-> b, stamp |-> u]
             \in PrepareMsg
    BY DEF PrepareMsg
  <2>3. \A u \in Nat :
          [type |-> "COMMIT", from |-> r, seq |-> n, stamp |-> u] \in CommitMsg
    BY DEF CommitMsg
  <2>. QED BY <2>1, <2>2, <2>3 DEF SentVotes, Message
<1>. QED BY <1>1, <1>2, <1>3, <1>4

LEMMA AddToPrePreparesType ==
    ASSUME TypeOK, NEW r \in Replicas, NEW lo \in SeqNos, NEW top \in SeqNos,
           lo <= top, NEW pp \in [lo..top -> Batches],
           NEW net \in [Replicas -> SUBSET Message],
           addToPrePrepares(r, lo, top, pp, net)
    PROVE  /\ prePrepares' \in [Replicas -> [SeqNos -> Batches \cup {NoBatch}]]
           /\ prepares' \in [Replicas -> [SeqNos -> SUBSET Replicas]]
           /\ commits' \in [Replicas -> [SeqNos -> SUBSET Replicas]]
           /\ preparesWaiting' \in
                 [Replicas -> [SeqNos -> SUBSET [from : Replicas, batch : Batches]]]
           /\ commitsWaiting' \in [Replicas -> [SeqNos -> SUBSET Replicas]]
           /\ ordered' \in [Replicas -> Seq(SeqNos)]
           /\ orderedSent' \in [Replicas -> Seq(SeqNos)]
           /\ requestQueue' \in [Replicas -> SUBSET Requests]
           /\ outOfOrder' \in [Replicas -> SUBSET SeqNos]
           /\ stashedSyncing' \in [Replicas -> SUBSET SeqNos]
           /\ clock' \in [Replicas -> Nat]
           /\ network' \in [Replicas -> SUBSET Message]
<1>. DEFINE K == lo..top
<1>0. K \subseteq SeqNos /\ lo \in Int /\ top \in Int
  BY BoundsAssumption DEF SeqNos
<1>1. prePrepares' \in [Replicas -> [SeqNos -> Batches \cup {NoBatch}]]
  BY DEF TypeOK, addToPrePrepares
<1>2. \A n \in K : /\ tryPrepare(r, n, pp[n]) \subseteq Replicas
                   /\ tryCommit(r, n, pp[n]) \subseteq Replicas
  BY <1>0, VotesType, 0 \in Nat
<1>3. prepares' \in [Replicas -> [SeqNos -> SUBSET Replicas]]
  BY <1>2 DEF TypeOK, addToPrePrepares
<1>4. commits' \in [Replicas -> [SeqNos -> SUBSET Replicas]]
  BY <1>2 DEF TypeOK, addToPrePrepares
<1>5. preparesWaiting' \in
         [Replicas -> [SeqNos -> SUBSET [from : Replicas, batch : Batches]]]
  BY DEF TypeOK, addToPrePrepares
<1>6. commitsWaiting' \in [Replicas -> [SeqNos -> SUBSET Replicas]]
  BY DEF TypeOK, addToPrePrepares
<1>7. /\ ordered' \in [Replicas -> Seq(SeqNos)]
      /\ orderedSent' \in [Replicas -> Seq(SeqNos)]
      /\ requestQueue' \in [Replicas -> SUBSET Requests]
  <2>1. PICK hi \in (lo - 1)..top : doOrder(r, lo, hi, pp)
    BY DEF addToPrePrepares
  <2>2. hi \in Int /\ hi >= lo - 1 /\ lo..hi \subseteq SeqNos
    BY <1>0, <2>1
  <2>. QED BY <1>0, <2>1, <2>2, DoOrderType
<1>8. outOfOrder' \in [Replicas -> SUBSET SeqNos]
  BY <1>0 DEF TypeOK, addToPrePrepares
<1>9. stashedSyncing' \in [Replicas -> SUBSET SeqNos]
  BY <1>0 DEF TypeOK, addToPrePrepares
<1>10. clock' \in [Replicas -> Nat]
  <2>1. 2 * (top - lo + 1) \in Nat
    BY <1>0
  <2>2. clock[r] + 2 * (top - lo + 1) \in Nat
    BY <2>1 DEF TypeOK
  <2>. QED BY <2>2 DEF TypeOK, addToPrePrepares
<1>11. network' \in [Replicas -> SUBSET Message]
  <2>. DEFINE out == UNION {SentVotes(r, n, pp[n], clock[r] + 2 * (n - lo)) : n \in K}
  <2>1. \A n \in K : clock[r] + 2 * (n - lo) \in Nat
    BY <1>0 DEF TypeOK
  <2>2. \A n \in K : SentVotes(r, n, pp[n], clock[r] + 2 * (n - lo)) \subseteq Message
    BY <1>0, <2>1, VotesType
  <2>3. out \in SUBSET Message
    BY <2>2
  <2>4. network' = Broadcast(r, net, out)
    BY DEF addToPrePrepares
  <2>. HIDE DEF out
  <2>. QED BY <2>3, <2>4, BroadcastType
<1>. QED BY <1>1, <1>3, <1>4, <1>5, <1>6, <1>7, <1>8, <1>9, <1>10, <1>11

\* processPrePrepare keeps the types.
LEMMA PrePrepareType ==
    ASSUME TypeOK, NEW r \in Correct, NEW m \in Deliverable(r),
           processPrePrepare(r, m)
    PROVE  TypeOK'
<1>1. r \in Replicas /\ m \in PrePrepareMsg
  BY DeliverableType DEF Correct, processPrePrepare
<1>2. Consume(r, m) \in [Replicas -> SUBSET Message]
  BY <1>1, ConsumeType
<1>3. CASE enqueuePrePrepare(r, m)
  <2>1. /\ pendingPrevPP' \in [Replicas -> SUBSET PrePrepareMsg]
        /\ pendingFinReqs' \in [Replicas -> SUBSET PrePrepareMsg]
    <3>1. \/ /\ pendingPrevPP' = [pendingPrevPP EXCEPT ![r] = @ \cup {m}]
             /\ UNCHANGED pendingFinReqs
          \/ /\ pendingFinReqs' = [pendingFinReqs EXCEPT ![r] = @ \cup {m}]
             /\ UNCHANGED pendingPrevPP
      BY <1>3, Zenon DEF enqueuePrePrepare
    <3>2. /\ pendingPrevPP \in [Replicas -> SUBSET PrePrepareMsg]
          /\ pendingFinReqs \in [Replicas -> SUBSET PrePrepareMsg]
      BY DEF TypeOK
    <3>3. /\ pendingPrevPP[r] \cup {m} \in SUBSET PrePrepareMsg
          /\ pendingFinReqs[r] \cup {m} \in SUBSET PrePrepareMsg
      BY <1>1, <3>2
    <3>. QED BY <1>1, <3>1, <3>2, <3>3
  <2>. QED BY <1>2, <1>3, <2>1 DEF TypeOK, enqueuePrePrepare, requestVars, voteVars,
           orderVars, modeVars, boundVars
<1>4. CASE rejectPrePrepare(r, m)
  <2>1. m.seq \in SeqNos
    BY <1>1 DEF PrePrepareMsg
  <2>. QED BY <1>1, <1>2, <1>4, <2>1 DEF TypeOK, rejectPrePrepare, requestVars,
           pendingVars, voteVars, orderVars, boundVars
<1>5. CASE acceptPrePrepare(r, m)
  <2>. DEFINE pp == [n \in {m.seq} |-> m.batch]
  <2>1. m.seq \in SeqNos /\ m.batch \in Batches
    BY <1>1 DEF PrePrepareMsg
  <2>2. m.seq <= m.seq /\ (m.seq)..(m.seq) = {m.seq}
    BY <2>1, BoundsAssumption DEF SeqNos
  <2>3. pp \in [(m.seq)..(m.seq) -> Batches]
    BY <2>1, <2>2
  <2>4. addToPrePrepares(r, m.seq, m.seq, pp, Consume(r, m))
    BY <1>5 DEF acceptPrePrepare
  <2>5. UNCHANGED <<finalised, inboxKeys, pendingVars, participating, suspected,
                    halted, boundVars>>
    BY <1>5 DEF acceptPrePrepare
  <2>. HIDE DEF pp
  <2>. QED BY <1>1, <1>2, <2>1, <2>2, <2>3, <2>4, <2>5, AddToPrePreparesType
           DEF TypeOK, pendingVars, boundVars
<1>. QED BY <1>3, <1>4, <1>5 DEF processPrePrepare

LEMMA PrepareType ==
    ASSUME TypeOK, NEW r \in Correct, NEW m \in Deliverable(r), processPrepare(r, m)
    PROVE  TypeOK'
<1>1. r \in Replicas /\ m \in PrepareMsg
  BY DeliverableType DEF Correct, processPrepare
<1>2. Consume(r, m) \in [Replicas -> SUBSET Message]
  BY <1>1, ConsumeType
<1>3. m.seq \in SeqNos /\ m.from \in Replicas /\ m.batch \in Batches
  BY <1>1 DEF PrepareMsg
<1>4. CASE discardPrepare(r, m)
  BY <1>2, <1>4 DEF TypeOK, discardPrepare, requestVars, pendingVars, voteVars,
     orderVars, modeVars, boundVars
<1>5. CASE enqueuePrepare(r, m)
  BY SMTT(30), <1>1, <1>2, <1>3, <1>5 DEF TypeOK, enqueuePrepare, requestVars, pendingVars,
     orderVars, modeVars, boundVars
<1>6. CASE addToPrepares(r, m)
  <2>. DEFINE n == m.seq
              votes == prepares[r][n] \cup {m.from}
              commit == [type |-> "COMMIT", from |-> r, seq |-> n, stamp |-> clock[r]]
  <2>1. prepares' \in [Replicas -> [SeqNos -> SUBSET Replicas]]
    BY <1>1, <1>3, <1>6 DEF TypeOK, addToPrepares
  <2>2. UNCHANGED <<finalised, inboxKeys, prePrepares, pendingVars, preparesWaiting,
                    commitsWaiting, participating, suspected, halted, boundVars>>
    BY <1>6 DEF addToPrepares
  <2>3. CASE canCommit(r, n, votes)
    <3>1. /\ commits' = [commits EXCEPT ![r][n] = @ \cup {r}]
          /\ network' = Broadcast(r, Consume(r, m), {commit})
          /\ clock' = [clock EXCEPT ![r] = @ + 1]
          /\ tryOrder(r, n, commits[r][n] \cup {r})
      BY <1>6, <2>3 DEF addToPrepares
    <3>2. {commit} \in SUBSET Message
      BY <1>1, <1>3 DEF TypeOK, Message, CommitMsg
    <3>. HIDE DEF commit
    <3>3. network' \in [Replicas -> SUBSET Message]
      BY <1>1, <1>2, <3>1, <3>2, BroadcastType
    <3>4. /\ commits' \in [Replicas -> [SeqNos -> SUBSET Replicas]]
          /\ clock' \in [Replicas -> Nat]
      BY <1>1, <1>3, <3>1 DEF TypeOK
    <3>. QED BY <1>1, <1>3, <2>1, <2>2, <3>1, <3>3, <3>4, TryOrderType
             DEF TypeOK, pendingVars, boundVars
  <2>4. CASE ~canCommit(r, n, votes)
    <3>1. /\ network' = Consume(r, m)
          /\ UNCHANGED <<commits, clock, requestQueue, orderVars, stashedSyncing>>
      BY <1>6, <2>4 DEF addToPrepares
    <3>. QED BY <1>2, <2>1, <2>2, <3>1 DEF TypeOK, pendingVars, boundVars, orderVars
  <2>. QED BY <2>3, <2>4
<1>. QED BY <1>4, <1>5, <1>6 DEF processPrepare

LEMMA CommitType ==
    ASSUME TypeOK, NEW r \in Correct, NEW m \in Deliverable(r), processCommit(r, m)
    PROVE  TypeOK'
<1>1. r \in Replicas /\ m \in CommitMsg
  BY DeliverableType DEF Correct, processCommit
<1>2. Consume(r, m) \in [Replicas -> SUBSET Message]
  BY <1>1, ConsumeType
<1>3. m.seq \in SeqNos /\ m.from \in Replicas
  BY <1>1 DEF CommitMsg
<1>4. CASE enqueueCommit(r, m)
  BY <1>1, <1>2, <1>3, <1>4 DEF TypeOK, enqueueCommit, requestVars, pendingVars,
     orderVars, modeVars, boundVars
<1>5. CASE discardCommit(r, m)
  BY <1>2, <1>5 DEF TypeOK, discardCommit, requestVars, pendingVars, voteVars,
     orderVars, modeVars, boundVars
<1>6. CASE addToCommits(r, m)
  <2>1. /\ commits' = [commits EXCEPT ![r][m.seq] = commits[r][m.seq] \cup {m.from}]
        /\ tryOrder(r, m.seq, commits[r][m.seq] \cup {m.from})
        /\ network' = Consume(r, m)
        /\ UNCHANGED <<finalised, inboxKeys, prePrepares, pendingVars, prepares,
                       preparesWaiting, commitsWaiting, participating, suspected,
                       halted, clock, boundVars>>
    BY <1>6 DEF addToCommits
  <2>2. commits' \in [Replicas -> [SeqNos -> SUBSET Replicas]]
    BY <1>1, <1>3, <2>1 DEF TypeOK
  <2>. QED BY <1>1, <1>2, <1>3, <2>1, <2>2, TryOrderType DEF TypeOK, pendingVars, boundVars
<1>. QED BY <1>4, <1>5, <1>6 DEF processCommit

-----------------------------------------------------------------------------
(* The last batch of a replica *)

\* A nonempty set of bounded naturals has a greatest element.
LEMMA Greatest ==
    ASSUME NEW N \in Nat, NEW S \in SUBSET (0..N), S # {}
    PROVE  \E x \in S : \A y \in S : y <= x
<1>. DEFINE T == {N - x : x \in S}
            R == OpToRel(<, Nat)
<1>1. \A x \in S : x \in Nat /\ x <= N /\ N - x \in Nat
  OBVIOUS
<1>2. T \subseteq Nat /\ T # {}
  BY <1>1
<1>3. IsWellFoundedOn(R, Nat)
  BY NatLessThanWellFounded
<1>4. \A x, y \in Nat : x < y => <<x, y>> \in R
  BY DEF OpToRel
<1>5. PICK t \in T : \A y \in T : ~(<<y, t>> \in R)
  <2>. HIDE DEF T, R
  <2>. QED BY <1>2, <1>3, WFMin
<1>6. PICK x \in S : t = N - x
  OBVIOUS
<1>7. ASSUME NEW y \in S PROVE y <= x
  <2>1. N - y \in T
    OBVIOUS
  <2>2. ~(N - y < t)
    <3>1. ~(<<N - y, t>> \in R)
      BY <1>5, <2>1
    <3>. HIDE DEF R, T
    <3>. QED BY <1>1, <1>2, <1>4, <1>5, <1>7, <2>1, <3>1
  <2>. QED BY <1>1, <1>6, <1>7, <2>2
<1>. QED BY <1>7

\* LastPrePrepare and LastOrdered are well defined.
LEMMA LastType ==
    ASSUME TypeOK, NEW r \in Replicas
    PROVE  /\ LastPrePrepare(r) \in 0..MaxSeq
           /\ LastPrePrepare(r) = 0 \/ HasPrePrepare(r, LastPrePrepare(r))
           /\ \A m \in SeqNos : HasPrePrepare(r, m) => m <= LastPrePrepare(r)
           /\ LastOrdered(r) \in 0..MaxSeq
           /\ LastSeqNo(r) \in 0..MaxSeq
<1>. DEFINE H == {n \in SeqNos : HasPrePrepare(r, n)} \cup {0}
            O == Elements(ordered[r]) \cup {0}
<1>1. MaxSeq \in Nat /\ SeqNos \subseteq 0..MaxSeq /\ 0 \in 0..MaxSeq
  BY BoundsAssumption DEF SeqNos
<1>2. Elements(ordered[r]) \subseteq SeqNos
  BY ElementOfSeq DEF TypeOK, Elements
<1>3. H \in SUBSET (0..MaxSeq) /\ H # {} /\ O \in SUBSET (0..MaxSeq) /\ O # {}
  BY <1>1, <1>2
<1>4. \E n \in 0..MaxSeq :
          /\ n = 0 \/ HasPrePrepare(r, n)
          /\ \A m \in SeqNos : HasPrePrepare(r, m) => m <= n
  <2>1. PICK x \in H : \A y \in H : y <= x
    <3>. HIDE DEF H
    <3>. QED BY <1>1, <1>3, Greatest
  <2>. QED BY <2>1, <1>3
<1>5. \E n \in 0..MaxSeq :
          /\ n \in Elements(ordered[r]) \cup {0}
          /\ \A m \in Elements(ordered[r]) : m <= n
  <2>1. PICK x \in O : \A y \in O : y <= x
    <3>. HIDE DEF O
    <3>. QED BY <1>1, <1>3, Greatest
  <2>. QED BY <2>1, <1>3
<1>6. /\ LastPrePrepare(r) \in 0..MaxSeq
      /\ LastPrePrepare(r) = 0 \/ HasPrePrepare(r, LastPrePrepare(r))
      /\ \A m \in SeqNos : HasPrePrepare(r, m) => m <= LastPrePrepare(r)
  BY <1>4 DEF LastPrePrepare
<1>7. LastOrdered(r) \in 0..MaxSeq
  BY <1>5 DEF LastOrdered
<1>. QED BY <1>6, <1>7 DEF LastSeqNo

\* dequeuePrePrepares takes a run of valid batches out of its stashes, or none.
LEMMA DequeueTakes ==
    ASSUME TypeOK, NEW r \in Correct, dequeuePrePrepares(r)
    PROVE  \/ UNCHANGED <<requestQueue, prePrepares, voteVars, orderVars,
                          stashedSyncing, netVars>>
           \/ \E lo, top \in SeqNos :
                 /\ lo = LastSeqNo(r) + 1 /\ lo <= top
                 /\ \E pp \in [lo..top -> Batches] :
                       /\ addToPrePrepares(r, lo, top, pp, network)
                       /\ \A n \in lo..top :
                             \E m \in pendingPrevPP[r] \cup pendingFinReqs[r] :
                                /\ m \in PrePrepareMsg /\ m.seq = n
                                /\ m.batch = pp[n] /\ m.batch.ok
<1>. DEFINE ready == {m \in pendingFinReqs[r] : m.batch.reqs \subseteq finalised[r]}
            waiting == pendingPrevPP[r] \cup ready
            next == LastSeqNo(r) + 1
            at(n) == CHOOSE m \in waiting : m.seq = n
            has(n) == \E m \in waiting : m.seq = n
            head == \A m \in waiting : m.seq >= next
            reached == IF head
                       THEN {n \in SeqNos : n >= next /\ \A p \in next..n : has(p)}
                       ELSE {}
            K == {n \in reached : \A p \in next..n : at(p).batch.ok}
<1>1. r \in Replicas
  BY DEF Correct
<1>2. next \in Int /\ next >= 1 /\ MaxSeq \in Nat
  BY <1>1, LastType, BoundsAssumption
<1>3. waiting \subseteq PrePrepareMsg
  BY <1>1 DEF TypeOK
<1>4. CASE K = {}
  BY <1>4 DEF dequeuePrePrepares
<1>5. CASE K # {}
  <2>1. PICK top \in K : /\ K = next..top
                         /\ addToPrePrepares(r, next, top, [n \in K |-> at(n).batch], network)
    BY <1>5 DEF dequeuePrePrepares
  <2>. DEFINE pp == [n \in K |-> at(n).batch]
  <2>2. \A n \in K : n \in SeqNos /\ n >= next /\ has(n)
    BY <1>2 DEF SeqNos
  <2>3. top \in SeqNos /\ next <= top /\ next \in SeqNos /\ next = LastSeqNo(r) + 1
    BY <1>2, <2>1, <2>2 DEF SeqNos
  <2>4. \A n \in K : at(n) \in PrePrepareMsg /\ at(n) \in waiting /\ at(n).seq = n
    BY <1>3, <2>2
  <2>7. ASSUME NEW n \in K PROVE at(n).batch.ok
    <3>1. n \in next..n
      BY <1>2, <2>2 DEF SeqNos
    <3>. HIDE DEF at, next, reached
    <3>2. \A q \in next..n : at(q).batch.ok
      OBVIOUS
    <3>. QED BY <3>1, <3>2
  <2>8. waiting \subseteq pendingPrevPP[r] \cup pendingFinReqs[r]
    OBVIOUS
  <2>. HIDE DEF at, has, K, next, waiting
  <2>5. pp \in [next..top -> Batches]
    BY <2>1, <2>4 DEF PrePrepareMsg
  <2>6. addToPrePrepares(r, next, top, pp, network)
    BY <2>1
  <2>9. \A n \in next..top : \E m \in pendingPrevPP[r] \cup pendingFinReqs[r] :
            m \in PrePrepareMsg /\ m.seq = n /\ m.batch = pp[n] /\ m.batch.ok
    BY <2>1, <2>4, <2>7, <2>8
  <2>. HIDE DEF pp
  <2>. QED BY <2>3, <2>5, <2>6, <2>9
<1>. QED BY <1>4, <1>5

LEMMA DequeueType ==
    ASSUME TypeOK, NEW r \in Correct, dequeuePrePrepares(r)
    PROVE  TypeOK'
<1>. DEFINE ready == {m \in pendingFinReqs[r] : m.batch.reqs \subseteq finalised[r]}
            waiting == pendingPrevPP[r] \cup ready
<1>1. r \in Replicas
  BY DEF Correct
<1>2. pendingFinReqs' \in [Replicas -> SUBSET PrePrepareMsg]
  <2>1. pendingFinReqs' = [pendingFinReqs EXCEPT ![r] = @ \ ready]
    BY DEF dequeuePrePrepares
  <2>. HIDE DEF ready
  <2>. QED BY <2>1 DEF TypeOK
<1>3. pendingPrevPP' \in [Replicas -> SUBSET PrePrepareMsg]
  <2>1. waiting \subseteq PrePrepareMsg
    BY <1>1 DEF TypeOK
  <2>2. PICK W \in SUBSET waiting : pendingPrevPP' = [pendingPrevPP EXCEPT ![r] = W]
    BY DEF dequeuePrePrepares
  <2>. HIDE DEF waiting
  <2>. QED BY <2>1, <2>2 DEF TypeOK
<1>4. halted' \in [Replicas -> BOOLEAN]
  <2>1. PICK h \in BOOLEAN : halted' = [halted EXCEPT ![r] = h]
    BY DEF dequeuePrePrepares
  <2>. QED BY <2>1 DEF TypeOK
<1>5. UNCHANGED <<finalised, inboxKeys, participating, suspected, boundVars>>
  BY DEF dequeuePrePrepares
<1>6. CASE UNCHANGED <<requestQueue, prePrepares, voteVars, orderVars,
                       stashedSyncing, netVars>>
  BY <1>2, <1>3, <1>4, <1>5, <1>6 DEF TypeOK, voteVars, orderVars, netVars, boundVars
<1>7. CASE \E lo, top \in SeqNos :
              /\ lo <= top
              /\ \E pp \in [lo..top -> Batches] :
                    addToPrePrepares(r, lo, top, pp, network)
  <2>1. network \in [Replicas -> SUBSET Message]
    BY DEF TypeOK
  <2>. QED BY <1>1, <1>2, <1>3, <1>4, <1>5, <1>7, <2>1, AddToPrePreparesType
           DEF TypeOK, boundVars
<1>. QED BY <1>6, <1>7, DequeueTakes

LEMMA ProposeType ==
    ASSUME TypeOK, NEW S \in SUBSET Requests, send3PCBatch(S)
    PROVE  TypeOK'
<1>. DEFINE n == LastPrePrepare(Primary) + 1
            batch == [reqs |-> S, ok |-> n \notin WrongBatches]
            msg == [type |-> "PREPREPARE", from |-> Primary, seq |-> n,
                    batch |-> batch, stamp |-> clock[Primary]]
<1>1. Primary \in Replicas /\ n \in SeqNos
  BY ReplicasAssumption DEF send3PCBatch
<1>2. batch \in Batches
  <2>1. S # {}
    BY DEF send3PCBatch
  <2>2. (n \notin WrongBatches) \in BOOLEAN
    OBVIOUS
  <2>3. \A o \in BOOLEAN : [reqs |-> S, ok |-> o] \in Batches
    BY <2>1 DEF Batches
  <2>. HIDE DEF n
  <2>. QED BY <2>2, <2>3, Zenon
<1>3. /\ requestQueue' = [requestQueue EXCEPT ![Primary] = @ \ S]
      /\ prePrepares' = [prePrepares EXCEPT ![Primary][n] = batch]
      /\ network' = Broadcast(Primary, network, {msg})
      /\ clock' = [clock EXCEPT ![Primary] = @ + 1]
      /\ UNCHANGED <<finalised, inboxKeys, pendingVars, voteVars, orderVars,
                     modeVars, boundVars>>
  BY DEF send3PCBatch
<1>. HIDE DEF n, batch
<1>4. {msg} \in SUBSET Message
  BY <1>1, <1>2 DEF TypeOK, Message, PrePrepareMsg
<1>. HIDE DEF msg
<1>5. network' \in [Replicas -> SUBSET Message]
  <2>1. network \in [Replicas -> SUBSET Message]
    BY DEF TypeOK
  <2>. QED BY <1>1, <1>3, <1>4, <2>1, BroadcastType
<1>6. /\ requestQueue' \in [Replicas -> SUBSET Requests]
      /\ prePrepares' \in [Replicas -> [SeqNos -> Batches \cup {NoBatch}]]
      /\ clock' \in [Replicas -> Nat]
  BY <1>1, <1>2, <1>3 DEF TypeOK
<1>. QED BY <1>3, <1>5, <1>6
         DEF TypeOK, pendingVars, voteVars, orderVars, modeVars, boundVars

LEMMA RequestType ==
    ASSUME TypeOK, NEW r \in Correct, NEW q \in Requests,
           FinaliseRequest(r, q) \/ readyFor3PC(r, q)
    PROVE  TypeOK'
<1>1. CASE FinaliseRequest(r, q)
  BY <1>1 DEF TypeOK, FinaliseRequest, pendingVars, voteVars, orderVars, modeVars,
     netVars, boundVars
<1>2. CASE readyFor3PC(r, q)
  BY ZenonT(60), <1>2 DEF TypeOK, readyFor3PC, pendingVars, voteVars, orderVars, modeVars,
     netVars, boundVars
<1>. QED BY <1>1, <1>2

LEMMA ReorderType ==
    ASSUME TypeOK, NEW r \in Correct, NEW hi \in 0..MaxSeq,
           process_stashed_out_of_order_commits(r, hi)
    PROVE  TypeOK'
<1>. DEFINE last == ordered[r][Len(ordered[r])]
            stash == {n \in outOfOrder[r] : ~IsOrdered(r, n)}
<1>1. r \in Replicas
  BY DEF Correct
<1>2. stash \subseteq SeqNos
  BY <1>1 DEF TypeOK
<1>3. last \in SeqNos
  <2>1. ordered[r] \in Seq(SeqNos) /\ ordered[r] # <<>>
    BY <1>1 DEF TypeOK, process_stashed_out_of_order_commits
  <2>2. Len(ordered[r]) \in 1..Len(ordered[r])
    BY <2>1, EmptySeq, LenProperties
  <2>. QED BY <2>1, <2>2, ElementOfSeq
<1>4. /\ hi >= last /\ (last + 1)..hi \subseteq stash
      /\ doOrder(r, last + 1, hi, prePrepares[r])
      /\ outOfOrder' = [outOfOrder EXCEPT ![r] = stash \ ((last + 1)..hi)]
      /\ stashedSyncing' = [stashedSyncing EXCEPT ![r] = @ \ ((last + 1)..hi)]
      /\ UNCHANGED <<finalised, inboxKeys, prePrepares, pendingVars, voteVars,
                     participating, suspected, halted, netVars, boundVars>>
  BY DEF process_stashed_out_of_order_commits
<1>. HIDE DEF last, stash
<1>5. last + 1 \in Int /\ hi \in Int /\ hi >= (last + 1) - 1
  BY <1>3, <1>4, BoundsAssumption DEF SeqNos
<1>6. (last + 1)..hi \subseteq SeqNos
  BY <1>2, <1>4
<1>7. /\ ordered' \in [Replicas -> Seq(SeqNos)]
      /\ orderedSent' \in [Replicas -> Seq(SeqNos)]
      /\ requestQueue' \in [Replicas -> SUBSET Requests]
  BY <1>1, <1>4, <1>5, <1>6, DoOrderType
<1>8. /\ outOfOrder' \in [Replicas -> SUBSET SeqNos]
      /\ stashedSyncing' \in [Replicas -> SUBSET SeqNos]
  BY <1>2, <1>4 DEF TypeOK
<1>. QED BY <1>4, <1>7, <1>8 DEF TypeOK, pendingVars, voteVars, netVars, boundVars

LEMMA CatchUpType ==
    ASSUME TypeOK, NEW r \in Correct,
           \/ preLedgerCatchUp(r)
           \/ \E k \in 0..MaxSeq : allLedgersCaughtUp(r, k)
    PROVE  TypeOK'
<1>1. r \in Replicas
  BY DEF Correct
<1>2. CASE preLedgerCatchUp(r)
  <2>1. participating' \in [Replicas -> BOOLEAN]
    <3>1. participating' = [participating EXCEPT ![r] = FALSE]
      BY <1>2 DEF preLedgerCatchUp
    <3>2. participating \in [Replicas -> BOOLEAN]
      BY DEF TypeOK
    <3>. QED BY <3>1, <3>2
  <2>2. catchups' \in Nat
    BY <1>2 DEF TypeOK, preLedgerCatchUp
  <2>. QED BY <1>2, <2>1, <2>2 DEF TypeOK, preLedgerCatchUp, requestVars, pendingVars,
           voteVars, orderVars, netVars
<1>3. ASSUME NEW k \in 0..MaxSeq, allLedgersCaughtUp(r, k) PROVE TypeOK'
  <2>1. k = 0 \/ k \in SeqNos
    BY BoundsAssumption DEF SeqNos
  <2>2. (IF k = 0 \/ IsOrdered(r, k) THEN ordered[r] ELSE Append(ordered[r], k))
           \in Seq(SeqNos)
    BY <1>1, <2>1, AppendProperties DEF TypeOK
  <2>3. /\ ordered' \in [Replicas -> Seq(SeqNos)]
        /\ participating' \in [Replicas -> BOOLEAN]
    BY <1>1, <1>3, <2>2 DEF TypeOK, allLedgersCaughtUp
  <2>. QED BY <1>3, <2>3 DEF TypeOK, allLedgersCaughtUp, requestVars, pendingVars,
           voteVars, netVars, boundVars
<1>. QED BY <1>2, <1>3

LEMMA LoseType ==
    ASSUME TypeOK, NEW r \in Correct, NEW m, Lose(r, m)
    PROVE  TypeOK'
<1>1. Consume(r, m) \in [Replicas -> SUBSET Message]
  BY ConsumeType DEF Correct
<1>. QED BY <1>1 DEF TypeOK, Lose, requestVars, pendingVars, voteVars, orderVars, modeVars

LEMMA TypeInit == Init => TypeOK
<1>. SUFFICES ASSUME Init PROVE TypeOK
  OBVIOUS
<1>1. <<>> \in Seq(SeqNos)
  BY EmptySeq
<1>. QED BY <1>1, ReplicasAssumption DEF Init, TypeOK

\* One step of the specification keeps the types.
LEMMA TypeStep == TypeOK /\ [Next]_vars => TypeOK'
<1>. SUFFICES ASSUME TypeOK, [Next]_vars PROVE TypeOK'
  OBVIOUS
<1>1. CASE Propose
  BY <1>1, ProposeType DEF Propose
<1>2. ASSUME NEW r \in Correct, ReplicaStep(r) PROVE TypeOK'
  <2>1. CASE \E s \in Replicas : ReceiveFrom(r, s)
    BY <2>1, PrePrepareType, PrepareType, CommitType DEF ReceiveFrom
  <2>2. CASE ReceiveKey(r)
    BY <2>2, RequestType DEF ReceiveKey
  <2>3. CASE Finalise(r)
    BY <2>3, RequestType DEF Finalise
  <2>4. CASE Dequeue(r)
    BY <2>4, DequeueType DEF Dequeue
  <2>5. CASE Reorder(r)
    BY <2>5, ReorderType DEF Reorder
  <2>6. CASE StartCatchUp(r) \/ CaughtUp(r)
    BY <2>6, CatchUpType DEF StartCatchUp, CaughtUp
  <2>7. CASE Drop(r)
    BY <2>7, LoseType DEF Drop
  <2>. QED BY <1>2, <2>1, <2>2, <2>3, <2>4, <2>5, <2>6, <2>7 DEF ReplicaStep
<1>3. CASE UNCHANGED vars
  BY <1>3 DEF TypeOK, vars, requestVars, pendingVars, voteVars, orderVars, modeVars,
     netVars, boundVars
<1>. QED BY <1>1, <1>2, <1>3 DEF Next

\* The dictionaries, stashes and queues of every replica keep holding what
\* replica.py means them to hold, whatever the pool, the faults and the bounds.
THEOREM TypeCorrect == Spec => []TypeOK
<1>. QED BY TypeInit, TypeStep, PTL DEF Spec

-----------------------------------------------------------------------------
(* The certificate of an ordered batch *)

\* What every step does to the votes: none is taken back, a new one was sent, a
\* replica's own COMMIT follows a PREPARE quorum, and what is ordered or stashed
\* has a COMMIT quorum.
VotesGrow ==
    \A r \in Replicas : \A n \in SeqNos :
        prepares[r][n] \subseteq prepares'[r][n] /\ commits[r][n] \subseteq commits'[r][n]

CountsSent ==
    \A r, s \in Correct : \A n \in SeqNos :
        s \in commits'[r][n] \cup commitsWaiting'[r][n] =>
            s \in commits[r][n] \cup commitsWaiting[r][n] \cup commits'[s][n]

SendsCounted ==
    \A r \in Correct : \A m \in network'[r] :
        m.type = "COMMIT" => m \in network[r] \/ m.from \in commits'[m.from][m.seq]

CommitsWhenPrepared ==
    \A r \in Correct : \A n \in SeqNos :
        r \in commits'[r][n] =>
            r \in commits[r][n] \/ Cardinality(prepares'[r][n]) >= 2 * f

OrdersWhenCommitted ==
    \A r \in Correct : \A n \in Elements(orderedSent'[r]) \cup outOfOrder'[r] :
        \/ n \in Elements(orderedSent[r]) \cup outOfOrder[r]
        \/ Cardinality(commits'[r][n]) >= 2 * f + 1

VoteStep == VotesGrow /\ CountsSent /\ SendsCounted /\ CommitsWhenPrepared
            /\ OrdersWhenCommitted

\* A superset of a quorum of votes is one.
LEMMA QuorumGrows ==
    ASSUME NEW S \in SUBSET Replicas, NEW T \in SUBSET Replicas, S \subseteq T,
           NEW k \in Nat, Cardinality(S) >= k
    PROVE  Cardinality(T) >= k
<1>1. IsFiniteSet(T)
  BY ReplicasAssumption, FS_Subset
<1>2. IsFiniteSet(S) /\ Cardinality(S) <= Cardinality(T)
  BY <1>1, FS_Subset
<1>. QED BY <1>1, <1>2, FS_CardinalityType

LEMMA ElementsType ==
    ASSUME NEW S, NEW s \in Seq(S) PROVE Elements(s) \subseteq S
BY ElementOfSeq DEF Elements

LEMMA VoteStepKeeps ==
    ASSUME TypeOK, TypeOK', CertificateInv, VoteStep
    PROVE  CertificateInv'
<1>0. 2 * f \in Nat /\ 2 * f + 1 \in Nat
  BY FaultsNat
<1>1. CommitsCounted'
  <2>. SUFFICES ASSUME NEW r \in Correct, NEW s \in Correct, NEW n \in SeqNos,
                       s \in commits'[r][n] \cup commitsWaiting'[r][n]
                PROVE  s \in commits'[s][n]
    BY DEF CommitsCounted
  <2>1. s \in commits[s][n] \/ s \in commits'[s][n]
    BY DEF VoteStep, CountsSent, CertificateInv, CommitsCounted
  <2>. QED BY <2>1 DEF VoteStep, VotesGrow, Correct
<1>2. CommitsInTransit'
  <2>. SUFFICES ASSUME NEW r \in Correct, NEW m \in network'[r], m.type = "COMMIT"
                PROVE  m.from \in commits'[m.from][m.seq]
    BY DEF CommitsInTransit
  <2>1. m \in CommitMsg
    BY DEF TypeOK, Correct, Message, PrePrepareMsg, PrepareMsg, CommitMsg
  <2>2. m.from \in Replicas /\ m.seq \in SeqNos
    BY <2>1 DEF CommitMsg
  <2>3. m.from \in commits[m.from][m.seq] \/ m.from \in commits'[m.from][m.seq]
    BY DEF VoteStep, SendsCounted, CertificateInv, CommitsInTransit
  <2>. QED BY <2>2, <2>3 DEF VoteStep, VotesGrow
<1>3. CommitsPrepared'
  <2>. SUFFICES ASSUME NEW r \in Correct, NEW n \in SeqNos, r \in commits'[r][n]
                PROVE  Cardinality(prepares'[r][n]) >= 2 * f
    BY DEF CommitsPrepared, f
  <2>1. CASE r \in commits[r][n]
    <3>1. Cardinality(prepares[r][n]) >= 2 * f
      BY <2>1 DEF CertificateInv, CommitsPrepared
    <3>2. /\ prepares[r][n] \in SUBSET Replicas /\ prepares'[r][n] \in SUBSET Replicas
          /\ prepares[r][n] \subseteq prepares'[r][n]
      BY DEF TypeOK, Correct, VoteStep, VotesGrow
    <3>. QED BY <1>0, <3>1, <3>2, QuorumGrows
  <2>. QED BY <2>1 DEF VoteStep, CommitsWhenPrepared
<1>4. OrderedCommitted'
  <2>. SUFFICES ASSUME NEW r \in Correct,
                       NEW n \in Elements(orderedSent'[r]) \cup outOfOrder'[r]
                PROVE  Cardinality(commits'[r][n]) >= 2 * f + 1
    BY DEF OrderedCommitted, f, Elements
  <2>1. n \in SeqNos
    BY ElementsType DEF TypeOK, Correct
  <2>2. CASE n \in Elements(orderedSent[r]) \cup outOfOrder[r]
    <3>1. Cardinality(commits[r][n]) >= 2 * f + 1
      BY <2>2 DEF CertificateInv, OrderedCommitted
    <3>2. /\ commits[r][n] \in SUBSET Replicas /\ commits'[r][n] \in SUBSET Replicas
          /\ commits[r][n] \subseteq commits'[r][n]
      BY <2>1 DEF TypeOK, Correct, VoteStep, VotesGrow
    <3>. QED BY <1>0, <3>1, <3>2, QuorumGrows
  <2>. QED BY <2>2 DEF VoteStep, OrdersWhenCommitted
<1>. QED BY <1>1, <1>2, <1>3, <1>4 DEF CertificateInv

LEMMA ConsumeShrinks ==
    ASSUME TypeOK, NEW r \in Replicas, NEW m, NEW q \in Replicas
    PROVE  Consume(r, m)[q] \subseteq network[q]
BY DEF TypeOK, Consume

\* A step that leaves the votes and the ordering alone and sends no COMMIT.
LEMMA QuietStep ==
    ASSUME TypeOK, UNCHANGED <<prepares, commits, commitsWaiting, orderedSent, outOfOrder>>,
           \A q \in Correct : \A m \in network'[q] : m.type = "COMMIT" => m \in network[q]
    PROVE  VoteStep
BY DEF VoteStep, VotesGrow, CountsSent, SendsCounted, CommitsWhenPrepared,
   OrdersWhenCommitted

\* doOrder hands over lo, .., hi, and nothing else is new.
LEMMA DoOrderElements ==
    ASSUME TypeOK, NEW r \in Replicas, NEW lo \in Int, NEW hi \in Int,
           hi >= lo - 1, lo..hi \subseteq SeqNos, NEW pps, doOrder(r, lo, hi, pps),
           NEW q \in Replicas
    PROVE  /\ Elements(orderedSent'[q]) \subseteq Elements(orderedSent[q]) \cup lo..hi
           /\ q # r => orderedSent'[q] = orderedSent[q]
<1>1. /\ Run(lo, hi) \in Seq(SeqNos) /\ Elements(Run(lo, hi)) = lo..hi
  BY RunType
<1>2. orderedSent[r] \in Seq(SeqNos)
  BY DEF TypeOK
<1>3. Elements(orderedSent[r] \o Run(lo, hi)) \subseteq Elements(orderedSent[r]) \cup lo..hi
  BY <1>1, <1>2, ConcatElements
<1>4. /\ q = r => orderedSent'[q] = orderedSent[r] \o Run(lo, hi)
      /\ q # r => orderedSent'[q] = orderedSent[q]
  BY DEF TypeOK, doOrder
<1>. QED BY <1>3, <1>4

\* tryOrder orders or stashes only n, and only with a quorum among `votes'.
LEMMA TryOrderVotes ==
    ASSUME TypeOK, NEW r \in Replicas, NEW n \in SeqNos, NEW votes,
           tryOrder(r, n, votes), NEW q \in Replicas,
           NEW k \in Elements(orderedSent'[q]) \cup outOfOrder'[q]
    PROVE  \/ k \in Elements(orderedSent[q]) \cup outOfOrder[q]
           \/ q = r /\ k = n /\ Cardinality(votes) >= 2 * f + 1
<1>. DEFINE quorum == hasCommitQuorum(votes) /\ ~IsOrdered(r, n)
<1>0. n \in Int /\ n >= n - 1 /\ n..n = {n} /\ n..n \subseteq SeqNos
  BY BoundsAssumption DEF SeqNos
<1>1. CASE quorum /\ all_prev_ordered(r, n)
  <2>1. /\ doOrder(r, n, n, prePrepares[r]) /\ outOfOrder' = outOfOrder
    BY <1>1 DEF tryOrder
  <2>2. Cardinality(votes) >= 2 * f + 1
    BY <1>1 DEF hasCommitQuorum
  <2>. HIDE DEF quorum
  <2>3. /\ Elements(orderedSent'[q]) \subseteq Elements(orderedSent[q]) \cup {n}
        /\ q # r => orderedSent'[q] = orderedSent[q]
    BY <1>0, <2>1, DoOrderElements
  <2>. QED BY <2>1, <2>2, <2>3
<1>2. CASE ~(quorum /\ all_prev_ordered(r, n))
  <2>1. /\ outOfOrder' = [outOfOrder EXCEPT ![r] = IF quorum THEN @ \cup {n} ELSE @]
        /\ orderedSent' = orderedSent
    BY <1>2 DEF tryOrder
  <2>2. quorum => Cardinality(votes) >= 2 * f + 1
    BY DEF hasCommitQuorum
  <2>. HIDE DEF quorum
  <2>. QED BY <2>1, <2>2 DEF TypeOK
<1>. QED BY <1>1, <1>2

\* A COMMIT that arrives was sent by its replica, or by a faulty one.
LEMMA DeliveredCommit ==
    ASSUME TypeOK, CertificateInv, NEW r \in Correct, NEW m \in Deliverable(r),
           m.type = "COMMIT"
    PROVE  m.from \in Correct => m.from \in commits[m.from][m.seq]
BY FaultyVotesAssumption DEF Deliverable, Correct, CertificateInv, CommitsInTransit

LEMMA CommitVotes ==
    ASSUME TypeOK, TypeOK', CertificateInv, NEW r \in Correct,
           NEW m \in Deliverable(r), processCommit(r, m)
    PROVE  VoteStep
<1>1. r \in Replicas /\ m \in CommitMsg /\ m.type = "COMMIT"
  BY DeliverableType DEF Correct, processCommit
<1>2. m.seq \in SeqNos /\ m.from \in Replicas
  BY <1>1 DEF CommitMsg
<1>3. m.from \in Correct => m.from \in commits[m.from][m.seq]
  BY <1>1, DeliveredCommit
<1>4. network' = Consume(r, m)
  BY DEF processCommit, enqueueCommit, discardCommit, addToCommits
<1>5. SendsCounted
  BY <1>1, <1>4, ConsumeShrinks DEF SendsCounted, Correct
<1>6. CASE discardCommit(r, m)
  <2>1. UNCHANGED <<prepares, commits, commitsWaiting, orderedSent, outOfOrder>>
    BY <1>6 DEF discardCommit, voteVars, orderVars
  <2>2. \A q \in Correct : network'[q] \subseteq network[q]
    BY <1>1, <1>4, ConsumeShrinks DEF Correct
  <2>. QED BY <2>1, <2>2, QuietStep
<1>7. CASE enqueueCommit(r, m)
  <2>1. /\ commitsWaiting' = [commitsWaiting EXCEPT ![r][m.seq] = @ \cup {m.from}]
        /\ UNCHANGED <<prepares, commits, orderedSent, outOfOrder>>
    BY <1>7 DEF enqueueCommit, orderVars
  <2>2. CountsSent
    <3>. SUFFICES ASSUME NEW q \in Correct, NEW s \in Correct, NEW n \in SeqNos,
                         s \in commitsWaiting'[q][n], s \notin commitsWaiting[q][n]
                  PROVE  s \in commits'[s][n]
      BY <2>1 DEF CountsSent
    <3>1. n = m.seq /\ s = m.from
      BY SMTT(30), <1>1, <1>2, <2>1 DEF TypeOK, Correct
    <3>. QED BY <1>3, <2>1, <3>1
  <2>. QED BY <1>5, <2>1, <2>2
           DEF VoteStep, VotesGrow, CommitsWhenPrepared, OrdersWhenCommitted
<1>8. CASE addToCommits(r, m)
  <2>. DEFINE votes == commits[r][m.seq] \cup {m.from}
  <2>1. /\ commits' = [commits EXCEPT ![r][m.seq] = votes]
        /\ tryOrder(r, m.seq, votes)
        /\ UNCHANGED <<prepares, commitsWaiting>>
        /\ m.from \notin commits[r][m.seq]
    BY <1>8 DEF addToCommits
  <2>2. \A q \in Replicas, n \in SeqNos :
           commits'[q][n] = IF q = r /\ n = m.seq THEN votes ELSE commits[q][n]
    BY ZenonT(60), <1>1, <1>2, <2>1 DEF TypeOK
  <2>3. VotesGrow
    BY <2>1, <2>2 DEF VotesGrow
  <2>4. CountsSent
    <3>. SUFFICES ASSUME NEW q \in Correct, NEW s \in Correct, NEW n \in SeqNos,
                         s \in commits'[q][n], s \notin commits[q][n]
                  PROVE  s \in commits'[s][n]
      BY <2>1 DEF CountsSent
    <3>1. n = m.seq /\ s = m.from
      BY <2>2 DEF Correct
    <3>2. s \in commits[s][n]
      BY <1>3, <3>1
    <3>. QED BY <2>3, <3>2 DEF VotesGrow, Correct
  <2>5. CommitsWhenPrepared
    <3>. SUFFICES ASSUME NEW q \in Correct, NEW n \in SeqNos,
                         q \in commits'[q][n], q \notin commits[q][n]
                  PROVE  FALSE
      BY DEF CommitsWhenPrepared
    <3>1. q = m.from /\ n = m.seq
      BY <2>2 DEF Correct
    <3>. QED BY <1>3, <3>1
  <2>6. OrdersWhenCommitted
    <3>. SUFFICES ASSUME NEW q \in Correct,
                         NEW k \in Elements(orderedSent'[q]) \cup outOfOrder'[q],
                         k \notin Elements(orderedSent[q]) \cup outOfOrder[q]
                  PROVE  Cardinality(commits'[q][k]) >= 2 * f + 1
      BY DEF OrdersWhenCommitted
    <3>. HIDE DEF votes
    <3>1. q = r /\ k = m.seq /\ Cardinality(votes) >= 2 * f + 1
      BY <1>1, <1>2, <2>1, TryOrderVotes DEF Correct
    <3>. QED BY <1>1, <1>2, <2>2, <3>1
  <2>. QED BY <1>5, <2>3, <2>4, <2>5, <2>6 DEF VoteStep
<1>. QED BY <1>6, <1>7, <1>8 DEF processCommit

LEMMA PrepareVotes ==
    ASSUME TypeOK, TypeOK', CertificateInv, NEW r \in Correct,
           NEW m \in Deliverable(r), processPrepare(r, m)
    PROVE  VoteStep
<1>1. r \in Replicas /\ m \in PrepareMsg
  BY DeliverableType DEF Correct, processPrepare
<1>2. m.seq \in SeqNos /\ m.from \in Replicas
  BY <1>1 DEF PrepareMsg
<1>3. \A q \in Correct : Consume(r, m)[q] \subseteq network[q]
  BY <1>1, ConsumeShrinks DEF Correct
<1>4. CASE discardPrepare(r, m) \/ enqueuePrepare(r, m)
  <2>1. /\ UNCHANGED <<prepares, commits, commitsWaiting, orderedSent, outOfOrder>>
        /\ network' = Consume(r, m)
    BY <1>4 DEF discardPrepare, enqueuePrepare, voteVars, orderVars
  <2>. QED BY <1>3, <2>1, QuietStep
<1>5. CASE addToPrepares(r, m)
  <2>. DEFINE n == m.seq
              votes == prepares[r][n] \cup {m.from}
              commit == [type |-> "COMMIT", from |-> r, seq |-> n, stamp |-> clock[r]]
  <2>1. /\ prepares' = [prepares EXCEPT ![r][n] = votes]
        /\ commitsWaiting' = commitsWaiting
    BY <1>5 DEF addToPrepares
  <2>2. \A q \in Replicas, k \in SeqNos :
           prepares'[q][k] = IF q = r /\ k = n THEN votes ELSE prepares[q][k]
    BY ZenonT(60), <1>1, <1>2, <2>1 DEF TypeOK
  <2>3. CASE ~canCommit(r, n, votes)
    <3>1. /\ network' = Consume(r, m)
          /\ UNCHANGED <<commits, orderedSent, outOfOrder>>
      BY <1>5, <2>3 DEF addToPrepares, orderVars
    <3>2. VotesGrow
      BY <2>2, <3>1 DEF VotesGrow
    <3>. QED BY <1>3, <2>1, <3>1, <3>2
             DEF VoteStep, CountsSent, SendsCounted, CommitsWhenPrepared, OrdersWhenCommitted
  <2>4. CASE canCommit(r, n, votes)
    <3>1. /\ commits' = [commits EXCEPT ![r][n] = @ \cup {r}]
          /\ network' = Broadcast(r, Consume(r, m), {commit})
          /\ tryOrder(r, n, commits[r][n] \cup {r})
      BY <1>5, <2>4 DEF addToPrepares
    <3>2. \A q \in Replicas, k \in SeqNos :
             commits'[q][k] = IF q = r /\ k = n THEN commits[r][n] \cup {r} ELSE commits[q][k]
      BY ZenonT(60), <1>1, <1>2, <3>1 DEF TypeOK
    <3>3. Cardinality(votes) >= 2 * f
      BY <2>4 DEF canCommit, hasPrepareQuorum
    <3>4. VotesGrow
      BY <2>2, <3>2 DEF VotesGrow
    <3>5. CountsSent
      BY <2>1, <3>2 DEF CountsSent, Correct
    <3>6. SendsCounted
      <4>. SUFFICES ASSUME NEW q \in Correct, NEW o \in network'[q], o \notin network[q]
                    PROVE  o.from \in commits'[o.from][o.seq]
        BY DEF SendsCounted
      <4>1. o = commit
        BY <1>3, <3>1 DEF Broadcast, Correct
      <4>. QED BY <1>1, <1>2, <3>2, <4>1
    <3>7. CommitsWhenPrepared
      BY <1>2, <2>2, <3>2, <3>3 DEF CommitsWhenPrepared, Correct
    <3>8. OrdersWhenCommitted
      <4>. SUFFICES ASSUME NEW q \in Correct,
                           NEW k \in Elements(orderedSent'[q]) \cup outOfOrder'[q],
                           k \notin Elements(orderedSent[q]) \cup outOfOrder[q]
                    PROVE  Cardinality(commits'[q][k]) >= 2 * f + 1
        BY DEF OrdersWhenCommitted
      <4>1. q = r /\ k = n /\ Cardinality(commits[r][n] \cup {r}) >= 2 * f + 1
        BY <1>1, <1>2, <3>1, TryOrderVotes DEF Correct
      <4>. QED BY <1>1, <1>2, <3>2, <4>1
    <3>. QED BY <3>4, <3>5, <3>6, <3>7, <3>8 DEF VoteStep
  <2>. QED BY <2>3, <2>4
<1>. QED BY <1>4, <1>5 DEF processPrepare

\* Taking PRE-PREPAREs, in one go or out of the stash, counts stashed votes and
\* sends the replica's own.
LEMMA AddToPrePreparesVotes ==
    ASSUME TypeOK, CertificateInv, NEW r \in Correct, NEW lo \in SeqNos,
           NEW top \in SeqNos, lo <= top, NEW pp \in [lo..top -> Batches],
           NEW net \in [Replicas -> SUBSET Message],
           \A q \in Correct : net[q] \subseteq network[q],
           addToPrePrepares(r, lo, top, pp, net)
    PROVE  VoteStep
<1>. DEFINE K == lo..top
            T(n) == tryPrepare(r, n, pp[n])
            C(n) == tryCommit(r, n, pp[n])
<1>0. r \in Replicas /\ K \subseteq SeqNos /\ lo \in Int /\ top \in Int
  BY BoundsAssumption DEF Correct, SeqNos
<1>1. \A q \in Replicas, n \in SeqNos :
        /\ prepares'[q][n] = IF q = r /\ n \in K THEN T(n) ELSE prepares[q][n]
        /\ commits'[q][n] = IF q = r /\ n \in K THEN C(n) ELSE commits[q][n]
        /\ commitsWaiting'[q][n] = IF q = r /\ n \in K THEN {} ELSE commitsWaiting[q][n]
  <2>. HIDE DEF T, C
  <2>1. /\ prepares' = [prepares EXCEPT ![r] =
              [n \in SeqNos |-> IF n \in K THEN T(n) ELSE prepares[r][n]]]
        /\ commits' = [commits EXCEPT ![r] =
              [n \in SeqNos |-> IF n \in K THEN C(n) ELSE commits[r][n]]]
        /\ commitsWaiting' = [commitsWaiting EXCEPT ![r] =
              [n \in SeqNos |-> IF n \in K THEN {} ELSE commitsWaiting[r][n]]]
    BY DEF addToPrePrepares, T, C
  <2>. HIDE DEF K
  <2>. QED BY <1>0, <2>1 DEF TypeOK
<1>2. \A n \in K : prepares[r][n] \subseteq T(n) /\ commits[r][n] \subseteq C(n)
  BY DEF tryPrepare, dequeuePrepares, tryCommit, dequeueCommits
<1>3. \A n \in K : \A s \in C(n) : s \in commits[r][n] \cup commitsWaiting[r][n] \cup {r}
  BY DEF tryCommit, dequeueCommits
<1>4. \A n \in K : r \in C(n) => r \in commits[r][n] \/ canCommit(r, n, T(n))
  <2>. SUFFICES ASSUME NEW n \in K, r \in C(n), ~canCommit(r, n, T(n))
                PROVE  r \in commits[r][n]
    OBVIOUS
  <2>1. r \in commits[r][n] \cup commitsWaiting[r][n]
    BY DEF tryCommit, dequeueCommits
  <2>. QED BY <1>0, <2>1 DEF CertificateInv, CommitsCounted
<1>5. \A n \in K : canCommit(r, n, T(n)) => Cardinality(T(n)) >= 2 * f /\ r \in C(n)
  BY DEF canCommit, hasPrepareQuorum, tryCommit
<1>6. \A n \in K : orderable(r, n, pp[n]) => Cardinality(C(n)) >= 2 * f + 1
  BY DEF orderable, hasCommitQuorum
<1>7. SendsCounted
  <2>. DEFINE out == UNION {SentVotes(r, n, pp[n], clock[r] + 2 * (n - lo)) : n \in K}
  <2>. SUFFICES ASSUME NEW q \in Correct, NEW m \in network'[q], m \notin network[q],
                       m.type = "COMMIT"
                PROVE  m.from \in commits'[m.from][m.seq]
    BY DEF SendsCounted
  <2>1. network' = Broadcast(r, net, out)
    BY DEF addToPrePrepares
  <2>2. m \in out
    <3>. HIDE DEF out
    <3>. QED BY <2>1 DEF Broadcast, Correct
  <2>3. PICK n \in K : m \in SentVotes(r, n, pp[n], clock[r] + 2 * (n - lo))
    BY <2>2
  <2>4. m.from = r /\ m.seq = n /\ canCommit(r, n, T(n))
    BY <2>3 DEF SentVotes
  <2>. HIDE DEF T, C, K
  <2>. QED BY <1>0, <1>1, <1>5, <2>4
<1>8. OrdersWhenCommitted
  <2>. DEFINE newly == {n \in K : /\ all_prev_ordered(r, lo)
                                  /\ \A k \in K : k <= n => orderable(r, k, pp[k])}
  <2>1. PICK hi \in (lo - 1)..top : newly = lo..hi /\ doOrder(r, lo, hi, pp)
    BY DEF addToPrePrepares
  <2>2. hi \in Int /\ hi >= lo - 1 /\ lo..hi \subseteq SeqNos
    BY <1>0, <2>1
  <2>3. \A n \in newly : n \in K /\ orderable(r, n, pp[n])
    BY <1>0
  <2>4. outOfOrder' = [outOfOrder EXCEPT ![r] =
              @ \cup ({n \in K : orderable(r, n, pp[n])} \ newly)]
    BY DEF addToPrePrepares
  <2>. HIDE DEF newly, T, C, K
  <2>. SUFFICES ASSUME NEW q \in Correct,
                       NEW k \in Elements(orderedSent'[q]) \cup outOfOrder'[q],
                       k \notin Elements(orderedSent[q]) \cup outOfOrder[q]
                PROVE  Cardinality(commits'[q][k]) >= 2 * f + 1
    BY DEF OrdersWhenCommitted
  <2>5. q \in Replicas
    BY DEF Correct
  <2>6. /\ Elements(orderedSent'[q]) \subseteq Elements(orderedSent[q]) \cup newly
        /\ q # r => orderedSent'[q] = orderedSent[q]
    BY <1>0, <2>1, <2>2, <2>5, DoOrderElements
  <2>7. outOfOrder'[q] \subseteq outOfOrder[q] \cup {n \in K : orderable(r, n, pp[n])}
        /\ (q # r => outOfOrder'[q] = outOfOrder[q])
    BY <1>0, <2>4, <2>5 DEF TypeOK
  <2>8. q = r /\ k \in K /\ orderable(r, k, pp[k])
    BY <2>3, <2>6, <2>7
  <2>. QED BY <1>0, <1>1, <1>6, <2>8
<1>. HIDE DEF T, C, K
<1>9. VotesGrow
  BY <1>1, <1>2 DEF VotesGrow
<1>10. CountsSent
  <2>. SUFFICES ASSUME NEW q \in Correct, NEW s \in Correct, NEW n \in SeqNos,
                       s \in commits'[q][n] \cup commitsWaiting'[q][n],
                       s \notin commits[q][n] \cup commitsWaiting[q][n]
                PROVE  s \in commits'[s][n]
    BY DEF CountsSent
  <2>1. q = r /\ n \in K /\ s \in C(n)
    BY <1>1 DEF Correct
  <2>2. s = r
    BY <1>3, <2>1
  <2>. QED BY <1>0, <1>1, <2>1, <2>2
<1>11. CommitsWhenPrepared
  <2>. SUFFICES ASSUME NEW q \in Correct, NEW n \in SeqNos,
                       q \in commits'[q][n], q \notin commits[q][n]
                PROVE  Cardinality(prepares'[q][n]) >= 2 * f
    BY DEF CommitsWhenPrepared
  <2>1. q = r /\ n \in K /\ r \in C(n)
    BY <1>1 DEF Correct
  <2>2. Cardinality(T(n)) >= 2 * f
    BY <1>4, <1>5, <2>1
  <2>. QED BY <1>0, <1>1, <2>1, <2>2
<1>. QED BY <1>7, <1>8, <1>9, <1>10, <1>11 DEF VoteStep

LEMMA PrePrepareVotes ==
    ASSUME TypeOK, CertificateInv, NEW r \in Correct, NEW m \in Deliverable(r),
           processPrePrepare(r, m)
    PROVE  VoteStep
<1>1. r \in Replicas /\ m \in PrePrepareMsg
  BY DeliverableType DEF Correct, processPrePrepare
<1>2. \A q \in Correct : Consume(r, m)[q] \subseteq network[q]
  BY <1>1, ConsumeShrinks DEF Correct
<1>3. CASE enqueuePrePrepare(r, m) \/ rejectPrePrepare(r, m)
  <2>1. /\ UNCHANGED <<prepares, commits, commitsWaiting, orderedSent, outOfOrder>>
        /\ network' = Consume(r, m)
    BY <1>3 DEF enqueuePrePrepare, rejectPrePrepare, voteVars, orderVars
  <2>. QED BY <1>2, <2>1, QuietStep
<1>4. CASE acceptPrePrepare(r, m)
  <2>. DEFINE pp == [n \in {m.seq} |-> m.batch]
  <2>1. m.seq \in SeqNos /\ m.batch \in Batches
    BY <1>1 DEF PrePrepareMsg
  <2>2. m.seq <= m.seq /\ (m.seq)..(m.seq) = {m.seq}
    BY <2>1, BoundsAssumption DEF SeqNos
  <2>3. pp \in [(m.seq)..(m.seq) -> Batches]
    BY <2>1, <2>2
  <2>4. addToPrePrepares(r, m.seq, m.seq, pp, Consume(r, m))
    BY <1>4 DEF acceptPrePrepare
  <2>5. Consume(r, m) \in [Replicas -> SUBSET Message]
    BY <1>1, ConsumeType
  <2>. HIDE DEF pp
  <2>. QED BY <1>2, <2>1, <2>2, <2>3, <2>4, <2>5, AddToPrePreparesVotes
<1>. QED BY <1>3, <1>4 DEF processPrePrepare

LEMMA DequeueVotes ==
    ASSUME TypeOK, CertificateInv, NEW r \in Correct, dequeuePrePrepares(r)
    PROVE  VoteStep
<1>1. CASE UNCHANGED <<requestQueue, prePrepares, voteVars, orderVars,
                       stashedSyncing, netVars>>
  BY <1>1, QuietStep DEF voteVars, orderVars, netVars
<1>2. CASE \E lo, top \in SeqNos :
              /\ lo <= top
              /\ \E pp \in [lo..top -> Batches] :
                    addToPrePrepares(r, lo, top, pp, network)
  <2>1. network \in [Replicas -> SUBSET Message]
    BY DEF TypeOK
  <2>. QED BY <1>2, <2>1, AddToPrePreparesVotes
<1>. QED BY <1>1, <1>2, DequeueTakes

\* The timer orders batches out of the stash, and stashes none.
LEMMA ReorderTakes ==
    ASSUME TypeOK, NEW r \in Correct, NEW hi \in 0..MaxSeq,
           process_stashed_out_of_order_commits(r, hi)
    PROVE  \A q \in Correct :
              /\ Elements(orderedSent'[q]) \subseteq Elements(orderedSent[q]) \cup outOfOrder[q]
              /\ outOfOrder'[q] \subseteq outOfOrder[q]
<1>. DEFINE last == ordered[r][Len(ordered[r])]
            stash == {n \in outOfOrder[r] : ~IsOrdered(r, n)}
<1>1. r \in Replicas /\ stash \subseteq outOfOrder[r] /\ outOfOrder[r] \subseteq SeqNos
  BY DEF Correct, TypeOK
<1>2. last \in SeqNos
  <2>1. ordered[r] \in Seq(SeqNos) /\ ordered[r] # <<>>
    BY <1>1 DEF TypeOK, process_stashed_out_of_order_commits
  <2>2. Len(ordered[r]) \in 1..Len(ordered[r])
    BY <2>1, EmptySeq, LenProperties
  <2>. QED BY <2>1, <2>2, ElementOfSeq
<1>3. /\ hi >= last /\ (last + 1)..hi \subseteq stash
      /\ doOrder(r, last + 1, hi, prePrepares[r])
      /\ outOfOrder' = [outOfOrder EXCEPT ![r] = stash \ ((last + 1)..hi)]
      /\ UNCHANGED <<prepares, commits, commitsWaiting, network>>
  BY DEF process_stashed_out_of_order_commits, voteVars, netVars
<1>. HIDE DEF last, stash
<1>4. last + 1 \in Int /\ hi \in Int /\ hi >= (last + 1) - 1
      /\ (last + 1)..hi \subseteq SeqNos
  BY <1>1, <1>2, <1>3, BoundsAssumption DEF SeqNos
<1>5. ASSUME NEW q \in Correct
      PROVE  /\ Elements(orderedSent'[q]) \subseteq Elements(orderedSent[q]) \cup outOfOrder[q]
             /\ outOfOrder'[q] \subseteq outOfOrder[q]
  <2>1. q \in Replicas
    BY DEF Correct
  <2>2. /\ Elements(orderedSent'[q]) \subseteq Elements(orderedSent[q]) \cup (last + 1)..hi
        /\ q # r => orderedSent'[q] = orderedSent[q]
    BY <1>1, <1>3, <1>4, <2>1, DoOrderElements
  <2>3. outOfOrder'[q] \subseteq outOfOrder[q]
    BY <1>1, <1>3, <2>1 DEF TypeOK
  <2>. QED BY <1>1, <1>3, <2>2, <2>3
<1>. QED BY <1>5

LEMMA ReorderVotes ==
    ASSUME TypeOK, NEW r \in Correct, NEW hi \in 0..MaxSeq,
           process_stashed_out_of_order_commits(r, hi)
    PROVE  VoteStep
<1>1. UNCHANGED <<prepares, commits, commitsWaiting, network>>
  BY DEF process_stashed_out_of_order_commits, voteVars, netVars
<1>. QED BY <1>1, ReorderTakes DEF VoteStep, VotesGrow, CountsSent, SendsCounted,
         CommitsWhenPrepared, OrdersWhenCommitted

LEMMA ProposeVotes ==
    ASSUME TypeOK, NEW S \in SUBSET Requests, send3PCBatch(S)
    PROVE  VoteStep
<1>1. UNCHANGED <<prepares, commits, commitsWaiting, orderedSent, outOfOrder>>
  BY DEF send3PCBatch, voteVars, orderVars
<1>. DEFINE n == LastPrePrepare(Primary) + 1
            m == [type |-> "PREPREPARE", from |-> Primary, seq |-> n,
                  batch |-> [reqs |-> S, ok |-> n \notin WrongBatches],
                  stamp |-> clock[Primary]]
<1>2. m.type = "PREPREPARE" /\ network' = Broadcast(Primary, network, {m})
  BY DEF send3PCBatch
<1>. HIDE DEF m
<1>3. \A q \in Correct : network'[q] \subseteq network[q] \cup {m}
  BY <1>2 DEF Broadcast, Correct
<1>. QED BY <1>1, <1>2, <1>3, QuietStep

\* One step of the specification keeps the certificates.
LEMMA CertificateStep == TypeOK /\ CertificateInv /\ [Next]_vars => CertificateInv'
<1>. SUFFICES ASSUME TypeOK, CertificateInv, [Next]_vars PROVE CertificateInv'
  OBVIOUS
<1>0. TypeOK'
  BY TypeStep
<1>. SUFFICES VoteStep
  BY <1>0, VoteStepKeeps
<1>1. CASE Propose
  BY <1>1, ProposeVotes DEF Propose
<1>2. ASSUME NEW r \in Correct, ReplicaStep(r) PROVE VoteStep
  <2>1. CASE \E s \in Replicas : ReceiveFrom(r, s)
    BY <1>0, <2>1, PrePrepareVotes, PrepareVotes, CommitVotes DEF ReceiveFrom
  <2>2. CASE ReceiveKey(r) \/ Finalise(r)
    <3>1. UNCHANGED <<prepares, commits, commitsWaiting, orderedSent, outOfOrder, network>>
      BY <2>2 DEF ReceiveKey, Finalise, readyFor3PC, FinaliseRequest, voteVars,
         orderVars, netVars
    <3>. QED BY <3>1, QuietStep
  <2>3. CASE Dequeue(r)
    BY <2>3, DequeueVotes DEF Dequeue
  <2>4. CASE Reorder(r)
    BY <2>4, ReorderVotes DEF Reorder
  <2>5. CASE StartCatchUp(r) \/ CaughtUp(r)
    <3>1. UNCHANGED <<prepares, commits, commitsWaiting, orderedSent, outOfOrder, network>>
      BY <2>5 DEF StartCatchUp, CaughtUp, preLedgerCatchUp, allLedgersCaughtUp, voteVars,
         orderVars, netVars
    <3>. QED BY <3>1, QuietStep
  <2>6. CASE Drop(r)
    <3>1. PICK m : Lose(r, m)
      BY <2>6 DEF Drop
    <3>2. /\ UNCHANGED <<prepares, commits, commitsWaiting, orderedSent, outOfOrder>>
          /\ network' = Consume(r, m)
      BY <3>1 DEF Lose, voteVars, orderVars
    <3>. QED BY <3>2, ConsumeShrinks, QuietStep DEF Correct
  <2>. QED BY <1>2, <2>1, <2>2, <2>3, <2>4, <2>5, <2>6 DEF ReplicaStep
<1>3. CASE UNCHANGED vars
  BY <1>3, QuietStep DEF vars, voteVars, orderVars, netVars
<1>. QED BY <1>1, <1>2, <1>3 DEF Next

LEMMA CertificateInit == Init => CertificateInv
<1>. SUFFICES ASSUME Init PROVE CertificateInv
  OBVIOUS
<1>1. \A r \in Correct : Elements(orderedSent[r]) = {} /\ outOfOrder[r] = {}
  BY EmptySeq DEF Init, Elements, Correct
<1>2. \A r \in Correct : \A n \in SeqNos :
         commits[r][n] = {} /\ commitsWaiting[r][n] = {} /\ network[r] = {}
  BY DEF Init, Correct
<1>. QED BY <1>1, <1>2 DEF CertificateInv, CommitsCounted, CommitsInTransit,
         CommitsPrepared, OrderedCommitted, Init, Correct

\* Of the 2f+1 voters of an ordered batch at most f are faulty.
LEMMA CertificateImplies == TypeOK /\ CertificateInv => OrderedHasCertificate
<1>. SUFFICES ASSUME TypeOK, CertificateInv, NEW r \in Correct,
                     NEW n \in Elements(orderedSent[r])
              PROVE  Cardinality({q \in Correct : Cardinality(prepares[q][n]) >= 2 * f})
                        >= f + 1
  BY DEF OrderedHasCertificate
<1>. DEFINE votes == commits[r][n]
            Q == {q \in Correct : Cardinality(prepares[q][n]) >= 2 * f}
<1>1. r \in Replicas /\ n \in SeqNos /\ votes \subseteq Replicas
  BY ElementsType DEF TypeOK, Correct
<1>2. Cardinality(votes) >= 2 * f + 1
  BY DEF CertificateInv, OrderedCommitted
<1>3. votes \ Faulty \subseteq Q
  BY <1>1 DEF CertificateInv, CommitsCounted, CommitsPrepared, Correct
<1>4. /\ IsFiniteSet(votes) /\ IsFiniteSet(Faulty) /\ IsFiniteSet(Q)
  <2>1. Faulty \in SUBSET Replicas /\ Q \in SUBSET Replicas
    BY ReplicasAssumption DEF Correct
  <2>2. votes \in SUBSET Replicas
    BY <1>1
  <2>. HIDE DEF votes, Q
  <2>. QED BY <2>1, <2>2, ReplicasAssumption, FS_Subset
<1>. HIDE DEF votes, Q
<1>5. Cardinality(votes \cap Faulty) <= f /\ Cardinality(votes \cap Faulty) \in Nat
  <2>1. votes \cap Faulty \in SUBSET Faulty
    OBVIOUS
  <2>2. /\ IsFiniteSet(votes \cap Faulty)
        /\ Cardinality(votes \cap Faulty) <= Cardinality(Faulty)
    BY <1>4, <2>1, FS_Subset
  <2>. QED BY <1>4, <2>2, FaultAssumption, FaultsNat, FS_CardinalityType
<1>6. Cardinality(votes \ Faulty) >= f + 1
  <2>1. /\ IsFiniteSet(votes \ Faulty)
        /\ Cardinality(votes \ Faulty) = Cardinality(votes) - Cardinality(votes \cap Faulty)
    BY <1>4, FS_Difference
  <2>2. Cardinality(votes) \in Nat
    BY <1>4, FS_CardinalityType
  <2>. QED BY <1>2, <1>5, <2>1, <2>2, FaultsNat
<1>7. Cardinality(votes \ Faulty) <= Cardinality(Q)
  BY <1>3, <1>4, FS_Subset
<1>8. Cardinality(votes \ Faulty) \in Nat /\ Cardinality(Q) \in Nat
  BY <1>3, <1>4, FS_Subset, FS_CardinalityType
<1>. QED BY <1>6, <1>7, <1>8, FaultsNat DEF Q

\* Votes are counted only if they were sent, a correct replica commits only to
\* what it found prepared, and what is ordered or stashed has its COMMITs,
\* although the stash orders without looking at them again.
THEOREM VotesCounted == Spec => []CertificateInv
<1>1. Init => TypeOK /\ CertificateInv
  BY TypeInit, CertificateInit
<1>2. TypeOK /\ CertificateInv /\ [Next]_vars => (TypeOK /\ CertificateInv)'
  BY TypeStep, CertificateStep
<1>. QED BY <1>1, <1>2, PTL DEF Spec

\* Whatever the pool, the faulty votes, the losses and the catch-ups, a batch
\* that doOrder hands to a node was prepared by f+1 correct replicas.
THEOREM Certificate == Spec => []OrderedHasCertificate
BY TypeCorrect, VotesCounted, CertificateImplies, PTL

-----------------------------------------------------------------------------
(* Every batch goes to the node once, and is known *)

Distinct(s) == \A i, j \in DOMAIN s : s[i] = s[j] => i = j

\* The inductive invariant: what was handed to the node counts as ordered, as
\* what catch-up brought does too, and what is handed over or stashed is held.
OnceInv ==
    \A r \in Correct :
        /\ Elements(orderedSent[r]) \subseteq Elements(ordered[r])
        /\ \A n \in Elements(orderedSent[r]) \cup outOfOrder[r] : HasPrePrepare(r, n)
        /\ Distinct(orderedSent[r])

\* What every step does: batches are kept, what was ordered stays so, doOrder
\* hands over a run of known batches that were not ordered before, and only
\* known batches are stashed.
BatchesKept ==
    \A r \in Correct : \A n \in SeqNos :
        HasPrePrepare(r, n) => prePrepares'[r][n] # NoBatch

OrderedKept == \A r \in Correct : Elements(ordered[r]) \subseteq Elements(ordered'[r])

HandsRun(r, lo, hi) ==
    /\ hi >= lo - 1 /\ lo..hi \subseteq SeqNos
    /\ orderedSent'[r] = orderedSent[r] \o Run(lo, hi)
    /\ lo..hi \subseteq Elements(ordered'[r])
    /\ \A n \in lo..hi : ~IsOrdered(r, n) /\ prePrepares'[r][n] # NoBatch

HandsNew ==
    \A r \in Correct :
        orderedSent'[r] = orderedSent[r] \/ \E lo, hi \in Int : HandsRun(r, lo, hi)

StashesKnown ==
    \A r \in Correct : \A n \in outOfOrder'[r] :
        n \in outOfOrder[r] \/ prePrepares'[r][n] # NoBatch

OnceStep == BatchesKept /\ OrderedKept /\ HandsNew /\ StashesKnown

\* Concatenation loses no element.
LEMMA ConcatKeeps ==
    ASSUME NEW S, NEW s \in Seq(S), NEW t \in Seq(S)
    PROVE  Elements(s) \cup Elements(t) \subseteq Elements(s \o t)
<1>1. /\ Len(s \o t) = Len(s) + Len(t)
      /\ \A i \in 1 .. Len(s) + Len(t) : (s \o t)[i] =
            IF i <= Len(s) THEN s[i] ELSE t[i - Len(s)]
  BY ConcatProperties
<1>2. /\ DOMAIN (s \o t) = 1..(Len(s) + Len(t)) /\ DOMAIN s = 1..Len(s)
      /\ DOMAIN t = 1..Len(t) /\ Len(s) \in Nat /\ Len(t) \in Nat
  BY <1>1, ConcatElements, LenProperties
<1>3. ASSUME NEW i \in DOMAIN s PROVE s[i] \in Elements(s \o t)
  <2>1. i \in 1..(Len(s) + Len(t)) /\ (s \o t)[i] = s[i]
    BY <1>1, <1>2
  <2>. QED BY <1>2, <2>1 DEF Elements
<1>4. ASSUME NEW i \in DOMAIN t PROVE t[i] \in Elements(s \o t)
  <2>1. Len(s) + i \in 1..(Len(s) + Len(t)) /\ (s \o t)[Len(s) + i] = t[i]
    BY <1>1, <1>2
  <2>. QED BY <1>2, <2>1 DEF Elements
<1>. QED BY <1>3, <1>4 DEF Elements

\* A run of new numbers keeps a sequence free of repetitions.
LEMMA DistinctRun ==
    ASSUME NEW S, NEW s \in Seq(S), Distinct(s), NEW lo \in Int, NEW hi \in Int,
           hi >= lo - 1, lo..hi \subseteq S, \A n \in lo..hi : n \notin Elements(s)
    PROVE  Distinct(s \o Run(lo, hi))
<1>. DEFINE t == Run(lo, hi)
<1>1. t \in Seq(S) /\ Elements(t) = lo..hi
  BY RunType
<1>2. hi - lo + 1 \in Nat /\ DOMAIN t = 1..(hi - lo + 1)
      /\ \A i \in 1..(hi - lo + 1) : t[i] = lo + i - 1
  BY DEF Run
<1>. HIDE DEF t
<1>3. /\ Len(s \o t) = Len(s) + Len(t)
      /\ \A i \in 1 .. Len(s) + Len(t) : (s \o t)[i] =
            IF i <= Len(s) THEN s[i] ELSE t[i - Len(s)]
  BY <1>1, ConcatProperties
<1>4. /\ DOMAIN (s \o t) = 1..(Len(s) + Len(t)) /\ DOMAIN s = 1..Len(s)
      /\ DOMAIN t = 1..Len(t) /\ Len(s) \in Nat /\ Len(t) \in Nat
  BY <1>1, <1>3, ConcatElements, LenProperties
<1>5. \A i \in 1..Len(s) : s[i] \in Elements(s)
  BY <1>4 DEF Elements
<1>6. \A i \in 1..Len(t) : t[i] \in lo..hi
  BY <1>1, <1>4 DEF Elements
<1>7. \A i, j \in 1..Len(s) : s[i] = s[j] => i = j
  BY <1>4 DEF Distinct
<1>8. \A i, j \in 1..Len(t) : t[i] = t[j] => i = j
  BY <1>2, <1>4
<1>. SUFFICES ASSUME NEW i \in 1..(Len(s) + Len(t)), NEW j \in 1..(Len(s) + Len(t)),
                     (s \o t)[i] = (s \o t)[j]
              PROVE  i = j
  BY <1>4 DEF Distinct, t
<1>9. CASE i <= Len(s) /\ j <= Len(s)
  BY <1>3, <1>4, <1>7, <1>9
<1>10. CASE ~(i <= Len(s)) /\ ~(j <= Len(s))
  <2>1. i - Len(s) \in 1..Len(t) /\ j - Len(s) \in 1..Len(t)
    BY <1>4, <1>10
  <2>2. t[i - Len(s)] = t[j - Len(s)]
    BY <1>3, <1>10
  <2>3. i - Len(s) = j - Len(s)
    BY <1>8, <2>1, <2>2
  <2>. QED BY <1>4, <2>3
<1>11. CASE i <= Len(s) /\ ~(j <= Len(s))
  <2>1. i \in 1..Len(s) /\ j - Len(s) \in 1..Len(t)
    BY <1>4, <1>11
  <2>. QED BY <1>3, <1>5, <1>6, <1>11, <2>1
<1>12. CASE ~(i <= Len(s)) /\ j <= Len(s)
  <2>1. j \in 1..Len(s) /\ i - Len(s) \in 1..Len(t)
    BY <1>4, <1>12
  <2>. QED BY <1>3, <1>5, <1>6, <1>12, <2>1
<1>. QED BY <1>9, <1>10, <1>11, <1>12

LEMMA OnceStepKeeps ==
    ASSUME TypeOK, TypeOK', OnceInv, OnceStep
    PROVE  OnceInv'
<1>. SUFFICES ASSUME NEW r \in Correct
              PROVE  /\ Elements(orderedSent'[r]) \subseteq Elements(ordered'[r])
                     /\ \A n \in Elements(orderedSent'[r]) \cup outOfOrder'[r] :
                           prePrepares'[r][n] # NoBatch
                     /\ Distinct(orderedSent'[r])
  BY DEF OnceInv, HasPrePrepare, Elements, Distinct, Correct, NoBatch
<1>1. /\ orderedSent[r] \in Seq(SeqNos) /\ orderedSent'[r] \in Seq(SeqNos)
      /\ outOfOrder[r] \subseteq SeqNos
  BY DEF TypeOK, Correct
<1>2. Elements(orderedSent[r]) \subseteq SeqNos
  BY <1>1, ElementsType
<1>3. /\ Elements(orderedSent[r]) \subseteq Elements(ordered'[r])
      /\ \A n \in Elements(orderedSent[r]) \cup outOfOrder[r] : prePrepares'[r][n] # NoBatch
      /\ Distinct(orderedSent[r])
      /\ \A n \in outOfOrder'[r] : prePrepares'[r][n] # NoBatch
  BY <1>1, <1>2 DEF OnceInv, OnceStep, BatchesKept, OrderedKept, StashesKnown
<1>4. CASE orderedSent'[r] = orderedSent[r]
  BY <1>3, <1>4
<1>5. ASSUME NEW lo \in Int, NEW hi \in Int, HandsRun(r, lo, hi)
      PROVE  /\ Elements(orderedSent'[r]) \subseteq Elements(orderedSent[r]) \cup lo..hi
             /\ Distinct(orderedSent'[r])
  <2>1. Run(lo, hi) \in Seq(SeqNos) /\ Elements(Run(lo, hi)) = lo..hi
    BY <1>5, RunType DEF HandsRun
  <2>2. \A n \in lo..hi : n \notin Elements(orderedSent[r])
    BY <1>5 DEF HandsRun, IsOrdered, OnceInv
  <2>3. Distinct(orderedSent[r] \o Run(lo, hi))
    BY <1>1, <1>3, <1>5, <2>2, DistinctRun DEF HandsRun
  <2>4. Elements(orderedSent[r] \o Run(lo, hi)) \subseteq Elements(orderedSent[r]) \cup lo..hi
    BY <1>1, <2>1, ConcatElements
  <2>. QED BY <1>5, <2>3, <2>4 DEF HandsRun
<1>6. CASE \E lo, hi \in Int : HandsRun(r, lo, hi)
  BY <1>3, <1>5, <1>6 DEF HandsRun
<1>. QED BY <1>4, <1>6 DEF OnceStep, HandsNew

\* A step that orders and stashes nothing and takes no batch back.
LEMMA QuietOnce ==
    ASSUME BatchesKept, UNCHANGED <<ordered, orderedSent, outOfOrder>>
    PROVE  OnceStep
BY DEF OnceStep, OrderedKept, HandsNew, StashesKnown

\* doOrder of batches that are known and not ordered yet.
LEMMA DoOrderOnce ==
    ASSUME TypeOK, NEW r \in Correct, NEW lo \in Int, NEW hi \in Int,
           hi >= lo - 1, lo..hi \subseteq SeqNos, NEW pps, doOrder(r, lo, hi, pps),
           \A n \in lo..hi : ~IsOrdered(r, n) /\ prePrepares'[r][n] # NoBatch
    PROVE  OrderedKept /\ HandsNew
<1>0. r \in Replicas
  BY DEF Correct
<1>1. Run(lo, hi) \in Seq(SeqNos) /\ Elements(Run(lo, hi)) = lo..hi
  BY RunType
<1>2. ordered[r] \in Seq(SeqNos) /\ orderedSent[r] \in Seq(SeqNos)
  BY <1>0 DEF TypeOK
<1>3. Elements(ordered[r]) \cup lo..hi \subseteq Elements(ordered[r] \o Run(lo, hi))
  BY <1>1, <1>2, ConcatKeeps
<1>4. /\ ordered'[r] = ordered[r] \o Run(lo, hi)
      /\ orderedSent'[r] = orderedSent[r] \o Run(lo, hi)
      /\ \A q \in Replicas : q # r => /\ ordered'[q] = ordered[q]
                                      /\ orderedSent'[q] = orderedSent[q]
  BY <1>0 DEF TypeOK, doOrder
<1>5. HandsRun(r, lo, hi)
  BY <1>3, <1>4 DEF HandsRun
<1>6. OrderedKept
  BY <1>3, <1>4 DEF OrderedKept, Correct
<1>7. HandsNew
  BY <1>4, <1>5 DEF HandsNew, Correct
<1>. QED BY <1>6, <1>7

\* tryOrder of a batch that is held.
LEMMA TryOrderOnce ==
    ASSUME TypeOK, NEW r \in Correct, NEW n \in SeqNos, NEW votes,
           tryOrder(r, n, votes), HasPrePrepare(r, n), prePrepares' = prePrepares
    PROVE  OnceStep
<1>. DEFINE quorum == hasCommitQuorum(votes) /\ ~IsOrdered(r, n)
<1>0. /\ n \in Int /\ n >= n - 1 /\ n..n = {n} /\ n..n \subseteq SeqNos
      /\ r \in Replicas
  BY BoundsAssumption DEF SeqNos, Correct
<1>1. BatchesKept /\ prePrepares'[r][n] # NoBatch
  BY DEF BatchesKept, HasPrePrepare
<1>2. CASE quorum /\ all_prev_ordered(r, n)
  <2>1. /\ doOrder(r, n, n, prePrepares[r]) /\ outOfOrder' = outOfOrder
        /\ ~IsOrdered(r, n)
    BY <1>2 DEF tryOrder
  <2>2. OrderedKept /\ HandsNew
    BY <1>0, <1>1, <2>1, DoOrderOnce
  <2>. QED BY <1>1, <2>1, <2>2 DEF OnceStep, StashesKnown
<1>3. CASE ~(quorum /\ all_prev_ordered(r, n))
  <2>1. /\ outOfOrder' = [outOfOrder EXCEPT ![r] = IF quorum THEN @ \cup {n} ELSE @]
        /\ UNCHANGED <<ordered, orderedSent>>
    BY <1>3 DEF tryOrder
  <2>. HIDE DEF quorum
  <2>2. \A q \in Replicas : \A k \in outOfOrder'[q] :
            k \in outOfOrder[q] \/ (q = r /\ k = n)
    BY <2>1 DEF TypeOK
  <2>. QED BY <1>1, <2>1, <2>2 DEF OnceStep, OrderedKept, HandsNew, StashesKnown, Correct
<1>. QED BY <1>2, <1>3

\* Taking PRE-PREPAREs orders and stashes only batches it has just taken.
LEMMA AddToPrePreparesOnce ==
    ASSUME TypeOK, NEW r \in Correct, NEW lo \in SeqNos, NEW top \in SeqNos,
           lo <= top, NEW pp \in [lo..top -> Batches], NEW net,
           addToPrePrepares(r, lo, top, pp, net)
    PROVE  OnceStep
<1>. DEFINE K == lo..top
            newly == {n \in K : /\ all_prev_ordered(r, lo)
                                /\ \A k \in K : k <= n => orderable(r, k, pp[k])}
<1>0. r \in Replicas /\ K \subseteq SeqNos /\ lo \in Int /\ top \in Int
  BY BoundsAssumption DEF Correct, SeqNos
<1>1. \A n \in K : pp[n] # NoBatch
  BY DEF Batches, NoBatch
<1>2. prePrepares' = [prePrepares EXCEPT ![r] =
          [n \in SeqNos |-> IF n \in K THEN pp[n] ELSE prePrepares[r][n]]]
  BY DEF addToPrePrepares
<1>3. PICK hi \in (lo - 1)..top : newly = lo..hi /\ doOrder(r, lo, hi, pp)
  BY DEF addToPrePrepares
<1>4. hi \in Int /\ hi >= lo - 1 /\ lo..hi \subseteq K /\ lo..hi \subseteq SeqNos
  BY <1>0, <1>3
<1>5. \A n \in lo..hi : ~IsOrdered(r, n)
  <2>1. \A n \in newly : orderable(r, n, pp[n])
    BY <1>0
  <2>. HIDE DEF newly
  <2>. QED BY <1>3, <2>1, Zenon DEF orderable
<1>6. outOfOrder' = [outOfOrder EXCEPT ![r] =
          @ \cup ({n \in K : orderable(r, n, pp[n])} \ newly)]
  BY DEF addToPrePrepares
<1>. HIDE DEF newly, K
<1>7. \A q \in Replicas : \A n \in SeqNos :
          prePrepares'[q][n] = IF q = r /\ n \in K THEN pp[n] ELSE prePrepares[q][n]
  BY <1>0, <1>2 DEF TypeOK
<1>8. BatchesKept
  BY <1>1, <1>7 DEF BatchesKept, HasPrePrepare, Correct
<1>9. \A n \in lo..hi : ~IsOrdered(r, n) /\ prePrepares'[r][n] # NoBatch
  BY <1>0, <1>1, <1>4, <1>5, <1>7
<1>10. OrderedKept /\ HandsNew
  BY <1>0, <1>3, <1>4, <1>9, DoOrderOnce
<1>11. \A q \in Replicas : \A k \in outOfOrder'[q] :
           k \in outOfOrder[q] \/ (q = r /\ k \in K)
  BY <1>6 DEF TypeOK
<1>12. StashesKnown
  BY <1>0, <1>1, <1>7, <1>11 DEF StashesKnown, Correct
<1>. QED BY <1>8, <1>10, <1>12 DEF OnceStep

LEMMA ReceiveOnce ==
    ASSUME TypeOK, NEW r \in Correct, NEW m \in Deliverable(r),
           processPrePrepare(r, m) \/ processPrepare(r, m) \/ processCommit(r, m)
    PROVE  OnceStep
<1>1. CASE processPrePrepare(r, m)
  <2>1. r \in Replicas /\ m \in PrePrepareMsg
    BY <1>1, DeliverableType DEF Correct, processPrePrepare
  <2>2. CASE enqueuePrePrepare(r, m) \/ rejectPrePrepare(r, m)
    <3>1. UNCHANGED <<prePrepares, ordered, orderedSent, outOfOrder>>
      BY <2>2 DEF enqueuePrePrepare, rejectPrePrepare, orderVars
    <3>. QED BY <3>1, QuietOnce DEF BatchesKept, HasPrePrepare
  <2>3. CASE acceptPrePrepare(r, m)
    <3>. DEFINE pp == [n \in {m.seq} |-> m.batch]
    <3>1. m.seq \in SeqNos /\ m.batch \in Batches
      BY <2>1 DEF PrePrepareMsg
    <3>2. m.seq <= m.seq /\ (m.seq)..(m.seq) = {m.seq}
      BY <3>1, BoundsAssumption DEF SeqNos
    <3>3. pp \in [(m.seq)..(m.seq) -> Batches]
      BY <3>1, <3>2
    <3>4. addToPrePrepares(r, m.seq, m.seq, pp, Consume(r, m))
      BY <2>3 DEF acceptPrePrepare
    <3>. HIDE DEF pp
    <3>. QED BY <3>1, <3>2, <3>3, <3>4, AddToPrePreparesOnce
  <2>. QED BY <1>1, <2>2, <2>3 DEF processPrePrepare
<1>2. CASE processPrepare(r, m)
  <2>1. m \in PrepareMsg
    BY <1>2, DeliverableType DEF processPrepare
  <2>2. m.seq \in SeqNos
    BY <2>1 DEF PrepareMsg
  <2>3. prePrepares' = prePrepares
    BY <1>2 DEF processPrepare, discardPrepare, enqueuePrepare, addToPrepares
  <2>4. CASE UNCHANGED <<ordered, orderedSent, outOfOrder>>
    BY <2>3, <2>4, QuietOnce DEF BatchesKept, HasPrePrepare
  <2>5. CASE ~UNCHANGED <<ordered, orderedSent, outOfOrder>>
    <3>1. addToPrepares(r, m)
      BY <1>2, <2>5 DEF processPrepare, discardPrepare, enqueuePrepare, orderVars
    <3>2. /\ HasPrePrepare(r, m.seq)
          /\ tryOrder(r, m.seq, commits[r][m.seq] \cup {r})
      BY <2>5, <3>1 DEF addToPrepares, orderVars
    <3>. QED BY <2>2, <2>3, <3>2, TryOrderOnce
  <2>. QED BY <2>4, <2>5
<1>3. CASE processCommit(r, m)
  <2>1. m \in CommitMsg
    BY <1>3, DeliverableType DEF processCommit
  <2>2. m.seq \in SeqNos
    BY <2>1 DEF CommitMsg
  <2>3. prePrepares' = prePrepares
    BY <1>3 DEF processCommit, discardCommit, enqueueCommit, addToCommits
  <2>4. CASE enqueueCommit(r, m) \/ discardCommit(r, m)
    <3>1. UNCHANGED <<ordered, orderedSent, outOfOrder>>
      BY <2>4 DEF enqueueCommit, discardCommit, orderVars
    <3>. QED BY <2>3, <3>1, QuietOnce DEF BatchesKept, HasPrePrepare
  <2>5. CASE addToCommits(r, m)
    <3>1. /\ HasPrePrepare(r, m.seq)
          /\ tryOrder(r, m.seq, commits[r][m.seq] \cup {m.from})
      BY <2>5 DEF addToCommits
    <3>. QED BY <2>2, <2>3, <3>1, TryOrderOnce
  <2>. QED BY <1>3, <2>4, <2>5 DEF processCommit
<1>. QED BY <1>1, <1>2, <1>3

\* The stash is gone through without looking at prePrepares: that the batches in
\* it are known is the invariant's.
LEMMA ReorderOnce ==
    ASSUME TypeOK, OnceInv, NEW r \in Correct, NEW hi \in 0..MaxSeq,
           process_stashed_out_of_order_commits(r, hi)
    PROVE  OnceStep
<1>. DEFINE last == ordered[r][Len(ordered[r])]
            stash == {n \in outOfOrder[r] : ~IsOrdered(r, n)}
<1>1. r \in Replicas /\ outOfOrder[r] \subseteq SeqNos /\ stash \subseteq outOfOrder[r]
      /\ \A n \in stash : ~IsOrdered(r, n)
  BY DEF Correct, TypeOK
<1>2. last \in SeqNos
  <2>1. ordered[r] \in Seq(SeqNos) /\ ordered[r] # <<>>
    BY <1>1 DEF TypeOK, process_stashed_out_of_order_commits
  <2>2. Len(ordered[r]) \in 1..Len(ordered[r])
    BY <2>1, EmptySeq, LenProperties
  <2>. QED BY <2>1, <2>2, ElementOfSeq
<1>3. /\ hi >= last /\ (last + 1)..hi \subseteq stash
      /\ doOrder(r, last + 1, hi, prePrepares[r])
      /\ outOfOrder' = [outOfOrder EXCEPT ![r] = stash \ ((last + 1)..hi)]
      /\ prePrepares' = prePrepares
  BY DEF process_stashed_out_of_order_commits
<1>. HIDE DEF last, stash
<1>4. last + 1 \in Int /\ hi \in Int /\ hi >= (last + 1) - 1
      /\ (last + 1)..hi \subseteq SeqNos
  BY <1>1, <1>2, <1>3, BoundsAssumption DEF SeqNos
<1>5. \A n \in (last + 1)..hi : ~IsOrdered(r, n) /\ prePrepares'[r][n] # NoBatch
  BY <1>1, <1>3 DEF OnceInv, HasPrePrepare
<1>6. OrderedKept /\ HandsNew
  BY <1>3, <1>4, <1>5, DoOrderOnce
<1>7. \A q \in Replicas : outOfOrder'[q] \subseteq outOfOrder[q]
  BY <1>1, <1>3 DEF TypeOK
<1>. QED BY <1>3, <1>6, <1>7 DEF OnceStep, BatchesKept, HasPrePrepare, StashesKnown, Correct

\* One step of the specification keeps OnceInv.
LEMMA OnceInvStep == TypeOK /\ OnceInv /\ [Next]_vars => OnceInv'
<1>. SUFFICES ASSUME TypeOK, OnceInv, [Next]_vars PROVE OnceInv'
  OBVIOUS
<1>0. TypeOK'
  BY TypeStep
<1>. SUFFICES OnceStep
  BY <1>0, OnceStepKeeps
<1>1. CASE Propose
  <2>1. PICK S \in SUBSET Requests : send3PCBatch(S)
    BY <1>1 DEF Propose
  <2>. DEFINE n == LastPrePrepare(Primary) + 1
              batch == [reqs |-> S, ok |-> n \notin WrongBatches]
  <2>2. /\ prePrepares' = [prePrepares EXCEPT ![Primary][n] = batch]
        /\ UNCHANGED <<ordered, orderedSent, outOfOrder>>
    BY <2>1 DEF send3PCBatch, orderVars
  <2>3. batch # NoBatch
    BY <2>1 DEF send3PCBatch, NoBatch
  <2>. HIDE DEF n, batch
  <2>4. BatchesKept
    BY <2>2, <2>3 DEF BatchesKept, HasPrePrepare, TypeOK, Correct
  <2>. QED BY <2>2, <2>4, QuietOnce
<1>2. ASSUME NEW r \in Correct, ReplicaStep(r) PROVE OnceStep
  <2>1. CASE \E s \in Replicas : ReceiveFrom(r, s)
    BY <2>1, ReceiveOnce DEF ReceiveFrom
  <2>2. CASE ReceiveKey(r) \/ Finalise(r) \/ StartCatchUp(r) \/ Drop(r)
    <3>1. UNCHANGED <<prePrepares, ordered, orderedSent, outOfOrder>>
      BY <2>2 DEF ReceiveKey, Finalise, StartCatchUp, Drop, readyFor3PC,
         FinaliseRequest, preLedgerCatchUp, Lose, orderVars
    <3>. QED BY <3>1, QuietOnce DEF BatchesKept, HasPrePrepare
  <2>3. CASE Dequeue(r)
    <3>1. dequeuePrePrepares(r)
      BY <2>3 DEF Dequeue
    <3>2. CASE UNCHANGED <<requestQueue, prePrepares, voteVars, orderVars,
                           stashedSyncing, netVars>>
      BY <3>2, QuietOnce DEF BatchesKept, HasPrePrepare, orderVars
    <3>. QED BY <3>1, <3>2, DequeueTakes, AddToPrePreparesOnce
  <2>4. CASE Reorder(r)
    BY <2>4, ReorderOnce DEF Reorder
  <2>5. CASE CaughtUp(r)
    <3>1. PICK k \in 0..MaxSeq : allLedgersCaughtUp(r, k)
      BY <2>5 DEF CaughtUp
    <3>2. /\ ordered' = [ordered EXCEPT ![r] =
                IF k = 0 \/ IsOrdered(r, k) THEN @ ELSE Append(@, k)]
          /\ UNCHANGED <<prePrepares, orderedSent, outOfOrder>>
      BY <3>1 DEF allLedgersCaughtUp
    <3>3. ordered[r] \in Seq(SeqNos) /\ (k # 0 => k \in SeqNos)
      BY BoundsAssumption DEF TypeOK, Correct, SeqNos
    <3>4. k # 0 => Elements(ordered[r]) \subseteq Elements(Append(ordered[r], k))
      BY <3>3, AppendProperties, LenProperties DEF Elements
    <3>5. OrderedKept
      BY <3>2, <3>4 DEF OrderedKept, TypeOK, Correct
    <3>. QED BY <3>2, <3>5 DEF OnceStep, BatchesKept, HandsNew, StashesKnown, HasPrePrepare
  <2>. QED BY <1>2, <2>1, <2>2, <2>3, <2>4, <2>5 DEF ReplicaStep
<1>3. CASE UNCHANGED vars
  BY <1>3, QuietOnce DEF vars, orderVars, BatchesKept, HasPrePrepare
<1>. QED BY <1>1, <1>2, <1>3 DEF Next

LEMMA OnceInvInit == Init => OnceInv
<1>. SUFFICES ASSUME Init, NEW r \in Correct
              PROVE  /\ orderedSent[r] = <<>> /\ outOfOrder[r] = {}
                     /\ DOMAIN orderedSent[r] = {}
  BY DEF OnceInv, Elements, Distinct
<1>. QED BY EmptySeq DEF Init, Correct

\* Whatever is lost and whichever batches catch-up brings in between, doOrder
\* hands every batch to the node at most once and only while it is known, as
\* its assertion demands: neither a late COMMIT, nor the stash of out of order
\* COMMITs, nor a late PRE-PREPARE orders a batch a second time.
THEOREM OrderedOnce == Spec => []OrderedOnceAndKnown
<1>1. Spec => [](TypeOK /\ OnceInv)
  <2>1. Init => TypeOK /\ OnceInv
    BY TypeInit, OnceInvInit
  <2>2. TypeOK /\ OnceInv /\ [Next]_vars => (TypeOK /\ OnceInv)'
    BY TypeStep, OnceInvStep
  <2>. QED BY <2>1, <2>2, PTL DEF Spec
<1>2. OnceInv => OrderedOnceAndKnown
  BY DEF OnceInv, OrderedOnceAndKnown, Distinct
<1>. QED BY <1>1, <1>2, PTL

-----------------------------------------------------------------------------
(* A refused batch is never ordered *)

\* Whoever voted for batch n as r sees it, counted or stashed.
Voters(r, n) == prepares[r][n] \cup {v.from : v \in preparesWaiting[r][n]}
                \cup commits[r][n] \cup commitsWaiting[r][n]

Held(r) == network[r] \cup pendingFinReqs[r] \cup pendingPrevPP[r]

\* A refused batch does not pass for valid, and no correct replica votes for it.
Honest(m) ==
    m.seq \in WrongBatches =>
        IF m.type = "PREPREPARE" THEN ~m.batch.ok ELSE m.from \notin Correct

\* The inductive invariant: for a refused batch only faulty backups vote.
ValidInv ==
    \A r \in Correct :
        /\ \A m \in Held(r) : Honest(m)
        /\ \A n \in WrongBatches : Voters(r, n) \subseteq Faulty
        /\ \A n \in Elements(orderedSent[r]) \cup outOfOrder[r] : n \notin WrongBatches

\* What every step does: new messages are honest, new votes for refused batches
\* come from faulty backups, and no refused batch is ordered or stashed.
HonestSent == \A r \in Correct : \A m \in Held(r)' : m \in Held(r) \/ Honest(m)

FaultyCounted ==
    \A r \in Correct : \A n \in WrongBatches : Voters(r, n)' \subseteq Voters(r, n) \cup Faulty

ValidOrdered ==
    \A r \in Correct : \A n \in Elements(orderedSent'[r]) \cup outOfOrder'[r] :
        n \in Elements(orderedSent[r]) \cup outOfOrder[r] \/ n \notin WrongBatches

ValidStep == HonestSent /\ FaultyCounted /\ ValidOrdered

LEMMA ValidStepKeeps ==
    ASSUME ValidInv, ValidStep PROVE ValidInv'
<1>. SUFFICES ASSUME NEW r \in Correct
              PROVE  /\ \A m \in Held(r)' : Honest(m)
                     /\ \A n \in WrongBatches : Voters(r, n)' \subseteq Faulty
                     /\ \A n \in Elements(orderedSent'[r]) \cup outOfOrder'[r] :
                           n \notin WrongBatches
  BY DEF ValidInv, Elements, Honest, Correct
<1>1. \A m \in Held(r)' : Honest(m)
  BY DEF ValidInv, ValidStep, HonestSent
<1>2. \A n \in WrongBatches : Voters(r, n)' \subseteq Faulty
  BY DEF ValidInv, ValidStep, FaultyCounted
<1>3. \A n \in Elements(orderedSent'[r]) \cup outOfOrder'[r] : n \notin WrongBatches
  BY DEF ValidInv, ValidStep, ValidOrdered
<1>. QED BY <1>1, <1>2, <1>3

\* Faulty backups alone are no quorum, not even in a pool without faults.
LEMMA FaultyAreFew ==
    ASSUME NEW S \in SUBSET Faulty
    PROVE  ~hasPrepareQuorum(S) /\ ~hasCommitQuorum(S) /\ ~(Cardinality(S) >= 2 * f + 1)
<1>1. IsFiniteSet(Faulty)
  BY ReplicasAssumption, FS_Subset
<1>2. /\ IsFiniteSet(S) /\ Cardinality(S) <= Cardinality(Faulty)
      /\ Cardinality(S) \in Nat /\ Cardinality(Faulty) \in Nat
  BY <1>1, FS_Subset, FS_CardinalityType
<1>3. Cardinality(S) <= f /\ f \in Nat
  BY <1>2, FaultAssumption, FaultsNat
<1>4. S # {} => Cardinality(S) # 0
  BY <1>2, FS_EmptySet
<1>. QED BY <1>2, <1>3, <1>4 DEF hasPrepareQuorum, hasCommitQuorum

\* A step that only moves or loses messages.
LEMMA QuietValid ==
    ASSUME UNCHANGED <<prepares, preparesWaiting, commits, commitsWaiting,
                       orderedSent, outOfOrder>>,
           \A r \in Correct : Held(r)' \subseteq Held(r)
    PROVE  ValidStep
BY DEF ValidStep, HonestSent, FaultyCounted, ValidOrdered, Voters

\* A vote for a refused batch that arrives is a faulty backup's.
LEMMA DeliveredHonest ==
    ASSUME ValidInv, NEW r \in Correct, NEW m \in Deliverable(r)
    PROVE  Honest(m)
BY FaultyVotesAssumption DEF ValidInv, Held, Deliverable, Honest, Correct, PrepareMsg,
   CommitMsg

\* PRE-PREPAREs for refused batches are taken while syncing only, and then the
\* replica does not vote.
LEMMA AddToPrePreparesValid ==
    ASSUME TypeOK, ValidInv, NEW r \in Correct, NEW lo \in SeqNos,
           NEW top \in SeqNos, lo <= top, NEW pp \in [lo..top -> Batches],
           NEW net \in [Replicas -> SUBSET Message],
           \A q \in Correct : net[q] \subseteq network[q],
           \A n \in lo..top : participating[r] => n \notin WrongBatches,
           \A q \in Correct : /\ pendingFinReqs'[q] \subseteq Held(q)
                              /\ pendingPrevPP'[q] \subseteq Held(q),
           addToPrePrepares(r, lo, top, pp, net)
    PROVE  ValidStep
<1>. DEFINE K == lo..top
            T(n) == tryPrepare(r, n, pp[n])
            C(n) == tryCommit(r, n, pp[n])
<1>0. /\ r \in Replicas /\ K \subseteq SeqNos /\ lo \in Int /\ top \in Int
      /\ WrongBatches \subseteq SeqNos
  BY BoundsAssumption DEF Correct, SeqNos
<1>1. \A q \in Replicas, n \in SeqNos :
        /\ prepares'[q][n] = IF q = r /\ n \in K THEN T(n) ELSE prepares[q][n]
        /\ commits'[q][n] = IF q = r /\ n \in K THEN C(n) ELSE commits[q][n]
        /\ preparesWaiting'[q][n] = IF q = r /\ n \in K THEN {} ELSE preparesWaiting[q][n]
        /\ commitsWaiting'[q][n] = IF q = r /\ n \in K THEN {} ELSE commitsWaiting[q][n]
  <2>. HIDE DEF T, C
  <2>1. /\ prepares' = [prepares EXCEPT ![r] =
              [n \in SeqNos |-> IF n \in K THEN T(n) ELSE prepares[r][n]]]
        /\ commits' = [commits EXCEPT ![r] =
              [n \in SeqNos |-> IF n \in K THEN C(n) ELSE commits[r][n]]]
        /\ preparesWaiting' = [preparesWaiting EXCEPT ![r] =
              [n \in SeqNos |-> IF n \in K THEN {} ELSE preparesWaiting[r][n]]]
        /\ commitsWaiting' = [commitsWaiting EXCEPT ![r] =
              [n \in SeqNos |-> IF n \in K THEN {} ELSE commitsWaiting[r][n]]]
    BY DEF addToPrePrepares, T, C
  <2>. HIDE DEF K
  <2>. QED BY <1>0, <2>1 DEF TypeOK
<1>2. ASSUME NEW n \in K, n \in WrongBatches
      PROVE  /\ T(n) \subseteq Faulty /\ ~canPrepare(r, n, pp[n])
             /\ C(n) \subseteq Faulty /\ ~canCommit(r, n, T(n))
             /\ ~orderable(r, n, pp[n])
  <2>1. ~shouldParticipate(r, n)
    BY <1>2 DEF shouldParticipate
  <2>2. ~canPrepare(r, n, pp[n]) /\ ~canCommit(r, n, T(n))
    BY <2>1 DEF canPrepare, canCommit
  <2>3. Voters(r, n) \subseteq Faulty
    BY <1>2 DEF ValidInv
  <2>4. T(n) \subseteq Faulty
    BY <2>2, <2>3 DEF tryPrepare, dequeuePrepares, Voters
  <2>5. C(n) \subseteq Faulty
    BY <2>2, <2>3 DEF tryCommit, dequeueCommits, Voters
  <2>6. ~orderable(r, n, pp[n])
    BY <2>5, FaultyAreFew DEF orderable
  <2>. QED BY <2>2, <2>4, <2>5, <2>6
<1>3. HonestSent
  <2>. DEFINE out == UNION {SentVotes(r, n, pp[n], clock[r] + 2 * (n - lo)) : n \in K}
  <2>. SUFFICES ASSUME NEW q \in Correct, NEW m \in Held(q)', m \notin Held(q)
                PROVE  Honest(m)
    BY DEF HonestSent
  <2>1. network' = Broadcast(r, net, out)
    BY DEF addToPrePrepares
  <2>2. m \in out
    <3>. HIDE DEF out
    <3>1. m \in network'[q]
      BY DEF Held
    <3>. QED BY <2>1, <3>1 DEF Broadcast, Correct, Held
  <2>3. PICK n \in K : m \in SentVotes(r, n, pp[n], clock[r] + 2 * (n - lo))
    BY <2>2
  <2>4. m.seq = n /\ (canPrepare(r, n, pp[n]) \/ canCommit(r, n, T(n)))
    BY <2>3 DEF SentVotes
  <2>. HIDE DEF T, C, K
  <2>. QED BY <1>2, <2>4 DEF Honest
<1>4. ValidOrdered
  <2>. DEFINE newly == {n \in K : /\ all_prev_ordered(r, lo)
                                  /\ \A k \in K : k <= n => orderable(r, k, pp[k])}
  <2>1. PICK hi \in (lo - 1)..top : newly = lo..hi /\ doOrder(r, lo, hi, pp)
    BY DEF addToPrePrepares
  <2>2. hi \in Int /\ hi >= lo - 1 /\ lo..hi \subseteq SeqNos
    BY <1>0, <2>1
  <2>3. \A n \in newly : n \in K /\ orderable(r, n, pp[n])
    BY <1>0
  <2>4. outOfOrder' = [outOfOrder EXCEPT ![r] =
              @ \cup ({n \in K : orderable(r, n, pp[n])} \ newly)]
    BY DEF addToPrePrepares
  <2>. HIDE DEF newly, T, C, K
  <2>. SUFFICES ASSUME NEW q \in Correct,
                       NEW k \in Elements(orderedSent'[q]) \cup outOfOrder'[q],
                       k \notin Elements(orderedSent[q]) \cup outOfOrder[q]
                PROVE  k \notin WrongBatches
    BY DEF ValidOrdered
  <2>5. q \in Replicas
    BY DEF Correct
  <2>6. /\ Elements(orderedSent'[q]) \subseteq Elements(orderedSent[q]) \cup newly
        /\ q # r => orderedSent'[q] = orderedSent[q]
    BY <1>0, <2>1, <2>2, <2>5, DoOrderElements
  <2>7. outOfOrder'[q] \subseteq outOfOrder[q] \cup {n \in K : orderable(r, n, pp[n])}
    BY <1>0, <2>4, <2>5 DEF TypeOK
  <2>8. k \in K /\ orderable(r, k, pp[k])
    BY <2>3, <2>6, <2>7
  <2>. QED BY <1>2, <2>8
<1>. HIDE DEF T, C, K
<1>5. FaultyCounted
  <2>. SUFFICES ASSUME NEW q \in Correct, NEW n \in WrongBatches
                PROVE  Voters(q, n)' \subseteq Voters(q, n) \cup Faulty
    BY DEF FaultyCounted
  <2>1. CASE q = r /\ n \in K
    BY <1>0, <1>1, <1>2, <2>1 DEF Voters
  <2>2. CASE ~(q = r /\ n \in K)
    BY <1>0, <1>1, <2>2 DEF Voters, Correct
  <2>. QED BY <2>1, <2>2
<1>. QED BY <1>3, <1>4, <1>5 DEF ValidStep

LEMMA PrePrepareValid ==
    ASSUME TypeOK, ValidInv, NEW r \in Correct, NEW m \in Deliverable(r),
           processPrePrepare(r, m)
    PROVE  ValidStep
<1>1. r \in Replicas /\ m \in PrePrepareMsg /\ m.type = "PREPREPARE"
  BY DeliverableType DEF Correct, processPrePrepare
<1>2. \A q \in Correct : Consume(r, m)[q] \subseteq network[q]
  BY <1>1, ConsumeShrinks DEF Correct
<1>3. m \in network[r]
  BY <1>1, FaultyVotesAssumption DEF Deliverable, PrepareMsg, CommitMsg
<1>4. CASE enqueuePrePrepare(r, m)
  <2>1. /\ UNCHANGED <<prepares, preparesWaiting, commits, commitsWaiting,
                       orderedSent, outOfOrder>>
        /\ network' = Consume(r, m)
    BY <1>4 DEF enqueuePrePrepare, voteVars, orderVars
  <2>2. \/ /\ pendingPrevPP' = [pendingPrevPP EXCEPT ![r] = @ \cup {m}]
           /\ UNCHANGED pendingFinReqs
        \/ /\ pendingFinReqs' = [pendingFinReqs EXCEPT ![r] = @ \cup {m}]
           /\ UNCHANGED pendingPrevPP
    BY <1>4, Zenon DEF enqueuePrePrepare
  <2>3. \A q \in Correct : /\ pendingPrevPP'[q] \subseteq pendingPrevPP[q] \cup network[q]
                           /\ pendingFinReqs'[q] \subseteq pendingFinReqs[q] \cup network[q]
    <3>1. DOMAIN pendingPrevPP = Replicas /\ DOMAIN pendingFinReqs = Replicas
      BY DEF TypeOK
    <3>. QED BY <1>1, <1>3, <2>2, <3>1 DEF Correct
  <2>. QED BY <1>2, <2>1, <2>3, QuietValid DEF Held
<1>5. CASE rejectPrePrepare(r, m)
  <2>1. /\ UNCHANGED <<prepares, preparesWaiting, commits, commitsWaiting,
                       orderedSent, outOfOrder, pendingFinReqs, pendingPrevPP>>
        /\ network' = Consume(r, m)
    BY <1>5 DEF rejectPrePrepare, voteVars, orderVars, pendingVars
  <2>. QED BY <1>2, <2>1, QuietValid DEF Held
<1>6. CASE acceptPrePrepare(r, m)
  <2>. DEFINE pp == [n \in {m.seq} |-> m.batch]
  <2>1. m.seq \in SeqNos /\ m.batch \in Batches
    BY <1>1 DEF PrePrepareMsg
  <2>2. m.seq <= m.seq /\ (m.seq)..(m.seq) = {m.seq}
    BY <2>1, BoundsAssumption DEF SeqNos
  <2>3. pp \in [(m.seq)..(m.seq) -> Batches]
    BY <2>1, <2>2
  <2>4. addToPrePrepares(r, m.seq, m.seq, pp, Consume(r, m))
    BY <1>6 DEF acceptPrePrepare
  <2>5. Consume(r, m) \in [Replicas -> SUBSET Message]
    BY <1>1, ConsumeType
  <2>6. participating[r] => m.seq \notin WrongBatches
    BY <1>1, <1>6, DeliveredHonest DEF acceptPrePrepare, Honest
  <2>7. \A q \in Correct : /\ pendingFinReqs'[q] \subseteq Held(q)
                           /\ pendingPrevPP'[q] \subseteq Held(q)
    BY <1>6 DEF acceptPrePrepare, pendingVars, Held
  <2>8. \A n \in (m.seq)..(m.seq) : participating[r] => n \notin WrongBatches
    BY <2>2, <2>6
  <2>. HIDE DEF pp
  <2>. QED BY <1>2, <2>1, <2>2, <2>3, <2>4, <2>5, <2>7, <2>8, AddToPrePreparesValid
<1>. QED BY <1>4, <1>5, <1>6 DEF processPrePrepare

LEMMA DequeueValid ==
    ASSUME TypeOK, ValidInv, NEW r \in Correct, dequeuePrePrepares(r)
    PROVE  ValidStep
<1>. DEFINE ready == {m \in pendingFinReqs[r] : m.batch.reqs \subseteq finalised[r]}
            waiting == pendingPrevPP[r] \cup ready
<1>1. pendingFinReqs' = [pendingFinReqs EXCEPT ![r] = @ \ ready]
  BY DEF dequeuePrePrepares
<1>2. PICK W \in SUBSET waiting : pendingPrevPP' = [pendingPrevPP EXCEPT ![r] = W]
  BY DEF dequeuePrePrepares
<1>3. waiting \subseteq pendingPrevPP[r] \cup pendingFinReqs[r]
  OBVIOUS
<1>. HIDE DEF ready, waiting
<1>4. \A q \in Correct : /\ pendingFinReqs'[q] \subseteq Held(q)
                         /\ pendingPrevPP'[q] \subseteq Held(q)
  BY <1>1, <1>2, <1>3 DEF TypeOK, Correct, Held
<1>5. CASE UNCHANGED <<requestQueue, prePrepares, voteVars, orderVars,
                       stashedSyncing, netVars>>
  <2>1. UNCHANGED <<prepares, preparesWaiting, commits, commitsWaiting, orderedSent,
                    outOfOrder, network>>
    BY <1>5 DEF voteVars, orderVars, netVars
  <2>. QED BY <1>4, <2>1, QuietValid DEF Held
<1>6. ASSUME NEW lo \in SeqNos, NEW top \in SeqNos, lo <= top,
             NEW pp \in [lo..top -> Batches],
             addToPrePrepares(r, lo, top, pp, network),
             \A n \in lo..top : \E m \in pendingPrevPP[r] \cup pendingFinReqs[r] :
                m \in PrePrepareMsg /\ m.seq = n /\ m.batch.ok
      PROVE  ValidStep
  <2>1. network \in [Replicas -> SUBSET Message]
    BY DEF TypeOK
  <2>2. \A n \in lo..top : n \notin WrongBatches
    BY <1>6 DEF ValidInv, Held, Honest, PrePrepareMsg
  <2>. QED BY <1>4, <1>6, <2>1, <2>2, AddToPrePreparesValid
<1>. QED BY <1>5, <1>6, DequeueTakes

LEMMA PrepareValid ==
    ASSUME TypeOK, ValidInv, NEW r \in Correct, NEW m \in Deliverable(r),
           processPrepare(r, m)
    PROVE  ValidStep
<1>1. r \in Replicas /\ m \in PrepareMsg /\ m.type = "PREPARE"
  BY DeliverableType DEF Correct, processPrepare
<1>2. m.seq \in SeqNos /\ m.from \in Replicas
  BY <1>1 DEF PrepareMsg
<1>3. m.seq \in WrongBatches => m.from \in Faulty
  BY <1>1, <1>2, DeliveredHonest DEF Honest, Correct
<1>4. \A q \in Correct : Consume(r, m)[q] \subseteq network[q]
  BY <1>1, ConsumeShrinks DEF Correct
<1>5. UNCHANGED <<pendingFinReqs, pendingPrevPP, commitsWaiting>>
  BY DEF processPrepare, discardPrepare, enqueuePrepare, addToPrepares, pendingVars,
     voteVars
<1>6. CASE discardPrepare(r, m)
  <2>1. /\ UNCHANGED <<prepares, preparesWaiting, commits, commitsWaiting,
                       orderedSent, outOfOrder>>
        /\ network' = Consume(r, m)
    BY <1>6 DEF discardPrepare, voteVars, orderVars
  <2>. QED BY <1>4, <1>5, <2>1, QuietValid DEF Held
<1>7. CASE enqueuePrepare(r, m)
  <2>1. /\ preparesWaiting' = [preparesWaiting EXCEPT ![r][m.seq] =
              @ \cup {[from |-> m.from, batch |-> m.batch]}]
        /\ UNCHANGED <<prepares, commits, orderedSent, outOfOrder>>
        /\ network' = Consume(r, m)
    BY <1>7 DEF enqueuePrepare, orderVars
  <2>2. \A q \in Replicas, n \in SeqNos : \A v \in preparesWaiting'[q][n] :
           v \in preparesWaiting[q][n] \/ (n = m.seq /\ v.from = m.from)
    BY <1>1, <1>2, <2>1 DEF TypeOK
  <2>3. FaultyCounted
    BY <1>3, <1>5, <2>1, <2>2, BoundsAssumption DEF FaultyCounted, Voters, Correct, SeqNos
  <2>. QED BY <1>4, <1>5, <2>1, <2>3 DEF ValidStep, HonestSent, ValidOrdered, Held
<1>8. CASE addToPrepares(r, m)
  <2>. DEFINE n == m.seq
              votes == prepares[r][n] \cup {m.from}
              commit == [type |-> "COMMIT", from |-> r, seq |-> n, stamp |-> clock[r]]
  <2>1. /\ prepares' = [prepares EXCEPT ![r][n] = votes]
        /\ UNCHANGED preparesWaiting
    BY <1>8 DEF addToPrepares
  <2>2. canCommit(r, n, votes) => n \notin WrongBatches
    <3>. SUFFICES ASSUME n \in WrongBatches PROVE ~canCommit(r, n, votes)
      OBVIOUS
    <3>1. votes \subseteq Faulty
      BY <1>3 DEF ValidInv, Voters
    <3>. QED BY <3>1, FaultyAreFew DEF canCommit
  <2>3. CASE canCommit(r, n, votes)
    <3>1. /\ commits' = [commits EXCEPT ![r][n] = @ \cup {r}]
          /\ network' = Broadcast(r, Consume(r, m), {commit})
          /\ tryOrder(r, n, commits[r][n] \cup {r})
      BY <1>8, <2>3 DEF addToPrepares
    <3>2. n \notin WrongBatches /\ Honest(commit)
      BY <2>2, <2>3 DEF Honest
    <3>. HIDE DEF commit, votes
    <3>3. \A q \in Correct : network'[q] \subseteq network[q] \cup {commit}
      BY <1>4, <3>1 DEF Broadcast, Correct
    <3>4. HonestSent
      BY <1>5, <3>2, <3>3 DEF HonestSent, Held
    <3>5. \A q \in Replicas, k \in SeqNos : k # n =>
             prepares'[q][k] = prepares[q][k] /\ commits'[q][k] = commits[q][k]
      BY <1>1, <1>2, <2>1, <3>1 DEF TypeOK
    <3>6. FaultyCounted
      BY <1>5, <2>1, <3>2, <3>5, BoundsAssumption DEF FaultyCounted, Voters, Correct, SeqNos
    <3>7. ValidOrdered
      BY <1>1, <1>2, <3>1, <3>2, TryOrderVotes DEF ValidOrdered, Correct
    <3>. QED BY <3>4, <3>6, <3>7 DEF ValidStep
  <2>4. CASE ~canCommit(r, n, votes)
    <3>1. network' = Consume(r, m) /\ UNCHANGED <<commits, orderedSent, outOfOrder>>
      BY <1>8, <2>4 DEF addToPrepares, orderVars
    <3>2. \A q \in Replicas, k \in SeqNos :
             prepares'[q][k] \subseteq
                prepares[q][k] \cup IF k = m.seq THEN {m.from} ELSE {}
      BY <1>1, <1>2, <2>1 DEF TypeOK
    <3>3. FaultyCounted
      BY <1>3, <1>5, <2>1, <3>1, <3>2, BoundsAssumption
         DEF FaultyCounted, Voters, Correct, SeqNos
    <3>. QED BY <1>4, <1>5, <3>1, <3>3 DEF ValidStep, HonestSent, ValidOrdered, Held
  <2>. QED BY <2>3, <2>4
<1>. QED BY <1>6, <1>7, <1>8 DEF processPrepare

LEMMA CommitValid ==
    ASSUME TypeOK, ValidInv, NEW r \in Correct, NEW m \in Deliverable(r),
           processCommit(r, m)
    PROVE  ValidStep
<1>1. r \in Replicas /\ m \in CommitMsg /\ m.type = "COMMIT"
  BY DeliverableType DEF Correct, processCommit
<1>2. m.seq \in SeqNos /\ m.from \in Replicas
  BY <1>1 DEF CommitMsg
<1>3. m.seq \in WrongBatches => m.from \in Faulty
  BY <1>1, <1>2, DeliveredHonest DEF Honest, Correct
<1>4. \A q \in Correct : Held(q)' \subseteq Held(q)
  <2>1. network' = Consume(r, m) /\ UNCHANGED <<pendingFinReqs, pendingPrevPP>>
    BY DEF processCommit, enqueueCommit, discardCommit, addToCommits, pendingVars
  <2>. QED BY <1>1, <2>1, ConsumeShrinks DEF Held, Correct
<1>5. UNCHANGED <<prepares, preparesWaiting>>
  BY DEF processCommit, enqueueCommit, discardCommit, addToCommits, voteVars
<1>6. CASE discardCommit(r, m)
  <2>1. UNCHANGED <<commits, commitsWaiting, orderedSent, outOfOrder>>
    BY <1>6 DEF discardCommit, voteVars, orderVars
  <2>. QED BY <1>4, <1>5, <2>1, QuietValid
<1>7. CASE enqueueCommit(r, m)
  <2>1. /\ commitsWaiting' = [commitsWaiting EXCEPT ![r][m.seq] = @ \cup {m.from}]
        /\ UNCHANGED <<commits, orderedSent, outOfOrder>>
    BY <1>7 DEF enqueueCommit, orderVars
  <2>2. \A q \in Replicas, n \in SeqNos : \A s \in commitsWaiting'[q][n] :
           s \in commitsWaiting[q][n] \/ (n = m.seq /\ s = m.from)
    BY <1>1, <1>2, <2>1 DEF TypeOK
  <2>3. FaultyCounted
    BY <1>3, <1>5, <2>1, <2>2, BoundsAssumption DEF FaultyCounted, Voters, Correct, SeqNos
  <2>. QED BY <1>4, <2>1, <2>3 DEF ValidStep, HonestSent, ValidOrdered
<1>8. CASE addToCommits(r, m)
  <2>. DEFINE votes == commits[r][m.seq] \cup {m.from}
  <2>1. /\ commits' = [commits EXCEPT ![r][m.seq] = votes]
        /\ tryOrder(r, m.seq, votes)
        /\ UNCHANGED commitsWaiting
    BY <1>8 DEF addToCommits
  <2>2. m.seq \in WrongBatches => ~(Cardinality(votes) >= 2 * f + 1)
    <3>. SUFFICES ASSUME m.seq \in WrongBatches PROVE ~(Cardinality(votes) >= 2 * f + 1)
      OBVIOUS
    <3>1. votes \subseteq Faulty
      BY <1>3 DEF ValidInv, Voters
    <3>. HIDE DEF votes
    <3>. QED BY <3>1, FaultyAreFew
  <2>3. \A q \in Replicas, n \in SeqNos : \A s \in commits'[q][n] :
           s \in commits[q][n] \/ (n = m.seq /\ s = m.from)
    BY <1>1, <1>2, <2>1 DEF TypeOK
  <2>. HIDE DEF votes
  <2>4. ValidOrdered
    BY <1>1, <1>2, <2>1, <2>2, TryOrderVotes DEF ValidOrdered, Correct
  <2>5. FaultyCounted
    BY <1>3, <1>5, <2>1, <2>3, BoundsAssumption DEF FaultyCounted, Voters, Correct, SeqNos
  <2>. QED BY <1>4, <2>4, <2>5 DEF ValidStep, HonestSent
<1>. QED BY <1>6, <1>7, <1>8 DEF processCommit

\* One step of the specification keeps ValidInv.
LEMMA ValidInvStep == TypeOK /\ ValidInv /\ [Next]_vars => ValidInv'
<1>. SUFFICES ASSUME TypeOK, ValidInv, [Next]_vars PROVE ValidInv'
  OBVIOUS
<1>. SUFFICES ValidStep
  BY ValidStepKeeps
<1>1. CASE Propose
  <2>1. PICK S \in SUBSET Requests : send3PCBatch(S)
    BY <1>1 DEF Propose
  <2>. DEFINE n == LastPrePrepare(Primary) + 1
              m == [type |-> "PREPREPARE", from |-> Primary, seq |-> n,
                    batch |-> [reqs |-> S, ok |-> n \notin WrongBatches],
                    stamp |-> clock[Primary]]
  <2>2. /\ network' = Broadcast(Primary, network, {m})
        /\ UNCHANGED <<prepares, preparesWaiting, commits, commitsWaiting, orderedSent,
                       outOfOrder, pendingFinReqs, pendingPrevPP>>
    BY <2>1 DEF send3PCBatch, voteVars, orderVars, pendingVars
  <2>3. Honest(m)
    <3>1. m.seq = n /\ m.batch.ok = (n \notin WrongBatches) /\ m.type = "PREPREPARE"
      OBVIOUS
    <3>. HIDE DEF m, n
    <3>. QED BY <3>1 DEF Honest
  <2>. HIDE DEF m
  <2>4. \A q \in Correct : Held(q)' \subseteq Held(q) \cup {m}
    BY <2>2 DEF Broadcast, Correct, Held
  <2>. QED BY <2>2, <2>3, <2>4
           DEF ValidStep, HonestSent, FaultyCounted, ValidOrdered, Voters
<1>2. ASSUME NEW r \in Correct, ReplicaStep(r) PROVE ValidStep
  <2>1. CASE \E s \in Replicas : ReceiveFrom(r, s)
    BY <2>1, PrePrepareValid, PrepareValid, CommitValid DEF ReceiveFrom
  <2>2. CASE ReceiveKey(r) \/ Finalise(r) \/ StartCatchUp(r) \/ CaughtUp(r)
    <3>1. UNCHANGED <<prepares, preparesWaiting, commits, commitsWaiting, orderedSent,
                      outOfOrder, network, pendingFinReqs, pendingPrevPP>>
      BY <2>2 DEF ReceiveKey, Finalise, StartCatchUp, CaughtUp, readyFor3PC,
         FinaliseRequest, preLedgerCatchUp, allLedgersCaughtUp, voteVars, orderVars,
         netVars, pendingVars
    <3>. QED BY <3>1, QuietValid DEF Held
  <2>3. CASE Dequeue(r)
    BY <2>3, DequeueValid DEF Dequeue
  <2>4. CASE Reorder(r)
    <3>1. PICK hi \in 0..MaxSeq : process_stashed_out_of_order_commits(r, hi)
      BY <2>4 DEF Reorder
    <3>2. UNCHANGED <<prepares, preparesWaiting, commits, commitsWaiting, network,
                      pendingFinReqs, pendingPrevPP>>
      BY <3>1 DEF process_stashed_out_of_order_commits, voteVars, netVars, pendingVars
    <3>3. ValidOrdered
      BY <3>1, ReorderTakes DEF ValidOrdered
    <3>. QED BY <3>2, <3>3 DEF ValidStep, HonestSent, FaultyCounted, Voters, Held
  <2>5. CASE Drop(r)
    <3>1. PICK m : Lose(r, m)
      BY <2>5 DEF Drop
    <3>2. /\ UNCHANGED <<prepares, preparesWaiting, commits, commitsWaiting, orderedSent,
                         outOfOrder, pendingFinReqs, pendingPrevPP>>
          /\ network' = Consume(r, m)
      BY <3>1 DEF Lose, voteVars, orderVars, pendingVars
    <3>. QED BY <3>2, ConsumeShrinks, QuietValid DEF Correct, Held
  <2>. QED BY <1>2, <2>1, <2>2, <2>3, <2>4, <2>5 DEF ReplicaStep
<1>3. CASE UNCHANGED vars
  BY <1>3, QuietValid DEF vars, voteVars, orderVars, netVars, pendingVars, Held
<1>. QED BY <1>1, <1>2, <1>3 DEF Next

LEMMA ValidInvInit == Init => ValidInv
<1>. SUFFICES ASSUME Init, NEW r \in Correct
              PROVE  /\ Held(r) = {} /\ \A n \in WrongBatches : Voters(r, n) = {}
                     /\ Elements(orderedSent[r]) = {} /\ outOfOrder[r] = {}
  BY DEF ValidInv
<1>1. WrongBatches \subseteq SeqNos /\ r \in Replicas
  BY BoundsAssumption DEF SeqNos, Correct
<1>. QED BY <1>1, EmptySeq DEF Init, Held, Voters, Elements

\* Although a syncing replica takes PRE-PREPAREs unseen, counts the votes of
\* others for them and orders by COMMITs alone, no correct replica ever hands a
\* batch to its node that a validating backup refuses.
THEOREM NoInvalidOrdered == Spec => []InvalidNeverOrdered
<1>1. Spec => [](TypeOK /\ ValidInv)
  <2>1. Init => TypeOK /\ ValidInv
    BY TypeInit, ValidInvInit
  <2>2. TypeOK /\ ValidInv /\ [Next]_vars => (TypeOK /\ ValidInv)'
    BY TypeStep, ValidInvStep
  <2>. QED BY <2>1, <2>2, PTL DEF Spec
<1>2. ValidInv => InvalidNeverOrdered
  BY DEF ValidInv, InvalidNeverOrdered
<1>. QED BY <1>1, <1>2, PTL

-----------------------------------------------------------------------------
(***************************************************************************)
(* ThreePhase implements TotalOrder: as long as no node falls out of sync, *)
(* the batches every correct replica hands to its node are the primary's,  *)
(* in the primary's order and without gap, for every pool size, every set  *)
(* of at most f faulty backups, every loss of messages and every bound.    *)
(***************************************************************************)

(* The inductive invariant *)

\* No node is out of sync and nothing was ordered by catch-up.
InSync(r) == participating[r] /\ ordered[r] = orderedSent[r]

\* Batches are ordered one after the other from the first on.
InOrder(r) == \A i \in DOMAIN orderedSent[r] : orderedSent[r][i] = i

\* r holds a prefix of the batches of the primary.
HoldsPrefix(r) ==
    \A n \in SeqNos : HasPrePrepare(r, n) =>
        /\ \A k \in 1..n : HasPrePrepare(r, k)
        /\ prePrepares[r][n] = prePrepares[Primary][n]

\* PRE-PREPAREs on their way and those that wait tell what the primary proposed.
FromPrimary(m) ==
    m.type = "PREPREPARE" => m.batch = prePrepares[Primary][m.seq]

LogInv ==
    \A r \in Correct :
        /\ InSync(r) /\ InOrder(r) /\ HoldsPrefix(r)
        /\ \A m \in Held(r) : FromPrimary(m)

-----------------------------------------------------------------------------
(* What the invariant says of one replica *)

\* The primary follows the protocol.
LEMMA PrimaryCorrect == Primary \in Correct /\ Correct \subseteq Replicas
BY ReplicasAssumption DEF Correct

\* The batches a replica holds are the first ones.
LEMMA HeldBatches ==
    ASSUME TypeOK, LogInv, NEW r \in Correct
    PROVE  \A n \in SeqNos : HasPrePrepare(r, n) <=> n <= LastPrePrepare(r)
<1>. DEFINE l == LastPrePrepare(r)
<1>1. /\ l \in 0..MaxSeq
      /\ l = 0 \/ HasPrePrepare(r, l)
      /\ \A m \in SeqNos : HasPrePrepare(r, m) => m <= l
  BY LastType, PrimaryCorrect
<1>. HIDE DEF l
<1>2. ASSUME NEW n \in SeqNos, n <= l PROVE HasPrePrepare(r, n)
  <2>1. l \in SeqNos /\ HasPrePrepare(r, l) /\ n \in 1..l
    BY <1>1, <1>2, BoundsAssumption DEF SeqNos
  <2>. QED BY <2>1 DEF LogInv, HoldsPrefix
<1>. QED BY <1>1, <1>2 DEF l

\* The batches a replica has ordered are the first ones it holds.
LEMMA OrderedBatches ==
    ASSUME TypeOK, OnceInv, LogInv, NEW r \in Correct
    PROVE  /\ Len(ordered[r]) \in 0..LastPrePrepare(r)
           /\ DOMAIN orderedSent[r] = 1..Len(ordered[r])
           /\ \A n \in Int : IsOrdered(r, n) <=> n \in 1..Len(ordered[r])
           /\ LastSeqNo(r) = LastPrePrepare(r)
<1>. DEFINE L == Len(ordered[r])
            l == LastPrePrepare(r)
<1>1. r \in Replicas /\ ordered[r] \in Seq(SeqNos) /\ ordered[r] = orderedSent[r]
  BY PrimaryCorrect DEF TypeOK, LogInv, InSync
<1>2. L \in Nat /\ DOMAIN ordered[r] = 1..L /\ \A i \in 1..L : ordered[r][i] = i
  BY <1>1, LenProperties DEF LogInv, InOrder
<1>3. \A n : IsOrdered(r, n) <=> n \in 1..L
  BY <1>2 DEF IsOrdered, Elements
<1>4. l \in 0..MaxSeq /\ MaxSeq \in Nat
  BY <1>1, LastType, BoundsAssumption
<1>5. L <= l
  <2>1. CASE L = 0
    BY <1>4, <2>1
  <2>2. CASE L # 0
    <3>1. L \in Elements(orderedSent[r])
      BY <1>1, <1>2, <1>3, <2>2 DEF IsOrdered
    <3>2. HasPrePrepare(r, L)
      BY <3>1 DEF OnceInv
    <3>3. L \in SeqNos
      BY <1>1, <1>2, <2>2, ElementOfSeq
    <3>. QED BY <1>1, <3>2, <3>3, LastType
  <2>. QED BY <2>1, <2>2
<1>6. LastOrdered(r) \in Elements(ordered[r]) \cup {0}
  <2>1. \E n \in 0..MaxSeq :
            /\ n \in Elements(ordered[r]) \cup {0}
            /\ \A m \in Elements(ordered[r]) : m <= n
    <3>1. L \in 0..MaxSeq
      BY <1>2, <1>4, <1>5
    <3>2. Elements(ordered[r]) = 1..L
      BY <1>2 DEF Elements
    <3>. HIDE DEF L
    <3>3. L \in Elements(ordered[r]) \cup {0} /\ \A m \in Elements(ordered[r]) : m <= L
      BY <3>1, <3>2
    <3>. QED BY <3>1, <3>3
  <2>. QED BY <2>1 DEF LastOrdered
<1>7. LastSeqNo(r) = l
  <2>1. LastOrdered(r) = 0 \/ LastOrdered(r) \in 1..L
    BY <1>3, <1>6 DEF IsOrdered
  <2>. HIDE DEF l, L
  <2>2. LastOrdered(r) <= l /\ LastOrdered(r) \in Nat
    BY <1>2, <1>4, <1>5, <2>1
  <2>. QED BY <1>4, <2>2 DEF LastSeqNo, l
<1>. QED BY <1>1, <1>2, <1>3, <1>4, <1>5, <1>7

\* all_prev_ordered of a batch whose predecessors are all held says that exactly
\* these are ordered: an earlier batch is never passed over.
LEMMA PrevOrdered ==
    ASSUME TypeOK, OnceInv, LogInv, NEW r \in Correct, NEW n \in SeqNos,
           n <= LastPrePrepare(r) + 1, all_prev_ordered(r, n), ~IsOrdered(r, n)
    PROVE  n = Len(ordered[r]) + 1
<1>. DEFINE L == Len(ordered[r])
<1>1. /\ L \in Nat /\ \A k \in Int : IsOrdered(r, k) <=> k \in 1..L
      /\ DOMAIN orderedSent[r] = 1..L
      /\ ordered[r] = orderedSent[r] /\ \A i \in 1..L : ordered[r][i] = i
      /\ LastPrePrepare(r) \in 0..MaxSeq
  BY OrderedBatches, LastType, PrimaryCorrect DEF LogInv, InSync, InOrder
<1>2. n \in Nat /\ n >= 1 /\ n \notin 1..L
  BY <1>1, BoundsAssumption DEF SeqNos
<1>3. CASE ordered[r] # <<>> /\ ordered[r][L] = n - 1
  <2>1. L \in 1..L
    BY <1>1, <1>3, EmptySeq, LenProperties, PrimaryCorrect DEF TypeOK
  <2>. QED BY <1>1, <1>2, <1>3, <2>1
<1>4. CASE \A k \in KnownKeys(r) : k < n => IsOrdered(r, k)
  <2>1. ASSUME n # 1 PROVE n - 1 \in 1..L
    <3>1. n - 1 \in SeqNos /\ n - 1 <= LastPrePrepare(r)
      BY <1>1, <1>2, <2>1, BoundsAssumption DEF SeqNos
    <3>2. n - 1 \in KnownKeys(r)
      BY <3>1, HeldBatches DEF KnownKeys
    <3>. QED BY <1>1, <1>2, <1>4, <3>1, <3>2
  <2>. QED BY <1>1, <1>2, <2>1
<1>. QED BY <1>3, <1>4 DEF all_prev_ordered

-----------------------------------------------------------------------------
(* What a step of one replica does *)

\* The primary's batches stay, and so do those of the other replicas and what
\* these have ordered.
OthersKept(r) ==
    /\ prePrepares'[Primary] = prePrepares[Primary]
    /\ \A q \in Correct \ {r} :
          /\ prePrepares'[q] = prePrepares[q]
          /\ ordered'[q] = ordered[q]
          /\ orderedSent'[q] = orderedSent[q]

\* r takes the next batches of the primary.
Takes(r) ==
    \A n \in SeqNos :
        \/ prePrepares'[r][n] = prePrepares[r][n]
        \/ /\ prePrepares'[r][n] = prePrepares[Primary][n]
           /\ ~HasPrePrepare(r, n)
           /\ \A k \in 1..n : prePrepares'[r][k] # NoBatch

\* r orders the next ones of those it has.
Orders(r) ==
    \/ ordered'[r] = ordered[r] /\ orderedSent'[r] = orderedSent[r]
    \/ \E hi \in Int :
          /\ hi >= Len(ordered[r]) /\ hi <= MaxSeq
          /\ ordered'[r] = ordered[r] \o Run(Len(ordered[r]) + 1, hi)
          /\ orderedSent'[r] = orderedSent[r] \o Run(Len(ordered[r]) + 1, hi)

\* No PRE-PREPARE comes from a backup.
NoneProposed ==
    \A q \in Correct : \A m \in Held(q)' : m \in Held(q) \/ m.type # "PREPREPARE"

LogStep(r) ==
    /\ OthersKept(r) /\ Takes(r) /\ Orders(r) /\ NoneProposed
    /\ participating' = participating

\* A run that goes on where the sequence 1, .., Len(s) ends.
LEMMA RunGoesOn ==
    ASSUME NEW S, NEW s \in Seq(S), \A i \in DOMAIN s : s[i] = i,
           NEW hi \in Int, hi >= Len(s), 1..hi \subseteq S
    PROVE  LET t == s \o Run(Len(s) + 1, hi)
           IN  Len(t) = hi /\ \A i \in DOMAIN t : t[i] = i
<1>. DEFINE L == Len(s)
            u == Run(L + 1, hi)
<1>1. L \in Nat /\ DOMAIN s = 1..L
  BY LenProperties
<1>2. /\ u \in Seq(S) /\ hi - (L + 1) + 1 \in Nat
      /\ DOMAIN u = 1..(hi - (L + 1) + 1)
      /\ \A i \in 1..(hi - (L + 1) + 1) : u[i] = L + 1 + i - 1
  BY <1>1, RunType DEF Run
<1>. HIDE DEF u
<1>3. Len(u) = hi - L
  BY <1>1, <1>2, LenProperties
<1>4. /\ Len(s \o u) = L + Len(u)
      /\ s \o u \in Seq(S)
      /\ \A i \in 1 .. L + Len(u) : (s \o u)[i] = IF i <= L THEN s[i] ELSE u[i - L]
  BY <1>2, ConcatProperties
<1>5. Len(s \o u) = hi /\ DOMAIN (s \o u) = 1..hi
  BY <1>1, <1>3, <1>4, LenProperties
<1>6. ASSUME NEW i \in 1..hi PROVE (s \o u)[i] = i
  <2>1. CASE i <= L
    BY <1>1, <1>3, <1>4, <2>1
  <2>2. CASE ~(i <= L)
    <3>1. i - L \in 1..(hi - (L + 1) + 1)
      BY <1>1, <2>2
    <3>. QED BY <1>1, <1>2, <1>3, <1>4, <2>2, <3>1
  <2>. QED BY <2>1, <2>2
<1>. QED BY <1>5, <1>6 DEF u

LEMMA LogStepKeeps ==
    ASSUME TypeOK, LogInv, NEW r \in Correct, LogStep(r)
    PROVE  LogInv'
<1>. SUFFICES ASSUME NEW q \in Correct
              PROVE  /\ participating'[q] /\ ordered'[q] = orderedSent'[q]
                     /\ \A i \in DOMAIN orderedSent'[q] : orderedSent'[q][i] = i
                     /\ HoldsPrefix(q)' /\ \A m \in Held(q)' : FromPrimary(m)'
  BY DEF LogInv, InSync, InOrder, Correct, Held
<1>0. /\ r \in Replicas /\ q \in Replicas
      /\ prePrepares'[Primary] = prePrepares[Primary]
  BY PrimaryCorrect DEF LogStep, OthersKept
<1>1. /\ participating[q] /\ ordered[q] = orderedSent[q]
      /\ \A i \in DOMAIN orderedSent[q] : orderedSent[q][i] = i
      /\ HoldsPrefix(q) /\ \A m \in Held(q) : FromPrimary(m)
  BY DEF LogInv, InSync, InOrder
<1>2. participating'[q]
  BY <1>1 DEF LogStep
<1>3. \A m \in Held(q)' : FromPrimary(m)'
  <2>1. \A m \in Held(q)' : m \in Held(q) \/ m.type # "PREPREPARE"
    BY DEF LogStep, NoneProposed
  <2>. QED BY <1>0, <1>1, <2>1 DEF FromPrimary
<1>4. HoldsPrefix(q)'
  <2>1. ASSUME NEW n \in SeqNos, prePrepares'[q][n] # NoBatch
        PROVE  /\ \A k \in 1..n : prePrepares'[q][k] # NoBatch
               /\ prePrepares'[q][n] = prePrepares[Primary][n]
    <3>1. CASE prePrepares'[q][n] = prePrepares[q][n]
      <4>1. HasPrePrepare(q, n)
        BY <2>1, <3>1 DEF HasPrePrepare
      <4>2. /\ \A k \in 1..n : HasPrePrepare(q, k)
            /\ prePrepares[q][n] = prePrepares[Primary][n]
        BY <1>1, <4>1 DEF HoldsPrefix
      <4>3. \A k \in 1..n : k \in SeqNos
        BY BoundsAssumption DEF SeqNos
      <4>4. \A k \in 1..n : prePrepares'[q][k] = prePrepares[q][k]
        BY <4>2, <4>3 DEF LogStep, OthersKept, Takes
      <4>. QED BY <3>1, <4>2, <4>4 DEF HasPrePrepare
    <3>2. CASE prePrepares'[q][n] # prePrepares[q][n]
      <4>1. q = r
        BY <3>2 DEF LogStep, OthersKept
      <4>. QED BY <3>2, <4>1 DEF LogStep, Takes
    <3>. QED BY <3>1, <3>2
  <2>. QED BY <1>0, <2>1 DEF HoldsPrefix, HasPrePrepare, SeqNos, NoBatch
<1>5. /\ ordered'[q] = orderedSent'[q]
      /\ \A i \in DOMAIN orderedSent'[q] : orderedSent'[q][i] = i
  <2>1. CASE ordered'[q] = ordered[q] /\ orderedSent'[q] = orderedSent[q]
    BY <1>1, <2>1
  <2>2. CASE ~(ordered'[q] = ordered[q] /\ orderedSent'[q] = orderedSent[q])
    <3>1. q = r
      BY <2>2 DEF LogStep, OthersKept
    <3>2. PICK hi \in Int :
            /\ hi >= Len(ordered[q]) /\ hi <= MaxSeq
            /\ ordered'[q] = ordered[q] \o Run(Len(ordered[q]) + 1, hi)
            /\ orderedSent'[q] = orderedSent[q] \o Run(Len(ordered[q]) + 1, hi)
      BY <2>2, <3>1 DEF LogStep, Orders
    <3>3. ordered[q] \in Seq(SeqNos) /\ 1..hi \subseteq SeqNos
      BY <1>0, <3>2, BoundsAssumption DEF TypeOK, SeqNos
    <3>. DEFINE s == ordered[q]
                t == s \o Run(Len(s) + 1, hi)
    <3>4. /\ s \in Seq(SeqNos) /\ \A i \in DOMAIN s : s[i] = i
          /\ ordered'[q] = t /\ orderedSent'[q] = t /\ hi >= Len(s)
      BY <1>1, <3>2, <3>3
    <3>. HIDE DEF s
    <3>5. \A i \in DOMAIN t : t[i] = i
      BY <3>3, <3>4, RunGoesOn
    <3>. QED BY <3>4, <3>5
  <2>. QED BY <2>1, <2>2
<1>. QED BY <1>2, <1>3, <1>4, <1>5

\* A step that orders nothing and takes no PRE-PREPARE.
LEMMA QuietLog ==
    ASSUME NoneProposed, NEW r \in Correct,
           UNCHANGED <<prePrepares, ordered, orderedSent, participating>>
    PROVE  LogStep(r)
BY DEF LogStep, OthersKept, Takes, Orders

\* doOrder of the next batches.
LEMMA DoOrderLog ==
    ASSUME TypeOK, LogInv, NEW r \in Correct, NEW lo \in Int, NEW hi \in Int, NEW pps,
           doOrder(r, lo, hi, pps), hi <= MaxSeq, hi >= lo - 1,
           hi >= lo => lo = Len(ordered[r]) + 1
    PROVE  /\ Orders(r)
           /\ \A q \in Correct \ {r} :
                 ordered'[q] = ordered[q] /\ orderedSent'[q] = orderedSent[q]
<1>1. r \in Replicas /\ ordered[r] \in Seq(SeqNos) /\ ordered[r] = orderedSent[r]
  BY PrimaryCorrect DEF TypeOK, LogInv, InSync
<1>2. /\ ordered'[r] = ordered[r] \o Run(lo, hi)
      /\ orderedSent'[r] = orderedSent[r] \o Run(lo, hi)
      /\ \A q \in Replicas : q # r => /\ ordered'[q] = ordered[q]
                                      /\ orderedSent'[q] = orderedSent[q]
  BY <1>1 DEF TypeOK, doOrder
<1>3. CASE hi >= lo
  <2>1. Len(ordered[r]) \in Nat /\ hi >= Len(ordered[r])
    BY <1>1, <1>3, LenProperties
  <2>. QED BY <1>2, <1>3, <2>1, PrimaryCorrect DEF Orders
<1>4. CASE ~(hi >= lo)
  <2>1. hi - lo + 1 = 0
    BY <1>4
  <2>2. Run(lo, hi) = <<>>
    <3>1. Run(lo, hi) \in Seq({}) /\ Elements(Run(lo, hi)) = {}
      <4>1. lo..hi = {}
        BY <1>4
      <4>. QED BY <4>1, RunType
    <3>2. \A s \in Seq({}) : s = <<>>
      BY EmptySeq, LenProperties
    <3>. QED BY <3>1, <3>2
  <2>3. ordered'[r] = ordered[r] /\ orderedSent'[r] = orderedSent[r]
    BY <1>1, <1>2, <2>2, ConcatEmptySeq
  <2>. QED BY <1>2, <2>3, PrimaryCorrect DEF Orders
<1>. QED BY <1>3, <1>4

\* tryOrder of a batch that is held.
LEMMA TryOrderLog ==
    ASSUME TypeOK, OnceInv, LogInv, NEW r \in Correct, NEW n \in SeqNos, NEW votes,
           tryOrder(r, n, votes), HasPrePrepare(r, n), NoneProposed,
           prePrepares' = prePrepares, participating' = participating
    PROVE  LogStep(r)
<1>. DEFINE quorum == hasCommitQuorum(votes) /\ ~IsOrdered(r, n)
<1>1. OthersKept(r) <=> \A q \in Correct \ {r} :
            ordered'[q] = ordered[q] /\ orderedSent'[q] = orderedSent[q]
  BY DEF OthersKept
<1>2. n \in Int /\ n >= n - 1 /\ n <= MaxSeq /\ MaxSeq \in Nat
  BY BoundsAssumption DEF SeqNos
<1>3. CASE quorum /\ all_prev_ordered(r, n)
  <2>1. doOrder(r, n, n, prePrepares[r]) /\ ~IsOrdered(r, n) /\ all_prev_ordered(r, n)
    BY <1>3 DEF tryOrder
  <2>2. n <= LastPrePrepare(r) /\ LastPrePrepare(r) \in 0..MaxSeq
    BY HeldBatches, LastType, PrimaryCorrect
  <2>3. n = Len(ordered[r]) + 1
    BY <1>2, <2>1, <2>2, PrevOrdered
  <2>. QED BY <1>1, <1>2, <2>1, <2>3, DoOrderLog DEF LogStep, Takes
<1>4. CASE ~(quorum /\ all_prev_ordered(r, n))
  <2>1. UNCHANGED <<ordered, orderedSent>>
    BY <1>4 DEF tryOrder
  <2>. QED BY <2>1, QuietLog
<1>. QED BY <1>3, <1>4

\* Taking the primary's next batches.
LEMMA AddToPrePreparesLog ==
    ASSUME TypeOK, OnceInv, LogInv, NEW r \in Correct, NEW lo \in SeqNos,
           NEW top \in SeqNos, lo <= top, NEW pp \in [lo..top -> Batches],
           NEW net \in [Replicas -> SUBSET Message],
           addToPrePrepares(r, lo, top, pp, net),
           lo = LastSeqNo(r) + 1,
           \A n \in lo..top : pp[n] = prePrepares[Primary][n],
           \A q \in Correct : net[q] \subseteq network[q],
           \A q \in Correct : /\ pendingFinReqs'[q] \subseteq Held(q)
                              /\ pendingPrevPP'[q] \subseteq Held(q),
           participating' = participating
    PROVE  LogStep(r)
<1>. DEFINE K == lo..top
            newly == {n \in K : /\ all_prev_ordered(r, lo)
                                /\ \A k \in K : k <= n => orderable(r, k, pp[k])}
<1>0. /\ r \in Replicas /\ K \subseteq SeqNos /\ lo \in Int /\ top \in Int
      /\ MaxSeq \in Nat /\ lo <= MaxSeq /\ top <= MaxSeq
      /\ lo \in K /\ Primary \in Replicas
  BY PrimaryCorrect, BoundsAssumption DEF SeqNos
<1>1. \A n \in K : pp[n] # NoBatch /\ pp[n] = prePrepares[Primary][n]
  BY DEF Batches, NoBatch
<1>2. lo = LastPrePrepare(r) + 1 /\ LastPrePrepare(r) \in 0..MaxSeq
  BY <1>0, OrderedBatches, LastType
<1>3. /\ prePrepares' = [prePrepares EXCEPT ![r] =
            [n \in SeqNos |-> IF n \in K THEN pp[n] ELSE prePrepares[r][n]]]
      /\ network' = Broadcast(r, net, UNION
            {SentVotes(r, n, pp[n], clock[r] + 2 * (n - lo)) : n \in K})
  BY DEF addToPrePrepares
<1>4. PICK hi \in (lo - 1)..top : newly = lo..hi /\ doOrder(r, lo, hi, pp)
  BY DEF addToPrePrepares
<1>5. hi \in Int /\ hi <= MaxSeq /\ hi >= lo - 1
  BY <1>0, <1>4
<1>6. hi >= lo => lo = Len(ordered[r]) + 1
  <2>. SUFFICES ASSUME hi >= lo PROVE lo = Len(ordered[r]) + 1
    OBVIOUS
  <2>1. lo \in newly
    BY <1>0, <1>4, <1>5
  <2>2. all_prev_ordered(r, lo) /\ orderable(r, lo, pp[lo])
    BY <1>0, <2>1
  <2>3. ~IsOrdered(r, lo)
    BY <2>2 DEF orderable
  <2>. QED BY <1>2, <1>0, <2>2, <2>3, PrevOrdered
<1>. HIDE DEF newly
<1>7. /\ Orders(r)
      /\ \A q \in Correct \ {r} :
            ordered'[q] = ordered[q] /\ orderedSent'[q] = orderedSent[q]
  BY <1>0, <1>4, <1>5, <1>6, DoOrderLog
<1>8. NoneProposed
  <2>. DEFINE sent(n) == SentVotes(r, n, pp[n], clock[r] + 2 * (n - lo))
  <2>1. ASSUME NEW n \in K, NEW m \in sent(n) PROVE m.type # "PREPREPARE"
    BY DEF SentVotes
  <2>. HIDE DEF sent, K
  <2>2. \A q \in Correct : network'[q] \subseteq network[q] \cup UNION {sent(n) : n \in K}
    BY <1>3, PrimaryCorrect DEF Broadcast, sent
  <2>3. \A m \in UNION {sent(n) : n \in K} : m.type # "PREPREPARE"
    BY <2>1
  <2>. QED BY <2>2, <2>3 DEF NoneProposed, Held
<1>9. \A q \in Correct \ {r} : prePrepares'[q] = prePrepares[q]
  BY <1>0, <1>3, PrimaryCorrect DEF TypeOK
<1>10. \A n \in SeqNos : prePrepares'[r][n] = IF n \in K THEN pp[n] ELSE prePrepares[r][n]
  <2>. HIDE DEF K
  <2>. QED BY <1>0, <1>3 DEF TypeOK
<1>11. prePrepares'[Primary] = prePrepares[Primary]
  <2>1. CASE r # Primary
    BY <1>9, <2>1, PrimaryCorrect
  <2>2. CASE r = Primary
    <3>1. HasPrePrepare(r, lo)
      BY <1>0, <1>1, <2>2 DEF HasPrePrepare
    <3>. QED BY <1>0, <1>2, <3>1, HeldBatches
  <2>. QED BY <2>1, <2>2
<1>12. Takes(r)
  <2>. SUFFICES ASSUME NEW n \in SeqNos, n \in K
                PROVE  /\ prePrepares'[r][n] = prePrepares[Primary][n]
                       /\ ~HasPrePrepare(r, n)
                       /\ \A k \in 1..n : prePrepares'[r][k] # NoBatch
    BY <1>10 DEF Takes
  <2>1. ~HasPrePrepare(r, n)
    BY <1>0, <1>2, HeldBatches
  <2>2. ASSUME NEW k \in 1..n PROVE prePrepares'[r][k] # NoBatch
    <3>1. k \in SeqNos /\ (k \in K \/ k <= LastPrePrepare(r))
      BY <1>0, <1>2 DEF SeqNos
    <3>2. k \notin K => HasPrePrepare(r, k)
      BY <3>1, HeldBatches
    <3>. HIDE DEF K
    <3>. QED BY <1>1, <1>10, <3>1, <3>2 DEF HasPrePrepare
  <2>. QED BY <1>1, <1>10, <2>1, <2>2
<1>. QED BY <1>7, <1>8, <1>9, <1>11, <1>12 DEF LogStep, OthersKept

LEMMA ReceiveLog ==
    ASSUME TypeOK, OnceInv, LogInv, NEW r \in Correct, NEW m \in Deliverable(r),
           processPrePrepare(r, m) \/ processPrepare(r, m) \/ processCommit(r, m)
    PROVE  LogStep(r)
<1>0. r \in Replicas /\ participating[r]
  BY PrimaryCorrect DEF LogInv, InSync
<1>1. \A q \in Correct : Consume(r, m)[q] \subseteq network[q]
  BY <1>0, ConsumeShrinks, PrimaryCorrect
<1>2. Consume(r, m) \in [Replicas -> SUBSET Message]
  BY <1>0, ConsumeType
<1>3. CASE processPrePrepare(r, m)
  <2>1. m \in PrePrepareMsg /\ m.type = "PREPREPARE" /\ m \in network[r]
    BY <1>3, DeliverableType, FaultyVotesAssumption
       DEF processPrePrepare, Deliverable, PrepareMsg, CommitMsg
  <2>2. CASE enqueuePrePrepare(r, m)
    <3>1. /\ UNCHANGED <<prePrepares, ordered, orderedSent, participating>>
          /\ network' = Consume(r, m)
      BY <2>2 DEF enqueuePrePrepare, orderVars, modeVars
    <3>2. \/ /\ pendingPrevPP' = [pendingPrevPP EXCEPT ![r] = @ \cup {m}]
             /\ UNCHANGED pendingFinReqs
          \/ /\ pendingFinReqs' = [pendingFinReqs EXCEPT ![r] = @ \cup {m}]
             /\ UNCHANGED pendingPrevPP
      BY <2>2, Zenon DEF enqueuePrePrepare
    <3>3. \A q \in Correct : /\ pendingPrevPP'[q] \subseteq Held(q)
                             /\ pendingFinReqs'[q] \subseteq Held(q)
      <4>1. DOMAIN pendingPrevPP = Replicas /\ DOMAIN pendingFinReqs = Replicas
        BY DEF TypeOK
      <4>. QED BY <1>0, <2>1, <3>2, <4>1, PrimaryCorrect DEF Held
    <3>4. NoneProposed
      BY <1>1, <3>1, <3>3 DEF NoneProposed, Held
    <3>. QED BY <3>1, <3>4, QuietLog
  <2>3. CASE rejectPrePrepare(r, m)
    <3>1. /\ UNCHANGED <<prePrepares, ordered, orderedSent, participating,
                         pendingFinReqs, pendingPrevPP>>
          /\ network' = Consume(r, m)
      BY <2>3 DEF rejectPrePrepare, orderVars, pendingVars
    <3>2. NoneProposed
      BY <1>1, <3>1 DEF NoneProposed, Held
    <3>. QED BY <3>1, <3>2, QuietLog
  <2>4. CASE acceptPrePrepare(r, m)
    <3>. DEFINE pp == [n \in {m.seq} |-> m.batch]
    <3>1. m.seq \in SeqNos /\ m.batch \in Batches
      BY <2>1 DEF PrePrepareMsg
    <3>2. m.seq <= m.seq /\ (m.seq)..(m.seq) = {m.seq}
      BY <3>1, BoundsAssumption DEF SeqNos
    <3>3. pp \in [(m.seq)..(m.seq) -> Batches]
      BY <3>1, <3>2
    <3>4. /\ addToPrePrepares(r, m.seq, m.seq, pp, Consume(r, m))
          /\ m.seq = LastSeqNo(r) + 1
          /\ UNCHANGED <<pendingFinReqs, pendingPrevPP, participating>>
      BY <1>0, <2>4 DEF acceptPrePrepare, pendingVars, isNextPrePrepare
    <3>5. \A n \in (m.seq)..(m.seq) : pp[n] = prePrepares[Primary][n]
      BY <2>1, <3>2 DEF LogInv, Held, FromPrimary
    <3>6. \A q \in Correct : /\ pendingFinReqs'[q] \subseteq Held(q)
                             /\ pendingPrevPP'[q] \subseteq Held(q)
      BY <3>4 DEF Held
    <3>. HIDE DEF pp
    <3>. QED BY <1>1, <1>2, <3>1, <3>2, <3>3, <3>4, <3>5, <3>6, AddToPrePreparesLog
  <2>. QED BY <1>3, <2>2, <2>3, <2>4 DEF processPrePrepare
<1>4. CASE processPrepare(r, m)
  <2>1. m \in PrepareMsg /\ m.seq \in SeqNos
    BY <1>4, DeliverableType DEF processPrepare, PrepareMsg
  <2>. DEFINE commit == [type |-> "COMMIT", from |-> r, seq |-> m.seq, stamp |-> clock[r]]
  <2>2. UNCHANGED <<prePrepares, participating, pendingFinReqs, pendingPrevPP>>
    BY <1>4 DEF processPrepare, discardPrepare, enqueuePrepare, addToPrepares,
       pendingVars, modeVars
  <2>3. network' = Consume(r, m) \/ network' = Broadcast(r, Consume(r, m), {commit})
    BY <1>4 DEF processPrepare, discardPrepare, enqueuePrepare, addToPrepares
  <2>4. commit.type # "PREPREPARE"
    OBVIOUS
  <2>. HIDE DEF commit
  <2>5. NoneProposed
    BY <1>1, <2>2, <2>3, <2>4, PrimaryCorrect DEF NoneProposed, Held, Broadcast
  <2>6. CASE UNCHANGED <<ordered, orderedSent>>
    BY <2>2, <2>5, <2>6, QuietLog
  <2>7. CASE ~UNCHANGED <<ordered, orderedSent>>
    <3>1. addToPrepares(r, m)
      BY <1>4, <2>7 DEF processPrepare, discardPrepare, enqueuePrepare, orderVars
    <3>2. /\ HasPrePrepare(r, m.seq)
          /\ tryOrder(r, m.seq, commits[r][m.seq] \cup {r})
      BY <2>7, <3>1 DEF addToPrepares, orderVars
    <3>. QED BY <2>1, <2>2, <2>5, <3>2, TryOrderLog
  <2>. QED BY <2>6, <2>7
<1>5. CASE processCommit(r, m)
  <2>1. m \in CommitMsg /\ m.seq \in SeqNos
    BY <1>5, DeliverableType DEF processCommit, CommitMsg
  <2>2. /\ UNCHANGED <<prePrepares, participating, pendingFinReqs, pendingPrevPP>>
        /\ network' = Consume(r, m)
    BY <1>5 DEF processCommit, discardCommit, enqueueCommit, addToCommits,
       pendingVars, modeVars
  <2>3. NoneProposed
    BY <1>1, <2>2 DEF NoneProposed, Held
  <2>4. CASE UNCHANGED <<ordered, orderedSent>>
    BY <2>2, <2>3, <2>4, QuietLog
  <2>5. CASE ~UNCHANGED <<ordered, orderedSent>>
    <3>1. addToCommits(r, m)
      BY <1>5, <2>5 DEF processCommit, discardCommit, enqueueCommit, orderVars
    <3>2. /\ HasPrePrepare(r, m.seq)
          /\ tryOrder(r, m.seq, commits[r][m.seq] \cup {m.from})
      BY <3>1 DEF addToCommits
    <3>. QED BY <2>1, <2>2, <2>3, <3>2, TryOrderLog
  <2>. QED BY <2>4, <2>5
<1>. QED BY <1>3, <1>4, <1>5

LEMMA DequeueLog ==
    ASSUME TypeOK, OnceInv, LogInv, NEW r \in Correct, dequeuePrePrepares(r)
    PROVE  LogStep(r)
<1>. DEFINE ready == {m \in pendingFinReqs[r] : m.batch.reqs \subseteq finalised[r]}
            waiting == pendingPrevPP[r] \cup ready
<1>0. /\ participating' = participating /\ network \in [Replicas -> SUBSET Message]
      /\ \A q \in Correct : network[q] \subseteq network[q]
  BY DEF dequeuePrePrepares, TypeOK
<1>1. pendingFinReqs' = [pendingFinReqs EXCEPT ![r] = @ \ ready]
  BY DEF dequeuePrePrepares
<1>2. PICK W \in SUBSET waiting : pendingPrevPP' = [pendingPrevPP EXCEPT ![r] = W]
  BY DEF dequeuePrePrepares
<1>3. waiting \subseteq pendingPrevPP[r] \cup pendingFinReqs[r]
  OBVIOUS
<1>. HIDE DEF ready, waiting
<1>4. \A q \in Correct : /\ pendingFinReqs'[q] \subseteq Held(q)
                         /\ pendingPrevPP'[q] \subseteq Held(q)
  BY <1>1, <1>2, <1>3 DEF TypeOK, Correct, Held
<1>5. CASE UNCHANGED <<requestQueue, prePrepares, voteVars, orderVars,
                       stashedSyncing, netVars>>
  <2>1. UNCHANGED <<prePrepares, ordered, orderedSent, network>>
    BY <1>5 DEF orderVars, netVars
  <2>2. NoneProposed
    BY <1>4, <2>1 DEF NoneProposed, Held
  <2>. QED BY <1>0, <2>1, <2>2, QuietLog
<1>6. ASSUME NEW lo \in SeqNos, NEW top \in SeqNos, lo = LastSeqNo(r) + 1, lo <= top,
             NEW pp \in [lo..top -> Batches],
             addToPrePrepares(r, lo, top, pp, network),
             \A n \in lo..top : \E m \in pendingPrevPP[r] \cup pendingFinReqs[r] :
                /\ m \in PrePrepareMsg /\ m.seq = n
                /\ m.batch = pp[n] /\ m.batch.ok
      PROVE  LogStep(r)
  <2>1. \A n \in lo..top : pp[n] = prePrepares[Primary][n]
    BY <1>6 DEF LogInv, Held, FromPrimary, PrePrepareMsg
  <2>. DEFINE net == network
  <2>2. /\ net \in [Replicas -> SUBSET Message] /\ addToPrePrepares(r, lo, top, pp, net)
        /\ \A q \in Correct : net[q] \subseteq network[q]
    BY <1>0, <1>6
  <2>. HIDE DEF net
  <2>. QED BY <1>0, <1>4, <1>6, <2>1, <2>2, AddToPrePreparesLog, SMTT(30)
<1>. QED BY <1>5, <1>6, DequeueTakes

\* The stash goes on where the last ordered batch is.
LEMMA ReorderLog ==
    ASSUME TypeOK, OnceInv, LogInv, NEW r \in Correct, NEW hi \in 0..MaxSeq,
           process_stashed_out_of_order_commits(r, hi)
    PROVE  LogStep(r)
<1>. DEFINE last == ordered[r][Len(ordered[r])]
<1>1. /\ ordered[r] # <<>> /\ hi >= last
      /\ doOrder(r, last + 1, hi, prePrepares[r])
      /\ UNCHANGED <<prePrepares, participating, pendingFinReqs, pendingPrevPP, network>>
  BY DEF process_stashed_out_of_order_commits, pendingVars, netVars
<1>2. last = Len(ordered[r]) /\ Len(ordered[r]) \in Nat
  <2>1. ordered[r] \in Seq(SeqNos) /\ ordered[r] = orderedSent[r]
    BY PrimaryCorrect DEF TypeOK, LogInv, InSync
  <2>2. Len(ordered[r]) \in 1..Len(ordered[r])
    BY <1>1, <2>1, EmptySeq, LenProperties
  <2>. QED BY <2>1, <2>2, LenProperties DEF LogInv, InOrder
<1>3. /\ hi \in Int /\ hi <= MaxSeq /\ last + 1 \in Int /\ hi >= (last + 1) - 1
      /\ last + 1 = Len(ordered[r]) + 1
  BY <1>1, <1>2, BoundsAssumption
<1>. HIDE DEF last
<1>4. /\ Orders(r)
      /\ \A q \in Correct \ {r} :
            ordered'[q] = ordered[q] /\ orderedSent'[q] = orderedSent[q]
  BY <1>1, <1>3, DoOrderLog
<1>. QED BY <1>1, <1>4 DEF LogStep, OthersKept, Takes, NoneProposed, Held

\* Every step of a replica but the two that begin and end a catch-up.
LEMMA ReplicaLog ==
    ASSUME TypeOK, OnceInv, LogInv, NEW r \in Correct, ReplicaStep(r),
           catchups = 0, catchups' = 0
    PROVE  LogStep(r)
<1>0. r \in Replicas
  BY PrimaryCorrect
<1>1. CASE \E s \in Replicas : ReceiveFrom(r, s)
  BY <1>1, ReceiveLog DEF ReceiveFrom
<1>2. CASE ReceiveKey(r) \/ Finalise(r)
  <2>1. UNCHANGED <<prePrepares, ordered, orderedSent, participating, network,
                    pendingFinReqs, pendingPrevPP>>
    BY <1>2 DEF ReceiveKey, Finalise, readyFor3PC, FinaliseRequest, orderVars,
       modeVars, netVars, pendingVars
  <2>. QED BY <2>1, QuietLog DEF NoneProposed, Held
<1>3. CASE Drop(r)
  <2>1. PICK m \in network[r] : Lose(r, m)
    BY <1>3 DEF Drop
  <2>2. /\ UNCHANGED <<prePrepares, ordered, orderedSent, participating,
                       pendingFinReqs, pendingPrevPP>>
        /\ network' = Consume(r, m)
    BY <2>1 DEF Lose, orderVars, modeVars, pendingVars
  <2>3. \A q \in Correct : network'[q] \subseteq network[q]
    BY <1>0, <2>2, ConsumeShrinks, PrimaryCorrect
  <2>. QED BY <2>2, <2>3, QuietLog DEF NoneProposed, Held
<1>4. CASE Dequeue(r)
  BY <1>4, DequeueLog DEF Dequeue
<1>5. CASE Reorder(r)
  BY <1>5, ReorderLog DEF Reorder
<1>6. ~StartCatchUp(r)
  BY DEF StartCatchUp, preLedgerCatchUp
<1>7. ~CaughtUp(r)
  BY DEF CaughtUp, allLedgersCaughtUp, LogInv, InSync
<1>. QED BY <1>1, <1>2, <1>3, <1>4, <1>5, <1>6, <1>7 DEF ReplicaStep

\* send3PCBatch proposes the batch after the last one.
LEMMA ProposeLog ==
    ASSUME TypeOK, LogInv, NEW S \in SUBSET Requests, send3PCBatch(S)
    PROVE  /\ LogInv'
           /\ LastPrePrepare(Primary) + 1 \in SeqNos
           /\ prePrepares'[Primary][LastPrePrepare(Primary) + 1].reqs = S
           /\ \A n \in SeqNos :
                 prePrepares'[Primary][n] # NoBatch <=> n <= LastPrePrepare(Primary) + 1
           /\ \A n \in SeqNos : HasPrePrepare(Primary, n) =>
                 prePrepares'[Primary][n] = prePrepares[Primary][n]
           /\ \A q \in Correct \ {Primary} : prePrepares'[q] = prePrepares[q]
           /\ orderedSent' = orderedSent
<1>. DEFINE N == LastPrePrepare(Primary) + 1
            batch == [reqs |-> S, ok |-> N \notin WrongBatches]
            msg == [type |-> "PREPREPARE", from |-> Primary, seq |-> N,
                    batch |-> batch, stamp |-> clock[Primary]]
<1>1. /\ N \in SeqNos /\ S # {}
      /\ prePrepares' = [prePrepares EXCEPT ![Primary][N] = batch]
      /\ network' = Broadcast(Primary, network, {msg})
      /\ UNCHANGED <<ordered, orderedSent, participating, pendingFinReqs, pendingPrevPP>>
  BY DEF send3PCBatch, orderVars, modeVars, pendingVars
<1>2. batch # NoBatch /\ batch.reqs = S
  BY <1>1 DEF NoBatch
<1>3. msg.batch = batch /\ msg.seq = N
  OBVIOUS
<1>4. /\ \A n \in SeqNos : HasPrePrepare(Primary, n) <=> n < N
      /\ SeqNos \subseteq Nat
  BY HeldBatches, LastType, PrimaryCorrect, BoundsAssumption DEF SeqNos
<1>. HIDE DEF N, batch, msg
<1>5. /\ \A q \in Correct \ {Primary} : prePrepares'[q] = prePrepares[q]
      /\ \A n \in SeqNos : prePrepares'[Primary][n] =
            IF n = N THEN batch ELSE prePrepares[Primary][n]
  BY <1>1, PrimaryCorrect DEF TypeOK
<1>6. \A n \in SeqNos :
         /\ prePrepares'[Primary][n] # NoBatch <=> n <= N
         /\ HasPrePrepare(Primary, n) =>
               prePrepares'[Primary][n] = prePrepares[Primary][n]
  BY <1>1, <1>2, <1>4, <1>5 DEF HasPrePrepare
<1>7. ASSUME NEW q \in Correct
      PROVE  /\ participating'[q] /\ ordered'[q] = orderedSent'[q]
             /\ \A i \in DOMAIN orderedSent'[q] : orderedSent'[q][i] = i
             /\ HoldsPrefix(q)' /\ \A m \in Held(q)' : FromPrimary(m)'
  <2>1. /\ participating[q] /\ ordered[q] = orderedSent[q]
        /\ \A i \in DOMAIN orderedSent[q] : orderedSent[q][i] = i
        /\ HoldsPrefix(q) /\ \A m \in Held(q) : FromPrimary(m)
    BY DEF LogInv, InSync, InOrder
  <2>2. ASSUME NEW n \in SeqNos, prePrepares'[q][n] # NoBatch
        PROVE  /\ \A k \in 1..n : prePrepares'[q][k] # NoBatch
               /\ prePrepares'[q][n] = prePrepares'[Primary][n]
    <3>1. \A k \in 1..n : k \in SeqNos /\ k <= n
      BY BoundsAssumption DEF SeqNos
    <3>2. CASE q = Primary
      <4>1. n <= N
        BY <1>6, <2>2, <3>2
      <4>2. \A k \in 1..n : k <= N
        BY <1>1, <1>4, <4>1
      <4>. QED BY <1>6, <3>1, <3>2, <4>2
    <3>3. CASE q # Primary
      <4>1. HasPrePrepare(q, n) /\ prePrepares'[q] = prePrepares[q]
        BY <1>5, <2>2, <3>3 DEF HasPrePrepare
      <4>2. /\ \A k \in 1..n : HasPrePrepare(q, k)
            /\ prePrepares[q][n] = prePrepares[Primary][n]
        BY <2>1, <4>1 DEF HoldsPrefix
      <4>3. HasPrePrepare(Primary, n)
        BY <4>1, <4>2 DEF HasPrePrepare
      <4>. QED BY <1>6, <4>1, <4>2, <4>3 DEF HasPrePrepare
    <3>. QED BY <3>2, <3>3
  <2>3. ASSUME NEW m \in Held(q)', m.type = "PREPREPARE"
        PROVE  m.batch = prePrepares'[Primary][m.seq]
    <3>1. m \in Held(q) \/ m = msg
      BY <1>1, PrimaryCorrect DEF Held, Broadcast
    <3>2. CASE m = msg
      BY <1>1, <1>3, <1>5, <3>2
    <3>3. CASE m \in Held(q)
      <4>1. m \in PrePrepareMsg
        <5>1. m \in Message
          BY <3>3, PrimaryCorrect DEF Held, TypeOK, Message
        <5>. QED BY <2>3, <5>1 DEF Message, PrepareMsg, CommitMsg
      <4>2. m.seq \in SeqNos /\ m.batch # NoBatch /\ m.batch = prePrepares[Primary][m.seq]
        BY <2>1, <2>3, <3>3, <4>1 DEF FromPrimary, PrePrepareMsg, Batches, NoBatch
      <4>. QED BY <1>6, <4>2 DEF HasPrePrepare
    <3>. QED BY <3>1, <3>2, <3>3
  <2>. QED BY <1>1, <2>1, <2>2, <2>3 DEF HoldsPrefix, HasPrePrepare, FromPrimary, SeqNos,
           NoBatch
<1>8. LogInv'
  BY <1>7 DEF LogInv, InSync, InOrder, Correct, Held
<1>. QED BY <1>1, <1>2, <1>5, <1>6, <1>8 DEF N

\* Without a catch-up, one step of the specification keeps LogInv.
LEMMA LogInvStep ==
    TypeOK /\ OnceInv /\ LogInv /\ [Next]_vars /\ catchups = 0 /\ catchups' = 0 => LogInv'
<1>. SUFFICES ASSUME TypeOK, OnceInv, LogInv, [Next]_vars, catchups = 0, catchups' = 0
              PROVE  LogInv'
  OBVIOUS
<1>1. CASE Propose
  BY <1>1, ProposeLog DEF Propose
<1>2. ASSUME NEW r \in Correct, ReplicaStep(r) PROVE LogInv'
  BY <1>2, ReplicaLog, LogStepKeeps
<1>3. CASE UNCHANGED vars
  <2>1. UNCHANGED <<prePrepares, ordered, orderedSent, participating, network,
                    pendingFinReqs, pendingPrevPP>>
    BY <1>3 DEF vars, orderVars, modeVars, netVars, pendingVars
  <2>2. LogStep(Primary)
    BY <2>1, QuietLog, PrimaryCorrect DEF NoneProposed, Held
  <2>. QED BY <2>2, LogStepKeeps, PrimaryCorrect
<1>. QED BY <1>1, <1>2, <1>3 DEF Next

LEMMA LogInvInit == Init => LogInv
<1>. SUFFICES ASSUME Init, NEW r \in Correct
              PROVE  /\ participating[r] /\ ordered[r] = orderedSent[r]
                     /\ DOMAIN orderedSent[r] = {}
                     /\ \A n \in SeqNos : ~HasPrePrepare(r, n)
                     /\ Held(r) = {}
  BY DEF LogInv, InSync, InOrder, HoldsPrefix
<1>1. r \in Replicas /\ orderedSent[r] = <<>>
  BY PrimaryCorrect DEF Init
<1>. QED BY <1>1, EmptySeq DEF Init, HasPrePrepare, Held

-----------------------------------------------------------------------------
(* The refinement *)

\* The logs TotalOrder sees: the batches the primary has proposed, and for every
\* replica a prefix of them as long as what it has handed to its node.
PrefixesDelivered ==
    /\ ProposedLog \in Seq(SUBSET Requests) /\ Len(ProposedLog) \in 0..MaxSeq
    /\ \A n \in SeqNos : HasPrePrepare(Primary, n) <=> n <= Len(ProposedLog)
    /\ \A n \in 1..Len(ProposedLog) : ProposedLog[n] = prePrepares[Primary][n].reqs
    /\ DeliveredLog =
          [r \in Correct |-> SubSeq(ProposedLog, 1, Len(orderedSent[r]))]
    /\ \A r \in Correct : Len(orderedSent[r]) \in 0..Len(ProposedLog)

LEMMA LogsArePrefixes == TypeOK /\ OnceInv /\ LogInv => PrefixesDelivered
<1>. SUFFICES ASSUME TypeOK, OnceInv, LogInv PROVE PrefixesDelivered
  OBVIOUS
<1>. DEFINE N == LastPrePrepare(Primary)
            e(n) == prePrepares[Primary][n].reqs
<1>1. /\ N \in 0..MaxSeq /\ MaxSeq \in Nat
      /\ \A n \in SeqNos : HasPrePrepare(Primary, n) <=> n <= N
  BY PrimaryCorrect, LastType, HeldBatches, BoundsAssumption
<1>2. \A n \in 1..N : e(n) \in SUBSET Requests
  <2>1. \A n \in 1..N : n \in SeqNos
    BY <1>1 DEF SeqNos
  <2>2. \A n \in 1..N : prePrepares[Primary][n] \in Batches \cup {NoBatch}
    BY <2>1, PrimaryCorrect DEF TypeOK
  <2>. QED BY <2>2 DEF Batches, NoBatch
<1>3. ProposedLog = [n \in 1..N |-> e(n)]
  BY DEF ProposedLog
<1>. HIDE DEF N
<1>4. ProposedLog \in Seq(SUBSET Requests)
  <2>1. N \in Nat
    BY <1>1
  <2>. HIDE DEF e
  <2>. QED BY <1>2, <1>3, <2>1, IsASeq
<1>5. Len(ProposedLog) = N /\ \A n \in 1..N : ProposedLog[n] = e(n)
  <2>1. DOMAIN ProposedLog = 1..N
    BY <1>3
  <2>. QED BY <1>1, <1>3, <1>4, <2>1, LenProperties
<1>6. ASSUME NEW r \in Correct
      PROVE  /\ Len(orderedSent[r]) \in 0..N
             /\ [i \in DOMAIN orderedSent[r] |-> prePrepares[r][orderedSent[r][i]].reqs]
                  = SubSeq(ProposedLog, 1, Len(orderedSent[r]))
  <2>. DEFINE k == Len(orderedSent[r])
              d == [i \in DOMAIN orderedSent[r] |-> prePrepares[r][orderedSent[r][i]].reqs]
  <2>1. /\ r \in Replicas /\ LastPrePrepare(r) \in 0..MaxSeq
        /\ k \in 0..LastPrePrepare(r) /\ DOMAIN orderedSent[r] = 1..k
        /\ \A i \in 1..k : orderedSent[r][i] = i
        /\ \A n \in SeqNos : HasPrePrepare(r, n) <=> n <= LastPrePrepare(r)
    BY PrimaryCorrect, OrderedBatches, HeldBatches, LastType DEF LogInv, InSync, InOrder
  <2>. HIDE DEF k
  <2>2. \A i \in 1..k : /\ i \in SeqNos /\ HasPrePrepare(r, i)
                        /\ prePrepares[r][i] = prePrepares[Primary][i]
                        /\ HasPrePrepare(Primary, i)
    <3>1. \A i \in 1..k : i \in SeqNos /\ i <= LastPrePrepare(r)
      BY <1>1, <2>1 DEF SeqNos
    <3>. QED BY <2>1, <3>1 DEF LogInv, HoldsPrefix, HasPrePrepare
  <2>3. k <= N
    <3>1. CASE k = 0
      BY <1>1, <3>1
    <3>2. CASE k # 0
      <4>1. k \in 1..k
        BY <2>1, <3>2
      <4>. QED BY <1>1, <2>2, <4>1
    <3>. QED BY <3>1, <3>2
  <2>4. \A i \in 1..k : prePrepares[r][orderedSent[r][i]].reqs = ProposedLog[i]
    BY <1>1, <1>5, <2>1, <2>2, <2>3
  <2>5. d = [i \in 1..k |-> ProposedLog[i]]
    BY <2>1, <2>4
  <2>6. SubSeq(ProposedLog, 1, k) = [i \in 1..k |-> ProposedLog[i]]
    <3>. DEFINE t == SubSeq(ProposedLog, 1, k)
    <3>1. \A i \in 1..k : ProposedLog[i] \in SUBSET Requests
      BY <1>1, <1>2, <1>5, <2>1, <2>3
    <3>2. /\ t \in Seq(SUBSET Requests)
          /\ Len(t) = IF 1 <= k THEN k - 1 + 1 ELSE 0
          /\ \A i \in 1..(k - 1 + 1) : t[i] = ProposedLog[1 + i - 1]
      BY <2>1, <3>1, SubSeqProperties
    <3>. HIDE DEF t
    <3>3. Len(t) = k /\ \A i \in 1..k : t[i] = ProposedLog[i]
      BY <2>1, <3>2
    <3>4. t = [i \in 1..k |-> t[i]]
      BY <3>2, <3>3, LenProperties
    <3>. QED BY <3>3, <3>4 DEF t
  <2>. QED BY <1>1, <2>1, <2>3, <2>5, <2>6 DEF k
<1>. QED BY <1>1, <1>4, <1>5, <1>6 DEF PrefixesDelivered, DeliveredLog

\* Two logs of the same batches are the same.
LEMMA SameLength ==
    ASSUME NEW a \in 0..MaxSeq, NEW b \in 0..MaxSeq,
           \A n \in SeqNos : n <= a <=> n <= b
    PROVE  a = b
<1>1. MaxSeq \in Nat
  BY BoundsAssumption
<1>2. ASSUME a < b PROVE FALSE
  <2>1. b \in SeqNos
    BY <1>1, <1>2 DEF SeqNos
  <2>. QED BY <1>2, <2>1
<1>3. ASSUME b < a PROVE FALSE
  <2>1. a \in SeqNos
    BY <1>1, <1>3 DEF SeqNos
  <2>. QED BY <1>3, <2>1
<1>. QED BY <1>1, <1>2, <1>3

\* A prefix of a log is one of the longer log.
LEMMA PrefixOfAppend ==
    ASSUME NEW S, NEW s \in Seq(S), NEW x \in S, NEW k \in 0..Len(s)
    PROVE  SubSeq(Append(s, x), 1, k) = SubSeq(s, 1, k)
<1>1. Len(s) \in Nat /\ \A i \in 1..k : s[i] \in S /\ Append(s, x)[i] = s[i]
  BY LenProperties, AppendProperties, ElementOfSeq
<1>2. /\ SubSeq(s, 1, k) \in Seq(S)
      /\ Len(SubSeq(s, 1, k)) = IF 1 <= k THEN k - 1 + 1 ELSE 0
      /\ \A i \in 1..(k - 1 + 1) : SubSeq(s, 1, k)[i] = s[1 + i - 1]
  BY <1>1, SubSeqProperties
<1>. DEFINE t == Append(s, x)
<1>3. \A i \in 1..k : t[i] \in S /\ t[i] = s[i]
  BY <1>1
<1>. HIDE DEF t
<1>4. /\ SubSeq(t, 1, k) \in Seq(S)
      /\ Len(SubSeq(t, 1, k)) = IF 1 <= k THEN k - 1 + 1 ELSE 0
      /\ \A i \in 1..(k - 1 + 1) : SubSeq(t, 1, k)[i] = t[1 + i - 1]
  BY <1>1, <1>3, SubSeqProperties
<1>5. \A i \in 1..Len(SubSeq(t, 1, k)) : SubSeq(t, 1, k)[i] = SubSeq(s, 1, k)[i]
  BY <1>1, <1>2, <1>3, <1>4
<1>6. Len(SubSeq(t, 1, k)) = Len(SubSeq(s, 1, k))
  BY <1>1, <1>2, <1>4
<1>. QED BY <1>2, <1>4, <1>5, <1>6, SeqEqual DEF t

LEMMA TotalInit == Init /\ PrefixesDelivered => Total!Init
<1>. SUFFICES ASSUME Init, PrefixesDelivered PROVE Total!Init
  OBVIOUS
<1>1. ProposedLog \in Seq(SUBSET Requests) /\ Len(ProposedLog) \in 0..MaxSeq
  BY DEF PrefixesDelivered
<1>2. Len(ProposedLog) = 0
  <2>. SUFFICES ASSUME Len(ProposedLog) # 0 PROVE FALSE
    OBVIOUS
  <2>1. Len(ProposedLog) \in SeqNos
    BY <1>1, BoundsAssumption DEF SeqNos
  <2>2. HasPrePrepare(Primary, Len(ProposedLog))
    BY <1>1, <2>1, BoundsAssumption DEF PrefixesDelivered, SeqNos
  <2>. QED BY <2>1, <2>2, PrimaryCorrect DEF Init, HasPrePrepare
<1>3. ProposedLog = <<>>
  BY <1>1, <1>2, EmptySeq
<1>4. DeliveredLog = [r \in Correct |-> <<>>]
  <2>1. \A r \in Correct : SubSeq(ProposedLog, 1, Len(orderedSent[r])) = <<>>
    <3>. TAKE r \in Correct
    <3>1. Len(orderedSent[r]) = 0
      BY <1>2 DEF PrefixesDelivered
    <3>. QED BY <3>1, SubSeqEmpty
  <2>. QED BY <2>1 DEF PrefixesDelivered
<1>. QED BY <1>3, <1>4 DEF Total!Init

\* send3PCBatch is Propose; whatever a replica does delivers the next batches to
\* its node, or is not seen.
LEMMA TotalStep ==
    /\ TypeOK /\ OnceInv /\ LogInv /\ PrefixesDelivered /\ PrefixesDelivered'
    /\ [Next]_vars /\ catchups = 0 /\ catchups' = 0
    => [Total!Next]_<<ProposedLog, DeliveredLog>>
<1>. SUFFICES ASSUME TypeOK, OnceInv, LogInv, PrefixesDelivered, PrefixesDelivered',
                     [Next]_vars, catchups = 0, catchups' = 0
              PROVE  [Total!Next]_<<ProposedLog, DeliveredLog>>
  OBVIOUS
<1>. DEFINE L == Len(ProposedLog)
            len(r) == Len(orderedSent[r])
<1>1. /\ ProposedLog \in Seq(SUBSET Requests) /\ L \in 0..MaxSeq
      /\ \A n \in SeqNos : HasPrePrepare(Primary, n) <=> n <= L
      /\ \A n \in 1..L : ProposedLog[n] = prePrepares[Primary][n].reqs
      /\ DeliveredLog = [r \in Correct |-> SubSeq(ProposedLog, 1, len(r))]
      /\ \A r \in Correct : len(r) \in 0..L
  BY DEF PrefixesDelivered
<1>2. /\ ProposedLog' \in Seq(SUBSET Requests) /\ Len(ProposedLog') \in 0..MaxSeq
      /\ \A n \in SeqNos : prePrepares'[Primary][n] # NoBatch <=> n <= Len(ProposedLog')
      /\ \A n \in 1..Len(ProposedLog') : ProposedLog'[n] = prePrepares'[Primary][n].reqs
      /\ DeliveredLog' =
            [r \in Correct |-> SubSeq(ProposedLog', 1, Len(orderedSent'[r]))]
      /\ \A r \in Correct : Len(orderedSent'[r]) \in 0..Len(ProposedLog')
  BY DEF PrefixesDelivered, HasPrePrepare, SeqNos, NoBatch, Correct
<1>3. MaxSeq \in Nat /\ \A n \in 1..L : n \in SeqNos
  BY <1>1, BoundsAssumption DEF SeqNos
<1>. HIDE DEF L, len
<1>4. CASE Propose
  <2>1. PICK S \in SUBSET Requests : send3PCBatch(S)
    BY <1>4 DEF Propose
  <2>. DEFINE N == LastPrePrepare(Primary) + 1
  <2>2. /\ N \in SeqNos /\ prePrepares'[Primary][N].reqs = S
        /\ \A n \in SeqNos : prePrepares'[Primary][n] # NoBatch <=> n <= N
        /\ \A n \in SeqNos : HasPrePrepare(Primary, n) =>
              prePrepares'[Primary][n] = prePrepares[Primary][n]
        /\ orderedSent' = orderedSent
    BY <2>1, ProposeLog
  <2>3. LastPrePrepare(Primary) = L
    <3>1. LastPrePrepare(Primary) \in 0..MaxSeq
      BY LastType, PrimaryCorrect
    <3>. QED BY <1>1, <3>1, HeldBatches, PrimaryCorrect, SameLength
  <2>4. Len(ProposedLog') = L + 1 /\ N = L + 1
    <3>1. N \in 0..MaxSeq
      BY <2>2, <1>3 DEF SeqNos
    <3>. QED BY <1>2, <2>2, <2>3, <3>1, SameLength
  <2>. HIDE DEF N
  <2>5. ProposedLog' = Append(ProposedLog, S)
    <3>1. /\ Append(ProposedLog, S) \in Seq(SUBSET Requests)
          /\ Len(Append(ProposedLog, S)) = L + 1
          /\ \A i \in 1..L : Append(ProposedLog, S)[i] = ProposedLog[i]
          /\ Append(ProposedLog, S)[L + 1] = S
      BY <1>1, AppendProperties DEF L
    <3>2. \A i \in 1..L : ProposedLog'[i] = ProposedLog[i]
      <4>. TAKE i \in 1..L
      <4>1. prePrepares'[Primary][i] = prePrepares[Primary][i]
        BY <1>1, <1>3, <2>2
      <4>2. i \in 1..Len(ProposedLog')
        BY <1>1, <2>4
      <4>. QED BY <1>1, <1>2, <4>1, <4>2
    <3>3. ProposedLog'[L + 1] = S
      BY <1>1, <1>2, <2>2, <2>4
    <3>4. \A i \in 1..Len(ProposedLog') : ProposedLog'[i] = Append(ProposedLog, S)[i]
      BY <1>1, <2>4, <3>1, <3>2, <3>3
    <3>. QED BY <1>2, <2>4, <3>1, <3>4, SeqEqual
  <2>6. DeliveredLog' = DeliveredLog
    <3>1. \A r \in Correct :
             SubSeq(Append(ProposedLog, S), 1, len(r)) = SubSeq(ProposedLog, 1, len(r))
      BY <1>1, PrefixOfAppend DEF L
    <3>2. \A r \in Correct : Len(orderedSent'[r]) = len(r)
      BY <2>2 DEF len
    <3>. QED BY <1>1, <1>2, <2>5, <3>1, <3>2
  <2>. QED BY <2>5, <2>6 DEF Total!Next, Total!Propose
<1>5. ASSUME NEW r \in Correct, ReplicaStep(r)
      PROVE  [Total!Next]_<<ProposedLog, DeliveredLog>>
  <2>1. LogStep(r)
    BY <1>5, ReplicaLog
  <2>2. prePrepares'[Primary] = prePrepares[Primary]
    BY <2>1 DEF LogStep, OthersKept
  <2>3. ProposedLog' = ProposedLog
    <3>1. Len(ProposedLog') = L
      BY <1>1, <1>2, <2>2, SameLength DEF HasPrePrepare
    <3>2. \A i \in 1..L : ProposedLog'[i] = ProposedLog[i]
      BY <1>1, <1>2, <2>2, <3>1
    <3>. QED BY <1>1, <1>2, <3>1, <3>2, SeqEqual DEF L
  <2>4. \A q \in Correct \ {r} : Len(orderedSent'[q]) = len(q)
    BY <2>1 DEF LogStep, OthersKept, len
  <2>5. CASE Len(orderedSent'[r]) = len(r)
    BY <1>1, <1>2, <2>3, <2>4, <2>5
  <2>6. CASE Len(orderedSent'[r]) # len(r)
    <3>. DEFINE k == Len(orderedSent'[r])
    <3>1. k >= len(r)
      <4>1. PICK hi \in Int :
              /\ hi >= Len(ordered[r]) /\ hi <= MaxSeq
              /\ orderedSent'[r] = orderedSent[r] \o Run(Len(ordered[r]) + 1, hi)
        BY <2>1, <2>6 DEF LogStep, Orders, len
      <4>2. /\ ordered[r] = orderedSent[r] /\ orderedSent[r] \in Seq(SeqNos)
            /\ \A i \in DOMAIN orderedSent[r] : orderedSent[r][i] = i
        BY PrimaryCorrect DEF LogInv, InSync, InOrder, TypeOK
      <4>3. 1..hi \subseteq SeqNos
        BY <1>3, <4>1 DEF SeqNos
      <4>. DEFINE s == orderedSent[r]
      <4>4. /\ s \in Seq(SeqNos) /\ \A i \in DOMAIN s : s[i] = i
            /\ hi >= Len(s) /\ orderedSent'[r] = s \o Run(Len(s) + 1, hi)
        BY <4>1, <4>2
      <4>. HIDE DEF s
      <4>5. Len(s \o Run(Len(s) + 1, hi)) = hi
        BY <4>3, <4>4, RunGoesOn
      <4>. QED BY <4>4, <4>5 DEF len, s
    <3>2. k \in (len(r) + 1)..L /\ k \in 1..L
      BY <1>1, <1>2, <2>3, <2>6, <3>1 DEF L
    <3>3. Len(DeliveredLog[r]) = len(r)
      <4>1. \A i \in 1..len(r) : ProposedLog[i] \in SUBSET Requests
        BY <1>1, ElementOfSeq DEF L
      <4>2. len(r) \in Int /\ len(r) >= 0
        BY <1>1
      <4>3. Len(SubSeq(ProposedLog, 1, len(r)))
              = IF 1 <= len(r) THEN len(r) - 1 + 1 ELSE 0
        BY <4>1, <4>2, SubSeqProperties
      <4>. QED BY <1>1, <4>2, <4>3
    <3>4. DeliveredLog' = [DeliveredLog EXCEPT ![r] = SubSeq(ProposedLog, 1, k)]
      BY <1>1, <1>2, <2>3, <2>4
    <3>. HIDE DEF k
    <3>5. Total!Deliver(r, k)
      BY <2>3, <3>2, <3>3, <3>4 DEF Total!Deliver, L
    <3>. QED BY <3>2, <3>5 DEF Total!Next, L
  <2>. QED BY <2>5, <2>6
<1>6. CASE UNCHANGED vars
  BY <1>6 DEF vars, orderVars, ProposedLog, DeliveredLog, LastPrePrepare, HasPrePrepare
<1>. QED BY <1>4, <1>5, <1>6 DEF Next

\* As long as no node falls out of sync, every correct replica hands the
\* primary's batches to its node in the primary's order, without gap and without
\* repetition: neither the batches that wait for a request or for an earlier
\* batch, nor COMMITs out of order, nor lost messages, nor faulty backups make
\* tryOrder, dequeuePrePrepares or the stash of out of order COMMITs pass over
\* a batch.
THEOREM InPrimaryOrder == Spec /\ [](catchups = 0) => ImplementsTotalOrder
<1>1. Spec /\ [](catchups = 0) => [](TypeOK /\ OnceInv /\ LogInv)
  <2>1. Init => TypeOK /\ OnceInv /\ LogInv
    BY TypeInit, OnceInvInit, LogInvInit
  <2>2. /\ TypeOK /\ OnceInv /\ LogInv /\ [Next]_vars /\ catchups = 0 /\ (catchups = 0)'
        => (TypeOK /\ OnceInv /\ LogInv)'
    BY TypeStep, OnceInvStep, LogInvStep
  <2>. QED BY <2>1, <2>2, PTL DEF Spec
<1>2. TypeOK /\ OnceInv /\ LogInv => PrefixesDelivered
  BY LogsArePrefixes
<1>3. Init /\ PrefixesDelivered => Total!Init
  BY TotalInit
<1>4. /\ TypeOK /\ OnceInv /\ LogInv /\ PrefixesDelivered /\ PrefixesDelivered'
      /\ [Next]_vars /\ catchups = 0 /\ (catchups = 0)'
      => [Total!Next]_<<ProposedLog, DeliveredLog>>
  BY TotalStep
<1>. QED BY <1>1, <1>2, <1>3, <1>4, PTL DEF Spec, ImplementsTotalOrder, Total!Spec
=============================================================================
