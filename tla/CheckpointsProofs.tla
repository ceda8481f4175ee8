------------------------- MODULE CheckpointsProofs -------------------------
(***************************************************************************)
(* Proofs about Checkpoints, for every number of replicas with at most f   *)
(* faulty, every window and log size, every loss of messages and every     *)
(* catch-up: what is stable is backed, the log is bounded and no batch is  *)
(* lost.                                                                   *)
(***************************************************************************)
EXTENDS Checkpoints, DataInduction, FiniteSetTheorems, SequenceTheorems

-----------------------------------------------------------------------------
(* What holds of one replica.  completed is the set of pairs <<q, s>> such that *)
(* q is another replica and is faulty or has ordered the window of s.       *)

WindowOK(x, c) ==
    /\ 1 <= c.count /\ c.count <= c.seqNo - c.start + 1
    /\ c.seqNo <= seqNoEnd(c.start) /\ c.seqNo <= x.lastOrdered
    /\ IF c.isStable THEN c.seqNo = seqNoEnd(c.start) ELSE x.h < c.start

\* Windows do not overlap, and a stable one is the first.
WindowsOK(x) ==
    /\ \A c \in x.checkpoints : WindowOK(x, c)
    /\ \A c, o \in x.checkpoints :
          /\ c = o \/ seqNoEnd(c.start) < o.start \/ seqNoEnd(o.start) < c.start
          /\ c.isStable => c.start <= o.start

DigestsOK(x, completed) ==
    /\ \A c \in x.checkpoints : \A q \in c.receivedDigests : <<q, c.start>> \in completed
    /\ \A m \in x.stashedRecvd : m.digest = "right" => <<m.from, m.start>> \in completed

\* 2f others have ordered what is stable.
HBacked(x, completed) ==
    x.h = 0 \/ \E s \in SeqNos :
                  /\ seqNoEnd(s) = x.h
                  /\ Cardinality({q \in Replicas : <<q, s>> \in completed}) >= 2 * f

Good(x, completed) ==
    /\ x \in ReplicaState
    /\ WindowsOK(x) /\ DigestsOK(x, completed) /\ HBacked(x, completed)
    /\ x.log \subseteq x.h + 1 .. H(x)
    /\ x.h <= x.lastOrdered /\ x.lastOrdered <= x.seen
    /\ \A i \in 1..Len(x.stashed) : x.stashed[i] <= x.seen
    /\ \A s \in x.out : seqNoEnd(s) <= x.lastOrdered
    /\ x.failed => x.stashed = <<>>

\* Every batch is ordered, or in flight, or waits for the watermarks in the
\* stash, or is one of the next k items there.
Waits(x, k, flight) ==
    \A n \in 1 .. x.seen :
        \/ n <= x.lastOrdered \/ n \in flight
        \/ \E i \in 1..Len(x.stashed) : x.stashed[i] = n /\ (n > H(x) \/ i <= k)

\* z comes after x in one call.
Later(z, x) == z.seen = x.seen /\ x.lastOrdered <= z.lastOrdered

\* What release does for a replica with at most d items in the stash.
Contract(release, d, completed) ==
    \A x \in ReplicaState :
        Good(x, completed) /\ Len(x.stashed) <= d /\ Waits(x, Len(x.stashed), {}) =>
            /\ Good(release[x], completed) /\ Waits(release[x], 0, {})
            /\ Later(release[x], x) /\ Len(release[x].stashed) <= Len(x.stashed)

-----------------------------------------------------------------------------
(* Arithmetic of the constants *)

LEMMA Sizes ==
    /\ CHK_FREQ \in Nat /\ CHK_FREQ >= 1 /\ LOG_SIZE \in Nat /\ MaxSeq \in Nat
    /\ SeqNos \subseteq Nat /\ \A s \in SeqNos : s >= 1
    /\ IsFiniteSet(Replicas) /\ Cardinality(Replicas) \in Nat
BY CheckpointsAssumption, FS_CardinalityType DEF SeqNos

LEMMA TailOK ==
    ASSUME NEW x \in ReplicaState, x.stashed # <<>>
    PROVE  /\ Head(x.stashed) \in SeqNos /\ Tail(x.stashed) \in Seq(SeqNos)
           /\ Len(x.stashed) \in Nat \ {0} /\ Len(Tail(x.stashed)) = Len(x.stashed) - 1
           /\ Head(x.stashed) = x.stashed[1]
           /\ \A i \in 1..Len(Tail(x.stashed)) : Tail(x.stashed)[i] = x.stashed[i + 1]
<1>. DEFINE s == x.stashed
<1>1. s \in Seq(SeqNos) /\ s # <<>>
  BY DEF ReplicaState
<1>. HIDE DEF s
<1>. QED BY <1>1, HeadTailProperties, LenProperties DEF s


-----------------------------------------------------------------------------
(* The loops                                                                *)

MsgsOf(x, start) == SetToSeq({m \in x.stashedRecvd : m.start = start})
Unstashed(x, start) == [x EXCEPT !.stashedRecvd = {m \in @ : m.start # start}]

LEMMA StashedCheckpointsDef ==
    ASSUME NEW release, NEW x, NEW start, Len(MsgsOf(x, start)) \in Nat
    PROVE  \E at :
              /\ at[0] = Unstashed(x, start)
              /\ processStashedCheckpoints(release, x, start) = at[Len(MsgsOf(x, start))]
              /\ \A k \in 1..Len(MsgsOf(x, start)) :
                    at[k] = processCheckpoint(release, at[k - 1], MsgsOf(x, start)[k])
<1>. DEFINE a == Unstashed(x, start)
            N == Len(MsgsOf(x, start))
            step(k, z) == processCheckpoint(release, z, MsgsOf(x, start)[k])
            Is(g, n0) == g = [k \in 0..n0 |-> IF k = 0 THEN a ELSE step(k, g[k - 1])]
            S == {k \in 0..N : \E g : Is(g, k)}
            done == CHOOSE g : Is(g, N)
<1>1. N \in Nat
  OBVIOUS
<1>2. processStashedCheckpoints(release, x, start) = done[N]
  BY DEF processStashedCheckpoints, MsgsOf, Unstashed
<1>. HIDE DEF step, N, a
<1>3. 0 \in S
  <2>. DEFINE g == [k \in 0..0 |-> a]
  <2>1. Is(g, 0)
    OBVIOUS
  <2>. HIDE DEF Is, g
  <2>. QED BY <1>1, <2>1
<1>4. ASSUME NEW k \in 0..(N - 1), k \in S PROVE k + 1 \in S
  <2>1. PICK g : Is(g, k)
    BY <1>4
  <2>2. k \in Nat /\ k + 1 \in 0..N /\ (k + 1) - 1 = k /\ k + 1 # 0
    BY <1>1
  <2>. DEFINE h == [i \in 0..(k + 1) |-> IF i = k + 1 THEN step(k + 1, g[k]) ELSE g[i]]
  <2>3. ASSUME NEW i \in 0..(k + 1)
        PROVE  h[i] = IF i = 0 THEN a ELSE step(i, h[i - 1])
    <3>1. CASE i = k + 1
      <4>1. h[k] = g[k] /\ h[k + 1] = step(k + 1, g[k])
        BY <2>2
      <4>. HIDE DEF h
      <4>. QED BY <2>2, <3>1, <4>1
    <3>2. CASE i # k + 1
      <4>1. i \in 0..k
        BY <2>2, <3>2
      <4>2. g[i] = IF i = 0 THEN a ELSE step(i, g[i - 1])
        BY <2>1, <4>1, Zenon
      <4>3. h[i] = g[i] /\ (i # 0 => h[i - 1] = g[i - 1])
        BY <2>2, <3>2, <4>1
      <4>. HIDE DEF h
      <4>. QED BY <4>2, <4>3
    <3>. QED BY <3>1, <3>2
  <2>4. h = [i \in 0..(k + 1) |-> h[i]]
    OBVIOUS
  <2>. HIDE DEF h
  <2>5. Is(h, k + 1)
    BY <2>3, <2>4
  <2>. HIDE DEF Is
  <2>. QED BY <2>2, <2>5
<1>. HIDE DEF S
<1>5. N \in S
  <2>1. 0..N \subseteq S
    BY <1>1, <1>3, <1>4, InductionUpTo
  <2>. QED BY <1>1, <2>1
<1>6. Is(done, N)
  <2>. HIDE DEF Is
  <2>. QED BY <1>5 DEF S
<1>7. \A k \in 0..N : done[k] = IF k = 0 THEN a ELSE step(k, done[k - 1])
  <2>. HIDE DEF done
  <2>. QED BY <1>6, Zenon
<1>. HIDE DEF done, Is
<1>8. done[0] = a /\ \A k \in 1..N : done[k] = step(k, done[k - 1])
  BY <1>1, <1>7
<1>. QED BY <1>2, <1>8 DEF step, N, a

Popped(at, release, x) ==
    /\ at[0] = x
    /\ processStashedMsgsForNewWaterMarks(release, x) = at[StashedCount(x)]
    /\ \A k \in 1..StashedCount(x) : at[k] = popleft(release, at[k - 1])

LEMMA NewWaterMarksDef ==
    ASSUME NEW release, NEW x, StashedCount(x) \in Nat
    PROVE  \E at : Popped(at, release, x)
<1>. DEFINE a == x
            N == StashedCount(x)
            step(k, z) == popleft(release, z)
            Is(g, n0) == g = [k \in 0..n0 |-> IF k = 0 THEN a ELSE step(k, g[k - 1])]
            S == {k \in 0..N : \E g : Is(g, k)}
            done == CHOOSE g : Is(g, N)
<1>1. N \in Nat
  OBVIOUS
<1>2. processStashedMsgsForNewWaterMarks(release, x) = done[N]
  BY DEF processStashedMsgsForNewWaterMarks
<1>. HIDE DEF step, N, a
<1>3. 0 \in S
  <2>. DEFINE g == [k \in 0..0 |-> a]
  <2>1. Is(g, 0)
    OBVIOUS
  <2>. HIDE DEF Is, g
  <2>. QED BY <1>1, <2>1
<1>4. ASSUME NEW k \in 0..(N - 1), k \in S PROVE k + 1 \in S
  <2>1. PICK g : Is(g, k)
    BY <1>4
  <2>2. k \in Nat /\ k + 1 \in 0..N /\ (k + 1) - 1 = k /\ k + 1 # 0
    BY <1>1
  <2>. DEFINE h == [i \in 0..(k + 1) |-> IF i = k + 1 THEN step(k + 1, g[k]) ELSE g[i]]
  <2>3. ASSUME NEW i \in 0..(k + 1)
        PROVE  h[i] = IF i = 0 THEN a ELSE step(i, h[i - 1])
    <3>1. CASE i = k + 1
      <4>1. h[k] = g[k] /\ h[k + 1] = step(k + 1, g[k])
        BY <2>2
      <4>. HIDE DEF h
      <4>. QED BY <2>2, <3>1, <4>1
    <3>2. CASE i # k + 1
      <4>1. i \in 0..k
        BY <2>2, <3>2
      <4>2. g[i] = IF i = 0 THEN a ELSE step(i, g[i - 1])
        BY <2>1, <4>1, Zenon
      <4>3. h[i] = g[i] /\ (i # 0 => h[i - 1] = g[i - 1])
        BY <2>2, <3>2, <4>1
      <4>. HIDE DEF h
      <4>. QED BY <4>2, <4>3
    <3>. QED BY <3>1, <3>2
  <2>4. h = [i \in 0..(k + 1) |-> h[i]]
    OBVIOUS
  <2>. HIDE DEF h
  <2>5. Is(h, k + 1)
    BY <2>3, <2>4
  <2>. HIDE DEF Is
  <2>. QED BY <2>2, <2>5
<1>. HIDE DEF S
<1>5. N \in S
  <2>1. 0..N \subseteq S
    BY <1>1, <1>3, <1>4, InductionUpTo
  <2>. QED BY <1>1, <2>1
<1>6. Is(done, N)
  <2>. HIDE DEF Is
  <2>. QED BY <1>5 DEF S
<1>7. \A k \in 0..N : done[k] = IF k = 0 THEN a ELSE step(k, done[k - 1])
  <2>. HIDE DEF done
  <2>. QED BY <1>6, Zenon
<1>. HIDE DEF done, Is
<1>8. done[0] = a /\ \A k \in 1..N : done[k] = step(k, done[k - 1])
  BY <1>1, <1>7
<1>9. Popped(done, release, x)
  BY <1>2, <1>8 DEF step, N, a, Popped
<1>. QED BY <1>9

LEMMA ReleasedDef ==
    ASSUME NEW n \in Nat
    PROVE  \E at :
              /\ at[0] = [x \in ReplicaState |-> x] /\ released(n) = at[n]
              /\ \A k \in 1..n :
                    at[k] = [x \in ReplicaState |-> processStashedMsgsForNewWaterMarks(at[k - 1], x)]
<1>. DEFINE a == [x \in ReplicaState |-> x]
            N == n
            step(k, rel) == [x \in ReplicaState |-> processStashedMsgsForNewWaterMarks(rel, x)]
            Is(g, n0) == g = [k \in 0..n0 |-> IF k = 0 THEN a ELSE step(k, g[k - 1])]
            S == {k \in 0..N : \E g : Is(g, k)}
            done == CHOOSE g : Is(g, N)
<1>1. N \in Nat
  OBVIOUS
<1>2. released(n) = done[N]
  BY DEF released
<1>. HIDE DEF step, N, a
<1>3. 0 \in S
  <2>. DEFINE g == [k \in 0..0 |-> a]
  <2>1. Is(g, 0)
    OBVIOUS
  <2>. HIDE DEF Is, g
  <2>. QED BY <1>1, <2>1
<1>4. ASSUME NEW k \in 0..(N - 1), k \in S PROVE k + 1 \in S
  <2>1. PICK g : Is(g, k)
    BY <1>4
  <2>2. k \in Nat /\ k + 1 \in 0..N /\ (k + 1) - 1 = k /\ k + 1 # 0
    BY <1>1
  <2>. DEFINE h == [i \in 0..(k + 1) |-> IF i = k + 1 THEN step(k + 1, g[k]) ELSE g[i]]
  <2>3. ASSUME NEW i \in 0..(k + 1)
        PROVE  h[i] = IF i = 0 THEN a ELSE step(i, h[i - 1])
    <3>1. CASE i = k + 1
      <4>1. h[k] = g[k] /\ h[k + 1] = step(k + 1, g[k])
        BY <2>2
      <4>. HIDE DEF h
      <4>. QED BY <2>2, <3>1, <4>1
    <3>2. CASE i # k + 1
      <4>1. i \in 0..k
        BY <2>2, <3>2
      <4>2. g[i] = IF i = 0 THEN a ELSE step(i, g[i - 1])
        BY <2>1, <4>1, Zenon
      <4>3. h[i] = g[i] /\ (i # 0 => h[i - 1] = g[i - 1])
        BY <2>2, <3>2, <4>1
      <4>. HIDE DEF h
      <4>. QED BY <4>2, <4>3
    <3>. QED BY <3>1, <3>2
  <2>4. h = [i \in 0..(k + 1) |-> h[i]]
    OBVIOUS
  <2>. HIDE DEF h
  <2>5. Is(h, k + 1)
    BY <2>3, <2>4
  <2>. HIDE DEF Is
  <2>. QED BY <2>2, <2>5
<1>. HIDE DEF S
<1>5. N \in S
  <2>1. 0..N \subseteq S
    BY <1>1, <1>3, <1>4, InductionUpTo
  <2>. QED BY <1>1, <2>1
<1>6. Is(done, N)
  <2>. HIDE DEF Is
  <2>. QED BY <1>5 DEF S
<1>7. \A k \in 0..N : done[k] = IF k = 0 THEN a ELSE step(k, done[k - 1])
  <2>. HIDE DEF done
  <2>. QED BY <1>6, Zenon
<1>. HIDE DEF done, Is
<1>8. done[0] = a /\ \A k \in 1..N : done[k] = step(k, done[k - 1])
  BY <1>1, <1>7
<1>. QED BY <1>2, <1>8 DEF step, N, a


-----------------------------------------------------------------------------
(* One checkpoint                                                           *)

\* y is x with other windows.
Rewindowed(y, x, cps) ==
    y \in [seen : {x.seen}, log : {x.log}, lastOrdered : {x.lastOrdered}, checkpoints : {cps},
           stashedRecvd : {x.stashedRecvd}, stashed : {x.stashed}, h : {x.h},
           failed : {x.failed}, out : {x.out}]

LEMMA RewindowedOK ==
    ASSUME NEW completed, NEW x, Good(x, completed), NEW cps \in SUBSET CheckpointState,
           NEW y, Rewindowed(y, x, cps), WindowsOK(y),
           \A c \in cps : \A q \in c.receivedDigests : <<q, c.start>> \in completed
    PROVE  Good(y, completed)
<1>1. y \in ReplicaState
  BY DEF Good, Rewindowed, ReplicaState
<1>2. /\ y.seen = x.seen /\ y.log = x.log /\ y.lastOrdered = x.lastOrdered /\ y.checkpoints = cps
      /\ y.stashedRecvd = x.stashedRecvd /\ y.stashed = x.stashed /\ y.h = x.h
      /\ y.failed = x.failed /\ y.out = x.out
  BY DEF Rewindowed
<1>3. DigestsOK(y, completed) /\ HBacked(y, completed)
  BY <1>2 DEF Good, DigestsOK, HBacked
<1>. QED BY <1>1, <1>2, <1>3 DEF Good, H

LEMMA Fields ==
    ASSUME NEW c \in CheckpointState
    PROVE  /\ c.start \in SeqNos /\ c.start \in Nat /\ c.seqNo \in SeqNos /\ c.seqNo \in Nat
           /\ c.count \in Nat /\ c.receivedDigests \in SUBSET Replicas /\ c.isStable \in BOOLEAN
           /\ seqNoEnd(c.start) = c.start + CHK_FREQ - 1 /\ seqNoEnd(c.start) \in Nat
<1>1. /\ c.start \in SeqNos /\ c.seqNo \in SeqNos /\ c.count \in Nat
      /\ c.receivedDigests \in SUBSET Replicas /\ c.isStable \in BOOLEAN
  BY DEF CheckpointState
<1>2. c.start \in Nat /\ c.seqNo \in Nat /\ c.start >= 1
  BY <1>1, Sizes
<1>. QED BY <1>1, <1>2, Sizes DEF seqNoEnd

\* w.new is a window of x that ends with n, and comes after the others but w.old.
Fits(w, x, n, completed) ==
    /\ w.new \in CheckpointState /\ w.new.start <= n
    /\ w.new.isStable = FALSE /\ w.new.seqNo = n /\ x.h < w.new.start
    /\ 1 <= w.new.count /\ w.new.count <= n - w.new.start + 1 /\ n <= seqNoEnd(w.new.start)
    /\ \A q \in w.new.receivedDigests : <<q, w.new.start>> \in completed
    /\ \A o \in x.checkpoints \ w.old : seqNoEnd(o.start) < w.new.start

\* The window a batch falls into is the one window that is not full before it.
LEMMA OwnWindow ==
    ASSUME NEW completed, NEW x, Good(x, completed), NEW n \in SeqNos, x.h < n, n <= x.lastOrdered,
           \A c \in x.checkpoints : c.seqNo < n
    PROVE  Fits(Extended(x, n), x, n, completed)
<1>. DEFINE w == Extended(x, n)
            own == {c \in x.checkpoints : c.start <= n /\ n <= seqNoEnd(c.start)}
            c == CHOOSE c \in own : TRUE
<1>1. /\ x.checkpoints \subseteq CheckpointState /\ WindowsOK(x) /\ DigestsOK(x, completed)
      /\ x.h \in Nat /\ x.lastOrdered \in Nat /\ n \in Nat /\ n >= 1
  BY Sizes DEF Good, ReplicaState
<1>2. \A o \in x.checkpoints : /\ o.start \in Nat /\ o.seqNo \in Nat /\ o.count \in Nat
                               /\ o.start <= o.seqNo /\ o.start < n /\ o.isStable \in BOOLEAN
  <2>. TAKE o \in x.checkpoints
  <2>1. o \in CheckpointState /\ WindowOK(x, o) /\ o.seqNo < n
    BY <1>1 DEF WindowsOK
  <2>. QED BY <1>1, <2>1, Fields DEF WindowOK
<1>3. \A o \in x.checkpoints : o \notin own => seqNoEnd(o.start) < n
  BY <1>1, <1>2, Sizes DEF seqNoEnd
<1>4. w.old = own /\ w.new = IF own = {} THEN _newCheckpointState(n)
                             ELSE [c EXCEPT !.seqNo = n, !.count = @ + 1]
  BY DEF Extended
<1>5. CASE own = {}
  <2>1. /\ w.new \in [start : {n}, seqNo : {n}, count : {1}, receivedDigests : {{}}, isStable : {FALSE}]
        /\ w.old = {}
    <3>. HIDE DEF w, own, c
    <3>. QED BY <1>4, <1>5 DEF _newCheckpointState
  <2>. HIDE DEF w, own, c
  <2>2. w.new \in CheckpointState
    <3>1. w.new = _newCheckpointState(n)
      BY <1>4, <1>5
    <3>2. _newCheckpointState(n) \in CheckpointState
      BY DEF _newCheckpointState, CheckpointState
    <3>. QED BY <3>1, <3>2
  <2>3. n <= seqNoEnd(n)
    BY <1>1, Sizes DEF seqNoEnd
  <2>4. \A o \in x.checkpoints \ w.old : seqNoEnd(o.start) < w.new.start
    BY <1>3, <1>5, <2>1
  <2>5. w.new.start = n /\ w.new.seqNo = n /\ w.new.count = 1 /\ w.new.isStable = FALSE
        /\ w.new.receivedDigests = {}
    BY <2>1
  <2>6. 1 <= n - n + 1
    BY <1>1
  <2>. QED BY <1>1, <2>2, <2>3, <2>4, <2>5, <2>6 DEF w, Fits
<1>6. CASE own # {}
  <2>1. c \in own
    BY <1>6
  <2>. HIDE DEF c
  <2>2. c \in x.checkpoints /\ c.start <= n /\ n <= seqNoEnd(c.start) /\ c \in CheckpointState
    BY <1>1, <2>1
  <2>3. WindowOK(x, c) /\ c.start \in Nat /\ c.seqNo \in Nat /\ c.count \in Nat /\ c.seqNo < n
    BY <1>1, <1>2, <2>2 DEF WindowsOK
  <2>4. c.isStable = FALSE /\ x.h < c.start
    BY <1>1, <1>2, <2>2, <2>3, Sizes DEF WindowOK, seqNoEnd
  <2>5. w.new \in [start : {c.start}, seqNo : {n}, count : {c.count + 1},
                   receivedDigests : {c.receivedDigests}, isStable : {FALSE}]
    <3>. HIDE DEF w, own
    <3>. QED BY <1>4, <1>6, <2>2, <2>4 DEF CheckpointState
  <2>10. w.new.start = c.start /\ w.new.seqNo = n /\ w.new.count = c.count + 1
         /\ w.new.isStable = FALSE /\ w.new.receivedDigests = c.receivedDigests
    <3>. HIDE DEF w, own
    <3>. QED BY <2>5
  <2>6. w.new \in CheckpointState
    <3>. HIDE DEF w, own
    <3>1. c.start \in SeqNos /\ c.receivedDigests \in SUBSET Replicas /\ c.count + 1 \in Nat
      BY <2>2, <2>3, Fields
    <3>. QED BY <2>5, <3>1 DEF CheckpointState
  <2>7. \A o \in x.checkpoints : o # c => seqNoEnd(o.start) < c.start
    BY <1>1, <1>2, <2>2, <2>3, Sizes DEF WindowsOK, WindowOK, seqNoEnd
  <2>8. \A o \in x.checkpoints \ w.old : seqNoEnd(o.start) < w.new.start
    BY <1>4, <2>1, <2>5, <2>7
  <2>9. \A q \in w.new.receivedDigests : <<q, w.new.start>> \in completed
    BY <1>1, <2>2, <2>5 DEF DigestsOK
  <2>. HIDE DEF w, own
  <2>11. 1 <= c.count + 1 /\ c.count + 1 <= n - c.start + 1
    BY <1>1, <2>3 DEF WindowOK
  <2>. QED BY <1>1, <2>2, <2>4, <2>6, <2>8, <2>9, <2>10, <2>11 DEF w, Fits
<1>. QED BY <1>5, <1>6


\* The window v beside some of the windows of x.
LEMMA ReplaceWindow ==
    ASSUME NEW completed, NEW x, Good(x, completed), NEW others, others \subseteq x.checkpoints,
           NEW v \in CheckpointState, v.isStable = FALSE, WindowOK(x, v),
           \A q \in v.receivedDigests : <<q, v.start>> \in completed,
           \A o \in others : \/ seqNoEnd(o.start) < v.start
                             \/ o.isStable = FALSE /\ seqNoEnd(v.start) < o.start,
           NEW y, Rewindowed(y, x, others \cup {v})
    PROVE  Good(y, completed)
<1>. DEFINE cps == others \cup {v}
<1>1. x.checkpoints \in SUBSET CheckpointState /\ WindowsOK(x) /\ DigestsOK(x, completed)
  BY DEF Good, ReplicaState
<1>2. cps \in SUBSET CheckpointState
  BY <1>1
<1>3. y.lastOrdered = x.lastOrdered /\ y.h = x.h /\ y.checkpoints = cps
  BY DEF Rewindowed
<1>4. \A c \in cps : WindowOK(y, c)
  BY <1>1, <1>3 DEF WindowsOK, WindowOK
<1>5. \A c, o \in others : /\ c = o \/ seqNoEnd(c.start) < o.start \/ seqNoEnd(o.start) < c.start
                           /\ c.isStable => c.start <= o.start
  BY <1>1 DEF WindowsOK
<1>6. \A o \in others : o.isStable => o.start <= v.start
  <2>. TAKE o \in others
  <2>1. o \in CheckpointState /\ v \in CheckpointState
    BY <1>1
  <2>2. /\ o.start \in Nat /\ v.start \in Nat /\ seqNoEnd(o.start) = o.start + CHK_FREQ - 1
        /\ o.isStable \in BOOLEAN
    BY <2>1, Fields
  <2>. QED BY <2>2, Sizes
<1>7. WindowsOK(y)
  <2>1. \A c, o \in cps : c = o \/ seqNoEnd(c.start) < o.start \/ seqNoEnd(o.start) < c.start
    BY <1>5
  <2>2. \A c, o \in cps : c.isStable => c.start <= o.start
    BY <1>5, <1>6
  <2>. HIDE DEF cps
  <2>. QED BY <1>3, <1>4, <2>1, <2>2 DEF WindowsOK
<1>8. \A c \in cps : \A q \in c.receivedDigests : <<q, c.start>> \in completed
  BY <1>1 DEF DigestsOK
<1>9. Rewindowed(y, x, cps)
  OBVIOUS
<1>. HIDE DEF cps
<1>. QED BY <1>2, <1>7, <1>8, <1>9, RewindowedOK

LEMMA AddWindow ==
    ASSUME NEW completed, NEW x, Good(x, completed), NEW n \in SeqNos, x.h < n, n <= x.lastOrdered,
           \A c \in x.checkpoints : c.seqNo < n,
           NEW w, w = Extended(x, n),
           NEW y, Rewindowed(y, x, (x.checkpoints \ w.old) \cup {w.new})
    PROVE  /\ Good(y, completed) /\ w.new.start \in SeqNos
           /\ w.new.count = CHK_FREQ => seqNoEnd(w.new.start) <= x.lastOrdered
<1>. DEFINE v == w.new
            others == x.checkpoints \ w.old
<1>1. /\ v \in CheckpointState /\ v.start <= n
      /\ v.isStable = FALSE /\ v.seqNo = n /\ x.h < v.start
      /\ 1 <= v.count /\ v.count <= n - v.start + 1 /\ n <= seqNoEnd(v.start)
      /\ \A q \in v.receivedDigests : <<q, v.start>> \in completed
      /\ \A o \in others : seqNoEnd(o.start) < v.start
  <2>1. Fits(w, x, n, completed)
    BY OwnWindow
  <2>. QED BY <2>1 DEF Fits
<1>2. others \subseteq x.checkpoints /\ Rewindowed(y, x, others \cup {v})
  OBVIOUS
<1>. HIDE DEF v, others
<1>3. WindowOK(x, v)
  BY <1>1 DEF WindowOK
<1>4. Good(y, completed)
  BY <1>1, <1>2, <1>3, ReplaceWindow
<1>5. v.start \in SeqNos /\ (v.count = CHK_FREQ => seqNoEnd(v.start) <= x.lastOrdered)
  <2>1. x.lastOrdered \in Nat
    BY DEF Good, ReplicaState
  <2>. QED BY <1>1, <2>1, Fields, Sizes
<1>. QED BY <1>4, <1>5 DEF v


-----------------------------------------------------------------------------
(* A stable checkpoint                                                      *)

\* y is x with the watermarks at the end of the window d.
Moved(y, x, d) ==
    y \in [seen : {x.seen}, log : {{k \in x.log : k > d.seqNo}}, lastOrdered : {x.lastOrdered},
           checkpoints : {{[d EXCEPT !.isStable = TRUE, !.receivedDigests = {}]}
                             \cup {o \in x.checkpoints : o.start > d.start}},
           stashedRecvd : {x.stashedRecvd}, stashed : {x.stashed}, h : {d.seqNo},
           failed : {x.failed}, out : {x.out}]

LEMMA MovedOK ==
    ASSUME NEW completed, NEW x, Good(x, completed), NEW d \in x.checkpoints, d.isStable = FALSE,
           d.count = CHK_FREQ, Cardinality(d.receivedDigests) = 2 * f,
           NEW y, Moved(y, x, d)
    PROVE  Good(y, completed) /\ x.h <= y.h
<1>. DEFINE e == [d EXCEPT !.isStable = TRUE, !.receivedDigests = {}]
            later == {o \in x.checkpoints : o.start > d.start}
            log == {k \in x.log : k > d.seqNo}
            backers == {q \in Replicas : <<q, d.start>> \in completed}
<1>1. /\ x.checkpoints \in SUBSET CheckpointState /\ WindowsOK(x) /\ DigestsOK(x, completed)
      /\ x.h \in Nat /\ x.lastOrdered \in Nat /\ x.log \subseteq x.h + 1 .. H(x)
      /\ x.log \in SUBSET SeqNos
  BY DEF Good, ReplicaState
<1>2. /\ d \in CheckpointState /\ d.start \in SeqNos /\ d.start \in Nat /\ d.seqNo \in SeqNos /\ d.seqNo \in Nat
      /\ d.receivedDigests \in SUBSET Replicas
      /\ seqNoEnd(d.start) = d.start + CHK_FREQ - 1 /\ WindowOK(x, d)
  BY <1>1, Fields DEF WindowsOK
<1>3. d.seqNo = seqNoEnd(d.start) /\ x.h < d.seqNo /\ d.seqNo <= x.lastOrdered
  BY <1>1, <1>2, Sizes DEF WindowOK
<1>4. /\ y.seen = x.seen /\ y.log = log /\ y.lastOrdered = x.lastOrdered
      /\ y.checkpoints = {e} \cup later /\ y.stashedRecvd = x.stashedRecvd
      /\ y.stashed = x.stashed /\ y.h = d.seqNo /\ y.failed = x.failed /\ y.out = x.out
  BY DEF Moved
<1>5. e \in [start : {d.start}, seqNo : {d.seqNo}, count : {d.count},
             receivedDigests : {{}}, isStable : {TRUE}]
  BY <1>2 DEF CheckpointState
<1>. HIDE DEF e
<1>6. e \in CheckpointState
  <2>1. d.start \in SeqNos /\ d.seqNo \in SeqNos /\ d.count \in Nat
    BY <1>2, Sizes
  <2>2. {} \in SUBSET Replicas /\ TRUE \in BOOLEAN
    OBVIOUS
  <2>. QED BY <1>5, <2>1, <2>2 DEF CheckpointState
<1>7. e.start = d.start /\ e.seqNo = d.seqNo /\ e.count = d.count /\ e.receivedDigests = {} /\ e.isStable = TRUE
  BY <1>5
<1>8. \A o \in later : /\ o \in CheckpointState /\ o.isStable = FALSE
                       /\ d.seqNo < o.start /\ WindowOK(x, o)
  <2>. TAKE o \in later
  <2>1. /\ o \in CheckpointState /\ o.start \in Nat /\ seqNoEnd(o.start) = o.start + CHK_FREQ - 1
        /\ o.isStable \in BOOLEAN /\ o.start > d.start
    BY <1>1, Fields
  <2>2. o.isStable => o.start <= d.start
    BY <1>1 DEF WindowsOK
  <2>3. o = d \/ seqNoEnd(o.start) < d.start \/ seqNoEnd(d.start) < o.start
    BY <1>1 DEF WindowsOK
  <2>. QED BY <1>1, <1>2, <1>3, <2>1, <2>2, <2>3, Sizes DEF WindowsOK
<1>9. y \in ReplicaState
  <2>1. {e} \cup later \in SUBSET CheckpointState
    BY <1>6, <1>8
  <2>2. log \in SUBSET SeqNos
    BY <1>1
  <2>. HIDE DEF later, log
  <2>3. y \in [seen : {x.seen}, log : {log}, lastOrdered : {x.lastOrdered}, checkpoints : {{e} \cup later},
               stashedRecvd : {x.stashedRecvd}, stashed : {x.stashed}, h : {d.seqNo},
               failed : {x.failed}, out : {x.out}]
    BY DEF Moved, e, later, log
  <2>4. /\ x.seen \in Nat /\ x.lastOrdered \in Nat /\ x.stashedRecvd \in SUBSET CheckpointMsg
        /\ x.stashed \in Seq(SeqNos) /\ x.failed \in BOOLEAN /\ x.out \in SUBSET SeqNos
    BY DEF Good, ReplicaState
  <2>. QED BY <1>2, <2>1, <2>2, <2>3, <2>4 DEF ReplicaState
<1>10. WindowsOK(y)
  <2>1. \A c \in {e} \cup later : WindowOK(y, c)
    <3>1. WindowOK(y, e)
      BY <1>2, <1>3, <1>4, <1>7 DEF WindowOK
    <3>2. ASSUME NEW c \in later PROVE WindowOK(y, c)
      BY <1>4, <1>8 DEF WindowOK
    <3>. QED BY <3>1, <3>2
  <2>2. \A c, o \in later : c = o \/ seqNoEnd(c.start) < o.start \/ seqNoEnd(o.start) < c.start
    BY <1>1 DEF WindowsOK
  <2>3. \A o \in later : seqNoEnd(e.start) < o.start /\ e.start <= o.start
    <3>. TAKE o \in later
    <3>1. o.start \in Nat
      BY <1>8, Fields
    <3>. QED BY <1>2, <1>3, <1>7, <1>8, <3>1
  <2>4. e.start <= e.start
    BY <1>2, <1>7
  <2>. HIDE DEF later
  <2>5. \A c, o \in {e} \cup later :
            /\ c = o \/ seqNoEnd(c.start) < o.start \/ seqNoEnd(o.start) < c.start
            /\ c.isStable => c.start <= o.start
    BY <1>8, <2>2, <2>3, <2>4
  <2>. QED BY <1>4, <2>1, <2>5 DEF WindowsOK
<1>11. DigestsOK(y, completed)
  BY <1>1, <1>4, <1>7 DEF DigestsOK
<1>12. HBacked(y, completed)
  <2>1. d.receivedDigests \subseteq backers
    BY <1>1, <1>2 DEF DigestsOK
  <2>2. IsFiniteSet(backers) /\ Cardinality(backers) >= Cardinality(d.receivedDigests)
    <3>1. IsFiniteSet(backers)
      BY Sizes, FS_Subset
    <3>. HIDE DEF backers
    <3>. QED BY <2>1, <3>1, FS_Subset
  <2>. QED BY <1>2, <1>3, <1>4, <2>2 DEF HBacked
<1>13. y.log \subseteq y.h + 1 .. H(y)
  <2>1. ASSUME NEW n \in x.log, n > d.seqNo PROVE n \in d.seqNo + 1 .. d.seqNo + LOG_SIZE
    BY <1>1, <1>2, <1>3, <2>1, Sizes DEF H
  <2>. QED BY <1>4, <2>1 DEF H
<1>. HIDE DEF later, log, backers
<1>14. /\ y.h <= y.lastOrdered /\ y.lastOrdered <= y.seen
       /\ \A i \in 1..Len(y.stashed) : y.stashed[i] <= y.seen
       /\ \A s \in y.out : seqNoEnd(s) <= y.lastOrdered
       /\ y.failed => y.stashed = <<>>
  BY <1>3, <1>4 DEF Good
<1>15. Good(y, completed)
  BY <1>9, <1>10, <1>11, <1>12, <1>13, <1>14 DEF Good
<1>. QED BY <1>1, <1>2, <1>3, <1>4, <1>15


\* z is as good as x, with everything waiting as the flight of a call allows, and
\* its stash has not grown by more than m.
Handled(z, x, k, m, completed) ==
    /\ Good(z, completed) /\ Waits(z, k, {}) /\ Later(z, x)
    /\ Len(z.stashed) <= Len(x.stashed) + m

\* With another h, or k, and the same stash, what waits is still there.
LEMMA AllWait ==
    ASSUME NEW x, NEW completed, Good(x, completed), NEW k, Waits(x, k, {}), NEW y, Later(y, x),
           y.stashed = x.stashed, NEW lo, lo = y.lastOrdered, lo \in Nat
    PROVE  Waits(y, Len(y.stashed), {})
<1>1. x.lastOrdered \in Nat /\ x.seen \in Nat
  BY DEF Good, ReplicaState
<1>. QED BY <1>1 DEF Waits, Later

LEMMA MarkKeeps ==
    ASSUME NEW completed, NEW x, Good(x, completed), NEW d \in x.checkpoints, d.isStable = FALSE,
           d.count = CHK_FREQ, Cardinality(d.receivedDigests) = 2 * f,
           NEW k \in Nat, Waits(x, k, {}), NEW depth \in Nat, Len(x.stashed) <= depth,
           NEW release, Contract(release, depth, completed)
    PROVE  Handled(markCheckPointStable(release, x, d), x, k, 0, completed)
<1>. DEFINE cps == {[d EXCEPT !.isStable = TRUE, !.receivedDigests = {}]}
                       \cup {o \in x.checkpoints : o.start > d.start}
            y == gc([x EXCEPT !.checkpoints = cps, !.h = d.seqNo], d.seqNo)
            z == markCheckPointStable(release, x, d)
<1>1. z = release[y]
  BY DEF markCheckPointStable
<1>2. Moved(y, x, d)
  <2>. HIDE DEF cps
  <2>1. y \in [seen : {x.seen}, log : {{n \in x.log : n > d.seqNo}}, lastOrdered : {x.lastOrdered},
               checkpoints : {cps}, stashedRecvd : {x.stashedRecvd}, stashed : {x.stashed},
               h : {d.seqNo}, failed : {x.failed}, out : {x.out}]
    BY DEF gc, Good, ReplicaState
  <2>. QED BY <2>1 DEF Moved, cps
<1>. HIDE DEF y
<1>3. Good(y, completed)
  BY <1>2, MovedOK
<1>4. y.seen = x.seen /\ y.lastOrdered = x.lastOrdered /\ y.stashed = x.stashed
  BY <1>2 DEF Moved
<1>5. /\ y \in ReplicaState /\ y.lastOrdered \in Nat /\ x.stashed \in Seq(SeqNos)
      /\ Len(x.stashed) \in Nat
  BY <1>3, LenProperties DEF Good, ReplicaState
<1>6. Waits(y, Len(y.stashed), {})
  <2>1. Later(y, x)
    BY <1>4, <1>5 DEF Later
  <2>. QED BY <1>4, <1>5, <2>1, AllWait
<1>7. /\ Good(release[y], completed) /\ Waits(release[y], 0, {})
      /\ Later(release[y], y) /\ Len(release[y].stashed) <= Len(y.stashed)
  BY <1>3, <1>4, <1>5, <1>6 DEF Contract
<1>8. Good(z, completed) /\ Waits(z, 0, {}) /\ Later(z, x) /\ Len(z.stashed) <= Len(x.stashed) + 0
  <2>1. z.stashed \in Seq(SeqNos)
    BY <1>1, <1>7 DEF Good, ReplicaState
  <2>. QED BY <1>1, <1>4, <1>5, <1>7, <2>1, LenProperties DEF Later
<1>. HIDE DEF z
<1>9. Waits(z, k, {})
  <2>1. z.stashed \in Seq(SeqNos) /\ Len(z.stashed) \in Nat
    BY <1>8, LenProperties DEF Good, ReplicaState
  <2>. QED BY <1>8, <2>1 DEF Waits
<1>. QED BY <1>8, <1>9 DEF Handled, z

\* A CHECKPOINT counts once the window is complete here, and is kept till then.
LEMMA ProcessKeeps ==
    ASSUME NEW completed, NEW x, Good(x, completed), NEW m \in CheckpointMsg,
           m.digest = "right" => <<m.from, m.start>> \in completed,
           NEW k \in Nat, Waits(x, k, {}), NEW depth \in Nat, Len(x.stashed) <= depth,
           NEW release, Contract(release, depth, completed)
    PROVE  Handled(processCheckpoint(release, x, m), x, k, 0, completed)
<1>. DEFINE own == {c \in x.checkpoints : c.start = m.start /\ c.count = CHK_FREQ}
            c == CHOOSE c \in own : TRUE
            d == [c EXCEPT !.receivedDigests = @ \cup {m.from}]
            y == [x EXCEPT !.checkpoints = (@ \ {c}) \cup {d}]
            z == processCheckpoint(release, x, m)
<1>1. /\ x \in ReplicaState /\ x.checkpoints \in SUBSET CheckpointState
      /\ x.lastOrdered \in Nat /\ x.seen \in Nat /\ Len(x.stashed) \in Nat
      /\ m.start \in SeqNos /\ m.from \in Replicas /\ m.digest \in {"right", "wrong"}
      /\ WindowsOK(x) /\ DigestsOK(x, completed)
  BY LenProperties DEF Good, ReplicaState, CheckpointMsg
<1>2. Handled(x, x, k, 0, completed)
  BY <1>1 DEF Handled, Later
<1>3. z = IF isPpSeqNoStable(x, seqNoEnd(m.start)) THEN x
          ELSE IF own = {} THEN stashCheckpoint(x, m)
          ELSE IF m.digest = "wrong" THEN x
          ELSE IF checkIfCheckpointStable(d) THEN markCheckPointStable(release, y, d) ELSE y
  BY DEF processCheckpoint
<1>4. Handled(stashCheckpoint(x, m), x, k, 0, completed)
  <2>. DEFINE kept == {o \in x.stashedRecvd : o.start # m.start \/ o.from # m.from} \cup {m}
              s == stashCheckpoint(x, m)
  <2>1. kept \in SUBSET CheckpointMsg /\ \A o \in kept : o.digest = "right" => <<o.from, o.start>> \in completed
    BY <1>1 DEF ReplicaState, DigestsOK
  <2>. HIDE DEF kept
  <2>2. s \in [seen : {x.seen}, log : {x.log}, lastOrdered : {x.lastOrdered},
               checkpoints : {x.checkpoints}, stashedRecvd : {kept}, stashed : {x.stashed},
               h : {x.h}, failed : {x.failed}, out : {x.out}]
    BY <1>1 DEF stashCheckpoint, kept, ReplicaState
  <2>. HIDE DEF s
  <2>3. s \in ReplicaState
    BY <1>1, <2>1, <2>2 DEF ReplicaState
  <2>4. /\ s.seen = x.seen /\ s.log = x.log /\ s.lastOrdered = x.lastOrdered
        /\ s.checkpoints = x.checkpoints /\ s.stashedRecvd = kept /\ s.stashed = x.stashed
        /\ s.h = x.h /\ s.failed = x.failed /\ s.out = x.out
    BY <2>2
  <2>5. WindowsOK(s)
    BY <1>1, <2>4 DEF WindowsOK, WindowOK
  <2>6. DigestsOK(s, completed) /\ HBacked(s, completed)
    BY <1>1, <2>1, <2>4 DEF DigestsOK, HBacked, Good
  <2>7. Good(s, completed)
    BY <2>3, <2>4, <2>5, <2>6 DEF Good, H
  <2>8. Waits(s, k, {}) /\ Later(s, x) /\ Len(s.stashed) <= Len(x.stashed) + 0
    BY <1>1, <2>4 DEF Waits, Later, H
  <2>. QED BY <2>7, <2>8 DEF Handled, s
<1>5. ASSUME ~isPpSeqNoStable(x, seqNoEnd(m.start)), own # {}, m.digest # "wrong"
      PROVE  /\ Good(y, completed) /\ Waits(y, k, {}) /\ Later(y, x) /\ y.stashed = x.stashed
             /\ d \in y.checkpoints /\ d.isStable = FALSE /\ d.count = CHK_FREQ
  <2>1. c \in own
    BY <1>5
  <2>. HIDE DEF c
  <2>2. /\ c \in x.checkpoints /\ c.start = m.start /\ c.count = CHK_FREQ /\ c \in CheckpointState
        /\ c.start \in Nat /\ c.seqNo \in Nat /\ c.isStable \in BOOLEAN /\ WindowOK(x, c)
        /\ c.receivedDigests \in SUBSET Replicas /\ c.seqNo \in SeqNos
        /\ seqNoEnd(c.start) = c.start + CHK_FREQ - 1
    BY <1>1, <2>1, Fields DEF WindowsOK
  <2>3. c.seqNo = seqNoEnd(c.start)
    BY <1>1, <2>2, Sizes DEF WindowOK
  <2>4. c.isStable = FALSE
    <3>. SUFFICES ASSUME c.isStable = TRUE PROVE FALSE
      BY <2>2
    <3>1. \A o \in x.checkpoints : c.start <= o.start
      BY <1>1, <2>2 DEF WindowsOK
    <3>2. seqNoEnd(m.start) <= c.seqNo
      BY <2>2, <2>3
    <3>. QED BY <1>5, <2>2, <3>1, <3>2 DEF isPpSeqNoStable
  <2>5. d \in [start : {c.start}, seqNo : {c.seqNo}, count : {CHK_FREQ},
               receivedDigests : {c.receivedDigests \cup {m.from}}, isStable : {FALSE}]
    BY <2>2, <2>4 DEF CheckpointState
  <2>. HIDE DEF d
  <2>6. d.start = c.start /\ d.seqNo = c.seqNo /\ d.count = CHK_FREQ /\ d.isStable = FALSE
        /\ d.receivedDigests = c.receivedDigests \cup {m.from}
    BY <2>5
  <2>7. d \in CheckpointState
    <3>1. c.receivedDigests \cup {m.from} \in SUBSET Replicas
      BY <1>1, <2>2
    <3>2. c.start \in SeqNos /\ CHK_FREQ \in Nat
      BY <2>2, Fields, Sizes
    <3>. QED BY <2>2, <2>5, <3>1, <3>2 DEF CheckpointState
  <2>8. WindowOK(x, d)
    BY <2>2, <2>4, <2>6 DEF WindowOK
  <2>9. \A q \in d.receivedDigests : <<q, d.start>> \in completed
    BY <1>1, <1>5, <2>2, <2>6 DEF DigestsOK
  <2>. DEFINE others == x.checkpoints \ {c}
  <2>10. \A o \in others : \/ seqNoEnd(o.start) < d.start
                           \/ o.isStable = FALSE /\ seqNoEnd(d.start) < o.start
    <3>. TAKE o \in others
    <3>1. /\ o \in CheckpointState /\ o.start \in Nat /\ seqNoEnd(o.start) = o.start + CHK_FREQ - 1
          /\ o.isStable \in BOOLEAN
      BY <1>1, Fields
    <3>2. (o.isStable => o.start <= c.start) /\ (seqNoEnd(o.start) < c.start \/ seqNoEnd(c.start) < o.start)
      BY <1>1, <2>2 DEF WindowsOK
    <3>. QED BY <2>2, <2>6, <3>1, <3>2, Sizes
  <2>11. Rewindowed(y, x, others \cup {d})
    BY <1>1 DEF Rewindowed, ReplicaState
  <2>. HIDE DEF y
  <2>12. others \subseteq x.checkpoints /\ y.checkpoints = others \cup {d}
    BY <2>11 DEF Rewindowed
  <2>. HIDE DEF others
  <2>13. Good(y, completed)
    BY <2>6, <2>7, <2>8, <2>9, <2>10, <2>11, <2>12, ReplaceWindow
  <2>14. y.stashed = x.stashed /\ y.seen = x.seen /\ y.lastOrdered = x.lastOrdered /\ y.h = x.h
    BY <2>11 DEF Rewindowed
  <2>15. Waits(y, k, {}) /\ Later(y, x)
    BY <1>1, <2>14 DEF Waits, Later, H
  <2>. QED BY <2>6, <2>12, <2>13, <2>14, <2>15
<1>6. ASSUME ~isPpSeqNoStable(x, seqNoEnd(m.start)), own # {}, m.digest # "wrong",
             checkIfCheckpointStable(d)
      PROVE  Handled(markCheckPointStable(release, y, d), x, k, 0, completed)
  <2>1. /\ Good(y, completed) /\ Waits(y, k, {}) /\ Later(y, x) /\ y.stashed = x.stashed
        /\ d \in y.checkpoints /\ d.isStable = FALSE /\ d.count = CHK_FREQ
    BY <1>5, <1>6
  <2>2. Cardinality(d.receivedDigests) = 2 * f
    BY <1>6 DEF checkIfCheckpointStable
  <2>. DEFINE w == markCheckPointStable(release, y, d)
  <2>. HIDE DEF y, d
  <2>3. Handled(w, y, k, 0, completed)
    BY <1>1, <2>1, <2>2, MarkKeeps
  <2>4. w.lastOrdered \in Nat /\ y.lastOrdered \in Nat
    BY <2>1, <2>3 DEF Handled, Good, ReplicaState
  <2>. HIDE DEF w
  <2>5. Handled(w, x, k, 0, completed)
    BY <1>1, <2>1, <2>3, <2>4 DEF Handled, Later
  <2>. QED BY <2>5 DEF w
<1>7. ASSUME ~isPpSeqNoStable(x, seqNoEnd(m.start)), own # {}, m.digest # "wrong"
      PROVE  Handled(y, x, k, 0, completed)
  <2>1. Good(y, completed) /\ Waits(y, k, {}) /\ Later(y, x) /\ y.stashed = x.stashed
    BY <1>5, <1>7
  <2>. HIDE DEF y
  <2>. QED BY <1>1, <2>1 DEF Handled
<1>. HIDE DEF z, y, d, c, own
<1>. QED BY <1>2, <1>3, <1>4, <1>6, <1>7 DEF z


-----------------------------------------------------------------------------
(* A batch                                                                  *)

LEMMA Onwards ==
    ASSUME NEW completed, NEW x, Good(x, completed), NEW m \in Nat, NEW y, NEW k, Handled(y, x, k, m, completed),
           NEW z, NEW k2, Handled(z, y, k2, 0, completed)
    PROVE  Handled(z, x, k2, m, completed)
<1>1. /\ x.lastOrdered \in Nat /\ y.lastOrdered \in Nat /\ z.lastOrdered \in Nat
      /\ Len(x.stashed) \in Nat /\ Len(y.stashed) \in Nat /\ Len(z.stashed) \in Nat
  BY LenProperties DEF Handled, Good, ReplicaState
<1>. QED BY <1>1 DEF Handled, Later

LEMMA MsgsFinite == IsFiniteSet(CheckpointMsg)
<1>. DEFINE digests == {"right", "wrong"}
            P == SeqNos \X (digests \X Replicas)
            msg == [p \in P |-> [start |-> p[1], digest |-> p[2][1], from |-> p[2][2]]]
<1>1. IsFiniteSet(SeqNos)
  BY Sizes, FS_Interval DEF SeqNos
<1>2. IsFiniteSet(digests)
  <2>1. IsFiniteSet({"wrong"})
    BY FS_Singleton
  <2>2. IsFiniteSet({"wrong"} \cup {"right"})
    BY <2>1, FS_AddElement
  <2>3. digests = {"wrong"} \cup {"right"}
    OBVIOUS
  <2>. HIDE DEF digests
  <2>. QED BY <2>2, <2>3
<1>3. IsFiniteSet(P)
  <2>. HIDE DEF digests
  <2>1. IsFiniteSet(digests \X Replicas)
    BY <1>2, Sizes, FS_Product
  <2>. QED BY <1>1, <2>1, FS_Product
<1>4. msg \in Surjection(P, CheckpointMsg)
  <2>1. msg \in [P -> CheckpointMsg]
    BY DEF CheckpointMsg
  <2>2. ASSUME NEW m \in CheckpointMsg PROVE \E p \in P : msg[p] = m
    <3>1. /\ m.start \in SeqNos /\ m.digest \in digests /\ m.from \in Replicas
          /\ m = [start |-> m.start, digest |-> m.digest, from |-> m.from]
      BY DEF CheckpointMsg
    <3>. DEFINE p == <<m.start, <<m.digest, m.from>>>>
    <3>2. p \in P /\ msg[p] = m
      <4>. HIDE DEF digests
      <4>. QED BY <3>1
    <3>. QED BY <3>2
  <2>. HIDE DEF P, msg
  <2>. QED BY <2>1, <2>2 DEF Surjection
<1>. HIDE DEF P, msg
<1>. QED BY <1>3, <1>4, FS_Surjection

LEMMA ListOf ==
    ASSUME NEW S, IsFiniteSet(S)
    PROVE  SetToSeq(S) \in Seq(S)
<1>1. PICK n \in Nat : ExistsBijection(1..n, S)
  BY FS_NatBijection
<1>2. Cardinality(S) = n
  BY <1>1, FS_CountingElements
<1>3. PICK g : g \in Bijection(1..n, S)
  BY <1>1 DEF ExistsBijection
<1>4. g \in [1..n -> S] /\ IsInjective(g)
  BY <1>3 DEF Bijection, Injection, IsInjective
<1>5. SetToSeq(S) \in [1..n -> S]
  BY <1>2, <1>4 DEF SetToSeq
<1>. QED BY <1>5, IsASeq


LEMMA StashedCheckpointsKeep ==
    ASSUME NEW completed, NEW x, Good(x, completed), NEW start \in SeqNos,
           NEW k \in Nat, Waits(x, k, {}), NEW depth \in Nat, Len(x.stashed) <= depth,
           NEW release, Contract(release, depth, completed)
    PROVE  Handled(processStashedCheckpoints(release, x, start), x, k, 0, completed)
<1>. DEFINE chosen == {m \in x.stashedRecvd : m.start = start}
            msgs == MsgsOf(x, start)
            N == Len(msgs)
            rest == {m \in x.stashedRecvd : m.start # start}
            a == Unstashed(x, start)
            V == {z \in ReplicaState : Handled(z, x, k, 0, completed)}
<1>1. /\ x \in ReplicaState /\ x.stashedRecvd \in SUBSET CheckpointMsg
      /\ x.lastOrdered \in Nat /\ x.seen \in Nat /\ Len(x.stashed) \in Nat
      /\ WindowsOK(x) /\ DigestsOK(x, completed)
  BY LenProperties DEF Good, ReplicaState
<1>2. chosen \in SUBSET CheckpointMsg /\ \A m \in chosen : m.digest = "right" => <<m.from, m.start>> \in completed
  BY <1>1 DEF DigestsOK
<1>3. msgs \in Seq(chosen)
  <2>. HIDE DEF chosen
  <2>1. IsFiniteSet(chosen)
    BY <1>2, MsgsFinite, FS_Subset
  <2>. QED BY <2>1, ListOf DEF MsgsOf, chosen
<1>. HIDE DEF chosen, msgs
<1>4. N \in Nat /\ \A i \in 1..N : msgs[i] \in chosen
  BY <1>3, LenProperties, ElementOfSeq
<1>5. PICK at : /\ at[0] = a
                /\ processStashedCheckpoints(release, x, start) = at[N]
                /\ \A i \in 1..N : at[i] = processCheckpoint(release, at[i - 1], msgs[i])
  <2>1. Len(MsgsOf(x, start)) \in Nat
    BY <1>4 DEF msgs
  <2>. QED BY <2>1, StashedCheckpointsDef DEF msgs
<1>6. a \in V
  <2>. HIDE DEF rest
  <2>1. a \in [seen : {x.seen}, log : {x.log}, lastOrdered : {x.lastOrdered},
               checkpoints : {x.checkpoints}, stashedRecvd : {rest}, stashed : {x.stashed},
               h : {x.h}, failed : {x.failed}, out : {x.out}]
    BY <1>1 DEF Unstashed, ReplicaState, rest
  <2>2. rest \subseteq x.stashedRecvd
    BY DEF rest
  <2>. HIDE DEF a
  <2>3. /\ a.seen = x.seen /\ a.log = x.log /\ a.lastOrdered = x.lastOrdered
        /\ a.checkpoints = x.checkpoints /\ a.stashedRecvd = rest /\ a.stashed = x.stashed
        /\ a.h = x.h /\ a.failed = x.failed /\ a.out = x.out
    BY <2>1
  <2>4. a \in ReplicaState
    <3>1. rest \in SUBSET CheckpointMsg
      BY <1>1, <2>2
    <3>. QED BY <1>1, <2>1, <3>1 DEF ReplicaState
  <2>5. WindowsOK(a)
    BY <1>1, <2>3 DEF WindowsOK, WindowOK
  <2>6. DigestsOK(a, completed) /\ HBacked(a, completed)
    BY <1>1, <2>2, <2>3 DEF DigestsOK, HBacked, Good
  <2>7. Good(a, completed)
    BY <2>3, <2>4, <2>5, <2>6 DEF Good, H
  <2>8. Waits(a, k, {}) /\ Later(a, x) /\ Len(a.stashed) <= Len(x.stashed) + 0
    BY <1>1, <2>3 DEF Waits, Later, H
  <2>. QED BY <2>4, <2>7, <2>8 DEF Handled
<1>. HIDE DEF a, N, rest
<1>7. ASSUME NEW i \in 1..N, at[i - 1] \in V PROVE at[i] \in V
  <2>. DEFINE z == at[i - 1]
              m == msgs[i]
              y == processCheckpoint(release, z, m)
  <2>1. at[i] = y
    BY <1>5
  <2>2. Handled(z, x, k, 0, completed)
    BY <1>7
  <2>3. m \in CheckpointMsg /\ (m.digest = "right" => <<m.from, m.start>> \in completed)
    BY <1>2, <1>4
  <2>. HIDE DEF z, m
  <2>4. Good(z, completed) /\ Waits(z, k, {}) /\ Len(z.stashed) \in Nat /\ Len(z.stashed) <= Len(x.stashed) + 0
    BY <2>2, LenProperties DEF Handled, Good, ReplicaState
  <2>5. Len(z.stashed) <= depth
    BY <1>1, <2>4
  <2>6. Handled(y, z, k, 0, completed)
    BY <2>3, <2>4, <2>5, ProcessKeeps
  <2>. HIDE DEF y
  <2>. DEFINE zero == 0
  <2>7. zero \in Nat /\ Handled(z, x, k, zero, completed)
    BY <2>2
  <2>8. Handled(y, x, k, zero, completed)
    <3>. HIDE DEF zero
    <3>. QED BY <2>6, <2>7, Onwards
  <2>9. y \in ReplicaState
    BY <2>6 DEF Handled, Good
  <2>. QED BY <2>1, <2>8, <2>9
<1>. HIDE DEF V
<1>8. at[N] \in V
  BY <1>4, <1>5, <1>6, <1>7, StaysIn DEF N
<1>. QED BY <1>5, <1>8 DEF V

LEMMA AddKeeps ==
    ASSUME NEW completed, NEW x, Good(x, completed), NEW n \in SeqNos, x.h < n, n <= x.lastOrdered,
           \A c \in x.checkpoints : c.seqNo < n,
           NEW k \in Nat, Waits(x, k, {}), NEW depth \in Nat, Len(x.stashed) <= depth,
           NEW release, Contract(release, depth, completed)
    PROVE  Handled(addToCheckpoint(release, x, n), x, k, 0, completed)
<1>. DEFINE w == Extended(x, n)
            start == w.new.start
            cps == (x.checkpoints \ w.old) \cup {w.new}
            y == [x EXCEPT !.checkpoints = cps]
            out == x.out \cup {start}
            v == [y EXCEPT !.out = @ \cup {start}]
<1>1. /\ x \in ReplicaState /\ x.lastOrdered \in Nat /\ x.seen \in Nat /\ Len(x.stashed) \in Nat
  BY LenProperties DEF Good, ReplicaState
<1>2. addToCheckpoint(release, x, n) =
          IF w.new.count # CHK_FREQ THEN y ELSE processStashedCheckpoints(release, v, start)
  BY DEF addToCheckpoint
<1>. HIDE DEF w, cps
<1>3. Rewindowed(y, x, cps)
  BY <1>1 DEF Rewindowed, ReplicaState
<1>4. v \in [seen : {y.seen}, log : {y.log}, lastOrdered : {y.lastOrdered},
             checkpoints : {y.checkpoints}, stashedRecvd : {y.stashedRecvd}, stashed : {y.stashed},
             h : {y.h}, failed : {y.failed}, out : {out}]
  <2>1. y.out = x.out /\ y \in [seen : {y.seen}, log : {y.log}, lastOrdered : {y.lastOrdered},
             checkpoints : {y.checkpoints}, stashedRecvd : {y.stashedRecvd}, stashed : {y.stashed},
             h : {y.h}, failed : {y.failed}, out : {y.out}]
    BY <1>3 DEF Rewindowed
  <2>. HIDE DEF y
  <2>. QED BY <2>1
<1>. HIDE DEF y, v, start, out
<1>5. /\ Good(y, completed) /\ start \in SeqNos
      /\ w.new.count = CHK_FREQ => seqNoEnd(start) <= x.lastOrdered
  <2>1. Rewindowed(y, x, (x.checkpoints \ w.old) \cup {w.new}) /\ w = Extended(x, n)
    BY <1>3 DEF cps, w
  <2>. QED BY <2>1, AddWindow DEF start
<1>6. y.stashed = x.stashed /\ y.seen = x.seen /\ y.lastOrdered = x.lastOrdered /\ y.h = x.h /\ y.out = x.out
  BY <1>3 DEF Rewindowed
<1>7. Handled(y, x, k, 0, completed)
  <2>1. Waits(y, k, {}) /\ Later(y, x) /\ Len(y.stashed) <= Len(x.stashed) + 0
    BY <1>1, <1>6 DEF Waits, Later, H
  <2>. QED BY <1>5, <2>1 DEF Handled
<1>8. CASE w.new.count # CHK_FREQ
  BY <1>2, <1>7, <1>8
<1>9. CASE w.new.count = CHK_FREQ
  <2>1. /\ v.seen = y.seen /\ v.log = y.log /\ v.lastOrdered = y.lastOrdered
        /\ v.checkpoints = y.checkpoints /\ v.stashedRecvd = y.stashedRecvd /\ v.stashed = y.stashed
        /\ v.h = y.h /\ v.failed = y.failed /\ v.out = out
    BY <1>4
  <2>2. v \in ReplicaState
    <3>1. out \in SUBSET SeqNos /\ y \in ReplicaState
      BY <1>1, <1>5 DEF out, Good, ReplicaState
    <3>. QED BY <1>4, <3>1 DEF ReplicaState
  <2>3. WindowsOK(v) /\ DigestsOK(v, completed) /\ HBacked(v, completed)
    <3>1. WindowsOK(y) /\ DigestsOK(y, completed) /\ HBacked(y, completed)
      BY <1>5 DEF Good
    <3>2. WindowsOK(v)
      BY <2>1, <3>1 DEF WindowsOK, WindowOK
    <3>. QED BY <2>1, <3>1, <3>2 DEF DigestsOK, HBacked
  <2>4. \A s \in v.out : seqNoEnd(s) <= v.lastOrdered
    <3>1. \A s \in y.out : seqNoEnd(s) <= y.lastOrdered
      BY <1>5 DEF Good
    <3>. QED BY <1>5, <1>6, <1>9, <2>1, <3>1 DEF out
  <2>5. Good(v, completed)
    BY <1>5, <2>1, <2>2, <2>3, <2>4 DEF Good, H
  <2>6. Waits(v, k, {}) /\ Later(v, x) /\ v.stashed = x.stashed
    BY <1>1, <1>6, <1>7, <2>1 DEF Waits, Later, Handled, H
  <2>. DEFINE z == processStashedCheckpoints(release, v, start)
  <2>7. Handled(z, v, k, 0, completed)
    BY <1>1, <1>5, <2>5, <2>6, StashedCheckpointsKeep
  <2>. DEFINE zero == 0
  <2>8. zero \in Nat /\ Handled(v, x, k, zero, completed)
    BY <1>1, <2>5, <2>6 DEF Handled
  <2>. HIDE DEF z
  <2>9. Handled(z, x, k, zero, completed)
    <3>. HIDE DEF zero
    <3>. QED BY <2>7, <2>8, Onwards
  <2>. QED BY <1>2, <1>9, <2>9 DEF z
<1>. QED BY <1>8, <1>9


\* The batch n comes, and n may be what is in flight.
LEMMA DispatchKeeps ==
    ASSUME NEW completed, NEW x, Good(x, completed), NEW n \in SeqNos, n <= x.seen, ~x.failed,
           NEW k \in Nat, Waits(x, k, {n}), NEW depth \in Nat, Len(x.stashed) <= depth,
           NEW release, Contract(release, depth, completed)
    PROVE  Handled(dispatchThreePhaseMsg(release, x, n), x, k, 1, completed)
<1>. DEFINE z == dispatchThreePhaseMsg(release, x, n)
            log == x.log \cup {n}
            y == [x EXCEPT !.log = @ \cup {n}, !.lastOrdered = n]
            more == Append(x.stashed, n)
            s == [x EXCEPT !.stashed = Append(@, n)]
<1>1. /\ x \in ReplicaState /\ x.lastOrdered \in Nat /\ x.seen \in Nat /\ x.h \in Nat
      /\ x.stashed \in Seq(SeqNos) /\ Len(x.stashed) \in Nat /\ n \in Nat /\ x.failed \in BOOLEAN
      /\ x.log \in SUBSET SeqNos /\ x.checkpoints \in SUBSET CheckpointState
      /\ x.h <= x.lastOrdered /\ x.lastOrdered <= x.seen
      /\ WindowsOK(x) /\ DigestsOK(x, completed) /\ HBacked(x, completed)
  BY Sizes, LenProperties DEF Good, ReplicaState
<1>2. ASSUME n <= x.lastOrdered PROVE Handled(x, x, k, 1, completed)
  <2>1. Waits(x, k, {})
    BY <1>1, <1>2 DEF Waits
  <2>. QED BY <1>1, <2>1 DEF Handled, Later
<1>3. ASSUME isPpSeqNoStable(x, n) PROVE n <= x.lastOrdered
  <2>1. PICK c \in x.checkpoints : n <= c.seqNo
    BY <1>3 DEF isPpSeqNoStable
  <2>2. c.seqNo \in Nat /\ c.seqNo <= x.lastOrdered
    BY <1>1, Fields DEF WindowsOK, WindowOK
  <2>. QED BY <1>1, <2>1, <2>2
<1>4. ASSUME isPpSeqNoBetweenWaterMarks(x, n), ~(n <= x.lastOrdered)
      PROVE  Handled(addToCheckpoint(release, y, n), x, k, 1, completed)
  <2>1. x.h < n /\ n <= H(x) /\ x.lastOrdered < n
    BY <1>1, <1>4 DEF isPpSeqNoBetweenWaterMarks
  <2>2. y \in [seen : {x.seen}, log : {log}, lastOrdered : {n}, checkpoints : {x.checkpoints},
               stashedRecvd : {x.stashedRecvd}, stashed : {x.stashed}, h : {x.h},
               failed : {x.failed}, out : {x.out}]
    BY <1>1 DEF ReplicaState
  <2>. HIDE DEF y
  <2>3. /\ y.seen = x.seen /\ y.log = log /\ y.lastOrdered = n /\ y.checkpoints = x.checkpoints
        /\ y.stashedRecvd = x.stashedRecvd /\ y.stashed = x.stashed /\ y.h = x.h
        /\ y.failed = x.failed /\ y.out = x.out
    BY <2>2
  <2>4. y \in ReplicaState
    <3>1. log \in SUBSET SeqNos
      BY <1>1
    <3>. HIDE DEF log
    <3>. QED BY <1>1, <2>2, <3>1 DEF ReplicaState
  <2>5. \A c \in x.checkpoints : c.seqNo < n /\ c.seqNo \in Nat
    BY <1>1, <2>1, Fields DEF WindowsOK, WindowOK
  <2>6. WindowsOK(y)
    BY <1>1, <2>3, <2>5 DEF WindowsOK, WindowOK
  <2>7. DigestsOK(y, completed) /\ HBacked(y, completed)
    BY <1>1, <2>3 DEF DigestsOK, HBacked
  <2>8. y.log \subseteq y.h + 1 .. H(y)
    <3>1. n \in x.h + 1 .. H(x) /\ x.log \subseteq x.h + 1 .. H(x)
      BY <1>1, <2>1, Sizes DEF H, Good
    <3>. QED BY <2>3, <3>1 DEF H
  <2>9. \A t \in y.out : seqNoEnd(t) <= y.lastOrdered
    <3>. TAKE t \in y.out
    <3>1. t \in SeqNos /\ seqNoEnd(t) <= x.lastOrdered
      BY <1>1, <2>3 DEF Good, ReplicaState
    <3>. QED BY <1>1, <2>1, <2>3, <3>1, Sizes DEF seqNoEnd
  <2>10. Good(y, completed)
    <3>1. y.h <= y.lastOrdered /\ y.lastOrdered <= y.seen
      BY <1>1, <2>1, <2>3
    <3>. QED BY <2>3, <2>4, <2>6, <2>7, <2>8, <2>9, <3>1 DEF Good
  <2>11. Waits(y, k, {}) /\ Later(y, x)
    <3>. SUFFICES ASSUME NEW j \in 1..x.seen, ~(j <= n)
                  PROVE  \E i \in 1..Len(x.stashed) : x.stashed[i] = j /\ (j > H(x) \/ i <= k)
      BY <1>1, <2>1, <2>3 DEF Waits, Later, H
    <3>1. ~(j <= x.lastOrdered) /\ j \notin {n}
      BY <1>1, <2>1
    <3>. QED BY <3>1 DEF Waits
  <2>12. y.h < n /\ n <= y.lastOrdered /\ \A c \in y.checkpoints : c.seqNo < n
    BY <1>1, <2>1, <2>3, <2>5
  <2>. DEFINE w == addToCheckpoint(release, y, n)
  <2>13. Handled(w, y, k, 0, completed)
    BY <2>3, <2>10, <2>11, <2>12, AddKeeps
  <2>. HIDE DEF w
  <2>. DEFINE one == 1
  <2>14. one \in Nat /\ Handled(y, x, k, one, completed)
    BY <1>1, <2>3, <2>10, <2>11 DEF Handled
  <2>15. Handled(w, x, k, one, completed)
    <3>. HIDE DEF one
    <3>. QED BY <2>13, <2>14, Onwards
  <2>. QED BY <2>15 DEF w
<1>5. ASSUME ~isPpSeqNoBetweenWaterMarks(x, n)
      PROVE  Handled(s, x, k, 1, completed)
  <2>1. n > H(x) \/ n <= x.lastOrdered
    BY <1>1, <1>5, Sizes DEF isPpSeqNoBetweenWaterMarks, H
  <2>2. /\ more \in Seq(SeqNos) /\ Len(more) = Len(x.stashed) + 1
        /\ \A i \in 1..Len(x.stashed) : more[i] = x.stashed[i]
        /\ more[Len(x.stashed) + 1] = n
    BY <1>1, AppendProperties
  <2>. HIDE DEF more
  <2>3. s \in [seen : {x.seen}, log : {x.log}, lastOrdered : {x.lastOrdered},
               checkpoints : {x.checkpoints}, stashedRecvd : {x.stashedRecvd}, stashed : {more},
               h : {x.h}, failed : {x.failed}, out : {x.out}]
    BY <1>1 DEF ReplicaState, more
  <2>. HIDE DEF s
  <2>4. /\ s.seen = x.seen /\ s.log = x.log /\ s.lastOrdered = x.lastOrdered
        /\ s.checkpoints = x.checkpoints /\ s.stashedRecvd = x.stashedRecvd /\ s.stashed = more
        /\ s.h = x.h /\ s.failed = x.failed /\ s.out = x.out
    BY <2>3
  <2>5. s \in ReplicaState
    BY <1>1, <2>2, <2>3 DEF ReplicaState
  <2>6. WindowsOK(s) /\ DigestsOK(s, completed) /\ HBacked(s, completed)
    BY <1>1, <2>4 DEF WindowsOK, WindowOK, DigestsOK, HBacked
  <2>7. \A i \in 1..Len(s.stashed) : s.stashed[i] <= s.seen
    <3>. TAKE i \in 1..Len(s.stashed)
    <3>1. i \in 1..Len(x.stashed) \/ i = Len(x.stashed) + 1
      BY <1>1, <2>2, <2>4
    <3>2. \A j \in 1..Len(x.stashed) : x.stashed[j] <= x.seen
      BY DEF Good
    <3>. QED BY <2>2, <2>4, <3>1, <3>2
  <2>8. Good(s, completed)
    <3>1. ~s.failed
      BY <2>4
    <3>. QED BY <2>4, <2>5, <2>6, <2>7, <3>1 DEF Good, H
  <2>9. Waits(s, k, {})
    <3>. SUFFICES ASSUME NEW j \in 1..s.seen, ~(j <= s.lastOrdered)
                  PROVE  \E i \in 1..Len(s.stashed) : s.stashed[i] = j /\ (j > H(s) \/ i <= k)
      BY DEF Waits
    <3>1. H(s) = H(x) /\ Len(x.stashed) + 1 \in 1..Len(s.stashed)
          /\ 1..Len(x.stashed) \subseteq 1..Len(s.stashed)
      BY <1>1, <2>2, <2>4 DEF H
    <3>2. CASE j = n
      <4>1. j > H(s)
        BY <2>1, <2>4, <3>1, <3>2
      <4>. QED BY <2>2, <2>4, <3>1, <3>2, <4>1
    <3>3. CASE j # n
      <4>1. PICK i \in 1..Len(x.stashed) : x.stashed[i] = j /\ (j > H(x) \/ i <= k)
        <5>1. j \in 1..x.seen /\ ~(j <= x.lastOrdered) /\ j \notin {n}
          BY <2>4, <3>3
        <5>. QED BY <5>1 DEF Waits
      <4>. QED BY <2>2, <2>4, <3>1, <4>1
    <3>. QED BY <3>2, <3>3
  <2>10. Later(s, x) /\ Len(s.stashed) <= Len(x.stashed) + 1
    BY <1>1, <2>2, <2>4 DEF Later
  <2>. QED BY <2>8, <2>9, <2>10 DEF Handled
<1>6. z = IF isPpSeqNoStable(x, n) THEN x
          ELSE IF isPpSeqNoBetweenWaterMarks(x, n)
               THEN IF n <= x.lastOrdered THEN x ELSE addToCheckpoint(release, y, n)
               ELSE s
  BY DEF dispatchThreePhaseMsg
<1>. HIDE DEF z, y, s
<1>. QED BY <1>2, <1>3, <1>4, <1>5, <1>6 DEF z


\* One item of the stash, of which k + 1 are left to be looked at.
LEMMA PopKeeps ==
    ASSUME NEW completed, NEW x, Good(x, completed), NEW k \in Nat, Waits(x, k + 1, {}),
           NEW depth \in Nat, Len(x.stashed) <= depth + 1,
           NEW release, Contract(release, depth, completed)
    PROVE  Handled(popleft(release, x), x, k, 0, completed)
<1>. DEFINE n == Head(x.stashed)
            rest == Tail(x.stashed)
            y == [x EXCEPT !.stashed = Tail(@)]
            e == [x EXCEPT !.failed = TRUE]
<1>1. /\ x \in ReplicaState /\ x.lastOrdered \in Nat /\ x.seen \in Nat /\ x.h \in Nat
      /\ x.stashed \in Seq(SeqNos) /\ Len(x.stashed) \in Nat /\ x.failed \in BOOLEAN
      /\ WindowsOK(x) /\ DigestsOK(x, completed) /\ HBacked(x, completed)
      /\ x.failed => x.stashed = <<>>
  BY LenProperties DEF Good, ReplicaState
<1>2. ASSUME x.stashed = <<>>, NEW v, v.seen = x.seen, v.lastOrdered = x.lastOrdered,
             v.stashed = x.stashed, Good(v, completed)
      PROVE  Handled(v, x, k, 0, completed)
  <2>1. Len(x.stashed) = 0
    BY <1>2
  <2>2. \A j \in 1..x.seen : j <= x.lastOrdered
    BY <2>1 DEF Waits
  <2>3. Waits(v, k, {})
    BY <1>2, <2>2 DEF Waits
  <2>. QED BY <1>1, <1>2, <2>3 DEF Handled, Later
<1>3. CASE x.failed
  <2>1. Handled(x, x, k, 0, completed)
    BY <1>1, <1>2, <1>3
  <2>. QED BY <1>3, <2>1 DEF popleft
<1>4. CASE ~x.failed /\ x.stashed = <<>>
  <2>1. e \in [seen : {x.seen}, log : {x.log}, lastOrdered : {x.lastOrdered},
               checkpoints : {x.checkpoints}, stashedRecvd : {x.stashedRecvd}, stashed : {x.stashed},
               h : {x.h}, failed : {TRUE}, out : {x.out}]
    BY <1>1 DEF ReplicaState
  <2>2. popleft(release, x) = e
    BY <1>4 DEF popleft
  <2>. HIDE DEF e
  <2>3. /\ e.seen = x.seen /\ e.log = x.log /\ e.lastOrdered = x.lastOrdered
        /\ e.checkpoints = x.checkpoints /\ e.stashedRecvd = x.stashedRecvd
        /\ e.stashed = x.stashed /\ e.h = x.h /\ e.failed = TRUE /\ e.out = x.out
    BY <2>1
  <2>4. e \in ReplicaState
    BY <1>1, <2>1 DEF ReplicaState
  <2>5. WindowsOK(e) /\ DigestsOK(e, completed) /\ HBacked(e, completed)
    BY <1>1, <2>3 DEF WindowsOK, WindowOK, DigestsOK, HBacked
  <2>6. Good(e, completed)
    BY <1>4, <2>3, <2>4, <2>5 DEF Good, H
  <2>. QED BY <1>2, <1>4, <2>2, <2>3, <2>6
<1>5. CASE ~x.failed /\ x.stashed # <<>>
  <2>1. /\ n \in SeqNos /\ rest \in Seq(SeqNos) /\ Len(rest) \in Nat
        /\ Len(x.stashed) \in Nat \ {0} /\ Len(rest) = Len(x.stashed) - 1
        /\ n = x.stashed[1]
        /\ \A i \in 1..Len(rest) : rest[i] = x.stashed[i + 1]
    BY <1>1, <1>5, TailOK, LenProperties
  <2>2. popleft(release, x) = dispatchThreePhaseMsg(release, y, n)
    BY <1>5 DEF popleft
  <2>. HIDE DEF n, rest
  <2>3. y \in [seen : {x.seen}, log : {x.log}, lastOrdered : {x.lastOrdered},
               checkpoints : {x.checkpoints}, stashedRecvd : {x.stashedRecvd}, stashed : {rest},
               h : {x.h}, failed : {x.failed}, out : {x.out}]
    BY <1>1 DEF ReplicaState, rest
  <2>. HIDE DEF y
  <2>4. /\ y.seen = x.seen /\ y.log = x.log /\ y.lastOrdered = x.lastOrdered
        /\ y.checkpoints = x.checkpoints /\ y.stashedRecvd = x.stashedRecvd
        /\ y.stashed = rest /\ y.h = x.h /\ y.failed = x.failed /\ y.out = x.out
    BY <2>3
  <2>5. y \in ReplicaState
    BY <1>1, <2>1, <2>3 DEF ReplicaState
  <2>6. WindowsOK(y) /\ DigestsOK(y, completed) /\ HBacked(y, completed)
    BY <1>1, <2>4 DEF WindowsOK, WindowOK, DigestsOK, HBacked
  <2>7. \A i \in 1..Len(x.stashed) : x.stashed[i] <= x.seen
    BY DEF Good
  <2>8. \A i \in 1..Len(y.stashed) : y.stashed[i] <= y.seen
    <3>. TAKE i \in 1..Len(y.stashed)
    <3>1. i + 1 \in 1..Len(x.stashed) /\ y.stashed[i] = x.stashed[i + 1]
      BY <2>1, <2>4
    <3>. QED BY <2>4, <2>7, <3>1
  <2>9. Good(y, completed)
    BY <1>5, <2>4, <2>5, <2>6, <2>8 DEF Good, H
  <2>10. n <= y.seen
    BY <2>1, <2>4, <2>7
  <2>11. Waits(y, k, {n})
    <3>. SUFFICES ASSUME NEW j \in 1..y.seen, ~(j <= y.lastOrdered), j # n
                  PROVE  \E i \in 1..Len(y.stashed) : y.stashed[i] = j /\ (j > H(y) \/ i <= k)
      BY DEF Waits
    <3>1. PICK i \in 1..Len(x.stashed) : x.stashed[i] = j /\ (j > H(x) \/ i <= k + 1)
      BY <2>4 DEF Waits
    <3>2. i # 1
      BY <2>1, <3>1
    <3>3. i - 1 \in 1..Len(rest) /\ rest[i - 1] = x.stashed[i]
      BY <2>1, <3>2
    <3>4. j > H(y) \/ i - 1 <= k
      BY <2>4, <3>1, <3>2 DEF H
    <3>. QED BY <2>4, <3>1, <3>3, <3>4
  <2>12. Len(y.stashed) <= depth
    BY <2>1, <2>4
  <2>. DEFINE z == dispatchThreePhaseMsg(release, y, n)
  <2>13. Handled(z, y, k, 1, completed)
    BY <1>5, <2>1, <2>4, <2>9, <2>10, <2>11, <2>12, DispatchKeeps
  <2>. HIDE DEF z
  <2>14. Handled(z, x, k, 0, completed)
    <3>1. Len(z.stashed) \in Nat
      BY <2>13, LenProperties DEF Handled, Good, ReplicaState
    <3>2. Len(z.stashed) <= Len(x.stashed) + 0
      BY <2>1, <2>4, <2>13, <3>1 DEF Handled
    <3>. QED BY <2>4, <2>13, <3>2 DEF Handled, Later
  <2>. QED BY <2>2, <2>14 DEF z
<1>. QED BY <1>3, <1>4, <1>5

LEMMA NewWaterMarksKeep ==
    ASSUME NEW completed, NEW x, Good(x, completed), Waits(x, Len(x.stashed), {}),
           NEW depth \in Nat, Len(x.stashed) <= depth + 1,
           NEW release, Contract(release, depth, completed)
    PROVE  Handled(processStashedMsgsForNewWaterMarks(release, x), x, 0, 0, completed)
<1>. DEFINE N == Len(x.stashed)
<1>1. N \in Nat /\ StashedCount(x) = N /\ x.seen \in Nat /\ x.lastOrdered \in Nat
  BY LenProperties DEF Good, ReplicaState, StashedCount
<1>2. PICK at : /\ at[0] = x
                /\ processStashedMsgsForNewWaterMarks(release, x) = at[N]
                /\ \A i \in 1..N : at[i] = popleft(release, at[i - 1])
  <2>1. StashedCount(x) \in Nat
    BY <1>1
  <2>2. PICK at : Popped(at, release, x)
    BY <2>1, NewWaterMarksDef
  <2>. QED BY <1>1, <2>2 DEF Popped
<1>. DEFINE left(i) == N - i
            S == {i \in 0..N : Handled(at[i], x, left(i), 0, completed)}
<1>. HIDE DEF N
<1>3. 0 \in S
  <2>1. Handled(x, x, N, 0, completed)
    BY <1>1 DEF Handled, Later, N
  <2>2. left(0) = N
    BY <1>1
  <2>. QED BY <1>1, <1>2, <2>1, <2>2
<1>4. ASSUME NEW i \in 0..(N - 1), i \in S PROVE i + 1 \in S
  <2>. DEFINE z == at[i]
              k == left(i + 1)
              v == popleft(release, z)
  <2>1. k \in Nat /\ left(i) = k + 1 /\ i + 1 \in 1..N /\ i + 1 \in 0..N /\ at[i + 1] = v
    <3>1. i + 1 \in 1..N /\ (i + 1) - 1 = i
      BY <1>1
    <3>. QED BY <1>1, <1>2, <3>1
  <2>2. Handled(z, x, k + 1, 0, completed)
    BY <1>4, <2>1
  <2>. HIDE DEF z, k
  <2>3. /\ Good(z, completed) /\ Waits(z, k + 1, {}) /\ Len(z.stashed) \in Nat
        /\ Len(z.stashed) <= N + 0
        /\ z.seen = x.seen /\ x.lastOrdered <= z.lastOrdered /\ z.lastOrdered \in Nat
    BY <2>2, LenProperties DEF Handled, Good, ReplicaState, Later, N
  <2>4. Len(z.stashed) <= depth + 1
    BY <1>1, <2>3 DEF N
  <2>5. Handled(v, z, k, 0, completed)
    BY <2>1, <2>3, <2>4, PopKeeps
  <2>. HIDE DEF v
  <2>6. Handled(v, x, k, 0, completed)
    <3>1. Len(v.stashed) \in Nat /\ v.lastOrdered \in Nat
      BY <2>5, LenProperties DEF Handled, Good, ReplicaState
    <3>. QED BY SMTT(30), <1>1, <2>3, <2>5, <3>1 DEF Handled, Later, N
  <2>. QED BY <2>1, <2>6 DEF k
<1>. HIDE DEF S
<1>5. N \in S
  <2>1. 0..N \subseteq S
    BY <1>1, <1>3, <1>4, InductionUpTo
  <2>. QED BY <1>1, <2>1
<1>6. Handled(at[N], x, left(N), 0, completed) /\ left(N) = 0
  BY <1>1, <1>5 DEF S
<1>. HIDE DEF left
<1>. QED BY <1>2, <1>6

\* A call with n items in the stash keeps what it should.
LEMMA ReleasedOK ==
    ASSUME NEW completed, NEW n \in Nat
    PROVE  Contract(released(n), n, completed)
<1>1. PICK at : /\ at[0] = [x \in ReplicaState |-> x] /\ released(n) = at[n]
                /\ \A k \in 1..n :
                      at[k] = [x \in ReplicaState |->
                                  processStashedMsgsForNewWaterMarks(at[k - 1], x)]
  BY ReleasedDef
<1>. DEFINE S == {k \in 0..n : Contract(at[k], k, completed)}
<1>2. 0 \in S
  <2>. SUFFICES ASSUME NEW x \in ReplicaState, Good(x, completed), Len(x.stashed) <= 0,
                       Waits(x, Len(x.stashed), {})
                PROVE  /\ Good(x, completed) /\ Waits(x, 0, {})
                       /\ Later(x, x) /\ Len(x.stashed) <= Len(x.stashed)
    BY <1>1 DEF Contract
  <2>1. Len(x.stashed) \in Nat /\ x.lastOrdered \in Nat
    BY LenProperties DEF ReplicaState
  <2>2. Len(x.stashed) = 0
    BY <2>1
  <2>. QED BY <2>1, <2>2 DEF Later
<1>3. ASSUME NEW k \in 0..(n - 1), k \in S PROVE k + 1 \in S
  <2>. DEFINE rel == at[k]
  <2>1. k + 1 \in 1..n /\ (k + 1) - 1 = k /\ k + 1 \in 0..n /\ k \in Nat
    OBVIOUS
  <2>2. at[k + 1] = [x \in ReplicaState |-> processStashedMsgsForNewWaterMarks(rel, x)]
    BY <1>1, <2>1
  <2>3. Contract(rel, k, completed)
    BY <1>3
  <2>. HIDE DEF rel
  <2>4. ASSUME NEW x \in ReplicaState, Good(x, completed), Len(x.stashed) <= k + 1,
               Waits(x, Len(x.stashed), {})
        PROVE  /\ Good(at[k + 1][x], completed) /\ Waits(at[k + 1][x], 0, {})
               /\ Later(at[k + 1][x], x) /\ Len(at[k + 1][x].stashed) <= Len(x.stashed)
    <3>. DEFINE z == processStashedMsgsForNewWaterMarks(rel, x)
    <3>1. Handled(z, x, 0, 0, completed)
      BY <2>1, <2>3, <2>4, NewWaterMarksKeep
    <3>2. at[k + 1][x] = z
      BY <2>2, <2>4
    <3>. HIDE DEF z
    <3>3. Len(z.stashed) \in Nat /\ Len(x.stashed) \in Nat
      BY <3>1, LenProperties DEF Handled, Good, ReplicaState
    <3>. QED BY <3>1, <3>2, <3>3 DEF Handled
  <2>5. Contract(at[k + 1], k + 1, completed)
    BY <2>4 DEF Contract
  <2>. QED BY <2>1, <2>5
<1>. HIDE DEF S
<1>4. n \in S
  <2>1. 0..n \subseteq S
    BY <1>2, <1>3, InductionUpTo
  <2>. QED BY <2>1
<1>. QED BY <1>1, <1>4 DEF S



-----------------------------------------------------------------------------
(* The whole protocol instance                                              *)

\* Who, of the others, is faulty or has ordered the window of which batch.
Completed(r) ==
    {p \in Replicas \X SeqNos :
        p[1] # r /\ (p[1] \in Faulty \/ seqNoEnd(p[2]) <= rep[p[1]].lastOrdered)}

CInv ==
    /\ rep \in [Replicas -> ReplicaState] /\ chan \in [Replicas -> SUBSET CheckpointMsg]
    /\ \A r \in Correct :
          /\ Good(rep[r], Completed(r)) /\ Waits(rep[r], 0, {}) /\ rep[r].out = {}
          /\ \A m \in chan[r] : m.digest = "right" => <<m.from, m.start>> \in Completed(r)


\* More of the others may have completed: lemma about what is good.
LEMMA MoreCompleted ==
    ASSUME NEW completed, NEW more, completed \subseteq more, NEW x, Good(x, completed)
    PROVE  Good(x, more)
<1>1. DigestsOK(x, more)
  BY DEF Good, DigestsOK
<1>2. HBacked(x, more)
  <2>1. CASE x.h = 0
    BY <2>1 DEF HBacked
  <2>2. CASE x.h # 0
    <3>1. PICK s \in SeqNos :
              /\ seqNoEnd(s) = x.h
              /\ Cardinality({q \in Replicas : <<q, s>> \in completed}) >= 2 * f
      BY <2>2 DEF Good, HBacked
    <3>. DEFINE A == {q \in Replicas : <<q, s>> \in completed}
                B == {q \in Replicas : <<q, s>> \in more}
    <3>2. A \subseteq B /\ B \subseteq Replicas
      OBVIOUS
    <3>3. Cardinality(A) \in Nat /\ Cardinality(B) \in Nat /\ Cardinality(A) <= Cardinality(B)
      <4>. HIDE DEF A, B
      <4>. QED BY <3>2, Sizes, FS_Subset, FS_CardinalityType
    <3>4. f \in Int
      BY Sizes DEF f
    <3>5. Cardinality(A) >= 2 * f
      BY <3>1
    <3>. HIDE DEF A, B
    <3>6. Cardinality(B) >= 2 * f
      BY <3>3, <3>4, <3>5
    <3>. QED BY <3>1, <3>6 DEF HBacked, B
  <2>. QED BY <2>1, <2>2
<1>. QED BY <1>1, <1>2 DEF Good

\* What holds of the replicas and messages other than r's own holds after a step
\* in which r orders more and sends what it has completed.
LEMMA StoreKeeps ==
    ASSUME CInv, NEW r \in Correct, NEW z,
           Good(z, Completed(r)), Waits(z, 0, {}), rep[r].lastOrdered <= z.lastOrdered,
           NEW c \in [Replicas -> SUBSET CheckpointMsg], \A q \in Replicas : c[q] \subseteq chan[q],
           Store(r, z, c)
    PROVE  CInv'
<1>. DEFINE no == {}
            y == [z EXCEPT !.out = no]
            said == {[start |-> s, digest |-> "right", from |-> r] : s \in z.out}
<1>1. /\ rep' = [rep EXCEPT ![r] = y] /\ r \in Replicas /\ rep \in [Replicas -> ReplicaState]
      /\ chan' = [q \in Replicas |-> IF q \in Faulty \cup {r} THEN c[q] ELSE c[q] \cup said]
      /\ z \in ReplicaState /\ z.out \in SUBSET SeqNos /\ r \notin Faulty
      /\ z.lastOrdered \in Nat
  BY DEF CInv, Store, Send, Good, ReplicaState, Correct
<1>2. y \in [seen : {z.seen}, log : {z.log}, lastOrdered : {z.lastOrdered},
             checkpoints : {z.checkpoints}, stashedRecvd : {z.stashedRecvd}, stashed : {z.stashed},
             h : {z.h}, failed : {z.failed}, out : {no}]
  <2>. HIDE DEF no
  <2>. QED BY <1>1 DEF ReplicaState
<1>3. y \in ReplicaState
  <2>1. no \in SUBSET SeqNos
    OBVIOUS
  <2>. HIDE DEF no, y
  <2>. QED BY <1>1, <1>2, <2>1 DEF ReplicaState
<1>. HIDE DEF y
<1>4. /\ y.seen = z.seen /\ y.log = z.log /\ y.lastOrdered = z.lastOrdered
      /\ y.checkpoints = z.checkpoints /\ y.stashedRecvd = z.stashedRecvd /\ y.stashed = z.stashed
      /\ y.h = z.h /\ y.failed = z.failed /\ y.out = {}
  BY <1>2
<1>5. Good(y, Completed(r))
  <2>1. WindowsOK(y)
    BY <1>4 DEF Good, WindowsOK, WindowOK
  <2>2. DigestsOK(y, Completed(r)) /\ HBacked(y, Completed(r))
    BY <1>4 DEF Good, DigestsOK, HBacked
  <2>. QED BY <1>3, <1>4, <2>1, <2>2 DEF Good, H
<1>6. Waits(y, 0, {})
  BY <1>4 DEF Waits, H
<1>7. rep' \in [Replicas -> ReplicaState] /\ rep'[r] = y
      /\ \A q \in Replicas : q # r => rep'[q] = rep[q]
  BY <1>1, <1>3
<1>8. \A q \in Replicas : Completed(q) \subseteq Completed(q)'
  <2>. SUFFICES ASSUME NEW q \in Replicas, NEW p \in Completed(q) PROVE p \in Completed(q)'
    OBVIOUS
  <2>1. /\ p \in Replicas \X SeqNos /\ p[1] \in Replicas /\ p[2] \in SeqNos /\ p[1] # q
        /\ p[1] \in Faulty \/ seqNoEnd(p[2]) <= rep[p[1]].lastOrdered
    BY DEF Completed
  <2>2. p[1] \notin Faulty => seqNoEnd(p[2]) <= rep'[p[1]].lastOrdered
    <3>1. CASE p[1] = r
      <4>1. rep[r].lastOrdered \in Nat
        <5>1. rep[r] \in ReplicaState
          BY <1>1
        <5>. QED BY <5>1 DEF ReplicaState
      <4>2. seqNoEnd(p[2]) \in Int
        BY <2>1, Sizes DEF seqNoEnd
      <4>. QED BY <1>1, <1>4, <1>7, <2>1, <3>1, <4>1, <4>2
    <3>2. CASE p[1] # r
      BY <1>7, <2>1, <3>2
    <3>. QED BY <3>1, <3>2
  <2>. QED BY <2>1, <2>2 DEF Completed
<1>9. \A s \in z.out : s \in SeqNos /\ seqNoEnd(s) <= z.lastOrdered
  BY <1>1 DEF Good
<1>10. said \subseteq CheckpointMsg
  BY <1>1, <1>9 DEF CheckpointMsg
<1>11. chan' \in [Replicas -> SUBSET CheckpointMsg]
  <2>. HIDE DEF said
  <2>. QED BY <1>1, <1>10
<1>12. ASSUME NEW q \in Correct, NEW m \in chan'[q], m.digest = "right"
       PROVE  <<m.from, m.start>> \in Completed(q)'
  <2>1. q \in Replicas /\ q \notin Faulty
    BY DEF Correct
  <2>2. CASE m \in c[q]
    <3>1. m \in chan[q]
      BY <2>1, <2>2
    <3>2. <<m.from, m.start>> \in Completed(q)
      BY <1>12, <3>1 DEF CInv
    <3>. QED BY <1>8, <2>1, <3>2
  <2>3. CASE m \notin c[q]
    <3>1. q # r /\ m \in said
      <4>. HIDE DEF said
      <4>. QED BY <1>1, <2>1, <2>3, <1>12
    <3>2. m.from = r /\ m.start \in SeqNos /\ seqNoEnd(m.start) <= z.lastOrdered
      BY <1>9, <3>1
    <3>3. seqNoEnd(m.start) <= rep'[r].lastOrdered
      BY <1>4, <1>7, <3>2
    <3>4. <<r, m.start>> \in Completed(q)'
      BY <1>1, <3>1, <3>2, <3>3 DEF Completed
    <3>. QED BY <3>2, <3>4
  <2>. QED BY <2>2, <2>3
<1>13. ASSUME NEW q \in Correct
       PROVE  Good(rep'[q], Completed(q)') /\ Waits(rep'[q], 0, {}) /\ rep'[q].out = {}
  <2>1. q \in Replicas /\ Completed(q) \subseteq Completed(q)'
    BY <1>8 DEF Correct
  <2>2. Good(rep'[q], Completed(q)) /\ Waits(rep'[q], 0, {}) /\ rep'[q].out = {}
    <3>1. CASE q = r
      BY <1>4, <1>5, <1>6, <1>7, <3>1
    <3>2. CASE q # r
      BY <1>7, <2>1, <3>2 DEF CInv
    <3>. QED BY <3>1, <3>2
  <2>. DEFINE b == Completed(q)
              b2 == Completed(q)'
              w == rep'[q]
  <2>. HIDE DEF b, b2, w
  <2>3. Good(w, b2)
    BY <2>1, <2>2, MoreCompleted DEF b, b2, w
  <2>. QED BY <2>2, <2>3 DEF b2, w
<1>. QED BY <1>7, <1>11, <1>12, <1>13 DEF CInv, Correct


LEMMA InitGood == Init => CInv
<1>. SUFFICES ASSUME Init PROVE CInv
  OBVIOUS
<1>. DEFINE new == NewReplica
            empty == <<>>
<1>1. /\ new.seen = 0 /\ new.log = {} /\ new.lastOrdered = 0 /\ new.checkpoints = {}
      /\ new.stashedRecvd = {} /\ new.stashed = empty /\ new.h = 0 /\ new.failed = FALSE
      /\ new.out = {}
  BY DEF NewReplica
<1>2. new \in ReplicaState
  BY DEF NewReplica, ReplicaState
<1>3. Len(empty) = 0
  OBVIOUS
<1>. HIDE DEF new, empty
<1>4. ASSUME NEW completed PROVE Good(new, completed)
  <2>1. WindowsOK(new) /\ DigestsOK(new, completed) /\ HBacked(new, completed)
    BY <1>1 DEF WindowsOK, DigestsOK, HBacked
  <2>2. new.log \subseteq new.h + 1 .. H(new)
    BY <1>1
  <2>3. \A i \in 1..Len(new.stashed) : new.stashed[i] <= new.seen
    BY <1>1, <1>3
  <2>4. new.failed => new.stashed = <<>>
    BY <1>1
  <2>. QED BY <1>1, <1>2, <2>1, <2>2, <2>3, <2>4 DEF Good
<1>5. Waits(new, 0, {})
  BY <1>1 DEF Waits
<1>6. \A r \in Replicas : rep[r] = new /\ chan[r] = {}
  BY DEF Init, new
<1>7. rep \in [Replicas -> ReplicaState] /\ chan \in [Replicas -> SUBSET CheckpointMsg]
  BY <1>2 DEF Init, new
<1>. QED BY <1>1, <1>4, <1>5, <1>6, <1>7 DEF CInv, Correct

\* The next batch comes.
LEMMA BatchKeeps ==
    ASSUME CInv, NEW r \in Replicas, ReceiveBatch(r)
    PROVE  CInv'
<1>. DEFINE n == rep[r].seen + 1
            d == Len(rep[r].stashed)
            x == [rep[r] EXCEPT !.seen = n]
            rel == released(d)
            z == dispatchThreePhaseMsg(rel, x, n)
            one == 1
            completed == Completed(r)
<1>1. /\ r \in Correct /\ n \in SeqNos /\ ~rep[r].failed
      /\ Store(r, z, chan)
  BY DEF ReceiveBatch
<1>2. /\ rep[r] \in ReplicaState /\ rep[r].seen \in Nat /\ rep[r].lastOrdered \in Nat /\ d \in Nat
      /\ chan \in [Replicas -> SUBSET CheckpointMsg]
      /\ Good(rep[r], completed) /\ Waits(rep[r], 0, {})
  BY <1>1, LenProperties DEF CInv, ReplicaState
<1>3. Contract(rel, d, completed)
  <2>. HIDE DEF completed, d
  <2>. QED BY <1>2, ReleasedOK
<1>. HIDE DEF rel, d, z
<1>4. x \in [seen : {n}, log : {rep[r].log}, lastOrdered : {rep[r].lastOrdered},
             checkpoints : {rep[r].checkpoints}, stashedRecvd : {rep[r].stashedRecvd},
             stashed : {rep[r].stashed}, h : {rep[r].h}, failed : {rep[r].failed},
             out : {rep[r].out}]
  BY <1>2 DEF ReplicaState
<1>. HIDE DEF x
<1>5. /\ x.seen = n /\ x.log = rep[r].log /\ x.lastOrdered = rep[r].lastOrdered
      /\ x.checkpoints = rep[r].checkpoints /\ x.stashedRecvd = rep[r].stashedRecvd
      /\ x.stashed = rep[r].stashed /\ x.h = rep[r].h /\ x.failed = rep[r].failed
      /\ x.out = rep[r].out
  BY <1>4
<1>6. n \in Nat
  BY <1>2
<1>7. x \in ReplicaState
  <2>. HIDE DEF n
  <2>. QED BY <1>2, <1>4, <1>6 DEF ReplicaState
<1>. HIDE DEF completed
<1>8. Good(x, completed)
  <2>1. WindowsOK(x) /\ DigestsOK(x, completed) /\ HBacked(x, completed)
    BY <1>2, <1>5 DEF Good, WindowsOK, WindowOK, DigestsOK, HBacked
  <2>2. x.lastOrdered <= x.seen
    BY <1>2, <1>5 DEF Good
  <2>3. \A i \in 1..Len(x.stashed) : x.stashed[i] <= x.seen
    <3>. TAKE i \in 1..Len(x.stashed)
    <3>1. rep[r].stashed[i] <= rep[r].seen /\ rep[r].stashed[i] \in Nat
      <4>1. rep[r].stashed \in Seq(SeqNos)
        BY <1>2 DEF ReplicaState
      <4>. QED BY <1>2, <1>5, <4>1, ElementOfSeq, Sizes DEF Good
    <3>. QED BY <1>2, <1>5, <3>1
  <2>. HIDE DEF n
  <2>. QED BY <1>2, <1>5, <1>7, <2>1, <2>2, <2>3 DEF Good, H
<1>9. Waits(x, 0, {n})
  <2>. SUFFICES ASSUME NEW j \in 1..x.seen, ~(j <= x.lastOrdered), j # n
                PROVE  \E i \in 1..Len(x.stashed) : x.stashed[i] = j /\ (j > H(x) \/ i <= 0)
    BY DEF Waits
  <2>1. j \in 1..rep[r].seen
    BY <1>2, <1>5
  <2>. QED BY <1>2, <1>5, <2>1 DEF Waits, H
<1>10. Handled(z, x, 0, 1, completed)
  <2>. DEFINE zero == 0
  <2>1. zero \in Nat /\ Waits(x, zero, {n}) /\ Len(x.stashed) <= d /\ n <= x.seen /\ ~x.failed
    BY <1>1, <1>2, <1>5, <1>6, <1>9 DEF d
  <2>2. Handled(dispatchThreePhaseMsg(rel, x, n), x, zero, 1, completed)
    <3>. HIDE DEF zero, n
    <3>. QED BY <1>1, <1>2, <1>3, <1>8, <2>1, DispatchKeeps
  <2>. QED BY <2>2 DEF z
<1>11. Good(z, completed) /\ Waits(z, 0, {}) /\ rep[r].lastOrdered <= z.lastOrdered
  BY <1>5, <1>10 DEF Handled, Later
<1>. QED BY <1>1, <1>2, <1>11, StoreKeeps DEF completed

\* A CHECKPOINT comes.
LEMMA CheckpointKeeps ==
    ASSUME CInv, NEW r \in Replicas, NEW m \in chan[r] \cup FaultyMsgs, ReceiveCheckpoint(r, m)
    PROVE  CInv'
<1>. DEFINE x == rep[r]
            d == Len(x.stashed)
            rel == released(d)
            z == processCheckpoint(rel, x, m)
            completed == Completed(r)
            c == [chan EXCEPT ![r] = @ \ {m}]
<1>1. r \in Correct /\ Store(r, z, c)
  BY DEF ReceiveCheckpoint
<1>2. /\ d \in Nat /\ Len(x.stashed) <= d /\ chan \in [Replicas -> SUBSET CheckpointMsg]
      /\ Good(x, completed) /\ Waits(x, 0, {})
  BY <1>1, LenProperties DEF CInv, ReplicaState
<1>3. Contract(rel, d, completed)
  <2>. HIDE DEF completed, d
  <2>. QED BY <1>2, ReleasedOK
<1>4. m \in CheckpointMsg /\ (m.digest = "right" => <<m.from, m.start>> \in completed)
  <2>1. CASE m \in chan[r]
    BY <1>1, <1>2, <2>1 DEF CInv
  <2>2. CASE m \in FaultyMsgs
    <3>1. m \in CheckpointMsg /\ m.from \in Faulty
      BY <2>2, FaultyMsgsAssumption
    <3>2. m.from \in Replicas /\ m.start \in SeqNos /\ m.from # r
      BY <1>1, <3>1 DEF CheckpointMsg, Correct
    <3>. QED BY <3>1, <3>2 DEF Completed
  <2>. QED BY <2>1, <2>2
<1>5. c \in [Replicas -> SUBSET CheckpointMsg] /\ \A q \in Replicas : c[q] \subseteq chan[q]
  BY <1>2
<1>. HIDE DEF rel, d, z, completed, c, x
<1>6. Handled(z, x, 0, 0, completed)
  <2>. DEFINE zero == 0
  <2>1. zero \in Nat /\ Waits(x, zero, {})
    BY <1>2
  <2>2. Handled(processCheckpoint(rel, x, m), x, zero, 0, completed)
    <3>. HIDE DEF zero
    <3>. QED BY <1>2, <1>3, <1>4, <2>1, ProcessKeeps
  <2>. QED BY <2>2 DEF z
<1>7. Good(z, completed) /\ Waits(z, 0, {}) /\ x.lastOrdered <= z.lastOrdered
  BY <1>6 DEF Handled, Later
<1>. QED BY <1>1, <1>5, <1>7, StoreKeeps DEF completed, x

\* The node catches up to the batch n.
LEMMA CaughtUpKeeps ==
    ASSUME CInv, NEW r \in Replicas, NEW n \in SeqNos, caught_up_till_pp_seq_no(r, n)
    PROVE  CInv'
<1>. DEFINE x == rep[r]
            y == [x EXCEPT !.seen = n, !.lastOrdered = n]
            completed == Completed(r)

<1>1. /\ r \in Correct /\ n > x.seen /\ rep' = [rep EXCEPT ![r] = y] /\ chan' = chan
      /\ rep \in [Replicas -> ReplicaState] /\ r \in Replicas
  <2>1. rep' = [rep EXCEPT ![r].seen = n, ![r].lastOrdered = n]
    BY DEF caught_up_till_pp_seq_no
  <2>. QED BY <2>1 DEF caught_up_till_pp_seq_no, CInv
<1>2. /\ x \in ReplicaState /\ x.seen \in Nat /\ x.lastOrdered \in Nat /\ x.h \in Nat /\ n \in Nat
      /\ Good(x, completed) /\ x.out = {} /\ x.lastOrdered <= n
      /\ x.checkpoints \in SUBSET CheckpointState
  BY <1>1, Sizes DEF CInv, ReplicaState, Good
<1>3. y \in [seen : {n}, log : {x.log}, lastOrdered : {n}, checkpoints : {x.checkpoints},
             stashedRecvd : {x.stashedRecvd}, stashed : {x.stashed}, h : {x.h},
             failed : {x.failed}, out : {x.out}]
  BY <1>2 DEF ReplicaState
<1>. HIDE DEF y
<1>4. /\ y.seen = n /\ y.log = x.log /\ y.lastOrdered = n /\ y.checkpoints = x.checkpoints
      /\ y.stashedRecvd = x.stashedRecvd /\ y.stashed = x.stashed /\ y.h = x.h
      /\ y.failed = x.failed /\ y.out = x.out
  BY <1>3
<1>5. y \in ReplicaState
  BY <1>2, <1>3 DEF ReplicaState
<1>6. Good(y, completed)
  <2>. HIDE DEF completed, x
  <2>1. WindowsOK(y)
    <3>1. \A c \in x.checkpoints : c.seqNo \in Nat /\ c.seqNo <= x.lastOrdered
      BY <1>2, Fields DEF Good, WindowsOK, WindowOK
    <3>2. \A c \in x.checkpoints : c.seqNo <= n
      BY <1>2, <3>1
    <3>. QED BY <1>2, <1>4, <3>2 DEF Good, WindowsOK, WindowOK
  <2>2. DigestsOK(y, completed) /\ HBacked(y, completed)
    BY <1>2, <1>4 DEF Good, DigestsOK, HBacked
  <2>3. \A i \in 1..Len(y.stashed) : y.stashed[i] <= y.seen
    <3>. TAKE i \in 1..Len(y.stashed)
    <3>1. x.stashed[i] <= x.seen /\ x.stashed[i] \in Nat
      <4>1. x.stashed \in Seq(SeqNos)
        BY <1>2 DEF ReplicaState
      <4>. QED BY <1>2, <1>4, <4>1, ElementOfSeq, Sizes DEF Good
    <3>. QED BY <1>1, <1>2, <1>4, <3>1
  <2>4. y.h <= y.lastOrdered /\ y.lastOrdered <= y.seen
    BY <1>2, <1>4 DEF Good
  <2>. QED BY <1>2, <1>4, <1>5, <2>1, <2>2, <2>3, <2>4 DEF Good, H
<1>7. Waits(y, 0, {})
  BY <1>4 DEF Waits
<1>8. Store(r, y, chan)
  <2>1. y.out = {}
    BY <1>2, <1>4
  <2>2. [y EXCEPT !.out = {}] = y
    <3>. DEFINE no == {}
    <3>1. y.out = no
      BY <2>1
    <3>. HIDE DEF no
    <3>2. [y EXCEPT !.out = no] = y
      BY <1>3, <3>1
    <3>. QED BY <3>2 DEF no
  <2>3. chan' = Send(r, y, chan)
    <3>1. {[start |-> s, digest |-> "right", from |-> r] : s \in y.out} = {}
      BY <2>1
    <3>2. chan \in [Replicas -> SUBSET CheckpointMsg]
      BY DEF CInv
    <3>. QED BY <1>1, <3>1, <3>2 DEF Send
  <2>. QED BY <1>1, <2>2, <2>3 DEF Store
<1>9. chan \in [Replicas -> SUBSET CheckpointMsg] /\ \A q \in Replicas : chan[q] \subseteq chan[q]
  BY DEF CInv
<1>10. rep[r].lastOrdered <= y.lastOrdered
  BY <1>2, <1>4
<1>. HIDE DEF x, completed
<1>. QED BY <1>1, <1>6, <1>7, <1>8, <1>9, <1>10, StoreKeeps DEF completed

LEMMA LossKeeps ==
    ASSUME CInv, rep' = rep, NEW lose \in [Replicas -> SUBSET CheckpointMsg],
           chan' = lose, \A q \in Replicas : lose[q] \subseteq chan[q]
    PROVE  CInv'
<1>1. \A q \in Replicas : Completed(q)' = Completed(q)
  BY DEF Completed
<1>. QED BY <1>1 DEF CInv, Correct

LEMMA StepGood == CInv /\ [Next]_vars => CInv'
<1>. SUFFICES ASSUME CInv, [Next]_vars PROVE CInv'
  OBVIOUS
<1>1. chan \in [Replicas -> SUBSET CheckpointMsg]
  BY DEF CInv
<1>2. ASSUME NEW r \in Replicas, NEW m, Lose(r, m) PROVE CInv'
  <2>. DEFINE less == [chan EXCEPT ![r] = @ \ {m}]
  <2>1. rep' = rep /\ chan' = less
    BY <1>2 DEF Lose
  <2>2. less \in [Replicas -> SUBSET CheckpointMsg] /\ \A q \in Replicas : less[q] \subseteq chan[q]
    BY <1>1
  <2>. HIDE DEF less
  <2>. QED BY <2>1, <2>2, LossKeeps
<1>3. CASE UNCHANGED vars
  <2>1. rep' = rep /\ chan' = chan
    BY <1>3 DEF vars
  <2>. QED BY <1>1, <2>1, LossKeeps
<1>4. CASE Next
  <2>1. PICK r \in Replicas :
            \/ ReceiveBatch(r)
            \/ \E m \in chan[r] \cup FaultyMsgs : ReceiveCheckpoint(r, m)
            \/ \E m \in chan[r] : Lose(r, m)
            \/ \E n \in SeqNos : caught_up_till_pp_seq_no(r, n)
    BY <1>4 DEF Next
  <2>. QED BY <1>2, <2>1, BatchKeeps, CheckpointKeeps, CaughtUpKeeps
<1>. QED BY <1>3, <1>4

\* The invariant: what holds of each replica, and a CHECKPOINT with the right
\* digest comes from somebody who is faulty or has ordered its window (Good).
THEOREM ReplicasGood == Spec => []CInv
<1>1. Init => CInv
  BY InitGood
<1>2. CInv /\ [Next]_vars => CInv'
  BY StepGood
<1>. QED BY <1>1, <1>2, PTL DEF Spec

-----------------------------------------------------------------------------
\* f+1 correct replicas have ordered what one has made stable: 2f others have
\* vouched for it, at most f of them are faulty, and there is the replica itself.
LEMMA Backed == CInv => StableBacked
<1>. SUFFICES ASSUME CInv, NEW r \in Correct
              PROVE  Cardinality({q \in Correct : rep[q].lastOrdered >= rep[r].h}) > f
  BY DEF StableBacked
<1>. DEFINE x == rep[r]
            A == {q \in Correct : rep[q].lastOrdered >= x.h}
<1>1. /\ IsFiniteSet(Replicas) /\ Faulty \subseteq Replicas /\ Cardinality(Faulty) <= f
      /\ Cardinality(Replicas) \in Nat /\ IsFiniteSet(Faulty) /\ Cardinality(Faulty) \in Nat
      /\ r \in Replicas /\ r \notin Faulty
  BY CheckpointsAssumption, Sizes, FS_Subset, FS_CardinalityType DEF Correct
<1>2. Cardinality(Replicas) >= 1
  BY <1>1, FS_EmptySet
<1>3. f \in Nat /\ 3 * f + 1 <= Cardinality(Replicas)
  BY <1>1, <1>2 DEF f
<1>4. /\ rep \in [Replicas -> ReplicaState] /\ Good(x, Completed(r))
      /\ x.h \in Nat /\ x.lastOrdered \in Nat /\ x.h <= x.lastOrdered
  BY <1>1 DEF CInv, Good, ReplicaState
<1>5. \A q \in Replicas : rep[q].lastOrdered \in Nat
  BY <1>4 DEF ReplicaState
<1>6. A \subseteq Replicas /\ r \in A
  BY <1>1, <1>4 DEF Correct
<1>7. IsFiniteSet(A) /\ Cardinality(A) \in Nat
  <2>. HIDE DEF A
  <2>. QED BY <1>1, <1>6, FS_Subset, FS_CardinalityType
<1>8. IsFiniteSet(A \cup Faulty) /\ Cardinality(A \cup Faulty) \in Nat
      /\ Cardinality(A \cup Faulty) <= Cardinality(A) + Cardinality(Faulty)
  <2>. HIDE DEF A
  <2>1. IsFiniteSet(A \cup Faulty)
    BY <1>1, <1>7, FS_Union
  <2>2. Cardinality(A \cup Faulty) = Cardinality(A) + Cardinality(Faulty) - Cardinality(A \cap Faulty)
    BY <1>1, <1>7, FS_Union
  <2>3. Cardinality(A \cap Faulty) \in Nat /\ Cardinality(A \cup Faulty) \in Nat
    <3>1. IsFiniteSet(A \cap Faulty)
      BY <1>7, FS_Subset
    <3>. QED BY <2>1, <3>1, FS_CardinalityType
  <2>. QED BY <1>1, <1>7, <2>1, <2>2, <2>3
<1>9. Cardinality(A \cup Faulty) >= 2 * f + 1
  <2>1. CASE x.h = 0
    <3>1. A \cup Faulty = Replicas
      BY <1>1, <1>5, <2>1 DEF Correct
    <3>. HIDE DEF A
    <3>. QED BY <1>1, <1>3, <3>1
  <2>2. CASE x.h # 0
    <3>1. PICK s \in SeqNos :
              /\ seqNoEnd(s) = x.h
              /\ Cardinality({q \in Replicas : <<q, s>> \in Completed(r)}) >= 2 * f
      BY <1>4, <2>2 DEF Good, HBacked
    <3>. DEFINE Q == {q \in Replicas : <<q, s>> \in Completed(r)}
    <3>2. ASSUME NEW q \in Q PROVE q \in A \cup Faulty /\ q # r
      <4>1. q \in Replicas /\ q # r /\ (q \in Faulty \/ seqNoEnd(s) <= rep[q].lastOrdered)
        BY DEF Completed
      <4>2. rep[q].lastOrdered \in Nat
        BY <1>5, <4>1
      <4>. QED BY <1>4, <3>1, <4>1, <4>2 DEF Correct
    <3>3. Cardinality(Q) >= 2 * f /\ Q \subseteq Replicas
      BY <3>1
    <3>. HIDE DEF Q, A
    <3>4. IsFiniteSet(Q) /\ Cardinality(Q) \in Nat
      BY <1>1, <3>3, FS_Subset, FS_CardinalityType
    <3>5. Q \cup {r} \subseteq A \cup Faulty /\ r \notin Q
      BY <1>6, <3>2
    <3>6. IsFiniteSet(Q \cup {r}) /\ Cardinality(Q \cup {r}) = Cardinality(Q) + 1
      BY <3>4, <3>5, FS_AddElement
    <3>7. Cardinality(Q \cup {r}) <= Cardinality(A \cup Faulty)
      BY <1>8, <3>5, FS_Subset
    <3>. QED BY <1>3, <1>8, <3>3, <3>4, <3>6, <3>7
  <2>. QED BY <2>1, <2>2
<1>10. Cardinality(A) > f
  <2>. HIDE DEF A
  <2>. QED BY <1>1, <1>3, <1>7, <1>8, <1>9
<1>. QED BY <1>10

\* What a replica clears from its log others still have: f+1 correct replicas have
\* ordered everything up to a stable checkpoint (checkIfCheckpointStable).
THEOREM StableIsBacked == Spec => []StableBacked
BY ReplicasGood, Backed, PTL

\* The log never holds a batch outside the watermarks (gc,
\* isPpSeqNoBetweenWaterMarks).
THEOREM LogStaysBounded == Spec => []LogBounded
<1>1. CInv => LogBounded
  BY DEF CInv, Good, LogBounded
<1>. QED BY <1>1, ReplicasGood, PTL

\* However the calls nest that order, make stable and release stashed batches, a
\* batch that reached a replica is ordered or waits above the high watermark
\* (processStashedMsgsForNewWaterMarks).
THEOREM NothingLost == Spec => []NoneLost
<1>1. CInv => NoneLost
  <2>. SUFFICES ASSUME CInv, NEW r \in Correct, NEW n \in 1 .. rep[r].seen,
                       ~(n <= rep[r].lastOrdered)
                PROVE  n > H(rep[r]) /\ n \in Range(rep[r].stashed)
    BY DEF NoneLost
  <2>1. rep[r].stashed \in Seq(SeqNos)
    BY DEF CInv, ReplicaState, Correct
  <2>2. PICK i \in 1..Len(rep[r].stashed) : rep[r].stashed[i] = n /\ (n > H(rep[r]) \/ i <= 0)
    BY DEF CInv, Waits
  <2>3. n > H(rep[r])
    BY <2>2
  <2>4. DOMAIN rep[r].stashed = 1..Len(rep[r].stashed)
    BY <2>1, LenProperties
  <2>. QED BY <2>2, <2>3, <2>4 DEF Range
<1>. QED BY <1>1, ReplicasGood, PTL
=============================================================================
