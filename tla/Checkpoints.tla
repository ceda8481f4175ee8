---------------------------- MODULE Checkpoints ----------------------------
(***************************************************************************)
(* Checkpoints and watermarks of one protocol instance                     *)
(* (plenum/server/replica.py).  A replica that has ordered CHK_FREQ        *)
(* batches of a window sends a CHECKPOINT with a digest of them; when 2f   *)
(* others have sent the same digest the checkpoint is stable, the log up   *)
(* to it is cleared and the watermarks move.  Three phase messages above   *)
(* the high watermark are stashed until then.                              *)
(*                                                                         *)
(* The three phases of a batch are one step here: a batch is decided when  *)
(* 2f+1 replicas have it between their watermarks, and the decided batches *)
(* reach a replica in order.  A window is named by its first sequence      *)
(* number; all correct replicas order the same batches, so that a digest   *)
(* is either the right one of its window or not.                           *)
(*                                                                         *)
(* What the code keeps and never reads again is left out: CHECKPOINTs in   *)
(* the stash of a window that is complete, digests received for a stable   *)
(* one.  A replica is a record; the operators map records to records, and  *)
(* what a replica sends is collected in `out'.                             *)
(***************************************************************************)
EXTENDS Naturals, Sequences, FiniteSets, SequencesExt

CONSTANTS
    Replicas,
    Faulty,         \* replicas that do not follow the protocol
    FaultyMsgs,     \* the CHECKPOINTs these send, to anybody at any time
    CHK_FREQ, LOG_SIZE,
    MaxSeq,         \* bound on batches
    MaxCatchups,    \* bound on catch-ups
    MaxLost         \* bound on CHECKPOINTs lost with a connection

f == (Cardinality(Replicas) - 1) \div 3

ASSUME CheckpointsAssumption ==
    /\ IsFiniteSet(Replicas) /\ Faulty \subseteq Replicas /\ Cardinality(Faulty) <= f
    /\ CHK_FREQ \in Nat \ {0} /\ LOG_SIZE \in Nat \ {0}
    /\ {MaxSeq, MaxCatchups, MaxLost} \subseteq Nat

VARIABLES
    rep,        \* replicas
    chan,       \* chan[r]: CHECKPOINTs on their way to r
    catchups, lost

vars == <<rep, chan, catchups, lost>>

Correct == Replicas \ Faulty
SeqNos == 1 .. MaxSeq
CheckpointMsg == [start : SeqNos, digest : {"right", "wrong"}, from : Replicas]

ASSUME FaultyMsgsAssumption == FaultyMsgs \subseteq {m \in CheckpointMsg : m.from \in Faulty}

\* A member of `checkpoints' is a CheckpointState: the first and the last batch of
\* its window so far, the `count' of their digests, who sent the same digest of
\* the window, and whether that made it stable.
NewReplica ==
    [seen |-> 0,
     log |-> {},                \* three phase messages of these batches are kept
     lastOrdered |-> 0,
     checkpoints |-> {},
     stashedRecvd |-> {},       \* stashedRecvdCheckpoints
     stashed |-> <<>>,          \* stashingWhileOutsideWaterMarks
     h |-> 0,
     failed |-> FALSE,          \* popleft of an empty deque
     out |-> {}]

CheckpointState == [start : SeqNos, seqNo : SeqNos, count : Nat,
                    receivedDigests : SUBSET Replicas, isStable : BOOLEAN]
ReplicaState == [seen : Nat, log : SUBSET SeqNos, lastOrdered : Nat,
                 checkpoints : SUBSET CheckpointState, stashedRecvd : SUBSET CheckpointMsg,
                 stashed : Seq(SeqNos), h : Nat, failed : BOOLEAN, out : SUBSET SeqNos]
-----------------------------------------------------------------------------
seqNoEnd(start) == start + CHK_FREQ - 1
H(x) == x.h + LOG_SIZE

\* firstCheckPoint is the stable one once there is one.
isPpSeqNoStable(x, n) ==
    \E c \in x.checkpoints : /\ \A o \in x.checkpoints : c.start <= o.start
                             /\ c.isStable /\ n <= c.seqNo

isPpSeqNoBetweenWaterMarks(x, n) == x.h < n /\ n <= H(x)

\* Mutant of gc: the log is kept.
KeepLog(x, n) == x

gc(x, n) == [x EXCEPT !.log = {k \in @ : k > n}]

_newCheckpointState(n) ==
    [start |-> n, seqNo |-> n, count |-> 1,
     receivedDigests |-> {}, isStable |-> FALSE]

\* The window that n falls into, with n added to it.
Extended(x, n) ==
    LET own == {c \in x.checkpoints : c.start <= n /\ n <= seqNoEnd(c.start)}
        c == CHOOSE c \in own : TRUE
    IN  [old |-> own, new |-> IF own = {} THEN _newCheckpointState(n)
                              ELSE [c EXCEPT !.seqNo = n, !.count = @ + 1]]

\* Mutant of checkIfCheckpointStable: one digest too few.
OneDigestLess(c) == Cardinality(c.receivedDigests) = 2 * f - 1

checkIfCheckpointStable(c) == Cardinality(c.receivedDigests) = 2 * f

\* Mutant of stashCheckpoint: a CHECKPOINT of an incomplete window is dropped.
DropCheckpoint(x, m) == x

\* What the sender said before of the window is replaced.
stashCheckpoint(x, m) ==
    [x EXCEPT !.stashedRecvd = {o \in @ : o.start # m.start \/ o.from # m.from} \cup {m}]

\* Mutant of StashedCount: the stash is left as it is.
KeepStash(x) == 0

\* processStashedMsgsForNewWaterMarks counts the stash before it starts.
StashedCount(x) == Len(x.stashed)

\* One call may order batches, which may complete a checkpoint, which may be
\* stable at once, which may release stashed messages.  release[x] is the replica
\* x once the stash was gone through, see released.

\* The watermarks move up to the end of c.
markCheckPointStable(release, x, c) ==
    LET y == [x EXCEPT !.checkpoints = {[c EXCEPT !.isStable = TRUE, !.receivedDigests = {}]}
                                       \cup {o \in @ : o.start > c.start},
                       !.h = c.seqNo]
    IN  release[gc(y, c.seqNo)]

processCheckpoint(release, x, m) ==
    LET own == {c \in x.checkpoints : c.start = m.start /\ c.count = CHK_FREQ}
        c == CHOOSE c \in own : TRUE
        d == [c EXCEPT !.receivedDigests = @ \cup {m.from}]
        y == [x EXCEPT !.checkpoints = (@ \ {c}) \cup {d}]
    IN  IF isPpSeqNoStable(x, seqNoEnd(m.start)) THEN x
        ELSE IF own = {} THEN stashCheckpoint(x, m)
        ELSE IF m.digest = "wrong" THEN x
        ELSE IF checkIfCheckpointStable(d) THEN markCheckPointStable(release, y, d) ELSE y

processStashedCheckpoints(release, x, start) ==
    LET msgs == SetToSeq({m \in x.stashedRecvd : m.start = start})
        after[k \in 0..Len(msgs)] ==
            IF k = 0 THEN [x EXCEPT !.stashedRecvd = {m \in @ : m.start # start}]
            ELSE processCheckpoint(release, after[k - 1], msgs[k])
    IN  after[Len(msgs)]

addToCheckpoint(release, x, n) ==
    LET w == Extended(x, n)
        y == [x EXCEPT !.checkpoints = (@ \ w.old) \cup {w.new}]
    IN  IF w.new.count # CHK_FREQ THEN y
        ELSE processStashedCheckpoints(release, [y EXCEPT !.out = @ \cup {w.new.start}],
                                       w.new.start)

dispatchThreePhaseMsg(release, x, n) ==
    IF isPpSeqNoStable(x, n) THEN x
    ELSE IF isPpSeqNoBetweenWaterMarks(x, n)
         THEN IF n <= x.lastOrdered THEN x      \* caught up meanwhile
              ELSE addToCheckpoint(release, [x EXCEPT !.log = @ \cup {n}, !.lastOrdered = n], n)
         ELSE [x EXCEPT !.stashed = Append(@, n)]

\* The next item of the stash, which a nested call may have emptied.
popleft(release, x) ==
    IF x.failed THEN x
    ELSE IF x.stashed = <<>> THEN [x EXCEPT !.failed = TRUE]
    ELSE dispatchThreePhaseMsg(release, [x EXCEPT !.stashed = Tail(@)], Head(x.stashed))

processStashedMsgsForNewWaterMarks(release, x) ==
    LET after[k \in 0..StashedCount(x)] == IF k = 0 THEN x ELSE popleft(release, after[k - 1])
    IN  after[StashedCount(x)]

\* For a replica that has n items in the stash.  A nested call finds fewer, since
\* the batch it is due to was taken from the stash.
released(n) ==
    LET at[k \in 0..n] ==
            IF k = 0 THEN [x \in ReplicaState |-> x]
            ELSE [x \in ReplicaState |-> processStashedMsgsForNewWaterMarks(at[k - 1], x)]
    IN  at[n]
-----------------------------------------------------------------------------
Send(r, x, c) ==
    [q \in Replicas |-> IF q \in Faulty \cup {r} THEN c[q]
                        ELSE c[q] \cup {[start |-> s, digest |-> "right", from |-> r] : s \in x.out}]

Store(r, x, c) ==
    /\ rep' = [rep EXCEPT ![r] = [x EXCEPT !.out = {}]]
    /\ chan' = Send(r, x, c)

\* Batches with a quorum of COMMITs: those that somebody has seen, and the next
\* one when 2f+1 replicas have it between their watermarks.
Decided(n) ==
    \/ \E r \in Correct : rep[r].seen >= n
    \/ Cardinality({r \in Replicas : \/ r \in Faulty
                                      \/ isPpSeqNoBetweenWaterMarks(rep[r], n)}) > 2 * f

ReceiveBatch(r) ==
    LET n == rep[r].seen + 1
    IN  /\ r \in Correct /\ n \in SeqNos /\ Decided(n) /\ ~rep[r].failed
        /\ Store(r, dispatchThreePhaseMsg(released(Len(rep[r].stashed)),
                                          [rep[r] EXCEPT !.seen = n], n), chan)
        /\ UNCHANGED <<catchups, lost>>

\* Connections are FIFO and a sender's windows grow.
Oldest(r, m) == \A o \in chan[r] : o.from = m.from => m.start <= o.start

ReceiveCheckpoint(r, m) ==
    /\ r \in Correct /\ ~rep[r].failed
    /\ m \in FaultyMsgs \/ (m \in chan[r] /\ Oldest(r, m))
    /\ Store(r, processCheckpoint(released(Len(rep[r].stashed)), rep[r], m),
             [chan EXCEPT ![r] = @ \ {m}])
    /\ UNCHANGED <<catchups, lost>>

\* The node was away for the batches up to n and got them from the others.
caught_up_till_pp_seq_no(r, n) ==
    /\ catchups < MaxCatchups /\ catchups' = catchups + 1
    /\ r \in Correct /\ n > rep[r].seen /\ \E q \in Correct : rep[q].lastOrdered >= n
    /\ rep' = [rep EXCEPT ![r].seen = n, ![r].lastOrdered = n]
    /\ UNCHANGED <<chan, lost>>

Lose(r, m) ==
    /\ lost < MaxLost /\ lost' = lost + 1
    /\ m \in chan[r] /\ Oldest(r, m)
    /\ chan' = [chan EXCEPT ![r] = @ \ {m}]
    /\ UNCHANGED <<rep, catchups>>

Init ==
    /\ catchups = 0 /\ lost = 0
    /\ rep = [r \in Replicas |-> NewReplica]
    /\ chan = [r \in Replicas |-> {}]

Next ==
    \E r \in Replicas :
        \/ ReceiveBatch(r)
        \/ \E m \in chan[r] \cup FaultyMsgs : ReceiveCheckpoint(r, m)
        \/ \E m \in chan[r] : Lose(r, m)
        \/ \E n \in SeqNos : caught_up_till_pp_seq_no(r, n)

Spec == Init /\ [][Next]_vars
-----------------------------------------------------------------------------
\* What is cleared can be had from others: when a checkpoint is stable at a
\* replica, f+1 correct replicas have ordered all the batches up to it
\* (checkIfCheckpointStable).
StableBacked ==
    \A r \in Correct :
        Cardinality({q \in Correct : rep[q].lastOrdered >= rep[r].h}) > f

\* The log holds the batches between the watermarks and no others, so that it
\* never takes more than LOG_SIZE of them (gc, isPpSeqNoBetweenWaterMarks).
LogBounded == \A r \in Correct : rep[r].log \subseteq rep[r].h + 1 .. H(rep[r])

\* No batch gets lost between the watermarks, the stash and catch-up: each that
\* reached a replica has been ordered there or waits for the watermarks to move.
NoneLost ==
    \A r \in Correct : \A n \in 1 .. rep[r].seen :
        n <= rep[r].lastOrdered \/ (n > H(rep[r]) /\ n \in Range(rep[r].stashed))

\* Nobody is left waiting with a full log: when everything sent has arrived and
\* nobody can go on, every replica has ordered everything, unless a CHECKPOINT or
\* a batch was missed (markCheckPointStable moves the watermarks in time).
NobodyStuck ==
    (lost + catchups = 0 /\ \A r \in Correct : chan[r] = {} /\ ~ENABLED ReceiveBatch(r))
        => \A r \in Correct : rep[r].lastOrdered = MaxSeq
=============================================================================
