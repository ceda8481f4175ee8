------------------------------ MODULE Monitor ------------------------------
(* The monitor a node keeps of its protocol instances (monitor.py,          *)
(* instances.py): how many requests each instance ordered and how long they *)
(* took, per instance and per client.  A monitor is a record; the           *)
(* operators are its methods.  Instance 1 is the master (masterId 0 in the  *)
(* code).  totalRequests and the windows of recent latencies are left out:  *)
(* they only feed the statistics plugins, no verdict reads them.            *)
(*                                                                          *)
(*   ordered[i]  numOrderedRequests: [reqs, tm] of instance i               *)
(*   started     requestOrderingStarted: request -> time                    *)
(*   latencies   masterReqLatencies: request -> time the master took        *)
(*   avgs[i]     clientAvgReqLatencies: client -> [n, sum]; the average     *)
(*               that the code keeps is sum / n                             *)
EXTENDS Integers, Sequences, FiniteSets, FiniteSetsExt

CONSTANTS DeltaNum, DeltaDen,  \* Delta, the least ratio of throughputs
          Lambda,              \* the longest time the master may take
          Omega                \* the largest difference of average latencies

ASSUME MonitorAssumption ==
    /\ DeltaNum \in Nat /\ DeltaDen \in Nat \ {0}
    /\ Lambda \in Nat /\ Omega \in Nat

master == 1
NewMonitor == [ordered |-> <<>>, started |-> <<>>, latencies |-> <<>>, avgs |-> <<>>]

\* Instances.count
count(m) == Len(m.ordered)
ids(m) == 1..count(m)
backupIds(m) == 2..count(m)

addInstance(m) ==
    [m EXCEPT !.ordered = Append(@, [reqs |-> 0, tm |-> 0]),
              !.avgs = Append(@, <<>>)]

\* A reset that forgets the counts only.
ResetCounts(m) == [m EXCEPT !.ordered = [i \in ids(m) |-> [reqs |-> 0, tm |-> 0]]]
reset(m) ==
    [ordered |-> [i \in ids(m) |-> [reqs |-> 0, tm |-> 0]],
     started |-> <<>>, latencies |-> <<>>, avgs |-> [i \in ids(m) |-> <<>>]]

\* The function g with x mapped to v, whether or not x was in its domain.
Put(g, x, v) == [y \in DOMAIN g \cup {x} |-> IF y = x THEN v ELSE g[y]]

requestUnOrdered(m, r, now) == [m EXCEPT !.started = Put(@, r, now)]

-----------------------------------------------------------------------------
(* Ordering.  A request is a pair <<client, id>>.                           *)

ClientOf(r) == r[1]

\* The client's number and sum once the requests rs of it are counted.
CountClient(g, rs, c, Duration(_)) ==
    LET old == IF c \in DOMAIN g THEN g[c] ELSE [n |-> 0, sum |-> 0]
        own == {r \in rs : ClientOf(r) = c}
    IN  [n |-> old.n + Cardinality(own), sum |-> old.sum + MapThenSumSet(Duration, own)]

\* Requests forwarded before the last reset are passed over.
requestOrdered(m, reqs, inst, now) ==
    LET known == reqs \cap DOMAIN m.started
        duration(r) == now - m.started[r]
        clients == {ClientOf(r) : r \in known}
    IN  [m EXCEPT
           !.latencies = IF inst = master
                         THEN [r \in DOMAIN @ \cup known |->
                                  IF r \in known THEN duration(r) ELSE @[r]]
                         ELSE @,
           !.avgs[inst] = [c \in DOMAIN @ \cup clients |->
                              CountClient(@, known, c, duration)],
           !.ordered[inst] = [reqs |-> @.reqs + Cardinality(known),
                              tm   |-> @.tm + MapThenSumSet(duration, known)]]

-----------------------------------------------------------------------------
(* The verdict                                                              *)

getThroughput(m, i) == m.ordered[i]

\* The requests and the time of all the other instances.
getInstanceMetrics(m, forAllExcept) ==
    LET others == ids(m) \ {forAllExcept}
        reqsOf(i) == m.ordered[i].reqs
        tmOf(i) == m.ordered[i].tm
    IN  [reqs |-> MapThenSumSet(reqsOf, others), tm |-> MapThenSumSet(tmOf, others)]

\* masterThroughputRatio is None when the master has ordered nothing yet (a
\* quotient by a time of zero) and when the backups have not: a master that
\* stays silent is not measurable.  The branch of getThroughputs for a master
\* throughput of 0 is never taken, since requests and time are 0 together.
Measurable(m) ==
    /\ getThroughput(m, master).tm # 0
    /\ getInstanceMetrics(m, master).tm # 0

isMasterThroughputTooLow(m) ==
    LET M == getThroughput(m, master)
        B == getInstanceMetrics(m, master)
    IN  Measurable(m) /\ M.reqs * B.tm * DeltaDen < DeltaNum * M.tm * B.reqs

isMasterReqLatencyTooHigh(m) == \E r \in DOMAIN m.latencies : m.latencies[r] > Lambda

\* The mean, over the instances that have an average for the client, of these
\* averages, as a fraction.
getAvgLatency(m, insts, c) ==
    LET have == {i \in insts : c \in DOMAIN m.avgs[i]}
        nOf(i) == m.avgs[i][c].n
        den == FoldSet(LAMBDA i, p : nOf(i) * p, 1, have)
        part(i) == m.avgs[i][c].sum * (den \div nOf(i))
    IN  [num |-> MapThenSumSet(part, have), den |-> den * Cardinality(have)]

ClientsOf(m, insts) == UNION {DOMAIN m.avgs[i] : i \in insts}

\* The clients are looked at in the order of a dict, and a client that the
\* master has no record of ends the loop: with some order a client of both that
\* waits too long is found first.
isMasterAvgReqLatencyTooHigh(m) ==
    \E c \in ClientsOf(m, backupIds(m)) \cap ClientsOf(m, {master}) :
        LET M == getAvgLatency(m, {master}, c)
            B == getAvgLatency(m, backupIds(m), c)
        IN  M.num * B.den - B.num * M.den > Omega * M.den * B.den

isMasterDegraded(m) ==
    /\ count(m) > 0
    /\ \/ isMasterThroughputTooLow(m)
       \/ isMasterReqLatencyTooHigh(m)
       \/ isMasterAvgReqLatencyTooHigh(m)
=============================================================================
