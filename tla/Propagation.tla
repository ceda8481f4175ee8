---------------------------- MODULE Propagation ----------------------------
(***************************************************************************)
(* The life of one request key at the nodes of a pool, from the client to  *)
(* the reply (plenum/server/propagator.py and the request handlers of      *)
(* plenum/server/node.py).  `Requests' is a dictionary by key and none of  *)
(* its operations looks at two keys, so one key is enough.                 *)
(*                                                                         *)
(* The client may sign several contents under the key and send different   *)
(* ones to different nodes.  Signatures hold: a node in Faulty can only    *)
(* propagate what the client signed, but to whom and when it likes, and as *)
(* coming from the client it likes: the name is not part of the request.   *)
(* Ordering and the checkpoints that let the replicas forget a request are *)
(* the environment of this module.                                         *)
(***************************************************************************)
EXTENDS Integers, FiniteSets

CONSTANTS Nodes,        \* the nodes of the pool
          Faulty,       \* nodes that do not follow the protocol
          Contents,     \* requests the client signed under this key
          FaultySends,  \* those of them that the faulty nodes propagate
          FaultyNames,  \* the clients they name as its sender
          Asked,        \* the nodes the client sends to
          Instances,    \* protocol instances (replicas of a node)
          MaxTroubles,  \* bound: nodes that fall out of sync or forget the request
          MaxRounds     \* bound: times one node forgets the request

NoRequest == "no request"

\* The client that asks, and any other one a PROPAGATE may name.
Asker == "asker"
Other == "other"
NoSender == "no sender"
Clients == {Asker, Other}

ASSUME NodesAssumption ==
    /\ IsFiniteSet(Nodes)
    /\ Faulty \subseteq Nodes
    /\ Asked \subseteq Nodes
    /\ FaultySends \subseteq Contents
    /\ FaultyNames \subseteq Clients
    /\ NoRequest \notin Contents

ASSUME NumbersAssumption ==
    Instances \in Nat \ {0} /\ MaxTroubles \in Nat /\ MaxRounds \in Nat

\* getMaxFailures.
f == (Cardinality(Nodes) - 1) \div 3

ASSUME FaultsAssumption == Cardinality(Faulty) <= f

Correct == Nodes \ Faulty

\* PROPAGATE; `client' is its senderClient, `round' tells the ones a node sends
\* before and after it forgot the request apart.
Message == [from : Nodes, request : Contents, client : Clients, round : Nat]

VARIABLES
    propagates,     \* propagates[n][s]: the request s propagated, if any
    finalised,      \* finalised[n]: the request with enough PROPAGATEs
    forwardedTo,    \* forwardedTo[n]: replicas that still hold the request
    toOrder,        \* toOrder[n]: the master replica's inBox holds the key
    vouched,        \* vouched[n]: requests n recorded as its own PROPAGATE
    requestSender,  \* requestSender[n]: the client the reply goes to
    executed,       \* executed[n]: the ledger holds the reply
    asked,          \* asked[n]: the client's REQUEST has reached n
    replied,        \* replied[n]: a REPLY went out after that
    participating,  \* participating[n]: the node's mode
    round,          \* round[n]: times n forgot the request
    network,        \* network[n]: PROPAGATEs on their way to n
    syncs,          \* times a node fell out of sync
    misnamed        \* a PROPAGATE of a faulty node named another client

requestVars == <<propagates, finalised, forwardedTo, toOrder, vouched>>
clientVars == <<requestSender, executed, asked, replied, misnamed>>
vars == <<requestVars, clientVars, participating, round, network, syncs>>

Troubles == syncs + Cardinality({n \in Nodes : round[n] > 0})

-----------------------------------------------------------------------------
(* Requests of one node *)

Voters(props, c) == {s \in Nodes : props[s] = c}

\* Mutant: the PROPAGATEs of the key are counted, as Requests.votes does, and not
\* those with the same request in them.
VotesForKey(props, c, maxF) ==
    /\ Cardinality({s \in Nodes : props[s] # NoRequest}) > maxF
    /\ \A o \in Contents : Cardinality(Voters(props, o)) <= Cardinality(Voters(props, c))

\* c is a request checkIfMoreThanFSameItems may return: a most frequent one,
\* found more than maxF times.
checkIfMoreThanFSameItems(props, c, maxF) ==
    /\ Cardinality(Voters(props, c)) > maxF
    /\ \A o \in Contents : Cardinality(Voters(props, o)) <= Cardinality(Voters(props, c))

Finalisable(props, maxF) == {c \in Contents : checkIfMoreThanFSameItems(props, c, maxF)}

hasPropagated(n, props) == props[n] # NoRequest

\* propagate: the node's own PROPAGATE is recorded once, and sent only while
\* the node participates.  `props' is what the handler has recorded before.
addPropagate(n, props, c) ==
    IF hasPropagated(n, props) THEN props ELSE [props EXCEPT ![n] = c]

createPropagate(n, props, c, client) ==
    {m \in {[from |-> n, request |-> c, client |-> client, round |-> round[n]]} :
        participating[n] /\ ~hasPropagated(n, props)}

propagate(n, props, c, client, net) ==
    /\ propagates' = [propagates EXCEPT ![n] = addPropagate(n, props, c)]
    /\ vouched' = [vouched EXCEPT ![n] =
          IF hasPropagated(n, props) THEN @ ELSE @ \cup {c}]
    /\ network' = [q \in Nodes |-> IF q \in Faulty \cup {n} THEN net[q]
                                   ELSE net[q] \cup createPropagate(n, props, c, client)]

\* forward: the key goes to every replica of the node.
forward(n) ==
    /\ toOrder' = [toOrder EXCEPT ![n] = TRUE]
    /\ forwardedTo' = [forwardedTo EXCEPT ![n] = Instances]

\* tryForwarding and canForward, on the PROPAGATEs `props' recorded by then:
\* not again, and only a request with more than f+1 PROPAGATEs.
tryForwarding(n, props) ==
    IF forwardedTo[n] = 0 /\ Finalisable(props, f + 1) # {}
    THEN /\ \E c \in Finalisable(props, f + 1) : finalised' = [finalised EXCEPT ![n] = c]
         /\ forward(n)
    ELSE UNCHANGED <<finalised, forwardedTo, toOrder>>

-----------------------------------------------------------------------------
(* Actions *)

\* isProcessingReq, startedProcessingReq: whoever is recorded first stays.
startedProcessingReq(n, client) ==
    requestSender' = [requestSender EXCEPT ![n] = IF @ = NoSender THEN client ELSE @]

\* Mutant: the sender is kept only if no PROPAGATE came before the REQUEST, and
\* the ledger is not asked.
AckKnown(n, c) ==
    /\ asked' = [asked EXCEPT ![n] = TRUE]
    /\ IF hasPropagated(n, propagates[n]) THEN UNCHANGED requestSender
       ELSE startedProcessingReq(n, Asker)
    /\ propagate(n, propagates[n], c, Asker, network)
    /\ tryForwarding(n, addPropagate(n, propagates[n], c))
    /\ UNCHANGED <<executed, replied, participating, round, syncs, misnamed>>

\* processRequest: a REPLY from the ledger, or the request is recorded,
\* propagated and acknowledged.
processRequest(n, c) ==
    /\ asked' = [asked EXCEPT ![n] = TRUE]
    /\ IF executed[n]
       THEN /\ replied' = [replied EXCEPT ![n] = TRUE]
            /\ UNCHANGED <<requestVars, requestSender, network>>
       ELSE /\ startedProcessingReq(n, Asker)
            /\ propagate(n, propagates[n], c, Asker, network)
            /\ tryForwarding(n, addPropagate(n, propagates[n], c))
            /\ UNCHANGED replied
    /\ UNCHANGED <<executed, participating, round, syncs, misnamed>>

\* processPropagate: recorded, the last one of a sender counts; then the node
\* propagates the request itself, as of the client that the PROPAGATE names.
processPropagate(n, m) ==
    LET props == [propagates[n] EXCEPT ![m.from] = m.request]
    IN  /\ startedProcessingReq(n, m.client)
        /\ propagate(n, props, m.request, m.client, [network EXCEPT ![n] = @ \ {m}])
        /\ tryForwarding(n, addPropagate(n, props, m.request))
        /\ misnamed' = (misnamed \/ (m.from \in Faulty /\ m.client # Asker))
        /\ UNCHANGED <<executed, asked, replied, participating, round, syncs>>

\* What a faulty node chooses to send changes the state.
FromFaulty(n) ==
    {m \in [from : Faulty, request : FaultySends, client : FaultyNames, round : {0}] :
        propagates[n][m.from] # m.request \/ requestSender[n] = NoSender}

\* PROPAGATEs of one sender arrive in order.
Deliverable(n) ==
    {m \in network[n] : \A o \in network[n] : o.from = m.from => m.round <= o.round}
    \cup FromFaulty(n)

\* The reply of the executed batch goes to the client that is recorded, which
\* then is so no more (doneProcessingReq).
sendReplyToClient(n) ==
    /\ replied' = [replied EXCEPT ![n] = @ \/ (requestSender[n] = Asker /\ asked[n])]
    /\ requestSender' = [requestSender EXCEPT ![n] = NoSender]

\* The master replica orders the request and the node commits its batch.
commitAndSendReplies(n) ==
    /\ toOrder[n]
    /\ toOrder' = [toOrder EXCEPT ![n] = FALSE]
    /\ executed' = [executed EXCEPT ![n] = TRUE]
    /\ sendReplyToClient(n)
    /\ UNCHANGED <<propagates, finalised, forwardedTo, vouched, asked,
                   participating, round, network, syncs, misnamed>>

\* Mutant: a replica the request was not forwarded to collects it as well.
CollectMore(n) ==
    /\ round[n] < MaxRounds /\ Troubles < MaxTroubles
    /\ ~toOrder[n]
    /\ forwardedTo' = [forwardedTo EXCEPT ![n] = @ - 1]
    /\ UNCHANGED <<propagates, finalised, round, toOrder, vouched,
                   clientVars, participating, network, syncs>>

\* gc of one replica, at a stable checkpoint after it ordered the request; the
\* last of them removes the request from the node.
gc(n) ==
    /\ round[n] < MaxRounds /\ Troubles < MaxTroubles
    /\ forwardedTo[n] > 0
    /\ forwardedTo[n] = 1 => ~toOrder[n]
    /\ forwardedTo' = [forwardedTo EXCEPT ![n] = @ - 1]
    /\ IF forwardedTo[n] = 1
       THEN /\ propagates' = [propagates EXCEPT ![n] = [s \in Nodes |-> NoRequest]]
            /\ finalised' = [finalised EXCEPT ![n] = NoRequest]
            /\ round' = [round EXCEPT ![n] = @ + 1]
       ELSE UNCHANGED <<propagates, finalised, round>>
    /\ UNCHANGED <<toOrder, vouched, clientVars, participating, network, syncs>>

\* The node starts to catch up, and participates again.
ChangeMode(n) ==
    /\ participating[n] => Troubles < MaxTroubles
    /\ syncs' = IF participating[n] THEN syncs + 1 ELSE syncs
    /\ participating' = [participating EXCEPT ![n] = ~@]
    /\ UNCHANGED <<requestVars, clientVars, round, network>>

Init ==
    /\ propagates = [n \in Nodes |-> [s \in Nodes |-> NoRequest]]
    /\ finalised = [n \in Nodes |-> NoRequest]
    /\ forwardedTo = [n \in Nodes |-> 0]
    /\ toOrder = [n \in Nodes |-> FALSE]
    /\ vouched = [n \in Nodes |-> {}]
    /\ requestSender = [n \in Nodes |-> NoSender]
    /\ executed = [n \in Nodes |-> FALSE]
    /\ asked = [n \in Nodes |-> FALSE]
    /\ replied = [n \in Nodes |-> FALSE]
    /\ participating = [n \in Nodes |-> TRUE]
    /\ round = [n \in Nodes |-> 0]
    /\ network = [n \in Nodes |-> {}]
    /\ syncs = 0
    /\ misnamed = FALSE

\* The client sends to a node once; the retries are in module Client.
Ask(n) == n \in Asked /\ ~asked[n] /\ \E c \in Contents : processRequest(n, c)

Receive(n, s) == \E m \in Deliverable(n) : m.from = s /\ processPropagate(n, m)

Step(n) ==
    \/ Ask(n)
    \/ \E s \in Nodes : Receive(n, s)
    \/ commitAndSendReplies(n)
    \/ gc(n)
    \/ ChangeMode(n)

Next == \E n \in Correct : Step(n)

Spec == Init /\ [][Next]_vars

-----------------------------------------------------------------------------
(* Properties *)

\* The dictionaries of a node hold what propagator.py puts there.
TypeOK ==
    /\ propagates \in [Nodes -> [Nodes -> Contents \cup {NoRequest}]]
    /\ finalised \in [Nodes -> Contents \cup {NoRequest}]
    /\ forwardedTo \in [Nodes -> 0..Instances]
    /\ toOrder \in [Nodes -> BOOLEAN]
    /\ vouched \in [Nodes -> SUBSET Contents]
    /\ requestSender \in [Nodes -> Clients \cup {NoSender}]
    /\ executed \in [Nodes -> BOOLEAN]
    /\ asked \in [Nodes -> BOOLEAN]
    /\ replied \in [Nodes -> BOOLEAN]
    /\ participating \in [Nodes -> BOOLEAN]
    /\ round \in [Nodes -> Nat]
    /\ network \in [Nodes -> SUBSET Message]
    /\ syncs \in Nat
    /\ misnamed \in BOOLEAN

\* What a correct node records as another correct node's PROPAGATE, or is on
\* its way, is a request that node vouched for.
RecordedVouched ==
    \A n \in Correct : \A s \in Correct :
        propagates[n][s] # NoRequest => propagates[n][s] \in vouched[s]
SentVouched ==
    \A n \in Correct : \A m \in network[n] :
        m.from \in Correct => m.request \in vouched[m.from]

\* A request stays finalised although its PROPAGATEs may be overwritten later.
Backers(c) == {s \in Correct : c \in vouched[s]}
FinalisedBacked ==
    \A n \in Correct : finalised[n] # NoRequest =>
        Cardinality(Backers(finalised[n])) + Cardinality(Faulty) >= f + 2

\* A request that a node forwards to its replicas was recorded as the client's by
\* all but the faulty ones of f+2 nodes, at least two: the faulty ones cannot get a
\* request into the queues alone, nor with one misled node.  This is the number the
\* code asks for; canForward's comment and the test plan say f+1, which would leave
\* one correct node.
BackedInv == RecordedVouched /\ SentVouched /\ FinalisedBacked

\* In a pool of four, nodes that forward the key agree on the request under it,
\* whatever the client signed and the faulty node relays, until one of them
\* forgets the request.
FinalisedAgree ==
    \A n, o \in Correct :
        (\A q \in Correct : round[q] = 0) /\ finalised[n] # NoRequest /\ finalised[o] # NoRequest => finalised[n] = finalised[o]

\* A node does not lose the client of a request it has acknowledged, in whatever
\* order the REQUEST, the PROPAGATEs and the execution come: the client is recorded
\* or got its reply.  Only a faulty node's PROPAGATE that names another client can
\* take its place, at this node or, passed on, at others; the reply then goes there,
\* and the client gets its own from the ledger when it asks again.
SenderKept ==
    \A n \in Correct : asked[n] /\ ~replied[n] =>
        \/ requestSender[n] = Asker
        \/ misnamed /\ (requestSender[n] = Other \/ executed[n])

=============================================================================
