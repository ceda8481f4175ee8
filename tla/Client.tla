------------------------------- MODULE Client -------------------------------
(***************************************************************************)
(* A client with one request (plenum/client/client.py, its request store   *)
(* and transaction log) together with the nodes that propagate, execute    *)
(* and answer it (module Propagation).  The client sends the request to    *)
(* the nodes it is connected to, keeps who has to acknowledge and to reply *)
(* and asks those again, and takes a result that f+1 nodes sent.           *)
(*                                                                         *)
(* A REPLY is its result: the one the correct nodes agree on is "right".   *)
(* REJECT is handled as REQNACK.  Everything on a connection is lost when  *)
(* it drops.                                                               *)
(***************************************************************************)
EXTENDS Propagation, Sequences

CONSTANTS
    Scenes,         \* what the client meets: see the assumption
    MaxRetry,       \* CLIENT_MAX_RETRY_ACK and CLIENT_MAX_RETRY_REPLY
    Prompt          \* TRUE: timeouts are longer than the pool takes to answer

Results == {"right", "wrong"}
Answers == {"ACK", "NACK"} \cup Results

ASSUME ClientAssumption ==
    /\ Cardinality(Contents) = 1
    /\ Scenes \subseteq [conns : SUBSET Nodes,     \* connected from the start
                         valid : BOOLEAN,          \* its signature is found valid
                         unstable : SUBSET Nodes,  \* nodes whose connection may drop
                         drops : Nat,              \* bound: times one drops
                         says : SUBSET Answers,    \* what faulty nodes send
                         lies : Nat,               \* bound: times they send it
                         relays : SUBSET Nodes,    \* whom they propagate it to
                         forget : BOOLEAN]         \* replicas may collect the request
    /\ MaxRetry \in Nat /\ Prompt \in BOOLEAN

VARIABLES
    scene,          \* the member of Scenes that happens
    conns,          \* nodes the client is connected with
    cl,             \* the client
    toNode,         \* toNode[n]: REQUESTs on their way to n
    toClient,       \* toClient[n]: messages on their way from n
    drops, said     \* drops of connections, answers of faulty nodes so far

cvars == <<scene, conns, cl, toNode, toClient, drops, said>>
allVars == <<vars, cvars>>

minNodesToConnect == f + 1
hasSufficientConnections(cs) == Cardinality(cs) >= minNodesToConnect
Nobody == [nodes |-> {}, retries |-> 0, on |-> FALSE]

NewClient ==
    [submitted |-> FALSE,
     reqsPendingConnection |-> FALSE,
     expectingAcksFor |-> Nobody,
     expectingRepliesFor |-> Nobody,
     shared |-> FALSE,          \* the two have the same set of nodes in them
     resend |-> {},             \* resendRequests is scheduled for these nodes
     acks |-> [n \in Nodes |-> 0],   \* REQACKs of n
     nacks |-> {},                   \* nodes that refused
     replies |-> [n \in Nodes |-> "none"],
     txnLog |-> "none"]              \* the result in the transaction log
-----------------------------------------------------------------------------
(* Expected answers *)

Drop(coll, n) == [coll EXCEPT !.nodes = @ \ {n}]
PopEmpty(coll) == IF coll.nodes = {} THEN Nobody ELSE coll

\* Mutant of gotExpected: whoever acknowledges is not expected to reply.
AckIsEnough(x, n, isAck) ==
    [x EXCEPT !.expectingAcksFor = PopEmpty(Drop(@, n)),
              !.expectingRepliesFor = PopEmpty(Drop(@, n))]

\* An acknowledgement is looked up in expectingAcksFor, anything else in both.
gotExpected(x, n, isAck) ==
    LET both == ~isAck \/ (x.shared /\ x.expectingAcksFor.on)
        gone == [x EXCEPT !.expectingAcksFor = Drop(@, n),
                          !.expectingRepliesFor = IF both THEN Drop(@, n) ELSE @]
    IN  [gone EXCEPT !.expectingAcksFor = PopEmpty(@),
                     !.expectingRepliesFor = IF isAck THEN @ ELSE PopEmpty(@)]

expectingFor(x, nodes) ==
    [x EXCEPT !.expectingAcksFor = [nodes |-> nodes, retries |-> 0, on |-> TRUE],
              !.expectingRepliesFor = [nodes |-> nodes, retries |-> 0, on |-> TRUE]]

\* _filterExpected, for a queue whose time has come.
Expired(coll) == coll.on /\ coll.retries >= MaxRetry

-----------------------------------------------------------------------------
(* The request store and the transaction log *)

\* The store is a list of lines: every acknowledgement is a line of its own, of
\* the refusals and the replies of a node the last one is found.
addAck(x, n) == [x EXCEPT !.acks[n] = @ + 1]
addNack(x, n) == [x EXCEPT !.nacks = @ \cup {n}]
addReply(x, n, result) == [x EXCEPT !.replies[n] = result]

getAcks(x) == Cardinality(UNION {{n} \X (1 .. x.acks[n]) : n \in Nodes})
getNacks(x) == x.nacks
getReplies(x) == {n \in Nodes : x.replies[n] # "none"}

Count(x, result) == Cardinality({n \in getReplies(x) : x.replies[n] = result})
MostSaid(x) == CHOOSE r \in Results : \A o \in Results : Count(x, o) <= Count(x, r)

\* Mutant of postReplyRecvd: f replies are enough.
OneReplyLess(x) ==
    [x EXCEPT !.txnLog = IF Count(x, MostSaid(x)) >= f /\ getReplies(x) # {} THEN MostSaid(x) ELSE @]

\* The transaction log is not found to hold the request (hasTxn compares another
\* key than append uses), so that every further reply writes it again.
postReplyRecvd(x) ==
    [x EXCEPT !.txnLog = IF Count(x, MostSaid(x)) > f THEN MostSaid(x) ELSE @]

\* hasConsensus: what the client tells its user of the request.
getReply(x) ==
    IF getReplies(x) = {} THEN "NOT_FOUND"
    ELSE IF Cardinality(getReplies(x)) > f /\ Count(x, MostSaid(x)) > f
         THEN MostSaid(x) ELSE "UNCONFIRMED"

\* Every acknowledgement counts, also a further one of the same node.
isRequestSuccessful(x) ==
    IF getAcks(x) > f THEN "Done"
    ELSE IF Cardinality(getNacks(x)) > f THEN "Refused" ELSE "Unknown"
-----------------------------------------------------------------------------
(* The client *)

ClientOnly == UNCHANGED <<vars, scene, conns, toClient, drops, said>>

SendTo(nodes) == [n \in Nodes |-> IF n \in nodes \cap conns THEN toNode[n] + 1 ELSE toNode[n]]

submitReqs ==
    /\ ~cl.submitted
    /\ IF hasSufficientConnections(conns)
       THEN /\ cl' = [expectingFor(cl, conns) EXCEPT !.submitted = TRUE]
            /\ toNode' = SendTo(conns)
       ELSE /\ cl' = [cl EXCEPT !.submitted = TRUE, !.reqsPendingConnection = TRUE]
            /\ UNCHANGED toNode
    /\ ClientOnly

handleOneNodeMsg(n) ==
    /\ toClient[n] # <<>>
    /\ LET m == Head(toClient[n])
       IN  cl' = CASE m = "ACK" -> gotExpected(addAck(cl, n), n, TRUE)
                   [] m = "NACK" -> gotExpected(addNack(cl, n), n, FALSE)
                   [] OTHER -> postReplyRecvd(gotExpected(addReply(cl, n, m), n, FALSE))
    /\ toClient' = [toClient EXCEPT ![n] = Tail(@)]
    /\ UNCHANGED <<vars, scene, conns, toNode, drops, said>>

\* Nothing is on its way and no node has anything left to do.
Answered ==
    /\ \A n \in conns : toClient[n] = <<>> /\ (n \in Correct => toNode[n] = 0)
    /\ \A n \in Correct : n \in conns /\ ~toOrder[n] /\ network[n] = {}

\* retryForExpected for the queues whose time has come.  Requests without an
\* acknowledgement only make the client look after its connections.
retryForExpected(acksDue, repliesDue) ==
    /\ cl.resend = {} /\ (Prompt => Answered)
    /\ cl' = [cl EXCEPT
                 !.expectingAcksFor = IF acksDue /\ Expired(@) THEN Nobody ELSE @,
                 !.expectingRepliesFor = IF repliesDue /\ Expired(@) THEN Nobody ELSE @,
                 !.resend = IF repliesDue /\ ~Expired(cl.expectingRepliesFor)
                            THEN cl.expectingRepliesFor.nodes ELSE @]
    /\ UNCHANGED toNode
    /\ ClientOnly

\* The nodes are those of the time of the timeout.
resendRequests ==
    LET Again(coll) == IF coll.on THEN [coll EXCEPT !.nodes = cl.resend, !.retries = @ + 1]
                       ELSE coll
    IN  /\ cl.resend # {}
        /\ toNode' = SendTo(cl.resend)
        /\ cl' = [cl EXCEPT !.resend = {}, !.shared = cl.expectingAcksFor.on,
                            !.expectingAcksFor = Again(@), !.expectingRepliesFor = Again(@)]
        /\ ClientOnly

\* onConnsChanged: a request that waits is sent, and not expected.
onConnsChanged(n) ==
    /\ n \notin conns
    /\ conns' = conns \cup {n}
    /\ IF cl.reqsPendingConnection /\ hasSufficientConnections(conns')
       THEN /\ cl' = [cl EXCEPT !.reqsPendingConnection = FALSE]
            /\ toNode' = [m \in Nodes |-> IF m \in conns' THEN toNode[m] + 1 ELSE toNode[m]]
       ELSE UNCHANGED <<cl, toNode>>
    /\ UNCHANGED <<vars, scene, toClient, drops, said>>

Disconnect(n) ==
    /\ drops < scene.drops /\ drops' = drops + 1
    /\ n \in conns \cap scene.unstable
    /\ conns' = conns \ {n}
    /\ toNode' = [toNode EXCEPT ![n] = 0]
    /\ toClient' = [toClient EXCEPT ![n] = <<>>]
    /\ UNCHANGED <<vars, scene, cl, said>>
-----------------------------------------------------------------------------
(* The nodes *)

transmitToClient(n, m) ==
    toClient' = IF n \in conns THEN [toClient EXCEPT ![n] = Append(@, m)] ELSE toClient

\* Mutant of handleOneClientMsg: the request goes on although it is refused.
RefuseAndProcess(n) ==
    /\ n \in Correct /\ toNode[n] > 0
    /\ toNode' = [toNode EXCEPT ![n] = @ - 1]
    /\ \E c \in Contents : processRequest(n, c)
    /\ transmitToClient(n, IF scene.valid THEN "ACK" ELSE "NACK")
    /\ UNCHANGED <<scene, conns, cl, drops, said>>

\* A REQUEST that passes validation is processed, any other is refused.
handleOneClientMsg(n) ==
    /\ n \in Correct /\ toNode[n] > 0
    /\ toNode' = [toNode EXCEPT ![n] = @ - 1]
    /\ IF scene.valid
       THEN /\ \E c \in Contents : processRequest(n, c)
            /\ transmitToClient(n, IF executed[n] THEN "right" ELSE "ACK")
       ELSE transmitToClient(n, "NACK") /\ UNCHANGED vars
    /\ UNCHANGED <<scene, conns, cl, drops, said>>

\* The signature of the request in a PROPAGATE is verified (validateNodeMsg).
NodeReceive(n, s) ==
    /\ n \in Correct /\ scene.valid
    /\ s \in Faulty => n \in scene.relays
    /\ Receive(n, s) /\ UNCHANGED cvars

NodeCommit(n) ==
    /\ n \in Correct /\ commitAndSendReplies(n)
    /\ IF requestSender[n] = Asker THEN transmitToClient(n, "right") ELSE UNCHANGED toClient
    /\ UNCHANGED <<scene, conns, cl, toNode, drops, said>>

NodeGc(n) == n \in Correct /\ scene.forget /\ gc(n) /\ UNCHANGED cvars

\* Nothing keeps a faulty node from repeating an answer.
FaultyAnswer(n, m) ==
    /\ m \in scene.says /\ said < scene.lies /\ said' = said + 1
    /\ n \in Faulty \cap conns /\ transmitToClient(n, m)
    /\ UNCHANGED <<vars, scene, conns, cl, toNode, drops>>

CInit ==
    /\ Init
    /\ scene \in Scenes /\ conns = scene.conns
    /\ cl = NewClient
    /\ toNode = [n \in Nodes |-> 0]
    /\ toClient = [n \in Nodes |-> <<>>]
    /\ drops = 0 /\ said = 0

CNext ==
    \/ submitReqs
    \/ resendRequests
    \/ \E acksDue, repliesDue \in BOOLEAN : retryForExpected(acksDue, repliesDue)
    \/ \E n \in Nodes :
          \/ handleOneNodeMsg(n)
          \/ onConnsChanged(n)
          \/ Disconnect(n)
          \/ handleOneClientMsg(n)
          \/ \E s \in Nodes : NodeReceive(n, s)
          \/ NodeCommit(n)
          \/ NodeGc(n)
          \/ \E m \in Answers : FaultyAnswer(n, m)

\* The event loops of the client and of the nodes.
ClientLoop == submitReqs \/ resendRequests \/ \E n \in Nodes : handleOneNodeMsg(n)
NodeLoop(n) ==
    handleOneClientMsg(n) \/ NodeCommit(n) \/ \E s \in Correct : NodeReceive(n, s)

\* While an event loop has work some loop runs, which is enough since the work is
\* finite; timers expire; connections come back.
CFairness ==
    /\ WF_allVars(ClientLoop \/ \E n \in Correct : NodeLoop(n))
    /\ WF_allVars(retryForExpected(TRUE, TRUE))
    /\ WF_allVars(\E n \in Nodes : onConnsChanged(n))

CSpec == CInit /\ [][CNext]_allVars /\ CFairness
-----------------------------------------------------------------------------
\* The client never takes a result that no correct node sent, whatever is sent
\* twice, late or falsely, and what it takes has been executed by the pool.
ResultTrue ==
    \A taken \in {cl.txnLog, getReply(cl)} \cap Results :
        taken = "right" /\ \E n \in Correct : executed[n]

\* A request whose signature is not valid has no effect: no correct node records it
\* for ordering, whoever propagates it, and the client comes to hold no result.  It
\* comes to believe that the request was accepted only if a faulty node acknowledged
\* it more than once, since getAcks counts lines and not nodes.
RefusedNoEffect ==
    ~scene.valid =>
        /\ cl.txnLog = "none"
        /\ \A n \in Correct : propagates[n][n] = NoRequest /\ finalised[n] = NoRequest
        /\ isRequestSuccessful(cl) = "Done" => \E n \in Faulty : cl.acks[n] > 1

\* The client gets its result although connections drop, when f+1 correct nodes
\* were connected when it sent the request: the retries reach whoever did not
\* answer, also because a faulty node made it answer another client.
EventuallyConfirmed ==
    (scene.valid /\ cl.submitted /\ Cardinality(cl.expectingRepliesFor.nodes \cap Correct) > f)
        ~> cl.txnLog # "none"
=============================================================================
