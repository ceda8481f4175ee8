---------------------------- MODULE ClientProofs ----------------------------
(***************************************************************************)
(* Proofs about a request on its way: Propagation, for every pool, every   *)
(* set of signed requests and every bound, then Client, for every pool     *)
(* with at most f faulty nodes and whatever the client meets, repeated and *)
(* lost messages included.                                                 *)
(***************************************************************************)
EXTENDS Client, FiniteSetTheorems, SequenceTheorems, TLAPS

-----------------------------------------------------------------------------
(* Propagation                                                              *)

LEMMA FaultsNat == f \in Nat /\ Cardinality(Nodes) \in Nat
<1>1. Cardinality(Nodes) \in Nat
  BY NodesAssumption, FS_CardinalityType
<1>2. CASE Cardinality(Nodes) = 0
  <2>1. Nodes = {}
    BY <1>2, NodesAssumption, FS_EmptySet
  <2>2. Cardinality(Faulty) = 0
    BY <2>1, NodesAssumption, FS_EmptySet
  <2>. QED BY <1>2, <2>2, FaultsAssumption DEF f
<1>3. CASE Cardinality(Nodes) # 0
  BY <1>1, <1>3 DEF f
<1>. QED BY <1>1, <1>2, <1>3

LEMMA AskerType == Asker \in Clients /\ Asker # Other /\ NoSender \notin Clients
BY DEF Clients, Asker, Other, NoSender

LEMMA TypeInit == Init => TypeOK
<1>. SUFFICES ASSUME Init PROVE TypeOK
  OBVIOUS
<1>1. /\ requestSender \in [Nodes -> Clients \cup {NoSender}]
      /\ propagates \in [Nodes -> [Nodes -> Contents \cup {NoRequest}]]
      /\ finalised \in [Nodes -> Contents \cup {NoRequest}]
  BY DEF Init
<1>2. /\ forwardedTo \in [Nodes -> 0..Instances] /\ round \in [Nodes -> Nat] /\ syncs \in Nat
  BY NumbersAssumption DEF Init
<1>3. /\ vouched \in [Nodes -> SUBSET Contents] /\ network \in [Nodes -> SUBSET Message]
  BY DEF Init
<1>4. /\ toOrder \in [Nodes -> BOOLEAN] /\ executed \in [Nodes -> BOOLEAN]
      /\ asked \in [Nodes -> BOOLEAN] /\ replied \in [Nodes -> BOOLEAN]
      /\ participating \in [Nodes -> BOOLEAN] /\ misnamed \in BOOLEAN
  BY DEF Init
<1>. QED BY <1>1, <1>2, <1>3, <1>4 DEF TypeOK

\* Whoever is recorded as the sender is a client.
LEMMA SenderType ==
    ASSUME TypeOK, NEW n \in Nodes, NEW k \in Clients, startedProcessingReq(n, k)
    PROVE  requestSender' \in [Nodes -> Clients \cup {NoSender}]
BY DEF startedProcessingReq, TypeOK

\* The parts of the handlers that the two entry points share.
LEMMA PropagateType ==
    ASSUME TypeOK, NEW n \in Nodes, NEW c \in Contents, NEW k \in Clients,
           NEW props \in [Nodes -> Contents \cup {NoRequest}],
           NEW net \in [Nodes -> SUBSET Message],
           propagate(n, props, c, k, net)
    PROVE  /\ propagates' \in [Nodes -> [Nodes -> Contents \cup {NoRequest}]]
           /\ vouched' \in [Nodes -> SUBSET Contents]
           /\ network' \in [Nodes -> SUBSET Message]
<1>1. addPropagate(n, props, c) \in [Nodes -> Contents \cup {NoRequest}]
  BY DEF addPropagate
<1>2. createPropagate(n, props, c, k) \subseteq Message
  BY DEF createPropagate, Message, TypeOK
<1>3. propagates' \in [Nodes -> [Nodes -> Contents \cup {NoRequest}]]
  BY <1>1 DEF propagate, TypeOK
<1>4. vouched' \in [Nodes -> SUBSET Contents]
  BY DEF propagate, TypeOK
<1>5. network' \in [Nodes -> SUBSET Message]
  BY <1>2 DEF propagate
<1>. QED BY <1>3, <1>4, <1>5

LEMMA ForwardType ==
    ASSUME TypeOK, NEW n \in Nodes, NEW props, tryForwarding(n, props)
    PROVE  /\ finalised' \in [Nodes -> Contents \cup {NoRequest}]
           /\ forwardedTo' \in [Nodes -> 0..Instances]
           /\ toOrder' \in [Nodes -> BOOLEAN]
<1>1. CASE forwardedTo[n] = 0 /\ Finalisable(props, f + 1) # {}
  <2>1. PICK c \in Finalisable(props, f + 1) : finalised' = [finalised EXCEPT ![n] = c]
    BY <1>1 DEF tryForwarding
  <2>2. c \in Contents /\ Instances \in 0..Instances
    BY NumbersAssumption DEF Finalisable
  <2>3. forward(n)
    BY <1>1 DEF tryForwarding
  <2>. QED BY <2>1, <2>2, <2>3 DEF forward, TypeOK
<1>2. CASE ~(forwardedTo[n] = 0 /\ Finalisable(props, f + 1) # {})
  BY <1>2 DEF tryForwarding, TypeOK
<1>. QED BY <1>1, <1>2

LEMMA RequestType ==
    ASSUME TypeOK, NEW n \in Nodes, NEW c \in Contents, processRequest(n, c)
    PROVE  TypeOK'
<1>1. CASE executed[n]
  BY <1>1 DEF processRequest, requestVars, TypeOK
<1>2. CASE ~executed[n]
  <2>1. propagates[n] \in [Nodes -> Contents \cup {NoRequest}]
    BY DEF TypeOK
  <2>2. propagate(n, propagates[n], c, Asker, network)
    BY <1>2 DEF processRequest
  <2>3. tryForwarding(n, addPropagate(n, propagates[n], c))
    BY <1>2 DEF processRequest
  <2>4. network \in [Nodes -> SUBSET Message]
    BY DEF TypeOK
  <2>5. /\ propagates' \in [Nodes -> [Nodes -> Contents \cup {NoRequest}]]
        /\ vouched' \in [Nodes -> SUBSET Contents]
        /\ network' \in [Nodes -> SUBSET Message]
    BY <2>1, <2>2, <2>4, AskerType, PropagateType
  <2>6. /\ finalised' \in [Nodes -> Contents \cup {NoRequest}]
        /\ forwardedTo' \in [Nodes -> 0..Instances]
        /\ toOrder' \in [Nodes -> BOOLEAN]
    BY <2>3, ForwardType
  <2>7. requestSender' \in [Nodes -> Clients \cup {NoSender}]
    BY <1>2, AskerType, SenderType DEF processRequest
  <2>. QED BY <1>2, <2>5, <2>6, <2>7 DEF processRequest, TypeOK
<1>. QED BY <1>1, <1>2

LEMMA DeliverableType ==
    ASSUME TypeOK, NEW n \in Nodes, NEW m \in Deliverable(n)
    PROVE  m \in Message /\ (m \in network[n] \/ m.from \in Faulty)
BY NodesAssumption DEF Deliverable, FromFaulty, Message, TypeOK

LEMMA ReceiveType ==
    ASSUME TypeOK, NEW n \in Nodes, NEW m \in Message, processPropagate(n, m)
    PROVE  TypeOK'
<1>. DEFINE props == [propagates[n] EXCEPT ![m.from] = m.request]
            net == [network EXCEPT ![n] = @ \ {m}]
<1>1. m.from \in Nodes /\ m.request \in Contents /\ m.client \in Clients
  BY DEF Message
<1>2. props \in [Nodes -> Contents \cup {NoRequest}]
  BY <1>1 DEF TypeOK
<1>3. net \in [Nodes -> SUBSET Message]
  BY DEF TypeOK
<1>4. propagate(n, props, m.request, m.client, net)
  BY DEF processPropagate
<1>5. tryForwarding(n, addPropagate(n, props, m.request))
  BY DEF processPropagate
<1>. HIDE DEF props, net
<1>6. /\ propagates' \in [Nodes -> [Nodes -> Contents \cup {NoRequest}]]
      /\ vouched' \in [Nodes -> SUBSET Contents]
      /\ network' \in [Nodes -> SUBSET Message]
  BY <1>1, <1>2, <1>3, <1>4, PropagateType
<1>7. /\ finalised' \in [Nodes -> Contents \cup {NoRequest}]
      /\ forwardedTo' \in [Nodes -> 0..Instances]
      /\ toOrder' \in [Nodes -> BOOLEAN]
  BY <1>5, ForwardType
<1>8. requestSender' \in [Nodes -> Clients \cup {NoSender}] /\ misnamed' \in BOOLEAN
  BY <1>1, SenderType DEF processPropagate
<1>. QED BY <1>6, <1>7, <1>8 DEF processPropagate, TypeOK

LEMMA TypeStep == TypeOK /\ [Next]_vars => TypeOK'
<1>. SUFFICES ASSUME TypeOK, [Next]_vars PROVE TypeOK'
  OBVIOUS
<1>1. CASE UNCHANGED vars
  BY <1>1 DEF vars, requestVars, clientVars, TypeOK
<1>2. ASSUME NEW n \in Correct, Step(n) PROVE TypeOK'
  <2>. n \in Nodes
    BY DEF Correct
  <2>1. CASE Ask(n)
    BY <2>1, RequestType DEF Ask
  <2>2. ASSUME NEW s \in Nodes, Receive(n, s) PROVE TypeOK'
    BY <2>2, DeliverableType, ReceiveType DEF Receive
  <2>3. CASE commitAndSendReplies(n)
    BY <2>3 DEF commitAndSendReplies, sendReplyToClient, TypeOK
  <2>4. CASE gc(n)
    <3>0. forwardedTo[n] - 1 \in 0..Instances
      <4>1. forwardedTo[n] > 0 /\ forwardedTo[n] \in 0..Instances
        BY <2>4 DEF gc, TypeOK
      <4>. QED BY <4>1, NumbersAssumption
    <3>1. forwardedTo' \in [Nodes -> 0..Instances]
      <4>1. forwardedTo' = [forwardedTo EXCEPT ![n] = forwardedTo[n] - 1]
        BY <2>4 DEF gc
      <4>. QED BY <3>0, <4>1 DEF TypeOK
    <3>2. /\ propagates' \in [Nodes -> [Nodes -> Contents \cup {NoRequest}]]
          /\ finalised' \in [Nodes -> Contents \cup {NoRequest}]
          /\ round' \in [Nodes -> Nat]
      <4>1. CASE forwardedTo[n] = 1
        <5>1. [s \in Nodes |-> NoRequest] \in [Nodes -> Contents \cup {NoRequest}]
          OBVIOUS
        <5>2. /\ propagates' = [propagates EXCEPT ![n] = [s \in Nodes |-> NoRequest]]
              /\ finalised' = [finalised EXCEPT ![n] = NoRequest]
              /\ round' = [round EXCEPT ![n] = @ + 1]
          BY <2>4, <4>1 DEF gc
        <5>. QED BY <5>1, <5>2 DEF TypeOK
      <4>2. CASE forwardedTo[n] # 1
        BY <2>4, <4>2 DEF gc, TypeOK
      <4>. QED BY <4>1, <4>2
    <3>. QED BY <2>4, <3>1, <3>2 DEF gc, clientVars, TypeOK
  <2>5. CASE ChangeMode(n)
    BY <2>5 DEF ChangeMode, requestVars, clientVars, TypeOK
  <2>. QED BY <1>2, <2>1, <2>2, <2>3, <2>4, <2>5 DEF Step
<1>. QED BY <1>1, <1>2 DEF Next

\* The dictionaries keep their types in every pool.
THEOREM TypeCorrect == Spec => []TypeOK
BY TypeInit, TypeStep, PTL DEF Spec

-----------------------------------------------------------------------------
(* Correct nodes stand behind every finalised request *)

\* Of the more than f+1 nodes that voted, those that are not faulty vouched.
LEMMA EnoughBackers ==
    ASSUME NEW V \in SUBSET Nodes, NEW B \in SUBSET Correct, V \ Faulty \subseteq B,
           Cardinality(V) > f + 1
    PROVE  Cardinality(B) + Cardinality(Faulty) >= f + 2
<1>1. IsFiniteSet(V) /\ IsFiniteSet(Faulty) /\ IsFiniteSet(B)
  <2>1. Faulty \in SUBSET Nodes /\ B \in SUBSET Nodes
    BY NodesAssumption DEF Correct
  <2>. QED BY <2>1, NodesAssumption, FS_Subset
<1>2. /\ Cardinality(V \cap Faulty) <= Cardinality(Faulty)
      /\ Cardinality(V \cap Faulty) \in Nat /\ Cardinality(Faulty) \in Nat
  <2>1. V \cap Faulty \in SUBSET Faulty
    OBVIOUS
  <2>2. /\ IsFiniteSet(V \cap Faulty)
        /\ Cardinality(V \cap Faulty) <= Cardinality(Faulty)
    BY <1>1, <2>1, FS_Subset
  <2>. QED BY <1>1, <2>2, FS_CardinalityType
<1>3. /\ Cardinality(V \ Faulty) = Cardinality(V) - Cardinality(V \cap Faulty)
      /\ Cardinality(V) \in Nat
  BY <1>1, FS_Difference, FS_CardinalityType
<1>4. /\ Cardinality(V \ Faulty) <= Cardinality(B)
      /\ IsFiniteSet(V \ Faulty)
  BY <1>1, FS_Subset
<1>5. Cardinality(V \ Faulty) \in Nat /\ Cardinality(B) \in Nat
  BY <1>1, <1>4, FS_CardinalityType
<1>. QED BY <1>2, <1>3, <1>4, <1>5, FaultsNat

\* More nodes vouching never take a backed request's backers away.
LEMMA MoreBackers ==
    ASSUME NEW B \in SUBSET Correct, NEW A \in SUBSET B,
           Cardinality(A) + Cardinality(Faulty) >= f + 2
    PROVE  Cardinality(B) + Cardinality(Faulty) >= f + 2
<1>1. IsFiniteSet(B) /\ IsFiniteSet(Faulty)
  <2>1. B \in SUBSET Nodes /\ Faulty \in SUBSET Nodes
    BY NodesAssumption DEF Correct
  <2>. QED BY <2>1, NodesAssumption, FS_Subset
<1>2. Cardinality(A) <= Cardinality(B) /\ IsFiniteSet(A)
  BY <1>1, FS_Subset
<1>3. {Cardinality(A), Cardinality(B), Cardinality(Faulty)} \subseteq Nat
  BY <1>1, <1>2, FS_CardinalityType
<1>. QED BY <1>2, <1>3, FaultsNat

\* The step the two handlers share: record, propagate, try to forward.
LEMMA HandlerBacked ==
    ASSUME TypeOK, BackedInv, NEW n \in Correct, NEW c \in Contents, NEW k \in Clients,
           NEW props \in [Nodes -> Contents \cup {NoRequest}],
           NEW net \in [Nodes -> SUBSET Message],
           \A q \in Nodes : net[q] \subseteq network[q],
           \A s \in Correct : props[s] # NoRequest => props[s] \in vouched[s],
           propagate(n, props, c, k, net),
           tryForwarding(n, addPropagate(n, props, c))
    PROVE  BackedInv'
<1>. DEFINE own == addPropagate(n, props, c)
<1>0. n \in Nodes /\ NoRequest \notin Contents
  BY NodesAssumption DEF Correct
<1>1. /\ vouched \in [Nodes -> SUBSET Contents]
      /\ vouched' = [vouched EXCEPT ![n] =
            IF hasPropagated(n, props) THEN @ ELSE @ \cup {c}]
  BY DEF propagate, TypeOK
<1>2. \A s \in Correct : vouched[s] \subseteq vouched'[s]
  BY <1>0, <1>1 DEF Correct
<1>3. \A s \in Correct : own[s] # NoRequest => own[s] \in vouched'[s]
  <2>1. CASE hasPropagated(n, props)
    BY <1>2, <2>1 DEF addPropagate
  <2>2. CASE ~hasPropagated(n, props)
    <3>1. own = [props EXCEPT ![n] = c] /\ c \in vouched'[n]
      BY <1>0, <1>1, <2>2 DEF addPropagate
    <3>. QED BY <1>0, <1>2, <3>1 DEF Correct
  <2>. QED BY <2>1, <2>2
<1>4. own \in [Nodes -> Contents \cup {NoRequest}]
  BY DEF addPropagate
<1>5. RecordedVouched'
  <2>1. propagates' = [propagates EXCEPT ![n] = own]
    BY DEF propagate
  <2>. HIDE DEF own
  <2>. SUFFICES ASSUME NEW q \in Correct, NEW s \in Correct,
                       propagates'[q][s] # NoRequest
                PROVE  propagates'[q][s] \in vouched'[s]
    BY DEF RecordedVouched
  <2>2. CASE q = n
    BY <1>0, <1>3, <2>1, <2>2 DEF TypeOK
  <2>3. CASE q # n
    BY <1>2, <2>1, <2>3 DEF BackedInv, RecordedVouched, TypeOK, Correct
  <2>. QED BY <2>2, <2>3
<1>6. SentVouched'
  <2>. SUFFICES ASSUME NEW q \in Correct, NEW m \in network'[q], m.from \in Correct
                PROVE  m.request \in vouched'[m.from]
    BY DEF SentVouched
  <2>1. m \in net[q] \/ m \in createPropagate(n, props, c, k)
    BY DEF propagate, Correct
  <2>2. CASE m \in net[q]
    BY <1>2, <2>2 DEF BackedInv, SentVouched, Correct
  <2>3. CASE m \in createPropagate(n, props, c, k)
    BY <1>0, <1>1, <2>3 DEF createPropagate
  <2>. QED BY <2>1, <2>2, <2>3
<1>7. FinalisedBacked'
  <2>. SUFFICES ASSUME NEW q \in Correct, finalised'[q] # NoRequest
                PROVE  Cardinality(Backers(finalised[q])') + Cardinality(Faulty) >= f + 2
    BY DEF FinalisedBacked
  <2>0. finalised \in [Nodes -> Contents \cup {NoRequest}] /\ q \in Nodes
    BY DEF TypeOK, Correct
  <2>1. CASE finalised'[q] = finalised[q]
    <3>1. Cardinality(Backers(finalised[q])) + Cardinality(Faulty) >= f + 2
      BY <2>1 DEF BackedInv, FinalisedBacked
    <3>2. Backers(finalised[q])' = {s \in Correct : finalised[q] \in vouched'[s]}
      BY <2>1 DEF Backers
    <3>3. Backers(finalised[q]) \subseteq {s \in Correct : finalised[q] \in vouched'[s]}
      BY <1>2 DEF Backers
    <3>. QED BY <3>1, <3>2, <3>3, MoreBackers
  <2>2. CASE finalised'[q] # finalised[q]
    <3>1. PICK o \in Finalisable(own, f + 1) : finalised' = [finalised EXCEPT ![n] = o]
      BY <2>2 DEF tryForwarding
    <3>2. q = n /\ finalised'[q] = o
      BY <2>0, <2>2, <3>1
    <3>3. o \in Contents /\ Cardinality(Voters(own, o)) > f + 1
      BY <3>1 DEF Finalisable, checkIfMoreThanFSameItems
    <3>. DEFINE B == {s \in Correct : o \in vouched'[s]}
    <3>4. Voters(own, o) \ Faulty \subseteq B
      BY <1>0, <1>3, <3>3 DEF Voters, Correct
    <3>5. Voters(own, o) \in SUBSET Nodes /\ B \in SUBSET Correct
      BY DEF Voters
    <3>6. Cardinality(B) + Cardinality(Faulty) >= f + 2
      <4>. HIDE DEF B, own
      <4>. QED BY <3>3, <3>4, <3>5, EnoughBackers
    <3>. QED BY <3>2, <3>6 DEF Backers
  <2>. QED BY <2>1, <2>2
<1>. QED BY <1>5, <1>6, <1>7 DEF BackedInv

LEMMA BackedStep == TypeOK /\ BackedInv /\ [Next]_vars => BackedInv'
<1>. SUFFICES ASSUME TypeOK, BackedInv, [Next]_vars PROVE BackedInv'
  OBVIOUS
<1>1. ASSUME UNCHANGED <<propagates, finalised, vouched, network>> PROVE BackedInv'
  BY <1>1 DEF BackedInv, RecordedVouched, SentVouched, FinalisedBacked, Backers
<1>2. CASE UNCHANGED vars
  BY <1>1, <1>2 DEF vars, requestVars
<1>3. ASSUME NEW n \in Correct, Step(n) PROVE BackedInv'
  <2>0. n \in Nodes
    BY DEF Correct
  <2>1. ASSUME NEW c \in Contents, processRequest(n, c) PROVE BackedInv'
    <3>1. CASE executed[n]
      BY <1>1, <2>1, <3>1 DEF processRequest, requestVars
    <3>2. CASE ~executed[n]
      <4>1. propagates[n] \in [Nodes -> Contents \cup {NoRequest}]
        BY <2>0 DEF TypeOK
      <4>2. network \in [Nodes -> SUBSET Message]
        BY DEF TypeOK
      <4>3. \A s \in Correct : propagates[n][s] # NoRequest => propagates[n][s] \in vouched[s]
        BY DEF BackedInv, RecordedVouched
      <4>4. /\ propagate(n, propagates[n], c, Asker, network)
            /\ tryForwarding(n, addPropagate(n, propagates[n], c))
        BY <2>1, <3>2 DEF processRequest
      <4>. QED BY <4>1, <4>2, <4>3, <4>4, AskerType, HandlerBacked
    <3>. QED BY <3>1, <3>2
  <2>2. ASSUME NEW m \in Deliverable(n), processPropagate(n, m) PROVE BackedInv'
    <3>. DEFINE props == [propagates[n] EXCEPT ![m.from] = m.request]
                net == [network EXCEPT ![n] = @ \ {m}]
    <3>1. m \in Message /\ (m \in network[n] \/ m.from \in Faulty)
      BY <2>0, DeliverableType
    <3>2. m.from \in Nodes /\ m.request \in Contents /\ m.client \in Clients
      BY <3>1 DEF Message
    <3>3. props \in [Nodes -> Contents \cup {NoRequest}]
      BY <2>0, <3>2 DEF TypeOK
    <3>4. /\ net \in [Nodes -> SUBSET Message]
          /\ \A q \in Nodes : net[q] \subseteq network[q]
      BY DEF TypeOK
    <3>5. \A s \in Correct : props[s] # NoRequest => props[s] \in vouched[s]
      <4>. SUFFICES ASSUME NEW s \in Correct, props[s] # NoRequest
                    PROVE  props[s] \in vouched[s]
        OBVIOUS
      <4>1. propagates[n] \in [Nodes -> Contents \cup {NoRequest}] /\ s \in Nodes
        BY <2>0 DEF TypeOK, Correct
      <4>2. CASE s = m.from
        BY <3>1, <4>1, <4>2 DEF BackedInv, SentVouched, Correct
      <4>3. CASE s # m.from
        BY <4>1, <4>3 DEF BackedInv, RecordedVouched
      <4>. QED BY <4>2, <4>3
    <3>6. /\ propagate(n, props, m.request, m.client, net)
          /\ tryForwarding(n, addPropagate(n, props, m.request))
      BY <2>2 DEF processPropagate
    <3>. HIDE DEF props, net
    <3>. QED BY <3>2, <3>3, <3>4, <3>5, <3>6, HandlerBacked
  <2>3. CASE commitAndSendReplies(n)
    BY <1>1, <2>3 DEF commitAndSendReplies
  <2>4. CASE gc(n)
    <3>1. CASE forwardedTo[n] = 1
      <4>1. /\ propagates' = [propagates EXCEPT ![n] = [s \in Nodes |-> NoRequest]]
            /\ finalised' = [finalised EXCEPT ![n] = NoRequest]
            /\ vouched' = vouched /\ network' = network
        BY <2>4, <3>1 DEF gc
      <4>2. RecordedVouched' /\ SentVouched'
        BY <2>0, <4>1 DEF BackedInv, RecordedVouched, SentVouched, TypeOK, Correct
      <4>3. FinalisedBacked'
        BY <2>0, <4>1 DEF BackedInv, FinalisedBacked, Backers, TypeOK, Correct
      <4>. QED BY <4>2, <4>3 DEF BackedInv
    <3>2. CASE forwardedTo[n] # 1
      BY <1>1, <2>4, <3>2 DEF gc
    <3>. QED BY <3>1, <3>2
  <2>5. CASE ChangeMode(n)
    BY <1>1, <2>5 DEF ChangeMode, requestVars
  <2>. QED BY <1>3, <2>1, <2>2, <2>3, <2>4, <2>5 DEF Step, Ask, Receive
<1>. QED BY <1>2, <1>3 DEF Next

LEMMA BackedInit == Init => BackedInv
BY DEF Init, BackedInv, RecordedVouched, SentVouched, FinalisedBacked, Correct

\* A request that canForward lets through was recorded by at least two correct
\* nodes as coming from the client, in every pool with at most f faulty nodes and
\* whatever these send; the f+2 matching PROPAGATEs it takes are the reason.
THEOREM Backed == Spec => []BackedInv
<1>1. Spec => [](TypeOK /\ BackedInv)
  <2>1. Init => TypeOK /\ BackedInv
    BY TypeInit, BackedInit
  <2>2. TypeOK /\ BackedInv /\ [Next]_vars => (TypeOK /\ BackedInv)'
    BY TypeStep, BackedStep
  <2>. QED BY <2>1, <2>2, PTL DEF Spec
<1>. QED BY <1>1, PTL

-----------------------------------------------------------------------------
(* Agreement on the request *)

\* Until it forgets the request, a correct node has vouched for one only, the one
\* it recorded as its own PROPAGATE; and nobody sends itself a PROPAGATE.
OneVote == \A s \in Correct : round[s] = 0 => \A c \in vouched[s] : c = propagates[s][s]
NotToSelf == \A n \in Correct : \A m \in network[n] : m.from # n
VotesInv == OneVote /\ NotToSelf

LEMMA VotesInit == Init => VotesInv
BY DEF Init, VotesInv, OneVote, NotToSelf, Correct

\* What the handlers record before they propagate leaves the own entry alone.
LEMMA HandlerVotes ==
    ASSUME TypeOK, VotesInv, NEW n \in Correct, NEW c \in Contents, NEW k \in Clients,
           NEW props \in [Nodes -> Contents \cup {NoRequest}],
           NEW net \in [Nodes -> SUBSET Message],
           \A q \in Nodes : net[q] \subseteq network[q],
           props[n] = propagates[n][n], round' = round,
           BackedInv, propagate(n, props, c, k, net)
    PROVE  VotesInv'
<1>0. n \in Nodes /\ NoRequest \notin Contents
  BY NodesAssumption DEF Correct
<1>1. OneVote'
  <2>. SUFFICES ASSUME NEW s \in Correct, round[s] = 0, NEW d \in vouched'[s]
                PROVE  d = propagates'[s][s]
    BY DEF OneVote
  <2>1. s \in Nodes /\ (d \in vouched[s] => d = propagates[s][s] /\ d # NoRequest)
    BY <1>0 DEF VotesInv, OneVote, TypeOK, Correct
  <2>2. CASE s # n
    BY <2>1, <2>2 DEF propagate, TypeOK
  <2>3. CASE s = n
    <3>1. propagates'[n] = addPropagate(n, props, c)
      BY <1>0 DEF propagate, TypeOK
    <3>2. vouched'[n] = IF hasPropagated(n, props) THEN vouched[n] ELSE vouched[n] \cup {c}
      BY <1>0 DEF propagate, TypeOK
    <3>3. CASE hasPropagated(n, props)
      BY <2>1, <2>3, <3>1, <3>2, <3>3 DEF addPropagate
    <3>4. CASE ~hasPropagated(n, props)
      <4>1. d \notin vouched[s]
        BY <2>1, <2>3, <3>4 DEF hasPropagated
      <4>. QED BY <1>0, <2>3, <3>1, <3>2, <3>4, <4>1 DEF addPropagate
    <3>. QED BY <3>3, <3>4
  <2>. QED BY <2>2, <2>3
<1>2. NotToSelf'
  BY <1>0 DEF VotesInv, NotToSelf, propagate, createPropagate, Correct
<1>. QED BY <1>1, <1>2 DEF VotesInv

LEMMA VotesStep == TypeOK /\ BackedInv /\ VotesInv /\ [Next]_vars => VotesInv'
<1>. SUFFICES ASSUME TypeOK, BackedInv, VotesInv, [Next]_vars PROVE VotesInv'
  OBVIOUS
<1>1. ASSUME UNCHANGED <<propagates, vouched, network, round>> PROVE VotesInv'
  BY <1>1 DEF VotesInv, OneVote, NotToSelf
<1>2. CASE UNCHANGED vars
  BY <1>1, <1>2 DEF vars, requestVars
<1>3. ASSUME NEW n \in Correct, Step(n) PROVE VotesInv'
  <2>0. n \in Nodes
    BY DEF Correct
  <2>1. ASSUME NEW c \in Contents, processRequest(n, c) PROVE VotesInv'
    <3>1. CASE executed[n]
      BY <1>1, <2>1, <3>1 DEF processRequest, requestVars
    <3>2. CASE ~executed[n]
      <4>1. /\ propagates[n] \in [Nodes -> Contents \cup {NoRequest}]
            /\ network \in [Nodes -> SUBSET Message]
        BY <2>0 DEF TypeOK
      <4>2. propagate(n, propagates[n], c, Asker, network) /\ round' = round
        BY <2>1, <3>2 DEF processRequest
      <4>. QED BY <4>1, <4>2, AskerType, HandlerVotes
    <3>. QED BY <3>1, <3>2
  <2>2. ASSUME NEW m \in Deliverable(n), processPropagate(n, m) PROVE VotesInv'
    <3>. DEFINE props == [propagates[n] EXCEPT ![m.from] = m.request]
                net == [network EXCEPT ![n] = @ \ {m}]
    <3>1. m \in Message /\ (m \in network[n] \/ m.from \in Faulty)
      BY <2>0, DeliverableType
    <3>2. m.from \in Nodes /\ m.request \in Contents /\ m.client \in Clients /\ m.from # n
      BY <3>1 DEF Message, VotesInv, NotToSelf, Correct
    <3>3. props \in [Nodes -> Contents \cup {NoRequest}] /\ props[n] = propagates[n][n]
      BY <2>0, <3>2 DEF TypeOK
    <3>4. /\ net \in [Nodes -> SUBSET Message]
          /\ \A q \in Nodes : net[q] \subseteq network[q]
      BY DEF TypeOK
    <3>5. propagate(n, props, m.request, m.client, net) /\ round' = round
      BY <2>2 DEF processPropagate
    <3>. HIDE DEF props, net
    <3>. QED BY <3>2, <3>3, <3>4, <3>5, HandlerVotes
  <2>3. CASE commitAndSendReplies(n)
    BY <1>1, <2>3 DEF commitAndSendReplies
  <2>4. CASE gc(n)
    <3>1. CASE forwardedTo[n] = 1
      <4>1. /\ propagates' = [propagates EXCEPT ![n] = [s \in Nodes |-> NoRequest]]
            /\ round' = [round EXCEPT ![n] = @ + 1]
            /\ vouched' = vouched /\ network' = network
        BY <2>4, <3>1 DEF gc
      <4>2. round'[n] # 0
        BY <2>0, <4>1 DEF TypeOK
      <4>. QED BY <2>0, <4>1, <4>2 DEF VotesInv, OneVote, NotToSelf, TypeOK, Correct
    <3>2. CASE forwardedTo[n] # 1
      BY <1>1, <2>4, <3>2 DEF gc
    <3>. QED BY <3>1, <3>2
  <2>5. CASE ChangeMode(n)
    BY <1>1, <2>5 DEF ChangeMode, requestVars
  <2>. QED BY <1>3, <2>1, <2>2, <2>3, <2>4, <2>5 DEF Step, Ask, Receive
<1>. QED BY <1>2, <1>3 DEF Next

\* In a pool of four the backers of two finalised requests have one in common.
LEMMA FourAgree ==
    ASSUME Cardinality(Nodes) = 4, BackedInv, OneVote
    PROVE  FinalisedAgree
<1>. SUFFICES ASSUME NEW n \in Correct, NEW o \in Correct,
                     \A q \in Correct : round[q] = 0,
                     finalised[n] # NoRequest, finalised[o] # NoRequest
              PROVE  finalised[n] = finalised[o]
  BY DEF FinalisedAgree
<1>. DEFINE A == Backers(finalised[n])
            B == Backers(finalised[o])
<1>1. /\ IsFiniteSet(A) /\ IsFiniteSet(B) /\ IsFiniteSet(Correct) /\ IsFiniteSet(Faulty)
      /\ IsFiniteSet(A \cup B)
  <2>1. /\ A \in SUBSET Nodes /\ B \in SUBSET Nodes /\ Correct \in SUBSET Nodes
        /\ Faulty \in SUBSET Nodes /\ A \cup B \in SUBSET Nodes
    BY NodesAssumption DEF Backers, Correct
  <2>. HIDE DEF A, B
  <2>. QED BY <2>1, NodesAssumption, FS_Subset
<1>2. f = 1
  BY DEF f
<1>3. Cardinality(A) + Cardinality(Faulty) >= 3 /\ Cardinality(B) + Cardinality(Faulty) >= 3
  BY <1>2 DEF BackedInv, FinalisedBacked
<1>4. Cardinality(Correct) = 4 - Cardinality(Faulty)
  <2>1. Cardinality(Correct) = Cardinality(Nodes) - Cardinality(Nodes \cap Faulty)
    BY NodesAssumption, FS_Difference DEF Correct
  <2>2. Nodes \cap Faulty = Faulty
    BY NodesAssumption
  <2>. QED BY <2>1, <2>2
<1>5. Cardinality(A \cup B) <= Cardinality(Correct)
  <2>1. A \cup B \in SUBSET Correct
    BY DEF Backers
  <2>. HIDE DEF A, B
  <2>. QED BY <1>1, <2>1, FS_Subset
<1>6. A \cap B # {}
  <2>. HIDE DEF A, B
  <2>. SUFFICES ASSUME A \cap B = {} PROVE FALSE
    OBVIOUS
  <2>1. Cardinality(A \cap B) = 0
    BY FS_EmptySet
  <2>2. Cardinality(A \cup B) = Cardinality(A) + Cardinality(B) - Cardinality(A \cap B)
    BY <1>1, FS_Union
  <2>3. /\ Cardinality(A) \in Nat /\ Cardinality(B) \in Nat /\ Cardinality(Faulty) \in Nat
        /\ Cardinality(Faulty) <= 1
    BY <1>1, <1>2, FS_CardinalityType, FaultsAssumption
  <2>. QED BY <1>3, <1>4, <1>5, <2>1, <2>2, <2>3
<1>7. PICK s \in Correct : finalised[n] \in vouched[s] /\ finalised[o] \in vouched[s]
  BY <1>6 DEF Backers
<1>. QED BY <1>7 DEF OneVote

\* In a pool of four with one faulty node, the nodes that forward a key agree on
\* the request under it, whatever the client signed and the faulty node relays,
\* until one of them forgets the request (Requests.addPropagate, canForward).
THEOREM Agreed == Cardinality(Nodes) = 4 => (Spec => []FinalisedAgree)
<1>. SUFFICES ASSUME Cardinality(Nodes) = 4 PROVE Spec => []FinalisedAgree
  OBVIOUS
<1>1. Spec => [](TypeOK /\ BackedInv /\ VotesInv)
  <2>1. Init => TypeOK /\ BackedInv /\ VotesInv
    BY TypeInit, BackedInit, VotesInit
  <2>2. TypeOK /\ BackedInv /\ VotesInv /\ [Next]_vars => (TypeOK /\ BackedInv /\ VotesInv)'
    BY TypeStep, BackedStep, VotesStep
  <2>. QED BY <2>1, <2>2, PTL DEF Spec
<1>2. BackedInv /\ VotesInv => FinalisedAgree
  BY FourAgree DEF VotesInv
<1>. QED BY <1>1, <1>2, PTL

-----------------------------------------------------------------------------
(* The client is not lost *)

\* Until a faulty node has named another client, nobody has.
NamesTrue ==
    ~misnamed => \A n \in Correct : requestSender[n] # Other
                                    /\ \A m \in network[n] : m.client = Asker
SenderInv == TypeOK /\ NamesTrue /\ SenderKept

LEMMA SenderInit == Init => SenderInv
BY TypeInit DEF Init, SenderInv, NamesTrue, SenderKept, NoSender, Other, Correct

\* What the two handlers share: a name is recorded and passed on.
LEMMA NamePassed ==
    ASSUME SenderInv, NEW n \in Correct, NEW c, NEW k \in Clients, NEW props,
           NEW net, \A q \in Nodes : net[q] \subseteq network[q],
           startedProcessingReq(n, k), propagate(n, props, c, k, net),
           misnamed => misnamed', k # Asker => misnamed'
    PROVE  NamesTrue'
<1>0. n \in Nodes /\ Correct \subseteq Nodes
  BY DEF Correct
<1>. SUFFICES ASSUME ~misnamed', NEW q \in Correct
              PROVE  requestSender'[q] # Other /\ \A m \in network'[q] : m.client = Asker
  BY DEF NamesTrue
<1>1. /\ k = Asker /\ requestSender[q] # Other
      /\ \A m \in network[q] : m.client = Asker
  BY DEF SenderInv, NamesTrue
<1>2. requestSender'[q] # Other
  BY <1>0, <1>1, AskerType DEF startedProcessingReq, SenderInv, TypeOK
<1>3. ASSUME NEW m \in network'[q] PROVE m.client = Asker
  <2>1. m \in net[q] \/ m \in createPropagate(n, props, c, k)
    BY <1>0 DEF propagate
  <2>2. m \in createPropagate(n, props, c, k) => m.client = k
    BY DEF createPropagate
  <2>. QED BY <1>0, <1>1, <2>1, <2>2
<1>. QED BY <1>2, <1>3

LEMMA RequestSender ==
    ASSUME SenderInv, NEW n \in Correct, NEW c \in Contents, processRequest(n, c)
    PROVE  SenderInv'
<1>0. n \in Nodes /\ Correct \subseteq Nodes
  BY DEF Correct
<1>1. TypeOK'
  BY <1>0, RequestType DEF SenderInv
<1>2. CASE executed[n]
  <2>1. NamesTrue'
    BY <1>2 DEF processRequest, requestVars, SenderInv, NamesTrue
  <2>2. SenderKept'
    BY <1>0, <1>2 DEF processRequest, requestVars, SenderInv, SenderKept, TypeOK
  <2>. QED BY <1>1, <2>1, <2>2 DEF SenderInv
<1>3. CASE ~executed[n]
  <2>1. /\ startedProcessingReq(n, Asker) /\ UNCHANGED <<misnamed, executed, replied>>
        /\ asked' = [asked EXCEPT ![n] = TRUE]
        /\ propagate(n, propagates[n], c, Asker, network)
    BY <1>3 DEF processRequest
  <2>2. NamesTrue'
    BY <2>1, AskerType, NamePassed
  <2>3. \A q \in Correct \ {n} : requestSender'[q] = requestSender[q] /\ asked'[q] = asked[q]
    BY <1>0, <2>1 DEF startedProcessingReq, SenderInv, TypeOK
  <2>4. requestSender'[n] \in Clients /\ (requestSender'[n] = Other => misnamed)
    BY <1>0, <2>1, AskerType DEF startedProcessingReq, SenderInv, NamesTrue, TypeOK
  <2>5. SenderKept'
    BY <2>1, <2>3, <2>4 DEF SenderInv, SenderKept, Clients
  <2>. QED BY <1>1, <2>2, <2>5 DEF SenderInv
<1>. QED BY <1>2, <1>3

LEMMA ReceiveSender ==
    ASSUME SenderInv, NEW n \in Correct, NEW m \in Deliverable(n), processPropagate(n, m)
    PROVE  SenderInv'
<1>0. n \in Nodes /\ Correct \subseteq Nodes
  BY DEF Correct
<1>1. m \in Message /\ (m \in network[n] \/ m.from \in Faulty)
  BY <1>0, DeliverableType DEF SenderInv
<1>2. TypeOK'
  BY <1>0, <1>1, ReceiveType DEF SenderInv
<1>3. m.client \in Clients
  BY <1>1 DEF Message
<1>. DEFINE props == [propagates[n] EXCEPT ![m.from] = m.request]
            net == [network EXCEPT ![n] = @ \ {m}]
<1>4. /\ startedProcessingReq(n, m.client) /\ UNCHANGED <<executed, asked, replied>>
      /\ propagate(n, props, m.request, m.client, net)
      /\ misnamed' = (misnamed \/ (m.from \in Faulty /\ m.client # Asker))
  BY DEF processPropagate
<1>5. \A q \in Nodes : net[q] \subseteq network[q]
  BY DEF SenderInv, TypeOK
<1>6. misnamed => misnamed'
  BY <1>4
<1>7. m.client # Asker => misnamed'
  BY <1>1, <1>4 DEF SenderInv, NamesTrue
<1>. HIDE DEF props, net
<1>8. NamesTrue'
  BY <1>3, <1>4, <1>5, <1>6, <1>7, NamePassed
<1>9. \A q \in Correct : requestSender[q] # NoSender => requestSender'[q] = requestSender[q]
  BY <1>0, <1>4 DEF startedProcessingReq, SenderInv, TypeOK
<1>10. SenderKept'
  <2>. SUFFICES ASSUME NEW q \in Correct, asked[q], ~replied[q]
                PROVE  \/ requestSender'[q] = Asker
                       \/ misnamed' /\ (requestSender'[q] = Other \/ executed[q])
    BY <1>4 DEF SenderKept
  <2>. QED BY <1>6, <1>9, AskerType DEF SenderInv, SenderKept, Clients
<1>. QED BY <1>2, <1>8, <1>10 DEF SenderInv

\* A step of the pool, also one that answers a client that asks again.
LEMMA SenderStep ==
    ASSUME SenderInv, [Next]_vars \/ \E n \in Correct, c \in Contents : processRequest(n, c)
    PROVE  SenderInv'
<1>1. ASSUME UNCHANGED <<clientVars, network>>, TypeOK' PROVE SenderInv'
  BY <1>1 DEF clientVars, SenderInv, NamesTrue, SenderKept
<1>2. CASE UNCHANGED vars
  BY <1>1, <1>2, TypeStep DEF vars, requestVars, SenderInv
<1>3. ASSUME NEW n \in Correct, Step(n) PROVE SenderInv'
  <2>0. n \in Nodes /\ Correct \subseteq Nodes
    BY DEF Correct
  <2>1. TypeOK'
    BY <1>3, TypeStep DEF Next, SenderInv
  <2>2. CASE commitAndSendReplies(n)
    <3>1. /\ UNCHANGED <<network, asked, misnamed>>
          /\ executed' = [executed EXCEPT ![n] = TRUE]
          /\ requestSender' = [requestSender EXCEPT ![n] = NoSender]
          /\ replied' = [replied EXCEPT ![n] = @ \/ (requestSender[n] = Asker /\ asked[n])]
      BY <2>2 DEF commitAndSendReplies, sendReplyToClient
    <3>2. NamesTrue'
      BY <2>0, <3>1 DEF SenderInv, NamesTrue, TypeOK, NoSender, Other
    <3>3. SenderKept'
      BY <2>0, <3>1 DEF SenderInv, SenderKept, TypeOK
    <3>. QED BY <2>1, <3>2, <3>3 DEF SenderInv
  <2>3. CASE gc(n) \/ ChangeMode(n)
    BY <1>1, <2>1, <2>3 DEF gc, ChangeMode
  <2>. QED BY <1>3, <2>2, <2>3, RequestSender, ReceiveSender DEF Step, Ask, Receive
<1>. QED BY <1>2, <1>3, RequestSender DEF Next

\* A node that has acknowledged a request waits with the client or has replied, in
\* whatever order the REQUEST, the PROPAGATEs and the execution come; only if a faulty
\* node has named another client in a PROPAGATE may the reply go there, and then the
\* ledger answers the client (requestSender in processRequest, processPropagate and
\* sendReplyToClient).
THEOREM SenderNotLost == Spec => []SenderKept
<1>1. SenderInv /\ [Next]_vars => SenderInv'
  BY SenderStep
<1>2. SenderInv => SenderKept
  BY DEF SenderInv
<1>. QED BY <1>1, <1>2, SenderInit, PTL DEF Spec

-----------------------------------------------------------------------------
(* The client                                                               *)

Expecting == [nodes : SUBSET Nodes, retries : Nat, on : BOOLEAN]

ClientRecord ==
    [submitted : BOOLEAN, reqsPendingConnection : BOOLEAN,
     expectingAcksFor : Expecting, expectingRepliesFor : Expecting,
     shared : BOOLEAN, resend : SUBSET Nodes,
     acks : [Nodes -> Nat], nacks : SUBSET Nodes,
     replies : [Nodes -> Results \cup {"none"}],
     txnLog : Results \cup {"none"}]

CTypeOK ==
    /\ scene \in Scenes /\ conns \subseteq Nodes
    /\ cl \in ClientRecord
    /\ toNode \in [Nodes -> Nat] /\ toClient \in [Nodes -> Seq(Answers)]
    /\ said \in Nat

\* What a step of the client leaves as it is of the answers it has stored.
SameAnswers(x, y) ==
    x.acks = y.acks /\ x.nacks = y.nacks /\ x.replies = y.replies /\ x.txnLog = y.txnLog

LEMMA NobodyType == Nobody \in Expecting
BY DEF Nobody, Expecting

LEMMA DropType ==
    ASSUME NEW coll \in Expecting, NEW n
    PROVE  Drop(coll, n) \in Expecting /\ PopEmpty(coll) \in Expecting
BY NobodyType DEF Drop, PopEmpty, Expecting

LEMMA GotExpectedType ==
    ASSUME NEW x \in ClientRecord, NEW n, NEW isAck \in BOOLEAN
    PROVE  gotExpected(x, n, isAck) \in ClientRecord /\ SameAnswers(gotExpected(x, n, isAck), x)
<1>. DEFINE a == Drop(x.expectingAcksFor, n)
            both == ~isAck \/ (x.shared /\ x.expectingAcksFor.on)
            b == IF both THEN Drop(x.expectingRepliesFor, n) ELSE x.expectingRepliesFor
            c == IF isAck THEN b ELSE PopEmpty(b)
            gone == [x EXCEPT !.expectingAcksFor = a, !.expectingRepliesFor = b]
<1>1. a \in Expecting /\ b \in Expecting
  BY DropType DEF ClientRecord
<1>2. PopEmpty(a) \in Expecting /\ c \in Expecting
  BY <1>1, DropType
<1>3. gotExpected(x, n, isAck) =
          [gone EXCEPT !.expectingAcksFor = PopEmpty(@),
                       !.expectingRepliesFor = IF isAck THEN @ ELSE PopEmpty(@)]
  BY DEF gotExpected
<1>. HIDE DEF a, b
<1>4. gone \in ClientRecord /\ gone.expectingAcksFor = a /\ gone.expectingRepliesFor = b
      /\ SameAnswers(gone, x)
  BY <1>1 DEF ClientRecord, SameAnswers
<1>. HIDE DEF gone
<1>5. gotExpected(x, n, isAck) =
          [gone EXCEPT !.expectingAcksFor = PopEmpty(a), !.expectingRepliesFor = c]
  BY <1>3, <1>4
<1>. HIDE DEF c
<1>. QED BY <1>2, <1>4, <1>5 DEF ClientRecord, SameAnswers

-----------------------------------------------------------------------------
(* The result the client takes *)

\* The messages s of a correct node, `done' if it has executed the request.
AllTrue(s, done) ==
    \A i \in 1..Len(s) : s[i] \in {"ACK", "NACK", "right"} /\ (s[i] = "right" => done)

\* What correct nodes have sent and the client has stored of it.
AnswersTrue ==
    \A n \in Correct :
        /\ cl.replies[n] # "none" => cl.replies[n] = "right" /\ executed[n]
        /\ AllTrue(toClient[n], executed[n])

ResultOfPool(r) == r = "right" /\ \E n \in Correct : executed[n]

\* The inductive invariant.
ClientInv ==
    /\ TypeOK /\ CTypeOK
    /\ AnswersTrue
    /\ cl.txnLog # "none" => ResultOfPool(cl.txnLog)

\* Of more than f nodes that sent the same result one is correct.
LEMMA OneIsCorrect ==
    ASSUME NEW V \in SUBSET Nodes, Cardinality(V) > f
    PROVE  \E n \in V : n \in Correct
<1>. SUFFICES ASSUME V \subseteq Faulty PROVE FALSE
  BY DEF Correct
<1>1. IsFiniteSet(Faulty)
  BY NodesAssumption, FS_Subset
<1>2. Cardinality(V) <= Cardinality(Faulty) /\ IsFiniteSet(V)
  BY <1>1, FS_Subset
<1>3. Cardinality(V) \in Nat /\ Cardinality(Faulty) \in Nat
  BY <1>1, <1>2, FS_CardinalityType
<1>. QED BY <1>2, <1>3, FaultsAssumption, FaultsNat

LEMMA CountedIsTrue ==
    ASSUME NEW x \in ClientRecord, NEW r, Count(x, r) > f,
           \A n \in Correct : x.replies[n] # "none" => x.replies[n] = "right" /\ executed[n]
    PROVE  ResultOfPool(r)
<1>. DEFINE V == {n \in getReplies(x) : x.replies[n] = r}
<1>1. V \in SUBSET Nodes /\ Cardinality(V) > f
  BY DEF Count, getReplies
<1>2. PICK n \in V : n \in Correct
  <2>. HIDE DEF V
  <2>. QED BY <1>1, OneIsCorrect
<1>3. x.replies[n] # "none" /\ x.replies[n] = r
  BY DEF getReplies
<1>. QED BY <1>2, <1>3 DEF ResultOfPool

LEMMA ClientImplies == ClientInv => ResultTrue
<1>. SUFFICES ASSUME ClientInv, NEW taken \in {cl.txnLog, getReply(cl)}, taken \in Results
              PROVE  ResultOfPool(taken)
  BY DEF ResultTrue, ResultOfPool
<1>1. CASE taken = cl.txnLog
  BY <1>1 DEF ClientInv, Results
<1>2. CASE taken = getReply(cl)
  <2>1. taken = MostSaid(cl) /\ Count(cl, MostSaid(cl)) > f
    BY <1>2 DEF getReply, Results
  <2>. QED BY <2>1, CountedIsTrue DEF ClientInv, CTypeOK, AnswersTrue
<1>. QED BY <1>1, <1>2

LEMMA ClientInit == CInit => ClientInv
<1>. SUFFICES ASSUME CInit PROVE ClientInv
  OBVIOUS
<1>1. TypeOK
  BY TypeInit DEF CInit
<1>2. scene \in Scenes /\ conns \subseteq Nodes
  BY ClientAssumption DEF CInit
<1>3. cl \in ClientRecord
  BY NobodyType DEF CInit, NewClient, ClientRecord
<1>4. /\ toNode \in [Nodes -> Nat] /\ toClient \in [Nodes -> Seq(Answers)]
      /\ said \in Nat
  BY EmptySeq DEF CInit
<1>5. AnswersTrue
  BY EmptySeq DEF CInit, NewClient, AnswersTrue, AllTrue, Correct
<1>. QED BY <1>1, <1>2, <1>3, <1>4, <1>5 DEF ClientInv, CTypeOK, CInit, NewClient

\* Steps of the pool only: what has been executed stays executed.
LEMMA ExecutedStays ==
    ASSUME TypeOK, [Next]_vars \/ (\E n \in Correct, c \in Contents : processRequest(n, c))
    PROVE  TypeOK' /\ \A n \in Correct : executed[n] => executed'[n]
<1>1. CASE UNCHANGED vars
  BY <1>1, TypeStep DEF vars, clientVars
<1>2. ASSUME NEW n \in Correct, NEW c \in Contents, processRequest(n, c)
      PROVE  TypeOK' /\ executed' = executed
  BY <1>2, RequestType DEF processRequest, Correct
<1>3. ASSUME Next PROVE \A n \in Correct : executed[n] => executed'[n]
  <2>1. PICK n \in Correct : Step(n)
    BY <1>3 DEF Next
  <2>2. CASE Ask(n)
    BY <1>2, <2>1, <2>2 DEF Ask
  <2>3. ASSUME NEW s \in Nodes, Receive(n, s) PROVE executed' = executed
    BY <2>3 DEF Receive, processPropagate
  <2>4. CASE commitAndSendReplies(n)
    BY <2>4 DEF commitAndSendReplies, TypeOK, Correct
  <2>5. CASE gc(n)
    BY <2>5 DEF gc, clientVars
  <2>6. CASE ChangeMode(n)
    BY <2>6 DEF ChangeMode, clientVars
  <2>. QED BY <2>1, <2>2, <2>3, <2>4, <2>5, <2>6 DEF Step
<1>. QED BY <1>1, <1>2, <1>3, TypeStep


LEMMA AllTrueEmpty == \A done : AllTrue(<<>>, done)
BY EmptySeq DEF AllTrue

LEMMA AllTrueAppend ==
    ASSUME NEW s \in Seq(Answers), NEW done, NEW m \in Answers, AllTrue(s, done),
           m \in {"ACK", "NACK", "right"}, m = "right" => done
    PROVE  AllTrue(Append(s, m), done)
<1>. DEFINE t == Append(s, m)
<1>1. /\ Len(t) = Len(s) + 1 /\ t[Len(s) + 1] = m /\ Len(s) \in Nat
      /\ \A i \in 1..Len(s) : t[i] = s[i]
  BY AppendProperties, LenProperties
<1>. HIDE DEF t
<1>2. \A i \in 1..Len(t) : i \in 1..Len(s) \/ i = Len(s) + 1
  BY <1>1
<1>3. AllTrue(t, done)
  BY <1>1, <1>2 DEF AllTrue
<1>. QED BY <1>3 DEF t

LEMMA AllTrueTail ==
    ASSUME NEW s \in Seq(Answers), s # <<>>, NEW done, AllTrue(s, done)
    PROVE  /\ Head(s) \in Answers /\ Tail(s) \in Seq(Answers)
           /\ AllTrue(Tail(s), done)
           /\ Head(s) \in {"ACK", "NACK", "right"} /\ (Head(s) = "right" => done)
<1>1. Len(s) \in Nat \ {0} /\ Head(s) = s[1]
  BY EmptySeq
<1>. DEFINE t == Tail(s)
<1>2. /\ Head(s) \in Answers /\ t \in Seq(Answers) /\ Len(t) = Len(s) - 1
      /\ \A i \in 1..Len(t) : t[i] = s[i + 1]
  BY HeadTailProperties
<1>. HIDE DEF t
<1>3. \A i \in 1..Len(t) : i + 1 \in 1..Len(s)
  BY <1>1, <1>2
<1>4. AllTrue(t, done)
  BY <1>2, <1>3 DEF AllTrue
<1>. QED BY <1>1, <1>2, <1>4 DEF AllTrue, t

LEMMA AllTrueLater ==
    ASSUME NEW s, NEW done, NEW later, AllTrue(s, done), done => later
    PROVE  AllTrue(s, later)
BY DEF AllTrue

\* Steps of the client that store no answer.
LEMMA NothingStored ==
    ASSUME ClientInv, cl' \in ClientRecord, SameAnswers(cl', cl),
           UNCHANGED <<vars, scene>>, conns' \subseteq Nodes,
           toNode' \in [Nodes -> Nat], said' \in Nat,
           toClient' \in [Nodes -> Seq(Answers)],
           \A n \in Correct : toClient'[n] = toClient[n] \/ toClient'[n] = <<>>
    PROVE  ClientInv'
<1>1. TypeOK' /\ executed' = executed
  BY TypeStep DEF ClientInv, vars, clientVars
<1>2. CTypeOK'
  BY DEF ClientInv, CTypeOK
<1>3. /\ cl'.replies = cl.replies /\ cl'.txnLog = cl.txnLog
  BY DEF SameAnswers
<1>4. AnswersTrue'
  BY <1>1, <1>3, AllTrueEmpty DEF ClientInv, AnswersTrue
<1>. QED BY <1>1, <1>2, <1>3, <1>4 DEF ClientInv, ResultOfPool

\* A message a node sends to the client.
LEMMA TransmitKeeps ==
    ASSUME ClientInv, NEW n \in Nodes, NEW m \in Answers, transmitToClient(n, m),
           n \in Correct => m \in {"ACK", "NACK", "right"} /\ (m = "right" => executed'[n]),
           \A q \in Correct : executed[q] => executed'[q]
    PROVE  /\ toClient' \in [Nodes -> Seq(Answers)]
           /\ \A q \in Correct : AllTrue(toClient'[q], executed'[q])
<1>1. toClient \in [Nodes -> Seq(Answers)] /\ Correct \subseteq Nodes
  BY DEF ClientInv, CTypeOK, Correct
<1>2. toClient' = toClient \/ toClient' = [toClient EXCEPT ![n] = Append(toClient[n], m)]
  BY DEF transmitToClient
<1>3. Append(toClient[n], m) \in Seq(Answers)
  BY <1>1, AppendProperties
<1>4. toClient' \in [Nodes -> Seq(Answers)]
  BY <1>1, <1>2, <1>3
<1>5. ASSUME NEW q \in Correct PROVE AllTrue(toClient'[q], executed'[q])
  <2>1. AllTrue(toClient[q], executed'[q]) /\ toClient[q] \in Seq(Answers)
    BY <1>1, AllTrueLater DEF ClientInv, AnswersTrue
  <2>2. toClient'[q] = toClient[q] \/ (q = n /\ toClient'[q] = Append(toClient[n], m))
    BY <1>1, <1>2
  <2>3. n \in Correct => AllTrue(Append(toClient[n], m), executed'[n]) \/ q # n
    BY <2>1, AllTrueAppend
  <2>. QED BY <2>1, <2>2, <2>3
<1>. QED BY <1>4, <1>5

\* Steps of the pool: the client's record stays as it is.
LEMMA PoolSteps ==
    ASSUME ClientInv, TypeOK', \A q \in Correct : executed[q] => executed'[q],
           UNCHANGED <<scene, cl>>, conns' \subseteq Nodes,
           toNode' \in [Nodes -> Nat], said' \in Nat,
           toClient' \in [Nodes -> Seq(Answers)],
           \A q \in Correct : AllTrue(toClient'[q], executed'[q])
    PROVE  ClientInv'
<1>1. CTypeOK'
  BY DEF ClientInv, CTypeOK
<1>2. AnswersTrue'
  BY DEF ClientInv, AnswersTrue
<1>. QED BY <1>1, <1>2 DEF ClientInv, ResultOfPool

\* handleOneNodeMsg stores an answer; the result is taken when f+1 agree.
LEMMA MessageHandled ==
    ASSUME ClientInv, NEW n \in Nodes, handleOneNodeMsg(n)
    PROVE  ClientInv'
<1>. DEFINE m == Head(toClient[n])
            x == IF m = "ACK" THEN addAck(cl, n)
                 ELSE IF m = "NACK" THEN addNack(cl, n) ELSE addReply(cl, n, m)
            y == gotExpected(x, n, m = "ACK")
<1>0. CTypeOK /\ TypeOK /\ cl \in ClientRecord
  BY DEF ClientInv, CTypeOK
<1>1. /\ m \in Answers /\ Tail(toClient[n]) \in Seq(Answers)
  BY <1>0, HeadTailProperties DEF handleOneNodeMsg, CTypeOK
<1>2. /\ toClient' = [toClient EXCEPT ![n] = Tail(toClient[n])]
      /\ cl' = IF m \in {"ACK", "NACK"} THEN y ELSE postReplyRecvd(y)
      /\ UNCHANGED <<vars, scene, conns, toNode, said>>
  BY DEF handleOneNodeMsg
<1>3. m \notin {"ACK", "NACK"} => m \in Results
  BY <1>1 DEF Answers
<1>4. n \in Correct => /\ m \in {"ACK", "NACK", "right"} /\ (m = "right" => executed[n])
                        /\ AllTrue(Tail(toClient[n]), executed[n])
  BY <1>0, AllTrueTail DEF ClientInv, AnswersTrue, handleOneNodeMsg, CTypeOK
<1>. HIDE DEF m
<1>5. /\ x \in ClientRecord /\ x.txnLog = cl.txnLog
      /\ x.replies = cl.replies \/ (m \in Results /\ x.replies = [cl.replies EXCEPT ![n] = m])
  <2>1. CASE m = "ACK"
    BY <1>0, <2>1 DEF addAck, ClientRecord
  <2>2. CASE m = "NACK"
    BY <1>0, <2>2 DEF addNack, ClientRecord
  <2>3. CASE m \notin {"ACK", "NACK"}
    <3>1. m \in Results /\ x = addReply(cl, n, m)
      BY <1>3, <2>3
    <3>. HIDE DEF x
    <3>. QED BY <1>0, <3>1 DEF addReply, ClientRecord
  <2>. QED BY <2>1, <2>2, <2>3
<1>. HIDE DEF x
<1>6. y \in ClientRecord /\ SameAnswers(y, x)
  BY <1>5, GotExpectedType
<1>. HIDE DEF y
<1>7. \A q \in Correct : y.replies[q] # "none" => y.replies[q] = "right" /\ executed[q]
  BY <1>0, <1>4, <1>5, <1>6 DEF SameAnswers, ClientInv, AnswersTrue, Results,
     ClientRecord, Correct
<1>8. /\ cl'.txnLog = cl.txnLog \/ (cl'.txnLog = MostSaid(y) /\ Count(y, MostSaid(y)) > f)
      /\ cl' = [y EXCEPT !.txnLog = cl'.txnLog]
  BY <1>2, <1>5, <1>6 DEF postReplyRecvd, SameAnswers, ClientRecord
<1>9. cl'.txnLog # "none" => ResultOfPool(cl'.txnLog)
  BY <1>6, <1>7, <1>8, CountedIsTrue DEF ClientInv
<1>10. cl' \in ClientRecord /\ cl'.replies = y.replies
  <2>1. cl'.txnLog \in Results \cup {"none"}
    BY <1>9 DEF ResultOfPool, Results
  <2>. HIDE DEF Results
  <2>. QED BY <1>6, <1>8, <2>1 DEF ClientRecord
<1>11. TypeOK' /\ executed' = executed
  BY <1>0, <1>2, TypeStep DEF vars, clientVars
<1>12. toClient' \in [Nodes -> Seq(Answers)]
  BY <1>0, <1>1, <1>2 DEF CTypeOK
<1>13. CTypeOK'
  BY <1>0, <1>2, <1>10, <1>12 DEF CTypeOK
<1>14. AnswersTrue'
  <2>1. \A q \in Correct : AllTrue(toClient'[q], executed'[q])
    BY <1>0, <1>2, <1>4, <1>11 DEF ClientInv, AnswersTrue, Correct, CTypeOK
  <2>. QED BY <1>7, <1>10, <1>11, <2>1 DEF AnswersTrue
<1>. QED BY <1>9, <1>11, <1>13, <1>14 DEF ClientInv, ResultOfPool


\* The client's timers and connections.
LEMMA ClientAlone ==
    ASSUME ClientInv,
           \/ submitReqs \/ resendRequests
           \/ \E acksDue, repliesDue \in BOOLEAN : retryForExpected(acksDue, repliesDue)
           \/ \E n \in Nodes : onConnsChanged(n) \/ Disconnect(n)
    PROVE  ClientInv'
<1>0. /\ conns \subseteq Nodes /\ cl \in ClientRecord
      /\ toNode \in [Nodes -> Nat] /\ toClient \in [Nodes -> Seq(Answers)]
      /\ said \in Nat
  BY DEF ClientInv, CTypeOK
<1>1. \A nodes : SendTo(nodes) \in [Nodes -> Nat]
  BY <1>0 DEF SendTo
<1>. USE DEF ClientOnly
<1>2. CASE submitReqs
  <2>. DEFINE all == [nodes |-> conns, retries |-> 0, on |-> TRUE]
              y == [cl EXCEPT !.expectingAcksFor = all, !.expectingRepliesFor = all]
  <2>1. all \in Expecting
    BY <1>0 DEF Expecting
  <2>2. expectingFor(cl, conns) = y
    BY DEF expectingFor
  <2>. HIDE DEF all
  <2>3. y \in ClientRecord /\ SameAnswers(y, cl)
    BY <1>0, <2>1 DEF ClientRecord, SameAnswers
  <2>. HIDE DEF y
  <2>4. \/ cl' = [y EXCEPT !.submitted = TRUE]
         \/ cl' = [cl EXCEPT !.submitted = TRUE, !.reqsPendingConnection = TRUE]
    BY <1>2, <2>2 DEF submitReqs
  <2>5. /\ [y EXCEPT !.submitted = TRUE] \in ClientRecord
         /\ SameAnswers([y EXCEPT !.submitted = TRUE], cl)
    BY <2>3 DEF ClientRecord, SameAnswers
  <2>6. LET z == [cl EXCEPT !.submitted = TRUE, !.reqsPendingConnection = TRUE]
         IN  z \in ClientRecord /\ SameAnswers(z, cl)
    BY <1>0 DEF ClientRecord, SameAnswers
  <2>7. cl' \in ClientRecord /\ SameAnswers(cl', cl)
    BY <2>4, <2>5, <2>6
  <2>8. /\ toNode' \in [Nodes -> Nat] /\ UNCHANGED <<vars, scene, conns, toClient, said>>
    BY <1>0, <1>1, <1>2 DEF submitReqs
  <2>. QED BY <1>0, <2>7, <2>8, NothingStored
<1>3. CASE resendRequests
  <2>. DEFINE Again(coll) == IF coll.on THEN [coll EXCEPT !.nodes = cl.resend, !.retries = @ + 1]
                             ELSE coll
              a == Again(cl.expectingAcksFor)
              b == Again(cl.expectingRepliesFor)
              on == cl.expectingAcksFor.on
  <2>0. on \in BOOLEAN
    BY <1>0 DEF ClientRecord, Expecting
  <2>1. a \in Expecting /\ b \in Expecting
    <3>1. cl.resend \in SUBSET Nodes /\ cl.expectingAcksFor \in Expecting
          /\ cl.expectingRepliesFor \in Expecting
      BY <1>0 DEF ClientRecord
    <3>. DEFINE s == cl.resend
    <3>2. ASSUME NEW coll \in Expecting
          PROVE  (IF coll.on THEN [coll EXCEPT !.nodes = s, !.retries = @ + 1] ELSE coll)
                    \in Expecting
      <4>. DEFINE k == coll.retries + 1
      <4>1. s \in SUBSET Nodes /\ k \in Nat
        BY <3>1 DEF Expecting
      <4>. HIDE DEF s, k
      <4>2. [coll EXCEPT !.nodes = s, !.retries = k] \in Expecting
        BY <4>1 DEF Expecting
      <4>. QED BY <4>2 DEF k
    <3>. QED BY <3>1, <3>2
  <2>2. cl' = [cl EXCEPT !.resend = {}, !.shared = on, !.expectingAcksFor = a,
                         !.expectingRepliesFor = b]
    BY <1>3 DEF resendRequests
  <2>. HIDE DEF a, b, on
  <2>3. cl' \in ClientRecord /\ SameAnswers(cl', cl)
    BY <1>0, <2>0, <2>1, <2>2 DEF ClientRecord, SameAnswers
  <2>4. /\ toNode' \in [Nodes -> Nat] /\ UNCHANGED <<vars, scene, conns, toClient, said>>
    BY <1>1, <1>3 DEF resendRequests
  <2>. QED BY <1>0, <2>3, <2>4, NothingStored
<1>4. ASSUME NEW acksDue \in BOOLEAN, NEW repliesDue \in BOOLEAN,
             retryForExpected(acksDue, repliesDue)
      PROVE  ClientInv'
  <2>. DEFINE a == IF acksDue /\ Expired(cl.expectingAcksFor) THEN Nobody
                   ELSE cl.expectingAcksFor
              b == IF repliesDue /\ Expired(cl.expectingRepliesFor) THEN Nobody
                   ELSE cl.expectingRepliesFor
              c == IF repliesDue /\ ~Expired(cl.expectingRepliesFor)
                   THEN cl.expectingRepliesFor.nodes ELSE cl.resend
  <2>1. a \in Expecting /\ b \in Expecting /\ c \in SUBSET Nodes
    BY <1>0, NobodyType DEF Expecting, ClientRecord
  <2>2. cl' = [cl EXCEPT !.expectingAcksFor = a, !.expectingRepliesFor = b, !.resend = c]
    BY <1>4 DEF retryForExpected
  <2>. HIDE DEF a, b, c
  <2>3. cl' \in ClientRecord /\ SameAnswers(cl', cl)
    BY <1>0, <2>1, <2>2 DEF ClientRecord, SameAnswers
  <2>4. UNCHANGED <<vars, scene, conns, toNode, toClient, said>>
    BY <1>4 DEF retryForExpected
  <2>. QED BY <1>0, <2>3, <2>4, NothingStored
<1>5. ASSUME NEW n \in Nodes, onConnsChanged(n) PROVE ClientInv'
  <2>. DEFINE x == [cl EXCEPT !.reqsPendingConnection = FALSE]
  <2>1. x \in ClientRecord /\ SameAnswers(x, cl) /\ SameAnswers(cl, cl)
    BY <1>0 DEF ClientRecord, SameAnswers
  <2>2. cl' \in ClientRecord /\ SameAnswers(cl', cl)
    BY <1>0, <1>5, <2>1 DEF onConnsChanged
  <2>. DEFINE sent == [m \in Nodes |-> IF m \in conns' THEN toNode[m] + 1 ELSE toNode[m]]
  <2>3. /\ toNode' = sent \/ toNode' = toNode
        /\ conns' = conns \cup {n} /\ UNCHANGED <<vars, scene, toClient, said>>
    BY <1>5 DEF onConnsChanged
  <2>4. sent \in [Nodes -> Nat]
    BY <1>0
  <2>. HIDE DEF sent
  <2>5. /\ toNode' \in [Nodes -> Nat] /\ conns' \subseteq Nodes
        /\ UNCHANGED <<vars, scene, toClient, said>>
    BY <1>0, <2>3, <2>4
  <2>. QED BY <1>0, <2>2, <2>5, NothingStored
<1>6. ASSUME NEW n \in Nodes, Disconnect(n) PROVE ClientInv'
  <2>1. cl' \in ClientRecord /\ SameAnswers(cl', cl)
    BY <1>0, <1>6 DEF Disconnect, SameAnswers
  <2>2. /\ toNode' \in [Nodes -> Nat] /\ conns' \subseteq Nodes
        /\ UNCHANGED <<vars, scene, said>>
    BY <1>0, <1>6 DEF Disconnect
  <2>3. /\ toClient' \in [Nodes -> Seq(Answers)]
        /\ \A q \in Correct : toClient'[q] = toClient[q] \/ toClient'[q] = <<>>
    BY <1>0, <1>6, EmptySeq DEF Disconnect, Correct
  <2>. QED BY <1>0, <2>1, <2>2, <2>3, NothingStored
<1>. QED BY <1>2, <1>3, <1>4, <1>5, <1>6

\* The nodes with the client's requests.
LEMMA NodesAnswer ==
    ASSUME ClientInv, NEW n \in Nodes,
           \/ handleOneClientMsg(n) \/ NodeCommit(n) \/ NodeGc(n)
           \/ \E s \in Nodes : NodeReceive(n, s)
           \/ \E m \in Answers : FaultyAnswer(n, m)
    PROVE  ClientInv'
<1>0. /\ conns \subseteq Nodes /\ toNode \in [Nodes -> Nat]
      /\ toClient \in [Nodes -> Seq(Answers)] /\ said \in Nat /\ TypeOK
  BY DEF ClientInv, CTypeOK
<1>1. ASSUME \A q \in Correct : executed[q] => executed'[q], UNCHANGED toClient
      PROVE  \A q \in Correct : AllTrue(toClient'[q], executed'[q])
  BY <1>1, AllTrueLater DEF ClientInv, AnswersTrue
<1>2. {"ACK", "NACK", "right"} \subseteq Answers
  BY DEF Answers, Results
<1>3. CASE handleOneClientMsg(n)
  <2>1. /\ n \in Correct /\ toNode[n] > 0 /\ toNode' = [toNode EXCEPT ![n] = @ - 1]
        /\ UNCHANGED <<scene, conns, cl, said>>
    BY <1>3 DEF handleOneClientMsg
  <2>2. toNode' \in [Nodes -> Nat]
    BY <1>0, <2>1
  <2>3. TypeOK' /\ \A q \in Correct : executed[q] => executed'[q]
    BY <1>0, <1>3, <2>1, ExecutedStays DEF handleOneClientMsg
  <2>4. PICK m \in {"ACK", "NACK", "right"} :
            transmitToClient(n, m) /\ (m = "right" => executed[n])
    BY <1>3 DEF handleOneClientMsg
  <2>5. /\ toClient' \in [Nodes -> Seq(Answers)]
        /\ \A q \in Correct : AllTrue(toClient'[q], executed'[q])
    BY <1>2, <2>1, <2>3, <2>4, TransmitKeeps
  <2>. QED BY <1>0, <2>1, <2>2, <2>3, <2>5, PoolSteps
<1>4. CASE NodeCommit(n)
  <2>1. /\ n \in Correct /\ commitAndSendReplies(n)
        /\ UNCHANGED <<scene, conns, cl, toNode, said>>
    BY <1>4 DEF NodeCommit
  <2>2. Next
    BY <2>1 DEF Next, Step
  <2>3. TypeOK' /\ \A q \in Correct : executed[q] => executed'[q]
    BY <1>0, <2>2, ExecutedStays
  <2>4. executed'[n]
    BY <1>0, <2>1 DEF commitAndSendReplies, TypeOK
  <2>5. transmitToClient(n, "right") \/ UNCHANGED toClient
    BY <1>4 DEF NodeCommit
  <2>6. /\ toClient' \in [Nodes -> Seq(Answers)]
        /\ \A q \in Correct : AllTrue(toClient'[q], executed'[q])
    <3>1. CASE UNCHANGED toClient
      BY <1>0, <1>1, <2>3, <3>1
    <3>2. CASE transmitToClient(n, "right")
      BY <1>2, <2>3, <2>4, <3>2, TransmitKeeps
    <3>. QED BY <2>5, <3>1, <3>2
  <2>. QED BY <1>0, <2>1, <2>3, <2>6, PoolSteps
<1>5. CASE NodeGc(n) \/ \E s \in Nodes : NodeReceive(n, s)
  <2>1. /\ UNCHANGED <<scene, conns, cl, toNode, toClient, said>> /\ Next
    BY <1>5 DEF NodeGc, NodeReceive, cvars, Next, Step
  <2>2. TypeOK' /\ \A q \in Correct : executed[q] => executed'[q]
    BY <1>0, <2>1, ExecutedStays
  <2>3. \A q \in Correct : AllTrue(toClient'[q], executed'[q])
    BY <1>1, <2>1, <2>2
  <2>. QED BY <1>0, <2>1, <2>2, <2>3, PoolSteps
<1>6. ASSUME NEW m \in Answers, FaultyAnswer(n, m) PROVE ClientInv'
  <2>1. /\ n \notin Correct /\ transmitToClient(n, m) /\ said' \in Nat
        /\ UNCHANGED <<vars, scene, conns, cl, toNode>>
    BY <1>0, <1>6 DEF FaultyAnswer, Correct
  <2>2. TypeOK' /\ \A q \in Correct : executed[q] => executed'[q]
    BY <1>0, <2>1, ExecutedStays
  <2>3. /\ toClient' \in [Nodes -> Seq(Answers)]
        /\ \A q \in Correct : AllTrue(toClient'[q], executed'[q])
    BY <2>1, <2>2, TransmitKeeps
  <2>. QED BY <1>0, <2>1, <2>2, <2>3, PoolSteps
<1>. QED BY <1>3, <1>4, <1>5, <1>6

LEMMA ClientStep == ClientInv /\ [CNext]_allVars => ClientInv'
<1>. SUFFICES ASSUME ClientInv, [CNext]_allVars PROVE ClientInv'
  OBVIOUS
<1>1. CASE UNCHANGED allVars
  <2>1. UNCHANGED <<vars, scene, conns, cl, toNode, toClient, said>>
    BY <1>1 DEF allVars, cvars
  <2>. QED BY <2>1, NothingStored DEF ClientInv, CTypeOK, SameAnswers
<1>2. CASE CNext
  BY <1>2, ClientAlone, MessageHandled, NodesAnswer DEF CNext
<1>. QED BY <1>1, <1>2

\* The client never takes a result from its replies or its transaction log that no
\* correct node sent, in every pool with at most f faulty nodes and whatever is
\* sent twice, late, falsely or lost, and what it takes the pool has executed.
THEOREM TakenIsTrue == CSpec => []ResultTrue
<1>1. CInit /\ [][CNext]_allVars => []ClientInv
  BY ClientInit, ClientStep, PTL
<1>. QED BY <1>1, ClientImplies, PTL DEF CSpec

\* The nodes' dictionaries keep their form, also when the client sends its request
\* again and again (handleOneClientMsg).
THEOREM NodesTypeCorrect == CSpec => []TypeOK
<1>1. CInit /\ [][CNext]_allVars => []ClientInv
  BY ClientInit, ClientStep, PTL
<1>2. ClientInv => TypeOK
  BY DEF ClientInv
<1>. QED BY <1>1, <1>2, PTL DEF CSpec


\* A step of the client or of the pool, seen from the pool.
LEMMA PoolOrRequest ==
    ASSUME [CNext]_allVars
    PROVE  [Next]_vars \/ \E n \in Correct, c \in Contents : processRequest(n, c)
BY DEF CNext, allVars, submitReqs, resendRequests, retryForExpected, ClientOnly,
   onConnsChanged, Disconnect, handleOneNodeMsg, handleOneClientMsg, NodeReceive,
   NodeCommit, NodeGc, FaultyAnswer, Next, Step

\* The same when the client asks again, after a timeout or a connection that came back
\* (handleOneClientMsg).
THEOREM AskerNotLost == CSpec => []SenderKept
<1>1. CInit => SenderInv
  BY SenderInit DEF CInit
<1>2. SenderInv /\ [CNext]_allVars => SenderInv'
  BY PoolOrRequest, SenderStep
<1>3. SenderInv => SenderKept
  BY DEF SenderInv
<1>. QED BY <1>1, <1>2, <1>3, PTL DEF CSpec

-----------------------------------------------------------------------------
(* A request that is refused *)

\* No correct node has begun with the request.
PoolIdle ==
    \A n \in Correct : /\ propagates[n][n] = NoRequest /\ finalised[n] = NoRequest
                       /\ ~toOrder[n] /\ ~executed[n] /\ network[n] = {}

\* No correct node has acknowledged it.
NoneIn(s) == \A i \in 1..Len(s) : s[i] # "ACK"
NoAck(n) == cl.acks[n] = 0 /\ NoneIn(toClient[n])

\* The inductive invariant for a request that the nodes refuse.
RefusedInv == ~scene.valid => PoolIdle /\ \A n \in Correct : NoAck(n)

LEMMA AckAppend ==
    ASSUME NEW s \in Seq(Answers), NEW m \in Answers, NoneIn(s), m # "ACK"
    PROVE  NoneIn(Append(s, m))
<1>. DEFINE t == Append(s, m)
<1>1. /\ Len(t) = Len(s) + 1 /\ t[Len(s) + 1] = m /\ Len(s) \in Nat
      /\ \A i \in 1..Len(s) : t[i] = s[i]
  BY AppendProperties, LenProperties
<1>. HIDE DEF t
<1>2. \A i \in 1..Len(t) : i \in 1..Len(s) \/ i = Len(s) + 1
  BY <1>1
<1>3. NoneIn(t)
  BY <1>1, <1>2 DEF NoneIn
<1>. QED BY <1>3 DEF t

LEMMA AckTail ==
    ASSUME NEW s \in Seq(Answers), s # <<>>, NoneIn(s)
    PROVE  Head(s) # "ACK" /\ NoneIn(Tail(s))
<1>1. Len(s) \in Nat \ {0} /\ Head(s) = s[1]
  BY EmptySeq
<1>. DEFINE t == Tail(s)
<1>2. Len(t) = Len(s) - 1 /\ \A i \in 1..Len(t) : t[i] = s[i + 1]
  BY HeadTailProperties
<1>. HIDE DEF t
<1>3. 1 \in 1..Len(s) /\ \A i \in 1..Len(t) : i + 1 \in 1..Len(s)
  BY <1>1, <1>2
<1>4. Head(s) # "ACK" /\ NoneIn(t)
  BY <1>1, <1>2, <1>3 DEF NoneIn
<1>. QED BY <1>4 DEF t

\* If no correct node acknowledges and no faulty one twice, there are f at most.
LEMMA RefusedImplies == ClientInv /\ RefusedInv => RefusedNoEffect
<1>. SUFFICES ASSUME ClientInv, RefusedInv, ~scene.valid
              PROVE  /\ cl.txnLog = "none"
                     /\ \A n \in Correct : propagates[n][n] = NoRequest /\ finalised[n] = NoRequest
                     /\ isRequestSuccessful(cl) = "Done" => \E n \in Faulty : cl.acks[n] > 1
  BY DEF RefusedNoEffect
<1>1. PoolIdle /\ \A n \in Correct : NoAck(n)
  BY DEF RefusedInv
<1>2. cl.txnLog = "none"
  BY <1>1 DEF ClientInv, ResultOfPool, PoolIdle
<1>3. ASSUME isRequestSuccessful(cl) = "Done", \A n \in Faulty : ~(cl.acks[n] > 1)
      PROVE  FALSE
  <2>. DEFINE A == UNION {{n} \X (1 .. cl.acks[n]) : n \in Nodes}
  <2>0. /\ cl.acks \in [Nodes -> Nat] /\ Faulty \subseteq Nodes
        /\ IsFiniteSet(Faulty) /\ Cardinality(Faulty) \in Nat
    BY NodesAssumption, FS_Subset, FS_CardinalityType DEF ClientInv, CTypeOK, ClientRecord
  <2>1. A \subseteq Faulty \X {1}
    <3>1. \A n \in Nodes : 1 .. cl.acks[n] \subseteq {1}
      BY <1>1, <1>3, <2>0 DEF NoAck, Correct
    <3>2. \A n \in Nodes \ Faulty : 1 .. cl.acks[n] = {}
      BY <1>1 DEF NoAck, Correct
    <3>. QED BY <3>1, <3>2
  <2>2. IsFiniteSet(Faulty \X {1}) /\ Cardinality(Faulty \X {1}) = Cardinality(Faulty)
    <3>1. IsFiniteSet({1}) /\ Cardinality({1}) = 1
      BY FS_Singleton
    <3>2. IsFiniteSet(Faulty \X {1}) /\ Cardinality(Faulty \X {1}) = Cardinality(Faulty) * Cardinality({1})
      BY <2>0, <3>1, FS_Product
    <3>. QED BY <2>0, <3>1, <3>2
  <2>3. getAcks(cl) = Cardinality(A) /\ getAcks(cl) > f
    BY <1>3 DEF isRequestSuccessful, getAcks
  <2>. HIDE DEF A
  <2>4. IsFiniteSet(A) /\ Cardinality(A) <= Cardinality(Faulty)
    BY <2>1, <2>2, FS_Subset
  <2>5. Cardinality(A) \in Nat
    BY <2>4, FS_CardinalityType
  <2>. QED BY <2>0, <2>3, <2>4, <2>5, FaultsAssumption, FaultsNat
<1>. QED BY <1>1, <1>2, <1>3 DEF PoolIdle

LEMMA RefusedInit == CInit => RefusedInv
BY EmptySeq DEF CInit, Init, NewClient, RefusedInv, PoolIdle, NoAck, NoneIn, Correct

\* The nodes do nothing with a request they refuse.
LEMMA IdleStep ==
    ASSUME ClientInv, ~scene.valid, PoolIdle, [CNext]_allVars
    PROVE  PoolIdle'
<1>1. ASSUME UNCHANGED vars PROVE PoolIdle'
  BY <1>1 DEF PoolIdle, vars, requestVars, clientVars
<1>2. CASE UNCHANGED allVars
  BY <1>1, <1>2 DEF allVars
<1>3. CASE submitReqs \/ resendRequests
           \/ \E acksDue, repliesDue \in BOOLEAN : retryForExpected(acksDue, repliesDue)
  BY <1>1, <1>3 DEF submitReqs, resendRequests, retryForExpected, ClientOnly
<1>4. ASSUME NEW n \in Nodes, onConnsChanged(n) \/ Disconnect(n) \/ handleOneNodeMsg(n)
      PROVE  PoolIdle'
  BY <1>1, <1>4 DEF onConnsChanged, Disconnect, handleOneNodeMsg
<1>5. ASSUME NEW n \in Nodes, handleOneClientMsg(n) PROVE PoolIdle'
  BY <1>1, <1>5 DEF handleOneClientMsg
<1>6. ASSUME NEW n \in Nodes, NEW m \in Answers, FaultyAnswer(n, m) PROVE PoolIdle'
  BY <1>1, <1>6 DEF FaultyAnswer
<1>7. ASSUME NEW n \in Nodes, NEW s \in Nodes, NodeReceive(n, s) PROVE FALSE
  BY <1>7 DEF NodeReceive
<1>8. ASSUME NEW n \in Nodes, NodeCommit(n) PROVE FALSE
  BY <1>8 DEF NodeCommit, commitAndSendReplies, PoolIdle
<1>9. ASSUME NEW n \in Nodes, NodeGc(n) PROVE PoolIdle'
  <2>1. /\ finalised' = finalised \/ finalised' = [finalised EXCEPT ![n] = NoRequest]
        /\ \/ propagates' = propagates
           \/ propagates' = [propagates EXCEPT ![n] = [s \in Nodes |-> NoRequest]]
        /\ UNCHANGED <<toOrder, executed, network>>
    BY <1>9 DEF NodeGc, gc, clientVars
  <2>2. /\ finalised \in [Nodes -> Contents \cup {NoRequest}] /\ Correct \subseteq Nodes
        /\ propagates \in [Nodes -> [Nodes -> Contents \cup {NoRequest}]]
    BY DEF ClientInv, TypeOK, Correct
  <2>. QED BY <2>1, <2>2 DEF PoolIdle
<1>. QED BY <1>2, <1>3, <1>4, <1>5, <1>6, <1>7, <1>8, <1>9 DEF CNext

\* A message of a correct node is handled, and acknowledges nothing.
LEMMA AckStored ==
    ASSUME ClientInv, \A q \in Correct : NoAck(q), NEW n \in Nodes, handleOneNodeMsg(n)
    PROVE  \A q \in Correct : NoAck(q)'
<1>. DEFINE m == Head(toClient[n])
            x == IF m = "ACK" THEN addAck(cl, n)
                 ELSE IF m = "NACK" THEN addNack(cl, n) ELSE addReply(cl, n, m)
            y == gotExpected(x, n, m = "ACK")
<1>1. /\ cl \in ClientRecord /\ toClient \in [Nodes -> Seq(Answers)]
      /\ toClient[n] \in Seq(Answers) /\ toClient[n] # <<>> /\ m \in Answers
      /\ Correct \subseteq Nodes
  BY HeadTailProperties DEF ClientInv, CTypeOK, handleOneNodeMsg, Correct
<1>2. /\ toClient' = [toClient EXCEPT ![n] = Tail(toClient[n])]
      /\ cl' = IF m \in {"ACK", "NACK"} THEN y ELSE postReplyRecvd(y)
  BY DEF handleOneNodeMsg
<1>3. m \notin {"ACK", "NACK"} => m \in Results
  BY <1>1 DEF Answers
<1>4. /\ n \in Correct => m # "ACK" /\ NoneIn(toClient'[n])
      /\ \A q \in Nodes \ {n} : toClient'[q] = toClient[q]
  BY <1>1, <1>2, AckTail DEF NoAck
<1>. HIDE DEF m
<1>5. /\ x \in ClientRecord
      /\ x.acks = IF m = "ACK" THEN [cl.acks EXCEPT ![n] = @ + 1] ELSE cl.acks
  <2>. DEFINE a == [cl.acks EXCEPT ![n] = @ + 1]
              b == cl.nacks \cup {n}
              c == [cl.replies EXCEPT ![n] = m]
  <2>1. a \in [Nodes -> Nat] /\ b \subseteq Nodes
    BY <1>1 DEF ClientRecord
  <2>2. m \notin {"ACK", "NACK"} => c \in [Nodes -> Results \cup {"none"}]
    BY <1>1, <1>3 DEF ClientRecord
  <2>3. /\ addAck(cl, n) = [cl EXCEPT !.acks = a]
        /\ addNack(cl, n) = [cl EXCEPT !.nacks = b]
        /\ addReply(cl, n, m) = [cl EXCEPT !.replies = c]
    BY DEF addAck, addNack, addReply
  <2>. HIDE DEF a, b, c
  <2>4. CASE m = "ACK"
    <3>1. x = [cl EXCEPT !.acks = a]
      BY <2>3, <2>4
    <3>. HIDE DEF x
    <3>2. x \in ClientRecord /\ x.acks = a
      BY <1>1, <2>1, <3>1 DEF ClientRecord
    <3>. QED BY <2>4, <3>2 DEF a
  <2>5. CASE m = "NACK"
    <3>1. x = [cl EXCEPT !.nacks = b]
      BY <2>3, <2>5
    <3>. HIDE DEF x
    <3>. QED BY <1>1, <2>1, <2>5, <3>1 DEF ClientRecord
  <2>6. CASE m \notin {"ACK", "NACK"}
    <3>1. x = [cl EXCEPT !.replies = c]
      BY <2>3, <2>6
    <3>. HIDE DEF x
    <3>. QED BY <1>1, <2>2, <2>6, <3>1 DEF ClientRecord
  <2>. QED BY <2>4, <2>5, <2>6
<1>. HIDE DEF x
<1>6. y \in ClientRecord /\ y.acks = x.acks
  BY <1>5, GotExpectedType DEF SameAnswers
<1>. HIDE DEF y
<1>7. cl'.acks = IF m = "ACK" THEN [cl.acks EXCEPT ![n] = @ + 1] ELSE cl.acks
  BY <1>2, <1>5, <1>6 DEF postReplyRecvd, ClientRecord
<1>8. cl.acks \in [Nodes -> Nat]
  BY <1>1 DEF ClientRecord
<1>9. \A q \in Correct : cl'.acks[q] = cl.acks[q]
  BY <1>1, <1>4, <1>7, <1>8
<1>. QED BY <1>1, <1>4, <1>9 DEF NoAck

\* The same for a message that is sent.
LEMMA OtherSent ==
    ASSUME ClientInv, \A q \in Correct : NoAck(q), NEW n \in Nodes, NEW m \in Answers,
           n \in Correct => m # "ACK", transmitToClient(n, m), UNCHANGED cl
    PROVE  \A q \in Correct : NoAck(q)'
<1>1. toClient \in [Nodes -> Seq(Answers)] /\ Correct \subseteq Nodes
  BY DEF ClientInv, CTypeOK, Correct
<1>2. toClient' = toClient \/ toClient' = [toClient EXCEPT ![n] = Append(toClient[n], m)]
  BY DEF transmitToClient
<1>3. n \in Correct => NoneIn(Append(toClient[n], m))
  BY <1>1, AckAppend DEF NoAck
<1>. QED BY <1>1, <1>2, <1>3 DEF NoAck

LEMMA AcksStep ==
    ASSUME ClientInv, ~scene.valid, PoolIdle, \A q \in Correct : NoAck(q), [CNext]_allVars
    PROVE  \A q \in Correct : NoAck(q)'
<1>0. /\ toClient \in [Nodes -> Seq(Answers)] /\ Correct \subseteq Nodes
      /\ cl \in ClientRecord
  BY DEF ClientInv, CTypeOK, Correct
<1>1. ASSUME UNCHANGED toClient, cl'.acks = cl.acks PROVE \A q \in Correct : NoAck(q)'
  BY <1>1 DEF NoAck
<1>2. CASE UNCHANGED allVars
  BY <1>1, <1>2 DEF allVars, cvars
<1>3. CASE submitReqs \/ resendRequests
           \/ \E acksDue, repliesDue \in BOOLEAN : retryForExpected(acksDue, repliesDue)
  <2>1. cl'.acks = cl.acks
    BY <1>0, <1>3 DEF submitReqs, resendRequests, retryForExpected, expectingFor, ClientRecord
  <2>2. UNCHANGED toClient
    BY <1>3 DEF submitReqs, resendRequests, retryForExpected, ClientOnly
  <2>. QED BY <1>1, <2>1, <2>2
<1>4. ASSUME NEW n \in Nodes, onConnsChanged(n) PROVE \A q \in Correct : NoAck(q)'
  <2>1. cl'.acks = cl.acks /\ UNCHANGED toClient
    BY <1>0, <1>4 DEF onConnsChanged, ClientRecord
  <2>. QED BY <1>1, <2>1
<1>5. ASSUME NEW n \in Nodes, Disconnect(n) PROVE \A q \in Correct : NoAck(q)'
  <2>1. /\ UNCHANGED cl
        /\ \A q \in Nodes : toClient'[q] = toClient[q] \/ toClient'[q] = <<>>
    BY <1>0, <1>5 DEF Disconnect
  <2>. QED BY <1>0, <2>1, EmptySeq DEF NoAck, NoneIn
<1>6. ASSUME NEW n \in Nodes, handleOneClientMsg(n) PROVE \A q \in Correct : NoAck(q)'
  <2>1. transmitToClient(n, "NACK") /\ UNCHANGED cl
    BY <1>6 DEF handleOneClientMsg
  <2>2. "NACK" \in Answers
    BY DEF Answers
  <2>. QED BY <2>1, <2>2, OtherSent
<1>7. ASSUME NEW n \in Nodes, NodeCommit(n) PROVE FALSE
  BY <1>7 DEF NodeCommit, commitAndSendReplies, PoolIdle
<1>8. ASSUME NEW n \in Nodes, NodeGc(n) \/ (\E s \in Nodes : NodeReceive(n, s))
      PROVE  \A q \in Correct : NoAck(q)'
  BY <1>1, <1>8 DEF NodeGc, NodeReceive, cvars
<1>9. ASSUME NEW n \in Nodes, NEW m \in Answers, FaultyAnswer(n, m)
      PROVE  \A q \in Correct : NoAck(q)'
  <2>1. n \notin Correct /\ transmitToClient(n, m) /\ UNCHANGED cl
    BY <1>9 DEF FaultyAnswer, Correct
  <2>. QED BY <2>1, OtherSent
<1>. QED BY <1>2, <1>3, <1>4, <1>5, <1>6, <1>7, <1>8, <1>9, AckStored DEF CNext

LEMMA RefusedStep == ClientInv /\ RefusedInv /\ [CNext]_allVars => RefusedInv'
<1>. SUFFICES ASSUME ClientInv, RefusedInv, [CNext]_allVars, ~scene'.valid
              PROVE  PoolIdle' /\ \A n \in Correct : NoAck(n)'
  BY DEF RefusedInv
<1>1. scene' = scene
  BY DEF CNext, allVars, cvars, submitReqs, resendRequests, retryForExpected, ClientOnly,
     onConnsChanged, Disconnect, handleOneNodeMsg, handleOneClientMsg, NodeReceive,
     NodeCommit, NodeGc, FaultyAnswer
<1>2. ~scene.valid /\ PoolIdle /\ \A n \in Correct : NoAck(n)
  BY <1>1 DEF RefusedInv
<1>. QED BY <1>2, IdleStep, AcksStep

\* A request whose signature the nodes find invalid has no effect, whoever propagates
\* it and whatever the faulty nodes answer: no correct node begins with it, the client
\* takes no result, and it counts enough acknowledgements to believe that the request
\* was accepted only if a faulty node sent more than one, in every pool.
THEOREM RefusedIsVoid == CSpec => []RefusedNoEffect
<1>1. CInit /\ [][CNext]_allVars => [](ClientInv /\ RefusedInv)
  BY RefusedStep, ClientInit, ClientStep, RefusedInit, PTL
<1>. QED BY <1>1, RefusedImplies, PTL DEF CSpec
=============================================================================
