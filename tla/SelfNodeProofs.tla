--------------------------- MODULE SelfNodeProofs ---------------------------
(***************************************************************************)
(* The nodes, for any number of them, any keys and addresses, and any      *)
(* frames in any order: what a node may do takes an address that the head  *)
(* has acknowledged, and a node that has one keeps it.                     *)
(***************************************************************************)
EXTENDS SelfNode, TLAPS

\* A node in service has an address; only such a node gives power to the next
\* one and has its valve open.
Sound(n) ==
  /\ n \in NodeRecord
  /\ n.downstream \/ n.solenoid => n.status # "INITIALIZING"
  /\ n.status # "INITIALIZING" =>
       n.self_addr # ADDR_UNSET /\ (n.downstream \/ faulty)

\* What a node sends.
Answer ==
       {DiscoveryFrame(k, 2) : k \in NodeKeys \cup {0}}
  \cup {AddressingFrame(k, a) : k \in NodeKeys \cup {0}, a \in 0 .. MaxNodes}
  \cup {AckFrame(a) : a \in 0 .. MaxNodes}
  \cup {StatusReply(a, s) : a \in 0 .. MaxNodes,
                            s \in {"INITIALIZING", "READY", "WATERING", "ERR"}}

\* The inductive invariant.
NodesAreSound ==
  /\ node \in [Nodes -> NodeRecord] /\ \A i \in Nodes : Sound(node[i])
  /\ heard \in [Nodes -> BOOLEAN]
  /\ incoming \in [Nodes -> Seq(Arriving)]
  /\ outgoing \in [Nodes -> Seq(Answer)]
  /\ \A i \in Nodes : Len(incoming[i]) <= QueueLength /\ Len(outgoing[i]) <= QueueLength

\* What a step may do to a node: it stays sound, and keeps key and address in
\* service.
Change(n, r) ==
  /\ Sound(r)
  /\ n.status # "INITIALIZING" => r.self_addr = n.self_addr /\ r.self_key = n.self_key
OnlyChanges(i) ==
  /\ node' \in [Nodes -> NodeRecord]
  /\ \A j \in Nodes : IF j = i THEN Change(node[i], node'[i]) ELSE node'[j] = node[j]
\* What a step may do to the queue a node writes.
OnlyReplies(i) ==
  /\ outgoing' \in [Nodes -> Seq(Answer)]
  /\ \A j \in Nodes : Len(outgoing'[j]) <= QueueLength

-----------------------------------------------------------------------------
\* The fields of a frame that arrives (Protocol).
LEMMA ArrivingFields ==
  ASSUME NEW msg \in Arriving
  PROVE  /\ msg.command \in {"DISCOVERY", "ADDRESSING"} => msg.key \in NodeKeys
         /\ msg.command = "ADDRESSING" =>
              msg.address \in 0 .. MaxNodes /\ msg.address # ADDR_UNSET
BY MaxNodesAssumption
   DEF Arriving, DiscoveryFrame, AddressingFrame, WateringFrame, AckFrame, StatusFrame, ADDR_UNSET

\* A reply waits for room (SelfNodeTask::run).
LEMMA Replies ==
  ASSUME NodesAreSound, NEW i \in Nodes, NEW frame \in Answer, reply(i, frame)
  PROVE  OnlyReplies(i)
<1>1. Len(outgoing[i]) < QueueLength /\ outgoing' = [outgoing EXCEPT ![i] = Append(@, frame)]
  BY DEF reply
<1>2. outgoing[i] \in Seq(Answer)
  BY DEF NodesAreSound
<1>3. /\ Append(outgoing[i], frame) \in Seq(Answer)
      /\ Len(Append(outgoing[i], frame)) <= QueueLength
  BY <1>1, <1>2, QueueAssumption
<1> QED BY <1>1, <1>3 DEF OnlyReplies, NodesAreSound

\* The valve of a node in service may switch, and the node stays in service
\* (SelfNode::conclude_watering, SelfNode::activate_hose).
LEMMA Switches ==
  ASSUME NodesAreSound, NEW i \in Nodes, node[i].status # "INITIALIZING",
         NEW enabled \in BOOLEAN, NEW status \in {"READY", "WATERING"},
         switch_valve(i, enabled, status)
  PROVE  OnlyChanges(i)
<1>1. node[i] \in NodeRecord /\ Sound(node[i]) /\ node \in [Nodes -> NodeRecord]
  BY DEF NodesAreSound
<1>2. CASE node' = [node EXCEPT ![i].status = status, ![i].solenoid = enabled]
  BY <1>1, <1>2 DEF OnlyChanges, Change, Sound, NodeRecord
<1>3. CASE node' = [node EXCEPT ![i].status = "ERR"]
  BY <1>1, <1>3 DEF OnlyChanges, Change, Sound, NodeRecord
<1> QED BY <1>2, <1>3 DEF switch_valve

LEMMA NothingChanges ==
  ASSUME NodesAreSound, NEW i \in Nodes
  PROVE  /\ UNCHANGED node => OnlyChanges(i)
         /\ UNCHANGED outgoing => OnlyReplies(i)
BY DEF NodesAreSound, OnlyChanges, Change, OnlyReplies

\* Pairing changes a node only before it is in service
\* (SelfNode::handle_unsynced_message).
LEMMA Pairs ==
  ASSUME NodesAreSound, NEW i \in Nodes, NEW msg \in Arriving,
         handle_unsynced_message(i, msg), msg.command \in {"DISCOVERY", "ADDRESSING"}
  PROVE  OnlyChanges(i) /\ OnlyReplies(i)
<1> DEFINE key == IF node[i].self_key = 0 THEN msg.key ELSE node[i].self_key
           waiting == node[i].status = "INITIALIZING"
<1>1. node[i] \in NodeRecord /\ Sound(node[i]) /\ node \in [Nodes -> NodeRecord]
  BY DEF NodesAreSound
<1>2. key \in NodeKeys \cup {0}
  BY <1>1, ArrivingFields DEF NodeRecord
<1> HIDE DEF key
<1>3. CASE /\ waiting
           /\ node' = [node EXCEPT ![i].self_key = key]
           /\ reply(i, DiscoveryFrame(key, 2))
  <2>1. OnlyChanges(i)
    BY <1>1, <1>2, <1>3 DEF OnlyChanges, Change, Sound, NodeRecord
  <2>2. DiscoveryFrame(key, 2) \in Answer
    BY <1>2 DEF Answer
  <2> QED BY <1>3, <2>1, <2>2, Replies
<1>4. CASE /\ waiting /\ msg.command = "ADDRESSING"
           /\ node' = [node EXCEPT ![i].self_addr = msg.address]
           /\ reply(i, AddressingFrame(node[i].self_key, msg.address))
  <2>1. msg.address \in 0 .. MaxNodes
    BY <1>4, ArrivingFields
  <2>2. OnlyChanges(i)
    BY <1>1, <1>4, <2>1 DEF OnlyChanges, Change, Sound, NodeRecord
  <2>3. AddressingFrame(node[i].self_key, msg.address) \in Answer
    BY <1>1, <2>1 DEF Answer, NodeRecord
  <2> QED BY <1>4, <2>2, <2>3, Replies
<1>5. CASE UNCHANGED <<node, outgoing>>
  BY <1>5, NothingChanges
<1> QED BY <1>3, <1>4, <1>5 DEF handle_unsynced_message, key

\* Every frame leaves a node sound (SelfNode::handle_incoming_frame).
LEMMA Handles ==
  ASSUME NodesAreSound, NEW i \in Nodes, NEW msg \in Arriving,
         handle_incoming_frame(i, msg)
  PROVE  OnlyChanges(i) /\ OnlyReplies(i)
<1> DEFINE addressed == node[i].self_addr # ADDR_UNSET /\ msg.address = node[i].self_addr
<1>1. node[i] \in NodeRecord /\ Sound(node[i]) /\ node \in [Nodes -> NodeRecord]
  BY DEF NodesAreSound
<1>2. CASE msg.command \in {"DISCOVERY", "ADDRESSING"} /\ handle_unsynced_message(i, msg)
  BY <1>2, Pairs
<1>3. CASE addressed /\ complete_initialization(i) /\ UNCHANGED outgoing
  <2>1. OnlyChanges(i)
    <3>1. CASE node' = [node EXCEPT ![i].status = "READY", ![i].downstream = TRUE]
      BY <1>1, <1>3, <3>1 DEF OnlyChanges, Change, Sound, NodeRecord
    <3>2. CASE faulty /\ node' = [node EXCEPT ![i].status = "READY"]
      BY <1>1, <1>3, <3>2 DEF OnlyChanges, Change, Sound, NodeRecord
    <3> QED BY <1>3, <3>1, <3>2 DEF complete_initialization
  <2> QED BY <1>3, <2>1, NothingChanges
<1>4. CASE initialize_watering(i, msg.duration)
  <2>1. AckFrame(node[i].self_addr) \in Answer
    BY <1>1 DEF Answer, NodeRecord
  <2>2. OnlyReplies(i)
    BY <1>4, <2>1, Replies DEF initialize_watering
  <2>3. CASE node[i].status \in {"READY", "WATERING"}
    <3>1. switch_valve(i, TRUE, "WATERING") \/ switch_valve(i, FALSE, "READY")
      BY <1>4, <2>3, Zenon DEF initialize_watering, activate_hose, conclude_watering
    <3>2. node[i].status # "INITIALIZING"
      BY <2>3
    <3>3. CASE switch_valve(i, TRUE, "WATERING")
      <4>1. TRUE \in BOOLEAN /\ "WATERING" \in {"READY", "WATERING"}
        OBVIOUS
      <4> QED BY <2>2, <3>2, <3>3, <4>1, Switches, Zenon
    <3>4. CASE switch_valve(i, FALSE, "READY")
      <4>1. FALSE \in BOOLEAN /\ "READY" \in {"READY", "WATERING"}
        OBVIOUS
      <4> QED BY <2>2, <3>2, <3>4, <4>1, Switches, Zenon
    <3> QED BY <3>1, <3>3, <3>4
  <2>4. CASE node[i].status \notin {"READY", "WATERING"}
    <3>1. UNCHANGED node
      BY <1>4, <2>4, Zenon DEF initialize_watering
    <3> QED BY <2>2, <3>1, NothingChanges
  <2> QED BY <2>2, <2>3, <2>4
<1>5. CASE reply(i, StatusReply(node[i].self_addr, node[i].status)) /\ UNCHANGED node
  <2>1. StatusReply(node[i].self_addr, node[i].status) \in Answer
    BY <1>1 DEF Answer, NodeRecord
  <2> QED BY <1>5, <2>1, Replies, NothingChanges
<1>6. CASE UNCHANGED <<node, outgoing>>
  BY <1>6, NothingChanges
<1> QED BY <1>2, <1>3, <1>4, <1>5, <1>6 DEF handle_incoming_frame

-----------------------------------------------------------------------------
LEMMA InitSound == Init => NodesAreSound
<1> SUFFICES ASSUME Init  PROVE NodesAreSound
  OBVIOUS
<1>1. NewSelfNode \in NodeRecord /\ Sound(NewSelfNode)
  BY MaxNodesAssumption DEF NewSelfNode, NodeRecord, Sound, ADDR_UNSET
<1>2. \A S : <<>> \in Seq(S) /\ Len(<<>>) = 0
  OBVIOUS
<1> QED BY <1>1, <1>2, QueueAssumption DEF Init, NodesAreSound

\* Every step keeps the nodes sound and changes them as they may be changed.
LEMMA StepSound ==
  ASSUME NodesAreSound, [Next]_nodeVars
  PROVE  NodesAreSound' /\ \A i \in Nodes : Change(node[i], node'[i])
<1>0. UNCHANGED faulty
  BY DEF Next, nodeVars
<1> DEFINE AllSound == \A j \in Nodes : Sound(node[j])
<1>1. \A i \in Nodes : OnlyChanges(i) =>
        /\ node' \in [Nodes -> NodeRecord] /\ AllSound'
        /\ \A j \in Nodes : Change(node[j], node'[j])
  <2>1. \A r : Sound(r) <=> Sound(r)'
    BY <1>0 DEF Sound
  <2> QED BY <2>1 DEF NodesAreSound, OnlyChanges, Change
<1>2. UNCHANGED node =>
        /\ node' \in [Nodes -> NodeRecord] /\ AllSound'
        /\ \A j \in Nodes : Change(node[j], node'[j])
  <2>1. \A r : Sound(r) <=> Sound(r)'
    BY <1>0 DEF Sound
  <2> QED BY <2>1 DEF NodesAreSound, Change
<1>3. ASSUME NEW i \in Nodes, receive(i)
      PROVE  NodesAreSound' /\ \A j \in Nodes : Change(node[j], node'[j])
  <2>1. incoming[i] \in Seq(Arriving) /\ incoming[i] # <<>>
    BY <1>3 DEF receive, NodesAreSound
  <2>2. Head(incoming[i]) \in Arriving /\ Tail(incoming[i]) \in Seq(Arriving)
        /\ Len(Tail(incoming[i])) <= Len(incoming[i])
    BY <2>1
  <2>3. OnlyChanges(i) /\ OnlyReplies(i)
    BY <1>3, <2>2, Handles DEF receive
  <2>4. /\ incoming' \in [Nodes -> Seq(Arriving)]
        /\ \A j \in Nodes : Len(incoming'[j]) <= QueueLength
    BY <1>3, <2>2, QueueAssumption DEF receive, NodesAreSound
  <2>5. heard' \in [Nodes -> BOOLEAN]
    BY <1>3 DEF receive, NodesAreSound
  <2> QED BY <1>1, <2>3, <2>4, <2>5 DEF NodesAreSound, OnlyReplies
<1>4. ASSUME NEW i \in Nodes, process_watering_schedule(i)
      PROVE  NodesAreSound' /\ \A j \in Nodes : Change(node[j], node'[j])
  <2>1. OnlyChanges(i)
    BY <1>4, Switches DEF process_watering_schedule, conclude_watering
  <2> QED BY <1>1, <1>4, <2>1 DEF process_watering_schedule, NodesAreSound
<1>5. ASSUME NEW i \in Nodes, NEW frame \in Arriving, arrive(i, frame)
      PROVE  NodesAreSound' /\ \A j \in Nodes : Change(node[j], node'[j])
  <2>1. incoming[i] \in Seq(Arriving)
    BY DEF NodesAreSound
  <2>2. /\ Append(incoming[i], frame) \in Seq(Arriving)
        /\ Len(Append(incoming[i], frame)) <= QueueLength
    BY <1>5, <2>1, QueueAssumption DEF arrive
  <2> QED BY <1>2, <1>5, <2>2 DEF arrive, NodesAreSound
<1>6. ASSUME NEW i \in Nodes, depart(i)
      PROVE  NodesAreSound' /\ \A j \in Nodes : Change(node[j], node'[j])
  <2>1. outgoing[i] \in Seq(Answer) /\ outgoing[i] # <<>>
    BY <1>6 DEF depart, NodesAreSound
  <2>2. Tail(outgoing[i]) \in Seq(Answer) /\ Len(Tail(outgoing[i])) <= Len(outgoing[i])
    BY <2>1
  <2>3. Len(Tail(outgoing[i])) <= QueueLength
    BY <2>1, <2>2, QueueAssumption DEF NodesAreSound
  <2> QED BY <1>2, <1>6, <2>2, <2>3 DEF depart, NodesAreSound
<1>7. CASE UNCHANGED nodeVars
  BY <1>2, <1>7 DEF nodeVars, NodesAreSound
<1> QED BY <1>3, <1>4, <1>5, <1>6, <1>7 DEF Next

LEMMA AlwaysSound == Spec => []NodesAreSound
BY InitSound, StepSound, PTL DEF Spec

\* Type correctness of the nodes and their queues.
THEOREM NodeTypeCorrect == Spec => []TypeOK
<1>1. NodesAreSound => TypeOK
  BY DEF NodesAreSound, TypeOK
<1> QED BY <1>1, AlwaysSound, PTL

\* The valve opens, and the next node gets power, only at a node in service with
\* an address, and none comes into service but by the ACK, which powers the next
\* unless a switch has failed, whatever frames arrive
\* (SelfNode::initialize_watering, SelfNode::complete_initialization).
THEOREM ServiceOnly == Spec => []OnlyInService
<1>1. NodesAreSound => OnlyInService
  BY DEF NodesAreSound, Sound, OnlyInService
<1> QED BY <1>1, AlwaysSound, PTL

\* No frame moves a node in service to another address
\* (SelfNode::handle_unsynced_message).
THEOREM AddressesAreKept == Spec => AddressIsKept
<1>1. NodesAreSound /\ [Next]_nodeVars =>
        [\A i \in Nodes : node[i].status # "INITIALIZING" =>
           node'[i].self_addr = node[i].self_addr
           /\ node'[i].self_key = node[i].self_key]_nodeVars
  BY StepSound DEF Change
<1> QED BY <1>1, AlwaysSound, PTL DEF Spec, AddressIsKept

=============================================================================
