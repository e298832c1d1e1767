------------------------------ MODULE SelfNode ------------------------------
(***************************************************************************)
(* The nodes (core/src/self_node.cpp) and the task that runs each of them  *)
(* (tasks/self_node_task.cpp) between two queues.  A node learns its key   *)
(* and its address by pairing, opens its valve on command and closes it    *)
(* when its time is up.  Here any frame may arrive at any time; System     *)
(* connects the queues to the head.                                        *)
(*                                                                         *)
(* One pass of the task's loop takes a frame and then looks at the clock;  *)
(* these are two steps, with the expiry of the watering time left open.    *)
(***************************************************************************)
EXTENDS Protocol, Sequences

CONSTANTS
  Nodes,          \* the nodes of the line, 0 the one in the head's device
  NodeKeys,       \* the keys a frame may carry
  FaultModes,     \* whether things may fail: in some behaviours, in all, in none
  QueueLength     \* the capacity of a queue

ASSUME MaxNodesAssumption == MaxNodes \in Nat
ASSUME FaultAssumption == FaultModes \subseteq BOOLEAN
ASSUME QueueAssumption == QueueLength \in Nat \ {0}

VARIABLES
  node,      \* the SelfNode of each task
  heard,     \* heard_communication: whether the task has ever had a frame
  incoming,  \* the queue it reads
  outgoing,  \* the queue it writes
  faulty     \* whether the driver may fail to switch a pin, in this behaviour

nodeVars == <<node, heard, incoming, outgoing, faulty>>

\* A SelfNode as constructed: closed valve, no power for the next in line.
NewSelfNode ==
  [self_key |-> 0, self_addr |-> ADDR_UNSET, status |-> "INITIALIZING",
   solenoid |-> FALSE, downstream |-> FALSE]

Init ==
  /\ node = [i \in Nodes |-> NewSelfNode]
  /\ heard = [i \in Nodes |-> FALSE]
  /\ incoming = [i \in Nodes |-> <<>>]
  /\ outgoing = [i \in Nodes |-> <<>>]
  /\ faulty \in FaultModes

\* What a queue is after a send that does not wait.
Sent(queue, frame) ==
  IF Len(queue) < QueueLength THEN Append(queue, frame) ELSE queue

\* The reply goes out; the send waits for room in the queue.
reply(i, frame) ==
  /\ Len(outgoing[i]) < QueueLength
  /\ outgoing' = [outgoing EXCEPT ![i] = Append(@, frame)]

-----------------------------------------------------------------------------
(***************************************************************************)
(* The valve.  The driver's answer decides the status; the level of the    *)
(* pin has not changed when it reports an error.                           *)
(***************************************************************************)
switch_valve(i, enabled, status) ==
  \/ node' = [node EXCEPT ![i].status = status, ![i].solenoid = enabled]
  \/ faulty /\ node' = [node EXCEPT ![i].status = "ERR"]

conclude_watering(i) == switch_valve(i, FALSE, "READY")

activate_hose(i) == switch_valve(i, TRUE, "WATERING")

\* Mutant: the status is not looked at.
initialize_watering_mutant(i, duration) ==
  /\ IF duration # 0 THEN activate_hose(i) ELSE conclude_watering(i)
  /\ reply(i, AckFrame(node[i].self_addr))

\* A command to a node that is neither ready nor watering changes nothing,
\* and is acknowledged all the same.
initialize_watering(i, duration) ==
  /\ IF node[i].status \in {"READY", "WATERING"}
     THEN IF duration # 0 THEN activate_hose(i) ELSE conclude_watering(i)
     ELSE UNCHANGED node
  /\ reply(i, AckFrame(node[i].self_addr))

\* The node is in service, whether or not the switch for the next one works:
\* its answer is not looked at.
complete_initialization(i) ==
  \/ node' = [node EXCEPT ![i].status = "READY", ![i].downstream = TRUE]
  \/ faulty /\ node' = [node EXCEPT ![i].status = "READY"]

-----------------------------------------------------------------------------
\* Mutant: a node in service takes a new address, too.
handle_unsynced_message_eager(i, msg) ==
  LET key == IF node[i].self_key = 0 THEN msg.key ELSE node[i].self_key IN
  \/ /\ msg.command = "DISCOVERY"
     /\ node' = [node EXCEPT ![i].self_key = key]
     /\ reply(i, DiscoveryFrame(key, 2))
  \/ /\ msg.command = "ADDRESSING"
     /\ node' = [node EXCEPT ![i].self_addr = msg.address]
     /\ reply(i, AddressingFrame(node[i].self_key, msg.address))
\* Mutant: the answer to DISCOVERY sets no data_length.
handle_unsynced_message_short(i, msg) ==
  LET key == IF node[i].self_key = 0 THEN msg.key ELSE node[i].self_key IN
  IF node[i].status # "INITIALIZING" THEN UNCHANGED <<node, outgoing>>
  ELSE IF msg.command = "DISCOVERY"
  THEN node' = [node EXCEPT ![i].self_key = key] /\ reply(i, DiscoveryFrame(key, 0))
  ELSE node' = [node EXCEPT ![i].self_addr = msg.address]
       /\ reply(i, AddressingFrame(node[i].self_key, msg.address))
\* Pairing, on the node's side: take the key of the first DISCOVERY, and the
\* address of any ADDRESSING for that key, until the head has acknowledged.
handle_unsynced_message(i, msg) ==
  LET key == IF node[i].self_key = 0 THEN msg.key ELSE node[i].self_key
      waiting == node[i].status = "INITIALIZING" IN
  \/ /\ waiting /\ msg.command = "DISCOVERY"
     /\ node' = [node EXCEPT ![i].self_key = key]
     /\ reply(i, DiscoveryFrame(key, 2))
  \/ /\ waiting /\ msg.command = "ADDRESSING" /\ msg.key = node[i].self_key
     /\ node' = [node EXCEPT ![i].self_addr = msg.address]
     /\ reply(i, AddressingFrame(node[i].self_key, msg.address))
  \/ /\ waiting => msg.command = "ADDRESSING" /\ msg.key # node[i].self_key
     /\ UNCHANGED <<node, outgoing>>

handle_incoming_frame(i, msg) ==
  LET addressed == node[i].self_addr # ADDR_UNSET
                   /\ msg.address = node[i].self_addr IN
  \/ /\ msg.command \in {"DISCOVERY", "ADDRESSING"}
     /\ handle_unsynced_message(i, msg)
  \/ /\ addressed /\ msg.command = "ACK"
     /\ complete_initialization(i)
     /\ UNCHANGED outgoing
  \/ /\ addressed /\ msg.command = "INIT_WATER_DURATIONS"
     /\ initialize_watering(i, msg.duration)
  \/ /\ addressed /\ msg.command = "STATUS"
     /\ reply(i, StatusReply(node[i].self_addr, node[i].status))
     /\ UNCHANGED node
  \/ /\ ~addressed /\ msg.command \notin {"DISCOVERY", "ADDRESSING"}
     /\ UNCHANGED <<node, outgoing>>

\* The frame part of a pass of the loop.
receive(i) ==
  /\ incoming[i] # <<>>
  /\ handle_incoming_frame(i, Head(incoming[i]))
  /\ incoming' = [incoming EXCEPT ![i] = Tail(@)]
  /\ heard' = [heard EXCEPT ![i] = TRUE]

\* The clock part, when the watering time is up.
process_watering_schedule(i) ==
  /\ node[i].status = "WATERING"
  /\ conclude_watering(i)
  /\ UNCHANGED <<heard, incoming, outgoing>>

\* What app_main asks ten seconds after power-on: a device that has heard
\* nothing takes itself for the head, for good.
takes_over(i) == ~heard[i]

-----------------------------------------------------------------------------
(***************************************************************************)
(* A node among arbitrary frames, with a bus that takes what it sends.     *)
(***************************************************************************)
Arriving ==
       {DiscoveryFrame(k, 2) : k \in NodeKeys}
  \cup {AddressingFrame(k, a) : k \in NodeKeys, a \in 0 .. MaxNodes - 1}
  \cup {WateringFrame(a, d) : a \in 0 .. MaxNodes - 1, d \in {0, 1}}
  \cup {AckFrame(a) : a \in 0 .. MaxNodes - 1}
  \cup {StatusFrame(a) : a \in 0 .. MaxNodes - 1}

arrive(i, frame) ==
  /\ Len(incoming[i]) < QueueLength
  /\ incoming' = [incoming EXCEPT ![i] = Append(@, frame)]
  /\ UNCHANGED <<node, heard, outgoing>>

depart(i) ==
  /\ outgoing[i] # <<>>
  /\ outgoing' = [outgoing EXCEPT ![i] = Tail(@)]
  /\ UNCHANGED <<node, heard, incoming>>

Next ==
  /\ UNCHANGED faulty
  /\ \E i \in Nodes :
       \/ receive(i)
       \/ process_watering_schedule(i)
       \/ \E frame \in Arriving : arrive(i, frame)
       \/ depart(i)

Spec == Init /\ [][Next]_nodeVars
-----------------------------------------------------------------------------
NodeRecord ==
  [self_key : NodeKeys \cup {0}, self_addr : 0 .. MaxNodes,
   status : {"INITIALIZING", "READY", "WATERING", "ERR"},
   solenoid : BOOLEAN, downstream : BOOLEAN]

\* Type correctness.
TypeOK ==
  /\ node \in [Nodes -> NodeRecord]
  /\ heard \in [Nodes -> BOOLEAN]
  /\ \A i \in Nodes : Len(incoming[i]) <= QueueLength
                      /\ Len(outgoing[i]) <= QueueLength

\* A node keeps its address while it is in service: once the head has
\* acknowledged it, no late or repeated pairing frame moves it
\* (handle_unsynced_message).
AddressIsKept ==
  [][\A i \in Nodes : node[i].status # "INITIALIZING" =>
       node'[i].self_addr = node[i].self_addr
       /\ node'[i].self_key = node[i].self_key]_nodeVars

\* Power for the next node and an open valve take a node with an address that
\* the head has acknowledged, whatever was sent to it before.  The ACK is the only
\* way into service: unless its switch has failed, a node there powers the next, so
\* a water command that comes before the ACK is answered and not carried out
\* (complete_initialization, initialize_watering).
OnlyInService ==
  \A i \in Nodes :
    /\ node[i].downstream \/ node[i].solenoid =>
         node[i].status # "INITIALIZING" /\ node[i].self_addr # ADDR_UNSET
    /\ node[i].status # "INITIALIZING" => node[i].downstream \/ faulty
=============================================================================
