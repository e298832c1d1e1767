------------------------------- MODULE System -------------------------------
(***************************************************************************)
(* The head, its own node and the nodes down the line, over the queues of  *)
(* core/env/esp32/queue.hpp, the UART tasks (tasks/uart_task.cpp) and the  *)
(* RS485 bus.                                                              *)
(*                                                                         *)
(*   head task  --ext_outgoing-->  UART task  --> INTERNAL_INCOMING        *)
(*      ^                             |   (incoming[0], node 0)            *)
(*      |                            bus --> incoming[i], node i > 0       *)
(*   ext_incoming  <-- UART task  <-- outgoing[0], and the bus             *)
(*                                                                         *)
(* Node 0 sits in the head's device and gets the frames as they are; the   *)
(* others hear everything that goes over the bus, of the head and of each  *)
(* other.  A node has power when every node before it in the line has      *)
(* switched it on; without power its device is as if it had never run.     *)
(* Putting a frame on the bus and reading it at the other ends is one      *)
(* step; where the line is faulty, a frame may be lost on the way or       *)
(* arrive twice, as Framing shows.                                         *)
(***************************************************************************)
EXTENDS HeadTask, Sequences

CONSTANTS
  Nodes,          \* 0 .. n, node 0 being the head's own
  QueueLength,    \* the capacity of every queue
  FaultModes,     \* whether things fail: never, always, or in some behaviours
  FaultyRequests, \* what the host asks for where they may
  MaxUpsets,      \* how many writes and repeated frames there can be there
  Repairing,      \* when the host may ask for another pairing, see MayPair
  Flash           \* the schedules persisted at power-on

VARIABLES
  node, heard, incoming, outgoing,  \* see SelfNode
  faulty,                       \* valves may fail to switch and the bus may
                                \*   lose and repeat frames, in this behaviour
  ext_incoming, ext_outgoing,   \* the queues of the head task
  repeats                       \* frames that have arrived twice

Line == INSTANCE SelfNode WITH NodeKeys <- Keys

busVars == <<node, heard, incoming, outgoing, ext_incoming, ext_outgoing, repeats>>
systemVars == <<allVars, busVars>>

Remotes == Nodes \ {0}
NodesTop == Cardinality(Nodes) - 1

ASSUME NodesAssumption == Nodes = 0 .. NodesTop /\ 0 \in Nodes
ASSUME SwitchesAssumption ==
  /\ FaultModes \subseteq BOOLEAN /\ MaxUpsets \in Nat
  /\ Repairing \in {"standby", "quiet", "any"}
  /\ QueueLength \in Nat \ {0}
ASSUME FlashAssumption == Flash \in [Addr -> Schedule]

SystemInit ==
  /\ TaskInit
  /\ storage = Flash
  /\ Line!Init
  /\ ext_incoming = <<>>
  /\ ext_outgoing = <<>>
  /\ repeats = 0

Powered(i) == \A j \in Nodes : j < i => node[j].downstream

-----------------------------------------------------------------------------
(***************************************************************************)
(* Time.  The loop of the head takes 500 ms, a frame and its answer less,  *)
(* 50 ms for each UART task they pass and 200 ms for the node's, and the   *)
(* long waits are ten passes of the loop (no answer to pairing, no answer  *)
(* to a command) or a whole phase (the next round).                        *)
(* So a long wait does not run out while frames are under way:             *)
(* the last pass of it begins when they have arrived, and a round begins   *)
(* on a quiet bus.  In all other respects tasks and frames are as slow or  *)
(* fast as they like.                                                      *)
(***************************************************************************)
Arrived ==
  /\ ext_outgoing = <<>>
  /\ \A i \in Nodes : incoming[i] = <<>> /\ outgoing[i] = <<>>
Quiet == Arrived /\ ext_incoming = <<>>

LastPass ==
  \/ head_status = "PAIRING" /\ no_response_pairing_count + 1 >= StopPairingCount
  \/ /\ active_watering_index # NoIndex
     /\ node_link[active_watering_index].retry_attempts + 1 >= RetryMax

-----------------------------------------------------------------------------
(***************************************************************************)
(* The head task, with its queues.  A send waits for room in the queue.    *)
(***************************************************************************)
send_returned ==
  /\ returned' # NoFrame => Len(ext_outgoing) < QueueLength
  /\ ext_outgoing' = IF returned' = NoFrame THEN ext_outgoing
                     ELSE Append(ext_outgoing, returned')

HeadReceive ==
  /\ LastPass => Arrived
  /\ \/ ext_incoming = <<>> /\ receive(NoFrame) /\ UNCHANGED ext_incoming
     \/ /\ ext_incoming # <<>>
        /\ receive(ext_incoming[1])
        /\ ext_incoming' = Tail(ext_incoming)
  /\ send_returned
  /\ UNCHANGED <<node, heard, incoming, outgoing, repeats>>

HeadAct ==
  /\ \/ \E key \in Keys \ {0} : pair(key)
     \/ \E due \in BOOLEAN, phase \in Phases :
          (due => Quiet) /\ schedule(due, phase)
     \/ command
  /\ send_returned
  /\ UNCHANGED <<node, heard, incoming, outgoing, ext_incoming, repeats>>

HeadServe ==
  /\ process_external_request \/ notify
  /\ UNCHANGED busVars

\* kill_node_task_fn (HeadEntrypointTask::reset_node): the node's task ends, its
\* SelfNode is destroyed, which closes the valve and cuts the power of the line;
\* a new one takes over the queues as they are.
\* Mutant: the destructor leaves the power on.
KillNodeTask_mutant ==
  /\ node_task_killed
  /\ node' = [node EXCEPT ![0] = [Line!NewSelfNode EXCEPT
                                    !.downstream = node[0].downstream]]
  /\ UNCHANGED <<heard, incoming, outgoing, ext_incoming, ext_outgoing, repeats>>
KillNodeTask ==
  /\ node_task_killed
  /\ node' = [i \in Nodes |-> Line!NewSelfNode]
  /\ heard' = [i \in Nodes |-> FALSE]
  /\ incoming' = [i \in Nodes |-> IF i = 0 THEN incoming[0] ELSE <<>>]
  /\ outgoing' = [i \in Nodes |-> IF i = 0 THEN outgoing[0] ELSE <<>>]
  /\ UNCHANGED <<ext_incoming, ext_outgoing, repeats>>

(***************************************************************************)
(* The UART tasks and the bus.                                             *)
(***************************************************************************)
Sent(queue, frame) == Line!Sent(queue, frame)

\* How many copies of a frame each of those who listen gets.
upsettable == writes + repeats < MaxUpsets
Copies(listeners) ==
  IF ~faulty THEN [listeners -> {1}]
  ELSE IF upsettable THEN [listeners -> 0 .. 2] ELSE [listeners -> 0 .. 1]
Delivered(queue, frame, copies) ==
  CASE copies = 0 -> queue
    [] copies = 1 -> Sent(queue, frame)
    [] copies = 2 -> Sent(Sent(queue, frame), frame)
count(copies) ==
  repeats' = IF \E i \in DOMAIN copies : copies[i] = 2 THEN repeats + 1 ELSE repeats

\* The head's device sends.
UartSend ==
  /\ ext_outgoing # <<>>
  /\ \E copies \in Copies({i \in Remotes : Powered(i)}) :
       /\ incoming' = [i \in Nodes |->
            IF i = 0 THEN Sent(incoming[0], ext_outgoing[1])
            ELSE IF i \in DOMAIN copies
            THEN Delivered(incoming[i], OnWire(ext_outgoing[1]), copies[i])
            ELSE incoming[i]]
       /\ count(copies)
  /\ ext_outgoing' = Tail(ext_outgoing)
  /\ UNCHANGED <<allVars, node, heard, outgoing, ext_incoming>>

\* The answers of node 0 stay in the device.
UartLocal ==
  /\ outgoing[0] # <<>>
  /\ ext_incoming' = Sent(ext_incoming, outgoing[0][1])
  /\ outgoing' = [outgoing EXCEPT ![0] = Tail(@)]
  /\ UNCHANGED <<allVars, node, heard, incoming, ext_outgoing, repeats>>

\* The device of another node sends: to the head (0) and to the nodes.
UartReply(i) ==
  /\ outgoing[i] # <<>>
  /\ LET frame == OnWire(outgoing[i][1]) IN
     \E copies \in Copies({0} \cup {j \in Remotes \ {i} : Powered(j)}) :
       /\ ext_incoming' = Delivered(ext_incoming, frame, copies[0])
       /\ incoming' = [j \in Nodes |->
            IF j \in DOMAIN copies \ {0}
            THEN Delivered(incoming[j], frame, copies[j]) ELSE incoming[j]]
       /\ count(copies)
  /\ outgoing' = [outgoing EXCEPT ![i] = Tail(@)]
  /\ UNCHANGED <<allVars, node, heard, ext_outgoing>>

NodeReceive(i) ==
  /\ Powered(i)
  /\ Line!receive(i)
  /\ UNCHANGED <<allVars, ext_incoming, ext_outgoing, repeats>>

NodeExpire(i) ==
  /\ Line!process_watering_schedule(i)
  /\ UNCHANGED <<allVars, ext_incoming, ext_outgoing, repeats>>

(***************************************************************************)
(* The host and the power.                                                 *)
(***************************************************************************)
\* "quiet": while no frame is under way, and in front of the search, so that the
\* head takes it before it moves a frame again; "standby": and no pairing either.
MayPair ==
  \/ Repairing = "any"
  \/ /\ Quiet /\ pc = "requests" /\ UNCHANGED slot
     /\ Repairing = "standby" => head_status = "STANDBY"

HostWrite ==
  /\ \E r \in HostRequests :
       /\ faulty => r \in FaultyRequests /\ upsettable
       /\ putRequest(r)
       /\ r = PairingRequest => MayPair
  /\ UNCHANGED busVars

HostRead == status_task /\ UNCHANGED busVars

\* The head's device restarts, by panic or for want of power, and the line
\* is without power until it is paired again.
PowerCycle ==
  /\ restart
  /\ node' = [i \in Nodes |-> Line!NewSelfNode]
  /\ heard' = [i \in Nodes |-> FALSE]
  /\ incoming' = [i \in Nodes |-> <<>>]
  /\ outgoing' = [i \in Nodes |-> <<>>]
  /\ ext_incoming' = <<>>
  /\ ext_outgoing' = <<>>
  /\ UNCHANGED repeats

HeadSteps == HeadReceive \/ HeadAct \/ HeadServe \/ KillNodeTask

SystemNext ==
  /\ UNCHANGED faulty
  /\ \/ HeadSteps
     \/ UartSend \/ UartLocal
     \/ \E i \in Remotes : UartReply(i)
     \/ \E i \in Nodes : NodeReceive(i) \/ NodeExpire(i)
     \/ HostWrite \/ HostRead
     \/ PowerCycle

\* Every task is scheduled and every watering time runs out.  The subscripts are
\* what each step of these actions changes.
SystemFairness ==
  /\ WF_<<pc, extRequests>>(HeadSteps)
  /\ WF_ext_outgoing(UartSend)
  /\ WF_outgoing(UartLocal)
  /\ \A i \in Remotes : WF_outgoing(UartReply(i))
  /\ \A i \in Nodes : WF_incoming(NodeReceive(i)) /\ WF_node(NodeExpire(i))

SystemSpec ==
  SystemInit /\ [][SystemNext]_<<systemVars, faulty>> /\ SystemFairness
-----------------------------------------------------------------------------
(***************************************************************************)
(* Properties.                                                             *)
(***************************************************************************)
InService(i) == node[i].status # "INITIALIZING"

\* Type correctness; the frames that reach the head are the ones the module
\* Head allows for, so that what is proved there applies here.
SystemTypeOK ==
  /\ Line!TypeOK
  /\ Len(ext_incoming) <= QueueLength /\ Len(ext_outgoing) <= QueueLength
  /\ \A k \in DOMAIN ext_incoming : ext_incoming[k] \in IncomingFrame

\* On a line without faults, a node in service is in the head's table, at its own
\* address and with its own key, except while the head is clearing the line for a
\* new pairing.
AddressesAgree ==
  ~faulty => \A i \in Nodes : InService(i) /\ pc # "kill_node_task" =>
    /\ Exists(node[i].self_addr)
    /\ node_link[node[i].self_addr].id_key = node[i].self_key

\* No two nodes in service have one address, or else two would open their valves
\* on one command, and count as one: docs/ble_reads.md:115, "Returns the current
\* state of each discovered node."
UniqueAddresses ==
  \A i, j \in Nodes :
    InService(i) /\ InService(j) /\ node[i].self_addr = node[j].self_addr => i = j

\* One valve at a time: whatever is repeated, late or lost, the next valve opens
\* only after the last one has closed.
OneValveOpen ==
  \A i, j \in Nodes : node[i].solenoid /\ node[j].solenoid => i = j

\* The head knows of an open valve: it is waiting for that node to finish,
\* or has declared a fault, or is starting over.
OpenValveIsKnown ==
  \A i \in Nodes : node[i].solenoid /\ pc # "kill_node_task" =>
    \/ head_status \in {"FAULTY_NODE", "PAIRING"}
    \/ /\ Exists(node[i].self_addr)
       /\ get_node_status(node[i].self_addr) \in {"COMMAND_SENT", "WATERING"}

\* A node enters a round with all its attempts, whatever it took to finish the
\* last one (handle_ack, handle_incoming_node_status).
FreshRetryBudget ==
  \A a \in Addr : get_node_status(a) = "IN_QUEUE" => node_link[a].retry_attempts = 0

\* A node that answers is not given up: with a bus that loses nothing and valves
\* that switch, retries (next_watering_frame) never end in ERR.
NoFalseFault ==
  ~faulty => head_status # "FAULTY_NODE" /\ \A a \in Addr : get_node_status(a) # "ERR"

\* The head asserts that a frame it gets comes from a node it has:
\* core/src/head.cpp:142, "assert(node != nullptr && addr < config::max_nodes)".
AckFindsItsNode ==
  pc = "receive" /\ ext_incoming # <<>> /\ ext_incoming[1].command = "ACK"
    => Exists(ext_incoming[1].address)

\* A node whose valve does not switch is known to be faulty, unless the head
\* starts over.
FaultIsReported ==
  (\E i \in Nodes : node[i].status = "ERR")
    ~> \/ head_status \in {"FAULTY_NODE", "PAIRING"}
       \/ \A i \in Nodes : ~InService(i)

\* No frame meets a table that has no node for it, while the host asks for
\* pairing only at rest: no assert fails and no null pointer is followed
\* (Head::handle_incoming_frame).
NoPanic == ~panicked

\* On a line without faults pairing comes to an end: each node falls silent once
\* it has been given its address, and the silent passes add up (process_pairing,
\* handle_unsynced_message).
PairingEnds == ~faulty /\ head_status = "PAIRING" ~> head_status # "PAIRING"

\* Pairing finds every node of the line, if the table has room for it:
\* tests/head_test.cpp:311, "Process pairing will continue until a no response
\* threshold", and not end while there is a node left to answer.
PairingIsComplete ==
  ~faulty /\ head_status # "PAIRING" /\ Quiet /\ (\E a \in Addr : Exists(a))
    => \A i \in Nodes : InService(i)

\* There is one head: when the line has come to rest after a pairing, no device
\* that has power has gone without a frame, and none will take over (app_main).
OneHead ==
  ~faulty /\ Quiet /\ head_status # "PAIRING" =>
    \A i \in Remotes : Powered(i) => ~Line!takes_over(i)

\* A node that is put in the queue gets its turn: its valve opens, unless the
\* host takes its time away, the round ends in a fault or the head starts over,
\* whatever frames are lost or repeated: docs/ble_reads.md:162, "A command is
\* queued for transmission to the node."
QueuedNodeIsWatered ==
  \A i \in Nodes :
    LET a == node[i].self_addr
        queued == InService(i) /\ get_node_status(a) = "IN_QUEUE" IN
    queued ~> \/ node[i].solenoid \/ ~InService(i)
              \/ Exists(a) /\ node_link[a].hose_duration = 0
              \/ head_status \in {"FAULTY_NODE", "PAIRING"}

\* A round ends, whatever frames are lost (next_watering_frame counts attempts,
\* advance_active_watering_index moves on).
RoundEnds == head_status = "WATERING_CMDS" ~> head_status # "WATERING_CMDS"
=============================================================================
