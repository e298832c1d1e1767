---------------------------- MODULE SystemProofs ----------------------------
(***************************************************************************)
(* The head and its line together, for any number of nodes, keys and       *)
(* requests and any length of the queues, with or without faults: what was *)
(* proved of the head alone, the attempts of a round, and the addresses.   *)
(***************************************************************************)
EXTENDS LineProofs

\* In the system, too, the head runs the operations of Head and nothing else.
THEOREM SystemImplementsHead == SystemSpec => ImplementsHead
<1>1. SystemInit => Init BY DEF SystemInit, TaskInit
<1>2. SystemInv /\ [SystemNext]_<<systemVars, faulty>> => [Next]_vars
  BY HeadRuns, HeadMoves DEF SystemInv
<1> QED BY <1>1, <1>2, SystemInvariance, PTL DEF SystemSpec, ImplementsHead, Spec

\* So what is proved of Head holds among frames that nodes really send, with the
\* power failing at any time: one address for each key, ...
THEOREM SystemKeepsKeysUnique == SystemSpec => []KeysUnique
BY SystemImplementsHead, KeysAreUnique DEF ImplementsHead

\* ... and the schedules the host has set survive a restart.
THEOREM SystemSavesAreComplete == SystemSpec => []SavedIsPersisted
BY SystemImplementsHead, SavesAreComplete DEF ImplementsHead

\* In the system, too, what stands in the mailbox is served before a pairing,
\* whenever the power fails and whatever is put behind the search.
THEOREM SystemServesStandingFirst == SystemSpec => StandingBeforePairing
<1>1. SystemInv /\ [SystemNext]_<<systemVars, faulty>> =>
        Mailed /\ ([TaskNext]_allVars \/ restart)
  BY HeadRuns DEF SystemInv
<1>2. SystemInv /\ SystemInv' /\ Searched /\ [SystemNext]_<<systemVars, faulty>>
        => Searched'
  BY <1>1, SearchedStep DEF SystemInv
<1>3. SystemInit => Searched BY InitSearched DEF SystemInit
<1>4. SystemInv /\ Searched /\ [SystemNext]_<<systemVars, faulty>> =>
        [pc = "requests" /\ pc' = "kill_node_task" =>
           \A r \in extRequests \ {PairingRequest} : r.type \in late]_allVars
  BY <1>1, PairingStep
<1> QED BY <1>2, <1>3, <1>4, SystemInvariance, PTL DEF SystemSpec, StandingBeforePairing

-----------------------------------------------------------------------------
(***************************************************************************)
(* Attempts.  Only a node that is given an address once more would go back *)
(* to READY with its attempts spent, so the argument is about the frames   *)
(* of a pairing: a round begins on a quiet bus, and from then on none of   *)
(* them is under way for as long as an attempt of any node is counted.     *)
(***************************************************************************)
Plain == {f \in Frame : f.command \notin {"DISCOVERY", "ADDRESSING"}}
Tried(a) == Exists(a) /\ node_link[a].retry_attempts # 0
RoundKnown == head_status = "WATERING_CMDS" \/ \E a \in Addr : Tried(a)

TriedIsNotReady ==
  \A a \in Addr : Tried(a) => get_node_status(a) \notin {"READY", "IN_QUEUE"}
NoPairingUnderWay ==
  RoundKnown => head_status # "PAIRING" /\ Carry(Plain, Plain, Plain, Plain)
BudgetInv == TriedIsNotReady /\ NoPairingUnderWay

LEMMA PlainStep ==
  ASSUME SystemInv, Carry(Plain, Plain, Plain, Plain), [SystemNext]_<<systemVars, faulty>>,
         HeadReceive \/ HeadAct => returned' \in Plain \cup {NoFrame}
  PROVE  Carry(Plain, Plain, Plain, Plain)'
<1> DEFINE P == Plain
<1>0. P \in SUBSET Frame /\ QueuesTyped /\ NodesSound BY DEF Plain, SystemInv
<1>1. \A f \in P : OnWire(f) \in P
  <2> TAKE f \in P
  <2>1. f \in Frame /\ f.command # "DISCOVERY" BY DEF Plain
  <2>2. OnWire(f) = f BY <2>1, WireHead, WireReply DEF Frame
  <2> QED BY <2>2
<1>2. ASSUME NEW i \in Nodes, NEW f \in Frame, NEW answer, f \in Frames(incoming[i]),
             Answers(node[i], f, node'[i], answer), answer # NoFrame
      PROVE  answer \in P
  <2>1. f \in P BY <1>2 DEF Carry, Remotes
  <2>2. SoundNode(node[i]) BY <1>0 DEF NodesSound
  <2>3. answer \in Reply BY <1>2, <2>2, AnswerIsSound
  <2>4. \/ answer = AckFrame(node[i].self_addr)
        \/ answer = StatusReply(node[i].self_addr, node[i].status)
    BY <1>2, <2>1 DEF Answers, Plain
  <2> QED BY <2>3, <2>4 DEF Plain, Frame, AckFrame, StatusReply
<1> HIDE DEF P
<1>3. Carry(P, P, P, P) BY DEF P
<1>4. HeadReceive \/ HeadAct => returned' \in P \cup {NoFrame} BY DEF P
<1>5. \A i \in Nodes : \A f \in Frame : \A answer :
         /\ NodeReceive(i) /\ f \in Frames(incoming[i]) /\ f = incoming[i][1]
         /\ Answers(node[i], f, node'[i], answer)
         /\ answer # NoFrame
         => answer \in (IF i = 0 THEN P ELSE P)
  BY <1>2
<1>6. Carry(P, P, P, P)' BY <1>0, <1>1, <1>3, <1>4, <1>5, CarryStep
<1> QED BY <1>6 DEF P

\* What the frames of a round do to the table.
LEMMA PlainHandled ==
  ASSUME IInv, NEW f \in Reply, f \in Plain, handle_incoming_frame(f), BudgetInv,
         head_status # "PAIRING"
  PROVE  TriedIsNotReady' /\ head_status' # "PAIRING" /\ returned' = NoFrame
<1>0. f.command \in {"ACK", "STATUS"}
  BY DEF Reply, Plain, DiscoveryFrame, AddressingFrame, AckFrame, StatusReply
<1>1. CASE handle_ack(f.address)
  <2> DEFINE a == f.address
  <2>1. CASE /\ Exists(a)
             /\ node_link' = [node_link EXCEPT ![a].node_status = "WATERING",
                                               ![a].retry_attempts = 0]
             /\ returned' = NoFrame /\ UNCHANGED roundVars
    <3>1. a \in Addr /\ node_link[a] \in Node BY <2>1, ExistingNode DEF IInv
    <3>2. node_link'[a].retry_attempts = 0 BY <2>1, <3>1 DEF IInv, TypeOK, Node
    <3>3. \A b \in Addr : b # a => node_link'[b] = node_link[b]
      BY <2>1, <3>1 DEF IInv, TypeOK
    <3>4. TriedIsNotReady'
      BY <3>2, <3>3 DEF BudgetInv, TriedIsNotReady, Tried, Exists, get_node_status
    <3> QED BY <2>1, <3>4 DEF roundVars
  <2>2. CASE Panic
    BY <2>2 DEF Panic, BudgetInv, TriedIsNotReady, Tried, Exists, get_node_status, roundVars
  <2> QED BY <1>1, <2>1, <2>2 DEF handle_ack
<1>2. CASE handle_incoming_node_status(f.address, f.status)
  <2> DEFINE a == f.address
  <2>1. CASE /\ Exists(a)
             /\ node_link' = [node_link EXCEPT ![a].retry_attempts = 0,
                                               ![a].node_status = f.status]
             /\ returned' = NoFrame
             /\ \/ advance_active_watering_index(node_link')
                \/ conclude_watering("FAULTY_NODE")
                \/ UNCHANGED roundVars
    <3>1. a \in Addr /\ node_link[a] \in Node BY <2>1, ExistingNode DEF IInv
    <3>2. node_link'[a].retry_attempts = 0 BY <2>1, <3>1 DEF IInv, TypeOK, Node
    <3>3. \A b \in Addr : b # a => node_link'[b] = node_link[b]
      BY <2>1, <3>1 DEF IInv, TypeOK
    <3>4. TriedIsNotReady'
      BY <3>2, <3>3 DEF BudgetInv, TriedIsNotReady, Tried, Exists, get_node_status
    <3>5. head_status' # "PAIRING"
      BY <2>1 DEF advance_active_watering_index, conclude_watering, roundVars
    <3> QED BY <2>1, <3>4, <3>5
  <2>2. CASE Panic
    BY <2>2 DEF Panic, BudgetInv, TriedIsNotReady, Tried, Exists, get_node_status, roundVars
  <2> QED BY <1>2, <2>1, <2>2 DEF handle_incoming_node_status
<1> QED BY <1>0, <1>1, <1>2 DEF handle_incoming_frame

\* A frame leaves the attempts as they are or takes them back.
LEMMA FrameCountsNothing ==
  ASSUME IInv, NEW f \in Reply, handle_incoming_frame(f), ~RoundKnown
  PROVE  ~RoundKnown'
<1>0. head_status # "WATERING_CMDS" /\ \A a \in Addr : ~Tried(a) BY DEF RoundKnown
<1>1. ASSUME NEW key, NEW addr, create_node_pending(key, addr), UNCHANGED roundVars
      PROVE  ~RoundKnown'
  <2>1. CASE UNCHANGED node_link
    BY <1>0, <1>1, <2>1 DEF RoundKnown, Tried, Exists, roundVars
  <2>2. CASE /\ addr \in get_available_address /\ addr # NoIndex
             /\ node_link' = [node_link EXCEPT ![addr] = NewNode(key, addr)]
    <3>1. addr \in Addr BY <2>2, AvailableAddress
    <3>2. \A a \in Addr : node_link'[a] = IF a = addr THEN NewNode(key, addr) ELSE node_link[a]
      BY <2>2, <3>1 DEF IInv, TypeOK
    <3> QED BY <1>0, <1>1, <3>2 DEF RoundKnown, Tried, Exists, roundVars, NewNode
  <2> QED BY <1>1, <2>1, <2>2 DEF create_node_pending
<1>2. ASSUME NEW a, NEW n, Exists(a), node_link' = [node_link EXCEPT ![a] = n],
             n.retry_attempts = 0 \/ n.retry_attempts = node_link[a].retry_attempts,
             head_status' # "WATERING_CMDS"
      PROVE  ~RoundKnown'
  <2>1. a \in Addr BY <1>2 DEF Exists
  <2>2. \A b \in Addr : node_link'[b] = IF b = a THEN n ELSE node_link[b]
    BY <1>2, <2>1 DEF IInv, TypeOK
  <2> QED BY <1>0, <1>2, <2>2 DEF RoundKnown, Tried, Exists
<1>3. CASE Panic BY <1>0, <1>3 DEF Panic, RoundKnown, Tried, Exists, roundVars
<1>4. CASE handle_discovery(f.key) BY <1>1, <1>4 DEF handle_discovery
<1>5. CASE handle_addressing(f.key, f.address)
  <2>1. CASE confirm_node_pending(f.key, f.address) /\ UNCHANGED roundVars
    <3> DEFINE a == f.address
               n == [node_link[a] EXCEPT !.node_status = "READY"]
    <3>1. Exists(a) /\ node_link' = [node_link EXCEPT ![a] = n]
      BY <2>1 DEF confirm_node_pending
    <3>2. node_link[a] \in Node BY <3>1, ExistingNode DEF IInv
    <3>3. n.retry_attempts = node_link[a].retry_attempts BY <3>2 DEF Node
    <3>4. head_status' # "WATERING_CMDS" BY <1>0, <2>1 DEF roundVars
    <3> HIDE DEF n
    <3> QED BY <1>2, <3>1, <3>3, <3>4
  <2> QED BY <1>1, <1>3, <1>5, <2>1 DEF handle_addressing
<1>6. CASE handle_ack(f.address)
  <2>1. CASE /\ Exists(f.address)
             /\ node_link' = [node_link EXCEPT ![f.address].node_status = "WATERING",
                                               ![f.address].retry_attempts = 0]
             /\ UNCHANGED roundVars
    <3> DEFINE a == f.address
               n == [node_link[a] EXCEPT !.node_status = "WATERING", !.retry_attempts = 0]
    <3>1. node_link[a] \in Node BY <2>1, ExistingNode DEF IInv
    <3>2. n.retry_attempts = 0 BY <3>1 DEF Node
    <3>3. node_link' = [node_link EXCEPT ![a] = n] BY <2>1
    <3>4. head_status' # "WATERING_CMDS" BY <1>0, <2>1 DEF roundVars
    <3> HIDE DEF n
    <3> QED BY <1>2, <2>1, <3>2, <3>3, <3>4
  <2> QED BY <1>3, <1>6, <2>1 DEF handle_ack
<1>7. CASE handle_incoming_node_status(f.address, f.status)
  <2>1. CASE /\ Exists(f.address)
             /\ node_link' = [node_link EXCEPT ![f.address].retry_attempts = 0,
                                               ![f.address].node_status = f.status]
             /\ \/ advance_active_watering_index(node_link')
                \/ conclude_watering("FAULTY_NODE")
                \/ UNCHANGED roundVars
    <3> DEFINE a == f.address
               n == [node_link[a] EXCEPT !.retry_attempts = 0, !.node_status = f.status]
    <3>1. node_link[a] \in Node BY <2>1, ExistingNode DEF IInv
    <3>2. n.retry_attempts = 0 BY <3>1 DEF Node
    <3>3. node_link' = [node_link EXCEPT ![a] = n] BY <2>1
    <3>4. head_status' # "WATERING_CMDS"
      BY <1>0, <2>1 DEF advance_active_watering_index, conclude_watering, roundVars
    <3> HIDE DEF n
    <3> QED BY <1>2, <2>1, <3>2, <3>3, <3>4
  <2> QED BY <1>3, <1>7, <2>1 DEF handle_incoming_node_status
<1> QED BY <1>4, <1>5, <1>6, <1>7 DEF handle_incoming_frame

\* A round begins with nodes that have all their attempts (initialize_watering_states).
LEMMA ScheduleKeepsBudget ==
  ASSUME IInv, NEW due, NEW phase, process_watering_schedule(due, phase), TriedIsNotReady
  PROVE  TriedIsNotReady' /\ \A a \in Addr : Tried(a)' => Tried(a)
<1>1. CASE UNCHANGED node_link
  BY <1>1 DEF TriedIsNotReady, Tried, Exists, get_node_status
<1>2. CASE initialize_watering_states(phase)
  <2>1. \A a \in Addr :
          \/ node_link'[a] = node_link[a]
          \/ /\ get_node_status(a) = "READY" /\ Exists(a)
             /\ node_link'[a] = [node_link[a] EXCEPT !.node_status = "IN_QUEUE"]
    BY <1>2 DEF initialize_watering_states, Queued, is_node_watering_this_phase
  <2>2. ASSUME NEW a \in Addr
        PROVE  /\ Tried(a)' => Tried(a)
               /\ Tried(a)' => get_node_status(a)' \notin {"READY", "IN_QUEUE"}
    <3>1. CASE node_link'[a] = node_link[a]
      BY <3>1 DEF TriedIsNotReady, Tried, Exists, get_node_status
    <3>2. CASE /\ get_node_status(a) = "READY" /\ Exists(a)
               /\ node_link'[a] = [node_link[a] EXCEPT !.node_status = "IN_QUEUE"]
      <4>1. node_link[a] \in Node BY <3>2, ExistingNode DEF IInv
      <4>2. node_link[a].retry_attempts = 0 BY <3>2 DEF TriedIsNotReady, Tried
      <4>3. node_link'[a].retry_attempts = 0 BY <3>2, <4>1, <4>2 DEF Node
      <4> QED BY <4>3 DEF Tried
    <3> QED BY <2>1, <3>1, <3>2
  <2> QED BY <2>2 DEF TriedIsNotReady
<1> QED BY <1>1, <1>2 DEF process_watering_schedule

\* An attempt is counted for a node that has its command, and leaves it in that
\* status or gives it up (next_watering_frame).
LEMMA CommandKeepsBudget ==
  ASSUME IInv, next_watering_frame, TriedIsNotReady
  PROVE  TriedIsNotReady' /\ head_status' # "PAIRING"
<1> DEFINE i == active_watering_index
           tries == (node_link[i].retry_attempts + 1) % RetryWidth
<1>1. CASE UNCHANGED node_link /\ conclude_watering("STANDBY")
  BY <1>1 DEF TriedIsNotReady, Tried, Exists, get_node_status, conclude_watering
<1>2. ASSUME Exists(i), NEW n, node_link' = [node_link EXCEPT ![i] = n],
             n.node_status \notin {"READY", "IN_QUEUE"}
      PROVE  TriedIsNotReady'
  <2>1. \A b \in Addr : node_link'[b] = IF b = i THEN n ELSE node_link[b]
    BY <1>2 DEF IInv, TypeOK, Exists
  <2>2. \A b \in Addr : b # i => (Tried(b)' <=> Tried(b)) BY <2>1 DEF Tried, Exists
  <2> QED BY <1>2, <2>1, <2>2 DEF TriedIsNotReady, get_node_status
<1>3. CASE /\ Exists(i) /\ get_node_status(i) = "IN_QUEUE"
           /\ node_link' = [node_link EXCEPT ![i].node_status = "COMMAND_SENT"]
           /\ UNCHANGED roundVars
  <2> DEFINE n == [node_link[i] EXCEPT !.node_status = "COMMAND_SENT"]
  <2>1. node_link[i] \in Node BY <1>3, ExistingNode DEF IInv
  <2>2. n.node_status = "COMMAND_SENT" BY <2>1 DEF Node
  <2>3. node_link' = [node_link EXCEPT ![i] = n] BY <1>3
  <2> HIDE DEF n
  <2>4. TriedIsNotReady' BY <1>2, <1>3, <2>2, <2>3
  <2> QED BY <1>3, <2>4 DEF roundVars, next_watering_frame
<1>4. CASE /\ Exists(i) /\ get_node_status(i) \in {"COMMAND_SENT", "WATERING"}
           /\ RetryNode(i)
  <2>1. node_link[i] \in Node BY <1>4, ExistingNode DEF IInv
  <2>2. CASE /\ node_link' = [node_link EXCEPT ![i].retry_attempts = tries]
             /\ UNCHANGED roundVars
    <3> DEFINE n == [node_link[i] EXCEPT !.retry_attempts = tries]
    <3>1. n.node_status = node_link[i].node_status BY <2>1 DEF Node
    <3>2. node_link' = [node_link EXCEPT ![i] = n] BY <2>2
    <3> HIDE DEF n, tries
    <3>3. TriedIsNotReady' BY <1>2, <1>4, <3>1, <3>2 DEF get_node_status
    <3> QED BY <2>2, <3>3 DEF roundVars, next_watering_frame
  <2>3. CASE /\ node_link' = [node_link EXCEPT ![i].retry_attempts = tries,
                                               ![i].node_status = "ERR"]
             /\ conclude_watering("FAULTY_NODE")
    <3> DEFINE n == [node_link[i] EXCEPT !.retry_attempts = tries, !.node_status = "ERR"]
    <3>1. n.node_status = "ERR" BY <2>1 DEF Node
    <3>2. node_link' = [node_link EXCEPT ![i] = n] BY <2>3
    <3> HIDE DEF n, tries
    <3>3. TriedIsNotReady' BY <1>2, <1>4, <3>1, <3>2
    <3> QED BY <2>3, <3>3 DEF conclude_watering
  <2> QED BY <1>4, <2>2, <2>3 DEF RetryNode
<1> QED BY <1>1, <1>3, <1>4 DEF next_watering_frame

\* What the host asks for changes no count and puts no node in the queue.
LEMMA ServeKeepsBudget ==
  ASSUME IInv, NEW r \in Request, Serve(r), BudgetInv
  PROVE  /\ TriedIsNotReady'
         /\ RoundKnown' => RoundKnown /\ head_status' = head_status
<1>1. ASSUME UNCHANGED <<node_link, head_status>>
      PROVE  /\ TriedIsNotReady'
             /\ RoundKnown' => RoundKnown /\ head_status' = head_status
  BY <1>1 DEF BudgetInv, TriedIsNotReady, RoundKnown, Tried, Exists, get_node_status
<1>2. ASSUME NEW a, Exists(a), NEW n, node_link' = [node_link EXCEPT ![a] = n],
             n.retry_attempts = node_link[a].retry_attempts,
             n.node_status \in {node_link[a].node_status, "INVALID_TIME"},
             UNCHANGED head_status
      PROVE  /\ TriedIsNotReady'
             /\ RoundKnown' => RoundKnown /\ head_status' = head_status
  <2>1. a \in Addr /\ \A b \in Addr : node_link'[b] = IF b = a THEN n ELSE node_link[b]
    BY <1>2 DEF IInv, TypeOK, Exists
  <2>2. \A b \in Addr : Tried(b)' => Tried(b) BY <1>2, <2>1 DEF Tried, Exists
  <2>3. \A b \in Addr : get_node_status(b)' \in {get_node_status(b), "INVALID_TIME"}
    BY <1>2, <2>1 DEF get_node_status
  <2> QED BY <1>2, <2>2, <2>3 DEF BudgetInv, TriedIsNotReady, RoundKnown
<1>3. CASE init_pairing_mode
  <2>1. \A a \in Addr : ~Tried(a)' BY <1>3 DEF init_pairing_mode, Tried, Exists
  <2>2. head_status' = "PAIRING" BY <1>3 DEF init_pairing_mode, conclude_watering
  <2> QED BY <2>1, <2>2 DEF TriedIsNotReady, RoundKnown
<1>4. ASSUME NEW a, NEW d, NEW status, set_node_duration(a, d, status)
      PROVE  /\ TriedIsNotReady'
             /\ RoundKnown' => RoundKnown /\ head_status' = head_status
  <2> DEFINE refused == [node_link[a] EXCEPT !.node_status = "INVALID_TIME"]
             taken == [node_link[a] EXCEPT !.hose_duration = d]
             zero == [refused EXCEPT !.hose_duration = 0]
  <2>1. UNCHANGED head_status BY <1>4 DEF set_node_duration, roundVars
  <2>2. \/ UNCHANGED node_link
        \/ /\ Exists(a)
           /\ \E n \in {refused, taken, zero} : node_link' = [node_link EXCEPT ![a] = n]
    BY <1>4 DEF set_node_duration, change_node
  <2>3. Exists(a) => node_link[a] \in Node BY ExistingNode DEF IInv
  <2>4. ASSUME Exists(a), NEW n \in {refused, taken, zero}
        PROVE  /\ n.retry_attempts = node_link[a].retry_attempts
               /\ n.node_status \in {node_link[a].node_status, "INVALID_TIME"}
    BY <2>3, <2>4 DEF Node
  <2> HIDE DEF refused, taken, zero
  <2> QED BY <1>1, <1>2, <2>1, <2>2, <2>4
<1>5. ASSUME NEW a, NEW c, NEW status, set_watering_cycle(a, c, status)
      PROVE  /\ TriedIsNotReady'
             /\ RoundKnown' => RoundKnown /\ head_status' = head_status
  <2> DEFINE n == [node_link[a] EXCEPT !.water_cycle = c]
  <2>1. UNCHANGED head_status BY <1>5 DEF set_watering_cycle, roundVars
  <2>2. \/ UNCHANGED node_link
        \/ Exists(a) /\ node_link' = [node_link EXCEPT ![a] = n]
    BY <1>5 DEF set_watering_cycle, change_node
  <2>3. Exists(a) => /\ n.retry_attempts = node_link[a].retry_attempts
                     /\ n.node_status = node_link[a].node_status
    BY ExistingNode DEF IInv, Node
  <2> HIDE DEF n
  <2> QED BY <1>1, <1>2, <2>1, <2>2, <2>3
<1>6. CASE UNCHANGED vars BY <1>1, <1>6 DEF vars, roundVars
<1> QED BY <1>3, <1>4, <1>5, <1>6 DEF Serve

LEMMA BudgetStep ==
  SystemInv /\ BudgetInv /\ [SystemNext]_<<systemVars, faulty>> => BudgetInv'
<1> SUFFICES ASSUME SystemInv, BudgetInv, [SystemNext]_<<systemVars, faulty>>
             PROVE  BudgetInv'
  OBVIOUS
<1>0. /\ IInv /\ Mailed /\ NodesSound /\ QueuesTyped
      /\ Carry(HeadFrame, HeadFrame, Reply, Reply)
      /\ TriedIsNotReady /\ NoPairingUnderWay
  BY DEF SystemInv, BudgetInv
\* What is left to show: either no round is known of afterwards, or what is under
\* way was plain and remains so.
<1>1. ASSUME TriedIsNotReady',
             RoundKnown' => /\ head_status' # "PAIRING"
                            /\ Carry(Plain, Plain, Plain, Plain)
                            /\ HeadReceive \/ HeadAct => returned' \in Plain \cup {NoFrame}
      PROVE  BudgetInv'
  <2>1. RoundKnown' => Carry(Plain, Plain, Plain, Plain)' BY <1>1, PlainStep
  <2> QED BY <1>1, <2>1 DEF BudgetInv, NoPairingUnderWay
<1>2. CASE UNCHANGED <<node_link, head_status>> /\ (HeadReceive \/ HeadAct => returned' = NoFrame)
  <2>1. TriedIsNotReady' /\ (RoundKnown' <=> RoundKnown)
    BY <1>0, <1>2 DEF TriedIsNotReady, RoundKnown, Tried, Exists, get_node_status
  <2> QED BY <1>0, <1>1, <1>2, <2>1 DEF NoPairingUnderWay
<1>3. CASE HeadReceive
  <2>1. \/ receive(NoFrame)
        \/ \E f \in Frames(ext_incoming) \cap Frame \cap (Reply \cup Reply) : receive(f)
    BY <1>0, <1>3, HeadTakes
  <2>2. CASE receive(NoFrame) BY <1>2, <2>2 DEF receive, roundVars
  <2>3. ASSUME NEW f \in Reply, f \in Frames(ext_incoming), receive(f) PROVE BudgetInv'
    <3>1. f # NoFrame BY FrameFields DEF Frame
    <3>2. handle_incoming_frame(f) BY <2>3, <3>1 DEF receive
    <3>3. CASE RoundKnown
      <4>1. f \in Plain /\ head_status # "PAIRING" /\ Carry(Plain, Plain, Plain, Plain)
        BY <1>0, <2>3, <3>3 DEF NoPairingUnderWay, Carry
      <4>2. TriedIsNotReady' /\ head_status' # "PAIRING" /\ returned' = NoFrame
        BY <1>0, <3>2, <4>1, PlainHandled DEF BudgetInv
      <4> QED BY <1>1, <4>1, <4>2
    <3>4. CASE ~RoundKnown
      <4>1. ~RoundKnown' BY <1>0, <3>2, <3>4, FrameCountsNothing
      <4> QED BY <1>1, <4>1 DEF RoundKnown, TriedIsNotReady
    <3> QED BY <3>3, <3>4
  <2> QED BY <2>1, <2>2, <2>3
<1>4. ASSUME NEW key, pair(key) PROVE BudgetInv'
  <2>1. /\ head_status = "PAIRING" /\ head_status' \in {"PAIRING", "STANDBY"}
        /\ UNCHANGED node_link
    BY <1>4 DEF pair, process_pairing
  <2>2. ~RoundKnown BY <1>0, <2>1 DEF NoPairingUnderWay
  <2>3. ~RoundKnown' BY <2>1, <2>2 DEF RoundKnown, Tried, Exists
  <2> QED BY <1>1, <2>3 DEF RoundKnown, TriedIsNotReady
<1>5. ASSUME NEW due, NEW phase, due => Quiet, schedule(due, phase) PROVE BudgetInv'
  <2>1. /\ process_watering_schedule(due, phase) /\ returned' = NoFrame
        /\ head_status # "PAIRING"
    BY <1>5 DEF schedule, process_watering_schedule
  <2>2. TriedIsNotReady' /\ \A a \in Addr : Tried(a)' => Tried(a)
    BY <1>0, <2>1, ScheduleKeepsBudget
  <2>3. CASE due
    <3>1. Carry(Plain, Plain, Plain, Plain) BY <1>5, <2>3, NothingUnderWay
    <3>2. head_status' # "PAIRING"
      BY <2>1 DEF process_watering_schedule, initialize_watering_states, roundVars
    <3> QED BY <1>1, <2>1, <2>2, <3>1, <3>2
  <2>4. CASE ~due
    <3>1. UNCHANGED <<node_link, head_status>>
      BY <2>1, <2>4 DEF process_watering_schedule, roundVars
    <3> QED BY <1>2, <2>1, <3>1
  <2> QED BY <2>3, <2>4
<1>6. CASE command
  <2>1. next_watering_frame /\ head_status = "WATERING_CMDS" /\ RoundKnown
    BY <1>6 DEF command, next_watering_frame, RoundKnown
  <2>2. TriedIsNotReady' /\ head_status' # "PAIRING"
    BY <1>0, <2>1, CommandKeepsBudget
  <2>3. returned' \in Plain \cup {NoFrame}
    <3>1. active_watering_index \in Addr \cup {NoIndex} BY <1>0 DEF IInv, TypeOK
    <3>2. \/ returned' = NoFrame
          \/ /\ active_watering_index \in Addr
             /\ \/ \E d \in Durations : returned' = WateringFrame(active_watering_index, d)
                \/ returned' = StatusFrame(active_watering_index)
      BY <1>0, <2>1, <3>1, HeadCommands
    <3> QED BY <3>2 DEF Plain, Frame, HeadFrame, WateringFrame, StatusFrame
  <2> QED BY <1>0, <1>1, <2>1, <2>2, <2>3 DEF NoPairingUnderWay
<1>7. CASE HeadAct
  BY <1>4, <1>5, <1>6, <1>7 DEF HeadAct
<1>8. CASE HeadServe
  <2>0. ~(HeadReceive \/ HeadAct)
    BY <1>8 DEF HeadServe, HeadReceive, HeadAct, receive, pair, schedule, command,
       process_external_request, notify
  <2>1. CASE process_external_request
    <3>1. PICK r \in next_request : Serve(r)
      BY <2>1 DEF process_external_request
    <3>2. r \in Request BY <1>0, <3>1 DEF next_request, ahead, Mailed
    <3>3. TriedIsNotReady' /\ (RoundKnown' => RoundKnown /\ head_status' = head_status)
      BY <1>0, <3>1, <3>2, ServeKeepsBudget DEF BudgetInv
    <3> QED BY <1>0, <1>1, <2>0, <3>3 DEF NoPairingUnderWay
  <2>2. CASE notify BY <1>2, <2>0, <2>2 DEF notify, vars, roundVars
  <2> QED BY <1>8, <2>1, <2>2 DEF HeadServe
<1>9. CASE PowerCycle
  <2>1. /\ node_link' = [a \in Addr |-> NullNode] /\ head_status' = "STANDBY"
    BY <1>9 DEF PowerCycle, restart, Reboot
  <2>2. ~RoundKnown' BY <2>1 DEF RoundKnown, Tried, Exists
  <2> QED BY <1>1, <2>2 DEF RoundKnown, TriedIsNotReady
<1>10. CASE KillNodeTask \/ HostWrite \/ HostRead
  <2>1. UNCHANGED <<node_link, head_status>>
    BY <1>10 DEF KillNodeTask, HostWrite, HostRead, node_task_killed, putRequest,
       status_task, vars, roundVars
  <2>2. CASE KillNodeTask
    <3>1. ~(HeadReceive \/ HeadAct)
      BY <2>2 DEF KillNodeTask, HeadReceive, HeadAct, receive, pair, schedule, command,
         node_task_killed
    <3> QED BY <1>2, <2>1, <3>1
  <2>3. CASE HostWrite \/ HostRead
    <3>1. pc' = pc
      BY <2>3 DEF HostWrite, HostRead, putRequest, status_task
    <3>2. ~(HeadReceive \/ HeadAct)
      BY <3>1 DEF HeadReceive, HeadAct, receive, pair, schedule, command, compare_statuses
    <3> QED BY <1>2, <2>1, <3>2
  <2> QED BY <1>10, <2>2, <2>3
<1>11. CASE UNCHANGED allVars
  <2>1. UNCHANGED <<node_link, head_status, pc>>
    BY <1>11 DEF allVars, vars, roundVars, taskVars
  <2>2. ~(HeadReceive \/ HeadAct)
    BY <2>1 DEF HeadReceive, HeadAct, receive, pair, schedule, command, compare_statuses
  <2> QED BY <1>2, <2>1, <2>2
<1>12. CASE UartSend \/ UartLocal \/ (\E i \in Remotes : UartReply(i))
            \/ (\E i \in Nodes : NodeReceive(i) \/ NodeExpire(i))
            \/ UNCHANGED <<systemVars, faulty>>
  <2>1. UNCHANGED allVars
    BY <1>12 DEF UartSend, UartLocal, UartReply, NodeReceive, NodeExpire, systemVars
  <2> QED BY <1>11, <2>1
<1> QED BY <1>3, <1>7, <1>8, <1>9, <1>10, <1>12 DEF SystemNext, HeadSteps

\* Every node enters a round with all its attempts, whatever frames were lost or
\* repeated, however the rounds before it ended and whenever the host has asked
\* for another pairing (handle_ack, handle_incoming_node_status,
\* initialize_watering_states).
THEOREM BudgetIsFresh == SystemSpec => []FreshRetryBudget
<1>1. SystemInit => BudgetInv
  <2>1. SystemInit => \A a \in Addr : ~Tried(a)
    BY DEF SystemInit, TaskInit, Init, Tried, Exists
  <2>2. SystemInit => head_status = "STANDBY" BY DEF SystemInit, TaskInit, Init
  <2> QED BY <2>1, <2>2 DEF BudgetInv, TriedIsNotReady, NoPairingUnderWay, RoundKnown
<1>2. BudgetInv => FreshRetryBudget
  <2> SUFFICES ASSUME BudgetInv, NEW a \in Addr, get_node_status(a) = "IN_QUEUE"
               PROVE  node_link[a].retry_attempts = 0
    BY DEF FreshRetryBudget
  <2>1. Exists(a) BY DEF Exists, get_node_status, NullNode
  <2> QED BY <2>1 DEF BudgetInv, TriedIsNotReady, Tried
<1> QED BY <1>1, <1>2, BudgetStep, SystemInvariance, PTL DEF SystemSpec

-----------------------------------------------------------------------------
(***************************************************************************)
(* Addresses.  The host may ask for another pairing, which forgets the     *)
(* table, only while nothing is under way.  Then every address under way   *)
(* or with a node is one of the table, and with its key; so no frame meets *)
(* a table that does not have its node.  The key of a node is that of its  *)
(* first DISCOVERY.  It is not 0 for the head's own node, which has the    *)
(* frame as it is; it is 0 for all others, which have it over the wire.    *)
(* Until its own node has a key the head has had no answer, because the    *)
(* line has no power.                                                      *)
(***************************************************************************)
NoNodes == \A a \in Addr : ~Exists(a)
Agreed(f) ==
  /\ f.command # "DISCOVERY" => Exists(f.address)
  /\ f.command = "ADDRESSING" => node_link[f.address].id_key = f.key
ToOwn    == {f \in HeadFrame : Agreed(f) /\ (f.command = "DISCOVERY" => f.key # 0)}
ToLine   == {f \in HeadFrame : Agreed(f) /\ (f.command = "DISCOVERY" => f.key = 0)}
FromOwn  == {f \in Reply : Agreed(f) /\ (f.command = "DISCOVERY" => f.key # 0)}
FromLine == {f \in Reply : Agreed(f) /\ (f.command = "DISCOVERY" => f.key = 0)}
ToNode(i)   == IF i = 0 THEN ToOwn ELSE ToLine \cup FromLine
FromNode(i) == IF i = 0 THEN FromOwn ELSE FromLine
Asking   == {f \in HeadFrame : f.command = "DISCOVERY" /\ f.key # 0}

FramesAgree == Carry(ToOwn, ToLine, FromOwn, FromLine)
\* A pairing is asked for when nothing is under way, or at power-on.
PairingIsQuiet ==
  PairingRequest \in extRequests =>
    /\ Quiet
    /\ \/ pc = "requests"
       \/ NoNodes /\ head_status # "PAIRING" /\ active_watering_index = NoIndex
ClearingIsQuiet == pc = "kill_node_task" => Quiet /\ NoNodes
\* The search has not passed the slot of a pairing.
PairingIsAhead == slot \in 0 .. to_i["INIT_PAIRING"]
NodesAgree ==
  pc # "kill_node_task" => \A i \in Nodes : node[i].self_addr # ADDR_UNSET =>
    /\ Exists(node[i].self_addr)
    /\ node_link[node[i].self_addr].id_key = node[i].self_key
RemotesHaveNoKey == \A i \in Remotes : node[i].self_key = 0
OwnNodeFirst ==
  node[0].self_key = 0 =>
    node[0] = Line!NewSelfNode /\ NoNodes /\ Carry(Asking, {}, {}, {})
\* No node down the line has the address of the head's own.
OwnAddress ==
  \A i \in Remotes :
    node[0].self_addr # ADDR_UNSET => node[i].self_addr # node[0].self_addr
\* If there is a panic, the flash is the reason.
OnlyFlashPanics == panicked => ~mounted

AgreementInv ==
  /\ FramesAgree /\ PairingIsQuiet /\ PairingIsAhead /\ ClearingIsQuiet /\ NodesAgree
  /\ RemotesHaveNoKey /\ OwnNodeFirst /\ OwnAddress /\ OnlyFlashPanics

-----------------------------------------------------------------------------
\* The nodes of the table stay, at their addresses and with their keys.
Keeps ==
  \A a \in Addr : Exists(a) => Exists(a)' /\ node_link'[a].id_key = node_link[a].id_key

LEMMA SameKeeps ==
  ASSUME SameRegistry
  PROVE  Keeps /\ (NoNodes => NoNodes')
BY DEF SameRegistry, Keeps, NoNodes

LEMMA KeptAgreement ==
  ASSUME Keeps
  PROVE  /\ ToOwn \subseteq ToOwn' /\ ToLine \subseteq ToLine'
         /\ FromOwn \subseteq FromOwn' /\ FromLine \subseteq FromLine'
<1>1. ASSUME NEW f \in Frame, Agreed(f) PROVE Agreed(f)'
  <2>1. f.command # "DISCOVERY" => f.address \in Addr BY FrameFields
  <2>2. f' = f OBVIOUS
  <2> QED BY <1>1, <2>1 DEF Keeps, Agreed
<1> QED BY <1>1 DEF ToOwn, ToLine, FromOwn, FromLine, Frame

\* The head gives a key one address, and no frame it gets is of a node that the
\* table does not have (create_node_pending, confirm_node_pending).
LEMMA CreatedAgrees ==
  ASSUME IInv, NEW key \in Keys, NEW addr, create_node_pending(key, addr)
  PROVE  /\ Keeps
         /\ addr # NoIndex => Exists(addr)' /\ node_link'[addr].id_key = key
<1>1. CASE addr \in get_node_addr_by_key(key) \ {NoIndex} /\ UNCHANGED node_link
  <2>1. {a \in Addr : Exists(a) /\ node_link[a].id_key = key} \in SUBSET Addr OBVIOUS
  <2>2. addr \in {a \in Addr : Exists(a) /\ node_link[a].id_key = key}
    BY <1>1, <2>1, FirstOfSpec DEF get_node_addr_by_key
  <2> QED BY <1>1, <2>2 DEF Keeps, Exists
<1>2. CASE UNCHANGED node_link /\ addr = NoIndex BY <1>2 DEF Keeps, Exists
<1>3. CASE /\ addr \in get_available_address /\ addr # NoIndex
           /\ node_link' = [node_link EXCEPT ![addr] = NewNode(key, addr)]
  <2>1. addr \in Addr /\ ~Exists(addr) BY <1>3, AvailableAddress
  <2>2. \A a \in Addr : node_link'[a] = IF a = addr THEN NewNode(key, addr) ELSE node_link[a]
    BY <1>3, <2>1 DEF IInv, TypeOK
  <2>3. NewNode(key, addr) # NullNode /\ NewNode(key, addr).id_key = key
    BY DEF NewNode, NullNode
  <2> QED BY <2>1, <2>2, <2>3 DEF Keeps, Exists
<1> QED BY <1>1, <1>2, <1>3 DEF create_node_pending

LEMMA PanicKnown ==
  ASSUME IInv, ~panicked, UNCHANGED panicked
  PROVE  panicked' = FALSE
BY DEF IInv, TypeOK

LEMMA RoundFrameSame ==
  ASSUME IInv, NEW f \in Reply, Exists(f.address),
         \/ f.command = "ACK" /\ handle_ack(f.address)
         \/ f.command = "STATUS" /\ handle_incoming_node_status(f.address, f.status)
  PROVE  SameRegistry
<1> DEFINE a == f.address
<1>1. node_link[a] \in Node BY ExistingNode DEF IInv
<1>2. ASSUME NEW n, node_link' = [node_link EXCEPT ![a] = n],
             n.node_status \in NodeStatus, n.id_key = node_link[a].id_key
      PROVE  SameRegistry
  BY <1>2, UpdatedNode
<1>3. CASE f.command = "ACK" /\ handle_ack(a)
  <2> DEFINE n == [node_link[a] EXCEPT !.node_status = "WATERING", !.retry_attempts = 0]
  <2>1. node_link' = [node_link EXCEPT ![a] = n] BY <1>3 DEF handle_ack
  <2>2. n.node_status \in NodeStatus /\ n.id_key = node_link[a].id_key
    BY <1>1 DEF Node, NodeStatus
  <2> HIDE DEF n
  <2> QED BY <1>2, <2>1, <2>2
<1>4. CASE f.command = "STATUS" /\ handle_incoming_node_status(a, f.status)
  <2> DEFINE n == [node_link[a] EXCEPT !.retry_attempts = 0, !.node_status = f.status]
  <2>1. node_link' = [node_link EXCEPT ![a] = n] BY <1>4 DEF handle_incoming_node_status
  <2>2. f.status \in NodeStatus
    BY <1>4 DEF Reply, DiscoveryFrame, AddressingFrame, AckFrame, StatusReply,
       ReportedStatus, NodeStatus
  <2>3. n.node_status \in NodeStatus /\ n.id_key = node_link[a].id_key
    BY <1>1, <2>2 DEF Node
  <2> HIDE DEF n
  <2> QED BY <1>2, <2>1, <2>3
<1> QED BY <1>3, <1>4

LEMMA AgreedHandled ==
  ASSUME IInv, NEW f \in Reply, Agreed(f), handle_incoming_frame(f)
  PROVE  /\ Keeps /\ panicked' = FALSE /\ UNCHANGED mounted
         /\ returned' # NoFrame =>
              /\ returned' \in HeadFrame /\ returned'.command # "DISCOVERY"
              /\ Agreed(returned)'
<1>0. f \in Frame /\ f \in IncomingFrame BY RepliesArrive DEF Frame
<1>1. /\ f.command \in {"DISCOVERY", "ADDRESSING"} => f.key \in Keys
      /\ f.command # "DISCOVERY" => f.address \in Addr
  BY <1>0, FrameFields
<1>2. ~panicked /\ UNCHANGED mounted BY DEF handle_incoming_frame, nvs
<1>3. returned' \in HeadFrame \cup {NoFrame} BY HeadAnswers
<1>4. CASE f.command = "DISCOVERY" /\ handle_discovery(f.key)
  <2>1. PICK addr : /\ create_node_pending(f.key, addr)
                    /\ returned' = IF addr = NoIndex THEN NoFrame
                                   ELSE AddressingFrame(f.key, addr)
                    /\ UNCHANGED panicked
    BY <1>4 DEF handle_discovery, create_addressing_frame
  <2>2. Keeps /\ (addr # NoIndex => Exists(addr)' /\ node_link'[addr].id_key = f.key)
    BY <1>1, <1>4, <2>1, CreatedAgrees
  <2>3. CASE addr = NoIndex BY <1>2, <2>1, <2>2, <2>3, PanicKnown
  <2>4. CASE addr # NoIndex
    <3>1. returned' = AddressingFrame(f.key, addr) BY <2>1, <2>4
    <3>2. /\ returned'.command = "ADDRESSING" /\ returned'.address = addr
          /\ returned'.key = f.key
      BY <3>1 DEF AddressingFrame
    <3>3. Agreed(returned)' BY <2>2, <2>4, <3>2 DEF Agreed
    <3> QED BY <1>2, <1>3, <2>1, <2>2, <3>2, <3>3, PanicKnown
  <2> QED BY <2>3, <2>4
<1>5. CASE f.command = "ADDRESSING" /\ handle_addressing(f.key, f.address)
  <2>1. Exists(f.address) /\ f.address \in Addr /\ node_link[f.address].id_key = f.key
    BY <1>1, <1>5 DEF Agreed
  <2>2. /\ node_link' = [node_link EXCEPT ![f.address].node_status = "READY"]
        /\ returned' = AckFrame(f.address) /\ UNCHANGED panicked
    BY <1>5, <2>1 DEF handle_addressing, confirm_node_pending
  <2>3. Keeps
    <3> DEFINE a == f.address
               n == [node_link[a] EXCEPT !.node_status = "READY"]
    <3>1. node_link[a] \in Node BY <2>1, ExistingNode DEF IInv
    <3>2. n.id_key = node_link[a].id_key /\ n.node_status \in NodeStatus
      BY <3>1 DEF Node, NodeStatus
    <3>3. node_link' = [node_link EXCEPT ![a] = n] BY <2>2
    <3> HIDE DEF n
    <3>4. SameRegistry BY <2>1, <3>2, <3>3, UpdatedNode
    <3> QED BY <3>4, SameKeeps
  <2>4. /\ returned'.command = "ACK" /\ returned'.address = f.address BY <2>2 DEF AckFrame
  <2>5. Agreed(returned)' BY <2>1, <2>3, <2>4 DEF Agreed, Keeps
  <2> QED BY <1>2, <1>3, <2>2, <2>3, <2>4, <2>5, PanicKnown
<1>6. CASE \/ f.command = "ACK" /\ handle_ack(f.address)
           \/ f.command = "STATUS" /\ handle_incoming_node_status(f.address, f.status)
  <2>1. Exists(f.address) BY <1>6 DEF Agreed
  <2>2. UNCHANGED panicked /\ returned' = NoFrame
    BY <1>6, <2>1 DEF handle_ack, handle_incoming_node_status
  <2>3. SameRegistry BY <1>0, <1>6, <2>1, RoundFrameSame
  <2> QED BY <1>2, <2>2, <2>3, SameKeeps, PanicKnown
<1> QED BY <1>4, <1>5, <1>6 DEF handle_incoming_frame

\* A step of the head's loop between two of its queues.
LEMMA ReceiveAgrees ==
  ASSUME SystemInv, AgreementInv, HeadReceive
  PROVE  /\ Keeps /\ panicked' = FALSE
         /\ returned' \in ToOwn' \cup {NoFrame}
         /\ NoNodes /\ Carry(Asking, {}, {}, {}) => NoNodes' /\ returned' = NoFrame
         /\ Quiet => receive(NoFrame) /\ UNCHANGED <<node_link, head_status, active_watering_index>>
<1>0. /\ IInv /\ QueuesTyped /\ Carry(HeadFrame, HeadFrame, Reply, Reply) /\ FramesAgree
  BY DEF SystemInv, AgreementInv
<1>1. ASSUME NEW H, NEW W, NEW R0, NEW R, Carry(H, W, R0, R)
      PROVE  \/ receive(NoFrame)
             \/ \E f \in Frames(ext_incoming) \cap Frame \cap (R0 \cup R) : receive(f)
  BY <1>0, <1>1, HeadTakes
<1>2. CASE receive(NoFrame)
  <2>1. UNCHANGED <<node_link, head_status, active_watering_index, panicked>>
        /\ ~panicked /\ returned' = NoFrame
    BY <1>2 DEF receive, roundVars
  <2>2. panicked' = FALSE BY <1>0, <2>1, PanicKnown
  <2>3. Keeps /\ (NoNodes => NoNodes') BY <2>1 DEF Keeps, NoNodes, Exists
  <2> QED BY <1>2, <2>1, <2>2, <2>3
<1>3. CASE ~receive(NoFrame)
  <2>1. PICK f \in Frames(ext_incoming) : f \in FromOwn \cup FromLine /\ receive(f)
    BY <1>0, <1>1, <1>3 DEF FramesAgree
  <2>2. f \in Reply /\ Agreed(f) /\ f # NoFrame
    BY <2>1, FrameFields DEF FromOwn, FromLine, Frame
  <2>3. handle_incoming_frame(f) BY <2>1, <2>2 DEF receive
  <2>4. /\ Keeps /\ panicked' = FALSE
        /\ returned' # NoFrame =>
              /\ returned' \in HeadFrame /\ returned'.command # "DISCOVERY"
              /\ Agreed(returned)'
    BY <1>0, <2>2, <2>3, AgreedHandled
  <2>5. returned' # NoFrame => returned' \in ToOwn' BY <2>4 DEF ToOwn
  <2>6. ~Carry(Asking, {}, {}, {}) BY <2>1 DEF Carry
  <2>7. ~Quiet
    <3>1. ext_incoming # <<>> BY <2>1 DEF Frames
    <3> QED BY <3>1 DEF Quiet
  <2> QED BY <2>4, <2>5, <2>6, <2>7
<1> QED BY <1>2, <1>3

LEMMA ActAgrees ==
  ASSUME SystemInv, AgreementInv, HeadAct
  PROVE  /\ Keeps /\ UNCHANGED <<panicked, mounted>>
         /\ returned' \in ToOwn' \cup {NoFrame}
         /\ NoNodes => NoNodes' /\ returned' \in Asking \cup {NoFrame}
         /\ NoNodes /\ head_status # "PAIRING" /\ active_watering_index = NoIndex =>
              /\ returned' = NoFrame
              /\ head_status' # "PAIRING" /\ active_watering_index' = NoIndex
<1>0. IInv BY DEF SystemInv
<1>1. CASE \E key \in Keys \ {0} : pair(key)
  <2>1. /\ UNCHANGED <<node_link, panicked, mounted>> /\ head_status = "PAIRING"
        /\ \/ returned' = NoFrame
           \/ \E key \in Keys \ {0} : returned' = DiscoveryFrame(key, 0)
    BY <1>1 DEF pair, process_pairing, nvs
  <2>2. returned' \in Asking \cup {NoFrame}
    BY <2>1 DEF Asking, HeadFrame, DiscoveryFrame
  <2>3. Asking \subseteq ToOwn' BY DEF Asking, ToOwn, Agreed
  <2>4. Keeps /\ (NoNodes => NoNodes') BY <2>1 DEF Keeps, NoNodes, Exists
  <2> QED BY <2>1, <2>2, <2>3, <2>4
<1>2. ASSUME NEW due, NEW phase, schedule(due, phase)
      PROVE  /\ Keeps /\ (NoNodes => NoNodes') /\ UNCHANGED <<panicked, mounted>>
             /\ returned' = NoFrame
             /\ NoNodes /\ head_status # "PAIRING" /\ active_watering_index = NoIndex =>
                  head_status' # "PAIRING" /\ active_watering_index' = NoIndex
  <2>1. process_watering_schedule(due, phase) /\ returned' = NoFrame
        /\ UNCHANGED <<panicked, mounted>>
    BY <1>2 DEF schedule, process_watering_schedule, nvs
  <2>2. Keeps /\ (NoNodes => NoNodes') BY <1>0, <2>1, ScheduledSame, SameKeeps
  <2>3. ASSUME NoNodes, head_status # "PAIRING", active_watering_index = NoIndex
        PROVE  head_status' # "PAIRING" /\ active_watering_index' = NoIndex
    <3>1. Queued(phase) = {}
      BY <2>3 DEF Queued, is_node_watering_this_phase, NoNodes
    <3>2. FirstOf({}) = {NoIndex} BY DEF FirstOf
    <3> QED BY <2>1, <2>3, <3>1, <3>2
            DEF process_watering_schedule, initialize_watering_states, roundVars
  <2> QED BY <2>1, <2>2, <2>3
<1>3. CASE command
  <2>1. next_watering_frame /\ UNCHANGED <<panicked, mounted>>
    BY <1>3 DEF command, next_watering_frame, nvs
  <2>2. Keeps /\ (NoNodes => NoNodes') BY <1>0, <2>1, CommandedSame, SameKeeps
  <2>3. \/ returned' = NoFrame
        \/ \E a \in Addr : /\ Exists(a)
                          /\ \/ \E d \in Durations : returned' = WateringFrame(a, d)
                             \/ returned' = StatusFrame(a)
    <3>1. Exists(active_watering_index) => active_watering_index \in Addr BY DEF Exists
    <3> QED BY <1>0, <2>1, <3>1, HeadCommands
  <2>4. NoNodes => returned' = NoFrame BY <2>3 DEF NoNodes
  <2>5. returned' \in ToOwn' \cup {NoFrame}
    <3>1. ASSUME NEW a \in Addr, Exists(a),
                 \/ \E d \in Durations : returned' = WateringFrame(a, d)
                 \/ returned' = StatusFrame(a)
          PROVE  returned' \in ToOwn'
      <4>1. Exists(a)' BY <2>2, <3>1 DEF Keeps
      <4>2. /\ returned'.command \in {"INIT_WATER_DURATIONS", "STATUS"}
            /\ returned'.address = a /\ returned' \in HeadFrame
        BY <3>1 DEF WateringFrame, StatusFrame, HeadFrame
      <4>3. PICK f : f = returned' OBVIOUS
      <4>4. Agreed(f)' BY <4>1, <4>2, <4>3 DEF Agreed, Exists
      <4>5. f \in ToOwn' BY <4>2, <4>3, <4>4 DEF ToOwn
      <4> QED BY <4>3, <4>5
    <3> QED BY <2>3, <3>1
  <2>6. ASSUME NoNodes, active_watering_index = NoIndex
        PROVE  head_status' # "PAIRING" /\ active_watering_index' = NoIndex
    BY <2>1, <2>6 DEF next_watering_frame, conclude_watering
  <2> QED BY <2>1, <2>2, <2>4, <2>5, <2>6
<1> QED BY <1>1, <1>2, <1>3 DEF HeadAct

LEMMA ChangeKnown ==
  ASSUME NEW a, NEW n, change_node(a, n)
  PROVE  UNCHANGED mounted /\ (panicked' => ~mounted' \/ panicked)
<1>1. UNCHANGED mounted BY DEF change_node, save_durations, nvs
<1>2. panicked' => ~mounted \/ panicked
  <2>1. CASE mounted BY <2>1 DEF change_node
  <2>2. CASE ~mounted BY <2>2
  <2> QED BY <2>1, <2>2
<1> QED BY <1>1, <1>2

LEMMA ServeAgrees ==
  ASSUME SystemInv, NEW r \in Request, Serve(r)
  PROVE  /\ panicked' => ~mounted' \/ panicked
         /\ UNCHANGED mounted
         /\ r.type # "INIT_PAIRING" => pc' = pc /\ Keeps /\ (NoNodes => NoNodes')
         /\ r.type = "INIT_PAIRING" =>
              r = PairingRequest /\ pc' = "kill_node_task" /\ NoNodes'
<1>0. IInv BY DEF SystemInv
<1>1. CASE init_pairing_mode /\ pc' = "kill_node_task" /\ r.type = "INIT_PAIRING"
  <2>1. r = PairingRequest BY <1>1 DEF Request, PairingRequest
  <2>2. UNCHANGED <<panicked, mounted>> BY <1>1 DEF init_pairing_mode, nvs
  <2>3. NoNodes' BY <1>1 DEF init_pairing_mode, NoNodes, Exists
  <2> QED BY <1>1, <2>1, <2>2, <2>3
<1>2. ASSUME NEW a, NEW d, NEW s, set_node_duration(a, d, s)
      PROVE  Keeps /\ (NoNodes => NoNodes') /\ UNCHANGED mounted
             /\ (panicked' => ~mounted' \/ panicked)
  <2>1. UNCHANGED <<mounted, panicked>> \/ (\E n : change_node(a, n))
    BY <1>2 DEF set_node_duration, nvs
  <2>2. UNCHANGED mounted /\ (panicked' => ~mounted' \/ panicked)
    BY <2>1, ChangeKnown
  <2> QED BY <1>0, <1>2, <2>2, DurationSame, SameKeeps
<1>3. ASSUME NEW a, NEW c, NEW s, set_watering_cycle(a, c, s)
      PROVE  Keeps /\ (NoNodes => NoNodes') /\ UNCHANGED mounted
             /\ (panicked' => ~mounted' \/ panicked)
  <2>1. UNCHANGED <<mounted, panicked>> \/ (\E n : change_node(a, n))
    BY <1>3 DEF set_watering_cycle, nvs
  <2>2. UNCHANGED mounted /\ (panicked' => ~mounted' \/ panicked)
    BY <2>1, ChangeKnown
  <2> QED BY <1>0, <1>3, <2>2, CycleSame, SameKeeps
<1>4. ASSUME UNCHANGED vars
      PROVE  Keeps /\ (NoNodes => NoNodes') /\ UNCHANGED mounted
             /\ (panicked' => ~mounted' \/ panicked)
  BY <1>4 DEF vars, nvs, Keeps, NoNodes, Exists
<1> QED BY <1>1, <1>2, <1>3, <1>4 DEF Serve

\* What node i has become, and its answer, agree with the table.
Keeping(i, m, answer) ==
  /\ answer # NoFrame => answer \in FromNode(i)
  /\ m.self_addr # ADDR_UNSET =>
       Exists(m.self_addr) /\ node_link[m.self_addr].id_key = m.self_key
  /\ i \in Remotes => m.self_key = 0
  /\ i = 0 /\ m.self_key = 0 => m = node[0] /\ answer = NoFrame

\* A node keeps to the table.
LEMMA NodeAgrees ==
  ASSUME SystemInv, AgreementInv, NEW i \in Nodes, incoming[i] # <<>>,
         NEW msg, msg \in ToNode(i),
         NEW m, NEW answer, Answers(node[i], msg, m, answer)
  PROVE  Keeping(i, m, answer)
<1> DEFINE n == node[i]
<1> USE DEF Keeping
<1>0. /\ SoundNode(n) /\ n \in NodeType BY DEF SystemInv, NodesSound
<1>1. pc # "kill_node_task"
  BY DEF AgreementInv, ClearingIsQuiet, Quiet, Arrived
<1>2. n.self_addr # ADDR_UNSET =>
        Exists(n.self_addr) /\ node_link[n.self_addr].id_key = n.self_key
  BY <1>1 DEF AgreementInv, NodesAgree
<1>3. i \in Remotes => n.self_key = 0 BY DEF AgreementInv, RemotesHaveNoKey
<1>4. i = 0 /\ n.self_key = 0 => n.self_addr = ADDR_UNSET /\ NoNodes
  BY DEF AgreementInv, OwnNodeFirst, Line!NewSelfNode, Line!ADDR_UNSET, ADDR_UNSET
<1>5. /\ Agreed(msg) /\ msg \in Frame
      /\ msg.command = "DISCOVERY" => (i = 0 <=> msg.key # 0)
  BY DEF ToNode, ToOwn, ToLine, FromLine, Frame
<1>6. msg.command # "DISCOVERY" => msg.address \in Addr BY <1>5, FrameFields
<1>7. answer # NoFrame => answer \in Reply BY <1>0, <1>5, AnswerIsSound
<1>8. i \in Remotes <=> i # 0 BY DEF Remotes
<1>9. CASE m = n /\ answer = NoFrame BY <1>2, <1>3, <1>9
<1>10. CASE /\ n.status = "INITIALIZING" /\ msg.command = "DISCOVERY"
            /\ m = [n EXCEPT !.self_key = IF n.self_key = 0 THEN msg.key ELSE n.self_key]
            /\ answer = DiscoveryFrame(m.self_key, 2)
  <2>1. /\ m.self_key = IF n.self_key = 0 THEN msg.key ELSE n.self_key
        /\ m.self_addr = n.self_addr
    BY <1>0, <1>10 DEF NodeType
  <2>2. i # 0 => m.self_key = 0 /\ m.self_key = n.self_key
    BY <1>3, <1>5, <1>8, <1>10, <2>1
  <2>3. i = 0 => m.self_key # 0 BY <1>5, <1>10, <2>1
  <2>4. i = 0 /\ m.self_addr # ADDR_UNSET => m.self_key = n.self_key
    BY <1>4, <2>1
  <2>5. answer.command = "DISCOVERY" /\ answer.key = m.self_key
    BY <1>10 DEF DiscoveryFrame
  <2>6. answer \in Reply BY <1>7, <2>5 DEF NoFrame
  <2>7. answer \in FromNode(i)
    BY <2>2, <2>3, <2>5, <2>6 DEF FromNode, FromOwn, FromLine, Agreed
  <2> QED BY <1>2, <1>8, <2>1, <2>2, <2>3, <2>4, <2>7
<1>11. CASE /\ n.status = "INITIALIZING" /\ msg.command = "ADDRESSING"
            /\ msg.key = n.self_key
            /\ m = [n EXCEPT !.self_addr = msg.address]
            /\ answer = AddressingFrame(n.self_key, msg.address)
  <2>1. m.self_key = n.self_key /\ m.self_addr = msg.address
    BY <1>0, <1>11 DEF NodeType
  <2>2. Exists(msg.address) /\ node_link[msg.address].id_key = msg.key
    BY <1>5, <1>11 DEF Agreed
  <2>3. ~(i = 0 /\ n.self_key = 0) BY <1>4, <2>2 DEF NoNodes, Exists
  <2>4. /\ answer.command = "ADDRESSING" /\ answer.address = msg.address
        /\ answer.key = msg.key
    BY <1>11 DEF AddressingFrame
  <2>5. answer \in FromOwn /\ answer \in FromLine
    <3>1. answer \in Reply BY <1>7, <2>4 DEF NoFrame
    <3> QED BY <2>2, <2>4, <3>1 DEF FromOwn, FromLine, Agreed
  <2> QED BY <1>3, <1>11, <2>1, <2>2, <2>3, <2>5 DEF FromNode
<1>12. CASE /\ AddressedTo(n, msg)
            /\ \/ answer = NoFrame \/ answer = AckFrame(n.self_addr)
               \/ answer = StatusReply(n.self_addr, n.status)
            /\ m.self_key = n.self_key /\ m.self_addr = n.self_addr
  <2>1. n.self_addr # ADDR_UNSET /\ Exists(n.self_addr) BY <1>2, <1>12 DEF AddressedTo
  <2>2. answer # NoFrame => /\ answer.command \in {"ACK", "STATUS"}
                            /\ answer.address = n.self_addr
    BY <1>12 DEF AckFrame, StatusReply
  <2>3. answer # NoFrame => answer \in FromOwn /\ answer \in FromLine
    BY <1>7, <2>1, <2>2 DEF FromOwn, FromLine, Agreed
  <2>4. ~(i = 0 /\ n.self_key = 0) BY <1>4, <2>1
  <2> QED BY <1>2, <1>3, <1>12, <2>3, <2>4 DEF FromNode
<1>13. CASE /\ AddressedTo(n, msg) /\ msg.command = "ACK"
            /\ \/ m = [n EXCEPT !.status = "READY", !.downstream = TRUE]
               \/ m = [n EXCEPT !.status = "READY"]
            /\ answer = NoFrame
  BY <1>0, <1>12, <1>13 DEF NodeType
<1>14. CASE /\ AddressedTo(n, msg)
            /\ \/ m = n
               \/ m = [n EXCEPT !.status = "WATERING", !.solenoid = TRUE]
               \/ m = [n EXCEPT !.status = "READY", !.solenoid = FALSE]
               \/ m = [n EXCEPT !.status = "ERR"]
            /\ \/ answer = AckFrame(n.self_addr)
               \/ answer = StatusReply(n.self_addr, n.status)
  BY <1>0, <1>12, <1>14 DEF NodeType
<1> QED BY <1>9, <1>10, <1>11, <1>13, <1>14 DEF Answers

-----------------------------------------------------------------------------
\* What moves a frame finds one; what else the line and the host do moves none.
Bus == UartSend \/ UartLocal \/ \E i \in Remotes : UartReply(i)
Aside ==
  \/ HostWrite \/ HostRead \/ (\E i \in Nodes : NodeExpire(i))
  \/ UNCHANGED <<systemVars, faulty>>

LEMMA SystemSteps ==
  ASSUME SystemInv, [SystemNext]_<<systemVars, faulty>>
  PROVE  \/ HeadReceive \/ HeadAct \/ KillNodeTask \/ PowerCycle \/ Bus \/ Aside
         \/ notify /\ UNCHANGED busVars
         \/ \E r \in Request : /\ Serve(r) /\ pc = "requests" /\ UNCHANGED busVars
                               /\ r \in extRequests /\ extRequests' = extRequests \ {r}
         \/ \E i \in Nodes : NodeReceive(i)
<1>1. CASE HeadServe /\ process_external_request
  <2>1. PICK r \in next_request :
          Serve(r) /\ pc = "requests" /\ extRequests' = extRequests \ {r}
    BY <1>1 DEF process_external_request
  <2>2. r \in Request /\ r \in extRequests BY <2>1 DEF next_request, ahead, SystemInv, Mailed
  <2>3. UNCHANGED busVars BY <1>1 DEF HeadServe
  <2> QED BY <2>1, <2>2, <2>3
<1>2. CASE HeadServe /\ notify BY <1>2 DEF HeadServe
<1> QED BY <1>1, <1>2 DEF SystemNext, HeadSteps, HeadServe, Bus, Aside

LEMMA BusFinds ==
  ASSUME Bus
  PROVE  ~Quiet /\ UNCHANGED <<vars, taskVars, node>>
<1>1. UNCHANGED <<vars, taskVars, node>> BY DEF Bus, UartSend, UartLocal, UartReply, allVars
<1>2. ext_outgoing # <<>> \/ \E i \in Nodes : outgoing[i] # <<>>
  BY NodesAssumption DEF Bus, UartSend, UartLocal, UartReply, Remotes
<1> QED BY <1>1, <1>2 DEF Quiet, Arrived

LEMMA AsideMovesNothing ==
  ASSUME SystemInv, Aside
  PROVE  /\ UNCHANGED <<vars, pc, incoming, outgoing, ext_incoming, ext_outgoing>>
         /\ \A i \in Nodes : /\ node'[i].self_addr = node[i].self_addr
                             /\ node'[i].self_key = node[i].self_key
                             /\ node[i].status = "INITIALIZING" => node'[i] = node[i]
<1>1. CASE \/ HostWrite \/ HostRead \/ UNCHANGED <<systemVars, faulty>>
  <2>1. UNCHANGED <<vars, pc, busVars>>
    BY <1>1 DEF HostWrite, HostRead, putRequest, status_task, systemVars, allVars, taskVars
  <2> QED BY <2>1 DEF busVars
<1>2. ASSUME NEW j \in Nodes, NodeExpire(j)
      PROVE  /\ UNCHANGED <<vars, pc, incoming, outgoing, ext_incoming, ext_outgoing>>
             /\ \A i \in Nodes : /\ node'[i].self_addr = node[i].self_addr
                                 /\ node'[i].self_key = node[i].self_key
                                 /\ node[i].status = "INITIALIZING" => node'[i] = node[i]
  <2>1. NodesSound BY DEF SystemInv
  <2>2. /\ Expired(node[j], node'[j]) /\ node' = [node EXCEPT ![j] = node'[j]]
        /\ UNCHANGED <<allVars, heard, incoming, outgoing, ext_incoming, ext_outgoing>>
    BY <1>2, <2>1, NodeExpires
  <2>3. node \in [Nodes -> NodeType] BY <2>1 DEF NodesSound
  <2>4. \A i \in Nodes : i # j => node'[i] = node[i] BY <2>2, <2>3
  <2>5. /\ node'[j].self_addr = node[j].self_addr /\ node'[j].self_key = node[j].self_key
        /\ node[j].status # "INITIALIZING"
    <3> DEFINE n == node[j]
               m == node'[j]
    <3>1. n \in NodeType /\ Expired(n, m) BY <2>2, <2>3
    <3> HIDE DEF n, m
    <3>2. m.self_addr = n.self_addr /\ m.self_key = n.self_key /\ n.status # "INITIALIZING"
      BY <3>1 DEF Expired, NodeType
    <3> QED BY <3>2 DEF n, m
  <2> QED BY <2>2, <2>4, <2>5 DEF allVars, taskVars
<1> QED BY <1>1, <1>2 DEF Aside

LEMMA NothingUnderWayNext ==
  ASSUME Quiet', NEW H, NEW W, NEW R0, NEW R
  PROVE  Carry(H, W, R0, R)'
<1>1. Frames(<<>>) = {} BY DEF Frames
<1>2. /\ ext_outgoing' = <<>> /\ ext_incoming' = <<>>
      /\ \A i \in Nodes : incoming'[i] = <<>> /\ outgoing'[i] = <<>>
  BY DEF Quiet, Arrived
<1> QED BY <1>1, <1>2, NodesAssumption DEF Carry, Remotes, Frames

LEMMA PowerIsOff ==
  ASSUME PowerCycle
  PROVE  /\ Quiet' /\ NoNodes' /\ \A i \in Nodes : node'[i] = Line!NewSelfNode
         /\ head_status' = "STANDBY" /\ active_watering_index' = NoIndex
         /\ pc' = "receive" /\ (panicked' => ~mounted')
BY DEF PowerCycle, restart, Reboot, load_durations, Quiet, Arrived, NoNodes, Exists

LEMMA NodesAreNew ==
  ASSUME SystemInv, ClearingIsQuiet, KillNodeTask
  PROVE  /\ Quiet /\ Quiet' /\ NoNodes' /\ \A i \in Nodes : node'[i] = Line!NewSelfNode
         /\ UNCHANGED vars /\ pc = "kill_node_task" /\ pc' = "requests"
<1>1. pc = "kill_node_task" /\ pc' = "requests" /\ UNCHANGED vars
  BY DEF KillNodeTask, node_task_killed
<1>2. Quiet /\ NoNodes BY <1>1 DEF ClearingIsQuiet
<1>3. NoNodes' BY <1>1, <1>2 DEF vars, NoNodes, Exists
<1>4. Quiet' BY <1>2 DEF KillNodeTask, Quiet, Arrived
<1> QED BY <1>1, <1>2, <1>3, <1>4 DEF KillNodeTask

\* The table is kept, but for a restart and a pairing that begins.
LEMMA TableKept ==
  ASSUME SystemInv, AgreementInv, [SystemNext]_<<systemVars, faulty>>, ~PowerCycle
  PROVE  \/ Keeps
         \/ /\ PairingRequest \in extRequests /\ pc = "requests"
            /\ UNCHANGED busVars /\ pc' = "kill_node_task" /\ NoNodes'
<1>1. CASE HeadReceive BY <1>1, ReceiveAgrees
<1>2. CASE HeadAct BY <1>2, ActAgrees
<1>3. ASSUME NEW r \in Request, Serve(r), r \in extRequests, UNCHANGED busVars,
             pc = "requests"
      PROVE  \/ Keeps
             \/ /\ PairingRequest \in extRequests /\ pc = "requests"
                /\ UNCHANGED busVars /\ pc' = "kill_node_task" /\ NoNodes'
  BY <1>3, ServeAgrees
<1>4. CASE UNCHANGED node_link BY <1>4 DEF Keeps, Exists
<1>5. KillNodeTask \/ Bus \/ Aside \/ notify \/ (\E i \in Nodes : NodeReceive(i))
        => UNCHANGED node_link
  <2>1. KillNodeTask \/ notify \/ (\E i \in Nodes : NodeReceive(i)) => UNCHANGED node_link
    BY DEF KillNodeTask, node_task_killed, notify, NodeReceive, allVars, vars
  <2>2. Bus => UNCHANGED node_link BY BusFinds DEF vars
  <2>3. Aside => UNCHANGED node_link BY AsideMovesNothing DEF vars
  <2> QED BY <2>1, <2>2, <2>3
<1> QED BY <1>1, <1>2, <1>3, <1>4, <1>5, SystemSteps

LEMMA PairingIsQuietStep ==
  ASSUME SystemInv, AgreementInv, Repairing # "any", [SystemNext]_<<systemVars, faulty>>
  PROVE  PairingIsQuiet'
<1> SUFFICES ASSUME PairingRequest \in extRequests'
             PROVE  /\ Quiet'
                    /\ \/ pc' = "requests"
                       \/ NoNodes' /\ head_status' # "PAIRING" /\ active_watering_index' = NoIndex
  BY DEF PairingIsQuiet
<1> DEFINE Resting == NoNodes /\ head_status # "PAIRING" /\ active_watering_index = NoIndex
           Asked   == PairingRequest \in extRequests
<1>0. Asked => Quiet /\ (pc = "requests" \/ Resting) BY DEF AgreementInv, PairingIsQuiet
<1>1. CASE HeadReceive
  <2>1. Asked /\ pc = "receive" BY <1>1 DEF HeadReceive, receive
  <2>2. Quiet /\ Resting BY <1>0, <2>1
  <2>3. Carry(Asking, {}, {}, {}) BY <2>2, NothingUnderWay
  <2>4. /\ NoNodes' /\ returned' = NoFrame
        /\ UNCHANGED <<node_link, head_status, active_watering_index>>
    BY <1>1, <2>2, <2>3, ReceiveAgrees
  <2>5. UNCHANGED <<incoming, outgoing, ext_incoming, ext_outgoing>>
    BY <1>1, <2>2, <2>4 DEF HeadReceive, send_returned, Quiet
  <2>6. Quiet' BY <2>2, <2>5 DEF Quiet, Arrived
  <2> QED BY <2>2, <2>4, <2>6
<1>2. CASE HeadAct
  <2>1. Asked /\ pc # "requests"
    BY <1>2 DEF HeadAct, pair, schedule, command
  <2>2. Quiet /\ Resting BY <1>0, <2>1
  <2>3. /\ returned' = NoFrame /\ NoNodes'
        /\ head_status' # "PAIRING" /\ active_watering_index' = NoIndex
    BY <1>2, <2>2, ActAgrees
  <2>4. UNCHANGED <<incoming, outgoing, ext_incoming, ext_outgoing>>
    BY <1>2, <2>3 DEF HeadAct, send_returned
  <2>5. Quiet' BY <2>2, <2>4 DEF Quiet, Arrived
  <2> QED BY <2>3, <2>5
<1>3. ASSUME NEW r \in Request, Serve(r), pc = "requests", UNCHANGED busVars,
             extRequests' = extRequests \ {r}
      PROVE  Quiet' /\ pc' = "requests"
  <2>1. Asked /\ r # PairingRequest BY <1>3
  <2>2. pc' = pc BY <1>3, <2>1, ServeAgrees
  <2>3. Quiet' BY <1>0, <1>3, <2>1 DEF Quiet, Arrived, busVars
  <2> QED BY <1>3, <2>2, <2>3
<1>4. CASE notify
  <2>1. Asked /\ ahead = {} BY <1>4 DEF notify
  <2>2. PairingRequest.type = "INIT_PAIRING" BY DEF PairingRequest
  <2>3. PairingRequest \in ahead
    BY <2>1, <2>2 DEF ahead, AgreementInv, PairingIsAhead, to_i
  <2> QED BY <2>1, <2>3
<1>5. CASE KillNodeTask BY <1>5, NodesAreNew DEF AgreementInv
<1>6. CASE PowerCycle BY <1>6, PowerIsOff
<1>7. CASE Bus
  <2>1. ~Quiet /\ Asked BY <1>7, BusFinds DEF taskVars
  <2> QED BY <1>0, <2>1
<1>8. ASSUME NEW i \in Nodes, NodeReceive(i) PROVE FALSE
  <2>1. Asked /\ ~Quiet
    BY <1>8 DEF NodeReceive, Line!receive, allVars, taskVars, Quiet, Arrived
  <2> QED BY <1>0, <2>1
<1>9. CASE Aside
  <2>1. Asked \/ (Quiet /\ pc = "requests")
    <3>1. CASE HostWrite
      <4>1. PICK r \in HostRequests :
              (r = PairingRequest => MayPair) /\ extRequests' = put(extRequests, r)
        BY <3>1 DEF HostWrite, putRequest
      <4>2. CASE r = PairingRequest BY <4>1, <4>2 DEF MayPair
      <4>3. CASE r # PairingRequest BY <4>1, <4>3 DEF put
      <4> QED BY <4>2, <4>3
    <3>2. CASE ~HostWrite
      BY <1>9, <3>2 DEF Aside, HostRead, status_task, NodeExpire, systemVars, allVars, taskVars
    <3> QED BY <3>1, <3>2
  <2>2. UNCHANGED <<vars, pc, incoming, outgoing, ext_incoming, ext_outgoing>>
    BY <1>9, AsideMovesNothing
  <2>3. Quiet' BY <1>0, <2>1, <2>2 DEF Quiet, Arrived
  <2>4. pc' = "requests" \/ Resting' BY <1>0, <2>1, <2>2 DEF vars, roundVars, NoNodes, Exists
  <2> QED BY <2>3, <2>4
<1> QED BY <1>1, <1>2, <1>3, <1>4, <1>5, <1>6, <1>7, <1>8, <1>9, SystemSteps

\* A pairing is asked for in front of the search (MayPair), and what else is put
\* behind it has a slot before.
LEMMA PairingIsAheadStep ==
  ASSUME SystemInv, PairingIsAhead, Repairing # "any", [SystemNext]_<<systemVars, faulty>>
  PROVE  PairingIsAhead'
<1> DEFINE last == to_i["INIT_PAIRING"]
<1>1. last \in Nat BY DEF to_i
<1>2. UNCHANGED slot => PairingIsAhead' BY DEF PairingIsAhead
<1>3. slot' = 0 => PairingIsAhead' BY <1>1 DEF PairingIsAhead
<1>4. ASSUME NEW r \in HostRequests, putRequest(r), r = PairingRequest => MayPair
      PROVE  PairingIsAhead'
  <2>1. r \in Request BY HostRequestsAssumption
  <2>2. UNCHANGED slot \/ slot' = to_i[r.type] + 1 BY <1>4 DEF putRequest
  <2>3. r = PairingRequest => UNCHANGED slot BY <1>4 DEF MayPair
  <2>4. r # PairingRequest => to_i[r.type] \in Nat /\ to_i[r.type] < last
    BY <1>1, <2>1, Slots
  <2>5. r # PairingRequest => to_i[r.type] + 1 \in 0 .. last BY <1>1, <2>4
  <2> QED BY <1>2, <2>2, <2>3, <2>5 DEF PairingIsAhead
<1>5. HeadSteps => UNCHANGED slot \/ slot' = 0
  BY DEF HeadSteps, HeadReceive, HeadAct, HeadServe, KillNodeTask, receive, pair, schedule,
     command, process_external_request, node_task_killed, notify, new_pop, search
<1>6. HostWrite => \E r \in HostRequests : putRequest(r) /\ (r = PairingRequest => MayPair)
  BY DEF HostWrite
<1>7. \/ UartSend \/ UartLocal \/ (\E i \in Remotes : UartReply(i)) \/ HostRead
      \/ (\E i \in Nodes : NodeReceive(i) \/ NodeExpire(i)) \/ UNCHANGED <<systemVars, faulty>>
      => UNCHANGED slot
  BY DEF UartSend, UartLocal, UartReply, HostRead, status_task, NodeReceive, NodeExpire,
     systemVars, allVars, taskVars, search
<1>8. PowerCycle => slot' = 0 BY DEF PowerCycle, restart, new_pop
<1> QED BY <1>2, <1>3, <1>4, <1>5, <1>6, <1>7, <1>8 DEF SystemNext

LEMMA ClearingIsQuietStep ==
  ASSUME SystemInv, AgreementInv, [SystemNext]_<<systemVars, faulty>>
  PROVE  ClearingIsQuiet'
<1> SUFFICES ASSUME pc' = "kill_node_task" PROVE Quiet' /\ NoNodes'
  BY DEF ClearingIsQuiet
<1>1. ~HeadReceive /\ ~HeadAct /\ ~notify /\ ~KillNodeTask /\ ~PowerCycle
  BY PowerIsOff DEF HeadReceive, HeadAct, receive, pair, schedule, command, compare_statuses,
     notify, KillNodeTask, node_task_killed
<1>2. ASSUME NEW r \in Request, Serve(r), pc = "requests", UNCHANGED busVars,
             r \in extRequests
      PROVE  Quiet' /\ NoNodes'
  <2>1. r = PairingRequest /\ NoNodes' BY <1>2, ServeAgrees
  <2>2. Quiet BY <1>2, <2>1 DEF AgreementInv, PairingIsQuiet
  <2> QED BY <1>2, <2>1, <2>2 DEF Quiet, Arrived, busVars
<1>3. pc = "kill_node_task" => Quiet /\ NoNodes BY DEF AgreementInv, ClearingIsQuiet
<1>4. CASE Bus BY <1>3, <1>4, BusFinds DEF taskVars
<1>5. ASSUME NEW i \in Nodes, NodeReceive(i) PROVE FALSE
  BY <1>3, <1>5 DEF NodeReceive, Line!receive, allVars, taskVars, Quiet, Arrived
<1>6. CASE Aside
  <2>1. UNCHANGED <<vars, pc, incoming, outgoing, ext_incoming, ext_outgoing>>
    BY <1>6, AsideMovesNothing
  <2>2. Quiet /\ NoNodes BY <1>3, <2>1
  <2> QED BY <2>1, <2>2 DEF Quiet, Arrived, vars, NoNodes, Exists
<1> QED BY <1>1, <1>2, <1>4, <1>5, <1>6, SystemSteps

\* The frame that a node takes was sent to it by one who agrees with the table.
LEMMA TakenAgrees ==
  ASSUME SystemInv, AgreementInv, NEW i \in Nodes, NodeReceive(i),
         NEW f, f \in Frames(incoming[i]), NEW answer, Answers(node[i], f, node'[i], answer)
  PROVE  Keeping(i, node'[i], answer)
<1>1. incoming[i] # <<>> BY DEF NodeReceive, Line!receive
<1>2. f \in ToNode(i)
  BY DEF AgreementInv, FramesAgree, Carry, Remotes, ToNode
<1> QED BY <1>1, <1>2, NodeAgrees

LEMMA FramesAgreeStep ==
  ASSUME SystemInv, AgreementInv, Repairing # "any", [SystemNext]_<<systemVars, faulty>>
  PROVE  FramesAgree'
<1>1. CASE Quiet' BY <1>1, NothingUnderWayNext DEF FramesAgree
<1>2. CASE ~Quiet'
  <2>1. Keeps
    <3>1. ~PowerCycle BY <1>2, PowerIsOff
    <3>2. CASE /\ PairingRequest \in extRequests /\ UNCHANGED busVars
      <4>1. Quiet BY <3>2 DEF AgreementInv, PairingIsQuiet
      <4> QED BY <1>2, <3>2, <4>1 DEF busVars, Quiet, Arrived
    <3> QED BY <3>1, <3>2, TableKept
  <2>2. PICK H, W, R0, R : H = ToOwn' /\ W = ToLine' /\ R0 = FromOwn' /\ R = FromLine'
    OBVIOUS
  <2>3. ToOwn \subseteq H /\ ToLine \subseteq W /\ FromOwn \subseteq R0 /\ FromLine \subseteq R
    BY <2>1, <2>2, KeptAgreement
  <2>4. Carry(H, W, R0, R) BY <2>3 DEF AgreementInv, FramesAgree, Carry
  <2>5. /\ H \in SUBSET Frame /\ W \in SUBSET Frame /\ R0 \in SUBSET Frame /\ R \in SUBSET Frame
    BY <2>2 DEF ToOwn, ToLine, FromOwn, FromLine, Frame
  <2>6. HeadReceive \/ HeadAct => returned' \in H \cup {NoFrame}
    BY <2>2, ReceiveAgrees, ActAgrees
  <2>7. \A f \in H : OnWire(f) \in W
    <3> SUFFICES ASSUME NEW f \in H PROVE OnWire(f) \in W OBVIOUS
    <3>1. f \in HeadFrame /\ Agreed(f)' BY <2>2 DEF ToOwn
    <3>2. CASE f.command # "DISCOVERY"
      <4>1. OnWire(f) = f BY <3>1, <3>2, WireHead
      <4>2. f \in ToLine' BY <3>1, <3>2 DEF ToLine
      <4> QED BY <2>2, <4>1, <4>2
    <3>3. CASE f.command = "DISCOVERY"
      <4>1. OnWire(f) = DiscoveryFrame(0, 0) BY <3>1, <3>3, WireHead
      <4>2. DiscoveryFrame(0, 0) \in ToLine'
        BY KeysAssumption DEF ToLine, Agreed, HeadFrame, DiscoveryFrame
      <4> QED BY <2>2, <4>1, <4>2
    <3> QED BY <3>2, <3>3
  <2>8. \A f \in R : OnWire(f) \in R
    <3> SUFFICES ASSUME NEW f \in R PROVE OnWire(f) \in R OBVIOUS
    <3>1. f \in Reply BY <2>2 DEF FromLine
    <3> QED BY <3>1, WireReply
  <2>9. \A i \in Nodes : \A f \in Frame : \A answer :
           /\ NodeReceive(i) /\ f \in Frames(incoming[i]) /\ f = incoming[i][1]
           /\ Answers(node[i], f, node'[i], answer)
           /\ answer # NoFrame
           => answer \in (IF i = 0 THEN R0 ELSE R)
    <3> SUFFICES ASSUME NEW i \in Nodes, NEW f \in Frame, NEW answer,
                        NodeReceive(i), f \in Frames(incoming[i]),
                        Answers(node[i], f, node'[i], answer), answer # NoFrame
                 PROVE  answer \in (IF i = 0 THEN R0 ELSE R)
      OBVIOUS
    <3>1. answer \in FromNode(i) BY TakenAgrees DEF Keeping
    <3> QED BY <2>3, <3>1 DEF FromNode
  <2>10. QueuesTyped /\ NodesSound BY DEF SystemInv
  <2>11. Carry(H, W, R0, R)'
    BY <2>4, <2>5, <2>6, <2>7, <2>8, <2>9, <2>10, CarryStep
  <2> QED BY <2>2, <2>11 DEF FramesAgree, Carry
<1> QED BY <1>1, <1>2

\* The addresses and keys of the nodes change when they take a frame, or lose power.
LEMMA NodesChange ==
  ASSUME SystemInv, [SystemNext]_<<systemVars, faulty>>, NEW i \in Nodes
  PROVE  \/ /\ node'[i].self_addr = node[i].self_addr /\ node'[i].self_key = node[i].self_key
            /\ node[i].status = "INITIALIZING" => node'[i] = node[i]
         \/ KillNodeTask \/ PowerCycle
         \/ /\ NodeReceive(i)
            /\ \E f \in Frames(incoming[i]) : \E answer : Answers(node[i], f, node'[i], answer)
<1>0. /\ QueuesTyped /\ NodesSound /\ Carry(HeadFrame, HeadFrame, Reply, Reply)
      /\ node \in [Nodes -> NodeType]
  BY DEF SystemInv, NodesSound
<1>1. CASE UNCHANGED node BY <1>1
<1>2. HeadReceive \/ HeadAct \/ Bus \/ UNCHANGED busVars => UNCHANGED node
  BY BusFinds DEF HeadReceive, HeadAct, busVars
<1>3. CASE Aside BY <1>3, AsideMovesNothing
<1>4. ASSUME NEW j \in Nodes, NodeReceive(j)
      PROVE  \/ node'[i] = node[i]
             \/ /\ NodeReceive(i)
                /\ \E f \in Frames(incoming[i]) : \E answer : Answers(node[i], f, node'[i], answer)
  <2>1. PICK msg, answer : /\ msg \in Frames(incoming[j])
                           /\ Answers(node[j], msg, node'[j], answer)
                           /\ node' = [node EXCEPT ![j] = node'[j]]
    BY <1>0, <1>4, NodeTakes
  <2>2. CASE i = j BY <1>4, <2>1, <2>2
  <2>3. CASE i # j BY <1>0, <2>1, <2>3
  <2> QED BY <2>2, <2>3
<1> QED BY <1>1, <1>2, <1>3, <1>4, SystemSteps

LEMMA NodesChangedToNew ==
  ASSUME SystemInv, AgreementInv, PowerCycle \/ KillNodeTask, NEW i \in Nodes
  PROVE  node'[i] = Line!NewSelfNode
<1>1. ClearingIsQuiet BY DEF AgreementInv
<1> QED BY <1>1, PowerIsOff, NodesAreNew

LEMMA NodesAgreeStep ==
  ASSUME SystemInv, AgreementInv, [SystemNext]_<<systemVars, faulty>>
  PROVE  NodesAgree'
<1> SUFFICES ASSUME pc' # "kill_node_task", NEW i \in Nodes,
                    node'[i].self_addr # ADDR_UNSET
             PROVE  /\ Exists(node[i].self_addr)'
                    /\ node_link'[node'[i].self_addr].id_key = node'[i].self_key
  BY DEF NodesAgree
<1>1. ~PowerCycle /\ ~KillNodeTask
  <2>1. PowerCycle \/ KillNodeTask => node'[i] = Line!NewSelfNode
    BY NodesChangedToNew
  <2>2. Line!NewSelfNode.self_addr = ADDR_UNSET
    BY DEF Line!NewSelfNode, Line!ADDR_UNSET, ADDR_UNSET
  <2> QED BY <2>1, <2>2
<1>2. CASE node'[i].self_addr = node[i].self_addr /\ node'[i].self_key = node[i].self_key
  <2>1. pc # "kill_node_task"
    <3>1. Bus => pc' = pc BY BusFinds DEF taskVars
    <3>2. Aside => pc' = pc BY AsideMovesNothing
    <3> QED BY <1>1, <3>1, <3>2, SystemSteps
            DEF HeadReceive, HeadAct, receive, pair, schedule, command, notify,
                NodeReceive, allVars, taskVars
  <2>2. PICK a : a = node[i].self_addr OBVIOUS
  <2>3. Exists(a) /\ node_link[a].id_key = node[i].self_key /\ a = node'[i].self_addr
    BY <1>2, <2>1, <2>2 DEF AgreementInv, NodesAgree
  <2>4. Keeps BY <1>1, TableKept
  <2>5. a \in Addr /\ Exists(a)' /\ node_link'[a].id_key = node[i].self_key
    BY <2>3, <2>4 DEF Keeps, Exists
  <2>6. node_link'[a] # NullNode BY <2>5 DEF Exists
  <2> QED BY <1>2, <2>2, <2>5, <2>6 DEF Exists
<1>3. ASSUME NodeReceive(i), NEW f \in Frames(incoming[i]), NEW answer,
             Answers(node[i], f, node'[i], answer)
      PROVE  /\ Exists(node[i].self_addr)'
             /\ node_link'[node'[i].self_addr].id_key = node'[i].self_key
  <2>1. Keeping(i, node'[i], answer) BY <1>3, TakenAgrees
  <2>2. PICK m : m = node'[i] OBVIOUS
  <2>3. Exists(m.self_addr) /\ node_link[m.self_addr].id_key = m.self_key
    BY <2>1, <2>2 DEF Keeping
  <2>4. UNCHANGED node_link BY <1>3 DEF NodeReceive, allVars, vars
  <2> QED BY <2>2, <2>3, <2>4 DEF Exists
<1> QED BY <1>1, <1>2, <1>3, NodesChange

LEMMA RemotesHaveNoKeyStep ==
  ASSUME SystemInv, AgreementInv, [SystemNext]_<<systemVars, faulty>>
  PROVE  RemotesHaveNoKey'
<1> SUFFICES ASSUME NEW i \in Remotes PROVE node'[i].self_key = 0
  BY DEF RemotesHaveNoKey, Remotes
<1>0. i \in Nodes BY DEF Remotes
<1>1. CASE node'[i].self_key = node[i].self_key
  BY <1>1 DEF AgreementInv, RemotesHaveNoKey
<1>2. CASE PowerCycle \/ KillNodeTask
  <2>1. node'[i] = Line!NewSelfNode BY <1>0, <1>2, NodesChangedToNew
  <2> QED BY <2>1 DEF Line!NewSelfNode
<1>3. ASSUME NodeReceive(i), NEW f \in Frames(incoming[i]), NEW answer,
             Answers(node[i], f, node'[i], answer)
      PROVE  node'[i].self_key = 0
  <2>1. Keeping(i, node'[i], answer) BY <1>0, <1>3, TakenAgrees
  <2> QED BY <2>1 DEF Keeping
<1> QED BY <1>0, <1>1, <1>2, <1>3, NodesChange

LEMMA OwnNodeFirstStep ==
  ASSUME SystemInv, AgreementInv, [SystemNext]_<<systemVars, faulty>>
  PROVE  OwnNodeFirst'
<1> SUFFICES ASSUME node'[0].self_key = 0
             PROVE  /\ node'[0] = Line!NewSelfNode /\ NoNodes'
                    /\ Carry(Asking, {}, {}, {})'
  BY DEF OwnNodeFirst, Line!NewSelfNode
<1>0. 0 \in Nodes BY NodesAssumption
<1>1. CASE PowerCycle \/ KillNodeTask
  <2>1. Quiet' /\ NoNodes' /\ node'[0] = Line!NewSelfNode
    BY <1>0, <1>1, PowerIsOff, NodesAreNew DEF AgreementInv
  <2>2. PICK H : H = Asking OBVIOUS
  <2>3. Carry(H, {}, {}, {})' BY <2>1, NothingUnderWayNext
  <2> QED BY <2>1, <2>2, <2>3
<1>2. CASE ~PowerCycle /\ ~KillNodeTask
  <2>1. node[0].self_key = 0 /\ (node[0].status = "INITIALIZING" => node'[0] = node[0])
    <3>1. ASSUME NodeReceive(0), NEW f \in Frames(incoming[0]), NEW answer,
                 Answers(node[0], f, node'[0], answer)
          PROVE  node'[0] = node[0]
      <4>1. Keeping(0, node'[0], answer) BY <1>0, <3>1, TakenAgrees
      <4> QED BY <4>1 DEF Keeping
    <3> QED BY <1>0, <1>2, <3>1, NodesChange
  <2>2. node[0] = Line!NewSelfNode /\ NoNodes /\ Carry(Asking, {}, {}, {})
    BY <2>1 DEF AgreementInv, OwnNodeFirst
  <2>3. node'[0] = node[0] BY <2>1, <2>2 DEF Line!NewSelfNode
  <2>4. HeadReceive \/ HeadAct => returned' \in Asking \cup {NoFrame}
    BY <2>2, ReceiveAgrees, ActAgrees
  <2>5. NoNodes'
    <3>1. HeadReceive \/ HeadAct => NoNodes' BY <2>2, ReceiveAgrees, ActAgrees
    <3>2. ASSUME NEW r \in Request, Serve(r) PROVE NoNodes' BY <2>2, <3>2, ServeAgrees
    <3>3. notify \/ Bus \/ Aside \/ (\E i \in Nodes : NodeReceive(i)) => UNCHANGED node_link
      <4>1. notify \/ (\E i \in Nodes : NodeReceive(i)) => UNCHANGED node_link
        BY DEF notify, NodeReceive, allVars, vars
      <4>2. Bus => UNCHANGED node_link BY BusFinds DEF vars
      <4>3. Aside => UNCHANGED node_link BY AsideMovesNothing DEF vars
      <4> QED BY <4>1, <4>2, <4>3
    <3>4. UNCHANGED node_link => NoNodes' BY <2>2 DEF NoNodes, Exists
    <3> QED BY <1>2, <3>1, <3>2, <3>3, <3>4, SystemSteps
  <2>6. Listening = {}
    <3>1. ~node[0].downstream BY <2>2 DEF Line!NewSelfNode
    <3>2. ASSUME NEW i \in Remotes PROVE ~Powered(i)
      BY <1>0, <3>1, NodesAssumption DEF Remotes, Powered
    <3> QED BY <3>2 DEF Listening
  <2>7. \A i \in Nodes : \A f \in Frame : \A answer :
           /\ NodeReceive(i) /\ f \in Frames(incoming[i]) /\ f = incoming[i][1]
           /\ Answers(node[i], f, node'[i], answer)
           /\ answer # NoFrame
           => answer \in (IF i = 0 THEN {} ELSE {})
    <3> SUFFICES ASSUME NEW i \in Nodes, NEW f \in Frame, NEW answer,
                        NodeReceive(i), f \in Frames(incoming[i]),
                        Answers(node[i], f, node'[i], answer), answer # NoFrame
                 PROVE  FALSE
      OBVIOUS
    <3>1. i = 0 BY <2>2 DEF Carry, Remotes
    <3>2. Keeping(i, node'[i], answer) BY TakenAgrees
    <3> QED BY <3>1, <3>2 DEF Keeping
  <2>8. Carry(Asking, {}, {}, {})'
    <3> DEFINE none == {}
               H == Asking
    <3>1. Carry(H, none, none, none) BY <2>2
    <3>2. /\ H \in SUBSET Frame /\ none \in SUBSET Frame
          /\ \A f \in none : OnWire(f) \in none
      BY DEF Asking, Frame
    <3>3. HeadReceive \/ HeadAct => returned' \in H \cup {NoFrame} BY <2>4
    <3>4. \A i \in Nodes : \A f \in Frame : \A answer :
           /\ NodeReceive(i) /\ f \in Frames(incoming[i]) /\ f = incoming[i][1]
           /\ Answers(node[i], f, node'[i], answer)
           /\ answer # NoFrame
           => answer \in (IF i = 0 THEN none ELSE none)
      BY <2>7
    <3>5. QueuesTyped /\ NodesSound BY DEF SystemInv
    <3> HIDE DEF none, H
    <3>6. Carry(H, none, none, none)'
      BY <2>6, <3>1, <3>2, <3>3, <3>4, <3>5, CarryStep
    <3> QED BY <3>6 DEF H, none
  <2> QED BY <2>2, <2>3, <2>5, <2>8
<1> QED BY <1>1, <1>2

LEMMA OwnAddressStep ==
  ASSUME SystemInv, AgreementInv, [SystemNext]_<<systemVars, faulty>>,
         NodesAgree', RemotesHaveNoKey', OwnNodeFirst'
  PROVE  OwnAddress'
<1> SUFFICES ASSUME NEW i \in Remotes, node'[0].self_addr # ADDR_UNSET,
                    node'[i].self_addr = node'[0].self_addr
             PROVE  FALSE
  BY DEF OwnAddress, Remotes
<1>0. i \in Nodes /\ 0 \in Nodes BY NodesAssumption DEF Remotes
<1>1. CASE pc' # "kill_node_task"
  <2>1. node'[i].self_key = 0 BY DEF RemotesHaveNoKey
  <2>2. /\ node_link'[node'[0].self_addr].id_key = node'[0].self_key
        /\ node_link'[node'[i].self_addr].id_key = node'[i].self_key
    BY <1>0, <1>1 DEF NodesAgree
  <2>3. node'[0].self_key = 0 BY <2>1, <2>2
  <2>4. node'[0] = Line!NewSelfNode BY <2>3 DEF OwnNodeFirst, Line!NewSelfNode
  <2> QED BY <2>4 DEF Line!NewSelfNode, Line!ADDR_UNSET, ADDR_UNSET
<1>2. CASE pc' = "kill_node_task"
  <2>1. ~PowerCycle /\ ~KillNodeTask
    BY <1>2, PowerIsOff, NodesAreNew DEF AgreementInv
  <2>2. ASSUME NEW j \in Nodes, NodeReceive(j) PROVE FALSE
    <3>1. pc = "kill_node_task" BY <1>2, <2>2 DEF NodeReceive, allVars, taskVars
    <3> QED BY <2>2, <3>1
            DEF AgreementInv, ClearingIsQuiet, Quiet, Arrived, NodeReceive, Line!receive
  <2>3. /\ node'[i].self_addr = node[i].self_addr
        /\ node'[0].self_addr = node[0].self_addr
    BY <1>0, <2>1, <2>2, NodesChange
  <2> QED BY <2>3 DEF AgreementInv, OwnAddress
<1> QED BY <1>1, <1>2

LEMMA OnlyFlashPanicsStep ==
  ASSUME SystemInv, AgreementInv, [SystemNext]_<<systemVars, faulty>>
  PROVE  OnlyFlashPanics'
<1>0. panicked => ~mounted BY DEF AgreementInv, OnlyFlashPanics
<1>1. CASE HeadReceive BY <1>1, ReceiveAgrees DEF OnlyFlashPanics
<1>2. CASE UNCHANGED <<panicked, mounted>> BY <1>0, <1>2 DEF OnlyFlashPanics
<1>3. CASE HeadAct BY <1>2, <1>3, ActAgrees
<1>4. ASSUME NEW r \in Request, Serve(r) PROVE OnlyFlashPanics'
  <2>1. UNCHANGED mounted /\ (panicked' => ~mounted' \/ panicked) BY <1>4, ServeAgrees
  <2> QED BY <1>0, <2>1 DEF OnlyFlashPanics
<1>5. CASE PowerCycle BY <1>5, PowerIsOff DEF OnlyFlashPanics
<1>6. KillNodeTask \/ notify \/ Bus \/ Aside \/ (\E i \in Nodes : NodeReceive(i))
        => UNCHANGED <<panicked, mounted>>
  <2>1. KillNodeTask \/ notify \/ (\E i \in Nodes : NodeReceive(i))
          => UNCHANGED <<panicked, mounted>>
    BY DEF KillNodeTask, node_task_killed, notify, NodeReceive, allVars, vars, nvs
  <2>2. Bus => UNCHANGED <<panicked, mounted>> BY BusFinds DEF vars, nvs
  <2>3. Aside => UNCHANGED <<panicked, mounted>> BY AsideMovesNothing DEF vars, nvs
  <2> QED BY <2>1, <2>2, <2>3
<1> QED BY <1>1, <1>2, <1>3, <1>4, <1>5, <1>6, SystemSteps

LEMMA AgreementStep ==
  Repairing # "any" /\ SystemInv /\ AgreementInv /\ [SystemNext]_<<systemVars, faulty>>
    => AgreementInv'
<1> SUFFICES ASSUME Repairing # "any", SystemInv, AgreementInv,
                    [SystemNext]_<<systemVars, faulty>>
             PROVE  AgreementInv'
  OBVIOUS
<1>1. FramesAgree' BY FramesAgreeStep
<1>2. PairingIsQuiet' BY PairingIsQuietStep
<1>3. ClearingIsQuiet' BY ClearingIsQuietStep
<1>4. NodesAgree' BY NodesAgreeStep
<1>5. RemotesHaveNoKey' BY RemotesHaveNoKeyStep
<1>6. OwnNodeFirst' BY OwnNodeFirstStep
<1>7. OwnAddress' BY <1>4, <1>5, <1>6, OwnAddressStep
<1>8. OnlyFlashPanics' BY OnlyFlashPanicsStep
<1>9. PairingIsAhead' BY PairingIsAheadStep DEF AgreementInv
<1> QED BY <1>1, <1>2, <1>3, <1>4, <1>5, <1>6, <1>7, <1>8, <1>9 DEF AgreementInv

LEMMA InitAgreement == SystemInit => AgreementInv
<1> SUFFICES ASSUME SystemInit PROVE AgreementInv OBVIOUS
<1>1. Quiet BY StartsQuiet
<1>2. /\ pc = "receive" /\ NoNodes /\ head_status = "STANDBY"
      /\ active_watering_index = NoIndex /\ panicked = FALSE
  BY DEF SystemInit, TaskInit, Init, NoNodes, Exists
<1>3. \A i \in Nodes : node[i] = Line!NewSelfNode BY DEF SystemInit, Line!Init
<1>4. FramesAgree BY <1>1, NothingUnderWay DEF FramesAgree
<1>5. PairingIsQuiet /\ ClearingIsQuiet BY <1>1, <1>2 DEF PairingIsQuiet, ClearingIsQuiet
<1>6. NodesAgree /\ RemotesHaveNoKey /\ OwnAddress
  BY <1>3, NodesAssumption
     DEF NodesAgree, RemotesHaveNoKey, OwnAddress, Remotes, Line!NewSelfNode,
         Line!ADDR_UNSET, ADDR_UNSET
<1>7. OwnNodeFirst
  <2>1. PICK H : H = Asking OBVIOUS
  <2>2. Carry(H, {}, {}, {}) BY <1>1, NothingUnderWay
  <2> QED BY <1>2, <1>3, <2>1, <2>2, NodesAssumption DEF OwnNodeFirst
<1>8. OnlyFlashPanics BY <1>2 DEF OnlyFlashPanics
<1>9. PairingIsAhead BY DEF PairingIsAhead, SystemInit, TaskInit, to_i
<1> QED BY <1>4, <1>5, <1>6, <1>7, <1>8, <1>9 DEF AgreementInv

LEMMA AgreementInvariance ==
  ASSUME Repairing # "any"
  PROVE  SystemSpec => []AgreementInv
<1>1. SystemInv /\ AgreementInv /\ [SystemNext]_<<systemVars, faulty>> => AgreementInv'
  BY AgreementStep
<1> QED BY <1>1, InitAgreement, SystemInvariance, PTL DEF SystemSpec

\* A node in service is in the head's table, at its own address and with its own
\* key, except while the line is cleared for a new pairing; also where frames are
\* lost and repeated, and valves do not switch.
THEOREM ServiceAgrees ==
  ASSUME Repairing # "any"
  PROVE  SystemSpec => []AddressesAgree
<1>1. SystemInv /\ AgreementInv => AddressesAgree
  <2> SUFFICES ASSUME SystemInv, AgreementInv, NEW i \in Nodes, InService(i),
                      pc # "kill_node_task"
               PROVE  /\ Exists(node[i].self_addr)
                      /\ node_link[node[i].self_addr].id_key = node[i].self_key
    BY DEF AddressesAgree
  <2>1. node[i].self_addr # ADDR_UNSET
    BY DEF SystemInv, NodesSound, SoundNode, InService
  <2> QED BY <2>1 DEF AgreementInv, NodesAgree
<1> QED BY <1>1, AgreementInvariance, SystemInvariance, PTL

\* Every ACK finds its node in the table, as Head::handle_ack asserts, if the host
\* does not ask for a pairing while frames are under way.
THEOREM AckIsKnown ==
  ASSUME Repairing # "any"
  PROVE  SystemSpec => []AckFindsItsNode
<1>1. SystemInv /\ AgreementInv => AckFindsItsNode
  <2> SUFFICES ASSUME SystemInv, AgreementInv, ext_incoming # <<>>,
                      ext_incoming[1].command = "ACK"
               PROVE  Exists(ext_incoming[1].address)
    BY DEF AckFindsItsNode
  <2>1. ext_incoming \in Seq(Frame) BY DEF SystemInv, QueuesTyped
  <2>2. ext_incoming[1] \in Frames(ext_incoming) BY <2>1, Taken
  <2>3. ext_incoming[1] \in FromOwn \cup FromLine
    BY <2>2 DEF AgreementInv, FramesAgree, Carry
  <2> QED BY <2>3 DEF FromOwn, FromLine, Agreed
<1> QED BY <1>1, AgreementInvariance, SystemInvariance, PTL

\* The head does not panic: no assert fails and no null pointer is followed,
\* with a flash that works and a host that pairs again only at rest, whatever
\* frames are lost or repeated and however long the line is.
THEOREM NeverPanics ==
  ASSUME Repairing # "any", FlashMayFail = {}
  PROVE  SystemSpec => []NoPanic
<1>1. SystemInit => mounted = TRUE BY DEF SystemInit, TaskInit, Init
<1>2. mounted = TRUE /\ [Next]_vars => (mounted = TRUE)'
  <2> SUFFICES ASSUME mounted = TRUE, [Next]_vars PROVE mounted' = TRUE OBVIOUS
  <2>1. CASE Reboot BY <2>1 DEF Reboot, load_durations
  <2>2. ASSUME NEW a, NEW n, change_node(a, n) PROVE UNCHANGED mounted BY <2>2, ChangeKnown
  <2>3. CASE \/ \E a \in Addr \cup {ADDR_UNSET}, d \in Durations, st \in ActionStatus :
                  set_node_duration(a, d, st)
             \/ \E a \in Addr \cup {ADDR_UNSET}, c \in SUBSET Phases, st \in ActionStatus :
                  set_watering_cycle(a, c, st)
    BY <2>2, <2>3 DEF set_node_duration, set_watering_cycle, nvs
  <2> QED BY <2>1, <2>3
          DEF Next, vars, nvs, handle_incoming_frame, process_pairing,
              process_watering_schedule, next_watering_frame, init_pairing_mode
<1>3. AgreementInv /\ mounted = TRUE => NoPanic
  BY DEF AgreementInv, OnlyFlashPanics, NoPanic
<1> QED BY <1>1, <1>2, <1>3, AgreementInvariance, SystemImplementsHead, PTL
        DEF SystemSpec, ImplementsHead, Spec

\* On a line of the head's own node and one more, no two nodes in service have
\* one address.  Two more could: over the wire all have the key 0, and what is
\* meant for one is taken by the other.
THEOREM TwoNodesTwoAddresses ==
  ASSUME Repairing # "any", Remotes \subseteq {1}
  PROVE  SystemSpec => []UniqueAddresses
<1>1. SystemInv /\ AgreementInv => UniqueAddresses
  <2> SUFFICES ASSUME SystemInv, AgreementInv, NEW i \in Nodes, NEW j \in Nodes,
                      InService(i), InService(j),
                      node[i].self_addr = node[j].self_addr, i # j
               PROVE  FALSE
    BY DEF UniqueAddresses
  <2>1. node[i].self_addr # ADDR_UNSET
    BY DEF SystemInv, NodesSound, SoundNode, InService
  <2>2. \/ i = 0 /\ j \in Remotes
        \/ j = 0 /\ i \in Remotes
    BY DEF Remotes
  <2> QED BY <2>1, <2>2 DEF AgreementInv, OwnAddress
<1> QED BY <1>1, AgreementInvariance, SystemInvariance, PTL
=============================================================================
