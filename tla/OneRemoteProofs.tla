-------------------------- MODULE OneRemoteProofs --------------------------
(***************************************************************************)
(* A line of the head's own node and one more: that no two valves are open *)
(* at once and the head knows of the one that is, that pairing finds both  *)
(* nodes, and that a node that answers is not given up.                    *)
(*                                                                         *)
(* Valves first.  Either frames of a pairing are under way and every valve *)
(* is closed, or frames of a round, and nodes and head exchange no others. *)
(* A node is hot while its valve is open or a water command is on its way  *)
(* to it.  It cools down by itself, and the head knows when it has: it     *)
(* asks only once a command has been acknowledged, so that no command is   *)
(* ever behind a STATUS, and the answer is about all that was sent before. *)
(***************************************************************************)
EXTENDS SystemProofs

\* One node on the wire, beside the head's own in the device.
OneRemoteNode == Remotes \subseteq {1}

WaterTo(f, a) == f.command = "INIT_WATER_DURATIONS" /\ f.address = a
Called(queue, a) == \E f \in Frames(queue) : WaterTo(f, a)
Queried(queue, a) == StatusFrame(a) \in Frames(queue)
\* No water command comes after a STATUS for the same address.
Ordered(queue) ==
  \A k, m \in DOMAIN queue : \A a \in Addr :
    k < m /\ queue[k] = StatusFrame(a) => ~WaterTo(queue[m], a)

Hot(i) ==
  \/ node[i].solenoid
  \/ Called(ext_outgoing, node[i].self_addr)
  \/ Called(incoming[i], node[i].self_addr)
\* The head is past sending a water command to address a.
Commanded(a) == get_node_status(a) \notin {"IN_QUEUE", "COMMAND_SENT"}
Cooled(a) == \A i \in Nodes : node[i].self_addr = a => ~Hot(i)

RoundSent ==
  {f \in HeadFrame : /\ f.command \in {"INIT_WATER_DURATIONS", "STATUS"}
                     /\ f.command = "STATUS" => Commanded(f.address)}
RoundAnswer ==
  {f \in Reply : /\ f.command \in {"ACK", "STATUS"}
                 /\ f.command = "STATUS" =>
                      /\ Commanded(f.address)
                      /\ f.status \in {"INITIALIZING", "READY"} => Cooled(f.address)}
PairingSent   == {f \in HeadFrame : f.command \in {"DISCOVERY", "ADDRESSING", "ACK"}}
PairingAnswer == {f \in Reply : f.command \in {"DISCOVERY", "ADDRESSING"}}

\* With one node on the wire nobody but the head hears the answers.
Routed(sent, answered) ==
  /\ Carry(sent, sent, answered, answered)
  /\ \A i \in Nodes : Frames(incoming[i]) \subseteq sent

\* A hot node is the one the round is at, unless the round has ended in a fault.
HotIsActive ==
  pc # "kill_node_task" => \A i \in Nodes : Hot(i) =>
    \/ head_status = "FAULTY_NODE" /\ active_watering_index = NoIndex
    \/ /\ head_status = "WATERING_CMDS" /\ active_watering_index = node[i].self_addr
       /\ get_node_status(active_watering_index) \in {"COMMAND_SENT", "WATERING"}
OneIsHot == \A i, j \in Nodes : Hot(i) /\ Hot(j) => i = j
\* Each queue is in order, and the two that a frame passes one after the other.
InOrder ==
  /\ Ordered(ext_outgoing)
  /\ \A i \in Nodes : /\ Ordered(incoming[i])
                      /\ \A a \in Addr : Queried(incoming[i], a) => ~Called(ext_outgoing, a)
ClosedUnlessWatering ==
  \A i \in Nodes : node[i].status \in {"INITIALIZING", "READY"} => ~node[i].solenoid

AllClosed == \A i \in Nodes : ~node[i].solenoid

InPairing ==
  /\ head_status \in {"PAIRING", "STANDBY"}
  /\ Routed(PairingSent, PairingAnswer)
  /\ AllClosed
InRound ==
  /\ head_status # "PAIRING" \/ pc = "kill_node_task"
  /\ Routed(RoundSent, RoundAnswer)
  /\ HotIsActive /\ OneIsHot /\ InOrder /\ ClosedUnlessWatering
ValveInv == InPairing \/ InRound

-----------------------------------------------------------------------------
\* What a queue that has lost its first frame, or has got one, is asked and told.
LEMMA TailOrdered ==
  ASSUME NEW q \in Seq(Frame), q # <<>>
  PROVE  /\ \A a : Called(Tail(q), a) => Called(q, a)
         /\ \A a : Queried(Tail(q), a) => Queried(q, a)
         /\ Ordered(q) => /\ Ordered(Tail(q))
                          /\ \A a \in Addr : q[1] = StatusFrame(a) => ~Called(Tail(q), a)
<1> DEFINE t == Tail(q)
<1>1. /\ t \in Seq(Frame) /\ Frames(t) \subseteq Frames(q) BY Taken
<1>2. /\ DOMAIN q = 1 .. Len(q) /\ DOMAIN t = 1 .. Len(q) - 1 /\ Len(q) \in Nat
      /\ \A k \in DOMAIN t : t[k] = q[k + 1] /\ k \in Nat /\ k + 1 \in DOMAIN q
  <2>1. Len(q) \in Nat /\ Len(q) # 0 /\ DOMAIN q = 1 .. Len(q) BY EmptySeq, LenProperties
  <2>2. /\ t \in Seq(Frame) /\ Len(t) = Len(q) - 1
        /\ \A k \in 1 .. Len(t) : t[k] = q[k + 1]
    BY HeadTailProperties
  <2>3. DOMAIN t = 1 .. Len(q) - 1 BY <2>2, LenProperties
  <2> QED BY <2>1, <2>2, <2>3
<1> HIDE DEF t
<1>3. ASSUME Ordered(q) PROVE Ordered(t)
  <2> SUFFICES ASSUME NEW k \in DOMAIN t, NEW m \in DOMAIN t, NEW a \in Addr,
                      k < m, t[k] = StatusFrame(a)
               PROVE  ~WaterTo(t[m], a)
    BY DEF Ordered
  <2>1. /\ k + 1 \in DOMAIN q /\ m + 1 \in DOMAIN q /\ k + 1 < m + 1
        /\ q[k + 1] = StatusFrame(a) /\ t[m] = q[m + 1]
    BY <1>2
  <2> QED BY <1>3, <2>1 DEF Ordered
<1>4. ASSUME Ordered(q), NEW a \in Addr, q[1] = StatusFrame(a), Called(t, a) PROVE FALSE
  <2>1. PICK k \in DOMAIN t : WaterTo(t[k], a) BY <1>4 DEF Called, Frames
  <2>2. /\ k + 1 \in DOMAIN q /\ 1 \in DOMAIN q /\ 1 < k + 1 /\ t[k] = q[k + 1]
    BY <1>2
  <2> QED BY <1>4, <2>1, <2>2 DEF Ordered
<1> QED BY <1>1, <1>3, <1>4 DEF Called, Queried, t

LEMMA AppendOrdered ==
  ASSUME NEW q \in Seq(Frame), NEW f \in Frame
  PROVE  /\ \A a : Called(Append(q, f), a) <=> Called(q, a) \/ WaterTo(f, a)
         /\ \A a : Queried(Append(q, f), a) <=> Queried(q, a) \/ f = StatusFrame(a)
         /\ Ordered(q) /\ (\A a \in Addr : WaterTo(f, a) => ~Queried(q, a))
              => Ordered(Append(q, f))
<1> DEFINE r == Append(q, f)
<1>1. Frames(r) = Frames(q) \cup {f} BY Added
<1>2. /\ DOMAIN r = 1 .. Len(q) + 1 /\ DOMAIN q = 1 .. Len(q) /\ Len(q) \in Nat
      /\ \A k \in 1 .. Len(q) : r[k] = q[k]
      /\ r[Len(q) + 1] = f
  <2>1. /\ r \in Seq(Frame) /\ Len(r) = Len(q) + 1 /\ Len(q) \in Nat
        /\ DOMAIN r = 1 .. Len(q) + 1 /\ DOMAIN q = 1 .. Len(q)
        /\ \A k \in 1 .. Len(q) : r[k] = q[k]
        /\ r[Len(q) + 1] = f
    BY AppendProperties, LenProperties
  <2> QED BY <2>1
<1> HIDE DEF r
<1>3. ASSUME Ordered(q), \A a \in Addr : WaterTo(f, a) => ~Queried(q, a) PROVE Ordered(r)
  <2> SUFFICES ASSUME NEW k \in DOMAIN r, NEW m \in DOMAIN r, NEW a \in Addr,
                      k < m, r[k] = StatusFrame(a)
               PROVE  ~WaterTo(r[m], a)
    BY DEF Ordered
  <2>1. k \in DOMAIN q /\ r[k] = q[k] BY <1>2
  <2>2. CASE m \in DOMAIN q BY <1>2, <1>3, <2>1, <2>2 DEF Ordered
  <2>3. CASE m = Len(q) + 1
    <3>1. Queried(q, a) BY <2>1 DEF Queried, Frames
    <3> QED BY <1>2, <1>3, <2>3, <3>1
  <2> QED BY <1>2, <2>2, <2>3
<1> QED BY <1>1, <1>3 DEF Called, Queried, r

\* A queue gets no, one or two copies of a frame.
Gets(q, r, f) == r = q \/ r = Append(q, f) \/ r = Append(Append(q, f), f)

LEMMA GetsOrdered ==
  ASSUME NEW q \in Seq(Frame), NEW f \in Frame, NEW r, Gets(q, r, f)
  PROVE  /\ Frames(r) \subseteq Frames(q) \cup {f}
         /\ \A a : Called(r, a) => Called(q, a) \/ WaterTo(f, a)
         /\ \A a : Queried(r, a) => Queried(q, a) \/ f = StatusFrame(a)
         /\ Ordered(q) /\ (\A a \in Addr : WaterTo(f, a) => ~Queried(q, a)) => Ordered(r)
<1> DEFINE p == Append(q, f)
<1>1. /\ p \in Seq(Frame) /\ Frames(p) = Frames(q) \cup {f}
      /\ \A a : Called(p, a) <=> Called(q, a) \/ WaterTo(f, a)
      /\ \A a : Queried(p, a) <=> Queried(q, a) \/ f = StatusFrame(a)
      /\ Ordered(q) /\ (\A a \in Addr : WaterTo(f, a) => ~Queried(q, a)) => Ordered(p)
  BY Added, AppendOrdered
<1> HIDE DEF p
<1> DEFINE s == Append(p, f)
<1>2. /\ Frames(s) = Frames(p) \cup {f}
      /\ \A a : Called(s, a) <=> Called(p, a) \/ WaterTo(f, a)
      /\ \A a : Queried(s, a) <=> Queried(p, a) \/ f = StatusFrame(a)
      /\ Ordered(p) /\ (\A a \in Addr : WaterTo(f, a) => ~Queried(p, a)) => Ordered(s)
  BY <1>1, Added, AppendOrdered
<1>3. \A a : WaterTo(f, a) => f # StatusFrame(a) BY DEF WaterTo, StatusFrame
<1> HIDE DEF s
<1>4. CASE r = q BY <1>4
<1>5. CASE r = p BY <1>1, <1>5
<1>6. CASE r = s BY <1>1, <1>2, <1>3, <1>6
<1> QED BY <1>4, <1>5, <1>6 DEF Gets, p, s

\* How the queue of a node changes: nobody on the wire hears the answers.
LEMMA IncomingStep ==
  ASSUME SystemInv, OneRemoteNode, [SystemNext]_<<systemVars, faulty>>, NEW i \in Nodes
  PROVE  \/ incoming'[i] = incoming[i] \/ incoming'[i] = <<>>
         \/ /\ NodeReceive(i) /\ incoming[i] # <<>>
            /\ incoming'[i] = Tail(incoming[i])
         \/ /\ UartSend
            /\ \E g \in {ext_outgoing[1], OnWire(ext_outgoing[1])} :
                 Gets(incoming[i], incoming'[i], g)
<1>0. /\ QueuesTyped /\ NodesSound /\ Carry(HeadFrame, HeadFrame, Reply, Reply)
      /\ incoming \in [Nodes -> Seq(Frame)]
  BY DEF SystemInv, QueuesTyped
<1>1. CASE UNCHANGED incoming BY <1>1
<1>2. HeadReceive \/ HeadAct \/ UNCHANGED busVars \/ UartLocal => UNCHANGED incoming
  BY DEF HeadReceive, HeadAct, busVars, UartLocal
<1>3. Aside => UNCHANGED incoming BY AsideMovesNothing
<1>4. CASE KillNodeTask \/ PowerCycle BY <1>4 DEF KillNodeTask, PowerCycle
<1>5. CASE UartSend
  <2> DEFINE f == ext_outgoing[1]
  <2>1. PICK copies \in Copies(Listening) :
          incoming' = [j \in Nodes |->
              IF j = 0 THEN Sent(incoming[0], f)
              ELSE IF j \in DOMAIN copies
              THEN Delivered(incoming[j], OnWire(f), copies[j])
              ELSE incoming[j]]
    BY <1>5 DEF UartSend, Listening
  <2>2. DOMAIN copies = Listening /\ \A j \in Listening : copies[j] \in {0, 1, 2}
    BY CopiesOf
  <2>3. ASSUME NEW q, NEW g, NEW n \in {0, 1, 2}
        PROVE  /\ Gets(q, Sent(q, g), g)
               /\ Gets(q, Delivered(q, g, n), g)
    BY <2>3 DEF Gets, Sent, Line!Sent, Delivered
  <2>4. CASE i = 0
    <3>1. incoming'[i] = Sent(incoming[i], f) BY <2>1, <2>4
    <3> QED BY <1>5, <2>3, <3>1
  <2>5. CASE i # 0 /\ i \in Listening
    <3>1. incoming'[i] = Delivered(incoming[i], OnWire(f), copies[i]) BY <2>1, <2>2, <2>5
    <3>2. Gets(incoming[i], incoming'[i], OnWire(f)) BY <2>2, <2>3, <2>5, <3>1
    <3> QED BY <1>5, <3>2
  <2>6. CASE i # 0 /\ i \notin Listening BY <2>1, <2>2, <2>6
  <2> QED BY <2>4, <2>5, <2>6
<1>6. ASSUME NEW j \in Remotes, UartReply(j) PROVE UNCHANGED incoming
  <2>1. PICK copies \in Copies({0} \cup {k \in Remotes \ {j} : Powered(k)}) :
          incoming' = [k \in Nodes |->
            IF k \in DOMAIN copies \ {0}
            THEN Delivered(incoming[k], OnWire(outgoing[j][1]), copies[k]) ELSE incoming[k]]
    BY <1>6 DEF UartReply
  <2>2. {0} \cup {k \in Remotes \ {j} : Powered(k)} = {0} BY DEF OneRemoteNode
  <2>3. DOMAIN copies = {0} BY <2>1, <2>2, CopiesOf
  <2>4. incoming' = [k \in Nodes |-> incoming[k]] BY <2>1, <2>3
  <2> QED BY <1>0, <2>4
<1>7. ASSUME NEW j \in Nodes, NodeReceive(j)
      PROVE  \/ incoming'[i] = incoming[i]
             \/ /\ NodeReceive(i) /\ incoming[i] # <<>>
                /\ incoming'[i] = Tail(incoming[i])
  <2> DEFINE t == Tail(incoming[j])
  <2>1. incoming[j] # <<>> /\ incoming' = [incoming EXCEPT ![j] = t]
    BY <1>7 DEF NodeReceive, Line!receive
  <2> HIDE DEF t
  <2>2. CASE i = j
    <3>1. incoming'[i] = t BY <1>0, <2>1, <2>2
    <3> QED BY <1>7, <2>1, <2>2, <3>1 DEF t
  <2>3. CASE i # j BY <1>0, <2>1, <2>3
  <2> QED BY <2>2, <2>3
<1>8. CASE Bus BY <1>1, <1>2, <1>5, <1>6, <1>8 DEF Bus
<1>9. notify /\ UNCHANGED busVars => UNCHANGED incoming BY <1>2
<1> QED BY <1>1, <1>2, <1>3, <1>4, <1>7, <1>8, <1>9, SystemSteps

\* How the queue of the head changes.
LEMMA OutgoingStep ==
  ASSUME SystemInv, [SystemNext]_<<systemVars, faulty>>
  PROVE  \/ UNCHANGED ext_outgoing \/ PowerCycle
         \/ UartSend /\ ext_outgoing # <<>> /\ ext_outgoing' = Tail(ext_outgoing)
         \/ /\ HeadReceive \/ HeadAct
            /\ returned' # NoFrame /\ ext_outgoing' = Append(ext_outgoing, returned')
<1>1. CASE HeadReceive \/ HeadAct BY <1>1 DEF HeadReceive, HeadAct, send_returned
<1>2. UNCHANGED busVars \/ KillNodeTask => UNCHANGED ext_outgoing BY DEF busVars, KillNodeTask
<1>3. Aside => UNCHANGED ext_outgoing BY AsideMovesNothing
<1>4. CASE Bus BY <1>4 DEF Bus, UartSend, UartLocal, UartReply
<1>5. (\E i \in Nodes : NodeReceive(i)) => UNCHANGED ext_outgoing BY DEF NodeReceive
<1> QED BY <1>1, <1>2, <1>3, <1>4, <1>5, SystemSteps

LEMMA RoutedStep ==
  ASSUME SystemInv, OneRemoteNode, [SystemNext]_<<systemVars, faulty>>,
         NEW S \in SUBSET Frame, NEW A \in SUBSET Frame, Routed(S, A),
         HeadReceive \/ HeadAct => returned' \in S \cup {NoFrame},
         \A f \in S : OnWire(f) \in S,
         \A f \in A : OnWire(f) \in A,
         \A i \in Nodes : \A f \in S : \A answer :
           /\ NodeReceive(i) /\ incoming[i] # <<>> /\ f = incoming[i][1]
           /\ Answers(node[i], f, node'[i], answer)
           => answer \in A \cup {NoFrame}
  PROVE  Routed(S, A)'
<1>0. QueuesTyped /\ NodesSound /\ Carry(S, S, A, A) BY DEF SystemInv, Routed
<1>1. Carry(S, S, A, A)'
  <2>1. \A i \in Nodes : \A f \in Frame : \A answer :
           /\ NodeReceive(i) /\ f \in Frames(incoming[i]) /\ f = incoming[i][1]
           /\ Answers(node[i], f, node'[i], answer)
           /\ answer # NoFrame
           => answer \in (IF i = 0 THEN A ELSE A)
    <3> SUFFICES ASSUME NEW i \in Nodes, NEW f \in Frame, NEW answer,
                        NodeReceive(i), f \in Frames(incoming[i]), f = incoming[i][1],
                        Answers(node[i], f, node'[i], answer), answer # NoFrame
                 PROVE  answer \in A
      OBVIOUS
    <3>1. f \in S BY DEF Routed
    <3>2. incoming[i] # <<>> BY DEF NodeReceive, Line!receive
    <3> QED BY <3>1, <3>2
  <2> QED BY <1>0, <2>1, CarryStep
<1>2. ASSUME NEW i \in Nodes PROVE Frames(incoming'[i]) \subseteq S
  <2>1. /\ Frames(incoming[i]) \subseteq S /\ incoming[i] \in Seq(Frame)
        /\ ext_outgoing \in Seq(Frame) /\ Frames(ext_outgoing) \subseteq S
    BY <1>0 DEF Routed, Carry, QueuesTyped
  <2>2. CASE incoming'[i] = incoming[i] BY <2>1, <2>2
  <2>3. CASE incoming'[i] = <<>> BY <2>3 DEF Frames
  <2>4. CASE incoming[i] # <<>> /\ incoming'[i] = Tail(incoming[i]) BY <2>1, <2>4, Taken
  <2>5. ASSUME UartSend, NEW g \in {ext_outgoing[1], OnWire(ext_outgoing[1])},
               Gets(incoming[i], incoming'[i], g)
        PROVE  Frames(incoming'[i]) \subseteq S
    <3>1. ext_outgoing # <<>> BY <2>5 DEF UartSend
    <3>2. ext_outgoing[1] \in S BY <2>1, <3>1, Taken
    <3>3. g \in S /\ g \in Frame BY <2>5, <3>2
    <3>4. PICK r : r = incoming'[i] OBVIOUS
    <3>5. Frames(r) \subseteq Frames(incoming[i]) \cup {g}
      BY <2>1, <2>5, <3>3, <3>4, GetsOrdered
    <3> QED BY <2>1, <3>3, <3>4, <3>5
  <2> QED BY <2>2, <2>3, <2>4, <2>5, IncomingStep
<1> QED BY <1>1, <1>2 DEF Routed

-----------------------------------------------------------------------------
\* The steps of the head that may send.
HeadMove == HeadReceive \/ HeadAct

LEMMA MoveKnown ==
  ASSUME HeadMove
  PROVE  /\ pc' # pc /\ pc \in {"receive", "act", "command"}
         /\ UNCHANGED <<node, heard, incoming, outgoing>>
BY DEF HeadMove, HeadReceive, HeadAct, receive, pair, schedule, command, compare_statuses

\* How a node changes while it has power.
LEMMA NodeMoves ==
  ASSUME SystemInv, [SystemNext]_<<systemVars, faulty>>, NEW i \in Nodes,
         ~PowerCycle, ~KillNodeTask
  PROVE  \/ node'[i] = node[i]
         \/ Expired(node[i], node'[i])
         \/ /\ NodeReceive(i) /\ incoming[i] # <<>> /\ incoming'[i] = Tail(incoming[i])
            /\ \E answer : Answers(node[i], incoming[i][1], node'[i], answer)
<1>0. /\ QueuesTyped /\ NodesSound /\ Carry(HeadFrame, HeadFrame, Reply, Reply)
      /\ node \in [Nodes -> NodeType] /\ incoming \in [Nodes -> Seq(Frame)]
  BY DEF SystemInv, NodesSound, QueuesTyped
<1>1. CASE UNCHANGED node BY <1>1
<1>2. HeadReceive \/ HeadAct \/ Bus \/ UNCHANGED busVars => UNCHANGED node
  BY BusFinds, MoveKnown DEF HeadMove, busVars
<1>3. CASE Aside
  <2>1. ASSUME NEW j \in Nodes, NodeExpire(j)
        PROVE  node'[i] = node[i] \/ Expired(node[i], node'[i])
    <3>1. Expired(node[j], node'[j]) /\ node' = [node EXCEPT ![j] = node'[j]]
      BY <1>0, <2>1, NodeExpires
    <3>2. CASE i = j BY <3>1, <3>2
    <3>3. CASE i # j BY <1>0, <3>1, <3>3
    <3> QED BY <3>2, <3>3
  <2>2. CASE HostWrite \/ HostRead \/ UNCHANGED <<systemVars, faulty>>
    BY <2>2 DEF HostWrite, HostRead, systemVars, busVars
  <2> QED BY <1>3, <2>1, <2>2 DEF Aside
<1>4. ASSUME NEW j \in Nodes, NodeReceive(j)
      PROVE  \/ node'[i] = node[i]
             \/ /\ NodeReceive(i) /\ incoming[i] # <<>> /\ incoming'[i] = Tail(incoming[i])
                /\ \E answer : Answers(node[i], incoming[i][1], node'[i], answer)
  <2> DEFINE t == Tail(incoming[j])
  <2>1. PICK msg, answer : /\ msg = incoming[j][1] /\ incoming[j] # <<>>
                           /\ Answers(node[j], msg, node'[j], answer)
                           /\ node' = [node EXCEPT ![j] = node'[j]]
                           /\ incoming' = [incoming EXCEPT ![j] = t]
    BY <1>0, <1>4, NodeTakes
  <2> HIDE DEF t
  <2>2. CASE i = j
    <3>1. incoming'[i] = t BY <1>0, <2>1, <2>2
    <3> QED BY <1>4, <2>1, <2>2, <3>1 DEF t
  <2>3. CASE i # j BY <1>0, <2>1, <2>3
  <2> QED BY <2>2, <2>3
<1> QED BY <1>1, <1>2, <1>3, <1>4, SystemSteps

LEMMA RoundSentKnown ==
  ASSUME NEW f, f \in RoundSent
  PROVE  /\ f \in Frame /\ f \in HeadFrame /\ OnWire(f) = f /\ f.address \in Addr
         /\ f.command \in {"INIT_WATER_DURATIONS", "STATUS"}
         /\ f.command = "STATUS" => f = StatusFrame(f.address) /\ Commanded(f.address)
<1>1. /\ f \in HeadFrame /\ f.command \in {"INIT_WATER_DURATIONS", "STATUS"}
      /\ f.command = "STATUS" => Commanded(f.address)
  BY DEF RoundSent
<1>2. f \in Frame BY <1>1 DEF Frame
<1>3. OnWire(f) = f BY <1>1, WireHead
<1>4. f.address \in Addr BY <1>1, <1>2, FrameFields
<1>5. f.command = "STATUS" => f = StatusFrame(f.address)
  BY <1>1 DEF HeadFrame, DiscoveryFrame, AddressingFrame, AckFrame, WateringFrame, StatusFrame
<1> QED BY <1>1, <1>2, <1>3, <1>4, <1>5

\* The head sends a water command to address a.
Told(a) == HeadMove /\ WaterTo(returned', a)

\* In a round no node changes its address, and a node gets hot only by a command.
LEMMA HotStep ==
  ASSUME SystemInv, OneRemoteNode, [SystemNext]_<<systemVars, faulty>>,
         ~PowerCycle, ~KillNodeTask, Routed(RoundSent, RoundAnswer), NEW i \in Nodes
  PROVE  /\ node'[i].self_addr = node[i].self_addr
         /\ Hot(i)' => Hot(i) \/ Told(node[i].self_addr)
<1>0. /\ ext_outgoing \in Seq(Frame) /\ incoming[i] \in Seq(Frame)
      /\ node[i] \in NodeType
      /\ Frames(ext_outgoing) \subseteq RoundSent /\ Frames(incoming[i]) \subseteq RoundSent
  BY DEF SystemInv, QueuesTyped, NodesSound, Routed, Carry
<1>1. /\ node'[i].self_addr = node[i].self_addr
      /\ node'[i].solenoid => Hot(i)
  <2>1. CASE node'[i] = node[i] BY <2>1 DEF Hot
  <2> DEFINE n == node[i]
             m == node'[i]
  <2>2. CASE Expired(node[i], node'[i])
    <3>1. n \in NodeType /\ Expired(n, m) BY <1>0, <2>2
    <3> HIDE DEF n, m
    <3>2. m.self_addr = n.self_addr /\ (m.solenoid => n.solenoid)
      BY <3>1 DEF Expired, NodeType
    <3> QED BY <3>2 DEF n, m, Hot
  <2>3. ASSUME incoming[i] # <<>>, NEW answer,
               Answers(node[i], incoming[i][1], node'[i], answer)
        PROVE  m.self_addr = n.self_addr /\ (m.solenoid => Hot(i))
    <3> DEFINE msg == incoming[i][1]
    <3>1. msg \in Frames(incoming[i]) /\ msg \in RoundSent BY <1>0, <2>3, Taken
    <3>2. n \in NodeType /\ Answers(n, msg, m, answer) BY <1>0, <2>3
    <3> HIDE DEF n, m, msg
    <3>3. msg.command \in {"INIT_WATER_DURATIONS", "STATUS"} BY <3>1, RoundSentKnown
    <3>4. /\ m.self_addr = n.self_addr
          /\ m.solenoid => n.solenoid \/ WaterTo(msg, n.self_addr)
      BY <3>2, <3>3 DEF Answers, AddressedTo, WaterTo, NodeType
    <3>5. WaterTo(msg, n.self_addr) => Called(incoming[i], n.self_addr)
      BY <3>1 DEF Called
    <3> QED BY <3>4, <3>5 DEF n, Hot
  <2> QED BY <2>1, <2>2, <2>3, NodeMoves
<1> DEFINE a == node[i].self_addr
<1>2. Called(ext_outgoing', a) => Called(ext_outgoing, a) \/ Told(a)
  <2>1. CASE ext_outgoing # <<>> /\ ext_outgoing' = Tail(ext_outgoing)
    BY <1>0, <2>1, TailOrdered
  <2>2. CASE HeadMove /\ returned' # NoFrame /\ ext_outgoing' = Append(ext_outgoing, returned')
    <3>1. PICK r : r = returned' OBVIOUS
    <3>2. Frames(Append(ext_outgoing, r)) \subseteq Frames(ext_outgoing) \cup {r}
      <4>1. DOMAIN ext_outgoing = 1 .. Len(ext_outgoing)
        BY <1>0, LenProperties
      <4> QED BY <1>0, <4>1 DEF Frames
    <3> QED BY <2>2, <3>1, <3>2 DEF Called, Told
  <2> QED BY <2>1, <2>2, OutgoingStep DEF HeadMove
<1>3. Called(incoming'[i], a) => Called(incoming[i], a) \/ Called(ext_outgoing, a)
  <2>1. CASE incoming'[i] = <<>> BY <2>1 DEF Called, Frames
  <2>2. CASE incoming[i] # <<>> /\ incoming'[i] = Tail(incoming[i])
    BY <1>0, <2>2, TailOrdered
  <2>3. ASSUME UartSend, NEW g \in {ext_outgoing[1], OnWire(ext_outgoing[1])},
               Gets(incoming[i], incoming'[i], g)
        PROVE  Called(incoming'[i], a) => Called(incoming[i], a) \/ Called(ext_outgoing, a)
    <3>1. ext_outgoing # <<>> BY <2>3 DEF UartSend
    <3>2. ext_outgoing[1] \in Frames(ext_outgoing) BY <1>0, <3>1, Taken
    <3>3. g = ext_outgoing[1] /\ g \in Frame BY <1>0, <2>3, <3>2, RoundSentKnown
    <3>4. PICK r : r = incoming'[i] OBVIOUS
    <3>5. Called(r, a) => Called(incoming[i], a) \/ WaterTo(g, a)
      BY <1>0, <2>3, <3>3, <3>4, GetsOrdered
    <3> QED BY <3>2, <3>3, <3>4, <3>5 DEF Called
  <2> QED BY <2>1, <2>2, <2>3, IncomingStep
<1>4. Hot(i)' => node'[i].solenoid \/ Called(ext_outgoing', a) \/ Called(incoming'[i], a)
  BY <1>1 DEF Hot, Called
<1> QED BY <1>1, <1>2, <1>3, <1>4 DEF Hot

\* No command gets behind a STATUS, if the head sends none to an address it has
\* asked.
LEMMA OrderStep ==
  ASSUME SystemInv, OneRemoteNode, [SystemNext]_<<systemVars, faulty>>,
         Routed(RoundSent, RoundAnswer), InOrder,
         \A a \in Addr : Told(a) => /\ ~Queried(ext_outgoing, a)
                                    /\ \A i \in Nodes : ~Queried(incoming[i], a)
  PROVE  InOrder'
<1> DEFINE q == ext_outgoing
<1>0. /\ q \in Seq(Frame) /\ Frames(q) \subseteq RoundSent
      /\ \A i \in Nodes : incoming[i] \in Seq(Frame)
  BY DEF SystemInv, QueuesTyped, Routed, Carry
<1>1. /\ Ordered(q) /\ \A i \in Nodes : Ordered(incoming[i])
      /\ \A i \in Nodes : \A a \in Addr : Queried(incoming[i], a) => ~Called(q, a)
  BY DEF InOrder
<1>2. ASSUME HeadMove, returned' # NoFrame PROVE returned' \in Frame
  <2>1. returned' \in HeadFrame \cup {NoFrame} BY <1>2, HeadFramesSent DEF HeadMove, SystemInv
  <2> QED BY <1>2, <2>1 DEF Frame
<1>3. /\ Ordered(q')
      /\ \A a \in Addr : Called(q', a) => Called(q, a) \/ Told(a)
  <2>1. CASE UNCHANGED q BY <1>1, <2>1
  <2>2. CASE PowerCycle
    <3>1. q' = <<>> BY <2>2 DEF PowerCycle
    <3> QED BY <3>1 DEF Ordered, Called, Frames
  <2>3. CASE q # <<>> /\ q' = Tail(q)
    BY <1>0, <1>1, <2>3, TailOrdered
  <2>4. CASE HeadMove /\ returned' # NoFrame /\ q' = Append(q, returned')
    <3>1. PICK r : r = returned' OBVIOUS
    <3>2. r \in Frame BY <1>2, <2>4, <3>1
    <3>3. \A a \in Addr : WaterTo(r, a) => ~Queried(q, a)
      BY <2>4, <3>1 DEF Told
    <3>4. /\ \A a : Called(Append(q, r), a) <=> Called(q, a) \/ WaterTo(r, a)
          /\ Ordered(Append(q, r))
      BY <1>0, <1>1, <3>2, <3>3, AppendOrdered
    <3> QED BY <2>4, <3>1, <3>4 DEF Told
  <2> QED BY <2>1, <2>2, <2>3, <2>4, OutgoingStep DEF HeadMove
<1>4. ASSUME NEW i \in Nodes
      PROVE  /\ Ordered(incoming'[i])
             /\ \A a \in Addr : Queried(incoming'[i], a) => ~Called(q', a)
  <2>1. CASE incoming'[i] = <<>> BY <2>1 DEF Ordered, Queried, Frames
  <2>2. CASE incoming'[i] = incoming[i] BY <1>1, <1>3, <2>2
  <2>3. CASE incoming[i] # <<>> /\ incoming'[i] = Tail(incoming[i])
    <3>1. /\ \A a : Queried(Tail(incoming[i]), a) => Queried(incoming[i], a)
          /\ Ordered(Tail(incoming[i]))
      BY <1>0, <1>1, <2>3, TailOrdered
    <3> QED BY <1>1, <1>3, <2>3, <3>1
  <2>4. ASSUME UartSend, NEW g \in {q[1], OnWire(q[1])}, Gets(incoming[i], incoming'[i], g)
        PROVE  /\ Ordered(incoming'[i])
               /\ \A a \in Addr : Queried(incoming'[i], a) => ~Called(q', a)
    <3>1. q # <<>> /\ q' = Tail(q) BY <2>4 DEF UartSend
    <3>2. q[1] \in Frames(q) BY <1>0, <3>1, Taken
    <3>3. g = q[1] /\ g \in Frame BY <1>0, <2>4, <3>2, RoundSentKnown
    <3>4. PICK r : r = incoming'[i] OBVIOUS
    <3>5. \A a \in Addr : WaterTo(g, a) => ~Queried(incoming[i], a)
      BY <1>1, <3>2, <3>3 DEF Called
    <3>6. /\ Ordered(r)
          /\ \A a : Queried(r, a) => Queried(incoming[i], a) \/ g = StatusFrame(a)
      BY <1>0, <1>1, <2>4, <3>3, <3>4, <3>5, GetsOrdered
    <3>7. /\ \A a : Called(Tail(q), a) => Called(q, a)
          /\ \A a \in Addr : q[1] = StatusFrame(a) => ~Called(Tail(q), a)
      BY <1>0, <1>1, <3>1, TailOrdered
    <3> QED BY <1>1, <3>1, <3>3, <3>4, <3>6, <3>7
  <2> QED BY <2>1, <2>2, <2>3, <2>4, IncomingStep
<1>5. ASSUME NEW i \in Nodes
      PROVE  /\ Ordered(incoming[i])'
             /\ \A a \in Addr : Queried(incoming[i], a)' => ~Called(ext_outgoing, a)'
  BY <1>4 DEF Ordered, Queried, Called
<1>6. Ordered(ext_outgoing)' BY <1>3
<1> QED BY <1>5, <1>6 DEF InOrder

\* A node that is ready, or has just started, is closed: it is the ACK of a pairing
\* that would call an open node ready, and none is under way in a round.
LEMMA ClosedStep ==
  ASSUME SystemInv, AgreementInv, [SystemNext]_<<systemVars, faulty>>,
         Routed(RoundSent, RoundAnswer), ClosedUnlessWatering
  PROVE  ClosedUnlessWatering'
<1> SUFFICES ASSUME NEW i \in Nodes, node'[i].status \in {"INITIALIZING", "READY"}
             PROVE  ~node'[i].solenoid
  BY DEF ClosedUnlessWatering
<1> DEFINE n == node[i]
           m == node'[i]
<1>0. n \in NodeType /\ SoundNode(n) /\ (n.status \in {"INITIALIZING", "READY"} => ~n.solenoid)
  BY DEF SystemInv, NodesSound, ClosedUnlessWatering
<1>1. CASE PowerCycle \/ KillNodeTask
  <2>1. m = Line!NewSelfNode BY <1>1, NodesChangedToNew
  <2> QED BY <2>1 DEF Line!NewSelfNode
<1>2. CASE m = n BY <1>0, <1>2
<1>3. CASE Expired(n, m)
  <2> HIDE DEF n, m
  <2>1. ~m.solenoid \/ m.status = "ERR" BY <1>0, <1>3 DEF Expired, NodeType
  <2> QED BY <2>1 DEF m
<1>4. ASSUME incoming[i] # <<>>, NEW answer, Answers(n, incoming[i][1], m, answer)
      PROVE  ~m.solenoid
  <2> DEFINE msg == incoming[i][1]
  <2>1. incoming[i] \in Seq(Frame) /\ Frames(incoming[i]) \subseteq RoundSent
    BY DEF SystemInv, QueuesTyped, Routed
  <2>2. msg \in RoundSent BY <1>4, <2>1, Taken
  <2>3. Answers(n, msg, m, answer) /\ m.status \in {"INITIALIZING", "READY"} BY <1>4
  <2> HIDE DEF n, m, msg
  <2>4. msg.command \in {"INIT_WATER_DURATIONS", "STATUS"} BY <2>2, RoundSentKnown
  <2> QED BY <1>0, <2>3, <2>4 DEF Answers, NodeType
<1> QED BY <1>1, <1>2, <1>3, <1>4, NodeMoves

LEMMA OneAtEachAddress ==
  ASSUME AgreementInv, OneRemoteNode, NEW i \in Nodes, NEW j \in Nodes,
         node[i].self_addr \in Addr, node[j].self_addr = node[i].self_addr
  PROVE  i = j
<1>1. node[i].self_addr # ADDR_UNSET BY MaxNodesAssumption DEF Addr, ADDR_UNSET
<1>2. \A k \in Nodes : k = 0 \/ (k = 1 /\ k \in Remotes) BY DEF OneRemoteNode, Remotes
<1> QED BY <1>1, <1>2 DEF AgreementInv, OwnAddress

\* What a node answers in a round: when it says that it is ready, no command is on
\* its way to it.
LEMMA AnswerInRound ==
  ASSUME SystemInv, AgreementInv, OneRemoteNode, [SystemNext]_<<systemVars, faulty>>,
         ~PowerCycle, ~KillNodeTask,
         Routed(RoundSent, RoundAnswer), InOrder, ClosedUnlessWatering,
         NEW i \in Nodes, NodeReceive(i), incoming[i] # <<>>,
         NEW answer, Answers(node[i], incoming[i][1], node'[i], answer)
  PROVE  answer \in RoundAnswer' \cup {NoFrame}
<1>1. PICK a : a = node[i].self_addr OBVIOUS
<1> DEFINE n == node[i]
           msg == incoming[i][1]
<1>2. /\ incoming \in [Nodes -> Seq(Frame)] /\ Frames(incoming[i]) \subseteq RoundSent
      /\ SoundNode(n) /\ n \in NodeType
  BY DEF SystemInv, QueuesTyped, NodesSound, Routed
<1>3. msg \in Frames(incoming[i]) /\ msg \in RoundSent BY <1>2, Taken
<1>4. /\ msg \in Frame /\ msg.address \in Addr
      /\ msg.command \in {"INIT_WATER_DURATIONS", "STATUS"}
      /\ msg.command = "STATUS" => msg = StatusFrame(msg.address) /\ Commanded(msg.address)
  BY <1>3, RoundSentKnown
<1>5. /\ UNCHANGED <<node_link, ext_outgoing, pc>>
      /\ incoming'[i] = Tail(incoming[i])
  <2> DEFINE t == Tail(incoming[i])
  <2>1. UNCHANGED <<node_link, ext_outgoing, pc>> /\ incoming' = [incoming EXCEPT ![i] = t]
    BY DEF NodeReceive, Line!receive, allVars, vars, taskVars
  <2> HIDE DEF t
  <2>2. incoming'[i] = t BY <1>2, <2>1
  <2> QED BY <2>1, <2>2 DEF t
<1>6. answer \in Reply \cup {NoFrame} BY <1>2, <1>4, AnswerIsSound
<1>7. \/ answer = NoFrame
      \/ answer = AckFrame(a)
      \/ /\ msg.command = "STATUS" /\ msg.address = a /\ node'[i] = n
         /\ answer = StatusReply(a, n.status)
  BY <1>4, <1>1 DEF Answers, AddressedTo
<1>8. CASE answer = AckFrame(a)
  <2>1. answer # NoFrame /\ answer.command = "ACK" BY <1>8 DEF AckFrame, NoFrame
  <2> QED BY <1>6, <2>1 DEF RoundAnswer
<1>9. CASE /\ msg.command = "STATUS" /\ msg.address = a /\ node'[i] = n
           /\ answer = StatusReply(a, n.status)
  <2>1. /\ answer # NoFrame /\ answer.command = "STATUS" /\ answer.address = a
        /\ answer.status = n.status
    BY <1>9 DEF StatusReply, NoFrame
  <2>2. a \in Addr /\ Commanded(a)' BY <1>4, <1>5, <1>9 DEF Commanded, get_node_status
  <2>3. ASSUME n.status \in {"INITIALIZING", "READY"} PROVE Cooled(a)'
    <3> SUFFICES ASSUME NEW j \in Nodes, node'[j].self_addr = a PROVE ~Hot(j)'
      BY DEF Cooled
    <3>1. node'[j].self_addr = node[j].self_addr BY HotStep
    <3>2. i = j BY <1>1, <2>2, <3>1, OneAtEachAddress
    <3>3. ~node'[i].solenoid BY <1>9, <2>3 DEF ClosedUnlessWatering
    <3>4. Queried(incoming[i], a) BY <1>3, <1>4, <1>9 DEF Queried
    <3>5. ~Called(ext_outgoing', a) BY <1>5, <2>2, <3>4 DEF InOrder
    <3>6. ~Called(incoming'[i], a)
      <4>1. Ordered(incoming[i]) /\ incoming[i] \in Seq(Frame) BY <1>2 DEF InOrder
      <4> QED BY <1>4, <1>5, <1>9, <2>2, <4>1, TailOrdered
    <3>7. node'[i].self_addr = a BY <1>9, <1>1
    <3> QED BY <3>2, <3>3, <3>5, <3>6, <3>7 DEF Hot, Called
  <2>4. answer \in Reply BY <1>6, <2>1
  <2>5. PICK r : r = answer OBVIOUS
  <2>6. \/ n.status \notin {"INITIALIZING", "READY"}
        \/ Cooled(r.address)'
    BY <2>1, <2>3, <2>5 DEF Cooled
  <2>7. Commanded(r.address)' BY <2>1, <2>2, <2>5 DEF Commanded, get_node_status
  <2>8. r \in RoundAnswer' BY <2>1, <2>4, <2>5, <2>6, <2>7 DEF RoundAnswer
  <2> QED BY <2>5, <2>8
<1> QED BY <1>7, <1>8, <1>9

\* Once past its command, an address stays past it, and gets none more.
HeadKeepsOrder ==
  /\ \A a \in Addr : Commanded(a) => Commanded(a)' /\ ~Told(a)
  /\ HeadMove => returned' \in RoundSent' \cup {NoFrame}

LEMMA RoundRoutedStep ==
  ASSUME SystemInv, AgreementInv, OneRemoteNode, [SystemNext]_<<systemVars, faulty>>,
         ~PowerCycle, ~KillNodeTask,
         Routed(RoundSent, RoundAnswer), InOrder, ClosedUnlessWatering,
         HeadKeepsOrder
  PROVE  Routed(RoundSent, RoundAnswer)'
<1>1. PICK S, A : S = RoundSent' /\ A = RoundAnswer' OBVIOUS
<1>2. \A a \in Addr : Commanded(a) /\ Cooled(a) => Cooled(a)'
  <2> SUFFICES ASSUME NEW a \in Addr, Commanded(a), Cooled(a),
                      NEW i \in Nodes, node'[i].self_addr = a
               PROVE  ~Hot(i)'
    BY DEF Cooled
  <2>1. node[i].self_addr = a /\ (Hot(i)' => Hot(i) \/ Told(a)) BY HotStep
  <2> QED BY <2>1 DEF Cooled, HeadKeepsOrder
<1>3. RoundSent \subseteq S
  <2> SUFFICES ASSUME NEW f \in RoundSent PROVE f \in S OBVIOUS
  <2>1. f.command = "STATUS" => Commanded(f.address)' BY RoundSentKnown DEF HeadKeepsOrder
  <2> QED BY <1>1, <2>1 DEF RoundSent, Commanded, get_node_status
<1>4. RoundAnswer \subseteq A
  <2> SUFFICES ASSUME NEW f \in RoundAnswer PROVE f \in A OBVIOUS
  <2>1. f \in Reply /\ f.command \in {"ACK", "STATUS"} BY DEF RoundAnswer
  <2>2. f.address \in Addr BY <2>1, FrameFields DEF Frame
  <2>3. f.command = "STATUS" => Commanded(f.address)'
    BY <2>2 DEF RoundAnswer, HeadKeepsOrder
  <2>4. f.command = "STATUS" /\ f.status \in {"INITIALIZING", "READY"} => Cooled(f.address)'
    BY <1>2, <2>2 DEF RoundAnswer
  <2> QED BY <1>1, <2>1, <2>3, <2>4 DEF RoundAnswer, Commanded, get_node_status, Cooled
<1>5. Routed(S, A) BY <1>3, <1>4 DEF Routed, Carry
<1>6. S \in SUBSET Frame /\ A \in SUBSET Frame
  BY <1>1 DEF RoundSent, RoundAnswer, Frame
<1>7. \A f \in S : OnWire(f) \in S
  <2> SUFFICES ASSUME NEW f \in S PROVE OnWire(f) = f OBVIOUS
  <2>1. f \in HeadFrame /\ f.command \in {"INIT_WATER_DURATIONS", "STATUS"}
    BY <1>1 DEF RoundSent
  <2> QED BY <2>1, WireHead
<1>8. \A f \in A : OnWire(f) \in A
  <2> SUFFICES ASSUME NEW f \in A PROVE OnWire(f) = f OBVIOUS
  <2>1. f \in Reply BY <1>1 DEF RoundAnswer
  <2> QED BY <2>1, WireReply
<1>9. \A i \in Nodes : \A f \in S : \A answer :
           /\ NodeReceive(i) /\ incoming[i] # <<>> /\ f = incoming[i][1]
           /\ Answers(node[i], f, node'[i], answer)
           => answer \in A \cup {NoFrame}
  BY <1>1, AnswerInRound
<1>10. HeadReceive \/ HeadAct => returned' \in S \cup {NoFrame}
  BY <1>1 DEF HeadMove, HeadKeepsOrder
<1>11. Routed(S, A)' BY <1>5, <1>6, <1>7, <1>8, <1>9, <1>10, RoutedStep
<1> QED BY <1>1, <1>11 DEF Routed, Carry

LEMMA HotKnown ==
  ASSUME SystemInv, HotIsActive, pc # "kill_node_task", NEW i \in Nodes, Hot(i)
  PROVE  \/ head_status = "FAULTY_NODE" /\ active_watering_index = NoIndex
         \/ /\ head_status = "WATERING_CMDS" /\ active_watering_index = node[i].self_addr
            /\ active_watering_index \in Addr /\ active_watering_index # NoIndex
            /\ Exists(active_watering_index)
            /\ get_node_status(active_watering_index) \in {"COMMAND_SENT", "WATERING"}
<1>1. /\ active_watering_index \in Addr \cup {NoIndex} /\ ActiveIsInRound
      /\ node[i].self_addr \in Addr \cup {ADDR_UNSET}
  BY DEF SystemInv, IInv, TypeOK, NodesSound, NodeType
<1>2. NoIndex \notin Addr \cup {ADDR_UNSET}
  BY MaxNodesAssumption DEF NoIndex, Addr, ADDR_UNSET
<1> QED BY <1>1, <1>2 DEF HotIsActive, ActiveIsInRound

\* What a step of a round comes down to: the frame that the head sends, and what it
\* knows of the node that is hot.
RoundGoesOn ==
  /\ HeadKeepsOrder \/ Quiet'
  /\ HotIsActive' /\ OneIsHot'
  /\ head_status' # "PAIRING" \/ pc' = "kill_node_task"

LEMMA RoundContinues ==
  ASSUME SystemInv, AgreementInv, OneRemoteNode, [SystemNext]_<<systemVars, faulty>>,
         ~PowerCycle, ~KillNodeTask, InRound, RoundGoesOn
  PROVE  InRound'
<1>0. /\ Routed(RoundSent, RoundAnswer) /\ InOrder /\ ClosedUnlessWatering
  BY DEF InRound
<1>1. /\ HeadKeepsOrder \/ Quiet'
      /\ HotIsActive' /\ OneIsHot'
      /\ head_status' # "PAIRING" \/ pc' = "kill_node_task"
  BY DEF RoundGoesOn
<1>2. ClosedUnlessWatering' BY <1>0, ClosedStep
<1>3. CASE HeadKeepsOrder
  <2>1. Routed(RoundSent, RoundAnswer)' BY <1>0, <1>3, RoundRoutedStep
  <2>2. ASSUME NEW a \in Addr, Told(a)
        PROVE  ~Queried(ext_outgoing, a) /\ \A i \in Nodes : ~Queried(incoming[i], a)
    <3>1. ~Commanded(a) BY <1>3, <2>2 DEF HeadKeepsOrder
    <3>2. StatusFrame(a) \notin RoundSent BY <3>1 DEF RoundSent, StatusFrame
    <3> QED BY <1>0, <3>2 DEF Queried, Routed, Carry
  <2>3. InOrder' BY <1>0, <2>2, OrderStep
  <2> QED BY <1>1, <1>2, <2>1, <2>3 DEF InRound
<1>4. CASE Quiet'
  <2>1. /\ ext_outgoing' = <<>> /\ \A i \in Nodes : incoming'[i] = <<>>
    BY <1>4 DEF Quiet, Arrived
  <2>2. Frames(<<>>) = {} BY DEF Frames
  <2>3. PICK S, A : S = RoundSent' /\ A = RoundAnswer' OBVIOUS
  <2>4. Carry(S, S, A, A)' BY <1>4, NothingUnderWayNext
  <2>5. Routed(S, A)' BY <2>1, <2>2, <2>4 DEF Routed, Frames
  <2>6. Routed(RoundSent, RoundAnswer)' BY <2>3, <2>5 DEF Routed, Carry
  <2>7. InOrder' BY <2>1, <2>2 DEF InOrder, Ordered, Queried, Frames
  <2> QED BY <1>1, <1>2, <2>6, <2>7 DEF InRound
<1> QED BY <1>1, <1>3, <1>4

-----------------------------------------------------------------------------
\* The head knows of a hot node at address a.
Watched(a) ==
  \/ head_status = "FAULTY_NODE" /\ active_watering_index = NoIndex
  \/ /\ head_status = "WATERING_CMDS" /\ active_watering_index = a
     /\ a \in Addr /\ get_node_status(a) \in {"COMMAND_SENT", "WATERING"}

LEMMA HotIsWatched ==
  ASSUME SystemInv, HotIsActive, pc # "kill_node_task", NEW a, ~Cooled(a)
  PROVE  Watched(a)
<1>1. PICK i \in Nodes : node[i].self_addr = a /\ Hot(i) BY DEF Cooled
<1> QED BY <1>1, HotKnown DEF Watched

\* A step that opens no valve.
LEMMA NothingTold ==
  ASSUME SystemInv, AgreementInv, OneRemoteNode, [SystemNext]_<<systemVars, faulty>>,
         ~PowerCycle, ~KillNodeTask, InRound,
         \A a : ~Told(a),
         \A a \in Addr : Commanded(a) => Commanded(a)',
         HeadMove => returned' \in RoundSent' \cup {NoFrame},
         \A a : ~Cooled(a) /\ pc' # "kill_node_task" => Watched(a)',
         head_status' # "PAIRING" \/ pc' = "kill_node_task"
  PROVE  InRound'
<1>0. /\ Routed(RoundSent, RoundAnswer) /\ HotIsActive /\ OneIsHot
  BY DEF InRound
<1>1. \A i \in Nodes : node'[i].self_addr = node[i].self_addr /\ (Hot(i)' => Hot(i))
  BY <1>0, HotStep
<1>2. OneIsHot' BY <1>0, <1>1 DEF OneIsHot
<1>3. HotIsActive'
  <2> SUFFICES ASSUME pc' # "kill_node_task", NEW i \in Nodes, Hot(i)'
               PROVE  \/ head_status' = "FAULTY_NODE" /\ active_watering_index' = NoIndex
                      \/ /\ head_status' = "WATERING_CMDS"
                         /\ active_watering_index' = node'[i].self_addr
                         /\ get_node_status(active_watering_index)' \in {"COMMAND_SENT", "WATERING"}
    BY DEF HotIsActive
  <2>1. PICK a : a = node[i].self_addr OBVIOUS
  <2>2. node'[i].self_addr = a /\ ~Cooled(a) BY <1>1, <2>1 DEF Cooled
  <2>3. Watched(a)' BY <2>2
  <2> QED BY <2>2, <2>3 DEF Watched, get_node_status
<1>4. RoundGoesOn BY <1>2, <1>3 DEF RoundGoesOn, HeadKeepsOrder
<1> QED BY <1>4, RoundContinues

\* A step that tells the head nothing of a node.
LEMMA SteadyInRound ==
  ASSUME SystemInv, AgreementInv, OneRemoteNode, [SystemNext]_<<systemVars, faulty>>,
         ~PowerCycle, ~KillNodeTask, InRound,
         HeadMove => returned' = NoFrame,
         UNCHANGED roundVars, \A a \in Addr : get_node_status(a)' = get_node_status(a),
         pc = "kill_node_task" => pc' = "kill_node_task"
  PROVE  InRound'
<1>1. \A a : ~Told(a) BY DEF Told, WaterTo, NoFrame
<1>2. \A a \in Addr : Commanded(a) => Commanded(a)' BY DEF Commanded
<1>3. ASSUME NEW a, ~Cooled(a), pc' # "kill_node_task" PROVE Watched(a)'
  <2>1. Watched(a) BY <1>3, HotIsWatched DEF InRound
  <2> QED BY <2>1 DEF Watched, roundVars
<1>4. HeadMove => returned' \in RoundSent' \cup {NoFrame} OBVIOUS
<1>5. head_status' # "PAIRING" \/ pc' = "kill_node_task" BY DEF InRound, roundVars
<1> QED BY <1>1, <1>2, <1>3, <1>4, <1>5, NothingTold

LEMMA StatusUpdated ==
  ASSUME IInv, NEW b \in Addr, Exists(b), NEW s \in NodeStatus,
         \/ node_link' = [node_link EXCEPT ![b].node_status = s, ![b].retry_attempts = 0]
         \/ node_link' = [node_link EXCEPT ![b].retry_attempts = 0, ![b].node_status = s]
  PROVE  \A a \in Addr : get_node_status(a)' = IF a = b THEN s ELSE get_node_status(a)
<1>1. node_link[b] \in Node /\ node_link \in [Addr -> Node \cup {NullNode}]
  BY ExistingNode DEF IInv, TypeOK
<1>2. PICK n : /\ node_link' = [node_link EXCEPT ![b] = n]
               /\ n = [node_link[b] EXCEPT !.node_status = s, !.retry_attempts = 0]
  BY <1>1
<1>3. n.node_status = s BY <1>1, <1>2 DEF Node
<1> QED BY <1>1, <1>2, <1>3 DEF get_node_status

\* What a frame of a round tells the head.
LEMMA RoundHandled ==
  ASSUME SystemInv, NEW f \in RoundAnswer, handle_incoming_frame(f),
         head_status # "PAIRING"
  PROVE  /\ returned' = NoFrame /\ head_status' # "PAIRING"
         /\ \A a \in Addr : Commanded(a) => Commanded(a)'
         /\ \A a : ~Cooled(a) /\ Watched(a) => Watched(a)'
<1>1. PICK b \in Addr : b = f.address
  BY FrameFields DEF RoundAnswer, Frame
<1>2. /\ IInv
      /\ \/ f.command = "ACK" /\ handle_ack(b)
         \/ f.command = "STATUS" /\ handle_incoming_node_status(b, f.status)
  BY <1>1 DEF handle_incoming_frame, RoundAnswer, SystemInv
<1>3. CASE Panic
  BY <1>3 DEF Panic, roundVars, Commanded, Watched, get_node_status
<1>4. CASE /\ Exists(b) /\ f.command = "ACK"
           /\ node_link' = [node_link EXCEPT ![b].node_status = "WATERING",
                                             ![b].retry_attempts = 0]
           /\ returned' = NoFrame
           /\ UNCHANGED roundVars
  <2>1. "WATERING" \in NodeStatus BY DEF NodeStatus
  <2>2. \A a \in Addr :
          get_node_status(a)' = IF a = b THEN "WATERING" ELSE get_node_status(a)
    BY <1>2, <1>4, <2>1, StatusUpdated
  <2>3. \A a \in Addr : Commanded(a) => Commanded(a)' BY <2>2 DEF Commanded
  <2>4. ASSUME NEW a, Watched(a) PROVE Watched(a)' BY <1>4, <2>2, <2>4 DEF Watched, roundVars
  <2> QED BY <1>4, <2>3, <2>4 DEF roundVars
<1>5. CASE /\ Exists(b) /\ f.command = "STATUS"
           /\ node_link' = [node_link EXCEPT ![b].retry_attempts = 0,
                                             ![b].node_status = f.status]
           /\ returned' = NoFrame
           /\ \/ /\ f.status = "READY" /\ b = active_watering_index
                 /\ advance_active_watering_index(node_link')
              \/ f.status = "ERR" /\ conclude_watering("FAULTY_NODE")
              \/ /\ f.status # "ERR" /\ ~(f.status = "READY" /\ b = active_watering_index)
                 /\ UNCHANGED roundVars
  <2>1. PICK s : s = f.status OBVIOUS
  <2>2. /\ s \in ReportedStatus
        /\ s \in {"INITIALIZING", "READY"} => Cooled(b)
    <3>1. f \in Reply /\ f.command = "STATUS" BY <1>5 DEF RoundAnswer
    <3>2. f.status \in ReportedStatus
      BY <3>1 DEF Reply, DiscoveryFrame, AddressingFrame, AckFrame, StatusReply
    <3> QED BY <1>1, <1>5, <2>1, <3>2 DEF RoundAnswer
  <2>3. \A a \in Addr : get_node_status(a)' = IF a = b THEN s ELSE get_node_status(a)
    BY <1>2, <1>5, <2>1, <2>2, StatusUpdated DEF ReportedStatus, NodeStatus
  <2>4. \A a \in Addr : Commanded(a) => Commanded(a)'
    BY <2>2, <2>3 DEF Commanded, ReportedStatus
  <2>5. CASE s = "READY" /\ b = active_watering_index
    <3>1. head_status' # "PAIRING"
      <4>1. advance_active_watering_index(node_link') BY <1>5, <2>1, <2>5
      <4> QED BY <4>1 DEF advance_active_watering_index, conclude_watering
    <3>2. ASSUME NEW a, ~Cooled(a), Watched(a) PROVE FALSE
      <4>1. b # NoIndex BY <1>1, MaxNodesAssumption DEF Addr, NoIndex
      <4> QED BY <2>2, <2>5, <3>2, <4>1 DEF Watched
    <3> QED BY <1>5, <2>4, <3>1, <3>2
  <2>6. CASE s = "ERR"
    <3>1. head_status' = "FAULTY_NODE" /\ active_watering_index' = NoIndex
      BY <1>5, <2>1, <2>6 DEF conclude_watering
    <3> QED BY <1>5, <2>4, <3>1 DEF Watched
  <2>7. CASE s # "ERR" /\ ~(s = "READY" /\ b = active_watering_index)
    <3>1. UNCHANGED roundVars BY <1>5, <2>1, <2>7
    <3>2. ASSUME NEW a, ~Cooled(a), Watched(a) PROVE Watched(a)'
      <4>1. a = b => s = "WATERING" BY <2>2, <2>7, <3>2 DEF ReportedStatus
      <4> QED BY <2>3, <3>1, <3>2, <4>1 DEF Watched, roundVars
    <3> QED BY <1>5, <2>4, <3>1, <3>2 DEF roundVars
  <2> QED BY <2>5, <2>6, <2>7
<1> QED BY <1>2, <1>3, <1>4, <1>5 DEF handle_ack, handle_incoming_node_status

LEMMA TakenInRound ==
  ASSUME SystemInv, AgreementInv, OneRemoteNode, [SystemNext]_<<systemVars, faulty>>,
         ~PowerCycle, ~KillNodeTask, InRound, HeadReceive
  PROVE  InRound'
<1>0. /\ Routed(RoundSent, RoundAnswer) /\ HotIsActive
      /\ HeadMove /\ pc # "kill_node_task" /\ head_status # "PAIRING"
  BY MoveKnown DEF InRound, HeadMove
<1>1. \/ receive(NoFrame)
      \/ \E f \in RoundAnswer : receive(f) /\ f # NoFrame
  <2>1. PICK H, R : H = RoundSent /\ R = RoundAnswer OBVIOUS
  <2>2. QueuesTyped /\ Carry(H, H, R, R) BY <1>0, <2>1 DEF Routed, SystemInv
  <2>3. \/ receive(NoFrame)
        \/ \E f \in Frames(ext_incoming) \cap Frame \cap (R \cup R) : receive(f)
    BY <2>2, HeadTakes
  <2> QED BY <2>1, <2>3, FrameFields
<1>2. CASE receive(NoFrame)
  <2>1. /\ returned' = NoFrame /\ UNCHANGED roundVars
        /\ \A a \in Addr : get_node_status(a)' = get_node_status(a)
    BY <1>2 DEF receive, get_node_status
  <2> QED BY <1>0, <2>1, SteadyInRound
<1>3. ASSUME NEW f \in RoundAnswer, receive(f), f # NoFrame PROVE InRound'
  <2>1. handle_incoming_frame(f) BY <1>3 DEF receive
  <2>2. /\ returned' = NoFrame /\ head_status' # "PAIRING"
        /\ \A a \in Addr : Commanded(a) => Commanded(a)'
        /\ \A a : ~Cooled(a) /\ Watched(a) => Watched(a)'
    BY <1>0, <2>1, RoundHandled
  <2>3. \A a : ~Told(a) BY <2>2 DEF Told, WaterTo, NoFrame
  <2>4. \A a : ~Cooled(a) => Watched(a)' BY <1>0, <2>2, HotIsWatched
  <2> QED BY <2>2, <2>3, <2>4, NothingTold
<1> QED BY <1>1, <1>2, <1>3

\* No node is hot when a round is not on and has not been given up.
LEMMA AllCooled ==
  ASSUME SystemInv, HotIsActive, pc # "kill_node_task",
         head_status \notin {"WATERING_CMDS", "FAULTY_NODE"}
  PROVE  \A i \in Nodes : ~Hot(i)
BY HotKnown

\* Nothing is under way and no valve is open: whatever the head does, it begins afresh.
LEMMA AtRest == Quiet /\ AllClosed => ValveInv
<1> SUFFICES ASSUME Quiet, AllClosed PROVE ValveInv OBVIOUS
<1>1. /\ ext_outgoing = <<>> /\ \A i \in Nodes : incoming[i] = <<>>
  BY DEF Quiet, Arrived
<1>2. /\ Frames(<<>>) = {} /\ Ordered(<<>>)
      /\ \A a : ~Called(<<>>, a) /\ ~Queried(<<>>, a)
  BY DEF Frames, Ordered, Called, Queried
<1>3. ASSUME NEW S, NEW A PROVE Routed(S, A)
  BY <1>1, <1>2, NothingUnderWay DEF Routed
<1>4. CASE head_status \in {"PAIRING", "STANDBY"}
  <2>1. PICK S, A : S = PairingSent /\ A = PairingAnswer OBVIOUS
  <2>2. Routed(S, A) BY <1>3
  <2> QED BY <1>4, <2>1, <2>2 DEF ValveInv, InPairing
<1>5. CASE head_status # "PAIRING"
  <2>1. PICK S, A : S = RoundSent /\ A = RoundAnswer OBVIOUS
  <2>2. Routed(S, A) BY <1>3
  <2>3. \A i \in Nodes : ~Hot(i) BY <1>1, <1>2 DEF Hot, AllClosed
  <2>4. InOrder BY <1>1, <1>2 DEF InOrder
  <2> QED BY <1>5, <2>1, <2>2, <2>3, <2>4
          DEF ValveInv, InRound, HotIsActive, OneIsHot, ClosedUnlessWatering, AllClosed
<1> QED BY <1>4, <1>5

\* What the head does about the active node: it sends the command, asks for the
\* status, gives the node up, or ends the round.
StatusesBut(i, s) ==
  \A a \in Addr : get_node_status(a)' = IF a = i THEN s ELSE get_node_status(a)

LEMMA CommandKnown ==
  ASSUME SystemInv, next_watering_frame, NEW i, i = active_watering_index
  PROVE  /\ head_status = "WATERING_CMDS"
         /\ \/ /\ i \in Addr /\ get_node_status(i) \in {"IN_QUEUE", "COMMAND_SENT"}
               /\ StatusesBut(i, "COMMAND_SENT") /\ UNCHANGED roundVars
               /\ \E d \in Durations : returned' = WateringFrame(i, d)
            \/ /\ i \in Addr /\ get_node_status(i) = "WATERING"
               /\ StatusesBut(i, "WATERING") /\ UNCHANGED roundVars
               /\ returned' = StatusFrame(i)
            \/ /\ returned' = NoFrame /\ StatusesBut(i, "ERR")
               /\ head_status' = "FAULTY_NODE" /\ active_watering_index' = NoIndex
            \/ /\ returned' = NoFrame /\ UNCHANGED node_link
               /\ head_status' = "STANDBY"
               /\ \A a : ~Watched(a)
<1>0. /\ IInv /\ head_status = "WATERING_CMDS"
      /\ node_link \in [Addr -> Node \cup {NullNode}]
  BY DEF SystemInv, IInv, TypeOK, next_watering_frame
<1>1. ASSUME Exists(i), NEW s,
             \/ node_link' = [node_link EXCEPT ![i].node_status = s]
             \/ \E r : node_link' = [node_link EXCEPT ![i].retry_attempts = r,
                                                      ![i].node_status = s]
             \/ /\ s = get_node_status(i)
                /\ \E r : node_link' = [node_link EXCEPT ![i].retry_attempts = r]
      PROVE  i \in Addr /\ StatusesBut(i, s)
  <2>1. i \in Addr /\ node_link[i] \in Node BY <1>0, <1>1, ExistingNode DEF IInv
  <2>2. PICK n : node_link' = [node_link EXCEPT ![i] = n] /\ n.node_status = s
    <3>1. CASE node_link' = [node_link EXCEPT ![i].node_status = s]
      <4>1. [node_link[i] EXCEPT !.node_status = s].node_status = s BY <2>1 DEF Node
      <4> QED BY <1>0, <2>1, <3>1, <4>1
    <3>2. ASSUME NEW r, node_link' = [node_link EXCEPT ![i].retry_attempts = r,
                                                       ![i].node_status = s]
          PROVE  \E n : node_link' = [node_link EXCEPT ![i] = n] /\ n.node_status = s
      <4>1. [node_link[i] EXCEPT !.retry_attempts = r, !.node_status = s].node_status = s
        BY <2>1 DEF Node
      <4>2. node_link' = [node_link EXCEPT ![i] =
                            [node_link[i] EXCEPT !.retry_attempts = r, !.node_status = s]]
        BY <1>0, <2>1, <3>2
      <4> QED BY <4>1, <4>2
    <3>3. ASSUME NEW r, s = get_node_status(i),
                 node_link' = [node_link EXCEPT ![i].retry_attempts = r]
          PROVE  \E n : node_link' = [node_link EXCEPT ![i] = n] /\ n.node_status = s
      <4>1. [node_link[i] EXCEPT !.retry_attempts = r].node_status = s
        BY <2>1, <3>3 DEF Node, get_node_status
      <4>2. node_link' = [node_link EXCEPT ![i] = [node_link[i] EXCEPT !.retry_attempts = r]]
        BY <1>0, <2>1, <3>3
      <4> QED BY <4>1, <4>2
    <3> QED BY <1>1, <3>1, <3>2, <3>3
  <2> QED BY <1>0, <2>1, <2>2 DEF StatusesBut, get_node_status
<1>2. CASE /\ i # NoIndex /\ Exists(i) /\ get_node_status(i) = "IN_QUEUE"
           /\ node_link' = [node_link EXCEPT ![i].node_status = "COMMAND_SENT"]
           /\ returned' = create_watering_frame(i) /\ UNCHANGED roundVars
  <2>1. i \in Addr /\ StatusesBut(i, "COMMAND_SENT") BY <1>1, <1>2
  <2>2. node_link[i].hose_duration \in Durations
    BY <1>0, <1>2, ExistingNode DEF Node, IInv
  <2> QED BY <1>0, <1>2, <2>1, <2>2 DEF create_watering_frame
<1>3. CASE /\ i # NoIndex /\ Exists(i)
           /\ get_node_status(i) \in {"COMMAND_SENT", "WATERING"} /\ RetryNode(i)
  <2>1. PICK r : \/ /\ node_link' = [node_link EXCEPT ![i].retry_attempts = r]
                    /\ returned' = IF get_node_status(i) = "COMMAND_SENT"
                                   THEN create_watering_frame(i) ELSE create_status_frame(i)
                    /\ UNCHANGED roundVars
                 \/ /\ node_link' = [node_link EXCEPT ![i].retry_attempts = r,
                                                      ![i].node_status = "ERR"]
                    /\ conclude_watering("FAULTY_NODE")
                    /\ returned' = NoFrame
    BY <1>3 DEF RetryNode
  <2>2. CASE node_link' = [node_link EXCEPT ![i].retry_attempts = r,
                                            ![i].node_status = "ERR"]
             /\ conclude_watering("FAULTY_NODE") /\ returned' = NoFrame
    <3>1. StatusesBut(i, "ERR") BY <1>1, <1>3, <2>2
    <3> QED BY <1>0, <2>2, <3>1 DEF conclude_watering
  <2>3. CASE /\ node_link' = [node_link EXCEPT ![i].retry_attempts = r]
             /\ returned' = IF get_node_status(i) = "COMMAND_SENT"
                            THEN create_watering_frame(i) ELSE create_status_frame(i)
             /\ UNCHANGED roundVars
    <3>1. PICK s : s = get_node_status(i) OBVIOUS
    <3>2. i \in Addr /\ StatusesBut(i, s) BY <1>1, <1>3, <2>3, <3>1
    <3>3. node_link[i].hose_duration \in Durations
      BY <1>0, <1>3, ExistingNode DEF Node, IInv
    <3> QED BY <1>0, <1>3, <2>3, <3>1, <3>2, <3>3 DEF create_watering_frame, create_status_frame
  <2> QED BY <2>1, <2>2, <2>3
<1>4. CASE /\ i # NoIndex /\ Exists(i) =>
                get_node_status(i) \notin {"IN_QUEUE", "COMMAND_SENT", "WATERING"}
           /\ conclude_watering("STANDBY")
           /\ returned' = NoFrame
           /\ UNCHANGED node_link
  <2>1. ASSUME NEW a, Watched(a) PROVE FALSE
    <3>1. a = i /\ a \in Addr /\ get_node_status(a) \in {"COMMAND_SENT", "WATERING"}
      BY <1>0, <2>1 DEF Watched
    <3>2. a # NoIndex BY <3>1, MaxNodesAssumption DEF Addr, NoIndex
    <3>3. Exists(a) BY <1>0, <3>1, <3>2 DEF IInv, ActiveIsInRound
    <3> QED BY <1>4, <3>1, <3>2, <3>3
  <2> QED BY <1>0, <1>4, <2>1 DEF conclude_watering
<1> QED BY <1>2, <1>3, <1>4 DEF next_watering_frame

LEMMA WaterInRound ==
  ASSUME SystemInv, AgreementInv, OneRemoteNode, [SystemNext]_<<systemVars, faulty>>,
         ~PowerCycle, ~KillNodeTask, InRound, HeadMove,
         head_status = "WATERING_CMDS", NEW i \in Addr, i = active_watering_index,
         get_node_status(i) \in {"IN_QUEUE", "COMMAND_SENT"},
         StatusesBut(i, "COMMAND_SENT"), UNCHANGED roundVars,
         NEW d \in Durations, returned' = WateringFrame(i, d)
  PROVE  InRound'
<1>0. /\ Routed(RoundSent, RoundAnswer) /\ HotIsActive
      /\ pc # "kill_node_task" /\ UNCHANGED node
  BY MoveKnown DEF InRound
<1>1. PICK f : f = returned' OBVIOUS
<1>2. f \in RoundSent'
  BY <1>1 DEF RoundSent, HeadFrame, WateringFrame
<1>3. \A a : Told(a) => a = i BY DEF Told, WaterTo, WateringFrame
<1>4. ASSUME NEW a \in Addr, Commanded(a) PROVE Commanded(a)' /\ ~Told(a)
  BY <1>3, <1>4 DEF Commanded, StatusesBut
<1>5. HeadKeepsOrder BY <1>1, <1>2, <1>4 DEF HeadKeepsOrder
<1>6. ASSUME NEW j \in Nodes, Hot(j)' PROVE node[j].self_addr = i
  <2>1. CASE Hot(j)
    <3>1. ~Cooled(node[j].self_addr) BY <2>1 DEF Cooled
    <3>2. Watched(node[j].self_addr) BY <1>0, <3>1, HotIsWatched
    <3> QED BY <3>2 DEF Watched
  <2> QED BY <1>0, <1>3, <1>6, <2>1, HotStep
<1>7. OneIsHot'
  <2> SUFFICES ASSUME NEW j \in Nodes, NEW k \in Nodes, Hot(j)', Hot(k)' PROVE j = k
    BY DEF OneIsHot
  <2> QED BY <1>6, OneAtEachAddress
<1>8. HotIsActive'
  <2>1. /\ head_status' = "WATERING_CMDS" /\ active_watering_index' = i
        /\ get_node_status(i)' = "COMMAND_SENT"
    BY DEF roundVars, StatusesBut
  <2>2. get_node_status(active_watering_index)' = "COMMAND_SENT" BY <2>1 DEF get_node_status
  <2> QED BY <1>0, <1>6, <2>1, <2>2 DEF HotIsActive
<1>9. RoundGoesOn BY <1>5, <1>7, <1>8 DEF RoundGoesOn, roundVars
<1> QED BY <1>9, RoundContinues

LEMMA CommandInRound ==
  ASSUME SystemInv, AgreementInv, OneRemoteNode, [SystemNext]_<<systemVars, faulty>>,
         ~PowerCycle, ~KillNodeTask, InRound, HeadMove, next_watering_frame
  PROVE  InRound'
<1>0. HotIsActive /\ pc # "kill_node_task" BY MoveKnown DEF InRound
<1>1. PICK i : i = active_watering_index OBVIOUS
<1>2. head_status = "WATERING_CMDS" BY <1>1, CommandKnown
<1>3. CASE /\ i \in Addr /\ get_node_status(i) \in {"IN_QUEUE", "COMMAND_SENT"}
           /\ StatusesBut(i, "COMMAND_SENT") /\ UNCHANGED roundVars
           /\ \E d \in Durations : returned' = WateringFrame(i, d)
  BY <1>1, <1>2, <1>3, WaterInRound
<1>4. CASE /\ i \in Addr /\ get_node_status(i) = "WATERING"
           /\ StatusesBut(i, "WATERING") /\ UNCHANGED roundVars
           /\ returned' = StatusFrame(i)
  <2>1. \A a \in Addr : get_node_status(a)' = get_node_status(a) BY <1>4 DEF StatusesBut
  <2>2. \A a : ~Told(a) BY <1>4 DEF Told, WaterTo, StatusFrame
  <2>3. \A a \in Addr : Commanded(a) => Commanded(a)' BY <2>1 DEF Commanded
  <2>4. returned' \in RoundSent'
    <3>1. PICK f : f = returned' OBVIOUS
    <3>2. /\ f \in HeadFrame /\ f.command = "STATUS" /\ f.address = i
      BY <1>4, <3>1 DEF HeadFrame, StatusFrame
    <3>3. Commanded(i)' BY <1>4, <2>1 DEF Commanded
    <3>4. f \in RoundSent' BY <3>2, <3>3 DEF RoundSent, Commanded, get_node_status
    <3> QED BY <3>1, <3>4
  <2>5. ASSUME NEW a, ~Cooled(a) PROVE Watched(a)'
    <3>1. Watched(a) BY <1>0, <2>5, HotIsWatched
    <3> QED BY <1>4, <2>1, <3>1 DEF Watched, roundVars
  <2>6. head_status' # "PAIRING" BY <1>2, <1>4 DEF roundVars
  <2> QED BY <2>2, <2>3, <2>4, <2>5, <2>6, NothingTold
<1>5. CASE /\ returned' = NoFrame /\ StatusesBut(i, "ERR")
           /\ head_status' = "FAULTY_NODE" /\ active_watering_index' = NoIndex
  <2>1. \A a : ~Told(a) BY <1>5 DEF Told, WaterTo, NoFrame
  <2>2. \A a \in Addr : Commanded(a) => Commanded(a)' BY <1>5 DEF Commanded, StatusesBut
  <2>3. \A a : Watched(a)' BY <1>5 DEF Watched
  <2> QED BY <1>5, <2>1, <2>2, <2>3, NothingTold
<1>6. CASE /\ returned' = NoFrame /\ UNCHANGED node_link
           /\ head_status' = "STANDBY"
           /\ \A a : ~Watched(a)
  <2>1. \A a : ~Told(a) BY <1>6 DEF Told, WaterTo, NoFrame
  <2>2. \A a \in Addr : Commanded(a) => Commanded(a)'
    BY <1>6 DEF Commanded, get_node_status
  <2>3. \A a : Cooled(a) BY <1>0, <1>6, HotIsWatched
  <2> QED BY <1>6, <2>1, <2>2, <2>3, NothingTold
<1> QED BY <1>1, <1>3, <1>4, <1>5, <1>6, CommandKnown

LEMMA ActsInRound ==
  ASSUME SystemInv, AgreementInv, OneRemoteNode, [SystemNext]_<<systemVars, faulty>>,
         ~PowerCycle, ~KillNodeTask, InRound, HeadAct
  PROVE  ValveInv'
<1>0. /\ HeadMove /\ pc # "kill_node_task" /\ head_status # "PAIRING" /\ HotIsActive
  BY MoveKnown DEF InRound, HeadMove
<1>1. ASSUME NEW key, pair(key) PROVE FALSE
  BY <1>0, <1>1 DEF pair, process_pairing
<1>2. ASSUME NEW due \in BOOLEAN, NEW phase \in Phases, due => Quiet, schedule(due, phase)
      PROVE  ValveInv'
  <2>1. process_watering_schedule(due, phase) /\ returned' = NoFrame
    BY <1>2 DEF schedule, process_watering_schedule
  <2>2. CASE due /\ head_status = "STANDBY"
    <3>1. AllClosed'
      <4>1. \A i \in Nodes : ~Hot(i) BY <1>0, <2>2, AllCooled
      <4> QED BY <1>0, <4>1, MoveKnown DEF Hot, AllClosed
    <3>2. Quiet'
      BY <1>2, <2>1, <2>2 DEF Quiet, Arrived, HeadAct, send_returned
    <3>3. (Quiet /\ AllClosed => ValveInv)' BY AtRest, PTL
    <3> QED BY <3>1, <3>2, <3>3
  <2>3. CASE ~(due /\ head_status = "STANDBY")
    <3>1. UNCHANGED roundVars /\ \A a \in Addr : get_node_status(a)' = get_node_status(a)
      BY <2>1, <2>3 DEF process_watering_schedule, get_node_status
    <3> QED BY <1>0, <2>1, <3>1, SteadyInRound DEF ValveInv
  <2> QED BY <2>2, <2>3
<1>3. CASE command BY <1>0, <1>3, CommandInRound DEF command, ValveInv
<1> QED BY <1>1, <1>2, <1>3 DEF HeadAct

\* The node that is being watered is refused no duration: after one, the head does
\* not know of its command any more.
ActiveIsAccepted ==
  active_watering_index # NoIndex => get_node_status(active_watering_index) # "INVALID_TIME"

LEMMA WritesOnlyRefuse ==
  ASSUME SystemInv, NEW a,
         \/ \E d, s : set_node_duration(a, d, s)
         \/ \E c, s : set_watering_cycle(a, c, s)
  PROVE  /\ UNCHANGED roundVars
         /\ \A b \in Addr : get_node_status(b)' \in {get_node_status(b), "INVALID_TIME"}
<1>0. IInv /\ node_link \in [Addr -> Node \cup {NullNode}]
  BY DEF SystemInv, IInv, TypeOK
<1>1. UNCHANGED roundVars BY DEF set_node_duration, set_watering_cycle
<1>2. CASE UNCHANGED node_link BY <1>1, <1>2 DEF get_node_status
<1>3. ASSUME Exists(a), NEW n, node_link' = [node_link EXCEPT ![a] = n],
             n.node_status \in {get_node_status(a), "INVALID_TIME"}
      PROVE  \A b \in Addr : get_node_status(b)' \in {get_node_status(b), "INVALID_TIME"}
  <2>1. a \in Addr BY <1>3 DEF Exists
  <2>2. node_link'[a] = n /\ \A b \in Addr : b # a => node_link'[b] = node_link[b]
    BY <1>0, <1>3, <2>1
  <2> QED BY <1>3, <2>2 DEF get_node_status
<1>4. ASSUME Exists(a), NEW d, NEW n,
             \/ n = [node_link[a] EXCEPT !.hose_duration = d]
             \/ n = [[node_link[a] EXCEPT !.node_status = "INVALID_TIME"]
                       EXCEPT !.hose_duration = d]
             \/ n = [node_link[a] EXCEPT !.node_status = "INVALID_TIME"]
             \/ n = [node_link[a] EXCEPT !.water_cycle = d]
      PROVE  n.node_status \in {get_node_status(a), "INVALID_TIME"}
  <2>1. node_link[a] \in Node BY <1>0, <1>4, ExistingNode DEF IInv
  <2> QED BY <1>4, <2>1 DEF Node, get_node_status
<1>5. ASSUME ~UNCHANGED node_link
      PROVE  /\ Exists(a)
             /\ \E n : /\ node_link' = [node_link EXCEPT ![a] = n]
                       /\ n.node_status \in {get_node_status(a), "INVALID_TIME"}
  <2>1. ASSUME NEW d, NEW s, set_node_duration(a, d, s)
        PROVE  /\ Exists(a)
               /\ \E n : /\ node_link' = [node_link EXCEPT ![a] = n]
                         /\ n.node_status \in {get_node_status(a), "INVALID_TIME"}
    BY <1>4, <1>5, <2>1 DEF set_node_duration, change_node
  <2>2. ASSUME NEW c, NEW s, set_watering_cycle(a, c, s)
        PROVE  /\ Exists(a)
               /\ \E n : /\ node_link' = [node_link EXCEPT ![a] = n]
                         /\ n.node_status \in {get_node_status(a), "INVALID_TIME"}
    BY <1>4, <1>5, <2>2 DEF set_watering_cycle, change_node
  <2> QED BY <2>1, <2>2
<1> QED BY <1>1, <1>2, <1>3, <1>5

LEMMA WritesInRound ==
  ASSUME SystemInv, AgreementInv, OneRemoteNode, [SystemNext]_<<systemVars, faulty>>,
         ~PowerCycle, ~KillNodeTask, InRound, ActiveIsAccepted', ~HeadMove, UNCHANGED pc,
         UNCHANGED roundVars,
         \A b \in Addr : get_node_status(b)' \in {get_node_status(b), "INVALID_TIME"}
  PROVE  InRound'
<1>1. \A a : ~Told(a) BY DEF Told
<1>2. \A a \in Addr : Commanded(a) => Commanded(a)' BY DEF Commanded
<1>3. ASSUME NEW a, ~Cooled(a), pc' # "kill_node_task" PROVE Watched(a)'
  <2>1. Watched(a) BY <1>3, HotIsWatched DEF InRound
  <2>2. CASE active_watering_index = a /\ a \in Addr
    <3>1. a # NoIndex BY <2>2, MaxNodesAssumption DEF Addr, NoIndex
    <3>2. active_watering_index' = a BY <2>2 DEF roundVars
    <3>3. get_node_status(a)' # "INVALID_TIME"
      BY <3>1, <3>2 DEF ActiveIsAccepted, get_node_status
    <3> QED BY <2>1, <2>2, <3>3 DEF Watched, roundVars
  <2> QED BY <2>1, <2>2 DEF Watched, roundVars
<1>4. head_status' # "PAIRING" \/ pc' = "kill_node_task" BY DEF InRound, roundVars
<1> QED BY <1>1, <1>2, <1>3, <1>4, NothingTold

LEMMA ServesInRound ==
  ASSUME SystemInv, AgreementInv, OneRemoteNode, [SystemNext]_<<systemVars, faulty>>,
         ~PowerCycle, ~KillNodeTask, InRound, ActiveIsAccepted',
         NEW r \in Request, Serve(r), pc = "requests", UNCHANGED busVars, r \in extRequests
  PROVE  InRound'
<1>0. ~HeadMove BY MoveKnown
<1>1. CASE r.type = "INIT_PAIRING"
  <2>1. r = PairingRequest /\ pc' = "kill_node_task" BY <1>1, ServeAgrees
  <2>2. Quiet' BY <2>1 DEF AgreementInv, PairingIsQuiet, Quiet, Arrived, busVars
  <2>3. \A i \in Nodes : Hot(i)' => Hot(i) BY DEF Hot, busVars
  <2>4. OneIsHot' BY <2>3 DEF OneIsHot, InRound
  <2>5. RoundGoesOn BY <2>1, <2>2, <2>4 DEF RoundGoesOn, HotIsActive
  <2> QED BY <2>5, RoundContinues
<1>2. CASE r.type # "INIT_PAIRING"
  <2>1. /\ UNCHANGED roundVars
        /\ \A b \in Addr : get_node_status(b)' \in {get_node_status(b), "INVALID_TIME"}
    <3>1. CASE UNCHANGED vars BY <3>1 DEF vars, roundVars, get_node_status
    <3> QED BY <1>2, <3>1, WritesOnlyRefuse DEF Serve
  <2>2. UNCHANGED pc BY <1>2, ServeAgrees
  <2> QED BY <1>0, <2>1, <2>2, WritesInRound
<1> QED BY <1>1, <1>2

LEMMA StepInRound ==
  ASSUME SystemInv, AgreementInv, OneRemoteNode, [SystemNext]_<<systemVars, faulty>>,
         ~PowerCycle, ~KillNodeTask, InRound, ActiveIsAccepted'
  PROVE  ValveInv'
<1>1. CASE HeadReceive BY <1>1, TakenInRound DEF ValveInv
<1>2. CASE HeadAct BY <1>2, ActsInRound
<1>3. CASE \E r \in Request : /\ Serve(r) /\ pc = "requests" /\ UNCHANGED busVars
                              /\ r \in extRequests
  BY <1>3, ServesInRound DEF ValveInv
<1>4. CASE UNCHANGED vars /\ (pc' = pc \/ pc = "requests")
  <2>1. ~HeadMove BY <1>4, MoveKnown
  <2>2. UNCHANGED roundVars /\ \A a \in Addr : get_node_status(a)' = get_node_status(a)
    BY <1>4 DEF vars, roundVars, get_node_status
  <2> QED BY <1>4, <2>1, <2>2, SteadyInRound DEF ValveInv
<1>5. Bus \/ Aside => UNCHANGED vars /\ pc' = pc
  BY BusFinds, AsideMovesNothing DEF taskVars
<1>6. notify \/ (\E i \in Nodes : NodeReceive(i)) => UNCHANGED vars /\ (pc' = pc \/ pc = "requests")
  BY DEF notify, NodeReceive, allVars, taskVars
<1> QED BY <1>1, <1>2, <1>3, <1>4, <1>5, <1>6, SystemSteps

-----------------------------------------------------------------------------
\* What a frame of a pairing tells the head.
LEMMA PairingHandled ==
  ASSUME SystemInv, NEW f \in PairingAnswer, handle_incoming_frame(f)
  PROVE  returned' \in PairingSent \cup {NoFrame} /\ UNCHANGED roundVars
<1>1. /\ f \in Reply /\ f.command \in {"DISCOVERY", "ADDRESSING"} /\ IInv
  BY DEF PairingAnswer, SystemInv
<1>2. returned' \in HeadFrame \cup {NoFrame} BY <1>1, HeadAnswers
<1>3. \/ handle_discovery(f.key) \/ handle_addressing(f.key, f.address)
  BY <1>1 DEF handle_incoming_frame
<1>4. /\ UNCHANGED roundVars
      /\ \/ returned' = NoFrame
         \/ \E a : returned' = AddressingFrame(f.key, a) \/ returned' = AckFrame(a)
  BY <1>3 DEF handle_discovery, handle_addressing, create_addressing_frame, Panic
<1>5. \A a : /\ AddressingFrame(f.key, a).command = "ADDRESSING"
             /\ AckFrame(a).command = "ACK"
  BY DEF AddressingFrame, AckFrame
<1> QED BY <1>2, <1>4, <1>5 DEF PairingSent

LEMMA MovesInPairing ==
  ASSUME SystemInv, AgreementInv, OneRemoteNode, [SystemNext]_<<systemVars, faulty>>,
         ~PowerCycle, ~KillNodeTask, InPairing, HeadMove
  PROVE  \/ /\ returned' \in PairingSent \cup {NoFrame}
            /\ head_status' \in {"PAIRING", "STANDBY"}
         \/ ValveInv'
<1>0. /\ Routed(PairingSent, PairingAnswer) /\ AllClosed
      /\ head_status \in {"PAIRING", "STANDBY"}
  BY DEF InPairing
<1>1. CASE HeadReceive
  <2>1. PICK H, R : H = PairingSent /\ R = PairingAnswer OBVIOUS
  <2>2. QueuesTyped /\ Carry(H, H, R, R) BY <1>0, <2>1 DEF Routed, SystemInv
  <2>3. \/ receive(NoFrame)
        \/ \E f \in Frames(ext_incoming) \cap Frame \cap (R \cup R) : receive(f)
    BY <1>1, <2>2, HeadTakes
  <2>4. \/ receive(NoFrame)
        \/ \E f \in PairingAnswer : receive(f) /\ f # NoFrame
    BY <2>1, <2>3, FrameFields
  <2>5. CASE receive(NoFrame) BY <1>0, <2>5 DEF receive, roundVars
  <2>6. ASSUME NEW f \in PairingAnswer, receive(f), f # NoFrame
        PROVE  returned' \in PairingSent \cup {NoFrame} /\ UNCHANGED roundVars
    BY <2>6, PairingHandled DEF receive
  <2> QED BY <1>0, <2>4, <2>5, <2>6 DEF roundVars
<1>2. ASSUME NEW key \in Keys, pair(key)
      PROVE  /\ returned' \in PairingSent \cup {NoFrame}
             /\ head_status' \in {"PAIRING", "STANDBY"}
  <2>1. DiscoveryFrame(key, 0) \in PairingSent
    BY DEF PairingSent, HeadFrame, DiscoveryFrame
  <2> QED BY <1>2, <2>1 DEF pair, process_pairing
<1>3. ASSUME NEW due \in BOOLEAN, NEW phase \in Phases, due => Quiet, schedule(due, phase),
             HeadAct
      PROVE  \/ returned' = NoFrame /\ head_status' = head_status
             \/ ValveInv'
  <2>1. process_watering_schedule(due, phase) /\ returned' = NoFrame
    BY <1>3 DEF schedule, process_watering_schedule
  <2>2. CASE due /\ head_status = "STANDBY"
    <3>1. AllClosed' BY <1>0, MoveKnown DEF AllClosed
    <3>2. Quiet' BY <1>3, <2>1, <2>2 DEF Quiet, Arrived, HeadAct, send_returned
    <3>3. (Quiet /\ AllClosed => ValveInv)' BY AtRest, PTL
    <3> QED BY <3>1, <3>2, <3>3
  <2>3. CASE ~(due /\ head_status = "STANDBY")
    BY <2>1, <2>3 DEF process_watering_schedule, roundVars
  <2> QED BY <2>2, <2>3
<1>4. ~command BY <1>0 DEF command, next_watering_frame
<1> QED BY <1>0, <1>1, <1>2, <1>3, <1>4 DEF HeadMove, HeadAct

\* What a node does in a pairing.
LEMMA AnswerInPairing ==
  ASSUME SystemInv,
         NEW i \in Nodes, NEW f \in PairingSent, NEW m, NEW answer, Answers(node[i], f, m, answer)
  PROVE  /\ answer \in PairingAnswer \cup {NoFrame}
         /\ m.solenoid => node[i].solenoid
<1> DEFINE n == node[i]
<1>1. SoundNode(n) /\ n \in NodeType BY DEF SystemInv, NodesSound
<1>2. f \in Frame /\ f.command \in {"DISCOVERY", "ADDRESSING", "ACK"}
  BY DEF PairingSent, Frame
<1>3. answer \in Reply \cup {NoFrame} BY <1>1, <1>2, AnswerIsSound
<1> HIDE DEF n
<1>4. Answers(n, f, m, answer) BY DEF n
<1>5. \/ answer = NoFrame
      \/ answer.command \in {"DISCOVERY", "ADDRESSING"}
  BY <1>2, <1>4 DEF Answers, DiscoveryFrame, AddressingFrame
<1>6. m.solenoid => n.solenoid BY <1>1, <1>2, <1>4 DEF Answers, NodeType
<1> QED BY <1>3, <1>5, <1>6 DEF PairingAnswer, n

LEMMA StepInPairing ==
  ASSUME SystemInv, AgreementInv, OneRemoteNode, [SystemNext]_<<systemVars, faulty>>,
         ~PowerCycle, ~KillNodeTask, InPairing
  PROVE  ValveInv'
<1>0. /\ Routed(PairingSent, PairingAnswer) /\ AllClosed
      /\ head_status \in {"PAIRING", "STANDBY"}
  BY DEF InPairing
<1>1. CASE HeadMove => /\ returned' \in PairingSent \cup {NoFrame}
                       /\ head_status' \in {"PAIRING", "STANDBY"}
  <2>1. PICK S, A : S = PairingSent /\ A = PairingAnswer OBVIOUS
  <2>2. S \in SUBSET Frame /\ A \in SUBSET Frame
    BY <2>1 DEF PairingSent, PairingAnswer, Frame
  <2>3. \A f \in S : OnWire(f) \in S
    <3> SUFFICES ASSUME NEW f \in S PROVE OnWire(f) \in S OBVIOUS
    <3>1. f \in HeadFrame /\ f.command \in {"DISCOVERY", "ADDRESSING", "ACK"}
      BY <2>1 DEF PairingSent
    <3>2. DiscoveryFrame(0, 0).command = "DISCOVERY" BY DEF DiscoveryFrame
    <3> QED BY <2>1, <3>1, <3>2, WireHead DEF PairingSent
  <2>4. \A f \in A : OnWire(f) \in A
    <3> SUFFICES ASSUME NEW f \in A PROVE OnWire(f) = f OBVIOUS
    <3> QED BY <2>1, WireReply DEF PairingAnswer
  <2>5. \A i \in Nodes : \A f \in S : \A answer :
             /\ NodeReceive(i) /\ incoming[i] # <<>> /\ f = incoming[i][1]
             /\ Answers(node[i], f, node'[i], answer)
             => answer \in A \cup {NoFrame}
    BY <1>0, <2>1, AnswerInPairing
  <2>6. HeadReceive \/ HeadAct => returned' \in S \cup {NoFrame}
    BY <1>1, <2>1 DEF HeadMove
  <2>7. Routed(S, A) BY <1>0, <2>1
  <2>8. Routed(S, A)' BY <2>2, <2>3, <2>4, <2>5, <2>6, <2>7, RoutedStep
  <2>9. Routed(PairingSent, PairingAnswer)' BY <2>1, <2>8
  <2>10. AllClosed'
    <3> SUFFICES ASSUME NEW i \in Nodes PROVE ~node'[i].solenoid BY DEF AllClosed
    <3>1. CASE node'[i] = node[i] BY <1>0, <3>1 DEF AllClosed
    <3>2. CASE Expired(node[i], node'[i])
      <4>1. node[i] \in NodeType /\ ~node[i].solenoid
        BY <1>0 DEF AllClosed, SystemInv, NodesSound
      <4> QED BY <3>2, <4>1 DEF Expired, NodeType
    <3>3. ASSUME incoming[i] # <<>>, NEW answer, Answers(node[i], incoming[i][1], node'[i], answer)
          PROVE  ~node'[i].solenoid
      <4>1. incoming[i] \in Seq(Frame) BY DEF SystemInv, QueuesTyped
      <4>2. incoming[i][1] \in Frames(incoming[i]) BY <3>3, <4>1, Taken
      <4>3. incoming[i][1] \in PairingSent BY <1>0, <4>2 DEF Routed
      <4> QED BY <1>0, <3>3, <4>3, AnswerInPairing DEF AllClosed
    <3> QED BY <3>1, <3>2, <3>3, NodeMoves
  <2>11. head_status' \in {"PAIRING", "STANDBY"}
    <3>1. CASE HeadMove BY <1>1, <3>1
    <3>2. CASE \E r \in Request : Serve(r)
      BY <1>0, <3>2, WritesOnlyRefuse
         DEF Serve, init_pairing_mode, conclude_watering, roundVars, vars
    <3>3. CASE UNCHANGED vars BY <1>0, <3>3 DEF vars
    <3>4. Bus \/ Aside => UNCHANGED vars BY BusFinds, AsideMovesNothing
    <3>5. notify \/ (\E i \in Nodes : NodeReceive(i)) => UNCHANGED vars
      BY DEF notify, NodeReceive, allVars
    <3> QED BY <3>1, <3>2, <3>3, <3>4, <3>5, SystemSteps DEF HeadMove
  <2> QED BY <2>9, <2>10, <2>11 DEF ValveInv, InPairing
<1> QED BY <1>1, MovesInPairing

LEMMA ValveStep ==
  ASSUME OneRemoteNode
  PROVE  SystemInv /\ AgreementInv /\ ActiveIsAccepted' /\ ValveInv
         /\ [SystemNext]_<<systemVars, faulty>> => ValveInv'
<1> SUFFICES ASSUME SystemInv, AgreementInv, ActiveIsAccepted', ValveInv,
                    [SystemNext]_<<systemVars, faulty>>
             PROVE  ValveInv'
  OBVIOUS
<1>1. (Quiet /\ AllClosed => ValveInv)' BY AtRest, PTL
<1>2. CASE PowerCycle \/ KillNodeTask
  <2>1. Quiet' /\ \A i \in Nodes : node'[i] = Line!NewSelfNode
    BY <1>2, PowerIsOff, NodesAreNew DEF AgreementInv
  <2>2. AllClosed' BY <2>1 DEF AllClosed, Line!NewSelfNode
  <2> QED BY <1>1, <2>1, <2>2
<1>3. CASE ~PowerCycle /\ ~KillNodeTask
  BY <1>3, StepInRound, StepInPairing DEF ValveInv
<1> QED BY <1>2, <1>3

LEMMA InitValve == SystemInit => ValveInv
<1> SUFFICES ASSUME SystemInit PROVE ValveInv OBVIOUS
<1>1. AllClosed BY DEF SystemInit, Line!Init, AllClosed, Line!NewSelfNode
<1> QED BY <1>1, StartsQuiet, AtRest

LEMMA ValveInvariance ==
  ASSUME Repairing # "any", OneRemoteNode
  PROVE  SystemSpec /\ []ActiveIsAccepted => []ValveInv
<1>1. SystemInv /\ AgreementInv /\ ActiveIsAccepted' /\ ValveInv
        /\ [SystemNext]_<<systemVars, faulty>> => ValveInv'
  BY ValveStep
<1>2. SystemSpec => []AgreementInv BY AgreementInvariance
<1> QED BY <1>1, <1>2, InitValve, SystemInvariance, PTL DEF SystemSpec

\* One valve at a time: whatever frames are lost, late or repeated, and wherever the
\* host asks for pairing and the power fails, the next valve opens only after the last
\* one has closed (advance_active_watering_index, next_watering_frame), as long as the
\* node that is being watered is refused no duration.
THEOREM OneValveAtATime ==
  ASSUME Repairing # "any", OneRemoteNode
  PROVE  SystemSpec /\ []ActiveIsAccepted => []OneValveOpen
<1>1. SystemInv /\ ValveInv => OneValveOpen
  <2> SUFFICES ASSUME ValveInv, NEW i \in Nodes, NEW j \in Nodes,
                      node[i].solenoid, node[j].solenoid
               PROVE  i = j
    BY DEF OneValveOpen
  <2>1. ~AllClosed /\ Hot(i) /\ Hot(j) BY DEF AllClosed, Hot
  <2> QED BY <2>1 DEF ValveInv, InPairing, InRound, OneIsHot
<1>2. SystemSpec /\ []ActiveIsAccepted => []ValveInv BY ValveInvariance
<1> QED BY <1>1, <1>2, SystemInvariance, PTL

\* The head knows of an open valve: it waits for that node to finish, or has declared
\* a fault, or is starting over (handle_ack, handle_incoming_node_status), as long as
\* that node is refused no duration.
THEOREM OpenValvesAreKnown ==
  ASSUME Repairing # "any", OneRemoteNode
  PROVE  SystemSpec /\ []ActiveIsAccepted => []OpenValveIsKnown
<1>1. SystemInv /\ ValveInv => OpenValveIsKnown
  <2> SUFFICES ASSUME SystemInv, ValveInv, NEW i \in Nodes,
                      node[i].solenoid, pc # "kill_node_task"
               PROVE  \/ head_status \in {"FAULTY_NODE", "PAIRING"}
                      \/ /\ Exists(node[i].self_addr)
                         /\ get_node_status(node[i].self_addr) \in {"COMMAND_SENT", "WATERING"}
    BY DEF OpenValveIsKnown
  <2>1. HotIsActive /\ Hot(i) BY DEF ValveInv, InPairing, InRound, AllClosed, Hot
  <2> QED BY <2>1, HotKnown
<1>2. SystemSpec /\ []ActiveIsAccepted => []ValveInv BY ValveInvariance
<1> QED BY <1>1, <1>2, SystemInvariance, PTL

-----------------------------------------------------------------------------
(***************************************************************************)
(* Pairing, on a line that loses nothing.  A frame leads node i into       *)
(* service if what it brings about is the ACK of the node's address: a     *)
(* DISCOVERY, the ADDRESSING that answers the node's key, the ACK; and on  *)
(* the way back what the node has said of itself.  The head counts its     *)
(* silent passes; from the first one on such a frame is under way to its   *)
(* own node until that node is in service, and from the last one on to     *)
(* the other, too.                                                         *)
(***************************************************************************)
LeadsTo(i, f) ==
  \/ f.command = "DISCOVERY"
  \/ f.command = "ADDRESSING" /\ f.key = node[i].self_key
  \/ f.command = "ACK" /\ f.address = node[i].self_addr
LeadsBack(i, f) ==
  \/ f.command = "DISCOVERY" /\ f.key = node[i].self_key
  \/ /\ f.command = "ADDRESSING" /\ f.key = node[i].self_key
     /\ f.address = node[i].self_addr

OnItsWay(i) ==
  /\ Powered(i)
  /\ \/ \E f \in Frames(ext_outgoing) \cup Frames(incoming[i]) : LeadsTo(i, f)
     \/ \E f \in Frames(ext_incoming) \cup Frames(outgoing[i]) : LeadsBack(i, f)
Found(i) == InService(i) \/ OnItsWay(i)

\* The keys the head knows of are of nodes, so that no other node lacks an address.
Owned(k) == \E i \in Nodes : node[i].self_key = k
Named(queue) ==
  \A f \in Frames(queue) : f.command \in {"DISCOVERY", "ADDRESSING"} => Owned(f.key)
KeysAreOwned ==
  /\ \A a \in Addr : Exists(a) => Owned(node_link[a].id_key)
  /\ Named(ext_incoming) /\ \A i \in Nodes : Named(outgoing[i])

Searching == head_status = "PAIRING"
SearchBegins ==
  /\ PairingRequest \in extRequests => ~Searching
  /\ pc = "kill_node_task" => Searching
  /\ ~Searching \/ pc = "kill_node_task" => no_response_pairing_count = 0
OnlyPairing ==
  Searching => Routed(PairingSent, PairingAnswer)
SilenceMeansFound ==
  /\ no_response_pairing_count > 0 => Found(0)
  /\ /\ pc = "act" /\ returned = NoFrame
     /\ no_response_pairing_count + 1 >= StopPairingCount
     => InService(0)
  /\ no_response_pairing_count >= StopPairingCount => \A i \in Nodes : Found(i)
AllFound == (\A i \in Nodes : Found(i)) \/ (NoNodes /\ Quiet)
ServiceIsHeard == \A i \in Nodes : InService(i) => heard[i]
\* Without faults a node in service has switched the next one on.
ServiceIsSwitched == \A i \in Nodes : InService(i) => node[i].downstream

SearchInv ==
  /\ KeysAreOwned /\ SearchBegins /\ OnlyPairing /\ ServiceIsHeard
  /\ ServiceIsSwitched
  /\ Searching => SilenceMeansFound
  /\ ~Searching => AllFound

\* A queue that is sent to without waiting has room for what is sent.
Room ==
  /\ Len(ext_incoming) < QueueLength
  /\ \A i \in Nodes : Len(incoming[i]) < QueueLength

-----------------------------------------------------------------------------
\* A queue is its first frame and the rest; with room it gets what it is sent.
LEMMA FirstAndRest ==
  ASSUME NEW S, NEW q \in Seq(S), q # <<>>
  PROVE  Frames(q) = {q[1]} \cup Frames(Tail(q))
<1>1. Len(q) \in Nat /\ Len(q) # 0 /\ DOMAIN q = 1 .. Len(q)
  BY EmptySeq, LenProperties
<1>2. /\ Tail(q) \in Seq(S) /\ Len(Tail(q)) = Len(q) - 1
      /\ \A k \in 1 .. Len(Tail(q)) : Tail(q)[k] = q[k + 1]
  BY HeadTailProperties
<1>3. DOMAIN Tail(q) = 1 .. Len(q) - 1 BY <1>2, LenProperties
<1>4. ASSUME NEW k \in DOMAIN q PROVE q[k] = q[1] \/ q[k] \in Frames(Tail(q))
  <2>1. CASE k = 1 BY <2>1
  <2>2. CASE k # 1
    <3>1. k - 1 \in DOMAIN Tail(q) /\ Tail(q)[k - 1] = q[k]
      BY <1>1, <1>2, <1>3, <2>2
    <3> QED BY <3>1 DEF Frames
  <2> QED BY <2>1, <2>2
<1> QED BY <1>4, Taken DEF Frames

LEMMA SentWithRoom ==
  ASSUME NEW S, NEW q \in Seq(S), NEW f \in S, Len(q) < QueueLength
  PROVE  Frames(Sent(q, f)) = Frames(q) \cup {f}
BY Added DEF Sent, Line!Sent

\* Without faults every copy arrives, once.
LEMMA OneCopy ==
  ASSUME ~faulty, NEW L, NEW c \in Copies(L)
  PROVE  DOMAIN c = L /\ \A i \in L : \A q, f : Delivered(q, f, c[i]) = Sent(q, f)
BY DEF Copies, Delivered

-----------------------------------------------------------------------------
(***************************************************************************)
(* Once found, a node stays so.                                            *)
(***************************************************************************)
LEMMA ServiceStays ==
  ASSUME SystemInv, [SystemNext]_<<systemVars, faulty>>, ~PowerCycle, ~KillNodeTask,
         NEW i \in Nodes
  PROVE  /\ InService(i) => InService(i)'
         /\ ~InService(i) /\ ~NodeReceive(i) => node'[i] = node[i]
<1> DEFINE n == node[i]
           m == node'[i]
<1>1. n \in NodeType /\ SoundNode(n) BY DEF SystemInv, NodesSound
<1>2. \/ m = n \/ Expired(n, m)
      \/ NodeReceive(i) /\ \E answer : Answers(n, incoming[i][1], m, answer)
  BY NodeMoves
<1> HIDE DEF n, m
<1>3. n.status # "INITIALIZING" => m.status # "INITIALIZING"
  <2>1. CASE m = n BY <2>1
  <2>2. CASE Expired(n, m) BY <1>1, <2>2 DEF Expired, NodeType
  <2>3. ASSUME NEW answer, Answers(n, incoming[i][1], m, answer), n.status # "INITIALIZING"
        PROVE  m.status # "INITIALIZING"
    BY <1>1, <2>3 DEF Answers, NodeType
  <2> QED BY <1>2, <2>1, <2>2, <2>3
<1>4. n.status = "INITIALIZING" /\ ~NodeReceive(i) => m = n BY <1>2 DEF Expired
<1> QED BY <1>3, <1>4 DEF InService, n, m

LEMMA PowerStays ==
  ASSUME SystemInv, [SystemNext]_<<systemVars, faulty>>, ~PowerCycle, ~KillNodeTask,
         NEW i \in Nodes, Powered(i)
  PROVE  Powered(i)'
<1> SUFFICES ASSUME NEW j \in Nodes, j < i PROVE node'[j].downstream
  BY DEF Powered
<1> DEFINE n == node[j]
           m == node'[j]
<1>1. n \in NodeType /\ n.downstream BY DEF SystemInv, NodesSound, Powered
<1>2. \/ m = n \/ Expired(n, m)
      \/ \E answer : Answers(n, incoming[j][1], m, answer)
  BY NodeMoves
<1> HIDE DEF n, m
<1>3. CASE m = n BY <1>1, <1>3 DEF m
<1>4. CASE Expired(n, m)
  <2>1. m.downstream BY <1>1, <1>4 DEF Expired, NodeType
  <2> QED BY <2>1 DEF m
<1>5. ASSUME NEW answer, Answers(n, incoming[j][1], m, answer) PROVE node'[j].downstream
  <2>1. m.downstream BY <1>1, <1>5 DEF Answers, NodeType
  <2> QED BY <2>1 DEF m
<1> QED BY <1>2, <1>3, <1>4, <1>5

\* A node that comes into service switches the next one on, if the switch works
\* (SelfNode::complete_initialization).
LEMMA ServiceIsSwitchedStep ==
  ASSUME SystemInv, ServiceIsSwitched, ~faulty, [SystemNext]_<<systemVars, faulty>>
  PROVE  ServiceIsSwitched'
<1>1. CASE PowerCycle \/ KillNodeTask
  BY <1>1 DEF PowerCycle, KillNodeTask, Line!NewSelfNode, ServiceIsSwitched, InService
<1>2. CASE ~PowerCycle /\ ~KillNodeTask
  <2> SUFFICES ASSUME NEW i \in Nodes, InService(i)' PROVE node'[i].downstream
    BY DEF ServiceIsSwitched
  <2> DEFINE n == node[i]
             m == node'[i]
  <2>1. n \in NodeType /\ (n.status # "INITIALIZING" => n.downstream)
    BY DEF SystemInv, NodesSound, ServiceIsSwitched, InService
  <2>2. \/ m = n \/ Expired(n, m)
        \/ \E answer : Answers(n, incoming[i][1], m, answer)
    BY <1>2, NodeMoves
  <2>3. m.status # "INITIALIZING" BY DEF InService
  <2> HIDE DEF n, m
  <2>4. m.downstream
    <3>1. CASE m = n BY <2>1, <2>3, <3>1
    <3>2. CASE Expired(n, m) BY <2>1, <3>2 DEF Expired, NodeType
    <3>3. ASSUME NEW answer, Answers(n, incoming[i][1], m, answer) PROVE m.downstream
      BY <2>1, <2>3, <3>3 DEF Answers, NodeType
    <3> QED BY <2>2, <3>1, <3>2, <3>3
  <2> QED BY <2>4 DEF m
<1> QED BY <1>1, <1>2

\* What leads to a node does so on the wire, too.
LEMMA LeadsOnWire ==
  ASSUME NEW i, NEW f \in HeadFrame, LeadsTo(i, f)
  PROVE  LeadsTo(i, OnWire(f)) /\ OnWire(f) \in Frame
<1>1. OnWire(f) = DiscoveryFrame(0, 0) \/ OnWire(f) = f BY WireHead
<1>2. OnWire(f) \in HeadFrame BY WireHead
<1> QED BY <1>1, <1>2 DEF LeadsTo, DiscoveryFrame, Frame

\* What is under way to a node with power comes nearer, or waits.
LEMMA ToNodeKept ==
  ASSUME SystemInv, OneRemoteNode, Room, ~faulty, [SystemNext]_<<systemVars, faulty>>,
         ~PowerCycle, ~KillNodeTask, NEW i \in Nodes, Powered(i),
         NEW f \in Frames(ext_outgoing) \cup Frames(incoming[i])
  PROVE  \/ \E g \in {f, OnWire(f)} : g \in Frames(ext_outgoing') \cup Frames(incoming'[i])
         \/ NodeReceive(i) /\ incoming[i] # <<>> /\ f = incoming[i][1]
<1>0. /\ QueuesTyped /\ incoming[i] \in Seq(Frame) /\ ext_outgoing \in Seq(Frame)
      /\ 0 \in Nodes
  BY NodesAssumption DEF SystemInv, QueuesTyped
<1>1. CASE UartSend
  <2> DEFINE h == ext_outgoing[1]
             w == IF i = 0 THEN h ELSE OnWire(h)
  <2>1. ext_outgoing # <<>> /\ ext_outgoing' = Tail(ext_outgoing) BY <1>1 DEF UartSend
  <2>2. Frames(ext_outgoing) = {h} \cup Frames(ext_outgoing') BY <1>0, <2>1, FirstAndRest
  <2>3. h \in HeadFrame BY <2>2 DEF SystemInv, Carry
  <2>4. w \in Frame BY <2>3, WireHead DEF Frame
  <2>5. PICK copies \in Copies(Listening) :
          incoming' = [j \in Nodes |->
              IF j = 0 THEN Sent(incoming[0], h)
              ELSE IF j \in DOMAIN copies
              THEN Delivered(incoming[j], OnWire(h), copies[j])
              ELSE incoming[j]]
    BY <1>1 DEF UartSend, Listening
  <2>6. i # 0 => i \in Listening BY DEF Listening, Remotes
  <2>7. /\ DOMAIN copies = Listening
        /\ \A j \in Listening : \A q, g : Delivered(q, g, copies[j]) = Sent(q, g)
    BY OneCopy
  <2>8. incoming'[i] = Sent(incoming[i], w) BY <2>5, <2>6, <2>7
  <2> HIDE DEF h, w
  <2>9. Frames(incoming'[i]) = Frames(incoming[i]) \cup {w}
    BY <1>0, <2>4, <2>8, SentWithRoom DEF Room
  <2>10. w \in {h, OnWire(h)} BY DEF w
  <2> QED BY <2>2, <2>9, <2>10
<1>2. CASE ~UartSend
  <2>1. Frames(ext_outgoing) \subseteq Frames(ext_outgoing')
    <3>1. CASE returned' # NoFrame /\ HeadMove /\ ext_outgoing' = Append(ext_outgoing, returned')
      <4>1. returned' \in Frame
        BY <3>1, HeadFramesSent DEF SystemInv, Frame, HeadMove
      <4>2. PICK r : r = returned' OBVIOUS
      <4>3. Frames(Append(ext_outgoing, r)) = Frames(ext_outgoing) \cup {r}
        BY <1>0, <4>1, <4>2, Added
      <4> QED BY <3>1, <4>2, <4>3
    <3> QED BY <1>2, <3>1, OutgoingStep DEF HeadMove
  <2>2. \/ incoming'[i] = incoming[i]
        \/ NodeReceive(i) /\ incoming[i] # <<>> /\ incoming'[i] = Tail(incoming[i])
    <3>1. CASE incoming'[i] = <<>> /\ incoming[i] # <<>>
      <4>1. \/ UNCHANGED incoming
            \/ \E j \in Nodes : NodeReceive(j)
        <5>1. HeadReceive \/ HeadAct \/ UNCHANGED busVars \/ UartLocal => UNCHANGED incoming
          BY DEF HeadReceive, HeadAct, busVars, UartLocal
        <5>2. ASSUME NEW j \in Remotes, UartReply(j) PROVE UNCHANGED incoming
          <6>1. PICK copies \in Copies({0} \cup {k \in Remotes \ {j} : Powered(k)}) :
                  incoming' = [k \in Nodes |->
                    IF k \in DOMAIN copies \ {0}
                    THEN Delivered(incoming[k], OnWire(outgoing[j][1]), copies[k])
                    ELSE incoming[k]]
            BY <5>2 DEF UartReply
          <6>2. {0} \cup {k \in Remotes \ {j} : Powered(k)} = {0} BY DEF OneRemoteNode
          <6>3. DOMAIN copies = {0} BY <6>1, <6>2, CopiesOf
          <6>4. incoming' = [k \in Nodes |-> incoming[k]] BY <6>1, <6>3
          <6> QED BY <1>0, <6>4 DEF QueuesTyped
        <5>3. Aside => UNCHANGED incoming BY AsideMovesNothing
        <5> QED BY <1>2, <5>1, <5>2, <5>3, SystemSteps DEF Bus
      <4>2. ASSUME NEW j \in Nodes, NodeReceive(j), incoming'[i] # incoming[i]
            PROVE  NodeReceive(i) /\ incoming'[i] = Tail(incoming[i])
        <5> DEFINE t == Tail(incoming[j])
        <5>1. incoming[j] # <<>> /\ incoming' = [incoming EXCEPT ![j] = t]
          BY <4>2 DEF NodeReceive, Line!receive
        <5> HIDE DEF t
        <5>2. j = i /\ incoming'[i] = t BY <1>0, <4>2, <5>1 DEF QueuesTyped
        <5> QED BY <4>2, <5>2 DEF t
      <4> QED BY <3>1, <4>1, <4>2
    <3> QED BY <1>2, <3>1, IncomingStep
  <2>3. incoming[i] # <<>> => Frames(incoming[i]) = {incoming[i][1]} \cup Frames(Tail(incoming[i]))
    BY <1>0, FirstAndRest
  <2> QED BY <2>1, <2>2, <2>3
<1> QED BY <1>1, <1>2

\* What is under way to the head comes nearer, or waits, or is what the head takes.
LEMMA ToHeadKept ==
  ASSUME SystemInv, Room, ~faulty, [SystemNext]_<<systemVars, faulty>>,
         ~PowerCycle, ~KillNodeTask, NEW i \in Nodes,
         NEW f \in Frames(ext_incoming) \cup Frames(outgoing[i])
  PROVE  \/ f \in Frames(ext_incoming') \cup Frames(outgoing'[i])
         \/ HeadReceive /\ f \in Reply /\ handle_incoming_frame(f) /\ f \in Frames(ext_incoming)
<1>0. /\ QueuesTyped /\ NodesSound /\ ext_incoming \in Seq(Frame)
      /\ Carry(HeadFrame, HeadFrame, Reply, Reply)
      /\ outgoing \in [Nodes -> Seq(Frame)] /\ 0 \in Nodes
  BY NodesAssumption DEF SystemInv, QueuesTyped
<1>1. /\ Frames(ext_incoming) \subseteq Reply
      /\ \A j \in Nodes : Frames(outgoing[j]) \subseteq Reply
  BY <1>0 DEF Carry, Remotes
\* A node's first answer moves on to the head's queue.
<1>2. ASSUME NEW j \in Nodes, outgoing[j] # <<>>,
             ext_incoming' = Sent(ext_incoming, outgoing[j][1]),
             outgoing' = [outgoing EXCEPT ![j] = Tail(@)]
      PROVE  f \in Frames(ext_incoming') \cup Frames(outgoing'[i])
  <2> DEFINE h == outgoing[j][1]
             t == Tail(outgoing[j])
  <2>1. Frames(outgoing[j]) = {h} \cup Frames(t) /\ h \in Frame
    BY <1>0, <1>2, FirstAndRest, Taken, FramesTyped
  <2>2. ext_incoming' = Sent(ext_incoming, h) /\ outgoing' = [outgoing EXCEPT ![j] = t]
    BY <1>2
  <2> HIDE DEF h, t
  <2>3. Frames(ext_incoming') = Frames(ext_incoming) \cup {h}
    BY <1>0, <2>1, <2>2, SentWithRoom DEF Room
  <2>4. IF i = j THEN outgoing'[i] = t ELSE outgoing'[i] = outgoing[i] BY <1>0, <2>2
  <2> QED BY <2>1, <2>3, <2>4
<1>3. CASE UartLocal BY <1>0, <1>2, <1>3 DEF UartLocal
<1>4. ASSUME NEW j \in Remotes, UartReply(j)
      PROVE  f \in Frames(ext_incoming') \cup Frames(outgoing'[i])
  <2> DEFINE h == outgoing[j][1]
             L == {0} \cup {k \in Remotes \ {j} : Powered(k)}
  <2>1. j \in Nodes /\ outgoing[j] # <<>> /\ outgoing' = [outgoing EXCEPT ![j] = Tail(@)]
    BY <1>4 DEF UartReply, Remotes
  <2>2. h \in Frames(outgoing[j]) BY <1>0, <2>1, Taken
  <2>3. OnWire(h) = h BY <1>1, <2>1, <2>2, WireReply
  <2>4. PICK copies \in Copies(L) : ext_incoming' = Delivered(ext_incoming, OnWire(h), copies[0])
    BY <1>4 DEF UartReply
  <2>5. ext_incoming' = Sent(ext_incoming, OnWire(h)) BY <2>4, OneCopy
  <2> QED BY <1>2, <2>1, <2>3, <2>5
<1>5. CASE HeadReceive
  <2>1. outgoing' = outgoing BY <1>5 DEF HeadReceive
  <2>2. CASE ext_incoming = <<>> BY <2>1, <2>2 DEF Frames
  <2>3. CASE ext_incoming # <<>> /\ receive(ext_incoming[1]) /\ ext_incoming' = Tail(ext_incoming)
    <3> DEFINE h == ext_incoming[1]
    <3>1. Frames(ext_incoming) = {h} \cup Frames(ext_incoming')
      BY <1>0, <2>3, FirstAndRest
    <3>2. h \in Reply /\ h \in Frame BY <1>1, <3>1 DEF Frame
    <3>3. h # NoFrame BY <3>2, FrameFields
    <3>4. handle_incoming_frame(h) BY <2>3, <3>3 DEF receive
    <3> QED BY <1>5, <2>1, <3>1, <3>2, <3>4
  <2> QED BY <1>5, <2>2, <2>3 DEF HeadReceive
<1>6. ASSUME NEW j \in Nodes, NodeReceive(j)
      PROVE  f \in Frames(ext_incoming') \cup Frames(outgoing'[i])
  <2>1. PICK answer : /\ \/ UNCHANGED outgoing
                         \/ outgoing' = [outgoing EXCEPT ![j] = Append(outgoing[j], answer)]
                            /\ answer \in Frame
                      /\ UNCHANGED ext_incoming
    <3>1. PICK msg, answer :
            /\ msg \in Frame /\ Answers(node[j], msg, node'[j], answer)
            /\ \/ answer = NoFrame /\ UNCHANGED outgoing
               \/ answer # NoFrame
                  /\ outgoing' = [outgoing EXCEPT ![j] = Append(outgoing[j], answer)]
            /\ UNCHANGED ext_incoming
      BY <1>0, <1>6, NodeTakes
    <3>2. answer \in Reply \cup {NoFrame} BY <1>0, <3>1, AnswerIsSound DEF NodesSound
    <3> QED BY <3>1, <3>2 DEF Frame
  <2>2. CASE UNCHANGED outgoing BY <2>1, <2>2
  <2>3. CASE outgoing' = [outgoing EXCEPT ![j] = Append(outgoing[j], answer)] /\ answer \in Frame
    <3> DEFINE a == Append(outgoing[j], answer)
    <3>1. Frames(outgoing[j]) \subseteq Frames(a) BY <1>0, <2>3, Added
    <3> HIDE DEF a
    <3>2. outgoing' = [outgoing EXCEPT ![j] = a] BY <2>3 DEF a
    <3>3. Frames(outgoing[i]) \subseteq Frames(outgoing'[i]) BY <1>0, <3>1, <3>2
    <3> QED BY <2>1, <3>3
  <2> QED BY <2>1, <2>2, <2>3
<1>7. HeadAct \/ UartSend \/ UNCHANGED busVars => UNCHANGED <<outgoing, ext_incoming>>
  BY DEF HeadAct, UartSend, busVars
<1>8. Aside => UNCHANGED <<outgoing, ext_incoming>> BY AsideMovesNothing
<1> QED BY <1>3, <1>4, <1>5, <1>6, <1>7, <1>8, SystemSteps DEF Bus

\* A node that takes what leads to it is in service, or sends what leads back.
LEMMA NodeLed ==
  ASSUME SystemInv, NEW i \in Nodes, NodeReceive(i), ~InService(i)
  PROVE  IF LeadsTo(i, incoming[i][1])
         THEN InService(i)' \/ \E f \in Frames(outgoing'[i]) : LeadsBack(i, f)'
         ELSE node'[i] = node[i]
<1> DEFINE msg == incoming[i][1]
           n == node[i]
<1>0. /\ QueuesTyped /\ NodesSound /\ Carry(HeadFrame, HeadFrame, Reply, Reply)
      /\ outgoing \in [Nodes -> Seq(Frame)] /\ node \in [Nodes -> NodeType]
      /\ n \in NodeType
  BY DEF SystemInv, QueuesTyped, NodesSound
<1>1. /\ incoming[i] # <<>> /\ Line!handle_incoming_frame(i, Head(incoming[i]))
      /\ incoming[i] \in Seq(Frame)
  BY <1>0 DEF NodeReceive, Line!receive, QueuesTyped
<1>2. Head(incoming[i]) = msg /\ msg \in Frame BY <1>1, Taken, FramesTyped
<1>3. Line!handle_incoming_frame(i, msg) BY <1>1, <1>2
<1>4. PICK answer :
        /\ Answers(n, msg, node'[i], answer)
        /\ answer \in Reply \cup {NoFrame}
        /\ \/ answer = NoFrame /\ UNCHANGED outgoing
           \/ /\ answer # NoFrame
              /\ outgoing' = [outgoing EXCEPT ![i] = Append(outgoing[i], answer)]
  <2>1. PICK m, answer :
          /\ m = incoming[i][1] /\ m \in Frame /\ Answers(node[i], m, node'[i], answer)
          /\ \/ answer = NoFrame /\ UNCHANGED outgoing
             \/ /\ answer # NoFrame
                /\ outgoing' = [outgoing EXCEPT ![i] = Append(outgoing[i], answer)]
    BY <1>0, NodeTakes
  <2>2. answer \in Reply \cup {NoFrame} BY <1>0, <2>1, AnswerIsSound DEF NodesSound
  <2> QED BY <2>1, <2>2
<1>5. n.status = "INITIALIZING" BY DEF InService
<1>6. ASSUME ~LeadsTo(i, msg) PROVE node'[i] = node[i]
  <2> DEFINE m == node'[i]
  <2>1. Answers(n, msg, m, answer) BY <1>4
  <2>2. /\ msg.command # "DISCOVERY"
        /\ msg.command = "ADDRESSING" => msg.key # n.self_key
        /\ msg.command = "ACK" => msg.address # n.self_addr
    BY <1>6 DEF LeadsTo
  <2> HIDE DEF n, m, msg
  <2>3. m = n BY <1>5, <2>1, <2>2 DEF Answers, AddressedTo
  <2> QED BY <2>3 DEF n, m
<1>7. ASSUME NEW a \in Frame, Line!reply(i, a), LeadsBack(i, a)'
      PROVE  \E f \in Frames(outgoing'[i]) : LeadsBack(i, f)'
  <2> DEFINE q == Append(outgoing[i], a)
  <2>1. outgoing'[i] = q BY <1>0, <1>7 DEF Line!reply
  <2>2. Frames(q) = Frames(outgoing[i]) \cup {a} BY <1>0, Added
  <2> QED BY <1>7, <2>1, <2>2
<1>8. CASE msg.command = "DISCOVERY"
  <2>0. PICK key : key = IF n.self_key = 0 THEN msg.key ELSE n.self_key OBVIOUS
  <2>1. node' = [node EXCEPT ![i].self_key = key] /\ Line!reply(i, DiscoveryFrame(key, 2))
    BY <1>3, <1>5, <1>8, <2>0 DEF Line!handle_incoming_frame, Line!handle_unsynced_message,
       Line!DiscoveryFrame, DiscoveryFrame, Line!ADDR_UNSET, ADDR_UNSET
  <2>2. node'[i].self_key = key BY <1>0, <2>1 DEF NodeType
  <2>3. key \in Keys BY <1>0, <1>2, <1>8, <2>0, FrameFields DEF NodeType
  <2>4. DiscoveryFrame(key, 2) \in Frame BY <2>3 DEF Frame, Reply
  <2>5. LeadsBack(i, DiscoveryFrame(key, 2))' BY <2>2 DEF LeadsBack, DiscoveryFrame
  <2>6. \E f \in Frames(outgoing'[i]) : LeadsBack(i, f)' BY <1>7, <2>1, <2>4, <2>5
  <2> QED BY <1>8, <2>6 DEF LeadsTo
<1>9. CASE msg.command = "ADDRESSING" /\ msg.key = n.self_key
  <2>0. PICK a, k : k = n.self_key /\ a = AddressingFrame(k, msg.address) OBVIOUS
  <2>1. node' = [node EXCEPT ![i].self_addr = msg.address] /\ Line!reply(i, a)
    BY <1>3, <1>5, <1>9, <2>0 DEF Line!handle_incoming_frame, Line!handle_unsynced_message,
       Line!AddressingFrame, AddressingFrame
  <2>2. node'[i].self_key = k /\ node'[i].self_addr = msg.address
    BY <1>0, <2>0, <2>1 DEF NodeType
  <2>3. a \in Frame
    <3>1. msg.address \in Addr /\ n.self_key \in Keys
      BY <1>0, <1>2, <1>9, FrameFields DEF NodeType
    <3> QED BY <2>0, <3>1 DEF Frame, Reply
  <2>4. LeadsBack(i, a)' BY <2>0, <2>2 DEF LeadsBack, AddressingFrame
  <2>5. \E f \in Frames(outgoing'[i]) : LeadsBack(i, f)' BY <1>7, <2>1, <2>3, <2>4
  <2> QED BY <1>9, <2>5 DEF LeadsTo
<1>10. CASE msg.command = "ACK" /\ msg.address = n.self_addr
  <2>1. n.self_addr # ADDR_UNSET BY <1>2, <1>10, FrameFields
  <2>2. Line!complete_initialization(i)
    BY <1>3, <1>10, <2>1 DEF Line!handle_incoming_frame, Line!ADDR_UNSET, ADDR_UNSET
  <2>3. node'[i].status = "READY" BY <1>0, <2>2 DEF Line!complete_initialization, NodeType
  <2> QED BY <1>10, <2>3 DEF LeadsTo, InService
<1> QED BY <1>6, <1>8, <1>9, <1>10 DEF LeadsTo

\* The head answers who is found: the table has room for a node that has no address,
\* as there are no more keys than nodes.
LEMMA HeadReplies ==
  ASSUME SystemInv, OneRemoteNode, Nodes \subseteq Addr, KeysAreOwned,
         NEW f \in Reply, Agreed(f), f.command \in {"DISCOVERY", "ADDRESSING"}, Owned(f.key),
         handle_incoming_frame(f)
  PROVE  \/ f.command = "DISCOVERY" /\ \E a \in Addr : returned' = AddressingFrame(f.key, a)
         \/ f.command = "ADDRESSING" /\ returned' = AckFrame(f.address)
<1>0. IInv /\ KeysUnique BY DEF SystemInv, IInv
<1>1. CASE f.command = "DISCOVERY"
  <2>1. PICK addr \in Addr \cup {NoIndex} :
          /\ create_node_pending(f.key, addr)
          /\ returned' = IF addr = NoIndex THEN NoFrame ELSE AddressingFrame(f.key, addr)
    BY <1>1 DEF handle_incoming_frame, handle_discovery, create_addressing_frame
  <2>2. CASE addr = NoIndex
    <3>1. /\ NoIndex \in get_node_addr_by_key(f.key) /\ NoIndex \in get_available_address
      BY <2>1, <2>2 DEF create_node_pending
    <3>2. \A a \in Addr : Exists(a) /\ node_link[a].id_key # f.key
      <4>1. \A a \in Addr : Exists(a)
        BY <3>1, FirstOfSpec DEF get_available_address, NoIndex, Addr
      <4>2. {a \in Addr : Exists(a) /\ node_link[a].id_key = f.key} \in SUBSET Addr OBVIOUS
      <4>3. {a \in Addr : Exists(a) /\ node_link[a].id_key = f.key} = {}
        BY <3>1, <4>2, FirstOfSpec DEF get_node_addr_by_key
      <4> QED BY <4>1, <4>3
    <3>3. PICK k \in Nodes : node[k].self_key = f.key BY DEF Owned
    <3>4. Nodes \subseteq {0, 1} /\ 0 \in Nodes
      BY NodesAssumption DEF OneRemoteNode, Remotes
    <3>5. \A a \in Nodes : \E j \in Nodes : node[j].self_key = node_link[a].id_key /\ j # k
      BY <3>2, <3>3 DEF KeysAreOwned, Owned
    <3>6. PICK j \in Nodes : node[j].self_key = node_link[0].id_key /\ j # k BY <3>4, <3>5
    <3>7. <<j, k>> \in {<<0, 1>>, <<1, 0>>} /\ 1 \in Nodes BY <3>3, <3>4, <3>6
    <3>8. node_link[1].id_key = node[j].self_key
      <4>1. PICK m \in Nodes : node[m].self_key = node_link[1].id_key /\ m # k BY <3>5, <3>7
      <4>2. m = j BY <3>3, <3>4, <3>6, <3>7, <4>1
      <4> QED BY <4>1, <4>2
    <3>9. 0 \in Addr /\ 1 \in Addr BY <3>4, <3>7
    <3> QED BY <1>0, <3>2, <3>6, <3>8, <3>9 DEF KeysUnique
  <2> QED BY <1>1, <2>1, <2>2
<1>2. CASE f.command = "ADDRESSING"
  <2>1. f.address \in Addr /\ Exists(f.address) /\ node_link[f.address].id_key = f.key
    BY <1>2 DEF Agreed, Exists
  <2>2. handle_addressing(f.key, f.address) BY <1>2 DEF handle_incoming_frame
  <2> QED BY <1>2, <2>1, <2>2 DEF handle_addressing
<1> QED BY <1>1, <1>2

\* What the head returns, it sends.
LEMMA ReturnedIsSent ==
  ASSUME SystemInv, HeadMove, returned' # NoFrame
  PROVE  returned' \in Frames(ext_outgoing')
<1>1. returned' \in HeadFrame
  BY HeadFramesSent DEF SystemInv, HeadMove
<1>2. PICK r : r = returned' OBVIOUS
<1>3. ext_outgoing \in Seq(Frame) /\ r \in Frame BY <1>1, <1>2 DEF SystemInv, QueuesTyped, Frame
<1>4. ext_outgoing' = Append(ext_outgoing, r)
  BY <1>2 DEF HeadMove, HeadReceive, HeadAct, send_returned
<1>5. Frames(Append(ext_outgoing, r)) = Frames(ext_outgoing) \cup {r} BY <1>3, Added
<1> QED BY <1>2, <1>4, <1>5

\* A node that has been found stays so, until its power fails.
LEMMA FoundStays ==
  ASSUME SystemInv, AgreementInv, OneRemoteNode, Nodes \subseteq Addr, Room, ~faulty, KeysAreOwned,
         [SystemNext]_<<systemVars, faulty>>, ~PowerCycle, ~KillNodeTask,
         NEW i \in Nodes, Found(i)
  PROVE  Found(i)'
<1>0. /\ QueuesTyped /\ Carry(HeadFrame, HeadFrame, Reply, Reply)
      /\ incoming[i] \in Seq(Frame) /\ ext_outgoing \in Seq(Frame)
  BY DEF SystemInv, QueuesTyped
<1>1. CASE InService(i) BY <1>1, ServiceStays DEF Found
<1>2. CASE ~InService(i) /\ OnItsWay(i)
  <2>1. Powered(i)' BY <1>2, PowerStays DEF OnItsWay
  <2>2. \/ NodeReceive(i) /\ LeadsTo(i, incoming[i][1]) /\ Found(i)'
        \/ /\ node'[i] = node[i]
           /\ NodeReceive(i) => ~LeadsTo(i, incoming[i][1])
    <3>1. CASE ~NodeReceive(i) BY <1>2, <3>1, ServiceStays
    <3>2. CASE NodeReceive(i) /\ LeadsTo(i, incoming[i][1])
      BY <1>2, <2>1, <3>2, NodeLed DEF Found, OnItsWay
    <3>3. CASE NodeReceive(i) /\ ~LeadsTo(i, incoming[i][1])
      BY <1>2, <3>3, NodeLed
    <3> QED BY <3>1, <3>2, <3>3
  <2>3. ASSUME node'[i] = node[i], NodeReceive(i) => ~LeadsTo(i, incoming[i][1])
        PROVE  Found(i)'
    <3>1. \A f : (LeadsTo(i, f)' <=> LeadsTo(i, f)) /\ (LeadsBack(i, f)' <=> LeadsBack(i, f))
      BY <2>3 DEF LeadsTo, LeadsBack
    <3>2. ASSUME NEW f \in Frames(ext_outgoing) \cup Frames(incoming[i]), LeadsTo(i, f)
          PROVE  Found(i)'
      <4>1. f \in Frame BY <1>0, FramesTyped
      <4>2. LeadsTo(i, OnWire(f)) BY <3>2, <4>1, LeadsOnWire, WireReply DEF Frame
      <4>3. Powered(i) BY <1>2 DEF OnItsWay
      <4>4. \/ \E g \in {f, OnWire(f)} : g \in Frames(ext_outgoing') \cup Frames(incoming'[i])
            \/ NodeReceive(i) /\ f = incoming[i][1]
        BY <4>3, ToNodeKept
      <4> QED BY <2>1, <2>3, <3>1, <3>2, <4>2, <4>4 DEF Found, OnItsWay
    <3>3. ASSUME NEW f \in Frames(ext_incoming) \cup Frames(outgoing[i]), LeadsBack(i, f)
          PROVE  Found(i)'
      <4>1. CASE f \in Frames(ext_incoming') \cup Frames(outgoing'[i])
        BY <2>1, <3>1, <3>3, <4>1 DEF Found, OnItsWay
      <4>2. CASE HeadReceive /\ f \in Reply /\ handle_incoming_frame(f) /\ f \in Frames(ext_incoming)
        <5>1. Agreed(f) BY <4>2 DEF AgreementInv, FramesAgree, Carry, FromOwn, FromLine
        <5>2. f.command \in {"DISCOVERY", "ADDRESSING"} /\ Owned(f.key)
          BY <3>3 DEF LeadsBack, Owned
        <5>3. \/ f.command = "DISCOVERY" /\ \E a \in Addr : returned' = AddressingFrame(f.key, a)
              \/ f.command = "ADDRESSING" /\ returned' = AckFrame(f.address)
          BY <4>2, <5>1, <5>2, HeadReplies
        <5>4. PICK r : r = returned' OBVIOUS
        <5>5. r # NoFrame /\ LeadsTo(i, r)
          BY <3>3, <5>3, <5>4 DEF LeadsTo, LeadsBack, AddressingFrame, AckFrame, NoFrame
        <5>6. r \in Frames(ext_outgoing') BY <4>2, <5>4, <5>5, ReturnedIsSent DEF HeadMove
        <5> QED BY <2>1, <3>1, <5>5, <5>6 DEF Found, OnItsWay
      <4> QED BY <4>1, <4>2, ToHeadKept
    <3> QED BY <1>2, <3>2, <3>3 DEF OnItsWay
  <2> QED BY <2>2, <2>3
<1> QED BY <1>1, <1>2 DEF Found

-----------------------------------------------------------------------------
(***************************************************************************)
(* The keys in the table are the nodes' own.                               *)
(***************************************************************************)
LEMMA TableGrows ==
  ASSUME IInv, NEW f \in Reply, handle_incoming_frame(f), Agreed(f), NEW a \in Addr, Exists(a)'
  PROVE  \/ Exists(a) /\ node_link'[a].id_key = node_link[a].id_key
         \/ f.command \in {"DISCOVERY", "ADDRESSING"} /\ node_link'[a].id_key = f.key
<1>1. CASE f.command = "DISCOVERY" /\ handle_discovery(f.key)
  <2>1. PICK addr : create_node_pending(f.key, addr) BY <1>1 DEF handle_discovery
  <2>2. CASE UNCHANGED node_link BY <2>2 DEF Exists
  <2>3. CASE /\ addr \in get_available_address /\ addr # NoIndex
             /\ node_link' = [node_link EXCEPT ![addr] = NewNode(f.key, addr)]
    <3>1. addr \in Addr BY <2>3, AvailableAddress
    <3>2. \A b \in Addr : node_link'[b] = IF b = addr THEN NewNode(f.key, addr) ELSE node_link[b]
      BY <2>3, <3>1 DEF IInv, TypeOK
    <3>3. NewNode(f.key, addr).id_key = f.key BY DEF NewNode
    <3> QED BY <1>1, <3>2, <3>3 DEF Exists
  <2> QED BY <2>1, <2>2, <2>3 DEF create_node_pending
<1>2. CASE f.command = "ADDRESSING" /\ handle_addressing(f.key, f.address)
  <2> DEFINE b == f.address
             n == [node_link[b] EXCEPT !.node_status = "READY"]
  <2>1. Exists(b) /\ b \in Addr /\ node_link[b].id_key = f.key
    BY <1>2 DEF Agreed, Exists
  <2>2. node_link' = [node_link EXCEPT ![b] = n]
    BY <1>2, <2>1 DEF handle_addressing, confirm_node_pending
  <2>3. node_link[b] \in Node BY <2>1, ExistingNode DEF IInv
  <2>4. n.id_key = node_link[b].id_key /\ n.node_status \in NodeStatus
    BY <2>3 DEF Node, NodeStatus
  <2> HIDE DEF n
  <2>5. SameRegistry BY <2>1, <2>2, <2>4, UpdatedNode
  <2> QED BY <2>5 DEF SameRegistry
<1>3. CASE \/ f.command = "ACK" /\ handle_ack(f.address)
           \/ f.command = "STATUS" /\ handle_incoming_node_status(f.address, f.status)
  <2>1. Exists(f.address) BY <1>3 DEF Agreed
  <2> QED BY <1>3, <2>1, RoundFrameSame DEF SameRegistry
<1> QED BY <1>1, <1>2, <1>3 DEF handle_incoming_frame

\* Only a frame of a pairing adds a node to the table.
LEMMA TableFrom ==
  ASSUME SystemInv, AgreementInv, [SystemNext]_<<systemVars, faulty>>, ~PowerCycle,
         NEW a \in Addr, Exists(a)'
  PROVE  \/ Exists(a) /\ node_link'[a].id_key = node_link[a].id_key
         \/ \E f \in Frames(ext_incoming) :
              f.command \in {"DISCOVERY", "ADDRESSING"} /\ node_link'[a].id_key = f.key
<1>0. IInv /\ QueuesTyped BY DEF SystemInv
<1>1. CASE UNCHANGED node_link BY <1>1 DEF Exists
<1>2. CASE SameRegistry BY <1>2 DEF SameRegistry
<1>3. CASE HeadReceive
  <2>1. PICK R0, R : R0 = FromOwn /\ R = FromLine OBVIOUS
  <2>2. Carry(ToOwn, ToLine, R0, R) BY <2>1 DEF AgreementInv, FramesAgree
  <2>3. \/ receive(NoFrame)
        \/ \E f \in Frames(ext_incoming) \cap Frame \cap (R0 \cup R) : receive(f)
    BY <1>0, <1>3, <2>2, HeadTakes
  <2>4. CASE receive(NoFrame) BY <1>1, <2>4 DEF receive
  <2>5. ASSUME NEW f \in Frames(ext_incoming) \cap Frame \cap (R0 \cup R), receive(f)
        PROVE  \/ Exists(a) /\ node_link'[a].id_key = node_link[a].id_key
               \/ f.command \in {"DISCOVERY", "ADDRESSING"} /\ node_link'[a].id_key = f.key
    <3>1. f # NoFrame BY FrameFields
    <3>2. f \in Reply /\ Agreed(f) BY <2>1 DEF FromOwn, FromLine
    <3>3. handle_incoming_frame(f) BY <2>5, <3>1 DEF receive
    <3> QED BY <1>0, <3>2, <3>3, TableGrows
  <2> QED BY <2>3, <2>4, <2>5
<1>4. CASE HeadAct
  <2>1. CASE \E key \in Keys : pair(key) BY <1>1, <2>1 DEF pair, process_pairing
  <2>2. ASSUME NEW due, NEW phase, schedule(due, phase) PROVE SameRegistry
    BY <1>0, <2>2, ScheduledSame DEF schedule
  <2>3. CASE command BY <1>0, <1>2, <2>3, CommandedSame DEF command
  <2> QED BY <1>2, <1>4, <2>1, <2>2, <2>3 DEF HeadAct
<1>5. ASSUME NEW r \in Request, Serve(r)
      PROVE  SameRegistry \/ UNCHANGED node_link
  <2>1. CASE init_pairing_mode BY <2>1 DEF init_pairing_mode, Exists
  <2>2. CASE UNCHANGED vars BY <2>2 DEF vars
  <2> QED BY <1>0, <1>5, <2>1, <2>2, DurationSame, CycleSame DEF Serve
<1>6. KillNodeTask \/ Bus \/ Aside \/ notify \/ (\E i \in Nodes : NodeReceive(i))
        => UNCHANGED node_link
  BY BusFinds, AsideMovesNothing
     DEF KillNodeTask, node_task_killed, notify, NodeReceive, allVars, vars
<1> QED BY <1>1, <1>2, <1>3, <1>4, <1>5, <1>6, SystemSteps

\* A node has one key, and takes it before there is a table.
LEMMA KeysStay ==
  ASSUME SystemInv, AgreementInv, RemotesHaveNoKey', [SystemNext]_<<systemVars, faulty>>,
         ~PowerCycle, ~KillNodeTask, node[0].self_key # 0, NEW i \in Nodes
  PROVE  node'[i].self_key = node[i].self_key
<1>1. CASE i # 0 BY <1>1 DEF AgreementInv, RemotesHaveNoKey, Remotes
<1>2. CASE i = 0
  <2> DEFINE n == node[i]
             m == node'[i]
  <2>1. n \in NodeType /\ n.self_key # 0 BY <1>2 DEF SystemInv, NodesSound
  <2>2. m = n \/ Expired(n, m) \/ \E f, answer : Answers(n, f, m, answer)
    BY NodeMoves
  <2> HIDE DEF n, m
  <2>3. m.self_key = n.self_key BY <2>1, <2>2 DEF Expired, Answers, NodeType
  <2> QED BY <2>3 DEF n, m
<1> QED BY <1>1, <1>2

LEMMA KeysAreOwnedStep ==
  ASSUME SystemInv, AgreementInv, RemotesHaveNoKey', KeysAreOwned,
         [SystemNext]_<<systemVars, faulty>>
  PROVE  KeysAreOwned'
<1>1. CASE PowerCycle \/ KillNodeTask
  <2>1. Quiet' /\ NoNodes' BY <1>1, PowerIsOff, NodesAreNew DEF AgreementInv
  <2> QED BY <2>1 DEF KeysAreOwned, Named, NoNodes, Quiet, Arrived, Frames
<1>2. CASE ~PowerCycle /\ ~KillNodeTask
  <2>0. QueuesTyped /\ NodesSound /\ Carry(HeadFrame, HeadFrame, Reply, Reply) /\ 0 \in Nodes
    BY NodesAssumption DEF SystemInv
  <2>1. PICK P : P = {f \in Reply : f.command \in {"DISCOVERY", "ADDRESSING"} => Owned(f.key)'}
    OBVIOUS
  <2>2. Carry(HeadFrame, Frame, P, P)
    <3>1. CASE node[0].self_key = 0
      <4>1. Carry(Asking, {}, {}, {}) BY <3>1 DEF AgreementInv, OwnNodeFirst
      <4> QED BY <4>1 DEF Carry, Asking
    <3>2. CASE node[0].self_key # 0
      <4>1. \A k : Owned(k) => Owned(k)' BY <1>2, <3>2, KeysStay DEF Owned
      <4>2. \A q : Frames(q) \subseteq Reply /\ Named(q) => Frames(q) \subseteq P
        BY <2>1, <4>1 DEF Named
      <4>3. Frames(ext_incoming) \subseteq P /\ \A i \in Nodes : Frames(outgoing[i]) \subseteq P
        BY <2>0, <4>2 DEF KeysAreOwned, Carry, Remotes
      <4>4. \A i \in Remotes : Frames(incoming[i]) \subseteq Frame BY <2>0 DEF Carry, Frame
      <4> QED BY <2>0, <4>3, <4>4 DEF Carry, Remotes
    <3> QED BY <3>1, <3>2
  <2>3. ASSUME NEW i \in Nodes, NEW f \in Frame, NEW answer,
               Answers(node[i], f, node'[i], answer), answer # NoFrame
        PROVE  answer \in P
    <3> DEFINE n == node[i]
               m == node'[i]
    <3>1. n \in NodeType /\ SoundNode(n) BY <2>0 DEF NodesSound
    <3>2. answer \in Reply BY <2>3, <3>1, AnswerIsSound
    <3>3. Answers(n, f, m, answer) BY <2>3
    <3> HIDE DEF n, m
    <3>4. answer.command \in {"DISCOVERY", "ADDRESSING"} => answer.key = m.self_key
      BY <2>3, <3>1, <3>3 DEF Answers, DiscoveryFrame, AddressingFrame, AckFrame, StatusReply, NodeType
    <3> QED BY <2>1, <3>2, <3>4 DEF Owned, m
  <2>4. Carry(HeadFrame, Frame, P, P)'
    <3>1. PICK H, W : H = HeadFrame /\ W = Frame OBVIOUS
    <3>2. H \in SUBSET Frame /\ W \in SUBSET Frame /\ P \in SUBSET Frame
      BY <2>1, <3>1 DEF Frame
    <3>3. HeadReceive \/ HeadAct => returned' \in H \cup {NoFrame}
      BY <2>0, <3>1, HeadFramesSent DEF SystemInv
    <3>4. \A f \in H : OnWire(f) \in W BY <3>1, WireKeepsType DEF Frame
    <3>5. \A f \in P : OnWire(f) \in P BY <2>1, WireReply
    <3>6. \A i \in Nodes : \A f \in Frame : \A answer :
             /\ NodeReceive(i) /\ f \in Frames(incoming[i]) /\ f = incoming[i][1]
             /\ Answers(node[i], f, node'[i], answer)
             /\ answer # NoFrame
             => answer \in (IF i = 0 THEN P ELSE P)
      BY <2>3
    <3>7. Carry(H, W, P, P) BY <2>2, <3>1
    <3>8. Carry(H, W, P, P)' BY <2>0, <3>2, <3>3, <3>4, <3>5, <3>6, <3>7, CarryStep
    <3> QED BY <3>1, <3>8
  <2>5. ASSUME NEW a \in Addr, Exists(a)' PROVE Owned(node_link[a].id_key)'
    <3>1. ASSUME NEW f \in Frames(ext_incoming), f.command \in {"DISCOVERY", "ADDRESSING"},
                 node_link'[a].id_key = f.key
          PROVE  Owned(node_link[a].id_key)'
      <4>1. f \in P BY <2>2 DEF Carry
      <4> QED BY <2>1, <3>1, <4>1 DEF Owned
    <3>2. CASE Exists(a) /\ node_link'[a].id_key = node_link[a].id_key
      <4>1. node[0].self_key # 0 BY <3>2 DEF AgreementInv, OwnNodeFirst, NoNodes
      <4>2. PICK i \in Nodes : node[i].self_key = node_link[a].id_key
        BY <3>2 DEF KeysAreOwned, Owned
      <4>3. node'[i].self_key = node[i].self_key BY <1>2, <4>1, KeysStay
      <4> QED BY <3>2, <4>2, <4>3 DEF Owned
    <3> QED BY <1>2, <2>5, <3>1, <3>2, TableFrom
  <2>6. Named(ext_incoming)' /\ \A i \in Nodes : Named(outgoing[i])'
    <3>1. Frames(ext_incoming') \subseteq P /\ \A i \in Nodes : Frames(outgoing'[i]) \subseteq P
      BY <2>4 DEF Carry, Remotes
    <3>2. \A f \in P : f.command \in {"DISCOVERY", "ADDRESSING"} => Owned(f.key)' BY <2>1
    <3> QED BY <3>1, <3>2 DEF Named, Owned
  <2> QED BY <2>5, <2>6 DEF KeysAreOwned
<1> QED BY <1>1, <1>2

-----------------------------------------------------------------------------
(***************************************************************************)
(* A search begins on a quiet line, and ends when it has been silent for   *)
(* long enough.                                                            *)
(***************************************************************************)
LEMMA OutOfPairing ==
  ASSUME SystemInv, [SystemNext]_<<systemVars, faulty>>, ~PowerCycle, ~Searching
  PROVE  /\ UNCHANGED no_response_pairing_count
         /\ \/ ~Searching' /\ (pc' = "kill_node_task" => pc = "kill_node_task")
            \/ /\ Searching' /\ pc = "requests" /\ pc' = "kill_node_task" /\ UNCHANGED busVars
               /\ PairingRequest \in extRequests
               /\ extRequests' = extRequests \ {PairingRequest}
<1> USE DEF Searching
<1>1. CASE UNCHANGED <<vars, pc>> BY <1>1 DEF vars
<1>2. ASSUME NEW f, handle_incoming_frame(f)
      PROVE  UNCHANGED no_response_pairing_count /\ ~Searching'
  <2>1. UNCHANGED no_response_pairing_count BY <1>2 DEF handle_incoming_frame
  <2>2. \/ UNCHANGED head_status \/ \E s \in {"STANDBY", "FAULTY_NODE"} : head_status' = s
    BY <1>2 DEF handle_incoming_frame, handle_discovery, handle_addressing, handle_ack,
       handle_incoming_node_status, advance_active_watering_index, conclude_watering,
       Panic, roundVars
  <2> QED BY <2>1, <2>2
<1>3. CASE HeadReceive
  <2>1. PICK f : receive(f) BY <1>3 DEF HeadReceive
  <2> QED BY <1>2, <2>1 DEF receive, roundVars
<1>4. CASE HeadAct
  <2>1. ~\E key : pair(key) BY DEF pair, process_pairing
  <2>2. ASSUME NEW due, NEW phase, schedule(due, phase)
        PROVE  UNCHANGED no_response_pairing_count /\ ~Searching' /\ pc' # "kill_node_task"
    BY <2>2 DEF schedule, process_watering_schedule, initialize_watering_states, roundVars,
       compare_statuses
  <2>3. CASE command
    BY <2>3 DEF command, next_watering_frame, RetryNode, conclude_watering, roundVars,
       compare_statuses
  <2> QED BY <1>4, <2>1, <2>2, <2>3 DEF HeadAct
<1>5. ASSUME NEW r \in Request, Serve(r), pc = "requests", UNCHANGED busVars,
             r \in extRequests, extRequests' = extRequests \ {r}
      PROVE  /\ UNCHANGED no_response_pairing_count
             /\ \/ ~Searching' /\ pc' = pc
                \/ Searching' /\ pc' = "kill_node_task" /\ r = PairingRequest
  <2>1. CASE init_pairing_mode /\ pc' = "kill_node_task" /\ r.type = "INIT_PAIRING"
    <3>1. r = PairingRequest BY <2>1 DEF Request, PairingRequest
    <3> QED BY <2>1, <3>1 DEF init_pairing_mode, conclude_watering
  <2>2. ASSUME NEW a, NEW d, NEW s, set_node_duration(a, d, s)
        PROVE  UNCHANGED no_response_pairing_count /\ ~Searching'
    BY <2>2 DEF set_node_duration, roundVars
  <2>3. ASSUME NEW a, NEW c, NEW s, set_watering_cycle(a, c, s)
        PROVE  UNCHANGED no_response_pairing_count /\ ~Searching'
    BY <2>3 DEF set_watering_cycle, roundVars
  <2> QED BY <1>5, <2>1, <2>2, <2>3 DEF Serve, vars
<1>6. CASE KillNodeTask \/ notify
  BY <1>6 DEF KillNodeTask, node_task_killed, notify, vars
<1>7. Bus \/ Aside \/ (\E i \in Nodes : NodeReceive(i)) => UNCHANGED <<vars, pc>>
  BY BusFinds, AsideMovesNothing DEF taskVars, NodeReceive, allVars
<1>8. HeadReceive => pc' # "kill_node_task" BY DEF HeadReceive, receive
<1> QED BY <1>1, <1>3, <1>4, <1>5, <1>6, <1>7, <1>8, SystemSteps, MoveKnown DEF HeadMove

LEMMA InSearch ==
  ASSUME SystemInv, [SystemNext]_<<systemVars, faulty>>, ~PowerCycle,
         Searching, OnlyPairing, PairingRequest \notin extRequests
  PROVE  \/ \E key \in Keys : HeadAct /\ pair(key)
         \/ /\ HeadReceive /\ UNCHANGED <<head_status, no_response_pairing_count>>
            /\ pc = "receive" /\ pc' = "act"
            /\ \/ returned' = NoFrame /\ ext_incoming = <<>>
               \/ \E f \in Frames(ext_incoming) \cap PairingAnswer : handle_incoming_frame(f)
         \/ /\ ~HeadMove /\ UNCHANGED <<head_status, no_response_pairing_count>>
            /\ pc' = "act" => pc = "act" /\ UNCHANGED returned
            /\ pc' = "kill_node_task" => pc = "kill_node_task"
<1> USE DEF Searching
<1>0. QueuesTyped /\ Frames(ext_incoming) \subseteq PairingAnswer /\ ext_incoming \in Seq(Frame)
  BY DEF SystemInv, OnlyPairing, Routed, Carry, QueuesTyped
<1>1. CASE HeadReceive
  <2>1. pc = "receive" /\ pc' = "act" BY <1>1 DEF HeadReceive, receive
  <2>2. CASE ext_incoming = <<>> /\ receive(NoFrame)
    BY <1>1, <2>1, <2>2 DEF receive, roundVars
  <2>3. CASE ext_incoming # <<>> /\ receive(ext_incoming[1])
    <3>1. ext_incoming[1] \in Frames(ext_incoming) \cap PairingAnswer BY <1>0, <2>3, Taken
    <3>2. ext_incoming[1] \in Frame BY <3>1 DEF PairingAnswer, Frame
    <3>3. ext_incoming[1] # NoFrame BY <3>2, FrameFields
    <3>4. handle_incoming_frame(ext_incoming[1]) BY <2>3, <3>3 DEF receive
    <3>5. UNCHANGED <<head_status, no_response_pairing_count>>
      BY <3>1, <3>4, PairingHandled DEF handle_incoming_frame, roundVars
    <3> QED BY <1>1, <2>1, <3>1, <3>4, <3>5
  <2> QED BY <1>1, <2>2, <2>3 DEF HeadReceive
<1>2. CASE HeadAct
  BY <1>2 DEF HeadAct, schedule, command, next_watering_frame
<1>3. ASSUME NEW r \in Request, Serve(r), r \in extRequests, pc = "requests"
      PROVE  pc' = "requests" /\ UNCHANGED <<head_status, no_response_pairing_count>>
  <2>1. r.type # "INIT_PAIRING" BY <1>3 DEF Request, PairingRequest
  <2>2. pc' = "requests" BY <1>3, <2>1, ServeAgrees
  <2>3. ASSUME NEW a, NEW d, NEW s, set_node_duration(a, d, s)
        PROVE  UNCHANGED <<head_status, no_response_pairing_count>>
    BY <2>3 DEF set_node_duration, roundVars
  <2>4. ASSUME NEW a, NEW c, NEW s, set_watering_cycle(a, c, s)
        PROVE  UNCHANGED <<head_status, no_response_pairing_count>>
    BY <2>4 DEF set_watering_cycle, roundVars
  <2> QED BY <1>3, <2>1, <2>2, <2>3, <2>4 DEF Serve, vars
<1>4. KillNodeTask \/ notify => UNCHANGED vars /\ pc' \in {"requests", "receive"}
  BY DEF KillNodeTask, node_task_killed, notify
<1>5. Bus \/ Aside \/ (\E i \in Nodes : NodeReceive(i)) => UNCHANGED <<vars, pc>>
  BY BusFinds, AsideMovesNothing DEF taskVars, NodeReceive, allVars
<1>6. CASE ~HeadMove
  <2>1. CASE \E r \in Request : Serve(r) /\ r \in extRequests /\ pc = "requests"
    BY <1>3, <1>6, <2>1
  <2>2. CASE UNCHANGED vars /\ pc' \in {"requests", "receive"} BY <1>6, <2>2 DEF vars
  <2>3. CASE UNCHANGED <<vars, pc>> BY <1>6, <2>3 DEF vars
  <2> QED BY <1>4, <1>5, <1>6, <2>1, <2>2, <2>3, SystemSteps DEF HeadMove
<1> QED BY <1>1, <1>2, <1>6 DEF HeadMove

LEMMA SearchBeginsStep ==
  ASSUME SystemInv, AgreementInv, Repairing = "standby", SearchBegins, OnlyPairing,
         [SystemNext]_<<systemVars, faulty>>
  PROVE  SearchBegins'
<1>1. CASE PowerCycle
  <2>1. ~Searching' /\ pc' = "receive" BY <1>1, PowerIsOff DEF Searching
  <2>2. no_response_pairing_count' = 0 BY <1>1 DEF PowerCycle, restart, Reboot
  <2> QED BY <2>1, <2>2 DEF SearchBegins
<1>2. CASE ~PowerCycle
  <2>1. PairingRequest \in extRequests' => PairingRequest \in extRequests \/ ~(Searching \/ Searching')
    <3>1. CASE HostWrite
      <4>1. PICK r : (r = PairingRequest => MayPair) /\ putRequest(r) BY <3>1 DEF HostWrite
      <4>2. extRequests' \subseteq extRequests \cup {r} /\ UNCHANGED head_status
        BY <4>1 DEF putRequest, put, vars, roundVars
      <4> QED BY <4>1, <4>2 DEF MayPair, Searching
    <3>2. CASE UNCHANGED extRequests BY <3>2
    <3>3. CASE \E r : extRequests' = extRequests \ {r} BY <3>3
    <3>4. HeadReceive \/ HeadAct \/ KillNodeTask \/ notify => UNCHANGED extRequests
      BY DEF HeadReceive, HeadAct, receive, pair, schedule, command, KillNodeTask,
         node_task_killed, notify
    <3>5. Bus \/ (\E i \in Nodes : NodeReceive(i)) => UNCHANGED extRequests
      BY BusFinds DEF taskVars, NodeReceive, allVars
    <3>6. Aside /\ ~HostWrite => UNCHANGED extRequests
      <4>1. ASSUME NEW i \in Nodes, NodeExpire(i) PROVE UNCHANGED extRequests
        BY <4>1 DEF NodeExpire, allVars, taskVars
      <4> QED BY <4>1 DEF Aside, HostRead, status_task, systemVars, allVars, taskVars
    <3> QED BY <1>2, <3>1, <3>2, <3>3, <3>4, <3>5, <3>6, SystemSteps
  <2>2. CASE ~Searching
    <3>1. no_response_pairing_count = 0 /\ pc # "kill_node_task" BY <2>2 DEF SearchBegins
    <3> QED BY <1>2, <2>1, <2>2, <3>1, OutOfPairing DEF SearchBegins
  <2>3. CASE Searching
    <3>1. PairingRequest \notin extRequests /\ PairingRequest \notin extRequests'
      BY <2>1, <2>3 DEF SearchBegins
    <3>2. ASSUME NEW key \in Keys, pair(key)
          PROVE  /\ pc' # "kill_node_task"
                 /\ ~Searching' => no_response_pairing_count' = 0
      BY <2>3, <3>2 DEF pair, process_pairing, compare_statuses, Searching
    <3> QED BY <1>2, <2>3, <3>1, <3>2, InSearch DEF SearchBegins, Searching
  <2> QED BY <2>2, <2>3
<1> QED BY <1>1, <1>2

LEMMA OnlyPairingStep ==
  ASSUME SystemInv, AgreementInv, OneRemoteNode, SearchBegins, OnlyPairing,
         [SystemNext]_<<systemVars, faulty>>
  PROVE  OnlyPairing'
<1> SUFFICES ASSUME Searching' PROVE Routed(PairingSent, PairingAnswer)'
  BY DEF OnlyPairing
<1>1. PICK S, A : S = PairingSent /\ A = PairingAnswer OBVIOUS
<1>2. ~PowerCycle BY PowerIsOff DEF Searching
<1>3. CASE ~Searching
  <2>1. UNCHANGED busVars /\ PairingRequest \in extRequests BY <1>2, <1>3, OutOfPairing
  <2>2. Quiet BY <2>1 DEF AgreementInv, PairingIsQuiet
  <2>3. Quiet' BY <2>1, <2>2 DEF busVars, Quiet, Arrived
  <2>4. Carry(S, S, A, A)' BY <2>3, NothingUnderWayNext
  <2>5. \A i \in Nodes : Frames(incoming'[i]) = {} BY <2>3 DEF Quiet, Arrived, Frames
  <2> QED BY <1>1, <2>4, <2>5 DEF Routed
<1>4. CASE Searching
  <2>1. Routed(S, A) BY <1>1, <1>4 DEF OnlyPairing
  <2>2. S \in SUBSET Frame /\ A \in SUBSET Frame
    BY <1>1 DEF PairingSent, PairingAnswer, Frame
  <2>3. \A f \in S : OnWire(f) \in S
    <3> SUFFICES ASSUME NEW f \in S PROVE OnWire(f) \in S OBVIOUS
    <3>1. f \in HeadFrame /\ f.command \in {"DISCOVERY", "ADDRESSING", "ACK"}
      BY <1>1 DEF PairingSent
    <3>2. DiscoveryFrame(0, 0).command = "DISCOVERY" BY DEF DiscoveryFrame
    <3> QED BY <1>1, <3>1, <3>2, WireHead DEF PairingSent
  <2>4. \A f \in A : OnWire(f) \in A
    <3> SUFFICES ASSUME NEW f \in A PROVE OnWire(f) = f OBVIOUS
    <3> QED BY <1>1, WireReply DEF PairingAnswer
  <2>5. \A i \in Nodes : \A f \in S : \A answer :
             /\ NodeReceive(i) /\ incoming[i] # <<>> /\ f = incoming[i][1]
             /\ Answers(node[i], f, node'[i], answer)
             => answer \in A \cup {NoFrame}
    BY <1>1, AnswerInPairing
  <2>6. HeadReceive \/ HeadAct => returned' \in S \cup {NoFrame}
    <3>1. ASSUME NEW key \in Keys, pair(key) PROVE returned' \in PairingSent \cup {NoFrame}
      <4>1. DiscoveryFrame(key, 0) \in PairingSent
        BY DEF PairingSent, HeadFrame, DiscoveryFrame
      <4> QED BY <3>1, <4>1 DEF pair, process_pairing
    <3>2. ASSUME NEW f \in PairingAnswer, handle_incoming_frame(f)
          PROVE  returned' \in PairingSent \cup {NoFrame}
      BY <3>2, PairingHandled
    <3>3. PairingRequest \notin extRequests BY <1>4 DEF SearchBegins
    <3> QED BY <1>1, <1>2, <1>4, <3>1, <3>2, <3>3, InSearch DEF HeadMove
  <2>7. Routed(S, A)' BY <2>1, <2>2, <2>3, <2>4, <2>5, <2>6, RoutedStep
  <2> QED BY <1>1, <2>7
<1> QED BY <1>3, <1>4

LEMMA ServiceIsHeardStep ==
  ASSUME SystemInv, AgreementInv, ServiceIsHeard, [SystemNext]_<<systemVars, faulty>>
  PROVE  ServiceIsHeard'
<1> SUFFICES ASSUME NEW i \in Nodes, InService(i)' PROVE heard'[i] = TRUE
  BY DEF ServiceIsHeard
<1>1. ~PowerCycle /\ ~KillNodeTask
  BY NodesChangedToNew DEF InService, Line!NewSelfNode
<1>2. heard \in [Nodes -> BOOLEAN] BY DEF SystemInv, NodesSound
<1>3. heard'[i] = heard[i] \/ (NodeReceive(i) /\ heard'[i] = TRUE)
  <2>1. CASE UNCHANGED heard BY <2>1
  <2>2. ASSUME NEW j \in Nodes, NodeReceive(j)
        PROVE  heard'[i] = heard[i] \/ (NodeReceive(i) /\ heard'[i] = TRUE)
    <3>1. /\ QueuesTyped /\ NodesSound /\ Carry(HeadFrame, HeadFrame, Reply, Reply)
      BY DEF SystemInv
    <3>2. heard' = [heard EXCEPT ![j] = TRUE] BY <2>2, <3>1, NodeTakes
    <3> QED BY <1>2, <2>2, <3>2
  <2>3. HeadReceive \/ HeadAct \/ Bus \/ UNCHANGED busVars => UNCHANGED heard
    BY DEF HeadReceive, HeadAct, Bus, UartSend, UartLocal, UartReply, busVars
  <2>4. Aside => UNCHANGED heard
    <3>1. ASSUME NEW j \in Nodes, NodeExpire(j) PROVE UNCHANGED heard
      BY <3>1, NodeExpires DEF SystemInv
    <3> QED BY <3>1 DEF Aside, HostWrite, HostRead, systemVars, busVars
  <2> QED BY <1>1, <2>1, <2>2, <2>3, <2>4, SystemSteps
<1>4. CASE NodeReceive(i)
  <2>1. QueuesTyped /\ NodesSound /\ Carry(HeadFrame, HeadFrame, Reply, Reply)
    BY DEF SystemInv
  <2>2. heard' = [heard EXCEPT ![i] = TRUE] BY <1>4, <2>1, NodeTakes
  <2> QED BY <1>2, <2>2
<1>5. CASE ~NodeReceive(i)
  <2>1. InService(i) BY <1>1, <1>5, ServiceStays DEF InService
  <2>2. heard[i] BY <2>1 DEF ServiceIsHeard
  <2>3. heard'[i] = heard[i] BY <1>3, <1>5
  <2>4. heard[i] = TRUE BY <1>2, <2>2
  <2> QED BY <2>3, <2>4
<1> QED BY <1>4, <1>5

\* On a quiet line nobody is on the way.
LEMMA QuietFound ==
  ASSUME Quiet, NEW i \in Nodes, Found(i)
  PROVE  InService(i)
<1>1. Frames(ext_outgoing) \cup Frames(incoming[i]) \cup Frames(ext_incoming)
        \cup Frames(outgoing[i]) = {}
  BY DEF Quiet, Arrived, Frames
<1> QED BY <1>1 DEF Found, OnItsWay

\* A DISCOVERY is for every node that has power.
LEMMA DiscoveryFinds ==
  ASSUME NEW key, DiscoveryFrame(key, 0) \in Frames(ext_outgoing), NEW i \in Nodes, Powered(i)
  PROVE  Found(i)
<1>1. DiscoveryFrame(key, 0).command = "DISCOVERY" BY DEF DiscoveryFrame
<1> QED BY <1>1 DEF Found, OnItsWay, LeadsTo

\* The head is silent only if it has taken nothing.
LEMMA SilentPass ==
  ASSUME SystemInv, AgreementInv, OneRemoteNode, Nodes \subseteq Addr, KeysAreOwned,
         NEW f \in Frames(ext_incoming) \cap PairingAnswer, handle_incoming_frame(f)
  PROVE  returned' # NoFrame
<1>1. f \in Reply /\ f.command \in {"DISCOVERY", "ADDRESSING"} BY DEF PairingAnswer
<1>2. Agreed(f) BY DEF AgreementInv, FramesAgree, Carry, FromOwn, FromLine
<1>3. Owned(f.key) BY <1>1 DEF KeysAreOwned, Named
<1>4. (\E a \in Addr : returned' = AddressingFrame(f.key, a)) \/ returned' = AckFrame(f.address)
  BY <1>1, <1>2, <1>3, HeadReplies
<1> QED BY <1>4 DEF AddressingFrame, AckFrame, NoFrame

LEMMA SilenceStep ==
  ASSUME SystemInv, AgreementInv, OneRemoteNode, Nodes \subseteq Addr, StopPairingCount >= 2,
         Room, ~faulty, SearchInv, [SystemNext]_<<systemVars, faulty>>, Searching'
  PROVE  SilenceMeansFound'
<1> DEFINE silent == no_response_pairing_count
<1>0. /\ SearchBegins /\ OnlyPairing /\ KeysAreOwned /\ StopPairingCount \in Nat
      /\ silent \in Nat
  BY StopAssumption DEF SearchInv, SystemInv, IInv, TypeOK
<1>1. ~PowerCycle BY PowerIsOff DEF Searching
<1>2. CASE ~Searching
  <2>1. silent' = 0 /\ pc' = "kill_node_task" BY <1>0, <1>1, <1>2, OutOfPairing DEF SearchBegins
  <2> QED BY <1>0, <2>1 DEF SilenceMeansFound
<1>3. CASE KillNodeTask
  <2>1. UNCHANGED silent /\ pc = "kill_node_task" /\ pc' = "requests"
    BY <1>3, NodesAreNew DEF AgreementInv, vars
  <2>2. silent = 0 BY <1>0, <2>1 DEF SearchBegins
  <2> QED BY <1>0, <2>1, <2>2 DEF SilenceMeansFound
<1>4. CASE Searching /\ ~KillNodeTask
  <2>0. SilenceMeansFound /\ 0 \in Nodes BY <1>4, NodesAssumption DEF SearchInv
  <2>1. \A i \in Nodes : Found(i) => Found(i)' BY <1>0, <1>1, <1>4, FoundStays
  <2>2. \A i \in Nodes : InService(i) => InService(i)' BY <1>1, <1>4, ServiceStays
  <2>3. PairingRequest \notin extRequests BY <1>0, <1>4 DEF SearchBegins
  <2>4. ASSUME UNCHANGED silent
        PROVE  /\ silent' > 0 => Found(0)'
               /\ silent' >= StopPairingCount => \A i \in Nodes : Found(i)'
    BY <2>0, <2>1, <2>4 DEF SilenceMeansFound
  <2>5. ASSUME HeadReceive, UNCHANGED silent,
               \/ returned' = NoFrame /\ ext_incoming = <<>>
               \/ \E f \in Frames(ext_incoming) \cap PairingAnswer : handle_incoming_frame(f)
        PROVE  SilenceMeansFound'
    <3>1. ASSUME returned' = NoFrame, silent + 1 >= StopPairingCount PROVE InService(0)'
      <4>1. LastPass BY <1>4, <3>1 DEF LastPass, Searching
      <4>2. Arrived BY <2>5, <4>1 DEF HeadReceive
      <4>3. ext_incoming = <<>> BY <1>0, <2>5, <3>1, SilentPass
      <4>4. Quiet BY <4>2, <4>3 DEF Quiet
      <4>5. Found(0) BY <1>0, <2>0, <3>1 DEF SilenceMeansFound
      <4> QED BY <2>0, <2>2, <4>4, <4>5, QuietFound
    <3> QED BY <2>4, <2>5, <3>1 DEF SilenceMeansFound
  <2>6. ASSUME NEW key, pair(key), HeadAct PROVE SilenceMeansFound'
    <3>1. /\ pc = "act" /\ pc' = "requests" /\ silent < StopPairingCount
          /\ silent' = IF returned # NoFrame THEN 0 ELSE silent + 1
          /\ returned' = IF returned # NoFrame THEN NoFrame ELSE DiscoveryFrame(key, 0)
      BY <1>0, <2>6 DEF pair, process_pairing, compare_statuses, Searching
    <3>2. CASE returned # NoFrame BY <1>0, <3>1, <3>2 DEF SilenceMeansFound
    <3>3. CASE returned = NoFrame
      <4>1. silent' = silent + 1 /\ returned' = DiscoveryFrame(key, 0) BY <3>1, <3>3
      <4>2. DiscoveryFrame(key, 0) # NoFrame BY DEF DiscoveryFrame, NoFrame
      <4>3. DiscoveryFrame(key, 0) \in Frames(ext_outgoing')
        BY <2>6, <4>1, <4>2, ReturnedIsSent DEF HeadMove
      <4>4. ASSUME NEW i \in Nodes, Powered(i)' PROVE Found(i)'
        <5>1. (DiscoveryFrame(key, 0) \in Frames(ext_outgoing) /\ Powered(i) => Found(i))'
          BY DiscoveryFinds, PTL
        <5> QED BY <4>3, <4>4, <5>1
      <4>5. Powered(0)' BY <2>0 DEF Powered, OneRemoteNode, Remotes
      <4>6. ASSUME silent' >= StopPairingCount, NEW i \in Nodes PROVE Powered(i)'
        <5>1. InService(0) BY <2>0, <3>1, <3>3, <4>1, <4>6 DEF SilenceMeansFound
        <5>2. InService(0)' BY <2>0, <2>2, <5>1
        <5>3. ServiceIsSwitched' BY ServiceIsSwitchedStep DEF SearchInv
        <5>4. node'[0].downstream BY <2>0, <5>2, <5>3 DEF ServiceIsSwitched
        <5>5. \A j \in Nodes : j < i => j = 0 BY DEF OneRemoteNode, Remotes
        <5> QED BY <5>4, <5>5 DEF Powered
      <4> QED BY <2>0, <3>1, <4>4, <4>5, <4>6 DEF SilenceMeansFound
    <3> QED BY <3>2, <3>3
  <2>7. ASSUME UNCHANGED silent, pc' = "act" => pc = "act" /\ UNCHANGED returned
        PROVE  SilenceMeansFound'
    BY <2>0, <2>2, <2>4, <2>7 DEF SilenceMeansFound
  <2> QED BY <1>0, <1>1, <1>4, <2>3, <2>5, <2>6, <2>7, InSearch
<1> QED BY <1>2, <1>3, <1>4

\* With no node in the table, and the line quiet, nothing happens to either.
LEMMA NothingStirs ==
  ASSUME SystemInv, AgreementInv, ~Searching, ~Searching', ~PowerCycle, ~KillNodeTask,
         NoNodes, Quiet, [SystemNext]_<<systemVars, faulty>>
  PROVE  NoNodes' /\ Quiet'
<1>0. active_watering_index = NoIndex
  BY DEF SystemInv, IInv, ActiveIsInRound, NoNodes, Exists
<1>1. CASE HeadReceive
  <2>1. receive(NoFrame) /\ UNCHANGED node_link BY <1>1, ReceiveAgrees
  <2>2. returned' = NoFrame BY <2>1 DEF receive
  <2>3. Quiet' BY <1>1, <2>2 DEF HeadReceive, send_returned, Quiet, Arrived
  <2> QED BY <2>1, <2>3 DEF NoNodes, Exists
<1>2. CASE HeadAct
  <2>1. NoNodes' /\ returned' = NoFrame BY <1>0, <1>2, ActAgrees DEF Searching
  <2> QED BY <1>2, <2>1 DEF HeadAct, send_returned, Quiet, Arrived
<1>3. ASSUME NEW r \in Request, Serve(r), UNCHANGED busVars PROVE NoNodes' /\ Quiet'
  <2>1. r.type # "INIT_PAIRING"
    BY <1>3 DEF Serve, init_pairing_mode, conclude_watering, Searching
  <2>2. NoNodes' BY <1>3, <2>1, ServeAgrees
  <2> QED BY <1>3, <2>2 DEF busVars, Quiet, Arrived
<1>4. CASE notify /\ UNCHANGED busVars
  BY <1>4 DEF notify, vars, busVars, NoNodes, Exists, Quiet, Arrived
<1>5. CASE Aside BY <1>5, AsideMovesNothing DEF vars, NoNodes, Exists, Quiet, Arrived
<1>6. ASSUME NEW i \in Nodes, NodeReceive(i) PROVE FALSE
  BY <1>6 DEF NodeReceive, Line!receive, Quiet, Arrived
<1> QED BY <1>1, <1>2, <1>3, <1>4, <1>5, <1>6, BusFinds, SystemSteps

LEMMA AllFoundStep ==
  ASSUME SystemInv, AgreementInv, OneRemoteNode, Nodes \subseteq Addr,
         Room, ~faulty, SearchInv, [SystemNext]_<<systemVars, faulty>>, ~Searching'
  PROVE  AllFound'
<1>0. KeysAreOwned /\ SearchBegins /\ OnlyPairing BY DEF SearchInv
<1>1. CASE PowerCycle BY <1>1, PowerIsOff DEF AllFound
<1>2. CASE ~PowerCycle /\ Searching
  <2>1. ~KillNodeTask BY <1>2, NodesAreNew DEF AgreementInv, vars, Searching
  <2>2. PairingRequest \notin extRequests BY <1>0, <1>2 DEF SearchBegins
  <2>3. PICK key : pair(key) BY <1>0, <1>2, <2>2, InSearch DEF Searching
  <2>4. no_response_pairing_count >= StopPairingCount
    BY <2>3 DEF pair, process_pairing, Searching
  <2>5. \A i \in Nodes : Found(i) BY <1>2, <2>4 DEF SearchInv, SilenceMeansFound
  <2>6. \A i \in Nodes : Found(i)' BY <1>0, <1>2, <2>1, <2>5, FoundStays
  <2> QED BY <2>6 DEF AllFound
<1>3. CASE ~PowerCycle /\ ~Searching
  <2>1. ~KillNodeTask BY <1>0, <1>3, NodesAreNew DEF AgreementInv, SearchBegins
  <2>2. CASE \A i \in Nodes : Found(i)
    <3>1. \A i \in Nodes : Found(i)' BY <1>0, <1>3, <2>1, <2>2, FoundStays
    <3> QED BY <3>1 DEF AllFound
  <2>3. CASE NoNodes /\ Quiet BY <1>3, <2>1, <2>3, NothingStirs DEF AllFound
  <2> QED BY <1>3, <2>2, <2>3 DEF SearchInv, AllFound
<1> QED BY <1>1, <1>2, <1>3

LEMMA SearchStep ==
  ASSUME SystemInv, AgreementInv, AgreementInv', Repairing = "standby", OneRemoteNode,
         Nodes \subseteq Addr, StopPairingCount >= 2, Room, ~faulty, SearchInv,
         [SystemNext]_<<systemVars, faulty>>
  PROVE  SearchInv'
<1>0. KeysAreOwned /\ SearchBegins /\ OnlyPairing /\ ServiceIsHeard BY DEF SearchInv
<1>1. KeysAreOwned' BY <1>0, KeysAreOwnedStep DEF AgreementInv
<1>2. SearchBegins' BY <1>0, SearchBeginsStep
<1>3. OnlyPairing' BY <1>0, OnlyPairingStep
<1>4. ServiceIsHeard' BY <1>0, ServiceIsHeardStep
<1>5. Searching' => SilenceMeansFound' BY SilenceStep
<1>6. ~Searching' => AllFound' BY AllFoundStep
<1>7. ServiceIsSwitched' BY ServiceIsSwitchedStep DEF SearchInv
<1> QED BY <1>1, <1>2, <1>3, <1>4, <1>5, <1>6, <1>7 DEF SearchInv

LEMMA InitSearch == SystemInit => SearchInv
<1> SUFFICES ASSUME SystemInit PROVE SearchInv OBVIOUS
<1>1. Quiet BY StartsQuiet
<1>2. /\ pc = "receive" /\ ~Searching
      /\ no_response_pairing_count = 0
      /\ NoNodes
  BY DEF SystemInit, TaskInit, Init, NoNodes, Exists, Searching
<1>3. \A i \in Nodes : ~InService(i)
  BY DEF SystemInit, Line!Init, Line!NewSelfNode, InService
<1>4. KeysAreOwned BY <1>1, <1>2 DEF KeysAreOwned, Named, NoNodes, Quiet, Arrived, Frames
<1> QED BY <1>1, <1>2, <1>3, <1>4
        DEF SearchInv, SearchBegins, OnlyPairing, ServiceIsHeard, ServiceIsSwitched, AllFound

LEMMA SearchInvariance ==
  ASSUME Repairing = "standby", OneRemoteNode, Nodes \subseteq Addr, StopPairingCount >= 2
  PROVE  SystemSpec /\ []Room => [](~faulty => SearchInv)
<1>1. /\ SystemInv /\ AgreementInv /\ AgreementInv' /\ Room /\ (~faulty => SearchInv)
      /\ [SystemNext]_<<systemVars, faulty>>
      => (~faulty => SearchInv)'
  <2>1. [SystemNext]_<<systemVars, faulty>> => UNCHANGED faulty BY DEF SystemNext
  <2> QED BY <2>1, SearchStep
<1>2. SystemSpec => []AgreementInv BY AgreementInvariance
<1>3. SystemInit => (~faulty => SearchInv) BY InitSearch
<1> QED BY <1>1, <1>2, <1>3, SystemInvariance, PTL DEF SystemSpec

\* On a line without faults, where the head's queues never overflow, pairing finds
\* every node: it gives up after a number of silent passes (process_pairing), and
\* none of them is silent while a node is still on its way into service
\* (handle_discovery, handle_addressing, SelfNode::handle_unsynced_message).
THEOREM PairingFindsAll ==
  ASSUME Repairing = "standby", OneRemoteNode, Nodes \subseteq Addr, StopPairingCount >= 2
  PROVE  SystemSpec /\ []Room => []PairingIsComplete
<1>1. (~faulty => SearchInv) => PairingIsComplete
  <2> SUFFICES ASSUME SearchInv, ~Searching, Quiet, ~NoNodes, NEW i \in Nodes
               PROVE  InService(i)
    BY DEF PairingIsComplete, Searching, NoNodes
  <2>1. Found(i) BY DEF SearchInv, AllFound
  <2> QED BY <2>1, QuietFound
<1>2. SystemSpec /\ []Room => [](~faulty => SearchInv) BY SearchInvariance
<1> QED BY <1>1, <1>2, PTL

\* Under the same conditions there is one head: once the line is quiet and nobody is
\* looked for, every node that has power has heard of the head, and none takes over
\* (app_main waits for a frame before it starts a head of its own).
THEOREM NoOtherHead ==
  ASSUME Repairing = "standby", OneRemoteNode, Nodes \subseteq Addr, StopPairingCount >= 2
  PROVE  SystemSpec /\ []Room => []OneHead
<1>1. SystemInv /\ AgreementInv /\ (~faulty => SearchInv) => OneHead
  <2> SUFFICES ASSUME SystemInv, AgreementInv, SearchInv, ~Searching, Quiet,
                      NEW i \in Remotes, Powered(i)
               PROVE  ~Line!takes_over(i)
    BY DEF OneHead, Searching
  <2>0. i \in Nodes /\ i # 0 /\ 0 \in Nodes BY NodesAssumption DEF Remotes
  <2>1. CASE Found(i)
    <3>1. heard[i] BY <2>0, <2>1, QuietFound DEF SearchInv, ServiceIsHeard
    <3> QED BY <3>1 DEF Line!takes_over
  <2>2. CASE NoNodes
    <3>1. pc # "kill_node_task" BY DEF SearchInv, SearchBegins
    <3>2. node[0].self_addr = ADDR_UNSET
      BY <2>0, <2>2, <3>1 DEF AgreementInv, NodesAgree, NoNodes, Exists
    <3>3. ~node[0].downstream BY <2>0, <3>2 DEF SystemInv, NodesSound, SoundNode
    <3>4. 0 < i BY DEF OneRemoteNode, Remotes
    <3> QED BY <2>0, <3>3, <3>4 DEF Powered
  <2> QED BY <2>0, <2>1, <2>2 DEF SearchInv, AllFound
<1>2. SystemSpec => []AgreementInv BY AgreementInvariance
<1>3. SystemSpec /\ []Room => [](~faulty => SearchInv) BY SearchInvariance
<1> QED BY <1>1, <1>2, <1>3, SystemInvariance, PTL

-----------------------------------------------------------------------------
(***************************************************************************)
(* A node that answers is not given up, on a line without faults and when  *)
(* a pass of the loop outlasts a frame and its answer.  In a round what    *)
(* the head asks of the active node is under way until its next pass: one  *)
(* frame, and then the answer.  So the answer is there when it is looked   *)
(* for, it takes the attempt back, and none is ever the last one.          *)
(***************************************************************************)
\* The loop takes 500 ms, a frame and its answer less (System, "Time").
PassOutlastsFrames == [][HeadReceive => Arrived]_systemVars

TableIsWell ==
  head_status # "FAULTY_NODE" /\ \A a \in Addr : get_node_status(a) # "ERR"
Well(i) == node[i].status # "ERR"
Healthy == {f \in Reply : f.command = "STATUS" => f.status # "ERR"}
AllIsWell ==
  /\ TableIsWell
  /\ \A i \in Nodes : Well(i)
  /\ Carry(HeadFrame, HeadFrame, Healthy, Healthy)

CommandsFor(i) ==
  {f \in HeadFrame : /\ f.command \in {"INIT_WATER_DURATIONS", "STATUS"}
                     /\ f.address = node[i].self_addr}
AnswersOf(i) ==
  {f \in Reply : f.command \in {"ACK", "STATUS"} /\ f.address = node[i].self_addr}
\* The four places on the way to node i and back.
Way(i, sent, arrived, answered, returning) ==
  /\ ext_outgoing = sent /\ incoming[i] = arrived
  /\ outgoing[i] = answered /\ ext_incoming = returning
UnderWay(i) ==
  /\ \/ \E f \in CommandsFor(i) :
          Way(i, <<f>>, <<>>, <<>>, <<>>) \/ Way(i, <<>>, <<f>>, <<>>, <<>>)
     \/ \E f \in AnswersOf(i) :
          Way(i, <<>>, <<>>, <<f>>, <<>>) \/ Way(i, <<>>, <<>>, <<>>, <<f>>)
  /\ \A j \in Nodes \ {i} :
       outgoing[j] = <<>> /\ Frames(incoming[j]) \subseteq CommandsFor(i)

AllInService == \A i \in Nodes : InService(i)
RoundIsServed ==
  head_status = "WATERING_CMDS" =>
    \/ /\ pc \in {"act", "command"} /\ Quiet
       /\ active_watering_index # NoIndex => AllInService /\ ~Tried(active_watering_index)
    \/ /\ pc \in {"requests", "receive"} /\ AllInService
       /\ \E i \in Nodes : node[i].self_addr = active_watering_index /\ UnderWay(i)
PatienceInv == AllIsWell /\ RoundIsServed

-----------------------------------------------------------------------------
\* Without faults a valve switches, and a node stays well.
LEMMA NodeStaysWell ==
  ASSUME SystemInv, ~faulty, [SystemNext]_<<systemVars, faulty>>, NEW i \in Nodes, Well(i)
  PROVE  Well(i)'
<1>0. node \in [Nodes -> NodeType] /\ node[i] \in NodeType /\ node[i].status # "ERR"
  BY DEF SystemInv, NodesSound, Well
<1>1. CASE PowerCycle \/ KillNodeTask
  BY <1>1 DEF PowerCycle, KillNodeTask, Line!NewSelfNode, Well
<1>2. CASE UNCHANGED node BY <1>2 DEF Well
<1>3. ASSUME NEW j \in Nodes, NEW s \in {"READY", "WATERING"}, NEW e,
             node' = [node EXCEPT ![j].status = s, ![j].solenoid = e]
      PROVE  Well(i)'
  <2>1. i # j => node'[i] = node[i] BY <1>0, <1>3
  <2>2. i = j => node'[i].status = s BY <1>0, <1>3 DEF NodeType
  <2> QED BY <1>0, <2>1, <2>2 DEF Well
<1>4. ASSUME NEW j \in Nodes, NodeExpire(j) PROVE Well(i)'
  BY <1>3, <1>4 DEF NodeExpire, Line!process_watering_schedule, Line!conclude_watering,
     Line!switch_valve
<1>5. ASSUME NEW j \in Nodes, NodeReceive(j) PROVE Well(i)'
  <2> DEFINE msg == Head(incoming[j])
  <2>1. Line!handle_incoming_frame(j, msg) BY <1>5 DEF NodeReceive, Line!receive
  <2> HIDE DEF msg
  <2>2. CASE Line!handle_unsynced_message(j, msg)
    <3>1. \/ UNCHANGED node
          \/ \E key : node' = [node EXCEPT ![j].self_key = key]
          \/ \E a : node' = [node EXCEPT ![j].self_addr = a]
      BY <2>2 DEF Line!handle_unsynced_message
    <3>2. ASSUME NEW v, \/ node' = [node EXCEPT ![j].self_key = v]
                        \/ node' = [node EXCEPT ![j].self_addr = v]
          PROVE  Well(i)'
      <4>1. i # j => node'[i] = node[i] BY <1>0, <3>2
      <4>2. i = j => node'[i].status = node[i].status BY <1>0, <3>2 DEF NodeType
      <4> QED BY <1>0, <4>1, <4>2 DEF Well
    <3> QED BY <1>2, <3>1, <3>2
  <2>3. CASE Line!complete_initialization(j)
    <3>1. node' = [node EXCEPT ![j].status = "READY", ![j].downstream = TRUE]
      BY <2>3 DEF Line!complete_initialization
    <3>2. i # j => node'[i] = node[i] BY <1>0, <3>1
    <3>3. i = j => node'[i].status = "READY" BY <1>0, <3>1 DEF NodeType
    <3> QED BY <1>0, <3>2, <3>3 DEF Well
  <2>4. CASE Line!initialize_watering(j, msg.duration)
    BY <1>2, <1>3, <2>4 DEF Line!initialize_watering, Line!activate_hose,
       Line!conclude_watering, Line!switch_valve
  <2> QED BY <1>2, <2>1, <2>2, <2>3, <2>4 DEF Line!handle_incoming_frame
<1>6. CASE HeadReceive \/ HeadAct \/ Bus \/ UNCHANGED busVars \/ HostWrite \/ HostRead
           \/ UNCHANGED <<systemVars, faulty>>
  BY <1>2, <1>6, BusFinds DEF HeadReceive, HeadAct, busVars, HostWrite, HostRead, systemVars
<1> QED BY <1>1, <1>4, <1>5, <1>6, SystemSteps DEF Aside

\* So no answer tells of an error.
LEMMA HealthyStep ==
  ASSUME SystemInv, \A i \in Nodes : Well(i),
         Carry(HeadFrame, HeadFrame, Healthy, Healthy), [SystemNext]_<<systemVars, faulty>>
  PROVE  Carry(HeadFrame, HeadFrame, Healthy, Healthy)'
<1> DEFINE H == Healthy
<1>0. H \in SUBSET Frame /\ HeadFrame \in SUBSET Frame /\ QueuesTyped /\ NodesSound /\ IInv
      /\ Carry(HeadFrame, HeadFrame, Reply, Reply)
  BY DEF Healthy, SystemInv, Frame
<1>1. /\ \A f \in HeadFrame : OnWire(f) \in HeadFrame
      /\ \A f \in H : OnWire(f) \in H
  BY WireKeepsType DEF Healthy
<1>2. ASSUME NEW i \in Nodes, NEW f \in Frame, NEW answer,
             Answers(node[i], f, node'[i], answer), answer # NoFrame
      PROVE  answer \in H
  <2>1. answer \in Reply BY <1>0, <1>2, AnswerIsSound DEF NodesSound
  <2>2. answer.command = "STATUS" => answer = StatusReply(node[i].self_addr, node[i].status)
    BY <1>2 DEF Answers, DiscoveryFrame, AddressingFrame, AckFrame
  <2> QED BY <2>1, <2>2 DEF Healthy, Well, StatusReply
<1>3. HeadReceive \/ HeadAct => returned' \in HeadFrame \cup {NoFrame}
  BY <1>0, HeadFramesSent
<1>4. Carry(HeadFrame, HeadFrame, H, H) OBVIOUS
<1> HIDE DEF H
<1>5. \A i \in Nodes : \A f \in Frame : \A answer :
         /\ NodeReceive(i) /\ f \in Frames(incoming[i]) /\ f = incoming[i][1]
         /\ Answers(node[i], f, node'[i], answer)
         /\ answer # NoFrame
         => answer \in (IF i = 0 THEN H ELSE H)
  BY <1>2
<1>6. Carry(HeadFrame, HeadFrame, H, H)' BY <1>0, <1>1, <1>3, <1>4, <1>5, CarryStep
<1> QED BY <1>6 DEF H

-----------------------------------------------------------------------------
\* What a frame does to the table leaves it well, if it tells of no error.
LEMMA HandledWell ==
  ASSUME IInv, TableIsWell, NEW f \in Healthy, handle_incoming_frame(f)
  PROVE  TableIsWell'
<1>0. /\ f \in Reply /\ TypeOK /\ head_status # "FAULTY_NODE"
      /\ \A a \in Addr : get_node_status(a) # "ERR"
      /\ node_link \in [Addr -> Node \cup {NullNode}]
  BY DEF Healthy, IInv, TypeOK, TableIsWell
<1>1. ASSUME NEW a, NEW n, a \in Addr, node_link' = [node_link EXCEPT ![a] = n],
             n.node_status # "ERR", head_status' # "FAULTY_NODE"
      PROVE  TableIsWell'
  <2>1. \A b \in Addr : node_link'[b] = IF b = a THEN n ELSE node_link[b] BY <1>0, <1>1
  <2> QED BY <1>0, <1>1, <2>1 DEF TableIsWell, get_node_status
<1>2. ASSUME UNCHANGED node_link, head_status' # "FAULTY_NODE" PROVE TableIsWell'
  BY <1>0, <1>2 DEF TableIsWell, get_node_status
<1>3. ASSUME NEW key, NEW a, create_node_pending(key, a), UNCHANGED roundVars
      PROVE  TableIsWell'
  <2>1. head_status' # "FAULTY_NODE" BY <1>0, <1>3 DEF roundVars
  <2>2. CASE /\ a \in get_available_address /\ a # NoIndex
             /\ node_link' = [node_link EXCEPT ![a] = NewNode(key, a)]
    <3>1. a \in Addr BY <2>2, AvailableAddress
    <3>2. NewNode(key, a).node_status # "ERR" BY DEF NewNode
    <3> QED BY <1>1, <2>1, <2>2, <3>1, <3>2
  <2> QED BY <1>2, <1>3, <2>1, <2>2 DEF create_node_pending
<1>4. CASE Panic BY <1>0, <1>2, <1>4 DEF Panic, roundVars
<1>5. CASE handle_discovery(f.key) BY <1>3, <1>5 DEF handle_discovery
<1>6. CASE handle_addressing(f.key, f.address)
  <2>1. CASE confirm_node_pending(f.key, f.address) /\ UNCHANGED roundVars
    <3> DEFINE a == f.address
               n == [node_link[a] EXCEPT !.node_status = "READY"]
    <3>1. a \in Addr /\ node_link[a] \in Node
      BY <1>0, <2>1, ExistingNode DEF confirm_node_pending
    <3>2. node_link' = [node_link EXCEPT ![a] = n] BY <2>1 DEF confirm_node_pending
    <3>3. n.node_status # "ERR" BY <3>1 DEF Node
    <3>4. head_status' # "FAULTY_NODE" BY <1>0, <2>1 DEF roundVars
    <3> HIDE DEF n
    <3> QED BY <1>1, <3>1, <3>2, <3>3, <3>4
  <2> QED BY <1>3, <1>4, <1>6, <2>1 DEF handle_addressing
<1>7. CASE handle_ack(f.address)
  <2>1. CASE /\ Exists(f.address)
             /\ node_link' = [node_link EXCEPT ![f.address].node_status = "WATERING",
                                               ![f.address].retry_attempts = 0]
             /\ UNCHANGED roundVars
    <3> DEFINE a == f.address
               n == [node_link[a] EXCEPT !.node_status = "WATERING", !.retry_attempts = 0]
    <3>1. a \in Addr /\ node_link[a] \in Node BY <1>0, <2>1, ExistingNode
    <3>2. node_link' = [node_link EXCEPT ![a] = n] BY <2>1
    <3>3. n.node_status # "ERR" BY <3>1 DEF Node
    <3>4. head_status' # "FAULTY_NODE" BY <1>0, <2>1 DEF roundVars
    <3> HIDE DEF n
    <3> QED BY <1>1, <3>1, <3>2, <3>3, <3>4
  <2> QED BY <1>4, <1>7, <2>1 DEF handle_ack
<1>8. CASE f.command = "STATUS" /\ handle_incoming_node_status(f.address, f.status)
  <2>0. f.status # "ERR" BY <1>8 DEF Healthy
  <2>1. CASE /\ Exists(f.address)
             /\ node_link' = [node_link EXCEPT ![f.address].retry_attempts = 0,
                                               ![f.address].node_status = f.status]
             /\ \/ advance_active_watering_index(node_link')
                \/ UNCHANGED roundVars
    <3> DEFINE a == f.address
               n == [node_link[a] EXCEPT !.retry_attempts = 0, !.node_status = f.status]
    <3>1. a \in Addr /\ node_link[a] \in Node BY <1>0, <2>1, ExistingNode
    <3>2. node_link' = [node_link EXCEPT ![a] = n] BY <2>1
    <3>3. n.node_status # "ERR" BY <2>0, <3>1 DEF Node
    <3>4. head_status' # "FAULTY_NODE"
      BY <1>0, <2>1 DEF roundVars, advance_active_watering_index, conclude_watering
    <3> HIDE DEF n
    <3> QED BY <1>1, <3>1, <3>2, <3>3, <3>4
  <2> QED BY <1>4, <1>8, <2>0, <2>1 DEF handle_incoming_node_status
<1> QED BY <1>5, <1>6, <1>7, <1>8 DEF handle_incoming_frame

\* The first attempt is not the last.
LEMMA NotGivenUp ==
  ASSUME SystemInv, RetryMax >= 2, TableIsWell, next_watering_frame,
         active_watering_index # NoIndex => ~Tried(active_watering_index)
  PROVE  TableIsWell'
<1> DEFINE i == active_watering_index
<1>0. TypeOK /\ head_status = "WATERING_CMDS"
  BY DEF SystemInv, IInv, next_watering_frame
<1>1. ASSUME i # NoIndex, Exists(i), RetryNode(i) PROVE UNCHANGED roundVars
  <2>1. node_link[i].retry_attempts = 0 BY <1>1 DEF Tried
  <2>2. (node_link[i].retry_attempts + 1) % RetryWidth = 1 BY <2>1, RetryAssumption
  <2> QED BY <1>1, <2>2, RetryAssumption DEF RetryNode
<1>2. head_status' # "FAULTY_NODE"
  BY <1>0, <1>1 DEF next_watering_frame, roundVars, conclude_watering
<1>3. StatusesBut(i, "COMMAND_SENT") \/ StatusesBut(i, "WATERING") \/ UNCHANGED node_link
  BY <1>2, CommandKnown
<1> QED BY <1>2, <1>3 DEF TableIsWell, StatusesBut, get_node_status

\* Nor does the head find an error on its own, or by what the host writes.
LEMMA ScheduledWell ==
  ASSUME IInv, TableIsWell, NEW due, NEW phase, process_watering_schedule(due, phase)
  PROVE  TableIsWell'
<1>1. CASE UNCHANGED <<node_link, roundVars>>
  BY <1>1 DEF TableIsWell, get_node_status, roundVars
<1>2. CASE initialize_watering_states(phase)
  <2>1. ASSUME NEW a \in Addr PROVE get_node_status(a)' # "ERR"
    <3>1. a \in Queued(phase) => node_link[a] \in Node
      BY ExistingNode DEF IInv, Queued, is_node_watering_this_phase
    <3>2. node_link'[a] = IF a \in Queued(phase)
                          THEN [node_link[a] EXCEPT !.node_status = "IN_QUEUE"]
                          ELSE node_link[a]
      BY <1>2, <2>1 DEF initialize_watering_states
    <3> QED BY <3>1, <3>2 DEF TableIsWell, get_node_status, Node
  <2> QED BY <1>2, <2>1 DEF initialize_watering_states, TableIsWell
<1> QED BY <1>1, <1>2 DEF process_watering_schedule

LEMMA ServedWell ==
  ASSUME SystemInv, TableIsWell, NEW r \in Request, Serve(r)
  PROVE  TableIsWell'
<1>1. CASE init_pairing_mode
  BY <1>1 DEF init_pairing_mode, conclude_watering, TableIsWell, get_node_status, NullNode
<1>2. CASE UNCHANGED vars BY <1>2 DEF vars, roundVars, TableIsWell, get_node_status
<1>3. ASSUME NEW a, \/ \E d, s : set_node_duration(a, d, s)
                    \/ \E c, s : set_watering_cycle(a, c, s)
      PROVE  TableIsWell'
  BY <1>3, WritesOnlyRefuse DEF TableIsWell, roundVars
<1> QED BY <1>1, <1>2, <1>3 DEF Serve

-----------------------------------------------------------------------------
\* One frame in a queue of its own.
LEMMA OneFrame ==
  ASSUME NEW f
  PROVE  /\ <<f>> # <<>> /\ <<f>>[1] = f /\ Tail(<<f>>) = <<>> /\ Frames(<<f>>) = {f}
         /\ Append(<<>>, f) = <<f>> /\ Sent(<<>>, f) = <<f>>
<1>1. Sent(<<>>, f) = <<f>> BY SwitchesAssumption DEF Sent, Line!Sent
<1>2. Frames(<<f>>) = {f} BY DEF Frames
<1> QED BY <1>1, <1>2

\* The node that is asked answers.
LEMMA AskedAnswers ==
  ASSUME SystemInv, NEW i \in Nodes, InService(i), NEW f \in CommandsFor(i),
         incoming[i] = <<f>>, outgoing[i] = <<>>, NodeReceive(i)
  PROVE  /\ incoming'[i] = <<>>
         /\ \E g \in AnswersOf(i) : outgoing'[i] = <<g>>
         /\ \A j \in Nodes \ {i} :
              node'[j] = node[j] /\ incoming'[j] = incoming[j] /\ outgoing'[j] = outgoing[j]
         /\ UNCHANGED <<ext_incoming, ext_outgoing>>
<1> DEFINE a == node[i].self_addr
<1>0. /\ incoming \in [Nodes -> Seq(Frame)] /\ outgoing \in [Nodes -> Seq(Frame)]
      /\ node \in [Nodes -> NodeType] /\ node[i].status \in ReportedStatus
      /\ f.command \in {"INIT_WATER_DURATIONS", "STATUS"} /\ f.address = a
      /\ a \in Addr /\ a # ADDR_UNSET
  <2>1. /\ NodesSound /\ node[i] \in NodeType /\ SoundNode(node[i])
        /\ f.command \in {"INIT_WATER_DURATIONS", "STATUS"} /\ f.address = a
    BY DEF SystemInv, NodesSound, CommandsFor
  <2> QED BY <2>1 DEF SystemInv, QueuesTyped, NodesSound, SoundNode, NodeType, InService
<1>1. /\ Line!handle_incoming_frame(i, f)
      /\ incoming' = [incoming EXCEPT ![i] = <<>>]
      /\ UNCHANGED <<ext_incoming, ext_outgoing>>
  BY OneFrame DEF NodeReceive, Line!receive
<1>2. \/ Line!initialize_watering(i, f.duration)
      \/ Line!reply(i, StatusReply(a, node[i].status)) /\ UNCHANGED node
  BY <1>0, <1>1 DEF Line!handle_incoming_frame, Line!ADDR_UNSET, ADDR_UNSET,
     Line!StatusReply, StatusReply
<1>3. PICK g \in AnswersOf(i) : Line!reply(i, g)
  <2>1. CASE Line!initialize_watering(i, f.duration)
    <3>1. Line!reply(i, AckFrame(a))
      BY <2>1 DEF Line!initialize_watering, Line!AckFrame, AckFrame
    <3>2. AckFrame(a) \in AnswersOf(i) BY <1>0 DEF AnswersOf, Reply, AckFrame
    <3> QED BY <3>1, <3>2
  <2>2. CASE Line!reply(i, StatusReply(a, node[i].status))
    <3>1. StatusReply(a, node[i].status) \in AnswersOf(i)
      BY <1>0 DEF AnswersOf, Reply, StatusReply
    <3> QED BY <2>2, <3>1
  <2> QED BY <1>2, <2>1, <2>2
<1>4. outgoing' = [outgoing EXCEPT ![i] = <<g>>] BY <1>3, OneFrame DEF Line!reply
<1>5. \A j \in Nodes \ {i} : node'[j] = node[j]
  <2>1. NodesSound /\ QueuesTyped /\ Carry(HeadFrame, HeadFrame, Reply, Reply)
    BY DEF SystemInv
  <2>2. node' = [node EXCEPT ![i] = node'[i]] BY <2>1, NodeTakes
  <2> QED BY <1>0, <2>2
<1> QED BY <1>0, <1>1, <1>3, <1>4, <1>5

\* The others do not.
LEMMA OthersAreSilent ==
  ASSUME SystemInv, AgreementInv, OneRemoteNode, NEW i \in Nodes, InService(i),
         NEW j \in Nodes \ {i}, Frames(incoming[j]) \subseteq CommandsFor(i), NodeReceive(j)
  PROVE  /\ UNCHANGED <<outgoing, ext_incoming, ext_outgoing>>
         /\ \A k \in Nodes : /\ node'[k] = node[k]
                             /\ Frames(incoming'[k]) \subseteq Frames(incoming[k])
                             /\ k # j => incoming'[k] = incoming[k]
<1>0. /\ NodesSound /\ QueuesTyped /\ Carry(HeadFrame, HeadFrame, Reply, Reply)
      /\ incoming \in [Nodes -> Seq(Frame)] /\ node \in [Nodes -> NodeType]
  BY DEF SystemInv, QueuesTyped, NodesSound
<1>1. node[i].self_addr \in Addr
  BY <1>0 DEF NodesSound, SoundNode, NodeType, InService
<1>2. PICK msg, answer :
           /\ msg \in Frames(incoming[j]) /\ incoming[j] # <<>>
           /\ Answers(node[j], msg, node'[j], answer)
           /\ node' = [node EXCEPT ![j] = node'[j]]
           /\ incoming' = [incoming EXCEPT ![j] = Tail(incoming[j])]
           /\ \/ answer = NoFrame /\ UNCHANGED outgoing
              \/ answer # NoFrame
           /\ UNCHANGED <<ext_incoming, ext_outgoing>>
  BY <1>0, NodeTakes
<1>3. ~AddressedTo(node[j], msg)
  <2>1. msg.address = node[i].self_addr BY <1>2 DEF CommandsFor
  <2> QED BY <1>1, <2>1, OneAtEachAddress DEF AddressedTo
<1>4. node'[j] = node[j] /\ answer = NoFrame
  BY <1>2, <1>3 DEF Answers, CommandsFor
<1>5. Frames(Tail(incoming[j])) \subseteq Frames(incoming[j]) BY <1>0, <1>2, Taken
<1> QED BY <1>0, <1>2, <1>4, <1>5

\* Of the four places one is filled.
LEMMA OnePlace ==
  ASSUME NEW i \in Nodes, UnderWay(i)
  PROVE  \/ \E f \in CommandsFor(i) : \/ Way(i, <<f>>, <<>>, <<>>, <<>>)
                                      \/ Way(i, <<>>, <<f>>, <<>>, <<>>)
         \/ \E f \in AnswersOf(i) : \/ Way(i, <<>>, <<>>, <<f>>, <<>>)
                                    \/ Way(i, <<>>, <<>>, <<>>, <<f>>)
BY DEF UnderWay

LEMMA UnderWayNext ==
  ASSUME NEW i \in Nodes, node'[i].self_addr = node[i].self_addr,
         \/ \E f \in CommandsFor(i) : \/ Way(i, <<f>>, <<>>, <<>>, <<>>)'
                                      \/ Way(i, <<>>, <<f>>, <<>>, <<>>)'
         \/ \E f \in AnswersOf(i) : \/ Way(i, <<>>, <<>>, <<f>>, <<>>)'
                                    \/ Way(i, <<>>, <<>>, <<>>, <<f>>)',
         \A j \in Nodes \ {i} :
           outgoing'[j] = <<>> /\ Frames(incoming'[j]) \subseteq CommandsFor(i)
  PROVE  UnderWay(i)'
<1>1. CommandsFor(i)' = CommandsFor(i) /\ AnswersOf(i)' = AnswersOf(i)
  BY DEF CommandsFor, AnswersOf
<1> QED BY <1>1 DEF UnderWay

\* The command goes from the head's queue to the node's, ...
LEMMA CommandArrives ==
  ASSUME SystemInv, OneRemoteNode, ~faulty, [SystemNext]_<<systemVars, faulty>>,
         NEW i \in Nodes, Powered(i), UnderWay(i), UartSend
  PROVE  UnderWay(i)'
<1>0. /\ QueuesTyped /\ incoming \in [Nodes -> Seq(Frame)] /\ 0 \in Nodes
      /\ UNCHANGED <<node, outgoing, ext_incoming>> /\ ext_outgoing # <<>>
      /\ ext_outgoing' = Tail(ext_outgoing)
  BY NodesAssumption DEF SystemInv, QueuesTyped, UartSend
<1>1. PICK f \in CommandsFor(i) : Way(i, <<f>>, <<>>, <<>>, <<>>)
  BY <1>0, OnePlace DEF Way
<1>2. f \in HeadFrame /\ f \in Frame /\ OnWire(f) = f
  BY WireHead DEF CommandsFor, Frame
<1>3. ext_outgoing[1] = f /\ ext_outgoing' = <<>> BY <1>0, <1>1, OneFrame DEF Way
<1>4. incoming'[i] = <<f>>
  <2>1. PICK copies \in Copies(Listening) :
          incoming' = [j \in Nodes |->
              IF j = 0 THEN Sent(incoming[0], f)
              ELSE IF j \in DOMAIN copies
              THEN Delivered(incoming[j], f, copies[j])
              ELSE incoming[j]]
    BY <1>2, <1>3 DEF UartSend, Listening
  <2>2. i # 0 => i \in Listening BY DEF Listening, Remotes
  <2>3. /\ DOMAIN copies = Listening
        /\ \A j \in Listening : \A q, g : Delivered(q, g, copies[j]) = Sent(q, g)
    BY OneCopy
  <2>4. incoming'[i] = Sent(incoming[i], f) BY <2>1, <2>2, <2>3
  <2> QED BY <1>1, <2>4, OneFrame DEF Way
<1>5. ASSUME NEW j \in Nodes \ {i}
      PROVE  outgoing'[j] = <<>> /\ Frames(incoming'[j]) \subseteq CommandsFor(i)
  <2>1. outgoing'[j] = <<>> /\ Frames(incoming[j]) \subseteq CommandsFor(i)
    BY <1>0 DEF UnderWay
  <2>2. \/ incoming'[j] = incoming[j] \/ incoming'[j] = <<>>
        \/ incoming[j] # <<>> /\ incoming'[j] = Tail(incoming[j])
        \/ Gets(incoming[j], incoming'[j], f)
    BY <1>2, <1>3, IncomingStep
  <2>3. Gets(incoming[j], incoming'[j], f) => Frames(incoming'[j]) \subseteq Frames(incoming[j]) \cup {f}
    BY <1>0, <1>2, GetsOrdered
  <2>4. Frames(<<>>) = {} BY DEF Frames
  <2>5. incoming[j] # <<>> => Frames(Tail(incoming[j])) \subseteq Frames(incoming[j])
    BY <1>0, Taken
  <2> QED BY <2>1, <2>2, <2>3, <2>4, <2>5
<1>6. Way(i, <<>>, <<f>>, <<>>, <<>>)' BY <1>0, <1>1, <1>3, <1>4 DEF Way
<1> QED BY <1>0, <1>5, <1>6, UnderWayNext

\* ... and the answer from the node's to the head's.
LEMMA AnswerArrives ==
  ASSUME SystemInv, OneRemoteNode, ~faulty, NEW i \in Nodes, UnderWay(i),
         UartLocal \/ \E s \in Remotes : UartReply(s)
  PROVE  UnderWay(i)'
<1>0. /\ QueuesTyped /\ incoming \in [Nodes -> Seq(Frame)]
      /\ outgoing \in [Nodes -> Seq(Frame)] /\ 0 \in Nodes
      /\ UNCHANGED <<node, ext_outgoing>>
  BY NodesAssumption DEF SystemInv, QueuesTyped, UartLocal, UartReply
<1>1. ASSUME NEW j \in Nodes, outgoing[j] # <<>>,
             ext_incoming' = Sent(ext_incoming, OnWire(outgoing[j][1]))
             \/ ext_incoming' = Sent(ext_incoming, outgoing[j][1]),
             outgoing' = [outgoing EXCEPT ![j] = Tail(@)],
             UNCHANGED incoming
      PROVE  UnderWay(i)'
  <2>1. j = i BY <1>1 DEF UnderWay
  <2>2. PICK f \in AnswersOf(i) : Way(i, <<>>, <<>>, <<f>>, <<>>)
    BY <1>1, <2>1, OnePlace DEF Way
  <2>3. OnWire(f) = f BY WireReply DEF AnswersOf
  <2>4. ext_incoming' = <<f>> BY <1>1, <2>1, <2>2, <2>3, OneFrame DEF Way
  <2>5. outgoing' = [outgoing EXCEPT ![i] = <<>>] BY <1>1, <2>1, <2>2, OneFrame DEF Way
  <2>6. outgoing'[i] = <<>> /\ \A k \in Nodes \ {i} : outgoing'[k] = outgoing[k]
    BY <1>0, <2>5
  <2>7. Way(i, <<>>, <<>>, <<>>, <<f>>)' BY <1>0, <1>1, <2>2, <2>4, <2>6 DEF Way
  <2>8. \A k \in Nodes \ {i} :
          outgoing'[k] = <<>> /\ Frames(incoming'[k]) \subseteq CommandsFor(i)
    BY <1>1, <2>6 DEF UnderWay
  <2> QED BY <1>0, <2>7, <2>8, UnderWayNext
<1>2. CASE UartLocal BY <1>0, <1>1, <1>2 DEF UartLocal
<1>3. ASSUME NEW s \in Remotes, UartReply(s) PROVE UnderWay(i)'
  <2> DEFINE h == outgoing[s][1]
             L == {0} \cup {k \in Remotes \ {s} : Powered(k)}
  <2>1. s \in Nodes /\ outgoing[s] # <<>> /\ outgoing' = [outgoing EXCEPT ![s] = Tail(@)]
    BY <1>3 DEF UartReply, Remotes
  <2>2. L = {0} BY DEF OneRemoteNode
  <2>3. PICK copies \in Copies(L) :
          /\ ext_incoming' = Delivered(ext_incoming, OnWire(h), copies[0])
          /\ incoming' = [k \in Nodes |->
               IF k \in DOMAIN copies \ {0}
               THEN Delivered(incoming[k], OnWire(h), copies[k]) ELSE incoming[k]]
    BY <1>3 DEF UartReply
  <2>4. DOMAIN copies = {0} /\ ext_incoming' = Sent(ext_incoming, OnWire(h))
    <3>1. copies \in [L -> {1}] BY DEF Copies
    <3>2. DOMAIN copies = {0} /\ copies[0] = 1 BY <2>2, <3>1
    <3> QED BY <2>3, <3>2 DEF Delivered
  <2>5. incoming' = [k \in Nodes |-> incoming[k]] BY <2>3, <2>4
  <2>6. UNCHANGED incoming BY <1>0, <2>5
  <2> QED BY <1>1, <2>1, <2>4, <2>6
<1> QED BY <1>2, <1>3

\* Nothing but the head's next pass ends it.
LEMMA UnderWayStep ==
  ASSUME SystemInv, AgreementInv, OneRemoteNode, ~faulty, [SystemNext]_<<systemVars, faulty>>,
         ~PowerCycle, ~KillNodeTask, ~HeadMove, AllInService, ServiceIsSwitched,
         NEW i \in Nodes, UnderWay(i)
  PROVE  UnderWay(i)' /\ node'[i].self_addr = node[i].self_addr
<1>1. Powered(i)
  <2>1. \A j \in Nodes : node[j].downstream BY DEF AllInService, ServiceIsSwitched
  <2> QED BY <2>1 DEF Powered
<1>2. ASSUME UNCHANGED <<incoming, outgoing, ext_incoming, ext_outgoing>>,
             node'[i].self_addr = node[i].self_addr
      PROVE  UnderWay(i)'
  BY <1>2, OnePlace, UnderWayNext DEF UnderWay, Way
<1>3. CASE UNCHANGED busVars BY <1>2, <1>3 DEF busVars
<1>4. CASE Aside BY <1>2, <1>4, AsideMovesNothing
<1>5. CASE Bus
  BY <1>1, <1>5, BusFinds, CommandArrives, AnswerArrives DEF Bus
<1>6. CASE NodeReceive(i)
  <2>1. incoming[i] # <<>> BY <1>6 DEF NodeReceive, Line!receive
  <2>2. PICK f \in CommandsFor(i) : Way(i, <<>>, <<f>>, <<>>, <<>>)
    BY <2>1, OnePlace DEF Way
  <2>3. /\ incoming'[i] = <<>> /\ UNCHANGED <<ext_incoming, ext_outgoing>>
        /\ \E g \in AnswersOf(i) : outgoing'[i] = <<g>>
        /\ \A j \in Nodes \ {i} :
             node'[j] = node[j] /\ incoming'[j] = incoming[j] /\ outgoing'[j] = outgoing[j]
    BY <1>6, <2>2, AskedAnswers DEF Way, AllInService
  <2>4. node'[i].self_addr = node[i].self_addr
    <3>1. PICK msg, answer : msg = incoming[i][1] /\ Answers(node[i], msg, node'[i], answer)
      BY <1>6, NodeTakes DEF SystemInv
    <3>2. msg = f BY <2>2, <3>1, OneFrame DEF Way
    <3>3. node[i] \in NodeType /\ f.command \in {"INIT_WATER_DURATIONS", "STATUS"}
      BY DEF SystemInv, NodesSound, CommandsFor
    <3> DEFINE n == node[i]
               m == node'[i]
    <3>4. n \in NodeType /\ Answers(n, f, m, answer) BY <3>1, <3>2, <3>3
    <3> HIDE DEF n, m
    <3>5. m.self_addr = n.self_addr BY <3>3, <3>4 DEF Answers, NodeType
    <3> QED BY <3>5 DEF n, m
  <2>5. \E g \in AnswersOf(i) : Way(i, <<>>, <<>>, <<g>>, <<>>)' BY <2>2, <2>3 DEF Way
  <2>6. \A j \in Nodes \ {i} :
          outgoing'[j] = <<>> /\ Frames(incoming'[j]) \subseteq CommandsFor(i)
    BY <2>3 DEF UnderWay
  <2> QED BY <2>4, <2>5, <2>6, UnderWayNext
<1>7. ASSUME NEW j \in Nodes \ {i}, NodeReceive(j) PROVE UnderWay(i)' /\ UNCHANGED node[i]
  <2>1. /\ UNCHANGED <<outgoing, ext_incoming, ext_outgoing>>
        /\ \A k \in Nodes : /\ node'[k] = node[k]
                            /\ Frames(incoming'[k]) \subseteq Frames(incoming[k])
                            /\ k # j => incoming'[k] = incoming[k]
    BY <1>7, OthersAreSilent DEF UnderWay, AllInService
  <2>2. \A k \in Nodes \ {i} :
          outgoing'[k] = <<>> /\ Frames(incoming'[k]) \subseteq CommandsFor(i)
    BY <2>1 DEF UnderWay
  <2> QED BY <2>1, <2>2, OnePlace, UnderWayNext DEF Way
<1> QED BY <1>3, <1>4, <1>5, <1>6, <1>7, AsideMovesNothing, BusFinds, SystemSteps
        DEF HeadMove, busVars

-----------------------------------------------------------------------------
\* An address of the table is that of a node, once all are in service.
LEMMA TableNode ==
  ASSUME SystemInv, AgreementInv, KeysAreOwned, AllInService, pc # "kill_node_task",
         NEW a \in Addr, Exists(a)
  PROVE  \E i \in Nodes : node[i].self_addr = a
<1>1. PICK i \in Nodes : node[i].self_key = node_link[a].id_key
  BY DEF KeysAreOwned, Owned
<1> DEFINE b == node[i].self_addr
<1>2. b # ADDR_UNSET BY DEF SystemInv, NodesSound, SoundNode, AllInService, InService
<1>3. Exists(b) /\ node_link[b].id_key = node[i].self_key
  BY <1>2 DEF AgreementInv, NodesAgree
<1>4. b \in Addr /\ KeysUnique BY <1>3 DEF Exists, SystemInv, IInv
<1> HIDE DEF b
<1>5. a = b BY <1>1, <1>3, <1>4 DEF KeysUnique
<1> QED BY <1>5 DEF b

\* What the head takes from its queue leaves the table well, ...
LEMMA TakenWell ==
  ASSUME SystemInv, AllIsWell, HeadReceive
  PROVE  TableIsWell' /\ (head_status' = "WATERING_CMDS" => head_status = "WATERING_CMDS")
<1> DEFINE H == HeadFrame
           R == Healthy
<1>1. QueuesTyped /\ Carry(H, H, R, R) BY DEF SystemInv, AllIsWell
<1> HIDE DEF H, R
<1>2. receive(NoFrame) \/ \E f \in Frames(ext_incoming) \cap Frame \cap (R \cup R) : receive(f)
  BY <1>1, HeadTakes
<1>3. CASE receive(NoFrame)
  BY <1>3 DEF receive, AllIsWell, TableIsWell, get_node_status, roundVars
<1>4. ASSUME NEW f \in Healthy, receive(f), f # NoFrame
      PROVE  /\ TableIsWell'
             /\ head_status' = "WATERING_CMDS" => head_status = "WATERING_CMDS"
  <2>1. handle_incoming_frame(f) BY <1>4 DEF receive
  <2>2. head_status' \in {head_status, "STANDBY", "FAULTY_NODE"}
    BY <2>1 DEF handle_incoming_frame, handle_discovery, handle_addressing, handle_ack,
       handle_incoming_node_status, advance_active_watering_index, conclude_watering,
       Panic, roundVars
  <2> QED BY <1>4, <2>1, <2>2, HandledWell DEF SystemInv, AllIsWell
<1> QED BY <1>2, <1>3, <1>4, FrameFields DEF R

\* ... and the answer it has been waiting for takes the attempt back.
LEMMA AnswerServes ==
  ASSUME SystemInv, AgreementInv, BudgetInv, HeadReceive, Arrived,
         head_status = "WATERING_CMDS", AllInService,
         NEW i \in Nodes, node[i].self_addr = active_watering_index, UnderWay(i)
  PROVE  /\ pc' = "act" /\ Quiet' /\ AllInService'
         /\ head_status' = "WATERING_CMDS" /\ active_watering_index' # NoIndex
              => ~Tried(active_watering_index)'
<1>1. PICK g \in AnswersOf(i) : Way(i, <<>>, <<>>, <<>>, <<g>>)
  BY OnePlace, OneFrame DEF Arrived, Way
<1>2. ext_incoming = <<g>> /\ g # NoFrame /\ g \in Reply /\ g \in Plain
      /\ g.command \in {"ACK", "STATUS"} /\ g.address = active_watering_index
  BY <1>1, FrameFields DEF Way, AnswersOf, Plain, Frame
<1>3. /\ receive(g) /\ ext_incoming' = <<>>
      /\ UNCHANGED <<node, incoming, outgoing>>
  BY <1>2, OneFrame DEF HeadReceive
<1>4. handle_incoming_frame(g) /\ pc' = "act" BY <1>2, <1>3 DEF receive
<1>5. TriedIsNotReady' /\ returned' = NoFrame
  BY <1>2, <1>4, PlainHandled DEF SystemInv
<1>6. Quiet' BY <1>3, <1>5 DEF HeadReceive, send_returned, Quiet, Arrived
<1>7. AllInService' BY <1>3 DEF AllInService, InService
<1> DEFINE a == g.address
<1>8. Exists(a) /\ a \in Addr /\ node_link[a] \in Node /\ node_link \in [Addr -> Node \cup {NullNode}]
  <2>1. node[i].self_addr # ADDR_UNSET /\ pc # "kill_node_task"
    BY <1>3 DEF SystemInv, NodesSound, SoundNode, AllInService, InService, receive
  <2>2. Exists(a) BY <1>2, <2>1 DEF AgreementInv, NodesAgree
  <2> QED BY <2>2, ExistingNode DEF SystemInv, IInv, TypeOK
<1>9. ASSUME head_status' = "WATERING_CMDS", active_watering_index' # NoIndex
      PROVE  ~Tried(active_watering_index)'
  <2>1. CASE UNCHANGED roundVars
    <3>1. node_link'[a].retry_attempts = 0
      <4>1. \/ node_link' = [node_link EXCEPT ![a].node_status = "WATERING",
                                              ![a].retry_attempts = 0]
            \/ node_link' = [node_link EXCEPT ![a].retry_attempts = 0,
                                              ![a].node_status = g.status]
        BY <1>2, <1>4, <1>8 DEF handle_incoming_frame, handle_ack, handle_incoming_node_status
      <4> QED BY <1>8, <4>1 DEF Node
    <3> QED BY <1>2, <2>1, <3>1 DEF Tried, roundVars
  <2>2. CASE advance_active_watering_index(node_link')
    <3>1. PICK S \in SUBSET Addr :
            /\ \A b \in S : get_node_status(b)' = "IN_QUEUE"
            /\ active_watering_index' \in FirstOf(S)
      <4>1. PICK S \in SUBSET Addr :
              /\ \A b \in S : node_link'[b].node_status = "IN_QUEUE"
              /\ \/ NoIndex \in FirstOf(S) /\ conclude_watering("STANDBY")
                 \/ active_watering_index' \in FirstOf(S) \ {NoIndex}
        <5> DEFINE start == IF active_watering_index = NoIndex THEN 0
                            ELSE active_watering_index
                   T == {b \in Addr : b >= start /\ node_link'[b].node_status = "IN_QUEUE"}
        <5>1. \/ NoIndex \in FirstOf(T) /\ conclude_watering("STANDBY")
              \/ active_watering_index' \in FirstOf(T) \ {NoIndex}
          BY <2>2 DEF advance_active_watering_index
        <5>2. T \in SUBSET Addr /\ \A b \in T : node_link'[b].node_status = "IN_QUEUE"
          OBVIOUS
        <5> HIDE DEF T
        <5> QED BY <5>1, <5>2
      <4> QED BY <1>9, <4>1 DEF conclude_watering, get_node_status
    <3>2. active_watering_index' \in Addr
          /\ get_node_status(active_watering_index)' = "IN_QUEUE"
      BY <1>9, <3>1, FirstOfSpec DEF get_node_status
    <3> QED BY <1>5, <3>2 DEF TriedIsNotReady, get_node_status
  <2>3. \/ UNCHANGED roundVars \/ advance_active_watering_index(node_link')
        \/ conclude_watering("FAULTY_NODE")
    BY <1>2, <1>4, <1>8 DEF handle_incoming_frame, handle_ack, handle_incoming_node_status
  <2> QED BY <1>9, <2>1, <2>2, <2>3 DEF conclude_watering
<1> QED BY <1>4, <1>6, <1>7, <1>9

\* A round begins on a quiet line, with nodes in service that have all their attempts.
LEMMA ScheduleServes ==
  ASSUME SystemInv, BudgetInv, SearchInv, RoundIsServed, HeadAct,
         NEW due \in BOOLEAN, NEW phase \in Phases, due => Quiet, schedule(due, phase),
         head_status' = "WATERING_CMDS"
  PROVE  /\ pc' = "command" /\ Quiet'
         /\ active_watering_index' # NoIndex =>
              AllInService' /\ ~Tried(active_watering_index)'
<1>0. /\ pc = "act" /\ pc' = "command" /\ returned' = NoFrame
      /\ process_watering_schedule(due, phase) /\ UNCHANGED node
      /\ UNCHANGED <<incoming, outgoing, ext_incoming, ext_outgoing>>
  BY DEF schedule, process_watering_schedule, HeadAct, send_returned
<1>1. CASE UNCHANGED <<node_link, roundVars>>
  BY <1>0, <1>1 DEF RoundIsServed, roundVars, Quiet, Arrived, AllInService, InService,
     Tried, Exists
<1>2. CASE due /\ head_status = "STANDBY" /\ initialize_watering_states(phase)
  <2>1. Quiet /\ Quiet' BY <1>0, <1>2 DEF Quiet, Arrived
  <2>2. active_watering_index = NoIndex
    BY <1>2 DEF SystemInv, IInv, ActiveIsInRound
  <2>3. active_watering_index' \in FirstOf(Queued(phase))
    BY <1>2, <2>2 DEF initialize_watering_states
  <2>4. Queued(phase) \in SUBSET Addr BY DEF Queued
  <2>5. ASSUME active_watering_index' # NoIndex
        PROVE  AllInService' /\ ~Tried(active_watering_index)'
    <3> DEFINE a == active_watering_index'
    <3>1. a \in Queued(phase) BY <2>3, <2>4, <2>5, FirstOfSpec
    <3>2. a \in Addr /\ get_node_status(a) = "READY" /\ Exists(a)
      BY <3>1 DEF Queued, is_node_watering_this_phase
    <3>3. ~Tried(a) BY <3>2 DEF BudgetInv, TriedIsNotReady
    <3> HIDE DEF a
    <3>4. \A b \in Addr : Tried(b)' => Tried(b)
      BY <1>0, ScheduleKeepsBudget DEF SystemInv, BudgetInv
    <3>5. PICK b \in Addr : b = a /\ ~(node_link'[b] # NullNode
                                       /\ node_link'[b].retry_attempts # 0)
      BY <3>2, <3>3, <3>4 DEF Tried, Exists
    <3>6. ~Tried(active_watering_index)' BY <3>5 DEF a, Tried, Exists
    <3>7. \A i \in Nodes : Found(i)
      BY <1>2, <3>2 DEF SearchInv, AllFound, Searching, NoNodes
    <3>8. AllInService' BY <1>0, <2>1, <3>7, QuietFound DEF AllInService, InService
    <3> QED BY <3>6, <3>8
  <2> QED BY <1>0, <2>1, <2>5
<1> QED BY <1>0, <1>1, <1>2 DEF process_watering_schedule

\* The head sends one frame, to a node that is there.
LEMMA CommandServes ==
  ASSUME SystemInv, AgreementInv, SearchInv, RoundIsServed, HeadAct, command,
         head_status' = "WATERING_CMDS"
  PROVE  /\ pc' = "requests" /\ AllInService'
         /\ \E i \in Nodes : node'[i].self_addr = active_watering_index' /\ UnderWay(i)'
<1> DEFINE a == active_watering_index
<1>0. /\ pc = "command" /\ pc' = "requests" /\ next_watering_frame
      /\ head_status = "WATERING_CMDS" /\ send_returned
      /\ UNCHANGED <<node, incoming, outgoing, ext_incoming>>
  BY DEF command, compare_statuses, next_watering_frame, HeadAct
<1>1. Quiet /\ (a # NoIndex => AllInService) BY <1>0 DEF RoundIsServed
<1>2. /\ a \in Addr /\ get_node_status(a) # "NODE_NONEXISTANT" /\ UNCHANGED roundVars
      /\ \/ \E d \in Durations : returned' = WateringFrame(a, d)
         \/ returned' = StatusFrame(a)
  BY <1>0, CommandKnown
<1>3. AllInService BY <1>1, <1>2, MaxNodesAssumption DEF Addr, NoIndex
<1>4. Exists(a) BY <1>2 DEF Exists, get_node_status, NullNode
<1>5. PICK i \in Nodes : node[i].self_addr = a
  <2>1. KeysAreOwned BY DEF SearchInv
  <2> QED BY <1>0, <1>2, <1>3, <1>4, <2>1, TableNode
<1>6. PICK f : f = returned' OBVIOUS
<1>7. f \in CommandsFor(i) /\ f # NoFrame
  BY <1>2, <1>5, <1>6 DEF CommandsFor, HeadFrame, WateringFrame, StatusFrame, NoFrame
<1>8. Way(i, <<f>>, <<>>, <<>>, <<>>)'
  <2>1. ext_outgoing' = <<f>>
    BY <1>0, <1>1, <1>6, <1>7, OneFrame DEF send_returned, Quiet, Arrived
  <2> QED BY <1>0, <1>1, <2>1 DEF Way, Quiet, Arrived
<1>9. \A j \in Nodes \ {i} :
        outgoing'[j] = <<>> /\ Frames(incoming'[j]) \subseteq CommandsFor(i)
  BY <1>0, <1>1 DEF Quiet, Arrived, Frames
<1>10. UnderWay(i)' BY <1>0, <1>7, <1>8, <1>9, UnderWayNext
<1>11. AllInService' BY <1>0, <1>3 DEF AllInService, InService
<1> QED BY <1>0, <1>2, <1>5, <1>10, <1>11 DEF roundVars

\* While the head does not move, what it waits for is under way.
LEMMA RoundWaits ==
  ASSUME SystemInv, AgreementInv, OneRemoteNode, ~faulty, [SystemNext]_<<systemVars, faulty>>,
         ~PowerCycle, ~KillNodeTask, ~HeadMove, AllInService, ServiceIsSwitched,
         NEW i \in Nodes, node[i].self_addr = active_watering_index, UnderWay(i),
         pc' \in {"requests", "receive"}, UNCHANGED roundVars
  PROVE  RoundIsServed'
<1>1. UnderWay(i)' /\ node'[i].self_addr = active_watering_index'
  BY UnderWayStep DEF roundVars
<1>2. AllInService' BY ServiceStays DEF AllInService
<1> QED BY <1>1, <1>2 DEF RoundIsServed

LEMMA RoundServedStep ==
  ASSUME SystemInv, AgreementInv, BudgetInv, SearchInv, OneRemoteNode, ~faulty,
         PatienceInv, [SystemNext]_<<systemVars, faulty>>, HeadReceive => Arrived
  PROVE  RoundIsServed'
<1> SUFFICES ASSUME head_status' = "WATERING_CMDS" PROVE RoundIsServed'
  BY DEF RoundIsServed
<1>0. AllIsWell /\ RoundIsServed BY DEF PatienceInv
<1>1. CASE HeadReceive
  <2>1. head_status = "WATERING_CMDS" /\ pc = "receive"
    BY <1>0, <1>1, TakenWell DEF HeadReceive, receive
  <2>2. PICK i \in Nodes : node[i].self_addr = active_watering_index /\ UnderWay(i)
    BY <1>0, <2>1 DEF RoundIsServed
  <2>3. AllInService BY <1>0, <2>1 DEF RoundIsServed
  <2>4. /\ pc' = "act" /\ Quiet' /\ AllInService'
        /\ head_status' = "WATERING_CMDS" /\ active_watering_index' # NoIndex
             => ~Tried(active_watering_index)'
    BY <1>1, <2>1, <2>2, <2>3, AnswerServes
  <2> QED BY <2>4 DEF RoundIsServed
<1>2. CASE HeadAct
  <2>1. ASSUME NEW key, pair(key) PROVE FALSE
    BY <2>1 DEF pair, process_pairing
  <2>2. ASSUME NEW due \in BOOLEAN, NEW phase \in Phases, due => Quiet, schedule(due, phase)
        PROVE  RoundIsServed'
    BY <1>0, <1>2, <2>2, ScheduleServes DEF RoundIsServed
  <2>3. CASE command BY <1>0, <1>2, <2>3, CommandServes DEF RoundIsServed
  <2> QED BY <1>2, <2>1, <2>2, <2>3 DEF HeadAct
<1>3. CASE PowerCycle BY <1>3, PowerIsOff
<1>4. CASE KillNodeTask
  <2>1. pc = "kill_node_task" /\ UNCHANGED vars
    BY <1>4 DEF KillNodeTask, node_task_killed
  <2> QED BY <2>1 DEF SearchInv, SearchBegins, Searching, vars, roundVars
<1> SUFFICES ASSUME ~PowerCycle, ~KillNodeTask PROVE RoundIsServed' BY <1>3, <1>4
<1>5. ASSUME ~HeadMove, UNCHANGED roundVars, pc \in {"requests", "receive"},
             pc' \in {"requests", "receive"}
      PROVE  RoundIsServed'
  <2>1. AllInService /\ \E i \in Nodes : node[i].self_addr = active_watering_index /\ UnderWay(i)
    BY <1>0, <1>5 DEF RoundIsServed, roundVars
  <2>2. ServiceIsSwitched BY DEF SearchInv
  <2> QED BY <1>5, <2>1, <2>2, RoundWaits
<1>6. CASE notify /\ UNCHANGED busVars
  <2>1. /\ pc = "requests" /\ pc' = "receive" /\ UNCHANGED roundVars
    BY <1>6 DEF notify, vars, roundVars
  <2> QED BY <1>5, <2>1, MoveKnown
<1>7. ASSUME NEW r \in Request, Serve(r), pc = "requests", UNCHANGED busVars
      PROVE  RoundIsServed'
  <2>1. ~init_pairing_mode BY DEF init_pairing_mode, conclude_watering
  <2>2. UNCHANGED <<pc, roundVars>>
    BY <1>7, <2>1 DEF Serve, set_node_duration, set_watering_cycle, vars, roundVars
  <2>3. ~HeadMove BY <2>2, MoveKnown
  <2> QED BY <1>5, <1>7, <2>2, <2>3
<1>8. ASSUME UNCHANGED <<vars, pc>>, Quiet => /\ Quiet'
                                              /\ AllInService => AllInService'
      PROVE  RoundIsServed'
  <2>1. UNCHANGED <<node_link, roundVars>> /\ head_status = "WATERING_CMDS"
    BY <1>8 DEF vars, roundVars
  <2>2. CASE pc \in {"requests", "receive"}
    <3>1. ~HeadMove BY <1>8, MoveKnown
    <3> QED BY <1>5, <1>8, <2>1, <2>2, <3>1
  <2>3. CASE pc \notin {"requests", "receive"}
    <3>1. /\ pc \in {"act", "command"} /\ Quiet
          /\ active_watering_index # NoIndex => AllInService /\ ~Tried(active_watering_index)
      BY <1>0, <2>1, <2>3 DEF RoundIsServed
    <3>2. Tried(active_watering_index)' <=> Tried(active_watering_index)
      BY <2>1 DEF Tried, Exists, roundVars
    <3> QED BY <1>8, <2>1, <3>1, <3>2 DEF RoundIsServed, roundVars
  <2> QED BY <2>2, <2>3
<1>9. CASE Bus BY <1>8, <1>9, BusFinds DEF taskVars
<1>10. ASSUME NEW j \in Nodes, NodeReceive(j) PROVE RoundIsServed'
  <2>1. ~Quiet BY <1>10 DEF NodeReceive, Line!receive, Quiet, Arrived
  <2>2. UNCHANGED <<vars, pc>> BY <1>10 DEF NodeReceive, allVars, taskVars
  <2> QED BY <1>8, <2>1, <2>2
<1>11. CASE Aside
  <2>1. Quiet => Quiet' BY <1>11, AsideMovesNothing DEF Quiet, Arrived
  <2>2. UNCHANGED <<vars, pc>> BY <1>11, AsideMovesNothing
  <2>3. AllInService => AllInService' BY ServiceStays DEF AllInService
  <2> QED BY <1>8, <2>1, <2>2, <2>3
<1> QED BY <1>1, <1>2, <1>6, <1>7, <1>9, <1>10, <1>11, SystemSteps

LEMMA AllWellStep ==
  ASSUME SystemInv, AgreementInv, BudgetInv, SearchInv, ~faulty, RetryMax >= 2,
         PatienceInv, [SystemNext]_<<systemVars, faulty>>
  PROVE  AllIsWell'
<1>0. AllIsWell /\ RoundIsServed /\ IInv BY DEF PatienceInv, SystemInv
<1>1. \A i \in Nodes : Well(i)' BY <1>0, NodeStaysWell DEF AllIsWell
<1>2. Carry(HeadFrame, HeadFrame, Healthy, Healthy)' BY <1>0, HealthyStep DEF AllIsWell
<1>3. TableIsWell'
  <2>0. TableIsWell BY <1>0 DEF AllIsWell
  <2>1. CASE UNCHANGED vars
    BY <2>0, <2>1 DEF vars, roundVars, TableIsWell, get_node_status
  <2>2. CASE HeadReceive BY <1>0, <2>2, TakenWell
  <2>3. CASE HeadAct
    <3>1. ASSUME NEW key, pair(key) PROVE TableIsWell'
      BY <2>0, <3>1 DEF pair, process_pairing, TableIsWell, get_node_status
    <3>2. ASSUME NEW due, NEW phase, schedule(due, phase) PROVE TableIsWell'
      BY <1>0, <2>0, <3>2, ScheduledWell DEF schedule
    <3>3. CASE command
      <4>1. next_watering_frame /\ pc = "command" /\ head_status = "WATERING_CMDS"
        BY <3>3 DEF command, next_watering_frame
      <4>2. active_watering_index # NoIndex => ~Tried(active_watering_index)
        BY <1>0, <4>1 DEF RoundIsServed
      <4> QED BY <2>0, <4>1, <4>2, NotGivenUp
    <3> QED BY <2>3, <3>1, <3>2, <3>3 DEF HeadAct
  <2>4. CASE PowerCycle
    <3>1. \A a \in Addr : node_link'[a] = NullNode BY <2>4, PowerIsOff DEF NoNodes, Exists
    <3> QED BY <2>4, <3>1, PowerIsOff DEF TableIsWell, get_node_status, NullNode
  <2>5. ASSUME NEW r \in Request, Serve(r) PROVE TableIsWell' BY <2>0, <2>5, ServedWell
  <2>6. KillNodeTask \/ notify \/ (\E i \in Nodes : NodeReceive(i)) => UNCHANGED vars
    BY DEF KillNodeTask, node_task_killed, notify, NodeReceive, allVars
  <2>7. Bus \/ Aside => UNCHANGED vars BY BusFinds, AsideMovesNothing
  <2> QED BY <2>1, <2>2, <2>3, <2>4, <2>5, <2>6, <2>7, SystemSteps
<1> QED BY <1>1, <1>2, <1>3 DEF AllIsWell

LEMMA InitPatience == SystemInit => PatienceInv
<1> SUFFICES ASSUME SystemInit PROVE PatienceInv OBVIOUS
<1>1. Quiet BY StartsQuiet
<1>2. /\ head_status = "STANDBY" /\ \A a \in Addr : get_node_status(a) # "ERR"
  BY DEF SystemInit, TaskInit, Init, get_node_status, NullNode
<1>3. \A i \in Nodes : Well(i) BY DEF SystemInit, Line!Init, Line!NewSelfNode, Well
<1> DEFINE H == HeadFrame
           R == Healthy
<1> HIDE DEF H, R
<1>4. Carry(H, H, R, R) BY <1>1, NothingUnderWay
<1> QED BY <1>2, <1>3, <1>4 DEF PatienceInv, AllIsWell, TableIsWell, RoundIsServed, H, R

LEMMA InitBudget == SystemInit => BudgetInv
<1>1. SystemInit => \A a \in Addr : ~Tried(a)
  BY DEF SystemInit, TaskInit, Init, Tried, Exists
<1>2. SystemInit => head_status = "STANDBY" BY DEF SystemInit, TaskInit, Init
<1> QED BY <1>1, <1>2 DEF BudgetInv, TriedIsNotReady, NoPairingUnderWay, RoundKnown

\* A node that answers is not given up: on a line without faults, where no queue
\* overflows and a pass of the head's loop outlasts a frame and its answer, neither
\* a node nor the head is ever in error, whatever the host writes, and whenever it
\* pairs again at rest or the power goes (next_watering_frame counts an attempt,
\* handle_ack and handle_incoming_node_status take it back).
THEOREM NobodyIsGivenUp ==
  ASSUME Repairing = "standby", OneRemoteNode, Nodes \subseteq Addr,
         StopPairingCount >= 2, RetryMax >= 2
  PROVE  SystemSpec /\ []Room /\ PassOutlastsFrames => []NoFalseFault
<1>1. /\ SystemInv /\ AgreementInv /\ BudgetInv /\ (~faulty => SearchInv)
      /\ (~faulty => PatienceInv)
      /\ [SystemNext]_<<systemVars, faulty>> /\ [HeadReceive => Arrived]_systemVars
      => (~faulty => PatienceInv)'
  <2> SUFFICES ASSUME SystemInv, AgreementInv, BudgetInv, SearchInv, PatienceInv, ~faulty,
                      [SystemNext]_<<systemVars, faulty>>, [HeadReceive => Arrived]_systemVars
               PROVE  PatienceInv'
    BY DEF SystemNext
  <2>1. HeadReceive => Arrived
    <3>1. HeadReceive => pc' # pc BY MoveKnown DEF HeadMove
    <3> QED BY <3>1 DEF systemVars, allVars, taskVars
  <2> QED BY <2>1, RoundServedStep, AllWellStep DEF PatienceInv
<1>2. SystemSpec => []AgreementInv BY AgreementInvariance
<1>3. SystemSpec /\ []Room => [](~faulty => SearchInv) BY SearchInvariance
<1>4. (~faulty => PatienceInv) => NoFalseFault
  BY DEF PatienceInv, AllIsWell, TableIsWell, NoFalseFault
<1> QED BY <1>1, <1>2, <1>3, <1>4, InitPatience, InitBudget, BudgetStep, SystemInvariance, PTL
        DEF SystemSpec, PassOutlastsFrames
=============================================================================
