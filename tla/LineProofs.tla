----------------------------- MODULE LineProofs -----------------------------
(***************************************************************************)
(* What is under way between the head and its nodes, for any number of     *)
(* nodes, keys and requests and any length of the queues, with or without  *)
(* faults: how each step of the system moves frames, and that all that     *)
(* moves, and every node, keeps to its type.                               *)
(***************************************************************************)
EXTENDS System, HeadProofs, SequenceTheorems

-----------------------------------------------------------------------------
(***************************************************************************)
(* Queues.                                                                 *)
(***************************************************************************)
Frames(queue) == {queue[k] : k \in DOMAIN queue}

\* Taking the first frame of a queue.
LEMMA Taken ==
  ASSUME NEW S, NEW q \in Seq(S), q # <<>>
  PROVE  /\ q[1] \in Frames(q) /\ Head(q) = q[1]
         /\ Tail(q) \in Seq(S) /\ Frames(Tail(q)) \subseteq Frames(q)
         /\ Len(Tail(q)) = Len(q) - 1 /\ Len(q) \in Nat \ {0}
<1>1. Len(q) \in Nat /\ Len(q) # 0 /\ DOMAIN q = 1 .. Len(q)
  BY EmptySeq, LenProperties
<1>2. /\ Tail(q) \in Seq(S) /\ Len(Tail(q)) = Len(q) - 1
      /\ \A k \in 1 .. Len(Tail(q)) : Tail(q)[k] = q[k + 1]
  BY HeadTailProperties
<1>3. DOMAIN Tail(q) = 1 .. Len(q) - 1 BY <1>2, LenProperties
<1>4. 1 \in DOMAIN q /\ Head(q) = q[1] BY <1>1
<1>5. ASSUME NEW k \in DOMAIN Tail(q) PROVE Tail(q)[k] \in Frames(q)
  <2>1. k + 1 \in DOMAIN q /\ Tail(q)[k] = q[k + 1] BY <1>1, <1>2, <1>3
  <2> QED BY <2>1 DEF Frames
<1> QED BY <1>1, <1>2, <1>4, <1>5 DEF Frames

\* Adding one at the end.
LEMMA Added ==
  ASSUME NEW S, NEW q \in Seq(S), NEW f \in S
  PROVE  /\ Append(q, f) \in Seq(S) /\ Len(Append(q, f)) = Len(q) + 1
         /\ Frames(Append(q, f)) = Frames(q) \cup {f}
         /\ Append(q, f) # <<>>
<1> DEFINE r == Append(q, f)
<1>1. /\ r \in Seq(S) /\ Len(r) = Len(q) + 1 /\ Len(q) \in Nat
      /\ DOMAIN r = 1 .. Len(q) + 1 /\ DOMAIN q = 1 .. Len(q)
      /\ \A k \in 1 .. Len(q) : r[k] = q[k]
      /\ r[Len(q) + 1] = f
  BY AppendProperties, LenProperties
<1> HIDE DEF r
<1>2. DOMAIN r = DOMAIN q \cup {Len(q) + 1} BY <1>1
<1>3. Frames(r) = Frames(q) \cup {f} BY <1>1, <1>2 DEF Frames
<1>4. r # <<>> BY <1>1
<1> QED BY <1>1, <1>3, <1>4 DEF r

\* A send that does not wait, and a delivery of no, one or two copies.
LEMMA SentAdds ==
  ASSUME NEW S, NEW q \in Seq(S), NEW f \in S, Len(q) <= QueueLength
  PROVE  /\ Sent(q, f) \in Seq(S) /\ Len(Sent(q, f)) <= QueueLength
         /\ Frames(Sent(q, f)) \subseteq Frames(q) \cup {f}
<1>1. Len(q) \in Nat /\ QueueLength \in Nat BY SwitchesAssumption
<1> QED BY <1>1, Added DEF Sent, Line!Sent

LEMMA DeliveredAdds ==
  ASSUME NEW S, NEW q \in Seq(S), NEW f \in S, Len(q) <= QueueLength,
         NEW n \in {0, 1, 2}
  PROVE  /\ Delivered(q, f, n) \in Seq(S) /\ Len(Delivered(q, f, n)) <= QueueLength
         /\ Frames(Delivered(q, f, n)) \subseteq Frames(q) \cup {f}
<1>1. CASE n = 0 BY <1>1 DEF Delivered
<1>2. CASE n = 1 BY <1>2, SentAdds DEF Delivered
<1>3. CASE n = 2
  <2> DEFINE p == Sent(q, f)
  <2>1. p \in Seq(S) /\ Len(p) <= QueueLength /\ Frames(p) \subseteq Frames(q) \cup {f}
    BY SentAdds
  <2> HIDE DEF p
  <2>2. /\ Sent(p, f) \in Seq(S) /\ Len(Sent(p, f)) <= QueueLength
        /\ Frames(Sent(p, f)) \subseteq Frames(p) \cup {f}
    BY <2>1, SentAdds
  <2>3. Delivered(q, f, n) = Sent(p, f) BY <1>3 DEF Delivered, p
  <2> QED BY <2>1, <2>2, <2>3
<1> QED BY <1>1, <1>2, <1>3

\* The frames of a queue are of its type.
LEMMA FramesTyped ==
  ASSUME NEW S, NEW q, q \in Seq(S)
  PROVE  Frames(q) \subseteq S
<1>1. DOMAIN q = 1 .. Len(q) BY LenProperties
<1> QED BY <1>1, ElementOfSeq DEF Frames

LEMMA TypedByFrames ==
  ASSUME NEW S, NEW T, NEW q \in Seq(S), Frames(q) \subseteq T
  PROVE  q \in Seq(T)
<1>1. DOMAIN q = 1 .. Len(q) /\ Len(q) \in Nat /\ q = [k \in 1 .. Len(q) |-> q[k]]
  BY LenProperties
<1>2. \A k \in 1 .. Len(q) : q[k] \in T BY <1>1 DEF Frames
<1> QED BY <1>1, <1>2

-----------------------------------------------------------------------------
(***************************************************************************)
(* What is under way.                                                      *)
(***************************************************************************)
\* What the head sends, and what nodes answer.
HeadFrame ==
       {DiscoveryFrame(k, 0) : k \in Keys}
  \cup {AddressingFrame(k, a) : k \in Keys, a \in Addr}
  \cup {AckFrame(a) : a \in Addr}
  \cup {WateringFrame(a, d) : a \in Addr, d \in Durations}
  \cup {StatusFrame(a) : a \in Addr}
Reply ==
       {DiscoveryFrame(k, 2) : k \in Keys}
  \cup {AddressingFrame(k, a) : k \in Keys, a \in Addr}
  \cup {AckFrame(a) : a \in Addr}
  \cup {StatusReply(a, s) : a \in Addr, s \in ReportedStatus}
Frame == HeadFrame \cup Reply

QueuesTyped ==
  /\ ext_incoming \in Seq(Frame) /\ Len(ext_incoming) <= QueueLength
  /\ ext_outgoing \in Seq(Frame) /\ Len(ext_outgoing) <= QueueLength
  /\ incoming \in [Nodes -> Seq(Frame)] /\ outgoing \in [Nodes -> Seq(Frame)]
  /\ \A i \in Nodes : Len(incoming[i]) <= QueueLength /\ Len(outgoing[i]) <= QueueLength

\* The head sends frames of H, which reach the nodes down the line as frames of
\* W; node 0 answers with frames of R0 and the others with frames of R.
Carry(H, W, R0, R) ==
  /\ Frames(ext_outgoing) \subseteq H /\ Frames(ext_incoming) \subseteq R0 \cup R
  /\ Frames(incoming[0]) \subseteq H /\ Frames(outgoing[0]) \subseteq R0
  /\ \A i \in Remotes : Frames(incoming[i]) \subseteq W \cup R
                         /\ Frames(outgoing[i]) \subseteq R

Listening == {i \in Remotes : Powered(i)}

\* The bus delivers what is sent, as it is on the wire, or less, or twice.
LEMMA CopiesOf ==
  ASSUME NEW L, NEW c \in Copies(L)
  PROVE  DOMAIN c = L /\ \A i \in L : c[i] \in {0, 1, 2}
BY DEF Copies

LEMMA UartSendCarries ==
  ASSUME NEW H \in SUBSET Frame, NEW W \in SUBSET Frame, NEW R0, NEW R,
         QueuesTyped, Carry(H, W, R0, R), UartSend,
         Listening # {} => \A f \in H : OnWire(f) \in W
  PROVE  QueuesTyped' /\ Carry(H, W, R0, R)'
<1> DEFINE f == ext_outgoing[1]
<1>1. /\ ext_outgoing # <<>> /\ ext_outgoing' = Tail(ext_outgoing)
      /\ UNCHANGED <<outgoing, ext_incoming>>
  BY DEF UartSend
<1>2. PICK copies \in Copies(Listening) :
        incoming' = [i \in Nodes |->
            IF i = 0 THEN Sent(incoming[0], f)
            ELSE IF i \in DOMAIN copies
            THEN Delivered(incoming[i], OnWire(f), copies[i])
            ELSE incoming[i]]
  BY DEF UartSend, Listening
<1>3. /\ f \in Frames(ext_outgoing) /\ f \in H /\ f \in Frame
      /\ Tail(ext_outgoing) \in Seq(Frame)
      /\ Frames(Tail(ext_outgoing)) \subseteq Frames(ext_outgoing)
      /\ Len(Tail(ext_outgoing)) <= QueueLength
  <2>1. /\ Len(ext_outgoing) \in Nat \ {0} /\ Len(ext_outgoing) <= QueueLength
        /\ QueueLength \in Nat /\ ext_outgoing \in Seq(Frame)
    BY <1>1, Taken, SwitchesAssumption DEF QueuesTyped
  <2>2. /\ f \in Frames(ext_outgoing)
        /\ Tail(ext_outgoing) \in Seq(Frame)
        /\ Frames(Tail(ext_outgoing)) \subseteq Frames(ext_outgoing)
        /\ Len(Tail(ext_outgoing)) = Len(ext_outgoing) - 1
    BY <1>1, <2>1, Taken
  <2>3. f \in H BY <2>2 DEF Carry
  <2> QED BY <2>1, <2>2, <2>3
<1> HIDE DEF f
<1>4. DOMAIN copies = Listening /\ \A i \in Listening : copies[i] \in {0, 1, 2}
  BY CopiesOf
<1>5. ASSUME NEW i \in Nodes
      PROVE  /\ incoming'[i] \in Seq(Frame) /\ Len(incoming'[i]) <= QueueLength
             /\ Frames(incoming'[i]) \subseteq Frames(incoming[i])
                                              \cup (IF i = 0 THEN H ELSE W)
  <2>1. incoming[i] \in Seq(Frame) /\ Len(incoming[i]) <= QueueLength
    BY DEF QueuesTyped
  <2>2. CASE i = 0
    <3>1. incoming'[0] = Sent(incoming[0], f) BY <1>2, <2>2
    <3> QED BY <1>3, <2>1, <2>2, <3>1, SentAdds
  <2>3. CASE i # 0 /\ i \notin Listening
    <3>1. incoming'[i] = incoming[i] BY <1>2, <1>4, <2>3
    <3> QED BY <2>1, <3>1
  <2>4. CASE i # 0 /\ i \in Listening
    <3>1. incoming'[i] = Delivered(incoming[i], OnWire(f), copies[i])
      BY <1>2, <1>4, <2>4
    <3>2. OnWire(f) \in W /\ OnWire(f) \in Frame /\ copies[i] \in {0, 1, 2}
      BY <1>3, <1>4, <2>4
    <3> DEFINE w == OnWire(f)
               n == copies[i]
    <3> HIDE DEF w, n
    <3>3. /\ Delivered(incoming[i], w, n) \in Seq(Frame)
          /\ Len(Delivered(incoming[i], w, n)) <= QueueLength
          /\ Frames(Delivered(incoming[i], w, n)) \subseteq Frames(incoming[i]) \cup {w}
      BY <2>1, <3>2, DeliveredAdds DEF w, n
    <3> QED BY <2>4, <3>1, <3>2, <3>3 DEF w, n
  <2> QED BY <2>2, <2>3, <2>4
<1>6. incoming' \in [Nodes -> Seq(Frame)]
  <2>1. incoming' = [i \in Nodes |-> incoming'[i]] BY <1>2
  <2> QED BY <1>5, <2>1
<1>7. QueuesTyped' BY <1>1, <1>3, <1>5, <1>6 DEF QueuesTyped
<1>8. Carry(H, W, R0, R)'
  <2>1. Frames(incoming'[0]) \subseteq H
    BY <1>5, NodesAssumption DEF Carry
  <2>2. \A i \in Remotes : Frames(incoming'[i]) \subseteq W \cup R
    BY <1>5 DEF Carry, Remotes
  <2> QED BY <1>1, <1>3, <2>1, <2>2 DEF Carry
<1> QED BY <1>7, <1>8

LEMMA UartLocalCarries ==
  ASSUME NEW H, NEW W, NEW R0, NEW R,
         QueuesTyped, Carry(H, W, R0, R), UartLocal
  PROVE  QueuesTyped' /\ Carry(H, W, R0, R)'
<1> DEFINE f == outgoing[0][1]
           q == outgoing[0]
<1>1. /\ q # <<>> /\ outgoing' = [outgoing EXCEPT ![0] = Tail(q)]
      /\ ext_incoming' = Sent(ext_incoming, f)
      /\ UNCHANGED <<incoming, ext_outgoing>>
  BY DEF UartLocal
<1>2. q \in Seq(Frame) /\ Len(q) <= QueueLength /\ 0 \in Nodes
  BY NodesAssumption DEF QueuesTyped
<1>3. /\ f \in Frames(q) /\ f \in R0 /\ f \in Frame
      /\ Tail(q) \in Seq(Frame) /\ Frames(Tail(q)) \subseteq Frames(q)
      /\ Len(Tail(q)) <= QueueLength
  <2>1. /\ f \in Frames(q) /\ Tail(q) \in Seq(Frame)
        /\ Frames(Tail(q)) \subseteq Frames(q)
        /\ Len(Tail(q)) = Len(q) - 1 /\ Len(q) \in Nat \ {0}
    BY <1>1, <1>2, Taken
  <2>2. f \in R0 /\ f \in Frame BY <1>2, <2>1, FramesTyped DEF Carry
  <2> QED BY <1>2, <2>1, <2>2, SwitchesAssumption
<1> HIDE DEF f
<1>4. /\ ext_incoming' \in Seq(Frame) /\ Len(ext_incoming') <= QueueLength
      /\ Frames(ext_incoming') \subseteq Frames(ext_incoming) \cup {f}
  BY <1>1, <1>3, SentAdds DEF QueuesTyped
<1>5. /\ outgoing' \in [Nodes -> Seq(Frame)] /\ outgoing'[0] = Tail(q)
      /\ \A i \in Remotes : outgoing'[i] = outgoing[i]
      /\ \A i \in Nodes : Len(outgoing'[i]) <= QueueLength
  <2>1. outgoing \in [Nodes -> Seq(Frame)]
        /\ \A i \in Nodes : Len(outgoing[i]) <= QueueLength
    BY DEF QueuesTyped
  <2> DEFINE t == Tail(q)
  <2> HIDE DEF t
  <2>2. outgoing' = [outgoing EXCEPT ![0] = t] /\ t \in Seq(Frame) /\ Len(t) <= QueueLength
    BY <1>1, <1>3 DEF t
  <2>3. outgoing' \in [Nodes -> Seq(Frame)] /\ outgoing'[0] = t
        /\ \A i \in Nodes : i # 0 => outgoing'[i] = outgoing[i]
    BY <1>2, <2>1, <2>2
  <2>4. \A i \in Nodes : Len(outgoing'[i]) <= QueueLength
    BY <2>1, <2>2, <2>3
  <2> QED BY <2>3, <2>4 DEF t, Remotes
<1>6. QueuesTyped' BY <1>1, <1>4, <1>5 DEF QueuesTyped
<1>7. Frames(outgoing'[0]) \subseteq R0 BY <1>3, <1>5 DEF Carry
<1>8. Carry(H, W, R0, R)' BY <1>1, <1>3, <1>4, <1>5, <1>7 DEF Carry
<1> QED BY <1>6, <1>8

LEMMA UartReplyCarries ==
  ASSUME NEW H, NEW W, NEW R0, NEW R \in SUBSET Frame,
         QueuesTyped, Carry(H, W, R0, R), NEW s \in Remotes, UartReply(s),
         \A f \in R : OnWire(f) \in R
  PROVE  QueuesTyped' /\ Carry(H, W, R0, R)'
<1> DEFINE q == outgoing[s]
           L == {0} \cup {j \in Remotes \ {s} : Powered(j)}
           w == OnWire(outgoing[s][1])
<1>1. /\ q # <<>> /\ outgoing' = [outgoing EXCEPT ![s] = Tail(q)]
      /\ UNCHANGED ext_outgoing
  BY DEF UartReply
<1>2. PICK copies \in Copies(L) :
        /\ ext_incoming' = Delivered(ext_incoming, w, copies[0])
        /\ incoming' = [j \in Nodes |->
             IF j \in DOMAIN copies \ {0}
             THEN Delivered(incoming[j], w, copies[j]) ELSE incoming[j]]
  BY DEF UartReply
<1>3. q \in Seq(Frame) /\ Len(q) <= QueueLength /\ s \in Nodes /\ s # 0
  BY DEF QueuesTyped, Remotes
<1>4. /\ w \in R /\ w \in Frame
      /\ Tail(q) \in Seq(Frame) /\ Frames(Tail(q)) \subseteq Frames(q)
      /\ Len(Tail(q)) <= QueueLength
  <2>1. /\ q[1] \in Frames(q) /\ Tail(q) \in Seq(Frame)
        /\ Frames(Tail(q)) \subseteq Frames(q)
        /\ Len(Tail(q)) = Len(q) - 1 /\ Len(q) \in Nat \ {0}
    BY <1>1, <1>3, Taken
  <2>2. w \in R BY <2>1 DEF Carry
  <2> QED BY <1>3, <2>1, <2>2, SwitchesAssumption
<1>5. DOMAIN copies = L /\ \A i \in L : copies[i] \in {0, 1, 2}
  BY CopiesOf
<1>6. /\ ext_incoming' \in Seq(Frame) /\ Len(ext_incoming') <= QueueLength
      /\ Frames(ext_incoming') \subseteq Frames(ext_incoming) \cup {w}
  <2> HIDE DEF w, L
  <2>1. copies[0] \in {0, 1, 2} BY <1>5 DEF L
  <2> DEFINE n == copies[0]
  <2> HIDE DEF n
  <2>2. ext_incoming' = Delivered(ext_incoming, w, n) /\ n \in {0, 1, 2}
    BY <1>2, <2>1 DEF n
  <2> QED BY <1>4, <2>2, DeliveredAdds DEF QueuesTyped
<1>7. ASSUME NEW i \in Nodes
      PROVE  /\ incoming'[i] \in Seq(Frame) /\ Len(incoming'[i]) <= QueueLength
             /\ Frames(incoming'[i]) \subseteq Frames(incoming[i]) \cup {w}
             /\ i = 0 => incoming'[i] = incoming[i]
  <2>1. incoming[i] \in Seq(Frame) /\ Len(incoming[i]) <= QueueLength
    BY DEF QueuesTyped
  <2> HIDE DEF w
  <2>2. CASE i \notin L \ {0}
    <3>1. incoming'[i] = incoming[i] BY <1>2, <1>5, <2>2
    <3> QED BY <2>1, <3>1
  <2>3. CASE i \in L \ {0}
    <3> DEFINE n == copies[i]
    <3> HIDE DEF n
    <3>1. incoming'[i] = Delivered(incoming[i], w, n) /\ n \in {0, 1, 2}
      BY <1>2, <1>5, <2>3 DEF n
    <3>2. /\ Delivered(incoming[i], w, n) \in Seq(Frame)
          /\ Len(Delivered(incoming[i], w, n)) <= QueueLength
          /\ Frames(Delivered(incoming[i], w, n)) \subseteq Frames(incoming[i]) \cup {w}
      BY <1>4, <2>1, <3>1, DeliveredAdds
    <3> QED BY <2>3, <3>1, <3>2
  <2> QED BY <2>2, <2>3
<1>8. incoming' \in [Nodes -> Seq(Frame)]
  <2>1. incoming' = [i \in Nodes |-> incoming'[i]] BY <1>2
  <2> QED BY <1>7, <2>1
<1>9. /\ outgoing' \in [Nodes -> Seq(Frame)] /\ outgoing'[s] = Tail(q)
      /\ \A i \in Nodes : i # s => outgoing'[i] = outgoing[i]
      /\ \A i \in Nodes : Len(outgoing'[i]) <= QueueLength
  <2>1. outgoing \in [Nodes -> Seq(Frame)]
        /\ \A i \in Nodes : Len(outgoing[i]) <= QueueLength
    BY DEF QueuesTyped
  <2> DEFINE t == Tail(q)
  <2> HIDE DEF t
  <2>2. outgoing' = [outgoing EXCEPT ![s] = t] /\ t \in Seq(Frame) /\ Len(t) <= QueueLength
    BY <1>1, <1>4 DEF t
  <2>3. outgoing' \in [Nodes -> Seq(Frame)] /\ outgoing'[s] = t
        /\ \A i \in Nodes : i # s => outgoing'[i] = outgoing[i]
    BY <1>3, <2>1, <2>2
  <2>4. \A i \in Nodes : Len(outgoing'[i]) <= QueueLength
    BY <2>1, <2>2, <2>3
  <2> QED BY <2>3, <2>4 DEF t
<1>10. QueuesTyped' BY <1>1, <1>6, <1>7, <1>8, <1>9 DEF QueuesTyped
<1> HIDE DEF w
<1>11. \A i \in Remotes : Frames(outgoing'[i]) \subseteq R
  <2> SUFFICES ASSUME NEW i \in Remotes PROVE Frames(outgoing'[i]) \subseteq R
    OBVIOUS
  <2>1. CASE i = s BY <1>4, <1>9, <2>1 DEF Carry
  <2>2. CASE i # s BY <1>9, <2>2 DEF Carry, Remotes
  <2> QED BY <2>1, <2>2
<1>12. \A i \in Remotes : Frames(incoming'[i]) \subseteq W \cup R
  BY <1>4, <1>7 DEF Carry, Remotes
<1>13. incoming'[0] = incoming[0] /\ outgoing'[0] = outgoing[0]
  BY <1>3, <1>7, <1>9, NodesAssumption
<1> QED BY <1>1, <1>4, <1>6, <1>10, <1>11, <1>12, <1>13 DEF Carry

\* The head takes a frame that has arrived, or none (HeadTask::run).
LEMMA HeadTakes ==
  ASSUME NEW H, NEW W, NEW R0, NEW R,
         QueuesTyped, Carry(H, W, R0, R), HeadReceive
  PROVE  /\ UNCHANGED <<node, heard, incoming, outgoing>>
         /\ ext_incoming' \in Seq(Frame) /\ Len(ext_incoming') <= QueueLength
         /\ Frames(ext_incoming') \subseteq Frames(ext_incoming)
         /\ \/ receive(NoFrame)
            \/ \E f \in Frames(ext_incoming) \cap Frame \cap (R0 \cup R) : receive(f)
<1>0. /\ ext_incoming \in Seq(Frame) /\ Len(ext_incoming) <= QueueLength
      /\ QueueLength \in Nat /\ UNCHANGED <<node, heard, incoming, outgoing>>
  BY SwitchesAssumption DEF QueuesTyped, HeadReceive
<1>1. CASE receive(NoFrame) /\ UNCHANGED ext_incoming
  BY <1>0, <1>1
<1>2. CASE /\ ext_incoming # <<>>
           /\ receive(ext_incoming[1])
           /\ ext_incoming' = Tail(ext_incoming)
  <2> DEFINE q == ext_incoming
             t == Tail(ext_incoming)
             f == ext_incoming[1]
  <2>1. /\ f \in Frames(q) /\ t \in Seq(Frame) /\ Frames(t) \subseteq Frames(q)
        /\ Len(t) = Len(q) - 1 /\ Len(q) \in Nat \ {0}
    BY <1>0, <1>2, Taken
  <2>2. Frames(q) \subseteq R0 \cup R BY DEF Carry
  <2>3. Frames(q) \subseteq Frame BY <1>0, FramesTyped
  <2>4. receive(f) /\ ext_incoming' = t BY <1>2
  <2> HIDE DEF f, t
  <2>5. f \in Frames(q) \cap Frame \cap (R0 \cup R) BY <2>1, <2>2, <2>3
  <2>6. Len(t) <= QueueLength BY <1>0, <2>1
  <2> QED BY <1>0, <2>1, <2>4, <2>5, <2>6
<1> QED BY <1>1, <1>2 DEF HeadReceive

LEMMA HeadSends ==
  ASSUME NEW H, QueuesTyped, send_returned, Frames(ext_outgoing) \subseteq H,
         returned' = NoFrame \/ returned' \in H \cap Frame
  PROVE  /\ ext_outgoing' \in Seq(Frame) /\ Len(ext_outgoing') <= QueueLength
         /\ Frames(ext_outgoing') \subseteq H
<1>1. ext_outgoing \in Seq(Frame) /\ Len(ext_outgoing) <= QueueLength
      /\ QueueLength \in Nat /\ Len(ext_outgoing) \in Nat
  BY SwitchesAssumption DEF QueuesTyped
<1>2. CASE returned' = NoFrame BY <1>1, <1>2 DEF send_returned
<1>3. CASE returned' # NoFrame
  <2> DEFINE f == returned'
  <2> HIDE DEF f
  <2>1. /\ ext_outgoing' = Append(ext_outgoing, f) /\ f \in H /\ f \in Frame
        /\ Len(ext_outgoing) < QueueLength
    BY <1>3 DEF send_returned, f
  <2>2. /\ Append(ext_outgoing, f) \in Seq(Frame)
        /\ Len(Append(ext_outgoing, f)) = Len(ext_outgoing) + 1
        /\ Frames(Append(ext_outgoing, f)) = Frames(ext_outgoing) \cup {f}
    BY <1>1, <2>1, Added
  <2> QED BY <1>1, <2>1, <2>2
<1> QED BY <1>2, <1>3

\* What remains is carried on: the other steps take frames away or none.
LEMMA LessIsCarried ==
  ASSUME NEW H, NEW W, NEW R0, NEW R, QueuesTyped, Carry(H, W, R0, R),
         \/ UNCHANGED <<incoming, outgoing, ext_incoming, ext_outgoing>>
         \/ KillNodeTask \/ PowerCycle
  PROVE  QueuesTyped' /\ Carry(H, W, R0, R)'
<1>0. <<>> \in Seq(Frame) /\ Len(<<>>) <= QueueLength /\ Frames(<<>>) = {}
  BY SwitchesAssumption DEF Frames
<1>1. CASE UNCHANGED <<incoming, outgoing, ext_incoming, ext_outgoing>>
  BY <1>1 DEF QueuesTyped, Carry
<1>2. CASE KillNodeTask
  <2> DEFINE empty == <<>>
  <2> HIDE DEF empty
  <2>1. /\ incoming' = [i \in Nodes |-> IF i = 0 THEN incoming[0] ELSE empty]
        /\ outgoing' = [i \in Nodes |-> IF i = 0 THEN outgoing[0] ELSE empty]
        /\ UNCHANGED <<ext_incoming, ext_outgoing>>
        /\ empty \in Seq(Frame) /\ Len(empty) <= QueueLength /\ Frames(empty) = {}
    BY <1>0, <1>2 DEF KillNodeTask, empty
  <2>2. QueuesTyped' BY <2>1 DEF QueuesTyped
  <2>3. Carry(H, W, R0, R)' BY <2>1, NodesAssumption DEF Carry, Remotes
  <2> QED BY <2>2, <2>3
<1>3. CASE PowerCycle
  <2> DEFINE empty == <<>>
  <2> HIDE DEF empty
  <2>1. /\ incoming' = [i \in Nodes |-> empty] /\ outgoing' = [i \in Nodes |-> empty]
        /\ ext_incoming' = empty /\ ext_outgoing' = empty
        /\ empty \in Seq(Frame) /\ Len(empty) <= QueueLength /\ Frames(empty) = {}
    BY <1>0, <1>3 DEF PowerCycle, empty
  <2>2. QueuesTyped' BY <2>1 DEF QueuesTyped
  <2>3. Carry(H, W, R0, R)' BY <2>1, NodesAssumption DEF Carry, Remotes
  <2> QED BY <2>2, <2>3
<1> QED BY <1>1, <1>2, <1>3

-----------------------------------------------------------------------------
(***************************************************************************)
(* What a node does with a frame.                                          *)
(***************************************************************************)
NodeType ==
  [self_key : Keys, self_addr : Addr \cup {ADDR_UNSET}, status : ReportedStatus,
   solenoid : BOOLEAN, downstream : BOOLEAN]

\* In service a node has an address; power for the next node, and an open valve,
\* take a node in service.
SoundNode(n) ==
  /\ n \in NodeType
  /\ n.downstream \/ n.solenoid => n.status # "INITIALIZING"
  /\ n.status # "INITIALIZING" => n.self_addr # ADDR_UNSET

NodesSound ==
  /\ node \in [Nodes -> NodeType] /\ \A i \in Nodes : SoundNode(node[i])
  /\ heard \in [Nodes -> BOOLEAN]

\* A node n that gets msg becomes m and sends answer (SelfNode::handle_incoming_frame).
AddressedTo(n, msg) == n.self_addr # ADDR_UNSET /\ msg.address = n.self_addr
Answers(n, msg, m, answer) ==
  \/ m = n /\ answer = NoFrame
  \/ /\ n.status = "INITIALIZING" /\ msg.command = "DISCOVERY"
     /\ m = [n EXCEPT !.self_key = IF n.self_key = 0 THEN msg.key ELSE n.self_key]
     /\ answer = DiscoveryFrame(m.self_key, 2)
  \/ /\ n.status = "INITIALIZING" /\ msg.command = "ADDRESSING"
     /\ msg.key = n.self_key
     /\ m = [n EXCEPT !.self_addr = msg.address]
     /\ answer = AddressingFrame(n.self_key, msg.address)
  \/ /\ AddressedTo(n, msg) /\ msg.command = "ACK"
     /\ \/ m = [n EXCEPT !.status = "READY", !.downstream = TRUE]
        \/ faulty /\ m = [n EXCEPT !.status = "READY"]
     /\ answer = NoFrame
  \/ /\ AddressedTo(n, msg) /\ msg.command = "INIT_WATER_DURATIONS"
     /\ \/ n.status \notin {"READY", "WATERING"} /\ m = n
        \/ /\ n.status \in {"READY", "WATERING"}
           /\ \/ msg.duration # 0 /\ m = [n EXCEPT !.status = "WATERING", !.solenoid = TRUE]
              \/ msg.duration = 0 /\ m = [n EXCEPT !.status = "READY", !.solenoid = FALSE]
              \/ m = [n EXCEPT !.status = "ERR"]
     /\ answer = AckFrame(n.self_addr)
  \/ /\ AddressedTo(n, msg) /\ msg.command = "STATUS"
     /\ m = n
     /\ answer = StatusReply(n.self_addr, n.status)

\* The queue that node i reads has lost its first frame, the one it writes has got
\* the answer.
LEMMA NodeTakes ==
  ASSUME NEW H, NEW W, NEW R0, NEW R,
         QueuesTyped, NodesSound, Carry(H, W, R0, R), NEW i \in Nodes, NodeReceive(i)
  PROVE  \E msg \in Frame : \E answer :
           /\ msg = incoming[i][1] /\ msg \in Frames(incoming[i])
           /\ incoming[i] # <<>> /\ Powered(i)
           /\ msg \in (IF i = 0 THEN H ELSE W \cup R)
           /\ Answers(node[i], msg, node'[i], answer)
           /\ node' = [node EXCEPT ![i] = node'[i]]
           /\ incoming' = [incoming EXCEPT ![i] = Tail(incoming[i])]
           /\ \/ answer = NoFrame /\ UNCHANGED outgoing
              \/ /\ answer # NoFrame
                 /\ outgoing' = [outgoing EXCEPT ![i] = Append(outgoing[i], answer)]
                 /\ Len(outgoing[i]) < QueueLength
           /\ heard' = [heard EXCEPT ![i] = TRUE]
           /\ UNCHANGED <<allVars, ext_incoming, ext_outgoing>>
<1> DEFINE msg == incoming[i][1]
<1>1. /\ incoming[i] # <<>> /\ Line!handle_incoming_frame(i, Head(incoming[i]))
      /\ incoming' = [incoming EXCEPT ![i] = Tail(incoming[i])]
      /\ heard' = [heard EXCEPT ![i] = TRUE] /\ Powered(i)
      /\ UNCHANGED <<allVars, ext_incoming, ext_outgoing>>
  BY DEF NodeReceive, Line!receive
<1>2. incoming[i] \in Seq(Frame) BY DEF QueuesTyped
<1>3. msg \in Frames(incoming[i]) /\ Head(incoming[i]) = msg
  BY <1>1, <1>2, Taken
<1>4. msg \in Frame /\ msg \in (IF i = 0 THEN H ELSE W \cup R)
  BY <1>2, <1>3, FramesTyped DEF Carry, Remotes
<1> HIDE DEF msg
<1>5. Line!handle_incoming_frame(i, msg) BY <1>1, <1>3
<1> SUFFICES \E answer :
           /\ Answers(node[i], msg, node'[i], answer)
           /\ node' = [node EXCEPT ![i] = node'[i]]
           /\ \/ answer = NoFrame /\ UNCHANGED outgoing
              \/ /\ answer # NoFrame
                 /\ outgoing' = [outgoing EXCEPT ![i] = Append(outgoing[i], answer)]
                 /\ Len(outgoing[i]) < QueueLength
  BY <1>1, <1>3, <1>4 DEF msg
<1> DEFINE Effect(answer) ==
           /\ Answers(node[i], msg, node'[i], answer)
           /\ node' = [node EXCEPT ![i] = node'[i]]
           /\ \/ answer = NoFrame /\ UNCHANGED outgoing
              \/ /\ answer # NoFrame
                 /\ outgoing' = [outgoing EXCEPT ![i] = Append(outgoing[i], answer)]
                 /\ Len(outgoing[i]) < QueueLength
<1> USE DEF Line!reply, AddressedTo, Line!ADDR_UNSET, ADDR_UNSET
<1>6. node \in [Nodes -> NodeType] /\ DOMAIN node = Nodes BY DEF NodesSound
<1>7. node[i] \in NodeType BY <1>6
<1>8. \A n : n # NoFrame <=> n # [command |-> "NONE"] BY DEF NoFrame
<1>9. CASE UNCHANGED <<node, outgoing>>
  <2>1. Effect(NoFrame) BY <1>6, <1>9 DEF Answers
  <2> QED BY <2>1
<1>10. CASE /\ node[i].status = "INITIALIZING" /\ msg.command = "DISCOVERY"
            /\ Line!handle_unsynced_message(i, msg)
  <2> DEFINE key == IF node[i].self_key = 0 THEN msg.key ELSE node[i].self_key
  <2>1. /\ node' = [node EXCEPT ![i].self_key = key]
        /\ Line!reply(i, DiscoveryFrame(key, 2))
    BY <1>10 DEF Line!handle_unsynced_message, Line!DiscoveryFrame, DiscoveryFrame
  <2>2. node'[i] = [node[i] EXCEPT !.self_key = key] /\ node'[i].self_key = key
    BY <1>6, <1>7, <2>1 DEF NodeType
  <2>3. DiscoveryFrame(key, 2) # NoFrame BY DEF DiscoveryFrame, NoFrame
  <2>4. Effect(DiscoveryFrame(key, 2)) BY <1>6, <1>10, <2>1, <2>2, <2>3 DEF Answers
  <2> QED BY <2>4
<1>11. CASE /\ node[i].status = "INITIALIZING" /\ msg.command = "ADDRESSING"
            /\ Line!handle_unsynced_message(i, msg)
  <2>0. CASE UNCHANGED <<node, outgoing>> BY <1>9, <2>0
  <2> SUFFICES ASSUME ~ UNCHANGED <<node, outgoing>>
               PROVE  \E answer : Effect(answer)
    BY <2>0
  <2>1. /\ node' = [node EXCEPT ![i].self_addr = msg.address] /\ msg.key = node[i].self_key
        /\ Line!reply(i, AddressingFrame(node[i].self_key, msg.address))
    BY <1>11 DEF Line!handle_unsynced_message, Line!AddressingFrame, AddressingFrame
  <2>2. node'[i] = [node[i] EXCEPT !.self_addr = msg.address]
    BY <1>6, <2>1
  <2>3. AddressingFrame(node[i].self_key, msg.address) # NoFrame
    BY DEF AddressingFrame, NoFrame
  <2>4. Effect(AddressingFrame(node[i].self_key, msg.address))
    BY <1>6, <1>11, <2>1, <2>2, <2>3 DEF Answers
  <2> QED BY <2>4
<1>12. CASE /\ AddressedTo(node[i], msg) /\ msg.command = "ACK"
            /\ Line!complete_initialization(i) /\ UNCHANGED outgoing
  <2>1. /\ \/ node'[i] = [node[i] EXCEPT !.status = "READY", !.downstream = TRUE]
           \/ faulty /\ node'[i] = [node[i] EXCEPT !.status = "READY"]
        /\ node' = [node EXCEPT ![i] = node'[i]]
    BY <1>6, <1>12 DEF Line!complete_initialization
  <2>2. Effect(NoFrame) BY <1>12, <2>1 DEF Answers
  <2> QED BY <2>2
<1>13. CASE /\ AddressedTo(node[i], msg) /\ msg.command = "INIT_WATER_DURATIONS"
            /\ Line!initialize_watering(i, msg.duration)
  <2>1. Line!reply(i, AckFrame(node[i].self_addr))
    BY <1>13 DEF Line!initialize_watering, Line!AckFrame, AckFrame
  <2>2. AckFrame(node[i].self_addr) # NoFrame BY DEF AckFrame, NoFrame
  <2>3. \/ node[i].status \notin {"READY", "WATERING"} /\ UNCHANGED node
        \/ /\ node[i].status \in {"READY", "WATERING"}
           /\ \/ /\ msg.duration # 0
                 /\ node' = [node EXCEPT ![i].status = "WATERING", ![i].solenoid = TRUE]
              \/ /\ msg.duration = 0
                 /\ node' = [node EXCEPT ![i].status = "READY", ![i].solenoid = FALSE]
              \/ node' = [node EXCEPT ![i].status = "ERR"]
    BY <1>13 DEF Line!initialize_watering, Line!activate_hose, Line!conclude_watering,
       Line!switch_valve
  <2>4. /\ \/ node[i].status \notin {"READY", "WATERING"} /\ node'[i] = node[i]
           \/ /\ node[i].status \in {"READY", "WATERING"}
              /\ \/ /\ msg.duration # 0
                    /\ node'[i] = [node[i] EXCEPT !.status = "WATERING", !.solenoid = TRUE]
                 \/ /\ msg.duration = 0
                    /\ node'[i] = [node[i] EXCEPT !.status = "READY", !.solenoid = FALSE]
                 \/ node'[i] = [node[i] EXCEPT !.status = "ERR"]
        /\ node' = [node EXCEPT ![i] = node'[i]]
    BY <1>6, <2>3
  <2>5. Effect(AckFrame(node[i].self_addr)) BY <1>13, <2>1, <2>2, <2>4 DEF Answers
  <2> QED BY <2>5
<1>14. CASE /\ AddressedTo(node[i], msg) /\ msg.command = "STATUS"
            /\ Line!reply(i, StatusReply(node[i].self_addr, node[i].status))
            /\ UNCHANGED node
  <2>1. StatusReply(node[i].self_addr, node[i].status) # NoFrame
    BY DEF StatusReply, NoFrame
  <2>2. Effect(StatusReply(node[i].self_addr, node[i].status))
    BY <1>6, <1>14, <2>1 DEF Answers
  <2> QED BY <2>2
<1> QED BY <1>5, <1>9, <1>10, <1>11, <1>12, <1>13, <1>14
        DEF Line!handle_incoming_frame, Line!handle_unsynced_message, Line!StatusReply,
            StatusReply

\* Node i takes a frame from its queue, and puts its answer, if any, in the other.
Taking(i) ==
  incoming[i] # <<>> /\ incoming' = [incoming EXCEPT ![i] = Tail(incoming[i])]
Putting(i, answer, S) ==
  \/ answer = NoFrame /\ UNCHANGED outgoing
  \/ /\ outgoing' = [outgoing EXCEPT ![i] = Append(outgoing[i], answer)]
     /\ Len(outgoing[i]) < QueueLength
     /\ answer \in S

LEMMA NodeCarries ==
  ASSUME NEW H, NEW W, NEW R0 \in SUBSET Frame, NEW R \in SUBSET Frame,
         QueuesTyped, Carry(H, W, R0, R), NEW i \in Nodes, NEW answer,
         Taking(i), Putting(i, answer, IF i = 0 THEN R0 ELSE R),
         UNCHANGED <<ext_incoming, ext_outgoing>>
  PROVE  QueuesTyped' /\ Carry(H, W, R0, R)'
<1> DEFINE q == incoming[i]
           t == Tail(incoming[i])
           p == outgoing[i]
           a == Append(outgoing[i], answer)
<1>1. /\ q \in Seq(Frame) /\ Len(q) <= QueueLength
      /\ p \in Seq(Frame) /\ Len(p) <= QueueLength
      /\ QueueLength \in Nat /\ Len(p) \in Nat
  BY SwitchesAssumption DEF QueuesTyped
<1>2. /\ t \in Seq(Frame) /\ Frames(t) \subseteq Frames(q)
      /\ Len(t) = Len(q) - 1 /\ Len(q) \in Nat \ {0}
  BY <1>1, Taken DEF Taking
<1>3. incoming' = [incoming EXCEPT ![i] = t] BY DEF Taking
<1>4. Len(t) <= QueueLength BY <1>1, <1>2
<1>5. UNCHANGED outgoing \/ (answer \in Frame /\ Len(p) < QueueLength
                             /\ answer \in (IF i = 0 THEN R0 ELSE R)
                             /\ outgoing' = [outgoing EXCEPT ![i] = a])
  BY DEF Putting
<1>6. answer \in Frame => /\ a \in Seq(Frame) /\ Len(a) = Len(p) + 1
                          /\ Frames(a) = Frames(p) \cup {answer}
  BY <1>1, Added
<1> HIDE DEF t, a
<1>7. /\ incoming' \in [Nodes -> Seq(Frame)]
      /\ \A j \in Nodes : /\ Len(incoming'[j]) <= QueueLength
                          /\ Frames(incoming'[j]) \subseteq Frames(incoming[j])
  BY <1>2, <1>3, <1>4 DEF QueuesTyped
<1>8. /\ outgoing' \in [Nodes -> Seq(Frame)]
      /\ \A j \in Nodes : /\ Len(outgoing'[j]) <= QueueLength
                          /\ Frames(outgoing'[j]) \subseteq Frames(outgoing[j])
                                \cup (IF j = 0 THEN R0 ELSE R)
  <2>1. CASE UNCHANGED outgoing BY <2>1 DEF QueuesTyped
  <2>2. CASE /\ answer \in Frame /\ Len(p) < QueueLength
             /\ answer \in (IF i = 0 THEN R0 ELSE R)
             /\ outgoing' = [outgoing EXCEPT ![i] = a]
    <3>1. a \in Seq(Frame) /\ Len(a) <= QueueLength
      BY <1>1, <1>6, <2>2
    <3>2. Frames(a) \subseteq Frames(p) \cup (IF i = 0 THEN R0 ELSE R)
      BY <1>6, <2>2
    <3> QED BY <2>2, <3>1, <3>2 DEF QueuesTyped
  <2> QED BY <1>5, <2>1, <2>2
<1>9. QueuesTyped' BY <1>7, <1>8 DEF QueuesTyped
<1>10. Frames(incoming'[0]) \subseteq H /\ Frames(outgoing'[0]) \subseteq R0
  BY <1>7, <1>8, NodesAssumption DEF Carry
<1>11. ASSUME NEW j \in Remotes
       PROVE  Frames(incoming'[j]) \subseteq W \cup R /\ Frames(outgoing'[j]) \subseteq R
  <2>1. j \in Nodes /\ j # 0 BY DEF Remotes
  <2>2. Frames(incoming[j]) \subseteq W \cup R /\ Frames(outgoing[j]) \subseteq R
    BY DEF Carry
  <2> QED BY <1>7, <1>8, <2>1, <2>2
<1> QED BY <1>9, <1>10, <1>11 DEF Carry

\* The fields of a frame (Protocol).
LEMMA FrameFields ==
  ASSUME NEW f \in Frame
  PROVE  /\ f # NoFrame
         /\ f.command \in {"DISCOVERY", "ADDRESSING"} => f.key \in Keys
         /\ f.command # "DISCOVERY" => f.address \in Addr /\ f.address # ADDR_UNSET
BY MaxNodesAssumption
   DEF Frame, HeadFrame, Reply, DiscoveryFrame, AddressingFrame, AckFrame, WateringFrame,
       StatusFrame, StatusReply, NoFrame, ADDR_UNSET, Addr

\* What a frame and its answer leave of a node is sound, and the answer is a reply.
LEMMA AnswerIsSound ==
  ASSUME NEW n, SoundNode(n), NEW msg \in Frame, NEW m, NEW answer, Answers(n, msg, m, answer)
  PROVE  SoundNode(m) /\ answer \in Reply \cup {NoFrame}
<1>1. /\ msg.command \in {"DISCOVERY", "ADDRESSING"} => msg.key \in Keys
      /\ msg.command # "DISCOVERY" => msg.address \in Addr /\ msg.address # ADDR_UNSET
  BY FrameFields
<1>2. n \in NodeType BY DEF SoundNode
<1>3. CASE m = n /\ answer = NoFrame BY <1>3
<1>4. CASE /\ n.status = "INITIALIZING" /\ msg.command = "DISCOVERY"
           /\ m = [n EXCEPT !.self_key = IF n.self_key = 0 THEN msg.key ELSE n.self_key]
           /\ answer = DiscoveryFrame(m.self_key, 2)
  <2>1. m.self_key \in Keys BY <1>1, <1>2, <1>4 DEF NodeType
  <2>2. SoundNode(m) BY <1>1, <1>2, <1>4, <2>1 DEF NodeType, SoundNode
  <2> QED BY <1>4, <2>1, <2>2 DEF Reply
<1>5. CASE /\ n.status = "INITIALIZING" /\ msg.command = "ADDRESSING"
           /\ msg.key = n.self_key
           /\ m = [n EXCEPT !.self_addr = msg.address]
           /\ answer = AddressingFrame(n.self_key, msg.address)
  BY <1>1, <1>2, <1>5 DEF NodeType, SoundNode, Reply
<1>6. CASE /\ AddressedTo(n, msg) /\ msg.command = "ACK"
           /\ \/ m = [n EXCEPT !.status = "READY", !.downstream = TRUE]
              \/ faulty /\ m = [n EXCEPT !.status = "READY"]
           /\ answer = NoFrame
  BY <1>2, <1>6 DEF NodeType, SoundNode, AddressedTo, ReportedStatus
<1>7. CASE /\ AddressedTo(n, msg) /\ msg.command = "INIT_WATER_DURATIONS"
           /\ \/ n.status \notin {"READY", "WATERING"} /\ m = n
              \/ /\ n.status \in {"READY", "WATERING"}
                 /\ \/ msg.duration # 0 /\ m = [n EXCEPT !.status = "WATERING", !.solenoid = TRUE]
                    \/ msg.duration = 0 /\ m = [n EXCEPT !.status = "READY", !.solenoid = FALSE]
                    \/ m = [n EXCEPT !.status = "ERR"]
           /\ answer = AckFrame(n.self_addr)
  <2>1. n.self_addr \in Addr BY <1>1, <1>7 DEF AddressedTo
  <2>2. SoundNode(m) BY <1>2, <1>7 DEF NodeType, SoundNode, ReportedStatus
  <2> QED BY <1>7, <2>1, <2>2 DEF Reply
<1>8. CASE /\ AddressedTo(n, msg) /\ msg.command = "STATUS" /\ m = n
           /\ answer = StatusReply(n.self_addr, n.status)
  BY <1>1, <1>2, <1>8 DEF AddressedTo, Reply, NodeType
<1> QED BY <1>3, <1>4, <1>5, <1>6, <1>7, <1>8 DEF Answers

\* The end of a watering time.
Expired(n, m) ==
  /\ n.status = "WATERING"
  /\ \/ m = [n EXCEPT !.status = "READY", !.solenoid = FALSE]
     \/ m = [n EXCEPT !.status = "ERR"]

LEMMA NodeExpires ==
  ASSUME NodesSound, NEW i \in Nodes, NodeExpire(i)
  PROVE  /\ Expired(node[i], node'[i]) /\ node' = [node EXCEPT ![i] = node'[i]]
         /\ SoundNode(node'[i])
         /\ UNCHANGED <<allVars, heard, incoming, outgoing, ext_incoming, ext_outgoing>>
<1>1. /\ node[i].status = "WATERING"
      /\ \/ node' = [node EXCEPT ![i].status = "READY", ![i].solenoid = FALSE]
         \/ node' = [node EXCEPT ![i].status = "ERR"]
  BY DEF NodeExpire, Line!process_watering_schedule, Line!conclude_watering, Line!switch_valve
<1>2. node \in [Nodes -> NodeType] /\ node[i] \in NodeType /\ SoundNode(node[i])
  BY DEF NodesSound
<1>3. Expired(node[i], node'[i]) /\ node' = [node EXCEPT ![i] = node'[i]]
  BY <1>1, <1>2 DEF Expired
<1>4. SoundNode(node'[i])
  <2> DEFINE n == node[i]
             m == node'[i]
  <2> HIDE DEF n, m
  <2>1. n \in NodeType /\ SoundNode(n) /\ Expired(n, m) BY <1>2, <1>3 DEF n, m
  <2>2. SoundNode(m) BY <2>1 DEF Expired, SoundNode, NodeType, ReportedStatus
  <2> QED BY <2>2 DEF m
<1> QED BY <1>3, <1>4 DEF NodeExpire, Line!process_watering_schedule

-----------------------------------------------------------------------------
(***************************************************************************)
(* Every step of the system.                                               *)
(***************************************************************************)
\* What is under way stays within sets that are closed under what the head
\* sends, what the line makes of it and what the nodes answer.
LEMMA CarryStep ==
  ASSUME NEW H \in SUBSET Frame, NEW W \in SUBSET Frame,
         NEW R0 \in SUBSET Frame, NEW R \in SUBSET Frame,
         QueuesTyped, NodesSound, Carry(H, W, R0, R), [SystemNext]_<<systemVars, faulty>>,
         HeadReceive \/ HeadAct => returned' \in H \cup {NoFrame},
         Listening # {} => \A f \in H : OnWire(f) \in W,
         \A f \in R : OnWire(f) \in R,
         \A i \in Nodes : \A f \in Frame : \A answer :
           /\ NodeReceive(i) /\ f \in Frames(incoming[i]) /\ f = incoming[i][1]
           /\ Answers(node[i], f, node'[i], answer)
           /\ answer # NoFrame
           => answer \in (IF i = 0 THEN R0 ELSE R)
  PROVE  QueuesTyped' /\ Carry(H, W, R0, R)'
<1>1. CASE HeadReceive
  <2>1. /\ UNCHANGED <<node, heard, incoming, outgoing>>
        /\ ext_incoming' \in Seq(Frame) /\ Len(ext_incoming') <= QueueLength
        /\ Frames(ext_incoming') \subseteq Frames(ext_incoming)
    BY <1>1, HeadTakes
  <2>2. send_returned /\ (returned' = NoFrame \/ returned' \in H \cap Frame)
    BY <1>1 DEF HeadReceive
  <2>3. Frames(ext_outgoing) \subseteq H BY DEF Carry
  <2>4. /\ ext_outgoing' \in Seq(Frame) /\ Len(ext_outgoing') <= QueueLength
        /\ Frames(ext_outgoing') \subseteq H
    BY <2>2, <2>3, HeadSends
  <2> QED BY <2>1, <2>4 DEF QueuesTyped, Carry
<1>2. CASE HeadAct
  <2>1. UNCHANGED <<incoming, outgoing, ext_incoming>> BY <1>2 DEF HeadAct
  <2>2. send_returned /\ (returned' = NoFrame \/ returned' \in H \cap Frame)
    BY <1>2 DEF HeadAct
  <2>3. Frames(ext_outgoing) \subseteq H BY DEF Carry
  <2>4. /\ ext_outgoing' \in Seq(Frame) /\ Len(ext_outgoing') <= QueueLength
        /\ Frames(ext_outgoing') \subseteq H
    BY <2>2, <2>3, HeadSends
  <2> QED BY <2>1, <2>4 DEF QueuesTyped, Carry
<1>3. CASE HeadServe \/ HostWrite \/ HostRead \/ (\E i \in Nodes : NodeExpire(i))
           \/ UNCHANGED <<systemVars, faulty>>
  <2>1. UNCHANGED <<incoming, outgoing, ext_incoming, ext_outgoing>>
    BY <1>3 DEF HeadServe, HostWrite, HostRead, NodeExpire, systemVars, busVars,
       Line!process_watering_schedule
  <2> QED BY <2>1, LessIsCarried
<1>4. CASE KillNodeTask \/ PowerCycle BY <1>4, LessIsCarried
<1>5. CASE UartSend BY <1>5, UartSendCarries
<1>6. CASE UartLocal BY <1>6, UartLocalCarries
<1>7. ASSUME NEW i \in Remotes, UartReply(i) PROVE QueuesTyped' /\ Carry(H, W, R0, R)'
  BY <1>7, UartReplyCarries
<1>8. ASSUME NEW i \in Nodes, NodeReceive(i) PROVE QueuesTyped' /\ Carry(H, W, R0, R)'
  <2>1. PICK msg, answer :
           /\ msg \in Frame /\ msg \in Frames(incoming[i]) /\ incoming[i] # <<>>
           /\ msg = incoming[i][1]
           /\ Answers(node[i], msg, node'[i], answer)
           /\ incoming' = [incoming EXCEPT ![i] = Tail(incoming[i])]
           /\ \/ answer = NoFrame /\ UNCHANGED outgoing
              \/ /\ answer # NoFrame
                 /\ outgoing' = [outgoing EXCEPT ![i] = Append(outgoing[i], answer)]
                 /\ Len(outgoing[i]) < QueueLength
           /\ UNCHANGED <<ext_incoming, ext_outgoing>>
    BY <1>8, NodeTakes
  <2>2. answer # NoFrame => answer \in (IF i = 0 THEN R0 ELSE R)
    BY <1>8, <2>1
  <2>3. Taking(i) BY <2>1 DEF Taking
  <2>4. Putting(i, answer, IF i = 0 THEN R0 ELSE R) BY <2>1, <2>2 DEF Putting
  <2> QED BY <2>1, <2>3, <2>4, NodeCarries
<1> QED BY <1>1, <1>2, <1>3, <1>4, <1>5, <1>6, <1>7, <1>8 DEF SystemNext, HeadSteps

\* A node that has just started.
LEMMA NewNodeSound == SoundNode(Line!NewSelfNode)
BY KeysAssumption
   DEF Line!NewSelfNode, Line!ADDR_UNSET, ADDR_UNSET, SoundNode, NodeType, ReportedStatus

\* Of what the head sends only a DISCOVERY loses its key on the wire, because it
\* says that it has no data; what the nodes answer arrives as it is.
LEMMA WireHead ==
  ASSUME NEW f \in HeadFrame
  PROVE  /\ OnWire(f) \in HeadFrame
         /\ f.command = "DISCOVERY" => OnWire(f) = DiscoveryFrame(0, 0)
         /\ f.command # "DISCOVERY" => OnWire(f) = f
<1> USE DEF OnWire, reconstruct_uart_message, prepare_bytes
<1>1. ASSUME NEW k \in Keys, f = DiscoveryFrame(k, 0)
      PROVE  OnWire(f) = DiscoveryFrame(0, 0) /\ f.command = "DISCOVERY"
  <2>1. prepare_bytes(f) = [command |-> "DISCOVERY", address |-> ADDR_UNSET, data_length |-> 0]
    BY <1>1 DEF DiscoveryFrame
  <2> QED BY <1>1, <2>1 DEF DiscoveryFrame
<1>2. ASSUME NEW k \in Keys, NEW a \in Addr, f = AddressingFrame(k, a)
      PROVE  OnWire(f) = f /\ f.command # "DISCOVERY"
  BY <1>2 DEF AddressingFrame
<1>3. ASSUME NEW a \in Addr, f = AckFrame(a)
      PROVE  OnWire(f) = f /\ f.command # "DISCOVERY"
  BY <1>3 DEF AckFrame
<1>4. ASSUME NEW a \in Addr, NEW d \in Durations, f = WateringFrame(a, d)
      PROVE  OnWire(f) = f /\ f.command # "DISCOVERY"
  BY <1>4 DEF WateringFrame
<1>5. ASSUME NEW a \in Addr, f = StatusFrame(a)
      PROVE  OnWire(f) = f /\ f.command # "DISCOVERY"
  BY <1>5 DEF StatusFrame
<1> HIDE DEF OnWire, reconstruct_uart_message, prepare_bytes
<1>6. DiscoveryFrame(0, 0) \in HeadFrame BY KeysAssumption DEF HeadFrame
<1>7. \/ \E k \in Keys : f = DiscoveryFrame(k, 0)
      \/ \E k \in Keys, a \in Addr : f = AddressingFrame(k, a)
      \/ \E a \in Addr : f = AckFrame(a) \/ f = StatusFrame(a)
      \/ \E a \in Addr, d \in Durations : f = WateringFrame(a, d)
  BY DEF HeadFrame
<1> QED BY <1>1, <1>2, <1>3, <1>4, <1>5, <1>6, <1>7

LEMMA WireReply ==
  ASSUME NEW f \in Reply
  PROVE  OnWire(f) = f
<1> USE DEF OnWire, reconstruct_uart_message, prepare_bytes
<1>1. ASSUME NEW k \in Keys, f = DiscoveryFrame(k, 2) PROVE OnWire(f) = f
  BY <1>1 DEF DiscoveryFrame
<1>2. ASSUME NEW k \in Keys, NEW a \in Addr, f = AddressingFrame(k, a) PROVE OnWire(f) = f
  BY <1>2 DEF AddressingFrame
<1>3. ASSUME NEW a \in Addr, f = AckFrame(a) PROVE OnWire(f) = f
  BY <1>3 DEF AckFrame
<1>4. ASSUME NEW a \in Addr, NEW s \in ReportedStatus, f = StatusReply(a, s)
      PROVE  OnWire(f) = f
  BY <1>4 DEF StatusReply
<1> QED BY <1>1, <1>2, <1>3, <1>4 DEF Reply

-----------------------------------------------------------------------------
(***************************************************************************)
(* The head of the system is the head of HeadTask, and so of Head.         *)
(***************************************************************************)
LEMMA RepliesArrive == Reply \subseteq IncomingFrame
BY DEF Reply, IncomingFrame

LEMMA HeadRuns ==
  ASSUME QueuesTyped, Carry(HeadFrame, HeadFrame, Reply, Reply),
         [SystemNext]_<<systemVars, faulty>>
  PROVE  [TaskNext]_allVars \/ restart
<1>1. CASE HeadReceive
  <2>1. \/ receive(NoFrame)
        \/ \E f \in Frames(ext_incoming) \cap Frame \cap (Reply \cup Reply) : receive(f)
    BY <1>1, HeadTakes
  <2> QED BY <2>1, RepliesArrive DEF TaskNext, HeadLoop
<1>2. CASE HeadAct BY <1>2 DEF HeadAct, TaskNext, HeadLoop
<1>3. CASE HeadServe BY <1>3 DEF HeadServe, TaskNext, HeadLoop
<1>4. CASE KillNodeTask BY <1>4 DEF KillNodeTask, TaskNext, HeadLoop
<1>5. CASE UartSend \/ UartLocal \/ \E i \in Remotes : UartReply(i)
  BY <1>5 DEF UartSend, UartLocal, UartReply
<1>6. CASE \E i \in Nodes : NodeReceive(i) \/ NodeExpire(i)
  BY <1>6 DEF NodeReceive, NodeExpire
<1>7. CASE HostWrite BY <1>7 DEF HostWrite, TaskNext
<1>8. CASE HostRead BY <1>8 DEF HostRead, TaskNext
<1>9. CASE PowerCycle BY <1>9 DEF PowerCycle
<1>10. CASE UNCHANGED <<systemVars, faulty>> BY <1>10 DEF systemVars
<1> QED BY <1>1, <1>2, <1>3, <1>4, <1>5, <1>6, <1>7, <1>8, <1>9, <1>10
        DEF SystemNext, HeadSteps

LEMMA HeadMoves ==
  ASSUME Mailed, [TaskNext]_allVars \/ restart
  PROVE  [Next]_vars /\ Mailed'
<1>1. CASE [TaskNext]_allVars BY <1>1, TaskStep, MailedStep
<1>2. CASE restart
  BY <1>2 DEF restart, Next, Mailed, Request, PairingRequest
<1> QED BY <1>1, <1>2

\* What the head answers, and what it sends of its own accord.
LEMMA HeadAnswers ==
  ASSUME IInv, NEW f \in Reply, handle_incoming_frame(f)
  PROVE  returned' \in HeadFrame \cup {NoFrame}
<1>1. f \in Frame BY DEF Frame
<1>2. /\ f.command \in {"DISCOVERY", "ADDRESSING"} => f.key \in Keys
      /\ f.command # "DISCOVERY" => f.address \in Addr
  BY <1>1, FrameFields
<1>3. CASE f.command = "DISCOVERY" /\ handle_discovery(f.key)
  BY <1>2, <1>3 DEF handle_discovery, create_addressing_frame, HeadFrame
<1>4. CASE f.command = "ADDRESSING" /\ handle_addressing(f.key, f.address)
  BY <1>2, <1>4 DEF handle_addressing, create_addressing_frame, HeadFrame, Panic
<1>5. CASE f.command = "ACK" /\ handle_ack(f.address)
  BY <1>5 DEF handle_ack, Panic
<1>6. CASE f.command = "STATUS" /\ handle_incoming_node_status(f.address, f.status)
  BY <1>6 DEF handle_incoming_node_status, Panic
<1> QED BY <1>3, <1>4, <1>5, <1>6 DEF handle_incoming_frame

LEMMA HeadCommands ==
  ASSUME IInv, next_watering_frame
  PROVE  \/ returned' = NoFrame
         \/ /\ active_watering_index # NoIndex /\ Exists(active_watering_index)
            /\ get_node_status(active_watering_index) \in {"IN_QUEUE", "COMMAND_SENT"}
            /\ get_node_status(active_watering_index)' = "COMMAND_SENT"
            /\ \E d \in Durations : returned' = WateringFrame(active_watering_index, d)
         \/ /\ active_watering_index # NoIndex /\ Exists(active_watering_index)
            /\ get_node_status(active_watering_index) = "WATERING"
            /\ get_node_status(active_watering_index)' = "WATERING"
            /\ returned' = StatusFrame(active_watering_index)
<1> DEFINE i == active_watering_index
<1>1. CASE /\ i # NoIndex /\ Exists(i) /\ get_node_status(i) = "IN_QUEUE"
           /\ node_link' = [node_link EXCEPT ![i].node_status = "COMMAND_SENT"]
           /\ returned' = create_watering_frame(i) /\ UNCHANGED roundVars
  <2>1. i \in Addr /\ node_link[i] \in Node BY <1>1, ExistingNode DEF IInv
  <2>2. node_link[i].hose_duration \in Durations BY <2>1 DEF Node
  <2>3. node_link'[i].node_status = "COMMAND_SENT" /\ active_watering_index' = i
    BY <1>1, <2>1 DEF IInv, TypeOK, Node, roundVars
  <2> QED BY <1>1, <2>2, <2>3 DEF create_watering_frame, get_node_status
<1>2. CASE /\ i # NoIndex /\ Exists(i)
           /\ get_node_status(i) \in {"COMMAND_SENT", "WATERING"} /\ RetryNode(i)
  <2>1. i \in Addr /\ node_link[i] \in Node BY <1>2, ExistingNode DEF IInv
  <2>2. node_link[i].hose_duration \in Durations BY <2>1 DEF Node
  <2> DEFINE tries == (node_link[i].retry_attempts + 1) % RetryWidth
  <2>3. \/ returned' = NoFrame
        \/ /\ node_link' = [node_link EXCEPT ![i].retry_attempts = tries]
           /\ returned' = IF get_node_status(i) = "COMMAND_SENT"
                          THEN create_watering_frame(i) ELSE create_status_frame(i)
           /\ UNCHANGED roundVars
    BY <1>2 DEF RetryNode
  <2> HIDE DEF tries
  <2>4. CASE /\ node_link' = [node_link EXCEPT ![i].retry_attempts = tries]
             /\ returned' = IF get_node_status(i) = "COMMAND_SENT"
                            THEN create_watering_frame(i) ELSE create_status_frame(i)
             /\ UNCHANGED roundVars
    <3>1. node_link'[i].node_status = node_link[i].node_status /\ active_watering_index' = i
      BY <2>1, <2>4 DEF IInv, TypeOK, Node, roundVars
    <3> QED BY <1>2, <2>2, <2>4, <3>1
            DEF create_watering_frame, create_status_frame, get_node_status
  <2> QED BY <2>3, <2>4
<1> QED BY <1>1, <1>2 DEF next_watering_frame

LEMMA HeadFramesSent ==
  ASSUME IInv, QueuesTyped, Carry(HeadFrame, HeadFrame, Reply, Reply),
         HeadReceive \/ HeadAct
  PROVE  returned' \in HeadFrame \cup {NoFrame}
<1>1. CASE HeadReceive
  <2>1. \/ receive(NoFrame)
        \/ \E f \in Frames(ext_incoming) \cap Frame \cap (Reply \cup Reply) : receive(f)
    BY <1>1, HeadTakes
  <2>2. CASE receive(NoFrame) BY <2>2 DEF receive
  <2>3. ASSUME NEW f \in Reply, receive(f) PROVE returned' \in HeadFrame \cup {NoFrame}
    <3>1. f # NoFrame BY FrameFields DEF Frame
    <3> QED BY <2>3, <3>1, HeadAnswers DEF receive
  <2> QED BY <2>1, <2>2, <2>3
<1>2. CASE HeadAct
  <2>1. ASSUME NEW key \in Keys, pair(key) PROVE returned' \in HeadFrame \cup {NoFrame}
    BY <2>1 DEF pair, process_pairing, HeadFrame
  <2>2. ASSUME NEW due, NEW phase, schedule(due, phase)
        PROVE  returned' \in HeadFrame \cup {NoFrame}
    BY <2>2 DEF schedule, process_watering_schedule
  <2>3. CASE command
    <3>1. active_watering_index \in Addr \cup {NoIndex} BY DEF IInv, TypeOK
    <3> QED BY <2>3, <3>1, HeadCommands DEF command, HeadFrame
  <2> QED BY <1>2, <2>1, <2>2, <2>3 DEF HeadAct
<1> QED BY <1>1, <1>2

\* A node answers as its type says.
LEMMA NodesSoundStep ==
  ASSUME NodesSound, QueuesTyped, Carry(HeadFrame, HeadFrame, Reply, Reply),
         [SystemNext]_<<systemVars, faulty>>
  PROVE  NodesSound'
<1>1. ASSUME NEW i \in Nodes, NodeReceive(i) PROVE NodesSound'
  <2>1. PICK msg, answer :
          /\ msg \in Frame
          /\ Answers(node[i], msg, node'[i], answer)
          /\ node' = [node EXCEPT ![i] = node'[i]]
          /\ heard' = [heard EXCEPT ![i] = TRUE]
    BY <1>1, NodeTakes
  <2>2. SoundNode(node[i]) BY DEF NodesSound
  <2>3. SoundNode(node'[i]) BY <2>1, <2>2, AnswerIsSound
  <2> DEFINE m == node'[i]
  <2> HIDE DEF m
  <2>4. node' = [node EXCEPT ![i] = m] /\ SoundNode(m) /\ m \in NodeType
    BY <2>1, <2>3 DEF m, SoundNode
  <2>5. node' \in [Nodes -> NodeType] BY <2>4 DEF NodesSound
  <2>6. \A j \in Nodes : SoundNode(node'[j]) BY <2>4 DEF NodesSound
  <2>7. heard' \in [Nodes -> BOOLEAN] BY <2>1 DEF NodesSound
  <2> QED BY <2>5, <2>6, <2>7 DEF NodesSound
<1>2. ASSUME NEW i \in Nodes, NodeExpire(i) PROVE NodesSound'
  <2> DEFINE m == node'[i]
  <2>1. node' = [node EXCEPT ![i] = m] /\ SoundNode(m) /\ UNCHANGED heard
    BY <1>2, NodeExpires
  <2> HIDE DEF m
  <2>2. m \in NodeType BY <2>1 DEF SoundNode
  <2>3. node' \in [Nodes -> NodeType] BY <2>1, <2>2 DEF NodesSound
  <2>4. \A j \in Nodes : SoundNode(node'[j]) BY <2>1, <2>2 DEF NodesSound
  <2> QED BY <2>1, <2>3, <2>4 DEF NodesSound
<1>3. CASE KillNodeTask \/ PowerCycle
  <2>1. /\ node' = [i \in Nodes |-> Line!NewSelfNode]
        /\ heard' = [i \in Nodes |-> FALSE]
    BY <1>3 DEF KillNodeTask, PowerCycle
  <2>2. SoundNode(Line!NewSelfNode) BY NewNodeSound
  <2>3. Line!NewSelfNode \in NodeType BY <2>2 DEF SoundNode
  <2> QED BY <2>1, <2>2, <2>3 DEF NodesSound
<1>4. CASE UNCHANGED <<node, heard>> BY <1>4 DEF NodesSound
<1>5. CASE HeadReceive \/ HeadAct \/ HeadServe \/ HostWrite \/ HostRead
           \/ UNCHANGED <<systemVars, faulty>>
  <2>1. UNCHANGED <<node, heard>>
    BY <1>5 DEF HeadReceive, HeadAct, HeadServe, HostWrite, HostRead, busVars, systemVars
  <2> QED BY <1>4, <2>1
<1>6. CASE UartSend \/ UartLocal \/ \E i \in Remotes : UartReply(i)
  <2>1. UNCHANGED <<node, heard>> BY <1>6 DEF UartSend, UartLocal, UartReply
  <2> QED BY <1>4, <2>1
<1> QED BY <1>1, <1>2, <1>3, <1>5, <1>6 DEF SystemNext, HeadSteps

-----------------------------------------------------------------------------
(***************************************************************************)
(* The invariant: the types of what is under way, and what HeadProofs      *)
(* keeps of the head.  They need each other: a frame that the head builds  *)
(* is of its type because the table is, and the head gets only frames that *)
(* Head allows for because the nodes send no others.                       *)
(***************************************************************************)
SystemInv ==
  /\ IInv /\ Mailed
  /\ NodesSound /\ QueuesTyped
  /\ Carry(HeadFrame, HeadFrame, Reply, Reply)

LEMMA WireKeepsType ==
  /\ \A f \in HeadFrame : OnWire(f) \in HeadFrame
  /\ \A f \in Reply : OnWire(f) = f
<1>1. ASSUME NEW f \in HeadFrame PROVE OnWire(f) \in HeadFrame
  BY <1>1, WireHead
<1>2. ASSUME NEW f \in Reply PROVE OnWire(f) = f
  BY <1>2, WireReply
<1> QED BY <1>1, <1>2

LEMMA NothingUnderWay ==
  ASSUME NEW H, NEW W, NEW R0, NEW R, Quiet
  PROVE  Carry(H, W, R0, R)
<1>1. Frames(<<>>) = {} BY DEF Frames
<1>2. /\ ext_outgoing = <<>> /\ ext_incoming = <<>>
      /\ \A i \in Nodes : incoming[i] = <<>> /\ outgoing[i] = <<>>
  BY DEF Quiet, Arrived
<1> QED BY <1>1, <1>2, NodesAssumption DEF Carry, Remotes

LEMMA StartsQuiet == SystemInit => Quiet
BY DEF SystemInit, Line!Init, Quiet, Arrived

LEMMA InitSystemInv == SystemInit => SystemInv
<1> SUFFICES ASSUME SystemInit PROVE SystemInv OBVIOUS
<1>1. IInv /\ Mailed BY InitIInv, InitMailed DEF SystemInit, TaskInit
<1>2. NodesSound
  <2>1. SoundNode(Line!NewSelfNode) BY NewNodeSound
  <2> QED BY <2>1 DEF SystemInit, Line!Init, NodesSound, SoundNode
<1>3. QueuesTyped
  <2>1. <<>> \in Seq(Frame) /\ Len(<<>>) <= QueueLength BY SwitchesAssumption
  <2> QED BY <2>1 DEF SystemInit, Line!Init, QueuesTyped
<1>4. Carry(HeadFrame, HeadFrame, Reply, Reply) BY StartsQuiet, NothingUnderWay
<1> QED BY <1>1, <1>2, <1>3, <1>4 DEF SystemInv

LEMMA SystemInvStep == SystemInv /\ [SystemNext]_<<systemVars, faulty>> => SystemInv'
<1> SUFFICES ASSUME SystemInv, [SystemNext]_<<systemVars, faulty>> PROVE SystemInv'
  OBVIOUS
<1>0. /\ IInv /\ Mailed /\ NodesSound /\ QueuesTyped
      /\ Carry(HeadFrame, HeadFrame, Reply, Reply)
  BY DEF SystemInv
<1>1. [TaskNext]_allVars \/ restart BY <1>0, HeadRuns
<1>2. [Next]_vars /\ Mailed' BY <1>0, <1>1, HeadMoves
<1>3. IInv' BY <1>0, <1>2, IInvStep
<1>4. NodesSound' BY <1>0, NodesSoundStep
<1>5. HeadReceive \/ HeadAct => returned' \in HeadFrame \cup {NoFrame}
  BY <1>0, HeadFramesSent
<1>6. ASSUME NEW i \in Nodes, NEW f \in Frame, NEW answer,
             Answers(node[i], f, node'[i], answer), answer # NoFrame
      PROVE  answer \in (IF i = 0 THEN Reply ELSE Reply)
  <2>1. SoundNode(node[i]) BY <1>0 DEF NodesSound
  <2> QED BY <1>6, <2>1, AnswerIsSound
<1>7. HeadFrame \in SUBSET Frame /\ Reply \in SUBSET Frame BY DEF Frame
<1>8. QueuesTyped' /\ Carry(HeadFrame, HeadFrame, Reply, Reply)'
  <2> DEFINE H == HeadFrame
             R == Reply
  <2>1. /\ \A f \in H : OnWire(f) \in H
        /\ \A f \in R : OnWire(f) \in R
    BY WireKeepsType
  <2>2. \A i \in Nodes : \A f \in Frame : \A answer :
           /\ NodeReceive(i) /\ f \in Frames(incoming[i]) /\ f = incoming[i][1]
           /\ Answers(node[i], f, node'[i], answer)
           /\ answer # NoFrame
           => answer \in (IF i = 0 THEN R ELSE R)
    BY <1>6
  <2>3. Carry(H, H, R, R) BY <1>0
  <2>4. HeadReceive \/ HeadAct => returned' \in H \cup {NoFrame} BY <1>5
  <2>5. H \in SUBSET Frame /\ R \in SUBSET Frame BY <1>7
  <2> HIDE DEF H, R
  <2>6. QueuesTyped' /\ Carry(H, H, R, R)'
    BY <1>0, <2>1, <2>2, <2>3, <2>4, <2>5, CarryStep
  <2> QED BY <2>6 DEF H, R
<1> QED BY <1>2, <1>3, <1>4, <1>8 DEF SystemInv

LEMMA SystemInvariance == SystemSpec => []SystemInv
BY InitSystemInv, SystemInvStep, PTL DEF SystemSpec

\* Every queue keeps to its length, every node to its type, and the head finds
\* no other frame than it is written for (protocol.hpp, queue.hpp): the
\* hypothesis on the environment under which Head and SelfNode are proved
\* correct, here of the two connected.
THEOREM SystemTypeCorrect == SystemSpec => []SystemTypeOK
<1>1. ASSUME SystemInv PROVE SystemTypeOK
  <2>1. NodesSound /\ QueuesTyped /\ Carry(HeadFrame, HeadFrame, Reply, Reply)
    BY <1>1 DEF SystemInv
  <2>2. Line!TypeOK
    <3>1. NodeType \subseteq Line!NodeRecord
      BY MaxNodesAssumption, KeysAssumption
         DEF NodeType, Line!NodeRecord, Addr, ADDR_UNSET, ReportedStatus
    <3> QED BY <2>1, <3>1 DEF Line!TypeOK, NodesSound, QueuesTyped
  <2>3. \A k \in DOMAIN ext_incoming : ext_incoming[k] \in IncomingFrame
    BY <2>1, RepliesArrive DEF Carry, Frames
  <2> QED BY <2>1, <2>2, <2>3 DEF SystemTypeOK, QueuesTyped
<1> QED BY <1>1, SystemInvariance, PTL
=============================================================================
