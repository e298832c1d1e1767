-------------------------------- MODULE Wire --------------------------------
(***************************************************************************)
(* What the serial line promises from one device to another: messages may  *)
(* be lost and may arrive more than once, and they arrive in the order in  *)
(* which they were sent; what was not sent does not arrive.  Each message  *)
(* is told apart from the others.                                          *)
(***************************************************************************)
EXTENDS Naturals, Sequences

CONSTANT Messages

VARIABLES
  sent,       \* the messages, as they were sent
  received    \* the messages, as they arrived

Init == sent = <<>> /\ received = <<>>

Send(m) ==
  /\ \A k \in DOMAIN sent : sent[k] # m
  /\ sent' = Append(sent, m)
  /\ UNCHANGED received

\* The next message to arrive is the last one to have arrived or a later one.
Receive(m) ==
  /\ \E k \in DOMAIN sent :
       /\ sent[k] = m
       /\ received # <<>> =>
            \E j \in 1 .. k : sent[j] = received[Len(received)]
  /\ received' = Append(received, m)
  /\ UNCHANGED sent

Next == \E m \in Messages : Send(m) \/ Receive(m)

Spec == Init /\ [][Next]_<<sent, received>>
=============================================================================
