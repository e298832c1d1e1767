--------------------------- MODULE HostLinkProofs ---------------------------
(***************************************************************************)
(* The link of the host for every number of commands, of writes and of     *)
(* connections: whatever the three tasks do to the mailboxes at the same   *)
(* time, requests are served in order and a pop passes over nothing that   *)
(* was there when it began, a host that awaits its answers gets them all,  *)
(* and the device stays within reach.                                      *)
(***************************************************************************)
EXTENDS HostLink, SequenceTheorems, TLAPS

USE CommandsAssumption, BoundsAssumption

\* id is the number of a write of command c.
WriteOf(c, id) == id \in 1 .. Len(wrote) /\ wrote[id] = c

WroteOK == wrote \in Seq(Cmd) /\ Len(wrote) <= MaxWrites

\* A slot that is filled holds a write of its command.
SlotsHoldWrites ==
  \A c \in Cmd : extRequests[c] # 0 => WriteOf(c, extRequests[c])

\* What the head has copied of a slot is no later than what the slot holds.
HeadHoldsWrites ==
  /\ head.at \in {"copy", "clear", "answer"} => WriteOf(head.cmd, head.item)
  /\ head.at = "copy" => head.item <= extRequests[head.cmd]
  /\ head.at \in {"clear", "answer"} =>
       WriteOf(head.cmd, head.rest) /\ head.item <= head.rest
  /\ head.at = "clear" => head.rest <= extRequests[head.cmd]
  /\ head.at = "answer" =>
       extRequests[head.cmd] = 0 \/ head.rest < extRequests[head.cmd]

\* What has been served is earlier than what its slot and the head hold.
ServedIsPast ==
  /\ served \in Seq(Nat \X Nat)
  /\ \A i \in DOMAIN served : \E c \in Cmd :
       /\ WriteOf(c, served[i][1]) /\ WriteOf(c, served[i][2])
       /\ served[i][1] <= served[i][2]
       /\ extRequests[c] = 0 \/ served[i][2] < extRequests[c]
       /\ head.at \in {"copy", "clear", "answer"} /\ head.cmd = c =>
            served[i][2] < head.item

IInv == /\ TypeOK /\ WroteOK /\ SlotsHoldWrites /\ HeadHoldsWrites
        /\ ServedIsPast /\ ServedInOrder

\* A link that is down advertises unless it has been refused to.
LEMMA LinkDown ==
  ASSUME NEW n \in 0 .. MaxDisconnects, NEW c \in start_advertising(n)
  PROVE  c \in Connection /\ (c.advertising \/ c.refused)
<1>1. PICK ok \in BOOLEAN :
        c = [connected |-> FALSE, subscribed |-> FALSE, advertising |-> ok,
             refused |-> ~ok, disconnects |-> n]
  BY DEF start_advertising
<1>2. CASE ok = TRUE BY <1>1, <1>2 DEF Connection
<1>3. CASE ok = FALSE BY <1>1, <1>3 DEF Connection
<1> QED BY <1>2, <1>3

LEMMA InitIInv == Init => IInv
<1> SUFFICES ASSUME Init PROVE IInv OBVIOUS
<1>1. 0 \in Cmd /\ EmptyBox \in [Cmd -> 0 .. MaxWrites] BY DEF Cmd, EmptyBox
<1>2. TypeOK
  <2>1. conn \in Connection BY LinkDown DEF Init
  <2>2. /\ head.at = "pop" /\ status.at = "wait"
        /\ head \in HeadState /\ status \in StatusState
    BY <1>1 DEF Init, HeadState, StatusState, FirstPop, Waiting
  <2> QED BY <1>1, <2>1, <2>2 DEF Init, TypeOK, Empty
<1>3. WroteOK BY DEF Init, WroteOK
<1>4. SlotsHoldWrites BY DEF Init, SlotsHoldWrites, EmptyBox
<1>5. HeadHoldsWrites BY DEF Init, HeadHoldsWrites, FirstPop
<1>6. ServedIsPast /\ ServedInOrder BY DEF Init, ServedIsPast, ServedInOrder
<1> QED BY <1>2, <1>3, <1>4, <1>5, <1>6 DEF IInv

\* Where a look leads, for either of the two tasks that search.
LEMMA HeadLooks ==
  ASSUME NEW queue \in [Cmd -> 0 .. MaxWrites], NEW task \in HeadState,
         NEW next, next = Look(queue, task, "copy", "count")
  PROVE  /\ next \in HeadState
         /\ \/ /\ queue[task.cmd] # 0 /\ next.at = "copy"
               /\ next.cmd = task.cmd /\ next.item = queue[task.cmd]
            \/ /\ queue[task.cmd] = 0 /\ next.at = task.at
               /\ next.cmd = task.cmd + 1
            \/ /\ queue[task.cmd] = 0 /\ next.at = "count"
               /\ task.cmd = Commands - 1
<1>1. /\ task.cmd \in 0 .. Commands - 1 /\ queue[task.cmd] \in 0 .. MaxWrites
      /\ 0 \in 0 .. Commands - 1
  BY DEF HeadState, Cmd
<1>2. CASE queue[task.cmd] # 0
  <2>1. next = [task EXCEPT !.at = "copy", !.item = queue[task.cmd]]
    BY <1>2 DEF Look
  <2> QED BY <1>1, <1>2, <2>1 DEF HeadState, Cmd
<1>3. CASE queue[task.cmd] = 0 /\ task.cmd < Commands - 1
  <2>1. next = [task EXCEPT !.cmd = @ + 1] BY <1>3 DEF Look
  <2>2. task.cmd + 1 \in 0 .. Commands - 1 BY <1>1, <1>3
  <2> QED BY <1>1, <1>3, <2>1, <2>2 DEF HeadState, Cmd
<1>4. CASE queue[task.cmd] = 0 /\ task.cmd = Commands - 1
  <2>1. next = [task EXCEPT !.at = "count", !.cmd = 0] BY <1>4 DEF Look
  <2> QED BY <1>1, <1>4, <2>1 DEF HeadState, Cmd
<1>5. queue[task.cmd] # 0 \/ task.cmd < Commands - 1 \/ task.cmd = Commands - 1
  BY <1>1
<1> QED BY <1>2, <1>3, <1>4, <1>5

LEMMA HeadCounts ==
  ASSUME NEW queue \in [Cmd -> 0 .. MaxWrites], NEW task \in HeadState,
         task.at = "count", NEW next, next = Look(queue, task, "notify", "notify")
  PROVE  next \in HeadState /\ next.at \in {"count", "notify"}
<1>1. /\ task.cmd \in 0 .. Commands - 1 /\ queue[task.cmd] \in 0 .. MaxWrites
      /\ 0 \in 0 .. Commands - 1
  BY DEF HeadState, Cmd
<1>2. CASE queue[task.cmd] # 0
  <2>1. next = [task EXCEPT !.at = "notify", !.item = queue[task.cmd]]
    BY <1>2 DEF Look
  <2> QED BY <1>1, <2>1 DEF HeadState, Cmd
<1>3. CASE queue[task.cmd] = 0 /\ task.cmd < Commands - 1
  <2>1. next = [task EXCEPT !.cmd = @ + 1] BY <1>3 DEF Look
  <2>2. task.cmd + 1 \in 0 .. Commands - 1 BY <1>1, <1>3
  <2> QED BY <1>1, <2>1, <2>2 DEF HeadState, Cmd
<1>4. CASE queue[task.cmd] = 0 /\ task.cmd = Commands - 1
  <2>1. next = [task EXCEPT !.at = "notify", !.cmd = 0] BY <1>4 DEF Look
  <2> QED BY <1>1, <2>1 DEF HeadState, Cmd
<1>5. queue[task.cmd] # 0 \/ task.cmd < Commands - 1 \/ task.cmd = Commands - 1
  BY <1>1
<1> QED BY <1>2, <1>3, <1>4, <1>5

LEMMA WaitingOK ==
  /\ Waiting \in StatusState
  /\ Waiting.at = "wait" /\ Waiting.cmd = 0 /\ Waiting.item = 0
<1>1. 0 \in Cmd /\ 0 \in 0 .. MaxWrites BY DEF Cmd
<1> QED BY <1>1 DEF Waiting, StatusState

LEMMA StatusLooks ==
  ASSUME NEW queue \in [Cmd -> 0 .. MaxWrites], NEW task \in StatusState,
         NEW next, next = Look(queue, task, "clear", "send")
  PROVE  /\ next \in StatusState
         /\ \/ /\ queue[task.cmd] # 0 /\ next.at = "clear"
               /\ next.cmd = task.cmd /\ next.item = queue[task.cmd]
            \/ /\ queue[task.cmd] = 0 /\ next.at = task.at
               /\ next.cmd = task.cmd + 1 /\ next.item = task.item
            \/ /\ queue[task.cmd] = 0 /\ next.at = "send"
               /\ task.cmd = Commands - 1 /\ next.item = task.item
<1>1. /\ task.cmd \in 0 .. Commands - 1 /\ queue[task.cmd] \in 0 .. MaxWrites
      /\ 0 \in 0 .. Commands - 1
  BY DEF StatusState, Cmd
<1>2. CASE queue[task.cmd] # 0
  <2>1. next = [task EXCEPT !.at = "clear", !.item = queue[task.cmd]]
    BY <1>2 DEF Look
  <2> QED BY <1>1, <1>2, <2>1 DEF StatusState, Cmd
<1>3. CASE queue[task.cmd] = 0 /\ task.cmd < Commands - 1
  <2>1. next = [task EXCEPT !.cmd = @ + 1] BY <1>3 DEF Look
  <2>2. task.cmd + 1 \in 0 .. Commands - 1 BY <1>1, <1>3
  <2> QED BY <1>1, <1>3, <2>1, <2>2 DEF StatusState, Cmd
<1>4. CASE queue[task.cmd] = 0 /\ task.cmd = Commands - 1
  <2>1. next = [task EXCEPT !.at = "send", !.cmd = 0] BY <1>4 DEF Look
  <2> QED BY <1>1, <1>4, <2>1 DEF StatusState, Cmd
<1>5. queue[task.cmd] # 0 \/ task.cmd < Commands - 1 \/ task.cmd = Commands - 1
  BY <1>1
<1> QED BY <1>2, <1>3, <1>4, <1>5

-----------------------------------------------------------------------------
\* A step that leaves the requests alone leaves all of this alone but the types.
RequestsStay == UNCHANGED <<extRequests, head, wrote, served>>

LEMMA Elsewhere ==
  ASSUME IInv, RequestsStay, TypeOK'
  PROVE  IInv'
BY DEF IInv, RequestsStay, WroteOK, SlotsHoldWrites, HeadHoldsWrites,
   ServedIsPast, ServedInOrder, WriteOf

\* The steps of the connection, of reads and of the status task.
LEMMA LinkSteps ==
  ASSUME IInv,
         connect \/ connect_failed \/ disconnect \/ subscribe \/ unrecognized
           \/ handle_reads \/ HostAnswer \/ StatusTask
  PROVE  IInv'
<1>0. TypeOK BY DEF IInv
<1>1. CASE connect \/ connect_failed \/ disconnect \/ subscribe
  <2>1. RequestsStay
    BY <1>1 DEF connect, connect_failed, disconnect, subscribe, LinkOnly, mail,
       tasks, history, RequestsStay
  <2>2. conn' \in Connection
    <3>1. CASE connect \/ subscribe
      BY <1>0, <3>1 DEF connect, subscribe, TypeOK, Connection
    <3>2. CASE connect_failed \/ disconnect
      <4>1. conn.disconnects \in 0 .. MaxDisconnects
        BY <1>0 DEF TypeOK, Connection
      <4>2. PICK n \in 0 .. MaxDisconnects : conn' \in start_advertising(n)
        BY <3>2, <4>1 DEF connect_failed, disconnect
      <4> QED BY <4>2, LinkDown
    <3> QED BY <1>1, <3>1, <3>2
  <2>3. TypeOK'
    BY <1>0, <1>1, <2>2 DEF connect, connect_failed, disconnect, subscribe,
       LinkOnly, mail, tasks, history, TypeOK
  <2> QED BY <2>1, <2>3, Elsewhere
<1>2. CASE unrecognized \/ handle_reads \/ HostAnswer
  <2>1. RequestsStay
    BY <1>2 DEF unrecognized, handle_reads, HostAnswer, reset_buffer,
       handle_service_read, mail, history, RequestsStay
  <2>2. TypeOK'
    BY <1>0, <1>2 DEF unrecognized, handle_reads, HostAnswer, reset_buffer,
       handle_service_read, mail, history, link, TypeOK
  <2> QED BY <2>1, <2>2, Elsewhere
<1>3. CASE StatusTask
  <2> USE DEF StatusStays
  <2>1. RequestsStay
    BY <1>3 DEF StatusTask, wake, indicate, read_event, pop_event, clear_event, fill, send,
       RequestsStay
  <2>2. TypeOK'
    <3>1. CASE wake BY <1>0, <3>1 DEF wake, TypeOK, StatusState, link
    <3>2. CASE indicate BY <1>0, <3>2 DEF indicate, TypeOK, StatusState, link
    <3>3. CASE pop_event
      <4>1. status' \in StatusState
        BY <1>0, <3>3, StatusLooks DEF pop_event, TypeOK
      <4> QED BY <1>0, <3>3, <4>1 DEF pop_event, TypeOK, link
    <3>4. CASE clear_event BY <1>0, <3>4 DEF clear_event, TypeOK, StatusState, link
    <3>5. CASE fill BY <1>0, <3>5 DEF fill, TypeOK, StatusState, link, Empty, Writes
    <3>6. Waiting \in StatusState BY WaitingOK
    <3>7. CASE send BY <1>0, <3>6, <3>7 DEF send, TypeOK, link
    <3>8. CASE read_event
      <4>1. status' \in StatusState
        BY <1>0, <3>6, <3>8 DEF read_event, TypeOK, StatusState
      <4>2. buffer' \in {Empty, States} \cup Writes
        BY <1>0, <3>8 DEF read_event, TypeOK
      <4> QED BY <1>0, <3>8, <4>1, <4>2 DEF read_event, TypeOK, link
    <3> QED BY <1>3, <3>1, <3>2, <3>3, <3>4, <3>5, <3>7, <3>8 DEF StatusTask
  <2> QED BY <2>1, <2>2, Elsewhere
<1> QED BY <1>1, <1>2, <1>3

-----------------------------------------------------------------------------
(***************************************************************************)
(* The steps that touch a request.                                         *)
(***************************************************************************)

\* A write is later than all that is in the mailbox, in hand or served.
LEMMA WriteStep ==
  ASSUME IInv, NEW c \in Cmd, handle_writes(c)
  PROVE  IInv'
<1>0. PICK id \in Nat : id = Len(wrote) + 1 BY DEF IInv, WroteOK
<1>1. /\ id = Len(wrote) + 1
      /\ wrote' = Append(wrote, c) /\ wrote \in Seq(Cmd)
      /\ Len(wrote) \in Nat /\ Len(wrote) < MaxWrites
      /\ extRequests' = [extRequests EXCEPT ![c] = id]
      /\ UNCHANGED <<extEvents, buffer, indicate_type, patient, conn, head, status,
                     served, told>>
  BY <1>0 DEF handle_writes, IInv, WroteOK, link
<1>2. /\ wrote' \in Seq(Cmd) /\ Len(wrote') = id /\ wrote'[id] = c
      /\ \A k \in 1 .. Len(wrote) : wrote'[k] = wrote[k]
  BY <1>1
<1>3. \A k, d : WriteOf(d, k) => WriteOf(d, k)' /\ k < id
  BY <1>1, <1>2 DEF WriteOf
<1>4. WriteOf(c, id)' BY <1>1, <1>2 DEF WriteOf
<1>5. /\ extRequests \in [Cmd -> 0 .. MaxWrites]
      /\ extRequests'[c] = id
      /\ \A d \in Cmd : d # c => extRequests'[d] = extRequests[d]
  BY <1>1 DEF IInv, TypeOK
<1>6. TypeOK' BY <1>1 DEF IInv, TypeOK
<1>7. WroteOK' BY <1>1, <1>2 DEF WroteOK
<1>8. SlotsHoldWrites'
  BY <1>3, <1>4, <1>5 DEF IInv, SlotsHoldWrites
<1>9. head.cmd \in Cmd /\ head.item \in Nat /\ head.rest \in Nat
  BY DEF IInv, TypeOK, HeadState
<1>10. HeadHoldsWrites'
  <2>1. head' = head BY <1>1
  <2>2. \A k : WriteOf(head.cmd, k) => k < id BY <1>3
  <2>3. head.cmd = c => extRequests'[head.cmd] = id BY <1>5
  <2>4. head.cmd # c => extRequests'[head.cmd] = extRequests[head.cmd]
    BY <1>5, <1>9
  <2>5. \A k \in Nat : k < id => k <= id BY <1>1
  <2> QED BY <1>3, <1>9, <2>1, <2>2, <2>3, <2>4, <2>5 DEF IInv, HeadHoldsWrites
<1>11. ServedIsPast'
  <2>1. served' = served /\ served \in Seq(Nat \X Nat) /\ head' = head
    BY <1>1 DEF IInv, ServedIsPast
  <2>2. SUFFICES ASSUME NEW i \in DOMAIN served
        PROVE  \E d \in Cmd :
                 /\ WriteOf(d, served[i][1])' /\ WriteOf(d, served[i][2])'
                 /\ served[i][1] <= served[i][2]
                 /\ extRequests'[d] = 0 \/ served[i][2] < extRequests'[d]
                 /\ head.at \in {"copy", "clear", "answer"} /\ head.cmd = d =>
                      served[i][2] < head.item
    BY <2>1 DEF ServedIsPast
  <2>3. PICK d \in Cmd :
          /\ WriteOf(d, served[i][1]) /\ WriteOf(d, served[i][2])
          /\ served[i][1] <= served[i][2]
          /\ extRequests[d] = 0 \/ served[i][2] < extRequests[d]
          /\ head.at \in {"copy", "clear", "answer"} /\ head.cmd = d =>
               served[i][2] < head.item
    BY DEF IInv, ServedIsPast
  <2>4. extRequests'[d] = 0 \/ served[i][2] < extRequests'[d]
    BY <1>3, <1>5, <2>3
  <2>5. WriteOf(d, served[i][1])' /\ WriteOf(d, served[i][2])'
    BY <1>3, <2>1, <2>3 DEF WriteOf
  <2> QED BY <2>3, <2>4, <2>5
<1>12. ServedInOrder'
  <2>1. served' = served /\ served \in Seq(Nat \X Nat)
    BY <1>1 DEF IInv, ServedIsPast
  <2>2. \A i \in DOMAIN served : served[i][1] \in 1 .. Len(wrote)
    BY DEF IInv, ServedIsPast, WriteOf
  <2>3. \A i \in DOMAIN served : wrote'[served[i][1]] = wrote[served[i][1]]
    BY <1>2, <2>2
  <2> QED BY <2>1, <2>3 DEF IInv, ServedInOrder
<1> QED BY <1>6, <1>7, <1>8, <1>10, <1>11, <1>12 DEF IInv

\* The pieces of the invariant that the head's steps read or disturb.
LEMMA HeadFacts ==
  ASSUME IInv
  PROVE  /\ head \in HeadState /\ head.cmd \in Cmd
         /\ head.item \in 0 .. MaxWrites /\ head.rest \in 0 .. MaxWrites
         /\ extRequests \in [Cmd -> 0 .. MaxWrites]
         /\ served \in Seq(Nat \X Nat)
BY DEF IInv, TypeOK, HeadState, ServedIsPast

\* A step of the head task between its accesses.
LEMMA SameMail ==
  ASSUME IInv, UNCHANGED <<wrote, served>>, TypeOK', HeadHoldsWrites',
         \A c \in Cmd : extRequests'[c] \in {0, extRequests[c]},
         \/ head'.at \notin {"copy", "clear", "answer"}
         \/ /\ head.at \in {"copy", "clear", "answer"}
            /\ head'.cmd = head.cmd /\ head'.item = head.item
  PROVE  IInv'
<1>1. WroteOK' /\ ServedInOrder'
  BY DEF IInv, WroteOK, ServedInOrder
<1>2. \A d, k : WriteOf(d, k)' <=> WriteOf(d, k) BY DEF WriteOf
<1>3. SlotsHoldWrites'
  BY <1>2 DEF IInv, SlotsHoldWrites
<1>4. ServedIsPast'
  BY <1>2 DEF IInv, ServedIsPast
<1> QED BY <1>1, <1>3, <1>4 DEF IInv

LEMMA PopStep ==
  ASSUME IInv, pop_request
  PROVE  IInv'
<1> USE DEF HeadStays
<1>1. UNCHANGED <<mail, indicate_type, served, buffer, link, status, host, wrote, told>>
  BY DEF pop_request
<1>2. /\ head' \in HeadState
      /\ \/ /\ extRequests[head.cmd] # 0 /\ head'.at = "copy"
            /\ head'.cmd = head.cmd /\ head'.item = extRequests[head.cmd]
         \/ head'.at \in {"pop", "count"}
  BY HeadFacts, HeadLooks DEF pop_request
<1>3. TypeOK' BY <1>1, <1>2 DEF IInv, TypeOK, mail, link
<1>4. CASE head'.at \in {"pop", "count"}
  <2>1. HeadHoldsWrites' BY <1>4 DEF HeadHoldsWrites
  <2> QED BY <1>1, <1>3, <1>4, <2>1, SameMail DEF mail
<1>5. CASE /\ extRequests[head.cmd] # 0 /\ head'.at = "copy"
           /\ head'.cmd = head.cmd /\ head'.item = extRequests[head.cmd]
  <2>1. PICK c \in Cmd : c = head.cmd BY HeadFacts
  <2>2. extRequests[c] \in 0 .. MaxWrites BY <2>1, HeadFacts
  <2>3. /\ extRequests[c] # 0 /\ head'.at = "copy" /\ head'.cmd = c
        /\ head'.item = extRequests[c]
    BY <1>5, <2>1
  <2>5. \A d, k : WriteOf(d, k)' <=> WriteOf(d, k) BY <1>1 DEF WriteOf
  <2>6. HeadHoldsWrites'
    BY <1>1, <2>1, <2>2, <2>3, <2>5 DEF HeadHoldsWrites, IInv, SlotsHoldWrites, mail
  <2>7. SlotsHoldWrites' /\ WroteOK' /\ ServedInOrder'
    BY <1>1, <2>5 DEF IInv, SlotsHoldWrites, WroteOK, ServedInOrder, mail
  <2>8. ServedIsPast'
    BY <1>1, <2>1, <2>3, <2>5 DEF IInv, ServedIsPast, mail
  <2> QED BY <1>3, <2>6, <2>7, <2>8 DEF IInv
<1> QED BY <1>2, <1>4, <1>5

LEMMA CopyStep ==
  ASSUME IInv, copy_request
  PROVE  IInv'
<1> USE DEF HeadStays
<1>1. /\ UNCHANGED <<mail, indicate_type, served, buffer, link, status, host, wrote,
                     told>>
      /\ head.at = "copy"
      /\ head' = [head EXCEPT !.at = "clear", !.rest = extRequests[head.cmd]]
  BY DEF copy_request
<1>2. extRequests[head.cmd] \in 0 .. MaxWrites BY HeadFacts
<1>3. /\ head' \in HeadState /\ head'.at = "clear" /\ head'.cmd = head.cmd
      /\ head'.item = head.item /\ head'.rest = extRequests[head.cmd]
  BY <1>1, <1>2, HeadFacts DEF HeadState
<1>4. TypeOK' BY <1>1, <1>3 DEF IInv, TypeOK, mail, link
<1>5. WriteOf(head.cmd, head.item) /\ head.item <= extRequests[head.cmd]
  BY <1>1 DEF IInv, HeadHoldsWrites
<1>6. extRequests[head.cmd] # 0 BY <1>2, <1>5 DEF WriteOf
<1>7. WriteOf(head.cmd, extRequests[head.cmd])
  BY <1>6, HeadFacts DEF IInv, SlotsHoldWrites
<1>8. HeadHoldsWrites'
  BY <1>1, <1>2, <1>3, <1>5, <1>7 DEF HeadHoldsWrites, WriteOf, mail
<1> QED BY <1>1, <1>3, <1>4, <1>8, SameMail DEF mail

LEMMA ClearStep ==
  ASSUME IInv, clear_request
  PROVE  IInv'
<1> USE DEF HeadStays
<1>1. /\ UNCHANGED <<extEvents, indicate_type, served, buffer, link, status, host,
                     wrote, told>>
      /\ head.at = "clear"
      /\ head' = [head EXCEPT !.at = "answer"]
      /\ extRequests' = [extRequests EXCEPT ![head.cmd] = 0]
  BY DEF clear_request
<1>2. /\ head' \in HeadState /\ head'.at = "answer" /\ head'.cmd = head.cmd
      /\ head'.item = head.item /\ head'.rest = head.rest
  BY <1>1, HeadFacts DEF HeadState
<1>3. /\ extRequests' \in [Cmd -> 0 .. MaxWrites]
      /\ extRequests'[head.cmd] = 0
      /\ \A c \in Cmd : extRequests'[c] \in {0, extRequests[c]}
  BY <1>1, HeadFacts
<1>4. TypeOK' BY <1>1, <1>2, <1>3 DEF IInv, TypeOK, link
<1>5. HeadHoldsWrites'
  BY <1>1, <1>2, <1>3 DEF IInv, HeadHoldsWrites, WriteOf
<1> QED BY <1>1, <1>2, <1>3, <1>4, <1>5, SameMail

LEMMA FirstPopOK == FirstPop \in HeadState /\ FirstPop.at = "pop" /\ FirstPop.cmd = 0
<1>1. 0 \in Cmd /\ 0 \in 0 .. MaxWrites BY DEF Cmd
<1> QED BY <1>1 DEF FirstPop, HeadState

LEMMA NotifyStep ==
  ASSUME IInv, notify
  PROVE  IInv'
<1> USE DEF HeadStays
<1>1. /\ UNCHANGED <<mail, served, buffer, link, status, host, wrote, told>>
      /\ head' = FirstPop
      /\ indicate_type' \subseteq {"NODE_CHANGE", "EXT_RESPONSE"}
  BY DEF notify, IInv, TypeOK
<1>2. head' \in HeadState /\ head'.at = "pop" BY <1>1, FirstPopOK
<1>3. TypeOK' BY <1>1, <1>2 DEF IInv, TypeOK, mail, link
<1>4. HeadHoldsWrites' BY <1>2 DEF HeadHoldsWrites
<1> QED BY <1>1, <1>2, <1>3, <1>4, SameMail DEF mail

LEMMA CountStep ==
  ASSUME IInv, count_event
  PROVE  IInv'
<1> USE DEF HeadStays
<1>1. UNCHANGED <<mail, indicate_type, served, buffer, link, status, host, wrote, told>>
  BY DEF count_event
<1>2. extEvents \in [Cmd -> 0 .. MaxWrites] /\ head.at = "count"
  BY DEF IInv, TypeOK, count_event
<1>3. head' \in HeadState /\ head'.at \in {"count", "notify"}
  BY <1>2, HeadFacts, HeadCounts DEF count_event
<1>4. TypeOK' BY <1>1, <1>3 DEF IInv, TypeOK, mail, link
<1>5. HeadHoldsWrites' BY <1>3 DEF HeadHoldsWrites
<1> QED BY <1>1, <1>3, <1>4, <1>5, SameMail DEF mail

\* The request that is served is later than every served one of its command,
\* and earlier than what its slot may hold by now.
LEMMA AnswerStep ==
  ASSUME IInv, put_event
  PROVE  IInv'
<1> USE DEF HeadStays
<1>1. /\ UNCHANGED <<extRequests, indicate_type, buffer, link, status, host, wrote,
                     told>>
      /\ head.at = "answer"
      /\ head' = FirstPop
      /\ served' = Append(served, <<head.item, head.rest>>)
      /\ extEvents' = [extEvents EXCEPT ![head.cmd] = head.rest]
  BY DEF put_event
<1>2. head' \in HeadState /\ head'.at = "pop" BY <1>1, FirstPopOK
<1>3. TypeOK'
  <2>1. extEvents' \in [Cmd -> 0 .. MaxWrites] BY <1>1, HeadFacts DEF IInv, TypeOK
  <2> QED BY <1>1, <1>2, <2>1 DEF IInv, TypeOK, link
<1>4. HeadHoldsWrites' BY <1>2 DEF HeadHoldsWrites
<1>5. SlotsHoldWrites' /\ WroteOK'
  BY <1>1 DEF IInv, SlotsHoldWrites, WroteOK, WriteOf
<1>6. /\ WriteOf(head.cmd, head.item) /\ WriteOf(head.cmd, head.rest)
      /\ head.item <= head.rest
      /\ extRequests[head.cmd] = 0 \/ head.rest < extRequests[head.cmd]
  BY <1>1 DEF IInv, HeadHoldsWrites
<1>7. PICK n \in Nat : n = Len(served) + 1 BY HeadFacts
<1>8. /\ served' \in Seq(Nat \X Nat)
      /\ DOMAIN served' = DOMAIN served \cup {n} /\ DOMAIN served = 1 .. n - 1
      /\ served'[n] = <<head.item, head.rest>>
      /\ \A i \in DOMAIN served : served'[i] = served[i]
  <2>1. <<head.item, head.rest>> \in Nat \X Nat BY HeadFacts
  <2>2. served \in Seq(Nat \X Nat) BY HeadFacts
  <2>3. /\ served' \in Seq(Nat \X Nat) /\ Len(served') = n
        /\ \A i \in 1 .. Len(served) : served'[i] = served[i]
        /\ served'[n] = <<head.item, head.rest>>
    BY <1>1, <1>7, <2>1, <2>2, AppendProperties
  <2>4. DOMAIN served = 1 .. n - 1 /\ DOMAIN served' = 1 .. n
    <3>1. DOMAIN served = 1 .. Len(served) /\ DOMAIN served' = 1 .. Len(served')
      BY <2>2, <2>3
    <3>2. Len(served) \in Nat BY <2>2
    <3> QED BY <1>7, <2>3, <3>1, <3>2
  <2>5. 1 .. n = (1 .. n - 1) \cup {n}
    <3>1. n >= 1 BY <1>7, <2>2
    <3> QED BY <3>1
  <2> QED BY <1>7, <2>2, <2>3, <2>4, <2>5
<1>9. \A i \in DOMAIN served : \E c \in Cmd :
        /\ WriteOf(c, served[i][1]) /\ WriteOf(c, served[i][2])
        /\ served[i][1] <= served[i][2]
        /\ extRequests[c] = 0 \/ served[i][2] < extRequests[c]
        /\ head.cmd = c => served[i][2] < head.item
  BY <1>1 DEF IInv, ServedIsPast
<1>10. \A d, k : WriteOf(d, k)' <=> WriteOf(d, k) BY <1>1 DEF WriteOf
<1>11. ServedIsPast'
  <2>1. ASSUME NEW i \in DOMAIN served'
        PROVE  \E c \in Cmd :
                 /\ WriteOf(c, served'[i][1]) /\ WriteOf(c, served'[i][2])
                 /\ served'[i][1] <= served'[i][2]
                 /\ extRequests[c] = 0 \/ served'[i][2] < extRequests[c]
    <3>1. CASE i = n
      <4>1. served'[i][1] = head.item /\ served'[i][2] = head.rest BY <1>8, <3>1
      <4> QED BY <1>6, <4>1, HeadFacts
    <3>2. CASE i \in DOMAIN served BY <1>8, <1>9, <3>2
    <3> QED BY <1>8, <2>1, <3>1, <3>2
  <2> QED BY <1>1, <1>2, <1>8, <2>1 DEF ServedIsPast, WriteOf
<1>12. ServedInOrder'
  <2>1. SUFFICES ASSUME NEW i \in DOMAIN served', NEW j \in DOMAIN served',
                        i < j, wrote[served'[i][1]] = wrote[served'[j][1]]
                 PROVE  served'[i][2] < served'[j][1]
    BY <1>1 DEF ServedInOrder
  <2>2. i \in DOMAIN served BY <1>8, <2>1
  <2>3. CASE j \in DOMAIN served
    BY <1>8, <2>1, <2>2, <2>3 DEF IInv, ServedInOrder
  <2>4. CASE j = n
    <3>1. wrote[served[i][1]] = head.cmd BY <1>6, <1>8, <2>1, <2>2, <2>4 DEF WriteOf
    <3> QED BY <1>8, <1>9, <2>2, <2>4, <3>1 DEF WriteOf
  <2> QED BY <1>8, <2>3, <2>4
<1> QED BY <1>3, <1>4, <1>5, <1>11, <1>12 DEF IInv

-----------------------------------------------------------------------------
LEMMA IInvStep == IInv /\ [Next]_vars => IInv'
<1> SUFFICES ASSUME IInv, [Next]_vars PROVE IInv' OBVIOUS
<1>1. ASSUME NEW c \in Cmd, handle_writes(c) PROVE IInv' BY <1>1, WriteStep
<1>2. CASE HeadTask
  BY <1>2, PopStep, CopyStep, ClearStep, AnswerStep, CountStep, NotifyStep
  DEF HeadTask
<1>3. CASE UNCHANGED vars
  <2>1. TypeOK'
    BY <1>3 DEF IInv, TypeOK, vars, mail, link, tasks, history
  <2> QED BY <1>3, <2>1, Elsewhere DEF RequestsStay, vars, mail, tasks, history
<1> QED BY <1>1, <1>2, <1>3, LinkSteps DEF Next, HostTask

LEMMA Invariance == Spec => []IInv
BY InitIInv, IInvStep, PTL DEF Spec

\* The mailboxes, the buffer and the tasks keep their types, for any number of
\* commands and writes.
THEOREM TypeCorrect == Spec => []TypeOK
<1>1. IInv => TypeOK BY DEF IInv
<1> QED BY Invariance, <1>1, PTL

\* Of one command no request is served twice, nor after a later one, in whole or
\* in part (ExtRqManager::put and pop without a lock).
THEOREM RequestsAreServedInOrder == Spec => []ServedInOrder
<1>1. IInv => ServedInOrder BY DEF IInv
<1> QED BY Invariance, <1>1, PTL

-----------------------------------------------------------------------------
LEMMA InitReachable == Init => StaysReachable
<1> SUFFICES ASSUME Init PROVE StaysReachable OBVIOUS
<1>1. conn \in start_advertising(0) BY DEF Init
<1> QED BY <1>1, LinkDown DEF StaysReachable

LEMMA ReachableStep == IInv /\ StaysReachable /\ [Next]_vars => StaysReachable'
<1> SUFFICES ASSUME IInv, StaysReachable, [Next]_vars PROVE StaysReachable' OBVIOUS
<1>0. conn \in Connection BY DEF IInv, TypeOK
<1>1. CASE UNCHANGED conn BY <1>1 DEF StaysReachable
<1>2. CASE connect \/ subscribe
  BY <1>0, <1>2 DEF connect, subscribe, StaysReachable, Connection
<1>3. CASE connect_failed \/ disconnect
  <2>1. conn.disconnects \in 0 .. MaxDisconnects BY <1>0 DEF Connection
  <2>2. PICK n \in 0 .. MaxDisconnects : conn' \in start_advertising(n)
    BY <1>3, <2>1 DEF connect_failed, disconnect
  <2> QED BY <2>2, LinkDown DEF StaysReachable
<1>4. ASSUME ~(connect \/ connect_failed \/ disconnect \/ subscribe)
      PROVE  UNCHANGED conn
  <2>1. ASSUME NEW c \in Cmd, handle_writes(c) PROVE UNCHANGED conn
    BY <2>1 DEF handle_writes, link
  <2>2. CASE unrecognized \/ handle_reads \/ HostAnswer
    BY <2>2 DEF unrecognized, handle_reads, HostAnswer, reset_buffer,
       handle_service_read, link
  <2>3. CASE HeadTask
    BY <2>3 DEF HeadTask, pop_request, copy_request, clear_request, put_event,
       count_event, notify, HeadStays, link
  <2>4. CASE StatusTask
    BY <2>4 DEF StatusTask, wake, indicate, read_event, pop_event, clear_event, fill, send,
       StatusStays, link
  <2>5. CASE UNCHANGED vars BY <2>5 DEF vars, link
  <2> QED BY <1>4, <2>1, <2>2, <2>3, <2>4, <2>5 DEF Next, HostTask
<1> QED BY <1>1, <1>2, <1>3, <1>4

\* Whatever the link goes through, the device advertises or is connected, unless
\* the stack has refused to advertise (gap_event_handler, start_advertising).
THEOREM DeviceStaysReachable == Spec => []StaysReachable
BY InitReachable, ReachableStep, Invariance, PTL DEF Spec

-----------------------------------------------------------------------------
(***************************************************************************)
(* A search of the status task begins at the first slot, with nothing.     *)
(***************************************************************************)
StatusFresh ==
  /\ status.at \in {"wait", "indicate", "read", "pop"} => status.item = 0
  /\ status.at \in {"wait", "indicate", "read"} => status.cmd = 0

LEMMA FreshStep == IInv /\ StatusFresh /\ [Next]_vars => StatusFresh'
<1> SUFFICES ASSUME IInv, StatusFresh, [Next]_vars PROVE StatusFresh' OBVIOUS
<1>0. status \in StatusState /\ extEvents \in [Cmd -> 0 .. MaxWrites]
  BY DEF IInv, TypeOK
<1>1. CASE UNCHANGED status BY <1>1 DEF StatusFresh
<1>2. CASE StatusTask
  <2>1. CASE wake \/ indicate
    BY <1>0, <2>1 DEF wake, indicate, StatusState, StatusFresh
  <2>2. CASE read_event
    BY <1>0, <2>2 DEF read_event, StatusState, StatusFresh, Waiting
  <2>3. CASE pop_event
    BY <1>0, <2>3, StatusLooks DEF pop_event, StatusFresh
  <2>4. CASE clear_event \/ fill \/ send
    BY <1>0, <2>4 DEF clear_event, fill, send, StatusState, StatusFresh, Waiting
  <2> QED BY <1>2, <2>1, <2>2, <2>3, <2>4 DEF StatusTask
<1>3. ASSUME ~ StatusTask PROVE UNCHANGED status
  <2>1. ASSUME NEW c \in Cmd, handle_writes(c) PROVE UNCHANGED status
    BY <2>1 DEF handle_writes
  <2>2. CASE \/ connect \/ connect_failed \/ disconnect \/ subscribe \/ unrecognized
             \/ handle_reads \/ HostAnswer
    BY <2>2 DEF connect, connect_failed, disconnect, subscribe, unrecognized,
       handle_reads, HostAnswer, reset_buffer, handle_service_read, LinkOnly, tasks
  <2>3. CASE HeadTask
    BY <2>3 DEF HeadTask, pop_request, copy_request, clear_request, put_event,
       count_event, notify, HeadStays
  <2>4. CASE UNCHANGED vars BY <2>4 DEF vars, tasks
  <2> QED BY <1>3, <2>1, <2>2, <2>3, <2>4 DEF Next, HostTask
<1> QED BY <1>1, <1>2, <1>3

LEMMA Freshness == Spec => []StatusFresh
<1>1. Init => StatusFresh BY DEF Init, Waiting, StatusFresh
<1> QED BY <1>1, FreshStep, Invariance, PTL DEF Spec

-----------------------------------------------------------------------------
(***************************************************************************)
(* The mailboxes keep what they promise: a pop takes effect where it finds *)
(* its slot, a put where it fills one that nobody is copying, and what a   *)
(* search has passed was empty then or has been put behind it.             *)
(***************************************************************************)

\* A put leaves all as it is, if its slot is being popped; or it fills the slot,
\* and if that was empty and the search is past it, it is overlooked.
PutOrPassed(held, held2, behind, behind2, popping, c, id) ==
  \/ held2 = held /\ behind2 = behind
  \/ /\ held2 = [held EXCEPT ![c] = id]
     /\ \/ behind2 = behind
        \/ /\ behind2 = behind \cup {c} /\ popping /\ held[c] = 0
           /\ \A d \in 0 .. c : held[d] = 0 \/ d \in behind

LEMMA PutFills ==
  ASSUME NEW queue \in [Cmd -> 0 .. MaxWrites], NEW task, task.cmd \in Cmd,
         NEW places, "pop" \notin places, NEW c \in Cmd, NEW id \in Writes,
         NEW next \in [Cmd -> 0 .. MaxWrites], next[c] = id,
         \A d \in Cmd \ {c} : next[d] = queue[d]
  PROVE  PutOrPassed(Held(queue, task, places), Held(next, task, places),
                     Behind(queue, task), Behind(next, task), task.at = "pop", c, id)
<1> DEFINE busy == task.at \in places /\ task.cmd = c
           held == Held(queue, task, places)
           held2 == Held(next, task, places)
<1> USE DEF PutOrPassed
<1>1. \A d \in Cmd : held2[d] = IF d = c /\ ~busy THEN id ELSE held[d]
  BY DEF Held
<1>2. held2 = [d \in Cmd |-> held2[d]] /\ held = [d \in Cmd |-> held[d]]
  BY DEF Held
<1>3. CASE busy
  <2>1. held2 = held
    <3> HIDE DEF busy, held, held2
    <3> QED BY <1>1, <1>2, <1>3
  <2>2. Behind(next, task) = {} /\ Behind(queue, task) = {} BY <1>3 DEF Behind
  <2> QED BY <2>1, <2>2
<1>4. CASE ~busy
  <2>1. held2 = [held EXCEPT ![c] = id]
    <3> HIDE DEF busy, held, held2
    <3> QED BY <1>1, <1>2, <1>4
  <2>2. id # 0 BY DEF Writes
  <2>3. CASE task.at = "pop" /\ c < task.cmd /\ queue[c] = 0
    <3>1. Behind(next, task) = Behind(queue, task) \cup {c}
      BY <2>2, <2>3 DEF Behind
    <3>2. held = queue BY <2>3 DEF Held
    <3>3. \A d \in 0 .. c : d \in Cmd /\ (queue[d] = 0 \/ d \in Behind(queue, task))
      BY <2>3 DEF Behind, Cmd
    <3> QED BY <2>1, <2>3, <3>1, <3>2, <3>3
  <2>4. CASE ~(task.at = "pop" /\ c < task.cmd /\ queue[c] = 0)
    <3>1. Behind(next, task) = Behind(queue, task) BY <2>2, <2>4 DEF Behind
    <3> QED BY <2>1, <3>1
  <2> QED BY <2>3, <2>4
<1> QED BY <1>3, <1>4

\* What is before the slot that is looked at is empty or has been overlooked.
LEMMA PassedIsBehind ==
  ASSUME NEW queue \in [Cmd -> 0 .. MaxWrites], NEW task, task.cmd \in Cmd,
         NEW places, "pop" \notin places, task.at = "pop"
  PROVE  /\ Held(queue, task, places) = queue
         /\ \A d \in Cmd : d < task.cmd => queue[d] = 0 \/ d \in Behind(queue, task)
         /\ task.cmd \notin Behind(queue, task)
BY DEF Held, Behind, Cmd

\* Taking the item of the slot, and passing it by.
LEMMA LookTakes ==
  ASSUME NEW queue \in [Cmd -> 0 .. MaxWrites], NEW task, task.cmd \in Cmd,
         NEW next, NEW places, "pop" \notin places, task.at = "pop",
         next.at \in places, next.cmd = task.cmd
  PROVE  /\ Held(queue, next, places) = [queue EXCEPT ![task.cmd] = 0]
         /\ Behind(queue, next) = {}
<1>1. Behind(queue, next) = {} BY DEF Behind
<1>2. Held(queue, next, places) = [queue EXCEPT ![task.cmd] = 0]
  BY DEF Held
<1> QED BY <1>1, <1>2

LEMMA LookPasses ==
  ASSUME NEW queue \in [Cmd -> 0 .. MaxWrites], NEW task, task.cmd \in Cmd,
         NEW next, NEW places, "pop" \notin places, task.at = "pop",
         next.at = "pop", next.cmd = task.cmd + 1, queue[task.cmd] = 0
  PROVE  /\ Held(queue, next, places) = queue
         /\ Behind(queue, next) = Behind(queue, task)
BY DEF Held, Behind, Cmd

LEMMA Idle ==
  ASSUME NEW queue \in [Cmd -> 0 .. MaxWrites], NEW task, NEW places,
         task.at \notin places, task.at # "pop" \/ task.cmd = 0
  PROVE  Held(queue, task, places) = queue /\ Behind(queue, task) = {}
BY DEF Held, Behind, Cmd

LEMMA RequestsStep == IInv /\ [Next]_vars => [Requests!Next]_(Requests!vars)
<1> SUFFICES ASSUME IInv, [Next]_vars
             PROVE  Requests!Next \/ UNCHANGED Requests!vars
  OBVIOUS
<1> DEFINE places == {"copy", "clear"}
           held == Held(extRequests, head, places)
           behind == Behind(extRequests, head)
<1>0. Cmd = 0 .. Commands - 1 BY DEF Cmd
<1>a. Requests!vars = <<held, head.at = "pop", behind>> BY DEF Requests!vars, places
<1>b. held' = Held(extRequests', head', places) /\ behind' = Behind(extRequests', head')
  BY DEF Held, Behind
<1>c. /\ "pop" \notin places /\ extRequests \in [Cmd -> 0 .. MaxWrites]
      /\ head.cmd \in Cmd
      /\ \A at \in {"pop", "answer", "count", "notify"} : at \notin places
      /\ "copy" \in places
  BY HeadFacts
<1> HIDE DEF places
<1>1. CASE UNCHANGED <<extRequests, head>>
  BY <1>1 DEF Requests!vars, Held, Behind
<1>2. ASSUME NEW c \in Cmd, handle_writes(c)
      PROVE  Requests!Next \/ UNCHANGED Requests!vars
  <2>1. PICK id \in Writes : id = Len(wrote) + 1
    BY <1>2 DEF handle_writes, IInv, WroteOK, Writes
  <2>2. extRequests' = [extRequests EXCEPT ![c] = id] /\ UNCHANGED head
    BY <1>2, <2>1 DEF handle_writes
  <2>a. /\ extRequests' \in [Cmd -> 0 .. MaxWrites] /\ extRequests'[c] = id
        /\ \A d \in Cmd \ {c} : extRequests'[d] = extRequests[d]
    BY <1>c, <2>2 DEF Writes
  <2>b. held' = Held(extRequests', head, places) /\ behind' = Behind(extRequests', head)
    BY <1>b, <2>2
  <2>3. PutOrPassed(held, held', behind, behind', head.at = "pop", c, id)
    BY <1>c, <2>a, <2>b, PutFills
  <2>4. CASE held' = held /\ behind' = behind
    BY <2>2, <2>4 DEF Requests!vars, places
  <2>5. CASE /\ held' = [held EXCEPT ![c] = id]
             /\ \/ behind' = behind
                \/ /\ behind' = behind \cup {c}
                   /\ head.at = "pop" /\ held[c] = 0
                   /\ \A d \in 0 .. c : held[d] = 0 \/ d \in behind
    <3> HIDE DEF held, behind, places
    <3>1. Requests!Put(c, id)
      BY <2>2, <2>5 DEF Requests!Put, Requests!Filled, held, behind, places
    <3> QED BY <1>0, <3>1 DEF Requests!Next, Requests!Cmds
  <2> QED BY <2>3, <2>4, <2>5 DEF PutOrPassed
<1>3. CASE pop_request
  <2>1. UNCHANGED extRequests /\ head.at = "pop" BY <1>3 DEF pop_request, mail
  <2>2. /\ held = extRequests /\ head.cmd \notin behind
        /\ \A d \in Cmd : d < head.cmd => extRequests[d] = 0 \/ d \in behind
    BY <2>1, <1>c, PassedIsBehind
  <2>3. \/ /\ extRequests[head.cmd] # 0 /\ head'.at = "copy"
           /\ head'.cmd = head.cmd
        \/ /\ extRequests[head.cmd] = 0 /\ head'.at = "pop"
           /\ head'.cmd = head.cmd + 1
        \/ /\ extRequests[head.cmd] = 0 /\ head'.at = "count"
           /\ head.cmd = Commands - 1
    BY <1>3, <2>1, HeadFacts, HeadLooks DEF pop_request
  <2>4. CASE /\ extRequests[head.cmd] # 0 /\ head'.at = "copy"
             /\ head'.cmd = head.cmd
    <3>1. PICK c \in Cmd : c = head.cmd BY HeadFacts
    <3>2. held' = [extRequests EXCEPT ![c] = 0] /\ behind' = {}
      BY <1>b, <1>c, <2>1, <2>4, <3>1, LookTakes
    <3>3. head'.at # "pop" BY <2>4
    <3>4. Requests!Pop(c)
      <4> HIDE DEF held, behind, places
      <4>1. Requests!Filled(c) BY <2>2, <2>4, <3>1 DEF Requests!Filled, held, behind, places
      <4>2. \A d \in 0 .. c - 1 : ~ Requests!Filled(d)
        BY <1>0, <2>2, <3>1 DEF Requests!Filled, held, behind, places
      <4> QED BY <2>1, <2>2, <3>2, <3>3, <4>1, <4>2 DEF Requests!Pop, held, behind, places
    <3> QED BY <1>0, <3>4 DEF Requests!Next, Requests!Cmds
  <2>5. CASE /\ extRequests[head.cmd] = 0 /\ head'.at = "pop"
             /\ head'.cmd = head.cmd + 1
    <3>1. held' = extRequests /\ behind' = behind
      BY <1>b, <1>c, <2>1, <2>5, LookPasses
    <3> QED BY <2>1, <2>2, <2>5, <3>1 DEF Requests!vars, places
  <2>6. CASE /\ extRequests[head.cmd] = 0 /\ head'.at = "count"
             /\ head.cmd = Commands - 1
    <3>1. held' = extRequests /\ behind' = {} BY <1>b, <1>c, <2>1, <2>6, Idle
    <3>2. \A d \in 0 .. Commands - 1 : extRequests[d] = 0 \/ d \in behind
      BY <1>0, <2>2, <2>6
    <3>3. Requests!Miss
      <4> HIDE DEF held, behind, places
      <4>1. \A d \in Requests!Cmds : ~ Requests!Filled(d)
        BY <2>2, <3>2 DEF Requests!Cmds, Requests!Filled, held, behind, places
      <4> QED BY <2>1, <2>2, <2>6, <3>1, <4>1 DEF Requests!Miss, held, behind, places
    <3> QED BY <3>3 DEF Requests!Next, Requests!Cmds
  <2> QED BY <2>3, <2>4, <2>5, <2>6
<1>4. CASE copy_request
  <2>1. /\ UNCHANGED extRequests /\ head.at = "copy"
        /\ head' = [head EXCEPT !.at = "clear", !.rest = extRequests[head.cmd]]
    BY <1>4 DEF copy_request, mail
  <2>2. head'.at = "clear" /\ head'.cmd = head.cmd
    BY <2>1, HeadFacts DEF HeadState
  <2> QED BY <2>1, <2>2 DEF Held, Behind, Requests!vars, places
<1>5. CASE clear_request
  <2>1. /\ extRequests' = [extRequests EXCEPT ![head.cmd] = 0]
        /\ head.at = "clear" /\ head' = [head EXCEPT !.at = "answer"]
    BY <1>5 DEF clear_request
  <2>2. head'.at = "answer" BY <2>1, HeadFacts DEF HeadState
  <2>3. \A c \in Cmd : held'[c] = held[c]
    BY <2>1, <2>2, HeadFacts DEF Held, places
  <2>4. held' = [c \in Cmd |-> held'[c]] /\ held = [c \in Cmd |-> held[c]]
    BY DEF Held
  <2>5. held' = held
    <3> HIDE DEF held
    <3> QED BY <2>3, <2>4
  <2>6. behind' = {} /\ behind = {} BY <2>1, <2>2 DEF Behind
  <2> QED BY <2>1, <2>2, <2>5, <2>6 DEF Requests!vars, places
<1>6. CASE put_event \/ notify
  <2>1. UNCHANGED extRequests /\ head.at \in {"answer", "notify"} /\ head' = FirstPop
    BY <1>6 DEF put_event, notify, mail
  <2>2. held' = extRequests /\ behind' = {} BY <1>b, <1>c, <2>1, FirstPopOK, Idle
  <2>3. held = extRequests /\ behind = {} BY <1>b, <1>c, <2>1, Idle
  <2>4. head'.at = "pop" BY <2>1, FirstPopOK
  <2>5. Requests!Begin BY <2>1, <2>2, <2>3, <2>4 DEF Requests!Begin, places
  <2> QED BY <2>5 DEF Requests!Next, Requests!Cmds
<1>10. CASE count_event
  <2>1. UNCHANGED extRequests /\ head.at = "count" /\ extEvents \in [Cmd -> 0 .. MaxWrites]
    BY <1>10 DEF count_event, mail, IInv, TypeOK
  <2>2. head'.at \in {"count", "notify"}
    BY <1>10, <2>1, HeadFacts, HeadCounts DEF count_event
  <2>3. held' = extRequests /\ behind' = {} BY <1>b, <1>c, <2>1, <2>2, Idle
  <2>4. held = extRequests /\ behind = {} BY <1>b, <1>c, <2>1, Idle
  <2> QED BY <2>1, <2>2, <2>3, <2>4 DEF Requests!vars, places
<1>7. CASE UNCHANGED vars BY <1>1, <1>7 DEF vars, mail, tasks
<1>8. CASE connect \/ connect_failed \/ disconnect \/ subscribe \/ unrecognized
             \/ handle_reads \/ HostAnswer
  BY <1>1, <1>8 DEF connect, connect_failed, disconnect, subscribe, unrecognized,
     handle_reads, HostAnswer, reset_buffer, handle_service_read, LinkOnly, mail, tasks
<1>9. CASE StatusTask
  BY <1>1, <1>9 DEF StatusTask, wake, indicate, read_event, pop_event, clear_event,
     fill, send, StatusStays
<1> QED BY <1>2, <1>3, <1>4, <1>5, <1>6, <1>7, <1>8, <1>9, <1>10
        DEF Next, HostTask, HeadTask

LEMMA EventsStep == IInv /\ StatusFresh /\ [Next]_vars => [Events!Next]_(Events!vars)
<1> SUFFICES ASSUME IInv, StatusFresh, [Next]_vars
             PROVE  Events!Next \/ UNCHANGED Events!vars
  OBVIOUS
<1> DEFINE places == {"clear"}
           held == Held(extEvents, status, places)
           behind == Behind(extEvents, status)
<1>0. Cmd = 0 .. Commands - 1 BY DEF Cmd
<1>a. /\ extEvents \in [Cmd -> 0 .. MaxWrites]
      /\ status \in StatusState /\ status.cmd \in Cmd
  BY DEF IInv, TypeOK, StatusState
<1>b. held' = Held(extEvents', status', places) /\ behind' = Behind(extEvents', status')
  BY DEF Held, Behind
<1>c. /\ "pop" \notin places /\ "clear" \in places
      /\ \A at \in {"wait", "indicate", "read", "pop", "fill", "send"} : at \notin places
  OBVIOUS
<1> HIDE DEF places
<1>1. CASE UNCHANGED <<extEvents, status>>
  BY <1>1 DEF Events!vars, Held, Behind
<1>2. CASE put_event
  <2>1. /\ extEvents' = [extEvents EXCEPT ![head.cmd] = head.rest]
        /\ UNCHANGED status /\ head.at = "answer"
    BY <1>2 DEF put_event, HeadStays
  <2>2. PICK c \in Cmd : c = head.cmd BY HeadFacts
  <2>3. PICK id \in Writes : id = head.rest
    <3>1. WriteOf(head.cmd, head.rest) /\ Len(wrote) <= MaxWrites /\ Len(wrote) \in Nat
      BY <2>1 DEF IInv, HeadHoldsWrites, WroteOK
    <3> QED BY <3>1, HeadFacts DEF WriteOf, Writes
  <2>a. /\ extEvents' \in [Cmd -> 0 .. MaxWrites] /\ extEvents'[c] = id
        /\ \A d \in Cmd \ {c} : extEvents'[d] = extEvents[d]
    BY <1>a, <2>1, <2>2, <2>3 DEF Writes
  <2>b. held' = Held(extEvents', status, places) /\ behind' = Behind(extEvents', status)
    BY <1>b, <2>1
  <2>4. PutOrPassed(held, held', behind, behind', status.at = "pop", c, id)
    BY <1>a, <1>c, <2>a, <2>b, PutFills
  <2>5. CASE held' = held /\ behind' = behind
    BY <2>1, <2>5 DEF Events!vars, places
  <2>6. CASE /\ held' = [held EXCEPT ![c] = id]
             /\ \/ behind' = behind
                \/ /\ behind' = behind \cup {c}
                   /\ status.at = "pop" /\ held[c] = 0
                   /\ \A d \in 0 .. c : held[d] = 0 \/ d \in behind
    <3> HIDE DEF held, behind, places
    <3>1. Events!Put(c, id)
      BY <2>1, <2>6 DEF Events!Put, Events!Filled, held, behind, places
    <3> QED BY <1>0, <3>1 DEF Events!Next, Events!Cmds
  <2> QED BY <2>4, <2>5, <2>6 DEF PutOrPassed
<1>3. CASE pop_event
  <2>1. UNCHANGED extEvents /\ status.at = "pop" BY <1>3 DEF pop_event
  <2>2. /\ held = extEvents /\ status.cmd \notin behind
        /\ \A d \in Cmd : d < status.cmd => extEvents[d] = 0 \/ d \in behind
    BY <1>a, <1>c, <2>1, PassedIsBehind
  <2>3. \/ /\ extEvents[status.cmd] # 0 /\ status'.at = "clear"
           /\ status'.cmd = status.cmd
        \/ /\ extEvents[status.cmd] = 0 /\ status'.at = "pop"
           /\ status'.cmd = status.cmd + 1
        \/ /\ extEvents[status.cmd] = 0 /\ status'.at = "send"
           /\ status.cmd = Commands - 1
    BY <1>3, <1>a, <2>1, StatusLooks DEF pop_event
  <2>4. CASE /\ extEvents[status.cmd] # 0 /\ status'.at = "clear"
             /\ status'.cmd = status.cmd
    <3>1. PICK c \in Cmd : c = status.cmd BY <1>a
    <3>2. held' = [extEvents EXCEPT ![c] = 0] /\ behind' = {}
      BY <1>b, <1>c, <1>a, <2>1, <2>4, <3>1, LookTakes
    <3>3. status'.at # "pop" BY <2>4
    <3>4. Events!Pop(c)
      <4> HIDE DEF held, behind, places
      <4>1. Events!Filled(c) BY <2>2, <2>4, <3>1 DEF Events!Filled, held, behind, places
      <4>2. \A d \in 0 .. c - 1 : ~ Events!Filled(d)
        BY <1>0, <2>2, <3>1 DEF Events!Filled, held, behind, places
      <4> QED BY <2>1, <2>2, <3>2, <3>3, <4>1, <4>2 DEF Events!Pop, held, behind, places
    <3> QED BY <1>0, <3>4 DEF Events!Next, Events!Cmds
  <2>5. CASE /\ extEvents[status.cmd] = 0 /\ status'.at = "pop"
             /\ status'.cmd = status.cmd + 1
    <3>1. held' = extEvents /\ behind' = behind
      BY <1>b, <1>c, <1>a, <2>1, <2>5, LookPasses
    <3> QED BY <2>1, <2>2, <2>5, <3>1 DEF Events!vars, places
  <2>6. CASE /\ extEvents[status.cmd] = 0 /\ status'.at = "send"
             /\ status.cmd = Commands - 1
    <3>1. held' = extEvents /\ behind' = {} BY <1>b, <1>c, <1>a, <2>1, <2>6, Idle
    <3>2. \A d \in 0 .. Commands - 1 : extEvents[d] = 0 \/ d \in behind
      BY <1>0, <2>2, <2>6
    <3>3. Events!Miss
      <4> HIDE DEF held, behind, places
      <4>1. \A d \in Events!Cmds : ~ Events!Filled(d)
        BY <2>2, <3>2 DEF Events!Cmds, Events!Filled, held, behind, places
      <4> QED BY <2>1, <2>2, <2>6, <3>1, <4>1 DEF Events!Miss, held, behind, places
    <3> QED BY <3>3 DEF Events!Next, Events!Cmds
  <2> QED BY <2>3, <2>4, <2>5, <2>6
<1>4. CASE clear_event
  <2>1. /\ extEvents' = [extEvents EXCEPT ![status.cmd] = 0]
        /\ status.at = "clear" /\ status' = [status EXCEPT !.at = "fill"]
    BY <1>4 DEF clear_event
  <2>2. status'.at = "fill" BY <1>a, <2>1 DEF StatusState
  <2>3. \A c \in Cmd : held'[c] = held[c] BY <1>a, <2>1, <2>2 DEF Held, places
  <2>4. held' = [c \in Cmd |-> held'[c]] /\ held = [c \in Cmd |-> held[c]]
    BY DEF Held
  <2>5. held' = held
    <3> HIDE DEF held
    <3> QED BY <2>3, <2>4
  <2>6. behind' = {} /\ behind = {} BY <2>1, <2>2 DEF Behind
  <2> QED BY <2>1, <2>2, <2>5, <2>6 DEF Events!vars, places
<1>5. CASE wake \/ indicate \/ fill \/ send
  <2>1. UNCHANGED extEvents /\ status.at \notin {"pop", "clear"}
        /\ status'.at \notin {"pop", "clear"}
    BY <1>a, <1>5, WaitingOK DEF wake, indicate, fill, send, StatusState
  <2>2. status.at \notin places /\ status'.at \notin places BY <2>1 DEF places
  <2>3. held' = extEvents /\ behind' = {} BY <1>b, <1>a, <2>1, <2>2, Idle
  <2>4. held = extEvents /\ behind = {} BY <1>a, <2>1, <2>2, Idle
  <2> QED BY <2>1, <2>3, <2>4 DEF Events!vars, places
<1>10. CASE read_event
  <2>1. UNCHANGED extEvents /\ status.at = "read" /\ status.cmd = 0
    BY <1>10 DEF read_event, StatusFresh
  <2>2. status'.at \in {"wait", "pop"} /\ status'.cmd = 0
    BY <1>10, <1>a, <2>1, WaitingOK DEF read_event, StatusState
  <2>3. held' = extEvents /\ behind' = {} BY <1>b, <1>c, <1>a, <2>1, <2>2, Idle
  <2>4. held = extEvents /\ behind = {} BY <1>b, <1>c, <1>a, <2>1, Idle
  <2>5. CASE status'.at = "pop"
    <3>1. Events!Begin BY <2>1, <2>3, <2>4, <2>5 DEF Events!Begin, places
    <3> QED BY <3>1 DEF Events!Next, Events!Cmds
  <2>6. CASE status'.at = "wait"
    BY <2>1, <2>3, <2>4, <2>6 DEF Events!vars, places
  <2> QED BY <2>2, <2>5, <2>6
<1>6. ASSUME NEW c \in Cmd, handle_writes(c) PROVE UNCHANGED <<extEvents, status>>
  BY <1>6 DEF handle_writes
<1>7. CASE UNCHANGED vars BY <1>1, <1>7 DEF vars, mail, tasks
<1>8. CASE connect \/ connect_failed \/ disconnect \/ subscribe \/ unrecognized
             \/ handle_reads \/ HostAnswer
  BY <1>1, <1>8 DEF connect, connect_failed, disconnect, subscribe, unrecognized,
     handle_reads, HostAnswer, reset_buffer, handle_service_read, LinkOnly, mail, tasks
<1>9. CASE pop_request \/ copy_request \/ clear_request \/ count_event \/ notify
  BY <1>1, <1>9 DEF pop_request, copy_request, clear_request, count_event, notify,
     mail, HeadStays
<1> QED BY <1>1, <1>2, <1>3, <1>4, <1>5, <1>6, <1>7, <1>8, <1>9, <1>10
  DEF Next, HostTask, HeadTask, StatusTask

LEMMA InitMailboxes == Init => Requests!Init /\ Events!Init
<1> SUFFICES ASSUME Init PROVE Requests!Init /\ Events!Init OBVIOUS
<1>1. /\ head.at = "pop" /\ head.cmd = 0 /\ status.at = "wait"
      /\ extRequests = EmptyBox /\ extEvents = EmptyBox
  BY DEF Init, FirstPop, Waiting
<1>2. EmptyBox \in [Cmd -> 0 .. MaxWrites] BY DEF EmptyBox
<1>3. /\ Held(extRequests, head, {"copy", "clear"}) = EmptyBox
      /\ Held(extEvents, status, {"clear"}) = EmptyBox
      /\ Behind(extRequests, head) = {} /\ Behind(extEvents, status) = {}
  BY <1>1, <1>2, Idle
<1> QED BY <1>1, <1>3
        DEF EmptyBox, Cmd, Requests!Init, Events!Init, Requests!Cmds, Events!Cmds

\* Both mailboxes keep what Mailbox says, whatever is put between two looks of a
\* search (ExtRqManager::put, pop, putEvents and popEvent, by three tasks without
\* a lock).
THEOREM MailboxesKeepTheirPromise == Spec => ImplementsMailbox
<1> QED BY RequestsStep, EventsStep, InitMailboxes, Invariance, Freshness, PTL
  DEF Spec, ImplementsMailbox, Requests!Spec, Events!Spec

-----------------------------------------------------------------------------
(***************************************************************************)
(* The answers to a patient host: one operation at a time is on its way,   *)
(* as a request or as an event, never as both.                             *)
(***************************************************************************)
Filled(queue) == \E c \in Cmd : queue[c] # 0
StatusHolds ==
  \/ status.at \in {"clear", "fill"}
  \/ status.at = "send" /\ status.item # 0
RequestInHand == Filled(extRequests) \/ head.at \in {"copy", "clear", "answer"}
EventInHand == Filled(extEvents) \/ StatusHolds

\* A slot of the events, too, holds a write of its command.
EventsHoldWrites == \A c \in Cmd : extEvents[c] # 0 => WriteOf(c, extEvents[c])

\* A host that operates has its connection, and a connection ends advertising.
LinkHolds ==
  /\ conn.connected => ~conn.advertising
  /\ patient /\ Len(wrote) > 0 => conn.connected

\* Of a patient host all writes but the last one are answered; while that is in
\* hand, the host neither reads nor, from its event on, clears the buffer.
OneAtATime ==
  /\ \A id \in 1 .. Len(wrote) : id < Len(wrote) => id \in told
  /\ \A id \in told : id <= Len(wrote)
  /\ RequestInHand \/ EventInHand =>
       Len(wrote) > 0 /\ Len(wrote) \notin told /\ host # "answer"
  /\ ~ (RequestInHand /\ EventInHand)
  /\ EventInHand => host # "reset"

\* Where the last write is: in one slot, and the same in the hands of a task.
RequestPlace ==
  /\ \A c \in Cmd : extRequests[c] \in {0, Len(wrote)}
  /\ head.at \in {"copy", "clear", "answer"} => head.item = Len(wrote)
  /\ head.at \in {"clear", "answer"} => head.rest = Len(wrote)
  /\ head.at = "answer" => ~ Filled(extRequests)

EventPlace ==
  /\ \A c \in Cmd : extEvents[c] \in {0, Len(wrote)}
  /\ StatusHolds => status.item = Len(wrote)
  /\ status.at = "clear" => extEvents[status.cmd] = Len(wrote)
  /\ StatusHolds /\ status.at # "clear" => ~ Filled(extEvents)
  /\ StatusHolds /\ status.at = "send" => buffer = Len(wrote)

Answers ==
  /\ EventsHoldWrites /\ LinkHolds /\ NoEventDropped
  /\ patient => OneAtATime /\ RequestPlace /\ EventPlace

LEMMA InitAnswers == Init => Answers
<1> SUFFICES ASSUME Init PROVE Answers OBVIOUS
<1>1. wrote = <<>> /\ served = <<>> /\ Len(wrote) = 0 /\ DOMAIN served = {}
  BY DEF Init
<1>2. /\ ~ Filled(extRequests) /\ ~ Filled(extEvents)
      /\ \A c \in Cmd : extRequests[c] = 0 /\ extEvents[c] = 0
  BY DEF Init, EmptyBox, Filled
<1>3. head.at = "pop" /\ status.at = "wait" BY DEF Init, FirstPop, Waiting
<1>4. conn.connected = FALSE
  BY DEF Init, start_advertising
<1>5. ~ RequestInHand /\ ~ EventInHand /\ ~ StatusHolds
  BY <1>2, <1>3 DEF RequestInHand, EventInHand, StatusHolds
<1>6. EventsHoldWrites BY <1>2 DEF EventsHoldWrites
<1>7. LinkHolds BY <1>1, <1>4 DEF LinkHolds
<1>8. NoEventDropped BY <1>1 DEF NoEventDropped
<1>9. OneAtATime
  <2>1. told = {} BY DEF Init
  <2> QED BY <1>1, <1>5, <2>1 DEF OneAtATime
<1>10. RequestPlace BY <1>1, <1>2, <1>3 DEF RequestPlace
<1>11. EventPlace BY <1>2, <1>3, <1>5 DEF EventPlace
<1> QED BY <1>6, <1>7, <1>8, <1>9, <1>10, <1>11 DEF Answers

\* The types these steps need.
LEMMA AnswerFacts ==
  ASSUME IInv
  PROVE  /\ wrote \in Seq(Cmd) /\ Len(wrote) \in Nat
         /\ extRequests \in [Cmd -> 0 .. MaxWrites]
         /\ extEvents \in [Cmd -> 0 .. MaxWrites]
         /\ head \in HeadState /\ head.cmd \in Cmd
         /\ status \in StatusState /\ status.cmd \in Cmd
         /\ status.item \in 0 .. MaxWrites
         /\ conn \in Connection
BY DEF IInv, TypeOK, WroteOK, HeadState, StatusState

\* What has been served has been written.
LEMMA ServedFacts ==
  ASSUME IInv
  PROVE  \A i \in DOMAIN served : served[i][2] \in 1 .. Len(wrote)
BY DEF IInv, ServedIsPast, WriteOf

LEMMA ConnectionSteps ==
  ASSUME IInv, Answers, connect \/ connect_failed \/ disconnect \/ subscribe
  PROVE  Answers'
<1>1. /\ UNCHANGED <<extRequests, extEvents, buffer, patient, head, status, host,
                     wrote, served, told>>
  BY DEF connect, connect_failed, disconnect, subscribe, LinkOnly, mail, tasks, history
<1>2. LinkHolds'
  <2>1. CASE connect \/ subscribe
    BY <1>1, <2>1, AnswerFacts DEF Answers, LinkHolds, connect, subscribe, Connection
  <2>2. CASE connect_failed \/ disconnect
    <3>1. conn'.connected = FALSE
      BY <2>2 DEF connect_failed, disconnect, start_advertising
    <3>2. ~ (patient /\ Len(wrote) > 0)
      BY <2>2 DEF Answers, LinkHolds, connect_failed, disconnect
    <3> QED BY <1>1, <3>1, <3>2 DEF LinkHolds
  <2> QED BY <2>1, <2>2
<1> QED BY <1>1, <1>2 DEF Answers, EventsHoldWrites, WriteOf, NoEventDropped,
        OneAtATime, RequestPlace, EventPlace, RequestInHand, EventInHand, StatusHolds,
        Filled

\* A patient host writes when nothing is in hand and all is told.
LEMMA WriteAnswers ==
  ASSUME IInv, Answers, NEW c \in Cmd, handle_writes(c)
  PROVE  Answers'
<1>1. PICK id \in Nat : id = Len(wrote) + 1 BY AnswerFacts
<1>2. /\ wrote' = Append(wrote, c) /\ host' = "reset"
      /\ extRequests' = [extRequests EXCEPT ![c] = id]
      /\ UNCHANGED <<extEvents, buffer, patient, conn, head, status, served, told>>
      /\ conn.connected
      /\ patient => \A k \in 1 .. Len(wrote) : k \in told
  BY <1>1 DEF handle_writes, MayOperate, link
<1>3. /\ Len(wrote') = id /\ wrote'[id] = c
      /\ \A k \in 1 .. Len(wrote) : wrote'[k] = wrote[k]
  BY <1>1, <1>2, AnswerFacts
<1>4. \A k, d : WriteOf(d, k) => WriteOf(d, k)'
  BY <1>1, <1>2, <1>3, AnswerFacts DEF WriteOf
<1>5. EventsHoldWrites' BY <1>2, <1>4 DEF Answers, EventsHoldWrites
<1>6. LinkHolds' BY <1>2 DEF Answers, LinkHolds
<1>7. NoEventDropped'
  <2>1. SUFFICES ASSUME patient, NEW i \in DOMAIN served
                 PROVE  served[i][2] \in told
    BY <1>2 DEF NoEventDropped
  <2> QED BY <1>2, <2>1, ServedFacts
<1>8. ASSUME patient PROVE OneAtATime' /\ RequestPlace' /\ EventPlace'
  <2>1. \A k \in 1 .. Len(wrote) : k \in told BY <1>2, <1>8
  <2>2. ~ RequestInHand /\ ~ EventInHand
    BY <1>8, <2>1, AnswerFacts DEF Answers, OneAtATime
  <2>3. /\ \A d \in Cmd : extRequests[d] = 0 /\ extEvents[d] = 0
        /\ head.at \notin {"copy", "clear", "answer"} /\ ~ StatusHolds
    BY <2>2 DEF RequestInHand, EventInHand, Filled
  <2>4. id \notin told /\ \A k \in told : k <= id
    <3>1. \A k \in told : k \in Int /\ k <= Len(wrote)
      BY <1>8 DEF Answers, OneAtATime, IInv, TypeOK, Writes
    <3> QED BY <1>1, <3>1, AnswerFacts
  <2>5. extRequests'[c] = id /\ \A d \in Cmd : d # c => extRequests'[d] = 0
    BY <1>2, <2>3, AnswerFacts
  <2>6. ~ EventInHand' /\ ~ StatusHolds'
    BY <1>2, <2>2, <2>3 DEF EventInHand, StatusHolds, Filled
  <2>7. \A k \in 1 .. id : k < id => k \in 1 .. Len(wrote) BY <1>1, AnswerFacts
  <2>8. OneAtATime'
    BY <1>1, <1>2, <1>3, <2>1, <2>4, <2>6, <2>7 DEF OneAtATime
  <2>9. RequestPlace' BY <1>2, <1>3, <2>3, <2>5 DEF RequestPlace
  <2>10. EventPlace'
    <3>1. \A d \in Cmd : extEvents'[d] = 0 BY <1>2, <2>3
    <3>2. status'.at # "clear" BY <2>6 DEF StatusHolds
    <3> QED BY <2>6, <3>1, <3>2 DEF EventPlace
  <2> QED BY <2>8, <2>9, <2>10
<1> QED BY <1>5, <1>6, <1>7, <1>8, <1>2 DEF Answers

\* Reading and clearing the buffer, when no event is in hand.
LEMMA BufferAnswers ==
  ASSUME IInv, Answers, unrecognized \/ reset_buffer \/ handle_reads
                          \/ handle_service_read
  PROVE  Answers'
<1>1. UNCHANGED <<extRequests, extEvents, patient, conn, head, status, wrote, served>>
  BY DEF unrecognized, reset_buffer, handle_reads, handle_service_read, mail, link,
     history
<1>2. EventsHoldWrites' /\ LinkHolds'
  BY <1>1 DEF Answers, EventsHoldWrites, WriteOf, LinkHolds
<1>3. UNCHANGED told
  BY DEF unrecognized, reset_buffer, handle_reads, handle_service_read, history
<1>4. NoEventDropped' BY <1>1, <1>3 DEF Answers, NoEventDropped
<1>5. ASSUME patient PROVE OneAtATime' /\ RequestPlace' /\ EventPlace'
  <2> DEFINE n == Len(wrote)
  <2>0. OneAtATime /\ RequestPlace /\ EventPlace BY <1>5 DEF Answers
  <2>1. /\ RequestInHand' = RequestInHand /\ EventInHand' = EventInHand
        /\ StatusHolds' = StatusHolds
    BY <1>1 DEF RequestInHand, EventInHand, StatusHolds, Filled
  <2>2. unrecognized \/ handle_reads => ~ RequestInHand /\ ~ EventInHand
    <3>1. ASSUME unrecognized \/ handle_reads PROVE \A k \in 1 .. n : k \in told
      BY <1>5, <3>1 DEF unrecognized, handle_reads, MayOperate
    <3> QED BY <2>0, <3>1, AnswerFacts DEF OneAtATime
  <2>3. OneAtATime'
    <3>3. RequestInHand \/ EventInHand => host' # "answer"
      BY <2>0, <2>2 DEF unrecognized, reset_buffer, handle_reads, handle_service_read,
         OneAtATime
    <3>4. EventInHand => host' # "reset"
      BY <2>0, <2>2 DEF unrecognized, reset_buffer, handle_reads, handle_service_read,
         OneAtATime
    <3> QED BY <1>1, <1>3, <2>0, <2>1, <3>3, <3>4 DEF OneAtATime
  <2>4. RequestPlace' BY <1>1, <2>0 DEF RequestPlace, Filled
  <2>5. EventInHand => UNCHANGED buffer
    BY <2>0, <2>2 DEF unrecognized, reset_buffer, handle_reads, handle_service_read,
       OneAtATime
  <2>6. EventPlace'
    BY <1>1, <2>0, <2>1, <2>5 DEF EventPlace, Filled, EventInHand
  <2> QED BY <2>3, <2>4, <2>6
<1> QED BY <1>1, <1>2, <1>4, <1>5 DEF Answers

\* The head takes the request in hand, and puts its event.
LEMMA HeadAnswers ==
  ASSUME IInv, Answers, HeadTask
  PROVE  Answers'
<1> DEFINE n == Len(wrote)
<1>1. UNCHANGED <<buffer, patient, conn, status, host, wrote, told>>
  BY DEF HeadTask, pop_request, copy_request, clear_request, put_event,
     count_event, notify, HeadStays, link
<1>2. LinkHolds' BY <1>1 DEF Answers, LinkHolds
<1>3. StatusHolds' = StatusHolds BY <1>1 DEF StatusHolds
<1>4. CASE pop_request
  <2>1. UNCHANGED <<extRequests, extEvents, served>> /\ head.at = "pop"
    BY <1>4 DEF pop_request, mail
  <2>2. EventsHoldWrites' /\ NoEventDropped'
    BY <1>1, <2>1 DEF Answers, EventsHoldWrites, WriteOf, NoEventDropped
  <2>3. \/ head'.at = "copy" /\ head'.item = extRequests[head'.cmd] /\ head'.item # 0
           /\ head'.cmd \in Cmd
        \/ head'.at \in {"pop", "count"}
    <3>1. /\ head' \in HeadState
          /\ \/ /\ extRequests[head.cmd] # 0 /\ head'.at = "copy"
                /\ head'.cmd = head.cmd /\ head'.item = extRequests[head.cmd]
             \/ head'.at \in {"pop", "count"}
      BY <1>4, HeadFacts, HeadLooks DEF pop_request
    <3> QED BY <2>1, <3>1, HeadFacts
  <2>4. RequestInHand' = RequestInHand /\ EventInHand' = EventInHand
    BY <1>1, <2>1, <2>3 DEF RequestInHand, EventInHand, StatusHolds, Filled
  <2>5. ASSUME patient PROVE OneAtATime' /\ RequestPlace' /\ EventPlace'
    <3>0. OneAtATime /\ RequestPlace /\ EventPlace BY <2>5 DEF Answers
    <3>1. OneAtATime' BY <1>1, <2>4, <3>0 DEF OneAtATime
    <3>2. RequestPlace' BY <1>1, <2>1, <2>3, <3>0 DEF RequestPlace
    <3>3. EventPlace' BY <1>1, <1>3, <2>1, <3>0 DEF EventPlace, Filled
    <3> QED BY <3>1, <3>2, <3>3
  <2> QED BY <1>1, <1>2, <2>2, <2>5 DEF Answers
<1>5. CASE copy_request
  <2>1. /\ UNCHANGED <<extRequests, extEvents, served>> /\ head.at = "copy"
        /\ head' = [head EXCEPT !.at = "clear", !.rest = extRequests[head.cmd]]
    BY <1>5 DEF copy_request, mail
  <2>2. EventsHoldWrites' /\ NoEventDropped'
    BY <1>1, <2>1 DEF Answers, EventsHoldWrites, WriteOf, NoEventDropped
  <2>3. head'.at = "clear" /\ head'.cmd = head.cmd /\ head'.item = head.item
        /\ head'.rest = extRequests[head.cmd]
    BY <2>1, AnswerFacts DEF HeadState
  <2>4. RequestInHand' = RequestInHand /\ EventInHand' = EventInHand
    BY <1>1, <2>1, <2>3 DEF RequestInHand, EventInHand, StatusHolds, Filled
  <2>5. ASSUME patient PROVE OneAtATime' /\ RequestPlace' /\ EventPlace'
    <3>0. OneAtATime /\ RequestPlace /\ EventPlace BY <2>5 DEF Answers
    <3>1. OneAtATime' BY <1>1, <2>4, <3>0 DEF OneAtATime
    <3>2. extRequests[head.cmd] = n
      <4>1. n > 0 /\ n \in Nat /\ head.item = n
        BY <2>1, <3>0, AnswerFacts DEF OneAtATime, RequestInHand, RequestPlace
      <4>2. head.item <= extRequests[head.cmd]
        BY <2>1 DEF IInv, HeadHoldsWrites
      <4> QED BY <3>0, <4>1, <4>2, AnswerFacts DEF RequestPlace
    <3>3. RequestPlace' BY <1>1, <2>1, <2>3, <3>0, <3>2 DEF RequestPlace
    <3>4. EventPlace' BY <1>1, <1>3, <2>1, <3>0 DEF EventPlace, Filled
    <3> QED BY <3>1, <3>3, <3>4
  <2> QED BY <1>1, <1>2, <2>2, <2>5 DEF Answers
<1>6. CASE clear_request
  <2>1. /\ UNCHANGED <<extEvents, served>> /\ head.at = "clear"
        /\ extRequests' = [extRequests EXCEPT ![head.cmd] = 0]
        /\ head' = [head EXCEPT !.at = "answer"]
    BY <1>6 DEF clear_request
  <2>2. EventsHoldWrites' /\ NoEventDropped'
    BY <1>1, <2>1 DEF Answers, EventsHoldWrites, WriteOf, NoEventDropped
  <2>3. head'.at = "answer" /\ head'.item = head.item /\ head'.rest = head.rest
    BY <2>1, AnswerFacts DEF HeadState
  <2>4. RequestInHand /\ RequestInHand' /\ EventInHand' = EventInHand
    BY <1>1, <2>1, <2>3 DEF RequestInHand, EventInHand, StatusHolds, Filled
  <2>5. ASSUME patient PROVE OneAtATime' /\ RequestPlace' /\ EventPlace'
    <3>0. OneAtATime /\ RequestPlace /\ EventPlace BY <2>5 DEF Answers
    <3>1. OneAtATime' BY <1>1, <2>4, <3>0 DEF OneAtATime
    <3>2. \A c \in Cmd : extRequests'[c] = 0
      <4> SUFFICES ASSUME NEW c \in Cmd, extRequests[c] # 0 PROVE c = head.cmd
        BY <2>1, AnswerFacts
      <4>1. extRequests[c] = n /\ head.item = n
        BY <2>1, <3>0 DEF RequestPlace
      <4>2. wrote[n] = c /\ wrote[n] = head.cmd
        BY <2>1, <4>1 DEF IInv, SlotsHoldWrites, HeadHoldsWrites, WriteOf
      <4> QED BY <4>2
    <3>3. RequestPlace' BY <1>1, <2>1, <2>3, <3>0, <3>2 DEF RequestPlace, Filled
    <3>4. EventPlace' BY <1>1, <1>3, <2>1, <3>0 DEF EventPlace, Filled
    <3> QED BY <3>1, <3>3, <3>4
  <2> QED BY <1>1, <1>2, <2>2, <2>5 DEF Answers
<1>7. CASE put_event
  <2>1. /\ UNCHANGED extRequests /\ head.at = "answer"
        /\ patient => host # "reset"
        /\ served' = Append(served, <<head.item, head.rest>>)
        /\ extEvents' = [extEvents EXCEPT ![head.cmd] = head.rest]
        /\ head' = FirstPop
    BY <1>7 DEF put_event
  <2>2. head'.at = "pop" BY <2>1, FirstPopOK
  <2>3. WriteOf(head.cmd, head.rest) BY <2>1 DEF IInv, HeadHoldsWrites
  <2>4. EventsHoldWrites'
    BY <1>1, <2>1, <2>3, AnswerFacts DEF Answers, EventsHoldWrites, WriteOf
  <2>5. ASSUME patient
        PROVE  OneAtATime' /\ RequestPlace' /\ EventPlace' /\ NoEventDropped'
    <3>0. OneAtATime /\ RequestPlace /\ EventPlace BY <2>5 DEF Answers
    <3>1. RequestInHand /\ ~ EventInHand
      BY <2>1, <3>0 DEF RequestInHand, OneAtATime
    <3>2. head.rest = n /\ ~ Filled(extRequests) BY <2>1, <3>0 DEF RequestPlace
    <3>3. extEvents'[head.cmd] = n /\ \A c \in Cmd : c # head.cmd => extEvents'[c] = 0
      BY <2>1, <3>1, <3>2, AnswerFacts DEF EventInHand, Filled
    <3>4. ~ RequestInHand'
      BY <2>1, <2>2, <3>2 DEF RequestInHand, Filled
    <3>5. OneAtATime'
      BY <1>1, <2>1, <2>5, <3>0, <3>1, <3>4 DEF OneAtATime
    <3>6. RequestPlace' BY <1>1, <2>1, <2>2, <3>0 DEF RequestPlace
    <3>7. ~ StatusHolds' BY <1>3, <3>1 DEF EventInHand
    <3>8. EventPlace'
      <4>1. \A c \in Cmd : extEvents'[c] \in {0, n} BY <3>3
      <4>2. status'.at # "clear" BY <3>7 DEF StatusHolds
      <4> QED BY <1>1, <3>7, <4>1, <4>2 DEF EventPlace
    <3>9. NoEventDropped'
      <4>1. SUFFICES ASSUME NEW i \in DOMAIN served'
                     PROVE  \/ served'[i][2] \in told
                            \/ extEvents'[wrote[served'[i][2]]] = served'[i][2]
        BY <1>1 DEF NoEventDropped
      <4>2. /\ Len(served) \in Nat /\ DOMAIN served = 1 .. Len(served)
            /\ DOMAIN served' = 1 .. Len(served) + 1
            /\ \A k \in DOMAIN served : served'[k] = served[k]
            /\ served'[Len(served) + 1] = <<head.item, head.rest>>
        <5>1. served \in Seq(Nat \X Nat) BY HeadFacts
        <5>2. <<head.item, head.rest>> \in Nat \X Nat BY HeadFacts
        <5> DEFINE pair == <<head.item, head.rest>>
        <5> HIDE DEF pair
        <5>3. served' = Append(served, pair) /\ pair \in Nat \X Nat
          BY <2>1, <5>2 DEF pair
        <5>4. /\ Len(served) \in Nat /\ DOMAIN served = 1 .. Len(served)
              /\ DOMAIN served' = 1 .. Len(served) + 1
              /\ \A k \in DOMAIN served : served'[k] = served[k]
              /\ served'[Len(served) + 1] = pair
          BY <5>1, <5>3, AppendProperties
        <5> QED BY <5>4 DEF pair
      <4>3. CASE i \in DOMAIN served
        <5>1. served[i][2] \in 1 .. n /\ head.item = n
          BY <2>1, <3>0, <4>3, ServedFacts DEF RequestPlace
        <5>2. PICK c \in Cmd : /\ WriteOf(c, served[i][2])
                               /\ head.cmd = c => served[i][2] < head.item
          BY <2>1, <4>3 DEF IInv, ServedIsPast
        <5>3. served[i][2] # n
          <6> SUFFICES ASSUME served[i][2] = n PROVE FALSE OBVIOUS
          <6>1. c = head.cmd BY <2>3, <3>2, <5>2 DEF WriteOf
          <6> QED BY <5>1, <5>2, <6>1, AnswerFacts
        <5>4. served[i][2] < n BY <5>1, <5>3, AnswerFacts
        <5> QED BY <3>0, <4>2, <4>3, <5>1, <5>4 DEF OneAtATime
      <4>4. CASE i = Len(served) + 1
        <5>1. served'[i][2] = n /\ wrote[n] = head.cmd
          BY <2>3, <3>2, <4>2, <4>4 DEF WriteOf
        <5> QED BY <3>3, <5>1
      <4> QED BY <4>2, <4>3, <4>4
    <3> QED BY <3>5, <3>6, <3>8, <3>9
  <2> QED BY <1>1, <1>2, <2>4, <2>5 DEF Answers, NoEventDropped
<1>8. CASE count_event \/ notify
  <2>1. UNCHANGED <<extRequests, extEvents, served>> /\ head.at \in {"count", "notify"}
    BY <1>8 DEF count_event, notify, mail
  <2>2. head'.at \in {"count", "notify", "pop"}
    BY <1>8, AnswerFacts, HeadCounts, FirstPopOK DEF count_event, notify
  <2> QED BY <1>1, <1>2, <2>1, <2>2
          DEF Answers, EventsHoldWrites, WriteOf, NoEventDropped, OneAtATime,
              RequestPlace, EventPlace, RequestInHand, EventInHand, StatusHolds, Filled
<1> QED BY <1>4, <1>5, <1>6, <1>7, <1>8 DEF HeadTask

\* The status task takes the event in hand, and sends it by itself.
LEMMA StatusAnswers ==
  ASSUME IInv, StatusFresh, Answers, StatusTask
  PROVE  Answers'
<1> DEFINE n == Len(wrote)
<1>1. UNCHANGED <<extRequests, patient, conn, head, host, wrote, served>>
  BY DEF StatusTask, wake, indicate, read_event, pop_event, clear_event, fill, send,
     StatusStays, link
<1>2. LinkHolds' BY <1>1 DEF Answers, LinkHolds
<1>3. RequestInHand' = RequestInHand BY <1>1 DEF RequestInHand, Filled
<1>4. ASSUME patient PROVE OneAtATime /\ RequestPlace /\ RequestPlace' /\ EventPlace
  BY <1>1, <1>4 DEF Answers, RequestPlace, Filled
<1>5. CASE wake \/ indicate \/ read_event
  <2>1. /\ UNCHANGED <<extEvents, told>> /\ status.at \in {"wait", "indicate", "read"}
        /\ status'.at \in {"wait", "indicate", "read", "pop"}
    BY <1>5, AnswerFacts, WaitingOK DEF wake, indicate, read_event, StatusState
  <2>2. ~ StatusHolds /\ ~ StatusHolds' BY <2>1 DEF StatusHolds
  <2>3. EventInHand' = EventInHand BY <2>1, <2>2 DEF EventInHand, Filled
  <2>4. EventsHoldWrites' /\ NoEventDropped'
    BY <1>1, <2>1 DEF Answers, EventsHoldWrites, WriteOf, NoEventDropped
  <2>5. ASSUME patient PROVE OneAtATime' /\ EventPlace'
    <3>1. OneAtATime' BY <1>1, <1>3, <1>4, <2>1, <2>3, <2>5 DEF OneAtATime
    <3>2. EventPlace' BY <1>1, <1>4, <2>1, <2>2, <2>5 DEF EventPlace
    <3> QED BY <3>1, <3>2
  <2> QED BY <1>1, <1>2, <1>4, <2>4, <2>5 DEF Answers
<1>6. CASE pop_event
  <2>1. UNCHANGED <<extEvents, told>> /\ status.at = "pop" BY <1>6 DEF pop_event
  <2>2. \/ /\ status'.at = "clear" /\ status'.cmd \in Cmd
           /\ status'.item = extEvents[status'.cmd] /\ status'.item # 0
        \/ status'.at = "send" /\ status'.item = 0
        \/ status'.at = "pop"
    <3>1. /\ status' \in StatusState
          /\ \/ /\ extEvents[status.cmd] # 0 /\ status'.at = "clear"
                /\ status'.cmd = status.cmd /\ status'.item = extEvents[status.cmd]
             \/ status'.at = "pop"
             \/ status'.at = "send" /\ status'.item = status.item
      <4>1. status \in StatusState /\ extEvents \in [Cmd -> 0 .. MaxWrites]
        BY AnswerFacts
      <4> QED BY <1>6, <4>1, StatusLooks DEF pop_event
    <3>2. status.item = 0 BY <2>1 DEF StatusFresh
    <3> QED BY <2>1, <3>1, <3>2, AnswerFacts
  <2>3. ~ StatusHolds /\ (StatusHolds' => Filled(extEvents) /\ status'.at = "clear")
    BY <2>1, <2>2 DEF StatusHolds, Filled
  <2>4. EventInHand' = EventInHand BY <2>1, <2>3 DEF EventInHand, Filled
  <2>5. EventsHoldWrites' /\ NoEventDropped'
    BY <1>1, <2>1 DEF Answers, EventsHoldWrites, WriteOf, NoEventDropped
  <2>6. ASSUME patient PROVE OneAtATime' /\ EventPlace'
    <3>1. OneAtATime' BY <1>1, <1>3, <1>4, <2>1, <2>4, <2>6 DEF OneAtATime
    <3>2. EventPlace'
      <4>1. StatusHolds' => status'.item = n
        BY <1>4, <2>2, <2>3, <2>6 DEF EventPlace, StatusHolds
      <4>2. status'.at = "clear" => extEvents[status'.cmd] = n
        BY <1>4, <2>2, <2>6 DEF EventPlace
      <4> QED BY <1>1, <1>4, <2>1, <2>3, <2>6, <4>1, <4>2 DEF EventPlace, StatusHolds
    <3> QED BY <3>1, <3>2
  <2> QED BY <1>1, <1>2, <1>4, <2>5, <2>6 DEF Answers
<1>7. CASE clear_event
  <2>1. /\ UNCHANGED <<buffer, told>> /\ status.at = "clear"
        /\ extEvents' = [extEvents EXCEPT ![status.cmd] = 0]
        /\ status' = [status EXCEPT !.at = "fill"]
    BY <1>7 DEF clear_event
  <2>2. status'.at = "fill" /\ status'.item = status.item
    BY <2>1, AnswerFacts DEF StatusState
  <2>3. StatusHolds /\ StatusHolds' BY <2>1, <2>2 DEF StatusHolds
  <2>4. EventInHand /\ EventInHand' BY <2>3 DEF EventInHand
  <2>5. EventsHoldWrites'
    BY <1>1, <2>1, AnswerFacts DEF Answers, EventsHoldWrites, WriteOf
  <2>6. ASSUME patient PROVE OneAtATime' /\ EventPlace' /\ NoEventDropped'
    <3>0. OneAtATime /\ EventPlace /\ NoEventDropped BY <1>4, <2>6 DEF Answers
    <3>1. OneAtATime' BY <1>1, <1>3, <2>1, <2>4, <3>0 DEF OneAtATime
    <3>2. status.item = n /\ extEvents[status.cmd] = n /\ n > 0
      BY <2>1, <2>3, <2>4, <3>0 DEF EventPlace, OneAtATime
    <3>3. wrote[n] = status.cmd
      BY <3>2, AnswerFacts DEF Answers, EventsHoldWrites, WriteOf
    <3>4. \A c \in Cmd : extEvents'[c] = 0
      <4> SUFFICES ASSUME NEW c \in Cmd, extEvents[c] # 0 PROVE c = status.cmd
        BY <2>1, AnswerFacts
      <4>1. extEvents[c] = n BY <3>0 DEF EventPlace
      <4>2. wrote[n] = c BY <4>1 DEF Answers, EventsHoldWrites, WriteOf
      <4> QED BY <3>3, <4>2
    <3>5. EventPlace'
      BY <1>1, <2>2, <3>2, <3>4 DEF EventPlace, Filled
    <3>6. NoEventDropped'
      <4>1. SUFFICES ASSUME NEW i \in DOMAIN served
                     PROVE  served[i][2] \in told \/ served[i][2] = n
        BY <1>1, <2>1, <2>2, <3>2 DEF NoEventDropped
      <4>2. served[i][2] \in 1 .. n BY ServedFacts
      <4> QED BY <3>0, <4>2, AnswerFacts DEF OneAtATime
    <3> QED BY <3>1, <3>5, <3>6
  <2> QED BY <1>1, <1>2, <1>4, <2>5, <2>6 DEF Answers, NoEventDropped
<1>8. CASE fill
  <2>1. /\ UNCHANGED <<extEvents, told>> /\ status.at = "fill"
        /\ buffer' = status.item
        /\ status' = [status EXCEPT !.at = "send"]
    BY <1>8 DEF fill
  <2>2. status'.at = "send" /\ status'.item = status.item
    BY <2>1, AnswerFacts DEF StatusState
  <2>3. StatusHolds BY <2>1 DEF StatusHolds
  <2>4. EventsHoldWrites' /\ NoEventDropped'
    BY <1>1, <2>1, <2>2 DEF Answers, EventsHoldWrites, WriteOf, NoEventDropped
  <2>5. ASSUME patient PROVE OneAtATime' /\ EventPlace'
    <3>0. OneAtATime /\ EventPlace BY <1>4, <2>5
    <3>1. EventInHand /\ status.item = n /\ n > 0 /\ ~ Filled(extEvents)
      BY <2>1, <2>3, <3>0 DEF EventInHand, EventPlace, OneAtATime
    <3>2. StatusHolds' /\ EventInHand'
      BY <2>2, <3>1, AnswerFacts DEF StatusHolds, EventInHand
    <3>3. OneAtATime' BY <1>1, <1>3, <2>1, <3>0, <3>1, <3>2 DEF OneAtATime
    <3>4. EventPlace' BY <1>1, <2>1, <2>2, <3>0, <3>1 DEF EventPlace, Filled
    <3> QED BY <3>3, <3>4
  <2> QED BY <1>1, <1>2, <1>4, <2>4, <2>5 DEF Answers
<1>9. CASE send
  <2>1. /\ UNCHANGED <<extEvents, buffer>> /\ status.at = "send"
        /\ told' = IF conn.connected /\ buffer = status.item
                   THEN told \cup ({status.item} \cap Writes) ELSE told
        /\ status' = Waiting
    BY <1>9 DEF send
  <2>2. status'.at = "wait" BY <2>1 DEF Waiting
  <2>3. ~ StatusHolds' BY <2>2 DEF StatusHolds
  <2>4. EventsHoldWrites'
    BY <1>1, <2>1 DEF Answers, EventsHoldWrites, WriteOf
  <2>5. ASSUME patient PROVE OneAtATime' /\ EventPlace' /\ NoEventDropped'
    <3>0. OneAtATime /\ EventPlace /\ NoEventDropped BY <1>4, <2>5 DEF Answers
    <3>1. status.item # 0 => /\ status.item = n /\ buffer = n /\ conn.connected
                             /\ ~ Filled(extEvents) /\ ~ RequestInHand
      <4> SUFFICES ASSUME status.item # 0
                   PROVE  /\ status.item = n /\ buffer = n /\ conn.connected
                          /\ ~ Filled(extEvents) /\ ~ RequestInHand
        OBVIOUS
      <4>1. StatusHolds /\ EventInHand BY <2>1 DEF StatusHolds, EventInHand
      <4>2. n > 0 /\ ~ RequestInHand BY <3>0, <4>1 DEF OneAtATime
      <4>3. conn.connected BY <2>5, <4>2 DEF Answers, LinkHolds
      <4> QED BY <2>1, <3>0, <4>1, <4>2, <4>3 DEF EventPlace
    <3>2. /\ told \subseteq told'
          /\ \A k \in told' : k \in told \/ (k = status.item /\ k # 0)
          /\ status.item # 0 => n \in told'
      BY <2>1, <3>1, AnswerFacts DEF Writes
    <3>3. EventInHand' => EventInHand /\ status.item = 0
      BY <2>1, <2>3, <3>1 DEF EventInHand, Filled
    <3>4. OneAtATime'
      <4>1. \A k \in told' : k <= n
        <5> TAKE k \in told'
        <5>1. CASE k \in told BY <3>0, <5>1 DEF OneAtATime
        <5>2. CASE k = n BY <5>2, AnswerFacts
        <5> QED BY <3>1, <3>2, <5>1, <5>2
      <4>2. RequestInHand \/ EventInHand' => n \notin told'
        <5> SUFFICES ASSUME RequestInHand \/ EventInHand' PROVE n \notin told'
          OBVIOUS
        <5>1. n > 0 /\ n \notin told /\ status.item = 0
          BY <3>0, <3>1, <3>3 DEF OneAtATime
        <5> QED BY <3>2, <5>1
      <4> QED BY <1>1, <1>3, <3>0, <3>2, <3>3, <4>1, <4>2 DEF OneAtATime
    <3>5. EventPlace' BY <1>1, <2>1, <2>2, <2>3, <3>0 DEF EventPlace
    <3>6. NoEventDropped'
      <4>1. SUFFICES ASSUME NEW i \in DOMAIN served
                     PROVE  \/ served[i][2] \in told'
                            \/ extEvents[wrote[served[i][2]]] = served[i][2]
        BY <1>1, <2>1 DEF NoEventDropped
      <4>2. served[i][2] \in 1 .. n BY ServedFacts
      <4>3. \/ served[i][2] \in told
            \/ extEvents[wrote[served[i][2]]] = served[i][2]
            \/ status.item = served[i][2]
        BY <2>5, <3>0 DEF NoEventDropped
      <4> QED BY <3>1, <3>2, <4>2, <4>3, AnswerFacts
    <3> QED BY <3>4, <3>5, <3>6
  <2> QED BY <1>1, <1>2, <1>4, <2>4, <2>5 DEF Answers, NoEventDropped
<1> QED BY <1>5, <1>6, <1>7, <1>8, <1>9 DEF StatusTask

LEMMA AnswersStep == IInv /\ StatusFresh /\ Answers /\ [Next]_vars => Answers'
<1> SUFFICES ASSUME IInv, StatusFresh, Answers, [Next]_vars PROVE Answers' OBVIOUS
<1>1. ASSUME NEW c \in Cmd, handle_writes(c) PROVE Answers' BY <1>1, WriteAnswers
<1>2. CASE UNCHANGED vars
  BY <1>2 DEF vars, mail, link, tasks, history, Answers, EventsHoldWrites, WriteOf,
     LinkHolds, NoEventDropped, OneAtATime, RequestPlace, EventPlace, RequestInHand,
     EventInHand, StatusHolds, Filled
<1> QED BY <1>1, <1>2, ConnectionSteps, BufferAnswers, HeadAnswers, StatusAnswers
        DEF Next, HostTask, HostAnswer

\* To a host that stays and waits for its answers no event gets lost once it is
\* put: it is in the mailbox or with the status task until it has been sent, in a
\* packet of its own (StatusTask, BLELinkInterface, without a lock).
THEOREM EventsReachTheirHost == Spec => []NoEventDropped
<1>1. Answers => NoEventDropped BY DEF Answers
<1> QED BY InitAnswers, AnswersStep, Invariance, Freshness, <1>1, PTL DEF Spec
=============================================================================
