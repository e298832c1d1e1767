----------------------------- MODULE HostLink -----------------------------
(***************************************************************************)
(* The way of a command of the Bluetooth host to the head task and of its  *)
(* answer back (ExtRqManager, BLELinkInterface, GattService, GapManager,   *)
(* StatusTask), step by step.  Three tasks share the two mailboxes and one *)
(* packet buffer, without a lock:                                          *)
(*                                                                         *)
(*   the NimBLE host task puts requests and answers reads,                 *)
(*   the head task pops requests and puts events,                          *)
(*   the status task pops events and sends them as notifications.          *)
(*                                                                         *)
(* A request is the number of the write that made it, and so is its event. *)
(* One access to a slot of a mailbox or to the buffer is one step: a pop   *)
(* and a count look at the slots one after the other, and a put may come   *)
(* between two looks, in front of the search or behind it.  The copy that  *)
(* pop makes of a request, an optional of 40 bytes, takes two steps: a     *)
(* write may come between them, and the head then serves a request made of *)
(* two, <<item, rest>> with item # rest.  A notification reads its value   *)
(* by the callback of the characteristic, before it looks whether there is *)
(* a connection to send it on.                                             *)
(***************************************************************************)
EXTENDS Integers, Sequences

CONSTANTS
  Commands,       \* how many commands there are
  MaxWrites,      \* how many writes of the host are explored
  MaxDisconnects  \* how many times the host goes away

ASSUME CommandsAssumption == Commands \in Nat \ {0}
ASSUME BoundsAssumption == MaxWrites \in Nat /\ MaxDisconnects \in Nat

VARIABLES
  extRequests, extEvents,  \* the mailboxes, 0 for an empty slot
  buffer,                  \* BLELinkInterface::buffer
  indicate_type,           \* the pending notification bits of the status task
  patient,                 \* the host stays, and waits for each answer
  conn,                    \* [connected, subscribed, advertising, refused,
                           \*  disconnects]
  conn_context,            \* what GapManager remembers: [notify, indicate]
  head, status, host,      \* where each task is
  wrote,                   \* the command of each write so far
  served,                  \* the requests the head task has served, in order
  told                     \* the events the host has been sent

mail == <<extRequests, extEvents>>
tasks == <<head, status, host>>
history == <<wrote, served, told>>
link == <<patient, conn, conn_context>>
vars == <<mail, buffer, indicate_type, link, tasks, history>>

Cmd == 0 .. Commands - 1
Writes == 1 .. MaxWrites
EmptyBox == [c \in Cmd |-> 0]

\* What the buffer can hold besides an event.
Empty == 0
States == -1

\* Where the two other tasks are, the slot they are at, and what they hold of it.
HeadState ==
  [at : {"pop", "copy", "clear", "answer", "count", "notify"}, cmd : Cmd,
   item : 0 .. MaxWrites, rest : 0 .. MaxWrites]
StatusState ==
  [at : {"wait", "indicate", "read", "pop", "clear", "fill", "send"},
   bits : SUBSET {"NODE_CHANGE", "EXT_RESPONSE"}, cmd : Cmd,
   item : 0 .. MaxWrites]
FirstPop == [at |-> "pop", cmd |-> 0, item |-> 0, rest |-> 0]
Waiting == [at |-> "wait", bits |-> {}, cmd |-> 0, item |-> 0]

\* One look of a search at the slot where `task` is: it holds the item it finds
\* and is at `found`, goes on to the next slot, or behind the last is at `none`.
Look(queue, task, found, none) ==
  LET item == queue[task.cmd] IN
  CASE item # 0 -> [task EXCEPT !.at = found, !.item = item]
    [] item = 0 /\ task.cmd < Commands - 1 -> [task EXCEPT !.cmd = @ + 1]
    [] item = 0 /\ task.cmd = Commands - 1 -> [task EXCEPT !.at = none, !.cmd = 0]
Connection ==
  [connected : BOOLEAN, subscribed : BOOLEAN, advertising : BOOLEAN,
   refused : BOOLEAN, disconnects : 0 .. MaxDisconnects]

\* The link when it is down, for the n-th time: any of the calls that start the
\* advertising may fail, of which refused is a history, and nobody tries again.
start_advertising(n) ==
  {[connected |-> FALSE, subscribed |-> FALSE, advertising |-> ok,
    refused |-> ~ok, disconnects |-> n] : ok \in BOOLEAN}

Init ==
  /\ extRequests = EmptyBox /\ extEvents = EmptyBox
  /\ buffer = Empty
  /\ indicate_type = {}
  /\ patient \in BOOLEAN
  /\ conn \in start_advertising(0)
  /\ conn_context = [notify |-> FALSE, indicate |-> FALSE]
  /\ head = FirstPop
  /\ status = Waiting
  /\ host = "idle"
  /\ wrote = <<>> /\ served = <<>> /\ told = {}

-----------------------------------------------------------------------------
(***************************************************************************)
(* The host task: connections, writes, reads.                              *)
(***************************************************************************)
\* A patient host has had the answer to all it wrote.
MayOperate ==
  /\ conn.connected
  /\ host = "idle"
  /\ patient => conn.subscribed /\ \A id \in 1 .. Len(wrote) : id \in told

LinkOnly == UNCHANGED <<mail, buffer, indicate_type, patient, conn_context, tasks,
                        history>>

\* A connection ends the advertising.
connect ==
  /\ conn.advertising
  /\ conn' = [conn EXCEPT !.connected = TRUE, !.advertising = FALSE]
  /\ LinkOnly

\* Mutant: a connection that fails is taken for one that has been made.
connect_failed_mutant ==
  /\ conn.advertising
  /\ conn' = [conn EXCEPT !.advertising = FALSE]
  /\ LinkOnly
\* A connection that fails ends it, too, as may the stack by itself.
connect_failed ==
  /\ conn.advertising
  /\ conn' \in start_advertising(conn.disconnects)
  /\ LinkOnly

disconnect ==
  /\ conn.connected /\ host = "idle"
  /\ ~patient /\ conn.disconnects < MaxDisconnects
  /\ conn' \in start_advertising(conn.disconnects + 1)
  /\ LinkOnly

\* The subscribe event: once set, the two flags stay.
subscribe ==
  /\ conn.connected /\ ~conn.subscribed /\ host = "idle"
  /\ conn' = [conn EXCEPT !.subscribed = TRUE]
  /\ conn_context' = [notify |-> TRUE, indicate |-> TRUE]
  /\ UNCHANGED <<mail, buffer, indicate_type, patient, tasks, history>>

\* A write fills the slot of its command and clears the buffer behind itself.
handle_writes(c) ==
  /\ MayOperate
  /\ Len(wrote) < MaxWrites
  /\ wrote' = Append(wrote, c)
  /\ extRequests' = [extRequests EXCEPT ![c] = Len(wrote) + 1]
  /\ host' = "reset"
  /\ UNCHANGED <<extEvents, buffer, indicate_type, link, head,
                 status, served, told>>

\* A write of a command that there is not: only the buffer is cleared.
unrecognized ==
  /\ MayOperate
  /\ host' = "reset"
  /\ UNCHANGED <<mail, buffer, indicate_type, link, head, status, history>>

reset_buffer ==
  /\ host = "reset"
  /\ host' = "idle"
  /\ buffer' = Empty
  /\ UNCHANGED <<mail, indicate_type, link, head, status, history>>

\* A read of the node states (or durations, or configuration) fills the
\* buffer, and copies it into the answer, whatever the buffer holds by then.
handle_reads ==
  /\ MayOperate
  /\ host' = "answer"
  /\ buffer' = States
  /\ UNCHANGED <<mail, indicate_type, link, head, status, history>>

handle_service_read ==
  /\ host = "answer"
  /\ host' = "idle"
  /\ UNCHANGED <<mail, buffer, indicate_type, link, head, status, history>>

-----------------------------------------------------------------------------
(***************************************************************************)
(* The head task: pop finds a slot, copies it and clears it.               *)
(***************************************************************************)
HeadStays == UNCHANGED <<buffer, link, status, host, wrote, told>>

\* Mutant: the search goes one slot too far.
pop_request_mutant ==
  /\ head.at = "pop"
  /\ head' = IF extRequests[head.cmd] # 0
             THEN [head EXCEPT !.at = "copy", !.item = extRequests[head.cmd]]
             ELSE [head EXCEPT !.cmd = @ + 1]
  /\ UNCHANGED <<mail, indicate_type, served>>
  /\ HeadStays
pop_request ==
  /\ head.at = "pop"
  /\ head' = Look(extRequests, head, "copy", "count")
  /\ UNCHANGED <<mail, indicate_type, served>>
  /\ HeadStays

copy_request ==
  /\ head.at = "copy"
  /\ head' = [head EXCEPT !.at = "clear", !.rest = extRequests[head.cmd]]
  /\ UNCHANGED <<mail, indicate_type, served>>
  /\ HeadStays

\* Mutant: the slot is left as it is.
clear_request_mutant ==
  /\ head.at = "clear"
  /\ head' = [head EXCEPT !.at = "answer"]
  /\ UNCHANGED <<mail, indicate_type, served>>
  /\ HeadStays
clear_request ==
  /\ head.at = "clear"
  /\ extRequests' = [extRequests EXCEPT ![head.cmd] = 0]
  /\ head' = [head EXCEPT !.at = "answer"]
  /\ UNCHANGED <<extEvents, indicate_type, served>>
  /\ HeadStays

\* Mutant: the next pop goes on behind the slot that has been served.
put_event_mutant ==
  /\ head.at = "answer"
  /\ patient => host # "reset"
  /\ served' = Append(served, <<head.item, head.rest>>)
  /\ extEvents' = [extEvents EXCEPT ![head.cmd] = head.rest]
  /\ head' = [FirstPop EXCEPT !.cmd = head.cmd]
  /\ UNCHANGED <<extRequests, indicate_type>>
  /\ HeadStays
\* Serving a request ends with putEvents, and the next pop begins.  For a patient
\* host the write that is answered has returned by then: the host task has
\* priority 4, the head 2.
put_event ==
  /\ head.at = "answer"
  /\ patient => host # "reset"
  /\ served' = Append(served, <<head.item, head.rest>>)
  /\ extEvents' = [extEvents EXCEPT ![head.cmd] = head.rest]
  /\ head' = FirstPop
  /\ UNCHANGED <<extRequests, indicate_type>>
  /\ HeadStays

\* Mutant: only the slot of the first command is counted.
count_event_mutant ==
  /\ head.at = "count"
  /\ head' = [head EXCEPT !.at = "notify", !.item = extEvents[0]]
  /\ UNCHANGED <<mail, indicate_type, served>>
  /\ HeadStays
\* peek_event_count, up to the first that counts: what matters is whether any does.
count_event ==
  /\ head.at = "count"
  /\ head' = Look(extEvents, head, "notify", "notify")
  /\ UNCHANGED <<mail, indicate_type, served>>
  /\ HeadStays

\* The end of a pass: set the bits; the node states may have changed.
notify ==
  /\ head.at = "notify"
  /\ \E node_change \in SUBSET {"NODE_CHANGE"} :
       indicate_type' = indicate_type \cup node_change
         \cup (IF head.item # 0 THEN {"EXT_RESPONSE"} ELSE {})
  /\ head' = FirstPop
  /\ UNCHANGED <<mail, served>>
  /\ HeadStays

-----------------------------------------------------------------------------
(***************************************************************************)
(* The status task.                                                        *)
(***************************************************************************)
StatusStays == UNCHANGED <<extRequests, link, head, host, wrote, served>>

wake ==
  /\ status.at = "wait"
  /\ indicate_type # {}
  /\ status' = [status EXCEPT !.at = "indicate", !.bits = indicate_type]
  /\ indicate_type' = {}
  /\ UNCHANGED <<extEvents, buffer, told>>
  /\ StatusStays

\* ble_gatts_indicate reads the node states.
indicate ==
  /\ status.at = "indicate"
  /\ status' = [status EXCEPT !.at = "read"]
  /\ buffer' = IF "NODE_CHANGE" \in status.bits /\ conn_context.indicate
               THEN States ELSE buffer
  /\ UNCHANGED <<extEvents, indicate_type, told>>
  /\ StatusStays

\* ble_gatts_notify reads the event: it empties the buffer, and
read_event ==
  /\ status.at = "read"
  /\ IF "EXT_RESPONSE" \in status.bits /\ conn_context.notify
     THEN status' = [status EXCEPT !.at = "pop"] /\ buffer' = Empty
     ELSE status' = Waiting /\ UNCHANGED buffer
  /\ UNCHANGED <<extEvents, indicate_type, told>>
  /\ StatusStays

\* popEvent searches, copies and clears.
pop_event ==
  /\ status.at = "pop"
  /\ status' = Look(extEvents, status, "clear", "send")
  /\ UNCHANGED <<extEvents, buffer, indicate_type, told>>
  /\ StatusStays

clear_event ==
  /\ status.at = "clear"
  /\ extEvents' = [extEvents EXCEPT ![status.cmd] = 0]
  /\ status' = [status EXCEPT !.at = "fill"]
  /\ UNCHANGED <<buffer, indicate_type, told>>
  /\ StatusStays

\* Mutant: an event that is found is treated as none.
fill_mutant ==
  /\ status.at = "fill"
  /\ status' = Waiting
  /\ UNCHANGED <<extEvents, buffer, indicate_type, told>>
  /\ StatusStays
fill ==
  /\ status.at = "fill"
  /\ buffer' = status.item
  /\ status' = [status EXCEPT !.at = "send"]
  /\ UNCHANGED <<extEvents, indicate_type, told>>
  /\ StatusStays

\* What the buffer holds goes out, if there is a connection: the event, unless
\* the buffer has been used for something else since.
send ==
  /\ status.at = "send"
  /\ told' = IF conn.connected /\ buffer = status.item
             THEN told \cup ({status.item} \cap Writes) ELSE told
  /\ status' = Waiting
  /\ UNCHANGED <<extEvents, buffer, indicate_type>>
  /\ StatusStays

-----------------------------------------------------------------------------
HostTask ==
  \/ connect \/ connect_failed \/ disconnect \/ subscribe
  \/ \E c \in Cmd : handle_writes(c)
  \/ unrecognized \/ handle_reads
HostAnswer == reset_buffer \/ handle_service_read
HeadTask ==
  \/ pop_request \/ copy_request \/ clear_request \/ put_event
  \/ count_event \/ notify
StatusTask ==
  \/ wake \/ indicate \/ read_event \/ pop_event \/ clear_event
  \/ fill \/ send

Next == HostTask \/ HostAnswer \/ HeadTask \/ StatusTask

\* Every task is scheduled; when to operate is the host's choice.
Fairness == WF_vars(HostAnswer) /\ WF_vars(HeadTask) /\ WF_vars(StatusTask)

Spec == Init /\ [][Next]_vars /\ Fairness
-----------------------------------------------------------------------------
\* Type correctness.
TypeOK ==
  /\ extRequests \in [Cmd -> 0 .. MaxWrites]
  /\ extEvents \in [Cmd -> 0 .. MaxWrites]
  /\ buffer \in {Empty, States} \cup Writes
  /\ indicate_type \subseteq {"NODE_CHANGE", "EXT_RESPONSE"}
  /\ patient \in BOOLEAN
  /\ conn \in Connection
  /\ head \in HeadState
  /\ status \in StatusState
  /\ told \subseteq Writes

\* Whatever the host overwrites, and whenever: of one command, no request is
\* served twice or after a later one, in whole or in part (ExtRqManager::put
\* and pop).
ServedInOrder ==
  \A i, j \in DOMAIN served :
    i < j /\ wrote[served[i][1]] = wrote[served[j][1]]
      => served[i][2] < served[j][1]

\* A request is served, or a later one of the same command in its place:
\* docs/ble_reads.md:288, "Events provide asynchronous responses to commands
\* previously sent by the host."
WrittenIsServed ==
  \A id \in Writes :
    id <= Len(wrote)
      ~> \E i \in DOMAIN served :
           served[i][2] >= id /\ wrote[served[i][2]] = wrote[id]

\* For a host that stays and waits for its answers, an event that has been put
\* is in the mailbox or in the hands of the status task until it has been sent,
\* in a packet that holds nothing else, whatever reads and indications of the
\* node states do with the buffer meanwhile (StatusTask, BLELinkInterface).
NoEventDropped ==
  patient => \A i \in DOMAIN served :
    LET id == served[i][2] IN
      \/ id \in told
      \/ extEvents[wrote[id]] = id
      \/ status.at \in {"fill", "send"} /\ status.item = id

\* ... and it does get the answer to every one of its writes: no request is lost
\* between the mailboxes, no event for want of a notification bit.
WrittenIsTold == \A id \in Writes : patient /\ id <= Len(wrote) ~> id \in told

\* The device is never beyond reach while the stack does what it is asked: it is
\* connected or it advertises, unless the last try to advertise was refused
\* (every way on from an advertisement or a connection leads to another try:
\* on_stack_sync, gap_event_handler).
StaysReachable == conn.connected \/ conn.advertising \/ conn.refused

\* Whatever is put while a pop looks through the slots, in both mailboxes and for
\* any host: the pop takes an item, whole and once, and passes over no slot that
\* was filled when it began; only what is put behind it meanwhile is left for
\* the next.  A put during the copy of its own slot may be lost, which
\* WrittenIsServed is about.
Held(queue, task, places) ==
  [c \in Cmd |-> IF task.at \in places /\ task.cmd = c THEN 0 ELSE queue[c]]
Behind(queue, task) ==
  {c \in Cmd : task.at = "pop" /\ c < task.cmd /\ queue[c] # 0}
Requests == INSTANCE Mailbox WITH
  Items <- Writes, slots <- Held(extRequests, head, {"copy", "clear"}),
  popping <- head.at = "pop", overlooked <- Behind(extRequests, head)
Events == INSTANCE Mailbox WITH
  Items <- Writes, slots <- Held(extEvents, status, {"clear"}),
  popping <- status.at = "pop", overlooked <- Behind(extEvents, status)
ImplementsMailbox == Requests!Spec /\ Events!Spec
=============================================================================
