------------------------------ MODULE HeadTask ------------------------------
(***************************************************************************)
(* The loop of the head task (tasks/head_task.cpp) and the two mailboxes   *)
(* it shares with the Bluetooth host task (core/include/                   *)
(* external_requests.hpp).  One pass of the loop takes a frame, acts on    *)
(* its own (pairing, or watering), serves the requests of the host and     *)
(* tells the status task what there is to tell.  A pass is cut where       *)
(* another task can see or change something: after each operation of Head, *)
(* and at every request.                                                   *)
(*                                                                         *)
(* A mailbox has one slot per command, so it is a set of requests with     *)
(* different types.  A pop of the head task looks at the slots one after   *)
(* the other, and the host task, of higher priority, may put a request in  *)
(* between: in front of the search, which then meets it, or behind it.     *)
(* Between two puts nobody sees how far the search is, so that is settled  *)
(* when a put comes.  The copy that a pop makes, and its clearing of the   *)
(* slot, are the subject of HostLink.                                      *)
(***************************************************************************)
EXTENDS Head

CONSTANTS
  HostRequests,   \* the requests a host may write
  MaxWrites       \* how many writes of the host are explored

VARIABLES
  pc,             \* where the loop is
  before_status,  \* the node statuses at the top of the loop
  node_change,    \* whether the frame part of the pass has changed them
  indicate_type,  \* the bits the status task has been notified of and not read
  extRequests,
  extEvents,
  slot,           \* no slot before this one will be looked at by this pop
  late,           \* the types that this pop may overlook: put, since it began,
                  \*   into a slot that was empty; a history
  writes          \* writes of the host so far

search == <<slot, late>>
taskVars == <<pc, before_status, node_change, indicate_type, extRequests,
              extEvents, search, writes>>
allVars == <<vars, taskVars>>

Cmds == {"WRITE_CONF_TIME", "WRITE_NODE_DURATION", "WRITE_NODE_CYCLE",
         "WRITE_CONF_TIME_PHASE", "INIT_PAIRING"}
\* The place of each command in the enumeration, and so in the mailboxes.
to_i == [WRITE_CONF_TIME |-> 0, WRITE_NODE_DURATION |-> 1,
         WRITE_NODE_CYCLE |-> 2, WRITE_CONF_TIME_PHASE |-> 3,
         INIT_PAIRING |-> 4]

Request ==
       {[type |-> "INIT_PAIRING"], [type |-> "WRITE_CONF_TIME"],
        [type |-> "WRITE_CONF_TIME_PHASE"]}
  \cup {[type |-> "WRITE_NODE_DURATION", addr |-> a, duration |-> d] :
          a \in Addr \cup {ADDR_UNSET}, d \in Durations}
  \cup {[type |-> "WRITE_NODE_CYCLE", addr |-> a, cycle |-> c] :
          a \in Addr \cup {ADDR_UNSET}, c \in SUBSET Phases}
PairingRequest == [type |-> "INIT_PAIRING"]

ASSUME HostRequestsAssumption == HostRequests \subseteq Request
ASSUME MaxWritesAssumption == MaxWrites \in Nat

get_node_statuses == [a \in Addr |-> get_node_status(a)]

\* A put overwrites the slot of its type.
put(queue, item) == {q \in queue : q.type # item.type} \cup {item}
\* What the search has not passed, and what it takes of that: the least.
ahead == {q \in extRequests : to_i[q.type] >= slot}
next_request == {q \in ahead : \A p \in ahead : to_i[q.type] <= to_i[p.type]}
new_pop == slot' = 0 /\ late' = {}

TaskInit ==
  /\ Init
  /\ pc = "receive"
  /\ before_status = get_node_statuses
  /\ node_change = FALSE
  /\ indicate_type = {}
  /\ extRequests = {PairingRequest}     \* HeadEntrypointTask::init
  /\ extEvents = {}
  /\ slot = 0 /\ late = {}
  /\ writes = 0

-----------------------------------------------------------------------------
\* The end of the part of the loop that moves frames.
compare_statuses ==
  /\ pc' = "requests"
  /\ node_change' = (before_status # get_node_statuses')

\* Take `frame` from the queue and handle it, or NoFrame after 100 ms.
receive(frame) ==
  /\ pc = "receive"
  /\ ~panicked
  /\ before_status' = get_node_statuses
  /\ IF frame = NoFrame
     THEN /\ returned' = NoFrame
          /\ UNCHANGED <<node_link, roundVars, no_response_pairing_count,
                         time_pool, nvs, panicked>>
     ELSE handle_incoming_frame(frame)
  /\ pc' = "act"
  /\ UNCHANGED <<node_change, indicate_type, extRequests, extEvents, search,
                 writes>>

\* Mutant: the loop ends the pairing itself.
pair_mutant(tick_key) ==
  /\ pc = "act"
  /\ head_status = "PAIRING" /\ ~panicked
  /\ head_status' = "STANDBY"
  /\ returned' = NoFrame
  /\ UNCHANGED <<node_link, active_watering_index, no_response_pairing_count,
                 time_pool, nvs, panicked, before_status, indicate_type,
                 extRequests, extEvents, search, writes>>
  /\ compare_statuses
pair(tick_key) ==
  /\ pc = "act"
  /\ process_pairing(returned # NoFrame, tick_key)
  /\ compare_statuses
  /\ UNCHANGED <<before_status, indicate_type, extRequests, extEvents, search, writes>>

schedule(due, phase) ==
  /\ pc = "act"
  /\ head_status # "PAIRING"
  /\ process_watering_schedule(due, phase)
  /\ IF head_status' = "WATERING_CMDS"
     THEN pc' = "command" /\ UNCHANGED node_change
     ELSE compare_statuses
  /\ UNCHANGED <<before_status, indicate_type, extRequests, extEvents, search, writes>>

command ==
  /\ pc = "command"
  /\ next_watering_frame
  /\ compare_statuses
  /\ UNCHANGED <<before_status, indicate_type, extRequests, extEvents, search, writes>>

-----------------------------------------------------------------------------
(***************************************************************************)
(* process_external_requests.  The two requests to the clock only leave    *)
(* their answer here.                                                      *)
(***************************************************************************)
Answer(type, status) ==
  extEvents' = put(extEvents, [type |-> type, status |-> status])

Serve(r) ==
  \/ /\ r.type = "INIT_PAIRING"
     /\ init_pairing_mode
     /\ pc' = "kill_node_task"
     /\ UNCHANGED extEvents
  \/ /\ \E status \in ActionStatus :
          /\ \/ /\ r.type = "WRITE_NODE_DURATION"
                /\ set_node_duration(r.addr, r.duration, status)
             \/ /\ r.type = "WRITE_NODE_CYCLE"
                /\ set_watering_cycle(r.addr, r.cycle, status)
          /\ Answer(r.type, status)
     /\ UNCHANGED pc
  \/ /\ r.type \in {"WRITE_CONF_TIME", "WRITE_CONF_TIME_PHASE"}
     /\ Answer(r.type, "OK")
     /\ ~panicked
     /\ UNCHANGED <<vars, pc>>

\* Mutant: the next pop goes on where this one has stopped.
process_external_request_mutant ==
  /\ pc = "requests"
  /\ \E r \in next_request :
       Serve(r) /\ extRequests' = extRequests \ {r} /\ slot' = to_i[r.type]
  /\ late' = {}
  /\ UNCHANGED <<before_status, node_change, indicate_type, writes>>
process_external_request ==
  /\ pc = "requests"
  /\ \E r \in next_request : Serve(r) /\ extRequests' = extRequests \ {r}
  /\ new_pop
  /\ UNCHANGED <<before_status, node_change, indicate_type, writes>>

\* Mutant: pairing has no answer.
node_task_killed_mutant ==
  /\ pc = "kill_node_task"
  /\ pc' = "requests"
  /\ UNCHANGED <<vars, before_status, node_change, indicate_type, extRequests,
                 extEvents, search, writes>>

\* kill_node_task_fn has returned.
node_task_killed ==
  /\ pc = "kill_node_task"
  /\ Answer("INIT_PAIRING", "OK")
  /\ pc' = "requests"
  /\ UNCHANGED <<vars, before_status, node_change, indicate_type, extRequests, search,
                 writes>>

\* Mutant: one event alone is not worth a notification.
notify_mutant ==
  /\ pc = "requests"
  /\ ahead = {}
  /\ indicate_type' = indicate_type \cup
       (IF Cardinality(extEvents) > 1 THEN {"EXT_RESPONSE"} ELSE {})
  /\ UNCHANGED node_change
  /\ pc' = "receive"
  /\ new_pop
  /\ UNCHANGED <<vars, before_status, extRequests, extEvents, writes>>

\* No request is found: notify the status task of what the frame part of the
\* pass has changed and of events; what the requests have changed is not told.
notify ==
  /\ pc = "requests"
  /\ ahead = {}
  /\ indicate_type' = indicate_type \cup
       (IF extEvents # {} THEN {"EXT_RESPONSE"} ELSE {}) \cup
       (IF node_change THEN {"NODE_CHANGE"} ELSE {})
  /\ node_change' = FALSE
  /\ pc' = "receive"
  /\ new_pop
  /\ UNCHANGED <<vars, before_status, extRequests, extEvents, writes>>

-----------------------------------------------------------------------------
(***************************************************************************)
(* The other tasks.                                                        *)
(***************************************************************************)

\* handle_writes, in the Bluetooth host task.  The search may be past the slot
\* by now, unless there is something up to it that it would have taken.
putRequest(r) ==
  /\ writes < MaxWrites
  /\ writes' = writes + 1
  /\ extRequests' = put(extRequests, r)
  /\ \/ UNCHANGED slot
     \/ /\ pc = "requests" /\ slot <= to_i[r.type]
        /\ \A q \in ahead : to_i[q.type] > to_i[r.type]
        /\ slot' = to_i[r.type] + 1
  /\ late' = IF pc = "requests" /\ \A q \in extRequests : q.type # r.type
             THEN late \cup {r.type} ELSE late
  /\ UNCHANGED <<vars, pc, before_status, node_change, indicate_type, extEvents>>

\* The status task: with the EXT_RESPONSE bit, one event goes to the host; which
\* one a search takes depends on what is put behind it.
status_task ==
  /\ indicate_type # {}
  /\ indicate_type' = {}
  /\ IF "EXT_RESPONSE" \in indicate_type /\ extEvents # {}
     THEN \E e \in extEvents : extEvents' = extEvents \ {e}
     ELSE UNCHANGED extEvents
  /\ UNCHANGED <<vars, pc, before_status, node_change, extRequests, search, writes>>

\* The processor restarts: RAM is lost, the flash is not.
restart ==
  /\ Reboot
  /\ pc' = "receive"
  /\ before_status' = [a \in Addr |-> "NODE_NONEXISTANT"]
  /\ node_change' = FALSE
  /\ indicate_type' = {}
  /\ extRequests' = {PairingRequest}
  /\ extEvents' = {}
  /\ new_pop
  /\ UNCHANGED writes

HeadLoop ==
  \/ \E frame \in IncomingFrame \cup {NoFrame} : receive(frame)
  \/ \E key \in Keys : pair(key)
  \/ \E due \in BOOLEAN, phase \in Phases : schedule(due, phase)
  \/ command
  \/ process_external_request
  \/ node_task_killed
  \/ notify

TaskNext ==
  \/ HeadLoop
  \/ \E r \in HostRequests : putRequest(r)
  \/ status_task
  \/ panicked /\ restart

\* The scheduler runs every task that is ready (vTaskDelay and the queue
\* timeouts bound every wait), and a panic restarts the processor.
TaskFairness ==
  WF_allVars(HeadLoop) /\ WF_allVars(status_task) /\ WF_allVars(panicked /\ restart)
TaskSpec == TaskInit /\ [][TaskNext]_allVars /\ TaskFairness

-----------------------------------------------------------------------------
\* The loop runs the operations of Head and nothing else, so that what holds
\* of Head holds of it: it is one of the orders of calls Head allows.
ImplementsHead == Spec

\* The order of the mailbox protects what is asked before a pairing: what stood
\* there when the head began to look is served first ("Init_pairing should be the
\* last thing since node durations will be reset with init pairing",
\* core/include/ble_types.hpp).  Only what is put behind the search meanwhile
\* comes after it, even if it was written before the pairing was asked for.
StandingBeforePairing ==
  [][pc = "requests" /\ pc' = "kill_node_task" =>
       \A r \in extRequests \ {PairingRequest} : r.type \in late]_allVars

\* A request that has been written is served, and the answer to it stands or
\* has been read, unless the processor restarts: the loop drains the mailbox
\* however the host's writes and its own passes interleave.
RequestsAreServed ==
  \A t \in {r.type : r \in HostRequests} :
    (\E r \in extRequests : r.type = t)
      ~> ((\E e \in extEvents : e.type = t) \/ panicked)

\* An event is told to the host, one at a time, however many are waiting: the
\* loop repeats the EXT_RESPONSE bit as long as one is left.
EventsAreTold ==
  \A t \in {r.type : r \in HostRequests} :
    (\E e \in extEvents : e.type = t) ~> (\A e \in extEvents : e.type # t)
=============================================================================
