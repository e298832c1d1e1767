-------------------------------- MODULE Head --------------------------------
(***************************************************************************)
(* The class Head (core/src/head.cpp): the controller's table of nodes,    *)
(* its watering round and its pairing mode.  One action per operation; the *)
(* operations may be called in any order and with any argument here, so    *)
(* whatever is proved of this module holds of every caller.  HeadTask      *)
(* restricts the order to the loop of the head task, System restricts the  *)
(* frames to the ones that nodes really send.                              *)
(*                                                                         *)
(* A node pointer that is null is NullNode; an optional index that is      *)
(* nullopt is NoIndex; a returned frame that is nullopt is NoFrame.  A     *)
(* failed assert and a dereferenced null pointer both end in the panic     *)
(* handler, which is the state  panicked = TRUE;  the way out is Reboot.   *)
(***************************************************************************)
EXTENDS Protocol, FiniteSets

CONSTANTS
  Keys,              \* the node keys in use, 0 (a key never set) among them
  Durations,         \* the hose durations a host may write
  Phases,            \* the days of the watering cycle
  PhaseLength,       \* the seconds a phase can hand out to its nodes
  StopPairingCount,  \* STOP_PAIRING_COUNT
  RetryMax,          \* RETRY_NODE_MAX
  RetryWidth,        \* number of values of the retry counter, a uint8_t
  FlashMayFail       \* the addresses at whose writes the flash may fail; if
                     \* there are any, it may fail to be read, too

ASSUME MaxNodesAssumption == MaxNodes \in Nat \ {0}
ASSUME PhasesAssumption == Phases # {}
ASSUME KeysAssumption == Keys \subseteq Nat /\ 0 \in Keys
ASSUME DurationsAssumption == Durations \subseteq Nat /\ 0 \in Durations
ASSUME PhaseLengthAssumption == PhaseLength \in Nat
ASSUME StopAssumption == StopPairingCount \in Nat \ {0}
ASSUME RetryAssumption ==
  RetryMax \in Nat \ {0} /\ RetryWidth \in Nat /\ RetryMax < RetryWidth

VARIABLES
  node_link,                  \* the node at each address
  head_status,
  active_watering_index,      \* the address being watered
  no_response_pairing_count,  \* silent iterations of the pairing loop
  time_pool,                  \* seconds of the phase not handed out
  storage,                    \* duration and cycle of each address, to persist
  flash,                      \* what a restart reads back
  mounted,                    \* NvsStorage::initialized
  saved,                      \* history: whether all of storage is in the flash
  returned,                   \* the frame the last operation returned
  panicked

roundVars == <<head_status, active_watering_index>>
nvs == <<storage, flash, mounted, saved>>
vars == <<node_link, head_status, active_watering_index,
          no_response_pairing_count, time_pool, nvs, returned, panicked>>

Addr == 0 .. MaxNodes - 1
NoIndex == -1

HeadStatus == {"PAIRING", "STANDBY", "FAULTY_NODE", "WATERING_CMDS"}
NodeStatus == {"INITIALIZING", "READY", "IN_QUEUE", "COMMAND_SENT",
               "WATERING", "ERR", "INVALID_TIME"}
\* What a SelfNode can put in the data of a STATUS frame.
ReportedStatus == {"INITIALIZING", "READY", "WATERING", "ERR"}

Schedule == [duration : Durations, cycle : SUBSET Phases]
Node == [id_key : Keys, node_status : NodeStatus,
         retry_attempts : 0 .. RetryWidth - 1,
         hose_duration : Durations, water_cycle : SUBSET Phases]
NullNode == [node_status |-> "NODE_NONEXISTANT"]

(***************************************************************************)
(* The frames the head builds, and the ones it can find in its queue.      *)
(***************************************************************************)
\* Mutant: addresses are counted from 1.
create_addressing_frame_mutant(key, addr) == AddressingFrame(key, addr + 1)
create_addressing_frame(key, addr) == AddressingFrame(key, addr)
create_watering_frame(addr) == WateringFrame(addr, node_link[addr].hose_duration)
create_status_frame(addr) == StatusFrame(addr)

IncomingFrame ==
       {DiscoveryFrame(k, 2) : k \in Keys}
  \cup {AddressingFrame(k, a) : k \in Keys, a \in Addr \cup {ADDR_UNSET}}
  \cup {AckFrame(a) : a \in Addr}
  \cup {StatusReply(a, s) : a \in Addr, s \in ReportedStatus}

-----------------------------------------------------------------------------
(***************************************************************************)
(* Reading the table.                                                      *)
(***************************************************************************)
Exists(a) == a \in Addr /\ node_link[a] # NullNode
get_node_status(a) == node_link[a].node_status

\* The least element of a set of addresses, as a set; nullopt if there is none.
FirstOf(S) ==
  IF S = {} THEN {NoIndex} ELSE {a \in S : \A b \in S : a <= b}

\* The address the table holds this key at, or the first free one.
get_node_addr_by_key(key) ==
  FirstOf({a \in Addr : Exists(a) /\ node_link[a].id_key = key})
\* Mutant: the search runs from the top.
get_available_address_mutant ==
  LET free == {a \in Addr : ~Exists(a)} IN
  IF free = {} THEN {NoIndex} ELSE {a \in free : \A b \in free : b <= a}
get_available_address == FirstOf({a \in Addr : ~Exists(a)})

is_node_watering_this_phase(a, phase) ==
  /\ Exists(a)
  /\ phase \in node_link[a].water_cycle
  /\ node_link[a].hose_duration # 0

\* What all the nodes leave of the phase when the one at `addr` counts with
\* `duration`; pool[n] is what the nodes below address n leave.
calculate_new_time_pool(addr, duration) ==
  LET seconds(a) == IF a = addr THEN duration
                    ELSE IF Exists(a) THEN node_link[a].hose_duration ELSE 0
      pool[n \in 0 .. MaxNodes] ==
        IF n = 0 THEN PhaseLength ELSE pool[n - 1] - seconds(n - 1)
  IN  pool[MaxNodes]

-----------------------------------------------------------------------------
(***************************************************************************)
(* Initial state: the constructor, with whatever the flash holds.          *)
(***************************************************************************)
Init ==
  /\ node_link = [a \in Addr |-> NullNode]
  /\ head_status = "STANDBY"
  /\ active_watering_index = NoIndex
  /\ no_response_pairing_count = 0
  /\ time_pool = PhaseLength
  /\ storage \in [Addr -> Schedule] /\ flash = storage
  /\ mounted = TRUE /\ saved = TRUE
  /\ returned = NoFrame
  /\ panicked = FALSE

\* Mutant: the index is not reset.
conclude_watering_mutant(resolve_status) ==
  head_status' = resolve_status /\ UNCHANGED active_watering_index
conclude_watering(resolve_status) ==
  /\ active_watering_index' = NoIndex
  /\ head_status' = resolve_status

\* assert(...) and the null pointer dereference.
Panic ==
  /\ panicked' = TRUE
  /\ returned' = NoFrame
  /\ UNCHANGED <<node_link, roundVars, no_response_pairing_count, time_pool,
                 nvs>>

-----------------------------------------------------------------------------
(***************************************************************************)
(* Pairing: who is at which address.                                       *)
(***************************************************************************)
NewNode(key, a) ==
  [id_key |-> key, node_status |-> "INITIALIZING", retry_attempts |-> 0,
   hose_duration |-> storage[a].duration, water_cycle |-> storage[a].cycle]

\* Mutant: the key is not looked up first.
create_node_pending_mutant(key, addr) ==
  /\ addr \in get_available_address
  /\ node_link' = IF addr = NoIndex THEN node_link
                  ELSE [node_link EXCEPT ![addr] = NewNode(key, addr)]

\* The address of the key, given to it now if it has none; NoIndex if the
\* table is full.
create_node_pending(key, addr) ==
  \/ /\ addr \in get_node_addr_by_key(key) \ {NoIndex}
     /\ UNCHANGED node_link
  \/ /\ NoIndex \in get_node_addr_by_key(key)
     /\ addr \in get_available_address
     /\ node_link' = IF addr = NoIndex THEN node_link
                     ELSE [node_link EXCEPT ![addr] = NewNode(key, addr)]

handle_discovery(key) ==
  \E addr \in Addr \cup {NoIndex} :
    /\ create_node_pending(key, addr)
    /\ returned' = IF addr = NoIndex THEN NoFrame
                   ELSE create_addressing_frame(key, addr)
    /\ UNCHANGED <<roundVars, panicked>>

confirm_node_pending(key, addr) ==
  /\ Exists(addr)
  /\ node_link[addr].id_key = key
  /\ node_link' = [node_link EXCEPT ![addr].node_status = "READY"]

handle_addressing(key, addr) ==
  \/ /\ confirm_node_pending(key, addr)
     /\ returned' = AckFrame(addr)
     /\ UNCHANGED <<roundVars, panicked>>
  \/ \* LINK_INVALID_INDEX or LINK_KEY_MISMATCH: try again, or fall through
     /\ addr \in Addr => Exists(addr) /\ node_link[addr].id_key # key
     /\ \E new \in Addr \cup {NoIndex} :
          /\ create_node_pending(key, new)
          /\ returned' = IF new = NoIndex THEN AckFrame(addr)
                         ELSE create_addressing_frame(key, new)
     /\ UNCHANGED <<roundVars, panicked>>
  \/ \* assert(confirmed_node != nullptr)
     /\ addr \in Addr /\ ~Exists(addr)
     /\ Panic

\* Mutant: the silence is compared after it is counted, with > for >=.
process_pairing_mutant(heard, tick_key) ==
  /\ ~panicked
  /\ head_status = "PAIRING"
  /\ no_response_pairing_count' =
       IF heard THEN 0 ELSE no_response_pairing_count + 1
  /\ head_status' = IF no_response_pairing_count' > StopPairingCount
                    THEN "STANDBY" ELSE "PAIRING"
  /\ returned' = IF heard THEN NoFrame ELSE DiscoveryFrame(tick_key, 0)
  /\ UNCHANGED <<node_link, active_watering_index, time_pool, nvs, panicked>>

\* Mutant: the count starts again before it gets to the limit.
process_pairing_endless(heard, tick_key) ==
  /\ ~panicked
  /\ head_status = "PAIRING"
  /\ no_response_pairing_count' =
       IF heard THEN 0 ELSE (no_response_pairing_count + 1) % StopPairingCount
  /\ returned' = IF heard THEN NoFrame ELSE DiscoveryFrame(tick_key, 0)
  /\ UNCHANGED <<node_link, roundVars, time_pool, nvs, panicked>>

\* Mutant: an answer does not start the count again.
process_pairing_impatient(heard, tick_key) ==
  /\ ~panicked
  /\ head_status = "PAIRING"
  /\ IF no_response_pairing_count >= StopPairingCount
     THEN head_status' = "STANDBY" /\ no_response_pairing_count' = 0
     ELSE head_status' = "PAIRING"
          /\ no_response_pairing_count' = no_response_pairing_count + 1
  /\ returned' = IF heard \/ head_status' = "STANDBY" THEN NoFrame
                 ELSE DiscoveryFrame(tick_key, 0)
  /\ UNCHANGED <<node_link, active_watering_index, time_pool, nvs, panicked>>

(***************************************************************************)
(* One iteration of the pairing loop; `heard` tells whether the iteration  *)
(* has answered a frame.  The DISCOVERY frame sets its data and not its    *)
(* data_length.                                                            *)
(***************************************************************************)
process_pairing(heard, tick_key) ==
  /\ ~panicked
  /\ head_status = "PAIRING"
  /\ IF no_response_pairing_count >= StopPairingCount
     THEN /\ head_status' = "STANDBY"          \* end_pairing_mode
          /\ no_response_pairing_count' = 0
          /\ returned' = NoFrame
     ELSE /\ no_response_pairing_count' =
               IF heard THEN 0 ELSE no_response_pairing_count + 1
          /\ returned' = IF heard THEN NoFrame ELSE DiscoveryFrame(tick_key, 0)
          /\ UNCHANGED head_status
  /\ UNCHANGED <<node_link, active_watering_index, time_pool, nvs,
                 panicked>>

\* Mutant: the nodes that are ready keep their addresses.
init_pairing_mode_mutant ==
  /\ ~panicked
  /\ conclude_watering("PAIRING")
  /\ node_link' = [a \in Addr |-> IF get_node_status(a) = "READY"
                                  THEN node_link[a] ELSE NullNode]
  /\ time_pool' = PhaseLength
  /\ returned' = NoFrame
  /\ UNCHANGED <<no_response_pairing_count, nvs, panicked>>

init_pairing_mode ==
  /\ ~panicked
  /\ conclude_watering("PAIRING")
  /\ node_link' = [a \in Addr |-> NullNode]
  /\ time_pool' = PhaseLength
  /\ returned' = NoFrame
  /\ UNCHANGED <<no_response_pairing_count, nvs, panicked>>

-----------------------------------------------------------------------------
(***************************************************************************)
(* Watering: one node after the other.                                     *)
(***************************************************************************)
handle_ack(addr) ==
  \/ /\ Exists(addr)
     /\ node_link' = [node_link EXCEPT ![addr].node_status = "WATERING",
                                       ![addr].retry_attempts = 0]
     /\ returned' = NoFrame
     /\ UNCHANGED <<roundVars, panicked>>
  \/ ~Exists(addr) /\ Panic

\* Mutant: the search starts one address too far.
advance_active_watering_index_mutant(link) ==
  LET next == FirstOf({a \in Addr : a > active_watering_index + 1
                                    /\ link[a].node_status = "IN_QUEUE"})
  IN  \/ NoIndex \in next /\ conclude_watering("STANDBY")
      \/ /\ active_watering_index' \in next \ {NoIndex}
         /\ UNCHANGED head_status

\* The next node of the queue, or the end of the round.
advance_active_watering_index(link) ==
  LET start == IF active_watering_index = NoIndex THEN 0
               ELSE active_watering_index
      next  == FirstOf({a \in Addr : a >= start
                                     /\ link[a].node_status = "IN_QUEUE"})
  IN  \/ NoIndex \in next /\ conclude_watering("STANDBY")
      \/ /\ active_watering_index' \in next \ {NoIndex}
         /\ UNCHANGED head_status

\* Mutant: any node's READY moves the round on.
handle_incoming_node_status_mutant(addr, status) ==
  /\ Exists(addr)
  /\ node_link' = [node_link EXCEPT ![addr].retry_attempts = 0,
                                    ![addr].node_status = status]
  /\ returned' = NoFrame
  /\ \/ status = "READY" /\ advance_active_watering_index(node_link')
     \/ status = "ERR" /\ conclude_watering("FAULTY_NODE")
     \/ status \notin {"READY", "ERR"} /\ UNCHANGED roundVars
  /\ UNCHANGED panicked

\* Mutant: an answer does not clear the retry count.
handle_incoming_node_status_tired(addr, status) ==
  /\ Exists(addr)
  /\ node_link' = [node_link EXCEPT ![addr].node_status = status]
  /\ returned' = NoFrame
  /\ IF status = "READY" /\ addr = active_watering_index
     THEN advance_active_watering_index(node_link') ELSE UNCHANGED roundVars
  /\ UNCHANGED panicked
\* Mutant: after an error the round goes on to the next node.
handle_incoming_node_status_bold(addr, status) ==
  /\ Exists(addr)
  /\ node_link' = [node_link EXCEPT ![addr].retry_attempts = 0,
                                    ![addr].node_status = status]
  /\ returned' = NoFrame
  /\ IF status \in {"READY", "ERR"} /\ addr = active_watering_index
     THEN advance_active_watering_index(node_link') ELSE UNCHANGED roundVars
  /\ UNCHANGED panicked

handle_incoming_node_status(addr, status) ==
  \/ /\ Exists(addr)
     /\ node_link' = [node_link EXCEPT ![addr].retry_attempts = 0,
                                       ![addr].node_status = status]
     /\ returned' = NoFrame
     /\ \/ /\ status = "READY" /\ addr = active_watering_index
           /\ advance_active_watering_index(node_link')
        \/ status = "ERR" /\ conclude_watering("FAULTY_NODE")
        \/ /\ status # "ERR" /\ ~(status = "READY" /\ addr = active_watering_index)
           /\ UNCHANGED roundVars
     /\ UNCHANGED panicked
  \/ ~Exists(addr) /\ Panic

handle_incoming_frame(frame) ==
  /\ ~panicked
  /\ \/ frame.command = "DISCOVERY" /\ handle_discovery(frame.key)
     \/ frame.command = "ADDRESSING" /\ handle_addressing(frame.key, frame.address)
     \/ frame.command = "ACK" /\ handle_ack(frame.address)
     \/ /\ frame.command = "STATUS"
        /\ handle_incoming_node_status(frame.address, frame.status)
  /\ UNCHANGED <<no_response_pairing_count, time_pool, nvs>>

\* The nodes the loop of initialize_watering_states gets to before it meets
\* a node in error, and among them the ones it puts in the queue.
BeforeFault(a) == \A b \in Addr : b <= a => get_node_status(b) # "ERR"
Queued(phase) ==
  {a \in Addr : /\ get_node_status(a) = "READY"
                /\ is_node_watering_this_phase(a, phase)
                /\ BeforeFault(a)}

initialize_watering_states(phase) ==
  /\ node_link' = [a \in Addr |->
       IF a \in Queued(phase)
       THEN [node_link[a] EXCEPT !.node_status = "IN_QUEUE"]
       ELSE node_link[a]]
  /\ IF active_watering_index = NoIndex
     THEN active_watering_index' \in FirstOf(Queued(phase))
     ELSE UNCHANGED active_watering_index
  /\ head_status' = IF \E a \in Addr : get_node_status(a) = "ERR"
                    THEN "FAULTY_NODE" ELSE "WATERING_CMDS"

\* Mutant: a round that is due begins although one is under way.
process_watering_schedule_mutant(due, phase) ==
  /\ ~panicked
  /\ IF due /\ head_status \in {"STANDBY", "WATERING_CMDS"}
     THEN /\ node_link' = [a \in Addr |->
               IF a \in Queued(phase)
               THEN [node_link[a] EXCEPT !.node_status = "IN_QUEUE"]
               ELSE node_link[a]]
          /\ active_watering_index' \in FirstOf(Queued(phase))
          /\ head_status' = "WATERING_CMDS"
     ELSE UNCHANGED <<node_link, roundVars>>
  /\ returned' = NoFrame
  /\ UNCHANGED <<no_response_pairing_count, time_pool, nvs, panicked>>

\* The clock decides whether watering is due and in which phase; the point in
\* time that follows is the clock's (recalculate_next_watering_point).
process_watering_schedule(due, phase) ==
  /\ ~panicked
  /\ IF due /\ head_status = "STANDBY"
     THEN initialize_watering_states(phase)
     ELSE UNCHANGED <<node_link, roundVars>>
  /\ returned' = NoFrame
  /\ UNCHANGED <<no_response_pairing_count, time_pool, nvs, panicked>>

\* Mutant: the attempts start again before they get to the limit.
RetryNode_forever(i) ==
  /\ node_link' = [node_link EXCEPT ![i].retry_attempts = (@ + 1) % RetryMax]
  /\ returned' = IF get_node_status(i) = "COMMAND_SENT"
                 THEN create_watering_frame(i) ELSE create_status_frame(i)
  /\ UNCHANGED roundVars
\* Mutant: the last attempt counts as none.
RetryNode_hasty(i) ==
  /\ node_link' = [node_link EXCEPT ![i].node_status = "ERR"]
  /\ conclude_watering("FAULTY_NODE")
  /\ returned' = NoFrame
\* Mutant: a node that does not answer is left for the next round.
RetryNode_lenient(i) ==
  /\ node_link' = [node_link EXCEPT ![i].node_status = "READY"]
  /\ conclude_watering("STANDBY")
  /\ returned' = NoFrame

\* The node at index i gets one more attempt, or is given up.
RetryNode(i) ==
  LET tries == (node_link[i].retry_attempts + 1) % RetryWidth IN
  IF tries < RetryMax
  THEN /\ node_link' = [node_link EXCEPT ![i].retry_attempts = tries]
       /\ returned' = IF get_node_status(i) = "COMMAND_SENT"
                      THEN create_watering_frame(i) ELSE create_status_frame(i)
       /\ UNCHANGED roundVars
  ELSE /\ node_link' = [node_link EXCEPT ![i].retry_attempts = tries,
                                         ![i].node_status = "ERR"]
       /\ conclude_watering("FAULTY_NODE")
       /\ returned' = NoFrame

next_watering_frame ==
  LET i == active_watering_index
      active == i # NoIndex /\ Exists(i) IN
  /\ ~panicked
  /\ head_status = "WATERING_CMDS"
  /\ \/ /\ active /\ get_node_status(i) = "IN_QUEUE"
        /\ node_link' = [node_link EXCEPT ![i].node_status = "COMMAND_SENT"]
        /\ returned' = create_watering_frame(i)
        /\ UNCHANGED roundVars
     \/ active /\ get_node_status(i) \in {"COMMAND_SENT", "WATERING"} /\ RetryNode(i)
     \/ /\ active => get_node_status(i) \notin {"IN_QUEUE", "COMMAND_SENT", "WATERING"}
        /\ conclude_watering("STANDBY")
        /\ returned' = NoFrame
        /\ UNCHANGED node_link
  /\ UNCHANGED <<no_response_pairing_count, time_pool, nvs, panicked>>

-----------------------------------------------------------------------------
(***************************************************************************)
(* The host's writes, and the power.                                       *)
(***************************************************************************)
\* Mutant: the blob is made of one schedule, not of all of them.
save_durations_mutant(a, node) ==
  /\ storage' = [storage EXCEPT ![a] = [duration |-> node.hose_duration,
                                        cycle |-> node.water_cycle]]
  /\ saved' \in (IF a \in FlashMayFail THEN BOOLEAN ELSE {TRUE})
  /\ flash' = IF saved' THEN [flash EXCEPT ![a] = storage'[a]] ELSE flash
  /\ UNCHANGED mounted
\* All schedules go to the flash in one blob, which may fail.
save_durations(a, node) ==
  /\ storage' = [storage EXCEPT ![a] = [duration |-> node.hose_duration,
                                        cycle |-> node.water_cycle]]
  /\ saved' \in (IF a \in FlashMayFail THEN BOOLEAN ELSE {TRUE})
  /\ flash' = IF saved' THEN storage' ELSE flash
  /\ UNCHANGED mounted

\* The node takes its new values and they are saved; without a flash the handle
\* that is followed there is null.
change_node(a, node) ==
  \/ /\ mounted
     /\ node_link' = [node_link EXCEPT ![a] = node]
     /\ save_durations(a, node)
     /\ UNCHANGED panicked
  \/ /\ ~mounted
     /\ panicked' = TRUE
     /\ UNCHANGED <<node_link, nvs>>

\* Take the duration; else try 0 in its place and refuse in any case.
set_node_duration(a, d, status) ==
  LET accept(n) ==
        /\ change_node(a, n)
        /\ time_pool' = calculate_new_time_pool(a, n.hose_duration)
      fits(s) == calculate_new_time_pool(a, s) \in Nat   \* not negative
      refused == [node_link[a] EXCEPT !.node_status = "INVALID_TIME"] IN
  /\ ~panicked
  /\ \/ /\ ~Exists(a)
        /\ status = "INVALID_NODE"
        /\ UNCHANGED <<node_link, time_pool, nvs, panicked>>
     \/ /\ Exists(a) /\ fits(d)
        /\ accept([node_link[a] EXCEPT !.hose_duration = d])
        /\ status = "OK"
     \/ /\ Exists(a) /\ ~fits(d) /\ fits(0)
        /\ accept([refused EXCEPT !.hose_duration = 0])
        /\ status = "INVALID_TIME"
     \/ /\ Exists(a) /\ ~fits(d) /\ ~fits(0)
        /\ node_link' = [node_link EXCEPT ![a] = refused]
        /\ UNCHANGED <<time_pool, nvs, panicked>>
        /\ status = "INVALID_TIME"
  /\ returned' = NoFrame
  /\ UNCHANGED <<roundVars, no_response_pairing_count>>

set_watering_cycle(a, cycle, status) ==
  /\ ~panicked
  /\ \/ /\ ~Exists(a)
        /\ status = "INVALID_NODE"
        /\ UNCHANGED <<node_link, nvs, panicked>>
     \/ /\ Exists(a)
        /\ change_node(a, [node_link[a] EXCEPT !.water_cycle = cycle])
        /\ status = "OK"
  /\ returned' = NoFrame
  /\ UNCHANGED <<roundVars, no_response_pairing_count, time_pool>>

\* What a restart finds: the blob; or no flash at all, or no blob that it can
\* read, or a flash it has to erase: the head goes on with no durations and the
\* default cycle of every day, or aborts if the flash is not there even then.
load_durations ==
  /\ \/ /\ storage' = flash /\ mounted' = TRUE /\ panicked' = FALSE
        /\ UNCHANGED flash
     \/ /\ FlashMayFail # {}
        /\ storage' = [a \in Addr |-> [duration |-> 0, cycle |-> Phases]]
        /\ mounted' \in BOOLEAN /\ panicked' \in {FALSE, ~mounted'}
        /\ flash' \in {flash, storage'}
  /\ saved' = (storage' = flash')

\* Power loss, or the restart that follows a panic: only the flash is left.
Reboot ==
  /\ node_link' = [a \in Addr |-> NullNode]
  /\ head_status' = "STANDBY"
  /\ active_watering_index' = NoIndex
  /\ no_response_pairing_count' = 0
  /\ time_pool' = PhaseLength
  /\ returned' = NoFrame
  /\ load_durations

ActionStatus == {"OK", "INVALID_TIME", "INVALID_NODE"}

Next ==
  \/ \E f \in IncomingFrame : handle_incoming_frame(f)
  \/ \E heard \in BOOLEAN, k \in Keys : process_pairing(heard, k)
  \/ \E due \in BOOLEAN, p \in Phases : process_watering_schedule(due, p)
  \/ next_watering_frame
  \/ \E a \in Addr \cup {ADDR_UNSET}, d \in Durations, s \in ActionStatus :
       set_node_duration(a, d, s)
  \/ \E a \in Addr \cup {ADDR_UNSET}, c \in SUBSET Phases, s \in ActionStatus :
       set_watering_cycle(a, c, s)
  \/ init_pairing_mode
  \/ Reboot

Spec == Init /\ [][Next]_vars
-----------------------------------------------------------------------------
(***************************************************************************)
(* Properties.                                                             *)
(***************************************************************************)

\* Type correctness.
TypeOK ==
  /\ node_link \in [Addr -> Node \cup {NullNode}]
  /\ head_status \in HeadStatus
  /\ active_watering_index \in Addr \cup {NoIndex}
  /\ no_response_pairing_count \in 0 .. StopPairingCount
  /\ time_pool \in Nat
  /\ storage \in [Addr -> Schedule] /\ flash \in [Addr -> Schedule]
  /\ mounted \in BOOLEAN /\ saved \in BOOLEAN
  /\ panicked \in BOOLEAN

\* No key is at two addresses: whatever comes in twice, late or for another
\* address (create_node_pending after a failed confirm_node_pending too), a
\* node has one address.
KeysUnique ==
  \A a, b \in Addr :
    Exists(a) /\ Exists(b) /\ node_link[a].id_key = node_link[b].id_key => a = b

\* The nodes are at the addresses 0 .. n - 1: READ_NODE_STATES sends the first
\* get_discovered_node_count() bytes of the table, READ_NODE_DURATIONS stops at
\* the first address without a node, and both are taken for the whole table.
NoGaps == \A a \in Addr : Exists(a) => \A b \in Addr : b < a => Exists(b)

\* A node is being watered only in a round, and it is a node of the table: the
\* index is dropped wherever a round is left (conclude_watering), also when
\* the table is cleared under it (init_pairing_mode).
ActiveIsInRound ==
  active_watering_index # NoIndex =>
    /\ Exists(active_watering_index)
    /\ head_status \in {"WATERING_CMDS", "FAULTY_NODE"}

\* At most one node has a water command it has not confirmed, and it is the
\* active one, unless the round has ended with a fault (next_watering_frame,
\* advance_active_watering_index).
OneCommandOutstanding ==
  \A a \in Addr : get_node_status(a) = "COMMAND_SENT" =>
    \/ a = active_watering_index
    \/ head_status = "FAULTY_NODE" /\ active_watering_index = NoIndex

\* What the host has set is what a restart would find: the duration and cycle
\* of every node are the persisted ones, also after a refused duration
\* (set_node_duration, set_watering_cycle, create_node_pending).
StorageMirrorsTable ==
  \A a \in Addr : Exists(a) =>
    storage[a] = [duration |-> node_link[a].hose_duration,
                  cycle |-> node_link[a].water_cycle]

\* A write that fails loses no more than the time until the next one: with it,
\* whatever address it is for, all that the host has set is in the flash, and
\* survives a restart (NvsStorage::save_durations).
SavedIsPersisted ==
  saved => \A a \in Addr : Exists(a) =>
    flash[a] = [duration |-> node_link[a].hose_duration,
                cycle |-> node_link[a].water_cycle]

\* A round visits the addresses in increasing order: it never goes back to an
\* address it has left (advance_active_watering_index).
RoundOnlyAdvances ==
  [][active_watering_index # NoIndex /\ active_watering_index' # NoIndex
       => active_watering_index <= active_watering_index']_vars

\* The table implements the registry: consecutive addresses, one key at each,
\* unchanged until pairing or a restart clears them all.
Table == INSTANCE Registry WITH
  registry <- [a \in {x \in Addr : Exists(x)} |-> node_link[a].id_key]
ImplementsRegistry == Table!Spec

\* The durations of the nodes fit in the phase: tests/head_test.cpp:372,
\* "Can't add a single second more than time pool".
DurationsFitPhase == calculate_new_time_pool(NoIndex, 0) >= 0
=============================================================================
