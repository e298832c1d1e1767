----------------------------- MODULE HeadProofs -----------------------------
(***************************************************************************)
(* Theorems about Head for every size of the table, every set of keys and  *)
(* durations, and every order of calls and frames; and about the loop of   *)
(* the head task, which makes the calls, for every set of requests and     *)
(* every way the host's writes fall between its steps.                     *)
(***************************************************************************)
EXTENDS HeadTask, TLAPS

(***************************************************************************)
(* What the searches of the table return.                                  *)
(***************************************************************************)

\* FirstOf returns nullopt exactly for the empty set, and otherwise an element
\* that no other precedes.
LEMMA FirstOfSpec ==
  ASSUME NEW S \in SUBSET Addr, NEW x \in FirstOf(S)
  PROVE  \/ x = NoIndex /\ S = {}
         \/ /\ x \in S /\ x # NoIndex /\ S # {}
            /\ \A b \in S : x <= b
BY MaxNodesAssumption DEF FirstOf, NoIndex, Addr

\* A free address found by get_available_address has only nodes below it.
LEMMA AvailableAddress ==
  ASSUME NEW x \in get_available_address, x # NoIndex
  PROVE  x \in Addr /\ ~Exists(x) /\ \A b \in Addr : b < x => Exists(b)
<1>1. {a \in Addr : ~Exists(a)} \in SUBSET Addr OBVIOUS
<1>2. x \in {a \in Addr : ~Exists(a)} /\ \A b \in {a \in Addr : ~Exists(a)} : x <= b
  BY <1>1, FirstOfSpec DEF get_available_address
<1> QED BY <1>2, MaxNodesAssumption DEF Addr

-----------------------------------------------------------------------------
(***************************************************************************)
(* The inductive invariant is the conjunction of the invariants: each of   *)
(* them needs some of the others.  NoGaps makes the first free address the *)
(* end of the table; OneCommandOutstanding needs ActiveIsInRound, because  *)
(* a round begins only where no index is set.  StorageMirrorsTable and     *)
(* SavedInFlash together give SavedIsPersisted.                            *)
(***************************************************************************)
SavedInFlash == saved => flash = storage

IInv ==
  /\ TypeOK
  /\ KeysUnique
  /\ NoGaps
  /\ ActiveIsInRound
  /\ OneCommandOutstanding
  /\ StorageMirrorsTable
  /\ SavedInFlash

USE MaxNodesAssumption, KeysAssumption, DurationsAssumption,
    PhaseLengthAssumption, StopAssumption, RetryAssumption
    DEF nvs, SavedInFlash


LEMMA NullNodeIsNoNode ==
  /\ NullNode \notin Node
  /\ NullNode.node_status = "NODE_NONEXISTANT"
  /\ \A n \in Node : n.node_status # "NODE_NONEXISTANT"
BY DEF NullNode, Node, NodeStatus

LEMMA InitIInv == Init => IInv
<1> SUFFICES ASSUME Init PROVE IInv OBVIOUS
<1> USE DEF Init
<1>1. TypeOK
  <2>1. node_link \in [Addr -> Node \cup {NullNode}] OBVIOUS
  <2>2. storage \in [Addr -> Schedule] /\ flash \in [Addr -> Schedule] OBVIOUS
  <2>3. head_status \in HeadStatus BY DEF HeadStatus
  <2>4. no_response_pairing_count \in 0 .. StopPairingCount OBVIOUS
  <2> QED BY <2>1, <2>2, <2>3, <2>4 DEF TypeOK
<1>2. \A a \in Addr : ~Exists(a) BY DEF Exists
<1>3. KeysUnique /\ NoGaps /\ StorageMirrorsTable
  BY <1>2 DEF KeysUnique, NoGaps, StorageMirrorsTable
<1>4. ActiveIsInRound BY DEF ActiveIsInRound
<1>5. OneCommandOutstanding
  BY DEF OneCommandOutstanding, get_node_status, NullNode
<1> QED BY <1>1, <1>3, <1>4, <1>5 DEF IInv

-----------------------------------------------------------------------------
(***************************************************************************)
(* A step that gives nobody an address keeps the registry part.            *)
(***************************************************************************)
LEMMA SameOccupancy ==
  ASSUME KeysUnique, NoGaps,
         \A a \in Addr : Exists(a)' <=> Exists(a),
         \A a \in Addr : Exists(a) => node_link'[a].id_key = node_link[a].id_key
  PROVE  KeysUnique' /\ NoGaps'
BY DEF KeysUnique, NoGaps

\* Setting one existing node to another node of the same key.
LEMMA SetNode ==
  ASSUME IInv, NEW a \in Addr, Exists(a), NEW n \in Node,
         n.id_key = node_link[a].id_key,
         node_link' = [node_link EXCEPT ![a] = n]
  PROVE  /\ node_link' \in [Addr -> Node \cup {NullNode}]
         /\ KeysUnique' /\ NoGaps'
         /\ node_link'[a] = n
         /\ \A b \in Addr : b # a => node_link'[b] = node_link[b]
         /\ \A b \in Addr : Exists(b)' <=> Exists(b)
<1>1. node_link \in [Addr -> Node \cup {NullNode}] BY DEF IInv, TypeOK
<1>2. /\ node_link' \in [Addr -> Node \cup {NullNode}]
      /\ node_link'[a] = n
      /\ \A b \in Addr : b # a => node_link'[b] = node_link[b]
  BY <1>1
<1>3. \A b \in Addr : Exists(b)' <=> Exists(b)
  BY <1>2, NullNodeIsNoNode DEF Exists
<1>4. KeysUnique' /\ NoGaps'
  BY <1>2, <1>3, SameOccupancy DEF IInv
<1> QED BY <1>2, <1>3, <1>4

\* An existing node is a node.
LEMMA ExistingNode ==
  ASSUME TypeOK, NEW a, Exists(a)
  PROVE  a \in Addr /\ node_link[a] \in Node
BY DEF TypeOK, Exists

-----------------------------------------------------------------------------
(***************************************************************************)
(* Pairing.                                                                *)
(***************************************************************************)
LEMMA CreateNode ==
  ASSUME IInv, NEW key \in Keys, NEW addr, create_node_pending(key, addr),
         UNCHANGED <<roundVars, no_response_pairing_count, time_pool, nvs,
                     panicked>>
  PROVE  IInv'
<1>1. CASE UNCHANGED node_link
  BY <1>1 DEF IInv, TypeOK, KeysUnique, NoGaps, ActiveIsInRound, Exists,
     OneCommandOutstanding, StorageMirrorsTable, get_node_status, roundVars
<1>2. CASE /\ NoIndex \in get_node_addr_by_key(key)
           /\ addr \in get_available_address
           /\ addr # NoIndex
           /\ node_link' = [node_link EXCEPT ![addr] = NewNode(key, addr)]
  <2>1. addr \in Addr /\ ~Exists(addr) /\ \A b \in Addr : b < addr => Exists(b)
    BY <1>2, AvailableAddress
  <2>2. \A a \in Addr : Exists(a) => node_link[a].id_key # key
    <3>1. {a \in Addr : Exists(a) /\ node_link[a].id_key = key} \in SUBSET Addr
      OBVIOUS
    <3>2. NoIndex \notin Addr BY DEF NoIndex, Addr
    <3> QED BY <1>2, <3>1, <3>2, FirstOfSpec DEF get_node_addr_by_key
  <2>3. TypeOK BY DEF IInv
  <2>4. NewNode(key, addr) \in Node
    <3>1. storage[addr] \in Schedule BY <2>1, <2>3 DEF TypeOK
    <3> QED BY <3>1 DEF NewNode, Node, Schedule, NodeStatus
  <2>5. /\ node_link' \in [Addr -> Node \cup {NullNode}]
        /\ node_link'[addr] = NewNode(key, addr)
        /\ \A b \in Addr : b # addr => node_link'[b] = node_link[b]
    BY <1>2, <2>1, <2>3, <2>4 DEF TypeOK
  <2>6. \A b \in Addr : Exists(b)' <=> (b = addr \/ Exists(b))
    BY <2>4, <2>5, NullNodeIsNoNode, <2>1 DEF Exists
  <2>7. TypeOK' BY <2>3, <2>5 DEF TypeOK, roundVars
  <2>8. KeysUnique'
    <3>1. node_link'[addr].id_key = key BY <2>5 DEF NewNode
    <3> QED BY <2>2, <2>5, <2>6, <3>1 DEF IInv, KeysUnique
  <2>9. NoGaps'
    BY <2>1, <2>6 DEF IInv, NoGaps, Addr
  <2>10. ActiveIsInRound'
    BY <2>3, <2>6 DEF IInv, ActiveIsInRound, roundVars, TypeOK, NoIndex, Exists
  <2>11. OneCommandOutstanding'
    <3>1. node_link'[addr].node_status = "INITIALIZING" BY <2>5 DEF NewNode
    <3> QED BY <2>5, <3>1 DEF IInv, OneCommandOutstanding, get_node_status, roundVars
  <2>12. StorageMirrorsTable'
    <3>1. storage[addr] = [duration |-> node_link'[addr].hose_duration,
                           cycle |-> node_link'[addr].water_cycle]
      <4>1. storage[addr] \in Schedule BY <2>1, <2>3 DEF TypeOK
      <4> QED BY <2>5, <4>1 DEF NewNode, Schedule
    <3> QED BY <2>5, <2>6, <3>1 DEF IInv, StorageMirrorsTable
  <2> QED BY <2>7, <2>8, <2>9, <2>10, <2>11, <2>12 DEF IInv
<1> QED BY <1>1, <1>2 DEF create_node_pending

\* A handler that changes one existing node's status and retry count, keeps
\* its key and schedule, and does not touch the host's settings.
LEMMA StatusUpdate ==
  ASSUME IInv, NEW a \in Addr, Exists(a), NEW s \in NodeStatus,
         NEW r \in 0 .. RetryWidth - 1,
         node_link' = [node_link EXCEPT ![a].node_status = s,
                                        ![a].retry_attempts = r],
         UNCHANGED <<no_response_pairing_count, time_pool, nvs, panicked>>
  PROVE  /\ node_link' \in [Addr -> Node \cup {NullNode}]
         /\ KeysUnique' /\ NoGaps' /\ StorageMirrorsTable'
         /\ node_link'[a].node_status = s
         /\ \A b \in Addr : Exists(b)' <=> Exists(b)
         /\ \A b \in Addr : b # a => node_link'[b] = node_link[b]
<1> DEFINE n == [node_link[a] EXCEPT !.node_status = s, !.retry_attempts = r]
<1>1. node_link[a] \in Node BY ExistingNode DEF IInv
<1>2. /\ n \in Node /\ n.node_status = s /\ n.id_key = node_link[a].id_key
      /\ n.hose_duration = node_link[a].hose_duration
      /\ n.water_cycle = node_link[a].water_cycle
  BY <1>1 DEF Node
<1>3. node_link' = [node_link EXCEPT ![a] = n]
  BY DEF IInv, TypeOK
<1> HIDE DEF n
<1>4. /\ node_link' \in [Addr -> Node \cup {NullNode}]
      /\ KeysUnique' /\ NoGaps'
      /\ node_link'[a] = n
      /\ \A b \in Addr : b # a => node_link'[b] = node_link[b]
      /\ \A b \in Addr : Exists(b)' <=> Exists(b)
  BY <1>2, <1>3, SetNode
<1>5. StorageMirrorsTable'
  BY <1>2, <1>4 DEF IInv, StorageMirrorsTable
<1> QED BY <1>2, <1>4, <1>5

\* The same without the retry count.
LEMMA StatusOnlyUpdate ==
  ASSUME IInv, NEW a \in Addr, Exists(a), NEW s \in NodeStatus,
         node_link' = [node_link EXCEPT ![a].node_status = s],
         UNCHANGED <<no_response_pairing_count, time_pool, nvs, panicked>>
  PROVE  /\ node_link' \in [Addr -> Node \cup {NullNode}]
         /\ KeysUnique' /\ NoGaps' /\ StorageMirrorsTable'
         /\ node_link'[a].node_status = s
         /\ \A b \in Addr : Exists(b)' <=> Exists(b)
         /\ \A b \in Addr : b # a => node_link'[b] = node_link[b]
<1> DEFINE r == node_link[a].retry_attempts
<1>1. node_link[a] \in Node BY ExistingNode DEF IInv
<1>2. r \in 0 .. RetryWidth - 1 BY <1>1 DEF Node
<1>3. node_link' = [node_link EXCEPT ![a].node_status = s,
                                     ![a].retry_attempts = r]
  <2>1. [node_link[a] EXCEPT !.node_status = s]
          = [node_link[a] EXCEPT !.node_status = s, !.retry_attempts = r]
    BY <1>1 DEF Node
  <2> QED BY <2>1 DEF IInv, TypeOK
<1> HIDE DEF r
<1> QED BY <1>2, <1>3, StatusUpdate

LEMMA HandleDiscovery ==
  ASSUME IInv, NEW key \in Keys, handle_discovery(key),
         UNCHANGED <<no_response_pairing_count, time_pool, nvs>>
  PROVE  IInv'
BY CreateNode DEF handle_discovery

\* The panic handler keeps everything but the processor running.
LEMMA PanicKeeps ==
  ASSUME IInv, Panic
  PROVE  IInv'
BY DEF Panic, IInv, TypeOK, KeysUnique, NoGaps, ActiveIsInRound, Exists,
   OneCommandOutstanding, StorageMirrorsTable, get_node_status, roundVars

LEMMA HandleAddressing ==
  ASSUME IInv, NEW key \in Keys, NEW addr, handle_addressing(key, addr),
         UNCHANGED <<no_response_pairing_count, time_pool, nvs>>
  PROVE  IInv'
<1>1. CASE confirm_node_pending(key, addr) /\ UNCHANGED <<roundVars, panicked>>
  <2>1. addr \in Addr /\ Exists(addr) BY <1>1 DEF confirm_node_pending, Exists
  <2>2. node_link' = [node_link EXCEPT ![addr].node_status = "READY"]
    BY <1>1 DEF confirm_node_pending
  <2>3. "READY" \in NodeStatus BY DEF NodeStatus
  <2>4. UNCHANGED <<no_response_pairing_count, time_pool, nvs, panicked>>
    BY <1>1
  <2>5. /\ node_link' \in [Addr -> Node \cup {NullNode}]
        /\ KeysUnique' /\ NoGaps' /\ StorageMirrorsTable'
        /\ node_link'[addr].node_status = "READY"
        /\ \A b \in Addr : Exists(b)' <=> Exists(b)
        /\ \A b \in Addr : b # addr => node_link'[b] = node_link[b]
    BY <2>1, <2>2, <2>3, <2>4, StatusOnlyUpdate
  <2>6. TypeOK' BY <1>1, <2>5 DEF IInv, TypeOK, roundVars
  <2>7. ActiveIsInRound'
    BY <1>1, <2>5 DEF IInv, TypeOK, ActiveIsInRound, roundVars, Exists
  <2>8. OneCommandOutstanding'
    BY <1>1, <2>5 DEF IInv, OneCommandOutstanding, get_node_status, roundVars
  <2> QED BY <2>5, <2>6, <2>7, <2>8 DEF IInv
<1>2. CASE /\ \E new \in Addr \cup {NoIndex} : create_node_pending(key, new)
           /\ UNCHANGED <<roundVars, panicked>>
  BY <1>2, CreateNode
<1>3. CASE Panic BY <1>3, PanicKeeps
<1> QED BY <1>1, <1>2, <1>3 DEF handle_addressing

LEMMA ProcessPairing ==
  ASSUME IInv, NEW heard \in BOOLEAN, NEW key \in Keys,
         process_pairing(heard, key)
  PROVE  IInv'
<1> USE DEF process_pairing
<1>1. active_watering_index = NoIndex BY DEF IInv, ActiveIsInRound
<1>2. active_watering_index' = NoIndex BY <1>1
<1>3. no_response_pairing_count' \in 0 .. StopPairingCount BY DEF IInv, TypeOK
<1>4. head_status' \in HeadStatus BY DEF IInv, TypeOK, HeadStatus
<1>5. TypeOK' BY <1>3, <1>4 DEF IInv, TypeOK
<1>6. KeysUnique' /\ NoGaps' /\ StorageMirrorsTable'
  BY DEF IInv, KeysUnique, NoGaps, StorageMirrorsTable, Exists
<1>7. ActiveIsInRound' BY <1>2 DEF ActiveIsInRound
<1>8. OneCommandOutstanding'
  BY <1>1, <1>2 DEF IInv, OneCommandOutstanding, get_node_status
<1> QED BY <1>5, <1>6, <1>7, <1>8 DEF IInv

\* Clearing the table (pairing, restart).
LEMMA TableCleared ==
  ASSUME node_link' = [a \in Addr |-> NullNode],
         active_watering_index' = NoIndex, TypeOK', SavedInFlash'
  PROVE  IInv'
<1>1. \A a \in Addr : ~Exists(a)' BY DEF Exists
<1>2. KeysUnique' /\ NoGaps' /\ StorageMirrorsTable'
  BY <1>1 DEF KeysUnique, NoGaps, StorageMirrorsTable
<1>3. ActiveIsInRound' BY DEF ActiveIsInRound
<1>4. OneCommandOutstanding'
  BY NullNodeIsNoNode DEF OneCommandOutstanding, get_node_status
<1> QED BY <1>2, <1>3, <1>4 DEF IInv

LEMMA InitPairing ==
  ASSUME IInv, init_pairing_mode
  PROVE  IInv'
<1> USE DEF init_pairing_mode, conclude_watering
<1>1. node_link' \in [Addr -> Node \cup {NullNode}] OBVIOUS
<1>2. TypeOK' /\ SavedInFlash' BY <1>1 DEF IInv, TypeOK, HeadStatus
<1> QED BY <1>2, TableCleared

LEMMA RebootStep ==
  ASSUME IInv, Reboot
  PROVE  IInv'
<1> USE DEF Reboot
<1>1. node_link' \in [Addr -> Node \cup {NullNode}] OBVIOUS
<1>2. /\ head_status' \in HeadStatus
      /\ no_response_pairing_count' \in 0 .. StopPairingCount
  BY DEF HeadStatus
<1>3. /\ storage' \in [Addr -> Schedule] /\ flash' \in [Addr -> Schedule]
      /\ mounted' \in BOOLEAN /\ saved' \in BOOLEAN
      /\ SavedInFlash'
  <2>1. [duration |-> 0, cycle |-> Phases] \in Schedule BY DEF Schedule
  <2> QED BY <2>1 DEF load_durations, IInv, TypeOK
<1>4. panicked' \in BOOLEAN BY DEF load_durations
<1>5. TypeOK' BY <1>1, <1>2, <1>3, <1>4 DEF TypeOK
<1> QED BY <1>3, <1>5, TableCleared

-----------------------------------------------------------------------------
(***************************************************************************)
(* Watering.                                                               *)
(***************************************************************************)
LEMMA HandleAck ==
  ASSUME IInv, NEW addr, handle_ack(addr),
         UNCHANGED <<no_response_pairing_count, time_pool, nvs>>
  PROVE  IInv'
<1>1. CASE /\ Exists(addr)
           /\ node_link' = [node_link EXCEPT ![addr].node_status = "WATERING",
                                             ![addr].retry_attempts = 0]
           /\ UNCHANGED <<roundVars, panicked>>
  <2>1. addr \in Addr BY <1>1 DEF Exists
  <2>2. "WATERING" \in NodeStatus /\ 0 \in 0 .. RetryWidth - 1 BY DEF NodeStatus
  <2>3. /\ node_link' \in [Addr -> Node \cup {NullNode}]
        /\ KeysUnique' /\ NoGaps' /\ StorageMirrorsTable'
        /\ node_link'[addr].node_status = "WATERING"
        /\ \A b \in Addr : Exists(b)' <=> Exists(b)
        /\ \A b \in Addr : b # addr => node_link'[b] = node_link[b]
    BY <1>1, <2>1, <2>2, StatusUpdate
  <2>4. TypeOK' BY <1>1, <2>3 DEF IInv, TypeOK, roundVars
  <2>5. ActiveIsInRound'
    BY <1>1, <2>3 DEF IInv, TypeOK, ActiveIsInRound, roundVars, Exists
  <2>6. OneCommandOutstanding'
    BY <1>1, <2>3 DEF IInv, OneCommandOutstanding, get_node_status, roundVars
  <2> QED BY <2>3, <2>4, <2>5, <2>6 DEF IInv
<1>2. CASE Panic BY <1>2, PanicKeeps
<1> QED BY <1>1, <1>2 DEF handle_ack

\* The index that advance_active_watering_index leaves: nullopt with the head
\* in standby, or a later node of the queue.
LEMMA Advance ==
  ASSUME TypeOK, NEW link, advance_active_watering_index(link)
  PROVE  \/ active_watering_index' = NoIndex /\ head_status' = "STANDBY"
         \/ /\ active_watering_index' \in Addr
            /\ link[active_watering_index'].node_status = "IN_QUEUE"
            /\ active_watering_index <= active_watering_index'
            /\ head_status' = head_status
<1> DEFINE start == IF active_watering_index = NoIndex THEN 0
                    ELSE active_watering_index
           S == {a \in Addr : a >= start /\ link[a].node_status = "IN_QUEUE"}
<1>1. S \in SUBSET Addr OBVIOUS
<1>2. CASE conclude_watering("STANDBY") BY <1>2 DEF conclude_watering
<1>3. CASE active_watering_index' \in FirstOf(S) \ {NoIndex} /\ UNCHANGED head_status
  <2>1. active_watering_index' \in S BY <1>1, <1>3, FirstOfSpec
  <2> QED BY <2>1, <1>3 DEF TypeOK, NoIndex, Addr
<1> QED BY <1>2, <1>3 DEF advance_active_watering_index

LEMMA HandleStatus ==
  ASSUME IInv, NEW addr, NEW status \in ReportedStatus,
         handle_incoming_node_status(addr, status),
         UNCHANGED <<no_response_pairing_count, time_pool, nvs>>
  PROVE  IInv'
<1>1. CASE /\ Exists(addr)
           /\ node_link' = [node_link EXCEPT ![addr].retry_attempts = 0,
                                             ![addr].node_status = status]
           /\ UNCHANGED panicked
           /\ \/ /\ status = "READY" /\ addr = active_watering_index
                 /\ advance_active_watering_index(node_link')
              \/ status = "ERR" /\ conclude_watering("FAULTY_NODE")
              \/ UNCHANGED roundVars
  <2>1. addr \in Addr BY <1>1 DEF Exists
  <2>2. /\ status \in NodeStatus /\ status # "COMMAND_SENT"
        /\ 0 \in 0 .. RetryWidth - 1
    BY DEF NodeStatus, ReportedStatus
  <2>3. node_link' = [node_link EXCEPT ![addr].node_status = status,
                                       ![addr].retry_attempts = 0]
    <3>1. node_link[addr] \in Node BY <1>1, ExistingNode DEF IInv
    <3>2. [node_link[addr] EXCEPT !.retry_attempts = 0, !.node_status = status]
            = [node_link[addr] EXCEPT !.node_status = status, !.retry_attempts = 0]
      BY <3>1 DEF Node
    <3> QED BY <1>1, <3>2 DEF IInv, TypeOK
  <2>4. /\ node_link' \in [Addr -> Node \cup {NullNode}]
        /\ KeysUnique' /\ NoGaps' /\ StorageMirrorsTable'
        /\ node_link'[addr].node_status = status
        /\ \A b \in Addr : Exists(b)' <=> Exists(b)
        /\ \A b \in Addr : b # addr => node_link'[b] = node_link[b]
    BY <1>1, <2>1, <2>2, <2>3, StatusUpdate
  <2>5. CASE status = "READY" /\ addr = active_watering_index
             /\ advance_active_watering_index(node_link')
    <3>1. \/ active_watering_index' = NoIndex /\ head_status' = "STANDBY"
          \/ /\ active_watering_index' \in Addr
             /\ node_link'[active_watering_index'].node_status = "IN_QUEUE"
             /\ head_status' = head_status
      BY <2>5, Advance DEF IInv
    <3>2. TypeOK' BY <1>1, <2>4, <3>1 DEF IInv, TypeOK, HeadStatus
    <3>3. addr # NoIndex /\ active_watering_index # NoIndex
      BY <2>1, <2>5 DEF NoIndex, Addr
    <3>4. \A a \in Addr : get_node_status(a)' # "COMMAND_SENT"
      BY <2>2, <2>4, <2>5, <3>3 DEF IInv, OneCommandOutstanding, get_node_status
    <3>5. OneCommandOutstanding' BY <3>4 DEF OneCommandOutstanding
    <3>6. ActiveIsInRound'
      BY <2>5, <3>1, <3>3, <2>4, NullNodeIsNoNode
         DEF IInv, ActiveIsInRound, Exists
    <3> QED BY <2>4, <3>2, <3>5, <3>6 DEF IInv
  <2>6. CASE status = "ERR" /\ conclude_watering("FAULTY_NODE")
    <3> USE DEF conclude_watering
    <3>1. TypeOK' BY <1>1, <2>4, <2>6 DEF IInv, TypeOK, HeadStatus
    <3>2. ActiveIsInRound' BY <2>6 DEF ActiveIsInRound
    <3>3. OneCommandOutstanding' BY <2>6 DEF OneCommandOutstanding
    <3> QED BY <2>4, <3>1, <3>2, <3>3 DEF IInv
  <2>7. CASE UNCHANGED roundVars
    <3>1. TypeOK' BY <1>1, <2>4, <2>7 DEF IInv, TypeOK, roundVars
    <3>2. ActiveIsInRound'
      BY <2>4, <2>7 DEF IInv, TypeOK, ActiveIsInRound, roundVars, Exists
    <3>3. OneCommandOutstanding'
      BY <2>2, <2>4, <2>7 DEF IInv, OneCommandOutstanding, get_node_status, roundVars
    <3> QED BY <2>4, <3>1, <3>2, <3>3 DEF IInv
  <2> QED BY <1>1, <2>5, <2>6, <2>7
<1>2. CASE Panic BY <1>2, PanicKeeps
<1> QED BY <1>1, <1>2 DEF handle_incoming_node_status

LEMMA ProcessWateringSchedule ==
  ASSUME IInv, NEW due \in BOOLEAN, NEW phase \in Phases,
         process_watering_schedule(due, phase)
  PROVE  IInv'
<1>1. UNCHANGED <<no_response_pairing_count, time_pool, nvs, panicked>>
  BY DEF process_watering_schedule
<1>2. CASE UNCHANGED <<node_link, roundVars>>
  BY <1>1, <1>2 DEF IInv, TypeOK, KeysUnique, NoGaps, ActiveIsInRound, Exists,
     OneCommandOutstanding, StorageMirrorsTable, get_node_status, roundVars
<1>3. CASE head_status = "STANDBY" /\ initialize_watering_states(phase)
  <2> DEFINE Q == Queued(phase)
  <2>1. active_watering_index = NoIndex BY <1>3 DEF IInv, ActiveIsInRound
  <2>2. \A a \in Addr : get_node_status(a) # "COMMAND_SENT"
    <3>1. \A a \in Addr : a # NoIndex BY DEF Addr, NoIndex
    <3> QED BY <1>3, <2>1, <3>1 DEF IInv, OneCommandOutstanding
  <2>3. Q \in SUBSET Addr /\ \A a \in Q : Exists(a)
    BY DEF Queued, is_node_watering_this_phase
  <2>4. node_link' = [a \in Addr |-> IF a \in Q
                        THEN [node_link[a] EXCEPT !.node_status = "IN_QUEUE"]
                        ELSE node_link[a]]
    BY <1>3 DEF initialize_watering_states
  <2>5. active_watering_index' \in FirstOf(Q)
    BY <1>3, <2>1 DEF initialize_watering_states
  <2>6. head_status' \in {"FAULTY_NODE", "WATERING_CMDS"}
    BY <1>3 DEF initialize_watering_states
  <2> HIDE DEF Q
  <2>7. active_watering_index' \in Q \cup {NoIndex} BY <2>3, <2>5, FirstOfSpec
  <2>8. \A a \in Q : /\ node_link'[a] \in Node
                     /\ node_link'[a].node_status = "IN_QUEUE"
                     /\ node_link'[a].id_key = node_link[a].id_key
                     /\ node_link'[a].hose_duration = node_link[a].hose_duration
                     /\ node_link'[a].water_cycle = node_link[a].water_cycle
    <3> TAKE a \in Q
    <3>1. a \in Addr /\ node_link[a] \in Node BY <2>3, ExistingNode DEF IInv
    <3>2. node_link'[a] = [node_link[a] EXCEPT !.node_status = "IN_QUEUE"]
      BY <2>4, <3>1
    <3> QED BY <3>1, <3>2 DEF Node, NodeStatus
  <2>9. \A a \in Addr \ Q : node_link'[a] = node_link[a] BY <2>4
  <2>10. node_link' \in [Addr -> Node \cup {NullNode}]
    <3>1. \A a \in Addr : node_link'[a] \in Node \cup {NullNode}
      BY <2>8, <2>9 DEF IInv, TypeOK
    <3>2. node_link' = [a \in Addr |-> node_link'[a]] BY <2>4
    <3> QED BY <3>1, <3>2
  <2>11. \A a \in Addr : Exists(a)' <=> Exists(a)
    BY <2>3, <2>8, <2>9, NullNodeIsNoNode DEF Exists
  <2>12. TypeOK'
    BY <1>1, <2>3, <2>6, <2>7, <2>10 DEF IInv, TypeOK, HeadStatus
  <2>13. KeysUnique' /\ NoGaps'
    <3>1. \A a \in Addr : Exists(a) => node_link'[a].id_key = node_link[a].id_key
      BY <2>8, <2>9
    <3> QED BY <2>11, <3>1, SameOccupancy DEF IInv
  <2>14. ActiveIsInRound'
    BY <2>3, <2>6, <2>7, <2>11 DEF ActiveIsInRound
  <2>15. OneCommandOutstanding'
    <3>1. \A a \in Addr : get_node_status(a)' # "COMMAND_SENT"
      BY <2>2, <2>8, <2>9 DEF get_node_status
    <3> QED BY <3>1 DEF OneCommandOutstanding
  <2>16. StorageMirrorsTable'
    BY <1>1, <2>8, <2>9, <2>11 DEF IInv, StorageMirrorsTable
  <2> QED BY <1>1, <2>12, <2>13, <2>14, <2>15, <2>16 DEF IInv
<1> QED BY <1>2, <1>3 DEF process_watering_schedule

\* One more attempt, or the node is given up.
LEMMA Retry ==
  ASSUME IInv, NEW i, i = active_watering_index, Exists(i), RetryNode(i),
         head_status = "WATERING_CMDS",
         get_node_status(i) \in {"COMMAND_SENT", "WATERING"},
         UNCHANGED <<no_response_pairing_count, time_pool, nvs, panicked>>
  PROVE  IInv'
<1> DEFINE tries == (node_link[i].retry_attempts + 1) % RetryWidth
<1>1. i \in Addr /\ node_link[i] \in Node BY ExistingNode DEF IInv
<1>2. i # NoIndex BY <1>1 DEF NoIndex, Addr
<1>3. tries \in 0 .. RetryWidth - 1 BY <1>1 DEF Node
<1> HIDE DEF tries
<1>4. CASE /\ node_link' = [node_link EXCEPT ![i].retry_attempts = tries]
           /\ UNCHANGED roundVars
  <2> DEFINE s == node_link[i].node_status
  <2>1. s \in NodeStatus BY <1>1 DEF Node
  <2>2. node_link' = [node_link EXCEPT ![i].node_status = s,
                                       ![i].retry_attempts = tries]
    <3>1. [node_link[i] EXCEPT !.retry_attempts = tries]
            = [node_link[i] EXCEPT !.node_status = s, !.retry_attempts = tries]
      BY <1>1 DEF Node
    <3> QED BY <1>4, <3>1 DEF IInv, TypeOK
  <2> HIDE DEF s
  <2>3. /\ node_link' \in [Addr -> Node \cup {NullNode}]
        /\ KeysUnique' /\ NoGaps' /\ StorageMirrorsTable'
        /\ \A b \in Addr : Exists(b)' <=> Exists(b)
        /\ \A b \in Addr : b # i => node_link'[b] = node_link[b]
    BY <1>1, <1>3, <2>1, <2>2, StatusUpdate
  <2>4. TypeOK' BY <1>4, <2>3 DEF IInv, TypeOK, roundVars
  <2>5. ActiveIsInRound'
    BY <1>1, <1>4, <2>3 DEF IInv, ActiveIsInRound, roundVars
  <2>6. OneCommandOutstanding'
    BY <1>4, <2>3 DEF IInv, OneCommandOutstanding, get_node_status, roundVars
  <2> QED BY <2>3, <2>4, <2>5, <2>6 DEF IInv
<1>5. CASE /\ node_link' = [node_link EXCEPT ![i].retry_attempts = tries,
                                             ![i].node_status = "ERR"]
           /\ conclude_watering("FAULTY_NODE")
  <2>1. "ERR" \in NodeStatus BY DEF NodeStatus
  <2>2. node_link' = [node_link EXCEPT ![i].node_status = "ERR",
                                       ![i].retry_attempts = tries]
    <3>1. [node_link[i] EXCEPT !.retry_attempts = tries, !.node_status = "ERR"]
            = [node_link[i] EXCEPT !.node_status = "ERR", !.retry_attempts = tries]
      BY <1>1 DEF Node
    <3> QED BY <1>5, <3>1 DEF IInv, TypeOK
  <2>3. /\ node_link' \in [Addr -> Node \cup {NullNode}]
        /\ KeysUnique' /\ NoGaps' /\ StorageMirrorsTable'
    BY <1>1, <1>3, <2>1, <2>2, StatusUpdate
  <2> USE DEF conclude_watering
  <2>4. TypeOK' BY <1>5, <2>3 DEF IInv, TypeOK, HeadStatus
  <2>5. ActiveIsInRound' BY <1>5 DEF ActiveIsInRound
  <2>6. OneCommandOutstanding' BY <1>5 DEF OneCommandOutstanding
  <2> QED BY <2>3, <2>4, <2>5, <2>6 DEF IInv
<1> QED BY <1>4, <1>5 DEF RetryNode, tries

LEMMA NextWateringFrame ==
  ASSUME IInv, next_watering_frame
  PROVE  IInv'
<1> DEFINE i == active_watering_index
           active == i # NoIndex /\ Exists(i)
<1>0. /\ UNCHANGED <<no_response_pairing_count, time_pool, nvs, panicked>>
      /\ head_status = "WATERING_CMDS"
  BY DEF next_watering_frame
<1>1. CASE /\ active /\ get_node_status(i) = "IN_QUEUE"
           /\ node_link' = [node_link EXCEPT ![i].node_status = "COMMAND_SENT"]
           /\ UNCHANGED roundVars
  <2>1. i \in Addr BY <1>1, ExistingNode DEF IInv
  <2>2. "COMMAND_SENT" \in NodeStatus BY DEF NodeStatus
  <2>3. /\ node_link' \in [Addr -> Node \cup {NullNode}]
        /\ KeysUnique' /\ NoGaps' /\ StorageMirrorsTable'
        /\ \A b \in Addr : Exists(b)' <=> Exists(b)
        /\ \A b \in Addr : b # i => node_link'[b] = node_link[b]
    BY <1>0, <1>1, <2>1, <2>2, StatusOnlyUpdate
  <2>4. TypeOK' BY <1>0, <1>1, <2>3 DEF IInv, TypeOK, roundVars
  <2>5. ActiveIsInRound'
    BY <1>1, <2>1, <2>3 DEF IInv, ActiveIsInRound, roundVars
  <2>6. OneCommandOutstanding'
    BY <1>1, <2>3 DEF IInv, OneCommandOutstanding, get_node_status, roundVars
  <2> QED BY <1>0, <2>3, <2>4, <2>5, <2>6 DEF IInv
<1>2. CASE /\ active /\ get_node_status(i) \in {"COMMAND_SENT", "WATERING"}
           /\ RetryNode(i)
  BY <1>0, <1>2, Retry
<1>3. CASE /\ active => get_node_status(i) \notin {"IN_QUEUE", "COMMAND_SENT", "WATERING"}
           /\ conclude_watering("STANDBY")
           /\ UNCHANGED node_link
  <2> USE DEF conclude_watering
  <2>1. TypeOK' BY <1>0, <1>3 DEF IInv, TypeOK, HeadStatus
  <2>2. KeysUnique' /\ NoGaps' /\ StorageMirrorsTable'
    BY <1>0, <1>3 DEF IInv, KeysUnique, NoGaps, StorageMirrorsTable, Exists
  <2>3. ActiveIsInRound' BY <1>3 DEF ActiveIsInRound
  <2>4. \A a \in Addr : get_node_status(a) # "COMMAND_SENT"
    <3>1. \A a \in Addr : a # NoIndex BY DEF Addr, NoIndex
    <3> QED BY <1>0, <1>3, <3>1 DEF IInv, OneCommandOutstanding, ActiveIsInRound
  <2>5. OneCommandOutstanding'
    BY <1>3, <2>4 DEF OneCommandOutstanding, get_node_status
  <2> QED BY <1>0, <2>1, <2>2, <2>3, <2>5 DEF IInv
<1> QED BY <1>1, <1>2, <1>3 DEF next_watering_frame

-----------------------------------------------------------------------------
(***************************************************************************)
(* The host's writes.                                                      *)
(***************************************************************************)

\* A node takes a new schedule, which is persisted, and perhaps a status that
\* is no command.
LEMMA SetSchedule ==
  ASSUME IInv, NEW a \in Addr, Exists(a), NEW n \in Node,
         n.id_key = node_link[a].id_key,
         n.node_status = node_link[a].node_status \/ n.node_status = "INVALID_TIME",
         node_link' = [node_link EXCEPT ![a] = n],
         \/ save_durations(a, n)
         \/ /\ n.hose_duration = node_link[a].hose_duration
            /\ n.water_cycle = node_link[a].water_cycle
            /\ UNCHANGED nvs,
         time_pool' \in Nat,
         UNCHANGED <<roundVars, no_response_pairing_count, panicked>>
  PROVE  IInv'
<1>1. /\ node_link' \in [Addr -> Node \cup {NullNode}]
      /\ KeysUnique' /\ NoGaps'
      /\ node_link'[a] = n
      /\ \A b \in Addr : b # a => node_link'[b] = node_link[b]
      /\ \A b \in Addr : Exists(b)' <=> Exists(b)
  BY SetNode
<1>2. storage \in [Addr -> Schedule] BY DEF IInv, TypeOK
<1>3. /\ storage' \in [Addr -> Schedule] /\ flash' \in [Addr -> Schedule]
      /\ mounted' \in BOOLEAN /\ saved' \in BOOLEAN
      /\ SavedInFlash'
      /\ \A b \in Addr : b # a => storage'[b] = storage[b]
      /\ storage'[a] = [duration |-> n.hose_duration, cycle |-> n.water_cycle]
  <2>1. [duration |-> n.hose_duration, cycle |-> n.water_cycle] \in Schedule
    BY DEF Node, Schedule
  <2>2. CASE save_durations(a, n)
    BY <1>2, <2>1, <2>2 DEF save_durations, IInv, TypeOK
  <2>3. CASE /\ n.hose_duration = node_link[a].hose_duration
             /\ n.water_cycle = node_link[a].water_cycle
             /\ UNCHANGED nvs
    BY <1>2, <2>3 DEF IInv, TypeOK, StorageMirrorsTable
  <2> QED BY <2>2, <2>3
<1>4. TypeOK' BY <1>1, <1>3 DEF IInv, TypeOK, roundVars
<1>5. ActiveIsInRound'
  BY <1>1 DEF IInv, TypeOK, ActiveIsInRound, roundVars, Exists
<1>6. OneCommandOutstanding'
  BY <1>1 DEF IInv, OneCommandOutstanding, get_node_status, roundVars
<1>7. StorageMirrorsTable'
  BY <1>1, <1>3 DEF IInv, StorageMirrorsTable
<1> QED BY <1>1, <1>3, <1>4, <1>5, <1>6, <1>7 DEF IInv

\* Without a flash the write ends in the panic handler, whatever the pool says.
LEMMA NoFlash ==
  ASSUME IInv, NEW a, NEW n, change_node(a, n), ~mounted, time_pool' \in Nat,
         UNCHANGED <<roundVars, no_response_pairing_count>>
  PROVE  IInv'
<1>1. UNCHANGED <<node_link, nvs>> /\ panicked' = TRUE BY DEF change_node
<1>2. TypeOK' BY <1>1 DEF IInv, TypeOK, roundVars
<1>3. KeysUnique' /\ NoGaps' /\ StorageMirrorsTable' /\ SavedInFlash'
  BY <1>1 DEF IInv, KeysUnique, NoGaps, StorageMirrorsTable, Exists
<1>4. ActiveIsInRound' /\ OneCommandOutstanding'
  BY <1>1 DEF IInv, ActiveIsInRound, Exists, OneCommandOutstanding,
     get_node_status, roundVars
<1> QED BY <1>2, <1>3, <1>4 DEF IInv

\* With one, the node changes and is saved.
LEMMA ChangeNode ==
  ASSUME IInv, NEW a \in Addr, Exists(a), NEW n \in Node,
         n.id_key = node_link[a].id_key,
         n.node_status = node_link[a].node_status \/ n.node_status = "INVALID_TIME",
         change_node(a, n), time_pool' \in Nat,
         UNCHANGED <<roundVars, no_response_pairing_count>>
  PROVE  IInv'
<1>1. CASE ~mounted BY <1>1, NoFlash
<1>2. CASE mounted BY <1>2, SetSchedule DEF change_node
<1> QED BY <1>1, <1>2

LEMMA SetNodeDuration ==
  ASSUME IInv, NEW a, NEW d \in Durations, NEW status, set_node_duration(a, d, status)
  PROVE  IInv'
<1> DEFINE fits(s) == calculate_new_time_pool(a, s) \in Nat
           refused == [node_link[a] EXCEPT !.node_status = "INVALID_TIME"]
           taken == [node_link[a] EXCEPT !.hose_duration = d]
           zero == [refused EXCEPT !.hose_duration = 0]
<1>1. UNCHANGED <<roundVars, no_response_pairing_count>>
  BY DEF set_node_duration
<1>2. CASE UNCHANGED <<node_link, time_pool, nvs, panicked>>
  BY <1>1, <1>2 DEF IInv, TypeOK, KeysUnique, NoGaps, ActiveIsInRound, Exists,
     OneCommandOutstanding, StorageMirrorsTable, get_node_status, roundVars
<1>3. CASE /\ Exists(a) /\ fits(d)
           /\ change_node(a, taken)
           /\ time_pool' = calculate_new_time_pool(a, taken.hose_duration)
  <2>1. a \in Addr /\ node_link[a] \in Node BY <1>3, ExistingNode DEF IInv
  <2>2. /\ taken \in Node /\ taken.id_key = node_link[a].id_key
        /\ taken.node_status = node_link[a].node_status
        /\ taken.hose_duration = d
    BY <2>1 DEF Node
  <2>3. time_pool' \in Nat BY <1>3, <2>2
  <2> HIDE DEF taken
  <2> QED BY <1>1, <1>3, <2>1, <2>2, <2>3, ChangeNode
<1>4. CASE /\ Exists(a) /\ fits(0)
           /\ change_node(a, zero)
           /\ time_pool' = calculate_new_time_pool(a, zero.hose_duration)
  <2>1. a \in Addr /\ node_link[a] \in Node BY <1>4, ExistingNode DEF IInv
  <2>2. /\ zero \in Node /\ zero.id_key = node_link[a].id_key
        /\ zero.node_status = "INVALID_TIME"
        /\ zero.hose_duration = 0
    BY <2>1 DEF Node, NodeStatus
  <2>3. time_pool' \in Nat BY <1>4, <2>2
  <2> HIDE DEF zero
  <2> QED BY <1>1, <1>4, <2>1, <2>2, <2>3, ChangeNode
<1>5. CASE /\ Exists(a)
           /\ node_link' = [node_link EXCEPT ![a] = refused]
           /\ UNCHANGED <<time_pool, nvs, panicked>>
  <2>1. a \in Addr /\ node_link[a] \in Node BY <1>5, ExistingNode DEF IInv
  <2>2. /\ refused \in Node /\ refused.id_key = node_link[a].id_key
        /\ refused.node_status = "INVALID_TIME"
        /\ refused.hose_duration = node_link[a].hose_duration
        /\ refused.water_cycle = node_link[a].water_cycle
    BY <2>1 DEF Node, NodeStatus
  <2>3. time_pool' \in Nat BY <1>5 DEF IInv, TypeOK
  <2> HIDE DEF refused
  <2> QED BY <1>1, <1>5, <2>1, <2>2, <2>3, SetSchedule
<1> QED BY <1>2, <1>3, <1>4, <1>5 DEF set_node_duration

LEMMA SetWateringCycle ==
  ASSUME IInv, NEW a, NEW c \in SUBSET Phases, NEW status,
         set_watering_cycle(a, c, status)
  PROVE  IInv'
<1> DEFINE n == [node_link[a] EXCEPT !.water_cycle = c]
<1>1. UNCHANGED <<roundVars, no_response_pairing_count, time_pool>>
  BY DEF set_watering_cycle
<1>2. CASE UNCHANGED <<node_link, nvs, panicked>>
  BY <1>1, <1>2 DEF IInv, TypeOK, KeysUnique, NoGaps, ActiveIsInRound, Exists,
     OneCommandOutstanding, StorageMirrorsTable, get_node_status, roundVars
<1>3. CASE /\ Exists(a)
           /\ change_node(a, n)
  <2>1. a \in Addr /\ node_link[a] \in Node BY <1>3, ExistingNode DEF IInv
  <2>2. /\ n \in Node /\ n.id_key = node_link[a].id_key
        /\ n.node_status = node_link[a].node_status
    BY <2>1 DEF Node
  <2>3. time_pool' \in Nat BY <1>1 DEF IInv, TypeOK
  <2> HIDE DEF n
  <2> QED BY <1>1, <1>3, <2>1, <2>2, <2>3, ChangeNode
<1> QED BY <1>2, <1>3 DEF set_watering_cycle

-----------------------------------------------------------------------------
(***************************************************************************)
(* Every step preserves the inductive invariant.                           *)
(***************************************************************************)
LEMMA HandleFrame ==
  ASSUME IInv, NEW f \in IncomingFrame, handle_incoming_frame(f)
  PROVE  IInv'
<1>0. UNCHANGED <<no_response_pairing_count, time_pool, nvs>>
  BY DEF handle_incoming_frame
<1>1. CASE f.command = "DISCOVERY" /\ handle_discovery(f.key)
  <2>1. f.key \in Keys
    BY <1>1 DEF IncomingFrame, DiscoveryFrame, AddressingFrame, AckFrame,
       StatusReply
  <2> QED BY <1>0, <1>1, <2>1, HandleDiscovery
<1>2. CASE f.command = "ADDRESSING" /\ handle_addressing(f.key, f.address)
  <2>1. f.key \in Keys
    BY <1>2 DEF IncomingFrame, DiscoveryFrame, AddressingFrame, AckFrame,
       StatusReply
  <2> QED BY <1>0, <1>2, <2>1, HandleAddressing
<1>3. CASE f.command = "ACK" /\ handle_ack(f.address)
  BY <1>0, <1>3, HandleAck
<1>4. CASE f.command = "STATUS" /\ handle_incoming_node_status(f.address, f.status)
  <2>1. f.status \in ReportedStatus
    BY <1>4 DEF IncomingFrame, DiscoveryFrame, AddressingFrame, AckFrame,
       StatusReply
  <2> QED BY <1>0, <1>4, <2>1, HandleStatus
<1> QED BY <1>1, <1>2, <1>3, <1>4 DEF handle_incoming_frame

LEMMA IInvStep == IInv /\ [Next]_vars => IInv'
<1> SUFFICES ASSUME IInv, [Next]_vars PROVE IInv' OBVIOUS
<1>1. ASSUME NEW f \in IncomingFrame, handle_incoming_frame(f) PROVE IInv'
  BY <1>1, HandleFrame
<1>2. ASSUME NEW heard \in BOOLEAN, NEW k \in Keys, process_pairing(heard, k)
      PROVE  IInv'
  BY <1>2, ProcessPairing
<1>3. ASSUME NEW due \in BOOLEAN, NEW p \in Phases, process_watering_schedule(due, p)
      PROVE  IInv'
  BY <1>3, ProcessWateringSchedule
<1>4. CASE next_watering_frame BY <1>4, NextWateringFrame
<1>5. ASSUME NEW a, NEW d \in Durations, NEW s, set_node_duration(a, d, s)
      PROVE  IInv'
  BY <1>5, SetNodeDuration
<1>6. ASSUME NEW a, NEW c \in SUBSET Phases, NEW s, set_watering_cycle(a, c, s)
      PROVE  IInv'
  BY <1>6, SetWateringCycle
<1>7. CASE init_pairing_mode BY <1>7, InitPairing
<1>8. CASE Reboot BY <1>8, RebootStep
<1>9. CASE UNCHANGED vars
  BY <1>9 DEF IInv, TypeOK, KeysUnique, NoGaps, ActiveIsInRound, Exists,
     OneCommandOutstanding, StorageMirrorsTable, get_node_status, vars
<1> QED BY <1>1, <1>2, <1>3, <1>4, <1>5, <1>6, <1>7, <1>8, <1>9 DEF Next

LEMMA Invariance == Spec => []IInv
BY InitIInv, IInvStep, PTL DEF Spec

-----------------------------------------------------------------------------
(***************************************************************************)
(* The theorems.                                                           *)
(***************************************************************************)

\* Every operation keeps the table, the round, the time pool and the flash in
\* their ranges; in particular the time pool is never negative.
THEOREM TypeCorrect == Spec => []TypeOK
<1>1. IInv => TypeOK BY DEF IInv
<1> QED BY Invariance, <1>1, PTL

\* One address per key (create_node_pending, confirm_node_pending).
THEOREM KeysAreUnique == Spec => []KeysUnique
<1>1. IInv => KeysUnique BY DEF IInv
<1> QED BY Invariance, <1>1, PTL

\* The nodes occupy the addresses 0 .. n - 1 (get_available_address).
THEOREM AddressesHaveNoGaps == Spec => []NoGaps
<1>1. IInv => NoGaps BY DEF IInv
<1> QED BY Invariance, <1>1, PTL

\* An active index belongs to a round and to a node (conclude_watering,
\* init_pairing_mode).
THEOREM ActiveIndexIsInRound == Spec => []ActiveIsInRound
<1>1. IInv => ActiveIsInRound BY DEF IInv
<1> QED BY Invariance, <1>1, PTL

\* At most one unconfirmed water command (next_watering_frame).
THEOREM CommandsAreSerial == Spec => []OneCommandOutstanding
<1>1. IInv => OneCommandOutstanding BY DEF IInv
<1> QED BY Invariance, <1>1, PTL

\* What the last write left in memory to be saved are the schedules of the
\* table, whether or not the flash has taken them (set_node_duration,
\* set_watering_cycle, create_node_pending).
THEOREM SchedulesArePersisted == Spec => []StorageMirrorsTable
<1>1. IInv => StorageMirrorsTable BY DEF IInv
<1> QED BY Invariance, <1>1, PTL

\* After a write that has reached the flash, whatever failed before it, the
\* flash holds the schedule of every node (NvsStorage::save_durations).
THEOREM SavesAreComplete == Spec => []SavedIsPersisted
<1>1. IInv => SavedIsPersisted
  BY DEF IInv, StorageMirrorsTable, SavedIsPersisted
<1> QED BY Invariance, <1>1, PTL
-----------------------------------------------------------------------------
(***************************************************************************)
(* The order of a round.                                                   *)
(***************************************************************************)
LEMMA RoundStep ==
  ASSUME IInv, [Next]_vars,
         active_watering_index # NoIndex, active_watering_index' # NoIndex
  PROVE  active_watering_index <= active_watering_index'
<1>0. TypeOK /\ active_watering_index \in Addr BY DEF IInv, TypeOK
<1>1. SUFFICES ASSUME active_watering_index' # active_watering_index
               PROVE  active_watering_index <= active_watering_index'
  BY <1>0 DEF Addr
<1>2. ~ \E s \in HeadStatus : conclude_watering(s) BY DEF conclude_watering
<1>3. ASSUME NEW f \in IncomingFrame, handle_incoming_frame(f)
      PROVE  active_watering_index <= active_watering_index'
  <2>1. \/ UNCHANGED roundVars
        \/ advance_active_watering_index(node_link')
        \/ conclude_watering("FAULTY_NODE")
    BY <1>3 DEF handle_incoming_frame, handle_discovery, handle_addressing,
       handle_ack, handle_incoming_node_status, Panic
  <2>2. CASE advance_active_watering_index(node_link')
    BY <1>0, <2>2, Advance
  <2> QED BY <1>1, <2>1, <2>2 DEF roundVars, conclude_watering
<1>4. ASSUME NEW due, NEW p, process_watering_schedule(due, p)
      PROVE  active_watering_index <= active_watering_index'
  BY <1>1, <1>4 DEF process_watering_schedule, initialize_watering_states, roundVars
<1>5. ASSUME next_watering_frame
      PROVE  active_watering_index <= active_watering_index'
  BY <1>1, <1>5 DEF next_watering_frame, RetryNode, conclude_watering, roundVars
<1>6. ASSUME NEW h, NEW k, process_pairing(h, k)
      PROVE  active_watering_index <= active_watering_index'
  BY <1>1, <1>6 DEF process_pairing
<1>7. ASSUME NEW a, NEW d, NEW c, NEW s,
             set_node_duration(a, d, s) \/ set_watering_cycle(a, c, s)
      PROVE  active_watering_index <= active_watering_index'
  BY <1>1, <1>7 DEF set_node_duration, set_watering_cycle, roundVars
<1>8. ASSUME init_pairing_mode \/ Reboot
      PROVE  active_watering_index <= active_watering_index'
  BY <1>8 DEF init_pairing_mode, Reboot, conclude_watering
<1> QED BY <1>1, <1>3, <1>4, <1>5, <1>6, <1>7, <1>8 DEF Next, vars

\* The addresses of a round only grow (advance_active_watering_index).
THEOREM RoundsOnlyAdvance == Spec => RoundOnlyAdvances
<1>1. IInv /\ [Next]_vars =>
        [active_watering_index # NoIndex /\ active_watering_index' # NoIndex
           => active_watering_index <= active_watering_index']_vars
  BY RoundStep
<1> QED BY Invariance, <1>1, PTL DEF Spec, RoundOnlyAdvances

-----------------------------------------------------------------------------
(***************************************************************************)
(* The table implements the registry.                                      *)
(***************************************************************************)
registered == [a \in {x \in Addr : Exists(x)} |-> node_link[a].id_key]

\* The steps that give no address and take none.
SameRegistry ==
  \A a \in Addr : /\ Exists(a)' <=> Exists(a)
                  /\ Exists(a) => node_link'[a].id_key = node_link[a].id_key

LEMMA UpdatedNode ==
  ASSUME IInv, NEW a, Exists(a), NEW n,
         n.node_status \in NodeStatus, n.id_key = node_link[a].id_key,
         node_link' = [node_link EXCEPT ![a] = n]
  PROVE  SameRegistry
<1>1. a \in Addr /\ \A b \in Addr : node_link'[b] = IF b = a THEN n ELSE node_link[b]
  BY DEF IInv, TypeOK, Exists
<1>2. n # NullNode BY DEF NodeStatus, NullNode
<1> QED BY <1>1, <1>2 DEF SameRegistry, Exists

LEMMA CreatedNode ==
  ASSUME IInv, NEW key \in Keys, NEW addr, create_node_pending(key, addr)
  PROVE  SameRegistry \/ Table!Register(key)
<1>1. CASE UNCHANGED node_link BY <1>1 DEF SameRegistry, Exists
<1>2. CASE /\ NoIndex \in get_node_addr_by_key(key)
           /\ addr \in get_available_address
           /\ addr # NoIndex
           /\ node_link' = [node_link EXCEPT ![addr] = NewNode(key, addr)]
  <2>1. addr \in Addr /\ ~Exists(addr) /\ \A b \in Addr : b < addr => Exists(b)
    BY <1>2, AvailableAddress
  <2>2. \A a \in Addr : Exists(a) => node_link[a].id_key # key
    <3>1. {a \in Addr : Exists(a) /\ node_link[a].id_key = key} \in SUBSET Addr
      OBVIOUS
    <3>2. NoIndex \notin Addr BY DEF NoIndex, Addr
    <3> QED BY <1>2, <3>1, <3>2, FirstOfSpec DEF get_node_addr_by_key
  <2>3. \A b \in Addr : node_link'[b] = IF b = addr THEN NewNode(key, addr)
                                        ELSE node_link[b]
    BY <1>2, <2>1 DEF IInv, TypeOK
  <2>4. NewNode(key, addr) # NullNode /\ NewNode(key, addr).id_key = key
    BY DEF NewNode, NullNode
  <2>5. {x \in Addr : Exists(x)} = 0 .. addr - 1
    BY <2>1 DEF IInv, NoGaps, Addr
  <2>6. {x \in Addr : Exists(x)'} = 0 .. addr
    <3>1. \A b \in Addr : Exists(b)' <=> (b = addr \/ Exists(b))
      BY <2>1, <2>3, <2>4 DEF Exists
    <3> QED BY <2>1, <2>5, <3>1 DEF Addr
  <2>7. registered' = [a \in 0 .. addr |-> IF a = addr THEN key ELSE registered[a]]
    BY <2>1, <2>3, <2>4, <2>5, <2>6 DEF registered, Addr
  <2>8. DOMAIN registered = 0 .. addr - 1 BY <2>5 DEF registered
  <2>9. \A a \in DOMAIN registered : registered[a] # key
    BY <2>2 DEF registered
  <2> QED BY <2>1, <2>7, <2>8, <2>9 DEF Table!Register, registered, Addr
<1> QED BY <1>1, <1>2 DEF create_node_pending

LEMMA HandledFrame ==
  ASSUME IInv, NEW f \in IncomingFrame, handle_incoming_frame(f)
  PROVE  SameRegistry \/ \E key \in Keys : Table!Register(key)
<1>1. f.command \in {"DISCOVERY", "ADDRESSING"} => f.key \in Keys
  BY DEF IncomingFrame, DiscoveryFrame, AddressingFrame, AckFrame,
     StatusReply
<1>2. CASE \E addr \in Addr \cup {NoIndex} :
             f.key \in Keys /\ create_node_pending(f.key, addr)
  BY <1>2, CreatedNode
<1>3. CASE f.command = "ADDRESSING" /\ confirm_node_pending(f.key, f.address)
  <2> DEFINE a == f.address
             n == [node_link[a] EXCEPT !.node_status = "READY"]
  <2>1. a \in Addr /\ node_link[a] \in Node
    BY <1>3, ExistingNode DEF IInv, confirm_node_pending
  <2>2. n.node_status \in NodeStatus /\ n.id_key = node_link[a].id_key
    BY <2>1 DEF Node, NodeStatus
  <2>3. node_link' = [node_link EXCEPT ![a] = n]
    BY <1>3, <2>1 DEF confirm_node_pending, IInv, TypeOK
  <2> HIDE DEF n
  <2> QED BY <1>3, <2>2, <2>3, UpdatedNode DEF confirm_node_pending
<1>4. CASE f.command = "ACK" /\ handle_ack(f.address)
  <2> DEFINE a == f.address
             n == [node_link[a] EXCEPT !.node_status = "WATERING",
                                       !.retry_attempts = 0]
  <2>1. CASE Panic BY <2>1 DEF Panic, SameRegistry, Exists
  <2>2. CASE Exists(a) /\ node_link' = [node_link EXCEPT
                                          ![a].node_status = "WATERING",
                                          ![a].retry_attempts = 0]
    <3>1. a \in Addr /\ node_link[a] \in Node BY <2>2, ExistingNode DEF IInv
    <3>2. n.node_status \in NodeStatus /\ n.id_key = node_link[a].id_key
      BY <3>1 DEF Node, NodeStatus
    <3>3. node_link' = [node_link EXCEPT ![a] = n]
      BY <2>2, <3>1 DEF IInv, TypeOK
    <3> HIDE DEF n
    <3> QED BY <2>2, <3>2, <3>3, UpdatedNode
  <2> QED BY <1>4, <2>1, <2>2 DEF handle_ack
<1>5. CASE f.command = "STATUS" /\ handle_incoming_node_status(f.address, f.status)
  <2> DEFINE a == f.address
             n == [node_link[a] EXCEPT !.retry_attempts = 0,
                                       !.node_status = f.status]
  <2>0. f.status \in NodeStatus
    BY <1>5 DEF IncomingFrame, DiscoveryFrame, AddressingFrame, AckFrame,
       StatusReply, ReportedStatus, NodeStatus
  <2>1. CASE Panic BY <2>1 DEF Panic, SameRegistry, Exists
  <2>2. CASE Exists(a) /\ node_link' = [node_link EXCEPT
                                          ![a].retry_attempts = 0,
                                          ![a].node_status = f.status]
    <3>1. a \in Addr /\ node_link[a] \in Node BY <2>2, ExistingNode DEF IInv
    <3>2. n.node_status \in NodeStatus /\ n.id_key = node_link[a].id_key
      BY <2>0, <3>1 DEF Node
    <3>3. node_link' = [node_link EXCEPT ![a] = n]
      BY <2>2, <3>1 DEF IInv, TypeOK
    <3> HIDE DEF n
    <3> QED BY <2>2, <3>2, <3>3, UpdatedNode
  <2> QED BY <1>5, <2>1, <2>2 DEF handle_incoming_node_status
<1>6. CASE Panic BY <1>6 DEF Panic, SameRegistry, Exists
<1> QED BY <1>1, <1>2, <1>3, <1>4, <1>5, <1>6
        DEF handle_incoming_frame, handle_discovery, handle_addressing

\* A round that begins (process_watering_schedule).
LEMMA ScheduledSame ==
  ASSUME IInv, NEW due, NEW p, process_watering_schedule(due, p)
  PROVE  SameRegistry
<1>1. CASE UNCHANGED node_link BY <1>1 DEF SameRegistry, Exists
<1>2. CASE initialize_watering_states(p)
  <2>1. \A a \in Addr : node_link'[a] =
          IF a \in Queued(p) THEN [node_link[a] EXCEPT !.node_status = "IN_QUEUE"]
          ELSE node_link[a]
    BY <1>2 DEF initialize_watering_states
  <2>2. \A a \in Queued(p) : Exists(a) /\ node_link[a] \in Node
    BY ExistingNode DEF Queued, is_node_watering_this_phase, IInv
  <2>3. \A n \in Node : LET m == [n EXCEPT !.node_status = "IN_QUEUE"]
                        IN  m # NullNode /\ m.id_key = n.id_key
    BY DEF Node, NullNode
  <2> QED BY <2>1, <2>2, <2>3 DEF SameRegistry, Exists
<1> QED BY <1>1, <1>2 DEF process_watering_schedule

\* A command, or one more attempt (next_watering_frame).
LEMMA CommandedSame ==
  ASSUME IInv, next_watering_frame
  PROVE  SameRegistry
<1> DEFINE i == active_watering_index
<1>1. CASE UNCHANGED node_link BY <1>1 DEF SameRegistry, Exists
<1>2. ASSUME Exists(i), NEW s, s \in NodeStatus, NEW r,
             \/ node_link' = [node_link EXCEPT ![i].node_status = s]
             \/ node_link' = [node_link EXCEPT ![i].retry_attempts = r]
             \/ node_link' = [node_link EXCEPT ![i].retry_attempts = r,
                                               ![i].node_status = s]
      PROVE  SameRegistry
  <2>1. i \in Addr /\ node_link[i] \in Node BY <1>2, ExistingNode DEF IInv
  <2>2. PICK n : /\ node_link' = [node_link EXCEPT ![i] = n]
                 /\ \/ n = [node_link[i] EXCEPT !.node_status = s]
                    \/ n = [node_link[i] EXCEPT !.retry_attempts = r]
                    \/ n = [node_link[i] EXCEPT !.retry_attempts = r,
                                                !.node_status = s]
    BY <1>2, <2>1 DEF IInv, TypeOK
  <2>3. n.node_status \in NodeStatus /\ n.id_key = node_link[i].id_key
    BY <1>2, <2>1, <2>2 DEF Node
  <2> QED BY <1>2, <2>2, <2>3, UpdatedNode
<1>3. "COMMAND_SENT" \in NodeStatus /\ "ERR" \in NodeStatus BY DEF NodeStatus
<1> QED BY <1>1, <1>2, <1>3 DEF next_watering_frame, RetryNode

\* The host's writes (set_node_duration, set_watering_cycle).
LEMMA DurationSame ==
  ASSUME IInv, NEW a, NEW d, NEW s, set_node_duration(a, d, s)
  PROVE  SameRegistry
<1>1. CASE UNCHANGED node_link BY <1>1 DEF SameRegistry, Exists
<1>2. ASSUME Exists(a), NEW n, node_link' = [node_link EXCEPT ![a] = n],
             n \in {[node_link[a] EXCEPT !.hose_duration = d],
                    [node_link[a] EXCEPT !.node_status = "INVALID_TIME"],
                    [[node_link[a] EXCEPT !.node_status = "INVALID_TIME"]
                       EXCEPT !.hose_duration = 0]}
      PROVE  SameRegistry
  <2>1. a \in Addr /\ node_link[a] \in Node BY <1>2, ExistingNode DEF IInv
  <2>2. n.node_status \in NodeStatus /\ n.id_key = node_link[a].id_key
    BY <1>2, <2>1 DEF Node, NodeStatus
  <2> QED BY <1>2, <2>2, UpdatedNode
<1> QED BY <1>1, <1>2 DEF set_node_duration, change_node

LEMMA CycleSame ==
  ASSUME IInv, NEW a, NEW c, NEW s, set_watering_cycle(a, c, s)
  PROVE  SameRegistry
<1>1. CASE UNCHANGED node_link BY <1>1 DEF SameRegistry, Exists
<1>2. CASE /\ Exists(a)
           /\ node_link' = [node_link EXCEPT
                              ![a] = [node_link[a] EXCEPT !.water_cycle = c]]
  <2> DEFINE n == [node_link[a] EXCEPT !.water_cycle = c]
  <2>1. a \in Addr /\ node_link[a] \in Node BY <1>2, ExistingNode DEF IInv
  <2>2. n.node_status \in NodeStatus /\ n.id_key = node_link[a].id_key
    BY <2>1 DEF Node
  <2>3. node_link' = [node_link EXCEPT ![a] = n] BY <1>2
  <2> HIDE DEF n
  <2> QED BY <1>2, <2>2, <2>3, UpdatedNode
<1> QED BY <1>1, <1>2 DEF set_watering_cycle, change_node

LEMMA RegistryStep ==
  ASSUME IInv, [Next]_vars
  PROVE  [Table!Next]_registered
<1>1. ASSUME SameRegistry PROVE registered' = registered
  <2>1. {x \in Addr : Exists(x)'} = {x \in Addr : Exists(x)}
    BY <1>1 DEF SameRegistry
  <2> QED BY <1>1, <2>1 DEF SameRegistry, registered
<1>2. ASSUME node_link' = [a \in Addr |-> NullNode] PROVE Table!Forget
  <2>1. \A a \in Addr : ~Exists(a)' BY <1>2 DEF Exists
  <2>2. registered' = [a \in {} |-> node_link'[a].id_key] BY <2>1 DEF registered
  <2>3. registered' = [a \in {} |-> 0] BY <2>2
  <2> QED BY <2>3 DEF Table!Forget, Table!Empty, registered
<1>3. ASSUME NEW f \in IncomingFrame, handle_incoming_frame(f)
      PROVE  SameRegistry \/ \E key \in Keys : Table!Register(key)
  BY <1>3, HandledFrame
<1>4. ASSUME NEW h, NEW k, process_pairing(h, k) PROVE SameRegistry
  BY <1>4 DEF process_pairing, SameRegistry, Exists
<1>5. ASSUME init_pairing_mode \/ Reboot PROVE Table!Forget
  BY <1>2, <1>5 DEF init_pairing_mode, Reboot
<1>6. ASSUME UNCHANGED vars PROVE SameRegistry
  BY <1>6 DEF vars, SameRegistry, Exists
<1> QED BY <1>1, <1>3, <1>4, <1>5, <1>6, ScheduledSame, CommandedSame, DurationSame, CycleSame
        DEF Next, Table!Next

\* Whatever is called in whatever order, the addresses are those of the
\* abstract registry (get_available_address, create_node_pending).
THEOREM HeadImplementsRegistry == Spec => ImplementsRegistry
<1>1. Init => Table!Init
  <2>1. ASSUME Init PROVE \A a \in Addr : ~Exists(a) BY <2>1 DEF Init, Exists
  <2>2. ASSUME Init PROVE registered = [a \in {} |-> node_link[a].id_key]
    BY <2>1, <2>2 DEF registered
  <2>3. ASSUME Init PROVE registered = [a \in {} |-> 0] BY <2>2, <2>3
  <2> QED BY <2>3 DEF Table!Init, Table!Empty, registered
<1>2. IInv /\ [Next]_vars => [Table!Next]_registered BY RegistryStep
<1> QED BY Invariance, <1>1, <1>2, PTL
        DEF Spec, ImplementsRegistry, Table!Spec, registered

-----------------------------------------------------------------------------
(***************************************************************************)
(* The loop of the head task: it implements Head, so that the theorems     *)
(* above hold of it, and takes a pairing after everything else that stood  *)
(* in the mailbox.                                                         *)
(***************************************************************************)
\* The mailbox holds requests of the host, with at most one pairing.
Mailed == extRequests \subseteq Request

LEMMA InitMailed == TaskInit => Mailed
BY DEF TaskInit, Mailed, Request, PairingRequest

LEMMA MailedStep == Mailed /\ [TaskNext]_allVars => Mailed'
<1> SUFFICES ASSUME Mailed, [TaskNext]_allVars PROVE Mailed' OBVIOUS
<1> USE DEF Mailed
<1>1. ASSUME NEW frame, receive(frame) PROVE Mailed' BY <1>1 DEF receive
<1>2. ASSUME NEW key, pair(key) PROVE Mailed' BY <1>2 DEF pair
<1>3. ASSUME NEW due, NEW phase, schedule(due, phase) PROVE Mailed'
  BY <1>3 DEF schedule
<1>4. CASE command BY <1>4 DEF command
<1>5. CASE process_external_request BY <1>5 DEF process_external_request
<1>6. CASE node_task_killed BY <1>6 DEF node_task_killed
<1>7. CASE notify BY <1>7 DEF notify
<1>8. ASSUME NEW r \in HostRequests, putRequest(r) PROVE Mailed'
  BY <1>8, HostRequestsAssumption DEF putRequest, put
<1>9. CASE status_task BY <1>9 DEF status_task
<1>10. CASE restart BY <1>10 DEF restart, Request, PairingRequest
<1>11. CASE UNCHANGED allVars BY <1>11 DEF allVars, taskVars
<1> QED BY <1>1, <1>2, <1>3, <1>4, <1>5, <1>6, <1>7, <1>8, <1>9, <1>10, <1>11
        DEF TaskNext, HeadLoop

LEMMA AlwaysMailed == TaskSpec => []Mailed
BY InitMailed, MailedStep, PTL DEF TaskSpec

-----------------------------------------------------------------------------
\* Serving a request is one operation of Head, or none.
LEMMA ServeStep ==
  ASSUME NEW r \in Request, Serve(r)
  PROVE  Next \/ UNCHANGED vars
<1>1. CASE r.type = "WRITE_NODE_DURATION"
  <2>1. r.addr \in Addr \cup {ADDR_UNSET} /\ r.duration \in Durations
    BY <1>1 DEF Request
  <2> QED BY <1>1, <2>1 DEF Serve, Next
<1>2. CASE r.type = "WRITE_NODE_CYCLE"
  <2>1. r.addr \in Addr \cup {ADDR_UNSET} /\ r.cycle \in SUBSET Phases
    BY <1>2 DEF Request
  <2> QED BY <1>2, <2>1 DEF Serve, Next
<1>3. CASE r.type \notin {"WRITE_NODE_DURATION", "WRITE_NODE_CYCLE"}
  BY <1>3 DEF Serve, Next
<1> QED BY <1>1, <1>2, <1>3

LEMMA TaskStep == Mailed /\ [TaskNext]_allVars => [Next]_vars
<1> SUFFICES ASSUME Mailed, [TaskNext]_allVars PROVE Next \/ UNCHANGED vars
  OBVIOUS
<1>1. ASSUME NEW frame \in IncomingFrame \cup {NoFrame}, receive(frame)
      PROVE  Next
  <2>1. CASE frame = NoFrame
    <3>1. PICK p \in Phases : TRUE BY PhasesAssumption
    <3>2. process_watering_schedule(FALSE, p)
      BY <1>1, <2>1 DEF receive, process_watering_schedule
    <3> QED BY <3>1, <3>2 DEF Next
  <2>2. CASE frame # NoFrame BY <1>1, <2>2 DEF receive, Next
  <2> QED BY <2>1, <2>2
<1>2. ASSUME NEW key \in Keys, pair(key) PROVE Next
  <2>1. (returned # NoFrame) \in BOOLEAN OBVIOUS
  <2> QED BY <1>2, <2>1 DEF pair, Next
<1>3. ASSUME NEW due \in BOOLEAN, NEW phase \in Phases, schedule(due, phase)
      PROVE  Next
  BY <1>3 DEF schedule, Next
<1>4. ASSUME command PROVE Next BY <1>4 DEF command, Next
<1>5. ASSUME process_external_request PROVE Next \/ UNCHANGED vars
  <2>1. PICK r \in next_request : Serve(r)
    BY <1>5 DEF process_external_request
  <2>2. r \in Request BY <2>1 DEF next_request, ahead, Mailed
  <2> QED BY <2>1, <2>2, ServeStep
<1>6. ASSUME node_task_killed \/ notify \/ status_task
             \/ \E r \in HostRequests : putRequest(r)
      PROVE  UNCHANGED vars
  BY <1>6 DEF node_task_killed, notify, status_task, putRequest
<1>7. ASSUME restart PROVE Next BY <1>7 DEF restart, Next
<1>8. ASSUME UNCHANGED allVars PROVE UNCHANGED vars BY <1>8 DEF allVars
<1> QED BY <1>1, <1>2, <1>3, <1>4, <1>5, <1>6, <1>7, <1>8 DEF TaskNext, HeadLoop

\* The loop of the head task calls the operations of Head and changes its state
\* in no other way (HeadTask::run, process_external_requests).
THEOREM LoopImplementsHead == TaskSpec => ImplementsHead
<1>1. TaskInit => Init BY DEF TaskInit
<1> QED BY <1>1, TaskStep, AlwaysMailed, PTL DEF TaskSpec, ImplementsHead, Spec

\* What is proved of Head holds in the task: here, that the flash holds every
\* schedule after a write that has succeeded.
THEOREM SavesAreCompleteInTheTask == TaskSpec => []SavedIsPersisted
BY LoopImplementsHead, SavesAreComplete DEF ImplementsHead

-----------------------------------------------------------------------------
\* Every request has a slot, and only a pairing the last one.
LEMMA Slots ==
  ASSUME NEW q \in Request
  PROVE  to_i[q.type] \in Nat /\ (to_i[q.type] >= to_i["INIT_PAIRING"] => q = PairingRequest)
BY DEF Request, PairingRequest, to_i

\* What the search has passed has been put behind it, and there is no search
\* but in this part of the loop.
Searched ==
  /\ slot \in Nat
  /\ pc # "requests" => slot = 0
  /\ \A q \in extRequests : to_i[q.type] < slot => q.type \in late

\* A new search begins at the first slot.
LEMMA NewSearch ==
  ASSUME Mailed', slot' = 0
  PROVE  Searched'
<1>1. \A q \in extRequests' : to_i[q.type] \in Nat BY Slots DEF Mailed
<1> QED BY <1>1 DEF Searched

\* A put behind the search, or one that the search has gone past, is late
\* (ExtRqManager::pop, handle_writes).
LEMMA PutIsLate ==
  ASSUME Mailed, Searched, NEW r \in Request, putRequest(r)
  PROVE  Searched'
<1>1. /\ extRequests' = {q \in extRequests : q.type # r.type} \cup {r}
      /\ pc' = pc
      /\ late \subseteq late'
      /\ pc = "requests" /\ (\A q \in extRequests : q.type # r.type) => r.type \in late'
  BY DEF putRequest, put
<1>2. to_i[r.type] \in Nat /\ \A q \in extRequests : to_i[q.type] \in Nat
  BY Slots DEF Mailed
<1>3. CASE UNCHANGED slot
  <2>1. to_i[r.type] < slot => r.type \in late'
    <3> SUFFICES ASSUME to_i[r.type] < slot PROVE r.type \in late' OBVIOUS
    <3>1. pc = "requests" BY <1>2 DEF Searched
    <3>2. CASE \A q \in extRequests : q.type # r.type BY <1>1, <3>1, <3>2
    <3>3. CASE \E q \in extRequests : q.type = r.type BY <1>1, <3>3 DEF Searched
    <3> QED BY <3>2, <3>3
  <2> QED BY <1>1, <1>3, <2>1 DEF Searched
<1>4. CASE /\ pc = "requests" /\ slot <= to_i[r.type]
           /\ \A q \in ahead : to_i[q.type] > to_i[r.type]
           /\ slot' = to_i[r.type] + 1
  <2>1. \A q \in extRequests : to_i[q.type] <= to_i[r.type] => to_i[q.type] < slot
    BY <1>2, <1>4 DEF ahead, Searched
  <2>2. \A q \in extRequests : to_i[q.type] < slot' => q.type \in late
    BY <1>2, <1>4, <2>1 DEF Searched
  <2>3. r.type \in late'
    <3>1. CASE \A q \in extRequests : q.type # r.type BY <1>1, <1>4, <3>1
    <3>2. CASE \E q \in extRequests : q.type = r.type
      BY <1>1, <1>2, <1>4, <2>2, <3>2
    <3> QED BY <3>1, <3>2
  <2> QED BY <1>1, <1>2, <1>4, <2>2, <2>3 DEF Searched
<1> QED BY <1>3, <1>4 DEF putRequest

LEMMA SearchedStep ==
  ASSUME Mailed, Mailed', Searched, [TaskNext]_allVars \/ restart
  PROVE  Searched'
<1>1. CASE /\ UNCHANGED <<extRequests, search>>
           /\ pc' = pc \/ pc # "requests"
  BY <1>1 DEF Searched, search
<1>2. CASE slot' = 0 BY <1>2, NewSearch
<1>3. ASSUME NEW r \in HostRequests, putRequest(r) PROVE Searched'
  BY <1>3, HostRequestsAssumption, PutIsLate
<1>4. HeadLoop => \/ UNCHANGED <<extRequests, search>> /\ pc # "requests"
                  \/ slot' = 0
  BY DEF HeadLoop, receive, pair, schedule, command, process_external_request,
     node_task_killed, notify, new_pop
<1>5. status_task => UNCHANGED <<extRequests, search, pc>> BY DEF status_task
<1>6. restart => slot' = 0 BY DEF restart, new_pop
<1>7. UNCHANGED allVars => UNCHANGED <<extRequests, search, pc>>
  BY DEF allVars, taskVars
<1> QED BY <1>1, <1>2, <1>3, <1>4, <1>5, <1>6, <1>7 DEF TaskNext

LEMMA InitSearched == TaskInit => Searched
<1> SUFFICES ASSUME TaskInit PROVE Searched OBVIOUS
<1>1. slot = 0 /\ extRequests = {PairingRequest} BY DEF TaskInit
<1>2. PairingRequest \in Request BY DEF PairingRequest, Request
<1> QED BY <1>1, <1>2, Slots DEF Searched

LEMMA AlwaysSearched == TaskSpec => []Searched
<1>1. Mailed /\ Mailed' /\ Searched /\ [TaskNext]_allVars => Searched'
  BY SearchedStep
<1> QED BY <1>1, InitSearched, AlwaysMailed, PTL DEF TaskSpec

\* What stands before the last slot is served first (ExtRqManager::pop).
LEMMA TakenLast ==
  ASSUME Mailed, Searched, process_external_request, pc' = "kill_node_task",
         NEW q \in extRequests \ {PairingRequest}
  PROVE  q.type \in late
<1>1. PICK r \in next_request : Serve(r) BY DEF process_external_request
<1>2. r.type = "INIT_PAIRING" BY <1>1 DEF Serve, process_external_request
<1>3. to_i[q.type] \in Nat /\ ~(to_i[q.type] >= to_i["INIT_PAIRING"])
  BY Slots DEF Mailed
<1>4. q \notin ahead BY <1>1, <1>2, <1>3 DEF next_request
<1>5. to_i[q.type] < slot BY <1>3, <1>4 DEF ahead, Searched
<1> QED BY <1>5 DEF Searched

LEMMA PairingStep ==
  ASSUME Mailed, Searched, [TaskNext]_allVars \/ restart,
         pc = "requests", pc' = "kill_node_task"
  PROVE  \A q \in extRequests \ {PairingRequest} : q.type \in late
<1>1. CASE process_external_request BY <1>1, TakenLast
<1>2. CASE ~process_external_request
  BY <1>2 DEF TaskNext, HeadLoop, receive, pair, schedule, command,
     node_task_killed, notify, putRequest, status_task, restart, allVars, taskVars
<1> QED BY <1>1, <1>2

\* When a pairing is taken from the mailbox, nothing else is in it but what was
\* put behind the search for it (ExtRqManager::pop and the order of BLE::Cmds).
THEOREM StandingIsServedFirst == TaskSpec => StandingBeforePairing
<1>1. Mailed /\ Searched /\ [TaskNext]_allVars =>
        [pc = "requests" /\ pc' = "kill_node_task" =>
           \A r \in extRequests \ {PairingRequest} : r.type \in late]_allVars
  BY PairingStep
<1> QED BY AlwaysMailed, AlwaysSearched, <1>1, PTL DEF TaskSpec, StandingBeforePairing
=============================================================================
