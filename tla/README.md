# drippet in TLA+

drippet waters plants. A *head* (an ESP32 with a Bluetooth link to a host)
controls a line of *nodes* over an RS485 bus; every node has a valve and the
switch that gives power to the next node of the line. The head's own device
holds a node too. The host sets the time, the daily start time and, for each
node, how long and on which weekdays it waters.

These modules are translated from the C++ of `src/drippet_head/main`; paths
below are relative to it unless they begin with `docs/` or `tests/`.
`PROJECT.json` names, for each definition, the lines it stands for.

## 1. The system

| Component | State | Operations | Hard part | Correct if |
| --- | --- | --- | --- | --- |
| **Head** `core/src/head.cpp` | table of nodes (key, status, attempts, duration, cycle), head status, active index, count of silent passes, time pool, persisted schedules | frames in; a pass of pairing; a pass of watering; durations and cycles from the host; start of pairing | any frame in any state; rounds that meet faults and refused durations | one key per address, no gaps, one command outstanding, persisted = in RAM, time pool = remainder |
| **Head task** `tasks/head_task.cpp` | position in the loop, statuses at its top | receive, act, serve requests, notify, every 500 ms | order of the parts; what the status task sees and when | every request served, what stood before a pairing before it; every event told |
| **Mailboxes** `core/include/external_requests.hpp` | one slot per command, for requests and for events | put, pop, count | shared by three tasks without a lock; a pop looks at one slot after the other | a pop takes what stood first when it began; nothing lost or served twice |
| **SelfNode and its task** `core/src/self_node.cpp`, `tasks/self_node_task.cpp` | key, address, status, valve, downstream switch | pairing frames, water command, status request, end of watering time | switch that fails; late and repeated frames; destruction by `reset_node` | valve open only in service and only until its time; address kept |
| **Queues, UART task, bus** `core/env/esp32/queue.hpp`, `tasks/uart_task.cpp`, `core/src/protocol.cpp` | FreeRTOS queues; the bytes of a read | send, receive, find frames in bytes | reads that cut frames, noise, damage, full queues | what arrives was sent, and arrives in order; nothing whole is skipped |
| **Clock** `core/src/clock.cpp` | system time, offset, start time, next watering point | set time, set start time, is due, next point, weekday | jumps of the clock, midnight here and in UTC, start times of any two bytes, restarts, reads from another task | the rounds of the schedule, once each and of the right weekday; reads back as written |
| **Bluetooth link** `ble/`, `core/src/ble_link_interface.cpp`, `tasks/status_task.cpp` | advertising, connection, subscription flags, packet buffer, notification bits | advertise, connect, write, read, subscribe, disconnect, indicate, notify | one buffer for two tasks; disconnect before the answer; a refused advertisement | each answer reaches the host, whole; the device can be found |
| **NVS** `core/env/esp32/nvs_storage.cpp` | blob of schedules, RAM copy, handle | open, erase, load, save | a flash that cannot be opened or read; write or commit that fails | after a write that succeeds, a restart finds what was set |
| **Boot** `drippet.cpp`, `tasks/head_entrypoint.cpp` | role, tasks | election by ten silent seconds, set-up of the head, `reset_node` | election race; timeout of `reset_node` | one head |
| LEDs, button, stubs, Python tools | | | | not modelled: they change nothing the others read, or are not started |

How they interact: the head task and the UART task exchange frames through two
queues, the UART task passes them to the bus and to the node of the same device
through two more. The Bluetooth host task puts requests in a mailbox; the head
task serves them and puts events in another, and sets notification bits of the
status task, which pops the events and sends them. Pairing calls back into the
head's entry point (`kill_node_task_fn`), which destroys the head's own node,
cutting the power of the line, and starts another.

## 2. The modules

```
Registry <--implements-- Head <--implements-- HeadTask <--extends-- System --INSTANCE--> SelfNode
                                                            |          (all EXTEND Protocol)
Wire     <--implements-- Framing <--extends-- Serial --INSTANCE--> Protocol
Mailbox  <--implements-- HostLink             Crc16                Clock

Proofs:  HeadProofs  <--extends-- LineProofs  <--extends-- SystemProofs  <--extends-- OneRemoteProofs
         SelfNodeProofs  FramingProofs  HostLinkProofs  ClockProofs
MC:      MCHead  MCHeadTask  MCSelfNode  MCSystem  MCFraming  MCHostLink  MCClock
```

**Protocol** – frames as records with the one datum their command uses.
`OnWire` is what is left of a frame after `prepare_bytes` on one side and
`reconstruct_uart_message` on the other: data beyond `data_length` is 0. That is
why a DISCOVERY, whose `data_length` the head does not set, carries key 0 to all
nodes but its own.

**Framing** – the bytes: how a message becomes a frame, and how the receiving
half of `UartTask` finds frames in a read. The driver hands over any number of
the bytes that have arrived, so a read cuts frames anywhere; frames lose a byte
(`send_damaged`), other bytes come in between (`disturb`), the queue behind may
be full. A checked frame of odd data length fails an `assert`, which ends the receiver
(`panicked`). `start_index` moves as in the code, by the length of the frame from
where the *search* began. **Wire** is what Framing implements: messages may be
lost and may come again, but none comes that was not sent, and none overtakes
another. **Crc16** is the checksum; **Serial** gives the words of each command
and says, in `Faithful`, that the bytes do to a frame what `OnWire` says. The
assumptions of `MCFraming` evaluate `Faithful` for all commands at the ends of
their ranges, and the checksum for its published check value.

**Registry** – the abstract promise about addresses: the lowest free address to
a new key, for good, until all is forgotten.

**Head** – class `Head`. One action per operation, each with any argument, in
any order, from any contents of the flash; frames are the ones its queue can
hold (`IncomingFrame`; `SystemTypeOK` checks that against the nodes' side). A
failed `assert` and a null pointer both lead to `panicked`, left by `Reboot`.
The storage is in four variables: `storage`, the RAM copy that `save_durations`
changes in any case; `flash`, the blob, which it replaces as a whole if write
and commit succeed; `mounted`, without which the first write follows a null
handle; and the history `saved`. `FlashMayFail` says at which addresses a write
may fail; if there are any, a restart may also find a flash that it cannot open
or read, or has to erase. The next watering point, which
`process_watering_schedule` also moves, is in `Clock`. `time_pool` is computed by
a recursive function, not a RECURSIVE operator, so that the module can be proved
about.

**HeadTask** – `HeadTask::run` and `process_external_requests`, cut where
another task can see or change something. A pop looks at one slot after the other,
and the Bluetooth host task, of higher priority, may put a request in between. How
far the search has come shows only when a put comes, so `putRequest` decides it:
where the search may have passed the slot, `slot` moves behind it, and
`process_external_request` takes the least request that is not behind
(`next_request`). `late` is a history of what the pop may overlook. A put within
the copy of its own slot may be lost, which is the subject of *HostLink*. The
status task here pops events whether a host is subscribed or not; connections are
in HostLink.

**SelfNode** – class `SelfNode` and the loop of its task. `receive` is the frame
part of a pass, `process_watering_schedule` the clock part once the time is up;
the time itself is left open. Where `faulty` holds, which `FaultModes` decides
once per behaviour, every switching of the valve (`switch_valve`) has the outcome
ERR too, in which the valve has not moved, and the switch of the next node's power
(`complete_initialization`) one in which it has not come on, which the code does not
look at. `heard` is what the election of
`app_main` asks: a device that has heard nothing `takes_over`.

**System** – the composition: the queues with their capacity, who hears what
over the bus, power along the line, `reset_node`, restarts. In `Powered`, a node
has power if all nodes before it have switched it on. Where `faulty` holds, each
of those who listen may get no copy of a frame or two (`Copies`), as Wire allows.

**HostLink** – mailboxes, buffer, notification bits and connection at the grain
of one access to a slot or to the buffer per step, each look of a search included
(`Look`); the copy of a request takes two. Any call that starts the advertising may
be refused. **Mailbox** is what it implements, once per mailbox, by a refinement
mapping: a pop begins and ends, and takes the least of what stood there when it
began or was put in front of it; what is put behind it meanwhile it may overlook
(`overlooked`). A slot that pop has found and not yet cleared counts as empty.

**Clock** – time in minutes, the search for the next point, being due, weekday,
`set_time` in two steps because the Bluetooth task reads between them. A phase has
any length; the head is built with one of a minute (`DEV_PHASE_LEN`,
`core/include/constants.hpp:66`, `tasks/head_entrypoint.hpp:50`) and is meant to have
one of a day (`docs/time_migration_remaining.md:126`). The start time is any number up
to `MaxStart`, as hour and minute are bytes that nobody looks at. `Scheduled` says
which points that makes: a start time within the day, and every phase after it until
midnight and the first past it; an hour of 24 or more, the time of day that is left
of it, once in as many days as it has.

## 3. Assumptions about time and scheduling

*Fairness.* Every task is scheduled: FreeRTOS tasks here wait only in `vTaskDelay`, in
queue operations with a timeout, in sends that wait for room, and for notifications.
Hence weak fairness of the head loop, the UART task, each node and the status task, of
the end of a watering time and of the restart after a panic. No fairness for the host
(writes, reads, connecting), for power failures, or for a round becoming due. Where
frames may be lost, no fairness says that some arrive: `RoundEnds`, `FaultIsReported`
and `QueuedNodeIsWatered` hold on a bus that loses them all. Head, SelfNode, Framing
and Clock state no liveness and no fairness.

*System.* The loop of the head takes 500 ms and more; a frame and its answer
wait 50 ms at most in each of the UART tasks they pass, four at most, and 200 ms
in the node's. The waits that
matter are ten passes long (`STOP_PAIRING_COUNT`, `RETRY_NODE_MAX`) or a phase
(the next round). So `LastPass` holds the last pass of a long wait back until the
frames under way have arrived, and a round becomes due only when `Quiet`.
Without it a model could run a whole wait out before one frame has crossed the
bus. Everything before the last pass is unordered.

*Repairing* says when the host asks for another pairing: `"standby"` (head at
rest, nothing under way), `"quiet"` (nothing under way), `"any"`. The passing
runs use the first; what the other two lead to is in section 5.

*Framing.* The bytes of one frame are not interleaved with those of another: one
head asks and one node answers. Noise comes between frames or takes a byte out of
one; a byte that is *changed* is caught by the checksum or not, and is a lost
frame in System. `take` has no rhythm, so the queue may be full at any time.

*HostLink.* The initial state decides whether the host is *patient*: it stays,
has subscribed, and awaits the answer to each operation. Otherwise it writes
whenever it likes and may go away. `put_event` waits, for a patient host, until
the write it answers has returned: the NimBLE host task has priority 4, the head
task 2.

*Clock.* `tick` stops while watering is due: the loop looks at the clock every
600 ms, and the unit is a minute. The loop does not look during a pairing; a start
time that comes within one is not explored.

## 4. The runs

All cfgs check deadlock. Constants shorten lines, counts and days and keep their
relations: `RetryMax < RetryWidth` as 10 < 256; two attempts and two silent passes are
the least that tell the first from the last (Head and HeadTask alone get by with one
silent pass); days of four units have an offset that moves midnight to either side.
Framing has the real sizes of a frame and the real checksum. Clock has the phase of
the build as its unit of time. Bounds in guards: `MaxWrites` (writes of the host),
`MaxDisconnects`, `MaxUpsets` (writes and repeated frames on a faulty line; lost
frames and failing valves are unbounded), `MaxNoise` (bursts and damaged frames),
`MaxTime`, `MaxSets`, `MaxRestarts`; every message of Framing is sent once. Queue
lengths are the code's capacity, or less. Nothing else is bounded.

`head.cfg` has a VIEW: which key a node has is replaced by which nodes have the same,
as Head only compares keys with each other, and `returned` is left out, which no
action of Head and no property of this run reads. Steps are still checked with the
keys they are about.

| Run | Instance | Shows |
| --- | --- | --- |
| `head` | 2 addresses, 3 keys, any flash, which may fail to be read and, at address 0, to be written | the table's invariants; a write that succeeds saves all; rounds advance; Head implements Registry |
| `head_task` | 1 address, 3 kinds of request, 2 writes, restarts | the loop makes only steps of Head; what stands in the mailbox is served before a pairing, even if the search misses what is put behind it; requests are served, events told |
| `self_node` | 2 keys, 3 addresses, queues of 2, arbitrary frames, switches that fail or not | open valve or downstream power only in service, service only by the ACK; address kept there |
| `system` | head, 2 nodes; without faults 1 more pairing, or 1 duration taken away, at any moment of a round; with faults any listener may miss any frame, valves may fail, and there is 1 more pairing or 1 frame that arrives twice | without faults pairing ends, finds everybody and leaves one head; head and nodes agree on addresses; no false fault, no panic. With faults, too: one valve at a time, known to the head; full attempts at the start of a round; every queued node that keeps its time gets its water, or the round ends in a fault; faults become known; rounds end |
| `framing` | an ACK, a water command and an address for a key with a start bit in it; 1 burst or damaged frame; buffer of 20 bytes, queue of 2 | Framing implements Wire; the search stays in the read, and no frame that can be told from its surroundings is skipped, or found twice without as much noise as a frame |
| `host_link` | 2 commands, 2 writes, 1 disconnect, reads, unknown commands, refused advertisements | of one command, in order and once; a pop of either mailbox takes what stood first when it began, whatever is put while it looks; every answer reaches a patient host; the device stays within reach |
| `clock` | as built: a phase is the unit; days of 4 of them, weeks of 2 days, 3 offsets, 12 units of time, start times up to 9; 3 settings, 2 restarts | a round at the start time and at every phase after it until past midnight, or, for an hour of 24 or more, once in as many days; each once, none made up for, and of its local weekday |

Why these are enough: the head handles addresses one by one, so what can go wrong
between two of them (a gap, a double key, a round that skips) shows with two. One
node in the head's device and one on the wire are the two kinds of nodes there
are; with two on the wire pairing does not work at all
(`system_shared_address`), so the passing runs say nothing of longer lines; what
does hold there is in section 6. Two
commands suffice for the order of slots and two writes for one overtaking the
other. Three messages are two neighbours and one that the queue of two has no
room for; the bursts are a byte, as many as the shortest frame, and the start of
a frame longer than any. The theorems below have no bounds.

## 5. Findings

Runs that expect a violation, each of what a document, test or assertion says:

| Run | What the code does |
| --- | --- |
| `system_late_frame` | a pairing that clears the table with an ACK on its way ends in a failed assert |
| `system_shared_address` | the DISCOVERY of the head has no data on the wire, so all nodes but the head's own have key 0, and all get the address of the first of them |
| `system_stranded` | a duration refused for the active node ends the round and leaves the nodes behind it in IN_QUEUE, for good |
| `clock_start_time` | as built, with phases of 60 seconds, the time shown as the daily start time is that of the next point, one minute ahead, and not what was written; a round comes due at that point, that is every minute from the start time until midnight |
| `host_link_lost` | a write between the copy and the clear of `pop` vanishes without an answer |

The models also contain the following, and the properties leave it out where
they say so; a constant or a conjunct changed as given lets TLC show it:

- a duration that is refused for the node being watered makes the head forget its
  command, while the valve stays open until its time is up: `OpenValveIsKnown` fails
  if the host may ask for more than the phase has (`HostRequests <- Overlong`); and
  where the next round comes before that time is up, which the model leaves open,
  another valve opens beside it (`OneValveOpen`, with `Duration(1, 2)` for
  `Duration(0, 2)`);
- a node created with a persisted duration does not pay for it from the time pool, so
  that the durations can exceed the phase (`head.cfg` with the invariant
  `DurationsFitPhase`; `tests/head_test.cpp:372` has "Can't add a single second more
  than time pool");
- a pairing is taken although another request waits, if that was put behind the
  search: a host that writes a setting and then asks for a pairing, both while the
  head looks through the mailbox, may have the pairing first, which
  `core/include/ble_types.hpp:12` means to rule out (`StandingBeforePairing` without
  its exception, `r.type \in late`, on `head_task.cfg`);
- a pairing asked for during a pairing inherits its count of silent passes and
  may end before anyone has answered (`system.cfg` with `Repairing = "quiet"`:
  `PairingIsComplete`);
- where frames are lost during a pairing, a device may hear none and become a
  second head (`OneHead` without `~faulty`); a node whose ACK is lost
  acknowledges commands it does not carry out, which `QueuedNodeIsWatered` does
  not count, as it is not in service;
- a frame is found twice when the read has as many bytes outside of its frames as
  the frame has, as the index lags behind by what was skipped
  (`NoFrameIsRepeated` without its last condition);
- a blob that cannot be read is replaced, at the next write of one address, by one
  without the schedules of the nodes that are not in the table (`load_durations`,
  `save_durations`); and without a flash, that write panics (`change_node`);
- the subscription flags outlive a connection: after a disconnect events are
  popped and sent to nobody, and reads can be answered with the contents of a
  notification, or nothing (`NoEventDropped` without `patient`, and
  `host = "answer" => buffer = States`);
- an advertisement that the stack refuses is not tried again until a connection
  ends, and there is none (`StaysReachable` without `refused`);
- an hour of 24 or more reads back as another, and its round comes once in so many
  days (`clock_start_time.cfg` with `PhaseLength = 4`, a day: 5 reads back as 1);
- a read of the configuration within `set_time` adds the new offset to the old
  point, and a restart puts the start time back to 02:00 and reports that as set
  (`ReportedAsWritten` without `at = "idle"`, without `restarts = 0`, with a phase of
  a day and start times below it, for which it holds otherwise).

## 6. Proofs

The theorems hold for every value of the constants that satisfies the named
assumptions of the module: naturals, non-empty where the code has a first
element, fewer attempts than the counter holds, a data length that fits in its
byte, a checksum that is a word.

| Theorem | Says |
| --- | --- |
| **HeadProofs** | |
| `TypeCorrect` | `Spec => []TypeOK` |
| `KeysAreUnique`, `AddressesHaveNoGaps` | the table's shape |
| `ActiveIndexIsInRound`, `CommandsAreSerial` | the round's shape |
| `SchedulesArePersisted`, `SavesAreComplete` | table and RAM copy agree; after a write that succeeds the flash does, too |
| `RoundsOnlyAdvance` | a round never goes back |
| `HeadImplementsRegistry` | `Spec => ImplementsRegistry` |
| `LoopImplementsHead` | `TaskSpec => ImplementsHead`, so the theorems on Head are about the loop |
| `SavesAreCompleteInTheTask` | one of them, carried over |
| `StandingIsServedFirst` | `TaskSpec => StandingBeforePairing` |
| **SelfNodeProofs** | |
| `NodeTypeCorrect`, `ServiceOnly`, `AddressesAreKept` | types, `OnlyInService`, `AddressIsKept`, among arbitrary frames |
| **FramingProofs** | |
| `TypeCorrect` | the search stays in the read, its results in the array, for any bytes |
| `LoopComesToAnEnd` | every turn of the loop passes a frame's length or is the last |
| `NothingIsSkipped`, `NothingIsRepeated` | `Spec => []NoFrameIsSkipped`, `Spec => []NoFrameIsRepeated`, for any checksum |
| **HostLinkProofs** | |
| `TypeCorrect`, `DeviceStaysReachable` | types; connected, advertising or refused |
| `RequestsAreServedInOrder` | `Spec => []ServedInOrder` |
| `MailboxesKeepTheirPromise` | `Spec => ImplementsMailbox` |
| `EventsReachTheirHost` | `Spec => []NoEventDropped` |
| **ClockProofs** | |
| `RoundsAreOfTheirDay` | a round is of the local weekday of the point it was due at |
| `RoundsComeAsScheduled` | `[]RoundsFollowSchedule`, for any start time, if `DayLength % PhaseLength = 0` |
| **LineProofs** | |
| `SystemTypeCorrect` | `SystemSpec => []SystemTypeOK` |
| **SystemProofs** | |
| `SystemImplementsHead` | `SystemSpec => ImplementsHead` |
| `SystemKeepsKeysUnique`, `SystemSavesAreComplete`, `SystemServesStandingFirst` | what is carried over with it |
| `BudgetIsFresh` | `SystemSpec => []FreshRetryBudget` |
| `ServiceAgrees`, `AckIsKnown` | `[]AddressesAgree`, `[]AckFindsItsNode`, if `Repairing # "any"` |
| `NeverPanics` | `[]NoPanic`, if also `FlashMayFail = {}` |
| `TwoNodesTwoAddresses` | `[]UniqueAddresses`, if `Repairing # "any"` and `Remotes \subseteq {1}` |
| **OneRemoteProofs** | |
| `OneValveAtATime`, `OpenValvesAreKnown` | `[]OneValveOpen`, `[]OpenValveIsKnown`, under the same, for behaviours with `[]ActiveIsAccepted` |
| `PairingFindsAll`, `NoOtherHead` | `[]PairingIsComplete`, `[]OneHead`, if `Repairing = "standby"`, `Remotes \subseteq {1}`, `Nodes \subseteq Addr` and `StopPairingCount >= 2`, for behaviours with `[]Room` |
| `NobodyIsGivenUp` | `[]NoFalseFault`, if also `RetryMax >= 2`, for behaviours with `[]Room` and `PassOutlastsFrames` |

*The hypotheses.* `DayLength % PhaseLength = 0`: a day is a whole number of phases,
1440 of them as the head is built and one as it is meant to be; with another length
the first point past midnight would be no whole number of phases from the start time.
`Repairing # "any"`, `FlashMayFail = {}`, `Remotes \subseteq {1}` and
`ActiveIsAccepted` (the node being watered is refused no duration) are not
guaranteed by the code. Each is needed: `system_late_frame`, a write without a flash,
`system_shared_address` and a refused duration violate the conclusion (sections 4
and 5).

The last three theorems are about lines without faults and count frames and passes,
so they ask for more. `Repairing = "standby"`: a pairing asked for during a pairing
may end early (section 5). `Nodes \subseteq Addr`: the table has an address for every
node. At least two silent passes and two attempts: the code has ten of each.
`Room`: a send to `ext_incoming` or to a node's queue waits for no one, and a frame that
finds the queue full is dropped, which would be a fault of the line like any other.
`PassOutlastsFrames`: the head looks for the answer only when the frames have arrived,
which `LastPass` alone says of the last pass only. TLC finds `Room` to hold in the
instance of `system` without faults; it also finds that with `RetryMax = 3`, and without
`PassOutlastsFrames`, the commands pile up before a node whose task stands still
(`Room`), and that the head gives a node up with three of its ACKs in the queue
(`NoFalseFault`). With it, both hold there. So what these three say of the device
depends on its tasks being as fast as their delays make them; `SystemSpec` does not
have that, and the theorems name it.

Under the hypotheses given nothing else leads to a violation, whatever the length of
queues, the number of addresses, keys, durations and passes, and the order of steps.

*Head.* The inductive invariant `IInv` is the conjunction of the invariants that
the run `head` checks and two about the storage (`StorageMirrorsTable`,
`SavedInFlash`: `saved` means that RAM copy and flash are one). They are not
inductive one by one: `OneCommandOutstanding` needs `ActiveIsInRound` (a round
begins only where no index is set), all of them need `TypeOK`, and a step of the
registry needs `NoGaps` and `KeysUnique` of the state before. `IInvStep` splits
`Next` into one lemma per operation; lemmas on updates of the table
(`SameOccupancy`, `SetNode`, `ExistingNode`, `CreateNode`, `StatusUpdate`) carry
what several operations share, and `FirstOfSpec`, `AvailableAddress` what the
searches return.

*HeadTask*, in HeadProofs as well. That a step of the loop is one of Head or leaves
Head alone (`TaskStep`) needs `Mailed`: the mailbox holds requests of the host only.
`StandingBeforePairing` needs `Searched`: what is behind the search is late, as only a
put moves the search on (`PutIsLate`), and pairing has the last slot (`TakenLast`).

*SelfNode.* `NodesAreSound` says of each node that only in service has it the next one
switched on or its valve open, and that it then has an address and, unless switches
fail, the next one switched on (`Sound`); and of the queues, that they hold frames of
the kinds in `Arriving` and `Answer`. `Change` is what one step may do to one node.
The theorems are about `SelfNode!Spec`, where frames are arbitrary ones; System's
nodes take the same steps between its own queues.

*Framing.* `NoFrameIsSkipped` becomes inductive as `Scanned`: in an orderly read,
each frame has been found or lies ahead of the index. `FrameShape` gives the bytes
of a frame, `FrameIsRead` says that the receiver makes the same message of them,
`IndexAdvances` how far a turn goes: by a frame's length at least, and never past
the end of the frame it has found, as the search begins no later than the frame.

`NoFrameIsRepeated` becomes inductive as `Counted`: in a read with less noise than the
shortest frame has bytes (`dense`), what has been found is one message for each frame
that lies before the index (`passed`), and the index is the length of these frames
together. It lags behind by the noise, and so by less than a frame: the next frame
lies less than its own length ahead of the index, which passes it, and no other, when
it moves by that length (`IndexPassesOne`, `CountedByParse`).

*HostLink.* `ServedInOrder` needs to know what every place holds. In `IInv`, a slot
holds a write of its command (`SlotsHoldWrites`), the head holds two, the first
no later than the second and both no later than what their slot holds
(`HeadHoldsWrites`), and what has been served lies before the head's and the
slot's (`ServedIsPast`). The refinement maps each mailbox by itself
(`HeldRequests`, `HeldEvents`), one lemma per mailbox and step.

`EventsReachTheirHost` adds `Answers`: while an answer is awaited, the request or
its event is in one place (`OneAtATime`), and nothing else is in the mailboxes.

*Clock.* `ClockInv` says that what has come due lies in order before the next point.
`PointsFollowSchedule` adds that the next point is the next of the schedule and that of
the points before it none is missing. A point of the schedule is a matter of its day
and time of day: `NextPhase` and `NextDays` show that from one of them, or from the
moment of the setting, the search leads to the next, for start times within the day
and for later ones; `Congruent` is what keeps anything from lying between, as points
of one start time are a phase apart at least. Both invariants are about `at = "idle"`;
the steps in between are part of the search.

*The line.* `SystemInv` joins `IInv`, `Mailed` and a `Sound` node at every place with
what is under way. `Carry(H, W, R0, R)` says that the head sends frames of `H`, the
wire makes frames of `W` of them, the own node answers with `R0` and the others with
`R`. It is stated for any four sets, and so is the lemma on each step, so that the
invariants to come only choose the sets and show them closed. Head and nodes need
each other: the frames of the head have their type because its table has, and the
head gets no frames but those of `IncomingFrame` because the nodes send no others.

*Attempts.* `BudgetInv`: a node with attempts counted is neither READY nor queued
(`TriedIsNotReady`), and while there is one, no frame of a pairing is under way
(`NoPairingUnderWay`). The second is needed, as a node that is given an address once
more goes back to READY with its attempts spent (`confirm_node_pending`). It is true
since a round begins with nothing under way and a pairing takes the table with it.

*Addresses.* `AgreementInv`: what is under way agrees with the table (`FramesAgree`,
another choice of sets for `Carry`), and so do the nodes. The key tells the own node,
which is never 0 once it is asked for one, from all others, which have 0; a frame for
the one is therefore never taken by another (`OwnNodeFirst`, `OwnAddress`).
`PairingIsQuiet` and `ClearingIsQuiet` are what `Repairing # "any"` is for: the table
is cleared while nothing is under way. `PairingIsAhead` keeps it so up to the
clearing: the search of the mailbox, which starts from the first slot for each
request, has not passed that of the pairing. `NeverPanics` follows, as each `assert`
of Head is about the address of a frame.

*Valves.* A node is `Hot` while its valve is open or a water command is on its way to
it. `ValveInv`: either frames of a pairing are under way and every valve is closed
(`InPairing`), or frames of a round (`InRound`), and then at most one node is hot,
the one the head waits for, unless the round has ended in a fault. Nodes cool down by
themselves, and the head must not take an old answer for a new one: a STATUS is only
asked for once the command has been acknowledged, so in no queue a water command
comes behind a STATUS of its node (`InOrder`), and an answer INITIALIZING or READY
says that all there was has been carried out (`RoundAnswer`, `Cooled`).

*Pairing.* `SearchInv`. A frame *leads* a node into service if what it brings about is
the ACK of the node's address (`LeadsTo`, `LeadsBack`). A node is `Found` if it is in
service or has power and such a frame is under way to it or from it, and then it stays
so (`FoundStays`): the frame comes nearer, or is answered by another that leads on.
That the head has an address for it is `KeysAreOwned`: each key in the table is that
of a node, and there are no more nodes than addresses. `SilenceMeansFound` goes with
the count of silent passes: a silent pass sends a DISCOVERY, which finds the own node.
The last one begins when what is under way has arrived (`LastPass`), so if it is
silent, too, the own node is in service, the other has power, and the DISCOVERY finds
it. So when the count is full everybody is found (`AllFound`), and once the line is
quiet everybody found is in service (`QuietFound`) and has heard of the head
(`ServiceIsHeard`). Without faults a node in service has switched the next one on
(`ServiceIsSwitched`), so that one has power. `SearchBegins` and `OnlyPairing` say
that a search begins with a count of 0 and meets no frame of a round. TLC has checked
`SearchInv` and `Room` on the instance of `system`.

*Patience.* `PatienceInv`. Nothing tells of an error: no node, no entry of the table, no
STATUS under way (`AllIsWell`); so only an attempt that is the last can declare one.
`RoundIsServed`: in a round either the line is quiet and the active node has no attempt
counted, or what it has been asked is under way: one frame to it, or its answer, in one
of the four places on the way there and back (`UnderWay`), while all nodes are in service
(`AllInService`, by `SearchInv`) and none answers for another (`OthersAreSilent`, by
`OwnAddress`). Nothing but the next pass of the head ends that (`UnderWayStep`), the
pass finds the answer, and the answer takes the attempt back (`AnswerServes`, by
`BudgetInv`). TLC has checked `PatienceInv` with `RetryMax = 3`.

Only model-checked:

- that Framing implements Wire: it holds only for checksums that tell the messages
  from what noise makes of them, and needs the history of all positions on the line;
- all liveness, which, like ENABLED, is out of the prover's reach.

Every invariant of the passing runs is stated by a theorem.

What the recursive functions of Crc16 compute is not proved either: the proofs take
any checksum.

## 7. Not modelled

- What a second head does: `OneHead` says when there would be one, and the system
  has no protocol for two.
- The ten-second limit of `reset_node`, after which the old node task would go on
  beside the new one: the loop of that task waits nowhere so long, as the UART task
  empties its queue every 50 ms.
- The registration of Bluetooth services, the layout of packets and the lengths of
  writes: no state of the program depends on them beyond the commands of HostLink.
- What READ_NODE_STATES and READ_NODE_DURATIONS find when the head changes the
  table under them, field by field: the contents of a read are one value here.
- The order in which boot starts its tasks: the priorities fix it, and it is one
  step here.
- Pairing a line with more than one node on the wire: the code cannot
  (`system_shared_address`). The theorems on System that do not name `Remotes` hold
  for such lines, too.
- `WriteTime`, `util.hpp`, `logger`, configuration: byte order, printing and
  constants. LEDs read one status and blink. The button's pairing task,
  `main.cpp` and `watering_task.cpp` are not started or empty. The Python tools
  play the host or a node.
