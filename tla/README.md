# A verification of the IoTEmbedded firmware

The repository is the firmware of a data-acquisition device on an STM32 (boards
PowerEnvDaq and Pandora): it polls sensors and controllers over Modbus on an RS485
bus, reports their values to a platform over MQTT, executes the platform's commands,
and runs user scripts in BASIC.  Five RTOS threads share it.

This directory holds TLA+ models of the parts that keep state across calls and
threads, TLC configurations that check them on small instances, and proofs checked by
TLAPS for every value of the constants.  `PROJECT.json` lists components, runs,
mutants (the bug each property is known to catch), the source lines behind each
definition (`map`), findings and hazards.  All paths below are relative to `src/src`.

## 1. The system

### Threads (Application/Src/app_rtos.c)

| thread | priority | pass | period |
|---|---|---|---|
| watchdog | High | checks the heartbeats, feeds the IWDG | `feed_watch_dog_interval`, 10 s |
| mqtt_rx | AboveNormal | `mqtt_client_poll`, 1 ms lock timeout | 10 ms |
| main | Normal | `app_process_once`: network manager, MQTT maintenance, registration, device polling and telemetry | 1 s |
| basic | BelowNormal | the boot script, then only its heartbeat | 1 s |
| debug | Low | the shell on the debug UART | 20 ms |

### Components

| component | state | operations | talks to | hard behaviours |
|---|---|---|---|---|
| MQTT client (`Protocol/Mqtt`) | state, packet flags, packet id, last PUBACK id, receive buffer, inbox, timers; one recursive mutex | connect, subscribe, publish, ping, poll, maintain, read | network sockets (calls), platform messages (callback from the poll) | re-entrant polls, late and lost acknowledgements, silent loss of the link, reconnection |
| Platform messages (`Protocol/Platform`) | registered flag, last messages, request timer | dispatch of downlinks, registerInfo, updateResponse, registry request and its retry, command and its response | called back by any thread that polls; calls the device manager and the MQTT client | runs on main, mqtt_rx, basic or debug, also in the middle of a publish |
| Device manager (`Devices/Src/device_manager.c`) | one entry per kind of device, poll timer | configure, clear, poll, report, command | Modbus master, telemetry reporter, saved device table | table rebuilt between two reads of a poll; three threads poll |
| Telemetry reporter (`Devices/Src/telemetry_reporter.c`) | metric windows, last values, ring of 8 payloads | ingest, flush one, reset | MQTT client | reset from another thread; full queue; failed upload |
| Modbus master (`Protocol/Modbus`) | mutex, packet buffer, receive buffer filled by an interrupt | 4 reads, 4 writes | RS485 bus | timeouts, late replies, contention |
| BASIC Modbus and serial (`Interpreter/Src/basic_modbus.c`, `basic_serial.c`) | none kept | the same over the UART without the interrupt; raw reads and writes | RS485 bus, Modbus lock | switching the interrupt; raw use without the lock |
| BASIC MQTT (`basic_mqtt.c`) | handle, last error | connect, subscribe, publish, receive, sleep | MQTT client, heartbeats | handles over reconnections; long waits |
| RTOS and watchdog (`Application/Src/app_rtos.c`) | heartbeats | mark, check, feed | all threads, IWDG | starvation, two clocks, wrap |
| Script store (`Storage`, `Interpreter/Src/app_basic.c`) | two EEPROM slots, header and payload | write, read, load with fallback, look up by name | EEPROM | reset between page writes |
| Configuration and shell (`Config`) | the active configuration, its EEPROM image, command line, login | load, migrate, save, edit | EEPROM, most components | reset during a save, old layouts, CRC 0 |
| Network manager and sockets (`Network/Src`) | mode, active link, link state, socket owners, what is known of the chips | probe, switch, open, send, receive, close | three adapters, two of them on one UART | switching under open sockets, shell against main thread |
| Network drivers, device drivers, display, board, common | peripherals | I/O | hardware | not modelled: I/O and conversions |
| MY-BASIC, Parson, HAL, FreeRTOS | | | | vendored |

What makes the components modelled correct is stated by the properties of section 3.

## 2. Modules

Each module is one component, with one action per handler or per step between two
points at which another thread, an interrupt or the network can act.

**MqttClient** (`mqtt_client.c`).  `mqtt_lock` lets one thread in at a time, so the
model has one call in progress, as a call stack: `Head(stack)` is the innermost
activation, a function calls another by pushing one.  A step of `CallStep` is the code
between two looks at the socket (`Recv`) or one frame handled.  Because the mutex is
recursive, a handler that publishes with QoS 1 pushes a second `poll` on the first; the
stack makes that visible.  A frame stays at the front of `accum` until its handler is
back, as in the source.  The broker and the network are actions of `Environment`: the
broker publishes what is subscribed, acknowledges what reaches it (`Reaches`), the link
is lost with or without notice (`tcp` "down" and "mute") and takes frames with it, and a
`Recv` may see any part of what is on the wire.  `accepted`, `asked`, `got`, `sent`,
`executed` and `lastPub` record what happened at the broker for the properties.
A poll by mqtt_rx that finds the lock taken does nothing and has no action.

**RtosWatchdog** (`app_rtos.c`, the waits in `mqtt_client.c` and `basic_mqtt.c`).  A
strict-priority scheduler (`Runs`), passes that take processor time (`Begin`, `Tick`,
`Finish`), heartbeats marked with the time at which the pass began, unsigned ages modulo
`Mod`, two clocks, a script, threads that get stuck, the watchdog thread and the IWDG.

**TelemetryQueue** (`telemetry_reporter.c` as driven by `device_manager_poll`), with
**UploadQueue** as the queue that the header promises.  Flush and enqueue are split
where the code touches shared state (check, publish, take, count; tail, store, count);
`RegisterInfo` is the reset, at any of these points where some thread may run it.
`torn` records that this happened in the middle of a flush or an enqueue: from then on the
ring is no queue any more (section 6), and `HeadServes`, `NoStaleUpload` and `QueueRefined`
promise nothing; `UploadsInOrder` always holds.  `QueueRefined` says that until then the
ring implements `UploadQueue`, the payloads counted being the queue.  A payload is assumed to serialise and to fit its slot: the largest, a UPS, has
about half of the 768 bytes.

**ModbusBus** (`modbus_core_master.c`, `modbus_api.c`, `basic_modbus.c`).  The lock, the
interrupt's buffer or BASIC's data register, replies byte by byte on the line, each
possibly lost, late or mixed with another; acceptance by length and CRC, by BASIC also by
slave.  Every read and write of the master is one `Transaction`.

**NetworkManager** (`network_manager.c`, the owner table of `network_socket.c`, the set-up
of the chips in `ch395_board.c` and `network_socket_air724.c`, board PowerEnvDaq).  The
steps a thread has still to do are a sequence, `todo[t]`; calling a function puts its
steps at the front.  The main thread polls the manager and maintains MQTT, the shell
(also standing for scripts) calls it too and may be preempted at any step, mqtt_rx looks
at the socket at any time.  The chips are external: one in reset forgets its addresses or
IP context and its connection; a question put to the wired chip may go unanswered when
two of them or two threads use the UART.  `raced` and `direct` record that a command
was preempted by a pass of the main thread, or reset a chip itself.

**ConfigStore** (`config.c` over `app_eeprom.c`).  The record in the EEPROM is five pieces
in the order in which they are written; each of the four layouts reads the same bytes its
own way, so `image` holds what lies at each place and `ReadNew`, `ReadV5`, `ReadV4`,
`ReadLegacy` and the `*Valid` operators say what a layout makes of it.  A CRC is the tuple
of what it covers, zeros are `<<>>`, which every layout accepts as a CRC.  `Boot` loads and
migrates, the shell and a script set, reset, save and read back; the script preempts the
shell's save between any two pages.  A reset, a lost or refused page and a failed read may
come at any step, `MaxFaults` times.

**ScriptStore** (`app_eeprom.c`, `app_basic.c`), with **SlotStore** as what the header
promises: two slots that keep the last script written, or nothing.  Payload pages first,
header last; the loader reads the header, then the text, checks the CRC, falls back to the
other slot, and resolves imports by package name.  A write in progress and a load may
interleave, except within one I2C transaction, which the HAL refuses to share.  The writer
has no caller in the firmware as it stands: the model has it called by any thread.  Pages
are acknowledged and stored, acknowledged and lost, or refused.

**DeviceRegistry** (`device_manager.c`, the polls of the drivers, `platform_messages.c`, the
device commands of `config.c`).  No lock protects the registry.  Strict priorities with the
bus lock's priority inheritance (`Runs`) decide who goes on; a poll is one action per step
between two of which another thread may register, clear or edit (`Look`, `Call`, `Reply`,
`Store`, `Fail`).  A measurement is identified with the slave it was read from.  `Direct`
are the kinds whose poll stores each read at once.  `mixed`, `loose` and `excused` record
the three ways in which the code lets go of its promises (section 6).  Manufacturers'
models are left out, and so is one peculiarity of the UPS: its poll uses the address taken
at the start and goes on after a failed read.

**BasicMqtt** (`basic_mqtt.c` over an abstract client).  `MQTT_CONNECT` and `MQTT_RECEIVE`
are sequences of steps, `todo`; between two of them the main thread may reconnect with the
settings of that moment and mqtt_rx may poll.  The client's own calls hold `mqtt_lock` and
are single steps.  The broker numbers its messages, so that an order can be told.

**MCModbusBus**, **MCScriptStore**, **MCDeviceRegistry**, **MCBasicMqtt** give TLC the
values that a .cfg cannot, and symmetry.

**MqttClientProofs**, **TelemetryQueueProofs**, **ModbusBusProofs**, **ScriptStoreProofs**,
**DeviceRegistryProofs**, **BasicMqttProofs**, **NetworkManagerProofs**: the theorems about these
modules.  **SystemProofs**: those about ConfigStore and RtosWatchdog.

## 3. What the runs check

| run | bounds | checks |
|---|---|---|
| mqtt_main | a command with QoS 1 and a registerInfo, 2 polls per wait, inbox 1, 5 ids used of 2 that wrap round, 2 frames in flight, pub_qos 0 | a command runs once (`CommandOnce`), the receive buffer does not underflow (`NoUnderflow`), ready means subscribed to all platform topics (`ReadyMeansSubscribed`), a network that stays reliable makes the client ready for good (`StaysReady`) |
| mqtt_scripts | scripts and the shell call too (QoS 0 and 1), pub_qos 0, 1 command and 1 message of the script, 2 polls, inbox 1, ids to 5 | `SessionHasConnack`, `AckedPublish` |
| watchdog_threads | feed interval 2, timeout 10, main passes of up to 2, the hardware watchdog after 4, 24 ticks from tick 1 on; no script, no failure | `StopMeansStuck`, `ResetOnlyAfterStop` |
| watchdog_live | ticks that wrap at 6 without end, a script, any thread stuck at any time, blocked or spinning | `DetectedInTime`, `StuckIsReset` |
| telemetry | 2 devices of 3 values, ring of 2, 3 uploads, 1 new registry at any point | `UploadsInOrder`; until a registry comes in the middle of a flush or an enqueue, `HeadServes`, `NoStaleUpload` and `QueueRefined` |
| modbus | 2 masters, BASIC, a script writing without the lock, 2 slaves, 3 requests, a receive buffer that can overflow; masters and slaves interchangeable | `OwnOrLate`, `NothingLeftOver` |
| network | a command of the shell (any mode, `probe`, `init`, the wired set-up) at any time, a change of the wire or loss of the cell or connection, automatic mode at boot | `OneChipOnBus`, `RestIsolated` unless raced or direct, `ReturnsToWired` unless raced |
| config_store | two values of the settings all layouts share, two network modes, one table, 1 setting changed, 3 faults; every layout at the first boot | `SavedSurvives`, `WholeOrDefault`, `MigrationKeeps` |
| script_store | five scripts that share pages and names, of 1 or 2 pages; 2 writes, 2 faults | `WriteStored`, `TakesOneScript`, `BootServes`; the slots implement SlotStore (`StoreRefined`) |
| device_registry | one kind of two reads stored at once, 2 addresses, ticks that wrap, three threads | `OnlineIsRead`, `OnlyAllowed`, `KeepsAsking` |
| basic_mqtt | a mandatory and an optional setting with 2 values, 2 handles, inbox of 1, 2 messages | `HandleConnects`, `SubscribedHolds`, `ReceivedFresh` |
| mqtt_qos1 | a command with pub_qos 1 | expects `CommandOnce` to be violated (section 6) |

*Why the bounds are enough.*  A wait of one or two polls has both outcomes, and every
order of an answer and a timeout; a second command and a second connection are within
`MaxIds`, since a connection costs three ids; two frames in flight suffice for a frame to
be behind, or to outlive, another.  The ring must wrap and fill: two slots and
three uploads.  Three requests allow a late reply to arrive during one and be followed
by another.  For the watchdog only the order of the times matters, not their size:
in watchdog_threads the timeout exceeds the longest pass, as five minutes exceed a
reconnection.  A configuration save has five page writes whatever its size, so three
faults reach every pair of them and the boot after; one changed setting makes the record
differ from the one it overwrites.  Two writes suffice for a script to be torn over each
slot, or over the other's library.  One kind with two reads has a point at which the
registry may change within a poll; with two kinds TLC's state space is too large, and the
proofs of section 4 stand for any number.  Two messages, one frame on the wire and an
inbox of one let a message be pushed out, or outlive its session.

*Fairness.*  `mqtt_main`: the call in progress goes on (a thread that holds the lock
waits for nothing but time), time passes, and the main thread gets the lock again and
again: it waits for it without a timeout, and the only thread that polls without end,
mqtt_rx, sleeps 10 ms between two polls (strong fairness, as mqtt_rx, a script or the shell
may take it in between).  The premise `<>[]healthy` is that the network stops losing
things for good.  `watchdog_live`: time passes, and the thread that has the processor
goes on; nothing is assumed of the stuck one.  `network`: the main thread goes on, the
shell goes on between its passes (strong fairness, as each pass interrupts it), the probe
interval comes to its end, and the 4G module finds its network.  Faults and commands are
bounded, so that a wire that is online for good is one after which nothing more happens
to it.

The other runs check safety and refinement only and assume no fairness.

*Deadlock* is checked except for RtosWatchdog, where the device stops when it is reset, and
ScriptStore, where a boot comes to its end and writes and faults are bounded.

## 4. Proofs

`MqttClientProofs` proves, for any id width, inbox depth, number of polls, set of
messages, with or without scripts, at any stack depth, and for either pub_qos unless a
theorem names one:

* `TypeCorrect == Spec => []TypeOK`.  Not only shapes: an activation at the subscribe
  labels has a topic left to do, one that waits for its PUBACK has an id other than 0, and
  the inbox is within its depth.  `TypeOK` is inductive.  One lemma per group of
  actions, over lemmas about the stack (`GotoKeeps`, `CallForKeeps`, `ReplaceKeeps`,
  `ReturnKeeps`) and the frame buffers (`FramesTyped`).
* `PublishIsAcked == Spec => []AckedPublish`.  The invariant `AckedPublish` alone is not
  inductive: that the broker has the publish must hold of a PUBACK from the moment it
  leaves the broker.  `AckInv` therefore says it of every PUBACK on the wire and in the
  buffer, and of the last PUBACK id.
* `SessionIsAccepted == Spec => []SessionHasConnack`.  `SessionInv`: the broker has accepted
  the connection's CONNECT, or no accepting CONNACK is on the wire, in the buffer or in the
  flags, no subscription waits for its SUBACK, and a `mqtt_client_connect` that is about to go
  on was not told that one came.  Its inductive step rests on `StackInv`, about the
  order of the activations: only maintenance calls connect, a connect waits for
  nothing but its own CONNACK, and bytes are left in the receive buffer only under a
  poll that is working through them.
* `ReadyHasTopics == ASSUME ~Scripts PROVE Spec => []ReadyMeansSubscribed`.  `SubscribeInv`: while
  the connection is up, a subscription in progress has asked for every platform topic or still
  has it to do.  With scripts the property is false (section 6).
* `CommandsRunOnce == ASSUME PubQos = 0 PROVE Spec => []CommandOnce` and `NeverUnderflows`, likewise
  for `NoUnderflow`.  `OnceInv` joins three things.  `HandlerInv`: a handler is the innermost
  call or has called a publish that does not poll, so the frame it handles is still first in the
  buffer.  `ArrivalInv`: of what the buffer and the wire hold, no two frames carry the same
  message, and none is executed but the one in its handler.  `RunOnce`: what was executed once
  was sent.  `Arrivals` is the buffer followed by the wire; every step but the broker's sends only
  moves its publishes along or takes some away (`From`, `Moves`).  With `PubQos = 1` the publish
  polls while it waits for its PUBACK, `HandlerInv` fails and so does `CommandOnce` (section 6).

`SystemProofs` on ConfigStore, for any core settings, modes, tables, and number of changes and
faults:

* `TypeCorrect`, in which a CRC in the EEPROM is always one that was computed.
* `SaveSurvives == Spec => []SavedSurvives`.  Strengthened (`SavedStep`): a configuration in
  `saved` is the image byte by byte, with its own CRC; `ReadWritten` says that such an
  image is accepted as the new layout and reads as what was written.
* `TornRefused == Spec => []WholeOrDefault`, from the type invariant alone: with text at the
  offset where older layouts have tables and CRCs, only the new layout accepts, and only
  with a CRC in `wholes`.
* `MigrationKept == Spec => []MigrationKeeps`.  `KeepInv` follows a record through its migration.
  `CoreKept`: whatever goes wrong, the image is a whole new record or one whose place of the WiFi
  settings still holds something that the legacy layout accepts, so a record cut short is accepted
  again, with the core settings of its origin.  `CalmKept`: undisturbed, the pages before the
  present one hold what is active, which is what was loaded (`Agree`).  Both need `Turns`: while
  the boot saves, the shell and the script do not.

`SystemProofs` on RtosWatchdog, for any tick width, first tick, offset, interval, timeout, length
of a pass and horizon:

* `WatchdogTypes == WDSpec => []WDTypeOK` and `SilenceDetected == WDSpec => []DetectedInTime`, with
  scripts, stuck threads and ticks that wrap.  `FeedInv`: a thread's true silence is its
  heartbeat's age by one of the two clocks; it and the time left until the next check are
  together within the bound; and a pass is no older than its thread's silence.  `MinusIs`,
  `LaterTyped` and `SinceLater` are the facts about subtraction modulo `Mod` that it needs.
* `FedWhileFeeding == ASSUME InPeriod PROVE WDSpec => []ResetOnlyAfterStop`.  `InPeriod`: the feed
  interval is within the IWDG's period; the shell accepts one that is not (section 6).
* `OnlyStuckStops == ASSUME Unhurried PROVE WDSpec => []StopMeansStuck`.  `PaceInv` bounds each
  thread's silence by what those of higher priority may still take (`Ahead`): one pass of the main
  thread for BASIC, three for the shell's thread, whose own pass may be preempted by one.
  `Unhurried` are the cases the code handles: no script, no tick of 0, a boot shorter than the
  feed interval, a timeout of three main passes and three ticks.  Without any one of them the
  property fails (section 6); the timeout's bound is exact.

`ScriptStoreProofs`, for any scripts, pages, writes and faults: `TypeCorrect`,
`ReportedStays`, `StoreImplemented` (the initial states and every step map to SlotStore's),
`NeverMixed` and `FallbackServes`.  The invariants relate the writer's page to what the
slot holds (`WriteInv`), what has been loaded to what was put into its slot (`ReadInv`), and
where an undisturbed boot stands to the slots it has ruled out (`BootInv`).

`DeviceRegistryProofs`, for any kinds, reads, addresses, clock and interval:

* `TableDecides == Spec => []OnlyAllowed`; what the shell is adding or loading is in `loose`.
* `AsksOn == Spec => []KeepsAsking`.  `Waiting` bounds the time waited by the time since the
  last request, on the circle of ticks; `Believes` says that a collector without devices
  that is marked as registered is excused.
* `ReadFromOwn == Spec => []OnlineIsRead`.  Inductive with `Held`: what a poll has read so far
  was read from the entry's own slave unless the entry was `changed` meanwhile, a thread
  that holds the bus waits for its reply (`Placed`), and of two threads in the same entry
  the one that was preempted is below (`Higher`).  A poll of an entry registered anew can
  therefore not finish after a newer poll has put the entry right.

`BasicMqttProofs`, for any settings, values, inbox, handles and messages: `TypeCorrect`, and

* `SessionIsAsked == Spec => []HandleConnects` and `SubscriptionHolds == Spec =>
  []SubscribedHolds`.  `Shape`: what a call has still to do is always the end of one of its
  two lists.  `ConfigInv`: while an `MQTT_CONNECT` changes the settings they are a mixture of
  the old and the new ones, between calls they are the handle's, and a session was made with
  those of its moment.
* `NothingStale == Spec => ReceivedFresh`.  `FreshInv`: the inbox, and behind it the wire, rise
  and are newer than what was received and than the session.

`TelemetryQueueProofs`, for any capacity, devices, values and registries: `TypeCorrect`, and

* `UploadedInOrder == Spec => []UploadsInOrder`.  Needs all that a registry in the middle of
  something can make of the ring (`RingInv`): a queue in order (`Serves`, `InOrder`); an
  emptied one whose count goes below zero and round to 255, so that nothing is queued any more
  (`Spent`); or one whose head stays empty under a payload stored further on (`Gap`).  In the
  last two nothing but an empty slot is uploaded.
* `HeadStaysServed`, `NoneStale` and `QueueImplemented` (`HeadServes`, `NoStaleUpload`,
  `QueueRefined`), from `CleanInv`: until `torn`, the ring serves payloads of the present
  registry.  `Moves` says how the payloads move in it: they stay, join at the end or leave at
  the front, which is what `UploadQueue` does.

`ModbusBusProofs`, for any threads, slaves and requests, replies of any length, any buffer:
`TypeCorrect`, and

* `AnswersAreOwn == Spec => []OwnOrLate`.  `AnswerInv`: every request under the lock is still
  open, given up, or has no byte left anywhere, so nothing but the own reply or a late one can
  be accepted.  This needs `PlaceInv`: a reply's bytes are in order, each at one place.
* `AnswersAreFresh == Spec => []NothingLeftOver`.  `EarlyInv`: a reply of which a byte was there
  before the request lacks one for good, since the buffers are emptied first; a reply is
  accepted only with all its bytes.

`NetworkManagerProofs`, for any mode at boot, any commands and any number of them and of faults:
`TypeCorrect` (`TypeOK` says, too, what a chip has lost while it is in reset), and

* `NeverTogether == Spec => []OneChipOnBus`, from `BusInv`: until `raced` or `direct`, at most one
  thread is at work and what it has still to do is `Safe`: no chip is released unless the
  other one is in reset by then.  The lists that the manager's functions consist of are `Good`,
  that is safe whatever is out of reset, and so are one after the other (`Joined`); a reset
  is what makes the rest of a list safe that is not good any more (`SafeTail`).
* `RestsIsolated == Spec => []RestIsolated`, from `RestInv`: what each thread has still to do,
  done from the chips as they are now, leads to the active link's chip alone on the bus (`Leads`).
  A list leads there if each of its steps may be followed by the next (`Follows`), if only whole
  functions come after the step that closes one, and if its first step finds the chips out of
  reset that it needs (`Stands`).  Every function that a step is replaced by leads on, and so
  does what was behind it (`LeadsTail`, `LeadsJoin`, `LeadsOn`).

The only assumptions are each module's `ConstantsAssumption` (`WDAssumption` in RtosWatchdog), which
TLC evaluates in its runs, and `~Scripts`, `PubQos = 0`, `InPeriod` and `Unhurried` where a
theorem states them.  An id that comes round again after 65535 publishes counts as the same id
in `AckedPublish`.

Every safety property of a passing run is stated by a theorem.  Liveness (`StaysReady`,
`StuckIsReset`, `ReturnsToWired`) is checked by TLC only: it rests on fairness and ENABLED, which
the provers do not handle.

## 5. Not modelled

The bytes of MQTT frames and their reassembly; contents of registers, payloads and topics;
parsing of JSON and of commands; the shell's line buffer and login; the AT commands and the
busy lock of the Air724UG; the drivers of chips and devices; the display; NTP, which the
running firmware does not call; the BASIC interpreter.  `PROJECT.json` gives the reason for
each component.

Most of the repository's lines are not the firmware's own: of some 383,000 lines of code the
HAL and CMSIS of two chips, FreeRTOS and its ports, the generated projects, MY-BASIC and
Parson make up all but about 20,000, and of those about half print, parse, convert or talk to
one peripheral.  The models cover the rest, where state is kept across calls or threads; a
share of 30% of all lines could be reached only by modelling vendored code.

## 6. Disagreements found

`PROJECT.json` quotes the statements that these refute.  One is a run that expects a
violation:

| run | what happens |
|---|---|
| mqtt_qos1 | with pub_qos 1 a command's handler polls while the command's frame is still in the buffer: it runs again |

The same modules show more, with constants or invariants that no run has:

| module and change | what happens |
|---|---|
| MqttClient, `ReadyMeansSubscribed` in MqttClient_scripts.cfg | a script's own subscription marks the client ready; the platform topics are never subscribed |
| RtosWatchdog, `Scripts = TRUE` in RtosWatchdog_threads.cfg | scripts mark heartbeats with the HAL tick, the check uses the kernel tick: `StopMeansStuck` fails |
| RtosWatchdog, `Scripts = TRUE`, `Offset = 0` | a script busy for longer than the timeout starves the shell's thread, and the device is reset: `StopMeansStuck` fails |
| RtosWatchdog, `FirstTick = 0` or `Horizon = Mod` | a pass that begins at tick 0 marks a heartbeat of 0, which the check takes for a thread that never reported: `StopMeansStuck` fails |
| RtosWatchdog, `Offset` above `Feed` | the heartbeats start at the HAL tick, ahead of the kernel tick: at the first check a thread that has not ended a pass since looks late, and `StopMeansStuck` fails |
| RtosWatchdog, `Timeout = 8` | three passes of the main thread make the shell's thread late: `StopMeansStuck` fails |
| RtosWatchdog, `Feed` above `HwTimeout`, `MaxPass = 0` | the feed interval may be set to more than the IWDG's own period: `ResetOnlyAfterStop` fails |
| TelemetryQueue, invariant `HeadAlwaysServes` | a registry change during a flush or an enqueue leaves the queue stuck for ever |
| TelemetryQueue, `NoStaleUpload` without `torn` | the same race also uploads an emptied slot or a payload of the old registry |
| TelemetryQueue, `Devices > Capacity` | the payload of the ninth changed device is dropped although its value counts as reported |
| NetworkManager, invariant `NotHalfOpen`, `Commands = {}` | in automatic mode on 4G every probe of the wired chip resets the 4G module, and nothing tells the socket layer that its IP context is gone |
| NetworkManager, without `raced` | a shell's probe preempted by the main thread's leaves both chips out of reset (`OneChipOnBus`), or a wired chip marked absent that probes find and MQTT does not, for ever (`ReturnsToWired`) |
| NetworkManager, `Commands = {"init"}`, without `direct` | on 4G, `ch395 init` leaves the 4G module in reset: `RestIsolated` fails |
| NetworkManager, `Commands = {"modem"}` | on the wired link, `modem reset` leaves both chips on the UART: `ReturnsToWired` fails |
| NetworkManager, `BootMode = "wired"`, "wired" for "auto" in `ReturnsToWired` | a wired chip that did not answer when it was selected is never set up again |
| ModbusBus, `RawSerial = TRUE` | a script's serial functions use the bus without the lock, and the reply to their request is accepted as another thread's: the exception that `OwnOrLate` makes |
| ConfigStore, `WholeOrDefault` without `image.net = Text` or `image.crc # Zeros` | a torn record whose WiFi fields are empty passes as v5 or v4, whose CRC fields then read 0, and one with a CRC of 0 as anything; the device table is lost |
| ConfigStore, `SavedSurvives` with `Found(image, {"new"})` | one failed read at boot loads a whole record as v5, without devices, and writes that back |
| ConfigStore, `MigrationKeeps` for legacy records too | a legacy record is taken for v4, its log level for the network mode |
| ConfigStore, `MigrationKeeps` without `calm` | a reset in the middle of a v5 migration loses the device table |
| ConfigStore, `Verify` without `crc = Sum(active)` | a script that sets or resets a setting in the middle of the shell's save: the save is reported ok with a CRC that is stale, or 0 |
| ScriptStore, `WriteStored` without `stored` | a page that is acknowledged but not stored goes unnoticed: a script is not read back |
| DeviceRegistry, `OnlineIsRead` without `mixed` | an entry registered anew under a poll goes online with the old slave's values, or with zeroes nobody read |
| DeviceRegistry, `OnlyAllowed` without `loose` | `device add` interrupted by a registerInfo, or the first add to an empty table, leaves devices polled that the saved table does not list |
| DeviceRegistry, `KeepsAsking` without `excused` | after an updateResponse alone, `device clear` or `device load`, the platform is never asked for the registry |
| DeviceRegistry, the second disjunct of `Due` | for as long as the HAL tick is ahead, the request is repeated on every pass, whatever the interval |
| BasicMqtt, `MqttDisconnect` of a stale handle | it ends the session of the present one |
| BasicMqtt, `HandleConnects` without `half` | an `MQTT_CONNECT` that failed half-way leaves settings with which the main thread reconnects for the old handle |
| BasicMqtt, `SubscribedHolds` without "renewed" | after the main thread's reconnection the handle is good and the subscriptions are gone |
| BasicMqtt, `SubscribedHolds` without "unmatched" | a late SUBACK of another subscription counts as this one's |

## 7. Plan

Done: MqttClient, RtosWatchdog, TelemetryQueue with UploadQueue, ModbusBus, NetworkManager,
ConfigStore, ScriptStore with SlotStore, DeviceRegistry, BasicMqtt, and the theorems of
section 4.  What would come next, in this order:

1. **MqttFraming**: the receive buffer in bytes, its overflow, remaining-length decoding; the
   inbox ring as a refinement of a bounded sequence.
2. The Air724's busy lock and its two sockets; the shell's line buffer and login; the JSON
   handle table.
3. DeviceRegistry composed with TelemetryQueue: payloads built while the registry changes.
4. Proofs: `ReadyMeansSubscribed` with scripts that make no subscription of their own, and the
   theorems of MqttFraming.
