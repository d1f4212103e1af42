----------------------------- MODULE DeviceRegistry -----------------------------
(***************************************************************************)
(* The registry of field devices: who fills it, who polls it, and when the *)
(* platform is asked for it.  src/Protocol/Platform/Src/platform_messages.c *)
(* rebuilds it from a registerInfo message, the shell of                   *)
(* src/Config/Src/config.c edits it and the saved device table, and        *)
(* src/Devices/Src/device_manager.c polls its entries over Modbus.         *)
(*                                                                         *)
(* No lock protects it.  The main thread, the thread mqtt_rx (after a      *)
(* command) and the shell poll; a registerInfo is handled in whichever     *)
(* thread polls MQTT, without interruption, so it may land in the middle   *)
(* of a lower thread's poll or edit.  Waiting for a reply spins: a lower   *)
(* thread runs only while every higher one is idle or waits for the bus,   *)
(* whose lock passes the waiter's priority on to its owner.                *)
(*                                                                         *)
(* There is one entry per kind of device (serviceId); manufacturers' models *)
(* are left out.  An entry's measurements come from one or more Modbus     *)
(* reads and are identified with the slave they were read from.            *)
(***************************************************************************)
EXTENDS Integers, Sequences

CONSTANTS
  Reads,      \* the reads of a poll, for each kind in the order of poll_all
  Direct,     \* the kinds whose poll stores each read at once, not all at the end
  Addrs,      \* slave addresses, without 0
  Clock,      \* 2^32: the ticks wrap here
  Offset,     \* the HAL tick when the kernel tick is 0
  Interval,   \* loop.req_devices_reg_info_interval
  MaxPass     \* bound: the longest time between two passes

Kinds == DOMAIN Reads

ASSUME ConstantsAssumption ==
  /\ Reads \in Seq(Nat \ {0}) /\ Reads # <<>>
  /\ Direct \subseteq Kinds /\ 0 \notin Addrs
  /\ Clock \in Nat \ {0} /\ Offset \in 0 .. Clock - 1 /\ Interval \in Nat
  /\ MaxPass \in Nat /\ Offset + Interval + MaxPass < Clock

Threads == {"main", "mqtt_rx", "debug"}
Rank == [main |-> 2, mqtt_rx |-> 3, debug |-> 1]
None == "none"
Address == Addrs \cup {0}
Never == Clock

VARIABLES
  addr,        \* slave_addr of each entry, 0 where none is registered
  online,      \* its online flag
  part,        \* the slave each of its measurements was read from, 0 if from none
  table,       \* active_config.devices: the enabled address of each kind, or 0
  at,          \* where each thread is
  kind,        \* the kind it works on
  arg,         \* the address it has sent to, or that device add was given
  read,        \* the reads it has made of the present poll
  bus,         \* modbus_master_lock's owner
  registered,  \* devices_registered
  since,       \* now_ms - last_register_request_tick, Never if that is 0
  changed,     \* the entry was registered anew since the thread began with it
  mixed,       \* entries last written by a poll of which that is true
  loose,       \* entries the table's editing has left behind
  excused,     \* no device because of an updateResponse, or of the shell
  quiet        \* time spent ready and without devices since the last request

registry == <<addr, online, part, mixed>>
thread == <<at, kind, arg, read, changed>>
asking == <<registered, since, quiet>>
vars == <<registry, table, thread, bus, asking, loose, excused>>

Position ==
  {"idle", "next", "call", "wait", "got", "failed", "clear", "add", "load", "apply"}

TypeOK ==
  /\ addr \in [Kinds -> Address] /\ online \in [Kinds -> BOOLEAN]
  /\ part \in [Kinds -> Seq(Address)] /\ \A s \in Kinds : Len(part[s]) = Reads[s]
  /\ table \in [Kinds -> Address]
  /\ at \in [Threads -> Position] /\ kind \in [Threads -> Kinds]
  /\ arg \in [Threads -> Address]
  /\ read \in [Threads -> Seq(Address)]
  /\ \A t \in Threads : Len(read[t]) < Reads[kind[t]]
  /\ bus \in Threads \cup {None} /\ registered \in BOOLEAN
  /\ since \in 0 .. Clock /\ quiet \in Nat
  /\ changed \in [Threads -> BOOLEAN] /\ mixed \subseteq Kinds
  /\ loose \subseteq Kinds /\ excused \in BOOLEAN

Blank(s) == [i \in 1 .. Reads[s] |-> 0]

\* device_manager_init: the saved table's devices.
Init ==
  /\ table \in [Kinds -> Address] /\ addr = table
  /\ online = [s \in Kinds |-> FALSE] /\ part = [s \in Kinds |-> Blank(s)]
  /\ at = [t \in Threads |-> "idle"] /\ kind = [t \in Threads |-> 1]
  /\ arg = [t \in Threads |-> 0] /\ read = [t \in Threads |-> <<>>]
  /\ changed = [t \in Threads |-> FALSE]
  /\ bus = None /\ registered = FALSE /\ since = Never
  /\ mixed = {} /\ loose = {} /\ excused = FALSE /\ quiet = 0

-----------------------------------------------------------------------------
(* The processor.                                                          *)

Busy(t) == at[t] # "idle"
Waits(t) == at[t] = "call" /\ bus \notin {None, t}

\* The threads at whose priority t runs: its own, and as the lock's owner those
\* of the threads that wait for it.
Ranks(t) == {t} \cup (IF bus = t THEN {u \in Threads : Waits(u)} ELSE {})

Above(t, u) == \E v \in Ranks(t) : \A w \in Ranks(u) : Rank[v] > Rank[w]

Runs(t) ==
  /\ ~Waits(t)
  /\ \A u \in Threads \ {t} : Busy(u) /\ ~Waits(u) => Above(t, u)

Goto(t, l) == at' = [at EXCEPT ![t] = l]

\* t is done with its kind s and goes on with the next one, if there is one.
Advance(t, s, l) ==
  IF s + 1 \in Kinds THEN Goto(t, l) /\ kind' = [kind EXCEPT ![t] = s + 1]
                     ELSE Goto(t, "idle") /\ kind' = [kind EXCEPT ![t] = 1]

-----------------------------------------------------------------------------
(* Changing the registry.                                                  *)

InPoll(t) == at[t] \in {"call", "wait", "got", "failed"}

\* Mutant: the entry is not wiped.
AnewUnwiped(new, S) ==
  /\ addr' = [s \in Kinds |-> IF s \in S THEN new[s] ELSE addr[s]]
  /\ mixed' = mixed \ S
  /\ changed' = [t \in Threads |-> changed[t] \/ (InPoll(t) /\ kind[t] \in S)]
  /\ UNCHANGED <<online, part>>

\* The *_init functions: the entries of the kinds S start over.
Anew(new, S) ==
  /\ addr' = [s \in Kinds |-> IF s \in S THEN new[s] ELSE addr[s]]
  /\ online' = [s \in Kinds |-> s \notin S /\ online[s]]
  /\ part' = [s \in Kinds |-> IF s \in S THEN Blank(s) ELSE part[s]]
  /\ mixed' = mixed \ S
  /\ changed' = [t \in Threads |-> changed[t] \/ (InPoll(t) /\ kind[t] \in S)]

\* Mutant: the kind is enough, at any address.
AllowsKind(s, a) == (\E k \in Kinds : table[k] # 0) => table[s] # 0

\* config_saved_device_table_allows.
Allows(s, a) == (\E k \in Kinds : table[k] # 0) => table[s] = a

\* configured_count > 0.
Counts(new) == \E s \in Kinds : new[s] # 0

NoDevice == \A s \in Kinds : addr[s] = 0

\* A registerInfo with the devices m, handled by t: those the table allows.
RegisterInfo(t, m) ==
  /\ Runs(t) /\ ~Busy(t)
  /\ LET new == [s \in Kinds |-> IF m[s] # 0 /\ Allows(s, m[s]) THEN m[s] ELSE 0] IN
     Anew(new, Kinds) /\ registered' = Counts(new)
  /\ loose' = {} /\ excused' = FALSE /\ quiet' = 0
  /\ UNCHANGED <<table, at, kind, arg, read, bus, since>>

\* One that cannot be parsed or has no deviceInfos.
RegisterInfoInvalid(t) ==
  /\ Runs(t) /\ ~Busy(t) /\ registered' = FALSE
  /\ UNCHANGED <<registry, table, thread, bus, since, loose, excused, quiet>>

\* An updateResponse.
UpdateResponse(t) ==
  /\ Runs(t) /\ ~Busy(t) /\ registered' = TRUE /\ excused' = NoDevice /\ quiet' = 0
  /\ UNCHANGED <<registry, table, thread, bus, since, loose>>

\* A command is executed: mqtt_rx polls the devices.  The command has a device.
Command ==
  /\ Runs("mqtt_rx") /\ ~Busy("mqtt_rx") /\ \E s \in Kinds : addr[s] # 0
  /\ Goto("mqtt_rx", "next") /\ kind' = [kind EXCEPT !["mqtt_rx"] = 1]
  /\ UNCHANGED <<registry, table, arg, read, changed, bus, asking, loose, excused>>

Downlink(t) ==
  \/ \E m \in [Kinds -> Address] : RegisterInfo(t, m)
  \/ RegisterInfoInvalid(t) \/ UpdateResponse(t)

-----------------------------------------------------------------------------
(* The shell (thread debug), and a script that resets the configuration.   *)

ShellIdle == Runs("debug") /\ ~Busy("debug")
ShellAt(l) == Runs("debug") /\ at["debug"] = l

\* device poll.
ShellPoll ==
  /\ ShellIdle /\ Goto("debug", "next") /\ kind' = [kind EXCEPT !["debug"] = 1]
  /\ UNCHANGED <<registry, table, arg, read, changed, bus, asking, loose, excused>>

\* device clear: the registry, then the table.
ShellClear ==
  /\ ShellIdle /\ Anew([s \in Kinds |-> 0], Kinds) /\ Goto("debug", "clear")
  /\ excused' = TRUE /\ quiet' = 0
  /\ UNCHANGED <<table, kind, arg, read, bus, registered, since, loose>>

ShellClearTable ==
  /\ ShellAt("clear") /\ table' = [s \in Kinds |-> 0] /\ Goto("debug", "idle")
  /\ UNCHANGED <<registry, kind, arg, read, changed, bus, asking, loose, excused>>

\* device add s a: the registry, then the table.
ShellAdd(s, a) ==
  /\ ShellIdle /\ Anew([k \in Kinds |-> a], {s})
  /\ Goto("debug", "add") /\ kind' = [kind EXCEPT !["debug"] = s]
  /\ arg' = [arg EXCEPT !["debug"] = a]
  /\ loose' = loose \cup {s} /\ excused' = FALSE
  /\ UNCHANGED <<table, read, bus, asking>>

ShellAddTable ==
  /\ ShellAt("add")
  /\ LET s == kind["debug"] IN
     /\ table' = [table EXCEPT ![s] = arg["debug"]]
     /\ loose' = (IF addr[s] = arg["debug"] THEN loose \ {s} ELSE loose \cup {s}) \cup
                 (IF \E k \in Kinds : table[k] # 0 THEN {} ELSE Kinds \ {s})
  /\ Goto("debug", "idle") /\ kind' = [kind EXCEPT !["debug"] = 1]
  /\ arg' = [arg EXCEPT !["debug"] = 0]
  /\ UNCHANGED <<registry, read, changed, bus, asking, excused>>

\* device load: the stored table, then the registry cleared, then its devices.
ShellLoad ==
  /\ ShellIdle /\ table' \in [Kinds -> Address] /\ Goto("debug", "load")
  /\ loose' = Kinds
  /\ UNCHANGED <<registry, kind, arg, read, changed, bus, asking, excused>>

ShellLoadClear ==
  /\ ShellAt("load") /\ Anew([s \in Kinds |-> 0], Kinds) /\ Goto("debug", "apply")
  /\ kind' = [kind EXCEPT !["debug"] = 1]
  /\ loose' = {} /\ excused' = TRUE /\ quiet' = 0
  /\ UNCHANGED <<table, arg, read, bus, registered, since>>

ShellLoadDevice ==
  /\ ShellAt("apply")
  /\ LET s == kind["debug"] IN
     /\ IF table[s] # 0 THEN Anew(table, {s}) /\ excused' = FALSE
                        ELSE UNCHANGED <<registry, changed, excused>>
     /\ Advance("debug", s, "apply")
  /\ UNCHANGED <<table, arg, read, bus, asking, loose>>

\* CONFIG_RESET of a script, whose thread is above the shell's.
TableReset ==
  /\ ~Busy("main") /\ ~Busy("mqtt_rx")
  /\ table' = [s \in Kinds |-> 0]
  /\ UNCHANGED <<registry, thread, bus, asking, loose, excused>>

Shell ==
  \/ ShellPoll \/ ShellClear \/ ShellClearTable \/ ShellAddTable
  \/ \E s \in Kinds, a \in Addrs : ShellAdd(s, a)
  \/ ShellLoad \/ ShellLoadClear \/ ShellLoadDevice \/ TableReset

-----------------------------------------------------------------------------
(* Polling: device_manager_poll_all by t.                                  *)

\* The next kind, if it has a device.
Look(t) ==
  /\ Runs(t) /\ at[t] = "next"
  /\ LET s == kind[t] IN
     IF addr[s] = 0 THEN Advance(t, s, "next") ELSE Goto(t, "call") /\ UNCHANGED kind
  /\ UNCHANGED <<registry, table, arg, read, changed, bus, asking, loose, excused>>

\* A read takes the bus and sends to the entry's address of this moment.
Call(t) ==
  /\ Runs(t) /\ at[t] = "call" /\ bus = None
  /\ bus' = t /\ arg' = [arg EXCEPT ![t] = addr[kind[t]]] /\ Goto(t, "wait")
  /\ UNCHANGED <<registry, table, kind, read, changed, asking, loose, excused>>

\* It ends, with a reply or without; address 0 has no slave.
Reply(t) ==
  /\ Runs(t) /\ at[t] = "wait" /\ bus' = None
  /\ \/ Goto(t, "failed") /\ arg' = [arg EXCEPT ![t] = 0]
     \/ arg[t] # 0 /\ Goto(t, "got") /\ UNCHANGED arg
  /\ UNCHANGED <<registry, table, kind, read, changed, asking, loose, excused>>

Done(t, s) ==
  /\ Advance(t, s, "next") /\ read' = [read EXCEPT ![t] = <<>>]
  /\ changed' = [changed EXCEPT ![t] = FALSE]

\* A poll throughout which the entry has stayed the same puts it right.
Mixes(t, s, last) ==
  mixed' = IF changed[t] THEN mixed \cup {s} ELSE IF last THEN mixed \ {s} ELSE mixed

Last(s, i) == i = Reads[s]

\* A read's measurements are stored, or kept for the end of the poll; the last one
\* sets the entry online.
Store(t) ==
  /\ Runs(t) /\ at[t] = "got"
  /\ LET s == kind[t]
         got == Append(read[t], IF s \in Direct THEN 0 ELSE arg[t])
         i == Len(got) IN
     /\ IF s \in Direct THEN part' = [part EXCEPT ![s][i] = arg[t]]
        ELSE IF Last(s, i) THEN part' = [part EXCEPT ![s] = got] ELSE UNCHANGED part
     /\ IF Last(s, i)
          THEN online' = [online EXCEPT ![s] = TRUE] /\ Done(t, s)
          ELSE Goto(t, "call") /\ read' = [read EXCEPT ![t] = got]
               /\ UNCHANGED <<online, kind, changed>>
     /\ Mixes(t, s, Last(s, i)) /\ arg' = [arg EXCEPT ![t] = 0]
  /\ UNCHANGED <<addr, table, bus, asking, loose, excused>>

\* A read that failed ends the poll of the entry and takes it offline.
Fail(t) ==
  /\ Runs(t) /\ at[t] = "failed"
  /\ online' = [online EXCEPT ![kind[t]] = FALSE] /\ Done(t, kind[t])
  /\ UNCHANGED <<addr, part, mixed, table, arg, bus, asking, loose, excused>>

Poll(t) == Look(t) \/ Call(t) \/ Reply(t) \/ Store(t) \/ Fail(t)

-----------------------------------------------------------------------------
(* The main thread's pass.                                                 *)

\* Mutant: ticks that have wrapped are taken to be early.
DueInOrder(d) == d = Never \/ (d >= Interval /\ d < Clock - Offset)

\* platform_messages_request_register_info_as_needed, d after the last request.
Due(d) == d = Never \/ d >= Interval

\* last_register_request_tick is a HAL tick; it may happen to be 0.
Asked == since' \in {(Clock - Offset) % Clock, Never}

\* A pass starts a unit of time or more after the one before.  The request is
\* published, if the session is ready and it is time; the publish may fail.  Then
\* the devices are polled, unless a payload is sent or it is too early.
Pass(ready) ==
  /\ Runs("main") /\ ~Busy("main")
  /\ \E d \in 1 .. MaxPass :
       LET now == IF since = Never THEN Never ELSE (since + d) % Clock
           asks == ready /\ ~registered /\ Due(now)
       IN  /\ \/ asks /\ Asked
              \/ since' = now
           /\ quiet' = IF asks \/ ~ready \/ ~NoDevice \/ excused THEN 0 ELSE quiet + d
  /\ \/ Goto("main", "next") /\ kind' = [kind EXCEPT !["main"] = 1]
     \/ UNCHANGED <<at, kind>>
  /\ UNCHANGED <<registry, table, arg, read, changed, bus, registered, loose, excused>>

Next ==
  \/ \E t \in Threads : Downlink(t) \/ Poll(t)
  \/ Command \/ Shell \/ \E ready \in BOOLEAN : Pass(ready)

Spec == Init /\ [][Next]_vars

-----------------------------------------------------------------------------
(* Properties                                                              *)

\* The measurements of an entry that is online were all read from its own slave,
\* even if the registry was rebuilt, cleared or edited while other entries were
\* being polled; the exception is an entry registered anew in the middle of its
\* poll, until it has been polled again.
OnlineIsRead ==
  \A s \in Kinds \ mixed : online[s] => \A i \in 1 .. Reads[s] : part[s][i] = addr[s]

\* A saved device table is the final word on what is polled, whoever registers it:
\* the shell's own edits apart, until the next registerInfo.
OnlyAllowed ==
  (\E k \in Kinds : table[k] # 0) => \A s \in Kinds \ loose : addr[s] \in {0, table[s]}

\* A ready collector without devices keeps asking for them, unless an updateResponse
\* or the shell has had the last word.
KeepsAsking == quiet <= Interval + MaxPass
=============================================================================
