----------------------------- MODULE NetworkManager -----------------------------
(***************************************************************************)
(* The two network links of the PowerEnvDaq board: the wired chip CH395Q    *)
(* ("ch") and the 4G module Air724UG ("air") share one UART, so that one of *)
(* them is to be held in reset.  src/Network/Src/network_manager.c probes   *)
(* and switches, network_socket.c remembers which link opened a socket.     *)
(*                                                                         *)
(* The main thread polls the manager and then maintains MQTT.  The shell    *)
(* and BASIC scripts, both of lower priority, call the manager too, without *)
(* a lock: the main thread may preempt such a call at any step, never the   *)
(* other way round, since every wait in this code is a busy wait.  The      *)
(* mqtt_rx thread only looks at the socket, at any time.                    *)
(*                                                                         *)
(* The steps a thread has still to do are todo[t]; a function replaces its  *)
(* own name at the front by the steps it consists of.  One socket stands    *)
(* for all, that of MQTT.                                                   *)
(***************************************************************************)
EXTENDS Integers, Sequences

CONSTANTS
  BootMode,     \* active_config.network_mode at boot
  Commands,     \* what the shell or a script does to the network
  MaxCommands,  \* bound: how often
  MaxFaults     \* bound: changes of the wire, losses of the cell or a connection

Modes == {"auto", "wired", "4g"}
Links == {"ch", "air"}

ASSUME ConstantsAssumption ==
  /\ BootMode \in Modes
  /\ Commands \subseteq Modes \cup {"probe", "setup", "init", "modem"}
  /\ MaxCommands \in Nat /\ MaxFaults \in Nat

Threads == {"main", "shell"}

VARIABLES
  mode,      \* active_mode
  link,      \* active_link
  state,     \* current_state: "unknown", or the link that is active
  force,     \* force_probe_requested
  due,       \* probe_interval_ms is over since last_probe_tick
  present,   \* board_status.present of the wired chip
  ipReady,   \* air724_ip_ready
  owner,     \* socket_owners[MQTT]: the link that opened it, or "none"
  todo,      \* what each thread has still to do
  ok,        \* the result of the last step of each thread
  before,    \* link_before_probe of each thread
  out,       \* external: the chips that are out of reset
  chSet,     \* external: the wired chip has its addresses since its last reset
  modemSet,  \* external: the 4G module has its IP context since its last reset
  reg,       \* external: NETSTATE, the 4G module is in its network
  live,      \* external: the owner's TCP connection exists
  wire,      \* external: the wired chip does not answer, is alone, or is online
  faults, commands,
  raced,     \* a manager call of the shell has been preempted by a main pass
  direct     \* a command has reset a chip on its own, without the manager

manager == <<mode, link, state, force, due>>
flags == <<present, ipReady, owner>>
threads == <<todo, ok, before>>
chips == <<out, chSet, modemSet, reg, live>>
bounds == <<faults, commands, raced, direct>>
vars == <<manager, flags, threads, chips, wire, bounds>>

Steps == Modes \cup
  {"poll", "probe", "prepare", "holdAir", "resetCh", "releaseCh", "releaseAir", "check",
   "configure", "connect", "restore", "decide", "selectCh", "selectAir", "setCh", "setAir",
   "force", "ifOk", "mqtt"}

\* A chip in reset knows nothing of what it was told before and has no connection.
TypeOK ==
  /\ mode \in Modes /\ link \in Links /\ state \in {link, "unknown"}
  /\ force \in BOOLEAN /\ due \in BOOLEAN /\ present \in BOOLEAN /\ ipReady \in BOOLEAN
  /\ owner \in Links \cup {"none"}
  /\ todo \in [Threads -> Seq(Steps)]
  /\ ok \in [Threads -> BOOLEAN] /\ before \in [Threads -> Links]
  /\ out \subseteq Links
  /\ chSet \in BOOLEAN /\ modemSet \in BOOLEAN /\ reg \in BOOLEAN /\ live \in BOOLEAN
  /\ chSet => "ch" \in out
  /\ modemSet \/ reg => "air" \in out
  /\ live => owner \in out
  /\ wire \in {"dead", "alone", "online"}
  /\ faults \in 0 .. MaxFaults /\ commands \in 0 .. MaxCommands
  /\ raced \in BOOLEAN /\ direct \in BOOLEAN

InitNetwork == <<"holdAir", "resetCh", "releaseCh", "check", "configure">>

Select(m) == IF m = "wired" THEN <<"selectCh">> ELSE IF m = "4g" THEN <<"selectAir">> ELSE <<>>

\* app_init, after the pins have their first levels.
Init ==
  /\ mode = BootMode /\ link = "ch" /\ state = "unknown"
  /\ force = (BootMode = "auto") /\ due = FALSE
  /\ present = FALSE /\ ipReady = FALSE /\ owner = "none"
  /\ todo = [t \in Threads |->
       IF t = "shell" THEN <<>>
       ELSE (IF BootMode = "4g" THEN <<>> ELSE InitNetwork) \o Select(BootMode) \o <<"poll">>]
  /\ ok = [t \in Threads |-> FALSE] /\ before = [t \in Threads |-> "ch"]
  /\ out = {"ch"} /\ chSet = FALSE /\ modemSet = FALSE /\ reg = FALSE /\ live = FALSE
  /\ wire \in {"dead", "alone", "online"}
  /\ faults = 0 /\ commands = 0 /\ raced = FALSE /\ direct = FALSE

-----------------------------------------------------------------------------
(* Steps                                                                   *)

Runs(t) == t = "shell" => todo["main"] = <<>>

At(t, step) == Runs(t) /\ todo[t] # <<>> /\ Head(todo[t]) = step

\* The step is done; others take its place.
Then(t, steps) == todo' = [todo EXCEPT ![t] = steps \o Tail(@)]
Done(t) == Then(t, <<>>)

\* The two links on the UART when a thread asks the wired chip: a chip of which the
\* other is in reset answers, two chips may garble each other; mqtt_rx may ask for the
\* same socket, and the main thread preempts the shell, in the middle of an exchange.
Answers(t) ==
  LET alive == "ch" \in out /\ wire # "dead"
      garbled == "air" \in out \/ t = "shell" \/ (owner = "ch" /\ link = "ch")
  IN {alive} \cup {answer \in {FALSE} : garbled}

Forgets(chip) ==
  /\ chSet' = (chSet /\ chip # "ch")
  /\ modemSet' = (modemSet /\ chip # "air") /\ reg' = (reg /\ chip # "air")
  /\ live' = (live /\ owner # chip)

\* bsp_ch395_assert_reset, bsp_air724_assert_reset
Hold(t, step, chip) ==
  /\ At(t, step) /\ Done(t)
  /\ out' = out \ {chip} /\ Forgets(chip)
  /\ UNCHANGED <<manager, flags, ok, before, wire, bounds>>

\* bsp_ch395_release_reset, bsp_air724_release_reset
Release(t, step, chip) ==
  /\ At(t, step) /\ Done(t)
  /\ out' = out \cup {chip}
  /\ UNCHANGED <<manager, flags, ok, before, chSet, modemSet, reg, live, wire, bounds>>

\* ch395_board_init_default, after the reset.
Check(t) ==
  /\ At(t, "check") /\ Done(t)
  /\ present' \in Answers(t) /\ ok' = [ok EXCEPT ![t] = present']
  /\ UNCHANGED <<manager, ipReady, owner, before, chips, wire, bounds>>

\* The rest of ch395_board_init_network: nothing if the chip is not present, else a
\* software reset, another check, the addresses and the chip's own init.
Configure(t) ==
  /\ At(t, "configure") /\ Done(t)
  /\ IF present
     THEN \E there, ready \in Answers(t) :
            /\ present' = there
            /\ ok' = [ok EXCEPT ![t] = there /\ ready]
            /\ chSet' = (there /\ ready) /\ live' = (live /\ owner # "ch")
     ELSE ok' = [ok EXCEPT ![t] = FALSE] /\ UNCHANGED <<present, chSet, live>>
  /\ UNCHANGED <<manager, ipReady, owner, before, out, modemSet, reg, wire, bounds>>

\* Mutant: as the weak default in network_manager.c, without the addresses.
PrepareOnly(t) ==
  /\ At(t, "prepare") /\ Then(t, <<"releaseCh">>)
  /\ ok' = [ok EXCEPT ![t] = TRUE]
  /\ UNCHANGED <<manager, flags, before, chips, wire, bounds>>

\* network_prepare_ch395q_probe of app.c
Prepare(t) ==
  /\ At(t, "prepare")
  /\ \E there \in IF "ch" \in out THEN Answers(t) ELSE {FALSE} :
       /\ ok' = [ok EXCEPT ![t] = there]
       /\ Then(t, IF there THEN <<>> ELSE InitNetwork)
  /\ UNCHANGED <<manager, flags, before, chips, wire, bounds>>

-----------------------------------------------------------------------------
(* Probing: network_manager_ch395q_probe_now                               *)

Probe(t) ==
  /\ At(t, "probe") /\ Then(t, <<"prepare", "connect", "restore">>)
  /\ before' = [before EXCEPT ![t] = link]
  /\ UNCHANGED <<manager, flags, ok, chips, wire, bounds>>

\* network_probe_ch395q_port, unless the preparation has failed.
Connect(t) ==
  /\ At(t, "connect") /\ Done(t)
  /\ present' = (present /\ (ok[t] => "ch" \in out))
  /\ ok[t] => \E there, connected \in Answers(t) :
       ok' = [ok EXCEPT ![t] = (present' \/ there) /\ connected /\ chSet /\ wire = "online"]
  /\ ~ok[t] => UNCHANGED ok
  /\ UNCHANGED <<manager, ipReady, owner, before, chips, wire, bounds>>

\* Mutants of the order in which the 4G module gets the UART, and of the restoration.
SwitchToAirFirst == <<"releaseAir", "resetCh">>
RestoreNothing(t) ==
  At(t, "restore") /\ Done(t) /\ UNCHANGED <<manager, flags, ok, before, chips, wire, bounds>>

\* network_switch_to_air724ug
SwitchToAir == <<"resetCh", "releaseAir">>

Restore(t) ==
  /\ At(t, "restore")
  /\ Then(t, IF before[t] = "air" THEN SwitchToAir ELSE <<>>)
  /\ UNCHANGED <<manager, flags, ok, before, chips, wire, bounds>>

-----------------------------------------------------------------------------
(* Switching                                                               *)

Active(l) == link = l /\ state = l

\* network_manager_poll
Poll(t) ==
  /\ At(t, "poll") /\ force' = FALSE
  /\ IF mode = "auto"
     THEN due' = FALSE /\ Then(t, IF force \/ due THEN <<"probe", "decide">> ELSE <<>>)
     ELSE /\ UNCHANGED due
          /\ Then(t, IF force \/ ~Active(IF mode = "wired" THEN "ch" ELSE "air")
                     THEN Select(mode) ELSE <<>>)
  /\ UNCHANGED <<mode, link, state, flags, ok, before, chips, wire, bounds>>

\* The rest of network_manager_poll, after the probe.
Decide(t) ==
  /\ At(t, "decide")
  /\ Then(t, IF ok[t] THEN (IF Active("ch") THEN <<>> ELSE <<"selectCh">>)
                      ELSE (IF Active("air") THEN <<>> ELSE <<"selectAir">>))
  /\ UNCHANGED <<manager, flags, ok, before, chips, wire, bounds>>

\* Mutant: the owner is forgotten, its socket left open.
CloseAllForgets == owner' = "none" /\ UNCHANGED live

\* network_socket_close_all
CloseAll == owner' = "none" /\ live' = FALSE

\* network_manager_select_ch395q, network_manager_select_air724ug
SelectLink(t, step, steps) ==
  /\ At(t, step) /\ Then(t, steps) /\ CloseAll
  /\ UNCHANGED <<manager, present, ipReady, ok, before, out, chSet, modemSet, reg, wire, bounds>>

SetLink(t, step, l) ==
  /\ At(t, step) /\ Done(t)
  /\ link' = l /\ state' = l
  /\ UNCHANGED <<mode, force, due, flags, ok, before, chips, wire, bounds>>

\* network_manager_set_mode
SetMode(t, m) ==
  /\ At(t, m) /\ Then(t, Select(m))
  /\ mode' = m /\ force' = (force \/ m = "auto")
  /\ UNCHANGED <<link, state, due, flags, ok, before, chips, wire, bounds>>

\* network_manager_force_probe
ForceProbe(t) ==
  /\ At(t, "force") /\ Done(t)
  /\ force' = TRUE
  /\ UNCHANGED <<mode, link, state, due, flags, ok, before, chips, wire, bounds>>

\* config_apply_ch395q_network, after the chip's init.
IfOk(t) ==
  /\ At(t, "ifOk") /\ Then(t, IF ok[t] THEN <<"wired">> ELSE <<>>)
  /\ UNCHANGED <<manager, flags, ok, before, chips, wire, bounds>>

StepOf(t) ==
  \/ Hold(t, "holdAir", "air") \/ Hold(t, "resetCh", "ch")
  \/ Release(t, "releaseCh", "ch") \/ Release(t, "releaseAir", "air")
  \/ Check(t) \/ Configure(t) \/ Prepare(t)
  \/ Probe(t) \/ Connect(t) \/ Restore(t)
  \/ Poll(t) \/ Decide(t)
  \/ SelectLink(t, "selectCh", <<"prepare", "holdAir", "releaseCh", "setCh">>)
  \/ SelectLink(t, "selectAir", SwitchToAir \o <<"setAir">>)
  \/ SetLink(t, "setCh", "ch") \/ SetLink(t, "setAir", "air")
  \/ (\E m \in Modes : SetMode(t, m)) \/ ForceProbe(t) \/ IfOk(t)

-----------------------------------------------------------------------------
(* MQTT's socket                                                           *)

Ready(l) == IF l = "ch" THEN present /\ "ch" \in out ELSE reg /\ "air" \in out

\* network_socket_owner_ops; the wired chip is asked for its connection, that of the 4G
\* module counts as there until a ping or publish fails.
MqttKeeps ==
  /\ At("main", "mqtt") /\ Done("main")
  /\ owner = link /\ Ready(link) /\ (live \/ link = "air")
  /\ UNCHANGED <<manager, flags, ok, before, chips, wire, bounds>>

\* Only two chips on the UART make a connection fail that could be there.
Connects(possible) ==
  \E opened \in {possible} \cup {answer \in {FALSE} : out = Links} :
    owner' = (IF opened THEN link ELSE "none") /\ live' = opened

OpenWired ==
  /\ link = "ch"
  /\ Connects(Ready("ch") /\ chSet /\ wire = "online")
  /\ UNCHANGED <<ipReady, modemSet>>

\* air724_socket_prepare_ip sets the IP context up once.
OpenAir ==
  /\ link = "air"
  /\ ipReady' \in {ipReady \/ Ready("air")} \cup {answer \in {ipReady} : out = Links}
  /\ modemSet' = (modemSet \/ (ipReady' /\ ~ipReady))
  /\ Connects(Ready("air") /\ ipReady' /\ modemSet')

\* It is not there: it is closed, and if the link is ready opened again.
MqttReopens ==
  /\ At("main", "mqtt") /\ Done("main")
  /\ ~(owner = link /\ Ready(link) /\ live)
  /\ present' = (present /\ (link = "ch" => "ch" \in out))
  /\ OpenWired \/ OpenAir
  /\ UNCHANGED <<manager, ok, before, out, chSet, reg, wire, bounds>>

\* mqtt_rx looks, and finds that the socket is not of this link or the link not ready.
Look ==
  /\ owner # "none" /\ ~(owner = link /\ Ready(link))
  /\ owner' = "none" /\ live' = FALSE
  /\ present' = (present /\ (owner = link /\ link = "ch" => "ch" \in out))
  /\ UNCHANGED <<manager, ipReady, threads, out, chSet, modemSet, reg, wire, bounds>>

-----------------------------------------------------------------------------
(* Threads and environment                                                 *)

\* app_process_once
MainBegins ==
  /\ todo["main"] = <<>>
  /\ todo' = [todo EXCEPT !["main"] = <<"poll", "mqtt">>]
  /\ raced' = (raced \/ todo["shell"] # <<>>)
  /\ UNCHANGED <<manager, flags, ok, before, chips, wire, faults, commands, direct>>

Command(c) ==
  /\ \A t \in Threads : todo[t] = <<>>
  /\ commands < MaxCommands /\ commands' = commands + 1
  /\ todo' = [todo EXCEPT !["shell"] =
       CASE c \in Modes -> <<c, "poll">>
         [] c = "probe" -> <<"probe", "force">>
         [] c = "setup" -> InitNetwork \o <<"ifOk">>
         [] c = "init"  -> InitNetwork
         [] c = "modem" -> <<"holdAir", "releaseAir">>]
  /\ direct' = (direct \/ c \in {"setup", "init", "modem"})
  /\ UNCHANGED <<manager, flags, ok, before, chips, wire, faults, raced>>

Timer ==
  /\ ~due /\ due' = TRUE
  /\ UNCHANGED <<mode, link, state, force, flags, threads, chips, wire, bounds>>

Register ==
  /\ "air" \in out /\ ~reg /\ reg' = TRUE
  /\ UNCHANGED <<manager, flags, threads, out, chSet, modemSet, live, wire, bounds>>

\* The wire changes, the cell is lost, or a connection is.
Fault ==
  /\ faults < MaxFaults /\ faults' = faults + 1
  /\ \/ /\ wire' \in {"dead", "alone", "online"} \ {wire}
        /\ chSet' \in {chSet, chSet /\ wire' # "dead"}
        /\ live' = (live /\ owner # "ch") /\ UNCHANGED reg
     \/ reg /\ reg' = FALSE /\ UNCHANGED <<wire, chSet, live>>
     \/ live /\ live' = FALSE /\ UNCHANGED <<wire, chSet, reg>>
  /\ UNCHANGED <<manager, flags, threads, out, modemSet, commands, raced, direct>>

Next ==
  \/ \E t \in Threads : StepOf(t)
  \/ MqttKeeps \/ MqttReopens \/ Look
  \/ MainBegins \/ \E c \in Commands : Command(c)
  \/ Timer \/ Register \/ Fault

Spec == Init /\ [][Next]_vars

\* Every thread goes on when it has the processor; the shell has it between two passes of
\* the main thread.
Fairness ==
  /\ WF_vars(StepOf("main")) /\ WF_vars(MqttKeeps \/ MqttReopens) /\ WF_vars(MainBegins)
  /\ SF_vars(StepOf("shell"))
  /\ WF_vars(Timer) /\ WF_vars(Register)

FairSpec == Spec /\ Fairness

-----------------------------------------------------------------------------
(* Properties                                                              *)

AtRest == \A t \in Threads : todo[t] = <<>>

\* The two chips never drive the UART together, unless the main thread has polled in the
\* middle of a command of the shell, or a command has reset a chip itself.
OneChipOnBus == raced \/ direct \/ out # Links

\* Nor is, until then, the active link's chip in reset or the other one out of it when
\* nobody is at work in the manager: a probe restores what it found.
RestIsolated == AtRest => raced \/ direct \/ out = {link}

\* In automatic mode a wire that stays online gets the MQTT connection back, again and
\* again, whatever commands and faults came before, unless raced.
ReturnsToWired ==
  <>[](mode = "auto" /\ wire = "online" /\ ~raced) => []<>(owner = "ch" /\ link = "ch" /\ live)

\* At rest the 4G module has the IP context that air724_ip_ready says it has.  It does
\* not: a probe of the wired chip resets the module and leaves the flag (README,
\* section 6).
NotHalfOpen == AtRest /\ "air" \in out /\ ipReady => modemSet
=============================================================================
