------------------------------ MODULE ConfigStore ------------------------------
(***************************************************************************)
(* The configuration record of src/Config/Src/config.c in the AT24C EEPROM *)
(* (src/Storage/Src/app_eeprom.c): loading it at boot or by the shell's    *)
(* `device load`, migrating the records of three older layouts, and saving *)
(* it from the shell or from a BASIC script.                               *)
(*                                                                         *)
(* A record lies at a fixed address, in five pieces of EEPROM in the order *)
(* they are written: what all layouts agree on; the page with the network  *)
(* mode, whose rest is WiFi settings today, the device table in v5, log    *)
(* and CRC in v4 and before; the next page, WiFi settings or the v5 CRC;   *)
(* today's device table; today's CRC.  Each layout is thus tried on bytes  *)
(* another one may have written.  A page write is atomic.  Bytes are       *)
(* tuples: <<>> is zeros, and a CRC is the tuple of what it covers.        *)
(*                                                                         *)
(* The script thread has the higher priority and never blocks in a save:   *)
(* it may run between two pages of the shell's save, never the reverse.    *)
(***************************************************************************)
EXTENDS Naturals, FiniteSets

CONSTANTS
  Core,         \* values of the settings all layouts hold at the same place
  DefaultCore,  \* their defaults
  Mode,         \* network_mode_t
  Table,        \* device tables with entries, five at most
  MaxSets,      \* bound: settings changed
  MaxFaults     \* bound: resets, failed reads and failed or lost page writes

ASSUME ConstantsAssumption ==
  /\ DefaultCore \in Core /\ "ff" \notin Core
  /\ "auto" \in Mode /\ "ff" \notin Mode
  /\ Table \cap {"text", "ff"} = {}
  /\ MaxSets \in Nat /\ MaxFaults \in Nat

Zeros == <<>>
Text == <<"text">>    \* characters
Erased == <<"ff">>    \* never written

Tables == {<<t>> : t \in Table}
Devices == Tables \cup {Zeros}
Part == {Zeros, Text} \* the WiFi settings on one page
Wifi == {<<Zeros, Zeros>>, <<Text, Text>>}

\* What settings can be; a record may hold other bytes in place of the WiFi ones.
Config == [core : Core, mode : Mode, wifi : Wifi, devices : Devices]
NetBytes == Part \cup Tables \cup (Core \X (Mode \cup {"high"}))
AnyConfig == [core : Core, mode : Mode, wifi : NetBytes \X Part, devices : Devices]

Sum(c) == <<c.core, c.mode, c.wifi, c.devices>>
SumV5(c) == <<c.core, c.mode, c.devices>>
SumV4(c) == <<c.core, c.mode>>

Sums == {Sum(c) : c \in AnyConfig}
Image ==
  [core : Core \cup {"ff"}, mode : Mode \cup {"high", "ff"}, net : NetBytes \cup {Erased},
   more : Part \cup {SumV5(c) : c \in Config} \cup {Erased},
   devices : Devices \cup {Erased}, crc : Sums \cup {Zeros, Erased}]

VARIABLES
  image,       \* the EEPROM; net is what follows the mode on its page
  active,      \* active_config
  crc,         \* active_config.crc; zeros are accepted for any content
  up,          \* config_init has returned
  saving,      \* per thread: the page it writes, 6 before the read-back, or 0
  saved,       \* {c} once a save of c was reported ok, until the EEPROM changes
  wholes,      \* the CRCs computed so far
  origin,      \* {the record before the first boot} until a setting is changed;
               \* calm until a save is cut short or a read fails
  sets, faults \* how often, for the bounds

history == <<wholes, origin, sets, faults>>
vars == <<image, active, crc, up, saving, saved, history>>

Thread == {"boot", "shell", "script"}
Layout == {"new", "v5", "v4", "legacy"}

-----------------------------------------------------------------------------
\* The records the four layouts write.

Blank ==
  [core |-> "ff", mode |-> "ff", net |-> Erased, more |-> Erased, devices |-> Erased, crc |-> Erased]

NewRecord(c, sum) ==
  [core |-> c.core, mode |-> c.mode, net |-> c.wifi[1], more |-> c.wifi[2],
   devices |-> c.devices, crc |-> sum]

V5Record(c) ==
  [core |-> c.core, mode |-> c.mode, net |-> c.devices, more |-> SumV5(c),
   devices |-> Erased, crc |-> Erased]

\* v4 and legacy: the CRC is at the same offset.  At the offset of the mode a
\* legacy record has its log level.
V4Record(core, level) ==
  [core |-> core, mode |-> level, net |-> <<core, level>>, more |-> Erased,
   devices |-> Erased, crc |-> Erased]

-----------------------------------------------------------------------------
\* What each layout makes of the EEPROM, and whether it accepts it.

NoWifi == <<Zeros, Zeros>>

ReadNew(i) == [core |-> i.core, mode |-> i.mode, wifi |-> <<i.net, i.more>>, devices |-> i.devices]

\* Mutant: the CRC of today's layout is not checked.
NewValidUnchecked(i) ==
  i.core \in Core /\ i.mode \in Mode /\ i.devices \in Devices /\ i.more \in Part

\* wifi.ip_mode lies on the second page of the WiFi settings.
NewValid(i) ==
  /\ i.core \in Core /\ i.mode \in Mode /\ i.devices \in Devices /\ i.more \in Part
  /\ i.crc \in {Zeros, Sum(ReadNew(i))}

\* The v5 table over other bytes: the count of entries is too large in text and
\* in erased bytes; none is enabled in zeros and in a v4 record.
V5Devices(i) ==
  IF i.net \in {Text, Erased} THEN Erased ELSE IF i.net \in Tables THEN i.net ELSE Zeros

ReadV5(i) == [core |-> i.core, mode |-> i.mode, wifi |-> NoWifi, devices |-> V5Devices(i)]

V5Valid(i) ==
  /\ i.core \in Core /\ i.mode \in Mode /\ V5Devices(i) \in Devices
  /\ i.more \in {Zeros, SumV5(ReadV5(i))}

\* The v4 CRC is at the unused end of a v5 table.
V4Crc(i) == IF i.net \in Tables THEN Zeros ELSE i.net

ReadV4(i) == [core |-> i.core, mode |-> i.mode, wifi |-> NoWifi, devices |-> Zeros]

ReadLegacy(i) == [ReadV4(i) EXCEPT !.mode = "auto"]

LegacyValid(i) == i.core \in Core /\ V4Crc(i) \in {Zeros, SumV4(ReadV4(i))}

\* Mutant: the network mode is not checked.
V4ValidAnyMode(i) == LegacyValid(i)

V4Valid(i) == i.mode \in Mode /\ LegacyValid(i)

Accepts(i, layout) ==
  CASE layout = "new" -> NewValid(i)
    [] layout = "v5" -> V5Valid(i)
    [] layout = "v4" -> V4Valid(i)
    [] layout = "legacy" -> LegacyValid(i)

\* Mutant: v4 is tried before v5.
FoundV4First(i, failed) ==
  LET accepted == {l \in Layout \ failed : Accepts(i, l)}
  IN  IF "new" \in accepted THEN "new"
      ELSE IF "v4" \in accepted THEN "v4"
      ELSE IF "v5" \in accepted THEN "v5"
      ELSE IF "legacy" \in accepted THEN "legacy" ELSE "none"

\* The first layout that accepts what it reads; its read may fail.
Found(i, failed) ==
  LET accepted == {l \in Layout \ failed : Accepts(i, l)}
  IN  IF "new" \in accepted THEN "new"
      ELSE IF "v5" \in accepted THEN "v5"
      ELSE IF "v4" \in accepted THEN "v4"
      ELSE IF "legacy" \in accepted THEN "legacy" ELSE "none"

Read(i, layout) ==
  CASE layout = "new" -> ReadNew(i)
    [] layout = "v5" -> ReadV5(i)
    [] layout = "v4" -> ReadV4(i)
    [] layout = "legacy" -> ReadLegacy(i)

-----------------------------------------------------------------------------
Default == [core |-> DefaultCore, mode |-> "auto", wifi |-> NoWifi, devices |-> Zeros]

Origin(l, c, i) == [layout |-> l, config |-> c, calm |-> TRUE, image |-> i]

\* The EEPROM of a device before this firmware boots for the first time: the older
\* a layout, the fewer settings it has.
Old == {c \in Config : c.wifi = NoWifi}
Oldest == {c \in Old : c.devices = Zeros}

Origins ==
  {Origin("new", c, NewRecord(c, Sum(c))) : c \in Config}
  \cup {Origin("v5", c, V5Record(c)) : c \in Old}
  \cup {Origin("v4", c, V4Record(c.core, c.mode)) : c \in Oldest}
  \cup {Origin("legacy", c, V4Record(c.core, level)) :
          c \in Oldest, level \in Mode \cup {"high"}}

Init ==
  /\ \/ \E o \in Origins :
          /\ image = o.image /\ origin = {o}
          /\ saved = IF o.layout = "new" THEN {o.config} ELSE {}
          /\ wholes = IF o.layout = "new" THEN {Sum(o.config)} ELSE {}
     \/ image = Blank /\ origin = {} /\ saved = {} /\ wholes = {}
  /\ active = Default /\ crc = Zeros
  /\ up = FALSE /\ saving = [t \in Thread |-> 0]
  /\ sets = 0 /\ faults = 0

Disturbed == {[o EXCEPT !.calm = FALSE] : o \in origin}

Faulted(n) == faults + n <= MaxFaults /\ faults' = faults + n

\* The script, once it runs, keeps the processor from the shell.
Turn(t) == t = "boot" \/ (up /\ (t = "shell" => saving["script"] = 0))

Idle(t) == Turn(t) /\ saving[t] = 0

\* config_write_into_eeprom starts: the CRC of what is active now.
StartSave(t, c) ==
  /\ crc' = Sum(c) /\ wholes' = wholes \cup {Sum(c)}
  /\ saving' = [saving EXCEPT ![t] = 1]

\* Loading, by t; what an older layout accepts is saved at once in today's.
Load(t, failed) ==
  LET layout == Found(image, failed) IN
  /\ Faulted(Cardinality(failed))
  /\ CASE layout = "none" ->
            /\ IF t = "boot" THEN active' = Default /\ crc' = Zeros ELSE UNCHANGED <<active, crc>>
            /\ origin' = {}
            /\ UNCHANGED <<saving, wholes>>
       [] layout = "new" ->
            /\ active' = ReadNew(image) /\ crc' = image.crc
            /\ origin' = IF failed = {} THEN origin ELSE Disturbed
            /\ UNCHANGED <<saving, wholes>>
       [] OTHER ->
            /\ active' = Read(image, layout) /\ StartSave(t, active')
            /\ origin' = IF failed = {} THEN origin ELSE Disturbed
  /\ UNCHANGED <<image, saved, sets>>

Boot ==
  /\ ~up /\ saving["boot"] = 0
  /\ \E failed \in SUBSET Layout : Load("boot", failed)
  /\ up' = (saving'["boot"] = 0)

DeviceLoad ==
  /\ up /\ Idle("shell") /\ UNCHANGED up
  /\ \E failed \in SUBSET Layout : Load("shell", failed)

\* setenv, device add or clear, netuse; CONFIG_SET or NETWORK_USE.
Set(t) ==
  /\ up /\ Idle(t) /\ sets < MaxSets /\ sets' = sets + 1
  /\ \E c \in Config :
       active' \in {[active EXCEPT !.core = c.core], [active EXCEPT !.mode = c.mode],
                   [active EXCEPT !.wifi = c.wifi], [active EXCEPT !.devices = c.devices]}
  /\ origin' = {}
  /\ UNCHANGED <<image, crc, up, saving, saved, wholes, faults>>

\* env default; CONFIG_RESET.
Reset(t) ==
  /\ up /\ Idle(t) /\ sets < MaxSets /\ sets' = sets + 1
  /\ active' = Default /\ crc' = Zeros /\ origin' = {}
  /\ UNCHANGED <<image, up, saving, saved, wholes, faults>>

\* saveenv, device save, netuse ... persist; CONFIG_SAVE.
Save(t) ==
  /\ up /\ Idle(t) /\ StartSave(t, active)
  /\ UNCHANGED <<image, active, up, saved, origin, sets, faults>>

-----------------------------------------------------------------------------
\* One page, of what is active at that moment.
Written(i, page) ==
  LET r == NewRecord(active, crc) IN
  CASE page = 1 -> [i EXCEPT !.core = r.core]
    [] page = 2 -> [i EXCEPT !.mode = r.mode, !.net = r.net]
    [] page = 3 -> [i EXCEPT !.more = r.more]
    [] page = 4 -> [i EXCEPT !.devices = r.devices]
    [] page = 5 -> [i EXCEPT !.crc = r.crc]

WritePage(t) ==
  /\ Turn(t) /\ saving[t] \in 1 .. 5
  /\ image' = Written(image, saving[t])
  /\ saved' = IF image' = image THEN saved ELSE {}
  /\ saving' = [saving EXCEPT ![t] = @ + 1]
  /\ UNCHANGED <<active, crc, up, history>>

\* The EEPROM acknowledges a page and does not store it.
PageLost(t) ==
  /\ Turn(t) /\ saving[t] \in 1 .. 5 /\ Faulted(1)
  /\ saving' = [saving EXCEPT ![t] = @ + 1]
  /\ origin' = Disturbed
  /\ UNCHANGED <<image, active, crc, up, saved, wholes, sets>>

\* The save ends; after a migration at boot, config_init returns.
Done(t) ==
  /\ saving' = [saving EXCEPT ![t] = 0]
  /\ up' = (up \/ t = "boot")
  /\ UNCHANGED <<active, crc, wholes, sets>>

\* The write fails, or the wait after it.
PageFails(t) ==
  /\ Turn(t) /\ saving[t] \in 1 .. 5 /\ Faulted(1)
  /\ image' \in {image, Written(image, saving[t])}
  /\ saved' = IF image' = image THEN saved ELSE {}
  /\ origin' = Disturbed /\ Done(t)

\* Mutant: the record is not read back.
VerifyBlindly(t) ==
  /\ Turn(t) /\ saving[t] = 6 /\ Done(t)
  /\ saved' = IF crc = Sum(active) THEN {active} ELSE {}
  /\ UNCHANGED <<image, origin, faults>>

\* Reading back: the save is ok if the EEPROM holds what is active.  It is a
\* whole record unless a setting has changed since its CRC was computed.
Verify(t) ==
  /\ Turn(t) /\ saving[t] = 6 /\ Done(t)
  /\ saved' = IF image = NewRecord(active, crc) /\ crc = Sum(active) THEN {active} ELSE {}
  /\ UNCHANGED <<image, origin, faults>>

ReadBackFails(t) ==
  /\ Turn(t) /\ saving[t] = 6 /\ Faulted(1) /\ Done(t)
  /\ saved' = {} /\ UNCHANGED <<image, origin>>

\* A reset: of the watchdog, by `reboot`, or of the power.
Crash ==
  /\ Faulted(1) /\ up' = FALSE
  /\ active' = Default /\ crc' = Zeros /\ saving' = [t \in Thread |-> 0]
  /\ origin' = IF \A t \in Thread : saving[t] = 0 THEN origin ELSE Disturbed
  /\ UNCHANGED <<image, saved, wholes, sets>>

ThreadStep(t) ==
  WritePage(t) \/ PageLost(t) \/ PageFails(t) \/ Verify(t) \/ ReadBackFails(t)

Next ==
  \/ Boot \/ DeviceLoad \/ Crash
  \/ \E t \in {"shell", "script"} : Set(t) \/ Reset(t) \/ Save(t)
  \/ \E t \in Thread : ThreadStep(t)

Spec == Init /\ [][Next]_vars

-----------------------------------------------------------------------------
\* Every variable has its type; no network mode out of range gets into active_config.
TypeOK ==
  /\ image \in Image /\ (image.net = Erased => image.mode = "ff")
  /\ active \in AnyConfig /\ crc \in wholes \cup {Zeros}
  /\ wholes \subseteq Sums /\ image.crc \in wholes \cup {Zeros, Erased}
  /\ up \in BOOLEAN /\ saving \in [Thread -> 0 .. 6]
  /\ saved \subseteq AnyConfig
  /\ \A o \in origin : o.config \in Config /\ o.calm \in BOOLEAN
  /\ sets \in 0 .. MaxSets /\ faults \in 0 .. MaxFaults

\* What a boot loads from the EEPROM when every read works.
Accepted == Found(image, {})
Loaded == Read(image, Accepted)

\* A save reported ok is what the next boot loads, whatever happens before the
\* next page is written: config_write_into_eeprom reads back what it wrote.
SavedSurvives == \A c \in saved : Accepted = "new" /\ Loaded = c

\* With WiFi settings stored, where the older layouts have their tables and
\* CRCs, a record torn between two pages is refused: what loads was once saved
\* as a whole.
WholeOrDefault ==
  (image.net = Text /\ image.crc # Zeros /\ Accepted # "none")
    => Sum(Loaded) \in wholes

\* A record of any layout keeps its settings through its migration and any resets
\* in it, and the network mode and the device table if nothing goes wrong in it
\* (the comments at config.c:144 and 162).  A legacy record has no mode to keep.
MigrationKeeps ==
  \A o \in origin :
    /\ Accepted # "none" /\ Loaded.core = o.config.core
    /\ (up /\ o.calm) => active.core = o.config.core /\ active.devices = o.config.devices
    /\ (up /\ o.calm /\ o.layout # "legacy") => active.mode = o.config.mode
=============================================================================
