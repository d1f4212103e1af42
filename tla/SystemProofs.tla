------------------------------ MODULE SystemProofs ------------------------------
(***************************************************************************)
(* Proofs about the two parts every other one relies on: ConfigStore, for  *)
(* any settings, device tables and modes, any number of changes and of     *)
(* faults; and RtosWatchdog, for any tick width, intervals, timeout and    *)
(* length of a pass.                                                       *)
(***************************************************************************)
EXTENDS ConfigStore, RtosWatchdog, FiniteSetTheorems, TLAPS

\* The EEPROM holds the record whose save was last reported ok.
SavedStored == \A c \in saved : image = NewRecord(c, Sum(c))

SavedInv == TypeOK /\ SavedStored

-----------------------------------------------------------------------------
(* Records and their layouts                                               *)

\* Reading a record of today's layout gives back what was written.
LEMMA ReadWritten ==
  ASSUME NEW c \in AnyConfig, NEW s
  PROVE  ReadNew(NewRecord(c, s)) = c
BY DEF AnyConfig, ReadNew, NewRecord

\* A record with its own CRC is accepted as one of today's layout, before any other.
LEMMA WholeAccepted ==
  ASSUME NEW c \in AnyConfig
  PROVE  Found(NewRecord(c, Sum(c)), {}) = "new"
<1> DEFINE i == NewRecord(c, Sum(c))
<1>1. ReadNew(i) = c
  BY ReadWritten
<1>2. i.core \in Core /\ i.mode \in Mode /\ i.devices \in Devices /\ i.more \in Part
  BY DEF AnyConfig, NewRecord
<1>3. i.crc = Sum(c)
  BY DEF NewRecord
<1>4. NewValid(i)
  BY <1>1, <1>2, <1>3 DEF NewValid
<1>5. Accepts(i, "new")
  BY <1>4 DEF Accepts
<1> QED
  BY <1>5 DEF Found, Layout

\* What Found returns has been accepted.
LEMMA FoundAccepts ==
  ASSUME NEW i, NEW failed
  PROVE  LET l == Found(i, failed) IN
           l = "none" \/ (l \in Layout /\ Accepts(i, l))
BY DEF Found, Layout

\* Each layout accepts by its own check.
LEMMA AcceptedValid ==
  ASSUME NEW i
  PROVE  /\ Accepts(i, "new") <=> NewValid(i)
         /\ Accepts(i, "v5") <=> V5Valid(i)
         /\ Accepts(i, "v4") <=> V4Valid(i)
         /\ Accepts(i, "legacy") <=> LegacyValid(i)
BY DEF Accepts

\* Settings can be stored with any CRC, on top of any other record.
LEMMA RecordTyped ==
  ASSUME NEW c \in AnyConfig, NEW s \in Sums \cup {Zeros, Erased}
  PROVE  NewRecord(c, s) \in Image /\ NewRecord(c, s).net # Erased
BY ConstantsAssumption DEF AnyConfig, NewRecord, Image, NetBytes, Part, Tables, Text, Erased, Zeros

\* Settings and the defaults are among what a record may be read as.
LEMMA ConfigsTyped ==
  /\ Config \subseteq AnyConfig /\ Default \in Config
BY ConstantsAssumption DEF Config, AnyConfig, Default, Wifi, NetBytes, Part, NoWifi, Devices

\* What a boot reads under the layout it accepts are settings.
LEMMA ReadTyped ==
  ASSUME NEW i \in Image, i.net = Erased => i.mode = "ff",
         NEW l \in Layout, Accepts(i, l)
  PROVE  Read(i, l) \in AnyConfig
<1>0. NoWifi \in NetBytes \X Part /\ Zeros \in Devices
  BY DEF NoWifi, NetBytes, Part, Devices
<1>1. CASE l = "new"
  <2>1. NewValid(i)
    BY <1>1, AcceptedValid
  <2>2. i.net \in NetBytes
    BY <2>1, ConstantsAssumption DEF NewValid, Image
  <2> QED
    BY <1>1, <2>1, <2>2 DEF Read, ReadNew, NewValid, AnyConfig
<1>2. CASE l = "v5"
  <2>1. V5Valid(i)
    BY <1>2, AcceptedValid
  <2> QED
    BY <1>0, <1>2, <2>1 DEF Read, ReadV5, V5Valid, AnyConfig
<1>3. CASE l = "v4"
  <2>1. V4Valid(i)
    BY <1>3, AcceptedValid
  <2> QED
    BY <1>0, <1>3, <2>1 DEF Read, ReadV4, V4Valid, LegacyValid, AnyConfig
<1>4. CASE l = "legacy"
  <2>1. LegacyValid(i)
    BY <1>4, AcceptedValid
  <2> QED
    BY <1>0, <1>4, <2>1, ConstantsAssumption DEF Read, ReadLegacy, ReadV4, LegacyValid, AnyConfig
<1> QED
  BY <1>1, <1>2, <1>3, <1>4 DEF Layout

\* A page write takes the EEPROM from a record to a record.
LEMMA WrittenTyped ==
  ASSUME TypeOK, NEW p \in 1 .. 5
  PROVE  /\ Written(image, p) \in Image
         /\ Written(image, p).net = Erased => Written(image, p).mode = "ff"
         /\ Written(image, p).crc \in wholes \cup {Zeros, Erased}
<1> DEFINE r == NewRecord(active, crc)
<1>1. r \in Image /\ r.net # Erased /\ r.crc \in wholes \cup {Zeros}
  <2>1. crc \in Sums \cup {Zeros, Erased} /\ active \in AnyConfig
    BY DEF TypeOK
  <2>2. r.crc = crc
    BY DEF NewRecord
  <2> QED
    BY <2>1, <2>2, RecordTyped DEF TypeOK
<1>2. image \in Image /\ (image.net = Erased => image.mode = "ff")
      /\ image.crc \in wholes \cup {Zeros, Erased}
  BY DEF TypeOK
<1> HIDE DEF r
<1>3. CASE p = 1
  <2>1. Written(image, p) = [image EXCEPT !.core = r.core]
    BY <1>3 DEF Written, r
  <2> QED
    BY <1>1, <1>2, <2>1 DEF Image
<1>4. CASE p = 2
  <2>1. Written(image, p) = [image EXCEPT !.mode = r.mode, !.net = r.net]
    BY <1>4 DEF Written, r
  <2> QED
    BY <1>1, <1>2, <2>1 DEF Image
<1>5. CASE p = 3
  <2>1. Written(image, p) = [image EXCEPT !.more = r.more]
    BY <1>5 DEF Written, r
  <2> QED
    BY <1>1, <1>2, <2>1 DEF Image
<1>6. CASE p = 4
  <2>1. Written(image, p) = [image EXCEPT !.devices = r.devices]
    BY <1>6 DEF Written, r
  <2> QED
    BY <1>1, <1>2, <2>1 DEF Image
<1>7. CASE p = 5
  <2>1. Written(image, p) = [image EXCEPT !.crc = r.crc]
    BY <1>7 DEF Written, r
  <2> QED
    BY <1>1, <1>2, <2>1 DEF Image
<1> QED
  BY <1>3, <1>4, <1>5, <1>6, <1>7

\* With text in place of the table or the CRC only today's layout accepts a record.
LEMMA TextNew ==
  ASSUME NEW i, i.net = Text
  PROVE  ~V5Valid(i) /\ ~V4Valid(i) /\ ~LegacyValid(i)
<1>1. ~V5Valid(i)
  <2>1. V5Devices(i) = Erased BY DEF V5Devices
  <2>2. Erased \notin Devices BY ConstantsAssumption DEF Erased, Devices, Tables, Zeros
  <2> QED BY <2>1, <2>2 DEF V5Valid
<1>2. ~LegacyValid(i) /\ ~V4Valid(i)
  <2>1. V4Crc(i) = Text BY ConstantsAssumption DEF V4Crc, Text, Tables
  <2>2. Text \notin {Zeros, SumV4(ReadV4(i))} BY DEF Text, Zeros, SumV4
  <2> QED BY <2>1, <2>2 DEF LegacyValid, V4Valid
<1> QED BY <1>1, <1>2

-----------------------------------------------------------------------------
(* Type correctness, and the EEPROM holding what was saved                 *)

\* The EEPROM of a device that boots for the first time.
LEMMA InitInv == Init => SavedInv
<1> SUFFICES ASSUME Init PROVE SavedInv
  OBVIOUS
<1>0. /\ active = Default /\ crc = Zeros /\ up = FALSE /\ saving = [t \in Thread |-> 0]
      /\ sets = 0 /\ faults = 0
  BY DEF Init
<1>1. active \in AnyConfig /\ crc = Zeros /\ up \in BOOLEAN /\ saving \in [Thread -> 0 .. 6]
      /\ sets \in 0 .. MaxSets /\ faults \in 0 .. MaxFaults
  <2>1. active \in AnyConfig
    BY <1>0, ConfigsTyped
  <2>2. saving \in [Thread -> 0 .. 6]
    BY <1>0
  <2>3. sets \in 0 .. MaxSets /\ faults \in 0 .. MaxFaults
    BY <1>0, ConstantsAssumption
  <2> QED
    BY <1>0, <2>1, <2>2, <2>3
<1>2. CASE image = Blank /\ origin = {} /\ saved = {} /\ wholes = {}
  <2>1. Blank \in Image /\ Blank.mode = "ff" /\ Blank.crc = Erased
    BY DEF Blank, Image
  <2> QED
    BY <1>1, <1>2, <2>1 DEF SavedInv, TypeOK, SavedStored
<1>3. CASE \E o \in Origins :
             /\ image = o.image /\ origin = {o}
             /\ saved = IF o.layout = "new" THEN {o.config} ELSE {}
             /\ wholes = IF o.layout = "new" THEN {Sum(o.config)} ELSE {}
  <2>1. PICK o \in Origins :
             /\ image = o.image /\ origin = {o}
             /\ saved = IF o.layout = "new" THEN {o.config} ELSE {}
             /\ wholes = IF o.layout = "new" THEN {Sum(o.config)} ELSE {}
    BY <1>3
  <2>2. CASE \E c \in Config : o = Origin("new", c, NewRecord(c, Sum(c)))
    <3>1. PICK c \in Config : o = Origin("new", c, NewRecord(c, Sum(c)))
      BY <2>2
    <3>2. c \in AnyConfig /\ Sum(c) \in Sums
      BY ConfigsTyped DEF Sums
    <3>3. o.config = c /\ o.layout = "new" /\ o.calm = TRUE /\ o.image = NewRecord(c, Sum(c))
      BY <3>1 DEF Origin
    <3>4. image \in Image /\ image.net # Erased /\ image.crc = Sum(c)
      BY <2>1, <3>2, <3>3, RecordTyped DEF NewRecord
    <3> QED
      BY <1>1, <2>1, <3>2, <3>3, <3>4 DEF SavedInv, TypeOK, SavedStored
  <2>3. CASE \E c \in Config : o = Origin("v5", c, V5Record(c))
    <3>1. PICK c \in Config : o = Origin("v5", c, V5Record(c))
      BY <2>3
    <3>2. o.config = c /\ o.layout = "v5" /\ o.calm = TRUE /\ o.image = V5Record(c)
      BY <3>1 DEF Origin
    <3>4. V5Record(c) \in Image
      BY DEF V5Record, Image, Config, Devices, NetBytes, Part
    <3>5. V5Record(c).net # Erased /\ V5Record(c).crc = Erased
      BY ConstantsAssumption DEF V5Record, Config, Devices, Tables, Erased, Zeros
    <3> QED
      BY <1>1, <2>1, <3>2, <3>4, <3>5 DEF SavedInv, TypeOK, SavedStored
  <2>4. ASSUME NEW l \in {"v4", "legacy"}, NEW c \in Config, NEW level \in Mode \cup {"high"},
               o = Origin(l, c, V4Record(c.core, level))
        PROVE  SavedInv
    <3>2. o.config = c /\ o.layout # "new" /\ o.calm = TRUE /\ o.image = V4Record(c.core, level)
      BY <2>4 DEF Origin
    <3>4. V4Record(c.core, level) \in Image
      BY DEF V4Record, Image, Config, NetBytes
    <3>5. V4Record(c.core, level).net # Erased /\ V4Record(c.core, level).crc = Erased
      BY DEF V4Record, Erased
    <3> QED
      BY <1>1, <2>1, <3>2, <3>4, <3>5 DEF SavedInv, TypeOK, SavedStored
  <2>5. \A c \in Config : c.mode \in Mode
    BY DEF Config
  <2>6. CASE \E c \in Config : o = Origin("v4", c, V4Record(c.core, c.mode))
    BY <2>4, <2>5, <2>6
  <2>7. CASE \E c \in Config, level \in Mode \cup {"high"} :
               o = Origin("legacy", c, V4Record(c.core, level))
    BY <2>4, <2>7
  <2>8. Old \subseteq Config /\ Oldest \subseteq Config
    BY DEF Old, Oldest
  <2>9. \/ \E c \in Config : o = Origin("new", c, NewRecord(c, Sum(c)))
        \/ \E c \in Old : o = Origin("v5", c, V5Record(c))
        \/ \E c \in Oldest : o = Origin("v4", c, V4Record(c.core, c.mode))
        \/ \E c \in Oldest, level \in Mode \cup {"high"} :
             o = Origin("legacy", c, V4Record(c.core, level))
    BY <2>1 DEF Origins
  <2> QED
    BY <2>2, <2>3, <2>6, <2>7, <2>8, <2>9
<1> QED
  BY <1>2, <1>3 DEF Init

\* A fault is counted within the bound.
LEMMA FaultTyped ==
  ASSUME faults \in 0 .. MaxFaults, NEW n \in Nat, Faulted(n)
  PROVE  faults' \in 0 .. MaxFaults
BY ConstantsAssumption DEF Faulted

\* The record of before the first boot keeps its type.
LEMMA OriginTyped ==
  ASSUME \A o \in origin : o.config \in Config /\ o.calm \in BOOLEAN,
         \/ origin' = origin \/ origin' = {} \/ origin' = Disturbed
  PROVE  (\A o \in origin : o.config \in Config /\ o.calm \in BOOLEAN)'
<1>1. CASE origin' = Disturbed
  <2>1. SUFFICES ASSUME NEW d \in origin' PROVE d.config \in Config /\ d.calm \in BOOLEAN
    OBVIOUS
  <2>2. PICK o \in origin : d = [o EXCEPT !.calm = FALSE]
    BY <1>1, <2>1 DEF Disturbed
  <2> QED
    BY <2>2
<1> QED
  BY <1>1

\* Starting a save keeps everything typed: the new CRC is among the computed ones.
LEMMA StartSaveTyped ==
  ASSUME TypeOK, NEW t \in Thread, NEW c \in AnyConfig, StartSave(t, c)
  PROVE  /\ crc' \in wholes' \cup {Zeros} /\ wholes' \subseteq Sums /\ wholes \subseteq wholes'
         /\ saving' \in [Thread -> 0 .. 6]
<1>1. Sum(c) \in Sums
  BY DEF Sums
<1> QED
  BY <1>1 DEF TypeOK, StartSave

\* Loading changes neither the EEPROM nor what was saved to it.
LEMMA LoadTyped ==
  ASSUME TypeOK, NEW t \in Thread, NEW failed \in SUBSET Layout, Load(t, failed),
         up' \in BOOLEAN
  PROVE  TypeOK'
<1> DEFINE layout == Found(image, failed)
<1>1. Cardinality(failed) \in Nat
  <2>1. IsFiniteSet(Layout)
    <3>1. \A l : IsFiniteSet({l})
      BY FS_Singleton
    <3>2. IsFiniteSet(({"new"} \cup {"v5"}) \cup ({"v4"} \cup {"legacy"}))
      BY <3>1, FS_Union
    <3>3. Layout = ({"new"} \cup {"v5"}) \cup ({"v4"} \cup {"legacy"})
      BY DEF Layout
    <3> QED
      BY <3>2, <3>3
  <2> QED
    BY <2>1, FS_Subset, FS_CardinalityType
<1>2. faults' \in 0 .. MaxFaults
  BY <1>1, FaultTyped DEF Load, TypeOK
<1>3. UNCHANGED <<image, saved, sets>>
  BY DEF Load
<1>4. layout = "none" \/ (layout \in Layout /\ Accepts(image, layout))
  BY FoundAccepts
<1>5. Default \in AnyConfig
  BY ConfigsTyped
<1>6. CASE layout = "none"
  <2>1. /\ (active' = Default /\ crc' = Zeros) \/ UNCHANGED <<active, crc>>
        /\ origin' = {} /\ UNCHANGED <<saving, wholes>>
    BY <1>6 DEF Load
  <2> QED
    BY <1>2, <1>3, <1>5, <2>1 DEF TypeOK
<1>7. CASE layout = "new"
  <2>1. /\ active' = ReadNew(image) /\ crc' = image.crc
        /\ origin' = origin \/ origin' = Disturbed
        /\ UNCHANGED <<saving, wholes>>
    BY <1>7 DEF Load
  <2>2. ReadNew(image) \in AnyConfig
    BY <1>4, <1>7, ReadTyped DEF Read, TypeOK
  <2>3. image.crc # Erased
    BY <1>4, <1>7, AcceptedValid DEF NewValid, Sum, Erased, Zeros
  <2>4. (\A o \in origin : o.config \in Config /\ o.calm \in BOOLEAN)'
    BY <2>1, OriginTyped DEF TypeOK
  <2> QED
    BY <1>2, <1>3, <2>1, <2>2, <2>3, <2>4 DEF TypeOK
<1>8. CASE layout \notin {"none", "new"}
  <2>1. /\ active' = Read(image, layout) /\ StartSave(t, active')
        /\ origin' = origin \/ origin' = Disturbed
    BY <1>8 DEF Load
  <2>2. active' \in AnyConfig
    BY <1>4, <1>8, <2>1, ReadTyped DEF TypeOK
  <2>3. /\ crc' \in wholes' \cup {Zeros} /\ wholes' \subseteq Sums /\ wholes \subseteq wholes'
        /\ saving' \in [Thread -> 0 .. 6]
    BY <2>1, <2>2, StartSaveTyped
  <2>4. (\A o \in origin : o.config \in Config /\ o.calm \in BOOLEAN)'
    BY <2>1, OriginTyped DEF TypeOK
  <2> QED
    BY <1>2, <1>3, <2>2, <2>3, <2>4 DEF TypeOK
<1> QED
  BY <1>6, <1>7, <1>8

\* Every step keeps the types.
LEMMA TypeStep == TypeOK /\ [Next]_vars => TypeOK'
<1> SUFFICES ASSUME TypeOK, [Next]_vars PROVE TypeOK'
  OBVIOUS
<1>1. CASE Boot
  <2>1. up' \in BOOLEAN /\ "boot" \in Thread
    BY <1>1 DEF Boot, Thread
  <2> QED
    BY <1>1, <2>1, LoadTyped DEF Boot
<1>2. CASE DeviceLoad
  <2>1. up' \in BOOLEAN /\ "shell" \in Thread
    BY <1>2 DEF DeviceLoad, Thread, TypeOK
  <2> QED
    BY <1>2, <2>1, LoadTyped DEF DeviceLoad
<1>3. CASE Crash
  <2>1. faults' \in 0 .. MaxFaults
    BY <1>3, FaultTyped DEF Crash, TypeOK
  <2>2. Default \in AnyConfig
    BY ConfigsTyped
  <2>3. (\A o \in origin : o.config \in Config /\ o.calm \in BOOLEAN)'
    BY <1>3, OriginTyped DEF TypeOK, Crash
  <2>4. saving' \in [Thread -> 0 .. 6]
    BY <1>3 DEF Crash
  <2> QED
    BY <1>3, <2>1, <2>2, <2>3, <2>4 DEF Crash, TypeOK
<1>4. ASSUME NEW t \in {"shell", "script"}, Set(t) PROVE TypeOK'
  <2>1. PICK c \in Config :
          active' \in {[active EXCEPT !.core = c.core], [active EXCEPT !.mode = c.mode],
                      [active EXCEPT !.wifi = c.wifi], [active EXCEPT !.devices = c.devices]}
    BY <1>4 DEF Set
  <2>2. c \in AnyConfig
    BY ConfigsTyped
  <2>3. active' \in AnyConfig
    BY <2>1, <2>2 DEF TypeOK, AnyConfig
  <2>4. sets' \in 0 .. MaxSets
    BY <1>4, ConstantsAssumption DEF Set, TypeOK
  <2> QED
    BY <1>4, <2>3, <2>4 DEF Set, TypeOK
<1>5. ASSUME NEW t \in {"shell", "script"}, Reset(t) PROVE TypeOK'
  <2>1. sets' \in 0 .. MaxSets
    BY <1>5, ConstantsAssumption DEF Reset, TypeOK
  <2> QED
    BY <1>5, <2>1, ConfigsTyped DEF Reset, TypeOK
<1>6. ASSUME NEW t \in {"shell", "script"}, Save(t) PROVE TypeOK'
  <2>1. t \in Thread /\ active \in AnyConfig
    BY DEF Thread, TypeOK
  <2>2. /\ crc' \in wholes' \cup {Zeros} /\ wholes' \subseteq Sums /\ wholes \subseteq wholes'
        /\ saving' \in [Thread -> 0 .. 6]
    BY <1>6, <2>1, StartSaveTyped DEF Save
  <2> QED
    BY <1>6, <2>2 DEF Save, TypeOK
<1>7. ASSUME NEW t \in Thread, WritePage(t) PROVE TypeOK'
  <2>1. /\ image' \in Image /\ (image'.net = Erased => image'.mode = "ff")
        /\ image'.crc \in wholes \cup {Zeros, Erased}
    BY <1>7, WrittenTyped DEF WritePage
  <2>2. saving' \in [Thread -> 0 .. 6] /\ saved' \subseteq AnyConfig
    BY <1>7 DEF WritePage, TypeOK
  <2> QED
    BY <1>7, <2>1, <2>2 DEF WritePage, TypeOK, history
<1>8. ASSUME NEW t \in Thread, PageLost(t) PROVE TypeOK'
  <2>1. faults' \in 0 .. MaxFaults
    BY <1>8, FaultTyped DEF PageLost, TypeOK
  <2>2. saving' \in [Thread -> 0 .. 6]
    BY <1>8 DEF PageLost, TypeOK
  <2>3. (\A o \in origin : o.config \in Config /\ o.calm \in BOOLEAN)'
    BY <1>8, OriginTyped DEF TypeOK, PageLost
  <2> QED
    BY <1>8, <2>1, <2>2, <2>3 DEF PageLost, TypeOK
<1>9. ASSUME NEW t \in Thread, PageFails(t) PROVE TypeOK'
  <2>1. faults' \in 0 .. MaxFaults
    BY <1>9, FaultTyped DEF PageFails, TypeOK
  <2>2. /\ image' \in Image /\ (image'.net = Erased => image'.mode = "ff")
        /\ image'.crc \in wholes \cup {Zeros, Erased}
    BY <1>9, WrittenTyped DEF PageFails, TypeOK
  <2>3. saving' \in [Thread -> 0 .. 6] /\ saved' \subseteq AnyConfig /\ up' \in BOOLEAN
    BY <1>9 DEF PageFails, Done, TypeOK
  <2>4. (\A o \in origin : o.config \in Config /\ o.calm \in BOOLEAN)'
    BY <1>9, OriginTyped DEF TypeOK, PageFails
  <2> QED
    BY <1>9, <2>1, <2>2, <2>3, <2>4 DEF PageFails, Done, TypeOK
<1>10. ASSUME NEW t \in Thread, Verify(t) PROVE TypeOK'
  <2>1. saving' \in [Thread -> 0 .. 6] /\ saved' \subseteq AnyConfig /\ up' \in BOOLEAN
    BY <1>10 DEF Verify, Done, TypeOK
  <2> QED
    BY <1>10, <2>1 DEF Verify, Done, TypeOK
<1>11. ASSUME NEW t \in Thread, ReadBackFails(t) PROVE TypeOK'
  <2>1. faults' \in 0 .. MaxFaults
    BY <1>11, FaultTyped DEF ReadBackFails, TypeOK
  <2>2. saving' \in [Thread -> 0 .. 6] /\ up' \in BOOLEAN
    BY <1>11 DEF ReadBackFails, Done, TypeOK
  <2> QED
    BY <1>11, <2>1, <2>2 DEF ReadBackFails, Done, TypeOK
<1>12. CASE UNCHANGED vars
  BY <1>12 DEF vars, history, TypeOK
<1> QED
  BY <1>1, <1>2, <1>3, <1>4, <1>5, <1>6, <1>7, <1>8, <1>9, <1>10, <1>11, <1>12
     DEF Next, ThreadStep

-----------------------------------------------------------------------------
(* What is saved, and what is refused                                      *)

\* Every behaviour keeps every variable in its type.
THEOREM TypeCorrect == Spec => []TypeOK
<1>1. Init => TypeOK
  BY InitInv DEF SavedInv
<1> QED
  BY <1>1, TypeStep, PTL DEF Spec

\* The EEPROM holds what was saved: a step that changes the EEPROM forgets the
\* save, and only a read-back that finds the whole record remembers one.
LEMMA SavedStep == SavedStored /\ [Next]_vars => SavedStored'
<1> SUFFICES ASSUME SavedStored, [Next]_vars PROVE SavedStored'
  OBVIOUS
<1>1. CASE UNCHANGED <<image, saved>>
  BY <1>1 DEF SavedStored
<1>2. CASE saved' = {}
  BY <1>2 DEF SavedStored
<1>3. ASSUME NEW t \in Thread, WritePage(t) \/ PageFails(t) PROVE SavedStored'
  BY <1>1, <1>2, <1>3 DEF WritePage, PageFails
<1>4. ASSUME NEW t \in Thread, Verify(t) PROVE SavedStored'
  BY <1>4 DEF Verify, SavedStored
<1>5. CASE Boot \/ DeviceLoad
  BY <1>1, <1>5 DEF Boot, DeviceLoad, Load
<1>6. ASSUME NEW t \in {"shell", "script"}, Set(t) \/ Reset(t) \/ Save(t) PROVE SavedStored'
  BY <1>1, <1>6 DEF Set, Reset, Save
<1>7. CASE Crash
  BY <1>1, <1>7 DEF Crash
<1>8. ASSUME NEW t \in Thread, PageLost(t) \/ ReadBackFails(t) PROVE SavedStored'
  BY <1>1, <1>2, <1>8 DEF PageLost, ReadBackFails
<1>9. CASE UNCHANGED vars
  BY <1>1, <1>9 DEF vars
<1> QED
  BY <1>3, <1>4, <1>5, <1>6, <1>7, <1>8, <1>9 DEF Next, ThreadStep

\* A save reported ok is what the next boot loads, for any settings, until the
\* EEPROM changes: the record with its own CRC is accepted as it was written.
THEOREM SaveSurvives == Spec => []SavedSurvives
<1>1. Init => SavedStored
  BY InitInv DEF SavedInv
<1>2. TypeOK /\ SavedStored => SavedSurvives
  <2> SUFFICES ASSUME TypeOK, SavedStored, NEW c \in saved
               PROVE  Accepted = "new" /\ Loaded = c
    BY DEF SavedSurvives
  <2>1. c \in AnyConfig /\ image = NewRecord(c, Sum(c))
    BY DEF TypeOK, SavedStored
  <2>2. Accepted = "new"
    BY <2>1, WholeAccepted DEF Accepted
  <2>3. Loaded = ReadNew(image)
    BY <2>2 DEF Loaded, Read
  <2> QED
    BY <2>1, <2>2, <2>3, ReadWritten
<1> QED
  BY <1>1, <1>2, SavedStep, TypeCorrect, PTL DEF Spec

\* With WiFi settings in the EEPROM the older layouts reject the record, and
\* today's accepts it only with the CRC of what it holds, which was once saved.
THEOREM TornRefused == Spec => []WholeOrDefault
<1>1. TypeOK => WholeOrDefault
  <2> SUFFICES ASSUME TypeOK, image.net = Text, image.crc # Zeros, Accepted # "none"
               PROVE  Sum(Loaded) \in wholes
    BY DEF WholeOrDefault
  <2>1. Accepted \in Layout /\ Accepts(image, Accepted)
    BY FoundAccepts DEF Accepted
  <2>2. ~V5Valid(image) /\ ~LegacyValid(image) /\ ~V4Valid(image)
    BY TextNew
  <2>4. Accepted = "new" /\ NewValid(image)
    BY <2>1, <2>2, AcceptedValid DEF Layout
  <2>5. Loaded = ReadNew(image)
    BY <2>4 DEF Loaded, Read
  <2>6. image.crc = Sum(Loaded)
    BY <2>4, <2>5 DEF NewValid
  <2>7. Sum(Loaded) # Erased
    BY DEF Sum, Erased
  <2> QED
    BY <2>6, <2>7 DEF TypeOK
<1> QED
  BY <1>1, TypeCorrect, PTL

-----------------------------------------------------------------------------
(* What a record of an older layout keeps                                  *)

\* What the first boot makes of the record it finds.
Kept(o) == Read(o.image, Found(o.image, {}))

Busy == \E t \in Thread : saving[t] # 0

\* active_config has been loaded.
Live == up \/ saving["boot"] # 0

\* The boot saves before config_init has returned, the others after it.
Turns == IF up THEN saving["boot"] = 0 ELSE saving["shell"] = 0 /\ saving["script"] = 0

\* The pages before the k-th hold what is active.
Agree(k) ==
  /\ k > 1 => image.core = active.core
  /\ k > 2 => image.mode = active.mode /\ image.net = active.wifi[1]
  /\ k > 3 => image.more = active.wifi[2]
  /\ k > 4 => image.devices = active.devices
  /\ k > 5 => image.crc = crc

WholeOf(c) == NewRecord(c, Sum(c))

\* What follows the mode on its page: a table or zeros, or a v4 record's log and CRC.
Bygone(net, core, mode) == net \in Devices \/ net = <<core, mode>>

\* The settings all layouts share are kept, whatever goes wrong: some layout accepts
\* whatever mixture of pages the EEPROM has.
CoreKept(o) ==
  /\ image.core = o.config.core
  /\ image.net = Text => image = WholeOf(o.config)
  /\ image.net # Text => Bygone(image.net, image.core, image.mode)
  /\ Live => /\ active.core = o.config.core
             /\ \/ active = o.config /\ image = WholeOf(o.config)
                \/ image.net # Text /\ Bygone(active.wifi[1], active.core, active.mode)
  /\ Busy => crc = Sum(active)

\* All of it is, if nothing goes wrong: the EEPROM holds the old record or the new
\* one, or the pages of the latter that have been written.
CalmKept(o) == o.calm =>
  /\ o \in Origins
  /\ Live => active = Kept(o)
  /\ ~Busy => image = o.image \/ image = WholeOf(Kept(o))
  /\ \A t \in Thread : Agree(saving[t])

Known(o) == \E p \in Origins : o = p \/ o = [p EXCEPT !.calm = FALSE]

KeepInv == Turns /\ \A o \in origin : Known(o) /\ CoreKept(o) /\ CalmKept(o)

\* The legacy layout accepts a record that has no WiFi settings.
LEMMA BygoneAccepted ==
  ASSUME NEW i, i.core \in Core, Bygone(i.net, i.core, i.mode)
  PROVE  LegacyValid(i)
<1>1. CASE i.net \in Devices
  BY <1>1 DEF Devices, V4Crc, LegacyValid
<1>2. CASE i.net = <<i.core, i.mode>>
  <2>1. i.net \notin Tables BY <1>2 DEF Tables
  <2> QED BY <1>2, <2>1 DEF V4Crc, LegacyValid, SumV4, ReadV4
<1> QED BY <1>1, <1>2 DEF Bygone

\* Whatever accepts a record reads the settings all layouts share at the same place.
LEMMA ReadCore ==
  ASSUME NEW i, NEW l \in Layout
  PROVE  Read(i, l).core = i.core
BY DEF Read, ReadNew, ReadV5, ReadV4, ReadLegacy, Layout

\* A layout that accepts the record, and whose read works, is enough.
LEMMA SomeFound ==
  ASSUME NEW i, NEW failed, NEW l \in Layout \ failed, Accepts(i, l)
  PROVE  Found(i, failed) # "none"
BY DEF Found, Layout

\* The record of before the first boot is read under its own layout, or under v4,
\* and nothing is lost in it but what the layout does not have.
LEMMA OriginKept ==
  ASSUME NEW o \in Origins
  PROVE  /\ Kept(o) \in AnyConfig /\ Kept(o).core = o.config.core
         /\ Kept(o).devices = o.config.devices
         /\ o.layout # "legacy" => Kept(o).mode = o.config.mode
         /\ Found(o.image, {}) # "none"
         /\ Found(o.image, {}) = "new" => o.image = WholeOf(Kept(o))
<1>1. \/ \E c \in Config : o = Origin("new", c, WholeOf(c))
      \/ \E c \in Old : o = Origin("v5", c, V5Record(c))
      \/ \E c \in Oldest : o = Origin("v4", c, V4Record(c.core, c.mode))
      \/ \E c \in Oldest, level \in Mode \cup {"high"} :
           o = Origin("legacy", c, V4Record(c.core, level))
  BY DEF Origins, WholeOf
<1>2. Erased \notin Devices
  BY ConstantsAssumption DEF Erased, Devices, Tables, Zeros
<1>3. CASE \E c \in Config : o = Origin("new", c, WholeOf(c))
  <2>1. PICK c \in Config : o = Origin("new", c, WholeOf(c)) BY <1>3
  <2>2. o.config = c /\ o.image = WholeOf(c) BY <2>1 DEF Origin
  <2>3. c \in AnyConfig BY ConfigsTyped
  <2>4. Found(o.image, {}) = "new" BY <2>2, <2>3, WholeAccepted DEF WholeOf
  <2>5. Kept(o) = ReadNew(o.image) BY <2>4 DEF Kept, Read
  <2>6. Kept(o) = c BY <2>2, <2>3, <2>5, ReadWritten DEF WholeOf
  <2> QED BY <2>2, <2>3, <2>4, <2>6
<1>4. CASE \E c \in Old : o = Origin("v5", c, V5Record(c))
  <2>1. PICK c \in Old : o = Origin("v5", c, V5Record(c)) BY <1>4
  <2>2. o.config = c /\ o.image = V5Record(c) BY <2>1 DEF Origin
  <2>3. c \in Config /\ c.wifi = NoWifi /\ c \in AnyConfig BY ConfigsTyped DEF Old
  <2>4. ~NewValid(V5Record(c)) BY <1>2 DEF NewValid, V5Record
  <2>5. V5Devices(V5Record(c)) = c.devices
    BY <2>3, ConstantsAssumption
       DEF V5Devices, V5Record, Config, Devices, Tables, Text, Erased, Zeros
  <2>6. ReadV5(V5Record(c)) = c
    BY <2>3, <2>5 DEF ReadV5, V5Record, Config
  <2>7. V5Valid(V5Record(c)) BY <2>3, <2>5, <2>6 DEF V5Valid, V5Record, Config
  <2>8. Found(V5Record(c), {}) = "v5"
    BY <2>4, <2>7, AcceptedValid DEF Found, Layout
  <2>9. Kept(o) = c BY <2>2, <2>6, <2>8 DEF Kept, Read
  <2> QED BY <2>2, <2>3, <2>8, <2>9
<1>5. ASSUME NEW c \in Oldest, NEW l \in {"v4", "legacy"}, NEW level \in Mode \cup {"high"},
             o = Origin(l, c, V4Record(c.core, level)), l = "v4" => level = c.mode
      PROVE  /\ Kept(o) \in AnyConfig /\ Kept(o).core = o.config.core
             /\ Kept(o).devices = o.config.devices
             /\ o.layout # "legacy" => Kept(o).mode = o.config.mode
             /\ Found(o.image, {}) \in {"v4", "legacy"}
  <2> DEFINE i == V4Record(c.core, level)
  <2>1. o.config = c /\ o.image = i /\ o.layout = l BY <1>5 DEF Origin
  <2>2. c \in Config /\ c.devices = Zeros /\ c.core \in Core /\ c.mode \in Mode
    BY DEF Oldest, Old, Config
  <2>3. /\ i.core = c.core /\ i.mode = level /\ i.net = <<c.core, level>>
        /\ i.more = Erased /\ i.devices = Erased
    BY DEF V4Record
  <2> HIDE DEF i
  <2>4. ~NewValid(i) BY <1>2, <2>3 DEF NewValid
  <2>5. ~V5Valid(i) BY <2>3 DEF V5Valid, SumV5, Erased, Zeros
  <2>6. LegacyValid(i) BY <2>2, <2>3, BygoneAccepted DEF Bygone
  <2>7. V4Valid(i) <=> level \in Mode BY <2>3, <2>6 DEF V4Valid
  <2>8. Found(i, {}) = IF level \in Mode THEN "v4" ELSE "legacy"
    BY <2>4, <2>5, <2>6, <2>7, AcceptedValid DEF Found, Layout
  <2>9. Kept(o) = IF level \in Mode THEN ReadV4(i) ELSE ReadLegacy(i)
    BY <2>1, <2>8 DEF Kept, Read
  <2>10. NoWifi \in NetBytes \X Part /\ Zeros \in Devices
    BY DEF NoWifi, NetBytes, Part, Devices
  <2>11. /\ Kept(o).core = c.core /\ Kept(o).devices = Zeros
         /\ level \in Mode => Kept(o).mode = level
    BY <2>3, <2>9 DEF ReadV4, ReadLegacy
  <2>12. Kept(o) \in AnyConfig
    BY <2>2, <2>3, <2>9, <2>10, ConstantsAssumption DEF ReadV4, ReadLegacy, AnyConfig
  <2> QED BY <1>5, <2>1, <2>2, <2>8, <2>11, <2>12
<1>6. CASE \E c \in Oldest : o = Origin("v4", c, V4Record(c.core, c.mode))
  <2>1. \A c \in Oldest : c.mode \in Mode BY DEF Oldest, Old, Config
  <2> QED BY <1>5, <1>6, <2>1
<1>7. CASE \E c \in Oldest, level \in Mode \cup {"high"} :
             o = Origin("legacy", c, V4Record(c.core, level))
  BY <1>5, <1>7
<1> QED BY <1>1, <1>3, <1>4, <1>6, <1>7

\* At first nothing is loaded.
LEMMA KeepInit == Init => KeepInv
<1> SUFFICES ASSUME Init PROVE KeepInv OBVIOUS
<1>1. ~up /\ ~Busy /\ ~Live /\ \A t \in Thread : saving[t] = 0
  BY DEF Init, Busy, Live, Thread
<1>2. Turns BY <1>1 DEF Turns, Thread
<1>3. ASSUME NEW o \in origin PROVE Known(o) /\ CoreKept(o) /\ CalmKept(o)
  <2>1. o \in Origins /\ image = o.image BY <1>3 DEF Init
  <2>2. CalmKept(o) BY <1>1, <2>1 DEF CalmKept, Agree
  <2>3. image.core = o.config.core
        /\ (image.net = Text => image = WholeOf(o.config))
        /\ (image.net # Text => Bygone(image.net, image.core, image.mode))
    <3>1. \/ \E c \in Config : o = Origin("new", c, WholeOf(c))
          \/ \E c \in Old : o = Origin("v5", c, V5Record(c))
          \/ \E c \in Oldest : o = Origin("v4", c, V4Record(c.core, c.mode))
          \/ \E c \in Oldest, level \in Mode \cup {"high"} :
               o = Origin("legacy", c, V4Record(c.core, level))
      BY <2>1 DEF Origins, WholeOf
    <3>2. CASE \E c \in Config : o = Origin("new", c, WholeOf(c))
      <4>1. PICK c \in Config : o = Origin("new", c, WholeOf(c)) BY <3>2
      <4>2. o.config = c /\ image = WholeOf(c) BY <2>1, <4>1 DEF Origin
      <4>3. image.net \in Part /\ image.core = c.core
        BY <4>2 DEF WholeOf, NewRecord, Config, Wifi, Part
      <4> QED BY <4>2, <4>3 DEF Part, Bygone, Devices
    <3>3. CASE \E c \in Old : o = Origin("v5", c, V5Record(c))
      <4>1. PICK c \in Old : o = Origin("v5", c, V5Record(c)) BY <3>3
      <4>2. o.config = c /\ image = V5Record(c) BY <2>1, <4>1 DEF Origin
      <4>3. image.net \in Devices /\ image.core = c.core BY <4>2 DEF V5Record, Old, Config
      <4>4. Text \notin Devices BY ConstantsAssumption DEF Text, Devices, Tables, Zeros
      <4> QED BY <4>2, <4>3, <4>4 DEF Bygone
    <3>4. ASSUME NEW c, NEW l, NEW level, o = Origin(l, c, V4Record(c.core, level))
          PROVE  /\ image.core = o.config.core /\ image.net # Text
                 /\ Bygone(image.net, image.core, image.mode)
      BY <2>1, <3>4 DEF Origin, V4Record, Bygone, Text
    <3> QED BY <3>1, <3>2, <3>3, <3>4
  <2>4. CoreKept(o) BY <1>1, <2>3 DEF CoreKept
  <2> QED BY <2>1, <2>2, <2>4 DEF Known
<1> QED BY <1>2, <1>3 DEF KeepInv

\* A known record has its fields.
LEMMA KnownFields ==
  ASSUME NEW o, Known(o)
  PROVE  LET d == [o EXCEPT !.calm = FALSE] IN
           Known(d) /\ d.config = o.config /\ ~d.calm
<1>1. PICK p \in Origins : o = p \/ o = [p EXCEPT !.calm = FALSE] BY DEF Known
<1>2. PICK l, c, i : p = Origin(l, c, i) BY DEF Origins
<1> DEFINE d == [o EXCEPT !.calm = FALSE]
<1>3. d = [p EXCEPT !.calm = FALSE] /\ d.config = o.config /\ ~d.calm
  BY <1>1, <1>2 DEF Origin
<1> QED BY <1>3 DEF Known

\* It is enough to look at the records as they were before the step.
LEMMA KeepFrom ==
  ASSUME KeepInv, Turns', \/ origin' = origin \/ origin' = {} \/ origin' = Disturbed,
         \A o \in origin : origin' # {} => CoreKept(o)',
         \A o \in origin : origin' = origin => CalmKept(o)'
  PROVE  KeepInv'
<1>1. CASE origin' = origin BY <1>1 DEF KeepInv
<1>2. CASE origin' = {} BY <1>2 DEF KeepInv
<1>3. CASE origin' = Disturbed
  <2>1. SUFFICES ASSUME NEW d \in origin' PROVE Known(d) /\ CoreKept(d)' /\ CalmKept(d)'
    BY DEF KeepInv
  <2>2. PICK o \in origin : d = [o EXCEPT !.calm = FALSE] BY <1>3, <2>1 DEF Disturbed
  <2>3. Known(d) /\ d.config = o.config /\ ~d.calm BY <2>2, KnownFields DEF KeepInv
  <2>4. CoreKept(o)' BY <2>1, <2>2
  <2>5. CoreKept(d)' BY <2>3, <2>4 DEF CoreKept
  <2> QED BY <2>3, <2>5 DEF CalmKept
<1> QED BY <1>1, <1>2, <1>3

\* Text is none of the other bytes.
LEMMA TextApart ==
  ASSUME NEW core, NEW mode
  PROVE  ~Bygone(Text, core, mode)
BY ConstantsAssumption DEF Bygone, Text, Devices, Tables, Zeros

\* What the steps that change neither the record nor the settings keep.
LEMMA CoreSame ==
  ASSUME NEW o, CoreKept(o), UNCHANGED <<image, active, crc>>, Live' => Live, Busy' => Busy
  PROVE  CoreKept(o)'
BY DEF CoreKept

\* A page that is written keeps a record some layout accepts.
LEMMA CoreWrite ==
  ASSUME TypeOK, NEW o, CoreKept(o), Live, Busy, NEW p \in 1 .. 5,
         image' = Written(image, p), UNCHANGED <<active, crc>>
  PROVE  CoreKept(o)'
<1>1. crc = Sum(active) /\ active.core = o.config.core /\ image.core = o.config.core
  BY DEF CoreKept
<1>2. CASE active = o.config /\ image = WholeOf(o.config)
  <2>1. image = NewRecord(active, crc) BY <1>1, <1>2 DEF WholeOf
  <2>2. p \in {1, 2, 3, 4, 5} OBVIOUS
  <2>3. image' = image BY <2>1, <2>2 DEF Written, NewRecord
  <2> QED BY <1>1, <1>2, <2>3 DEF CoreKept
<1>3. CASE image.net # Text /\ Bygone(active.wifi[1], active.core, active.mode)
  <2>1. Bygone(image.net, image.core, image.mode) BY <1>3 DEF CoreKept
  <2>2. active.wifi[1] # Text BY <1>3, TextApart
  <2>3. image \in Image BY DEF TypeOK
  <2>4. image'.core = image.core
    BY <1>1, <2>3 DEF Written, NewRecord, Image
  <2>5. \/ image'.net = image.net /\ image'.mode = image.mode
        \/ image'.net = active.wifi[1] /\ image'.mode = active.mode
    BY <2>3 DEF Written, NewRecord, Image
  <2>6. image'.net # Text /\ Bygone(image'.net, image'.core, image'.mode)
    BY <1>1, <1>3, <2>1, <2>2, <2>4, <2>5
  <2> QED BY <1>1, <1>3, <2>4, <2>6 DEF CoreKept
<1> QED BY <1>2, <1>3 DEF CoreKept

\* Pages that hold what is active go on holding it when another one is written.
LEMMA AgreeWritten ==
  ASSUME TypeOK, NEW p \in 1 .. 5, image' = Written(image, p), UNCHANGED <<active, crc>>
  PROVE  /\ \A k \in 0 .. 6 : Agree(k) => Agree(k)'
         /\ Agree(p) => Agree(p + 1)'
<1>1. image \in Image BY DEF TypeOK
<1>2. /\ image'.core = IF p = 1 THEN active.core ELSE image.core
      /\ image'.mode = IF p = 2 THEN active.mode ELSE image.mode
      /\ image'.net = IF p = 2 THEN active.wifi[1] ELSE image.net
      /\ image'.more = IF p = 3 THEN active.wifi[2] ELSE image.more
      /\ image'.devices = IF p = 4 THEN active.devices ELSE image.devices
      /\ image'.crc = IF p = 5 THEN crc ELSE image.crc
  BY <1>1 DEF Written, NewRecord, Image
<1> QED BY <1>2 DEF Agree

\* When all pages hold it, the record is whole.
LEMMA AgreeWhole ==
  ASSUME TypeOK, Agree(6), crc = Sum(active)
  PROVE  image = WholeOf(active)
<1>1. image \in Image BY DEF TypeOK
<1>2. /\ image.core = active.core /\ image.mode = active.mode /\ image.net = active.wifi[1]
      /\ image.more = active.wifi[2] /\ image.devices = active.devices /\ image.crc = crc
  BY DEF Agree
<1> QED BY <1>1, <1>2 DEF WholeOf, NewRecord, Image

\* A thread saves only what has been loaded.
LEMMA BusyLive ==
  ASSUME Turns
  PROVE  Busy => Live
BY DEF Turns, Busy, Live, Thread

\* Loading takes from the EEPROM what it holds of the record, or nothing.
LEMMA LoadKeeps ==
  ASSUME TypeOK, KeepInv, ~Busy, NEW t \in {"boot", "shell"}, NEW failed \in SUBSET Layout,
         Load(t, failed), Turns'
  PROVE  KeepInv'
<1> DEFINE layout == Found(image, failed)
<1>1. image' = image /\ (layout = "none" \/ (layout \in Layout /\ Accepts(image, layout)))
  BY FoundAccepts DEF Load
<1>2. \A u \in Thread : saving[u] = 0 BY DEF Busy
<1>3. CASE layout = "none"
  <2>1. origin' = {} BY <1>3 DEF Load
  <2> QED BY <2>1, KeepFrom
<1>4. CASE layout = "new"
  <2>1. /\ active' = ReadNew(image) /\ crc' = image.crc /\ saving' = saving
        /\ origin' = IF failed = {} THEN origin ELSE Disturbed
    BY <1>4 DEF Load
  <2>2. ~Busy' BY <1>2, <2>1 DEF Busy
  <2>3. ASSUME NEW o \in origin PROVE CoreKept(o)'
    <3>1. CoreKept(o) /\ o.config \in AnyConfig BY ConfigsTyped DEF KeepInv, TypeOK
    <3>2. active'.core = image.core /\ active'.mode = image.mode /\ active'.wifi[1] = image.net
      BY <2>1 DEF ReadNew
    <3>3. CASE image.net = Text
      <4>1. image = WholeOf(o.config) BY <3>1, <3>3 DEF CoreKept
      <4>2. active' = o.config BY <2>1, <3>1, <4>1, ReadWritten DEF WholeOf
      <4> QED BY <1>1, <2>2, <3>1, <3>3, <4>1, <4>2 DEF CoreKept
    <3>4. CASE image.net # Text
      BY <1>1, <2>2, <3>1, <3>2, <3>4 DEF CoreKept
    <3> QED BY <3>3, <3>4
  <2>4. ASSUME NEW o \in origin, origin' = origin, failed = {} PROVE CalmKept(o)'
    <3> SUFFICES ASSUME o.calm PROVE CalmKept(o)' BY DEF CalmKept
    <3>1. o \in Origins /\ (image = o.image \/ image = WholeOf(Kept(o)))
      BY DEF KeepInv, CalmKept
    <3>2. Kept(o) \in AnyConfig /\ image = WholeOf(Kept(o)) BY <1>4, <2>4, <3>1, OriginKept
    <3>3. active' = Kept(o) BY <2>1, <3>2, ReadWritten DEF WholeOf
    <3>4. \A u \in Thread : Agree(saving[u])' BY <1>2, <2>1 DEF Agree
    <3> QED BY <1>1, <3>1, <3>2, <3>3, <3>4 DEF CalmKept
  <2>5. ASSUME origin' = origin, failed # {} PROVE \A o \in origin : ~o.calm
    BY <2>1, <2>5, KnownFields DEF Disturbed, KeepInv
  <2>6. ASSUME NEW o \in origin, origin' = origin PROVE CalmKept(o)'
    BY <2>4, <2>5, <2>6 DEF CalmKept
  <2> QED BY <2>1, <2>3, <2>6, KeepFrom
<1>5. CASE layout \notin {"none", "new"}
  <2>1. /\ active' = Read(image, layout) /\ StartSave(t, active')
        /\ origin' = IF failed = {} THEN origin ELSE Disturbed
    BY <1>5 DEF Load
  <2>2. layout \in {"v5", "v4", "legacy"} BY <1>1, <1>5 DEF Layout
  <2>3. active'.core = image.core /\ active'.wifi = NoWifi
    BY <2>1, <2>2 DEF Read, ReadV5, ReadV4, ReadLegacy
  <2>4. image.net # Text BY <1>1, <2>2, TextNew, AcceptedValid
  <2>5. crc' = Sum(active') /\ saving' = [saving EXCEPT ![t] = 1] BY <2>1 DEF StartSave
  <2>6. Bygone(active'.wifi[1], active'.core, active'.mode)
    BY <2>3 DEF NoWifi, Bygone, Devices
  <2>7. ASSUME NEW o \in origin PROVE CoreKept(o)'
    <3>1. CoreKept(o) BY DEF KeepInv
    <3> QED BY <1>1, <2>3, <2>4, <2>5, <2>6, <3>1 DEF CoreKept
  <2>8. ASSUME NEW o \in origin, failed = {} PROVE CalmKept(o)'
    <3> SUFFICES ASSUME o.calm PROVE CalmKept(o)' BY DEF CalmKept
    <3>1. o \in Origins /\ (image = o.image \/ image = WholeOf(Kept(o)))
      BY DEF KeepInv, CalmKept
    <3>2. image = o.image BY <1>5, <2>8, <3>1, OriginKept, WholeAccepted DEF WholeOf
    <3>3. active' = Kept(o) BY <2>1, <2>8, <3>2 DEF Kept
    <3>4. t \in Thread /\ saving \in [Thread -> 0 .. 6] BY DEF Thread, TypeOK
    <3>5. saving'[t] # 0 /\ \A u \in Thread : saving'[u] \in {0, 1} BY <1>2, <2>5, <3>4
    <3>6. Busy' BY <3>4, <3>5 DEF Busy
    <3>7. \A u \in Thread : Agree(saving[u])' BY <3>5 DEF Agree
    <3> QED BY <3>1, <3>3, <3>6, <3>7 DEF CalmKept
  <2>9. ASSUME origin' = origin, failed # {} PROVE \A o \in origin : ~o.calm
    BY <2>1, <2>9, KnownFields DEF Disturbed, KeepInv
  <2>10. ASSUME NEW o \in origin, origin' = origin PROVE CalmKept(o)'
    BY <2>8, <2>9, <2>10 DEF CalmKept
  <2> QED BY <2>1, <2>7, <2>10, KeepFrom
<1> QED BY <1>3, <1>4, <1>5

\* Saving writes what has been loaded.
LEMMA SavingKeeps ==
  ASSUME TypeOK, KeepInv, NEW t \in Thread, ThreadStep(t), Turns'
  PROVE  KeepInv'
<1>1. t \in Thread /\ saving[t] \in 1 .. 6
  BY DEF ThreadStep, WritePage, PageLost, PageFails, Verify, ReadBackFails
<1>2. Busy /\ Live /\ \A u \in Thread : saving[u] \in 0 .. 6
  BY <1>1, BusyLive DEF Busy, KeepInv, TypeOK
<1>3. saving \in [Thread -> 0 .. 6] BY DEF TypeOK
<1>4. active' = active /\ crc' = crc
  BY DEF ThreadStep, WritePage, PageLost, PageFails, Verify, ReadBackFails, Done
<1>5. CASE WritePage(t)
  <2>1. /\ image' = Written(image, saving[t]) /\ origin' = origin /\ up' = up
        /\ saving' = [saving EXCEPT ![t] = @ + 1] /\ saving[t] \in 1 .. 5
    BY <1>5 DEF WritePage, history
  <2>2. ASSUME NEW o \in origin PROVE CoreKept(o)'
    BY <1>2, <1>4, <2>1, CoreWrite DEF KeepInv
  <2>3. ASSUME NEW o \in origin PROVE CalmKept(o)'
    <3> SUFFICES ASSUME o.calm PROVE CalmKept(o)' BY DEF CalmKept
    <3>1. o \in Origins /\ active = Kept(o) /\ \A u \in Thread : Agree(saving[u])
      BY <1>2 DEF KeepInv, CalmKept
    <3>2. saving'[t] = saving[t] + 1 /\ \A u \in Thread : u # t => saving'[u] = saving[u]
      BY <1>1, <1>3, <2>1
    <3>3. Busy' BY <2>1, <3>2 DEF Busy
    <3>4. /\ \A k \in 0 .. 6 : Agree(k) => Agree(k)'
          /\ \A p \in 1 .. 5 : p = saving[t] /\ Agree(p) => Agree(p + 1)'
      BY <1>4, <2>1, AgreeWritten
    <3>5. ASSUME NEW u \in Thread PROVE Agree(saving[u])'
      <4>1. CASE u = t
        <5>1. PICK p \in 1 .. 5 : p = saving[t] BY <2>1
        <5>2. Agree(p + 1)' BY <3>1, <3>4, <5>1
        <5>3. saving'[u] = p + 1 BY <3>2, <4>1, <5>1
        <5> QED BY <5>2, <5>3 DEF Agree
      <4>2. CASE u # t
        <5>1. saving'[u] = saving[u] /\ saving[u] \in 0 .. 6 BY <1>2, <3>2, <4>2
        <5>2. Agree(saving[u])
          BY <3>1
        <5>3. \A k \in 0 .. 6 : k = saving[u] => Agree(k)' BY <3>4, <5>2
        <5> QED BY <5>1, <5>3 DEF Agree
      <4> QED BY <4>1, <4>2
    <3> QED BY <1>4, <3>1, <3>3, <3>5 DEF CalmKept
  <2> QED BY <2>1, <2>2, <2>3, KeepFrom
<1>6. CASE PageLost(t)
  <2>1. image' = image /\ origin' = Disturbed BY <1>6 DEF PageLost
  <2>2. ASSUME NEW o \in origin PROVE CoreKept(o)'
    BY <1>2, <1>4, <2>1, CoreSame DEF KeepInv
  <2>3. origin' = origin => \A o \in origin : ~o.calm BY <2>1, KnownFields DEF Disturbed, KeepInv
  <2> QED BY <2>1, <2>2, <2>3, KeepFrom DEF CalmKept
<1>7. CASE PageFails(t)
  <2>1. (image' = image \/ image' = Written(image, saving[t])) /\ saving[t] \in 1 .. 5
        /\ origin' = Disturbed
    BY <1>7 DEF PageFails
  <2>2. ASSUME NEW o \in origin PROVE CoreKept(o)'
    BY <1>2, <1>4, <2>1, CoreSame, CoreWrite DEF KeepInv
  <2>3. origin' = origin => \A o \in origin : ~o.calm BY <2>1, KnownFields DEF Disturbed, KeepInv
  <2> QED BY <2>1, <2>2, <2>3, KeepFrom DEF CalmKept
<1>8. CASE Verify(t) \/ ReadBackFails(t)
  <2>1. image' = image /\ origin' = origin /\ saving' = [saving EXCEPT ![t] = 0] /\ saving[t] = 6
    BY <1>8 DEF Verify, ReadBackFails, Done
  <2>2. ASSUME NEW o \in origin PROVE CoreKept(o)'
    BY <1>2, <1>4, <2>1, CoreSame DEF KeepInv
  <2>3. ASSUME NEW o \in origin PROVE CalmKept(o)'
    <3> SUFFICES ASSUME o.calm PROVE CalmKept(o)' BY DEF CalmKept
    <3>1. o \in Origins /\ active = Kept(o) /\ \A u \in Thread : Agree(saving[u])
      BY <1>2 DEF KeepInv, CalmKept
    <3>2. image = WholeOf(Kept(o))
      <4>1. crc = Sum(active) BY <1>2 DEF KeepInv, CoreKept
      <4>2. Agree(6) BY <2>1, <3>1
      <4> QED BY <3>1, <4>1, <4>2, AgreeWhole
    <3>3. ASSUME NEW u \in Thread PROVE Agree(saving[u])'
      <4>1. Agree(saving[u]) BY <3>1
      <4>2. saving'[u] = 0 \/ saving'[u] = saving[u] BY <1>3, <2>1
      <4> QED BY <1>4, <2>1, <4>1, <4>2 DEF Agree
    <3> QED BY <1>4, <2>1, <3>1, <3>2, <3>3 DEF CalmKept
  <2> QED BY <2>1, <2>2, <2>3, KeepFrom
<1> QED BY <1>5, <1>6, <1>7, <1>8 DEF ThreadStep

\* Whose turn it is.
LEMMA TurnsStep ==
  ASSUME TypeOK, Turns, [Next]_vars
  PROVE  Turns'
<1>s. saving \in [Thread -> 0 .. 6] /\ up \in BOOLEAN BY DEF TypeOK
<1>1. CASE Boot
  <2>1. PICK failed \in SUBSET Layout : Load("boot", failed) BY <1>1 DEF Boot
  <2>2. saving' = saving \/ saving' = [saving EXCEPT !["boot"] = 1]
    BY <2>1 DEF Load, StartSave
  <2>3. saving'["shell"] = saving["shell"] /\ saving'["script"] = saving["script"]
    BY <1>s, <2>2 DEF Thread
  <2>4. ~up /\ up' = (saving'["boot"] = 0) BY <1>1 DEF Boot
  <2> QED BY <2>3, <2>4 DEF Turns
<1>2. CASE DeviceLoad
  <2>1. PICK failed \in SUBSET Layout : Load("shell", failed) BY <1>2 DEF DeviceLoad
  <2>2. saving' = saving \/ saving' = [saving EXCEPT !["shell"] = 1]
    BY <2>1 DEF Load, StartSave
  <2>3. saving'["boot"] = saving["boot"] BY <1>s, <2>2 DEF Thread
  <2> QED BY <1>2, <2>3 DEF Turns, DeviceLoad
<1>3. CASE Crash BY <1>3 DEF Crash, Turns, Thread
<1>4. ASSUME NEW t \in {"shell", "script"}, Set(t) \/ Reset(t) \/ Save(t) PROVE Turns'
  <2>1. up /\ up' = up /\ saving'["boot"] = saving["boot"]
    BY <1>s, <1>4 DEF Set, Reset, Save, StartSave, Thread
  <2> QED BY <2>1 DEF Turns
<1>5. ASSUME NEW t \in Thread, ThreadStep(t) PROVE Turns'
  <2>1. Turn(t) /\ saving[t] \in 1 .. 6
    BY <1>5 DEF ThreadStep, WritePage, PageLost, PageFails, Verify, ReadBackFails
  <2>2. \A u \in Thread : u # t => saving'[u] = saving[u]
    BY <1>s, <1>5 DEF ThreadStep, WritePage, PageLost, PageFails, Verify, ReadBackFails, Done
  <2>3. CASE up' = up
    <3>1. t = "boot" <=> ~up BY <2>1 DEF Turn, Turns
    <3> QED BY <2>2, <2>3, <3>1 DEF Turns, Thread
  <2>4. CASE up' # up
    <3>1. t = "boot" /\ up' /\ saving'["boot"] = 0
      BY <1>s, <1>5, <2>4 DEF ThreadStep, WritePage, PageLost, PageFails, Verify, ReadBackFails,
                              Done, history, Thread
    <3> QED BY <3>1 DEF Turns
  <2> QED BY <2>3, <2>4
<1>6. CASE UNCHANGED vars BY <1>6 DEF vars, Turns
<1> QED BY <1>1, <1>2, <1>3, <1>4, <1>5, <1>6 DEF Next

\* Every step keeps what the record of before the first boot had.
LEMMA KeepStep == TypeOK /\ KeepInv /\ [Next]_vars => KeepInv'
<1> SUFFICES ASSUME TypeOK, KeepInv, [Next]_vars PROVE KeepInv' OBVIOUS
<1>t. Turns' BY TurnsStep DEF KeepInv
<1>1. CASE Boot
  <2>1. ~Busy BY <1>1 DEF Boot, KeepInv, Turns, Busy, Thread
  <2> QED BY <1>t, <1>1, <2>1, LoadKeeps DEF Boot
<1>2. CASE DeviceLoad
  <2>1. ~Busy BY <1>2 DEF DeviceLoad, Idle, Turn, KeepInv, Turns, Busy, Thread
  <2> QED BY <1>t, <1>2, <2>1, LoadKeeps DEF DeviceLoad
<1>3. CASE Crash
  <2>1. ~Busy' /\ ~Live' /\ image' = image /\ \A u \in Thread : saving'[u] = 0
    BY <1>3 DEF Crash, Busy, Live, Thread
  <2>2. ASSUME NEW o \in origin PROVE CoreKept(o)' BY <2>1 DEF KeepInv, CoreKept
  <2>3. CASE Busy
    <3>1. origin' = Disturbed BY <1>3, <2>3 DEF Crash, Busy
    <3>2. origin' = origin => \A o \in origin : ~o.calm BY <3>1, KnownFields DEF Disturbed, KeepInv
    <3> QED BY <1>t, <2>2, <3>1, <3>2, KeepFrom DEF CalmKept
  <2>4. CASE ~Busy
    <3>1. origin' = origin BY <1>3, <2>4 DEF Crash, Busy
    <3>2. ASSUME NEW o \in origin PROVE CalmKept(o)'
      BY <2>1, <2>4 DEF KeepInv, CalmKept, Agree
    <3> QED BY <1>t, <2>2, <3>1, <3>2, KeepFrom
  <2> QED BY <2>3, <2>4
<1>4. ASSUME NEW t \in {"shell", "script"}, Set(t) \/ Reset(t) PROVE KeepInv'
  BY <1>t, <1>4, KeepFrom DEF Set, Reset
<1>5. ASSUME NEW t \in {"shell", "script"}, Save(t) PROVE KeepInv'
  <2>0. t \in Thread /\ saving \in [Thread -> 0 .. 6] BY DEF Thread, TypeOK
  <2>1. /\ up /\ saving[t] = 0 /\ crc' = Sum(active) /\ saving' = [saving EXCEPT ![t] = 1]
        /\ UNCHANGED <<image, active, up, origin>>
    BY <1>5 DEF Save, Idle, StartSave
  <2>2. Live /\ Busy'
    BY <2>0, <2>1 DEF Live, Busy
  <2>3. ASSUME NEW o \in origin PROVE CoreKept(o)' BY <2>1, <2>2 DEF KeepInv, CoreKept
  <2>4. ASSUME NEW o \in origin PROVE CalmKept(o)'
    <3> SUFFICES ASSUME o.calm PROVE CalmKept(o)' BY DEF CalmKept
    <3>1. o \in Origins /\ active = Kept(o) /\ \A u \in Thread : Agree(saving[u])
      BY <2>2 DEF KeepInv, CalmKept
    <3>2. ASSUME NEW u \in Thread PROVE Agree(saving[u])'
      <4>1. CASE u = t
        <5>1. saving'[u] = 1 BY <2>0, <2>1, <4>1
        <5> QED BY <5>1 DEF Agree
      <4>2. CASE u # t
        <5>1. saving'[u] = saving[u] BY <2>0, <2>1, <4>2
        <5>2. saving[u] # 0 => crc' = crc BY <2>1 DEF KeepInv, CoreKept, Busy
        <5>3. Agree(saving[u]) BY <3>1
        <5> QED BY <2>1, <5>1, <5>2, <5>3 DEF Agree
      <4> QED BY <4>1, <4>2
    <3> QED BY <2>1, <2>2, <3>1, <3>2 DEF CalmKept
  <2> QED BY <1>t, <2>1, <2>3, <2>4, KeepFrom
<1>6. ASSUME NEW t \in Thread, ThreadStep(t) PROVE KeepInv' BY <1>t, <1>6, SavingKeeps
<1>7. CASE UNCHANGED vars
  BY <1>7 DEF vars, history, KeepInv, Turns, CoreKept, CalmKept, Live, Busy, Agree
<1> QED BY <1>1, <1>2, <1>3, <1>4, <1>5, <1>6, <1>7 DEF Next

\* A record of any layout is accepted by some layout, and keeps the settings all
\* layouts share, through its migration and any resets and faults in it; and if
\* nothing goes wrong its devices and, but for a legacy record, its network mode.
THEOREM MigrationKept == Spec => []MigrationKeeps
<1>1. TypeOK /\ KeepInv => MigrationKeeps
  <2> SUFFICES ASSUME TypeOK, KeepInv, NEW o \in origin
               PROVE  /\ Accepted # "none" /\ Loaded.core = o.config.core
                      /\ (up /\ o.calm) => /\ active.core = o.config.core
                                           /\ active.devices = o.config.devices
                      /\ (up /\ o.calm /\ o.layout # "legacy") => active.mode = o.config.mode
    BY DEF MigrationKeeps
  <2>1. CoreKept(o) /\ CalmKept(o) /\ o.config \in Config /\ o.config \in AnyConfig
    BY ConfigsTyped DEF KeepInv, TypeOK
  <2>2. Accepted # "none"
    <3>1. CASE image.net = Text
      BY <2>1, <3>1, WholeAccepted DEF CoreKept, WholeOf, Accepted
    <3>2. CASE image.net # Text
      <4>1. image.core \in Core BY <2>1 DEF CoreKept, Config
      <4>2. LegacyValid(image) BY <2>1, <3>2, <4>1, BygoneAccepted DEF CoreKept
      <4> QED BY <4>2, AcceptedValid, SomeFound DEF Accepted, Layout
    <3> QED BY <3>1, <3>2
  <2>3. Accepted \in Layout BY <2>2, FoundAccepts DEF Accepted
  <2>4. Loaded.core = o.config.core BY <2>1, <2>3, ReadCore DEF Loaded, CoreKept
  <2>5. ASSUME up, o.calm PROVE o \in Origins /\ active = Kept(o)
    BY <2>1, <2>5 DEF CalmKept, Live
  <2> QED BY <2>2, <2>4, <2>5, OriginKept
<1> QED BY <1>1, KeepInit, KeepStep, TypeCorrect, PTL DEF Spec

-----------------------------------------------------------------------------
(* The clocks of the threads and the watchdog over them                    *)

\* A tick is in range again after one turn.
LEMMA Wraps ==
  ASSUME NEW x \in Nat, x < 2 * Mod
  PROVE  x % Mod = IF x < Mod THEN x ELSE x - Mod
<1>1. Mod \in Nat \ {0} BY WDAssumption
<1>2. CASE x < Mod BY <1>1, <1>2
<1>3. CASE x >= Mod BY <1>1, <1>3
<1> QED BY <1>1, <1>2, <1>3

\* What has passed since b, for two ticks.
LEMMA MinusIs ==
  ASSUME NEW a \in 0 .. Mod - 1, NEW b \in 0 .. Mod - 1
  PROVE  Minus(a, b) = IF b <= a THEN a - b ELSE a + Mod - b
<1>1. Mod \in Nat \ {0} BY WDAssumption
<1> DEFINE x == a + Mod - b
<1>2. x \in Nat /\ x < 2 * Mod BY <1>1
<1>3. Minus(a, b) = x % Mod BY DEF Minus
<1> HIDE DEF x
<1>4. x % Mod = IF x < Mod THEN x ELSE x - Mod BY <1>2, Wraps
<1> QED BY <1>1, <1>3, <1>4 DEF x

\* It is a tick too.
LEMMA MinusTyped ==
  ASSUME NEW a \in 0 .. Mod - 1, NEW b \in 0 .. Mod - 1
  PROVE  Minus(a, b) \in Nat /\ Minus(a, b) < Mod
<1>1. Mod \in Nat \ {0} BY WDAssumption
<1> QED BY <1>1, MinusIs

\* d later it is a tick again, and d has passed.
LEMMA LaterTyped ==
  ASSUME NEW a \in 0 .. Mod - 1, NEW d \in 0 .. Mod - 1
  PROVE  (a + d) % Mod \in 0 .. Mod - 1 /\ Minus((a + d) % Mod, a) = d
<1>1. Mod \in Nat \ {0} BY WDAssumption
<1> DEFINE c == (a + d) % Mod
<1>2. c = IF a + d < Mod THEN a + d ELSE a + d - Mod BY <1>1, Wraps
<1> HIDE DEF c
<1>3. c \in 0 .. Mod - 1 BY <1>1, <1>2
<1>4. Minus(c, a) = IF a <= c THEN c - a ELSE c + Mod - a BY <1>3, MinusIs
<1> QED BY <1>1, <1>2, <1>3, <1>4 DEF c

\* d later, d more has passed since b.
LEMMA SinceLater ==
  ASSUME NEW a \in 0 .. Mod - 1, NEW b \in 0 .. Mod - 1, NEW d \in 0 .. Mod - 1,
         Minus(a, b) + d < Mod
  PROVE  Minus((a + d) % Mod, b) = Minus(a, b) + d
<1>1. Mod \in Nat \ {0} BY WDAssumption
<1> DEFINE c == (a + d) % Mod
<1>2. c = IF a + d < Mod THEN a + d ELSE a + d - Mod BY <1>1, Wraps
<1> HIDE DEF c
<1>3. c \in 0 .. Mod - 1 BY <1>1, <1>2
<1>4. /\ Minus(a, b) = IF b <= a THEN a - b ELSE a + Mod - b
      /\ Minus(c, b) = IF b <= c THEN c - b ELSE c + Mod - b
  BY <1>3, MinusIs
<1>5. Minus(c, b) = Minus(a, b) + d BY <1>1, <1>2, <1>3, <1>4
<1> QED BY <1>5 DEF c

\* A tick later, there is one less to go until b.
LEMMA UntilNext ==
  ASSUME NEW a \in 0 .. Mod - 1, NEW b \in 0 .. Mod - 1, a # b
  PROVE  Minus(b, a) \in 1 .. Mod - 1 /\ Minus(b, (a + 1) % Mod) = Minus(b, a) - 1
<1>1. Mod \in Nat \ {0} BY WDAssumption
<1> DEFINE c == (a + 1) % Mod
<1>2. c = IF a + 1 < Mod THEN a + 1 ELSE a + 1 - Mod BY <1>1, Wraps
<1> HIDE DEF c
<1>3. c \in 0 .. Mod - 1 BY <1>1, <1>2
<1>4. /\ Minus(b, a) = IF a <= b THEN b - a ELSE b + Mod - a
      /\ Minus(b, c) = IF c <= b THEN b - c ELSE b + Mod - c
  BY <1>3, MinusIs
<1>5. Minus(b, a) \in 1 .. Mod - 1 /\ Minus(b, c) = Minus(b, a) - 1 BY <1>1, <1>2, <1>3, <1>4
<1> QED BY <1>5 DEF c

-----------------------------------------------------------------------------
(* Types, and what is noticed in time                                      *)

\* The time until the watchdog thread's next check.
Remaining == Minus(wdDue, now)

\* The pass of t's loop has begun and not ended.
InPass(t) == pc[t] = "busy" /\ ~(t = "basic" /\ script)

\* A silence is one that the next check can see, for both clocks; it has lasted
\* no longer than what that check leaves to it; a pass is no longer than it.
Seen(t) ==
  /\ silent[t] + Remaining <= Timeout + Feed + Offset
  /\ silent[t] \in {Minus(now, hb[t]), Minus(HalTick, hb[t])}
  /\ InPass(t) => Minus(now, start[t]) <= silent[t]

FeedInv == wd = "feeding" => Remaining <= Feed /\ \A t \in Threads : Seen(t)

\* The hardware watchdog has not expired, or it has reset the device.
HwInv == ~reset => hw <= HwTimeout

WatchInv == WDTypeOK /\ HwInv /\ FeedInv

\* The constants, as the steps use them.
LEMMA Constants ==
  /\ Mod \in Nat \ {0} /\ Offset \in 0 .. Mod - 1 /\ FirstTick \in 0 .. Mod - 1
  /\ Feed \in 1 .. Mod - 1 /\ Timeout \in Nat /\ MaxPass \in Nat /\ HwTimeout \in Nat
  /\ Feed + Timeout + Offset < Mod /\ 1 \in 0 .. Mod - 1
  /\ MaxSilent = Timeout + Feed + Offset + 1 /\ MaxSilent \in Nat
  /\ Horizon \in 0 .. Mod
BY WDAssumption DEF MaxSilent

\* The HAL tick is a tick.
LEMMA HalTyped ==
  ASSUME now \in 0 .. Mod - 1
  PROVE  HalTick \in 0 .. Mod - 1
BY Constants, LaterTyped DEF HalTick

\* What is left until the next check is a tick.
LEMMA RemainingTyped ==
  ASSUME WDTypeOK
  PROVE  Remaining \in Nat /\ Remaining < Mod
BY MinusTyped DEF WDTypeOK, Remaining

\* At first every heartbeat is that of this moment.
LEMMA WatchInit == WDInit => WatchInv
<1> SUFFICES ASSUME WDInit PROVE WatchInv OBVIOUS
<1>1. now \in 0 .. Mod - 1 /\ HalTick \in 0 .. Mod - 1 BY Constants, HalTyped DEF WDInit
<1>2. wdDue \in 0 .. Mod - 1 /\ Remaining = Feed
  BY Constants, LaterTyped, <1>1 DEF WDInit, Remaining
<1>3. WDTypeOK
  <2>1. /\ hb \in [Threads -> 0 .. Mod - 1] /\ start \in [Threads -> 0 .. Mod - 1]
        /\ pc \in [Threads -> {"ready", "busy", "asleep", "blocked", "spinning"}]
        /\ left \in [Threads -> 0 .. MaxPass + 1] /\ silent \in [Threads -> 0 .. MaxSilent]
    BY Constants, <1>1 DEF WDInit
  <2>2. hw \in 0 .. HwTimeout + 1 /\ script \in BOOLEAN /\ reset \in BOOLEAN
    <3>1. hw = 0 /\ script = Scripts /\ reset = FALSE BY DEF WDInit
    <3>2. Scripts \in BOOLEAN BY WDAssumption
    <3>3. script \in BOOLEAN /\ reset \in BOOLEAN BY <3>1, <3>2, Zenon
    <3> QED BY <3>1, <3>3, Constants
  <2> QED BY <1>1, <1>2, <2>1, <2>2 DEF WDInit, WDTypeOK
<1>4. HwInv BY Constants DEF WDInit, HwInv
<1>5. ASSUME NEW t \in Threads PROVE Seen(t)
  <2>1. silent[t] = 0 /\ hb[t] = HalTick /\ pc[t] = "ready" BY DEF WDInit
  <2>2. Minus(HalTick, HalTick) = 0 BY <1>1, Constants, MinusIs
  <2> QED BY <1>2, <2>1, <2>2, Constants DEF Seen, InPass
<1> QED BY <1>2, <1>3, <1>4, <1>5, Constants DEF WatchInv, FeedInv

\* What a thread's step that leaves the clocks alone has to keep.
LEMMA WatchThread ==
  ASSUME WatchInv, wd = "feeding",
         UNCHANGED <<now, wd, wdDue, reset>>, WDTypeOK', hw' <= hw,
         \A t \in Threads : Seen(t)'
  PROVE  WatchInv'
<1>1. Remaining' = Remaining BY DEF Remaining, Minus
<1>2. FeedInv' BY <1>1 DEF WatchInv, FeedInv
<1>3. HwInv' BY Constants DEF WatchInv, HwInv, WDTypeOK
<1> QED BY <1>2, <1>3 DEF WatchInv

\* A heartbeat that has not changed is seen as before.
LEMMA SeenKept ==
  ASSUME WatchInv, wd = "feeding", NEW t \in Threads,
         UNCHANGED <<now, wdDue>>, hb'[t] = hb[t], silent'[t] = silent[t],
         InPass(t)' => InPass(t) /\ start'[t] = start[t]
  PROVE  Seen(t)'
BY DEF WatchInv, FeedInv, Seen, Remaining, HalTick, Minus

\* A pass begins: it is no longer than the silence before it.
LEMMA WatchBegin ==
  ASSUME WatchInv, NEW t \in Threads, Begin(t)
  PROVE  WatchInv'
<1>1. PICK d \in Work[t] : Spend(t, d) BY DEF Begin
<1>2. d \in 0 .. MaxPass + 1 BY Constants DEF Work, Threads
<1>t. WDTypeOK' BY <1>1, <1>2 DEF WatchInv, WDTypeOK, Begin, Spend
<1>f. wd = "feeding" BY DEF Begin, Undisturbed
<1>3. ASSUME NEW u \in Threads PROVE Seen(u)'
  <2>1. CASE u = t
    <3>1. start'[t] = now' /\ now \in 0 .. Mod - 1 BY DEF Begin, WatchInv, WDTypeOK
    <3>2. Minus(now', start'[t]) = 0 BY <3>1, Constants, MinusIs DEF Begin
    <3>3. Seen(t) /\ silent[t] \in Nat BY <1>f, Constants DEF WatchInv, FeedInv, WDTypeOK
    <3>4. silent'[t] = silent[t] /\ hb'[t] = hb[t] /\ now' = now /\ wdDue' = wdDue BY DEF Begin
    <3> QED BY <2>1, <3>2, <3>3, <3>4 DEF Seen, Remaining, HalTick, Minus
  <2>2. CASE u # t
    <3>1. InPass(u)' => InPass(u) /\ start'[u] = start[u]
      BY <1>1, <2>2 DEF Begin, Spend, InPass, WatchInv, WDTypeOK
    <3> QED BY <1>f, <3>1, SeenKept DEF Begin
  <2> QED BY <2>1, <2>2
<1> QED BY <1>f, <1>t, <1>3, WatchThread, Constants DEF Begin, WatchInv, WDTypeOK

\* A pass ends: the silence is now as long as the pass was.
LEMMA WatchFinish ==
  ASSUME WatchInv, NEW t \in Threads, Finish(t)
  PROVE  WatchInv'
<1>f. wd = "feeding" BY DEF Finish, Undisturbed
<1>1. now \in 0 .. Mod - 1 /\ start[t] \in 0 .. Mod - 1 BY DEF WatchInv, WDTypeOK
<1>2. Minus(now, start[t]) <= silent[t] /\ Seen(t) /\ silent[t] \in 0 .. MaxSilent
  BY <1>f DEF WatchInv, FeedInv, Seen, Finish, InPass, WDTypeOK
<1>3. Minus(now, start[t]) \in 0 .. MaxSilent
  <2>1. Minus(now, start[t]) \in Nat BY <1>1, MinusTyped
  <2>2. MaxSilent \in Nat BY Constants
  <2> QED BY <1>2, <2>1, <2>2
<1>4. hb' = [hb EXCEPT ![t] = start[t]] /\ silent' = [silent EXCEPT ![t] = Minus(now, start[t])]
      /\ start' = [start EXCEPT ![t] = 0] /\ Sleep(t) /\ UNCHANGED <<now, wdDue, script>>
  BY DEF Finish, Mark
<1>t. WDTypeOK'
  BY <1>1, <1>3, <1>4, Constants DEF WatchInv, WDTypeOK, Finish, Sleep
<1>5. ASSUME NEW u \in Threads PROVE Seen(u)'
  <2>1. CASE u = t
    <3>1. silent'[t] = Minus(now', hb'[t]) /\ silent'[t] <= silent[t]
      BY <1>2, <1>4 DEF WatchInv, WDTypeOK
    <3>2. pc'[t] = "asleep" BY <1>4 DEF Sleep, WatchInv, WDTypeOK
    <3>r. Remaining' = Remaining BY <1>4 DEF Remaining, Minus
    <3>3. Remaining' = Remaining /\ Remaining \in Nat BY <3>r, RemainingTyped DEF WatchInv
    <3>4. silent'[t] \in 0 .. MaxSilent BY <1>t DEF WDTypeOK
    <3>5. silent'[t] + Remaining' <= Timeout + Feed + Offset
      BY <1>2, <3>1, <3>3, <3>4, Constants DEF Seen
    <3> QED BY <2>1, <3>1, <3>2, <3>5 DEF Seen, InPass
  <2>2. CASE u # t
    <3>1. InPass(u)' => InPass(u) /\ start'[u] = start[u]
      BY <1>4, <2>2 DEF Sleep, InPass, WatchInv, WDTypeOK
    <3>2. hb'[u] = hb[u] /\ silent'[u] = silent[u] BY <1>4, <2>2 DEF WatchInv, WDTypeOK
    <3> QED BY <1>f, <1>4, <3>1, <3>2, SeenKept
  <2> QED BY <2>1, <2>2
<1> QED BY <1>f, <1>t, <1>5, WatchThread, Constants DEF Finish, WatchInv, WDTypeOK

\* A script marks the heartbeat of this moment by the other clock.
LEMMA WatchScript ==
  ASSUME WatchInv, ScriptStep \/ ScriptEnd
  PROVE  WatchInv'
<1>f. wd = "feeding" /\ script /\ "basic" \in Threads
  BY DEF ScriptStep, ScriptEnd, Undisturbed, Threads
<1>1. CASE ScriptStep
  <2>1. HalTick \in 0 .. Mod - 1 BY HalTyped DEF WatchInv, WDTypeOK
  <2>2. hb' = [hb EXCEPT !["basic"] = HalTick] /\ silent' = [silent EXCEPT !["basic"] = 0]
        /\ Spend("basic", 1) /\ UNCHANGED <<now, start, script, wd, wdDue, reset>> /\ hw' = 0
    BY <1>1 DEF ScriptStep, Mark
  <2>t. WDTypeOK'
    <3>1. /\ hb' \in [Threads -> 0 .. Mod - 1] /\ silent' \in [Threads -> 0 .. MaxSilent]
          /\ pc' \in [Threads -> {"ready", "busy", "asleep", "blocked", "spinning"}]
          /\ left' \in [Threads -> 0 .. MaxPass + 1]
      <4>1. pc' = [pc EXCEPT !["basic"] = "busy"] /\ left' = [left EXCEPT !["basic"] = 1]
        BY <2>2 DEF Spend
      <4>2. 1 \in 0 .. MaxPass + 1 /\ 0 \in 0 .. MaxSilent BY Constants
      <4> QED BY <2>1, <2>2, <4>1, <4>2 DEF WatchInv, WDTypeOK
    <3> QED BY <2>2, <3>1, Constants DEF WatchInv, WDTypeOK
  <2>3. ASSUME NEW u \in Threads PROVE Seen(u)'
    <3>1. CASE u = "basic"
      <4>1. silent'[u] = 0 /\ hb'[u] = HalTick /\ HalTick' = HalTick
        BY <2>2, <3>1 DEF WatchInv, WDTypeOK, HalTick
      <4>2. Minus(HalTick', hb'[u]) = 0 BY <2>1, <4>1, Constants, MinusIs
      <4>r. Remaining' = Remaining BY <2>2 DEF Remaining, Minus
      <4>3. Remaining' = Remaining /\ Remaining <= Feed /\ Remaining \in Nat
        BY <1>f, <4>r, RemainingTyped DEF WatchInv, FeedInv
      <4> QED BY <1>f, <2>2, <3>1, <4>1, <4>2, <4>3, Constants DEF Seen, InPass
    <3>2. CASE u # "basic"
      <4>1. InPass(u)' => InPass(u) /\ start'[u] = start[u]
        BY <2>2, <3>2 DEF Spend, InPass, WatchInv, WDTypeOK
      <4>2. hb'[u] = hb[u] /\ silent'[u] = silent[u] BY <2>2, <3>2 DEF WatchInv, WDTypeOK
      <4> QED BY <1>f, <2>2, <4>1, <4>2, SeenKept
    <3> QED BY <3>1, <3>2
  <2>4. hw' <= hw BY <2>2, Constants DEF WatchInv, WDTypeOK
  <2> QED BY <1>f, <2>2, <2>t, <2>3, <2>4, WatchThread
<1>2. CASE ScriptEnd
  <2>t. WDTypeOK' BY <1>2 DEF WatchInv, WDTypeOK, ScriptEnd
  <2>3. ASSUME NEW u \in Threads PROVE Seen(u)'
    <3>1. InPass(u)' => InPass(u) /\ start'[u] = start[u]
      BY <1>2 DEF ScriptEnd, InPass, WatchInv, WDTypeOK
    <3> QED BY <1>2, <1>f, <3>1, SeenKept DEF ScriptEnd
  <2>4. hw' <= hw BY <1>2, Constants DEF WatchInv, WDTypeOK, ScriptEnd
  <2> QED BY <1>2, <1>f, <2>t, <2>3, <2>4, WatchThread DEF ScriptEnd
<1> QED BY <1>1, <1>2

\* A thread gets stuck.
LEMMA WatchStuck ==
  ASSUME WatchInv, NEW t \in Threads, GetStuck(t)
  PROVE  WatchInv'
<1>f. wd = "feeding" BY DEF GetStuck, Undisturbed
<1>t. WDTypeOK' BY DEF WatchInv, WDTypeOK, GetStuck
<1>1. ASSUME NEW u \in Threads PROVE Seen(u)'
  <2>1. InPass(u)' => InPass(u) /\ start'[u] = start[u]
    BY DEF GetStuck, InPass, WatchInv, WDTypeOK
  <2> QED BY <1>f, <2>1, SeenKept DEF GetStuck
<1>2. hw' <= hw BY Constants DEF WatchInv, WDTypeOK, GetStuck
<1> QED BY <1>f, <1>t, <1>1, <1>2, WatchThread DEF GetStuck

\* After a check that succeeds the next one is an interval away.
LEMMA CheckAgain ==
  ASSUME now \in 0 .. Mod - 1, now' = now, wdDue' = (now + Feed) % Mod
  PROVE  wdDue' \in 0 .. Mod - 1 /\ Remaining' = Feed
BY Constants, LaterTyped DEF Remaining

\* A check that succeeds leaves every silence to the next one.
LEMMA WatchCheck ==
  ASSUME WatchInv, Check
  PROVE  WatchInv'
<1>f. wd = "feeding" /\ now = wdDue /\ ~reset
      /\ UNCHANGED <<now, hb, pc, start, left, script, reset, silent>>
  BY DEF Check
<1>1. CASE \E t \in Threads : Late(t)
  BY <1>1, <1>f DEF Check, WatchInv, WDTypeOK, HwInv, FeedInv
<1>2. CASE ~\E t \in Threads : Late(t)
  <2>1. hw' = 0 /\ wdDue' = (now + Feed) % Mod /\ wd' = wd BY <1>2 DEF Check
  <2>n. now \in 0 .. Mod - 1 BY DEF WatchInv, WDTypeOK
  <2>2. wdDue' \in 0 .. Mod - 1 /\ Remaining' = Feed
    BY <1>f, <2>1, <2>n, CheckAgain
  <2>3. ASSUME NEW t \in Threads PROVE Seen(t)'
    <3>1. Seen(t) /\ Minus(now, hb[t]) \in 0 .. Timeout /\ hb[t] \in 0 .. Mod - 1
      <4>1. Seen(t) /\ hb[t] \in 0 .. Mod - 1 BY <1>f DEF WatchInv, FeedInv, WDTypeOK
      <4>2. ~(Minus(now, hb[t]) > Timeout) BY <1>2 DEF Late
      <4>3. Minus(now, hb[t]) \in Nat BY <2>n, <4>1, MinusTyped
      <4> QED BY <4>1, <4>2, <4>3, Constants
    <3>2. Minus(HalTick, hb[t]) = Minus(now, hb[t]) + Offset
      <4>1. Minus(now, hb[t]) + Offset < Mod BY <3>1, Constants
      <4> QED BY <2>n, <3>1, <4>1, Constants, SinceLater DEF HalTick
    <3>3. silent[t] <= Timeout + Offset /\ silent[t] \in Nat BY <3>1, <3>2, Constants DEF Seen
    <3>4. silent'[t] + Remaining' <= Timeout + Feed + Offset BY <1>f, <2>2, <3>3, Constants
    <3> QED BY <1>f, <3>1, <3>4 DEF Seen, InPass, HalTick, Minus
  <2>4. WDTypeOK' BY <1>f, <2>1, <2>2, Constants DEF WatchInv, WDTypeOK
  <2>5. HwInv' BY <2>1, Constants DEF HwInv
  <2>6. FeedInv' BY <2>2, <2>3, Constants DEF FeedInv
  <2> QED BY <2>4, <2>5, <2>6 DEF WatchInv
<1> QED BY <1>1, <1>2

\* A tick keeps the types: the device is reset before hw gets out of range.
LEMMA TickTyped ==
  ASSUME WatchInv, Tick
  PROVE  WDTypeOK' /\ HwInv'
<1>1. now' \in 0 .. Mod - 1 BY Constants, LaterTyped DEF WatchInv, WDTypeOK, Tick
<1>2. silent' \in [Threads -> 0 .. MaxSilent]
  <2>1. silent' = [t \in Threads |-> IF silent[t] < MaxSilent THEN silent[t] + 1 ELSE MaxSilent]
    BY DEF Tick
  <2> QED BY <2>1, Constants DEF WatchInv, WDTypeOK
<1>3. hw \in 0 .. HwTimeout /\ hw' \in {hw + 1, 0} /\ reset' = (hw' > HwTimeout)
  BY Constants DEF Tick, Undisturbed, WatchInv, WDTypeOK, HwInv
<1>4. pc' \in [Threads -> {"ready", "busy", "asleep", "blocked", "spinning"}]
  BY DEF Tick, WatchInv, WDTypeOK
<1>5. left' \in [Threads -> 0 .. MaxPass + 1]
  <2>1. CASE wd = "stopped" BY <2>1 DEF Tick, WatchInv, WDTypeOK
  <2>2. CASE wd # "stopped"
    <3>1. left' = [t \in Threads |-> IF Spent(t) /\ left[t] > 0 THEN left[t] - 1 ELSE left[t]]
      BY <2>2 DEF Tick
    <3>2. \A t \in Threads : left[t] \in 0 .. MaxPass + 1 BY DEF WatchInv, WDTypeOK
    <3>3. \A t \in Threads :
            (IF Spent(t) /\ left[t] > 0 THEN left[t] - 1 ELSE left[t]) \in 0 .. MaxPass + 1
      BY <3>2, Constants
    <3> QED BY <3>1, <3>3
  <2> QED BY <2>1, <2>2
<1>6. hw' \in 0 .. HwTimeout + 1 /\ reset' \in BOOLEAN BY <1>3, Constants
<1>7. HwInv'
  <2>1. ~reset' => ~(hw' > HwTimeout) BY <1>3
  <2> QED BY <1>6, <2>1, Constants DEF HwInv
<1> QED BY <1>1, <1>2, <1>4, <1>5, <1>6, <1>7 DEF Tick, WatchInv, WDTypeOK

\* While the watchdog feeds, a tick brings its check nearer, and no silence has
\* lasted for too long to be told from longer ones.
LEMMA TickNearer ==
  ASSUME WatchInv, Tick, wd = "feeding"
  PROVE  /\ now' = (now + 1) % Mod /\ UNCHANGED <<hb, start, script, wd, wdDue>>
         /\ Remaining \in 1 .. Mod - 1 /\ Remaining' = Remaining - 1
         /\ \A t \in Threads : silent[t] \in Nat /\ silent'[t] = silent[t] + 1
<1>1. now' = (now + 1) % Mod /\ now # wdDue /\ UNCHANGED <<hb, start, script, wd, wdDue>>
  BY DEF Tick, Undisturbed
<1>2. now \in 0 .. Mod - 1 /\ wdDue \in 0 .. Mod - 1 BY DEF WatchInv, WDTypeOK
<1>3. Remaining \in 1 .. Mod - 1 /\ Remaining' = Remaining - 1
  BY <1>1, <1>2, UntilNext DEF Remaining
<1>4. ASSUME NEW t \in Threads PROVE silent[t] \in Nat /\ silent'[t] = silent[t] + 1
  <2>1. Seen(t) /\ silent[t] \in Nat BY Constants DEF WatchInv, FeedInv, WDTypeOK
  <2>2. silent[t] < MaxSilent BY <1>3, <2>1, Constants DEF Seen
  <2> QED BY <2>1, <2>2 DEF Tick
<1> QED BY <1>1, <1>3, <1>4

\* With a tick every silence gets longer and the check nearer.
LEMMA WatchTick ==
  ASSUME WatchInv, Tick
  PROVE  WatchInv'
<1>1. CASE wd = "stopped" BY <1>1, TickTyped DEF WatchInv, FeedInv, Tick
<1>2. CASE wd = "feeding"
  <2>1. now' = (now + 1) % Mod /\ UNCHANGED <<hb, start, script, wd, wdDue>>
    BY <1>2, TickNearer
  <2>2. now \in 0 .. Mod - 1 BY DEF WatchInv, WDTypeOK
  <2>3. Remaining \in 1 .. Mod - 1 /\ Remaining' = Remaining - 1 BY <1>2, TickNearer
  <2>4. ASSUME NEW t \in Threads PROVE Seen(t)'
    <3>1. Seen(t) /\ hb[t] \in 0 .. Mod - 1 /\ start[t] \in 0 .. Mod - 1 /\ silent[t] \in Nat
      BY <1>2, Constants DEF WatchInv, FeedInv, WDTypeOK
    <3>2. silent[t] + 1 <= Timeout + Feed + Offset BY <2>3, <3>1, Constants DEF Seen
    <3>3. silent'[t] = silent[t] + 1 BY <1>2, TickNearer
    <3>4. silent'[t] + Remaining' <= Timeout + Feed + Offset
      BY <2>3, <3>1, <3>3, Constants DEF Seen
    <3>5. silent[t] = Minus(now, hb[t]) => silent'[t] = Minus(now', hb'[t])
      <4>1. ASSUME silent[t] = Minus(now, hb[t]) PROVE Minus((now + 1) % Mod, hb[t]) = silent[t] + 1
        <5>1. Minus(now, hb[t]) + 1 < Mod BY <3>1, <3>2, <4>1, Constants
        <5>2. Minus((now + 1) % Mod, hb[t]) = Minus(now, hb[t]) + 1
          BY <2>2, <3>1, <5>1, Constants, SinceLater
        <5> QED BY <4>1, <5>2
      <4> QED BY <2>1, <3>3, <4>1
    <3>6. HalTick' = (HalTick + 1) % Mod /\ HalTick \in 0 .. Mod - 1
      <4>1. HalTick = IF now + Offset < Mod THEN now + Offset ELSE now + Offset - Mod
        BY <2>2, Constants, Wraps DEF HalTick
      <4>2. now' = IF now + 1 < Mod THEN now + 1 ELSE now + 1 - Mod
        BY <2>1, <2>2, Constants, Wraps
      <4>3. HalTick' = IF now' + Offset < Mod THEN now' + Offset ELSE now' + Offset - Mod
        BY <2>2, <4>2, Constants, Wraps DEF HalTick
      <4>4. (HalTick + 1) % Mod = IF HalTick + 1 < Mod THEN HalTick + 1 ELSE HalTick + 1 - Mod
        BY <2>2, <4>1, Constants, Wraps
      <4> QED BY <2>2, <4>1, <4>2, <4>3, <4>4, Constants
    <3>7. silent[t] = Minus(HalTick, hb[t]) => silent'[t] = Minus(HalTick', hb'[t])
      <4>1. ASSUME silent[t] = Minus(HalTick, hb[t])
            PROVE  Minus((HalTick + 1) % Mod, hb[t]) = silent[t] + 1
        <5>1. Minus(HalTick, hb[t]) + 1 < Mod BY <3>1, <3>2, <4>1, Constants
        <5>2. HalTick \in 0 .. Mod - 1 /\ hb[t] \in 0 .. Mod - 1 BY <3>1, <3>6
        <5>3. Minus((HalTick + 1) % Mod, hb[t]) = Minus(HalTick, hb[t]) + 1
          BY <5>1, <5>2, Constants, SinceLater
        <5> QED BY <4>1, <5>3
      <4> QED BY <2>1, <3>3, <3>6, <4>1
    <3>8. InPass(t)' => Minus(now', start'[t]) <= silent'[t]
      <4> SUFFICES ASSUME InPass(t)' PROVE Minus(now', start'[t]) <= silent'[t] OBVIOUS
      <4>1. InPass(t) BY <1>2, <2>1 DEF InPass, Tick, WatchInv, WDTypeOK
      <4>2. Minus(now, start[t]) <= silent[t] /\ Minus(now, start[t]) \in Nat
        BY <2>2, <3>1, <4>1, MinusTyped DEF Seen
      <4>3. Minus(now, start[t]) + 1 < Mod BY <3>1, <3>2, <4>2, Constants
      <4>4. Minus((now + 1) % Mod, start[t]) = Minus(now, start[t]) + 1
        BY <2>2, <3>1, <4>3, Constants, SinceLater
      <4> QED BY <2>1, <3>1, <3>3, <4>2, <4>4
    <3>9. silent'[t] \in {Minus(now', hb'[t]), Minus(HalTick', hb'[t])}
      BY <3>1, <3>5, <3>7 DEF Seen
    <3> QED BY <3>4, <3>8, <3>9 DEF Seen
  <2>5. Remaining' <= Feed BY <1>2, <2>3, Constants DEF WatchInv, FeedInv
  <2> QED BY <2>4, <2>5, TickTyped DEF WatchInv, FeedInv
<1> QED BY <1>1, <1>2 DEF WatchInv, WDTypeOK

\* Every step keeps what the watchdog can see.
LEMMA WatchStep == WatchInv /\ [WDNext]_wdVars => WatchInv'
<1> SUFFICES ASSUME WatchInv, [WDNext]_wdVars PROVE WatchInv' OBVIOUS
<1>1. CASE UNCHANGED wdVars
  BY <1>1 DEF wdVars, WatchInv, WDTypeOK, HwInv, FeedInv, Seen, InPass, Remaining, HalTick, Minus
<1> QED BY <1>1, WatchBegin, WatchFinish, WatchScript, WatchStuck, WatchCheck, WatchTick
        DEF WDNext, WDThreadStep

\* So the watchdog sees what it has to.
LEMMA Watched == WDSpec => []WatchInv
BY WatchInit, WatchStep, PTL DEF WDSpec

\* Every variable keeps its type: ticks stay ticks, and no silence the model follows
\* is longer than the longest it tells apart.
THEOREM WatchdogTypes == WDSpec => []WDTypeOK
<1>1. WatchInv => WDTypeOK BY DEF WatchInv
<1> QED BY <1>1, Watched, PTL

\* While the watchdog thread feeds, no thread has been silent for longer than the
\* timeout and one interval, but for the Offset by which the HAL tick may hide it,
\* whatever the ticks are and however often they wrap.
THEOREM SilenceDetected == WDSpec => []DetectedInTime
<1>1. WatchInv => DetectedInTime
  <2> SUFFICES ASSUME WatchInv, wd = "feeding", NEW t \in Threads
               PROVE  silent[t] <= Timeout + Feed + Offset
    BY DEF DetectedInTime
  <2>1. silent[t] \in Nat /\ Remaining \in Nat
    BY Constants, RemainingTyped DEF WatchInv, WDTypeOK
  <2> QED BY <2>1, Constants DEF WatchInv, FeedInv, Seen
<1> QED BY <1>1, Watched, PTL

-----------------------------------------------------------------------------
(* The hardware watchdog while it is fed                                   *)

\* The feed interval is within its period.
InPeriod == Feed <= HwTimeout

\* It has been refreshed since the last check.
FedInv == wd = "feeding" => ~reset /\ hw + Remaining <= Feed

\* Every step keeps the time until the next check within what the IWDG leaves.
LEMMA FedStep ==
  ASSUME InPeriod, WatchInv, FedInv, [WDNext]_wdVars
  PROVE  FedInv'
<1>1. hw \in Nat /\ Remaining \in Nat BY Constants, RemainingTyped DEF WatchInv, WDTypeOK
<1>2. ASSUME UNCHANGED <<now, wd, wdDue, reset>>, hw' = hw \/ hw' = 0 PROVE FedInv'
  <2> SUFFICES ASSUME wd' = "feeding" PROVE ~reset' /\ hw' + Remaining' <= Feed BY DEF FedInv
  <2>1. Remaining' = Remaining BY <1>2 DEF Remaining, Minus
  <2>2. ~reset /\ hw + Remaining <= Feed BY <1>2 DEF FedInv
  <2>3. hw' + Remaining' <= Feed BY <1>1, <1>2, <2>1, <2>2, Constants
  <2> QED BY <1>2, <2>2, <2>3
<1>3. ASSUME NEW t \in Threads, Begin(t) \/ Finish(t) \/ GetStuck(t) PROVE FedInv'
  BY <1>2, <1>3 DEF Begin, Finish, GetStuck
<1>4. CASE ScriptStep \/ ScriptEnd BY <1>2, <1>4 DEF ScriptStep, ScriptEnd
<1>5. CASE Check
  <2> SUFFICES ASSUME wd' = "feeding" PROVE FedInv' BY DEF FedInv
  <2>1. hw' = 0 /\ wdDue' = (now + Feed) % Mod /\ ~reset' /\ now' = now BY <1>5 DEF Check
  <2>2. Remaining' = Feed BY <2>1, CheckAgain DEF WatchInv, WDTypeOK
  <2> QED BY <2>1, <2>2, Constants DEF FedInv
<1>6. CASE Tick
  <2> SUFFICES ASSUME wd = "feeding" PROVE FedInv' BY <1>6 DEF FedInv, Tick
  <2>1. Remaining \in 1 .. Mod - 1 /\ Remaining' = Remaining - 1 BY <1>6, TickNearer
  <2>2. (hw' = hw + 1 \/ hw' = 0) /\ reset' = (hw' > HwTimeout) BY <1>6 DEF Tick
  <2>f. hw + Remaining <= Feed BY DEF FedInv
  <2>3. hw' + Remaining' <= Feed BY <1>1, <2>1, <2>2, <2>f, Constants
  <2>4. hw' \in Nat /\ hw' <= Feed BY <1>1, <2>1, <2>2, <2>f, Constants
  <2>5. ~(hw' > HwTimeout) BY <2>4, Constants DEF InPeriod
  <2> QED BY <2>2, <2>3, <2>5 DEF FedInv
<1>7. CASE UNCHANGED wdVars BY <1>2, <1>7 DEF wdVars
<1> QED BY <1>3, <1>4, <1>5, <1>6, <1>7 DEF WDNext, WDThreadStep

\* With a feed interval within the IWDG's period the device is not reset while the
\* watchdog thread feeds.
THEOREM FedWhileFeeding ==
  ASSUME InPeriod
  PROVE  WDSpec => []ResetOnlyAfterStop
<1>1. WDInit => FedInv
  <2> SUFFICES ASSUME WDInit PROVE FedInv OBVIOUS
  <2>1. Remaining = Feed BY Constants, LaterTyped DEF WDInit, Remaining
  <2> QED BY <2>1, Constants DEF WDInit, FedInv
<1>2. WatchInv /\ FedInv /\ [WDNext]_wdVars => FedInv' BY FedStep
<1>3. WatchInv /\ FedInv => ResetOnlyAfterStop
  BY DEF WatchInv, WDTypeOK, FedInv, ResetOnlyAfterStop
<1> QED BY <1>1, <1>2, <1>3, Watched, PTL DEF WDSpec

-----------------------------------------------------------------------------
(* Why the watchdog thread stops only for a stuck one                      *)

\* No script runs, kernel ticks neither start at 0 nor get there again, the first
\* check is not before the HAL tick of the start, and the timeout is longer than
\* three passes of the main thread.
Unhurried ==
  /\ ~Scripts /\ 0 < FirstTick /\ Horizon < Mod
  /\ Offset <= Feed /\ 3 * MaxPass + 3 <= Timeout

Asleep(t) == pc[t] = "asleep"
Elapsed(t) == now - start[t]

\* The time the main thread may still take before it sleeps.
Ahead ==
  IF pc["main"] = "ready" THEN MaxPass ELSE IF pc["main"] = "busy" THEN left["main"] ELSE 0

\* Heartbeats and passes are as old as they look, and no check comes before the
\* tick of the first heartbeats.
Aged ==
  /\ FirstTick <= now /\ (wdDue < now \/ FirstTick + Feed <= wdDue)
  /\ \A t \in Threads :
       /\ \/ hb[t] \in FirstTick .. now /\ silent[t] = now - hb[t]
          \/ hb[t] = (FirstTick + Offset) % Mod /\ silent[t] = now - FirstTick
       /\ pc[t] = "busy" => start[t] \in FirstTick .. now

\* mqtt_rx reports whenever it is awake.
RxPaced ==
  /\ Asleep("mqtt_rx") => left["mqtt_rx"] = 1 /\ silent["mqtt_rx"] = 0
  /\ pc["mqtt_rx"] = "busy" => left["mqtt_rx"] = 0 /\ Elapsed("mqtt_rx") = 0
  /\ silent["mqtt_rx"] <= 1

\* The main thread starts a pass as soon as it is awake.
MainPaced ==
  /\ Asleep("main") => left["main"] = 1 /\ silent["main"] <= MaxPass
  /\ pc["main"] = "ready" => silent["main"] <= MaxPass + 1
  /\ pc["main"] = "busy" =>
       /\ left["main"] <= MaxPass /\ Elapsed("main") + left["main"] <= MaxPass
       /\ silent["main"] + left["main"] <= 2 * MaxPass + 1

\* The BASIC thread gets its turn whenever the main thread sleeps.
BasicPaced ==
  /\ Asleep("basic") => left["basic"] = 1 /\ silent["basic"] = 0
  /\ pc["basic"] = "busy" => left["basic"] = 0 /\ Elapsed("basic") = 0
  /\ pc["basic"] # "ready" => Asleep("main")
  /\ silent["basic"] + Ahead <= MaxPass + 1

\* The shell's thread does too, but a command of its own may take until the main
\* thread is awake again.
DebugPaced ==
  /\ Asleep("debug") => left["debug"] = 1 /\ Asleep("main") /\ silent["debug"] <= MaxPass + 1
  /\ pc["debug"] = "ready" => silent["debug"] + Ahead <= 2 * MaxPass + 2
  /\ pc["debug"] = "busy" /\ left["debug"] = 0 =>
       /\ Elapsed("debug") + Ahead <= MaxPass + 1
       /\ silent["debug"] + Ahead <= 3 * MaxPass + 3
  /\ pc["debug"] = "busy" /\ left["debug"] # 0 =>
       /\ left["debug"] = 1 /\ Elapsed("debug") = 0 /\ silent["debug"] <= 2 * MaxPass + 2
       /\ Asleep("main") /\ Asleep("mqtt_rx") /\ Asleep("basic")

Paced == RxPaced /\ MainPaced /\ BasicPaced /\ DebugPaced

Unstuck == wd = "feeding" /\ Aged /\ Paced

PaceInv == ~script /\ (Stuck = {} => Unstuck)

\* Without stuck threads each one is between two passes or in one.
LEMMA NoneStuck ==
  ASSUME WDTypeOK, Stuck = {}
  PROVE  /\ \A t \in Threads : pc[t] \in {"ready", "busy", "asleep"}
         /\ \A t \in Threads : CanRun(t) <=> ~Asleep(t)
BY DEF WDTypeOK, Stuck, CanRun, Asleep

\* A thread that runs has no thread of higher priority awake.
LEMMA RunsAlone ==
  ASSUME WDTypeOK, Stuck = {}
  PROVE  /\ Runs("mqtt_rx") <=> ~Asleep("mqtt_rx")
         /\ Runs("main") <=> ~Asleep("main") /\ Asleep("mqtt_rx")
         /\ Runs("basic") <=> ~Asleep("basic") /\ Asleep("main") /\ Asleep("mqtt_rx")
         /\ Runs("debug") <=>
              ~Asleep("debug") /\ Asleep("basic") /\ Asleep("main") /\ Asleep("mqtt_rx")
<1>1. \A t \in Threads : CanRun(t) <=> ~Asleep(t) BY NoneStuck
<1>2. Threads = {"main", "mqtt_rx", "basic", "debug"} BY DEF Threads
<1>3. Priority["main"] = 3 /\ Priority["mqtt_rx"] = 4 /\ Priority["basic"] = 2 /\ Priority["debug"] = 1
  BY DEF Priority
<1> QED BY <1>1, <1>2, <1>3 DEF Runs

\* A stuck thread stays stuck.
LEMMA StaysStuck ==
  ASSUME WDTypeOK, [WDNext]_wdVars, Stuck' = {}
  PROVE  Stuck = {}
<1> SUFFICES ASSUME NEW t \in Threads, pc[t] \in {"blocked", "spinning"}
             PROVE  pc'[t] \in {"blocked", "spinning"}
  BY DEF Stuck
<1>1. ASSUME NEW u \in Threads, Begin(u) \/ Finish(u) \/ GetStuck(u)
      PROVE  pc'[t] \in {"blocked", "spinning"}
  BY <1>1 DEF Begin, Finish, GetStuck, Spend, Sleep, WDTypeOK
<1>2. CASE ScriptStep \/ ScriptEnd
  BY <1>2 DEF ScriptStep, ScriptEnd, Spend, WDTypeOK, Threads
<1>3. CASE Check \/ Tick \/ UNCHANGED wdVars BY <1>3 DEF Check, Tick, wdVars
<1> QED BY <1>1, <1>2, <1>3 DEF WDNext, WDThreadStep

\* Each thread's silence, at any time, is less than the timeout.
LEMMA PacedSilent ==
  ASSUME WDTypeOK, Stuck = {}, Paced, Unhurried, NEW t \in Threads
  PROVE  silent[t] <= Timeout
<1>1. pc[t] \in {"ready", "busy", "asleep"} /\ pc["main"] \in {"ready", "busy", "asleep"}
  BY NoneStuck DEF Threads
<1>2. \A u \in Threads : silent[u] \in Nat /\ left[u] \in Nat BY Constants DEF WDTypeOK
<1>3. Ahead \in Nat BY <1>2, Constants DEF Ahead, Threads
<1>4. t \in {"main", "mqtt_rx", "basic", "debug"} BY DEF Threads
<1>5. CASE t = "main" BY <1>1, <1>2, <1>5, Constants DEF Paced, MainPaced, Asleep, Unhurried
<1>6. CASE t = "mqtt_rx" BY <1>2, <1>6, Constants DEF Paced, RxPaced, Unhurried
<1>7. CASE t = "basic" BY <1>2, <1>3, <1>7, Constants DEF Paced, BasicPaced, Unhurried
<1>8. CASE t = "debug"
  BY <1>1, <1>2, <1>3, <1>8, Constants DEF Paced, DebugPaced, Asleep, Unhurried
<1> QED BY <1>4, <1>5, <1>6, <1>7, <1>8

\* The kernel tick does not wrap.
LEMMA TickCounts ==
  ASSUME WDTypeOK, Unhurried, Tick
  PROVE  now' = now + 1 /\ now \in Nat /\ now' < Mod
<1>1. now \in 0 .. Mod - 1 /\ now < Horizon /\ now' = (now + 1) % Mod BY DEF WDTypeOK, Tick
<1>2. now + 1 < Mod BY <1>1, Constants DEF Unhurried
<1> QED BY <1>1, <1>2, Constants, Wraps

\* Ages keep up with the tick.
LEMMA AgedTick ==
  ASSUME WatchInv, Unhurried, wd = "feeding", Aged, Tick
  PROVE  Aged'
<1>1. now' = now + 1 /\ now \in Nat BY TickCounts DEF WatchInv
<1>2. hb' = hb /\ start' = start /\ wdDue' = wdDue
      /\ \A t \in Threads : silent[t] \in Nat /\ silent'[t] = silent[t] + 1
  BY TickNearer
<1>3. \A t \in Threads : pc'[t] = "busy" => pc[t] = "busy" BY DEF Tick, WatchInv, WDTypeOK
<1>4. FirstTick <= now' /\ (wdDue' < now' \/ FirstTick + Feed <= wdDue')
  BY <1>1, <1>2, Constants DEF Aged, WatchInv, WDTypeOK
<1>5. ASSUME NEW t \in Threads
      PROVE  /\ \/ hb'[t] \in FirstTick .. now' /\ silent'[t] = now' - hb'[t]
                \/ hb'[t] = (FirstTick + Offset) % Mod /\ silent'[t] = now' - FirstTick
             /\ pc'[t] = "busy" => start'[t] \in FirstTick .. now'
  <2>1. \/ hb[t] \in FirstTick .. now /\ silent[t] = now - hb[t]
        \/ hb[t] = (FirstTick + Offset) % Mod /\ silent[t] = now - FirstTick
    BY DEF Aged
  <2>2. pc'[t] = "busy" => start[t] \in FirstTick .. now BY <1>3 DEF Aged
  <2>3. CASE hb[t] \in FirstTick .. now /\ silent[t] = now - hb[t]
    BY <1>1, <1>2, <2>2, <2>3, Constants
  <2>4. CASE hb[t] = (FirstTick + Offset) % Mod /\ silent[t] = now - FirstTick
    BY <1>1, <1>2, <2>2, <2>4, Constants
  <2> QED BY <2>1, <2>3, <2>4
<1> QED BY <1>4, <1>5 DEF Aged

\* Nothing that begins or ends makes a heartbeat older than it looks.
LEMMA AgedThread ==
  ASSUME WDTypeOK, Aged, NEW t \in Threads, Begin(t) \/ Finish(t) \/ GetStuck(t)
  PROVE  Aged'
<1>1. now' = now /\ wdDue' = wdDue /\ now \in 0 .. Mod - 1 BY DEF Begin, Finish, GetStuck, WDTypeOK
<1>2. ASSUME NEW u \in Threads
      PROVE  /\ \/ hb'[u] \in FirstTick .. now /\ silent'[u] = now - hb'[u]
                \/ hb'[u] = (FirstTick + Offset) % Mod /\ silent'[u] = now - FirstTick
             /\ pc'[u] = "busy" => start'[u] \in FirstTick .. now
  <2>1. CASE Begin(t)
    <3>1. hb' = hb /\ silent' = silent BY <2>1 DEF Begin
    <3>2. start'[u] = IF u = t THEN now ELSE start[u] BY <2>1 DEF Begin, WDTypeOK
    <3>3. u # t => pc'[u] = pc[u] BY <2>1 DEF Begin, Spend, WDTypeOK
    <3>4. pc'[u] = "busy" => start'[u] \in FirstTick .. now
      BY <1>1, <3>2, <3>3, Constants DEF Aged
    <3> QED BY <3>1, <3>4 DEF Aged
  <2>2. CASE Finish(t)
    <3>1. u # t => hb'[u] = hb[u] /\ silent'[u] = silent[u] /\ pc'[u] = pc[u] /\ start'[u] = start[u]
      BY <2>2 DEF Finish, Mark, Sleep, WDTypeOK
    <3>2. u = t => hb'[u] = start[t] /\ silent'[u] = Minus(now, start[t]) /\ pc'[u] = "asleep"
      BY <2>2 DEF Finish, Mark, Sleep, WDTypeOK
    <3>3. start[t] \in FirstTick .. now BY <2>2 DEF Finish, Aged
    <3>4. Minus(now, start[t]) = now - start[t]
      BY <1>1, <3>3, Constants, MinusIs DEF WDTypeOK
    <3> QED BY <3>1, <3>2, <3>3, <3>4 DEF Aged
  <2>3. CASE GetStuck(t)
    <3>1. hb' = hb /\ silent' = silent /\ start' = start BY <2>3 DEF GetStuck
    <3>2. pc'[u] = "busy" => pc[u] = "busy" BY <2>3 DEF GetStuck, WDTypeOK
    <3> QED BY <3>1, <3>2 DEF Aged
  <2> QED BY <2>1, <2>2, <2>3
<1> QED BY <1>1, <1>2 DEF Aged

\* At a check no heartbeat looks older than it is.
LEMMA NoneLate ==
  ASSUME WDTypeOK, Aged, Unhurried, now = wdDue, NEW t \in Threads, silent[t] <= Timeout
  PROVE  ~Late(t)
<1>1. now \in 0 .. Mod - 1 /\ FirstTick + Feed <= now BY Constants DEF WDTypeOK, Aged
<1>2. CASE hb[t] \in FirstTick .. now /\ silent[t] = now - hb[t]
  <2>1. Minus(now, hb[t]) = now - hb[t] BY <1>1, <1>2, Constants, MinusIs
  <2> QED BY <1>1, <1>2, <2>1, Constants DEF Late, Unhurried
<1>3. CASE hb[t] = (FirstTick + Offset) % Mod /\ silent[t] = now - FirstTick
  <2>1. FirstTick + Offset <= now BY <1>1, Constants DEF Unhurried
  <2>2. hb[t] = FirstTick + Offset BY <1>1, <1>3, <2>1, Constants, Wraps
  <2>3. Minus(now, hb[t]) = now - hb[t] BY <1>1, <2>1, <2>2, Constants, MinusIs
  <2> QED BY <1>1, <1>3, <2>1, <2>2, <2>3, Constants DEF Late, Unhurried
<1> QED BY <1>2, <1>3 DEF Aged

\* So a check without stuck threads succeeds.
LEMMA UnstuckCheck ==
  ASSUME WDTypeOK, Unhurried, Stuck = {}, Unstuck, Check
  PROVE  Unstuck'
<1>1. \A t \in Threads : ~Late(t) BY PacedSilent, NoneLate DEF Unstuck, Check
<1>2. wdDue' = (now + Feed) % Mod /\ wd' = wd
      /\ UNCHANGED <<now, hb, pc, start, left, script, reset, silent>>
  BY <1>1 DEF Check
<1>3. wdDue' < now' \/ FirstTick + Feed <= wdDue'
  <2>1. now \in 0 .. Mod - 1 /\ FirstTick <= now BY DEF WDTypeOK, Unstuck, Aged
  <2>2. wdDue' = IF now + Feed < Mod THEN now + Feed ELSE now + Feed - Mod
    BY <1>2, <2>1, Constants, Wraps
  <2> QED BY <1>2, <2>1, <2>2, Constants
<1>4. Aged' BY <1>2, <1>3 DEF Unstuck, Aged
<1>5. Paced'
  BY <1>2 DEF Unstuck, Paced, RxPaced, MainPaced, BasicPaced, DebugPaced, Asleep, Elapsed, Ahead
<1> QED BY <1>2, <1>4, <1>5 DEF Unstuck

\* The four threads' times are numbers.
LEMMA Times ==
  ASSUME WDTypeOK
  PROVE  /\ now \in Nat /\ MaxPass \in Nat
         /\ \A t \in Threads : silent[t] \in Nat /\ left[t] \in Nat /\ start[t] \in Nat
         /\ {"main", "mqtt_rx", "basic", "debug"} = Threads
BY Constants DEF WDTypeOK, Threads

\* A pass begins.
LEMMA PacedBegin ==
  ASSUME WDTypeOK, Stuck = {}, Paced, NEW t \in Threads, Begin(t)
  PROVE  Paced'
<1>1. /\ pc'[t] = "busy" /\ left'[t] \in Work[t] /\ start'[t] = now /\ pc[t] = "ready"
      /\ silent' = silent /\ now' = now /\ Runs(t)
      /\ \A u \in Threads : u # t => pc'[u] = pc[u] /\ left'[u] = left[u] /\ start'[u] = start[u]
  BY DEF Begin, Spend, WDTypeOK
<1>2. Elapsed(t)' = 0 BY <1>1, Times DEF Elapsed
<1>3. \A u \in Threads : pc[u] \in {"ready", "busy", "asleep"} BY NoneStuck
<1> USE DEF Paced, RxPaced, MainPaced, BasicPaced, DebugPaced, Asleep, Elapsed, Ahead
<1>4. CASE t = "mqtt_rx"
  <2>1. left'["mqtt_rx"] = 0 BY <1>1, <1>4 DEF Work
  <2> QED BY <1>1, <1>2, <1>3, <1>4, <2>1, Times
<1>5. CASE t = "main"
  <2>1. left'["main"] \in 0 .. MaxPass BY <1>1, <1>5 DEF Work
  <2>2. Asleep("mqtt_rx") BY <1>1, <1>5, RunsAlone
  <2> QED BY <1>1, <1>2, <1>3, <1>5, <2>1, <2>2, Times
<1>6. CASE t = "basic"
  <2>1. left'["basic"] = 0 BY <1>1, <1>6 DEF Work
  <2>2. Asleep("main") BY <1>1, <1>6, RunsAlone
  <2> QED BY <1>1, <1>2, <1>3, <1>6, <2>1, <2>2, Times
<1>7. CASE t = "debug"
  <2>1. left'["debug"] = 0 \/ left'["debug"] = 1 BY <1>1, <1>7 DEF Work
  <2>2. Asleep("main") /\ Asleep("mqtt_rx") /\ Asleep("basic") BY <1>1, <1>7, RunsAlone
  <2>3. RxPaced' /\ MainPaced' /\ BasicPaced' BY <1>1, <1>7, Times
  <2>4. Ahead' = 0 /\ silent["debug"] <= 2 * MaxPass + 2 BY <1>1, <1>7, <2>2, Times
  <2>5. /\ pc'["debug"] = "busy" /\ Elapsed("debug")' = 0 /\ silent'["debug"] = silent["debug"]
        /\ Asleep("main")' /\ Asleep("mqtt_rx")' /\ Asleep("basic")'
    BY <1>1, <1>2, <1>7, <2>2, Times
  <2>6. 0 <= MaxPass + 1 /\ silent'["debug"] <= 2 * MaxPass + 2 /\ silent'["debug"] <= 3 * MaxPass + 3
        /\ silent'["debug"] \in Nat
    BY <2>4, <2>5, Times
  <2>7. DebugPaced'
    <3> HIDE DEF Elapsed
    <3> QED BY <2>1, <2>4, <2>5, <2>6, Times
  <2> QED BY <2>3, <2>7
<1> QED BY <1>4, <1>5, <1>6, <1>7, Times

\* A pass ends.
LEMMA PacedFinish ==
  ASSUME WDTypeOK, Stuck = {}, Aged, Paced, NEW t \in Threads, Finish(t)
  PROVE  Paced'
<1>0. start[t] \in FirstTick .. now /\ now \in 0 .. Mod - 1 BY DEF Finish, Aged, WDTypeOK
<1>1. /\ pc'[t] = "asleep" /\ left'[t] = 1 /\ pc[t] = "busy" /\ left[t] = 0
      /\ silent'[t] = Minus(now, start[t]) /\ now' = now /\ Runs(t)
      /\ \A u \in Threads :
           u # t => /\ pc'[u] = pc[u] /\ left'[u] = left[u] /\ start'[u] = start[u]
                    /\ silent'[u] = silent[u]
  BY DEF Finish, Mark, Sleep, WDTypeOK
<1>2. silent'[t] = Elapsed(t) BY <1>0, <1>1, Constants, MinusIs DEF Elapsed
<1>3. \A u \in Threads : pc[u] \in {"ready", "busy", "asleep"} BY NoneStuck
<1> USE DEF Paced, RxPaced, MainPaced, BasicPaced, DebugPaced, Asleep, Elapsed, Ahead
<1>4. CASE t = "mqtt_rx" BY <1>1, <1>2, <1>3, <1>4, Times
<1>5. CASE t = "main"
  <2>2. Asleep("mqtt_rx") BY <1>1, <1>5, RunsAlone
  <2> QED BY <1>1, <1>2, <1>3, <1>5, <2>2, Times
<1>6. CASE t = "basic"
  <2>1. silent'["basic"] = 0 /\ Asleep("main") BY <1>1, <1>2, <1>6
  <2>2. RxPaced' /\ MainPaced' BY <1>1, <1>6, Times
  <2>3. Ahead = 0 /\ Ahead' = 0 BY <1>1, <1>6, <2>1, Times
  <2>4. BasicPaced' BY <1>1, <1>6, <2>1, <2>3, Times
  <2>5. DebugPaced' BY <1>1, <1>3, <1>6, <2>1, <2>3, Times
  <2> QED BY <2>2, <2>4, <2>5
<1>7. CASE t = "debug"
  <2>2. Asleep("main") /\ Asleep("mqtt_rx") /\ Asleep("basic") BY <1>1, <1>7, RunsAlone
  <2> QED BY <1>1, <1>2, <1>3, <1>7, <2>2, Times
<1> QED BY <1>4, <1>5, <1>6, <1>7, Times

\* When time passes, mqtt_rx sleeps, and the main thread is in a pass, or it and the
\* BASIC thread sleep too.
LEMMA TickAwake ==
  ASSUME WDTypeOK, Stuck = {}, Paced, wd = "feeding", Tick
  PROVE  /\ Asleep("mqtt_rx")
         /\ \/ Runs("main") /\ pc["main"] = "busy" /\ left["main"] > 0
            \/ /\ Asleep("main") /\ Asleep("basic")
               /\ Asleep("debug") \/ (Runs("debug") /\ pc["debug"] = "busy" /\ left["debug"] = 1)
<1>1. \A t \in Threads : Runs(t) => pc[t] = "busy" /\ left[t] > 0
  BY DEF Tick, Stuck
<1>2. Asleep("mqtt_rx") BY <1>1, RunsAlone, Times DEF Paced, RxPaced
<1>3. CASE ~Asleep("main") BY <1>1, <1>2, <1>3, RunsAlone, Times
<1>4. CASE Asleep("main")
  <2>1. Asleep("basic") BY <1>1, <1>2, <1>4, RunsAlone, Times DEF Paced, BasicPaced
  <2>2. ~Asleep("debug") => Runs("debug") /\ pc["debug"] = "busy" /\ left["debug"] > 0
    BY <1>1, <1>2, <1>4, <2>1, RunsAlone, Times
  <2> QED BY <1>2, <1>4, <2>1, <2>2, Times DEF Paced, DebugPaced
<1> QED BY <1>3, <1>4

\* What a tick does to a thread.
LEMMA TickMoves ==
  ASSUME WatchInv, Stuck = {}, Paced, wd = "feeding", Unhurried, Tick, NEW t \in Threads
  PROVE  /\ silent'[t] = silent[t] + 1 /\ start'[t] = start[t] /\ now' = now + 1
         /\ Asleep(t) => pc'[t] = "ready"
         /\ ~Asleep(t) => pc'[t] = pc[t]
         /\ ~Asleep(t) /\ ~Runs(t) => left'[t] = left[t]
         /\ Runs(t) /\ left[t] > 0 => left'[t] = left[t] - 1
<1>1. silent'[t] = silent[t] + 1 /\ start' = start BY TickNearer
<1>2. now' = now + 1 BY TickCounts DEF WatchInv
<1>3. /\ pc'[t] = IF pc[t] = "asleep" /\ left[t] <= 1 THEN "ready" ELSE pc[t]
      /\ left'[t] = IF Spent(t) /\ left[t] > 0 THEN left[t] - 1 ELSE left[t]
  <2>1. /\ left' = [u \in Threads |-> IF Spent(u) /\ left[u] > 0 THEN left[u] - 1 ELSE left[u]]
        /\ pc' = [u \in Threads |-> IF pc[u] = "asleep" /\ left[u] <= 1 THEN "ready" ELSE pc[u]]
    BY DEF Tick
  <2> QED BY <2>1
<1>4. Asleep(t) => left[t] = 1
  BY Times DEF WatchInv, Paced, RxPaced, MainPaced, BasicPaced, DebugPaced
<1>5. left[t] \in Nat BY Times DEF WatchInv
<1>6. Asleep(t) => pc'[t] = "ready" BY <1>3, <1>4 DEF Asleep
<1>7. ~Asleep(t) => pc'[t] = pc[t] BY <1>3 DEF Asleep
<1>8. ~Asleep(t) /\ ~Runs(t) => left'[t] = left[t] BY <1>3 DEF Asleep, Spent
<1>9. Runs(t) /\ left[t] > 0 => left'[t] = left[t] - 1 BY <1>3 DEF Spent
<1> QED BY <1>1, <1>2, <1>6, <1>7, <1>8, <1>9

\* Time passes.
LEMMA PacedTick ==
  ASSUME WatchInv, Unhurried, Stuck = {}, wd = "feeding", Paced, Tick
  PROVE  Paced'
<1>1. /\ Asleep("mqtt_rx")
      /\ \/ Runs("main") /\ pc["main"] = "busy" /\ left["main"] > 0
         \/ /\ Asleep("main") /\ Asleep("basic")
            /\ Asleep("debug") \/ (Runs("debug") /\ pc["debug"] = "busy" /\ left["debug"] = 1)
  BY TickAwake DEF WatchInv
<1>2. \A t \in Threads :
         /\ silent'[t] = silent[t] + 1 /\ start'[t] = start[t] /\ now' = now + 1
         /\ Asleep(t) => pc'[t] = "ready"
         /\ ~Asleep(t) => pc'[t] = pc[t]
         /\ ~Asleep(t) /\ ~Runs(t) => left'[t] = left[t]
         /\ Runs(t) /\ left[t] > 0 => left'[t] = left[t] - 1
  BY TickMoves
<1>3. \A u \in Threads : pc[u] \in {"ready", "busy", "asleep"} BY NoneStuck DEF WatchInv
<1>4. Threads = {"main", "mqtt_rx", "basic", "debug"} BY DEF Threads
<1>n. /\ now \in Nat /\ MaxPass \in Nat
      /\ \A t \in Threads : silent[t] \in Nat /\ left[t] \in Nat /\ start[t] \in Nat
  BY Times DEF WatchInv
<1>r. (Runs("main") => ~Runs("basic") /\ ~Runs("debug"))
  BY RunsAlone DEF WatchInv
<1> USE DEF Paced, Asleep, Elapsed
<1>5. RxPaced' BY <1>1, <1>2, <1>4, <1>n DEF RxPaced
<1>6. CASE Runs("main") /\ pc["main"] = "busy" /\ left["main"] > 0
  <2>1. pc'["main"] = "busy" /\ left'["main"] = left["main"] - 1 /\ Ahead' = Ahead - 1
        /\ Ahead \in Nat /\ Ahead > 0
    BY <1>2, <1>4, <1>6, <1>n DEF Ahead
  <2>2. MainPaced' BY <1>2, <1>4, <1>6, <1>n, <2>1 DEF MainPaced
  <2>3. pc["basic"] = "ready" BY <1>6 DEF BasicPaced
  <2>4. BasicPaced' BY <1>2, <1>4, <1>n, <2>1, <2>3 DEF BasicPaced
  <2>5. pc["debug"] # "asleep" /\ ~(pc["debug"] = "busy" /\ left["debug"] # 0)
    BY <1>6 DEF DebugPaced
  <2>6. pc'["debug"] = pc["debug"] /\ left'["debug"] = left["debug"] BY <1>2, <1>4, <1>6, <1>r, <2>5
  <2>7. DebugPaced' BY <1>2, <1>3, <1>4, <1>n, <2>1, <2>5, <2>6 DEF DebugPaced
  <2> QED BY <1>5, <2>2, <2>4, <2>7
<1>7. CASE /\ Asleep("main") /\ Asleep("basic")
           /\ Asleep("debug") \/ (Runs("debug") /\ pc["debug"] = "busy" /\ left["debug"] = 1)
  <2>1. pc'["main"] = "ready" /\ pc'["basic"] = "ready" /\ Ahead' = MaxPass
    BY <1>2, <1>4, <1>7 DEF Ahead
  <2>2. MainPaced' BY <1>2, <1>4, <1>7, <1>n, <2>1 DEF MainPaced
  <2>3. BasicPaced' BY <1>2, <1>4, <1>7, <1>n, <2>1 DEF BasicPaced
  <2>4. CASE Asleep("debug")
    <3>1. pc'["debug"] = "ready" BY <1>2, <1>4, <2>4
    <3> QED BY <1>2, <1>4, <1>5, <1>n, <2>1, <2>2, <2>3, <2>4, <3>1 DEF DebugPaced
  <2>5. CASE Runs("debug") /\ pc["debug"] = "busy" /\ left["debug"] = 1
    <3>1. pc'["debug"] = "busy" /\ left'["debug"] = 0 BY <1>2, <1>4, <2>5
    <3> QED BY <1>2, <1>4, <1>5, <1>n, <2>1, <2>2, <2>3, <2>5, <3>1 DEF DebugPaced
  <2> QED BY <1>7, <2>4, <2>5
<1> QED BY <1>1, <1>6, <1>7

\* Scripts never run, and without stuck threads everything keeps its pace.
LEMMA PaceStep ==
  ASSUME Unhurried, WatchInv, PaceInv, [WDNext]_wdVars
  PROVE  PaceInv'
<1>t. WDTypeOK BY DEF WatchInv
<1>1. ~script'
  <2>1. ~script BY DEF PaceInv
  <2> QED BY <2>1 DEF WDNext, WDThreadStep, Begin, Finish, ScriptStep, ScriptEnd, Check,
                      Tick, GetStuck, wdVars
<1> SUFFICES ASSUME Stuck' = {} PROVE Unstuck' BY <1>1 DEF PaceInv
<1>2. Stuck = {} BY <1>t, StaysStuck
<1>3. Unstuck /\ ~script BY <1>2 DEF PaceInv
<1>4. ASSUME NEW t \in Threads, Begin(t) PROVE Unstuck'
  BY <1>t, <1>2, <1>3, <1>4, AgedThread, PacedBegin DEF Unstuck, Begin
<1>5. ASSUME NEW t \in Threads, Finish(t) PROVE Unstuck'
  BY <1>t, <1>2, <1>3, <1>5, AgedThread, PacedFinish DEF Unstuck, Finish
<1>6. ASSUME NEW t \in Threads, GetStuck(t) PROVE FALSE
  <2>1. pc'[t] \in {"blocked", "spinning"} BY <1>t, <1>6 DEF GetStuck, WDTypeOK
  <2> QED BY <2>1 DEF Stuck
<1>7. CASE ScriptStep \/ ScriptEnd BY <1>3, <1>7 DEF ScriptStep, ScriptEnd
<1>8. CASE Check BY <1>t, <1>2, <1>3, <1>8, UnstuckCheck
<1>9. CASE Tick
  <2>1. wd = "feeding" /\ wd' = wd BY <1>3, <1>9 DEF Unstuck, Tick
  <2> QED BY <1>2, <1>3, <1>9, <2>1, AgedTick, PacedTick DEF Unstuck
<1>10. CASE UNCHANGED wdVars
  BY <1>3, <1>10 DEF wdVars, Unstuck, Aged, Paced, RxPaced, MainPaced, BasicPaced, DebugPaced,
                     Asleep, Elapsed, Ahead
<1> QED BY <1>4, <1>5, <1>6, <1>7, <1>8, <1>9, <1>10 DEF WDNext, WDThreadStep

\* At first all threads are about to make their first pass.
LEMMA PaceInit ==
  ASSUME Unhurried, WDInit
  PROVE  PaceInv
<1>1. ~script BY DEF Unhurried, WDInit
<1>2. HalTick = (FirstTick + Offset) % Mod /\ now = FirstTick BY DEF WDInit, HalTick
<1>3. wdDue < now \/ FirstTick + Feed <= wdDue
  <2>1. wdDue = IF FirstTick + Feed < Mod THEN FirstTick + Feed ELSE FirstTick + Feed - Mod
    BY Constants, Wraps DEF WDInit
  <2> QED BY <1>2, <2>1, Constants
<1>4. \A t \in Threads : pc[t] = "ready" /\ silent[t] = 0 /\ left[t] = 0 /\ hb[t] = HalTick
  BY DEF WDInit
<1>5. Aged BY <1>2, <1>3, <1>4, Constants DEF Aged
<1>6. Paced
  BY <1>4, Constants DEF Paced, RxPaced, MainPaced, BasicPaced, DebugPaced, Asleep, Ahead, Threads
<1> QED BY <1>1, <1>5, <1>6 DEF PaceInv, Unstuck, WDInit

\* The watchdog thread stops feeding only for a thread that is stuck: the others,
\* however long their passes and whichever order they run in, are never late.
THEOREM OnlyStuckStops ==
  ASSUME Unhurried
  PROVE  WDSpec => []StopMeansStuck
<1>1. WDInit => PaceInv BY PaceInit
<1>2. WatchInv /\ PaceInv /\ [WDNext]_wdVars => PaceInv' BY PaceStep
<1>3. PaceInv => StopMeansStuck BY DEF PaceInv, Unstuck, StopMeansStuck
<1> QED BY <1>1, <1>2, <1>3, Watched, PTL DEF WDSpec
=============================================================================
