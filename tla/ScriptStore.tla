------------------------------ MODULE ScriptStore ------------------------------
(***************************************************************************)
(* The two BASIC script slots in the EEPROM (src/Storage/Src/app_eeprom.c) *)
(* and the boot script loaded from them (src/Interpreter/Src/app_basic.c,  *)
(* by the basic thread of src/Application/Src/app_rtos.c): primary slot    *)
(* first, the other one if that fails, an IMPORT resolved by the name in a *)
(* slot's header.                                                          *)
(*                                                                         *)
(* A slot is a header (name, size, CRC) and the pages of the script's      *)
(* text; a header is modelled as the script it was made for.  Each step is *)
(* one transaction on the I2C bus: HAL refuses a second one meanwhile.     *)
(* Nothing in this firmware calls eeprom_write_basic_script yet: its       *)
(* caller is taken to be a thread of any priority, one call at a time.     *)
(***************************************************************************)
EXTENDS Naturals, Sequences

CONSTANTS
  Page,      \* what a page of text may hold
  Script,    \* records: name, pages of text, uses (the name IMPORTed or None), parses
  None,
  MaxPages,  \* pages of text in a slot
  MaxWrites, \* bound: scripts written
  MaxFaults  \* bound: resets, failed reads, failed or lost page writes

ASSUME ConstantsAssumption ==
  /\ None \notin Script
  /\ \A s \in Script : s.pages \in Seq(Page) /\ Len(s.pages) \in 1 .. MaxPages
  /\ MaxPages \in Nat \ {0} /\ MaxWrites \in Nat /\ MaxFaults \in Nat

Slot == {"app01", "app02"}

VARIABLES
  header,  \* per slot: the script its header was written for
  payload, \* per slot: pages of text
  writer,  \* {the write in progress}
  at,      \* the boot script: which transaction is next, or "run" or "idle"
  slot,    \* the slot tried as the program
  source,  \* the slot to read, or whose name to compare
  read,    \* the header read last
  loaded,  \* the texts the interpreter has taken: the program, its library
  stored,  \* per slot: {s} since s was reported written, no page of it being lost
  put,     \* per slot: the scripts it was given
  quiet,   \* nothing was written and no read failed since the boot
  writes, faults \* how often, for the bounds

eeprom == <<header, payload>>
boot == <<at, slot, source, read, loaded>>
vars == <<eeprom, writer, boot, stored, put, quiet, writes, faults>>

\* Mutant: the base address ignores the slot.
BaseOfFirst(s) == "app01"

Base(s) == s

-----------------------------------------------------------------------------
Init ==
  /\ header \in [Slot -> Script \cup {None}]
  /\ payload = [s \in Slot |-> [i \in 1 .. MaxPages |->
                  IF header[s] # None /\ i <= Len(header[s].pages)
                  THEN header[s].pages[i] ELSE None]]
  /\ writer = {}
  /\ at = "header" /\ slot = "app01" /\ source = "app01" /\ read = None /\ loaded = <<>>
  /\ put = [s \in Slot |-> {header[s]} \ {None}]
  /\ stored = put
  /\ quiet = TRUE
  /\ writes = 0 /\ faults = 0

Fault == faults < MaxFaults /\ faults' = faults + 1

-----------------------------------------------------------------------------
\* eeprom_write_basic_script: the text page by page, then the header; nothing is
\* read back.

BeginWrite ==
  /\ writer = {} /\ writes < MaxWrites /\ writes' = writes + 1
  /\ \E s \in Slot, script \in Script :
       /\ writer' = {[slot |-> s, script |-> script, page |-> 1, lost |-> FALSE]}
       /\ stored' = [stored EXCEPT ![s] = {}]
       /\ put' = [put EXCEPT ![s] = @ \cup {script}]
  /\ UNCHANGED <<eeprom, boot, quiet, faults>>

\* Mutant: the last page of the text is not written.
LastPageShort(script) == Len(script.pages) - 1

LastPage(script) == Len(script.pages)

IsHeader(w) == w.page > LastPage(w.script)

Put(w) ==
  IF IsHeader(w)
  THEN /\ header' = [header EXCEPT ![Base(w.slot)] = w.script]
       /\ UNCHANGED payload
  ELSE /\ payload' = [payload EXCEPT ![Base(w.slot)][w.page] = w.script.pages[w.page]]
       /\ UNCHANGED header

\* Mutant: the call does not end with the header.
AdvanceMore(w) == writer' = {[w EXCEPT !.page = @ + 1]} /\ UNCHANGED stored

\* After the header the call returns SUCCESS.
Advance(w) ==
  IF IsHeader(w)
  THEN /\ writer' = {}
       /\ stored' = IF w.lost THEN stored ELSE [stored EXCEPT ![w.slot] = {w.script}]
  ELSE writer' = {[w EXCEPT !.page = @ + 1]} /\ UNCHANGED stored

WritePage ==
  /\ \E w \in writer : Put(w) /\ Advance(w)
  /\ quiet' = FALSE
  /\ UNCHANGED <<boot, put, writes, faults>>

\* The page is acknowledged but not stored.
PageLost ==
  /\ \E w \in writer : Advance([w EXCEPT !.lost = TRUE])
  /\ Fault /\ quiet' = FALSE
  /\ UNCHANGED <<eeprom, boot, put, writes>>

\* The write of the page fails, or the wait after it: the call returns ERROR.
PageFails ==
  /\ \E w \in writer : Put(w) \/ UNCHANGED eeprom
  /\ writer' = {} /\ Fault /\ quiet' = FALSE
  /\ UNCHANGED <<boot, stored, put, writes>>

-----------------------------------------------------------------------------
\* app_basic_load, one attempt after the other.

\* Mutant: the other slot is not tried.
GiveUpAtOnce ==
  /\ at' = "idle" /\ loaded' = <<>> /\ UNCHANGED <<slot, source>>

\* app_basic_load_from_slot fails.
GiveUp ==
  /\ loaded' = <<>>
  /\ IF slot = "app01"
     THEN at' = "header" /\ slot' = "app02" /\ source' = "app02"
     ELSE at' = "idle" /\ UNCHANGED <<slot, source>>

Importing == loaded # <<>>
Wanted == loaded[1].uses

\* The header is read twice for an import, for its name and with the text.
ReadHeader ==
  /\ at = "header"
  /\ read' = header[Base(source)]
  /\ IF read' = None THEN GiveUp ELSE at' = "text" /\ UNCHANGED <<slot, source, loaded>>

\* Mutant: the CRC of the text is not compared.
AcceptsAny(script, pages) == TRUE

Accepts(script, pages) == pages = script.pages

Text == [i \in 1 .. Len(read.pages) |-> payload[Base(source)][i]]

\* An import inside an import is refused, unless of the same name: that is skipped.
MayImport == ~Importing \/ read.uses = Wanted

\* The text is read, compared with its CRC and parsed, up to its IMPORT.
ReadText ==
  /\ at = "text"
  /\ IF ~Accepts(read, Text) \/ ~read.parses \/ (read.uses # None /\ ~MayImport)
     THEN GiveUp
     ELSE /\ loaded' = Append(loaded, [slot |-> source, pages |-> Text, uses |-> read.uses])
          /\ at' = IF read.uses = None \/ Importing THEN "run" ELSE "name"
          /\ source' = IF at' = "name" THEN "app01" ELSE source
          /\ UNCHANGED slot
  /\ UNCHANGED read

\* eeprom_basic_script_slot_from_package_name: the first slot of that name; a slot's
\* own name will do if no header has it.
NotNamed ==
  CASE source = "app01" -> source' = "app02" /\ UNCHANGED <<at, slot, loaded>>
    [] source = "app02" /\ Wanted \in Slot ->
         source' = Wanted /\ at' = "header" /\ UNCHANGED <<slot, loaded>>
    [] source = "app02" /\ Wanted \notin Slot -> GiveUp

ReadName ==
  /\ at = "name" /\ UNCHANGED read
  /\ IF header[Base(source)] # None /\ header[Base(source)].name = Wanted
     THEN at' = "header" /\ UNCHANGED <<slot, source, loaded>>
     ELSE NotNamed

\* A read fails, or the interpreter finds no memory for the text.
ReadFails ==
  /\ at \in {"header", "text", "name"} /\ Fault /\ quiet' = FALSE
  /\ IF at = "name" THEN NotNamed ELSE GiveUp
  /\ UNCHANGED <<eeprom, writer, read, stored, put, writes>>

Load ==
  /\ ReadHeader \/ ReadText \/ ReadName
  /\ UNCHANGED <<eeprom, writer, stored, put, quiet, writes, faults>>

\* A reset: of the watchdog, by `reboot`, or of the power.
Crash ==
  /\ Fault /\ writer' = {} /\ quiet' = TRUE
  /\ at' = "header" /\ slot' = "app01" /\ source' = "app01" /\ read' = None /\ loaded' = <<>>
  /\ UNCHANGED <<eeprom, stored, put, writes>>

Next == BeginWrite \/ WritePage \/ PageLost \/ PageFails \/ Load \/ ReadFails \/ Crash

Spec == Init /\ [][Next]_vars

-----------------------------------------------------------------------------
Where == {"header", "text", "name", "run", "idle"}
Writes == [slot : Slot, script : Script, page : 1 .. MaxPages + 1, lost : BOOLEAN]
Texts == [slot : Slot, pages : {s.pages : s \in Script}, uses : {s.uses : s \in Script}]

\* Every variable has its type; a write ends with its header, a library is read only
\* for a program that imports it, and imports do not nest.
TypeOK ==
  /\ header \in [Slot -> Script \cup {None}]
  /\ payload \in [Slot -> [1 .. MaxPages -> Page \cup {None}]]
  /\ \A w \in writer : w \in Writes /\ w.page <= Len(w.script.pages) + 1
  /\ at \in Where /\ slot \in Slot /\ source \in Slot /\ read \in Script \cup {None}
  /\ loaded \in Seq(Texts) /\ Len(loaded) <= 2
  /\ at = "text" => read # None
  /\ at = "name" => Len(loaded) = 1 /\ Wanted # None
  /\ at \in {"header", "text"} => Len(loaded) <= 1
  /\ stored \in [Slot -> SUBSET Script] /\ put \in [Slot -> SUBSET Script]
  /\ quiet \in BOOLEAN
  /\ writes \in 0 .. MaxWrites /\ faults \in 0 .. MaxFaults

Whole(s) ==
  /\ header[s] # None
  /\ \A i \in 1 .. Len(header[s].pages) : payload[s][i] = header[s].pages[i]

\* What a slot gives is the script written to it last or nothing, and a write never
\* touches the other slot, whatever is lost or interrupted.
Store == INSTANCE SlotStore WITH
  committed <- header,
  intact <- {s \in Slot : Whole(s)},
  writing <- {[slot |-> w.slot, script |-> w.script] : w \in writer}
StoreRefined == Store!Spec

\* A script reported written can be read from then on, however the other slot is
\* written and whatever is reset, if the EEPROM stored the pages it acknowledged.
WriteStored == \A s \in Slot : \A script \in stored[s] : Whole(s) /\ header[s] = script

\* The interpreter never gets a text mixed from two scripts: not of a write cut
\* short and not of one made while it reads.
TakesOneScript ==
  \A i \in 1 .. Len(loaded) : \E script \in put[loaded[i].slot] : loaded[i].pages = script.pages

\* The slot an import is resolved to.
Target(name) ==
  LET named == {s \in Slot : header[s] # None /\ header[s].name = name}
  IN  IF named = {} THEN {name} \cap Slot
      ELSE IF "app01" \in named THEN {"app01"} ELSE named

Runnable(s) ==
  /\ Whole(s) /\ header[s].parses
  /\ header[s].uses # None =>
       \E t \in Target(header[s].uses) :
         Whole(t) /\ header[t].parses /\ header[t].uses \in {None, header[s].uses}

\* A boot that nothing disturbs runs the primary slot if it can run, else the other
\* one, and idles only if neither can, however torn earlier writes left the EEPROM.
BootServes ==
  quiet =>
    /\ at = "idle" => \A s \in Slot : ~Runnable(s)
    /\ at = "run" => Runnable(slot) /\ (slot = "app02" => ~Runnable("app01"))
=============================================================================
