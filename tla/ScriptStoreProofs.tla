--------------------------- MODULE ScriptStoreProofs ---------------------------
(***************************************************************************)
(* Proofs about ScriptStore, for every set of scripts, every size of them, *)
(* and any number of writes, resets, and failed or lost transactions.      *)
(***************************************************************************)
EXTENDS ScriptStore, TLAPS

-----------------------------------------------------------------------------
\* Types.

\* A write stays within its text and header, and the EEPROM keeps its shape.
LEMMA PutTyped ==
  ASSUME TypeOK, NEW w \in writer, Put(w)
  PROVE  /\ header' \in [Slot -> Script \cup {None}]
         /\ payload' \in [Slot -> [1 .. MaxPages -> Page \cup {None}]]
<1>1. w \in Writes /\ w.page <= Len(w.script.pages) + 1 BY DEF TypeOK
<1>2. w.script \in Script /\ w.slot \in Slot /\ w.page \in Nat \ {0} BY <1>1, ConstantsAssumption DEF Writes
<1>3. CASE IsHeader(w) BY <1>2, <1>3 DEF Put, TypeOK, Base
<1>4. CASE ~IsHeader(w)
  <2>1. Len(w.script.pages) \in 1 .. MaxPages /\ w.script.pages \in Seq(Page)
    BY <1>2, ConstantsAssumption
  <2>2. w.page \in 1 .. Len(w.script.pages) BY <1>2, <1>4, <2>1 DEF IsHeader, LastPage
  <2>3. w.script.pages[w.page] \in Page BY <2>1, <2>2
  <2>4. w.page \in 1 .. MaxPages BY <2>1, <2>2, ConstantsAssumption
  <2>5. payload[w.slot] \in [1 .. MaxPages -> Page \cup {None}] BY <1>2 DEF TypeOK
  <2>6. [payload[w.slot] EXCEPT ![w.page] = w.script.pages[w.page]] \in [1 .. MaxPages -> Page \cup {None}]
    BY <2>3, <2>4, <2>5
  <2>7. payload' = [payload EXCEPT ![w.slot] = [payload[w.slot] EXCEPT ![w.page] = w.script.pages[w.page]]]
        /\ UNCHANGED header
    BY <1>2, <1>4 DEF Put, Base, TypeOK
  <2> QED BY <1>2, <2>6, <2>7 DEF TypeOK
<1> QED BY <1>3, <1>4

\* The write goes on to the next page or ends.
LEMMA AdvanceTyped ==
  ASSUME TypeOK, NEW w, w \in Writes, w.page <= Len(w.script.pages) + 1, Advance(w)
  PROVE  /\ \A v \in writer' : v \in Writes /\ v.page <= Len(v.script.pages) + 1
         /\ stored' \in [Slot -> SUBSET Script]
<1>1. w.script \in Script /\ w.slot \in Slot /\ w.page \in Nat \ {0} /\ w.lost \in BOOLEAN
  BY ConstantsAssumption DEF Writes
<1>2. Len(w.script.pages) \in 1 .. MaxPages BY <1>1, ConstantsAssumption
<1>3. CASE IsHeader(w) BY <1>1, <1>3 DEF Advance, TypeOK
<1>4. CASE ~IsHeader(w)
  <2> DEFINE v == [w EXCEPT !.page = @ + 1]
  <2>1. v.page = w.page + 1 /\ v.script = w.script /\ v.slot = w.slot /\ v.lost = w.lost BY DEF Writes
  <2>2. v.page <= Len(v.script.pages) + 1 BY <1>1, <1>2, <1>4, <2>1 DEF IsHeader, LastPage
  <2>3. v.page \in 1 .. MaxPages + 1 BY <1>1, <1>2, <2>1, <2>2, ConstantsAssumption
  <2>4. v \in Writes BY <1>1, <2>1, <2>3 DEF Writes
  <2> HIDE DEF v
  <2>5. writer' = {v} /\ stored' = stored BY <1>4 DEF Advance, v
  <2> QED BY <2>2, <2>4, <2>5 DEF TypeOK
<1> QED BY <1>3, <1>4

\* Whatever fails, the other slot is next, or none.
LEMMA GiveUpTyped ==
  ASSUME TypeOK, GiveUp
  PROVE  /\ at' \in {"header", "idle"} /\ slot' \in Slot /\ source' \in Slot
         /\ loaded' = <<>> /\ loaded' \in Seq(Texts)
BY DEF GiveUp, TypeOK, Slot

\* Passing over a slot's name leads to a slot or to giving up.
LEMMA NotNamedTyped ==
  ASSUME TypeOK, at = "name", NotNamed
  PROVE  /\ at' \in Where \ {"text"} /\ slot' \in Slot /\ source' \in Slot
         /\ loaded' \in Seq(Texts) /\ Len(loaded') <= 1
         /\ at' = "name" => Len(loaded') = 1 /\ Wanted' # None
<1>1. source \in Slot /\ slot \in Slot /\ Wanted # None BY DEF TypeOK
<1>l. loaded \in Seq(Texts) /\ Len(loaded) = 1 BY DEF TypeOK
<1>2. CASE source = "app01"
  <2>1. source' = "app02" /\ UNCHANGED <<at, slot, loaded>> BY <1>2 DEF NotNamed
  <2>2. Wanted' = Wanted BY <2>1 DEF Wanted
  <2>3. at' = "name" /\ slot' = slot /\ source' = "app02" /\ loaded' = loaded BY <2>1
  <2>4. at' \in Where \ {"text"} /\ source' \in Slot BY <2>3 DEF Where, Slot
  <2>5. loaded' \in Seq(Texts) /\ Len(loaded') = 1 BY <1>l, <2>3
  <2>6. Wanted' # None /\ slot' \in Slot BY <1>1, <2>2, <2>3
  <2> QED BY <2>4, <2>5, <2>6
<1>3. CASE source = "app02" /\ Wanted \in Slot
  <2>1. source' = Wanted /\ at' = "header" /\ UNCHANGED <<slot, loaded>> BY <1>3 DEF NotNamed
  <2>2. at' \in Where \ {"text"} /\ at' # "name" BY <2>1 DEF Where
  <2>3. loaded' \in Seq(Texts) /\ Len(loaded') = 1 BY <1>l, <2>1
  <2>4. source' \in Slot /\ slot' \in Slot BY <1>1, <1>3, <2>1
  <2> QED BY <2>2, <2>3, <2>4
<1>4. CASE source = "app02" /\ Wanted \notin Slot
  <2>1. GiveUp BY <1>4 DEF NotNamed
  <2> QED BY <2>1, GiveUpTyped DEF Where
<1> QED BY <1>1, <1>2, <1>3, <1>4 DEF Slot

\* Reading keeps the loader's variables typed.
LEMMA LoadTyped ==
  ASSUME TypeOK, ReadHeader \/ ReadText \/ ReadName
  PROVE  /\ at' \in Where /\ slot' \in Slot /\ source' \in Slot /\ read' \in Script \cup {None}
         /\ loaded' \in Seq(Texts) /\ Len(loaded') <= 2
         /\ at' = "text" => read' # None
         /\ at' = "name" => Len(loaded') = 1 /\ Wanted' # None
         /\ at' \in {"header", "text"} => Len(loaded') <= 1
<1>1. CASE ReadHeader
  <2>1. read' \in Script \cup {None} BY <1>1 DEF ReadHeader, TypeOK, Base
  <2>2. CASE read' = None BY <1>1, <2>1, <2>2, GiveUpTyped DEF ReadHeader, Where
  <2>3. CASE read' # None BY <1>1, <2>1, <2>3 DEF ReadHeader, TypeOK, Where
  <2> QED BY <2>2, <2>3
<1>2. CASE ReadText
  <2>0. at = "text" /\ read' = read BY <1>2 DEF ReadText
  <2>1. read' = read /\ read \in Script /\ Len(loaded) <= 1 /\ loaded \in Seq(Texts)
    BY <2>0 DEF TypeOK
  <2>2. CASE GiveUp BY <2>1, <2>2, GiveUpTyped DEF Where
  <2>3. CASE ~GiveUp
    <3> DEFINE t == [slot |-> source, pages |-> Text, uses |-> read.uses]
    <3>1. Text = read.pages BY <1>2, <2>3 DEF ReadText, Accepts
    <3>2. t \in Texts BY <2>1, <3>1 DEF Texts, TypeOK
    <3>3. loaded' = Append(loaded, t) BY <1>2, <2>3 DEF ReadText
    <3>4. t.uses = read.uses OBVIOUS
    <3> HIDE DEF t
    <3>5. loaded' \in Seq(Texts) /\ Len(loaded') = Len(loaded) + 1 BY <2>1, <3>2, <3>3
    <3>6. slot' = slot /\ at' = (IF read.uses = None \/ Importing THEN "run" ELSE "name")
          /\ source' = (IF at' = "name" THEN "app01" ELSE source)
      BY <1>2, <2>3 DEF ReadText
    <3>7. ASSUME at' = "name" PROVE Len(loaded') = 1 /\ Wanted' # None
      <4>1. loaded = <<>> /\ read.uses # None BY <3>6, <3>7 DEF Importing
      <4>2. loaded' = <<t>> BY <3>2, <3>3, <4>1
      <4> QED BY <3>4, <4>1, <4>2 DEF Wanted
    <3>8. at' \in {"run", "name"} /\ slot' \in Slot /\ source' \in Slot BY <3>6 DEF Slot, TypeOK
    <3>9. Len(loaded') <= 2 BY <2>1, <3>5
    <3> QED BY <2>1, <3>5, <3>7, <3>8, <3>9 DEF Where
  <2> QED BY <2>2, <2>3
<1>3. CASE ReadName
  <2>1. read' = read /\ at = "name" BY <1>3 DEF ReadName
  <2>0. Len(loaded) = 1 /\ Wanted # None /\ loaded \in Seq(Texts) /\ read \in Script \cup {None}
    BY <2>1 DEF TypeOK
  <2>2. CASE NotNamed BY <2>0, <2>1, <2>2, NotNamedTyped
  <2>3. CASE ~NotNamed
    <3>1. at' = "header" /\ UNCHANGED <<slot, source, loaded>> BY <1>3, <2>3 DEF ReadName
    <3>2. slot' \in Slot /\ source' \in Slot /\ at' \in Where BY <3>1 DEF TypeOK, Where
    <3>3. Len(loaded') = 1 /\ loaded' \in Seq(Texts) BY <2>0, <3>1
    <3>4. at' # "text" /\ at' # "name" BY <3>1
    <3>5. Len(loaded') <= 1 /\ Len(loaded') <= 2 BY <3>3
    <3> QED BY <2>0, <2>1, <3>2, <3>3, <3>4, <3>5
  <2> QED BY <2>2, <2>3
<1> QED BY <1>1, <1>2, <1>3

\* TypeOK is inductive.
LEMMA TypeStep == TypeOK /\ [Next]_vars => TypeOK'
<1> SUFFICES ASSUME TypeOK, [Next]_vars PROVE TypeOK' OBVIOUS
<1> USE DEF eeprom, boot
<1>c. MaxWrites \in Nat /\ MaxFaults \in Nat BY ConstantsAssumption
<1>f. ASSUME Fault PROVE faults' \in 0 .. MaxFaults BY <1>c, <1>f DEF Fault, TypeOK
<1>1. CASE BeginWrite
  <2>1. PICK s \in Slot, script \in Script :
          /\ writer' = {[slot |-> s, script |-> script, page |-> 1, lost |-> FALSE]}
          /\ stored' = [stored EXCEPT ![s] = {}]
          /\ put' = [put EXCEPT ![s] = @ \cup {script}]
    BY <1>1 DEF BeginWrite
  <2>2. Len(script.pages) \in 1 .. MaxPages /\ MaxPages \in Nat BY ConstantsAssumption
  <2>3. \A w \in writer' : w \in Writes /\ w.page <= Len(w.script.pages) + 1
    <3> DEFINE w == [slot |-> s, script |-> script, page |-> 1, lost |-> FALSE]
    <3>1. w \in Writes BY <2>2 DEF Writes
    <3>2. w.page <= Len(w.script.pages) + 1 BY <2>2
    <3> QED BY <2>1, <3>1, <3>2
  <2>4. stored' \in [Slot -> SUBSET Script] /\ put' \in [Slot -> SUBSET Script]
    BY <2>1 DEF TypeOK
  <2>5. writes' \in 0 .. MaxWrites BY <1>1, <1>c DEF BeginWrite, TypeOK
  <2> QED BY <1>1, <2>3, <2>4, <2>5 DEF BeginWrite, TypeOK, Wanted
<1>2. CASE WritePage
  <2>1. PICK w \in writer : Put(w) /\ Advance(w) BY <1>2 DEF WritePage
  <2>2. w \in Writes /\ w.page <= Len(w.script.pages) + 1 BY DEF TypeOK
  <2> QED BY <1>2, <2>1, <2>2, PutTyped, AdvanceTyped DEF WritePage, TypeOK, Wanted
<1>3. CASE PageLost
  <2>1. PICK w \in writer : Advance([w EXCEPT !.lost = TRUE]) BY <1>3 DEF PageLost
  <2> DEFINE v == [w EXCEPT !.lost = TRUE]
  <2>2. v \in Writes /\ v.page <= Len(v.script.pages) + 1 BY DEF TypeOK, Writes
  <2> HIDE DEF v
  <2>3. /\ \A u \in writer' : u \in Writes /\ u.page <= Len(u.script.pages) + 1
        /\ stored' \in [Slot -> SUBSET Script]
    BY <2>1, <2>2, AdvanceTyped DEF v
  <2> QED BY <1>3, <1>f, <2>3 DEF PageLost, TypeOK, Wanted
<1>4. CASE PageFails
  <2>1. PICK w \in writer : Put(w) \/ UNCHANGED eeprom BY <1>4 DEF PageFails
  <2>2. header' \in [Slot -> Script \cup {None}] /\ payload' \in [Slot -> [1 .. MaxPages -> Page \cup {None}]]
    BY <2>1, PutTyped DEF TypeOK
  <2> QED BY <1>4, <1>f, <2>2 DEF PageFails, TypeOK, Wanted
<1>5. CASE Load BY <1>5, LoadTyped DEF Load, TypeOK
<1>6. CASE ReadFails
  <2>1. /\ at' \in Where /\ slot' \in Slot /\ source' \in Slot
        /\ loaded' \in Seq(Texts) /\ Len(loaded') <= 2 /\ at' # "text"
        /\ at' = "name" => Len(loaded') = 1 /\ Wanted' # None
        /\ at' = "header" => Len(loaded') <= 1
    <3>1. CASE at = "name" BY <1>6, <3>1, NotNamedTyped DEF ReadFails
    <3>2. CASE at # "name"
      <4>1. GiveUp BY <1>6, <3>2 DEF ReadFails
      <4> QED BY <4>1, GiveUpTyped DEF Where
    <3> QED BY <3>1, <3>2
  <2>2. faults' \in 0 .. MaxFaults /\ quiet' = FALSE
        /\ UNCHANGED <<header, payload, writer, read, stored, put, writes>>
    BY <1>6, <1>f DEF ReadFails
  <2> QED BY <2>1, <2>2 DEF TypeOK
<1>7. CASE Crash BY <1>7, <1>f DEF Crash, TypeOK, Where, Slot
<1>8. CASE UNCHANGED vars BY <1>8 DEF vars, TypeOK, Wanted
<1> QED BY <1>1, <1>2, <1>3, <1>4, <1>5, <1>6, <1>7, <1>8 DEF Next

\* The EEPROM starts with whole scripts or nothing.
LEMMA InitTyped == Init => TypeOK
<1> SUFFICES ASSUME Init PROVE TypeOK OBVIOUS
<1>1. header \in [Slot -> Script \cup {None}] BY DEF Init
<1>2. payload \in [Slot -> [1 .. MaxPages -> Page \cup {None}]]
  <2>1. ASSUME NEW s \in Slot, NEW i \in 1 .. MaxPages, header[s] # None, i <= Len(header[s].pages)
        PROVE  header[s].pages[i] \in Page
    <3>1. header[s] \in Script BY <1>1, <2>1
    <3>2. header[s].pages \in Seq(Page) BY <3>1, ConstantsAssumption
    <3> QED BY <2>1, <3>2
  <2> QED BY <2>1 DEF Init
<1>3. put \in [Slot -> SUBSET Script] BY <1>1 DEF Init
<1> QED BY <1>1, <1>2, <1>3, ConstantsAssumption DEF Init, TypeOK, Where, Slot

\* A write always ends with its header; texts, headers and slots are what the
\* loader's steps rely on, and imports are never nested more than once.
THEOREM TypeCorrect == Spec => []TypeOK
BY InitTyped, TypeStep, PTL DEF Spec

-----------------------------------------------------------------------------
\* The slots as a store.

\* One write at a time; its slot counts as not written until it returns, and holds
\* the pages written so far.
WriteInv ==
  /\ \A v, w \in writer : v = w
  /\ \A w \in writer :
       /\ stored[w.slot] = {}
       /\ ~w.lost => \A i \in 1 .. Len(w.script.pages) :
                       i < w.page => payload[w.slot][i] = w.script.pages[i]
  /\ WriteStored

\* A page of the EEPROM goes to the slot of the write.
LEMMA PutOwnSlot ==
  ASSUME TypeOK, NEW w \in writer, Put(w)
  PROVE  /\ \A s \in Slot \ {w.slot} : header'[s] = header[s] /\ payload'[s] = payload[s]
         /\ header' \in {header, [header EXCEPT ![w.slot] = w.script]}
         /\ \A i \in 1 .. Len(w.script.pages) :
              /\ i # w.page => payload'[w.slot][i] = payload[w.slot][i]
              /\ i = w.page => payload'[w.slot][i] = w.script.pages[i]
         /\ IsHeader(w) => header' = [header EXCEPT ![w.slot] = w.script]
<1>1. w \in Writes BY DEF TypeOK
<1>2. w.slot \in Slot /\ w.script \in Script /\ w.page \in 1 .. MaxPages + 1 BY <1>1 DEF Writes
<1>3. Len(w.script.pages) \in 1 .. MaxPages /\ MaxPages \in Nat BY <1>2, ConstantsAssumption
<1>4. payload \in [Slot -> [1 .. MaxPages -> Page \cup {None}]] /\ header \in [Slot -> Script \cup {None}]
  BY DEF TypeOK
<1>5. CASE IsHeader(w)
  <2>1. header' = [header EXCEPT ![w.slot] = w.script] /\ payload' = payload BY <1>5 DEF Put, Base
  <2>2. \A i \in 1 .. Len(w.script.pages) : i # w.page BY <1>2, <1>3, <1>5 DEF IsHeader, LastPage
  <2> QED BY <1>2, <1>4, <2>1, <2>2
<1>6. CASE ~IsHeader(w)
  <2>1. payload' = [payload EXCEPT ![w.slot] = [payload[w.slot] EXCEPT ![w.page] = w.script.pages[w.page]]]
        /\ header' = header
    BY <1>2, <1>4, <1>6 DEF Put, Base
  <2>2. payload[w.slot] \in [1 .. MaxPages -> Page \cup {None}] BY <1>2, <1>4
  <2>3. payload'[w.slot] = [payload[w.slot] EXCEPT ![w.page] = w.script.pages[w.page]]
    BY <1>2, <1>4, <2>1
  <2>4. \A i \in 1 .. Len(w.script.pages) : i \in 1 .. MaxPages BY <1>3
  <2>5. \A s \in Slot \ {w.slot} : payload'[s] = payload[s] BY <1>4, <2>1
  <2>6. \A i \in 1 .. Len(w.script.pages) :
          /\ i # w.page => payload'[w.slot][i] = payload[w.slot][i]
          /\ i = w.page => payload'[w.slot][i] = w.script.pages[i]
    BY <2>2, <2>3, <2>4
  <2> QED BY <1>6, <2>1, <2>5, <2>6
<1> QED BY <1>5, <1>6

\* What Whole says of a slot depends on that slot alone.
LEMMA WholeOwnSlot ==
  ASSUME NEW s, header'[s] = header[s], payload'[s] = payload[s]
  PROVE  Whole(s)' <=> Whole(s)
BY DEF Whole

WritingOf(ws) == {[slot |-> w.slot, script |-> w.script] : w \in ws}

\* A step of the write, whether it goes on or ends, is one of the store's.
LEMMA WriteRefines ==
  ASSUME TypeOK, WriteInv, NEW w \in writer, Put(w) \/ UNCHANGED eeprom,
         writer' = {} \/ \E v : writer' = {v} /\ v.slot = w.slot /\ v.script = w.script
  PROVE  Store!Write
<1> DEFINE o == [slot |-> w.slot, script |-> w.script]
<1> DEFINE I == {s \in Slot : Whole(s)}
<1>1. o \in WritingOf(writer) BY DEF WritingOf
<1>2. WritingOf(writer) = {o} BY DEF WriteInv, WritingOf
<1>3. WritingOf(writer') \in {WritingOf(writer), {}} BY <1>2 DEF WritingOf
<1>4. /\ \A s \in Slot \ {w.slot} : header'[s] = header[s] /\ payload'[s] = payload[s]
      /\ header' \in {header, [header EXCEPT ![w.slot] = w.script]}
  BY PutOwnSlot DEF eeprom
<1>5. \A s \in Slot \ {w.slot} : Whole(s)' <=> Whole(s) BY <1>4, WholeOwnSlot
<1>6. I' = {s \in Slot : Whole(s)'} OBVIOUS
<1>7. I' \in {I, I \cup {w.slot}, I \ {w.slot}}
  <2>1. w.slot \in Slot BY DEF TypeOK, Writes
  <2>2. CASE Whole(w.slot)' BY <1>5, <1>6, <2>1, <2>2
  <2>3. CASE ~Whole(w.slot)' BY <1>5, <1>6, <2>1, <2>3
  <2> QED BY <2>2, <2>3
<1> HIDE DEF I
<1>8. o.slot = w.slot /\ o.script = w.script OBVIOUS
<1> HIDE DEF o
<1> QED BY <1>1, <1>3, <1>4, <1>7, <1>8 DEF Store!Write, WritingOf, I

\* Where the EEPROM and the writer stay as they are, so does the store.
LEMMA StoreStutters ==
  ASSUME UNCHANGED <<header, payload, writer>>
  PROVE  UNCHANGED Store!vars
<1>1. \A s \in Slot : Whole(s)' <=> Whole(s) BY WholeOwnSlot
<1> QED BY <1>1 DEF Store!vars

\* An advancing write keeps its slot and script, or ends.
LEMMA AdvanceKeeps ==
  ASSUME NEW w, w \in Writes, Advance(w)
  PROVE  writer' = {} \/ \E v : writer' = {v} /\ v.slot = w.slot /\ v.script = w.script
<1>1. CASE IsHeader(w) BY <1>1 DEF Advance
<1>2. CASE ~IsHeader(w)
  <2> DEFINE v == [w EXCEPT !.page = @ + 1]
  <2>1. writer' = {v} BY <1>2 DEF Advance
  <2>2. v.slot = w.slot /\ v.script = w.script BY DEF Writes
  <2> QED BY <2>1, <2>2
<1> QED BY <1>1, <1>2

\* Every step is one of the store's or none.
LEMMA StoreStep ==
  ASSUME TypeOK, WriteInv, [Next]_vars
  PROVE  [Store!Next]_(Store!vars)
<1>1. CASE BeginWrite
  <2>1. PICK s \in Slot, script \in Script :
          writer' = {[slot |-> s, script |-> script, page |-> 1, lost |-> FALSE]}
    BY <1>1 DEF BeginWrite
  <2>2. UNCHANGED <<header, payload>> /\ writer = {} BY <1>1 DEF BeginWrite, eeprom
  <2>3. \A t \in Slot : Whole(t)' <=> Whole(t) BY <2>2, WholeOwnSlot
  <2>4. WritingOf(writer') = {[slot |-> s, script |-> script]} BY <2>1 DEF WritingOf
  <2>5. WritingOf(writer) = {} BY <2>2 DEF WritingOf
  <2>6. Store!Begin BY <2>2, <2>3, <2>4, <2>5 DEF Store!Begin, WritingOf
  <2> QED BY <2>6 DEF Store!Next
<1>2. CASE WritePage
  <2>1. PICK w \in writer : Put(w) /\ Advance(w) BY <1>2 DEF WritePage
  <2>2. w \in Writes BY DEF TypeOK
  <2> QED BY <2>1, <2>2, AdvanceKeeps, WriteRefines DEF Store!Next
<1>3. CASE PageLost
  <2>1. PICK w \in writer : Advance([w EXCEPT !.lost = TRUE]) BY <1>3 DEF PageLost
  <2> DEFINE u == [w EXCEPT !.lost = TRUE]
  <2>2. u \in Writes /\ u.slot = w.slot /\ u.script = w.script BY DEF TypeOK, Writes
  <2>3. UNCHANGED eeprom BY <1>3 DEF PageLost
  <2> HIDE DEF u
  <2>4. Advance(u) BY <2>1 DEF u
  <2> QED BY <2>2, <2>3, <2>4, AdvanceKeeps, WriteRefines DEF Store!Next
<1>4. CASE PageFails BY <1>4, WriteRefines DEF PageFails, Store!Next
<1>5. CASE Load BY <1>5, StoreStutters DEF Load, eeprom
<1>6. CASE ReadFails BY <1>6, StoreStutters DEF ReadFails, eeprom
<1>7. CASE Crash
  <2>1. UNCHANGED eeprom /\ writer' = {} BY <1>7 DEF Crash
  <2>2. CASE writer = {} BY <2>1, <2>2, StoreStutters DEF eeprom
  <2>3. CASE writer # {} BY <2>1, <2>3, WriteRefines DEF Store!Next
  <2> QED BY <2>2, <2>3
<1>8. CASE UNCHANGED vars BY <1>8, StoreStutters DEF vars, eeprom
<1> QED BY <1>1, <1>2, <1>3, <1>4, <1>5, <1>6, <1>7, <1>8 DEF Next

\* The slots of the EEPROM as it is first booted from.
LEMMA InitStore == Init => Store!Init /\ WriteInv
<1> SUFFICES ASSUME Init PROVE Store!Init /\ WriteInv OBVIOUS
<1>1. \A s \in Slot : header[s] # None => Whole(s)
  <2>1. SUFFICES ASSUME NEW s \in Slot, header[s] # None, NEW i \in 1 .. Len(header[s].pages)
                 PROVE  payload[s][i] = header[s].pages[i]
    BY DEF Whole
  <2>2. header[s] \in Script BY <2>1 DEF Init
  <2>3. i \in 1 .. MaxPages /\ i <= Len(header[s].pages) BY <2>2, ConstantsAssumption
  <2> QED BY <2>1, <2>3 DEF Init
<1>2. \A s \in Slot : stored[s] = {header[s]} \ {None} BY DEF Init
<1>3. WriteStored BY <1>1, <1>2 DEF WriteStored
<1>4. {s \in Slot : Whole(s)} = {s \in Slot : header[s] # None} BY <1>1 DEF Whole
<1>5. Store!Init BY <1>4 DEF Store!Init, Init
<1> QED BY <1>3, <1>5 DEF Init, WriteInv

\* What was stored in other slots than that of the write stays.
LEMMA OthersStored ==
  ASSUME TypeOK, WriteInv, NEW w \in writer, Put(w) \/ UNCHANGED eeprom,
         stored' = stored
  PROVE  WriteStored'
<1> SUFFICES ASSUME NEW s \in Slot, NEW script \in stored[s]
             PROVE  Whole(s)' /\ header'[s] = script
  BY DEF WriteStored
<1>1. s # w.slot BY DEF WriteInv
<1>2. header'[s] = header[s] /\ payload'[s] = payload[s] BY <1>1, PutOwnSlot DEF eeprom
<1>3. Whole(s) /\ header[s] = script BY DEF WriteInv, WriteStored
<1> QED BY <1>2, <1>3, WholeOwnSlot

\* A write that returns SUCCESS without a lost page has left a whole script.
LEMMA ReturnStored ==
  ASSUME TypeOK, WriteInv, NEW w \in writer, Put(w), IsHeader(w), ~w.lost,
         stored' = [stored EXCEPT ![w.slot] = {w.script}]
  PROVE  WriteStored'
<1> SUFFICES ASSUME NEW s \in Slot, NEW script \in stored'[s]
             PROVE  Whole(s)' /\ header'[s] = script
  BY DEF WriteStored
<1>0. w \in Writes /\ stored \in [Slot -> SUBSET Script] /\ header \in [Slot -> Script \cup {None}]
  BY DEF TypeOK
<1>1. CASE s # w.slot
  <2>1. header'[s] = header[s] /\ payload'[s] = payload[s] BY <1>1, PutOwnSlot
  <2>2. script \in stored[s] BY <1>0, <1>1
  <2>3. Whole(s) /\ header[s] = script BY <2>2 DEF WriteInv, WriteStored
  <2> QED BY <2>1, <2>3, WholeOwnSlot
<1>2. CASE s = w.slot
  <2>1. script = w.script /\ w.script \in Script /\ w.page \in Nat BY <1>0, <1>2, ConstantsAssumption DEF Writes
  <2>2. header'[s] = w.script BY <1>0, <1>2, PutOwnSlot DEF Writes
  <2>3. \A i \in 1 .. Len(w.script.pages) : payload'[s][i] = w.script.pages[i]
    <3>1. Len(w.script.pages) \in Nat BY <2>1, ConstantsAssumption
    <3>2. \A i \in 1 .. Len(w.script.pages) : i < w.page BY <2>1, <3>1 DEF IsHeader, LastPage
    <3> QED BY <1>2, <3>2, PutOwnSlot DEF WriteInv
  <2> QED BY <2>1, <2>2, <2>3, ConstantsAssumption DEF Whole
<1> QED BY <1>1, <1>2

\* WriteInv is inductive: the page after the last one is the header.
LEMMA WriteStep ==
  ASSUME TypeOK, WriteInv, [Next]_vars
  PROVE  WriteInv'
<1>s. ASSUME UNCHANGED <<header, payload, stored>> PROVE WriteStored'
  BY <1>s, WholeOwnSlot DEF WriteInv, WriteStored
<1>1. CASE BeginWrite
  <2>1. PICK s \in Slot, script \in Script :
          /\ writer' = {[slot |-> s, script |-> script, page |-> 1, lost |-> FALSE]}
          /\ stored' = [stored EXCEPT ![s] = {}]
    BY <1>1 DEF BeginWrite
  <2>2. stored \in [Slot -> SUBSET Script] BY DEF TypeOK
  <2>3. \A t \in Slot : stored'[t] \subseteq stored[t] BY <2>1, <2>2
  <2>4. UNCHANGED <<header, payload>> BY <1>1 DEF BeginWrite, eeprom
  <2>5. WriteStored' BY <2>3, <2>4, WholeOwnSlot DEF WriteInv, WriteStored
  <2>6. stored'[s] = {} BY <2>1, <2>2
  <2>7. Len(script.pages) \in Nat BY ConstantsAssumption
  <2>8. \A i \in 1 .. Len(script.pages) : ~(i < 1) BY <2>7
  <2> QED BY <2>1, <2>5, <2>6, <2>8 DEF WriteInv
<1>2. CASE WritePage
  <2>1. PICK w \in writer : Put(w) /\ Advance(w) BY <1>2 DEF WritePage
  <2>2. w \in Writes BY DEF TypeOK
  <2>3. CASE IsHeader(w) /\ w.lost
    <3>1. writer' = {} /\ stored' = stored BY <2>1, <2>3 DEF Advance
    <3> QED BY <2>1, <3>1, OthersStored DEF WriteInv
  <2>4. CASE IsHeader(w) /\ ~w.lost
    <3>1. writer' = {} /\ stored' = [stored EXCEPT ![w.slot] = {w.script}]
      BY <2>1, <2>4 DEF Advance
    <3> QED BY <2>1, <2>4, <3>1, ReturnStored DEF WriteInv
  <2>5. CASE ~IsHeader(w)
    <3> DEFINE v == [w EXCEPT !.page = @ + 1]
    <3>1. v.page = w.page + 1 /\ v.slot = w.slot /\ v.script = w.script /\ v.lost = w.lost
      BY <2>2 DEF Writes
    <3>2. writer' = {v} /\ stored' = stored BY <2>1, <2>5 DEF Advance
    <3> HIDE DEF v
    <3>3. stored[w.slot] = {} BY DEF WriteInv
    <3>4. ASSUME ~w.lost, NEW i \in 1 .. Len(w.script.pages), i < w.page + 1
          PROVE  payload'[w.slot][i] = w.script.pages[i]
      <4>1. w.page \in Nat BY <2>2, ConstantsAssumption DEF Writes
      <4>2. i = w.page \/ i < w.page BY <3>4, <4>1
      <4>3. i < w.page => i # w.page BY <4>1
      <4> QED BY <2>1, <3>4, <4>2, <4>3, PutOwnSlot DEF WriteInv
    <3>5. WriteStored' BY <2>1, <3>2, OthersStored
    <3>6. \A i \in 1 .. Len(v.script.pages) :
            ~v.lost /\ i < v.page => payload'[v.slot][i] = v.script.pages[i]
      BY <3>1, <3>4
    <3> QED BY <3>1, <3>2, <3>3, <3>5, <3>6 DEF WriteInv
  <2> QED BY <2>3, <2>4, <2>5
<1>3. CASE PageLost
  <2>1. PICK w \in writer : Advance([w EXCEPT !.lost = TRUE]) BY <1>3 DEF PageLost
  <2> DEFINE u == [w EXCEPT !.lost = TRUE]
  <2>2. u.lost = TRUE /\ u \in Writes /\ u.slot = w.slot BY DEF TypeOK, Writes
  <2>3. UNCHANGED <<header, payload>> BY <1>3 DEF PageLost, eeprom
  <2> HIDE DEF u
  <2>4. Advance(u) BY <2>1 DEF u
  <2>5. stored' = stored BY <2>2, <2>4 DEF Advance
  <2>6. writer' = {} \/ writer' = {[u EXCEPT !.page = @ + 1]} BY <2>4 DEF Advance
  <2> DEFINE v == [u EXCEPT !.page = @ + 1]
  <2>7. v.lost = TRUE /\ v.slot = w.slot BY <2>2 DEF Writes
  <2> HIDE DEF v
  <2>8. writer' = {} \/ writer' = {v} BY <2>6 DEF v
  <2>9. stored[w.slot] = {} BY DEF WriteInv
  <2> QED BY <1>s, <2>3, <2>5, <2>7, <2>8, <2>9 DEF WriteInv
<1>4. CASE PageFails
  <2>1. PICK w \in writer : Put(w) \/ UNCHANGED eeprom BY <1>4 DEF PageFails
  <2>2. writer' = {} /\ stored' = stored BY <1>4 DEF PageFails
  <2> QED BY <2>1, <2>2, OthersStored DEF WriteInv
<1>5. CASE Load BY <1>5, <1>s DEF Load, eeprom, WriteInv
<1>6. CASE ReadFails BY <1>6, <1>s DEF ReadFails, eeprom, WriteInv
<1>7. CASE Crash BY <1>7, <1>s DEF Crash, eeprom, WriteInv
<1>8. CASE UNCHANGED vars BY <1>8, <1>s DEF vars, eeprom, WriteInv
<1> QED BY <1>1, <1>2, <1>3, <1>4, <1>5, <1>6, <1>7, <1>8 DEF Next

\* A script reported written stays readable until its slot is written again,
\* whatever is written elsewhere, reset, or failed, for every number of pages.
THEOREM ReportedStays == Spec => []WriteStored
<1>1. Init => TypeOK /\ WriteInv BY InitTyped, InitStore
<1>2. TypeOK /\ WriteInv /\ [Next]_vars => TypeOK' /\ WriteInv' BY TypeStep, WriteStep
<1>3. WriteInv => WriteStored BY DEF WriteInv
<1> QED BY <1>1, <1>2, <1>3, PTL DEF Spec

\* The EEPROM and the writer are a SlotStore: a write changes its own slot only,
\* and a slot gives the script written to it last, or nothing.
THEOREM StoreImplemented == Spec => StoreRefined
<1>1. Init => TypeOK /\ WriteInv /\ Store!Init BY InitTyped, InitStore
<1>2. TypeOK /\ WriteInv /\ [Next]_vars => TypeOK' /\ WriteInv' BY TypeStep, WriteStep
<1>3. TypeOK /\ WriteInv /\ [Next]_vars => [Store!Next]_(Store!vars) BY StoreStep
<1> QED BY <1>1, <1>2, <1>3, PTL DEF Spec, StoreRefined, Store!Spec

-----------------------------------------------------------------------------
\* What the interpreter is given.

\* A header, read or not, is that of a script its slot was given.
ReadInv ==
  /\ \A s \in Slot : header[s] \in put[s] \cup {None}
  /\ \A w \in writer : w.script \in put[w.slot]
  /\ at = "text" => read \in put[source]
  /\ TakesOneScript

\* Where the loader stays and the slots have been given no less, it holds still.
LEMMA TakesKept ==
  ASSUME TypeOK, ReadInv, UNCHANGED boot, \A s \in Slot : put[s] \subseteq put'[s]
  PROVE  TakesOneScript' /\ (at' = "text" => read' \in put'[source'])
<1>1. loaded' = loaded /\ at' = at /\ read' = read /\ source' = source BY DEF boot
<1>2. \A i \in 1 .. Len(loaded) : loaded[i].slot \in Slot
  <2>1. loaded \in Seq(Texts) BY DEF TypeOK
  <2>2. \A i \in 1 .. Len(loaded) : loaded[i] \in Texts BY <2>1
  <2> QED BY <2>2 DEF Texts
<1>3. source \in Slot BY DEF TypeOK
<1> QED BY <1>1, <1>2, <1>3 DEF ReadInv, TakesOneScript

\* Giving up empties the interpreter.
LEMMA GiveUpTakes ==
  ASSUME GiveUp
  PROVE  TakesOneScript' /\ at' # "text"
<1>1. loaded' = <<>> /\ at' # "text" BY DEF GiveUp
<1> QED BY <1>1 DEF TakesOneScript

\* So does passing over a name, or it leaves it as it is.
LEMMA NotNamedTakes ==
  ASSUME TypeOK, ReadInv, at = "name", NotNamed, UNCHANGED put
  PROVE  TakesOneScript' /\ at' # "text"
<1>1. source \in {"app01", "app02"} BY DEF TypeOK, Slot
<1>2. CASE GiveUp BY <1>2, GiveUpTakes
<1>3. CASE ~GiveUp
  <2>1. loaded' = loaded /\ at' \in {at, "header"} BY <1>1, <1>3 DEF NotNamed
  <2> QED BY <2>1 DEF ReadInv, TakesOneScript
<1> QED BY <1>2, <1>3

\* A text is taken only if it is the one its header was written for.
LEMMA LoadTakes ==
  ASSUME TypeOK, ReadInv, ReadHeader \/ ReadText \/ ReadName, UNCHANGED put
  PROVE  TakesOneScript' /\ (at' = "text" => read' \in put'[source'])
<1>1. CASE ReadHeader
  <2>1. CASE GiveUp BY <2>1, GiveUpTakes
  <2>2. CASE ~GiveUp
    <3>1. read' = header[source] /\ read' # None /\ UNCHANGED <<source, loaded>>
      BY <1>1, <2>2 DEF ReadHeader, Base
    <3>2. source \in Slot BY DEF TypeOK
    <3> QED BY <3>1, <3>2 DEF ReadInv, TakesOneScript
  <2> QED BY <2>1, <2>2
<1>2. CASE ReadText
  <2>1. CASE GiveUp BY <2>1, GiveUpTakes
  <2>2. CASE ~GiveUp
    <3> DEFINE t == [slot |-> source, pages |-> Text, uses |-> read.uses]
    <3>1. loaded' = Append(loaded, t) /\ Text = read.pages /\ at = "text"
      BY <1>2, <2>2 DEF ReadText, Accepts
    <3>2. at' # "text" BY <1>2, <2>2 DEF ReadText
    <3>3. t.slot = source /\ t.pages = Text OBVIOUS
    <3>4. read \in put[source] BY <3>1 DEF ReadInv
    <3>5. loaded \in Seq(Texts) BY DEF TypeOK
    <3>6. t \in Texts
      <4>1. read \in Script /\ source \in Slot BY <3>1 DEF TypeOK
      <4> QED BY <3>1, <4>1 DEF Texts
    <3> HIDE DEF t
    <3>7. ASSUME NEW i \in 1 .. Len(loaded')
          PROVE  \E script \in put'[loaded'[i].slot] : loaded'[i].pages = script.pages
      <4>1. Len(loaded') = Len(loaded) + 1 /\ Len(loaded) \in Nat BY <3>1, <3>5, <3>6
      <4>2. CASE i = Len(loaded) + 1
        <5>1. loaded'[i] = t BY <3>1, <3>5, <3>6, <4>2
        <5> QED BY <3>1, <3>3, <3>4, <5>1
      <4>3. CASE i # Len(loaded) + 1
        <5>1. i \in 1 .. Len(loaded) BY <3>7, <4>1, <4>3
        <5>2. loaded'[i] = loaded[i] BY <3>1, <3>5, <3>6, <5>1
        <5> QED BY <5>1, <5>2 DEF ReadInv, TakesOneScript
      <4> QED BY <4>2, <4>3
    <3> QED BY <3>2, <3>7 DEF TakesOneScript
  <2> QED BY <2>1, <2>2
<1>3. CASE ReadName
  <2>1. at = "name" BY <1>3 DEF ReadName
  <2>2. CASE NotNamed BY <2>1, <2>2, NotNamedTakes
  <2>3. CASE ~NotNamed
    <3>1. at' = "header" /\ loaded' = loaded BY <1>3, <2>3 DEF ReadName
    <3> QED BY <3>1 DEF ReadInv, TakesOneScript
  <2> QED BY <2>2, <2>3
<1> QED BY <1>1, <1>2, <1>3

\* An advancing write stays that of its script.
LEMMA WriterPut ==
  ASSUME ReadInv, NEW w, w.script \in put[w.slot], UNCHANGED put,
         writer' = {} \/ \E v : writer' = {v} /\ v.slot = w.slot /\ v.script = w.script
  PROVE  \A v \in writer' : v.script \in put'[v.slot]
OBVIOUS

\* ReadInv is inductive.
LEMMA ReadStep ==
  ASSUME TypeOK, ReadInv, [Next]_vars
  PROVE  ReadInv'
<1>p. ASSUME NEW w \in writer, Put(w), UNCHANGED put
      PROVE  \A s \in Slot : header'[s] \in put'[s] \cup {None}
  <2>1. w.slot \in Slot /\ header \in [Slot -> Script \cup {None}] BY DEF TypeOK, Writes
  <2> QED BY <1>p, <2>1, PutOwnSlot DEF ReadInv
<1>1. CASE BeginWrite
  <2>1. PICK s \in Slot, script \in Script :
          /\ writer' = {[slot |-> s, script |-> script, page |-> 1, lost |-> FALSE]}
          /\ put' = [put EXCEPT ![s] = @ \cup {script}]
    BY <1>1 DEF BeginWrite
  <2>2. put \in [Slot -> SUBSET Script] BY DEF TypeOK
  <2>3. \A t \in Slot : put[t] \subseteq put'[t] BY <2>1, <2>2
  <2>4. script \in put'[s] BY <2>1, <2>2
  <2>5. UNCHANGED <<header, boot>> BY <1>1 DEF BeginWrite, eeprom
  <2>6. \A t \in Slot : header'[t] \in put'[t] \cup {None} BY <2>3, <2>5 DEF ReadInv
  <2>7. \A w \in writer' : w.script \in put'[w.slot] BY <2>1, <2>4
  <2> QED BY <2>3, <2>5, <2>6, <2>7, TakesKept DEF ReadInv
<1>2. CASE WritePage
  <2>1. PICK w \in writer : Put(w) /\ Advance(w) BY <1>2 DEF WritePage
  <2>2. UNCHANGED <<boot, put>> BY <1>2 DEF WritePage
  <2>3. w \in Writes /\ w.script \in put[w.slot] BY DEF TypeOK, ReadInv
  <2>4. \A v \in writer' : v.script \in put'[v.slot]
    BY <2>1, <2>2, <2>3, AdvanceKeeps, WriterPut
  <2> QED BY <1>p, <2>1, <2>2, <2>4, TakesKept DEF ReadInv
<1>3. CASE PageLost
  <2>1. PICK w \in writer : Advance([w EXCEPT !.lost = TRUE]) BY <1>3 DEF PageLost
  <2> DEFINE u == [w EXCEPT !.lost = TRUE]
  <2>2. UNCHANGED <<header, boot, put>> BY <1>3 DEF PageLost, eeprom
  <2>3. u \in Writes /\ u.script = w.script /\ u.slot = w.slot BY DEF TypeOK, Writes
  <2>4. w.script \in put[w.slot] BY DEF ReadInv
  <2> HIDE DEF u
  <2>5. Advance(u) BY <2>1 DEF u
  <2>6. \A v \in writer' : v.script \in put'[v.slot]
    BY <2>2, <2>3, <2>4, <2>5, AdvanceKeeps, WriterPut
  <2> QED BY <2>2, <2>6, TakesKept DEF ReadInv
<1>4. CASE PageFails
  <2>1. PICK w \in writer : Put(w) \/ UNCHANGED eeprom BY <1>4 DEF PageFails
  <2>2. writer' = {} /\ UNCHANGED <<boot, put>> BY <1>4 DEF PageFails
  <2>3. \A s \in Slot : header'[s] \in put'[s] \cup {None}
    BY <1>p, <2>1, <2>2 DEF ReadInv, eeprom
  <2> QED BY <2>2, <2>3, TakesKept DEF ReadInv
<1>5. CASE Load BY <1>5, LoadTakes DEF Load, ReadInv, eeprom
<1>6. CASE ReadFails
  <2>1. UNCHANGED <<header, writer, put>> BY <1>6 DEF ReadFails, eeprom
  <2>2. TakesOneScript' /\ at' # "text"
    <3>1. CASE at = "name" BY <1>6, <2>1, <3>1, NotNamedTakes DEF ReadFails
    <3>2. CASE at # "name" BY <1>6, <3>2, GiveUpTakes DEF ReadFails
    <3> QED BY <3>1, <3>2
  <2> QED BY <2>1, <2>2 DEF ReadInv
<1>7. CASE Crash
  <2>1. loaded' = <<>> /\ at' # "text" /\ writer' = {} /\ UNCHANGED <<header, put>>
    BY <1>7 DEF Crash, eeprom
  <2>2. TakesOneScript' BY <2>1 DEF TakesOneScript
  <2> QED BY <2>1, <2>2 DEF ReadInv
<1>8. CASE UNCHANGED vars BY <1>8, TakesKept DEF vars, eeprom, ReadInv
<1> QED BY <1>1, <1>2, <1>3, <1>4, <1>5, <1>6, <1>7, <1>8 DEF Next

\* The interpreter never gets a text mixed from two scripts, for every number of
\* writes, cut short or in the middle of a load.
THEOREM NeverMixed == Spec => []TakesOneScript
<1>1. Init => TypeOK BY InitTyped
<1>2. Init => ReadInv
  <2> SUFFICES ASSUME Init PROVE ReadInv OBVIOUS
  <2>1. TakesOneScript BY DEF Init, TakesOneScript
  <2> QED BY <2>1 DEF Init, ReadInv
<1>3. TypeOK /\ ReadInv /\ [Next]_vars => TypeOK' /\ ReadInv' BY TypeStep, ReadStep
<1>4. ReadInv => TakesOneScript BY DEF ReadInv
<1> QED BY <1>1, <1>2, <1>3, <1>4, PTL DEF Spec

-----------------------------------------------------------------------------
\* What a boot ends in.

\* What the loader has found out, in a boot that nothing disturbs.
BootInv ==
  /\ at = "text" => read = header[source]
  /\ slot = "app02" => ~Runnable("app01")
  /\ at = "idle" => \A s \in Slot : ~Runnable(s)
  /\ at \in {"header", "text"} /\ ~Importing => source = slot
  /\ at \in {"header", "text"} /\ Importing => source \in Target(Wanted)
  /\ at \in {"header", "text", "name"} /\ Importing =>
       Whole(slot) /\ header[slot].parses /\ header[slot].uses = Wanted /\ Wanted # None
  /\ at = "name" /\ source = "app02" =>
       ~(header["app01"] # None /\ header["app01"].name = Wanted)
  /\ at = "run" => Runnable(slot)

\* What can run depends on the EEPROM alone.
LEMMA SameRunnable ==
  ASSUME UNCHANGED eeprom
  PROVE  /\ \A s : Runnable(s)' <=> Runnable(s)
         /\ \A s : Whole(s)' <=> Whole(s)
         /\ \A name : Target(name)' = Target(name)
<1>1. header' = header /\ payload' = payload BY DEF eeprom
<1>2. \A s : Whole(s)' <=> Whole(s) BY <1>1, WholeOwnSlot
<1>3. \A name : Target(name)' = Target(name) BY <1>1 DEF Target
<1> QED BY <1>1, <1>2, <1>3 DEF Runnable

\* An import is resolved to one slot at most.
LEMMA TargetOne ==
  ASSUME NEW name, NEW s \in Target(name), NEW t \in Target(name)
  PROVE  s = t /\ s \in Slot
BY DEF Target, Slot

\* Giving a slot up is right if it cannot run.
LEMMA GiveUpRight ==
  ASSUME TypeOK, BootInv, GiveUp, UNCHANGED eeprom, ~Runnable(slot)
  PROVE  BootInv'
<1>1. \A s : Runnable(s)' <=> Runnable(s) BY SameRunnable
<1>2. loaded' = <<>> BY DEF GiveUp
<1>3. CASE slot = "app01"
  <2>1. at' = "header" /\ slot' = "app02" /\ source' = "app02" BY <1>3 DEF GiveUp
  <2> QED BY <1>1, <1>2, <1>3, <2>1 DEF BootInv, Importing
<1>4. CASE slot # "app01"
  <2>1. at' = "idle" /\ slot' = slot /\ slot = "app02" BY <1>4 DEF GiveUp, TypeOK, Slot
  <2>2. \A s \in Slot : ~Runnable(s) BY <2>1 DEF BootInv, Slot
  <2> QED BY <1>1, <1>2, <2>1, <2>2 DEF BootInv, Importing
<1> QED BY <1>3, <1>4

\* A text passes its CRC where its slot is whole.
LEMMA AcceptsWhole ==
  ASSUME TypeOK, at = "text", read = header[source]
  PROVE  Accepts(read, Text) <=> Whole(source)
<1>1. read \in Script /\ source \in Slot BY DEF TypeOK
<1>2. read.pages \in Seq(Page) /\ Len(read.pages) \in 1 .. MaxPages /\ read # None
  BY <1>1, ConstantsAssumption
<1>3. read.pages = [i \in 1 .. Len(read.pages) |-> read.pages[i]] BY <1>2
<1>4. Text = read.pages <=> \A i \in 1 .. Len(read.pages) : payload[source][i] = read.pages[i]
  <2>1. ASSUME Text = read.pages, NEW i \in 1 .. Len(read.pages)
        PROVE  payload[source][i] = read.pages[i]
    <3>1. Text[i] = payload[source][i] BY <2>1 DEF Text, Base
    <3> QED BY <2>1, <3>1
  <2>2. ASSUME \A i \in 1 .. Len(read.pages) : payload[source][i] = read.pages[i]
        PROVE  Text = read.pages
    BY <1>3, <2>2 DEF Text, Base
  <2> QED BY <2>1, <2>2
<1> QED BY <1>2, <1>4 DEF Accepts, Whole

\* A program whose import is not found, or found in a slot that will not do, cannot run.
LEMMA ImportNeeded ==
  ASSUME header[slot].uses = Wanted, Wanted # None,
         \A t \in Target(Wanted) :
           ~(Whole(t) /\ header[t].parses /\ header[t].uses \in {None, header[slot].uses})
  PROVE  ~Runnable(slot)
BY DEF Runnable

\* A header is there or the slot is given up.
LEMMA HeaderRight ==
  ASSUME TypeOK, BootInv, ReadHeader, UNCHANGED eeprom
  PROVE  BootInv'
<1>1. at = "header" /\ read' = header[source] BY DEF ReadHeader, Base
<1>2. CASE read' = None
  <2>1. ~Whole(source) /\ GiveUp BY <1>1, <1>2 DEF ReadHeader, Whole
  <2>2. ~Runnable(slot)
    <3>1. CASE Importing
      <4>1. source \in Target(Wanted) BY <1>1, <3>1 DEF BootInv
      <4>2. \A t \in Target(Wanted) : t = source BY <4>1, TargetOne
      <4> QED BY <1>1, <2>1, <3>1, <4>2, ImportNeeded DEF BootInv
    <3>2. CASE ~Importing BY <1>1, <2>1, <3>2 DEF BootInv, Runnable
    <3> QED BY <3>1, <3>2
  <2> QED BY <2>1, <2>2, GiveUpRight
<1>3. CASE read' # None
  <2>1. at' = "text" /\ UNCHANGED <<slot, source, loaded>> BY <1>1, <1>3 DEF ReadHeader
  <2>2. header' = header /\ Wanted' = Wanted /\ (Importing' <=> Importing)
    BY <2>1 DEF eeprom, Wanted, Importing
  <2> QED BY <1>1, <2>1, <2>2, SameRunnable DEF BootInv
<1> QED BY <1>2, <1>3

\* A text is taken or its slot, or the program it was to be imported by, cannot run.
LEMMA TextRight ==
  ASSUME TypeOK, BootInv, ReadText, UNCHANGED eeprom
  PROVE  BootInv'
<1>1. at = "text" /\ read = header[source] /\ source \in Slot /\ slot \in Slot /\ read # None
  BY DEF ReadText, BootInv, TypeOK
<1>2. Accepts(read, Text) <=> Whole(source) BY <1>1, AcceptsWhole
<1> DEFINE refused == ~Accepts(read, Text) \/ ~read.parses \/ (read.uses # None /\ ~MayImport)
<1>3. CASE refused
  <2>1. GiveUp BY <1>3 DEF ReadText
  <2>2. ~Runnable(slot)
    <3>1. CASE Importing
      <4>1. source \in Target(Wanted) /\ header[slot].uses = Wanted /\ Wanted # None
        BY <1>1, <3>1 DEF BootInv
      <4>2. \A t \in Target(Wanted) : t = source BY <4>1, TargetOne
      <4> QED BY <1>1, <1>2, <1>3, <3>1, <4>1, <4>2, ImportNeeded DEF MayImport
    <3>2. CASE ~Importing BY <1>1, <1>2, <1>3, <3>2 DEF BootInv, Runnable, MayImport
    <3> QED BY <3>1, <3>2
  <2> QED BY <2>1, <2>2, GiveUpRight
<1>4. CASE ~refused
  <2> DEFINE t == [slot |-> source, pages |-> Text, uses |-> read.uses]
  <2>1. /\ loaded' = Append(loaded, t) /\ slot' = slot
        /\ at' = (IF read.uses = None \/ Importing THEN "run" ELSE "name")
        /\ source' = (IF at' = "name" THEN "app01" ELSE source)
    BY <1>4 DEF ReadText
  <2>2. t.uses = read.uses OBVIOUS
  <2> HIDE DEF t
  <2>3. Whole(source) /\ header[source].parses BY <1>1, <1>2, <1>4
  <2>4. CASE Importing
    <3>1. source \in Target(Wanted) /\ header[slot].uses = Wanted /\ Wanted # None
          /\ Whole(slot) /\ header[slot].parses
      BY <1>1, <2>4 DEF BootInv
    <3>2. header[source].uses \in {None, header[slot].uses} BY <1>1, <1>4, <2>4, <3>1 DEF MayImport
    <3>3. Runnable(slot) BY <2>3, <3>1, <3>2 DEF Runnable
    <3> QED BY <2>1, <2>4, <3>3, SameRunnable DEF BootInv
  <2>5. CASE ~Importing /\ read.uses = None
    <3>1. source = slot BY <1>1, <2>5 DEF BootInv
    <3>2. Runnable(slot) BY <1>1, <2>3, <2>5, <3>1 DEF Runnable
    <3> QED BY <2>1, <2>5, <3>2, SameRunnable DEF BootInv
  <2>6. CASE ~Importing /\ read.uses # None
    <3>1. source = slot BY <1>1, <2>6 DEF BootInv
    <3>2. at' = "name" /\ source' = "app01" BY <2>1, <2>6
    <3>3. loaded' = <<t>> BY <2>1, <2>6 DEF Importing
    <3>4. Importing' /\ Wanted' = read.uses BY <2>2, <3>3 DEF Importing, Wanted
    <3>5. header' = header BY DEF eeprom
    <3> QED BY <1>1, <2>1, <2>3, <2>6, <3>1, <3>2, <3>4, <3>5, SameRunnable DEF BootInv
  <2> QED BY <2>4, <2>5, <2>6
<1> QED BY <1>3, <1>4

\* The name leads to the slot that an import is resolved to.
LEMMA NameRight ==
  ASSUME TypeOK, BootInv, ReadName, UNCHANGED eeprom
  PROVE  BootInv'
<1>0. at = "name" BY DEF ReadName
<1>1. at = "name" /\ source \in Slot /\ Importing
  <2>1. Len(loaded) = 1 BY <1>0 DEF TypeOK
  <2>2. loaded # <<>> BY <2>1
  <2> QED BY <1>0, <2>2 DEF TypeOK, Importing
<1> DEFINE isNamed(s) == header[s] # None /\ header[s].name = Wanted
<1>2. header' = header BY DEF eeprom
<1>3. CASE isNamed(source)
  <2>1. at' = "header" /\ UNCHANGED <<slot, source, loaded>> BY <1>3 DEF ReadName, Base
  <2>2. Wanted' = Wanted /\ (Importing' <=> Importing) BY <2>1 DEF Wanted, Importing
  <2>3. source \in Target(Wanted) BY <1>1, <1>3 DEF Target, BootInv, Slot
  <2> QED BY <1>1, <1>2, <2>1, <2>2, <2>3, SameRunnable DEF BootInv
<1>4. CASE ~isNamed(source)
  <2>1. NotNamed BY <1>4 DEF ReadName, Base
  <2>2. CASE source = "app01"
    <3>1. source' = "app02" /\ UNCHANGED <<at, slot, loaded>> BY <2>1, <2>2 DEF NotNamed
    <3>2. Wanted' = Wanted /\ (Importing' <=> Importing) BY <3>1 DEF Wanted, Importing
    <3> QED BY <1>1, <1>2, <1>4, <2>2, <3>1, <3>2, SameRunnable DEF BootInv
  <2>3. ASSUME source = "app02" PROVE Target(Wanted) = {Wanted} \cap Slot
    BY <1>1, <1>4, <2>3 DEF Target, BootInv, Slot
  <2>4. CASE source = "app02" /\ Wanted \in Slot
    <3>1. source' = Wanted /\ at' = "header" /\ UNCHANGED <<slot, loaded>> BY <2>1, <2>4 DEF NotNamed
    <3>2. Wanted' = Wanted /\ (Importing' <=> Importing) BY <3>1 DEF Wanted, Importing
    <3> QED BY <1>1, <1>2, <2>3, <2>4, <3>1, <3>2, SameRunnable DEF BootInv
  <2>5. CASE source = "app02" /\ Wanted \notin Slot
    <3>1. GiveUp BY <2>1, <2>5 DEF NotNamed
    <3>2. Target(Wanted) = {} BY <2>3, <2>5
    <3>3. ~Runnable(slot) BY <1>1, <3>2, ImportNeeded DEF BootInv
    <3> QED BY <3>1, <3>3, GiveUpRight
  <2> QED BY <1>1, <2>2, <2>4, <2>5 DEF Slot
<1> QED BY <1>3, <1>4

\* Only a read that works, a new boot, or a call of the writer keeps a boot quiet.
LEMMA BootStep ==
  ASSUME TypeOK, quiet => BootInv, [Next]_vars
  PROVE  quiet' => BootInv'
<1>s. ASSUME UNCHANGED <<eeprom, boot, quiet>> PROVE quiet' => BootInv'
  <2>1. UNCHANGED <<header, at, slot, source, read, loaded, quiet>> BY <1>s DEF eeprom, boot
  <2>2. Wanted' = Wanted /\ (Importing' <=> Importing) BY <2>1 DEF Wanted, Importing
  <2> QED BY <1>s, <2>1, <2>2, SameRunnable DEF BootInv
<1>1. CASE BeginWrite BY <1>1, <1>s DEF BeginWrite
<1>2. CASE WritePage BY <1>2 DEF WritePage
<1>3. CASE PageLost BY <1>3 DEF PageLost
<1>4. CASE PageFails BY <1>4 DEF PageFails
<1>5. CASE Load BY <1>5, HeaderRight, TextRight, NameRight DEF Load
<1>6. CASE ReadFails BY <1>6 DEF ReadFails
<1>7. CASE Crash
  <2>1. at' = "header" /\ slot' = "app01" /\ source' = "app01" /\ loaded' = <<>>
    BY <1>7 DEF Crash
  <2> QED BY <2>1 DEF BootInv, Importing
<1>8. CASE UNCHANGED vars BY <1>8, <1>s DEF vars
<1> QED BY <1>1, <1>2, <1>3, <1>4, <1>5, <1>6, <1>7, <1>8 DEF Next

\* An undisturbed boot runs the primary slot if it can run, else the other one, and
\* idles only if neither can, for every set of scripts and every torn EEPROM.
THEOREM FallbackServes == Spec => []BootServes
<1>1. Init => TypeOK BY InitTyped
<1>2. Init => (quiet => BootInv) BY DEF Init, BootInv, Importing
<1>3. TypeOK /\ (quiet => BootInv) /\ [Next]_vars => TypeOK' /\ (quiet => BootInv)'
  BY TypeStep, BootStep
<1>4. (quiet => BootInv) => BootServes BY DEF BootInv, BootServes
<1> QED BY <1>1, <1>2, <1>3, <1>4, PTL DEF Spec
=============================================================================
