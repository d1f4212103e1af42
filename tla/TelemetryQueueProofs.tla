-------------------------- MODULE TelemetryQueueProofs --------------------------
(***************************************************************************)
(* Proofs about TelemetryQueue, for any capacity, number of devices, of    *)
(* values and of uploads, and registries that change at any point.         *)
(***************************************************************************)
EXTENDS TelemetryQueue, SequenceTheorems, TLAPS

-----------------------------------------------------------------------------
(* The invariants.                                                         *)

\* The index of the k-th slot from h on.
Idx(h, k) == (h + k) % Capacity
Slot(i) == slots[Idx(head, i)]

Building == pc \in {"built", "store", "stored"}

BuildInv == Building => payload \in Payload /\ device <= Devices

\* The payloads counted are there, and the one being enqueued goes behind them.
Serves ==
  /\ count <= Capacity /\ (pc \in {"publish", "published", "taken"} => count > 0)
  /\ \A i \in 0 .. Waiting - 1 : Slot(i) \in Payload
  /\ pc \in {"store", "stored"} => count < Capacity /\ tail = Idx(head, count)
  /\ pc = "stored" => slots[tail] = payload
  /\ pc = "published" => uploads # <<>> /\ uploads[Len(uploads)] = slots[head]

\* A registry that came while the head was being published or taken: the count will go
\* below zero and round, and nothing is queued any more.
Spent ==
  /\ \A i \in 0 .. Capacity - 1 : slots[i] = Empty
  /\ \/ pc \in {"publish", "published", "taken"} /\ count = 0
     \/ pc \in {"idle", "flush", "sample", "built"} /\ count = 255

\* One that came while a payload was being stored: the head stays empty for good.
Gap ==
  /\ head = 0 /\ slots[0] = Empty /\ count <= Capacity
  /\ pc \in {"idle", "flush", "sample", "built", "store", "stored"}
  /\ pc \notin {"store", "stored"} => count > 0
  /\ pc = "store" => tail # 0 /\ count < Capacity
  /\ pc = "stored" => count < Capacity

\* p may be uploaded before q.
Before(p, q) == p.device = q.device /\ p.gen = q.gen => p.value <= q.value

\* p has been read, not later than now.
Read(p) == p.gen <= gen /\ (p.gen = gen /\ p.device \in 1 .. Devices => p.value <= value[p.device])

\* p may be waiting.
Fits(p) ==
  /\ Read(p) /\ (Building => Before(p, payload))
  /\ \A j \in DOMAIN uploads : Before(uploads[j], p)

InOrder ==
  /\ \A i \in 0 .. Waiting - 1 : Fits(Slot(i))
  /\ \A i, j \in 0 .. Waiting - 1 : i < j => Before(Slot(i), Slot(j))

\* The ring is a queue in order, or never serves again until the next registry.
RingInv == (Serves /\ InOrder) \/ Spent \/ Gap

ReadInv ==
  /\ \A j \in DOMAIN uploads : Read(uploads[j])
  /\ Building => Read(payload) /\ \A j \in DOMAIN uploads : Before(uploads[j], payload)

\* Only a registry in the middle of something makes it other than a queue of payloads
\* of the present registry.
CleanInv ==
  ~torn => /\ Serves /\ \A i \in 0 .. Waiting - 1 : Slot(i).gen = gen
           /\ Building => payload.gen = gen

-----------------------------------------------------------------------------
(* The ring.                                                               *)

\* An index is that many slots further on, round the end.
LEMMA IdxIs ==
  ASSUME NEW h \in 0 .. Capacity - 1, NEW k \in 0 .. Capacity
  PROVE  Idx(h, k) = IF h + k < Capacity THEN h + k ELSE h + k - Capacity
BY ConstantsAssumption DEF Idx

\* The slots from h on are all the slots, each once.
LEMMA IdxDistinct ==
  ASSUME NEW h \in 0 .. Capacity - 1
  PROVE  /\ Idx(h, 0) = h
         /\ \A k \in 0 .. Capacity : Idx(h, k) \in 0 .. Capacity - 1
         /\ \A k, l \in 0 .. Capacity - 1 : k # l => Idx(h, k) # Idx(h, l)
BY IdxIs, ConstantsAssumption

\* Leaving the head makes the next slot the head.
LEMMA IdxNext ==
  ASSUME TypeOK
  PROVE  /\ NextHead \in 0 .. Capacity - 1
         /\ \A k \in 0 .. Capacity - 1 : Idx(NextHead, k) = Idx(head, k + 1)
<1>1. head \in 0 .. Capacity - 1 /\ Capacity \in Nat \ {0} BY ConstantsAssumption DEF TypeOK
<1>2. NextHead = Idx(head, 1) BY DEF NextHead, Idx
<1>3. NextHead = IF head + 1 < Capacity THEN head + 1 ELSE 0 BY <1>1, <1>2, IdxIs
<1>4. NextHead \in 0 .. Capacity - 1 BY <1>1, <1>3
<1>5. ASSUME NEW k \in 0 .. Capacity - 1 PROVE Idx(NextHead, k) = Idx(head, k + 1)
  <2>1. Idx(NextHead, k) = IF NextHead + k < Capacity THEN NextHead + k ELSE NextHead + k - Capacity
    BY <1>1, <1>4, IdxIs
  <2>2. Idx(head, k + 1) = IF head + (k + 1) < Capacity THEN head + (k + 1) ELSE head + (k + 1) - Capacity
    BY <1>1, IdxIs
  <2> QED BY <1>1, <1>3, <2>1, <2>2
<1> QED BY <1>4, <1>5

-----------------------------------------------------------------------------
(* Types.                                                                  *)

\* The queue is empty at first, and nothing is built.
LEMMA InitTyped == Init => TypeOK /\ BuildInv
<1> SUFFICES ASSUME Init PROVE TypeOK /\ BuildInv OBVIOUS
<1>1. uploads \in Seq(Payload \cup {Empty}) BY DEF Init
<1>2. slots \in [0 .. Capacity - 1 -> Payload \cup {Empty}] BY DEF Init
<1>3. value \in [1 .. Devices -> 0 .. MaxValue] BY ConstantsAssumption DEF Init
<1>4. known \in [1 .. Devices -> -1 .. MaxValue] BY ConstantsAssumption DEF Init
<1>5. /\ head \in 0 .. Capacity - 1 /\ tail \in 0 .. Capacity - 1 /\ count \in 0 .. 255
      /\ gen \in 0 .. MaxGen /\ sampled \in BOOLEAN /\ pc = "idle" /\ device \in 1 .. Devices + 1
      /\ payload = Empty /\ torn \in BOOLEAN
  <2>1. 0 \in 0 .. Capacity - 1 /\ 0 \in 0 .. MaxGen /\ 1 \in 1 .. Devices + 1
    BY ConstantsAssumption
  <2>2. head = 0 /\ tail = 0 /\ count = 0 /\ gen = 0 /\ device = 1 BY DEF Init
  <2>3. sampled \in BOOLEAN /\ pc = "idle" /\ payload = Empty /\ torn \in BOOLEAN BY DEF Init
  <2> QED BY <2>1, <2>2, <2>3
<1> QED BY <1>1, <1>2, <1>3, <1>4, <1>5 DEF TypeOK, BuildInv, Building

\* A flush keeps the types.
LEMMA FlushTyped ==
  ASSUME TypeOK, BuildInv, FlushStep
  PROVE  TypeOK' /\ BuildInv'
<1>1. CASE Poll BY <1>1 DEF Poll, queue, TypeOK, BuildInv, Building
<1>2. CASE FlushNothing \/ PublishFails
  <2>1. UNCHANGED <<slots, head, count, value, known, gen, payload, tail, uploads, torn>>
        /\ NotFlushed /\ pc \in {"flush", "publish", "published"}
    BY <1>2 DEF FlushNothing, PublishFails, queue
  <2>2. pc' \in {"idle", "sample"} /\ sampled' \in BOOLEAN /\ device' \in 1 .. Devices + 1
    <3>1. 1 \in 1 .. Devices + 1 BY ConstantsAssumption
    <3> QED BY <2>1, <3>1 DEF NotFlushed, TypeOK
  <2> QED BY <2>1, <2>2 DEF TypeOK, BuildInv, Building
<1>3. CASE FlushChecked BY <1>3 DEF FlushChecked, queue, TypeOK, BuildInv, Building
<1>4. CASE Publish
  <2>1. uploads' = Append(uploads, slots[head]) /\ pc' = "published"
        /\ UNCHANGED <<slots, head, count, value, known, gen, sampled, device, payload, tail, torn>>
    BY <1>4 DEF Publish, queue
  <2>2. slots[head] \in Payload \cup {Empty} BY DEF TypeOK
  <2>3. uploads' \in Seq(Payload \cup {Empty}) BY <2>1, <2>2, AppendProperties DEF TypeOK
  <2> QED BY <2>1, <2>3 DEF TypeOK, BuildInv, Building
<1>5. CASE Take
  <2>1. slots' = [slots EXCEPT ![head] = Empty] /\ head' = NextHead /\ pc' = "taken"
        /\ UNCHANGED <<count, value, known, gen, sampled, device, payload, tail, uploads, torn>>
    BY <1>5 DEF Take
  <2>2. NextHead \in 0 .. Capacity - 1 BY IdxNext
  <2> QED BY <2>1, <2>2 DEF TypeOK, BuildInv, Building
<1>6. CASE CountOff
  <2>1. count' = (count + 255) % 256 /\ pc' = "idle"
        /\ UNCHANGED <<slots, head, value, known, gen, sampled, device, payload, tail, uploads, torn>>
    BY <1>6 DEF CountOff
  <2> QED BY <2>1 DEF TypeOK, BuildInv, Building
<1> QED BY <1>1, <1>2, <1>3, <1>4, <1>5, <1>6 DEF FlushStep

\* Sampling and enqueuing keep the types.
LEMMA IngestTyped ==
  ASSUME TypeOK, BuildInv, IngestStep
  PROVE  TypeOK' /\ BuildInv'
<1>1. CASE Sample
  <2>1. /\ device <= Devices /\ known' = [known EXCEPT ![device] = value[device]]
        /\ payload' = [device |-> device, value |-> value[device], gen |-> gen] /\ pc' = "built"
        /\ UNCHANGED <<slots, head, count, value, gen, sampled, device, tail, uploads, torn>>
    BY <1>1 DEF Sample, queue
  <2>2. device \in 1 .. Devices BY <2>1, ConstantsAssumption DEF TypeOK
  <2>3. value[device] \in 0 .. MaxValue BY <2>2 DEF TypeOK
  <2>4. known' \in [1 .. Devices -> -1 .. MaxValue] BY <2>1, <2>3, ConstantsAssumption DEF TypeOK
  <2>5. payload' \in Payload BY <2>1, <2>2, <2>3 DEF TypeOK, Payload
  <2> QED BY <2>1, <2>4, <2>5 DEF TypeOK, BuildInv, Building
<1>2. CASE SampleNothing
  BY <1>2, ConstantsAssumption DEF SampleNothing, queue, TypeOK, BuildInv, Building
<1>3. CASE SampleEnd
  BY <1>3 DEF SampleEnd, queue, TypeOK, BuildInv, Building
<1>4. CASE EnqueueFull \/ EnqueueCount
  <2>1. /\ pc \in {"built", "stored"} /\ pc' = "sample" /\ device' = device + 1
        /\ count' \in 0 .. 255
        /\ UNCHANGED <<slots, head, value, known, gen, sampled, payload, tail, uploads, torn>>
    <3>1. CASE EnqueueFull
      <4>1. UNCHANGED <<slots, head, count>> BY <3>1 DEF EnqueueFull, queue
      <4>2. count' \in 0 .. 255 BY <4>1 DEF TypeOK
      <4> QED BY <3>1, <4>1, <4>2 DEF EnqueueFull, NextDevice
    <3>2. CASE EnqueueCount
      <4>1. count' = (count + 1) % 256 BY <3>2 DEF EnqueueCount
      <4>2. count' \in 0 .. 255 BY <4>1 DEF TypeOK
      <4> QED BY <3>2, <4>2 DEF EnqueueCount, NextDevice
    <3> QED BY <1>4, <3>1, <3>2
  <2>2. device' \in 1 .. Devices + 1
    BY <2>1, ConstantsAssumption DEF TypeOK, BuildInv, Building
  <2>3. pc' \notin {"built", "store", "stored"} BY <2>1
  <2> QED BY <2>1, <2>2, <2>3 DEF TypeOK, BuildInv, Building
<1>5. CASE EnqueueAt
  <2>1. /\ pc = "built" /\ tail' = Idx(head, count) /\ pc' = "store" /\ ~(count >= Capacity)
        /\ UNCHANGED <<slots, head, count, value, known, gen, sampled, device, payload, uploads, torn>>
    BY <1>5 DEF EnqueueAt, QueueFull, queue, Idx
  <2>2. head \in 0 .. Capacity - 1 /\ count \in 0 .. Capacity
    BY <2>1, ConstantsAssumption DEF TypeOK
  <2>3. tail' \in 0 .. Capacity - 1 BY <2>1, <2>2, IdxDistinct
  <2> QED BY <2>1, <2>3 DEF TypeOK, BuildInv, Building
<1>6. CASE EnqueueStore
  BY <1>6 DEF EnqueueStore, TypeOK, BuildInv, Building
<1> QED BY <1>1, <1>2, <1>3, <1>4, <1>5, <1>6 DEF IngestStep

\* Emptying the ring does.
LEMMA RegisterTyped ==
  ASSUME TypeOK, BuildInv, RegisterInfo
  PROVE  TypeOK' /\ BuildInv'
<1>1. /\ gen < MaxGen /\ gen' = gen + 1 /\ torn' = (torn \/ pc # "idle")
      /\ slots' = [i \in 0 .. Capacity - 1 |-> Empty] /\ head' = 0 /\ count' = 0
      /\ known' = [d \in 1 .. Devices |-> -1]
      /\ UNCHANGED <<value, pc, sampled, device, payload, tail, uploads>>
  BY DEF RegisterInfo, Reset, locals
<1>2. gen' \in 0 .. MaxGen BY <1>1, ConstantsAssumption DEF TypeOK
<1>3. known' \in [1 .. Devices -> -1 .. MaxValue] BY <1>1, ConstantsAssumption
<1>4. head' \in 0 .. Capacity - 1 BY <1>1, ConstantsAssumption
<1> QED BY <1>1, <1>2, <1>3, <1>4 DEF TypeOK, BuildInv, Building

\* So does a device that changes.
LEMMA ChangeTyped ==
  ASSUME TypeOK, BuildInv, NEW d \in 1 .. Devices, Change(d)
  PROVE  TypeOK' /\ BuildInv'
<1>1. /\ value[d] < MaxValue /\ value' = [value EXCEPT ![d] = value[d] + 1]
      /\ UNCHANGED <<slots, head, count, known, gen, pc, sampled, device, payload, tail, uploads, torn>>
  BY DEF Change, queue, locals
<1>2. value[d] + 1 \in 0 .. MaxValue BY <1>1, ConstantsAssumption DEF TypeOK
<1> QED BY <1>1, <1>2 DEF TypeOK, BuildInv, Building

\* Nothing moves in a step that changes no variable.
LEMMA StutterTyped ==
  ASSUME TypeOK, BuildInv, UNCHANGED vars
  PROVE  TypeOK' /\ BuildInv'
BY DEF vars, queue, locals, TypeOK, BuildInv, Building

LEMMA TypeStep ==
  ASSUME TypeOK, BuildInv, [Next]_vars
  PROVE  TypeOK' /\ BuildInv'
BY FlushTyped, IngestTyped, RegisterTyped, ChangeTyped, StutterTyped DEF Next

-----------------------------------------------------------------------------
(* How the payloads in the ring move.                                      *)

\* They stay, and the first may be uploaded.
Stays ==
  /\ Waiting' = Waiting /\ \A i \in 0 .. Waiting - 1 : Slot(i)' = Slot(i)
  /\ uploads' = uploads \/ (Waiting > 0 /\ uploads' = Append(uploads, Slot(0)))

\* The first, which has been uploaded last, leaves.
Leaves ==
  /\ Waiting > 0 /\ Waiting' = Waiting - 1
  /\ \A i \in 0 .. Waiting - 2 : Slot(i)' = Slot(i + 1)
  /\ uploads' = uploads /\ uploads # <<>> /\ uploads[Len(uploads)] = Slot(0)

\* The payload that has been built joins them.
Joins ==
  /\ Building /\ ~Building' /\ Waiting < Capacity /\ Waiting' = Waiting + 1
  /\ \A i \in 0 .. Waiting - 1 : Slot(i)' = Slot(i)
  /\ slots'[Idx(head', Waiting)] = payload /\ uploads' = uploads

\* All steps but a new registry.
Ordinary == FlushStep \/ IngestStep \/ (\E d \in 1 .. Devices : Change(d)) \/ UNCHANGED vars

\* The steps that leave the ring as it is and go to where it may be anything.
Aside ==
  /\ UNCHANGED <<slots, head, count, uploads>>
  /\ pc \notin {"taken", "store", "stored"} /\ pc' \in {"idle", "flush", "sample", "built"}

\* The ordinary steps, by what they do to the ring.
LEMMA Sorted ==
  ASSUME Ordinary
  PROVE  \/ Aside \/ FlushChecked \/ Publish \/ Take \/ CountOff
         \/ EnqueueAt \/ EnqueueStore \/ EnqueueCount
         \/ UNCHANGED <<slots, head, count, uploads, pc, tail, payload>>
<1>1. Poll \/ FlushNothing \/ PublishFails => Aside
  BY DEF Poll, FlushNothing, PublishFails, NotFlushed, queue, Aside
<1>2. Sample \/ SampleEnd \/ EnqueueFull => Aside
  BY DEF Sample, SampleEnd, EnqueueFull, NextDevice, queue, Aside
<1>3. SampleNothing => UNCHANGED <<slots, head, count, uploads, pc, tail, payload>>
  BY DEF SampleNothing, queue
<1>4. UNCHANGED vars \/ (\E d \in 1 .. Devices : Change(d))
        => UNCHANGED <<slots, head, count, uploads, pc, tail, payload>>
  BY DEF Change, queue, locals, vars
<1> QED BY <1>1, <1>2, <1>3, <1>4 DEF Ordinary, FlushStep, IngestStep

\* While the ring serves, there is never more waiting than it holds.
LEMMA WaitingIs ==
  ASSUME TypeOK, Serves
  PROVE  Waiting \in 0 .. Capacity /\ count \in 0 .. Capacity /\ Capacity \in 1 .. 255
BY ConstantsAssumption DEF TypeOK, Serves, Waiting

\* Payloads join at the end, leave at the front, and otherwise stay.
LEMMA Moves ==
  ASSUME TypeOK, BuildInv, Serves, Ordinary
  PROVE  Serves' /\ (Stays \/ Leaves \/ Joins)
<1>1. Waiting \in 0 .. Capacity /\ count \in 0 .. Capacity /\ Capacity \in 1 .. 255
      /\ head \in 0 .. Capacity - 1
  BY WaitingIs DEF TypeOK
<1>2. \A i \in 0 .. Waiting - 1 : Slot(i) \in Payload BY DEF Serves
<1>3. CASE Aside
  <2>1. Waiting' = Waiting BY <1>3 DEF Aside, Waiting
  <2>2. \A i : Slot(i)' = Slot(i) BY <1>3 DEF Aside, Slot
  <2>3. Stays BY <1>3, <2>1, <2>2 DEF Stays, Aside
  <2>4. count' = count /\ pc' \notin {"publish", "published", "taken", "store", "stored"}
    BY <1>3 DEF Aside
  <2>5. Serves' BY <1>1, <1>2, <2>1, <2>2, <2>4 DEF Serves
  <2> QED BY <2>3, <2>5
<1>4. CASE FlushChecked
  <2>1. UNCHANGED <<slots, head, count, uploads>> /\ pc = "flush" /\ pc' = "publish" /\ count # 0
    BY <1>4 DEF FlushChecked, queue
  <2>2. Waiting' = Waiting BY <2>1 DEF Waiting
  <2>3. \A i : Slot(i)' = Slot(i) BY <2>1 DEF Slot
  <2>4. Stays BY <2>1, <2>2, <2>3 DEF Stays
  <2>5. Serves' BY <1>1, <1>2, <2>1, <2>2, <2>3 DEF Serves
  <2> QED BY <2>4, <2>5
<1>5. CASE Publish
  <2>1. UNCHANGED <<slots, head, count>> /\ pc = "publish" /\ pc' = "published"
        /\ uploads' = Append(uploads, slots[head]) /\ uploads \in Seq(Payload \cup {Empty})
    BY <1>5 DEF Publish, queue, TypeOK
  <2>2. Waiting' = Waiting /\ Waiting = count /\ count > 0 BY <2>1 DEF Waiting, Serves
  <2>3. \A i : Slot(i)' = Slot(i) BY <2>1 DEF Slot
  <2>4. slots[head] = Slot(0) BY <1>1, IdxDistinct DEF Slot
  <2>5. Stays BY <2>1, <2>2, <2>3, <2>4 DEF Stays
  <2>6. slots[head] \in Payload \cup {Empty} BY DEF TypeOK
  <2>7. uploads' # <<>> /\ uploads'[Len(uploads')] = slots[head]
    BY <2>1, <2>6, AppendProperties
  <2>8. Serves' BY <1>1, <1>2, <2>1, <2>2, <2>3, <2>7 DEF Serves
  <2> QED BY <2>5, <2>8
<1>6. CASE Take
  <2>1. /\ slots' = [slots EXCEPT ![head] = Empty] /\ head' = NextHead /\ count' = count
        /\ pc = "published" /\ pc' = "taken" /\ uploads' = uploads
    BY <1>6 DEF Take
  <2>2. Waiting = count /\ count > 0 /\ Waiting' = count - 1 BY <2>1 DEF Waiting, Serves
  <2>3. ASSUME NEW i \in 0 .. Waiting - 2 PROVE Slot(i)' = Slot(i + 1)
    <3>1. i \in 0 .. Capacity - 1 /\ i + 1 \in 0 .. Capacity - 1 /\ i + 1 # 0 /\ 0 \in 0 .. Capacity - 1
      BY <1>1, <2>3
    <3>2. Idx(NextHead, i) = Idx(head, i + 1) BY <3>1, IdxNext
    <3>3. Idx(head, i + 1) # head BY <1>1, <3>1, IdxDistinct
    <3>4. slots'[Idx(head, i + 1)] = slots[Idx(head, i + 1)]
      BY <1>1, <2>1, <3>1, <3>3, IdxDistinct DEF TypeOK
    <3> QED BY <2>1, <3>2, <3>4 DEF Slot
  <2>4. slots[head] = Slot(0) BY <1>1, IdxDistinct DEF Slot
  <2>5. uploads # <<>> /\ uploads[Len(uploads)] = Slot(0) BY <2>1, <2>4 DEF Serves
  <2>6. Leaves BY <2>1, <2>2, <2>3, <2>5 DEF Leaves
  <2>7. \A i \in 0 .. Waiting' - 1 : Slot(i)' \in Payload
    <3> SUFFICES ASSUME NEW i \in 0 .. Waiting' - 1 PROVE Slot(i)' \in Payload OBVIOUS
    <3>1. i \in 0 .. Waiting - 2 /\ i + 1 \in 0 .. Waiting - 1 BY <1>1, <2>2
    <3> QED BY <1>2, <2>3, <3>1
  <2>8. Serves' BY <1>1, <2>1, <2>2, <2>7 DEF Serves
  <2> QED BY <2>6, <2>8
<1>7. CASE CountOff
  <2>1. UNCHANGED <<slots, head, uploads>> /\ pc = "taken" /\ pc' = "idle" /\ count' = (count + 255) % 256
    BY <1>7 DEF CountOff
  <2>2. count > 0 /\ Waiting = count - 1 BY <2>1 DEF Serves, Waiting
  <2>3. count' = count - 1 BY <1>1, <2>1, <2>2
  <2>4. Waiting' = Waiting BY <2>1, <2>2, <2>3 DEF Waiting
  <2>5. \A i : Slot(i)' = Slot(i) BY <2>1 DEF Slot
  <2>6. Stays BY <2>1, <2>4, <2>5 DEF Stays
  <2>7. count' <= Capacity BY <1>1, <2>3
  <2>8. Serves' BY <1>2, <2>1, <2>4, <2>5, <2>7 DEF Serves
  <2> QED BY <2>6, <2>8
<1>8. CASE EnqueueAt
  <2>1. UNCHANGED <<slots, head, count, uploads>> /\ pc = "built" /\ pc' = "store"
        /\ tail' = Idx(head, count) /\ ~(count >= Capacity)
    BY <1>8 DEF EnqueueAt, QueueFull, queue, Idx
  <2>2. Waiting' = Waiting BY <2>1 DEF Waiting
  <2>3. \A i : Slot(i)' = Slot(i) BY <2>1 DEF Slot
  <2>4. Stays BY <2>1, <2>2, <2>3 DEF Stays
  <2>5. Idx(head, count)' = Idx(head, count) BY <2>1 DEF Idx
  <2>6. Serves' BY <1>1, <1>2, <2>1, <2>2, <2>3, <2>5 DEF Serves
  <2> QED BY <2>4, <2>6
<1>9. CASE EnqueueStore
  <2>1. /\ slots' = [slots EXCEPT ![tail] = payload] /\ UNCHANGED <<head, count, uploads, tail, payload>>
        /\ pc = "store" /\ pc' = "stored"
    BY <1>9 DEF EnqueueStore
  <2>2. Waiting = count /\ Waiting' = count /\ count < Capacity /\ tail = Idx(head, count)
    BY <2>1 DEF Waiting, Serves
  <2>3. ASSUME NEW i \in 0 .. Waiting - 1 PROVE Slot(i)' = Slot(i)
    <3>1. i \in 0 .. Capacity - 1 /\ count \in 0 .. Capacity - 1 /\ i # count BY <1>1, <2>2, <2>3
    <3>2. Idx(head, i) # tail BY <1>1, <2>2, <3>1, IdxDistinct
    <3>3. slots'[Idx(head, i)] = slots[Idx(head, i)]
      BY <1>1, <2>1, <3>1, <3>2, IdxDistinct DEF TypeOK
    <3> QED BY <2>1, <3>3 DEF Slot
  <2>4. Stays BY <2>1, <2>2, <2>3 DEF Stays
  <2>5. slots'[tail'] = payload' BY <2>1 DEF TypeOK
  <2>6. tail' = Idx(head, count)' BY <2>1, <2>2 DEF Idx
  <2>7. \A i \in 0 .. Waiting' - 1 : Slot(i)' \in Payload BY <1>2, <2>2, <2>3
  <2>8. Serves' BY <1>1, <2>1, <2>2, <2>5, <2>6, <2>7 DEF Serves
  <2> QED BY <2>4, <2>8
<1>10. CASE EnqueueCount
  <2>1. UNCHANGED <<slots, head, uploads>> /\ pc = "stored" /\ pc' = "sample" /\ count' = (count + 1) % 256
    BY <1>10 DEF EnqueueCount, NextDevice
  <2>2. count < Capacity /\ Waiting = count /\ tail = Idx(head, count) /\ slots[tail] = payload
    BY <2>1 DEF Serves, Waiting
  <2>3. count' = count + 1 /\ Waiting' = count + 1
    <3>1. count' = count + 1 BY <1>1, <2>1, <2>2
    <3> QED BY <2>1, <3>1 DEF Waiting
  <2>4. \A i : Slot(i)' = Slot(i) BY <2>1 DEF Slot
  <2>5. slots'[Idx(head', Waiting)] = payload BY <2>1, <2>2
  <2>6. payload \in Payload BY <2>1 DEF BuildInv, Building
  <2>7. Joins BY <2>1, <2>2, <2>3, <2>4, <2>5 DEF Joins, Building
  <2>8. \A i \in 0 .. Waiting' - 1 : Slot(i)' \in Payload
    <3> SUFFICES ASSUME NEW i \in 0 .. Waiting' - 1 PROVE Slot(i)' \in Payload OBVIOUS
    <3>1. i \in 0 .. Waiting - 1 \/ i = Waiting BY <1>1, <2>2, <2>3
    <3>2. CASE i = Waiting BY <2>5, <2>6, <3>2 DEF Slot
    <3> QED BY <1>2, <2>4, <3>1, <3>2
  <2>9. count' <= Capacity BY <1>1, <2>2, <2>3
  <2>10. Serves' BY <2>1, <2>8, <2>9 DEF Serves
  <2> QED BY <2>7, <2>10
<1>11. CASE UNCHANGED <<slots, head, count, uploads, pc, tail, payload>>
  <2>1. Waiting' = Waiting BY <1>11 DEF Waiting
  <2>2. \A i : Slot(i)' = Slot(i) BY <1>11 DEF Slot
  <2>3. Stays BY <1>11, <2>1, <2>2 DEF Stays
  <2>4. Idx(head, count)' = Idx(head, count) BY <1>11 DEF Idx
  <2>5. Serves' BY <1>11, <2>1, <2>2, <2>4 DEF Serves
  <2> QED BY <2>3, <2>5
<1> QED BY <1>3, <1>4, <1>5, <1>6, <1>7, <1>8, <1>9, <1>10, <1>11, Sorted

-----------------------------------------------------------------------------
(* The order of the payloads.                                              *)

\* Values only grow, and a payload under construction stays or is read now.
LEMMA ReadLater ==
  ASSUME TypeOK, BuildInv, Ordinary
  PROVE  /\ gen' = gen /\ torn' = torn
         /\ \A p \in Payload \cup {Empty} : Read(p) => Read(p)'
         /\ Building' => \/ Building /\ payload' = payload
                         \/ /\ payload'.gen = gen /\ Read(payload)'
                            /\ \A p \in Payload \cup {Empty} : Read(p) => Before(p, payload')
<1>1. /\ gen' = gen /\ torn' = torn
      /\ value' = value \/ (\E d \in 1 .. Devices : Change(d))
  <2>1. FlushStep => UNCHANGED <<gen, torn, value>>
    BY DEF FlushStep, Poll, FlushNothing, FlushChecked, Publish, PublishFails, Take, CountOff
  <2>2. IngestStep => UNCHANGED <<gen, torn, value>>
    BY DEF IngestStep, Sample, SampleNothing, SampleEnd, EnqueueFull, EnqueueAt, EnqueueStore, EnqueueCount
  <2> QED BY <2>1, <2>2 DEF Ordinary, Change, vars
<1>2. \A d \in 1 .. Devices : value'[d] >= value[d]
  <2>1. CASE value' = value BY <2>1 DEF TypeOK
  <2>2. ASSUME NEW e \in 1 .. Devices, Change(e) PROVE \A d \in 1 .. Devices : value'[d] >= value[d]
    <3>1. value' = [value EXCEPT ![e] = value[e] + 1] BY <2>2 DEF Change
    <3> QED BY <3>1 DEF TypeOK
  <2> QED BY <1>1, <2>1, <2>2
<1>3. \A d \in 1 .. Devices : value[d] \in Int /\ value'[d] \in Int
  <2>1. [Next]_vars BY DEF Ordinary, Next
  <2>2. TypeOK' BY <2>1, TypeStep
  <2>3. value \in [1 .. Devices -> 0 .. MaxValue] /\ value' \in [1 .. Devices -> 0 .. MaxValue]
    BY <2>2 DEF TypeOK
  <2>4. 0 .. MaxValue \subseteq Int OBVIOUS
  <2> QED BY <2>3, <2>4
<1>4. ASSUME NEW p \in Payload \cup {Empty}, Read(p) PROVE Read(p)'
  <2>1. p.value \in Int BY DEF Payload, Empty
  <2> QED BY <1>1, <1>2, <1>3, <1>4, <2>1 DEF Read
<1>5. CASE Sample
  <2>1. /\ device <= Devices /\ value' = value
        /\ payload' = [device |-> device, value |-> value[device], gen |-> gen]
    BY <1>5 DEF Sample
  <2>2. device \in 1 .. Devices BY <2>1, ConstantsAssumption DEF TypeOK
  <2>3. payload'.device = device /\ payload'.value = value[device] /\ payload'.gen = gen BY <2>1
  <2>4. Read(payload)' BY <1>1, <1>3, <2>1, <2>2, <2>3 DEF Read, TypeOK
  <2>5. \A p \in Payload \cup {Empty} : Read(p) => Before(p, payload')
    BY <2>2, <2>3 DEF Read, Before
  <2> QED BY <1>1, <1>4, <2>3, <2>4, <2>5
<1>6. CASE ~Sample
  <2>1. FlushStep => ~Building'
    BY DEF FlushStep, Poll, FlushNothing, FlushChecked, Publish, PublishFails, NotFlushed, Take,
           CountOff, Building, TypeOK, BuildInv
  <2>2. IngestStep => ~Building' \/ (Building /\ payload' = payload)
    BY <1>6 DEF IngestStep, SampleNothing, SampleEnd, EnqueueFull, EnqueueAt, EnqueueStore,
                EnqueueCount, NextDevice, Building
  <2>3. (\E d \in 1 .. Devices : Change(d)) \/ UNCHANGED vars => pc' = pc /\ payload' = payload
    BY DEF Change, locals, vars
  <2>4. Building' => Building /\ payload' = payload BY <2>1, <2>2, <2>3 DEF Ordinary, Building
  <2> QED BY <1>1, <1>4, <2>4
<1> QED BY <1>5, <1>6

\* The payloads that wait stay in order, and behind those that have been uploaded.
LEMMA OrderKept ==
  ASSUME TypeOK, BuildInv, Serves, InOrder, ReadInv, Ordinary
  PROVE  InOrder'
<1>1. /\ \A i \in 0 .. Waiting - 1 :
           /\ Slot(i) \in Payload /\ Read(Slot(i))
           /\ \A j \in DOMAIN uploads : Before(uploads[j], Slot(i))
      /\ \A i, j \in 0 .. Waiting - 1 : i < j => Before(Slot(i), Slot(j))
      /\ Waiting \in 0 .. Capacity
  BY WaitingIs DEF InOrder, Serves, Fits
<1>2. \A p \in Payload : Read(p) => Read(p)' BY ReadLater
<1>3. \A i \in 0 .. Waiting - 1 : Building' => Before(Slot(i), payload')
  BY <1>1, ReadLater DEF InOrder, Fits
<1>4. SUFFICES /\ \A i \in 0 .. Waiting' - 1 : \E p \in Payload : Slot(i)' = p /\ Fits(p)'
               /\ \A i, j \in 0 .. Waiting' - 1 : i < j => Before(Slot(i)', Slot(j)')
  <2>1. ASSUME NEW i \in 0 .. Waiting' - 1, NEW p \in Payload, Slot(i)' = p, Fits(p)'
        PROVE  Fits(Slot(i))'
    BY <2>1 DEF Fits, Read, Before
  <2> QED BY <1>4, <2>1 DEF InOrder, Before
<1>5. CASE Stays
  <2>1. Waiting' = Waiting /\ \A i \in 0 .. Waiting - 1 : Slot(i)' = Slot(i) BY <1>5 DEF Stays
  <2>2. \A i, j \in 0 .. Waiting' - 1 : i < j => Before(Slot(i)', Slot(j)') BY <1>1, <2>1
  <2>3. ASSUME NEW i \in 0 .. Waiting - 1 PROVE \A j \in DOMAIN uploads' : Before(uploads'[j], Slot(i))
    <3>1. CASE uploads' = uploads BY <1>1, <3>1
    <3>2. CASE Waiting > 0 /\ uploads' = Append(uploads, Slot(0))
      <4>1. 0 \in 0 .. Waiting - 1 /\ (i = 0 \/ 0 < i) BY <1>1, <3>2
      <4>2. uploads \in Seq(Payload \cup {Empty}) /\ Slot(0) \in Payload \cup {Empty}
        BY <1>1, <4>1 DEF TypeOK
      <4>3. Slot(0).value <= Slot(0).value BY <1>1, <4>1 DEF Payload
      <4>4. Before(Slot(0), Slot(i)) BY <1>1, <4>1, <4>3 DEF Before
      <4>5. /\ DOMAIN uploads' = 1 .. Len(uploads) + 1 /\ DOMAIN uploads = 1 .. Len(uploads)
            /\ \A j \in 1 .. Len(uploads) : uploads'[j] = uploads[j]
            /\ uploads'[Len(uploads) + 1] = Slot(0) /\ Len(uploads) \in Nat
        BY <3>2, <4>2, AppendProperties, LenProperties
      <4>6. \A j \in DOMAIN uploads' : j \in DOMAIN uploads \/ j = Len(uploads) + 1 BY <4>5
      <4> QED BY <1>1, <4>4, <4>5, <4>6
    <3> QED BY <1>5, <3>1, <3>2 DEF Stays
  <2>4. ASSUME NEW i \in 0 .. Waiting' - 1 PROVE \E p \in Payload : Slot(i)' = p /\ Fits(p)'
    <3>1. PICK p \in Payload : p = Slot(i) BY <1>1, <2>1
    <3>2. Read(p)' /\ (Building' => Before(p, payload')) /\ \A j \in DOMAIN uploads' : Before(uploads'[j], p)
      BY <1>1, <1>2, <1>3, <2>1, <2>3, <3>1
    <3>3. Fits(p)' BY <3>2 DEF Fits, Before
    <3> QED BY <2>1, <3>1, <3>3
  <2> QED BY <2>2, <2>4
<1>6. CASE Leaves
  <2>1. Waiting' = Waiting - 1 /\ uploads' = uploads
        /\ \A i \in 0 .. Waiting - 2 : Slot(i)' = Slot(i + 1)
    BY <1>6 DEF Leaves
  <2>2. \A i \in 0 .. Waiting' - 1 : i \in 0 .. Waiting - 2 /\ i + 1 \in 0 .. Waiting - 1
    BY <1>1, <2>1
  <2>3. \A i, j \in 0 .. Waiting' - 1 : i < j => i + 1 < j + 1 BY <1>1, <2>1
  <2>4. \A i, j \in 0 .. Waiting' - 1 : i < j => Before(Slot(i)', Slot(j)') BY <1>1, <2>1, <2>2, <2>3
  <2>5. ASSUME NEW i \in 0 .. Waiting' - 1 PROVE \E p \in Payload : Slot(i)' = p /\ Fits(p)'
    <3>1. i + 1 \in 0 .. Waiting - 1 /\ Slot(i)' = Slot(i + 1) BY <2>1, <2>2
    <3>2. PICK p \in Payload : p = Slot(i + 1) BY <1>1, <3>1
    <3>3. Read(p)' /\ (Building' => Before(p, payload')) /\ \A j \in DOMAIN uploads' : Before(uploads'[j], p)
      BY <1>1, <1>2, <1>3, <2>1, <3>1, <3>2
    <3>4. Fits(p)' BY <3>3 DEF Fits, Before
    <3> QED BY <3>1, <3>2, <3>4
  <2> QED BY <2>4, <2>5
<1>7. CASE Joins
  <2>1. /\ Building /\ ~Building' /\ Waiting' = Waiting + 1 /\ uploads' = uploads
        /\ \A i \in 0 .. Waiting - 1 : Slot(i)' = Slot(i)
        /\ slots'[Idx(head', Waiting)] = payload
    BY <1>7 DEF Joins
  <2>2. \A i \in 0 .. Waiting' - 1 : i \in 0 .. Waiting - 1 \/ (i = Waiting /\ Slot(i)' = payload)
    BY <1>1, <2>1 DEF Slot
  <2>3. payload \in Payload /\ Read(payload) /\ \A j \in DOMAIN uploads : Before(uploads[j], payload)
    BY <2>1 DEF BuildInv, ReadInv
  <2>4. ASSUME NEW i \in 0 .. Waiting' - 1 PROVE \E p \in Payload : Slot(i)' = p /\ Fits(p)'
    <3>1. PICK p \in Payload :
            /\ p = Slot(i)' /\ Read(p) /\ \A j \in DOMAIN uploads : Before(uploads[j], p)
      <4>1. CASE i \in 0 .. Waiting - 1
        <5>1. Slot(i)' = Slot(i) /\ Slot(i) \in Payload /\ Read(Slot(i))
              /\ \A j \in DOMAIN uploads : Before(uploads[j], Slot(i))
          BY <1>1, <2>1, <4>1
        <5> QED BY <5>1
      <4>2. CASE Slot(i)' = payload BY <2>3, <4>2
      <4> QED BY <2>2, <4>1, <4>2
    <3>2. Fits(p)' BY <1>2, <2>1, <3>1 DEF Fits, Before
    <3> QED BY <3>1, <3>2
  <2>5. ASSUME NEW i \in 0 .. Waiting' - 1, NEW j \in 0 .. Waiting' - 1, i < j
        PROVE  Before(Slot(i)', Slot(j)')
    <3>1. i \in 0 .. Waiting - 1 /\ Slot(i)' = Slot(i) BY <1>1, <2>1, <2>5
    <3>2. CASE j \in 0 .. Waiting - 1 BY <1>1, <2>1, <2>5, <3>1, <3>2
    <3>3. CASE Slot(j)' = payload BY <2>1, <3>1, <3>3 DEF InOrder, Fits
    <3> QED BY <2>2, <3>2, <3>3
  <2> QED BY <2>4, <2>5
<1> QED BY <1>5, <1>6, <1>7, Moves

\* What is uploaded when the ring is not a queue is an empty slot.
LEMMA UploadedIs ==
  ASSUME TypeOK, BuildInv, RingInv, ReadInv, Ordinary
  PROVE  \/ uploads' = uploads
         \/ /\ ~Building'
            /\ \E p \in Payload \cup {Empty} :
                 /\ uploads' = Append(uploads, p) /\ Read(p) /\ \A j \in DOMAIN uploads : Before(uploads[j], p)
<1>1. CASE Publish
  <2>1. pc = "publish" /\ pc' = "published" /\ uploads' = Append(uploads, slots[head])
    BY <1>1 DEF Publish
  <2>2. slots[head] \in Payload \cup {Empty} /\ head \in 0 .. Capacity - 1 BY DEF TypeOK
  <2>3. CASE Serves /\ InOrder
    <3>1. Waiting > 0 /\ Waiting \in 0 .. Capacity BY <2>1, <2>3, WaitingIs DEF Serves, Waiting
    <3>2. slots[head] = Slot(0) BY <2>2, IdxDistinct DEF Slot
    <3>3. 0 \in 0 .. Waiting - 1 BY <3>1
    <3>4. Fits(slots[head]) BY <2>3, <3>2, <3>3 DEF InOrder
    <3> QED BY <2>1, <2>2, <3>4 DEF Fits, Building
  <2>4. CASE Spent
    <3>1. slots[head] = Empty BY <2>2, <2>4 DEF Spent
    <3>2. Read(Empty) BY ConstantsAssumption DEF Read, Empty, TypeOK
    <3>3. ASSUME NEW j \in DOMAIN uploads PROVE Before(uploads[j], Empty)
      <4>1. uploads[j] \in Payload \cup {Empty} BY ElementOfSeq, LenProperties DEF TypeOK
      <4>2. CASE uploads[j] = Empty BY <4>2 DEF Before, Empty
      <4>3. CASE uploads[j] \in Payload
        <5>1. uploads[j].device # 0 BY <4>3 DEF Payload
        <5> QED BY <5>1 DEF Before, Empty
      <4> QED BY <4>1, <4>2, <4>3
    <3> QED BY <2>1, <2>2, <3>1, <3>2, <3>3 DEF Building
  <2>5. CASE Gap BY <2>1, <2>5 DEF Gap
  <2> QED BY <2>3, <2>4, <2>5 DEF RingInv
<1>2. CASE ~Publish
  BY <1>2, Sorted DEF Aside, FlushChecked, Take, CountOff, EnqueueAt, EnqueueStore, EnqueueCount, queue
<1> QED BY <1>1, <1>2

\* All that has been uploaded was read, and is not newer than what is built.
LEMMA ReadKept ==
  ASSUME TypeOK, BuildInv, RingInv, ReadInv, Ordinary
  PROVE  ReadInv'
<1>1. \A j \in DOMAIN uploads : uploads[j] \in Payload \cup {Empty} /\ Read(uploads[j])
  BY ElementOfSeq, LenProperties DEF TypeOK, ReadInv
<1>2. \A p \in Payload \cup {Empty} : Read(p) => Read(p)' BY ReadLater
<1>3. CASE uploads' = uploads
  <2>1. ASSUME NEW j \in DOMAIN uploads PROVE Read(uploads[j])'
    <3>1. PICK p \in Payload \cup {Empty} : p = uploads[j] /\ Read(p) BY <1>1
    <3>2. Read(p)' BY <1>2, <3>1
    <3> QED BY <1>3, <3>1, <3>2 DEF Read
  <2>2. ASSUME Building' PROVE Read(payload)' /\ \A j \in DOMAIN uploads : Before(uploads[j], payload')
    <3>1. CASE Building /\ payload' = payload
      <4>1. payload \in Payload /\ Read(payload) /\ \A j \in DOMAIN uploads : Before(uploads[j], payload)
        BY <3>1 DEF BuildInv, ReadInv
      <4>2. PICK p \in Payload : p = payload /\ Read(p) BY <4>1
      <4>3. Read(p)' BY <1>2, <4>2
      <4> QED BY <3>1, <4>1, <4>2, <4>3 DEF Read
    <3>2. CASE Read(payload)' /\ \A p \in Payload \cup {Empty} : Read(p) => Before(p, payload')
      BY <1>1, <3>2
    <3> QED BY <2>2, <3>1, <3>2, ReadLater
  <2> QED BY <1>3, <2>1, <2>2 DEF ReadInv, Before
<1>4. ASSUME ~Building', NEW q \in Payload \cup {Empty}, uploads' = Append(uploads, q), Read(q)
      PROVE  ReadInv'
  <2>1. /\ DOMAIN uploads' = 1 .. Len(uploads) + 1 /\ DOMAIN uploads = 1 .. Len(uploads)
        /\ \A j \in 1 .. Len(uploads) : uploads'[j] = uploads[j]
        /\ uploads'[Len(uploads) + 1] = q /\ Len(uploads) \in Nat
    BY <1>4, AppendProperties, LenProperties DEF TypeOK
  <2>2. \A j \in DOMAIN uploads' : j \in DOMAIN uploads \/ j = Len(uploads) + 1 BY <2>1
  <2>3. ASSUME NEW j \in DOMAIN uploads' PROVE Read(uploads[j])'
    <3>1. uploads'[j] \in Payload \cup {Empty} /\ Read(uploads'[j]) BY <1>1, <1>4, <2>1, <2>2
    <3>2. PICK p \in Payload \cup {Empty} : p = uploads'[j] /\ Read(p) BY <3>1
    <3>3. Read(p)' BY <1>2, <3>2
    <3> QED BY <3>2, <3>3 DEF Read
  <2> QED BY <1>4, <2>3 DEF ReadInv
<1> QED BY <1>3, <1>4, UploadedIs

-----------------------------------------------------------------------------
(* When the registry changes in the middle of something.                   *)

\* A ring that has nothing waiting serves, if nothing is half done.
LEMMA EmptyServes ==
  ASSUME count' = 0, pc' \notin {"publish", "published", "taken", "stored"},
         pc' = "store" => tail' = Idx(head', 0)
  PROVE  Serves' /\ InOrder'
<1>1. Waiting' = 0 BY DEF Waiting
<1>2. \A i : i \notin 0 .. Waiting' - 1 BY <1>1
<1>3. 0 < Capacity /\ 0 <= Capacity BY ConstantsAssumption
<1>4. InOrder' BY <1>2 DEF InOrder
<1> QED BY <1>2, <1>3, <1>4 DEF Serves

\* An emptied ring whose count went round stays so, or is a queue again.
LEMMA SpentKept ==
  ASSUME TypeOK, BuildInv, Spent, Ordinary
  PROVE  Spent' \/ (Serves' /\ InOrder')
<1>1. head \in 0 .. Capacity - 1 /\ Capacity \in 1 .. 255 BY ConstantsAssumption DEF TypeOK
<1>2. slots[head] = Empty BY <1>1 DEF Spent
<1>3. CASE Aside
  <2>1. CASE count = 0 BY <1>3, <2>1, EmptyServes DEF Aside
  <2>2. CASE count # 0 BY <1>3, <2>2 DEF Aside, Spent
  <2> QED BY <2>1, <2>2
<1>4. CASE FlushChecked BY <1>2, <1>4 DEF FlushChecked
<1>5. CASE Publish BY <1>5 DEF Publish, Spent, queue
<1>6. CASE Take
  <2>1. slots' = [slots EXCEPT ![head] = Empty] /\ count' = count /\ pc = "published" /\ pc' = "taken"
    BY <1>6 DEF Take
  <2>2. \A i \in 0 .. Capacity - 1 : slots'[i] = Empty BY <2>1 DEF Spent, TypeOK
  <2> QED BY <2>1, <2>2 DEF Spent
<1>7. CASE CountOff
  <2>1. pc = "taken" /\ slots' = slots /\ pc' = "idle" /\ count' = (count + 255) % 256
    BY <1>7 DEF CountOff
  <2>2. count = 0 BY <2>1 DEF Spent
  <2>3. count' = 255 BY <2>1, <2>2
  <2> QED BY <2>1, <2>3 DEF Spent
<1>8. CASE EnqueueAt
  <2>1. pc = "built" /\ ~(count >= Capacity) BY <1>8 DEF EnqueueAt, QueueFull
  <2>2. count = 255 BY <2>1 DEF Spent
  <2> QED BY <1>1, <2>1, <2>2
<1>9. CASE EnqueueStore \/ EnqueueCount BY <1>9 DEF EnqueueStore, EnqueueCount, Spent
<1>10. CASE UNCHANGED <<slots, head, count, uploads, pc, tail, payload>> BY <1>10 DEF Spent
<1> QED BY <1>3, <1>4, <1>5, <1>6, <1>7, <1>8, <1>9, <1>10, Sorted

\* An empty head under a payload stored further on stays empty.
LEMMA GapKept ==
  ASSUME TypeOK, BuildInv, Gap, Ordinary
  PROVE  Gap'
<1>1. Capacity \in 1 .. 255 /\ count \in 0 .. 255 BY ConstantsAssumption DEF TypeOK
<1>2. CASE Aside BY <1>2 DEF Aside, Gap
<1>3. CASE FlushChecked BY <1>3 DEF FlushChecked, Gap
<1>4. CASE Publish \/ Take \/ CountOff BY <1>4 DEF Publish, Take, CountOff, Gap
<1>5. CASE EnqueueAt
  <2>1. UNCHANGED <<slots, head, count>> /\ pc = "built" /\ pc' = "store"
        /\ tail' = Idx(head, count) /\ ~(count >= Capacity)
    BY <1>5 DEF EnqueueAt, QueueFull, queue, Idx
  <2>2. head = 0 /\ count > 0 /\ count < Capacity BY <1>1, <2>1 DEF Gap
  <2>3. 0 \in 0 .. Capacity - 1 /\ count \in 0 .. Capacity BY <1>1, <2>2
  <2>4. Idx(0, count) = IF 0 + count < Capacity THEN 0 + count ELSE 0 + count - Capacity BY <2>3, IdxIs
  <2>5. tail' = count BY <1>1, <2>1, <2>2, <2>4
  <2> QED BY <2>1, <2>2, <2>5 DEF Gap
<1>6. CASE EnqueueStore
  <2>1. slots' = [slots EXCEPT ![tail] = payload] /\ UNCHANGED <<head, count>> /\ pc = "store" /\ pc' = "stored"
    BY <1>6 DEF EnqueueStore
  <2>2. tail # 0 /\ count < Capacity BY <2>1 DEF Gap
  <2>3. 0 \in 0 .. Capacity - 1 BY <1>1
  <2>4. slots'[0] = Empty BY <2>1, <2>2, <2>3 DEF Gap, TypeOK
  <2> QED BY <2>1, <2>2, <2>4 DEF Gap
<1>7. CASE EnqueueCount
  <2>1. UNCHANGED <<slots, head>> /\ pc = "stored" /\ pc' = "sample" /\ count' = (count + 1) % 256
    BY <1>7 DEF EnqueueCount, NextDevice
  <2>2. count < Capacity BY <2>1 DEF Gap
  <2>3. count' = count + 1 BY <1>1, <2>1, <2>2
  <2>4. count' <= Capacity /\ count' > 0 BY <1>1, <2>2, <2>3
  <2> QED BY <2>1, <2>4 DEF Gap
<1>8. CASE UNCHANGED <<slots, head, count, uploads, pc, tail, payload>> BY <1>8 DEF Gap
<1> QED BY <1>2, <1>3, <1>4, <1>5, <1>6, <1>7, <1>8, Sorted

\* A new registry leaves an empty queue, a spent one, or one with a gap.
LEMMA ResetRing ==
  ASSUME TypeOK, BuildInv, RegisterInfo
  PROVE  RingInv'
<1>1. /\ slots' = [i \in 0 .. Capacity - 1 |-> Empty] /\ head' = 0 /\ count' = 0
      /\ pc' = pc /\ tail' = tail
  BY DEF RegisterInfo, Reset, locals
<1>2. \A i \in 0 .. Capacity - 1 : slots'[i] = Empty BY <1>1
<1>3. 0 \in 0 .. Capacity - 1 /\ 0 < Capacity /\ 0 <= Capacity BY ConstantsAssumption
<1>4. CASE pc \in {"publish", "published", "taken"} BY <1>1, <1>2, <1>4 DEF Spent, RingInv
<1>5. CASE pc = "stored" \/ (pc = "store" /\ tail # 0)
  <2>1. head' = 0 /\ slots'[0] = Empty /\ count' = 0 /\ count' < Capacity /\ count' <= Capacity
    BY <1>1, <1>2, <1>3
  <2>2. pc' \in {"store", "stored"} /\ (pc' = "store" => tail' # 0) BY <1>1, <1>5
  <2>3. Gap' BY <2>1, <2>2 DEF Gap
  <2> QED BY <2>3 DEF RingInv
<1>6. CASE pc \notin {"publish", "published", "taken", "stored"} /\ (pc = "store" => tail = 0)
  <2>1. Idx(0, 0) = 0 BY <1>3, IdxDistinct
  <2>2. tail' = Idx(head', 0) \/ pc' # "store" BY <1>1, <1>6, <2>1
  <2>3. Serves' /\ InOrder' BY <1>1, <1>6, <2>2, EmptyServes
  <2> QED BY <2>3 DEF RingInv
<1> QED BY <1>4, <1>5, <1>6

\* And what was read before it was read under another registry.
LEMMA ResetRead ==
  ASSUME TypeOK, BuildInv, ReadInv, RegisterInfo
  PROVE  ReadInv'
<1>1. gen' = gen + 1 /\ UNCHANGED <<value, pc, payload, uploads>>
  BY DEF RegisterInfo, locals
<1>2. ASSUME NEW p \in Payload \cup {Empty}, Read(p) PROVE Read(p)'
  <2>1. p.gen \in Int /\ p.gen <= gen /\ gen \in Int BY <1>2 DEF Payload, Empty, Read, TypeOK
  <2>2. p.gen <= gen' /\ p.gen # gen' BY <1>1, <2>1
  <2> QED BY <2>2 DEF Read
<1>3. ASSUME NEW j \in DOMAIN uploads PROVE Read(uploads[j])'
  <2>1. uploads[j] \in Payload \cup {Empty} /\ Read(uploads[j])
    BY ElementOfSeq, LenProperties DEF TypeOK, ReadInv
  <2>2. PICK p \in Payload \cup {Empty} : p = uploads[j] /\ Read(p) BY <2>1
  <2>3. Read(p)' BY <1>2, <2>2
  <2> QED BY <1>1, <2>2, <2>3 DEF Read
<1>4. ASSUME Building PROVE Read(payload)'
  <2>1. PICK p \in Payload \cup {Empty} : p = payload /\ Read(p) BY <1>4 DEF BuildInv, ReadInv
  <2>2. Read(p)' BY <1>2, <2>1
  <2> QED BY <1>1, <2>1, <2>2 DEF Read
<1> QED BY <1>1, <1>3, <1>4 DEF ReadInv, Building, Before

-----------------------------------------------------------------------------
(* The theorems.                                                           *)

IInv == TypeOK /\ BuildInv /\ RingInv /\ ReadInv /\ CleanInv

\* It all holds at first: the ring is empty and nothing has been uploaded.
LEMMA InitHolds == Init => IInv /\ UploadsInOrder
<1> SUFFICES ASSUME Init PROVE IInv /\ UploadsInOrder OBVIOUS
<1>1. TypeOK /\ BuildInv BY InitTyped
<1>2. count = 0 /\ pc = "idle" /\ uploads = <<>> BY DEF Init
<1>3. Waiting = 0 /\ ~Building BY <1>2 DEF Waiting, Building
<1>4. \A i : i \notin 0 .. Waiting - 1 BY <1>3
<1>5. 0 <= Capacity BY ConstantsAssumption
<1>6. Serves BY <1>2, <1>4, <1>5 DEF Serves
<1>7. InOrder BY <1>4 DEF InOrder
<1>8. DOMAIN uploads = {} BY <1>2
<1>9. ReadInv /\ UploadsInOrder BY <1>3, <1>8 DEF ReadInv, UploadsInOrder
<1>10. CleanInv BY <1>3, <1>4, <1>6 DEF CleanInv
<1> QED BY <1>1, <1>6, <1>7, <1>9, <1>10 DEF IInv, RingInv

\* Until a registry comes in the middle of something, the queue is of its payloads.
LEMMA CleanKept ==
  ASSUME IInv, Ordinary
  PROVE  CleanInv'
<1>1. TypeOK /\ BuildInv /\ CleanInv BY DEF IInv
<1>2. gen' = gen /\ torn' = torn BY <1>1, ReadLater
<1>3. SUFFICES ASSUME ~torn
               PROVE  /\ Serves' /\ \A i \in 0 .. Waiting' - 1 : Slot(i)'.gen = gen
                      /\ Building' => payload'.gen = gen
  <2>1. torn \in BOOLEAN BY <1>1 DEF TypeOK
  <2> QED BY <1>2, <1>3, <2>1 DEF CleanInv
<1>4. /\ Serves /\ \A i \in 0 .. Waiting - 1 : Slot(i).gen = gen
      /\ Building => payload.gen = gen
  BY <1>1, <1>3 DEF CleanInv
<1>5. Serves' /\ (Stays \/ Leaves \/ Joins) BY <1>1, <1>4, Moves
<1>6. Building' => payload'.gen = gen BY <1>1, <1>4, ReadLater
<1>7. Waiting \in 0 .. Capacity BY <1>1, <1>4, WaitingIs
<1>8. ASSUME NEW i \in 0 .. Waiting' - 1 PROVE Slot(i)'.gen = gen
  <2>1. CASE Stays
    <3>1. i \in 0 .. Waiting - 1 /\ Slot(i)' = Slot(i) BY <2>1 DEF Stays
    <3> QED BY <1>4, <3>1
  <2>2. CASE Leaves
    <3>1. Waiting' = Waiting - 1 BY <2>2 DEF Leaves
    <3>2. i \in 0 .. Waiting - 2 /\ i + 1 \in 0 .. Waiting - 1 BY <1>7, <3>1
    <3>3. Slot(i)' = Slot(i + 1) BY <2>2, <3>2 DEF Leaves
    <3> QED BY <1>4, <3>2, <3>3
  <2>3. CASE Joins
    <3>1. Waiting' = Waiting + 1 /\ Building BY <2>3 DEF Joins
    <3>2. i \in 0 .. Waiting - 1 \/ i = Waiting BY <1>7, <3>1
    <3>3. CASE i \in 0 .. Waiting - 1
      <4>1. Slot(i)' = Slot(i) BY <2>3, <3>3 DEF Joins
      <4> QED BY <1>4, <3>3, <4>1
    <3>4. CASE i = Waiting
      <4>1. Slot(i)' = payload BY <2>3, <3>4 DEF Joins, Slot
      <4> QED BY <1>4, <3>1, <4>1
    <3> QED BY <3>2, <3>3, <3>4
  <2> QED BY <1>5, <2>1, <2>2, <2>3
<1> QED BY <1>5, <1>6, <1>8

\* A registry that comes between two passes leaves an empty queue.
LEMMA ResetClean ==
  ASSUME IInv, RegisterInfo
  PROVE  CleanInv'
<1>1. torn' = (torn \/ pc # "idle") /\ pc' = pc /\ count' = 0 BY DEF RegisterInfo, Reset, locals
<1>2. SUFFICES ASSUME pc' = "idle"
               PROVE  /\ Serves' /\ \A i \in 0 .. Waiting' - 1 : Slot(i)'.gen = gen'
                      /\ Building' => payload'.gen = gen'
  BY <1>1 DEF CleanInv
<1>3. Waiting' = 0 /\ ~Building' BY <1>1, <1>2 DEF Waiting, Building
<1>4. Serves' BY <1>1, <1>2, EmptyServes
<1>5. \A i : i \notin 0 .. Waiting' - 1 BY <1>3
<1> QED BY <1>3, <1>4, <1>5

\* The invariant is inductive.
LEMMA InvStep ==
  ASSUME IInv, [Next]_vars
  PROVE  IInv'
<1>1. TypeOK /\ BuildInv /\ RingInv /\ ReadInv BY DEF IInv
<1>2. TypeOK' /\ BuildInv' BY <1>1, TypeStep
<1>3. CASE RegisterInfo
  BY <1>1, <1>2, <1>3, ResetRing, ResetRead, ResetClean DEF IInv
<1>4. CASE Ordinary
  <2>1. RingInv'
    <3>1. CASE Serves /\ InOrder BY <1>1, <1>4, <3>1, Moves, OrderKept DEF RingInv
    <3>2. CASE Spent BY <1>1, <1>4, <3>2, SpentKept DEF RingInv
    <3>3. CASE Gap BY <1>1, <1>4, <3>3, GapKept DEF RingInv
    <3> QED BY <1>1, <3>1, <3>2, <3>3 DEF RingInv
  <2>2. ReadInv' BY <1>1, <1>4, ReadKept
  <2> QED BY <1>2, <1>4, <2>1, <2>2, CleanKept DEF IInv
<1> QED BY <1>3, <1>4 DEF Next, Ordinary

\* Whatever the capacity, devices and registries, the state stays well typed, the head
\* and the tail within the ring.
THEOREM TypeCorrect == Spec => []TypeOK
<1>1. IInv => TypeOK BY DEF IInv
<1> QED BY <1>1, InitHolds, InvStep, PTL DEF Spec

\* Until a registry comes in the middle of a flush or an enqueue, a queue that counts
\* a payload has one at its head.
THEOREM HeadStaysServed == Spec => []HeadServes
<1>1. IInv => HeadServes
  <2> SUFFICES ASSUME IInv, ~torn, pc = "idle", count # 0
               PROVE  count <= Capacity /\ slots[head] # Empty
    BY DEF HeadServes, HeadAlwaysServes
  <2>1. TypeOK /\ Serves BY DEF IInv, CleanInv
  <2>2. Waiting = count /\ count \in 0 .. Capacity BY <2>1, WaitingIs DEF Waiting
  <2>3. 0 \in 0 .. Waiting - 1 BY <2>2
  <2>4. slots[head] = Slot(0) BY <2>1, IdxDistinct DEF Slot, TypeOK
  <2>5. slots[head] \in Payload BY <2>1, <2>3, <2>4 DEF Serves
  <2>6. Empty \notin Payload
    <3>1. Empty.device = 0 BY DEF Empty
    <3>2. \A p \in Payload : p.device # 0 BY DEF Payload
    <3> QED BY <3>1, <3>2
  <2> QED BY <2>2, <2>5, <2>6
<1> QED BY <1>1, InitHolds, InvStep, PTL DEF Spec

\* Whenever the queue is interrupted and however its count goes wrong, the platform
\* never gets an older value of a device after a newer one.
THEOREM UploadedInOrder == Spec => []UploadsInOrder
<1>1. ASSUME IInv, UploadsInOrder, [Next]_vars PROVE UploadsInOrder'
  <2>1. TypeOK /\ BuildInv /\ RingInv /\ ReadInv BY <1>1 DEF IInv
  <2>2. CASE uploads' = uploads BY <1>1, <2>2 DEF UploadsInOrder
  <2>3. ASSUME NEW p \in Payload \cup {Empty}, uploads' = Append(uploads, p),
               \A j \in DOMAIN uploads : Before(uploads[j], p)
        PROVE  UploadsInOrder'
    <3>1. /\ DOMAIN uploads' = 1 .. Len(uploads) + 1 /\ DOMAIN uploads = 1 .. Len(uploads)
          /\ \A j \in 1 .. Len(uploads) : uploads'[j] = uploads[j]
          /\ uploads'[Len(uploads) + 1] = p /\ Len(uploads) \in Nat
      BY <2>1, <2>3, AppendProperties, LenProperties DEF TypeOK
    <3>2. \A i, j \in DOMAIN uploads' :
            i < j => i \in DOMAIN uploads /\ (j \in DOMAIN uploads \/ j = Len(uploads) + 1)
      BY <3>1
    <3>3. \A i, j \in DOMAIN uploads : i < j => Before(uploads[i], uploads[j])
      BY <1>1 DEF UploadsInOrder, Before
    <3>4. \A i, j \in DOMAIN uploads' : i < j => Before(uploads'[i], uploads'[j])
      BY <2>3, <3>1, <3>2, <3>3
    <3> QED BY <3>4 DEF UploadsInOrder, Before
  <2>4. CASE RegisterInfo BY <2>2, <2>4 DEF RegisterInfo
  <2>5. CASE Ordinary BY <2>1, <2>2, <2>3, <2>5, UploadedIs
  <2> QED BY <1>1, <2>4, <2>5 DEF Next, Ordinary
<1> QED BY <1>1, InitHolds, InvStep, PTL DEF Spec

\* Until then too, what is uploaded was read under the present registry.
THEOREM NoneStale == Spec => NoStaleUpload
<1>1. ASSUME IInv, [Next]_vars, uploads' # uploads, ~torn
      PROVE  uploads'[Len(uploads')].device # 0 /\ uploads'[Len(uploads')].gen = gen
  <2>1. TypeOK /\ BuildInv /\ Serves /\ \A i \in 0 .. Waiting - 1 : Slot(i).gen = gen
    BY <1>1 DEF IInv, CleanInv
  <2>2. Ordinary BY <1>1 DEF Next, Ordinary, RegisterInfo
  <2>3. Waiting > 0 /\ uploads' = Append(uploads, Slot(0))
    BY <1>1, <2>1, <2>2, Moves DEF Stays, Leaves, Joins
  <2>4. 0 \in 0 .. Waiting - 1 BY <2>1, <2>3, WaitingIs
  <2>5. Slot(0) \in Payload /\ Slot(0).gen = gen BY <2>1, <2>4 DEF Serves
  <2>6. uploads'[Len(uploads')] = Slot(0) BY <2>1, <2>3, <2>5, AppendProperties DEF TypeOK
  <2>7. Slot(0).device # 0 BY <2>5 DEF Payload
  <2> QED BY <2>5, <2>6, <2>7
<1>2. IInv /\ [Next]_vars => [uploads' # uploads /\ ~torn => uploads'[Len(uploads')].device # 0
                                    /\ uploads'[Len(uploads')].gen = gen]_vars
  BY <1>1
<1> QED BY <1>2, InitHolds, InvStep, PTL DEF Spec, NoStaleUpload

-----------------------------------------------------------------------------
(* The ring implements the queue.                                          *)

\* n slots from h on, as a sequence.
Ring(s, h, n) == [i \in 1 .. n |-> s[(h + i - 1) % Capacity]]

\* It is a sequence of that length, of what is in the slots.
LEMMA RingIs ==
  ASSUME NEW s, NEW h \in 0 .. Capacity - 1, NEW n \in 0 .. Capacity,
         \A i \in 0 .. n - 1 : s[Idx(h, i)] \in Payload
  PROVE  /\ Ring(s, h, n) \in Seq(Payload) /\ Len(Ring(s, h, n)) = n
         /\ \A i \in 1 .. n : Ring(s, h, n)[i] = s[Idx(h, i - 1)]
<1>1. \A i \in 1 .. n : i - 1 \in 0 .. n - 1 /\ h + i - 1 = h + (i - 1) /\ n \in Nat
  BY ConstantsAssumption
<1>2. \A i \in 1 .. n : (h + i - 1) % Capacity = Idx(h, i - 1) BY <1>1 DEF Idx
<1>3. Ring(s, h, n) = [i \in 1 .. n |-> s[Idx(h, i - 1)]] BY <1>2 DEF Ring
<1>4. \A i \in 1 .. n : s[Idx(h, i - 1)] \in Payload BY <1>1
<1>5. n \in Nat BY ConstantsAssumption
<1>6. Ring(s, h, n) \in [1 .. n -> Payload] BY <1>3, <1>4
<1>7. Ring(s, h, n) \in Seq(Payload) BY <1>5, <1>6
<1>8. Len(Ring(s, h, n)) = n BY <1>5, <1>6, <1>7, LenProperties
<1> QED BY <1>3, <1>7, <1>8

\* The queue is never longer than the ring after a step either.
LEMMA WaitingLater ==
  ASSUME TypeOK', Serves'
  PROVE  Waiting' \in 0 .. Capacity
<1>1. Capacity \in 1 .. 255 BY ConstantsAssumption
<1>2. \A n \in 1 .. Capacity : n - 1 \in 0 .. Capacity /\ n \in 0 .. Capacity BY <1>1
<1>3. count' \in 0 .. Capacity BY <1>1 DEF TypeOK, Serves
<1>4. CASE pc' = "taken"
  <2>1. count' > 0 BY <1>4 DEF Serves
  <2>2. count' \in 1 .. Capacity BY <1>1, <1>3, <2>1
  <2> QED BY <1>2, <1>4, <2>2 DEF Waiting
<1>5. CASE pc' # "taken" BY <1>3, <1>5 DEF Waiting
<1> QED BY <1>4, <1>5

\* A step of the ring, as one of the queue.
LEMMA QueueStep ==
  ASSUME IInv, Ordinary, ~torn
  PROVE  Queue!Next \/ UNCHANGED Queue!vars
<1> DEFINE q == Ring(slots, head, Waiting)
           r == Ring(slots', head', Waiting')
<1>1. TypeOK /\ BuildInv /\ Serves BY DEF IInv, CleanInv
<1>2. TypeOK' /\ Serves' /\ (Stays \/ Leaves \/ Joins) BY <1>1, Moves, TypeStep DEF Ordinary, Next
<1>3. /\ q \in Seq(Payload) /\ Len(q) = Waiting /\ Waiting \in 0 .. Capacity
      /\ \A i \in 1 .. Waiting : q[i] = Slot(i - 1)
  <2>1. Waiting \in 0 .. Capacity /\ head \in 0 .. Capacity - 1 BY <1>1, WaitingIs DEF TypeOK
  <2>2. \A i \in 0 .. Waiting - 1 : slots[Idx(head, i)] \in Payload BY <1>1 DEF Serves, Slot
  <2> QED BY <2>1, <2>2, RingIs DEF Slot
<1>4. Waiting' \in 0 .. Capacity BY <1>2, WaitingLater
<1>5. /\ r \in Seq(Payload) /\ Len(r) = Waiting'
      /\ \A i \in 1 .. Waiting' : r[i] = slots'[Idx(head', i - 1)]
  <2>1. head' \in 0 .. Capacity - 1 BY <1>2 DEF TypeOK
  <2>2. \A i \in 0 .. Waiting' - 1 : slots'[Idx(head', i)] \in Payload BY <1>2 DEF Serves, Slot
  <2> QED BY <1>4, <2>1, <2>2, RingIs
<1> HIDE DEF q, r
<1>6. CASE Stays
  <2>1. Waiting' = Waiting /\ \A i \in 0 .. Waiting - 1 : slots'[Idx(head', i)] = Slot(i)
    BY <1>6 DEF Stays, Slot
  <2>2. \A i \in 1 .. Waiting : i - 1 \in 0 .. Waiting - 1 BY <1>3
  <2>3. \A i \in 1 .. Waiting : r[i] = q[i] BY <1>3, <1>5, <2>1, <2>2
  <2>4. r = q BY <1>3, <1>5, <2>1, <2>3, SeqEqual
  <2>5. CASE uploads' = uploads BY <2>4, <2>5 DEF Queue!vars, q, r, Ring
  <2>6. CASE Waiting > 0 /\ uploads' = Append(uploads, Slot(0))
    <3>1. q # <<>> /\ Head(q) = q[1] /\ q[1] = Slot(0) BY <1>3, <2>6
    <3>2. Queue!Upload BY <2>4, <2>6, <3>1 DEF Queue!Upload, q, r, Ring
    <3> QED BY <3>2 DEF Queue!Next
  <2> QED BY <1>6, <2>5, <2>6 DEF Stays
<1>7. CASE Leaves
  <2>1. /\ Waiting > 0 /\ Waiting' = Waiting - 1 /\ uploads' = uploads /\ uploads # <<>>
        /\ uploads[Len(uploads)] = Slot(0)
        /\ \A i \in 0 .. Waiting - 2 : slots'[Idx(head', i)] = Slot(i + 1)
    BY <1>7 DEF Leaves, Slot
  <2>2. q # <<>> /\ Head(q) = q[1] /\ q[1] = Slot(0) BY <1>3, <2>1
  <2>3. /\ Tail(q) \in Seq(Payload) /\ Len(Tail(q)) = Waiting - 1
        /\ \A i \in 1 .. Waiting - 1 : Tail(q)[i] = q[i + 1]
    BY <1>3, <2>2, HeadTailProperties
  <2>4. ASSUME NEW i \in 1 .. Waiting - 1 PROVE r[i] = Tail(q)[i]
    <3>1. i - 1 \in 0 .. Waiting - 2 /\ i + 1 \in 1 .. Waiting /\ (i - 1) + 1 = (i + 1) - 1 /\ i \in 1 .. Waiting'
      BY <1>3, <2>1
    <3>2. r[i] = Slot((i - 1) + 1) BY <1>5, <2>1, <3>1
    <3>3. q[i + 1] = Slot((i + 1) - 1) BY <1>3, <3>1
    <3> QED BY <2>3, <3>1, <3>2, <3>3
  <2>5. r = Tail(q) BY <1>5, <2>1, <2>3, <2>4, SeqEqual
  <2>6. Queue!Take BY <2>1, <2>2, <2>5 DEF Queue!Take, q, r, Ring
  <2> QED BY <2>6 DEF Queue!Next
<1>8. CASE Joins
  <2>1. /\ Building /\ Waiting < Capacity /\ Waiting' = Waiting + 1 /\ uploads' = uploads
        /\ \A i \in 0 .. Waiting - 1 : slots'[Idx(head', i)] = Slot(i)
        /\ slots'[Idx(head', Waiting)] = payload
    BY <1>8 DEF Joins, Slot
  <2>2. payload \in Payload BY <1>1, <2>1 DEF BuildInv
  <2>3. /\ Append(q, payload) \in Seq(Payload) /\ Len(Append(q, payload)) = Waiting + 1
        /\ \A i \in 1 .. Waiting : Append(q, payload)[i] = q[i]
        /\ Append(q, payload)[Waiting + 1] = payload
    BY <1>3, <2>2, AppendProperties
  <2>4. ASSUME NEW i \in 1 .. Waiting + 1 PROVE r[i] = Append(q, payload)[i]
    <3>1. i \in 1 .. Waiting' /\ (i \in 1 .. Waiting \/ i = Waiting + 1) BY <1>3, <2>1
    <3>2. CASE i \in 1 .. Waiting
      <4>1. i - 1 \in 0 .. Waiting - 1 BY <1>3, <3>2
      <4> QED BY <1>3, <1>5, <2>1, <2>3, <3>1, <3>2, <4>1
    <3>3. CASE i = Waiting + 1
      <4>1. i - 1 = Waiting BY <1>3, <3>3
      <4> QED BY <1>5, <2>1, <2>3, <3>1, <3>3, <4>1
    <3> QED BY <3>1, <3>2, <3>3
  <2>5. r = Append(q, payload) BY <1>5, <2>1, <2>3, <2>4, SeqEqual
  <2>6. PICK p \in Payload : p = payload BY <2>2
  <2>7. Queue!Enqueue(p) BY <1>3, <2>1, <2>5, <2>6 DEF Queue!Enqueue, q, r, Ring
  <2> QED BY <2>7 DEF Queue!Next
<1> QED BY <1>2, <1>6, <1>7, <1>8

\* Until a registry comes in the middle of something, every step of the ring is one of
\* a bounded queue, or none.
THEOREM QueueImplemented == Spec => QueueRefined
<1>1. Init => Queue!Init
  <2> SUFFICES ASSUME Init PROVE Queue!Init OBVIOUS
  <2>1. Waiting = 0 /\ uploads = <<>> BY DEF Init, Waiting
  <2>2. 1 .. Waiting = {} BY <2>1
  <2>3. [i \in 1 .. Waiting |-> slots[(head + i - 1) % Capacity]] = <<>> BY <2>2
  <2> QED BY <2>1, <2>3 DEF Queue!Init
<1>2. ASSUME IInv, [Next]_vars PROVE [torn' \/ Queue!Next]_(Queue!vars)
  <2>1. CASE RegisterInfo
    <3>1. count' = 0 /\ uploads' = uploads /\ pc' = pc /\ torn' = (torn \/ pc # "idle")
      BY <2>1 DEF RegisterInfo, Reset, locals
    <3>2. CASE pc # "idle" BY <3>1, <3>2
    <3>3. CASE pc = "idle"
      <4>1. Waiting' = 0 BY <3>1, <3>3 DEF Waiting
      <4>2. 1 .. Waiting' = {} BY <4>1
      <4>3. [i \in 1 .. Waiting' |-> slots'[(head' + i - 1) % Capacity]] = <<>> BY <4>2
      <4>4. Queue!Reset BY <3>1, <4>3 DEF Queue!Reset
      <4> QED BY <4>4 DEF Queue!Next
    <3> QED BY <3>2, <3>3
  <2>2. CASE Ordinary
    <3>1. TypeOK /\ BuildInv BY <1>2 DEF IInv
    <3>2. torn' = torn BY <2>2, <3>1, ReadLater
    <3>3. CASE torn BY <3>2, <3>3
    <3>4. CASE ~torn BY <1>2, <2>2, <3>4, QueueStep
    <3> QED BY <3>3, <3>4
  <2> QED BY <1>2, <2>1, <2>2 DEF Next, Ordinary
<1> QED BY <1>1, <1>2, InitHolds, InvStep, PTL DEF Spec, QueueRefined
=============================================================================
