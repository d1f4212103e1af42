----------------------------- MODULE TelemetryQueue -----------------------------
(***************************************************************************)
(* The telemetry of src/Devices/Src/telemetry_reporter.c as the main thread *)
(* drives it in device_manager_poll: flush one queued payload, else sample *)
(* the devices, queue a payload for each that has changed, flush again.    *)
(*                                                                         *)
(* No lock protects the queue.  A registerInfo message empties it          *)
(* (telemetry_reporter_reset) from whichever thread polls MQTT: the main   *)
(* thread itself between two of these calls, the mqtt_rx thread, which     *)
(* preempts the main thread between any two of its steps, or, with QoS 1,  *)
(* the main thread in the middle of its own publish.                       *)
(*                                                                         *)
(* A device stands for its metrics: its value is the one its window of ten *)
(* samples resolves to.                                                    *)
(***************************************************************************)
EXTENDS Integers, Sequences

CONSTANTS
  Capacity,    \* TELEMETRY_QUEUE_CAPACITY
  Devices,     \* the number of device kinds, in the order they are sampled
  Preempted,   \* whether mqtt_rx handles registerInfo too
  Nested,      \* whether mqtt_config->pub_qos is 1
  MaxValue,    \* bound: values a device takes
  MaxGen,      \* bound: changes of the registry
  MaxUploads   \* bound: payloads uploaded

ASSUME ConstantsAssumption ==
  /\ Capacity \in 1 .. 255 /\ Devices \in Nat
  /\ Preempted \in BOOLEAN /\ Nested \in BOOLEAN
  /\ MaxValue \in Nat /\ MaxGen \in Nat /\ MaxUploads \in Nat

\* A payload: of which device, which value, read under which registry.
Payload == [device : 1 .. Devices, value : 0 .. MaxValue, gen : 0 .. MaxGen]

Empty == [device |-> 0, value |-> 0, gen |-> 0]

VARIABLES
  slots,      \* upload_queue; Empty where not used
  head,       \* queue_head
  count,      \* queue_count, a uint8_t
  value,      \* what each device's window resolves to
  known,      \* last_value of each device, -1 where not valid
  gen,        \* how often the registry has changed
  pc,         \* where the main thread is in device_manager_poll
  sampled,    \* it has sampled the devices in this call
  device,     \* the next device to sample
  payload,    \* the payload it has built
  tail,       \* where it will put it
  uploads,    \* the payloads the platform has got, in order
  torn        \* a flush or an enqueue has been interrupted by a new registry

queue == <<slots, head, count>>
locals == <<pc, sampled, device, payload, tail>>
vars == <<queue, value, known, gen, locals, uploads, torn>>

TypeOK ==
  /\ slots \in [0 .. Capacity - 1 -> Payload \cup {Empty}]
  /\ head \in 0 .. Capacity - 1 /\ tail \in 0 .. Capacity - 1 /\ count \in 0 .. 255
  /\ value \in [1 .. Devices -> 0 .. MaxValue]
  /\ known \in [1 .. Devices -> -1 .. MaxValue]
  /\ gen \in 0 .. MaxGen /\ sampled \in BOOLEAN
  /\ pc \in {"idle", "flush", "publish", "published", "taken", "sample", "built",
             "store", "stored"}
  /\ device \in 1 .. Devices + 1
  /\ payload \in Payload \cup {Empty} /\ uploads \in Seq(Payload \cup {Empty})
  /\ torn \in BOOLEAN

Init ==
  /\ slots = [i \in 0 .. Capacity - 1 |-> Empty] /\ head = 0 /\ count = 0
  /\ value = [d \in 1 .. Devices |-> 0] /\ known = [d \in 1 .. Devices |-> -1]
  /\ gen = 0
  /\ pc = "idle" /\ sampled = FALSE /\ device = 1 /\ payload = Empty /\ tail = 0
  /\ uploads = <<>> /\ torn = FALSE

-----------------------------------------------------------------------------
\* A device's window resolves to another value.
Change(d) ==
  /\ value[d] < MaxValue /\ value' = [value EXCEPT ![d] = @ + 1]
  /\ UNCHANGED <<queue, known, gen, locals, uploads, torn>>

\* Mutants: the count survives; the queue survives.
ResetKeepsCount ==
  /\ slots' = [i \in 0 .. Capacity - 1 |-> Empty] /\ head' = 0 /\ UNCHANGED count
  /\ known' = [d \in 1 .. Devices |-> -1]
ResetKeepsQueue == UNCHANGED queue /\ known' = [d \in 1 .. Devices |-> -1]

\* telemetry_reporter_reset
Reset ==
  /\ slots' = [i \in 0 .. Capacity - 1 |-> Empty] /\ head' = 0 /\ count' = 0
  /\ known' = [d \in 1 .. Devices |-> -1]

\* A new registry.  A handler that preempts the main thread runs to its end; it does
\* not run while the main thread holds mqtt_lock.
RegisterInfo ==
  /\ gen < MaxGen
  /\ pc = "idle" \/ Preempted \/ (Nested /\ pc = "published")
  /\ gen' = gen + 1 /\ Reset /\ torn' = (torn \/ pc # "idle")
  /\ UNCHANGED <<value, locals, uploads>>

-----------------------------------------------------------------------------
(* telemetry_reporter_flush_one                                            *)

Poll ==
  /\ pc = "idle" /\ pc' = "flush" /\ sampled' = FALSE
  /\ UNCHANGED <<queue, value, known, gen, device, payload, tail, uploads, torn>>

\* Back in device_manager_poll with nothing flushed: the devices are sampled once,
\* if the report interval is over.
NotFlushed ==
  \/ pc' = "idle" /\ UNCHANGED <<sampled, device>>
  \/ ~sampled /\ pc' = "sample" /\ sampled' = TRUE /\ device' = 1

\* There is no payload, the client is not ready or the upload interval not over.
FlushNothing ==
  /\ pc = "flush" /\ NotFlushed
  /\ UNCHANGED <<queue, value, known, gen, payload, tail, uploads, torn>>

FlushChecked ==
  /\ pc = "flush" /\ count # 0 /\ slots[head] # Empty
  /\ pc' = "publish"
  /\ UNCHANGED <<queue, value, known, gen, sampled, device, payload, tail, uploads, torn>>

\* mqtt_client_publish_data, under mqtt_lock, of what is in the slot by now.
Publish ==
  /\ pc = "publish" /\ Len(uploads) < MaxUploads
  /\ uploads' = Append(uploads, slots[head]) /\ pc' = "published"
  /\ UNCHANGED <<queue, value, known, gen, sampled, device, payload, tail, torn>>

\* It fails before the broker has the payload or, with QoS 1, with the PUBACK lost.
PublishFails ==
  /\ pc = "publish" \/ (Nested /\ pc = "published")
  /\ NotFlushed
  /\ UNCHANGED <<queue, value, known, gen, payload, tail, uploads, torn>>

\* Mutant: the ring has no end.
NextHeadOut == head + 1

NextHead == (head + 1) % Capacity

\* The head is cleared and left, and then counted off.
Take ==
  /\ pc = "published"
  /\ slots' = [slots EXCEPT ![head] = Empty] /\ head' = NextHead
  /\ pc' = "taken"
  /\ UNCHANGED <<count, value, known, gen, sampled, device, payload, tail, uploads, torn>>

CountOff ==
  /\ pc = "taken"
  /\ count' = (count + 255) % 256
  /\ pc' = "idle"
  /\ UNCHANGED <<slots, head, value, known, gen, sampled, device, payload, tail, uploads, torn>>

-----------------------------------------------------------------------------
(* telemetry_reporter_ingest                                               *)

\* track_metric: a value counts as known as soon as it is to be reported.
Sample ==
  /\ pc = "sample" /\ device <= Devices
  /\ value[device] # known[device]
  /\ known' = [known EXCEPT ![device] = value[device]]
  /\ payload' = [device |-> device, value |-> value[device], gen |-> gen]
  /\ pc' = "built"
  /\ UNCHANGED <<queue, value, gen, sampled, device, tail, uploads, torn>>

\* The device is not online, its window not full, or its value as known.
SampleNothing ==
  /\ pc = "sample" /\ device <= Devices
  /\ device' = device + 1
  /\ UNCHANGED <<queue, value, known, gen, pc, sampled, payload, tail, uploads, torn>>

SampleEnd ==
  /\ pc = "sample" /\ device = Devices + 1 /\ pc' = "flush"
  /\ UNCHANGED <<queue, value, known, gen, sampled, device, payload, tail, uploads, torn>>

NextDevice == pc' = "sample" /\ device' = device + 1

\* Mutant: off by one.
QueueFullOff == count > Capacity

\* enqueue_payload: a full queue drops the newest payload.
QueueFull == count >= Capacity

EnqueueFull ==
  /\ pc = "built" /\ QueueFull /\ NextDevice
  /\ UNCHANGED <<queue, value, known, gen, sampled, payload, tail, uploads, torn>>

EnqueueAt ==
  /\ pc = "built" /\ ~QueueFull
  /\ tail' = (head + count) % Capacity /\ pc' = "store"
  /\ UNCHANGED <<queue, value, known, gen, sampled, device, payload, uploads, torn>>

EnqueueStore ==
  /\ pc = "store"
  /\ slots' = [slots EXCEPT ![tail] = payload] /\ pc' = "stored"
  /\ UNCHANGED <<head, count, value, known, gen, sampled, device, payload, tail, uploads, torn>>

EnqueueCount ==
  /\ pc = "stored"
  /\ count' = (count + 1) % 256 /\ NextDevice
  /\ UNCHANGED <<slots, head, value, known, gen, sampled, payload, tail, uploads, torn>>

-----------------------------------------------------------------------------
FlushStep ==
  \/ Poll \/ FlushNothing \/ FlushChecked \/ Publish \/ PublishFails \/ Take \/ CountOff

IngestStep ==
  \/ Sample \/ SampleNothing \/ SampleEnd
  \/ EnqueueFull \/ EnqueueAt \/ EnqueueStore \/ EnqueueCount

Next == FlushStep \/ IngestStep \/ RegisterInfo \/ \E d \in 1 .. Devices : Change(d)

Spec == Init /\ [][Next]_vars

-----------------------------------------------------------------------------
(* Properties                                                              *)

\* A queue that counts a payload has one at its head.  Otherwise flush_one never
\* sends again and the queue fills for good.  It does not always have one: a
\* registerInfo in the middle of a flush breaks it (README, section 6).
HeadAlwaysServes == pc = "idle" /\ count # 0 => count <= Capacity /\ slots[head] # Empty

\* That holds as long as no registerInfo has been handled in the middle of a flush or
\* an enqueue.
HeadServes == torn \/ HeadAlwaysServes

\* Until then too, what is uploaded was read under the present registry: no payload of
\* an old address, and none that has been cleared.
NoStaleUpload ==
  [][uploads' # uploads /\ ~torn => uploads'[Len(uploads')].device # 0
                                    /\ uploads'[Len(uploads')].gen = gen]_vars

\* Whenever the queue is interrupted, the platform never gets an older value of a
\* device after a newer one.
UploadsInOrder ==
  \A i, j \in DOMAIN uploads :
    i < j /\ uploads[i].device = uploads[j].device /\ uploads[i].gen = uploads[j].gen
      => uploads[i].value <= uploads[j].value

\* Until then, the payloads counted from the head on are the queue the header promises.
Waiting == IF pc = "taken" THEN count - 1 ELSE count
Queue == INSTANCE UploadQueue WITH
           queue <- [i \in 1 .. Waiting |-> slots[(head + i - 1) % Capacity]]
QueueRefined == Queue!Init /\ [][torn' \/ Queue!Next]_(Queue!vars)
=============================================================================
