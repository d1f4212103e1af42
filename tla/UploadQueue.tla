------------------------------ MODULE UploadQueue ------------------------------
(***************************************************************************)
(* What Devices/Inc/telemetry_reporter.h promises of the payloads waiting   *)
(* for upload: a bounded queue that refuses the newest payload when full,  *)
(* uploads from its front, keeps the front when the upload fails, and is   *)
(* emptied when the device registry changes.                               *)
(***************************************************************************)
EXTENDS Naturals, Sequences

CONSTANTS
  Payload,   \* the payloads
  Capacity   \* the most that can wait

VARIABLES
  queue,     \* the payloads waiting, oldest first
  uploads    \* the payloads the platform has got, in order

vars == <<queue, uploads>>

Init == queue = <<>> /\ uploads = <<>>

Enqueue(p) ==
  /\ Len(queue) < Capacity
  /\ queue' = Append(queue, p) /\ UNCHANGED uploads

\* The front is uploaded; it goes only once the upload is known to have worked.
Upload ==
  /\ queue # <<>>
  /\ uploads' = Append(uploads, Head(queue)) /\ UNCHANGED queue

Take ==
  /\ queue # <<>> /\ uploads # <<>> /\ uploads[Len(uploads)] = Head(queue)
  /\ queue' = Tail(queue) /\ UNCHANGED uploads

Reset == queue' = <<>> /\ UNCHANGED uploads

Next == (\E p \in Payload : Enqueue(p)) \/ Upload \/ Take \/ Reset

Spec == Init /\ [][Next]_vars
=============================================================================
