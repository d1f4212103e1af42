------------------------------- MODULE ModbusBus -------------------------------
(***************************************************************************)
(* The RS485 bus shared by the Modbus master of                            *)
(* src/Protocol/Modbus/Src/modbus_core_master.c (device polling, platform  *)
(* commands, the shell) and by BASIC's own Modbus functions                *)
(* (src/Interpreter/Src/basic_modbus.c), under one transaction lock.       *)
(*                                                                         *)
(* The receive interrupt appends bytes to the master's buffer; BASIC stops *)
(* the interrupt and reads the UART's data register itself.  A slave may   *)
(* answer late, that is after the master has given up and while another    *)
(* request is open, or never; bytes get lost, and answers of two slaves    *)
(* run into each other.  A Modbus answer names no request.                 *)
(*                                                                         *)
(* A reply is two or more bytes, the exception reply one.  The CRC is      *)
(* ideal: it holds of exactly the whole, unmixed replies.                  *)
(***************************************************************************)
EXTENDS Naturals, Sequences, FiniteSets

CONSTANTS
  Masters,      \* threads that use the Modbus master
  Slaves,       \* the devices on the bus
  Sizes,        \* expectedLen: lengths of the normal replies
  BufLen,       \* the length of modbus.buff
  RawSerial,    \* whether a BASIC script writes to the RS485 port as a serial port
  MaxRequests   \* bound: requests sent

None == "none"

ASSUME ConstantsAssumption ==
  /\ Sizes \subseteq Nat \ {0, 1} /\ BufLen \in Nat \ {0}
  /\ RawSerial \in BOOLEAN /\ MaxRequests \in Nat
  /\ \A t \in Masters : t \notin {"script", "raw", None}

Threads == Masters \cup {"script"}
Requests == 1 .. MaxRequests
Request == [by : Threads \cup {"raw"}, slave : Slaves, size : Sizes]

\* A byte: of the reply to which request, which of how many.
Byte == [req : Requests, part : Nat \ {0}, of : Nat \ {0}]

NoByte == [req |-> 0, part |-> 0, of |-> 0]

VARIABLES
  lock,      \* modbus_master_lock's owner
  pc,        \* where each thread is in its transaction
  open,      \* the request each thread waits for an answer to
  requests,  \* the requests sent, in order
  buffer,    \* modbus.buff[0 .. modbus.len - 1]
  rxOn,      \* the receive interrupt is on
  dr,        \* the UART's data register while it is off
  response,  \* what BASIC has read
  unread,    \* requests a slave has got and may still answer
  bus,       \* the next byte of each reply in progress
  givenUp,   \* requests whose transaction ended without their reply
  early,     \* requests with bytes left unread when the last transaction began
  result     \* the last reply accepted and the request it was taken for

line == <<unread, bus>>
port == <<buffer, rxOn, dr>>
call == <<pc, open, response>>
ghost == <<givenUp, early, result>>
vars == <<lock, call, requests, port, line, ghost>>

TypeOK ==
  /\ lock \in Threads \cup {None}
  /\ pc \in [Threads -> {"idle", "begin", "send", "wait"}]
  /\ open \in [Threads -> 0 .. MaxRequests]
  /\ requests \in Seq(Request) /\ Len(requests) <= MaxRequests
  /\ buffer \in Seq(Byte) /\ Len(buffer) <= BufLen
  /\ rxOn \in BOOLEAN /\ dr \in Byte \cup {NoByte}
  /\ response \in Seq(Byte)
  /\ unread \subseteq Requests /\ bus \subseteq Byte
  /\ givenUp \subseteq Requests /\ early \subseteq Requests
  /\ result \in [req : 0 .. MaxRequests, got : 0 .. MaxRequests]

Init ==
  /\ lock = None /\ pc = [t \in Threads |-> "idle"]
  /\ open = [t \in Threads |-> 0] /\ requests = <<>>
  /\ buffer = <<>> /\ rxOn = TRUE /\ dr = NoByte /\ response = <<>>
  /\ unread = {} /\ bus = {} /\ givenUp = {} /\ early = {}
  /\ result = [req |-> 0, got |-> 0]

Goto(t, l) == pc' = [pc EXCEPT ![t] = l]

-----------------------------------------------------------------------------
(* The bus and its slaves.                                                 *)

\* A slave begins its reply, normal or exception.
SlaveAnswers(r) ==
  /\ r \in unread /\ unread' = unread \ {r}
  /\ \E n \in {1, requests[r].size} : bus' = bus \cup {[req |-> r, part |-> 1, of |-> n]}
  /\ UNCHANGED <<lock, call, requests, port, ghost>>

\* Mutant: the buffer has no end.
ReceivedMore(b) == Append(buffer, b)

\* modbus_rx_byte drops what does not fit.
Received(b) == IF Len(buffer) < BufLen THEN Append(buffer, b) ELSE buffer

\* The next byte of a reply is on the line: lost, or received by the interrupt or
\* by the data register, where it is lost if the one before has not been read.
ByteSent(b) ==
  /\ b \in bus
  /\ bus' = (bus \ {b}) \cup
            (IF b.part < b.of THEN {[b EXCEPT !.part = b.part + 1]} ELSE {})
  /\ \/ UNCHANGED port
     \/ rxOn /\ buffer' = Received(b) /\ UNCHANGED <<rxOn, dr>>
     \/ ~rxOn /\ dr = NoByte /\ dr' = b /\ UNCHANGED <<rxOn, buffer>>
  /\ UNCHANGED <<lock, call, requests, unread, ghost>>

\* Bound: requests are left for the threads about to send.
Room == Len(requests) + Cardinality({t \in Threads : pc[t] = "send"}) < MaxRequests

\* A request is on the line and reaches its slave.
OnBus(q) ==
  /\ requests' = Append(requests, q) /\ unread' = unread \cup {Len(requests) + 1}
  /\ UNCHANGED bus

\* SERIAL functions of a script on the RS485 port take no lock.
RawWrite ==
  /\ RawSerial /\ Room
  /\ \E s \in Slaves, n \in Sizes : OnBus([by |-> "raw", slave |-> s, size |-> n])
  /\ UNCHANGED <<lock, call, port, ghost>>

-----------------------------------------------------------------------------
(* A transaction.                                                          *)

\* Mutant: no lock.
MayAlwaysLock == TRUE

\* modbus_lock_transaction
MayLock == lock = None

Begin(t) ==
  /\ pc[t] = "idle" /\ MayLock
  /\ lock' = t /\ Goto(t, "begin")
  /\ UNCHANGED <<open, response, requests, port, line, ghost>>

\* The reply would not fit the packet buffer, or a callback is missing.
Refuse(t) ==
  /\ pc[t] = "begin"
  /\ lock' = None /\ Goto(t, "idle")
  /\ UNCHANGED <<open, response, requests, port, line, ghost>>

\* Mutant: the buffer keeps what came since the last request.
ClearNothing(t) ==
  /\ pc[t] = "begin" /\ Room /\ Goto(t, "send")
  /\ early' = {b.req : b \in {buffer[i] : i \in DOMAIN buffer} \cup ({dr} \ {NoByte})}
  /\ IF t = "script" THEN rxOn' = FALSE /\ dr' = NoByte /\ response' = <<>> ELSE UNCHANGED <<rxOn, dr, response>>
  /\ UNCHANGED <<lock, open, requests, buffer, line, givenUp, result>>

\* What is left of earlier replies is thrown away: the buffer by
\* clear_modbus_buf; by BASIC, which also stops the interrupt, the data register.
Clear(t) ==
  /\ pc[t] = "begin" /\ Room /\ Goto(t, "send")
  /\ early' = {b.req : b \in {buffer[i] : i \in DOMAIN buffer} \cup ({dr} \ {NoByte})}
  /\ IF t = "script" THEN rxOn' = FALSE /\ dr' = NoByte /\ response' = <<>> /\ UNCHANGED buffer
                     ELSE buffer' = <<>> /\ UNCHANGED <<rxOn, dr, response>>
  /\ UNCHANGED <<lock, open, requests, line, givenUp, result>>

Send(t) ==
  /\ pc[t] = "send" /\ Goto(t, "wait")
  /\ \E s \in Slaves, n \in Sizes : OnBus([by |-> t, slave |-> s, size |-> n])
  /\ open' = [open EXCEPT ![t] = Len(requests) + 1]
  /\ UNCHANGED <<lock, response, port, ghost>>

\* BASIC reads the next byte.
ReadByte ==
  /\ pc["script"] = "wait" /\ dr # NoByte
  /\ Len(response) < requests[open["script"]].size
  /\ response' = Append(response, dr) /\ dr' = NoByte
  /\ UNCHANGED <<lock, pc, open, requests, buffer, rxOn, line, ghost>>

\* The CRC is right.
Intact(frame) ==
  /\ frame # <<>> /\ Len(frame) = frame[1].of
  /\ \A i \in DOMAIN frame : frame[i] = [frame[1] EXCEPT !.part = i]

\* What the frame answers, 0 for nothing: a reply has the length asked for, or it is
\* an exception.  BASIC also compares the slave.
Accepted(t, frame) ==
  IF /\ Intact(frame)
     /\ Len(frame) \in {1, requests[open[t]].size}
     /\ t = "script" => requests[frame[1].req].slave = requests[open[t]].slave
  THEN frame[1].req ELSE 0

\* The transaction ends with what has been received by now: the length asked for or,
\* after the timeout, whatever there is.
End(t, frame) ==
  /\ pc[t] = "wait"
  /\ result' = [req |-> open[t], got |-> Accepted(t, frame)]
  /\ givenUp' = givenUp \cup ({open[t]} \ {Accepted(t, frame)})
  /\ lock' = None /\ Goto(t, "idle") /\ open' = [open EXCEPT ![t] = 0]
  /\ UNCHANGED <<requests, line, early>>

MasterEnd(t) ==
  /\ t # "script" /\ End(t, buffer)
  /\ buffer' = <<>> /\ UNCHANGED <<rxOn, dr, response>>

\* The interrupt is on again and takes the byte in the data register.
ScriptEnd ==
  /\ End("script", response)
  /\ rxOn' = TRUE /\ dr' = NoByte /\ response' = <<>>
  /\ buffer' = IF dr = NoByte THEN buffer ELSE Received(dr)

Bus ==
  \/ \E r \in Requests : SlaveAnswers(r)
  \/ \E b \in bus : ByteSent(b)

Transaction(t) == Begin(t) \/ Refuse(t) \/ Clear(t) \/ Send(t) \/ MasterEnd(t)

Next ==
  Bus \/ RawWrite \/ ReadByte \/ ScriptEnd \/ \E t \in Threads : Transaction(t)

Spec == Init /\ [][Next]_vars

-----------------------------------------------------------------------------
(* Properties                                                              *)

\* A reply taken for the answer to a request is that, or a late one to a request
\* given up before, or one to a raw request, which holds no lock; never the reply to
\* a request of another transaction that still waits.
OwnOrLate ==
  result.got # 0 =>
    \/ result.got = result.req \/ result.got \in givenUp
    \/ requests[result.got].by = "raw"

\* No reply is pieced together from, or is, what was there before the request.
NothingLeftOver == result.got # 0 => result.got \notin early
=============================================================================
