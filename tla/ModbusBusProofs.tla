---------------------------- MODULE ModbusBusProofs ----------------------------
(***************************************************************************)
(* Proofs about ModbusBus, for any number of threads, slaves and requests, *)
(* replies of any length and a buffer of any size.                         *)
(***************************************************************************)
EXTENDS ModbusBus, SequenceTheorems, FiniteSetTheorems, TLAPS

-----------------------------------------------------------------------------
(* The invariants.                                                         *)

\* One transaction at a time; the interrupt is off only in a script's.
LockInv ==
  /\ \A t \in Threads : pc[t] # "idle" => lock = t
  /\ \A t \in Threads : pc[t] = "send" => Len(requests) < MaxRequests
  /\ \A t \in Threads : pc[t] = "wait" => open[t] \in 1 .. Len(requests)
  /\ ~rxOn => pc["script"] \in {"send", "wait"}
  /\ rxOn => dr = NoByte /\ response = <<>>

BytesOf(q) == {q[i] : i \in DOMAIN q}
InBuffer == BytesOf(buffer)
InResponse == BytesOf(response)
InPort == {dr} \ {NoByte}
Held == InBuffer \cup InResponse \cup InPort

\* All that has been sent or received belongs to a request.
SentInv ==
  /\ unread \subseteq 1 .. Len(requests) /\ early \subseteq 1 .. Len(requests)
  /\ givenUp \subseteq 1 .. Len(requests)
  /\ \A b \in bus \cup Held : b.req \in 1 .. Len(requests) /\ b.part <= b.of
  /\ result.got # 0 => result.got \in 1 .. Len(requests)

\* Every reply is sent once, its bytes in their order, and each byte is at one place.
PlaceInv ==
  /\ \A b \in bus \cup Held : b.req \notin unread
  /\ \A b, c \in bus : b.req = c.req => b = c
  /\ \A b \in bus, c \in Held : b.req = c.req => c.part < b.part
  /\ \A b, c \in bus \cup Held : b.req = c.req => b.of = c.of
  /\ InBuffer \cap InResponse = {} /\ InPort \cap (InBuffer \cup InResponse) = {}

\* No byte of the reply to r is left anywhere, nor will there be one.
Gone(r) == r \notin unread /\ \A b \in bus \cup Held : b.req # r

\* A reply accepted is used up.  Every other request under the lock is given up or
\* still open.
AnswerInv ==
  /\ result.got # 0 => Gone(result.got)
  /\ \A r \in 1 .. Len(requests) :
       \/ requests[r].by = "raw" \/ r \in givenUp \/ Gone(r)
       \/ \E t \in Threads : pc[t] = "wait" /\ open[t] = r

\* What a transaction can still take bytes from.
Place(t) == IF t = "script" THEN InResponse \cup InPort ELSE InBuffer

\* The reply to r has lost a byte to t's transaction.
Missed(t, r) ==
  /\ r \notin unread
  /\ \E c \in Byte :
       /\ c.req = r /\ c.part <= c.of /\ c \notin Place(t)
       /\ \A b \in bus : b.req = r => c.part < b.part /\ b.of = c.of
       /\ \A b \in Held : b.req = r => b.of = c.of

EarlyInv == \A t \in Threads : pc[t] \in {"send", "wait"} => \A r \in early : Missed(t, r)

-----------------------------------------------------------------------------
(* Sequences of bytes.                                                     *)

\* A byte appended is one more that is held.
LEMMA AppendHolds ==
  ASSUME NEW S, NEW q \in Seq(S), NEW b \in S
  PROVE  /\ Append(q, b) \in Seq(S) /\ Len(Append(q, b)) = Len(q) + 1
         /\ BytesOf(Append(q, b)) = BytesOf(q) \cup {b}
<1> DEFINE a == Append(q, b)
<1>1. a \in Seq(S) /\ Len(a) = Len(q) + 1 /\ Len(q) \in Nat
      /\ (\A i \in 1 .. Len(q) : a[i] = q[i]) /\ a[Len(q) + 1] = b
  BY AppendProperties
<1>2. DOMAIN a = 1 .. Len(a) /\ DOMAIN q = 1 .. Len(q) BY <1>1, LenProperties
<1> HIDE DEF a
<1>3. \A i : i \in 1 .. Len(q) + 1 <=> i \in 1 .. Len(q) \/ i = Len(q) + 1 BY <1>1
<1>4. \A i : i \in DOMAIN a <=> i \in DOMAIN q \/ i = Len(q) + 1 BY <1>1, <1>2, <1>3
<1>5. (\A i \in DOMAIN q : a[i] = q[i]) /\ a[Len(q) + 1] = b BY <1>1, <1>2
<1>6. {a[i] : i \in DOMAIN a} = {q[i] : i \in DOMAIN q} \cup {b} BY <1>4, <1>5, Zenon
<1> QED BY <1>1, <1>6 DEF a, BytesOf

\* Nothing is held at first or after clearing.
LEMMA EmptyHolds ==
  /\ \A S : <<>> \in Seq(S)
  /\ Len(<<>>) = 0 /\ BytesOf(<<>>) = {}
BY DEF BytesOf

\* The receive interrupt keeps the buffer within its length.
LEMMA ReceivedTyped ==
  ASSUME TypeOK, NEW b \in Byte
  PROVE  /\ Received(b) \in Seq(Byte) /\ Len(Received(b)) <= BufLen
         /\ BytesOf(Received(b)) \in {InBuffer, InBuffer \cup {b}}
<1>1. buffer \in Seq(Byte) /\ Len(buffer) <= BufLen /\ Len(buffer) \in Nat BY DEF TypeOK
<1>2. CASE Len(buffer) < BufLen
  <2>1. Received(b) = Append(buffer, b) BY <1>2 DEF Received
  <2>2. Append(buffer, b) \in Seq(Byte) /\ Len(Append(buffer, b)) = Len(buffer) + 1
    BY <1>1, AppendProperties
  <2>3. BytesOf(Append(buffer, b)) = BytesOf(buffer) \cup {b} BY <1>1, AppendHolds
  <2>4. Len(buffer) + 1 <= BufLen BY <1>1, <1>2, ConstantsAssumption
  <2> QED BY <2>1, <2>2, <2>3, <2>4 DEF InBuffer
<1>3. CASE ~(Len(buffer) < BufLen)
  BY <1>1, <1>3 DEF Received, InBuffer
<1> QED BY <1>2, <1>3

-----------------------------------------------------------------------------
(* Types.                                                                  *)

\* A request put on the line.
LEMMA SentTyped ==
  ASSUME TypeOK, SentInv, Len(requests) < MaxRequests, NEW q \in Request, OnBus(q)
  PROVE  /\ requests' \in Seq(Request) /\ Len(requests') = Len(requests) + 1 /\ Len(requests') <= MaxRequests
         /\ Len(requests) \in Nat /\ requests'[Len(requests) + 1] = q
         /\ \A i \in 1 .. Len(requests) : requests'[i] = requests[i]
         /\ unread' = unread \cup {Len(requests) + 1} /\ unread' \subseteq Requests
<1>1. requests \in Seq(Request) /\ Len(requests) \in Nat BY DEF TypeOK
<1>2. requests' = Append(requests, q) /\ unread' = unread \cup {Len(requests) + 1} BY DEF OnBus
<1>3. /\ Append(requests, q) \in Seq(Request) /\ Len(Append(requests, q)) = Len(requests) + 1
      /\ Append(requests, q)[Len(requests) + 1] = q
      /\ \A i \in 1 .. Len(requests) : Append(requests, q)[i] = requests[i]
  BY <1>1, AppendProperties
<1>4. Len(requests) + 1 <= MaxRequests /\ Len(requests) + 1 \in Requests
  BY <1>1, ConstantsAssumption DEF Requests
<1>5. unread' \subseteq Requests BY <1>2, <1>4 DEF TypeOK
<1> QED BY <1>1, <1>2, <1>3, <1>4, <1>5

\* With room there is room for the thread about to send, and with none about to send
\* for one more.
LEMMA RoomIsLeft ==
  ASSUME TypeOK, LockInv, Room
  PROVE  /\ Len(requests) < MaxRequests
         /\ (\E t \in Threads : pc[t] = "send") => Len(requests) + 1 < MaxRequests
<1> DEFINE sending == {t \in Threads : pc[t] = "send"}
<1>1. Len(requests) \in Nat /\ MaxRequests \in Nat BY ConstantsAssumption DEF TypeOK
<1>2. Len(requests) + Cardinality(sending) < MaxRequests BY DEF Room
<1>3. sending \subseteq {lock} BY DEF LockInv
<1>4. CASE sending = {}
  <2>1. Cardinality(sending) = 0 BY <1>4, FS_EmptySet
  <2> QED BY <1>1, <1>2, <1>4, <2>1
<1>5. CASE sending # {}
  <2>1. sending = {lock} BY <1>3, <1>5
  <2>2. Cardinality(sending) = 1 BY <2>1, FS_Singleton
  <2>3. Len(requests) + 1 < MaxRequests BY <1>2, <2>2
  <2> QED BY <1>1, <2>3
<1> QED BY <1>4, <1>5

\* The bus's own steps.
LEMMA BusTyped ==
  ASSUME TypeOK, LockInv, SentInv, Bus
  PROVE  TypeOK'
<1>1. ASSUME NEW r \in Requests, SlaveAnswers(r) PROVE TypeOK'
  <2>1. UNCHANGED <<lock, pc, open, response, requests, buffer, rxOn, dr, givenUp, early, result>>
        /\ unread' = unread \ {r}
    BY <1>1 DEF SlaveAnswers, call, port, ghost
  <2>2. PICK n \in {1, requests[r].size} : bus' = bus \cup {[req |-> r, part |-> 1, of |-> n]}
    BY <1>1 DEF SlaveAnswers
  <2>3. requests[r] \in Request BY <1>1 DEF SlaveAnswers, SentInv, TypeOK
  <2>4. requests[r].size \in Sizes BY <2>3 DEF Request
  <2>5. n \in Nat \ {0}
    <3>1. requests[r].size \in Nat \ {0} BY <2>4, ConstantsAssumption
    <3> QED BY <2>2, <3>1
  <2>6. [req |-> r, part |-> 1, of |-> n] \in Byte BY <2>5 DEF Byte
  <2>7. bus' \subseteq Byte BY <2>2, <2>6 DEF TypeOK
  <2>8. unread' \subseteq Requests BY <2>1 DEF TypeOK
  <2> QED BY <2>1, <2>7, <2>8 DEF TypeOK
<1>2. ASSUME NEW b \in bus, ByteSent(b) PROVE TypeOK'
  <2>1. UNCHANGED <<lock, pc, open, response, requests, unread, givenUp, early, result>>
    BY <1>2 DEF ByteSent, call, ghost
  <2>2. b \in Byte BY DEF TypeOK
  <2>3. bus' \subseteq Byte
    <3>1. [b EXCEPT !.part = b.part + 1] \in Byte BY <2>2 DEF Byte
    <3> QED BY <1>2, <3>1 DEF ByteSent, TypeOK
  <2>4. buffer' \in Seq(Byte) /\ Len(buffer') <= BufLen
    BY <1>2, <2>2, ReceivedTyped DEF ByteSent, port, TypeOK
  <2>5. rxOn' \in BOOLEAN /\ dr' \in Byte \cup {NoByte}
    BY <1>2, <2>2 DEF ByteSent, port, TypeOK
  <2> QED BY <2>1, <2>3, <2>4, <2>5 DEF TypeOK
<1> QED BY <1>1, <1>2 DEF Bus

\* A script's raw write.
LEMMA RawTyped ==
  ASSUME TypeOK, LockInv, SentInv, RawWrite
  PROVE  TypeOK'
<1>1. PICK s \in Slaves, n \in Sizes : OnBus([by |-> "raw", slave |-> s, size |-> n]) BY DEF RawWrite
<1>2. [by |-> "raw", slave |-> s, size |-> n] \in Request BY DEF Request
<1>3. UNCHANGED <<lock, pc, open, response, buffer, rxOn, dr, givenUp, early, result, bus>>
  BY <1>1 DEF RawWrite, OnBus, call, port, ghost
<1>4. Len(requests) < MaxRequests BY RoomIsLeft DEF RawWrite
<1>5. requests' \in Seq(Request) /\ Len(requests') <= MaxRequests /\ unread' \subseteq Requests
  BY <1>1, <1>2, <1>4, SentTyped
<1> QED BY <1>3, <1>5 DEF TypeOK

\* A transaction's steps.
LEMMA TransactionTyped ==
  ASSUME TypeOK, LockInv, SentInv, NEW t \in Threads, Begin(t) \/ Refuse(t) \/ Clear(t) \/ Send(t)
  PROVE  TypeOK'
<1>1. pc' \in [Threads -> {"idle", "begin", "send", "wait"}]
  BY DEF TypeOK, Begin, Refuse, Clear, Send, Goto
<1>2. CASE Begin(t) \/ Refuse(t)
  <2>1. UNCHANGED <<open, requests, buffer, rxOn, dr, response, unread, bus, givenUp, early, result>>
    BY <1>2 DEF Begin, Refuse, port, line, ghost
  <2>2. lock' \in Threads \cup {None} BY <1>2 DEF Begin, Refuse
  <2> QED BY <1>1, <2>1, <2>2 DEF TypeOK
<1>3. CASE Clear(t)
  <2>1. UNCHANGED <<lock, open, requests, unread, bus, givenUp, result>> BY <1>3 DEF Clear, line
  <2>2. early' \subseteq Requests
    <3>1. early' = {b.req : b \in InBuffer \cup InPort} BY <1>3 DEF Clear, InBuffer, BytesOf, InPort
    <3>2. InBuffer \cup InPort \subseteq Byte BY LenProperties DEF TypeOK, InBuffer, BytesOf, InPort
    <3> QED BY <3>1, <3>2 DEF Byte
  <2>3. buffer' \in Seq(Byte) /\ Len(buffer') <= BufLen /\ response' \in Seq(Byte)
    <3>1. buffer' \in {buffer, <<>>} /\ response' \in {response, <<>>} BY <1>3 DEF Clear
    <3>2. Len(<<>>) <= BufLen BY EmptyHolds, ConstantsAssumption
    <3> QED BY <3>1, <3>2, EmptyHolds DEF TypeOK
  <2>4. rxOn' \in BOOLEAN /\ dr' \in Byte \cup {NoByte} BY <1>3 DEF Clear, TypeOK
  <2> QED BY <1>1, <2>1, <2>2, <2>3, <2>4 DEF TypeOK
<1>4. CASE Send(t)
  <2>1. PICK s \in Slaves, n \in Sizes : OnBus([by |-> t, slave |-> s, size |-> n]) BY <1>4 DEF Send
  <2>2. [by |-> t, slave |-> s, size |-> n] \in Request BY DEF Request
  <2>3. UNCHANGED <<lock, response, buffer, rxOn, dr, givenUp, early, result, bus>>
    BY <1>4, <2>1 DEF Send, OnBus, port, ghost
  <2>4. Len(requests) < MaxRequests BY <1>4 DEF Send, LockInv
  <2>5. requests' \in Seq(Request) /\ Len(requests') <= MaxRequests /\ unread' \subseteq Requests
        /\ Len(requests) \in Nat
    BY <2>1, <2>2, <2>4, SentTyped
  <2>6. Len(requests) + 1 \in 0 .. MaxRequests BY <2>4, <2>5, ConstantsAssumption
  <2>7. open' \in [Threads -> 0 .. MaxRequests] BY <1>4, <2>6 DEF Send, TypeOK
  <2> QED BY <1>1, <2>3, <2>5, <2>7 DEF TypeOK
<1> QED BY <1>2, <1>3, <1>4

\* A frame accepted is one of bytes that name a request.
LEMMA AcceptedTyped ==
  ASSUME NEW t, NEW frame \in Seq(Byte)
  PROVE  Accepted(t, frame) \in Requests \cup {0}
<1>1. CASE Intact(frame)
  <2>1. Len(frame) \in Nat \ {0} BY <1>1, EmptySeq DEF Intact
  <2>2. frame[1] \in Byte BY <2>1, ElementOfSeq
  <2> QED BY <2>2 DEF Accepted, Byte
<1>2. CASE ~Intact(frame) BY <1>2 DEF Accepted
<1> QED BY <1>1, <1>2

\* The end of a transaction.
LEMMA EndTyped ==
  ASSUME TypeOK, LockInv, SentInv, (\E t \in Threads : MasterEnd(t)) \/ ScriptEnd
  PROVE  TypeOK'
<1>1. ASSUME NEW t \in Threads, NEW frame \in Seq(Byte), End(t, frame)
      PROVE  /\ UNCHANGED <<requests, unread, bus, early>> /\ lock' = None
             /\ pc' \in [Threads -> {"idle", "begin", "send", "wait"}]
             /\ open' \in [Threads -> 0 .. MaxRequests]
             /\ givenUp' \subseteq Requests /\ result' \in [req : 0 .. MaxRequests, got : 0 .. MaxRequests]
  <2>1. UNCHANGED <<requests, unread, bus, early>> /\ lock' = None BY <1>1 DEF End, line
  <2>2. pc' \in [Threads -> {"idle", "begin", "send", "wait"}] BY <1>1 DEF End, Goto, TypeOK
  <2>3. open' \in [Threads -> 0 .. MaxRequests] BY <1>1, ConstantsAssumption DEF End, TypeOK
  <2>4. Accepted(t, frame) \in 0 .. MaxRequests BY AcceptedTyped, ConstantsAssumption DEF Requests
  <2>5. open[t] \in 0 .. MaxRequests BY DEF TypeOK
  <2>6. open[t] \in Requests
    <3>1. open[t] \in 1 .. Len(requests) /\ Len(requests) <= MaxRequests /\ Len(requests) \in Nat
      BY <1>1 DEF End, LockInv, TypeOK
    <3> QED BY <3>1, ConstantsAssumption DEF Requests
  <2>7. givenUp' \subseteq Requests BY <1>1, <2>6 DEF End, TypeOK
  <2>8. result' \in [req : 0 .. MaxRequests, got : 0 .. MaxRequests] BY <1>1, <2>4, <2>5 DEF End
  <2> QED BY <2>1, <2>2, <2>3, <2>7, <2>8
<1>2. ASSUME NEW t \in Threads, MasterEnd(t) PROVE TypeOK'
  <2>1. End(t, buffer) /\ buffer \in Seq(Byte) /\ buffer' = <<>> /\ UNCHANGED <<rxOn, dr, response>>
    BY <1>2 DEF MasterEnd, TypeOK
  <2>2. buffer' \in Seq(Byte) /\ Len(buffer') <= BufLen BY <2>1, EmptyHolds, ConstantsAssumption
  <2> QED BY <1>1, <2>1, <2>2 DEF TypeOK
<1>3. CASE ScriptEnd
  <2>1. End("script", response) /\ response \in Seq(Byte) /\ rxOn' = TRUE /\ dr' = NoByte /\ response' = <<>>
    BY <1>3 DEF ScriptEnd, TypeOK
  <2>2. buffer' \in Seq(Byte) /\ Len(buffer') <= BufLen
    BY <1>3, ReceivedTyped DEF ScriptEnd, TypeOK
  <2>3. response' \in Seq(Byte) BY <2>1, EmptyHolds
  <2>4. "script" \in Threads BY DEF Threads
  <2> QED BY <1>1, <2>1, <2>2, <2>3, <2>4 DEF TypeOK
<1> QED BY <1>2, <1>3

-----------------------------------------------------------------------------
(* What each step does to the bytes that are held.                         *)

\* The bytes change places only when a reply is on the line or a transaction clears,
\* reads or ends.
LEMMA BytesKept ==
  ASSUME UNCHANGED <<buffer, response, dr>>
  PROVE  InBuffer' = InBuffer /\ InResponse' = InResponse /\ InPort' = InPort /\ Held' = Held
BY DEF InBuffer, InResponse, InPort, Held

\* A byte on the line comes to the place that is open for it, or to none.
LEMMA ByteComes ==
  ASSUME TypeOK, NEW b \in bus, ByteSent(b)
  PROVE  /\ InResponse' = InResponse
         /\ \/ InBuffer' = InBuffer /\ InPort' = InPort
            \/ rxOn /\ InBuffer' \in {InBuffer, InBuffer \cup {b}} /\ InPort' = InPort
            \/ ~rxOn /\ InPort = {} /\ InPort' = {b} /\ InBuffer' = InBuffer
         /\ Held' \subseteq Held \cup {b}
         /\ b \in Byte /\ b # NoByte
<1>1. b \in Byte BY DEF TypeOK
<1>2. b # NoByte BY <1>1, ConstantsAssumption DEF Byte, NoByte, Requests
<1>3. response' = response BY DEF ByteSent, call
<1>4. CASE UNCHANGED port BY <1>1, <1>2, <1>3, <1>4, BytesKept DEF port
<1>5. CASE rxOn /\ buffer' = Received(b) /\ UNCHANGED <<rxOn, dr>>
  <2>1. InResponse' = InResponse /\ InPort' = InPort BY <1>3, <1>5 DEF InResponse, InPort
  <2>2. InBuffer' \in {InBuffer, InBuffer \cup {b}} BY <1>1, <1>5, ReceivedTyped DEF InBuffer
  <2> QED BY <1>1, <1>2, <1>5, <2>1, <2>2 DEF Held
<1>6. CASE ~rxOn /\ dr = NoByte /\ dr' = b /\ UNCHANGED <<rxOn, buffer>>
  <2>1. InResponse' = InResponse /\ InBuffer' = InBuffer BY <1>3, <1>6 DEF InResponse, InBuffer
  <2>2. InPort = {} /\ InPort' = {b} BY <1>2, <1>6 DEF InPort
  <2> QED BY <1>1, <1>2, <1>6, <2>1, <2>2 DEF Held
<1> QED BY <1>4, <1>5, <1>6 DEF ByteSent

\* BASIC reads the data register.
LEMMA ByteRead ==
  ASSUME TypeOK, ReadByte
  PROVE  /\ InBuffer' = InBuffer /\ InResponse' = InResponse \cup InPort /\ InPort' = {}
         /\ Held' = Held
<1>1. dr \in Byte /\ response \in Seq(Byte) /\ dr # NoByte BY DEF TypeOK, ReadByte
<1>2. response' = Append(response, dr) /\ dr' = NoByte /\ buffer' = buffer BY DEF ReadByte
<1>3. BytesOf(response') = BytesOf(response) \cup {dr} BY <1>1, <1>2, AppendHolds
<1> QED BY <1>1, <1>2, <1>3 DEF InBuffer, InResponse, InPort, Held

\* A transaction throws away what it may not take.
LEMMA BytesCleared ==
  ASSUME TypeOK, LockInv, NEW t \in Threads, Clear(t)
  PROVE  /\ Place(t)' = {} /\ Held' \subseteq Held /\ InBuffer' \subseteq InBuffer
         /\ InResponse' \subseteq InResponse /\ InPort' \subseteq InPort
         /\ early' = {b.req : b \in InBuffer \cup InPort}
<1>1. early' = {b.req : b \in InBuffer \cup InPort} BY DEF Clear, InBuffer, InPort, BytesOf
<1>2. CASE t = "script"
  <2>1. dr' = NoByte /\ response' = <<>> /\ buffer' = buffer BY <1>2 DEF Clear
  <2>2. InPort' = {} /\ InResponse' = {} /\ InBuffer' = InBuffer
    BY <2>1, EmptyHolds DEF InPort, InResponse, InBuffer
  <2> QED BY <1>1, <1>2, <2>2 DEF Place, Held
<1>3. CASE t # "script"
  <2>1. buffer' = <<>> /\ UNCHANGED <<dr, response>> BY <1>3 DEF Clear
  <2>2. InBuffer' = {} /\ InPort' = InPort /\ InResponse' = InResponse
    BY <2>1, EmptyHolds DEF InPort, InResponse, InBuffer
  <2> QED BY <1>1, <1>3, <2>2 DEF Place, Held
<1> QED BY <1>2, <1>3

\* A transaction that ends leaves nothing of what it could take, but for the byte in
\* the data register, which the interrupt gets.
LEMMA BytesEnded ==
  ASSUME TypeOK, LockInv, (\E t \in Threads : MasterEnd(t)) \/ ScriptEnd
  PROVE  /\ InResponse' = {} /\ InPort' = {} /\ Held' \subseteq Held
         /\ InBuffer' \subseteq InBuffer \cup InPort
         /\ (\E t \in Threads : MasterEnd(t)) => Held' = {}
<1>1. ASSUME NEW t \in Threads, MasterEnd(t) PROVE InResponse' = {} /\ InPort' = {} /\ InBuffer' = {}
  <2>1. pc[t] = "wait" /\ t # "script" BY <1>1 DEF MasterEnd, End
  <2>2. lock = t /\ pc["script"] = "idle" BY <2>1 DEF LockInv, Threads
  <2>3. dr = NoByte /\ response = <<>> BY <2>2 DEF LockInv
  <2>4. buffer' = <<>> /\ dr' = NoByte /\ response' = <<>> BY <1>1, <2>3 DEF MasterEnd
  <2> QED BY <2>4, EmptyHolds DEF InBuffer, InResponse, InPort
<1>2. CASE ScriptEnd
  <2>1. dr' = NoByte /\ response' = <<>> /\ buffer' = IF dr = NoByte THEN buffer ELSE Received(dr)
    BY <1>2 DEF ScriptEnd
  <2>2. InResponse' = {} /\ InPort' = {} BY <2>1, EmptyHolds DEF InResponse, InPort
  <2>3. InBuffer' \subseteq InBuffer \cup InPort
    <3>1. CASE dr = NoByte BY <2>1, <3>1 DEF InBuffer
    <3>2. CASE dr # NoByte
      <4>1. dr \in Byte /\ InPort = {dr} BY <3>2 DEF TypeOK, InPort
      <4>2. InBuffer' \in {InBuffer, InBuffer \cup {dr}} BY <2>1, <3>2, <4>1, ReceivedTyped DEF InBuffer
      <4> QED BY <4>1, <4>2
    <3> QED BY <3>1, <3>2
  <2>4. ~\E t \in Threads : MasterEnd(t) BY <1>2 DEF MasterEnd, ScriptEnd, End, LockInv, Threads
  <2> QED BY <2>2, <2>3, <2>4 DEF Held
<1>3. CASE \E t \in Threads : MasterEnd(t) BY <1>1, <1>3 DEF Held
<1> QED BY <1>2, <1>3

-----------------------------------------------------------------------------
(* The lock.                                                               *)

\* No step starts a second transaction, or leaves the interrupt off without one.
LEMMA LockStep == TypeOK /\ LockInv /\ SentInv /\ [Next]_vars => LockInv'
<1> SUFFICES ASSUME TypeOK, LockInv, SentInv, [Next]_vars PROVE LockInv' OBVIOUS
<1>1. None \notin Threads /\ "script" \in Threads BY ConstantsAssumption DEF Threads, None
<1>2. Len(requests) \in Nat BY DEF TypeOK
<1>3. ASSUME NEW r \in Requests, SlaveAnswers(r) PROVE LockInv'
  BY <1>3 DEF SlaveAnswers, LockInv, call, port
<1>4. ASSUME NEW b \in bus, ByteSent(b) PROVE LockInv'
  BY <1>4 DEF ByteSent, LockInv, call, port
<1>5. CASE RawWrite
  <2>1. PICK s \in Slaves, n \in Sizes : OnBus([by |-> "raw", slave |-> s, size |-> n]) BY <1>5 DEF RawWrite
  <2>2. [by |-> "raw", slave |-> s, size |-> n] \in Request BY DEF Request
  <2>3. Len(requests) < MaxRequests /\ ((\E t \in Threads : pc[t] = "send") => Len(requests) + 1 < MaxRequests)
    BY <1>5, RoomIsLeft DEF RawWrite
  <2>4. Len(requests') = Len(requests) + 1 BY <2>1, <2>2, <2>3, SentTyped
  <2>5. UNCHANGED <<lock, pc, open, response, rxOn, dr>> BY <1>5 DEF RawWrite, call, port
  <2>6. \A t \in Threads : pc[t] = "wait" => open[t] \in 1 .. Len(requests')
    <3>1. 1 .. Len(requests) \subseteq 1 .. Len(requests') BY <1>2, <2>4
    <3> QED BY <3>1 DEF LockInv
  <2> QED BY <2>3, <2>4, <2>5, <2>6 DEF LockInv
<1>6. CASE ReadByte BY <1>6 DEF ReadByte, LockInv
<1>7. ASSUME NEW t \in Threads, Begin(t) PROVE LockInv'
  <2>1. \A u \in Threads : pc[u] = "idle" BY <1>1, <1>7 DEF Begin, MayLock, LockInv
  <2>2. lock' = t /\ pc' = [pc EXCEPT ![t] = "begin"] /\ UNCHANGED <<open, requests, response, rxOn, dr>>
    BY <1>7 DEF Begin, Goto, port
  <2>3. pc \in [Threads -> {"idle", "begin", "send", "wait"}] BY DEF TypeOK
  <2>4. \A u \in Threads : pc'[u] = IF u = t THEN "begin" ELSE "idle" BY <2>1, <2>2, <2>3
  <2> QED BY <1>1, <2>1, <2>2, <2>4 DEF LockInv
<1>8. ASSUME NEW t \in Threads, pc[t] # "idle" PROVE lock = t /\ \A u \in Threads : u # t => pc[u] = "idle"
  BY <1>8 DEF LockInv
<1>9. ASSUME NEW t \in Threads, Refuse(t) PROVE LockInv'
  <2>1. pc[t] = "begin" /\ pc' = [pc EXCEPT ![t] = "idle"] /\ UNCHANGED <<open, requests, response, rxOn, dr>>
    BY <1>9 DEF Refuse, Goto, port
  <2>2. pc \in [Threads -> {"idle", "begin", "send", "wait"}] BY DEF TypeOK
  <2>3. \A u \in Threads : pc'[u] = "idle" BY <1>8, <2>1, <2>2
  <2>4. rxOn BY <1>1, <1>8, <2>1 DEF LockInv
  <2> QED BY <1>1, <2>1, <2>3, <2>4 DEF LockInv
<1>10. ASSUME NEW t \in Threads, Clear(t) PROVE LockInv'
  <2>1. pc[t] = "begin" /\ pc' = [pc EXCEPT ![t] = "send"] /\ UNCHANGED <<lock, open, requests>>
    BY <1>10 DEF Clear, Goto
  <2>2. pc \in [Threads -> {"idle", "begin", "send", "wait"}] BY DEF TypeOK
  <2>3. lock = t /\ \A u \in Threads : pc'[u] = IF u = t THEN "send" ELSE "idle" BY <1>8, <2>1, <2>2
  <2>4. Len(requests) < MaxRequests BY <1>10, RoomIsLeft DEF Clear
  <2>5. CASE t = "script"
    <3>1. rxOn' = FALSE /\ pc'["script"] = "send" BY <1>1, <1>10, <2>3, <2>5 DEF Clear
    <3> QED BY <2>1, <2>3, <2>4, <3>1 DEF LockInv
  <2>6. CASE t # "script"
    <3>1. rxOn BY <1>1, <1>8, <2>1, <2>6 DEF LockInv
    <3>2. UNCHANGED <<rxOn, dr, response>> BY <1>10, <2>6 DEF Clear
    <3> QED BY <2>1, <2>3, <2>4, <3>1, <3>2 DEF LockInv
  <2> QED BY <2>5, <2>6
<1>11. ASSUME NEW t \in Threads, Send(t) PROVE LockInv'
  <2>1. pc[t] = "send" /\ pc' = [pc EXCEPT ![t] = "wait"] /\ UNCHANGED <<lock, response, rxOn, dr>>
        /\ open' = [open EXCEPT ![t] = Len(requests) + 1]
    BY <1>11 DEF Send, Goto, port
  <2>2. pc \in [Threads -> {"idle", "begin", "send", "wait"}] /\ open \in [Threads -> 0 .. MaxRequests]
    BY DEF TypeOK
  <2>3. lock = t /\ \A u \in Threads : pc'[u] = IF u = t THEN "wait" ELSE "idle" BY <1>8, <2>1, <2>2
  <2>4. PICK s \in Slaves, n \in Sizes : OnBus([by |-> t, slave |-> s, size |-> n]) BY <1>11 DEF Send
  <2>5. [by |-> t, slave |-> s, size |-> n] \in Request BY DEF Request
  <2>6. Len(requests') = Len(requests) + 1 BY <2>1, <2>4, <2>5, SentTyped DEF LockInv
  <2>7. open'[t] \in 1 .. Len(requests') BY <1>2, <2>1, <2>2, <2>6
  <2>8. ~rxOn' => pc'["script"] \in {"send", "wait"}
    <3>1. ~rxOn => t = "script" BY <1>1, <1>8, <2>1 DEF LockInv
    <3> QED BY <1>1, <2>1, <2>3, <3>1
  <2> QED BY <2>1, <2>3, <2>7, <2>8 DEF LockInv
<1>12. ASSUME NEW t \in Threads, NEW frame, End(t, frame), rxOn', dr' = NoByte, response' = <<>> PROVE LockInv'
  <2>1. pc[t] = "wait" /\ pc' = [pc EXCEPT ![t] = "idle"] BY <1>12 DEF End, Goto
  <2>2. pc \in [Threads -> {"idle", "begin", "send", "wait"}] BY DEF TypeOK
  <2>3. \A u \in Threads : pc'[u] = "idle" BY <1>8, <2>1, <2>2
  <2> QED BY <1>12, <2>3 DEF LockInv
<1>13. ASSUME NEW t \in Threads, MasterEnd(t) PROVE LockInv'
  <2>1. pc[t] = "wait" /\ t # "script" /\ End(t, buffer) /\ UNCHANGED <<rxOn, dr, response>>
    BY <1>13 DEF MasterEnd, End
  <2>2. rxOn BY <1>1, <1>8, <2>1 DEF LockInv
  <2> QED BY <1>12, <2>1, <2>2 DEF LockInv
<1>14. CASE ScriptEnd BY <1>1, <1>12, <1>14 DEF ScriptEnd
<1>15. CASE UNCHANGED vars BY <1>15 DEF vars, call, port, LockInv
<1> QED
  BY <1>3, <1>4, <1>5, <1>6, <1>7, <1>9, <1>10, <1>11, <1>13, <1>14, <1>15 DEF Next, Bus, Transaction

-----------------------------------------------------------------------------
(* What has been sent, and where its bytes are.                            *)

\* The requests sent stay as they are.
LEMMA RequestsKept ==
  ASSUME TypeOK, LockInv, SentInv, [Next]_vars
  PROVE  /\ Len(requests) \in Nat /\ Len(requests') \in Nat
         /\ 1 .. Len(requests) \subseteq 1 .. Len(requests')
         /\ \A r \in 1 .. Len(requests) : requests'[r] = requests[r]
<1>1. Len(requests) \in Nat BY DEF TypeOK
<1>2. ASSUME NEW q \in Request, Len(requests) < MaxRequests, OnBus(q)
      PROVE  /\ Len(requests') = Len(requests) + 1
             /\ \A r \in 1 .. Len(requests) : requests'[r] = requests[r]
  BY <1>2, SentTyped
<1>3. CASE RawWrite
  <2>1. PICK s \in Slaves, n \in Sizes : OnBus([by |-> "raw", slave |-> s, size |-> n]) BY <1>3 DEF RawWrite
  <2>2. [by |-> "raw", slave |-> s, size |-> n] \in Request BY DEF Request
  <2>3. Len(requests) < MaxRequests BY <1>3, RoomIsLeft DEF RawWrite
  <2>4. Len(requests') = Len(requests) + 1 /\ \A r \in 1 .. Len(requests) : requests'[r] = requests[r]
    BY <1>2, <2>1, <2>2, <2>3
  <2> QED BY <1>1, <2>4
<1>4. ASSUME NEW t \in Threads, Send(t)
      PROVE  Len(requests') = Len(requests) + 1 /\ \A r \in 1 .. Len(requests) : requests'[r] = requests[r]
  <2>1. PICK s \in Slaves, n \in Sizes : OnBus([by |-> t, slave |-> s, size |-> n]) BY <1>4 DEF Send
  <2>2. [by |-> t, slave |-> s, size |-> n] \in Request BY DEF Request
  <2>3. Len(requests) < MaxRequests BY <1>4 DEF Send, LockInv
  <2> QED BY <1>2, <2>1, <2>2, <2>3
<1>5. CASE ~RawWrite /\ ~\E t \in Threads : Send(t)
  <2>1. requests' = requests
    BY <1>5 DEF Next, Bus, SlaveAnswers, ByteSent, ReadByte, ScriptEnd, Transaction, Begin, Refuse, Clear,
                MasterEnd, End, vars
  <2> QED BY <1>1, <2>1
<1>6. CASE \E t \in Threads : Send(t)
  <2>1. Len(requests') = Len(requests) + 1 /\ \A r \in 1 .. Len(requests) : requests'[r] = requests[r]
    BY <1>4, <1>6
  <2> QED BY <1>1, <2>1
<1> QED BY <1>3, <1>5, <1>6

\* A step that puts no request and no byte on the line leaves every byte where it
\* was, moves it or throws it away.
LEMMA Moves ==
  ASSUME TypeOK, LockInv,
         \/ ReadByte \/ ScriptEnd
         \/ \E t \in Threads : Begin(t) \/ Refuse(t) \/ Clear(t) \/ MasterEnd(t)
  PROVE  /\ UNCHANGED <<requests, unread, bus>> /\ Held' \subseteq Held
         /\ (InBuffer \cap InResponse = {} /\ InPort \cap (InBuffer \cup InResponse) = {}) =>
              (InBuffer \cap InResponse = {} /\ InPort \cap (InBuffer \cup InResponse) = {})'
<1>1. CASE ReadByte
  BY <1>1, ByteRead DEF ReadByte, line
<1>2. CASE ScriptEnd \/ \E t \in Threads : MasterEnd(t)
  <2>1. UNCHANGED <<requests, unread, bus>> BY <1>2 DEF ScriptEnd, MasterEnd, End, line
  <2>2. Held' \subseteq Held /\ InResponse' = {} /\ InPort' = {} BY <1>2, BytesEnded
  <2> QED BY <2>1, <2>2
<1>3. ASSUME NEW t \in Threads, Clear(t)
      PROVE  /\ UNCHANGED <<requests, unread, bus>> /\ Held' \subseteq Held
             /\ InBuffer' \subseteq InBuffer /\ InResponse' \subseteq InResponse /\ InPort' \subseteq InPort
  BY <1>3, BytesCleared DEF Clear, line
<1>4. ASSUME NEW t \in Threads, Begin(t) \/ Refuse(t)
      PROVE  /\ UNCHANGED <<requests, unread, bus>> /\ Held' \subseteq Held
             /\ InBuffer' \subseteq InBuffer /\ InResponse' \subseteq InResponse /\ InPort' \subseteq InPort
  <2>1. UNCHANGED <<requests, unread, bus, buffer, response, dr>> BY <1>4 DEF Begin, Refuse, port, line
  <2> QED BY <2>1, BytesKept
<1>5. CASE \E t \in Threads : Begin(t) \/ Refuse(t) \/ Clear(t)
  <2>1. /\ UNCHANGED <<requests, unread, bus>> /\ Held' \subseteq Held
        /\ InBuffer' \subseteq InBuffer /\ InResponse' \subseteq InResponse /\ InPort' \subseteq InPort
    BY <1>3, <1>4, <1>5
  <2> QED BY <2>1
<1> QED BY <1>1, <1>2, <1>5

\* A request put on the line is new.
LEMMA Sends ==
  ASSUME TypeOK, LockInv, SentInv, RawWrite \/ \E t \in Threads : Send(t)
  PROVE  /\ Len(requests') = Len(requests) + 1 /\ unread' = unread \cup {Len(requests) + 1}
         /\ UNCHANGED <<bus, givenUp, early, result>> /\ Len(requests) \in Nat
         /\ InBuffer' = InBuffer /\ InResponse' = InResponse /\ InPort' = InPort /\ Held' = Held
         /\ requests'[Len(requests) + 1].by = "raw"
              \/ \E t \in Threads : pc'[t] = "wait" /\ open'[t] = Len(requests) + 1
<1>1. CASE RawWrite
  <2>1. PICK s \in Slaves, n \in Sizes : OnBus([by |-> "raw", slave |-> s, size |-> n]) BY <1>1 DEF RawWrite
  <2> DEFINE q == [by |-> "raw", slave |-> s, size |-> n]
  <2>2. q \in Request /\ q.by = "raw" BY DEF Request
  <2>3. Len(requests) < MaxRequests BY <1>1, RoomIsLeft DEF RawWrite
  <2>4. UNCHANGED <<buffer, response, dr, bus, givenUp, early, result>>
    BY <1>1, <2>1 DEF RawWrite, call, port, ghost, OnBus
  <2>5. OnBus(q) BY <2>1
  <2> HIDE DEF q
  <2>6. Len(requests') = Len(requests) + 1 /\ unread' = unread \cup {Len(requests) + 1}
        /\ requests'[Len(requests) + 1] = q /\ Len(requests) \in Nat
    BY <2>2, <2>3, <2>5, SentTyped
  <2> QED BY <2>2, <2>4, <2>6, BytesKept
<1>2. ASSUME NEW t \in Threads, Send(t)
      PROVE  /\ Len(requests') = Len(requests) + 1 /\ unread' = unread \cup {Len(requests) + 1}
             /\ UNCHANGED <<bus, givenUp, early, result>> /\ Len(requests) \in Nat
             /\ InBuffer' = InBuffer /\ InResponse' = InResponse /\ InPort' = InPort /\ Held' = Held
             /\ pc'[t] = "wait" /\ open'[t] = Len(requests) + 1
  <2>1. PICK s \in Slaves, n \in Sizes : OnBus([by |-> t, slave |-> s, size |-> n]) BY <1>2 DEF Send
  <2> DEFINE q == [by |-> t, slave |-> s, size |-> n]
  <2>2. q \in Request BY DEF Request
  <2>3. Len(requests) < MaxRequests BY <1>2 DEF Send, LockInv
  <2>4. UNCHANGED <<buffer, response, dr, bus, givenUp, early, result>>
    BY <1>2, <2>1 DEF Send, port, ghost, OnBus
  <2>5. OnBus(q) BY <2>1
  <2> HIDE DEF q
  <2>6. Len(requests') = Len(requests) + 1 /\ unread' = unread \cup {Len(requests) + 1} /\ Len(requests) \in Nat
    BY <2>2, <2>3, <2>5, SentTyped
  <2>7. pc'[t] = "wait" /\ open'[t] = Len(requests) + 1 BY <1>2 DEF Send, Goto, TypeOK
  <2> QED BY <2>4, <2>6, <2>7, BytesKept
<1> QED BY <1>1, <1>2

\* What is held are bytes.
LEMMA HeldTyped == TypeOK => Held \subseteq Byte
<1> SUFFICES ASSUME TypeOK PROVE Held \subseteq Byte OBVIOUS
<1>1. BytesOf(buffer) \subseteq Byte BY LenProperties DEF TypeOK, BytesOf
<1>2. BytesOf(response) \subseteq Byte BY LenProperties DEF TypeOK, BytesOf
<1>3. InPort \subseteq Byte BY DEF TypeOK, InPort
<1> QED BY <1>1, <1>2, <1>3 DEF Held, InBuffer, InResponse

\* A slave's answer is the first byte of the only reply to its request.
LEMMA Answers ==
  ASSUME TypeOK, SentInv, NEW r \in Requests, SlaveAnswers(r)
  PROVE  /\ r \in unread /\ unread' = unread \ {r}
         /\ UNCHANGED <<requests, givenUp, early, result, lock, pc, open, rxOn>>
         /\ InBuffer' = InBuffer /\ InResponse' = InResponse /\ InPort' = InPort /\ Held' = Held
         /\ \E b \in Byte : b.req = r /\ b.part = 1 /\ b.part <= b.of /\ bus' = bus \cup {b}
<1>1. r \in unread /\ unread' = unread \ {r}
      /\ UNCHANGED <<requests, givenUp, early, result, lock, pc, open, rxOn, buffer, response, dr>>
  BY DEF SlaveAnswers, call, port, ghost
<1>2. PICK n \in {1, requests[r].size} : bus' = bus \cup {[req |-> r, part |-> 1, of |-> n]}
  BY DEF SlaveAnswers
<1>3. requests[r] \in Request BY <1>1 DEF SentInv, TypeOK
<1>4. requests[r].size \in Sizes BY <1>3 DEF Request
<1>5. requests[r].size \in Nat \ {0} BY <1>4, ConstantsAssumption
<1>6. n \in Nat \ {0} BY <1>2, <1>5
<1> DEFINE b == [req |-> r, part |-> 1, of |-> n]
<1>7. b \in Byte /\ b.req = r /\ b.part = 1 /\ b.part <= b.of BY <1>6 DEF Byte
<1>8. bus' = bus \cup {b} BY <1>2
<1> HIDE DEF b
<1> QED BY <1>1, <1>7, <1>8, BytesKept

\* The byte after the one on the line is the next of the same reply.
LEMMA BusMoves ==
  ASSUME TypeOK, SentInv, NEW b \in bus, ByteSent(b)
  PROVE  /\ UNCHANGED <<requests, unread, givenUp, early, result, lock, pc, open>>
         /\ \A c \in bus' : \/ c \in bus /\ c # b
                            \/ c.req = b.req /\ c.part = b.part + 1 /\ c.of = b.of /\ c.part <= c.of
<1>1. UNCHANGED <<requests, unread, givenUp, early, result, lock, pc, open>>
  BY DEF ByteSent, call, ghost
<1>2. b \in Byte BY DEF TypeOK
<1>3. b.part \in Nat /\ b.of \in Nat BY <1>2 DEF Byte
<1> DEFINE n == [b EXCEPT !.part = b.part + 1]
<1>4. n.req = b.req /\ n.part = b.part + 1 /\ n.of = b.of BY <1>2 DEF Byte
<1>5. bus' = (bus \ {b}) \cup (IF b.part < b.of THEN {n} ELSE {}) BY DEF ByteSent
<1> HIDE DEF n
<1>6. b.part < b.of => n.part <= n.of BY <1>3, <1>4
<1> QED BY <1>1, <1>4, <1>5, <1>6

\* All that is sent or received goes on belonging to a request.
LEMMA SentStep == TypeOK /\ LockInv /\ SentInv /\ [Next]_vars => SentInv'
<1> SUFFICES ASSUME TypeOK, LockInv, SentInv, [Next]_vars PROVE SentInv' OBVIOUS
<1> DEFINE N == 1 .. Len(requests)
<1>1. N \subseteq 1 .. Len(requests') /\ Len(requests) \in Nat BY RequestsKept
<1>2. ASSUME unread' \subseteq unread, early' \subseteq N, givenUp' \subseteq N,
             \A b \in bus' \cup Held' : b \in bus \cup Held,
             result'.got # 0 => result'.got \in N
      PROVE  SentInv'
  BY <1>1, <1>2 DEF SentInv
<1>3. ASSUME NEW r \in Requests, SlaveAnswers(r) PROVE SentInv'
  <2>1. PICK b \in Byte : b.req = r /\ b.part = 1 /\ b.part <= b.of /\ bus' = bus \cup {b} BY <1>3, Answers
  <2>2. \A c \in bus' \cup Held' : c.req \in N /\ c.part <= c.of BY <1>3, <2>1, Answers DEF SentInv
  <2> QED BY <1>1, <1>3, <2>2, Answers DEF SentInv
<1>4. ASSUME NEW b \in bus, ByteSent(b) PROVE SentInv'
  <2>1. \A c \in Held' : c.req \in N /\ c.part <= c.of BY <1>4, ByteComes DEF SentInv
  <2>2. \A c \in bus' : c.req \in N /\ c.part <= c.of BY <1>4, BusMoves DEF SentInv
  <2> QED BY <1>1, <1>4, <2>1, <2>2, BusMoves DEF SentInv
<1>5. CASE RawWrite \/ \E t \in Threads : Send(t)
  <2>1. Len(requests) + 1 \in 1 .. Len(requests') BY <1>1, <1>5, Sends
  <2> QED BY <1>1, <1>5, <2>1, Sends DEF SentInv
<1>6. CASE ReadByte
  <2>1. UNCHANGED <<early, givenUp, result>> BY <1>6 DEF ReadByte, ghost
  <2> QED BY <1>2, <1>6, <2>1, Moves DEF SentInv
<1>7. ASSUME NEW t \in Threads, Begin(t) \/ Refuse(t) PROVE SentInv'
  <2>1. UNCHANGED <<early, givenUp, result>> BY <1>7 DEF Begin, Refuse, ghost
  <2> QED BY <1>2, <1>7, <2>1, Moves DEF SentInv
<1>8. ASSUME NEW t \in Threads, Clear(t) PROVE SentInv'
  <2>1. UNCHANGED <<givenUp, result>> BY <1>8 DEF Clear
  <2>2. early' \subseteq N BY <1>8, BytesCleared DEF SentInv, Held
  <2> QED BY <1>2, <1>8, <2>1, <2>2, Moves DEF SentInv
<1>9. ASSUME NEW t \in Threads, NEW frame \in Seq(Byte), BytesOf(frame) \subseteq Held, End(t, frame)
      PROVE  UNCHANGED early /\ givenUp' \subseteq N /\ (result'.got # 0 => result'.got \in N)
  <2>1. open[t] \in N BY <1>9 DEF End, LockInv
  <2>2. Accepted(t, frame) # 0 => Accepted(t, frame) \in N
    <3> SUFFICES ASSUME Intact(frame) PROVE frame[1].req \in N BY DEF Accepted
    <3>1. Len(frame) \in Nat \ {0} BY EmptySeq DEF Intact
    <3>2. 1 \in DOMAIN frame BY <3>1, LenProperties
    <3>3. frame[1] \in Held BY <1>9, <3>2 DEF BytesOf
    <3> QED BY <3>3 DEF SentInv
  <2> QED BY <1>9, <2>1, <2>2 DEF End, SentInv
<1>10. ASSUME NEW t \in Threads, MasterEnd(t) PROVE SentInv'
  <2>1. End(t, buffer) /\ buffer \in Seq(Byte) BY <1>10 DEF MasterEnd, TypeOK
  <2> QED BY <1>2, <1>9, <1>10, <2>1, Moves DEF SentInv, Held, InBuffer
<1>11. CASE ScriptEnd
  <2>1. End("script", response) /\ response \in Seq(Byte) /\ "script" \in Threads
    BY <1>11 DEF ScriptEnd, TypeOK, Threads
  <2> QED BY <1>2, <1>9, <1>11, <2>1, Moves DEF SentInv, Held, InResponse
<1>12. CASE UNCHANGED vars
  BY <1>2, <1>12, BytesKept DEF vars, call, port, line, ghost, SentInv
<1> QED
  BY <1>3, <1>4, <1>5, <1>6, <1>7, <1>8, <1>10, <1>11, <1>12 DEF Next, Bus, Transaction

\* The bytes of a reply stay apart and in order.
LEMMA PlaceStep == TypeOK /\ LockInv /\ SentInv /\ PlaceInv /\ [Next]_vars => PlaceInv'
<1> SUFFICES ASSUME TypeOK, LockInv, SentInv, PlaceInv, [Next]_vars PROVE PlaceInv' OBVIOUS
<1>1. CASE \/ ReadByte \/ ScriptEnd
           \/ \E t \in Threads : Begin(t) \/ Refuse(t) \/ Clear(t) \/ MasterEnd(t)
  BY <1>1, Moves DEF PlaceInv
<1>2. CASE RawWrite \/ \E t \in Threads : Send(t)
  <2>1. \A b \in bus \cup Held : b.req # Len(requests) + 1
    <3>1. Len(requests) \in Nat BY DEF TypeOK
    <3>2. Len(requests) + 1 \notin 1 .. Len(requests) BY <3>1
    <3> QED BY <3>2 DEF SentInv
  <2> QED BY <1>2, <2>1, Sends DEF PlaceInv
<1>3. ASSUME NEW r \in Requests, SlaveAnswers(r) PROVE PlaceInv'
  <2>1. PICK b \in Byte : b.req = r /\ b.part = 1 /\ b.part <= b.of /\ bus' = bus \cup {b} BY <1>3, Answers
  <2>2. \A c \in bus \cup Held : c.req # r BY <1>3, Answers DEF PlaceInv
  <2> QED BY <1>3, <2>1, <2>2, Answers DEF PlaceInv
<1>4. ASSUME NEW b \in bus, ByteSent(b) PROVE PlaceInv'
  <2>1. b \in Byte /\ Held' \subseteq Held \cup {b} BY <1>4, ByteComes
  <2>2. b.part \in Nat BY <2>1 DEF Byte
  <2>3. \A c \in Held : c.req = b.req => c.part < b.part /\ c.of = b.of BY DEF PlaceInv
  <2>4. b \notin Held BY <2>2, <2>3
  <2>5. \A c \in bus' : \/ c \in bus /\ c.req # b.req
                        \/ c.req = b.req /\ c.part = b.part + 1 /\ c.of = b.of /\ c.part <= c.of
    <3>1. \A c \in bus : c # b => c.req # b.req BY DEF PlaceInv
    <3>2. ASSUME NEW c \in bus'
          PROVE  \/ c \in bus /\ c # b
                 \/ c.req = b.req /\ c.part = b.part + 1 /\ c.of = b.of /\ c.part <= c.of
      BY <1>4, <3>2, BusMoves
    <3> QED BY <3>1, <3>2
  <2>6. \A c \in bus' \cup Held' : c.req \notin unread' BY <1>4, <2>1, <2>5, BusMoves DEF PlaceInv
  <2>7. \A c, d \in bus' : c.req = d.req => c = d
    <3>1. ASSUME NEW c \in bus', NEW d \in bus', c.req = b.req, d.req = b.req PROVE c = d
      <4>1. c.req = d.req /\ c.part = d.part /\ c.of = d.of BY <2>5, <3>1
      <4>2. c \in Byte /\ d \in Byte
        <5>1. TypeOK' BY <1>4, BusTyped DEF Bus
        <5> QED BY <5>1 DEF TypeOK
      <4> QED BY <4>1, <4>2 DEF Byte
    <3> QED BY <2>5, <3>1 DEF PlaceInv
  <2>8. \A c \in bus', d \in Held' : c.req = d.req => d.part < c.part
    <3>1. ASSUME NEW c \in bus', NEW d \in Held', c.req = b.req, d.req = b.req PROVE d.part < c.part
      <4>1. c.part = b.part + 1 BY <2>5, <3>1
      <4>2. CASE d = b BY <2>2, <4>1, <4>2
      <4>3. CASE d \in Held
        <5>1. d.part < b.part BY <2>3, <3>1, <4>3
        <5>2. d.part \in Nat BY <4>3, HeldTyped DEF Byte
        <5> QED BY <2>2, <4>1, <5>1, <5>2
      <4> QED BY <2>1, <4>2, <4>3
    <3> QED BY <2>1, <2>5, <3>1 DEF PlaceInv
  <2>9. \A c, d \in bus' \cup Held' : c.req = d.req => c.of = d.of
    <3>1. \A c \in bus' \cup Held' : c.req = b.req => c.of = b.of BY <2>1, <2>3, <2>5
    <3>2. \A c \in bus' \cup Held' : c.req # b.req => c \in bus \cup Held BY <2>1, <2>5
    <3> QED BY <3>1, <3>2 DEF PlaceInv
  <2>10. (InBuffer \cap InResponse = {} /\ InPort \cap (InBuffer \cup InResponse) = {})'
    <3>1. b \notin InBuffer /\ b \notin InResponse /\ b \notin InPort BY <2>4 DEF Held
    <3>2. InResponse' = InResponse
          /\ \/ InBuffer' = InBuffer /\ InPort' = InPort
             \/ InBuffer' \in {InBuffer, InBuffer \cup {b}} /\ InPort' = InPort
             \/ InPort' = {b} /\ InBuffer' = InBuffer
      BY <1>4, ByteComes
    <3> QED BY <3>1, <3>2 DEF PlaceInv
  <2> QED BY <2>6, <2>7, <2>8, <2>9, <2>10 DEF PlaceInv
<1>5. CASE UNCHANGED vars
  BY <1>5, BytesKept DEF vars, call, port, line, ghost, PlaceInv
<1> QED
  BY <1>1, <1>2, <1>3, <1>4, <1>5 DEF Next, Bus, Transaction

-----------------------------------------------------------------------------
(* Answers.                                                                *)

\* What a transaction takes for a reply is the whole reply, and nothing of it is left.
LEMMA AcceptedWhole ==
  ASSUME TypeOK, SentInv, PlaceInv, NEW t, NEW frame \in Seq(Byte), BytesOf(frame) \subseteq Held,
         NEW r, r # 0, Accepted(t, frame) = r
  PROVE  /\ r \notin unread /\ \A b \in bus : b.req # r
         /\ \A b \in Held : b.req = r => b \in BytesOf(frame)
         /\ \E b \in BytesOf(frame) :
              /\ b.req = r
              /\ \A c \in Byte : c.req = r /\ c.of = b.of /\ c.part <= c.of => c \in BytesOf(frame)
<1>1. Intact(frame) /\ r = frame[1].req BY DEF Accepted
<1>2. Len(frame) \in Nat \ {0} /\ DOMAIN frame = 1 .. Len(frame) BY <1>1, EmptySeq, LenProperties DEF Intact
<1> DEFINE f == frame[1]
<1>3. f \in BytesOf(frame) /\ f \in Held /\ f \in Byte /\ f.of = Len(frame) /\ f.req = r
  BY <1>1, <1>2, ElementOfSeq DEF BytesOf, Intact
<1>4. \A i \in 1 .. f.of : frame[i] = [f EXCEPT !.part = i] /\ frame[i] \in BytesOf(frame)
  BY <1>1, <1>2, <1>3 DEF Intact, BytesOf
<1> HIDE DEF f
<1>5. ASSUME NEW c \in Byte, c.req = r, c.of = f.of, c.part <= c.of PROVE c \in BytesOf(frame)
  <2>1. c.part \in 1 .. f.of /\ c = [f EXCEPT !.part = c.part] BY <1>3, <1>5 DEF Byte
  <2> QED BY <1>4, <2>1
<1>6. \A b \in Held : b.req = r => b \in BytesOf(frame)
  BY <1>3, <1>5, HeldTyped DEF PlaceInv, SentInv
<1>7. ASSUME NEW b \in bus, b.req = r PROVE FALSE
  <2> DEFINE l == [f EXCEPT !.part = f.of]
  <2>1. f.of \in 1 .. f.of /\ l.req = r /\ l.part = f.of BY <1>3 DEF Byte
  <2>2. l \in Held BY <1>4, <2>1
  <2>3. l.part < b.part /\ b.of = f.of /\ b.part <= b.of BY <1>3, <1>7, <2>1, <2>2 DEF PlaceInv, SentInv
  <2>4. b \in Byte BY DEF TypeOK
  <2> QED BY <1>3, <2>1, <2>3, <2>4 DEF Byte
<1>8. r \notin unread BY <1>3 DEF PlaceInv
<1> QED BY <1>3, <1>5, <1>6, <1>7, <1>8

\* Once a request is gone it stays so.
LEMMA StaysGone ==
  ASSUME TypeOK, LockInv, SentInv, [Next]_vars, NEW r \in 1 .. Len(requests), Gone(r)
  PROVE  Gone(r)'
<1>1. CASE \/ ReadByte \/ ScriptEnd
           \/ \E t \in Threads : Begin(t) \/ Refuse(t) \/ Clear(t) \/ MasterEnd(t)
  BY <1>1, Moves DEF Gone
<1>2. CASE RawWrite \/ \E t \in Threads : Send(t)
  <2>1. Len(requests) \in Nat BY DEF TypeOK
  <2>2. r # Len(requests) + 1 BY <2>1
  <2> QED BY <1>2, <2>2, Sends DEF Gone
<1>3. ASSUME NEW q \in Requests, SlaveAnswers(q) PROVE Gone(r)'
  BY <1>3, Answers DEF Gone
<1>4. ASSUME NEW b \in bus, ByteSent(b) PROVE Gone(r)'
  BY <1>4, ByteComes, BusMoves DEF Gone
<1>5. CASE UNCHANGED vars BY <1>5, BytesKept DEF vars, call, port, line, Gone
<1> QED BY <1>1, <1>2, <1>3, <1>4, <1>5 DEF Next, Bus, Transaction

\* The end of a transaction uses up the reply that it takes, from where it may.
LEMMA EndUsesUp ==
  ASSUME TypeOK, LockInv, SentInv, PlaceInv, NEW t \in Threads,
         MasterEnd(t) \/ (t = "script" /\ ScriptEnd)
  PROVE  \E frame \in Seq(Byte), r \in Requests \cup {0} :
           /\ End(t, frame) /\ r = Accepted(t, frame)
           /\ BytesOf(frame) \subseteq Held /\ BytesOf(frame) \subseteq Place(t)
           /\ r # 0 => Gone(r)'
<1>1. CASE MasterEnd(t)
  <2>1. End(t, buffer) /\ buffer \in Seq(Byte) /\ t # "script" BY <1>1 DEF MasterEnd, TypeOK
  <2>2. BytesOf(buffer) \subseteq Held /\ BytesOf(buffer) \subseteq Place(t) BY <2>1 DEF Held, InBuffer, Place
  <2>3. Held' = {} /\ UNCHANGED <<unread, bus>>
    <3>1. Held' = {} BY <1>1, BytesEnded
    <3> QED BY <1>1, <3>1 DEF MasterEnd, End, line
  <2>4. ASSUME NEW r, r # 0, r = Accepted(t, buffer) PROVE Gone(r)'
    <3>1. r \notin unread /\ \A b \in bus : b.req # r BY <2>1, <2>2, <2>4, AcceptedWhole
    <3> QED BY <2>3, <3>1 DEF Gone
  <2> QED BY <2>1, <2>2, <2>4, AcceptedTyped
<1>2. CASE t = "script" /\ ScriptEnd
  <2>1. End(t, response) /\ response \in Seq(Byte) BY <1>2 DEF ScriptEnd, TypeOK
  <2>2. BytesOf(response) \subseteq Held /\ BytesOf(response) \subseteq Place(t)
    BY <1>2 DEF Held, InResponse, Place
  <2>3. Held' \subseteq InBuffer \cup InPort /\ UNCHANGED <<unread, bus>>
    <3>1. InResponse' = {} /\ InPort' = {} /\ InBuffer' \subseteq InBuffer \cup InPort BY <1>2, BytesEnded
    <3> QED BY <1>2, <3>1 DEF Held, ScriptEnd, End, line
  <2>4. ASSUME NEW r, r # 0, r = Accepted(t, response) PROVE Gone(r)'
    <3>1. /\ r \notin unread /\ \A b \in bus : b.req # r
          /\ \A b \in Held : b.req = r => b \in InResponse
      BY <2>1, <2>2, <2>4, AcceptedWhole DEF InResponse
    <3>2. \A b \in Held' : b.req # r BY <2>3, <3>1 DEF PlaceInv, Held
    <3> QED BY <2>3, <3>1, <3>2 DEF Gone
  <2> QED BY <2>1, <2>2, <2>4, AcceptedTyped
<1> QED BY <1>1, <1>2

\* The inductive invariant.
IInv == TypeOK /\ LockInv /\ SentInv /\ PlaceInv /\ AnswerInv /\ EarlyInv /\ OwnOrLate /\ NothingLeftOver

\* A reply accepted is not one to another transaction that waits, nor one that has
\* lost bytes.
LEMMA AnswerEnd ==
  ASSUME IInv, (\E t \in Threads : MasterEnd(t)) \/ ScriptEnd
  PROVE  AnswerInv' /\ OwnOrLate' /\ NothingLeftOver' /\ EarlyInv'
<1> USE DEF IInv
<1>1. PICK t \in Threads : MasterEnd(t) \/ (t = "script" /\ ScriptEnd) BY DEF Threads
<1>2. PICK frame \in Seq(Byte), r \in Requests \cup {0} :
        /\ End(t, frame) /\ r = Accepted(t, frame)
        /\ BytesOf(frame) \subseteq Held /\ BytesOf(frame) \subseteq Place(t)
        /\ r # 0 => Gone(r)'
  BY <1>1, EndUsesUp
<1>3. pc[t] = "wait" /\ (\A u \in Threads : u # t => pc[u] = "idle") BY <1>2 DEF End, LockInv
<1>4. UNCHANGED <<requests, early>> /\ pc' = [pc EXCEPT ![t] = "idle"]
      /\ result' = [req |-> open[t], got |-> r] /\ givenUp' = givenUp \cup ({open[t]} \ {r})
  BY <1>2 DEF End, Goto
<1>5. \A u \in Threads : pc'[u] = "idle" BY <1>3, <1>4 DEF TypeOK
<1>6. ASSUME r # 0
      PROVE  /\ \E b \in Held : b.req = r
             /\ \E b \in Held : b.req = r /\
                  \A c \in Byte : c.req = r /\ c.of = b.of /\ c.part <= c.of => c \in Place(t)
  BY <1>2, <1>6, AcceptedWhole
<1>7. r # 0 => r \in 1 .. Len(requests) BY <1>6 DEF SentInv
<1>8. AnswerInv'
  <2>1. ASSUME NEW q \in 1 .. Len(requests) PROVE requests[q].by = "raw" \/ q \in givenUp' \/ Gone(q)'
    <3>1. CASE requests[q].by = "raw" \/ q \in givenUp BY <1>4, <3>1
    <3>2. CASE Gone(q)
      <4>1. [Next]_vars BY DEF Next, Transaction
      <4> QED BY <3>2, <4>1, StaysGone
    <3>3. CASE \E u \in Threads : pc[u] = "wait" /\ open[u] = q
      <4>1. open[t] = q BY <1>3, <3>3
      <4>2. CASE q = r
        <5>1. r # 0 BY <4>2
        <5> QED BY <1>2, <4>2, <5>1
      <4> QED BY <1>4, <4>1, <4>2
    <3> QED BY <3>1, <3>2, <3>3 DEF AnswerInv
  <2>2. result'.got = r BY <1>4
  <2> QED BY <1>2, <1>4, <2>1, <2>2 DEF AnswerInv
<1>9. OwnOrLate'
  <2> SUFFICES ASSUME r # 0 PROVE r = open[t] \/ r \in givenUp' \/ requests[r].by = "raw"
    BY <1>4 DEF OwnOrLate
  <2>1. r \in 1 .. Len(requests) /\ ~Gone(r) BY <1>6, <1>7 DEF Gone
  <2>2. requests[r].by = "raw" \/ r \in givenUp \/ \E u \in Threads : pc[u] = "wait" /\ open[u] = r
    BY <2>1 DEF AnswerInv
  <2> QED BY <1>3, <1>4, <2>2
<1>10. NothingLeftOver'
  <2> SUFFICES ASSUME r # 0, r \in early PROVE FALSE BY <1>4 DEF NothingLeftOver
  <2>1. Missed(t, r) BY <1>3 DEF EarlyInv
  <2> QED BY <1>6, <2>1 DEF Missed
<1>11. EarlyInv' BY <1>5 DEF EarlyInv
<1> QED BY <1>8, <1>9, <1>10, <1>11

\* Nor does any other step use a reply twice, or let a transaction keep what was there
\* before it.
LEMMA AnswerStep ==
  ASSUME IInv, [Next]_vars
  PROVE  AnswerInv' /\ OwnOrLate' /\ NothingLeftOver' /\ EarlyInv'
<1> USE DEF IInv
<1>1. ASSUME NEW r \in 1 .. Len(requests), Gone(r) PROVE Gone(r)' BY <1>1, StaysGone
<1>2. 1 .. Len(requests) \subseteq 1 .. Len(requests') /\ \A r \in 1 .. Len(requests) : requests'[r] = requests[r]
  BY RequestsKept
<1>3. ASSUME UNCHANGED <<result, givenUp>>
      PROVE  OwnOrLate' /\ (result.got # 0 => Gone(result.got))'
  <2>1. result.got # 0 => result.got \in 1 .. Len(requests) BY DEF SentInv
  <2>2. OwnOrLate' BY <1>2, <1>3, <2>1 DEF OwnOrLate
  <2>3. ASSUME NEW r, r = result.got, r # 0 PROVE Gone(r)'
    BY <1>1, <2>1, <2>3 DEF AnswerInv
  <2>4. ASSUME result'.got # 0 PROVE Gone(result.got)'
    <3>1. PICK r : r = result.got OBVIOUS
    <3>2. result'.got = r /\ r # 0 BY <1>3, <2>4, <3>1
    <3>3. Gone(r)' BY <2>3, <3>1, <3>2
    <3> QED BY <3>2, <3>3 DEF Gone
  <2> QED BY <2>2, <2>4
<1>4. ASSUME UNCHANGED <<result, givenUp, requests>>,
             \A t \in Threads : pc[t] = "wait" => pc'[t] = "wait" /\ open'[t] = open[t]
      PROVE  AnswerInv'
  <2>1. \A r \in 1 .. Len(requests) :
          \/ requests[r].by = "raw" \/ r \in givenUp \/ Gone(r)'
          \/ \E t \in Threads : pc'[t] = "wait" /\ open'[t] = r
    BY <1>1, <1>4 DEF AnswerInv
  <2> QED BY <1>3, <1>4, <2>1 DEF AnswerInv
<1>5. CASE (\E t \in Threads : MasterEnd(t)) \/ ScriptEnd BY <1>5, AnswerEnd
<1>6. ASSUME NEW r \in Requests, SlaveAnswers(r)
      PROVE  AnswerInv' /\ OwnOrLate' /\ NothingLeftOver' /\ EarlyInv'
  <2>1. PICK b \in Byte : b.req = r /\ b.part = 1 /\ b.part <= b.of /\ bus' = bus \cup {b} BY <1>6, Answers
  <2>2. UNCHANGED <<requests, givenUp, early, result, pc, open>> /\ r \in unread /\ unread' = unread \ {r}
        /\ InBuffer' = InBuffer /\ InResponse' = InResponse /\ InPort' = InPort /\ Held' = Held
    BY <1>6, Answers
  <2>3. ASSUME NEW t \in Threads, NEW q \in early, Missed(t, q) PROVE Missed(t, q)'
    <3>1. q # r BY <2>2, <2>3 DEF Missed
    <3>2. Place(t)' = Place(t) BY <2>2 DEF Place
    <3> QED BY <2>1, <2>2, <2>3, <3>1, <3>2 DEF Missed
  <2>4. EarlyInv' BY <2>2, <2>3 DEF EarlyInv
  <2> QED BY <1>3, <1>4, <2>2, <2>4 DEF NothingLeftOver
<1>7. ASSUME NEW b \in bus, ByteSent(b)
      PROVE  AnswerInv' /\ OwnOrLate' /\ NothingLeftOver' /\ EarlyInv'
  <2>1. UNCHANGED <<requests, unread, givenUp, early, result, lock, pc, open>> BY <1>7, BusMoves
  <2>2. /\ InResponse' = InResponse /\ Held' \subseteq Held \cup {b} /\ b \in Byte
        /\ InBuffer' \subseteq InBuffer \cup {b} /\ InPort' \subseteq InPort \cup {b}
    BY <1>7, ByteComes
  <2>3. \A c \in bus' : c \in bus \/ (c.req = b.req /\ c.part = b.part + 1 /\ c.of = b.of)
    BY <1>7, BusMoves, Zenon
  <2>4. ASSUME NEW t \in Threads, NEW q \in early, Missed(t, q) PROVE Missed(t, q)'
    <3>1. PICK c \in Byte :
            /\ c.req = q /\ c.part <= c.of /\ c \notin Place(t)
            /\ \A d \in bus : d.req = q => c.part < d.part /\ d.of = c.of
            /\ \A d \in Held : d.req = q => d.of = c.of
      BY <2>4 DEF Missed
    <3>2. c.part \in Nat /\ b.part \in Nat BY <2>2 DEF Byte
    <3>3. c # b BY <3>1, <3>2
    <3>4. Place(t)' \subseteq Place(t) \cup {b} BY <2>2 DEF Place
    <3>5. \A d \in bus' : d.req = q => c.part < d.part /\ d.of = c.of
      <4>1. b.req = q => c.part < b.part + 1 /\ b.of = c.of BY <3>1, <3>2
      <4> QED BY <2>3, <3>1, <4>1
    <3>6. \A d \in Held' : d.req = q => d.of = c.of BY <2>2, <3>1
    <3> QED BY <2>1, <2>4, <3>1, <3>3, <3>4, <3>5, <3>6 DEF Missed
  <2>5. EarlyInv' BY <2>1, <2>4 DEF EarlyInv
  <2> QED BY <1>3, <1>4, <2>1, <2>5 DEF NothingLeftOver
<1>8. CASE RawWrite \/ \E t \in Threads : Send(t)
  <2>1. /\ Len(requests') = Len(requests) + 1 /\ unread' = unread \cup {Len(requests) + 1}
        /\ UNCHANGED <<bus, givenUp, early, result>> /\ Len(requests) \in Nat
        /\ InBuffer' = InBuffer /\ InResponse' = InResponse /\ InPort' = InPort /\ Held' = Held
        /\ requests'[Len(requests) + 1].by = "raw"
             \/ \E t \in Threads : pc'[t] = "wait" /\ open'[t] = Len(requests) + 1
    BY <1>8, Sends
  <2>2. \A t \in Threads : pc[t] = "wait" => pc'[t] = "wait" /\ open'[t] = open[t]
    BY <1>8 DEF RawWrite, Send, Goto, call, TypeOK
  <2>3. \A t \in Threads : pc'[t] \in {"send", "wait"} => pc[t] \in {"send", "wait"}
    BY <1>8 DEF RawWrite, Send, Goto, call, TypeOK
  <2>4. AnswerInv'
    <3>1. \A r \in 1 .. Len(requests) :
            \/ requests'[r].by = "raw" \/ r \in givenUp \/ Gone(r)'
            \/ \E t \in Threads : pc'[t] = "wait" /\ open'[t] = r
      BY <1>1, <1>2, <2>2 DEF AnswerInv
    <3>2. \A r \in 1 .. Len(requests') : r \in 1 .. Len(requests) \/ r = Len(requests) + 1 BY <2>1
    <3> QED BY <1>3, <2>1, <3>1, <3>2 DEF AnswerInv
  <2>5. ASSUME NEW t \in Threads, NEW q \in early, Missed(t, q) PROVE Missed(t, q)'
    <3>1. q # Len(requests) + 1 BY <2>1 DEF SentInv
    <3>2. Place(t)' = Place(t) BY <2>1 DEF Place
    <3> QED BY <2>1, <2>5, <3>1, <3>2 DEF Missed
  <2>6. EarlyInv' BY <2>1, <2>3, <2>5 DEF EarlyInv
  <2> QED BY <1>3, <2>1, <2>4, <2>6 DEF NothingLeftOver
<1>9. CASE ReadByte
  <2>1. UNCHANGED <<requests, givenUp, early, result, pc, open>> BY <1>9 DEF ReadByte, ghost
  <2>2. UNCHANGED <<unread, bus>> /\ Held' = Held /\ InBuffer' = InBuffer
        /\ InResponse' = InResponse \cup InPort /\ InPort' = {}
    BY <1>9, ByteRead DEF ReadByte, line
  <2>3. ASSUME NEW t \in Threads, NEW q \in early, Missed(t, q) PROVE Missed(t, q)'
    <3>1. Place(t)' = Place(t) BY <2>2 DEF Place
    <3> QED BY <2>2, <2>3, <3>1 DEF Missed
  <2>4. EarlyInv' BY <2>1, <2>3 DEF EarlyInv
  <2> QED BY <1>3, <1>4, <2>1, <2>4 DEF NothingLeftOver
<1>10. ASSUME NEW t \in Threads, Begin(t) \/ Refuse(t)
       PROVE  AnswerInv' /\ OwnOrLate' /\ NothingLeftOver' /\ EarlyInv'
  <2>1. UNCHANGED <<requests, givenUp, early, result, open, unread, bus, buffer, response, dr>>
    BY <1>10 DEF Begin, Refuse, port, line, ghost
  <2>2. \A u \in Threads : (pc[u] \in {"send", "wait"} <=> pc'[u] \in {"send", "wait"})
                           /\ (pc[u] = "wait" => pc'[u] = "wait")
    BY <1>10 DEF Begin, Refuse, Goto, TypeOK
  <2>3. \A u \in Threads, q \in early : Missed(u, q) => Missed(u, q)'
    BY <2>1, BytesKept DEF Missed, Place
  <2>4. EarlyInv' BY <2>1, <2>2, <2>3 DEF EarlyInv
  <2> QED BY <1>3, <1>4, <2>1, <2>2, <2>4 DEF NothingLeftOver
<1>11. ASSUME NEW t \in Threads, Clear(t)
       PROVE  AnswerInv' /\ OwnOrLate' /\ NothingLeftOver' /\ EarlyInv'
  <2>1. UNCHANGED <<requests, givenUp, result, open, unread, bus>> /\ pc[t] = "begin" /\ pc' = [pc EXCEPT ![t] = "send"]
    BY <1>11 DEF Clear, line, Goto
  <2>2. Place(t)' = {} /\ Held' \subseteq Held /\ early' = {b.req : b \in InBuffer \cup InPort}
    BY <1>11, BytesCleared
  <2>3. \A u \in Threads : u # t => pc'[u] = "idle" BY <2>1 DEF LockInv, TypeOK
  <2>4. \A u \in Threads : pc[u] = "wait" => pc'[u] = "wait" BY <2>1 DEF TypeOK
  <2>5. ASSUME NEW q \in early' PROVE Missed(t, q)'
    <3>1. PICK b \in InBuffer \cup InPort : b.req = q BY <2>2
    <3>2. b \in Held /\ b \in Byte BY HeldTyped DEF Held
    <3>3. b.part <= b.of /\ q \notin unread BY <3>1, <3>2 DEF SentInv, PlaceInv
    <3>4. \A d \in bus : d.req = q => b.part < d.part /\ d.of = b.of BY <3>1, <3>2 DEF PlaceInv
    <3>5. \A d \in Held' : d.req = q => d.of = b.of BY <2>2, <3>1, <3>2 DEF PlaceInv
    <3> QED BY <2>1, <2>2, <3>1, <3>2, <3>3, <3>4, <3>5 DEF Missed
  <2>6. EarlyInv' BY <2>3, <2>5 DEF EarlyInv
  <2>7. NothingLeftOver'
    <3>1. result.got # 0 => \A b \in Held : b.req # result.got BY DEF AnswerInv, Gone
    <3> QED BY <2>1, <2>2, <3>1 DEF NothingLeftOver, Held
  <2> QED BY <1>3, <1>4, <2>1, <2>4, <2>6, <2>7
<1>12. CASE UNCHANGED vars
  <2>1. UNCHANGED <<requests, givenUp, early, result, open, pc, unread, bus, buffer, response, dr>>
    BY <1>12 DEF vars, call, port, line, ghost
  <2>2. \A u \in Threads, q \in early : Missed(u, q) => Missed(u, q)'
    BY <2>1, BytesKept DEF Missed, Place
  <2>3. EarlyInv' BY <2>1, <2>2 DEF EarlyInv
  <2> QED BY <1>3, <1>4, <2>1, <2>3 DEF NothingLeftOver
<1> QED
  BY <1>5, <1>6, <1>7, <1>8, <1>9, <1>10, <1>11, <1>12 DEF Next, Bus, Transaction

-----------------------------------------------------------------------------
(* The theorems.                                                           *)

\* The first states.
LEMMA InitHolds == Init => IInv
<1> SUFFICES ASSUME Init PROVE IInv OBVIOUS
<1>1. Len(requests) = 0 /\ buffer = <<>> /\ response = <<>> /\ dr = NoByte BY DEF Init
<1>2. InBuffer = {} /\ InResponse = {} /\ InPort = {} BY <1>1, EmptyHolds DEF InBuffer, InResponse, InPort
<1>3. TypeOK
  <2>1. Len(<<>>) <= BufLen /\ Len(<<>>) <= MaxRequests BY EmptyHolds, ConstantsAssumption
  <2>2. 0 \in 0 .. MaxRequests BY ConstantsAssumption
  <2> QED BY <2>1, <2>2, EmptyHolds DEF Init, TypeOK
<1>4. LockInv BY DEF Init, LockInv
<1>5. SentInv /\ PlaceInv BY <1>2 DEF Init, SentInv, PlaceInv, Held
<1>6. \A r : r \notin 1 .. Len(requests) BY <1>1
<1>7. AnswerInv BY <1>6 DEF Init, AnswerInv
<1>8. EarlyInv /\ OwnOrLate /\ NothingLeftOver BY DEF Init, EarlyInv, OwnOrLate, NothingLeftOver
<1> QED BY <1>3, <1>4, <1>5, <1>7, <1>8 DEF IInv

\* Every step keeps the types.
LEMMA TypeStep == IInv /\ [Next]_vars => TypeOK'
<1> SUFFICES ASSUME IInv, [Next]_vars PROVE TypeOK' OBVIOUS
<1>1. TypeOK /\ LockInv /\ SentInv BY DEF IInv
<1>2. CASE ReadByte
  <2>1. dr \in Byte /\ response \in Seq(Byte) BY <1>1, <1>2 DEF TypeOK, ReadByte
  <2>2. Append(response, dr) \in Seq(Byte) BY <2>1, AppendProperties
  <2> QED BY <1>1, <1>2, <2>2 DEF ReadByte, TypeOK, line, ghost
<1>3. CASE UNCHANGED vars BY <1>1, <1>3 DEF vars, call, port, line, ghost, TypeOK
<1> QED
  BY <1>1, <1>2, <1>3, BusTyped, RawTyped, TransactionTyped, EndTyped DEF Next, Transaction

\* The invariant is inductive.
LEMMA InvStep == IInv /\ [Next]_vars => IInv'
<1>1. IInv /\ [Next]_vars => LockInv' /\ SentInv' /\ PlaceInv'
  BY LockStep, SentStep, PlaceStep DEF IInv
<1> QED BY <1>1, TypeStep, AnswerStep DEF IInv

\* Whatever threads, slaves and replies there are, the state stays well typed and the
\* buffer within its length.
THEOREM TypeCorrect == Spec => []TypeOK
<1>1. IInv => TypeOK BY DEF IInv
<1> QED BY <1>1, InitHolds, InvStep, PTL DEF Spec

\* No transaction is answered with the reply to another one that still waits.
THEOREM AnswersAreOwn == Spec => []OwnOrLate
<1>1. IInv => OwnOrLate BY DEF IInv
<1> QED BY <1>1, InitHolds, InvStep, PTL DEF Spec

\* No answer has bytes that were there before its request.
THEOREM AnswersAreFresh == Spec => []NothingLeftOver
<1>1. IInv => NothingLeftOver BY DEF IInv
<1> QED BY <1>1, InitHolds, InvStep, PTL DEF Spec
=============================================================================
