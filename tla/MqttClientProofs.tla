--------------------------- MODULE MqttClientProofs ---------------------------
(***************************************************************************)
(* Proofs about MqttClient, for every value of its constants: any packet-id *)
(* width, any number of polls, any inbox depth, any set of messages and any *)
(* call depth, with either pub_qos and with or without scripts unless a     *)
(* theorem assumes one of them.                                             *)
(***************************************************************************)
EXTENDS MqttClient, SequenceTheorems, TLAPS

USE DEF None

-----------------------------------------------------------------------------
(* The call stack and the frame buffers                                    *)

\* A new activation is well typed at every label that needs nothing more.
LEMMA EnterTyped ==
  \A l \in Labels \ {"sub", "suback", "puback"} : Enter(l) \in Activation
<1>1. <<>> \in Seq(Topics)
  BY EmptySeq
<1> QED
  BY <1>1, ConstantsAssumption DEF Enter, Activation

\* A wait starts with a flag to wait for and all its polls left.
LEMMA WaitTyped ==
  \A f \in Flags : WaitFor(f) \in Activation
<1>1. Enter("wait") \in Activation
  BY EnterTyped DEF Labels
<1>2. ASSUME NEW a \in Activation, NEW f \in Flags, NEW n \in 0 .. Polls
      PROVE  [a EXCEPT !.flag = f, !.left = n] \in Activation
  BY DEF Activation
<1>3. Polls \in 0 .. Polls
  BY ConstantsAssumption
<1> QED
  BY <1>1, <1>2, <1>3, Zenon DEF WaitFor

\* A publish starts with either QoS and no packet id yet.
LEMMA PublishTyped ==
  \A q \in {0, 1} : PublishCall(q) \in Activation
<1>1. Enter("publish") \in Activation
  BY EnterTyped DEF Labels
<1> QED
  BY <1>1, ConstantsAssumption DEF PublishCall, Enter, Activation

\* A subscription starts with at least one topic to do.
LEMMA SubscribeTyped ==
  \A t \in Seq(Topics) : t # <<>> => SubscribeCall(t) \in Activation
<1>2. "sub" \in Labels
  BY DEF Labels
<1> QED
  BY <1>2, ConstantsAssumption DEF SubscribeCall, Enter, Activation

\* Moving an activation on keeps it well typed; "suback" follows "sub" and "puback"
\* comes with the packet id that was sent.
LEMMA GotoTyped ==
  ASSUME NEW a \in Activation, NEW l \in Labels \ {"sub", "suback", "puback"}
  PROVE  [a EXCEPT !.at = l] \in Activation
BY DEF Activation

\* The caller of another function keeps a packet id that is one.
LEMMA CallForTyped ==
  ASSUME NEW a \in Activation, NEW l \in Labels, NEW id \in 0 .. IdMax,
         l \in {"sub", "suback"} => a.at = "sub", l = "puback" => id # 0
  PROVE  [a EXCEPT !.at = l, !.id = id] \in Activation
BY DEF Activation

\* Replacing the innermost activation by one or two others.
LEMMA StackTyped ==
  ASSUME NEW s \in Seq(Activation), s # <<>>
  PROVE  /\ Head(s) \in Activation /\ Tail(s) \in Seq(Activation)
         /\ \A a \in Activation : <<a>> \o Tail(s) \in Seq(Activation)
         /\ \A a, b \in Activation : <<a, b>> \o Tail(s) \in Seq(Activation)
<1>1. Head(s) \in Activation /\ Tail(s) \in Seq(Activation)
  BY HeadTailProperties
<1>2. ASSUME NEW a \in Activation
      PROVE  <<a>> \o Tail(s) \in Seq(Activation)
  <2>1. <<a>> \in Seq(Activation)
    OBVIOUS
  <2> QED
    BY <1>1, <2>1, ConcatProperties
<1>3. ASSUME NEW a \in Activation, NEW b \in Activation
      PROVE  <<a, b>> \o Tail(s) \in Seq(Activation)
  <2>1. <<a, b>> \in Seq(Activation)
    OBVIOUS
  <2> QED
    BY <1>1, <2>1, ConcatProperties
<1> QED
  BY <1>1, <1>2, <1>3

\* Every way a frame buffer is cut or extended, for any set of frames.
LEMMA FramesTyped ==
  ASSUME NEW F, NEW s \in Seq(F)
  PROVE  /\ s # <<>> => Head(s) \in F /\ Tail(s) \in Seq(F)
         /\ \A f \in F : Append(s, f) \in Seq(F) /\ s \o <<f>> \in Seq(F)
         /\ s \o <<>> \in Seq(F)
         /\ \A n \in 0 .. Len(s) : /\ SubSeq(s, 1, n) \in Seq(F)
                                   /\ SubSeq(s, n + 1, Len(s)) \in Seq(F)
         /\ \A t \in Seq(F) : s \o t \in Seq(F)
<1>1. s # <<>> => Head(s) \in F /\ Tail(s) \in Seq(F)
  BY HeadTailProperties
<1>2. ASSUME NEW f \in F
      PROVE  Append(s, f) \in Seq(F) /\ s \o <<f>> \in Seq(F)
  <2>1. <<f>> \in Seq(F)
    OBVIOUS
  <2> QED
    BY <2>1, ConcatProperties, AppendProperties
<1>3. \A t \in Seq(F) : s \o t \in Seq(F)
  BY ConcatProperties
<1>4. s \o <<>> \in Seq(F)
  BY <1>3, EmptySeq
<1>5. ASSUME NEW n \in 0 .. Len(s)
      PROVE  SubSeq(s, 1, n) \in Seq(F) /\ SubSeq(s, n + 1, Len(s)) \in Seq(F)
  <2>1. Len(s) \in Nat /\ \A i \in 1 .. Len(s) : s[i] \in F
    BY LenProperties, ElementOfSeq
  <2>2. n \in Int /\ n + 1 \in Int /\ Len(s) \in Int /\ 1 \in Int
    BY <2>1
  <2>3. \A i \in 1 .. n : s[i] \in F
    BY <2>1
  <2>4. \A i \in n + 1 .. Len(s) : s[i] \in F
    BY <2>1
  <2>5. SubSeq(s, 1, n) \in Seq(F)
    BY <2>2, <2>3, SubSeqProperties
  <2>6. SubSeq(s, n + 1, Len(s)) \in Seq(F)
    BY <2>2, <2>4, SubSeqProperties
  <2> QED
    BY <2>5, <2>6
<1> QED
  BY <1>1, <1>2, <1>3, <1>4, <1>5

\* The next packet id is never 0, which marks a publish without one.
LEMMA NextIdTyped ==
  ASSUME packetId \in 1 .. IdMax
  PROVE  NextId \in 1 .. IdMax
BY ConstantsAssumption DEF NextId

-----------------------------------------------------------------------------
(* Type correctness                                                        *)

\* What TypeOK says of the call stack and the frame buffers, in the form the steps
\* below use.
LEMMA TypeFacts ==
  ASSUME TypeOK
  PROVE  /\ stack # <<>> =>
              /\ Top \in Activation /\ Tail(stack) \in Seq(Activation)
              /\ \A a \in Activation : <<a>> \o Tail(stack) \in Seq(Activation)
              /\ \A a, b \in Activation : <<a, b>> \o Tail(stack) \in Seq(Activation)
         /\ accum # <<>> => Head(accum) \in Frame /\ Tail(accum) \in Seq(Frame)
         /\ \A f \in Frame : Append(wire, f) \in Seq(Frame) /\ wire \o <<f>> \in Seq(Frame)
         /\ wire \o <<>> \in Seq(Frame)
         /\ NextId \in 1 .. IdMax
         /\ <<>> \in Seq(Activation) /\ <<>> \in Seq(Frame) /\ <<>> \in Seq(Messages)
<1>1. stack # <<>> =>
        /\ Top \in Activation /\ Tail(stack) \in Seq(Activation)
        /\ \A a \in Activation : <<a>> \o Tail(stack) \in Seq(Activation)
        /\ \A a, b \in Activation : <<a, b>> \o Tail(stack) \in Seq(Activation)
  BY StackTyped DEF TypeOK, Top
<1>2. accum # <<>> => Head(accum) \in Frame /\ Tail(accum) \in Seq(Frame)
  BY FramesTyped DEF TypeOK
<1>3. /\ \A f \in Frame : Append(wire, f) \in Seq(Frame) /\ wire \o <<f>> \in Seq(Frame)
      /\ wire \o <<>> \in Seq(Frame)
  BY FramesTyped DEF TypeOK
<1>4. NextId \in 1 .. IdMax
  BY NextIdTyped DEF TypeOK
<1> QED
  BY <1>1, <1>2, <1>3, <1>4, EmptySeq

\* Acknowledgements and downlink messages are frames.
LEMMA FrameTyped ==
  /\ \A t \in Flags \cup {"DISCONNECT"}, id \in 0 .. IdMax : Ack(t, id) \in Frame
  /\ \A m \in Messages : Downlink(m) \in Frame
BY ConstantsAssumption DEF Ack, Downlink, Frame

\* What each helper does to the call stack.
Plain == Labels \ {"sub", "suback", "puback"}

\* A step within the innermost activation leaves a stack of activations.
LEMMA GotoKeeps ==
  ASSUME TypeOK, stack # <<>>, NEW l \in Plain, Goto(l)
  PROVE  stack' \in Seq(Activation)
<1>1. [Top EXCEPT !.at = l] \in Activation
  BY TypeFacts, GotoTyped DEF Plain
<1> QED
  BY <1>1, TypeFacts DEF Goto

\* So does a call with the packet id just sent,
LEMMA CallForKeeps ==
  ASSUME TypeOK, stack # <<>>, NEW l \in Labels, NEW id \in 0 .. IdMax, NEW r \in Activation,
         l \in {"sub", "suback"} => Top.at = "sub", l = "puback" => id # 0,
         CallFor(l, id, r)
  PROVE  stack' \in Seq(Activation)
<1>1. [Top EXCEPT !.at = l, !.id = id] \in Activation
  BY TypeFacts, CallForTyped
<1> QED
  BY <1>1, TypeFacts DEF CallFor

\* a call with the packet id of before,
LEMMA CallKeeps ==
  ASSUME TypeOK, stack # <<>>, NEW l \in Plain, NEW r \in Activation, Call(l, r)
  PROVE  stack' \in Seq(Activation)
<1>1. Top.id \in 0 .. IdMax
  BY TypeFacts DEF Activation
<1> QED
  BY <1>1, CallForKeeps DEF Call, Plain

\* a tail call,
LEMMA ReplaceKeeps ==
  ASSUME TypeOK, stack # <<>>, NEW r \in Activation, stack' = <<r>> \o Tail(stack)
  PROVE  stack' \in Seq(Activation)
BY TypeFacts

\* and a return.
LEMMA ReturnKeeps ==
  ASSUME TypeOK, stack # <<>>, NEW b \in BOOLEAN, Return(b)
  PROVE  stack' \in Seq(Activation) /\ ret' \in BOOLEAN
BY TypeFacts DEF Return

\* The network's steps.
LEMMA EnvironmentTyped ==
  ASSUME TypeOK, Environment
  PROVE  TypeOK'
<1>1. CASE \E m \in Messages : BrokerPublish(m)
  BY <1>1, TypeFacts, FrameTyped DEF BrokerPublish, TypeOK, client, timers, link, ghost, control
<1>2. CASE BrokerDisconnect
  <2>1. Ack("DISCONNECT", 0) \in Frame
    BY <1>2, FrameTyped, ConstantsAssumption
  <2> QED
    BY <1>2, <2>1, TypeFacts DEF BrokerDisconnect, TypeOK, client, timers, link, ghost, control
<1>3. CASE LinkLost
  BY <1>3, FramesTyped DEF LinkLost, TypeOK, client, timers, link, ghost, control
<1>4. CASE Stabilise
  BY <1>4 DEF Stabilise, TypeOK, client, timers, link, ghost, control
<1>5. CASE PingClock
  BY <1>5 DEF PingClock, TypeOK, client, timers, link, ghost, control
<1>6. CASE RetryClock
  BY <1>6 DEF RetryClock, TypeOK, client, timers, link, ghost, control
<1> QED
  BY <1>1, <1>2, <1>3, <1>4, <1>5, <1>6 DEF Environment

\* The activations that a poll and a wait leave behind.
LEMMA CallerTyped ==
  ASSUME NEW a \in Activation, NEW m \in Messages, NEW l \in {"responded", "handled"}
  PROVE  [a EXCEPT !.at = l, !.msg = m] \in Activation
BY DEF Activation, Labels

\* The wait's counter stays in range when it goes on to poll again.
LEMMA CheckTyped ==
  ASSUME NEW a \in Activation, a.left > 1
  PROVE  [a EXCEPT !.at = "wait", !.left = a.left - 1] \in Activation
<1>1. a.left - 1 \in 0 .. Polls
  BY ConstantsAssumption DEF Activation
<1>2. ASSUME NEW n \in 0 .. Polls
      PROVE  [a EXCEPT !.at = "wait", !.left = n] \in Activation
  BY DEF Activation, Labels
<1> QED
  BY <1>1, <1>2, Zenon

\* A poll and the wait around it.
LEMMA PollTyped ==
  ASSUME TypeOK, PollStep
  PROVE  TypeOK'
<1>1. CASE Recv
  <2>1. stack # <<>>
    BY <1>1 DEF Recv, At
  <2>2. PICK n \in 0 .. Len(wire) : Recv!2!(n)
    BY <1>1 DEF Recv
  <2>3. accum' \in Seq(Frame) /\ wire' \in Seq(Frame)
    BY <1>1, <2>2, FramesTyped DEF TypeOK
  <2>4. stack' \in Seq(Activation)
    BY <1>1, <2>1, <2>2, GotoKeeps DEF Plain, Labels
  <2> QED
    BY <1>1, <2>1, <2>2, <2>3, <2>4 DEF Recv, TypeOK, client, timers, link, ghost, control
<1>2. CASE HandleAck
  BY <1>2, TypeFacts DEF HandleAck, Frame, At, Return, TypeOK, client, timers, link, ghost, control
<1>3. CASE HandleDisconnect
  BY <1>3, TypeFacts DEF HandleDisconnect, States, At, Return, TypeOK, client, timers, link, ghost, control
<1>4. CASE HandlePublish
  <2>1. stack # <<>>
    BY <1>4 DEF HandlePublish, At
  <2>2. Head(accum).msg \in Messages
    BY <1>4, TypeFacts DEF HandlePublish, Frame, Flags
  <2>3. inbox' \in Seq(Messages) /\ Len(inbox') <= InboxDepth
    <3>1. inbox \in Seq(Messages) /\ (Len(inbox) >= InboxDepth => inbox # <<>>)
          /\ Len(inbox) <= InboxDepth
      BY ConstantsAssumption, EmptySeq DEF TypeOK
    <3>2. Len(inbox) < InboxDepth \/ Len(inbox) >= InboxDepth
      BY <3>1, LenProperties, ConstantsAssumption
    <3>3. \A m \in Messages : Push(m) \in Seq(Messages) /\ Len(Push(m)) <= InboxDepth
      <4> TAKE m \in Messages
      <4>1. CASE Len(inbox) < InboxDepth
        <5>1. Push(m) = Append(inbox, m)
          BY <4>1 DEF Push
        <5>2. Append(inbox, m) \in Seq(Messages) /\ Len(Append(inbox, m)) = Len(inbox) + 1
          BY <3>1, AppendProperties
        <5> QED
          BY <4>1, <5>1, <5>2, <3>1, LenProperties, ConstantsAssumption
      <4>2. CASE Len(inbox) >= InboxDepth
        <5>1. Push(m) = Append(Tail(inbox), m)
          BY <4>2, <3>1, LenProperties, ConstantsAssumption DEF Push
        <5>2. Tail(inbox) \in Seq(Messages) /\ Len(Tail(inbox)) = Len(inbox) - 1
          BY <4>2, <3>1, HeadTailProperties
        <5>3. Append(Tail(inbox), m) \in Seq(Messages)
              /\ Len(Append(Tail(inbox), m)) = Len(inbox) - 1 + 1
          BY <5>2, AppendProperties
        <5> QED
          BY <5>1, <5>3, <3>1, LenProperties, ConstantsAssumption
      <4> QED
        BY <3>2, <4>1, <4>2
    <3> QED
      BY <1>4, <2>2, <3>3 DEF HandlePublish
  <2>4. executed' \in [Messages -> 0 .. 2]
    <3>1. executed \in [Messages -> 0 .. 2]
      BY DEF TypeOK
    <3> QED
      BY <1>4, <2>2, <3>1 DEF HandlePublish
  <2>5. stack' \in Seq(Activation)
    BY <1>4, <2>1, <2>2, CallerTyped, TypeFacts, PublishTyped, ConstantsAssumption DEF HandlePublish
  <2> QED
    BY <1>4, <2>1, <2>2, <2>3, <2>4, <2>5 DEF HandlePublish, TypeOK, client, timers, link, ghost, control
<1>5. CASE Responded
  <2>1. stack # <<>>
    BY <1>5 DEF Responded, At
  <2>2. stack' \in Seq(Activation)
    BY <1>5, <2>1, CallKeeps, GotoKeeps, PublishTyped, ConstantsAssumption DEF Responded, Plain, Labels
  <2> QED
    BY <1>5, <2>1, <2>2 DEF Responded, TypeOK, client, timers, link, ghost, control
<1>6. CASE HandlerDone
  <2>1. stack # <<>>
    BY <1>6 DEF HandlerDone, At
  <2>2. stack' \in Seq(Activation)
    BY <1>6, <2>1, GotoKeeps DEF HandlerDone, Plain, Labels
  <2>3. wire' \in Seq(Frame) /\ tcp' \in {"up", "mute", "down", "closed"} /\ UNCHANGED <<accepted, asked, got>>
    BY <1>6, TypeFacts DEF HandlerDone, Reaches, SendFails, link, TypeOK
  <2>4. accum' \in Seq(Frame) /\ wild' \in BOOLEAN
    BY <1>6, TypeFacts DEF HandlerDone, TypeOK
  <2> QED
    BY <1>6, <2>1, <2>2, <2>3, <2>4 DEF HandlerDone, timers, ghost, TypeOK
<1>7. CASE PollEnd
  <2>1. stack' \in Seq(Activation) /\ ret' \in BOOLEAN
    BY <1>7, TypeFacts DEF PollEnd, At, Return, TypeOK
  <2>2. state' \in States
    BY <1>7 DEF PollEnd, States, TypeOK
  <2>3. accum' \in Seq(Frame)
    BY <1>7, TypeFacts DEF PollEnd, TypeOK
  <2> QED
    BY <1>7, <2>1, <2>2, <2>3 DEF PollEnd, TypeOK, timers, link, ghost
<1>8. CASE Wait
  <2>1. stack # <<>>
    BY <1>8 DEF Wait, At
  <2>2. stack' \in Seq(Activation)
    BY <1>8, <2>1, CallKeeps, EnterTyped DEF Wait, Plain, Labels
  <2> QED
    BY <1>8, <2>1, <2>2 DEF Wait, TypeOK, client, timers, link, ghost, control
<1>9. CASE Check
  <2>1. stack # <<>>
    BY <1>9 DEF Check, At
  <2>2. stack' \in Seq(Activation) /\ ret' \in BOOLEAN
    <3>1. CASE Top.left > 1 /\ Top.flag \notin flags
      <4>3. Top.left \in 0 .. Polls
        BY <2>1, TypeFacts DEF Activation
      <4>0. ~(Top.left <= 1)
        BY <3>1, <4>3, ConstantsAssumption
      <4>1. stack' = <<[Top EXCEPT !.at = "wait", !.left = Top.left - 1]>> \o Tail(stack)
        BY <1>9, <3>1, <4>0 DEF Check
      <4>2. ret' = ret
        BY <1>9, <3>1, <4>0 DEF Check
      <4> QED
        BY <4>1, <4>2, <2>1, <3>1, TypeFacts, ReplaceKeeps, CheckTyped DEF TypeOK
    <3>2. CASE ~(Top.left > 1 /\ Top.flag \notin flags)
      <4>1. Return(TRUE) \/ Return(FALSE)
        BY <1>9, <3>2 DEF Check
      <4> QED
        BY <4>1, <2>1, ReturnKeeps
    <3> QED
      BY <3>1, <3>2
  <2> QED
    BY <1>9, <2>2 DEF Check, TypeOK, client, timers, link, ghost
<1> QED
  BY <1>1, <1>2, <1>3, <1>4, <1>5, <1>6, <1>7, <1>8, <1>9 DEF PollStep

\* A dropped session and a failed send.
LEMMA DropTyped ==
  ASSUME TypeOK, Drop
  PROVE  /\ state' \in States /\ flags' \in SUBSET Flags
         /\ accum' \in Seq(Frame) /\ wire' \in Seq(Frame) /\ inbox' \in Seq(Messages)
         /\ Len(inbox') <= InboxDepth
         /\ tcp' \in {"up", "mute", "down", "closed"}
         /\ UNCHANGED <<packetId, lastPuback, wild, accepted, asked, got>>
<1>1. inbox' = <<>> /\ Len(<<>>) <= InboxDepth
  BY EmptySeq, ConstantsAssumption DEF Drop
<1> QED
  BY <1>1, EmptySeq DEF Drop, States

\* A failed send closes the socket and loses what was on the wire.
LEMMA SendFailsTyped ==
  ASSUME TypeOK, SendFails
  PROVE  /\ wire' \in Seq(Frame) /\ tcp' \in {"up", "mute", "down", "closed"}
         /\ UNCHANGED <<accepted, asked, got>>
BY EmptySeq DEF SendFails

\* A packet sent adds nothing but the broker's answer to the wire.
LEMMA ReachesTyped ==
  ASSUME TypeOK, NEW f \in Frame, Reaches(<<f>>) \/ Reaches(<<>>)
  PROVE  /\ wire' \in Seq(Frame) /\ tcp' \in {"up", "mute", "down", "closed"}
         /\ UNCHANGED accepted
BY TypeFacts DEF Reaches, TypeOK

\* A request clears flags and takes a packet id.
LEMMA RequestTyped ==
  ASSUME TypeOK, NEW f, Request(f)
  PROVE  /\ packetId' \in 1 .. IdMax /\ flags' \in SUBSET Flags
         /\ UNCHANGED <<state, lastPuback, accum, inbox, wild>>
BY TypeFacts DEF Request, Clear, TypeOK

\* Connecting.
LEMMA ConnectTyped ==
  ASSUME TypeOK, ConnectStep
  PROVE  TypeOK'
<1>0. stack # <<>>
  BY DEF ConnectStep, KeepSession, ConnectFails, ConnectSent, ConnackSeen, ConnackTimeout, At
<1>1. CASE KeepSession
  <2>1. stack' \in Seq(Activation) /\ ret' \in BOOLEAN
    BY <1>0, <1>1, ReturnKeeps DEF KeepSession
  <2> QED
    BY <1>1, <2>1 DEF KeepSession, TypeOK, client, timers, ghost, link
<1>2. CASE ConnectFails \/ ConnackTimeout
  <2>1. stack' \in Seq(Activation) /\ ret' \in BOOLEAN
    BY <1>0, <1>2, ReturnKeeps DEF ConnectFails, ConnackTimeout
  <2> QED
    BY <1>2, <2>1, DropTyped DEF ConnectFails, ConnackTimeout, TypeOK, timers, ghost
<1>3. CASE ConnectSent
  <2>1. stack' \in Seq(Activation)
    <3>1. "connack" \in Plain /\ "CONNACK" \in Flags
      BY DEF Plain, Labels, Flags
    <3> QED
      BY <1>0, <1>3, <3>1, CallKeeps, WaitTyped DEF ConnectSent
  <2>2. wire' \in Seq(Frame)
    <3>1. Ack("CONNACK", 0) \in Frame /\ Ack("CONNACK", 1) \in Frame
      BY FrameTyped, ConstantsAssumption DEF Flags
    <3>2. <<Ack("CONNACK", 0)>> \in Seq(Frame) /\ <<Ack("CONNACK", 1)>> \in Seq(Frame)
      BY <3>1
    <3> QED
      BY <1>3, <3>2, TypeFacts DEF ConnectSent
  <2>3. /\ tcp' \in {"up", "mute", "down", "closed"} /\ accepted' \in BOOLEAN
        /\ asked' \in SUBSET Topics /\ got' = got
    BY <1>3 DEF ConnectSent
  <2>4. flags' \in SUBSET Flags /\ accum' \in Seq(Frame)
        /\ inbox' \in Seq(Messages) /\ Len(inbox') <= InboxDepth
    <3>1. <<>> \in Seq(Messages) /\ <<>> \in Seq(Frame) /\ Len(<<>>) <= InboxDepth
      BY EmptySeq, ConstantsAssumption
    <3> QED
      BY <1>3, <3>1 DEF ConnectSent, Clear, TypeOK
  <2> QED
    BY <1>3, <2>1, <2>2, <2>3, <2>4 DEF ConnectSent, TypeOK, States, timers, ghost
<1>4. CASE ConnackSeen
  <2>1. stack' \in Seq(Activation) /\ ret' \in BOOLEAN
    BY <1>0, <1>4, ReturnKeeps DEF ConnackSeen
  <2>2. pingDue' \in BOOLEAN
    BY <1>4 DEF ConnackSeen
  <2> QED
    BY <1>4, <2>1, <2>2 DEF ConnackSeen, TypeOK, States, ghost, link
<1> QED
  BY <1>1, <1>2, <1>3, <1>4 DEF ConnectStep

\* Requests and their answers.
LEMMA RequestStepTyped ==
  ASSUME TypeOK, RequestStep
  PROVE  TypeOK'
<1>0. stack # <<>>
  BY DEF RequestStep, Refuse, Subscribe, Suback, Unsubscribe, Ping, PublishQos0,
         PublishQos1, Puback, At
<1>1. CASE Refuse
  <2>1. stack' \in Seq(Activation) /\ ret' \in BOOLEAN
    BY <1>0, <1>1, ReturnKeeps DEF Refuse
  <2> QED
    BY <1>1, <2>1 DEF Refuse, TypeOK, client, timers, ghost, link
<1>2. CASE Subscribe
  <2>1. Ack("SUBACK", NextId) \in Frame /\ WaitFor("SUBACK") \in Activation
    BY TypeFacts, FrameTyped, WaitTyped DEF Flags
  <2>2. Top \in Activation /\ Top.at = "sub" /\ Head(Top.todo) \in Topics
    <3>1. Top \in Activation /\ Top.at = "sub"
      BY <1>0, <1>2, TypeFacts DEF Subscribe, At, Top
    <3>2. Top.todo \in Seq(Topics) /\ Top.todo # <<>>
      BY <3>1 DEF Activation
    <3> QED
      BY <3>1, <3>2, HeadTailProperties
  <2>3. stack' \in Seq(Activation) /\ ret' \in BOOLEAN
    <3>1. CASE CallFor("suback", NextId, WaitFor("SUBACK")) /\ ret' = ret
      <4>1. NextId \in 0 .. IdMax /\ "suback" \in Labels
        BY TypeFacts DEF Labels
      <4> QED
        BY <1>0, <2>1, <2>2, <3>1, <4>1, CallForKeeps DEF TypeOK
    <3>2. CASE Return(FALSE)
      BY <1>0, <3>2, ReturnKeeps
    <3> QED
      BY <1>2, <3>1, <3>2 DEF Subscribe
  <2>4. /\ wire' \in Seq(Frame) /\ tcp' \in {"up", "mute", "down", "closed"}
        /\ UNCHANGED <<accepted, got>> /\ asked' \in SUBSET Topics
    BY <1>2, <2>1, <2>2, ReachesTyped, SendFailsTyped DEF Subscribe, TypeOK
  <2>5. /\ packetId' \in 1 .. IdMax /\ flags' \in SUBSET Flags
        /\ UNCHANGED <<state, lastPuback, accum, inbox, wild>>
    BY <1>2, RequestTyped DEF Subscribe
  <2> QED
    BY <1>2, <2>3, <2>4, <2>5 DEF Subscribe, TypeOK, timers, ghost
<1>3. CASE Suback
  <2>1. stack' \in Seq(Activation) /\ ret' \in BOOLEAN
    <3>1. CASE Return(TRUE) \/ Return(FALSE)
      BY <1>0, <3>1, ReturnKeeps
    <3>2. CASE /\ Len(Top.todo) # 1 /\ ret' = ret
               /\ stack' = <<SubscribeCall(Tail(Top.todo))>> \o Tail(stack)
      <4>1. Top \in Activation /\ Top.at = "suback"
        BY <1>0, <1>3, TypeFacts DEF Suback, At, Top
      <4>2. Top.todo \in Seq(Topics) /\ Top.todo # <<>>
        BY <4>1 DEF Activation
      <4>3. Tail(Top.todo) \in Seq(Topics) /\ Len(Tail(Top.todo)) = Len(Top.todo) - 1
        BY <4>2, HeadTailProperties
      <4>4. Len(Top.todo) \in Nat /\ Len(<<>>) = 0
        BY <4>2, LenProperties, EmptySeq
      <4>5. Tail(Top.todo) # <<>>
        <5>1. SUFFICES ASSUME Tail(Top.todo) = <<>>
                       PROVE  FALSE
          OBVIOUS
        <5>2. Len(Tail(Top.todo)) = 0
          BY <4>4, <5>1, Zenon
        <5> QED
          BY <3>2, <4>3, <4>4, <5>2
      <4>6. SubscribeCall(Tail(Top.todo)) \in Activation
        BY <4>3, <4>5, SubscribeTyped
      <4> QED
        BY <1>0, <3>2, <4>6, ReplaceKeeps DEF TypeOK
    <3> QED
      BY <1>3, <3>1, <3>2 DEF Suback
  <2>2. state' \in States
    BY <1>3 DEF Suback, TypeOK, States
  <2> QED
    BY <1>3, <2>1, <2>2 DEF Suback, TypeOK, timers, ghost, link
<1>4. CASE Unsubscribe
  <2>1. Ack("UNSUBACK", NextId) \in Frame /\ WaitFor("UNSUBACK") \in Activation
    BY TypeFacts, FrameTyped, WaitTyped DEF Flags
  <2>2. stack' \in Seq(Activation) /\ ret' \in BOOLEAN
    BY <1>0, <1>4, <2>1, ReplaceKeeps, ReturnKeeps DEF Unsubscribe, TypeOK
  <2>3. /\ wire' \in Seq(Frame) /\ tcp' \in {"up", "mute", "down", "closed"}
        /\ UNCHANGED <<accepted, got>> /\ asked' \in SUBSET Topics
    BY <1>4, <2>1, ReachesTyped, SendFailsTyped DEF Unsubscribe, TypeOK
  <2>4. /\ packetId' \in 1 .. IdMax /\ flags' \in SUBSET Flags
        /\ UNCHANGED <<state, lastPuback, accum, inbox, wild>>
    BY <1>4, RequestTyped DEF Unsubscribe
  <2> QED
    BY <1>4, <2>2, <2>3, <2>4 DEF Unsubscribe, TypeOK, timers, ghost
<1>5. CASE Ping
  <2>1. Ack("PINGRESP", 0) \in Frame /\ WaitFor("PINGRESP") \in Activation
    BY FrameTyped, WaitTyped, ConstantsAssumption DEF Flags
  <2>2. stack' \in Seq(Activation) /\ ret' \in BOOLEAN
    BY <1>0, <1>5, <2>1, ReplaceKeeps, ReturnKeeps DEF Ping, TypeOK
  <2>3. /\ wire' \in Seq(Frame) /\ tcp' \in {"up", "mute", "down", "closed"}
        /\ UNCHANGED <<accepted, asked, got>>
    BY <1>5, <2>1, ReachesTyped, SendFailsTyped DEF Ping, TypeOK
  <2> QED
    BY <1>5, <2>2, <2>3 DEF Ping, Clear, TypeOK, timers, ghost
<1>6. CASE PublishQos0
  <2>1. Ack("PINGRESP", 0) \in Frame
    BY FrameTyped, ConstantsAssumption DEF Flags
  <2>2. stack' \in Seq(Activation) /\ ret' \in BOOLEAN
    BY <1>0, <1>6, ReturnKeeps DEF PublishQos0
  <2>3. /\ wire' \in Seq(Frame) /\ tcp' \in {"up", "mute", "down", "closed"}
        /\ UNCHANGED <<accepted, asked, got>>
    BY <1>6, <2>1, ReachesTyped, SendFailsTyped DEF PublishQos0, TypeOK
  <2> QED
    BY <1>6, <2>2, <2>3 DEF PublishQos0, Clear, TypeOK, timers, ghost
<1>7. CASE PublishQos1
  <2>1. Ack("PUBACK", NextId) \in Frame /\ WaitFor("PUBACK") \in Activation
    BY TypeFacts, FrameTyped, WaitTyped DEF Flags
  <2>2. stack' \in Seq(Activation) /\ ret' \in BOOLEAN
    <3>1. CASE CallFor("puback", NextId, WaitFor("PUBACK")) /\ ret' = ret
      <4>1. NextId \in 0 .. IdMax /\ NextId # 0 /\ "puback" \in Labels
        BY TypeFacts DEF Labels
      <4>2. "puback" \notin {"sub", "suback"}
        OBVIOUS
      <4> QED
        BY <1>0, <2>1, <3>1, <4>1, <4>2, CallForKeeps DEF TypeOK
    <3>2. CASE Return(FALSE)
      BY <1>0, <3>2, ReturnKeeps
    <3> QED
      BY <1>7, <3>1, <3>2 DEF PublishQos1
  <2>3. /\ wire' \in Seq(Frame) /\ tcp' \in {"up", "mute", "down", "closed"}
        /\ UNCHANGED <<accepted, asked>> /\ got' \in SUBSET (1 .. IdMax)
    BY <1>7, <2>1, TypeFacts, ReachesTyped, SendFailsTyped DEF PublishQos1, TypeOK
  <2>4. /\ packetId' \in 1 .. IdMax /\ flags' \in SUBSET Flags
        /\ UNCHANGED <<state, lastPuback, accum, inbox, wild>>
    BY <1>7, RequestTyped DEF PublishQos1
  <2> QED
    BY <1>7, <2>2, <2>3, <2>4 DEF PublishQos1, TypeOK, timers, ghost
<1>8. CASE Puback
  <2>1. PublishResult \in BOOLEAN
    BY DEF PublishResult, TypeOK
  <2>2. stack' \in Seq(Activation) /\ ret' \in BOOLEAN
    BY <1>0, <1>8, <2>1, ReturnKeeps DEF Puback
  <2>3. Top.id \in 0 .. IdMax
    BY <1>0, TypeFacts DEF Activation
  <2>4. lastPub' \in [id : 0 .. IdMax, ok : BOOLEAN]
    BY <1>8, <2>1, <2>3 DEF Puback
  <2> QED
    BY <1>8, <2>2, <2>4 DEF Puback, TypeOK, client, timers, link
<1> QED
  BY <1>1, <1>2, <1>3, <1>4, <1>5, <1>6, <1>7, <1>8 DEF RequestStep

\* The maintenance call.
LEMMA MaintainTyped ==
  ASSUME TypeOK, MaintainStep
  PROVE  TypeOK'
<1>0. stack # <<>>
  BY DEF MaintainStep, MaintainPolled, MaintainConnected, MaintainPing, MaintainPinged,
         MaintainSubscribe, MaintainSubscribed, MaintainDrop, At
<1>1. CASE MaintainPolled
  <2>1. stack' \in Seq(Activation) /\ ret' \in BOOLEAN
    <3>1. CASE Goto("mt_ping") /\ ret' = ret
      BY <1>0, <3>1, GotoKeeps DEF Plain, Labels, TypeOK
    <3>2. CASE Return(FALSE)
      BY <1>0, <3>2, ReturnKeeps
    <3>3. CASE Call("mt_connected", Enter("connect")) /\ ret' = ret
      BY <1>0, <3>3, CallKeeps, EnterTyped DEF Plain, Labels, TypeOK
    <3> QED
      BY <1>1, <3>1, <3>2, <3>3 DEF MaintainPolled
  <2>2. retryDue' \in BOOLEAN
    BY <1>1 DEF MaintainPolled, TypeOK
  <2> QED
    BY <1>1, <2>1, <2>2 DEF MaintainPolled, TypeOK, client, ghost, link
<1>2. CASE MaintainConnected
  <2>1. stack' \in Seq(Activation) /\ ret' \in BOOLEAN
    BY <1>0, <1>2, GotoKeeps, ReturnKeeps DEF MaintainConnected, Plain, Labels, TypeOK
  <2> QED
    BY <1>2, <2>1 DEF MaintainConnected, TypeOK, client, timers, ghost, link
<1>3. CASE MaintainPing
  <2>1. stack' \in Seq(Activation)
    BY <1>0, <1>3, GotoKeeps, CallKeeps, EnterTyped DEF MaintainPing, Plain, Labels
  <2> QED
    BY <1>3, <2>1 DEF MaintainPing, TypeOK, client, timers, ghost, link
<1>4. CASE MaintainPinged
  <2>1. stack' \in Seq(Activation) /\ ret' \in BOOLEAN
    BY <1>0, <1>4, GotoKeeps, ReturnKeeps DEF MaintainPinged, Plain, Labels, TypeOK
  <2> QED
    BY <1>4, <2>1 DEF MaintainPinged, TypeOK, client, ghost, link
<1>5. CASE MaintainSubscribe
  <2>1. SubscribeCall(PlatformTopics) \in Activation
    <3>1. PlatformTopics \in Seq(Topics) /\ PlatformTopics # <<>>
      BY DEF PlatformTopics, Topics
    <3> QED
      BY <3>1, SubscribeTyped
  <2>2. stack' \in Seq(Activation) /\ ret' \in BOOLEAN
    BY <1>0, <1>5, <2>1, CallKeeps, ReturnKeeps DEF MaintainSubscribe, Plain, Labels, TypeOK
  <2> QED
    BY <1>5, <2>2 DEF MaintainSubscribe, TypeOK, client, timers, ghost, link
<1>6. CASE MaintainSubscribed
  <2>1. stack' \in Seq(Activation) /\ ret' \in BOOLEAN
    BY <1>0, <1>6, ReturnKeeps DEF MaintainSubscribed
  <2> QED
    BY <1>6, <2>1 DEF MaintainSubscribed, TypeOK, client, timers, ghost, link
<1>7. CASE MaintainDrop
  <2>1. stack' \in Seq(Activation) /\ ret' \in BOOLEAN
    BY <1>0, <1>7, ReturnKeeps DEF MaintainDrop
  <2> QED
    BY <1>7, <2>1, DropTyped DEF MaintainDrop, TypeOK, timers, ghost
<1> QED
  BY <1>1, <1>2, <1>3, <1>4, <1>5, <1>6, <1>7 DEF MaintainStep

\* The start of a call.
LEMMA ThreadsTyped ==
  ASSUME TypeOK, Threads
  PROVE  TypeOK'
<1>1. /\ PlatformTopics \in Seq(Topics) /\ PlatformTopics # <<>>
      /\ <<"app">> \in Seq(Topics) /\ <<"app">> # <<>>
  BY DEF PlatformTopics, Topics
<1>2. ASSUME NEW a \in Activation, Start(<<a>>)
      PROVE  TypeOK'
  <2>1. <<a>> \in Seq(Activation)
    OBVIOUS
  <2> QED
    BY <1>2, <2>1 DEF Start, TypeOK, client, timers, ghost, link
<1>3. CASE Maintain
  <2>1. Enter("poll") \in Activation /\ Enter("mt_polled") \in Activation
    BY EnterTyped DEF Labels
  <2>2. <<Enter("poll"), Enter("mt_polled")>> \in Seq(Activation)
    BY <2>1
  <2> QED
    BY <1>3, <2>2 DEF Maintain, Start, TypeOK, client, timers, ghost, link
<1>4. CASE Report
  BY <1>2, <1>4, PublishTyped, ConstantsAssumption DEF Report
<1>5. CASE RxPoll
  <2>1. Enter("poll") \in Activation
    BY EnterTyped DEF Labels
  <2> QED
    BY <1>2, <1>5, <2>1 DEF RxPoll
<1>6. CASE ScriptCall
  <2>1. {Enter("connect"), SubscribeCall(<<"app">>), SubscribeCall(PlatformTopics),
         Enter("unsub"), Enter("ping"), PublishCall(0), PublishCall(1)} \subseteq Activation
    BY <1>1, EnterTyped, SubscribeTyped, PublishTyped DEF Labels
  <2> QED
    BY <1>2, <1>6, <2>1 DEF ScriptCall
<1>7. CASE ScriptDisconnect
  BY <1>7, DropTyped DEF ScriptDisconnect, TypeOK, timers, ghost, control
<1>8. CASE ScriptRead
  <2>1. inbox' \in Seq(Messages) /\ Len(inbox') <= InboxDepth
    <3>1. inbox \in Seq(Messages) /\ inbox # <<>> /\ Len(inbox) <= InboxDepth
      BY <1>8 DEF ScriptRead, TypeOK
    <3>2. Tail(inbox) \in Seq(Messages) /\ Len(Tail(inbox)) = Len(inbox) - 1
      BY <3>1, HeadTailProperties
    <3> QED
      BY <1>8, <3>1, <3>2, LenProperties, ConstantsAssumption DEF ScriptRead
  <2> QED
    BY <1>8, <2>1 DEF ScriptRead, TypeOK, timers, ghost, control, link
<1> QED
  BY <1>3, <1>4, <1>5, <1>6, <1>7, <1>8 DEF Threads

\* Every state of the client, its call stack and its buffers is well typed: no
\* activation ever lacks the topic or the packet id its next step reads, and no
\* frame, flag or packet id is out of range.
THEOREM TypeCorrect == Spec => []TypeOK
<1>1. Init => TypeOK
  <2>1. /\ <<>> \in Seq(Activation) /\ <<>> \in Seq(Frame) /\ <<>> \in Seq(Messages)
        /\ 1 \in 1 .. IdMax /\ 0 \in 0 .. IdMax
    BY EmptySeq, ConstantsAssumption
  <2>2. Init => executed \in [Messages -> 0 .. 2] /\ lastPub \in [id : 0 .. IdMax, ok : BOOLEAN]
    BY <2>1 DEF Init
  <2>3. Init => /\ state \in States /\ flags \in SUBSET Flags
                /\ asked \in SUBSET Topics /\ got \in SUBSET (1 .. IdMax)
                /\ sent \in SUBSET Messages
    BY DEF Init, States
  <2>4. Init => /\ packetId \in 1 .. IdMax /\ lastPuback \in 0 .. IdMax
                /\ tcp \in {"up", "mute", "down", "closed"}
    BY <2>1 DEF Init
  <2>5. Init => /\ accum \in Seq(Frame) /\ wire \in Seq(Frame)
                /\ inbox \in Seq(Messages) /\ stack \in Seq(Activation)
                /\ Len(inbox) <= InboxDepth
    <3>1. Len(<<>>) <= InboxDepth
      BY EmptySeq, ConstantsAssumption
    <3> QED
      BY <2>1, <3>1 DEF Init
  <2>6. Init => /\ pingDue \in BOOLEAN /\ retryDue \in BOOLEAN /\ wild \in BOOLEAN
                /\ ret \in BOOLEAN /\ healthy \in BOOLEAN /\ accepted \in BOOLEAN
    BY DEF Init
  <2> QED
    BY <2>2, <2>3, <2>4, <2>5, <2>6 DEF TypeOK
<1>2. TypeOK /\ [Next]_vars => TypeOK'
  <2> SUFFICES ASSUME TypeOK, [Next]_vars
               PROVE  TypeOK'
    OBVIOUS
  <2>1. CASE Environment
    BY <2>1, EnvironmentTyped
  <2>2. CASE CallStep
    BY <2>2, PollTyped, ConnectTyped, RequestStepTyped, MaintainTyped DEF CallStep
  <2>3. CASE Threads
    BY <2>3, ThreadsTyped
  <2>4. CASE UNCHANGED vars
    BY <2>4 DEF vars, client, timers, link, ghost, control, TypeOK
  <2> QED
    BY <2>1, <2>2, <2>3, <2>4 DEF Next
<1> QED
  BY <1>1, <1>2, PTL DEF Spec

-----------------------------------------------------------------------------
(* AckedPublish                                                            *)

\* Frames whose PUBACK, if they are one, acknowledges a publish the broker has got.
AckedFrame(g) == {f \in Frame : f.type = "PUBACK" => f.id \in g}

\* AckedPublish alone is not inductive: that the id in mqtt_last_puback_id was got
\* by the broker rests on the same being true of every PUBACK on the wire and in
\* the receive buffer.
AckInv ==
  /\ wire \in Seq(AckedFrame(got)) /\ accum \in Seq(AckedFrame(got))
  /\ lastPuback \in got \cup {0}
  /\ AckedPublish

\* More publishes at the broker leave every PUBACK justified.
LEMMA AckedGrows ==
  ASSUME NEW g, NEW h, g \subseteq h, NEW s \in Seq(AckedFrame(g))
  PROVE  s \in Seq(AckedFrame(h))
<1>1. AckedFrame(g) \subseteq AckedFrame(h)
  BY DEF AckedFrame
<1> QED
  BY <1>1, SeqMonotonic

\* Every frame the broker sends other than a PUBACK is justified.
LEMMA OtherFramesAcked ==
  /\ \A t \in (Flags \cup {"DISCONNECT"}) \ {"PUBACK"}, id \in 0 .. IdMax :
       Ack(t, id) \in AckedFrame(got)
  /\ \A m \in Messages : Downlink(m) \in AckedFrame(got)
  /\ \A id \in got : id \in 0 .. IdMax => Ack("PUBACK", id) \in AckedFrame(got)
BY FrameTyped DEF AckedFrame, Ack, Downlink, Flags

\* A packet sent, or not, adds no PUBACK that the broker did not justify.
LEMMA SendAcked ==
  ASSUME AckInv, NEW f \in AckedFrame(got), Reaches(<<f>>) \/ Reaches(<<>>) \/ SendFails
  PROVE  wire' \in Seq(AckedFrame(got))
<1>1. wire \o <<f>> \in Seq(AckedFrame(got)) /\ wire \o <<>> \in Seq(AckedFrame(got))
  BY FramesTyped DEF AckInv
<1>2. <<>> \in Seq(AckedFrame(got))
  BY EmptySeq
<1> QED
  BY <1>1, <1>2 DEF Reaches, SendFails, AckInv

\* Steps that touch neither the buffers, nor the ids, nor the outcome.
LEMMA AckUnchanged ==
  ASSUME AckInv, UNCHANGED <<wire, accum, got, lastPuback, lastPub>>
  PROVE  AckInv'
BY DEF AckInv, AckedPublish, AckedFrame, Frame

\* Steps that only change the buffers.
LEMMA AckBuffers ==
  ASSUME AckInv, UNCHANGED <<got, lastPuback, lastPub>>,
         wire' \in Seq(AckedFrame(got)), accum' \in Seq(AckedFrame(got))
  PROVE  AckInv'
BY DEF AckInv, AckedPublish, AckedFrame, Frame

\* A dropped session has no frames left to justify.
LEMMA DropAcked ==
  ASSUME AckInv, Drop, lastPub' = lastPub
  PROVE  AckInv'
<1>1. <<>> \in Seq(AckedFrame(got))
  BY EmptySeq
<1> QED
  BY <1>1, AckBuffers DEF Drop

\* The network's steps: only frames of the broker enter the wire.
LEMMA EnvironmentAcked ==
  ASSUME TypeOK, AckInv, Environment
  PROVE  AckInv'
<1>1. ASSUME NEW m \in Messages, BrokerPublish(m)
      PROVE  AckInv'
  <2>1. wire' \in Seq(AckedFrame(got))
    BY <1>1, OtherFramesAcked, FramesTyped DEF BrokerPublish, AckInv
  <2> QED
    BY <1>1, <2>1, AckBuffers DEF BrokerPublish, AckInv, client
<1>2. CASE BrokerDisconnect
  <2>1. Ack("DISCONNECT", 0) \in AckedFrame(got)
    <3>1. "DISCONNECT" \in (Flags \cup {"DISCONNECT"}) \ {"PUBACK"} /\ 0 \in 0 .. IdMax
      BY ConstantsAssumption
    <3> QED
      BY <3>1, OtherFramesAcked
  <2>2. wire' \in Seq(AckedFrame(got))
    BY <1>2, <2>1, FramesTyped DEF BrokerDisconnect, AckInv
  <2> QED
    BY <1>2, <2>2, AckBuffers DEF BrokerDisconnect, AckInv, client, ghost
<1>3. CASE LinkLost
  <2>1. wire' \in Seq(AckedFrame(got))
    BY <1>3, FramesTyped DEF LinkLost, AckInv
  <2> QED
    BY <1>3, <2>1, AckBuffers DEF LinkLost, AckInv, client, ghost
<1>4. CASE Stabilise \/ PingClock \/ RetryClock
  BY <1>4, AckUnchanged DEF Stabilise, PingClock, RetryClock, client, ghost, link
<1> QED
  BY <1>1, <1>2, <1>3, <1>4 DEF Environment

\* A poll moves frames on, and keeps the packet id of a PUBACK it handles.
LEMMA PollAcked ==
  ASSUME TypeOK, AckInv, PollStep
  PROVE  AckInv'
<1>1. CASE Recv
  <2>1. PICK n \in 0 .. Len(wire) : Recv!2!(n)
    BY <1>1 DEF Recv
  <2>2. /\ SubSeq(wire, 1, n) \in Seq(AckedFrame(got))
        /\ SubSeq(wire, n + 1, Len(wire)) \in Seq(AckedFrame(got))
    BY FramesTyped DEF AckInv
  <2>3. accum' \in Seq(AckedFrame(got)) /\ wire' \in Seq(AckedFrame(got))
    BY <2>1, <2>2, FramesTyped DEF AckInv
  <2> QED
    BY <1>1, <2>3, AckBuffers DEF Recv, ghost
<1>2. CASE HandleAck
  <2>1. Head(accum) \in AckedFrame(got) /\ Tail(accum) \in Seq(AckedFrame(got))
    BY <1>2, FramesTyped DEF HandleAck, AckInv
  <2>2. lastPuback' \in got \cup {0}
    BY <1>2, <2>1 DEF HandleAck, AckedFrame, AckInv
  <2>3. AckedFrame(got') = AckedFrame(got)
    BY <1>2 DEF HandleAck, link, AckedFrame
  <2> QED
    BY <1>2, <2>1, <2>2, <2>3 DEF HandleAck, AckInv, AckedPublish, ghost, link
<1>3. CASE HandleDisconnect
  <2>1. accum' \in Seq(AckedFrame(got))
    BY <1>3, FramesTyped DEF HandleDisconnect, AckInv
  <2> QED
    BY <1>3, <2>1, AckBuffers DEF HandleDisconnect, AckInv, ghost, link
<1>4. CASE HandlePublish
  BY <1>4, AckUnchanged DEF HandlePublish, link
<1>5. CASE Responded \/ Wait \/ Check
  BY <1>5, AckUnchanged DEF Responded, Wait, Check, client, ghost, link
<1>6. CASE HandlerDone
  <2>1. accum' \in Seq(AckedFrame(got))
    BY <1>6, FramesTyped DEF HandlerDone, AckInv
  <2>2. wire' \in Seq(AckedFrame(got)) /\ got' = got
    <3>1. wire \o <<>> \in Seq(AckedFrame(got)) /\ <<>> \in Seq(AckedFrame(got))
      BY FramesTyped, EmptySeq DEF AckInv
    <3> QED
      BY <1>6, <3>1 DEF HandlerDone, Reaches, SendFails, AckInv, link
  <2> QED
    BY <1>6, <2>1, <2>2, AckBuffers DEF HandlerDone, ghost
<1>7. CASE PollEnd
  <2>1. accum' \in Seq(AckedFrame(got))
    BY <1>7, EmptySeq DEF PollEnd, AckInv
  <2> QED
    BY <1>7, <2>1, AckBuffers DEF PollEnd, AckInv, ghost, link
<1> QED
  BY <1>1, <1>2, <1>3, <1>4, <1>5, <1>6, <1>7 DEF PollStep

\* Connecting: the CONNACK is no PUBACK.
LEMMA ConnectAcked ==
  ASSUME TypeOK, AckInv, ConnectStep
  PROVE  AckInv'
<1>1. CASE KeepSession
  BY <1>1, AckUnchanged DEF KeepSession, client, ghost, link
<1>2. CASE ConnectFails \/ ConnackTimeout
  BY <1>2, DropAcked DEF ConnectFails, ConnackTimeout, ghost
<1>3. CASE ConnectSent
  <2>1. accum' \in Seq(AckedFrame(got))
    BY <1>3, EmptySeq DEF ConnectSent, AckInv
  <2>2. Ack("CONNACK", 0) \in AckedFrame(got) /\ Ack("CONNACK", 1) \in AckedFrame(got)
    <3>1. /\ "CONNACK" \in (Flags \cup {"DISCONNECT"}) \ {"PUBACK"}
          /\ 0 \in 0 .. IdMax /\ 1 \in 0 .. IdMax
      BY ConstantsAssumption DEF Flags
    <3> QED
      BY <3>1, OtherFramesAcked
  <2>3. /\ <<>> \in Seq(AckedFrame(got))
        /\ <<Ack("CONNACK", 0)>> \in Seq(AckedFrame(got))
        /\ <<Ack("CONNACK", 1)>> \in Seq(AckedFrame(got))
    BY <2>2
  <2>4. wire' \in Seq(AckedFrame(got))
    BY <1>3, <2>3 DEF ConnectSent
  <2> QED
    BY <1>3, <2>1, <2>4, AckBuffers DEF ConnectSent, ghost
<1>4. CASE ConnackSeen
  BY <1>4, AckUnchanged DEF ConnackSeen, ghost, link
<1> QED
  BY <1>1, <1>2, <1>3, <1>4 DEF ConnectStep

\* Requests: the broker has a QoS 1 publish before its PUBACK is on the wire, and
\* the publish takes only its own id for one.
LEMMA RequestAcked ==
  ASSUME TypeOK, AckInv, RequestStep
  PROVE  AckInv'
<1>1. CASE Refuse
  BY <1>1, AckUnchanged DEF Refuse, client, ghost, link
<1>2. CASE Subscribe \/ Unsubscribe \/ Ping \/ PublishQos0
  <2>1. /\ Ack("SUBACK", NextId) \in AckedFrame(got)
        /\ Ack("UNSUBACK", NextId) \in AckedFrame(got)
        /\ Ack("PINGRESP", 0) \in AckedFrame(got)
    <3>1. /\ {"SUBACK", "UNSUBACK", "PINGRESP"} \subseteq (Flags \cup {"DISCONNECT"}) \ {"PUBACK"}
          /\ NextId \in 0 .. IdMax /\ 0 \in 0 .. IdMax
      BY TypeFacts, ConstantsAssumption DEF Flags
    <3> QED
      BY <3>1, OtherFramesAcked
  <2>2. wire' \in Seq(AckedFrame(got))
    BY <1>2, <2>1, SendAcked DEF Subscribe, Unsubscribe, Ping, PublishQos0
  <2>3. UNCHANGED <<accum, got, lastPuback, lastPub>>
    BY <1>2 DEF Subscribe, Unsubscribe, Ping, PublishQos0, Request, SendFails, ghost
  <2> QED
    BY <2>2, <2>3, AckBuffers DEF AckInv
<1>3. CASE Suback
  BY <1>3, AckUnchanged DEF Suback, ghost, link
<1>4. CASE PublishQos1
  <2>1. UNCHANGED <<accum, lastPuback, lastPub>>
    BY <1>4 DEF PublishQos1, Request, ghost
  <2>2. got \subseteq got'
    BY <1>4 DEF PublishQos1, SendFails
  <2>3. wire' \in Seq(AckedFrame(got'))
    <3>1. wire \in Seq(AckedFrame(got')) /\ <<>> \in Seq(AckedFrame(got'))
      BY <2>2, AckedGrows, EmptySeq DEF AckInv
    <3>2. CASE SendFails
      BY <3>1, <3>2 DEF SendFails
    <3>3. CASE Reaches(<<Ack("PUBACK", NextId)>>) /\ tcp # "up"
      BY <3>1, <3>3 DEF Reaches
    <3>4. CASE /\ Reaches(<<Ack("PUBACK", NextId)>>) /\ tcp = "up"
               /\ got' = got \cup {NextId}
      <4>1. Ack("PUBACK", NextId) \in AckedFrame(got')
        <5>1. Ack("PUBACK", NextId) \in Frame
          BY TypeFacts, FrameTyped DEF Flags
        <5> QED
          BY <5>1, <3>4 DEF AckedFrame, Ack
      <4>2. wire \o <<Ack("PUBACK", NextId)>> \in Seq(AckedFrame(got'))
        BY <3>1, <4>1, FramesTyped
      <4> QED
        BY <3>4, <4>2 DEF Reaches
    <3> QED
      BY <1>4, <3>2, <3>3, <3>4 DEF PublishQos1
  <2>4. accum' \in Seq(AckedFrame(got'))
    BY <2>1, <2>2, AckedGrows DEF AckInv
  <2> QED
    BY <2>1, <2>2, <2>3, <2>4 DEF AckInv, AckedPublish
<1>5. CASE Puback
  <2>1. Top.id # 0
    <3>1. stack # <<>> /\ Top.at = "puback"
      BY <1>5 DEF Puback, At, Top
    <3> QED
      BY <3>1, TypeFacts DEF Activation
  <2>2. UNCHANGED <<wire, accum, got, lastPuback>>
    BY <1>5 DEF Puback, client, link
  <2>3. AckedFrame(got') = AckedFrame(got)
    BY <2>2 DEF AckedFrame
  <2>4. AckedPublish'
    BY <1>5, <2>1, <2>2 DEF Puback, PublishResult, AckedPublish, AckInv
  <2> QED
    BY <2>2, <2>3, <2>4 DEF AckInv
<1> QED
  BY <1>1, <1>2, <1>3, <1>4, <1>5 DEF RequestStep

\* The maintenance call moves no PUBACK itself.
LEMMA MaintainAcked ==
  ASSUME TypeOK, AckInv, MaintainStep
  PROVE  AckInv'
<1>1. CASE MaintainDrop
  BY <1>1, DropAcked DEF MaintainDrop, ghost
<1>2. CASE ~MaintainDrop
  BY <1>2, AckUnchanged DEF MaintainStep, MaintainPolled, MaintainConnected, MaintainPing,
     MaintainPinged, MaintainSubscribe, MaintainSubscribed, client, ghost, link
<1> QED
  BY <1>1, <1>2

\* The start of a call moves none either.
LEMMA ThreadsAcked ==
  ASSUME TypeOK, AckInv, Threads
  PROVE  AckInv'
<1>1. CASE ScriptDisconnect
  BY <1>1, DropAcked DEF ScriptDisconnect, ghost
<1>2. CASE ~ScriptDisconnect
  BY <1>2, AckUnchanged DEF Threads, Maintain, Report, RxPoll, ScriptCall, ScriptRead, Start,
     client, ghost, link
<1> QED
  BY <1>1, <1>2

\* A QoS 1 publish that mqtt_publish_full_topic reports as done has reached the
\* broker, however late, lost or out of order the PUBACKs are and however deep the
\* publish is nested in a message handler.
THEOREM PublishIsAcked == Spec => []AckedPublish
<1>1. Init => AckInv
  <2>1. <<>> \in Seq(AckedFrame({}))
    BY EmptySeq
  <2> QED
    BY <2>1 DEF Init, AckInv, AckedPublish
<1>2. TypeOK /\ AckInv /\ [Next]_vars => AckInv'
  <2> SUFFICES ASSUME TypeOK, AckInv, [Next]_vars
               PROVE  AckInv'
    OBVIOUS
  <2>1. CASE Environment
    BY <2>1, EnvironmentAcked
  <2>2. CASE CallStep
    BY <2>2, PollAcked, ConnectAcked, RequestAcked, MaintainAcked DEF CallStep
  <2>3. CASE Threads
    BY <2>3, ThreadsAcked
  <2>4. CASE UNCHANGED vars
    BY <2>4, AckUnchanged DEF vars, client, link, ghost
  <2> QED
    BY <2>1, <2>2, <2>3, <2>4 DEF Next
<1>3. AckInv => AckedPublish
  BY DEF AckInv
<1> QED
  BY <1>1, <1>2, <1>3, TypeCorrect, PTL DEF Spec

-----------------------------------------------------------------------------
(* The order of the call stack                                             *)

\* The activations of mqtt_client_maintain_locked, and of what has no caller but it.
MaintainLabels == {"mt_polled", "mt_connected", "mt_ping", "mt_pinged", "mt_sub", "mt_subbed"}
Outer == MaintainLabels \cup {"connect", "connack"}

\* A poll with frames to look at.
Handling == {"frames", "responded", "handled"}

AwaitsConnack(a) == a.at \in {"wait", "check"} /\ a.flag = "CONNACK"

\* No session is opened inside anything but a maintain; a connect waits for its own
\* CONNACK; frames are left only to a poll in progress.
StackInv ==
  /\ \A i, j \in 1 .. Len(stack) : i < j /\ stack[i].at \in Outer => stack[j].at \in MaintainLabels
  /\ \A i \in 2 .. Len(stack) : stack[i].at = "connack" => AwaitsConnack(stack[i - 1])
  /\ accum # <<>> => \E i \in 1 .. Len(stack) : stack[i].at \in Handling

\* The parts of a concatenation.
LEMMA ConcatIs ==
  ASSUME NEW S, NEW s \in Seq(S), NEW r \in Seq(S)
  PROVE  /\ s \o r \in Seq(S) /\ Len(s \o r) = Len(s) + Len(r) /\ Len(s) \in Nat /\ Len(r) \in Nat
         /\ \A i \in 1 .. Len(s) : (s \o r)[i] = s[i]
         /\ \A i \in 1 .. Len(r) : (s \o r)[Len(s) + i] = r[i]
<1>1. /\ s \o r \in Seq(S) /\ Len(s \o r) = Len(s) + Len(r) /\ Len(s) \in Nat /\ Len(r) \in Nat
      /\ \A i \in 1 .. Len(s) + Len(r) : (s \o r)[i] = IF i <= Len(s) THEN s[i] ELSE r[i - Len(s)]
  BY ConcatProperties, LenProperties
<1> QED BY <1>1

\* The innermost activation is another one,
LEMMA ReplaceIs ==
  ASSUME TypeOK, stack # <<>>, NEW a, NEW s, s = <<a>> \o Tail(stack)
  PROVE  /\ Len(s) = Len(stack) /\ Len(stack) \in Nat \ {0}
         /\ s[1] = a /\ \A i \in 2 .. Len(stack) : s[i] = stack[i]
<1> DEFINE S == Activation \cup {a}
           r == Tail(stack)
           b == <<a>>
<1>1. stack \in Seq(Activation) /\ Len(stack) \in Nat \ {0}
  <2>1. stack \in Seq(Activation) BY DEF TypeOK
  <2>2. Len(stack) \in Nat /\ Len(stack) # 0 BY <2>1, LenProperties, EmptySeq
  <2> QED BY <2>1, <2>2
<1>2. /\ r \in Seq(Activation) /\ Len(r) = Len(stack) - 1
      /\ \A i \in 1 .. Len(stack) - 1 : r[i] = stack[i + 1]
  BY <1>1, HeadTailProperties
<1>3. r \in Seq(S) BY <1>2, SeqMonotonic
<1>4. b \in Seq(S) /\ Len(b) = 1 /\ b[1] = a OBVIOUS
<1> HIDE DEF S, r, b
<1>5. /\ Len(b \o r) = 1 + Len(r) /\ \A i \in 1 .. 1 : (b \o r)[i] = b[i]
      /\ \A i \in 1 .. Len(r) : (b \o r)[1 + i] = r[i]
  <2>1. b \in Seq(S) /\ r \in Seq(S) BY <1>3, <1>4
  <2>2. /\ Len(b \o r) = Len(b) + Len(r) /\ \A i \in 1 .. Len(b) : (b \o r)[i] = b[i]
        /\ \A i \in 1 .. Len(r) : (b \o r)[Len(b) + i] = r[i]
    BY <2>1, ConcatIs
  <2> QED BY <1>4, <2>2
<1>6. s = b \o r BY DEF b, r
<1>7. ASSUME NEW i \in 2 .. Len(stack) PROVE s[i] = stack[i]
  <2>1. i - 1 \in 1 .. Len(r) /\ 1 + (i - 1) = i /\ (i - 1) + 1 = i /\ i - 1 \in 1 .. Len(stack) - 1
    BY <1>1, <1>2
  <2>2. (b \o r)[1 + (i - 1)] = r[i - 1] /\ r[i - 1] = stack[(i - 1) + 1] BY <1>2, <1>5, <2>1
  <2> QED BY <1>6, <2>1, <2>2
<1>8. Len(s) = Len(stack) BY <1>1, <1>2, <1>5, <1>6
<1>9. s[1] = a
  <2>1. 1 \in 1 .. 1 OBVIOUS
  <2> QED BY <1>4, <1>5, <1>6, <2>1
<1> QED BY <1>1, <1>7, <1>8, <1>9

\* or calls one,
LEMMA PushIs ==
  ASSUME TypeOK, stack # <<>>, NEW a, NEW b, NEW s, s = <<b, a>> \o Tail(stack)
  PROVE  /\ Len(s) = Len(stack) + 1 /\ Len(stack) \in Nat \ {0}
         /\ s[1] = b /\ s[2] = a /\ \A i \in 3 .. Len(stack) + 1 : s[i] = stack[i - 1]
<1> DEFINE S == Activation \cup {a, b}
           r == Tail(stack)
           c == <<b, a>>
<1>1. stack \in Seq(Activation) /\ Len(stack) \in Nat \ {0}
  <2>1. stack \in Seq(Activation) BY DEF TypeOK
  <2>2. Len(stack) \in Nat /\ Len(stack) # 0 BY <2>1, LenProperties, EmptySeq
  <2> QED BY <2>1, <2>2
<1>2. /\ r \in Seq(Activation) /\ Len(r) = Len(stack) - 1
      /\ \A i \in 1 .. Len(stack) - 1 : r[i] = stack[i + 1]
  BY <1>1, HeadTailProperties
<1>3. r \in Seq(S) BY <1>2, SeqMonotonic
<1>4. c \in Seq(S) /\ Len(c) = 2 /\ c[1] = b /\ c[2] = a OBVIOUS
<1> HIDE DEF S, r, c
<1>5. /\ Len(c \o r) = 2 + Len(r) /\ \A i \in 1 .. 2 : (c \o r)[i] = c[i]
      /\ \A i \in 1 .. Len(r) : (c \o r)[2 + i] = r[i]
  <2>1. c \in Seq(S) /\ r \in Seq(S) BY <1>3, <1>4
  <2>2. /\ Len(c \o r) = Len(c) + Len(r) /\ \A i \in 1 .. Len(c) : (c \o r)[i] = c[i]
        /\ \A i \in 1 .. Len(r) : (c \o r)[Len(c) + i] = r[i]
    BY <2>1, ConcatIs
  <2> QED BY <1>4, <2>2
<1>6. s = c \o r BY DEF c, r
<1>7. ASSUME NEW i \in 3 .. Len(stack) + 1 PROVE s[i] = stack[i - 1]
  <2>1. i - 2 \in 1 .. Len(r) /\ 2 + (i - 2) = i /\ (i - 2) + 1 = i - 1 /\ i - 2 \in 1 .. Len(stack) - 1
    BY <1>1, <1>2
  <2>2. (c \o r)[2 + (i - 2)] = r[i - 2] /\ r[i - 2] = stack[(i - 2) + 1] BY <1>2, <1>5, <2>1
  <2> QED BY <1>6, <2>1, <2>2
<1>8. Len(s) = Len(stack) + 1 BY <1>1, <1>2, <1>5, <1>6
<1>9. s[1] = b /\ s[2] = a
  <2>1. 1 \in 1 .. 2 /\ 2 \in 1 .. 2 OBVIOUS
  <2> QED BY <1>4, <1>5, <1>6, <2>1
<1> QED BY <1>1, <1>7, <1>8, <1>9

\* or returns.
LEMMA PopIs ==
  ASSUME TypeOK, stack # <<>>, NEW s, s = Tail(stack)
  PROVE  /\ Len(s) = Len(stack) - 1 /\ Len(stack) \in Nat \ {0}
         /\ \A i \in 1 .. Len(stack) - 1 : s[i] = stack[i + 1]
         /\ Top = stack[1]
<1>1. stack \in Seq(Activation) BY DEF TypeOK
<1>2. Len(stack) \in Nat /\ Len(stack) # 0 BY <1>1, LenProperties, EmptySeq
<1> QED BY <1>1, <1>2, HeadTailProperties DEF Top

\* The running activation may be replaced by one that keeps its place in the order.
LEMMA ReplaceInOrder ==
  ASSUME TypeOK, StackInv, stack # <<>>, NEW a, stack' = <<a>> \o Tail(stack),
         a.at \in Outer => Top.at \in Outer,
         AwaitsConnack(Top) => AwaitsConnack(a),
         accum' # <<>> => a.at \in Handling \/ (accum # <<>> /\ Top.at \notin Handling)
  PROVE  StackInv'
<1> DEFINE n == Len(stack)
<1>1. /\ Len(stack') = n /\ n \in Nat \ {0} /\ stack'[1] = a
      /\ \A i \in 2 .. n : stack'[i] = stack[i]
  BY ReplaceIs
<1>2. Top = stack[1] BY PopIs
<1>3. ASSUME NEW i \in 1 .. n, NEW j \in 1 .. n, i < j, stack'[i].at \in Outer
      PROVE  stack'[j].at \in MaintainLabels
  <2>1. j \in 2 .. n /\ 1 \in 1 .. n /\ 1 < j BY <1>1, <1>3
  <2>2. CASE i = 1 BY <1>1, <1>2, <1>3, <2>1, <2>2 DEF StackInv
  <2>3. CASE i # 1
    <3>1. i \in 2 .. n BY <1>3, <2>3
    <3> QED BY <1>1, <1>3, <2>1, <3>1 DEF StackInv
  <2> QED BY <2>2, <2>3
<1>4. ASSUME NEW i \in 2 .. n, stack'[i].at = "connack" PROVE AwaitsConnack(stack'[i - 1])
  <2>1. AwaitsConnack(stack[i - 1]) BY <1>1, <1>4 DEF StackInv
  <2>2. CASE i = 2 BY <1>1, <1>2, <2>1, <2>2
  <2>3. CASE i # 2
    <3>1. i - 1 \in 2 .. n BY <1>1, <1>4, <2>3
    <3> QED BY <1>1, <2>1, <3>1
  <2> QED BY <2>2, <2>3
<1>5. ASSUME accum' # <<>> PROVE \E i \in 1 .. n : stack'[i].at \in Handling
  <2>1. 1 \in 1 .. n BY <1>1
  <2>2. CASE a.at \in Handling BY <1>1, <2>1, <2>2
  <2>3. CASE accum # <<>> /\ Top.at \notin Handling
    <3>1. PICK i \in 1 .. n : stack[i].at \in Handling BY <2>3 DEF StackInv
    <3>2. i \in 2 .. n BY <1>2, <2>3, <3>1
    <3> QED BY <1>1, <3>1, <3>2
  <2> QED BY <1>5, <2>2, <2>3
<1> QED BY <1>1, <1>3, <1>4, <1>5 DEF StackInv

\* So may a call be pushed above the place where its caller goes on.
LEMMA PushInOrder ==
  ASSUME TypeOK, StackInv, stack # <<>>, NEW a, NEW b, stack' = <<b, a>> \o Tail(stack),
         a.at \in Outer => Top.at \in Outer,
         AwaitsConnack(Top) => AwaitsConnack(a),
         b.at \in Outer => a.at \in MaintainLabels,
         a.at = "connack" => AwaitsConnack(b),
         accum' # <<>> => a.at \in Handling \/ (accum # <<>> /\ Top.at \notin Handling)
  PROVE  StackInv'
<1> DEFINE n == Len(stack)
<1>1. /\ Len(stack') = n + 1 /\ n \in Nat \ {0} /\ stack'[1] = b /\ stack'[2] = a
      /\ \A i \in 3 .. n + 1 : stack'[i] = stack[i - 1]
  BY PushIs
<1>2. Top = stack[1] BY PopIs
<1>3. ASSUME NEW i \in 1 .. n + 1, NEW j \in 1 .. n + 1, i < j, stack'[i].at \in Outer
      PROVE  stack'[j].at \in MaintainLabels
  <2>1. CASE i = 1 /\ j = 2 BY <1>1, <1>3, <2>1
  <2>2. CASE i \in {1, 2} /\ j # 2
    <3>1. j \in 3 .. n + 1 /\ j - 1 \in 1 .. n /\ 1 \in 1 .. n /\ 1 < j - 1 BY <1>1, <1>3, <2>2
    <3>2. a.at \in Outer BY <1>1, <1>3, <2>2 DEF Outer
    <3> QED BY <1>1, <1>2, <3>1, <3>2 DEF StackInv
  <2>3. CASE i >= 3
    <3>1. i \in 3 .. n + 1 /\ j \in 3 .. n + 1 /\ i - 1 \in 1 .. n /\ j - 1 \in 1 .. n /\ i - 1 < j - 1
      BY <1>1, <1>3, <2>3
    <3>2. stack[i - 1].at \in Outer /\ stack'[j] = stack[j - 1] BY <1>1, <1>3, <3>1
    <3>3. stack[j - 1].at \in MaintainLabels BY <3>1, <3>2 DEF StackInv
    <3> QED BY <3>2, <3>3
  <2> QED BY <1>3, <2>1, <2>2, <2>3
<1>4. ASSUME NEW i \in 2 .. n + 1, stack'[i].at = "connack" PROVE AwaitsConnack(stack'[i - 1])
  <2>1. CASE i = 2 BY <1>1, <1>4, <2>1
  <2>2. CASE i # 2
    <3>1. i \in 3 .. n + 1 /\ i - 1 \in 2 .. n /\ i - 1 \in 2 .. n + 1 BY <1>1, <1>4, <2>2
    <3>2. AwaitsConnack(stack[(i - 1) - 1]) BY <1>1, <1>4, <3>1 DEF StackInv
    <3>3. CASE i = 3 BY <1>1, <1>2, <3>2, <3>3
    <3>4. CASE i # 3
      <4>1. i - 1 \in 3 .. n + 1 BY <3>1, <3>4
      <4> QED BY <1>1, <3>2, <4>1
    <3> QED BY <3>3, <3>4
  <2> QED BY <2>1, <2>2
<1>5. ASSUME accum' # <<>> PROVE \E i \in 1 .. n + 1 : stack'[i].at \in Handling
  <2>1. 2 \in 1 .. n + 1 BY <1>1
  <2>2. CASE a.at \in Handling BY <1>1, <2>1, <2>2
  <2>3. CASE accum # <<>> /\ Top.at \notin Handling
    <3>1. PICK i \in 1 .. n : stack[i].at \in Handling BY <2>3 DEF StackInv
    <3>2. i # 1 BY <1>2, <2>3, <3>1
    <3>3. i + 1 \in 3 .. n + 1 /\ (i + 1) - 1 = i /\ i + 1 \in 1 .. n + 1 BY <1>1, <3>1, <3>2
    <3> QED BY <1>1, <3>1, <3>3
  <2> QED BY <1>5, <2>2, <2>3
<1> QED BY <1>1, <1>3, <1>4, <1>5 DEF StackInv

\* What is left below a return is still in order.
LEMMA PopInOrder ==
  ASSUME TypeOK, StackInv, stack # <<>>, stack' = Tail(stack),
         accum' # <<>> => accum # <<>> /\ Top.at \notin Handling
  PROVE  StackInv'
<1> DEFINE n == Len(stack)
<1>1. /\ Len(stack') = n - 1 /\ n \in Nat \ {0} /\ Top = stack[1]
      /\ \A i \in 1 .. n - 1 : stack'[i] = stack[i + 1]
  BY PopIs
<1>2. ASSUME NEW i \in 1 .. n - 1, NEW j \in 1 .. n - 1, i < j, stack'[i].at \in Outer
      PROVE  stack'[j].at \in MaintainLabels
  <2>1. i + 1 \in 1 .. n /\ j + 1 \in 1 .. n /\ i + 1 < j + 1 BY <1>1, <1>2
  <2> QED BY <1>1, <1>2, <2>1 DEF StackInv
<1>3. ASSUME NEW i \in 2 .. n - 1, stack'[i].at = "connack" PROVE AwaitsConnack(stack'[i - 1])
  <2>1. i \in 1 .. n - 1 /\ i - 1 \in 1 .. n - 1 /\ i + 1 \in 2 .. n /\ (i + 1) - 1 = (i - 1) + 1
    BY <1>1, <1>3
  <2> QED BY <1>1, <1>3, <2>1 DEF StackInv
<1>4. ASSUME accum' # <<>> PROVE \E i \in 1 .. n - 1 : stack'[i].at \in Handling
  <2>1. PICK i \in 1 .. n : stack[i].at \in Handling BY <1>4 DEF StackInv
  <2>2. i # 1 BY <1>1, <1>4, <2>1
  <2>3. i - 1 \in 1 .. n - 1 /\ (i - 1) + 1 = i BY <1>1, <2>1, <2>2
  <2> QED BY <1>1, <2>1, <2>3
<1> QED BY <1>1, <1>2, <1>3, <1>4 DEF StackInv

\* Steps that leave the stack alone, and calls that start.
LEMMA SameInOrder ==
  ASSUME StackInv, stack' = stack, accum' # <<>> => accum # <<>>
  PROVE  StackInv'
BY DEF StackInv

\* A call of a thread starts a stack of one activation.
LEMMA StartInOrder ==
  ASSUME StackInv, stack = <<>>, accum' = accum, NEW a,
         stack' = <<a>> \/ (stack' = <<a, Enter("mt_polled")>> /\ a.at \notin Outer)
  PROVE  StackInv'
<1>1. accum' = <<>> BY DEF StackInv
<1>2. CASE stack' = <<a>>
  <2>1. Len(stack') = 1 BY <1>2
  <2> QED BY <1>1, <2>1 DEF StackInv
<1>3. CASE stack' = <<a, Enter("mt_polled")>> /\ a.at \notin Outer
  <2>1. Len(stack') = 2 /\ stack'[1].at \notin Outer /\ stack'[2].at = "mt_polled"
    BY <1>3 DEF Enter
  <2>2. "mt_polled" \in MaintainLabels /\ "mt_polled" # "connack" BY DEF MaintainLabels
  <2>3. \A i, j \in 1 .. 2 : i < j => i = 1 /\ j = 2 OBVIOUS
  <2> QED BY <1>1, <2>1, <2>2, <2>3 DEF StackInv
<1> QED BY <1>2, <1>3

\* What the helpers do.
LEMMA GotoIs ==
  ASSUME TypeOK, stack # <<>>, NEW l, Goto(l)
  PROVE  \E a : stack' = <<a>> \o Tail(stack) /\ a.at = l /\ a.flag = Top.flag /\ a.todo = Top.todo
                /\ a.msg = Top.msg /\ a.qos = Top.qos
<1> DEFINE a == [Top EXCEPT !.at = l]
<1>1. a.at = l /\ a.flag = Top.flag /\ a.todo = Top.todo /\ a.msg = Top.msg /\ a.qos = Top.qos
  BY TypeFacts DEF Activation
<1>2. stack' = <<a>> \o Tail(stack) BY DEF Goto
<1> QED BY <1>1, <1>2

\* A call leaves its caller at a label of its own, with the rest of its data.
LEMMA CallIs ==
  ASSUME TypeOK, stack # <<>>, NEW l, NEW id, NEW r, CallFor(l, id, r)
  PROVE  \E a : stack' = <<r, a>> \o Tail(stack) /\ a.at = l /\ a.flag = Top.flag /\ a.todo = Top.todo
                /\ a.msg = Top.msg /\ a.qos = Top.qos
<1> DEFINE a == [Top EXCEPT !.at = l, !.id = id]
<1>1. a.at = l /\ a.flag = Top.flag /\ a.todo = Top.todo /\ a.msg = Top.msg /\ a.qos = Top.qos
  BY TypeFacts DEF Activation
<1>2. stack' = <<r, a>> \o Tail(stack) BY DEF CallFor
<1> QED BY <1>1, <1>2

\* A step on inside an activation keeps the stack in order.
LEMMA GotoInOrder ==
  ASSUME TypeOK, StackInv, stack # <<>>, NEW l, Goto(l),
         l \in Outer => Top.at \in Outer, Top.at \notin {"wait", "check"},
         accum' # <<>> => l \in Handling \/ (accum # <<>> /\ Top.at \notin Handling)
  PROVE  StackInv'
<1>1. PICK a : stack' = <<a>> \o Tail(stack) /\ a.at = l BY GotoIs
<1> QED BY <1>1, ReplaceInOrder DEF AwaitsConnack

\* So does a call.
LEMMA CallInOrder ==
  ASSUME TypeOK, StackInv, stack # <<>>, NEW l, NEW id, NEW r, CallFor(l, id, r),
         l \in Outer => Top.at \in Outer, Top.at \in {"wait", "check"} => l \in {"wait", "check"},
         r.at \in Outer => l \in MaintainLabels, l = "connack" => AwaitsConnack(r),
         accum' # <<>> => l \in Handling \/ (accum # <<>> /\ Top.at \notin Handling)
  PROVE  StackInv'
<1>1. PICK a : stack' = <<r, a>> \o Tail(stack) /\ a.at = l /\ a.flag = Top.flag BY CallIs
<1> QED BY <1>1, PushInOrder DEF AwaitsConnack

\* What the calls look like.
LEMMA CallsAre ==
  /\ \A l : Enter(l).at = l
  /\ \A f : WaitFor(f).at = "wait" /\ WaitFor(f).flag = f
  /\ \A q : PublishCall(q).at = "publish" /\ PublishCall(q).qos = q
  /\ \A t : SubscribeCall(t).at = "sub" /\ SubscribeCall(t).todo = t
BY DEF Enter, WaitFor, PublishCall, SubscribeCall

\* The labels of the outer functions, of a poll and of the handling of frames are apart.
LEMMA LabelsApart ==
  /\ {"poll", "frames", "polled", "responded", "handled", "wait", "check", "sub", "suback", "unsub",
      "ping", "publish", "puback"} \cap Outer = {}
  /\ {"poll", "polled", "wait", "check", "sub", "suback", "unsub", "ping", "publish", "puback"}
       \cap Handling = {}
  /\ Outer \cap Handling = {} /\ Outer \cap {"wait", "check"} = {}
  /\ MaintainLabels \subseteq Outer /\ Handling \cap {"wait", "check"} = {}
  /\ "connack" \notin MaintainLabels /\ "connect" \notin MaintainLabels
BY DEF Outer, MaintainLabels, Handling

\* A return from anything but a poll that has frames.
LEMMA ReturnInOrder ==
  ASSUME TypeOK, StackInv, stack # <<>>, NEW b, Return(b), Top.at \notin Handling,
         accum' = accum \/ accum' = <<>>
  PROVE  StackInv'
<1>1. stack' = Tail(stack) /\ (accum' # <<>> => accum # <<>>) BY DEF Return
<1> QED BY <1>1, PopInOrder

\* A poll, and the wait around it.
LEMMA PollInOrder ==
  ASSUME TypeOK, StackInv, PollStep
  PROVE  StackInv'
<1>0. stack # <<>> /\ Top = Head(stack)
  BY DEF PollStep, Recv, HandleAck, HandleDisconnect, HandlePublish, Responded, HandlerDone, PollEnd,
         Wait, Check, At, Top
<1>1. CASE Recv
  <2>1. PICK n \in 0 .. Len(wire) : Recv!2!(n) BY <1>1 DEF Recv
  <2>2. Top.at = "poll" BY <1>0, <1>1 DEF Recv, At
  <2>3. CASE n > 0
    <3>1. Goto("frames") BY <2>1, <2>3
    <3>2. "frames" \in Handling BY DEF Handling
    <3> QED BY <1>0, <2>2, <3>1, <3>2, GotoInOrder, LabelsApart
  <2>4. CASE n = 0
    <3>1. Goto("polled") /\ accum' = accum \o SubSeq(wire, 1, 0) BY <2>1, <2>4
    <3>2. SubSeq(wire, 1, 0) = <<>> /\ accum \in Seq(Frame) BY DEF TypeOK
    <3>3. accum' = accum BY <3>1, <3>2, ConcatEmptySeq
    <3> QED BY <1>0, <2>2, <3>1, <3>3, GotoInOrder, LabelsApart
  <2> QED BY <2>1, <2>3, <2>4
<1>2. CASE HandleAck \/ HandleDisconnect
  BY <1>2, SameInOrder DEF HandleAck, HandleDisconnect, control
<1>3. CASE HandlePublish
  <2> DEFINE m == Head(accum).msg
             a == [Top EXCEPT !.at = IF m \in Commands THEN "responded" ELSE "handled", !.msg = m]
             p == PublishCall(PubQos)
  <2>1. Top \in Activation /\ Top.at = "frames" BY <1>0, <1>3, TypeFacts DEF HandlePublish, At
  <2>2. a.at \in Handling BY <2>1 DEF Activation, Handling
  <2>3. \/ stack' = <<p, a>> \o Tail(stack)
        \/ stack' = <<a>> \o Tail(stack)
    BY <1>3 DEF HandlePublish
  <2>4. p.at = "publish" BY CallsAre
  <2>5. /\ a.at \notin Outer /\ p.at \notin Outer /\ a.at # "connack" /\ ~AwaitsConnack(Top)
    BY <2>1, <2>2, <2>4, LabelsApart DEF AwaitsConnack, Outer
  <2> HIDE DEF a, p
  <2> QED BY <1>0, <2>2, <2>3, <2>5, ReplaceInOrder, PushInOrder
<1>4. CASE Responded
  <2>1. Top.at = "responded" /\ accum' = accum BY <1>0, <1>4 DEF Responded, At, client
  <2>2. Goto("handled") \/ CallFor("handled", Top.id, PublishCall(PubQos)) BY <1>4 DEF Responded, Call
  <2>3. "handled" \in Handling /\ PublishCall(PubQos).at = "publish" BY CallsAre DEF Handling
  <2> QED BY <1>0, <2>1, <2>2, <2>3, GotoInOrder, CallInOrder, LabelsApart
<1>5. CASE HandlerDone
  <2>1. Top.at = "handled" /\ Goto("frames") BY <1>0, <1>5 DEF HandlerDone, At
  <2>2. "frames" \in Handling BY DEF Handling
  <2> QED BY <1>0, <2>1, <2>2, GotoInOrder, LabelsApart
<1>6. CASE PollEnd
  <2>1. stack' = Tail(stack) /\ (accum' = accum \/ accum' = <<>>) BY <1>6 DEF PollEnd, Return
  <2>2. Top.at = "polled" \/ accum = <<>> BY <1>0, <1>6 DEF PollEnd, At
  <2>3. accum' # <<>> => accum # <<>> /\ Top.at \notin Handling BY <2>1, <2>2, LabelsApart
  <2> QED BY <1>0, <2>1, <2>3, PopInOrder
<1>7. CASE Wait
  <2>1. /\ Top.at = "wait" /\ CallFor("check", Top.id, Enter("poll")) /\ accum' = accum
    BY <1>0, <1>7 DEF Wait, At, Call, client
  <2>2. Enter("poll").at = "poll" BY CallsAre
  <2> QED BY <1>0, <2>1, <2>2, CallInOrder, LabelsApart
<1>8. CASE Check
  <2>1. Top.at = "check" /\ accum' = accum BY <1>0, <1>8 DEF Check, At, client
  <2>2. CASE Return(TRUE) \/ Return(FALSE) BY <1>0, <2>1, <2>2, ReturnInOrder, LabelsApart
  <2>3. CASE stack' = <<[Top EXCEPT !.at = "wait", !.left = Top.left - 1]>> \o Tail(stack)
    <3> DEFINE a == [Top EXCEPT !.at = "wait", !.left = Top.left - 1]
    <3>1. a.at = "wait" /\ a.flag = Top.flag BY <1>0, TypeFacts DEF Activation
    <3>2. stack' = <<a>> \o Tail(stack) BY <2>3
    <3> HIDE DEF a
    <3> QED BY <1>0, <2>1, <3>1, <3>2, ReplaceInOrder, LabelsApart DEF AwaitsConnack
  <2> QED BY <1>8, <2>2, <2>3 DEF Check
<1> QED BY <1>1, <1>2, <1>3, <1>4, <1>5, <1>6, <1>7, <1>8 DEF PollStep

\* Requests, and the maintain that makes them.
LEMMA OthersInOrder ==
  ASSUME TypeOK, StackInv, ConnectStep \/ RequestStep \/ MaintainStep
  PROVE  StackInv'
<1>0. stack # <<>> /\ Top = Head(stack) /\ Top.at \notin Handling /\ Top.at \notin {"wait", "check"}
  BY LabelsApart
     DEF ConnectStep, KeepSession, ConnectFails, ConnectSent, ConnackSeen, ConnackTimeout, RequestStep,
         Refuse, Subscribe, Suback, Unsubscribe, Ping, PublishQos0, PublishQos1, Puback, MaintainStep,
         MaintainPolled, MaintainConnected, MaintainPing, MaintainPinged, MaintainSubscribe,
         MaintainSubscribed, MaintainDrop, At, Top, Handling
<1>1. accum' = accum \/ accum' = <<>>
  BY DEF ConnectStep, KeepSession, ConnectFails, ConnectSent, ConnackSeen, ConnackTimeout, RequestStep,
         Refuse, Subscribe, Suback, Unsubscribe, Ping, PublishQos0, PublishQos1, Puback, MaintainStep,
         MaintainPolled, MaintainConnected, MaintainPing, MaintainPinged, MaintainSubscribe,
         MaintainSubscribed, MaintainDrop, Drop, Request, client
<1>2. ASSUME NEW b, Return(b) PROVE StackInv' BY <1>0, <1>1, <1>2, ReturnInOrder
<1>3. ASSUME NEW l, NEW id, NEW r, CallFor(l, id, r), l \in Outer => Top.at \in Outer,
             r.at \in Outer => l \in MaintainLabels, l = "connack" => AwaitsConnack(r)
      PROVE  StackInv'
  BY <1>0, <1>1, <1>3, CallInOrder
<1>4. ASSUME NEW l, Goto(l), Top.at \in Outer PROVE StackInv'
  BY <1>0, <1>1, <1>4, GotoInOrder
<1>5. ASSUME NEW a, stack' = <<a>> \o Tail(stack), a.at \in {"sub", "wait"} PROVE StackInv'
  <2>1. ~AwaitsConnack(Top) BY <1>0 DEF AwaitsConnack
  <2> QED BY <1>0, <1>1, <1>5, <2>1, ReplaceInOrder, LabelsApart
<1>6. CASE ConnectStep
  <2>1. CASE ConnectSent
    <3>1. Top.at = "connect" /\ CallFor("connack", Top.id, WaitFor("CONNACK"))
      BY <1>0, <2>1 DEF ConnectSent, At, Call
    <3>2. WaitFor("CONNACK").at = "wait" /\ AwaitsConnack(WaitFor("CONNACK"))
      BY CallsAre DEF AwaitsConnack
    <3> QED BY <1>3, <3>1, <3>2, LabelsApart DEF Outer
  <2> QED BY <1>2, <1>6, <2>1 DEF ConnectStep, KeepSession, ConnectFails, ConnackSeen, ConnackTimeout
<1>7. CASE RequestStep
  <2>1. CASE Subscribe \/ PublishQos1
    <3>1. \/ CallFor("suback", NextId, WaitFor("SUBACK")) \/ CallFor("puback", NextId, WaitFor("PUBACK"))
          \/ Return(FALSE)
      BY <2>1 DEF Subscribe, PublishQos1
    <3>2. \A f : WaitFor(f).at = "wait" BY CallsAre
    <3> QED BY <1>2, <1>3, <3>1, <3>2, LabelsApart
  <2>2. CASE Suback \/ Unsubscribe \/ Ping
    <3>1. \/ Return(FALSE) \/ Return(TRUE)
          \/ stack' = <<SubscribeCall(Tail(Top.todo))>> \o Tail(stack)
          \/ stack' = <<WaitFor("UNSUBACK")>> \o Tail(stack)
          \/ stack' = <<WaitFor("PINGRESP")>> \o Tail(stack)
      BY <2>2 DEF Suback, Unsubscribe, Ping
    <3> QED BY <1>2, <1>5, <3>1, CallsAre
  <2> QED BY <1>2, <1>7, <2>1, <2>2 DEF RequestStep, Refuse, PublishQos0, Puback
<1>8. CASE MaintainStep
  <2>1. Top.at \in Outer
    BY <1>0, <1>8 DEF MaintainStep, MaintainPolled, MaintainConnected, MaintainPing, MaintainPinged,
                      MaintainSubscribe, MaintainSubscribed, MaintainDrop, At, Outer, MaintainLabels
  <2>2. \/ \E b : Return(b)
        \/ \E l : Goto(l)
        \/ \E l \in MaintainLabels : \E r : CallFor(l, Top.id, r)
    <3>1. "mt_connected" \in MaintainLabels /\ "mt_pinged" \in MaintainLabels
          /\ "mt_subbed" \in MaintainLabels
      BY DEF MaintainLabels
    <3> QED BY <1>8, <3>1 DEF MaintainStep, MaintainPolled, MaintainConnected, MaintainPing,
                      MaintainPinged, MaintainSubscribe, MaintainSubscribed, MaintainDrop, Call
  <2> QED BY <1>2, <1>3, <1>4, <2>1, <2>2, LabelsApart
<1> QED BY <1>6, <1>7, <1>8

\* The threads start calls only when none is in progress.
LEMMA ThreadsInOrder ==
  ASSUME TypeOK, StackInv, Threads \/ Environment
  PROVE  StackInv'
<1>1. CASE Environment \/ ScriptRead
  BY <1>1, SameInOrder DEF Environment, BrokerPublish, BrokerDisconnect, LinkLost, Stabilise, PingClock,
                           RetryClock, ScriptRead, client, control
<1>2. CASE ScriptDisconnect
  <2>1. accum' = <<>> /\ stack' = stack BY <1>2 DEF ScriptDisconnect, Drop, control
  <2> QED BY <2>1, SameInOrder
<1>3. CASE Maintain \/ Report \/ RxPoll \/ ScriptCall
  <2>1. stack = <<>> /\ accum' = accum
    BY <1>3 DEF Maintain, Report, RxPoll, ScriptCall, Start, Idle, client
  <2>2. \E a : stack' = <<a>> \/ (stack' = <<a, Enter("mt_polled")>> /\ a.at \notin Outer)
    <3>1. Enter("poll").at \notin Outer BY CallsAre, LabelsApart
    <3> QED BY <1>3, <3>1 DEF Maintain, Report, RxPoll, ScriptCall, Start
  <2> QED BY <2>1, <2>2, StartInOrder
<1> QED BY <1>1, <1>2, <1>3 DEF Threads

\* What the three theorems below rest on.
LEMMA AlwaysInOrder == Spec => []StackInv
<1>1. Init => StackInv BY DEF Init, StackInv
<1>2. TypeOK /\ StackInv /\ [Next]_vars => StackInv'
  <2> SUFFICES ASSUME TypeOK, StackInv, [Next]_vars PROVE StackInv' OBVIOUS
  <2>1. CASE UNCHANGED vars BY <2>1, SameInOrder DEF vars, client, control
  <2> QED BY <2>1, PollInOrder, OthersInOrder, ThreadsInOrder DEF Next, CallStep
<1> QED BY <1>1, <1>2, TypeCorrect, PTL DEF Spec

-----------------------------------------------------------------------------
(* SessionHasConnack                                                       *)

Accepts(f) == f.type = "CONNACK" /\ f.id = 0
NoAccept(s) == \A i \in 1 .. Len(s) : ~Accepts(s[i])

\* No subscription is under way, and no connect is about to succeed.
Quiet ==
  /\ \A i \in 1 .. Len(stack) : stack[i].at # "suback"
  /\ stack # <<>> /\ Top.at = "connack" => ~ret

\* On a connection of which the broker has accepted no CONNECT there is nothing that
\* could open a session.
Unopened ==
  /\ NoAccept(wire) /\ NoAccept(accum) /\ "CONNACK" \notin flags
  /\ ~InSession /\ Quiet

SessionInv == accepted \/ Unopened

\* The parts of a buffer that is cut, or extended by one frame.
LEMMA CutIs ==
  ASSUME NEW F, NEW s \in Seq(F)
  PROVE  /\ Len(s) \in Nat
         /\ s # <<>> => /\ Len(s) >= 1 /\ Head(s) = s[1] /\ Len(Tail(s)) = Len(s) - 1
                        /\ \A i \in 1 .. Len(Tail(s)) : i + 1 \in 1 .. Len(s) /\ Tail(s)[i] = s[i + 1]
         /\ \A f \in F : /\ Len(s \o <<f>>) = Len(s) + 1 /\ Append(s, f) = s \o <<f>>
                         /\ (s \o <<f>>)[Len(s) + 1] = f
                         /\ \A i \in 1 .. Len(s) : (s \o <<f>>)[i] = s[i]
         /\ s \o <<>> = s
         /\ \A n \in 0 .. Len(s) :
              /\ Len(SubSeq(s, 1, n)) = n /\ \A i \in 1 .. n : SubSeq(s, 1, n)[i] = s[i]
              /\ Len(SubSeq(s, n + 1, Len(s))) = Len(s) - n
              /\ \A i \in 1 .. Len(s) - n : SubSeq(s, n + 1, Len(s))[i] = s[n + i]
<1>1. Len(s) \in Nat BY LenProperties
<1>2. s # <<>> => /\ Len(s) >= 1 /\ Head(s) = s[1] /\ Len(Tail(s)) = Len(s) - 1
                  /\ \A i \in 1 .. Len(Tail(s)) : i + 1 \in 1 .. Len(s) /\ Tail(s)[i] = s[i + 1]
  <2>1. Len(s) = 0 => s = <<>> BY EmptySeq
  <2> QED BY <1>1, <2>1, HeadTailProperties
<1>3. ASSUME NEW f \in F
      PROVE  /\ Len(s \o <<f>>) = Len(s) + 1 /\ Append(s, f) = s \o <<f>>
             /\ (s \o <<f>>)[Len(s) + 1] = f
             /\ \A i \in 1 .. Len(s) : (s \o <<f>>)[i] = s[i]
  <2> DEFINE r == <<f>>
  <2>1. r \in Seq(F) /\ Len(r) = 1 /\ r[1] = f OBVIOUS
  <2>2. Append(s, f) = s \o r BY AppendIsConcat
  <2> HIDE DEF r
  <2>3. r \in Seq(F) BY <2>1
  <2>4. /\ Len(s \o r) = Len(s) + Len(r) /\ \A i \in 1 .. Len(s) : (s \o r)[i] = s[i]
        /\ \A i \in 1 .. Len(r) : (s \o r)[Len(s) + i] = r[i]
    BY <2>3, ConcatIs
  <2>5. Len(s \o r) = Len(s) + 1 /\ (s \o r)[Len(s) + 1] = f
    <3>1. 1 \in 1 .. Len(r) BY <2>1
    <3> QED BY <2>1, <2>4, <3>1
  <2> QED BY <2>2, <2>4, <2>5 DEF r
<1>4. s \o <<>> = s BY ConcatEmptySeq
<1>5. ASSUME NEW n \in 0 .. Len(s)
      PROVE  /\ Len(SubSeq(s, 1, n)) = n /\ \A i \in 1 .. n : SubSeq(s, 1, n)[i] = s[i]
             /\ Len(SubSeq(s, n + 1, Len(s))) = Len(s) - n
             /\ \A i \in 1 .. Len(s) - n : SubSeq(s, n + 1, Len(s))[i] = s[n + i]
  BY <1>1, SubSeqProperties
<1> QED BY <1>1, <1>2, <1>3, <1>4, <1>5

\* Cutting a buffer, or adding a frame that is no such CONNACK, brings none.
LEMMA NoAcceptCut ==
  ASSUME NEW s \in Seq(Frame), NoAccept(s)
  PROVE  /\ s # <<>> => NoAccept(Tail(s)) /\ ~Accepts(Head(s))
         /\ \A f \in Frame : ~Accepts(f) => NoAccept(s \o <<f>>) /\ NoAccept(Append(s, f))
         /\ NoAccept(s \o <<>>)
         /\ \A n \in 0 .. Len(s) : NoAccept(SubSeq(s, 1, n)) /\ NoAccept(SubSeq(s, n + 1, Len(s)))
         /\ \A r \in Seq(Frame) : NoAccept(r) => NoAccept(s \o r)
         /\ NoAccept(<<>>)
<1>1. s # <<>> => NoAccept(Tail(s)) /\ ~Accepts(Head(s))
  <2> SUFFICES ASSUME s # <<>> PROVE NoAccept(Tail(s)) /\ ~Accepts(Head(s)) OBVIOUS
  <2>1. /\ Len(s) \in Nat /\ Len(s) >= 1 /\ Head(s) = s[1]
        /\ \A i \in 1 .. Len(Tail(s)) : i + 1 \in 1 .. Len(s) /\ Tail(s)[i] = s[i + 1]
    BY CutIs
  <2>2. 1 \in 1 .. Len(s) BY <2>1
  <2> QED BY <2>1, <2>2 DEF NoAccept
<1>2. ASSUME NEW f \in Frame, ~Accepts(f) PROVE NoAccept(s \o <<f>>) /\ NoAccept(Append(s, f))
  <2> DEFINE q == s \o <<f>>
  <2>1. /\ Len(q) = Len(s) + 1 /\ Append(s, f) = q /\ q[Len(s) + 1] = f /\ Len(s) \in Nat
        /\ \A i \in 1 .. Len(s) : q[i] = s[i]
    BY CutIs
  <2> HIDE DEF q
  <2>2. ASSUME NEW i \in 1 .. Len(q) PROVE ~Accepts(q[i])
    <3>1. i \in 1 .. Len(s) \/ i = Len(s) + 1 BY <2>1
    <3> QED BY <1>2, <2>1, <3>1 DEF NoAccept
  <2> QED BY <2>1, <2>2 DEF NoAccept, q
<1>3. s \o <<>> = s BY ConcatEmptySeq
<1>4. ASSUME NEW n \in 0 .. Len(s)
      PROVE  NoAccept(SubSeq(s, 1, n)) /\ NoAccept(SubSeq(s, n + 1, Len(s)))
  <2> DEFINE p == SubSeq(s, 1, n)
             r == SubSeq(s, n + 1, Len(s))
  <2>1. /\ Len(s) \in Nat /\ Len(p) = n /\ \A i \in 1 .. n : p[i] = s[i]
        /\ Len(r) = Len(s) - n /\ \A i \in 1 .. Len(s) - n : r[i] = s[n + i]
    BY CutIs
  <2> HIDE DEF p, r
  <2>2. /\ \A i \in 1 .. n : i \in 1 .. Len(s)
        /\ \A i \in 1 .. Len(s) - n : n + i \in 1 .. Len(s)
    BY <2>1
  <2> QED BY <2>1, <2>2 DEF NoAccept, p, r
<1>5. ASSUME NEW r \in Seq(Frame), NoAccept(r) PROVE NoAccept(s \o r)
  <2> DEFINE q == s \o r
  <2>1. /\ Len(q) = Len(s) + Len(r) /\ Len(s) \in Nat /\ Len(r) \in Nat
        /\ \A i \in 1 .. Len(s) : q[i] = s[i] /\ \A j \in 1 .. Len(r) : q[Len(s) + j] = r[j]
        /\ \A j \in 1 .. Len(r) : q[Len(s) + j] = r[j]
    BY ConcatIs
  <2> HIDE DEF q
  <2>2. ASSUME NEW i \in 1 .. Len(q) PROVE ~Accepts(q[i])
    <3>1. CASE i <= Len(s)
      <4>1. i \in 1 .. Len(s) BY <2>1, <3>1
      <4> QED BY <2>1, <4>1 DEF NoAccept
    <3>2. CASE i > Len(s)
      <4>1. i - Len(s) \in 1 .. Len(r) /\ Len(s) + (i - Len(s)) = i BY <2>1, <3>2
      <4> QED BY <1>5, <2>1, <4>1 DEF NoAccept
    <3> QED BY <2>1, <3>1, <3>2
  <2> QED BY <2>2 DEF NoAccept, q
<1>6. NoAccept(<<>>) BY DEF NoAccept
<1> QED BY <1>1, <1>2, <1>3, <1>4, <1>5, <1>6

\* A step on inside an activation keeps quiet, unless it goes on to await a SUBACK or CONNACK.
LEMMA QuietReplace ==
  ASSUME TypeOK, Quiet, stack # <<>>, NEW a, stack' = <<a>> \o Tail(stack),
         a.at \notin {"suback", "connack"}
  PROVE  Quiet'
<1>1. /\ Len(stack') = Len(stack) /\ Len(stack) \in Nat \ {0} /\ stack'[1] = a
      /\ \A i \in 2 .. Len(stack) : stack'[i] = stack[i]
  BY ReplaceIs
<1>2. \A i \in 1 .. Len(stack') : i = 1 \/ i \in 2 .. Len(stack) BY <1>1
<1>3. \A i \in 1 .. Len(stack') : stack'[i].at # "suback" BY <1>1, <1>2 DEF Quiet
<1>4. Head(stack') = stack'[1] OBVIOUS
<1> QED BY <1>1, <1>3, <1>4 DEF Quiet, Top

\* So does a call, unless one of the two stands at a SUBACK, or the call at a CONNACK.
LEMMA QuietPush ==
  ASSUME TypeOK, Quiet, stack # <<>>, NEW a, NEW b, stack' = <<b, a>> \o Tail(stack),
         a.at # "suback", b.at \notin {"suback", "connack"}
  PROVE  Quiet'
<1>1. /\ Len(stack') = Len(stack) + 1 /\ Len(stack) \in Nat \ {0} /\ stack'[1] = b /\ stack'[2] = a
      /\ \A i \in 3 .. Len(stack) + 1 : stack'[i] = stack[i - 1]
  BY PushIs
<1>2. \A i \in 1 .. Len(stack') :
        i = 1 \/ i = 2 \/ (i \in 3 .. Len(stack) + 1 /\ i - 1 \in 1 .. Len(stack))
  BY <1>1
<1>3. \A i \in 1 .. Len(stack') : stack'[i].at # "suback" BY <1>1, <1>2 DEF Quiet
<1>4. Head(stack') = stack'[1] OBVIOUS
<1> QED BY <1>1, <1>3, <1>4 DEF Quiet, Top

\* So does a return, unless it is that of a wait that saw the CONNACK.
LEMMA QuietReturn ==
  ASSUME TypeOK, StackInv, Quiet, stack # <<>>, NEW b, Return(b), ~b \/ ~AwaitsConnack(Top)
  PROVE  Quiet'
<1>1. /\ Len(stack') = Len(stack) - 1 /\ Len(stack) \in Nat \ {0} /\ Top = stack[1]
      /\ \A i \in 1 .. Len(stack) - 1 : stack'[i] = stack[i + 1]
  BY PopIs DEF Return
<1>2. \A i \in 1 .. Len(stack') : i \in 1 .. Len(stack) - 1 /\ i + 1 \in 1 .. Len(stack) BY <1>1
<1>3. \A i \in 1 .. Len(stack') : stack'[i].at # "suback" BY <1>1, <1>2 DEF Quiet
<1>4. Head(stack') = stack'[1] OBVIOUS
<1>5. ASSUME stack' # <<>>, Head(stack').at = "connack" PROVE ~ret'
  <2>1. stack' \in Seq(Activation)
    <3>1. Tail(stack) \in Seq(Activation) BY TypeFacts
    <3> QED BY <3>1 DEF Return
  <2>2. Len(stack') # 0 BY <1>5, <2>1, EmptySeq
  <2>3. 1 \in 1 .. Len(stack) - 1 /\ 2 \in 2 .. Len(stack) /\ 2 - 1 = 1 /\ 1 + 1 = 2 BY <1>1, <2>2
  <2>4. stack[2].at = "connack" BY <1>1, <1>4, <1>5, <2>3
  <2>5. AwaitsConnack(stack[2 - 1]) BY <2>3, <2>4 DEF StackInv
  <2>6. AwaitsConnack(Top) BY <1>1, <2>3, <2>5
  <2> QED BY <2>6 DEF Return
<1> QED BY <1>3, <1>5 DEF Quiet, Top

\* Nothing that happens to an unopened connection opens a session on it.
LEMMA PollUnopened ==
  ASSUME TypeOK, StackInv, Unopened, PollStep
  PROVE  Unopened'
<1>0. stack # <<>> /\ Top = Head(stack) /\ Top \in Activation
  BY TypeFacts
     DEF PollStep, Recv, HandleAck, HandleDisconnect, HandlePublish, Responded, HandlerDone, PollEnd,
         Wait, Check, At, Top
<1>1. accum \in Seq(Frame) /\ wire \in Seq(Frame) BY DEF TypeOK
<1>2. NoAccept(wire) /\ NoAccept(accum) /\ "CONNACK" \notin flags /\ ~InSession /\ Quiet BY DEF Unopened
<1>3. CASE Recv
  <2>1. PICK n \in 0 .. Len(wire) : Recv!2!(n) BY <1>3 DEF Recv
  <2>2. NoAccept(accum') /\ NoAccept(wire')
    <3>1. SubSeq(wire, 1, n) \in Seq(Frame) BY <1>1, FramesTyped
    <3> QED BY <1>1, <1>2, <2>1, <3>1, NoAcceptCut
  <2>3. Goto("frames") \/ Goto("polled") BY <2>1
  <2>4. Quiet'
    <3>1. PICK a : stack' = <<a>> \o Tail(stack) /\ (a.at = "frames" \/ a.at = "polled")
      BY <1>0, <2>3, GotoIs
    <3> QED BY <1>0, <1>2, <3>1, QuietReplace
  <2> QED BY <1>2, <1>3, <2>2, <2>4 DEF Recv, Unopened, InSession
<1>4. CASE HandleAck \/ HandleDisconnect
  <2>1. accum # <<>> /\ accum' = Tail(accum) /\ UNCHANGED <<wire, stack, ret>>
    BY <1>4 DEF HandleAck, HandleDisconnect, link, control
  <2>2. NoAccept(accum') /\ NoAccept(wire') /\ ~Accepts(Head(accum)) BY <1>1, <1>2, <2>1, NoAcceptCut
  <2>3. "CONNACK" \notin flags'
    BY <1>2, <1>4, <2>2 DEF HandleAck, HandleDisconnect, Accepts
  <2>4. ~InSession' BY <1>2, <1>4 DEF HandleAck, HandleDisconnect, InSession
  <2>5. Quiet' BY <1>2, <2>1 DEF Quiet, Top
  <2> QED BY <2>2, <2>3, <2>4, <2>5 DEF Unopened
<1>5. CASE HandlePublish
  <2> DEFINE m == Head(accum).msg
             a == [Top EXCEPT !.at = IF m \in Commands THEN "responded" ELSE "handled", !.msg = m]
             p == PublishCall(PubQos)
  <2>1. a.at = "responded" \/ a.at = "handled" BY <1>0 DEF Activation
  <2>2. p.at = "publish" BY CallsAre
  <2>3. \/ stack' = <<p, a>> \o Tail(stack)
        \/ stack' = <<a>> \o Tail(stack)
    BY <1>5 DEF HandlePublish
  <2> HIDE DEF a, p
  <2>4. Quiet' BY <1>0, <1>2, <2>1, <2>2, <2>3, QuietReplace, QuietPush
  <2>5. UNCHANGED <<state, flags, accum, wire>> BY <1>5 DEF HandlePublish, link
  <2> QED BY <1>2, <2>4, <2>5 DEF Unopened, InSession, NoAccept
<1>6. CASE Responded \/ Wait
  <2>1. UNCHANGED <<state, flags, accum, wire>> BY <1>6 DEF Responded, Wait, client, link
  <2>2. Quiet'
    <3>1. \/ Goto("handled") \/ CallFor("handled", Top.id, PublishCall(PubQos))
          \/ CallFor("check", Top.id, Enter("poll"))
      BY <1>6 DEF Responded, Wait, Call
    <3>2. CASE Goto("handled")
      <4>1. PICK a : stack' = <<a>> \o Tail(stack) /\ a.at = "handled" BY <1>0, <3>2, GotoIs
      <4> QED BY <1>0, <1>2, <4>1, QuietReplace
    <3>3. ASSUME NEW l \in {"handled", "check"}, NEW id, NEW r, CallFor(l, id, r),
                 r.at = "publish" \/ r.at = "poll"
          PROVE  Quiet'
      <4> DEFINE a == [Top EXCEPT !.at = l, !.id = id]
      <4>1. stack' = <<r, a>> \o Tail(stack) BY <3>3 DEF CallFor
      <4>2. a.at = l BY <1>0 DEF Activation
      <4> HIDE DEF a
      <4> QED BY <1>0, <1>2, <3>3, <4>1, <4>2, QuietPush
    <3>4. PublishCall(PubQos).at = "publish" /\ Enter("poll").at = "poll" BY CallsAre
    <3> QED BY <3>1, <3>2, <3>3, <3>4
  <2> QED BY <1>2, <2>1, <2>2 DEF Unopened, InSession, NoAccept
<1>7. CASE HandlerDone
  <2>1. PICK a : stack' = <<a>> \o Tail(stack) /\ a.at = "frames"
    BY <1>0, <1>7, GotoIs DEF HandlerDone
  <2>2. Quiet' BY <1>0, <1>2, <2>1, QuietReplace
  <2>3. NoAccept(accum') BY <1>1, <1>2, <1>7, NoAcceptCut DEF HandlerDone
  <2>4. wire' = wire \/ wire' = wire \o <<>> \/ wire' = <<>>
    BY <1>7 DEF HandlerDone, Reaches, SendFails, link
  <2>5. NoAccept(wire') BY <1>1, <1>2, <2>4, NoAcceptCut
  <2>6. UNCHANGED <<state, flags>> BY <1>7 DEF HandlerDone
  <2> QED BY <1>2, <2>2, <2>3, <2>5, <2>6 DEF Unopened, InSession
<1>8. CASE PollEnd
  <2>1. Return(ret) /\ (Top.at = "polled" \/ Top.at = "frames") BY <1>0, <1>8 DEF PollEnd, At
  <2>2. Quiet' BY <1>0, <1>2, <2>1, QuietReturn DEF AwaitsConnack
  <2>3. /\ accum' = accum \/ accum' = <<>>
        /\ state' = state \/ state' = "DISCONNECTED"
        /\ UNCHANGED <<flags, wire>>
    BY <1>8 DEF PollEnd, link
  <2>4. NoAccept(accum') /\ NoAccept(wire') BY <1>1, <1>2, <2>3, NoAcceptCut
  <2> QED BY <1>2, <2>2, <2>3, <2>4 DEF Unopened, InSession
<1>9. CASE Check
  <2>1. UNCHANGED <<state, flags, accum, wire>> BY <1>9 DEF Check, client, link
  <2>2. CASE Return(TRUE) /\ Top.flag \in flags
    <3>1. ~AwaitsConnack(Top) BY <1>2, <2>2 DEF AwaitsConnack
    <3>2. Quiet' BY <1>0, <1>2, <2>2, <3>1, QuietReturn
    <3> QED BY <1>2, <2>1, <3>2 DEF Unopened, InSession, NoAccept
  <2>3. CASE Return(FALSE)
    <3>1. Quiet' BY <1>0, <1>2, <2>3, QuietReturn
    <3> QED BY <1>2, <2>1, <3>1 DEF Unopened, InSession, NoAccept
  <2>4. CASE stack' = <<[Top EXCEPT !.at = "wait", !.left = Top.left - 1]>> \o Tail(stack)
    <3> DEFINE a == [Top EXCEPT !.at = "wait", !.left = Top.left - 1]
    <3>1. a.at = "wait" BY <1>0 DEF Activation
    <3>2. stack' = <<a>> \o Tail(stack) BY <2>4
    <3> HIDE DEF a
    <3>3. Quiet' BY <1>0, <1>2, <3>1, <3>2, QuietReplace
    <3> QED BY <1>2, <2>1, <3>3 DEF Unopened, InSession, NoAccept
  <2> QED BY <1>9, <2>2, <2>3, <2>4 DEF Check
<1> QED BY <1>3, <1>4, <1>5, <1>6, <1>7, <1>8, <1>9 DEF PollStep

\* A request opens no session, and brings no CONNACK.
LEMMA RequestUnopened ==
  ASSUME TypeOK, StackInv, Unopened, RequestStep
  PROVE  Unopened'
<1>1. accum \in Seq(Frame) /\ wire \in Seq(Frame) BY DEF TypeOK
<1>2. NoAccept(wire) /\ NoAccept(accum) /\ "CONNACK" \notin flags /\ ~InSession /\ Quiet BY DEF Unopened
<1>3. ~Subscribe /\ ~Unsubscribe /\ ~PublishQos0 /\ ~PublishQos1
  BY <1>2 DEF Subscribe, Unsubscribe, PublishQos0, PublishQos1, Request
<1>4. ~Suback
  <2>1. ASSUME stack # <<>>, Head(stack).at = "suback" PROVE FALSE
    <3>1. stack \in Seq(Activation) /\ Head(stack) = stack[1] BY DEF TypeOK
    <3>2. 1 \in 1 .. Len(stack) BY <2>1, <3>1, CutIs
    <3> QED BY <1>2, <2>1, <3>1, <3>2 DEF Quiet
  <2> QED BY <2>1 DEF Suback, At
<1>5. CASE Refuse \/ Puback
  <2>1. stack # <<>> /\ ~AwaitsConnack(Top) /\ UNCHANGED <<state, flags, accum, wire>>
    BY <1>5 DEF Refuse, Puback, At, Top, AwaitsConnack, client, link
  <2>2. Quiet' BY <1>2, <1>5, <2>1, QuietReturn DEF Refuse, Puback
  <2> QED BY <1>2, <2>1, <2>2 DEF Unopened, InSession, NoAccept
<1>6. CASE Ping
  <2> DEFINE f == Ack("PINGRESP", 0)
  <2>1. stack # <<>> /\ ~AwaitsConnack(Top) BY <1>6 DEF Ping, At, Top, AwaitsConnack
  <2>2. UNCHANGED <<state, accum>> /\ flags' = flags \ {"PINGRESP"} BY <1>6 DEF Ping, Clear
  <2>3. f \in Frame /\ ~Accepts(f) BY ConstantsAssumption DEF Ack, Frame, Flags, Accepts
  <2> HIDE DEF f
  <2>4. wire' = wire \/ wire' = wire \o <<f>> \/ wire' = <<>>
    BY <1>6 DEF Ping, Reaches, SendFails, f
  <2>5. NoAccept(wire') BY <1>1, <1>2, <2>3, <2>4, NoAcceptCut
  <2>6. Return(FALSE) \/ stack' = <<WaitFor("PINGRESP")>> \o Tail(stack) BY <1>6 DEF Ping
  <2>7. WaitFor("PINGRESP").at = "wait" BY CallsAre
  <2>8. Quiet' BY <1>2, <2>1, <2>6, <2>7, QuietReturn, QuietReplace
  <2> QED BY <1>2, <2>2, <2>5, <2>8 DEF Unopened, InSession, NoAccept
<1> QED BY <1>3, <1>4, <1>5, <1>6 DEF RequestStep

\* Maintenance opens one only through mqtt_client_connect.
LEMMA MaintainUnopened ==
  ASSUME TypeOK, StackInv, Unopened, MaintainStep
  PROVE  Unopened'
<1>1. accum \in Seq(Frame) /\ wire \in Seq(Frame) BY DEF TypeOK
<1>2. NoAccept(wire) /\ NoAccept(accum) /\ "CONNACK" \notin flags /\ ~InSession /\ Quiet BY DEF Unopened
<1>3. stack # <<>> /\ ~AwaitsConnack(Top)
  BY DEF MaintainStep, MaintainPolled, MaintainConnected, MaintainPing, MaintainPinged,
         MaintainSubscribe, MaintainSubscribed, MaintainDrop, At, Top, AwaitsConnack
<1>4. \/ UNCHANGED <<state, flags, accum, wire>>
      \/ state' = "DISCONNECTED" /\ flags' = {} /\ accum' = <<>> /\ wire' = <<>>
  BY DEF MaintainStep, MaintainPolled, MaintainConnected, MaintainPing, MaintainPinged,
         MaintainSubscribe, MaintainSubscribed, MaintainDrop, Drop, client, link
<1>5. NoAccept(wire') /\ NoAccept(accum') BY <1>1, <1>2, <1>4, NoAcceptCut
<1>6. "CONNACK" \notin flags' /\ ~InSession' BY <1>2, <1>4 DEF InSession
<1>7. \/ \E b : Return(b)
      \/ \E l \in MaintainLabels : Goto(l)
      \/ \E l \in MaintainLabels : \E id, r : CallFor(l, id, r) /\ r.at \in {"connect", "ping", "sub"}
  <2>1. {"mt_connected", "mt_pinged", "mt_subbed", "mt_ping", "mt_sub"} \subseteq MaintainLabels
    BY DEF MaintainLabels
  <2>2. /\ Enter("connect").at = "connect" /\ Enter("ping").at = "ping"
        /\ SubscribeCall(PlatformTopics).at = "sub"
    BY CallsAre
  <2>3. \/ \E b : Return(b)
        \/ Goto("mt_ping") \/ Goto("mt_sub")
        \/ CallFor("mt_connected", Top.id, Enter("connect")) \/ CallFor("mt_pinged", Top.id, Enter("ping"))
        \/ CallFor("mt_subbed", Top.id, SubscribeCall(PlatformTopics))
    BY DEF MaintainStep, MaintainPolled, MaintainConnected, MaintainPing, MaintainPinged,
           MaintainSubscribe, MaintainSubscribed, MaintainDrop, Call
  <2> QED BY <2>1, <2>2, <2>3
<1>8. \A l \in MaintainLabels : l \notin {"suback", "connack"} BY DEF MaintainLabels
<1>9. Quiet'
  <2>1. CASE \E b : Return(b) BY <1>2, <1>3, <2>1, QuietReturn
  <2>2. CASE \E l \in MaintainLabels : Goto(l)
    <3>1. PICK l \in MaintainLabels : Goto(l) BY <2>2
    <3>2. PICK a : stack' = <<a>> \o Tail(stack) /\ a.at = l BY <1>3, <3>1, GotoIs
    <3> QED BY <1>2, <1>3, <1>8, <3>1, <3>2, QuietReplace
  <2>3. CASE \E l \in MaintainLabels : \E id, r : CallFor(l, id, r) /\ r.at \in {"connect", "ping", "sub"}
    <3>1. PICK l, id, r : l \in MaintainLabels /\ CallFor(l, id, r)
                               /\ r.at \in {"connect", "ping", "sub"}
      BY <2>3
    <3> DEFINE a == [Top EXCEPT !.at = l, !.id = id]
    <3>2. stack' = <<r, a>> \o Tail(stack) BY <3>1 DEF CallFor
    <3>3. a.at = l BY <1>3, TypeFacts DEF Activation
    <3> HIDE DEF a
    <3> QED BY <1>2, <1>3, <1>8, <3>1, <3>2, <3>3, QuietPush
  <2> QED BY <1>7, <2>1, <2>2, <2>3
<1> QED BY <1>5, <1>6, <1>9 DEF Unopened

\* A connect starts with nothing in the receive buffer and no subscription under way.
LEMMA ConnectIsOutermost ==
  ASSUME TypeOK, StackInv, stack # <<>>, Top.at = "connect"
  PROVE  /\ accum = <<>>
         /\ Len(stack) \in Nat \ {0} /\ Top = stack[1]
         /\ \A i \in 2 .. Len(stack) : stack[i].at \in MaintainLabels
<1>1. Len(stack) \in Nat \ {0} /\ Top = stack[1] BY PopIs
<1>2. Top.at \in Outer BY DEF Outer
<1>3. ASSUME NEW i \in 2 .. Len(stack) PROVE stack[i].at \in MaintainLabels
  <2>1. 1 \in 1 .. Len(stack) /\ i \in 1 .. Len(stack) /\ 1 < i BY <1>1, <1>3
  <2> QED BY <1>1, <1>2, <2>1 DEF StackInv
<1>4. ASSUME NEW i \in 1 .. Len(stack) PROVE stack[i].at \notin Handling
  <2>1. i = 1 \/ i \in 2 .. Len(stack) BY <1>1, <1>4
  <2> QED BY <1>1, <1>2, <1>3, <2>1, LabelsApart
<1> QED BY <1>1, <1>3, <1>4 DEF StackInv

\* mqtt_client_connect opens no session before the broker has accepted one.
LEMMA ConnectUnopened ==
  ASSUME TypeOK, StackInv, SessionInv, ConnectStep
  PROVE  SessionInv'
<1>0. stack # <<>> /\ Top = Head(stack)
  BY DEF ConnectStep, KeepSession, ConnectFails, ConnectSent, ConnackSeen, ConnackTimeout, At, Top
<1>1. CASE ConnectSent
  <2>1. Top.at = "connect" BY <1>0, <1>1 DEF ConnectSent, At
  <2>2. accum = <<>> /\ \A i \in 2 .. Len(stack) : stack[i].at \in MaintainLabels
    BY <1>0, <2>1, ConnectIsOutermost
  <2>3. PICK answer \in {"accept", "refuse", "none"} :
          /\ wire' = IF answer = "none" THEN <<>>
                     ELSE <<Ack("CONNACK", IF answer = "accept" THEN 0 ELSE 1)>>
          /\ accepted' = (answer = "accept")
    BY <1>1 DEF ConnectSent
  <2>4. CASE answer = "accept" BY <2>3, <2>4 DEF SessionInv
  <2>5. CASE answer # "accept"
    <3>1. wire' = <<>> \/ wire' = <<Ack("CONNACK", 1)>> BY <2>3, <2>5
    <3>2. ~Accepts(Ack("CONNACK", 1)) BY DEF Accepts, Ack
    <3>3. NoAccept(wire') BY <3>1, <3>2 DEF NoAccept
    <3>4. accum' = <<>> BY <1>1, <2>2 DEF ConnectSent
    <3>5. NoAccept(accum') BY <3>4 DEF NoAccept
    <3>6. "CONNACK" \notin flags' /\ ~InSession' BY <1>1 DEF ConnectSent, Clear, InSession
    <3>7. Quiet'
      <4>1. CallFor("connack", Top.id, WaitFor("CONNACK")) BY <1>1 DEF ConnectSent, Call
      <4>2. PICK a : stack' = <<WaitFor("CONNACK"), a>> \o Tail(stack) /\ a.at = "connack"
        BY <1>0, <4>1, CallIs
      <4>3. /\ Len(stack') = Len(stack) + 1 /\ Len(stack) \in Nat \ {0}
            /\ stack'[1] = WaitFor("CONNACK") /\ stack'[2] = a
            /\ \A i \in 3 .. Len(stack) + 1 : stack'[i] = stack[i - 1]
        BY <1>0, <4>2, PushIs
      <4>4. WaitFor("CONNACK").at = "wait" BY CallsAre
      <4>5. \A i \in 1 .. Len(stack') :
              i = 1 \/ i = 2 \/ (i \in 3 .. Len(stack) + 1 /\ i - 1 \in 2 .. Len(stack))
        BY <4>3
      <4>6. "suback" \notin MaintainLabels BY DEF MaintainLabels
      <4>7. \A i \in 1 .. Len(stack') : stack'[i].at # "suback" BY <2>2, <4>2, <4>3, <4>4, <4>5, <4>6
      <4>8. Head(stack') = stack'[1] OBVIOUS
      <4> QED BY <4>3, <4>4, <4>7, <4>8 DEF Quiet, Top
    <3> QED BY <3>3, <3>5, <3>6, <3>7 DEF SessionInv, Unopened
  <2> QED BY <2>4, <2>5
<1>2. CASE ~ConnectSent /\ accepted
  BY <1>2 DEF SessionInv, ConnectStep, KeepSession, ConnectFails, ConnackSeen, ConnackTimeout, Drop, link
<1>3. CASE ~ConnectSent /\ Unopened
  <2>1. ~KeepSession /\ ~ConnackSeen
    BY <1>3 DEF Unopened, Quiet, KeepSession, ConnackSeen, At, Top
  <2>2. /\ state' = "DISCONNECTED" /\ flags' = {} /\ accum' = <<>> /\ wire' = <<>> /\ Return(FALSE)
    BY <1>3, <2>1 DEF ConnectStep, ConnectFails, ConnackTimeout, Drop
  <2>3. Quiet' BY <1>0, <1>3, <2>2, QuietReturn DEF Unopened
  <2>4. NoAccept(wire') /\ NoAccept(accum') BY <2>2 DEF NoAccept
  <2> QED BY <2>2, <2>3, <2>4 DEF SessionInv, Unopened, InSession
<1> QED BY <1>1, <1>2, <1>3 DEF SessionInv

\* No thread does by the calls it makes.
LEMMA ThreadsUnopened ==
  ASSUME TypeOK, Unopened, Threads
  PROVE  Unopened'
<1>1. CASE ScriptDisconnect
  <2>1. /\ state' = "DISCONNECTED" /\ flags' = {} /\ accum' = <<>> /\ wire' = <<>>
        /\ UNCHANGED <<stack, ret>>
    BY <1>1 DEF ScriptDisconnect, Drop, control
  <2>2. NoAccept(wire') /\ NoAccept(accum') BY <2>1 DEF NoAccept
  <2> QED BY <2>1, <2>2 DEF Unopened, InSession, Quiet, Top
<1>2. CASE ScriptRead
  BY <1>2 DEF ScriptRead, control, link, Unopened, InSession, Quiet, Top, NoAccept
<1>3. CASE Maintain \/ Report \/ RxPoll \/ ScriptCall
  <2>1. UNCHANGED <<state, flags, accum, wire>>
    BY <1>3 DEF Maintain, Report, RxPoll, ScriptCall, Start, client, link
  <2>2. PICK a : /\ stack' = <<a>> \/ stack' = <<a, Enter("mt_polled")>>
                 /\ a.at \in {"poll", "publish", "connect", "sub", "unsub", "ping"}
    BY <1>3, CallsAre DEF Maintain, Report, RxPoll, ScriptCall, Start
  <2>3. Quiet'
    <3>1. Enter("mt_polled").at = "mt_polled" BY CallsAre
    <3>2. CASE stack' = <<a>>
      <4>1. Len(stack') = 1 /\ stack'[1] = a /\ Head(stack') = a BY <3>2
      <4> QED BY <2>2, <4>1 DEF Quiet, Top
    <3>3. CASE stack' = <<a, Enter("mt_polled")>>
      <4>1. Len(stack') = 2 /\ stack'[1] = a /\ stack'[2] = Enter("mt_polled") /\ Head(stack') = a
        BY <3>3
      <4> QED BY <2>2, <3>1, <4>1 DEF Quiet, Top
    <3> QED BY <2>2, <3>2, <3>3
  <2> QED BY <2>1, <2>3 DEF Unopened, InSession, NoAccept
<1> QED BY <1>1, <1>2, <1>3 DEF Threads

\* And the network only cuts the connection or delivers what the broker sent.
LEMMA EnvironmentUnopened ==
  ASSUME TypeOK, Unopened, Environment
  PROVE  Unopened'
<1>1. wire \in Seq(Frame) BY DEF TypeOK
<1>2. UNCHANGED <<state, flags, accum, stack, ret>>
  BY DEF Environment, BrokerPublish, BrokerDisconnect, LinkLost, Stabilise, PingClock, RetryClock,
         client, control
<1>3. NoAccept(wire')
  <2>1. ASSUME NEW m \in Messages, BrokerPublish(m) PROVE NoAccept(wire')
    <3>1. Downlink(m) \in Frame /\ ~Accepts(Downlink(m)) BY FrameTyped DEF Downlink, Accepts
    <3> QED BY <1>1, <2>1, <3>1, NoAcceptCut DEF BrokerPublish, Unopened
  <2>2. CASE BrokerDisconnect
    <3>1. Ack("DISCONNECT", 0) \in Frame /\ ~Accepts(Ack("DISCONNECT", 0))
      BY FrameTyped, ConstantsAssumption DEF Ack, Accepts
    <3> QED BY <1>1, <2>2, <3>1, NoAcceptCut DEF BrokerDisconnect, Unopened
  <2>3. CASE LinkLost BY <1>1, <2>3, NoAcceptCut DEF LinkLost, Unopened
  <2>4. CASE Stabilise \/ PingClock \/ RetryClock
    BY <2>4 DEF Stabilise, PingClock, RetryClock, link, Unopened
  <2> QED BY <2>1, <2>2, <2>3, <2>4 DEF Environment
<1> QED BY <1>2, <1>3 DEF Unopened, InSession, Quiet, Top, NoAccept

\* In no interleaving, and however late or lost its packets, does a session open, or stay
\* open, on a connection of which the broker has accepted no CONNECT.
THEOREM SessionIsAccepted == Spec => []SessionHasConnack
<1>1. Init => SessionInv
  <2>1. Init => NoAccept(wire) /\ NoAccept(accum) BY DEF Init, NoAccept
  <2> QED BY <2>1 DEF Init, SessionInv, Unopened, InSession, Quiet
<1>2. TypeOK /\ StackInv /\ SessionInv /\ [Next]_vars => SessionInv'
  <2> SUFFICES ASSUME TypeOK, StackInv, SessionInv, [Next]_vars PROVE SessionInv' OBVIOUS
  <2>1. CASE ConnectStep BY <2>1, ConnectUnopened
  <2>2. CASE accepted /\ ~ConnectStep
    <3>1. accepted' = accepted
      BY <2>2 DEF Next, vars, Environment, BrokerPublish, BrokerDisconnect, LinkLost, Stabilise,
             PingClock, RetryClock, CallStep, PollStep, Recv, HandleAck, HandleDisconnect,
             HandlePublish, Responded, HandlerDone, PollEnd, Wait, Check, RequestStep, Refuse,
             Subscribe, Suback, Unsubscribe, Ping, PublishQos0, PublishQos1, Puback, MaintainStep,
             MaintainPolled, MaintainConnected, MaintainPing, MaintainPinged, MaintainSubscribe,
             MaintainSubscribed, MaintainDrop, Threads, Maintain, Report, RxPoll, ScriptCall, Start,
             ScriptDisconnect, ScriptRead, Drop, Reaches, SendFails, link
    <3> QED BY <2>2, <3>1 DEF SessionInv
  <2>3. CASE Unopened /\ ~ConnectStep
    <3>1. CASE UNCHANGED vars
      BY <2>3, <3>1 DEF vars, client, link, control, SessionInv, Unopened, InSession, Quiet, Top,
                        NoAccept
    <3> QED BY <2>3, <3>1, PollUnopened, RequestUnopened, MaintainUnopened, ThreadsUnopened,
              EnvironmentUnopened DEF Next, CallStep, SessionInv
  <2> QED BY <2>1, <2>2, <2>3 DEF SessionInv
<1>3. SessionInv => SessionHasConnack BY DEF SessionInv, Unopened, SessionHasConnack
<1> QED BY <1>1, <1>2, <1>3, TypeCorrect, AlwaysInOrder, PTL DEF Spec

-----------------------------------------------------------------------------
(* ReadyMeansSubscribed                                                    *)

Platform == Topics \ {"app"}

\* The topics that a subscription in progress has still to send a SUBSCRIBE for.
Left(a) == {a.todo[i] : i \in (IF a.at = "sub" THEN 1 ELSE 2) .. Len(a.todo)}

\* On a connection that is up, where the topics in s have been asked for, it has sent one
\* for all the others.
OnItsWay(a, up, s) ==
  /\ a.at # "unsub"
  /\ a.at \in {"sub", "suback"} /\ up => Platform \subseteq s \cup Left(a)

SubscribeInv ==
  /\ ReadyMeansSubscribed
  /\ \A i \in 1 .. Len(stack) : OnItsWay(stack[i], tcp = "up", asked)

\* What any step but a connect does to a connection, without scripts.
Goes == (tcp' = "up" => tcp = "up") /\ asked \subseteq asked'

\* Whatever a step does to the stack, subscriptions go on from where they were.
LEMMA WayKept ==
  ASSUME TypeOK, SubscribeInv, Goes, stack # <<>>, NEW a, NEW b,
         OnItsWay(a, tcp' = "up", asked'), OnItsWay(b, tcp' = "up", asked'),
         \/ stack' = <<a>> \o Tail(stack) \/ stack' = <<b, a>> \o Tail(stack)
         \/ stack' = Tail(stack) \/ stack' = stack
  PROVE  \A i \in 1 .. Len(stack') : OnItsWay(stack'[i], tcp' = "up", asked')
<1>1. ASSUME NEW i \in 1 .. Len(stack) PROVE OnItsWay(stack[i], tcp' = "up", asked')
  <2>1. OnItsWay(stack[i], tcp = "up", asked) BY <1>1 DEF SubscribeInv
  <2> QED BY <2>1 DEF OnItsWay, Goes
<1>2. Len(stack) \in Nat \ {0} BY PopIs
<1>3. CASE stack' = <<a>> \o Tail(stack)
  <2>1. /\ Len(stack') = Len(stack) /\ stack'[1] = a
        /\ \A i \in 2 .. Len(stack) : stack'[i] = stack[i]
    BY <1>3, ReplaceIs
  <2>2. ASSUME NEW i \in 1 .. Len(stack') PROVE OnItsWay(stack'[i], tcp' = "up", asked')
    <3>1. i = 1 \/ (i \in 2 .. Len(stack) /\ i \in 1 .. Len(stack)) BY <1>2, <2>1, <2>2
    <3> QED BY <1>1, <2>1, <3>1
  <2> QED BY <2>2
<1>4. CASE stack' = <<b, a>> \o Tail(stack)
  <2>1. /\ Len(stack') = Len(stack) + 1 /\ stack'[1] = b /\ stack'[2] = a
        /\ \A i \in 3 .. Len(stack) + 1 : stack'[i] = stack[i - 1]
    BY <1>4, PushIs
  <2>2. ASSUME NEW i \in 1 .. Len(stack') PROVE OnItsWay(stack'[i], tcp' = "up", asked')
    <3>1. i = 1 \/ i = 2 \/ (i \in 3 .. Len(stack) + 1 /\ i - 1 \in 1 .. Len(stack)) BY <1>2, <2>1, <2>2
    <3> QED BY <1>1, <2>1, <3>1
  <2> QED BY <2>2
<1>5. CASE stack' = Tail(stack)
  <2>1. /\ Len(stack') = Len(stack) - 1
        /\ \A i \in 1 .. Len(stack) - 1 : stack'[i] = stack[i + 1]
    BY <1>5, PopIs
  <2>2. ASSUME NEW i \in 1 .. Len(stack') PROVE OnItsWay(stack'[i], tcp' = "up", asked')
    <3>1. i \in 1 .. Len(stack) - 1 /\ i + 1 \in 1 .. Len(stack) BY <1>2, <2>1, <2>2
    <3> QED BY <1>1, <2>1, <3>1
  <2> QED BY <2>2
<1>6. CASE stack' = stack BY <1>1, <1>6
<1> QED BY <1>3, <1>4, <1>5, <1>6

\* The steps that concern no subscription.
Other == {"poll", "frames", "polled", "responded", "handled", "wait", "check", "connect", "connack",
          "ping", "publish", "puback"} \cup MaintainLabels

\* An activation at any other label has no subscription under way.
LEMMA OtherOnItsWay ==
  ASSUME NEW a, a.at \in Other, NEW up, NEW s
  PROVE  OnItsWay(a, up, s)
BY DEF OnItsWay, Other, MaintainLabels

\* What a poll, or the wait around it, does to the stack.
LEMMA PollStack ==
  ASSUME TypeOK, PollStep
  PROVE  /\ stack # <<>>
         /\ \E a, b : /\ a.at \in Other /\ b.at \in Other
                      /\ \/ stack' = <<a>> \o Tail(stack) \/ stack' = <<b, a>> \o Tail(stack)
                         \/ stack' = Tail(stack) \/ stack' = stack
<1>0. stack # <<>>
  BY DEF PollStep, Recv, HandleAck, HandleDisconnect, HandlePublish, Responded, HandlerDone, PollEnd,
         Wait, Check, At
<1>1. Top \in Activation BY <1>0, TypeFacts
<1>2. "poll" \in Other /\ Enter("poll").at = "poll" /\ PublishCall(PubQos).at \in Other
  BY CallsAre DEF Other
<1>3. ASSUME NEW l \in {"frames", "polled", "handled"}, Goto(l)
      PROVE  \E a : a.at \in Other /\ stack' = <<a>> \o Tail(stack)
  <2>1. PICK a : stack' = <<a>> \o Tail(stack) /\ a.at = l BY <1>0, <1>3, GotoIs
  <2>2. l \in Other BY DEF Other
  <2> QED BY <2>1, <2>2
<1>4. ASSUME NEW l \in {"handled", "check"}, NEW id, NEW r, CallFor(l, id, r)
      PROVE  \E a : a.at \in Other /\ stack' = <<r, a>> \o Tail(stack)
  <2> DEFINE a == [Top EXCEPT !.at = l, !.id = id]
  <2>1. stack' = <<r, a>> \o Tail(stack) BY <1>4 DEF CallFor
  <2>2. a.at = l BY <1>1 DEF Activation
  <2>3. l \in Other BY DEF Other
  <2> HIDE DEF a
  <2> QED BY <2>1, <2>2, <2>3
<1>5. CASE Recv \/ HandlerDone
  <2>1. Goto("frames") \/ Goto("polled") BY <1>5 DEF Recv, HandlerDone
  <2> QED BY <1>0, <1>2, <1>3, <2>1
<1>6. CASE HandleAck \/ HandleDisconnect
  <2>1. stack' = stack BY <1>6 DEF HandleAck, HandleDisconnect, control
  <2> QED BY <1>0, <1>2, <2>1
<1>7. CASE HandlePublish
  <2> DEFINE m == Head(accum).msg
             a == [Top EXCEPT !.at = IF m \in Commands THEN "responded" ELSE "handled", !.msg = m]
             p == PublishCall(PubQos)
  <2>1. a.at \in Other BY <1>1 DEF Activation, Other
  <2>2. stack' = <<p, a>> \o Tail(stack) \/ stack' = <<a>> \o Tail(stack) BY <1>7 DEF HandlePublish
  <2>3. p.at \in Other BY <1>2
  <2> HIDE DEF a, p
  <2> QED BY <1>0, <2>1, <2>2, <2>3
<1>8. CASE Responded \/ Wait
  <2>1. \/ Goto("handled") \/ CallFor("handled", Top.id, PublishCall(PubQos))
        \/ CallFor("check", Top.id, Enter("poll"))
    BY <1>8 DEF Responded, Wait, Call
  <2>2. CASE Goto("handled") BY <1>0, <1>2, <1>3, <2>2
  <2>3. CASE CallFor("handled", Top.id, PublishCall(PubQos))
    <3>1. \E a : a.at \in Other /\ stack' = <<PublishCall(PubQos), a>> \o Tail(stack) BY <1>4, <2>3
    <3> QED BY <1>0, <1>2, <3>1
  <2>4. CASE CallFor("check", Top.id, Enter("poll"))
    <3>1. \E a : a.at \in Other /\ stack' = <<Enter("poll"), a>> \o Tail(stack) BY <1>4, <2>4
    <3> QED BY <1>0, <1>2, <3>1
  <2> QED BY <2>1, <2>2, <2>3, <2>4
<1>9. CASE PollEnd
  <2>1. stack' = Tail(stack) BY <1>9 DEF PollEnd, Return
  <2> QED BY <1>0, <1>2, <2>1
<1>10. CASE Check
  <2>1. CASE stack' = Tail(stack) BY <1>0, <1>2, <2>1
  <2>2. CASE stack' = <<[Top EXCEPT !.at = "wait", !.left = Top.left - 1]>> \o Tail(stack)
    <3> DEFINE a == [Top EXCEPT !.at = "wait", !.left = Top.left - 1]
    <3>1. a.at \in Other BY <1>1 DEF Activation, Other
    <3>2. stack' = <<a>> \o Tail(stack) BY <2>2
    <3> HIDE DEF a
    <3> QED BY <1>0, <3>1, <3>2
  <2> QED BY <1>10, <2>1, <2>2 DEF Check, Return
<1> QED BY <1>5, <1>6, <1>7, <1>8, <1>9, <1>10 DEF PollStep

\* A step that makes nothing ready keeps what is.
LEMMA ReadyKept ==
  ASSUME ReadyMeansSubscribed, Goes, state' = "SUBSCRIBED" => state = "SUBSCRIBED"
  PROVE  ReadyMeansSubscribed'
BY DEF ReadyMeansSubscribed, Goes

\* A poll subscribes to nothing, and can only lose the session.
LEMMA PollSubscribes ==
  ASSUME TypeOK, SubscribeInv, PollStep
  PROVE  SubscribeInv'
<1>1. Goes /\ (state' = "SUBSCRIBED" => state = "SUBSCRIBED")
  BY DEF Goes, PollStep, Recv, HandleAck, HandleDisconnect, HandlePublish, Responded, HandlerDone,
         PollEnd, Wait, Check, Reaches, SendFails, client, link
<1>2. PICK a, b : /\ a.at \in Other /\ b.at \in Other
                  /\ \/ stack' = <<a>> \o Tail(stack) \/ stack' = <<b, a>> \o Tail(stack)
                     \/ stack' = Tail(stack) \/ stack' = stack
  BY PollStack
<1>3. stack # <<>> BY PollStack
<1>4. \A i \in 1 .. Len(stack') : OnItsWay(stack'[i], tcp' = "up", asked')
  BY <1>1, <1>2, <1>3, OtherOnItsWay, WayKept
<1> QED BY <1>1, <1>4, ReadyKept DEF SubscribeInv

\* A new connection is asked for nothing, and no subscription of the old one goes on.
LEMMA ConnectSubscribes ==
  ASSUME TypeOK, StackInv, SubscribeInv, ConnectStep
  PROVE  SubscribeInv'
<1>0. stack # <<>> /\ Top = Head(stack)
  BY DEF ConnectStep, KeepSession, ConnectFails, ConnectSent, ConnackSeen, ConnackTimeout, At, Top
<1>1. CASE ConnectSent
  <2>1. Top.at = "connect" BY <1>0, <1>1 DEF ConnectSent, At
  <2>2. \A i \in 2 .. Len(stack) : stack[i].at \in MaintainLabels BY <1>0, <2>1, ConnectIsOutermost
  <2>3. CallFor("connack", Top.id, WaitFor("CONNACK")) BY <1>1 DEF ConnectSent, Call
  <2> DEFINE a == [Top EXCEPT !.at = "connack", !.id = Top.id]
  <2>4a. stack' = <<WaitFor("CONNACK"), a>> \o Tail(stack) BY <2>3 DEF CallFor
  <2>4b. a.at = "connack" BY <1>0, TypeFacts DEF Activation
  <2> HIDE DEF a
  <2>4. stack' = <<WaitFor("CONNACK"), a>> \o Tail(stack) /\ a.at = "connack"
    BY <2>4a, <2>4b
  <2>5. /\ Len(stack') = Len(stack) + 1 /\ Len(stack) \in Nat \ {0}
        /\ stack'[1] = WaitFor("CONNACK") /\ stack'[2] = a
        /\ \A i \in 3 .. Len(stack) + 1 : stack'[i] = stack[i - 1]
    BY <1>0, <2>4, PushIs
  <2>6. WaitFor("CONNACK").at \in Other /\ a.at \in Other /\ MaintainLabels \subseteq Other
    BY <2>4, CallsAre DEF Other
  <2>7. ASSUME NEW i \in 1 .. Len(stack') PROVE stack'[i].at \in Other
    <3>1. i = 1 \/ i = 2 \/ (i \in 3 .. Len(stack) + 1 /\ i - 1 \in 2 .. Len(stack)) BY <2>5, <2>7
    <3> QED BY <2>2, <2>5, <2>6, <3>1
  <2>8. state' = "TCP_CONNECTED" BY <1>1 DEF ConnectSent
  <2> QED BY <2>7, <2>8, OtherOnItsWay DEF SubscribeInv, ReadyMeansSubscribed
<1>2. CASE ~ConnectSent
  <2>1. stack' = Tail(stack)
    BY <1>2 DEF ConnectStep, KeepSession, ConnectFails, ConnackSeen, ConnackTimeout, Return
  <2>2. Goes /\ (state' = "SUBSCRIBED" => state = "SUBSCRIBED")
    BY <1>2 DEF Goes, ConnectStep, KeepSession, ConnectFails, ConnackSeen, ConnackTimeout, Drop, client,
                link
  <2>3. Enter("poll").at \in Other BY CallsAre DEF Other
  <2>4. \A i \in 1 .. Len(stack') : OnItsWay(stack'[i], tcp' = "up", asked')
    BY <1>0, <2>1, <2>2, <2>3, OtherOnItsWay, WayKept
  <2> QED BY <2>2, <2>4, ReadyKept DEF SubscribeInv
<1> QED BY <1>1, <1>2

\* A SUBSCRIBE that is sent on a connection that is up reaches the broker; after the last
\* one the client is ready.
LEMMA RequestSubscribes ==
  ASSUME TypeOK, SubscribeInv, RequestStep
  PROVE  SubscribeInv'
<1>0. stack # <<>> /\ Top = Head(stack) /\ Top \in Activation
  BY TypeFacts DEF RequestStep, Refuse, Subscribe, Suback, Unsubscribe, Ping, PublishQos0, PublishQos1,
                   Puback, At, Top
<1>1. OnItsWay(Top, tcp = "up", asked)
  <2>1. Len(stack) \in Nat \ {0} /\ Top = stack[1] BY <1>0, PopIs
  <2>2. 1 \in 1 .. Len(stack) BY <2>1
  <2> QED BY <2>1, <2>2 DEF SubscribeInv
<1>2. ~Unsubscribe BY <1>1 DEF Unsubscribe, At, Top, OnItsWay
<1>3. (\A f : WaitFor(f).at \in Other) /\ Enter("poll").at \in Other BY CallsAre DEF Other
<1>4. Goes
  BY <1>2 DEF Goes, RequestStep, Refuse, Subscribe, Suback, Ping, PublishQos0, PublishQos1, Puback,
              Reaches, SendFails, client, link
<1>5. ASSUME stack' = Tail(stack) PROVE \A i \in 1 .. Len(stack') : OnItsWay(stack'[i], tcp' = "up", asked')
  BY <1>0, <1>3, <1>4, <1>5, OtherOnItsWay, WayKept
<1>6. CASE Subscribe
  <2>1. state' = state /\ Top.at = "sub" BY <1>0, <1>6 DEF Subscribe, Request, At
  <2>2. CASE Return(FALSE) BY <1>4, <1>5, <2>1, <2>2, ReadyKept DEF SubscribeInv, Return
  <2>3. CASE /\ CallFor("suback", NextId, WaitFor("SUBACK"))
             /\ asked' = (IF tcp = "up" THEN asked \cup {Head(Top.todo)} ELSE asked)
             /\ tcp' = tcp
    <3>1. PICK a : stack' = <<WaitFor("SUBACK"), a>> \o Tail(stack) /\ a.at = "suback" /\ a.todo = Top.todo
      <4> DEFINE a == [Top EXCEPT !.at = "suback", !.id = NextId]
      <4>1. stack' = <<WaitFor("SUBACK"), a>> \o Tail(stack) BY <2>3 DEF CallFor
      <4>2. a.at = "suback" /\ a.todo = Top.todo BY <1>0 DEF Activation
      <4> HIDE DEF a
      <4> QED BY <4>1, <4>2
    <3>2. OnItsWay(a, tcp' = "up", asked')
      <4>1. /\ Top.todo \in Seq(Topics) /\ Top.todo # <<>> BY <1>0, <2>1 DEF Activation
      <4>2. Len(Top.todo) \in Nat /\ Head(Top.todo) = Top.todo[1] BY <4>1, CutIs
      <4>3. \A i \in 1 .. Len(Top.todo) : i = 1 \/ i \in 2 .. Len(Top.todo) BY <4>2
      <4>4. Left(Top) \subseteq {Head(Top.todo)} \cup Left(a) BY <2>1, <3>1, <4>2, <4>3 DEF Left
      <4> QED BY <1>1, <2>1, <2>3, <3>1, <4>4 DEF OnItsWay
    <3>3. \A i \in 1 .. Len(stack') : OnItsWay(stack'[i], tcp' = "up", asked')
      BY <1>0, <1>3, <1>4, <3>1, <3>2, OtherOnItsWay, WayKept
    <3> QED BY <1>4, <2>1, <3>3, ReadyKept DEF SubscribeInv
  <2> QED BY <1>6, <2>2, <2>3 DEF Subscribe, Reaches
<1>7. CASE Suback
  <2>1. Top.at = "suback" /\ UNCHANGED <<tcp, asked>> BY <1>0, <1>7 DEF Suback, At, link
  <2>2. Top.todo \in Seq(Topics) /\ Top.todo # <<>> BY <1>0, <2>1 DEF Activation
  <2>3. CASE Return(FALSE) /\ state' = state
    BY <1>4, <1>5, <2>3, ReadyKept DEF SubscribeInv, Return
  <2>4. CASE Len(Top.todo) = 1 /\ Return(TRUE)
    <3>1. Left(Top) = {} BY <2>1, <2>4 DEF Left
    <3>2. tcp = "up" => Platform \subseteq asked BY <1>1, <2>1, <3>1 DEF OnItsWay
    <3>3. ReadyMeansSubscribed' BY <2>1, <3>2 DEF ReadyMeansSubscribed, Platform
    <3> QED BY <1>5, <2>4, <3>3 DEF SubscribeInv, Return
  <2>5. CASE stack' = <<SubscribeCall(Tail(Top.todo))>> \o Tail(stack) /\ state' = state
    <3> DEFINE a == SubscribeCall(Tail(Top.todo))
    <3>1. a.at = "sub" /\ a.todo = Tail(Top.todo) BY CallsAre
    <3>2. /\ Len(Top.todo) \in Nat /\ Len(Top.todo) >= 1 /\ Len(Tail(Top.todo)) = Len(Top.todo) - 1
          /\ \A i \in 1 .. Len(Tail(Top.todo)) : Tail(Top.todo)[i] = Top.todo[i + 1]
      BY <2>2, CutIs
    <3> HIDE DEF a
    <3>3. \A i \in 2 .. Len(Top.todo) : i - 1 \in 1 .. Len(a.todo) /\ a.todo[i - 1] = Top.todo[i]
      BY <3>1, <3>2
    <3>4. Left(Top) \subseteq Left(a) BY <2>1, <3>1, <3>3 DEF Left
    <3>5. OnItsWay(a, tcp' = "up", asked') BY <1>1, <2>1, <3>1, <3>4 DEF OnItsWay
    <3>6. stack' = <<a>> \o Tail(stack) BY <2>5 DEF a
    <3>7. \A i \in 1 .. Len(stack') : OnItsWay(stack'[i], tcp' = "up", asked')
      BY <1>0, <1>4, <3>5, <3>6, WayKept
    <3> QED BY <1>4, <2>5, <3>7, ReadyKept DEF SubscribeInv
  <2> QED BY <1>7, <2>3, <2>4, <2>5 DEF Suback
<1>8. CASE Refuse \/ Ping \/ PublishQos0 \/ PublishQos1 \/ Puback
  <2>1. state' = state
    BY <1>8 DEF Refuse, Ping, PublishQos0, PublishQos1, Puback, Request, client
  <2>2. PICK a, b : /\ a.at \in Other /\ b.at \in Other
                    /\ \/ stack' = <<a>> \o Tail(stack) \/ stack' = <<b, a>> \o Tail(stack)
                       \/ stack' = Tail(stack)
    <3>1. CASE CallFor("puback", NextId, WaitFor("PUBACK"))
      <4> DEFINE a == [Top EXCEPT !.at = "puback", !.id = NextId]
      <4>1. stack' = <<WaitFor("PUBACK"), a>> \o Tail(stack) BY <3>1 DEF CallFor
      <4>2. a.at \in Other BY <1>0 DEF Activation, Other
      <4> HIDE DEF a
      <4> QED BY <1>3, <4>1, <4>2
    <3>2. CASE stack' = <<WaitFor("PINGRESP")>> \o Tail(stack) BY <1>3, <3>2
    <3>3. CASE stack' = Tail(stack) BY <1>3, <3>3
    <3> QED BY <1>8, <3>1, <3>2, <3>3 DEF Refuse, Ping, PublishQos0, PublishQos1, Puback, Return
  <2>3. \A i \in 1 .. Len(stack') : OnItsWay(stack'[i], tcp' = "up", asked')
    BY <1>0, <1>4, <2>2, OtherOnItsWay, WayKept
  <2> QED BY <1>4, <2>1, <2>3, ReadyKept DEF SubscribeInv
<1> QED BY <1>2, <1>6, <1>7, <1>8 DEF RequestStep

\* A maintain asks for all the platform's topics.
LEMMA MaintainSubscribes ==
  ASSUME TypeOK, SubscribeInv, MaintainStep
  PROVE  SubscribeInv'
<1>0. stack # <<>> /\ Top = Head(stack) /\ Top \in Activation
  BY TypeFacts DEF MaintainStep, MaintainPolled, MaintainConnected, MaintainPing, MaintainPinged,
                   MaintainSubscribe, MaintainSubscribed, MaintainDrop, At, Top
<1>1. Goes /\ (state' = "SUBSCRIBED" => state = "SUBSCRIBED")
  BY DEF Goes, MaintainStep, MaintainPolled, MaintainConnected, MaintainPing, MaintainPinged,
         MaintainSubscribe, MaintainSubscribed, MaintainDrop, Drop, client, link
<1>2. \/ stack' = Tail(stack)
      \/ Goto("mt_ping") \/ Goto("mt_sub")
      \/ CallFor("mt_connected", Top.id, Enter("connect")) \/ CallFor("mt_pinged", Top.id, Enter("ping"))
      \/ CallFor("mt_subbed", Top.id, SubscribeCall(PlatformTopics))
  BY DEF MaintainStep, MaintainPolled, MaintainConnected, MaintainPing, MaintainPinged,
         MaintainSubscribe, MaintainSubscribed, MaintainDrop, Call, Return
<1>3. /\ OnItsWay(Enter("connect"), tcp' = "up", asked') /\ OnItsWay(Enter("ping"), tcp' = "up", asked')
      /\ OnItsWay(SubscribeCall(PlatformTopics), tcp' = "up", asked')
  <2>1. Enter("connect").at \in Other /\ Enter("ping").at \in Other BY CallsAre DEF Other
  <2>2. SubscribeCall(PlatformTopics).at = "sub" /\ SubscribeCall(PlatformTopics).todo = PlatformTopics
    BY CallsAre
  <2>3. Len(PlatformTopics) = 3 /\ Platform \subseteq {PlatformTopics[i] : i \in 1 .. 3}
    <3>1. /\ Len(PlatformTopics) = 3 /\ PlatformTopics[1] = "registerInfo"
          /\ PlatformTopics[2] = "updateResponse" /\ PlatformTopics[3] = "command"
      BY DEF PlatformTopics
    <3>2. DOMAIN PlatformTopics = 1 .. 3 BY DEF PlatformTopics
    <3> QED BY <3>1, <3>2 DEF Platform, Topics
  <2>4. Platform \subseteq Left(SubscribeCall(PlatformTopics)) BY <2>2, <2>3 DEF Left
  <2> QED BY <2>1, <2>2, <2>4, OtherOnItsWay DEF OnItsWay
<1>4. ASSUME NEW l \in MaintainLabels, NEW id, NEW r, CallFor(l, id, r),
             OnItsWay(r, tcp' = "up", asked')
      PROVE  \A i \in 1 .. Len(stack') : OnItsWay(stack'[i], tcp' = "up", asked')
  <2> DEFINE a == [Top EXCEPT !.at = l, !.id = id]
  <2>1. stack' = <<r, a>> \o Tail(stack) BY <1>4 DEF CallFor
  <2>2. a.at \in Other BY <1>0 DEF Activation, Other
  <2> HIDE DEF a
  <2> QED BY <1>0, <1>1, <1>4, <2>1, <2>2, OtherOnItsWay, WayKept
<1>5. {"mt_connected", "mt_pinged", "mt_subbed", "mt_ping", "mt_sub"} \subseteq MaintainLabels
  BY DEF MaintainLabels
<1>6. ASSUME NEW l \in MaintainLabels, Goto(l)
      PROVE  \A i \in 1 .. Len(stack') : OnItsWay(stack'[i], tcp' = "up", asked')
  <2> DEFINE a == [Top EXCEPT !.at = l]
  <2>1. stack' = <<a>> \o Tail(stack) BY <1>6 DEF Goto
  <2>2. a.at \in Other BY <1>0 DEF Activation, Other
  <2> HIDE DEF a
  <2> QED BY <1>0, <1>1, <2>1, <2>2, OtherOnItsWay, WayKept
<1>7. CASE stack' = Tail(stack)
  <2>1. Enter("poll").at \in Other BY CallsAre DEF Other
  <2>2. \A i \in 1 .. Len(stack') : OnItsWay(stack'[i], tcp' = "up", asked')
    BY <1>0, <1>1, <1>7, <2>1, OtherOnItsWay, WayKept
  <2> QED BY <1>1, <2>2, ReadyKept DEF SubscribeInv
<1>8. CASE stack' # Tail(stack)
  <2>1. \A i \in 1 .. Len(stack') : OnItsWay(stack'[i], tcp' = "up", asked')
    BY <1>2, <1>3, <1>4, <1>5, <1>6, <1>8
  <2> QED BY <1>1, <2>1, ReadyKept DEF SubscribeInv
<1> QED BY <1>7, <1>8

\* What starts without scripts, and what the network does.
LEMMA ThreadsSubscribe ==
  ASSUME TypeOK, SubscribeInv, ~Scripts, Threads \/ Environment
  PROVE  SubscribeInv'
<1>1. Goes /\ (state' = "SUBSCRIBED" => state = "SUBSCRIBED")
  BY DEF Goes, Threads, Maintain, Report, RxPoll, ScriptCall, ScriptDisconnect, ScriptRead, Start,
         Environment, BrokerPublish, BrokerDisconnect, LinkLost, Stabilise, PingClock, RetryClock,
         client, link
<1>2. CASE Environment
  <2>1. stack' = stack
    BY <1>2 DEF Environment, BrokerPublish, BrokerDisconnect, LinkLost, Stabilise, PingClock,
                RetryClock, control
  <2>2. \A i \in 1 .. Len(stack) : OnItsWay(stack[i], tcp' = "up", asked')
    BY <1>1 DEF SubscribeInv, OnItsWay, Goes
  <2> QED BY <1>1, <2>1, <2>2, ReadyKept DEF SubscribeInv
<1>3. CASE Threads
  <2>1. \/ stack' = <<Enter("poll"), Enter("mt_polled")>> \/ stack' = <<Enter("poll")>>
        \/ stack' = <<PublishCall(PubQos)>>
    BY <1>3 DEF Threads, Maintain, Report, RxPoll, ScriptCall, ScriptDisconnect, ScriptRead, Start
  <2>2. /\ Enter("poll").at \in Other /\ Enter("mt_polled").at \in Other
        /\ PublishCall(PubQos).at \in Other
    BY CallsAre DEF Other, MaintainLabels
  <2>3. \A i \in 1 .. Len(stack') : stack'[i].at \in Other
    <3>1. CASE stack' = <<Enter("poll"), Enter("mt_polled")>>
      <4>1. Len(stack') = 2 /\ stack'[1] = Enter("poll") /\ stack'[2] = Enter("mt_polled") BY <3>1
      <4> QED BY <2>2, <4>1
    <3>2. ASSUME NEW a, a.at \in Other, stack' = <<a>> PROVE \A i \in 1 .. Len(stack') : stack'[i].at \in Other
      <4>1. Len(stack') = 1 /\ stack'[1] = a BY <3>2
      <4> QED BY <3>2, <4>1
    <3> QED BY <2>1, <2>2, <3>1, <3>2
  <2> QED BY <1>1, <2>3, OtherOnItsWay, ReadyKept DEF SubscribeInv
<1> QED BY <1>2, <1>3

\* Without scripts and shell commands of their own, a client that is ready on a connection
\* that is up has asked the broker there for every topic of the platform, even though any
\* SUBACK will do for any topic, and however the connection was lost on the way.
THEOREM ReadyHasTopics ==
  ASSUME ~Scripts
  PROVE  Spec => []ReadyMeansSubscribed
<1>1. Init => SubscribeInv BY DEF Init, SubscribeInv, ReadyMeansSubscribed
<1>2. TypeOK /\ StackInv /\ SubscribeInv /\ [Next]_vars => SubscribeInv'
  <2> SUFFICES ASSUME TypeOK, StackInv, SubscribeInv, [Next]_vars PROVE SubscribeInv' OBVIOUS
  <2>1. CASE UNCHANGED vars
    BY <2>1 DEF vars, client, link, control, SubscribeInv, ReadyMeansSubscribed
  <2> QED BY <2>1, PollSubscribes, ConnectSubscribes, RequestSubscribes, MaintainSubscribes,
            ThreadsSubscribe DEF Next, CallStep
<1>3. SubscribeInv => ReadyMeansSubscribed BY DEF SubscribeInv
<1> QED BY <1>1, <1>2, <1>3, TypeCorrect, AlwaysInOrder, PTL DEF Spec

-----------------------------------------------------------------------------
(* A command runs once                                                     *)

\* A frame's handler is at work, or what it has called.
InHandler == {"responded", "handled"}
Executing(s, m) == \E i \in 1 .. Len(s) : s[i].at \in InHandler /\ s[i].msg = m

Pub(f) == f.type = "PUBLISH"

\* Nothing but a publish that does not poll is called by a handler, and the frame it
\* handles stays at the front of the buffer.
HandlerInv ==
  \A i \in 1 .. Len(stack) : stack[i].at \in InHandler =>
    /\ i = 1 \/ (i = 2 /\ stack[1].at = "publish" /\ stack[1].qos = 0)
    /\ accum # <<>> /\ Pub(accum[1]) /\ accum[1].msg = stack[i].msg

\* What has come from the broker and what is to come.
Arrivals == accum \o wire

Single(q) == \A i, j \in 1 .. Len(q) : Pub(q[i]) /\ Pub(q[j]) /\ q[i].msg = q[j].msg => i = j

\* Each message arrives once, and has not been executed but for the one in its handler.
ArrivalInv ==
  /\ Single(Arrivals)
  /\ \A i \in 1 .. Len(Arrivals) : Pub(Arrivals[i]) =>
       /\ Arrivals[i].msg \in sent
       /\ executed[Arrivals[i].msg] = 0 \/ (i = 1 /\ Executing(stack, Arrivals[i].msg))

RunOnce == \A m \in Messages : executed[m] \in {0, 1} /\ (executed[m] = 1 => m \in sent)

OnceInv == ~wild /\ HandlerInv /\ ArrivalInv /\ RunOnce

\* No frame is being handled.
Unhandled == \A i \in 1 .. Len(stack) : stack[i].at \notin InHandler

\* The messages of q are those of p from place k on, or some of them.
From(q, p, k) ==
  \A i \in 1 .. Len(q) : Pub(q[i]) => i + k \in 1 .. Len(p) /\ q[i] = p[i + k]

\* Taking messages away leaves each once.
LEMMA FromSingle ==
  ASSUME NEW p \in Seq(Frame), NEW q \in Seq(Frame), NEW k \in Nat, From(q, p, k), Single(p)
  PROVE  Single(q)
<1> SUFFICES ASSUME NEW i \in 1 .. Len(q), NEW j \in 1 .. Len(q),
                    Pub(q[i]), Pub(q[j]), q[i].msg = q[j].msg
             PROVE  i = j
  BY DEF Single
<1>1. i + k \in 1 .. Len(p) /\ q[i] = p[i + k] /\ j + k \in 1 .. Len(p) /\ q[j] = p[j + k]
  BY DEF From
<1>2. i + k = j + k BY <1>1 DEF Single
<1>3. i \in Int /\ j \in Int BY LenProperties
<1> QED BY <1>2, <1>3

\* What is received, or joins the wire at its end, keeps its place among all.
LEMMA Regroup ==
  ASSUME NEW F, NEW a \in Seq(F), NEW w \in Seq(F)
  PROVE  /\ \A n \in 0 .. Len(w) : (a \o SubSeq(w, 1, n)) \o SubSeq(w, n + 1, Len(w)) = a \o w
         /\ \A f \in F : a \o Append(w, f) = (a \o w) \o <<f>>
<1>1. ASSUME NEW n \in 0 .. Len(w)
      PROVE  (a \o SubSeq(w, 1, n)) \o SubSeq(w, n + 1, Len(w)) = a \o w
  <2> DEFINE u == SubSeq(w, 1, n)
             v == SubSeq(w, n + 1, Len(w))
  <2>1. u \in Seq(F) /\ v \in Seq(F) BY FramesTyped
  <2>2. u \o v = w
    <3>1. /\ Len(w) \in Nat /\ 1 \in 1 .. Len(w) + 1 /\ n \in 1 - 1 .. Len(w)
          /\ Len(w) \in n .. Len(w)
      BY LenProperties
    <3>2. u \o v = SubSeq(w, 1, Len(w)) BY <3>1, ConcatAdjacentSubSeq
    <3> QED BY <3>2, SubSeqFull
  <2> HIDE DEF u, v
  <2>3. (a \o u) \o v = a \o (u \o v) BY <2>1, ConcatAssociative
  <2> QED BY <2>2, <2>3 DEF u, v
<1>2. ASSUME NEW f \in F PROVE a \o Append(w, f) = (a \o w) \o <<f>>
  <2> DEFINE r == <<f>>
  <2>1. r \in Seq(F) OBVIOUS
  <2>2. Append(w, f) = w \o r BY AppendIsConcat
  <2> HIDE DEF r
  <2>3. (a \o w) \o r = a \o (w \o r) BY <2>1, ConcatAssociative
  <2> QED BY <2>2, <2>3 DEF r
<1> QED BY <1>1, <1>2

\* What may become of the frames on the wire, but for a new message.
LEMMA WireFrom ==
  ASSUME NEW w \in Seq(Frame)
  PROVE  /\ From(w, w, 0) /\ From(w \o <<>>, w, 0) /\ From(<<>>, w, 0)
         /\ \A f \in Frame : ~Pub(f) =>
              From(w \o <<f>>, w, 0) /\ From(Append(w, f), w, 0) /\ From(<<f>>, w, 0)
         /\ \A n \in 0 .. Len(w) : From(SubSeq(w, 1, n), w, 0)
<1>1. Len(w) \in Nat BY LenProperties
<1>2. From(w, w, 0) BY <1>1 DEF From
<1>3. w \o <<>> = w BY ConcatEmptySeq
<1>4. From(<<>>, w, 0) BY DEF From
<1>5. ASSUME NEW f \in Frame, ~Pub(f)
      PROVE  From(w \o <<f>>, w, 0) /\ From(Append(w, f), w, 0) /\ From(<<f>>, w, 0)
  <2> DEFINE q == w \o <<f>>
  <2>1. /\ Len(q) = Len(w) + 1 /\ Append(w, f) = q /\ q[Len(w) + 1] = f
        /\ \A i \in 1 .. Len(w) : q[i] = w[i]
    BY CutIs
  <2> HIDE DEF q
  <2>2. \A i \in 1 .. Len(q) : i + 0 = i /\ (i \in 1 .. Len(w) \/ i = Len(w) + 1) BY <1>1, <2>1
  <2>3. From(q, w, 0) BY <1>5, <2>1, <2>2 DEF From
  <2> DEFINE r == <<f>>
  <2>4. Len(r) = 1 /\ r[1] = f OBVIOUS
  <2> HIDE DEF r
  <2>5. \A i \in 1 .. Len(r) : i = 1 BY <2>4
  <2>6. From(r, w, 0) BY <1>5, <2>4, <2>5 DEF From
  <2> QED BY <2>1, <2>3, <2>6 DEF q, r
<1>6. ASSUME NEW n \in 0 .. Len(w) PROVE From(SubSeq(w, 1, n), w, 0)
  <2> DEFINE q == SubSeq(w, 1, n)
  <2>1. Len(q) = n /\ \A i \in 1 .. n : q[i] = w[i] BY CutIs
  <2> HIDE DEF q
  <2>2. \A i \in 1 .. n : i + 0 = i /\ i \in 1 .. Len(w) BY <1>1
  <2>3. From(q, w, 0) BY <2>1, <2>2 DEF From
  <2> QED BY <2>3 DEF q
<1> QED BY <1>2, <1>3, <1>4, <1>5, <1>6

\* The buffer in front of the wire is kept, loses its first frame, or is emptied.
LEMMA BufferFrom ==
  ASSUME NEW a \in Seq(Frame), NEW w \in Seq(Frame), NEW b \in Seq(Frame), NEW v \in Seq(Frame),
         From(v, w, 0)
  PROVE  /\ b = a => From(b \o v, a \o w, 0)
         /\ a # <<>> /\ b = Tail(a) => From(b \o v, a \o w, 1)
         /\ b = <<>> => From(b \o v, a \o w, Len(a))
<1>1. /\ Len(a \o w) = Len(a) + Len(w) /\ Len(a) \in Nat /\ Len(w) \in Nat
      /\ \A i \in 1 .. Len(a) : (a \o w)[i] = a[i]
      /\ \A i \in 1 .. Len(w) : (a \o w)[Len(a) + i] = w[i]
  BY ConcatIs
<1>2. /\ Len(b \o v) = Len(b) + Len(v) /\ Len(b) \in Nat /\ Len(v) \in Nat
      /\ \A i \in 1 .. Len(b) : (b \o v)[i] = b[i]
      /\ \A i \in 1 .. Len(v) : (b \o v)[Len(b) + i] = v[i]
  BY ConcatIs
<1> DEFINE p == a \o w
           q == b \o v
<1> HIDE DEF p, q
<1>3. ASSUME NEW k \in Nat, Len(b) + k = Len(a), \A i \in 1 .. Len(b) : b[i] = a[i + k]
      PROVE  From(q, p, k)
  <2> SUFFICES ASSUME NEW i \in 1 .. Len(q), Pub(q[i])
               PROVE  i + k \in 1 .. Len(p) /\ q[i] = p[i + k]
    BY DEF From
  <2>0. Len(q) = Len(b) + Len(v) /\ Len(p) = Len(a) + Len(w) BY <1>1, <1>2 DEF p, q
  <2>1. CASE i <= Len(b)
    <3>1. i \in 1 .. Len(b) /\ i + k \in 1 .. Len(a) BY <1>1, <1>2, <1>3, <2>1
    <3>2. q[i] = b[i] /\ b[i] = a[i + k] /\ p[i + k] = a[i + k]
      <4>1. q[i] = b[i] BY <1>2, <3>1 DEF q
      <4>2. b[i] = a[i + k] BY <1>3, <3>1
      <4>3. p[i + k] = a[i + k] BY <1>1, <3>1 DEF p
      <4> QED BY <4>1, <4>2, <4>3
    <3>3. i + k \in 1 .. Len(p) BY <1>1, <2>0, <3>1
    <3> QED BY <3>2, <3>3
  <2>2. CASE i > Len(b)
    <3> DEFINE j == i - Len(b)
    <3>0. /\ i \in Nat /\ i > Len(b) /\ i <= Len(b) + Len(v) /\ Len(a) = Len(b) + k
          /\ Len(b) \in Nat /\ Len(v) \in Nat
      BY <1>2, <1>3, <2>0, <2>2
    <3>1. j \in 1 .. Len(v) /\ i = Len(b) + j /\ i + k = Len(a) + j BY <3>0
    <3> HIDE DEF j
    <3>2. q[i] = v[j] BY <1>2, <3>1 DEF q
    <3>3. j + 0 = j BY <3>1
    <3>4. j \in 1 .. Len(w) /\ v[j] = w[j] BY <3>1, <3>2, <3>3 DEF From
    <3>5. p[i + k] = w[j] BY <1>1, <3>1, <3>4 DEF p
    <3>6. i + k \in 1 .. Len(p) BY <1>1, <2>0, <3>1, <3>4
    <3> QED BY <3>2, <3>4, <3>5, <3>6
  <2> QED BY <1>2, <2>0, <2>1, <2>2
<1>4. b = a => From(q, p, 0)
  <2> SUFFICES ASSUME b = a PROVE From(q, p, 0) OBVIOUS
  <2>1. 0 \in Nat /\ Len(b) + 0 = Len(a) /\ \A i \in 1 .. Len(b) : i + 0 = i BY <1>1, <1>2
  <2> QED BY <1>3, <2>1
<1>5. a # <<>> /\ b = Tail(a) => From(q, p, 1)
  <2> SUFFICES ASSUME a # <<>>, b = Tail(a) PROVE From(q, p, 1) OBVIOUS
  <2>1. Len(a) >= 1 /\ Len(b) = Len(a) - 1 /\ \A i \in 1 .. Len(b) : b[i] = a[i + 1] BY CutIs
  <2>2. 1 \in Nat /\ Len(b) + 1 = Len(a) BY <1>1, <2>1
  <2> QED BY <1>3, <2>1, <2>2
<1>6. b = <<>> => From(q, p, Len(a))
  <2> SUFFICES ASSUME b = <<>> PROVE From(q, p, Len(a)) OBVIOUS
  <2>1. Len(b) = 0 BY EmptySeq
  <2>2. Len(b) + Len(a) = Len(a) /\ \A i \in 1 .. Len(b) : b[i] = a[i + Len(a)] BY <1>1, <2>1
  <2> QED BY <1>1, <1>3, <2>2
<1> QED BY <1>4, <1>5, <1>6 DEF p, q

\* Fewer arrivals, the first of them or the one in a handler gone or still in it.
LEMMA ArrivalsKept ==
  ASSUME TypeOK, TypeOK', ArrivalInv, RunOnce, UNCHANGED <<sent, executed>>,
         NEW k \in Nat, From(Arrivals', Arrivals, k),
         k = 0 => \A m \in Messages : Executing(stack, m) => Executing(stack', m)
  PROVE  ArrivalInv' /\ RunOnce'
<1>1. Arrivals \in Seq(Frame) /\ Arrivals' \in Seq(Frame)
  BY FramesTyped DEF TypeOK, Arrivals
<1>2. Single(Arrivals)' BY <1>1, FromSingle DEF ArrivalInv, Single
<1>3. ASSUME NEW i \in 1 .. Len(Arrivals'), Pub(Arrivals'[i])
      PROVE  /\ Arrivals'[i].msg \in sent'
             /\ executed'[Arrivals'[i].msg] = 0 \/ (i = 1 /\ Executing(stack', Arrivals'[i].msg))
  <2>1. i + k \in 1 .. Len(Arrivals) /\ Arrivals'[i] = Arrivals[i + k] BY <1>3 DEF From
  <2>2. Arrivals[i + k] \in Frame BY <1>1, <2>1, ElementOfSeq
  <2>3. Arrivals[i + k].msg \in Messages BY <1>3, <2>1, <2>2 DEF Frame, Pub, Flags
  <2>4. i \in Nat /\ i >= 1 BY <1>1, LenProperties
  <2>5. i + k = 1 => i = 1 /\ k = 0 BY <2>4
  <2>6. /\ Arrivals[i + k].msg \in sent
        /\ executed[Arrivals[i + k].msg] = 0 \/ (i + k = 1 /\ Executing(stack, Arrivals[i + k].msg))
    BY <1>3, <2>1 DEF ArrivalInv
  <2> DEFINE m == Arrivals[i + k].msg
  <2>7. Arrivals'[i].msg = m BY <2>1
  <2>8. m \in Messages /\ m \in sent /\ (executed[m] = 0 \/ (i + k = 1 /\ Executing(stack, m)))
    BY <2>3, <2>6
  <2> HIDE DEF m
  <2>9. i = 1 /\ k = 0 /\ Executing(stack, m) => Executing(stack', m) BY <2>8
  <2> QED BY <2>5, <2>7, <2>8, <2>9
<1>4. ArrivalInv' BY <1>2, <1>3 DEF ArrivalInv
<1> QED BY <1>4 DEF RunOnce

\* What a step that handles no message does to the call stack,
Moves ==
  \E a, b : /\ a.at \notin InHandler /\ b.at \notin InHandler
            /\ \/ stack' = <<a>> \o Tail(stack) \/ stack' = <<b, a>> \o Tail(stack)
               \/ stack' = Tail(stack) \/ stack' = stack

\* and to the frames and what has become of them.
Passes ==
  /\ \/ accum' = accum \/ accum' = <<>>
     \/ accum # <<>> /\ accum' = Tail(accum)
  /\ From(wire', wire, 0) /\ UNCHANGED <<sent, executed, wild>>

\* It brings no handler onto the stack.
LEMMA MovesUnhandled ==
  ASSUME TypeOK, stack # <<>>, Unhandled, Moves
  PROVE  Unhandled'
<1>1. PICK a, b : /\ a.at \notin InHandler /\ b.at \notin InHandler
                  /\ \/ stack' = <<a>> \o Tail(stack) \/ stack' = <<b, a>> \o Tail(stack)
                     \/ stack' = Tail(stack) \/ stack' = stack
  BY DEF Moves
<1>2. Len(stack) \in Nat \ {0} BY PopIs
<1>3. CASE stack' = <<a>> \o Tail(stack)
  <2>1. /\ Len(stack') = Len(stack) /\ stack'[1] = a
        /\ \A i \in 2 .. Len(stack) : stack'[i] = stack[i]
    BY <1>3, ReplaceIs
  <2>2. \A i \in 1 .. Len(stack) : i = 1 \/ i \in 2 .. Len(stack) BY <1>2
  <2> QED BY <1>1, <2>1, <2>2 DEF Unhandled
<1>4. CASE stack' = <<b, a>> \o Tail(stack)
  <2>1. /\ Len(stack') = Len(stack) + 1 /\ stack'[1] = b /\ stack'[2] = a
        /\ \A i \in 3 .. Len(stack) + 1 : stack'[i] = stack[i - 1]
    BY <1>4, PushIs
  <2>2. \A i \in 1 .. Len(stack) + 1 :
          i = 1 \/ i = 2 \/ (i \in 3 .. Len(stack) + 1 /\ i - 1 \in 1 .. Len(stack))
    BY <1>2
  <2> QED BY <1>1, <2>1, <2>2 DEF Unhandled
<1>5. CASE stack' = Tail(stack)
  <2>1. /\ Len(stack') = Len(stack) - 1
        /\ \A i \in 1 .. Len(stack) - 1 : stack'[i] = stack[i + 1]
    BY <1>5, PopIs
  <2>2. \A i \in 1 .. Len(stack) - 1 : i + 1 \in 1 .. Len(stack) BY <1>2
  <2> QED BY <2>1, <2>2 DEF Unhandled
<1>6. CASE stack' = stack BY <1>6 DEF Unhandled
<1> QED BY <1>1, <1>3, <1>4, <1>5, <1>6

\* A handler is on the stack only where it or a publish of its own is running.
LEMMA NoneHandled ==
  ASSUME TypeOK, HandlerInv, stack # <<>>, Top.at \notin InHandler,
         Top.at = "publish" => Top.qos # 0
  PROVE  Unhandled
<1>1. Top = stack[1] BY PopIs
<1> QED BY <1>1 DEF HandlerInv, Unhandled

\* Fewer messages, or as many, are to arrive after it.
LEMMA PassesFrom ==
  ASSUME TypeOK, TypeOK', Passes
  PROVE  /\ \E k \in Nat : From(Arrivals', Arrivals, k)
         /\ accum' = accum => From(Arrivals', Arrivals, 0)
<1>1. /\ accum \in Seq(Frame) /\ wire \in Seq(Frame) /\ accum' \in Seq(Frame) /\ wire' \in Seq(Frame)
      /\ Len(accum) \in Nat
  BY LenProperties DEF TypeOK
<1>2. From(wire', wire, 0) BY DEF Passes
<1>3. accum' = accum => From(Arrivals', Arrivals, 0)
  <2> SUFFICES ASSUME accum' = accum PROVE From(Arrivals', Arrivals, 0) OBVIOUS
  <2>1. From(accum' \o wire', accum \o wire, 0) BY <1>1, <1>2, BufferFrom
  <2> QED BY <2>1 DEF Arrivals
<1>4. CASE accum' = <<>>
  <2>1. From(accum' \o wire', accum \o wire, Len(accum)) BY <1>1, <1>2, <1>4, BufferFrom
  <2> QED BY <1>1, <1>3, <2>1 DEF Arrivals
<1>5. CASE accum # <<>> /\ accum' = Tail(accum)
  <2>1. From(accum' \o wire', accum \o wire, 1) BY <1>1, <1>2, <1>5, BufferFrom
  <2> QED BY <1>3, <2>1 DEF Arrivals
<1> QED BY <1>3, <1>4, <1>5 DEF Passes

\* Without a handler, messages that pass are handled as often as before.
LEMMA UnhandledOnce ==
  ASSUME TypeOK, TypeOK', OnceInv, Unhandled, Unhandled', UNCHANGED <<sent, executed, wild>>,
         NEW k \in Nat, From(Arrivals', Arrivals, k)
  PROVE  OnceInv'
<1>1. \A m \in Messages : ~Executing(stack, m) BY DEF Unhandled, Executing
<1>2. ArrivalInv' /\ RunOnce' BY <1>1, ArrivalsKept DEF OnceInv
<1>3. HandlerInv' BY DEF Unhandled, HandlerInv
<1>4. ~wild' BY DEF OnceInv
<1> QED BY <1>2, <1>3, <1>4 DEF OnceInv

\* The ways in which a step changes the call stack.
LEMMA MovesAre ==
  ASSUME TypeOK, stack # <<>>, NEW l, l \notin InHandler, NEW id, NEW r, r.at \notin InHandler
  PROVE  /\ Goto(l) => Moves
         /\ CallFor(l, id, r) => Moves
         /\ stack' = <<r>> \o Tail(stack) => Moves
         /\ stack' = Tail(stack) => Moves
         /\ stack' = stack => Moves
<1>1. Goto(l) => Moves
  <2> SUFFICES ASSUME Goto(l) PROVE Moves OBVIOUS
  <2>1. PICK a : stack' = <<a>> \o Tail(stack) /\ a.at = l BY GotoIs
  <2> QED BY <2>1 DEF Moves
<1>2. CallFor(l, id, r) => Moves
  <2> SUFFICES ASSUME CallFor(l, id, r) PROVE Moves OBVIOUS
  <2> DEFINE a == [Top EXCEPT !.at = l, !.id = id]
  <2>1. stack' = <<r, a>> \o Tail(stack) BY DEF CallFor
  <2>2. a.at = l BY TypeFacts DEF Activation
  <2> HIDE DEF a
  <2> QED BY <2>1, <2>2 DEF Moves
<1> QED BY <1>1, <1>2 DEF Moves

\* No acknowledgement is a message; what is sent brings none, and a closed socket loses all.
LEMMA SendsPass ==
  ASSUME TypeOK
  PROVE  /\ From(wire, wire, 0)
         /\ Reaches(<<>>) => From(wire', wire, 0)
         /\ \A t \in Flags, id \in 0 .. IdMax : Reaches(<<Ack(t, id)>>) => From(wire', wire, 0)
         /\ SendFails \/ Drop => From(wire', wire, 0)
<1>1. wire \in Seq(Frame) BY DEF TypeOK
<1>2. ASSUME NEW t \in Flags, NEW id \in 0 .. IdMax, Reaches(<<Ack(t, id)>>)
      PROVE  From(wire', wire, 0)
  <2>1. Ack(t, id) \in Frame /\ ~Pub(Ack(t, id)) BY FrameTyped DEF Ack, Pub, Flags
  <2> DEFINE f == Ack(t, id)
  <2>2. wire' = wire \o <<f>> \/ wire' = wire BY <1>2 DEF Reaches
  <2>3. f \in Frame /\ ~Pub(f) BY <2>1
  <2> HIDE DEF f
  <2> QED BY <1>1, <2>2, <2>3, WireFrom
<1>3. Reaches(<<>>) => From(wire', wire, 0) BY <1>1, WireFrom DEF Reaches
<1>4. SendFails \/ Drop => From(wire', wire, 0) BY <1>1, WireFrom DEF SendFails, Drop
<1> QED BY <1>1, <1>2, <1>3, <1>4, WireFrom

\* The labels of the calls.
LEMMA CallsUnhandled ==
  /\ \A l : l \notin InHandler => Enter(l).at \notin InHandler
  /\ \A f : WaitFor(f).at \notin InHandler
  /\ \A q : PublishCall(q).at \notin InHandler
  /\ \A t : SubscribeCall(t).at \notin InHandler
BY CallsAre DEF InHandler

\* Connecting and maintaining handle no message.
LEMMA MaintainMoves ==
  ASSUME TypeOK, ConnectStep \/ MaintainStep
  PROVE  /\ stack # <<>> /\ Top.at \notin InHandler \cup {"publish"}
         /\ Moves /\ Passes
<1>0. stack # <<>> /\ Top.at \notin InHandler \cup {"publish"}
  BY DEF ConnectStep, KeepSession, ConnectFails, ConnectSent, ConnackSeen, ConnackTimeout,
         MaintainStep, MaintainPolled, MaintainConnected, MaintainPing, MaintainPinged,
         MaintainSubscribe, MaintainSubscribed, MaintainDrop, At, Top, InHandler
<1>1. \/ stack' = Tail(stack) \/ Goto("mt_ping") \/ Goto("mt_sub")
      \/ CallFor("mt_connected", Top.id, Enter("connect")) \/ CallFor("mt_pinged", Top.id, Enter("ping"))
      \/ CallFor("mt_subbed", Top.id, SubscribeCall(PlatformTopics))
      \/ CallFor("connack", Top.id, WaitFor("CONNACK"))
  BY DEF ConnectStep, KeepSession, ConnectFails, ConnectSent, ConnackSeen, ConnackTimeout,
         MaintainStep, MaintainPolled, MaintainConnected, MaintainPing, MaintainPinged,
         MaintainSubscribe, MaintainSubscribed, MaintainDrop, Call, Return
<1>2. Moves
  <2>1. /\ "mt_ping" \notin InHandler /\ "mt_sub" \notin InHandler /\ "mt_connected" \notin InHandler
        /\ "mt_pinged" \notin InHandler /\ "mt_subbed" \notin InHandler /\ "connack" \notin InHandler
        /\ "connect" \notin InHandler /\ "ping" \notin InHandler
    BY DEF InHandler
  <2>2. /\ Enter("connect").at \notin InHandler /\ Enter("ping").at \notin InHandler
        /\ SubscribeCall(PlatformTopics).at \notin InHandler /\ WaitFor("CONNACK").at \notin InHandler
    BY <2>1, CallsUnhandled
  <2> QED BY <1>0, <1>1, <2>1, <2>2, MovesAre
<1>3. CASE ConnectSent
  <2>1. PICK answer \in {"accept", "refuse", "none"} :
          wire' = IF answer = "none" THEN <<>>
                  ELSE <<Ack("CONNACK", IF answer = "accept" THEN 0 ELSE 1)>>
    BY <1>3 DEF ConnectSent
  <2> DEFINE f == Ack("CONNACK", IF answer = "accept" THEN 0 ELSE 1)
  <2>2. f \in Frame /\ ~Pub(f)
    <3>1. 0 \in 0 .. IdMax /\ 1 \in 0 .. IdMax BY ConstantsAssumption
    <3>2. "CONNACK" \in Flags BY DEF Flags
    <3> QED BY <3>1, <3>2, FrameTyped DEF Pub, Ack
  <2>3. wire' = <<>> \/ wire' = <<f>> BY <2>1
  <2> HIDE DEF f
  <2>4. From(wire', wire, 0) BY <2>2, <2>3, WireFrom DEF TypeOK
  <2>5. (accum' = accum \/ accum' = <<>>) /\ UNCHANGED <<sent, executed, wild>>
    BY <1>3 DEF ConnectSent, ghost
  <2> QED BY <1>0, <1>2, <2>4, <2>5 DEF Passes
<1>4. CASE ~ConnectSent
  <2>1. /\ Drop \/ (UNCHANGED wire /\ accum' = accum)
        /\ UNCHANGED <<sent, executed>> /\ wild' = wild
    BY <1>4 DEF ConnectStep, KeepSession, ConnectFails, ConnackSeen, ConnackTimeout, MaintainStep,
           MaintainPolled, MaintainConnected, MaintainPing, MaintainPinged, MaintainSubscribe,
           MaintainSubscribed, MaintainDrop, Drop, client, link, ghost
  <2>2. From(wire', wire, 0) BY <2>1, SendsPass
  <2>3. accum' = accum \/ accum' = <<>> BY <2>1 DEF Drop
  <2> QED BY <1>0, <1>2, <2>1, <2>2, <2>3 DEF Passes
<1> QED BY <1>3, <1>4

\* So do requests, except that a publish may be a handler's.
LEMMA RequestMoves ==
  ASSUME TypeOK, RequestStep
  PROVE  /\ stack # <<>> /\ Top.at \notin InHandler
         /\ Moves /\ Passes /\ accum' = accum
         /\ Top.at = "publish" /\ Top.qos = 0 => stack' = Tail(stack)
<1>0. stack # <<>> /\ Top.at \notin InHandler
  BY DEF RequestStep, Refuse, Subscribe, Suback, Unsubscribe, Ping, PublishQos0, PublishQos1,
         Puback, At, Top, InHandler
<1>1. \/ stack' = Tail(stack)
      \/ CallFor("suback", NextId, WaitFor("SUBACK")) \/ CallFor("puback", NextId, WaitFor("PUBACK"))
      \/ stack' = <<SubscribeCall(Tail(Top.todo))>> \o Tail(stack)
      \/ stack' = <<WaitFor("UNSUBACK")>> \o Tail(stack)
      \/ stack' = <<WaitFor("PINGRESP")>> \o Tail(stack)
  BY DEF RequestStep, Refuse, Subscribe, Suback, Unsubscribe, Ping, PublishQos0, PublishQos1,
         Puback, Return
<1>2. Moves
  <2>1. "suback" \notin InHandler /\ "puback" \notin InHandler BY DEF InHandler
  <2>2. (\A f : WaitFor(f).at \notin InHandler) /\ \A t : SubscribeCall(t).at \notin InHandler
    BY CallsUnhandled
  <2>3. /\ WaitFor("SUBACK").at \notin InHandler /\ WaitFor("PUBACK").at \notin InHandler
        /\ WaitFor("UNSUBACK").at \notin InHandler /\ WaitFor("PINGRESP").at \notin InHandler
        /\ SubscribeCall(Tail(Top.todo)).at \notin InHandler
    BY <2>2
  <2> QED BY <1>0, <1>1, <2>1, <2>3, MovesAre
<1>3. accum' = accum /\ UNCHANGED <<sent, executed, wild>>
  BY DEF RequestStep, Refuse, Subscribe, Suback, Unsubscribe, Ping, PublishQos0, PublishQos1,
         Puback, Request, client, ghost
<1>4. \/ UNCHANGED wire \/ SendFails \/ Reaches(<<>>)
      \/ \E t \in Flags, id \in 0 .. IdMax : Reaches(<<Ack(t, id)>>)
  <2>1. /\ "SUBACK" \in Flags /\ "PUBACK" \in Flags /\ "UNSUBACK" \in Flags /\ "PINGRESP" \in Flags
        /\ NextId \in 0 .. IdMax /\ 0 \in 0 .. IdMax
    <3>1. NextId \in 1 .. IdMax BY TypeFacts
    <3> QED BY <3>1, ConstantsAssumption DEF Flags
  <2> QED BY <2>1 DEF RequestStep, Refuse, Subscribe, Suback, Unsubscribe, Ping, PublishQos0,
                      PublishQos1, Puback, link
<1>5. From(wire', wire, 0) BY <1>4, SendsPass
<1>6. Top.at = "publish" /\ Top.qos = 0 => stack' = Tail(stack)
  BY DEF RequestStep, Refuse, Subscribe, Suback, Unsubscribe, Ping, PublishQos0, PublishQos1,
         Puback, At, Top, Return
<1> QED BY <1>0, <1>2, <1>3, <1>5, <1>6 DEF Passes

\* A poll, but for its handlers, and the wait around it.
LEMMA PollOnce ==
  ASSUME TypeOK, TypeOK', OnceInv, PollStep, ~HandlePublish, ~Responded, ~HandlerDone
  PROVE  OnceInv'
<1>0. stack # <<>> /\ Top.at \notin InHandler \cup {"publish"}
  BY DEF PollStep, Recv, HandleAck, HandleDisconnect, PollEnd, Wait, Check, At, Top, InHandler
<1>1. Unhandled BY <1>0, NoneHandled DEF OnceInv
<1>2. Moves
  <2>1. "frames" \notin InHandler /\ "polled" \notin InHandler /\ "check" \notin InHandler
        /\ "wait" \notin InHandler /\ "poll" \notin InHandler
    BY DEF InHandler
  <2>2. Enter("poll").at \notin InHandler BY <2>1, CallsUnhandled
  <2>3. CASE Recv
    <3>1. Goto("frames") \/ Goto("polled") BY <2>3 DEF Recv
    <3> QED BY <1>0, <2>1, <2>2, <3>1, MovesAre
  <2>4. CASE HandleAck \/ HandleDisconnect
    <3>1. stack' = stack BY <2>4 DEF HandleAck, HandleDisconnect, control
    <3> QED BY <1>0, <2>1, <2>2, <3>1, MovesAre
  <2>5. CASE PollEnd
    <3>1. stack' = Tail(stack) BY <2>5 DEF PollEnd, Return
    <3> QED BY <1>0, <2>1, <2>2, <3>1, MovesAre
  <2>6. CASE Wait
    <3>1. CallFor("check", Top.id, Enter("poll")) BY <2>6 DEF Wait, Call
    <3> QED BY <1>0, <2>1, <2>2, <3>1, MovesAre
  <2>7. CASE Check
    <3> DEFINE a == [Top EXCEPT !.at = "wait", !.left = Top.left - 1]
    <3>1. a.at = "wait" BY <1>0, TypeFacts DEF Activation
    <3>2. stack' = Tail(stack) \/ stack' = <<a>> \o Tail(stack) BY <2>7 DEF Check, Return
    <3> HIDE DEF a
    <3> QED BY <1>0, <2>1, <3>1, <3>2, MovesAre
  <2> QED BY <2>3, <2>4, <2>5, <2>6, <2>7 DEF PollStep
<1>3. Unhandled' BY <1>0, <1>1, <1>2, MovesUnhandled
<1>4. UNCHANGED <<sent, executed, wild>>
  BY DEF PollStep, Recv, HandleAck, HandleDisconnect, PollEnd, Wait, Check, client, ghost
<1>5. CASE Recv
  <2>1. PICK n \in 0 .. Len(wire) :
          accum' = accum \o SubSeq(wire, 1, n) /\ wire' = SubSeq(wire, n + 1, Len(wire))
    BY <1>5 DEF Recv
  <2>2. accum \in Seq(Frame) /\ wire \in Seq(Frame) /\ Len(wire) \in Nat BY LenProperties DEF TypeOK
  <2>3. (accum \o SubSeq(wire, 1, n)) \o SubSeq(wire, n + 1, Len(wire)) = accum \o wire
    BY <2>2, Regroup
  <2>5. Arrivals' = Arrivals BY <2>1, <2>3 DEF Arrivals
  <2>6. Arrivals \in Seq(Frame) BY <2>2, FramesTyped DEF Arrivals
  <2>7. From(Arrivals', Arrivals, 0) BY <2>5, <2>6, WireFrom
  <2> QED BY <1>1, <1>3, <1>4, <2>7, UnhandledOnce
<1>6. CASE ~Recv
  <2>1. /\ wire' = wire
        /\ accum' = accum \/ accum' = <<>> \/ (accum # <<>> /\ accum' = Tail(accum))
    BY <1>6 DEF PollStep, HandleAck, HandleDisconnect, PollEnd, Wait, Check, client, link
  <2>2. Passes BY <1>4, <2>1, SendsPass DEF Passes
  <2> QED BY <1>1, <1>3, <1>4, <2>2, PassesFrom, UnhandledOnce
<1> QED BY <1>5, <1>6

\* A publish of a handler that does not wait.
LEMMA RequestOnce ==
  ASSUME TypeOK, TypeOK', OnceInv, RequestStep
  PROVE  OnceInv'
<1>1. /\ stack # <<>> /\ Top.at \notin InHandler /\ Moves /\ Passes /\ accum' = accum
      /\ Top.at = "publish" /\ Top.qos = 0 => stack' = Tail(stack)
  BY RequestMoves
<1>2. UNCHANGED <<sent, executed, wild>> BY <1>1 DEF Passes
<1>3. CASE ~(Top.at = "publish" /\ Top.qos = 0)
  <2>1. Unhandled BY <1>1, <1>3, NoneHandled DEF OnceInv
  <2>2. Unhandled' BY <1>1, <2>1, MovesUnhandled
  <2> QED BY <1>1, <1>2, <2>1, <2>2, PassesFrom, UnhandledOnce
<1>4. CASE Top.at = "publish" /\ Top.qos = 0
  <2>1. /\ Len(stack') = Len(stack) - 1 /\ Len(stack) \in Nat \ {0} /\ Top = stack[1]
        /\ \A i \in 1 .. Len(stack) - 1 : stack'[i] = stack[i + 1]
    BY <1>1, <1>4, PopIs
  <2>2. ASSUME NEW i \in 1 .. Len(stack), stack[i].at \in InHandler
        PROVE  /\ i = 2 /\ 1 \in 1 .. Len(stack') /\ stack'[1] = stack[2]
               /\ accum # <<>> /\ Pub(accum[1]) /\ accum[1].msg = stack[i].msg
    <3>1. i # 1 BY <1>1, <2>1, <2>2
    <3>2. i = 2 /\ accum # <<>> /\ Pub(accum[1]) /\ accum[1].msg = stack[i].msg
      BY <2>2, <3>1 DEF OnceInv, HandlerInv
    <3>3. 1 \in 1 .. Len(stack) - 1 BY <2>1, <3>2
    <3>4. stack'[1] = stack[1 + 1] BY <2>1, <3>3
    <3> QED BY <2>1, <3>2, <3>3, <3>4
  <2>3. HandlerInv'
    <3> SUFFICES ASSUME NEW i \in 1 .. Len(stack'), stack'[i].at \in InHandler
                 PROVE  i = 1 /\ accum' # <<>> /\ Pub(accum'[1]) /\ accum'[1].msg = stack'[i].msg
      BY DEF HandlerInv
    <3>1. i \in 1 .. Len(stack) - 1 /\ i + 1 \in 1 .. Len(stack) /\ stack'[i] = stack[i + 1] BY <2>1
    <3>2. i + 1 = 2 /\ accum # <<>> /\ Pub(accum[1]) /\ accum[1].msg = stack[i + 1].msg
      BY <2>2, <3>1
    <3> QED BY <1>1, <3>1, <3>2
  <2>4. \A m \in Messages : Executing(stack, m) => Executing(stack', m) BY <2>2 DEF Executing
  <2>5. From(Arrivals', Arrivals, 0) BY <1>1, PassesFrom
  <2>6. ArrivalInv' /\ RunOnce' BY <1>2, <2>4, <2>5, ArrivalsKept DEF OnceInv
  <2>7. ~wild' BY <1>2 DEF OnceInv
  <2> QED BY <2>3, <2>6, <2>7 DEF OnceInv
<1> QED BY <1>3, <1>4

\* A handler that is back at "responded" goes on, or publishes once more; the frame it
\* handles is still the first of the buffer.
LEMMA RespondedOnce ==
  ASSUME TypeOK, TypeOK', OnceInv, PubQos = 0, Responded
  PROVE  OnceInv'
<1>1. /\ stack # <<>> /\ Top.at = "responded" /\ UNCHANGED <<accum, wire, wild, sent, executed>>
      /\ Goto("handled") \/ CallFor("handled", Top.id, PublishCall(PubQos))
  BY DEF Responded, At, Top, Call, client, link, ghost
<1>2. Len(stack) \in Nat \ {0} /\ Top = stack[1] BY <1>1, PopIs
<1>3. "responded" \in InHandler /\ "handled" \in InHandler BY DEF InHandler
<1>4. accum # <<>> /\ Pub(accum[1]) /\ accum[1].msg = Top.msg
  <2>1. 1 \in 1 .. Len(stack) BY <1>2
  <2> QED BY <1>1, <1>2, <1>3, <2>1 DEF OnceInv, HandlerInv
<1>5. \A i \in 2 .. Len(stack) : stack[i].at \notin InHandler
  <2> SUFFICES ASSUME NEW i \in 2 .. Len(stack), stack[i].at \in InHandler PROVE FALSE OBVIOUS
  <2>1. i \in 1 .. Len(stack) /\ i # 1 BY <1>2
  <2>2. stack[1].at = "publish" BY <2>1 DEF OnceInv, HandlerInv
  <2> QED BY <1>1, <1>2, <2>2
<1>6. HandlerInv' /\ \A m \in Messages : Executing(stack, m) => Executing(stack', m)
  <2>1. CASE Goto("handled")
    <3> DEFINE a == [Top EXCEPT !.at = "handled"]
    <3>0. stack' = <<a>> \o Tail(stack) BY <2>1 DEF Goto
    <3>1. a.at = "handled" /\ a.msg = Top.msg BY <1>1, TypeFacts DEF Activation
    <3> HIDE DEF a
    <3>2. /\ Len(stack') = Len(stack) /\ stack'[1] = a
          /\ \A i \in 2 .. Len(stack) : stack'[i] = stack[i]
      BY <1>1, <3>0, ReplaceIs
    <3>3. \A i \in 1 .. Len(stack) : i = 1 \/ i \in 2 .. Len(stack) BY <1>2
    <3>4. HandlerInv' BY <1>1, <1>4, <1>5, <3>1, <3>2, <3>3 DEF HandlerInv
    <3>5. 1 \in 1 .. Len(stack') BY <1>2, <3>2
    <3>6. \A m \in Messages : Executing(stack, m) => Executing(stack', m)
      BY <1>2, <1>3, <1>5, <3>1, <3>2, <3>3, <3>5 DEF Executing
    <3> QED BY <3>4, <3>6
  <2>2. CASE CallFor("handled", Top.id, PublishCall(PubQos))
    <3> DEFINE a == [Top EXCEPT !.at = "handled", !.id = Top.id]
               p == PublishCall(PubQos)
    <3>1. stack' = <<p, a>> \o Tail(stack) BY <2>2 DEF CallFor
    <3>2. a.at = "handled" /\ a.msg = Top.msg BY <1>1, TypeFacts DEF Activation
    <3>3. p.at = "publish" /\ p.qos = 0 BY CallsAre
    <3> HIDE DEF a, p
    <3>4. /\ Len(stack') = Len(stack) + 1 /\ stack'[1] = p /\ stack'[2] = a
          /\ \A i \in 3 .. Len(stack) + 1 : stack'[i] = stack[i - 1]
      BY <1>1, <3>1, PushIs
    <3>5. \A i \in 1 .. Len(stack) + 1 :
            i = 1 \/ i = 2 \/ (i \in 3 .. Len(stack) + 1 /\ i - 1 \in 2 .. Len(stack))
      BY <1>2
    <3>6. \A i \in 1 .. Len(stack') : stack'[i].at \in InHandler => i = 2
      BY <1>5, <3>3, <3>4, <3>5 DEF InHandler
    <3>7. HandlerInv' BY <1>1, <1>4, <3>2, <3>3, <3>4, <3>6 DEF HandlerInv
    <3>8. 2 \in 1 .. Len(stack') /\ \A i \in 1 .. Len(stack) : i = 1 \/ i \in 2 .. Len(stack)
      BY <1>2, <3>4
    <3>9. \A m \in Messages : Executing(stack, m) => Executing(stack', m)
      BY <1>2, <1>3, <1>5, <3>2, <3>4, <3>8 DEF Executing
    <3> QED BY <3>7, <3>9
  <2> QED BY <1>1, <2>1, <2>2
<1>7. Passes BY <1>1, SendsPass DEF Passes
<1>8. From(Arrivals', Arrivals, 0) BY <1>1, <1>7, PassesFrom
<1>9. ArrivalInv' /\ RunOnce' BY <1>1, <1>6, <1>8, ArrivalsKept DEF OnceInv
<1>10. ~wild' BY <1>1 DEF OnceInv
<1> QED BY <1>6, <1>9, <1>10 DEF OnceInv

\* A handler that is done takes its own frame off the buffer.
LEMMA HandledOnce ==
  ASSUME TypeOK, TypeOK', OnceInv, HandlerDone
  PROVE  OnceInv'
<1>1. /\ stack # <<>> /\ Top.at = "handled" /\ UNCHANGED <<sent, executed>>
      /\ Goto("frames")
      /\ UNCHANGED wire \/ Reaches(<<>>) \/ SendFails
  BY DEF HandlerDone, At, Top, ghost, link
<1>2. Len(stack) \in Nat \ {0} /\ Top = stack[1] BY <1>1, PopIs
<1>3. accum # <<>>
  <2>1. 1 \in 1 .. Len(stack) /\ "handled" \in InHandler BY <1>2 DEF InHandler
  <2> QED BY <1>1, <1>2, <2>1 DEF OnceInv, HandlerInv
<1>4. accum' = Tail(accum) /\ wild' = wild BY <1>3 DEF HandlerDone
<1>5. \A i \in 2 .. Len(stack) : stack[i].at \notin InHandler
  <2> SUFFICES ASSUME NEW i \in 2 .. Len(stack), stack[i].at \in InHandler PROVE FALSE OBVIOUS
  <2>1. i \in 1 .. Len(stack) /\ i # 1 BY <1>2
  <2>2. stack[1].at = "publish" BY <2>1 DEF OnceInv, HandlerInv
  <2> QED BY <1>1, <1>2, <2>2
<1>6. Unhandled'
  <2>1. PICK a : stack' = <<a>> \o Tail(stack) /\ a.at = "frames" BY <1>1, GotoIs
  <2>2. /\ Len(stack') = Len(stack) /\ stack'[1] = a
        /\ \A i \in 2 .. Len(stack) : stack'[i] = stack[i]
    BY <1>1, <2>1, ReplaceIs
  <2>3. \A i \in 1 .. Len(stack) : i = 1 \/ i \in 2 .. Len(stack) BY <1>2
  <2> QED BY <1>5, <2>1, <2>2, <2>3 DEF Unhandled, InHandler
<1>7. From(wire', wire, 0) BY <1>1, SendsPass
<1>8. From(Arrivals', Arrivals, 1)
  <2>1. From(accum' \o wire', accum \o wire, 1) BY <1>3, <1>4, <1>7, BufferFrom DEF TypeOK
  <2> QED BY <2>1 DEF Arrivals
<1>9. ArrivalInv' /\ RunOnce'
  <2>1. 1 \in Nat /\ 1 # 0 OBVIOUS
  <2> QED BY <1>1, <1>8, <2>1, ArrivalsKept DEF OnceInv
<1>10. HandlerInv' BY <1>6 DEF Unhandled, HandlerInv
<1> QED BY <1>4, <1>9, <1>10 DEF OnceInv

\* A message is handed to its handler for the first time.
LEMMA HandledFirst ==
  ASSUME TypeOK, TypeOK', OnceInv, PubQos = 0, HandlePublish
  PROVE  OnceInv'
<1> DEFINE m == Head(accum).msg
           a == [Top EXCEPT !.at = IF m \in Commands THEN "responded" ELSE "handled", !.msg = m]
           p == PublishCall(PubQos)
<1>1. /\ stack # <<>> /\ Top.at = "frames" /\ accum # <<>> /\ Pub(Head(accum))
      /\ UNCHANGED <<accum, wire, wild, sent>>
      /\ executed' = [executed EXCEPT ![m] = IF @ < 2 THEN @ + 1 ELSE @]
      /\ stack' = <<p, a>> \o Tail(stack) \/ stack' = <<a>> \o Tail(stack)
  BY DEF HandlePublish, At, Top, Pub, link
<1>2. a.at \in InHandler /\ a.msg = m
  <2>1. Top \in Activation BY <1>1, TypeFacts
  <2> QED BY <2>1 DEF Activation, InHandler
<1>3. p.at = "publish" /\ p.qos = 0 BY CallsAre
<1>4. m \in Messages
  <2>1. Head(accum) \in Frame BY <1>1, TypeFacts
  <2> QED BY <1>1, <2>1 DEF Frame, Pub, Flags
<1>5. Head(accum) = accum[1] /\ accum \in Seq(Frame) /\ wire \in Seq(Frame) /\ Len(accum) \in Nat \ {0}
  <2>1. accum \in Seq(Frame) /\ wire \in Seq(Frame) BY DEF TypeOK
  <2> QED BY <1>1, <2>1, CutIs
<1>6. accum[1].msg = m /\ Pub(accum[1]) BY <1>1, <1>5
<1> HIDE DEF m, a, p
<1>7. Unhandled
  <2>1. Top.at \notin InHandler /\ Top.at # "publish" BY <1>1 DEF InHandler
  <2> QED BY <1>1, <2>1, NoneHandled DEF OnceInv
<1>8. Len(stack) \in Nat \ {0} BY <1>1, PopIs
<1>9. HandlerInv' /\ Executing(stack', m)
  <2>1. CASE stack' = <<a>> \o Tail(stack)
    <3>1. /\ Len(stack') = Len(stack) /\ stack'[1] = a
          /\ \A i \in 2 .. Len(stack) : stack'[i] = stack[i]
      BY <1>1, <2>1, ReplaceIs
    <3>2. \A i \in 1 .. Len(stack) : i = 1 \/ i \in 2 .. Len(stack) BY <1>8
    <3>3. \A i \in 1 .. Len(stack') : stack'[i].at \in InHandler => i = 1
      BY <1>7, <3>1, <3>2 DEF Unhandled
    <3>4. HandlerInv' BY <1>1, <1>2, <1>6, <3>1, <3>3 DEF HandlerInv
    <3>5. 1 \in 1 .. Len(stack') BY <1>8, <3>1
    <3> QED BY <1>2, <3>1, <3>4, <3>5 DEF Executing
  <2>2. CASE stack' = <<p, a>> \o Tail(stack)
    <3>1. /\ Len(stack') = Len(stack) + 1 /\ stack'[1] = p /\ stack'[2] = a
          /\ \A i \in 3 .. Len(stack) + 1 : stack'[i] = stack[i - 1]
      BY <1>1, <2>2, PushIs
    <3>2. \A i \in 1 .. Len(stack) + 1 :
            i = 1 \/ i = 2 \/ (i \in 3 .. Len(stack) + 1 /\ i - 1 \in 1 .. Len(stack))
      BY <1>8
    <3>3. \A i \in 1 .. Len(stack') : stack'[i].at \in InHandler => i = 2
      BY <1>3, <1>7, <3>1, <3>2 DEF Unhandled, InHandler
    <3>4. HandlerInv' BY <1>1, <1>2, <1>3, <1>6, <3>1, <3>3 DEF HandlerInv
    <3>5. 2 \in 1 .. Len(stack') BY <1>8, <3>1
    <3> QED BY <1>2, <3>1, <3>4, <3>5 DEF Executing
  <2> QED BY <1>1, <2>1, <2>2
<1>10. Arrivals' = Arrivals /\ Arrivals \in Seq(Frame) BY <1>1, <1>5, FramesTyped DEF Arrivals
<1>11. 1 \in 1 .. Len(Arrivals) /\ Arrivals[1] = accum[1]
  <2>1. /\ Len(Arrivals) = Len(accum) + Len(wire) /\ Len(wire) \in Nat
        /\ \A i \in 1 .. Len(accum) : Arrivals[i] = accum[i]
    BY <1>5, ConcatIs DEF Arrivals
  <2>2. 1 \in 1 .. Len(accum) /\ 1 \in 1 .. Len(accum) + Len(wire) BY <1>5, <2>1
  <2> QED BY <2>1, <2>2
<1>12. executed[m] = 0 /\ m \in sent
  <2>1. m \in sent /\ (executed[m] = 0 \/ Executing(stack, m))
    BY <1>6, <1>11 DEF OnceInv, ArrivalInv
  <2> QED BY <1>7, <2>1 DEF Unhandled, Executing
<1>13. executed'[m] = 1 /\ \A n \in Messages \ {m} : executed'[n] = executed[n]
  <2>1. executed \in [Messages -> 0 .. 2] BY DEF TypeOK
  <2> QED BY <1>1, <1>4, <1>12, <2>1
<1>14. RunOnce' BY <1>1, <1>12, <1>13 DEF OnceInv, RunOnce
<1>15. ArrivalInv'
  <2>1. Single(Arrivals)' BY <1>10 DEF OnceInv, ArrivalInv, Single
  <2>2. ASSUME NEW i \in 1 .. Len(Arrivals), Pub(Arrivals[i])
        PROVE  /\ Arrivals[i].msg \in sent'
               /\ executed'[Arrivals[i].msg] = 0 \/ (i = 1 /\ Executing(stack', Arrivals[i].msg))
    <3>1. CASE i = 1 BY <1>1, <1>6, <1>9, <1>11, <1>12, <3>1
    <3>2. CASE i # 1
      <4>1. Arrivals[i].msg # m
        BY <1>6, <1>11, <2>2, <3>2 DEF OnceInv, ArrivalInv, Single
      <4>2. Arrivals[i].msg \in sent /\ executed[Arrivals[i].msg] = 0
        BY <2>2, <3>2 DEF OnceInv, ArrivalInv
      <4>3. Arrivals[i] \in Frame BY <1>10, ElementOfSeq
      <4>4. Arrivals[i].msg \in Messages BY <2>2, <4>3 DEF Frame, Pub, Flags
      <4> QED BY <1>1, <1>13, <4>1, <4>2, <4>4
    <3> QED BY <3>1, <3>2
  <2>3. \A i \in 1 .. Len(Arrivals') : Pub(Arrivals'[i]) =>
          /\ Arrivals'[i].msg \in sent'
          /\ executed'[Arrivals'[i].msg] = 0 \/ (i = 1 /\ Executing(stack', Arrivals'[i].msg))
    BY <1>10, <2>2
  <2> QED BY <2>1, <2>3 DEF ArrivalInv
<1>16. ~wild' BY <1>1 DEF OnceInv
<1> QED BY <1>9, <1>14, <1>15, <1>16 DEF OnceInv

\* The broker publishes a message for the first time.
LEMMA PublishedOnce ==
  ASSUME TypeOK, TypeOK', OnceInv, NEW m \in Messages, BrokerPublish(m)
  PROVE  OnceInv'
<1> DEFINE f == Downlink(m)
           p == Arrivals
           q == p \o <<f>>
<1>1. /\ wire' = Append(wire, f) /\ sent' = sent \cup {m} /\ m \notin sent
      /\ UNCHANGED <<accum, wild, stack, executed>>
  BY DEF BrokerPublish, client, control
<1>2. accum \in Seq(Frame) /\ wire \in Seq(Frame) /\ f \in Frame /\ f.msg = m
  BY FrameTyped DEF TypeOK, Downlink
<1> HIDE DEF f
<1>3. Arrivals' = q /\ p \in Seq(Frame)
  <2>1. accum \o Append(wire, f) = (accum \o wire) \o <<f>> BY <1>2, Regroup
  <2> QED BY <1>1, <1>2, <2>1, FramesTyped DEF Arrivals
<1> HIDE DEF p, q
<1>4. /\ Len(q) = Len(p) + 1 /\ Len(p) \in Nat /\ q[Len(p) + 1] = f
      /\ \A i \in 1 .. Len(p) : q[i] = p[i]
  BY <1>2, <1>3, CutIs DEF q
<1>5. \A i \in 1 .. Len(q) : i \in 1 .. Len(p) \/ i = Len(p) + 1 BY <1>4
<1>6. \A i \in 1 .. Len(p) : Pub(p[i]) =>
        /\ p[i].msg \in sent /\ p[i].msg # m
        /\ executed[p[i].msg] = 0 \/ (i = 1 /\ Executing(stack, p[i].msg))
  BY <1>1 DEF OnceInv, ArrivalInv, p
<1>7. executed[m] = 0 BY <1>1 DEF OnceInv, RunOnce
<1>8. Single(q)
  <2> SUFFICES ASSUME NEW i \in 1 .. Len(q), NEW j \in 1 .. Len(q),
                      Pub(q[i]), Pub(q[j]), q[i].msg = q[j].msg
               PROVE  i = j
    BY DEF Single
  <2>1. CASE i \in 1 .. Len(p) /\ j \in 1 .. Len(p)
    <3>1. q[i] = p[i] /\ q[j] = p[j] BY <1>4, <2>1
    <3> QED BY <2>1, <3>1 DEF OnceInv, ArrivalInv, Single, p
  <2>2. CASE i \in 1 .. Len(p) /\ j = Len(p) + 1
    <3>1. q[i] = p[i] /\ q[j] = f BY <1>4, <2>2
    <3> QED BY <1>2, <1>6, <2>2, <3>1
  <2>3. CASE j \in 1 .. Len(p) /\ i = Len(p) + 1
    <3>1. q[j] = p[j] /\ q[i] = f BY <1>4, <2>3
    <3> QED BY <1>2, <1>6, <2>3, <3>1
  <2> QED BY <1>5, <2>1, <2>2, <2>3
<1>9. \A i \in 1 .. Len(q) : Pub(q[i]) =>
        /\ q[i].msg \in sent'
        /\ executed'[q[i].msg] = 0 \/ (i = 1 /\ Executing(stack', q[i].msg))
  <2> SUFFICES ASSUME NEW i \in 1 .. Len(q), Pub(q[i])
               PROVE  /\ q[i].msg \in sent'
                      /\ executed'[q[i].msg] = 0 \/ (i = 1 /\ Executing(stack', q[i].msg))
    OBVIOUS
  <2>1. CASE i \in 1 .. Len(p)
    <3>1. q[i] = p[i] BY <1>4, <2>1
    <3> QED BY <1>1, <1>6, <2>1, <3>1
  <2>2. CASE i = Len(p) + 1
    <3>1. q[i].msg = m BY <1>2, <1>4, <2>2
    <3> QED BY <1>1, <1>7, <3>1
  <2> QED BY <1>5, <2>1, <2>2
<1>10. ArrivalInv' BY <1>3, <1>8, <1>9 DEF ArrivalInv, Single
<1>11. HandlerInv' /\ RunOnce' /\ ~wild' BY <1>1 DEF OnceInv, HandlerInv, RunOnce
<1> QED BY <1>10, <1>11 DEF OnceInv

\* What else the network does, and what the threads begin.
LEMMA OthersOnce ==
  ASSUME TypeOK, TypeOK', OnceInv, Environment \/ Threads, ~(\E m \in Messages : BrokerPublish(m))
  PROVE  OnceInv'
<1>1. CASE Environment \/ ScriptRead
  <2>1. UNCHANGED <<stack, accum, sent, executed, wild>>
    BY <1>1 DEF Environment, BrokerDisconnect, LinkLost, Stabilise, PingClock, RetryClock, ScriptRead,
                client, control, ghost
  <2>2. From(wire', wire, 0)
    <3>1. wire \in Seq(Frame) BY DEF TypeOK
    <3>2. CASE BrokerDisconnect
      <4> DEFINE f == Ack("DISCONNECT", 0)
      <4>1. f \in Frame /\ ~Pub(f)
        <5>1. 0 \in 0 .. IdMax /\ "DISCONNECT" \in Flags \cup {"DISCONNECT"} BY ConstantsAssumption
        <5> QED BY <5>1, FrameTyped DEF Ack, Pub
      <4>2. wire' = Append(wire, f) BY <3>2 DEF BrokerDisconnect
      <4> HIDE DEF f
      <4> QED BY <3>1, <4>1, <4>2, WireFrom
    <3>3. CASE LinkLost BY <3>1, <3>3, WireFrom DEF LinkLost
    <3>4. CASE ~BrokerDisconnect /\ ~LinkLost
      <4>1. wire' = wire
        BY <1>1, <3>4 DEF Environment, Stabilise, PingClock, RetryClock, ScriptRead, link
      <4> QED BY <3>1, <4>1, WireFrom
    <3> QED BY <3>2, <3>3, <3>4
  <2>3. Passes BY <2>1, <2>2 DEF Passes
  <2>4. From(Arrivals', Arrivals, 0) BY <2>1, <2>3, PassesFrom
  <2>5. ArrivalInv' /\ RunOnce' BY <2>1, <2>4, ArrivalsKept DEF OnceInv
  <2>6. HandlerInv' /\ ~wild' BY <2>1 DEF OnceInv, HandlerInv
  <2> QED BY <2>5, <2>6 DEF OnceInv
<1>2. CASE Threads /\ ~ScriptRead
  <2>1. stack = <<>> /\ UNCHANGED <<sent, executed, wild>>
    BY <1>2 DEF Threads, Maintain, Report, RxPoll, ScriptCall, ScriptDisconnect, Start, Idle, Drop,
                client, ghost
  <2>2. Unhandled BY <2>1 DEF Unhandled
  <2>3. Drop \/ (UNCHANGED wire /\ accum' = accum)
    BY <1>2 DEF Threads, Maintain, Report, RxPoll, ScriptCall, ScriptDisconnect, Start, client, link
  <2>4. Passes BY <2>1, <2>3, SendsPass DEF Passes, Drop
  <2>5. \/ stack' = stack \/ \E c : c.at \notin InHandler /\ stack' = <<c>>
        \/ stack' = <<Enter("poll"), Enter("mt_polled")>>
    <3>1. "poll" \notin InHandler /\ "connect" \notin InHandler /\ "unsub" \notin InHandler
          /\ "ping" \notin InHandler
      BY DEF InHandler
    <3>2. /\ Enter("poll").at \notin InHandler /\ Enter("connect").at \notin InHandler
          /\ Enter("unsub").at \notin InHandler /\ Enter("ping").at \notin InHandler
          /\ PublishCall(PubQos).at \notin InHandler /\ PublishCall(0).at \notin InHandler
          /\ PublishCall(1).at \notin InHandler /\ SubscribeCall(<<"app">>).at \notin InHandler
          /\ SubscribeCall(PlatformTopics).at \notin InHandler
      BY <3>1, CallsUnhandled
    <3>3. CASE Maintain BY <3>3 DEF Maintain, Start
    <3>4. CASE Report \/ RxPoll BY <3>2, <3>4 DEF Report, RxPoll, Start
    <3>5. CASE ScriptDisconnect BY <3>5 DEF ScriptDisconnect, control
    <3>6. CASE ScriptCall
      <4>1. PICK c \in {Enter("connect"), SubscribeCall(<<"app">>), SubscribeCall(PlatformTopics),
                        Enter("unsub"), Enter("ping"), PublishCall(0), PublishCall(1)} : stack' = <<c>>
        BY <3>6 DEF ScriptCall, Start
      <4>2. c.at \notin InHandler BY <3>2, <4>1
      <4> QED BY <4>1, <4>2
    <3> QED BY <1>2, <3>3, <3>4, <3>5, <3>6 DEF Threads
  <2>6. Unhandled'
    <3>1. CASE stack' = stack BY <2>2, <3>1 DEF Unhandled
    <3>2. ASSUME NEW c, c.at \notin InHandler, stack' = <<c>> PROVE Unhandled'
      <4>1. Len(stack') = 1 /\ stack'[1] = c BY <3>2
      <4> QED BY <3>2, <4>1 DEF Unhandled
    <3>3. CASE stack' = <<Enter("poll"), Enter("mt_polled")>>
      <4>1. Len(stack') = 2 /\ stack'[1] = Enter("poll") /\ stack'[2] = Enter("mt_polled") BY <3>3
      <4>2. Enter("poll").at \notin InHandler /\ Enter("mt_polled").at \notin InHandler
        BY CallsAre DEF InHandler
      <4> QED BY <4>1, <4>2 DEF Unhandled
    <3> QED BY <2>5, <3>1, <3>2, <3>3
  <2> QED BY <2>1, <2>2, <2>4, <2>6, PassesFrom, UnhandledOnce
<1> QED BY <1>1, <1>2

\* Connecting and maintaining.
LEMMA MaintainOnce ==
  ASSUME TypeOK, TypeOK', OnceInv, ConnectStep \/ MaintainStep
  PROVE  OnceInv'
<1>1. /\ stack # <<>> /\ Top.at \notin InHandler \cup {"publish"}
      /\ Moves /\ Passes
  BY MaintainMoves
<1>2. Unhandled BY <1>1, NoneHandled DEF OnceInv
<1>3. Unhandled' BY <1>1, <1>2, MovesUnhandled
<1>4. UNCHANGED <<sent, executed, wild>> BY <1>1 DEF Passes
<1> QED BY <1>1, <1>2, <1>3, <1>4, PassesFrom, UnhandledOnce

\* With pub_qos 0 every step keeps each message to one execution.
LEMMA OnceStep ==
  ASSUME PubQos = 0
  PROVE  Spec => []OnceInv
<1>1. Init => OnceInv
  <2> SUFFICES ASSUME Init PROVE OnceInv OBVIOUS
  <2>1. Arrivals = <<>> /\ stack = <<>> /\ ~wild /\ executed = [m \in Messages |-> 0]
    BY DEF Init, Arrivals
  <2> QED BY <2>1 DEF OnceInv, HandlerInv, ArrivalInv, Single, RunOnce
<1>2. TypeOK /\ TypeOK' /\ OnceInv /\ [Next]_vars => OnceInv'
  <2> SUFFICES ASSUME TypeOK, TypeOK', OnceInv, [Next]_vars PROVE OnceInv' OBVIOUS
  <2>1. CASE UNCHANGED vars
    <3>1. UNCHANGED <<stack, accum, wire, wild, sent, executed>>
      BY <2>1 DEF vars, client, link, ghost, control
    <3>2. HandlerInv' BY <3>1 DEF OnceInv, HandlerInv
    <3>3. Arrivals' = Arrivals BY <3>1 DEF Arrivals
    <3>4. Single(Arrivals)' BY <3>3 DEF OnceInv, ArrivalInv, Single
    <3>5. ArrivalInv' BY <3>1, <3>3, <3>4 DEF OnceInv, ArrivalInv, Executing
    <3>6. RunOnce' BY <3>1 DEF OnceInv, RunOnce
    <3> QED BY <3>1, <3>2, <3>5, <3>6 DEF OnceInv
  <2>2. CASE PollStep BY <2>2, PollOnce, RespondedOnce, HandledOnce, HandledFirst
  <2>3. CASE ConnectStep \/ MaintainStep BY <2>3, MaintainOnce
  <2>4. CASE RequestStep BY <2>4, RequestOnce
  <2>5. CASE Environment \/ Threads BY <2>5, PublishedOnce, OthersOnce
  <2> QED BY <2>1, <2>2, <2>3, <2>4, <2>5 DEF Next, CallStep
<1> QED BY <1>1, <1>2, TypeCorrect, PTL DEF Spec

\* With pub_qos 0 no command is executed twice, with scripts or without, whatever the
\* handler publishes, and however often the connection is lost while it does.
THEOREM CommandsRunOnce ==
  ASSUME PubQos = 0
  PROVE  Spec => []CommandOnce
<1>1. OnceInv => CommandOnce
  <2> SUFFICES ASSUME OnceInv, NEW m \in Commands PROVE executed[m] <= 1 BY DEF CommandOnce
  <2>1. m \in Messages BY ConstantsAssumption
  <2>2. executed[m] = 0 \/ executed[m] = 1 BY <2>1 DEF OnceInv, RunOnce
  <2> QED BY <2>2
<1> QED BY <1>1, OnceStep, PTL

\* Nor does a handler ever find the buffer emptied under it.
THEOREM NeverUnderflows ==
  ASSUME PubQos = 0
  PROVE  Spec => []NoUnderflow
<1>1. OnceInv => NoUnderflow BY DEF OnceInv, NoUnderflow
<1> QED BY <1>1, OnceStep, PTL
=============================================================================
