---------------------------- MODULE BasicMqttProofs ----------------------------
(***************************************************************************)
(* Proofs about BasicMqtt, for every list of settings and values, every    *)
(* inbox and any number of handles, messages and reconnections.            *)
(***************************************************************************)
EXTENDS BasicMqtt, SequenceTheorems, TLAPS

-----------------------------------------------------------------------------
(* The invariants.                                                         *)

Setting ==
  /\ Len(todo) >= 3
  /\ todo[Len(todo) - 2] = "disconnect" /\ todo[Len(todo) - 1] = "connect"
  /\ todo[Len(todo)] = "handle"
  /\ \A i \in 1 .. Len(todo) - 3 : todo[i] \in Names

Reading == todo = <<"poll", "read">> \/ todo = <<"read">>

\* What the script's call has still to do is the end of one of its two lists.
Shape ==
  Idle \/ Setting \/ Reading \/ todo = <<"connect", "handle">> \/ todo = <<"handle">>

\* Between the script's calls the settings are those the handle was asked for.  While
\* they are changed for another one, they are partly the old ones; a session opened
\* with a mixture does not come back to the old ones by itself.
ConfigInv ==
  /\ Shape
  /\ ~Setting /\ handle # 0 /\ ~half => config = meant
  /\ handle # 0 /\ ~half => \A f \in Names : config[f] \in {meant[f], args[f]}
  /\ handle # 0 /\ ~half /\ config = meant /\ InSession => made = meant
  /\ todo = <<"connect", "handle">> \/ todo = <<"handle">> =>
       handle = 0 /\ told = "no" /\ (InSession => made = config)

ToldInv == told = "yes" /\ InSession => "script" \in asked

Rising(q) == \A i, j \in 1 .. Len(q) : i < j => q[i] < q[j]

\* Inbox and wire together are in the order of sending, and newer than what the
\* script has received and than its session.
FreshInv ==
  /\ Rising(inbox) /\ Rising(wire)
  /\ \A i \in 1 .. Len(inbox), j \in 1 .. Len(wire) : inbox[i] < wire[j]
  /\ \A i \in 1 .. Len(inbox) : inbox[i] > received /\ inbox[i] > since
  /\ \A j \in 1 .. Len(wire) : wire[j] > received /\ wire[j] > since

-----------------------------------------------------------------------------
(* Types.                                                                  *)

\* MQTT_CONNECT sets every setting and then renews the session.
LEMMA ConnectTyped ==
  /\ Settings \in Seq(Names) /\ Names \cap Steps = {} /\ ConnectSteps \in Seq(Label)
<1>1. Settings \in Seq(STRING \ Steps) BY ConstantsAssumption
<1>2. \A i \in 1 .. Len(Settings) : Settings[i] \in Names BY <1>1 DEF Names
<1>3. Settings \in Seq(Names) BY <1>1, <1>2
<1>4. Names \cap Steps = {} BY <1>1 DEF Names
<1>5. Names \subseteq Label /\ Steps \subseteq Label BY DEF Label
<1>6. Settings \in Seq(Label) BY <1>3, <1>5
<1>7. <<"disconnect", "connect", "handle">> \in Seq(Label) BY <1>5 DEF Steps
<1>8. ConnectSteps \in Seq(Label) BY <1>6, <1>7 DEF ConnectSteps
<1> QED BY <1>3, <1>4, <1>8

\* The inbox keeps within its depth.
LEMMA PushTyped ==
  ASSUME NEW S, NEW q \in Seq(S), Len(q) <= Depth, NEW m \in S
  PROVE  Push(q, m) \in Seq(S) /\ Len(Push(q, m)) <= Depth
<1>1. Depth \in Nat \ {0} BY ConstantsAssumption
<1>2. CASE Len(q) < Depth
  <2>1. Push(q, m) = Append(q, m) BY <1>2 DEF Push
  <2>2. Append(q, m) \in Seq(S) /\ Len(Append(q, m)) = Len(q) + 1 OBVIOUS
  <2>3. Len(q) \in Nat OBVIOUS
  <2> QED BY <1>1, <1>2, <2>1, <2>2, <2>3
<1>3. CASE ~(Len(q) < Depth)
  <2>1. Push(q, m) = Append(Tail(q), m) BY <1>3 DEF Push
  <2>2. Len(q) \in Nat OBVIOUS
  <2>3. q # <<>> BY <1>1, <1>3, <2>2
  <2>4. Tail(q) \in Seq(S) /\ Len(Tail(q)) = Len(q) - 1 BY <2>3
  <2>5. Append(Tail(q), m) \in Seq(S) /\ Len(Append(Tail(q), m)) = Len(Tail(q)) + 1 BY <2>4
  <2> QED BY <1>1, <2>1, <2>2, <2>4, <2>5
<1> QED BY <1>2, <1>3

\* A shorter or a later bound keeps a sequence of messages typed.
LEMMA Later ==
  ASSUME NEW q, NEW n \in Nat, q \in Seq(1 .. n)
  PROVE  q \in Seq(1 .. n + 1)
<1>1. 1 .. n \subseteq 1 .. n + 1 OBVIOUS
<1> QED BY <1>1

\* A poll receives whole messages, and a lost connection ends the session.
LEMMA PollTyped ==
  ASSUME TypeOK, Poll
  PROVE  /\ inbox' \in Seq(1 .. sent) /\ Len(inbox') <= Depth /\ wire' \in Seq(1 .. sent)
         /\ subacks' \in 0 .. MaxWire /\ state' \in {"DISCONNECTED", "SESSION_CONNECTED", "SUBSCRIBED"}
         /\ UNCHANGED <<tcp, made, asked>>
<1>1. state' \in {"DISCONNECTED", "SESSION_CONNECTED", "SUBSCRIBED"} /\ UNCHANGED <<tcp, made, asked>>
  BY DEF Poll, TypeOK
<1>2. CASE wire # <<>> /\ inbox' = Push(inbox, Head(wire)) /\ wire' = Tail(wire) /\ UNCHANGED subacks
  <2>1. Head(wire) \in 1 .. sent /\ Tail(wire) \in Seq(1 .. sent) BY <1>2 DEF TypeOK
  <2>2. inbox' \in Seq(1 .. sent) /\ Len(inbox') <= Depth BY <1>2, <2>1, PushTyped DEF TypeOK
  <2> QED BY <1>1, <1>2, <2>1, <2>2 DEF TypeOK
<1>3. CASE subacks > 0 /\ subacks' = subacks - 1 /\ UNCHANGED <<inbox, wire>>
  <2>1. subacks' \in 0 .. MaxWire BY <1>3, ConstantsAssumption DEF TypeOK
  <2> QED BY <1>1, <1>3, <2>1 DEF TypeOK
<1>4. CASE UNCHANGED <<inbox, wire, subacks>>
  BY <1>1, <1>4 DEF TypeOK
<1> QED BY <1>2, <1>3, <1>4 DEF Poll

\* Giving a session up and opening one.
LEMMA SessionTyped ==
  ASSUME TypeOK, Drop \/ Opened("SUBSCRIBED") \/ Opened("SESSION_CONNECTED")
  PROVE  /\ state' \in {"DISCONNECTED", "SESSION_CONNECTED", "SUBSCRIBED"}
         /\ tcp' \in {"up", "mute", "down"} /\ asked' \subseteq {"script", "platform"}
         /\ made' \in [Names -> Values] /\ wire' = <<>> /\ subacks' = 0
         /\ inbox' \in {inbox, <<>>}
BY DEF TypeOK, Drop, Opened

\* The empty sequence and no SUBACK are typed.
LEMMA EmptyTyped ==
  /\ \A S : <<>> \in Seq(S)
  /\ Len(<<>>) <= Depth /\ 0 \in 0 .. MaxWire
<1>1. Len(<<>>) = 0 OBVIOUS
<1> QED BY <1>1, ConstantsAssumption

\* What is left of a call is typed.
LEMMA TodoTyped ==
  ASSUME TypeOK, todo # <<>>
  PROVE  Tail(todo) \in Seq(Label)
BY DEF TypeOK

\* The first states.
LEMMA InitTyped == Init => TypeOK
<1> SUFFICES ASSUME Init PROVE TypeOK OBVIOUS
<1>1. args \in [Names -> Values \cup {TooLong, Keep}] BY DEF Init
<1>2. inbox \in Seq(1 .. sent) /\ Len(inbox) <= Depth /\ wire \in Seq(1 .. sent) /\ todo \in Seq(Label)
      /\ subacks \in 0 .. MaxWire
  BY EmptyTyped DEF Init
<1>3. handle \in 0 .. IntMax /\ next \in 0 .. IntMax /\ sent \in 0 .. MaxSent
      /\ since \in 0 .. sent /\ received \in 0 .. sent
  BY ConstantsAssumption DEF Init
<1> QED BY <1>1, <1>2, <1>3 DEF Init, TypeOK

\* The main thread's, mqtt_rx's, the network's and the broker's steps.
LEMMA OthersTyped ==
  ASSUME TypeOK, Maintain \/ MqttRx \/ LinkLost \/ BrokerPublish
  PROVE  TypeOK'
<1>1. CASE Maintain
  <2>1. UNCHANGED <<config, handle, next, todo, args, sent, meant, half, since, received>>
    BY <1>1 DEF Maintain, script
  <2>2. told' \in {"no", "yes", "renewed", "unmatched"}
    BY <1>1 DEF Maintain, Renewed, TypeOK
  <2>3. CASE state = "SESSION_CONNECTED" /\ tcp = "up" /\ state' = "SUBSCRIBED"
             /\ asked' = asked \cup {"platform"} /\ UNCHANGED <<tcp, inbox, made, wire, subacks, told>>
    BY <2>1, <2>3 DEF TypeOK
  <2>4. CASE Drop \/ Opened("SUBSCRIBED")
    <3>1. inbox' \in Seq(1 .. sent) /\ Len(inbox') <= Depth /\ wire' \in Seq(1 .. sent) /\ subacks' \in 0 .. MaxWire
      BY <2>4, SessionTyped, EmptyTyped DEF TypeOK
    <3> QED BY <2>1, <2>2, <2>4, <3>1, SessionTyped DEF TypeOK
  <2> QED BY <1>1, <2>3, <2>4 DEF Maintain
<1>2. CASE MqttRx
  <2>1. UNCHANGED <<config, handle, next, todo, args, sent, meant, half, told, since, received>> /\ Poll
    BY <1>2 DEF MqttRx, script, ghost
  <2> QED BY <2>1, PollTyped DEF TypeOK
<1>3. CASE LinkLost
  BY <1>3 DEF LinkLost, TypeOK, script, ghost
<1>4. CASE BrokerPublish
  <2>1. UNCHANGED <<config, state, tcp, inbox, made, asked, subacks, handle, next, todo, args, meant, half, told, since, received>>
        /\ sent' = sent + 1 /\ sent < MaxSent /\ wire' = Append(wire, sent + 1)
    BY <1>4 DEF BrokerPublish, script, ghost
  <2>2. sent \in Nat /\ sent' \in 0 .. MaxSent /\ 0 .. sent \subseteq 0 .. sent' BY <2>1, ConstantsAssumption DEF TypeOK
  <2>3. inbox \in Seq(1 .. sent + 1) /\ wire \in Seq(1 .. sent + 1) BY <2>2, Later DEF TypeOK
  <2>4. sent + 1 \in 1 .. sent + 1 BY <2>2
  <2>5. wire' \in Seq(1 .. sent + 1) BY <2>1, <2>3, <2>4
  <2>6. inbox' \in Seq(1 .. sent') /\ wire' \in Seq(1 .. sent') BY <2>1, <2>3, <2>5
  <2>7. since' \in 0 .. sent' /\ received' \in 0 .. sent' BY <2>1, <2>2 DEF TypeOK
  <2> QED BY <2>1, <2>2, <2>6, <2>7 DEF TypeOK
<1> QED BY <1>1, <1>2, <1>3, <1>4

\* MQTT_CONNECT's steps.
LEMMA ConnectsTyped ==
  ASSUME TypeOK, MqttConnect \/ (\E f \in Names : Set(f)) \/ DropSession \/ Connect \/ Allocate
  PROVE  TypeOK'
<1>1. CASE MqttConnect
  BY <1>1, ConnectTyped DEF MqttConnect, TypeOK, client, ghost
<1>2. ASSUME NEW f \in Names, Set(f) PROVE TypeOK'
  <2>1. UNCHANGED <<state, tcp, inbox, made, asked, wire, subacks, handle, next, args, sent, meant, told, since, received>>
    BY <1>2 DEF Set, client
  <2>2. half' \in BOOLEAN BY <1>2 DEF Set, TypeOK
  <2>3. todo' \in Seq(Label) BY <1>2, TodoTyped, EmptyTyped DEF Set, At, Idle
  <2>4. config' \in [Names -> Values]
    <3>1. args[f] \in Values \cup {TooLong, Keep} BY DEF TypeOK
    <3> QED BY <1>2, <3>1 DEF Set, TypeOK
  <2> QED BY <2>1, <2>2, <2>3, <2>4 DEF TypeOK
<1>3. CASE DropSession
  <2>1. inbox' = <<>> /\ wire' = <<>> /\ subacks' = 0 /\ state' = "DISCONNECTED" /\ tcp' = "down" /\ asked' = {}
        /\ handle' = 0 /\ since' = sent /\ told' = "no" /\ todo' = Tail(todo)
        /\ UNCHANGED <<made, config, next, args, sent, meant, half, received>>
    BY <1>3 DEF DropSession, Drop
  <2>2. todo' \in Seq(Label) BY <1>3, <2>1, TodoTyped DEF DropSession, At, Idle
  <2>3. inbox' \in Seq(1 .. sent) /\ Len(inbox') <= Depth /\ wire' \in Seq(1 .. sent) /\ subacks' \in 0 .. MaxWire
    BY <2>1, EmptyTyped
  <2>4. since' \in 0 .. sent /\ handle' \in 0 .. IntMax BY <2>1, ConstantsAssumption DEF TypeOK
  <2> QED BY <2>1, <2>2, <2>3, <2>4 DEF TypeOK
<1>4. CASE Connect
  <2>1. UNCHANGED <<config, handle, next, args, sent, meant, half, told, since, received>> BY <1>4 DEF Connect, ghost
  <2>2. todo' \in Seq(Label) BY <1>4, TodoTyped, EmptyTyped DEF Connect, At, Idle
  <2>3. CASE UNCHANGED client
    BY <2>1, <2>2, <2>3 DEF TypeOK, client
  <2>4. CASE Drop \/ Opened("SESSION_CONNECTED")
    <3>1. inbox' \in Seq(1 .. sent) /\ Len(inbox') <= Depth /\ wire' \in Seq(1 .. sent) /\ subacks' \in 0 .. MaxWire
      BY <2>4, SessionTyped, EmptyTyped DEF TypeOK
    <3> QED BY <2>1, <2>2, <2>4, <3>1, SessionTyped DEF TypeOK
  <2> QED BY <1>4, <2>3, <2>4 DEF Connect
<1>5. CASE Allocate
  <2>1. UNCHANGED <<config, state, tcp, inbox, made, asked, wire, subacks, args, sent, told, since, received>>
        /\ meant' = config /\ half' = FALSE
    BY <1>5 DEF Allocate, client
  <2>2. todo' \in Seq(Label) BY <1>5, TodoTyped DEF Allocate, At, Idle
  <2>3. next' \in 0 .. IntMax /\ handle' = next' BY <1>5, ConstantsAssumption DEF Allocate, TypeOK
  <2> QED BY <2>1, <2>2, <2>3 DEF TypeOK
<1> QED BY <1>1, <1>2, <1>3, <1>4, <1>5

\* The calls that use a handle.
LEMMA UsesTyped ==
  ASSUME TypeOK,
         (\E h \in 1 .. IntMax : \/ MqttDisconnect(h) \/ MqttSubscribe(h) \/ MqttUnsubscribe(h)
                                 \/ MqttUse(h) \/ MqttReceive(h)) \/ ReceivePoll \/ ReceiveRead
  PROVE  TypeOK'
<1>1. ASSUME NEW h \in 1 .. IntMax, MqttDisconnect(h) PROVE TypeOK'
  <2>1. Drop /\ UNCHANGED <<config, next, todo, args, sent, meant, half, told, since, received>>
        /\ handle' \in {0, handle}
    BY <1>1 DEF MqttDisconnect, ghost
  <2>2. inbox' \in Seq(1 .. sent) /\ Len(inbox') <= Depth /\ wire' \in Seq(1 .. sent) /\ subacks' \in 0 .. MaxWire
    BY <2>1, SessionTyped, EmptyTyped DEF TypeOK
  <2>3. handle' \in 0 .. IntMax BY <2>1, ConstantsAssumption DEF TypeOK
  <2> QED BY <2>1, <2>2, <2>3, SessionTyped DEF TypeOK
<1>2. ASSUME NEW h \in 1 .. IntMax, MqttSubscribe(h) PROVE TypeOK'
  <2>1. UNCHANGED <<config, handle, next, todo, args, sent, meant, half, since, received, inbox, made, wire>>
    BY <1>2 DEF MqttSubscribe, script, SendFails
  <2>2. tcp' \in {"up", "mute", "down"} /\ asked' \subseteq {"script", "platform"}
        /\ state' \in {"DISCONNECTED", "SESSION_CONNECTED", "SUBSCRIBED"}
        /\ told' \in {"no", "yes", "renewed", "unmatched"}
    BY <1>2 DEF MqttSubscribe, SendFails, TypeOK
  <2>3. subacks' \in 0 .. MaxWire
    <3>1. subacks \in 0 .. MaxWire /\ subacks < MaxWire BY <1>2 DEF MqttSubscribe, TypeOK
    <3> DEFINE all == IF tcp = "up" THEN subacks + 1 ELSE subacks
    <3>2. all \in 0 .. MaxWire BY <3>1, ConstantsAssumption
    <3>3. subacks' = subacks \/ \E n \in 0 .. all : subacks' = all - n
      BY <1>2 DEF MqttSubscribe, SendFails
    <3> HIDE DEF all
    <3> QED BY <3>1, <3>2, <3>3, ConstantsAssumption
  <2> QED BY <2>1, <2>2, <2>3 DEF TypeOK
<1>3. ASSUME NEW h \in 1 .. IntMax, MqttUnsubscribe(h) PROVE TypeOK'
  <2>1. UNCHANGED <<config, handle, next, todo, args, sent, meant, half, since, received, inbox, made, wire, state, subacks>>
        /\ told' = "no"
    BY <1>3 DEF MqttUnsubscribe, script, SendFails
  <2>2. tcp' \in {"up", "mute", "down"} /\ asked' \subseteq {"script", "platform"}
    BY <1>3 DEF MqttUnsubscribe, SendFails, TypeOK
  <2> QED BY <2>1, <2>2 DEF TypeOK
<1>4. ASSUME NEW h \in 1 .. IntMax, MqttUse(h) PROVE TypeOK'
  <2>1. UNCHANGED <<config, handle, next, todo, args, sent, meant, half, told, since, received>>
    BY <1>4 DEF MqttUse, script, ghost
  <2>2. CASE SendFails BY <2>1, <2>2 DEF SendFails, TypeOK
  <2>3. CASE Poll BY <2>1, <2>3, PollTyped DEF TypeOK
  <2> QED BY <1>4, <2>2, <2>3 DEF MqttUse
<1>5. ASSUME NEW h \in 1 .. IntMax, MqttReceive(h) PROVE TypeOK'
  <2>1. <<"poll", "read">> \in Seq(Label) BY DEF Label, Steps
  <2> QED BY <1>5, <2>1 DEF MqttReceive, TypeOK, client, ghost
<1>6. CASE ReceivePoll
  <2>1. UNCHANGED <<config, handle, next, args, sent, meant, half, told, since, received>> /\ Poll
    BY <1>6 DEF ReceivePoll, ghost
  <2>2. todo' \in Seq(Label) BY <1>6, TodoTyped DEF ReceivePoll, At, Idle
  <2> QED BY <2>1, <2>2, PollTyped DEF TypeOK
<1>7. CASE ReceiveRead
  <2>1. UNCHANGED <<config, state, tcp, made, asked, wire, subacks, handle, next, args, sent, meant, half, told, since>>
    BY <1>7 DEF ReceiveRead
  <2>2. <<"poll", "read">> \in Seq(Label) BY DEF Label, Steps
  <2>3. todo' \in Seq(Label) BY <1>7, <2>2, EmptyTyped DEF ReceiveRead
  <2>4. inbox' \in Seq(1 .. sent) /\ Len(inbox') <= Depth /\ received' \in 0 .. sent
    <3>1. CASE inbox # <<>>
      <4>1. inbox' = Tail(inbox) /\ received' = Head(inbox) BY <1>7, <3>1 DEF ReceiveRead
      <4>2. Head(inbox) \in 1 .. sent /\ Tail(inbox) \in Seq(1 .. sent) /\ Len(Tail(inbox)) = Len(inbox) - 1
            /\ Len(inbox) \in Nat
        BY <3>1 DEF TypeOK
      <4>3. Len(inbox) <= Depth /\ Depth \in Nat BY ConstantsAssumption DEF TypeOK
      <4>4. Len(inbox') <= Depth BY <4>1, <4>2, <4>3
      <4>5. received' \in 0 .. sent BY <4>1, <4>2 DEF TypeOK
      <4> QED BY <4>1, <4>2, <4>4, <4>5
    <3>2. CASE inbox = <<>> BY <1>7, <3>2 DEF ReceiveRead, TypeOK
    <3> QED BY <3>1, <3>2
  <2> QED BY <2>1, <2>3, <2>4 DEF TypeOK
<1> QED BY <1>1, <1>2, <1>3, <1>4, <1>5, <1>6, <1>7

\* Every step keeps every variable in its type.
LEMMA TypeStep == TypeOK /\ [Next]_vars => TypeOK'
<1> SUFFICES ASSUME TypeOK, [Next]_vars PROVE TypeOK' OBVIOUS
<1>1. CASE Script BY <1>1, ConnectsTyped, UsesTyped DEF Script
<1>2. CASE Maintain \/ MqttRx \/ LinkLost \/ BrokerPublish BY <1>2, OthersTyped
<1>3. CASE UNCHANGED vars BY <1>3 DEF vars, client, script, ghost, TypeOK
<1> QED BY <1>1, <1>2, <1>3 DEF Next

\* Whatever settings, values and handles there are, the state stays well typed, and
\* the inbox within its depth.
THEOREM TypeCorrect == Spec => []TypeOK
<1> QED BY InitTyped, TypeStep, PTL DEF Spec

-----------------------------------------------------------------------------
(* The script's calls.                                                     *)

\* What a step of a call leaves to do.
LEMMA StepsLeft ==
  ASSUME TypeOK, Shape, todo # <<>>
  PROVE  /\ Head(todo) \in Names => Setting /\ Len(todo) >= 4
         /\ Head(todo) = "disconnect" => Setting /\ Tail(todo) = <<"connect", "handle">>
         /\ Head(todo) = "connect" => todo = <<"connect", "handle">>
         /\ Head(todo) = "handle" => todo = <<"handle">>
         /\ Head(todo) = "poll" => todo = <<"poll", "read">>
         /\ Head(todo) = "read" => todo = <<"read">>
         /\ Setting => Head(todo) \in Names \cup {"disconnect"}
<1>1. Names \cap Steps = {} BY ConnectTyped
<1>2. todo \in Seq(Label) /\ Len(todo) \in Nat BY DEF TypeOK
<1>3. CASE Setting
  <2>1. CASE Len(todo) = 3
    <3>1. todo[1] = "disconnect" /\ todo[2] = "connect" /\ todo[3] = "handle" BY <1>3, <2>1 DEF Setting
    <3>2. Head(todo) = "disconnect" BY <1>2, <2>1, <3>1
    <3>3. Tail(todo) = <<"connect", "handle">>
      <4>1. todo # <<>> OBVIOUS
      <4>2. Tail(todo) \in Seq(Label) /\ Len(Tail(todo)) = 2
            /\ Tail(todo)[1] = todo[2] /\ Tail(todo)[2] = todo[3]
        BY <1>2, <2>1, <4>1, HeadTailProperties
      <4>3. <<"connect", "handle">> \in Seq(Label) BY DEF Label, Steps
      <4> DEFINE rest == <<"connect", "handle">>
      <4>4. Len(rest) = 2 /\ rest[1] = "connect" /\ rest[2] = "handle" /\ rest \in Seq(Label) BY <4>3
      <4> HIDE DEF rest
      <4> DEFINE tail == Tail(todo)
      <4>5. tail \in Seq(Label) /\ Len(tail) = 2 /\ tail[1] = "connect" /\ tail[2] = "handle"
        BY <3>1, <4>2
      <4> HIDE DEF tail
      <4>6. \A i \in 1 .. Len(tail) : tail[i] = rest[i]
        <5>1. \A i \in 1 .. 2 : i = 1 \/ i = 2 OBVIOUS
        <5>2. \A i \in 1 .. 2 : tail[i] = rest[i] BY <4>4, <4>5, <5>1, Zenon
        <5> QED BY <4>5, <5>2, Zenon
      <4>7. Len(tail) = Len(rest) BY <4>4, <4>5, Zenon
      <4>8. tail = rest BY <4>4, <4>5, <4>6, <4>7, SeqEqual, Zenon
      <4> QED BY <4>8 DEF rest, tail
    <3>4. todo # <<"read">> /\ todo # <<"handle">> BY <2>1
    <3> QED BY <1>1, <1>3, <3>2, <3>3 DEF Steps
  <2>2. CASE Len(todo) >= 4
    <3>1. Head(todo) = todo[1] BY <1>2, <2>2
    <3>2. todo[1] \in Names BY <1>2, <1>3, <2>2 DEF Setting
    <3> QED BY <1>1, <1>3, <2>2, <3>1, <3>2 DEF Steps
  <2>3. Len(todo) >= 3 BY <1>3 DEF Setting
  <2>4. \A n \in Nat : n >= 3 => n = 3 \/ n >= 4 OBVIOUS
  <2>5. Len(todo) = 3 \/ Len(todo) >= 4 BY <1>2, <2>3, <2>4, Zenon
  <2> QED BY <2>1, <2>2, <2>5
<1>4. CASE todo = <<"poll", "read">>
  <2>1. Head(todo) = "poll" /\ ~Setting BY <1>4 DEF Setting
  <2> QED BY <1>1, <1>4, <2>1 DEF Steps
<1>5. CASE todo = <<"read">>
  <2>1. Head(todo) = "read" /\ ~Setting BY <1>5 DEF Setting
  <2> QED BY <1>1, <1>5, <2>1 DEF Steps
<1>6. CASE todo = <<"connect", "handle">>
  <2>1. Head(todo) = "connect" /\ ~Setting BY <1>6 DEF Setting
  <2> QED BY <1>1, <1>6, <2>1 DEF Steps
<1>7. CASE todo = <<"handle">>
  <2>1. Head(todo) = "handle" /\ ~Setting BY <1>7 DEF Setting
  <2> QED BY <1>1, <1>7, <2>1 DEF Steps
<1> QED BY <1>3, <1>4, <1>5, <1>6, <1>7 DEF Shape, Reading, Idle

\* MQTT_CONNECT begins with its settings.
LEMMA ConnectBegins ==
  ASSUME todo' = ConnectSteps
  PROVE  Setting'
<1>1. Settings \in Seq(Names) /\ Len(Settings) \in Nat BY ConnectTyped
<1> DEFINE end == <<"disconnect", "connect", "handle">>
<1>2. Len(end) = 3 OBVIOUS
<1>3. end[1] = "disconnect" /\ end[2] = "connect" /\ end[3] = "handle" OBVIOUS
<1>4. end \in Seq(Label) /\ Settings \in Seq(Label)
  <2>1. end \in Seq(Label) BY DEF Label, Steps
  <2>2. Names \subseteq Label BY DEF Label
  <2> QED BY <1>1, <2>1, <2>2
<1> HIDE DEF end
<1> DEFINE all == Settings \o end
<1>5. /\ Len(all) = Len(Settings) + Len(end)
      /\ \A i \in 1 .. Len(Settings) + Len(end) :
           all[i] = IF i <= Len(Settings) THEN Settings[i] ELSE end[i - Len(Settings)]
  BY <1>4, ConcatProperties
<1>6. \A i \in 1 .. Len(Settings) + 3 :
        all[i] = IF i <= Len(Settings) THEN Settings[i] ELSE end[i - Len(Settings)]
  BY <1>2, <1>5
<1>7. todo' = all BY DEF ConnectSteps, end
<1> HIDE DEF all
<1>8. /\ \A i \in 1 .. Len(Settings) : all[i] = Settings[i]
      /\ \A i \in 1 .. 3 : all[Len(Settings) + i] = end[i]
  <2>1. ASSUME NEW i \in 1 .. Len(Settings) PROVE all[i] = Settings[i] BY <1>1, <1>6
  <2>2. ASSUME NEW i \in 1 .. 3 PROVE all[Len(Settings) + i] = end[i]
    <3>1. Len(Settings) + i \in 1 .. Len(Settings) + 3 /\ ~(Len(Settings) + i <= Len(Settings))
          /\ (Len(Settings) + i) - Len(Settings) = i
      BY <1>1
    <3> QED BY <1>6, <3>1
  <2> QED BY <2>1, <2>2
<1>9. Len(todo') = Len(Settings) + 3 BY <1>2, <1>5, <1>7
<1>10. todo'[Len(todo') - 2] = "disconnect" /\ todo'[Len(todo') - 1] = "connect" /\ todo'[Len(todo')] = "handle"
  <2>1. Len(todo') - 2 = Len(Settings) + 1 /\ Len(todo') - 1 = Len(Settings) + 2 BY <1>1, <1>9
  <2>2. todo'[Len(Settings) + 1] = end[1] /\ todo'[Len(Settings) + 2] = end[2] /\ todo'[Len(Settings) + 3] = end[3]
    BY <1>7, <1>8
  <2> QED BY <1>3, <1>9, <2>1, <2>2
<1>11. \A i \in 1 .. Len(todo') - 3 : todo'[i] \in Names
  <2>1. Len(todo') - 3 = Len(Settings) BY <1>1, <1>9
  <2>2. \A i \in 1 .. Len(Settings) : Settings[i] \in Names BY <1>1
  <2> QED BY <1>7, <1>8, <2>1, <2>2
<1> QED BY <1>1, <1>9, <1>10, <1>11 DEF Setting

\* It goes on with the next one.
LEMMA SettingGoesOn ==
  ASSUME TypeOK, Setting, Len(todo) >= 4, todo' = Tail(todo)
  PROVE  Setting'
<1>1. todo \in Seq(Label) /\ Len(todo) \in Nat BY DEF TypeOK
<1>2. Len(todo') = Len(todo) - 1 /\ \A i \in 1 .. Len(todo) - 1 : todo'[i] = todo[i + 1] BY <1>1
<1>3. Len(todo') >= 3 BY <1>1, <1>2
<1>4. todo'[Len(todo') - 2] = todo[Len(todo) - 2] /\ todo'[Len(todo') - 1] = todo[Len(todo) - 1]
      /\ todo'[Len(todo')] = todo[Len(todo)]
  BY <1>1, <1>2
<1>5. ASSUME NEW i \in 1 .. Len(todo') - 3 PROVE todo'[i] \in Names
  <2>1. i + 1 \in 1 .. Len(todo) - 3 /\ i \in 1 .. Len(todo) - 1 BY <1>1, <1>2
  <2> QED BY <1>2, <2>1 DEF Setting
<1> QED BY <1>3, <1>4, <1>5 DEF Setting

\* A step that leaves the settings and the call alone, and opens no session but with
\* the settings of that moment.
LEMMA ConfigKept ==
  ASSUME ConfigInv, UNCHANGED <<config, args, meant, half, todo>>, handle' \in {0, handle},
         InSession' => made' = config \/ (InSession /\ made' = made), told = "no" => told' = "no"
  PROVE  ConfigInv'
<1>1. Shape' /\ (Setting' <=> Setting) BY DEF ConfigInv, Shape, Setting, Reading, Idle
<1>2. (~Setting /\ handle # 0 /\ ~half => config = meant)' BY <1>1 DEF ConfigInv
<1>3. (handle # 0 /\ ~half => \A f \in Names : config[f] \in {meant[f], args[f]})' BY DEF ConfigInv
<1>4. (handle # 0 /\ ~half /\ config = meant /\ InSession => made = meant)' BY DEF ConfigInv
<1>5. (todo = <<"connect", "handle">> \/ todo = <<"handle">> =>
         handle = 0 /\ told = "no" /\ (InSession => made = config))'
  BY DEF ConfigInv
<1> QED BY <1>1, <1>2, <1>3, <1>4, <1>5 DEF ConfigInv

\* Between MQTT_CONNECTs a call only reads.
LEMMA ConfigReading ==
  ASSUME ConfigInv, Idle \/ Reading, (Idle \/ Reading)', UNCHANGED <<config, args, meant, half, handle, made, told>>,
         InSession' => InSession
  PROVE  ConfigInv'
<1>1. ~Setting BY DEF Idle, Reading, Setting
<1>2. Shape' BY DEF Shape
<1>3. todo' # <<"connect", "handle">> /\ todo' # <<"handle">>
  <2>1. CASE todo' = <<>> BY <2>1
  <2>2. CASE todo' = <<"poll", "read">> BY <2>2
  <2>3. CASE todo' = <<"read">> BY <2>3
  <2> QED BY <2>1, <2>2, <2>3 DEF Idle, Reading
<1>4. handle # 0 /\ ~half => config = meant BY <1>1 DEF ConfigInv
<1>5. (handle # 0 /\ ~half /\ config = meant /\ InSession => made = meant)' BY DEF ConfigInv
<1>6. (handle # 0 /\ ~half => \A f \in Names : config[f] \in {meant[f], args[f]})' BY DEF ConfigInv
<1>7. (~Setting /\ handle # 0 /\ ~half => config = meant)' BY <1>4
<1> QED BY <1>2, <1>3, <1>5, <1>6, <1>7 DEF ConfigInv

\* One setting is set, or refused.
LEMMA ConfigSet ==
  ASSUME TypeOK, ConfigInv, NEW f \in Names, Set(f)
  PROVE  ConfigInv'
<1>1. todo # <<>> /\ Head(todo) = f /\ Setting /\ Len(todo) >= 4
  BY StepsLeft DEF Set, At, Idle, ConfigInv
<1>2. UNCHANGED <<state, made, handle, args, meant, told>> BY DEF Set, client
<1>3. CASE args[f] = TooLong
  <2>1. todo' = <<>> /\ config' = config BY <1>3 DEF Set
  <2>2. ~half' /\ handle # 0 => ~half /\ config = meant BY <1>3 DEF Set
  <2>3. Shape' /\ todo' # <<"connect", "handle">> /\ todo' # <<"handle">> BY <2>1 DEF Shape, Idle
  <2>4. (~Setting /\ handle # 0 /\ ~half => config = meant)' BY <1>2, <2>1, <2>2
  <2>5. (handle # 0 /\ ~half => \A g \in Names : config[g] \in {meant[g], args[g]})' BY <1>2, <2>1, <2>2
  <2>6. (handle # 0 /\ ~half /\ config = meant /\ InSession => made = meant)'
    BY <1>2, <2>1, <2>2 DEF ConfigInv, InSession
  <2> QED BY <2>3, <2>4, <2>5, <2>6 DEF ConfigInv
<1>4. CASE args[f] # TooLong
  <2>1. todo' = Tail(todo) /\ half' = half
        /\ config' = IF args[f] = Keep THEN config ELSE [config EXCEPT ![f] = args[f]]
    BY <1>4 DEF Set
  <2>2. Setting' BY <1>1, <2>1, SettingGoesOn
  <2>3. todo' # <<"connect", "handle">> /\ todo' # <<"handle">> BY <2>2 DEF Setting
  <2>4. config \in [Names -> Values] /\ meant \in [Names -> Values] BY DEF TypeOK
  <2>5. ASSUME handle # 0, ~half PROVE \A g \in Names : config'[g] \in {meant[g], args[g]}
    <3>1. \A g \in Names : config[g] \in {meant[g], args[g]} BY <2>5 DEF ConfigInv
    <3> QED BY <2>1, <2>4, <3>1
  <2>6. ASSUME handle # 0, ~half, config' = meant PROVE config = meant
    <3>1. \A g \in Names : config[g] \in {meant[g], args[g]} BY <2>6 DEF ConfigInv
    <3>2. \A g \in Names : config[g] = meant[g] BY <2>1, <2>4, <2>6, <3>1
    <3> QED BY <2>4, <3>2
  <2>7. (handle # 0 /\ ~half /\ config = meant /\ InSession => made = meant)'
    BY <1>2, <2>1, <2>6 DEF ConfigInv, InSession
  <2>8. (handle # 0 /\ ~half => \A g \in Names : config[g] \in {meant[g], args[g]})' BY <1>2, <2>1, <2>5
  <2> QED BY <2>2, <2>3, <2>7, <2>8 DEF ConfigInv, Shape
<1> QED BY <1>3, <1>4

\* The rest of MQTT_CONNECT.
LEMMA ConfigConnect ==
  ASSUME TypeOK, ConfigInv, MqttConnect \/ DropSession \/ Connect \/ Allocate
  PROVE  ConfigInv'
<1>1. CASE MqttConnect
  <2>1. UNCHANGED <<config, state, made, handle, meant, half, told>> /\ Idle BY <1>1 DEF MqttConnect, client, ghost
  <2>2. Setting' BY <1>1, ConnectBegins DEF MqttConnect
  <2>3. ~Setting BY <2>1 DEF Idle, Setting
  <2>4. todo' # <<"connect", "handle">> /\ todo' # <<"handle">> BY <2>2 DEF Setting
  <2>5. handle # 0 /\ ~half => config = meant BY <2>3 DEF ConfigInv
  <2>6. (handle # 0 /\ ~half => \A f \in Names : config[f] \in {meant[f], args[f]})' BY <2>1, <2>5
  <2>7. (handle # 0 /\ ~half /\ config = meant /\ InSession => made = meant)'
    BY <2>1 DEF ConfigInv, InSession
  <2> QED BY <2>2, <2>4, <2>6, <2>7 DEF ConfigInv, Shape
<1>2. CASE DropSession
  <2>1. todo # <<>> /\ Head(todo) = "disconnect" /\ todo' = Tail(todo) BY <1>2 DEF DropSession, At, Idle
  <2>2. todo' = <<"connect", "handle">> BY <2>1, StepsLeft DEF ConfigInv
  <2>3. handle' = 0 /\ told' = "no" /\ ~InSession' BY <1>2 DEF DropSession, Drop, InSession
  <2> QED BY <2>2, <2>3 DEF ConfigInv, Shape
<1>3. CASE Connect
  <2>1. todo # <<>> /\ Head(todo) = "connect" BY <1>3 DEF Connect, At, Idle
  <2>2. todo = <<"connect", "handle">> BY <2>1, StepsLeft DEF ConfigInv
  <2>3. handle = 0 /\ told = "no" /\ (InSession => made = config) BY <2>2 DEF ConfigInv
  <2>4. handle' = 0 /\ told' = "no" /\ config' = config BY <1>3, <2>3 DEF Connect, ghost
  <2>5. todo' = Tail(todo) \/ todo' = <<>> BY <1>3 DEF Connect
  <2>6. Tail(todo) = <<"handle">> BY <2>2
  <2>7. InSession' => made' = config' BY <1>3, <2>3, <2>4 DEF Connect, Drop, Opened, InSession, client
  <2> QED BY <2>4, <2>5, <2>6, <2>7 DEF ConfigInv, Shape, Idle
<1>4. CASE Allocate
  <2>1. todo # <<>> /\ Head(todo) = "handle" /\ todo' = Tail(todo) BY <1>4 DEF Allocate, At, Idle
  <2>2. todo = <<"handle">> BY <2>1, StepsLeft DEF ConfigInv
  <2>3. todo' = <<>> BY <2>1, <2>2
  <2>4. InSession => made = config BY <2>2 DEF ConfigInv
  <2>5. UNCHANGED <<config, state, made>> /\ meant' = config BY <1>4 DEF Allocate, client
  <2>6. (InSession => made = meant)' BY <2>4, <2>5 DEF InSession
  <2>7. todo' # <<"connect", "handle">> /\ todo' # <<"handle">> BY <2>3
  <2> QED BY <2>3, <2>5, <2>6, <2>7 DEF ConfigInv, Shape, Idle
<1> QED BY <1>1, <1>2, <1>3, <1>4

\* A poll, a failed send and the loss of the connection open no session.
LEMMA NoneOpened ==
  ASSUME Poll \/ SendFails \/ UNCHANGED client
  PROVE  (InSession' => InSession) /\ made' = made
BY DEF Poll, SendFails, InSession, client

\* No step makes the settings and the session of a handle differ.
LEMMA ConfigStep == TypeOK /\ ConfigInv /\ [Next]_vars => ConfigInv'
<1> SUFFICES ASSUME TypeOK, ConfigInv, [Next]_vars PROVE ConfigInv' OBVIOUS
<1>1. CASE MqttConnect \/ DropSession \/ Connect \/ Allocate BY <1>1, ConfigConnect
<1>2. ASSUME NEW f \in Names, Set(f) PROVE ConfigInv' BY <1>2, ConfigSet
<1>3. ASSUME NEW h \in 1 .. IntMax, MqttDisconnect(h) PROVE ConfigInv'
  BY <1>3, ConfigKept DEF MqttDisconnect, Drop, InSession, ghost
<1>4. ASSUME NEW h \in 1 .. IntMax, MqttSubscribe(h) PROVE ConfigInv'
  <2>1. InSession /\ Idle /\ made' = made BY <1>4 DEF MqttSubscribe, Active, SendFails
  <2>2. UNCHANGED <<config, handle, todo, args, meant, half>> BY <1>4 DEF MqttSubscribe, script
  <2>3. Shape' /\ ~Setting /\ ~Setting' /\ todo' # <<"connect", "handle">> /\ todo' # <<"handle">>
    BY <2>1, <2>2 DEF Shape, Setting, Idle
  <2>4. (~Setting /\ handle # 0 /\ ~half => config = meant)' BY <2>2, <2>3 DEF ConfigInv
  <2>5. (handle # 0 /\ ~half => \A f \in Names : config[f] \in {meant[f], args[f]})' BY <2>2 DEF ConfigInv
  <2>6. (handle # 0 /\ ~half /\ config = meant /\ InSession => made = meant)'
    BY <2>1, <2>2 DEF ConfigInv, InSession
  <2> QED BY <2>3, <2>4, <2>5, <2>6 DEF ConfigInv
<1>5. ASSUME NEW h \in 1 .. IntMax, MqttUnsubscribe(h) PROVE ConfigInv'
  BY <1>5, ConfigKept DEF MqttUnsubscribe, SendFails, InSession, script
<1>6. ASSUME NEW h \in 1 .. IntMax, MqttUse(h) PROVE ConfigInv'
  BY <1>6, NoneOpened, ConfigKept DEF MqttUse, script, ghost
<1>7. ASSUME NEW h \in 1 .. IntMax, MqttReceive(h) PROVE ConfigInv'
  BY <1>7, NoneOpened, ConfigReading DEF MqttReceive, client, ghost, Reading
<1>8. CASE ReceivePoll
  <2>1. todo # <<>> /\ Head(todo) = "poll" /\ todo' = Tail(todo) BY <1>8 DEF ReceivePoll, At, Idle
  <2>2. todo = <<"poll", "read">> BY <2>1, StepsLeft DEF ConfigInv
  <2>3. todo' = <<"read">> BY <2>1, <2>2
  <2> QED BY <1>8, <2>2, <2>3, NoneOpened, ConfigReading DEF ReceivePoll, ghost, Reading
<1>9. CASE ReceiveRead
  <2>1. todo # <<>> /\ Head(todo) = "read" BY <1>9 DEF ReceiveRead, At, Idle
  <2>2. todo = <<"read">> BY <2>1, StepsLeft DEF ConfigInv
  <2>3. todo' = <<>> \/ todo' = <<"poll", "read">> BY <1>9 DEF ReceiveRead
  <2> QED BY <1>9, <2>2, <2>3, ConfigReading DEF ReceiveRead, Reading, Idle, InSession
<1>10. CASE Maintain
  BY <1>10, ConfigKept DEF Maintain, Opened, Drop, InSession, Renewed, script
<1>11. CASE MqttRx
  BY <1>11, NoneOpened, ConfigKept DEF MqttRx, script, ghost
<1>12. CASE LinkLost \/ BrokerPublish \/ UNCHANGED vars
  BY <1>12, ConfigKept DEF LinkLost, BrokerPublish, vars, client, script, ghost, InSession
<1> QED BY <1>1, <1>2, <1>3, <1>4, <1>5, <1>6, <1>7, <1>8, <1>9, <1>10, <1>11, <1>12 DEF Next, Script

\* A handle's session has all the settings that were asked for, however many the
\* settings and whenever the main thread reconnects.
THEOREM SessionIsAsked == Spec => []HandleConnects
<1>1. Init => ConfigInv
  <2> SUFFICES ASSUME Init PROVE ConfigInv OBVIOUS
  <2>1. todo = <<>> /\ handle = 0 BY DEF Init
  <2> QED BY <2>1 DEF ConfigInv, Shape, Idle
<1>2. ConfigInv => HandleConnects
  BY DEF ConfigInv, HandleConnects, Active, Idle, Setting
<1> QED BY <1>1, <1>2, InitTyped, TypeStep, ConfigStep, PTL DEF Spec

-----------------------------------------------------------------------------
(* Subscriptions.                                                          *)

\* A script told that it is subscribed stays so until it or the main thread renews
\* the connection.
LEMMA ToldStep == ConfigInv /\ ToldInv /\ TypeOK /\ [Next]_vars => ToldInv'
<1> SUFFICES ASSUME ConfigInv, ToldInv, TypeOK, [Next]_vars PROVE ToldInv' OBVIOUS
<1>1. ASSUME UNCHANGED <<asked, told>>, InSession' => InSession PROVE ToldInv'
  BY <1>1 DEF ToldInv
<1>2. ASSUME told' = "no" PROVE ToldInv' BY <1>2 DEF ToldInv
<1>3. CASE MqttConnect BY <1>1, <1>3 DEF MqttConnect, client, ghost, InSession
<1>4. ASSUME NEW f \in Names, Set(f) PROVE ToldInv' BY <1>1, <1>4 DEF Set, client, InSession
<1>5. CASE DropSession BY <1>2, <1>5 DEF DropSession
<1>6. CASE Connect
  <2>1. todo # <<>> /\ Head(todo) = "connect" BY <1>6 DEF Connect, At, Idle
  <2>2. todo = <<"connect", "handle">> BY <2>1, StepsLeft DEF ConfigInv
  <2>3. told = "no" BY <2>2 DEF ConfigInv
  <2> QED BY <1>2, <1>6, <2>3 DEF Connect, ghost
<1>7. CASE Allocate BY <1>1, <1>7 DEF Allocate, client, InSession
<1>8. ASSUME NEW h \in 1 .. IntMax, MqttDisconnect(h) PROVE ToldInv'
  BY <1>8 DEF MqttDisconnect, Drop, InSession, ToldInv
<1>9. ASSUME NEW h \in 1 .. IntMax, MqttSubscribe(h) PROVE ToldInv'
  <2>1. InSession BY <1>9 DEF MqttSubscribe, Active
  <2>2. CASE told' = told
    <3>1. asked \subseteq asked' BY <1>9 DEF MqttSubscribe, SendFails
    <3> QED BY <2>1, <2>2, <3>1 DEF ToldInv
  <2>3. CASE told' # told
    <3>1. told' = "yes" => "script" \in asked' BY <1>9, <2>3 DEF MqttSubscribe, SendFails
    <3> QED BY <3>1 DEF ToldInv
  <2> QED BY <2>2, <2>3
<1>10. ASSUME NEW h \in 1 .. IntMax, MqttUnsubscribe(h) PROVE ToldInv' BY <1>2, <1>10 DEF MqttUnsubscribe
<1>11. ASSUME NEW h \in 1 .. IntMax, MqttUse(h) PROVE ToldInv'
  BY <1>1, <1>11, NoneOpened DEF MqttUse, SendFails, Poll, ghost
<1>12. ASSUME NEW h \in 1 .. IntMax, MqttReceive(h) PROVE ToldInv'
  BY <1>1, <1>12, NoneOpened DEF MqttReceive, client, ghost
<1>13. CASE ReceivePoll BY <1>1, <1>13, NoneOpened DEF ReceivePoll, Poll, ghost
<1>14. CASE ReceiveRead BY <1>1, <1>14 DEF ReceiveRead, InSession
<1>15. CASE Maintain BY <1>15 DEF Maintain, Opened, Drop, Renewed, InSession, ToldInv
<1>16. CASE MqttRx BY <1>1, <1>16, NoneOpened DEF MqttRx, Poll, ghost
<1>17. CASE LinkLost \/ BrokerPublish \/ UNCHANGED vars
  BY <1>1, <1>17 DEF LinkLost, BrokerPublish, vars, client, ghost, InSession
<1> QED
  BY <1>3, <1>4, <1>5, <1>6, <1>7, <1>8, <1>9, <1>10, <1>11, <1>12, <1>13, <1>14, <1>15, <1>16, <1>17
     DEF Next, Script

\* What MQTT_SUBSCRIBE has said holds for any handle still valid.
THEOREM SubscriptionHolds == Spec => []SubscribedHolds
<1>1. Init => ConfigInv /\ ToldInv
  <2> SUFFICES ASSUME Init PROVE ConfigInv /\ ToldInv OBVIOUS
  <2>1. todo = <<>> /\ handle = 0 /\ told = "no" BY DEF Init
  <2> QED BY <2>1 DEF ConfigInv, ToldInv, Shape, Idle
<1>2. ToldInv => SubscribedHolds BY DEF ToldInv, SubscribedHolds, Active
<1> QED BY <1>1, <1>2, InitTyped, TypeStep, ConfigStep, ToldStep, PTL DEF Spec

-----------------------------------------------------------------------------
(* Messages.                                                               *)

\* A message pushed into the inbox comes after all that it keeps.
LEMMA PushOrdered ==
  ASSUME NEW q \in Seq(Nat), NEW m \in Nat, Rising(q), \A i \in 1 .. Len(q) : q[i] < m
  PROVE  /\ Rising(Push(q, m))
         /\ \A i \in 1 .. Len(Push(q, m)) :
              Push(q, m)[i] = m \/ \E j \in 1 .. Len(q) : Push(q, m)[i] = q[j]
<1>1. ASSUME NEW r \in Seq(Nat), Rising(r), \A i \in 1 .. Len(r) : \E j \in 1 .. Len(q) : r[i] = q[j]
      PROVE  /\ Rising(Append(r, m))
             /\ \A i \in 1 .. Len(Append(r, m)) :
                  Append(r, m)[i] = m \/ \E j \in 1 .. Len(q) : Append(r, m)[i] = q[j]
  <2> DEFINE s == Append(r, m)
  <2>1. Len(r) \in Nat /\ Len(s) = Len(r) + 1 /\ s[Len(r) + 1] = m /\ \A i \in 1 .. Len(r) : s[i] = r[i]
    BY AppendProperties
  <2>2. \A i \in 1 .. Len(r) : r[i] < m BY <1>1
  <2> HIDE DEF s
  <2>3. ASSUME NEW i \in 1 .. Len(s), NEW j \in 1 .. Len(s), i < j PROVE s[i] < s[j]
    <3>1. i \in 1 .. Len(r) /\ (j \in 1 .. Len(r) \/ j = Len(r) + 1) BY <2>1, <2>3
    <3>2. CASE j \in 1 .. Len(r) BY <1>1, <2>1, <2>3, <3>1, <3>2 DEF Rising
    <3>3. CASE j = Len(r) + 1 BY <2>1, <2>2, <3>1, <3>3
    <3> QED BY <3>1, <3>2, <3>3
  <2>4. ASSUME NEW i \in 1 .. Len(s) PROVE s[i] = m \/ \E j \in 1 .. Len(q) : s[i] = q[j]
    <3>1. i \in 1 .. Len(r) \/ i = Len(r) + 1 BY <2>1
    <3> QED BY <1>1, <2>1, <3>1
  <2> QED BY <2>3, <2>4 DEF Rising, s
<1>2. CASE Len(q) < Depth
  <2>1. Push(q, m) = Append(q, m) BY <1>2 DEF Push
  <2> QED BY <1>1, <2>1
<1>3. CASE ~(Len(q) < Depth)
  <2>1. Push(q, m) = Append(Tail(q), m) BY <1>3 DEF Push
  <2>2. q # <<>> BY <1>3, ConstantsAssumption, EmptyTyped
  <2>3. Tail(q) \in Seq(Nat) /\ Len(q) \in Nat /\ Len(Tail(q)) = Len(q) - 1
        /\ \A i \in 1 .. Len(Tail(q)) : Tail(q)[i] = q[i + 1]
    BY <2>2, HeadTailProperties
  <2>4. Rising(Tail(q)) BY <2>3 DEF Rising
  <2>5. \A i \in 1 .. Len(Tail(q)) : i + 1 \in 1 .. Len(q) BY <2>3
  <2>6. \A i \in 1 .. Len(Tail(q)) : \E j \in 1 .. Len(q) : Tail(q)[i] = q[j] BY <2>3, <2>5
  <2> DEFINE t == Tail(q)
  <2>7. t \in Seq(Nat) /\ Rising(t) /\ \A i \in 1 .. Len(t) : \E j \in 1 .. Len(q) : t[i] = q[j]
    BY <2>3, <2>4, <2>6
  <2>8. Push(q, m) = Append(t, m) BY <2>1
  <2> HIDE DEF t
  <2> QED BY <1>1, <2>7, <2>8
<1> QED BY <1>2, <1>3

\* What is left of a sequence without its first element keeps its order.
LEMMA TailOrdered ==
  ASSUME NEW q \in Seq(Nat), q # <<>>, Rising(q)
  PROVE  /\ Head(q) = q[1] /\ 1 \in 1 .. Len(q) /\ Rising(Tail(q))
         /\ \A i \in 1 .. Len(Tail(q)) :
              Head(q) < Tail(q)[i] /\ \E j \in 1 .. Len(q) : Tail(q)[i] = q[j]
<1>1. Len(q) \in Nat \ {0} /\ Head(q) = q[1] BY EmptySeq
<1> DEFINE t == Tail(q)
<1>2. Len(t) = Len(q) - 1 /\ \A i \in 1 .. Len(t) : t[i] = q[i + 1] BY HeadTailProperties
<1> HIDE DEF t
<1>3. \A i \in 1 .. Len(t) : i + 1 \in 1 .. Len(q) /\ 1 < i + 1 BY <1>1, <1>2
<1>4. 1 \in 1 .. Len(q) BY <1>1
<1>5. ASSUME NEW i \in 1 .. Len(t), NEW j \in 1 .. Len(t), i < j PROVE t[i] < t[j]
  <2>1. i + 1 < j + 1 /\ i + 1 \in 1 .. Len(q) /\ j + 1 \in 1 .. Len(q) BY <1>3, <1>5
  <2> QED BY <1>2, <2>1 DEF Rising
<1>6. \A i \in 1 .. Len(t) : q[1] < t[i] /\ \E j \in 1 .. Len(q) : t[i] = q[j]
  BY <1>2, <1>3, <1>4 DEF Rising
<1> QED BY <1>1, <1>4, <1>5, <1>6 DEF t, Rising

\* A sequence over a set is one over every larger set.
LEMMA SeqWider ==
  ASSUME NEW S, NEW T, S \subseteq T, NEW q \in Seq(S)
  PROVE  q \in Seq(T)
OBVIOUS

\* The messages of the inbox and of the wire are numbers that the broker has given.
LEMMA Numbered ==
  ASSUME TypeOK
  PROVE  /\ inbox \in Seq(Nat) /\ wire \in Seq(Nat) /\ sent \in Nat /\ since \in Nat /\ received \in Nat
         /\ since <= sent /\ received <= sent
         /\ \A i \in 1 .. Len(inbox) : inbox[i] \in Nat /\ inbox[i] <= sent
         /\ \A j \in 1 .. Len(wire) : wire[j] \in Nat /\ wire[j] <= sent
<1>1. sent \in Nat /\ since \in Nat /\ received \in Nat /\ since <= sent /\ received <= sent
  BY ConstantsAssumption DEF TypeOK
<1>2. 1 .. sent \subseteq Nat OBVIOUS
<1>3. inbox \in Seq(1 .. sent) /\ wire \in Seq(1 .. sent) BY DEF TypeOK
<1>4. inbox \in Seq(Nat) /\ wire \in Seq(Nat) BY <1>2, <1>3, SeqWider
<1>5. \A i \in 1 .. Len(inbox) : inbox[i] \in 1 .. sent BY <1>3, ElementOfSeq
<1>6. \A j \in 1 .. Len(wire) : wire[j] \in 1 .. sent BY <1>3, ElementOfSeq
<1> QED BY <1>1, <1>4, <1>5, <1>6

\* A poll moves the oldest message of the wire behind those of the inbox.
LEMMA FreshPoll ==
  ASSUME TypeOK, FreshInv, Poll, UNCHANGED <<since, received>>
  PROVE  FreshInv'
<1>1. CASE wire # <<>> /\ inbox' = Push(inbox, Head(wire)) /\ wire' = Tail(wire)
  <2> DEFINE m == Head(wire)
  <2>1. m = wire[1] /\ 1 \in 1 .. Len(wire) /\ Rising(wire')
        /\ \A j \in 1 .. Len(wire') : m < wire'[j] /\ \E k \in 1 .. Len(wire) : wire'[j] = wire[k]
    BY <1>1, Numbered, TailOrdered DEF FreshInv
  <2>2. m \in Nat /\ m > received /\ m > since /\ \A i \in 1 .. Len(inbox) : inbox[i] < m
    BY <2>1, Numbered DEF FreshInv
  <2> HIDE DEF m
  <2>3. inbox' = Push(inbox, m) BY <1>1 DEF m
  <2>4. Rising(inbox')
        /\ \A i \in 1 .. Len(inbox') : inbox'[i] = m \/ \E j \in 1 .. Len(inbox) : inbox'[i] = inbox[j]
    BY <2>2, <2>3, Numbered, PushOrdered DEF FreshInv
  <2>5. \A i \in 1 .. Len(inbox') : inbox'[i] > received /\ inbox'[i] > since
    BY <2>2, <2>4 DEF FreshInv
  <2>6. \A j \in 1 .. Len(wire') : wire'[j] > received /\ wire'[j] > since
    BY <2>1 DEF FreshInv
  <2>7. \A i \in 1 .. Len(inbox'), j \in 1 .. Len(wire') : inbox'[i] < wire'[j]
    BY <2>1, <2>4 DEF FreshInv
  <2> QED BY <2>1, <2>4, <2>5, <2>6, <2>7 DEF FreshInv, Rising
<1>2. CASE UNCHANGED <<inbox, wire>> BY <1>2 DEF FreshInv, Rising
<1> QED BY <1>1, <1>2 DEF Poll

\* Nor does any other step put an old message before the script.
LEMMA FreshStep == TypeOK /\ FreshInv /\ [Next]_vars => FreshInv'
<1> SUFFICES ASSUME TypeOK, FreshInv, [Next]_vars PROVE FreshInv' OBVIOUS
<1>1. ASSUME UNCHANGED <<since, received>>, inbox' \in {inbox, <<>>}, wire' \in {wire, <<>>}
      PROVE  FreshInv'
  <2>1. Len(<<>>) = 0 OBVIOUS
  <2>2. \A i \in 1 .. 0 : FALSE OBVIOUS
  <2>3. Rising(<<>>) BY <2>1, <2>2 DEF Rising
  <2>4. Rising(inbox') /\ Rising(wire') BY <1>1, <2>3 DEF FreshInv
  <2>5. inbox' # inbox => \A i \in 1 .. Len(inbox') : FALSE BY <1>1, <2>1, <2>2
  <2>6. wire' # wire => \A j \in 1 .. Len(wire') : FALSE BY <1>1, <2>1, <2>2
  <2>7. \A i \in 1 .. Len(inbox') : inbox'[i] > received' /\ inbox'[i] > since' BY <1>1, <2>5 DEF FreshInv
  <2>8. \A j \in 1 .. Len(wire') : wire'[j] > received' /\ wire'[j] > since' BY <1>1, <2>6 DEF FreshInv
  <2>9. \A i \in 1 .. Len(inbox'), j \in 1 .. Len(wire') : inbox'[i] < wire'[j]
    BY <1>1, <2>5, <2>6 DEF FreshInv
  <2> QED BY <2>4, <2>7, <2>8, <2>9 DEF FreshInv, Rising
<1>2. CASE MqttConnect BY <1>1, <1>2 DEF MqttConnect, client, ghost
<1>3. ASSUME NEW f \in Names, Set(f) PROVE FreshInv' BY <1>1, <1>3 DEF Set, client
<1>4. CASE DropSession
  <2>1. inbox' = <<>> /\ wire' = <<>> BY <1>4 DEF DropSession, Drop
  <2>2. Len(<<>>) = 0 OBVIOUS
  <2>3. \A i \in 1 .. 0 : FALSE OBVIOUS
  <2> QED BY <2>1, <2>2, <2>3 DEF FreshInv, Rising
<1>5. CASE Connect BY <1>1, <1>5 DEF Connect, Opened, Drop, client, ghost
<1>6. CASE Allocate BY <1>1, <1>6 DEF Allocate, client
<1>7. ASSUME NEW h \in 1 .. IntMax, MqttDisconnect(h) PROVE FreshInv'
  BY <1>1, <1>7 DEF MqttDisconnect, Drop, ghost
<1>8. ASSUME NEW h \in 1 .. IntMax, MqttSubscribe(h) PROVE FreshInv'
  BY <1>1, <1>8 DEF MqttSubscribe, SendFails
<1>9. ASSUME NEW h \in 1 .. IntMax, MqttUnsubscribe(h) PROVE FreshInv'
  BY <1>1, <1>9 DEF MqttUnsubscribe, SendFails
<1>10. ASSUME NEW h \in 1 .. IntMax, MqttUse(h) PROVE FreshInv'
  BY <1>1, <1>10, FreshPoll DEF MqttUse, SendFails, ghost
<1>11. ASSUME NEW h \in 1 .. IntMax, MqttReceive(h) PROVE FreshInv'
  BY <1>1, <1>11 DEF MqttReceive, client, ghost
<1>12. CASE ReceivePoll BY <1>12, FreshPoll DEF ReceivePoll, ghost
<1>13. CASE ReceiveRead
  <2>1. UNCHANGED <<wire, since>> BY <1>13 DEF ReceiveRead
  <2>2. CASE inbox # <<>>
    <3>1. inbox' = Tail(inbox) /\ received' = Head(inbox) BY <1>13, <2>2 DEF ReceiveRead
    <3>2. Head(inbox) = inbox[1] /\ 1 \in 1 .. Len(inbox) /\ Rising(inbox')
          /\ \A i \in 1 .. Len(inbox') :
               received' < inbox'[i] /\ \E j \in 1 .. Len(inbox) : inbox'[i] = inbox[j]
      BY <2>2, <3>1, Numbered, TailOrdered DEF FreshInv
    <3>3. \A i \in 1 .. Len(inbox') : inbox'[i] > received' /\ inbox'[i] > since'
      <4>1. \A i \in 1 .. Len(inbox') : inbox'[i] > since' BY <2>1, <3>2 DEF FreshInv
      <4>2. \A i \in 1 .. Len(inbox') : inbox'[i] \in Nat /\ received' \in Nat BY <3>1, <3>2, Numbered
      <4> QED BY <3>2, <4>1, <4>2
    <3>4. \A j \in 1 .. Len(wire') : wire'[j] > received' /\ wire'[j] > since'
      BY <2>1, <3>1, <3>2, Numbered DEF FreshInv
    <3>5. \A i \in 1 .. Len(inbox'), j \in 1 .. Len(wire') : inbox'[i] < wire'[j]
      BY <2>1, <3>2 DEF FreshInv
    <3>6. Rising(wire') BY <2>1 DEF FreshInv
    <3> QED BY <3>2, <3>3, <3>4, <3>5, <3>6 DEF FreshInv, Rising
  <2>3. CASE inbox = <<>> BY <1>1, <1>13, <2>1, <2>3 DEF ReceiveRead
  <2> QED BY <2>2, <2>3
<1>14. CASE Maintain BY <1>1, <1>14 DEF Maintain, Opened, Drop
<1>15. CASE MqttRx BY <1>15, FreshPoll DEF MqttRx, ghost
<1>16. CASE LinkLost \/ UNCHANGED vars BY <1>1, <1>16 DEF LinkLost, vars, client, ghost
<1>17. CASE BrokerPublish
  <2>1. UNCHANGED <<inbox, since, received>> /\ wire' = Append(wire, sent + 1)
    BY <1>17 DEF BrokerPublish, ghost
  <2> DEFINE w == Append(wire, sent + 1)
  <2>2. Len(wire) \in Nat /\ Len(w) = Len(wire) + 1 /\ w[Len(wire) + 1] = sent + 1
        /\ \A j \in 1 .. Len(wire) : w[j] = wire[j]
    BY Numbered, AppendProperties
  <2>3. wire' = w BY <2>1
  <2> HIDE DEF w
  <2>4. \A j \in 1 .. Len(w) : j \in 1 .. Len(wire) \/ j = Len(wire) + 1 BY <2>2
  <2>5. Rising(w)
    <3> SUFFICES ASSUME NEW i \in 1 .. Len(w), NEW j \in 1 .. Len(w), i < j PROVE w[i] < w[j]
      BY DEF Rising
    <3>1. i \in 1 .. Len(wire) BY <2>2, <2>4
    <3>2. CASE j \in 1 .. Len(wire) BY <2>2, <3>1, <3>2 DEF FreshInv, Rising
    <3>3. CASE j = Len(wire) + 1
      <4>1. w[j] = sent + 1 /\ w[i] = wire[i] /\ wire[i] \in Nat /\ wire[i] <= sent /\ sent \in Nat
        BY <2>2, <3>1, <3>3, Numbered
      <4> QED BY <4>1
    <3> QED BY <2>4, <3>2, <3>3
  <2>6. \A j \in 1 .. Len(w) : w[j] > received /\ w[j] > since
    <3>1. sent + 1 > received /\ sent + 1 > since BY Numbered
    <3> QED BY <2>2, <2>4, <3>1 DEF FreshInv
  <2>7. \A i \in 1 .. Len(inbox), j \in 1 .. Len(w) : inbox[i] < w[j]
    <3>1. \A i \in 1 .. Len(inbox) : inbox[i] < sent + 1 BY Numbered
    <3> QED BY <2>2, <2>4, <3>1 DEF FreshInv
  <2>8. Rising(inbox) /\ \A i \in 1 .. Len(inbox) : inbox[i] > received /\ inbox[i] > since BY DEF FreshInv
  <2> QED BY <2>1, <2>3, <2>5, <2>6, <2>7, <2>8 DEF FreshInv, Rising
<1> QED
  BY <1>2, <1>3, <1>4, <1>5, <1>6, <1>7, <1>8, <1>9, <1>10, <1>11, <1>12, <1>13, <1>14, <1>15, <1>16, <1>17
     DEF Next, Script

\* A script never receives a message that is older than its session or than one that
\* it has received, whatever the depth of the inbox.
THEOREM NothingStale == Spec => ReceivedFresh
<1>1. Init => FreshInv
  <2> SUFFICES ASSUME Init PROVE FreshInv OBVIOUS
  <2>1. inbox = <<>> /\ wire = <<>> BY DEF Init
  <2>2. Len(<<>>) = 0 OBVIOUS
  <2>3. \A i \in 1 .. 0 : FALSE OBVIOUS
  <2> QED BY <2>1, <2>2, <2>3 DEF FreshInv, Rising
<1>2. TypeOK /\ FreshInv /\ [Next]_vars
        => [received' # received => received' > received /\ received' > since]_vars
  <2> SUFFICES ASSUME TypeOK, FreshInv, [Next]_vars, received' # received
               PROVE received' > received /\ received' > since
    OBVIOUS
  <2>1. ReceiveRead
    BY DEF Next, Script, MqttConnect, Set, DropSession, Connect, Allocate, MqttDisconnect, MqttSubscribe,
           MqttUnsubscribe, MqttUse, MqttReceive, ReceivePoll, Maintain, MqttRx, LinkLost, BrokerPublish,
           vars, ghost
  <2>2. inbox # <<>> /\ received' = Head(inbox) BY <2>1 DEF ReceiveRead
  <2>3. Head(inbox) = inbox[1] /\ 1 \in 1 .. Len(inbox) BY <2>2, Numbered, TailOrdered DEF FreshInv
  <2> QED BY <2>2, <2>3 DEF FreshInv
<1> QED BY <1>1, <1>2, InitTyped, TypeStep, FreshStep, PTL DEF Spec, ReceivedFresh
=============================================================================
