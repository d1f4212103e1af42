------------------------------ MODULE MqttClient ------------------------------
(***************************************************************************)
(* The MQTT session of src/Protocol/Mqtt/Src/mqtt_client.c.                 *)
(*                                                                         *)
(* One recursive mutex, mqtt_lock, is held over every public call, so at   *)
(* any time one thread at most is inside the client.  What interleaves     *)
(* with that call is the network: each mqtt_client_poll sees what has      *)
(* arrived so far, and the link may be lost between two of them.  The call *)
(* in progress is therefore an explicit call stack (Head(stack) is the     *)
(* innermost activation) and every step between two looks at the socket is *)
(* one action.  The stack also shows what the lock does not prevent: a     *)
(* message handler that publishes and so polls again, inside the poll that *)
(* called it.                                                              *)
(*                                                                         *)
(* Frames are whole: the bytes of an incomplete frame count as not yet     *)
(* received.  Payloads are left out; a downlink message is a model value   *)
(* with a topic and a QoS.                                                 *)
(***************************************************************************)
EXTENDS Naturals, Sequences

CONSTANTS
  Messages,       \* the downlink messages the broker may publish, once each
  Commands,       \* those on the platform topic /v1/devices/down/command/
  AppMessages,    \* those on a topic that only a BASIC script subscribes to
  Qos1Messages,   \* those the broker publishes with QoS 1
  PubQos,         \* mqtt_config->pub_qos, 0 or 1
  Polls,          \* the MQTT_*_TIMEOUT_POLLS of mqtt_wait_for_flag
  InboxDepth,     \* MQTT_INBOX_DEPTH
  IdMax,          \* 65535, the largest uint16_t packet id
  Scripts,        \* whether BASIC scripts and the shell use the client too
  Stabilises,     \* whether the network may become reliable for good
  MaxIds,         \* bound: operations start below this packet id
  MaxWire,        \* bound: unsolicited or unread frames on the wire
  MaxStack        \* bound: depth of the call stack at which handlers stop

ASSUME ConstantsAssumption ==
  /\ Commands \subseteq Messages /\ AppMessages \subseteq Messages
  /\ Commands \cap AppMessages = {}
  /\ Qos1Messages \subseteq Messages
  /\ PubQos \in {0, 1}
  /\ Polls \in Nat \ {0} /\ InboxDepth \in Nat \ {0}
  /\ IdMax \in Nat \ {0} /\ MaxIds \in Nat /\ MaxWire \in Nat /\ MaxStack \in Nat
  /\ Scripts \in BOOLEAN /\ Stabilises \in BOOLEAN

None == "none"

\* The three prefixes of mqtt_client_subscribe_platform_topics_locked.
PlatformTopics == <<"registerInfo", "updateResponse", "command">>

Topics == {PlatformTopics[i] : i \in DOMAIN PlatformTopics} \cup {"app"}

TopicOf(m) == IF m \in Commands THEN "command"
              ELSE IF m \in AppMessages THEN "app" ELSE "registerInfo"

\* mqtt_client_state_t.
States == {"DISCONNECTED", "TCP_CONNECTED", "SESSION_CONNECTED", "SUBSCRIBED"}

\* The MQTT_PACKET_FLAG_* some code waits for.  PUBLISH and DISCONNECT are set
\* and never tested.
Flags == {"CONNACK", "PUBACK", "SUBACK", "PINGRESP", "UNSUBACK"}

\* What the broker sends.  A refused CONNACK carries id 1, as its return code.
Frame ==
  [type : Flags \cup {"DISCONNECT"}, id : 0 .. IdMax, msg : {None}]
    \cup [type : {"PUBLISH"}, id : {0}, msg : Messages]

Ack(type, id) == [type |-> type, id |-> id, msg |-> None]
Downlink(m) == [type |-> "PUBLISH", id |-> 0, msg |-> m]

Labels == {"poll", "frames", "polled", "responded", "handled", "wait", "check",
           "connect", "connack", "sub", "suback", "unsub", "ping", "publish",
           "puback", "mt_polled", "mt_connected", "mt_ping", "mt_pinged",
           "mt_sub", "mt_subbed"}

\* An activation of a function: where it is, and the locals a label reads.
Activation ==
  {a \in [at : Labels, flag : Flags \cup {None}, left : 0 .. Polls, qos : {0, 1},
          id : 0 .. IdMax, msg : Messages \cup {None}, todo : Seq(Topics)] :
     /\ a.at \in {"sub", "suback"} => a.todo # <<>>
     /\ a.at = "puback" => a.id # 0}

VARIABLES
  state,       \* mqtt_state
  flags,       \* mqtt_packet_flags
  packetId,    \* mqtt_packet_id
  lastPuback,  \* mqtt_last_puback_id
  accum,       \* mqtt_rx_accum, as the frames in it
  inbox,       \* mqtt_inbox, oldest first
  pingDue,     \* now_ms - mqtt_last_ping_tick has reached half the keepalive
  retryDue,    \* now_ms - mqtt_last_reconnect_tick has reached the interval
  wild,        \* mqtt_rx_accum_len has wrapped below zero (memory is overrun)
  stack, ret,  \* the call in progress under mqtt_lock; what last returned
  tcp,         \* the socket: "up", "mute" (dead, not yet noticed), "down", "closed"
  wire,        \* frames from the broker on this connection, not yet received
  healthy,     \* from now on the network neither delays nor loses
  \* What really happened at the broker, for the properties:
  accepted,    \* it has accepted a CONNECT on this connection
  asked,       \* topics it has got a SUBSCRIBE for on this connection
  got,         \* packet ids of the QoS 1 PUBLISHes it has got
  sent,        \* downlink messages it has published
  executed,    \* how often the device has executed a message (2: or more)
  lastPub      \* outcome of the last QoS 1 publish: its packet id and result

client == <<state, flags, packetId, lastPuback, accum, inbox, wild>>
timers == <<pingDue, retryDue>>
link == <<tcp, wire, accepted, asked, got>>
ghost == <<sent, executed, lastPub>>
control == <<stack, ret>>
vars == <<client, timers, link, ghost, control, healthy>>

TypeOK ==
  /\ state \in States /\ flags \in SUBSET Flags
  /\ packetId \in 1 .. IdMax /\ lastPuback \in 0 .. IdMax
  /\ accum \in Seq(Frame) /\ wire \in Seq(Frame)
  /\ inbox \in Seq(Messages) /\ Len(inbox) <= InboxDepth
  /\ pingDue \in BOOLEAN /\ retryDue \in BOOLEAN
  /\ wild \in BOOLEAN /\ ret \in BOOLEAN /\ healthy \in BOOLEAN /\ accepted \in BOOLEAN
  /\ stack \in Seq(Activation)
  /\ tcp \in {"up", "mute", "down", "closed"}
  /\ asked \in SUBSET Topics
  /\ got \in SUBSET (1 .. IdMax) /\ sent \in SUBSET Messages
  /\ executed \in [Messages -> 0 .. 2]
  /\ lastPub \in [id : 0 .. IdMax, ok : BOOLEAN]

Init ==
  /\ state = "DISCONNECTED" /\ flags = {}
  /\ packetId = 1 /\ lastPuback = 0
  /\ accum = <<>> /\ inbox = <<>> /\ wild = FALSE
  /\ pingDue = TRUE /\ retryDue = TRUE
  /\ stack = <<>> /\ ret = FALSE
  /\ tcp = "closed" /\ wire = <<>> /\ accepted = FALSE /\ asked = {} /\ got = {}
  /\ sent = {} /\ executed = [m \in Messages |-> 0]
  /\ lastPub = [id |-> 0, ok |-> FALSE]
  /\ healthy = FALSE

-----------------------------------------------------------------------------
(* The call stack.                                                         *)

Enter(l) == [at |-> l, flag |-> None, left |-> 0, qos |-> 0, id |-> 0,
             msg |-> None, todo |-> <<>>]
WaitFor(flag) == [Enter("wait") EXCEPT !.flag = flag, !.left = Polls]
\* Mutant: every response waits for a PUBACK.
PublishCallQos1(qos) == [Enter("publish") EXCEPT !.qos = 1]

PublishCall(qos) == [Enter("publish") EXCEPT !.qos = qos]

\* Mutant: it returns after the first topic.
SubscribeCallFirst(topics) == [Enter("sub") EXCEPT !.todo = <<Head(topics)>>]

SubscribeCall(topics) == [Enter("sub") EXCEPT !.todo = topics]

Idle == stack = <<>> /\ ~wild
At(l) == stack # <<>> /\ ~wild /\ Head(stack).at = l
Top == Head(stack)
Goto(l) == stack' = <<[Top EXCEPT !.at = l]>> \o Tail(stack)
\* Call r; the caller goes on at l, with id as its packet_id.
CallFor(l, id, r) == stack' = <<r, [Top EXCEPT !.at = l, !.id = id]>> \o Tail(stack)
Call(l, r) == CallFor(l, Top.id, r)
Return(b) == stack' = Tail(stack) /\ ret' = b

InSession == state \in {"SESSION_CONNECTED", "SUBSCRIBED"}

\* network_socket_is_tcp_connected
Connected == tcp \in {"up", "mute"}

-----------------------------------------------------------------------------
(* The network and the broker.                                             *)

\* A packet is handed to the socket and, unless the connection is mute, reaches
\* the broker, which answers with the frames of reply.
Reaches(reply) ==
  /\ Connected
  /\ wire' = IF tcp = "up" THEN wire \o reply ELSE wire
  /\ UNCHANGED <<tcp, accepted>>

\* network_socket_send fails and marks the socket as not opened.
SendFails ==
  /\ ~(healthy /\ Connected)
  /\ tcp' = "closed" /\ wire' = <<>>
  /\ UNCHANGED <<accepted, asked, got>>

\* mqtt_client_disconnect_locked: whatever becomes of the DISCONNECT packet, the
\* socket is closed and the session's state is cleared.
Drop ==
  /\ tcp' = "closed" /\ wire' = <<>>
  /\ state' = "DISCONNECTED" /\ flags' = {} /\ accum' = <<>> /\ inbox' = <<>>
  /\ UNCHANGED <<packetId, lastPuback, wild, accepted, asked, got>>

\* The broker publishes a message the device has subscribed to.
BrokerPublish(m) ==
  /\ tcp = "up" /\ Len(wire) < MaxWire
  /\ m \notin sent /\ TopicOf(m) \in asked
  /\ wire' = Append(wire, Downlink(m)) /\ sent' = sent \cup {m}
  /\ UNCHANGED <<client, timers, control, healthy, tcp, accepted, asked, got,
                 executed, lastPub>>

\* The broker ends the session with a DISCONNECT and closes its side.
BrokerDisconnect ==
  /\ tcp = "up" /\ ~healthy /\ Len(wire) < MaxWire
  /\ wire' = Append(wire, Ack("DISCONNECT", 0)) /\ tcp' = "mute"
  /\ UNCHANGED <<client, timers, control, ghost, healthy, accepted, asked, got>>

\* The connection is lost, noticed or not; frames in flight may be lost with it.
LinkLost ==
  /\ Connected /\ ~healthy
  /\ tcp' \in {"mute", "down"} /\ tcp' # tcp
  /\ \E n \in 0 .. Len(wire) : wire' = SubSeq(wire, 1, n)
  /\ UNCHANGED <<client, timers, control, ghost, healthy, accepted, asked, got>>

Stabilise ==
  /\ Stabilises /\ ~healthy /\ healthy' = TRUE
  /\ UNCHANGED <<client, timers, control, ghost, link>>

\* Time passes: the keepalive or the reconnect interval runs out.
PingClock ==
  /\ ~pingDue /\ pingDue' = TRUE
  /\ UNCHANGED <<client, retryDue, control, ghost, link, healthy>>

RetryClock ==
  /\ ~retryDue /\ retryDue' = TRUE
  /\ UNCHANGED <<client, pingDue, control, ghost, link, healthy>>

-----------------------------------------------------------------------------
(* mqtt_client_poll_locked                                                 *)

\* network_socket_recv: some of what is on the wire has arrived.  Frames are
\* looked at only when it returned something.
Recv ==
  /\ At("poll")
  /\ \E n \in 0 .. Len(wire) :
       /\ healthy => n = Len(wire)
       /\ accum' = accum \o SubSeq(wire, 1, n)
       /\ wire' = SubSeq(wire, n + 1, Len(wire))
       /\ Goto(IF n > 0 THEN "frames" ELSE "polled")
  /\ UNCHANGED <<state, flags, packetId, lastPuback, inbox, wild, timers, ghost, ret,
                 healthy, tcp, accepted, asked, got>>

\* mqtt_handle_packet for an acknowledgement: only a CONNACK has its return code
\* looked at, only a PUBACK has its packet id kept.
HandleAck ==
  /\ At("frames") /\ accum # <<>>
  /\ LET f == Head(accum) IN
       /\ f.type \in Flags
       /\ flags' = IF f.type = "CONNACK" /\ f.id # 0 THEN flags ELSE flags \cup {f.type}
       /\ lastPuback' = IF f.type = "PUBACK" THEN f.id ELSE lastPuback
  /\ accum' = Tail(accum)
  /\ UNCHANGED <<state, packetId, inbox, wild, timers, ghost, control, healthy, link>>

HandleDisconnect ==
  /\ At("frames") /\ accum # <<>> /\ Head(accum).type = "DISCONNECT"
  /\ state' = "DISCONNECTED" /\ accum' = Tail(accum)
  /\ UNCHANGED <<flags, packetId, lastPuback, inbox, wild, timers, ghost, control,
                 healthy, link>>

\* Mutant: a full inbox takes one more.
PushMore(m) == Append(inbox, m)

\* mqtt_inbox_push: the oldest message makes room for the newest.
Push(m) == IF Len(inbox) < InboxDepth THEN Append(inbox, m) ELSE Append(Tail(inbox), m)

\* mqtt_handle_publish up to its handler.  A command is executed and answered
\* with a publish; other messages only change the device tables.  The frame stays
\* at the front of accum until the handler is back.
HandlePublish ==
  /\ At("frames") /\ accum # <<>> /\ Head(accum).type = "PUBLISH"
  /\ Len(stack) <= MaxStack
  /\ LET m == Head(accum).msg
         caller == [Top EXCEPT !.at = IF m \in Commands THEN "responded" ELSE "handled",
                               !.msg = m]
     IN /\ inbox' = Push(m)
        /\ executed' = [executed EXCEPT ![m] = IF @ < 2 THEN @ + 1 ELSE @]
        /\ stack' = (IF m \in Commands THEN <<PublishCall(PubQos), caller>> ELSE <<caller>>)
                    \o Tail(stack)
  /\ UNCHANGED <<state, flags, packetId, lastPuback, accum, wild, timers, sent, lastPub,
                 ret, healthy, link>>

\* platform_messages_execute_command after its response: a command that worked is
\* followed by the devices' data, if the client is ready.
Responded ==
  /\ At("responded")
  /\ \/ state = "SUBSCRIBED" /\ Call("handled", PublishCall(PubQos))
     \/ Goto("handled")
  /\ UNCHANGED <<client, timers, ghost, ret, healthy, link>>

\* The handler is back: PUBACK the message and take its frame off the front.
HandlerDone ==
  /\ At("handled")
  /\ \/ Top.msg \notin Qos1Messages /\ UNCHANGED link
     \/ Top.msg \in Qos1Messages /\ Reaches(<<>>) /\ UNCHANGED <<asked, got>>
     \/ Top.msg \in Qos1Messages /\ SendFails
  /\ Goto("frames")
  /\ IF accum = <<>> THEN wild' = TRUE /\ UNCHANGED accum
                     ELSE accum' = Tail(accum) /\ UNCHANGED wild
  /\ UNCHANGED <<state, flags, packetId, lastPuback, inbox, timers, ghost, ret, healthy>>

\* The end of the poll: a connection found lost ends the session.  Neither the
\* socket, nor the flags, nor the inbox are touched.
PollEnd ==
  /\ At("polled") \/ (At("frames") /\ accum = <<>>)
  /\ IF state # "DISCONNECTED" /\ ~Connected
       THEN state' = "DISCONNECTED" /\ accum' = <<>>
       ELSE UNCHANGED <<state, accum>>
  /\ Return(ret)
  /\ UNCHANGED <<flags, packetId, lastPuback, inbox, wild, timers, ghost, healthy, link>>

-----------------------------------------------------------------------------
(* mqtt_wait_for_flag                                                      *)

Wait ==
  /\ At("wait") /\ Call("check", Enter("poll"))
  /\ UNCHANGED <<client, timers, ghost, ret, healthy, link>>

Check ==
  /\ At("check")
  /\ \/ Top.flag \in flags /\ Return(TRUE)
     \/ Top.flag \notin flags /\ Top.left <= 1 /\ Return(FALSE)
     \/ /\ Top.flag \notin flags /\ Top.left > 1 /\ UNCHANGED ret
        /\ stack' = <<[Top EXCEPT !.at = "wait", !.left = Top.left - 1]>> \o Tail(stack)
  /\ UNCHANGED <<client, timers, ghost, healthy, link>>

\* Mutant: an answer that came before still counts.
ClearNothing(flag) == flags' = flags

\* Each request clears the flag of its answer before it is sent.
Clear(flag) == flags' = flags \ {flag}

\* mqtt_next_packet_id
NextId == IF packetId = IdMax THEN 1 ELSE packetId + 1

-----------------------------------------------------------------------------
(* mqtt_client_connect_locked                                              *)

\* A live session is kept.
KeepSession ==
  /\ At("connect") /\ InSession /\ Connected
  /\ Return(TRUE)
  /\ UNCHANGED <<client, timers, ghost, healthy, link>>

\* The link is not ready, the socket does not open or the CONNECT is not sent.
ConnectFails ==
  /\ At("connect") /\ ~(InSession /\ Connected) /\ ~healthy
  /\ Drop /\ Return(FALSE)
  /\ UNCHANGED <<timers, ghost, healthy>>

\* A new connection is open and has taken the CONNECT; unless it is mute, the
\* broker accepts or refuses.  Only a state other than DISCONNECTED is cleaned up
\* first.
ConnectSent ==
  /\ At("connect") /\ ~(InSession /\ Connected)
  /\ state' = "TCP_CONNECTED"
  /\ IF state = "DISCONNECTED"
       THEN Clear("CONNACK") /\ UNCHANGED <<accum, inbox>>
       ELSE flags' = {} /\ accum' = <<>> /\ inbox' = <<>>
  /\ \E answer \in {"accept", "refuse", "none"} :
       /\ healthy => answer = "accept"
       /\ tcp' = IF answer = "none" THEN "mute" ELSE "up"
       /\ wire' = IF answer = "none" THEN <<>>
                  ELSE <<Ack("CONNACK", IF answer = "accept" THEN 0 ELSE 1)>>
       /\ accepted' = (answer = "accept")
  /\ asked' = {}
  /\ Call("connack", WaitFor("CONNACK"))
  /\ UNCHANGED <<packetId, lastPuback, wild, got, timers, ghost, ret, healthy>>

\* The session is up.  mqtt_last_ping_tick is then the HAL tick, which is ahead of
\* the kernel tick in maintain's now_ms: the difference wraps and a ping is due.
ConnackSeen ==
  /\ At("connack") /\ ret
  /\ state' = "SESSION_CONNECTED"
  /\ pingDue' \in IF Len(stack) > 1 THEN {TRUE} ELSE BOOLEAN
  /\ Return(TRUE)
  /\ UNCHANGED <<flags, packetId, lastPuback, accum, inbox, wild, retryDue, ghost,
                 healthy, link>>

ConnackTimeout ==
  /\ At("connack") /\ ~ret
  /\ Drop /\ Return(FALSE)
  /\ UNCHANGED <<timers, ghost, healthy>>

-----------------------------------------------------------------------------
(* mqtt_subscribe_full_topic, for each topic of todo                       *)

\* Outside a session nothing is sent.
Refuse ==
  /\ At("sub") \/ At("unsub") \/ At("publish")
  /\ ~InSession
  /\ Return(FALSE)
  /\ UNCHANGED <<client, timers, ghost, healthy, link>>

\* What a request does to the client before it is sent: it takes a packet id and
\* clears the flag of its answer.
Request(flag) ==
  /\ InSession
  /\ packetId' = NextId /\ Clear(flag)
  /\ UNCHANGED <<state, lastPuback, accum, inbox, wild>>

Subscribe ==
  /\ At("sub") /\ Request("SUBACK")
  /\ \/ /\ Reaches(<<Ack("SUBACK", NextId)>>)
        /\ asked' = IF tcp = "up" THEN asked \cup {Head(Top.todo)} ELSE asked
        /\ CallFor("suback", NextId, WaitFor("SUBACK"))
        /\ UNCHANGED <<got, ret>>
     \/ SendFails /\ Return(FALSE)
  /\ UNCHANGED <<timers, ghost, healthy>>

\* Any SUBACK will do.  After the last topic the client counts as ready, whatever
\* the topics were and whatever has become of the session.
Suback ==
  /\ At("suback")
  /\ IF ~ret THEN Return(FALSE) /\ UNCHANGED state
     ELSE IF Len(Top.todo) = 1 THEN Return(TRUE) /\ state' = "SUBSCRIBED"
     ELSE /\ stack' = <<SubscribeCall(Tail(Top.todo))>> \o Tail(stack)
          /\ UNCHANGED <<state, ret>>
  /\ UNCHANGED <<flags, packetId, lastPuback, accum, inbox, wild, timers, ghost,
                 healthy, link>>

\* mqtt_client_unsubscribe_topic_locked; returns what the wait returns.
Unsubscribe ==
  /\ At("unsub") /\ Request("UNSUBACK")
  /\ \/ /\ Reaches(<<Ack("UNSUBACK", NextId)>>)
        /\ asked' = IF tcp = "up" THEN asked \ {"app"} ELSE asked
        /\ stack' = <<WaitFor("UNSUBACK")>> \o Tail(stack)
        /\ UNCHANGED <<got, ret>>
     \/ SendFails /\ Return(FALSE)
  /\ UNCHANGED <<timers, ghost, healthy>>

\* mqtt_client_ping_locked; returns what the wait returns.
Ping ==
  /\ At("ping") /\ Clear("PINGRESP")
  /\ \/ /\ Reaches(<<Ack("PINGRESP", 0)>>)
        /\ stack' = <<WaitFor("PINGRESP")>> \o Tail(stack)
        /\ UNCHANGED <<asked, got, ret>>
     \/ SendFails /\ Return(FALSE)
  /\ UNCHANGED <<state, packetId, lastPuback, accum, inbox, wild, timers, ghost, healthy>>

-----------------------------------------------------------------------------
(* mqtt_publish_full_topic                                                 *)

\* QoS 0: done once sent.  The PUBACK flag is cleared all the same.
PublishQos0 ==
  /\ At("publish") /\ InSession /\ Top.qos = 0
  /\ Clear("PUBACK")
  /\ \/ Reaches(<<>>) /\ Return(TRUE) /\ UNCHANGED <<asked, got>>
     \/ SendFails /\ Return(FALSE)
  /\ UNCHANGED <<state, packetId, lastPuback, accum, inbox, wild, timers, ghost, healthy>>

PublishQos1 ==
  /\ At("publish") /\ Top.qos = 1 /\ Request("PUBACK")
  /\ \/ /\ Reaches(<<Ack("PUBACK", NextId)>>)
        /\ got' = IF tcp = "up" THEN got \cup {NextId} ELSE got
        /\ CallFor("puback", NextId, WaitFor("PUBACK"))
        /\ UNCHANGED <<asked, ret>>
     \/ SendFails /\ Return(FALSE)
  /\ UNCHANGED <<timers, ghost, healthy>>

\* Mutant: any PUBACK will do.
PublishResultAny == ret

\* The publish succeeded if the PUBACK that came last is its own.
PublishResult == ret /\ lastPuback = Top.id

Puback ==
  /\ At("puback")
  /\ Return(PublishResult)
  /\ lastPub' = [id |-> Top.id, ok |-> PublishResult]
  /\ UNCHANGED <<client, timers, sent, executed, healthy, link>>

-----------------------------------------------------------------------------
(* mqtt_client_maintain_locked                                             *)

\* After its poll: connect if there is no session and it is time to try again.
MaintainPolled ==
  /\ At("mt_polled")
  /\ \/ InSession /\ Goto("mt_ping") /\ UNCHANGED <<retryDue, ret>>
     \/ /\ state = "DISCONNECTED" /\ ~retryDue
        /\ Return(FALSE) /\ UNCHANGED retryDue
     \/ /\ ~InSession /\ (state = "DISCONNECTED" => retryDue)
        /\ retryDue' = (retryDue /\ state # "DISCONNECTED")
        /\ Call("mt_connected", Enter("connect")) /\ UNCHANGED ret
  /\ UNCHANGED <<client, pingDue, ghost, healthy, link>>

MaintainConnected ==
  /\ At("mt_connected")
  /\ IF ret THEN Goto("mt_ping") /\ UNCHANGED ret ELSE Return(FALSE)
  /\ UNCHANGED <<client, timers, ghost, healthy, link>>

MaintainPing ==
  /\ At("mt_ping")
  /\ IF pingDue THEN Call("mt_pinged", Enter("ping")) ELSE Goto("mt_sub")
  /\ UNCHANGED <<client, timers, ghost, ret, healthy, link>>

\* The ping may have been answered by a poll that then saw the session end.
MaintainPinged ==
  /\ At("mt_pinged") /\ ret
  /\ pingDue' = FALSE
  /\ IF InSession THEN Goto("mt_sub") /\ UNCHANGED ret ELSE Return(FALSE)
  /\ UNCHANGED <<client, retryDue, ghost, healthy, link>>

MaintainSubscribe ==
  /\ At("mt_sub")
  /\ IF state = "SESSION_CONNECTED"
       THEN Call("mt_subbed", SubscribeCall(PlatformTopics)) /\ UNCHANGED ret
       ELSE Return(state = "SUBSCRIBED")
  /\ UNCHANGED <<client, timers, ghost, healthy, link>>

MaintainSubscribed ==
  /\ At("mt_subbed") /\ ret
  /\ Return(state = "SUBSCRIBED")
  /\ UNCHANGED <<client, timers, ghost, healthy, link>>

\* Mutant: the failed session is kept.
MaintainKeep ==
  /\ At("mt_pinged") \/ At("mt_subbed")
  /\ ~ret
  /\ Return(FALSE)
  /\ UNCHANGED <<client, timers, ghost, healthy, link>>

\* A ping or a subscription that failed ends the session.
MaintainDrop ==
  /\ At("mt_pinged") \/ At("mt_subbed")
  /\ ~ret
  /\ Drop /\ Return(FALSE)
  /\ UNCHANGED <<timers, ghost, healthy>>

-----------------------------------------------------------------------------
(* The threads.  A call starts when no other is in progress.               *)

\* Bound: packet ids are left for the call.
Room == packetId + 3 <= MaxIds

Start(calls) ==
  /\ Idle /\ stack' = calls
  /\ UNCHANGED <<client, timers, ghost, ret, healthy, link>>

\* The main thread: mqtt_client_maintain, and a report of device data when ready.
Maintain == Room /\ Start(<<Enter("poll"), Enter("mt_polled")>>)
Report == Room /\ Start(<<PublishCall(PubQos)>>)

\* The mqtt_rx thread.
RxPoll == Start(<<Enter("poll")>>)

\* A BASIC script or the debug shell.
ScriptCall ==
  /\ Scripts /\ Room /\ Len(wire) < MaxWire
  /\ \E c \in {Enter("connect"), SubscribeCall(<<"app">>), SubscribeCall(PlatformTopics),
               Enter("unsub"), Enter("ping"), PublishCall(0), PublishCall(1)} : Start(<<c>>)

ScriptDisconnect ==
  /\ Scripts /\ Idle
  /\ Drop
  /\ UNCHANGED <<timers, ghost, control, healthy>>

\* mqtt_client_read_message_ex
ScriptRead ==
  /\ Scripts /\ Idle /\ inbox # <<>>
  /\ inbox' = Tail(inbox)
  /\ UNCHANGED <<state, flags, packetId, lastPuback, accum, wild, timers, ghost, control,
                 healthy, link>>

-----------------------------------------------------------------------------
Environment ==
  \/ \E m \in Messages : BrokerPublish(m)
  \/ BrokerDisconnect \/ LinkLost \/ Stabilise \/ PingClock \/ RetryClock

\* One step of the call in progress.
PollStep ==
  \/ Recv \/ HandleAck \/ HandleDisconnect \/ HandlePublish \/ Responded \/ HandlerDone
  \/ PollEnd \/ Wait \/ Check

ConnectStep ==
  KeepSession \/ ConnectFails \/ ConnectSent \/ ConnackSeen \/ ConnackTimeout

RequestStep ==
  Refuse \/ Subscribe \/ Suback \/ Unsubscribe \/ Ping \/ PublishQos0 \/ PublishQos1 \/ Puback

MaintainStep ==
  \/ MaintainPolled \/ MaintainConnected \/ MaintainPing \/ MaintainPinged
  \/ MaintainSubscribe \/ MaintainSubscribed \/ MaintainDrop

CallStep == PollStep \/ ConnectStep \/ RequestStep \/ MaintainStep

Threads == Maintain \/ Report \/ RxPoll \/ ScriptCall \/ ScriptDisconnect \/ ScriptRead

Next == Environment \/ CallStep \/ Threads

Spec == Init /\ [][Next]_vars

\* A call in progress goes on, time passes, and the main thread, which waits for
\* mqtt_lock without a timeout and is the highest of its waiters that does, gets
\* the lock again and again: mqtt_rx sleeps 10 ms between two polls.
Fairness ==
  /\ WF_vars(CallStep) /\ WF_vars(PingClock) /\ WF_vars(RetryClock)
  /\ SF_vars(Maintain)

FairSpec == Spec /\ Fairness

-----------------------------------------------------------------------------
(* Properties                                                              *)

\* The client takes itself to be in a session on a live connection only if the
\* broker accepted a CONNECT on that very connection: no CONNACK left over from an
\* earlier one, and none that refuses, opens a session.
SessionHasConnack == InSession /\ Connected => accepted

\* A QoS 1 publish reported as done has reached the broker: a late PUBACK of an
\* earlier publish, or one read inside a nested poll, is not taken for its own.
AckedPublish == lastPub.ok => lastPub.id \in got

\* A command is executed at most once for each time the broker publishes it: the
\* poll takes the frame off before anything can look at it again.
CommandOnce == \A m \in Commands : executed[m] <= 1

\* Taking a handled frame off never leaves fewer than zero bytes.
NoUnderflow == ~wild

\* A client that is ready on a live connection has subscribed to all the platform's
\* topics there, so that commands can reach the device.
ReadyMeansSubscribed ==
  state = "SUBSCRIBED" /\ tcp = "up" => Topics \ {"app"} \subseteq asked

\* Once the network is reliable for good, the main thread brings the session up to
\* the platform's topics on a live connection and keeps it there: a connection that
\* died unnoticed is found by a ping and given up.
StaysReady == <>[]healthy => <>[](state = "SUBSCRIBED" /\ tcp = "up")
=============================================================================
