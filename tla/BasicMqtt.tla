------------------------------- MODULE BasicMqtt -------------------------------
(***************************************************************************)
(* The MQTT handles of src/Interpreter/Src/basic_mqtt.c over the client's  *)
(* one session.                                                            *)
(*                                                                         *)
(* The script's thread is below the main thread and mqtt_rx: between any   *)
(* two of its steps the main thread may maintain the session, which        *)
(* reconnects with the settings of that moment, and mqtt_rx may poll.  The *)
(* client's own calls hold mqtt_lock and are single steps here; MqttClient *)
(* models them in full.  Settings changed at the shell are left out.       *)
(*                                                                         *)
(* A setting is one of the config_set_value calls of MQTT_CONNECT.  The    *)
(* broker numbers its messages, on the script's topics or the platform's;  *)
(* a command's response is published with QoS 0.                           *)
(***************************************************************************)
EXTENDS Naturals, Sequences

CONSTANTS
  Settings,   \* the settings in the order in which they are set
  Optional,   \* those that MQTT_CONNECT may leave as they are
  Values,     \* the values of a setting
  TooLong,    \* a value that is refused
  IntMax,     \* INT_MAX, the last handle before they start over
  Depth,      \* MQTT_INBOX_DEPTH
  MaxWire,    \* bound: unread frames of one kind on a connection
  MaxSent     \* bound: messages of the broker

Keep == "keep"

\* The other steps of MQTT_CONNECT and MQTT_RECEIVE.
Steps == {"disconnect", "connect", "handle", "poll", "read"}

ASSUME ConstantsAssumption ==
  /\ Settings \in Seq(STRING \ Steps) /\ Settings # <<>>
  /\ Optional \subseteq {Settings[i] : i \in DOMAIN Settings}
  /\ Values # {} /\ TooLong \notin Values \cup {Keep} /\ Keep \notin Values
  /\ IntMax \in Nat \ {0} /\ Depth \in Nat \ {0} /\ MaxWire \in Nat /\ MaxSent \in Nat

Names == {Settings[i] : i \in DOMAIN Settings}

VARIABLES
  config,     \* active_config.mqtt
  state,      \* mqtt_state; a TCP connection without a session shows to no one
  tcp,        \* the socket: "up", "mute" (dead, not yet noticed) or "down"
  inbox,      \* mqtt_inbox, oldest first
  handle,     \* basic_mqtt_active_handle
  next,       \* basic_mqtt_next_handle
  todo, args, \* what the script's call has still to do, its settings
  \* The connection and the broker:
  made,       \* the settings it was made with
  asked,      \* who has subscribed on it: the script, the platform
  wire,       \* its messages, not yet received
  subacks,    \* its SUBACKs, not yet received
  sent,       \* the messages sent so far
  \* What the script may rely on, for the properties:
  meant,      \* the settings that the handle was asked for
  half,       \* a later MQTT_CONNECT has failed with some of its settings set
  told,       \* MQTT_SUBSCRIBE has said yes; "renewed", "unmatched": see below
  since,      \* the last message before the handle's connection
  received    \* the last message received

client == <<state, tcp, inbox, made, asked, wire, subacks>>
script == <<handle, next, todo, args>>
ghost == <<meant, half, told, since, received>>
vars == <<config, client, script, sent, ghost>>

Label == Names \cup Steps

TypeOK ==
  /\ config \in [Names -> Values] /\ made \in [Names -> Values] /\ meant \in [Names -> Values]
  /\ args \in [Names -> Values \cup {TooLong, Keep}]
  /\ state \in {"DISCONNECTED", "SESSION_CONNECTED", "SUBSCRIBED"}
  /\ tcp \in {"up", "mute", "down"} /\ asked \subseteq {"script", "platform"}
  /\ inbox \in Seq(1 .. sent) /\ Len(inbox) <= Depth /\ wire \in Seq(1 .. sent)
  /\ subacks \in 0 .. MaxWire /\ sent \in 0 .. MaxSent
  /\ handle \in 0 .. IntMax /\ next \in 0 .. IntMax /\ todo \in Seq(Label)
  /\ half \in BOOLEAN /\ told \in {"no", "yes", "renewed", "unmatched"}
  /\ since \in 0 .. sent /\ received \in 0 .. sent

\* basic_mqtt_register, when the script starts.
Init ==
  /\ config \in [Names -> Values] /\ made = config /\ meant = config
  /\ args = [f \in Names |-> Keep]
  /\ state = "DISCONNECTED" /\ tcp = "down" /\ asked = {} /\ inbox = <<>>
  /\ wire = <<>> /\ subacks = 0 /\ sent = 0
  /\ handle = 0 /\ next = 0 /\ todo = <<>>
  /\ half = FALSE /\ told = "no" /\ since = 0 /\ received = 0

-----------------------------------------------------------------------------
(* The client, as its callers see it.                                      *)

InSession == state # "DISCONNECTED"

\* Mutant: a client without a session has nothing to clear.
DropConnected ==
  /\ state' = "DISCONNECTED" /\ tcp' = "down" /\ asked' = {} /\ wire' = <<>> /\ subacks' = 0
  /\ inbox' = IF InSession THEN <<>> ELSE inbox
  /\ UNCHANGED made

\* mqtt_client_disconnect_locked.
Drop ==
  /\ state' = "DISCONNECTED" /\ tcp' = "down" /\ asked' = {} /\ wire' = <<>> /\ subacks' = 0
  /\ inbox' = <<>>
  /\ UNCHANGED made

\* A new connection has its CONNACK, and s is the state after that.  The inbox is
\* cleared only if there was a session to drop.
Opened(s) ==
  /\ state' = s /\ made' = config /\ tcp' \in {"up", "mute"}
  /\ asked' = (IF s = "SUBSCRIBED" THEN {"platform"} ELSE {})
  /\ wire' = <<>> /\ subacks' = 0
  /\ inbox' = IF InSession THEN <<>> ELSE inbox

\* Mutant: a full inbox takes one more message.
PushMore(q, m) == Append(q, m)

\* mqtt_inbox_push: a full inbox loses its oldest message.
Push(q, m) == IF Len(q) < Depth THEN Append(q, m) ELSE Append(Tail(q), m)

\* What a poll receives: some of the messages and SUBACKs; then it finds out whether
\* the connection is lost.
Poll ==
  /\ \/ wire # <<>> /\ inbox' = Push(inbox, Head(wire)) /\ wire' = Tail(wire)
        /\ UNCHANGED subacks
     \/ subacks > 0 /\ subacks' = subacks - 1 /\ UNCHANGED <<inbox, wire>>
     \/ UNCHANGED <<inbox, wire, subacks>>
  /\ state' = IF tcp = "down" THEN "DISCONNECTED" ELSE state
  /\ UNCHANGED <<tcp, made, asked>>

\* network_socket_send fails and marks the socket as not opened.
SendFails == tcp' = "down" /\ UNCHANGED <<state, inbox, made, asked, wire, subacks>>

-----------------------------------------------------------------------------
(* The main thread, mqtt_rx, the network and the broker.                   *)

\* The subscription that MQTT_SUBSCRIBE reported is not on the new connection.
Renewed == IF told = "yes" THEN "renewed" ELSE told

\* mqtt_client_maintain: reconnects when there is no session, subscribes the
\* platform's topics, and gives the session up when that or a ping fails.
Maintain ==
  /\ \/ ~InSession /\ Opened("SUBSCRIBED") /\ told' = Renewed
     \/ state = "SESSION_CONNECTED" /\ tcp = "up" /\ state' = "SUBSCRIBED"
        /\ asked' = asked \cup {"platform"}
        /\ UNCHANGED <<tcp, inbox, made, wire, subacks, told>>
     \/ (tcp # "up" \/ ~InSession) /\ Drop /\ UNCHANGED told
  /\ UNCHANGED <<config, script, sent, meant, half, since, received>>

MqttRx == Poll /\ UNCHANGED <<config, script, sent, ghost>>

LinkLost ==
  /\ tcp = "up" /\ tcp' \in {"mute", "down"}
  /\ UNCHANGED <<config, state, inbox, made, asked, wire, subacks, script, sent, ghost>>

BrokerPublish ==
  /\ tcp = "up" /\ asked # {} /\ sent < MaxSent /\ Len(wire) < MaxWire
  /\ sent' = sent + 1 /\ wire' = Append(wire, sent + 1)
  /\ UNCHANGED <<config, state, tcp, inbox, made, asked, subacks, script, ghost>>

-----------------------------------------------------------------------------
(* The script.                                                             *)

Idle == todo = <<>>
At(l) == ~Idle /\ Head(todo) = l

\* Mutant: the session in the way is dropped first.
ConnectStepsDropFirst == <<"disconnect">> \o Settings \o <<"connect", "handle">>

\* basic_mqtt_connect.
ConnectSteps == Settings \o <<"disconnect", "connect", "handle">>

MqttConnect ==
  /\ Idle /\ todo' = ConnectSteps
  /\ args' \in [Names -> Values \cup {TooLong, Keep}]
  /\ \A f \in Names : args'[f] = Keep => f \in Optional
  /\ UNCHANGED <<config, client, handle, next, sent, ghost>>

\* config_set_value of one setting.  If it refuses the value MQTT_CONNECT fails, with
\* the settings before set and the handle in use left as it is.
Set(f) ==
  /\ At(f)
  /\ IF args[f] = TooLong
       THEN /\ todo' = <<>> /\ half' = (half \/ (handle # 0 /\ config # meant))
            /\ UNCHANGED config
       ELSE /\ config' = IF args[f] = Keep THEN config ELSE [config EXCEPT ![f] = args[f]]
            /\ todo' = Tail(todo) /\ UNCHANGED half
  /\ UNCHANGED <<client, handle, next, args, sent, meant, told, since, received>>

DropSession ==
  /\ At("disconnect") /\ todo' = Tail(todo)
  /\ Drop /\ handle' = 0 /\ since' = sent /\ told' = "no"
  /\ UNCHANGED <<config, next, args, sent, meant, half, received>>

\* mqtt_client_connect keeps a session that the main thread has opened meanwhile.
Connect ==
  /\ At("connect")
  /\ \/ /\ IF InSession /\ tcp # "down" THEN UNCHANGED client ELSE Opened("SESSION_CONNECTED")
        /\ todo' = Tail(todo)
     \/ /\ ~(InSession /\ tcp # "down")
        /\ Drop /\ todo' = <<>>
  /\ UNCHANGED <<config, handle, next, args, sent, ghost>>

\* basic_mqtt_allocate_handle.
Allocate ==
  /\ At("handle") /\ todo' = Tail(todo)
  /\ next' = (IF next >= IntMax THEN 1 ELSE next + 1) /\ handle' = next'
  /\ meant' = config /\ half' = FALSE
  /\ UNCHANGED <<config, client, args, sent, told, since, received>>

\* Mutant: a handle is good for as long as it has not been given up.
ActiveAlways(h) == h > 0 /\ h = handle

\* basic_mqtt_handle_is_active.
Active(h) == h > 0 /\ h = handle /\ InSession

\* MQTT_DISCONNECT takes any positive handle for an order to end the session.
MqttDisconnect(h) ==
  /\ Idle /\ h > 0
  /\ Drop /\ handle' = IF h = handle THEN 0 ELSE handle
  /\ UNCHANGED <<config, next, todo, args, sent, ghost>>

\* MQTT_SUBSCRIBE.  Any SUBACK that comes in while it waits is its own to it, and the
\* others that have come by then are gone with it.
MqttSubscribe(h) ==
  /\ Idle /\ Active(h) /\ subacks < MaxWire
  /\ \/ SendFails /\ UNCHANGED told
     \/ /\ tcp # "down"
        /\ asked' = (IF tcp = "up" THEN asked \cup {"script"} ELSE asked)
        /\ LET all == IF tcp = "up" THEN subacks + 1 ELSE subacks IN
           \E n \in 0 .. all :
             /\ subacks' = all - n
             /\ state' = (IF n > 0 THEN "SUBSCRIBED" ELSE state)
             /\ told' = IF n = 0 THEN told
                        ELSE IF "script" \in asked' THEN "yes" ELSE "unmatched"
        /\ UNCHANGED <<tcp, inbox, made, wire>>
  /\ UNCHANGED <<config, script, sent, meant, half, since, received>>

\* MQTT_UNSUBSCRIBE, whether it is acknowledged in time or not.
MqttUnsubscribe(h) ==
  /\ Idle /\ Active(h) /\ told' = "no"
  /\ \/ SendFails
     \/ tcp # "down" /\ asked' = (IF tcp = "up" THEN asked \ {"script"} ELSE asked)
        /\ UNCHANGED <<state, tcp, inbox, made, wire, subacks>>
  /\ UNCHANGED <<config, script, sent, meant, half, since, received>>

\* MQTT_PUBLISH, MQTT_PING and MQTT_CONNECTED: they send or poll.
MqttUse(h) ==
  /\ Idle /\ Active(h) /\ (SendFails \/ Poll)
  /\ UNCHANGED <<config, script, sent, ghost>>

\* MQTT_RECEIVE polls and reads until it has a message or its time is over.
MqttReceive(h) ==
  /\ Idle /\ Active(h) /\ todo' = <<"poll", "read">>
  /\ UNCHANGED <<config, client, handle, next, args, sent, ghost>>

ReceivePoll ==
  /\ At("poll") /\ Poll /\ todo' = Tail(todo)
  /\ UNCHANGED <<config, handle, next, args, sent, ghost>>

ReceiveRead ==
  /\ At("read")
  /\ IF inbox # <<>> THEN inbox' = Tail(inbox) /\ received' = Head(inbox) /\ todo' = <<>>
     ELSE UNCHANGED <<inbox, received>> /\ todo' \in {<<>>, <<"poll", "read">>}
  /\ UNCHANGED <<config, state, tcp, made, asked, wire, subacks, handle, next, args, sent,
                 meant, half, told, since>>

-----------------------------------------------------------------------------
Script ==
  \/ MqttConnect \/ (\E f \in Names : Set(f)) \/ DropSession \/ Connect \/ Allocate
  \/ \E h \in 1 .. IntMax : \/ MqttDisconnect(h) \/ MqttSubscribe(h) \/ MqttUnsubscribe(h)
                            \/ MqttUse(h) \/ MqttReceive(h)
  \/ ReceivePoll \/ ReceiveRead

Next == Script \/ Maintain \/ MqttRx \/ LinkLost \/ BrokerPublish

Spec == Init /\ [][Next]_vars

-----------------------------------------------------------------------------
(* Properties                                                              *)

\* The session behind a valid handle was made with all the settings of the
\* MQTT_CONNECT that returned it, though the main thread may reconnect between any
\* two of them; unless a later MQTT_CONNECT has failed half-way.
HandleConnects == Idle /\ Active(handle) /\ ~half => made = meant

\* A script that was told that it is subscribed, and whose handle is still valid, is
\* subscribed; the exceptions are a reconnection by the main thread, and a SUBACK of
\* an earlier request taken for this one's.
SubscribedHolds == told = "yes" /\ Active(handle) => "script" \in asked

\* What a script receives was sent on a connection made since its MQTT_CONNECT began
\* to replace the former one, and after all that it received before.
ReceivedFresh == [][received' # received => received' > received /\ received' > since]_vars
=============================================================================
