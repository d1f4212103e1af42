-------------------------- MODULE NetworkManagerProofs --------------------------
(***************************************************************************)
(* Proofs about NetworkManager, for any mode at boot, any commands of the  *)
(* shell and any number of them and of faults.                             *)
(***************************************************************************)
EXTENDS NetworkManager, SequenceTheorems, TLAPS

-----------------------------------------------------------------------------
(* The invariants.                                                         *)

\* The list q releases no chip before it has put the other one in reset.
Good(q) ==
  \A i \in 1 .. Len(q) :
    /\ q[i] = "releaseCh" =>
         /\ i >= 2
         /\ q[i - 1] = "holdAir" \/ (q[i - 1] = "resetCh" /\ i >= 3 /\ q[i - 2] = "holdAir")
    /\ q[i] = "releaseAir" => i >= 2 /\ q[i - 1] = "resetCh"

\* The same of what is left of such a list, when the chips in o are out of reset.
Safe(q, o) ==
  \A i \in 1 .. Len(q) :
    /\ q[i] = "releaseCh" =>
         \/ i = 1 /\ "air" \notin o
         \/ i >= 2 /\ q[i - 1] = "holdAir"
         \/ i = 2 /\ q[1] = "resetCh" /\ "air" \notin o
         \/ i >= 3 /\ q[i - 1] = "resetCh" /\ q[i - 2] = "holdAir"
    /\ q[i] = "releaseAir" =>
         \/ i = 1 /\ "ch" \notin o
         \/ i >= 2 /\ q[i - 1] = "resetCh"

\* Only one thread is at work, and what it has still to do is safe.
OneAtWork ==
  /\ \E t \in Threads : todo[t] = <<>>
  /\ \A t \in Threads : Safe(todo[t], out)

\* Until a pass of the main thread comes in the middle of a command, or a command resets
\* a chip itself.
BusInv == raced \/ direct \/ (OneAtWork /\ out # Links)

-----------------------------------------------------------------------------
(* Lists of steps.                                                         *)

\* The lists that the functions consist of.
LEMMA ListsTyped ==
  /\ InitNetwork \in Seq(Steps) /\ SwitchToAir \in Seq(Steps) /\ \A m : Select(m) \in Seq(Steps)
  /\ <<"prepare", "connect", "restore">> \in Seq(Steps) /\ <<"probe", "decide">> \in Seq(Steps)
  /\ <<"selectCh">> \in Seq(Steps) /\ <<"selectAir">> \in Seq(Steps)
  /\ <<"prepare", "holdAir", "releaseCh", "setCh">> \in Seq(Steps)
  /\ SwitchToAir \o <<"setAir">> \in Seq(Steps)
  /\ <<"wired">> \in Seq(Steps) /\ <<>> \in Seq(Steps) /\ <<"poll">> \in Seq(Steps)
<1>1. \A s \in {"wired", "poll", "probe", "prepare", "holdAir", "resetCh", "releaseCh", "releaseAir",
                "check", "configure", "connect", "restore", "decide", "selectCh", "selectAir", "setCh",
                "setAir", "force", "ifOk", "mqtt"} : s \in Steps
  BY DEF Steps, Modes
<1>2. SwitchToAir \in Seq(Steps) BY <1>1 DEF SwitchToAir
<1>3. <<"setAir">> \in Seq(Steps) BY <1>1
<1>4. SwitchToAir \o <<"setAir">> \in Seq(Steps) BY <1>2, <1>3, ConcatProperties
<1>5. InitNetwork \in Seq(Steps) BY <1>1 DEF InitNetwork
<1>6. <<"selectCh">> \in Seq(Steps) /\ <<"selectAir">> \in Seq(Steps) /\ <<>> \in Seq(Steps) BY <1>1
<1>7. \A m : Select(m) \in Seq(Steps) BY <1>6 DEF Select
<1>8. <<"prepare", "connect", "restore">> \in Seq(Steps) /\ <<"probe", "decide">> \in Seq(Steps) BY <1>1
<1>9. <<"prepare", "holdAir", "releaseCh", "setCh">> \in Seq(Steps) BY <1>1
<1>10. <<"wired">> \in Seq(Steps) /\ <<"poll">> \in Seq(Steps) BY <1>1
<1> QED BY <1>2, <1>4, <1>5, <1>6, <1>7, <1>8, <1>9, <1>10

\* A thread at a step of its list.
LEMMA AtIs ==
  ASSUME TypeOK, NEW t \in Threads, todo[t] # <<>>
  PROVE  /\ todo[t] \in Seq(Steps) /\ Tail(todo[t]) \in Seq(Steps)
         /\ Len(todo[t]) \in Nat /\ Len(todo[t]) >= 1 /\ Len(Tail(todo[t])) = Len(todo[t]) - 1
         /\ Head(todo[t]) = todo[t][1]
         /\ \A i \in 1 .. Len(todo[t]) - 1 : Tail(todo[t])[i] = todo[t][i + 1]
<1>1. todo[t] \in Seq(Steps) BY DEF TypeOK
<1>2. Len(todo[t]) \in Nat BY <1>1, LenProperties
<1>3. /\ Head(todo[t]) = todo[t][1] /\ Tail(todo[t]) \in Seq(Steps)
      /\ Len(Tail(todo[t])) = Len(todo[t]) - 1
      /\ \A i \in 1 .. Len(todo[t]) - 1 : Tail(todo[t])[i] = todo[t][i + 1]
  BY <1>1, HeadTailProperties
<1>4. Len(todo[t]) # 0 BY <1>1, EmptySeq
<1> QED BY <1>1, <1>2, <1>3, <1>4

\* What takes the place of a step.
LEMMA ThenTyped ==
  ASSUME TypeOK, NEW t \in Threads, todo[t] # <<>>, NEW steps \in Seq(Steps), Then(t, steps)
  PROVE  /\ todo' \in [Threads -> Seq(Steps)] /\ todo'[t] = steps \o Tail(todo[t])
         /\ \A u \in Threads : u # t => todo'[u] = todo[u]
<1>1. Tail(todo[t]) \in Seq(Steps) BY AtIs
<1>2. steps \o Tail(todo[t]) \in Seq(Steps) BY <1>1, ConcatProperties
<1>3. todo' = [todo EXCEPT ![t] = steps \o Tail(todo[t])] BY DEF Then
<1>4. todo \in [Threads -> Seq(Steps)] BY DEF TypeOK
<1> QED BY <1>2, <1>3, <1>4

-----------------------------------------------------------------------------
(* Types.                                                                  *)

\* A wired chip that answers is out of reset.
LEMMA AnswersAre ==
  ASSUME NEW t \in Threads, NEW a \in Answers(t)
  PROVE  a \in BOOLEAN /\ (a => "ch" \in out)
BY DEF Answers

\* An opened socket is on the active link.
LEMMA ConnectsTyped ==
  ASSUME TypeOK, NEW possible \in BOOLEAN, Connects(possible)
  PROVE  /\ owner' \in Links \cup {"none"} /\ live' \in BOOLEAN
         /\ live' => possible /\ owner' = link
<1>1. PICK opened \in {possible} \cup {answer \in {FALSE} : out = Links} :
         owner' = (IF opened THEN link ELSE "none") /\ live' = opened
  BY DEF Connects
<1>2. link \in Links BY DEF TypeOK
<1>3. CASE opened = FALSE
  <2>1. owner' = "none" /\ live' = FALSE BY <1>1, <1>3
  <2> QED BY <2>1
<1>4. CASE opened = possible /\ possible = TRUE
  <2>1. owner' = link /\ live' = TRUE /\ possible = TRUE BY <1>1, <1>4
  <2> QED BY <1>2, <2>1
<1>5. opened = possible \/ opened = FALSE OBVIOUS
<1>6. possible = TRUE \/ possible = FALSE OBVIOUS
<1> QED BY <1>3, <1>4, <1>5, <1>6

\* Everything is typed at boot.
LEMMA InitTyped == Init => TypeOK
<1> SUFFICES ASSUME Init PROVE TypeOK OBVIOUS
<1>1. ConstantsAssumption BY ConstantsAssumption
<1>2. ASSUME NEW t \in Threads
      PROVE  (IF t = "shell" THEN <<>>
              ELSE (IF BootMode = "4g" THEN <<>> ELSE InitNetwork) \o Select(BootMode) \o <<"poll">>)
                \in Seq(Steps)
  <2>1. (IF BootMode = "4g" THEN <<>> ELSE InitNetwork) \in Seq(Steps) BY ListsTyped
  <2>2. (IF BootMode = "4g" THEN <<>> ELSE InitNetwork) \o Select(BootMode) \in Seq(Steps)
    BY <2>1, ListsTyped, ConcatProperties
  <2>3. (IF BootMode = "4g" THEN <<>> ELSE InitNetwork) \o Select(BootMode) \o <<"poll">> \in Seq(Steps)
    BY <2>2, ListsTyped, ConcatProperties
  <2>4. <<>> \in Seq(Steps) BY ListsTyped
  <2> QED BY <2>3, <2>4
<1>3. todo \in [Threads -> Seq(Steps)] BY <1>2 DEF Init
<1>4. /\ mode \in Modes /\ link \in Links /\ state \in {link, "unknown"}
      /\ force \in BOOLEAN /\ due \in BOOLEAN /\ present \in BOOLEAN /\ ipReady \in BOOLEAN
      /\ owner \in Links \cup {"none"}
  BY <1>1 DEF Init, ConstantsAssumption, Links
<1>5. ok \in [Threads -> BOOLEAN] /\ before \in [Threads -> Links] BY DEF Init, Links
<1>6. /\ out \subseteq Links /\ chSet \in BOOLEAN /\ modemSet \in BOOLEAN /\ reg \in BOOLEAN
      /\ live \in BOOLEAN /\ ~chSet /\ ~modemSet /\ ~reg /\ ~live
  BY DEF Init, Links
<1>7. wire \in {"dead", "alone", "online"} /\ raced \in BOOLEAN /\ direct \in BOOLEAN BY DEF Init
<1>8. faults \in 0 .. MaxFaults /\ commands \in 0 .. MaxCommands BY <1>1 DEF Init, ConstantsAssumption
<1> QED BY <1>3, <1>4, <1>5, <1>6, <1>7, <1>8 DEF TypeOK

\* A chip put in reset forgets; one released does not.
LEMMA ResetTyped ==
  ASSUME TypeOK, NEW t \in Threads, NEW step, NEW chip \in Links,
         Hold(t, step, chip) \/ Release(t, step, chip)
  PROVE  TypeOK'
<1>1. todo[t] # <<>> /\ Then(t, <<>>) BY DEF Hold, Release, At, Done
<1>2. todo' \in [Threads -> Seq(Steps)] BY <1>1, ThenTyped, ListsTyped
<1>3. /\ UNCHANGED <<mode, link, state, force, due, present, ipReady, owner, ok, before, wire>>
      /\ UNCHANGED <<faults, commands, raced, direct>>
  BY DEF Hold, Release, manager, flags, bounds
<1>4. CASE Hold(t, step, chip)
  <2>1. /\ out' = out \ {chip} /\ chSet' = (chSet /\ chip # "ch")
        /\ modemSet' = (modemSet /\ chip # "air") /\ reg' = (reg /\ chip # "air")
        /\ live' = (live /\ owner # chip)
    BY <1>4 DEF Hold, Forgets
  <2>2. chSet' \in BOOLEAN /\ modemSet' \in BOOLEAN /\ reg' \in BOOLEAN /\ live' \in BOOLEAN BY <2>1
  <2>3. /\ out' \subseteq Links /\ (chSet' => "ch" \in out') /\ (modemSet' \/ reg' => "air" \in out')
        /\ live' => owner' \in out'
    BY <1>3, <2>1 DEF TypeOK
  <2> QED BY <1>2, <1>3, <2>2, <2>3 DEF TypeOK
<1>5. CASE Release(t, step, chip)
  <2>1. out' = out \cup {chip} /\ UNCHANGED <<chSet, modemSet, reg, live>> BY <1>5 DEF Release
  <2> QED BY <1>2, <1>3, <2>1 DEF TypeOK
<1> QED BY <1>4, <1>5

\* Asking and setting up the wired chip.
LEMMA CheckTyped ==
  ASSUME TypeOK, NEW t \in Threads, Check(t) \/ Configure(t) \/ Prepare(t) \/ Connect(t)
  PROVE  TypeOK'
<1>1. todo[t] # <<>> BY DEF Check, Configure, Prepare, Connect, At
<1>2. /\ UNCHANGED <<mode, link, state, force, due, ipReady, owner, before, out, modemSet, reg, wire>>
      /\ UNCHANGED <<faults, commands, raced, direct>>
  BY DEF Check, Configure, Prepare, Connect, manager, flags, chips, bounds
<1>3. todo' \in [Threads -> Seq(Steps)]
  <2>1. Then(t, <<>>) \/ Then(t, InitNetwork)
    BY DEF Check, Configure, Prepare, Connect, Done
  <2> QED BY <1>1, <2>1, ThenTyped, ListsTyped
<1>4. CASE Check(t)
  <2>1. present' \in Answers(t) /\ ok' = [ok EXCEPT ![t] = present'] /\ UNCHANGED <<chSet, live>>
    BY <1>4 DEF Check, chips
  <2>2. present' \in BOOLEAN BY <2>1, AnswersAre
  <2>3. ok' \in [Threads -> BOOLEAN] BY <2>1, <2>2 DEF TypeOK
  <2> QED BY <1>2, <1>3, <2>1, <2>2, <2>3 DEF TypeOK
<1>5. CASE Configure(t)
  <2>1. CASE present
    <3>1. PICK there, ready \in Answers(t) :
            /\ present' = there /\ ok' = [ok EXCEPT ![t] = there /\ ready]
            /\ chSet' = (there /\ ready) /\ live' = (live /\ owner # "ch")
      BY <1>5, <2>1 DEF Configure
    <3>2. present' \in BOOLEAN /\ chSet' \in BOOLEAN /\ live' \in BOOLEAN
      BY <3>1, AnswersAre
    <3>3. (chSet' => "ch" \in out) /\ (live' => live) BY <3>1, AnswersAre
    <3>4. ok' \in [Threads -> BOOLEAN] BY <3>1 DEF TypeOK
    <3> QED BY <1>2, <1>3, <3>2, <3>3, <3>4 DEF TypeOK
  <2>2. CASE ~present
    <3>1. ok' = [ok EXCEPT ![t] = FALSE] /\ UNCHANGED <<present, chSet, live>>
      BY <1>5, <2>2 DEF Configure
    <3> QED BY <1>2, <1>3, <3>1 DEF TypeOK
  <2> QED BY <2>1, <2>2
<1>6. CASE Prepare(t)
  <2>1. PICK there \in IF "ch" \in out THEN Answers(t) ELSE {FALSE} : ok' = [ok EXCEPT ![t] = there]
    BY <1>6 DEF Prepare
  <2>2. there \in BOOLEAN BY AnswersAre
  <2>3. ok' \in [Threads -> BOOLEAN] /\ UNCHANGED <<present, chSet, live>>
    BY <1>6, <2>1, <2>2 DEF TypeOK, Prepare, flags, chips
  <2> QED BY <1>2, <1>3, <2>3 DEF TypeOK
<1>7. CASE Connect(t)
  <2>1. present' = (present /\ (ok[t] => "ch" \in out)) /\ UNCHANGED <<chSet, live>>
    BY <1>7 DEF Connect, chips
  <2>2. ok' \in [Threads -> BOOLEAN]
    <3>1. CASE ok[t]
      <4>1. PICK there, connected \in Answers(t) :
              ok' = [ok EXCEPT ![t] = (present' \/ there) /\ connected /\ chSet /\ wire = "online"]
        BY <1>7, <3>1 DEF Connect
      <4> QED BY <4>1 DEF TypeOK
    <3>2. CASE ~ok[t] BY <1>7, <3>2 DEF Connect, TypeOK
    <3> QED BY <3>1, <3>2
  <2>3. present' \in BOOLEAN BY <2>1
  <2> QED BY <1>2, <1>3, <2>1, <2>2, <2>3 DEF TypeOK
<1> QED BY <1>4, <1>5, <1>6, <1>7

\* What neither sets up nor resets a chip.
LEMMA ManageTyped ==
  ASSUME TypeOK, NEW t \in Threads,
         \/ Probe(t) \/ Restore(t) \/ Poll(t) \/ Decide(t) \/ ForceProbe(t)
         \/ (\E m \in Modes : SetMode(t, m))
         \/ IfOk(t)
  PROVE  TypeOK'
<1>1. todo[t] # <<>> BY DEF Probe, Restore, Poll, Decide, ForceProbe, IfOk, SetMode, At
<1>2. /\ UNCHANGED <<link, state, present, ipReady, owner, ok, out, chSet, modemSet, reg, live, wire>>
      /\ UNCHANGED <<faults, commands, raced, direct>>
  BY DEF Probe, Restore, Poll, Decide, ForceProbe, IfOk, SetMode, manager, flags, chips, bounds
<1>3. before' \in [Threads -> Links]
  BY DEF Probe, Restore, Poll, Decide, ForceProbe, IfOk, SetMode, TypeOK
<1>4. mode' \in Modes /\ force' \in BOOLEAN /\ due' \in BOOLEAN
  BY DEF Probe, Restore, Poll, Decide, ForceProbe, IfOk, SetMode, manager, TypeOK
<1>5. \E steps \in Seq(Steps) : Then(t, steps)
  <2>1. CASE Probe(t) BY <2>1, ListsTyped DEF Probe
  <2>2. CASE Restore(t)
    <3>1. (IF before[t] = "air" THEN SwitchToAir ELSE <<>>) \in Seq(Steps) BY ListsTyped
    <3> QED BY <2>2, <3>1 DEF Restore
  <2>3. CASE Poll(t)
    <3>1. /\ (IF force \/ due THEN <<"probe", "decide">> ELSE <<>>) \in Seq(Steps)
          /\ \A x : (IF x THEN Select(mode) ELSE <<>>) \in Seq(Steps)
      BY ListsTyped
    <3> QED BY <2>3, <3>1 DEF Poll
  <2>4. CASE Decide(t) BY <2>4, ListsTyped DEF Decide
  <2>5. CASE ForceProbe(t) BY <2>5, ListsTyped DEF ForceProbe, Done
  <2>6. CASE IfOk(t) BY <2>6, ListsTyped DEF IfOk
  <2>7. CASE \E m \in Modes : SetMode(t, m) BY <2>7, ListsTyped DEF SetMode
  <2> QED BY <2>1, <2>2, <2>3, <2>4, <2>5, <2>6, <2>7
<1>6. todo' \in [Threads -> Seq(Steps)] BY <1>1, <1>5, ThenTyped
<1> QED BY <1>2, <1>3, <1>4, <1>6 DEF TypeOK

\* A link is selected: the sockets are closed, and in the end it is the active one.
LEMMA LinkTyped ==
  ASSUME TypeOK, NEW t \in Threads,
         \/ SelectLink(t, "selectCh", <<"prepare", "holdAir", "releaseCh", "setCh">>)
         \/ SelectLink(t, "selectAir", SwitchToAir \o <<"setAir">>)
         \/ SetLink(t, "setCh", "ch") \/ SetLink(t, "setAir", "air")
  PROVE  TypeOK'
<1>1. CASE \/ SelectLink(t, "selectCh", <<"prepare", "holdAir", "releaseCh", "setCh">>)
           \/ SelectLink(t, "selectAir", SwitchToAir \o <<"setAir">>)
  <2>1. todo[t] # <<>> BY <1>1 DEF SelectLink, At
  <2>2. \E steps \in Seq(Steps) : Then(t, steps) BY <1>1, ListsTyped DEF SelectLink
  <2>3. todo' \in [Threads -> Seq(Steps)] BY <2>1, <2>2, ThenTyped
  <2>4. /\ owner' = "none" /\ live' = FALSE
        /\ UNCHANGED <<mode, link, state, force, due, present, ipReady, ok, before, out, chSet, modemSet,
                       reg, wire, faults, commands, raced, direct>>
    BY <1>1 DEF SelectLink, CloseAll, manager, bounds
  <2> QED BY <2>3, <2>4 DEF TypeOK
<1>2. CASE SetLink(t, "setCh", "ch") \/ SetLink(t, "setAir", "air")
  <2>1. todo[t] # <<>> /\ Then(t, <<>>) BY <1>2 DEF SetLink, At, Done
  <2>2. todo' \in [Threads -> Seq(Steps)] BY <2>1, ThenTyped, ListsTyped
  <2>3. /\ link' \in Links /\ state' = link'
        /\ UNCHANGED <<mode, force, due, present, ipReady, owner, ok, before, out, chSet, modemSet,
                       reg, live, wire, faults, commands, raced, direct>>
    BY <1>2 DEF SetLink, flags, chips, bounds, Links
  <2> QED BY <2>2, <2>3 DEF TypeOK
<1> QED BY <1>1, <1>2

\* MQTT opens its socket only where a connection can be.
LEMMA SocketTyped ==
  ASSUME TypeOK, MqttKeeps \/ MqttReopens \/ Look
  PROVE  TypeOK'
<1>1. CASE MqttKeeps
  <2>1. todo["main"] # <<>> /\ Then("main", <<>>) /\ "main" \in Threads
    BY <1>1 DEF MqttKeeps, At, Done, Threads
  <2>2. todo' \in [Threads -> Seq(Steps)] BY <2>1, ThenTyped, ListsTyped
  <2>3. UNCHANGED <<mode, link, state, force, due, present, ipReady, owner, ok, before, out, chSet,
                    modemSet, reg, live, wire, faults, commands, raced, direct>>
    BY <1>1 DEF MqttKeeps, manager, flags, chips, bounds
  <2> QED BY <2>2, <2>3 DEF TypeOK
<1>2. CASE MqttReopens
  <2>1. todo["main"] # <<>> /\ Then("main", <<>>) /\ "main" \in Threads
    BY <1>2 DEF MqttReopens, At, Done, Threads
  <2>2. todo' \in [Threads -> Seq(Steps)] BY <2>1, ThenTyped, ListsTyped
  <2>3. /\ UNCHANGED <<mode, link, state, force, due, ok, before, out, chSet, reg, wire, faults, commands,
                       raced, direct>>
        /\ present' = (present /\ (link = "ch" => "ch" \in out))
    BY <1>2 DEF MqttReopens, manager, bounds
  <2>4. present' \in BOOLEAN BY <2>3
  <2>5. /\ ipReady' \in BOOLEAN /\ modemSet' \in BOOLEAN /\ (modemSet' => "air" \in out)
        /\ owner' \in Links \cup {"none"} /\ live' \in BOOLEAN /\ (live' => owner' \in out)
    <3>1. CASE OpenWired
      <4> DEFINE possible == Ready("ch") /\ chSet /\ wire = "online"
      <4>1. possible \in BOOLEAN /\ (possible => "ch" \in out) BY DEF Ready
      <4>2. Connects(possible) /\ link = "ch" /\ UNCHANGED <<ipReady, modemSet>> BY <3>1 DEF OpenWired
      <4> HIDE DEF possible
      <4>3. /\ owner' \in Links \cup {"none"} /\ live' \in BOOLEAN
            /\ live' => possible /\ owner' = link
        BY <4>1, <4>2, ConnectsTyped
      <4> QED BY <4>1, <4>2, <4>3 DEF TypeOK
    <3>2. CASE OpenAir
      <4> DEFINE possible == Ready("air") /\ ipReady' /\ modemSet'
      <4>1. possible \in BOOLEAN /\ (possible => "air" \in out) BY DEF Ready
      <4>2. /\ Connects(possible) /\ link = "air"
            /\ ipReady' \in {ipReady \/ Ready("air")} \cup {answer \in {ipReady} : out = Links}
            /\ modemSet' = (modemSet \/ (ipReady' /\ ~ipReady))
        BY <3>2 DEF OpenAir
      <4> HIDE DEF possible
      <4>3. /\ owner' \in Links \cup {"none"} /\ live' \in BOOLEAN
            /\ live' => possible /\ owner' = link
        BY <4>1, <4>2, ConnectsTyped
      <4>4. ipReady' = (ipReady \/ Ready("air")) \/ ipReady' = ipReady BY <4>2
      <4>5. ipReady' \in BOOLEAN /\ (ipReady' /\ ~ipReady => "air" \in out)
        BY <4>4 DEF Ready, TypeOK
      <4>6. modemSet' \in BOOLEAN /\ (modemSet' => "air" \in out) BY <4>2, <4>5 DEF TypeOK
      <4> QED BY <4>1, <4>2, <4>3, <4>5, <4>6
    <3> QED BY <1>2, <3>1, <3>2 DEF MqttReopens
  <2> QED BY <2>2, <2>3, <2>4, <2>5 DEF TypeOK
<1>3. CASE Look
  <2>1. /\ owner' = "none" /\ live' = FALSE
        /\ present' = (present /\ (owner = link /\ link = "ch" => "ch" \in out))
        /\ UNCHANGED <<mode, link, state, force, due, ipReady, todo, ok, before, out, chSet, modemSet,
                       reg, wire, faults, commands, raced, direct>>
    BY <1>3 DEF Look, manager, threads, bounds
  <2>2. present' \in BOOLEAN BY <2>1
  <2> QED BY <2>1, <2>2 DEF TypeOK
<1> QED BY <1>1, <1>2, <1>3

\* A pass or a command begins.
LEMMA BeginTyped ==
  ASSUME TypeOK, MainBegins \/ (\E c \in Commands : Command(c))
  PROVE  TypeOK'
<1>1. UNCHANGED <<mode, link, state, force, due, present, ipReady, owner, ok, before, out, chSet,
                  modemSet, reg, live, wire, faults>>
  BY DEF MainBegins, Command, manager, flags, chips
<1>2. "poll" \in Steps /\ "mqtt" \in Steps /\ "probe" \in Steps /\ "force" \in Steps
      /\ "ifOk" \in Steps /\ "holdAir" \in Steps /\ "releaseAir" \in Steps /\ Modes \subseteq Steps
  BY DEF Steps
<1>3. CASE MainBegins
  <2>1. /\ todo' = [todo EXCEPT !["main"] = <<"poll", "mqtt">>] /\ UNCHANGED <<commands, direct>>
        /\ raced' = (raced \/ todo["shell"] # <<>>)
    BY <1>3 DEF MainBegins
  <2>2. <<"poll", "mqtt">> \in Seq(Steps) BY <1>2
  <2>3. todo' \in [Threads -> Seq(Steps)] BY <2>1, <2>2 DEF TypeOK
  <2>4. raced' \in BOOLEAN BY <2>1
  <2> QED BY <1>1, <2>1, <2>3, <2>4 DEF TypeOK
<1>4. ASSUME NEW c \in Commands, Command(c) PROVE TypeOK'
  <2>1. commands < MaxCommands /\ commands' = commands + 1 /\ UNCHANGED raced
        /\ direct' = (direct \/ c \in {"setup", "init", "modem"})
    BY <1>4 DEF Command
  <2>2. commands' \in 0 .. MaxCommands BY <2>1, ConstantsAssumption DEF TypeOK
  <2>3. PICK l \in Seq(Steps) : todo' = [todo EXCEPT !["shell"] = l]
    <3>1. c \in Modes \/ c = "probe" \/ c = "setup" \/ c = "init" \/ c = "modem" BY ConstantsAssumption
    <3>2. CASE c \in Modes
      <4>1. <<c, "poll">> \in Seq(Steps) BY <1>2, <3>2
      <4>2. c \notin {"probe", "setup", "init", "modem"} BY <3>2 DEF Modes
      <4> QED BY <1>4, <3>2, <4>1, <4>2 DEF Command
    <3>3. CASE c = "probe"
      <4>1. <<"probe", "force">> \in Seq(Steps) BY <1>2
      <4>2. c \notin Modes BY <3>3 DEF Modes
      <4> QED BY <1>4, <3>3, <4>1, <4>2 DEF Command
    <3>4. CASE c = "setup"
      <4>1. <<"ifOk">> \in Seq(Steps) BY <1>2
      <4>2. InitNetwork \o <<"ifOk">> \in Seq(Steps) BY <4>1, ListsTyped, ConcatProperties
      <4>3. c \notin Modes /\ c # "probe" BY <3>4 DEF Modes
      <4> QED BY <1>4, <3>4, <4>2, <4>3 DEF Command
    <3>5. CASE c = "init"
      <4>1. InitNetwork \in Seq(Steps) BY ListsTyped
      <4>2. c \notin Modes /\ c # "probe" /\ c # "setup" BY <3>5 DEF Modes
      <4> QED BY <1>4, <3>5, <4>1, <4>2 DEF Command
    <3>6. CASE c = "modem"
      <4>1. <<"holdAir", "releaseAir">> \in Seq(Steps) BY <1>2
      <4>2. c \notin Modes /\ c # "probe" /\ c # "setup" /\ c # "init" BY <3>6 DEF Modes
      <4> QED BY <1>4, <3>6, <4>1, <4>2 DEF Command
    <3> QED BY <3>1, <3>2, <3>3, <3>4, <3>5, <3>6
  <2>4. todo' \in [Threads -> Seq(Steps)] BY <2>3 DEF TypeOK
  <2>5. direct' \in BOOLEAN BY <2>1
  <2> QED BY <1>1, <2>1, <2>2, <2>4, <2>5 DEF TypeOK
<1> QED BY <1>3, <1>4

\* The environment: a connection goes with its wire, a cell is only lost or found.
LEMMA WorldTyped ==
  ASSUME TypeOK, Timer \/ Register \/ Fault
  PROVE  TypeOK'
<1>1. CASE Timer
  BY <1>1 DEF Timer, flags, threads, chips, bounds, TypeOK
<1>2. CASE Register
  BY <1>2 DEF Register, manager, flags, threads, bounds, TypeOK
<1>3. CASE Fault
  <2>1. /\ faults < MaxFaults /\ faults' = faults + 1
        /\ UNCHANGED <<mode, link, state, force, due, present, ipReady, owner, todo, ok, before, out,
                       modemSet, commands, raced, direct>>
    BY <1>3 DEF Fault, manager, flags, threads
  <2>2. faults' \in 0 .. MaxFaults BY <2>1, ConstantsAssumption DEF TypeOK
  <2>3. /\ wire' \in {"dead", "alone", "online"} /\ chSet' \in BOOLEAN /\ reg' \in BOOLEAN
        /\ live' \in BOOLEAN /\ (chSet' => chSet) /\ (reg' => reg) /\ (live' => live)
    <3>1. CASE /\ wire' \in {"dead", "alone", "online"} \ {wire}
               /\ chSet' \in {chSet, chSet /\ wire' # "dead"}
               /\ live' = (live /\ owner # "ch") /\ UNCHANGED reg
      BY <3>1 DEF TypeOK
    <3>2. CASE reg /\ reg' = FALSE /\ UNCHANGED <<wire, chSet, live>> BY <3>2 DEF TypeOK
    <3>3. CASE live /\ live' = FALSE /\ UNCHANGED <<wire, chSet, reg>> BY <3>3 DEF TypeOK
    <3> QED BY <1>3, <3>1, <3>2, <3>3 DEF Fault
  <2> QED BY <2>1, <2>2, <2>3 DEF TypeOK
<1> QED BY <1>1, <1>2, <1>3

\* Every step keeps the types, and a chip in reset what it has lost.
LEMMA TypeStep ==
  ASSUME TypeOK, [Next]_vars
  PROVE  TypeOK'
<1>1. ASSUME NEW t \in Threads, StepOf(t) PROVE TypeOK'
  <2>1. CASE Hold(t, "holdAir", "air") \/ Hold(t, "resetCh", "ch")
             \/ Release(t, "releaseCh", "ch") \/ Release(t, "releaseAir", "air")
    BY <2>1, ResetTyped DEF Links
  <2>2. CASE Check(t) \/ Configure(t) \/ Prepare(t) \/ Connect(t) BY <2>2, CheckTyped
  <2>3. CASE Probe(t) \/ Restore(t) \/ Poll(t) \/ Decide(t) \/ ForceProbe(t) \/ IfOk(t)
             \/ (\E m \in Modes : SetMode(t, m))
    BY <2>3, ManageTyped
  <2>4. CASE \/ SelectLink(t, "selectCh", <<"prepare", "holdAir", "releaseCh", "setCh">>)
             \/ SelectLink(t, "selectAir", SwitchToAir \o <<"setAir">>)
             \/ SetLink(t, "setCh", "ch") \/ SetLink(t, "setAir", "air")
    BY <2>4, LinkTyped
  <2> QED BY <1>1, <2>1, <2>2, <2>3, <2>4 DEF StepOf
<1>2. CASE UNCHANGED vars
  BY <1>2 DEF vars, manager, flags, threads, chips, bounds, TypeOK
<1> QED BY <1>1, <1>2, SocketTyped, BeginTyped, WorldTyped DEF Next

-----------------------------------------------------------------------------
(* One chip at a time.                                                     *)

\* One list in order after another is in order.
LEMMA Joined ==
  ASSUME NEW s \in Seq(Steps), NEW r \in Seq(Steps), Good(s), Good(r)
  PROVE  Good(s \o r)
<1> DEFINE q == s \o r
<1>1. /\ Len(q) = Len(s) + Len(r) /\ Len(s) \in Nat /\ Len(r) \in Nat
      /\ \A i \in 1 .. Len(s) : q[i] = s[i]
      /\ \A i \in 1 .. Len(r) : q[Len(s) + i] = r[i]
  BY ConcatProperties, LenProperties
<1> HIDE DEF q
<1>2. ASSUME NEW i \in Len(s) + 1 .. Len(q)
      PROVE  i - Len(s) \in 1 .. Len(r) /\ q[i] = r[i - Len(s)]
  <2>1. i - Len(s) \in 1 .. Len(r) /\ Len(s) + (i - Len(s)) = i BY <1>1
  <2> QED BY <1>1, <2>1
<1>3. ASSUME NEW i \in 1 .. Len(q)
      PROVE  /\ q[i] = "releaseCh" =>
                  /\ i >= 2
                  /\ q[i - 1] = "holdAir" \/ (q[i - 1] = "resetCh" /\ i >= 3 /\ q[i - 2] = "holdAir")
             /\ q[i] = "releaseAir" => i >= 2 /\ q[i - 1] = "resetCh"
  <2>1. CASE i <= Len(s)
    <3>1. i \in 1 .. Len(s) /\ (i >= 2 => i - 1 \in 1 .. Len(s)) /\ (i >= 3 => i - 2 \in 1 .. Len(s))
      BY <1>1, <2>1
    <3>2. q[i] = s[i] /\ (i >= 2 => q[i - 1] = s[i - 1]) /\ (i >= 3 => q[i - 2] = s[i - 2])
      BY <1>1, <3>1
    <3> QED BY <3>1, <3>2 DEF Good
  <2>2. CASE i > Len(s)
    <3> DEFINE k == i - Len(s)
    <3>1. i \in Len(s) + 1 .. Len(q) BY <1>1, <2>2
    <3>2. k \in 1 .. Len(r) /\ q[i] = r[k] BY <1>2, <3>1
    <3>3. k >= 2 => i >= 2 /\ i - 1 \in Len(s) + 1 .. Len(q) /\ (i - 1) - Len(s) = k - 1
      BY <1>1, <3>1
    <3>4. k >= 3 => i >= 3 /\ i - 2 \in Len(s) + 1 .. Len(q) /\ (i - 2) - Len(s) = k - 2
      BY <1>1, <3>1
    <3>5. k >= 2 => q[i - 1] = r[k - 1] BY <1>2, <3>3
    <3>6. k >= 3 => q[i - 2] = r[k - 2] BY <1>2, <3>4
    <3> HIDE DEF k
    <3> QED BY <3>2, <3>3, <3>4, <3>5, <3>6 DEF Good
  <2> QED BY <1>1, <2>1, <2>2
<1> QED BY <1>3 DEF Good, q

\* The lists that the functions consist of are in order.
LEMMA ListsGood ==
  /\ Good(<<>>) /\ Good(InitNetwork) /\ Good(SwitchToAir) /\ \A m : Good(Select(m))
  /\ Good(<<"prepare", "connect", "restore">>) /\ Good(<<"probe", "decide">>)
  /\ Good(<<"selectCh">>) /\ Good(<<"selectAir">>) /\ Good(<<"wired">>) /\ Good(<<"poll">>)
  /\ Good(<<"prepare", "holdAir", "releaseCh", "setCh">>) /\ Good(SwitchToAir \o <<"setAir">>)
  /\ Good(<<"poll", "mqtt">>) /\ Good(<<"probe", "force">>) /\ \A m \in Modes : Good(<<m, "poll">>)
<1>1. Good(<<>>) BY DEF Good
<1>2. Good(InitNetwork) BY DEF Good, InitNetwork
<1>3. Good(SwitchToAir) BY DEF Good, SwitchToAir
<1>4. Good(<<"selectCh">>) /\ Good(<<"selectAir">>) /\ Good(<<"wired">>) /\ Good(<<"poll">>) BY DEF Good
<1>5. \A m : Good(Select(m)) BY <1>1, <1>4 DEF Select
<1>6. Good(<<"prepare", "connect", "restore">>) BY DEF Good
<1>7. Good(<<"probe", "decide">>) /\ Good(<<"poll", "mqtt">>) /\ Good(<<"probe", "force">>) BY DEF Good
<1>8. Good(<<"prepare", "holdAir", "releaseCh", "setCh">>) BY DEF Good
<1>9. Good(SwitchToAir \o <<"setAir">>)
  <2>1. "setAir" \in Steps BY DEF Steps
  <2>2. <<"setAir">> \in Seq(Steps) BY <2>1
  <2>3. Good(<<"setAir">>) BY DEF Good
  <2> QED BY <1>3, <2>2, <2>3, ListsTyped, Joined
<1>10. \A m \in Modes : Good(<<m, "poll">>) BY DEF Good, Modes
<1> QED BY <1>1, <1>2, <1>3, <1>4, <1>5, <1>6, <1>7, <1>8, <1>9, <1>10

\* What is in order is safe, whatever is out of reset.
LEMMA GoodIsSafe ==
  ASSUME NEW q, NEW o, Good(q)
  PROVE  Safe(q, o)
BY DEF Good, Safe

\* A step of a safe list leaves a safe one.
LEMMA SafeTail ==
  ASSUME NEW q \in Seq(Steps), q # <<>>, NEW o, Safe(q, o)
  PROVE  /\ q[1] \notin {"holdAir", "resetCh"} => Good(Tail(q))
         /\ q[1] = "holdAir" => Safe(Tail(q), o \ {"air"})
         /\ q[1] = "resetCh" => Safe(Tail(q), o \ {"ch"})
         /\ q[1] = "releaseCh" => "air" \notin o
         /\ q[1] = "releaseAir" => "ch" \notin o
<1> DEFINE r == Tail(q)
<1>1. /\ Len(q) \in Nat \ {0} /\ Len(r) = Len(q) - 1
      /\ \A i \in 1 .. Len(q) - 1 : r[i] = q[i + 1]
  BY HeadTailProperties, EmptySeq, LenProperties
<1> HIDE DEF r
<1>2. 1 \in 1 .. Len(q) BY <1>1
<1>3. /\ q[1] = "releaseCh" => "air" \notin o
      /\ q[1] = "releaseAir" => "ch" \notin o
  BY <1>2 DEF Safe
<1>4. ASSUME NEW i \in 1 .. Len(r)
      PROVE  /\ i + 1 \in 1 .. Len(q) /\ (i + 1) - 1 = i /\ i \in Nat
             /\ r[i] = q[i + 1] /\ (i = 1 \/ (i >= 2 /\ r[i - 1] = q[i]))
             /\ i = 1 \/ i = 2 \/ (i >= 3 /\ r[i - 2] = q[i - 1] /\ (i + 1) - 2 = i - 1)
  <2>1. i + 1 \in 1 .. Len(q) /\ i \in 1 .. Len(q) - 1 /\ i \in Nat BY <1>1
  <2>2. i >= 2 => i - 1 \in 1 .. Len(q) - 1 /\ (i - 1) + 1 = i BY <1>1
  <2>3. i >= 3 => i - 2 \in 1 .. Len(q) - 1 /\ (i - 2) + 1 = i - 1 BY <1>1
  <2>4. r[i] = q[i + 1] /\ (i >= 2 => r[i - 1] = q[i]) /\ (i >= 3 => r[i - 2] = q[i - 1])
    BY <1>1, <2>1, <2>2, <2>3
  <2> QED BY <2>1, <2>4
<1>5. ASSUME NEW i \in 1 .. Len(r)
      PROVE  /\ r[i] = "releaseCh" =>
                  \/ i = 1 /\ q[1] = "holdAir"
                  \/ i = 1 /\ q[1] = "resetCh" /\ "air" \notin o
                  \/ i >= 2 /\ r[i - 1] = "holdAir"
                  \/ i = 2 /\ r[1] = "resetCh" /\ q[1] = "holdAir"
                  \/ i >= 3 /\ r[i - 1] = "resetCh" /\ r[i - 2] = "holdAir"
             /\ r[i] = "releaseAir" => (i = 1 /\ q[1] = "resetCh") \/ (i >= 2 /\ r[i - 1] = "resetCh")
  <2>1. CASE i = 1
    <3>1. 2 \in 1 .. Len(q) /\ r[1] = q[2] BY <1>4, <2>1
    <3>2. q[2] = "releaseCh" => q[1] = "holdAir" \/ (q[1] = "resetCh" /\ "air" \notin o)
      BY <3>1 DEF Safe
    <3>3. q[2] = "releaseAir" => q[1] = "resetCh" BY <3>1 DEF Safe
    <3> QED BY <2>1, <3>1, <3>2, <3>3
  <2>2. CASE i = 2
    <3>1. 3 \in 1 .. Len(q) /\ r[2] = q[3] /\ r[1] = q[2] BY <1>4, <2>2
    <3>2. q[3] = "releaseCh" => q[2] = "holdAir" \/ (q[2] = "resetCh" /\ q[1] = "holdAir")
      BY <3>1 DEF Safe
    <3>3. q[3] = "releaseAir" => q[2] = "resetCh" BY <3>1 DEF Safe
    <3> QED BY <2>2, <3>1, <3>2, <3>3
  <2>3. CASE i >= 3
    <3>1. /\ i + 1 \in 1 .. Len(q) /\ (i + 1) - 1 = i /\ (i + 1) - 2 = i - 1 /\ i + 1 >= 4
          /\ r[i] = q[i + 1] /\ r[i - 1] = q[i] /\ r[i - 2] = q[i - 1]
      BY <1>4, <2>3
    <3>2. q[i + 1] = "releaseCh" => q[i] = "holdAir" \/ (q[i] = "resetCh" /\ q[i - 1] = "holdAir")
      BY <3>1 DEF Safe
    <3>3. q[i + 1] = "releaseAir" => q[i] = "resetCh" BY <3>1 DEF Safe
    <3> QED BY <2>3, <3>1, <3>2, <3>3
  <2> QED BY <1>4, <2>1, <2>2, <2>3
<1>6. q[1] \notin {"holdAir", "resetCh"} => Good(r) BY <1>4, <1>5 DEF Good
<1>7. q[1] = "holdAir" => Safe(r, o \ {"air"})
  <2>1. "air" \notin o \ {"air"} BY Zenon
  <2> QED BY <1>5, <2>1 DEF Safe
<1>8. q[1] = "resetCh" => Safe(r, o \ {"ch"})
  <2>1. "ch" \notin o \ {"ch"} /\ ("air" \notin o => "air" \notin o \ {"ch"}) BY Zenon
  <2> QED BY <1>5, <2>1 DEF Safe
<1> QED BY <1>3, <1>6, <1>7, <1>8 DEF r

\* While one thread is at work the other has nothing to do.
LEMMA OthersIdle ==
  ASSUME TypeOK, OneAtWork, NEW t \in Threads, todo[t] # <<>>,
         NEW steps \in Seq(Steps), Then(t, steps), Safe(steps \o Tail(todo[t]), out')
  PROVE  OneAtWork'
<1>1. PICK u \in Threads : todo[u] = <<>> BY DEF OneAtWork
<1>2. /\ u # t /\ todo'[u] = <<>> /\ todo'[t] = steps \o Tail(todo[t])
  BY <1>1, ThenTyped
<1>3. \A v \in Threads : v = u \/ v = t BY <1>2 DEF Threads
<1>4. Safe(<<>>, out') BY DEF Safe
<1>5. \A v \in Threads : Safe(todo'[v], out') BY <1>2, <1>3, <1>4
<1> QED BY <1>2, <1>5 DEF OneAtWork

\* A step that puts no chip in reset leaves lists in order: what is to come is safe,
\* whatever it takes out of reset.
LEMMA OrderKept ==
  ASSUME TypeOK, OneAtWork, NEW t \in Threads, todo[t] # <<>>,
         Head(todo[t]) \notin {"holdAir", "resetCh"},
         NEW steps \in Seq(Steps), Good(steps), Then(t, steps)
  PROVE  OneAtWork'
<1>1. /\ todo[t] \in Seq(Steps) /\ Tail(todo[t]) \in Seq(Steps) /\ Head(todo[t]) = todo[t][1]
  BY AtIs
<1>2. Safe(todo[t], out) BY DEF OneAtWork
<1>3. Good(Tail(todo[t])) BY <1>1, <1>2, SafeTail
<1>4. Good(steps \o Tail(todo[t])) BY <1>1, <1>3, Joined
<1>5. Safe(steps \o Tail(todo[t]), out') BY <1>4, GoodIsSafe
<1> QED BY <1>5, OthersIdle

\* A reset makes the next step safe; a release finds the other chip in reset.
LEMMA BusReset ==
  ASSUME TypeOK, OneAtWork, out # Links, NEW t \in Threads,
         \/ Hold(t, "holdAir", "air") \/ Hold(t, "resetCh", "ch")
         \/ Release(t, "releaseCh", "ch") \/ Release(t, "releaseAir", "air")
  PROVE  OneAtWork' /\ out' # Links
<1>1. todo[t] # <<>> /\ Then(t, <<>>) BY DEF Hold, Release, At, Done
<1>2. /\ todo[t] \in Seq(Steps) /\ Tail(todo[t]) \in Seq(Steps) /\ Head(todo[t]) = todo[t][1]
  BY <1>1, AtIs
<1>3. Safe(todo[t], out) BY DEF OneAtWork
<1>4. <<>> \o Tail(todo[t]) = Tail(todo[t]) BY <1>2, ConcatEmptySeq
<1>5. <<>> \in Seq(Steps) /\ Good(<<>>) BY ListsTyped, ListsGood
<1>6. out \subseteq Links BY DEF TypeOK
<1>7. ASSUME NEW step, NEW chip \in Links, Hold(t, step, chip),
             (step = "holdAir" /\ chip = "air") \/ (step = "resetCh" /\ chip = "ch")
      PROVE  OneAtWork' /\ out' # Links
  <2>1. todo[t][1] = step /\ out' = out \ {chip} BY <1>2, <1>7 DEF Hold, At
  <2>2. Safe(Tail(todo[t]), out \ {chip}) BY <1>1, <1>2, <1>3, <1>7, <2>1, SafeTail
  <2>3. Safe(<<>> \o Tail(todo[t]), out') BY <1>4, <2>1, <2>2
  <2>4. OneAtWork' BY <1>1, <1>5, <2>3, OthersIdle
  <2>5. out' # Links BY <2>1 DEF Links
  <2> QED BY <2>4, <2>5
<1>8. ASSUME NEW step, NEW chip \in Links, Release(t, step, chip),
             (step = "releaseAir" /\ chip = "air") \/ (step = "releaseCh" /\ chip = "ch")
      PROVE  OneAtWork' /\ out' # Links
  <2>1. todo[t][1] = step /\ Head(todo[t]) = step /\ out' = out \cup {chip}
    BY <1>2, <1>8 DEF Release, At
  <2>2. Head(todo[t]) \notin {"holdAir", "resetCh"} BY <1>8, <2>1
  <2>3. OneAtWork' BY <1>1, <1>5, <2>2, OrderKept
  <2>4. PICK other \in Links : other # chip /\ other \notin out
    <3>1. /\ todo[t][1] = "releaseCh" => "air" \notin out
          /\ todo[t][1] = "releaseAir" => "ch" \notin out
      BY <1>1, <1>2, <1>3, SafeTail
    <3>2. "air" \in Links /\ "ch" \in Links BY DEF Links
    <3> QED BY <1>8, <2>1, <3>1, <3>2
  <2>5. out' # Links BY <2>1, <2>4
  <2> QED BY <2>3, <2>5
<1>9. "air" \in Links /\ "ch" \in Links BY DEF Links
<1> QED BY <1>7, <1>8, <1>9

\* The steps that leave the reset lines alone.
LEMMA BusStep ==
  ASSUME TypeOK, OneAtWork, out # Links, NEW t \in Threads, StepOf(t)
  PROVE  OneAtWork' /\ out' # Links
<1>1. ASSUME NEW step \in Steps, At(t, step), step \notin {"holdAir", "resetCh"},
             NEW steps \in Seq(Steps), Good(steps), Then(t, steps), out' = out
      PROVE  OneAtWork' /\ out' # Links
  <2>1. todo[t] # <<>> /\ Head(todo[t]) = step BY <1>1 DEF At
  <2>2. OneAtWork' BY <1>1, <2>1, OrderKept
  <2> QED BY <1>1, <2>2
<1>2. /\ \A s \in {"prepare", "check", "configure", "probe", "connect", "restore", "poll", "decide",
                   "selectCh", "selectAir", "setCh", "setAir", "force", "ifOk"} :
           s \in Steps /\ s \notin {"holdAir", "resetCh"}
      /\ \A m \in Modes : m \in Steps /\ m \notin {"holdAir", "resetCh"}
  BY DEF Steps, Modes
<1>3. CASE Hold(t, "holdAir", "air") \/ Hold(t, "resetCh", "ch")
           \/ Release(t, "releaseCh", "ch") \/ Release(t, "releaseAir", "air")
  BY <1>3, BusReset
<1>4. CASE Check(t)
  BY <1>1, <1>2, <1>4, ListsTyped, ListsGood DEF Check, Done, chips
<1>5. CASE Configure(t)
  <2>1. At(t, "configure") /\ Then(t, <<>>) /\ out' = out BY <1>5 DEF Configure, Done
  <2> QED BY <1>1, <1>2, <2>1, ListsTyped, ListsGood
<1>6. CASE Prepare(t)
  <2>1. PICK steps \in {<<>>, InitNetwork} : At(t, "prepare") /\ Then(t, steps) /\ out' = out
    BY <1>6 DEF Prepare, chips
  <2> QED BY <1>1, <1>2, <2>1, ListsTyped, ListsGood
<1>7. CASE Probe(t)
  <2>1. At(t, "probe") /\ Then(t, <<"prepare", "connect", "restore">>) /\ out' = out
    BY <1>7 DEF Probe, chips
  <2> QED BY <1>1, <1>2, <2>1, ListsTyped, ListsGood
<1>8. CASE Connect(t)
  <2>1. At(t, "connect") /\ Then(t, <<>>) /\ out' = out BY <1>8 DEF Connect, Done, chips
  <2> QED BY <1>1, <1>2, <2>1, ListsTyped, ListsGood
<1>9. CASE Restore(t)
  <2>1. PICK steps \in {<<>>, SwitchToAir} : At(t, "restore") /\ Then(t, steps) /\ out' = out
    BY <1>9 DEF Restore, chips
  <2> QED BY <1>1, <1>2, <2>1, ListsTyped, ListsGood
<1>10. CASE Poll(t)
  <2>1. PICK steps \in {<<>>, <<"probe", "decide">>, Select(mode)} :
          At(t, "poll") /\ Then(t, steps) /\ out' = out
    BY <1>10 DEF Poll, chips
  <2> QED BY <1>1, <1>2, <2>1, ListsTyped, ListsGood
<1>11. CASE Decide(t)
  <2>1. PICK steps \in {<<>>, <<"selectCh">>, <<"selectAir">>} :
          At(t, "decide") /\ Then(t, steps) /\ out' = out
    BY <1>11 DEF Decide, chips
  <2> QED BY <1>1, <1>2, <2>1, ListsTyped, ListsGood
<1>12. CASE SelectLink(t, "selectCh", <<"prepare", "holdAir", "releaseCh", "setCh">>)
  <2>1. /\ At(t, "selectCh") /\ Then(t, <<"prepare", "holdAir", "releaseCh", "setCh">>)
        /\ out' = out
    BY <1>12 DEF SelectLink
  <2> QED BY <1>1, <1>2, <2>1, ListsTyped, ListsGood
<1>13. CASE SelectLink(t, "selectAir", SwitchToAir \o <<"setAir">>)
  <2>1. At(t, "selectAir") /\ Then(t, SwitchToAir \o <<"setAir">>) /\ out' = out
    BY <1>13 DEF SelectLink
  <2> QED BY <1>1, <1>2, <2>1, ListsTyped, ListsGood
<1>14. ASSUME NEW step \in {"setCh", "setAir"}, NEW l, SetLink(t, step, l)
       PROVE  OneAtWork' /\ out' # Links
  <2>1. At(t, step) /\ Then(t, <<>>) /\ out' = out BY <1>14 DEF SetLink, Done, chips
  <2> QED BY <1>1, <1>2, <1>14, <2>1, ListsTyped, ListsGood
<1>15. ASSUME NEW m \in Modes, SetMode(t, m) PROVE OneAtWork' /\ out' # Links
  <2>1. At(t, m) /\ Then(t, Select(m)) /\ out' = out BY <1>15 DEF SetMode, chips
  <2> QED BY <1>1, <1>2, <2>1, ListsTyped, ListsGood
<1>16. CASE ForceProbe(t)
  <2>1. At(t, "force") /\ Then(t, <<>>) /\ out' = out BY <1>16 DEF ForceProbe, Done, chips
  <2> QED BY <1>1, <1>2, <2>1, ListsTyped, ListsGood
<1>17. CASE IfOk(t)
  <2>1. PICK steps \in {<<>>, <<"wired">>} : At(t, "ifOk") /\ Then(t, steps) /\ out' = out
    BY <1>17 DEF IfOk, chips
  <2> QED BY <1>1, <1>2, <2>1, ListsTyped, ListsGood
<1> QED BY <1>3, <1>4, <1>5, <1>6, <1>7, <1>8, <1>9, <1>10, <1>11, <1>12, <1>13, <1>14, <1>15,
           <1>16, <1>17 DEF StepOf

\* A pass of the main thread begins its list, or comes in the middle of a command.
LEMMA BusBegins ==
  ASSUME TypeOK, BusInv, MainBegins \/ (\E c \in Commands : Command(c))
  PROVE  BusInv'
<1>1. out' = out /\ todo \in [Threads -> Seq(Steps)] /\ (raced => raced') /\ (direct => direct')
  BY DEF MainBegins, Command, chips, TypeOK
<1>2. CASE raced \/ direct BY <1>1, <1>2 DEF BusInv
<1>3. CASE ~raced /\ ~direct
  <2>1. OneAtWork /\ out # Links BY <1>3 DEF BusInv
  <2>2. ASSUME NEW t \in Threads, NEW u \in Threads, t # u, todo[u] = <<>>, NEW list, Good(list),
               todo' = [todo EXCEPT ![t] = list]
        PROVE  OneAtWork'
    <3>1. todo'[t] = list /\ todo'[u] = <<>> BY <1>1, <2>2
    <3>2. \A v \in Threads : v = u \/ v = t BY <2>2 DEF Threads
    <3>3. Safe(list, out') /\ Safe(<<>>, out') BY <2>2, GoodIsSafe, ListsGood
    <3>4. \A v \in Threads : Safe(todo'[v], out') BY <3>1, <3>2, <3>3
    <3> QED BY <3>1, <3>4 DEF OneAtWork
  <2>3. "main" \in Threads /\ "shell" \in Threads BY DEF Threads
  <2>4. CASE MainBegins
    <3>1. /\ todo' = [todo EXCEPT !["main"] = <<"poll", "mqtt">>]
          /\ raced' = (raced \/ todo["shell"] # <<>>)
      BY <2>4 DEF MainBegins
    <3>2. CASE todo["shell"] # <<>> BY <3>1, <3>2 DEF BusInv
    <3>3. CASE todo["shell"] = <<>>
      <4>1. OneAtWork' BY <2>2, <2>3, <3>1, <3>3, ListsGood
      <4> QED BY <1>1, <2>1, <4>1 DEF BusInv
    <3> QED BY <3>2, <3>3
  <2>5. ASSUME NEW c \in Commands, Command(c) PROVE BusInv'
    <3>1. todo["main"] = <<>> /\ direct' = (direct \/ c \in {"setup", "init", "modem"})
      BY <2>3, <2>5 DEF Command
    <3>2. CASE c \in {"setup", "init", "modem"} BY <3>1, <3>2 DEF BusInv
    <3>3. CASE c \in Modes
      <4>1. c \notin {"probe", "setup", "init", "modem"} BY <3>3 DEF Modes
      <4>2. todo' = [todo EXCEPT !["shell"] = <<c, "poll">>] BY <2>5, <3>3, <4>1 DEF Command
      <4>3. OneAtWork' BY <2>2, <2>3, <3>1, <3>3, <4>2, ListsGood
      <4> QED BY <1>1, <2>1, <4>3 DEF BusInv
    <3>4. CASE c = "probe"
      <4>1. c \notin Modes BY <3>4 DEF Modes
      <4>2. todo' = [todo EXCEPT !["shell"] = <<"probe", "force">>] BY <2>5, <3>4, <4>1 DEF Command
      <4>3. OneAtWork' BY <2>2, <2>3, <3>1, <4>2, ListsGood
      <4> QED BY <1>1, <2>1, <4>3 DEF BusInv
    <3> QED BY <3>2, <3>3, <3>4, ConstantsAssumption
  <2> QED BY <2>4, <2>5
<1> QED BY <1>2, <1>3

\* Whatever is done, only one thread at a time works on the chips until raced or direct.
LEMMA BusInvStep ==
  ASSUME TypeOK, BusInv, [Next]_vars
  PROVE  BusInv'
<1>1. ASSUME UNCHANGED <<todo, out, raced, direct>> PROVE BusInv'
  BY <1>1 DEF BusInv, OneAtWork
<1>2. CASE UNCHANGED vars BY <1>1, <1>2 DEF vars, threads, chips, bounds
<1>3. CASE Look \/ Timer \/ Register \/ Fault
  BY <1>1, <1>3 DEF Look, Timer, Register, Fault, threads, chips, bounds
<1>4. CASE MainBegins \/ \E c \in Commands : Command(c) BY <1>4, BusBegins
<1>5. ASSUME NEW t \in Threads, StepOf(t) PROVE UNCHANGED <<raced, direct>>
  BY <1>5 DEF StepOf, Hold, Release, Check, Configure, Prepare, Probe, Connect, Restore, Poll, Decide,
              SelectLink, SetLink, SetMode, ForceProbe, IfOk, bounds
<1>6. ASSUME NEW t \in Threads, StepOf(t) PROVE BusInv'
  BY <1>5, <1>6, BusStep DEF BusInv
<1>7. CASE MqttKeeps \/ MqttReopens
  <2>1. /\ todo["main"] # <<>> /\ Head(todo["main"]) = "mqtt" /\ Then("main", <<>>)
        /\ UNCHANGED <<raced, direct>> /\ out' = out /\ "main" \in Threads
    BY <1>7 DEF MqttKeeps, MqttReopens, At, Done, chips, bounds, Threads
  <2>2. OneAtWork => OneAtWork' BY <2>1, OrderKept, ListsTyped, ListsGood
  <2> QED BY <2>1, <2>2 DEF BusInv
<1> QED BY <1>2, <1>3, <1>4, <1>6, <1>7 DEF Next

\* At boot the main thread alone has a list, and the 4G module is in reset.
LEMMA BusInit ==
  ASSUME Init
  PROVE  BusInv
<1> DEFINE list == (IF BootMode = "4g" THEN <<>> ELSE InitNetwork) \o Select(BootMode) \o <<"poll">>
<1>1. /\ todo = [t \in Threads |-> IF t = "shell" THEN <<>> ELSE list] /\ out = {"ch"}
  BY DEF Init
<1>2. Good(list)
  <2> DEFINE first == IF BootMode = "4g" THEN <<>> ELSE InitNetwork
  <2>1. first \in Seq(Steps) /\ Good(first) BY ListsTyped, ListsGood
  <2>2. Select(BootMode) \in Seq(Steps) /\ Good(Select(BootMode)) BY ListsTyped, ListsGood
  <2>3. <<"poll">> \in Seq(Steps) /\ Good(<<"poll">>) BY ListsTyped, ListsGood
  <2> HIDE DEF first
  <2>4. first \o Select(BootMode) \in Seq(Steps) /\ Good(first \o Select(BootMode))
    BY <2>1, <2>2, Joined, ConcatProperties
  <2>5. Good((first \o Select(BootMode)) \o <<"poll">>) BY <2>3, <2>4, Joined
  <2> QED BY <2>5 DEF first
<1> HIDE DEF list
<1>3. todo["shell"] = <<>> /\ \A t \in Threads : todo[t] = <<>> \/ todo[t] = list
  BY <1>1 DEF Threads
<1>4. Safe(list, out) /\ Safe(<<>>, out) BY <1>2, ListsGood, GoodIsSafe
<1>5. OneAtWork BY <1>3, <1>4 DEF OneAtWork, Threads
<1>6. out # Links BY <1>1 DEF Links
<1> QED BY <1>5, <1>6 DEF BusInv

-----------------------------------------------------------------------------
(* At rest.                                                                *)

\* The steps that begin and end with the active link alone on the bus.
Whole == Modes \cup {"poll", "probe", "decide", "selectCh", "selectAir", "force", "ifOk", "mqtt"}

\* "end" stands for the end of a list.
Closed == Whole \cup {"end"}

\* The steps after which a list has only whole steps left.
Closing == Whole \cup {"restore", "setCh", "setAir"}

\* y may follow x in the list of a thread, while l is the active link and b the link the
\* thread's probe has found.
Follows(x, y, l, b) ==
  /\ x = "prepare" => y \in {"connect", "holdAir"}
  /\ x = "holdAir" => y \in {"resetCh", "releaseCh"}
  /\ x = "resetCh" => y \in {"releaseCh", "releaseAir"}
  /\ x = "releaseCh" => y \in {"check", "setCh"}
  /\ x = "check" => y = "configure"
  /\ x = "configure" => y \in {"connect", "holdAir"} \/ (y \in Closed /\ l = "ch")
  /\ x = "connect" => y = "restore"
  /\ x = "restore" => y \in Closed /\ b = l
  /\ x = "releaseAir" => y = "setAir" \/ (y \in Closed /\ l = "air")
  /\ x \in Whole \cup {"setCh", "setAir"} => y \in Closed

\* The first step of a list, and the step after the i-th.
First(q) == IF q = <<>> THEN "end" ELSE q[1]
NextTo(q, i) == IF i < Len(q) THEN q[i + 1] ELSE "end"

\* A list that is carried out leaves the active link alone on the bus.
Leads(q, l, b) ==
  \A i \in 1 .. Len(q) :
    /\ Follows(q[i], NextTo(q, i), l, b)
    /\ q[i] \in Closing => \A j \in i + 1 .. Len(q) : q[j] \in Whole

\* The chips o out of reset when x is the next step.
Stands(x, l, o) ==
  /\ x \in {"check", "configure", "connect", "restore", "setCh"} => o = {"ch"}
  /\ x = "setAir" => o = {"air"}
  /\ x \in Closed => o = {l}

AllLead ==
  /\ \A t \in Threads : /\ Leads(todo[t], link, before[t])
                        /\ todo[t] # <<>> => Stands(First(todo[t]), link, out)
  /\ AtRest => out = {link}

RestInv == raced \/ direct \/ AllLead

\* Whole steps lead on wherever a thread is.
LEMMA WholeLeads ==
  ASSUME NEW r \in Seq(Steps), \A j \in 1 .. Len(r) : r[j] \in Whole, NEW l, NEW b
  PROVE  Leads(r, l, b) /\ First(r) \in Closed
<1>1. Len(r) \in Nat BY LenProperties
<1>2. First(r) \in Closed
  <2>1. CASE r = <<>> BY <2>1 DEF First, Closed
  <2>2. CASE r # <<>>
    <3>1. 1 \in 1 .. Len(r) BY <1>1, <2>2, EmptySeq
    <3> QED BY <2>2, <3>1 DEF First, Closed
  <2> QED BY <2>1, <2>2
<1>3. ASSUME NEW i \in 1 .. Len(r) PROVE Follows(r[i], NextTo(r, i), l, b)
  <2>1. NextTo(r, i) \in Closed
    <3>1. i < Len(r) => i + 1 \in 1 .. Len(r) BY <1>1
    <3> QED BY <3>1 DEF NextTo, Closed
  <2>2. r[i] \in Whole OBVIOUS
  <2> QED BY <2>1, <2>2 DEF Follows, Whole, Modes
<1>4. \A i \in 1 .. Len(r) : \A j \in i + 1 .. Len(r) : j \in 1 .. Len(r) BY <1>1
<1> QED BY <1>2, <1>3, <1>4 DEF Leads

\* What is left of a list after its first step.
LEMMA LeadsTail ==
  ASSUME NEW q \in Seq(Steps), q # <<>>, NEW l, NEW b, Leads(q, l, b)
  PROVE  /\ Leads(Tail(q), l, b) /\ Follows(q[1], First(Tail(q)), l, b)
         /\ q[1] \in Closing => \A j \in 1 .. Len(Tail(q)) : Tail(q)[j] \in Whole
<1> DEFINE r == Tail(q)
<1>1. /\ Len(q) \in Nat \ {0} /\ Len(r) = Len(q) - 1 /\ r \in Seq(Steps)
      /\ \A i \in 1 .. Len(q) - 1 : r[i] = q[i + 1]
  BY HeadTailProperties, EmptySeq, LenProperties
<1> HIDE DEF r
<1>2. First(r) = NextTo(q, 1)
  <2>1. CASE r = <<>>
    <3>1. Len(r) = 0 BY <1>1, <2>1, EmptySeq
    <3>2. ~(1 < Len(q))
      <4>1. Len(q) - 1 = 0 BY <1>1, <3>1
      <4> QED BY <1>1, <4>1
    <3> QED BY <2>1, <3>2 DEF First, NextTo
  <2>2. CASE r # <<>>
    <3>1. Len(r) # 0 BY <1>1, <2>2, EmptySeq
    <3>2. 1 \in 1 .. Len(q) - 1 /\ 1 < Len(q) BY <1>1, <3>1
    <3> QED BY <1>1, <2>2, <3>2 DEF First, NextTo
  <2> QED BY <2>1, <2>2
<1>3. 1 \in 1 .. Len(q) BY <1>1
<1>4. ASSUME NEW i \in 1 .. Len(r)
      PROVE  i + 1 \in 1 .. Len(q) /\ r[i] = q[i + 1] /\ NextTo(r, i) = NextTo(q, i + 1)
  <2>1. i + 1 \in 1 .. Len(q) /\ i \in 1 .. Len(q) - 1 /\ i \in Nat BY <1>1
  <2>2. i < Len(r) => i + 1 \in 1 .. Len(q) - 1 /\ i + 1 < Len(q) BY <1>1
  <2>3. ~(i < Len(r)) => ~(i + 1 < Len(q)) BY <1>1
  <2> QED BY <1>1, <2>1, <2>2, <2>3 DEF NextTo
<1>5. ASSUME NEW i \in 1 .. Len(r), r[i] \in Closing, NEW j \in i + 1 .. Len(r)
      PROVE  r[j] \in Whole
  <2>1. i + 1 \in 1 .. Len(q) /\ j + 1 \in (i + 1) + 1 .. Len(q) /\ j \in 1 .. Len(r) BY <1>1
  <2>2. r[i] = q[i + 1] /\ r[j] = q[j + 1] BY <1>4, <2>1
  <2> QED BY <1>5, <2>1, <2>2 DEF Leads
<1>6. Leads(r, l, b) BY <1>4, <1>5 DEF Leads
<1>7. q[1] \in Closing => \A j \in 1 .. Len(r) : r[j] \in Whole
  <2>1. \A j \in 1 .. Len(r) : j + 1 \in 1 + 1 .. Len(q) BY <1>1
  <2> QED BY <1>3, <1>4, <2>1 DEF Leads
<1>8. Follows(q[1], First(r), l, b) BY <1>2, <1>3 DEF Leads
<1> QED BY <1>6, <1>7, <1>8 DEF r

\* Where a list may end, whole steps may go on.
LEMMA EndsWhole ==
  ASSUME NEW x, NEW l, NEW b, Follows(x, "end", l, b), NEW y \in Closed
  PROVE  Follows(x, y, l, b)
<1>1. "end" \in Closed /\ "end" \notin {"connect", "holdAir", "resetCh", "releaseCh", "releaseAir", "check",
                                       "setCh", "configure", "restore", "setAir"}
  BY DEF Closed
<1> QED BY <1>1 DEF Follows

\* Whole steps after a list that leads.
LEMMA LeadsJoin ==
  ASSUME NEW s \in Seq(Steps), NEW r \in Seq(Steps), NEW l, NEW b,
         Leads(s, l, b), \A j \in 1 .. Len(r) : r[j] \in Whole
  PROVE  /\ Leads(s \o r, l, b)
         /\ First(s \o r) = IF s = <<>> THEN First(r) ELSE s[1]
<1> DEFINE q == s \o r
<1>1. /\ q \in Seq(Steps) /\ Len(q) = Len(s) + Len(r) /\ Len(s) \in Nat /\ Len(r) \in Nat
      /\ \A i \in 1 .. Len(s) : q[i] = s[i]
      /\ \A i \in 1 .. Len(r) : q[Len(s) + i] = r[i]
  BY ConcatProperties, LenProperties
<1> HIDE DEF q
<1>2. ASSUME NEW j \in 1 .. Len(q), j > Len(s)
      PROVE  j - Len(s) \in 1 .. Len(r) /\ q[j] = r[j - Len(s)] /\ q[j] \in Whole
  <2>1. j - Len(s) \in 1 .. Len(r) /\ Len(s) + (j - Len(s)) = j BY <1>1, <1>2
  <2>2. q[j] = r[j - Len(s)] BY <1>1, <2>1
  <2> QED BY <2>1, <2>2
<1>3. Leads(r, l, b) /\ First(r) \in Closed BY WholeLeads
<1>4. ASSUME NEW i \in 1 .. Len(q) PROVE Follows(q[i], NextTo(q, i), l, b)
  <2>1. CASE i < Len(s)
    <3>1. i \in 1 .. Len(s) /\ i + 1 \in 1 .. Len(s) /\ i < Len(q) BY <1>1, <2>1
    <3>2. q[i] = s[i] /\ q[i + 1] = s[i + 1] BY <1>1, <3>1
    <3>3. NextTo(q, i) = NextTo(s, i) BY <2>1, <3>1, <3>2 DEF NextTo
    <3> QED BY <3>1, <3>2, <3>3 DEF Leads
  <2>2. CASE i >= Len(s)
    <3>1. NextTo(q, i) \in Closed
      <4>1. i < Len(q) => i + 1 \in 1 .. Len(q) /\ i + 1 > Len(s) BY <1>1, <2>2
      <4>2. i < Len(q) => q[i + 1] \in Whole BY <1>2, <4>1
      <4> QED BY <4>2 DEF NextTo, Closed
    <3>2. CASE i = Len(s)
      <4>1. i \in 1 .. Len(s) /\ ~(i < Len(s)) BY <1>1, <3>2
      <4>2. Follows(s[i], "end", l, b) /\ q[i] = s[i] BY <1>1, <4>1 DEF Leads, NextTo
      <4> QED BY <3>1, <4>2, EndsWhole
    <3>3. CASE i > Len(s)
      <4>1. q[i] \in Whole BY <1>2, <3>3
      <4> QED BY <3>1, <4>1 DEF Follows, Whole, Modes
    <3> QED BY <1>1, <2>2, <3>2, <3>3
  <2> QED BY <1>1, <2>1, <2>2
<1>5. ASSUME NEW i \in 1 .. Len(q), q[i] \in Closing, NEW j \in i + 1 .. Len(q)
      PROVE  q[j] \in Whole
  <2>1. j \in 1 .. Len(q) BY <1>1
  <2>2. CASE j > Len(s) BY <1>2, <2>1, <2>2
  <2>3. CASE j <= Len(s)
    <3>1. i \in 1 .. Len(s) /\ j \in i + 1 .. Len(s) /\ j \in 1 .. Len(s) BY <1>1, <2>3
    <3>2. q[i] = s[i] /\ q[j] = s[j] BY <1>1, <3>1
    <3> QED BY <1>5, <3>1, <3>2 DEF Leads
  <2> QED BY <1>1, <2>2, <2>3
<1>6. First(q) = IF s = <<>> THEN First(r) ELSE s[1]
  <2>1. CASE s = <<>>
    <3>1. q = r BY <2>1, ConcatEmptySeq DEF q
    <3> QED BY <2>1, <3>1
  <2>2. CASE s # <<>>
    <3>1. 1 \in 1 .. Len(s) /\ Len(q) # 0 BY <1>1, <2>2, EmptySeq
    <3>2. q # <<>> BY <3>1
    <3> QED BY <1>1, <2>2, <3>1, <3>2 DEF First
  <2> QED BY <2>1, <2>2
<1>7. Leads(q, l, b) BY <1>4, <1>5 DEF Leads
<1> QED BY <1>6, <1>7 DEF q

\* The set-up of the wired chip in front of what its preparation was in front of.
LEMMA LeadsInit ==
  ASSUME NEW r \in Seq(Steps), NEW l, NEW b, Leads(r, l, b), First(r) \in {"connect", "holdAir"}
  PROVE  Leads(InitNetwork \o r, l, b) /\ First(InitNetwork \o r) = "holdAir"
<1> DEFINE q == InitNetwork \o r
<1>1. /\ q \in Seq(Steps) /\ Len(q) = 5 + Len(r) /\ Len(r) \in Nat
      /\ \A i \in 1 .. 5 : q[i] = InitNetwork[i]
      /\ \A i \in 1 .. Len(r) : q[5 + i] = r[i]
  <2>1. InitNetwork \in Seq(Steps) BY ListsTyped
  <2>2. Len(InitNetwork) = 5 BY DEF InitNetwork
  <2>3. /\ q \in Seq(Steps) /\ Len(q) = Len(InitNetwork) + Len(r)
        /\ \A i \in 1 .. Len(InitNetwork) : q[i] = InitNetwork[i]
        /\ \A i \in 1 .. Len(r) : q[Len(InitNetwork) + i] = r[i]
    BY <2>1, ConcatProperties
  <2> QED BY <2>2, <2>3, LenProperties
<1> HIDE DEF q
<1>2. /\ q[1] = "holdAir" /\ q[2] = "resetCh" /\ q[3] = "releaseCh" /\ q[4] = "check"
      /\ q[5] = "configure"
  BY <1>1 DEF InitNetwork
<1>3. Len(r) # 0 /\ First(r) = r[1]
  <2>1. r # <<>> BY DEF First
  <2> QED BY <2>1, EmptySeq DEF First
<1>4. q[6] = r[1]
  <2>1. 1 \in 1 .. Len(r) /\ 5 + 1 = 6 BY <1>1, <1>3
  <2> QED BY <1>1, <2>1
<1>5. ASSUME NEW i \in 1 .. Len(q), i > 5
      PROVE  /\ i - 5 \in 1 .. Len(r) /\ q[i] = r[i - 5] /\ NextTo(q, i) = NextTo(r, i - 5)
  <2>1. i - 5 \in 1 .. Len(r) /\ 5 + (i - 5) = i BY <1>1, <1>5
  <2>2. i < Len(q) => (i - 5) + 1 \in 1 .. Len(r) /\ 5 + ((i - 5) + 1) = i + 1 /\ i - 5 < Len(r)
    BY <1>1, <1>5
  <2>3. ~(i < Len(q)) => ~(i - 5 < Len(r)) BY <1>1, <1>5
  <2>4. i < Len(q) => q[i + 1] = r[(i - 5) + 1] BY <1>1, <2>2
  <2>5. q[i] = r[i - 5] BY <1>1, <2>1
  <2>6. NextTo(q, i) = NextTo(r, i - 5) BY <2>2, <2>3, <2>4 DEF NextTo
  <2> QED BY <2>1, <2>5, <2>6
<1>6. ASSUME NEW i \in 1 .. Len(q) PROVE Follows(q[i], NextTo(q, i), l, b)
  <2>1. CASE i > 5 BY <1>5, <2>1 DEF Leads
  <2>2. CASE i <= 5
    <3>1. i < Len(q) /\ i \in 1 .. 5 BY <1>1, <1>3, <2>2
    <3>2. NextTo(q, i) = q[i + 1] BY <3>1 DEF NextTo
    <3>3. /\ 1 + 1 = 2 /\ 2 + 1 = 3 /\ 3 + 1 = 4 /\ 4 + 1 = 5 /\ 5 + 1 = 6
          /\ i = 1 \/ i = 2 \/ i = 3 \/ i = 4 \/ i = 5
      BY <3>1
    <3>4. \/ q[i] = "holdAir" /\ q[i + 1] = "resetCh"
          \/ q[i] = "resetCh" /\ q[i + 1] = "releaseCh"
          \/ q[i] = "releaseCh" /\ q[i + 1] = "check"
          \/ q[i] = "check" /\ q[i + 1] = "configure"
          \/ q[i] = "configure" /\ q[i + 1] \in {"connect", "holdAir"}
      BY <1>2, <1>3, <1>4, <3>3
    <3> QED BY <3>2, <3>4 DEF Follows, Whole, Modes
  <2> QED BY <1>1, <2>1, <2>2
<1>7. ASSUME NEW i \in 1 .. Len(q), q[i] \in Closing, NEW j \in i + 1 .. Len(q)
      PROVE  q[j] \in Whole
  <2>1. i > 5
    <3>1. ASSUME i <= 5 PROVE FALSE
      <4>1. i = 1 \/ i = 2 \/ i = 3 \/ i = 4 \/ i = 5 BY <1>1, <3>1
      <4>2. q[i] \in {"holdAir", "resetCh", "releaseCh", "check", "configure"} BY <1>2, <4>1
      <4> QED BY <1>7, <4>2 DEF Closing, Whole, Modes
    <3> QED BY <1>1, <3>1
  <2>2. i - 5 \in 1 .. Len(r) /\ j \in 1 .. Len(q) /\ j > 5 /\ j - 5 \in (i - 5) + 1 .. Len(r)
    BY <1>1, <2>1
  <2>3. q[i] = r[i - 5] /\ q[j] = r[j - 5] BY <1>5, <2>1, <2>2
  <2> QED BY <1>7, <2>2, <2>3 DEF Leads
<1>8. First(q) = "holdAir"
  <2>1. q # <<>> BY <1>1
  <2> QED BY <1>2, <2>1 DEF First
<1> QED BY <1>6, <1>7, <1>8 DEF Leads, q

\* The lists that the functions consist of lead on.
LEMMA ListsLead ==
  ASSUME NEW l, NEW b
  PROVE  /\ Leads(<<>>, l, b) /\ \A x \in Whole : Leads(<<x>>, l, b)
         /\ \A x, y \in Whole : Leads(<<x, y>>, l, b)
         /\ Leads(<<"prepare", "connect", "restore">>, l, l)
         /\ Leads(<<"prepare", "holdAir", "releaseCh", "setCh">>, l, b)
         /\ Leads(SwitchToAir, "air", b) /\ Leads(SwitchToAir \o <<"setAir">>, l, b)
         /\ Leads(InitNetwork, "ch", b)
<1>1. Leads(<<>>, l, b) BY DEF Leads
<1>2. Whole \subseteq Steps BY DEF Whole, Steps
<1>3. \A x \in Whole : Leads(<<x>>, l, b)
  <2>1. \A x \in Whole : <<x>> \in Seq(Steps) /\ \A j \in 1 .. Len(<<x>>) : <<x>>[j] \in Whole
    BY <1>2
  <2> QED BY <2>1, WholeLeads
<1>4. \A x, y \in Whole : Leads(<<x, y>>, l, b)
  <2>1. \A x, y \in Whole : <<x, y>> \in Seq(Steps) /\ \A j \in 1 .. Len(<<x, y>>) : <<x, y>>[j] \in Whole
    BY <1>2
  <2> QED BY <2>1, WholeLeads
<1>5. /\ "end" \in Closed
      /\ \A x \in {"prepare", "holdAir", "resetCh", "releaseCh", "releaseAir", "check", "configure",
                   "connect"} : x \notin Closing
      /\ \A x \in {"prepare", "holdAir", "resetCh", "releaseCh", "releaseAir", "check", "configure",
                   "connect", "restore", "setCh", "setAir"} : x \notin Whole
  BY DEF Closed, Closing, Whole, Modes
<1>6. Leads(<<"prepare", "connect", "restore">>, l, l)
  <2> DEFINE q == <<"prepare", "connect", "restore">>
  <2>1. Len(q) = 3 /\ q[1] = "prepare" /\ q[2] = "connect" /\ q[3] = "restore" OBVIOUS
  <2> HIDE DEF q
  <2>2. NextTo(q, 1) = "connect" /\ NextTo(q, 2) = "restore" /\ NextTo(q, 3) = "end"
    BY <2>1 DEF NextTo
  <2>3. \A i \in 1 .. Len(q) : i = 1 \/ i = 2 \/ i = 3 BY <2>1
  <2>4. \A i \in 1 .. Len(q) : Follows(q[i], NextTo(q, i), l, l)
    BY <1>5, <2>1, <2>2, <2>3 DEF Follows
  <2>5. \A i \in 1 .. Len(q) : q[i] \in Closing => \A j \in i + 1 .. Len(q) : q[j] \in Whole
    BY <1>5, <2>1, <2>3
  <2> QED BY <2>4, <2>5 DEF Leads, q
<1>7. Leads(<<"prepare", "holdAir", "releaseCh", "setCh">>, l, b)
  <2> DEFINE q == <<"prepare", "holdAir", "releaseCh", "setCh">>
  <2>1. Len(q) = 4 /\ q[1] = "prepare" /\ q[2] = "holdAir" /\ q[3] = "releaseCh" /\ q[4] = "setCh"
    OBVIOUS
  <2> HIDE DEF q
  <2>2. /\ NextTo(q, 1) = "holdAir" /\ NextTo(q, 2) = "releaseCh" /\ NextTo(q, 3) = "setCh"
        /\ NextTo(q, 4) = "end"
    BY <2>1 DEF NextTo
  <2>3. \A i \in 1 .. Len(q) : i = 1 \/ i = 2 \/ i = 3 \/ i = 4 BY <2>1
  <2>4. \A i \in 1 .. Len(q) : Follows(q[i], NextTo(q, i), l, b)
    BY <1>5, <2>1, <2>2, <2>3 DEF Follows
  <2>5. \A i \in 1 .. Len(q) : q[i] \in Closing => \A j \in i + 1 .. Len(q) : q[j] \in Whole
    BY <1>5, <2>1, <2>3
  <2> QED BY <2>4, <2>5 DEF Leads, q
<1>8. Leads(SwitchToAir, "air", b)
  <2> DEFINE q == SwitchToAir
  <2>1. Len(q) = 2 /\ q[1] = "resetCh" /\ q[2] = "releaseAir" BY DEF SwitchToAir
  <2> HIDE DEF q
  <2>2. NextTo(q, 1) = "releaseAir" /\ NextTo(q, 2) = "end" BY <2>1 DEF NextTo
  <2>3. \A i \in 1 .. Len(q) : i = 1 \/ i = 2 BY <2>1
  <2>4. \A i \in 1 .. Len(q) : Follows(q[i], NextTo(q, i), "air", b)
    BY <1>5, <2>1, <2>2, <2>3 DEF Follows
  <2>5. \A i \in 1 .. Len(q) : q[i] \in Closing => \A j \in i + 1 .. Len(q) : q[j] \in Whole
    BY <1>5, <2>1, <2>3
  <2> QED BY <2>4, <2>5 DEF Leads, q
<1>9. Leads(SwitchToAir \o <<"setAir">>, l, b)
  <2> DEFINE q == SwitchToAir \o <<"setAir">>
  <2>1. Len(q) = 3 /\ q[1] = "resetCh" /\ q[2] = "releaseAir" /\ q[3] = "setAir"
    <3> DEFINE p == SwitchToAir
    <3> DEFINE r == <<"setAir">>
    <3>1. p \in Seq(Steps) /\ Len(p) = 2 BY ListsTyped DEF SwitchToAir
    <3>2. r \in Seq(Steps) /\ Len(r) = 1 /\ r[1] = "setAir" BY DEF Steps
    <3> HIDE DEF p, r
    <3>6. p \in Seq(Steps) /\ r \in Seq(Steps) BY <3>1, <3>2
    <3>3. /\ Len(p \o r) = Len(p) + Len(r)
          /\ \A i \in 1 .. Len(p) : (p \o r)[i] = p[i]
          /\ \A i \in 1 .. Len(r) : (p \o r)[Len(p) + i] = r[i]
      BY <3>6, ConcatProperties
    <3>4. Len(p \o r) = 3 BY <3>1, <3>2, <3>3
    <3>5. (p \o r)[1] = p[1] /\ (p \o r)[2] = p[2] /\ (p \o r)[2 + 1] = r[1]
      BY <3>1, <3>2, <3>3
    <3> QED BY <3>2, <3>4, <3>5 DEF p, r, SwitchToAir
  <2> HIDE DEF q
  <2>2. NextTo(q, 1) = "releaseAir" /\ NextTo(q, 2) = "setAir" /\ NextTo(q, 3) = "end"
    BY <2>1 DEF NextTo
  <2>3. \A i \in 1 .. Len(q) : i = 1 \/ i = 2 \/ i = 3 BY <2>1
  <2>4. \A i \in 1 .. Len(q) : Follows(q[i], NextTo(q, i), l, b)
    BY <1>5, <2>1, <2>2, <2>3 DEF Follows
  <2>5. \A i \in 1 .. Len(q) : q[i] \in Closing => \A j \in i + 1 .. Len(q) : q[j] \in Whole
    BY <1>5, <2>1, <2>3
  <2> QED BY <2>4, <2>5 DEF Leads, q
<1>10. Leads(InitNetwork, "ch", b)
  <2> DEFINE q == InitNetwork
  <2>1. /\ Len(q) = 5 /\ q[1] = "holdAir" /\ q[2] = "resetCh" /\ q[3] = "releaseCh" /\ q[4] = "check"
        /\ q[5] = "configure"
    BY DEF InitNetwork
  <2> HIDE DEF q
  <2>2. /\ NextTo(q, 1) = "resetCh" /\ NextTo(q, 2) = "releaseCh" /\ NextTo(q, 3) = "check"
        /\ NextTo(q, 4) = "configure" /\ NextTo(q, 5) = "end"
    BY <2>1 DEF NextTo
  <2>3. \A i \in 1 .. Len(q) : i = 1 \/ i = 2 \/ i = 3 \/ i = 4 \/ i = 5 BY <2>1
  <2>4. \A i \in 1 .. Len(q) : Follows(q[i], NextTo(q, i), "ch", b)
    BY <1>5, <2>1, <2>2, <2>3 DEF Follows
  <2>5. \A i \in 1 .. Len(q) : q[i] \in Closing => \A j \in i + 1 .. Len(q) : q[j] \in Whole
    BY <1>5, <2>1, <2>3
  <2> QED BY <2>4, <2>5 DEF Leads, q
<1> QED BY <1>1, <1>3, <1>4, <1>6, <1>7, <1>8, <1>9, <1>10

\* While one thread is at work the other has nothing to do.
LEMMA LeadsOn ==
  ASSUME TypeOK, OneAtWork, NEW t \in Threads, todo[t] # <<>>,
         NEW steps \in Seq(Steps), Then(t, steps),
         Leads(steps \o Tail(todo[t]), link', before'[t]),
         Stands(First(steps \o Tail(todo[t])), link', out')
  PROVE  AllLead'
<1>1. PICK u \in Threads : todo[u] = <<>> BY DEF OneAtWork
<1>2. /\ u # t /\ todo'[u] = <<>> /\ todo'[t] = steps \o Tail(todo[t])
  BY <1>1, ThenTyped
<1>3. \A v \in Threads : v = u \/ v = t BY <1>2 DEF Threads
<1>4. Leads(<<>>, link', before'[u]) BY ListsLead
<1>5. \A v \in Threads : /\ Leads(todo'[v], link', before'[v])
                         /\ todo'[v] # <<>> => Stands(First(todo'[v]), link', out')
  BY <1>2, <1>3, <1>4
<1>6. AtRest' => out' = {link'}
  <2>1. AtRest' => todo'[t] = <<>> BY DEF AtRest
  <2>2. First(<<>>) = "end" /\ "end" \in Closed BY DEF First, Closed
  <2>3. AtRest' => First(steps \o Tail(todo[t])) = "end"
    <3>1. AtRest' => steps \o Tail(todo[t]) = <<>> BY <1>2, <2>1
    <3> HIDE <1>2
    <3> QED BY <2>2, <3>1
  <2> QED BY <2>2, <2>3 DEF Stands
<1> QED BY <1>5, <1>6 DEF AllLead

\* What a thread at work has before it and behind it.
LEMMA LeadsAt ==
  ASSUME TypeOK, AllLead, NEW t \in Threads, todo[t] # <<>>
  PROVE  LET x == Head(todo[t])
             r == Tail(todo[t])
         IN  /\ Stands(x, link, out) /\ r \in Seq(Steps) /\ <<>> \o r = r
             /\ Leads(r, link, before[t]) /\ Follows(x, First(r), link, before[t])
             /\ x \in Closing => \A j \in 1 .. Len(r) : r[j] \in Whole
<1>1. /\ todo[t] \in Seq(Steps) /\ Tail(todo[t]) \in Seq(Steps) /\ Head(todo[t]) = todo[t][1] BY AtIs
<1>2. Leads(todo[t], link, before[t]) /\ Stands(First(todo[t]), link, out) BY DEF AllLead
<1>3. First(todo[t]) = Head(todo[t]) BY <1>1 DEF First
<1>4. <<>> \o Tail(todo[t]) = Tail(todo[t]) BY <1>1, ConcatEmptySeq
<1> QED BY <1>1, <1>2, <1>3, <1>4, LeadsTail

\* A whole step, carried out or replaced by what it consists of.
LEMMA LeadsWhole ==
  ASSUME TypeOK, OneAtWork, AllLead, NEW t \in Threads, todo[t] # <<>>, Head(todo[t]) \in Whole,
         NEW steps \in Seq(Steps), Then(t, steps), UNCHANGED <<link, out>>,
         Leads(steps, link, before'[t]),
         steps = <<>> \/ steps[1] \in Whole \cup {"prepare", "resetCh"}
  PROVE  AllLead'
<1> DEFINE r == Tail(todo[t])
<1>1. Stands(Head(todo[t]), link, out) /\ r \in Seq(Steps) BY LeadsAt
<1>2. \A j \in 1 .. Len(r) : r[j] \in Whole BY LeadsAt DEF Closing
<1>3. out = {link} BY <1>1 DEF Stands, Closed
<1> HIDE DEF r
<1>4. /\ Leads(steps \o r, link, before'[t])
      /\ First(steps \o r) = IF steps = <<>> THEN First(r) ELSE steps[1]
  BY <1>1, <1>2, LeadsJoin
<1>5. First(r) \in Closed BY <1>1, <1>2, WholeLeads
<1>6. First(steps \o r) \in Closed \cup {"prepare", "resetCh"} BY <1>4, <1>5 DEF Closed
<1>7. Stands(First(steps \o r), link, out)
  <2>1. \A x \in Closed \cup {"prepare", "resetCh"} :
          x \notin {"check", "configure", "connect", "restore", "setCh", "setAir"}
    BY DEF Closed, Whole, Modes
  <2> QED BY <1>3, <1>6, <2>1 DEF Stands
<1> QED BY <1>4, <1>7, LeadsOn DEF r

\* The reset lines: what comes next finds the chips as it needs them.
LEMMA LeadsReset ==
  ASSUME TypeOK, OneAtWork, AllLead, out' # Links, NEW t \in Threads,
         \/ Hold(t, "holdAir", "air") \/ Hold(t, "resetCh", "ch")
         \/ Release(t, "releaseCh", "ch") \/ Release(t, "releaseAir", "air")
  PROVE  AllLead'
<1> DEFINE r == Tail(todo[t])
<1> DEFINE x == Head(todo[t])
<1>1. /\ todo[t] # <<>> /\ Then(t, <<>>) /\ link' = link /\ before' = before
      /\ x \in {"holdAir", "resetCh", "releaseCh", "releaseAir"}
      /\ x = "releaseCh" => out' = out \cup {"ch"}
      /\ x = "releaseAir" => out' = out \cup {"air"}
  BY DEF Hold, Release, At, Done, manager
<1>2. /\ r \in Seq(Steps) /\ <<>> \o r = r /\ Leads(r, link, before[t])
      /\ Follows(x, First(r), link, before[t])
  BY <1>1, LeadsAt
<1>3. <<>> \in Seq(Steps) BY ListsTyped
<1>4. Stands(First(r), link, out')
  <2>1. /\ x = "releaseCh" => out' = {"ch"}
        /\ x = "releaseAir" => out' = {"air"}
    BY <1>1 DEF TypeOK, Links
  <2> HIDE DEF r, x
  <2>2. \A y \in {"resetCh", "releaseCh", "releaseAir", "check", "setCh", "setAir"} : y \notin Closed
    BY DEF Closed, Whole, Modes
  <2>3. CASE x = "holdAir"
    <3>1. First(r) \in {"resetCh", "releaseCh"} BY <1>2, <2>3 DEF Follows
    <3> QED BY <2>2, <3>1 DEF Stands
  <2>4. CASE x = "resetCh"
    <3>1. First(r) \in {"releaseCh", "releaseAir"} BY <1>2, <2>4 DEF Follows
    <3> QED BY <2>2, <3>1 DEF Stands
  <2>5. CASE x = "releaseCh"
    <3>1. First(r) \in {"check", "setCh"} BY <1>2, <2>5 DEF Follows
    <3> QED BY <2>1, <2>2, <2>5, <3>1 DEF Stands
  <2>6. CASE x = "releaseAir"
    <3>1. First(r) = "setAir" \/ (First(r) \in Closed /\ link = "air") BY <1>2, <2>6 DEF Follows
    <3>2. \A y \in Closed : y \notin {"check", "configure", "connect", "restore", "setCh", "setAir"}
      BY DEF Closed, Whole, Modes
    <3> QED BY <2>1, <2>2, <2>6, <3>1, <3>2 DEF Stands
  <2> QED BY <1>1, <2>3, <2>4, <2>5, <2>6 DEF x
<1>5. Leads(<<>> \o r, link', before'[t]) /\ Stands(First(<<>> \o r), link', out')
  BY <1>1, <1>2, <1>4
<1> QED BY <1>1, <1>3, <1>5, LeadsOn

\* The wired chip is asked and set up while it is alone, and may be found without.
LEMMA LeadsChip ==
  ASSUME TypeOK, OneAtWork, AllLead, out # Links, NEW t \in Threads,
         Check(t) \/ Configure(t) \/ Prepare(t) \/ Connect(t)
  PROVE  AllLead'
<1> DEFINE r == Tail(todo[t])
<1> DEFINE x == Head(todo[t])
<1>1. /\ todo[t] # <<>> /\ link' = link /\ before' = before /\ out' = out
      /\ x \in {"check", "configure", "prepare", "connect"}
  BY DEF Check, Configure, Prepare, Connect, At, manager, chips
<1>2. /\ r \in Seq(Steps) /\ <<>> \o r = r /\ Leads(r, link, before[t])
      /\ Follows(x, First(r), link, before[t]) /\ Stands(x, link, out)
  BY <1>1, LeadsAt
<1>3. <<>> \in Seq(Steps) /\ InitNetwork \in Seq(Steps) BY ListsTyped
<1>4. \A y \in {"configure", "connect", "restore", "holdAir"} : y \notin Closed
  BY DEF Closed, Whole, Modes
<1>5. ASSUME NEW y, y \in {"configure", "connect", "restore", "holdAir"} \/ (y \in Closed /\ link = "ch"),
             out = {"ch"}
      PROVE  Stands(y, link, out)
  <2>1. y \in Closed => y \notin {"check", "configure", "connect", "restore", "setCh", "setAir"}
    BY DEF Closed, Whole, Modes
  <2> QED BY <1>4, <1>5, <2>1 DEF Stands
<1>6. CASE Then(t, <<>>) /\ out = {"ch"}
  <2>1. First(r) \in {"configure", "connect", "restore", "holdAir"} \/ (First(r) \in Closed /\ link = "ch")
    <3> HIDE DEF r, x
    <3> QED BY <1>1, <1>2 DEF Follows
  <2>2. Stands(First(r), link, out) BY <1>5, <1>6, <2>1
  <2>3. Leads(<<>> \o r, link', before'[t]) /\ Stands(First(<<>> \o r), link', out')
    BY <1>1, <1>2, <2>2
  <2> QED BY <1>1, <1>3, <1>6, <2>3, LeadsOn
<1>7. CASE Then(t, InitNetwork) /\ x = "prepare"
  <2>1. First(r) \in {"connect", "holdAir"}
    <3> HIDE DEF r, x
    <3> QED BY <1>2, <1>7 DEF Follows
  <2>2. Leads(InitNetwork \o r, link, before[t]) /\ First(InitNetwork \o r) = "holdAir"
    BY <1>2, <2>1, LeadsInit
  <2>3. Stands("holdAir", link, out) BY <1>4 DEF Stands
  <2>4. Leads(InitNetwork \o r, link', before'[t]) /\ Stands(First(InitNetwork \o r), link', out')
    BY <1>1, <2>2, <2>3
  <2> QED BY <1>1, <1>3, <1>7, <2>4, LeadsOn
<1>8. CASE Check(t) \/ Configure(t) \/ Connect(t)
  <2>1. Then(t, <<>>) /\ x \in {"check", "configure", "connect"}
    BY <1>8 DEF Check, Configure, Connect, Done, At
  <2>2. out = {"ch"}
    <3> HIDE DEF x
    <3> QED BY <1>2, <2>1 DEF Stands
  <2> QED BY <1>6, <2>1, <2>2
<1>9. CASE Prepare(t)
  <2>1. PICK there \in IF "ch" \in out THEN Answers(t) ELSE {FALSE} :
          Then(t, IF there THEN <<>> ELSE InitNetwork) /\ x = "prepare"
    BY <1>9 DEF Prepare, At
  <2>2. CASE there
    <3>1. "ch" \in out BY <2>1, <2>2
    <3>2. out = {"ch"} BY <3>1 DEF TypeOK, Links
    <3>3. Then(t, <<>>) BY <2>1, <2>2
    <3> QED BY <1>6, <3>2, <3>3
  <2>3. CASE ~there
    <3>1. Then(t, InitNetwork) BY <2>1, <2>3
    <3> QED BY <1>7, <2>1, <3>1
  <2> QED BY <2>2, <2>3
<1> QED BY <1>8, <1>9

\* What a probe has found is restored, and a selected link is alone when it is set.
LEMMA LeadsClosing ==
  ASSUME TypeOK, OneAtWork, AllLead, NEW t \in Threads,
         Restore(t) \/ SetLink(t, "setCh", "ch") \/ SetLink(t, "setAir", "air")
  PROVE  AllLead'
<1> DEFINE r == Tail(todo[t])
<1> DEFINE x == Head(todo[t])
<1>1. /\ todo[t] # <<>> /\ before' = before /\ out' = out /\ x \in {"restore", "setCh", "setAir"}
  BY DEF Restore, SetLink, At, chips
<1>2. /\ r \in Seq(Steps) /\ <<>> \o r = r /\ Leads(r, link, before[t])
      /\ Follows(x, First(r), link, before[t]) /\ Stands(x, link, out)
      /\ \A j \in 1 .. Len(r) : r[j] \in Whole
  BY <1>1, LeadsAt DEF Closing
<1>3. <<>> \in Seq(Steps) /\ SwitchToAir \in Seq(Steps) BY ListsTyped
<1>4. First(r) \in Closed /\ \A l : Leads(r, l, before[t]) BY <1>2, WholeLeads
<1>5. \A y \in Closed : y \notin {"check", "configure", "connect", "restore", "setCh", "setAir"}
  BY DEF Closed, Whole, Modes
<1>6. CASE Restore(t)
  <2>1. /\ x = "restore" /\ link' = link
        /\ Then(t, IF before[t] = "air" THEN SwitchToAir ELSE <<>>)
    BY <1>6 DEF Restore, At, manager
  <2>2. before[t] = link /\ out = {"ch"}
    <3> HIDE DEF r, x
    <3> QED BY <1>2, <2>1 DEF Follows, Stands
  <2>3. CASE before[t] = "air"
    <3>1. Then(t, SwitchToAir) /\ link = "air" BY <2>1, <2>2, <2>3
    <3>2. Leads(SwitchToAir, link, before[t]) BY <3>1, ListsLead
    <3>3. /\ Leads(SwitchToAir \o r, link, before[t])
          /\ First(SwitchToAir \o r) = IF SwitchToAir = <<>> THEN First(r) ELSE SwitchToAir[1]
      BY <1>2, <1>3, <3>2, LeadsJoin
    <3>4. First(SwitchToAir \o r) = "resetCh"
      <4>1. SwitchToAir # <<>> /\ SwitchToAir[1] = "resetCh" BY DEF SwitchToAir
      <4> QED BY <3>3, <4>1
    <3>5. Stands("resetCh", link, out) BY DEF Stands, Closed, Whole, Modes
    <3>6. Leads(SwitchToAir \o r, link', before'[t]) /\ Stands(First(SwitchToAir \o r), link', out')
      BY <1>1, <2>1, <3>3, <3>4, <3>5
    <3> QED BY <1>1, <1>3, <3>1, <3>6, LeadsOn
  <2>4. CASE before[t] # "air"
    <3>1. Then(t, <<>>) /\ link = "ch" BY <2>1, <2>2, <2>4 DEF TypeOK, Links
    <3>2. Stands(First(r), link, out) BY <1>4, <1>5, <2>2, <3>1 DEF Stands
    <3>3. Leads(<<>> \o r, link', before'[t]) /\ Stands(First(<<>> \o r), link', out')
      BY <1>1, <1>2, <2>1, <3>2
    <3> QED BY <1>1, <1>3, <3>1, <3>3, LeadsOn
  <2> QED BY <2>3, <2>4
<1>7. CASE SetLink(t, "setCh", "ch") \/ SetLink(t, "setAir", "air")
  <2>1. Then(t, <<>>) /\ ((x = "setCh" /\ link' = "ch") \/ (x = "setAir" /\ link' = "air"))
    BY <1>7 DEF SetLink, At, Done
  <2>2. out' = {link'}
    <3> HIDE DEF x
    <3> QED BY <1>1, <1>2, <2>1 DEF Stands
  <2>3. Stands(First(r), link', out') BY <1>4, <1>5, <2>2 DEF Stands
  <2>4. Leads(<<>> \o r, link', before'[t]) /\ Stands(First(<<>> \o r), link', out')
    BY <1>1, <1>2, <1>4, <2>3
  <2> QED BY <1>1, <1>3, <2>1, <2>4, LeadsOn
<1> QED BY <1>6, <1>7

\* The functions of the manager, and MQTT's look at its socket, are whole steps.
LEMMA LeadsManage ==
  ASSUME TypeOK, OneAtWork, AllLead, NEW t \in Threads,
         \/ Probe(t) \/ Poll(t) \/ Decide(t) \/ ForceProbe(t) \/ IfOk(t)
         \/ \E m \in Modes : SetMode(t, m)
         \/ SelectLink(t, "selectCh", <<"prepare", "holdAir", "releaseCh", "setCh">>)
         \/ SelectLink(t, "selectAir", SwitchToAir \o <<"setAir">>)
  PROVE  AllLead'
<1>1. /\ todo[t] # <<>> /\ UNCHANGED <<link, out>> /\ Head(todo[t]) \in Whole
  BY DEF Probe, Poll, Decide, ForceProbe, IfOk, SetMode, SelectLink, At, manager, chips, Whole
<1>2. \A s \in {"wired", "poll", "probe", "decide", "selectCh", "selectAir"} : s \in Whole
  BY DEF Whole, Modes
<1>3. ASSUME NEW steps \in {<<>>, <<"probe", "decide">>, <<"selectCh">>, <<"selectAir">>, <<"wired">>},
             Then(t, steps)
      PROVE  AllLead'
  <2>1. Leads(steps, link, before'[t]) BY <1>2, <1>3, ListsLead
  <2>2. steps \in Seq(Steps) BY ListsTyped
  <2>3. steps = <<>> \/ steps[1] \in Whole BY <1>2
  <2> QED BY <1>1, <1>3, <2>1, <2>2, <2>3, LeadsWhole
<1>4. CASE Probe(t)
  <2>1. Then(t, <<"prepare", "connect", "restore">>) /\ before' = [before EXCEPT ![t] = link]
    BY <1>4 DEF Probe
  <2>2. before'[t] = link BY <2>1 DEF TypeOK
  <2>3. Leads(<<"prepare", "connect", "restore">>, link, before'[t]) BY <2>2, ListsLead
  <2>4. <<"prepare", "connect", "restore">> \in Seq(Steps) BY ListsTyped
  <2>5. <<"prepare", "connect", "restore">>[1] = "prepare" OBVIOUS
  <2> QED BY <1>1, <2>1, <2>3, <2>4, <2>5, LeadsWhole
<1>5. CASE Poll(t) \/ Decide(t) \/ ForceProbe(t) \/ IfOk(t) \/ \E m \in Modes : SetMode(t, m)
  <2>1. \E steps \in {<<>>, <<"probe", "decide">>, <<"selectCh">>, <<"selectAir">>, <<"wired">>} :
          Then(t, steps)
    BY <1>5 DEF Poll, Decide, ForceProbe, IfOk, SetMode, Done, Select
  <2> QED BY <1>3, <2>1
<1>6. CASE SelectLink(t, "selectCh", <<"prepare", "holdAir", "releaseCh", "setCh">>)
  <2>1. Then(t, <<"prepare", "holdAir", "releaseCh", "setCh">>) BY <1>6 DEF SelectLink
  <2>2. Leads(<<"prepare", "holdAir", "releaseCh", "setCh">>, link, before'[t]) BY ListsLead
  <2>3. <<"prepare", "holdAir", "releaseCh", "setCh">> \in Seq(Steps) BY ListsTyped
  <2>4. <<"prepare", "holdAir", "releaseCh", "setCh">>[1] = "prepare" OBVIOUS
  <2> QED BY <1>1, <2>1, <2>2, <2>3, <2>4, LeadsWhole
<1>7. CASE SelectLink(t, "selectAir", SwitchToAir \o <<"setAir">>)
  <2> DEFINE steps == SwitchToAir \o <<"setAir">>
  <2>1. Then(t, steps) BY <1>7 DEF SelectLink
  <2>2. Leads(steps, link, before'[t]) BY ListsLead
  <2>3. steps \in Seq(Steps) BY ListsTyped
  <2>4. steps[1] = "resetCh"
    <3>1. SwitchToAir \in Seq(Steps) /\ 1 \in 1 .. Len(SwitchToAir) /\ SwitchToAir[1] = "resetCh"
      BY ListsTyped DEF SwitchToAir
    <3>2. <<"setAir">> \in Seq(Steps) BY DEF Steps
    <3> QED BY <3>1, <3>2, ConcatProperties
  <2> HIDE DEF steps
  <2> QED BY <1>1, <2>1, <2>2, <2>3, <2>4, LeadsWhole
<1> QED BY <1>4, <1>5, <1>6, <1>7

\* Every step of a thread leads on.
LEMMA LeadsStep ==
  ASSUME TypeOK, OneAtWork, AllLead, out # Links, out' # Links, NEW t \in Threads, StepOf(t)
  PROVE  AllLead'
BY LeadsReset, LeadsChip, LeadsClosing, LeadsManage DEF StepOf

\* A pass or a command begins at rest.
LEMMA LeadsBegins ==
  ASSUME TypeOK, AllLead, MainBegins \/ (\E c \in Commands : Command(c))
  PROVE  RestInv'
<1>1. UNCHANGED <<link, out, before>> /\ todo \in [Threads -> Seq(Steps)]
  BY DEF MainBegins, Command, manager, chips, TypeOK
<1>2. \A s \in {"poll", "mqtt", "probe", "force"} : s \in Whole BY DEF Whole
<1>3. Modes \subseteq Whole BY DEF Whole
<1>4. ASSUME NEW t \in Threads, NEW x \in Whole, NEW y \in Whole, AtRest,
             todo' = [todo EXCEPT ![t] = <<x, y>>]
      PROVE  AllLead'
  <2>1. todo'[t] = <<x, y>> /\ \A u \in Threads : u # t => todo'[u] = <<>> BY <1>1, <1>4 DEF AtRest
  <2>2. Leads(<<x, y>>, link, before[t]) /\ \A u \in Threads : Leads(<<>>, link, before[u]) BY ListsLead
  <2>3. out = {link} BY <1>4 DEF AllLead
  <2>4. First(<<x, y>>) = x BY DEF First
  <2>5. Stands(x, link, out) BY <2>3 DEF Stands, Whole, Modes
  <2>6. \A u \in Threads : /\ Leads(todo'[u], link', before'[u])
                           /\ todo'[u] # <<>> => Stands(First(todo'[u]), link', out')
    BY <1>1, <2>1, <2>2, <2>4, <2>5
  <2>7. ~AtRest' BY <2>1 DEF AtRest
  <2> QED BY <2>6, <2>7 DEF AllLead
<1>5. "main" \in Threads /\ "shell" \in Threads /\ \A t \in Threads : t = "main" \/ t = "shell"
  BY DEF Threads
<1>6. CASE MainBegins
  <2>1. /\ todo["main"] = <<>> /\ todo' = [todo EXCEPT !["main"] = <<"poll", "mqtt">>]
        /\ raced' = (raced \/ todo["shell"] # <<>>)
    BY <1>6 DEF MainBegins
  <2>2. CASE todo["shell"] # <<>> BY <2>1, <2>2 DEF RestInv
  <2>3. CASE todo["shell"] = <<>>
    <3>1. AtRest BY <1>5, <2>1, <2>3 DEF AtRest
    <3> QED BY <1>2, <1>4, <1>5, <2>1, <3>1 DEF RestInv
  <2> QED BY <2>2, <2>3
<1>7. ASSUME NEW c \in Commands, Command(c) PROVE RestInv'
  <2>1. AtRest /\ direct' = (direct \/ c \in {"setup", "init", "modem"}) BY <1>7 DEF Command, AtRest
  <2>2. CASE c \in {"setup", "init", "modem"} BY <2>1, <2>2 DEF RestInv
  <2>3. CASE c \in Modes
    <3>1. c \notin {"probe", "setup", "init", "modem"} BY <2>3 DEF Modes
    <3>2. todo' = [todo EXCEPT !["shell"] = <<c, "poll">>] BY <1>7, <2>3, <3>1 DEF Command
    <3> QED BY <1>2, <1>3, <1>4, <1>5, <2>1, <2>3, <3>2 DEF RestInv
  <2>4. CASE c = "probe"
    <3>1. c \notin Modes BY <2>4 DEF Modes
    <3>2. todo' = [todo EXCEPT !["shell"] = <<"probe", "force">>] BY <1>7, <2>4, <3>1 DEF Command
    <3> QED BY <1>2, <1>4, <1>5, <2>1, <3>2 DEF RestInv
  <2> QED BY <2>2, <2>3, <2>4, ConstantsAssumption
<1> QED BY <1>6, <1>7

\* Whatever is done, what every thread has still to do leads to the active link alone.
LEMMA RestInvStep ==
  ASSUME TypeOK, BusInv, RestInv, [Next]_vars
  PROVE  RestInv'
<1>1. ASSUME UNCHANGED <<todo, link, before, out, raced, direct>> PROVE RestInv'
  BY <1>1 DEF RestInv, AllLead, AtRest
<1>2. CASE UNCHANGED vars BY <1>1, <1>2 DEF vars, manager, threads, chips, bounds
<1>3. CASE Look \/ Timer \/ Register \/ Fault
  BY <1>1, <1>3 DEF Look, Timer, Register, Fault, manager, threads, chips, bounds
<1>4. CASE MainBegins \/ \E c \in Commands : Command(c)
  <2>1. ASSUME MainBegins PROVE (raced => raced') /\ (direct => direct')
    BY <2>1 DEF MainBegins
  <2>2. ASSUME NEW c \in Commands, Command(c) PROVE (raced => raced') /\ (direct => direct')
    BY <2>2 DEF Command
  <2>3. (raced => raced') /\ (direct => direct') BY <1>4, <2>1, <2>2
  <2> QED BY <1>4, <2>3, LeadsBegins DEF RestInv
<1>5. ASSUME NEW t \in Threads, StepOf(t) PROVE RestInv'
  <2>1. UNCHANGED <<raced, direct>>
    BY <1>5 DEF StepOf, Hold, Release, Check, Configure, Prepare, Probe, Connect, Restore, Poll, Decide,
                SelectLink, SetLink, SetMode, ForceProbe, IfOk, bounds
  <2>2. BusInv' BY BusInvStep
  <2>3. CASE raced \/ direct BY <2>1, <2>3 DEF RestInv
  <2>4. CASE ~raced /\ ~direct
    <3>1. OneAtWork /\ out # Links /\ out' # Links /\ AllLead
      BY <2>1, <2>2, <2>4 DEF BusInv, RestInv
    <3> QED BY <1>5, <3>1, LeadsStep DEF RestInv
  <2> QED BY <2>3, <2>4
<1>6. CASE MqttKeeps \/ MqttReopens
  <2>1. /\ todo["main"] # <<>> /\ Head(todo["main"]) = "mqtt" /\ Then("main", <<>>)
        /\ UNCHANGED <<raced, direct>> /\ UNCHANGED <<link, out>> /\ "main" \in Threads
    BY <1>6 DEF MqttKeeps, MqttReopens, At, Done, manager, chips, bounds, Threads
  <2>2. "mqtt" \in Whole /\ <<>> \in Seq(Steps) BY ListsTyped DEF Whole
  <2>3. Leads(<<>>, link, before'["main"]) BY ListsLead
  <2>4. OneAtWork /\ AllLead => AllLead' BY <2>1, <2>2, <2>3, LeadsWhole
  <2> QED BY <2>1, <2>4 DEF RestInv, BusInv
<1> QED BY <1>2, <1>3, <1>4, <1>5, <1>6 DEF Next

\* The boot leads to the wired chip, or to the 4G module if that is the mode.
LEMMA RestInit ==
  ASSUME Init
  PROVE  RestInv
<1> DEFINE first == IF BootMode = "4g" THEN <<>> ELSE InitNetwork
<1> DEFINE second == Select(BootMode)
<1> DEFINE third == <<"poll">>
<1>1. /\ todo = [t \in Threads |-> IF t = "shell" THEN <<>> ELSE (first \o second) \o third]
      /\ link = "ch" /\ before = [t \in Threads |-> "ch"] /\ out = {"ch"}
  BY DEF Init
<1>2. first \in Seq(Steps) /\ Leads(first, "ch", "ch") /\ (first = <<>> \/ first[1] = "holdAir")
  <2>1. InitNetwork[1] = "holdAir" BY DEF InitNetwork
  <2> QED BY <2>1, ListsTyped, ListsLead
<1>3. second \in Seq(Steps) /\ \A j \in 1 .. Len(second) : second[j] \in Whole
  <2>1. second \in {<<>>, <<"selectCh">>, <<"selectAir">>} BY DEF Select
  <2>2. "selectCh" \in Whole /\ "selectAir" \in Whole BY DEF Whole
  <2> QED BY <2>1, <2>2, ListsTyped
<1>4. third \in Seq(Steps) /\ \A j \in 1 .. Len(third) : third[j] \in Whole
  BY ListsTyped DEF Whole
<1> HIDE DEF first, second, third
<1>5. /\ Leads(first \o second, "ch", "ch") /\ first \o second \in Seq(Steps)
      /\ First(first \o second) = IF first = <<>> THEN First(second) ELSE first[1]
  BY <1>2, <1>3, LeadsJoin, ConcatProperties
<1>6. /\ Leads((first \o second) \o third, "ch", "ch")
      /\ First((first \o second) \o third)
           = IF first \o second = <<>> THEN First(third) ELSE (first \o second)[1]
  BY <1>4, <1>5, LeadsJoin
<1>7. First((first \o second) \o third) \in Closed \cup {"holdAir"}
  <2>1. First(second) \in Closed /\ First(third) \in Closed BY <1>3, <1>4, WholeLeads
  <2>2. First(first \o second) \in Closed \cup {"holdAir"} BY <1>2, <1>5, <2>1
  <2>3. first \o second # <<>> => (first \o second)[1] = First(first \o second) BY DEF First
  <2> QED BY <1>6, <2>1, <2>2, <2>3
<1>8. Stands(First((first \o second) \o third), "ch", {"ch"})
  <2>1. \A y \in Closed : y \notin {"check", "configure", "connect", "restore", "setCh", "setAir"}
    BY DEF Closed, Whole, Modes
  <2> QED BY <1>7, <2>1 DEF Stands
<1>9. Leads(<<>>, "ch", "ch") BY ListsLead
<1>10. \A t \in Threads : /\ Leads(todo[t], link, before[t])
                          /\ todo[t] # <<>> => Stands(First(todo[t]), link, out)
  BY <1>1, <1>6, <1>8, <1>9
<1> QED BY <1>1, <1>10 DEF RestInv, AllLead

-----------------------------------------------------------------------------
(* Theorems.                                                               *)

\* The network manager's variables keep their types; a chip in reset has lost its set-up
\* and its connections.
THEOREM TypeCorrect == Spec => []TypeOK
<1>1. Init => TypeOK BY InitTyped
<1>2. TypeOK /\ [Next]_vars => TypeOK' BY TypeStep
<1> QED BY <1>1, <1>2, PTL DEF Spec

\* Until a pass of the main thread has come in the middle of a command of the shell, or a
\* command has reset a chip on its own, the wired chip and the 4G module are never out of
\* reset together: the UART they share has one driver.
THEOREM NeverTogether == Spec => []OneChipOnBus
<1>1. Init => BusInv BY BusInit
<1>2. TypeOK /\ BusInv /\ [Next]_vars => BusInv' BY BusInvStep
<1>3. BusInv => OneChipOnBus BY DEF BusInv, OneChipOnBus
<1> QED BY <1>1, <1>2, <1>3, TypeCorrect, PTL DEF Spec

\* Until a pass of the main thread has come in the middle of a command of the shell, or a
\* command has reset a chip on its own, whenever both threads are at rest the active
\* link's chip is out of reset and the other one is in it: a probe restores what it found,
\* and no failure on the way leaves the manager with the wrong chip on the UART.
THEOREM RestsIsolated == Spec => []RestIsolated
<1>1. Init => RestInv BY RestInit
<1>2. TypeOK /\ BusInv /\ RestInv /\ [Next]_vars => RestInv' BY RestInvStep
<1>3. RestInv => RestIsolated BY DEF RestInv, AllLead, RestIsolated
<1>4. Init => BusInv BY BusInit
<1>5. TypeOK /\ BusInv /\ [Next]_vars => BusInv' BY BusInvStep
<1> QED BY <1>1, <1>2, <1>3, <1>4, <1>5, TypeCorrect, PTL DEF Spec
=============================================================================
