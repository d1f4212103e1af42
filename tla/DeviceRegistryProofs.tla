-------------------------- MODULE DeviceRegistryProofs --------------------------
(***************************************************************************)
(* Proofs about DeviceRegistry, for any number of kinds of device, reads,  *)
(* slave addresses, and any length of the clock.                           *)
(***************************************************************************)
EXTENDS DeviceRegistry, TLAPS

\* Who is where: the bus belongs to the thread that waits for its reply, and a thread
\* that polls no entry has made no reads.
Placed ==
  \A t \in Threads :
    /\ at[t] = "wait" <=> bus = t
    /\ ~InPoll(t) => read[t] = <<>>

-----------------------------------------------------------------------------
\* Types.

\* A wiped entry has measurements of the right number, read from nowhere.
LEMMA BlankTyped ==
  ASSUME NEW s \in Kinds
  PROVE  Blank(s) \in Seq(Address) /\ Len(Blank(s)) = Reads[s] /\ Reads[s] \in Nat \ {0}
<1>1. Reads[s] \in Nat \ {0} BY ConstantsAssumption DEF Kinds
<1>2. Blank(s) \in [1 .. Reads[s] -> Address] BY DEF Blank, Address
<1> QED BY <1>1, <1>2

\* The first kind is one.
LEMMA FirstKind == 1 \in Kinds
<1>1. Len(Reads) \in Nat /\ Reads # <<>> /\ Kinds = 1 .. Len(Reads) BY ConstantsAssumption DEF Kinds
<1>2. Len(Reads) # 0 BY <1>1, ConstantsAssumption
<1> QED BY <1>1, <1>2

\* Registering anew keeps the registry typed.
LEMMA AnewTyped ==
  ASSUME TypeOK, NEW new \in [Kinds -> Address], NEW S \in SUBSET Kinds, Anew(new, S)
  PROVE  /\ addr' \in [Kinds -> Address] /\ online' \in [Kinds -> BOOLEAN]
         /\ part' \in [Kinds -> Seq(Address)] /\ \A s \in Kinds : Len(part'[s]) = Reads[s]
         /\ mixed' \subseteq Kinds /\ changed' \in [Threads -> BOOLEAN]
<1>1. addr' \in [Kinds -> Address] BY DEF Anew, TypeOK
<1>2. online' \in [Kinds -> BOOLEAN] BY DEF Anew, TypeOK
<1>3. \A s \in Kinds : part'[s] = IF s \in S THEN Blank(s) ELSE part[s] BY DEF Anew
<1>4. \A s \in Kinds : part'[s] \in Seq(Address) /\ Len(part'[s]) = Reads[s]
  BY <1>3, BlankTyped DEF TypeOK
<1>5. part' \in [Kinds -> Seq(Address)] BY <1>4 DEF Anew
<1>6. mixed' \subseteq Kinds BY DEF Anew, TypeOK
<1>7. changed' \in [Threads -> BOOLEAN]
  <2>1. \A t \in Threads : (changed[t] \/ (InPoll(t) /\ kind[t] \in S)) \in BOOLEAN OBVIOUS
  <2> QED BY <2>1 DEF Anew
<1> QED BY <1>1, <1>2, <1>4, <1>5, <1>6, <1>7

\* Going on with the next kind, or none.
LEMMA AdvanceTyped ==
  ASSUME TypeOK, NEW t \in Threads, NEW l \in Position, Advance(t, kind[t], l)
  PROVE  /\ at' \in [Threads -> Position] /\ kind' \in [Threads -> Kinds]
         /\ at'[t] \in {l, "idle"} /\ \A u \in Threads \ {t} : at'[u] = at[u] /\ kind'[u] = kind[u]
BY FirstKind DEF TypeOK, Advance, Goto, Position

\* A store adds to an entry's measurements or completes them, within their number.
LEMMA StoreTyped ==
  ASSUME TypeOK, NEW t \in Threads, Store(t)
  PROVE  /\ part' \in [Kinds -> Seq(Address)] /\ \A s \in Kinds : Len(part'[s]) = Reads[s]
         /\ online' \in [Kinds -> BOOLEAN] /\ mixed' \subseteq Kinds
         /\ read' \in [Threads -> Seq(Address)] /\ \A u \in Threads : Len(read'[u]) < Reads[kind'[u]]
         /\ at' \in [Threads -> Position] /\ kind' \in [Threads -> Kinds]
         /\ arg' \in [Threads -> Address] /\ changed' \in [Threads -> BOOLEAN]
<1> DEFINE s == kind[t]
           x == IF s \in Direct THEN 0 ELSE arg[t]
           got == Append(read[t], x)
           i == Len(got)
<1>1. s \in Kinds /\ arg[t] \in Address /\ x \in Address BY DEF TypeOK, Address
<1>2. read[t] \in Seq(Address) /\ Len(read[t]) < Reads[s] BY DEF TypeOK
<1>3. Reads[s] \in Nat \ {0} BY <1>1, BlankTyped
<1>4. got \in Seq(Address) /\ i = Len(read[t]) + 1 BY <1>1, <1>2
<1>5. i \in 1 .. Reads[s] BY <1>2, <1>3, <1>4
<1>6. part' \in [Kinds -> Seq(Address)] /\ \A k \in Kinds : Len(part'[k]) = Reads[k]
  <2>1. CASE s \in Direct
    <3>1. part' = [part EXCEPT ![s] = [part[s] EXCEPT ![i] = arg[t]]] BY <2>1 DEF Store
    <3>2. part[s] \in Seq(Address) /\ Len(part[s]) = Reads[s] BY <1>1 DEF TypeOK
    <3>3. [part[s] EXCEPT ![i] = arg[t]] \in Seq(Address) /\ Len([part[s] EXCEPT ![i] = arg[t]]) = Reads[s]
      BY <1>1, <1>5, <3>2
    <3> HIDE DEF s, x, got, i
    <3> QED BY <1>1, <3>1, <3>3 DEF TypeOK
  <2>2. CASE s \notin Direct /\ Last(s, i)
    <3>1. part' = [part EXCEPT ![s] = got] BY <2>2 DEF Store
    <3>2. Len(got) = Reads[s] BY <2>2 DEF Last
    <3> HIDE DEF s, x, got
    <3> QED BY <1>1, <1>4, <3>1, <3>2 DEF TypeOK
  <2>3. CASE s \notin Direct /\ ~Last(s, i) BY <2>3 DEF Store, TypeOK
  <2> QED BY <2>1, <2>2, <2>3
<1>7. mixed' \subseteq Kinds BY <1>1 DEF Store, Mixes, TypeOK
<1>8. arg' \in [Threads -> Address] BY DEF Store, TypeOK, Address
<1>9. CASE Last(s, i)
  <2>1. online' = [online EXCEPT ![s] = TRUE] /\ Advance(t, s, "next")
        /\ read' = [read EXCEPT ![t] = <<>>] /\ changed' = [changed EXCEPT ![t] = FALSE]
    BY <1>9 DEF Store, Done
  <2>2. at' \in [Threads -> Position] /\ kind' \in [Threads -> Kinds]
        /\ \A u \in Threads \ {t} : kind'[u] = kind[u]
    BY <2>1, AdvanceTyped DEF Position
  <2>3. read' \in [Threads -> Seq(Address)] /\ read'[t] = <<>>
        /\ \A u \in Threads \ {t} : read'[u] = read[u]
    BY <2>1 DEF TypeOK
  <2>4. Len(read'[t]) < Reads[kind'[t]]
    <3>1. kind'[t] \in Kinds BY <2>2
    <3>2. Reads[kind'[t]] \in Nat \ {0} BY <3>1, BlankTyped
    <3> QED BY <2>3, <3>2
  <2>5. \A u \in Threads : Len(read'[u]) < Reads[kind'[u]] BY <2>2, <2>3, <2>4 DEF TypeOK
  <2> QED BY <1>6, <1>7, <1>8, <2>1, <2>2, <2>3, <2>5 DEF TypeOK
<1>10. CASE ~Last(s, i)
  <2>1. at' = [at EXCEPT ![t] = "call"] /\ read' = [read EXCEPT ![t] = got]
        /\ online' = online /\ kind' = kind /\ changed' = changed
    BY <1>10 DEF Store, Goto
  <2>2. Len(got) < Reads[s] BY <1>3, <1>5, <1>10 DEF Last
  <2> HIDE DEF x, got, i
  <2>3. read' \in [Threads -> Seq(Address)] /\ \A u \in Threads : Len(read'[u]) < Reads[kind'[u]]
    BY <1>4, <2>1, <2>2 DEF TypeOK
  <2>4. at' \in [Threads -> Position] BY <2>1 DEF TypeOK, Position
  <2> QED BY <1>6, <1>7, <1>8, <2>1, <2>3, <2>4 DEF TypeOK
<1> QED BY <1>9, <1>10

\* A thread that has made no reads may turn to any kind.
LEMMA OtherKindTyped ==
  ASSUME TypeOK, NEW t \in Threads, read[t] = <<>>, kind' \in [Threads -> Kinds],
         \A u \in Threads \ {t} : kind'[u] = kind[u]
  PROVE  \A u \in Threads : Len(read[u]) < Reads[kind'[u]]
<1>1. kind'[t] \in Kinds OBVIOUS
<1>2. Reads[kind'[t]] \in Nat \ {0} BY <1>1, BlankTyped
<1>3. Len(read[t]) < Reads[kind'[t]] BY <1>2
<1> QED BY <1>3 DEF TypeOK

\* A message of the platform keeps the types and the places.
LEMMA DownlinkTyped ==
  ASSUME TypeOK, Placed, NEW t \in Threads, Downlink(t)
  PROVE  TypeOK' /\ Placed'
<1>1. ASSUME NEW m \in [Kinds -> Address], RegisterInfo(t, m) PROVE TypeOK' /\ Placed'
  <2> DEFINE new == [s \in Kinds |-> IF m[s] # 0 /\ Allows(s, m[s]) THEN m[s] ELSE 0]
  <2>1. new \in [Kinds -> Address] BY DEF Address
  <2>2. Anew(new, Kinds) /\ registered' = Counts(new) BY <1>1 DEF RegisterInfo
  <2>3. Counts(new) \in BOOLEAN BY DEF Counts
  <2> HIDE DEF new
  <2>4. UNCHANGED <<table, at, kind, arg, read, bus, since>> /\ loose' = {} /\ excused' = FALSE
        /\ quiet' = 0
    BY <1>1 DEF RegisterInfo
  <2>5. TypeOK' BY <2>1, <2>2, <2>3, <2>4, AnewTyped DEF TypeOK
  <2>6. Placed' BY <2>4 DEF Placed, InPoll
  <2> QED BY <2>5, <2>6
<1>2. CASE RegisterInfoInvalid(t)
  BY <1>2 DEF RegisterInfoInvalid, TypeOK, Placed, InPoll, registry, thread
<1>3. CASE UpdateResponse(t)
  <2>1. excused' \in BOOLEAN BY <1>3 DEF UpdateResponse, NoDevice
  <2> QED BY <1>3, <2>1 DEF UpdateResponse, TypeOK, Placed, InPoll, registry, thread
<1> QED BY <1>1, <1>2, <1>3 DEF Downlink

\* The shell and a script's reset of the configuration keep them.
LEMMA ShellTyped ==
  ASSUME TypeOK, Placed, Shell
  PROVE  TypeOK' /\ Placed'
<1> DEFINE zero == [s \in Kinds |-> 0]
<1>z. zero \in [Kinds -> Address] BY DEF Address
<1>d. "debug" \in Threads BY DEF Threads
<1>k. kind["debug"] \in Kinds /\ arg["debug"] \in Address BY <1>d DEF TypeOK
<1>1. CASE ShellPoll
  <2>1. at' = [at EXCEPT !["debug"] = "next"] /\ kind' = [kind EXCEPT !["debug"] = 1]
        /\ at["debug"] = "idle"
        /\ UNCHANGED <<registry, table, arg, read, changed, bus, asking, loose, excused>>
    BY <1>1 DEF ShellPoll, ShellIdle, Goto, Busy
  <2>2. read["debug"] = <<>> BY <1>d, <2>1 DEF Placed, InPoll
  <2>3. \A t \in Threads : Len(read[t]) < Reads[kind'[t]]
    BY <1>d, <2>1, <2>2, FirstKind, BlankTyped DEF TypeOK
  <2>4. TypeOK' BY <2>1, <2>3, FirstKind DEF TypeOK, Position, registry, asking
  <2>5. Placed' BY <1>d, <2>1 DEF Placed, InPoll, TypeOK
  <2> QED BY <2>4, <2>5
<1>2. CASE ShellClear
  <2>1. Anew(zero, Kinds) /\ at' = [at EXCEPT !["debug"] = "clear"] /\ at["debug"] = "idle"
        /\ excused' = TRUE /\ quiet' = 0
        /\ UNCHANGED <<table, kind, arg, read, bus, registered, since, loose>>
    BY <1>2 DEF ShellClear, ShellIdle, Goto, Busy
  <2> HIDE DEF zero
  <2>2. TypeOK' BY <1>z, <2>1, AnewTyped DEF TypeOK, Position
  <2>3. Placed' BY <1>d, <2>1 DEF Placed, InPoll, TypeOK
  <2> QED BY <2>2, <2>3
<1>3. CASE ShellClearTable
  <2>1. at' = [at EXCEPT !["debug"] = "idle"] /\ at["debug"] = "clear" /\ table' = zero
        /\ UNCHANGED <<registry, kind, arg, read, changed, bus, asking, loose, excused>>
    BY <1>3 DEF ShellClearTable, ShellAt, Goto
  <2> HIDE DEF zero
  <2>2. TypeOK' BY <1>z, <2>1 DEF TypeOK, Position, registry, asking
  <2>3. Placed' BY <1>d, <2>1 DEF Placed, InPoll, TypeOK
  <2> QED BY <2>2, <2>3
<1>4. CASE ShellAddTable
  <2> DEFINE s == kind["debug"]
  <2>1. at' = [at EXCEPT !["debug"] = "idle"] /\ at["debug"] = "add"
        /\ kind' = [kind EXCEPT !["debug"] = 1] /\ arg' = [arg EXCEPT !["debug"] = 0]
        /\ table' = [table EXCEPT ![s] = arg["debug"]]
        /\ UNCHANGED <<registry, read, changed, bus, asking, excused>>
    BY <1>4 DEF ShellAddTable, ShellAt, Goto
  <2>2. loose' \subseteq Kinds BY <1>4, <1>k DEF ShellAddTable, TypeOK
  <2>3. read["debug"] = <<>> BY <1>d, <2>1 DEF Placed, InPoll
  <2>4. \A t \in Threads : Len(read[t]) < Reads[kind'[t]]
    BY <1>d, <2>1, <2>3, FirstKind, BlankTyped DEF TypeOK
  <2>5. TypeOK' BY <1>k, <2>1, <2>2, <2>4, FirstKind DEF TypeOK, Position, Address, registry, asking
  <2>6. Placed' BY <1>d, <2>1 DEF Placed, InPoll, TypeOK
  <2> QED BY <2>5, <2>6
<1>5. ASSUME NEW s \in Kinds, NEW a \in Addrs, ShellAdd(s, a) PROVE TypeOK' /\ Placed'
  <2> DEFINE new == [k \in Kinds |-> a]
  <2>1. new \in [Kinds -> Address] /\ a \in Address BY DEF Address
  <2>2. Anew(new, {s}) /\ at' = [at EXCEPT !["debug"] = "add"] /\ at["debug"] = "idle"
        /\ kind' = [kind EXCEPT !["debug"] = s] /\ arg' = [arg EXCEPT !["debug"] = a]
        /\ loose' = loose \cup {s} /\ excused' = FALSE
        /\ UNCHANGED <<table, read, bus, asking>>
    BY <1>5 DEF ShellAdd, ShellIdle, Goto, Busy
  <2> HIDE DEF new
  <2>3. read["debug"] = <<>> BY <1>d, <2>2 DEF Placed, InPoll
  <2>4. \A t \in Threads : Len(read[t]) < Reads[kind'[t]]
    BY <1>d, <2>2, <2>3, BlankTyped DEF TypeOK
  <2>5. TypeOK' BY <2>1, <2>2, <2>4, AnewTyped DEF TypeOK, Position, asking
  <2>6. Placed' BY <1>d, <2>2 DEF Placed, InPoll, TypeOK
  <2> QED BY <2>5, <2>6
<1>6. CASE ShellLoad
  <2>1. at' = [at EXCEPT !["debug"] = "load"] /\ at["debug"] = "idle" /\ loose' = Kinds
        /\ table' \in [Kinds -> Address]
        /\ UNCHANGED <<registry, kind, arg, read, changed, bus, asking, excused>>
    BY <1>6 DEF ShellLoad, ShellIdle, Goto, Busy
  <2>2. TypeOK' BY <2>1 DEF TypeOK, Position, registry, asking
  <2>3. Placed' BY <1>d, <2>1 DEF Placed, InPoll, TypeOK
  <2> QED BY <2>2, <2>3
<1>7. CASE ShellLoadClear
  <2>1. Anew(zero, Kinds) /\ at' = [at EXCEPT !["debug"] = "apply"] /\ at["debug"] = "load"
        /\ kind' = [kind EXCEPT !["debug"] = 1] /\ loose' = {} /\ excused' = TRUE /\ quiet' = 0
        /\ UNCHANGED <<table, arg, read, bus, registered, since>>
    BY <1>7 DEF ShellLoadClear, ShellAt, Goto
  <2> HIDE DEF zero
  <2>2. read["debug"] = <<>> BY <1>d, <2>1 DEF Placed, InPoll
  <2>3. \A t \in Threads : Len(read[t]) < Reads[kind'[t]]
    BY <1>d, <2>1, <2>2, FirstKind, BlankTyped DEF TypeOK
  <2>4. TypeOK' BY <1>z, <2>1, <2>3, FirstKind, AnewTyped DEF TypeOK, Position
  <2>5. Placed' BY <1>d, <2>1 DEF Placed, InPoll, TypeOK
  <2> QED BY <2>4, <2>5
<1>8. CASE ShellLoadDevice
  <2> DEFINE s == kind["debug"]
  <2>1. at["debug"] = "apply" /\ Advance("debug", s, "apply")
        /\ UNCHANGED <<table, arg, read, bus, asking, loose>>
    BY <1>8 DEF ShellLoadDevice, ShellAt
  <2>2. at' \in [Threads -> Position] /\ kind' \in [Threads -> Kinds]
        /\ at'["debug"] \in {"apply", "idle"}
        /\ \A u \in Threads \ {"debug"} : at'[u] = at[u] /\ kind'[u] = kind[u]
    BY <1>d, <2>1, AdvanceTyped DEF Position
  <2>3. read["debug"] = <<>> BY <1>d, <2>1 DEF Placed, InPoll
  <2>4. \A t \in Threads : Len(read[t]) < Reads[kind'[t]] BY <1>d, <2>2, <2>3, OtherKindTyped
  <2>5. /\ addr' \in [Kinds -> Address] /\ online' \in [Kinds -> BOOLEAN]
        /\ part' \in [Kinds -> Seq(Address)] /\ \A k \in Kinds : Len(part'[k]) = Reads[k]
        /\ mixed' \subseteq Kinds /\ changed' \in [Threads -> BOOLEAN] /\ excused' \in BOOLEAN
    <3>1. CASE table[s] # 0
      <4>1. Anew(table, {s}) /\ excused' = FALSE BY <1>8, <3>1 DEF ShellLoadDevice
      <4>2. table \in [Kinds -> Address] /\ {s} \in SUBSET Kinds BY <1>k DEF TypeOK
      <4> QED BY <4>1, <4>2, AnewTyped
    <3>2. CASE table[s] = 0 BY <1>8, <3>2 DEF ShellLoadDevice, TypeOK, registry
    <3> QED BY <3>1, <3>2
  <2>6. TypeOK' BY <2>1, <2>2, <2>4, <2>5 DEF TypeOK, asking
  <2>7. Placed' BY <1>d, <2>1, <2>2 DEF Placed, InPoll, TypeOK
  <2> QED BY <2>6, <2>7
<1>9. CASE TableReset
  <2>1. table' = zero /\ UNCHANGED <<registry, thread, bus, asking, loose, excused>>
    BY <1>9 DEF TableReset
  <2> HIDE DEF zero
  <2> QED BY <1>z, <2>1 DEF TypeOK, Placed, InPoll, registry, thread, asking
<1> QED BY <1>1, <1>2, <1>3, <1>4, <1>5, <1>6, <1>7, <1>8, <1>9 DEF Shell

\* Polling keeps them.
LEMMA PollTyped ==
  ASSUME TypeOK, Placed, NEW t \in Threads, Poll(t)
  PROVE  TypeOK' /\ Placed'
<1>k. kind[t] \in Kinds /\ t # None BY DEF TypeOK, Threads, None
<1>1. CASE Look(t)
  <2>1. at[t] = "next" /\ UNCHANGED <<registry, table, arg, read, changed, bus, asking, loose, excused>>
    BY <1>1 DEF Look
  <2>2. /\ at' \in [Threads -> Position] /\ kind' \in [Threads -> Kinds]
        /\ at'[t] \in {"next", "call", "idle"}
        /\ \A u \in Threads \ {t} : at'[u] = at[u] /\ kind'[u] = kind[u]
    <3>1. CASE addr[kind[t]] = 0
      <4>1. Advance(t, kind[t], "next") BY <1>1, <3>1 DEF Look
      <4> QED BY <4>1, AdvanceTyped DEF Position
    <3>2. CASE addr[kind[t]] # 0
      <4>1. at' = [at EXCEPT ![t] = "call"] /\ kind' = kind BY <1>1, <3>2 DEF Look, Goto
      <4> QED BY <4>1 DEF TypeOK, Position
    <3> QED BY <3>1, <3>2
  <2>3. read[t] = <<>> BY <2>1 DEF Placed, InPoll
  <2>4. \A u \in Threads : Len(read[u]) < Reads[kind'[u]] BY <2>2, <2>3, OtherKindTyped
  <2>5. TypeOK' BY <2>1, <2>2, <2>4 DEF TypeOK, registry, asking
  <2>6. Placed' BY <2>1, <2>2, <2>3 DEF Placed, InPoll
  <2> QED BY <2>5, <2>6
<1>2. CASE Call(t)
  <2>1. at[t] = "call" /\ bus = None /\ bus' = t /\ at' = [at EXCEPT ![t] = "wait"]
        /\ arg' = [arg EXCEPT ![t] = addr[kind[t]]]
        /\ UNCHANGED <<registry, table, kind, read, changed, asking, loose, excused>>
    BY <1>2 DEF Call, Goto
  <2>2. TypeOK' BY <1>k, <2>1 DEF TypeOK, Position, registry, asking
  <2>3. Placed'
    <3>1. at'[t] = "wait" /\ \A u \in Threads \ {t} : at'[u] = at[u] BY <2>1 DEF TypeOK
    <3>2. \A u \in Threads : u # None BY DEF Threads, None
    <3> QED BY <2>1, <3>1, <3>2 DEF Placed, InPoll
  <2> QED BY <2>2, <2>3
<1>3. CASE Reply(t)
  <2>1. at[t] = "wait" /\ bus' = None
        /\ UNCHANGED <<registry, table, kind, read, changed, asking, loose, excused>>
    BY <1>3 DEF Reply
  <2>2. arg' \in [Threads -> Address]
    <3>1. arg' = arg \/ arg' = [arg EXCEPT ![t] = 0] BY <1>3 DEF Reply
    <3> QED BY <3>1 DEF TypeOK, Address
  <2>3. at' = [at EXCEPT ![t] = "failed"] \/ at' = [at EXCEPT ![t] = "got"]
    BY <1>3 DEF Reply, Goto
  <2>4. TypeOK' BY <2>1, <2>2, <2>3 DEF TypeOK, Position, registry, asking
  <2>5. bus = t BY <2>1 DEF Placed
  <2>6. Placed'
    <3>1. at'[t] \in {"failed", "got"} /\ \A u \in Threads \ {t} : at'[u] = at[u]
      BY <2>3 DEF TypeOK
    <3>2. \A u \in Threads : u # None BY DEF Threads, None
    <3> QED BY <2>1, <2>5, <3>1, <3>2 DEF Placed, InPoll
  <2> QED BY <2>4, <2>6
<1>4. CASE Store(t)
  <2>1. at[t] = "got" /\ UNCHANGED <<addr, table, bus, asking, loose, excused>> BY <1>4 DEF Store
  <2>2. TypeOK' BY <1>4, <2>1, StoreTyped DEF TypeOK, asking
  <2>3. \/ at'[t] = "call"
        \/ at'[t] \in {"next", "idle"} /\ read'[t] = <<>>
    BY <1>4 DEF Store, Done, Advance, Goto, TypeOK
  <2>4. \A u \in Threads \ {t} : at'[u] = at[u] /\ read'[u] = read[u]
    BY <1>4 DEF Store, Done, Advance, Goto, TypeOK
  <2>5. Placed' BY <2>1, <2>3, <2>4 DEF Placed, InPoll
  <2> QED BY <2>2, <2>5
<1>5. CASE Fail(t)
  <2>1. at[t] = "failed" /\ online' = [online EXCEPT ![kind[t]] = FALSE]
        /\ Advance(t, kind[t], "next") /\ read' = [read EXCEPT ![t] = <<>>]
        /\ changed' = [changed EXCEPT ![t] = FALSE]
        /\ UNCHANGED <<addr, part, mixed, table, arg, bus, asking, loose, excused>>
    BY <1>5 DEF Fail, Done
  <2>2. /\ at' \in [Threads -> Position] /\ kind' \in [Threads -> Kinds]
        /\ at'[t] \in {"next", "idle"}
        /\ \A u \in Threads \ {t} : at'[u] = at[u] /\ kind'[u] = kind[u]
    BY <2>1, AdvanceTyped DEF Position
  <2>3. read' \in [Threads -> Seq(Address)] /\ read'[t] = <<>>
        /\ \A u \in Threads \ {t} : read'[u] = read[u]
    BY <2>1 DEF TypeOK
  <2>4. \A u \in Threads : Len(read'[u]) < Reads[kind'[u]]
    <3>1. kind'[t] \in Kinds BY <2>2
    <3>2. Len(read'[t]) < Reads[kind'[t]] BY <2>3, <3>1, BlankTyped
    <3> QED BY <2>2, <2>3, <3>2 DEF TypeOK
  <2>5. TypeOK' BY <2>1, <2>2, <2>3, <2>4 DEF TypeOK, asking
  <2>6. Placed' BY <2>1, <2>2, <2>3 DEF Placed, InPoll
  <2> QED BY <2>5, <2>6
<1> QED BY <1>1, <1>2, <1>3, <1>4, <1>5 DEF Poll

\* A command and a pass of the main thread keep them.
LEMMA PassTyped ==
  ASSUME TypeOK, Placed, Command \/ \E ready \in BOOLEAN : Pass(ready)
  PROVE  TypeOK' /\ Placed'
<1>c. Clock \in Nat \ {0} /\ Offset \in 0 .. Clock - 1 /\ MaxPass \in Nat BY ConstantsAssumption
<1>1. CASE Command
  <2>1. at["mqtt_rx"] = "idle" /\ at' = [at EXCEPT !["mqtt_rx"] = "next"]
        /\ kind' = [kind EXCEPT !["mqtt_rx"] = 1]
        /\ UNCHANGED <<registry, table, arg, read, changed, bus, asking, loose, excused>>
    BY <1>1 DEF Command, Busy, Goto
  <2>2. "mqtt_rx" \in Threads BY DEF Threads
  <2>3. read["mqtt_rx"] = <<>> BY <2>1, <2>2 DEF Placed, InPoll
  <2>4. kind' \in [Threads -> Kinds] BY <2>1, FirstKind DEF TypeOK
  <2>5. \A u \in Threads : Len(read[u]) < Reads[kind'[u]]
    BY <2>1, <2>2, <2>3, <2>4, OtherKindTyped DEF TypeOK
  <2>6. TypeOK' BY <2>1, <2>4, <2>5 DEF TypeOK, Position, registry, asking
  <2>7. Placed' BY <2>1, <2>2 DEF Placed, InPoll, TypeOK
  <2> QED BY <2>6, <2>7
<1>2. ASSUME NEW ready \in BOOLEAN, Pass(ready) PROVE TypeOK' /\ Placed'
  <2>1. at["main"] = "idle"
        /\ UNCHANGED <<registry, table, arg, read, changed, bus, registered, loose, excused>>
    BY <1>2 DEF Pass, Busy
  <2>2. \/ at' = [at EXCEPT !["main"] = "next"] /\ kind' = [kind EXCEPT !["main"] = 1]
        \/ UNCHANGED <<at, kind>>
    BY <1>2 DEF Pass, Goto
  <2>3. "main" \in Threads BY DEF Threads
  <2>4. read["main"] = <<>> BY <2>1, <2>3 DEF Placed, InPoll
  <2>5. kind' \in [Threads -> Kinds] /\ \A u \in Threads \ {"main"} : kind'[u] = kind[u]
    BY <2>2, FirstKind DEF TypeOK
  <2>6. \A u \in Threads : Len(read[u]) < Reads[kind'[u]] BY <2>3, <2>4, <2>5, OtherKindTyped
  <2>7. since' \in 0 .. Clock /\ quiet' \in Nat
    <3>1. PICK d \in 1 .. MaxPass :
            LET now == IF since = Never THEN Never ELSE (since + d) % Clock
                asks == ready /\ ~registered /\ Due(now)
            IN  /\ \/ asks /\ Asked
                   \/ since' = now
                /\ quiet' = IF asks \/ ~ready \/ ~NoDevice \/ excused THEN 0 ELSE quiet + d
      BY <1>2 DEF Pass
    <3>2. quiet' \in Nat BY <1>c, <3>1 DEF TypeOK
    <3>3. since \in Nat /\ d \in Nat BY <1>c DEF TypeOK
    <3>4. (since + d) % Clock \in 0 .. Clock /\ (Clock - Offset) % Clock \in 0 .. Clock
      BY <1>c, <3>3
    <3>5. since' \in {(since + d) % Clock, (Clock - Offset) % Clock, Never}
      BY <3>1 DEF Asked
    <3> QED BY <1>c, <3>2, <3>4, <3>5 DEF Never
  <2>8. TypeOK' BY <2>1, <2>2, <2>5, <2>6, <2>7 DEF TypeOK, Position, registry
  <2>9. Placed' BY <2>1, <2>2, <2>3 DEF Placed, InPoll, TypeOK
  <2> QED BY <2>8, <2>9
<1> QED BY <1>1, <1>2

\* At boot nothing is polled.
LEMMA InitTyped ==
  ASSUME Init
  PROVE  TypeOK /\ Placed
<1>1. part \in [Kinds -> Seq(Address)] /\ \A s \in Kinds : Len(part[s]) = Reads[s]
  BY BlankTyped DEF Init
<1>2. \A t \in Threads : read[t] = <<>> /\ kind[t] = 1 BY DEF Init
<1>3. \A t \in Threads : Len(read[t]) < Reads[kind[t]] BY <1>2, FirstKind, BlankTyped
<1>4. Never \in 0 .. Clock BY ConstantsAssumption DEF Never
<1>5. addr \in [Kinds -> Address] /\ table \in [Kinds -> Address] BY DEF Init
<1>6. online \in [Kinds -> BOOLEAN] /\ mixed \subseteq Kinds /\ loose \subseteq Kinds
      /\ excused \in BOOLEAN /\ registered \in BOOLEAN /\ quiet \in Nat
  BY DEF Init
<1>7. at \in [Threads -> Position] /\ kind \in [Threads -> Kinds] /\ arg \in [Threads -> Address]
      /\ changed \in [Threads -> BOOLEAN] /\ bus \in Threads \cup {None}
  BY FirstKind DEF Init, Position, Address
<1>8. read \in [Threads -> Seq(Address)] BY DEF Init
<1>9. since \in 0 .. Clock BY <1>4 DEF Init
<1>10. TypeOK BY <1>1, <1>3, <1>5, <1>6, <1>7, <1>8, <1>9 DEF TypeOK
<1>11. Placed BY <1>2 DEF Init, Placed, Threads, None
<1> QED BY <1>10, <1>11

\* Both are inductive.
LEMMA TypedStep ==
  ASSUME TypeOK, Placed, [Next]_vars
  PROVE  TypeOK' /\ Placed'
<1>1. CASE UNCHANGED vars
  BY <1>1 DEF vars, registry, thread, asking, TypeOK, Placed, InPoll
<1>2. CASE Next BY <1>2, DownlinkTyped, PollTyped, ShellTyped, PassTyped DEF Next
<1> QED BY <1>1, <1>2

\* The registry, the table and the threads keep their types: a poll makes no more
\* reads than its kind has, and stores no more measurements.
THEOREM TypeCorrect == Spec => []TypeOK
<1>1. Init => TypeOK /\ Placed BY InitTyped
<1>2. TypeOK /\ Placed /\ [Next]_vars => TypeOK' /\ Placed' BY TypedStep
<1> QED BY <1>1, <1>2, PTL DEF Spec

-----------------------------------------------------------------------------
\* The saved device table.

Saved == \E k \in Kinds : table[k] # 0

\* The steps that leave addresses, table and excuses alone.
Elsewhere == UNCHANGED <<addr, table, loose>>

\* Polling and most messages are such steps.
LEMMA OthersElsewhere ==
  ASSUME \/ UNCHANGED vars
         \/ \E t \in Threads : Poll(t) \/ RegisterInfoInvalid(t) \/ UpdateResponse(t)
         \/ Command \/ ShellPoll
         \/ \E ready \in BOOLEAN : Pass(ready)
  PROVE  Elsewhere
<1>1. ASSUME NEW t \in Threads, Poll(t) PROVE Elsewhere
  BY <1>1 DEF Poll, Look, Call, Reply, Store, Fail, Elsewhere, registry
<1>2. ASSUME NEW t \in Threads, RegisterInfoInvalid(t) \/ UpdateResponse(t) PROVE Elsewhere
  BY <1>2 DEF RegisterInfoInvalid, UpdateResponse, Elsewhere, registry
<1>3. CASE UNCHANGED vars BY <1>3 DEF Elsewhere, vars, registry
<1>4. CASE Command \/ ShellPoll BY <1>4 DEF Command, ShellPoll, Elsewhere, registry
<1>5. ASSUME NEW ready \in BOOLEAN, Pass(ready) PROVE Elsewhere
  BY <1>5 DEF Pass, Elsewhere, registry
<1> QED BY <1>1, <1>2, <1>3, <1>4, <1>5

\* A registerInfo registers what the table allows.
LEMMA RegisterInfoAllowed ==
  ASSUME TypeOK, NEW t \in Threads, NEW m \in [Kinds -> Address], RegisterInfo(t, m)
  PROVE  OnlyAllowed'
<1> DEFINE new == [s \in Kinds |-> IF m[s] # 0 /\ Allows(s, m[s]) THEN m[s] ELSE 0]
<1>1. \A s \in Kinds : addr'[s] = new[s] BY DEF RegisterInfo, Anew
<1>2. table' = table BY DEF RegisterInfo
<1>3. ASSUME Saved, NEW s \in Kinds PROVE new[s] \in {0, table[s]} BY <1>3 DEF Allows, Saved
<1> QED BY <1>1, <1>2, <1>3 DEF OnlyAllowed, Saved

\* The shell's edits leave behind only the entries they name.
LEMMA ShellAllowed ==
  ASSUME TypeOK, OnlyAllowed, Shell, ~ShellPoll
  PROVE  OnlyAllowed'
<1> DEFINE zero == [s \in Kinds |-> 0]
<1>d. "debug" \in Threads BY DEF Threads
<1>k. kind["debug"] \in Kinds BY <1>d DEF TypeOK
<1>1. CASE ShellClear
  <2>1. \A s \in Kinds : addr'[s] = 0 BY <1>1 DEF ShellClear, Anew
  <2> QED BY <2>1 DEF OnlyAllowed
<1>2. CASE ShellClearTable \/ TableReset
  <2>1. \A s \in Kinds : table'[s] = 0 BY <1>2 DEF ShellClearTable, TableReset
  <2> QED BY <2>1 DEF OnlyAllowed
<1>3. CASE ShellAddTable
  <2> DEFINE s == kind["debug"]
             a == arg["debug"]
  <2>1. addr' = addr /\ table' = [table EXCEPT ![s] = a] BY <1>3 DEF ShellAddTable, registry
  <2>2. loose' = (IF addr[s] = a THEN loose \ {s} ELSE loose \cup {s}) \cup
                 (IF Saved THEN {} ELSE Kinds \ {s})
    BY <1>3 DEF ShellAddTable, Saved
  <2>3. table'[s] = a /\ \A k \in Kinds \ {s} : table'[k] = table[k] BY <1>k, <2>1 DEF TypeOK
  <2> HIDE DEF s, a
  <2>4. ASSUME NEW k \in Kinds \ loose' PROVE addr'[k] \in {0, table'[k]}
    <3>1. CASE k = s BY <2>1, <2>2, <2>3, <2>4, <3>1
    <3>2. CASE k # s
      <4>1. Saved /\ k \notin loose BY <2>2, <2>4, <3>2
      <4> QED BY <2>1, <2>3, <2>4, <3>2, <4>1 DEF OnlyAllowed, Saved
    <3> QED BY <3>1, <3>2
  <2> QED BY <2>4 DEF OnlyAllowed
<1>4. ASSUME NEW s \in Kinds, NEW a \in Addrs, ShellAdd(s, a) PROVE OnlyAllowed'
  <2>1. \A k \in Kinds \ {s} : addr'[k] = addr[k] BY <1>4 DEF ShellAdd, Anew
  <2>2. table' = table /\ loose' = loose \cup {s} BY <1>4 DEF ShellAdd
  <2> QED BY <2>1, <2>2 DEF OnlyAllowed
<1>5. CASE ShellLoad BY <1>5 DEF ShellLoad, OnlyAllowed
<1>6. CASE ShellLoadClear
  <2>1. \A s \in Kinds : addr'[s] = 0 BY <1>6 DEF ShellLoadClear, Anew
  <2> QED BY <2>1 DEF OnlyAllowed
<1>7. CASE ShellLoadDevice
  <2> DEFINE s == kind["debug"]
  <2>1. table' = table /\ loose' = loose BY <1>7 DEF ShellLoadDevice
  <2>2. CASE table[s] # 0
    <3>1. Anew(table, {s}) BY <1>7, <2>2 DEF ShellLoadDevice
    <3>2. \A k \in Kinds : addr'[k] = IF k = s THEN table[k] ELSE addr[k] BY <3>1 DEF Anew
    <3> QED BY <2>1, <3>2 DEF OnlyAllowed
  <2>3. CASE table[s] = 0
    <3>1. addr' = addr BY <1>7, <2>3 DEF ShellLoadDevice, registry
    <3> QED BY <2>1, <3>1 DEF OnlyAllowed
  <2> QED BY <2>2, <2>3
<1> QED BY <1>1, <1>2, <1>3, <1>4, <1>5, <1>6, <1>7 DEF Shell

\* Whoever registers devices, and in whatever order the shell's edits and the
\* platform's messages interleave, a device outside a saved table is polled only
\* where the shell itself has changed the table since.
THEOREM TableDecides == Spec => []OnlyAllowed
<1>1. Init => OnlyAllowed BY DEF Init, OnlyAllowed
<1>2. TypeOK /\ OnlyAllowed /\ [Next]_vars => OnlyAllowed'
  <2> SUFFICES ASSUME TypeOK, OnlyAllowed, [Next]_vars PROVE OnlyAllowed' OBVIOUS
  <2>1. CASE Elsewhere BY <2>1 DEF Elsewhere, OnlyAllowed
  <2>2. ASSUME NEW t \in Threads, NEW m \in [Kinds -> Address], RegisterInfo(t, m) PROVE OnlyAllowed'
    BY <2>2, RegisterInfoAllowed
  <2>3. CASE Shell /\ ~ShellPoll BY <2>3, ShellAllowed
  <2> QED BY <2>1, <2>2, <2>3, OthersElsewhere DEF Next, Downlink
<1> QED BY <1>1, <1>2, TypeCorrect, PTL DEF Spec

-----------------------------------------------------------------------------
\* Asking for the devices.

\* A collector that believes to be registered has devices or an excuse.
Believes == registered /\ NoDevice => excused

\* While it has waited it has not been time to ask.
Waiting == quiet > 0 => since \in 0 .. Interval - 1 /\ quiet <= since + MaxPass

\* A clock that does not wrap.
LEMMA NoWrap ==
  ASSUME NEW x \in Nat, x < Clock
  PROVE  x % Clock = x
BY ConstantsAssumption

\* A pass either asks or lets time pass.
LEMMA PassWaits ==
  ASSUME TypeOK, Believes, Waiting, NEW ready \in BOOLEAN, Pass(ready)
  PROVE  Waiting'
<1>c. /\ Clock \in Nat \ {0} /\ Offset \in 0 .. Clock - 1 /\ Interval \in Nat
      /\ MaxPass \in Nat /\ Offset + Interval + MaxPass < Clock
  BY ConstantsAssumption
<1>1. PICK d \in 1 .. MaxPass :
        LET now == IF since = Never THEN Never ELSE (since + d) % Clock
            asks == ready /\ ~registered /\ Due(now)
        IN  /\ \/ asks /\ Asked
               \/ since' = now
            /\ quiet' = IF asks \/ ~ready \/ ~NoDevice \/ excused THEN 0 ELSE quiet + d
  BY DEF Pass
<1> DEFINE now == IF since = Never THEN Never ELSE (since + d) % Clock
           asks == ready /\ ~registered /\ Due(now)
<1>2. SUFFICES ASSUME ~(asks \/ ~ready \/ ~NoDevice \/ excused) PROVE Waiting'
  BY <1>1 DEF Waiting
<1>3. since' = now /\ quiet' = quiet + d BY <1>1, <1>2
<1>4. ~Due(now) BY <1>2 DEF Believes
<1>5. now # Never /\ ~(now >= Interval) BY <1>4 DEF Due
<1>6. since # Never /\ now = (since + d) % Clock BY <1>5
<1>7. since \in 0 .. Clock - 1 /\ d \in Nat /\ d <= MaxPass BY <1>6, <1>c DEF TypeOK, Never
<1>8. (since + d) % Clock \in 0 .. Clock - 1 BY <1>c, <1>7
<1>9. now \in 0 .. Interval - 1 BY <1>c, <1>5, <1>6, <1>8
<1>10. CASE quiet = 0 BY <1>3, <1>7, <1>9, <1>10, <1>c DEF Waiting
<1>11. CASE quiet > 0
  <2>1. since + d \in Nat /\ since + d < Clock BY <1>7, <1>11, <1>c DEF Waiting
  <2>2. now = since + d BY <1>6, <2>1, NoWrap
  <2>3. quiet <= since + MaxPass /\ quiet \in Nat BY <1>11 DEF Waiting, TypeOK
  <2>4. since' = since + d /\ since' \in 0 .. Interval - 1 BY <1>3, <1>9, <2>2
  <2>5. quiet + d <= since + d + MaxPass BY <1>c, <1>7, <2>3
  <2> QED BY <1>3, <2>4, <2>5 DEF Waiting
<1> QED BY <1>10, <1>11 DEF TypeOK

\* Every other step keeps the time or starts it again.
LEMMA OthersWait ==
  ASSUME Waiting, \/ UNCHANGED vars \/ Command \/ Shell
                  \/ \E t \in Threads : Downlink(t) \/ Poll(t)
  PROVE  Waiting'
<1>1. (quiet' = 0) \/ (UNCHANGED <<since, quiet>>)
  BY DEF vars, asking, Command, Shell, ShellPoll, ShellClear, ShellClearTable, ShellAdd,
         ShellAddTable, ShellLoad, ShellLoadClear, ShellLoadDevice, TableReset, Downlink,
         RegisterInfo, RegisterInfoInvalid, UpdateResponse, Poll, Look, Call, Reply, Store, Fail
<1> QED BY <1>1 DEF Waiting

\* What changes the registry changes the excuse with it.
LEMMA BelievesStep ==
  ASSUME TypeOK, Believes, [Next]_vars
  PROVE  Believes'
<1>1. CASE UNCHANGED <<addr, registered, excused>> BY <1>1 DEF Believes, NoDevice
<1>2. ASSUME NEW t \in Threads, NEW m \in [Kinds -> Address], RegisterInfo(t, m) PROVE Believes'
  <2> DEFINE new == [s \in Kinds |-> IF m[s] # 0 /\ Allows(s, m[s]) THEN m[s] ELSE 0]
  <2>1. registered' = Counts(new) BY <1>2 DEF RegisterInfo
  <2>2. \A s \in Kinds : addr'[s] = new[s] BY <1>2 DEF RegisterInfo, Anew
  <2> HIDE DEF new
  <2> QED BY <2>1, <2>2 DEF Believes, Counts, NoDevice
<1>3. ASSUME NEW t \in Threads, RegisterInfoInvalid(t) \/ UpdateResponse(t) PROVE Believes'
  BY <1>3 DEF RegisterInfoInvalid, UpdateResponse, Believes, NoDevice, registry
<1>4. CASE ShellClear \/ ShellLoadClear
  BY <1>4 DEF ShellClear, ShellLoadClear, Believes
<1>5. ASSUME NEW s \in Kinds, NEW a \in Addrs, ShellAdd(s, a) PROVE Believes'
  <2>1. addr'[s] = a /\ a # 0 BY <1>5, ConstantsAssumption DEF ShellAdd, Anew
  <2> QED BY <2>1 DEF Believes, NoDevice
<1>6. CASE ShellLoadDevice
  <2> DEFINE s == kind["debug"]
  <2>1. s \in Kinds BY DEF TypeOK, Threads
  <2>2. CASE table[s] # 0
    <3>1. Anew(table, {s}) BY <1>6, <2>2 DEF ShellLoadDevice
    <3>2. addr'[s] # 0 BY <2>1, <2>2, <3>1 DEF Anew
    <3> QED BY <2>1, <3>2 DEF Believes, NoDevice
  <2>3. CASE table[s] = 0
    <3>1. UNCHANGED <<addr, registered, excused>>
      BY <1>6, <2>3 DEF ShellLoadDevice, registry, asking
    <3> QED BY <1>1, <3>1
  <2> QED BY <2>2, <2>3
<1>7. ASSUME NEW t \in Threads, Poll(t) PROVE UNCHANGED <<addr, registered, excused>>
  BY <1>7 DEF Poll, Look, Call, Reply, Store, Fail, registry, asking
<1>8. ASSUME Command \/ ShellPoll \/ ShellClearTable \/ ShellAddTable \/ ShellLoad \/ TableReset
      PROVE  UNCHANGED <<addr, registered, excused>>
  BY <1>8 DEF Command, ShellPoll, ShellClearTable, ShellAddTable, ShellLoad, TableReset,
              registry, asking
<1>9. ASSUME NEW ready \in BOOLEAN, Pass(ready) PROVE UNCHANGED <<addr, registered, excused>>
  BY <1>9 DEF Pass, registry
<1>10. CASE UNCHANGED vars BY <1>1, <1>10 DEF vars, registry, asking
<1> QED BY <1>1, <1>2, <1>3, <1>4, <1>5, <1>6, <1>7, <1>8, <1>9, <1>10 DEF Next, Downlink, Shell

\* For every offset of the two clocks, and wherever they wrap, a collector without
\* devices goes on asking for them, with no longer a pause than the interval and a pass.
THEOREM AsksOn == Spec => []KeepsAsking
<1>1. Init => Believes /\ Waiting BY DEF Init, Believes, Waiting
<1>2. TypeOK /\ Believes /\ Waiting /\ [Next]_vars => Believes' /\ Waiting'
  BY BelievesStep, PassWaits, OthersWait DEF Next
<1>3. TypeOK /\ Waiting => KeepsAsking
  <2> SUFFICES ASSUME TypeOK, Waiting PROVE KeepsAsking OBVIOUS
  <2>1. Interval \in Nat /\ MaxPass \in Nat BY ConstantsAssumption
  <2>2. quiet \in Nat BY DEF TypeOK
  <2>3. CASE quiet = 0 BY <2>1, <2>3 DEF KeepsAsking
  <2>4. CASE quiet > 0 BY <2>1, <2>2, <2>4 DEF Waiting, KeepsAsking
  <2> QED BY <2>2, <2>3, <2>4
<1> QED BY <1>1, <1>2, <1>3, TypeCorrect, PTL DEF Spec

-----------------------------------------------------------------------------
\* What the entries hold.

\* A poll that has made a read or is making one.
Begun(t) == at[t] \in {"wait", "got", "failed"} \/ (at[t] = "call" /\ read[t] # <<>>)

Same(t) == at'[t] = at[t] /\ kind'[t] = kind[t] /\ arg'[t] = arg[t] /\ read'[t] = read[t]

\* A poll whose entry has not been registered anew has read from its slave only, and
\* nobody else has overwritten that.
Own ==
  \A t \in Threads : InPoll(t) /\ ~changed[t] =>
    /\ at[t] \in {"wait", "got"} => arg[t] = addr[kind[t]]
    /\ \A i \in 1 .. Len(read[t]) :
         (IF kind[t] \in Direct THEN part[kind[t]][i] ELSE read[t][i]) = addr[kind[t]]

\* A poll of an entry registered anew in the middle of it has been preempted by any
\* other that has begun since.
Below ==
  \A t, u \in Threads :
    InPoll(u) /\ changed[u] /\ InPoll(t) /\ ~changed[t] /\ Begun(t) /\ kind[t] = kind[u]
      => Rank[u] < Rank[t]

\* Only a poll in progress may have lost its entry.
Fresh == \A t \in Threads : changed[t] => InPoll(t)

Held == Fresh /\ Own /\ Below /\ OnlineIsRead

\* A thread runs below a busy one only while the latter waits for its bus.
LEMMA Higher ==
  ASSUME Placed, bus \in Threads \cup {None}, NEW t \in Threads, NEW u \in Threads, Runs(t), Busy(u),
         Rank[u] > Rank[t]
  PROVE  bus = t
<1>1. \A v \in Threads : Rank[v] \in Nat BY DEF Threads, Rank
<1>2. u # t BY <1>1
<1>3. SUFFICES ASSUME bus # t PROVE FALSE OBVIOUS
<1>4. Ranks(t) = {t} BY <1>3 DEF Ranks
<1>5. ASSUME NEW w \in Threads, w # t, Busy(w), ~Waits(w), u \in Ranks(w) PROVE FALSE
  <2>1. Above(t, w) BY <1>5 DEF Runs
  <2> QED BY <1>1, <1>4, <1>5, <2>1 DEF Above
<1>6. CASE ~Waits(u) BY <1>2, <1>5, <1>6 DEF Ranks
<1>7. CASE Waits(u)
  <2>1. bus \in Threads /\ bus # u /\ bus # t BY <1>3, <1>7 DEF Waits
  <2>2. at[bus] = "wait" BY <2>1 DEF Placed
  <2>3. Busy(bus) /\ ~Waits(bus) BY <2>2 DEF Busy, Waits
  <2>4. u \in Ranks(bus) BY <1>7 DEF Ranks
  <2> QED BY <1>5, <2>1, <2>3, <2>4
<1> QED BY <1>6, <1>7

\* A step that touches no entry and lets no poll go on.
LEMMA CalmHeld ==
  ASSUME TypeOK, Held, UNCHANGED <<addr, part, online, mixed, changed>>,
         \A t \in Threads : \/ ~InPoll(t) /\ ~InPoll(t)'
                            \/ Same(t)
                            \/ ~InPoll(t) /\ at'[t] = "call" /\ read'[t] = <<>>
  PROVE  Held'
<1>1. Own'
  <2> SUFFICES ASSUME NEW t \in Threads, InPoll(t)', ~changed'[t]
               PROVE  /\ at'[t] \in {"wait", "got"} => arg'[t] = addr'[kind'[t]]
                      /\ \A i \in 1 .. Len(read'[t]) :
                           (IF kind'[t] \in Direct THEN part'[kind'[t]][i] ELSE read'[t][i])
                             = addr'[kind'[t]]
    BY DEF Own
  <2>1. CASE Same(t) BY <2>1 DEF Same, Held, Own, InPoll
  <2>2. CASE at'[t] = "call" /\ read'[t] = <<>> BY <2>2
  <2> QED BY <2>1, <2>2
<1>2. Below'
  <2> SUFFICES ASSUME NEW t \in Threads, NEW u \in Threads, InPoll(u)', changed'[u], InPoll(t)',
                      ~changed'[t], Begun(t)', kind'[t] = kind'[u]
               PROVE  Rank[u] < Rank[t]
    BY DEF Below
  <2>1. Same(t) BY DEF Begun
  <2>2. Same(u) BY DEF Held, Fresh
  <2> QED BY <2>1, <2>2 DEF Same, Held, Below, InPoll, Begun
<1>3. OnlineIsRead' BY DEF Held, OnlineIsRead
<1>4. Fresh' BY DEF Held, Fresh, Same, InPoll
<1> QED BY <1>1, <1>2, <1>3, <1>4 DEF Held

\* A step that registers entries anew, and lets no poll go on.
LEMMA AnewHeld ==
  ASSUME TypeOK, Held, NEW new, NEW S \in SUBSET Kinds, Anew(new, S),
         \A t \in Threads : (~InPoll(t) /\ ~InPoll(t)') \/ Same(t)
  PROVE  Held'
<1>1. \A t \in Threads : changed'[t] = (changed[t] \/ (InPoll(t) /\ kind[t] \in S)) BY DEF Anew
<1>2. \A s \in Kinds \ S : addr'[s] = addr[s] /\ part'[s] = part[s] /\ online'[s] = online[s]
  BY DEF Anew, TypeOK
<1>3. \A s \in S : ~online'[s] BY DEF Anew
<1>4. mixed' = mixed \ S BY DEF Anew
<1>5. Own'
  <2> SUFFICES ASSUME NEW t \in Threads, InPoll(t)', ~changed'[t]
               PROVE  /\ at'[t] \in {"wait", "got"} => arg'[t] = addr'[kind'[t]]
                      /\ \A i \in 1 .. Len(read'[t]) :
                           (IF kind'[t] \in Direct THEN part'[kind'[t]][i] ELSE read'[t][i])
                             = addr'[kind'[t]]
    BY DEF Own
  <2>1. Same(t) OBVIOUS
  <2>2. InPoll(t) BY <2>1 DEF Same, InPoll
  <2>3. ~changed[t] /\ kind[t] \in Kinds \ S BY <1>1, <2>2 DEF TypeOK
  <2> QED BY <1>2, <2>1, <2>2, <2>3 DEF Same, Held, Own
<1>6. Below'
  <2> SUFFICES ASSUME NEW t \in Threads, NEW u \in Threads, InPoll(u)', changed'[u], InPoll(t)',
                      ~changed'[t], Begun(t)', kind'[t] = kind'[u]
               PROVE  Rank[u] < Rank[t]
    BY DEF Below
  <2>1. Same(t) /\ Same(u) OBVIOUS
  <2>2. InPoll(t) /\ InPoll(u) /\ kind[t] = kind[u] /\ Begun(t) BY <2>1 DEF Same, InPoll, Begun
  <2>3. ~changed[t] /\ changed[u] BY <1>1, <2>2
  <2> QED BY <2>2, <2>3 DEF Held, Below
<1>7. OnlineIsRead' BY <1>2, <1>3, <1>4 DEF Held, OnlineIsRead
<1>8. Fresh' BY <1>1 DEF Held, Fresh, Same, InPoll
<1> QED BY <1>5, <1>6, <1>7, <1>8 DEF Held

\* The bus is free when a read takes it, so no higher thread is busy.
LEMMA CallHeld ==
  ASSUME TypeOK, Placed, Held, NEW t \in Threads, Call(t)
  PROVE  Held'
<1>1. at[t] = "call" /\ bus = None /\ at' = [at EXCEPT ![t] = "wait"] /\ Runs(t)
      /\ arg' = [arg EXCEPT ![t] = addr[kind[t]]]
      /\ UNCHANGED <<addr, part, online, mixed, kind, read, changed>>
  BY DEF Call, Goto, registry
<1>2. at'[t] = "wait" /\ arg'[t] = addr[kind[t]] BY <1>1 DEF TypeOK
<1>3. \A u \in Threads \ {t} : at'[u] = at[u] /\ arg'[u] = arg[u] BY <1>1 DEF TypeOK
<1>4. Fresh' BY <1>1, <1>2, <1>3 DEF Held, Fresh, InPoll
<1>5. Own'
  <2> SUFFICES ASSUME NEW u \in Threads, InPoll(u)', ~changed'[u]
               PROVE  /\ at'[u] \in {"wait", "got"} => arg'[u] = addr'[kind'[u]]
                      /\ \A i \in 1 .. Len(read'[u]) :
                           (IF kind'[u] \in Direct THEN part'[kind'[u]][i] ELSE read'[u][i])
                             = addr'[kind'[u]]
    BY DEF Own
  <2>1. CASE u = t BY <1>1, <1>2, <2>1 DEF Held, Own, InPoll
  <2>2. CASE u # t BY <1>1, <1>3, <2>2 DEF Held, Own, InPoll
  <2> QED BY <2>1, <2>2
<1>6. Below'
  <2> SUFFICES ASSUME NEW v \in Threads, NEW u \in Threads, InPoll(u)', changed'[u], InPoll(v)',
                      ~changed'[v], Begun(v)', kind'[v] = kind'[u]
               PROVE  Rank[u] < Rank[v]
    BY DEF Below
  <2>1. InPoll(u) /\ InPoll(v) BY <1>1, <1>2, <1>3 DEF InPoll
  <2>2. CASE v # t BY <1>1, <1>3, <2>1, <2>2 DEF Held, Below, Begun
  <2>3. CASE v = t
    <3>1. u # t /\ Busy(u) BY <1>1, <2>1, <2>3 DEF Busy, InPoll
    <3>2. ~(Rank[u] > Rank[t])
      <4>1. t # None BY DEF Threads, None
      <4> QED BY <1>1, <3>1, <4>1, Higher DEF TypeOK
    <3> QED BY <2>3, <3>1, <3>2 DEF Threads, Rank
  <2> QED BY <2>2, <2>3
<1>7. OnlineIsRead' BY <1>1 DEF Held, OnlineIsRead
<1> QED BY <1>4, <1>5, <1>6, <1>7 DEF Held

\* The end of a read.
LEMMA ReplyHeld ==
  ASSUME TypeOK, Held, NEW t \in Threads, Reply(t)
  PROVE  Held'
<1>1. at[t] = "wait" /\ at' \in {[at EXCEPT ![t] = "failed"], [at EXCEPT ![t] = "got"]}
      /\ UNCHANGED <<addr, part, online, mixed, kind, read, changed>>
  BY DEF Reply, Goto, registry
<1>2. at'[t] \in {"failed", "got"} /\ (at'[t] = "got" => arg'[t] = arg[t]) BY DEF Reply, Goto, TypeOK
<1>3. \A u \in Threads \ {t} : at'[u] = at[u] /\ arg'[u] = arg[u] BY DEF Reply, Goto, TypeOK
<1>4. Fresh' BY <1>1, <1>2, <1>3 DEF Held, Fresh, InPoll
<1>5. Own'
  <2> SUFFICES ASSUME NEW u \in Threads, InPoll(u)', ~changed'[u]
               PROVE  /\ at'[u] \in {"wait", "got"} => arg'[u] = addr'[kind'[u]]
                      /\ \A i \in 1 .. Len(read'[u]) :
                           (IF kind'[u] \in Direct THEN part'[kind'[u]][i] ELSE read'[u][i])
                             = addr'[kind'[u]]
    BY DEF Own
  <2>1. CASE u = t BY <1>1, <1>2, <2>1 DEF Held, Own, InPoll
  <2>2. CASE u # t BY <1>1, <1>3, <2>2 DEF Held, Own, InPoll
  <2> QED BY <2>1, <2>2
<1>6. \A u \in Threads : (InPoll(u)' => InPoll(u)) /\ (Begun(u)' => Begun(u))
  BY <1>1, <1>2, <1>3 DEF InPoll, Begun
<1>7. Below' BY <1>1, <1>6 DEF Held, Below
<1>8. OnlineIsRead' BY <1>1 DEF Held, OnlineIsRead
<1> QED BY <1>4, <1>5, <1>7, <1>8 DEF Held

\* A thread that is done with an entry polls none.
LEMMA DoneLeaves ==
  ASSUME TypeOK, NEW t \in Threads, Done(t, kind[t])
  PROVE  /\ ~InPoll(t)' /\ ~changed'[t]
         /\ \A u \in Threads \ {t} : at'[u] = at[u] /\ kind'[u] = kind[u] /\ read'[u] = read[u]
                                     /\ changed'[u] = changed[u]
<1>1. Advance(t, kind[t], "next") /\ read' = [read EXCEPT ![t] = <<>>]
      /\ changed' = [changed EXCEPT ![t] = FALSE]
  BY DEF Done
<1>2. at'[t] \in {"next", "idle"} /\ \A u \in Threads \ {t} : at'[u] = at[u] /\ kind'[u] = kind[u]
  BY <1>1, AdvanceTyped DEF Position
<1> QED BY <1>1, <1>2 DEF InPoll, TypeOK

\* A failed read takes the entry offline.
LEMMA FailHeld ==
  ASSUME TypeOK, Held, NEW t \in Threads, Fail(t)
  PROVE  Held'
<1>1. Done(t, kind[t]) /\ online' = [online EXCEPT ![kind[t]] = FALSE]
      /\ UNCHANGED <<addr, part, mixed, arg>>
  BY DEF Fail
<1>2. /\ ~InPoll(t)' /\ ~changed'[t]
      /\ \A u \in Threads \ {t} : at'[u] = at[u] /\ kind'[u] = kind[u] /\ read'[u] = read[u]
                                  /\ changed'[u] = changed[u]
  BY <1>1, DoneLeaves
<1>3. \A u \in Threads : InPoll(u)' => u # t /\ InPoll(u) BY <1>2 DEF InPoll
<1>4. \A u \in Threads : InPoll(u)' /\ Begun(u)' => Begun(u) BY <1>2, <1>3 DEF Begun
<1>5. Fresh' BY <1>2 DEF Held, Fresh, InPoll
<1>6. Own' BY <1>1, <1>2, <1>3 DEF Held, Own
<1>7. Below' BY <1>2, <1>3, <1>4 DEF Held, Below
<1>8. OnlineIsRead' BY <1>1 DEF Held, OnlineIsRead, TypeOK
<1> QED BY <1>5, <1>6, <1>7, <1>8 DEF Held

\* Whoever else has begun to poll the entry in its present form is above a thread
\* that still works for its former one, and would have to be done before.
LEMMA AloneIfChanged ==
  ASSUME TypeOK, Placed, Held, NEW t \in Threads, Runs(t), at[t] = "got", changed[t],
         NEW u \in Threads, InPoll(u), ~changed[u], kind[u] = kind[t]
  PROVE  at[u] = "call" /\ read[u] = <<>>
<1>1. SUFFICES ASSUME Begun(u) PROVE FALSE BY DEF Begun, InPoll
<1>2. Rank[t] < Rank[u] BY <1>1 DEF Held, Below, InPoll
<1>3. Busy(u) BY DEF InPoll, Busy
<1>4. bus = t
  <2>1. Rank[u] > Rank[t] BY <1>2 DEF Threads, Rank
  <2>2. bus \in Threads \cup {None} BY DEF TypeOK
  <2> QED BY <1>3, <2>1, <2>2, Higher
<1> QED BY <1>4 DEF Placed

\* What a store does, read by read: the entry s it works on and the reads got by then.
LEMMA StoreDoes ==
  ASSUME TypeOK, NEW t \in Threads, Store(t),
         NEW s, s = kind[t], NEW x, x = IF s \in Direct THEN 0 ELSE arg[t],
         NEW i, i = Len(read[t]) + 1
  PROVE  /\ i \in 1 .. Reads[s] /\ \A k \in Kinds \ {s} : part'[k] = part[k] /\ online'[k] = online[k]
         /\ s \in Direct => \A j \in 1 .. Reads[s] : part'[s][j] = IF j = i THEN arg[t] ELSE part[s][j]
         /\ s \notin Direct /\ i = Reads[s] =>
              \A j \in 1 .. Reads[s] : part'[s][j] = IF j = i THEN x ELSE read[t][j]
         /\ s \notin Direct /\ i # Reads[s] => part'[s] = part[s]
         /\ i # Reads[s] => /\ Len(read'[t]) = i
                            /\ \A j \in 1 .. i : read'[t][j] = IF j = i THEN x ELSE read[t][j]
<1> DEFINE got == Append(read[t], x)
<1>1. s \in Kinds /\ arg[t] \in Address /\ x \in Address BY DEF TypeOK, Address
<1>2. read[t] \in Seq(Address) /\ Len(read[t]) < Reads[s] BY DEF TypeOK
<1>3. Reads[s] \in Nat \ {0} BY <1>1, BlankTyped
<1>4. got \in Seq(Address) /\ Len(got) = i /\ \A j \in 1 .. i : got[j] = IF j = i THEN x ELSE read[t][j]
  BY <1>1, <1>2
<1>5. i \in 1 .. Reads[s] BY <1>2, <1>3
<1>6. /\ IF s \in Direct THEN part' = [part EXCEPT ![s][i] = arg[t]]
         ELSE IF Last(s, i) THEN part' = [part EXCEPT ![s] = got] ELSE part' = part
      /\ IF Last(s, i) THEN online' = [online EXCEPT ![s] = TRUE]
         ELSE read' = [read EXCEPT ![t] = got] /\ online' = online
  BY <1>4 DEF Store
<1> HIDE DEF got
<1>7. \A k \in Kinds \ {s} : part'[k] = part[k] /\ online'[k] = online[k] BY <1>6 DEF TypeOK
<1>8. ASSUME s \in Direct, NEW j \in 1 .. Reads[s]
      PROVE  part'[s][j] = IF j = i THEN arg[t] ELSE part[s][j]
  <2>1. part'[s] = [part[s] EXCEPT ![i] = arg[t]] BY <1>1, <1>6, <1>8 DEF TypeOK
  <2>2. part[s] \in Seq(Address) /\ Len(part[s]) = Reads[s] BY <1>1 DEF TypeOK
  <2>3. j \in DOMAIN part[s] BY <2>2, <1>8
  <2> QED BY <2>1, <2>3
<1>9. ASSUME s \notin Direct, i = Reads[s], NEW j \in 1 .. Reads[s]
      PROVE  part'[s][j] = IF j = i THEN x ELSE read[t][j]
  <2>1. part'[s] = got BY <1>1, <1>6, <1>9 DEF TypeOK, Last
  <2> QED BY <1>4, <1>9, <2>1
<1>10. ASSUME s \notin Direct, i # Reads[s] PROVE part'[s] = part[s] BY <1>6, <1>10 DEF Last
<1>11. ASSUME i # Reads[s]
       PROVE  Len(read'[t]) = i /\ \A j \in 1 .. i : read'[t][j] = IF j = i THEN x ELSE read[t][j]
  <2>1. read'[t] = got BY <1>6, <1>11 DEF TypeOK, Last
  <2> QED BY <1>4, <2>1
<1> QED BY <1>5, <1>7, <1>8, <1>9, <1>10, <1>11

\* Whose state a store leaves alone, and where it leaves its own thread.
LEMMA StoreMoves ==
  ASSUME TypeOK, NEW t \in Threads, Store(t), NEW i, i = Len(read[t]) + 1
  PROVE  /\ \A u \in Threads \ {t} : Same(u) /\ changed'[u] = changed[u]
         /\ i = Reads[kind[t]] => ~InPoll(t)' /\ ~changed'[t] /\ online'[kind[t]]
         /\ i # Reads[kind[t]] => /\ at'[t] = "call" /\ kind'[t] = kind[t]
                                  /\ changed'[t] = changed[t] /\ online' = online
<1> DEFINE s == kind[t]
           got == Append(read[t], IF s \in Direct THEN 0 ELSE arg[t])
<1>1. Len(got) = i /\ s \in Kinds
  <2>1. read[t] \in Seq(Address) /\ s \in Kinds BY DEF TypeOK
  <2> QED BY <2>1
<1>2. /\ IF Last(s, i) THEN online' = [online EXCEPT ![s] = TRUE] /\ Done(t, s)
         ELSE at' = [at EXCEPT ![t] = "call"] /\ read' = [read EXCEPT ![t] = got]
              /\ UNCHANGED <<online, kind, changed>>
      /\ arg' = [arg EXCEPT ![t] = 0]
  BY <1>1 DEF Store, Goto
<1> HIDE DEF got
<1>3. CASE Last(s, i)
  <2>1. online' = [online EXCEPT ![s] = TRUE] /\ Done(t, s) BY <1>2, <1>3
  <2>2. /\ ~InPoll(t)' /\ ~changed'[t]
        /\ \A u \in Threads \ {t} : at'[u] = at[u] /\ kind'[u] = kind[u] /\ read'[u] = read[u]
                                    /\ changed'[u] = changed[u]
    BY <2>1, DoneLeaves
  <2>3. \A u \in Threads \ {t} : arg'[u] = arg[u] BY <1>2 DEF TypeOK
  <2> QED BY <1>1, <1>3, <2>1, <2>2, <2>3 DEF Same, Last, TypeOK
<1>4. CASE ~Last(s, i)
  <2>1. at' = [at EXCEPT ![t] = "call"] /\ read' = [read EXCEPT ![t] = got]
        /\ arg' = [arg EXCEPT ![t] = 0] /\ UNCHANGED <<online, kind, changed>>
    BY <1>2, <1>4
  <2> QED BY <1>4, <2>1 DEF Same, Last, TypeOK
<1> QED BY <1>3, <1>4

\* A store writes the measurements of the entry's own slave, or marks it mixed.
LEMMA StoreHeld ==
  ASSUME TypeOK, Placed, Held, NEW t \in Threads, Store(t)
  PROVE  Held'
<1> DEFINE s == kind[t]
           x == IF s \in Direct THEN 0 ELSE arg[t]
           i == Len(read[t]) + 1
<1>1. at[t] = "got" /\ Runs(t) /\ addr' = addr /\ s \in Kinds /\ InPoll(t)
  BY DEF Store, TypeOK, InPoll
<1>2. /\ i \in 1 .. Reads[s] /\ \A k \in Kinds \ {s} : part'[k] = part[k] /\ online'[k] = online[k]
      /\ s \in Direct => \A j \in 1 .. Reads[s] : part'[s][j] = IF j = i THEN arg[t] ELSE part[s][j]
      /\ s \notin Direct /\ i = Reads[s] =>
           \A j \in 1 .. Reads[s] : part'[s][j] = IF j = i THEN x ELSE read[t][j]
      /\ s \notin Direct /\ i # Reads[s] => part'[s] = part[s]
      /\ i # Reads[s] => /\ Len(read'[t]) = i
                         /\ \A j \in 1 .. i : read'[t][j] = IF j = i THEN x ELSE read[t][j]
  BY StoreDoes
<1>3. /\ \A u \in Threads \ {t} : Same(u) /\ changed'[u] = changed[u]
      /\ i = Reads[s] => ~InPoll(t)' /\ ~changed'[t] /\ online'[s]
      /\ i # Reads[s] => /\ at'[t] = "call" /\ kind'[t] = s
                         /\ changed'[t] = changed[t] /\ online' = online
  BY StoreMoves
<1>4. mixed' = IF changed[t] THEN mixed \cup {s} ELSE IF i = Reads[s] THEN mixed \ {s} ELSE mixed
  <2>1. read[t] \in Seq(Address) BY DEF TypeOK
  <2>2. Len(Append(read[t], x)) = i BY <2>1
  <2>3. Mixes(t, s, Last(s, Len(Append(read[t], x)))) BY DEF Store
  <2> QED BY <2>2, <2>3 DEF Mixes, Last
<1>r. Len(read[t]) = i - 1 /\ i \in Nat /\ Reads[s] \in Nat \ {0} /\ Len(read[t]) \in Nat
  <2>1. read[t] \in Seq(Address) BY DEF TypeOK
  <2> QED BY <1>1, <2>1, BlankTyped
<1>o. ~changed[t] =>
        /\ arg[t] = addr[s]
        /\ \A j \in 1 .. i - 1 : (IF s \in Direct THEN part[s][j] ELSE read[t][j]) = addr[s]
  BY <1>1, <1>r DEF Held, Own
<1> HIDE DEF s, x, i
<1>5. \A u \in Threads : InPoll(u)' => InPoll(u) /\ kind'[u] = kind[u] /\ changed'[u] = changed[u]
  BY <1>1, <1>3 DEF Same, InPoll, s
<1>6. \A u \in Threads : InPoll(u)' /\ Begun(u)' => Begun(u)
  BY <1>1, <1>3 DEF Same, Begun, InPoll
<1>7. Below' BY <1>5, <1>6 DEF Held, Below
<1>8. Fresh' BY <1>1, <1>3 DEF Held, Fresh, InPoll, Same
<1>9. OnlineIsRead'
  <2> SUFFICES ASSUME NEW k \in Kinds \ mixed', online'[k], NEW j \in 1 .. Reads[k]
               PROVE  part'[k][j] = addr[k]
    BY <1>1 DEF OnlineIsRead
  <2>1. CASE k # s BY <1>2, <1>4, <2>1 DEF Held, OnlineIsRead
  <2>2. CASE k = s
    <3>1. ~changed[t] BY <1>4, <2>2
    <3>2. CASE i = Reads[s]
      <4>1. s \in Direct => part'[s][j] = addr[s] BY <1>2, <1>o, <1>r, <2>2, <3>1, <3>2
      <4>2. s \notin Direct => part'[s][j] = addr[s] BY <1>2, <1>o, <1>r, <2>2, <3>1, <3>2 DEF x
      <4> QED BY <2>2, <4>1, <4>2
    <3>3. CASE i # Reads[s]
      <4>1. online[s] /\ s \notin mixed /\ s \in Kinds BY <1>1, <1>3, <1>4, <2>2, <3>1, <3>3 DEF s
      <4>2. part[s][j] = addr[s] BY <2>2, <4>1 DEF Held, OnlineIsRead
      <4> QED BY <1>2, <1>o, <2>2, <3>1, <3>3, <4>2
    <3> QED BY <3>2, <3>3
  <2> QED BY <2>1, <2>2
<1>10. Own'
  <2> SUFFICES ASSUME NEW u \in Threads, InPoll(u)', ~changed'[u]
               PROVE  /\ at'[u] \in {"wait", "got"} => arg'[u] = addr[kind'[u]]
                      /\ \A j \in 1 .. Len(read'[u]) :
                           (IF kind'[u] \in Direct THEN part'[kind'[u]][j] ELSE read'[u][j])
                             = addr[kind'[u]]
    BY <1>1 DEF Own
  <2>1. CASE u = t
    <3>1. i # Reads[s] /\ at'[t] = "call" /\ kind'[t] = s /\ ~changed[t] BY <1>3, <2>1
    <3>2. ASSUME NEW j \in 1 .. i
          PROVE  (IF s \in Direct THEN part'[s][j] ELSE read'[t][j]) = addr[s]
      <4>1. j \in 1 .. Reads[s] /\ (j = i \/ j \in 1 .. i - 1) BY <1>2, <1>r, <3>2
      <4>2. CASE s \in Direct BY <1>2, <1>o, <3>1, <4>1, <4>2
      <4>3. CASE s \notin Direct BY <1>2, <1>o, <3>1, <3>2, <4>1, <4>3 DEF x
      <4> QED BY <4>2, <4>3
    <3>3. Len(read'[t]) = i BY <1>2, <3>1
    <3> QED BY <2>1, <3>1, <3>2, <3>3
  <2>2. CASE u # t
    <3>1. Same(u) /\ ~changed[u] /\ InPoll(u) BY <1>3, <1>5, <2>2
    <3>2. /\ at[u] \in {"wait", "got"} => arg[u] = addr[kind[u]]
          /\ \A j \in 1 .. Len(read[u]) :
               (IF kind[u] \in Direct THEN part[kind[u]][j] ELSE read[u][j]) = addr[kind[u]]
      BY <3>1 DEF Held, Own
    <3>3. kind[u] \in Kinds /\ read[u] \in Seq(Address) /\ Len(read[u]) < Reads[kind[u]]
      BY DEF TypeOK
    <3>4. ASSUME NEW j \in 1 .. Len(read[u]), kind[u] \in Direct
          PROVE  part'[kind[u]][j] = addr[kind[u]]
      <4>1. CASE kind[u] # s BY <1>2, <3>2, <3>3, <3>4, <4>1
      <4>2. CASE kind[u] = s
        <5>1. j \in 1 .. Reads[s]
          <6>1. Len(read[u]) \in Nat BY <3>3
          <6> QED BY <1>r, <3>3, <3>4, <4>2, <6>1
        <5>2. CASE ~changed[t] BY <1>2, <1>o, <3>2, <3>4, <4>2, <5>1, <5>2
        <5>3. CASE changed[t]
          <6>1. read[u] = <<>> BY <1>1, <3>1, <4>2, <5>3, AloneIfChanged DEF s
          <6>2. Len(read[u]) = 0 BY <6>1
          <6> QED BY <6>2, <3>4
        <5> QED BY <5>2, <5>3
      <4> QED BY <4>1, <4>2
    <3> QED BY <3>1, <3>2, <3>4 DEF Same
  <2> QED BY <2>1, <2>2
<1> QED BY <1>7, <1>8, <1>9, <1>10 DEF Held

\* The thread u may move outside a poll; the others stay where they are.
Only(u) == /\ ~InPoll(u) /\ ~InPoll(u)' /\ \A t \in Threads \ {u} : Same(t)

\* The platform's messages register everything anew or nothing.
LEMMA DownlinkHeld ==
  ASSUME TypeOK, Held, NEW t \in Threads, Downlink(t)
  PROVE  Held'
<1>1. ASSUME NEW m \in [Kinds -> Address], RegisterInfo(t, m) PROVE Held'
  <2> DEFINE new == [s \in Kinds |-> IF m[s] # 0 /\ Allows(s, m[s]) THEN m[s] ELSE 0]
  <2>1. Anew(new, Kinds) /\ UNCHANGED <<at, kind, arg, read>> BY <1>1 DEF RegisterInfo
  <2>2. \A u \in Threads : Same(u) BY <2>1 DEF Same
  <2> HIDE DEF new
  <2> QED BY <2>1, <2>2, AnewHeld
<1>2. CASE RegisterInfoInvalid(t) \/ UpdateResponse(t)
  <2>1. UNCHANGED <<addr, part, online, mixed, changed, at, kind, arg, read>>
    BY <1>2 DEF RegisterInfoInvalid, UpdateResponse, registry, thread
  <2>2. \A u \in Threads : Same(u) BY <2>1 DEF Same
  <2> QED BY <2>1, <2>2, CalmHeld
<1> QED BY <1>1, <1>2 DEF Downlink

\* The shell does so with the entries it edits, and polls none of them meanwhile.
LEMMA ShellHeld ==
  ASSUME TypeOK, Held, Shell
  PROVE  Held'
<1>d. "debug" \in Threads BY DEF Threads
<1>1. ASSUME Only("debug") PROVE \A t \in Threads : (~InPoll(t) /\ ~InPoll(t)') \/ Same(t)
  BY <1>1 DEF Only
<1>2. CASE ShellPoll \/ ShellClearTable \/ ShellAddTable \/ ShellLoad
  <2>1. UNCHANGED <<addr, part, online, mixed, changed>>
    BY <1>2 DEF ShellPoll, ShellClearTable, ShellAddTable, ShellLoad, registry
  <2>2. at["debug"] \in {"idle", "clear", "add"} /\ at'["debug"] \in {"idle", "next", "load"}
    BY <1>d, <1>2 DEF ShellPoll, ShellClearTable, ShellAddTable, ShellLoad, ShellIdle, ShellAt,
                      Busy, Goto, TypeOK
  <2>3. ASSUME NEW t \in Threads \ {"debug"} PROVE Same(t)
    BY <1>2 DEF ShellPoll, ShellClearTable, ShellAddTable, ShellLoad, Goto, TypeOK, Same
  <2>4. Only("debug") BY <2>2, <2>3 DEF Only, InPoll
  <2> QED BY <1>1, <2>1, <2>4, CalmHeld
<1>3. CASE ShellClear \/ ShellLoadClear
  <2>1. Anew([s \in Kinds |-> 0], Kinds) BY <1>3 DEF ShellClear, ShellLoadClear
  <2>2. at["debug"] \in {"idle", "load"} /\ at'["debug"] \in {"clear", "apply"}
    BY <1>d, <1>3 DEF ShellClear, ShellLoadClear, ShellIdle, ShellAt, Busy, Goto, TypeOK
  <2>3. ASSUME NEW t \in Threads \ {"debug"} PROVE Same(t)
    BY <1>3 DEF ShellClear, ShellLoadClear, Goto, TypeOK, Same
  <2>4. Only("debug") BY <2>2, <2>3 DEF Only, InPoll
  <2> QED BY <1>1, <2>1, <2>4, AnewHeld
<1>4. ASSUME NEW s \in Kinds, NEW a \in Addrs, ShellAdd(s, a) PROVE Held'
  <2>1. Anew([k \in Kinds |-> a], {s}) BY <1>4 DEF ShellAdd
  <2>2. at["debug"] = "idle" /\ at'["debug"] = "add"
    BY <1>d, <1>4 DEF ShellAdd, ShellIdle, Busy, Goto, TypeOK
  <2>3. ASSUME NEW t \in Threads \ {"debug"} PROVE Same(t)
    BY <1>4 DEF ShellAdd, Goto, TypeOK, Same
  <2>4. Only("debug") BY <2>2, <2>3 DEF Only, InPoll
  <2> QED BY <1>1, <2>1, <2>4, AnewHeld
<1>5. CASE ShellLoadDevice
  <2> DEFINE s == kind["debug"]
  <2>1. at["debug"] = "apply" /\ Advance("debug", s, "apply") /\ UNCHANGED <<arg, read>>
    BY <1>5 DEF ShellLoadDevice, ShellAt
  <2>2. at'["debug"] \in {"apply", "idle"}
        /\ \A t \in Threads \ {"debug"} : at'[t] = at[t] /\ kind'[t] = kind[t]
    BY <1>d, <2>1, AdvanceTyped DEF Position
  <2>3. Only("debug") BY <2>1, <2>2 DEF Only, InPoll, Same
  <2>4. CASE table[s] # 0
    <3>1. Anew(table, {s}) BY <1>5, <2>4 DEF ShellLoadDevice
    <3>2. {s} \in SUBSET Kinds BY <1>d DEF TypeOK
    <3> QED BY <1>1, <2>3, <3>1, <3>2, AnewHeld
  <2>5. CASE table[s] = 0
    <3>1. UNCHANGED <<addr, part, online, mixed, changed>>
      BY <1>5, <2>5 DEF ShellLoadDevice, registry
    <3> QED BY <1>1, <2>3, <3>1, CalmHeld
  <2> QED BY <2>4, <2>5
<1>6. CASE TableReset
  <2>1. UNCHANGED <<addr, part, online, mixed, changed, at, kind, arg, read>>
    BY <1>6 DEF TableReset, registry, thread
  <2>2. \A t \in Threads : Same(t) BY <2>1 DEF Same
  <2> QED BY <2>1, <2>2, CalmHeld
<1> QED BY <1>2, <1>3, <1>4, <1>5, <1>6 DEF Shell

\* A poll begins with no reads.
LEMMA LookHeld ==
  ASSUME TypeOK, Placed, Held, NEW t \in Threads, Look(t)
  PROVE  Held'
<1>1. at[t] = "next" /\ UNCHANGED <<addr, part, online, mixed, changed, arg, read>>
  BY DEF Look, registry
<1>2. at'[t] \in {"next", "call", "idle"} /\ \A u \in Threads \ {t} : at'[u] = at[u] /\ kind'[u] = kind[u]
  <2>1. CASE addr[kind[t]] = 0
    <3>1. Advance(t, kind[t], "next") BY <2>1 DEF Look
    <3> QED BY <3>1, AdvanceTyped DEF Position
  <2>2. CASE addr[kind[t]] # 0 BY <2>2 DEF Look, Goto, TypeOK
  <2> QED BY <2>1, <2>2
<1>3. ~InPoll(t) /\ read'[t] = <<>> BY <1>1 DEF InPoll, Placed
<1>4. \A u \in Threads \ {t} : Same(u) BY <1>1, <1>2 DEF Same
<1>5. at'[t] # "call" => ~InPoll(t)' BY <1>2 DEF InPoll
<1> QED BY <1>1, <1>3, <1>4, <1>5, CalmHeld

\* Each step keeps what the entries hold.
LEMMA HeldStep ==
  ASSUME TypeOK, Placed, Held, [Next]_vars
  PROVE  Held'
<1>1. ASSUME NEW t \in Threads, Poll(t) PROVE Held'
  BY <1>1, LookHeld, CallHeld, ReplyHeld, StoreHeld, FailHeld DEF Poll
<1>2. CASE Command
  <2>1. at["mqtt_rx"] = "idle" /\ at' = [at EXCEPT !["mqtt_rx"] = "next"]
        /\ kind' = [kind EXCEPT !["mqtt_rx"] = 1]
        /\ UNCHANGED <<addr, part, online, mixed, changed, arg, read>>
    BY <1>2 DEF Command, Busy, Goto, registry
  <2>2. \A t \in Threads : (~InPoll(t) /\ ~InPoll(t)') \/ Same(t)
    BY <2>1 DEF InPoll, Same, TypeOK
  <2> QED BY <2>1, <2>2, CalmHeld
<1>3. ASSUME NEW ready \in BOOLEAN, Pass(ready) PROVE Held'
  <2>1. at["main"] = "idle" /\ UNCHANGED <<addr, part, online, mixed, changed, arg, read>>
        /\ \/ at' = [at EXCEPT !["main"] = "next"] /\ kind' = [kind EXCEPT !["main"] = 1]
           \/ UNCHANGED <<at, kind>>
    BY <1>3 DEF Pass, Busy, Goto, registry
  <2>2. \A t \in Threads : (~InPoll(t) /\ ~InPoll(t)') \/ Same(t)
    BY <2>1 DEF InPoll, Same, TypeOK
  <2> QED BY <2>1, <2>2, CalmHeld
<1>4. CASE UNCHANGED vars
  <2>1. UNCHANGED <<addr, part, online, mixed, changed, at, kind, arg, read>>
    BY <1>4 DEF vars, registry, thread
  <2>2. \A t \in Threads : Same(t) BY <2>1 DEF Same
  <2> QED BY <2>1, <2>2, CalmHeld
<1> QED BY <1>1, <1>2, <1>3, <1>4, DownlinkHeld, ShellHeld DEF Next

\* Whatever the platform, the shell and the polls of other threads do meanwhile, an
\* online entry's measurements come from its own slave, unless its own poll was cut
\* short by its registration; only then, and only until its next poll.
THEOREM ReadFromOwn == Spec => []OnlineIsRead
<1>1. Init => Held BY DEF Init, Held, Fresh, Own, Below, OnlineIsRead, InPoll
<1>2. TypeOK /\ Placed /\ Held /\ [Next]_vars => Held' BY HeldStep
<1>3. Init => TypeOK /\ Placed BY InitTyped
<1>4. TypeOK /\ Placed /\ [Next]_vars => TypeOK' /\ Placed' BY TypedStep
<1>5. Held => OnlineIsRead BY DEF Held
<1> QED BY <1>1, <1>2, <1>3, <1>4, <1>5, PTL DEF Spec
=============================================================================
