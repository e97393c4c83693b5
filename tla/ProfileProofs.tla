----------------------------- MODULE ProfileProofs -----------------------------
(***************************************************************************)
(* The store of profiles, for any numbers of servers, calls, orders and    *)
(* chunks.                                                                 *)
(*                                                                         *)
(* A chunk does not say which snapshot it is of; the master appends it to  *)
(* the profile that is open.  That is right as long as the messages under  *)
(* way are a row of whole snapshots of which the first may have begun      *)
(* (Row), and the profile that is open has exactly the chunks that went    *)
(* before the first message of the row (StoreInv).                         *)
(***************************************************************************)
EXTENDS ProfileProxy, TLAPS, SequenceTheorems

\* The first k chunks of snapshot n.
Part(n, k) == [i \in 1..k |-> <<n, i>>]

\* A chunk, behind which there is more; a message that is not the first of its snapshot.
Open(m) == m.type = "heap" /\ m.chunk # 0
Mid(m) == m.type = "heap" /\ m.chunk # 1

\* How many chunks of its snapshot go before a message, and the message behind a chunk.
Before(m) == IF m.chunk = 0 THEN Chunks ELSE m.chunk - 1
Behind(m) == Notice(m.n, IF m.chunk = Chunks THEN 0 ELSE m.chunk + 1)

Follows(a, b) == IF Open(a) THEN b = Behind(a) ELSE ~Mid(b)

Row(q) ==
  /\ \A i \in 1..(Len(q) - 1) : Follows(q[i], q[i + 1])
  /\ q # <<>> => ~Open(q[Len(q)])

\* The profile open for a server is the beginning of what arrives next; if that is a
\* new snapshot, or nothing, the stored one is whole.
Begun(s) == notices[s] # <<>> /\ Mid(Head(notices[s]))

StoreInv ==
  \A s \in Servers \ broken :
    /\ Begun(s) =>
         /\ heap[s] # NONE /\ ~heap[s].finish
         /\ heap[s].data = Part(Head(notices[s]).n, Before(Head(notices[s])))
    /\ ~Begun(s) =>
         heap[s] = NONE \/ (heap[s].finish /\ \E n \in 1..ordered : heap[s].data = Whole(n))

\* What is under way was ordered.
NumbersInv ==
  \A s \in Servers :
    /\ \A i \in 1..Len(orders[s]) : orders[s][i].n \in 1..ordered
    /\ \A i \in 1..Len(notices[s]) : notices[s][i].n \in 1..ordered

RowsInv == \A s \in Servers : Row(notices[s])

SnapshotInv == RowsInv /\ NumbersInv /\ StoreInv

-----------------------------------------------------------------------------
(***************************************************************************)
(* Rows of messages.                                                       *)
(***************************************************************************)
\* Behind a chunk there is the next one or the end, behind anything else a new profile.
LEMMA RowTail ==
  ASSUME NEW q \in Seq(Notice0), q # <<>>, Row(q)
  PROVE  /\ Row(Tail(q)) /\ Tail(q) \in Seq(Notice0) /\ Head(q) \in Notice0
         /\ Open(Head(q)) => Tail(q) # <<>> /\ Head(Tail(q)) = Behind(Head(q))
         /\ ~Open(Head(q)) /\ Tail(q) # <<>> => ~Mid(Head(Tail(q)))
<1> DEFINE t == Tail(q)
<1>1. /\ Len(q) \in Nat /\ Len(q) >= 1 /\ Head(q) = q[1] /\ q[1] \in Notice0
      /\ t \in Seq(Notice0) /\ Len(t) = Len(q) - 1
      /\ \A i \in 1..Len(t) : t[i] = q[i + 1]
  OBVIOUS
<1>2. t # <<>> => Len(t) >= 1 /\ Head(t) = t[1]
  BY <1>1
<1> HIDE DEF t
<1>3. t # <<>> => t[1] = q[2] /\ Follows(q[1], q[2])
  <2>1. SUFFICES ASSUME t # <<>> PROVE t[1] = q[2] /\ Follows(q[1], q[2])
    OBVIOUS
  <2>2. 1 \in 1..(Len(q) - 1) /\ 1 \in 1..Len(t) /\ 1 + 1 = 2
    BY <1>1, <1>2, <2>1
  <2> QED BY <1>1, <2>2 DEF Row
<1>4. t = <<>> => Len(q) = 1
  BY <1>1
<1>5. \A i \in 1..(Len(t) - 1) : Follows(t[i], t[i + 1])
  <2>1. ASSUME NEW i \in 1..(Len(t) - 1) PROVE Follows(t[i], t[i + 1])
    <3>1. i \in 1..Len(t) /\ i + 1 \in 1..Len(t) /\ i + 1 \in 1..(Len(q) - 1)
      BY <1>1
    <3> QED BY <1>1, <3>1 DEF Row
  <2> QED BY <2>1
<1>6. t # <<>> => ~Open(t[Len(t)])
  <2>1. SUFFICES ASSUME t # <<>> PROVE ~Open(t[Len(t)])
    OBVIOUS
  <2>2. Len(t) \in 1..Len(t) /\ Len(t) + 1 = Len(q)
    BY <1>1, <1>2, <2>1
  <2>3. t[Len(t)] = q[Len(q)]
    BY <1>1, <2>2
  <2> QED BY <2>3 DEF Row
<1> QED BY <1>1, <1>2, <1>3, <1>4, <1>5, <1>6 DEF Row, Follows, t

\* A row behind a row.
LEMMA RowBehindRow ==
  ASSUME NEW a \in Seq(Notice0), NEW b \in Seq(Notice0), Row(a), Row(b), b # <<>>, ~Mid(b[1])
  PROVE  Row(a \o b) /\ a \o b \in Seq(Notice0) /\ Head(a \o b) = IF a = <<>> THEN b[1] ELSE Head(a)
<1> DEFINE q == a \o b
<1>1. /\ Len(a) \in Nat /\ Len(b) \in Nat /\ Len(b) >= 1 /\ Len(q) = Len(a) + Len(b)
      /\ q \in Seq(Notice0) /\ q # <<>> /\ Head(q) = q[1]
      /\ a # <<>> => Len(a) >= 1 /\ Head(a) = a[1]
      /\ \A i \in 1..Len(a) : q[i] = a[i]
      /\ \A i \in 1..Len(b) : q[Len(a) + i] = b[i]
  OBVIOUS
<1> HIDE DEF q
<1>2. q[Len(a) + 1] = b[1] /\ q[Len(q)] = b[Len(b)]
  BY <1>1
<1>3. Head(q) = IF a = <<>> THEN b[1] ELSE Head(a)
  <2>1. CASE a = <<>>
    BY <1>1, <1>2, <2>1
  <2>2. CASE a # <<>>
    BY <1>1, <2>2
  <2> QED BY <2>1, <2>2
<1>4. ASSUME NEW i \in 1..(Len(q) - 1) PROVE Follows(q[i], q[i + 1])
  <2>1. CASE i < Len(a)
    <3>1. i \in 1..(Len(a) - 1) /\ i \in 1..Len(a) /\ i + 1 \in 1..Len(a)
      BY <1>1, <2>1
    <3> QED BY <1>1, <3>1 DEF Row
  <2>2. CASE i = Len(a)
    <3>1. i \in 1..Len(a) /\ a # <<>>
      BY <1>1, <2>2
    <3> QED BY <1>1, <1>2, <2>2, <3>1 DEF Row, Follows
  <2>3. CASE i > Len(a)
    <3> DEFINE j == i - Len(a)
    <3>1. j \in 1..(Len(b) - 1) /\ j \in 1..Len(b) /\ j + 1 \in 1..Len(b)
          /\ Len(a) + j = i /\ Len(a) + (j + 1) = i + 1
      BY <1>1, <2>3
    <3> HIDE DEF j
    <3>2. q[i] = b[j] /\ q[i + 1] = b[j + 1]
      BY <1>1, <3>1
    <3> QED BY <3>1, <3>2 DEF Row
  <2> QED BY <1>1, <2>1, <2>2, <2>3
<1> QED BY <1>1, <1>2, <1>3, <1>4 DEF Row, q

\* One snapshot is a row: its chunks in order, and the end.
LEMMA SerializeRow ==
  ASSUME NEW n \in 1..MaxOrders
  PROVE  /\ Serialize(n) \in Seq(Notice0) /\ Serialize(n) # <<>> /\ Row(Serialize(n))
         /\ ~Mid(Serialize(n)[1])
         /\ \A i \in 1..Len(Serialize(n)) : Serialize(n)[i].n = n
<1> DEFINE q == Serialize(n)
           a == [i \in 1..Chunks |-> Notice(n, i)]
<1>1. Chunks \in Nat /\ Chunks >= 1
  BY ProfileAssumption
<1>2. \A i \in 0..Chunks : /\ Notice(n, i) \in Notice0 /\ Notice(n, i).n = n
                           /\ Notice(n, i).chunk = i /\ Notice(n, i).type = "heap"
  BY DEF Notice, Notice0
<1>3. a \in Seq(Notice0) /\ Len(a) = Chunks /\ \A i \in 1..Chunks : a[i] = Notice(n, i)
  BY <1>1, <1>2
<1>4. <<Notice(n, 0)>> \in Seq(Notice0)
  BY <1>1, <1>2
<1> HIDE DEF a
<1>5. /\ q \in Seq(Notice0) /\ Len(q) = Chunks + 1
      /\ \A i \in 1..Chunks : q[i] = Notice(n, i)
      /\ q[Chunks + 1] = Notice(n, 0)
  BY <1>1, <1>3, <1>4 DEF Serialize, a
<1> HIDE DEF q
<1>6. \A i \in 1..(Chunks + 1) : i \in 1..Chunks \/ i = Chunks + 1
  BY <1>1
<1>7. ASSUME NEW i \in 1..(Len(q) - 1) PROVE Follows(q[i], q[i + 1])
  <2>1. i \in 1..Chunks /\ i # 0 /\ i \in 0..Chunks /\ q[i] = Notice(n, i)
    BY <1>1, <1>5
  <2>2. q[i + 1] = Notice(n, IF i = Chunks THEN 0 ELSE i + 1)
    BY <1>1, <1>5, <2>1
  <2> QED BY <1>2, <2>1, <2>2 DEF Follows, Open, Behind
<1>8. ~Open(q[Len(q)])
  BY <1>1, <1>2, <1>5 DEF Open
<1>9. 1 \in 1..Chunks /\ q # <<>>
  BY <1>1, <1>5
<1>10. ~Mid(q[1])
  BY <1>1, <1>2, <1>5, <1>9 DEF Mid
<1>11. \A i \in 1..Len(q) : q[i].n = n
  BY <1>1, <1>2, <1>5, <1>6
<1> QED BY <1>5, <1>7, <1>8, <1>9, <1>10, <1>11 DEF Row, q

\* So is the notice of a CPU profile.
LEMMA CpuRow ==
  ASSUME NEW n \in 1..MaxOrders
  PROVE  /\ <<CpuNotice(n)>> \in Seq(Notice0) /\ <<CpuNotice(n)>> # <<>> /\ Row(<<CpuNotice(n)>>)
         /\ ~Mid(<<CpuNotice(n)>>[1])
         /\ \A i \in 1..Len(<<CpuNotice(n)>>) : <<CpuNotice(n)>>[i].n = n
<1>1. CpuNotice(n) \in Notice0 /\ CpuNotice(n).type = "CPU" /\ CpuNotice(n).n = n
  BY ProfileAssumption DEF CpuNotice, Notice0
<1> QED BY <1>1 DEF Row, Open, Mid

\* What the monitor makes of an order.
Handled(o) ==
  CASE o.order = "heap" -> Serialize(o.n)
    [] o.order = "CPU stop" -> <<CpuNotice(o.n)>>
    [] OTHER -> <<>>

\* It is a row that begins with no middle of a snapshot.
LEMMA HandledRow ==
  ASSUME NEW o \in Order0
  PROVE  /\ Handled(o) \in Seq(Notice0) /\ Row(Handled(o))
         /\ Handled(o) # <<>> => ~Mid(Handled(o)[1])
         /\ \A i \in 1..Len(Handled(o)) : Handled(o)[i].n = o.n
<1>1. o.n \in 1..MaxOrders
  BY DEF Order0
<1>2. CASE o.order = "heap"
  BY <1>1, <1>2, SerializeRow DEF Handled
<1>3. CASE o.order = "CPU stop"
  BY <1>1, <1>3, CpuRow DEF Handled
<1>4. CASE o.order # "heap" /\ o.order # "CPU stop"
  <2>1. Handled(o) = <<>>
    BY <1>4 DEF Handled
  <2> QED BY <2>1 DEF Row
<1> QED BY <1>2, <1>3, <1>4

\* What an order puts under way is behind what is under way already.
LEMMA HandledBehind ==
  ASSUME NEW q \in Seq(Notice0), Row(q), NEW o \in Order0
  PROVE  /\ q \o Handled(o) \in Seq(Notice0) /\ Row(q \o Handled(o))
         /\ q # <<>> => q \o Handled(o) # <<>> /\ Head(q \o Handled(o)) = Head(q)
         /\ q = <<>> /\ q \o Handled(o) # <<>> => ~Mid(Head(q \o Handled(o)))
<1>1. /\ Handled(o) \in Seq(Notice0) /\ Row(Handled(o))
      /\ Handled(o) # <<>> => ~Mid(Handled(o)[1])
  BY HandledRow
<1>2. CASE Handled(o) = <<>>
  <2>1. q \o Handled(o) = q
    BY <1>2
  <2> QED BY <2>1
<1>3. CASE Handled(o) # <<>>
  <2>1. /\ Row(q \o Handled(o)) /\ q \o Handled(o) \in Seq(Notice0)
        /\ Head(q \o Handled(o)) = IF q = <<>> THEN Handled(o)[1] ELSE Head(q)
    BY <1>1, <1>3, RowBehindRow
  <2>2. Len(q \o Handled(o)) = Len(q) + Len(Handled(o)) /\ Len(q) \in Nat /\ Len(Handled(o)) \in Nat
    BY <1>1
  <2>3. q # <<>> => q \o Handled(o) # <<>>
    <3>1. Len(<<>>) = 0 /\ (q # <<>> => Len(q) > 0)
      OBVIOUS
    <3> QED BY <2>2, <3>1
  <2> QED BY <1>1, <1>3, <2>1, <2>3
<1> QED BY <1>2, <1>3

-----------------------------------------------------------------------------
(***************************************************************************)
(* Types.                                                                  *)
(***************************************************************************)
\* A master without profiles.
LEMMA InitProfileType == Init => ProfileTypeOK
<1> SUFFICES ASSUME Init PROVE ProfileTypeOK
  OBVIOUS
<1>1. MaxOrders \in Nat /\ MaxAccidents \in Nat
  BY ProfileAssumption
<1>2. heap \in [Servers -> Profile \cup {NONE}] /\ polls \in [Polls -> Poll \cup {NONE}]
  BY DEF Init
<1>3. answers \in [Polls -> Nat]
  BY DEF Init
<1>4. orders \in [Servers -> Seq(Order0)] /\ notices \in [Servers -> Seq(Notice0)]
  BY DEF Init
<1> QED BY <1>1, <1>2, <1>3, <1>4 DEF Init, ProfileTypeOK

\* The monitor handles an order.
LEMMA MonitorHandlerMeans ==
  ASSUME ProfileTypeOK, NEW s \in Servers, MonitorHandler(s)
  PROVE  /\ orders[s] \in Seq(Order0) /\ orders[s] # <<>> /\ Head(orders[s]) \in Order0
         /\ Head(orders[s]) = orders[s][1]
         /\ orders' = [orders EXCEPT ![s] = Tail(@)] /\ Tail(orders[s]) \in Seq(Order0)
         /\ notices[s] \in Seq(Notice0)
         /\ notices' = [notices EXCEPT ![s] = notices[s] \o Handled(Head(orders[s]))]
         /\ UNCHANGED <<storeVars, connected, boundVars, polls, answers, broken>>
<1>1. orders[s] \in Seq(Order0) /\ orders[s] # <<>> /\ notices[s] \in Seq(Notice0)
  BY DEF ProfileTypeOK, MonitorHandler
<1>2. Head(orders[s]) \in Order0 /\ Tail(orders[s]) \in Seq(Order0) /\ Head(orders[s]) = orders[s][1]
  BY <1>1
<1> QED BY <1>1, <1>2 DEF MonitorHandler, Handled, ProfileTypeOK

\* Whole snapshots are put under way.
LEMMA MonitorHandlerType ==
  ASSUME ProfileTypeOK, NEW s \in Servers, MonitorHandler(s)
  PROVE  ProfileTypeOK'
<1>1. notices[s] \o Handled(Head(orders[s])) \in Seq(Notice0)
  BY MonitorHandlerMeans, HandledRow, ConcatProperties
<1>2. /\ orders' = [orders EXCEPT ![s] = Tail(@)] /\ Tail(orders[s]) \in Seq(Order0)
      /\ notices' = [notices EXCEPT ![s] = notices[s] \o Handled(Head(orders[s]))]
      /\ UNCHANGED <<storeVars, connected, boundVars, polls, answers, broken>>
  BY MonitorHandlerMeans
<1>3. orders' \in [Servers -> Seq(Order0)]
  BY <1>2 DEF ProfileTypeOK
<1>4. notices' \in [Servers -> Seq(Notice0)]
  BY <1>1, <1>2 DEF ProfileTypeOK
<1> QED BY <1>2, <1>3, <1>4 DEF ProfileTypeOK, storeVars, boundVars

\* What the store takes in is a profile.
LEMMA StoredType ==
  ASSUME NEW h \in Profile, NEW m \in Notice0
  PROVE  /\ Stored(h, m) \in Profile
         /\ m.chunk # 0 => /\ Stored(h, m).data = Append(h.data, <<m.n, m.chunk>>)
                           /\ Stored(h, m).finish = h.finish
         /\ m.chunk = 0 => Stored(h, m).data = h.data /\ Stored(h, m).finish
<1>1. h = [data |-> h.data, finish |-> h.finish]
      /\ h.data \in Seq((1..MaxOrders) \X (1..Chunks)) /\ h.finish \in BOOLEAN
  BY DEF Profile
<1>2. m.n \in 1..MaxOrders /\ m.chunk \in 0..Chunks
  BY DEF Notice0
<1>3. CASE m.chunk # 0
  <2>1. <<m.n, m.chunk>> \in (1..MaxOrders) \X (1..Chunks)
    BY <1>2, <1>3, ProfileAssumption
  <2>2. Append(h.data, <<m.n, m.chunk>>) \in Seq((1..MaxOrders) \X (1..Chunks))
    BY <1>1, <2>1
  <2>3. Stored(h, m) = [data |-> Append(h.data, <<m.n, m.chunk>>), finish |-> h.finish]
    BY <1>3 DEF Stored, Profile
  <2> QED BY <1>1, <1>3, <2>2, <2>3 DEF Profile
<1>4. CASE m.chunk = 0
  <2>1. Stored(h, m) = [data |-> h.data, finish |-> TRUE]
    BY <1>4 DEF Stored, Profile
  <2> QED BY <1>1, <1>4, <2>1 DEF Profile
<1> QED BY <1>3, <1>4

\* The profile that is open is a profile.
LEMMA OpenProfileType ==
  ASSUME ProfileTypeOK, NEW s \in Servers
  PROVE  OpenProfile(s) \in Profile
<1>1. Fresh \in Profile
  BY DEF Fresh, Profile
<1> QED BY <1>1 DEF OpenProfile, ProfileTypeOK

\* A message leaves its row and is stored.
LEMMA MasterHandlerType ==
  ASSUME ProfileTypeOK, NEW s \in Servers, MasterHandler(s)
  PROVE  ProfileTypeOK'
<1>1. notices[s] \in Seq(Notice0) /\ notices[s] # <<>>
  BY DEF ProfileTypeOK, MasterHandler
<1>2. Head(notices[s]) \in Notice0 /\ Tail(notices[s]) \in Seq(Notice0)
  BY <1>1
<1>3. notices' \in [Servers -> Seq(Notice0)]
  BY <1>2 DEF ProfileTypeOK, MasterHandler
<1>4. CASE StopCallBack(s)
  BY <1>3, <1>4 DEF ProfileTypeOK, MasterHandler, StopCallBack, boundVars
<1>5. CASE TakeSnapCallBack(s, Head(notices[s]))
  <2>1. heap' \in [Servers -> Profile \cup {NONE}]
    BY <1>2, <1>5, OpenProfileType, StoredType DEF ProfileTypeOK, TakeSnapCallBack
  <2>2. broken' \subseteq Servers
    BY <1>5 DEF ProfileTypeOK, TakeSnapCallBack
  <2> QED BY <1>3, <1>5, <2>1, <2>2 DEF ProfileTypeOK, MasterHandler, TakeSnapCallBack, boundVars
<1> QED BY <1>4, <1>5 DEF MasterHandler

\* A message leaves its row and is not stored.
LEMMA IgnoresType ==
  ASSUME ProfileTypeOK, NEW s \in Servers, Ignores(s)
  PROVE  ProfileTypeOK'
<1>1. notices[s] \in Seq(Notice0) /\ notices[s] # <<>>
  BY DEF ProfileTypeOK, Ignores
<1>2. Tail(notices[s]) \in Seq(Notice0)
  BY <1>1
<1>3. notices' \in [Servers -> Seq(Notice0)]
  BY <1>2 DEF ProfileTypeOK, Ignores
<1>4. accidents' \in 0..MaxAccidents
  BY ProfileAssumption DEF ProfileTypeOK, Ignores
<1> QED BY <1>3, <1>4 DEF ProfileTypeOK, Ignores, storeVars

\* A number below a bound has room above it.
LEMMA RoomAbove ==
  ASSUME NEW N \in Nat, NEW n \in 0..N, n < N
  PROVE  n + 1 \in 1..N /\ n + 1 \in 0..N
<1>1. n \in Int /\ N \in Int /\ 0 <= n /\ n + 1 <= N
  OBVIOUS
<1> QED BY <1>1

\* An order is numbered within its bound.
LEMMA OrderType ==
  ASSUME ProfileTypeOK, NEW s \in Servers, NEW o \in {"heap", "CPU start", "CPU stop"}, Order(s, o)
  PROVE  ProfileTypeOK'
<1>1. ordered' \in 1..MaxOrders /\ ordered' \in 0..MaxOrders
  <2>1. ordered \in 0..MaxOrders /\ MaxOrders \in Nat /\ ordered < MaxOrders /\ ordered' = ordered + 1
    BY ProfileAssumption DEF ProfileTypeOK, Order
  <2> QED BY <2>1, RoomAbove
<1>2. [order |-> o, n |-> ordered'] \in Order0
  BY <1>1 DEF Order0
<1>3. orders' \in [Servers -> Seq(Order0)]
  <2>1. orders \in [Servers -> Seq(Order0)] /\ orders[s] \in Seq(Order0)
    BY DEF ProfileTypeOK
  <2>2. Append(orders[s], [order |-> o, n |-> ordered']) \in Seq(Order0)
    BY <1>2, <2>1, AppendProperties
  <2>3. \/ orders' = orders
        \/ orders' = [orders EXCEPT ![s] = Append(orders[s], [order |-> o, n |-> ordered'])]
    BY DEF Order
  <2> QED BY <2>1, <2>2, <2>3
<1> QED BY <1>1, <1>3 DEF Order, ProfileTypeOK, storeVars

\* The calls of clients and their timers.
LEMMA PollType ==
  ASSUME ProfileTypeOK, NEW p \in Polls,
         IntervalTimer(p) \/ \E t \in {"HEAP", "CPU"}, s \in Servers : GetProfile(p, t, s)
  PROVE  ProfileTypeOK'
<1>1. UNCHANGED <<storeVars, linkVars, boundVars, broken>>
  BY DEF IntervalTimer, GetProfile
<1>2. answers' \in [Polls -> Nat]
  <2>1. answers' = answers \/ AsyncGet(p)
    BY DEF IntervalTimer, Interval, GetProfile
  <2>2. answers \in [Polls -> Nat] /\ answers[p] + 1 \in Nat
    BY DEF ProfileTypeOK
  <2> QED BY <2>1, <2>2 DEF AsyncGet
<1>3. polls' \in [Polls -> Poll \cup {NONE}]
  <2>1. CASE IntervalTimer(p)
    <3>1. polls[p] \in Poll
      BY <2>1 DEF ProfileTypeOK, IntervalTimer
    <3>2. [polls[p] EXCEPT !.timer = FALSE] \in Poll
      BY <3>1 DEF Poll
    <3> QED BY <2>1, <3>2 DEF ProfileTypeOK, IntervalTimer, Interval
  <2>2. CASE \E t \in {"HEAP", "CPU"}, s \in Servers : GetProfile(p, t, s)
    <3>1. PICK poll \in Poll : polls' = [polls EXCEPT ![p] = poll]
      <4>1. PICK t \in {"HEAP", "CPU"}, s \in Servers : GetProfile(p, t, s)
        BY <2>2
      <4>2. \A b \in BOOLEAN : [type |-> t, uid |-> s, timer |-> b] \in Poll
        BY DEF Poll
      <4>3. \E b \in BOOLEAN : polls' = [polls EXCEPT ![p] = [type |-> t, uid |-> s, timer |-> b]]
        BY <4>1 DEF GetProfile
      <4> QED BY <4>2, <4>3
    <3> QED BY <3>1 DEF ProfileTypeOK
  <2> QED BY <2>1, <2>2
<1> QED BY <1>1, <1>2, <1>3 DEF ProfileTypeOK, storeVars, linkVars, boundVars

\* A connection made or lost.
LEMMA LinkType ==
  ASSUME ProfileTypeOK, NEW s \in Servers, Registers(s) \/ Disconnects(s)
  PROVE  ProfileTypeOK'
<1>1. CASE Registers(s)
  BY <1>1 DEF ProfileTypeOK, Registers, storeVars, boundVars
<1>2. CASE Disconnects(s)
  <2>1. orders' \in [Servers -> Seq(Order0)] /\ notices' \in [Servers -> Seq(Notice0)]
    BY <1>2 DEF ProfileTypeOK, Disconnects
  <2>2. accidents' \in 0..MaxAccidents
    BY <1>2, ProfileAssumption DEF ProfileTypeOK, Disconnects
  <2>3. connected' \subseteq Servers /\ broken' \subseteq Servers
    BY <1>2 DEF ProfileTypeOK, Disconnects
  <2> QED BY <1>2, <2>1, <2>2, <2>3 DEF ProfileTypeOK, Disconnects, storeVars
<1> QED BY <1>1, <1>2

\* The store is emptied.
LEMMA ClearType ==
  ASSUME ProfileTypeOK, ClearProfiles
  PROVE  ProfileTypeOK'
<1>1. accidents' \in 0..MaxAccidents
  BY ProfileAssumption DEF ProfileTypeOK, ClearProfiles
<1>2. heap' \in [Servers -> Profile \cup {NONE}] /\ broken' \subseteq Servers /\ cpu' \subseteq Servers
  BY DEF ProfileTypeOK, ClearProfiles
<1> QED BY <1>1, <1>2 DEF ProfileTypeOK, ClearProfiles, linkVars

\* The variables of the store, the calls and the connections keep their types.
THEOREM ProfileTypeCorrect == Spec => []ProfileTypeOK
<1>1. ASSUME ProfileTypeOK, [Next]_vars PROVE ProfileTypeOK'
  <2>1. CASE UNCHANGED vars
    BY <1>1, <2>1 DEF vars, storeVars, linkVars, boundVars, ProfileTypeOK
  <2>2. CASE ClientCalls
    BY <1>1, <2>2, OrderType, PollType, ClearType DEF ClientCalls
  <2>3. CASE \E s \in Servers : \/ Registers(s) \/ Disconnects(s)
                               \/ MonitorHandler(s) \/ MasterHandler(s) \/ Ignores(s)
    BY <1>1, <2>3, LinkType, MonitorHandlerType, MasterHandlerType, IgnoresType
  <2>4. CASE \E p \in Polls : IntervalTimer(p)
    BY <1>1, <2>4, PollType
  <2> QED BY <1>1, <2>1, <2>2, <2>3, <2>4 DEF Next
<1> QED BY <1>1, InitProfileType, PTL DEF Spec

-----------------------------------------------------------------------------
(***************************************************************************)
(* OneSnapshot.                                                            *)
(***************************************************************************)
\* StoreInv, of one server.
StoreOf(s) ==
  /\ Begun(s) =>
       /\ heap[s] # NONE /\ ~heap[s].finish
       /\ heap[s].data = Part(Head(notices[s]).n, Before(Head(notices[s])))
  /\ ~Begun(s) =>
       heap[s] = NONE \/ (heap[s].finish /\ \E n \in 1..ordered : heap[s].data = Whole(n))

\* Nothing is under way, and nothing is stored.
LEMMA InitSnapshot == Init => SnapshotInv
BY DEF Init, SnapshotInv, RowsInv, Row, NumbersInv, StoreInv, Begun

\* Steps that touch neither the store nor what is under way.
LEMMA SameSnapshot ==
  ASSUME SnapshotInv, UNCHANGED <<heap, broken, orders, notices, ordered>>
  PROVE  SnapshotInv'
BY DEF SnapshotInv, RowsInv, NumbersInv, StoreInv, Begun

\* An order has a new number.
LEMMA OrderSnapshot ==
  ASSUME ProfileTypeOK, SnapshotInv, NEW s \in Servers, NEW o, Order(s, o)
  PROVE  SnapshotInv'
<1>1. /\ UNCHANGED <<heap, broken, notices>>
      /\ ordered \in Nat /\ ordered' = ordered + 1
  BY ProfileAssumption DEF Order, ProfileTypeOK, storeVars
<1>2. ordered' \in 1..ordered' /\ \A n \in 1..ordered : n \in 1..ordered'
  BY <1>1
<1>3. RowsInv'
  BY <1>1 DEF SnapshotInv, RowsInv
<1>4. StoreInv'
  BY <1>1, <1>2 DEF SnapshotInv, StoreInv, Begun
<1>5. NumbersInv'
  <2>1. \A q \in Servers : \A i \in 1..Len(notices'[q]) : notices'[q][i].n \in 1..ordered'
    BY <1>1, <1>2 DEF SnapshotInv, NumbersInv
  <2>2. \A q \in Servers : \A i \in 1..Len(orders[q]) : orders[q][i].n \in 1..ordered'
    BY <1>2 DEF SnapshotInv, NumbersInv
  <2> DEFINE e == [order |-> o, n |-> ordered']
  <2>3. CASE UNCHANGED orders
    BY <2>1, <2>2, <2>3 DEF NumbersInv
  <2>4. CASE orders' = [orders EXCEPT ![s] = Append(orders[s], e)]
    <3>1. orders[s] \in Seq(Order0) /\ e.n = ordered'
      BY DEF ProfileTypeOK
    <3> HIDE DEF e
    <3>2. /\ orders'[s] = Append(orders[s], e)
          /\ \A q \in Servers \ {s} : orders'[q] = orders[q]
      BY <2>4 DEF ProfileTypeOK
    <3>3. /\ Len(orders'[s]) = Len(orders[s]) + 1 /\ Len(orders[s]) \in Nat
          /\ orders'[s][Len(orders[s]) + 1] = e
          /\ \A i \in 1..Len(orders[s]) : orders'[s][i] = orders[s][i]
      BY <3>1, <3>2
    <3>4. \A i \in 1..Len(orders'[s]) : i \in 1..Len(orders[s]) \/ i = Len(orders[s]) + 1
      BY <3>3
    <3>5. \A i \in 1..Len(orders'[s]) : orders'[s][i].n \in 1..ordered'
      BY <1>2, <2>2, <3>1, <3>3, <3>4
    <3>6. \A q \in Servers : \A i \in 1..Len(orders'[q]) : orders'[q][i].n \in 1..ordered'
      BY <2>2, <3>2, <3>5
    <3> QED BY <2>1, <3>6 DEF NumbersInv
  <2> QED BY <2>3, <2>4 DEF Order
<1> QED BY <1>3, <1>4, <1>5 DEF SnapshotInv

\* What the monitor sends begins behind what it has sent.
LEMMA MonitorHandlerSnapshot ==
  ASSUME ProfileTypeOK, SnapshotInv, NEW s \in Servers, MonitorHandler(s)
  PROVE  SnapshotInv'
<1> DEFINE o == Head(orders[s])
<1>1. /\ orders[s] \in Seq(Order0) /\ orders[s] # <<>> /\ o \in Order0 /\ o = orders[s][1]
      /\ orders' = [orders EXCEPT ![s] = Tail(orders[s])]
      /\ notices[s] \in Seq(Notice0)
      /\ notices' = [notices EXCEPT ![s] = notices[s] \o Handled(o)]
      /\ UNCHANGED <<heap, broken, ordered>>
  BY MonitorHandlerMeans DEF storeVars, boundVars
<1>2. /\ orders'[s] = Tail(orders[s]) /\ \A q \in Servers \ {s} : orders'[q] = orders[q]
      /\ notices'[s] = notices[s] \o Handled(o) /\ \A q \in Servers \ {s} : notices'[q] = notices[q]
  BY <1>1 DEF ProfileTypeOK
<1> HIDE DEF o
<1>3. /\ Row(notices'[s])
      /\ notices[s] # <<>> => notices'[s] # <<>> /\ Head(notices'[s]) = Head(notices[s])
      /\ notices[s] = <<>> /\ notices'[s] # <<>> => ~Mid(Head(notices'[s]))
  <2> DEFINE q == notices[s]
  <2>1. q \in Seq(Notice0) /\ Row(q) /\ o \in Order0 /\ notices'[s] = q \o Handled(o)
    BY <1>1, <1>2 DEF SnapshotInv, RowsInv
  <2> HIDE DEF q
  <2>2. /\ Row(q \o Handled(o))
        /\ q # <<>> => q \o Handled(o) # <<>> /\ Head(q \o Handled(o)) = Head(q)
        /\ q = <<>> /\ q \o Handled(o) # <<>> => ~Mid(Head(q \o Handled(o)))
    BY <2>1, HandledBehind, Zenon
  <2> QED BY <2>1, <2>2, Zenon DEF q
<1>4. RowsInv'
  BY <1>2, <1>3 DEF SnapshotInv, RowsInv
<1>5. StoreInv'
  <2>1. Begun(s)' <=> Begun(s)
    BY <1>3 DEF Begun
  <2>2. Begun(s) => Head(notices'[s]) = Head(notices[s])
    BY <1>3 DEF Begun
  <2>3. \A q \in Servers \ {s} : (Begun(q)' <=> Begun(q)) /\ notices'[q] = notices[q]
    BY <1>2 DEF Begun
  <2> QED BY <1>1, <2>1, <2>2, <2>3 DEF SnapshotInv, StoreInv
<1>6. NumbersInv'
  <2>1. /\ 1 \in 1..Len(orders[s]) /\ Len(Tail(orders[s])) = Len(orders[s]) - 1 /\ Len(orders[s]) \in Nat
        /\ \A i \in 1..(Len(orders[s]) - 1) : Tail(orders[s])[i] = orders[s][i + 1] /\ i + 1 \in 1..Len(orders[s])
    BY <1>1
  <2>2. \A i \in 1..Len(orders'[s]) : orders'[s][i].n \in 1..ordered
    BY <1>2, <2>1 DEF SnapshotInv, NumbersInv
  <2>3. o.n \in 1..ordered
    BY <1>1, <2>1 DEF SnapshotInv, NumbersInv
  <2>4. Handled(o) \in Seq(Notice0) /\ \A i \in 1..Len(Handled(o)) : Handled(o)[i].n = o.n
    BY <1>1, HandledRow
  <2> DEFINE h == Handled(o)
             a == notices[s]
  <2>0. /\ a \in Seq(Notice0) /\ h \in Seq(Notice0)
        /\ \A i \in 1..Len(h) : h[i].n \in 1..ordered
        /\ \A i \in 1..Len(a) : a[i].n \in 1..ordered
        /\ notices'[s] = a \o h /\ ordered' = ordered
    BY <1>1, <1>2, <2>3, <2>4 DEF SnapshotInv, NumbersInv
  <2> HIDE DEF h, a
  <2>5. /\ Len(a \o h) = Len(a) + Len(h) /\ Len(a) \in Nat /\ Len(h) \in Nat
        /\ \A i \in 1..Len(a) : (a \o h)[i] = a[i]
        /\ \A i \in 1..Len(h) : (a \o h)[Len(a) + i] = h[i]
    BY <2>0
  <2>6. ASSUME NEW i \in 1..Len(a \o h) PROVE (a \o h)[i].n \in 1..ordered
    <3>1. CASE i \in 1..Len(a)
      BY <2>0, <2>5, <3>1
    <3>2. CASE i \notin 1..Len(a)
      <4>1. i - Len(a) \in 1..Len(h) /\ Len(a) + (i - Len(a)) = i
        BY <2>5, <3>2
      <4>2. (a \o h)[i] = h[i - Len(a)]
        BY <2>5, <4>1
      <4> QED BY <2>0, <4>1, <4>2
    <3> QED BY <3>1, <3>2
  <2>7. \A i \in 1..Len(notices'[s]) : notices'[s][i].n \in 1..ordered
    BY <2>0, <2>6
  <2>8. ASSUME NEW q \in Servers
        PROVE  /\ \A i \in 1..Len(orders'[q]) : orders'[q][i].n \in 1..ordered
               /\ \A i \in 1..Len(notices'[q]) : notices'[q][i].n \in 1..ordered
    <3>1. CASE q = s
      BY <2>2, <2>7, <3>1
    <3>2. CASE q # s
      <4>1. orders'[q] = orders[q] /\ notices'[q] = notices[q]
        BY <1>2, <3>2
      <4> QED BY <4>1 DEF SnapshotInv, NumbersInv
    <3> QED BY <3>1, <3>2
  <2> QED BY <2>0, <2>8 DEF NumbersInv
<1> QED BY <1>4, <1>5, <1>6 DEF SnapshotInv

\* A part that gets the chunk behind it; the first chunk; the last one.
LEMMA Parts ==
  ASSUME NEW n
  PROVE  /\ \A k \in Nat : Append(Part(n, k), <<n, k + 1>>) = Part(n, k + 1)
         /\ Append(<<>>, <<n, 1>>) = Part(n, 1)
         /\ Part(n, Chunks) = Whole(n)
<1>1. ASSUME NEW k \in Nat PROVE Append(Part(n, k), <<n, k + 1>>) = Part(n, k + 1)
  <2>1. Part(n, k) \in Seq({<<n, i>> : i \in 1..(k + 1)}) /\ Len(Part(n, k)) = k
    BY DEF Part
  <2>2. /\ Append(Part(n, k), <<n, k + 1>>) \in Seq({<<n, i>> : i \in 1..(k + 1)})
        /\ Len(Append(Part(n, k), <<n, k + 1>>)) = k + 1
        /\ Append(Part(n, k), <<n, k + 1>>)[k + 1] = <<n, k + 1>>
        /\ \A i \in 1..k : Append(Part(n, k), <<n, k + 1>>)[i] = <<n, i>>
    <3>1. <<n, k + 1>> \in {<<n, i>> : i \in 1..(k + 1)}
      OBVIOUS
    <3>2. \A i \in 1..k : Part(n, k)[i] = <<n, i>>
      BY DEF Part
    <3> QED BY <2>1, <3>1, <3>2, AppendProperties
  <2>3. /\ Part(n, k + 1) \in Seq({<<n, i>> : i \in 1..(k + 1)}) /\ Len(Part(n, k + 1)) = k + 1
        /\ \A i \in 1..(k + 1) : Part(n, k + 1)[i] = <<n, i>>
    BY DEF Part
  <2>4. ASSUME NEW i \in 1..(k + 1)
        PROVE  Append(Part(n, k), <<n, k + 1>>)[i] = Part(n, k + 1)[i]
    <3>1. i \in 1..k \/ i = k + 1
      OBVIOUS
    <3>2. k + 1 \in 1..(k + 1)
      OBVIOUS
    <3> QED BY <2>2, <2>3, <3>1, <3>2
  <2> QED BY <2>2, <2>3, <2>4, SeqEqual
<1>2. Part(n, 0) = <<>>
  BY DEF Part
<1>3. Append(<<>>, <<n, 1>>) = Part(n, 1)
  <2>1. Append(Part(n, 0), <<n, 0 + 1>>) = Part(n, 0 + 1)
    BY <1>1
  <2>2. 0 + 1 = 1
    OBVIOUS
  <2> QED BY <1>2, <2>1, <2>2
<1> QED BY <1>1, <1>3 DEF Part, Whole

\* What is behind a chunk belongs to the same snapshot.
LEMMA BehindChunk ==
  ASSUME NEW m \in Notice0, Open(m)
  PROVE  Mid(Behind(m)) /\ Behind(m).n = m.n /\ Before(Behind(m)) = m.chunk /\ m.chunk \in 1..Chunks
<1>1. m.chunk \in 1..Chunks /\ Chunks \in Nat
  BY ProfileAssumption DEF Notice0, Open
<1>2. CASE m.chunk = Chunks
  <2>1. Behind(m) = Notice(m.n, 0)
    BY <1>2 DEF Behind
  <2> QED BY <1>1, <1>2, <2>1 DEF Mid, Before, Notice
<1>3. CASE m.chunk # Chunks
  <2>1. Behind(m) = Notice(m.n, m.chunk + 1)
    BY <1>3 DEF Behind
  <2>2. m.chunk + 1 # 1 /\ m.chunk + 1 # 0 /\ (m.chunk + 1) - 1 = m.chunk
    BY <1>1
  <2>3. Behind(m).type = "heap" /\ Behind(m).n = m.n /\ Behind(m).chunk = m.chunk + 1
    BY <2>1 DEF Notice
  <2> QED BY <1>1, <2>2, <2>3 DEF Mid, Before
<1> QED BY <1>2, <1>3

\* A message of a snapshot, stored.
LEMMA TakesSnapshot ==
  ASSUME ProfileTypeOK, SnapshotInv, NEW s \in Servers, s \notin broken',
         notices[s] # <<>>, notices'[s] = Tail(notices[s]), UNCHANGED ordered,
         Head(notices[s]).type = "heap", TakeSnapCallBack(s, Head(notices[s]))
  PROVE  StoreOf(s)'
<1> DEFINE m == Head(notices[s])
           h == OpenProfile(s)
           t == notices'[s]
<1>1. /\ m \in Notice0 /\ m = notices[s][1] /\ 1 \in 1..Len(notices[s])
      /\ Open(m) => t # <<>> /\ Head(t) = Behind(m)
      /\ ~Open(m) /\ t # <<>> => ~Mid(Head(t))
  <2>1. notices[s] \in Seq(Notice0) /\ Row(notices[s])
    BY DEF ProfileTypeOK, SnapshotInv, RowsInv
  <2>2. Head(notices[s]) = notices[s][1] /\ 1 \in 1..Len(notices[s])
    BY <2>1
  <2> QED BY <2>1, <2>2, RowTail
<1>2. /\ heap'[s] = Stored(h, m) /\ h \in Profile /\ Stored(h, m) \in Profile
      /\ broken' = IF m.chunk = 1 /\ h = Fresh THEN broken \ {s} ELSE broken
      /\ h = IF heap[s] = NONE \/ heap[s].finish THEN Fresh ELSE heap[s]
  <2>1. h \in Profile
    BY OpenProfileType
  <2>2. Stored(h, m) \in Profile
    BY <1>1, <2>1, StoredType
  <2> QED BY <2>1, <2>2 DEF TakeSnapCallBack, ProfileTypeOK, OpenProfile
<1>3. m.n \in 1..ordered /\ m.type = "heap"
  BY <1>1 DEF SnapshotInv, NumbersInv
<1>4. s \notin broken => StoreOf(s)
  BY DEF SnapshotInv, StoreInv, StoreOf
<1>5. Begun(s) <=> Mid(m)
  BY DEF Begun
<1>6. heap'[s] # NONE
  BY <1>2, NoProfileAssumption
<1>7. /\ Begun(s)' <=> t # <<>> /\ Mid(Head(t))
      /\ StoreOf(s)' <=>
           /\ Begun(s)' => /\ heap'[s] # NONE /\ ~heap'[s].finish
                           /\ heap'[s].data = Part(Head(t).n, Before(Head(t)))
           /\ ~Begun(s)' => \/ heap'[s] = NONE
                            \/ heap'[s].finish /\ \E n \in 1..ordered' : heap'[s].data = Whole(n)
  BY DEF Begun, StoreOf
<1> HIDE DEF m, h, t
\* It is the part before the message that is open, with a chunk more if that is a chunk.
<1>8. /\ ~h.finish
      /\ h.data = IF m.chunk = 1 THEN <<>> ELSE Part(m.n, Before(m))
  <2>1. CASE m.chunk = 1
    <3>1. s \notin broken => h = Fresh
      BY <1>2, <1>4, <1>5, <2>1 DEF StoreOf, Mid
    <3>2. h = Fresh
      BY <1>2, <3>1
    <3> QED BY <2>1, <3>2 DEF Fresh
  <2>2. CASE m.chunk # 1
    <3>1. s \notin broken /\ Begun(s)
      BY <1>2, <1>3, <1>5, <2>2 DEF Mid
    <3>2. h = heap[s]
      BY <1>2, <1>4, <3>1 DEF StoreOf
    <3> QED BY <1>4, <2>2, <3>1, <3>2 DEF StoreOf, m
  <2> QED BY <2>1, <2>2
<1>9. CASE m.chunk = 0
  <2>1. ~Begun(s)'
    BY <1>1, <1>7, <1>9 DEF Open
  <2>2. heap'[s].finish /\ heap'[s].data = h.data
    BY <1>1, <1>2, <1>9, StoredType
  <2>3. h.data = Whole(m.n)
    BY <1>8, <1>9, Parts DEF Before
  <2> QED BY <1>3, <1>7, <2>1, <2>2, <2>3
<1>10. CASE m.chunk # 0
  <2>1. Open(m)
    BY <1>3, <1>10 DEF Open
  <2>2. Mid(Behind(m)) /\ Behind(m).n = m.n /\ Before(Behind(m)) = m.chunk /\ m.chunk \in 1..Chunks
    BY <1>1, <2>1, BehindChunk
  <2>3. heap'[s].data = Append(h.data, <<m.n, m.chunk>>) /\ heap'[s].finish = h.finish
    <3>1. m \in Notice0 /\ h \in Profile /\ heap'[s] = Stored(h, m)
      BY <1>1, <1>2
    <3>2. /\ Stored(h, m).data = Append(h.data, <<m.n, m.chunk>>)
          /\ Stored(h, m).finish = h.finish
      BY <1>10, <3>1, StoredType, Zenon
    <3> QED BY <3>1, <3>2
  <2>4. heap'[s].data = Part(m.n, m.chunk)
    <3>1. CASE m.chunk = 1
      BY <1>8, <2>3, <3>1, Parts
    <3>2. CASE m.chunk # 1
      <4>1. h.data = Part(m.n, m.chunk - 1)
        BY <1>8, <1>10, <3>2 DEF Before
      <4>2. m.chunk - 1 \in Nat /\ (m.chunk - 1) + 1 = m.chunk
        BY <2>2, ProfileAssumption
      <4>3. Append(Part(m.n, m.chunk - 1), <<m.n, (m.chunk - 1) + 1>>) = Part(m.n, (m.chunk - 1) + 1)
        BY <4>2, Parts
      <4> QED BY <2>3, <4>1, <4>2, <4>3
    <3> QED BY <3>1, <3>2
  <2> QED BY <1>1, <1>6, <1>7, <1>8, <2>1, <2>2, <2>3, <2>4
<1> QED BY <1>9, <1>10

\* A message that leaves its row: the other rows, and what of its own is behind it, stay.
LEMMA HeadLeaves ==
  ASSUME ProfileTypeOK, SnapshotInv, NEW s \in Servers, notices[s] # <<>>,
         notices' = [notices EXCEPT ![s] = Tail(@)], UNCHANGED <<orders, ordered>>
  PROVE  /\ RowsInv' /\ NumbersInv'
         /\ notices'[s] = Tail(notices[s])
         /\ \A q \in Servers \ {s} : notices'[q] = notices[q]
         /\ ~Open(Head(notices[s])) /\ notices'[s] # <<>> => ~Mid(Head(notices'[s]))
<1>1. /\ notices[s] # <<>> /\ notices[s] \in Seq(Notice0) /\ Row(notices[s])
      /\ notices'[s] = Tail(notices[s])
      /\ \A q \in Servers \ {s} : notices'[q] = notices[q]
      /\ UNCHANGED <<orders, ordered>>
  BY DEF ProfileTypeOK, SnapshotInv, RowsInv
<1>2. /\ Row(Tail(notices[s])) /\ Tail(notices[s]) \in Seq(Notice0) /\ Head(notices[s]) \in Notice0
      /\ ~Open(Head(notices[s])) /\ Tail(notices[s]) # <<>> => ~Mid(Head(Tail(notices[s])))
  BY <1>1, RowTail
<1>3. RowsInv'
  BY <1>1, <1>2 DEF SnapshotInv, RowsInv
<1>4. NumbersInv'
  <2> DEFINE a == notices[s]
             t == Tail(notices[s])
  <2>1. \A i \in 1..Len(a) : a[i].n \in 1..ordered
    BY DEF SnapshotInv, NumbersInv
  <2>2. \A i \in 1..Len(t) : i + 1 \in 1..Len(a) /\ t[i] = a[i + 1]
    BY <1>1
  <2>3. \A i \in 1..Len(t) : t[i].n \in 1..ordered
    BY <2>1, <2>2
  <2>4. ASSUME NEW q \in Servers
        PROVE  \A i \in 1..Len(notices'[q]) : notices'[q][i].n \in 1..ordered
    <3>1. CASE q = s
      BY <1>1, <2>3, <3>1
    <3>2. CASE q # s
      <4>1. notices'[q] = notices[q]
        BY <1>1, <3>2
      <4> QED BY <4>1 DEF SnapshotInv, NumbersInv
    <3> QED BY <3>1, <3>2
  <2> QED BY <1>1, <2>4 DEF SnapshotInv, NumbersInv
<1> QED BY <1>1, <1>2, <1>3, <1>4

\* A message that leaves the snapshots alone, as one of a CPU profile does: what is behind
\* it is not the middle of a snapshot.
LEMMA OtherLeaves ==
  ASSUME ProfileTypeOK, SnapshotInv, NEW s \in Servers, notices[s] # <<>>,
         notices' = [notices EXCEPT ![s] = Tail(@)], UNCHANGED <<heap, ordered, orders>>,
         Head(notices[s]).type # "heap", s \notin broken
  PROVE  StoreOf(s)'
<1>1. ~Mid(Head(notices[s])) /\ ~Open(Head(notices[s]))
  BY DEF Mid, Open
<1>2. ~Begun(s) /\ ~Begun(s)'
  BY <1>1, HeadLeaves DEF Begun
<1> QED BY <1>2 DEF SnapshotInv, StoreInv, StoreOf

\* The master handles a message.
LEMMA MasterHandlerSnapshot ==
  ASSUME ProfileTypeOK, SnapshotInv, NEW s \in Servers, MasterHandler(s)
  PROVE  SnapshotInv'
<1>1. /\ notices[s] # <<>> /\ notices' = [notices EXCEPT ![s] = Tail(@)]
      /\ UNCHANGED <<orders, ordered>>
  BY DEF MasterHandler, boundVars
<1>2. /\ RowsInv' /\ NumbersInv'
      /\ notices'[s] = Tail(notices[s])
      /\ \A q \in Servers \ {s} : notices'[q] = notices[q]
  BY <1>1, HeadLeaves
<1>5. ASSUME NEW q \in Servers \ {s}, q \notin broken', heap'[q] = heap[q],
             q \in broken' <=> q \in broken
      PROVE  StoreOf(q)'
  <2>1. StoreOf(q)
    BY <1>5 DEF SnapshotInv, StoreInv, StoreOf
  <2>2. notices'[q] = notices[q] /\ ordered' = ordered
    BY <1>1, <1>2
  <2> QED BY <1>5, <2>1, <2>2 DEF StoreOf, Begun
<1>3. \A q \in Servers \ broken' : StoreOf(q)'
  <2>1. CASE Head(notices[s]).type = "CPU" /\ StopCallBack(s)
    <3>1. UNCHANGED <<heap, broken>>
      BY <2>1 DEF StopCallBack
    <3>4. s \notin broken' => StoreOf(s)'
      BY <1>1, <2>1, <3>1, OtherLeaves
    <3> QED BY <1>5, <3>1, <3>4
  <2>2. CASE Head(notices[s]).type = "heap" /\ TakeSnapCallBack(s, Head(notices[s]))
    <3>1. s \notin broken' => StoreOf(s)'
      BY <1>1, <1>2, <2>2, TakesSnapshot
    <3>2. \A q \in Servers \ {s} : heap'[q] = heap[q] /\ (q \in broken' <=> q \in broken)
      BY <2>2 DEF TakeSnapCallBack, ProfileTypeOK
    <3> QED BY <1>5, <3>1, <3>2
  <2> QED BY <2>1, <2>2 DEF MasterHandler
<1>4. StoreInv'
  BY <1>3 DEF StoreInv, StoreOf
<1> QED BY <1>2, <1>4 DEF SnapshotInv

\* The master ignores a message: the snapshot it is of is broken off.
LEMMA IgnoresSnapshot ==
  ASSUME ProfileTypeOK, SnapshotInv, NEW s \in Servers, Ignores(s)
  PROVE  SnapshotInv'
<1>1. /\ notices[s] # <<>> /\ notices' = [notices EXCEPT ![s] = Tail(@)]
      /\ UNCHANGED <<heap, ordered, orders>>
      /\ broken' = IF Head(notices[s]).type = "heap" THEN broken \cup {s} ELSE broken
  BY DEF Ignores, storeVars
<1>2. /\ RowsInv' /\ NumbersInv'
      /\ \A q \in Servers \ {s} : notices'[q] = notices[q]
  BY <1>1, HeadLeaves
<1>3. ASSUME NEW q \in Servers \ broken' PROVE StoreOf(q)'
  <2>1. q \notin broken /\ StoreOf(q)
    BY <1>1, <1>3 DEF SnapshotInv, StoreInv, StoreOf
  <2>2. CASE q = s
    BY <1>1, <1>3, <2>1, <2>2, OtherLeaves
  <2>3. CASE q # s
    BY <1>1, <1>2, <2>1, <2>3 DEF StoreOf, Begun
  <2> QED BY <2>2, <2>3
<1> QED BY <1>2, <1>3 DEF SnapshotInv, StoreInv, StoreOf

\* The store is cleared: what was arriving is broken off.
LEMMA ClearSnapshot ==
  ASSUME ProfileTypeOK, SnapshotInv, ClearProfiles
  PROVE  SnapshotInv'
<1>1. /\ UNCHANGED <<notices, orders, ordered>>
      /\ heap' = [s \in Servers |-> NONE]
      /\ broken' = broken \cup {s \in Servers : Arriving(s)}
  BY DEF ClearProfiles, linkVars
<1>2. RowsInv' /\ NumbersInv'
  BY <1>1 DEF SnapshotInv, RowsInv, NumbersInv
<1>3. ASSUME NEW s \in Servers \ broken' PROVE StoreOf(s)'
  <2>1. ~Begun(s)'
    BY <1>1, <1>3 DEF Begun, Mid, Arriving
  <2> QED BY <1>1, <2>1 DEF StoreOf
<1> QED BY <1>2, <1>3 DEF SnapshotInv, StoreInv, StoreOf

\* A connection is lost, with all that is under way: so is what was arriving.
LEMMA DisconnectsSnapshot ==
  ASSUME ProfileTypeOK, SnapshotInv, NEW s \in Servers, Disconnects(s)
  PROVE  SnapshotInv'
<1>1. /\ UNCHANGED <<heap, ordered>>
      /\ notices'[s] = <<>> /\ orders'[s] = <<>>
      /\ \A q \in Servers \ {s} : notices'[q] = notices[q] /\ orders'[q] = orders[q]
      /\ broken' = IF Arriving(s) THEN broken \cup {s} ELSE broken
  BY DEF Disconnects, ProfileTypeOK, storeVars
<1>2. RowsInv'
  BY <1>1 DEF SnapshotInv, RowsInv, Row
<1>3. NumbersInv'
  BY <1>1 DEF SnapshotInv, NumbersInv
<1>4. ASSUME NEW q \in Servers \ broken' PROVE StoreOf(q)'
  <2>1. q \notin broken /\ StoreOf(q)
    BY <1>1, <1>4 DEF SnapshotInv, StoreInv, StoreOf
  <2>2. CASE q = s
    <3>1. ~Begun(s)'
      BY <1>1 DEF Begun
    <3>2. ~Arriving(s)
      BY <1>1, <1>4, <2>2
    <3>3. ~Begun(s)
      BY <3>2 DEF Arriving, Begun, Mid
    <3> QED BY <1>1, <2>1, <2>2, <3>1, <3>3 DEF StoreOf
  <2>3. CASE q # s
    BY <1>1, <2>1, <2>3 DEF StoreOf, Begun
  <2> QED BY <2>2, <2>3
<1> QED BY <1>2, <1>3, <1>4 DEF SnapshotInv, StoreInv, StoreOf

\* Every step keeps snapshots apart.
LEMMA StepSnapshot ==
  ASSUME ProfileTypeOK, SnapshotInv, [Next]_vars
  PROVE  SnapshotInv'
<1>1. CASE UNCHANGED vars
  BY <1>1, SameSnapshot DEF vars, storeVars, linkVars, boundVars
<1>2. ASSUME NEW s \in Servers, NEW o, Order(s, o) PROVE SnapshotInv'
  BY <1>2, OrderSnapshot
<1>3. ASSUME NEW p \in Polls, IntervalTimer(p) \/ \E t \in {"HEAP", "CPU"}, s \in Servers : GetProfile(p, t, s)
      PROVE  SnapshotInv'
  BY <1>3, SameSnapshot DEF IntervalTimer, GetProfile, storeVars, linkVars, boundVars
<1>4. CASE \E s \in Servers : Registers(s)
  BY <1>4, SameSnapshot DEF Registers, storeVars, boundVars
<1>5. CASE \E s \in Servers :
             Disconnects(s) \/ MonitorHandler(s) \/ MasterHandler(s) \/ Ignores(s)
  BY <1>5, DisconnectsSnapshot, MonitorHandlerSnapshot, MasterHandlerSnapshot, IgnoresSnapshot
<1>6. CASE ClientCalls
  BY <1>2, <1>3, <1>6, ClearSnapshot DEF ClientCalls
<1> QED BY <1>1, <1>3, <1>4, <1>5, <1>6 DEF Next

\* The beginning of a snapshot, as OneSnapshot says it.
LEMMA PartIsPrefix ==
  ASSUME NEW n, NEW k \in 0..Chunks
  PROVE  IsPrefix(Part(n, k), Whole(n))
<1>1. Chunks \in Nat /\ k \in Nat /\ k <= Chunks
  BY ProfileAssumption
<1>2. /\ Len(Part(n, k)) = k /\ Len(Whole(n)) = Chunks
      /\ \A i \in 1..k : Part(n, k)[i] = <<n, i>> /\ Whole(n)[i] = <<n, i>>
  BY <1>1 DEF Part, Whole
<1>3. SubSeq(Whole(n), 1, k) = [i \in 1..k |-> Whole(n)[i]]
  BY <1>1, <1>2
<1>4. SubSeq(Whole(n), 1, k) = Part(n, k)
  BY <1>2, <1>3 DEF Part
<1> QED BY <1>1, <1>2, <1>4 DEF IsPrefix

\* In every state what is stored of a snapshot that was not interrupted is the beginning of
\* that snapshot alone, and all of it once it counts as finished.
THEOREM SnapshotsApart == Spec => []OneSnapshot
<1>1. ProfileTypeOK /\ SnapshotInv => OneSnapshot
  <2>1. SUFFICES ASSUME ProfileTypeOK, SnapshotInv, NEW s \in Servers \ broken, heap[s] # NONE
                 PROVE  \E n \in 1..ordered : /\ IsPrefix(heap[s].data, Whole(n))
                                              /\ heap[s].finish => heap[s].data = Whole(n)
    BY DEF OneSnapshot
  <2>2. StoreOf(s)
    BY <2>1 DEF SnapshotInv, StoreInv, StoreOf
  <2>3. CASE Begun(s)
    <3> DEFINE m == Head(notices[s])
    <3>1. m \in Notice0 /\ m.n \in 1..ordered
      <4>1. notices[s] \in Seq(Notice0) /\ notices[s] # <<>>
        BY <2>1, <2>3 DEF ProfileTypeOK, Begun
      <4>2. m \in Notice0 /\ m = notices[s][1] /\ 1 \in 1..Len(notices[s])
        BY <4>1
      <4> QED BY <2>1, <4>2 DEF SnapshotInv, NumbersInv
    <3>2. Before(m) \in 0..Chunks
      <4>1. m.chunk \in 0..Chunks /\ Chunks \in Nat
        BY <3>1, ProfileAssumption DEF Notice0
      <4> QED BY <4>1 DEF Before
    <3>3. heap[s].data = Part(m.n, Before(m)) /\ ~heap[s].finish
      BY <2>2, <2>3 DEF StoreOf
    <3> HIDE DEF m
    <3> QED BY <3>1, <3>2, <3>3, PartIsPrefix
  <2>4. CASE ~Begun(s)
    <3>1. PICK n \in 1..ordered : heap[s].data = Whole(n)
      BY <2>1, <2>2, <2>4 DEF StoreOf
    <3>2. Whole(n) = Part(n, Chunks) /\ Chunks \in 0..Chunks
      BY ProfileAssumption, Parts
    <3> QED BY <3>1, <3>2, PartIsPrefix
  <2> QED BY <2>3, <2>4
<1>2. Spec => []ProfileTypeOK
  BY ProfileTypeCorrect
<1>3. ProfileTypeOK /\ SnapshotInv /\ [Next]_vars => SnapshotInv'
  BY StepSnapshot
<1> QED BY <1>1, <1>2, <1>3, InitSnapshot, PTL DEF Spec

-----------------------------------------------------------------------------
(***************************************************************************)
(* AnsweredOnce.                                                           *)
(***************************************************************************)
\* A call was answered if it was made and does not wait.
CallsInv ==
  \A p \in Polls : answers[p] = IF polls[p] = NONE \/ polls[p].timer THEN 0 ELSE 1

\* The interval is cleared by the one that answers, so that a call is answered once.
THEOREM CallsAnsweredOnce == Spec => []AnsweredOnce
<1>1. Init => CallsInv
  BY DEF Init, CallsInv
<1>2. ASSUME ProfileTypeOK, CallsInv, [Next]_vars PROVE CallsInv'
  <2>1. CASE UNCHANGED <<polls, answers>>
    BY <1>2, <2>1 DEF CallsInv
  <2>2. ASSUME NEW p \in Polls, NEW t \in {"HEAP", "CPU"}, NEW s \in Servers, GetProfile(p, t, s)
        PROVE  CallsInv'
    <3>1. \A b \in BOOLEAN : [type |-> t, uid |-> s, timer |-> b] # NONE
      BY NoProfileAssumption DEF Poll
    <3>2. answers[p] = 0
      BY <1>2, <2>2 DEF CallsInv, GetProfile
    <3>3. PICK b \in BOOLEAN :
            /\ polls' = [polls EXCEPT ![p] = [type |-> t, uid |-> s, timer |-> b]]
            /\ answers' = [answers EXCEPT ![p] = IF b THEN 0 ELSE 1]
      <4>1. AsyncGet(p) <=> answers' = [answers EXCEPT ![p] = 1]
        BY <3>2 DEF AsyncGet
      <4>2. UNCHANGED answers => answers' = [answers EXCEPT ![p] = 0]
        BY <1>2, <3>2 DEF ProfileTypeOK
      <4> QED BY <2>2, <4>1, <4>2 DEF GetProfile
    <3> DEFINE poll == [type |-> t, uid |-> s, timer |-> b]
    <3>4. poll # NONE /\ poll.timer = b
      BY <3>1
    <3> HIDE DEF poll
    <3>5. /\ polls'[p] = poll /\ answers'[p] = IF b THEN 0 ELSE 1
          /\ \A q \in Polls \ {p} : polls'[q] = polls[q] /\ answers'[q] = answers[q]
      BY <1>2, <3>3 DEF ProfileTypeOK, poll
    <3> QED BY <1>2, <3>4, <3>5 DEF CallsInv
  <2>3. ASSUME NEW p \in Polls, IntervalTimer(p) PROVE CallsInv'
    <3>1. polls[p] \in Poll /\ polls[p].timer /\ answers[p] = 0
      BY <1>2, <2>3 DEF CallsInv, IntervalTimer, ProfileTypeOK
    <3>2. [polls[p] EXCEPT !.timer = FALSE] \in Poll /\ ~[polls[p] EXCEPT !.timer = FALSE].timer
      BY <3>1 DEF Poll
    <3>3. [polls[p] EXCEPT !.timer = FALSE] # NONE
      BY <3>2, NoProfileAssumption
    <3>4. /\ polls' = [polls EXCEPT ![p] = [polls[p] EXCEPT !.timer = FALSE]]
          /\ answers' = [answers EXCEPT ![p] = answers[p] + 1]
      BY <2>3 DEF IntervalTimer, Interval, AsyncGet
    <3>5. polls'[p] = [polls[p] EXCEPT !.timer = FALSE] /\ answers'[p] = 1
          /\ \A q \in Polls \ {p} : polls'[q] = polls[q] /\ answers'[q] = answers[q]
      BY <1>2, <3>1, <3>4 DEF ProfileTypeOK
    <3> QED BY <1>2, <3>2, <3>3, <3>5 DEF CallsInv
  <2>4. CASE ClientCalls
    BY <2>1, <2>2, <2>4 DEF ClientCalls, Order, ClearProfiles
  <2>5. CASE \E s \in Servers : \/ Registers(s) \/ Disconnects(s)
                               \/ MonitorHandler(s) \/ MasterHandler(s) \/ Ignores(s)
    BY <2>1, <2>5 DEF Registers, Disconnects, MonitorHandler, MasterHandler, Ignores
  <2> QED BY <1>2, <2>1, <2>3, <2>4, <2>5 DEF Next, vars
<1>3. CallsInv => AnsweredOnce
  BY DEF CallsInv, AnsweredOnce
<1> QED BY <1>1, <1>2, <1>3, ProfileTypeCorrect, PTL DEF Spec

=============================================================================
