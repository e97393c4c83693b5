-------------------------- MODULE MasterAgentProofs --------------------------
(***************************************************************************)
(* Theorems about MasterAgent for every set of connections, servers and    *)
(* clients, every bound, and both kinds of auth functions.                 *)
(***************************************************************************)
EXTENDS MasterAgent, SequenceTheorems, FiniteSetTheorems, WellFoundedInduction, TLAPS

(***************************************************************************)
(* Lists.                                                                  *)
(***************************************************************************)
\* A set of indexes has a least element, the one Min chooses.
LEMMA LeastIndex ==
  ASSUME NEW n \in Nat, NEW I, I \subseteq 1..n, I # {}
  PROVE  Min(I) \in I /\ \A j \in I : Min(I) <= j
<1>1. I \subseteq Nat
  OBVIOUS
<1>2. \E x \in I : \A y \in I : ~ (<<y, x>> \in OpToRel(<, Nat))
  BY <1>1, WFMin, NatLessThanWellFounded
<1>3. PICK x \in I : \A y \in I : ~ (<<y, x>> \in OpToRel(<, Nat))
  BY <1>2
<1>4. \A y \in I : x <= y
  <2>1. TAKE y \in I
  <2>2. x \in Nat /\ y \in Nat
    BY <1>1
  <2>3. ~ (y < x)
    BY <1>3, <2>2 DEF OpToRel
  <2>4. QED
    BY <2>2, <2>3
<1>5. QED
  BY <1>4 DEF Min

\* Taking one element out of a list leaves the others.
LEMMA RemoveAtProperties ==
  ASSUME NEW S, NEW list \in Seq(S), NEW i \in 1..Len(list)
  PROVE  /\ RemoveAt(list, i) \in Seq(S)
         /\ Len(RemoveAt(list, i)) = Len(list) - 1
         /\ \A j \in 1..(Len(list) - 1) :
              RemoveAt(list, i)[j] = IF j < i THEN list[j] ELSE list[j + 1]
<1> DEFINE a == SubSeq(list, 1, i - 1)
           b == SubSeq(list, i + 1, Len(list))
<1>1. /\ a \in Seq(S)
      /\ Len(a) = i - 1
      /\ \A j \in 1..(i - 1) : a[j] = list[j]
  OBVIOUS
<1>2. /\ b \in Seq(S)
      /\ Len(b) = Len(list) - i
      /\ \A j \in 1..(Len(list) - i) : b[j] = list[i + j]
  OBVIOUS
<1>3. RemoveAt(list, i) = a \o b
  BY DEF RemoveAt
<1> HIDE DEF a, b
<1>4. /\ a \o b \in Seq(S)
      /\ Len(a \o b) = Len(a) + Len(b)
      /\ \A j \in 1..(Len(a) + Len(b)) :
           (a \o b)[j] = IF j <= Len(a) THEN a[j] ELSE b[j - Len(a)]
  BY <1>1, <1>2, ConcatProperties
<1>5. Len(list) \in Nat /\ i \in Nat /\ Len(a) + Len(b) = Len(list) - 1
  BY <1>1, <1>2
<1>6. ASSUME NEW j \in 1..(Len(list) - 1)
      PROVE  (a \o b)[j] = IF j < i THEN list[j] ELSE list[j + 1]
  <2>1. CASE j < i
    BY <1>1, <1>4, <1>5, <2>1
  <2>2. CASE ~ (j < i)
    <3>1. j - (i - 1) \in 1..(Len(list) - i) /\ i + (j - (i - 1)) = j + 1
      BY <1>5, <2>2
    <3>2. (a \o b)[j] = b[j - (i - 1)]
      BY <1>1, <1>4, <1>5, <2>2
    <3>3. QED
      BY <1>2, <3>1, <3>2, <2>2
  <2>3. QED
    BY <2>1, <2>2
<1>7. QED
  BY <1>3, <1>4, <1>5, <1>6

\* What removing the first match leaves, for the three kinds of list.
LEMMA WithoutIdProperties ==
  ASSUME NEW list \in Seq(Records), NEW s
  PROVE  \/ /\ WithoutId(list, s) = list
            /\ \A j \in 1..Len(list) : list[j].id # s
         \/ \E i \in 1..Len(list) :
              /\ list[i].id = s
              /\ \A j \in 1..(i - 1) : list[j].id # s
              /\ WithoutId(list, s) = RemoveAt(list, i)
<1> DEFINE I == {j \in 1..Len(list) : list[j].id = s}
<1>1. CASE I = {}
  BY <1>1 DEF WithoutId, RemoveFirstMatch
<1>2. CASE I # {}
  <2>0. Len(list) \in Nat /\ I \subseteq 1..Len(list)
    OBVIOUS
  <2>1. Min(I) \in I /\ \A j \in I : Min(I) <= j
    <3> HIDE DEF I
    <3>1. QED
      BY <2>0, <1>2, LeastIndex
  <2>2. WithoutId(list, s) = RemoveAt(list, Min(I))
    BY <1>2 DEF WithoutId, RemoveFirstMatch, SelectInSeq
  <2>3. \A j \in 1..(Min(I) - 1) : j \notin I /\ j \in 1..Len(list)
    BY <2>1
  <2>4. QED
    BY <2>1, <2>2, <2>3
<1>3. QED
  BY <1>1, <1>2

\* The same for the loop over the slaves.
LEMMA WithoutAddrProperties ==
  ASSUME NEW list \in Seq(Records), NEW addr
  PROVE  \/ /\ WithoutAddr(list, addr) = list
            /\ \A j \in 1..Len(list) : list[j].addr # addr
         \/ \E i \in 1..Len(list) :
              /\ list[i].addr = addr
              /\ \A j \in 1..(i - 1) : list[j].addr # addr
              /\ WithoutAddr(list, addr) = RemoveAt(list, i)
<1> DEFINE I == {j \in 1..Len(list) : list[j].addr = addr}
<1>1. CASE I = {}
  BY <1>1 DEF WithoutAddr, RemoveFirstMatch
<1>2. CASE I # {}
  <2>0. Len(list) \in Nat /\ I \subseteq 1..Len(list)
    OBVIOUS
  <2>1. Min(I) \in I /\ \A j \in I : Min(I) <= j
    <3> HIDE DEF I
    <3>1. QED
      BY <2>0, <1>2, LeastIndex
  <2>2. WithoutAddr(list, addr) = RemoveAt(list, Min(I))
    BY <1>2 DEF WithoutAddr, RemoveFirstMatch, SelectInSeq
  <2>3. \A j \in 1..(Min(I) - 1) : j \notin I /\ j \in 1..Len(list)
    BY <2>1
  <2>4. QED
    BY <2>1, <2>2, <2>3
<1>3. QED
  BY <1>1, <1>2

\* The same for the removal of an answered request from its queue.
LEMMA RemoveFirstProperties ==
  ASSUME NEW S, NEW list \in Seq(S), NEW e
  PROVE  \/ /\ RemoveFirst(list, e) = list
            /\ \A j \in 1..Len(list) : list[j] # e
         \/ \E i \in 1..Len(list) :
              /\ list[i] = e
              /\ \A j \in 1..(i - 1) : list[j] # e
              /\ RemoveFirst(list, e) = RemoveAt(list, i)
<1> DEFINE I == {j \in 1..Len(list) : list[j] = e}
<1>1. CASE I = {}
  BY <1>1 DEF RemoveFirst
<1>2. CASE I # {}
  <2>0. Len(list) \in Nat /\ I \subseteq 1..Len(list)
    OBVIOUS
  <2>1. Min(I) \in I /\ \A j \in I : Min(I) <= j
    <3> HIDE DEF I
    <3>1. QED
      BY <2>0, <1>2, LeastIndex
  <2>2. RemoveFirst(list, e) = RemoveAt(list, Min(I))
    BY <1>2 DEF RemoveFirst, SelectInSeq
  <2>3. \A j \in 1..(Min(I) - 1) : j \notin I /\ j \in 1..Len(list)
    BY <2>1
  <2>4. QED
    BY <2>1, <2>2, <2>3
<1>3. QED
  BY <1>1, <1>2

\* What the removals return are lists of what was in the list.
LEMMA RemovalTypes ==
  /\ \A s : \A list \in Seq(Records) : WithoutId(list, s) \in Seq(Records)
  /\ \A addr : \A list \in Seq(Records) : WithoutAddr(list, addr) \in Seq(Records)
  /\ \A S, e : \A list \in Seq(S) : RemoveFirst(list, e) \in Seq(S)
<1>1. ASSUME NEW list \in Seq(Records), NEW s PROVE WithoutId(list, s) \in Seq(Records)
  BY WithoutIdProperties, RemoveAtProperties
<1>2. ASSUME NEW list \in Seq(Records), NEW addr PROVE WithoutAddr(list, addr) \in Seq(Records)
  BY WithoutAddrProperties, RemoveAtProperties
<1>3. ASSUME NEW S, NEW list \in Seq(S), NEW e PROVE RemoveFirst(list, e) \in Seq(S)
  BY RemoveFirstProperties, RemoveAtProperties
<1>4. QED
  BY <1>1, <1>2, <1>3

-----------------------------------------------------------------------------
(***************************************************************************)
(* Type correctness.                                                       *)
(***************************************************************************)
LEMMA MessageTypes ==
  /\ Register(PRO_OK) \in Message /\ Register(PRO_FAIL) \in Message
  /\ ReconnectOk(PRO_OK) \in Message /\ ReconnectOk(PRO_FAIL) \in Message
  /\ \A r \in ReqIds : RequestMsg(r) \in Message
  /\ \A kind \in Kinds : Plain(kind) \in Message
  /\ Disconnect \in Message
BY BoundAssumption
   DEF Register, ReconnectOk, RequestMsg, Plain, Disconnect, Message, Kinds, ReqIds, PRO_OK, PRO_FAIL

\* The replies, and replies followed by a repush.
LEMMA RepushType ==
  ASSUME TypeOK, NEW s \in Servers
  PROVE  Repush(s) \in Seq(Message)
<1>1. msgMap[s] \in Seq(ReqIds)
  BY DEF TypeOK
<1>2. \A i \in 1..Len(msgMap[s]) : RequestMsg(msgMap[s][i]) \in Message
  BY <1>1, MessageTypes
<1>3. DOMAIN msgMap[s] = 1..Len(msgMap[s]) /\ Len(msgMap[s]) \in Nat
  BY <1>1
<1>4. QED
  BY <1>2, <1>3 DEF Repush

\* A write keeps the type of sent.
LEMMA PutType ==
  ASSUME TypeOK, NEW c, NEW ms \in Seq(Message), Put(c, ms)
  PROVE  sent' \in [Conns -> Seq(Message)]
<1>1. sent \in [Conns -> Seq(Message)]
  BY DEF TypeOK
<1>2. \A d \in Conns : sent[d] \o ms \in Seq(Message)
  BY <1>1, ConcatProperties
<1>3. QED
  BY <1>1, <1>2 DEF Put

\* So does a broadcast.
LEMMA BroadcastType ==
  ASSUME TypeOK, NEW times \in [Conns -> Nat], NEW m \in Message, Broadcast(times, m)
  PROVE  sent' \in [Conns -> Seq(Message)]
<1>1. \A d \in Conns : sent[d] \in Seq(Message) /\ [i \in 1..times[d] |-> m] \in Seq(Message)
  <2>1. TAKE d \in Conns
  <2>2. times[d] \in Nat
    OBVIOUS
  <2>3. \A n \in Nat : [i \in 1..n |-> m] \in Seq(Message)
    OBVIOUS
  <2>4. QED
    BY <2>2, <2>3 DEF TypeOK
<1>2. \A d \in Conns : sent[d] \o [i \in 1..times[d] |-> m] \in Seq(Message)
  BY <1>1, ConcatProperties
<1>3. QED
  BY <1>1, <1>2 DEF Broadcast

\* A list of records is written to a number of times per connection.
LEMMA PerElementType ==
  ASSUME NEW list \in Seq(Records)
  PROVE  PerElement(list) \in [Conns -> Nat]
<1>1. DOMAIN list = 1..Len(list) /\ Len(list) \in Nat
  OBVIOUS
<1>2. IsFiniteSet(DOMAIN list)
  BY <1>1, FS_Interval
<1>3. ASSUME NEW c \in Conns
      PROVE  Cardinality({i \in DOMAIN list : list[i].socket = c}) \in Nat
  BY <1>2, FS_Subset, FS_CardinalityType
<1>4. QED
  BY <1>3 DEF PerElement

\* So is a map.
LEMMA PerKeyType ==
  ASSUME TypeOK
  PROVE  PerKey(idMap) \in [Conns -> Nat]
<1>1. IsFiniteSet(DOMAIN idMap)
  BY FiniteAssumption DEF TypeOK
<1>2. ASSUME NEW c \in Conns
      PROVE  Cardinality({k \in DOMAIN idMap : idMap[k] # NONE /\ idMap[k].socket = c}) \in Nat
  BY <1>1, FS_Subset, FS_CardinalityType
<1>3. QED
  BY <1>2 DEF PerKey

TablesOK ==
  /\ idMap \in [Servers -> Records \cup {NONE}]
  /\ typeMap \in [Types -> Seq(Records)]
  /\ slaveMap \in [Servers -> Seq(Records)]
  /\ clients \in [Users -> Conns \cup {NONE}]

\* A new record keeps the types of the tables.
LEMMA AddConnectionType ==
  ASSUME TypeOK, NEW c \in Conns, NEW p \in MonitorPeers, AddConnection(c, p)
  PROVE  TablesOK'
<1>1. Record(c, p) \in Records /\ p.id \in Servers /\ TypeOf[p.id] \in Types
  BY TypeAssumption DEF Record, Records, MonitorPeers
<1>2. TablesOK
  BY DEF TypeOK, TablesOK
<1>3. /\ Append(typeMap[TypeOf[p.id]], Record(c, p)) \in Seq(Records)
      /\ Append(slaveMap[p.id], Record(c, p)) \in Seq(Records)
  BY <1>1, <1>2 DEF TablesOK
<1>4. QED
  BY <1>1, <1>2, <1>3 DEF AddConnection, TablesOK

\* So does the removal of a monitor's record, whichever branch is taken.
LEMMA RemoveMonitorType ==
  ASSUME TypeOK, NEW s \in Servers, NEW addr, RemoveMonitor(s, addr)
  PROVE  TablesOK'
<1>1. TablesOK /\ TypeOf[s] \in Types
  BY TypeAssumption DEF TypeOK, TablesOK
<1>2. /\ WithoutId(typeMap[TypeOf[s]], s) \in Seq(Records)
      /\ WithoutAddr(slaveMap[s], addr) \in Seq(Records)
  BY <1>1, RemovalTypes DEF TablesOK
<1>3. CASE RemovePrimary(s)
  BY <1>1, <1>2, <1>3 DEF RemovePrimary, TablesOK
<1>4. CASE RemoveSlave(s, addr)
  BY <1>1, <1>2, <1>4 DEF RemoveSlave, TablesOK
<1>5. CASE UNCHANGED tables
  BY <1>1, <1>5 DEF tables, TablesOK
<1>6. QED
  BY <1>3, <1>4, <1>5 DEF RemoveMonitor

-----------------------------------------------------------------------------
(***************************************************************************)
(* One step per handler and API function.                                  *)
(***************************************************************************)
LEMMA InitType == Init => TypeOK
<1> SUFFICES ASSUME Init PROVE TypeOK
  OBVIOUS
<1>1. 1 \in 1..(MaxReq + 1) /\ 0 \in 0..MaxAsked
  BY BoundAssumption
<1>2. /\ typeMap \in [Types -> Seq(Records)]
      /\ slaveMap \in [Servers -> Seq(Records)]
      /\ msgMap \in [Servers -> Seq(ReqIds)]
      /\ sent \in [Conns -> Seq(Message)]
      /\ answered \in [ReqIds -> Seq(Servers)]
  <2>1. \A S : <<>> \in Seq(S)
    OBVIOUS
  <2>2. QED
    BY <2>1 DEF Init
<1>3. QED
  BY <1>1, <1>2 DEF Init, TypeOK

\* A connection opens.
LEMMA ConnectionType ==
  ASSUME TypeOK, NEW c \in Conns, Connection(c)
  PROVE  TypeOK'
BY DEF TypeOK, Connection, process, tables, requests, history

\* A monitor registers, is refused, or waits for the auth function.
LEMMA RegisterMonitorType ==
  ASSUME TypeOK, NEW c \in Conns, NEW p \in MonitorPeers, RegisterMonitor(c, p)
  PROVE  TypeOK'
<1>1. p.id \in Servers /\ p \in Peers
  BY DEF MonitorPeers, Peers
<1>2. TablesOK' /\ registered' \subseteq Conns /\ authing' \subseteq Conns
  <2>1. TablesOK /\ registered \subseteq Conns /\ authing \subseteq Conns
    BY DEF TypeOK, TablesOK
  <2>2. CASE AddConnection(c, p) /\ registered' = registered \cup {c} /\ UNCHANGED authing
    BY <2>1, <2>2, AddConnectionType
  <2>3. CASE UNCHANGED <<tables, registered>>
    BY <2>1, <2>3 DEF RegisterMonitor, tables, TablesOK
  <2>4. QED
    BY <2>2, <2>3 DEF RegisterMonitor
<1>3. sent' \in [Conns -> Seq(Message)]
  <2>1. \A a, b \in Message : <<a>> \in Seq(Message) /\ <<a, b>> \in Seq(Message)
    OBVIOUS
  <2>2. /\ <<Register(PRO_OK)>> \o Repush(p.id) \in Seq(Message)
        /\ <<Register(PRO_FAIL), Disconnect>> \o Repush(p.id) \in Seq(Message)
    BY <1>1, <2>1, RepushType, MessageTypes, ConcatProperties
  <2>3. QED
    BY <1>1, <2>2, RepushType, PutType DEF RegisterMonitor
<1>4. peer' \in [Conns -> Peers \cup {NONE}]
  BY <1>1 DEF TypeOK, RegisterMonitor
<1>5. QED
  BY <1>2, <1>3, <1>4 DEF TypeOK, TablesOK, RegisterMonitor, process, requests, history

\* The replies to a greeting are messages.
LEMMA ReplyTypes ==
  /\ <<>> \in Seq(Message)
  /\ \A a \in Message : <<a>> \in Seq(Message)
  /\ \A a, b \in Message : <<a, b>> \in Seq(Message)
OBVIOUS

\* The auth function answers for a monitor.
LEMMA AuthServerDoneType ==
  ASSUME TypeOK, NEW c \in Conns, AuthServerDone(c)
  PROVE  TypeOK'
<1>1. TablesOK' /\ registered' \subseteq Conns
  BY AddConnectionType DEF TypeOK, AuthServerDone, tables, TablesOK
<1>2. sent' \in [Conns -> Seq(Message)]
  BY ReplyTypes, MessageTypes, PutType DEF AuthServerDone
<1>3. QED
  BY <1>1, <1>2 DEF TypeOK, TablesOK, AuthServerDone, process, requests, history

\* Both outcomes of the registration of a client.
LEMMA AcceptClientType ==
  ASSUME TypeOK, NEW c \in Conns, NEW p \in ClientPeers, AcceptClient(c, p)
  PROVE  TablesOK' /\ registered' \subseteq Conns /\ sent' \in [Conns -> Seq(Message)]
<1>1. p.id \in Users
  BY DEF ClientPeers
<1>2. TablesOK' /\ registered' \subseteq Conns
  BY <1>1 DEF TypeOK, TablesOK, AcceptClient
<1>3. sent' \in [Conns -> Seq(Message)]
  BY ReplyTypes, MessageTypes, PutType DEF AcceptClient
<1>4. QED
  BY <1>2, <1>3

\* A client is refused, with a reply or without.
LEMMA RefuseClientType ==
  ASSUME TypeOK, NEW c \in Conns, RefuseClient(c)
  PROVE  TablesOK' /\ registered' \subseteq Conns /\ sent' \in [Conns -> Seq(Message)]
<1>1. TablesOK' /\ registered' \subseteq Conns
  BY DEF TypeOK, TablesOK, RefuseClient, tables
<1>2. \A reply \in {<<>>, <<Register(PRO_FAIL)>>} : reply \o <<Disconnect>> \in Seq(Message)
  BY ReplyTypes, MessageTypes, ConcatProperties
<1>3. QED
  BY <1>1, <1>2, PutType DEF RefuseClient

\* A client registers.
LEMMA RegisterClientType ==
  ASSUME TypeOK, NEW c \in Conns, NEW p \in ClientPeers, RegisterClient(c, p)
  PROVE  TypeOK'
<1>1. TablesOK' /\ registered' \subseteq Conns /\ sent' \in [Conns -> Seq(Message)]
  <2>1. CASE AcceptClient(c, p)
    BY <2>1, AcceptClientType
  <2>2. CASE RefuseClient(c)
    BY <2>2, RefuseClientType
  <2>3. CASE UNCHANGED <<tables, registered, sent>>
    BY <2>3 DEF TypeOK, TablesOK, tables
  <2>4. QED
    BY <2>1, <2>2, <2>3 DEF RegisterClient
<1>2. peer' \in [Conns -> Peers \cup {NONE}] /\ authing' \subseteq Conns
  BY DEF TypeOK, RegisterClient, Peers
<1>3. QED
  BY <1>1, <1>2 DEF TypeOK, TablesOK, RegisterClient, process, requests, history

\* The auth function answers for a client.
LEMMA AuthUserDoneType ==
  ASSUME TypeOK, NEW c \in Conns, AuthUserDone(c)
  PROVE  TypeOK'
<1>1. TablesOK' /\ registered' \subseteq Conns /\ sent' \in [Conns -> Seq(Message)]
  <2>1. CASE AcceptClient(c, peer[c])
    BY <2>1, AcceptClientType DEF AuthUserDone
  <2>2. CASE Put(c, <<Register(PRO_FAIL), Disconnect>>) /\ UNCHANGED <<tables, registered>>
    BY <2>2, ReplyTypes, MessageTypes, PutType DEF TypeOK, TablesOK, tables
  <2>3. QED
    BY <2>1, <2>2 DEF AuthUserDone
<1>2. QED
  BY <1>1 DEF TypeOK, TablesOK, AuthUserDone, process, requests, history

\* A peer of another type registers.
LEMMA RegisterOtherType ==
  ASSUME TypeOK, NEW c \in Conns, RegisterOther(c)
  PROVE  TypeOK'
<1>1. sent' \in [Conns -> Seq(Message)]
  BY ReplyTypes, MessageTypes, PutType DEF RegisterOther
<1>2. peer' \in [Conns -> Peers \cup {NONE}]
  BY DEF TypeOK, RegisterOther, Peers
<1>3. QED
  BY <1>1, <1>2 DEF TypeOK, RegisterOther, process, tables, requests, history

\* A monitor comes back.
LEMMA OnReconnectType ==
  ASSUME TypeOK, NEW c \in Conns, NEW p \in MonitorPeers, OnReconnect(c, p)
  PROVE  TypeOK'
<1>1. p.id \in Servers /\ p \in Peers
  BY DEF MonitorPeers, Peers
<1>2. TablesOK' /\ registered' \subseteq Conns
  BY AddConnectionType DEF TypeOK, OnReconnect, tables, TablesOK
<1>3. sent' \in [Conns -> Seq(Message)]
  <2>1. <<ReconnectOk(PRO_OK)>> \o Repush(p.id) \in Seq(Message)
    BY <1>1, ReplyTypes, RepushType, MessageTypes, ConcatProperties
  <2>2. CASE UNCHANGED sent
    BY <2>2 DEF TypeOK
  <2>3. QED
    BY <2>1, <2>2, ReplyTypes, MessageTypes, PutType DEF OnReconnect
<1>4. peer' \in [Conns -> Peers \cup {NONE}] /\ agentState' \in {agentState, "CRASHED"}
  BY <1>1 DEF TypeOK, OnReconnect
<1>5. QED
  BY <1>2, <1>3, <1>4 DEF TypeOK, TablesOK, OnReconnect, requests, history

\* A peer that is not registered is kicked.
LEMMA KickType ==
  ASSUME TypeOK, NEW c \in Conns, Kick(c)
  PROVE  TypeOK'
<1>1. sent' \in [Conns -> Seq(Message)]
  BY ReplyTypes, MessageTypes, PutType DEF Kick
<1>2. QED
  BY <1>1 DEF TypeOK, Kick, process, links, tables, requests, history

\* A monitor answers.
LEMMA OnResponseType ==
  ASSUME TypeOK, NEW c \in Conns, NEW r \in ReqIds, OnResponse(c, r)
  PROVE  TypeOK'
<1>1. peer[c].id \in Servers
  BY DEF OnResponse, MonitorPeers
<1>2. RemoveFirst(msgMap[peer[c].id], r) \in Seq(ReqIds)
  BY <1>1, RemovalTypes DEF TypeOK
<1>3. Append(answered[r], peer[c].id) \in Seq(Servers)
  BY <1>1 DEF TypeOK
<1>4. /\ msgMap' \in [Servers -> Seq(ReqIds)]
      /\ answered' \in [ReqIds -> Seq(Servers)]
      /\ callbacks' \subseteq ReqIds
  BY <1>1, <1>2, <1>3 DEF TypeOK, OnResponse
<1>5. QED
  BY <1>4 DEF TypeOK, OnResponse, process, links, tables

\* A peer makes a request.
LEMMA OnAskType ==
  ASSUME TypeOK, NEW c \in Conns, OnAsk(c)
  PROVE  TypeOK'
<1>1. asked' \in [Conns -> 0..MaxAsked]
  BY BoundAssumption DEF TypeOK, OnAsk
<1>2. QED
  BY <1>1 DEF TypeOK, OnAsk, process, tables, requests, history

\* It is answered.
LEMMA AnswerType ==
  ASSUME TypeOK, NEW c \in Conns, Answer(c)
  PROVE  TypeOK'
<1>1. asked' \in [Conns -> 0..MaxAsked]
  BY BoundAssumption DEF TypeOK, Answer
<1>2. sent' \in [Conns -> Seq(Message)]
  BY ReplyTypes, MessageTypes, PutType DEF Answer, Kinds
<1>3. QED
  BY <1>1, <1>2 DEF TypeOK, Answer, process, tables, requests, history

\* A connection ends.
LEMMA OnDisconnectType ==
  ASSUME TypeOK, NEW c \in Conns, OnDisconnect(c)
  PROVE  TypeOK'
<1>1. TablesOK'
  <2>1. CASE UNCHANGED tables
    BY <2>1 DEF TypeOK, TablesOK, tables
  <2>2. CASE peer[c] \in MonitorPeers /\ RemoveMonitor(peer[c].id, peer[c].addr)
    BY <2>2, RemoveMonitorType DEF MonitorPeers
  <2>3. CASE RemoveClient(peer[c].id)
    BY <2>3 DEF TypeOK, TablesOK, RemoveClient
  <2>4. QED
    BY <2>1, <2>2, <2>3 DEF OnDisconnect
<1>2. registered' \subseteq Conns /\ agentState' \in {agentState, "CRASHED"}
  BY DEF TypeOK, OnDisconnect
<1>3. /\ sock' \in [Conns -> {"open", "closed"}]
      /\ peer' \in [Conns -> Peers \cup {NONE}]
      /\ asked' \in [Conns -> 0..MaxAsked]
  BY BoundAssumption DEF TypeOK, OnDisconnect
<1>4. sent' \in [Conns -> Seq(Message)]
  BY ReplyTypes DEF TypeOK, OnDisconnect
<1>5. QED
  BY <1>1, <1>2, <1>3, <1>4 DEF TypeOK, TablesOK, OnDisconnect, requests, history

\* What every request does before it looks for a connection.
LEMMA NewRequestType ==
  ASSUME TypeOK, NEW s \in Servers, NewRequest(s)
  PROVE  /\ reqId \in ReqIds
         /\ reqId' \in 1..(MaxReq + 1)
         /\ callbacks' \subseteq ReqIds
         /\ target' \in [ReqIds -> Servers \cup {NONE}]
<1>1. reqId \in ReqIds /\ reqId' \in 1..(MaxReq + 1)
  BY BoundAssumption DEF TypeOK, NewRequest, ReqIds
<1>2. QED
  BY <1>1 DEF TypeOK, NewRequest

\* request().
LEMMA RequestType ==
  ASSUME TypeOK, NEW s \in Servers, Request(s)
  PROVE  TypeOK'
<1>1. /\ reqId \in ReqIds
      /\ reqId' \in 1..(MaxReq + 1)
      /\ callbacks' \subseteq ReqIds
      /\ target' \in [ReqIds -> Servers \cup {NONE}]
  BY NewRequestType DEF Request
<1>2. msgMap' \in [Servers -> Seq(ReqIds)]
  <2>1. Append(msgMap[s], reqId) \in Seq(ReqIds)
    BY <1>1 DEF TypeOK
  <2>2. QED
    BY <2>1 DEF TypeOK, Request
<1>3. refused' \subseteq ReqIds
  BY <1>1 DEF TypeOK, Request
<1>4. sent' \in [Conns -> Seq(Message)]
  <2>1. CASE UNCHANGED sent
    BY <2>1 DEF TypeOK
  <2>2. QED
    BY <1>1, <2>1, ReplyTypes, MessageTypes, PutType DEF Request
<1>5. QED
  BY <1>1, <1>2, <1>3, <1>4 DEF TypeOK, Request, process, links, tables

\* requestServer().
LEMMA RequestServerType ==
  ASSUME TypeOK, NEW s \in Servers, NEW addr, RequestServer(s, addr)
  PROVE  TypeOK'
<1>1. /\ reqId \in ReqIds
      /\ reqId' \in 1..(MaxReq + 1)
      /\ callbacks' \subseteq ReqIds
      /\ target' \in [ReqIds -> Servers \cup {NONE}]
  BY NewRequestType DEF RequestServer
<1>2. direct' \subseteq ReqIds
  BY <1>1 DEF TypeOK, RequestServer
<1>3. sent' \in [Conns -> Seq(Message)]
  <2>1. CASE UNCHANGED sent
    BY <2>1 DEF TypeOK
  <2>2. QED
    BY <1>1, <2>1, ReplyTypes, MessageTypes, PutType DEF RequestServer
<1>4. QED
  BY <1>1, <1>2, <1>3 DEF TypeOK, RequestServer, process, links, tables

\* A notification writes, and does nothing else.
LEMMA NotifyingType ==
  ASSUME TypeOK, Notifying, sent' \in [Conns -> Seq(Message)]
  PROVE  TypeOK'
BY DEF TypeOK, Notifying, process, links, tables, requests, history

\* Every notification.
LEMMA NotificationType ==
  ASSUME TypeOK,
         \/ \E s \in Servers : NotifyById(s) \/ NotifySlavesById(s)
         \/ \E s \in Servers, a \in Addrs : NotifyByServer(s, a)
         \/ \E t \in Types : NotifyByType(t)
         \/ \E u \in Users : NotifyClient(u)
         \/ NotifyAll
         \/ NotifyCommand
  PROVE  TypeOK'
<1>1. /\ <<Plain("notify")>> \in Seq(Message) /\ <<Plain("client")>> \in Seq(Message)
      /\ Plain("notify") \in Message /\ Plain("command") \in Message
  BY ReplyTypes, MessageTypes DEF Kinds
<1>2. CASE \E s \in Servers : NotifyById(s)
  BY <1>1, <1>2, PutType, NotifyingType DEF NotifyById
<1>3. CASE \E s \in Servers : NotifySlavesById(s)
  <2>1. PICK s \in Servers : NotifySlavesById(s)
    BY <1>3
  <2>2. PerElement(slaveMap[s]) \in [Conns -> Nat]
    BY PerElementType DEF TypeOK
  <2>3. QED
    BY <1>1, <2>1, <2>2, BroadcastType, NotifyingType DEF NotifySlavesById
<1>4. CASE \E s \in Servers, a \in Addrs : NotifyByServer(s, a)
  <2>1. PICK s \in Servers, a \in Addrs : NotifyByServer(s, a)
    BY <1>4
  <2>2. CASE UNCHANGED sent
    BY <2>1, <2>2, NotifyingType DEF NotifyByServer, TypeOK
  <2>3. CASE Put(Connected(s)[WithAddr(s, a)].socket, <<Plain("notify")>>)
    BY <1>1, <2>1, <2>3, PutType, NotifyingType DEF NotifyByServer
  <2>4. QED
    BY <2>1, <2>2, <2>3 DEF NotifyByServer
<1>5. CASE \E t \in Types : NotifyByType(t)
  <2>1. PICK t \in Types : NotifyByType(t)
    BY <1>5
  <2>2. PerElement(typeMap[t]) \in [Conns -> Nat]
    BY PerElementType DEF TypeOK
  <2>3. QED
    BY <1>1, <2>1, <2>2, BroadcastType, NotifyingType DEF NotifyByType
<1>6. CASE \E u \in Users : NotifyClient(u)
  BY <1>1, <1>6, PutType, NotifyingType DEF NotifyClient
<1>7. CASE NotifyAll
  BY <1>1, <1>7, PerKeyType, BroadcastType, NotifyingType DEF NotifyAll
<1>8. CASE NotifyCommand
  BY <1>1, <1>8, PerKeyType, BroadcastType, NotifyingType DEF NotifyCommand
<1>9. QED
  BY <1>2, <1>3, <1>4, <1>5, <1>6, <1>7, <1>8

\* TypeOK: the master keeps every table, queue and channel in shape, whatever peers
\* and auth functions do and however many there are.
THEOREM TypeCorrect == Spec => []TypeOK
<1>1. ASSUME TypeOK, [Next]_vars PROVE TypeOK'
  <2>1. CASE Listen \/ Close
    BY <1>1, <2>1 DEF TypeOK, Listen, Close, links, tables, requests, history
  <2>2. ASSUME NEW c \in Conns, Handshake(c) PROVE TypeOK'
    BY <1>1, <2>2, ConnectionType, RegisterMonitorType, OnReconnectType, RegisterClientType,
       RegisterOtherType, AuthServerDoneType, AuthUserDoneType DEF Handshake
  <2>3. ASSUME NEW c \in Conns, Traffic(c) PROVE TypeOK'
    BY <1>1, <2>3, OnResponseType, KickType, OnAskType, AnswerType, OnDisconnectType
       DEF Traffic, Handed
  <2>4. CASE Call
    BY <1>1, <2>4, RequestType, RequestServerType, NotificationType DEF Call
  <2>5. CASE UNCHANGED vars
    BY <1>1, <2>5 DEF TypeOK, vars, process, links, tables, requests, history
  <2>6. QED
    BY <1>1, <2>1, <2>2, <2>3, <2>4, <2>5 DEF Next
<1>2. QED
  BY <1>1, InitType, PTL DEF Spec

-----------------------------------------------------------------------------
(***************************************************************************)
(* What the writes and the removals do to the sets of elements.            *)
(***************************************************************************)
LEMMA ToSetOfConcat ==
  ASSUME NEW S, NEW a \in Seq(S), NEW b \in Seq(S)
  PROVE  ToSet(a \o b) = ToSet(a) \cup ToSet(b)
<1>1. \A s : ToSet(s) = Range(s)
  BY DEF Range, ToSet
<1>2. Range(a \o b) = Range(a) \cup Range(b)
  BY RangeConcatenation
<1>3. QED
  BY <1>1, <1>2

\* The members of the short lists that are written to a connection.
LEMMA ToSetOfFew ==
  /\ ToSet(<<>>) = {}
  /\ \A a : ToSet(<<a>>) = {a}
  /\ \A a, b : ToSet(<<a, b>>) = {a, b}
<1>1. \A a, b : ToSet(<<a, b>>) = {a, b}
  <2>1. TAKE a, b
  <2>2. DOMAIN <<a, b>> = {1, 2}
    OBVIOUS
  <2>3. QED
    BY <2>2 DEF ToSet
<1>2. QED
  BY <1>1 DEF ToSet

\* The members of a queue with one request more.
LEMMA ToSetOfAppend ==
  ASSUME NEW S, NEW a \in Seq(S), NEW e \in S
  PROVE  ToSet(Append(a, e)) = ToSet(a) \cup {e}
<1>1. <<e>> \in Seq(S) /\ Append(a, e) = a \o <<e>>
  BY AppendIsConcat
<1>2. ToSet(a \o <<e>>) = ToSet(a) \cup ToSet(<<e>>)
  BY <1>1, ToSetOfConcat
<1>3. QED
  BY <1>1, <1>2, ToSetOfFew

\* A queue with one request less has no members of its own.
LEMMA ToSetOfRemoveFirst ==
  ASSUME NEW S, NEW list \in Seq(S), NEW e
  PROVE  ToSet(RemoveFirst(list, e)) \subseteq ToSet(list)
<1>1. CASE RemoveFirst(list, e) = list
  BY <1>1
<1>2. CASE \E i \in 1..Len(list) : RemoveFirst(list, e) = RemoveAt(list, i)
  <2>1. PICK i \in 1..Len(list) : RemoveFirst(list, e) = RemoveAt(list, i)
    BY <1>2
  <2>2. /\ RemoveAt(list, i) \in Seq(S)
        /\ Len(RemoveAt(list, i)) = Len(list) - 1
        /\ \A j \in 1..(Len(list) - 1) :
             RemoveAt(list, i)[j] = IF j < i THEN list[j] ELSE list[j + 1]
    BY RemoveAtProperties
  <2>3. DOMAIN RemoveAt(list, i) = 1..(Len(list) - 1) /\ DOMAIN list = 1..Len(list) /\ Len(list) \in Nat
    BY <2>2
  <2>4. \A j \in 1..(Len(list) - 1) : j \in 1..Len(list) /\ j + 1 \in 1..Len(list)
    BY <2>3
  <2>5. QED
    BY <2>1, <2>2, <2>3, <2>4 DEF ToSet
<1>3. QED
  BY <1>1, <1>2, RemoveFirstProperties

\* After a write a connection has what it had and what was written.
LEMMA PutContents ==
  ASSUME TypeOK, NEW c, NEW ms \in Seq(Message), Put(c, ms), NEW d \in Conns
  PROVE  /\ ToSet(sent'[d]) \subseteq ToSet(sent[d]) \cup (IF d = c THEN ToSet(ms) ELSE {})
         /\ sock[d] = "closed" => sent'[d] = sent[d]
<1>1. sent[d] \in Seq(Message) /\ sent \in [Conns -> Seq(Message)]
  BY DEF TypeOK
<1>2. ToSet(sent[d] \o ms) = ToSet(sent[d]) \cup ToSet(ms)
  BY <1>1, ToSetOfConcat
<1>3. QED
  BY <1>1, <1>2 DEF Put

\* After a broadcast it has what it had and the message, at most.
LEMMA BroadcastContents ==
  ASSUME TypeOK, NEW times \in [Conns -> Nat], NEW m \in Message, Broadcast(times, m), NEW d \in Conns
  PROVE  /\ ToSet(sent'[d]) \subseteq ToSet(sent[d]) \cup {m}
         /\ sock[d] = "closed" => sent'[d] = sent[d]
<1> DEFINE copies == [i \in 1..times[d] |-> m]
<1>1. sent[d] \in Seq(Message) /\ times[d] \in Nat
  BY DEF TypeOK
<1>2. copies \in Seq(Message) /\ ToSet(copies) \subseteq {m}
  <2>1. \A n \in Nat : [i \in 1..n |-> m] \in Seq(Message)
    OBVIOUS
  <2>2. QED
    BY <1>1, <2>1 DEF ToSet
<1>3. ToSet(sent[d] \o copies) = ToSet(sent[d]) \cup ToSet(copies)
  BY <1>1, <1>2, ToSetOfConcat
<1>4. QED
  BY <1>2, <1>3 DEF Broadcast

\* A repush consists of the requests of the queue.
LEMMA RepushContents ==
  ASSUME TypeOK, NEW s \in Servers, NEW m \in ToSet(Repush(s))
  PROVE  \E r \in ToSet(msgMap[s]) : r \in ReqIds /\ m = RequestMsg(r)
<1>1. msgMap[s] \in Seq(ReqIds)
  BY DEF TypeOK
<1>2. \A i \in DOMAIN msgMap[s] : msgMap[s][i] \in ReqIds
  BY <1>1
<1>3. QED
  BY <1>2 DEF Repush, ToSet

\* Of all that is written, only the pushes of requests are requests.
LEMMA NotRequests ==
  /\ \A n : Register(n).kind # "request" /\ ReconnectOk(n).kind # "request"
  /\ \A kind : Plain(kind).kind = kind
  /\ Disconnect.kind # "request"
  /\ \A r : RequestMsg(r).kind = "request" /\ RequestMsg(r).n = r
BY DEF Register, ReconnectOk, Plain, Disconnect, RequestMsg

-----------------------------------------------------------------------------
(***************************************************************************)
(* How a step keeps each part of Consistent.                               *)
(***************************************************************************)
LEMMA InitConsistent == Init => Consistent
<1> SUFFICES ASSUME Init PROVE Consistent
  OBVIOUS
<1>1. PendingUnanswered
  BY DEF Init, PendingUnanswered, ReqIds
<1>2. QueueOwn /\ HandedOwn
  BY ToSetOfFew DEF Init, QueueOwn, HandedOwn
<1>3. ClosedSilent /\ PrimaryKnown
  BY DEF Init, ClosedSilent, PrimaryKnown
<1>4. QED
  BY <1>1, <1>2, <1>3 DEF Consistent

\* Steps that leave the requests alone.
LEMMA LedgerKept ==
  ASSUME PendingUnanswered, QueueOwn, UNCHANGED requests, UNCHANGED target, UNCHANGED answered
  PROVE  PendingUnanswered' /\ QueueOwn'
BY DEF PendingUnanswered, QueueOwn, requests

\* What was handed over stays right; what is handed over now is the peer's own.
LEMMA HandedKept ==
  ASSUME HandedOwn,
         \A r \in ReqIds : target[r] # NONE => target'[r] = target[r],
         \A c \in Conns : \A m \in ToSet(sent'[c]) : m.kind = "request" =>
           \/ m \in ToSet(sent[c]) /\ peer'[c] = peer[c]
           \/ peer'[c] \in MonitorPeers /\ m.n \in ReqIds /\ target'[m.n] = peer'[c].id
  PROVE  HandedOwn'
<1>1. ASSUME NEW c \in Conns, NEW m \in ToSet(sent'[c]), m.kind = "request"
      PROVE  peer'[c] \in MonitorPeers /\ m.n \in ReqIds /\ target'[m.n] = peer'[c].id
  <2>1. CASE m \in ToSet(sent[c]) /\ peer'[c] = peer[c]
    <3>1. peer[c] \in MonitorPeers /\ m.n \in ReqIds /\ target[m.n] = peer[c].id
      BY <1>1, <2>1 DEF HandedOwn
    <3>2. target[m.n] # NONE
      BY <3>1, NoneAssumption DEF MonitorPeers
    <3>3. QED
      BY <2>1, <3>1, <3>2
  <2>2. QED
    BY <1>1, <2>1
<1>2. QED
  BY <1>1 DEF HandedOwn

\* Primaries stay or go; their connections keep their identity.
LEMMA PrimaryKept ==
  ASSUME PrimaryKnown,
         \A s \in Servers : idMap'[s] = idMap[s] \/ idMap'[s] = NONE,
         \A s \in Servers : idMap'[s] # NONE =>
           /\ idMap[s].socket \in registered'
           /\ peer'[idMap[s].socket] = peer[idMap[s].socket]
  PROVE  PrimaryKnown'
BY DEF PrimaryKnown, Record

\* A connection that has not announced itself has no requests and no record.
LEMMA UnknownPeer ==
  ASSUME HandedOwn, PrimaryKnown, NEW c \in Conns, peer[c] = NONE
  PROVE  /\ \A m \in ToSet(sent[c]) : m.kind # "request"
         /\ \A s \in Servers : idMap[s] # NONE => idMap[s].socket # c
<1>1. peer[c] \notin MonitorPeers
  BY NoPeerAssumption DEF Peers
<1>2. QED
  BY <1>1 DEF HandedOwn, PrimaryKnown

\* A new record is that of its connection.
LEMMA PrimaryAdded ==
  ASSUME TypeOK, PrimaryKnown, NEW c \in Conns, NEW p \in MonitorPeers,
         AddConnection(c, p), registered' = registered \cup {c}, peer'[c] = p,
         \A d \in Conns \ {c} : peer'[d] = peer[d],
         peer[c] = p \/ (\A s \in Servers : idMap[s] # NONE => idMap[s].socket # c)
  PROVE  PrimaryKnown'
<1>1. ASSUME NEW s \in Servers, idMap'[s] # NONE
      PROVE  /\ idMap'[s].socket \in registered'
             /\ peer'[idMap'[s].socket] \in MonitorPeers
             /\ peer'[idMap'[s].socket].id = s
             /\ idMap'[s] = Record(idMap'[s].socket, peer'[idMap'[s].socket])
  <2>1. CASE idMap'[s] = idMap[s]
    <3>1. idMap[s].socket \in Conns
      BY <1>1, <2>1 DEF TypeOK, Records
    <3>2. peer'[idMap[s].socket] = peer[idMap[s].socket]
      BY <1>1, <2>1, <3>1
    <3>3. QED
      BY <1>1, <2>1, <3>2 DEF PrimaryKnown
  <2>2. CASE idMap'[s] = Record(c, p) /\ p.id = s
    BY <2>2 DEF Record
  <2>3. idMap'[s] = idMap[s] \/ (idMap'[s] = Record(c, p) /\ p.id = s)
    BY DEF AddConnection, TypeOK
  <2>4. QED
    BY <2>1, <2>2, <2>3
<1>2. QED
  BY <1>1 DEF PrimaryKnown

\* The queue of a server may be written to a connection of that server.
LEMMA QueueToPeer ==
  ASSUME TypeOK, QueueOwn, NEW s \in Servers, NEW m \in ToSet(Repush(s))
  PROVE  m.n \in ReqIds /\ target[m.n] = s
<1>1. PICK r \in ToSet(msgMap[s]) : r \in ReqIds /\ m = RequestMsg(r)
  BY RepushContents
<1>2. QED
  BY <1>1, NotRequests DEF QueueOwn

-----------------------------------------------------------------------------
(***************************************************************************)
(* One step per handler and API function.                                  *)
(***************************************************************************)
\* Messages without a request among them.
Quiet(ms) == ms \in Seq(Message) /\ \A m \in ToSet(ms) : m.kind # "request"

\* The replies to a greeting are no requests.
LEMMA QuietReplies ==
  /\ Quiet(<<>>) /\ Quiet(<<Disconnect>>)
  /\ Quiet(<<Register(PRO_OK)>>) /\ Quiet(<<Register(PRO_FAIL)>>)
  /\ Quiet(<<Register(PRO_FAIL), Disconnect>>)
  /\ Quiet(<<ReconnectOk(PRO_OK)>>) /\ Quiet(<<ReconnectOk(PRO_FAIL)>>)
  /\ Quiet(<<Plain("response")>>) /\ Quiet(<<Plain("notify")>>) /\ Quiet(<<Plain("client")>>)
<1>1. Quiet(<<>>)
  BY ReplyTypes, ToSetOfFew DEF Quiet
<1>2. ASSUME NEW a \in Message, a.kind # "request"
      PROVE  Quiet(<<a>>)
  <2>1. ToSet(<<a>>) = {a} /\ <<a>> \in Seq(Message)
    BY ReplyTypes, ToSetOfFew
  <2>2. QED
    BY <1>2, <2>1 DEF Quiet
<1>3. ASSUME NEW a \in Message, NEW b \in Message, a.kind # "request", b.kind # "request"
      PROVE  Quiet(<<a, b>>)
  BY <1>3, ReplyTypes, ToSetOfFew DEF Quiet
<1>4. /\ Plain("response") \in Message /\ Plain("response").kind # "request"
      /\ Plain("notify") \in Message /\ Plain("notify").kind # "request"
      /\ Plain("client") \in Message /\ Plain("client").kind # "request"
  BY MessageTypes, NotRequests DEF Kinds
<1>5. /\ Quiet(<<Plain("response")>>) /\ Quiet(<<Plain("notify")>>)
      /\ Quiet(<<Plain("client")>>) /\ Quiet(<<Disconnect>>)
      /\ Quiet(<<Register(PRO_OK)>>) /\ Quiet(<<Register(PRO_FAIL)>>)
      /\ Quiet(<<ReconnectOk(PRO_OK)>>) /\ Quiet(<<ReconnectOk(PRO_FAIL)>>)
  BY <1>2, <1>4, MessageTypes, NotRequests
<1>6. Quiet(<<Register(PRO_FAIL), Disconnect>>)
  BY <1>3, MessageTypes, NotRequests
<1>7. QED
  BY <1>1, <1>5, <1>6

\* Two lists without requests make one.
LEMMA QuietConcat ==
  ASSUME NEW a, NEW b, Quiet(a), Quiet(b)
  PROVE  Quiet(a \o b)
<1>1. a \o b \in Seq(Message)
  BY ConcatProperties DEF Quiet
<1>2. ToSet(a \o b) = ToSet(a) \cup ToSet(b)
  BY ToSetOfConcat DEF Quiet
<1>3. QED
  BY <1>1, <1>2 DEF Quiet

\* Writing what is not a request, without touching what identifies peers and requests.
LEMMA QuietStep ==
  ASSUME TypeOK, Consistent,
         UNCHANGED <<requests, target, answered, peer, sock>>,
         \A c \in Conns : \A m \in ToSet(sent'[c]) : m.kind = "request" => m \in ToSet(sent[c]),
         \A c \in Conns : sock[c] = "closed" => sent'[c] = sent[c],
         registered \subseteq registered', UNCHANGED idMap
  PROVE  Consistent'
<1>1. PendingUnanswered' /\ QueueOwn'
  BY LedgerKept DEF Consistent
<1>2. HandedOwn'
  BY HandedKept DEF Consistent
<1>3. ClosedSilent'
  BY DEF Consistent, ClosedSilent
<1>4. PrimaryKnown'
  <2>1. \A s \in Servers : idMap[s] # NONE => idMap[s].socket \in registered
    BY DEF Consistent, PrimaryKnown
  <2>2. QED
    BY <2>1, PrimaryKept DEF Consistent
<1>5. QED
  BY <1>1, <1>2, <1>3, <1>4 DEF Consistent

\* A connection opens: what it carries starts empty (ClosedSilent).
LEMMA ConnectionConsistent ==
  ASSUME TypeOK, Consistent, NEW c \in Conns, Connection(c)
  PROVE  Consistent'
<1>1. PendingUnanswered' /\ QueueOwn'
  BY LedgerKept DEF Consistent, Connection, history
<1>2. HandedOwn'
  <2>1. sent[c] = <<>>
    BY DEF Consistent, ClosedSilent, Connection, Unused
  <2>2. \A d \in Conns : \A m \in ToSet(sent'[d]) : m \in ToSet(sent[d]) /\ peer'[d] = peer[d]
    BY <2>1, ToSetOfFew DEF Connection, TypeOK
  <2>3. QED
    BY <2>2, HandedKept DEF Consistent, Connection, history
<1>3. ClosedSilent'
  BY DEF Consistent, ClosedSilent, Connection, TypeOK
<1>4. PrimaryKnown'
  <2>1. \A s \in Servers : idMap[s] # NONE =>
          /\ idMap[s].socket \in registered
          /\ idMap[s].socket \in Conns
          /\ idMap[s].socket # c
    BY DEF Consistent, PrimaryKnown, Connection, Unused, Sockets, Primaries, TypeOK, Records
  <2>2. \A s \in Servers : idMap[s] # NONE => peer'[idMap[s].socket] = peer[idMap[s].socket]
    BY <2>1 DEF Connection, TypeOK
  <2>3. QED
    BY <2>1, <2>2, PrimaryKept DEF Consistent, Connection, tables
<1>5. QED
  BY <1>1, <1>2, <1>3, <1>4 DEF Consistent

\* A greeting that changes what identifies the connection c, and is written to c only.
LEMMA GreetingConsistent ==
  ASSUME TypeOK, Consistent, NEW c \in Conns, sock[c] = "open", NEW ms \in Seq(Message), NEW p,
         peer[c] = NONE \/ peer[c] = p,
         UNCHANGED <<requests, target, answered, sock>>,
         peer' = [peer EXCEPT ![c] = p],
         Put(c, ms) \/ UNCHANGED sent,
         \A m \in ToSet(ms) : m.kind = "request" =>
           p \in MonitorPeers /\ m.n \in ReqIds /\ target[m.n] = p.id
  PROVE  PendingUnanswered' /\ QueueOwn' /\ HandedOwn' /\ ClosedSilent'
<1>1. PendingUnanswered' /\ QueueOwn'
  BY LedgerKept DEF Consistent
<1>2. ASSUME NEW d \in Conns
      PROVE  /\ ToSet(sent'[d]) \subseteq ToSet(sent[d]) \cup (IF d = c THEN ToSet(ms) ELSE {})
             /\ sock[d] = "closed" => sent'[d] = sent[d]
  BY PutContents
<1>3. peer'[c] = p /\ \A d \in Conns \ {c} : peer'[d] = peer[d]
  BY DEF TypeOK
<1>4. peer[c] = NONE => \A m \in ToSet(sent[c]) : m.kind # "request"
  BY UnknownPeer DEF Consistent
<1>5. HandedOwn'
  <2>1. ASSUME NEW d \in Conns, NEW m \in ToSet(sent'[d]), m.kind = "request"
        PROVE  \/ m \in ToSet(sent[d]) /\ peer'[d] = peer[d]
               \/ peer'[d] \in MonitorPeers /\ m.n \in ReqIds /\ target'[m.n] = peer'[d].id
    <3>1. CASE d = c
      BY <1>2, <1>3, <1>4, <2>1, <3>1
    <3>2. CASE d # c
      BY <1>2, <1>3, <2>1, <3>2
    <3>3. QED
      BY <3>1, <3>2
  <2>2. QED
    BY <2>1, HandedKept DEF Consistent
<1>6. ClosedSilent'
  BY <1>2 DEF Consistent, ClosedSilent
<1>7. QED
  BY <1>1, <1>5, <1>6

\* The same when no record is added.
LEMMA GreetingNoRecord ==
  ASSUME TypeOK, PrimaryKnown, HandedOwn, NEW c \in Conns, NEW p, peer[c] = NONE \/ peer[c] = p,
         peer' = [peer EXCEPT ![c] = p], UNCHANGED idMap, registered \subseteq registered'
  PROVE  PrimaryKnown'
<1>1. \A s \in Servers : idMap[s] # NONE =>
        /\ idMap[s].socket \in registered
        /\ idMap[s].socket \in Conns
        /\ peer[c] = NONE => idMap[s].socket # c
  BY UnknownPeer DEF PrimaryKnown, TypeOK, Records
<1>2. \A d \in Conns : d # c \/ peer[c] = p => peer'[d] = peer[d]
  BY DEF TypeOK
<1>3. QED
  BY <1>1, <1>2, PrimaryKept

\* With a record or without: the announced identity stays that of the connection.
LEMMA GreetingPrimary ==
  ASSUME TypeOK, PrimaryKnown, HandedOwn, NEW c \in Conns, NEW p \in MonitorPeers,
         peer[c] = NONE \/ peer[c] = p, peer' = [peer EXCEPT ![c] = p],
         \/ AddConnection(c, p) /\ registered' = registered \cup {c}
         \/ UNCHANGED <<tables, registered>>
  PROVE  PrimaryKnown'
<1>1. CASE AddConnection(c, p) /\ registered' = registered \cup {c}
  <2>1. peer'[c] = p /\ \A d \in Conns \ {c} : peer'[d] = peer[d]
    BY DEF TypeOK
  <2>2. peer[c] = p \/ \A s \in Servers : idMap[s] # NONE => idMap[s].socket # c
    BY UnknownPeer
  <2>3. QED
    BY <1>1, <2>1, <2>2, PrimaryAdded
<1>2. CASE UNCHANGED <<tables, registered>>
  BY <1>2, GreetingNoRecord DEF tables
<1>3. QED
  BY <1>1, <1>2

\* A reply, and a reply followed by the repush of the queue of the server.
LEMMA QuietReply ==
  ASSUME NEW ms, Quiet(ms), NEW c \in Conns, TypeOK, Put(c, ms), NEW d \in Conns
  PROVE  /\ \A m \in ToSet(sent'[d]) : m.kind = "request" => m \in ToSet(sent[d])
         /\ sock[d] = "closed" => sent'[d] = sent[d]
BY PutContents DEF Quiet

\* A reply and the repush that follows it carry the requests of the queue only.
LEMMA ReplyAndRepush ==
  ASSUME TypeOK, QueueOwn, NEW s \in Servers, NEW ms, Quiet(ms)
  PROVE  /\ ms \o Repush(s) \in Seq(Message)
         /\ \A m \in ToSet(ms \o Repush(s)) : m.kind = "request" => m.n \in ReqIds /\ target[m.n] = s
<1>1. ms \in Seq(Message) /\ Repush(s) \in Seq(Message)
  BY RepushType DEF Quiet
<1>2. ms \o Repush(s) \in Seq(Message)
  BY <1>1, ConcatProperties
<1>3. ToSet(ms \o Repush(s)) = ToSet(ms) \cup ToSet(Repush(s))
  BY <1>1, ToSetOfConcat
<1>4. QED
  BY <1>2, <1>3, QueueToPeer DEF Quiet

\* A monitor registers: the repush is its own queue (QueueOwn).
LEMMA RegisterMonitorConsistent ==
  ASSUME TypeOK, Consistent, NEW c \in Conns, NEW p \in MonitorPeers,
         sock[c] = "open", peer[c] = NONE \/ peer[c] = p, RegisterMonitor(c, p)
  PROVE  Consistent'
<1>1. p.id \in Servers /\ QueueOwn
  BY DEF MonitorPeers, Consistent
<1>2. PendingUnanswered' /\ QueueOwn' /\ HandedOwn' /\ ClosedSilent'
  <2>1. PICK ms : Quiet(ms) /\ Put(c, ms \o Repush(p.id))
    <3>1. Repush(p.id) = <<>> \o Repush(p.id)
      BY <1>1, RepushType, ConcatEmptySeq
    <3>2. QED
      BY <3>1, QuietReplies DEF RegisterMonitor
  <2>2. /\ ms \o Repush(p.id) \in Seq(Message)
        /\ \A m \in ToSet(ms \o Repush(p.id)) : m.kind = "request" =>
             m.n \in ReqIds /\ target[m.n] = p.id
    BY <1>1, <2>1, ReplyAndRepush
  <2>3. UNCHANGED <<requests, target, answered, sock>> /\ peer' = [peer EXCEPT ![c] = p]
    BY DEF RegisterMonitor, history
  <2>4. QED
    BY <2>1, <2>2, <2>3, GreetingConsistent
<1>3. PrimaryKnown'
  BY GreetingPrimary DEF RegisterMonitor, Consistent
<1>4. QED
  BY <1>2, <1>3 DEF Consistent

\* A monitor comes back: the same.
LEMMA OnReconnectConsistent ==
  ASSUME TypeOK, Consistent, NEW c \in Conns, NEW p \in MonitorPeers,
         sock[c] = "open", peer[c] = NONE \/ peer[c] = p, OnReconnect(c, p)
  PROVE  Consistent'
<1>1. p.id \in Servers /\ QueueOwn
  BY DEF MonitorPeers, Consistent
<1>2. PendingUnanswered' /\ QueueOwn' /\ HandedOwn' /\ ClosedSilent'
  <2>1. PICK ms : /\ ms \in Seq(Message)
                  /\ \A m \in ToSet(ms) : m.kind = "request" => m.n \in ReqIds /\ target[m.n] = p.id
                  /\ Put(c, ms) \/ UNCHANGED sent
    <3>1. /\ <<ReconnectOk(PRO_OK)>> \o Repush(p.id) \in Seq(Message)
          /\ \A m \in ToSet(<<ReconnectOk(PRO_OK)>> \o Repush(p.id)) : m.kind = "request" =>
               m.n \in ReqIds /\ target[m.n] = p.id
      BY <1>1, QuietReplies, ReplyAndRepush
    <3>2. Quiet(<<ReconnectOk(PRO_FAIL)>>)
      BY QuietReplies
    <3>3. QED
      BY <3>1, <3>2 DEF OnReconnect, Quiet
  <2>2. UNCHANGED <<requests, target, answered, sock>> /\ peer' = [peer EXCEPT ![c] = p]
    BY DEF OnReconnect, history
  <2>3. QED
    BY <2>1, <2>2, GreetingConsistent
<1>3. PrimaryKnown'
  BY GreetingPrimary DEF OnReconnect, Consistent
<1>4. QED
  BY <1>2, <1>3 DEF Consistent

\* A client registers: it is written no request.
LEMMA RegisterClientConsistent ==
  ASSUME TypeOK, Consistent, NEW c \in Conns, NEW p \in ClientPeers, Greets(c), RegisterClient(c, p)
  PROVE  Consistent'
<1>1. /\ sock[c] = "open" /\ peer[c] = NONE
      /\ UNCHANGED <<requests, target, answered, sock>>
      /\ peer' = [peer EXCEPT ![c] = p]
      /\ UNCHANGED idMap /\ registered \subseteq registered'
  BY DEF RegisterClient, AcceptClient, RefuseClient, Greets, history, tables
<1>2. PICK ms : Quiet(ms) /\ (Put(c, ms) \/ UNCHANGED sent)
  <2>1. CASE RefuseClient(c)
    BY <2>1, QuietReplies, QuietConcat DEF RefuseClient
  <2>2. QED
    BY <2>1, QuietReplies DEF RegisterClient, AcceptClient
<1>3. PendingUnanswered' /\ QueueOwn' /\ HandedOwn' /\ ClosedSilent'
  BY <1>1, <1>2, GreetingConsistent DEF Quiet
<1>4. PrimaryKnown'
  BY <1>1, GreetingNoRecord DEF Consistent
<1>5. QED
  BY <1>3, <1>4 DEF Consistent

\* A peer of another type registers: nor is it.
LEMMA RegisterOtherConsistent ==
  ASSUME TypeOK, Consistent, NEW c \in Conns, Greets(c), RegisterOther(c)
  PROVE  Consistent'
<1>1. /\ sock[c] = "open" /\ peer[c] = NONE
      /\ UNCHANGED <<requests, target, answered, sock>>
      /\ peer' = [peer EXCEPT ![c] = OtherPeer]
      /\ UNCHANGED idMap /\ registered \subseteq registered'
  BY DEF RegisterOther, Greets, history, tables
<1>2. PendingUnanswered' /\ QueueOwn' /\ HandedOwn' /\ ClosedSilent'
  <2>1. PICK ms : Quiet(ms) /\ Put(c, ms)
    BY QuietReplies DEF RegisterOther
  <2>2. QED
    BY <1>1, <2>1, GreetingConsistent DEF Quiet
<1>3. PrimaryKnown'
  BY <1>1, GreetingNoRecord DEF Consistent
<1>4. QED
  BY <1>2, <1>3 DEF Consistent

\* The auth function answers for a monitor: it becomes the primary it announced.
LEMMA AuthServerDoneConsistent ==
  ASSUME TypeOK, TypeOK', Consistent, NEW c \in Conns, AuthServerDone(c)
  PROVE  Consistent'
<1>1. /\ UNCHANGED <<requests, target, answered, peer, sock>>
      /\ registered \subseteq registered'
  BY DEF AuthServerDone, history
<1>2. PICK ms : Quiet(ms) /\ Put(c, ms)
  BY QuietReplies DEF AuthServerDone
<1>3. PendingUnanswered' /\ QueueOwn'
  BY <1>1, LedgerKept DEF Consistent
<1>4. HandedOwn'
  BY <1>1, <1>2, QuietReply, HandedKept DEF Consistent
<1>5. ClosedSilent'
  BY <1>1, <1>2, QuietReply DEF Consistent, ClosedSilent
<1>6. PrimaryKnown'
  <2>1. CASE AddConnection(c, peer[c]) /\ registered' = registered \cup {c}
    BY <1>1, <2>1, PrimaryAdded DEF AuthServerDone, Consistent
  <2>2. CASE UNCHANGED idMap
    BY <1>1, <2>2, PrimaryKept DEF Consistent, PrimaryKnown
  <2>3. QED
    BY <2>1, <2>2 DEF AuthServerDone, tables
<1>7. QED
  BY <1>3, <1>4, <1>5, <1>6 DEF Consistent

\* The auth function answers for a client.
LEMMA AuthUserDoneConsistent ==
  ASSUME TypeOK, Consistent, NEW c \in Conns, AuthUserDone(c)
  PROVE  Consistent'
<1>1. /\ UNCHANGED <<requests, target, answered, peer, sock>>
      /\ registered \subseteq registered' /\ UNCHANGED idMap
  BY DEF AuthUserDone, AcceptClient, history, tables
<1>2. PICK ms : Quiet(ms) /\ Put(c, ms)
  BY QuietReplies DEF AuthUserDone, AcceptClient
<1>3. QED
  BY <1>1, <1>2, QuietReply, QuietStep

\* A kick writes no request.
LEMMA KickConsistent ==
  ASSUME TypeOK, Consistent, NEW c \in Conns, Kick(c)
  PROVE  Consistent'
<1>1. /\ UNCHANGED <<requests, target, answered, peer, sock>>
      /\ registered \subseteq registered' /\ UNCHANGED idMap
  BY DEF Kick, links, history, tables
<1>2. PICK ms : Quiet(ms) /\ Put(c, ms)
  BY QuietReplies DEF Kick
<1>3. QED
  BY <1>1, <1>2, QuietReply, QuietStep

\* An answer of the master to a peer is no request.
LEMMA AnswerConsistent ==
  ASSUME TypeOK, Consistent, NEW c \in Conns, Answer(c)
  PROVE  Consistent'
<1>1. /\ UNCHANGED <<requests, target, answered, peer, sock>>
      /\ registered \subseteq registered' /\ UNCHANGED idMap
  BY DEF Answer, history, tables
<1>2. PICK ms : Quiet(ms) /\ Put(c, ms)
  BY QuietReplies DEF Answer
<1>3. QED
  BY <1>1, <1>2, QuietReply, QuietStep

\* Steps that touch nothing Consistent is about.
LEMMA IdleConsistent ==
  ASSUME TypeOK, Consistent,
         UNCHANGED <<requests, target, answered, peer, sock, sent, registered, idMap>>
  PROVE  Consistent'
BY QuietStep

\* What a monitor was handed was made to it.
LEMMA HandedToOwner ==
  ASSUME Consistent, NEW c \in Conns, NEW r \in Handed(c)
  PROVE  r \in ReqIds /\ target[r] = peer[c].id
BY NotRequests DEF Handed, Consistent, HandedOwn

\* A monitor answers: the callback is gone before another answer can come.
LEMMA OnResponseConsistent ==
  ASSUME TypeOK, Consistent, NEW c \in Conns, NEW r \in ReqIds,
         target[r] = peer[c].id, OnResponse(c, r)
  PROVE  /\ Consistent'
         /\ target[r] # NONE /\ answered[r] = <<>>
         /\ answered' = [answered EXCEPT ![r] = <<target[r]>>] /\ UNCHANGED target
<1>1. /\ peer[c] \in MonitorPeers /\ peer[c].id \in Servers /\ r \in callbacks
      /\ UNCHANGED <<reqId, target, sent, peer, sock, registered, idMap>>
  BY DEF OnResponse, MonitorPeers, links, tables
<1>2. target[r] # NONE /\ answered[r] = <<>>
  BY <1>1 DEF Consistent, PendingUnanswered
<1>3. answered' = [answered EXCEPT ![r] = <<target[r]>>]
  <2>1. \A e : Append(<<>>, e) = <<e>>
    OBVIOUS
  <2>2. QED
    BY <1>2, <2>1 DEF OnResponse
<1>4. PendingUnanswered'
  <2>1. callbacks' = callbacks \ {r} /\ \A q \in ReqIds \ {r} : answered'[q] = answered[q]
    BY <1>3 DEF OnResponse, TypeOK
  <2>2. QED
    BY <1>1, <1>2, <2>1 DEF Consistent, PendingUnanswered
<1>5. QueueOwn'
  <2>1. ToSet(RemoveFirst(msgMap[peer[c].id], r)) \subseteq ToSet(msgMap[peer[c].id])
    BY <1>1, ToSetOfRemoveFirst DEF TypeOK
  <2>2. \A s \in Servers : ToSet(msgMap'[s]) \subseteq ToSet(msgMap[s])
    BY <2>1 DEF OnResponse, TypeOK
  <2>3. QED
    BY <1>1, <2>2 DEF Consistent, QueueOwn
<1>6. HandedOwn' /\ ClosedSilent' /\ PrimaryKnown'
  BY <1>1 DEF Consistent, HandedOwn, ClosedSilent, PrimaryKnown
<1>7. QED
  BY <1>1, <1>2, <1>3, <1>4, <1>5, <1>6 DEF Consistent

(***************************************************************************)
(* The end of a connection.  Infos are compared, not connections; but the  *)
(* primary's record was made from the connection's own info, so it is      *)
(* always found when its connection ends.                                  *)
(***************************************************************************)
LEMMA OnDisconnectConsistent ==
  ASSUME TypeOK, Consistent, NEW c \in Conns, OnDisconnect(c), agentState' # "CRASHED"
  PROVE  Consistent'
<1>1. PendingUnanswered' /\ QueueOwn'
  BY LedgerKept DEF Consistent, OnDisconnect, history
<1>2. sent'[c] = <<>> /\ \A d \in Conns \ {c} : sent'[d] = sent[d] /\ peer'[d] = peer[d] /\ sock'[d] = sock[d]
  BY DEF OnDisconnect, TypeOK
<1>3. HandedOwn'
  <2>1. \A d \in Conns : \A m \in ToSet(sent'[d]) : m \in ToSet(sent[d]) /\ peer'[d] = peer[d]
    BY <1>2, ToSetOfFew
  <2>2. QED
    BY <2>1, HandedKept DEF Consistent, OnDisconnect, history
<1>4. ClosedSilent'
  BY <1>2 DEF Consistent, ClosedSilent
<1>5. PrimaryKnown'
  <2>1. ASSUME NEW s \in Servers
        PROVE  idMap'[s] = idMap[s] \/ idMap'[s] = NONE
    BY DEF OnDisconnect, tables, RemoveMonitor, RemovePrimary, RemoveSlave, RemoveClient, TypeOK
  <2>2. ASSUME NEW s \in Servers, idMap'[s] # NONE
        PROVE  idMap[s].socket # c
    <3>1. SUFFICES ASSUME idMap[s].socket = c PROVE FALSE
      OBVIOUS
    <3>2. idMap[s] # NONE
      BY <2>1, <2>2
    <3>3. /\ c \in registered /\ peer[c] \in MonitorPeers /\ peer[c].id = s
          /\ idMap[s].addr = peer[c].addr
      <4>1. /\ c \in registered /\ peer[c] \in MonitorPeers /\ peer[c].id = s
            /\ idMap[s] = Record(c, peer[c])
        BY <3>1, <3>2 DEF Consistent, PrimaryKnown
      <4>2. Record(c, peer[c]).addr = peer[c].addr
        BY DEF Record
      <4>3. QED
        BY <4>1, <4>2
    <3>4. peer[c] \notin ClientPeers
      BY <3>3 DEF MonitorPeers, ClientPeers
    <3>5. RemoveMonitor(s, peer[c].addr)
      BY <3>3, <3>4 DEF OnDisconnect
    <3>6. RemovePrimary(s)
      BY <3>2, <3>3, <3>5 DEF RemoveMonitor
    <3>7. idMap'[s] = NONE
      BY <3>6 DEF RemovePrimary, TypeOK
    <3>8. QED
      BY <2>2, <3>7
  <2>3. ASSUME NEW s \in Servers, idMap'[s] # NONE
        PROVE  /\ idMap[s].socket \in registered'
               /\ peer'[idMap[s].socket] = peer[idMap[s].socket]
    <3>1. idMap[s] # NONE /\ idMap[s].socket # c
      BY <2>1, <2>2, <2>3
    <3>2. idMap[s].socket \in registered /\ idMap[s].socket \in Conns
      BY <3>1 DEF Consistent, PrimaryKnown, TypeOK, Records
    <3>3. registered \ {c} \subseteq registered'
      BY DEF OnDisconnect
    <3>4. QED
      BY <1>2, <3>1, <3>2, <3>3
  <2>4. QED
    BY <2>1, <2>3, PrimaryKept DEF Consistent
<1>6. QED
  BY <1>1, <1>3, <1>4, <1>5 DEF Consistent

(***************************************************************************)
(* Requests.                                                               *)
(***************************************************************************)
LEMMA NewRequestConsistent ==
  ASSUME TypeOK, Consistent, NEW s \in Servers, NewRequest(s), UNCHANGED answered
  PROVE  /\ PendingUnanswered'
         /\ reqId \in ReqIds /\ target[reqId] = NONE /\ target'[reqId] = s
         /\ \A r \in ReqIds : target[r] # NONE => target'[r] = target[r]
<1>1. reqId \in ReqIds /\ reqId \in Nat /\ reqId' = reqId + 1 /\ callbacks' = callbacks \cup {reqId}
  <2>1. reqId \in ReqIds
    BY NewRequestType
  <2>2. reqId \in Nat
    BY <2>1 DEF ReqIds
  <2>3. QED
    BY <2>1, <2>2 DEF NewRequest
<1>2. target[reqId] = NONE
  BY <1>1 DEF Consistent, PendingUnanswered
<1>3. target'[reqId] = s /\ \A r \in ReqIds \ {reqId} : target'[r] = target[r]
  BY <1>1 DEF NewRequest, TypeOK
<1>4. s # NONE
  BY NoneAssumption
<1>5. PendingUnanswered'
  <2>1. ASSUME NEW r \in ReqIds
        PROVE  /\ target'[r] = NONE <=> r >= reqId'
               /\ r \in callbacks' => target'[r] # NONE
               /\ target'[r] = NONE \/ r \in callbacks' => answered'[r] = <<>>
    <3>1. CASE r = reqId
      BY <1>1, <1>2, <1>3, <1>4, <3>1 DEF Consistent, PendingUnanswered
    <3>2. CASE r # reqId
      BY <1>1, <1>3, <3>2 DEF Consistent, PendingUnanswered, ReqIds
    <3>3. QED
      BY <3>1, <3>2
  <2>2. QED
    BY <2>1 DEF PendingUnanswered
<1>6. QED
  BY <1>1, <1>2, <1>3, <1>5

\* The request goes to nobody, or to the primary of the server it was made to.
LEMMA RequestWritten ==
  ASSUME TypeOK, Consistent, NEW s \in Servers, NewRequest(s), UNCHANGED <<answered, peer, sock>>,
         UNCHANGED sent \/ (idMap[s] # NONE /\ Put(idMap[s].socket, <<RequestMsg(reqId)>>))
  PROVE  HandedOwn' /\ ClosedSilent'
<1>1. /\ reqId \in ReqIds /\ target'[reqId] = s
      /\ \A r \in ReqIds : target[r] # NONE => target'[r] = target[r]
  BY NewRequestConsistent
<1>2. <<RequestMsg(reqId)>> \in Seq(Message) /\ ToSet(<<RequestMsg(reqId)>>) = {RequestMsg(reqId)}
  BY <1>1, ReplyTypes, MessageTypes, ToSetOfFew
<1>3. CASE UNCHANGED sent
  BY <1>1, <1>3, HandedKept DEF Consistent, ClosedSilent
<1>4. CASE idMap[s] # NONE /\ Put(idMap[s].socket, <<RequestMsg(reqId)>>)
  <2>1. peer[idMap[s].socket] \in MonitorPeers /\ peer[idMap[s].socket].id = s
    BY <1>4 DEF Consistent, PrimaryKnown
  <2>2. ASSUME NEW d \in Conns
        PROVE  /\ ToSet(sent'[d]) \subseteq
                    ToSet(sent[d]) \cup (IF d = idMap[s].socket THEN {RequestMsg(reqId)} ELSE {})
               /\ sock[d] = "closed" => sent'[d] = sent[d]
    BY <1>2, <1>4, PutContents
  <2>3. ASSUME NEW d \in Conns, NEW m \in ToSet(sent'[d])
        PROVE  \/ m \in ToSet(sent[d]) /\ peer'[d] = peer[d]
               \/ peer'[d] \in MonitorPeers /\ m.n \in ReqIds /\ target'[m.n] = peer'[d].id
    BY <1>1, <2>1, <2>2, NotRequests
  <2>4. HandedOwn'
    BY <1>1, <2>3, HandedKept DEF Consistent
  <2>5. ClosedSilent'
    BY <2>2 DEF Consistent, ClosedSilent
  <2>6. QED
    BY <2>4, <2>5
<1>5. QED
  BY <1>3, <1>4

\* request(): written to the primary of the server it is made to (PrimaryKnown).
LEMMA RequestConsistent ==
  ASSUME TypeOK, Consistent, NEW s \in Servers, Request(s)
  PROVE  Consistent'
<1>1. /\ reqId \in ReqIds /\ target'[reqId] = s /\ PendingUnanswered'
      /\ \A r \in ReqIds : target[r] # NONE => target'[r] = target[r]
  BY NewRequestConsistent DEF Request
<1>2. HandedOwn' /\ ClosedSilent'
  BY RequestWritten DEF Request, links
<1>3. QueueOwn'
  <2>1. ToSet(Append(msgMap[s], reqId)) = ToSet(msgMap[s]) \cup {reqId}
    BY <1>1, ToSetOfAppend DEF TypeOK
  <2>2. \A q \in Servers : \A r \in ToSet(msgMap[q]) : r \in ReqIds /\ target[r] = q /\ q # NONE
    BY NoneAssumption DEF Consistent, QueueOwn, TypeOK, ToSet
  <2>3. ASSUME NEW q \in Servers, NEW r \in ToSet(msgMap'[q])
        PROVE  target'[r] = q
    <3>1. r \in ToSet(msgMap[q]) \/ (q = s /\ r = reqId)
      BY <2>1, <2>3 DEF Request, TypeOK
    <3>2. QED
      BY <1>1, <2>2, <3>1
  <2>4. QED
    BY <2>3 DEF QueueOwn
<1>4. PrimaryKnown'
  BY DEF Consistent, PrimaryKnown, Request, links, tables
<1>5. QED
  BY <1>1, <1>2, <1>3, <1>4 DEF Consistent


\* The place found by compareServer is the primary's: every record compares alike.
LEMMA ComparedPrimary ==
  ASSUME TypeOK, NEW s \in Servers, NEW addr, idMap[s] # NONE, WithAddr(s, addr) # 0
  PROVE  Connected(s)[WithAddr(s, addr)] = idMap[s]
<1>1. /\ Len(Connected(s)) \in Nat /\ Len(Connected(s)) >= 1
      /\ DOMAIN Connected(s) = 1..Len(Connected(s))
      /\ Connected(s)[1] = idMap[s]
  BY DEF Connected, TypeOK
<1> DEFINE I == {i \in 1..Len(Connected(s)) : OwnAddr(Connected(s)[i]) = addr}
<1>2. I # {} /\ WithAddr(s, addr) = Min(I)
  BY DEF WithAddr, SelectInSeq
<1>3. NoInfo = addr
  BY <1>2 DEF OwnAddr
<1>4. I = 1..Len(Connected(s))
  BY <1>1, <1>3 DEF OwnAddr
<1>5. Min(I) \in I /\ \A j \in I : Min(I) <= j
  <2> HIDE DEF I
  <2>1. QED
    BY <1>1, <1>2, <1>4, LeastIndex
<1>6. Min(I) = 1
  <2> HIDE DEF I
  <2>1. QED
    BY <1>1, <1>4, <1>5
<1>7. QED
  BY <1>1, <1>2, <1>6

\* requestServer(): written to the primary or to nobody, for a record has no address.
LEMMA RequestServerConsistent ==
  ASSUME TypeOK, Consistent, NEW s \in Servers, NEW addr, RequestServer(s, addr)
  PROVE  Consistent'
<1>1. /\ PendingUnanswered'
      /\ \A r \in ReqIds : target[r] # NONE => target'[r] = target[r]
  BY NewRequestConsistent DEF RequestServer
<1>2. HandedOwn' /\ ClosedSilent'
  BY ComparedPrimary, RequestWritten DEF RequestServer, links
<1>3. QueueOwn'
  <2>1. \A q \in Servers : \A r \in ToSet(msgMap[q]) : r \in ReqIds /\ target[r] = q /\ q # NONE
    BY NoneAssumption DEF Consistent, QueueOwn, TypeOK, ToSet
  <2>2. UNCHANGED msgMap
    BY DEF RequestServer
  <2>3. QED
    BY <1>1, <2>1, <2>2 DEF QueueOwn
<1>4. PrimaryKnown'
  BY DEF Consistent, PrimaryKnown, RequestServer, links, tables
<1>5. QED
  BY <1>1, <1>2, <1>3, <1>4 DEF Consistent

(***************************************************************************)
(* Notifications write nothing the invariant is about.                     *)
(***************************************************************************)
LEMMA NotifyingConsistent ==
  ASSUME TypeOK, Consistent, Notifying,
         \A c \in Conns : \A m \in ToSet(sent'[c]) : m.kind = "request" => m \in ToSet(sent[c]),
         \A c \in Conns : sock[c] = "closed" => sent'[c] = sent[c]
  PROVE  Consistent'
BY QuietStep DEF Notifying, links, tables, history

\* A broadcast of anything but a request disturbs nothing.
LEMMA BroadcastConsistent ==
  ASSUME TypeOK, Consistent, Notifying, NEW times \in [Conns -> Nat],
         NEW kind \in Kinds, kind # "request", Broadcast(times, Plain(kind))
  PROVE  Consistent'
<1>1. Plain(kind) \in Message /\ Plain(kind).kind # "request"
  BY MessageTypes, NotRequests
<1>2. QED
  BY <1>1, BroadcastContents, NotifyingConsistent

\* Nor does a single such message.
LEMMA ReplyConsistent ==
  ASSUME TypeOK, Consistent, Notifying, NEW c \in Conns, NEW ms, Quiet(ms), Put(c, ms)
  PROVE  Consistent'
BY QuietReply, NotifyingConsistent

\* Every notification is of that kind.
LEMMA NotificationConsistent ==
  ASSUME TypeOK, Consistent,
         \/ \E s \in Servers : NotifyById(s) \/ NotifySlavesById(s)
         \/ \E s \in Servers, a \in Addrs : NotifyByServer(s, a)
         \/ \E t \in Types : NotifyByType(t)
         \/ \E u \in Users : NotifyClient(u)
         \/ NotifyAll
         \/ NotifyCommand
  PROVE  Consistent'
<1>1. \A s \in Servers : idMap[s] # NONE => idMap[s].socket \in Conns
  BY DEF TypeOK, Records
<1>2. \A u \in Users : clients[u] # NONE => clients[u] \in Conns
  BY DEF TypeOK
<1>3. CASE \E s \in Servers : NotifyById(s)
  BY <1>1, <1>3, QuietReplies, ReplyConsistent DEF NotifyById
<1>4. ASSUME NEW s \in Servers, NEW a \in Addrs, NotifyByServer(s, a)
      PROVE  Consistent'
  <2>1. CASE WithAddr(s, a) # 0 /\ Put(Connected(s)[WithAddr(s, a)].socket, <<Plain("notify")>>)
    BY <1>1, <1>4, <2>1, ComparedPrimary, QuietReplies, ReplyConsistent DEF NotifyByServer
  <2>2. CASE UNCHANGED sent
    BY <1>4, <2>2, NotifyingConsistent DEF NotifyByServer
  <2>3. QED
    BY <1>4, <2>1, <2>2 DEF NotifyByServer
<1>5. CASE \E u \in Users : NotifyClient(u)
  BY <1>2, <1>5, QuietReplies, ReplyConsistent DEF NotifyClient
<1>6. "notify" \in Kinds /\ "command" \in Kinds
  BY DEF Kinds
<1>7. CASE \E s \in Servers : NotifySlavesById(s)
  BY <1>6, <1>7, PerElementType, BroadcastConsistent DEF NotifySlavesById, TypeOK
<1>8. CASE \E t \in Types : NotifyByType(t)
  BY <1>6, <1>8, PerElementType, BroadcastConsistent DEF NotifyByType, TypeOK
<1>9. CASE NotifyAll \/ NotifyCommand
  BY <1>6, <1>9, PerKeyType, BroadcastConsistent DEF NotifyAll, NotifyCommand
<1>10. QED
  BY <1>3, <1>4, <1>5, <1>7, <1>8, <1>9

-----------------------------------------------------------------------------
\* Every step of a consistent master that does not crash it leaves it consistent.
LEMMA StepConsistent ==
  ASSUME TypeOK, TypeOK', Consistent, Next, agentState' # "CRASHED"
  PROVE  Consistent'
<1>1. CASE Listen \/ Close
  BY <1>1, IdleConsistent DEF Listen, Close, links, tables, requests, history
<1>2. ASSUME NEW c \in Conns, Handshake(c)
      PROVE  Consistent'
  BY <1>2, ConnectionConsistent, RegisterMonitorConsistent, OnReconnectConsistent,
     RegisterClientConsistent, RegisterOtherConsistent, AuthServerDoneConsistent,
     AuthUserDoneConsistent DEF Handshake, Greets
<1>3. ASSUME NEW c \in Conns, Traffic(c)
      PROVE  Consistent'
  <2>1. CASE OnAsk(c)
    BY <2>1, IdleConsistent DEF OnAsk, tables, requests, history
  <2>2. CASE \E r \in Handed(c) : OnResponse(c, r)
    BY <2>2, HandedToOwner, OnResponseConsistent
  <2>3. QED
    BY <1>3, <2>1, <2>2, KickConsistent, AnswerConsistent, OnDisconnectConsistent DEF Traffic
<1>4. CASE Call
  BY <1>4, RequestConsistent, RequestServerConsistent, NotificationConsistent DEF Call
<1>5. QED
  BY <1>1, <1>2, <1>3, <1>4 DEF Next

\* So does a stuttering step.
LEMMA StutterConsistent ==
  ASSUME Consistent, UNCHANGED vars
  PROVE  Consistent'
BY DEF Consistent, PendingUnanswered, QueueOwn, HandedOwn, ClosedSilent, PrimaryKnown,
       vars, process, links, tables, requests, history

\* AnswerInv: in every state of a master that has not crashed the requests, the queues,
\* what was written to each connection and the table of primaries agree on which server
\* a request belongs to, for any number of connections, servers and requests.
THEOREM AnswersConsistent == Spec => []AnswerInv
<1>1. Init => AnswerInv
  BY InitConsistent DEF AnswerInv
<1>2. ASSUME TypeOK, TypeOK', AnswerInv, [Next]_vars
      PROVE  AnswerInv'
  <2>1. CASE Next
    BY <1>2, <2>1, StepConsistent DEF AnswerInv, Next
  <2>2. CASE UNCHANGED vars
    BY <1>2, <2>2, StutterConsistent DEF AnswerInv, vars, process
  <2>3. QED
    BY <1>2, <2>1, <2>2
<1>3. QED
  BY <1>1, <1>2, TypeCorrect, PTL DEF Spec

-----------------------------------------------------------------------------
(***************************************************************************)
(* Every step of the master is a step of the contract, or none.            *)
(***************************************************************************)
LEMMA RequestImplements ==
  ASSUME TypeOK, Consistent, NEW s \in Servers, NewRequest(s), UNCHANGED answered
  PROVE  Contract!Next
<1>1. reqId \in 1..MaxReq /\ target[reqId] = NONE
  BY NewRequestConsistent DEF ReqIds
<1>2. Contract!Make(reqId, s)
  BY <1>1 DEF NewRequest, Contract!Make
<1>3. QED
  BY <1>1, <1>2 DEF Contract!Next

\* An answer is an Answer of the contract, or stutters.
LEMMA ResponseImplements ==
  ASSUME TypeOK, Consistent, NEW c \in Conns, NEW r \in ReqIds,
         target[r] = peer[c].id, OnResponse(c, r)
  PROVE  Contract!Next
<1>1. r \in 1..MaxReq
  BY DEF ReqIds
<1>2. Contract!Answer(r)
  BY OnResponseConsistent DEF Contract!Answer
<1>3. QED
  BY <1>1, <1>2 DEF Contract!Next

\* Every step is one of the contract, or stutters.
LEMMA StepImplements ==
  ASSUME TypeOK, AnswerInv, [Next]_vars
  PROVE  [Contract!Next]_(Contract!vars)
<1>1. CASE Next
  <2>1. Consistent
    BY <1>1 DEF AnswerInv, Next
  <2>2. CASE Listen \/ Close
    BY <2>2 DEF Listen, Close, history, Contract!vars
  <2>3. ASSUME NEW c \in Conns, Handshake(c)
        PROVE  UNCHANGED Contract!vars
    BY <2>3 DEF Handshake, Connection, RegisterMonitor, OnReconnect, RegisterClient, RegisterOther,
       AuthServerDone, AuthUserDone, history, Contract!vars
  <2>4. ASSUME NEW c \in Conns, Traffic(c)
        PROVE  [Contract!Next]_(Contract!vars)
    <3>1. CASE \E r \in Handed(c) : OnResponse(c, r)
      BY <2>1, <3>1, HandedToOwner, ResponseImplements
    <3>2. CASE Kick(c) \/ OnAsk(c) \/ Answer(c) \/ OnDisconnect(c)
      BY <3>2 DEF Kick, OnAsk, Answer, OnDisconnect, history, Contract!vars
    <3>3. QED
      BY <2>4, <3>1, <3>2 DEF Traffic
  <2>5. CASE Call
    <3>1. CASE \E s \in Servers : Request(s)
      BY <2>1, <3>1, RequestImplements DEF Request
    <3>2. CASE \E s \in Servers, a \in Addrs : RequestServer(s, a)
      BY <2>1, <3>2, RequestImplements DEF RequestServer
    <3>3. CASE Notifying
      BY <3>3 DEF Notifying, history, Contract!vars
    <3>4. QED
      BY <2>5, <3>1, <3>2, <3>3 DEF Call, NotifyById, NotifySlavesById, NotifyByServer,
         NotifyByType, NotifyClient, NotifyAll, NotifyCommand
  <2>6. QED
    BY <1>1, <2>2, <2>3, <2>4, <2>5 DEF Next
<1>2. CASE UNCHANGED vars
  BY <1>2 DEF vars, history, Contract!vars
<1>3. QED
  BY <1>1, <1>2

\* AnswersOnce: the master implements the contract of a request.  Its callback gets at
\* most one answer, and that one comes from the server the request was made to, whatever
\* connections end, come back or register under a taken id in between.
THEOREM RequestsAnsweredOnce == Spec => AnswersOnce
<1>1. Init => Contract!Init
  BY DEF Init, Contract!Init, ReqIds
<1>2. TypeOK /\ AnswerInv /\ [Next]_vars => [Contract!Next]_(Contract!vars)
  BY StepImplements
<1>3. QED
  BY <1>1, <1>2, TypeCorrect, AnswersConsistent, PTL DEF Spec, AnswersOnce, Contract!Spec

=============================================================================
