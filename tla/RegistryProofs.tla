---------------------------- MODULE RegistryProofs ----------------------------
(***************************************************************************)
(* Who is registered, for any numbers of connections, servers and clients: *)
(* the tables of MasterAgent agree with each other in every state, and     *)
(* with the connections while the auth functions answer at once.           *)
(*                                                                         *)
(* The table of a type is in step with the table of ids because a record   *)
(* is filed under its own id (IdOwn) and the list of a type has no id      *)
(* twice (ByType).  A connection gets one record because it can get one    *)
(* only while it has none (RecordsKnown): a connection that has announced  *)
(* itself announces itself no more, and one that waits for its auth        *)
(* function is not used again until that has answered.                     *)
(***************************************************************************)
EXTENDS MasterAgentProofs

IdOwn == \A s \in Servers : idMap[s] # NONE => idMap[s].id = s

\* The list of a type: no id twice, primaries of the type, all of them.
ByType ==
  /\ \A t \in Types : \A i, j \in 1..Len(typeMap[t]) :
       typeMap[t][i].id = typeMap[t][j].id => i = j
  /\ \A t \in Types : \A i \in 1..Len(typeMap[t]) :
       idMap[typeMap[t][i].id] = typeMap[t][i] /\ TypeOf[typeMap[t][i].id] = t
  /\ \A s \in Servers : idMap[s] # NONE =>
       \E i \in 1..Len(typeMap[TypeOf[s]]) : typeMap[TypeOf[s]][i] = idMap[s]

HoldsPrimary(c) == \E s \in Servers : idMap[s] # NONE /\ idMap[s].socket = c
HoldsSlave(c, s) == \E i \in 1..Len(slaveMap[s]) : slaveMap[s][i].socket = c
Holds(c) == HoldsPrimary(c) \/ \E s \in Servers : HoldsSlave(c, s)

Apart ==
  /\ \A s \in Servers : \A i, j \in 1..Len(slaveMap[s]) :
       slaveMap[s][i].socket = slaveMap[s][j].socket => i = j
  /\ \A c \in Conns, s \in Servers : HoldsSlave(c, s) =>
       ~HoldsPrimary(c) /\ \A q \in Servers \ {s} : ~HoldsSlave(c, q)

RecordsKnown ==
  \A c \in Conns : Holds(c) => c \notin authing /\ (sock[c] = "closed" \/ peer[c] # NONE)

AuthingKnown == \A c \in authing : peer[c] # NONE

TablesInv == IdOwn /\ ByType /\ Apart
RegistryInv == TablesInv /\ RecordsKnown /\ AuthingKnown

-----------------------------------------------------------------------------
(***************************************************************************)
(* Adding and removing a record.                                           *)
(***************************************************************************)
\* The fields of a new record.
LEMMA RecordFields ==
  ASSUME NEW c \in Conns, NEW p \in MonitorPeers
  PROVE  /\ Record(c, p) \in Records /\ Record(c, p) # NONE
         /\ Record(c, p).id = p.id /\ Record(c, p).addr = p.addr /\ Record(c, p).socket = c
         /\ p.id \in Servers /\ TypeOf[p.id] \in Types /\ p # NONE
BY NoRecordAssumption, NoPeerAssumption, TypeAssumption DEF Record, Records, MonitorPeers, Peers

\* What is in a list with one record more.
LEMMA Appended ==
  ASSUME NEW list \in Seq(Records), NEW r \in Records
  PROVE  /\ Len(Append(list, r)) = Len(list) + 1 /\ Len(list) \in Nat
         /\ Append(list, r)[Len(list) + 1] = r
         /\ \A i \in 1..Len(list) : Append(list, r)[i] = list[i]
OBVIOUS

\* A monitor's first connection goes into both tables, another one among the slaves.
LEMMA AddedByType ==
  ASSUME TypeOK, TablesInv, NEW c \in Conns, NEW p \in MonitorPeers, AddConnection(c, p)
  PROVE  IdOwn' /\ ByType'
<1> DEFINE r == Record(c, p)
           t0 == TypeOf[p.id]
<1>1. /\ r \in Records /\ r # NONE /\ r.id = p.id /\ p.id \in Servers /\ t0 \in Types
  BY RecordFields
<1>2. /\ idMap \in [Servers -> Records \cup {NONE}] /\ typeMap \in [Types -> Seq(Records)]
      /\ TypeOf \in [Servers -> Types]
  BY TypeAssumption DEF TypeOK
<1>3. CASE UNCHANGED <<idMap, typeMap>>
  BY <1>3 DEF TablesInv, IdOwn, ByType
<1>4. CASE idMap[p.id] = NONE /\ idMap' = [idMap EXCEPT ![p.id] = r]
           /\ typeMap' = [typeMap EXCEPT ![t0] = Append(@, r)]
  <2> HIDE DEF r, t0
  <2>1. IdOwn'
    BY <1>1, <1>2, <1>4 DEF TablesInv, IdOwn
  <2>2. /\ typeMap'[t0] = Append(typeMap[t0], r) /\ typeMap[t0] \in Seq(Records)
        /\ \A t \in Types \ {t0} : typeMap'[t] = typeMap[t]
        /\ idMap'[p.id] = r /\ \A s \in Servers \ {p.id} : idMap'[s] = idMap[s]
    BY <1>1, <1>2, <1>4
  <2>3. /\ Len(typeMap'[t0]) = Len(typeMap[t0]) + 1 /\ Len(typeMap[t0]) \in Nat
        /\ typeMap'[t0][Len(typeMap[t0]) + 1] = r
        /\ \A i \in 1..Len(typeMap[t0]) : typeMap'[t0][i] = typeMap[t0][i]
    BY <1>1, <2>2, Appended
  <2>4. \A t \in Types : \A i \in 1..Len(typeMap[t]) :
          typeMap[t][i] \in Records /\ typeMap[t][i].id \in Servers /\ typeMap[t][i].id # p.id
    <3>1. ASSUME NEW t \in Types, NEW i \in 1..Len(typeMap[t])
          PROVE  typeMap[t][i] \in Records
      <4>1. typeMap[t] \in Seq(Records)
        BY <1>2
      <4> QED BY <4>1
    <3>2. \A e \in Records : e.id \in Servers /\ e # NONE
      BY NoRecordAssumption DEF Records
    <3> QED BY <1>4, <3>1, <3>2 DEF TablesInv, ByType
  <2>5. \A t \in Types : \A i, j \in 1..Len(typeMap'[t]) :
          typeMap'[t][i].id = typeMap'[t][j].id => i = j
    <3>1. ASSUME NEW t \in Types, NEW i \in 1..Len(typeMap'[t]), NEW j \in 1..Len(typeMap'[t]),
                 typeMap'[t][i].id = typeMap'[t][j].id
          PROVE  i = j
      <4>1. CASE t # t0
        BY <2>2, <3>1, <4>1 DEF TablesInv, ByType
      <4>2. CASE t = t0
        <5>1. i \in 1..Len(typeMap[t0]) \/ i = Len(typeMap[t0]) + 1
          BY <2>3, <4>2
        <5>2. j \in 1..Len(typeMap[t0]) \/ j = Len(typeMap[t0]) + 1
          BY <2>3, <4>2
        <5>3. \A k \in 1..Len(typeMap[t0]) :
                typeMap'[t0][k] = typeMap[t0][k] /\ typeMap'[t0][k].id # r.id
          BY <1>1, <2>3, <2>4
        <5>4. CASE i \in 1..Len(typeMap[t0]) /\ j \in 1..Len(typeMap[t0])
          <6>1. typeMap[t0][i].id = typeMap[t0][j].id
            BY <3>1, <4>2, <5>3, <5>4
          <6> QED BY <1>1, <5>4, <6>1 DEF TablesInv, ByType
        <5>5. CASE i = Len(typeMap[t0]) + 1 /\ j = Len(typeMap[t0]) + 1
          BY <5>5
        <5> QED BY <2>3, <3>1, <4>2, <5>1, <5>2, <5>3, <5>4, <5>5
      <4> QED BY <4>1, <4>2
    <3> QED BY <3>1
  <2>6. ASSUME NEW t \in Types, NEW i \in 1..Len(typeMap'[t])
        PROVE  idMap'[typeMap'[t][i].id] = typeMap'[t][i] /\ TypeOf[typeMap'[t][i].id] = t
    <3>1. CASE t = t0 /\ i = Len(typeMap[t0]) + 1
      BY <1>1, <2>2, <2>3, <3>1 DEF t0
    <3>2. CASE i \in 1..Len(typeMap[t]) /\ typeMap'[t][i] = typeMap[t][i]
      BY <2>2, <2>4, <3>2 DEF TablesInv, ByType
    <3>3. CASE t = t0
      <4>1. i \in 1..Len(typeMap[t0]) \/ i = Len(typeMap[t0]) + 1
        BY <2>3, <3>3
      <4>2. i \in 1..Len(typeMap[t0]) => typeMap'[t0][i] = typeMap[t0][i]
        BY <2>3
      <4> QED BY <3>1, <3>2, <3>3, <4>1, <4>2, Zenon
    <3>4. CASE t # t0
      <4>1. typeMap'[t] = typeMap[t]
        BY <2>2, <3>4
      <4> QED BY <3>2, <4>1
    <3> QED BY <3>3, <3>4
  <2>7. ASSUME NEW s \in Servers, idMap'[s] # NONE
        PROVE  \E i \in 1..Len(typeMap'[TypeOf[s]]) : typeMap'[TypeOf[s]][i] = idMap'[s]
    <3>1. CASE s = p.id
      <4>1. Len(typeMap[t0]) + 1 \in 1..Len(typeMap'[t0])
        BY <2>3
      <4>2. TypeOf[s] = t0 /\ idMap'[s] = r
        BY <2>2, <3>1 DEF t0
      <4> QED BY <2>3, <4>1, <4>2
    <3>2. CASE s # p.id
      <4>1. PICK i \in 1..Len(typeMap[TypeOf[s]]) : typeMap[TypeOf[s]][i] = idMap[s]
        BY <2>2, <2>7, <3>2 DEF TablesInv, ByType
      <4>2. TypeOf[s] \in Types
        BY <1>2
      <4>3. i \in 1..Len(typeMap'[TypeOf[s]]) /\ typeMap'[TypeOf[s]][i] = typeMap[TypeOf[s]][i]
        BY <2>2, <2>3, <4>2
      <4> QED BY <2>2, <3>2, <4>1, <4>3
    <3> QED BY <3>1, <3>2
  <2> QED BY <2>1, <2>5, <2>6, <2>7 DEF ByType
<1> QED BY <1>3, <1>4 DEF AddConnection

\* A connection that has no record gets one.
LEMMA AddedApart ==
  ASSUME TypeOK, Apart, NEW c \in Conns, NEW p \in MonitorPeers, AddConnection(c, p), ~Holds(c)
  PROVE  Apart' /\ \A d \in Conns \ {c} : Holds(d)' => Holds(d)
<1> DEFINE r == Record(c, p)
<1>1. r \in Records /\ r # NONE /\ r.socket = c /\ p.id \in Servers
  BY RecordFields
<1>2. idMap \in [Servers -> Records \cup {NONE}] /\ slaveMap \in [Servers -> Seq(Records)]
  BY DEF TypeOK
<1> HIDE DEF r
<1>3. CASE idMap' = [idMap EXCEPT ![p.id] = r] /\ UNCHANGED slaveMap
  <2>1. \A d \in Conns : HoldsPrimary(d)' => HoldsPrimary(d) \/ d = c
    BY <1>1, <1>2, <1>3 DEF HoldsPrimary
  <2>2. \A d \in Conns, s \in Servers : HoldsSlave(d, s)' <=> HoldsSlave(d, s)
    BY <1>3 DEF HoldsSlave
  <2>3. Apart'
    BY <1>3, <2>1, <2>2 DEF Apart, Holds
  <2> QED BY <2>1, <2>2, <2>3 DEF Holds
<1>4. CASE slaveMap' = [slaveMap EXCEPT ![p.id] = Append(@, r)] /\ UNCHANGED idMap
  <2>1. /\ slaveMap'[p.id] = Append(slaveMap[p.id], r) /\ slaveMap[p.id] \in Seq(Records)
        /\ \A s \in Servers \ {p.id} : slaveMap'[s] = slaveMap[s]
    BY <1>1, <1>2, <1>4
  <2>2. /\ Len(slaveMap'[p.id]) = Len(slaveMap[p.id]) + 1 /\ Len(slaveMap[p.id]) \in Nat
        /\ slaveMap'[p.id][Len(slaveMap[p.id]) + 1] = r
        /\ \A i \in 1..Len(slaveMap[p.id]) : slaveMap'[p.id][i] = slaveMap[p.id][i]
    BY <1>1, <2>1, Appended
  <2>3. \A d \in Conns : HoldsPrimary(d)' <=> HoldsPrimary(d)
    BY <1>4 DEF HoldsPrimary
  <2>4. \A d \in Conns, s \in Servers : HoldsSlave(d, s)' => HoldsSlave(d, s) \/ (d = c /\ s = p.id)
    <3>1. ASSUME NEW d \in Conns, NEW s \in Servers, HoldsSlave(d, s)'
          PROVE  HoldsSlave(d, s) \/ (d = c /\ s = p.id)
      <4>1. PICK i \in 1..Len(slaveMap'[s]) : slaveMap'[s][i].socket = d
        BY <3>1 DEF HoldsSlave
      <4>2. CASE s # p.id
        BY <2>1, <4>1, <4>2 DEF HoldsSlave
      <4>3. CASE s = p.id
        <5>1. i \in 1..Len(slaveMap[s]) \/ i = Len(slaveMap[s]) + 1
          BY <2>2, <4>1, <4>3
        <5> QED BY <1>1, <2>2, <4>1, <4>3, <5>1 DEF HoldsSlave
      <4> QED BY <4>2, <4>3
    <3> QED BY <3>1
  <2>5. ASSUME NEW s \in Servers, NEW i \in 1..Len(slaveMap'[s]), NEW j \in 1..Len(slaveMap'[s]),
               slaveMap'[s][i].socket = slaveMap'[s][j].socket
        PROVE  i = j
    <3>1. CASE s # p.id
      BY <2>1, <2>5, <3>1 DEF Apart
    <3>2. CASE s = p.id
      <4>1. i \in 1..Len(slaveMap[s]) \/ i = Len(slaveMap[s]) + 1
        BY <2>2, <3>2
      <4>2. j \in 1..Len(slaveMap[s]) \/ j = Len(slaveMap[s]) + 1
        BY <2>2, <3>2
      <4>3. \A k \in 1..Len(slaveMap[s]) : slaveMap[s][k].socket # c
        BY DEF Holds, HoldsSlave
      <4> QED BY <1>1, <2>2, <2>5, <3>2, <4>1, <4>2, <4>3 DEF Apart
    <3> QED BY <3>1, <3>2
  <2>6. ASSUME NEW d \in Conns, NEW s \in Servers, HoldsSlave(d, s)'
        PROVE  ~HoldsPrimary(d)' /\ \A q \in Servers \ {s} : ~HoldsSlave(d, q)'
    BY <2>3, <2>4, <2>6 DEF Apart, Holds
  <2>7. Apart'
    BY <2>5, <2>6 DEF Apart
  <2> QED BY <2>3, <2>4, <2>7 DEF Holds
<1> QED BY <1>3, <1>4 DEF AddConnection, r

\* rest is list without its element i: from names the place each element had.
Without(rest, list, i, from) ==
  /\ from \in [1..Len(rest) -> 1..Len(list)]
  /\ \A j \in 1..Len(rest) : from[j] # i /\ rest[j] = list[from[j]]
  /\ \A j, k \in 1..Len(rest) : from[j] = from[k] => j = k
  /\ \A k \in (1..Len(list)) \ {i} : \E j \in 1..Len(rest) : from[j] = k

\* Taking element i out of a list leaves the others, each in one place.
LEMMA TakenOut ==
  ASSUME NEW list \in Seq(Records), NEW i \in 1..Len(list)
  PROVE  \E from : Without(RemoveAt(list, i), list, i, from)
<1> DEFINE n == Len(list) - 1
           from == [j \in 1..n |-> IF j < i THEN j ELSE j + 1]
<1>1. /\ Len(RemoveAt(list, i)) = n
      /\ \A j \in 1..n : RemoveAt(list, i)[j] = IF j < i THEN list[j] ELSE list[j + 1]
  BY RemoveAtProperties
<1>2. Len(list) \in Nat /\ i \in Nat /\ i <= Len(list) /\ i >= 1
  OBVIOUS
<1>3. from \in [1..n -> 1..Len(list)]
  BY <1>2
<1>4. \A j \in 1..n : from[j] # i /\ RemoveAt(list, i)[j] = list[from[j]]
  BY <1>1, <1>2
<1>5. \A j, k \in 1..n : from[j] = from[k] => j = k
  BY <1>2
<1>6. ASSUME NEW k \in (1..Len(list)) \ {i} PROVE \E j \in 1..n : from[j] = k
  <2>1. CASE k < i
    <3>1. k \in 1..n /\ from[k] = k
      BY <1>2, <2>1
    <3> QED BY <3>1
  <2>2. CASE ~(k < i)
    <3>1. k - 1 \in 1..n /\ ~(k - 1 < i) /\ (k - 1) + 1 = k
      BY <1>2, <2>2
    <3>2. from[k - 1] = k
      BY <3>1
    <3> QED BY <3>1, <3>2
  <2> QED BY <2>1, <2>2
<1> HIDE DEF from, n
<1>7. Len(RemoveAt(list, i)) = n
  BY <1>1
<1>8. Without(RemoveAt(list, i), list, i, from)
  BY <1>3, <1>4, <1>5, <1>6, <1>7 DEF Without
<1> QED BY <1>8

\* The primary of an id that is removed is removed from both tables.
LEMMA RemovedByType ==
  ASSUME TypeOK, TablesInv, NEW s \in Servers, idMap[s] # NONE, RemovePrimary(s)
  PROVE  IdOwn' /\ ByType'
<1> DEFINE t0 == TypeOf[s]
<1>1. /\ idMap \in [Servers -> Records \cup {NONE}] /\ typeMap \in [Types -> Seq(Records)]
      /\ TypeOf \in [Servers -> Types] /\ t0 \in Types
  BY TypeAssumption DEF TypeOK
<1>2. typeMap[t0] \in Seq(Records)
  BY <1>1
<1>3. PICK i \in 1..Len(typeMap[t0]) : typeMap[t0][i] = idMap[s] /\ typeMap[t0][i].id = s
  BY DEF TablesInv, ByType, IdOwn
<1>4. WithoutId(typeMap[t0], s) = RemoveAt(typeMap[t0], i)
  <2>1. PICK k \in 1..Len(typeMap[t0]) :
          typeMap[t0][k].id = s /\ WithoutId(typeMap[t0], s) = RemoveAt(typeMap[t0], k)
    BY <1>2, <1>3, WithoutIdProperties
  <2> QED BY <1>1, <1>3, <2>1 DEF TablesInv, ByType
<1>5. /\ typeMap'[t0] = RemoveAt(typeMap[t0], i)
      /\ \A t \in Types \ {t0} : typeMap'[t] = typeMap[t]
      /\ idMap'[s] = NONE /\ \A q \in Servers \ {s} : idMap'[q] = idMap[q]
  BY <1>1, <1>4 DEF RemovePrimary
<1> DEFINE n == Len(RemoveAt(typeMap[t0], i))
<1>6. PICK from :
        /\ from \in [1..n -> 1..Len(typeMap[t0])]
        /\ \A j \in 1..n : from[j] # i /\ RemoveAt(typeMap[t0], i)[j] = typeMap[t0][from[j]]
        /\ \A j, k \in 1..n : from[j] = from[k] => j = k
        /\ \A k \in (1..Len(typeMap[t0])) \ {i} : \E j \in 1..n : from[j] = k
  <2>1. PICK from : Without(RemoveAt(typeMap[t0], i), typeMap[t0], i, from)
    BY <1>2, TakenOut
  <2> QED BY <2>1, Zenon DEF Without
<1>7. Len(typeMap'[t0]) = n /\ \A j \in 1..n : typeMap'[t0][j] = typeMap[t0][from[j]]
  BY <1>5, <1>6
<1> HIDE DEF t0, n
<1>8. \A t \in Types : \A k \in 1..Len(typeMap[t]) : typeMap[t][k].id \in Servers
  <2>1. ASSUME NEW t \in Types, NEW k \in 1..Len(typeMap[t]) PROVE typeMap[t][k].id \in Servers
    <3>1. typeMap[t] \in Seq(Records)
      BY <1>1
    <3>2. typeMap[t][k] \in Records
      BY <3>1
    <3> QED BY <3>2 DEF Records
  <2> QED BY <2>1
<1>9. IdOwn'
  BY <1>5 DEF TablesInv, IdOwn
<1>10. \A t \in Types : \A j, k \in 1..Len(typeMap'[t]) :
         typeMap'[t][j].id = typeMap'[t][k].id => j = k
  <2>1. ASSUME NEW t \in Types, NEW j \in 1..Len(typeMap'[t]), NEW k \in 1..Len(typeMap'[t]),
               typeMap'[t][j].id = typeMap'[t][k].id
        PROVE  j = k
    <3>1. CASE t # t0
      BY <1>5, <2>1, <3>1 DEF TablesInv, ByType
    <3>2. CASE t = t0
      <4>1. j \in 1..n /\ k \in 1..n /\ typeMap[t0][from[j]].id = typeMap[t0][from[k]].id
        BY <1>7, <2>1, <3>2
      <4>2. from[j] \in 1..Len(typeMap[t0]) /\ from[k] \in 1..Len(typeMap[t0])
        BY <1>6, <4>1
      <4>3. from[j] = from[k]
        BY <1>1, <4>1, <4>2 DEF TablesInv, ByType, t0
      <4> QED BY <1>6, <4>1, <4>3
    <3> QED BY <3>1, <3>2
  <2> QED BY <2>1
<1>11. ASSUME NEW t \in Types, NEW j \in 1..Len(typeMap'[t])
       PROVE  idMap'[typeMap'[t][j].id] = typeMap'[t][j] /\ TypeOf[typeMap'[t][j].id] = t
  <2>1. CASE t # t0
    <3>1. typeMap'[t] = typeMap[t]
      BY <1>5, <2>1
    <3>2. typeMap[t][j].id # s
      BY <1>11, <2>1, <3>1 DEF TablesInv, ByType, t0
    <3> QED BY <1>5, <1>8, <1>11, <3>1, <3>2 DEF TablesInv, ByType
  <2>2. CASE t = t0
    <3>1. j \in 1..n /\ from[j] \in 1..Len(typeMap[t0]) /\ from[j] # i
      BY <1>6, <1>7, <1>11, <2>2
    <3>2. typeMap'[t0][j] = typeMap[t0][from[j]] /\ typeMap[t0][from[j]].id # s
      BY <1>1, <1>3, <1>7, <3>1 DEF TablesInv, ByType, t0
    <3>3. typeMap[t0][from[j]].id \in Servers \ {s}
      BY <1>1, <1>8, <3>1, <3>2 DEF t0
    <3>4. /\ t0 \in Types
          /\ idMap[typeMap[t0][from[j]].id] = typeMap[t0][from[j]]
          /\ TypeOf[typeMap[t0][from[j]].id] = t0
      BY <1>1, <3>1 DEF TablesInv, ByType
    <3> QED BY <1>5, <2>2, <3>2, <3>3, <3>4
  <2> QED BY <2>1, <2>2
<1>12. ASSUME NEW q \in Servers, idMap'[q] # NONE
       PROVE  \E j \in 1..Len(typeMap'[TypeOf[q]]) : typeMap'[TypeOf[q]][j] = idMap'[q]
  <2>1. q # s /\ idMap'[q] = idMap[q] /\ idMap[q] # NONE /\ TypeOf[q] \in Types
    BY <1>1, <1>5, <1>12
  <2>2. PICK k \in 1..Len(typeMap[TypeOf[q]]) : typeMap[TypeOf[q]][k] = idMap[q]
    BY <2>1 DEF TablesInv, ByType
  <2>3. CASE TypeOf[q] # t0
    BY <1>5, <2>1, <2>2, <2>3
  <2>4. CASE TypeOf[q] = t0
    <3>1. idMap[q].id = q
      BY <2>1 DEF TablesInv, IdOwn
    <3>2. k # i
      BY <1>3, <2>1, <2>2, <2>4, <3>1 DEF t0
    <3>3. PICK j \in 1..n : from[j] = k
      BY <1>6, <2>2, <2>4, <3>2
    <3>4. typeMap'[t0][j] = idMap[q] /\ j \in 1..Len(typeMap'[t0])
      BY <1>7, <2>2, <2>4, <3>3
    <3> QED BY <2>1, <2>4, <3>4
  <2> QED BY <2>3, <2>4
<1> QED BY <1>9, <1>10, <1>11, <1>12 DEF ByType

\* Removing records, whichever they are, gives no connection a second one.
LEMMA RemovedApart ==
  ASSUME TypeOK, Apart, NEW s \in Servers, NEW addr, RemoveMonitor(s, addr)
  PROVE  Apart' /\ \A d \in Conns : Holds(d)' => Holds(d)
<1>1. idMap \in [Servers -> Records \cup {NONE}] /\ slaveMap \in [Servers -> Seq(Records)]
  BY DEF TypeOK
<1>2. \A d \in Conns : HoldsPrimary(d)' => HoldsPrimary(d)
  BY <1>1 DEF RemoveMonitor, RemovePrimary, RemoveSlave, tables, HoldsPrimary
<1>3. CASE UNCHANGED slaveMap
  <2>1. \A d \in Conns, q \in Servers : HoldsSlave(d, q)' <=> HoldsSlave(d, q)
    BY <1>3 DEF HoldsSlave
  <2>2. Apart'
    BY <1>2, <1>3, <2>1 DEF Apart
  <2> QED BY <1>2, <2>1, <2>2 DEF Holds
<1>4. CASE RemoveSlave(s, addr)
  <2>1. slaveMap[s] \in Seq(Records)
    BY <1>1
  <2>2. /\ slaveMap'[s] = WithoutAddr(slaveMap[s], addr)
        /\ \A q \in Servers \ {s} : slaveMap'[q] = slaveMap[q]
    BY <1>1, <1>4 DEF RemoveSlave
  <2>3. CASE WithoutAddr(slaveMap[s], addr) = slaveMap[s]
    <3>1. slaveMap' = slaveMap
      BY <1>1, <1>4, <2>3 DEF RemoveSlave
    <3> QED BY <1>3, <3>1
  <2>4. CASE \E i \in 1..Len(slaveMap[s]) : WithoutAddr(slaveMap[s], addr) = RemoveAt(slaveMap[s], i)
    <3>1. PICK i \in 1..Len(slaveMap[s]) : slaveMap'[s] = RemoveAt(slaveMap[s], i)
      BY <2>2, <2>4
    <3>2. PICK from \in [1..Len(slaveMap'[s]) -> 1..Len(slaveMap[s])] :
            /\ \A j \in 1..Len(slaveMap'[s]) : slaveMap'[s][j] = slaveMap[s][from[j]]
            /\ \A j, k \in 1..Len(slaveMap'[s]) : from[j] = from[k] => j = k
      <4>1. PICK from : Without(RemoveAt(slaveMap[s], i), slaveMap[s], i, from)
        BY <2>1, TakenOut
      <4>2. Without(slaveMap'[s], slaveMap[s], i, from)
        BY <3>1, <4>1
      <4> QED BY <4>2, Zenon DEF Without
    <3>3. \A d \in Conns, q \in Servers : HoldsSlave(d, q)' => HoldsSlave(d, q)
      BY <2>2, <3>2 DEF HoldsSlave
    <3>4. \A q \in Servers : \A j, k \in 1..Len(slaveMap'[q]) :
            slaveMap'[q][j].socket = slaveMap'[q][k].socket => j = k
      <4>1. ASSUME NEW j \in 1..Len(slaveMap'[s]), NEW k \in 1..Len(slaveMap'[s]),
                   slaveMap'[s][j].socket = slaveMap'[s][k].socket
            PROVE  j = k
        <5>1. from[j] \in 1..Len(slaveMap[s]) /\ from[k] \in 1..Len(slaveMap[s])
          BY <3>2
        <5>2. slaveMap[s][from[j]].socket = slaveMap[s][from[k]].socket
          BY <3>2, <4>1
        <5>3. from[j] = from[k]
          BY <5>1, <5>2 DEF Apart
        <5> QED BY <3>2, <5>3
      <4> QED BY <2>2, <4>1 DEF Apart
    <3>5. Apart'
      BY <1>2, <3>3, <3>4 DEF Apart
    <3> QED BY <1>2, <3>3, <3>5 DEF Holds
  <2> QED BY <2>1, <2>3, <2>4, WithoutAddrProperties
<1> QED BY <1>3, <1>4 DEF RemoveMonitor, RemovePrimary, tables

\* The loops of removeConnection keep the tables in step.
LEMMA MonitorRemoved ==
  ASSUME TypeOK, TablesInv, NEW s \in Servers, NEW addr, RemoveMonitor(s, addr)
  PROVE  TablesInv' /\ \A d \in Conns : Holds(d)' => Holds(d)
<1>1. Apart' /\ \A d \in Conns : Holds(d)' => Holds(d)
  BY RemovedApart DEF TablesInv
<1>2. CASE UNCHANGED <<idMap, typeMap>>
  BY <1>1, <1>2 DEF TablesInv, IdOwn, ByType
<1>3. CASE idMap[s] # NONE /\ RemovePrimary(s)
  BY <1>1, <1>3, RemovedByType DEF TablesInv
<1> QED BY <1>1, <1>2, <1>3 DEF RemoveMonitor, RemoveSlave, tables

-----------------------------------------------------------------------------
(***************************************************************************)
(* One step per handler.                                                   *)
(***************************************************************************)
monitorTables == <<idMap, typeMap, slaveMap>>

\* The tables of the monitors stay as they are.
LEMMA SameTables ==
  ASSUME TablesInv, UNCHANGED monitorTables
  PROVE  TablesInv' /\ \A d \in Conns : Holds(d)' <=> Holds(d)
<1>1. Apart' /\ \A d \in Conns : Holds(d)' <=> Holds(d)
  BY DEF TablesInv, Apart, Holds, HoldsPrimary, HoldsSlave, monitorTables
<1> QED BY <1>1 DEF TablesInv, IdOwn, ByType, monitorTables

\* The tables of a new master are empty.
LEMMA InitRegistry == Init => RegistryInv
<1> SUFFICES ASSUME Init PROVE RegistryInv
  OBVIOUS
<1>1. /\ \A s \in Servers : idMap[s] = NONE /\ slaveMap[s] = <<>>
      /\ \A t \in Types : typeMap[t] = <<>>
      /\ authing = {}
  BY DEF Init
<1>2. Len(<<>>) = 0 /\ 1..0 = {}
  OBVIOUS
<1>3. \A c \in Conns : ~Holds(c)
  BY <1>1, <1>2 DEF Holds, HoldsPrimary, HoldsSlave
<1>4. Apart
  BY <1>1, <1>2, <1>3 DEF Apart, Holds
<1>5. IdOwn /\ ByType
  BY <1>1, <1>2 DEF IdOwn, ByType
<1> QED BY <1>1, <1>3, <1>4, <1>5 DEF RegistryInv, TablesInv, RecordsKnown, AuthingKnown

\* Nothing that tells who holds a record changes.
LEMMA SameRegistry ==
  ASSUME RegistryInv, UNCHANGED <<monitorTables, sock, peer, authing>>
  PROVE  RegistryInv'
BY SameTables DEF RegistryInv, RecordsKnown, AuthingKnown

\* A connection that is used again is in no table.
LEMMA ConnectionRegistry ==
  ASSUME TypeOK, RegistryInv, NEW c \in Conns, Connection(c)
  PROVE  RegistryInv'
<1>1. UNCHANGED monitorTables /\ UNCHANGED authing
  BY DEF Connection, tables, monitorTables
<1>2. c \notin authing /\ ~HoldsPrimary(c)
  BY DEF Connection, Unused, Sockets, Primaries, HoldsPrimary
<1>3. ASSUME NEW s \in Servers PROVE ~HoldsSlave(c, s)
  <2>1. slaveMap[s] \in Seq(Records) /\ DOMAIN slaveMap[s] = 1..Len(slaveMap[s])
    BY DEF TypeOK
  <2> QED BY <2>1 DEF Connection, Unused, Sockets, Slaves, ToSet, HoldsSlave
<1>4. ~Holds(c)
  BY <1>2, <1>3 DEF Holds
<1>5. \A d \in Conns \ {c} : peer'[d] = peer[d] /\ sock'[d] = sock[d]
  BY DEF Connection, TypeOK
<1>6. authing \subseteq Conns
  BY DEF TypeOK
<1> QED BY <1>1, <1>2, <1>4, <1>5, <1>6, SameTables DEF RegistryInv, RecordsKnown, AuthingKnown

\* A connection that has not announced itself has no record and no answer to come.
LEMMA GreetingFree ==
  ASSUME RegistryInv, NEW c \in Conns, Greets(c)
  PROVE  ~Holds(c) /\ c \notin authing
BY DEF Greets, RegistryInv, RecordsKnown, AuthingKnown

\* An announcement, with or without a record.
LEMMA GreetingRegistry ==
  ASSUME TypeOK, RegistryInv, NEW c \in Conns, Greets(c), NEW p, p # NONE,
         peer' = [peer EXCEPT ![c] = p], UNCHANGED sock,
         \/ p \in MonitorPeers /\ AddConnection(c, p) /\ UNCHANGED authing
         \/ UNCHANGED monitorTables /\ (UNCHANGED authing \/ authing' = authing \cup {c})
  PROVE  RegistryInv'
<1>1. ~Holds(c) /\ c \notin authing
  BY GreetingFree
<1>2. peer'[c] = p /\ \A d \in Conns \ {c} : peer'[d] = peer[d]
  BY DEF TypeOK
<1>3. authing \subseteq Conns
  BY DEF TypeOK
<1>4. CASE p \in MonitorPeers /\ AddConnection(c, p) /\ UNCHANGED authing
  <2>1. TablesInv' /\ \A d \in Conns \ {c} : Holds(d)' => Holds(d)
    BY <1>1, <1>4, AddedByType, AddedApart DEF RegistryInv, TablesInv
  <2> QED BY <1>1, <1>2, <1>3, <1>4, <2>1 DEF RegistryInv, RecordsKnown, AuthingKnown
<1>5. CASE UNCHANGED monitorTables /\ (UNCHANGED authing \/ authing' = authing \cup {c})
  <2>1. TablesInv' /\ \A d \in Conns : Holds(d)' <=> Holds(d)
    BY <1>5, SameTables DEF RegistryInv
  <2>2. ~Holds(c)'
    BY <1>1, <2>1
  <2> QED BY <1>1, <1>2, <1>3, <1>5, <2>1, <2>2 DEF RegistryInv, RecordsKnown, AuthingKnown
<1> QED BY <1>4, <1>5

\* register and reconnect, of monitors, clients and others.
LEMMA AnnouncedRegistry ==
  ASSUME TypeOK, RegistryInv, NEW c \in Conns, Greets(c),
         \/ \E p \in MonitorPeers : RegisterMonitor(c, p) \/ OnReconnect(c, p)
         \/ \E p \in ClientPeers : RegisterClient(c, p)
         \/ RegisterOther(c)
  PROVE  RegistryInv'
<1>1. ASSUME NEW p \in MonitorPeers, RegisterMonitor(c, p) PROVE RegistryInv'
  <2>1. p # NONE /\ peer' = [peer EXCEPT ![c] = p] /\ UNCHANGED sock
    BY <1>1, RecordFields DEF RegisterMonitor
  <2>2. \/ AddConnection(c, p) /\ UNCHANGED authing
        \/ UNCHANGED monitorTables /\ (UNCHANGED authing \/ authing' = authing \cup {c})
    BY <1>1 DEF RegisterMonitor, tables, monitorTables
  <2> QED BY <2>1, <2>2, GreetingRegistry
<1>2. ASSUME NEW p \in MonitorPeers, OnReconnect(c, p) PROVE RegistryInv'
  <2>1. p # NONE /\ peer' = [peer EXCEPT ![c] = p] /\ UNCHANGED <<sock, authing>>
    BY <1>2, RecordFields DEF OnReconnect
  <2>2. AddConnection(c, p) \/ UNCHANGED monitorTables
    BY <1>2 DEF OnReconnect, tables, monitorTables
  <2> QED BY <2>1, <2>2, GreetingRegistry
<1>3. ASSUME NEW p \in ClientPeers, RegisterClient(c, p) PROVE RegistryInv'
  <2>1. p # NONE /\ peer' = [peer EXCEPT ![c] = p] /\ UNCHANGED sock
    BY <1>3, NoPeerAssumption DEF RegisterClient, Peers
  <2>2. UNCHANGED monitorTables /\ (UNCHANGED authing \/ authing' = authing \cup {c})
    BY <1>3 DEF RegisterClient, AcceptClient, RefuseClient, tables, monitorTables
  <2> QED BY <2>1, <2>2, GreetingRegistry
<1>4. ASSUME RegisterOther(c) PROVE RegistryInv'
  <2>1. OtherPeer # NONE
    BY NoPeerAssumption DEF Peers
  <2> QED BY <1>4, <2>1, GreetingRegistry DEF RegisterOther, tables, monitorTables
<1> QED BY <1>1, <1>2, <1>3, <1>4

\* The auth function answers: a connection that waits for it has no record.
LEMMA AuthRegistry ==
  ASSUME TypeOK, RegistryInv, NEW c \in Conns, AuthServerDone(c) \/ AuthUserDone(c)
  PROVE  RegistryInv'
<1>1. ~Holds(c) /\ peer[c] # NONE
  BY DEF AuthServerDone, AuthUserDone, RegistryInv, RecordsKnown, AuthingKnown
<1>2. UNCHANGED <<sock, peer>> /\ authing' = authing \ {c}
  BY DEF AuthServerDone, AuthUserDone
<1>3. CASE peer[c] \in MonitorPeers /\ AddConnection(c, peer[c])
  <2>1. TablesInv' /\ \A d \in Conns \ {c} : Holds(d)' => Holds(d)
    BY <1>1, <1>3, AddedByType, AddedApart DEF RegistryInv, TablesInv
  <2> QED BY <1>1, <1>2, <2>1 DEF RegistryInv, RecordsKnown, AuthingKnown
<1>4. CASE UNCHANGED monitorTables
  <2>1. TablesInv' /\ \A d \in Conns : Holds(d)' <=> Holds(d)
    BY <1>4, SameTables DEF RegistryInv
  <2> QED BY <1>2, <2>1 DEF RegistryInv, RecordsKnown, AuthingKnown
<1> QED BY <1>3, <1>4 DEF AuthServerDone, AuthUserDone, AcceptClient, tables, monitorTables

\* The end of a connection, whether the comparison throws or not.
LEMMA OnDisconnectRegistry ==
  ASSUME TypeOK, RegistryInv, NEW c \in Conns, OnDisconnect(c)
  PROVE  RegistryInv'
<1>1. TablesInv' /\ \A d \in Conns : Holds(d)' => Holds(d)
  <2>1. CASE UNCHANGED monitorTables
    BY <2>1, SameTables DEF RegistryInv
  <2>2. CASE peer[c] \in MonitorPeers /\ RemoveMonitor(peer[c].id, peer[c].addr)
    BY <2>2, MonitorRemoved DEF RegistryInv, MonitorPeers
  <2> QED BY <2>1, <2>2 DEF OnDisconnect, RemoveClient, tables, monitorTables
<1>2. /\ sock'[c] = "closed" /\ UNCHANGED authing
      /\ peer'[c] = IF c \in authing THEN peer[c] ELSE NONE
      /\ \A d \in Conns \ {c} : sock'[d] = sock[d] /\ peer'[d] = peer[d]
  BY DEF OnDisconnect, TypeOK
<1>3. authing \subseteq Conns
  BY DEF TypeOK
<1> QED BY <1>1, <1>2, <1>3 DEF RegistryInv, RecordsKnown, AuthingKnown

\* What modules and registered peers do to the tables: nothing.
LEMMA TrafficQuiet ==
  ASSUME NEW c \in Conns, Traffic(c), ~OnDisconnect(c)
  PROVE  UNCHANGED <<tables, sock, peer, authing, registered, agentState>>
BY DEF Traffic, OnResponse, Kick, OnAsk, Answer, tables, links, process

\* The API changes no table of servers.
LEMMA CallQuiet ==
  ASSUME Call
  PROVE  UNCHANGED <<tables, sock, peer, authing, registered, agentState>>
BY DEF Call, Request, RequestServer, NotifyById, NotifyByServer, NotifySlavesById, NotifyByType,
       NotifyAll, NotifyCommand, NotifyClient, Notifying, tables, links, process

\* The tables of the monitors agree in every state, a crash included, for both kinds of
\* auth functions.
THEOREM RegistryAgrees == Spec => []RegistryInv
<1>1. Init => RegistryInv
  BY InitRegistry
<1>2. ASSUME TypeOK, RegistryInv, [Next]_vars PROVE RegistryInv'
  <2>1. CASE UNCHANGED vars
    BY <1>2, <2>1, SameRegistry DEF vars, tables, links, monitorTables
  <2>2. CASE Listen \/ Close
    BY <1>2, <2>2, SameRegistry DEF Listen, Close, tables, links, monitorTables
  <2>3. CASE Call
    BY <1>2, <2>3, CallQuiet, SameRegistry DEF tables, monitorTables
  <2>4. ASSUME NEW c \in Conns, Handshake(c) PROVE RegistryInv'
    BY <1>2, <2>4, ConnectionRegistry, AnnouncedRegistry, AuthRegistry DEF Handshake
  <2>5. ASSUME NEW c \in Conns, Traffic(c) PROVE RegistryInv'
    <3>1. CASE OnDisconnect(c)
      BY <1>2, <3>1, OnDisconnectRegistry
    <3>2. CASE ~OnDisconnect(c)
      BY <1>2, <2>5, <3>2, TrafficQuiet, SameRegistry DEF tables, monitorTables
    <3> QED BY <3>1, <3>2
  <2> QED BY <1>2, <2>1, <2>2, <2>3, <2>4, <2>5 DEF Next
<1> QED BY <1>1, <1>2, TypeCorrect, PTL DEF Spec

\* addConnection and removeConnection keep the list of a type in step with the table of
\* ids: it has the primary of every server of the type, once, and nothing else.
THEOREM TypesInStep == Spec => []TablesAgree
<1>1. ASSUME TypeOK, RegistryInv PROVE TablesAgree
  <2>1. ASSUME NEW t \in Types
        PROVE  /\ IsInjective(typeMap[t])
               /\ ToSet(typeMap[t]) = {idMap[s] : s \in {q \in Servers : TypeOf[q] = t}} \ {NONE}
    <3>1. /\ typeMap[t] \in Seq(Records) /\ DOMAIN typeMap[t] = 1..Len(typeMap[t])
          /\ \A i \in 1..Len(typeMap[t]) : typeMap[t][i] \in Records
      BY <1>1 DEF TypeOK
    <3>2. \A r \in Records : r.id \in Servers /\ r # NONE
      BY NoRecordAssumption DEF Records
    <3>3. IsInjective(typeMap[t])
      BY <1>1, <3>1 DEF RegistryInv, TablesInv, ByType, IsInjective
    <3>4. ToSet(typeMap[t]) = {typeMap[t][i] : i \in 1..Len(typeMap[t])}
      BY <3>1 DEF ToSet
    <3>5. \A i \in 1..Len(typeMap[t]) :
            /\ typeMap[t][i].id \in Servers /\ TypeOf[typeMap[t][i].id] = t
            /\ typeMap[t][i] = idMap[typeMap[t][i].id] /\ typeMap[t][i] # NONE
      BY <1>1, <3>1, <3>2 DEF RegistryInv, TablesInv, ByType
    <3>6. \A s \in Servers : idMap[s] # NONE /\ TypeOf[s] = t =>
            \E i \in 1..Len(typeMap[t]) : typeMap[t][i] = idMap[s]
      BY <1>1 DEF RegistryInv, TablesInv, ByType
    <3> QED BY <3>3, <3>4, <3>5, <3>6
  <2> QED BY <2>1 DEF TablesAgree
<1> QED BY <1>1, TypeCorrect, RegistryAgrees, PTL

\* However connections come and go, and whenever their auth functions answer, no
\* connection has two records among the primaries and the slaves.
THEOREM RecordsOnce == Spec => []OneRecord
<1>1. ASSUME TypeOK, RegistryInv PROVE OneRecord
  <2>1. \A s \in Servers :
          /\ DOMAIN slaveMap[s] = 1..Len(slaveMap[s])
          /\ \A i \in 1..Len(slaveMap[s]) : slaveMap[s][i].socket \in Conns
    <3>1. ASSUME NEW s \in Servers PROVE slaveMap[s] \in Seq(Records)
      BY <1>1 DEF TypeOK
    <3>2. \A s \in Servers : \A i \in 1..Len(slaveMap[s]) : slaveMap[s][i] \in Records
      BY <3>1
    <3>3. \A r \in Records : r.socket \in Conns
      BY DEF Records
    <3> QED BY <3>1, <3>2, <3>3
  <2>2. \A s \in Servers : \A c : c \in Sockets(Slaves(s)) => HoldsSlave(c, s) /\ c \in Conns
    BY <2>1 DEF Sockets, Slaves, ToSet, HoldsSlave
  <2>3. \A c : c \in Sockets(Primaries) => HoldsPrimary(c)
    BY DEF Sockets, Primaries, HoldsPrimary
  <2> QED BY <1>1, <2>1, <2>2, <2>3 DEF RegistryInv, TablesInv, Apart, OneRecord
<1> QED BY <1>1, TypeCorrect, RegistryAgrees, PTL

-----------------------------------------------------------------------------
(***************************************************************************)
(* The tables and the connections.  An auth function that answers late may *)
(* register a connection that has ended, and a monitor without info brings *)
(* the master down halfway: both are ruled out here by assumption.         *)
(***************************************************************************)
\* A registered connection is open and known, and the clients are those of the table.
FlagsInv ==
  /\ agentState # "CRASHED"
  /\ authing = {}
  /\ \A c \in registered : sock[c] = "open" /\ peer[c] # NONE
  /\ ClientsExact

\* No connection is registered, and nobody holds a record.
LEMMA InitFlags == Init => FlagsInv
BY NoneAssumption DEF Init, FlagsInv, ClientsExact

\* The kinds of peers are different.
LEMMA PeerKinds ==
  /\ \A p \in MonitorPeers : p # NONE /\ p.kind # "client" /\ p.addr \in Addrs /\ p \notin ClientPeers
  /\ \A p \in ClientPeers : p # NONE /\ p.kind = "client" /\ p.id \in Users
  /\ OtherPeer # NONE /\ OtherPeer.kind # "client"
BY NoPeerAssumption DEF Peers, MonitorPeers, ClientPeers, OtherPeer

\* Steps that leave tables, flags and peers alone.
LEMMA SameFlags ==
  ASSUME FlagsInv, UNCHANGED <<clients, sock, peer, authing, registered>>, agentState' # "CRASHED"
  PROVE  FlagsInv'
BY DEF FlagsInv, ClientsExact

\* An announcement that is refused, or accepted as what it is.
LEMMA GreetingFlags ==
  ASSUME TypeOK, FlagsInv, NEW c \in Conns, Greets(c), NEW p, p # NONE,
         peer' = [peer EXCEPT ![c] = p], UNCHANGED <<sock, authing>>, agentState' # "CRASHED",
         \/ UNCHANGED <<clients, registered>>
         \/ UNCHANGED clients /\ registered' = registered \cup {c} /\ p.kind # "client"
         \/ /\ p \in ClientPeers /\ clients[p.id] = NONE
            /\ clients' = [clients EXCEPT ![p.id] = c] /\ registered' = registered \cup {c}
  PROVE  FlagsInv'
<1>1. c \notin registered /\ sock[c] = "open" /\ \A u \in Users : clients[u] # c
  BY DEF Greets, FlagsInv, ClientsExact
<1>2. peer'[c] = p /\ \A d \in Conns \ {c} : peer'[d] = peer[d]
  BY DEF TypeOK
<1>3. registered \subseteq Conns /\ clients \in [Users -> Conns \cup {NONE}]
  BY DEF TypeOK
<1>4. \A d \in registered' : sock'[d] = "open" /\ peer'[d] # NONE
  BY <1>1, <1>2, <1>3 DEF FlagsInv
<1>5. ASSUME NEW d \in Conns, NEW u \in Users
      PROVE  (clients'[u] = d) <=> (d \in registered' /\ peer'[d].kind = "client" /\ peer'[d].id = u)
  <2>1. d # c => (d \in registered' <=> d \in registered) /\ peer'[d] = peer[d]
    BY <1>2
  <2>2. CASE UNCHANGED clients /\ (UNCHANGED registered \/ p.kind # "client")
    <3>1. CASE d = c
      BY <1>1, <1>2, <2>2, <3>1
    <3>2. CASE d # c
      BY <2>1, <2>2, <3>2 DEF FlagsInv, ClientsExact
    <3> QED BY <3>1, <3>2
  <2>3. CASE /\ p \in ClientPeers /\ clients[p.id] = NONE
             /\ clients' = [clients EXCEPT ![p.id] = c] /\ registered' = registered \cup {c}
    <3>1. p.kind = "client" /\ p.id \in Users
      BY <2>3, PeerKinds
    <3>2. clients'[p.id] = c /\ \A v \in Users \ {p.id} : clients'[v] = clients[v]
      BY <1>3, <2>3, <3>1
    <3>3. NONE \notin Conns
      BY NoneAssumption
    <3>4. CASE d = c
      BY <1>1, <1>2, <2>3, <3>1, <3>2, <3>4
    <3>5. CASE d # c
      BY <2>1, <2>3, <3>1, <3>2, <3>3, <3>5 DEF FlagsInv, ClientsExact
    <3> QED BY <3>4, <3>5
  <2> QED BY <2>2, <2>3
<1>6. ClientsExact'
  BY <1>5 DEF ClientsExact
<1> QED BY <1>4, <1>6 DEF FlagsInv

\* A peer that is registered at once is the one its record names.
LEMMA AnnouncedFlags ==
  ASSUME TypeOK, FlagsInv, ~AsyncAuth, NoInfo \notin Addrs, agentState # "CRASHED",
         NEW c \in Conns, Greets(c),
         \/ \E p \in MonitorPeers : RegisterMonitor(c, p) \/ OnReconnect(c, p)
         \/ \E p \in ClientPeers : RegisterClient(c, p)
         \/ RegisterOther(c)
  PROVE  FlagsInv'
<1>1. ASSUME NEW p \in MonitorPeers, RegisterMonitor(c, p) PROVE FlagsInv'
  <2>1. /\ p # NONE /\ p.kind # "client" /\ peer' = [peer EXCEPT ![c] = p]
        /\ UNCHANGED <<sock, authing, clients>> /\ agentState' # "CRASHED"
    BY <1>1, PeerKinds DEF RegisterMonitor, AddConnection, tables, process
  <2>2. UNCHANGED registered \/ registered' = registered \cup {c}
    BY <1>1 DEF RegisterMonitor
  <2> QED BY <2>1, <2>2, GreetingFlags
<1>2. ASSUME NEW p \in MonitorPeers, OnReconnect(c, p) PROVE FlagsInv'
  <2>1. /\ p # NONE /\ p.kind # "client" /\ peer' = [peer EXCEPT ![c] = p]
        /\ UNCHANGED <<sock, authing, clients>> /\ agentState' # "CRASHED"
    BY <1>2, PeerKinds DEF OnReconnect, AddConnection, tables
  <2>2. UNCHANGED registered \/ registered' = registered \cup {c}
    BY <1>2 DEF OnReconnect
  <2> QED BY <2>1, <2>2, GreetingFlags
<1>3. ASSUME NEW p \in ClientPeers, RegisterClient(c, p) PROVE FlagsInv'
  <2>1. /\ p # NONE /\ peer' = [peer EXCEPT ![c] = p]
        /\ UNCHANGED <<sock, authing>> /\ agentState' # "CRASHED"
    BY <1>3, PeerKinds DEF RegisterClient, process
  <2>2. \/ UNCHANGED <<clients, registered>>
        \/ /\ clients[p.id] = NONE
           /\ clients' = [clients EXCEPT ![p.id] = c] /\ registered' = registered \cup {c}
    BY <1>3 DEF RegisterClient, AcceptClient, RefuseClient, tables
  <2> QED BY <2>1, <2>2, GreetingFlags
<1>4. ASSUME RegisterOther(c) PROVE FlagsInv'
  BY <1>4, PeerKinds, GreetingFlags DEF RegisterOther, tables, process
<1> QED BY <1>1, <1>2, <1>3, <1>4

\* A connection is used again only when it is not registered.
LEMMA ConnectionFlags ==
  ASSUME TypeOK, FlagsInv, NEW c \in Conns, Connection(c)
  PROVE  FlagsInv'
<1>1. c \notin registered /\ \A u \in Users : clients[u] # c
  BY DEF Connection, Unused, FlagsInv
<1>2. \A d \in Conns \ {c} : peer'[d] = peer[d] /\ sock'[d] = sock[d]
  BY DEF Connection, TypeOK
<1>3. registered \subseteq Conns
  BY DEF TypeOK
<1>4. /\ UNCHANGED <<clients, registered, authing, agentState>>
  BY DEF Connection, tables, process
<1>5. ClientsExact'
  BY <1>1, <1>2, <1>4 DEF FlagsInv, ClientsExact
<1> QED BY <1>1, <1>2, <1>3, <1>4, <1>5 DEF FlagsInv

\* The end of a registered connection takes its own entry out of the clients.
LEMMA OnDisconnectFlags ==
  ASSUME TypeOK, FlagsInv, NoInfo \notin Addrs, NEW c \in Conns, OnDisconnect(c)
  PROVE  FlagsInv'
<1>1. agentState' = agentState /\ registered' = registered \ {c}
  <2>1. ~ComparesNoInfo(c)
    <3>1. SUFFICES ASSUME ComparesNoInfo(c) PROVE FALSE
      OBVIOUS
    <3>2. peer[c] \in MonitorPeers /\ idMap[peer[c].id] \in Records /\ peer[c].addr \in Addrs
      BY <3>1, PeerKinds DEF ComparesNoInfo, TypeOK, MonitorPeers
    <3>3. idMap[peer[c].id].addr \in Addrs
      BY <3>2 DEF Records
    <3>4. ~NoInfoAhead(slaveMap[peer[c].id], peer[c].addr)
      <4>1. peer[c].id \in Servers
        BY <3>2 DEF MonitorPeers
      <4>2. slaveMap[peer[c].id] \in Seq(Records)
        BY <4>1 DEF TypeOK
      <4>3. \A i \in DOMAIN slaveMap[peer[c].id] : slaveMap[peer[c].id][i].addr \in Addrs
        <5>1. \A d \in Records : d.addr \in Addrs
          BY <3>1 DEF Records
        <5> HIDE DEF Records
        <5>2. \A i \in DOMAIN slaveMap[peer[c].id] : slaveMap[peer[c].id][i] \in Records
          BY <4>2
        <5> QED BY <5>1, <5>2
      <4> QED BY <4>3 DEF NoInfoAhead
    <3> QED BY <3>1, <3>2, <3>3, <3>4 DEF ComparesNoInfo
  <2> QED BY <2>1 DEF OnDisconnect
<1>2. /\ \A d \in Conns \ {c} : sock'[d] = sock[d] /\ peer'[d] = peer[d]
      /\ UNCHANGED authing
  BY DEF OnDisconnect, TypeOK
<1>3. registered \subseteq Conns /\ clients \in [Users -> Conns \cup {NONE}] /\ NONE \notin Conns
  BY NoneAssumption DEF TypeOK
<1>4. ASSUME NEW u \in Users
      PROVE  /\ clients'[u] # c
             /\ \A d \in Conns \ {c} : clients'[u] = d <=> clients[u] = d
  <2>1. CASE c \notin registered
    BY <2>1 DEF OnDisconnect, FlagsInv, ClientsExact, tables
  <2>2. CASE c \in registered /\ peer[c] \in ClientPeers
    <3>1. peer[c].kind = "client" /\ peer[c].id \in Users /\ peer[c] \notin MonitorPeers
      BY <2>2, PeerKinds
    <3>2. clients' = [clients EXCEPT ![peer[c].id] = NONE]
      BY <2>2, <3>1 DEF OnDisconnect, RemoveClient, ComparesNoInfo
    <3>3. clients[peer[c].id] = c
      BY <2>2, <3>1 DEF FlagsInv, ClientsExact
    <3>4. u # peer[c].id => clients[u] # c
      BY <1>4, <2>2, <3>1 DEF FlagsInv, ClientsExact
    <3> QED BY <1>3, <3>1, <3>2, <3>3, <3>4
  <2>3. CASE c \in registered /\ peer[c] \notin ClientPeers
    <3>1. peer[c] \in MonitorPeers /\ UNCHANGED clients
      BY <1>1, <2>3 DEF OnDisconnect, RemoveMonitor, RemovePrimary, RemoveSlave, tables, FlagsInv
    <3>2. clients[u] # c
      BY <1>4, <3>1, PeerKinds DEF FlagsInv, ClientsExact
    <3> QED BY <3>1, <3>2
  <2> QED BY <2>1, <2>2, <2>3
<1>5. ClientsExact'
  BY <1>1, <1>2, <1>4 DEF FlagsInv, ClientsExact
<1> QED BY <1>1, <1>2, <1>3, <1>5 DEF FlagsInv

\* The flags of the connections and the clients agree while auth functions answer at once.
THEOREM FlagsAgree ==
  ASSUME ~AsyncAuth, NoInfo \notin Addrs
  PROVE  Spec => []FlagsInv
<1>1. Init => FlagsInv
  BY InitFlags
<1>2. ASSUME TypeOK, FlagsInv, [Next]_vars PROVE FlagsInv'
  <2>1. CASE UNCHANGED vars
    BY <1>2, <2>1, SameFlags DEF vars, tables, links, process, FlagsInv
  <2>2. CASE Listen \/ Close
    BY <1>2, <2>2, SameFlags DEF Listen, Close, tables, links
  <2>3. CASE Call
    BY <1>2, <2>3, CallQuiet, SameFlags DEF tables, FlagsInv
  <2>4. ASSUME NEW c \in Conns, Handshake(c) PROVE FlagsInv'
    <3>1. ~AuthServerDone(c) /\ ~AuthUserDone(c)
      BY <1>2 DEF AuthServerDone, AuthUserDone, FlagsInv
    <3> QED BY <1>2, <2>4, <3>1, ConnectionFlags, AnnouncedFlags DEF Handshake, FlagsInv
  <2>5. ASSUME NEW c \in Conns, Traffic(c) PROVE FlagsInv'
    <3>1. CASE OnDisconnect(c)
      BY <1>2, <3>1, OnDisconnectFlags
    <3>2. CASE ~OnDisconnect(c)
      BY <1>2, <2>5, <3>2, TrafficQuiet, SameFlags DEF tables, FlagsInv
    <3> QED BY <3>1, <3>2
  <2> QED BY <1>2, <2>1, <2>2, <2>3, <2>4, <2>5 DEF Next
<1> QED BY <1>1, <1>2, TypeCorrect, PTL DEF Spec

\* Though records are removed by comparing infos, the primary of an id is always a
\* registered, open connection of that id, while auth functions answer at once and every
\* monitor has an info.
THEOREM PrimariesLive ==
  ASSUME ~AsyncAuth, NoInfo \notin Addrs
  PROVE  Spec => []PrimaryLive
<1>1. FlagsInv /\ AnswerInv => PrimaryLive
  BY DEF FlagsInv, AnswerInv, Consistent, PrimaryKnown, PrimaryLive
<1> QED BY <1>1, FlagsAgree, AnswersConsistent, PTL

\* Under the same assumptions an id of a client belongs to exactly the one registered
\* connection that announced it.
THEOREM ClientsAlwaysExact ==
  ASSUME ~AsyncAuth, NoInfo \notin Addrs
  PROVE  Spec => []ClientsExact
<1>1. FlagsInv => ClientsExact
  BY DEF FlagsInv
<1> QED BY <1>1, FlagsAgree, PTL

=============================================================================
