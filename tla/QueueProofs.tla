----------------------------- MODULE QueueProofs -----------------------------
(***************************************************************************)
(* The QoS queues of MasterAgent and what its connections are written, for *)
(* any numbers of connections, servers and requests.                       *)
(*                                                                         *)
(* An answer is taken out of the queue of the peer it comes from, while    *)
(* the queue it has to leave is that of the server that was asked: these   *)
(* are the same because what was handed to a connection is its server's    *)
(* (HandedOwn of Consistent).  The queues are ascending, so taking out the *)
(* first match takes out every one.  And what is pushed is from a queue or *)
(* new, so it is unanswered.                                               *)
(***************************************************************************)
EXTENDS RegistryProofs

\* What requestServer() made is made.
DirectMade == \A r \in direct : target[r] # NONE

LedgerInv == QosLedger /\ DirectMade

Ascending(q) == \A i, j \in 1..Len(q) : i < j => q[i] < q[j]

-----------------------------------------------------------------------------
(***************************************************************************)
(* Queues.                                                                 *)
(***************************************************************************)
\* Taking a request out of an ascending queue leaves the others, ascending.
LEMMA RemovedAscending ==
  ASSUME NEW q \in Seq(ReqIds), Ascending(q), NEW r \in ReqIds
  PROVE  Ascending(RemoveFirst(q, r)) /\ ToSet(RemoveFirst(q, r)) = ToSet(q) \ {r}
<1>1. Len(q) \in Nat /\ DOMAIN q = 1..Len(q) /\ \A i \in 1..Len(q) : q[i] \in Nat
  <2>1. Len(q) \in Nat /\ DOMAIN q = 1..Len(q) /\ \A i \in 1..Len(q) : q[i] \in ReqIds
    OBVIOUS
  <2> QED BY <2>1 DEF ReqIds
<1>2. CASE RemoveFirst(q, r) = q /\ \A j \in 1..Len(q) : q[j] # r
  BY <1>1, <1>2 DEF ToSet
<1>3. CASE \E i \in 1..Len(q) : q[i] = r /\ RemoveFirst(q, r) = RemoveAt(q, i)
  <2>1. PICK i \in 1..Len(q) : q[i] = r /\ RemoveFirst(q, r) = RemoveAt(q, i)
    BY <1>3
  <2> DEFINE l == RemoveAt(q, i)
  <2>2. /\ l \in Seq(ReqIds) /\ Len(l) = Len(q) - 1
        /\ \A j \in 1..(Len(q) - 1) : l[j] = IF j < i THEN q[j] ELSE q[j + 1]
    BY RemoveAtProperties
  <2>3. DOMAIN l = 1..(Len(q) - 1)
    BY <2>2
  <2> HIDE DEF l
  <2>4. Ascending(l)
    BY <1>1, <2>2 DEF Ascending
  <2>5. \A j \in 1..Len(q) : j # i => q[j] # r
    BY <1>1, <2>1 DEF Ascending
  <2>6. ToSet(l) \subseteq ToSet(q) \ {r}
    <3>1. ASSUME NEW j \in 1..(Len(q) - 1) PROVE l[j] \in ToSet(q) \ {r}
      <4>1. CASE j < i
        <5>1. l[j] = q[j] /\ j \in 1..Len(q) /\ j # i
          BY <1>1, <2>2, <3>1, <4>1
        <5> QED BY <1>1, <2>5, <5>1 DEF ToSet
      <4>2. CASE ~(j < i)
        <5>1. l[j] = q[j + 1] /\ j + 1 \in 1..Len(q) /\ j + 1 # i
          BY <1>1, <2>2, <3>1, <4>2
        <5> QED BY <1>1, <2>5, <5>1 DEF ToSet
      <4> QED BY <4>1, <4>2
    <3> QED BY <2>3, <3>1 DEF ToSet
  <2>7. ToSet(q) \ {r} \subseteq ToSet(l)
    <3>1. ASSUME NEW k \in 1..Len(q), q[k] # r PROVE \E j \in 1..(Len(q) - 1) : l[j] = q[k]
      <4>1. k # i
        BY <2>1, <3>1
      <4>2. CASE k < i
        <5>1. k \in 1..(Len(q) - 1) /\ l[k] = q[k]
          BY <1>1, <2>2, <3>1, <4>2
        <5> QED BY <5>1
      <4>3. CASE k > i
        <5>1. k - 1 \in 1..(Len(q) - 1) /\ ~(k - 1 < i) /\ (k - 1) + 1 = k
          BY <1>1, <3>1, <4>3
        <5>2. l[k - 1] = q[k]
          BY <2>2, <5>1
        <5> QED BY <5>1, <5>2
      <4> QED BY <1>1, <3>1, <4>1, <4>2, <4>3
    <3> QED BY <1>1, <2>3, <3>1 DEF ToSet
  <2> QED BY <2>1, <2>4, <2>6, <2>7 DEF l
<1> QED BY <1>2, <1>3, RemoveFirstProperties

\* A request that is later than all of the queue goes to its end.
LEMMA AppendedAscending ==
  ASSUME NEW q \in Seq(ReqIds), Ascending(q), NEW r \in ReqIds, \A e \in ToSet(q) : e < r
  PROVE  Ascending(Append(q, r)) /\ ToSet(Append(q, r)) = ToSet(q) \cup {r}
<1>1. Len(q) \in Nat /\ DOMAIN q = 1..Len(q) /\ \A i \in 1..Len(q) : q[i] \in Nat /\ q[i] < r
  <2>1. Len(q) \in Nat /\ DOMAIN q = 1..Len(q) /\ \A i \in 1..Len(q) : q[i] \in ReqIds
    OBVIOUS
  <2> QED BY <2>1 DEF ReqIds, ToSet
<1>2. /\ Len(Append(q, r)) = Len(q) + 1 /\ Append(q, r)[Len(q) + 1] = r
      /\ \A i \in 1..Len(q) : Append(q, r)[i] = q[i]
  OBVIOUS
<1>3. Ascending(Append(q, r))
  BY <1>1, <1>2 DEF Ascending
<1> QED BY <1>3, ToSetOfAppend

-----------------------------------------------------------------------------
(***************************************************************************)
(* QosLedger.                                                              *)
(***************************************************************************)
\* QosLedger with the queues' own indexes.
LEMMA LedgerMeans ==
  ASSUME TypeOK
  PROVE  QosLedger <=> \A s \in Servers :
           /\ ToSet(msgMap[s]) = {r \in callbacks \ direct : target[r] = s}
           /\ Ascending(msgMap[s])
<1>1. ASSUME NEW s \in Servers PROVE DOMAIN msgMap[s] = 1..Len(msgMap[s])
  <2>1. msgMap[s] \in Seq(ReqIds)
    BY DEF TypeOK
  <2> QED BY <2>1
<1> QED BY <1>1 DEF QosLedger, Ascending

\* No request, and nothing in a queue.
LEMMA InitLedger == Init => LedgerInv
<1> SUFFICES ASSUME Init PROVE LedgerInv
  OBVIOUS
<1>1. Len(<<>>) = 0 /\ 1..0 = {} /\ DOMAIN <<>> = {}
  OBVIOUS
<1> QED BY <1>1 DEF Init, LedgerInv, QosLedger, DirectMade, ToSet

\* Steps that make and answer no request.
LEMMA SameLedger ==
  ASSUME LedgerInv, UNCHANGED <<callbacks, msgMap, direct, target>>
  PROVE  LedgerInv'
BY DEF LedgerInv, QosLedger, DirectMade

\* request(): the new one is the last in the queue of its server.
LEMMA RequestLedger ==
  ASSUME TypeOK, TypeOK', Consistent, LedgerInv, NEW s \in Servers, Request(s)
  PROVE  LedgerInv'
<1>1. /\ reqId \in ReqIds /\ target[reqId] = NONE /\ target'[reqId] = s
      /\ \A r \in ReqIds : target[r] # NONE => target'[r] = target[r]
  BY NewRequestConsistent DEF Request
<1>2. /\ callbacks' = callbacks \cup {reqId} /\ UNCHANGED direct
      /\ callbacks \subseteq ReqIds /\ direct \subseteq ReqIds
      /\ \A r \in callbacks : target[r] # NONE
      /\ \A r \in direct : target[r] # NONE
      /\ \A r \in ReqIds : target[r] # NONE => r < reqId
  <2>1. \A r \in ReqIds : r \in Nat
    BY DEF ReqIds
  <2> QED BY <1>1, <2>1 DEF Request, NewRequest, TypeOK, Consistent, PendingUnanswered,
                            LedgerInv, DirectMade
<1>3. \A q \in Servers : /\ msgMap[q] \in Seq(ReqIds) /\ Ascending(msgMap[q])
                         /\ ToSet(msgMap[q]) = {r \in callbacks \ direct : target[r] = q}
  BY LedgerMeans DEF LedgerInv, TypeOK
<1>4. /\ msgMap'[s] = Append(msgMap[s], reqId)
      /\ \A q \in Servers \ {s} : msgMap'[q] = msgMap[q]
  BY DEF Request, TypeOK
<1>5. \A r \in ToSet(msgMap[s]) : r < reqId
  BY <1>2, <1>3
<1>6. Ascending(msgMap'[s]) /\ ToSet(msgMap'[s]) = ToSet(msgMap[s]) \cup {reqId}
  BY <1>1, <1>3, <1>4, <1>5, AppendedAscending
<1>7. ASSUME NEW q \in Servers
      PROVE  /\ ToSet(msgMap'[q]) = {r \in callbacks' \ direct' : target'[r] = q}
             /\ Ascending(msgMap'[q])
  <2>1. {r \in callbacks' \ direct' : target'[r] = q} =
          {r \in callbacks \ direct : target[r] = q} \cup (IF q = s THEN {reqId} ELSE {})
    BY <1>1, <1>2
  <2> QED BY <1>3, <1>4, <1>6, <2>1
<1>8. QosLedger'
  <2>1. ASSUME NEW q \in Servers PROVE DOMAIN msgMap'[q] = 1..Len(msgMap'[q])
    <3>1. msgMap'[q] \in Seq(ReqIds)
      BY DEF TypeOK
    <3> QED BY <3>1
  <2> QED BY <1>7, <2>1 DEF QosLedger, Ascending
<1>9. DirectMade'
  BY <1>1, <1>2 DEF DirectMade
<1> QED BY <1>8, <1>9 DEF LedgerInv

\* requestServer(): its request is in no queue.
LEMMA RequestServerLedger ==
  ASSUME TypeOK, Consistent, LedgerInv, NEW s \in Servers, NEW addr, RequestServer(s, addr)
  PROVE  LedgerInv'
<1>1. /\ reqId \in ReqIds /\ target[reqId] = NONE /\ target'[reqId] = s /\ s # NONE
      /\ \A r \in ReqIds : target[r] # NONE => target'[r] = target[r]
  BY NewRequestConsistent, NoneAssumption DEF RequestServer
<1>2. /\ callbacks' = callbacks \cup {reqId} /\ direct' = direct \cup {reqId} /\ UNCHANGED msgMap
      /\ callbacks \subseteq ReqIds /\ direct \subseteq ReqIds
      /\ \A r \in callbacks \cup direct : target[r] # NONE
  BY DEF RequestServer, NewRequest, TypeOK, Consistent, PendingUnanswered, LedgerInv, DirectMade
<1>3. \A q \in Servers : {r \in callbacks' \ direct' : target'[r] = q} =
                           {r \in callbacks \ direct : target[r] = q}
  BY <1>1, <1>2
<1>4. QosLedger'
  BY <1>2, <1>3 DEF LedgerInv, QosLedger
<1>5. DirectMade'
  BY <1>1, <1>2 DEF LedgerInv, DirectMade
<1> QED BY <1>4, <1>5 DEF LedgerInv

\* An answer comes from the server asked, so it leaves the queue it is in.
LEMMA OnResponseLedger ==
  ASSUME TypeOK, TypeOK', Consistent, LedgerInv, NEW c \in Conns, NEW r \in Handed(c), OnResponse(c, r)
  PROVE  LedgerInv'
<1>1. target[r] = peer[c].id /\ UNCHANGED target
  BY HandedToOwner DEF OnResponse
<1>2. /\ r \in ReqIds /\ peer[c].id \in Servers
      /\ callbacks' = callbacks \ {r} /\ UNCHANGED direct
      /\ msgMap' = [msgMap EXCEPT ![peer[c].id] = RemoveFirst(@, r)]
  BY DEF OnResponse, Handed, MonitorPeers
<1>3. \A q \in Servers : /\ msgMap[q] \in Seq(ReqIds) /\ Ascending(msgMap[q])
                         /\ ToSet(msgMap[q]) = {e \in callbacks \ direct : target[e] = q}
  BY LedgerMeans DEF LedgerInv, TypeOK
<1>4. /\ msgMap'[peer[c].id] = RemoveFirst(msgMap[peer[c].id], r)
      /\ \A q \in Servers \ {peer[c].id} : msgMap'[q] = msgMap[q]
  BY <1>2 DEF TypeOK
<1>5. /\ Ascending(msgMap'[peer[c].id])
      /\ ToSet(msgMap'[peer[c].id]) = ToSet(msgMap[peer[c].id]) \ {r}
  BY <1>2, <1>3, <1>4, RemovedAscending
<1>6. ASSUME NEW q \in Servers
      PROVE  /\ ToSet(msgMap'[q]) = {e \in callbacks' \ direct' : target'[e] = q}
             /\ Ascending(msgMap'[q])
  BY <1>1, <1>2, <1>3, <1>4, <1>5
<1>7. QosLedger'
  <2>1. ASSUME NEW q \in Servers PROVE DOMAIN msgMap'[q] = 1..Len(msgMap'[q])
    <3>1. msgMap'[q] \in Seq(ReqIds)
      BY DEF TypeOK
    <3> QED BY <3>1
  <2> QED BY <1>6, <2>1 DEF QosLedger, Ascending
<1>8. DirectMade'
  BY <1>1, <1>2 DEF LedgerInv, DirectMade
<1> QED BY <1>7, <1>8 DEF LedgerInv

\* A peer that announces itself finds the queue as it was.
LEMMA HandshakeLedger ==
  ASSUME LedgerInv, NEW c \in Conns, Handshake(c)
  PROVE  LedgerInv'
BY SameLedger DEF Handshake, Connection, RegisterMonitor, OnReconnect, RegisterClient, RegisterOther,
   AuthServerDone, AuthUserDone, requests, history

\* Of what a peer says only a response is about a request.
LEMMA OtherTrafficLedger ==
  ASSUME LedgerInv, NEW c \in Conns, Kick(c) \/ OnAsk(c) \/ Answer(c) \/ OnDisconnect(c)
  PROVE  LedgerInv'
BY SameLedger DEF Kick, OnAsk, Answer, OnDisconnect, requests, history

\* The notifications.
Notification ==
  \/ \E s \in Servers : NotifyById(s) \/ NotifySlavesById(s)
  \/ \E s \in Servers, a \in Addrs : NotifyByServer(s, a)
  \/ \E t \in Types : NotifyByType(t)
  \/ \E u \in Users : NotifyClient(u)
  \/ NotifyAll
  \/ NotifyCommand

\* A notification is not queued.
LEMMA NotificationLedger ==
  ASSUME LedgerInv, Notification
  PROVE  LedgerInv'
<1>1. Notifying
  BY DEF Notification, NotifyById, NotifySlavesById, NotifyByServer, NotifyByType, NotifyClient,
         NotifyAll, NotifyCommand
<1> QED BY <1>1, SameLedger DEF Notifying, requests, history

\* Every step keeps the queues exact.
LEMMA StepLedger ==
  ASSUME TypeOK, TypeOK', AnswerInv, LedgerInv, Next
  PROVE  LedgerInv'
<1>1. Consistent
  BY DEF AnswerInv, Next
<1>2. CASE Listen \/ Close
  BY <1>2, SameLedger DEF Listen, Close, requests, history
<1>3. ASSUME NEW c \in Conns, Handshake(c) PROVE LedgerInv'
  BY <1>3, HandshakeLedger
<1>4. ASSUME NEW c \in Conns, Traffic(c) PROVE LedgerInv'
  BY <1>1, <1>4, OnResponseLedger, OtherTrafficLedger DEF Traffic
<1>5. CASE Call
  BY <1>1, <1>5, RequestLedger, RequestServerLedger, NotificationLedger DEF Call, Notification
<1> QED BY <1>2, <1>3, <1>4, <1>5 DEF Next

\* The queues and the stored callbacks agree in every state.
THEOREM LedgersAgree == Spec => []LedgerInv
<1>1. Init => LedgerInv
  BY InitLedger
<1>2. ASSUME TypeOK, TypeOK', AnswerInv, LedgerInv, [Next]_vars PROVE LedgerInv'
  <2>1. CASE UNCHANGED vars
    BY <1>2, <2>1, SameLedger DEF vars, requests, history
  <2> QED BY <1>2, <2>1, StepLedger
<1> QED BY <1>1, <1>2, TypeCorrect, AnswersConsistent, PTL DEF Spec

\* masterAgent.js: the queue of a server holds the requests made to it whose callback is
\* still to be called, and no others, oldest first.
THEOREM QueuesExact == Spec => []QosLedger
<1>1. LedgerInv => QosLedger
  BY DEF LedgerInv
<1> QED BY <1>1, LedgersAgree, PTL

-----------------------------------------------------------------------------
(***************************************************************************)
(* What a step writes, unless it ends a connection: nothing; messages that *)
(* are no requests; a reply and a repush, to a connection that has just    *)
(* announced itself; a new request.                                        *)
(***************************************************************************)
Written ==
  \/ UNCHANGED sent
  \/ \E c \in Conns : \E ms : Quiet(ms) /\ Put(c, ms)
  \/ \E c \in Conns, s \in Servers : peer[c] = NONE /\ \E ms : Quiet(ms) /\ Put(c, ms \o Repush(s))
  \/ \E c \in Conns, s \in Servers :
       NewRequest(s) /\ UNCHANGED answered /\ Put(c, <<RequestMsg(reqId)>>)
  \/ \E times \in [Conns -> Nat], kind \in Kinds \ {"request"} : Broadcast(times, Plain(kind))

\* What is written while a peer announces itself: replies, and the queue.
LEMMA HandshakeWrites ==
  ASSUME TypeOK, NEW c \in Conns, Handshake(c)
  PROVE  Written
<1>1. ASSUME NEW p \in MonitorPeers, Greets(c), RegisterMonitor(c, p) PROVE Written
  <2>1. p.id \in Servers /\ peer[c] = NONE
    BY <1>1 DEF MonitorPeers, Greets
  <2>2. Repush(p.id) = <<>> \o Repush(p.id)
    BY <2>1, RepushType, ConcatEmptySeq
  <2>3. PICK ms : Quiet(ms) /\ Put(c, ms \o Repush(p.id))
    BY <1>1, <2>2, QuietReplies DEF RegisterMonitor
  <2> QED BY <2>1, <2>3 DEF Written
<1>2. ASSUME NEW p \in MonitorPeers, Greets(c), OnReconnect(c, p) PROVE Written
  <2>1. p.id \in Servers /\ peer[c] = NONE
    BY <1>2 DEF MonitorPeers, Greets
  <2> QED BY <1>2, <2>1, QuietReplies DEF OnReconnect, Written
<1>3. ASSUME NEW ms, Quiet(ms), Put(c, ms \o <<Disconnect>>) PROVE Written
  BY <1>3, QuietReplies, QuietConcat DEF Written
<1>4. ASSUME NEW p \in ClientPeers, RegisterClient(c, p) PROVE Written
  <2>1. CASE RefuseClient(c)
    BY <1>3, <2>1, QuietReplies DEF RefuseClient
  <2> QED BY <1>4, <2>1, QuietReplies DEF RegisterClient, AcceptClient, Written
<1>5. CASE RegisterOther(c) \/ AuthServerDone(c) \/ AuthUserDone(c)
  BY <1>5, QuietReplies DEF RegisterOther, AuthServerDone, AuthUserDone, AcceptClient, Written
<1>6. CASE Connection(c)
  BY <1>6 DEF Connection, Written
<1> QED BY <1>1, <1>2, <1>4, <1>5, <1>6 DEF Handshake

\* What is written when a peer speaks: no request.
LEMMA TrafficWrites ==
  ASSUME NEW c \in Conns, Traffic(c), ~OnDisconnect(c)
  PROVE  Written
<1>1. CASE Kick(c) \/ Answer(c)
  BY <1>1, QuietReplies DEF Kick, Answer, Written
<1>2. CASE OnAsk(c) \/ \E r \in Handed(c) : OnResponse(c, r)
  BY <1>2 DEF OnAsk, OnResponse, Written
<1> QED BY <1>1, <1>2 DEF Traffic

\* What the API writes: a new request or a notification.
LEMMA CallWrites ==
  ASSUME TypeOK, Call
  PROVE  Written
<1>1. \A s \in Servers : idMap[s] # NONE => idMap[s].socket \in Conns
  BY DEF TypeOK, Records
<1>2. \A u \in Users : clients[u] # NONE => clients[u] \in Conns
  BY DEF TypeOK
<1>3. ASSUME NEW s \in Servers, Request(s) PROVE Written
  BY <1>1, <1>3 DEF Request, Written
<1>4. ASSUME NEW s \in Servers, NEW a \in Addrs, RequestServer(s, a) PROVE Written
  BY <1>1, <1>4, ComparedPrimary DEF RequestServer, Written
<1>5. ASSUME NEW s \in Servers, NEW a \in Addrs, NotifyByServer(s, a) PROVE Written
  BY <1>1, <1>5, ComparedPrimary, QuietReplies DEF NotifyByServer, Written
<1>6. CASE \E s \in Servers : NotifyById(s)
  BY <1>1, <1>6, QuietReplies DEF NotifyById, Written
<1>7. CASE \E u \in Users : NotifyClient(u)
  BY <1>2, <1>7, QuietReplies DEF NotifyClient, Written
<1>8. /\ "notify" \in Kinds \ {"request"} /\ "command" \in Kinds \ {"request"}
      /\ \A s \in Servers : PerElement(slaveMap[s]) \in [Conns -> Nat]
      /\ \A t \in Types : PerElement(typeMap[t]) \in [Conns -> Nat]
      /\ PerKey(idMap) \in [Conns -> Nat]
  BY PerElementType, PerKeyType DEF Kinds, TypeOK
<1>9. CASE \E s \in Servers : NotifySlavesById(s)
  BY <1>8, <1>9 DEF NotifySlavesById, Written
<1>10. CASE \E t \in Types : NotifyByType(t)
  BY <1>8, <1>10 DEF NotifyByType, Written
<1>11. CASE NotifyAll \/ NotifyCommand
  BY <1>8, <1>11 DEF NotifyAll, NotifyCommand, Written
<1> QED BY <1>3, <1>4, <1>5, <1>6, <1>7, <1>9, <1>10, <1>11 DEF Call

\* What any step writes but the end of a connection.
LEMMA StepWrites ==
  ASSUME TypeOK, Next, \A c \in Conns : ~OnDisconnect(c)
  PROVE  Written
BY HandshakeWrites, TrafficWrites, CallWrites DEF Next, Listen, Close, Written

-----------------------------------------------------------------------------
(***************************************************************************)
(* SettledNotPushed: every request that is written to a connection is      *)
(* unanswered.                                                             *)
(***************************************************************************)
FreshWrites ==
  \A d \in Conns : \A m \in ToSet(sent'[d]) :
    m \in ToSet(sent[d]) \/ (m.kind = "request" => answered[m.n] = <<>>)

\* What is pushed again is in a queue.
LEMMA RepushFresh ==
  ASSUME TypeOK, Consistent, LedgerInv, NEW s \in Servers, NEW m \in ToSet(Repush(s))
  PROVE  answered[m.n] = <<>>
<1>1. PICK r \in ToSet(msgMap[s]) : r \in ReqIds /\ m = RequestMsg(r)
  BY RepushContents
<1>2. r \in callbacks
  BY <1>1 DEF LedgerInv, QosLedger
<1> QED BY <1>1, <1>2, NotRequests DEF Consistent, PendingUnanswered

\* A request that is written is one that waits for its answer.
LEMMA WritesFresh ==
  ASSUME TypeOK, Consistent, LedgerInv, Written
  PROVE  FreshWrites
<1>1. CASE UNCHANGED sent
  BY <1>1 DEF FreshWrites
<1>2. ASSUME NEW c \in Conns, NEW ms, Quiet(ms), Put(c, ms) PROVE FreshWrites
  BY <1>2, PutContents DEF FreshWrites, Quiet
<1>3. ASSUME NEW c \in Conns, NEW s \in Servers, NEW ms, Quiet(ms), Put(c, ms \o Repush(s))
      PROVE  FreshWrites
  <2>1. ms \o Repush(s) \in Seq(Message) /\ ToSet(ms \o Repush(s)) = ToSet(ms) \cup ToSet(Repush(s))
    BY <1>3, RepushType, ConcatProperties, ToSetOfConcat DEF Quiet
  <2>2. \A d \in Conns : ToSet(sent'[d]) \subseteq ToSet(sent[d]) \cup ToSet(ms \o Repush(s))
    BY <1>3, <2>1, PutContents
  <2> QED BY <1>3, <2>1, <2>2, RepushFresh DEF FreshWrites, Quiet
<1>4. ASSUME NEW c \in Conns, NEW s \in Servers, NewRequest(s), UNCHANGED answered,
             Put(c, <<RequestMsg(reqId)>>)
      PROVE  FreshWrites
  <2>1. reqId \in ReqIds /\ answered[reqId] = <<>>
    BY <1>4, NewRequestConsistent DEF Consistent, PendingUnanswered
  <2>2. <<RequestMsg(reqId)>> \in Seq(Message) /\ ToSet(<<RequestMsg(reqId)>>) = {RequestMsg(reqId)}
    BY <2>1, ReplyTypes, MessageTypes, ToSetOfFew
  <2>3. \A d \in Conns : ToSet(sent'[d]) \subseteq ToSet(sent[d]) \cup {RequestMsg(reqId)}
    BY <1>4, <2>2, PutContents
  <2> QED BY <2>1, <2>3, NotRequests DEF FreshWrites
<1>5. ASSUME NEW times \in [Conns -> Nat], NEW kind \in Kinds \ {"request"}, Broadcast(times, Plain(kind))
      PROVE  FreshWrites
  <2>1. Plain(kind) \in Message /\ Plain(kind).kind # "request"
    BY MessageTypes, NotRequests
  <2>2. \A d \in Conns : ToSet(sent'[d]) \subseteq ToSet(sent[d]) \cup {Plain(kind)}
    BY <1>5, <2>1, BroadcastContents
  <2> QED BY <2>1, <2>2 DEF FreshWrites
<1> QED BY <1>1, <1>2, <1>3, <1>4, <1>5 DEF Written

\* QoS: a request that has been answered is never pushed again, whatever connections its
\* server opens and however often it registers.
THEOREM SettledStaysQuiet == Spec => SettledNotPushed
<1> DEFINE Quietly == \A c \in Conns, r \in ReqIds :
                        answered[r] # <<>> /\ r \in Handed(c)' => r \in Handed(c)
<1>1. ASSUME TypeOK, AnswerInv, LedgerInv, Next PROVE Quietly
  <2>1. Consistent
    BY <1>1 DEF AnswerInv, Next
  <2>2. FreshWrites
    <3>1. CASE \E c \in Conns : OnDisconnect(c)
      <4>1. ASSUME NEW d \in Conns PROVE sent'[d] = sent[d] \/ sent'[d] = <<>>
        BY <1>1, <3>1 DEF OnDisconnect, TypeOK
      <4> QED BY <4>1, ToSetOfFew DEF FreshWrites
    <3> QED BY <1>1, <2>1, <3>1, StepWrites, WritesFresh
  <2>3. \A r : RequestMsg(r).kind = "request" /\ RequestMsg(r).n = r
    BY NotRequests
  <2> QED BY <2>2, <2>3 DEF FreshWrites, Handed
<1>2. ASSUME TypeOK, AnswerInv, LedgerInv, [Next]_vars PROVE [Quietly]_vars
  BY <1>1, <1>2
<1> QED BY <1>2, TypeCorrect, AnswersConsistent, LedgersAgree, PTL DEF Spec, SettledNotPushed

-----------------------------------------------------------------------------
(***************************************************************************)
(* What a connection is written, and in which order.                       *)
(*                                                                         *)
(* What was written stays, and more is written behind it (Grows).  A queue *)
(* goes as a whole to a connection that has announced itself just then and *)
(* so was written no request, a new request to a primary; neither can      *)
(* repeat what is there.  The reply that makes a monitor REGISTERED is     *)
(* written in the step that registers its connection, before the queue.    *)
(***************************************************************************)
Grows == \A d \in Conns : \E x \in Seq(Message) : sent'[d] = sent[d] \o x

\* No request twice in a list of messages.
NoneTwice(q) ==
  \A i, j \in 1..Len(q) : q[i].kind = "request" /\ q[i] = q[j] => i = j

WrittenOnce == \A c \in Conns : NoneTwice(sent[c])

Accepting == {Register(PRO_OK), ReconnectOk(PRO_OK)}

\* There is a reply that accepts the peer, and no request up to there.
Told(q) ==
  \E j \in 1..Len(q) : q[j] \in Accepting /\ \A i \in 1..j : q[i].kind # "request"

AllTold == \A c \in registered : Told(sent[c])

-----------------------------------------------------------------------------
(***************************************************************************)
(* Lists of messages.                                                      *)
(***************************************************************************)
\* The elements of two lists in a row.
LEMMA InARow ==
  ASSUME NEW a \in Seq(Message), NEW b \in Seq(Message)
  PROVE  /\ a \o b \in Seq(Message) /\ Len(a \o b) = Len(a) + Len(b)
         /\ Len(a) \in Nat /\ Len(b) \in Nat
         /\ \A i \in 1..Len(a) : (a \o b)[i] = a[i] /\ a[i] \in ToSet(a)
         /\ \A i \in 1..Len(b) : (a \o b)[Len(a) + i] = b[i]
         /\ \A i \in 1..Len(a \o b) :
              \/ i \in 1..Len(a) /\ (a \o b)[i] = a[i]
              \/ i - Len(a) \in 1..Len(b) /\ (a \o b)[i] = b[i - Len(a)] /\ b[i - Len(a)] \in ToSet(b)
<1>1. DOMAIN a = 1..Len(a) /\ DOMAIN b = 1..Len(b) /\ Len(a) \in Nat /\ Len(b) \in Nat
  OBVIOUS
<1>2. Len(a \o b) = Len(a) + Len(b)
  OBVIOUS
<1>3. ASSUME NEW i \in 1..Len(a \o b), i \notin 1..Len(a)
      PROVE  i - Len(a) \in 1..Len(b) /\ (a \o b)[i] = b[i - Len(a)] /\ b[i - Len(a)] \in ToSet(b)
  <2>1. i - Len(a) \in 1..Len(b)
    BY <1>1, <1>2, <1>3
  <2>2. (a \o b)[i] = b[i - Len(a)]
    BY <1>1, <1>2, <1>3
  <2> QED BY <1>1, <2>1, <2>2 DEF ToSet
<1>4. \A i \in 1..Len(a) : (a \o b)[i] = a[i] /\ a[i] \in ToSet(a)
  BY <1>1 DEF ToSet
<1>5. \A i \in 1..Len(b) : (a \o b)[Len(a) + i] = b[i]
  OBVIOUS
<1>6. a \o b \in Seq(Message)
  OBVIOUS
<1> QED BY <1>1, <1>2, <1>3, <1>4, <1>5, <1>6

\* Two lists with no request in common.
LEMMA NoneTwiceInARow ==
  ASSUME NEW a \in Seq(Message), NEW b \in Seq(Message), NoneTwice(a), NoneTwice(b),
         \A m \in ToSet(b) : m.kind = "request" => m \notin ToSet(a)
  PROVE  NoneTwice(a \o b)
<1> DEFINE q == a \o b
<1>1. /\ Len(a) \in Nat /\ Len(b) \in Nat /\ Len(q) \in Nat
      /\ \A i \in 1..Len(q) :
           \/ i \in 1..Len(a) /\ q[i] = a[i] /\ a[i] \in ToSet(a)
           \/ i - Len(a) \in 1..Len(b) /\ q[i] = b[i - Len(a)] /\ b[i - Len(a)] \in ToSet(b)
  BY InARow
<1> HIDE DEF q
<1>2. ASSUME NEW i \in 1..Len(q), NEW j \in 1..Len(q), q[i].kind = "request", q[i] = q[j]
      PROVE  i = j
  <2>1. CASE i \in 1..Len(a) /\ q[i] = a[i] /\ j \in 1..Len(a) /\ q[j] = a[j]
    BY <1>2, <2>1 DEF NoneTwice
  <2>2. CASE /\ i - Len(a) \in 1..Len(b) /\ q[i] = b[i - Len(a)]
             /\ j - Len(a) \in 1..Len(b) /\ q[j] = b[j - Len(a)]
    <3>1. i - Len(a) = j - Len(a)
      BY <1>2, <2>2 DEF NoneTwice
    <3> QED BY <1>1, <3>1
  <2>3. ~(q[i] \in ToSet(a) /\ q[j] \in ToSet(b)) /\ ~(q[j] \in ToSet(a) /\ q[i] \in ToSet(b))
    BY <1>2
  <2> QED BY <1>1, <2>1, <2>2, <2>3
<1> QED BY <1>2 DEF NoneTwice, q

\* A list without requests, and one request.
LEMMA NoneTwiceInShort ==
  /\ \A ms : Quiet(ms) => NoneTwice(ms)
  /\ \A m \in Message : NoneTwice(<<m>>)
<1>1. ASSUME NEW ms, Quiet(ms) PROVE NoneTwice(ms)
  <2>1. DOMAIN ms = 1..Len(ms)
    BY <1>1 DEF Quiet
  <2> QED BY <1>1, <2>1 DEF NoneTwice, Quiet, ToSet
<1>2. \A m \in Message : NoneTwice(<<m>>)
  BY DEF NoneTwice
<1> QED BY <1>1, <1>2

\* A queue is pushed with every request once.
LEMMA NoneTwiceInRepush ==
  ASSUME TypeOK, QosLedger, NEW s \in Servers
  PROVE  Repush(s) \in Seq(Message) /\ NoneTwice(Repush(s))
<1>1. msgMap[s] \in Seq(ReqIds) /\ Ascending(msgMap[s])
  BY LedgerMeans DEF TypeOK
<1>2. /\ DOMAIN msgMap[s] = 1..Len(msgMap[s]) /\ Len(msgMap[s]) \in Nat
      /\ \A i \in 1..Len(msgMap[s]) : msgMap[s][i] \in Nat
  <2>1. DOMAIN msgMap[s] = 1..Len(msgMap[s]) /\ Len(msgMap[s]) \in Nat
        /\ \A i \in 1..Len(msgMap[s]) : msgMap[s][i] \in ReqIds
    BY <1>1
  <2> QED BY <2>1 DEF ReqIds
<1>3. Len(Repush(s)) = Len(msgMap[s])
  BY <1>2 DEF Repush
<1>4. \A i \in 1..Len(msgMap[s]) : Repush(s)[i].n = msgMap[s][i]
  BY <1>2, NotRequests DEF Repush
<1>5. \A i, j \in 1..Len(msgMap[s]) : Repush(s)[i] = Repush(s)[j] => i = j
  BY <1>1, <1>2, <1>4 DEF Ascending
<1> QED BY <1>3, <1>5, RepushType DEF NoneTwice

\* A list that grows at its end keeps what was read first.
LEMMA StillTold ==
  ASSUME NEW a \in Seq(Message), NEW b \in Seq(Message), Told(a)
  PROVE  Told(a \o b)
<1>1. PICK j \in 1..Len(a) : a[j] \in Accepting /\ \A i \in 1..j : a[i].kind # "request"
  BY DEF Told
<1>2. /\ Len(a \o b) = Len(a) + Len(b) /\ Len(a) \in Nat /\ Len(b) \in Nat
      /\ \A i \in 1..Len(a) : (a \o b)[i] = a[i]
  BY InARow
<1>3. j \in 1..Len(a \o b) /\ \A i \in 1..j : i \in 1..Len(a)
  BY <1>2
<1> QED BY <1>1, <1>2, <1>3 DEF Told

\* The reply comes behind a list without requests.
LEMMA NowTold ==
  ASSUME NEW a, Quiet(a), NEW ok \in Accepting, NEW b \in Seq(Message)
  PROVE  <<ok>> \o b \in Seq(Message) /\ Told(a \o (<<ok>> \o b))
<1>1. ok \in Message /\ ok.kind # "request" /\ <<ok>> \in Seq(Message)
  BY MessageTypes, ReplyTypes, NotRequests DEF Accepting
<1>2. a \in Seq(Message) /\ DOMAIN a = 1..Len(a) /\ \A i \in 1..Len(a) : a[i].kind # "request"
  BY DEF Quiet, ToSet
<1> DEFINE q == a \o (<<ok>> \o b)
<1>3. /\ <<ok>> \o b \in Seq(Message) /\ Len(<<ok>> \o b) = 1 + Len(b) /\ Len(b) \in Nat
      /\ (<<ok>> \o b)[1] = ok
  BY <1>1
<1>4. /\ Len(q) = Len(a) + (1 + Len(b)) /\ Len(a) \in Nat
      /\ \A i \in 1..Len(a) : q[i] = a[i]
      /\ \A i \in 1..(1 + Len(b)) : q[Len(a) + i] = (<<ok>> \o b)[i]
  BY <1>2, <1>3, InARow
<1> HIDE DEF q
<1>5. q[Len(a) + 1] = ok /\ Len(a) + 1 \in 1..Len(q)
  BY <1>3, <1>4
<1>6. \A i \in 1..(Len(a) + 1) : i \in 1..Len(a) \/ i = Len(a) + 1
  BY <1>4
<1> QED BY <1>1, <1>2, <1>3, <1>4, <1>5, <1>6 DEF Told, q

-----------------------------------------------------------------------------
(***************************************************************************)
(* What a step does to what was written.                                   *)
(***************************************************************************)
\* What goes out with a broadcast.
LEMMA Copies ==
  ASSUME NEW n \in Nat, NEW m \in Message, m.kind # "request"
  PROVE  Quiet([i \in 1..n |-> m])
<1>1. [i \in 1..n |-> m] \in Seq(Message)
  OBVIOUS
<1> QED BY <1>1 DEF Quiet, ToSet

\* Unless a connection ends, everything that is written is written behind.
LEMMA WritesGrow ==
  ASSUME TypeOK, Written
  PROVE  Grows
<1>1. sent \in [Conns -> Seq(Message)] /\ \A d \in Conns : sent[d] = sent[d] \o <<>>
  <2>1. sent \in [Conns -> Seq(Message)]
    BY DEF TypeOK
  <2> QED BY <2>1, ConcatEmptySeq
<1>2. ASSUME NEW c \in Conns, NEW ms \in Seq(Message), Put(c, ms) PROVE Grows
  BY <1>1, <1>2, ReplyTypes DEF Put, Grows
<1>3. CASE UNCHANGED sent
  BY <1>1, <1>3, ReplyTypes DEF Grows
<1>4. ASSUME NEW s \in Servers, NEW ms, Quiet(ms) PROVE ms \o Repush(s) \in Seq(Message)
  BY <1>4, RepushType, ConcatProperties DEF Quiet
<1>5. ASSUME NEW s \in Servers, NewRequest(s) PROVE <<RequestMsg(reqId)>> \in Seq(Message)
  BY <1>5, NewRequestType, MessageTypes, ReplyTypes
<1>6. ASSUME NEW times \in [Conns -> Nat], NEW kind \in Kinds \ {"request"}, Broadcast(times, Plain(kind))
      PROVE  Grows
  <2>1. Plain(kind) \in Message /\ Plain(kind).kind # "request"
    BY MessageTypes, NotRequests
  <2>2. \A d \in Conns : [i \in 1..times[d] |-> Plain(kind)] \in Seq(Message)
    BY <2>1, Copies DEF Quiet
  <2> QED BY <1>1, <1>6, <2>2, ReplyTypes DEF Broadcast, Grows
<1> QED BY <1>2, <1>3, <1>4, <1>5, <1>6 DEF Written, Quiet

\* What a connection is written more does not repeat a request.
LEMMA PutOnce ==
  ASSUME TypeOK, WrittenOnce, NEW c \in Conns, NEW ms \in Seq(Message), NoneTwice(ms), Put(c, ms),
         \A m \in ToSet(ms) : m.kind = "request" => m \notin ToSet(sent[c])
  PROVE  WrittenOnce'
<1>1. sent[c] \in Seq(Message) /\ NoneTwice(sent[c] \o ms)
  BY NoneTwiceInARow DEF TypeOK, WrittenOnce
<1> QED BY <1>1 DEF Put, TypeOK, WrittenOnce

\* A queue goes to a connection that has no request, a new request has no equal.
LEMMA WritesOnce ==
  ASSUME TypeOK, Consistent, QosLedger, WrittenOnce, Written
  PROVE  WrittenOnce'
<1>1. CASE UNCHANGED sent
  BY <1>1 DEF WrittenOnce
<1>2. ASSUME NEW c \in Conns, NEW ms, Quiet(ms), Put(c, ms) PROVE WrittenOnce'
  BY <1>2, NoneTwiceInShort, PutOnce DEF Quiet
<1>3. ASSUME NEW c \in Conns, NEW s \in Servers, peer[c] = NONE, NEW ms, Quiet(ms), Put(c, ms \o Repush(s))
      PROVE  WrittenOnce'
  <2>1. ms \in Seq(Message) /\ Repush(s) \in Seq(Message) /\ NoneTwice(ms) /\ NoneTwice(Repush(s))
    BY <1>3, NoneTwiceInShort, NoneTwiceInRepush DEF Quiet
  <2>2. \A m \in ToSet(Repush(s)) : m.kind = "request" => m \notin ToSet(ms)
    BY <1>3 DEF Quiet
  <2>3. ms \o Repush(s) \in Seq(Message) /\ NoneTwice(ms \o Repush(s))
    BY <2>1, <2>2, NoneTwiceInARow, ConcatProperties
  <2>4. \A m \in ToSet(sent[c]) : m.kind # "request"
    BY <1>3, UnknownPeer DEF Consistent
  <2> QED BY <1>3, <2>3, <2>4, PutOnce
<1>4. ASSUME NEW c \in Conns, NEW s \in Servers, NewRequest(s), UNCHANGED answered,
             Put(c, <<RequestMsg(reqId)>>)
      PROVE  WrittenOnce'
  <2>1. reqId \in ReqIds /\ target[reqId] = NONE
    BY <1>4, NewRequestConsistent
  <2>2. /\ RequestMsg(reqId) \in Message /\ <<RequestMsg(reqId)>> \in Seq(Message)
        /\ ToSet(<<RequestMsg(reqId)>>) = {RequestMsg(reqId)}
    BY <2>1, ReplyTypes, MessageTypes, ToSetOfFew
  <2>3. RequestMsg(reqId) \notin ToSet(sent[c])
    <3>1. SUFFICES ASSUME RequestMsg(reqId) \in ToSet(sent[c]) PROVE FALSE
      OBVIOUS
    <3>2. peer[c] \in MonitorPeers /\ target[reqId] = peer[c].id
      BY <3>1, NotRequests DEF Consistent, HandedOwn
    <3> QED BY <2>1, <3>2, NoneAssumption DEF MonitorPeers
  <2> QED BY <1>4, <2>2, <2>3, NoneTwiceInShort, PutOnce
<1>5. ASSUME NEW times \in [Conns -> Nat], NEW kind \in Kinds \ {"request"}, Broadcast(times, Plain(kind))
      PROVE  WrittenOnce'
  <2>1. Plain(kind) \in Message /\ Plain(kind).kind # "request"
    BY MessageTypes, NotRequests
  <2>2. ASSUME NEW d \in Conns PROVE NoneTwice(sent'[d])
    <3> DEFINE copies == [i \in 1..times[d] |-> Plain(kind)]
    <3>1. Quiet(copies)
      BY <2>1, Copies
    <3>2. sent'[d] = sent[d] \/ sent'[d] = sent[d] \o copies
      BY <1>5 DEF Broadcast
    <3> HIDE DEF copies
    <3>3. sent[d] \in Seq(Message) /\ NoneTwice(sent[d])
      BY DEF TypeOK, WrittenOnce
    <3>4. NoneTwice(sent[d] \o copies)
      BY <3>1, <3>3, NoneTwiceInShort, NoneTwiceInARow DEF Quiet
    <3> QED BY <3>2, <3>3, <3>4
  <2> QED BY <2>2 DEF WrittenOnce
<1> QED BY <1>1, <1>2, <1>3, <1>4, <1>5 DEF Written

-----------------------------------------------------------------------------
(***************************************************************************)
(* PushedOnce.                                                             *)
(***************************************************************************)
\* The end of a connection takes away what it was written.
LEMMA EndForgets ==
  ASSUME TypeOK, NEW c \in Conns, OnDisconnect(c)
  PROVE  /\ sent'[c] = <<>> /\ sock'[c] = "closed"
         /\ \A d \in Conns \ {c} : sent'[d] = sent[d] /\ peer'[d] = peer[d]
         /\ UNCHANGED <<requests, history>>
BY DEF OnDisconnect, TypeOK

\* The two handlers that can throw leave what was handed over in order.
LEMMA CrashHanded ==
  ASSUME TypeOK, Consistent, Next, agentState' = "CRASHED"
  PROVE  HandedOwn'
<1>1. PICK c \in Conns : OnDisconnect(c) \/ \E p \in MonitorPeers : Greets(c) /\ OnReconnect(c, p)
  <2>1. ~Listen /\ ~Close
    BY DEF Listen, Close
  <2>2. agentState # "CRASHED"
    BY DEF Next
  <2>3. ~Call
    BY <2>2, CallQuiet
  <2>4. ASSUME NEW c \in Conns, Traffic(c) PROVE OnDisconnect(c)
    BY <2>2, <2>4, TrafficQuiet
  <2>5. ASSUME NEW c \in Conns, Handshake(c) PROVE \E p \in MonitorPeers : Greets(c) /\ OnReconnect(c, p)
    BY <2>2, <2>5 DEF Handshake, Connection, RegisterMonitor, RegisterClient, RegisterOther,
                      AuthServerDone, AuthUserDone, process
  <2> QED BY <2>1, <2>3, <2>4, <2>5 DEF Next
<1>2. CASE OnDisconnect(c)
  <2>1. \A d \in Conns : \A m \in ToSet(sent'[d]) : m \in ToSet(sent[d]) /\ peer'[d] = peer[d]
    BY <1>2, EndForgets, ToSetOfFew
  <2>2. UNCHANGED target
    BY <1>2, EndForgets DEF history
  <2> QED BY <2>1, <2>2, HandedKept DEF Consistent
<1>3. CASE \E p \in MonitorPeers : Greets(c) /\ OnReconnect(c, p)
  BY <1>3, OnReconnectConsistent DEF Consistent, Greets
<1> QED BY <1>1, <1>2, <1>3

PushInv == WrittenOnce /\ HandedOwn

\* However often its server's connections end and come back, a request is written to a
\* connection at most once, and only to one of the server it was made to.
THEOREM PushesOnce == Spec => []PushedOnce
<1>1. Init => PushInv
  <2>1. ASSUME Init PROVE WrittenOnce
    <3>1. Len(<<>>) = 0 /\ 1..0 = {}
      OBVIOUS
    <3> QED BY <2>1, <3>1 DEF Init, WrittenOnce, NoneTwice
  <2> QED BY <2>1, InitConsistent DEF PushInv, Consistent
<1>2. ASSUME TypeOK, AnswerInv, AnswerInv', QosLedger, PushInv, [Next]_vars PROVE PushInv'
  <2>1. CASE UNCHANGED vars
    BY <1>2, <2>1 DEF vars, links, history, PushInv, WrittenOnce, HandedOwn
  <2>2. CASE Next
    <3>1. Consistent
      BY <1>2, <2>2 DEF AnswerInv, Next
    <3>2. HandedOwn'
      BY <1>2, <2>2, <3>1, CrashHanded DEF AnswerInv, Consistent
    <3>3. CASE \E c \in Conns : OnDisconnect(c)
      <4>1. NoneTwice(<<>>)
        BY QuietReplies, NoneTwiceInShort
      <4>2. \A d \in Conns : sent'[d] = sent[d] \/ sent'[d] = <<>>
        BY <1>2, <3>3, EndForgets
      <4> QED BY <1>2, <3>2, <4>1, <4>2 DEF PushInv, WrittenOnce
    <3>4. CASE \A c \in Conns : ~OnDisconnect(c)
      BY <1>2, <2>2, <3>1, <3>2, <3>4, StepWrites, WritesOnce DEF PushInv
    <3> QED BY <3>3, <3>4
  <2> QED BY <1>2, <2>1, <2>2
<1>3. ASSUME TypeOK, PushInv PROVE PushedOnce
  <2>1. \A c \in Conns : DOMAIN sent[c] = 1..Len(sent[c])
    <3>1. ASSUME NEW c \in Conns PROVE sent[c] \in Seq(Message)
      BY <1>3 DEF TypeOK
    <3> QED BY <3>1
  <2>2. \A c \in Conns : \A i \in DOMAIN sent[c] : sent[c][i] \in ToSet(sent[c])
    BY DEF ToSet
  <2> QED BY <1>3, <2>1, <2>2 DEF PushInv, WrittenOnce, NoneTwice, HandedOwn, PushedOnce
<1> QED BY <1>1, <1>2, <1>3, TypeCorrect, AnswersConsistent, QueuesExact, PTL DEF Spec

-----------------------------------------------------------------------------
(***************************************************************************)
(* A connection enters the tables: what the master replies to whom.  From  *)
(* here on auth functions answer at once and every monitor has an info.    *)
(***************************************************************************)
\* A monitor that is accepted is told so and pushed its queue; a client is told so.
Enters(c) ==
  /\ Greets(c)
  /\ registered' = registered \cup {c}
  /\ UNCHANGED msgMap
  /\ \E ok \in Accepting :
       \/ UNCHANGED idMap /\ Put(c, <<ok>> \o <<>>)
       \/ \E p \in MonitorPeers : AddConnection(c, p) /\ Put(c, <<ok>> \o Repush(p.id))

\* Every other greeting changes neither the table of ids nor the flags.
LEMMA HandshakeEnters ==
  ASSUME FlagsInv, ~AsyncAuth, NoInfo \notin Addrs, NEW c \in Conns, Handshake(c)
  PROVE  Enters(c) \/ UNCHANGED <<idMap, registered, msgMap>>
<1>1. /\ Register(PRO_OK) \in Accepting /\ ReconnectOk(PRO_OK) \in Accepting
      /\ <<Register(PRO_OK)>> = <<Register(PRO_OK)>> \o <<>>
  BY ConcatEmptySeq, ReplyTypes, MessageTypes DEF Accepting
<1>2. ASSUME NEW p \in MonitorPeers, Greets(c), RegisterMonitor(c, p)
      PROVE  Enters(c) \/ UNCHANGED <<idMap, registered, msgMap>>
  BY <1>1, <1>2 DEF RegisterMonitor, Enters, tables, requests
<1>3. ASSUME NEW p \in MonitorPeers, Greets(c), OnReconnect(c, p)
      PROVE  Enters(c) \/ UNCHANGED <<idMap, registered, msgMap>>
  <2>1. p.addr # NoInfo
    BY PeerKinds
  <2> QED BY <1>1, <1>3, <2>1 DEF OnReconnect, Enters, tables, requests
<1>4. ASSUME NEW p \in ClientPeers, Greets(c), RegisterClient(c, p)
      PROVE  Enters(c) \/ UNCHANGED <<idMap, registered, msgMap>>
  <2>1. CASE AcceptClient(c, p)
    BY <1>1, <1>4, <2>1 DEF RegisterClient, AcceptClient, Enters, requests
  <2>2. CASE RefuseClient(c)
    BY <1>4, <2>2 DEF RegisterClient, RefuseClient, tables, requests
  <2> QED BY <1>4, <2>1, <2>2 DEF RegisterClient
<1>5. CASE RegisterOther(c) \/ Connection(c)
  BY <1>5 DEF RegisterOther, Connection, tables, requests
<1>6. ~AuthServerDone(c) /\ ~AuthUserDone(c)
  BY DEF AuthServerDone, AuthUserDone, FlagsInv
<1> QED BY <1>2, <1>3, <1>4, <1>5, <1>6 DEF Handshake

\* What the primaries and the queues do in a step that ends no connection.
LEMMA StepEnters ==
  ASSUME FlagsInv, ~AsyncAuth, NoInfo \notin Addrs, Next, \A c \in Conns : ~OnDisconnect(c)
  PROVE  \/ \E c \in Conns : Enters(c)
         \/ /\ UNCHANGED <<idMap, registered>>
            /\ \/ UNCHANGED msgMap
               \/ \E c \in Conns, r \in ReqIds : OnResponse(c, r)
               \/ \E s \in Servers : Request(s)
<1>1. CASE Listen \/ Close
  BY <1>1 DEF Listen, Close, links, tables, requests
<1>2. ASSUME NEW c \in Conns, Traffic(c)
      PROVE  /\ UNCHANGED <<idMap, registered>>
             /\ UNCHANGED msgMap \/ \E r \in ReqIds : OnResponse(c, r)
  BY <1>2, TrafficQuiet DEF Traffic, Kick, OnAsk, Answer, Handed, tables, requests
<1>3. CASE Call
  <2>1. UNCHANGED <<idMap, registered>>
    BY <1>3, CallQuiet DEF tables
  <2>2. UNCHANGED msgMap \/ \E s \in Servers : Request(s)
    BY <1>3 DEF Call, RequestServer, NotifyById, NotifyByServer, NotifySlavesById, NotifyByType,
                NotifyAll, NotifyCommand, NotifyClient, Notifying, requests
  <2> QED BY <2>1, <2>2
<1> QED BY <1>1, <1>2, <1>3, HandshakeEnters DEF Next

\* A connection that enters is open and has been written no request before.
LEMMA EntersQuiet ==
  ASSUME TypeOK, Consistent, NEW c \in Conns, Enters(c)
  PROVE  sock[c] = "open" /\ Quiet(sent[c])
<1>1. peer[c] = NONE /\ sock[c] = "open"
  BY DEF Enters, Greets
<1> QED BY <1>1, UnknownPeer DEF Quiet, TypeOK, Consistent

-----------------------------------------------------------------------------
(***************************************************************************)
(* ReplyBeforeRequest.                                                     *)
(***************************************************************************)
\* A connection is registered in the step that writes the reply, and has no request then.
LEMMA EntersTold ==
  ASSUME TypeOK, Consistent, Grows, AllTold, NEW c \in Conns, Enters(c)
  PROVE  AllTold'
<1>1. Told(sent'[c])
  <2>1. PICK ok \in Accepting, b \in Seq(Message) : Put(c, <<ok>> \o b)
    BY RepushType, ReplyTypes DEF Enters, MonitorPeers
  <2>2. sent'[c] = sent[c] \o (<<ok>> \o b)
    BY <2>1, EntersQuiet DEF Put, TypeOK
  <2> QED BY <2>2, EntersQuiet, NowTold
<1>2. ASSUME NEW d \in registered PROVE Told(sent'[d])
  <2>1. d \in Conns /\ sent[d] \in Seq(Message)
    BY DEF TypeOK
  <2> QED BY <2>1, StillTold DEF AllTold, Grows
<1> QED BY <1>1, <1>2 DEF Enters, AllTold

\* masterSocket.js: a registered connection has been written the reply that makes its
\* monitor REGISTERED before any request, whether that is pushed again or new.
THEOREM RepliesFirst ==
  ASSUME ~AsyncAuth, NoInfo \notin Addrs
  PROVE  Spec => []ReplyBeforeRequest
<1>1. Init => AllTold
  BY DEF Init, AllTold
<1>2. ASSUME TypeOK, AnswerInv, FlagsInv, FlagsInv', AllTold, [Next]_vars PROVE AllTold'
  <2>1. Consistent
    BY <1>2 DEF AnswerInv, FlagsInv
  <2>2. CASE UNCHANGED vars
    BY <1>2, <2>2 DEF vars, links, AllTold
  <2>3. CASE Next /\ \E c \in Conns : OnDisconnect(c)
    <3>1. PICK c \in Conns : OnDisconnect(c)
      BY <2>3
    <3>2. c \notin registered' /\ registered' \subseteq registered /\ registered \subseteq Conns
      BY <1>2, <3>1, EndForgets DEF OnDisconnect, FlagsInv, TypeOK
    <3> QED BY <1>2, <3>1, <3>2, EndForgets DEF AllTold
  <2>4. CASE Next /\ \A c \in Conns : ~OnDisconnect(c)
    <3>1. Grows
      BY <1>2, <2>4, StepWrites, WritesGrow
    <3>2. CASE UNCHANGED registered
      <4>1. \A d \in registered : d \in Conns /\ sent[d] \in Seq(Message)
        BY <1>2 DEF TypeOK
      <4> QED BY <1>2, <3>1, <3>2, <4>1, StillTold DEF AllTold, Grows
    <3> QED BY <1>2, <2>1, <2>4, <3>1, <3>2, StepEnters, EntersTold
  <2> QED BY <1>2, <2>2, <2>3, <2>4
<1>3. ASSUME TypeOK, AllTold PROVE ReplyBeforeRequest
  <2>1. ASSUME NEW c \in registered, NEW i \in DOMAIN sent[c], sent[c][i].kind = "request"
        PROVE  \E j \in 1..(i - 1) : sent[c][j] \in Accepting
    <3>1. sent[c] \in Seq(Message)
      BY <1>3 DEF TypeOK
    <3>2. i \in Nat /\ i >= 1 /\ Len(sent[c]) \in Nat
      BY <3>1
    <3>3. PICK j \in 1..Len(sent[c]) : sent[c][j] \in Accepting /\ \A k \in 1..j : sent[c][k].kind # "request"
      BY <1>3 DEF AllTold, Told
    <3>4. i \notin 1..j
      BY <2>1, <3>3
    <3>5. j \in 1..(i - 1)
      BY <3>2, <3>3, <3>4
    <3> QED BY <3>3, <3>5
  <2> QED BY <2>1 DEF ReplyBeforeRequest, Accepting
<1> QED BY <1>1, <1>2, <1>3, TypeCorrect, AnswersConsistent, FlagsAgree, PTL DEF Spec

-----------------------------------------------------------------------------
(***************************************************************************)
(* PrimaryHasPending.                                                      *)
(***************************************************************************)
HandedThen(c) == {r \in ReqIds : RequestMsg(r) \in ToSet(sent'[c])}

\* What was handed over stays handed over.
LEMMA StillHanded ==
  ASSUME TypeOK, Grows, NEW c \in Conns
  PROVE  Handed(c) \subseteq HandedThen(c)
<1>1. PICK x \in Seq(Message) : sent'[c] = sent[c] \o x
  BY DEF Grows
<1>2. ToSet(sent'[c]) = ToSet(sent[c]) \cup ToSet(x)
  BY <1>1, ToSetOfConcat DEF TypeOK
<1> QED BY <1>2 DEF Handed, HandedThen

\* What is written to an open connection is handed over.
LEMMA HandedByPut ==
  ASSUME TypeOK, NEW c \in Conns, sock[c] = "open", NEW ms \in Seq(Message), Put(c, ms),
         NEW r \in ReqIds, RequestMsg(r) \in ToSet(ms)
  PROVE  r \in HandedThen(c)
<1>1. sent[c] \in Seq(Message) /\ sent'[c] = sent[c] \o ms
  BY DEF Put, TypeOK
<1>2. ToSet(sent'[c]) = ToSet(sent[c]) \cup ToSet(ms)
  BY <1>1, ToSetOfConcat
<1> QED BY <1>2 DEF Handed, HandedThen

\* A repush hands over the queue.
LEMMA RepushWhole ==
  ASSUME TypeOK, NEW s \in Servers, NEW r \in ToSet(msgMap[s])
  PROVE  r \in ReqIds /\ RequestMsg(r) \in ToSet(Repush(s))
<1>1. msgMap[s] \in Seq(ReqIds)
  BY DEF TypeOK
<1>2. DOMAIN Repush(s) = DOMAIN msgMap[s]
  BY DEF Repush
<1>3. PICK i \in DOMAIN msgMap[s] : r = msgMap[s][i]
  BY DEF ToSet
<1> QED BY <1>1, <1>2, <1>3 DEF Repush, ToSet

\* A new primary is pushed the queue it finds; the others keep what they were handed.
LEMMA EntersPending ==
  ASSUME TypeOK, Consistent, Grows, PrimaryHasPending, NEW c \in Conns, Enters(c)
  PROVE  PrimaryHasPending'
<1>1. ASSUME NEW s \in Servers, idMap'[s] = idMap[s], idMap'[s] # NONE
      PROVE  ToSet(msgMap'[s]) \subseteq HandedThen(idMap'[s].socket)
  <2>1. idMap[s].socket \in Conns /\ UNCHANGED msgMap
    BY <1>1 DEF TypeOK, Records, Enters
  <2> QED BY <1>1, <2>1, StillHanded DEF PrimaryHasPending
<1>2. ASSUME NEW s \in Servers, idMap'[s] # idMap[s]
      PROVE  ToSet(msgMap'[s]) \subseteq HandedThen(idMap'[s].socket)
  <2>1. PICK ok \in Accepting, p \in MonitorPeers :
          AddConnection(c, p) /\ Put(c, <<ok>> \o Repush(p.id))
    BY <1>2 DEF Enters
  <2>2. p.id = s /\ idMap'[s].socket = c
    BY <1>2, <2>1, RecordFields DEF AddConnection, TypeOK
  <2>3. <<ok>> \in Seq(Message) /\ Repush(s) \in Seq(Message)
    BY RepushType, ReplyTypes, MessageTypes DEF Accepting
  <2>4. /\ <<ok>> \o Repush(s) \in Seq(Message)
        /\ ToSet(<<ok>> \o Repush(s)) = ToSet(<<ok>>) \cup ToSet(Repush(s))
    <3> DEFINE a == <<ok>>
               b == Repush(s)
    <3> HIDE DEF a, b
    <3>1. a \in Seq(Message) /\ b \in Seq(Message)
      BY <2>3 DEF a, b
    <3>2. a \o b \in Seq(Message) /\ ToSet(a \o b) = ToSet(a) \cup ToSet(b)
      BY <3>1, ConcatProperties, ToSetOfConcat
    <3> QED BY <3>2 DEF a, b
  <2>5. sock[c] = "open" /\ UNCHANGED msgMap
    BY DEF Enters, Greets
  <2> QED BY <2>1, <2>2, <2>4, <2>5, RepushWhole, HandedByPut
<1> QED BY <1>1, <1>2 DEF PrimaryHasPending, Handed, HandedThen

\* A new request is handed to the primary, if there is one.
LEMMA RequestPending ==
  ASSUME TypeOK, Grows, PrimaryLive, PrimaryHasPending, NEW s \in Servers, Request(s)
  PROVE  PrimaryHasPending'
<1>1. reqId \in ReqIds /\ UNCHANGED idMap
  BY NewRequestType DEF Request, tables
<1>2. /\ ToSet(msgMap'[s]) = ToSet(msgMap[s]) \cup {reqId}
      /\ \A q \in Servers \ {s} : msgMap'[q] = msgMap[q]
  BY <1>1, ToSetOfAppend DEF Request, TypeOK
<1>3. ASSUME NEW q \in Servers, idMap[q] # NONE
      PROVE  idMap[q].socket \in Conns /\ ToSet(msgMap[q]) \subseteq HandedThen(idMap[q].socket)
  <2>1. idMap[q].socket \in Conns
    BY <1>3 DEF TypeOK, Records
  <2> QED BY <1>3, <2>1, StillHanded DEF PrimaryHasPending
<1>4. ASSUME idMap[s] # NONE PROVE reqId \in HandedThen(idMap[s].socket)
  <2>1. idMap[s].socket \in Conns /\ sock[idMap[s].socket] = "open"
    BY <1>3, <1>4 DEF PrimaryLive
  <2>2. /\ <<RequestMsg(reqId)>> \in Seq(Message)
        /\ ToSet(<<RequestMsg(reqId)>>) = {RequestMsg(reqId)}
        /\ Put(idMap[s].socket, <<RequestMsg(reqId)>>)
    BY <1>1, <1>4, MessageTypes, ReplyTypes, ToSetOfFew DEF Request
  <2> QED BY <1>1, <2>1, <2>2, HandedByPut
<1> QED BY <1>1, <1>2, <1>3, <1>4 DEF PrimaryHasPending, Handed, HandedThen

\* An answer only takes out of a queue.
LEMMA ResponsePending ==
  ASSUME TypeOK, PrimaryHasPending, NEW c \in Conns, NEW r \in ReqIds, OnResponse(c, r)
  PROVE  PrimaryHasPending'
<1>1. UNCHANGED <<idMap, sent>>
  BY DEF OnResponse, tables
<1>2. ASSUME NEW s \in Servers PROVE ToSet(msgMap'[s]) \subseteq ToSet(msgMap[s])
  <2>1. msgMap'[s] = msgMap[s] \/ msgMap'[s] = RemoveFirst(msgMap[s], r)
    BY DEF OnResponse, TypeOK
  <2> QED BY <2>1, ToSetOfRemoveFirst DEF TypeOK
<1> QED BY <1>1, <1>2 DEF PrimaryHasPending, Handed, HandedThen

\* The connection that ends is nobody's primary afterwards.
LEMMA EndPending ==
  ASSUME TypeOK, PrimaryHasPending, PrimaryLive', NEW c \in Conns, OnDisconnect(c)
  PROVE  PrimaryHasPending'
<1>1. /\ sock'[c] = "closed" /\ \A d \in Conns \ {c} : sent'[d] = sent[d]
      /\ UNCHANGED msgMap
  BY EndForgets DEF requests
<1>2. ASSUME NEW s \in Servers, idMap'[s] # NONE PROVE idMap'[s] = idMap[s]
  BY <1>2 DEF OnDisconnect, RemoveMonitor, RemovePrimary, RemoveSlave, RemoveClient, tables, TypeOK
<1>3. ASSUME NEW s \in Servers, idMap'[s] # NONE
      PROVE  ToSet(msgMap'[s]) \subseteq HandedThen(idMap'[s].socket)
  <2>1. idMap[s].socket \in Conns /\ sock'[idMap'[s].socket] = "open"
    BY <1>2, <1>3 DEF TypeOK, Records, PrimaryLive
  <2>2. idMap'[s].socket # c
    BY <1>1, <2>1
  <2> QED BY <1>1, <1>2, <1>3, <2>1, <2>2 DEF PrimaryHasPending, Handed, HandedThen
<1> QED BY <1>3 DEF PrimaryHasPending, Handed, HandedThen

\* QoS: whatever connections a server opens and loses, its primary has been handed every
\* request of the server that is pending.
THEOREM PrimariesHavePending ==
  ASSUME ~AsyncAuth, NoInfo \notin Addrs
  PROVE  Spec => []PrimaryHasPending
<1>1. Init => PrimaryHasPending
  BY DEF Init, PrimaryHasPending
<1>2. ASSUME TypeOK, AnswerInv, FlagsInv, PrimaryLive, PrimaryLive', PrimaryHasPending, [Next]_vars
      PROVE  PrimaryHasPending'
  <2>1. Consistent
    BY <1>2 DEF AnswerInv, FlagsInv
  <2>2. CASE UNCHANGED vars
    BY <1>2, <2>2 DEF vars, tables, requests, PrimaryHasPending, Handed
  <2>3. CASE Next /\ \E c \in Conns : OnDisconnect(c)
    BY <1>2, <2>3, EndPending
  <2>4. CASE Next /\ \A c \in Conns : ~OnDisconnect(c)
    <3>1. Grows
      BY <1>2, <2>4, StepWrites, WritesGrow
    <3>2. CASE UNCHANGED <<idMap, msgMap>>
      <4>1. \A s \in Servers : idMap[s] # NONE => idMap[s].socket \in Conns
        BY <1>2 DEF TypeOK, Records
      <4> QED BY <1>2, <3>1, <3>2, <4>1, StillHanded DEF PrimaryHasPending, Handed, HandedThen
    <3> QED BY <1>2, <2>1, <2>4, <3>1, <3>2, StepEnters, EntersPending, RequestPending, ResponsePending
  <2> QED BY <1>2, <2>2, <2>3, <2>4
<1> QED BY <1>1, <1>2, TypeCorrect, AnswersConsistent, FlagsAgree, PrimariesLive, PTL DEF Spec

-----------------------------------------------------------------------------
(***************************************************************************)
(* BroadcastOnce.  A broadcast goes through one table and writes to each   *)
(* record in it, so a connection gets one message per record it has there. *)
(* An open connection that has a record is registered as what the record   *)
(* says (HeldKnown); a late auth function registers one that has ended,    *)
(* which is written nothing.                                               *)
(***************************************************************************)
Notices == {"notify", "command"}
Unasked == Notices \cup {"client"}

\* An open connection with a record is registered, as a monitor or as a client.
HeldKnown ==
  \A c \in Conns : sock[c] = "open" =>
    /\ Holds(c) => c \in registered /\ peer[c] \in MonitorPeers
    /\ \A u \in Users : clients[u] = c => c \in registered /\ peer[c] \in ClientPeers

\* Nothing that HeldKnown speaks of gets more.
LEMMA SameHeld ==
  ASSUME HeldKnown, UNCHANGED <<tables, sock, peer, registered>>
  PROVE  HeldKnown'
BY DEF HeldKnown, Holds, HoldsPrimary, HoldsSlave, tables

\* A connection that is used again has no record.
LEMMA ConnectionHeld ==
  ASSUME TypeOK, HeldKnown, NEW c \in Conns, Connection(c)
  PROVE  HeldKnown'
<1>1. UNCHANGED <<tables, registered>> /\ \A d \in Conns \ {c} : peer'[d] = peer[d] /\ sock'[d] = sock[d]
  BY DEF Connection, TypeOK
<1>2. ~HoldsPrimary(c) /\ \A u \in Users : clients[u] # c
  BY DEF Connection, Unused, Sockets, Primaries, HoldsPrimary
<1>3. ASSUME NEW s \in Servers PROVE ~HoldsSlave(c, s)
  <2>1. slaveMap[s] \in Seq(Records) /\ DOMAIN slaveMap[s] = 1..Len(slaveMap[s])
    BY DEF TypeOK
  <2> QED BY <2>1 DEF Connection, Unused, Sockets, Slaves, ToSet, HoldsSlave
<1>4. \A d \in Conns : Holds(d)' <=> Holds(d)
  BY <1>1 DEF tables, Holds, HoldsPrimary, HoldsSlave
<1> QED BY <1>1, <1>2, <1>3, <1>4 DEF HeldKnown, Holds, tables

\* A connection gets a record of what it announces, or of what it announced before its
\* auth function answered; it had none.
LEMMA EnteredHeld ==
  ASSUME TypeOK, RegistryInv, HeldKnown, NEW c \in Conns, NEW p, UNCHANGED sock,
         (peer[c] = NONE /\ sock[c] = "open") \/ (c \in authing /\ peer[c] = p),
         peer' = [peer EXCEPT ![c] = p],
         registered \subseteq registered',
         \/ UNCHANGED tables
         \/ p \in MonitorPeers /\ AddConnection(c, p) /\ c \in registered'
         \/ /\ p \in ClientPeers /\ c \in registered'
            /\ clients' = [clients EXCEPT ![p.id] = c]
            /\ UNCHANGED <<idMap, typeMap, slaveMap>>
  PROVE  HeldKnown'
<1>1. peer'[c] = p /\ \A d \in Conns \ {c} : peer'[d] = peer[d]
  BY DEF TypeOK
<1>2. ~Holds(c)
  BY DEF RegistryInv, RecordsKnown
<1>3. \/ peer[c] = p
      \/ \A u \in Users : clients[u] # c
  BY NoPeerAssumption DEF HeldKnown, Peers
<1>4. CASE UNCHANGED tables
  <2>1. \A d \in Conns : Holds(d)' <=> Holds(d)
    BY <1>4 DEF tables, Holds, HoldsPrimary, HoldsSlave
  <2> QED BY <1>1, <1>2, <1>3, <1>4, <2>1 DEF HeldKnown, tables
<1>5. CASE p \in MonitorPeers /\ AddConnection(c, p) /\ c \in registered'
  <2>1. \A d \in Conns \ {c} : Holds(d)' => Holds(d)
    BY <1>2, <1>5, AddedApart DEF RegistryInv, TablesInv
  <2>2. UNCHANGED clients
    BY <1>5 DEF AddConnection
  <2> QED BY <1>1, <1>3, <1>5, <2>1, <2>2 DEF HeldKnown
<1>6. CASE /\ p \in ClientPeers /\ c \in registered'
           /\ clients' = [clients EXCEPT ![p.id] = c]
           /\ UNCHANGED <<idMap, typeMap, slaveMap>>
  <2>1. \A d \in Conns : Holds(d)' <=> Holds(d)
    BY <1>6 DEF Holds, HoldsPrimary, HoldsSlave
  <2>2. \A d \in Conns \ {c}, u \in Users : clients'[u] = d => clients[u] = d
    BY <1>6 DEF TypeOK
  <2> QED BY <1>1, <1>2, <1>6, <2>1, <2>2 DEF HeldKnown
<1> QED BY <1>4, <1>5, <1>6

\* A peer announces itself, or is answered by its auth function.
LEMMA HandshakeHeld ==
  ASSUME TypeOK, RegistryInv, HeldKnown, NEW c \in Conns, Handshake(c)
  PROVE  HeldKnown'
<1>1. CASE Connection(c)
  BY <1>1, ConnectionHeld
<1>2. ASSUME NEW p \in MonitorPeers, Greets(c), RegisterMonitor(c, p) \/ OnReconnect(c, p)
      PROVE  HeldKnown'
  BY <1>2, EnteredHeld DEF Greets, RegisterMonitor, OnReconnect
<1>3. ASSUME NEW p \in ClientPeers, Greets(c), RegisterClient(c, p)
      PROVE  HeldKnown'
  <2>1. /\ peer' = [peer EXCEPT ![c] = p] /\ UNCHANGED sock
        /\ peer[c] = NONE /\ sock[c] = "open"
    BY <1>3 DEF Greets, RegisterClient
  <2>2. \/ UNCHANGED <<tables, registered>>
        \/ /\ registered' = registered \cup {c}
           /\ clients' = [clients EXCEPT ![p.id] = c]
           /\ UNCHANGED <<idMap, typeMap, slaveMap>>
    BY <1>3 DEF RegisterClient, AcceptClient, RefuseClient
  <2>3. /\ registered \subseteq registered'
        /\ \/ UNCHANGED tables
           \/ /\ p \in ClientPeers /\ c \in registered'
              /\ clients' = [clients EXCEPT ![p.id] = c]
              /\ UNCHANGED <<idMap, typeMap, slaveMap>>
    BY <2>2
  <2> QED BY <2>1, <2>3, EnteredHeld
<1>4. CASE Greets(c) /\ RegisterOther(c)
  BY <1>4, EnteredHeld DEF Greets, RegisterOther
<1>5. ASSUME c \in authing, UNCHANGED <<sock, peer>>,
             \/ UNCHANGED <<tables, registered>>
             \/ /\ registered' = registered \cup {c}
                /\ \/ peer[c] \in MonitorPeers /\ AddConnection(c, peer[c])
                   \/ /\ peer[c] \in ClientPeers
                      /\ clients' = [clients EXCEPT ![peer[c].id] = c]
                      /\ UNCHANGED <<idMap, typeMap, slaveMap>>
      PROVE  HeldKnown'
  <2>1. peer' = [peer EXCEPT ![c] = peer[c]]
    BY <1>5 DEF TypeOK
  <2>2. registered \subseteq registered' /\ (registered' = registered \cup {c} => c \in registered')
    BY <1>5
  <2> QED BY <1>5, <2>1, <2>2, EnteredHeld
<1>6. CASE AuthServerDone(c)
  BY <1>5, <1>6 DEF AuthServerDone
<1>7. CASE AuthUserDone(c)
  BY <1>5, <1>7 DEF AuthUserDone, AcceptClient
<1> QED BY <1>1, <1>2, <1>3, <1>4, <1>6, <1>7 DEF Handshake

\* The connection that ends is closed; the records of the others stay or go.
LEMMA EndHeld ==
  ASSUME TypeOK, RegistryInv, HeldKnown, NEW c \in Conns, OnDisconnect(c)
  PROVE  HeldKnown'
<1>1. /\ sock'[c] = "closed"
      /\ \A d \in Conns \ {c} : /\ peer'[d] = peer[d] /\ sock'[d] = sock[d]
                                /\ d \in registered => d \in registered'
  BY DEF OnDisconnect, TypeOK
<1>2. \A d \in Conns : Holds(d)' => Holds(d)
  <2>1. CASE UNCHANGED monitorTables
    BY <2>1, SameTables DEF RegistryInv
  <2>2. CASE peer[c] \in MonitorPeers /\ RemoveMonitor(peer[c].id, peer[c].addr)
    BY <2>2, MonitorRemoved DEF RegistryInv, MonitorPeers
  <2> QED BY <2>1, <2>2 DEF OnDisconnect, RemoveClient, tables, monitorTables
<1>3. \A d \in Conns, u \in Users : clients'[u] = d => clients[u] = d
  BY NoneAssumption DEF OnDisconnect, RemoveMonitor, RemovePrimary, RemoveSlave, RemoveClient, tables, TypeOK
<1> QED BY <1>1, <1>2, <1>3 DEF HeldKnown

\* The connections that have records are registered as what the records say.
THEOREM HeldAreKnown == Spec => []HeldKnown
<1>1. Init => HeldKnown
  BY DEF Init, HeldKnown
<1>2. ASSUME TypeOK, RegistryInv, HeldKnown, [Next]_vars PROVE HeldKnown'
  <2>1. CASE UNCHANGED vars
    BY <1>2, <2>1, SameHeld DEF vars, links
  <2>2. CASE Listen \/ Close
    BY <1>2, <2>2, SameHeld DEF Listen, Close, links
  <2>3. CASE Call
    BY <1>2, <2>3, CallQuiet, SameHeld
  <2>4. ASSUME NEW c \in Conns, Handshake(c) PROVE HeldKnown'
    BY <1>2, <2>4, HandshakeHeld
  <2>5. ASSUME NEW c \in Conns, Traffic(c) PROVE HeldKnown'
    <3>1. CASE OnDisconnect(c)
      BY <1>2, <3>1, EndHeld
    <3>2. CASE ~OnDisconnect(c)
      BY <1>2, <2>5, <3>2, TrafficQuiet, SameHeld
    <3> QED BY <3>1, <3>2
  <2> QED BY <1>2, <2>1, <2>2, <2>3, <2>4, <2>5 DEF Next
<1> QED BY <1>1, <1>2, TypeCorrect, RegistryAgrees, PTL DEF Spec

-----------------------------------------------------------------------------
Number(q, kinds) == Cardinality({i \in DOMAIN q : q[i].kind \in kinds})

\* What is written behind a list counts for itself.
LEMMA NumberOfMore ==
  ASSUME NEW q \in Seq(Message), NEW kinds
  PROVE  /\ Number(q, kinds) \in Nat
         /\ \A x \in Seq(Message) :
              (\A m \in ToSet(x) : m.kind \notin kinds) => Number(q \o x, kinds) = Number(q, kinds)
         /\ \A m \in Message : m.kind \in kinds => Number(q \o <<m>>, kinds) = Number(q, kinds) + 1
<1> DEFINE Places(l) == {i \in DOMAIN l : l[i].kind \in kinds}
<1>1. IsFiniteSet(Places(q)) /\ Cardinality(Places(q)) \in Nat /\ Len(q) + 1 \notin Places(q)
  <2>1. Len(q) \in Nat /\ DOMAIN q = 1..Len(q)
    OBVIOUS
  <2>2. IsFiniteSet(1..Len(q)) /\ Places(q) \subseteq 1..Len(q) /\ Len(q) + 1 \notin 1..Len(q)
    BY <2>1, FS_Interval
  <2> QED BY <2>2, FS_Subset, FS_CardinalityType
<1>2. ASSUME NEW x \in Seq(Message), \A m \in ToSet(x) : m.kind \notin kinds
      PROVE  Places(q \o x) = Places(q)
  <2> DEFINE l == q \o x
  <2>1. /\ l \in Seq(Message) /\ Len(l) = Len(q) + Len(x) /\ Len(q) \in Nat /\ Len(x) \in Nat
        /\ \A i \in 1..Len(q) : l[i] = q[i]
        /\ \A i \in 1..Len(l) :
             \/ i \in 1..Len(q) /\ l[i] = q[i]
             \/ i - Len(q) \in 1..Len(x) /\ l[i] = x[i - Len(q)] /\ x[i - Len(q)] \in ToSet(x)
    BY InARow
  <2> HIDE DEF l
  <2>2. DOMAIN l = 1..Len(l) /\ DOMAIN q = 1..Len(q) /\ 1..Len(q) \subseteq 1..Len(l)
    BY <2>1
  <2>3. Places(l) = Places(q)
    BY <1>2, <2>1, <2>2
  <2> QED BY <2>3 DEF l
<1>3. ASSUME NEW m \in Message, m.kind \in kinds
      PROVE  Places(q \o <<m>>) = Places(q) \cup {Len(q) + 1}
  <2> DEFINE l == q \o <<m>>
  <2>1. /\ Len(q) \in Nat /\ Len(l) = Len(q) + 1 /\ l \in Seq(Message)
        /\ \A i \in 1..Len(q) : l[i] = q[i]
        /\ l[Len(q) + 1] = m
    OBVIOUS
  <2> HIDE DEF l
  <2>2. DOMAIN l = 1..Len(l) /\ DOMAIN q = 1..Len(q) /\ 1..Len(l) = 1..Len(q) \cup {Len(q) + 1}
    BY <2>1
  <2>3. Places(l) = Places(q) \cup {Len(q) + 1}
    BY <1>3, <2>1, <2>2
  <2> QED BY <2>3 DEF l
<1> HIDE DEF Places
<1>4. Cardinality(Places(q) \cup {Len(q) + 1}) = Cardinality(Places(q)) + 1
  BY <1>1, FS_AddElement
<1>5. \A l : Number(l, kinds) = Cardinality(Places(l))
  BY DEF Number, Places
<1> QED BY <1>1, <1>2, <1>3, <1>4, <1>5

\* A set without two elements.
LEMMA AtMostOne ==
  ASSUME NEW S, \A x, y \in S : x = y
  PROVE  Cardinality(S) = IF S = {} THEN 0 ELSE 1
<1>1. CASE S = {}
  BY <1>1, FS_EmptySet
<1>2. ASSUME NEW x \in S PROVE Cardinality(S) = 1
  <2>1. S = {x}
    OBVIOUS
  <2> QED BY <2>1, FS_Singleton
<1> QED BY <1>1, <1>2

\* Every connection at most once, and none without a record.
Sparing(times) ==
  /\ times \in [Conns -> 0..1]
  /\ \A c \in Conns : times[c] # 0 => Holds(c)

\* No connection is the primary of two servers.
LEMMA OnePrimary ==
  ASSUME PrimaryKnown, NEW s \in Servers, NEW q \in Servers, idMap[s] # NONE, idMap[q] # NONE,
         idMap[s].socket = idMap[q].socket
  PROVE  s = q
BY DEF PrimaryKnown

\* The table of primaries, the list of a type and the slaves of a server.
LEMMA TablesSparing ==
  ASSUME TypeOK, Consistent, RegistryInv
  PROVE  /\ Sparing(PerKey(idMap))
         /\ \A t \in Types : Sparing(PerElement(typeMap[t]))
         /\ \A s \in Servers : Sparing(PerElement(slaveMap[s]))
<1>1. DOMAIN idMap = Servers
  BY DEF TypeOK
<1>2. Sparing(PerKey(idMap))
  <2>1. ASSUME NEW c \in Conns
        PROVE  PerKey(idMap)[c] \in 0..1 /\ (PerKey(idMap)[c] # 0 => Holds(c))
    <3> DEFINE S == {k \in DOMAIN idMap : idMap[k] # NONE /\ idMap[k].socket = c}
    <3>1. PerKey(idMap)[c] = Cardinality(S)
      BY DEF PerKey
    <3>2. \A x, y \in S : x = y
      BY <1>1, OnePrimary DEF Consistent
    <3>3. S # {} => Holds(c)
      BY <1>1 DEF Holds, HoldsPrimary
    <3> HIDE DEF S
    <3>4. Cardinality(S) = IF S = {} THEN 0 ELSE 1
      BY <3>2, AtMostOne
    <3> QED BY <3>1, <3>3, <3>4
  <2> QED BY <2>1, PerKeyType DEF Sparing
<1>3. ASSUME NEW t \in Types PROVE Sparing(PerElement(typeMap[t]))
  <2>1. typeMap[t] \in Seq(Records) /\ DOMAIN typeMap[t] = 1..Len(typeMap[t])
    BY DEF TypeOK
  <2>2. \A i \in 1..Len(typeMap[t]) :
          /\ typeMap[t][i].id \in Servers /\ idMap[typeMap[t][i].id] = typeMap[t][i]
          /\ typeMap[t][i] # NONE
    <3>1. \A r \in Records : r.id \in Servers /\ r # NONE
      BY NoRecordAssumption DEF Records
    <3>2. \A i \in 1..Len(typeMap[t]) : typeMap[t][i] \in Records
      BY <2>1
    <3> QED BY <3>1, <3>2 DEF RegistryInv, TablesInv, ByType
  <2>3. ASSUME NEW c \in Conns
        PROVE  PerElement(typeMap[t])[c] \in 0..1 /\ (PerElement(typeMap[t])[c] # 0 => Holds(c))
    <3> DEFINE S == {i \in DOMAIN typeMap[t] : typeMap[t][i].socket = c}
    <3>1. PerElement(typeMap[t])[c] = Cardinality(S)
      BY DEF PerElement
    <3>2. ASSUME NEW x \in S, NEW y \in S PROVE x = y
      <4>1. typeMap[t][x].id = typeMap[t][y].id
        BY <2>1, <2>2, OnePrimary DEF Consistent
      <4> QED BY <2>1, <4>1 DEF RegistryInv, TablesInv, ByType
    <3>3. S # {} => Holds(c)
      BY <2>1, <2>2 DEF Holds, HoldsPrimary
    <3> HIDE DEF S
    <3>4. Cardinality(S) = IF S = {} THEN 0 ELSE 1
      BY <3>2, AtMostOne
    <3> QED BY <3>1, <3>3, <3>4
  <2> QED BY <2>1, <2>3, PerElementType DEF Sparing
<1>4. ASSUME NEW s \in Servers PROVE Sparing(PerElement(slaveMap[s]))
  <2>1. slaveMap[s] \in Seq(Records) /\ DOMAIN slaveMap[s] = 1..Len(slaveMap[s])
    BY DEF TypeOK
  <2>2. ASSUME NEW c \in Conns
        PROVE  PerElement(slaveMap[s])[c] \in 0..1 /\ (PerElement(slaveMap[s])[c] # 0 => Holds(c))
    <3> DEFINE S == {i \in DOMAIN slaveMap[s] : slaveMap[s][i].socket = c}
    <3>1. PerElement(slaveMap[s])[c] = Cardinality(S)
      BY DEF PerElement
    <3>2. \A x, y \in S : x = y
      BY <2>1 DEF RegistryInv, TablesInv, Apart
    <3>3. S # {} => Holds(c)
      BY <2>1 DEF Holds, HoldsSlave
    <3> HIDE DEF S
    <3>4. Cardinality(S) = IF S = {} THEN 0 ELSE 1
      BY <3>2, AtMostOne
    <3> QED BY <3>1, <3>3, <3>4
  <2> QED BY <2>1, <2>2, PerElementType DEF Sparing
<1> QED BY <1>2, <1>3, <1>4

\* Messages without a notification among them.
Unnoticed(ms) == ms \in Seq(Message) /\ \A m \in ToSet(ms) : m.kind \notin Unasked

\* What a step writes, unless it ends a connection: no notification; one, to a
\* connection with a record; a broadcast over a table.
NoticeWritten ==
  \/ UNCHANGED sent
  \/ \E c \in Conns : \E ms : Unnoticed(ms) /\ Put(c, ms)
  \/ \E c \in Conns : Holds(c) /\ Put(c, <<Plain("notify")>>)
  \/ \E c \in Conns, u \in Users : clients[u] = c /\ Put(c, <<Plain("client")>>)
  \/ \E times : \E kind \in Notices : Sparing(times) /\ Broadcast(times, Plain(kind))

\* Replies, answers and queues are no notifications.
LEMMA UnnoticedReplies ==
  ASSUME TypeOK
  PROVE  /\ Unnoticed(<<>>) /\ Unnoticed(<<Disconnect>>) /\ Unnoticed(<<Plain("response")>>)
         /\ \A code \in {PRO_OK, PRO_FAIL} : Unnoticed(<<Register(code)>>) /\ Unnoticed(<<ReconnectOk(code)>>)
         /\ \A r \in ReqIds : Unnoticed(<<RequestMsg(r)>>)
         /\ \A s \in Servers : Unnoticed(Repush(s))
         /\ \A a, b : Unnoticed(a) /\ Unnoticed(b) => Unnoticed(a \o b)
         /\ Unnoticed(<<Register(PRO_FAIL), Disconnect>>)
<1>1. Unnoticed(<<>>)
  BY ReplyTypes, ToSetOfFew DEF Unnoticed
<1>2. ASSUME NEW m \in Message, m.kind \notin Unasked PROVE Unnoticed(<<m>>)
  <2>1. ToSet(<<m>>) = {m} /\ <<m>> \in Seq(Message)
    BY ReplyTypes, ToSetOfFew
  <2> QED BY <1>2, <2>1 DEF Unnoticed
<1>3. /\ Disconnect.kind \notin Unasked /\ Plain("response").kind \notin Unasked
      /\ \A n : Register(n).kind \notin Unasked /\ ReconnectOk(n).kind \notin Unasked
      /\ \A r : RequestMsg(r).kind \notin Unasked
  BY DEF Unasked, Notices, Disconnect, Plain, Register, ReconnectOk, RequestMsg
<1>4. Plain("response") \in Message
  BY MessageTypes DEF Kinds
<1>5. ASSUME NEW s \in Servers PROVE Unnoticed(Repush(s))
  BY <1>3, RepushType, RepushContents DEF Unnoticed
<1>6. ASSUME NEW a, NEW b, Unnoticed(a), Unnoticed(b) PROVE Unnoticed(a \o b)
  BY <1>6, ToSetOfConcat, ConcatProperties DEF Unnoticed
<1>7. Unnoticed(<<Register(PRO_FAIL), Disconnect>>)
  BY <1>3, MessageTypes, ReplyTypes, ToSetOfFew DEF Unnoticed
<1> QED BY <1>1, <1>2, <1>3, <1>4, <1>5, <1>6, <1>7, MessageTypes

\* A peer that announces itself is written replies and its queue.
LEMMA HandshakeNotices ==
  ASSUME TypeOK, NEW c \in Conns, Handshake(c)
  PROVE  NoticeWritten
<1>1. ASSUME NEW p \in MonitorPeers, RegisterMonitor(c, p) \/ OnReconnect(c, p) PROVE NoticeWritten
  <2>1. Unnoticed(Repush(p.id))
    BY UnnoticedReplies DEF MonitorPeers
  <2> QED BY <1>1, <2>1, UnnoticedReplies DEF RegisterMonitor, OnReconnect, NoticeWritten
<1>2. ASSUME NEW p \in ClientPeers, RegisterClient(c, p) PROVE NoticeWritten
  <2>1. CASE RefuseClient(c)
    BY <2>1, UnnoticedReplies DEF RefuseClient, NoticeWritten
  <2>2. CASE AcceptClient(c, p)
    BY <2>2, UnnoticedReplies DEF AcceptClient, NoticeWritten
  <2> QED BY <1>2, <2>1, <2>2 DEF RegisterClient, NoticeWritten
<1>3. CASE RegisterOther(c) \/ AuthServerDone(c) \/ AuthUserDone(c)
  BY <1>3, UnnoticedReplies DEF RegisterOther, AuthServerDone, AuthUserDone, AcceptClient, NoticeWritten
<1>4. CASE Connection(c)
  BY <1>4 DEF Connection, NoticeWritten
<1> QED BY <1>1, <1>2, <1>3, <1>4 DEF Handshake

\* A peer that speaks is written no notification.
LEMMA TrafficNotices ==
  ASSUME TypeOK, NEW c \in Conns, Traffic(c), ~OnDisconnect(c)
  PROVE  NoticeWritten
<1>1. CASE Kick(c) \/ Answer(c)
  BY <1>1, UnnoticedReplies DEF Kick, Answer, NoticeWritten
<1>2. CASE OnAsk(c) \/ \E r \in Handed(c) : OnResponse(c, r)
  BY <1>2 DEF OnAsk, OnResponse, NoticeWritten
<1> QED BY <1>1, <1>2 DEF Traffic

\* The API writes to connections that have a record.
LEMMA CallNotices ==
  ASSUME TypeOK, Consistent, RegistryInv, Call
  PROVE  NoticeWritten
<1>1. \A s \in Servers : idMap[s] # NONE => idMap[s].socket \in Conns /\ Holds(idMap[s].socket)
  BY DEF TypeOK, Records, Holds, HoldsPrimary
<1>2. \A u \in Users : clients[u] # NONE => clients[u] \in Conns
  BY DEF TypeOK
<1>3. ASSUME NEW s \in Servers, NewRequest(s) PROVE Unnoticed(<<RequestMsg(reqId)>>)
  BY <1>3, NewRequestType, UnnoticedReplies
<1>4. CASE \E s \in Servers : Request(s)
  BY <1>1, <1>3, <1>4 DEF Request, NoticeWritten
<1>5. ASSUME NEW s \in Servers, NEW a \in Addrs, RequestServer(s, a) PROVE NoticeWritten
  BY <1>1, <1>3, <1>5, ComparedPrimary DEF RequestServer, NoticeWritten
<1>6. ASSUME NEW s \in Servers, NEW a \in Addrs, NotifyByServer(s, a) PROVE NoticeWritten
  BY <1>1, <1>6, ComparedPrimary DEF NotifyByServer, NoticeWritten
<1>7. CASE \E s \in Servers : NotifyById(s)
  BY <1>1, <1>7 DEF NotifyById, NoticeWritten
<1>8. CASE \E u \in Users : NotifyClient(u)
  BY <1>2, <1>8 DEF NotifyClient, NoticeWritten
<1>9. "notify" \in Notices /\ "command" \in Notices
  BY DEF Notices
<1>10. CASE \E s \in Servers : NotifySlavesById(s)
  BY <1>9, <1>10, TablesSparing DEF NotifySlavesById, NoticeWritten
<1>11. CASE \E t \in Types : NotifyByType(t)
  BY <1>9, <1>11, TablesSparing DEF NotifyByType, NoticeWritten
<1>12. CASE NotifyAll \/ NotifyCommand
  BY <1>9, <1>12, TablesSparing DEF NotifyAll, NotifyCommand, NoticeWritten
<1> QED BY <1>4, <1>5, <1>6, <1>7, <1>8, <1>10, <1>11, <1>12 DEF Call

\* What a step does to the numbers of notifications of a connection.
Noted(c, kinds) == Number(sent'[c], kinds)

NotedRightly(c) ==
  /\ Noted(c, Notices) > Number(sent[c], Notices) =>
       /\ Noted(c, Notices) = Number(sent[c], Notices) + 1
       /\ c \in registered /\ peer[c].kind = "monitor"
  /\ Noted(c, {"client"}) > Number(sent[c], {"client"}) => c \in registered /\ peer[c].kind = "client"

\* Nothing new, or one message that is for such a connection.
LEMMA NotedByOne ==
  ASSUME TypeOK, HeldKnown, NEW c \in Conns,
         \/ sent'[c] = sent[c]
         \/ \E ms : Unnoticed(ms) /\ sent'[c] = sent[c] \o ms
         \/ \E kind \in Notices : sock[c] = "open" /\ Holds(c) /\ sent'[c] = sent[c] \o <<Plain(kind)>>
         \/ /\ sock[c] = "open" /\ \E u \in Users : clients[u] = c
            /\ sent'[c] = sent[c] \o <<Plain("client")>>
  PROVE  NotedRightly(c)
<1>1. sent[c] \in Seq(Message) /\ \A kinds : Number(sent[c], kinds) \in Nat
  BY NumberOfMore DEF TypeOK
<1>2. CASE sent'[c] = sent[c]
  BY <1>1, <1>2 DEF NotedRightly, Noted
<1>3. ASSUME NEW ms, Unnoticed(ms), sent'[c] = sent[c] \o ms PROVE NotedRightly(c)
  <2>1. \A m \in ToSet(ms) : m.kind \notin Notices /\ m.kind \notin {"client"}
    BY <1>3 DEF Unnoticed, Unasked
  <2>2. Noted(c, Notices) = Number(sent[c], Notices)
    BY <1>1, <1>3, <2>1, NumberOfMore DEF Noted, Unnoticed
  <2>3. Noted(c, {"client"}) = Number(sent[c], {"client"})
    BY <1>1, <1>3, <2>1, NumberOfMore DEF Noted, Unnoticed
  <2> QED BY <1>1, <2>2, <2>3 DEF NotedRightly
<1>4. \A m \in Message : ToSet(<<m>>) = {m} /\ <<m>> \in Seq(Message)
  BY ReplyTypes, ToSetOfFew
<1>5. ASSUME NEW kind \in Notices, sock[c] = "open", Holds(c), sent'[c] = sent[c] \o <<Plain(kind)>>
      PROVE  NotedRightly(c)
  <2>1. Plain(kind) \in Message /\ Plain(kind).kind \in Notices /\ Plain(kind).kind \notin {"client"}
    BY MessageTypes, NotRequests DEF Notices, Kinds
  <2>2. Noted(c, Notices) = Number(sent[c], Notices) + 1
    BY <1>1, <1>5, <2>1, NumberOfMore DEF Noted
  <2>3. Noted(c, {"client"}) = Number(sent[c], {"client"})
    <3>1. /\ <<Plain(kind)>> \in Seq(Message)
          /\ \A m \in ToSet(<<Plain(kind)>>) : m.kind \notin {"client"}
      BY <1>4, <2>1
    <3> QED BY <1>1, <1>5, <3>1, NumberOfMore DEF Noted
  <2>4. c \in registered /\ peer[c].kind = "monitor"
    BY <1>5 DEF HeldKnown, MonitorPeers
  <2> QED BY <1>1, <2>2, <2>3, <2>4 DEF NotedRightly
<1>6. ASSUME NEW u \in Users, sock[c] = "open", clients[u] = c, sent'[c] = sent[c] \o <<Plain("client")>>
      PROVE  NotedRightly(c)
  <2>1. Plain("client") \in Message /\ Plain("client").kind \notin Notices
    BY MessageTypes, NotRequests DEF Notices, Kinds
  <2>2. Noted(c, Notices) = Number(sent[c], Notices)
    <3>1. /\ <<Plain("client")>> \in Seq(Message)
          /\ \A m \in ToSet(<<Plain("client")>>) : m.kind \notin Notices
      BY <1>4, <2>1
    <3> QED BY <1>1, <1>6, <3>1, NumberOfMore DEF Noted
  <2>3. c \in registered /\ peer[c].kind = "client"
    BY <1>6 DEF HeldKnown, ClientPeers
  <2> QED BY <1>1, <2>2, <2>3 DEF NotedRightly
<1> QED BY <1>2, <1>3, <1>5, <1>6

\* What a step writes reaches a connection once, if it is for it.
LEMMA NoticesRight ==
  ASSUME TypeOK, HeldKnown, NoticeWritten, NEW c \in Conns
  PROVE  NotedRightly(c)
<1>1. sent[c] \in Seq(Message) /\ sent[c] = sent[c] \o <<>>
  BY ConcatEmptySeq DEF TypeOK
<1>2. \A d, ms : Put(d, ms) => sent'[c] = sent[c] \/ (d = c /\ sock[c] = "open" /\ sent'[c] = sent[c] \o ms)
  BY DEF Put, TypeOK
<1>3. ASSUME NEW times, NEW kind \in Notices, Sparing(times), Broadcast(times, Plain(kind))
      PROVE  \/ sent'[c] = sent[c]
             \/ sock[c] = "open" /\ Holds(c) /\ sent'[c] = sent[c] \o <<Plain(kind)>>
  <2>1. times[c] = 0 \/ (times[c] = 1 /\ Holds(c))
    BY <1>3 DEF Sparing
  <2>2. sent'[c] = IF sock[c] = "open" THEN sent[c] \o [i \in 1..times[c] |-> Plain(kind)] ELSE sent[c]
    BY <1>3 DEF Broadcast
  <2>3. /\ \A m : [i \in 1..0 |-> m] = <<>>
        /\ \A m : [i \in 1..1 |-> m] = <<m>>
    OBVIOUS
  <2> QED BY <1>1, <2>1, <2>2, <2>3
<1>4. "notify" \in Notices
  BY DEF Notices
<1> QED BY <1>2, <1>3, <1>4, NotedByOne DEF NoticeWritten

\* A connection that ends has less than before.
LEMMA EndNotices ==
  ASSUME TypeOK, HeldKnown, NEW e \in Conns, OnDisconnect(e), NEW c \in Conns
  PROVE  NotedRightly(c)
<1>1. sent'[c] = sent[c] \/ sent'[c] = <<>>
  BY DEF OnDisconnect, TypeOK
<1>2. \A kinds : Number(sent[c], kinds) \in Nat /\ Number(<<>>, kinds) = 0
  <2>1. ASSUME NEW kinds PROVE {i \in DOMAIN <<>> : <<>>[i].kind \in kinds} = {}
    OBVIOUS
  <2>2. \A kinds : Number(<<>>, kinds) = 0
    BY <2>1, FS_EmptySet DEF Number
  <2>3. sent[c] \in Seq(Message)
    BY DEF TypeOK
  <2> QED BY <2>2, <2>3, NumberOfMore
<1>3. CASE sent'[c] = <<>>
  BY <1>2, <1>3 DEF NotedRightly, Noted
<1> QED BY <1>1, <1>3, NotedByOne

\* masterAgent.js: however many tables mention a server, a notification to all, to a type,
\* to slaves or to one, and a command, are written to a connection at most once, to a
\* registered monitor; what is for a client is written to a registered client.
THEOREM BroadcastsOnce == Spec => BroadcastOnce
<1>1. ASSUME TypeOK, AnswerInv, RegistryInv, HeldKnown, [Next]_vars, NEW c \in Conns
      PROVE  NotedRightly(c)
  <2>1. CASE UNCHANGED vars
    BY <1>1, <2>1, NotedByOne DEF vars
  <2>2. CASE Next /\ \E e \in Conns : OnDisconnect(e)
    BY <1>1, <2>2, EndNotices
  <2>3. CASE Next /\ \A e \in Conns : ~OnDisconnect(e)
    <3>1. Consistent
      BY <1>1, <2>3 DEF Next, AnswerInv
    <3>2. Listen \/ Close => NoticeWritten
      BY DEF Listen, Close, NoticeWritten
    <3>3. NoticeWritten
      BY <1>1, <2>3, <3>1, <3>2, HandshakeNotices, TrafficNotices, CallNotices DEF Next
    <3> QED BY <1>1, <3>3, NoticesRight
  <2> QED BY <1>1, <2>1, <2>2, <2>3
<1>2. ASSUME TypeOK, AnswerInv, RegistryInv, HeldKnown, [Next]_vars
      PROVE  [\A c \in Conns :
               /\ Count(c, {"notify", "command"})' > Count(c, {"notify", "command"}) =>
                    /\ Count(c, {"notify", "command"})' = Count(c, {"notify", "command"}) + 1
                    /\ c \in registered /\ peer[c].kind = "monitor"
               /\ Count(c, {"client"})' > Count(c, {"client"}) =>
                    /\ c \in registered /\ peer[c].kind = "client"]_vars
  BY <1>1, <1>2 DEF NotedRightly, Noted, Number, Count, Notices
<1> QED BY <1>2, TypeCorrect, AnswersConsistent, RegistryAgrees, HeldAreKnown, PTL DEF Spec, BroadcastOnce

=============================================================================
