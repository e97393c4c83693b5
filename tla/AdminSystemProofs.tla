-------------------------- MODULE AdminSystemProofs --------------------------
(***************************************************************************)
(* For any number of streams, servers and requests: what monitor and       *)
(* master, connected by streams that are cut and by processes that are     *)
(* started again, know of each other.                                      *)
(*                                                                         *)
(* SystemInv is about the whole system: the monitor keeps MonitorInv and   *)
(* the master its types, because what one reads is what the other wrote.   *)
(* That a monitor was admitted on a connection only the master has         *)
(* registered follows from what is on the way: a reply PRO_OK is on its    *)
(* way only to a registered connection (WrittenInv).                       *)
(*                                                                         *)
(* That the master never has two connections of a monitor registered needs *)
(* that 'register', after which it does not look whether the id is taken,  *)
(* is written once and read before anything else happened: as long as it   *)
(* is on its way (Early) nothing was written to the monitor, no other      *)
(* stream was opened, and nothing else is on its way (FirstInv).           *)
(*                                                                         *)
(* That a request is answered once, by the server asked, follows a request *)
(* through the system (OwnInv): the master is consistent in the sense of   *)
(* MasterAgentProofs, what the monitor executes was made to it, and so is  *)
(* what it answers, on whatever stream the answer goes back.               *)
(*                                                                         *)
(* That the two sides meet what MonitorAgent and MasterAgent suppose of    *)
(* each other (SideInv): a stream is greeted on once, unless the monitor   *)
(* has left it in between (GreetingInv, ReadInv), neither knows the other  *)
(* before the master has read the greeting (MeetInv), and the reply and    *)
(* the requests the monitor was given are behind it (UnreadInv).           *)
(***************************************************************************)
EXTENDS AdminSystem, MonitorAgentProofs, FiniteSetTheorems

\* What is proved about the master, for the master of this system.
P == INSTANCE QueueProofs WITH AsyncAuth <- FALSE

\* What those proofs assume of the constants.
LEMMA Constants ==
  /\ NONE \notin Conns \cup Servers
  /\ TypeOf \in [Servers -> Types]
  /\ MaxReq \in Nat /\ MaxSent \in Nat /\ MaxAsked \in Nat
  /\ P!IsFiniteSet(Servers)
  /\ NONE \notin P!Peers /\ NONE \notin P!Records
  /\ FALSE \in BOOLEAN
<1>1. NONE \notin Conns /\ NONE \notin Servers
  BY ClientAssumption, SystemAssumption
<1>2. P!Peers = Master!Peers /\ P!Records = Master!Records
  BY DEF Master!Peers, P!Peers, Master!MonitorPeers, P!MonitorPeers, Master!ClientPeers,
         P!ClientPeers, Master!OtherPeer, P!OtherPeer, Master!Records, P!Records
<1>3. P!IsFiniteSet(Servers)
  BY SystemAssumption, Zenon DEF IsFiniteSet, P!IsFiniteSet
<1> QED BY <1>1, <1>2, <1>3, SystemAssumption

\* The sets of the two instances are the same.
LEMMA SameVocabulary ==
  /\ P!Peers = Master!Peers /\ P!Records = Master!Records /\ P!MonitorPeers = Master!MonitorPeers
  /\ P!ClientPeers = Master!ClientPeers
  /\ P!ReqIds = Master!ReqIds /\ P!Message = Master!Message
  /\ P!TypeOK <=> Master!TypeOK
  /\ P!Init <=> Master!Init
<1>1. /\ P!MonitorPeers = Master!MonitorPeers /\ P!ClientPeers = Master!ClientPeers
      /\ P!OtherPeer = Master!OtherPeer
      /\ P!Records = Master!Records /\ P!ReqIds = Master!ReqIds /\ P!Message = Master!Message
  BY DEF Master!MonitorPeers, P!MonitorPeers, Master!ClientPeers,
     P!ClientPeers, Master!OtherPeer, P!OtherPeer, Master!Records, P!Records,
     Master!ReqIds, P!ReqIds, Master!Message, P!Message, Master!Kinds, P!Kinds
<1>2. P!Peers = Master!Peers
  BY <1>1 DEF Master!Peers, P!Peers
<1>3. P!TypeOK <=> Master!TypeOK
  BY <1>1, <1>2, Zenon DEF Master!TypeOK, P!TypeOK
<1>4. P!Init <=> Master!Init
  BY <1>1, Zenon DEF Master!Init, P!Init
<1> QED BY <1>1, <1>2, <1>3, <1>4

USE DEF flags, timers, clientVars

USE DEF Master!process, P!process, Master!tables, P!tables, Master!requests, P!requests,
   Master!history, P!history, Master!links, P!links

\* So are the handlers.
LEMMA SameActions ==
  ASSUME NEW c, NEW p, NEW r
  PROVE  /\ P!Listen <=> Master!Listen
         /\ P!Connection(c) <=> Master!Connection(c)
         /\ P!RegisterMonitor(c, p) <=> Master!RegisterMonitor(c, p)
         /\ P!OnReconnect(c, p) <=> Master!OnReconnect(c, p)
         /\ P!Kick(c) <=> Master!Kick(c)
         /\ P!OnResponse(c, r) <=> Master!OnResponse(c, r)
         /\ P!OnDisconnect(c) <=> Master!OnDisconnect(c)
         /\ P!Request(p) <=> Master!Request(p)
<1>1. ASSUME NEW ms, NEW d PROVE P!Put(d, ms) <=> Master!Put(d, ms)
  BY DEF P!Put, Master!Put
<1>2. P!AddConnection(c, p) <=> Master!AddConnection(c, p)
  BY DEF P!AddConnection, Master!AddConnection, P!Record, Master!Record
<1>3. P!Listen <=> Master!Listen
  BY DEF P!Listen, Master!Listen
<1>4. P!Connection(c) <=> Master!Connection(c)
  BY DEF Master!Connection, P!Connection, Master!Unused, P!Unused, Master!Sockets, P!Sockets,
     Master!Primaries, P!Primaries,
   Master!Slaves, P!Slaves, Master!ToSet, P!ToSet
<1>5. P!Kick(c) <=> Master!Kick(c)
  BY <1>1 DEF P!Kick, Master!Kick, P!Disconnect, Master!Disconnect, P!Plain, Master!Plain
<1>6. P!Repush(p.id) = Master!Repush(p.id)
  BY DEF P!Repush, Master!Repush, P!RequestMsg, Master!RequestMsg
<1>7. P!RegisterMonitor(c, p) <=> Master!RegisterMonitor(c, p)
  BY <1>1, <1>2, <1>6 DEF P!RegisterMonitor, Master!RegisterMonitor, P!Register, Master!Register,
    P!PRO_OK, Master!PRO_OK, P!PRO_FAIL, Master!PRO_FAIL, P!Disconnect, Master!Disconnect,
    P!Plain, Master!Plain
<1>8. P!OnReconnect(c, p) <=> Master!OnReconnect(c, p)
  BY <1>1, <1>2, <1>6 DEF P!OnReconnect, Master!OnReconnect, P!ReconnectOk, Master!ReconnectOk,
    P!PRO_OK, Master!PRO_OK, P!PRO_FAIL, Master!PRO_FAIL
<1>9. P!OnResponse(c, r) <=> Master!OnResponse(c, r)
  BY SameVocabulary DEF P!OnResponse, Master!OnResponse, P!RemoveFirst, Master!RemoveFirst,
  P!SelectInSeq, Master!SelectInSeq, P!RemoveAt, Master!RemoveAt, P!Min, Master!Min
<1>10. P!RemoveMonitor(peer[c].id, peer[c].addr) <=> Master!RemoveMonitor(peer[c].id, peer[c].addr)
  BY DEF P!RemoveMonitor, Master!RemoveMonitor, P!RemovePrimary, Master!RemovePrimary,
    P!RemoveSlave, Master!RemoveSlave, P!WithoutId, Master!WithoutId, P!WithoutAddr,
    Master!WithoutAddr,
    P!RemoveFirstMatch, Master!RemoveFirstMatch,
  P!SelectInSeq, Master!SelectInSeq, P!RemoveAt, Master!RemoveAt, P!Min, Master!Min
<1>11. P!OnDisconnect(c) <=> Master!OnDisconnect(c)
  BY <1>10, SameVocabulary DEF P!OnDisconnect, Master!OnDisconnect, P!ComparesNoInfo,
     Master!ComparesNoInfo, P!NoInfoAhead, Master!NoInfoAhead,
   P!RemoveClient, Master!RemoveClient
<1>12. P!Request(p) <=> Master!Request(p)
  BY <1>1 DEF P!Request, Master!Request, P!NewRequest, Master!NewRequest, P!Usable, Master!Usable,
    P!RequestMsg, Master!RequestMsg, P!ReqIds, Master!ReqIds
<1> QED BY <1>3, <1>4, <1>5, <1>7, <1>8, <1>9, <1>11, <1>12

-----------------------------------------------------------------------------
(***************************************************************************)
(* The master: what it writes.                                             *)
(***************************************************************************)
\* A greeting was accepted.
IsOk(m) == m.kind \in {"register", "reconnect_ok"} /\ m.n = P!PRO_OK

\* What was written to a connection: known requests, and PRO_OK if it is registered.
WrittenInv ==
  \A c \in Conns : \A m \in P!ToSet(sent[c]) :
    /\ m.kind = "request" => m.n \in P!ReqIds
    /\ IsOk(m) => c \in registered

MasterInv == P!TypeOK /\ WrittenInv

\* A write of known requests, and of PRO_OK to registered connections only.
LEMMA PutKeeps ==
  ASSUME MasterInv, NEW c \in Conns, NEW ms \in Seq(P!Message), P!Put(c, ms),
         registered \subseteq registered',
         \A m \in P!ToSet(ms) :
           (m.kind = "request" => m.n \in P!ReqIds) /\ (IsOk(m) => c \in registered')
  PROVE  WrittenInv'
<1> SUFFICES ASSUME NEW d \in Conns, NEW m \in P!ToSet(sent'[d])
             PROVE  /\ m.kind = "request" => m.n \in P!ReqIds
                    /\ IsOk(m) => d \in registered'
  BY DEF WrittenInv, IsOk, P!ToSet
<1>1. m \in P!ToSet(sent[d]) \/ (d = c /\ m \in P!ToSet(ms))
  BY P!PutContents, Constants DEF MasterInv
<1> QED BY <1>1 DEF MasterInv, WrittenInv

\* The repush consists of known requests.
LEMMA RepushKnown ==
  ASSUME P!TypeOK, NEW s \in Servers, NEW m \in P!ToSet(P!Repush(s))
  PROVE  m.kind = "request" /\ m.n \in P!ReqIds
<1>1. \E r \in P!ToSet(msgMap[s]) : r \in P!ReqIds /\ m = P!RequestMsg(r)
  BY P!RepushContents, Constants
<1> QED BY <1>1 DEF P!RequestMsg

\* A reply followed by a repush.
LEMMA RepushedKnown ==
  ASSUME P!TypeOK, NEW s \in Servers, NEW ms \in Seq(P!Message), NEW ok,
         \A m \in P!ToSet(ms) : m.kind # "request" /\ (IsOk(m) => ok)
  PROVE  /\ ms \o P!Repush(s) \in Seq(P!Message)
         /\ \A m \in P!ToSet(ms \o P!Repush(s)) :
              (m.kind = "request" => m.n \in P!ReqIds) /\ (IsOk(m) => ok)
<1>1. P!Repush(s) \in Seq(P!Message)
  BY P!RepushType, Constants
<1>2. P!ToSet(ms \o P!Repush(s)) = P!ToSet(ms) \cup P!ToSet(P!Repush(s))
  BY <1>1, P!ToSetOfConcat, Constants
<1>3. \A m \in P!ToSet(P!Repush(s)) : m.kind = "request" /\ m.n \in P!ReqIds
  BY RepushKnown
<1> QED BY <1>1, <1>2, <1>3 DEF IsOk

\* Lists of one and of two messages.
LEMMA ReplyContents ==
  ASSUME NEW a \in P!Message, NEW b \in P!Message
  PROVE  /\ <<a>> \in Seq(P!Message) /\ P!ToSet(<<a>>) = {a}
         /\ <<a, b>> \in Seq(P!Message) /\ P!ToSet(<<a, b>>) = {a, b}
<1>1. <<a>> \in Seq(P!Message) /\ <<a, b>> \in Seq(P!Message)
  OBVIOUS
<1> QED BY <1>1, P!ToSetOfFew, Constants

\* The replies of the master; all but two of them refuse.
LEMMA Replies ==
  /\ \A m \in {P!Register(P!PRO_OK), P!ReconnectOk(P!PRO_OK)} : m \in P!Message /\ m.kind # "request"
  /\ \A m \in {P!Register(P!PRO_FAIL), P!ReconnectOk(P!PRO_FAIL), P!Disconnect} :
       m \in P!Message /\ m.kind # "request" /\ ~IsOk(m)
<1>1. /\ \A m \in {P!Register(P!PRO_OK), P!ReconnectOk(P!PRO_OK)} : m.kind # "request"
      /\ \A m \in {P!Register(P!PRO_FAIL), P!ReconnectOk(P!PRO_FAIL), P!Disconnect} :
           m.kind # "request" /\ ~IsOk(m)
  BY DEF P!Register, P!ReconnectOk, P!Disconnect, P!Plain, P!PRO_OK, P!PRO_FAIL, IsOk
<1>2. /\ P!Register(P!PRO_OK) \in P!Message /\ P!Register(P!PRO_FAIL) \in P!Message
      /\ P!ReconnectOk(P!PRO_OK) \in P!Message /\ P!ReconnectOk(P!PRO_FAIL) \in P!Message
      /\ P!Disconnect \in P!Message
  BY P!MessageTypes, Constants
<1> QED BY <1>1, <1>2

\* The master reads a greeting.
LEMMA GreetingKeeps ==
  ASSUME MasterInv, NEW c \in Conns, NEW p \in P!MonitorPeers,
         P!RegisterMonitor(c, p) \/ P!OnReconnect(c, p)
  PROVE  MasterInv' /\ registered \subseteq registered'
<1>1. P!TypeOK'
  BY P!RegisterMonitorType, P!OnReconnectType, Constants DEF MasterInv
<1>2. p.id \in Servers /\ P!TypeOK
  BY DEF P!MonitorPeers, MasterInv
<1>3. registered \subseteq registered'
  BY DEF P!RegisterMonitor, P!OnReconnect
<1>4. ASSUME NEW ms \in Seq(P!Message), P!Put(c, ms \o P!Repush(p.id)),
             \A m \in P!ToSet(ms) : m.kind # "request" /\ (IsOk(m) => c \in registered')
      PROVE  WrittenInv'
  <2>1. /\ ms \o P!Repush(p.id) \in Seq(P!Message)
        /\ \A m \in P!ToSet(ms \o P!Repush(p.id)) :
             (m.kind = "request" => m.n \in P!ReqIds) /\ (IsOk(m) => c \in registered')
    BY <1>2, <1>4, RepushedKnown
  <2> QED BY <1>3, <1>4, <2>1, PutKeeps
<1>5. ASSUME NEW m \in P!Message, P!Put(c, <<m>> \o P!Repush(p.id)), m.kind # "request",
             IsOk(m) => c \in registered'
      PROVE  WrittenInv'
  BY <1>4, <1>5, ReplyContents
<1>6. CASE P!RegisterMonitor(c, p)
  <2>1. CASE /\ registered' = registered \cup {c}
             /\ P!Put(c, <<P!Register(P!PRO_OK)>> \o P!Repush(p.id))
    BY <1>1, <1>3, <1>5, <2>1, Replies DEF MasterInv
  <2>2. CASE P!Put(c, <<P!Register(P!PRO_FAIL), P!Disconnect>> \o P!Repush(p.id))
    <3>1. /\ <<P!Register(P!PRO_FAIL), P!Disconnect>> \in Seq(P!Message)
          /\ P!ToSet(<<P!Register(P!PRO_FAIL), P!Disconnect>>) = {P!Register(P!PRO_FAIL), P!Disconnect}
      BY Replies, ReplyContents
    <3> QED BY <1>1, <1>3, <1>4, <2>2, <3>1, Replies DEF MasterInv
  <2> QED BY <1>6, <2>1, <2>2 DEF P!RegisterMonitor
<1>7. CASE P!OnReconnect(c, p)
  <2>1. CASE /\ registered' = registered \cup {c}
             /\ P!Put(c, <<P!ReconnectOk(P!PRO_OK)>> \o P!Repush(p.id))
    BY <1>1, <1>3, <1>5, <2>1, Replies DEF MasterInv
  <2>2. CASE P!Put(c, <<P!ReconnectOk(P!PRO_FAIL)>>)
    <3>1. /\ <<P!ReconnectOk(P!PRO_FAIL)>> \in Seq(P!Message)
          /\ P!ToSet(<<P!ReconnectOk(P!PRO_FAIL)>>) = {P!ReconnectOk(P!PRO_FAIL)}
      BY Replies, ReplyContents
    <3>2. WrittenInv'
      BY <1>3, <2>2, <3>1, Replies, PutKeeps
    <3> QED BY <1>1, <1>3, <3>2 DEF MasterInv
  <2>3. CASE sent' = sent
    BY <1>1, <1>3, <2>3 DEF MasterInv, WrittenInv
  <2> QED BY <1>7, <2>1, <2>2, <2>3 DEF P!OnReconnect
<1> QED BY <1>6, <1>7

\* A handler that registers nobody, and a request.
LEMMA OtherMasterKeeps ==
  ASSUME MasterInv,
         \/ P!Listen
         \/ \E c \in Conns : P!Connection(c) \/ P!Kick(c) \/ \E r : P!OnResponse(c, r)
         \/ \E s \in Servers : P!Request(s)
  PROVE  MasterInv' /\ registered' = registered
<1>1. registered' = registered
  BY DEF P!Listen, P!Connection, P!Kick, P!OnResponse, P!Request
<1>2. CASE P!Listen
  <2>1. P!TypeOK'
    BY <1>2 DEF MasterInv, P!TypeOK, P!Listen
  <2> QED BY <1>1, <1>2, <2>1 DEF MasterInv, WrittenInv, P!Listen
<1>3. ASSUME NEW c \in Conns, P!Connection(c) PROVE MasterInv'
  <2>1. P!TypeOK'
    BY <1>3, P!ConnectionType, Constants DEF MasterInv
  <2> QED BY <1>1, <1>3, <2>1 DEF MasterInv, WrittenInv, P!Connection
<1>4. ASSUME NEW c \in Conns, P!Kick(c) PROVE MasterInv'
  <2>1. P!TypeOK'
    BY <1>4, P!KickType, Constants DEF MasterInv
  <2>2. <<P!Disconnect>> \in Seq(P!Message) /\ P!ToSet(<<P!Disconnect>>) = {P!Disconnect}
    BY Replies, ReplyContents
  <2>3. P!Disconnect.kind = "disconnect"
    BY DEF P!Disconnect, P!Plain
  <2> QED BY <1>1, <1>4, <2>1, <2>2, <2>3, PutKeeps DEF MasterInv, P!Kick, IsOk
<1>5. ASSUME NEW c \in Conns, \E r : P!OnResponse(c, r) PROVE MasterInv'
  <2>1. PICK r : P!OnResponse(c, r)
    BY <1>5
  <2>2. r \in P!ReqIds
    BY <2>1 DEF P!OnResponse, MasterInv, P!TypeOK
  <2>3. P!TypeOK'
    BY <2>1, <2>2, P!OnResponseType, Constants DEF MasterInv
  <2> QED BY <1>1, <2>1, <2>3 DEF MasterInv, WrittenInv, P!OnResponse
<1>6. CASE \E s \in Servers : P!Request(s)
  <2>1. PICK s \in Servers : P!Request(s)
    BY <1>6
  <2>2. P!TypeOK' /\ reqId \in P!ReqIds
    BY <2>1, P!RequestType, P!NewRequestType, Constants DEF MasterInv, P!Request
  <2>3. CASE sent' = sent
    BY <1>1, <2>2, <2>3 DEF MasterInv, WrittenInv
  <2>4. CASE idMap[s] # NONE /\ P!Put(idMap[s].socket, <<P!RequestMsg(reqId)>>)
    <3>1. idMap[s].socket \in Conns
      BY <2>4 DEF MasterInv, P!TypeOK, P!Records
    <3>2. /\ <<P!RequestMsg(reqId)>> \in Seq(P!Message)
          /\ P!ToSet(<<P!RequestMsg(reqId)>>) = {P!RequestMsg(reqId)}
      BY <2>2, P!MessageTypes, ReplyContents, Constants
    <3>3. P!RequestMsg(reqId).kind = "request" /\ P!RequestMsg(reqId).n = reqId
      BY DEF P!RequestMsg
    <3>4. ~IsOk(P!RequestMsg(reqId))
      BY <3>3 DEF IsOk
    <3> QED BY <1>1, <2>2, <2>4, <3>1, <3>2, <3>3, <3>4, PutKeeps DEF MasterInv
  <2> QED BY <1>1, <2>1, <2>3, <2>4 DEF P!Request
<1> QED BY <1>1, <1>2, <1>3, <1>4, <1>5, <1>6

\* The end of a connection takes what was written to it along.
LEMMA DisconnectKeeps ==
  ASSUME MasterInv, NEW c \in Conns, P!OnDisconnect(c)
  PROVE  MasterInv' /\ registered \subseteq registered' \cup {c}
<1>1. P!TypeOK'
  BY P!OnDisconnectType, Constants DEF MasterInv
<1>2. registered \subseteq registered' \cup {c}
  BY DEF P!OnDisconnect
<1>3. sent' = [sent EXCEPT ![c] = <<>>]
  BY DEF P!OnDisconnect
<1>4. WrittenInv'
  <2> SUFFICES ASSUME NEW d \in Conns, NEW m \in P!ToSet(sent'[d])
               PROVE  /\ m.kind = "request" => m.n \in P!ReqIds
                      /\ IsOk(m) => d \in registered'
    BY DEF WrittenInv, IsOk, P!ToSet
  <2>1. d # c /\ sent'[d] = sent[d]
    BY <1>3, P!ToSetOfFew, Constants DEF MasterInv, P!TypeOK
  <2> QED BY <1>2, <2>1 DEF MasterInv, WrittenInv
<1> QED BY <1>1, <1>2, <1>4 DEF MasterInv

-----------------------------------------------------------------------------
(***************************************************************************)
(* The whole system.                                                       *)
(***************************************************************************)
NetworkShape ==
  /\ heard \in [Conns -> Nat] /\ taken \in [Conns -> Nat]
  /\ cut \subseteq Conns /\ cuts \in 0..MaxCuts

\* What the monitor believes of its streams.
AdmittedInv ==
  \A c \in admitted : stream[c] = "open" /\ (sock[c] = "open" => c \in registered)

SystemInv ==
  /\ MonitorInv /\ MasterInv /\ NetworkShape /\ AdmittedInv
  /\ restarts \in 0..MaxRestarts

\* Reading counts what was read, and the end of a stream starts again at 0.
LEMMA NetworkKeeps ==
  ASSUME NetworkShape,
         \/ \E c \in Conns :
              CutOff(c) \/ ClientSeesEnd(c) \/ MasterSeesEnd(c) \/ Hears(c) \/ Takes(c)
         \/ UNCHANGED network
  PROVE  NetworkShape'
<1>1. ASSUME NEW c \in Conns, CutOff(c) PROVE NetworkShape'
  BY <1>1, CutAssumption DEF CutOff, NetworkShape
<1>2. ASSUME NEW c \in Conns, ClientSeesEnd(c) \/ MasterSeesEnd(c) \/ Hears(c) \/ Takes(c)
      PROVE  NetworkShape'
  BY <1>2 DEF ClientSeesEnd, MasterSeesEnd, Hears, Takes, NetworkShape
<1>3. CASE UNCHANGED network
  BY <1>3 DEF network, NetworkShape
<1> QED BY <1>1, <1>2, <1>3

\* Nothing else changes what MasterInv speaks of.
LEMMA MasterIdle == MasterInv /\ UNCHANGED masterVars => MasterInv'
<1> SUFFICES ASSUME MasterInv, UNCHANGED masterVars PROVE MasterInv'
  OBVIOUS
<1>1. P!TypeOK'
  BY DEF MasterInv, P!TypeOK, masterVars
<1>2. sent' = sent /\ registered' = registered
  BY DEF masterVars
<1>3. WrittenInv'
  BY <1>2 DEF MasterInv, WrittenInv, IsOk, P!ToSet
<1> QED BY <1>1, <1>3 DEF MasterInv

\* What the monitor does keeps what it was told.
LEMMA MonitorSideKeeps ==
  ASSUME SystemInv, MonitorInv', UNCHANGED masterVars, NetworkShape', restarts' = restarts,
         \A c \in admitted' : stream'[c] = "open" /\ (c \in admitted \/ c \in registered)
  PROVE  SystemInv'
<1>1. MasterInv'
  BY MasterIdle DEF SystemInv
<1>2. sock' = sock /\ registered' = registered
  BY DEF masterVars
<1>3. AdmittedInv'
  BY <1>2 DEF SystemInv, AdmittedInv
<1> QED BY <1>1, <1>3 DEF SystemInv

\* The master takes a connection out of the registered ones only when it closes it, and
\* opens none on which the monitor was admitted.
LEMMA MasterSideKeeps ==
  ASSUME SystemInv, MasterInv', UNCHANGED monitorVars, NetworkShape', restarts' = restarts,
         \A c \in admitted : sock'[c] = "open" => sock[c] = "open" /\ (c \in registered => c \in registered')
  PROVE  SystemInv'
<1>1. MonitorInv'
  BY MonitorIdle DEF SystemInv
<1>2. admitted' = admitted /\ stream' = stream
  BY DEF monitorVars, histVars
<1>3. AdmittedInv'
  BY <1>2 DEF SystemInv, AdmittedInv
<1> QED BY <1>1, <1>3 DEF SystemInv

\* What the monitor does on its own: it opens streams, answers, notifies, closes.
LEMMA MonitorActions ==
  ASSUME SystemInv, alive = "running", UNCHANGED <<masterVars, network, restarts>>,
         \/ \E c \in Conns : ConnectMonitor(c) \/ ReconnectMonitor(c) \/ OnConnack(c)
         \/ OnConnectTimeout \/ OnKeepAlive \/ Notify \/ CloseMonitor
         \/ \E w \in work : Respond(w)
  PROVE  SystemInv'
<1>1. MonitorInv'
  BY ConnectAgent, ConnackAgent, TimersAgent, ApiAgent DEF SystemInv
<1>2. NetworkShape'
  BY NetworkKeeps DEF SystemInv
<1>3. admitted' = admitted /\ admitted \subseteq Conns
  BY DEF ConnectMonitor, ReconnectMonitor, OnConnack, OnConnectTimeout, Notify, CloseMonitor,
     OnKeepAlive, Respond, histVars,
      SystemInv, MonitorInv, AgentShape
<1>4. \A d \in admitted : stream[d] = "open" => stream'[d] = "open"
  <2>1. CASE \E c \in Conns : ConnectMonitor(c) \/ ReconnectMonitor(c) \/ OnConnack(c)
    BY <1>3, <2>1 DEF ConnectMonitor, ReconnectMonitor, FirstConnect, ReconnectTimer, Connect,
       OnConnack, Connack,
      SystemInv, MonitorInv, ClientShape
  <2>2. CASE OnConnectTimeout \/ Notify \/ CloseMonitor \/ \E w \in work : Respond(w)
    BY <2>2 DEF OnConnectTimeout, ConnectTimeout, Notify, CloseMonitor, CloseClient, Respond
  <2>3. CASE OnKeepAlive
    BY <2>3, KeepAliveDoes
  <2> QED BY <2>1, <2>2, <2>3
<1> QED BY <1>1, <1>2, <1>3, <1>4, MonitorSideKeeps DEF SystemInv, AdmittedInv

\* The monitor sees the end of a stream.
LEMMA NoticesKeep ==
  ASSUME SystemInv, alive = "running", NEW c \in Conns, MonitorNotices(c)
  PROVE  SystemInv'
<1>1. MonitorInv'
  BY EndsAgent DEF SystemInv, MonitorNotices
<1>2. NetworkShape'
  BY NetworkKeeps DEF SystemInv, MonitorNotices
<1>3. admitted' = admitted \ {c} /\ stream' = [stream EXCEPT ![c] = "ended"] /\ admitted \subseteq Conns
  BY DEF MonitorNotices, OnStreamEnds, StreamEnds, SystemInv, MonitorInv, AgentShape
<1>4. \A d \in admitted' : stream'[d] = "open" /\ d \in admitted
  BY <1>3 DEF SystemInv, AdmittedInv, MonitorInv, ClientShape
<1> QED BY <1>1, <1>2, <1>4, MonitorSideKeeps DEF MonitorNotices

\* It reads what the master wrote: by WrittenInv a request it knows, or a reply PRO_OK of
\* a connection that is registered.
LEMMA ReadsKeep ==
  ASSUME SystemInv, alive = "running", NEW c \in Conns, MonitorReads(c)
  PROVE  SystemInv'
<1> DEFINE m == ToClient(c)
<1>1. m \in P!ToSet(sent[c]) /\ stream[c] = "open"
  <2>1. sent[c] \in Seq(P!Message) /\ heard[c] \in Nat /\ heard[c] < Len(sent[c])
    BY DEF SystemInv, MasterInv, P!TypeOK, NetworkShape, MonitorReads, Hears
  <2>2. heard[c] + 1 \in DOMAIN sent[c]
    BY <2>1
  <2> QED BY <2>2 DEF P!ToSet, ToClient, MonitorReads, Hears
<1>2. /\ m.kind = "request" => m.n \in Reqs
      /\ IsOk(m) => c \in registered
  BY <1>1, SystemAssumption, SameVocabulary DEF SystemInv, MasterInv, WrittenInv
<1>3. NetworkShape' /\ UNCHANGED masterVars /\ restarts' = restarts
  BY NetworkKeeps DEF SystemInv, MonitorReads
<1> HIDE DEF m
<1>4. CASE m.kind \in {"register", "reconnect_ok"} /\ OnReply(c, m.n = Master!PRO_OK)
  <2>1. MonitorInv'
    <3>1. (m.n = Master!PRO_OK) \in BOOLEAN
      OBVIOUS
    <3> QED BY <1>4, <3>1, ReceiveAgent DEF SystemInv
  <2>2. stream' = stream /\ (admitted' = admitted \/ (admitted' = admitted \cup {c} /\ c \in registered))
    <3>1. m.n = Master!PRO_OK => c \in registered
      BY <1>2, <1>4 DEF IsOk, P!PRO_OK, Master!PRO_OK
    <3> QED BY <1>4, <3>1 DEF OnReply
  <2> QED BY <1>1, <1>3, <2>1, <2>2, MonitorSideKeeps DEF SystemInv, AdmittedInv
<1>5. CASE m.kind = "request" /\ OnRequest(c, m.n)
  <2>1. MonitorInv'
    BY <1>2, <1>5, ReceiveAgent DEF SystemInv
  <2>2. stream' = stream /\ admitted' = admitted
    BY <1>5 DEF OnRequest
  <2> QED BY <1>1, <1>3, <2>1, <2>2, MonitorSideKeeps DEF SystemInv, AdmittedInv
<1>6. CASE OnKicked(c)
  <2>1. MonitorInv'
    BY <1>6, EndsAgent DEF SystemInv
  <2>2. stream' = stream /\ admitted' = admitted
    BY <1>6 DEF OnKicked, DisconnectPacket, histVars
  <2> QED BY <1>1, <1>3, <2>1, <2>2, MonitorSideKeeps DEF SystemInv, AdmittedInv
<1> QED BY <1>4, <1>5, <1>6 DEF MonitorReads, m

\* The master accepts a stream on which the monitor was not admitted before.
LEMMA AcceptKeeps ==
  ASSUME SystemInv, NEW c \in Conns, Accept(c)
  PROVE  SystemInv'
<1>1. P!Connection(c) /\ UNCHANGED <<monitorVars, network, restarts>>
  BY SameActions DEF Accept
<1>2. MasterInv' /\ registered' = registered
  BY <1>1, OtherMasterKeeps DEF SystemInv
<1>3. NetworkShape'
  BY <1>1, NetworkKeeps DEF SystemInv
<1>4. \A d \in admitted : sock'[d] = "open" => sock[d] = "open"
  <2>1. c \notin admitted
    BY DEF Accept, Reaches, SystemInv, AdmittedInv
  <2>2. sock' = [sock EXCEPT ![c] = "open"] /\ admitted \subseteq Conns
    BY <1>1 DEF P!Connection, SystemInv, MonitorInv, AgentShape
  <2> QED BY <2>1, <2>2 DEF SystemInv, MasterInv, P!TypeOK
<1> QED BY <1>1, <1>2, <1>3, <1>4, MasterSideKeeps

\* The master sees the end of a connection.
LEMMA MasterNoticesKeep ==
  ASSUME SystemInv, NEW c \in Conns, MasterNotices(c)
  PROVE  SystemInv'
<1>1. P!OnDisconnect(c) /\ UNCHANGED <<monitorVars, restarts>> /\ MasterSeesEnd(c)
  BY SameActions DEF MasterNotices
<1>2. MasterInv' /\ registered \subseteq registered' \cup {c}
  BY <1>1, DisconnectKeeps DEF SystemInv
<1>3. NetworkShape'
  BY <1>1, NetworkKeeps DEF SystemInv
<1>4. sock' = [sock EXCEPT ![c] = "closed"] /\ admitted \subseteq Conns
  BY <1>1 DEF P!OnDisconnect, SystemInv, MonitorInv, AgentShape
<1>5. \A d \in admitted : sock'[d] = "open" => sock[d] = "open" /\ d # c
  BY <1>4 DEF SystemInv, MasterInv, P!TypeOK
<1> QED BY <1>1, <1>2, <1>3, <1>5, MasterSideKeeps

\* The master reads what the monitor wrote.
LEMMA MasterReadsKeep ==
  ASSUME SystemInv, NEW c \in Conns, MasterReads(c)
  PROVE  SystemInv'
<1>1. NetworkShape' /\ UNCHANGED monitorVars /\ restarts' = restarts
  BY NetworkKeeps DEF MasterReads, SystemInv
<1>2. Me \in P!MonitorPeers
  BY PeerAssumption, SameVocabulary
<1>3. \/ P!RegisterMonitor(c, Me) \/ P!OnReconnect(c, Me) \/ P!Kick(c)
      \/ \E r : P!OnResponse(c, r)
      \/ UNCHANGED masterVars
  BY SameActions DEF MasterReads
<1>4. MasterInv' /\ registered \subseteq registered'
  <2>1. UNCHANGED masterVars => registered' = registered
    BY DEF masterVars
  <2> QED BY <1>2, <1>3, <2>1, GreetingKeeps, OtherMasterKeeps, MasterIdle DEF SystemInv
<1>5. sock' = sock
  BY <1>3 DEF P!RegisterMonitor, P!OnReconnect, P!Kick, P!OnResponse, masterVars
<1> QED BY <1>1, <1>4, <1>5, MasterSideKeeps

\* The master listens, or makes a request.
LEMMA MasterStepsKeep ==
  ASSUME SystemInv, MasterSteps
  PROVE  SystemInv'
<1>1. P!Listen \/ \E s \in Servers : P!Request(s)
  BY SameActions DEF MasterSteps
<1>2. MasterInv' /\ registered' = registered
  BY <1>1, OtherMasterKeeps DEF SystemInv
<1>3. NetworkShape' /\ UNCHANGED monitorVars /\ restarts' = restarts
  BY NetworkKeeps DEF MasterSteps, SystemInv
<1>4. sock' = sock
  BY <1>1 DEF P!Listen, P!Request
<1> QED BY <1>2, <1>3, <1>4, MasterSideKeeps

\* The master starts in it.
LEMMA MasterStart == Master!Init => MasterInv
<1> SUFFICES ASSUME Master!Init PROVE MasterInv
  OBVIOUS
<1>1. P!TypeOK
  BY SameVocabulary, P!InitType, Constants
<1>2. WrittenInv
  BY P!ToSetOfFew, Constants DEF Master!Init, WrittenInv
<1> QED BY <1>1, <1>2 DEF MasterInv

\* A process that is started again starts from its initial state; the streams ended.
LEMMA RestartKeeps ==
  ASSUME SystemInv, Restart
  PROVE  SystemInv'
<1>1. restarts' \in 0..MaxRestarts
  BY PeerAssumption DEF Restart, SystemInv
<1>2. CASE RestartMonitor
  <2>1. MonitorInit'
    BY <1>2 DEF RestartMonitor, MonitorInit, ClientInit
  <2>2. MonitorInv'
    BY <2>1, MonitorStart, PTL
  <2>3. MasterInv'
    BY <1>2, MasterIdle DEF RestartMonitor, SystemInv
  <2>4. NetworkShape'
    BY <1>2 DEF RestartMonitor, SystemInv, NetworkShape
  <2>5. AdmittedInv'
    BY <1>2 DEF RestartMonitor, AdmittedInv
  <2> QED BY <1>1, <2>2, <2>3, <2>4, <2>5 DEF SystemInv
<1>3. CASE RestartMaster
  <2>1. Master!Init'
    BY <1>3 DEF RestartMaster, Master!Init, Master!ReqIds
  <2>2. MasterInv'
    BY <2>1, MasterStart, PTL
  <2>3. MonitorInv'
    BY <1>3, MonitorIdle DEF RestartMaster, SystemInv
  <2>4. NetworkShape'
    BY <1>3 DEF RestartMaster, SystemInv, NetworkShape
  <2>5. AdmittedInv'
    <3>1. admitted' = admitted /\ stream' = stream /\ sock' = [d \in Conns |-> "closed"]
      BY <1>3 DEF RestartMaster, monitorVars, histVars
    <3>2. admitted \subseteq Conns
      BY DEF SystemInv, MonitorInv, AgentShape
    <3> QED BY <3>1, <3>2 DEF SystemInv, AdmittedInv
  <2> QED BY <1>1, <2>2, <2>3, <2>4, <2>5 DEF SystemInv
<1> QED BY <1>2, <1>3 DEF Restart

\* The system starts in its invariant.
LEMMA SystemStart == Init => SystemInv
<1> SUFFICES ASSUME Init PROVE SystemInv
  OBVIOUS
<1>1. MonitorInv /\ MasterInv
  BY MonitorStart, MasterStart DEF Init
<1>2. NetworkShape
  BY CutAssumption DEF Init, StreamsInit, NetworkShape
<1>3. AdmittedInv
  BY DEF Init, MonitorInit, AdmittedInv
<1> QED BY <1>1, <1>2, <1>3, PeerAssumption DEF Init, SystemInv

\* Every step keeps it.
LEMMA SystemStep == SystemInv /\ [Next]_vars => SystemInv'
<1> SUFFICES ASSUME SystemInv, [Next]_vars PROVE SystemInv'
  OBVIOUS
<1>1. ASSUME alive = "running", NEW c \in Conns,
             Open(c) \/ Acknowledge(c) \/ MonitorNotices(c) \/ MonitorReads(c)
      PROVE  SystemInv'
  <2>1. CASE Open(c) \/ Acknowledge(c)
    BY <1>1, <2>1, MonitorActions DEF Open, Acknowledge
  <2> QED BY <1>1, <2>1, NoticesKeep, ReadsKeep
<1>2. ASSUME NEW c \in Conns, Cut(c) PROVE SystemInv'
  <2>1. /\ MonitorInv' /\ MasterInv' /\ NetworkShape'
    BY <1>2, MonitorIdle, MasterIdle, NetworkKeeps DEF Cut, SystemInv
  <2>2. UNCHANGED <<admitted, stream, sock, registered, restarts>>
    BY <1>2 DEF Cut, monitorVars, histVars, masterVars
  <2> QED BY <2>1, <2>2 DEF SystemInv, AdmittedInv
<1>3. CASE MonitorSteps
  BY <1>3, MonitorActions DEF MonitorSteps
<1>4. CASE UNCHANGED vars
  <2>1. UNCHANGED <<monitorVars, masterVars, network, restarts>>
    BY <1>4 DEF vars
  <2>2. /\ MonitorInv' /\ MasterInv'
    BY <2>1, MonitorIdle, MasterIdle DEF SystemInv
  <2>3. UNCHANGED <<admitted, stream, sock, registered, restarts>>
    BY <2>1 DEF monitorVars, histVars, masterVars
  <2>4. NetworkShape'
    BY <2>1 DEF network, NetworkShape, SystemInv
  <2> QED BY <2>2, <2>3, <2>4 DEF SystemInv, AdmittedInv
<1> QED BY <1>1, <1>2, <1>3, <1>4, AcceptKeeps, MasterNoticesKeep, MasterReadsKeep,
  MasterStepsKeep, RestartKeeps
     DEF Next

\* Monitor, master and network agree in every state, restarts included.
THEOREM SystemAgrees == Spec => []SystemInv
BY SystemStart, SystemStep, PTL DEF Spec

\* SystemTypeOK: monitorAgent.js, masterAgent.js and the streams between them keep their
\* types, whatever is cut and started again.
THEOREM SystemTypeCorrect == Spec => []SystemTypeOK
<1>1. SystemInv => SystemTypeOK
  <2> SUFFICES ASSUME SystemInv PROVE SystemTypeOK
    OBVIOUS
  <2>1. MonitorTypeOK
    BY DEF SystemInv, MonitorInv, ClientShape, AgentShape, Messages, MonitorTypeOK
  <2>2. Master!TypeOK
    BY SameVocabulary DEF SystemInv, MasterInv
  <2> QED BY <2>1, <2>2 DEF SystemInv, NetworkShape, SystemTypeOK
<1> QED BY <1>1, SystemAgrees, PTL

\* A monitor of monitorAgent.js that read PRO_OK on a stream, which neither end has seen
\* end, is registered in masterAgent.js.
THEOREM AdmittedAreRegistered == Spec => []AdmittedIsRegistered
<1>1. SystemInv => AdmittedIsRegistered
  BY DEF SystemInv, AdmittedInv, AdmittedIsRegistered
<1> QED BY <1>1, SystemAgrees, PTL
-----------------------------------------------------------------------------
(***************************************************************************)
(* One registration.                                                       *)
(***************************************************************************)
\* The monitor wrote a registration to a stream as its i-th message.
RegistersAt(c, i) == i \in DOMAIN wrote[c] /\ wrote[c][i].kind = "register"

\* It was written once, by a monitor that never greeted the master before, and goes with
\* the stream.
RegisterInv ==
  /\ \A c \in Conns : \A i : RegistersAt(c, i) => ever /\ stream[c] = "open"
  /\ \A c, d \in Conns : \A i, j : RegistersAt(c, i) /\ RegistersAt(d, j) => c = d /\ i = j

\* It is on its way.
ToRegister(c) == sock[c] = "open" /\ \E i : RegistersAt(c, i) /\ taken[c] < i

\* The monitor has no registration behind it.
Early == ~ever \/ \E c \in Conns : ToRegister(c)

\* Nothing else has happened.
FirstInv ==
  /\ registered = {} /\ work = {} /\ mstate # "REGISTERED" /\ armed = 0
  /\ \A c \in Conns : sent[c] = <<>>
  /\ \A c, d \in Conns : stream[c] # "ended" /\ stream[d] # "ended" => c = d
  /\ \A c \in Conns : \A i \in DOMAIN wrote[c] : wrote[c][i].kind \in {"register", "disconnect"}
  /\ ~ever /\ alive = "running" => \A c \in Conns : stream[c] # "ended" => c = socket

\* The tables have no other server, and no other record of the monitor, than the one of its
\* registered connection.
TableInv ==
  /\ \A s \in Servers : idMap[s] # NONE => s = Me.id
  /\ \A c \in registered : peer[c] = Me /\ idMap[Me.id] = P!Record(c, Me)
  /\ idMap[Me.id] # NONE => idMap[Me.id].addr = Me.addr /\ idMap[Me.id].socket \in registered

OneInv == RegisterInv /\ (Early => FirstInv) /\ TableInv

\* The monitor is one the master knows.
LEMMA MeKnown == Me.id \in Servers /\ Me \in P!MonitorPeers /\ Me.addr # NoInfo
BY PeerAssumption, SameVocabulary DEF P!MonitorPeers

\* What is written besides.
LEMMA WriteOther ==
  ASSUME SystemInv, NEW k \in {"reconnect", "response", "notify", "request", "disconnect"}, NEW n \in Nat,
         ApiSend(Said(k, n)) \/ DoSend(Said(k, n)), NEW c \in Conns, NEW i
  PROVE  /\ RegistersAt(c, i)' <=> RegistersAt(c, i)
         /\ i \in DOMAIN wrote'[c] => (i \in DOMAIN wrote[c] /\ wrote'[c][i] = wrote[c][i]) \/ wrote'[c][i].kind = k
<1>1. wrote[c] \in Seq(Messages) /\ wrote \in [Conns -> Seq(Messages)]
  BY DEF SystemInv, MonitorInv, AgentShape
<1>2. wrote'[c] = wrote[c] \/ wrote'[c] = Append(wrote[c], Said(k, n))
  BY <1>1 DEF ApiSend, DoSend, Write
<1>3. Said(k, n).kind = k /\ Said(k, n) \in Messages
  BY SaidType DEF Said
<1>4. CASE wrote'[c] = Append(wrote[c], Said(k, n))
  BY <1>1, <1>3, <1>4 DEF RegistersAt
<1> QED BY <1>2, <1>4 DEF RegistersAt

\* The monitor opens a stream: the first one, when it has not greeted the master.
LEMMA OpenOne ==
  ASSUME SystemInv, OneInv, alive = "running", NEW c \in Conns, Open(c)
  PROVE  OneInv'
<1>1. /\ stream[c] = "ended" /\ stream' = [stream EXCEPT ![c] = "connecting"] /\ socket' = c
      /\ UNCHANGED <<alive, ever, wrote, mstate, work, masterVars, taken>>
      /\ stream \in [Conns -> {"ended", "connecting", "open"}]
  BY DEF Open, ConnectMonitor, ReconnectMonitor, FirstConnect, ReconnectTimer, Connect, network,
     agentVars,
    SystemInv, MonitorInv, ClientShape
<1>2. UNCHANGED <<sock, registered, idMap, peer, sent>>
  BY <1>1 DEF masterVars
<1>3. \A d \in Conns : \A i : RegistersAt(d, i)' <=> RegistersAt(d, i)
  BY <1>1 DEF RegistersAt
<1>4. RegisterInv'
  BY <1>1, <1>3 DEF OneInv, RegisterInv
<1>5. Early' <=> Early
  BY <1>1, <1>2, <1>3 DEF Early, ToRegister
<1>6. TableInv'
  BY <1>2 DEF OneInv, TableInv
<1>7. ASSUME Early PROVE FirstInv'
  <2>1. FirstInv
    BY <1>7 DEF OneInv
  <2>2. armed' = 0 /\ mstate = "INITED" /\ socket = NONE
    BY <2>1 DEF Open, ConnectMonitor, ReconnectMonitor, FirstConnect, ReconnectTimer, FirstInv
  <2>3. ~ever
    BY <2>2 DEF SystemInv, MonitorInv, GreetedInv
  <2>4. \A d \in Conns : stream[d] = "ended"
    BY <2>1, <2>2, <2>3, ClientAssumption DEF FirstInv
  <2>5. \A d \in Conns : stream'[d] # "ended" => d = c
    BY <1>1, <2>4
  <2> QED BY <1>1, <1>2, <2>1, <2>2, <2>5 DEF FirstInv
<1> QED BY <1>4, <1>5, <1>6, <1>7 DEF OneInv

\* CONNACK, and the greeting: 'register' on the first stream only, 'reconnect' when no
\* 'register' is on its way.
LEMMA AcknowledgeOne ==
  ASSUME SystemInv, OneInv, alive = "running", NEW c \in Conns, Acknowledge(c)
  PROVE  OneInv'
<1>1. /\ stream[c] = "connecting" /\ stream' = [stream EXCEPT ![c] = "open"] /\ socket' = socket
      /\ UNCHANGED <<work, masterVars, taken>>
      /\ stream \in [Conns -> {"ended", "connecting", "open"}]
  BY DEF Acknowledge, OnConnack, Connack, network, SystemInv, MonitorInv, ClientShape
<1>2. UNCHANGED <<sock, registered, idMap, peer, sent>>
  BY <1>1 DEF masterVars
<1>3. TableInv'
  BY <1>2 DEF OneInv, TableInv
<1>4. CASE wrote' = wrote
  <2>1. \A d \in Conns : \A i : RegistersAt(d, i)' <=> RegistersAt(d, i)
    BY <1>4 DEF RegistersAt
  <2>2. ever => ever'
    BY DEF Acknowledge, OnConnack, Connack
  <2>3. RegisterInv'
    BY <1>1, <2>1, <2>2 DEF OneInv, RegisterInv
  <2>4. Early' => Early
    BY <1>1, <1>2, <2>1, <2>2 DEF Early, ToRegister
  <2>5. ASSUME Early' PROVE FirstInv'
    <3>1. FirstInv
      BY <2>4, <2>5 DEF OneInv
    <3>2. armed' = 0 /\ (mstate' = mstate \/ mstate' = "CONNECTED") /\ (alive' = alive \/ alive' = "crashed")
      BY <3>1 DEF FirstInv, Acknowledge, OnConnack, Connack, DoSend
    <3>3. \A d \in Conns : stream'[d] # "ended" <=> stream[d] # "ended"
      BY <1>1
    <3> QED BY <1>1, <1>2, <1>4, <2>2, <3>1, <3>2, <3>3 DEF FirstInv
  <2> QED BY <1>3, <2>3, <2>5 DEF OneInv
<1>5. CASE ~connected /\ ~ever /\ mstate = "INITED" /\ wrote' # wrote
  <2>1. FirstInv
    BY <1>5 DEF OneInv, Early
  <2>2. /\ socket = c
    BY <1>1, <1>5, <2>1 DEF FirstInv
  <2>3. /\ wrote' = [wrote EXCEPT ![c] = Append(@, Said("register", 0))] /\ alive' = alive
        /\ mstate' = "CONNECTED" /\ ever' = TRUE /\ armed' = 0
    BY <1>1, <1>5, <2>1, <2>2, ClientAssumption DEF Acknowledge, OnConnack, Connack, DoSend,
       Write, FirstInv
  <2>4. wrote \in [Conns -> Seq(Messages)] /\ Said("register", 0).kind = "register"
        /\ Said("register", 0) \in Messages
    BY SaidType DEF SystemInv, MonitorInv, AgentShape, Said
  <2>5. \A d \in Conns : \A i : ~RegistersAt(d, i)
    BY <1>5 DEF OneInv, RegisterInv
  <2>6. \A d \in Conns : \A i : RegistersAt(d, i)' <=> d = c /\ i = Len(wrote[c]) + 1
    BY <2>3, <2>4, <2>5 DEF RegistersAt
  <2>7. RegisterInv'
    BY <1>1, <2>3, <2>6 DEF RegisterInv
  <2>8. FirstInv'
    <3>1. \A d \in Conns : stream'[d] # "ended" <=> stream[d] # "ended"
      BY <1>1
    <3>2. \A d \in Conns : \A i \in DOMAIN wrote'[d] : wrote'[d][i].kind \in {"register", "disconnect"}
      BY <2>1, <2>3, <2>4 DEF FirstInv
    <3> QED BY <1>1, <1>2, <2>1, <2>3, <3>1, <3>2 DEF FirstInv
  <2> QED BY <1>3, <2>7, <2>8 DEF OneInv
<1>6. CASE ~connected /\ ever /\ wrote' # wrote
  <2>1. DoSend(Said("reconnect", 0)) /\ ever' = TRUE
    BY <1>6 DEF Acknowledge, OnConnack, Connack
  <2>2. \A d \in Conns : \A i : RegistersAt(d, i)' <=> RegistersAt(d, i)
    BY <2>1, WriteOther
  <2>3. RegisterInv'
    BY <1>1, <1>6, <2>1, <2>2 DEF OneInv, RegisterInv
  <2>4. ~Early
    <3> SUFFICES ASSUME Early PROVE FALSE
      OBVIOUS
    <3>1. PICK d \in Conns : ToRegister(d)
      BY <1>6 DEF Early
    <3>2. stream[d] = "open" /\ FirstInv
      BY <3>1 DEF OneInv, RegisterInv, ToRegister
    <3> QED BY <1>1, <3>2 DEF FirstInv
  <2>5. ~Early'
    BY <1>1, <1>2, <2>1, <2>2, <2>4 DEF Early, ToRegister
  <2> QED BY <1>3, <2>3, <2>5 DEF OneInv
<1> QED BY <1>4, <1>5, <1>6 DEF Acknowledge, OnConnack

\* A step of the monitor that writes no registration and opens and ends no stream.
LEMMA QuietOne ==
  ASSUME SystemInv, OneInv, UNCHANGED <<masterVars, taken, stream, ever, socket, armed>>,
         \A c \in Conns : \A i : RegistersAt(c, i)' <=> RegistersAt(c, i),
         Early => /\ work' = {} /\ mstate' # "REGISTERED" /\ (alive' = "running" => alive = "running")
                  /\ \A c \in Conns : \A i \in DOMAIN wrote'[c] : wrote'[c][i].kind \in {"register", "disconnect"}
  PROVE  OneInv'
<1>1. UNCHANGED <<sock, registered, idMap, peer, sent>>
  BY DEF masterVars
<1>2. Early' <=> Early
  BY <1>1 DEF Early, ToRegister
<1>3. RegisterInv' /\ TableInv'
  BY <1>1 DEF OneInv, RegisterInv, TableInv
<1>4. ASSUME Early PROVE FirstInv'
  BY <1>1, <1>4 DEF OneInv, FirstInv
<1> QED BY <1>2, <1>3, <1>4 DEF OneInv

\* Timeouts, pings, answers, notifications, close().
LEMMA MonitorStepsOne ==
  ASSUME SystemInv, OneInv, MonitorSteps
  PROVE  OneInv'
<1>1. UNCHANGED <<masterVars, taken, stream, ever, socket, armed>>
  BY KeepAliveDoes DEF MonitorSteps, OnConnectTimeout, ConnectTimeout, Respond, Notify, CloseMonitor,
     CloseClient, network
<1>2. CASE OnConnectTimeout
  <2>1. wrote' = wrote /\ work' = work /\ mstate' = mstate /\ alive' = "exited"
    BY <1>2 DEF OnConnectTimeout, ConnectTimeout, agentVars
  <2> QED BY <1>1, <2>1, QuietOne DEF RegistersAt, OneInv, FirstInv
<1>3. CASE (\E w \in work : Respond(w)) \/ Notify
  <2>1. ~Early
    BY <1>3 DEF Notify, OneInv, FirstInv
  <2>2. PICK k \in {"response", "notify"}, n \in Nat : DoSend(Said(k, n)) \/ ApiSend(Said(k, n))
    <3>1. \A w \in work : w[2] \in Nat
      BY MonitorAssumption DEF SystemInv, MonitorInv, AgentShape
    <3> QED BY <1>3, <3>1 DEF Respond, Notify
  <2>3. \A c \in Conns : \A i : RegistersAt(c, i)' <=> RegistersAt(c, i)
    BY <2>2, WriteOther
  <2> QED BY <1>1, <2>1, <2>3, QuietOne
<1>4. CASE ApiSend(Said("disconnect", 0)) /\ work' = work /\ mstate' \in {mstate, "CLOSED"} /\ alive' = alive
  <2>1. ApiSend(Said("disconnect", 0))
    BY <1>4
  <2>2. \A c \in Conns : \A i :
          /\ RegistersAt(c, i)' <=> RegistersAt(c, i)
          /\ i \in DOMAIN wrote'[c] =>
               (i \in DOMAIN wrote[c] /\ wrote'[c][i] = wrote[c][i]) \/ wrote'[c][i].kind = "disconnect"
    BY <2>1, WriteOther
  <2>3. ASSUME Early
        PROVE  \A c \in Conns : \A i \in DOMAIN wrote'[c] : wrote'[c][i].kind \in {"register", "disconnect"}
    BY <2>2, <2>3 DEF OneInv, FirstInv
  <2> QED BY <1>1, <1>4, <2>2, <2>3, QuietOne DEF OneInv, FirstInv
<1>5. CASE CloseMonitor
  BY <1>4, <1>5 DEF CloseMonitor, CloseClient
<1>6. CASE OnKeepAlive
  <2>1. /\ work' = work /\ mstate' = mstate /\ alive' = alive
        /\ wrote' = wrote \/ ApiSend(Said("disconnect", 0))
    BY <1>6, KeepAliveDoes DEF agentVars
  <2>2. CASE wrote' = wrote
    BY <1>1, <2>1, <2>2, QuietOne DEF RegistersAt, OneInv, FirstInv
  <2> QED BY <1>4, <2>1, <2>2
<1> QED BY <1>2, <1>3, <1>5, <1>6 DEF MonitorSteps

\* The monitor sees the end of a stream; a registration written to it is lost.
LEMMA NoticesOne ==
  ASSUME SystemInv, OneInv, alive = "running", NEW c \in Conns, MonitorNotices(c)
  PROVE  OneInv'
<1>1. /\ stream[c] # "ended" /\ stream' = [stream EXCEPT ![c] = "ended"]
      /\ wrote' = [wrote EXCEPT ![c] = <<>>] /\ wrote \in [Conns -> Seq(Messages)]
      /\ UNCHANGED <<masterVars, taken, work, mstate, ever>>
      /\ OnSocketClose
      /\ stream \in [Conns -> {"ended", "connecting", "open"}]
  BY DEF MonitorNotices, OnStreamEnds, StreamEnds, Forget, ClientSeesEnd, OnSocketClose,
     agentVars,
     SystemInv, MonitorInv, AgentShape, ClientShape
<1>2. UNCHANGED <<sock, registered, idMap, peer, sent>>
  BY <1>1 DEF masterVars
<1>3. \A d \in Conns : \A i : RegistersAt(d, i)' <=> d # c /\ RegistersAt(d, i)
  BY <1>1 DEF RegistersAt
<1>4. RegisterInv' /\ TableInv'
  BY <1>1, <1>2, <1>3 DEF OneInv, RegisterInv, TableInv
<1>5. ASSUME Early' PROVE FirstInv'
  <2>1. FirstInv
    BY <1>1, <1>2, <1>3, <1>5 DEF OneInv, Early, ToRegister
  <2>2. ~ever
    <3> SUFFICES ASSUME ever PROVE FALSE
      OBVIOUS
    <3>1. PICK d \in Conns : ToRegister(d)'
      BY <1>1, <1>5 DEF Early
    <3>2. d # c /\ stream[d] = "open"
      BY <1>3, <3>1 DEF ToRegister, OneInv, RegisterInv
    <3> QED BY <1>1, <2>1, <3>2 DEF FirstInv
  <2>3. armed' = armed /\ (alive' = "running" => socket' = socket)
    BY <1>1, <2>2 DEF OnSocketClose
  <2>4. \A d \in Conns : stream'[d] # "ended" => stream[d] # "ended"
    BY <1>1
  <2>5. \A d \in Conns : \A i \in DOMAIN wrote'[d] : i \in DOMAIN wrote[d] /\ wrote'[d][i] = wrote[d][i]
    BY <1>1
  <2> QED BY <1>1, <1>2, <2>1, <2>3, <2>4, <2>5 DEF FirstInv
<1> QED BY <1>4, <1>5 DEF OneInv

\* The monitor reads something: the registration was read before.
LEMMA ReadsOne ==
  ASSUME SystemInv, OneInv, NEW c \in Conns, MonitorReads(c)
  PROVE  OneInv'
<1>1. UNCHANGED <<masterVars, taken, stream, ever, wrote>>
  BY DEF MonitorReads, Hears, OnReply, OnRequest, OnKicked, DisconnectPacket, OnSocketClose
<1>2. ~Early
  <2>1. heard[c] \in Nat /\ heard[c] < Len(sent[c])
    BY DEF MonitorReads, Hears, SystemInv, NetworkShape
  <2>2. sent[c] # <<>>
    BY <2>1
  <2> QED BY <2>2 DEF OneInv, FirstInv
<1>3. UNCHANGED <<sock, registered, idMap, peer, sent>>
  BY <1>1 DEF masterVars
<1>4. \A d \in Conns : \A i : RegistersAt(d, i)' <=> RegistersAt(d, i)
  BY <1>1 DEF RegistersAt
<1>5. ~Early'
  BY <1>1, <1>2, <1>3, <1>4 DEF Early, ToRegister
<1> QED BY <1>1, <1>3, <1>4, <1>5 DEF OneInv, RegisterInv, TableInv

\* A registered connection is the one of the primary.
LEMMA TheRegistered ==
  ASSUME SystemInv, TableInv, NEW c \in registered
  PROVE  /\ c \in Conns /\ peer[c] = Me
         /\ idMap[Me.id] # NONE /\ idMap[Me.id].addr = Me.addr /\ idMap[Me.id].socket = c
         /\ registered = {c}
<1>1. registered \subseteq Conns
  BY DEF SystemInv, MasterInv, P!TypeOK
<1>2. ASSUME NEW d \in registered
      PROVE  /\ peer[d] = Me /\ idMap[Me.id] \in P!Records
             /\ idMap[Me.id].addr = Me.addr /\ idMap[Me.id].socket = d
  <2>1. peer[d] = Me /\ idMap[Me.id] = [id |-> Me.id, addr |-> Me.addr, socket |-> d]
    BY DEF TableInv, P!Record
  <2>2. Me.id \in Servers /\ Me.addr \in Addrs /\ d \in Conns
    BY <1>1, MeKnown DEF P!MonitorPeers
  <2> QED BY <2>1, <2>2 DEF P!Records
<1>3. registered = {c}
  BY <1>2
<1>4. peer[c] = Me /\ idMap[Me.id] # NONE
  BY <1>2, Constants
<1> QED BY <1>1, <1>2, <1>3, <1>4

\* A step of the master after which nothing is left to register that was not before.
LEMMA MasterOne ==
  ASSUME SystemInv, OneInv, UNCHANGED monitorVars, TableInv',
         \A c \in Conns : ToRegister(c)' => ToRegister(c),
         Early => registered' = {} /\ \A c \in Conns : sent'[c] = <<>>
  PROVE  OneInv'
<1>1. UNCHANGED <<wrote, stream, ever, work, mstate, armed, alive, socket>>
  BY DEF monitorVars, agentVars
<1>2. Early' => Early
  BY <1>1 DEF Early
<1>3. RegisterInv'
  BY <1>1 DEF OneInv, RegisterInv, RegistersAt
<1>4. ASSUME Early PROVE FirstInv'
  BY <1>1, <1>4 DEF OneInv, FirstInv
<1> QED BY <1>2, <1>3, <1>4 DEF OneInv

\* The master accepts a stream to which no registration was written yet.
LEMMA AcceptOne ==
  ASSUME SystemInv, OneInv, NEW c \in Conns, Accept(c)
  PROVE  OneInv'
<1>1. /\ UNCHANGED <<monitorVars, taken, wrote, stream>>
      /\ UNCHANGED <<registered, idMap, sent>>
      /\ sock' = [sock EXCEPT ![c] = "open"] /\ peer' = [peer EXCEPT ![c] = NONE]
      /\ stream[c] = "connecting" /\ P!Unused(c)
  BY SameActions DEF Accept, Reaches, P!Connection, monitorVars, network
<1>2. \A d \in Conns : ToRegister(d)' => ToRegister(d)
  <2> SUFFICES ASSUME NEW d \in Conns, ToRegister(d)' PROVE ToRegister(d)
    OBVIOUS
  <2>1. \E i : RegistersAt(d, i) /\ taken[d] < i
    BY <1>1 DEF ToRegister, RegistersAt
  <2>2. stream[d] = "open"
    BY <2>1 DEF OneInv, RegisterInv
  <2> QED BY <1>1, <2>1, <2>2 DEF ToRegister
<1>3. c \notin registered
  <2> SUFFICES ASSUME c \in registered PROVE FALSE
    OBVIOUS
  <2>1. idMap[Me.id] # NONE /\ idMap[Me.id].socket = c
    BY TheRegistered DEF OneInv
  <2>2. c \in P!Sockets(P!Primaries)
    BY <2>1, MeKnown DEF P!Sockets, P!Primaries
  <2> QED BY <1>1, <2>2 DEF P!Unused
<1>4. TableInv'
  BY <1>1, <1>3 DEF OneInv, TableInv, SystemInv, MasterInv, P!TypeOK
<1> QED BY <1>1, <1>2, <1>4, MasterOne DEF OneInv, FirstInv

\* The master sees the end of a connection and removes its record, if it has one.
LEMMA MasterNoticesOne ==
  ASSUME SystemInv, OneInv, NEW c \in Conns, MasterNotices(c)
  PROVE  OneInv'
<1>1. /\ UNCHANGED <<monitorVars, wrote>> /\ P!OnDisconnect(c)
      /\ taken' = [taken EXCEPT ![c] = 0]
      /\ sock' = [sock EXCEPT ![c] = "closed"]
      /\ sent' = [sent EXCEPT ![c] = <<>>]
      /\ P!TypeOK
  BY SameActions DEF MasterNotices, MasterSeesEnd, P!OnDisconnect, monitorVars, SystemInv,
     MasterInv
<1>2. \A d \in Conns : ToRegister(d)' => ToRegister(d)
  BY <1>1 DEF ToRegister, RegistersAt, SystemInv, NetworkShape, P!TypeOK
<1>3. \A d \in Conns \ {c} : peer'[d] = peer[d]
  BY <1>1 DEF P!OnDisconnect, P!TypeOK
<1>4. TableInv'
  <2>1. CASE c \notin registered
    <3>1. UNCHANGED <<registered, idMap>>
      BY <1>1, <2>1 DEF P!OnDisconnect
    <3>2. \A d \in registered : peer'[d] = peer[d]
      BY <1>1, <1>3, <2>1 DEF P!TypeOK
    <3> QED BY <3>1, <3>2 DEF OneInv, TableInv
  <2>2. CASE c \in registered
    <3>1. peer[c] = Me /\ idMap[Me.id] # NONE /\ registered = {c}
      BY <2>2, TheRegistered DEF OneInv
    <3>2. idMap[Me.id].addr = Me.addr
      BY <2>2, TheRegistered DEF OneInv
    <3>3. ~P!ComparesNoInfo(c)
      BY <3>1, <3>2, MeKnown DEF P!ComparesNoInfo
    <3>4. registered' = registered \ {c} /\ P!RemoveMonitor(Me.id, Me.addr)
      BY <1>1, <2>2, <3>1, <3>3, MeKnown DEF P!OnDisconnect, P!MonitorPeers, P!ClientPeers
    <3>5. idMap' = [idMap EXCEPT ![Me.id] = NONE]
      BY <3>1, <3>2, <3>4 DEF P!RemoveMonitor, P!RemovePrimary
    <3>6. registered' = {} /\ idMap' \in [Servers -> P!Records \cup {NONE}]
      BY <1>1, <3>1, <3>4, <3>5 DEF P!TypeOK
    <3> QED BY <1>1, <3>5, <3>6, MeKnown DEF OneInv, TableInv, P!TypeOK
  <2> QED BY <2>1, <2>2
<1>5. registered' \subseteq registered
  BY <1>1 DEF P!OnDisconnect
<1>6. ASSUME Early PROVE registered' = {} /\ \A d \in Conns : sent'[d] = <<>>
  BY <1>1, <1>5, <1>6 DEF OneInv, FirstInv, P!TypeOK
<1> QED BY <1>1, <1>2, <1>4, <1>6, MasterOne

\* A request is written to the monitor only when it is registered.
LEMMA MasterStepsOne ==
  ASSUME SystemInv, OneInv, MasterSteps
  PROVE  OneInv'
<1>1. /\ UNCHANGED <<monitorVars, taken, wrote>> /\ UNCHANGED <<sock, registered, idMap, peer>>
      /\ P!Listen \/ \E s \in Servers : P!Request(s)
  BY SameActions DEF MasterSteps, P!Listen, P!Request, monitorVars, network
<1>2. \A d \in Conns : ToRegister(d)' => ToRegister(d)
  BY <1>1 DEF ToRegister, RegistersAt
<1>3. TableInv'
  BY <1>1 DEF OneInv, TableInv
<1>4. ASSUME Early PROVE sent' = sent
  <2>1. \A s \in Servers : idMap[s] = NONE
    BY <1>4 DEF OneInv, FirstInv, TableInv
  <2> QED BY <1>1, <2>1 DEF P!Listen, P!Request
<1> QED BY <1>1, <1>2, <1>3, <1>4, MasterOne DEF OneInv, FirstInv

\* The master reads a greeting of the monitor.
LEMMA GreetingOne ==
  ASSUME SystemInv, OneInv, NEW c \in Conns,
         \/ P!RegisterMonitor(c, Me) /\ registered = {} /\ c \in registered'
         \/ P!OnReconnect(c, Me)
  PROVE  TableInv'
<1>1. peer' = [peer EXCEPT ![c] = Me] /\ P!TypeOK /\ peer \in [Conns -> P!Peers \cup {NONE}]
  BY DEF P!RegisterMonitor, P!OnReconnect, SystemInv, MasterInv, P!TypeOK
<1>2. \/ idMap[Me.id] = NONE /\ registered' = registered \cup {c} /\ P!AddConnection(c, Me)
      \/ UNCHANGED <<idMap, registered>>
  <2>1. CASE P!RegisterMonitor(c, Me) /\ registered = {} /\ c \in registered'
    <3>1. registered = {} /\ idMap[Me.id] = NONE
      BY <2>1, MeKnown DEF OneInv, TableInv
    <3> QED BY <2>1, <3>1 DEF P!RegisterMonitor
  <2>2. CASE P!OnReconnect(c, Me)
    BY <2>2 DEF P!OnReconnect
  <2> QED BY <2>1, <2>2
<1>3. CASE UNCHANGED <<idMap, registered>>
  <2>1. \A d \in registered : peer'[d] = Me
    BY <1>1 DEF OneInv, TableInv, P!TypeOK
  <2> QED BY <1>3, <2>1 DEF OneInv, TableInv
<1>4. CASE idMap[Me.id] = NONE /\ registered' = registered \cup {c} /\ P!AddConnection(c, Me)
  <2>1. registered = {}
    BY <1>4, TheRegistered DEF OneInv
  <2>2. idMap' = [idMap EXCEPT ![Me.id] = P!Record(c, Me)]
    BY <1>4 DEF P!AddConnection
  <2>3. idMap'[Me.id] = P!Record(c, Me) /\ \A s \in Servers \ {Me.id} : idMap'[s] = idMap[s]
    BY <1>1, <2>2, MeKnown DEF P!TypeOK
  <2>4. P!Record(c, Me).addr = Me.addr /\ P!Record(c, Me).socket = c
    BY DEF P!Record
  <2> QED BY <1>1, <1>4, <2>1, <2>3, <2>4 DEF OneInv, TableInv
<1> QED BY <1>2, <1>3, <1>4

\* The master reads a message; a registration is the first one it reads.
LEMMA MasterReadsOne ==
  ASSUME SystemInv, OneInv, NEW c \in Conns, MasterReads(c)
  PROVE  OneInv'
<1> DEFINE m == ToMaster(c)
           i == taken[c] + 1
<1>1. /\ sock[c] = "open" /\ taken' = [taken EXCEPT ![c] = @ + 1] /\ taken \in [Conns -> Nat]
      /\ UNCHANGED <<monitorVars, wrote, sock>>
      /\ i \in DOMAIN wrote[c]
  <2>1. sock' = sock
    BY SameActions DEF MasterReads, P!RegisterMonitor, P!OnReconnect, P!OnResponse, P!Kick,
       masterVars
  <2>2. wrote[c] \in Seq(Messages) /\ taken[c] \in Nat
    BY DEF SystemInv, MonitorInv, AgentShape, NetworkShape
  <2> QED BY <2>1, <2>2 DEF MasterReads, Takes, SystemInv, NetworkShape, monitorVars
<1>2. \A d \in Conns : ToRegister(d)' => ToRegister(d)
  <2> SUFFICES ASSUME NEW d \in Conns, ToRegister(d)' PROVE ToRegister(d)
    OBVIOUS
  <2>1. PICK j : RegistersAt(d, j) /\ taken'[d] < j
    BY <1>1 DEF ToRegister, RegistersAt
  <2>2. taken[d] < j
    <3>1. j \in Nat
      BY <2>1 DEF RegistersAt, SystemInv, MonitorInv, AgentShape
    <3> QED BY <1>1, <2>1, <3>1
  <2> QED BY <1>1, <2>1, <2>2 DEF ToRegister
<1>3. CASE m.kind = "register"
  <2>1. RegistersAt(c, i)
    BY <1>1, <1>3 DEF RegistersAt, ToMaster
  <2>2. ToRegister(c)
    BY <1>1, <2>1 DEF ToRegister
  <2>3. FirstInv
    BY <2>2 DEF OneInv, Early
  <2>4. P!RegisterMonitor(c, Me) /\ c \in registered'
    BY <1>3, SameActions DEF MasterReads
  <2>5. TableInv'
    BY <2>3, <2>4, GreetingOne DEF FirstInv
  <2>6. UNCHANGED <<stream, ever>>
    BY <1>1 DEF monitorVars
  <2>7. ~Early'
    <3> SUFFICES ASSUME NEW d \in Conns, NEW j, RegistersAt(d, j), taken'[d] < j PROVE FALSE
      <4>1. ever
        BY <2>1 DEF OneInv, RegisterInv
      <4> QED BY <1>1, <2>6, <4>1 DEF Early, ToRegister, RegistersAt
    <3>1. d = c /\ j = i
      BY <2>1 DEF OneInv, RegisterInv
    <3> QED BY <1>1, <3>1
  <2>8. RegisterInv'
    <3>1. RegisterInv /\ wrote' = wrote /\ stream' = stream /\ ever' = ever
      BY <1>1, <2>6 DEF OneInv
    <3> QED BY <3>1 DEF RegisterInv, RegistersAt
  <2> QED BY <2>5, <2>7, <2>8 DEF OneInv
<1>4. CASE m.kind # "register"
  <2>1. m.kind # "disconnect"
    BY DEF MasterReads
  <2>2. ~Early
    BY <1>1, <1>4, <2>1 DEF OneInv, FirstInv, ToMaster
  <2>3. TableInv'
    <3>1. CASE m.kind = "reconnect"
      <4>1. P!OnReconnect(c, Me)
        BY <3>1, SameActions DEF MasterReads
      <4> QED BY <4>1, GreetingOne
    <3>2. CASE m.kind # "reconnect"
      <4>1. UNCHANGED <<registered, idMap, peer>>
        BY <1>4, <3>2, SameActions DEF MasterReads, P!OnResponse, P!Kick, masterVars
      <4> QED BY <4>1 DEF OneInv, TableInv
    <3> QED BY <3>1, <3>2
  <2> QED BY <1>1, <1>2, <2>2, <2>3, MasterOne
<1> QED BY <1>3, <1>4

\* A stream is cut, or nothing happens.
LEMMA StillOne ==
  ASSUME SystemInv, OneInv, UNCHANGED <<monitorVars, masterVars, taken>>
  PROVE  OneInv'
<1>1. UNCHANGED <<wrote, stream, ever, work, mstate, armed, alive, socket>>
  BY DEF monitorVars, agentVars
<1>2. UNCHANGED <<sock, registered, idMap, peer, sent>>
  BY DEF masterVars
<1>3. Early' <=> Early
  BY <1>1, <1>2 DEF Early, ToRegister, RegistersAt
<1>4. RegisterInv' /\ TableInv'
  BY <1>1, <1>2 DEF OneInv, RegisterInv, RegistersAt, TableInv
<1> QED BY <1>1, <1>2, <1>3, <1>4 DEF OneInv, FirstInv

\* Every step but a restart keeps it.
LEMMA OneStep ==
  ASSUME SystemInv, OneInv, [Next]_vars, [~Restart]_vars
  PROVE  OneInv'
<1>1. ASSUME NEW c \in Conns, Cut(c) PROVE OneInv'
  BY <1>1, StillOne DEF Cut, CutOff
<1>2. CASE UNCHANGED vars
  BY <1>2, StillOne DEF vars, network
<1> QED BY <1>1, <1>2, OpenOne, AcknowledgeOne, MonitorStepsOne, NoticesOne, ReadsOne,
      AcceptOne, MasterNoticesOne, MasterReadsOne, MasterStepsOne DEF Next

\* The invariant of a system none of whose processes was started again.
Once == SystemInv /\ (restarts = 0 => OneInv)

\* The system starts in it.
LEMMA OneStart == Init => OneInv
<1> SUFFICES ASSUME Init PROVE OneInv
  OBVIOUS
<1>1. \A c \in Conns : \A i : ~RegistersAt(c, i)
  BY DEF Init, MonitorInit, ClientInit, RegistersAt
<1>2. RegisterInv /\ TableInv
  BY <1>1, MeKnown DEF Init, Master!Init, RegisterInv, TableInv
<1>3. FirstInv
  BY DEF Init, Master!Init, MonitorInit, ClientInit, FirstInv
<1> QED BY <1>2, <1>3 DEF OneInv

\* Once, in every state.
THEOREM RegisteredOnce == Spec => []Once
<1>1. Init => Once
  BY SystemStart, OneStart DEF Once
<1>2. Once /\ [Next]_vars => Once'
  <2> SUFFICES ASSUME Once, [Next]_vars PROVE Once'
    OBVIOUS
  <2>1. SystemInv /\ SystemInv'
    BY SystemStep DEF Once
  <2>2. CASE Restart
    BY <2>1, <2>2 DEF Restart, Once, SystemInv
  <2> SUFFICES ASSUME ~Restart, restarts' = 0 PROVE OneInv'
    BY <2>1, <2>2 DEF Once
  <2>3. OneInv
    BY DEF Once, Next, Open, Acknowledge, MonitorNotices, MonitorReads, Accept, Cut,
       MasterNotices, MasterReads,
      MonitorSteps, MasterSteps, vars
  <2> QED BY <2>1, <2>3, OneStep
<1> QED BY <1>1, <1>2, PTL DEF Spec

\* The master of masterAgent.js never has two connections of a monitor registered, until
\* one of the processes is started again.
THEOREM RegisteredOneAtATime == Spec => [](restarts = 0 => OneRegistered)
<1>1. Once => (restarts = 0 => OneRegistered)
  BY TheRegistered DEF Once, OneInv, OneRegistered
<1> QED BY <1>1, RegisteredOnce, PTL

\* So it never has when no process is started again.
COROLLARY NeverTwo == MaxRestarts = 0 => (Spec => []OneRegistered)
<1> SUFFICES ASSUME MaxRestarts = 0 PROVE Spec => []OneRegistered
  OBVIOUS
<1>1. Once => OneRegistered
  BY TheRegistered DEF Once, SystemInv, OneInv, OneRegistered
<1> QED BY <1>1, RegisteredOnce, PTL

-----------------------------------------------------------------------------
(***************************************************************************)
(* One answer, from the server asked.                                      *)
(***************************************************************************)
\* A request of the master to this monitor.
MadeToMe(r) == r \in P!ReqIds /\ target[r] = Me.id

\* The master is consistent and knows no other peer.
OwnMaster ==
  /\ P!Consistent
  /\ agentState # "CRASHED"
  /\ \A c \in Conns : peer[c] = NONE \/ peer[c] = Me

\* What the monitor executes, and every answer on its way, is to such a request.
OwnAnswers ==
  /\ \A w \in work : MadeToMe(w[2])
  /\ \A c \in Conns : \A i \in DOMAIN wrote[c] :
       wrote[c][i].kind = "response" => MadeToMe(wrote[c][i].n)

OwnInv == SystemInv /\ OwnMaster /\ OwnAnswers

\* A step of the contract of a request, or none.
ContractStep == P!Contract!Next \/ UNCHANGED <<target, answered>>

\* The two instances have the same contract.
LEMMA SameContract ==
  /\ ContractStep => [Master!Contract!Next]_(Master!Contract!vars)
  /\ Master!Init => Master!Contract!Init
<1>1. P!Contract!Next => Master!Contract!Next
  BY DEF P!Contract!Next, Master!Contract!Next, P!Contract!Answer, Master!Contract!Answer,
     P!Contract!Make, Master!Contract!Make
<1>2. Master!Init => Master!Contract!Init
  BY DEF Master!Init, Master!Contract!Init, Master!ReqIds
<1> QED BY <1>1, <1>2 DEF ContractStep, Master!Contract!vars

\* What was made to this monitor stays so; what is executed and answered besides is.
LEMMA AnswersKept ==
  ASSUME OwnAnswers, \A r \in P!ReqIds : target[r] # NONE => target'[r] = target[r],
         \A w \in work' : w \in work \/ MadeToMe(w[2]),
         \A c \in Conns : \A i \in DOMAIN wrote'[c] :
           \/ i \in DOMAIN wrote[c] /\ wrote'[c][i] = wrote[c][i]
           \/ wrote'[c][i].kind = "response" => MadeToMe(wrote'[c][i].n)
  PROVE  OwnAnswers'
<1>1. \A r : MadeToMe(r) => r \in P!ReqIds /\ target'[r] = Me.id
  BY MeKnown, Constants DEF MadeToMe
<1>2. ASSUME NEW w \in work' PROVE MadeToMe(w[2])
  BY <1>2 DEF OwnAnswers
<1>3. ASSUME NEW c \in Conns, NEW i \in DOMAIN wrote'[c], wrote'[c][i].kind = "response"
      PROVE  MadeToMe(wrote'[c][i].n)
  BY <1>3 DEF OwnAnswers
<1> HIDE DEF MadeToMe
<1>4. /\ \A w \in work' : w[2] \in P!ReqIds /\ target'[w[2]] = Me.id
      /\ \A c \in Conns : \A i \in DOMAIN wrote'[c] : wrote'[c][i].kind = "response" =>
           wrote'[c][i].n \in P!ReqIds /\ target'[wrote'[c][i].n] = Me.id
  BY <1>1, <1>2, <1>3
<1> QED BY <1>4 DEF OwnAnswers, MadeToMe, P!ReqIds

\* A write of the monitor appends its message, if it is not lost.
LEMMA WritesLast ==
  ASSUME SystemInv, NEW m \in Messages, DoSend(m) \/ ApiSend(m),
         NEW c \in Conns, NEW i \in DOMAIN wrote'[c]
  PROVE  (i \in DOMAIN wrote[c] /\ wrote'[c][i] = wrote[c][i]) \/ wrote'[c][i] = m
<1>1. wrote[c] \in Seq(Messages) /\ wrote \in [Conns -> Seq(Messages)]
  BY DEF SystemInv, MonitorInv, AgentShape
<1>2. wrote'[c] = wrote[c] \/ wrote'[c] = Append(wrote[c], m)
  BY <1>1 DEF ApiSend, DoSend, Write
<1> QED BY <1>1, <1>2

\* The master stays as it is.
LEMMA MasterStays ==
  ASSUME OwnMaster, UNCHANGED masterVars
  PROVE  OwnMaster' /\ UNCHANGED <<target, answered>>
<1>1. UNCHANGED P!vars
  BY DEF masterVars, P!vars
<1>2. P!Consistent'
  BY <1>1, P!StutterConsistent, Constants DEF OwnMaster
<1>3. UNCHANGED <<agentState, peer, target, answered>>
  BY DEF masterVars
<1> QED BY <1>2, <1>3 DEF OwnMaster

\* A step of the monitor, which executes no more than before and answers nothing.
LEMMA SilentOwn ==
  ASSUME OwnMaster, OwnAnswers, UNCHANGED masterVars, work' \subseteq work,
         \A c \in Conns : \A i \in DOMAIN wrote'[c] :
           \/ i \in DOMAIN wrote[c] /\ wrote'[c][i] = wrote[c][i]
           \/ wrote'[c][i].kind # "response"
  PROVE  OwnMaster' /\ OwnAnswers' /\ ContractStep
<1>1. OwnMaster' /\ UNCHANGED <<target, answered>>
  BY MasterStays
<1>2. OwnAnswers'
  BY <1>1, AnswersKept
<1> QED BY <1>1, <1>2 DEF ContractStep

\* The monitor opens a stream, greets the master on it, sees its end.
LEMMA StreamsOwn ==
  ASSUME OwnInv, NEW c \in Conns, Open(c) \/ Acknowledge(c) \/ MonitorNotices(c)
  PROVE  OwnMaster' /\ OwnAnswers' /\ ContractStep
<1>1. UNCHANGED masterVars /\ work' = work
  BY DEF Open, ConnectMonitor, ReconnectMonitor, Acknowledge, OnConnack, MonitorNotices,
     OnStreamEnds, agentVars
<1>2. wrote \in [Conns -> Seq(Messages)]
  BY DEF OwnInv, SystemInv, MonitorInv, AgentShape
<1>3. CASE wrote' = wrote
  BY <1>1, <1>3, SilentOwn DEF OwnInv
<1>4. CASE \E k \in {"register", "reconnect"} : DoSend(Said(k, 0))
  <2>1. PICK k \in {"register", "reconnect"} : DoSend(Said(k, 0))
    BY <1>4
  <2>2. Said(k, 0) \in Messages /\ Said(k, 0).kind # "response"
    BY SaidType DEF Said
  <2> QED BY <1>1, <2>1, <2>2, WritesLast, SilentOwn DEF OwnInv
<1>5. CASE wrote' = [wrote EXCEPT ![c] = <<>>]
  <2>1. \A d \in Conns : \A i \in DOMAIN wrote'[d] : i \in DOMAIN wrote[d] /\ wrote'[d][i] = wrote[d][i]
    BY <1>2, <1>5
  <2> QED BY <1>1, <2>1, SilentOwn DEF OwnInv
<1> QED BY <1>3, <1>4, <1>5 DEF Open, ConnectMonitor, ReconnectMonitor, Acknowledge, OnConnack,
        MonitorNotices, OnStreamEnds, Forget

\* The monitor reads: a request it was handed was made to it.
LEMMA ReadsOwn ==
  ASSUME OwnInv, NEW c \in Conns, MonitorReads(c)
  PROVE  OwnMaster' /\ OwnAnswers' /\ ContractStep
<1> DEFINE m == ToClient(c)
<1>1. UNCHANGED masterVars /\ UNCHANGED wrote
  BY DEF MonitorReads, OnReply, OnRequest, OnKicked
<1>2. CASE work' = work
  BY <1>1, <1>2, SilentOwn DEF OwnInv
<1>3. CASE m.kind = "request" /\ OnRequest(c, m.n)
  <2>1. m \in P!ToSet(sent[c])
    <3>1. sent[c] \in Seq(P!Message) /\ heard[c] \in Nat /\ heard[c] < Len(sent[c])
      BY DEF OwnInv, SystemInv, MasterInv, P!TypeOK, NetworkShape, MonitorReads, Hears
    <3>2. heard[c] + 1 \in DOMAIN sent[c]
      BY <3>1
    <3> QED BY <3>2 DEF P!ToSet, ToClient
  <2>2. MadeToMe(m.n)
    <3>1. peer[c] \in P!MonitorPeers /\ m.n \in P!ReqIds /\ target[m.n] = peer[c].id
      BY <1>3, <2>1 DEF OwnInv, OwnMaster, P!Consistent, P!HandedOwn
    <3>2. peer[c] # NONE
      BY <3>1, Constants DEF P!Peers
    <3> QED BY <3>1, <3>2 DEF MadeToMe, OwnInv, OwnMaster
  <2>3. \A w \in work' : w \in work \/ MadeToMe(w[2])
    BY <1>3, <2>2 DEF OnRequest
  <2>4. OwnMaster' /\ UNCHANGED <<target, answered>>
    BY <1>1, MasterStays DEF OwnInv
  <2>5. OwnAnswers'
    BY <1>1, <2>3, <2>4, AnswersKept DEF OwnInv
  <2> QED BY <2>4, <2>5 DEF ContractStep
<1> QED BY <1>2, <1>3 DEF MonitorReads, OnReply, OnRequest, OnKicked

\* The monitor answers what it executed, notifies, is closed.
LEMMA MonitorStepsOwn ==
  ASSUME OwnInv, MonitorSteps
  PROVE  OwnMaster' /\ OwnAnswers' /\ ContractStep
<1>1. UNCHANGED masterVars
  BY DEF MonitorSteps
<1>2. CASE OnConnectTimeout
  BY <1>1, <1>2, SilentOwn DEF OnConnectTimeout, agentVars, OwnInv
<1>3. CASE \E k \in {"notify", "disconnect"} : ApiSend(Said(k, 0)) /\ work' = work
  <2>1. PICK k \in {"notify", "disconnect"} : ApiSend(Said(k, 0)) /\ work' = work
    BY <1>3
  <2>2. Said(k, 0) \in Messages /\ Said(k, 0).kind # "response"
    BY SaidType DEF Said
  <2> QED BY <1>1, <2>1, <2>2, WritesLast, SilentOwn DEF OwnInv
<1>4. ASSUME NEW w \in work, Respond(w) PROVE OwnMaster' /\ OwnAnswers' /\ ContractStep
  <2>1. MadeToMe(w[2]) /\ w[2] \in Nat
    BY MonitorAssumption DEF OwnInv, OwnAnswers, SystemInv, MonitorInv, AgentShape
  <2>2. /\ Said("response", w[2]) \in Messages /\ Said("response", w[2]).n = w[2]
        /\ DoSend(Said("response", w[2])) /\ work' \subseteq work
    BY <1>4, <2>1, SaidType DEF Said, Respond
  <2>3. OwnMaster' /\ UNCHANGED <<target, answered>>
    BY <1>1, MasterStays DEF OwnInv
  <2>4. \A c \in Conns : \A i \in DOMAIN wrote'[c] :
          \/ i \in DOMAIN wrote[c] /\ wrote'[c][i] = wrote[c][i]
          \/ wrote'[c][i].kind = "response" => MadeToMe(wrote'[c][i].n)
    BY <2>1, <2>2, WritesLast DEF OwnInv
  <2>5. OwnAnswers'
    BY <2>2, <2>3, <2>4, AnswersKept DEF OwnInv
  <2> QED BY <2>3, <2>5 DEF ContractStep
<1>5. CASE OnKeepAlive
  <2>1. work' = work /\ (wrote' = wrote \/ ApiSend(Said("disconnect", 0)))
    BY <1>5, KeepAliveDoes DEF agentVars
  <2>2. CASE wrote' = wrote
    BY <1>1, <2>1, <2>2, SilentOwn DEF OwnInv
  <2> QED BY <1>3, <2>1, <2>2
<1> QED BY <1>2, <1>3, <1>4, <1>5 DEF MonitorSteps, Notify, CloseMonitor, agentVars

\* A step of the master keeps what it knows of its requests.
LEMMA MasterOwn ==
  ASSUME OwnInv, UNCHANGED monitorVars, P!Consistent', agentState' # "CRASHED",
         \A c \in Conns : peer'[c] \in {NONE, Me, peer[c]},
         \A r \in P!ReqIds : target[r] # NONE => target'[r] = target[r]
  PROVE  OwnMaster' /\ OwnAnswers'
<1>1. work' = work /\ wrote' = wrote
  BY DEF monitorVars, agentVars
<1>2. OwnAnswers'
  BY <1>1, AnswersKept DEF OwnInv
<1> QED BY <1>2 DEF OwnInv, OwnMaster

\* The master accepts a stream.
LEMMA AcceptOwn ==
  ASSUME OwnInv, NEW c \in Conns, Accept(c)
  PROVE  OwnMaster' /\ OwnAnswers' /\ ContractStep
<1>1. P!Connection(c) /\ UNCHANGED monitorVars
  BY SameActions DEF Accept
<1>2. P!Consistent'
  BY <1>1, P!ConnectionConsistent, Constants DEF OwnInv, OwnMaster, SystemInv, MasterInv
<1>3. UNCHANGED <<agentState, target, answered>> /\ \A d \in Conns : peer'[d] \in {NONE, peer[d]}
  BY <1>1 DEF P!Connection, OwnInv, SystemInv, MasterInv, P!TypeOK
<1> QED BY <1>1, <1>2, <1>3, MasterOwn DEF ContractStep, OwnInv, OwnMaster

\* The master sees the end of a connection: the infos it compares are the monitor's.
LEMMA MasterNoticesOwn ==
  ASSUME OwnInv, NEW c \in Conns, MasterNotices(c)
  PROVE  OwnMaster' /\ OwnAnswers' /\ ContractStep
<1>1. P!OnDisconnect(c) /\ UNCHANGED monitorVars
  BY SameActions DEF MasterNotices
<1>2. ~P!ComparesNoInfo(c)
  <2> SUFFICES ASSUME P!ComparesNoInfo(c) PROVE FALSE
    OBVIOUS
  <2>1. /\ peer[c] = Me /\ idMap[Me.id] # NONE
        /\ NoInfo \in {Me.addr, idMap[Me.id].addr} \/ idMap[Me.id].addr # Me.addr
    BY Constants DEF P!ComparesNoInfo, P!Peers, OwnInv, OwnMaster
  <2> DEFINE d == idMap[Me.id].socket
  <2>2. peer[d] \in P!MonitorPeers /\ idMap[Me.id] = P!Record(d, peer[d])
    BY <2>1, MeKnown DEF OwnInv, OwnMaster, P!Consistent, P!PrimaryKnown
  <2>3. d \in Conns
    BY <2>1, MeKnown DEF OwnInv, SystemInv, MasterInv, P!TypeOK, P!Records
  <2>4. peer[d] = Me
    BY <2>2, <2>3, Constants DEF P!Peers, OwnInv, OwnMaster
  <2>5. idMap[Me.id].addr = Me.addr
    BY <2>2, <2>4 DEF P!Record
  <2> QED BY <2>1, <2>5, MeKnown
<1>3. agentState' = agentState
  BY <1>1, <1>2 DEF P!OnDisconnect
<1>4. P!Consistent'
  BY <1>1, <1>3, P!OnDisconnectConsistent, Constants DEF OwnInv, OwnMaster, SystemInv, MasterInv
<1>5. UNCHANGED <<target, answered>> /\ \A d \in Conns : peer'[d] \in {NONE, peer[d]}
  BY <1>1 DEF P!OnDisconnect, OwnInv, SystemInv, MasterInv, P!TypeOK
<1> QED BY <1>1, <1>3, <1>4, <1>5, MasterOwn DEF ContractStep, OwnInv, OwnMaster

\* The master reads a greeting.
LEMMA GreetingOwn ==
  ASSUME OwnInv, NEW c \in Conns, sock[c] = "open", UNCHANGED monitorVars,
         P!RegisterMonitor(c, Me) \/ P!OnReconnect(c, Me)
  PROVE  OwnMaster' /\ OwnAnswers' /\ ContractStep
<1>1. P!Consistent'
  BY MeKnown, P!RegisterMonitorConsistent, P!OnReconnectConsistent, Constants
     DEF OwnInv, OwnMaster, SystemInv, MasterInv
<1>2. UNCHANGED <<agentState, target, answered>> /\ \A d \in Conns : peer'[d] \in {Me, peer[d]}
  BY MeKnown DEF P!RegisterMonitor, P!OnReconnect, OwnInv, SystemInv, MasterInv, P!TypeOK
<1> QED BY <1>1, <1>2, MasterOwn DEF ContractStep, OwnInv, OwnMaster

\* The master reads: an answer on its way is to a request made to this monitor.
LEMMA MasterReadsOwn ==
  ASSUME OwnInv, NEW c \in Conns, MasterReads(c)
  PROVE  OwnMaster' /\ OwnAnswers' /\ ContractStep
<1> DEFINE m == ToMaster(c)
<1>1. UNCHANGED monitorVars /\ sock[c] = "open"
  BY DEF MasterReads, Takes
<1>2. CASE P!RegisterMonitor(c, Me) \/ P!OnReconnect(c, Me)
  BY <1>1, <1>2, GreetingOwn
<1>3. CASE P!Kick(c)
  <2>1. P!Consistent'
    BY <1>3, P!KickConsistent, Constants DEF OwnInv, OwnMaster, SystemInv, MasterInv
  <2>2. UNCHANGED <<agentState, target, answered, peer>>
    BY <1>3 DEF P!Kick
  <2> QED BY <1>1, <2>1, <2>2, MasterOwn DEF ContractStep, OwnInv, OwnMaster
<1>4. CASE m.kind = "response" /\ P!OnResponse(c, m.n)
  <2>1. MadeToMe(m.n)
    <3>1. wrote[c] \in Seq(Messages) /\ taken[c] \in Nat /\ taken[c] < Len(wrote[c])
      BY DEF OwnInv, SystemInv, MonitorInv, AgentShape, NetworkShape, MasterReads, Takes
    <3>2. taken[c] + 1 \in DOMAIN wrote[c]
      BY <3>1
    <3> QED BY <1>4, <3>2 DEF ToMaster, OwnInv, OwnAnswers
  <2>2. peer[c] = Me
    BY <1>4, Constants DEF P!OnResponse, P!Peers, OwnInv, OwnMaster
  <2>3. m.n \in P!ReqIds /\ target[m.n] = peer[c].id /\ P!TypeOK /\ P!Consistent
    BY <2>1, <2>2 DEF MadeToMe, OwnInv, OwnMaster, SystemInv, MasterInv
  <2> HIDE DEF m
  <2>4. P!Consistent' /\ P!Contract!Next
    BY <1>4, <2>3, P!OnResponseConsistent, P!ResponseImplements, Constants
  <2>5. UNCHANGED <<agentState, target, peer>>
    BY <1>4 DEF P!OnResponse
  <2> QED BY <1>1, <2>4, <2>5, MasterOwn DEF ContractStep, OwnInv, OwnMaster
<1>5. CASE UNCHANGED masterVars
  <2>1. work' = work /\ wrote' = wrote
    BY <1>1 DEF monitorVars, agentVars
  <2> QED BY <1>5, <2>1, SilentOwn DEF OwnInv
<1> QED BY <1>2, <1>3, <1>4, <1>5, SameActions DEF MasterReads

\* The master listens, or makes a request.
LEMMA MasterStepsOwn ==
  ASSUME OwnInv, MasterSteps
  PROVE  OwnMaster' /\ OwnAnswers' /\ ContractStep
<1>1. UNCHANGED monitorVars
  BY DEF MasterSteps
<1>2. P!TypeOK /\ P!Consistent /\ agentState # "CRASHED"
  BY DEF OwnInv, OwnMaster, SystemInv, MasterInv
<1>3. CASE P!Listen
  <2>1. P!Consistent'
    BY <1>2, <1>3, P!IdleConsistent, Constants DEF P!Listen
  <2>2. UNCHANGED <<peer, target, answered>> /\ agentState' # "CRASHED"
    BY <1>3 DEF P!Listen
  <2> QED BY <1>1, <2>1, <2>2, MasterOwn DEF ContractStep
<1>4. ASSUME NEW s \in Servers, P!Request(s)
      PROVE  OwnMaster' /\ OwnAnswers' /\ ContractStep
  <2>1. P!NewRequest(s) /\ UNCHANGED <<answered, peer, agentState>>
    BY <1>4 DEF P!Request
  <2>2. P!Consistent'
    BY <1>2, <1>4, P!RequestConsistent, Constants
  <2>3. P!Contract!Next
    BY <1>2, <2>1, P!RequestImplements, Constants
  <2>4. \A r \in P!ReqIds : target[r] # NONE => target'[r] = target[r]
    BY <1>2, <2>1, P!NewRequestConsistent, Constants
  <2> QED BY <1>1, <1>2, <2>1, <2>2, <2>3, <2>4, MasterOwn DEF ContractStep
<1> QED BY <1>3, <1>4, SameActions DEF MasterSteps

\* A monitor that is started again executes nothing and has answered nothing; the
\* callbacks of the master stay.
LEMMA MonitorRestartOwn ==
  ASSUME OwnInv, Restart, RestartMonitor
  PROVE  OwnMaster' /\ OwnAnswers' /\ ContractStep
<1>1. UNCHANGED masterVars /\ work' = {} /\ wrote' = [c \in Conns |-> <<>>]
  BY DEF RestartMonitor
<1>2. \A c \in Conns : DOMAIN wrote'[c] = {}
  BY <1>1
<1> QED BY <1>1, <1>2, SilentOwn DEF OwnInv

\* Every step but a restart of the master keeps the invariant, and is one of the contract.
LEMMA OwnStep ==
  ASSUME OwnInv, [Next]_vars, [Restart => RestartMonitor]_vars
  PROVE  OwnInv' /\ ContractStep
<1>1. SystemInv'
  BY SystemStep DEF OwnInv
<1>2. ASSUME NEW c \in Conns, Cut(c) PROVE OwnMaster' /\ OwnAnswers' /\ ContractStep
  <2>1. UNCHANGED masterVars /\ work' = work /\ wrote' = wrote
    BY <1>2 DEF Cut, monitorVars, agentVars
  <2> QED BY <2>1, SilentOwn DEF OwnInv
<1>3. CASE UNCHANGED vars
  <2>1. UNCHANGED masterVars /\ work' = work /\ wrote' = wrote
    BY <1>3 DEF vars, monitorVars, agentVars
  <2> QED BY <1>1, <2>1, SilentOwn DEF OwnInv
<1>4. CASE Restart /\ RestartMonitor
  BY <1>1, <1>4, MonitorRestartOwn DEF OwnInv
<1>5. CASE Next /\ ~Restart
  BY <1>1, <1>2, <1>5, StreamsOwn, ReadsOwn, MonitorStepsOwn, AcceptOwn, MasterNoticesOwn,
     MasterReadsOwn, MasterStepsOwn DEF Next, OwnInv
<1> QED BY <1>3, <1>4, <1>5

\* The system starts in it.
LEMMA OwnStart == Init => OwnInv
<1> SUFFICES ASSUME Init PROVE OwnInv
  OBVIOUS
<1>1. SystemInv
  BY SystemStart
<1>2. P!Consistent
  BY SameVocabulary, P!InitConsistent, Constants DEF Init
<1>3. agentState # "CRASHED" /\ \A c \in Conns : peer[c] = NONE
  BY DEF Init, Master!Init
<1>4. OwnAnswers
  BY DEF Init, MonitorInit, ClientInit, OwnAnswers
<1> QED BY <1>1, <1>2, <1>3, <1>4 DEF OwnInv, OwnMaster

\* AnswersOnce: over the real channels, with answers crossing pushes, streams cut and the
\* monitor started again while it executes requests, the callback of a request of
\* masterAgent.js gets at most one answer, from the server asked; as long as the master
\* itself is not started again, which gives the ids of its requests out anew.
THEOREM SystemAnswersOnce == Spec /\ [][Restart => RestartMonitor]_vars => AnswersOnce
<1>1. Init => OwnInv /\ Master!Contract!Init
  BY OwnStart, SameContract DEF Init
<1>2. OwnInv /\ [Next]_vars /\ [Restart => RestartMonitor]_vars => OwnInv'
  BY OwnStep
<1>3. OwnInv /\ [Next]_vars /\ [Restart => RestartMonitor]_vars =>
        [Master!Contract!Next]_(Master!Contract!vars)
  BY OwnStep, SameContract
<1> QED BY <1>1, <1>2, <1>3, PTL DEF Spec, AnswersOnce, Master!AnswersOnce, Master!Contract!Spec

\* So it does when no process is started again.
COROLLARY AnswersOnceUnrestarted == MaxRestarts = 0 => (Spec => AnswersOnce)
<1> SUFFICES ASSUME MaxRestarts = 0 PROVE Spec => AnswersOnce
  OBVIOUS
<1>1. SystemInv /\ [Next]_vars => [Restart => RestartMonitor]_vars
  BY DEF Restart, SystemInv
<1> QED BY <1>1, SystemAgrees, SystemAnswersOnce, PTL DEF Spec

-----------------------------------------------------------------------------
(***************************************************************************)
(* What each side meets: the greeting.                                     *)
(***************************************************************************)
\* The i-th message of the monitor on a stream is a greeting; is the last one it sends.
GreetsAt(c, i) == i \in DOMAIN wrote[c] /\ wrote[c][i].kind \in {"register", "reconnect"}
LeavesAt(c, i) == i \in DOMAIN wrote[c] /\ wrote[c][i].kind = "disconnect"

\* The master has read a greeting.
GreetingRead(c) == \E i : GreetsAt(c, i) /\ i <= taken[c]

\* A stream is greeted on once, unless the client was closed in between: then it has said
\* so on that stream.
GreetingInv ==
  /\ \A c \in Conns : \A i : GreetsAt(c, i) => wrote[c][i].n = 0
  /\ \A c \in Conns : \A i, j : GreetsAt(c, i) /\ GreetsAt(c, j) /\ i < j =>
       \E k : LeavesAt(c, k) /\ k < j
  /\ \A c \in Conns : \A i : c = socket /\ ~connected /\ GreetsAt(c, i) => \E k : LeavesAt(c, k)

\* The master has read what was written, up to the end at most.
ReadInv ==
  \A c \in Conns :
    /\ stream[c] # "ended" => taken[c] <= Len(wrote[c])
    /\ stream[c] = "ended" => wrote[c] = <<>>
    /\ sock[c] = "closed" => taken[c] = 0
    /\ \A k : LeavesAt(c, k) => taken[c] < k

\* One message more, or none.
More(c, m) == wrote'[c] = wrote[c] \/ (stream[c] # "ended" /\ wrote'[c] = Append(wrote[c], m))

\* What was written and read.
LEMMA WroteShape ==
  ASSUME SystemInv, NEW c \in Conns
  PROVE  /\ wrote[c] \in Seq(Messages) /\ DOMAIN wrote[c] = 1..Len(wrote[c])
         /\ Len(wrote[c]) \in Nat /\ taken[c] \in Nat
<1>1. wrote[c] \in Seq(Messages) /\ taken[c] \in Nat
  BY DEF SystemInv, MonitorInv, AgentShape, NetworkShape
<1> QED BY <1>1

\* A write goes to this.socket.
LEMMA WritesMore ==
  ASSUME SystemInv, NEW m, DoSend(m) \/ ApiSend(m)
  PROVE  /\ \A c \in Conns : More(c, m)
         /\ \A c \in Conns \ {socket} : wrote'[c] = wrote[c]
         /\ socket # NONE /\ stream[socket] # "ended" => wrote'[socket] = Append(wrote[socket], m)
<1>1. wrote \in [Conns -> Seq(Messages)] /\ socket \in Conns \cup {NONE}
  BY DEF SystemInv, MonitorInv, AgentShape, ClientShape
<1> QED BY <1>1 DEF ApiSend, DoSend, Write, More

\* Where greetings are afterwards.
LEMMA MoreMeans ==
  ASSUME SystemInv, NEW c \in Conns, NEW m \in Messages, More(c, m), NEW i
  PROVE  /\ GreetsAt(c, i) => GreetsAt(c, i)' /\ wrote'[c][i] = wrote[c][i] /\ i \in 1..Len(wrote[c])
         /\ LeavesAt(c, i) => LeavesAt(c, i)' /\ i \in 1..Len(wrote[c])
         /\ GreetsAt(c, i)' =>
              \/ GreetsAt(c, i) /\ wrote'[c][i] = wrote[c][i] /\ i \in 1..Len(wrote[c])
              \/ /\ i = Len(wrote[c]) + 1 /\ wrote'[c] = Append(wrote[c], m) /\ wrote'[c][i] = m
                 /\ m.kind \in {"register", "reconnect"} /\ stream[c] # "ended"
         /\ LeavesAt(c, i)' =>
              \/ LeavesAt(c, i) /\ i \in 1..Len(wrote[c])
              \/ i = Len(wrote[c]) + 1 /\ m.kind = "disconnect" /\ stream[c] # "ended"
<1>1. wrote[c] \in Seq(Messages) /\ DOMAIN wrote[c] = 1..Len(wrote[c]) /\ Len(wrote[c]) \in Nat
  BY WroteShape
<1>2. CASE wrote'[c] = wrote[c]
  BY <1>1, <1>2 DEF GreetsAt, LeavesAt
<1>3. CASE stream[c] # "ended" /\ wrote'[c] = Append(wrote[c], m)
  <2>1. /\ DOMAIN wrote'[c] = 1..(Len(wrote[c]) + 1) /\ wrote'[c][Len(wrote[c]) + 1] = m
        /\ \A j \in 1..Len(wrote[c]) : wrote'[c][j] = wrote[c][j]
    BY <1>1, <1>3
  <2> QED BY <1>1, <1>3, <2>1 DEF GreetsAt, LeavesAt
<1> QED BY <1>2, <1>3 DEF More

\* A step of the monitor that writes no greeting, on streams that stay as they are.
LEMMA OtherMessageGreeting ==
  ASSUME SystemInv, GreetingInv, ReadInv, NEW m \in Messages, m.kind \notin {"register", "reconnect"},
         DoSend(m) \/ ApiSend(m), UNCHANGED <<stream, socket, sock, taken>>,
         connected' = connected \/ m.kind = "disconnect"
  PROVE  GreetingInv' /\ ReadInv'
<1>1. \A c \in Conns : More(c, m)
  BY WritesMore
<1>2. \A c \in Conns : \A i :
        /\ GreetsAt(c, i)' <=> GreetsAt(c, i)
        /\ GreetsAt(c, i) => wrote'[c][i] = wrote[c][i]
        /\ LeavesAt(c, i) => LeavesAt(c, i)'
  BY <1>1, MoreMeans
<1>3. \A c \in Conns : \A i : GreetsAt(c, i)' => wrote'[c][i].n = 0
  BY <1>2 DEF GreetingInv
<1>4. \A c \in Conns : \A i, j : GreetsAt(c, i)' /\ GreetsAt(c, j)' /\ i < j =>
        \E k : LeavesAt(c, k)' /\ k < j
  BY <1>2 DEF GreetingInv
<1>5. ASSUME NEW c \in Conns, c = socket, ~connected', NEW i, GreetsAt(c, i)
      PROVE  \E k : LeavesAt(c, k)'
  <2>1. CASE connected' = connected
    BY <1>2, <1>5, <2>1 DEF GreetingInv
  <2>2. CASE m.kind = "disconnect"
    <3>1. wrote[c] \in Seq(Messages) /\ DOMAIN wrote[c] = 1..Len(wrote[c]) /\ Len(wrote[c]) \in Nat
      BY WroteShape
    <3>2. stream[c] # "ended" /\ socket # NONE
      BY <1>5, <3>1, ClientAssumption DEF ReadInv, GreetsAt
    <3>3. wrote'[c] = Append(wrote[c], m)
      BY <1>5, <3>2, WritesMore
    <3>4. Len(wrote[c]) + 1 \in DOMAIN wrote'[c] /\ wrote'[c][Len(wrote[c]) + 1] = m
      BY <3>1, <3>3
    <3> QED BY <2>2, <3>4 DEF LeavesAt
  <2> QED BY <2>1, <2>2
<1>6. GreetingInv'
  BY <1>2, <1>3, <1>4, <1>5 DEF GreetingInv
<1>7. ASSUME NEW c \in Conns
      PROVE  /\ stream[c] # "ended" => taken[c] <= Len(wrote'[c])
             /\ stream[c] = "ended" => wrote'[c] = <<>>
             /\ \A k : LeavesAt(c, k)' => taken[c] < k
  <2>1. More(c, m) /\ Len(wrote[c]) \in Nat /\ taken[c] \in Nat /\ wrote[c] \in Seq(Messages)
    BY <1>1, WroteShape
  <2>2. Len(wrote'[c]) = Len(wrote[c]) \/ Len(wrote'[c]) = Len(wrote[c]) + 1
    BY <2>1 DEF More
  <2>3. \A k : LeavesAt(c, k)' => taken[c] < k
    BY <1>1, <2>1, MoreMeans DEF ReadInv
  <2> QED BY <2>1, <2>2, <2>3 DEF More, ReadInv
<1>8. ReadInv'
  BY <1>7 DEF ReadInv
<1> QED BY <1>6, <1>8

\* The monitor opens a stream that both ends are done with.
LEMMA OpenGreeting ==
  ASSUME SystemInv, GreetingInv, ReadInv, NEW c \in Conns, Open(c)
  PROVE  GreetingInv' /\ ReadInv'
<1>1. /\ stream[c] = "ended" /\ stream' = [stream EXCEPT ![c] = "connecting"] /\ socket' = c
      /\ UNCHANGED <<wrote, taken, sock>> /\ sock[c] = "closed"
      /\ stream \in [Conns -> {"ended", "connecting", "open"}]
  BY DEF Open, Done, Master!Unused, ConnectMonitor, ReconnectMonitor, FirstConnect, ReconnectTimer,
     Connect, masterVars, network, SystemInv, MonitorInv, ClientShape
<1>2. \A d \in Conns : \A i : (GreetsAt(d, i)' <=> GreetsAt(d, i)) /\ (LeavesAt(d, i)' <=> LeavesAt(d, i))
  BY <1>1 DEF GreetsAt, LeavesAt
<1>3. wrote[c] = <<>> /\ taken[c] = 0
  BY <1>1 DEF ReadInv
<1>4. \A i : ~GreetsAt(c, i)
  BY <1>3 DEF GreetsAt
<1>5. GreetingInv'
  BY <1>1, <1>2, <1>4 DEF GreetingInv
<1>6. Len(wrote[c]) = 0
  BY <1>3
<1> QED BY <1>1, <1>2, <1>3, <1>5, <1>6 DEF ReadInv

\* CONNACK: a client that was not connected greets the master on its stream, on which it
\* has left if it greeted there before.
LEMMA AcknowledgeGreeting ==
  ASSUME SystemInv, GreetingInv, ReadInv, NEW c \in Conns, Acknowledge(c)
  PROVE  GreetingInv' /\ ReadInv'
<1>1. /\ stream[c] = "connecting" /\ stream' = [stream EXCEPT ![c] = "open"] /\ socket' = socket
      /\ UNCHANGED <<taken, sock>> /\ connected'
      /\ stream \in [Conns -> {"ended", "connecting", "open"}]
  BY DEF Acknowledge, OnConnack, Connack, masterVars, network, SystemInv, MonitorInv, ClientShape
<1>2. \A d \in Conns : stream'[d] = "ended" <=> stream[d] = "ended"
  BY <1>1
<1>3. CASE wrote' = wrote
  <2>1. \A d \in Conns : \A i : (GreetsAt(d, i)' <=> GreetsAt(d, i)) /\ (LeavesAt(d, i)' <=> LeavesAt(d, i))
    BY <1>3 DEF GreetsAt, LeavesAt
  <2> QED BY <1>1, <1>2, <1>3, <2>1 DEF GreetingInv, ReadInv
<1>4. ASSUME NEW k \in {"register", "reconnect"}, DoSend(Said(k, 0)), ~connected, socket # NONE
      PROVE  GreetingInv' /\ ReadInv'
  <2> DEFINE m == Said(k, 0)
  <2>1. m \in Messages /\ m.kind = k /\ m.n = 0 /\ m.kind # "disconnect"
    BY SaidType DEF Said
  <2> HIDE DEF m
  <2>2. \A d \in Conns : More(d, m)
    BY <1>4, <2>1, WritesMore DEF m
  <2>3. \A d \in Conns \ {socket} : wrote'[d] = wrote[d]
    BY <1>4, <2>1, WritesMore DEF m
  <2>4. \A d \in Conns : \A i :
          /\ LeavesAt(d, i) <=> LeavesAt(d, i)'
          /\ GreetsAt(d, i)' =>
               \/ GreetsAt(d, i) /\ wrote'[d][i] = wrote[d][i] /\ i \in 1..Len(wrote[d])
               \/ i = Len(wrote[d]) + 1 /\ wrote'[d][i] = m /\ d = socket
    <3> SUFFICES ASSUME NEW d \in Conns, NEW i
                 PROVE  /\ LeavesAt(d, i) <=> LeavesAt(d, i)'
                        /\ GreetsAt(d, i)' =>
                             \/ GreetsAt(d, i) /\ wrote'[d][i] = wrote[d][i] /\ i \in 1..Len(wrote[d])
                             \/ i = Len(wrote[d]) + 1 /\ wrote'[d][i] = m /\ d = socket
      OBVIOUS
    <3>1. d # socket => wrote'[d] = wrote[d]
      BY <2>3
    <3>2. wrote[d] # Append(wrote[d], m)
      <4>1. wrote[d] \in Seq(Messages) /\ Len(wrote[d]) \in Nat
        BY WroteShape
      <4>2. Len(Append(wrote[d], m)) = Len(wrote[d]) + 1
        BY <2>1, <4>1
      <4> QED BY <4>1, <4>2
    <3> QED BY <2>1, <2>2, <3>1, <3>2, MoreMeans
  <2>5. \A d \in Conns : \A i : GreetsAt(d, i)' => wrote'[d][i].n = 0
    BY <2>1, <2>4 DEF GreetingInv
  <2>6. ASSUME NEW d \in Conns, NEW i, NEW j, GreetsAt(d, i)', GreetsAt(d, j)', i < j
        PROVE  \E e : LeavesAt(d, e)' /\ e < j
    <3>1. CASE GreetsAt(d, j)
      <4>1. GreetsAt(d, i)
        <5>1. j \in 1..Len(wrote[d]) /\ Len(wrote[d]) \in Nat
          BY <3>1, WroteShape DEF GreetsAt
        <5> QED BY <2>4, <2>6, <5>1
      <4> QED BY <2>4, <2>6, <3>1, <4>1 DEF GreetingInv
    <3>2. CASE j = Len(wrote[d]) + 1 /\ d = socket
      <4>1. Len(wrote[d]) \in Nat /\ DOMAIN wrote[d] = 1..Len(wrote[d])
        BY WroteShape
      <4>2. GreetsAt(d, i)
        BY <2>4, <2>6, <3>2, <4>1
      <4>3. PICK e : LeavesAt(d, e)
        BY <1>4, <3>2, <4>2 DEF GreetingInv
      <4>4. e \in 1..Len(wrote[d])
        BY <4>1, <4>3 DEF LeavesAt
      <4> QED BY <2>4, <3>2, <4>1, <4>3, <4>4
    <3> QED BY <2>4, <2>6, <3>1, <3>2
  <2>7. GreetingInv'
    BY <1>1, <2>5, <2>6 DEF GreetingInv
  <2>8. ASSUME NEW d \in Conns
        PROVE  /\ stream[d] # "ended" => taken[d] <= Len(wrote'[d])
               /\ stream[d] = "ended" => wrote'[d] = <<>>
               /\ \A e : LeavesAt(d, e)' => taken[d] < e
    <3>1. More(d, m) /\ Len(wrote[d]) \in Nat /\ taken[d] \in Nat /\ wrote[d] \in Seq(Messages)
      BY <2>2, WroteShape
    <3>2. Len(wrote'[d]) = Len(wrote[d]) \/ Len(wrote'[d]) = Len(wrote[d]) + 1
      BY <2>1, <3>1 DEF More
    <3> QED BY <2>4, <3>1, <3>2 DEF More, ReadInv
  <2>9. ReadInv'
    BY <1>1, <1>2, <2>8 DEF ReadInv
  <2> QED BY <2>7, <2>9
<1> QED BY <1>3, <1>4 DEF Acknowledge, OnConnack, DoSend

\* The monitor sees the end of a stream: what was written to it is gone.
LEMMA NoticesGreeting ==
  ASSUME SystemInv, GreetingInv, ReadInv, NEW c \in Conns, MonitorNotices(c)
  PROVE  GreetingInv' /\ ReadInv'
<1>1. /\ stream' = [stream EXCEPT ![c] = "ended"]
      /\ wrote' = [wrote EXCEPT ![c] = <<>>]
      /\ UNCHANGED <<taken, sock>>
      /\ socket' = NONE \/ UNCHANGED <<socket, connected>>
      /\ stream \in [Conns -> {"ended", "connecting", "open"}] /\ wrote \in [Conns -> Seq(Messages)]
  BY DEF MonitorNotices, OnStreamEnds, StreamEnds, Forget, ClientSeesEnd, OnSocketClose, masterVars,
     SystemInv, MonitorInv, ClientShape, AgentShape
<1>2. wrote'[c] = <<>> /\ stream'[c] = "ended"
      /\ \A d \in Conns \ {c} : wrote'[d] = wrote[d] /\ stream'[d] = stream[d]
  BY <1>1
<1>3. \A i : ~GreetsAt(c, i)' /\ ~LeavesAt(c, i)'
  BY <1>2 DEF GreetsAt, LeavesAt
<1>4. \A d \in Conns \ {c} : \A i :
        (GreetsAt(d, i)' <=> GreetsAt(d, i)) /\ (LeavesAt(d, i)' <=> LeavesAt(d, i))
  BY <1>2 DEF GreetsAt, LeavesAt
<1>5. GreetingInv'
  BY <1>1, <1>2, <1>3, <1>4, ClientAssumption DEF GreetingInv
<1>6. ReadInv'
  BY <1>1, <1>2, <1>3, <1>4 DEF ReadInv
<1> QED BY <1>5, <1>6

\* The monitor does not write, and what the master has read of it stays.
LEMMA StillGreeting ==
  ASSUME GreetingInv, ReadInv, UNCHANGED <<stream, wrote, taken>>,
         \A c \in Conns : sock'[c] = "closed" => sock[c] = "closed",
         socket' = NONE \/ UNCHANGED <<socket, connected>>
  PROVE  GreetingInv' /\ ReadInv'
<1>1. \A d \in Conns : \A i : (GreetsAt(d, i)' <=> GreetsAt(d, i)) /\ (LeavesAt(d, i)' <=> LeavesAt(d, i))
  BY DEF GreetsAt, LeavesAt
<1> QED BY <1>1, ClientAssumption DEF GreetingInv, ReadInv

\* The master has read one message more; it reads none that leaves.
LEMMA MasterReadsGreeting ==
  ASSUME SystemInv, GreetingInv, ReadInv, NEW c \in Conns, MasterReads(c)
  PROVE  GreetingInv' /\ ReadInv' /\ sock' = sock /\ taken[c] + 1 \in DOMAIN wrote[c]
<1>1. /\ UNCHANGED <<stream, wrote, socket, connected>> /\ sock[c] = "open"
      /\ taken' = [taken EXCEPT ![c] = @ + 1] /\ taken \in [Conns -> Nat]
      /\ taken[c] < Len(wrote[c]) /\ ToMaster(c).kind # "disconnect"
  BY DEF MasterReads, Takes, monitorVars, SystemInv, NetworkShape
<1>2. sock' = sock
  BY SameActions DEF MasterReads, P!RegisterMonitor, P!OnReconnect, P!OnResponse, P!Kick,
     masterVars
<1>3. \A d \in Conns : \A i : (GreetsAt(d, i)' <=> GreetsAt(d, i)) /\ (LeavesAt(d, i)' <=> LeavesAt(d, i))
  BY <1>1 DEF GreetsAt, LeavesAt
<1>4. GreetingInv'
  BY <1>1, <1>3 DEF GreetingInv
<1>5. /\ DOMAIN wrote[c] = 1..Len(wrote[c]) /\ Len(wrote[c]) \in Nat /\ taken[c] \in Nat
      /\ taken'[c] = taken[c] + 1 /\ \A d \in Conns \ {c} : taken'[d] = taken[d]
  BY <1>1, WroteShape
<1>6. ASSUME NEW k, LeavesAt(c, k) PROVE taken[c] + 1 < k
  <2>1. taken[c] < k /\ k \in Nat /\ k # taken[c] + 1
    BY <1>1, <1>5, <1>6 DEF ReadInv, LeavesAt, ToMaster
  <2> QED BY <1>5, <2>1
<1>7. ReadInv'
  BY <1>1, <1>2, <1>3, <1>5, <1>6 DEF ReadInv
<1> QED BY <1>2, <1>4, <1>5, <1>1, <1>7

\* The master closes a connection, and has read nothing of its next stream.
LEMMA MasterNoticesGreeting ==
  ASSUME SystemInv, GreetingInv, ReadInv, NEW c \in Conns, MasterNotices(c)
  PROVE  GreetingInv' /\ ReadInv'
<1>1. /\ UNCHANGED <<stream, wrote, socket, connected>>
      /\ taken' = [taken EXCEPT ![c] = 0] /\ taken \in [Conns -> Nat]
      /\ sock' = [sock EXCEPT ![c] = "closed"] /\ sock \in [Conns -> {"open", "closed"}]
  BY DEF MasterNotices, MasterSeesEnd, Master!OnDisconnect, monitorVars, SystemInv, NetworkShape,
     MasterInv, P!TypeOK
<1>2. \A d \in Conns : \A i : (GreetsAt(d, i)' <=> GreetsAt(d, i)) /\ (LeavesAt(d, i)' <=> LeavesAt(d, i))
  BY <1>1 DEF GreetsAt, LeavesAt
<1>3. GreetingInv'
  BY <1>1, <1>2 DEF GreetingInv
<1>4. taken'[c] = 0 /\ \A d \in Conns \ {c} : taken'[d] = taken[d] /\ sock'[d] = sock[d]
  BY <1>1
<1>5. Len(wrote[c]) \in Nat /\ \A k : LeavesAt(c, k) => k \in 1..Len(wrote[c])
  BY WroteShape DEF LeavesAt
<1>6. ReadInv'
  BY <1>1, <1>2, <1>4, <1>5 DEF ReadInv
<1> QED BY <1>3, <1>6

\* What the monitor does besides: it answers, notifies, is closed.
LEMMA MonitorStepsGreeting ==
  ASSUME SystemInv, GreetingInv, ReadInv, MonitorSteps
  PROVE  GreetingInv' /\ ReadInv'
<1>1. UNCHANGED <<stream, socket, sock, taken>>
  BY KeepAliveDoes DEF MonitorSteps, OnConnectTimeout, ConnectTimeout, Respond, Notify, CloseMonitor,
     CloseClient, network, masterVars
<1>2. CASE OnConnectTimeout
  <2>1. UNCHANGED <<wrote, connected>>
    BY <1>2 DEF OnConnectTimeout, ConnectTimeout
  <2> QED BY <1>1, <2>1, StillGreeting
<1>3. ASSUME NEW k \in {"response", "notify"}, NEW n \in Nat, connected' = connected,
             DoSend(Said(k, n)) \/ ApiSend(Said(k, n))
      PROVE  GreetingInv' /\ ReadInv'
  <2>1. Said(k, n) \in Messages /\ Said(k, n).kind = k
    BY SaidType DEF Said
  <2> QED BY <1>1, <1>3, <2>1, OtherMessageGreeting
<1>4. CASE ApiSend(Said("disconnect", 0))
  <2>1. Said("disconnect", 0) \in Messages /\ Said("disconnect", 0).kind = "disconnect"
    BY SaidType DEF Said
  <2> QED BY <1>1, <1>4, <2>1, OtherMessageGreeting
<1>7. CASE CloseMonitor
  BY <1>4, <1>7 DEF CloseMonitor
<1>8. CASE OnKeepAlive
  <2>1. UNCHANGED <<wrote, connected>> \/ ApiSend(Said("disconnect", 0))
    BY <1>8, KeepAliveDoes
  <2> QED BY <1>1, <1>4, <2>1, StillGreeting
<1>5. CASE Notify
  BY <1>3, <1>5 DEF Notify
<1>6. CASE \E w \in work : Respond(w)
  <2>1. \A w \in work : w[2] \in Nat
    BY MonitorAssumption DEF SystemInv, MonitorInv, AgentShape
  <2> QED BY <1>3, <1>6, <2>1 DEF Respond
<1> QED BY <1>2, <1>5, <1>6, <1>7, <1>8 DEF MonitorSteps

\* A stream is greeted on once, and read in order.
LEMMA GreetingStep ==
  ASSUME SystemInv, GreetingInv, ReadInv, [Next]_vars, [~Restart]_vars
  PROVE  GreetingInv' /\ ReadInv'
<1>1. ASSUME NEW c \in Conns, MonitorReads(c) PROVE GreetingInv' /\ ReadInv'
  <2>1. UNCHANGED <<stream, wrote, taken, sock>> /\ (socket' = NONE \/ UNCHANGED <<socket, connected>>)
    BY <1>1 DEF MonitorReads, Hears, OnReply, OnRequest, OnKicked, DisconnectPacket, OnSocketClose,
       masterVars
  <2> QED BY <2>1, StillGreeting
<1>2. ASSUME NEW c \in Conns, Accept(c) PROVE GreetingInv' /\ ReadInv'
  <2>1. UNCHANGED <<stream, wrote, taken, socket, connected>> /\ sock' = [sock EXCEPT ![c] = "open"]
        /\ sock \in [Conns -> {"open", "closed"}]
    BY <1>2 DEF Accept, Master!Connection, monitorVars, network, SystemInv, MasterInv, P!TypeOK
  <2>2. \A d \in Conns : sock'[d] = "closed" => sock[d] = "closed"
    BY <2>1
  <2> QED BY <2>1, <2>2, StillGreeting
<1>3. CASE MasterSteps \/ UNCHANGED vars \/ \E c \in Conns : Cut(c)
  <2>1. UNCHANGED <<stream, wrote, taken, socket, connected, sock>>
    BY <1>3 DEF MasterSteps, Master!Listen, Master!Request, Cut, CutOff, vars, monitorVars, masterVars, network
  <2> QED BY <2>1, StillGreeting
<1> QED BY <1>1, <1>2, <1>3, OpenGreeting, AcknowledgeGreeting, NoticesGreeting, MonitorStepsGreeting,
       MasterReadsGreeting, MasterNoticesGreeting DEF Next

-----------------------------------------------------------------------------
(***************************************************************************)
(* What each side meets: they know each other by a greeting only.          *)
(***************************************************************************)
\* One of them has told the other something on the stream, or the master knows who it is.
Acquainted(c) ==
  \/ \E i \in DOMAIN sent[c] : sent[c][i].kind # "disconnect"
  \/ c \in registered
  \/ peer[c] # NONE
  \/ c \in replied
  \/ \E r : <<c, r>> \in given

\* By then the master has read a greeting; it writes nothing before it has read something.
Meets(c) ==
  stream[c] # "ended" /\ sock[c] = "open" =>
    /\ Acquainted(c) => GreetingRead(c)
    /\ sent[c] # <<>> => taken[c] > 0

MeetInv == \A c \in Conns : Meets(c)

\* What the monitor was told on a stream goes with the stream, and what was registered with
\* its connection.
HeardInv ==
  /\ \A c \in replied : stream[c] = "open"
  /\ \A c \in Conns : \A r : <<c, r>> \in given =>
       stream[c] = "open" /\ r \in P!ReqIds /\ target[r] # NONE
  /\ \A c \in registered : sock[c] = "open"

\* What the monitor reads is there.
LEMMA NextOfMaster ==
  ASSUME SystemInv, NEW c \in Conns, MonitorReads(c)
  PROVE  /\ heard[c] \in Nat /\ heard[c] + 1 \in DOMAIN sent[c] /\ ToClient(c) = sent[c][heard[c] + 1]
         /\ sent[c] \in Seq(P!Message) /\ stream[c] = "open" /\ heard' = [heard EXCEPT ![c] = @ + 1]
         /\ heard \in [Conns -> Nat]
<1>1. sent[c] \in Seq(P!Message) /\ heard[c] \in Nat /\ heard[c] < Len(sent[c]) /\ stream[c] = "open"
  BY DEF SystemInv, MasterInv, P!TypeOK, NetworkShape, MonitorReads, Hears
<1>2. heard[c] + 1 \in DOMAIN sent[c]
  BY <1>1
<1> QED BY <1>1, <1>2 DEF ToClient, MonitorReads, Hears, SystemInv, NetworkShape

\* A request on its way was made.
LEMMA RequestMade ==
  ASSUME OwnInv, NEW c \in Conns, NEW i \in DOMAIN sent[c], sent[c][i].kind = "request"
  PROVE  sent[c][i].n \in P!ReqIds /\ target[sent[c][i].n] # NONE
<1>1. sent[c][i] \in P!ToSet(sent[c])
  BY DEF P!ToSet
<1>2. peer[c] \in P!MonitorPeers /\ sent[c][i].n \in P!ReqIds /\ target[sent[c][i].n] = peer[c].id
  BY <1>1 DEF OwnInv, OwnMaster, P!Consistent, P!HandedOwn
<1> QED BY <1>2, Constants DEF P!MonitorPeers

\* What was told is kept.
LEMMA HeardStep ==
  ASSUME OwnInv, OwnMaster', HeardInv, [Next]_vars, [~Restart]_vars
  PROVE  HeardInv'
<1>1. /\ replied \subseteq Conns /\ given \subseteq Conns \X Reqs
      /\ stream \in [Conns -> {"ended", "connecting", "open"}]
      /\ sock \in [Conns -> {"open", "closed"}] /\ registered \subseteq Conns
  BY DEF OwnInv, SystemInv, MonitorInv, AgentShape, ClientShape, MasterInv, P!TypeOK
<1>2. ASSUME UNCHANGED <<masterVars, replied, given>>,
             \A c \in Conns : stream[c] = "open" => stream'[c] = "open"
      PROVE  HeardInv'
  <2>1. UNCHANGED <<registered, sock, target>>
    BY <1>2 DEF masterVars
  <2> QED BY <1>1, <1>2, <2>1 DEF HeardInv
<1>3. ASSUME NEW c \in Conns, Open(c) \/ Acknowledge(c) PROVE HeardInv'
  <2>1. UNCHANGED <<masterVars, replied, given>>
    BY <1>3 DEF Open, ConnectMonitor, ReconnectMonitor, Acknowledge, OnConnack, histVars
  <2>2. \/ stream[c] = "ended" /\ stream' = [stream EXCEPT ![c] = "connecting"]
        \/ stream' = [stream EXCEPT ![c] = "open"]
    BY <1>3 DEF Open, ConnectMonitor, ReconnectMonitor, FirstConnect, ReconnectTimer, Connect, Acknowledge,
       OnConnack, Connack
  <2> QED BY <1>1, <1>2, <2>1, <2>2
<1>4. ASSUME NEW c \in Conns, MonitorNotices(c) PROVE HeardInv'
  <2>1. /\ UNCHANGED masterVars /\ stream' = [stream EXCEPT ![c] = "ended"]
        /\ replied' = replied \ {c} /\ given' = {w \in given : w[1] # c}
    BY <1>4 DEF MonitorNotices, OnStreamEnds, StreamEnds
  <2>2. UNCHANGED <<registered, sock, target>>
    BY <2>1 DEF masterVars
  <2>3. \A d \in Conns : \A r : <<d, r>> \in given' => <<d, r>> \in given /\ d # c
    BY <2>1
  <2> QED BY <1>1, <2>1, <2>2, <2>3 DEF HeardInv
<1>5. ASSUME NEW c \in Conns, MonitorReads(c) PROVE HeardInv'
  <2>1. UNCHANGED <<stream, registered, sock, target>> /\ stream[c] = "open"
    BY <1>5 DEF MonitorReads, Hears, OnReply, OnRequest, OnKicked, DisconnectPacket, masterVars
  <2>2. replied' \subseteq replied \cup {c}
    BY <1>5 DEF MonitorReads, OnReply, OnRequest, OnKicked, histVars
  <2>3. given' = given \/ (given' = given \cup {<<c, ToClient(c).n>>} /\ ToClient(c).kind = "request")
    BY <1>5 DEF MonitorReads, OnReply, OnRequest, OnKicked, histVars
  <2>4. ToClient(c).kind = "request" => ToClient(c).n \in P!ReqIds /\ target[ToClient(c).n] # NONE
    BY <1>5, NextOfMaster, RequestMade DEF OwnInv
  <2> QED BY <1>1, <2>1, <2>2, <2>3, <2>4 DEF HeardInv
<1>6. CASE MonitorSteps \/ UNCHANGED vars \/ \E c \in Conns : Cut(c)
  <2>1. UNCHANGED <<masterVars, replied, given, stream>>
    BY <1>6, KeepAliveDoes DEF MonitorSteps, OnConnectTimeout, ConnectTimeout, Respond, Notify, CloseMonitor,
       CloseClient, Cut, vars, monitorVars, histVars
  <2> QED BY <1>2, <2>1
<1>7. ASSUME UNCHANGED monitorVars,
             \A r \in P!ReqIds : target[r] # NONE => target'[r] = target[r],
             \A c \in registered' : sock'[c] = "open"
      PROVE  HeardInv'
  <2>1. UNCHANGED <<replied, given, stream>>
    BY <1>7 DEF monitorVars, histVars
  <2> QED BY <1>7, <2>1 DEF HeardInv
<1>8. ASSUME NEW c \in Conns, Accept(c) PROVE HeardInv'
  <2>1. /\ UNCHANGED <<monitorVars, registered, target>> /\ sock' = [sock EXCEPT ![c] = "open"]
    BY <1>8 DEF Accept, Master!Connection
  <2> QED BY <1>1, <1>7, <2>1 DEF HeardInv
<1>9. ASSUME NEW c \in Conns, MasterNotices(c) PROVE HeardInv'
  <2>1. /\ UNCHANGED <<monitorVars, target>> /\ sock' = [sock EXCEPT ![c] = "closed"]
        /\ P!OnDisconnect(c) /\ agentState' # "CRASHED"
    BY <1>9, SameActions DEF MasterNotices, Master!OnDisconnect, OwnMaster
  <2>2. registered' = registered \ {c}
    BY <2>1 DEF P!OnDisconnect
  <2> QED BY <1>1, <1>7, <2>1, <2>2 DEF HeardInv
<1>10. ASSUME NEW c \in Conns, MasterReads(c) PROVE HeardInv'
  <2>1. UNCHANGED <<monitorVars, sock, target>> /\ sock[c] = "open" /\ registered' \subseteq registered \cup {c}
    BY <1>10, SameActions DEF MasterReads, Takes, P!RegisterMonitor, P!OnReconnect, P!OnResponse, P!Kick,
       masterVars
  <2> QED BY <1>7, <2>1 DEF HeardInv
<1>11. CASE MasterSteps
  <2>1. UNCHANGED <<monitorVars, sock, registered>> /\ (P!Listen \/ \E s \in Servers : P!Request(s))
    BY <1>11, SameActions DEF MasterSteps, P!Listen, P!Request
  <2>2. \A r \in P!ReqIds : target[r] # NONE => target'[r] = target[r]
    <3>1. CASE P!Listen
      BY <3>1 DEF P!Listen
    <3>2. ASSUME NEW s \in Servers, P!Request(s)
          PROVE  \A r \in P!ReqIds : target[r] # NONE => target'[r] = target[r]
      <4>1. P!NewRequest(s) /\ P!TypeOK /\ P!Consistent /\ UNCHANGED answered
        BY <3>2 DEF P!Request, OwnInv, OwnMaster, SystemInv, MasterInv
      <4> QED BY <4>1, P!NewRequestConsistent, Constants
    <3> QED BY <2>1, <3>1, <3>2
  <2> QED BY <1>7, <2>1, <2>2 DEF HeardInv
<1> QED BY <1>3, <1>4, <1>5, <1>6, <1>8, <1>9, <1>10, <1>11 DEF Next

\* Nobody gets to know the other, and nothing that was read is lost.
LEMMA MeetsStill ==
  ASSUME SystemInv, NEW c \in Conns, Meets(c),
         stream'[c] # "ended" => stream[c] # "ended",
         sock'[c] = "open" => sock[c] = "open",
         Acquainted(c)' => Acquainted(c),
         \A i : GreetsAt(c, i) => GreetsAt(c, i)' \/ stream'[c] = "ended",
         UNCHANGED taken \/ (taken'[c] \in Nat /\ taken'[c] > taken[c]),
         sent'[c] = sent[c] \/ taken'[c] > 0
  PROVE  Meets(c)'
<1> SUFFICES ASSUME stream'[c] # "ended", sock'[c] = "open"
             PROVE  /\ Acquainted(c)' => GreetingRead(c)'
                    /\ sent'[c] # <<>> => taken'[c] > 0
  BY DEF Meets
<1>1. taken[c] \in Nat /\ taken'[c] \in Nat /\ taken'[c] >= taken[c]
  BY WroteShape
<1>2. ASSUME NEW i, GreetsAt(c, i), i <= taken[c] PROVE i <= taken'[c]
  <2>1. i \in Nat
    BY <1>2, WroteShape DEF GreetsAt
  <2> QED BY <1>1, <1>2, <2>1
<1> QED BY <1>1, <1>2 DEF Meets, GreetingRead

\* A step of the monitor, which has not heard of the master before the master of it.
LEMMA MonitorMeets ==
  ASSUME SystemInv, MeetInv, UNCHANGED <<masterVars, taken>>,
         \A c \in Conns : stream'[c] = "ended" \/ stream[c] # "ended" \/ sock[c] # "open",
         \A c \in Conns : c \in replied' => Acquainted(c),
         \A c \in Conns : \A r : <<c, r>> \in given' => Acquainted(c),
         \A c \in Conns : \A i : GreetsAt(c, i) => GreetsAt(c, i)' \/ stream'[c] = "ended"
  PROVE  MeetInv'
<1> SUFFICES ASSUME NEW c \in Conns PROVE Meets(c)'
  BY DEF MeetInv
<1>1. UNCHANGED <<sent, registered, peer, sock>>
  BY DEF masterVars
<1>2. Acquainted(c)' => Acquainted(c)
  BY <1>1 DEF Acquainted
<1>4. CASE stream'[c] # "ended" /\ sock'[c] = "open"
  BY <1>1, <1>2, <1>4, MeetsStill DEF MeetInv
<1>5. CASE ~(stream'[c] # "ended" /\ sock'[c] = "open")
  BY <1>5 DEF Meets
<1> QED BY <1>4, <1>5

\* A write of the monitor keeps its greetings.
LEMMA GreetingsKept ==
  ASSUME SystemInv, NEW k \in {"register", "reconnect", "response", "notify", "disconnect"}, NEW n \in Nat,
         ApiSend(Said(k, n)) \/ DoSend(Said(k, n)), NEW c \in Conns, NEW i, GreetsAt(c, i)
  PROVE  GreetsAt(c, i)'
<1>1. Said(k, n) \in Messages
  BY SaidType
<1> QED BY <1>1, WritesMore, MoreMeans

\* The steps of the monitor.
LEMMA MonitorMeetStep ==
  ASSUME OwnInv, MeetInv,
         \/ \E c \in Conns : Open(c) \/ Acknowledge(c) \/ MonitorNotices(c) \/ MonitorReads(c)
         \/ MonitorSteps
  PROVE  MeetInv'
<1>1. /\ SystemInv /\ replied \subseteq Conns /\ given \subseteq Conns \X Reqs
      /\ stream \in [Conns -> {"ended", "connecting", "open"}]
      /\ wrote \in [Conns -> Seq(Messages)]
  BY DEF OwnInv, SystemInv, MonitorInv, AgentShape, ClientShape
<1>2. /\ \A c \in Conns : c \in replied => Acquainted(c)
      /\ \A c \in Conns : \A r : <<c, r>> \in given => Acquainted(c)
  BY DEF Acquainted
<1>3. UNCHANGED <<masterVars, taken>>
  BY DEF Open, Acknowledge, MonitorNotices, MonitorReads, MonitorSteps, network, ClientSeesEnd, Hears
<1>4. ASSUME wrote' = wrote, NEW c \in Conns, NEW i, GreetsAt(c, i) PROVE GreetsAt(c, i)'
  BY <1>4 DEF GreetsAt
<1>5. ASSUME NEW c \in Conns, Open(c) PROVE MeetInv'
  <2>1. /\ UNCHANGED <<wrote, replied, given>> /\ sock[c] = "closed"
        /\ stream' = [stream EXCEPT ![c] = "connecting"]
    BY <1>5 DEF Open, Done, Master!Unused, ConnectMonitor, ReconnectMonitor, FirstConnect,
       ReconnectTimer, Connect, histVars
  <2> QED BY <1>1, <1>2, <1>3, <1>4, <2>1, MonitorMeets
<1>6. ASSUME NEW c \in Conns, Acknowledge(c) PROVE MeetInv'
  <2>1. /\ UNCHANGED <<replied, given>> /\ stream[c] # "ended" /\ stream' = [stream EXCEPT ![c] = "open"]
        /\ wrote' = wrote \/ \E k \in {"register", "reconnect"} : DoSend(Said(k, 0))
    BY <1>6 DEF Acknowledge, OnConnack, Connack, histVars
  <2>2. \A d \in Conns : \A i : GreetsAt(d, i) => GreetsAt(d, i)'
    BY <1>1, <1>4, <2>1, GreetingsKept
  <2> QED BY <1>1, <1>2, <1>3, <2>1, <2>2, MonitorMeets
<1>7. ASSUME NEW c \in Conns, MonitorNotices(c) PROVE MeetInv'
  <2>1. /\ stream' = [stream EXCEPT ![c] = "ended"]
        /\ wrote' = [wrote EXCEPT ![c] = <<>>]
        /\ replied' = replied \ {c} /\ given' = {w \in given : w[1] # c}
    BY <1>7 DEF MonitorNotices, OnStreamEnds, StreamEnds, Forget
  <2>2. \A d \in Conns \ {c} : wrote'[d] = wrote[d] /\ stream'[d] = stream[d]
    BY <1>1, <2>1
  <2>3. \A d \in Conns : \A i : GreetsAt(d, i) => GreetsAt(d, i)' \/ stream'[d] = "ended"
    BY <1>1, <2>1, <2>2 DEF GreetsAt
  <2> QED BY <1>1, <1>2, <1>3, <2>1, <2>2, <2>3, MonitorMeets
<1>8. ASSUME NEW c \in Conns, MonitorReads(c) PROVE MeetInv'
  <2>1. UNCHANGED <<stream, wrote>>
    BY <1>8 DEF MonitorReads, OnReply, OnRequest, OnKicked, DisconnectPacket
  <2>2. /\ replied' = replied \/ (replied' = replied \cup {c} /\ ToClient(c).kind # "disconnect")
        /\ given' = given \/ (given' = given \cup {<<c, ToClient(c).n>>} /\ ToClient(c).kind # "disconnect")
    BY <1>8 DEF MonitorReads, OnReply, OnRequest, OnKicked, histVars
  <2>3. ToClient(c).kind # "disconnect" => Acquainted(c)
    BY <1>1, <1>8, NextOfMaster DEF Acquainted
  <2> QED BY <1>1, <1>2, <1>3, <1>4, <2>1, <2>2, <2>3, MonitorMeets
<1>9. CASE MonitorSteps
  <2>1. UNCHANGED <<stream, replied, given>>
    BY <1>9, KeepAliveDoes DEF MonitorSteps, OnConnectTimeout, ConnectTimeout, Respond, Notify, CloseMonitor,
       CloseClient, histVars
  <2>2. wrote' = wrote \/ \E k \in {"response", "notify", "disconnect"}, n \in Nat :
                            ApiSend(Said(k, n)) \/ DoSend(Said(k, n))
    <3>1. \A w \in work : w[2] \in Nat
      BY MonitorAssumption DEF OwnInv, SystemInv, MonitorInv, AgentShape
    <3> QED BY <1>9, <3>1, KeepAliveDoes DEF MonitorSteps, OnConnectTimeout, Respond, Notify, CloseMonitor
  <2>3. \A d \in Conns : \A i : GreetsAt(d, i) => GreetsAt(d, i)'
    BY <1>1, <1>4, <2>2, GreetingsKept
  <2> QED BY <1>1, <1>2, <1>3, <2>1, <2>3, MonitorMeets
<1> QED BY <1>5, <1>6, <1>7, <1>8, <1>9

\* When the master reads a greeting, it is the first thing it knows of the stream.
LEMMA FirstMeeting ==
  ASSUME SystemInv, GreetingInv, ReadInv, MeetInv, NEW c \in Conns, MasterReads(c),
         ToMaster(c).kind \in {"register", "reconnect"}
  PROVE  ~Acquainted(c) /\ GreetingRead(c)' /\ sock[c] = "open" /\ stream[c] # "ended"
<1> DEFINE i == taken[c] + 1
<1>1. /\ i \in DOMAIN wrote[c] /\ sock[c] = "open" /\ taken'[c] = i /\ wrote' = wrote
      /\ taken[c] \in Nat /\ DOMAIN wrote[c] = 1..Len(wrote[c]) /\ Len(wrote[c]) \in Nat
  BY MasterReadsGreeting, WroteShape DEF MasterReads, Takes, monitorVars, SystemInv, NetworkShape
<1>2. GreetsAt(c, i) /\ stream[c] # "ended"
  BY <1>1 DEF GreetsAt, ToMaster, ReadInv
<1>3. GreetingRead(c)'
  BY <1>1, <1>2 DEF GreetingRead, GreetsAt
<1>4. ~GreetingRead(c)
  <2> SUFFICES ASSUME NEW j, GreetsAt(c, j), j <= taken[c] PROVE FALSE
    BY DEF GreetingRead
  <2>1. j < i
    BY <1>1 DEF GreetsAt
  <2>2. PICK k : LeavesAt(c, k) /\ k < i
    BY <1>2, <2>1 DEF GreetingInv
  <2>3. taken[c] < k /\ k \in Nat
    BY <1>1, <2>2 DEF ReadInv, LeavesAt
  <2> QED BY <1>1, <2>2, <2>3
<1>5. ~Acquainted(c)
  BY <1>1, <1>2, <1>4 DEF MeetInv, Meets
<1> QED BY <1>1, <1>2, <1>3, <1>5

\* The steps of the master, on a connection and besides.
LEMMA MasterMeets ==
  ASSUME SystemInv, MeetInv, UNCHANGED monitorVars, NEW c \in Conns, Meets(c)',
         \A d \in Conns \ {c} :
           /\ sock'[d] = sock[d] /\ peer'[d] = peer[d] /\ sent'[d] = sent[d] /\ taken'[d] = taken[d]
           /\ d \in registered' => d \in registered
  PROVE  MeetInv'
<1> SUFFICES ASSUME NEW d \in Conns \ {c} PROVE Meets(d)'
  BY DEF MeetInv
<1>1. UNCHANGED <<replied, given, wrote, stream>>
  BY DEF monitorVars, histVars
<1>2. Acquainted(d)' => Acquainted(d)
  BY <1>1 DEF Acquainted
<1>3. \A i : GreetsAt(d, i)' <=> GreetsAt(d, i)
  BY <1>1 DEF GreetsAt
<1> QED BY <1>1, <1>2, <1>3 DEF MeetInv, Meets, GreetingRead

\* The steps of the master: it replies to a greeting, and asks who is registered.
LEMMA MasterMeetStep ==
  ASSUME OwnInv, OneInv, OwnMaster', GreetingInv, ReadInv, MeetInv, HeardInv,
         \/ \E c \in Conns : Accept(c) \/ MasterNotices(c) \/ MasterReads(c)
         \/ MasterSteps
  PROVE  MeetInv'
<1>1. /\ SystemInv /\ sent \in [Conns -> Seq(P!Message)] /\ peer \in [Conns -> P!Peers \cup {NONE}]
      /\ taken \in [Conns -> Nat] /\ P!TypeOK
      /\ sock \in [Conns -> {"open", "closed"}] /\ registered \subseteq Conns
      /\ replied \subseteq Conns
      /\ \A c \in Conns : sock[c] = "closed" => sent[c] = <<>>
  BY DEF OwnInv, OwnMaster, P!Consistent, P!ClosedSilent, SystemInv, MonitorInv, AgentShape, MasterInv,
     P!TypeOK, NetworkShape
<1>2. UNCHANGED monitorVars
  BY DEF Accept, MasterNotices, MasterReads, MasterSteps
<1>3. UNCHANGED <<replied, given, wrote, stream>>
  BY <1>2 DEF monitorVars, histVars
<1>4. ASSUME NEW c \in Conns, Accept(c) PROVE MeetInv'
  <2>1. /\ stream[c] = "connecting" /\ sock[c] = "closed" /\ sock' = [sock EXCEPT ![c] = "open"]
        /\ peer' = [peer EXCEPT ![c] = NONE] /\ UNCHANGED <<registered, sent, taken>>
    BY <1>4 DEF Accept, Reaches, Master!Connection, Master!Unused, network
  <2>2. sent[c] = <<>> /\ DOMAIN sent[c] = {}
    BY <1>1, <2>1
  <2>3. ~Acquainted(c)'
    BY <1>1, <1>3, <2>1, <2>2 DEF Acquainted, HeardInv
  <2>4. Meets(c)'
    BY <2>1, <2>2, <2>3 DEF Meets
  <2> QED BY <1>1, <1>2, <2>1, <2>4, MasterMeets
<1>5. ASSUME NEW c \in Conns, MasterNotices(c) PROVE MeetInv'
  <2>1. /\ sock' = [sock EXCEPT ![c] = "closed"] /\ sent' = [sent EXCEPT ![c] = <<>>]
        /\ taken' = [taken EXCEPT ![c] = 0] /\ registered' \subseteq registered
        /\ \A d \in Conns \ {c} : peer'[d] = peer[d]
    BY <1>1, <1>5 DEF MasterNotices, MasterSeesEnd, Master!OnDisconnect
  <2>2. Meets(c)'
    BY <1>1, <2>1 DEF Meets
  <2> QED BY <1>1, <1>2, <2>1, <2>2, MasterMeets
<1>6. ASSUME NEW c \in Conns, MasterReads(c) PROVE MeetInv'
  <2>1. /\ taken' = [taken EXCEPT ![c] = @ + 1] /\ sock' = sock /\ sock[c] = "open"
    BY <1>1, <1>6, MasterReadsGreeting DEF MasterReads, Takes
  <2>2. /\ taken[c] \in Nat /\ taken'[c] \in Nat /\ taken'[c] > taken[c] /\ taken'[c] > 0
        /\ \A d \in Conns \ {c} : taken'[d] = taken[d]
    BY <1>1, <2>1
  <2>3. \A d \in Conns \ {c} : peer'[d] = peer[d] /\ sent'[d] = sent[d] /\ (d \in registered' => d \in registered)
    <3>1. /\ UNCHANGED peer \/ peer' = [peer EXCEPT ![c] = Me]
          /\ registered' \subseteq registered \cup {c}
          /\ UNCHANGED sent \/ \E ms : P!Put(c, ms)
      BY <1>6, SameActions DEF MasterReads, P!RegisterMonitor, P!OnReconnect, P!OnResponse, P!Kick,
         masterVars
    <3>2. UNCHANGED sent \/ \E q : sent' = [sent EXCEPT ![c] = q]
      BY <3>1 DEF P!Put
    <3> QED BY <1>1, <3>1, <3>2
  <2>4. Meets(c)'
    <3>1. CASE ToMaster(c).kind \in {"register", "reconnect"}
      <4>1. GreetingRead(c)'
        BY <1>1, <1>6, <3>1, FirstMeeting
      <4> QED BY <2>2, <4>1 DEF Meets
    <3>2. CASE ToMaster(c).kind \notin {"register", "reconnect"}
      <4>1. UNCHANGED <<peer, registered>> /\ (sent' = sent \/ P!Kick(c))
        BY <1>6, <3>2, SameActions DEF MasterReads, P!OnResponse, P!Kick, masterVars
      <4>2. (\E i \in DOMAIN sent'[c] : sent'[c][i].kind # "disconnect") =>
               \E i \in DOMAIN sent[c] : sent[c][i].kind # "disconnect"
        <5>1. CASE P!Kick(c)
          <6>1. sent'[c] = sent[c] \o <<P!Disconnect>> /\ P!Disconnect.kind = "disconnect"
                /\ sent[c] \in Seq(P!Message) /\ <<P!Disconnect>> \in Seq(P!Message)
            BY <1>1, <2>1, <5>1, Replies DEF P!Kick, P!Put, P!Disconnect, P!Plain
          <6>2. /\ DOMAIN sent'[c] = 1..(Len(sent[c]) + 1) /\ DOMAIN sent[c] = 1..Len(sent[c])
                /\ Len(sent[c]) \in Nat
                /\ \A i \in 1..Len(sent[c]) : sent'[c][i] = sent[c][i]
                /\ sent'[c][Len(sent[c]) + 1] = P!Disconnect
            BY <6>1
          <6> QED BY <6>1, <6>2
        <5> QED BY <4>1, <5>1
      <4>3. Acquainted(c)' => Acquainted(c)
        BY <1>3, <4>1, <4>2 DEF Acquainted
      <4>4. \A i : GreetsAt(c, i) => GreetsAt(c, i)'
        BY <1>3 DEF GreetsAt
      <4> QED BY <1>1, <1>3, <2>1, <2>2, <4>3, <4>4, MeetsStill DEF MeetInv
    <3> QED BY <3>1, <3>2
  <2> QED BY <1>1, <1>2, <2>1, <2>2, <2>3, <2>4, MasterMeets
<1>7. CASE MasterSteps
  <2>1. UNCHANGED <<sock, peer, registered, taken>> /\ (P!Listen \/ \E s \in Servers : P!Request(s))
    BY <1>7, SameActions DEF MasterSteps, P!Listen, P!Request, network
  <2>2. CASE sent' = sent
    <3> SUFFICES ASSUME NEW c \in Conns PROVE Meets(c)'
      BY DEF MeetInv
    <3>1. Acquainted(c)' => Acquainted(c)
      BY <1>3, <2>1, <2>2 DEF Acquainted
    <3>2. \A i : GreetsAt(c, i) => GreetsAt(c, i)'
      BY <1>3 DEF GreetsAt
    <3> QED BY <1>1, <1>3, <2>1, <2>2, <3>1, <3>2, MeetsStill DEF MeetInv
  <2>3. ASSUME NEW s \in Servers, idMap[s] # NONE, P!Put(idMap[s].socket, <<P!RequestMsg(reqId)>>)
        PROVE  MeetInv'
    <3>1. idMap[s].socket \in registered
      BY <2>3 DEF OwnInv, OwnMaster, P!Consistent, P!PrimaryKnown
    <3>2. PICK c \in Conns : c = idMap[s].socket /\ Acquainted(c)
      BY <1>1, <3>1 DEF Acquainted
    <3>3. \A d \in Conns \ {c} : sent'[d] = sent[d]
      BY <1>1, <2>3, <3>2 DEF P!Put
    <3>4. \A i : GreetsAt(c, i)' <=> GreetsAt(c, i)
      BY <1>3 DEF GreetsAt
    <3>5. stream[c] # "ended" /\ sock[c] = "open" => GreetingRead(c) /\ taken[c] > 0
      <4>1. ASSUME NEW i, GreetsAt(c, i), i <= taken[c] PROVE taken[c] > 0
        <5>1. i \in 1..Len(wrote[c]) /\ Len(wrote[c]) \in Nat /\ taken[c] \in Nat
          BY <1>1, <3>2, <4>1, WroteShape DEF GreetsAt
        <5> QED BY <4>1, <5>1
      <4> QED BY <3>2, <4>1 DEF MeetInv, Meets, GreetingRead
    <3>6. Meets(c)'
      BY <1>3, <2>1, <3>4, <3>5 DEF Meets, GreetingRead
    <3> QED BY <1>1, <1>2, <2>1, <3>2, <3>3, <3>6, MasterMeets
  <2> QED BY <2>1, <2>2, <2>3 DEF P!Listen, P!Request
<1> QED BY <1>4, <1>5, <1>6, <1>7

\* Every step keeps it.
LEMMA MeetStep ==
  ASSUME OwnInv, OneInv, OwnMaster', GreetingInv, ReadInv, MeetInv, HeardInv, [Next]_vars, [~Restart]_vars
  PROVE  MeetInv'
<1>1. CASE UNCHANGED vars \/ \E c \in Conns : Cut(c)
  <2>1. UNCHANGED <<masterVars, taken, stream, replied, given, wrote>>
    BY <1>1 DEF Cut, CutOff, vars, monitorVars, histVars, network
  <2>2. \A c \in Conns : \A i : GreetsAt(c, i) => GreetsAt(c, i)'
    BY <2>1 DEF GreetsAt
  <2> QED BY <2>1, <2>2, MonitorMeets DEF OwnInv, Acquainted
<1> QED BY <1>1, MonitorMeetStep, MasterMeetStep DEF Next

-----------------------------------------------------------------------------
(***************************************************************************)
(* The queues of the master, whose steps are those of MasterAgent.         *)
(***************************************************************************)
\* What is pending was handed to the primary; nothing was written twice.
QueueInv == P!LedgerInv /\ direct = {} /\ P!WrittenOnce /\ P!PrimaryHasPending

\* A step of MasterAgent; a monitor that is not registered can be kicked more than once.
MasterMoves == Master!Next \/ \E c \in Conns : sock[c] = "open" /\ Master!Kick(c)

\* Primaries are registered and open.
LEMMA PrimariesOpen ==
  ASSUME OwnInv, HeardInv
  PROVE  P!PrimaryLive
BY DEF OwnInv, OwnMaster, P!Consistent, P!PrimaryKnown, HeardInv, P!PrimaryLive

\* An answer that is passed on was handed to the connection it comes from.
LEMMA AnswersHanded ==
  ASSUME OwnInv, OneInv, HeardInv, QueueInv, NEW c \in Conns, MasterReads(c),
         ToMaster(c).kind = "response", P!OnResponse(c, ToMaster(c).n)
  PROVE  ToMaster(c).n \in P!Handed(c) /\ ToMaster(c).n \in P!ReqIds /\ sock[c] = "open"
<1> DEFINE r == ToMaster(c).n
<1>1. MadeToMe(r)
  <2>1. wrote[c] \in Seq(Messages) /\ taken[c] \in Nat /\ taken[c] < Len(wrote[c])
    BY DEF OwnInv, SystemInv, MonitorInv, AgentShape, NetworkShape, MasterReads, Takes
  <2>2. taken[c] + 1 \in DOMAIN wrote[c]
    BY <2>1
  <2> QED BY <2>2 DEF ToMaster, OwnInv, OwnAnswers
<1>2. c \in registered /\ r \in callbacks
  BY DEF P!OnResponse
<1> HIDE DEF r
<1>3. idMap[Me.id] # NONE /\ idMap[Me.id].socket = c
  BY <1>2, TheRegistered DEF OwnInv, OneInv
<1>4. r \in P!ToSet(msgMap[Me.id])
  BY <1>1, <1>2, MeKnown DEF QueueInv, P!LedgerInv, P!QosLedger, MadeToMe
<1>5. r \in P!Handed(c)
  BY <1>3, <1>4, MeKnown DEF QueueInv, P!PrimaryHasPending
<1> QED BY <1>1, <1>2, <1>5 DEF r, MadeToMe, HeardInv

\* A greeting that is read is the first of its connection.
LEMMA GreetsFirst ==
  ASSUME SystemInv, GreetingInv, ReadInv, MeetInv, NEW c \in Conns, MasterReads(c),
         ToMaster(c).kind \in {"register", "reconnect"}
  PROVE  P!Greets(c) /\ Master!Greets(c)
BY FirstMeeting DEF Acquainted, P!Greets, Master!Greets

\* The master meets what MasterAgent lets its peers do.
LEMMA MasterStep ==
  ASSUME OwnInv, OneInv, GreetingInv, ReadInv, MeetInv, HeardInv, QueueInv, [Next]_vars, [~Restart]_vars
  PROVE  MasterMoves \/ UNCHANGED masterVars
<1>1. agentState # "CRASHED" /\ Me \in Master!MonitorPeers
  BY PeerAssumption DEF OwnInv, OwnMaster
<1>2. ASSUME NEW c \in Conns, Accept(c) PROVE Master!Next
  BY <1>1, <1>2 DEF Accept, Master!Next, Master!Handshake
<1>3. ASSUME NEW c \in Conns, MasterNotices(c) PROVE Master!Next
  BY <1>1, <1>3 DEF MasterNotices, Master!Next, Master!Traffic
<1>4. ASSUME NEW c \in Conns, MasterReads(c) PROVE MasterMoves \/ UNCHANGED masterVars
  <2>1. CASE ToMaster(c).kind \in {"register", "reconnect"}
    <3>1. Master!Greets(c) /\ (Master!RegisterMonitor(c, Me) \/ Master!OnReconnect(c, Me))
      BY <1>4, <2>1, GreetsFirst DEF MasterReads, OwnInv
    <3>2. Master!Handshake(c)
      BY <1>1, <3>1 DEF Master!Handshake
    <3> QED BY <1>1, <3>2 DEF Master!Next, MasterMoves
  <2>2. CASE ToMaster(c).kind = "response" /\ Master!OnResponse(c, ToMaster(c).n)
    <3>1. ToMaster(c).n \in P!Handed(c) /\ sock[c] = "open"
      BY <1>4, <2>2, SameActions, AnswersHanded
    <3>2. P!Handed(c) = Master!Handed(c)
      BY DEF P!Handed, Master!Handed, P!ReqIds, Master!ReqIds, P!RequestMsg, Master!RequestMsg,
             P!ToSet, Master!ToSet
    <3>3. Master!Traffic(c)
      BY <2>2, <3>1, <3>2 DEF Master!Traffic
    <3> QED BY <1>1, <3>3 DEF Master!Next, MasterMoves
  <2>3. CASE Master!Kick(c)
    BY <1>4, <2>3 DEF MasterReads, Takes, MasterMoves
  <2> QED BY <1>4, <2>1, <2>2, <2>3 DEF MasterReads
<1>5. CASE MasterSteps
  <2>1. Master!Listen \/ Master!Call
    BY <1>5 DEF MasterSteps, Master!Call
  <2> QED BY <1>1, <2>1 DEF Master!Next, MasterMoves
<1>6. CASE UNCHANGED vars
  BY <1>6 DEF vars
<1> QED BY <1>2, <1>3, <1>4, <1>5, <1>6 DEF Next, Open, Acknowledge, MonitorNotices, MonitorReads, Cut,
       MonitorSteps, MasterMoves

\* What the master writes.
LEMMA WritesOfMaster ==
  ASSUME OwnInv, GreetingInv, ReadInv, MeetInv, [Next]_vars, [~Restart]_vars,
         \A c \in Conns : ~MasterNotices(c)
  PROVE  P!Written /\ P!Grows
<1>1. P!TypeOK /\ SystemInv
  BY DEF OwnInv, SystemInv, MasterInv
<1>2. P!Written
  <2>1. ASSUME UNCHANGED masterVars PROVE P!Written
    BY <2>1 DEF masterVars, P!Written
  <2>2. ASSUME NEW c \in Conns, MasterReads(c) PROVE P!Written
    <3>1. CASE ToMaster(c).kind \in {"register", "reconnect"}
      <4>1. P!Greets(c) /\ (P!RegisterMonitor(c, Me) \/ P!OnReconnect(c, Me))
        BY <1>1, <2>2, <3>1, SameActions, GreetsFirst DEF MasterReads
      <4>2. P!Handshake(c)
        BY <4>1, MeKnown DEF P!Handshake
      <4> QED BY <1>1, <4>2, P!HandshakeWrites, Constants
    <3>2. CASE P!Kick(c)
      <4>1. P!Quiet(<<P!Disconnect>>)
        BY <1>1, P!QuietReplies, Constants
      <4> QED BY <3>2, <4>1 DEF P!Kick, P!Written
    <3>3. CASE \E r : P!OnResponse(c, r)
      BY <3>3 DEF P!OnResponse, P!Written
    <3> QED BY <2>1, <2>2, <3>1, <3>2, <3>3, SameActions DEF MasterReads
  <2>3. ASSUME NEW c \in Conns, Accept(c) PROVE P!Written
    BY <2>3 DEF Accept, Master!Connection, P!Written
  <2>4. CASE MasterSteps
    <3>1. P!Listen \/ P!Call
      BY <2>4, SameActions DEF MasterSteps, P!Call
    <3> QED BY <1>1, <3>1, P!CallWrites, Constants DEF P!Listen, P!Written
  <2>5. CASE UNCHANGED vars
    BY <2>1, <2>5 DEF vars
  <2> QED BY <2>1, <2>2, <2>3, <2>4, <2>5 DEF Next, Open, Acknowledge, MonitorNotices, MonitorReads, Cut,
         MonitorSteps
<1> QED BY <1>1, <1>2, P!WritesGrow, Constants

\* A monitor that is accepted is told so and pushed what is pending; one that is refused
\* changes nothing.
LEMMA GreetingEnters ==
  ASSUME OwnInv, GreetingInv, ReadInv, MeetInv, NEW c \in Conns, MasterReads(c),
         ToMaster(c).kind \in {"register", "reconnect"}
  PROVE  /\ P!Enters(c) \/ UNCHANGED <<idMap, registered>>
         /\ UNCHANGED <<callbacks, msgMap, direct, target>>
<1>1. P!Greets(c) /\ c \notin registered /\ (P!RegisterMonitor(c, Me) \/ P!OnReconnect(c, Me))
  BY SameActions, GreetsFirst, FirstMeeting DEF MasterReads, OwnInv, Acquainted
<1>2. P!Register(P!PRO_OK) \in P!Accepting /\ P!ReconnectOk(P!PRO_OK) \in P!Accepting
  BY DEF P!Accepting
<1>3. CASE P!RegisterMonitor(c, Me) /\ c \in registered'
  <2>1. /\ P!AddConnection(c, Me) /\ registered' = registered \cup {c}
        /\ P!Put(c, <<P!Register(P!PRO_OK)>> \o P!Repush(Me.id))
    BY <1>1, <1>3 DEF P!RegisterMonitor
  <2>2. UNCHANGED <<callbacks, msgMap, direct, target>>
    BY <1>3 DEF P!RegisterMonitor
  <2> QED BY <1>1, <1>2, <2>1, <2>2, MeKnown DEF P!Enters
<1>4. CASE P!OnReconnect(c, Me)
  <2>1. UNCHANGED <<callbacks, msgMap, direct, target>>
    BY <1>4 DEF P!OnReconnect
  <2>2. CASE /\ P!AddConnection(c, Me) /\ registered' = registered \cup {c}
             /\ P!Put(c, <<P!ReconnectOk(P!PRO_OK)>> \o P!Repush(Me.id))
    BY <1>1, <1>2, <2>1, <2>2, MeKnown DEF P!Enters
  <2> QED BY <1>4, <2>1, <2>2, MeKnown DEF P!OnReconnect
<1> QED BY <1>1, <1>3, <1>4, SameActions DEF MasterReads

\* What a step does to the tables and the queues.
LEMMA MasterChanges ==
  ASSUME OwnInv, OneInv, GreetingInv, ReadInv, MeetInv, HeardInv, QueueInv, [Next]_vars, [~Restart]_vars
  PROVE  \/ \E c \in Conns : MasterNotices(c) /\ P!OnDisconnect(c)
         \/ \E c \in Conns : P!Enters(c) /\ UNCHANGED <<callbacks, msgMap, direct, target>>
         \/ \E c \in Conns, r \in P!ReqIds : r \in P!Handed(c) /\ P!OnResponse(c, r)
         \/ \E s \in Servers : P!Request(s)
         \/ UNCHANGED <<idMap, callbacks, msgMap, direct, target>>
<1>1. UNCHANGED masterVars => UNCHANGED <<idMap, callbacks, msgMap, direct, target>>
  BY DEF masterVars
<1>2. ASSUME NEW c \in Conns, MasterReads(c)
      PROVE  \/ P!Enters(c) /\ UNCHANGED <<callbacks, msgMap, direct, target>>
             \/ \E r \in P!ReqIds : r \in P!Handed(c) /\ P!OnResponse(c, r)
             \/ UNCHANGED <<idMap, callbacks, msgMap, direct, target>>
  <2>1. CASE ToMaster(c).kind \in {"register", "reconnect"}
    BY <1>2, <2>1, GreetingEnters
  <2>2. CASE P!Kick(c)
    BY <2>2 DEF P!Kick
  <2>3. CASE ToMaster(c).kind = "response" /\ P!OnResponse(c, ToMaster(c).n)
    BY <1>2, <2>3, AnswersHanded
  <2> QED BY <1>1, <1>2, <2>1, <2>2, <2>3, SameActions DEF MasterReads
<1>3. CASE MasterSteps
  BY <1>3, SameActions DEF MasterSteps, P!Listen
<1>4. ASSUME NEW c \in Conns, Accept(c) PROVE UNCHANGED <<idMap, callbacks, msgMap, direct, target>>
  BY <1>4 DEF Accept, Master!Connection
<1>5. ASSUME NEW c \in Conns, MasterNotices(c) PROVE P!OnDisconnect(c)
  BY <1>5, SameActions DEF MasterNotices
<1>6. CASE UNCHANGED vars
  BY <1>1, <1>6 DEF vars
<1> QED BY <1>1, <1>2, <1>3, <1>4, <1>5, <1>6 DEF Next, Open, Acknowledge, MonitorNotices, MonitorReads,
       Cut, MonitorSteps

\* Every step keeps it.
LEMMA QueueStep ==
  ASSUME OwnInv, OwnInv', OneInv, GreetingInv, ReadInv, MeetInv, HeardInv, HeardInv', QueueInv,
         [Next]_vars, [~Restart]_vars
  PROVE  QueueInv'
<1>1. P!TypeOK /\ P!TypeOK' /\ P!Consistent
  BY DEF OwnInv, OwnMaster, SystemInv, MasterInv
<1>2. P!PrimaryLive /\ P!PrimaryLive'
  <2>1. P!PrimaryLive
    BY PrimariesOpen
  <2>2. P!PrimaryLive'
    BY PrimariesOpen, PTL
  <2> QED BY <2>1, <2>2
<1>3. P!LedgerInv' /\ direct' = {}
  <2>1. ASSUME UNCHANGED <<callbacks, msgMap, direct, target>> PROVE P!LedgerInv' /\ direct' = {}
    BY <2>1, P!SameLedger, Constants DEF QueueInv
  <2>2. ASSUME NEW c \in Conns, P!OnDisconnect(c) PROVE UNCHANGED <<callbacks, msgMap, direct, target>>
    BY <2>2 DEF P!OnDisconnect
  <2>3. ASSUME NEW c \in Conns, NEW r \in P!ReqIds, r \in P!Handed(c), P!OnResponse(c, r)
        PROVE  P!LedgerInv' /\ direct' = {}
    BY <1>1, <2>3, P!OnResponseLedger, Constants DEF QueueInv, P!OnResponse
  <2>4. ASSUME NEW s \in Servers, P!Request(s) PROVE P!LedgerInv' /\ direct' = {}
    BY <1>1, <2>4, P!RequestLedger, Constants DEF QueueInv, P!Request
  <2> QED BY <2>1, <2>2, <2>3, <2>4, MasterChanges
<1>4. CASE \E c \in Conns : MasterNotices(c)
  <2>1. PICK c \in Conns : P!OnDisconnect(c)
    BY <1>4, SameActions DEF MasterNotices
  <2>2. P!PrimaryHasPending'
    BY <1>1, <1>2, <2>1, P!EndPending, Constants DEF QueueInv
  <2>3. \A d \in Conns : sent'[d] = sent[d] \/ sent'[d] = <<>>
    BY <1>1, <2>1, P!EndForgets, Constants
  <2>4. P!NoneTwice(<<>>)
    BY <1>1, P!QuietReplies, P!NoneTwiceInShort, Constants
  <2> QED BY <1>3, <2>2, <2>3, <2>4 DEF QueueInv, P!WrittenOnce
<1>5. CASE \A c \in Conns : ~MasterNotices(c)
  <2>1. P!Written /\ P!Grows
    BY <1>5, WritesOfMaster
  <2>2. P!WrittenOnce'
    BY <1>1, <2>1, P!WritesOnce, Constants DEF QueueInv, P!LedgerInv
  <2>3. ASSUME UNCHANGED <<idMap, msgMap>> PROVE P!PrimaryHasPending'
    <3>1. \A s \in Servers : idMap[s] # NONE => idMap[s].socket \in Conns
      BY <1>1 DEF P!TypeOK, P!Records
    <3>2. \A c \in Conns : P!Handed(c) \subseteq P!HandedThen(c)
      BY <1>1, <2>1, P!StillHanded, Constants
    <3> QED BY <2>3, <3>1, <3>2 DEF QueueInv, P!PrimaryHasPending, P!Handed, P!HandedThen
  <2>4. P!PrimaryHasPending'
    BY <1>1, <1>2, <1>5, <2>1, <2>3, MasterChanges, P!EntersPending, P!RequestPending, P!ResponsePending, Constants
       DEF QueueInv
  <2> QED BY <1>3, <2>2, <2>4 DEF QueueInv
<1> QED BY <1>4, <1>5

-----------------------------------------------------------------------------
(***************************************************************************)
(* What the monitor has still to read: one reply, and each request once.   *)
(***************************************************************************)
IsReply(m) == m.kind \in {"register", "reconnect_ok"}
AsksFor(m, r) == m.kind = "request" /\ m.n = r

\* The reply and the requests it was given are behind it.
Unread(c) ==
  /\ \A i, j \in DOMAIN sent[c] : IsReply(sent[c][i]) /\ IsReply(sent[c][j]) => i = j
  /\ c \in replied => \A i \in DOMAIN sent[c] : IsReply(sent[c][i]) => i <= heard[c]
  /\ \A r : <<c, r>> \in given => \A i \in DOMAIN sent[c] : AsksFor(sent[c][i], r) => i <= heard[c]

UnreadInv == \A c \in Conns : Unread(c)

\* Nothing is written.
LEMMA UnreadStill ==
  ASSUME NEW c \in Conns, Unread(c), sent'[c] = sent[c] \/ sent'[c] = <<>>,
         \/ heard'[c] = heard[c] /\ (c \in replied' => c \in replied)
            /\ \A r : <<c, r>> \in given' => <<c, r>> \in given
         \/ c \notin replied' /\ \A r : <<c, r>> \notin given'
  PROVE  Unread(c)'
<1>1. DOMAIN <<>> = {}
  OBVIOUS
<1> QED BY <1>1 DEF Unread

\* The master writes ms: requests that the monitor was not given, and a reply if there was
\* none.
LEMMA UnreadMore ==
  ASSUME NEW c \in Conns, Unread(c), UNCHANGED <<heard, replied, given>>,
         sent[c] \in Seq(P!Message), NEW ms \in Seq(P!Message), sent'[c] = sent[c] \o ms,
         \A i \in 1..Len(ms) : ms[i].kind = "request" => <<c, ms[i].n>> \notin given,
         \/ \A i \in 1..Len(ms) : ~IsReply(ms[i])
         \/ /\ c \notin replied /\ \A i \in DOMAIN sent[c] : ~IsReply(sent[c][i])
            /\ \A i \in 1..Len(ms) : IsReply(ms[i]) => i = 1
  PROVE  Unread(c)'
<1> DEFINE q == sent[c]
           more == q \o ms
<1>1. /\ more \in Seq(P!Message) /\ Len(q) \in Nat
      /\ \A i \in 1..Len(more) :
           \/ i \in 1..Len(q) /\ more[i] = q[i]
           \/ i - Len(q) \in 1..Len(ms) /\ more[i] = ms[i - Len(q)]
  BY P!InARow, Constants
<1>2. DOMAIN sent'[c] = 1..Len(more) /\ DOMAIN q = 1..Len(q) /\ sent'[c] = more
  BY <1>1
<1> HIDE DEF more
<1>3. ASSUME NEW i \in DOMAIN sent'[c], NEW j \in DOMAIN sent'[c], IsReply(sent'[c][i]), IsReply(sent'[c][j])
      PROVE  i = j
  <2> DEFINE Old(k) == k \in 1..Len(q) /\ more[k] = q[k]
             New(k) == k - Len(q) \in 1..Len(ms) /\ more[k] = ms[k - Len(q)]
  <2>1. /\ i \in 1..Len(more) /\ j \in 1..Len(more) /\ Len(q) \in Nat
        /\ IsReply(more[i]) /\ IsReply(more[j])
    BY <1>1, <1>2, <1>3
  <2>2. (Old(i) \/ New(i)) /\ (Old(j) \/ New(j))
    BY <1>1, <2>1
  <2>3. CASE Old(i) /\ Old(j)
    BY <1>2, <2>1, <2>3 DEF Unread
  <2>4. CASE New(i) \/ New(j)
    <3>1. /\ \A k \in 1..Len(q) : ~IsReply(q[k])
          /\ \A k \in 1..Len(ms) : IsReply(ms[k]) => k = 1
      BY <1>2, <2>1, <2>4
    <3>2. i - Len(q) = 1 /\ j - Len(q) = 1
      BY <2>1, <2>2, <3>1
    <3> QED BY <2>1, <3>2
  <2> QED BY <2>2, <2>3, <2>4
<1>4. ASSUME c \in replied, NEW i \in DOMAIN sent'[c], IsReply(sent'[c][i]) PROVE i <= heard[c]
  BY <1>1, <1>2, <1>4 DEF Unread
<1>5. ASSUME NEW r, <<c, r>> \in given, NEW i \in DOMAIN sent'[c], AsksFor(sent'[c][i], r) PROVE i <= heard[c]
  BY <1>1, <1>2, <1>5 DEF Unread, AsksFor
<1> QED BY <1>3, <1>4, <1>5 DEF Unread

\* The monitor reads the next message: the only reply, the only one with that request.
LEMMA ReadsUnread ==
  ASSUME SystemInv, P!WrittenOnce, UnreadInv, NEW c \in Conns, MonitorReads(c)
  PROVE  UnreadInv'
<1> DEFINE m == ToClient(c)
           h == heard[c] + 1
<1>1. /\ sent' = sent /\ h \in DOMAIN sent[c] /\ m = sent[c][h] /\ heard[c] \in Nat
      /\ sent[c] \in Seq(P!Message) /\ heard'[c] = h
      /\ \A d \in Conns \ {c} : heard'[d] = heard[d]
  BY NextOfMaster DEF MonitorReads, masterVars
<1>2. /\ replied' = replied \/ (replied' = replied \cup {c} /\ IsReply(m))
      /\ given' = given \/ (given' = given \cup {<<c, m.n>>} /\ m.kind = "request")
  BY DEF MonitorReads, OnReply, OnRequest, OnKicked, histVars, IsReply
<1> HIDE DEF m, h
<1>3. DOMAIN sent[c] = 1..Len(sent[c]) /\ h = heard[c] + 1
  BY <1>1 DEF h
<1>4. ASSUME NEW d \in Conns \ {c} PROVE Unread(d)'
  BY <1>1, <1>2, <1>4, UnreadStill DEF UnreadInv
<1>5. ASSUME c \in replied', NEW i \in DOMAIN sent[c], IsReply(sent[c][i]) PROVE i <= h
  <2>1. CASE c \in replied
    <3>1. i <= heard[c] /\ i \in Nat
      BY <1>3, <1>5, <2>1 DEF UnreadInv, Unread
    <3> QED BY <1>1, <1>3, <3>1
  <2>2. CASE IsReply(m)
    <3>1. i = h
      BY <1>1, <1>5, <2>2 DEF UnreadInv, Unread
    <3> QED BY <1>1, <1>3, <3>1
  <2> QED BY <1>2, <1>5, <2>1, <2>2
<1>6. ASSUME NEW r, <<c, r>> \in given', NEW i \in DOMAIN sent[c], AsksFor(sent[c][i], r) PROVE i <= h
  <2>1. CASE <<c, r>> \in given
    <3>1. i <= heard[c] /\ i \in Nat
      BY <1>3, <1>6, <2>1 DEF UnreadInv, Unread
    <3> QED BY <1>1, <1>3, <3>1
  <2>2. CASE m.kind = "request" /\ r = m.n
    <3>1. sent[c][i] \in P!Message /\ sent[c][h] \in P!Message
      BY <1>1
    <3>2. sent[c][i] = sent[c][h]
      BY <1>1, <1>6, <2>2, <3>1 DEF P!Message, AsksFor
    <3>3. i = h
      BY <1>1, <1>3, <2>2, <3>2 DEF P!WrittenOnce, P!NoneTwice
    <3> QED BY <1>1, <1>3, <3>3
  <2> QED BY <1>2, <1>6, <2>1, <2>2
<1>7. Unread(c)'
  BY <1>1, <1>5, <1>6 DEF UnreadInv, Unread
<1> QED BY <1>4, <1>7 DEF UnreadInv

\* The master replies to a greeting, the first one.
LEMMA GreetingUnread ==
  ASSUME OwnInv, GreetingInv, ReadInv, MeetInv, UnreadInv, NEW c \in Conns, MasterReads(c),
         ToMaster(c).kind \in {"register", "reconnect"}
  PROVE  UnreadInv'
<1>1. /\ ~Acquainted(c) /\ sock[c] = "open" /\ SystemInv /\ P!TypeOK
      /\ P!RegisterMonitor(c, Me) \/ P!OnReconnect(c, Me)
  BY SameActions, FirstMeeting DEF MasterReads, OwnInv, SystemInv, MasterInv
<1>2. UNCHANGED <<heard, replied, given>> /\ sent \in [Conns -> Seq(P!Message)]
  BY <1>1 DEF MasterReads, Takes, monitorVars, histVars, P!TypeOK
<1>3. /\ c \notin replied /\ \A r : <<c, r>> \notin given
      /\ \A i \in DOMAIN sent[c] : ~IsReply(sent[c][i])
  BY <1>1 DEF Acquainted, IsReply
<1>4. ASSUME NEW ms \in Seq(P!Message), P!Put(c, ms), \A i \in 1..Len(ms) : IsReply(ms[i]) => i = 1
      PROVE  UnreadInv'
  <2>1. sent'[c] = sent[c] \o ms /\ \A d \in Conns \ {c} : sent'[d] = sent[d]
    BY <1>1, <1>2, <1>4 DEF P!Put
  <2>2. Unread(c)'
    BY <1>2, <1>3, <1>4, <2>1, UnreadMore DEF UnreadInv
  <2>3. ASSUME NEW d \in Conns \ {c} PROVE Unread(d)'
    BY <1>2, <2>1, UnreadStill DEF UnreadInv
  <2> QED BY <2>2, <2>3 DEF UnreadInv
<1>5. ASSUME NEW ok \in P!Message, P!Put(c, <<ok>> \o P!Repush(Me.id)) PROVE UnreadInv'
  <2> DEFINE a == <<ok>>
             b == P!Repush(Me.id)
  <2>1. a \in Seq(P!Message) /\ Len(a) = 1 /\ b \in Seq(P!Message)
    BY <1>1, MeKnown, P!RepushType, Constants
  <2>2. \A i \in DOMAIN b : b[i].kind = "request"
    BY DEF P!Repush, P!RequestMsg
  <2>3. DOMAIN b = 1..Len(b)
    BY <2>1
  <2> HIDE DEF a, b
  <2>4. /\ a \o b \in Seq(P!Message)
        /\ \A i \in 1..Len(a \o b) :
             \/ i \in 1..Len(a)
             \/ i - Len(a) \in 1..Len(b) /\ (a \o b)[i] = b[i - Len(a)]
    BY <2>1, P!InARow, Constants
  <2>5. \A i \in 1..Len(a \o b) : IsReply((a \o b)[i]) => i = 1
    BY <2>1, <2>2, <2>3, <2>4 DEF IsReply
  <2> QED BY <1>4, <1>5, <2>4, <2>5 DEF a, b
<1>6. ASSUME NEW ok \in P!Message, P!Put(c, <<ok>>) PROVE UnreadInv'
  <2>1. <<ok>> \in Seq(P!Message) /\ Len(<<ok>>) = 1
    OBVIOUS
  <2>2. \A i \in 1..Len(<<ok>>) : i = 1
    BY <2>1
  <2> QED BY <1>4, <1>6, <2>1, <2>2
<1>7. CASE P!RegisterMonitor(c, Me) /\ c \in registered'
  <2>1. P!Put(c, <<P!Register(P!PRO_OK)>> \o P!Repush(Me.id))
    BY <1>1, <1>7 DEF P!RegisterMonitor, Acquainted
  <2> QED BY <1>5, <2>1, Replies
<1>8. CASE P!OnReconnect(c, Me)
  BY <1>5, <1>6, <1>8, MeKnown, Replies DEF P!OnReconnect
<1> QED BY <1>1, <1>7, <1>8, SameActions DEF MasterReads

\* Nobody writes or reads.
LEMMA QuietUnread ==
  ASSUME UnreadInv, UNCHANGED <<sent, heard, replied, given>>
  PROVE  UnreadInv'
BY DEF UnreadInv, Unread

\* The master writes something that is not a reply to one connection.
LEMMA OtherUnread ==
  ASSUME SystemInv, UnreadInv, UNCHANGED <<heard, replied, given>>, NEW c \in Conns,
         NEW m \in P!Message, P!Put(c, <<m>>), ~IsReply(m), m.kind = "request" => <<c, m.n>> \notin given
  PROVE  UnreadInv'
<1>1. sent \in [Conns -> Seq(P!Message)]
  BY DEF SystemInv, MasterInv, P!TypeOK
<1>2. CASE sock[c] # "open"
  <2>1. sent' = sent
    BY <1>1, <1>2 DEF P!Put
  <2> QED BY <2>1, QuietUnread
<1>3. CASE sock[c] = "open"
  <2> DEFINE ms == <<m>>
  <2>1. ms \in Seq(P!Message) /\ \A i \in 1..Len(ms) : ms[i] = m
    OBVIOUS
  <2> HIDE DEF ms
  <2>2. sent'[c] = sent[c] \o ms /\ \A d \in Conns \ {c} : sent'[d] = sent[d]
    BY <1>1, <1>3 DEF P!Put, ms
  <2>3. Unread(c)'
    BY <1>1, <2>1, <2>2, UnreadMore DEF UnreadInv
  <2>4. ASSUME NEW d \in Conns \ {c} PROVE Unread(d)'
    BY <2>2, UnreadStill DEF UnreadInv
  <2> QED BY <2>3, <2>4 DEF UnreadInv
<1> QED BY <1>2, <1>3

\* Every step keeps it.
LEMMA UnreadStep ==
  ASSUME OwnInv, GreetingInv, ReadInv, MeetInv, HeardInv, QueueInv, UnreadInv, [Next]_vars, [~Restart]_vars
  PROVE  UnreadInv'
<1>1. /\ SystemInv /\ sent \in [Conns -> Seq(P!Message)] /\ heard \in [Conns -> Nat]
  BY DEF OwnInv, SystemInv, MasterInv, P!TypeOK, NetworkShape
<1>2. ASSUME NEW c \in Conns, Open(c) \/ Acknowledge(c) \/ Cut(c) \/ Accept(c) PROVE UnreadInv'
  <2>1. UNCHANGED <<sent, heard, replied, given>>
    BY <1>2 DEF Open, ConnectMonitor, ReconnectMonitor, Acknowledge, OnConnack, Cut, CutOff, Accept,
       Master!Connection, masterVars, monitorVars, histVars, network
  <2> QED BY <2>1, QuietUnread
<1>3. CASE MonitorSteps \/ UNCHANGED vars
  <2>1. UNCHANGED <<sent, heard, replied, given>>
    BY <1>3, KeepAliveDoes DEF MonitorSteps, OnConnectTimeout, Respond, Notify, CloseMonitor, vars, masterVars,
       monitorVars, histVars, network
  <2> QED BY <2>1, QuietUnread
<1>4. ASSUME NEW c \in Conns, MonitorNotices(c) PROVE UnreadInv'
  <2>1. /\ sent' = sent /\ heard' = [heard EXCEPT ![c] = 0]
        /\ replied' = replied \ {c} /\ given' = {w \in given : w[1] # c}
    BY <1>4 DEF MonitorNotices, OnStreamEnds, ClientSeesEnd, masterVars
  <2>2. c \notin replied' /\ \A r : <<c, r>> \notin given'
    BY <2>1
  <2>3. \A d \in Conns \ {c} : heard'[d] = heard[d] /\ (d \in replied' => d \in replied)
    BY <1>1, <2>1
  <2>4. \A d \in Conns \ {c} : \A r : <<d, r>> \in given' => <<d, r>> \in given
    BY <2>1
  <2> QED BY <2>1, <2>2, <2>3, <2>4, UnreadStill DEF UnreadInv
<1>5. ASSUME NEW c \in Conns, MonitorReads(c) PROVE UnreadInv'
  BY <1>1, <1>5, ReadsUnread DEF QueueInv
<1>6. ASSUME NEW c \in Conns, MasterNotices(c) PROVE UnreadInv'
  <2>1. UNCHANGED <<heard, replied, given>> /\ sent' = [sent EXCEPT ![c] = <<>>]
    BY <1>6 DEF MasterNotices, MasterSeesEnd, Master!OnDisconnect, monitorVars, histVars
  <2>2. \A d \in Conns : sent'[d] = sent[d] \/ sent'[d] = <<>>
    BY <1>1, <2>1
  <2> QED BY <2>1, <2>2, UnreadStill DEF UnreadInv
<1>7. ASSUME NEW c \in Conns, MasterReads(c) PROVE UnreadInv'
  <2>1. UNCHANGED <<heard, replied, given>>
    BY <1>7 DEF MasterReads, Takes, monitorVars, histVars
  <2>2. CASE P!Kick(c)
    <3>1. P!Disconnect \in P!Message /\ P!Disconnect.kind = "disconnect" /\ P!Put(c, <<P!Disconnect>>)
      BY <2>2, Replies DEF P!Kick, P!Disconnect, P!Plain
    <3>2. ~IsReply(P!Disconnect) /\ P!Disconnect.kind # "request"
      BY <3>1 DEF IsReply
    <3> QED BY <1>1, <2>1, <3>1, <3>2, OtherUnread
  <2>3. CASE sent' = sent
    BY <2>1, <2>3, QuietUnread
  <2> QED BY <1>7, <2>2, <2>3, GreetingUnread, SameActions DEF MasterReads, P!OnResponse, masterVars
<1>8. CASE MasterSteps
  <2>1. UNCHANGED <<heard, replied, given>> /\ (P!Listen \/ \E s \in Servers : P!Request(s))
    BY <1>8, SameActions DEF MasterSteps, monitorVars, histVars, network
  <2>2. CASE sent' = sent
    BY <2>1, <2>2, QuietUnread
  <2>3. ASSUME NEW s \in Servers, P!Request(s), sent' # sent PROVE UnreadInv'
    <3>1. idMap[s] # NONE /\ P!Put(idMap[s].socket, <<P!RequestMsg(reqId)>>)
      BY <2>3 DEF P!Request
    <3>2. idMap[s].socket \in Conns
      BY <3>1 DEF OwnInv, SystemInv, MasterInv, P!TypeOK, P!Records
    <3>3. reqId \in P!ReqIds /\ target[reqId] = NONE
      <4>1. P!NewRequest(s) /\ P!TypeOK /\ P!Consistent /\ UNCHANGED answered
        BY <2>3 DEF P!Request, OwnInv, OwnMaster, SystemInv, MasterInv
      <4> QED BY <4>1, P!NewRequestConsistent, Constants
    <3>4. PICK c \in Conns : c = idMap[s].socket
      BY <3>2
    <3>5. <<c, reqId>> \notin given
      BY <3>3 DEF HeardInv
    <3>6. P!RequestMsg(reqId) \in P!Message
      BY <3>3 DEF P!RequestMsg, P!Message, P!Kinds, P!ReqIds
    <3>7. ~IsReply(P!RequestMsg(reqId)) /\ P!RequestMsg(reqId).n = reqId
      BY DEF IsReply, P!RequestMsg
    <3> QED BY <1>1, <2>1, <3>1, <3>4, <3>5, <3>6, <3>7, OtherUnread
  <2> QED BY <2>1, <2>2, <2>3 DEF P!Listen
<1> QED BY <1>2, <1>3, <1>4, <1>5, <1>6, <1>7, <1>8 DEF Next

-----------------------------------------------------------------------------
(***************************************************************************)
(* The steps of the system are those of the two agents.                    *)
(***************************************************************************)
SideInv ==
  /\ OwnInv /\ OneInv /\ GreetingInv /\ ReadInv /\ HeardInv /\ MeetInv /\ QueueInv /\ UnreadInv

\* The system starts in it.
LEMMA SideStart == Init => SideInv
<1> SUFFICES ASSUME Init PROVE SideInv
  OBVIOUS
<1>1. OwnInv /\ OneInv
  BY OwnStart, OneStart
<1>2. /\ \A c \in Conns : wrote[c] = <<>> /\ sent[c] = <<>> /\ sock[c] = "closed" /\ taken[c] = 0
      /\ \A c \in Conns : stream[c] = "ended"
      /\ registered = {} /\ replied = {} /\ given = {} /\ direct = {}
  BY DEF Init, Master!Init, MonitorInit, ClientInit, StreamsInit
<1>3. \A c \in Conns : \A i : ~GreetsAt(c, i) /\ ~LeavesAt(c, i)
  BY <1>2 DEF GreetsAt, LeavesAt
<1>4. GreetingInv /\ ReadInv
  BY <1>2, <1>3 DEF GreetingInv, ReadInv
<1>5. HeardInv /\ MeetInv
  BY <1>2 DEF HeardInv, MeetInv, Meets
<1>6. QueueInv
  <2>1. P!Init
    BY SameVocabulary DEF Init
  <2>2. P!LedgerInv
    BY <2>1, P!InitLedger, Constants
  <2>3. P!WrittenOnce
    <3>1. Len(<<>>) = 0 /\ 1..0 = {}
      OBVIOUS
    <3> QED BY <1>2, <3>1 DEF P!WrittenOnce, P!NoneTwice
  <2>4. P!PrimaryHasPending
    BY <2>1 DEF P!Init, P!PrimaryHasPending
  <2> QED BY <1>2, <2>2, <2>3, <2>4 DEF QueueInv
<1>7. UnreadInv
  <2>1. DOMAIN <<>> = {}
    OBVIOUS
  <2> QED BY <1>2, <2>1 DEF UnreadInv, Unread
<1> QED BY <1>1, <1>4, <1>5, <1>6, <1>7 DEF SideInv

\* Every step but a restart keeps it.
LEMMA SideStep ==
  ASSUME SideInv, [Next]_vars, [~Restart]_vars
  PROVE  SideInv'
<1>1. OwnInv' /\ OwnMaster'
  BY OwnStep DEF SideInv, OwnInv
<1>2. OneInv' /\ GreetingInv' /\ ReadInv'
  BY OneStep, GreetingStep DEF SideInv, OwnInv
<1>3. HeardInv' /\ MeetInv'
  BY <1>1, HeardStep, MeetStep DEF SideInv
<1>4. QueueInv' /\ UnreadInv'
  BY <1>1, <1>3, QueueStep, UnreadStep DEF SideInv
<1> QED BY <1>1, <1>2, <1>3, <1>4 DEF SideInv

\* What the monitor reads is something a master can send: a reply to its greeting, which is
\* the first, a request it was not given on that stream, or that it is kicked.
LEMMA ReadsReceive ==
  ASSUME SideInv, {"kick", "overdue"} \subseteq Faults, NEW c \in Conns, MonitorReads(c)
  PROVE  Receive(c)
<1> DEFINE m == ToClient(c)
           h == heard[c] + 1
<1>1. /\ heard[c] \in Nat /\ h \in DOMAIN sent[c] /\ m = sent[c][h] /\ stream[c] = "open"
      /\ DOMAIN sent[c] = 1..Len(sent[c]) /\ ~(h <= heard[c])
  <2>1. SystemInv
    BY DEF SideInv, OwnInv
  <2>2. heard[c] \in Nat /\ h \in DOMAIN sent[c] /\ m = sent[c][h] /\ stream[c] = "open" /\ sent[c] \in Seq(P!Message)
    BY <2>1, NextOfMaster
  <2> QED BY <2>2
<1> HIDE DEF m, h
<1>2. sent[c] # <<>>
  BY <1>1
<1>3. sock[c] = "open"
  <2>1. P!ClosedSilent /\ sock \in [Conns -> {"open", "closed"}]
    BY DEF SideInv, OwnInv, OwnMaster, P!Consistent, SystemInv, MasterInv, P!TypeOK
  <2> QED BY <1>2, <2>1 DEF P!ClosedSilent
<1>4. wrote[c] # <<>>
  <2>1. taken[c] > 0 /\ taken[c] <= Len(wrote[c]) /\ taken[c] \in Nat /\ Len(wrote[c]) \in Nat
    BY <1>1, <1>2, <1>3, WroteShape DEF SideInv, OwnInv, MeetInv, Meets, ReadInv
  <2> QED BY <2>1
<1>5. ASSUME m.kind # "disconnect" PROVE Greeted(c)
  <2>1. GreetingRead(c)
    BY <1>1, <1>3, <1>5 DEF SideInv, MeetInv, Meets, Acquainted
  <2>2. PICK i : GreetsAt(c, i)
    BY <2>1 DEF GreetingRead
  <2>3. wrote[c][i].n = 0 /\ wrote[c][i] \in Messages
    BY <2>2, WroteShape DEF SideInv, OwnInv, GreetingInv, GreetsAt
  <2>4. wrote[c][i] = Said("register", 0) \/ wrote[c][i] = Said("reconnect", 0)
    BY <2>2, <2>3 DEF GreetsAt, Messages, Said
  <2> QED BY <2>2, <2>4 DEF Greeted, ToSet, GreetsAt
<1>6. CASE m.kind \in {"register", "reconnect_ok"} /\ OnReply(c, m.n = Master!PRO_OK)
  <2>1. c \notin replied
    BY <1>1, <1>6 DEF SideInv, UnreadInv, Unread, IsReply
  <2>2. (m.n = Master!PRO_OK) \in BOOLEAN
    OBVIOUS
  <2> QED BY <1>1, <1>5, <1>6, <2>1, <2>2 DEF Receive
<1>7. CASE m.kind = "request" /\ OnRequest(c, m.n)
  <2>1. <<c, m.n>> \notin given
    BY <1>1, <1>7 DEF SideInv, UnreadInv, Unread, AsksFor
  <2>2. m.n \in Reqs
    BY <1>1, <1>7, RequestMade, SystemAssumption, SameVocabulary DEF SideInv
  <2> QED BY <1>1, <1>5, <1>7, <2>1, <2>2 DEF Receive
<1>8. CASE OnKicked(c)
  BY <1>1, <1>4, <1>8 DEF Receive
<1> QED BY <1>6, <1>7, <1>8 DEF MonitorReads, m

\* A step of the system is one of the monitor, or leaves it alone.
LEMMA MonitorStep ==
  ASSUME SideInv, {"kick", "overdue"} \subseteq Faults, [Next]_vars, [~Restart]_vars
  PROVE  [MonitorNext]_monitorVars
<1>1. ASSUME NEW c \in Conns, alive = "running", Open(c) PROVE MonitorNext
  BY <1>1 DEF Open, MonitorNext, Timers
<1>2. ASSUME NEW c \in Conns, alive = "running", Acknowledge(c) \/ MonitorNotices(c) PROVE MonitorNext
  BY <1>2 DEF Acknowledge, MonitorNotices, MonitorNext
<1>3. ASSUME NEW c \in Conns, alive = "running", MonitorReads(c) PROVE MonitorNext
  BY <1>3, ReadsReceive DEF MonitorNext
<1>4. CASE MonitorSteps
  BY <1>4 DEF MonitorSteps, MonitorNext, Timers
<1>5. CASE MasterSteps \/ UNCHANGED vars \/ \E c \in Conns : Accept(c) \/ Cut(c) \/ MasterNotices(c) \/ MasterReads(c)
  BY <1>5 DEF MasterSteps, vars, Accept, Cut, MasterNotices, MasterReads
<1> QED BY <1>1, <1>2, <1>3, <1>4, <1>5 DEF Next

\* The two sides keep SideInv together while no process is started again.
LEMMA SidesAgree == Spec /\ [][~Restart]_vars => []SideInv
<1>1. SideInv /\ [Next]_vars /\ [~Restart]_vars => SideInv'
  BY SideStep
<1> QED BY <1>1, SideStart, PTL DEF Spec

\* The master of masterAgent.js does to the monitor only what MonitorAgent lets a master do:
\* it replies once to each greeting, and gives each request once on a stream, in whatever
\* order streams are cut, noticed and opened; so what is proved of the monitor agent holds
\* in the system.
THEOREM SystemMeetsMonitor ==
  ASSUME {"kick", "overdue"} \subseteq Faults
  PROVE  Spec /\ [][~Restart]_vars => MonitorSpec
<1>1. SideInv /\ [Next]_vars /\ [~Restart]_vars => [MonitorNext]_monitorVars
  BY MonitorStep
<1>2. Init => MonitorInit
  BY DEF Init
<1> QED BY <1>1, <1>2, SidesAgree, PTL DEF Spec, MonitorSpec

\* The monitor does to masterAgent.js only what MasterAgent lets its peers do: it greets a
\* connection once, and answers there what it was handed on that connection; except that
\* what it still sends on a connection that is not registered gets it kicked each time.
THEOREM SystemMeetsMaster ==
  Spec /\ [][~Restart]_vars => Master!Init /\ [][MasterMoves]_masterVars
<1>1. SideInv /\ [Next]_vars /\ [~Restart]_vars => [MasterMoves]_masterVars
  BY MasterStep DEF SideInv
<1>2. Init => Master!Init
  BY DEF Init
<1> QED BY <1>1, <1>2, SidesAgree, PTL DEF Spec

\* So do they when no process is started again.
COROLLARY MeetUnrestarted ==
  ASSUME {"kick", "overdue"} \subseteq Faults, MaxRestarts = 0
  PROVE  Spec => MonitorSpec /\ Master!Init /\ [][MasterMoves]_masterVars
<1>1. SystemInv /\ [Next]_vars => [~Restart]_vars
  BY DEF Restart, SystemInv
<1> QED BY <1>1, SystemAgrees, SystemMeetsMonitor, SystemMeetsMaster, PTL DEF Spec

=============================================================================
