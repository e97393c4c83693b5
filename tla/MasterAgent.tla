----------------------------- MODULE MasterAgent -----------------------------
(***************************************************************************)
(* The master process: lib/master/masterAgent.js (the tables, the          *)
(* requests, the notifications) with lib/master/masterSocket.js (the       *)
(* handlers of one connection) and the listening side of                   *)
(* lib/protocol/mqtt/mqttServer.js.                                        *)
(*                                                                         *)
(* JavaScript runs a handler to its end before the next one, so every      *)
(* handler and every API call is one action.  What the master writes to a  *)
(* connection c is appended to sent[c], in order, while the connection is  *)
(* open; what it reads is chosen by Next among the messages a peer can     *)
(* send (AdminSystem supplies the real peers and channels).                *)
(***************************************************************************)
EXTENDS Integers, SequencesExt

CONSTANTS
  Conns,      \* connections; one is used again once no table mentions it
  Servers,    \* ids of the monitored servers
  Types,      \* server types
  TypeOf,     \* the type of a server
  Addrs,      \* values of a monitor's info (its host and port)
  Users,      \* ids of the admin clients
  NONE,       \* no connection, no server, no peer
  NoInfo,     \* the value of info when a monitor has none (undefined)
  AsyncAuth,  \* TRUE: the configured auth functions call back later
  MaxReq,     \* bound: requests the master issues
  MaxSent,    \* bound: messages in sent[c] that still allow another notification
  MaxAsked    \* bound: requests of one peer the master has not answered

ASSUME NoneAssumption == NONE \notin Conns \cup Servers
ASSUME TypeAssumption == TypeOf \in [Servers -> Types]
ASSUME BoundAssumption == MaxReq \in Nat /\ MaxSent \in Nat /\ MaxAsked \in Nat
ASSUME FiniteAssumption == IsFiniteSet(Servers)
ASSUME AuthAssumption == AsyncAuth \in BOOLEAN

ReqIds == 1..MaxReq

PRO_OK == 1
PRO_FAIL == -1

MonitorPeers == [kind : {"monitor"}, id : Servers, addr : Addrs]
ClientPeers == [kind : {"client"}, id : Users, addr : {NoInfo}]
\* A peer that registers with a type that is neither 'monitor' nor 'client'.
OtherPeer == [kind |-> "other", id |-> NONE, addr |-> NoInfo]
Peers == MonitorPeers \cup ClientPeers \cup {OtherPeer}

ASSUME NoPeerAssumption == NONE \notin Peers

\* Mutant: the record is stored under the kind of the peer, not its id.
RecordOfKind(c, p) == [id |-> p.kind, addr |-> p.addr, socket |-> c]

\* A record of addConnection: what the peer announced, and its connection.
Record(c, p) == [id |-> p.id, addr |-> p.addr, socket |-> c]
Records == [id : Servers, addr : Addrs, socket : Conns]

ASSUME NoRecordAssumption == NONE \notin Records

Kinds == {"register", "reconnect_ok", "request", "notify", "command",
          "client", "response", "disconnect"}
Message == [kind : Kinds, n : Int]

Register(code) == [kind |-> "register", n |-> code]
ReconnectOk(code) == [kind |-> "reconnect_ok", n |-> code]
RequestMsg(r) == [kind |-> "request", n |-> r]
Plain(kind) == [kind |-> kind, n |-> 0]
Disconnect == Plain("disconnect")

VARIABLES
  agentState,  \* MasterAgent.state, or "CRASHED" after an uncaught exception
  listening,   \* net.Server accepts connections
  sock,        \* the stream of a connection: "open" or "closed"
  peer,        \* the identity a connection has announced (id, type, info)
  registered,  \* MasterSocket.registered
  authing,     \* connections whose auth function has not called back
  asked,       \* requests of a peer whose callback is still to come
  idMap,       \* server id -> its record (the primary)
  typeMap,     \* server type -> list of the primaries' records
  slaveMap,    \* server id -> list of the records of its other connections
  clients,     \* client id -> the connection of its record
  reqId,       \* the next request id
  callbacks,   \* request ids with a stored callback
  msgMap,      \* server id -> pending requests, ascending (the key order)
  sent,        \* what was written to a connection since it opened
  target,      \* history: request id -> server it was made to
  direct,      \* history: the requests made by requestServer()
  answered,    \* history: request id -> servers whose answers were passed on
  refused      \* history: requests called back with "unknown server id"

tables == <<idMap, typeMap, slaveMap, clients>>
requests == <<reqId, callbacks, msgMap>>
history == <<target, direct, answered, refused>>
links == <<sock, peer, registered, authing, asked>>
process == <<agentState, listening>>
vars == <<process, links, tables, requests, sent, history>>

Init ==
  /\ agentState = "INITED"
  /\ listening = FALSE
  /\ sock = [c \in Conns |-> "closed"]
  /\ peer = [c \in Conns |-> NONE]
  /\ registered = {}
  /\ authing = {}
  /\ asked = [c \in Conns |-> 0]
  /\ idMap = [s \in Servers |-> NONE]
  /\ typeMap = [t \in Types |-> <<>>]
  /\ slaveMap = [s \in Servers |-> <<>>]
  /\ clients = [u \in Users |-> NONE]
  /\ reqId = 1
  /\ callbacks = {}
  /\ msgMap = [s \in Servers |-> <<>>]
  /\ sent = [c \in Conns |-> <<>>]
  /\ target = [r \in ReqIds |-> NONE]
  /\ direct = {}
  /\ answered = [r \in ReqIds |-> <<>>]
  /\ refused = {}

-----------------------------------------------------------------------------
(***************************************************************************)
(* Writing.  A write to a stream that has closed is lost.                  *)
(***************************************************************************)
Put(c, ms) ==
  sent' = [sent EXCEPT ![c] = IF sock[c] = "open" THEN @ \o ms ELSE @]

\* The message m to every connection c, times[c] times.
Broadcast(times, m) ==
  sent' = [c \in Conns |-> IF sock[c] = "open"
                           THEN sent[c] \o [i \in 1..times[c] |-> m] ELSE sent[c]]

\* A list of records is written to once per element, a map once per key.
PerElement(list) ==
  [c \in Conns |-> Cardinality({i \in DOMAIN list : list[i].socket = c})]
PerKey(map) ==
  [c \in Conns |-> Cardinality({k \in DOMAIN map : map[k] # NONE /\ map[k].socket = c})]

Room == \A c \in Conns : Len(sent[c]) < MaxSent

Primaries == {idMap[s] : s \in Servers} \ {NONE}
Slaves(s) == ToSet(slaveMap[s])
Sockets(records) == {r.socket : r \in records}

(***************************************************************************)
(* Starting and stopping.                                                  *)
(***************************************************************************)
Listen ==
  /\ agentState = "INITED"
  /\ agentState' = "STARTED"
  /\ listening' = TRUE
  /\ UNCHANGED <<links, tables, requests, sent, history>>

\* MqttServer.closed is TRUE from the constructor on; listen() does not reset it.
MqttServerClosed == TRUE

\* (Of an agent that never listened, close() sets the state and throws to its caller.)
Close ==
  /\ agentState \in {"INITED", "STARTED"}
  /\ agentState' = "CLOSED"
  /\ listening' = (listening /\ MqttServerClosed)
  /\ UNCHANGED <<links, tables, requests, sent, history>>

\* Nothing in the master mentions the connection any more.
Unused(c) ==
  /\ sock[c] = "closed"
  /\ c \notin authing \cup Sockets(Primaries)
  /\ \A s \in Servers : c \notin Sockets(Slaves(s))
  /\ \A t \in Types : c \notin Sockets(ToSet(typeMap[t]))
  /\ \A u \in Users : clients[u] # c

Connection(c) ==
  /\ listening
  /\ Unused(c)
  /\ sock' = [sock EXCEPT ![c] = "open"]
  /\ peer' = [peer EXCEPT ![c] = NONE]
  /\ UNCHANGED <<process, registered, authing, asked, tables, requests, sent, history>>

\* Mutant: a primary is entered among the slaves as well.
AddConnectionTwice(c, p) ==
  /\ slaveMap' = [slaveMap EXCEPT ![p.id] = Append(@, Record(c, p))]
  /\ \/ /\ idMap[p.id] = NONE
        /\ idMap' = [idMap EXCEPT ![p.id] = Record(c, p)]
        /\ typeMap' = [typeMap EXCEPT ![TypeOf[p.id]] = Append(@, Record(c, p))]
     \/ idMap[p.id] # NONE /\ UNCHANGED <<idMap, typeMap>>
  /\ UNCHANGED clients

(***************************************************************************)
(* addConnection, for a monitor: the first connection of an id is its      *)
(* primary, any other one a slave.                                         *)
(***************************************************************************)
AddConnection(c, p) ==
  \/ /\ idMap[p.id] = NONE
     /\ idMap' = [idMap EXCEPT ![p.id] = Record(c, p)]
     /\ typeMap' = [typeMap EXCEPT ![TypeOf[p.id]] = Append(@, Record(c, p))]
     /\ UNCHANGED <<slaveMap, clients>>
  \/ /\ idMap[p.id] # NONE
     /\ slaveMap' = [slaveMap EXCEPT ![p.id] = Append(@, Record(c, p))]
     /\ UNCHANGED <<idMap, typeMap, clients>>

\* repushQosMessage: every pending request of the server, oldest first.
Repush(s) == [i \in DOMAIN msgMap[s] |-> RequestMsg(msgMap[s][i])]

\* Mutant: the repush comes before the reply.
RegisterMonitorLate(c, p) ==
  /\ peer' = [peer EXCEPT ![c] = p]
  /\ AddConnection(c, p)
  /\ registered' = registered \cup {c}
  /\ Put(c, Repush(p.id) \o <<Register(PRO_OK)>>)
  /\ UNCHANGED <<process, sock, authing, asked, requests, history>>

(***************************************************************************)
(* A monitor registers.  doAuthServer adds the record and replies inside   *)
(* the callback of the auth function; the repush follows the call of       *)
(* doAuthServer whatever its outcome, and before it when the outcome comes *)
(* later.                                                                  *)
(***************************************************************************)
RegisterMonitor(c, p) ==
  /\ peer' = [peer EXCEPT ![c] = p]
  /\ \/ /\ ~AsyncAuth
        /\ AddConnection(c, p)
        /\ registered' = registered \cup {c}
        /\ Put(c, <<Register(PRO_OK)>> \o Repush(p.id))
        /\ UNCHANGED authing
     \/ /\ ~AsyncAuth
        /\ Put(c, <<Register(PRO_FAIL), Disconnect>> \o Repush(p.id))
        /\ UNCHANGED <<tables, registered, authing>>
     \/ /\ AsyncAuth
        /\ authing' = authing \cup {c}
        /\ Put(c, Repush(p.id))
        /\ UNCHANGED <<tables, registered>>
  /\ UNCHANGED <<process, sock, asked, requests, history>>

AuthServerDone(c) ==
  /\ c \in authing
  /\ peer[c] \in MonitorPeers
  /\ authing' = authing \ {c}
  /\ \/ /\ AddConnection(c, peer[c])
        /\ registered' = registered \cup {c}
        /\ Put(c, <<Register(PRO_OK)>>)
     \/ /\ Put(c, <<Register(PRO_FAIL), Disconnect>>)
        /\ UNCHANGED <<tables, registered>>
  /\ UNCHANGED <<process, sock, peer, asked, requests, history>>

\* Mutant: a taken id is not looked up.
AcceptAnyClient(c, p) ==
  /\ clients' = [clients EXCEPT ![p.id] = c]
  /\ registered' = registered \cup {c}
  /\ Put(c, <<Register(PRO_OK)>>)
  /\ UNCHANGED <<idMap, typeMap, slaveMap>>

(***************************************************************************)
(* An admin client registers.  It is refused without a reply when it has   *)
(* no id, with one when it has no user name, when its credentials are      *)
(* wrong, and when its id is taken at the time the auth function answers.  *)
(***************************************************************************)
AcceptClient(c, p) ==
  /\ clients[p.id] = NONE
  /\ clients' = [clients EXCEPT ![p.id] = c]
  /\ registered' = registered \cup {c}
  /\ Put(c, <<Register(PRO_OK)>>)
  /\ UNCHANGED <<idMap, typeMap, slaveMap>>

RefuseClient(c) ==
  /\ \E reply \in {<<>>, <<Register(PRO_FAIL)>>} : Put(c, reply \o <<Disconnect>>)
  /\ UNCHANGED <<tables, registered>>

RegisterClient(c, p) ==
  /\ peer' = [peer EXCEPT ![c] = p]
  /\ \/ ~AsyncAuth /\ AcceptClient(c, p) /\ UNCHANGED authing
     \/ RefuseClient(c) /\ UNCHANGED authing
     \/ /\ AsyncAuth
        /\ authing' = authing \cup {c}
        /\ UNCHANGED <<tables, registered, sent>>
  /\ UNCHANGED <<process, sock, asked, requests, history>>

AuthUserDone(c) ==
  /\ c \in authing
  /\ peer[c] \in ClientPeers
  /\ authing' = authing \ {c}
  /\ \/ AcceptClient(c, peer[c])
     \/ /\ Put(c, <<Register(PRO_FAIL), Disconnect>>)
        /\ UNCHANGED <<tables, registered>>
  /\ UNCHANGED <<process, sock, peer, asked, requests, history>>

RegisterOther(c) ==
  /\ peer' = [peer EXCEPT ![c] = OtherPeer]
  /\ Put(c, <<Register(PRO_FAIL), Disconnect>>)
  /\ UNCHANGED <<process, sock, registered, authing, asked, tables, requests, history>>

\* Mutant: a monitor that comes back is not pushed what is pending.
OnReconnectNoRepush(c, p) ==
  /\ peer' = [peer EXCEPT ![c] = p]
  /\ \/ /\ idMap[p.id] # NONE
        /\ Put(c, <<ReconnectOk(PRO_FAIL)>>)
        /\ UNCHANGED <<tables, registered>>
     \/ /\ idMap[p.id] = NONE
        /\ AddConnection(c, p)
        /\ registered' = registered \cup {c}
        /\ Put(c, <<ReconnectOk(PRO_OK)>>)
  /\ UNCHANGED <<process, sock, authing, asked, requests, history>>

\* Mutant: a taken id is not refused.
OnReconnectTaken(c, p) ==
  /\ peer' = [peer EXCEPT ![c] = p]
  /\ AddConnection(c, p)
  /\ registered' = registered \cup {c}
  /\ Put(c, <<ReconnectOk(PRO_OK)>> \o Repush(p.id))
  /\ UNCHANGED <<process, sock, authing, asked, requests, history>>

\* Mutant: the flag of the connection is not set.
OnReconnectUnflagged(c, p) ==
  /\ peer' = [peer EXCEPT ![c] = p]
  /\ \/ /\ idMap[p.id] # NONE
        /\ Put(c, <<ReconnectOk(PRO_FAIL)>>)
        /\ UNCHANGED tables
     \/ /\ idMap[p.id] = NONE
        /\ AddConnection(c, p)
        /\ Put(c, <<ReconnectOk(PRO_OK)>> \o Repush(p.id))
  /\ UNCHANGED <<process, sock, registered, authing, asked, requests, history>>

(***************************************************************************)
(* A monitor comes back on a new connection.  No auth function is called.  *)
(* A taken id is refused, without closing the connection.  A monitor       *)
(* without info makes the handler throw after the record was added.        *)
(***************************************************************************)
OnReconnect(c, p) ==
  /\ peer' = [peer EXCEPT ![c] = p]
  /\ \/ /\ idMap[p.id] # NONE
        /\ Put(c, <<ReconnectOk(PRO_FAIL)>>)
        /\ UNCHANGED <<agentState, tables, registered>>
     \/ /\ idMap[p.id] = NONE
        /\ AddConnection(c, p)
        /\ registered' = registered \cup {c}
        /\ \/ /\ p.addr # NoInfo
              /\ Put(c, <<ReconnectOk(PRO_OK)>> \o Repush(p.id))
              /\ UNCHANGED agentState
           \/ /\ p.addr = NoInfo
              /\ agentState' = "CRASHED"
              /\ UNCHANGED sent
  /\ UNCHANGED <<listening, sock, authing, asked, requests, history>>

-----------------------------------------------------------------------------
(***************************************************************************)
(* Messages of a registered peer.                                          *)
(***************************************************************************)
Kick(c) ==
  /\ c \notin registered
  /\ Put(c, <<Disconnect>>)
  /\ UNCHANGED <<process, links, tables, requests, history>>

\* Mutant: the answered request stays in the queue of its server.
OnResponseKeepsQueue(c, r) ==
  /\ c \in registered
  /\ peer[c] \in MonitorPeers
  /\ r \in callbacks
  /\ callbacks' = callbacks \ {r}
  /\ answered' = [answered EXCEPT ![r] = Append(@, peer[c].id)]
  /\ UNCHANGED <<process, links, tables, reqId, msgMap, sent, target, direct, refused>>

\* Mutant: the callback of the answered request is kept.
OnResponseKeepsCallback(c, r) ==
  /\ c \in registered
  /\ peer[c] \in MonitorPeers
  /\ r \in callbacks
  /\ Len(answered[r]) < 2
  /\ msgMap' = [msgMap EXCEPT ![peer[c].id] = RemoveFirst(@, r)]
  /\ answered' = [answered EXCEPT ![r] = Append(@, peer[c].id)]
  /\ UNCHANGED <<process, links, tables, reqId, callbacks, sent, target, direct, refused>>

\* onMonitor with a respId: the answer of a monitor to request r.
OnResponse(c, r) ==
  /\ c \in registered
  /\ peer[c] \in MonitorPeers
  /\ r \in callbacks
  /\ msgMap' = [msgMap EXCEPT ![peer[c].id] = RemoveFirst(@, r)]
  /\ callbacks' = callbacks \ {r}
  /\ answered' = [answered EXCEPT ![r] = Append(@, peer[c].id)]
  /\ UNCHANGED <<process, links, tables, reqId, sent, target, direct, refused>>

\* onMonitor and onClient with a request: a handler of a module takes it
\* (ConsoleService.execute, command) and calls back, now or later.
OnAsk(c) ==
  /\ c \in registered
  /\ asked[c] < MaxAsked
  /\ asked' = [asked EXCEPT ![c] = @ + 1]
  /\ UNCHANGED <<process, sock, peer, registered, authing, tables, requests, sent, history>>

Answer(c) ==
  /\ asked[c] > 0
  /\ Room
  /\ asked' = [asked EXCEPT ![c] = @ - 1]
  /\ Put(c, <<Plain("response")>>)
  /\ UNCHANGED <<process, sock, peer, registered, authing, tables, requests, history>>

-----------------------------------------------------------------------------
(***************************************************************************)
(* removeConnection.  Which record goes is decided by the info of the      *)
(* connection that ended, never by the connection itself; comparing with   *)
(* an info that is undefined throws.                                       *)
(***************************************************************************)
\* The loops over a list of records: the first match is taken out.
WithoutId(list, s) == RemoveFirstMatch(list, LAMBDA d : d.id = s)
WithoutAddr(list, addr) == RemoveFirstMatch(list, LAMBDA d : d.addr = addr)

\* Mutant: the record is left in the list of its type.
RemovePrimaryById(s) ==
  /\ idMap' = [idMap EXCEPT ![s] = NONE]
  /\ UNCHANGED <<typeMap, slaveMap, clients>>

RemovePrimary(s) ==
  /\ idMap' = [idMap EXCEPT ![s] = NONE]
  /\ typeMap' = [typeMap EXCEPT ![TypeOf[s]] = WithoutId(@, s)]
  /\ UNCHANGED <<slaveMap, clients>>

RemoveSlave(s, addr) ==
  /\ slaveMap' = [slaveMap EXCEPT ![s] = WithoutAddr(@, addr)]
  /\ UNCHANGED <<idMap, typeMap, clients>>

\* Mutant: the comparison is inverted.
RemoveOther(s, addr) ==
  \/ idMap[s] = NONE /\ UNCHANGED tables
  \/ idMap[s] # NONE /\ idMap[s].addr # addr /\ RemovePrimary(s)
  \/ idMap[s] # NONE /\ idMap[s].addr = addr /\ RemoveSlave(s, addr)

RemoveMonitor(s, addr) ==
  \/ idMap[s] = NONE /\ UNCHANGED tables
  \/ idMap[s] # NONE /\ idMap[s].addr = addr /\ RemovePrimary(s)
  \/ idMap[s] # NONE /\ idMap[s].addr # addr /\ RemoveSlave(s, addr)

RemoveClient(u) ==
  /\ clients' = [clients EXCEPT ![u] = NONE]
  /\ UNCHANGED <<idMap, typeMap, slaveMap>>

\* The loop over the slaves meets one without an info before the match.
NoInfoAhead(list, addr) ==
  \E i \in DOMAIN list : list[i].addr = NoInfo /\ \A j \in 1..i : list[j].addr # addr

\* A comparison of compareServer has an undefined operand.
ComparesNoInfo(c) ==
  /\ peer[c] \in MonitorPeers
  /\ LET primary == idMap[peer[c].id]
     IN /\ primary # NONE
        /\ \/ NoInfo \in {peer[c].addr, primary.addr}
           \/ primary.addr # peer[c].addr /\ NoInfoAhead(slaveMap[peer[c].id], peer[c].addr)

\* The 'disconnect' packet and the end of the stream run the same handler; the
\* first makes the server destroy the stream, and the second run finds the
\* connection no longer registered.  An auth function that has not called back keeps
\* the announced identity; answers to a closed connection go nowhere.
OnDisconnect(c) ==
  /\ sock[c] = "open"
  /\ sock' = [sock EXCEPT ![c] = "closed"]
  /\ \/ c \notin registered /\ UNCHANGED <<agentState, registered, tables>>
     \/ /\ c \in registered
        /\ ComparesNoInfo(c)
        /\ agentState' = "CRASHED"
        /\ UNCHANGED <<registered, tables>>
     \/ /\ c \in registered
        /\ ~ComparesNoInfo(c)
        /\ registered' = registered \ {c}
        /\ \/ peer[c] \in MonitorPeers /\ RemoveMonitor(peer[c].id, peer[c].addr)
           \/ peer[c] \in ClientPeers /\ RemoveClient(peer[c].id)
        /\ UNCHANGED agentState
  /\ peer' = [peer EXCEPT ![c] = IF c \in authing THEN @ ELSE NONE]
  /\ asked' = [asked EXCEPT ![c] = 0]
  /\ sent' = [sent EXCEPT ![c] = <<>>]
  /\ UNCHANGED <<listening, authing, requests, history>>

-----------------------------------------------------------------------------
(***************************************************************************)
(* The API the modules call.  Every function returns at once when the      *)
(* agent is closed.                                                        *)
(***************************************************************************)
Usable == agentState # "CLOSED"

NewRequest(s) ==
  /\ Usable
  /\ reqId <= MaxReq
  /\ reqId' = reqId + 1
  /\ callbacks' = callbacks \cup {reqId}
  /\ target' = [target EXCEPT ![reqId] = s]

\* Mutant: a new request makes the whole queue go out again.
RequestRepushes(s) ==
  /\ NewRequest(s)
  /\ msgMap' = [msgMap EXCEPT ![s] = Append(@, reqId)]
  /\ \/ idMap[s] # NONE /\ Put(idMap[s].socket, Append(Repush(s), RequestMsg(reqId))) /\ UNCHANGED refused
     \/ idMap[s] = NONE /\ refused' = refused \cup {reqId} /\ UNCHANGED sent
  /\ UNCHANGED <<process, links, tables, direct, answered>>

\* The callback and the queued message are stored before the id is looked up.
Request(s) ==
  /\ NewRequest(s)
  /\ msgMap' = [msgMap EXCEPT ![s] = Append(@, reqId)]
  /\ \/ idMap[s] # NONE /\ Put(idMap[s].socket, <<RequestMsg(reqId)>>) /\ UNCHANGED refused
     \/ idMap[s] = NONE /\ refused' = refused \cup {reqId} /\ UNCHANGED sent
  /\ UNCHANGED <<process, links, tables, direct, answered>>

\* A record has the fields id, type, pid, info and socket: its own host and port
\* are undefined, whatever its info says.
OwnAddr(record) == NoInfo

Connected(s) == <<idMap[s]>> \o slaveMap[s]

\* compareServer(record, serverInfo) on the primary, then on the slaves in order: the
\* place of the first match, 0 if there is none.
WithAddr(s, addr) == SelectInSeq(Connected(s), LAMBDA d : OwnAddr(d) = addr)

\* Without slaves slaveMap[serverId] is undefined and reading its length throws to
\* the caller; the callback is stored by then.
RequestServer(s, addr) ==
  /\ NewRequest(s)
  /\ idMap[s] # NONE
  /\ direct' = direct \cup {reqId}
  /\ \/ WithAddr(s, addr) # 0 /\ Put(Connected(s)[WithAddr(s, addr)].socket, <<RequestMsg(reqId)>>)
     \/ WithAddr(s, addr) = 0 /\ UNCHANGED sent
  /\ UNCHANGED <<process, links, tables, msgMap, answered, refused>>

Notifying ==
  /\ Usable
  /\ Room
  /\ UNCHANGED <<process, links, tables, requests, history>>

NotifyById(s) ==
  Notifying /\ idMap[s] # NONE /\ Put(idMap[s].socket, <<Plain("notify")>>)

NotifyByServer(s, addr) ==
  /\ Notifying
  /\ idMap[s] # NONE
  /\ \/ WithAddr(s, addr) # 0 /\ Put(Connected(s)[WithAddr(s, addr)].socket, <<Plain("notify")>>)
     \/ WithAddr(s, addr) = 0 /\ UNCHANGED sent

NotifySlavesById(s) ==
  Notifying /\ slaveMap[s] # <<>> /\ Broadcast(PerElement(slaveMap[s]), Plain("notify"))

NotifyByType(t) ==
  Notifying /\ typeMap[t] # <<>> /\ Broadcast(PerElement(typeMap[t]), Plain("notify"))

NotifyAll ==
  Notifying /\ Broadcast(PerKey(idMap), Plain("notify"))

\* Mutant: the records of both tables are written to.
NotifyCommandTwice ==
  /\ Notifying
  /\ \E t \in Types :
       Broadcast([c \in Conns |-> PerKey(idMap)[c] + PerElement(typeMap[t])[c]], Plain("command"))

NotifyCommand ==
  Notifying /\ Broadcast(PerKey(idMap), Plain("command"))

NotifyClient(u) ==
  Notifying /\ clients[u] # NONE /\ Put(clients[u], <<Plain("client")>>)

-----------------------------------------------------------------------------
(***************************************************************************)
(* What peers may send.  A peer announces itself once on a connection.  A  *)
(* monitor answers a request it was handed on the connection; what it was  *)
(* handed on an earlier one and not answered is pushed again.  A peer that *)
(* is not registered may publish while its agent believes it is (a second  *)
(* DISCONNECT to the same peer is left out).                               *)
(***************************************************************************)
Greets(c) == sock[c] = "open" /\ peer[c] = NONE

Handed(c) == {r \in ReqIds : RequestMsg(r) \in ToSet(sent[c])}

Handshake(c) ==
  \/ Connection(c)
  \/ /\ Greets(c)
     /\ \/ \E p \in MonitorPeers : RegisterMonitor(c, p) \/ OnReconnect(c, p)
        \/ \E p \in ClientPeers : RegisterClient(c, p)
        \/ RegisterOther(c)
  \/ AuthServerDone(c)
  \/ AuthUserDone(c)

Traffic(c) ==
  \/ sock[c] = "open" /\ \E r \in Handed(c) : OnResponse(c, r)
  \/ sock[c] = "open" /\ Disconnect \notin ToSet(sent[c]) /\ Kick(c)
  \/ sock[c] = "open" /\ OnAsk(c)
  \/ Answer(c)
  \/ OnDisconnect(c)

Call ==
  \/ \E s \in Servers : Request(s) \/ NotifyById(s) \/ NotifySlavesById(s)
  \/ \E s \in Servers, a \in Addrs : RequestServer(s, a) \/ NotifyByServer(s, a)
  \/ \E t \in Types : NotifyByType(t)
  \/ \E u \in Users : NotifyClient(u)
  \/ NotifyAll
  \/ NotifyCommand

Next ==
  /\ agentState # "CRASHED"
  /\ \/ Listen
     \/ Close
     \/ \E c \in Conns : Handshake(c) \/ Traffic(c)
     \/ Call

Spec == Init /\ [][Next]_vars

-----------------------------------------------------------------------------
(***************************************************************************)
(* Properties.                                                             *)
(***************************************************************************)
TypeOK ==
  /\ agentState \in {"INITED", "STARTED", "CLOSED", "CRASHED"}
  /\ listening \in BOOLEAN
  /\ sock \in [Conns -> {"open", "closed"}]
  /\ peer \in [Conns -> Peers \cup {NONE}]
  /\ registered \subseteq Conns
  /\ authing \subseteq Conns
  /\ asked \in [Conns -> 0..MaxAsked]
  /\ idMap \in [Servers -> Records \cup {NONE}]
  /\ typeMap \in [Types -> Seq(Records)]
  /\ slaveMap \in [Servers -> Seq(Records)]
  /\ clients \in [Users -> Conns \cup {NONE}]
  /\ reqId \in 1..(MaxReq + 1)
  /\ callbacks \subseteq ReqIds
  /\ msgMap \in [Servers -> Seq(ReqIds)]
  /\ sent \in [Conns -> Seq(Message)]
  /\ target \in [ReqIds -> Servers \cup {NONE}]
  /\ direct \subseteq ReqIds
  /\ answered \in [ReqIds -> Seq(Servers)]
  /\ refused \subseteq ReqIds

\* Two tables hold the primaries, one by id and one by type, and are kept in step by
\* hand (addConnection, removeConnection): the list of a type has the primary of
\* every server of the type, once, and nothing else.
TablesAgree ==
  \A t \in Types :
    /\ IsInjective(typeMap[t])
    /\ ToSet(typeMap[t]) = {idMap[s] : s \in {q \in Servers : TypeOf[q] = t}} \ {NONE}

\* A record is removed by comparing infos, not connections; still the primary of an id
\* is always a registered, open connection of that id, so a request is never written
\* to a dead socket or to another server.
PrimaryLive ==
  \A s \in Servers : idMap[s] # NONE =>
    LET c == idMap[s].socket
    IN c \in registered /\ sock[c] = "open" /\ idMap[s] = Record(c, peer[c]) /\ peer[c].id = s

\* The clients table and the flag of the connections agree: an id belongs to exactly
\* the one registered connection that announced it.
ClientsExact ==
  \A c \in Conns, u \in Users :
    (clients[u] = c) <=> (c \in registered /\ peer[c].kind = "client" /\ peer[c].id = u)

\* A connection has at most one record, so that a broadcast reaches it at most once.
OneRecord ==
  \A s \in Servers :
    /\ \A i, j \in DOMAIN slaveMap[s] : slaveMap[s][i].socket = slaveMap[s][j].socket => i = j
    /\ Sockets(Slaves(s)) \cap Sockets(Primaries) = {}
    /\ \A q \in Servers \ {s} : Sockets(Slaves(s)) \cap Sockets(Slaves(q)) = {}

\* QoS: the queue of a server holds exactly the requests made to it with request() whose
\* callback is still to be called with an answer, oldest first.
QosLedger ==
  \A s \in Servers :
    /\ ToSet(msgMap[s]) = {r \in callbacks \ direct : target[r] = s}
    /\ \A i, j \in DOMAIN msgMap[s] : i < j => msgMap[s][i] < msgMap[s][j]

\* QoS: the primary of a server has been handed every pending request of the server,
\* whether made before it registered (repush) or after.
PrimaryHasPending ==
  \A s \in Servers : idMap[s] # NONE => ToSet(msgMap[s]) \subseteq Handed(idMap[s].socket)

\* A request is written to a connection at most once, and only to its own server's.
PushedOnce ==
  \A c \in Conns : \A i \in DOMAIN sent[c] : sent[c][i].kind = "request" =>
    /\ peer[c].id = target[sent[c][i].n]
    /\ \A j \in DOMAIN sent[c] : sent[c][j] = sent[c][i] => j = i

\* A monitor drops what arrives before the reply that makes it REGISTERED: a registered
\* connection has read that reply before any request.
ReplyBeforeRequest ==
  \A c \in registered : \A i \in DOMAIN sent[c] : sent[c][i].kind = "request" =>
    \E j \in 1..(i - 1) : sent[c][j] \in {Register(PRO_OK), ReconnectOk(PRO_OK)}

\* A request that has been answered is never pushed again, to any connection.
SettledNotPushed ==
  [][\A c \in Conns, r \in ReqIds :
       answered[r] # <<>> /\ r \in Handed(c)' => r \in Handed(c)]_vars

Count(c, kinds) == Cardinality({i \in DOMAIN sent[c] : sent[c][i].kind \in kinds})

\* However many tables mention a server, a broadcast reaches a connection at most once,
\* and only a connection that is registered as what the message is for.
BroadcastOnce ==
  [][\A c \in Conns :
       /\ Count(c, {"notify", "command"})' > Count(c, {"notify", "command"}) =>
            /\ Count(c, {"notify", "command"})' = Count(c, {"notify", "command"}) + 1
            /\ c \in registered /\ peer[c].kind = "monitor"
       /\ Count(c, {"client"})' > Count(c, {"client"}) =>
            /\ c \in registered /\ peer[c].kind = "client"]_vars

-----------------------------------------------------------------------------
(***************************************************************************)
(* The inductive invariant behind AnswersOnce.                             *)
(***************************************************************************)
\* Ids are given out in order; what is not made or still pending is not answered.
PendingUnanswered ==
  \A r \in ReqIds :
    /\ target[r] = NONE <=> r >= reqId
    /\ r \in callbacks => target[r] # NONE
    /\ target[r] = NONE \/ r \in callbacks => answered[r] = <<>>

QueueOwn == \A s \in Servers : \A r \in ToSet(msgMap[s]) : target[r] = s

HandedOwn ==
  \A c \in Conns : \A m \in ToSet(sent[c]) : m.kind = "request" =>
    peer[c] \in MonitorPeers /\ m.n \in ReqIds /\ target[m.n] = peer[c].id

ClosedSilent == \A c \in Conns : sock[c] = "closed" => sent[c] = <<>>

PrimaryKnown ==
  \A s \in Servers : idMap[s] # NONE =>
    LET c == idMap[s].socket
    IN /\ c \in registered
       /\ peer[c] \in MonitorPeers
       /\ peer[c].id = s
       /\ idMap[s] = Record(c, peer[c])

Consistent == PendingUnanswered /\ QueueOwn /\ HandedOwn /\ ClosedSilent /\ PrimaryKnown

\* Who is asked, who is written to and who answers are the same server, in every state
\* of a master that has not crashed.
AnswerInv == agentState # "CRASHED" => Consistent

\* The callback of a request gets at most one answer, from the server it was made to.
Contract == INSTANCE RequestContract
AnswersOnce == Contract!Spec

=============================================================================
