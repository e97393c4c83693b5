----------------------------- MODULE AdminSystem -----------------------------
(***************************************************************************)
(* One monitor process and the master, over TCP streams: MonitorAgent and  *)
(* MasterAgent composed.  Either process can be ended and started again;   *)
(* nothing is kept on disk, so both start from their initial states.       *)
(*                                                                         *)
(* The modules' handlers are used as they are; this module only says when  *)
(* a handler gets which message.                                           *)
(***************************************************************************)
EXTENDS MonitorAgent, Streams

CONSTANTS
  Servers, Types, TypeOf, Addrs, Users, NoInfo, MaxReq, MaxSent, MaxAsked,
  Me,          \* the identity the monitor announces
  MaxRestarts, \* bound: restarts of a process
  Timely       \* what is over before the monitor reconnects: the connection at the
               \* master ("ends"), the requests being executed ("modules")

VARIABLES
  agentState, peer, registered, authing, asked, idMap, typeMap, slaveMap, clients,
  reqId, callbacks, msgMap, target, direct, answered, refused,
  restarts  \* how often a process was started again

\* The auth function is the default one, which calls back at once; it accepts the
\* monitor, whose token is configured.
Master == INSTANCE MasterAgent WITH AsyncAuth <- FALSE

masterVars ==
  <<agentState, listening, sock, peer, registered, authing, asked,
    idMap, typeMap, slaveMap, clients, reqId, callbacks, msgMap, sent,
    target, direct, answered, refused>>
vars == <<monitorVars, masterVars, network, restarts>>

\* The monitor has an info; what the master does about one that has none, it throws, is
\* in MasterAgent.
ASSUME PeerAssumption ==
  Me \in Master!MonitorPeers /\ Me.addr # NoInfo /\ MaxRestarts \in Nat

\* What MasterAgent assumes of its constants, and the monitor knows the master's ids.
ASSUME SystemAssumption ==
  /\ NONE \notin Servers \cup Master!Peers \cup Master!Records
  /\ TypeOf \in [Servers -> Types]
  /\ IsFiniteSet(Servers)
  /\ MaxReq \in Nat /\ MaxSent \in Nat /\ MaxAsked \in Nat
  /\ Master!ReqIds \subseteq Reqs

Init ==
  /\ MonitorInit
  /\ Master!Init
  /\ StreamsInit
  /\ restarts = 0

-----------------------------------------------------------------------------
(***************************************************************************)
(* Opening a stream.  A stream is opened again when both ends are done     *)
(* with it.                                                                *)
(***************************************************************************)
Done(c) == stream[c] = "ended" /\ Master!Unused(c)

Open(c) ==
  /\ Done(c)
  /\ "ends" \in Timely => \A d \in Conns : stream[d] = "ended" => sock[d] = "closed"
  /\ "modules" \in Timely => work = {}
  /\ ConnectMonitor(c) \/ ReconnectMonitor(c)
  /\ UNCHANGED <<masterVars, network, restarts>>

Accept(c) ==
  /\ Reaches(c)
  /\ Master!Connection(c)
  /\ UNCHANGED <<monitorVars, network, restarts>>

Acknowledge(c) ==
  /\ IsAcknowledged(c)
  /\ OnConnack(c)
  /\ UNCHANGED <<masterVars, network, restarts>>

Cut(c) == CutOff(c) /\ UNCHANGED <<monitorVars, masterVars, restarts>>

MonitorNotices(c) ==
  ClientSeesEnd(c) /\ OnStreamEnds(c) /\ UNCHANGED <<masterVars, restarts>>

MasterNotices(c) ==
  MasterSeesEnd(c) /\ Master!OnDisconnect(c) /\ UNCHANGED <<monitorVars, restarts>>

-----------------------------------------------------------------------------
(***************************************************************************)
(* Delivery.                                                               *)
(***************************************************************************)
MonitorReads(c) ==
  LET m == ToClient(c)
  IN /\ Hears(c)
     /\ \/ m.kind \in {"register", "reconnect_ok"} /\ OnReply(c, m.n = Master!PRO_OK)
        \/ m.kind = "request" /\ OnRequest(c, m.n)
        \/ m.kind = "disconnect" /\ OnKicked(c)
     /\ UNCHANGED <<masterVars, restarts>>

MasterReads(c) ==
  LET m == ToMaster(c)
  IN /\ Takes(c)
     /\ \/ /\ m.kind = "register"
           /\ Master!RegisterMonitor(c, Me)
           /\ c \in registered'
        \/ m.kind = "reconnect" /\ Master!OnReconnect(c, Me)
        \/ m.kind = "response" /\ Master!OnResponse(c, m.n)
        \/ /\ m.kind = "response" /\ c \in registered /\ m.n \notin callbacks
           /\ UNCHANGED masterVars
        \/ m.kind = "notify" /\ c \in registered /\ UNCHANGED masterVars
        \/ m.kind \in {"notify", "response"} /\ Master!Kick(c)
     /\ UNCHANGED <<monitorVars, restarts>>

-----------------------------------------------------------------------------
\* close() once in a run (bound), before or after a stream is cut.  The keepalive runs all
\* the time; a ping that is answered changes nothing, so that of its pings the model has
\* those on a stream that delivers nothing any more.
MonitorSteps ==
  /\ alive = "running"
  /\ \/ OnConnectTimeout
     \/ socket \in cut /\ OnKeepAlive
     \/ \E w \in work : Respond(w)
     \/ Notify
     \/ "close" \in Faults /\ ~stopped /\ CloseMonitor
  /\ UNCHANGED <<masterVars, network, restarts>>

MasterSteps ==
  /\ \/ Master!Listen
     \/ \E s \in Servers : Master!Request(s)
  /\ UNCHANGED <<monitorVars, network, restarts>>

-----------------------------------------------------------------------------
(***************************************************************************)
(* A process ends and is started again.  Its streams end with it; the      *)
(* other side has still to notice.                                         *)
(***************************************************************************)
RestartMonitor ==
  /\ alive' = "running" /\ stream' = [c \in Conns |-> "ended"] /\ socket' = NONE
  /\ connected' = FALSE /\ closed' = FALSE /\ ever' = FALSE /\ timeoutFlag' = FALSE
  /\ connTimer' = FALSE /\ armed' = 0 /\ delay' = 0 /\ keepTimer' = FALSE
  /\ waiting' = FALSE /\ wrote' = [c \in Conns |-> <<>>] /\ mstate' = "INITED" /\ work' = {}
  /\ mReqId' = 1 /\ waitsFor' = {} /\ replied' = {} /\ admitted' = {} /\ given' = {}
  /\ stopped' = FALSE
  /\ heard' = [c \in Conns |-> 0]
  /\ cut' = {c \in cut : sock[c] = "open"}
  /\ UNCHANGED <<masterVars, taken, cuts>>

\* The history starts again too: a new master knows of no request.
RestartMaster ==
  /\ agentState' = "INITED" /\ listening' = FALSE /\ sock' = [c \in Conns |-> "closed"]
  /\ peer' = [c \in Conns |-> NONE] /\ registered' = {} /\ authing' = {}
  /\ asked' = [c \in Conns |-> 0] /\ idMap' = [s \in Servers |-> NONE]
  /\ typeMap' = [t \in Types |-> <<>>] /\ slaveMap' = [s \in Servers |-> <<>>]
  /\ clients' = [u \in Users |-> NONE] /\ reqId' = 1 /\ callbacks' = {}
  /\ msgMap' = [s \in Servers |-> <<>>] /\ sent' = [c \in Conns |-> <<>>]
  /\ target' = [r \in 1..MaxReq |-> NONE] /\ direct' = {}
  /\ answered' = [r \in 1..MaxReq |-> <<>>] /\ refused' = {}
  /\ taken' = [c \in Conns |-> 0]
  /\ cut' = {c \in Conns : stream[c] # "ended" /\ (c \in cut \/ sock[c] = "open")}
  /\ UNCHANGED <<monitorVars, heard, cuts>>

Restart ==
  /\ restarts < MaxRestarts
  /\ restarts' = restarts + 1
  /\ RestartMonitor \/ RestartMaster

Next ==
  \/ /\ alive = "running"
     /\ \E c \in Conns : Open(c) \/ Acknowledge(c) \/ MonitorNotices(c) \/ MonitorReads(c)
  \/ \E c \in Conns : Accept(c) \/ Cut(c) \/ MasterNotices(c) \/ MasterReads(c)
  \/ MonitorSteps
  \/ MasterSteps
  \/ Restart

Spec == Init /\ [][Next]_vars

-----------------------------------------------------------------------------
(***************************************************************************)
(* Fairness: timers fire, what is in a channel is delivered unless the     *)
(* stream is cut, an end is noticed some time, a module calls back.  The   *)
(* master notices by its idle timeout, the client because its operating    *)
(* system gives up what it wrote; the keepalive may be faster and need not *)
(* be (no fairness of it is assumed), and whoever loses that race, the     *)
(* properties except the client it has closed.                             *)
(***************************************************************************)
SystemFairness ==
  /\ \A c \in Conns :
       /\ WF_vars(alive = "running" /\ Open(c))
       /\ WF_vars(Accept(c))
       /\ WF_vars(alive = "running" /\ Acknowledge(c))
       /\ WF_vars(alive = "running" /\ MonitorReads(c))
       /\ WF_vars(MasterReads(c))
       /\ WF_vars(alive = "running" /\ MonitorNotices(c))
       /\ WF_vars(MasterNotices(c))
  /\ WF_vars(Master!Listen /\ UNCHANGED <<monitorVars, network, restarts>>)
  /\ WF_vars(alive = "running" /\ (\E w \in work : Respond(w)) /\ UNCHANGED <<masterVars, network, restarts>>)

FairSpec == Spec /\ SystemFairness

-----------------------------------------------------------------------------
(***************************************************************************)
(* Properties.                                                             *)
(***************************************************************************)
SystemTypeOK ==
  /\ MonitorTypeOK
  /\ Master!TypeOK
  /\ heard \in [Conns -> Nat]
  /\ taken \in [Conns -> Nat]
  /\ cut \subseteq Conns
  /\ cuts \in 0..MaxCuts
  /\ restarts \in 0..MaxRestarts

\* What a monitor has been told is so: while the master has not seen the end of a stream
\* on which it admitted the monitor, it has the stream registered.
AdmittedIsRegistered ==
  \A c \in admitted : sock[c] = "open" /\ stream[c] # "ended" => c \in registered

\* However its streams overlap, the master has one of them registered at most: a
\* monitor process has no slaves of its own.
OneRegistered == \A c, d \in registered : c = d

\* The answers the master passes on are those of the server asked, over the real
\* channels, with the pushes that cross answers on their way.
AnswersOnce == Master!AnswersOnce

\* What the properties below assume of time: the master has noticed the end of a stream
\* and the modules have called back before the monitor connects again.  The code does not
\* see to it: the master may take five minutes, the client reconnects after one to sixty
\* seconds.
InTime == {"ends", "modules"} \subseteq Timely

\* A request that was accepted is answered, although connections are lost with the
\* request or its answer on the way, and although the monitor's process is started
\* again while it executes the request.  It is not if the monitor's process ends, if
\* its client has given up after an overdue ping (the process runs, and never connects
\* again), or if the master is started again, which knows of no request then.
RequestAnswered ==
  InTime =>
    \A r \in 1..MaxReq :
      (target[r] # NONE /\ r \notin refused) ~>
        (answered[r] # <<>> \/ target[r] = NONE \/ GivenUp \/ alive # "running")

\* A monitor that is connected gets registered, or has given up.
Registers == (mstate = "CONNECTED") ~> (mstate # "CONNECTED" \/ GivenUp \/ alive # "running")

\* It does, if what is over has been noticed before it connects.
RegistersInTime == InTime => Registers

=============================================================================
