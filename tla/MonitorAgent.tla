----------------------------- MODULE MonitorAgent -----------------------------
(***************************************************************************)
(* A monitor process: lib/monitor/monitorAgent.js on top of its MqttClient *)
(* (lib/protocol/mqtt/mqttClient.js).  What it writes to a stream c is     *)
(* appended to wrote[c]; what it reads is chosen by Next among what a      *)
(* master can send (AdminSystem supplies the real one).                    *)
(***************************************************************************)
EXTENDS MqttClient, SequencesExt

CONSTANTS
  Reqs,     \* ids of the master's requests
  MaxAsks,  \* bound: requests the monitor makes of the master
  MaxSaid,  \* bound: messages in wrote[c] that still allow a notify
  Faults    \* what the run includes of {"kick", "command", "overdue", "close"}

ASSUME MonitorAssumption == Reqs \subseteq Nat /\ MaxAsks \in Nat /\ MaxSaid \in Nat

VARIABLES
  mstate,   \* MonitorAgent.state
  work,     \* requests a module is executing: the stream each came on, and its id
  mReqId,   \* MonitorAgent.reqId
  waitsFor, \* MonitorAgent.callbacks: ids of the monitor's own requests
  replied,  \* history: streams on which the reply to the greeting was read
  admitted, \* history: streams on which PRO_OK was read
  given,    \* history: requests read from a stream, dropped ones included
  stopped   \* history: close() was called

agentVars == <<mstate, work, mReqId, waitsFor>>
histVars == <<replied, admitted, given, stopped>>
monitorVars == <<clientVars, agentVars, wrote, histVars>>

MonitorInit ==
  /\ ClientInit
  /\ mstate = "INITED"
  /\ work = {}
  /\ mReqId = 1
  /\ waitsFor = {}
  /\ replied = {}
  /\ admitted = {}
  /\ given = {}
  /\ stopped = FALSE

-----------------------------------------------------------------------------
\* MonitorAgent.connect, called once; the state changes when CONNACK arrives.
ConnectMonitor(c) ==
  /\ mstate = "INITED"
  /\ socket = NONE
  /\ FirstConnect(c)
  /\ UNCHANGED <<agentVars, wrote, histVars>>

ReconnectMonitor(c) == ReconnectTimer(c) /\ UNCHANGED <<agentVars, wrote, histVars>>

(***************************************************************************)
(* 'connect' and 'reconnect' of the client: the agent greets the master,   *)
(* on this.socket.  'reconnect' sets the state without looking at it.      *)
(***************************************************************************)
OnConnack(c) ==
  /\ Connack(c)
  /\ \/ /\ connected \/ (~ever /\ mstate # "INITED")
        /\ UNCHANGED <<alive, mstate, wrote>>
     \/ /\ ~connected /\ ~ever /\ mstate = "INITED"
        /\ mstate' = "CONNECTED"
        /\ DoSend(Said("register", 0))
     \/ /\ ~connected /\ ever
        /\ mstate' = "CONNECTED"
        /\ DoSend(Said("reconnect", 0))
  /\ UNCHANGED <<work, mReqId, waitsFor, histVars>>

\* The client deals with the end; what was written to the stream is lost or read.
OnStreamEnds(c) ==
  /\ StreamEnds(c)
  /\ Forget(c)
  /\ replied' = replied \ {c}
  /\ admitted' = admitted \ {c}
  /\ given' = {w \in given : w[1] # c}
  /\ UNCHANGED <<stopped, agentVars>>

\* 'disconnect' of the client: the agent was kicked, or refused at registration.
OnKicked(c) ==
  /\ DisconnectPacket(c)
  /\ mstate' = "CLOSED"
  /\ UNCHANGED <<work, mReqId, waitsFor, wrote, histVars>>

OnConnectTimeout == ConnectTimeout /\ UNCHANGED <<agentVars, wrote, histVars>>

\* The interval of the keepalive.
OnKeepAlive == KeepAlive /\ UNCHANGED <<agentVars, histVars>>

OnPingresp(c) == Pingresp(c) /\ UNCHANGED <<agentVars, wrote, histVars>>

-----------------------------------------------------------------------------
(***************************************************************************)
(* Messages of the master.                                                 *)
(***************************************************************************)
\* 'register' and 'reconnect_ok': only PRO_OK changes the state; a refused reconnect
\* is not tried again.
OnReply(c, ok) ==
  /\ mstate' = IF ok THEN "REGISTERED" ELSE mstate
  /\ replied' = replied \cup {c}
  /\ admitted' = IF ok THEN admitted \cup {c} ELSE admitted
  /\ UNCHANGED <<clientVars, work, mReqId, waitsFor, wrote, given, stopped>>

\* 'monitor' with a request: dropped unless the agent is registered.
OnRequest(c, r) ==
  /\ work' = IF mstate = "REGISTERED" THEN work \cup {<<c, r>>} ELSE work
  /\ given' = given \cup {<<c, r>>}
  /\ UNCHANGED <<clientVars, mstate, mReqId, waitsFor, wrote, replied, admitted, stopped>>

\* The module calls back.  The answer goes to whatever this.socket is by now, in
\* whatever state the agent is.
Respond(w) ==
  /\ w \in work
  /\ work' = work \ {w}
  /\ DoSend(Said("response", w[2]))
  /\ UNCHANGED <<stream, socket, flags, timers, mstate, mReqId, waitsFor, histVars>>

\* 'monitor' with a command: ConsoleService.command asks the agent for the client,
\* agent.getClientById, which a MonitorAgent does not have.
OnCommand ==
  /\ alive' = IF mstate = "REGISTERED" THEN "crashed" ELSE alive
  /\ UNCHANGED <<stream, socket, flags, timers, agentVars, wrote, histVars>>

\* 'monitor' with the answer to one of the monitor's own requests.
OnAnswer(n) ==
  /\ waitsFor' = IF mstate = "REGISTERED" THEN waitsFor \ {n} ELSE waitsFor
  /\ UNCHANGED <<clientVars, mstate, work, mReqId, wrote, histVars>>

-----------------------------------------------------------------------------
(***************************************************************************)
(* The API.  notify and request check the state, not the socket.           *)
(***************************************************************************)
Notify ==
  /\ mstate = "REGISTERED"
  /\ \A c \in Conns : Len(wrote[c]) < MaxSaid
  /\ ApiSend(Said("notify", 0))
  /\ UNCHANGED <<clientVars, agentVars, replied, admitted, given, stopped>>

AskMaster ==
  /\ mstate = "REGISTERED"
  /\ mReqId <= MaxAsks
  /\ mReqId' = mReqId + 1
  /\ waitsFor' = waitsFor \cup {mReqId}
  /\ ApiSend(Said("request", mReqId))
  /\ UNCHANGED <<clientVars, mstate, work, replied, admitted, given, stopped>>

\* (Before connect() there is no client to close.)
CloseMonitor ==
  /\ mstate # "CLOSED"
  /\ socket # NONE \/ mstate # "INITED"
  /\ stopped' = TRUE
  /\ mstate' = "CLOSED"
  /\ CloseClient
  /\ ApiSend(Said("disconnect", 0))
  /\ UNCHANGED <<work, mReqId, waitsFor, replied, admitted, given>>

-----------------------------------------------------------------------------
(***************************************************************************)
(* What a master can send on an open stream: one reply to the greeting,    *)
(* requests after the greeting, each at most once on a stream (before the  *)
(* reply too, when the auth function of the master is slow), answers.      *)
(***************************************************************************)
Greeted(c) == Said("register", 0) \in ToSet(wrote[c]) \/ Said("reconnect", 0) \in ToSet(wrote[c])

Receive(c) ==
  /\ stream[c] = "open"
  /\ \/ /\ Greeted(c) /\ c \notin replied
        /\ \E ok \in BOOLEAN : OnReply(c, ok)
     \/ Greeted(c) /\ \E r \in Reqs : <<c, r>> \notin given /\ OnRequest(c, r)
     \/ "command" \in Faults /\ Greeted(c) /\ OnCommand
     \/ \E n \in 1..MaxAsks : Said("request", n) \in ToSet(wrote[c]) /\ OnAnswer(n)
     \/ "kick" \in Faults /\ wrote[c] # <<>> /\ OnKicked(c)
     \/ OnPingresp(c)

Timers ==
  \/ \E c \in Conns : ReconnectMonitor(c)
  \/ OnConnectTimeout
  \/ Ping /\ UNCHANGED <<agentVars, wrote, histVars>>
  \/ "overdue" \in Faults /\ OnKeepAlive

MonitorNext ==
  /\ alive = "running"
  /\ \/ \E c \in Conns : ConnectMonitor(c) \/ OnConnack(c) \/ OnStreamEnds(c) \/ Receive(c)
     \/ Timers
     \/ \E w \in work : Respond(w)
     \/ Notify
     \/ AskMaster
     \/ "close" \in Faults /\ CloseMonitor

MonitorSpec == MonitorInit /\ [][MonitorNext]_monitorVars

-----------------------------------------------------------------------------
(***************************************************************************)
(* Properties.                                                             *)
(***************************************************************************)
MonitorTypeOK ==
  /\ alive \in {"running", "exited", "crashed"}
  /\ stream \in [Conns -> {"ended", "connecting", "open"}]
  /\ socket \in Conns \cup {NONE}
  /\ {connected, closed, ever, timeoutFlag, connTimer, keepTimer, waiting, stopped} \subseteq BOOLEAN
  /\ armed \in Nat
  /\ delay \in 0..MaxDelay
  /\ mstate \in {"INITED", "CONNECTED", "REGISTERED", "CLOSED"}
  /\ work \subseteq Conns \X Reqs
  /\ mReqId \in 1..(MaxAsks + 1)
  /\ waitsFor \subseteq 1..MaxAsks
  /\ wrote \in [Conns -> Seq([kind : {"register", "reconnect", "response", "notify", "request", "disconnect"}, n : Nat])]
  /\ replied \subseteq Conns
  /\ admitted \subseteq replied
  /\ given \subseteq Conns \X Reqs

\* Closing events of every stream the client ever had, kicks and the CONNACK of any of
\* them arm and clear reconnect timers: there is never more than one, and only while
\* the client has no connection to lose.
OneTimer == armed <= 1 /\ (armed = 1 /\ alive = "running" => closed /\ socket = NONE)

\* A client that believes it is connected and was not closed has a socket, and its
\* stream has not ended; so the keepalive interval never pings a null socket.
ConnectedHasSocket ==
  alive = "running" /\ connected /\ ~closed => socket # NONE /\ stream[socket] # "ended"

\* The timeout that ends the process runs only until the first CONNACK.
OnlyFirstAttemptExits == connTimer => ~ever

Fairness ==
  /\ WF_monitorVars(alive = "running" /\ \E c \in Conns : ReconnectMonitor(c))
  /\ SF_monitorVars(alive = "running" /\ \E c \in Conns : OnConnack(c))
  /\ \A c \in Conns : WF_monitorVars(alive = "running" /\ c # socket /\ OnStreamEnds(c))

FairMonitorSpec == MonitorSpec /\ Fairness

\* A monitor that has lost its connection gets a new one (or its process ends), however
\* the ends of its streams, kicks, pings and timers interleave.  The exception: a client
\* that was closed while it had a socket has given up, and it is not only its user who
\* closes it, an overdue PINGRESP does the same (mqttClient.js:243).
Restored == (ever /\ ~connected) ~> (connected \/ GivenUp \/ alive # "running")

=============================================================================
