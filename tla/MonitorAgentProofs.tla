-------------------------- MODULE MonitorAgentProofs --------------------------
(***************************************************************************)
(* For any number of streams: the timers of the client and its socket.     *)
(*                                                                         *)
(* The three properties need each other.  A reconnect timer is armed only  *)
(* when the client was not closed, and a client that is not closed has a   *)
(* socket that has not ended and no timer: so there is one at most.  That  *)
(* the timeout of the first attempt is never armed again needs that its    *)
(* flag, once a stream was set up, stays TRUE while the process runs; and  *)
(* that connect() finds no timer armed needs that a timer is armed only    *)
(* after the first CONNACK, which takes the agent out of INITED.           *)
(***************************************************************************)
EXTENDS MonitorAgent, TLAPS

ClientShape ==
  /\ alive \in {"running", "exited", "crashed"}
  /\ stream \in [Conns -> {"ended", "connecting", "open"}]
  /\ socket \in Conns \cup {NONE}
  /\ connected \in BOOLEAN /\ closed \in BOOLEAN /\ ever \in BOOLEAN
  /\ timeoutFlag \in BOOLEAN /\ connTimer \in BOOLEAN
  /\ keepTimer \in BOOLEAN /\ waiting \in BOOLEAN
  /\ armed \in Nat
  /\ delay \in 0..MaxDelay

\* No stream was ever opened.
Unopened == socket = NONE /\ ~connected /\ \A c \in Conns : stream[c] = "ended"

SocketLives == socket \in Conns /\ stream[socket] # "ended"

TimersInv ==
  /\ armed <= 1
  /\ armed = 1 => closed /\ socket = NONE /\ ever
  /\ connected => ever
  /\ connTimer => ~ever
  /\ alive = "running" /\ ~closed => Unopened \/ SocketLives
  /\ alive = "running" /\ (ever \/ \E c \in Conns : stream[c] = "connecting") => timeoutFlag

GreetedInv == ever => mstate # "INITED"

Messages ==
  [kind : {"register", "reconnect", "response", "notify", "request", "disconnect"}, n : Nat]

AgentShape ==
  /\ mstate \in {"INITED", "CONNECTED", "REGISTERED", "CLOSED"}
  /\ work \subseteq Conns \X Reqs
  /\ mReqId \in 1..(MaxAsks + 1)
  /\ waitsFor \subseteq 1..MaxAsks
  /\ wrote \in [Conns -> Seq(Messages)]
  /\ replied \subseteq Conns
  /\ admitted \subseteq replied
  /\ given \subseteq Conns \X Reqs
  /\ stopped \in BOOLEAN

MonitorInv == ClientShape /\ TimersInv /\ GreetedInv /\ AgentShape

USE DEF flags, timers, clientVars

-----------------------------------------------------------------------------
(***************************************************************************)
(* The client.                                                             *)
(***************************************************************************)
LEMMA ConnectKeeps ==
  ASSUME ClientShape, TimersInv, NEW c \in Conns, Connect(c), alive = "running",
         \/ armed = 0 /\ ~ever /\ armed' = armed
         \/ armed > 0 /\ armed' = armed - 1
  PROVE  ClientShape' /\ TimersInv' /\ ever' = ever
<1>1. /\ stream' = [stream EXCEPT ![c] = "connecting"] /\ socket' = c /\ closed' = FALSE
      /\ timeoutFlag' = TRUE /\ connTimer' = (connTimer \/ ~timeoutFlag)
      /\ alive' = alive /\ connected' = connected /\ ever' = ever /\ delay' = delay
      /\ keepTimer' = keepTimer /\ waiting' = waiting
  BY DEF Connect
<1>2. ClientShape'
  <2>1. connTimer' \in BOOLEAN
    BY <1>1, Zenon DEF ClientShape
  <2>2. armed' \in Nat
    BY DEF ClientShape
  <2>3. stream' \in [Conns -> {"ended", "connecting", "open"}] /\ socket' \in Conns
    BY <1>1 DEF ClientShape
  <2> QED BY <1>1, <2>1, <2>2, <2>3 DEF ClientShape
<1>3. armed' = 0
  BY DEF TimersInv, ClientShape
<1>4. connTimer' => ~ever'
  BY <1>1 DEF TimersInv, ClientShape
<1>5. SocketLives'
  BY <1>1 DEF SocketLives, ClientShape
<1>6. connected' => ever'
  BY <1>1 DEF TimersInv
<1> QED BY <1>1, <1>2, <1>3, <1>4, <1>5, <1>6 DEF TimersInv

LEMMA DelayType ==
  ASSUME delay \in 0..MaxDelay
  PROVE  NextDelay \in 0..MaxDelay
BY ClientAssumption DEF NextDelay

\* onSocketClose, with the stream of the event ended or left as it is.
LEMMA CloseKeeps ==
  ASSUME ClientShape, TimersInv, OnSocketClose, alive = "running",
         NEW c \in Conns, stream[c] # "ended",
         stream' = stream \/ stream' = [stream EXCEPT ![c] = "ended"]
  PROVE  ClientShape' /\ TimersInv' /\ ever' = ever
<1>1. stream' \in [Conns -> {"ended", "connecting", "open"}]
  BY DEF ClientShape
<1>2. ASSUME NEW d \in Conns, stream'[d] = "connecting" PROVE stream[d] = "connecting"
  BY <1>2 DEF ClientShape
<1>3. CASE closed
  <2>1. UNCHANGED <<alive, socket, connected, closed, ever, timeoutFlag, connTimer, armed,
                    delay, keepTimer, waiting>>
    BY <1>3 DEF OnSocketClose
  <2>2. ClientShape'
    BY <1>1, <2>1 DEF ClientShape
  <2> QED BY <1>2, <1>3, <2>1, <2>2 DEF TimersInv
<1>4. CASE ~closed
  <2>1. /\ socket' = NONE /\ connected' = FALSE /\ closed' = TRUE /\ connTimer' = FALSE
        /\ keepTimer' = FALSE /\ waiting' = FALSE
        /\ \/ ever /\ armed' = armed + 1 /\ delay' = NextDelay /\ alive' = alive
           \/ ~ever /\ alive' = "exited" /\ armed' = armed /\ delay' = delay
        /\ ever' = ever /\ timeoutFlag' = timeoutFlag
    BY <1>4 DEF OnSocketClose
  <2>2. armed = 0
    BY <1>4 DEF TimersInv, ClientShape
  <2>3. ClientShape'
    <3>1. armed' \in Nat /\ delay' \in 0..MaxDelay /\ alive' \in {"running", "exited", "crashed"}
      BY <2>1, <2>2, DelayType DEF ClientShape
    <3>2. /\ connected' \in BOOLEAN /\ closed' \in BOOLEAN /\ connTimer' \in BOOLEAN
          /\ keepTimer' \in BOOLEAN /\ waiting' \in BOOLEAN
      BY <2>1
    <3> QED BY <1>1, <2>1, <3>1, <3>2 DEF ClientShape
  <2> QED BY <1>2, <2>1, <2>2, <2>3 DEF TimersInv
<1> QED BY <1>3, <1>4 DEF ClientShape

LEMMA ConnackKeeps ==
  ASSUME ClientShape, TimersInv, NEW c \in Conns, Connack(c), alive = "running",
         alive' \in {"running", "crashed"}
  PROVE  ClientShape' /\ TimersInv' /\ (ever' => ever \/ ~connected)
<1>1. /\ stream[c] = "connecting" /\ stream' = [stream EXCEPT ![c] = "open"]
      /\ socket' = socket
  BY DEF Connack
<1>2. SocketLives => SocketLives'
  BY <1>1 DEF SocketLives, ClientShape
<1>3. /\ ~Unopened /\ timeoutFlag
      /\ stream' \in [Conns -> {"ended", "connecting", "open"}]
  BY <1>1 DEF Unopened, TimersInv, ClientShape
<1>4. CASE connected
  <2>1. UNCHANGED <<connected, closed, ever, timeoutFlag, connTimer, armed, delay, keepTimer,
                    waiting>>
    BY <1>4 DEF Connack
  <2>2. ClientShape'
    BY <1>1, <1>3, <2>1 DEF ClientShape
  <2> QED BY <1>1, <1>2, <1>3, <2>1, <2>2 DEF TimersInv
<1>5. CASE ~connected
  <2>1. /\ connected' = TRUE /\ ever' = TRUE /\ connTimer' = FALSE /\ keepTimer' = TRUE
        /\ armed' = IF armed > 0 THEN armed - 1 ELSE 0
        /\ closed' = closed /\ timeoutFlag' = timeoutFlag /\ delay' = delay
        /\ waiting' = waiting
    BY <1>5 DEF Connack
  <2>2. armed' = 0
    BY <2>1 DEF ClientShape, TimersInv
  <2>3. ClientShape'
    <3>1. /\ connected' \in BOOLEAN /\ ever' \in BOOLEAN /\ connTimer' \in BOOLEAN
          /\ keepTimer' \in BOOLEAN
      BY <2>1
    <3> QED BY <1>1, <1>3, <2>1, <2>2, <3>1 DEF ClientShape
  <2> QED BY <1>2, <1>3, <1>5, <2>1, <2>2, <2>3 DEF TimersInv
<1> QED BY <1>4, <1>5

\* Steps that open, end and set up no stream.
LEMMA QuietKeeps ==
  ASSUME ClientShape, TimersInv, alive = "running",
         alive' \in {"running", "exited", "crashed"},
         UNCHANGED <<stream, socket, ever, armed, delay>>,
         connected' = connected \/ connected' = FALSE,
         closed' = closed \/ closed' = TRUE,
         connTimer' = connTimer \/ connTimer' = FALSE,
         timeoutFlag' = timeoutFlag \/ (alive' = "exited" /\ timeoutFlag' = FALSE),
         keepTimer' = keepTimer, waiting' \in BOOLEAN
  PROVE  ClientShape' /\ TimersInv'
<1>1. ClientShape'
  BY DEF ClientShape
<1>2. (Unopened => Unopened') /\ (SocketLives => SocketLives')
  BY DEF Unopened, SocketLives
<1> QED BY <1>1, <1>2 DEF TimersInv, ClientShape

-----------------------------------------------------------------------------
(***************************************************************************)
(* The agent.                                                              *)
(***************************************************************************)
LEMMA WriteType ==
  ASSUME wrote \in [Conns -> Seq(Messages)], NEW c \in Conns, NEW m \in Messages, Write(c, m)
  PROVE  wrote' \in [Conns -> Seq(Messages)]
BY DEF Write

LEMMA SendType ==
  ASSUME wrote \in [Conns -> Seq(Messages)], socket \in Conns \cup {NONE},
         NEW m \in Messages, DoSend(m) \/ ApiSend(m)
  PROVE  wrote' \in [Conns -> Seq(Messages)]
BY WriteType DEF DoSend, ApiSend

LEMMA SaidType ==
  ASSUME NEW kind \in {"register", "reconnect", "response", "notify", "request", "disconnect"},
         NEW n \in Nat
  PROVE  Said(kind, n) \in Messages
BY DEF Said, Messages

LEMMA ConnectAgent ==
  ASSUME MonitorInv, NEW c \in Conns, ConnectMonitor(c) \/ ReconnectMonitor(c),
         alive = "running"
  PROVE  MonitorInv'
<1>1. \/ armed = 0 /\ ~ever /\ armed' = armed
      \/ armed > 0 /\ armed' = armed - 1
  BY DEF ConnectMonitor, ReconnectMonitor, FirstConnect, ReconnectTimer, MonitorInv,
         GreetedInv, TimersInv, ClientShape
<1>2. Connect(c)
  BY DEF ConnectMonitor, ReconnectMonitor, FirstConnect, ReconnectTimer
<1>3. ClientShape' /\ TimersInv' /\ ever' = ever
  BY <1>1, <1>2, ConnectKeeps DEF MonitorInv
<1>4. UNCHANGED <<agentVars, wrote, histVars>>
  BY DEF ConnectMonitor, ReconnectMonitor
<1>5. AgentShape' /\ GreetedInv'
  BY <1>3, <1>4 DEF MonitorInv, AgentShape, GreetedInv, agentVars, histVars
<1> QED BY <1>3, <1>5 DEF MonitorInv

LEMMA ConnackAgent ==
  ASSUME MonitorInv, NEW c \in Conns, OnConnack(c), alive = "running"
  PROVE  MonitorInv'
<1>1. alive' \in {"running", "crashed"}
  BY DEF OnConnack, DoSend
<1>2. ClientShape' /\ TimersInv' /\ (ever' => ever \/ ~connected)
  BY <1>1, ConnackKeeps DEF MonitorInv, OnConnack
<1>3. /\ wrote' \in [Conns -> Seq(Messages)]
      /\ mstate' \in {mstate, "CONNECTED"}
  <2>1. Said("register", 0) \in Messages /\ Said("reconnect", 0) \in Messages
    BY SaidType
  <2> QED BY <2>1, SendType DEF OnConnack, MonitorInv, AgentShape, ClientShape
<1>4. AgentShape'
  BY <1>3 DEF MonitorInv, AgentShape, OnConnack, histVars
<1>5. GreetedInv'
  <2>1. CASE connected
    BY <1>2, <1>3, <2>1 DEF GreetedInv, MonitorInv
  <2>2. CASE ~connected
    BY <2>2 DEF GreetedInv, MonitorInv, OnConnack
  <2> QED BY <2>1, <2>2
<1> QED BY <1>2, <1>4, <1>5 DEF MonitorInv

LEMMA EndsAgent ==
  ASSUME MonitorInv, NEW c \in Conns, OnStreamEnds(c) \/ OnKicked(c), alive = "running"
  PROVE  MonitorInv'
<1>1. /\ OnSocketClose /\ stream[c] # "ended"
      /\ stream' = stream \/ stream' = [stream EXCEPT ![c] = "ended"]
  BY DEF OnStreamEnds, OnKicked, StreamEnds, DisconnectPacket
<1>2. ClientShape' /\ TimersInv' /\ ever' = ever
  BY <1>1, CloseKeeps DEF MonitorInv
<1>3. CASE OnStreamEnds(c)
  <2>1. AgentShape'
    BY <1>3 DEF OnStreamEnds, Forget, MonitorInv, AgentShape, agentVars
  <2> QED BY <1>2, <1>3, <2>1 DEF MonitorInv, GreetedInv, OnStreamEnds, agentVars
<1>4. CASE OnKicked(c)
  <2>1. AgentShape'
    BY <1>4 DEF OnKicked, MonitorInv, AgentShape, histVars
  <2> QED BY <1>2, <1>4, <2>1 DEF MonitorInv, GreetedInv, OnKicked
<1> QED BY <1>3, <1>4

LEMMA ReceiveAgent ==
  ASSUME MonitorInv, alive = "running",
         \/ \E c \in Conns, ok \in BOOLEAN : OnReply(c, ok)
         \/ \E c \in Conns, r \in Reqs : OnRequest(c, r)
         \/ OnCommand
         \/ \E n \in 1..MaxAsks : OnAnswer(n)
         \/ \E c \in Conns : OnPingresp(c)
  PROVE  MonitorInv'
<1>1. CASE \E c \in Conns, ok \in BOOLEAN : OnReply(c, ok)
  <2>1. ClientShape' /\ TimersInv'
    BY <1>1, QuietKeeps DEF OnReply, MonitorInv, ClientShape
  <2> QED BY <1>1, <2>1 DEF OnReply, MonitorInv, AgentShape, GreetedInv
<1>2. CASE \E c \in Conns, r \in Reqs : OnRequest(c, r)
  <2>1. ClientShape' /\ TimersInv'
    BY <1>2, QuietKeeps DEF OnRequest, MonitorInv, ClientShape
  <2> QED BY <1>2, <2>1 DEF OnRequest, MonitorInv, AgentShape, GreetedInv
<1>3. CASE OnCommand
  <2>1. ClientShape' /\ TimersInv'
    BY <1>3, QuietKeeps DEF OnCommand, MonitorInv, ClientShape
  <2> QED BY <1>3, <2>1 DEF OnCommand, MonitorInv, AgentShape, GreetedInv, agentVars, histVars
<1>4. CASE \E n \in 1..MaxAsks : OnAnswer(n)
  <2>1. ClientShape' /\ TimersInv'
    BY <1>4, QuietKeeps DEF OnAnswer, MonitorInv, ClientShape
  <2> QED BY <1>4, <2>1 DEF OnAnswer, MonitorInv, AgentShape, GreetedInv, histVars
<1>5. CASE \E c \in Conns : OnPingresp(c)
  <2>1. ClientShape' /\ TimersInv'
    BY <1>5, QuietKeeps DEF OnPingresp, Pingresp, MonitorInv, ClientShape
  <2> QED BY <1>5, <2>1 DEF OnPingresp, Pingresp, MonitorInv, AgentShape, GreetedInv,
                            agentVars, histVars
<1> QED BY <1>1, <1>2, <1>3, <1>4, <1>5

LEMMA TimersAgent ==
  ASSUME MonitorInv, alive = "running",
         \/ OnConnectTimeout
         \/ Ping /\ UNCHANGED <<agentVars, wrote, histVars>>
         \/ OnKeepAlive
  PROVE  MonitorInv'
<1>1. UNCHANGED <<agentVars, histVars>> /\ ever' = ever
  BY DEF OnConnectTimeout, OnKeepAlive, KeepAlive, ConnectTimeout, Ping, PingOverdue, CloseClient
<1>2. wrote' \in [Conns -> Seq(Messages)]
  <2>1. CASE wrote' = wrote
    BY <2>1 DEF MonitorInv, AgentShape
  <2>2. CASE ApiSend(Said("disconnect", 0))
    BY <2>2, SaidType, SendType DEF MonitorInv, AgentShape, ClientShape
  <2> QED BY <2>1, <2>2 DEF OnConnectTimeout, OnKeepAlive, KeepAlive
<1>4. AgentShape' /\ GreetedInv'
  BY <1>1, <1>2 DEF MonitorInv, AgentShape, GreetedInv, agentVars, histVars
<1>3. ClientShape' /\ TimersInv'
  <2>1. CASE ConnectTimeout
    BY <2>1, QuietKeeps DEF ConnectTimeout, MonitorInv, ClientShape
  <2>2. CASE Ping
    BY <2>2, QuietKeeps DEF Ping, MonitorInv, ClientShape
  <2>3. CASE PingOverdue
    <3>1. CloseClient
      BY <2>3 DEF PingOverdue
    <3> QED BY <3>1, QuietKeeps DEF CloseClient, MonitorInv, ClientShape
  <2> QED BY <2>1, <2>2, <2>3 DEF OnConnectTimeout, OnKeepAlive, KeepAlive
<1> QED BY <1>3, <1>4 DEF MonitorInv

\* The keepalive interval pings, or closes the client and says so.
LEMMA KeepAliveDoes ==
  ASSUME OnKeepAlive
  PROVE  /\ UNCHANGED <<alive, stream, socket, ever, armed, agentVars, histVars>>
         /\ UNCHANGED <<wrote, connected, closed>> \/ ApiSend(Said("disconnect", 0))
BY DEF OnKeepAlive, KeepAlive, Ping, PingOverdue, CloseClient

LEMMA ApiAgent ==
  ASSUME MonitorInv, alive = "running",
         (\E w \in work : Respond(w)) \/ Notify \/ AskMaster \/ CloseMonitor
  PROVE  MonitorInv'
<1>1. CASE \E w \in work : Respond(w)
  <2> PICK w \in work : Respond(w)
    BY <1>1
  <2>1. Said("response", w[2]) \in Messages
    BY SaidType, MonitorAssumption DEF MonitorInv, AgentShape
  <2>2. wrote' \in [Conns -> Seq(Messages)] /\ alive' \in {"running", "crashed"}
    BY <2>1, SendType DEF Respond, DoSend, MonitorInv, AgentShape, ClientShape
  <2>3. ClientShape' /\ TimersInv'
    BY <2>2, QuietKeeps DEF Respond, MonitorInv, ClientShape
  <2> QED BY <2>2, <2>3 DEF Respond, MonitorInv, AgentShape, GreetedInv, histVars
<1>2. CASE Notify
  <2>1. wrote' \in [Conns -> Seq(Messages)]
    BY <1>2, SaidType, SendType DEF Notify, MonitorInv, AgentShape, ClientShape
  <2>2. ClientShape' /\ TimersInv'
    BY <1>2, QuietKeeps DEF Notify, MonitorInv, ClientShape
  <2> QED BY <1>2, <2>1, <2>2 DEF Notify, MonitorInv, AgentShape, GreetedInv, agentVars
<1>3. CASE AskMaster
  <2>1. wrote' \in [Conns -> Seq(Messages)]
    BY <1>3, SaidType, SendType DEF AskMaster, MonitorInv, AgentShape, ClientShape
  <2>2. ClientShape' /\ TimersInv'
    BY <1>3, QuietKeeps DEF AskMaster, MonitorInv, ClientShape
  <2>3. mReqId' \in 1..(MaxAsks + 1) /\ waitsFor' \subseteq 1..MaxAsks
    BY <1>3, MonitorAssumption DEF AskMaster, MonitorInv, AgentShape
  <2> QED BY <1>3, <2>1, <2>2, <2>3 DEF AskMaster, MonitorInv, AgentShape, GreetedInv
<1>4. CASE CloseMonitor
  <2>1. wrote' \in [Conns -> Seq(Messages)]
    BY <1>4, SaidType, SendType DEF CloseMonitor, MonitorInv, AgentShape, ClientShape
  <2>2. ClientShape' /\ TimersInv'
    BY <1>4, QuietKeeps DEF CloseMonitor, CloseClient, MonitorInv, ClientShape
  <2> QED BY <1>4, <2>1, <2>2 DEF CloseMonitor, CloseClient, MonitorInv, AgentShape, GreetedInv
<1> QED BY <1>1, <1>2, <1>3, <1>4

-----------------------------------------------------------------------------
\* A process starts in it.
LEMMA MonitorStart == MonitorInit => MonitorInv
<1> SUFFICES ASSUME MonitorInit PROVE MonitorInv
  OBVIOUS
<1>1. ClientShape
  <2>1. armed \in Nat /\ delay \in 0..MaxDelay
    BY ClientAssumption DEF MonitorInit, ClientInit
  <2>2. stream \in [Conns -> {"ended", "connecting", "open"}] /\ socket \in Conns \cup {NONE}
    BY DEF MonitorInit, ClientInit
  <2> QED BY <2>1, <2>2 DEF MonitorInit, ClientInit, ClientShape
<1>2. TimersInv /\ GreetedInv
  BY ClientAssumption DEF MonitorInit, ClientInit, TimersInv, GreetedInv, Unopened
<1>3. AgentShape
  <2>1. wrote \in [Conns -> Seq(Messages)]
    BY DEF MonitorInit, ClientInit
  <2>2. mReqId \in 1..(MaxAsks + 1)
    BY MonitorAssumption DEF MonitorInit
  <2> QED BY <2>1, <2>2 DEF MonitorInit, AgentShape
<1> QED BY <1>1, <1>2, <1>3 DEF MonitorInv

\* Nothing else changes what it speaks of.
LEMMA MonitorIdle == MonitorInv /\ UNCHANGED monitorVars => MonitorInv'
<1> SUFFICES ASSUME MonitorInv, UNCHANGED monitorVars PROVE MonitorInv'
  OBVIOUS
<1>1. UNCHANGED <<alive, stream, socket, connected, closed, ever, timeoutFlag, connTimer,
                  armed, delay, keepTimer, waiting>>
  BY DEF monitorVars
<1>2. UNCHANGED <<agentVars, wrote, histVars>>
  BY DEF monitorVars
<1>3. ClientShape' /\ GreetedInv' /\ AgentShape'
  BY <1>1, <1>2 DEF MonitorInv, ClientShape, GreetedInv, AgentShape, agentVars, histVars
<1>4. TimersInv'
  BY <1>1 DEF MonitorInv, TimersInv, Unopened, SocketLives
<1> QED BY <1>3, <1>4 DEF MonitorInv

\* The timers, the flags and the socket of the client agree in every state.
THEOREM ClientAgrees == MonitorSpec => []MonitorInv
<1>1. MonitorInv /\ [MonitorNext]_monitorVars => MonitorInv'
  <2> SUFFICES ASSUME MonitorInv, [MonitorNext]_monitorVars PROVE MonitorInv'
    OBVIOUS
  <2>1. CASE MonitorNext
    <3> USE <2>1
    <3>1. alive = "running"
      BY DEF MonitorNext
    <3>2. ASSUME NEW c \in Conns, Receive(c) PROVE MonitorInv'
      BY <3>1, <3>2, ReceiveAgent, EndsAgent DEF Receive
    <3>3. CASE Timers
      BY <3>1, <3>3, ConnectAgent, TimersAgent DEF Timers
    <3> QED BY <3>1, <3>2, <3>3, ConnectAgent, ConnackAgent, EndsAgent, ApiAgent DEF MonitorNext
  <2> QED BY <2>1, MonitorIdle
<1> QED BY <1>1, MonitorStart, PTL DEF MonitorSpec

\* mqttClient.js arms one reconnect timer at most, however many of its streams end.
THEOREM TimerOnce == MonitorSpec => []OneTimer
<1>1. MonitorInv => OneTimer
  BY DEF MonitorInv, TimersInv, OneTimer
<1> QED BY <1>1, ClientAgrees, PTL

\* A client of mqttClient.js that is connected and not closed has a socket.
THEOREM SocketThere == MonitorSpec => []ConnectedHasSocket
<1>1. MonitorInv => ConnectedHasSocket
  BY ClientAssumption DEF MonitorInv, TimersInv, Unopened, SocketLives, ConnectedHasSocket
<1> QED BY <1>1, ClientAgrees, PTL

\* The timeout that ends a monitored process (addTimeout) is armed for its first
\* connection only.
THEOREM FirstTimedOnly == MonitorSpec => []OnlyFirstAttemptExits
<1>1. MonitorInv => OnlyFirstAttemptExits
  BY DEF MonitorInv, TimersInv, OnlyFirstAttemptExits
<1> QED BY <1>1, ClientAgrees, PTL

\* The variables of the client and of the agent keep their types.
THEOREM MonitorTypeCorrect == MonitorSpec => []MonitorTypeOK
<1>1. MonitorInv => MonitorTypeOK
  BY DEF MonitorInv, ClientShape, AgentShape, Messages, MonitorTypeOK
<1> QED BY <1>1, ClientAgrees, PTL

=============================================================================
