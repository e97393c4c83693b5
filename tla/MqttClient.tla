------------------------------ MODULE MqttClient ------------------------------
(***************************************************************************)
(* The connecting side: lib/protocol/mqtt/mqttClient.js.  One client       *)
(* process with its timers and all the streams it has opened; the handlers *)
(* of a stream stay attached when the client turns to another one, and act *)
(* on the client whichever stream they belong to.                          *)
(*                                                                         *)
(* The operators here change only the client's variables.  What an event   *)
(* makes the agent above do ('connect', 'reconnect', 'disconnect') happens *)
(* in the same step: MonitorAgent and AdminClient conjoin it.              *)
(***************************************************************************)
EXTENDS Naturals, Sequences

CONSTANTS
  Conns,     \* streams; an ended one is opened again
  NONE,      \* no stream
  MaxDelay   \* reconnectDelayMax, in units of RECONNECT_DELAY

ASSUME ClientAssumption == NONE \notin Conns /\ MaxDelay \in Nat \ {0}

VARIABLES
  alive,        \* the process: "running", "exited" (process.exit), "crashed"
  stream,       \* stream -> "ended", "connecting", "open"
  socket,       \* this.socket
  connected,    \* this.connected
  closed,       \* this.closed
  ever,         \* connectedTimes > 1
  timeoutFlag,  \* this.timeoutFlag
  connTimer,    \* the timeout of addTimeout() is armed
  armed,        \* reconnect timers that are armed
  delay,        \* this.reconnectDelay
  keepTimer,    \* the keepalive interval runs
  waiting,      \* lastPong < lastPing: a ping is not answered
  wrote         \* what was written to a stream, while it is not ended

flags == <<connected, closed, ever>>
timers == <<timeoutFlag, connTimer, armed, delay, keepTimer, waiting>>
clientVars == <<alive, stream, socket, flags, timers>>

ClientInit ==
  /\ alive = "running"
  /\ stream = [c \in Conns |-> "ended"]
  /\ socket = NONE
  /\ connected = FALSE
  /\ closed = FALSE
  /\ ever = FALSE
  /\ timeoutFlag = FALSE
  /\ connTimer = FALSE
  /\ armed = 0
  /\ delay = 0
  /\ keepTimer = FALSE
  /\ waiting = FALSE
  /\ wrote = [c \in Conns |-> <<>>]

-----------------------------------------------------------------------------
\* Mutant: every attempt is timed.
ConnectTimesAll(c) ==
  /\ ~connected
  /\ stream[c] = "ended"
  /\ stream' = [stream EXCEPT ![c] = "connecting"]
  /\ socket' = c
  /\ closed' = FALSE
  /\ timeoutFlag' = TRUE
  /\ connTimer' = TRUE
  /\ UNCHANGED <<alive, connected, ever, delay, keepTimer, waiting>>

(***************************************************************************)
(* connect and addTimeout: a new stream c becomes this.socket.  The flag   *)
(* of the timeout is only cleared when the timeout fires, and then the     *)
(* process exits: it times the first attempt and none of the later ones.   *)
(***************************************************************************)
Connect(c) ==
  /\ ~connected
  /\ stream[c] = "ended"
  /\ stream' = [stream EXCEPT ![c] = "connecting"]
  /\ socket' = c
  /\ closed' = FALSE
  /\ timeoutFlag' = TRUE
  /\ connTimer' = (connTimer \/ ~timeoutFlag)
  /\ UNCHANGED <<alive, connected, ever, delay, keepTimer, waiting>>

\* The first connect; its caller is MonitorAgent.connect.
FirstConnect(c) == Connect(c) /\ UNCHANGED armed

\* Mutant: the timer finds the client closed, as onSocketClose() has left it, and does
\* nothing.
ReconnectUnlessClosed(c) == armed > 0 /\ ~closed /\ armed' = armed - 1 /\ Connect(c)

\* The reconnect timer fires.
ReconnectTimer(c) == armed > 0 /\ armed' = armed - 1 /\ Connect(c)

ConnectTimeout ==
  /\ connTimer
  /\ connTimer' = FALSE
  /\ timeoutFlag' = FALSE
  /\ alive' = "exited"
  /\ UNCHANGED <<stream, socket, flags, armed, delay, keepTimer, waiting>>

\* Mutant: the maximum is ignored.
NextDelayUncapped == IF delay = 0 THEN 1 ELSE 2 * delay

\* reconnect(): twice the previous delay, which no success resets.
NextDelay ==
  LET d == IF delay = 0 THEN 1 ELSE 2 * delay IN IF d > MaxDelay THEN MaxDelay ELSE d

\* Mutant: a client that is closed deals with a close again.
OnSocketCloseAgain ==
  /\ socket' = NONE
  /\ connected' = FALSE
  /\ closed' = TRUE
  /\ connTimer' = FALSE
  /\ keepTimer' = FALSE
  /\ waiting' = FALSE
  /\ \/ ever /\ armed' = armed + 1 /\ delay' = NextDelay /\ UNCHANGED alive
     \/ ~ever /\ alive' = "exited" /\ UNCHANGED <<armed, delay>>
  /\ UNCHANGED <<ever, timeoutFlag>>

\* Mutant: the client still believes it is connected.
OnSocketCloseConnected ==
  \/ closed /\ UNCHANGED <<alive, socket, flags, timers>>
  \/ /\ ~closed
     /\ socket' = NONE
     /\ \/ ever /\ armed' = armed + 1 /\ delay' = NextDelay /\ UNCHANGED alive
        \/ ~ever /\ alive' = "exited" /\ UNCHANGED <<armed, delay>>
     /\ UNCHANGED <<flags, timeoutFlag, connTimer, keepTimer, waiting>>

\* onSocketClose().  It does not look which stream the event came from and leaves the
\* stream that was this.socket as it is.
OnSocketClose ==
  \/ closed /\ UNCHANGED <<alive, socket, flags, timers>>
  \/ /\ ~closed
     /\ socket' = NONE
     /\ connected' = FALSE
     /\ closed' = TRUE
     /\ connTimer' = FALSE
     /\ keepTimer' = FALSE
     /\ waiting' = FALSE
     /\ \/ ever /\ armed' = armed + 1 /\ delay' = NextDelay /\ UNCHANGED alive
        \/ ~ever /\ alive' = "exited" /\ UNCHANGED <<armed, delay>>
     /\ UNCHANGED <<ever, timeoutFlag>>

-----------------------------------------------------------------------------
(***************************************************************************)
(* Events of a stream.                                                     *)
(***************************************************************************)
\* CONNACK on any stream that is being set up: clears both timers, whichever attempt
\* they were for.
Connack(c) ==
  /\ stream[c] = "connecting"
  /\ stream' = [stream EXCEPT ![c] = "open"]
  /\ \/ connected /\ UNCHANGED <<flags, timers>>
     \/ /\ ~connected
        /\ connected' = TRUE
        /\ ever' = TRUE
        /\ armed' = IF armed > 0 THEN armed - 1 ELSE 0
        /\ connTimer' = FALSE
        /\ keepTimer' = TRUE
        /\ UNCHANGED <<closed, timeoutFlag, delay, waiting>>
  /\ UNCHANGED socket

\* 'error' and 'close' of a stream.
StreamEnds(c) ==
  /\ stream[c] # "ended"
  /\ stream' = [stream EXCEPT ![c] = "ended"]
  /\ OnSocketClose

\* A DISCONNECT packet: the client drops the stream without ending it.
DisconnectPacket(c) ==
  /\ stream[c] = "open"
  /\ OnSocketClose
  /\ UNCHANGED stream

Pingresp(c) ==
  /\ stream[c] = "open"
  /\ waiting
  /\ waiting' = FALSE
  /\ UNCHANGED <<alive, stream, socket, flags, timeoutFlag, connTimer, armed, delay, keepTimer>>

-----------------------------------------------------------------------------
(***************************************************************************)
(* The keepalive interval, and closing.  An overdue PINGRESP closes the    *)
(* client as close() does: the 'close' event that follows finds it closed, *)
(* onSocketClose() returns at once, and the client never reconnects.       *)
(* When a ping is overdue is a choice of the model.  In the code it is     *)
(* seconds (process.uptime) against milliseconds (2 * keepalive), a day    *)
(* and a half by default: the end of the stream is mostly noticed before.  *)
(***************************************************************************)
Ping ==
  /\ keepTimer /\ ~closed /\ ~waiting
  /\ waiting' = TRUE
  /\ UNCHANGED <<alive, stream, socket, flags, timeoutFlag, connTimer, armed, delay, keepTimer>>

\* close(): with this.socket null the call of disconnect() throws, after the flags are
\* set.
CloseClient ==
  /\ connected' = FALSE
  /\ closed' = TRUE
  /\ UNCHANGED <<alive, stream, socket, ever, timers>>

PingOverdue == keepTimer /\ ~closed /\ waiting /\ CloseClient

\* Closed with a socket, by its user or by an overdue ping: nothing makes the client
\* connect again.
GivenUp == closed /\ socket # NONE

-----------------------------------------------------------------------------
(***************************************************************************)
(* Writing.                                                                *)
(***************************************************************************)
Said(kind, n) == [kind |-> kind, n |-> n]

\* To a stream: lost if the stream has ended.
Write(c, m) ==
  wrote' = [wrote EXCEPT ![c] = IF stream[c] = "ended" THEN @ ELSE Append(@, m)]

\* send() in an event handler or a callback: with this.socket null it throws, and
\* nobody catches it.
DoSend(m) ==
  \/ socket # NONE /\ Write(socket, m) /\ UNCHANGED alive
  \/ socket = NONE /\ alive' = "crashed" /\ UNCHANGED wrote

\* send() called from an API function: with this.socket null the caller gets the
\* exception.
ApiSend(m) ==
  \/ socket # NONE /\ Write(socket, m)
  \/ socket = NONE /\ UNCHANGED wrote

\* checkKeepAlive.  What an overdue ping closes says so on its stream; it has one, as
\* MonitorAgent!ConnectedHasSocket states.
KeepAlive ==
  \/ Ping /\ UNCHANGED wrote
  \/ PingOverdue /\ ApiSend(Said("disconnect", 0))

\* What was written to a stream that ends is lost or was read.
Forget(c) == wrote' = [wrote EXCEPT ![c] = <<>>]

=============================================================================
