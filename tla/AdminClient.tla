----------------------------- MODULE AdminClient -----------------------------
(***************************************************************************)
(* An admin client: lib/client/client.js on top of its MqttClient.  The    *)
(* client has no handler for 'reconnect', looks at its state nowhere and   *)
(* checks only that there is a socket, by throwing when there is none.     *)
(***************************************************************************)
EXTENDS MqttClient, SequencesExt

CONSTANT MaxAsks  \* bound: requests and notifications of the client

ASSUME AskAssumption == MaxAsks \in Nat

Asks == 1..MaxAsks

VARIABLES
  cstate,     \* Client.state
  cReqId,     \* Client.reqId
  cCallbacks, \* Client.callbacks: ids of requests
  on,         \* history: request -> the stream it was written to, until that ends
  got,        \* history: request -> how often its callback was called
  told        \* how many notifications were sent

adminVars == <<cstate, cReqId, cCallbacks, on, got, told>>

AdminInit ==
  /\ ClientInit
  /\ cstate = "INITED"
  /\ cReqId = 1
  /\ cCallbacks = {}
  /\ on = [n \in Asks |-> NONE]
  /\ got = [n \in Asks |-> 0]
  /\ told = 0

-----------------------------------------------------------------------------
\* connect, called once.
ConnectAdmin(c) ==
  /\ cstate = "INITED"
  /\ socket = NONE
  /\ FirstConnect(c)
  /\ UNCHANGED <<adminVars, wrote>>

ReconnectAdmin(c) == ReconnectTimer(c) /\ UNCHANGED <<adminVars, wrote>>

\* 'connect' makes the client register; 'reconnect' has no handler.
OnConnackAdmin(c) ==
  /\ Connack(c)
  /\ \/ /\ connected \/ ever
        /\ UNCHANGED <<alive, cstate, wrote>>
     \/ /\ ~connected /\ ~ever
        /\ cstate' = "CONNECTED"
        /\ DoSend(Said("register", 0))
  /\ UNCHANGED <<cReqId, cCallbacks, on, got, told>>

\* 'disconnect' of the client: kicked, or refused at registration.
OnKickedAdmin(c) ==
  /\ DisconnectPacket(c)
  /\ cstate' = "CLOSED"
  /\ UNCHANGED <<cReqId, cCallbacks, on, got, told, wrote>>

\* 'register': a refusal only calls back.
OnRegister(ok) ==
  /\ cstate' = IF ok THEN "REGISTERED" ELSE cstate
  /\ UNCHANGED <<clientVars, cReqId, cCallbacks, on, got, told, wrote>>

\* Mutant: the callback stays stored.
OnResponseAgain(n) ==
  /\ got' = IF n \in cCallbacks THEN [got EXCEPT ![n] = @ + 1] ELSE got
  /\ UNCHANGED <<clientVars, cstate, cReqId, cCallbacks, on, told, wrote>>

\* 'client' with the answer to request n.
OnResponse(n) ==
  /\ cCallbacks' = cCallbacks \ {n}
  /\ got' = IF n \in cCallbacks THEN [got EXCEPT ![n] = @ + 1] ELSE got
  /\ UNCHANGED <<clientVars, cstate, cReqId, on, told, wrote>>

-----------------------------------------------------------------------------
\* request and command, after connect(): the callback is stored before the message is
\* sent.
Ask ==
  /\ cstate # "INITED" \/ socket # NONE
  /\ cReqId + told <= MaxAsks
  /\ cReqId' = cReqId + 1
  /\ cCallbacks' = cCallbacks \cup {cReqId}
  /\ ApiSend(Said("request", cReqId))
  /\ on' = [on EXCEPT ![cReqId] =
              IF socket # NONE /\ stream[socket] # "ended" THEN socket ELSE NONE]
  /\ UNCHANGED <<clientVars, cstate, got, told>>

\* notify.  A handler of the master runs it as a job, which has the id MaxAsks - told: no
\* request has it.
NotifyMaster ==
  /\ cstate # "INITED" \/ socket # NONE
  /\ cReqId + told <= MaxAsks
  /\ told' = told + 1
  /\ ApiSend(Said("notify", MaxAsks - told))
  /\ UNCHANGED <<clientVars, cstate, cReqId, cCallbacks, on, got>>

-----------------------------------------------------------------------------
\* The variables of the admin client and of its mqttClient have their types.
AdminTypeOK ==
  /\ cstate \in {"INITED", "CONNECTED", "REGISTERED", "CLOSED"}
  /\ cReqId \in 1..(MaxAsks + 1)
  /\ cCallbacks \subseteq Asks
  /\ on \in [Asks -> Conns \cup {NONE}]
  /\ got \in [Asks -> Nat]
  /\ told \in 0..MaxAsks

\* The master may call back a request twice (an unknown server that registers later, a
\* file that cannot be read): the caller is called once, and no longer waited for.
CalledOnce == \A n \in Asks : got[n] <= (IF n \in cCallbacks THEN 0 ELSE 1)

=============================================================================
