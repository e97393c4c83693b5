----------------------------- MODULE AdminSession -----------------------------
(***************************************************************************)
(* An admin client, the master and its modules: AdminClient, WatchServer   *)
(* and the master's side of a client (MasterAgent) over TCP streams.  The  *)
(* monitors are those of WatchServer, so that the tables and the requests  *)
(* of MasterAgent that belong to monitors stay empty here.                 *)
(***************************************************************************)
EXTENDS AdminClient, WatchServer, Streams

CONSTANT Users

VARIABLES peer, registered, clients

Master == INSTANCE MasterAgent WITH
  Servers <- {}, Types <- {}, TypeOf <- <<>>, Addrs <- {}, NoInfo <- NONE,
  AsyncAuth <- FALSE, MaxReq <- 0, MaxSent <- 0, MaxAsked <- 0,
  authing <- {}, asked <- [c \in Conns |-> 0],
  idMap <- <<>>, typeMap <- <<>>, slaveMap <- <<>>, reqId <- 1, callbacks <- {},
  msgMap <- <<>>, target <- <<>>, direct <- {}, answered <- <<>>, refused <- {}

masterVars == <<agentState, listening, sock, peer, registered, clients, sent>>
modulesVars == <<up, command, latch, wanted, serverInfo, pending, running, called>>
clientSide == <<clientVars, wrote, adminVars>>
vars == <<clientSide, masterVars, modulesVars, network>>

ASSUME SessionAssumption == Jobs = Asks

Init ==
  /\ AdminInit
  /\ WatchInit
  /\ StreamsInit
  /\ listening = TRUE
  /\ sock = [c \in Conns |-> "closed"]
  /\ peer = [c \in Conns |-> NONE]
  /\ registered = {}
  /\ clients = [u \in Users |-> NONE]
  /\ sent = [c \in Conns |-> <<>>]

-----------------------------------------------------------------------------
(***************************************************************************)
(* Streams: opening, ending.                                               *)
(***************************************************************************)
Open(c) ==
  /\ stream[c] = "ended" /\ Master!Unused(c)
  /\ ConnectAdmin(c) \/ ReconnectAdmin(c)
  /\ UNCHANGED <<masterVars, modulesVars, network>>

Accept(c) ==
  Reaches(c) /\ Master!Connection(c) /\ UNCHANGED <<clientSide, modulesVars, network>>

Acknowledge(c) ==
  /\ IsAcknowledged(c)
  /\ OnConnackAdmin(c)
  /\ UNCHANGED <<masterVars, modulesVars, network>>

Cut(c) == CutOff(c) /\ UNCHANGED <<clientSide, masterVars, modulesVars>>

\* Requests written to a stream are lost with it, when neither end has it any more.
LostWith(c) == on' = [n \in Asks |-> IF on[n] = c THEN NONE ELSE on[n]]

ClientNotices(c) ==
  /\ ClientSeesEnd(c)
  /\ StreamEnds(c)
  /\ Forget(c)
  /\ IF sock[c] = "closed" THEN LostWith(c) ELSE UNCHANGED on
  /\ UNCHANGED <<cstate, cReqId, cCallbacks, got, told, masterVars, modulesVars>>

MasterNotices(c) ==
  /\ MasterSeesEnd(c)
  /\ Master!OnDisconnect(c)
  /\ LostWith(c)
  /\ UNCHANGED <<clientVars, wrote, cstate, cReqId, cCallbacks, got, told, modulesVars>>

-----------------------------------------------------------------------------
(***************************************************************************)
(* Messages.  What a module calls back with is written to the stream the   *)
(* request was read from, once for each call; for a notification it is     *)
(* only logged.                                                            *)
(***************************************************************************)
Response(n) == [kind |-> "response", n |-> n]
Calls(j) == [i \in 1..(called'[j] - called[j]) |-> Response(j)]

\* Mutant: it is written to the stream the client has by now.
WriteToNewest(j) ==
  IF socket = NONE THEN UNCHANGED sent ELSE Master!Put(socket, Calls(j))

WriteCalls(j) ==
  IF on[j] = NONE THEN UNCHANGED sent ELSE Master!Put(on[j], Calls(j))

ClientReads(c) ==
  LET m == ToClient(c)
  IN /\ Hears(c)
     /\ \/ m.kind = "register" /\ OnRegister(m.n = Master!PRO_OK)
        \/ m.kind = "response" /\ OnResponse(m.n)
        \/ m.kind = "disconnect" /\ OnKickedAdmin(c)
     /\ UNCHANGED <<masterVars, modulesVars>>

\* Mutant: a client that is not registered is ignored, as the comment has it, and not
\* kicked.
KickNobody(c) == c \notin registered /\ UNCHANGED masterVars

KickUnregistered(c) == Master!Kick(c)

MasterReads(c) ==
  LET m == ToMaster(c)
  IN /\ Takes(c)
     /\ \/ /\ m.kind = "register"
           /\ \E u \in Users :
                Master!RegisterClient(c, [kind |-> "client", id |-> u, addr |-> NONE])
           /\ UNCHANGED modulesVars
        \/ /\ m.kind \in {"request", "notify"} /\ c \in registered
           /\ \E cmd \in Commands, s \in Servers : Serve(m.n, cmd, s)
           /\ WriteCalls(m.n)
           /\ UNCHANGED <<listening, sock, peer, registered, clients>>
        \/ /\ m.kind \in {"request", "notify"}
           /\ KickUnregistered(c)
           /\ UNCHANGED modulesVars
     /\ UNCHANGED clientSide

Answers ==
  /\ \/ \E s \in Servers : (ServerComes(s) \/ ServerGoes(s)) /\ UNCHANGED sent
     \/ \E j \in Jobs, s \in Servers, ok \in BOOLEAN : OnAnswer(j, s, ok) /\ WriteCalls(j)
     \/ \E j \in Jobs : OnFile(j) /\ WriteCalls(j)
  /\ UNCHANGED <<clientSide, network, listening, sock, peer, registered, clients>>

\* Of the pings, those on a stream that delivers nothing any more: the others are
\* answered and change nothing.
ClientCalls ==
  /\ \/ ConnectTimeout /\ UNCHANGED <<wrote, adminVars>>
     \/ socket \in cut /\ KeepAlive /\ UNCHANGED adminVars
     \/ Ask
     \/ NotifyMaster
  /\ UNCHANGED <<masterVars, modulesVars, network>>

\* A master that has crashed is the end of the session.
Next ==
  /\ alive = "running" /\ agentState # "CRASHED"
  /\ \/ \E c \in Conns :
          \/ Open(c) \/ Accept(c) \/ Acknowledge(c) \/ Cut(c)
          \/ ClientNotices(c) \/ MasterNotices(c) \/ ClientReads(c) \/ MasterReads(c)
     \/ Answers
     \/ ClientCalls

Spec == Init /\ [][Next]_vars

-----------------------------------------------------------------------------
(***************************************************************************)
(* Fairness.  The event loops of both ends go on: each end of a stream     *)
(* does what it has to do, and the end of a stream is noticed some time.   *)
(* A file is read.  Of the monitors nothing is assumed: whether they       *)
(* register again, and whether they answer, is left open.                  *)
(***************************************************************************)
Live(A) == alive = "running" /\ agentState # "CRASHED" /\ A
AllButModules == <<clientSide, network, listening, sock, peer, registered, clients>>

SessionFairness ==
  /\ \A c \in Conns :
       /\ WF_vars(Live(Accept(c) \/ MasterReads(c) \/ MasterNotices(c)))
       /\ WF_vars(Live(Acknowledge(c) \/ ClientReads(c) \/ ClientNotices(c)))
  /\ \A j \in Jobs : WF_vars(Live(OnFile(j) /\ WriteCalls(j) /\ UNCHANGED AllButModules))

FairSpec == Spec /\ SessionFairness

-----------------------------------------------------------------------------
(***************************************************************************)
(* Properties.                                                             *)
(***************************************************************************)
\* Client, master, module and both directions of every stream have their types.
SessionTypeOK ==
  /\ AdminTypeOK
  /\ WatchTypeOK
  /\ agentState \in {"STARTED", "CRASHED"}
  /\ sock \in [Conns -> {"open", "closed"}]
  /\ registered \subseteq Conns
  /\ sent \in [Conns -> Seq(Master!Message)]
  /\ heard \in [Conns -> Nat]
  /\ taken \in [Conns -> Nat]
  /\ cut \subseteq Conns

\* However late a module calls back, and whatever streams the client has opened since,
\* an answer is written to a connection that is registered, the one it was asked on.
AnsweredWhereAsked ==
  \A c \in Conns : \A n \in Asks :
    Response(n) \in ToSet(sent[c]) => c \in registered /\ on[n] = c

\* A client is left waiting by nobody but a monitor: if no answer of a monitor is missing
\* for ever, it gets an answer, loses the stream, or is told that it is not registered,
\* unless the command is one whose failures are never reported, or brought the master
\* down.  The premise is needed and the code does not see to it: no request has a timeout
\* (watchServer.js:166), and the monitor asked may not register again (Registers), may have
\* given up, may end in the module it executes ('set' and 'memory' without a param) or may
\* not call back ('status' without process information).
Silent == {"script", "unknown"}
AskSettled ==
  \A n \in Asks :
    []<>(Missing(n) = {}) =>
      ((on[n] # NONE) ~>
         \/ got[n] > 0 \/ on[n] = NONE \/ cstate = "CLOSED"
         \/ command[n] \in Silent
         \/ agentState = "CRASHED" \/ alive # "running")

=============================================================================
