----------------------------- MODULE WatchServer -----------------------------
(***************************************************************************)
(* What the modules of the master do with a client's request:              *)
(* lib/modules/watchServer.js with its latch (lib/util/countDownLatch.js), *)
(* and the forwarding and the files of lib/modules/scripts.js and          *)
(* lib/modules/monitorLog.js.                                              *)
(*                                                                         *)
(* A job is a client's request that a module serves.  A job asks a server  *)
(* at most once, so <<j, s>> names the request that job j made to server s *)
(* (MasterAgent.request).  Of these requests the model has what            *)
(* RequestContract promises and MasterAgent is shown to keep: at most one  *)
(* answer each, by the server asked, at any time, whether the server has a *)
(* record then or not (a connection whose record is gone can answer, and a *)
(* request to an unknown server is called back at once and answered all    *)
(* the same when the server registers).  That it is answered at all is not *)
(* promised: the monitor may be gone for good, or end while it executes.   *)
(***************************************************************************)
EXTENDS Naturals, FiniteSets

CONSTANTS
  Servers,    \* ids of the monitored servers
  Frontends,  \* those whose info.frontend is 'true'
  Bare,       \* those that registered without an info
  Jobs        \* ids of the client's requests

ASSUME ServerAssumption ==
  IsFiniteSet(Servers) /\ Frontends \subseteq Servers /\ Bare \subseteq Servers \ Frontends

VARIABLES
  agentState,  \* of MasterAgent: "CRASHED" after an uncaught exception
  up,          \* servers with a record in idMap
  command,     \* job -> the command it serves, "none" before
  latch,       \* job -> CountDownLatch.count
  wanted,      \* job -> servers counted by its latch
  serverInfo,  \* job -> servers with an entry in the result
  pending,     \* requests to monitors whose callback is still to be called with an answer
  running,     \* jobs that wait for the file system
  called       \* job -> how often its callback was called

watchVars == <<agentState, up, command, latch, wanted, serverInfo, pending, running, called>>

\* 'servers', and 'connections' and 'logins' of 'all'.
FanOuts == {"servers", "connections all"}

Commands ==
  FanOuts \cup
  { "connections",  \* and 'logins', of one server
    "forward",      \* ShowRequestForClient, 'config'
    "status",       \* forwarded too, but a monitor whose ps fails never answers
    "script",       \* scripts 'run', monitorLog
    "file",         \* scripts 'list', 'get', 'save'
    "local",        \* 'modules', 'config' of the master, what is refused at once
    "broken",       \* scripts 'save' without a filename: the handler throws
    "unknown" }     \* ShowError

WatchInit ==
  /\ agentState = "STARTED"
  /\ up = {}
  /\ command = [j \in Jobs |-> "none"]
  /\ latch = [j \in Jobs |-> 0]
  /\ wanted = [j \in Jobs |-> {}]
  /\ serverInfo = [j \in Jobs |-> {}]
  /\ pending = {}
  /\ running = {}
  /\ called = [j \in Jobs |-> 0]

-----------------------------------------------------------------------------
CallBack(j, times) == called' = [called EXCEPT ![j] = @ + times]

Crash == agentState' = "CRASHED"

\* Whom a fan-out asks: the servers of idMap, or those of them that are frontends.
Asked(cmd) == IF cmd = "servers" THEN up ELSE up \cap Frontends

\* 'connections' reads info.frontend of every record first, and a latch of nobody
\* throws too.
Throws(cmd) == Asked(cmd) = {} \/ (cmd # "servers" /\ up \cap Bare # {})

\* Mutant: the latch of 'connections' counts every server.
FanOutCountsAll(j, cmd) ==
  /\ \/ Throws(cmd) /\ Crash /\ UNCHANGED <<latch, wanted, pending>>
     \/ /\ ~Throws(cmd)
        /\ latch' = [latch EXCEPT ![j] = Cardinality(up)]
        /\ wanted' = [wanted EXCEPT ![j] = Asked(cmd)]
        /\ pending' = pending \cup ({j} \X Asked(cmd))
        /\ UNCHANGED agentState
  /\ UNCHANGED <<running, called>>

\* Mutant: the latch counts one answer too many.
FanOutOneMore(j, cmd) ==
  /\ \/ Throws(cmd) /\ Crash /\ UNCHANGED <<latch, wanted, pending>>
     \/ /\ ~Throws(cmd)
        /\ latch' = [latch EXCEPT ![j] = Cardinality(Asked(cmd)) + 1]
        /\ wanted' = [wanted EXCEPT ![j] = Asked(cmd)]
        /\ pending' = pending \cup ({j} \X Asked(cmd))
        /\ UNCHANGED agentState
  /\ UNCHANGED <<running, called>>

\* A latch over the servers asked, which calls back when each has answered.
FanOut(j, cmd) ==
  /\ \/ Throws(cmd) /\ Crash /\ UNCHANGED <<latch, wanted, pending>>
     \/ /\ ~Throws(cmd)
        /\ latch' = [latch EXCEPT ![j] = Cardinality(Asked(cmd))]
        /\ wanted' = [wanted EXCEPT ![j] = Asked(cmd)]
        /\ pending' = pending \cup ({j} \X Asked(cmd))
        /\ UNCHANGED agentState
  /\ UNCHANGED <<running, called>>

\* 'connections' of a server: that there is none is called back, then the handler throws
\* on the record that is not there; it throws on an info that is not there.
Connections(j, s) ==
  /\ \/ s \notin up /\ CallBack(j, 1) /\ Crash /\ UNCHANGED pending
     \/ s \in up \cap Bare /\ Crash /\ UNCHANGED <<pending, called>>
     \/ s \in up \ (Frontends \cup Bare) /\ CallBack(j, 1) /\ UNCHANGED <<agentState, pending>>
     \/ /\ s \in up \cap Frontends
        /\ pending' = pending \cup {<<j, s>>}
        /\ UNCHANGED <<agentState, called>>
  /\ UNCHANGED <<latch, wanted, running>>

\* The client is called back whatever the answer is, and whenever there is one: at once
\* with nothing for an unknown server.
Forward(j, s) ==
  /\ pending' = pending \cup {<<j, s>>}
  /\ \/ s \in up /\ UNCHANGED called
     \/ s \notin up /\ CallBack(j, 1)
  /\ UNCHANGED <<agentState, latch, wanted, running>>

\* An error is logged and the client not called back.
ForwardScript(j, s) ==
  /\ pending' = pending \cup {<<j, s>>}
  /\ UNCHANGED <<agentState, latch, wanted, running, called>>

\* clientHandler, called by ConsoleService.execute.
Serve(j, cmd, s) ==
  /\ command[j] = "none"
  /\ command' = [command EXCEPT ![j] = cmd]
  /\ \/ cmd \in FanOuts /\ FanOut(j, cmd)
     \/ cmd = "connections" /\ Connections(j, s)
     \/ cmd \in {"forward", "status"} /\ Forward(j, s)
     \/ cmd = "script" /\ ForwardScript(j, s)
     \/ /\ cmd = "file"
        /\ running' = running \cup {j}
        /\ UNCHANGED <<agentState, latch, wanted, pending, called>>
     \/ /\ cmd = "local"
        /\ CallBack(j, 1)
        /\ UNCHANGED <<agentState, latch, wanted, pending, running>>
     \/ cmd = "broken" /\ Crash /\ UNCHANGED <<latch, wanted, pending, running, called>>
     \/ cmd = "unknown" /\ UNCHANGED <<agentState, latch, wanted, pending, running, called>>
  /\ UNCHANGED <<up, serverInfo>>

-----------------------------------------------------------------------------
\* Mutant: the latch calls back one answer early.
DoneEarly(j) ==
  \/ latch[j] <= 0 /\ Crash /\ UNCHANGED <<latch, called>>
  \/ /\ latch[j] > 0
     /\ latch' = [latch EXCEPT ![j] = @ - 1]
     /\ CallBack(j, IF latch[j] <= 2 THEN 1 ELSE 0)
     /\ UNCHANGED agentState

\* CountDownLatch.done.
Done(j) ==
  \/ latch[j] <= 0 /\ Crash /\ UNCHANGED <<latch, called>>
  \/ /\ latch[j] > 0
     /\ latch' = [latch EXCEPT ![j] = @ - 1]
     /\ CallBack(j, IF latch[j] = 1 THEN 1 ELSE 0)
     /\ UNCHANGED agentState

(***************************************************************************)
(* The callback of a request.  A monitor answers 'servers' and             *)
(* 'connections' in the place of the error; when its module is disabled or *)
(* unknown, a real error is there instead (ok = FALSE) and counts as well, *)
(* without an entry.                                                       *)
(***************************************************************************)
OnAnswer(j, s, ok) ==
  /\ <<j, s>> \in pending
  /\ pending' = pending \ {<<j, s>>}
  /\ \/ /\ command[j] \in FanOuts
        /\ serverInfo' = IF ok THEN [serverInfo EXCEPT ![j] = @ \cup {s}] ELSE serverInfo
        /\ Done(j)
     \/ /\ command[j] \in {"connections", "forward", "status"} \/ (command[j] = "script" /\ ok)
        /\ CallBack(j, 1)
        /\ UNCHANGED <<agentState, latch, serverInfo>>
     \/ /\ command[j] = "script" /\ ~ok
        /\ UNCHANGED <<agentState, latch, serverInfo, called>>
  /\ UNCHANGED <<up, command, wanted, running>>

\* The file system answers; 'get' calls back with the error and then without one.
OnFile(j) ==
  /\ j \in running
  /\ running' = running \ {j}
  /\ \E times \in 1..2 : CallBack(j, times)
  /\ UNCHANGED <<agentState, up, command, latch, wanted, serverInfo, pending>>

\* A monitor registers.
ServerComes(s) ==
  /\ s \notin up
  /\ up' = up \cup {s}
  /\ UNCHANGED <<agentState, command, latch, wanted, serverInfo, pending, running, called>>

\* Its connection ends; the end of one without an info throws (MasterAgent!OnDisconnect).
ServerGoes(s) ==
  /\ s \in up
  /\ \/ s \in Bare /\ Crash /\ UNCHANGED up
     \/ s \notin Bare /\ up' = up \ {s} /\ UNCHANGED agentState
  /\ UNCHANGED <<command, latch, wanted, serverInfo, pending, running, called>>

MonitorsAndFiles ==
  \/ \E s \in Servers : ServerComes(s) \/ ServerGoes(s)
  \/ \E j \in Jobs, s \in Servers, ok \in BOOLEAN : OnAnswer(j, s, ok)
  \/ \E j \in Jobs : OnFile(j)

WatchNext ==
  /\ agentState # "CRASHED"
  /\ \/ \E j \in Jobs, cmd \in Commands, s \in Servers : Serve(j, cmd, s)
     \/ MonitorsAndFiles

WatchSpec == WatchInit /\ [][WatchNext]_watchVars

-----------------------------------------------------------------------------
(***************************************************************************)
(* Properties.                                                             *)
(***************************************************************************)
\* The tables, the latches and the counts of callbacks have their types.
WatchTypeOK ==
  /\ up \subseteq Servers
  /\ command \in [Jobs -> Commands \cup {"none"}]
  /\ latch \in [Jobs -> 0..Cardinality(Servers)]
  /\ wanted \in [Jobs -> SUBSET Servers]
  /\ serverInfo \in [Jobs -> SUBSET Servers]
  /\ pending \subseteq Jobs \X Servers
  /\ running \subseteq Jobs
  /\ called \in [Jobs -> 0..2]

Missing(j) == {s \in Servers : <<j, s>> \in pending}

\* A latch counts the answers that are missing, whichever servers came, went and came
\* back since the client asked: done() never throws, and the count does not get stuck
\* above zero.
LatchExact ==
  \A j \in Jobs : command[j] \in FanOuts \cup {"none"} => latch[j] = Cardinality(Missing(j))

\* A fan-out is called back exactly when every server that was registered when the
\* client asked has answered, once, and the result has entries of these servers only.
FanOutComplete ==
  \A j \in Jobs : command[j] \in FanOuts =>
    /\ called[j] = IF wanted[j] # {} /\ Missing(j) = {} THEN 1 ELSE 0
    /\ serverInfo[j] \cap Missing(j) = {}
    /\ serverInfo[j] \cup Missing(j) \subseteq wanted[j]

=============================================================================
