-------------------------- MODULE AdminSessionProofs -------------------------
(***************************************************************************)
(* For any number of streams, servers and requests of a client: what the   *)
(* modules do with the requests (WatchServer), and what the client gets    *)
(* back of it over its streams (AdminSession).                             *)
(*                                                                         *)
(* The modules.  done() counts down and calls back once because the count  *)
(* is the number of missing answers; that an answer is missing only where  *)
(* the job asked, and that a job which is no fan-out waits for one answer  *)
(* or for a file and has been called at most once before, is needed for    *)
(* the type.  JobInv(j) says all of it about one job; a step disturbs the  *)
(* job it serves and no other.                                             *)
(*                                                                         *)
(* The session.  Its steps are steps of WatchServer or leave the modules   *)
(* alone, so that JobInv holds of it too.  An answer goes to the stream    *)
(* its request was read from because a request is never on another stream, *)
(* and because a stream stays registered from the time a request is served *)
(* until the master has seen its end (RouteInv).                           *)
(***************************************************************************)
EXTENDS AdminSession, FiniteSetTheorems, TLAPS

-----------------------------------------------------------------------------
(***************************************************************************)
(* The modules.                                                            *)
(***************************************************************************)
Shape ==
  /\ up \subseteq Servers
  /\ command \in [Jobs -> Commands \cup {"none"}]
  /\ latch \in [Jobs -> Nat]
  /\ wanted \in [Jobs -> SUBSET Servers]
  /\ serverInfo \in [Jobs -> SUBSET Servers]
  /\ pending \subseteq Jobs \X Servers
  /\ running \subseteq Jobs
  /\ called \in [Jobs -> Nat]

\* A fan-out.
FanOutInv(j) ==
  /\ latch[j] = Cardinality(Missing(j))
  /\ called[j] = IF wanted[j] # {} /\ Missing(j) = {} THEN 1 ELSE 0
  /\ serverInfo[j] \cap Missing(j) = {}
  /\ serverInfo[j] \cup Missing(j) \subseteq wanted[j]
  /\ j \notin running

\* A job that waits for one answer, for a file or for nothing.
SingleInv(j) ==
  /\ latch[j] = 0
  /\ called[j] <= 2
  /\ \A s, t \in Missing(j) : s = t
  /\ Missing(j) # {} => called[j] <= 1 /\ j \notin running
  /\ j \in running => called[j] = 0

\* A job that is still to come.
IdleInv(j) ==
  /\ latch[j] = 0 /\ called[j] = 0
  /\ Missing(j) = {} /\ wanted[j] = {} /\ serverInfo[j] = {}
  /\ j \notin running

JobInv(j) ==
  /\ command[j] \in FanOuts => FanOutInv(j)
  /\ command[j] \in Commands \ FanOuts => SingleInv(j)
  /\ command[j] = "none" => IdleInv(j)

WatchInv == Shape /\ \A j \in Jobs : JobInv(j)

-----------------------------------------------------------------------------
\* The answers a job misses are finitely many.
LEMMA MissingFinite ==
  ASSUME NEW j
  PROVE  /\ IsFiniteSet(Missing(j))
         /\ Cardinality(Missing(j)) \in 0..Cardinality(Servers)
         /\ Cardinality(Missing(j)) = 0 <=> Missing(j) = {}
<1>1. IsFiniteSet(Servers) /\ Missing(j) \in SUBSET Servers
  BY ServerAssumption DEF Missing
<1>2. IsFiniteSet(Missing(j)) /\ Cardinality(Missing(j)) <= Cardinality(Servers)
  BY <1>1, FS_Subset
<1>3. Cardinality(Missing(j)) \in Nat /\ Cardinality(Servers) \in Nat
  BY <1>1, <1>2, FS_CardinalityType
<1>4. Cardinality(Missing(j)) = 0 <=> Missing(j) = {}
  BY <1>2, FS_EmptySet
<1> QED BY <1>2, <1>3, <1>4

\* What JobInv(j) speaks of.
Same(j) ==
  /\ command'[j] = command[j]
  /\ latch'[j] = latch[j]
  /\ wanted'[j] = wanted[j]
  /\ serverInfo'[j] = serverInfo[j]
  /\ called'[j] = called[j]
  /\ Missing(j)' = Missing(j)
  /\ j \in running' <=> j \in running

\* A job that a step does not touch stays as it is.
LEMMA SameKeeps ==
  ASSUME NEW j \in Jobs, JobInv(j), Same(j)
  PROVE  JobInv(j)'
BY DEF JobInv, FanOutInv, SingleInv, IdleInv, Same

-----------------------------------------------------------------------------
(***************************************************************************)
(* A client's request.                                                     *)
(***************************************************************************)
\* What is not asked of a server.
Local == {"file", "local", "broken", "unknown"}

\* It waits for a file, is called back, or neither.
LEMMA LocalEffect ==
  ASSUME NEW j, NEW cmd \in Local, NEW s, Serve(j, cmd, s)
  PROVE  /\ UNCHANGED <<latch, wanted, pending>>
         /\ \/ running' = running \cup {j} /\ called' = called
            \/ running' = running /\ CallBack(j, 1)
            \/ UNCHANGED <<running, called>>
<1>1. cmd = "file" \/ cmd = "local" \/ cmd = "broken" \/ cmd = "unknown"
  BY DEF Local
<1>2. CASE cmd = "file"
  BY <1>2 DEF Serve, FanOuts
<1>3. CASE cmd = "local"
  BY <1>3 DEF Serve, FanOuts
<1>4. CASE cmd = "broken"
  BY <1>4 DEF Serve, FanOuts
<1>5. CASE cmd = "unknown"
  BY <1>5 DEF Serve, FanOuts
<1> QED BY <1>1, <1>2, <1>3, <1>4, <1>5

\* A request is served: the tables keep their types, ...
LEMMA ServeShape ==
  ASSUME Shape, NEW j \in Jobs, NEW cmd \in Commands, NEW s \in Servers, Serve(j, cmd, s)
  PROVE  Shape'
<1>1. Asked(cmd) \subseteq Servers
  BY DEF Asked, Shape
<1>2. IsFiniteSet(Asked(cmd)) /\ Cardinality(Asked(cmd)) \in Nat
  BY <1>1, ServerAssumption, FS_Subset, FS_CardinalityType
<1>3. /\ up' = up /\ serverInfo' = serverInfo
      /\ command' \in [Jobs -> Commands \cup {"none"}]
  BY DEF Serve, Shape
<1>4. CASE FanOut(j, cmd)
  BY <1>1, <1>2, <1>3, <1>4 DEF FanOut, Shape
<1>5. CASE Connections(j, s)
  BY <1>3, <1>5 DEF Connections, CallBack, Shape
<1>6. CASE Forward(j, s) \/ ForwardScript(j, s)
  BY <1>3, <1>6 DEF Forward, ForwardScript, CallBack, Shape
<1>7. CASE cmd \in Local
  <2>1. /\ latch' = latch /\ wanted' = wanted /\ pending' = pending
        /\ running' \subseteq Jobs /\ called' \in [Jobs -> Nat]
    BY <1>7, LocalEffect DEF CallBack, Shape
  <2> QED BY <1>3, <2>1 DEF Shape
<1> QED BY <1>4, <1>5, <1>6, <1>7 DEF Serve, Local

\* ... the other jobs are not touched, ...
LEMMA ServeOthers ==
  ASSUME Shape, NEW j \in Jobs, NEW cmd \in Commands, NEW s \in Servers, Serve(j, cmd, s),
         NEW k \in Jobs, k # j
  PROVE  Same(k)
<1>1. /\ command'[k] = command[k] /\ serverInfo'[k] = serverInfo[k]
  BY DEF Serve, Shape
<1>2. CASE FanOut(j, cmd)
  BY <1>1, <1>2 DEF FanOut, Same, Missing, Shape
<1>3. CASE Connections(j, s)
  BY <1>1, <1>3 DEF Connections, CallBack, Same, Missing, Shape
<1>4. CASE Forward(j, s) \/ ForwardScript(j, s)
  BY <1>1, <1>4 DEF Forward, ForwardScript, CallBack, Same, Missing, Shape
<1>5. CASE cmd \in Local
  BY <1>1, <1>5, LocalEffect DEF CallBack, Same, Missing, Shape
<1> QED BY <1>2, <1>3, <1>4, <1>5 DEF Serve, Local

\* ... and the job itself starts with a latch that counts whom it asked.
LEMMA ServeKeeps ==
  ASSUME Shape, NEW j \in Jobs, JobInv(j),
         NEW cmd \in Commands, NEW s \in Servers, Serve(j, cmd, s)
  PROVE  JobInv(j)'
<1>1. /\ command[j] = "none" /\ command'[j] = cmd
      /\ cmd # "none"
      /\ serverInfo'[j] = serverInfo[j]
  BY DEF Serve, Shape, Commands, FanOuts
<1>2. IdleInv(j)
  BY <1>1 DEF JobInv
<1>3. CASE cmd \in FanOuts
  <2>1. FanOut(j, cmd)
    BY <1>3 DEF Serve, FanOuts
  <2>2. Asked(cmd) \subseteq Servers /\ j \notin running'
    BY <1>2, <2>1 DEF Asked, Shape, FanOut, IdleInv
  <2>3. CASE Throws(cmd)
    <3>1. Missing(j)' = {} /\ wanted'[j] = {} /\ latch'[j] = 0 /\ called'[j] = 0
      BY <1>2, <2>1, <2>3 DEF FanOut, IdleInv, Missing
    <3>2. Cardinality({}) = 0
      BY FS_EmptySet
    <3> QED BY <1>1, <1>2, <1>3, <2>2, <3>1, <3>2 DEF JobInv, FanOutInv, IdleInv
  <2>4. CASE ~Throws(cmd)
    <3>0. Asked(cmd) # {}
      BY <2>4 DEF Throws
    <3>1. /\ latch'[j] = Cardinality(Asked(cmd))
          /\ wanted'[j] = Asked(cmd) /\ called'[j] = 0
      BY <1>2, <2>1, <2>4 DEF FanOut, IdleInv, Shape
    <3>2. Missing(j)' = Asked(cmd)
      BY <1>2, <2>1, <2>2, <2>4 DEF FanOut, IdleInv, Missing
    <3> QED BY <1>1, <1>2, <1>3, <2>2, <3>0, <3>1, <3>2 DEF JobInv, FanOutInv, IdleInv
  <2> QED BY <2>3, <2>4
<1>4. CASE cmd \notin FanOuts
  <2>1. /\ latch'[j] = 0 /\ called'[j] \in 0..1
        /\ Missing(j)' = {} \/ (Missing(j)' = {s} /\ running' = running)
        /\ j \in running' => called'[j] = 0 /\ Missing(j)' = {}
    <3>1. CASE Connections(j, s)
      BY <1>2, <3>1 DEF Connections, CallBack, IdleInv, Missing, Shape
    <3>2. CASE Forward(j, s) \/ ForwardScript(j, s)
      BY <1>2, <3>2 DEF Forward, ForwardScript, CallBack, IdleInv, Missing, Shape
    <3>3. CASE cmd \in Local
      BY <1>2, <3>3, LocalEffect DEF CallBack, IdleInv, Missing, Shape
    <3> QED BY <1>4, <3>1, <3>2, <3>3 DEF Serve, Local
  <2>2. j \notin running
    BY <1>2 DEF IdleInv
  <2>3. SingleInv(j)'
    BY <2>1, <2>2 DEF SingleInv
  <2> QED BY <1>1, <1>4, <2>3 DEF JobInv
<1> QED BY <1>3, <1>4

-----------------------------------------------------------------------------
(***************************************************************************)
(* An answer.                                                              *)
(***************************************************************************)
\* An answer: the tables keep their types, ...
LEMMA AnswerShape ==
  ASSUME Shape, NEW j \in Jobs, NEW s \in Servers, NEW ok \in BOOLEAN, OnAnswer(j, s, ok)
  PROVE  Shape'
<1>1. /\ up' = up /\ command' = command /\ wanted' = wanted /\ running' = running
      /\ pending' \subseteq Jobs \X Servers
  BY DEF OnAnswer, Shape
<1>2. /\ latch' \in [Jobs -> Nat]
      /\ called' \in [Jobs -> Nat]
      /\ serverInfo' \in [Jobs -> SUBSET Servers]
  BY DEF OnAnswer, Done, CallBack, Shape
<1> QED BY <1>1, <1>2 DEF Shape

\* ... the other jobs are not touched, ...
LEMMA AnswerOthers ==
  ASSUME Shape, NEW j \in Jobs, NEW s \in Servers, NEW ok \in BOOLEAN, OnAnswer(j, s, ok),
         NEW k \in Jobs, k # j
  PROVE  Same(k)
<1>1. /\ command'[k] = command[k] /\ wanted'[k] = wanted[k]
      /\ k \in running' <=> k \in running
      /\ Missing(k)' = Missing(k)
  BY DEF OnAnswer, Missing
<1>2. /\ latch'[k] = latch[k] /\ called'[k] = called[k]
      /\ serverInfo'[k] = serverInfo[k]
  BY DEF OnAnswer, Done, CallBack, Shape
<1> QED BY <1>1, <1>2 DEF Same

\* ... and the job misses one answer less, which its latch counts.
LEMMA AnswerKeeps ==
  ASSUME Shape, NEW j \in Jobs, JobInv(j),
         NEW s \in Servers, NEW ok \in BOOLEAN, OnAnswer(j, s, ok)
  PROVE  JobInv(j)'
<1>1. /\ s \in Missing(j) /\ Missing(j)' = Missing(j) \ {s}
      /\ command'[j] = command[j] /\ wanted'[j] = wanted[j] /\ running' = running
  BY DEF OnAnswer, Missing
<1>2. CASE command[j] \in FanOuts
  <2>1. FanOutInv(j)
    BY <1>2 DEF JobInv
  <2>2. /\ Cardinality(Missing(j)) \in Nat
        /\ Cardinality(Missing(j)') = Cardinality(Missing(j)) - 1
        /\ Cardinality(Missing(j)) # 0
    <3>1. IsFiniteSet(Missing(j)) /\ Cardinality(Missing(j)) \in Nat
      BY MissingFinite, FS_CardinalityType
    <3>2. Cardinality(Missing(j) \ {s}) = Cardinality(Missing(j)) - 1
      BY <1>1, <3>1, FS_RemoveElement
    <3>3. Cardinality(Missing(j)) # 0
      BY <1>1, <3>1, FS_EmptySet
    <3> QED BY <1>1, <3>1, <3>2, <3>3
  <2>3. Cardinality(Missing(j)') = 0 <=> Missing(j)' = {}
    <3>1. IsFiniteSet(Missing(j)')
      BY <1>1, MissingFinite, FS_RemoveElement
    <3> QED BY <3>1, FS_EmptySet
  <2>4. Done(j)
    BY <1>2 DEF OnAnswer, FanOuts
  <2>5. /\ latch'[j] = latch[j] - 1
        /\ called'[j] = called[j] + (IF latch[j] = 1 THEN 1 ELSE 0)
    BY <2>1, <2>2, <2>4 DEF Done, CallBack, FanOutInv, Shape
  <2>6. called[j] = 0 /\ wanted[j] # {}
    BY <1>1, <2>1 DEF FanOutInv
  <2>7. /\ serverInfo'[j] \subseteq serverInfo[j] \cup {s}
        /\ s \in wanted[j]
    BY <1>1, <1>2, <2>1 DEF OnAnswer, FanOutInv, FanOuts, Shape
  <2>8. latch'[j] = Cardinality(Missing(j)')
    BY <2>1, <2>2, <2>5 DEF FanOutInv
  <2>9. called'[j] = IF wanted'[j] # {} /\ Missing(j)' = {} THEN 1 ELSE 0
    BY <1>1, <2>1, <2>2, <2>3, <2>5, <2>6 DEF FanOutInv
  <2>10. FanOutInv(j)'
    BY <1>1, <2>1, <2>7, <2>8, <2>9 DEF FanOutInv
  <2> QED BY <1>1, <1>2, <2>10 DEF JobInv, FanOuts
<1>3. CASE command[j] \in Commands \ FanOuts
  <2>1. SingleInv(j)
    BY <1>3 DEF JobInv
  <2>2. /\ latch'[j] = latch[j] /\ called'[j] \in {called[j], called[j] + 1}
    BY <1>3 DEF OnAnswer, CallBack, Shape
  <2>3. /\ called[j] \in 0..1 /\ Missing(j)' = {} /\ j \notin running'
    BY <1>1, <2>1 DEF SingleInv, Shape
  <2>4. SingleInv(j)'
    BY <2>1, <2>2, <2>3 DEF SingleInv
  <2> QED BY <1>1, <1>3, <2>4 DEF JobInv, Commands
<1>4. CASE command[j] = "none"
  BY <1>1, <1>4 DEF JobInv, IdleInv
<1> QED BY <1>2, <1>3, <1>4 DEF Shape

-----------------------------------------------------------------------------
(***************************************************************************)
(* Files, and the servers that come and go.                                *)
(***************************************************************************)
\* The file system answers a job that nobody else will call back.
LEMMA FileKeeps ==
  ASSUME WatchInv, NEW j \in Jobs, OnFile(j)
  PROVE  WatchInv'
<1> PICK times \in 1..2 : called' = [called EXCEPT ![j] = @ + times]
  BY DEF OnFile, CallBack
<1>1. Shape'
  BY DEF OnFile, WatchInv, Shape
<1>2. ASSUME NEW k \in Jobs, k # j PROVE Same(k)
  BY <1>2 DEF OnFile, Same, Missing, WatchInv, Shape
<1>3. JobInv(j)'
  <2>1. JobInv(j) /\ j \in running
    BY DEF WatchInv, OnFile
  <2>2. command[j] \in Commands \ FanOuts /\ SingleInv(j)
    BY <2>1 DEF JobInv, FanOutInv, IdleInv, WatchInv, Shape
  <2>3. /\ command' = command /\ latch' = latch /\ Missing(j)' = Missing(j)
        /\ j \notin running' /\ called'[j] = called[j] + times
    BY DEF OnFile, Missing, WatchInv, Shape
  <2>4. SingleInv(j)'
    BY <2>1, <2>2, <2>3 DEF SingleInv
  <2> QED BY <2>2, <2>3, <2>4 DEF JobInv, Commands, FanOuts
<1> QED BY <1>1, <1>2, <1>3, SameKeeps DEF WatchInv

\* A server comes or goes: no latch looks at it.
LEMMA ServerKeeps ==
  ASSUME WatchInv, NEW s \in Servers, ServerComes(s) \/ ServerGoes(s)
  PROVE  WatchInv'
<1>1. Shape'
  BY DEF ServerComes, ServerGoes, WatchInv, Shape
<1>2. ASSUME NEW k \in Jobs PROVE Same(k)
  BY DEF ServerComes, ServerGoes, Same, Missing
<1> QED BY <1>1, <1>2, SameKeeps DEF WatchInv

-----------------------------------------------------------------------------
\* A step of the modules.
LEMMA JobsStep ==
  WatchInv /\ [WatchNext]_watchVars => WatchInv'
<1> SUFFICES ASSUME WatchInv, [WatchNext]_watchVars PROVE WatchInv'
  OBVIOUS
<1>1. ASSUME NEW j \in Jobs, NEW cmd \in Commands, NEW s \in Servers, Serve(j, cmd, s)
      PROVE  WatchInv'
  BY <1>1, ServeShape, ServeOthers, ServeKeeps, SameKeeps DEF WatchInv
<1>2. ASSUME NEW j \in Jobs, NEW s \in Servers, NEW ok \in BOOLEAN, OnAnswer(j, s, ok)
      PROVE  WatchInv'
  BY <1>2, AnswerShape, AnswerOthers, AnswerKeeps, SameKeeps DEF WatchInv
<1>3. CASE UNCHANGED watchVars
  <2>1. Shape' BY <1>3 DEF watchVars, WatchInv, Shape
  <2>2. ASSUME NEW k \in Jobs PROVE Same(k)
    BY <1>3 DEF watchVars, Same, Missing
  <2> QED BY <2>1, <2>2, SameKeeps DEF WatchInv
<1> QED BY <1>1, <1>2, <1>3, FileKeeps, ServerKeeps DEF WatchNext, MonitorsAndFiles

\* At the start nothing is asked.
LEMMA JobsStart == WatchInit => WatchInv
<1> SUFFICES ASSUME WatchInit PROVE WatchInv
  OBVIOUS
<1>1. Shape
  BY DEF WatchInit, Shape
<1>2. ASSUME NEW j \in Jobs PROVE IdleInv(j) /\ command[j] = "none"
  BY DEF WatchInit, IdleInv, Missing
<1> QED BY <1>1, <1>2 DEF WatchInv, JobInv, FanOuts, Commands

\* The latches, the callbacks and the requests agree in every state.
THEOREM JobsAgree == WatchSpec => []WatchInv
BY JobsStart, JobsStep, PTL DEF WatchSpec

\* Every latch counts the answers that its job still misses, whichever servers came, went
\* and came back: done() of countDownLatch.js never throws.
THEOREM LatchesExact == WatchSpec => []LatchExact
<1>1. WatchInv => LatchExact
  <2> SUFFICES ASSUME WatchInv, NEW j \in Jobs, command[j] \in FanOuts \cup {"none"}
               PROVE  latch[j] = Cardinality(Missing(j))
    BY DEF LatchExact
  <2>1. CASE command[j] \in FanOuts
    BY <2>1 DEF WatchInv, JobInv, FanOutInv
  <2>2. CASE command[j] = "none"
    BY <2>2, FS_EmptySet DEF WatchInv, JobInv, IdleInv
  <2> QED BY <2>1, <2>2
<1> QED BY <1>1, JobsAgree, PTL

\* A fan-out of watchServer.js calls its client back once, when every server it asked has
\* answered, and with entries of these servers only.
THEOREM FanOutsComplete == WatchSpec => []FanOutComplete
<1>1. WatchInv => FanOutComplete
  BY DEF WatchInv, JobInv, FanOutInv, FanOutComplete
<1> QED BY <1>1, JobsAgree, PTL

\* The tables have their types; a latch is never above the number of servers, and no job is
\* called back more than twice.
THEOREM WatchTypeCorrect == WatchSpec => []WatchTypeOK
<1>1. WatchInv => WatchTypeOK
  <2> SUFFICES ASSUME WatchInv PROVE WatchTypeOK
    OBVIOUS
  <2>1. ASSUME NEW j \in Jobs
        PROVE  latch[j] \in 0..Cardinality(Servers) /\ called[j] \in 0..2
    <3>1. Cardinality(Missing(j)) \in 0..Cardinality(Servers) /\ Cardinality(Servers) \in Nat
      BY MissingFinite, ServerAssumption, FS_CardinalityType
    <3>2. CASE command[j] \in FanOuts
      BY <3>1, <3>2 DEF WatchInv, JobInv, FanOutInv
    <3>3. CASE command[j] \in Commands \ FanOuts
      BY <3>1, <3>3 DEF WatchInv, JobInv, SingleInv, Shape
    <3>4. CASE command[j] = "none"
      BY <3>1, <3>4 DEF WatchInv, JobInv, IdleInv
    <3> QED BY <3>2, <3>3, <3>4 DEF WatchInv, Shape
  <2> QED BY <2>1 DEF WatchInv, Shape, WatchTypeOK
<1> QED BY <1>1, JobsAgree, PTL

-----------------------------------------------------------------------------
(***************************************************************************)
(* The session: its invariant.                                             *)
(***************************************************************************)
USE DEF flags, timers, clientVars, Master!process, Master!links, Master!tables,
  Master!requests, Master!history

\* What the client writes.
ClientMessages == [kind : {"register", "request", "notify", "disconnect"}, n : Nat]

\* Those of them that a module serves.
Served == {"request", "notify"}

ClientShape ==
  /\ AdminTypeOK
  /\ socket \in Conns \cup {NONE}
  /\ wrote \in [Conns -> Seq(ClientMessages)]

MasterShape ==
  /\ agentState \in {"STARTED", "CRASHED"}
  /\ sock \in [Conns -> {"open", "closed"}]
  /\ registered \subseteq Conns
  /\ sent \in [Conns -> Seq(Master!Message)]

NetworkShape ==
  /\ heard \in [Conns -> Nat]
  /\ taken \in [Conns -> Nat]
  /\ cut \subseteq Conns

\* A callback is called at most once, and not while it is stored.
CalledInv ==
  \A n \in Asks :
    /\ got[n] \in 0..1
    /\ n \in cCallbacks => n < cReqId
    /\ n \in cCallbacks \/ n >= cReqId => got[n] = 0

\* A stream that is registered has not ended.
RegisteredOpen == \A c \in registered : sock[c] = "open"

\* The ids a request or a notification has.  Those that are left are between the two.
Used(n) == n < cReqId \/ n > MaxAsks - told

IdsApart ==
  /\ cReqId + told <= MaxAsks + 1
  /\ \A n \in Asks : ~Used(n) => on[n] = NONE

\* What is served was asked on a stream that is registered, unless that has ended.
ServedWhereAsked ==
  \A n \in Asks :
    command[n] # "none" => Used(n) /\ (on[n] = NONE \/ on[n] \in registered)

\* Answers are written to the stream of the request.
AnsweredOn ==
  \A c \in Conns : \A n \in Asks :
    Response(n) \in ToSet(sent[c]) => command[n] # "none" /\ on[n] = c

\* Requests are on no other stream than theirs.
WrittenOn ==
  \A c \in Conns : \A i \in DOMAIN wrote[c] :
    wrote[c][i].kind \in Served =>
      /\ wrote[c][i].n \in Asks
      /\ Used(wrote[c][i].n)
      /\ on[wrote[c][i].n] \in {c, NONE}

RouteInv == RegisteredOpen /\ IdsApart /\ ServedWhereAsked /\ AnsweredOn /\ WrittenOn

SessionInv ==
  ClientShape /\ MasterShape /\ NetworkShape /\ CalledInv /\ RouteInv /\ WatchInv

-----------------------------------------------------------------------------
(***************************************************************************)
(* Writing.                                                                *)
(***************************************************************************)
\* The members of a sequence with another one behind it.
LEMMA ToSetOfConcat ==
  ASSUME NEW S, NEW a \in Seq(S), NEW b \in Seq(S)
  PROVE  ToSet(a \o b) \subseteq ToSet(a) \cup ToSet(b)
<1> SUFFICES ASSUME NEW i \in 1..(Len(a) + Len(b))
             PROVE  (a \o b)[i] \in ToSet(a) \cup ToSet(b)
  BY DEF ToSet
<1>1. CASE i <= Len(a)
  BY <1>1 DEF ToSet
<1>2. CASE i > Len(a)
  BY <1>2 DEF ToSet
<1> QED BY <1>1, <1>2

\* After a write a stream has what it had and, if it is the one written to, the rest.
LEMMA PutContents ==
  ASSUME MasterShape, NEW c, NEW ms \in Seq(Master!Message), Master!Put(c, ms)
  PROVE  /\ sent' \in [Conns -> Seq(Master!Message)]
         /\ \A d \in Conns :
              ToSet(sent'[d]) \subseteq ToSet(sent[d]) \cup (IF d = c THEN ToSet(ms) ELSE {})
<1>1. sent' \in [Conns -> Seq(Master!Message)]
  <2>1. \A d \in Conns : sent[d] \o ms \in Seq(Master!Message)
    BY DEF MasterShape
  <2> QED BY <2>1 DEF Master!Put, MasterShape
<1>2. ASSUME NEW d \in Conns
      PROVE  ToSet(sent'[d]) \subseteq ToSet(sent[d]) \cup (IF d = c THEN ToSet(ms) ELSE {})
  <2>1. sent[d] \in Seq(Master!Message)
    BY DEF MasterShape
  <2>2. ToSet(sent[d] \o ms) \subseteq ToSet(sent[d]) \cup ToSet(ms)
    BY <2>1, ToSetOfConcat
  <2>3. sent'[d] = sent[d] \/ (d = c /\ sent'[d] = sent[d] \o ms)
    BY DEF Master!Put, MasterShape
  <2> QED BY <2>2, <2>3
<1> QED BY <1>1, <1>2

\* The master's replies are no answers.
LEMMA Replies ==
  /\ <<Master!Register(Master!PRO_OK)>> \in Seq(Master!Message)
  /\ <<Master!Disconnect>> \in Seq(Master!Message)
  /\ \A reply \in {<<>>, <<Master!Register(Master!PRO_FAIL)>>} :
       reply \o <<Master!Disconnect>> \in Seq(Master!Message)
  /\ \A n \in Asks :
       /\ Response(n) \notin ToSet(<<Master!Register(Master!PRO_OK)>>)
       /\ Response(n) \notin ToSet(<<Master!Disconnect>>)
       /\ \A reply \in {<<>>, <<Master!Register(Master!PRO_FAIL)>>} :
            Response(n) \notin ToSet(reply \o <<Master!Disconnect>>)
<1> DEFINE ok == Master!Register(Master!PRO_OK)
           fail == Master!Register(Master!PRO_FAIL)
           bye == Master!Disconnect
<1>1. /\ ok \in Master!Message /\ ok.kind = "register"
      /\ fail \in Master!Message /\ fail.kind = "register"
      /\ bye \in Master!Message /\ bye.kind = "disconnect"
  BY DEF Master!Register, Master!PRO_OK, Master!PRO_FAIL, Master!Disconnect, Master!Plain,
     Master!Message, Master!Kinds
<1>2. \A n : Response(n).kind = "response"
  BY DEF Response
<1> HIDE DEF ok, fail, bye
<1>3. /\ ToSet(<<>>) = {} /\ ToSet(<<ok>>) = {ok}
      /\ ToSet(<<fail>>) = {fail} /\ ToSet(<<bye>>) = {bye}
  <2>1. \A a : ToSet(<<a>>) = {a}
    BY DEF ToSet
  <2>2. ToSet(<<>>) = {}
    BY DEF ToSet
  <2> QED BY <2>1, <2>2
<1>4. \A n : Response(n) \notin {ok, fail, bye}
  BY <1>1, <1>2
<1>5. <<ok>> \in Seq(Master!Message) /\ \A n : Response(n) \notin ToSet(<<ok>>)
  BY <1>1, <1>3, <1>4
<1>6. <<bye>> \in Seq(Master!Message) /\ \A n : Response(n) \notin ToSet(<<bye>>)
  BY <1>1, <1>3, <1>4
<1>7. ASSUME NEW reply \in {<<>>, <<fail>>}
      PROVE  /\ reply \o <<bye>> \in Seq(Master!Message)
             /\ \A n : Response(n) \notin ToSet(reply \o <<bye>>)
  <2>1. reply \in Seq(Master!Message) /\ \A n : Response(n) \notin ToSet(reply)
    BY <1>1, <1>3, <1>4
  <2>2. ToSet(reply \o <<bye>>) \subseteq ToSet(reply) \cup ToSet(<<bye>>)
    BY <1>6, <2>1, ToSetOfConcat
  <2> QED BY <1>6, <2>1, <2>2
<1> QED BY <1>5, <1>6, <1>7, Zenon DEF ok, fail, bye

\* The answers to one request.
LEMMA CallsOf ==
  ASSUME NEW j \in Asks, called'[j] - called[j] \in Nat
  PROVE  Calls(j) \in Seq(Master!Message) /\ ToSet(Calls(j)) \subseteq {Response(j)}
<1>1. Response(j) \in Master!Message
  BY AskAssumption DEF Response, Master!Message, Master!Kinds, Asks
<1>2. \A k \in Nat : [i \in 1..k |-> Response(j)] \in Seq(Master!Message)
  BY <1>1
<1>3. \A k \in Nat : ToSet([i \in 1..k |-> Response(j)]) \subseteq {Response(j)}
  BY DEF ToSet
<1> QED BY <1>2, <1>3 DEF Calls

\* What a module calls back with is written to the stream of the request.
LEMMA CallsWritten ==
  ASSUME MasterShape, NEW j \in Asks, called'[j] - called[j] \in Nat, WriteCalls(j)
  PROVE  /\ sent' \in [Conns -> Seq(Master!Message)]
         /\ \A d \in Conns :
              \A n \in Asks : Response(n) \in ToSet(sent'[d]) =>
                Response(n) \in ToSet(sent[d]) \/ (n = j /\ on[j] = d)
<1>1. CASE on[j] = NONE
  BY <1>1 DEF WriteCalls, MasterShape
<1>2. CASE on[j] # NONE
  <2>1. Master!Put(on[j], Calls(j))
    BY <1>2 DEF WriteCalls
  <2>2. \A n : Response(n) = Response(j) => n = j
    BY DEF Response
  <2>3. Calls(j) \in Seq(Master!Message) /\ ToSet(Calls(j)) \subseteq {Response(j)}
    BY CallsOf
  <2>4. /\ sent' \in [Conns -> Seq(Master!Message)]
        /\ \A d \in Conns :
             ToSet(sent'[d]) \subseteq
               ToSet(sent[d]) \cup (IF d = on[j] THEN ToSet(Calls(j)) ELSE {})
    BY <2>1, <2>3, PutContents
  <2> QED BY <2>2, <2>3, <2>4
<1> QED BY <1>1, <1>2

-----------------------------------------------------------------------------
(***************************************************************************)
(* The client's part.                                                      *)
(***************************************************************************)
\* After a write a stream has what it had, and the message if it has not ended.
LEMMA WriteContents ==
  ASSUME ClientShape, NEW c \in Conns, NEW m \in ClientMessages, Write(c, m)
  PROVE  /\ wrote' \in [Conns -> Seq(ClientMessages)]
         /\ \A d \in Conns : \A i \in DOMAIN wrote'[d] :
              \/ i \in DOMAIN wrote[d] /\ wrote'[d][i] = wrote[d][i]
              \/ d = c /\ stream[c] # "ended" /\ wrote'[d][i] = m
<1>1. wrote' \in [Conns -> Seq(ClientMessages)]
  BY DEF Write, ClientShape
<1>2. ASSUME NEW d \in Conns, NEW i \in DOMAIN wrote'[d]
      PROVE  \/ i \in DOMAIN wrote[d] /\ wrote'[d][i] = wrote[d][i]
             \/ d = c /\ stream[c] # "ended" /\ wrote'[d][i] = m
  <2>1. wrote[d] \in Seq(ClientMessages)
    BY DEF ClientShape
  <2>2. wrote'[d] = wrote[d] \/ (d = c /\ stream[c] # "ended" /\ wrote'[d] = Append(wrote[d], m))
    BY DEF Write, ClientShape
  <2> QED BY <2>1, <2>2
<1> QED BY <1>1, <1>2

\* What this.socket is after an event.
LEMMA SocketKept ==
  ASSUME ClientShape,
         OnSocketClose \/ UNCHANGED socket \/ \E c \in Conns : Connect(c) \/ Connack(c)
  PROVE  socket' \in Conns \cup {NONE}
BY DEF ClientShape, OnSocketClose, Connect, Connack

\* The client registers when it is connected, notifies and asks, and says when it closes.
LEMMA Messages ==
  /\ Said("register", 0) \in ClientMessages /\ Said("register", 0).kind \notin Served
  /\ Said("disconnect", 0) \in ClientMessages /\ Said("disconnect", 0).kind \notin Served
  /\ \A n \in Asks : Said("notify", n) \in ClientMessages
  /\ \A n \in Asks : Said("request", n) \in ClientMessages
BY AskAssumption DEF Said, ClientMessages, Served, Asks

\* A request stores its callback under a new id.
LEMMA AskKeeps ==
  ASSUME ClientShape, CalledInv, Ask
  PROVE  ClientShape' /\ CalledInv' /\ cReqId \in Asks
<1>1. cReqId \in Asks /\ cReqId + 1 \in 1..(MaxAsks + 1)
  BY AskAssumption DEF Ask, ClientShape, AdminTypeOK, Asks
<1>2. wrote' \in [Conns -> Seq(ClientMessages)]
  <2>1. CASE socket # NONE
    <3>1. socket \in Conns /\ Write(socket, Said("request", cReqId))
      BY <2>1 DEF Ask, ApiSend, ClientShape
    <3> QED BY <1>1, <3>1, Messages, WriteContents
  <2>2. CASE socket = NONE
    BY <2>2 DEF Ask, ApiSend, ClientShape
  <2> QED BY <2>1, <2>2
<1>3. AdminTypeOK'
  BY <1>1 DEF Ask, ClientShape, AdminTypeOK
<1>4. CalledInv'
  BY <1>1, AskAssumption DEF Ask, CalledInv, ClientShape, AdminTypeOK, Asks
<1> QED BY <1>1, <1>2, <1>3, <1>4 DEF Ask, ClientShape

\* A notification stores nothing.
LEMMA NotifyKeeps ==
  ASSUME ClientShape, CalledInv, NotifyMaster
  PROVE  ClientShape' /\ CalledInv' /\ MaxAsks - told \in Asks
<1>0. MaxAsks - told \in Asks
  BY AskAssumption DEF NotifyMaster, ClientShape, AdminTypeOK, Asks
<1>1. wrote' \in [Conns -> Seq(ClientMessages)]
  <2>1. CASE socket # NONE
    <3>1. socket \in Conns /\ Write(socket, Said("notify", MaxAsks - told))
      BY <2>1 DEF NotifyMaster, ApiSend, ClientShape
    <3> QED BY <1>0, <3>1, Messages, WriteContents
  <2>2. CASE socket = NONE
    BY <2>2 DEF NotifyMaster, ApiSend, ClientShape
  <2> QED BY <2>1, <2>2
<1>2. AdminTypeOK'
  BY AskAssumption DEF NotifyMaster, ClientShape, AdminTypeOK
<1> QED BY <1>0, <1>1, <1>2 DEF NotifyMaster, CalledInv, ClientShape

\* The keepalive pings, or closes the client.
LEMMA KeepAliveKeeps ==
  ASSUME ClientShape, CalledInv, KeepAlive, UNCHANGED adminVars
  PROVE  ClientShape' /\ CalledInv'
<1>1. socket' = socket
  BY DEF KeepAlive, Ping, PingOverdue, CloseClient
<1>2. wrote' \in [Conns -> Seq(ClientMessages)]
  <2>1. CASE wrote' = wrote
    BY <2>1 DEF ClientShape
  <2>2. CASE socket \in Conns /\ Write(socket, Said("disconnect", 0))
    BY <2>2, Messages, WriteContents
  <2> QED BY <2>1, <2>2 DEF KeepAlive, ApiSend, ClientShape
<1> QED BY <1>1, <1>2 DEF adminVars, ClientShape, AdminTypeOK, CalledInv

\* CONNACK, after which a client that was never connected registers.
LEMMA ConnackKeeps ==
  ASSUME ClientShape, CalledInv, NEW c \in Conns, OnConnackAdmin(c)
  PROVE  ClientShape' /\ CalledInv'
<1>1. socket' = socket
  BY DEF OnConnackAdmin, Connack
<1>2. wrote' \in [Conns -> Seq(ClientMessages)]
  <2>1. CASE wrote' = wrote
    BY <2>1 DEF ClientShape
  <2>2. CASE socket \in Conns /\ Write(socket, Said("register", 0))
    BY <2>2, Messages, WriteContents
  <2> QED BY <2>1, <2>2 DEF OnConnackAdmin, DoSend, ClientShape
<1>3. AdminTypeOK'
  BY DEF OnConnackAdmin, ClientShape, AdminTypeOK
<1> QED BY <1>1, <1>2, <1>3 DEF OnConnackAdmin, CalledInv, ClientShape

\* An answer takes its callback, so that the next one finds none.
LEMMA ResponseKeeps ==
  ASSUME ClientShape, CalledInv, NEW n, OnResponse(n)
  PROVE  ClientShape' /\ CalledInv'
<1>1. AdminTypeOK'
  BY DEF OnResponse, ClientShape, AdminTypeOK
<1>2. ASSUME NEW k \in Asks
      PROVE  /\ got'[k] \in 0..1
             /\ k \in cCallbacks' => k < cReqId'
             /\ k \in cCallbacks' \/ k >= cReqId' => got'[k] = 0
  <2>1. /\ got[k] \in 0..1 /\ cReqId \in Nat
        /\ k \in cCallbacks => k < cReqId /\ got[k] = 0
        /\ k >= cReqId => got[k] = 0
    BY DEF CalledInv, ClientShape, AdminTypeOK
  <2>2. /\ got'[k] = IF n \in cCallbacks /\ k = n THEN got[k] + 1 ELSE got[k]
        /\ cCallbacks' = cCallbacks \ {n} /\ cReqId' = cReqId
    BY DEF OnResponse, ClientShape, AdminTypeOK
  <2> QED BY <2>1, <2>2 DEF Asks
<1> QED BY <1>1, <1>2 DEF OnResponse, ClientShape, CalledInv

\* Every step keeps the client's part.
LEMMA ClientKeeps ==
  ASSUME ClientShape, CalledInv, [Next]_vars
  PROVE  ClientShape' /\ CalledInv'
<1>1. ASSUME NEW c \in Conns, Open(c) PROVE ClientShape' /\ CalledInv'
  <2>1. socket' \in Conns \cup {NONE} /\ UNCHANGED <<adminVars, wrote>>
    BY <1>1, SocketKept DEF Open, ConnectAdmin, ReconnectAdmin, FirstConnect, ReconnectTimer
  <2> QED BY <2>1 DEF adminVars, ClientShape, AdminTypeOK, CalledInv
<1>2. ASSUME NEW c \in Conns, Acknowledge(c) PROVE ClientShape' /\ CalledInv'
  BY <1>2, ConnackKeeps DEF Acknowledge
<1>3. ASSUME NEW c \in Conns, ClientNotices(c) PROVE ClientShape' /\ CalledInv'
  <2>1. socket' \in Conns \cup {NONE} /\ wrote' \in [Conns -> Seq(ClientMessages)]
    BY <1>3, SocketKept DEF ClientNotices, StreamEnds, Forget, ClientShape
  <2>2. on' \in [Asks -> Conns \cup {NONE}]
    BY <1>3 DEF ClientNotices, LostWith, ClientShape, AdminTypeOK
  <2> QED BY <1>3, <2>1, <2>2 DEF ClientNotices, ClientShape, AdminTypeOK, CalledInv
<1>4. ASSUME NEW c \in Conns, MasterNotices(c) PROVE ClientShape' /\ CalledInv'
  <2>1. on' \in [Asks -> Conns \cup {NONE}]
    BY <1>4 DEF MasterNotices, LostWith, ClientShape, AdminTypeOK
  <2> QED BY <1>4, <2>1 DEF MasterNotices, ClientShape, AdminTypeOK, CalledInv
<1>5. ASSUME NEW c \in Conns, ClientReads(c) PROVE ClientShape' /\ CalledInv'
  <2> DEFINE m == ToClient(c)
  <2>1. CASE OnRegister(m.n = Master!PRO_OK)
    BY <2>1 DEF OnRegister, ClientShape, AdminTypeOK, CalledInv
  <2>2. CASE OnResponse(m.n)
    BY <2>2, ResponseKeeps
  <2>3. CASE OnKickedAdmin(c)
    <3>1. socket' \in Conns \cup {NONE}
      BY <2>3, SocketKept DEF OnKickedAdmin, DisconnectPacket
    <3> QED BY <2>3, <3>1 DEF OnKickedAdmin, ClientShape, AdminTypeOK, CalledInv
  <2> QED BY <1>5, <2>1, <2>2, <2>3 DEF ClientReads
<1>6. CASE ClientCalls
  <2>1. CASE ConnectTimeout /\ UNCHANGED <<wrote, adminVars>>
    BY <2>1 DEF ConnectTimeout, adminVars, ClientShape, AdminTypeOK, CalledInv
  <2> QED BY <1>6, <2>1, AskKeeps, NotifyKeeps, KeepAliveKeeps DEF ClientCalls
<1>7. CASE UNCHANGED clientSide
  BY <1>7 DEF clientSide, adminVars, ClientShape, AdminTypeOK, CalledInv
<1> QED BY <1>1, <1>2, <1>3, <1>4, <1>5, <1>6, <1>7
  DEF Next, Accept, Cut, MasterReads, Answers, vars

-----------------------------------------------------------------------------
(***************************************************************************)
(* The master's part.                                                      *)
(***************************************************************************)
\* There are no monitors here: the end of a connection brings no master down.
LEMMA NoMonitors ==
  ASSUME NEW c
  PROVE  ~Master!ComparesNoInfo(c)
BY DEF Master!ComparesNoInfo, Master!MonitorPeers

\* The end of a connection.
LEMMA DisconnectEffect ==
  ASSUME MasterShape, NEW c \in Conns, Master!OnDisconnect(c)
  PROVE  /\ UNCHANGED <<agentState, listening>>
         /\ sock' = [sock EXCEPT ![c] = "closed"]
         /\ registered' = registered \ {c}
         /\ sent' = [sent EXCEPT ![c] = <<>>]
BY NoMonitors DEF Master!OnDisconnect

\* A client registers, or not.
LEMMA RegisterEffect ==
  ASSUME MasterShape, NEW c \in Conns, sock[c] = "open", NEW p, Master!RegisterClient(c, p)
  PROVE  /\ UNCHANGED <<agentState, listening, sock>>
         /\ registered' = registered \/ registered' = registered \cup {c}
         /\ sent' \in [Conns -> Seq(Master!Message)]
         /\ \A d \in Conns : \A n \in Asks :
              Response(n) \in ToSet(sent'[d]) => Response(n) \in ToSet(sent[d])
<1>1. UNCHANGED <<agentState, listening, sock>>
  BY DEF Master!RegisterClient
<1>2. /\ registered' = registered \/ registered' = registered \cup {c}
      /\ \E ms \in Seq(Master!Message) :
           Master!Put(c, ms) /\ \A n \in Asks : Response(n) \notin ToSet(ms)
  <2>1. CASE Master!AcceptClient(c, p)
    BY <2>1, Replies DEF Master!AcceptClient
  <2>2. CASE Master!RefuseClient(c)
    BY <2>2, Replies DEF Master!RefuseClient
  <2> QED BY <2>1, <2>2 DEF Master!RegisterClient
<1> QED BY <1>1, <1>2, PutContents

\* A peer that is not registered is told so.
LEMMA KickEffect ==
  ASSUME MasterShape, NEW c \in Conns, KickUnregistered(c)
  PROVE  /\ UNCHANGED <<agentState, listening, sock, registered>>
         /\ sent' \in [Conns -> Seq(Master!Message)]
         /\ \A d \in Conns : \A n \in Asks :
              Response(n) \in ToSet(sent'[d]) => Response(n) \in ToSet(sent[d])
<1>1. /\ UNCHANGED <<agentState, listening, sock, registered>>
      /\ Master!Put(c, <<Master!Disconnect>>)
  BY DEF KickUnregistered, Master!Kick
<1> QED BY <1>1, Replies, PutContents

\* No step takes a callback back: not when a request is served, ...
LEMMA ServeCalls ==
  ASSUME Shape, NEW j \in Jobs, NEW cmd \in Commands, NEW s \in Servers, Serve(j, cmd, s)
  PROVE  called'[j] - called[j] \in Nat /\ agentState' \in {agentState, "CRASHED"}
<1>1. called[j] \in Nat /\ called \in [Jobs -> Nat]
  BY DEF Shape
<1>2. called' = called \/ CallBack(j, 1)
  BY DEF Serve, FanOut, Connections, Forward, ForwardScript
<1>3. called'[j] - called[j] \in Nat
  BY <1>1, <1>2 DEF CallBack
<1> QED BY <1>3 DEF Serve, FanOut, Connections, Forward, ForwardScript, Crash

\* ... not when an answer comes, ...
LEMMA AnswerCalls ==
  ASSUME Shape, NEW j \in Jobs, NEW s \in Servers, NEW ok \in BOOLEAN, OnAnswer(j, s, ok)
  PROVE  called'[j] - called[j] \in Nat /\ agentState' \in {agentState, "CRASHED"}
<1>1. called[j] \in Nat /\ called \in [Jobs -> Nat]
  BY DEF Shape
<1>2. called' = called \/ CallBack(j, 1) \/ CallBack(j, 0)
  BY DEF OnAnswer, Done
<1>3. called'[j] - called[j] \in Nat
  BY <1>1, <1>2 DEF CallBack
<1> QED BY <1>3 DEF OnAnswer, Done, Crash

\* ... and not when a file has been read.
LEMMA FileCalls ==
  ASSUME Shape, NEW j \in Jobs, OnFile(j)
  PROVE  called'[j] - called[j] \in Nat /\ agentState' = agentState
<1>1. called[j] \in Nat /\ called \in [Jobs -> Nat]
  BY DEF Shape
<1> PICK times \in 1..2 : called' = [called EXCEPT ![j] = @ + times]
  BY DEF OnFile, CallBack
<1> QED BY <1>1 DEF OnFile

\* What the master reads, and that it was written.
LEMMA ReadRequest ==
  ASSUME SessionInv, NEW c \in Conns, Takes(c), ToMaster(c).kind \in Served
  PROVE  /\ ToMaster(c).n \in Asks
         /\ Used(ToMaster(c).n)
         /\ on[ToMaster(c).n] \in {c, NONE}
<1>1. taken[c] \in Nat /\ wrote[c] \in Seq(ClientMessages)
  BY DEF SessionInv, NetworkShape, ClientShape
<1>2. taken[c] + 1 \in DOMAIN wrote[c]
  BY <1>1 DEF Takes
<1> QED BY <1>2 DEF ToMaster, SessionInv, RouteInv, WrittenOn

-----------------------------------------------------------------------------
(***************************************************************************)
(* Steps that ask and serve nothing: requests and answers stay where they  *)
(* are, or are lost with their stream.                                     *)
(***************************************************************************)
\* Such a step keeps the routes.
LEMMA NothingServed ==
  ASSUME SessionInv, UNCHANGED <<cReqId, told, command>>,
         \A c \in registered' : sock'[c] = "open",
         \A n \in Asks : on'[n] \in {on[n], NONE},
         \A n \in Asks : on'[n] # NONE /\ on[n] \in registered => on'[n] \in registered',
         \A c \in Conns : \A n \in Asks :
           Response(n) \in ToSet(sent'[c]) =>
             Response(n) \in ToSet(sent[c]) /\ on'[n] = on[n],
         \A c \in Conns : \A i \in DOMAIN wrote'[c] :
           wrote'[c][i].kind \in Served =>
             i \in DOMAIN wrote[c] /\ wrote'[c][i] = wrote[c][i]
  PROVE  RouteInv'
<1>1. RegisteredOpen' /\ IdsApart'
  BY DEF RegisteredOpen, IdsApart, Used, SessionInv, RouteInv
<1>2. ServedWhereAsked'
  BY DEF ServedWhereAsked, Used, SessionInv, RouteInv
<1>3. AnsweredOn'
  <2>1. \A n : Response(n)' = Response(n)
    BY DEF Response
  <2> QED BY <2>1 DEF AnsweredOn, SessionInv, RouteInv
<1>4. WrittenOn'
  <2> SUFFICES ASSUME NEW c \in Conns, NEW i \in DOMAIN wrote'[c], wrote'[c][i].kind \in Served
               PROVE  /\ wrote'[c][i].n \in Asks
                      /\ (wrote'[c][i].n < cReqId' \/ wrote'[c][i].n > MaxAsks - told')
                      /\ on'[wrote'[c][i].n] \in {c, NONE}
    BY DEF WrittenOn, Used
  <2>1. i \in DOMAIN wrote[c] /\ wrote'[c][i] = wrote[c][i]
    OBVIOUS
  <2>2. /\ wrote[c][i].n \in Asks
        /\ (wrote[c][i].n < cReqId \/ wrote[c][i].n > MaxAsks - told)
        /\ on[wrote[c][i].n] \in {c, NONE}
    BY <2>1 DEF WrittenOn, Used, SessionInv, RouteInv
  <2> QED BY <2>1, <2>2
<1> QED BY <1>1, <1>2, <1>3, <1>4 DEF RouteInv

\* It is enough that the client writes no request, and the master no answer.
LEMMA QuietKeeps ==
  ASSUME SessionInv, UNCHANGED <<cReqId, told, command, on>>,
         registered \subseteq registered',
         \A c \in registered' : sock'[c] = "open",
         \A c \in Conns : \A n \in Asks :
           Response(n) \in ToSet(sent'[c]) => Response(n) \in ToSet(sent[c]),
         \A c \in Conns : \A i \in DOMAIN wrote'[c] :
           wrote'[c][i].kind \in Served =>
             i \in DOMAIN wrote[c] /\ wrote'[c][i] = wrote[c][i]
  PROVE  RouteInv'
BY NothingServed

\* A stream has ended: what was asked on it and not answered is lost.
LEMMA ClientNoticesKeeps ==
  ASSUME SessionInv, NEW c \in Conns, ClientNotices(c)
  PROVE  RouteInv'
<1>1. UNCHANGED <<cReqId, told, command, registered, sock, sent>>
  BY DEF ClientNotices, masterVars, modulesVars
<1>2. \A d \in registered : sock[d] = "open"
  BY DEF SessionInv, RouteInv, RegisteredOpen
<1>3. on \in [Asks -> Conns \cup {NONE}]
  BY DEF SessionInv, ClientShape, AdminTypeOK
<1>4. \A n \in Asks : on'[n] = on[n] \/ (on'[n] = NONE /\ on[n] = c /\ sock[c] = "closed")
  BY <1>3 DEF ClientNotices, LostWith
<1>5. \A d \in Conns : \A n \in Asks : Response(n) \in ToSet(sent[d]) => on'[n] = on[n]
  <2> SUFFICES ASSUME NEW d \in Conns, NEW n \in Asks, Response(n) \in ToSet(sent[d]),
                      on'[n] # on[n]
               PROVE  FALSE
    OBVIOUS
  <2>1. on[n] = c /\ sock[c] = "closed"
    BY <1>4
  <2>2. command[n] # "none"
    BY DEF SessionInv, RouteInv, AnsweredOn
  <2>3. c \in registered
    BY <2>1, <2>2, ClientAssumption DEF SessionInv, RouteInv, ServedWhereAsked
  <2> QED BY <1>2, <2>1, <2>3
<1>6. \A d \in Conns : \A i \in DOMAIN wrote'[d] :
        i \in DOMAIN wrote[d] /\ wrote'[d][i] = wrote[d][i]
  BY DEF ClientNotices, Forget, SessionInv, ClientShape
<1> QED BY <1>1, <1>2, <1>4, <1>5, <1>6, NothingServed

\* The master has seen the end: the stream is no longer registered.
LEMMA MasterNoticesKeeps ==
  ASSUME SessionInv, NEW c \in Conns, MasterNotices(c)
  PROVE  MasterShape' /\ RouteInv' /\ UNCHANGED watchVars
<1>1. /\ UNCHANGED <<cReqId, told, command, wrote, agentState, modulesVars>>
      /\ sock' = [sock EXCEPT ![c] = "closed"]
      /\ registered' = registered \ {c}
      /\ sent' = [sent EXCEPT ![c] = <<>>]
  BY DisconnectEffect DEF MasterNotices, modulesVars, SessionInv
<1>2. MasterShape'
  <2>1. <<>> \in Seq(Master!Message)
    OBVIOUS
  <2> QED BY <1>1, <2>1 DEF SessionInv, MasterShape
<1>3. \A d \in registered' : sock'[d] = "open"
  BY <1>1 DEF SessionInv, MasterShape, RouteInv, RegisteredOpen
<1>4. on \in [Asks -> Conns \cup {NONE}]
  BY DEF SessionInv, ClientShape, AdminTypeOK
<1>5. \A n \in Asks : on'[n] = IF on[n] = c THEN NONE ELSE on[n]
  BY <1>4 DEF MasterNotices, LostWith
<1>6. ASSUME NEW d \in Conns, NEW n \in Asks, Response(n) \in ToSet(sent'[d])
      PROVE  Response(n) \in ToSet(sent[d]) /\ on'[n] = on[n]
  <2>1. d # c /\ Response(n) \in ToSet(sent[d])
    <3>1. ToSet(<<>>) = {}
      BY DEF ToSet
    <3> QED BY <1>1, <1>6, <3>1 DEF SessionInv, MasterShape
  <2>2. on[n] = d
    BY <2>1 DEF SessionInv, RouteInv, AnsweredOn
  <2> QED BY <1>5, <2>1, <2>2
<1>7. RouteInv'
  BY <1>1, <1>3, <1>5, <1>6, NothingServed
<1> QED BY <1>1, <1>2, <1>7 DEF watchVars, modulesVars

-----------------------------------------------------------------------------
(***************************************************************************)
(* Asking.                                                                 *)
(***************************************************************************)
\* An id that nothing has used is taken: by what is on its stream and nowhere else.
LEMMA IssueRoutes ==
  ASSUME SessionInv, NEW j \in Asks, ~Used(j),
         UNCHANGED <<command, registered, sock, sent>>,
         cReqId' + told' <= MaxAsks + 1,
         \A n \in Asks : (n < cReqId' \/ n > MaxAsks - told') <=> Used(n) \/ n = j,
         \A n \in Asks : n # j => on'[n] = on[n],
         \A c \in Conns : \A i \in DOMAIN wrote'[c] : wrote'[c][i].kind \in Served =>
           \/ i \in DOMAIN wrote[c] /\ wrote'[c][i] = wrote[c][i]
           \/ wrote'[c][i].n = j /\ on'[j] \in {c, NONE}
  PROVE  RouteInv'
<1>1. command[j] = "none" /\ \A d \in Conns : Response(j) \notin ToSet(sent[d])
  <2>1. command[j] = "none"
    BY DEF SessionInv, RouteInv, ServedWhereAsked
  <2> QED BY <2>1 DEF SessionInv, RouteInv, AnsweredOn
<1>2. RegisteredOpen'
  BY DEF SessionInv, RouteInv, RegisteredOpen
<1>3. IdsApart'
  <2>1. \A n \in Asks : ~Used(n) => on[n] = NONE
    BY DEF SessionInv, RouteInv, IdsApart
  <2>2. \A n \in Asks : ~(n < cReqId' \/ n > MaxAsks - told') => on'[n] = NONE
    BY <2>1
  <2> QED BY <2>2 DEF IdsApart, Used
<1>4. ServedWhereAsked'
  <2> SUFFICES ASSUME NEW n \in Asks, command'[n] # "none"
               PROVE  /\ n < cReqId' \/ n > MaxAsks - told'
                      /\ on'[n] = NONE \/ on'[n] \in registered'
    BY DEF ServedWhereAsked, Used
  <2>1. command[n] # "none" /\ registered' = registered /\ n # j
    BY <1>1
  <2>2. Used(n) /\ (on[n] = NONE \/ on[n] \in registered)
    BY <2>1 DEF SessionInv, RouteInv, ServedWhereAsked
  <2> QED BY <2>1, <2>2
<1>5. AnsweredOn'
  <2>1. \A n : Response(n)' = Response(n)
    BY DEF Response
  <2> QED BY <1>1, <2>1 DEF SessionInv, RouteInv, AnsweredOn
<1>6. WrittenOn'
  <2> SUFFICES ASSUME NEW c \in Conns, NEW i \in DOMAIN wrote'[c], wrote'[c][i].kind \in Served
               PROVE  /\ wrote'[c][i].n \in Asks
                      /\ (wrote'[c][i].n < cReqId' \/ wrote'[c][i].n > MaxAsks - told')
                      /\ on'[wrote'[c][i].n] \in {c, NONE}
    BY DEF WrittenOn, Used
  <2>1. CASE i \in DOMAIN wrote[c] /\ wrote'[c][i] = wrote[c][i]
    <3>1. /\ wrote[c][i].n \in Asks
          /\ Used(wrote[c][i].n)
          /\ on[wrote[c][i].n] \in {c, NONE}
      BY <2>1 DEF SessionInv, RouteInv, WrittenOn
    <3>2. wrote[c][i].n # j
      BY <3>1
    <3> QED BY <2>1, <3>1, <3>2
  <2>2. CASE wrote'[c][i].n = j /\ on'[j] \in {c, NONE}
    BY <2>2
  <2> QED BY <2>1, <2>2
<1> QED BY <1>2, <1>3, <1>4, <1>5, <1>6 DEF RouteInv

\* A new request is on the stream it is written to, and nowhere else.
LEMMA AskRoutes ==
  ASSUME SessionInv, Ask, UNCHANGED <<masterVars, modulesVars>>
  PROVE  RouteInv'
<1>1. /\ UNCHANGED <<told, command, registered, sock, sent>>
      /\ cReqId' = cReqId + 1 /\ cReqId + told <= MaxAsks
      /\ on' = [on EXCEPT ![cReqId] =
                  IF socket # NONE /\ stream[socket] # "ended" THEN socket ELSE NONE]
  BY DEF Ask, masterVars, modulesVars
<1>2. cReqId \in Asks /\ cReqId \in Nat /\ told \in Nat /\ MaxAsks \in Nat
  BY AskKeeps, AskAssumption DEF SessionInv, ClientShape, AdminTypeOK, Asks
<1>3. on \in [Asks -> Conns \cup {NONE}] /\ \A n \in Asks : n \in Nat
  BY DEF SessionInv, ClientShape, AdminTypeOK, Asks
<1>4. /\ ~Used(cReqId) /\ cReqId' + told' <= MaxAsks + 1
      /\ \A n \in Asks : (n < cReqId' \/ n > MaxAsks - told') <=> Used(n) \/ n = cReqId
  BY <1>1, <1>2, <1>3 DEF Used
<1>5. \A n \in Asks : n # cReqId => on'[n] = on[n]
  BY <1>1, <1>3
<1>6. ASSUME NEW c \in Conns, NEW i \in DOMAIN wrote'[c],
             ~(i \in DOMAIN wrote[c] /\ wrote'[c][i] = wrote[c][i])
      PROVE  wrote'[c][i].n = cReqId /\ on'[cReqId] \in {c, NONE}
  <2>1. socket # NONE
    BY <1>6 DEF Ask, ApiSend
  <2>2. socket \in Conns /\ Write(socket, Said("request", cReqId))
    BY <2>1 DEF Ask, ApiSend, SessionInv, ClientShape
  <2>3. c = socket /\ stream[socket] # "ended" /\ wrote'[c][i] = Said("request", cReqId)
    BY <1>2, <1>6, <2>2, Messages, WriteContents DEF SessionInv
  <2> QED BY <1>1, <1>2, <1>3, <2>1, <2>3 DEF Said
<1> QED BY <1>1, <1>2, <1>4, <1>5, <1>6, IssueRoutes

\* A notification is on no stream: nobody waits for an answer.
LEMMA NotifyRoutes ==
  ASSUME SessionInv, NotifyMaster, UNCHANGED <<masterVars, modulesVars>>
  PROVE  RouteInv'
<1> DEFINE j == MaxAsks - told
<1>1. /\ UNCHANGED <<cReqId, on, command, registered, sock, sent>>
      /\ told' = told + 1 /\ cReqId + told <= MaxAsks
  BY DEF NotifyMaster, masterVars, modulesVars
<1>2. j \in Asks /\ cReqId \in Nat /\ told \in Nat /\ MaxAsks \in Nat
  BY NotifyKeeps, AskAssumption DEF SessionInv, ClientShape, AdminTypeOK, Asks
<1>3. \A n \in Asks : n \in Nat
  BY DEF Asks
<1>4. /\ ~Used(j) /\ cReqId' + told' <= MaxAsks + 1
      /\ \A n \in Asks : (n < cReqId' \/ n > MaxAsks - told') <=> Used(n) \/ n = j
  BY <1>1, <1>2, <1>3 DEF Used
<1>5. on'[j] = NONE /\ \A n \in Asks : on'[n] = on[n]
  BY <1>1, <1>2, <1>4 DEF SessionInv, RouteInv, IdsApart
<1>6. ASSUME NEW c \in Conns, NEW i \in DOMAIN wrote'[c],
             ~(i \in DOMAIN wrote[c] /\ wrote'[c][i] = wrote[c][i])
      PROVE  wrote'[c][i].n = j
  <2>1. socket \in Conns /\ Write(socket, Said("notify", j))
    BY <1>6 DEF NotifyMaster, ApiSend, SessionInv, ClientShape
  <2>2. Said("notify", j) \in ClientMessages
    BY <1>2, Messages
  <2> HIDE DEF j
  <2>3. wrote'[c][i] = Said("notify", j)
    BY <1>6, <2>1, <2>2, WriteContents DEF SessionInv
  <2> QED BY <2>3 DEF Said
<1> HIDE DEF j
<1> QED BY <1>1, <1>2, <1>4, <1>5, <1>6, IssueRoutes

-----------------------------------------------------------------------------
(***************************************************************************)
(* Serving and answering.                                                  *)
(***************************************************************************)
\* A job that was asked on a stream that is registered calls back.
LEMMA CallsRoute ==
  ASSUME SessionInv, NEW j \in Asks, UNCHANGED <<cReqId, told, on, wrote, sock, registered>>,
         command'[j] # "none", \A n \in Asks : n # j => command'[n] = command[n],
         Used(j), on[j] = NONE \/ on[j] \in registered,
         called'[j] - called[j] \in Nat, WriteCalls(j)
  PROVE  RouteInv' /\ sent' \in [Conns -> Seq(Master!Message)]
<1>1. /\ sent' \in [Conns -> Seq(Master!Message)]
      /\ \A d \in Conns : \A n \in Asks : Response(n) \in ToSet(sent'[d]) =>
           Response(n) \in ToSet(sent[d]) \/ (n = j /\ on[j] = d)
  BY CallsWritten DEF SessionInv
<1>2. RegisteredOpen' /\ IdsApart'
  BY DEF SessionInv, RouteInv, RegisteredOpen, IdsApart, Used
<1>3. ServedWhereAsked'
  BY DEF SessionInv, RouteInv, ServedWhereAsked, Used
<1>4. AnsweredOn'
  <2>1. \A n : Response(n)' = Response(n)
    BY DEF Response
  <2> QED BY <1>1, <2>1 DEF SessionInv, RouteInv, AnsweredOn
<1>5. WrittenOn'
  BY DEF SessionInv, RouteInv, WrittenOn, Used
<1> QED BY <1>1, <1>2, <1>3, <1>4, <1>5 DEF RouteInv

\* A request is served where it was asked.
LEMMA ServeRoutes ==
  ASSUME SessionInv, NEW j \in Asks, NEW cmd \in Commands, NEW s \in Servers,
         Serve(j, cmd, s), WriteCalls(j), UNCHANGED <<cReqId, told, on, wrote, sock, registered>>,
         Used(j), on[j] = NONE \/ on[j] \in registered
  PROVE  RouteInv' /\ MasterShape'
<1>1. called'[j] - called[j] \in Nat /\ agentState' \in {agentState, "CRASHED"}
  BY ServeCalls, SessionAssumption DEF SessionInv, WatchInv
<1>2. cmd # "none"
  BY DEF Commands, FanOuts
<1>3. command'[j] # "none" /\ \A n \in Asks : n # j => command'[n] = command[n]
  BY <1>2, SessionAssumption DEF Serve, SessionInv, WatchInv, Shape
<1> QED BY <1>1, <1>3, CallsRoute DEF SessionInv, MasterShape

\* Monitors and files answer later, wherever the client is by then.
LEMMA AnswersKeep ==
  ASSUME SessionInv, Answers
  PROVE  RouteInv' /\ MasterShape'
<1>1. UNCHANGED <<cReqId, told, on, wrote, listening, sock, registered>>
  BY DEF Answers, clientSide, adminVars
<1>2. ASSUME NEW j \in Asks, command[j] # "none", command' = command,
             called'[j] - called[j] \in Nat, WriteCalls(j)
      PROVE  RouteInv' /\ sent' \in [Conns -> Seq(Master!Message)]
  <2>1. Used(j) /\ (on[j] = NONE \/ on[j] \in registered)
    BY <1>2 DEF SessionInv, RouteInv, ServedWhereAsked
  <2> QED BY <1>1, <1>2, <2>1, CallsRoute
<1>3. ASSUME NEW s \in Servers, ServerComes(s) \/ ServerGoes(s), sent' = sent
      PROVE  RouteInv' /\ MasterShape'
  <2>1. command' = command /\ agentState' \in {agentState, "CRASHED"}
    BY <1>3 DEF ServerComes, ServerGoes, Crash
  <2>2. RouteInv'
    BY <1>1, <1>3, <2>1, QuietKeeps DEF SessionInv, RouteInv, RegisteredOpen
  <2> QED BY <1>1, <1>3, <2>1, <2>2 DEF SessionInv, MasterShape
<1>4. ASSUME NEW j \in Jobs, NEW s \in Servers, NEW ok \in BOOLEAN, OnAnswer(j, s, ok),
             WriteCalls(j)
      PROVE  RouteInv' /\ MasterShape'
  <2>1. called'[j] - called[j] \in Nat /\ agentState' \in {agentState, "CRASHED"}
    BY <1>4, AnswerCalls DEF SessionInv, WatchInv
  <2>2. command[j] # "none" /\ command' = command
    BY <1>4 DEF OnAnswer, FanOuts
  <2> QED BY <1>1, <1>2, <1>4, <2>1, <2>2, SessionAssumption DEF SessionInv, MasterShape
<1>5. ASSUME NEW j \in Jobs, OnFile(j), WriteCalls(j)
      PROVE  RouteInv' /\ MasterShape'
  <2>1. called'[j] - called[j] \in Nat /\ agentState' = agentState
    BY <1>5, FileCalls DEF SessionInv, WatchInv
  <2>2. command[j] # "none" /\ command' = command
    BY <1>5 DEF OnFile, SessionInv, WatchInv, JobInv, IdleInv
  <2> QED BY <1>1, <1>2, <1>5, <2>1, <2>2, SessionAssumption DEF SessionInv, MasterShape
<1> QED BY <1>3, <1>4, <1>5 DEF Answers

\* The master reads: a registration, a request or a notification.
LEMMA MasterReadsKeeps ==
  ASSUME SessionInv, NEW c \in Conns, MasterReads(c)
  PROVE  RouteInv' /\ MasterShape'
<1> DEFINE m == ToMaster(c)
<1>1. UNCHANGED <<cReqId, told, on, wrote>> /\ Takes(c) /\ sock[c] = "open"
  BY DEF MasterReads, clientSide, adminVars, Takes
<1>2. RegisteredOpen /\ MasterShape
  BY DEF SessionInv, RouteInv
<1>3. ASSUME UNCHANGED <<agentState, sock, command>>,
             registered' = registered \/ registered' = registered \cup {c},
             sent' \in [Conns -> Seq(Master!Message)],
             \A d \in Conns : \A n \in Asks :
               Response(n) \in ToSet(sent'[d]) => Response(n) \in ToSet(sent[d])
      PROVE  RouteInv' /\ MasterShape'
  <2>1. RouteInv'
    BY <1>1, <1>2, <1>3, QuietKeeps DEF RegisteredOpen
  <2> QED BY <1>2, <1>3, <2>1 DEF MasterShape
<1>4. CASE \E u \in Users :
             Master!RegisterClient(c, [kind |-> "client", id |-> u, addr |-> NONE])
           /\ UNCHANGED modulesVars
  <2>1. command' = command
    BY <1>4 DEF modulesVars
  <2> QED BY <1>1, <1>2, <1>3, <1>4, <2>1, RegisterEffect
<1>5. ASSUME m.kind \in Served, c \in registered,
             NEW cmd \in Commands, NEW s \in Servers, Serve(m.n, cmd, s), WriteCalls(m.n),
             UNCHANGED <<listening, sock, peer, registered, clients>>
      PROVE  RouteInv' /\ MasterShape'
  <2>1. m.n \in Asks /\ Used(m.n) /\ on[m.n] \in {c, NONE}
    BY <1>1, <1>5, ReadRequest
  <2> HIDE DEF m
  <2> QED BY <1>1, <1>5, <2>1, ServeRoutes
<1>6. CASE KickUnregistered(c) /\ UNCHANGED modulesVars
  <2>1. command' = command
    BY <1>6 DEF modulesVars
  <2> QED BY <1>2, <1>3, <1>6, <2>1, KickEffect
<1> QED BY <1>4, <1>5, <1>6 DEF MasterReads, Served

-----------------------------------------------------------------------------
(***************************************************************************)
(* Every step.                                                             *)
(***************************************************************************)
\* What the client does besides asking, and what happens to the streams.
LEMMA OthersKeep ==
  ASSUME SessionInv, NEW c \in Conns,
         Open(c) \/ Accept(c) \/ Acknowledge(c) \/ Cut(c) \/ ClientReads(c)
  PROVE  RouteInv' /\ MasterShape' /\ UNCHANGED watchVars
<1>1. UNCHANGED <<cReqId, told, on, agentState, modulesVars, registered, sent>>
  BY DEF Open, ConnectAdmin, ReconnectAdmin, Accept, Master!Connection, Acknowledge,
     OnConnackAdmin, Cut, ClientReads, OnRegister, OnResponse, OnKickedAdmin, clientSide,
     adminVars, masterVars
<1>2. /\ sock' \in [Conns -> {"open", "closed"}]
      /\ \A d \in Conns : sock[d] = "open" => sock'[d] = "open"
  <2>1. sock' = sock \/ sock' = [sock EXCEPT ![c] = "open"]
    BY DEF Open, Accept, Master!Connection, Acknowledge, Cut, ClientReads, masterVars
  <2> QED BY <2>1 DEF SessionInv, MasterShape
<1>3. MasterShape'
  BY <1>1, <1>2 DEF SessionInv, MasterShape
<1>4. \A d \in Conns : \A i \in DOMAIN wrote'[d] :
        wrote'[d][i].kind \in Served => i \in DOMAIN wrote[d] /\ wrote'[d][i] = wrote[d][i]
  <2>1. CASE wrote' = wrote
    BY <2>1
  <2>2. CASE socket \in Conns /\ Write(socket, Said("register", 0))
    BY <2>2, Messages, WriteContents DEF SessionInv
  <2> QED BY <2>1, <2>2
    DEF Open, ConnectAdmin, ReconnectAdmin, Accept, Acknowledge, OnConnackAdmin, DoSend, Cut,
        ClientReads, OnRegister, OnResponse, OnKickedAdmin, clientSide, SessionInv, ClientShape
<1>5. command' = command
  BY <1>1 DEF modulesVars
<1>6. \A d \in registered' : sock'[d] = "open"
  BY <1>1, <1>2 DEF SessionInv, MasterShape, RouteInv, RegisteredOpen
<1>7. RouteInv'
  BY <1>1, <1>4, <1>5, <1>6, QuietKeeps
<1> QED BY <1>1, <1>3, <1>7 DEF watchVars, modulesVars

\* What the client's owner calls, and the timeout of connecting.
LEMMA ClientCallsKeep ==
  ASSUME SessionInv, ClientCalls
  PROVE  RouteInv' /\ MasterShape' /\ UNCHANGED watchVars
<1>1. UNCHANGED <<masterVars, modulesVars>>
  BY DEF ClientCalls
<1>2. MasterShape' /\ UNCHANGED <<command, registered, sock, sent, watchVars>>
  BY <1>1 DEF masterVars, modulesVars, watchVars, SessionInv, MasterShape
<1>3. CASE ConnectTimeout /\ UNCHANGED <<wrote, adminVars>>
  BY <1>2, <1>3, QuietKeeps DEF adminVars, SessionInv, RouteInv, RegisteredOpen
<1>4. CASE Ask
  BY <1>1, <1>2, <1>4, AskRoutes
<1>5. CASE NotifyMaster
  BY <1>1, <1>2, <1>5, NotifyRoutes
<1>6. CASE KeepAlive /\ UNCHANGED adminVars
  <2>1. UNCHANGED <<cReqId, told, on>>
    BY <1>6 DEF adminVars
  <2>2. \A d \in Conns : \A i \in DOMAIN wrote'[d] :
          wrote'[d][i].kind \in Served => i \in DOMAIN wrote[d] /\ wrote'[d][i] = wrote[d][i]
    <3>1. CASE wrote' = wrote
      BY <3>1
    <3>2. CASE socket \in Conns /\ Write(socket, Said("disconnect", 0))
      BY <3>2, Messages, WriteContents DEF SessionInv
    <3> QED BY <1>6, <3>1, <3>2 DEF KeepAlive, ApiSend, SessionInv, ClientShape
  <2> QED BY <1>2, <2>1, <2>2, QuietKeeps DEF SessionInv, RouteInv, RegisteredOpen
<1> QED BY <1>2, <1>3, <1>4, <1>5, <1>6 DEF ClientCalls

\* The streams keep their types.
LEMMA NetworkKeeps ==
  ASSUME NetworkShape, [Next]_vars
  PROVE  NetworkShape'
<1>1. ASSUME NEW c \in Conns,
             CutOff(c) \/ ClientSeesEnd(c) \/ MasterSeesEnd(c) \/ Hears(c) \/ Takes(c)
      PROVE  NetworkShape'
  BY <1>1 DEF CutOff, ClientSeesEnd, MasterSeesEnd, Hears, Takes, NetworkShape
<1>2. CASE UNCHANGED network
  BY <1>2 DEF network, NetworkShape
<1> QED BY <1>1, <1>2
  DEF Next, Open, Accept, Acknowledge, Cut, ClientNotices, MasterNotices, ClientReads,
      MasterReads, Answers, ClientCalls, vars

\* The modules take a step of theirs, or none.
LEMMA ModulesStep ==
  ASSUME SessionInv, [Next]_vars
  PROVE  [WatchNext]_watchVars
<1>1. ASSUME agentState # "CRASHED", NEW c \in Conns, MasterReads(c)
      PROVE  [WatchNext]_watchVars
  <2> DEFINE m == ToMaster(c)
  <2>1. CASE \E u \in Users :
               Master!RegisterClient(c, [kind |-> "client", id |-> u, addr |-> NONE])
             /\ UNCHANGED modulesVars
    BY <2>1 DEF Master!RegisterClient, watchVars, modulesVars
  <2>2. ASSUME m.kind \in Served,
               NEW cmd \in Commands, NEW s \in Servers, Serve(m.n, cmd, s)
        PROVE  [WatchNext]_watchVars
    <3>1. m.n \in Jobs
      BY <1>1, <2>2, ReadRequest, SessionAssumption DEF MasterReads
    <3> HIDE DEF m
    <3> QED BY <1>1, <2>2, <3>1 DEF WatchNext
  <2>3. CASE KickUnregistered(c) /\ UNCHANGED modulesVars
    BY <2>3, KickEffect DEF SessionInv, watchVars, modulesVars
  <2> QED BY <1>1, <2>1, <2>2, <2>3 DEF MasterReads, Served
<1>2. CASE agentState # "CRASHED" /\ Answers
  BY <1>2 DEF Answers, WatchNext, MonitorsAndFiles
<1>3. CASE UNCHANGED vars
  BY <1>3 DEF vars, masterVars, watchVars, modulesVars
<1>4. ASSUME NEW c \in Conns, ClientNotices(c)
      PROVE  UNCHANGED watchVars
  BY <1>4 DEF ClientNotices, masterVars, watchVars, modulesVars
<1> QED BY <1>1, <1>2, <1>3, <1>4, OthersKeep, ClientCallsKeep, MasterNoticesKeeps DEF Next

\* Every step keeps the invariant.
LEMMA SessionStep == SessionInv /\ [Next]_vars => SessionInv'
<1> SUFFICES ASSUME SessionInv, [Next]_vars PROVE SessionInv'
  OBVIOUS
<1>1. ClientShape' /\ CalledInv' /\ NetworkShape'
  BY ClientKeeps, NetworkKeeps DEF SessionInv
<1>2. WatchInv'
  BY ModulesStep, JobsStep DEF SessionInv
<1>3. ASSUME NEW c \in Conns, ClientNotices(c) PROVE RouteInv' /\ MasterShape'
  <2>1. MasterShape'
    BY <1>3 DEF ClientNotices, masterVars, SessionInv, MasterShape
  <2> QED BY <1>3, <2>1, ClientNoticesKeeps
<1>4. ASSUME UNCHANGED vars PROVE RouteInv' /\ MasterShape'
  <2>1. UNCHANGED <<cReqId, told, command, on, registered, sock, sent, wrote, agentState>>
    BY <1>4 DEF vars, clientSide, adminVars, masterVars, modulesVars
  <2>2. RouteInv'
    BY <2>1, QuietKeeps DEF SessionInv, RouteInv, RegisteredOpen
  <2> QED BY <2>1, <2>2 DEF SessionInv, MasterShape
<1>5. RouteInv' /\ MasterShape'
  BY <1>3, <1>4, OthersKeep, ClientCallsKeep, MasterNoticesKeeps, MasterReadsKeeps, AnswersKeep
  DEF Next
<1> QED BY <1>1, <1>2, <1>5 DEF SessionInv

\* At the start nothing is open.
LEMMA SessionStart == Init => SessionInv
<1> SUFFICES ASSUME Init PROVE SessionInv
  OBVIOUS
<1>1. ClientShape /\ CalledInv
  BY AskAssumption
  DEF Init, AdminInit, ClientInit, ClientShape, AdminTypeOK, CalledInv, Asks
<1>2. MasterShape /\ NetworkShape
  BY DEF Init, WatchInit, StreamsInit, MasterShape, NetworkShape
<1>3. RouteInv
  <2>1. ToSet(<<>>) = {}
    BY DEF ToSet
  <2> QED BY <2>1, SessionAssumption, AskAssumption DEF Init, AdminInit, ClientInit, WatchInit, RouteInv,
     RegisteredOpen, IdsApart, Used, ServedWhereAsked, AnsweredOn, WrittenOn
<1>4. WatchInv
  BY JobsStart DEF Init
<1> QED BY <1>1, <1>2, <1>3, <1>4 DEF SessionInv

\* Client, master, modules and streams agree in every state.
THEOREM SessionAgrees == Spec => []SessionInv
BY SessionStart, SessionStep, PTL DEF Spec

\* The session implements the modules' specification: what holds of watchServer.js and its
\* latches whenever clients' requests come, holds of the requests of this client.
THEOREM SessionServes == Spec => WatchSpec
<1>1. Init => WatchInit
  BY DEF Init
<1>2. SessionInv /\ [Next]_vars => [WatchNext]_watchVars
  BY ModulesStep
<1> QED BY <1>1, <1>2, SessionAgrees, PTL DEF Spec, WatchSpec

\* The latches of a session are exact and its fan-outs complete: no 'servers' or
\* 'connections' of a client throws in done() or is answered early.
COROLLARY SessionFansOut == Spec => [](LatchExact /\ FanOutComplete)
BY SessionServes, LatchesExact, FanOutsComplete, PTL

\* The variables of client, master, modules and streams have their types.
THEOREM SessionTypeCorrect == Spec => []SessionTypeOK
<1>1. SessionInv => AdminTypeOK /\ MasterShape /\ NetworkShape
  BY DEF SessionInv, ClientShape
<1>2. AdminTypeOK /\ MasterShape /\ NetworkShape /\ WatchTypeOK => SessionTypeOK
  BY DEF MasterShape, NetworkShape, SessionTypeOK
<1> QED BY <1>1, <1>2, SessionAgrees, SessionServes, WatchTypeCorrect, PTL

\* Modules that call back twice and answers that come on any stream call a caller of
\* request() in client.js once at most: an answer takes the callback with it.
THEOREM CallersCalledOnce == Spec => []CalledOnce
<1>1. SessionInv => CalledOnce
  BY DEF SessionInv, CalledInv, CalledOnce
<1> QED BY <1>1, SessionAgrees, PTL

\* An answer is written to the connection its request came by, while that is registered,
\* and to no connection its client has opened since.
THEOREM AnswersWhereAsked == Spec => []AnsweredWhereAsked
<1>1. SessionInv => AnsweredWhereAsked
  <2> SUFFICES ASSUME SessionInv, NEW c \in Conns, NEW n \in Asks,
                      Response(n) \in ToSet(sent[c])
               PROVE  c \in registered /\ on[n] = c
    BY DEF AnsweredWhereAsked
  <2>1. command[n] # "none" /\ on[n] = c
    BY DEF SessionInv, RouteInv, AnsweredOn
  <2> QED BY <2>1, ClientAssumption DEF SessionInv, RouteInv, ServedWhereAsked
<1> QED BY <1>1, SessionAgrees, PTL

=============================================================================
