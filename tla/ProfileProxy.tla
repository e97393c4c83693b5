----------------------------- MODULE ProfileProxy -----------------------------
(***************************************************************************)
(* Profiles of monitored servers: lib/modules/profiler.js and the master's *)
(* store, lib/util/profileProxy.js.                                        *)
(*                                                                         *)
(* A client has the master order a heap snapshot or a CPU profile from a   *)
(* server, under the server's id (uid).  The monitor notifies the master   *)
(* of a snapshot chunk by chunk; getProfile polls the store until there is *)
(* something.  Of the connection to a monitor the model has the messages   *)
(* under way in each direction, in order and lost with it.                 *)
(***************************************************************************)
EXTENDS Naturals, Sequences, SequencesExt

CONSTANTS
  Servers,       \* ids of the monitored servers
  Polls,         \* the getProfile calls of clients
  Chunks,        \* how many chunks a snapshot has
  MaxOrders,     \* bound: snapshots and CPU profiles that are ordered
  MaxAccidents,  \* bound: lost connections, clearProfiles and ignored messages
  NONE

ASSUME ProfileAssumption ==
  /\ Chunks \in Nat \ {0}
  /\ MaxOrders \in Nat /\ MaxAccidents \in Nat

\* A stored heap snapshot: the chunks that have arrived, and whether it counts as whole.
Profile == [data : Seq((1..MaxOrders) \X (1..Chunks)), finish : BOOLEAN]
\* What a getProfile call asks for, and whether its interval is set.
Poll == [type : {"HEAP", "CPU"}, uid : Servers, timer : BOOLEAN]

ASSUME NoProfileAssumption == NONE \notin Profile /\ NONE \notin Poll

VARIABLES
  heap,       \* profiles.HEAP
  cpu,        \* the keys of profiles.CPU: these profiles are finished when stored
  polls,      \* call -> what it asks for, NONE before
  answers,    \* call -> how often it was answered
  connected,  \* servers with a registered connection
  orders,     \* server -> what is under way to its monitor
  notices,    \* server -> what is under way from it
  ordered,    \* how many orders were given, which is also the number of the last
  accidents,
  broken      \* history: servers whose stored snapshot was interrupted

storeVars == <<heap, cpu>>
linkVars == <<connected, orders, notices>>
boundVars == <<ordered, accidents>>
vars == <<storeVars, linkVars, boundVars, polls, answers, broken>>

Init ==
  /\ heap = [s \in Servers |-> NONE]
  /\ cpu = {}
  /\ polls = [p \in Polls |-> NONE]
  /\ answers = [p \in Polls |-> 0]
  /\ connected = {}
  /\ orders = [s \in Servers |-> <<>>]
  /\ notices = [s \in Servers |-> <<>>]
  /\ ordered = 0
  /\ accidents = 0
  /\ broken = {}

-----------------------------------------------------------------------------
(***************************************************************************)
(* The monitor: monitorHandler.  Every message about snapshot n of its     *)
(* server is [n, chunk]; chunk 0 is the end.                               *)
(***************************************************************************)
Notice(n, i) == [type |-> "heap", n |-> n, chunk |-> i]
CpuNotice(n) == [type |-> "CPU", n |-> n, chunk |-> 0]

\* Mutant: nothing is said at the end.
SerializeNoEnd(n) == [i \in 1..Chunks |-> Notice(n, i)]

\* takeSnapshot and serialize do not wait: onData for each chunk, then onEnd.  (A monitor
\* without the profiler, or with the module disabled, does nothing: that is an order for a
\* server that is not registered.)
Serialize(n) == [i \in 1..Chunks |-> Notice(n, i)] \o <<Notice(n, 0)>>

MonitorHandler(s) ==
  /\ orders[s] # <<>>
  /\ orders' = [orders EXCEPT ![s] = Tail(@)]
  /\ notices' = [notices EXCEPT ![s] = @ \o
       LET o == Head(orders[s])
       IN CASE o.order = "heap" -> Serialize(o.n)
            [] o.order = "CPU stop" -> <<CpuNotice(o.n)>>
            [] OTHER -> <<>>]
  /\ UNCHANGED <<storeVars, connected, boundVars, polls, answers, broken>>

-----------------------------------------------------------------------------
(***************************************************************************)
(* The store.                                                              *)
(***************************************************************************)
Fresh == [data |-> <<>>, finish |-> FALSE]

\* Mutant: a finished snapshot is not replaced.
OpenAlways(s) == IF heap[s] = NONE THEN Fresh ELSE heap[s]

\* The profile that a message of server s belongs to.
OpenProfile(s) == IF heap[s] = NONE \/ heap[s].finish THEN Fresh ELSE heap[s]

\* Mutant: the end is stored like a chunk.
StoredWithEnd(snapShot, m) ==
  [data |-> Append(snapShot.data, <<m.n, m.chunk>>), finish |-> m.chunk = 0]

Stored(snapShot, m) ==
  IF m.chunk # 0
  THEN [snapShot EXCEPT !.data = Append(@, <<m.n, m.chunk>>)]
  ELSE [snapShot EXCEPT !.finish = TRUE]

TakeSnapCallBack(s, m) ==
  /\ heap' = [heap EXCEPT ![s] = Stored(OpenProfile(s), m)]
  /\ broken' = IF m.chunk = 1 /\ OpenProfile(s) = Fresh THEN broken \ {s} ELSE broken
  /\ UNCHANGED cpu

StopCallBack(s) ==
  /\ cpu' = cpu \cup {s}
  /\ UNCHANGED <<heap, broken>>

MasterHandler(s) ==
  /\ notices[s] # <<>>
  /\ notices' = [notices EXCEPT ![s] = Tail(@)]
  /\ \/ Head(notices[s]).type = "CPU" /\ StopCallBack(s)
     \/ Head(notices[s]).type = "heap" /\ TakeSnapCallBack(s, Head(notices[s]))
  /\ UNCHANGED <<connected, orders, boundVars, polls, answers>>

\* A message that comes while the master has the module disabled is dropped by execute().
Ignores(s) ==
  /\ notices[s] # <<>>
  /\ accidents < MaxAccidents
  /\ accidents' = accidents + 1
  /\ notices' = [notices EXCEPT ![s] = Tail(@)]
  /\ broken' = IF Head(notices[s]).type = "heap" THEN broken \cup {s} ELSE broken
  /\ UNCHANGED <<storeVars, connected, orders, ordered, polls, answers>>

-----------------------------------------------------------------------------
(***************************************************************************)
(* Calls of clients.                                                       *)
(***************************************************************************)
\* takeHeapSnapshot, start and stop: notifyById, which drops what is for a server that is
\* not registered; the client is told that all is well.
Order(s, order) ==
  /\ ordered < MaxOrders
  /\ ordered' = ordered + 1
  /\ orders' = IF s \in connected
               THEN [orders EXCEPT ![s] = Append(@, [order |-> order, n |-> ordered'])]
               ELSE orders
  /\ UNCHANGED <<storeVars, connected, notices, accidents, polls, answers, broken>>

Exists(type, s) == IF type = "CPU" THEN s \in cpu ELSE heap[s] # NONE
Finished(type, s) == Exists(type, s) /\ (type = "HEAP" => heap[s].finish)

\* asyncGet: all that there is of the profile, and a result.
AsyncGet(p) == answers' = [answers EXCEPT ![p] = @ + 1]

GetProfile(p, type, s) ==
  /\ polls[p] = NONE
  /\ \/ /\ Finished(type, s)
        /\ polls' = [polls EXCEPT ![p] = [type |-> type, uid |-> s, timer |-> FALSE]]
        /\ AsyncGet(p)
     \/ /\ ~Finished(type, s)
        /\ polls' = [polls EXCEPT ![p] = [type |-> type, uid |-> s, timer |-> TRUE]]
        /\ UNCHANGED answers
  /\ UNCHANGED <<storeVars, linkVars, boundVars, broken>>

\* Mutant: the timer waits for a profile that is finished, as the call itself does.
IntervalFinished(p) ==
  /\ Finished(polls[p].type, polls[p].uid)
  /\ polls' = [polls EXCEPT ![p].timer = FALSE]
  /\ AsyncGet(p)

\* Mutant: the interval is not cleared.
IntervalUncleared(p) ==
  /\ Exists(polls[p].type, polls[p].uid)
  /\ UNCHANGED polls
  /\ AsyncGet(p)

\* The interval looks only whether there is a profile, finished or not.
Interval(p) ==
  /\ Exists(polls[p].type, polls[p].uid)
  /\ polls' = [polls EXCEPT ![p].timer = FALSE]
  /\ AsyncGet(p)

IntervalTimer(p) ==
  /\ polls[p] # NONE /\ polls[p].timer
  /\ Interval(p)
  /\ UNCHANGED <<storeVars, linkVars, boundVars, broken>>

\* A snapshot of which the master has the first chunks, and not yet the end.
Arriving(s) ==
  \/ heap[s] # NONE /\ ~heap[s].finish
  \/ notices[s] # <<>> /\ Head(notices[s]).type = "heap" /\ Head(notices[s]).chunk # 1

ClearProfiles ==
  /\ accidents < MaxAccidents
  /\ accidents' = accidents + 1
  /\ heap' = [s \in Servers |-> NONE]
  /\ cpu' = {}
  /\ broken' = broken \cup {s \in Servers : Arriving(s)}
  /\ UNCHANGED <<linkVars, ordered, polls, answers>>

-----------------------------------------------------------------------------
(***************************************************************************)
(* The connection of a monitor.                                            *)
(***************************************************************************)
Registers(s) ==
  /\ s \notin connected
  /\ connected' = connected \cup {s}
  /\ UNCHANGED <<storeVars, orders, notices, boundVars, polls, answers, broken>>

Disconnects(s) ==
  /\ s \in connected
  /\ accidents < MaxAccidents
  /\ accidents' = accidents + 1
  /\ connected' = connected \ {s}
  /\ orders' = [orders EXCEPT ![s] = <<>>]
  /\ notices' = [notices EXCEPT ![s] = <<>>]
  /\ broken' = IF Arriving(s) THEN broken \cup {s} ELSE broken
  /\ UNCHANGED <<storeVars, ordered, polls, answers>>

ClientCalls ==
  \/ \E s \in Servers, o \in {"heap", "CPU start", "CPU stop"} : Order(s, o)
  \/ \E p \in Polls, t \in {"HEAP", "CPU"}, s \in Servers : GetProfile(p, t, s)
  \/ ClearProfiles

Next ==
  \/ ClientCalls
  \/ \E s \in Servers :
       \/ Registers(s) \/ Disconnects(s)
       \/ MonitorHandler(s) \/ MasterHandler(s) \/ Ignores(s)
  \/ \E p \in Polls : IntervalTimer(p)

Spec == Init /\ [][Next]_vars

\* The event loops of the master and of the monitors go on.
ProfileFairness ==
  /\ \A s \in Servers : WF_vars(MonitorHandler(s)) /\ WF_vars(MasterHandler(s))
  /\ \A p \in Polls : WF_vars(IntervalTimer(p))

FairSpec == Spec /\ ProfileFairness

-----------------------------------------------------------------------------
(***************************************************************************)
(* Properties.                                                             *)
(***************************************************************************)
Order0 == [order : {"heap", "CPU start", "CPU stop"}, n : 1..MaxOrders]
Notice0 == [type : {"heap", "CPU"}, n : 1..MaxOrders, chunk : 0..Chunks]

\* The store, the calls and the messages have the form the handlers give them.
ProfileTypeOK ==
  /\ heap \in [Servers -> Profile \cup {NONE}]
  /\ cpu \subseteq Servers
  /\ polls \in [Polls -> Poll \cup {NONE}]
  /\ answers \in [Polls -> Nat]
  /\ connected \subseteq Servers
  /\ orders \in [Servers -> Seq(Order0)]
  /\ notices \in [Servers -> Seq(Notice0)]
  /\ ordered \in 0..MaxOrders
  /\ accidents \in 0..MaxAccidents
  /\ broken \subseteq Servers

Whole(n) == [i \in 1..Chunks |-> <<n, i>>]

\* Unless its connection was lost, the store cleared or the module disabled in the middle
\* of it, what is stored of a snapshot is the beginning of one snapshot, in order, and all
\* of it once it counts as finished, however many snapshots of the same server were
\* ordered at once.
OneSnapshot ==
  \A s \in Servers \ broken : heap[s] # NONE =>
    \E n \in 1..ordered :
      /\ IsPrefix(heap[s].data, Whole(n))
      /\ heap[s].finish => heap[s].data = Whole(n)

\* A call is answered once, by itself or by its timer.
AnsweredOnce == \A p \in Polls : answers[p] <= 1

\* A call does not wait for ever for a profile that is there, not even for one that will
\* never be finished because its connection was lost.
Waits(p) == polls[p] # NONE /\ polls[p].timer /\ Exists(polls[p].type, polls[p].uid)
PollAnswered == \A p \in Polls : Waits(p) ~> ~Waits(p)

\* The monitor's snapshot n is at some time what the store has, whole and with nothing of
\* any other, unless it is interrupted: it is neither mixed up with nor lost between those
\* ordered before and after it, although no chunk says which snapshot it is of.
SnapshotArrives ==
  \A s \in Servers, n \in 1..MaxOrders :
    (\E o \in ToSet(orders[s]) : o.order = "heap" /\ o.n = n) ~>
      \/ heap[s] # NONE /\ heap[s].finish /\ heap[s].data = Whole(n)
      \/ s \notin connected \/ s \in broken

=============================================================================
