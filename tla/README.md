# pomelo-admin-upgrade in TLA+

Models of `pomelo-admin-upgrade`, the administration layer of a cluster of
game servers: a *master* process, *monitor* processes (one in every server)
and *admin clients*, which talk over an MQTT-shaped protocol on TCP. Paths
below are relative to the repository, `MasterAgent!X` names an operator of a
module here.

Run `tlc -config R.cfg M` for a run R of module M (`PROJECT.json` names the
module of each), and `tlapm` on `MasterAgentProofs`, `RegistryProofs`,
`QueueProofs`, `MonitorAgentProofs`, `ConsoleServiceProofs`, `AdminSystemProofs`,
`AdminSessionProofs` and `ProfileProofs` for the proofs.

## The system

| part | state it keeps | operations | promises |
|---|---|---|---|
| master agent (`lib/master/masterAgent.js`, `masterSocket.js`, `lib/protocol/mqtt/mqttServer.js`) | `idMap`, `typeMap`, `slaveMap`, `clients`; `reqId`, `callbacks`, `msgMap` (QoS queues); per connection `registered`, identity | handlers of `register`, `reconnect`, `monitor`, `client`, `disconnect`; `request`, `requestServer`, seven `notify*`, `listen`, `close` | the tables agree with each other and with the live connections; a request is pushed until it is answered, and its callback gets one answer of the right server |
| MQTT client (`lib/protocol/mqtt/mqttClient.js`) | `socket`, `connected`, `closed`, `connectedTimes`, timers | `connect`, `reconnect`, keepalive, `close`, the events of every stream it has opened | one reconnect timer at most; a lost connection is replaced, unless the client closed itself |
| monitor agent (`lib/monitor/monitorAgent.js`) | `state`, `callbacks`, requests its modules execute | greeting, replies, requests, commands, `notify`, `request`, `close` | greets first, answers what it executes |
| console service (`lib/consoleService.js`) | `modules` and their records, jobs in the scheduler, `values` | `start`, `stop`, `register`, `enable`, `disable`, `execute`, `command` | one job per enabled scheduled module; a command changes what it names |
| caching modules (`lib/modules/nodeInfo.js`, `systemInfo.js`) | the last report of every monitor | poll, measure, report | the reports keep being replaced |
| watch server and latch (`lib/modules/watchServer.js`, `lib/util/countDownLatch.js`) | a count of answers that are missing | `clientHandler` of every command: fan-outs, requests to one server | a fan-out calls back once, when every server it asked has answered |
| profiler and proxy (`lib/modules/profiler.js`, `lib/util/profileProxy.js`) | snapshots being received, polls | orders, chunks, `getProfile`, `clearProfiles` | snapshots of one server are not mixed up; a poll is answered once |
| admin client (`lib/client/client.js`) | `state`, `callbacks` | `connect`, `request`, `notify`, `command` | a request is called back once, the client loses its connection, or a monitor owes an answer |
| scripts, logs, statistics, utilities | none to speak of | file reads, output of `ps` and `iostat`, md5, dates | |

How they interact: a monitor's `MqttClient` opens a stream to the master's
`MqttServer`; CONNACK makes the agent greet (`register` the first time,
`reconnect` later); the master enters the connection in its tables and
replies; then either side may send requests and answers, and the master
broadcasts notifications and commands. A request that was not answered stays
in the queue of its server and is pushed again to the next connection that
registers for the server. Inside a process everything is a callback that runs
to its end, so an action of the models is a whole handler or API call.

What is hard: streams that end unnoticed for minutes while their successor is
already there; handlers that act on `this.socket`, whichever stream the event
came from; a table entry that is removed by comparing `info` and not the
connection; answers that arrive after the connection they were asked on is
gone; callbacks of auth functions and modules that come after the connection
ended; a keepalive that closes the client it should save; a latch over servers that
come and go; chunks with nothing but their order to tell which snapshot they are of;
either process starting again with empty tables; five copies of who is registered.
`PROJECT.json` lists these hazards at their lines, with the properties aimed at each.

## The modules

* `RequestContract` — the abstract specification of a request: made to one
  server, answered at most once, by that server.
* `MasterAgent` — the master. Tables, queues and flags have the names of the
  code; `sock[c]` says whether the stream of connection `c` is open, `sent[c]`
  is everything written to it since it opened, which makes "handed to this
  monitor" and "written twice" visible. `Handshake`, `Traffic` and `Call` are
  the handlers and the API; what a peer can send is chosen among what a
  monitor or a client of this code can send. `target`, `answered`, `refused`,
  `direct` are history. `MasterAgentClaims` holds what the repository says of
  the master and the code does not do; `MCMasterAgent` gives instances.
* `MasterAgentProofs`, `RegistryProofs` (the tables) and `QueueProofs` (the QoS
  queues and what a connection is written), each extending the one before — its
  theorems.
* `MqttClient` — the client library: operators over the client's variables
  only. Every stream that was ever opened keeps its handlers, so `StreamEnds`
  and `Connack` of an abandoned stream act on the client too. Monitors and
  admin clients both extend it.
* `MonitorAgent` — extends it with the agent: an event of the client and what
  the agent does in it are one action (`OnConnack`, `OnKicked`, ...). Alone it
  runs against everything a master could send; `wrote[c]` is what it wrote.
  `MonitorAgentProofs` has its theorems, `MonitorAgentClaims` a claim.
* `AdminClient` — extends it with the agent of an admin client. `on[n]` is the
  stream request `n` was written to, `got[n]` how often it was called back.
* `Streams` — TCP between one client and the master: `sent[c]` and `wrote[c]`
  are the two directions of stream `c`, `heard[c]` and `taken[c]` how far they
  have been read. A stream can be cut, after which each end notices on its own;
  one that the master has ended is a cut one for the client.
* `AdminSystem` — `MonitorAgent` and an instance of `MasterAgent` joined by
  `Streams`. The handlers are the modules' own; this module only says which
  handler gets which message. `RestartMonitor` and `RestartMaster` replace a
  process by a new one with nothing in its memory. `AdminSystemProofs` has its
  theorems.
* `WatchServer` — what the modules of the master do with a client's request or
  notification: a *job*. `Serve` is `clientHandler`, with what makes it throw (`Throws`,
  the command "broken"), `OnAnswer` the callback of a request to a
  monitor, `latch` the count of its `CountDownLatch`. Of these requests it takes
  what `RequestContract` promises, which `MasterAgent` is proved to keep,
  the callback at once that a request to an unknown server has besides, and that a
  connection whose record is gone can still answer. That a monitor answers at all is not
  assumed.
* `AdminSession` — `AdminClient`, `Streams`, `WatchServer` and the master's side
  of a client: an instance of `MasterAgent` whose tables of monitors are empty,
  because the monitors of this model are those of `WatchServer`. A notification is served
  like a request, and what its module calls back with is written nowhere.
  `AdminSessionProofs` has the theorems of both.
* `ProfileProxy` — the orders of clients, the monitor that serializes a
  snapshot, the store of the master and the polls. The connection of a monitor
  is the messages under way in each direction, in order and lost with it; a message that
  comes while the module is disabled at the master is dropped (`Ignores`).
  `ProfileProofs` has its theorems.
* `ConsoleService` — master and monitors above the agents: registration,
  jobs, commands, and the poll-report round of a caching module. A record is
  named by console, module and registration number, because the scheduler
  keeps a record that `register` has replaced. Job ids are abstracted to the
  number of live jobs of a record (`jobs`) and whether `record.jobId` is the id
  of one of them (`jobKnown`). `ConsoleServiceProofs` has its theorems.

`MC*` modules give the constants of the runs.

Definitions called *Mutant* are faulty variants of the definition they
precede; no specification uses them. They exist to see the properties fail.

## The runs

| run | instance | shows |
|---|---|---|
| `MasterRegistry` | 3 connections, 2 servers of one type, 2 addresses, 1 client, no requests | `TypeOK`; `TablesAgree` (by-id and by-type tables are one), `PrimaryLive` (a primary's connection is open, registered and its own), `ClientsExact`, `OneRecord` |
| `MasterRequests` | 2 connections, 2 servers, 2 requests | the QoS queue is exactly the unanswered requests (`QosLedger`), a primary has been handed all of it (`PrimaryHasPending`), nothing twice on a connection (`PushedOnce`), never before the reply that makes the monitor listen (`ReplyBeforeRequest`), never after its answer (`SettledNotPushed`), and `AnswersOnce` |
| `MasterAsync` | 2 connections, 2 servers, 1 client, 1 request, auth functions that call back later, monitors without info and the crash they cause, all notifications, requests of peers | `TablesAgree` and `OneRecord` still, `BroadcastOnce`, and the inductive invariant `AnswerInv` of the proofs |
| `MonitorSafety` | 2 streams, kicks, commands, overdue pings, `close()`, own requests, fair | `MonitorTypeOK`, `ConnectedHasSocket`, `OneTimer`, `OnlyFirstAttemptExits`, and `Restored`: a lost connection is replaced, unless the client has given up (`GivenUp`: closed with a socket, by its user or by an overdue ping) |
| `SystemStreams` | 2 streams, 1 cut, 1 request, early notifies, overdue pings, one `close()` | `SystemTypeOK`; what the monitor was told is so at the master (`AdmittedIsRegistered`), one registration (`OneRegistered`), `AnswersOnce` over the real channels |
| `SystemLive` | 2 streams, 2 cuts, 2 requests, 2 restarts of master or monitor, fair | when what is over is noticed before the monitor is back (`InTime`): `RequestAnswered`, a request is answered unless the master that made it is gone, the monitor has ended or its client has given up, and `RegistersInTime`, a connected monitor gets registered or has given up |
| `ConsoleRounds` | master, 1 monitor, 1 pulling and 1 pushing module, the pulling one registered twice at the master, reports without numbers, fair | `ConsoleTypeOK`; `JobsExact`: a record, not a module, has one job while it is enabled and scheduled and none otherwise; `Refreshed`: the rounds of poll and report go on |
| `AdminSession` | 2 streams, 1 cut, 3 servers of which 1 is a frontend and 1 has no info, every command, servers that come and go and answer or not, fair | `CalledOnce` (however often a module calls back), `AnsweredWhereAsked` (a late callback is written to the stream of its request, while that is registered), `LatchExact`, `FanOutComplete`, and `AskSettled`: if no answer of a monitor stays out for ever, who asks is answered, disconnected or told so |
| `ProfileRounds` | 1 server, 2 polls, 3 orders, snapshots of 2 chunks, 2 accidents (a lost connection, a clearing, an ignored message), fair | `OneSnapshot`, `AnsweredOnce`, `PollAnswered`, and `SnapshotArrives`: a snapshot that is not interrupted is at some time what the store has, whole and alone |
| `ClaimPrimary`, `ClaimClosed`, `ClaimReconnect` | the smallest ones | what the code does against what it says, below |

`CHECK_DEADLOCK FALSE` where the system may stop: a master that is closed or
has crashed with nothing left to do, a monitor or client process that has
ended, bounds that are used up.

### Bounds, and why they are enough

Two connections of one server give a primary, a slave, a promotion that does
not happen and a record that is left; the third (`MasterRegistry`) adds the
client and a slave that survives two primaries. Two addresses are needed for
`compareServer` to tell connections apart, and one for it to confuse them.
Two requests are the least for an order in a queue. Two streams let an old one
overlap a new one; a stream is used again when both sides are done with it, so
long histories are covered with few names. `MaxCuts` 2 loses a connection, and
its successor; `MaxRestarts` 2 restarts both processes, or one twice.

In `AdminSession` one request is enough for the module to answer early, late,
twice or never, since jobs share nothing but the table of servers; two servers
let a latch count more than one answer and let the servers asked differ from
those there are, and the third, without an info, makes a handler throw. `MaxAsks` bounds requests and notifications together; a
notification has an id of its own, which names the job it becomes. In
`ProfileRounds` three orders give two heap snapshots at once and a CPU profile,
two chunks a snapshot that is interrupted in the middle, two accidents an
interruption after an interruption; servers share nothing in the store.

`MaxReq`, `MaxSent`, `MaxAsked`, `MaxAsks`, `MaxSaid`, `MaxCuts`,
`MaxRestarts`, `MaxOrders`, `MaxAccidents`, `MaxRegs`, `Renewed`, `MaxDelay` are
declared as bounds where they stand in guards; `NoPoll`, `NoCommand` and `Reported` say that a round is over before
the next one of its kind, which intervals of minutes justify. Symmetry of the
connections is used in the runs without liveness only.

### Fairness

`MonitorAgent!Fairness`: the reconnect timer fires, the end of a stream the
client has dropped is reported, and a stream that is tried again and again is
acknowledged some time. `AdminSystem!SystemFairness`: timers fire, messages
arrive unless the stream is cut, a module calls back, and both ends notice the
end of a stream: the server by its idle timeout of five minutes, the client
when its operating system gives up what it wrote, or at once when the server
ends the stream. The client's keepalive is *no* reason for it. An overdue ping
calls `close()`, and the client never reconnects (`MqttClient!PingOverdue`); so
the keepalive is an action without fairness that may get ahead of the notice
(`KeepAlive`, in both compositions for streams that deliver nothing any more),
and the liveness properties except the client that has given up (`GivenUp`).
By default that takes a day and a half, because seconds are compared with
milliseconds; until then the operating system is the first to notice.

`ConsoleService!Fairness`: the scheduler runs its jobs, messages arrive, and a
measurement that is tried for ever works some time (`getPsInfo` throws when
`ps` fails). `AdminSession!SessionFairness`: the event loops of client and master go on,
the ends of streams are noticed, files are read. Of the monitors nothing is
assumed, neither that they come back nor that they answer: a request has no
timeout, the monitor asked may stay unregistered (`ClaimReconnect`), have given
up, or end while it executes ('set' and 'memory' without a `param`), and 'status'
is not answered when `ps` fails. So `AskSettled` has a premise, that no answer of a
monitor stays out for ever, and says that nobody else leaves the client waiting.
`ProfileProxy!ProfileFairness`: messages are handled and intervals fire. No
fairness is put on API calls, cuts, restarts, commands or `close()`.

`SystemLive` takes `Timely = {"ends", "modules"}`, and its two properties name that
premise (`InTime`): when the monitor reconnects, the master has seen its old stream end
and the modules have answered. The code does not see to it (the client is back after one
to sixty seconds, the master may need five minutes), and without either the properties
fail: without the first the reconnect is refused for good (`ClaimReconnect`); without the
second an answer is written to the new stream ahead of the greeting, for which the master
kicks the monitor, and streams can follow each other for ever without an answer getting
through.

## What is proved

`MasterAgentProofs`, for all sets of connections, servers, types, addresses
and clients and any number of requests:

* `TypeCorrect` — `Spec => []TypeOK`.
* `AnswersConsistent` — `Spec => []AnswerInv`. `AnswerInv` is what makes
  `AnswersOnce` inductive: that an answer comes from the server asked needs
  that the connection it came on is that server's (`HandedOwn`), which needs
  that a request is only written to the primary of its server
  (`PrimaryKnown`), that the queue of a server holds only its own requests
  (`QueueOwn`), and that a connection used again has nothing left of its
  predecessor (`ClosedSilent`); that there is one answer needs that a stored
  callback is one that was not called (`PendingUnanswered`). It is claimed of
  a master that has not crashed, because a reconnect without info throws
  halfway. `MasterAsync` checks it first.
* `RequestsAnsweredOnce` — `Spec => Contract!Spec`: the master implements
  `RequestContract`; every step makes a request, answers one, or stutters.

`RegistryProofs`, for the same constants:

* `TypesInStep`, `RecordsOnce` — `Spec => []TablesAgree` and
  `Spec => []OneRecord`, with late auth functions, monitors without info and the
  crash. They share `RegistryInv`: a record stands under its own id (`IdOwn`),
  the lists of types hold exactly the records of `idMap` (`ByType`, which needs
  that the loop that removes by comparing infos stops at the record it should),
  no connection holds two records (`Apart`), and whoever holds one has announced
  itself (`RecordsKnown`, `AuthingKnown`), so that a new connection holds none.
* `PrimariesLive`, `ClientsAlwaysExact` — `Spec => []PrimaryLive` and
  `Spec => []ClientsExact`, by `FlagsInv`: holding a record, being open and being
  registered are one. Two hypotheses stand in the theorems because the code needs
  them: auth functions answer at once (`~AsyncAuth`; a late one registers a
  connection that has ended), and every monitor has an info
  (`NoInfo \notin Addrs`; one without crashes the master halfway).

`QueueProofs`, for the same constants:

* `QueuesExact` — `Spec => []QosLedger`; the queue stays in ascending order, which
  is what makes removing one request from it remove one.
* `SettledStaysQuiet` — `Spec => SettledNotPushed`, from a list of all that a step
  can write (`Written`): a request that is written is new or in a queue.
* `PushesOnce` — `Spec => []PushedOnce`. What was written stays, with more behind
  it (`Grows`), and neither a queue, which goes to a connection that has just
  announced itself, nor a new request can repeat what is there (`WrittenOnce`).
* `RepliesFirst`, `PrimariesHavePending` — `Spec => []ReplyBeforeRequest` and
  `Spec => []PrimaryHasPending`, under the two hypotheses above. A connection
  enters the tables in one way only (`Enters`): with the accepting reply and
  behind it the whole queue.
* `BroadcastsOnce` — `Spec => BroadcastOnce`, with late auth functions. Who holds a
  record has announced itself as a monitor, and who is a client as a client
  (`HeldKnown`), so that the connections a broadcast goes through are of the right
  kind; that each is gone through once is that the lists of types name it once
  (`RegistryInv`).

`ConsoleServiceProofs`, for any monitors, modules and registrations:

* `JobsAlwaysExact` — `Spec => []JobsExact`. It is inductive as it stands.
* `ConsoleTypeCorrect` — `Spec => []ConsoleTypeOK`, which needs it: `disable()`
  takes a job away that has to be there.

`MonitorAgentProofs`, for any set of streams and whatever the master sends:

* `TimerOnce`, `SocketThere`, `FirstTimedOnly`, `MonitorTypeCorrect` —
  `Spec => []Inv` for the four invariants of `MonitorSafety`. They share
  `MonitorInv`, because they need each other (`TimersInv`): a reconnect timer is
  armed only when the client was not closed, and a client that is not closed has
  a socket that has not ended and no timer, so there is one at most; that the
  timeout of the first attempt is never armed again needs that its flag stays
  true once a stream was tried; and that `connect` finds no timer armed needs
  that a timer is armed only after the first CONNACK, which takes the agent out
  of INITED (`GreetedInv`). The rest are shapes. Every event of the client is
  one lemma, used by the handler of the agent that contains it.

`AdminSystemProofs`, for any streams, servers, requests, cuts and restarts:

* `SystemTypeCorrect` — `Spec => []SystemTypeOK`, and `AdmittedAreRegistered` —
  `Spec => []AdmittedIsRegistered`. They share `SystemInv`: the monitor keeps its
  `MonitorInv`, because every event of the system is one of its handlers or leaves it
  alone; the master keeps its types and has only ever accepted this monitor
  (`WrittenInv`); an accepting reply is on its way, or was read, on a connection only
  that is registered or has ended (`AdmittedInv`).
* `RegisteredOneAtATime` — `Spec => [](restarts = 0 => OneRegistered)`, and with no
  restarts at all `NeverTwo`. The hypothesis is what the code needs: `register` does not
  look whether the id is taken, so a monitor that starts again beside the half-open
  stream of its predecessor registers as its slave (`ClaimReconnect` is the same of a
  reconnect, which looks). Without one, `register` is written once, on the first stream,
  and read before anything was written to the monitor, another stream opened or another
  greeting on its way (`Early`, `FirstInv`); from then on the table of ids names the one
  connection that is registered (`RegisterInv`, `TableInv`).
* `SystemAnswersOnce` — `Spec /\ [][Restart => RestartMonitor]_vars => AnswersOnce`. In
  `MasterAgent` an answer is of a request that was handed to the connection it comes by;
  here it comes from a monitor that may have been asked on another stream, cut since. The
  invariant (`OwnInv`) follows the request: what is on its way to the monitor, what its
  modules execute and what it answers, on any stream, was made to this monitor
  (`OwnAnswers`). The proofs of `MasterAgent`'s handlers are used as they are, through an
  instance. A master that starts again gives the ids of its requests out anew, which is
  why its restarts are excluded and the monitor's are not.
* `SystemMeetsMonitor` and `SystemMeetsMaster` — without restarts every step of the
  system is, for the monitor, a step of `MonitorSpec`, and for the master one of
  `MasterAgent` (`MeetUnrestarted` with `MaxRestarts = 0`). So what either is checked
  against alone, and what is proved of it there, is what the other can really do: the
  master replies to a greeting once, asks only a monitor that has greeted it and gives
  each request once on a stream; the monitor greets a connection once and answers on it
  what it was handed there. The invariant (`SideInv`) adds that a second greeting on a
  stream comes after `disconnect`, where the master stops reading (`GreetingInv`,
  `ReadInv`); that neither knows the other before the greeting is read (`MeetInv`); that
  what is pending was handed to the primary and nothing twice (`QueueInv`, from
  `QueueProofs`); and that reply and requests the monitor was given are behind it
  (`UnreadInv`). `SystemMeetsMonitor` takes `MonitorSpec` with its kicks,
  which the master does send, and overdue pings (`{"kick", "overdue"} \subseteq Faults`). The one step `MasterAgent` has not,
  and `MasterMoves` adds, is a kick for each further message on a connection that is not
  registered: there one was enough.

`AdminSessionProofs`, for any finite set of servers, any jobs, streams and users:

* `LatchesExact`, `FanOutsComplete`, `WatchTypeCorrect`. They share `WatchInv`,
  one invariant per job: a job that was not served has nothing (`IdleInv`); of a
  fan-out the latch is the number of requests still pending, these are among the
  servers it asked, and it has been called back exactly when none is left
  (`FanOutInv`); any other job waits for one thing at a time (`SingleInv`). An
  answer takes one element out of the pending ones and one
  off the latch; a server that comes or goes touches no job (`SameKeeps`).
* `SessionServes` — `Spec => WatchSpec`: the session implements the specification of the
  modules, so that `SessionFansOut` has the two properties for the requests of a real
  client, though they were proved for requests that come whenever they like.
* `SessionTypeCorrect`, `CallersCalledOnce` — `Spec => []SessionTypeOK` and
  `Spec => []CalledOnce`: a request that was called back has no callback left, and one
  that was not made has neither (`CalledInv`).
* `AnswersWhereAsked` — `Spec => AnsweredWhereAsked`. A request is only ever written to
  the stream `on[n]`, so it was read from that one (`WrittenOn`, `ServedWhereAsked`; a
  notification has an id no request has, `IdsApart`, and is on no stream),
  which was registered then and is until the master has seen it end; a registered
  connection is open (`RegisteredOpen`), and what is written stands on the stream of its
  request (`AnsweredOn`).

`ProfileProofs`, for any servers, calls and orders and snapshots of any number of
chunks:

* `SnapshotsApart` — `Spec => []OneSnapshot`. The invariant says what is under way
  from a monitor: a row of whole snapshots of which the first may have begun
  (`Row`), every one of them ordered (`NumbersInv`). The profile that is open has
  exactly the chunks that went before the first message of the row, and is whole
  when a new snapshot comes next (`StoreInv`); a connection lost or a store cleared
  in the middle, or a message ignored, breaks that, and is what `broken` records.
* `CallsAnsweredOnce` — `Spec => []AnsweredOnce`: a call was answered if it was
  made and its interval is not set (`CallsInv`).
* `ProfileTypeCorrect` — `Spec => []ProfileTypeOK`.

Assumptions: `NONE` is no connection, server, peer, record, profile or poll; every server has a type;
the set of servers is finite and has in it the frontends and, apart from these, those without an info;
the modules whose reports are read for numbers are modules; the bounds are numbers; the master is not a
monitor; the monitor of `AdminSystem` has an info; a job of `AdminSession` is a request
of its client. TLC evaluates all of them.

Only model-checked: liveness (`Restored`, `RequestAnswered`, `RegistersInTime`, `Refreshed`,
`AskSettled`, `PollAnswered`, `SnapshotArrives`), because the prover does not reason
about fairness and ENABLED. Every safety property of a passing run is stated by a
theorem; where a theorem has a hypothesis the run does not have to state (no restart, no
late auth function, an info), the run's instance satisfies it or the paragraph above says
what happens without.

## Where the code does not do what it says

Refuted by runs (`PROJECT.json`, findings):

* `ClaimPrimary` — a second connection of a server that ends takes the record
  of the first one with it, when their infos are equal.
* `ClaimReconnect` — a monitor that reconnects before the master has seen its
  old stream end is refused and stays connected and unregistered.
* `ClaimClosed` — `close()` during the wait for a reconnect is undone by the
  timer.

Modelled, and found in reading; the actions that show them:

* a slave that ends when its id has no primary keeps its record
  (`RemoveMonitor`, first disjunct);
* `requestServer` and `notifyByServer` compare a record with an address it
  does not have, so nobody is ever written to (`OwnAddr`);
* `MqttServer.closed` is true from the start: a closed master goes on
  listening (`MqttServerClosed`);
* a monitor without info brings the master down when it leaves or comes back
  (`ComparesNoInfo`, `OnReconnect`), and when a client asks for 'connections' or
  'logins' (`Throws`, `Connections`); the tests create monitors so;
* `request` to an unknown server calls back with an error and later, when the
  server registers, with a response (`Request`; `Forward` passes both on, the
  client takes the first);
* a restarted master counts its requests from 1, so that an answer the monitor
  still owed the old one can reach a callback of the new one (`RestartMaster`;
  `SystemLive` has the modules answer first);
* a monitor process that starts again while the master holds the half-open
  stream of its predecessor becomes a slave, and is asked nothing until it
  reconnects (`RestartMonitor`);
* an auth function that answers after the end of the connection leaves a
  record for ever (`AuthServerDone`, `AuthUserDone`), in the table of clients too,
  where the id is then taken;
* an overdue PINGRESP closes the client as its user would: the close event that
  follows returns at once, and the process runs on without ever connecting again
  (mqttClient.js:243, 264-268, 155; `KeepAlive`, `PingOverdue`, `GivenUp`);
* `notify` and `request` of a monitor throw, or speak ahead of the greeting,
  while the client reconnects (`ApiSend`); an answer given then ends the
  process (`DoSend`);
* an error of the first connection ends the process (`OnSocketClose`);
* a command ends every monitor it reaches (`OnCommand`, `CommandArrives`);
* `register` of a module that is registered leaves the old record's job
  running, so that the module runs twice as often and a disable stops one of the
  two (`RegisterModule`);
* a command of a client over no server at all, or 'connections' and 'logins' of
  a server that is not known, end the master with an exception (`FanOut`,
  `Connections`);
* scripts 'save' without a filename ends the master (scripts.js:106; `Serve`), as
  does a report of systemInfo without the numbers of `iostat` (systemInfo.js:39-53;
  `ThrowOnReport`); 'set' and 'memory' without a `param` end the monitor that
  executes them (watchServer.js:494, 547), and the client is never answered;
* a fan-out, or a request to one server, has no timeout: if a monitor that was asked
  never answers, the client waits for ever (`FanOut`, the premise of `AskSettled`);
* 'status' of a monitor whose `ps` fails, an error of a script and a command
  nobody knows are never answered (`ForwardScript`, `Serve`); `get` of a file
  calls back with the error and again without one (`OnFile`);
* an admin client has no handler for `reconnect`: after a lost connection it is
  connected and not registered, looks at its state nowhere, and is kicked at its
  next message (`OnConnackAdmin`, `KickUnregistered`);
* `getProfile` waits for a profile to exist, not to be finished: a poll returns
  the chunks that have arrived and ends (`IntervalTimer`);
* a snapshot whose connection was lost, that was cleared in the middle, or of which
  the disabled profiler of the master ignored a part, is continued by the next one of
  that server, and the two count as one (`OpenProfile`, `Ignores`); an order for a server that is not registered is dropped and
  the client told that all is well (`Order`).

## Plan

Order: what everything rests on first.

1. `MasterAgent` with its claims and proofs — done.
2. `MqttClient`, `MonitorAgent`, `AdminSystem` — done for one monitor.
3. `ConsoleService` with the caching modules — done.
4. `WatchServer` with the latch, its proofs — done.
5. `ProfileProxy` — done.
6. `AdminClient` and `AdminSession` — done for one client.
7. Restarts of the master and of a monitor process in `AdminSystem` — done.
8. Proofs of every safety property, and that `AdminSystem` without restarts
   implements `MonitorAgent` and `MasterAgent` — done. Next that `AdminSession`
   implements the client's half of `MasterAgent`.
9. Two clients, and two requests, in `AdminSession`; two monitors, and auth
   functions that call back later, in `AdminSystem`. Both multiply the states
   and want the histories made smaller first.

Each new module gets one passing run; with twelve runs in all, a claim gives
way when its finding has become a documented one.

## Not modelled

* the monitor's side of `watchServer.js`, `scripts.js` and `monitorLog.js`: it
  runs a script or a `grep`, reads or changes the application, and answers;
  what it answers is data. The master's side is `WatchServer`.
* `processMonitor.js`, `systemMonitor.js`: parsing of `ps` and of the `os`
  module; a measurement is a value in `ConsoleService`.
* `lib/util/utils.js` apart from `compareServer` and the default auth
  functions, which are choices of the handlers that call them.
* in `ProfileProxy` the overlap of an old and a new stream of one monitor,
  which `AdminSystem` has: a link is one connection.
* `on()` and `emit()` of the agents, which hand events to the application.
* the contents and the encoding of messages; the `IpFilter`, which nothing
  sets; logging; `index.js` and the samples.
* that a peer might send what no client or monitor of this code sends.
