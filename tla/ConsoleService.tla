--------------------------- MODULE ConsoleService ---------------------------
(***************************************************************************)
(* The consoles of a master and of its monitors (lib/consoleService.js):   *)
(* which modules are registered and enabled, the jobs that run them, the   *)
(* commands of admin clients, and the round of a caching module            *)
(* (lib/modules/nodeInfo.js, systemInfo.js): the master's job polls the    *)
(* monitors, a monitor reports, the master keeps the last report.          *)
(*                                                                         *)
(* A record is <<console, module, n>>, the n-th one register() made: the   *)
(* scheduler holds on to a record that register() has replaced.  Who is    *)
(* connected is a set here; AdminSystem has the streams.                   *)
(***************************************************************************)
EXTENDS Integers, SequencesExt

CONSTANTS
  Monitors,  \* monitor processes
  Master,    \* the master process
  Modules,   \* module ids
  Type,      \* module -> "pull", "push", or "none" without type or interval
  Numbers,   \* modules whose masterHandler reads the numbers of a report: systemInfo
  Renewed,   \* bound: <<process, module>> that register() is called for again
  MaxRegs    \* bound: how often

ASSUME MasterAssumption == Master \notin Monitors
ASSUME ModuleAssumption ==
  Type \in [Modules -> {"pull", "push", "none"}] /\ Numbers \subseteq Modules
ASSUME RegsAssumption ==
  Renewed \subseteq (Monitors \cup {Master}) \X Modules /\ MaxRegs \in Nat \ {0}

Consoles == Monitors \cup {Master}
Records == Consoles \X Modules \X (1..MaxRegs)

VARIABLES
  phase,    \* console -> "new", "started", "stopped", "crashed"
  modules,  \* console -> module -> its latest record's number, 0 without one
  enabled,  \* records whose enable is true
  jobs,     \* record -> number of its jobs in the scheduler
  jobKnown, \* records whose jobId is the id of a job in the scheduler
  linked,   \* monitors registered at the master
  down,     \* what a monitor has still to read
  up,       \* what the master has still to read from a monitor
  gauge,    \* monitor -> module -> what it will measure next (0 and 1 in turn)
  values    \* ConsoleService.values of the master: module -> monitor -> report

service == <<modules, enabled, jobs, jobKnown>>
wires == <<linked, down, up>>
vars == <<phase, service, wires, gauge, values>>

Poll(m) == [kind |-> "poll", module |-> m]
Command(m) == [kind |-> "command", module |-> m]
Report(m, v) == [module |-> m, value |-> v]

NoReport == -1
NoNumbers == 2  \* what a measurement reports whose output has no numbers in it

Init ==
  /\ phase = [k \in Consoles |-> "new"]
  /\ modules = [k \in Consoles |-> [m \in Modules |-> 0]]
  /\ enabled = {}
  /\ jobs = [r \in Records |-> 0]
  /\ jobKnown = {}
  /\ linked = {}
  /\ down = [k \in Monitors |-> <<>>]
  /\ up = [k \in Monitors |-> <<>>]
  /\ gauge = [k \in Monitors |-> [m \in Modules |-> 0]]
  /\ values = [m \in Modules |-> [k \in Monitors |-> NoReport]]

Running(k) == phase[k] # "crashed"
Current(k, m) == <<k, m, modules[k][m]>>
Enabled(k, m) == Current(k, m) \in enabled
\* The records of a console that are not replaced.
Registered(k) == {Current(k, m) : m \in {n \in Modules : modules[k][n] > 0}}

\* RegisterRecord: the master runs modules that pull, a monitor those that push.
Schedules(r) == Type[r[2]] = (IF r[1] = Master THEN "pull" ELSE "push")

-----------------------------------------------------------------------------
(***************************************************************************)
(* Registering, enabling, disabling.                                       *)
(***************************************************************************)
\* The record replaced keeps its flag and its job.
RegisterModule(k, m) ==
  /\ Running(k)
  /\ modules[k][m] < MaxRegs
  /\ modules[k][m] = 0 \/ <<k, m>> \in Renewed
  /\ modules' = [modules EXCEPT ![k][m] = @ + 1]
  /\ UNCHANGED <<phase, enabled, jobs, jobKnown, wires, gauge, values>>

\* Mutant: what is enabled already is scheduled again.
EnableAllAgain(rs) ==
  /\ enabled' = enabled \cup rs
  /\ jobs' = [r \in Records |-> IF r \in rs /\ Schedules(r) THEN jobs[r] + 1 ELSE jobs[r]]
  /\ jobKnown' = jobKnown \cup {r \in rs : Schedules(r)}
  /\ UNCHANGED modules

\* enable(), of each record of a set: what is enabled already is left alone.
EnableAll(rs) ==
  LET new == {r \in rs \ enabled : Schedules(r)}
  IN /\ enabled' = enabled \cup rs
     /\ jobs' = [r \in Records |-> IF r \in new THEN jobs[r] + 1 ELSE jobs[r]]
     /\ jobKnown' = jobKnown \cup new
     /\ UNCHANGED modules

\* Mutant: what is disabled already is cancelled again.
DisableAllAgain(rs) ==
  LET gone == {r \in rs : Schedules(r)}
  IN /\ enabled' = enabled \ rs
     /\ jobs' = [r \in Records |-> IF r \in gone THEN jobs[r] - 1 ELSE jobs[r]]
     /\ jobKnown' = jobKnown \ gone
     /\ UNCHANGED modules

\* disable(): the job is cancelled by its id.  The id is not cleared (the code clears a
\* field of the scheduler instead), but it is the id of no job from here on.
DisableAll(rs) ==
  LET gone == {r \in rs \cap enabled : Schedules(r)} \cap jobKnown
  IN /\ enabled' = enabled \ rs
     /\ jobs' = [r \in Records |-> IF r \in gone THEN jobs[r] - 1 ELSE jobs[r]]
     /\ jobKnown' = jobKnown \ gone
     /\ UNCHANGED modules

Enable(k, m) ==
  /\ Running(k)
  /\ EnableAll({Current(k, m)} \cap Registered(k))
  /\ UNCHANGED <<phase, wires, gauge, values>>

Disable(k, m) ==
  /\ Running(k)
  /\ DisableAll({Current(k, m)} \cap Registered(k))
  /\ UNCHANGED <<phase, wires, gauge, values>>

Start(k) ==
  /\ phase[k] = "new"
  /\ phase' = [phase EXCEPT ![k] = "started"]
  /\ EnableAll(Registered(k))
  /\ UNCHANGED <<wires, gauge, values>>

Unlink(k) ==
  /\ linked' = linked \ {k}
  /\ down' = [down EXCEPT ![k] = <<>>]
  /\ up' = [up EXCEPT ![k] = <<>>]

\* The agent of a stopped master sends nothing; its server goes on reading.
Stop(k) ==
  /\ phase[k] \in {"started", "stopped"}
  /\ phase' = [phase EXCEPT ![k] = "stopped"]
  /\ DisableAll(Registered(k))
  /\ \/ k \in Monitors /\ Unlink(k)
     \/ k = Master /\ UNCHANGED wires
  /\ UNCHANGED <<gauge, values>>

-----------------------------------------------------------------------------
(***************************************************************************)
(* Connections: made and lost at any time, with what is under way.         *)
(***************************************************************************)
Link(k) ==
  /\ k \notin linked
  /\ phase[k] = "started"
  /\ phase[Master] \in {"started", "stopped"}
  /\ linked' = linked \cup {k}
  /\ UNCHANGED <<phase, service, down, up, gauge, values>>

Lose(k) ==
  /\ k \in linked
  /\ Unlink(k)
  /\ UNCHANGED <<phase, service, gauge, values>>

\* notifyAll, notifyCommand: every registered monitor, unless the agent is closed.
NotifyAll(msg) ==
  down' = [k \in Monitors |-> IF k \in linked /\ phase[Master] = "started"
                              THEN Append(down[k], msg) ELSE down[k]]

\* Bounds: a poll is read before the module polls again, a command before the next one.
NoPoll(m) == \A k \in Monitors : Poll(m) \notin ToSet(down[k])
NoCommand == \A k \in Monitors, m \in Modules : Command(m) \notin ToSet(down[k])

\* monitorHandler: a measurement is reported, if it works; not while the agent is not
\* registered.  iostat can work and print no numbers.
Measure(k, m) ==
  \/ /\ k \in linked
     /\ gauge' = [gauge EXCEPT ![k][m] = 1 - @]
     /\ up' = [up EXCEPT ![k] = Append(@, Report(m, gauge[k][m]))]
  \/ /\ k \in linked /\ m \in Numbers
     /\ up' = [up EXCEPT ![k] = Append(@, Report(m, NoNumbers))]
     /\ UNCHANGED gauge
  \/ UNCHANGED <<gauge, up>>

\* Bound: a report is read before the next one of the module is made.
Reported(k, m) == \E v \in {0, 1, NoNumbers} : Report(m, v) \in ToSet(up[k])

-----------------------------------------------------------------------------
(***************************************************************************)
(* DoScheduleJob: a job runs the handler of its record, if that is enabled *)
(* (a disabled one has no effect and is left out).                         *)
(***************************************************************************)
PollJob(r) ==
  /\ r[1] = Master
  /\ jobs[r] > 0 /\ r \in enabled
  /\ NoPoll(r[2])
  /\ NotifyAll(Poll(r[2]))
  /\ UNCHANGED <<phase, service, linked, up, gauge, values>>

PushJob(r) ==
  /\ r[1] \in Monitors /\ Running(r[1])
  /\ jobs[r] > 0 /\ r \in enabled
  /\ ~Reported(r[1], r[2])
  /\ Measure(r[1], r[2])
  /\ UNCHANGED <<phase, service, linked, down, values>>

-----------------------------------------------------------------------------
(***************************************************************************)
(* Commands of an admin client to the master.  AclControl lets a client of *)
(* level 1 pass (a refused command, "list" and an unknown module change    *)
(* nothing); the monitors are told.                                        *)
(***************************************************************************)
EnableCommand(m) ==
  /\ phase[Master] \in {"started", "stopped"} /\ modules[Master][m] > 0
  /\ NoCommand
  /\ EnableAll({Current(Master, m)})
  /\ NotifyAll(Command(m))
  /\ UNCHANGED <<phase, linked, up, gauge, values>>

DisableCommand(m) ==
  /\ phase[Master] \in {"started", "stopped"} /\ modules[Master][m] > 0
  /\ NoCommand
  /\ DisableAll({Current(Master, m)})
  /\ NotifyAll(Command(m))
  /\ UNCHANGED <<phase, linked, up, gauge, values>>

\* An exception that nobody catches: the process ends, with its modules and jobs.
Crashes(k) ==
  /\ phase' = [phase EXCEPT ![k] = "crashed"]
  /\ modules' = [modules EXCEPT ![k] = [m \in Modules |-> 0]]
  /\ enabled' = {r \in enabled : r[1] # k}
  /\ jobs' = [r \in Records |-> IF r[1] = k THEN 0 ELSE jobs[r]]
  /\ jobKnown' = {r \in jobKnown : r[1] # k}

\* On a monitor AclControl calls a function its agent does not have.
CommandArrives(k) ==
  /\ down[k] # <<>> /\ Head(down[k]).kind = "command"
  /\ Crashes(k)
  /\ Unlink(k)
  /\ UNCHANGED <<gauge, values>>

-----------------------------------------------------------------------------
(***************************************************************************)
(* execute(): the handler of an enabled module runs; a module that is      *)
(* unknown or disabled is answered with an error, which nobody waits for.  *)
(***************************************************************************)
PollArrives(k) ==
  /\ down[k] # <<>> /\ Head(down[k]).kind = "poll"
  /\ down' = [down EXCEPT ![k] = Tail(@)]
  /\ LET m == Head(down[k]).module
     IN \/ Enabled(k, m) /\ ~Reported(k, m) /\ Measure(k, m)
        \/ ~Enabled(k, m) /\ UNCHANGED <<gauge, up>>
  /\ UNCHANGED <<phase, service, linked, values>>

\* Mutant: only the first report is kept.
KeepReportFirst(k) ==
  LET rep == Head(up[k])
  IN /\ rep.value # NoNumbers \/ ~Enabled(Master, rep.module)
     /\ up' = [up EXCEPT ![k] = Tail(@)]
     /\ values' = IF Enabled(Master, rep.module) /\ values[rep.module][k] = NoReport
                  THEN [values EXCEPT ![rep.module][k] = rep.value] ELSE values
     /\ UNCHANGED <<phase, service, linked, down, gauge>>

\* The report replaces the one before.
KeepReport(k) ==
  LET rep == Head(up[k])
  IN /\ rep.value # NoNumbers \/ ~Enabled(Master, rep.module)
     /\ up' = [up EXCEPT ![k] = Tail(@)]
     /\ values' = IF Enabled(Master, rep.module)
                  THEN [values EXCEPT ![rep.module][k] = rep.value] ELSE values
     /\ UNCHANGED <<phase, service, linked, down, gauge>>

\* systemInfo reads body.iostat, which is not there, and throws: the master ends.
ThrowOnReport(k) ==
  LET rep == Head(up[k])
  IN /\ rep.value = NoNumbers /\ Enabled(Master, rep.module)
     /\ Crashes(Master)
     /\ linked' = {}
     /\ down' = [j \in Monitors |-> <<>>]
     /\ up' = [j \in Monitors |-> <<>>]
     /\ values' = [m \in Modules |-> [j \in Monitors |-> NoReport]]
     /\ UNCHANGED gauge

\* masterHandler.
ReportArrives(k) == up[k] # <<>> /\ (KeepReport(k) \/ ThrowOnReport(k))

-----------------------------------------------------------------------------
Next ==
  \/ \E k \in Consoles : Start(k) \/ Stop(k)
  \/ \E k \in Consoles, m \in Modules : RegisterModule(k, m) \/ Enable(k, m) \/ Disable(k, m)
  \/ \E m \in Modules : EnableCommand(m) \/ DisableCommand(m)
  \/ \E r \in Records : PollJob(r) \/ PushJob(r)
  \/ \E k \in Monitors : Link(k) \/ Lose(k) \/ CommandArrives(k) \/ PollArrives(k) \/ ReportArrives(k)

Spec == Init /\ [][Next]_vars

\* The jobs of a module run again and again, what is sent arrives while the connection
\* lasts, and a measurement that is tried again and again works some time.
Polls(m) == \E n \in 1..MaxRegs : PollJob(<<Master, m, n>>)
Measures(k, m) ==
  /\ PollArrives(k) \/ \E n \in 1..MaxRegs : PushJob(<<k, m, n>>)
  /\ gauge'[k][m] # gauge[k][m]

Fairness ==
  /\ \A m \in Modules : WF_vars(Polls(m))
  /\ \A k \in Monitors, m \in Modules : SF_vars(Measures(k, m))
  /\ \A k \in Monitors :
       WF_vars(PollArrives(k) \/ CommandArrives(k)) /\ WF_vars(ReportArrives(k))

FairSpec == Spec /\ Fairness

-----------------------------------------------------------------------------
(***************************************************************************)
(* Properties.                                                             *)
(***************************************************************************)
Messages == [kind : {"poll", "command"}, module : Modules]
Reports == [module : Modules, value : {0, 1, NoNumbers}]

ConsoleTypeOK ==
  /\ phase \in [Consoles -> {"new", "started", "stopped", "crashed"}]
  /\ modules \in [Consoles -> [Modules -> 0..MaxRegs]]
  /\ enabled \subseteq Records
  /\ jobs \in [Records -> Nat]
  /\ jobKnown \subseteq Records
  /\ linked \subseteq Monitors
  /\ down \in [Monitors -> Seq(Messages)]
  /\ up \in [Monitors -> Seq(Reports)]
  /\ gauge \in [Monitors -> [Modules -> {0, 1}]]
  /\ values \in [Modules -> [Monitors -> {NoReport, 0, 1}]]

\* A record has one job while it is enabled and scheduled, and none otherwise, however
\* start, stop, enable, disable and commands follow each other and although disable()
\* leaves the id of the cancelled job in the record.  This is said of records, and not of
\* modules: a record that register() replaces keeps its job, so that a module registered
\* again while it is enabled runs twice as often once it is enabled again, and no disable
\* reaches the job of the record that was replaced.
JobsExact ==
  \A r \in Records :
    /\ jobs[r] = IF r \in enabled /\ Schedules(r) THEN 1 ELSE 0
    /\ r \in jobKnown <=> jobs[r] = 1

\* The module m runs on both sides, and the monitor k is there.
Served(k, m) ==
  /\ k \in linked
  /\ Enabled(k, m) /\ Enabled(Master, m)
  /\ \/ Type[m] = "push"
     \/ Type[m] = "pull" /\ phase[Master] = "started"

\* While that lasts, the report of k at the master is replaced again and again,
\* whichever records and jobs there were before.
Refreshed ==
  \A k \in Monitors, m \in Modules :
    <>[]Served(k, m) => []<>(values[m][k] = 0) /\ []<>(values[m][k] = 1)

=============================================================================
