------------------------ MODULE ConsoleServiceProofs ------------------------
(***************************************************************************)
(* For any number of monitors, modules and registrations: a record has the *)
(* jobs it should have.  JobsExact is inductive as it stands, for its two  *)
(* halves give each other the number of jobs before the step.              *)
(***************************************************************************)
EXTENDS ConsoleService, TLAPS

\* enable() of any set of records gives a job to those that get enabled by it.
LEMMA EnableAllExact ==
  ASSUME NEW rs, JobsExact, EnableAll(rs)
  PROVE  JobsExact'
<1> SUFFICES ASSUME NEW r \in Records
             PROVE  /\ jobs'[r] = IF r \in enabled' /\ Schedules(r) THEN 1 ELSE 0
                    /\ r \in jobKnown' <=> jobs'[r] = 1
  BY DEF JobsExact, Schedules
<1> DEFINE new == {q \in rs \ enabled : Schedules(q)}
<1>1. /\ jobs[r] = IF r \in enabled /\ Schedules(r) THEN 1 ELSE 0
      /\ r \in jobKnown <=> jobs[r] = 1
  BY DEF JobsExact
<1>2. /\ enabled' = enabled \cup rs
      /\ jobs'[r] = IF r \in new THEN jobs[r] + 1 ELSE jobs[r]
      /\ jobKnown' = jobKnown \cup new
  BY DEF EnableAll
<1>3. CASE r \in new
  BY <1>1, <1>2, <1>3
<1>4. CASE r \notin new
  BY <1>1, <1>2, <1>4
<1> QED BY <1>3, <1>4

\* disable() of any set of records takes its job from those that get disabled by it.
LEMMA DisableAllExact ==
  ASSUME NEW rs, JobsExact, DisableAll(rs)
  PROVE  JobsExact'
<1> SUFFICES ASSUME NEW r \in Records
             PROVE  /\ jobs'[r] = IF r \in enabled' /\ Schedules(r) THEN 1 ELSE 0
                    /\ r \in jobKnown' <=> jobs'[r] = 1
  BY DEF JobsExact, Schedules
<1> DEFINE gone == {q \in rs \cap enabled : Schedules(q)} \cap jobKnown
<1>1. /\ jobs[r] = IF r \in enabled /\ Schedules(r) THEN 1 ELSE 0
      /\ r \in jobKnown <=> jobs[r] = 1
  BY DEF JobsExact
<1>2. /\ enabled' = enabled \ rs
      /\ jobs'[r] = IF r \in gone THEN jobs[r] - 1 ELSE jobs[r]
      /\ jobKnown' = jobKnown \ gone
  BY DEF DisableAll
<1>3. CASE r \in gone
  BY <1>1, <1>2, <1>3
<1>4. CASE r \notin gone
  BY <1>1, <1>2, <1>4
<1> QED BY <1>3, <1>4

\* A process that ends takes its records' jobs with it and no others.
LEMMA CrashExact ==
  ASSUME NEW k, JobsExact, Crashes(k)
  PROVE  JobsExact'
BY DEF JobsExact, Crashes, Schedules

LEMMA UnchangedExact ==
  ASSUME JobsExact, UNCHANGED service
  PROVE  JobsExact'
BY DEF JobsExact, service, Schedules

\* Neither registering a module again nor what is enabled, disabled, started, stopped,
\* commanded or crashed in between gives a record a second job, or leaves one with a
\* disabled record.
THEOREM JobsAlwaysExact == Spec => []JobsExact
<1>1. Init => JobsExact
  BY DEF Init, JobsExact, Schedules
<1>2. JobsExact /\ [Next]_vars => JobsExact'
  <2> SUFFICES ASSUME JobsExact, [Next]_vars PROVE JobsExact'
    OBVIOUS
  <2>1. ASSUME NEW k \in Consoles, Start(k) PROVE JobsExact'
    BY <2>1, EnableAllExact DEF Start
  <2>2. ASSUME NEW k \in Consoles, Stop(k) PROVE JobsExact'
    BY <2>2, DisableAllExact DEF Stop
  <2>3. ASSUME NEW k \in Consoles, NEW m \in Modules, RegisterModule(k, m) PROVE JobsExact'
    BY <2>3 DEF RegisterModule, JobsExact, Schedules
  <2>4. ASSUME NEW k \in Consoles, NEW m \in Modules, Enable(k, m) PROVE JobsExact'
    BY <2>4, EnableAllExact DEF Enable
  <2>5. ASSUME NEW k \in Consoles, NEW m \in Modules, Disable(k, m) PROVE JobsExact'
    BY <2>5, DisableAllExact DEF Disable
  <2>6. ASSUME NEW m \in Modules, EnableCommand(m) PROVE JobsExact'
    BY <2>6, EnableAllExact DEF EnableCommand
  <2>7. ASSUME NEW m \in Modules, DisableCommand(m) PROVE JobsExact'
    BY <2>7, DisableAllExact DEF DisableCommand
  <2>8. ASSUME NEW r \in Records, PollJob(r) \/ PushJob(r) PROVE JobsExact'
    BY <2>8, UnchangedExact DEF PollJob, PushJob
  <2>9. ASSUME NEW k \in Monitors, Link(k) \/ Lose(k) \/ PollArrives(k) \/ ReportArrives(k)
        PROVE  JobsExact'
    BY <2>9, UnchangedExact, CrashExact
    DEF Link, Lose, PollArrives, ReportArrives, KeepReport, ThrowOnReport
  <2>10. ASSUME NEW k \in Monitors, CommandArrives(k) PROVE JobsExact'
    BY <2>10, CrashExact DEF CommandArrives
  <2>11. CASE UNCHANGED vars
    BY <2>11, UnchangedExact DEF vars
  <2> QED BY <2>1, <2>2, <2>3, <2>4, <2>5, <2>6, <2>7, <2>8, <2>9, <2>10, <2>11 DEF Next
<1> QED BY <1>1, <1>2, PTL DEF Spec

-----------------------------------------------------------------------------
(***************************************************************************)
(* Types.  That a number of jobs stays a number needs JobsExact: disable() *)
(* takes a job away that has to be there.                                  *)
(***************************************************************************)
\* The record of a module that is registered is a record.
LEMMA CurrentRecord ==
  ASSUME ConsoleTypeOK, NEW k \in Consoles, NEW m \in Modules, modules[k][m] > 0
  PROVE  Current(k, m) \in Records
<1>1. modules[k][m] \in 0..MaxRegs
  BY DEF ConsoleTypeOK
<1>2. modules[k][m] \in 1..MaxRegs
  BY <1>1, RegsAssumption
<1> QED BY <1>2 DEF Current, Records

LEMMA RegisteredRecords ==
  ASSUME ConsoleTypeOK, NEW k \in Consoles
  PROVE  Registered(k) \subseteq Records
BY CurrentRecord DEF Registered

\* Of the records that are enabled or disabled.
LEMMA ServiceType ==
  ASSUME ConsoleTypeOK, JobsExact, NEW rs \in SUBSET Records, EnableAll(rs) \/ DisableAll(rs)
  PROVE  /\ enabled' \subseteq Records /\ jobKnown' \subseteq Records
         /\ jobs' \in [Records -> Nat] /\ UNCHANGED modules
<1>1. /\ enabled \subseteq Records /\ jobKnown \subseteq Records
      /\ jobs \in [Records -> Nat] /\ \A r \in jobKnown : jobs[r] = 1
  BY DEF ConsoleTypeOK, JobsExact
<1>2. \A r \in Records : jobs[r] + 1 \in Nat /\ (r \in jobKnown => jobs[r] - 1 \in Nat)
  BY <1>1
<1>3. CASE EnableAll(rs)
  <2>1. jobs' \in [Records -> Nat]
    BY <1>1, <1>2, <1>3 DEF EnableAll
  <2> QED BY <1>1, <1>3, <2>1 DEF EnableAll
<1>4. CASE DisableAll(rs)
  <2>1. jobs' \in [Records -> Nat]
    BY <1>1, <1>2, <1>4 DEF DisableAll
  <2> QED BY <1>1, <1>4, <2>1 DEF DisableAll
<1> QED BY <1>3, <1>4

\* What is under way to or from a monitor is lost.
LEMMA UnlinkType ==
  ASSUME ConsoleTypeOK, NEW k \in Monitors, Unlink(k)
  PROVE  linked' \subseteq Monitors /\ down' \in [Monitors -> Seq(Messages)] /\ up' \in [Monitors -> Seq(Reports)]
BY DEF ConsoleTypeOK, Unlink

\* A message to all that are registered.
LEMMA NotifyType ==
  ASSUME ConsoleTypeOK, NEW msg \in Messages, NotifyAll(msg)
  PROVE  down' \in [Monitors -> Seq(Messages)]
<1>1. \A k \in Monitors : down[k] \in Seq(Messages) /\ Append(down[k], msg) \in Seq(Messages)
  BY DEF ConsoleTypeOK
<1> QED BY <1>1 DEF NotifyAll

\* A measurement, reported or not.
LEMMA MeasureType ==
  ASSUME ConsoleTypeOK, NEW k \in Monitors, NEW m \in Modules, Measure(k, m) \/ UNCHANGED <<gauge, up>>
  PROVE  gauge' \in [Monitors -> [Modules -> {0, 1}]] /\ up' \in [Monitors -> Seq(Reports)]
<1>1. gauge[k] \in [Modules -> {0, 1}] /\ gauge[k][m] \in {0, 1} /\ 1 - gauge[k][m] \in {0, 1}
  BY DEF ConsoleTypeOK
<1>2. /\ Report(m, gauge[k][m]) \in Reports /\ Report(m, NoNumbers) \in Reports
      /\ up[k] \in Seq(Reports)
  BY <1>1 DEF Report, Reports, ConsoleTypeOK
<1>3. /\ Append(up[k], Report(m, gauge[k][m])) \in Seq(Reports)
      /\ Append(up[k], Report(m, NoNumbers)) \in Seq(Reports)
  BY <1>2
<1>4. [gauge EXCEPT ![k][m] = 1 - @] \in [Monitors -> [Modules -> {0, 1}]]
  BY <1>1 DEF ConsoleTypeOK
<1> QED BY <1>3, <1>4 DEF Measure, ConsoleTypeOK

\* The calls of an application, and commands.
LEMMA CallsType ==
  ASSUME ConsoleTypeOK, JobsExact, NEW k \in Consoles, NEW m,
         \/ Start(k) \/ Stop(k)
         \/ m \in Modules /\ (RegisterModule(k, m) \/ Enable(k, m) \/ Disable(k, m))
         \/ m \in Modules /\ (EnableCommand(m) \/ DisableCommand(m))
  PROVE  ConsoleTypeOK'
<1>1. Registered(k) \subseteq Records /\ Master \in Consoles
  BY RegisteredRecords DEF Consoles
<1>2. CASE Start(k)
  <2>1. phase' \in [Consoles -> {"new", "started", "stopped", "crashed"}]
    BY <1>2 DEF ConsoleTypeOK, Start
  <2> QED BY <1>1, <1>2, <2>1, ServiceType DEF Start, ConsoleTypeOK, wires
<1>3. CASE Stop(k)
  <2>1. phase' \in [Consoles -> {"new", "started", "stopped", "crashed"}]
    BY <1>3 DEF ConsoleTypeOK, Stop
  <2>2. linked' \subseteq Monitors /\ down' \in [Monitors -> Seq(Messages)] /\ up' \in [Monitors -> Seq(Reports)]
    BY <1>3, UnlinkType DEF Stop, ConsoleTypeOK, wires
  <2> QED BY <1>1, <1>3, <2>1, <2>2, ServiceType DEF Stop, ConsoleTypeOK
<1>4. CASE m \in Modules /\ RegisterModule(k, m)
  <2>1. modules[k][m] + 1 \in 0..MaxRegs
    BY <1>4, RegsAssumption DEF RegisterModule, ConsoleTypeOK
  <2>2. modules' \in [Consoles -> [Modules -> 0..MaxRegs]]
    BY <1>4, <2>1 DEF RegisterModule, ConsoleTypeOK
  <2> QED BY <1>4, <2>2 DEF RegisterModule, ConsoleTypeOK, wires
<1>5. CASE m \in Modules /\ (Enable(k, m) \/ Disable(k, m))
  <2>1. {Current(k, m)} \cap Registered(k) \in SUBSET Records
    BY <1>1
  <2> QED BY <1>5, <2>1, ServiceType DEF Enable, Disable, ConsoleTypeOK, wires
<1>6. CASE m \in Modules /\ (EnableCommand(m) \/ DisableCommand(m))
  <2>1. {Current(Master, m)} \in SUBSET Records
    BY <1>1, <1>6, CurrentRecord DEF EnableCommand, DisableCommand
  <2>2. Command(m) \in Messages
    BY <1>6 DEF Command, Messages
  <2>3. down' \in [Monitors -> Seq(Messages)]
    BY <1>6, <2>2, NotifyType DEF EnableCommand, DisableCommand
  <2> QED BY <1>6, <2>1, <2>3, ServiceType DEF EnableCommand, DisableCommand, ConsoleTypeOK
<1> QED BY <1>2, <1>3, <1>4, <1>5, <1>6

\* The end of a process.
LEMMA CrashType ==
  ASSUME ConsoleTypeOK, NEW k \in Consoles, Crashes(k)
  PROVE  /\ phase' \in [Consoles -> {"new", "started", "stopped", "crashed"}]
         /\ modules' \in [Consoles -> [Modules -> 0..MaxRegs]]
         /\ enabled' \subseteq Records /\ jobs' \in [Records -> Nat]
         /\ jobKnown' \subseteq Records
<1>1. phase' \in [Consoles -> {"new", "started", "stopped", "crashed"}]
  BY DEF Crashes, ConsoleTypeOK
<1>2. modules' \in [Consoles -> [Modules -> 0..MaxRegs]]
  <2>1. 0 \in 0..MaxRegs
    BY RegsAssumption
  <2>2. [m \in Modules |-> 0] \in [Modules -> 0..MaxRegs]
    BY <2>1
  <2> QED BY <2>2 DEF Crashes, ConsoleTypeOK
<1>3. jobs' \in [Records -> Nat] /\ enabled' \subseteq Records /\ jobKnown' \subseteq Records
  BY DEF Crashes, ConsoleTypeOK
<1> QED BY <1>1, <1>2, <1>3

\* Jobs and arrivals.
LEMMA RoundType ==
  ASSUME ConsoleTypeOK,
         \/ \E r \in Records : PollJob(r) \/ PushJob(r)
         \/ \E k \in Monitors : PollArrives(k) \/ ReportArrives(k)
  PROVE  ConsoleTypeOK'
<1>1. ASSUME NEW r \in Records, PollJob(r) PROVE ConsoleTypeOK'
  <2>1. Poll(r[2]) \in Messages
    BY DEF Poll, Messages, Records
  <2>2. down' \in [Monitors -> Seq(Messages)]
    BY <1>1, <2>1, NotifyType DEF PollJob
  <2> QED BY <1>1, <2>2 DEF PollJob, ConsoleTypeOK, service
<1>2. ASSUME NEW r \in Records, PushJob(r) PROVE ConsoleTypeOK'
  <2>1. r[1] \in Monitors /\ r[2] \in Modules
    BY <1>2 DEF PushJob, Records
  <2>2. gauge' \in [Monitors -> [Modules -> {0, 1}]] /\ up' \in [Monitors -> Seq(Reports)]
    BY <1>2, <2>1, MeasureType DEF PushJob
  <2> QED BY <1>2, <2>2 DEF PushJob, ConsoleTypeOK, service
<1>3. ASSUME NEW k \in Monitors, PollArrives(k) PROVE ConsoleTypeOK'
  <2>1. down[k] \in Seq(Messages) /\ down[k] # <<>>
    BY <1>3 DEF PollArrives, ConsoleTypeOK
  <2>2. Head(down[k]) \in Messages /\ Tail(down[k]) \in Seq(Messages)
    BY <2>1
  <2>3. Head(down[k]).module \in Modules
    BY <2>2 DEF Messages
  <2>4. gauge' \in [Monitors -> [Modules -> {0, 1}]] /\ up' \in [Monitors -> Seq(Reports)]
    <3>1. Measure(k, Head(down[k]).module) \/ UNCHANGED <<gauge, up>>
      BY <1>3 DEF PollArrives
    <3> QED BY <2>3, <3>1, MeasureType
  <2>5. down' \in [Monitors -> Seq(Messages)]
    BY <1>3, <2>2 DEF PollArrives, ConsoleTypeOK
  <2> QED BY <1>3, <2>4, <2>5 DEF PollArrives, ConsoleTypeOK, service
<1>4. ASSUME NEW k \in Monitors, up[k] # <<>>, KeepReport(k) PROVE ConsoleTypeOK'
  <2>1. up[k] \in Seq(Reports) /\ up[k] # <<>>
    BY <1>4 DEF ConsoleTypeOK
  <2>2. Head(up[k]) \in Reports /\ Tail(up[k]) \in Seq(Reports)
    BY <2>1
  <2> DEFINE rep == Head(up[k])
  <2>3. rep.module \in Modules /\ rep.value \in {0, 1, NoNumbers}
    BY <2>2 DEF Reports
  <2>4. \/ values' = values
        \/ rep.value # NoNumbers /\ values' = [values EXCEPT ![rep.module][k] = rep.value]
    BY <1>4 DEF KeepReport
  <2> HIDE DEF rep
  <2>5. values' \in [Modules -> [Monitors -> {NoReport, 0, 1}]]
    <3>1. values \in [Modules -> [Monitors -> {NoReport, 0, 1}]]
      BY DEF ConsoleTypeOK
    <3>2. rep.value # NoNumbers => rep.value \in {NoReport, 0, 1}
      BY <2>3
    <3>3. rep.value # NoNumbers =>
            [values[rep.module] EXCEPT ![k] = rep.value] \in [Monitors -> {NoReport, 0, 1}]
      BY <2>3, <3>1, <3>2
    <3>4. \/ values' = values
          \/ /\ rep.value # NoNumbers
             /\ values' = [values EXCEPT ![rep.module] = [values[rep.module] EXCEPT ![k] = rep.value]]
      BY <2>4
    <3> QED BY <2>3, <3>1, <3>3, <3>4
  <2>6. up' \in [Monitors -> Seq(Reports)]
    BY <1>4, <2>2 DEF KeepReport, ConsoleTypeOK
  <2> QED BY <1>4, <2>5, <2>6 DEF KeepReport, ConsoleTypeOK, service
<1>5. ASSUME NEW k \in Monitors, ThrowOnReport(k) PROVE ConsoleTypeOK'
  <2>1. Master \in Consoles /\ Crashes(Master)
    BY <1>5 DEF ThrowOnReport, Consoles
  <2>2. /\ linked' = {} /\ down' \in [Monitors -> Seq(Messages)]
        /\ up' \in [Monitors -> Seq(Reports)] /\ gauge' = gauge
        /\ values' \in [Modules -> [Monitors -> {NoReport, 0, 1}]]
    BY <1>5 DEF ThrowOnReport
  <2> QED BY <2>1, <2>2, CrashType DEF ConsoleTypeOK
<1> QED BY <1>1, <1>2, <1>3, <1>4, <1>5 DEF ReportArrives

\* Connections, and the end of a process.
LEMMA WiresType ==
  ASSUME ConsoleTypeOK, NEW k \in Monitors, Link(k) \/ Lose(k) \/ CommandArrives(k)
  PROVE  ConsoleTypeOK'
<1>1. CASE Link(k)
  BY <1>1 DEF Link, ConsoleTypeOK, service
<1>2. CASE Lose(k)
  BY <1>2, UnlinkType DEF Lose, ConsoleTypeOK, service
<1>3. CASE CommandArrives(k)
  <2>1. k \in Consoles /\ Crashes(k) /\ UNCHANGED <<gauge, values>>
    BY <1>3 DEF CommandArrives, Consoles
  <2>2. linked' \subseteq Monitors /\ down' \in [Monitors -> Seq(Messages)] /\ up' \in [Monitors -> Seq(Reports)]
    BY <1>3, UnlinkType DEF CommandArrives
  <2> QED BY <2>1, <2>2, CrashType DEF ConsoleTypeOK
<1> QED BY <1>1, <1>2, <1>3

\* The variables of the consoles keep their types.
THEOREM ConsoleTypeCorrect == Spec => []ConsoleTypeOK
<1>1. Init => ConsoleTypeOK
  BY RegsAssumption DEF Init, ConsoleTypeOK
<1>2. ASSUME ConsoleTypeOK, JobsExact, [Next]_vars PROVE ConsoleTypeOK'
  <2>1. CASE UNCHANGED vars
    BY <1>2, <2>1 DEF vars, service, wires, ConsoleTypeOK
  <2>2. ASSUME NEW k \in Consoles, Start(k) \/ Stop(k) PROVE ConsoleTypeOK'
    BY <1>2, <2>2, CallsType
  <2>3. ASSUME NEW m \in Modules, EnableCommand(m) \/ DisableCommand(m) PROVE ConsoleTypeOK'
    <3>1. Master \in Consoles
      BY DEF Consoles
    <3> QED BY <1>2, <2>3, <3>1, CallsType
  <2> QED BY <1>2, <2>1, <2>2, <2>3, CallsType, RoundType, WiresType DEF Next
<1> QED BY <1>1, <1>2, JobsAlwaysExact, PTL DEF Spec

=============================================================================
