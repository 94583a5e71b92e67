-------------------------------- MODULE Crawler -------------------------------
(***************************************************************************)
(* The measurement mode of the crawler: main() (crawler/main.cpp) reads the *)
(* configuration, makes every measure known to the Reporter, adds the tasks *)
(* that generate reports and rotate the log, connects to the servers and    *)
(* adds a task per measure (Executor), and runs the scheduler for ever.     *)
(*                                                                         *)
(* PeriodicScheduler and Reporter are instances here and share no variable: *)
(* a handler of the scheduler that calls a task and what this task does to  *)
(* the Reporter are one step.  Nobody calls cancel(), so neither Cancel nor *)
(* Cancelled is a step of the program, and run() does not return.           *)
(***************************************************************************)
EXTENDS Integers, Sequences, FiniteSets, SequencesExt

CONSTANTS
  Configs,           \* the configurations: sequences of descriptor_t
  Servers, Measures, \* the servers and the measures that occur in them
  SamplingPeriod,    \* SamplingPeriod[m]: seconds between two calls of m
  ReportGenerator,   \* the task that closes the periods, and its interval
  ReportingPeriod,
  LogRotator,        \* the task that renames the log, and its interval
  LogRotationPeriod,
  LogPath,           \* whether a log path is given
  MaxCost,           \* bound on the ticks a call of a task takes
  ReadResults,       \* what a call may come to: sample types of the Reporter
  WriteOutcomes,     \* what the writing of a report may come to
  RawReported, Values, NaN, Minute,              \* see Reporter
  Second, MaxStart, MaxClock, MaxSteps           \* see PeriodicScheduler

Tasks == Measures \cup {ReportGenerator, LogRotator}

Interval ==
  [t \in Tasks |-> CASE t = ReportGenerator -> ReportingPeriod
                     [] t = LogRotator      -> LogRotationPeriod
                     [] t \in Measures      -> SamplingPeriod[t]]

Mode ==
  [t \in Tasks |-> CASE t = ReportGenerator -> "execute_at_multiples_of_period"
                     [] t = LogRotator      -> "skip_first_execution"
                     [] t \in Measures      -> "execute_at_start"]

ASSUME CrawlerAssumption ==
  /\ IsFiniteSet(Measures) /\ Servers \cap Measures = {}
  /\ {ReportGenerator, LogRotator} \cap Measures = {} /\ ReportGenerator # LogRotator
  /\ Configs \subseteq Seq([server : Servers, measures : Seq(Measures)])
  /\ SamplingPeriod \in [Measures -> Nat \ {0}]
  /\ ReportingPeriod \in Nat \ {0} /\ LogRotationPeriod \in Nat \ {0}
  /\ LogPath \in BOOLEAN
  /\ MaxCost \in [Tasks -> Nat]
  /\ ReadResults \subseteq {"regular", "read_failure", "underflow", "overflow"}
  /\ WriteOutcomes \subseteq {"written", "unopened", "truncated"}
  /\ RawReported \subseteq Measures /\ Values \subseteq Int
  /\ Minute \in Nat \ {0} /\ Second \in Nat \ {0}
  /\ MaxStart \in Nat /\ MaxClock \in Nat /\ MaxStart <= MaxClock
  /\ MaxSteps \in Nat

VARIABLES main,       \* where main() is
          config,     \* meas_config: the servers in order, each with its measures
          next,       \* the position of main() in Measured, then in Executed
          connected,  \* slaves_: the servers connected to
          phase, tasks, ops, waiting, expiry, clock, steps, cancelled, labels, rewound,
          configured, data, period_id, files, thrown, reports, added, cuts

S == INSTANCE PeriodicScheduler WITH MaxCancels <- 0
R == INSTANCE Reporter WITH Instants <- Nat, MaxCalls <- 0, MaxPeriods <- 0

schedulerVars ==
  <<phase, tasks, ops, waiting, expiry, clock, steps, cancelled, labels, rewound>>
reporterVars  == <<configured, data, period_id, files, thrown, reports, added, cuts>>

vars == <<main, config, next, connected, schedulerVars, reporterVars>>

(* The loops over config: the measures that main() configures, and what the *)
(* Executor does for every server, to connect to it and to add its measures.*)
Measured == FlattenSeq([i \in DOMAIN config |-> config[i].measures])
Executed == FlattenSeq([i \in DOMAIN config |->
                          <<config[i].server>> \o config[i].measures])

Init ==
  /\ main = "configure"
  /\ config \in Configs
  /\ next = 1
  /\ connected = {}
  /\ S!Init
  /\ R!Init

-------------------------------------------------------------------------------
(* Starting: an exception here is caught by nobody and ends the program.    *)

ConfigureMeasure ==
  /\ main = "configure" /\ next <= Len(Measured)
  /\ R!configure_measurement(Measured[next])
  /\ main' = IF thrown' THEN "terminated" ELSE main
  /\ next' = next + 1
  /\ UNCHANGED <<config, connected, schedulerVars>>

AddReportGenerator ==
  /\ main = "configure" /\ next > Len(Measured)
  /\ S!AddTask(ReportGenerator)
  /\ main' = IF LogPath THEN "rotate" ELSE "execute"
  /\ next' = 1
  /\ UNCHANGED <<config, connected, reporterVars>>

AddLogRotator ==
  /\ main = "rotate"
  /\ S!AddTask(LogRotator)
  /\ main' = "execute"
  /\ UNCHANGED <<config, next, connected, reporterVars>>

(* Faulty: a server that cannot be reached is passed over. *)
ConnectServerOrSkip ==
  /\ main = "execute" /\ next <= Len(Executed)
  /\ Executed[next] \in Servers
  /\ \/ connected' = connected \cup {Executed[next]}
     \/ UNCHANGED connected
  /\ next' = next + 1
  /\ UNCHANGED <<main, config, schedulerVars, reporterVars>>

(* Executor: the constructor of a slave throws when its line cannot be      *)
(* opened; a server is connected to even if it has no measures.             *)
ConnectServer ==
  /\ main = "execute" /\ next <= Len(Executed)
  /\ Executed[next] \in Servers
  /\ \/ /\ connected' = connected \cup {Executed[next]}
        /\ UNCHANGED main
     \/ /\ main' = "terminated"
        /\ UNCHANGED connected
  /\ next' = next + 1
  /\ UNCHANGED <<config, schedulerVars, reporterVars>>

(* Executor::add_schedule *)
AddMeasure ==
  /\ main = "execute" /\ next <= Len(Executed)
  /\ Executed[next] \in Measures
  /\ S!AddTask(Executed[next])
  /\ next' = next + 1
  /\ UNCHANGED <<main, config, connected, reporterVars>>

RunScheduler ==
  /\ main = "execute" /\ next > Len(Executed)
  /\ S!Run
  /\ main' = "running"
  /\ UNCHANGED <<config, next, connected, reporterVars>>

-------------------------------------------------------------------------------
(* Running: the tasks, called for the instant when.                         *)

(* Faulty: a call whose read fails is not given to the Reporter. *)
meas_task_giving_up(m, when) ==
  \E result \in ReadResults :
    \/ \E v \in Values : result = "regular" /\ R!add_measurement(m, when, v, result)
    \/ result # "regular" /\ UNCHANGED reporterVars

(* meas_task: the register is read and its value compared with the limits;  *)
(* what is thrown meanwhile counts as a read failure. The sample carries    *)
(* the instant of the call, not that of the read.                           *)
meas_task(m, when) ==
  \E result \in ReadResults :
    \/ \E v \in Values : result = "regular" /\ R!add_measurement(m, when, v, result)
    \/ result # "regular" /\ R!add_measurement(m, when, NaN, result)

Task(t, when) ==
  \/ t \in Measures /\ meas_task(t, when)
  \/ t = ReportGenerator /\ \E outcome \in WriteOutcomes : R!close_period(when, outcome)
  \/ t = LogRotator /\ UNCHANGED reporterVars

(* A handler that calls its task: what the task throws leaves run(). *)
Calls(t) ==
  /\ Task(t, labels'[t][Len(labels'[t])])
  /\ main' = IF thrown' THEN "terminated" ELSE main
  /\ UNCHANGED <<config, next, connected>>

Handler ==
  \/ \E t \in Tasks, d \in 0..MaxClock :
       /\ main = "running" /\ d <= MaxCost[t]
       /\ S!StartImmediate(t, d) \/ S!Execute(t, d)
       /\ Calls(t)
  \/ \E t \in Tasks :
       /\ main = "running"
       /\ S!StartAligned(t) \/ S!StartSkipping(t)
       /\ UNCHANGED <<main, config, next, connected, reporterVars>>

(* The clock is set while a measure is read for the first time. *)
FirstCallReset ==
  \E t \in Tasks, now \in 0..MaxClock :
    /\ main = "running"
    /\ S!StartImmediateReset(t, now)
    /\ Calls(t)

(* Steps of the scheduler in which no task is called. *)
Silent(A) ==
  /\ main = "running"
  /\ A
  /\ UNCHANGED <<main, config, next, connected, reporterVars>>

(* The program has ended, or reached the bound of the model. *)
Over ==
  /\ main = "running" => S!Horizon
  /\ main \in {"running", "terminated"}
  /\ UNCHANGED vars

Start ==
  \/ ConfigureMeasure \/ AddReportGenerator \/ AddLogRotator
  \/ ConnectServer \/ AddMeasure \/ RunScheduler

Thread == Handler \/ Silent(S!Poll)

Next ==
  \/ Start
  \/ Thread
  \/ Silent(S!Tick)
  \/ Silent(S!SetClock)
  \/ FirstCallReset
  \/ Over

Spec == Init /\ [][Next]_vars

(* A machine that is fast enough, see PeriodicScheduler!TimelySpec. *)
TimelyNext ==
  \/ Start
  \/ Thread
  \/ Silent(S!IdleTick)
  \/ Over

TimelySpec ==
  /\ Init /\ [][TimelyNext]_vars
  /\ WF_vars(Start) /\ WF_vars(Thread) /\ WF_vars(Silent(S!IdleTick))

-------------------------------------------------------------------------------
(* Properties.                                                              *)

Configured == ToSet(Measured)

(* A task is called only in a program that was set up completely: every     *)
(* measure of the configuration known to the Reporter and scheduled, every  *)
(* server connected.  So no call finds its measure missing (add_measurement *)
(* would throw, nobody would catch it) and nothing is thrown once run() was *)
(* called; a duplicate measure or a server that cannot be reached ends the  *)
(* program before the first sample.                                         *)
AllOrNothing ==
  /\ (\E t \in Tasks : labels[t] # <<>>) =>
       /\ configured = Configured
       /\ Configured \cup {ReportGenerator} \subseteq tasks
       /\ ToSet(Executed) \cap Servers \subseteq connected
  /\ thrown => main = "terminated" /\ tasks = {}

(* The jth sample of m carries the instant of a call, and its instants grow *)
(* from one sample to the next.  Only the sample of the first call may have *)
(* an instant that a later one has too, or one after it: when the clock was *)
(* set back during that call, the timer is set by what it shows since.      *)
Traced(m, j) ==
  /\ \E i \in j..Len(labels[m]) : added[m][j].t = labels[m][i]
  /\ j > 1 => \/ added[m][j - 1].t < added[m][j].t
              \/ j = 2 /\ m \in rewound /\ added[m][1].t = labels[m][1]

(* Every call of a measure's task leaves exactly one trace: a sample with   *)
(* the instant of the call, or one more in the total of one kind of failure.*)
EveryCallCounted ==
  \A m \in Measures :
    /\ Len(labels[m]) = R!Calls(m)
    /\ \A j \in 1..Len(added[m]) : Traced(m, j)

(* With a reporting period of a minute or more no report replaces another:  *)
(* a report that was written stays what its file holds, whatever becomes of *)
(* the files of other reports and however the clock is set.                 *)
ReportsKept ==
  \A i \in 1..Len(reports) :
    reports[i].outcome = "written" =>
      /\ R!to_compact_string(reports[i].when) \in DOMAIN files
      /\ files[R!to_compact_string(reports[i].when)] = i

(* On a machine that is fast enough, a report holds the samples of its own  *)
(* period: taken between the instant of the report before and its own, both *)
(* included (a sample and a report of the same second come in either order).*)
(* The first report also holds the first sample of each measure, whatever   *)
(* time the calls made at the start took.                                   *)
ReportWindow ==
  \A i \in 2..Len(reports), m \in Measures :
    \A j \in (cuts[i - 1][m] + 1)..cuts[i][m] :
      reports[i - 1].when <= added[m][j].t /\ added[m][j].t <= reports[i].when

(* The last instant of a report within the bound of the model. *)
LastReport == ((MaxClock \div Second) \div ReportingPeriod) * ReportingPeriod

(* Every sample taken before the last report is in a report in the end. *)
SamplesReported ==
  <>[](\A m \in Measures : \A j \in 1..Len(added[m]) :
         added[m][j].t < LastReport => cuts # <<>> /\ j <= cuts[Len(cuts)][m])
===============================================================================
