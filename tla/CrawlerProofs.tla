----------------------------- MODULE CrawlerProofs ----------------------------
(***************************************************************************)
(* Theorems about Crawler, for any configurations, measures, periods and    *)
(* costs.  The scheduler and the Reporter of the crawler are instances, and *)
(* what is proved of them alone is used here: every step of the crawler is  *)
(* one of the scheduler or leaves it alone, and calls an operation of the   *)
(* Reporter or none.                                                        *)
(***************************************************************************)
EXTENDS Crawler, TLAPS, FiniteSetTheorems

SP == INSTANCE PeriodicSchedulerProofs WITH MaxCancels <- 0
RP == INSTANCE ReporterProofs WITH Instants <- Nat, MaxCalls <- 0, MaxPeriods <- 0

-------------------------------------------------------------------------------
(* The inductive invariant.                                                 *)

(* What is proved of the scheduler and of the Reporter, each by itself.     *)
SchedulerInv == SP!TypeOK /\ SP!Chain /\ SP!AllInTime
ReporterInv  == RP!TypeOK /\ reports \in Seq(ToSet(reports))

(* The instants of a task are an interval or more apart, but for the first  *)
(* one of a measure during whose first call the clock was set back.         *)
Spaced ==
  /\ rewound \subseteq Measures
  /\ \A t \in Tasks : \A i, j \in 1..Len(labels[t]) :
       i < j => \/ i = 1 /\ t \in rewound
                \/ labels[t][i] + Interval[t] <= labels[t][j]

(* Everything that the configuration asks for is there.                     *)
Complete ==
  /\ configured = Configured
  /\ Configured \cup {ReportGenerator} \subseteq tasks
  /\ ToSet(Executed) \cap Servers \subseteq connected

(* How far main() has come, and what is there by then: the loops have done  *)
(* all up to their position, and no task was called before the last is over.*)
Starting ==
  /\ main = "configure" =>
       /\ tasks = {} /\ next <= Len(Measured) + 1
       /\ configured = {Measured[i] : i \in 1..(next - 1)}
  /\ main \in {"rotate", "execute"} =>
       configured = Configured /\ ReportGenerator \in tasks
  /\ main = "rotate" => next = 1
  /\ main = "execute" =>
       /\ next <= Len(Executed) + 1
       /\ \A i \in 1..(next - 1) :
            /\ Executed[i] \in Measures => Executed[i] \in tasks
            /\ Executed[i] \in Servers => Executed[i] \in connected

Stage ==
  /\ main \in {"configure", "rotate", "execute", "running", "terminated"}
  /\ config \in Configs /\ next \in Nat \ {0}
  /\ Starting
  /\ tasks \cap Measures \subseteq Configured
  /\ main = "running" => Complete
  /\ main \in {"configure", "rotate", "execute"} => \A t \in Tasks : labels[t] = << >>
  /\ (\E t \in Tasks : labels[t] # << >>) => Complete
  /\ thrown => main = "terminated" /\ tasks = {}

(* A report is one call of the report task, and carries its instant.        *)
ReportsTimed ==
  /\ Len(reports) = Len(labels[ReportGenerator])
  /\ \A i \in 1..Len(reports) : reports[i].when = labels[ReportGenerator][i]

-------------------------------------------------------------------------------
(* The constants of the scheduler are what it assumes.                      *)

LEMMA SchedulerAssumed == SP!SchedulerAssumption
<1> USE CrawlerAssumption DEF CrawlerAssumption
<1>1. SP!IsFiniteSet(Tasks)
  <2>1. IsFiniteSet(Tasks)
    <3>1. IsFiniteSet(Measures \cup {ReportGenerator})
      BY FS_AddElement
    <3>2. IsFiniteSet((Measures \cup {ReportGenerator}) \cup {LogRotator})
      BY <3>1, FS_AddElement
    <3>3. Tasks = (Measures \cup {ReportGenerator}) \cup {LogRotator}
      BY DEF Tasks
    <3> QED BY <3>2, <3>3
  <2> QED BY <2>1 DEF IsFiniteSet, SP!IsFiniteSet
<1>2. /\ \A m \in Measures : Interval[m] = SamplingPeriod[m] /\ Mode[m] = "execute_at_start"
      /\ Interval[ReportGenerator] = ReportingPeriod
      /\ Mode[ReportGenerator] = "execute_at_multiples_of_period"
      /\ Interval[LogRotator] = LogRotationPeriod
      /\ Mode[LogRotator] = "skip_first_execution"
  BY DEF Interval, Mode, Tasks
<1>3. Interval \in [Tasks -> Nat \ {0}]
  <2>1. \A t \in Tasks : Interval[t] \in Nat \ {0}
    BY <1>2 DEF Tasks
  <2> DEFINE E(t) == CASE t = ReportGenerator -> ReportingPeriod
                       [] t = LogRotator      -> LogRotationPeriod
                       [] t \in Measures      -> SamplingPeriod[t]
  <2>2. Interval = [t \in Tasks |-> E(t)]
    BY DEF Interval
  <2> HIDE DEF E
  <2> QED BY <2>1, <2>2
<1>4. Mode \in [Tasks -> {"execute_at_multiples_of_period", "execute_at_start",
                          "skip_first_execution"}]
  <2>1. \A t \in Tasks : Mode[t] \in {"execute_at_multiples_of_period", "execute_at_start",
                                       "skip_first_execution"}
    BY <1>2 DEF Tasks
  <2> DEFINE E(t) == CASE t = ReportGenerator -> "execute_at_multiples_of_period"
                       [] t = LogRotator      -> "skip_first_execution"
                       [] t \in Measures      -> "execute_at_start"
  <2>2. Mode = [t \in Tasks |-> E(t)]
    BY DEF Mode
  <2> HIDE DEF E
  <2> QED BY <2>1, <2>2
<1>5. /\ MaxCost \in [Tasks -> Nat] /\ Second \in Nat \ {0}
      /\ MaxStart \in Nat /\ MaxClock \in Nat /\ MaxStart <= MaxClock /\ MaxSteps \in Nat
  OBVIOUS
<1> QED BY <1>1, <1>3, <1>4, <1>5 DEF SP!SchedulerAssumption

-------------------------------------------------------------------------------
(* Flattening.                                                              *)

(* f flattens the first n sequences of ss, one after the other.             *)
Flattens(f, ss, n) ==
  f = [i \in 1..n |-> IF i = 1 THEN ss[i] ELSE f[i - 1] \o ss[i]]

LEMMA FlatteningExists ==
  ASSUME NEW ss, NEW n \in Nat
  PROVE  \E f : Flattens(f, ss, n)
<1> DEFINE Ns == {k \in Nat : \E f : Flattens(f, ss, k)}
<1>1. 0 \in Ns
  <2>1. Flattens([i \in 1..0 |-> 0], ss, 0)
    BY DEF Flattens
  <2> QED BY <2>1
<1>2. ASSUME NEW k \in Nat, k \in Ns PROVE k + 1 \in Ns
  <2>1. PICK f : Flattens(f, ss, k)
    BY <1>2
  <2> DEFINE e == IF k + 1 = 1 THEN ss[k + 1] ELSE f[k] \o ss[k + 1]
             g == [i \in 1..(k + 1) |-> IF i = k + 1 THEN e ELSE f[i]]
             h == [i \in 1..(k + 1) |-> IF i = 1 THEN ss[i] ELSE g[i - 1] \o ss[i]]
  <2>2. \A i \in 1..(k + 1) : g[i] = h[i]
    <3> TAKE i \in 1..(k + 1)
    <3>1. CASE i = k + 1
      <4>1. CASE k = 0
        BY <3>1, <4>1
      <4>2. CASE k # 0
        <5>1. g[i - 1] = f[k]
          BY <3>1, <4>2
        <5> QED BY <3>1, <4>2, <5>1
      <4> QED BY <4>1, <4>2
    <3>2. CASE i # k + 1
      <4>1. i \in 1..k /\ g[i] = f[i]
        BY <3>2
      <4>2. f[i] = IF i = 1 THEN ss[i] ELSE f[i - 1] \o ss[i]
        BY <2>1, <4>1 DEF Flattens
      <4>3. i # 1 => g[i - 1] = f[i - 1]
        BY <4>1
      <4> QED BY <4>1, <4>2, <4>3
    <3> QED BY <3>1, <3>2
  <2>3. g = h
    <3> HIDE DEF e
    <3> QED BY <2>2
  <2>4. Flattens(g, ss, k + 1)
    <3> HIDE DEF g
    <3> QED BY <2>3 DEF Flattens
  <2> HIDE DEF g
  <2> QED BY <2>4
<1>3. n \in Ns
  <2> HIDE DEF Ns
  <2> QED BY <1>1, <1>2, SchedulerAssumed, SP!Induction
<1> QED BY <1>3

LEMMA FlattenSeqIs ==
  ASSUME NEW ss, Len(ss) \in Nat \ {0}
  PROVE  \E f : Flattens(f, ss, Len(ss)) /\ FlattenSeq(ss) = f[Len(ss)]
<1> DEFINE f == CHOOSE f : Flattens(f, ss, Len(ss))
<1>1. Flattens(f, ss, Len(ss))
  BY FlatteningExists
<1>2. FlattenSeq(ss) = f[Len(ss)]
  BY Zenon DEF FlattenSeq, Flattens
<1> QED BY <1>1, <1>2

LEMMA ToSetIs ==
  ASSUME NEW T, NEW s \in Seq(T)
  PROVE  /\ Len(s) \in Nat /\ ToSet(s) = {s[i] : i \in 1..Len(s)}
         /\ ToSet(s) \subseteq T
BY DEF ToSet

LEMMA ConcatElements ==
  ASSUME NEW T, NEW s \in Seq(T), NEW t \in Seq(T)
  PROVE  s \o t \in Seq(T) /\ ToSet(s \o t) = ToSet(s) \cup ToSet(t)
<1>1. s \o t \in Seq(T) /\ Len(s) \in Nat /\ Len(t) \in Nat /\ Len(s \o t) = Len(s) + Len(t)
  OBVIOUS
<1>2. /\ \A i \in 1..Len(s) : (s \o t)[i] = s[i]
      /\ \A i \in 1..Len(t) : (s \o t)[Len(s) + i] = t[i]
  OBVIOUS
<1> DEFINE c == s \o t
<1>3. /\ ToSet(s) = {s[i] : i \in 1..Len(s)} /\ ToSet(t) = {t[i] : i \in 1..Len(t)}
      /\ ToSet(c) = {c[i] : i \in 1..Len(c)}
  BY <1>1, ToSetIs
<1> HIDE DEF c
<1>4. \A i \in 1..Len(s) : s[i] \in ToSet(c)
  <2> TAKE i \in 1..Len(s)
  <2>1. i \in 1..Len(c) /\ c[i] = s[i]
    BY <1>1, <1>2 DEF c
  <2> QED BY <1>3, <2>1
<1>5. \A i \in 1..Len(t) : t[i] \in ToSet(c)
  <2> TAKE i \in 1..Len(t)
  <2>1. Len(s) + i \in 1..Len(c) /\ c[Len(s) + i] = t[i]
    BY <1>1, <1>2 DEF c
  <2> QED BY <1>3, <2>1
<1>6. \A i \in 1..Len(c) : c[i] \in ToSet(s) \cup ToSet(t)
  <2> TAKE i \in 1..Len(c)
  <2>1. CASE i \in 1..Len(s)
    <3>1. c[i] = s[i]
      BY <1>2, <2>1 DEF c
    <3> QED BY <1>3, <2>1, <3>1
  <2>2. CASE i \notin 1..Len(s)
    <3>1. i - Len(s) \in 1..Len(t) /\ Len(s) + (i - Len(s)) = i
      BY <1>1, <2>2 DEF c
    <3>2. c[i] = t[i - Len(s)]
      BY <1>2, <3>1 DEF c
    <3> QED BY <1>3, <3>1, <3>2
  <2> QED BY <2>1, <2>2
<1>7. ToSet(c) = ToSet(s) \cup ToSet(t)
  BY <1>3, <1>4, <1>5, <1>6
<1> QED BY <1>1, <1>7 DEF c

(* What is in a flattened sequence is in one of its parts, and conversely.  *)
LEMMA FlattenElements ==
  ASSUME NEW T, NEW ss \in Seq(Seq(T))
  PROVE  /\ FlattenSeq(ss) \in Seq(T)
         /\ ToSet(FlattenSeq(ss)) = UNION {ToSet(ss[i]) : i \in 1..Len(ss)}
<1>1. CASE Len(ss) = 0
  <2>1. FlattenSeq(ss) = ss /\ ss = << >>
    BY <1>1 DEF FlattenSeq
  <2> QED BY <1>1, <2>1 DEF ToSet
<1>2. CASE Len(ss) # 0
  <2>1. PICK f : Flattens(f, ss, Len(ss)) /\ FlattenSeq(ss) = f[Len(ss)]
    BY <1>2, FlattenSeqIs
  <2>2. \A i \in 1..Len(ss) : f[i] = IF i = 1 THEN ss[i] ELSE f[i - 1] \o ss[i]
    BY <2>1 DEF Flattens
  <2>3. \A i \in 1..Len(ss) : ss[i] \in Seq(T)
    OBVIOUS
  <2> DEFINE Parts(n) == UNION {ToSet(ss[i]) : i \in 1..n}
             Ns == {n \in Nat : n \in 1..Len(ss) =>
                                 f[n] \in Seq(T) /\ ToSet(f[n]) = Parts(n)}
  <2>4. 0 \in Ns
    OBVIOUS
  <2>5. ASSUME NEW n \in Nat, n \in Ns PROVE n + 1 \in Ns
    <3> SUFFICES ASSUME n + 1 \in 1..Len(ss)
                 PROVE  f[n + 1] \in Seq(T) /\ ToSet(f[n + 1]) = Parts(n + 1)
      OBVIOUS
    <3>1. CASE n = 0
      <4>1. Parts(1) = ToSet(ss[1])
        OBVIOUS
      <4>2. f[1] = ss[1] /\ ss[1] \in Seq(T)
        BY <2>2, <2>3, <3>1
      <4> HIDE DEF Parts
      <4> QED BY <3>1, <4>1, <4>2
    <3>2. CASE n # 0
      <4>1. n \in 1..Len(ss)
        BY <3>2
      <4>2. f[n] \in Seq(T) /\ ToSet(f[n]) = Parts(n)
        BY <2>5, <4>1
      <4>3. f[n + 1] = f[n] \o ss[n + 1] /\ ss[n + 1] \in Seq(T)
        <5>1. (n + 1) - 1 = n /\ n + 1 # 1
          BY <3>2
        <5> QED BY <2>2, <2>3, <5>1
      <4>4. Parts(n + 1) = Parts(n) \cup ToSet(ss[n + 1])
        <5>1. 1..(n + 1) = 1..n \cup {n + 1}
          OBVIOUS
        <5> QED BY <5>1
      <4> DEFINE u == f[n]
                 v == ss[n + 1]
      <4>5. u \in Seq(T) /\ v \in Seq(T)
        BY <4>2, <4>3
      <4> HIDE DEF Parts, u, v
      <4>6. u \o v \in Seq(T) /\ ToSet(u \o v) = ToSet(u) \cup ToSet(v)
        BY <4>5, ConcatElements
      <4> QED BY <4>2, <4>3, <4>4, <4>6 DEF u, v
    <3> QED BY <3>1, <3>2
  <2>6. Len(ss) \in Ns
    <3>1. Len(ss) \in Nat
      OBVIOUS
    <3> HIDE DEF Ns
    <3> QED BY <2>4, <2>5, <3>1, SchedulerAssumed, SP!Induction
  <2>7. f[Len(ss)] \in Seq(T) /\ ToSet(f[Len(ss)]) = Parts(Len(ss))
    <3>1. Len(ss) \in 1..Len(ss)
      BY <1>2
    <3> HIDE DEF Parts
    <3> QED BY <2>6, <3>1
  <2> QED BY <2>1, <2>7
<1> QED BY <1>1, <1>2

-------------------------------------------------------------------------------
(* The configuration.                                                       *)

LEMMA ConfigParts ==
  ASSUME config \in Configs
  PROVE  /\ Measured \in Seq(Measures) /\ Executed \in Seq(Servers \cup Measures)
         /\ ToSet(Executed) \cap Measures = Configured
<1> DEFINE ms == [i \in DOMAIN config |-> config[i].measures]
           es == [i \in DOMAIN config |-> <<config[i].server>> \o config[i].measures]
<1>1. /\ config \in Seq([server : Servers, measures : Seq(Measures)])
      /\ DOMAIN config = 1..Len(config) /\ Len(config) \in Nat
  <2> DEFINE D == [server : Servers, measures : Seq(Measures)]
  <2>1. Configs \subseteq Seq(D)
    BY CrawlerAssumption DEF CrawlerAssumption
  <2> HIDE DEF D
  <2>2. config \in Seq(D)
    BY <2>1
  <2>3. DOMAIN config = 1..Len(config) /\ Len(config) \in Nat
    BY <2>2
  <2> QED BY <2>2, <2>3 DEF D
<1>2. \A i \in 1..Len(config) :
        config[i].server \in Servers /\ config[i].measures \in Seq(Measures)
  <2> TAKE i \in 1..Len(config)
  <2> DEFINE D == [server : Servers, measures : Seq(Measures)]
  <2>1. config \in Seq(D)
    BY <1>1
  <2> HIDE DEF D
  <2>2. config[i] \in D
    BY <2>1
  <2> QED BY <2>2 DEF D
<1>3. ms \in Seq(Seq(Measures)) /\ Len(ms) = Len(config)
  BY <1>1, <1>2
<1>4. ASSUME NEW i \in 1..Len(config)
      PROVE  /\ es[i] \in Seq(Servers \cup Measures)
             /\ ToSet(es[i]) = {config[i].server} \cup ToSet(ms[i])
  <2> DEFINE a == <<config[i].server>>
             b == config[i].measures
  <2>1. a \in Seq(Servers \cup Measures) /\ b \in Seq(Servers \cup Measures)
    BY <1>2
  <2>2. ToSet(a) = {config[i].server}
    BY DEF ToSet
  <2>3. es[i] = a \o b /\ ms[i] = b
    BY <1>1
  <2> HIDE DEF a, b, es, ms
  <2> QED BY <2>1, <2>2, <2>3, ConcatElements
<1>5. es \in Seq(Seq(Servers \cup Measures)) /\ Len(es) = Len(config)
  <2>1. DOMAIN es = 1..Len(config)
    BY <1>1
  <2>2. \A i \in 1..Len(config) : es[i] \in Seq(Servers \cup Measures)
    BY <1>4
  <2> HIDE DEF es
  <2>3. es = [i \in 1..Len(config) |-> es[i]]
    BY <2>1 DEF es
  <2> QED BY <1>1, <2>1, <2>2, <2>3
<1>6. /\ Measured \in Seq(Measures)
      /\ Configured = UNION {ToSet(ms[i]) : i \in 1..Len(config)}
  <2> HIDE DEF ms
  <2> QED BY <1>3, FlattenElements DEF Measured, Configured, ms
<1>7. /\ Executed \in Seq(Servers \cup Measures)
      /\ ToSet(Executed) = UNION {ToSet(es[i]) : i \in 1..Len(config)}
  <2> HIDE DEF es
  <2> QED BY <1>5, FlattenElements DEF Executed, es
<1>8. ToSet(Executed) \cap Measures = Configured
  <2>1. \A i \in 1..Len(config) : ToSet(ms[i]) \subseteq Measures
    BY <1>2, <1>1 DEF ToSet
  <2>2. \A i \in 1..Len(config) : config[i].server \notin Measures
    BY <1>2, CrawlerAssumption DEF CrawlerAssumption
  <2>3. \A i \in 1..Len(config) : ToSet(es[i]) \cap Measures = ToSet(ms[i])
    <3> HIDE DEF es, ms
    <3> QED BY <1>4, <2>1, <2>2
  <2> HIDE DEF es, ms
  <2> QED BY <1>6, <1>7, <2>1, <2>3
<1> QED BY <1>6, <1>7, <1>8
-------------------------------------------------------------------------------
(* The scheduler.                                                           *)

(* The two instances of the scheduler are the same.                         *)
LEMMA SameScheduler ==
  /\ S!Init <=> SP!Init
  /\ S!Run <=> SP!Run
  /\ S!Tick <=> SP!Tick
  /\ S!SetClock <=> SP!SetClock
  /\ \A t : S!AddTask(t) <=> SP!AddTask(t)
  /\ \A t : S!StartAligned(t) <=> SP!StartAligned(t)
  /\ \A t : S!StartSkipping(t) <=> SP!StartSkipping(t)
  /\ \A t, d : S!StartImmediate(t, d) <=> SP!StartImmediate(t, d)
  /\ \A t, d : S!Execute(t, d) <=> SP!Execute(t, d)
  /\ \A t, w : S!StartImmediateReset(t, w) <=> SP!StartImmediateReset(t, w)
<1>1. /\ \A t, k : S!Op(t, k) = SP!Op(t, k)
      /\ \A e : S!Seconds(e) = SP!Seconds(e)
      /\ \A v, i : S!aligned_up(v, i) = SP!aligned_up(v, i)
  BY DEF S!Op, SP!Op, S!Seconds, SP!Seconds, S!aligned_up, SP!aligned_up
<1>2. /\ \A t, k, d : S!HandlerRuns(t, k, d) <=> SP!HandlerRuns(t, k, d)
      /\ \A t, e : S!Rearm(t, e) <=> SP!Rearm(t, e)
      /\ \A t, w : S!CallTask(t, w) <=> SP!CallTask(t, w)
  BY <1>1, Zenon DEF S!HandlerRuns, SP!HandlerRuns, S!Rearm, SP!Rearm, S!CallTask, SP!CallTask
<1>3. /\ S!Init <=> SP!Init
      /\ S!Run <=> SP!Run
      /\ S!Tick <=> SP!Tick
      /\ S!SetClock <=> SP!SetClock
  BY Zenon DEF S!Init, SP!Init, S!Run, SP!Run, S!Tick, SP!Tick, S!SetClock, SP!SetClock
<1>4. \A t : S!AddTask(t) <=> SP!AddTask(t)
  BY <1>1, Zenon DEF S!AddTask, SP!AddTask
<1>5. /\ \A t : S!StartAligned(t) <=> SP!StartAligned(t)
      /\ \A t : S!StartSkipping(t) <=> SP!StartSkipping(t)
  BY <1>1, <1>2, Zenon DEF S!StartAligned, SP!StartAligned, S!StartSkipping, SP!StartSkipping
<1>6. /\ \A t, d : S!StartImmediate(t, d) <=> SP!StartImmediate(t, d)
      /\ \A t, d : S!Execute(t, d) <=> SP!Execute(t, d)
  BY <1>1, <1>2, Zenon DEF S!StartImmediate, SP!StartImmediate, S!Execute, SP!Execute
<1>7. \A t, w : S!StartImmediateReset(t, w) <=> SP!StartImmediateReset(t, w)
  BY <1>1, <1>2, Zenon DEF S!StartImmediateReset, SP!StartImmediateReset
<1> QED BY <1>3, <1>4, <1>5, <1>6, <1>7

LEMMA SamePoll == S!Poll <=> SP!Poll
<1>1. \A D : S!Cardinality(D) = SP!Cardinality(D)
  BY Zenon DEF S!Cardinality, SP!Cardinality
<1>2. S!Due = SP!Due
  BY Zenon DEF S!Due, SP!Due
<1>3. \A D : S!ExpiryOrders(D) = SP!ExpiryOrders(D)
  BY <1>1, Zenon DEF S!ExpiryOrders, SP!ExpiryOrders
<1>4. \A t, k : S!Op(t, k) = SP!Op(t, k)
  BY DEF S!Op, SP!Op
<1> QED BY <1>2, <1>3, <1>4, Zenon DEF S!Poll, SP!Poll

(* Every step of the crawler is one of the scheduler, or leaves it alone.   *)
LEMMA SchedulerStep == [Next]_vars => [SP!Next]_(SP!vars)
<1> SUFFICES ASSUME [Next]_vars PROVE [SP!Next]_(SP!vars)
  OBVIOUS
<1>1. ASSUME UNCHANGED schedulerVars PROVE [SP!Next]_(SP!vars)
  BY <1>1 DEF schedulerVars, SP!vars
<1>2. CASE Start
  <2>1. CASE ConfigureMeasure \/ ConnectServer
    BY <1>1, <2>1 DEF ConfigureMeasure, ConnectServer
  <2>2. CASE AddReportGenerator \/ AddLogRotator \/ AddMeasure
    <3>1. \E t \in Tasks : S!AddTask(t)
      BY <2>2 DEF AddReportGenerator, AddLogRotator, AddMeasure, Tasks
    <3> QED BY <3>1, SameScheduler DEF SP!Next
  <2>3. CASE RunScheduler
    BY <2>3, SameScheduler DEF RunScheduler, SP!Next
  <2> QED BY <1>2, <2>1, <2>2, <2>3 DEF Start
<1>3. CASE Handler
  <2>1. MaxCost \in [Tasks -> Nat]
    BY CrawlerAssumption DEF CrawlerAssumption
  <2>2. ASSUME NEW t \in Tasks, NEW d \in 0..MaxClock, d <= MaxCost[t],
               S!StartImmediate(t, d) \/ S!Execute(t, d)
        PROVE  SP!Next
    <3>1. d \in 0..MaxCost[t]
      BY <2>1, <2>2
    <3> QED BY <2>2, <3>1, SameScheduler DEF SP!Next, SP!Thread, SP!Handler
  <2>3. ASSUME NEW t \in Tasks, S!StartAligned(t) \/ S!StartSkipping(t)
        PROVE  SP!Next
    BY <2>3, SameScheduler DEF SP!Next, SP!Thread, SP!Handler
  <2> QED BY <1>3, <2>2, <2>3 DEF Handler
<1>4. CASE Silent(S!Poll) \/ Silent(S!Tick) \/ Silent(S!SetClock)
  BY <1>4, SameScheduler, SamePoll DEF Silent, SP!Next, SP!Thread
<1>5. CASE FirstCallReset
  BY <1>5, SameScheduler DEF FirstCallReset, SP!Next
<1>6. CASE Over \/ UNCHANGED vars
  BY <1>1, <1>6 DEF Over, vars
<1> QED BY <1>2, <1>3, <1>4, <1>5, <1>6 DEF Next, Thread

LEMMA SchedulerInvInit == Init => SchedulerInv
BY SchedulerAssumed, SameScheduler, SP!TypeInit, SP!ChainInit, SP!InTimeInit
   DEF Init, SchedulerInv

LEMMA SchedulerInvStep ==
  SchedulerInv /\ [Next]_vars
    => SchedulerInv' /\ [SP!Metronomes!MetronomeNext]_<<labels, rewound>>
<1> SUFFICES ASSUME SchedulerInv, [Next]_vars
             PROVE  SchedulerInv' /\ [SP!Metronomes!MetronomeNext]_<<labels, rewound>>
  OBVIOUS
<1>1. [SP!Next]_(SP!vars)
  BY SchedulerStep
<1>2. SP!TypeOK /\ SP!Chain /\ SP!AllInTime
  BY DEF SchedulerInv
<1>3. SP!TypeOK' /\ SP!Chain' /\ SP!AllInTime' /\ [SP!Metronomes!MetronomeNext]_<<labels, rewound>>
  BY <1>1, <1>2, SchedulerAssumed, SP!Refinement
<1> QED BY <1>3 DEF SchedulerInv

LEMMA LabelTypes ==
  ASSUME SchedulerInv
  PROVE  /\ labels \in [Tasks -> Seq(Nat)] /\ tasks \in SUBSET Tasks
         /\ \A t \in Tasks : /\ labels[t] \in Seq(Nat) /\ Len(labels[t]) \in Nat
                            /\ \A i \in 1..Len(labels[t]) : labels[t][i] \in Nat
BY DEF SchedulerInv, SP!TypeOK

LEMMA IntervalTypes ==
  /\ \A t \in Tasks : Interval[t] \in Nat \ {0}
  /\ ReportGenerator \in Tasks /\ LogRotator \in Tasks /\ Measures \subseteq Tasks
  /\ Interval[ReportGenerator] = ReportingPeriod
<1>1. \A t \in Tasks : Interval[t] \in Nat \ {0}
  BY SchedulerAssumed DEF SP!SchedulerAssumption
<1>2. ReportGenerator \in Tasks /\ LogRotator \in Tasks /\ Measures \subseteq Tasks
  BY DEF Tasks
<1>3. Interval[ReportGenerator] = ReportingPeriod
  BY <1>2, CrawlerAssumption DEF Interval, CrawlerAssumption
<1> QED BY <1>1, <1>2, <1>3

(* One more instant of a task, and how far it is from the one before.       *)
Later(t, l) ==
  \/ labels[t] = << >>
  \/ Len(labels[t]) = 1 /\ t \in rewound
  \/ labels[t][Len(labels[t])] + Interval[t] <= l

LEMMA BeatIs ==
  ASSUME SchedulerInv, [SP!Metronomes!MetronomeNext]_<<labels, rewound>>
  PROVE  \/ UNCHANGED <<labels, rewound>>
         \/ \E t \in Tasks, l \in Nat :
              /\ labels' = [labels EXCEPT ![t] = Append(@, l)]
              /\ Later(t, l)
              /\ \/ rewound' = rewound
                 \/ t \in Measures /\ labels[t] = << >> /\ rewound' = rewound \cup {t}
<1>1. CASE UNCHANGED <<labels, rewound>>
  BY <1>1
<1>2. CASE SP!Metronomes!MetronomeNext
  <2>1. PICK t \in Tasks : SP!Metronomes!Beat(t)
    BY <1>2 DEF SP!Metronomes!MetronomeNext
  <2> DEFINE n == Len(labels[t])
             l == labels'[t][n + 1]
  <2>2. /\ l \in SP!Metronomes!NextInstants(t) /\ labels' = [labels EXCEPT ![t] = Append(@, l)]
        /\ \/ rewound' = rewound
           \/ /\ SP!Metronomes!Immediate(t) /\ labels[t] = << >>
              /\ rewound' = rewound \cup {t}
    BY <2>1 DEF SP!Metronomes!Beat
  <2>3. n \in Nat /\ (n # 0 => labels[t][n] \in Nat) /\ Interval[t] \in Nat
    BY LabelTypes, IntervalTypes
  <2>4. labels[t] # << >> => n # 0
    BY LabelTypes
  <2> HIDE DEF l
  <2>5. l \in Nat /\ Later(t, l)
    BY <2>2, <2>3, <2>4 DEF SP!Metronomes!NextInstants, Later
  <2>6. SP!Metronomes!Immediate(t) => t \in Measures
    BY CrawlerAssumption DEF SP!Metronomes!Immediate, Mode, Tasks, CrawlerAssumption
  <2> QED BY <2>2, <2>5, <2>6
<1> QED BY <1>1, <1>2

LEMMA SpacedStep ==
  ASSUME SchedulerInv, Spaced, [SP!Metronomes!MetronomeNext]_<<labels, rewound>>
  PROVE  Spaced'
<1>1. CASE UNCHANGED <<labels, rewound>>
  BY <1>1 DEF Spaced
<1>2. ASSUME NEW t \in Tasks, NEW l \in Nat,
             labels' = [labels EXCEPT ![t] = Append(@, l)], Later(t, l),
             \/ rewound' = rewound
             \/ t \in Measures /\ labels[t] = << >> /\ rewound' = rewound \cup {t}
      PROVE  Spaced'
  <2>0. rewound' \subseteq Measures /\ rewound \subseteq rewound'
    BY <1>2 DEF Spaced
  <2> SUFFICES ASSUME NEW u \in Tasks, NEW i \in 1..Len(labels'[u]), NEW j \in 1..Len(labels'[u]),
                      i < j, ~ (i = 1 /\ u \in rewound')
               PROVE  labels'[u][i] + Interval[u] <= labels'[u][j]
    BY <2>0 DEF Spaced
  <2>1. CASE u # t
    <3>1. labels'[u] = labels[u]
      BY <1>2, <2>1, LabelTypes
    <3> QED BY <2>0, <3>1 DEF Spaced
  <2>2. CASE u = t
    <3> DEFINE n == Len(labels[t])
    <3>1. /\ labels'[t] = Append(labels[t], l) /\ labels[t] \in Seq(Nat) /\ n \in Nat
          /\ Interval[t] \in Nat
      BY <1>2, LabelTypes, IntervalTypes
    <3>2. /\ Len(labels'[t]) = n + 1 /\ labels'[t][n + 1] = l
          /\ \A k \in 1..n : labels'[t][k] = labels[t][k] /\ labels[t][k] \in Nat
      BY <3>1
    <3>3. CASE j \in 1..n
      <4>1. i \in 1..n
        BY <2>2, <3>1, <3>2, <3>3
      <4> QED BY <2>0, <2>2, <3>2, <3>3, <4>1 DEF Spaced
    <3>4. CASE j = n + 1
      <4>1. i \in 1..n /\ labels[t] # << >>
        BY <2>2, <3>1, <3>2, <3>4
      <4>2. labels[t][i] <= labels[t][n]
        <5>1. CASE i = n
          BY <3>2, <4>1, <5>1
        <5>2. CASE i # n
          <6>1. i < n /\ n \in 1..n
            BY <3>1, <4>1, <5>2
          <6>2. labels[t][i] + Interval[t] <= labels[t][n]
            BY <2>0, <2>2, <4>1, <6>1 DEF Spaced
          <6> QED BY <3>1, <3>2, <4>1, <6>1, <6>2
        <5> QED BY <5>1, <5>2
      <4>3. labels[t][n] + Interval[t] <= l /\ n \in 1..n
        <5>1. ~ (n = 1 /\ t \in rewound)
          <6>1. ASSUME NEW k \in Nat, k = 1, NEW h \in 1..k PROVE h = 1
            BY <6>1
          <6>2. n = 1 => i = 1
            <7> HIDE DEF n
            <7> QED BY <3>1, <4>1, <6>1
          <6> QED BY <2>0, <2>2, <6>2
        <5>2. n \in 1..n
          BY <3>1, <4>1
        <5>3. labels[t][n] + Interval[t] <= l
          BY <1>2, <4>1, <5>1 DEF Later
        <5> QED BY <5>2, <5>3
      <4> HIDE DEF n
      <4>4. labels[t][i] \in Nat /\ labels[t][n] \in Nat
        BY <3>2, <4>1, <4>3
      <4> DEFINE a == labels[t][i]
                 b == labels[t][n]
                 d == Interval[t]
      <4>5. a \in Nat /\ b \in Nat /\ d \in Nat /\ a <= b /\ b + d <= l
        BY <3>1, <4>2, <4>3, <4>4
      <4> HIDE DEF a, b, d
      <4>6. a + d <= l
        BY <4>5
      <4> QED BY <2>2, <3>2, <3>4, <4>1, <4>6 DEF a, d
    <3> QED BY <2>2, <3>1, <3>2, <3>3, <3>4
  <2> QED BY <2>1, <2>2
<1> QED BY <1>1, <1>2, BeatIs

-------------------------------------------------------------------------------
(* The Reporter.                                                            *)

LEMMA ReporterAssumed == RP!ReporterAssumption
BY CrawlerAssumption DEF CrawlerAssumption, RP!ReporterAssumption

(* The two instances of the Reporter are the same.  Of close_period only    *)
(* the parts are: the statistics are taken from the library, and what is    *)
(* proved here does not depend on them.                                     *)
LEMMA SameReporter ==
  /\ R!Init <=> RP!Init
  /\ \A m : R!configure_measurement(m) <=> RP!configure_measurement(m)
  /\ \A m, w, v, k : R!add_measurement(m, w, v, k) <=> RP!add_measurement(m, w, v, k)
  /\ \A d : R!reset(d) = RP!reset(d)
  /\ \A w : R!to_compact_string(w) = RP!to_compact_string(w)
<1>1. R!Failures = RP!Failures /\ R!NoFailure = RP!NoFailure
  BY DEF R!Failures, RP!Failures, R!NoFailure, RP!NoFailure
<1>2. R!NewData = RP!NewData
  BY <1>1 DEF R!NewData, RP!NewData
<1>3. /\ \A d : R!reset(d) = RP!reset(d)
      /\ \A w : R!to_compact_string(w) = RP!to_compact_string(w)
  BY <1>1, Zenon DEF R!reset, RP!reset, R!to_compact_string, RP!to_compact_string
<1>4. R!Init <=> RP!Init
  BY <1>2, Zenon DEF R!Init, RP!Init
<1>5. \A m : R!configure_measurement(m) <=> RP!configure_measurement(m)
  BY Zenon DEF R!configure_measurement, RP!configure_measurement
<1>6. \A m, w, v, k : R!add_measurement(m, w, v, k) <=> RP!add_measurement(m, w, v, k)
  <2> TAKE m, w, v, k
  <2> QED BY <1>1 DEF R!add_measurement, RP!add_measurement
<1> QED BY <1>3, <1>4, <1>5, <1>6

LEMMA AppendElements ==
  ASSUME NEW s, s \in Seq(ToSet(s)), NEW x
  PROVE  /\ Append(s, x) \in Seq(ToSet(Append(s, x)))
         /\ Len(s) \in Nat /\ Len(Append(s, x)) = Len(s) + 1
         /\ \A i \in 1..Len(s) : Append(s, x)[i] = s[i]
         /\ Append(s, x)[Len(s) + 1] = x
<1> DEFINE T == ToSet(s) \cup {x}
           u == Append(s, x)
<1>1. s \in Seq(T) /\ x \in T
  OBVIOUS
<1> HIDE DEF T
<1>2. /\ u \in Seq(T) /\ Len(s) \in Nat /\ Len(u) = Len(s) + 1
      /\ \A i \in 1..Len(s) : u[i] = s[i]
      /\ u[Len(s) + 1] = x
  BY <1>1
<1> HIDE DEF u
<1>3. u \in Seq(ToSet(u))
  <2>1. ToSet(u) = {u[i] : i \in 1..Len(u)}
    BY <1>2, ToSetIs
  <2>2. u = [i \in 1..Len(u) |-> u[i]]
    BY <1>2
  <2>3. \A i \in 1..Len(u) : u[i] \in ToSet(u)
    BY <2>1
  <2>4. Len(u) \in Nat
    BY <1>2
  <2> QED BY <2>2, <2>3, <2>4
<1> QED BY <1>2, <1>3 DEF u

LEMMA ReporterInit == Init => ReporterInv
<1> SUFFICES ASSUME Init PROVE ReporterInv
  OBVIOUS
<1>1. RP!Init
  BY SameReporter DEF Init
<1>2. RP!TypeOK
  BY <1>1, ReporterAssumed, RP!InitTypes DEF RP!Inv, RP!Types
<1>3. reports \in Seq(ToSet(reports))
  BY <1>1 DEF RP!Init
<1> QED BY <1>2, <1>3 DEF ReporterInv

(* What the operations do to what the crawler's properties are about.       *)
LEMMA ConfigureIs ==
  ASSUME ReporterInv, NEW m \in Measures, R!configure_measurement(m)
  PROVE  /\ ReporterInv' /\ ~ thrown /\ thrown' = (m \in configured)
         /\ configured' = configured \cup {m}
         /\ UNCHANGED <<data, period_id, files, reports, added, cuts>>
<1>1. RP!configure_measurement(m)
  BY SameReporter
<1>2. RP!TypeOK'
  BY <1>1, ReporterAssumed, RP!ConfigureKeepsTypes DEF ReporterInv
<1> QED BY <1>1, <1>2 DEF ReporterInv, RP!configure_measurement

LEMMA MeasureTypes ==
  ASSUME ReporterInv, NEW m \in Measures
  PROVE  /\ added[m] \in Seq(RP!Sample) /\ Len(added[m]) \in Nat
         /\ DOMAIN added = Measures
         /\ data[m].total \in [RP!Failures -> Nat]
         /\ \A f \in RP!Failures : data[m].total[f] \in Nat
BY ReporterAssumed, RP!DataTypes DEF ReporterInv, RP!Counter, RP!TypeOK

LEMMA RegularIs ==
  ASSUME ReporterInv, NEW m \in Measures, NEW w \in Nat, NEW v \in Values,
         R!add_measurement(m, w, v, "regular")
  PROVE  /\ ReporterInv' /\ ~ thrown /\ thrown' = (m \notin configured)
         /\ UNCHANGED <<configured, period_id, files, reports, cuts>>
         /\ m \in configured =>
              /\ added' = [added EXCEPT ![m] = Append(@, [t |-> w, v |-> v])]
              /\ \A n \in Measures : data'[n].total = data[n].total
<1>1. RP!add_measurement(m, w, v, "regular") /\ RP!TypeOK
  BY SameReporter DEF ReporterInv
<1>2. UNCHANGED <<configured, period_id, files, reports, cuts>>
  BY <1>1, ReporterAssumed, RP!AddOthers
<1>3. RP!TypeOK'
  BY <1>1, ReporterAssumed, RP!RegularKeepsTypes
<1>4. ReporterInv'
  BY <1>2, <1>3 DEF ReporterInv
<1>5. ~ thrown /\ thrown' = (m \notin configured)
  BY <1>1 DEF RP!add_measurement
<1>6. ASSUME m \in configured
      PROVE  /\ added' = [added EXCEPT ![m] = Append(@, [t |-> w, v |-> v])]
             /\ \A n \in Measures : data'[n].total = data[n].total
  <2>1. /\ data' = [data EXCEPT ![m].samples = Append(@, [t |-> w, v |-> v])]
        /\ added' = [added EXCEPT ![m] = Append(@, [t |-> w, v |-> v])]
    BY <1>1, <1>6, ReporterAssumed, RP!AddRegular
  <2>2. \A n \in Measures : data'[n].total = data[n].total
    BY <1>1, <2>1 DEF RP!TypeOK
  <2> QED BY <2>1, <2>2
<1> QED BY <1>2, <1>4, <1>5, <1>6

LEMMA FailureIs ==
  ASSUME ReporterInv, NEW m \in Measures, NEW w \in Nat, NEW f \in RP!Failures,
         R!add_measurement(m, w, NaN, f)
  PROVE  /\ ReporterInv' /\ ~ thrown /\ thrown' = (m \notin configured)
         /\ UNCHANGED <<configured, period_id, files, reports, cuts>>
         /\ m \in configured =>
              /\ added' = added
              /\ data'[m].total = [data[m].total EXCEPT ![f] = @ + 1]
              /\ \A n \in Measures \ {m} : data'[n].total = data[n].total
<1>1. RP!add_measurement(m, w, NaN, f) /\ RP!TypeOK
  BY SameReporter DEF ReporterInv
<1>2. UNCHANGED <<configured, period_id, files, reports, cuts>>
  BY <1>1, ReporterAssumed, RP!AddOthers
<1>3. RP!TypeOK'
  BY <1>1, ReporterAssumed, RP!FailureKeepsTypes
<1>4. ReporterInv'
  BY <1>2, <1>3 DEF ReporterInv
<1>5. ~ thrown /\ thrown' = (m \notin configured)
  BY <1>1 DEF RP!add_measurement
<1>6. ASSUME m \in configured
      PROVE  /\ added' = added
             /\ data'[m].total = [data[m].total EXCEPT ![f] = @ + 1]
             /\ \A n \in Measures \ {m} : data'[n].total = data[n].total
  <2>1. /\ data'[m] = [samples |-> data[m].samples,
                       period  |-> [data[m].period EXCEPT ![f] = @ + 1],
                       total   |-> [data[m].total EXCEPT ![f] = @ + 1]]
        /\ \A n \in Measures \ {m} : data'[n] = data[n]
        /\ added' = added
    BY <1>1, <1>6, ReporterAssumed, RP!FailureIs
  <2> QED BY <2>1
<1> QED BY <1>2, <1>4, <1>5, <1>6

LEMMA CloseIs ==
  ASSUME ReporterInv, NEW w \in Nat, NEW o \in WriteOutcomes, R!close_period(w, o)
  PROVE  /\ ReporterInv' /\ ~ thrown /\ UNCHANGED <<configured, thrown, added>>
         /\ cuts' = Append(cuts, [m \in Measures |-> Len(added[m])])
         /\ \A m \in Measures : data'[m].total = data[m].total
         /\ Len(reports) \in Nat /\ Len(reports') = Len(reports) + 1
         /\ \A i \in 1..Len(reports) : reports'[i] = reports[i]
         /\ reports'[Len(reports) + 1].when = w /\ reports'[Len(reports) + 1].outcome = o
         /\ \A k \in DOMAIN files :
              k # w \div Minute => k \in DOMAIN files' /\ files'[k] = files[k]
         /\ o = "written" =>
              w \div Minute \in DOMAIN files' /\ files'[w \div Minute] = Len(reports) + 1
<1> DEFINE n == w \div Minute
           r == [when |-> w, period_id |-> period_id', outcome |-> o,
                 results |-> [m \in configured |-> R!Result(m)]]
           c == [m \in Measures |-> Len(added[m])]
<1>1. /\ ~ thrown /\ UNCHANGED <<configured, thrown, added>>
      /\ period_id' = period_id + 1
      /\ reports' = Append(reports, r) /\ cuts' = Append(cuts, c)
      /\ data' = [m \in Measures |-> IF m \in configured THEN R!reset(data[m]) ELSE data[m]]
      /\ \/ o = "written"   /\ files' = R!Written(n, period_id')
         \/ o = "truncated" /\ files' = R!Written(n, R!Garbled)
         \/ o = "unopened"  /\ UNCHANGED files
  BY DEF R!close_period, R!to_compact_string
<1>2. RP!TypeOK /\ reports \in Seq(ToSet(reports)) /\ Len(reports) = period_id
  BY DEF ReporterInv, RP!TypeOK
<1>3. /\ reports' \in Seq(ToSet(reports')) /\ Len(reports) \in Nat
      /\ Len(reports') = Len(reports) + 1
      /\ \A i \in 1..Len(reports) : reports'[i] = reports[i]
      /\ reports'[Len(reports) + 1] = r
  <2> HIDE DEF r
  <2> QED BY <1>1, <1>2, AppendElements
<1>4. n \in Nat
  BY CrawlerAssumption DEF CrawlerAssumption
<1> HIDE DEF n
<1>5. /\ \A k \in DOMAIN files : k # n => k \in DOMAIN files' /\ files'[k] = files[k]
      /\ o = "written" => n \in DOMAIN files' /\ files'[n] = Len(reports) + 1
  BY <1>1, <1>2 DEF R!Written
<1>6. /\ \A m \in Measures : data'[m].total = data[m].total
      /\ data' \in [Measures -> [samples : Seq(RP!Sample), period : RP!Counter,
                                 total : RP!Counter]]
  <2>1. \A m \in Measures : /\ data'[m] \in [samples : Seq(RP!Sample), period : RP!Counter,
                                             total : RP!Counter]
                             /\ data'[m].total = data[m].total
    <3> TAKE m \in Measures
    <3>1. data'[m] = IF m \in configured THEN RP!reset(data[m]) ELSE data[m]
      BY <1>1, SameReporter
    <3>2. /\ RP!reset(data[m]) = [samples |-> << >>, period |-> RP!NoFailure,
                                   total |-> data[m].total]
          /\ RP!reset(data[m]) \in [samples : Seq(RP!Sample), period : RP!Counter,
                                    total : RP!Counter]
      BY <1>2, ReporterAssumed, RP!ResetIs
    <3>3. RP!reset(data[m]).total = data[m].total
      BY <3>2
    <3>4. data[m] \in [samples : Seq(RP!Sample), period : RP!Counter, total : RP!Counter]
      BY <1>2, ReporterAssumed, RP!DataTypes
    <3> QED BY <3>1, <3>2, <3>3, <3>4
  <2>2. data' = [m \in Measures |-> data'[m]]
    BY <1>1
  <2> QED BY <2>1, <2>2
<1>7. DOMAIN files' \subseteq Nat /\ \A k \in DOMAIN files' : files'[k] \in 0..period_id'
  <2>1. /\ DOMAIN files \subseteq Nat /\ period_id \in Nat
        /\ \A k \in DOMAIN files : files[k] \in 0..(period_id + 1)
    BY <1>2 DEF RP!TypeOK
  <2>2. ASSUME NEW x \in 0..(period_id + 1), files' = R!Written(n, x)
        PROVE  DOMAIN files' \subseteq Nat
               /\ \A k \in DOMAIN files' : files'[k] \in 0..(period_id + 1)
    BY <1>4, <2>1, <2>2 DEF R!Written
  <2>3. R!Garbled \in 0..(period_id + 1) /\ period_id + 1 \in 0..(period_id + 1)
    BY <2>1 DEF R!Garbled
  <2> QED BY <1>1, <2>1, <2>2, <2>3
<1>8. cuts' \in Seq([Measures -> Nat]) /\ Len(cuts') = period_id + 1
  <2>1. c \in [Measures -> Nat]
    BY MeasureTypes
  <2>2. cuts \in Seq([Measures -> Nat]) /\ Len(cuts) = period_id
    BY <1>2 DEF RP!TypeOK
  <2> HIDE DEF c
  <2> QED BY <1>1, <2>1, <2>2
<1>9. RP!TypeOK'
  <2> HIDE DEF r, c
  <2> QED BY <1>1, <1>2, <1>3, <1>6, <1>7, <1>8 DEF RP!TypeOK
<1> QED BY <1>1, <1>3, <1>5, <1>6, <1>9 DEF ReporterInv, n

-------------------------------------------------------------------------------
(* The steps of the crawler: those of the start, the calls of the tasks,    *)
(* and the steps that change nothing of what the properties are about.      *)

Call(t, l) ==
  /\ main = "running" /\ t \in tasks
  /\ labels' = [labels EXCEPT ![t] = Append(@, l)]
  /\ Task(t, l)
  /\ main' = IF thrown' THEN "terminated" ELSE main
  /\ UNCHANGED <<config, next, connected, tasks>>

Quiet == UNCHANGED <<main, config, next, connected, tasks, labels, reporterVars>>

LEMMA CallIs ==
  ASSUME SchedulerInv, NEW t \in Tasks, NEW d, S!StartImmediate(t, d) \/ S!Execute(t, d)
  PROVE  /\ t \in tasks /\ tasks' = tasks
         /\ \E l \in Nat : labels' = [labels EXCEPT ![t] = Append(@, l)]
<1>1. SP!TypeOK /\ SP!Chain
  BY DEF SchedulerInv
<1>2. SP!Seconds(clock) \in Nat /\ SP!Seconds(expiry[t]) \in Nat
  BY <1>1, SchedulerAssumed, SP!SecondsType DEF SP!TypeOK
<1>3. CASE S!StartImmediate(t, d)
  <2>1. /\ SP!HandlerRuns(t, "start", d) /\ SP!CallTask(t, SP!Seconds(clock))
    BY <1>3, SameScheduler DEF SP!StartImmediate
  <2>2. t \in tasks /\ tasks' = tasks
    BY <1>1, <2>1, SchedulerAssumed, SP!HeadAlone DEF SP!HandlerRuns
  <2> QED BY <1>2, <2>1, <2>2 DEF SP!CallTask
<1>4. CASE S!Execute(t, d)
  <2>1. /\ SP!HandlerRuns(t, "expired", d) /\ SP!CallTask(t, SP!Seconds(expiry[t]))
    BY <1>4, SameScheduler DEF SP!Execute
  <2>2. t \in tasks /\ tasks' = tasks
    BY <1>1, <2>1, SchedulerAssumed, SP!HeadAlone DEF SP!HandlerRuns
  <2> QED BY <1>2, <2>1, <2>2 DEF SP!CallTask
<1> QED BY <1>3, <1>4

LEMMA ResetCallIs ==
  ASSUME SchedulerInv, NEW t \in Tasks, NEW w, S!StartImmediateReset(t, w)
  PROVE  /\ t \in tasks /\ tasks' = tasks
         /\ \E l \in Nat : labels' = [labels EXCEPT ![t] = Append(@, l)]
<1>1. SP!TypeOK /\ SP!Chain
  BY DEF SchedulerInv
<1>2. SP!Seconds(clock) \in Nat
  BY <1>1, SchedulerAssumed, SP!SecondsType DEF SP!TypeOK
<1>3. /\ ops # << >> /\ Head(ops) = SP!Op(t, "start") /\ tasks' = tasks
      /\ SP!CallTask(t, SP!Seconds(clock))
  BY SameScheduler DEF SP!StartImmediateReset
<1>4. t \in tasks
  BY <1>1, <1>3, SchedulerAssumed, SP!HeadAlone
<1> QED BY <1>2, <1>3, <1>4 DEF SP!CallTask

LEMMA HandlerIs ==
  ASSUME SchedulerInv, Handler \/ FirstCallReset
  PROVE  (\E t \in Tasks, l \in Nat : Call(t, l)) \/ Quiet
<1>1. ASSUME NEW t \in Tasks, NEW d, main = "running",
             S!StartImmediate(t, d) \/ S!Execute(t, d) \/ S!StartImmediateReset(t, d),
             Calls(t)
      PROVE  \E l \in Nat : Call(t, l)
  <2>1. t \in tasks /\ tasks' = tasks
    BY <1>1, CallIs, ResetCallIs
  <2>2. PICK l \in Nat : labels' = [labels EXCEPT ![t] = Append(@, l)]
    BY <1>1, CallIs, ResetCallIs
  <2>3. labels'[t][Len(labels'[t])] = l
    <3>1. labels'[t] = Append(labels[t], l) /\ labels[t] \in Seq(Nat)
      BY <2>2, LabelTypes
    <3> QED BY <3>1
  <2> QED BY <1>1, <2>1, <2>2, <2>3 DEF Calls, Call
<1>2. ASSUME NEW t \in Tasks, S!StartAligned(t) \/ S!StartSkipping(t),
             UNCHANGED <<main, config, next, connected, reporterVars>>
      PROVE  Quiet
  <2>1. tasks' = tasks /\ labels' = labels
    BY <1>2, SameScheduler DEF SP!StartAligned, SP!StartSkipping, SP!HandlerRuns
  <2> QED BY <1>2, <2>1 DEF Quiet
<1> QED BY <1>1, <1>2 DEF Handler, FirstCallReset

LEMMA StepIs ==
  ASSUME SchedulerInv, [Next]_vars
  PROVE  Start \/ (\E t \in Tasks, l \in Nat : Call(t, l)) \/ Quiet
<1>1. CASE Silent(S!Poll) \/ Silent(S!Tick) \/ Silent(S!SetClock)
  BY <1>1 DEF Silent, Quiet, S!Poll, S!Tick, S!SetClock
<1>2. CASE Over \/ UNCHANGED vars
  BY <1>2 DEF Over, vars, schedulerVars, Quiet
<1> QED BY <1>1, <1>2, HandlerIs DEF Next, Thread

(* Nothing is called while the crawler starts.                              *)
LEMMA StartIs ==
  ASSUME Start
  PROVE  /\ labels' = labels /\ config' = config
         /\ \/ ConfigureMeasure
            \/ UNCHANGED reporterVars
<1> USE DEF Start
<1>1. CASE ConfigureMeasure \/ ConnectServer
  BY <1>1 DEF ConfigureMeasure, ConnectServer, schedulerVars
<1>2. CASE AddReportGenerator \/ AddLogRotator \/ AddMeasure
  BY <1>2 DEF AddReportGenerator, AddLogRotator, AddMeasure, S!AddTask
<1>3. CASE RunScheduler
  BY <1>3 DEF RunScheduler, S!Run
<1> QED BY <1>1, <1>2, <1>3

LEMMA SameConfig ==
  ASSUME config' = config
  PROVE  Measured' = Measured /\ Executed' = Executed /\ Configured' = Configured
BY Zenon DEF Measured, Executed, Configured

LEMMA PositionTypes ==
  ASSUME Stage
  PROVE  /\ Len(Measured) \in Nat /\ Len(Executed) \in Nat
         /\ \A i \in 1..Len(Measured) : Measured[i] \in Measures
         /\ Configured = {Measured[i] : i \in 1..Len(Measured)}
         /\ ToSet(Executed) = {Executed[i] : i \in 1..Len(Executed)}
<1>1. Measured \in Seq(Measures) /\ Executed \in Seq(Servers \cup Measures)
  BY ConfigParts DEF Stage
<1>2. /\ Len(Measured) \in Nat /\ Configured = {Measured[i] : i \in 1..Len(Measured)}
      /\ Configured \subseteq Measures
  BY <1>1, ToSetIs DEF Configured
<1>3. Len(Executed) \in Nat /\ ToSet(Executed) = {Executed[i] : i \in 1..Len(Executed)}
  BY <1>1, ToSetIs
<1> QED BY <1>2, <1>3

(* What a call does to the Reporter: its measure is configured, so nothing  *)
(* is thrown.                                                               *)
RegularCall(t, l) ==
  /\ t \in Measures /\ UNCHANGED <<files, reports, cuts>>
  /\ \E v \in Values : added' = [added EXCEPT ![t] = Append(@, [t |-> l, v |-> v])]
  /\ \A n \in Measures : data'[n].total = data[n].total

FailedCall(t) ==
  /\ t \in Measures /\ UNCHANGED <<files, reports, added, cuts>>
  /\ \E f \in RP!Failures : data'[t].total = [data[t].total EXCEPT ![f] = @ + 1]
  /\ \A n \in Measures \ {t} : data'[n].total = data[n].total

ReportCall(t, l) ==
  /\ t = ReportGenerator /\ added' = added
  /\ cuts' = Append(cuts, [m \in Measures |-> Len(added[m])])
  /\ \A m \in Measures : data'[m].total = data[m].total
  /\ Len(reports) \in Nat /\ Len(reports') = Len(reports) + 1
  /\ \A i \in 1..Len(reports) : reports'[i] = reports[i]
  /\ reports'[Len(reports) + 1].when = l
  /\ \A k \in DOMAIN files :
       k # l \div Minute => k \in DOMAIN files' /\ files'[k] = files[k]
  /\ reports'[Len(reports) + 1].outcome = "written" =>
       l \div Minute \in DOMAIN files' /\ files'[l \div Minute] = Len(reports) + 1

RotateCall(t) == t = LogRotator /\ UNCHANGED reporterVars

LEMMA CallEffect ==
  ASSUME ReporterInv, Stage, NEW t \in Tasks, NEW l \in Nat, Call(t, l)
  PROVE  /\ ReporterInv' /\ thrown' = thrown /\ configured' = configured /\ main' = main
         /\ RegularCall(t, l) \/ FailedCall(t) \/ ReportCall(t, l) \/ RotateCall(t)
<1>1. /\ ~ thrown /\ thrown \in BOOLEAN
      /\ t \in tasks /\ (t \in Measures => t \in configured)
  BY DEF Stage, Complete, Call, ReporterInv, RP!TypeOK
<1>2. CASE t \in Measures /\ meas_task(t, l)
  <2>1. PICK result \in ReadResults :
          \/ \E v \in Values : result = "regular" /\ R!add_measurement(t, l, v, result)
          \/ result # "regular" /\ R!add_measurement(t, l, NaN, result)
    BY <1>2 DEF meas_task
  <2>2. ASSUME NEW v \in Values, R!add_measurement(t, l, v, "regular")
        PROVE  ReporterInv' /\ thrown' = thrown /\ configured' = configured /\ RegularCall(t, l)
    <3>1. /\ ReporterInv' /\ thrown' = (t \notin configured)
          /\ UNCHANGED <<configured, period_id, files, reports, cuts>>
          /\ added' = [added EXCEPT ![t] = Append(@, [t |-> l, v |-> v])]
          /\ \A n \in Measures : data'[n].total = data[n].total
      BY <1>1, <1>2, <2>2, RegularIs
    <3> QED BY <1>1, <1>2, <3>1 DEF RegularCall
  <2>3. ASSUME result # "regular", R!add_measurement(t, l, NaN, result)
        PROVE  ReporterInv' /\ thrown' = thrown /\ configured' = configured /\ FailedCall(t)
    <3>1. result \in RP!Failures
      BY <2>3, CrawlerAssumption DEF CrawlerAssumption, RP!Failures
    <3>2. /\ ReporterInv' /\ thrown' = (t \notin configured)
          /\ UNCHANGED <<configured, period_id, files, reports, cuts>>
          /\ added' = added
          /\ data'[t].total = [data[t].total EXCEPT ![result] = @ + 1]
          /\ \A n \in Measures \ {t} : data'[n].total = data[n].total
      BY <1>1, <1>2, <2>3, <3>1, FailureIs
    <3> QED BY <1>1, <1>2, <3>1, <3>2 DEF FailedCall
  <2> QED BY <1>1, <2>1, <2>2, <2>3 DEF Call
<1>3. CASE t = ReportGenerator /\ \E outcome \in WriteOutcomes : R!close_period(l, outcome)
  <2>1. PICK o \in WriteOutcomes : R!close_period(l, o)
    BY <1>3
  <2>2. /\ ReporterInv' /\ UNCHANGED <<configured, thrown, added>>
        /\ cuts' = Append(cuts, [m \in Measures |-> Len(added[m])])
        /\ \A m \in Measures : data'[m].total = data[m].total
        /\ Len(reports) \in Nat /\ Len(reports') = Len(reports) + 1
        /\ \A i \in 1..Len(reports) : reports'[i] = reports[i]
        /\ reports'[Len(reports) + 1].when = l /\ reports'[Len(reports) + 1].outcome = o
        /\ \A k \in DOMAIN files :
             k # l \div Minute => k \in DOMAIN files' /\ files'[k] = files[k]
        /\ o = "written" =>
             l \div Minute \in DOMAIN files' /\ files'[l \div Minute] = Len(reports) + 1
    BY <2>1, CloseIs
  <2>3. ReportCall(t, l)
    BY <1>3, <2>2 DEF ReportCall
  <2> QED BY <1>1, <2>2, <2>3 DEF Call
<1>4. CASE t = LogRotator /\ UNCHANGED reporterVars
  BY <1>1, <1>4 DEF Call, RotateCall, reporterVars, ReporterInv, RP!TypeOK
<1> QED BY <1>2, <1>3, <1>4 DEF Call, Task

LEMMA ReporterStep == SchedulerInv /\ Stage /\ ReporterInv /\ [Next]_vars => ReporterInv'
<1> SUFFICES ASSUME SchedulerInv, Stage, ReporterInv, [Next]_vars PROVE ReporterInv'
  OBVIOUS
<1>1. ASSUME UNCHANGED reporterVars PROVE ReporterInv'
  BY <1>1 DEF reporterVars, ReporterInv, RP!TypeOK
<1>2. CASE ConfigureMeasure
  <2>1. Measured[next] \in Measures
    BY <1>2, PositionTypes DEF ConfigureMeasure, Stage
  <2> QED BY <1>2, <2>1, ConfigureIs DEF ConfigureMeasure
<1>3. CASE Quiet
  BY <1>1, <1>3 DEF Quiet
<1> QED BY <1>1, <1>2, <1>3, StepIs, StartIs, CallEffect

LEMMA StageInit == Init => Stage
<1> SUFFICES ASSUME Init PROVE Stage
  OBVIOUS
<1>1. /\ main = "configure" /\ config \in Configs /\ next = 1
      /\ tasks = {} /\ labels = [t \in Tasks |-> << >>]
      /\ configured = {} /\ thrown = FALSE
  BY SameScheduler, SameReporter DEF Init, SP!Init, RP!Init
<1>2. Len(Measured) \in Nat
  BY <1>1, ConfigParts
<1>3. Starting
  BY <1>1, <1>2 DEF Starting
<1> QED BY <1>1, <1>3 DEF Stage

LEMMA StageStart ==
  ASSUME SchedulerInv, ReporterInv, Stage, Start
  PROVE  Stage'
<1>1. /\ labels' = labels /\ config' = config /\ config \in Configs
      /\ Measured' = Measured /\ Executed' = Executed /\ Configured' = Configured
      /\ next \in Nat \ {0}
  BY StartIs, SameConfig DEF Stage
<1>2. /\ main \in {"configure", "rotate", "execute"}
      /\ \A t \in Tasks : labels[t] = << >>
      /\ Starting /\ tasks \cap Measures \subseteq Configured /\ ~ thrown
  BY DEF Start, ConfigureMeasure, AddReportGenerator, AddLogRotator, ConnectServer,
         AddMeasure, RunScheduler, Stage
<1>3. /\ Len(Measured) \in Nat /\ Len(Executed) \in Nat
      /\ \A i \in 1..Len(Measured) : Measured[i] \in Measures
      /\ Configured = {Measured[i] : i \in 1..Len(Measured)}
      /\ ToSet(Executed) = {Executed[i] : i \in 1..Len(Executed)}
      /\ ToSet(Executed) \cap Measures = Configured
  BY PositionTypes, ConfigParts, <1>1
<1>4. SUFFICES /\ main' \in {"configure", "rotate", "execute", "running", "terminated"}
               /\ next' \in Nat \ {0}
               /\ Starting'
               /\ tasks' \cap Measures \subseteq Configured
               /\ main' = "running" => Complete'
               /\ thrown' => main' = "terminated" /\ tasks' = {}
  BY <1>1, <1>2 DEF Stage
<1>5. CASE ConfigureMeasure
  <2>1. /\ main = "configure" /\ next <= Len(Measured) /\ tasks' = tasks
        /\ R!configure_measurement(Measured[next])
        /\ main' = IF thrown' THEN "terminated" ELSE main
        /\ next' = next + 1
    BY <1>5 DEF ConfigureMeasure, schedulerVars
  <2>2. tasks = {} /\ configured = {Measured[i] : i \in 1..(next - 1)}
    BY <1>2, <2>1 DEF Starting
  <2>3. Measured[next] \in Measures
    BY <1>1, <1>3, <2>1
  <2>4. configured' = configured \cup {Measured[next]}
    BY <2>1, <2>3, ConfigureIs
  <2>5. configured' = {Measured[i] : i \in 1..(next' - 1)}
    <3>1. 1..(next' - 1) = 1..(next - 1) \cup {next}
      BY <1>1, <2>1
    <3> QED BY <2>2, <2>4, <3>1
  <2>6. Starting'
    BY <1>1, <1>3, <2>1, <2>2, <2>5 DEF Starting
  <2> QED BY <1>1, <1>2, <2>1, <2>2, <2>6
<1>6. CASE AddReportGenerator
  <2>1. /\ main = "configure" /\ next > Len(Measured)
        /\ tasks' = tasks \cup {ReportGenerator}
        /\ main' \in {"rotate", "execute"} /\ next' = 1
        /\ configured' = configured /\ thrown' = thrown
    BY <1>6 DEF AddReportGenerator, S!AddTask, reporterVars
  <2>2. tasks = {} /\ configured = Configured
    <3>1. next - 1 = Len(Measured)
      BY <1>1, <1>2, <1>3, <2>1 DEF Starting
    <3> QED BY <1>2, <1>3, <2>1, <3>1 DEF Starting
  <2>3. Starting'
    BY <1>1, <1>3, <2>1, <2>2 DEF Starting
  <2>4. ReportGenerator \notin Measures
    BY CrawlerAssumption DEF CrawlerAssumption
  <2> QED BY <1>2, <2>1, <2>2, <2>3, <2>4
<1>7. CASE AddLogRotator
  <2>1. /\ main = "rotate" /\ main' = "execute" /\ next' = next
        /\ tasks' = tasks \cup {LogRotator}
        /\ configured' = configured /\ thrown' = thrown /\ connected' = connected
    BY <1>7 DEF AddLogRotator, S!AddTask, reporterVars
  <2>2. LogRotator \notin Measures
    BY CrawlerAssumption DEF CrawlerAssumption
  <2>3. Starting'
    BY <1>1, <1>2, <1>3, <2>1 DEF Starting
  <2> QED BY <1>1, <1>2, <2>1, <2>2, <2>3
<1>8. CASE ConnectServer
  <2>1. /\ main = "execute" /\ next <= Len(Executed) /\ next' = next + 1
        /\ Executed[next] \in Servers
        /\ \/ connected' = connected \cup {Executed[next]} /\ main' = main
           \/ main' = "terminated"
        /\ tasks' = tasks /\ configured' = configured /\ thrown' = thrown
    BY <1>8 DEF ConnectServer, schedulerVars, reporterVars
  <2>2. Executed[next] \notin Measures
    BY <2>1, CrawlerAssumption DEF CrawlerAssumption
  <2>3. CASE main' = "terminated"
    BY <1>1, <1>2, <2>1, <2>3 DEF Starting
  <2>4. CASE connected' = connected \cup {Executed[next]} /\ main' = main
    <3>1. \A i \in 1..next : i \in 1..(next - 1) \/ i = next
      BY <1>1
    <3>2. /\ configured = Configured /\ ReportGenerator \in tasks
          /\ \A i \in 1..(next - 1) :
               /\ Executed[i] \in Measures => Executed[i] \in tasks
               /\ Executed[i] \in Servers => Executed[i] \in connected
      BY <1>2, <2>1 DEF Starting
    <3>3. \A i \in 1..next :
            /\ Executed[i] \in Measures => Executed[i] \in tasks
            /\ Executed[i] \in Servers => Executed[i] \in connected'
      BY <2>2, <2>4, <3>1, <3>2
    <3>4. 1..(next' - 1) = 1..next /\ next' <= Len(Executed) + 1 /\ main' = "execute"
      BY <1>1, <1>3, <2>1, <2>4
    <3>5. Starting'
      BY <1>1, <2>1, <3>2, <3>3, <3>4 DEF Starting
    <3> QED BY <1>1, <1>2, <2>1, <2>4, <3>5
  <2> QED BY <2>1, <2>3, <2>4
<1>9. CASE AddMeasure
  <2>1. /\ main = "execute" /\ next <= Len(Executed) /\ next' = next + 1 /\ main' = main
        /\ Executed[next] \in Measures /\ tasks' = tasks \cup {Executed[next]}
        /\ configured' = configured /\ thrown' = thrown /\ connected' = connected
    BY <1>9 DEF AddMeasure, S!AddTask, reporterVars
  <2>2. Executed[next] \notin Servers /\ Executed[next] \in Configured
    <3>1. Executed[next] \in ToSet(Executed)
      BY <1>1, <1>3, <2>1
    <3> QED BY <1>3, <2>1, <3>1, CrawlerAssumption DEF CrawlerAssumption
  <2>3. \A i \in 1..next : i \in 1..(next - 1) \/ i = next
    BY <1>1
  <2>4. Starting'
    BY <1>1, <1>2, <1>3, <2>1, <2>2, <2>3 DEF Starting
  <2> QED BY <1>1, <1>2, <2>1, <2>2, <2>4
<1>10. CASE RunScheduler
  <2>1. /\ main = "execute" /\ next > Len(Executed) /\ next' = next /\ main' = "running"
        /\ tasks' = tasks /\ configured' = configured /\ thrown' = thrown
        /\ connected' = connected
    BY <1>10 DEF RunScheduler, S!Run, reporterVars
  <2>2. /\ configured = Configured /\ ReportGenerator \in tasks
        /\ next - 1 = Len(Executed)
        /\ \A i \in 1..(next - 1) : /\ Executed[i] \in Measures => Executed[i] \in tasks
                                    /\ Executed[i] \in Servers => Executed[i] \in connected
    BY <1>1, <1>2, <1>3, <2>1 DEF Starting
  <2>3. Configured \subseteq tasks
    BY <1>3, <2>2
  <2>4. ToSet(Executed) \cap Servers \subseteq connected
    BY <1>3, <2>2
  <2>5. Complete'
    BY <1>1, <2>1, <2>2, <2>3, <2>4 DEF Complete
  <2>6. Starting'
    BY <2>1 DEF Starting
  <2> QED BY <1>1, <1>2, <2>1, <2>5, <2>6
<1> QED BY <1>5, <1>6, <1>7, <1>8, <1>9, <1>10 DEF Start

LEMMA StageStep == SchedulerInv /\ ReporterInv /\ Stage /\ [Next]_vars => Stage'
<1> SUFFICES ASSUME SchedulerInv, ReporterInv, Stage, [Next]_vars PROVE Stage'
  OBVIOUS
<1>1. ASSUME NEW t \in Tasks, NEW l \in Nat, Call(t, l)
      PROVE  Stage'
  <2>1. /\ thrown' = thrown /\ configured' = configured /\ main' = main
        /\ main = "running" /\ UNCHANGED <<config, next, connected, tasks>>
    BY <1>1, CallEffect DEF Call
  <2>2. Measured' = Measured /\ Executed' = Executed /\ Configured' = Configured
    BY <2>1, SameConfig
  <2>3. Complete /\ Complete' /\ Starting'
    BY <2>1, <2>2 DEF Stage, Complete, Starting
  <2> QED BY <2>1, <2>2, <2>3 DEF Stage
<1>2. CASE Quiet
  <2>1. /\ UNCHANGED <<main, config, next, connected, tasks, labels, configured, thrown>>
        /\ Measured' = Measured /\ Executed' = Executed /\ Configured' = Configured
    BY <1>2, SameConfig DEF Quiet, reporterVars
  <2>2. (Starting <=> Starting') /\ (Complete <=> Complete')
    BY <2>1 DEF Starting, Complete
  <2> QED BY <2>1, <2>2 DEF Stage
<1> QED BY <1>1, <1>2, StepIs, StageStart

-------------------------------------------------------------------------------
(* The instants of the samples and of the reports.                          *)

(* The calls of a measure: its samples a, and its failures b, c and d.      *)
CallParts(m, a, b, c, d) ==
  /\ a = Len(added[m]) /\ b = data[m].total["read_failure"]
  /\ c = data[m].total["underflow"] /\ d = data[m].total["overflow"]

LEMMA CallsAre ==
  ASSUME ReporterInv, NEW m \in Measures
  PROVE  /\ \E a, b, c, d \in Nat : CallParts(m, a, b, c, d)
         /\ \A a, b, c, d : CallParts(m, a, b, c, d) => R!Calls(m) = a + b + c + d
<1>1. \A f \in {"read_failure", "underflow", "overflow"} : data[m].total[f] \in Nat
  BY MeasureTypes DEF RP!Failures
<1> QED BY <1>1, MeasureTypes DEF R!Calls, CallParts

(* A measure that is not called keeps its calls.                            *)
LEMMA NotCalled ==
  ASSUME ReporterInv, NEW m \in Measures, EveryCallCounted,
         labels'[m] = labels[m], added'[m] = added[m], data'[m].total = data[m].total,
         rewound \subseteq rewound'
  PROVE  /\ Len(labels'[m]) = R!Calls(m)'
         /\ \A j \in 1..Len(added'[m]) : Traced(m, j)'
<1>1. R!Calls(m)' = R!Calls(m)
  BY DEF R!Calls
<1> QED BY <1>1 DEF EveryCallCounted, Traced

LEMMA LastLabel ==
  ASSUME SchedulerInv, NEW t \in Tasks, NEW l \in Nat,
         labels' = [labels EXCEPT ![t] = Append(@, l)]
  PROVE  /\ Len(labels[t]) \in Nat /\ Len(labels'[t]) = Len(labels[t]) + 1
         /\ labels'[t][Len(labels[t]) + 1] = l
         /\ \A i \in 1..Len(labels[t]) : labels'[t][i] = labels[t][i]
         /\ \A u \in Tasks \ {t} : labels'[u] = labels[u]
<1>1. labels'[t] = Append(labels[t], l) /\ \A u \in Tasks \ {t} : labels'[u] = labels[u]
  BY LabelTypes
<1>2. labels[t] \in Seq(Nat)
  BY LabelTypes
<1> QED BY <1>1, <1>2

(* The new instant of a task comes an interval or more after all others, but*)
(* for the first of a measure during whose first call the clock was set back*)
LEMMA LabelIsLast ==
  ASSUME SchedulerInv, Spaced', NEW t \in Tasks, NEW l \in Nat,
         labels' = [labels EXCEPT ![t] = Append(@, l)]
  PROVE  \A i \in 1..Len(labels[t]) :
           \/ i = 1 /\ t \in rewound'
           \/ labels[t][i] + Interval[t] <= l
<1> TAKE i \in 1..Len(labels[t])
<1> DEFINE n == Len(labels[t]) + 1
<1>1. /\ Len(labels[t]) \in Nat /\ Len(labels'[t]) = n /\ labels'[t][n] = l
      /\ labels'[t][i] = labels[t][i]
  BY LastLabel
<1>2. n \in 1..Len(labels'[t]) /\ i \in 1..Len(labels'[t]) /\ i < n
  BY <1>1
<1>3. (i = 1 /\ t \in rewound') \/ labels'[t][i] + Interval[t] <= labels'[t][n]
  BY <1>2 DEF Spaced
<1> QED BY <1>1, <1>3

LEMMA CountedStep ==
  ASSUME SchedulerInv, Spaced', rewound \subseteq rewound', ReporterInv, Stage,
         EveryCallCounted, [Next]_vars
  PROVE  EveryCallCounted'
<1>1. ASSUME UNCHANGED <<labels, added, data>> PROVE EveryCallCounted'
  BY <1>1, NotCalled DEF EveryCallCounted
<1>2. CASE Start
  <2>1. labels' = labels /\ (ConfigureMeasure \/ UNCHANGED reporterVars)
    BY <1>2, StartIs
  <2>2. CASE ConfigureMeasure
    <3>1. Measured[next] \in Measures
      BY <2>2, PositionTypes DEF ConfigureMeasure, Stage
    <3>2. UNCHANGED <<added, data>>
      BY <2>2, <3>1, ConfigureIs DEF ConfigureMeasure
    <3> QED BY <1>1, <2>1, <3>2
  <2>3. CASE UNCHANGED reporterVars
    BY <1>1, <2>1, <2>3 DEF reporterVars
  <2> QED BY <2>1, <2>2, <2>3
<1>3. CASE Quiet
  BY <1>1, <1>3 DEF Quiet, reporterVars
<1>4. ASSUME NEW t \in Tasks, NEW l \in Nat, Call(t, l)
      PROVE  EveryCallCounted'
  <2>1. /\ ReporterInv'
        /\ RegularCall(t, l) \/ FailedCall(t) \/ ReportCall(t, l) \/ RotateCall(t)
    BY <1>4, CallEffect
  <2>2. labels' = [labels EXCEPT ![t] = Append(@, l)]
    BY <1>4 DEF Call
  <2>3. /\ Len(labels[t]) \in Nat /\ Len(labels'[t]) = Len(labels[t]) + 1
        /\ labels'[t][Len(labels[t]) + 1] = l
        /\ \A i \in 1..Len(labels[t]) : labels'[t][i] = labels[t][i]
        /\ \A u \in Tasks \ {t} : labels'[u] = labels[u]
    BY <2>2, LastLabel
  <2> SUFFICES ASSUME NEW m \in Measures
               PROVE  /\ Len(labels'[m]) = R!Calls(m)'
                      /\ \A j \in 1..Len(added'[m]) : Traced(m, j)'
    BY DEF EveryCallCounted
  <2>4. /\ m \in Tasks /\ Len(labels[m]) = R!Calls(m)
        /\ \A j \in 1..Len(added[m]) : Traced(m, j)
    BY DEF EveryCallCounted, Tasks
  <2>5. CASE m # t
    <3>1. added'[m] = added[m] /\ data'[m].total = data[m].total
      BY <2>1, <2>5, MeasureTypes DEF RegularCall, FailedCall, ReportCall, RotateCall,
         reporterVars
    <3> QED BY <2>3, <2>4, <2>5, <3>1, NotCalled
  <2>6. CASE m = t /\ RegularCall(t, l)
    <3>1. PICK v \in Values : added' = [added EXCEPT ![t] = Append(@, [t |-> l, v |-> v])]
      BY <2>6 DEF RegularCall
    <3> DEFINE x == [t |-> l, v |-> v]
               n == Len(added[m])
    <3>2. /\ added'[m] = Append(added[m], x) /\ added[m] \in Seq(RP!Sample) /\ n \in Nat
          /\ x \in RP!Sample /\ x.t = l
      BY <2>6, <3>1, MeasureTypes DEF RP!Sample
    <3> HIDE DEF x
    <3>3. /\ Len(added'[m]) = n + 1 /\ added'[m][n + 1] = x
          /\ \A j \in 1..n : added'[m][j] = added[m][j]
      BY <3>2
    <3>4. Len(labels'[m]) = R!Calls(m)'
      <4>1. data'[m].total = data[m].total
        BY <2>6 DEF RegularCall
      <4>2. PICK a, b, c, d \in Nat : CallParts(m, a, b, c, d)
        BY CallsAre
      <4>3. CallParts(m, a + 1, b, c, d)'
        BY <3>3, <4>1, <4>2 DEF CallParts
      <4>4. R!Calls(m) = a + b + c + d
        BY <4>2, CallsAre
      <4>5. R!Calls(m)' = (a + 1) + b + c + d
        BY <4>3 DEF R!Calls, CallParts
      <4>6. R!Calls(m)' = R!Calls(m) + 1
        BY <4>4, <4>5
      <4> QED BY <2>3, <2>4, <2>6, <4>6
    <3>5. ASSUME NEW j \in 1..n
          PROVE  Traced(m, j)'
      <4>1. PICK i \in j..Len(labels[m]) : added[m][j].t = labels[m][i]
        BY <2>4 DEF Traced
      <4>2. i \in j..Len(labels'[m]) /\ labels'[m][i] = labels[m][i]
            /\ labels'[m][1] = labels[m][1]
        BY <2>3, <2>6, <4>1
      <4>3. j > 1 => added'[m][j - 1] = added[m][j - 1] /\ added'[m][1] = added[m][1]
        BY <3>2, <3>3
      <4> QED BY <2>4, <3>3, <4>1, <4>2, <4>3 DEF Traced
    <3>6. ASSUME NEW j, j = n + 1
          PROVE  Traced(m, j)'
      <4>1. added'[m][j].t = l
        BY <3>2, <3>3, <3>6
      <4>2. j <= Len(labels'[m])
        <5>1. PICK a, b, c, d \in Nat : CallParts(m, a, b, c, d)
          BY CallsAre
        <5>2. Len(labels[m]) = a + b + c + d /\ a = n
          BY <2>4, <5>1, CallsAre DEF CallParts
        <5> QED BY <2>3, <2>6, <3>6, <5>1, <5>2
      <4>3. \E i \in j..Len(labels'[m]) : added'[m][j].t = labels'[m][i]
        <5>1. Len(labels'[m]) \in j..Len(labels'[m])
          BY <2>3, <2>6, <3>2, <3>6, <4>2
        <5> QED BY <2>3, <2>6, <4>1, <5>1
      <4>4. ASSUME j > 1
            PROVE  \/ added'[m][j - 1].t < added'[m][j].t
                   \/ j = 2 /\ m \in rewound' /\ added'[m][1].t = labels'[m][1]
        <5>1. j - 1 = n /\ n \in 1..n
          BY <3>2, <3>6, <4>4
        <5>2. PICK i \in n..Len(labels[m]) : added[m][n].t = labels[m][i]
          BY <2>4, <5>1 DEF Traced
        <5>3. i \in 1..Len(labels[m]) /\ labels'[m][i] = labels[m][i]
          BY <2>3, <2>6, <5>1, <5>2
        <5>4. (i = 1 /\ m \in rewound') \/ labels[m][i] + Interval[m] <= l
          BY <2>2, <2>6, <5>3, LabelIsLast
        <5>5. CASE labels[m][i] + Interval[m] <= l
          <6>1. labels[m][i] < l
            BY <2>4, <5>3, <5>5, LabelTypes, IntervalTypes
          <6> QED BY <3>3, <4>1, <5>1, <5>2, <6>1
        <5>6. CASE i = 1 /\ m \in rewound'
          <6>1. n = 1
            <7>1. n \in Nat /\ Len(labels[m]) \in Nat /\ i >= n
              BY <2>3, <2>6, <3>2, <5>2
            <7>2. 1 <= n /\ i = 1
              BY <5>1, <5>6
            <7> HIDE DEF n
            <7> QED BY <7>1, <7>2
          <6> QED BY <3>3, <3>6, <5>2, <5>3, <5>6, <6>1
        <5> QED BY <5>4, <5>5, <5>6
      <4> QED BY <4>3, <4>4 DEF Traced
    <3>7. \A j \in 1..Len(added'[m]) : j \in 1..n \/ j = n + 1
      BY <3>2, <3>3
    <3> QED BY <3>4, <3>5, <3>6, <3>7
  <2>7. CASE m = t /\ FailedCall(t)
    <3>1. PICK f \in RP!Failures : data'[m].total = [data[m].total EXCEPT ![f] = @ + 1]
      BY <2>7 DEF FailedCall
    <3>2. added'[m] = added[m]
      BY <2>7 DEF FailedCall
    <3>3. R!Calls(m)' = R!Calls(m) + 1
      <4>1. PICK a, b, c, d \in Nat : CallParts(m, a, b, c, d)
        BY CallsAre
      <4>2. \A g \in RP!Failures :
              data'[m].total[g] = IF g = f THEN data[m].total[g] + 1 ELSE data[m].total[g]
        BY <3>1, MeasureTypes
      <4>3. \/ CallParts(m, a, b + 1, c, d)'
            \/ CallParts(m, a, b, c + 1, d)'
            \/ CallParts(m, a, b, c, d + 1)'
        BY <3>2, <4>1, <4>2 DEF CallParts, RP!Failures
      <4>4. R!Calls(m) = a + b + c + d
        BY <4>1, CallsAre
      <4>5. \/ R!Calls(m)' = a + (b + 1) + c + d
            \/ R!Calls(m)' = a + b + (c + 1) + d
            \/ R!Calls(m)' = a + b + c + (d + 1)
        BY <4>3 DEF R!Calls, CallParts
      <4> QED BY <4>4, <4>5
    <3>4. Len(labels'[m]) = R!Calls(m)'
      BY <2>3, <2>4, <2>7, <3>3
    <3>5. ASSUME NEW j \in 1..Len(added[m])
          PROVE  Traced(m, j)'
      <4>1. PICK i \in j..Len(labels[m]) : added[m][j].t = labels[m][i]
        BY <2>4 DEF Traced
      <4>2. i \in j..Len(labels'[m]) /\ labels'[m][i] = labels[m][i]
            /\ labels'[m][1] = labels[m][1]
        BY <2>3, <2>7, <4>1
      <4> QED BY <2>4, <3>2, <4>1, <4>2 DEF Traced
    <3> QED BY <3>2, <3>4, <3>5
  <2>8. ~ (m = t /\ (ReportCall(t, l) \/ RotateCall(t)))
    BY CrawlerAssumption DEF CrawlerAssumption, ReportCall, RotateCall
  <2> QED BY <2>1, <2>5, <2>6, <2>7, <2>8
<1> QED BY <1>2, <1>3, <1>4, StepIs

LEMMA CountedInit == Init => EveryCallCounted
<1> SUFFICES ASSUME Init, NEW m \in Measures
             PROVE  Len(labels[m]) = R!Calls(m) /\ added[m] = << >>
  BY DEF EveryCallCounted
<1>1. labels = [t \in Tasks |-> << >>] /\ added = [n \in Measures |-> << >>]
      /\ data = [n \in Measures |-> R!NewData]
  BY DEF Init, S!Init, R!Init
<1>2. m \in Tasks
  BY DEF Tasks
<1>3. \A f \in {"read_failure", "underflow", "overflow"} : data[m].total[f] = 0
  BY <1>1 DEF R!NewData, R!NoFailure, R!Failures
<1> QED BY <1>1, <1>2, <1>3 DEF R!Calls

(* The reports change in a call of the report task alone.                   *)
LEMMA ReportsAre ==
  ASSUME SchedulerInv, ReporterInv, Stage, [Next]_vars
  PROVE  \/ UNCHANGED <<files, reports>> /\ labels'[ReportGenerator] = labels[ReportGenerator]
         \/ \E l \in Nat :
              /\ labels' = [labels EXCEPT ![ReportGenerator] = Append(@, l)]
              /\ ReportCall(ReportGenerator, l)
<1>1. CASE Start
  <2>1. labels' = labels /\ (ConfigureMeasure \/ UNCHANGED reporterVars)
    BY <1>1, StartIs
  <2>2. CASE ConfigureMeasure
    <3>1. Measured[next] \in Measures
      BY <2>2, PositionTypes DEF ConfigureMeasure, Stage
    <3> QED BY <2>1, <2>2, <3>1, ConfigureIs DEF ConfigureMeasure
  <2> QED BY <2>1, <2>2 DEF reporterVars
<1>2. CASE Quiet
  BY <1>2 DEF Quiet, reporterVars
<1>3. ASSUME NEW t \in Tasks, NEW l \in Nat, Call(t, l)
      PROVE  \/ UNCHANGED <<files, reports>>
                /\ labels'[ReportGenerator] = labels[ReportGenerator]
             \/ /\ labels' = [labels EXCEPT ![ReportGenerator] = Append(@, l)]
                /\ ReportCall(ReportGenerator, l)
  <2>1. RegularCall(t, l) \/ FailedCall(t) \/ ReportCall(t, l) \/ RotateCall(t)
    BY <1>3, CallEffect
  <2>2. labels' = [labels EXCEPT ![t] = Append(@, l)]
    BY <1>3 DEF Call
  <2>3. CASE ReportCall(t, l)
    BY <2>2, <2>3 DEF ReportCall
  <2>4. CASE RegularCall(t, l) \/ FailedCall(t) \/ RotateCall(t)
    <3>1. t # ReportGenerator /\ UNCHANGED <<files, reports>>
      BY <2>4, CrawlerAssumption
         DEF CrawlerAssumption, RegularCall, FailedCall, RotateCall, reporterVars
    <3> QED BY <2>2, <3>1, LastLabel, IntervalTypes
  <2> QED BY <2>1, <2>3, <2>4
<1> QED BY <1>1, <1>2, <1>3, StepIs

LEMMA TimedStep ==
  ASSUME SchedulerInv, ReporterInv, Stage, ReportsTimed, [Next]_vars
  PROVE  ReportsTimed'
<1>1. CASE UNCHANGED <<files, reports>> /\ labels'[ReportGenerator] = labels[ReportGenerator]
  BY <1>1 DEF ReportsTimed
<1>2. ASSUME NEW l \in Nat, labels' = [labels EXCEPT ![ReportGenerator] = Append(@, l)],
             ReportCall(ReportGenerator, l)
      PROVE  ReportsTimed'
  <2> DEFINE n == Len(reports)
  <2>1. /\ n \in Nat /\ Len(reports') = n + 1 /\ reports'[n + 1].when = l
        /\ \A i \in 1..n : reports'[i] = reports[i]
    BY <1>2 DEF ReportCall
  <2>2. /\ n = Len(labels[ReportGenerator])
        /\ \A i \in 1..n : reports[i].when = labels[ReportGenerator][i]
    BY DEF ReportsTimed
  <2>3. /\ Len(labels'[ReportGenerator]) = n + 1 /\ labels'[ReportGenerator][n + 1] = l
        /\ \A i \in 1..n : labels'[ReportGenerator][i] = labels[ReportGenerator][i]
    <3> DEFINE k == Len(labels[ReportGenerator])
    <3>1. /\ k \in Nat /\ Len(labels'[ReportGenerator]) = k + 1
          /\ labels'[ReportGenerator][k + 1] = l
          /\ \A i \in 1..k : labels'[ReportGenerator][i] = labels[ReportGenerator][i]
      BY <1>2, LastLabel, IntervalTypes
    <3> HIDE DEF n
    <3> QED BY <2>2, <3>1
  <2>4. \A i \in 1..(n + 1) : i \in 1..n \/ i = n + 1
    BY <2>1
  <2> HIDE DEF n
  <2> QED BY <2>1, <2>2, <2>3, <2>4 DEF ReportsTimed
<1> QED BY <1>1, <1>2, ReportsAre

LEMMA LaterMinute ==
  ASSUME NEW a \in Nat, NEW b \in Nat, NEW k \in Nat, NEW c \in Nat \ {0},
         c <= k, a + k <= b
  PROVE  a \div c # b \div c
<1>1. (a + c) \div c = (a \div c) + 1
  OBVIOUS
<1>2. (a + c) \div c <= b \div c
  OBVIOUS
<1>3. a \div c \in Nat /\ b \div c \in Nat
  OBVIOUS
<1> QED BY <1>1, <1>2, <1>3

LEMMA KeptStep ==
  ASSUME ReportingPeriod >= Minute,
         SchedulerInv, Spaced', ReporterInv, Stage, ReportsTimed, ReportsKept, [Next]_vars
  PROVE  ReportsKept'
<1>1. CASE UNCHANGED <<files, reports>>
  BY <1>1 DEF ReportsKept, R!to_compact_string
<1>2. ASSUME NEW l \in Nat, labels' = [labels EXCEPT ![ReportGenerator] = Append(@, l)],
             ReportCall(ReportGenerator, l)
      PROVE  ReportsKept'
  <2> DEFINE n == Len(reports)
             Name(i) == reports[i].when \div Minute
  <2>1. /\ n \in Nat /\ Len(reports') = n + 1 /\ reports'[n + 1].when = l
        /\ \A i \in 1..n : reports'[i] = reports[i]
        /\ \A k \in DOMAIN files :
             k # l \div Minute => k \in DOMAIN files' /\ files'[k] = files[k]
        /\ reports'[n + 1].outcome = "written" =>
             l \div Minute \in DOMAIN files' /\ files'[l \div Minute] = n + 1
    BY <1>2 DEF ReportCall
  <2>2. \A i \in 1..n : Name(i) # l \div Minute
    <3> TAKE i \in 1..n
    <3>1. /\ reports[i].when = labels[ReportGenerator][i]
          /\ i \in 1..Len(labels[ReportGenerator])
      BY DEF ReportsTimed
    <3>2. /\ labels[ReportGenerator][i] \in Nat
          /\ labels[ReportGenerator][i] + ReportingPeriod <= l
      <4>1. ReportGenerator \notin rewound'
        BY CrawlerAssumption DEF Spaced, CrawlerAssumption
      <4> QED BY <1>2, <3>1, <4>1, LabelIsLast, LabelTypes, IntervalTypes
    <3>3. ReportingPeriod \in Nat /\ Minute \in Nat \ {0} /\ Minute <= ReportingPeriod
      BY CrawlerAssumption DEF CrawlerAssumption
    <3> QED BY <3>1, <3>2, <3>3, LaterMinute
  <2>3. \A i \in 1..n : reports[i].outcome = "written" =>
                          Name(i) \in DOMAIN files /\ files[Name(i)] = i
    BY DEF ReportsKept, R!to_compact_string
  <2>4. \A i \in 1..(n + 1) : i \in 1..n \/ i = n + 1
    BY <2>1
  <2>5. \A i \in 1..(n + 1) : reports'[i].outcome = "written" =>
          /\ reports'[i].when \div Minute \in DOMAIN files'
          /\ files'[reports'[i].when \div Minute] = i
    <3> TAKE i \in 1..(n + 1)
    <3>1. CASE i \in 1..n
      BY <2>1, <2>2, <2>3, <3>1
    <3>2. CASE i = n + 1
      BY <2>1, <3>2
    <3> QED BY <2>4, <3>1, <3>2
  <2> QED BY <2>1, <2>5 DEF ReportsKept, R!to_compact_string
<1> QED BY <1>1, <1>2, ReportsAre

-------------------------------------------------------------------------------
(* The theorems.                                                            *)

Inv ==
  /\ SchedulerInv /\ Spaced
  /\ ReporterInv /\ Stage
  /\ ReportsTimed /\ EveryCallCounted

LEMMA InvInit == Init => Inv
<1>1. Init => Spaced /\ ReportsTimed
  BY IntervalTypes DEF Init, S!Init, R!Init, Spaced, ReportsTimed
<1> QED BY <1>1, SchedulerInvInit, ReporterInit, StageInit, CountedInit DEF Inv

LEMMA InvStep == Inv /\ [Next]_vars => Inv'
<1> SUFFICES ASSUME Inv, [Next]_vars PROVE Inv'
  OBVIOUS
<1> USE DEF Inv
<1>1. SchedulerInv' /\ Spaced' /\ rewound \subseteq rewound'
  BY SchedulerInvStep, SpacedStep, BeatIs
<1>2. ReporterInv' /\ Stage'
  BY ReporterStep, StageStep
<1>3. EveryCallCounted' /\ ReportsTimed'
  BY <1>1, CountedStep, TimedStep
<1> QED BY <1>1, <1>2, <1>3

LEMMA Invariance == Spec => []Inv
BY InvInit, InvStep, PTL DEF Spec

(* Whatever is configured, a task is called only once every measure is      *)
(* known to the Reporter and scheduled and every server connected to, and   *)
(* nothing is thrown after that (crawler/main.cpp, executor.cpp).           *)
THEOREM NothingHalfStarted == Spec => []AllOrNothing
<1>1. Inv => AllOrNothing
  BY DEF Inv, Stage, Complete, AllOrNothing
<1> QED BY <1>1, Invariance, PTL

(* Whatever the measures, their periods, the costs of the calls and the     *)
(* settings of the clock, a call of a measure leaves one trace: a sample    *)
(* with the instant of the call, or one more failure in the totals; and the *)
(* instants of the samples grow, but for that of the first call when the    *)
(* clock is set back during it                                              *)
(* (meas_task in executor.cpp, add_measurement in meas_reporter.cpp).       *)
THEOREM CallsLeaveOneTrace == Spec => []EveryCallCounted
<1>1. Inv => EveryCallCounted
  BY DEF Inv
<1> QED BY <1>1, Invariance, PTL

(* With a reporting period of a minute or more no report replaces another,  *)
(* although the name of its file has no seconds (to_compact_string): the    *)
(* instants of the report task are a period apart, however the clock is set.*)
THEOREM NoReportReplaced ==
  ASSUME ReportingPeriod >= Minute
  PROVE  Spec => []ReportsKept
<1>1. Init => ReportsKept
  BY DEF Init, R!Init, ReportsKept
<1>2. Inv /\ Inv' /\ ReportsKept /\ [Next]_vars => ReportsKept'
  BY KeptStep DEF Inv
<1> QED BY <1>1, <1>2, Invariance, PTL DEF Spec
-------------------------------------------------------------------------------
(* On a machine that is fast enough: the tasks are called in the order of   *)
(* their instants, so that no sample comes late for its report.             *)

Setup == main \in {"configure", "rotate", "execute"} => phase = "setup"

(* Once there is a report, every task is called by its expiry, which does   *)
(* not lie before the report; and the samples since lie between the report  *)
(* and the next one.                                                        *)
Ordered ==
  reports # << >> =>
    /\ \A i \in 1..Len(ops) : ops[i].kind # "start"
    /\ \A u \in tasks : reports[Len(reports)].when <= SP!Seconds(expiry[u])
    /\ \A m \in Measures : \A j \in (cuts[Len(reports)][m] + 1)..Len(added[m]) :
         /\ reports[Len(reports)].when <= added[m][j].t
         /\ added[m][j].t <= SP!Seconds(expiry[ReportGenerator])

Covered == \A i \in 1..Len(reports) : \A m \in Measures : cuts[i][m] <= Len(added[m])

WindowInv ==
  /\ SchedulerInv /\ SP!TimelyInv /\ ReporterInv /\ Stage /\ ReportsTimed
  /\ Setup /\ Ordered /\ Covered /\ ReportWindow

LEMMA SameIdleTick == S!IdleTick <=> SP!IdleTick
<1>1. S!Due = SP!Due
  BY Zenon DEF S!Due, SP!Due
<1> QED BY <1>1, SameScheduler, Zenon DEF S!IdleTick, SP!IdleTick

LEMMA TimelyIsStep == [TimelyNext]_vars => [Next]_vars
BY SameIdleTick, SameScheduler DEF TimelyNext, Next, Silent, SP!IdleTick

(* All tasks are added before run() is called, and nobody sets the clock.   *)
LEMMA TimelySchedulerStep ==
  ASSUME Setup, [TimelyNext]_vars
  PROVE  [SP!TimelyNext]_(SP!vars) /\ Setup'
<1>1. ASSUME UNCHANGED <<main, schedulerVars>> PROVE [SP!TimelyNext]_(SP!vars) /\ Setup'
  BY <1>1 DEF schedulerVars, SP!vars, Setup
<1>2. CASE Start
  <2>1. CASE ConfigureMeasure \/ ConnectServer
    <3>1. UNCHANGED schedulerVars /\ phase' = phase
      BY <2>1 DEF ConfigureMeasure, ConnectServer, schedulerVars
    <3>2. main \in {"configure", "execute"}
      BY <2>1 DEF ConfigureMeasure, ConnectServer
    <3> QED BY <3>1, <3>2 DEF schedulerVars, SP!vars, Setup
  <2>2. CASE AddReportGenerator \/ AddLogRotator \/ AddMeasure
    <3>1. main \in {"configure", "rotate", "execute"} /\ \E t \in Tasks : S!AddTask(t)
      BY <2>2 DEF AddReportGenerator, AddLogRotator, AddMeasure, Tasks
    <3>2. PICK t \in Tasks : SP!AddTask(t)
      BY <3>1, SameScheduler
    <3>3. phase = "setup" /\ phase' = phase
      BY <3>1, <3>2 DEF Setup, SP!AddTask
    <3> QED BY <3>2, <3>3 DEF SP!TimelyNext, Setup
  <2>3. CASE RunScheduler
    BY <2>3, SameScheduler DEF RunScheduler, SP!TimelyNext, Setup
  <2> QED BY <1>2, <2>1, <2>2, <2>3 DEF Start
<1>3. CASE Handler
  <2>1. MaxCost \in [Tasks -> Nat]
    BY CrawlerAssumption DEF CrawlerAssumption
  <2>2. ASSUME NEW t \in Tasks, NEW d \in 0..MaxClock, main = "running", d <= MaxCost[t],
               S!StartImmediate(t, d) \/ S!Execute(t, d), Calls(t)
        PROVE  SP!TimelyNext /\ Setup'
    <3>1. d \in 0..MaxCost[t]
      BY <2>1, <2>2
    <3>2. Setup'
      BY <2>2 DEF Calls, Setup
    <3> QED BY <2>2, <3>1, <3>2, SameScheduler DEF SP!TimelyNext, SP!Thread, SP!Handler
  <2>3. ASSUME NEW t \in Tasks, main = "running", main' = main,
               S!StartAligned(t) \/ S!StartSkipping(t)
        PROVE  SP!TimelyNext /\ Setup'
    BY <2>3, SameScheduler DEF SP!TimelyNext, SP!Thread, SP!Handler, Setup
  <2> QED BY <1>3, <2>2, <2>3 DEF Handler
<1>4. CASE Silent(S!Poll) \/ Silent(S!IdleTick)
  BY <1>4, SameIdleTick, SamePoll DEF Silent, SP!TimelyNext, SP!Thread, Setup
<1>5. CASE Over \/ UNCHANGED vars
  BY <1>1, <1>5 DEF Over, vars
<1> QED BY <1>2, <1>3, <1>4, <1>5 DEF TimelyNext, Thread

LEMMA SecondsInOrder ==
  ASSUME NEW a \in Nat, NEW b \in Nat, a <= b
  PROVE  SP!Seconds(a) \in Nat /\ SP!Seconds(b) \in Nat /\ SP!Seconds(a) <= SP!Seconds(b)
<1>1. Second \in Nat \ {0}
  BY CrawlerAssumption DEF CrawlerAssumption
<1>2. a \div Second <= b \div Second
  BY <1>1, SchedulerAssumed, SP!DivMonotone
<1> QED BY <1>2, SchedulerAssumed, SP!SecondsType DEF SP!Seconds

(* A task whose wait is over is called before all that still wait.          *)
LEMMA ExecuteIs ==
  ASSUME SchedulerInv, SP!InOrder, NEW t \in Tasks, NEW d, S!Execute(t, d)
  PROVE  /\ t \in tasks /\ tasks' = tasks
         /\ labels' = [labels EXCEPT ![t] = Append(@, SP!Seconds(expiry[t]))]
         /\ \A u \in tasks : /\ expiry[u] \in Nat /\ expiry'[u] \in Nat
                             /\ expiry[t] <= expiry[u] /\ expiry[u] <= expiry'[u]
         /\ \A i \in 1..Len(ops') : ops'[i].kind # "start"
<1>1. /\ SP!HandlerRuns(t, "expired", d) /\ SP!CallTask(t, SP!Seconds(expiry[t]))
      /\ SP!Rearm(t, expiry[t] + Interval[t] * Second)
  BY SameScheduler DEF SP!Execute
<1>2. SP!TypeOK /\ SP!Chain
  BY DEF SchedulerInv
<1>3. ops # << >> /\ Head(ops) = SP!Op(t, "expired") /\ tasks' = tasks /\ cancelled = {}
  BY <1>1 DEF SP!HandlerRuns, SP!InOrder
<1>4. t \in tasks /\ t \notin waiting
  BY <1>2, <1>3, SchedulerAssumed, SP!HeadAlone
<1>5. ops \in Seq(SP!Item)
  BY <1>2 DEF SP!TypeOK, SP!Item
<1>6. /\ Len(ops) \in Nat /\ 1 \in 1..Len(ops) /\ ops[1] = SP!Op(t, "expired")
      /\ \A i \in 1..Len(Tail(ops)) : i + 1 \in 1..Len(ops) /\ Tail(ops)[i] = ops[i + 1]
  BY <1>3, <1>5, SchedulerAssumed, SP!TailItems
<1>7. ops[1].task = t /\ ops[1].kind = "expired"
  BY <1>6 DEF SP!Op
<1>8. \A i \in 1..Len(ops) : ops[i].kind = "expired"
  BY <1>6, <1>7 DEF SP!InOrder
<1>9. \A u \in tasks : expiry[u] \in Nat
  BY <1>2 DEF SP!TypeOK
<1>10. \A u \in tasks : expiry[t] <= expiry[u]
  <2> TAKE u \in tasks
  <2>1. u \in waiting \/ \E i \in 1..Len(ops) : ops[i].task = u
    BY <1>2, <1>3 DEF SP!Chain, SP!NoTaskLost
  <2>2. CASE u \in waiting
    BY <1>6, <1>7, <2>2 DEF SP!InOrder
  <2>3. ASSUME NEW i \in 1..Len(ops), ops[i].task = u PROVE expiry[t] <= expiry[u]
    <3>1. CASE i = 1
      BY <1>4, <1>7, <1>9, <2>3, <3>1
    <3>2. CASE i # 1
      <4>1. 1 < i
        BY <1>6, <3>2
      <4>2. \A j \in 1..Len(ops) : 1 < j => expiry[ops[1].task] <= expiry[ops[j].task]
        BY <1>6, <1>7 DEF SP!InOrder
      <4> QED BY <1>7, <2>3, <4>1, <4>2
    <3> QED BY <3>1, <3>2
  <2> QED BY <2>1, <2>2, <2>3
<1>11. \A u \in tasks : expiry'[u] \in Nat /\ expiry[u] <= expiry'[u]
  <2>1. expiry' = [expiry EXCEPT ![t] = expiry[t] + Interval[t] * Second]
    BY <1>1 DEF SP!Rearm
  <2>2. Interval[t] * Second \in Nat
    BY SchedulerAssumed, SP!IntervalTicks
  <2> DEFINE k == Interval[t] * Second
  <2>3. expiry' = [expiry EXCEPT ![t] = expiry[t] + k] /\ k \in Nat
    BY <2>1, <2>2
  <2> HIDE DEF k
  <2>4. expiry \in [Tasks -> Nat] /\ tasks \in SUBSET Tasks
    BY <1>2 DEF SP!TypeOK
  <2>5. expiry[t] + k \in Nat /\ expiry[t] <= expiry[t] + k
    BY <2>3, <2>4
  <2>6. \A u \in tasks : expiry'[u] = expiry[u] \/ (u = t /\ expiry'[u] = expiry[t] + k)
    BY <2>3, <2>4
  <2>7. \A u \in tasks : expiry[u] <= expiry[u]
    BY <1>9
  <2> QED BY <1>9, <2>5, <2>6, <2>7
<1>12. \A i \in 1..Len(ops') : ops'[i].kind # "start"
  <2>1. ops' = Tail(ops)
    <3>1. ops' = Tail(ops) \o << >> /\ Tail(ops) \in Seq(SP!Item)
      BY <1>1, <1>3, <1>4, <1>5 DEF SP!Rearm
    <3> QED BY <3>1
  <2> QED BY <1>6, <1>8, <2>1
<1> QED BY <1>1, <1>3, <1>4, <1>9, <1>10, <1>11, <1>12 DEF SP!CallTask

(* The samples that a step does not add, and the cuts it does not make, stay*)
LEMMA WindowKept ==
  ASSUME WindowInv, Len(reports') = Len(reports), UNCHANGED <<reports, cuts>>,
         \A m \in Measures : /\ Len(added[m]) \in Nat /\ Len(added'[m]) \in Nat
                             /\ Len(added[m]) <= Len(added'[m])
                             /\ \A j \in 1..Len(added[m]) : added'[m][j] = added[m][j]
  PROVE  Covered' /\ ReportWindow'
<1>1. RP!TypeOK /\ Len(cuts) = Len(reports) /\ Covered /\ ReportWindow
  BY DEF WindowInv, ReporterInv, RP!TypeOK
<1>2. \A i \in 1..Len(reports) : \A m \in Measures : cuts[i][m] \in Nat
  BY <1>1 DEF RP!TypeOK
<1>3. Covered'
  <2> SUFFICES ASSUME NEW i \in 1..Len(reports), NEW m \in Measures
               PROVE  cuts[i][m] <= Len(added'[m])
    BY DEF Covered
  <2>1. cuts[i][m] <= Len(added[m]) /\ Len(added[m]) <= Len(added'[m])
    BY <1>1 DEF Covered
  <2> QED BY <1>2, <2>1
<1>4. ReportWindow'
  <2> SUFFICES ASSUME NEW i \in 2..Len(reports), NEW m \in Measures,
                      NEW j \in (cuts[i - 1][m] + 1)..cuts[i][m]
               PROVE  reports[i - 1].when <= added'[m][j].t /\ added'[m][j].t <= reports[i].when
    BY DEF ReportWindow
  <2>1. i - 1 \in 1..Len(reports) /\ i \in 1..Len(reports)
    BY <1>1 DEF RP!TypeOK
  <2>2. cuts[i - 1][m] \in Nat /\ cuts[i][m] \in Nat /\ cuts[i][m] <= Len(added[m])
    BY <1>1, <1>2, <2>1 DEF Covered
  <2>3. j \in 1..Len(added[m])
    BY <2>2
  <2> QED BY <1>1, <2>3 DEF ReportWindow
<1> QED BY <1>3, <1>4

LEMMA ReportInstants ==
  ASSUME SchedulerInv, ReporterInv, ReportsTimed, reports # << >>
  PROVE  /\ Len(reports) \in Nat /\ Len(reports) >= 1
         /\ \A i \in 1..Len(reports) : reports[i].when \in Nat
         /\ reports[Len(reports)].when \in Nat
<1>1. Len(reports) \in Nat /\ Len(reports) >= 1
  BY DEF ReporterInv
<1>2. \A i \in 1..Len(reports) : reports[i].when \in Nat
  BY LabelTypes, IntervalTypes DEF ReportsTimed
<1> QED BY <1>1, <1>2

LEMMA CutTypes ==
  ASSUME ReporterInv, reports # << >>
  PROVE  /\ Len(cuts) = Len(reports)
         /\ \A i \in 1..Len(reports) : \A m \in Measures : cuts[i][m] \in Nat
         /\ \A m \in Measures : cuts[Len(reports)][m] \in Nat
<1>1. /\ cuts \in Seq([Measures -> Nat]) /\ Len(cuts) = Len(reports)
      /\ Len(reports) \in Nat /\ Len(reports) >= 1
  BY DEF ReporterInv, RP!TypeOK
<1>2. \A i \in 1..Len(cuts) : cuts[i] \in [Measures -> Nat]
  BY <1>1
<1>3. Len(reports) \in 1..Len(cuts)
  BY <1>1
<1> QED BY <1>1, <1>2, <1>3

LEMMA SampleTypes ==
  ASSUME ReporterInv, NEW m \in Measures
  PROVE  /\ Len(added[m]) \in Nat
         /\ \A j \in 1..Len(added[m]) : added[m][j].t \in Nat
<1>1. added[m] \in Seq(RP!Sample)
  BY DEF ReporterInv, RP!TypeOK
<1>2. \A s \in RP!Sample : s.t \in Nat
  BY DEF RP!Sample
<1>3. \A j \in 1..Len(added[m]) : added[m][j] \in RP!Sample
  BY <1>1
<1> QED BY <1>1, <1>2, <1>3

(* Where there is a report the program is running, or was.                  *)
LEMMA ReportedIsComplete ==
  ASSUME SchedulerInv, ReporterInv, Stage, ReportsTimed, reports # << >>
  PROVE  /\ main \notin {"configure", "rotate", "execute"}
         /\ ReportGenerator \in tasks
<1>1. labels[ReportGenerator] # << >> /\ ReportGenerator \in Tasks
  <2>1. Len(reports) >= 1 /\ Len(labels[ReportGenerator]) = Len(reports)
    BY ReportInstants DEF ReportsTimed
  <2> QED BY <2>1, IntervalTypes
<1> QED BY <1>1 DEF Stage, Complete


(* Before there is a report there is nothing to show.                       *)
LEMMA NoReportYet ==
  ASSUME WindowInv, reports = << >>, UNCHANGED reports
  PROVE  Ordered' /\ Covered' /\ ReportWindow'
<1>1. Len(reports') = 0 /\ reports' = << >>
  OBVIOUS
<1>2. 1..Len(reports') = {} /\ 2..Len(reports') = {}
  BY <1>1
<1> QED BY <1>1, <1>2 DEF Ordered, Covered, ReportWindow

(* A step that touches no sample and no report, and puts no expiry back.    *)
LEMMA WindowQuiet ==
  ASSUME WindowInv, UNCHANGED <<reports, cuts, added, tasks>>,
         \A i \in 1..Len(ops') : ops'[i].kind # "start",
         \A u \in tasks : /\ expiry[u] \in Nat /\ expiry'[u] \in Nat
                          /\ expiry[u] <= expiry'[u],
         reports # << >> => ReportGenerator \in tasks
  PROVE  Ordered' /\ Covered' /\ ReportWindow'
<1>1. RP!TypeOK /\ Ordered
  BY DEF WindowInv, ReporterInv
<1>2. \A m \in Measures : Len(added[m]) \in Nat /\ Len(added[m]) <= Len(added[m])
  BY <1>1 DEF RP!TypeOK
<1>3. Covered' /\ ReportWindow'
  BY <1>2, WindowKept
<1>4. ASSUME reports # << >> PROVE Ordered'
  <2>1. PICK r : r = reports[Len(reports)].when
    OBVIOUS
  <2>2. \A u \in tasks : /\ r <= SP!Seconds(expiry[u]) /\ SP!Seconds(expiry[u]) \in Nat
                         /\ SP!Seconds(expiry'[u]) \in Nat
                         /\ SP!Seconds(expiry[u]) <= SP!Seconds(expiry'[u])
    BY <1>1, <1>4, <2>1, SecondsInOrder DEF Ordered
  <2>3. r \in Nat /\ ReportGenerator \in tasks
    BY <1>4, <2>1, ReportInstants DEF WindowInv
  <2>4. \A u \in tasks : r <= SP!Seconds(expiry'[u])
    BY <2>2, <2>3
  <2>5. ASSUME NEW m \in Measures, NEW j \in (cuts[Len(reports)][m] + 1)..Len(added[m])
        PROVE  r <= added[m][j].t /\ added[m][j].t <= SP!Seconds(expiry'[ReportGenerator])
    <3>1. r <= added[m][j].t /\ added[m][j].t <= SP!Seconds(expiry[ReportGenerator])
      BY <1>1, <1>4, <2>1 DEF Ordered
    <3>2. added[m][j].t \in Nat
      <4>1. cuts[Len(reports)][m] \in Nat
        BY <1>1, <1>4, CutTypes DEF WindowInv
      <4>2. j \in 1..Len(added[m])
        BY <1>2, <2>5, <4>1
      <4> QED BY <4>2, SampleTypes DEF WindowInv
    <3> QED BY <2>2, <2>3, <3>1, <3>2
  <2> QED BY <2>1, <2>4, <2>5 DEF Ordered
<1>5. CASE reports = << >>
  BY <1>5, NoReportYet
<1> QED BY <1>3, <1>4, <1>5

(* A call of a measure: its instant lies between the last report and the    *)
(* next one.                                                                *)
LEMMA WindowSample ==
  ASSUME WindowInv, ReporterInv', NEW t \in Measures, t \in tasks, UNCHANGED tasks,
         NEW l \in Nat, l = SP!Seconds(expiry[t]), RegularCall(t, l),
         \A i \in 1..Len(ops') : ops'[i].kind # "start",
         \A u \in tasks : /\ expiry[u] \in Nat /\ expiry'[u] \in Nat
                          /\ expiry[t] <= expiry[u] /\ expiry[u] <= expiry'[u],
         reports # << >> => ReportGenerator \in tasks
  PROVE  Ordered' /\ Covered' /\ ReportWindow'
<1>1. UNCHANGED <<files, reports, cuts>>
  BY DEF RegularCall
<1>2. PICK v \in Values : added' = [added EXCEPT ![t] = Append(@, [t |-> l, v |-> v])]
  BY DEF RegularCall
<1>3. added \in [Measures -> Seq(RP!Sample)] /\ Len(cuts) = Len(reports)
  BY DEF WindowInv, ReporterInv, RP!TypeOK
<1>4. \A m \in Measures : /\ Len(added[m]) \in Nat
                          /\ \A j \in 1..Len(added[m]) : added[m][j].t \in Nat
  BY SampleTypes DEF WindowInv
<1> DEFINE x == [t |-> l, v |-> v]
<1>5. /\ Len(added'[t]) = Len(added[t]) + 1 /\ added'[t][Len(added[t]) + 1].t = l
      /\ \A j \in 1..Len(added[t]) : added'[t][j] = added[t][j]
  <2>1. added'[t] = Append(added[t], x) /\ x \in RP!Sample /\ x.t = l
    BY <1>2, <1>3 DEF RP!Sample
  <2>2. added[t] \in Seq(RP!Sample)
    BY <1>3
  <2> HIDE DEF x
  <2> QED BY <2>1, <2>2
<1>6. \A m \in Measures : m # t => added'[m] = added[m]
  BY <1>2, <1>3
<1>7. Covered' /\ ReportWindow'
  <2>1. \A m \in Measures : /\ Len(added'[m]) \in Nat /\ Len(added[m]) <= Len(added'[m])
                            /\ \A j \in 1..Len(added[m]) : added'[m][j] = added[m][j]
    <3> TAKE m \in Measures
    <3>1. CASE m = t
      BY <1>4, <1>5, <3>1
    <3>2. CASE m # t
      BY <1>4, <1>6, <3>2
    <3> QED BY <3>1, <3>2
  <2> QED BY <1>1, <1>4, <2>1, WindowKept
<1>8. ASSUME reports # << >> PROVE Ordered'
  <2>1. PICK r \in Nat : r = reports[Len(reports)].when
    BY <1>8, ReportInstants DEF WindowInv
  <2>2. ReportGenerator \in tasks
    BY <1>8
  <2>3. \A u \in tasks : /\ r <= SP!Seconds(expiry[u])
                         /\ SP!Seconds(expiry[u]) \in Nat /\ SP!Seconds(expiry'[u]) \in Nat
                         /\ l <= SP!Seconds(expiry[u])
                         /\ SP!Seconds(expiry[u]) <= SP!Seconds(expiry'[u])
    BY <1>8, <2>1, SecondsInOrder DEF WindowInv, Ordered
  <2>4. \A u \in tasks : r <= SP!Seconds(expiry'[u])
    BY <2>3
  <2>5. PICK e \in Nat, f \in Nat : /\ e = SP!Seconds(expiry[ReportGenerator]) /\ e <= f
                                    /\ f = SP!Seconds(expiry'[ReportGenerator]) /\ l <= e
    BY <2>2, <2>3
  <2>6. ASSUME NEW m \in Measures, NEW j \in (cuts[Len(reports)][m] + 1)..Len(added'[m])
        PROVE  r <= added'[m][j].t /\ added'[m][j].t <= f
    <3>1. cuts[Len(reports)][m] \in Nat
      BY <1>8, CutTypes DEF WindowInv
    <3>2. CASE j \in 1..Len(added[m])
      <4>1. j \in (cuts[Len(reports)][m] + 1)..Len(added[m])
        BY <2>6, <3>1, <3>2
      <4>2. r <= added[m][j].t /\ added[m][j].t <= e
        BY <1>8, <2>1, <2>5, <4>1 DEF WindowInv, Ordered
      <4>3. added'[m][j] = added[m][j] /\ added[m][j].t \in Nat
        BY <1>4, <1>5, <1>6, <3>2
      <4>4. added[m][j].t <= f
        BY <2>5, <4>2, <4>3
      <4> QED BY <4>2, <4>3, <4>4
    <3>3. CASE j \notin 1..Len(added[m])
      <4>1. m = t
        BY <1>6, <2>6, <3>1, <3>3
      <4>2. j = Len(added[t]) + 1
        BY <1>4, <1>5, <2>6, <3>1, <3>3, <4>1
      <4>3. r <= l /\ l <= f
        BY <2>3, <2>5
      <4> QED BY <1>5, <4>1, <4>2, <4>3
    <3> QED BY <3>2, <3>3
  <2> QED BY <1>1, <2>1, <2>4, <2>5, <2>6 DEF Ordered
<1>9. CASE reports = << >>
  BY <1>1, <1>9, NoReportYet
<1> QED BY <1>7, <1>8, <1>9

(* A report: it takes the samples since the last one, and every task is     *)
(* called later.                                                            *)
LEMMA WindowReport ==
  ASSUME WindowInv, ReporterInv', ReportGenerator \in tasks, UNCHANGED tasks,
         NEW l \in Nat, l = SP!Seconds(expiry[ReportGenerator]),
         ReportCall(ReportGenerator, l),
         \A i \in 1..Len(ops') : ops'[i].kind # "start",
         \A u \in tasks : /\ expiry[u] \in Nat /\ expiry'[u] \in Nat
                          /\ expiry[ReportGenerator] <= expiry[u] /\ expiry[u] <= expiry'[u]
  PROVE  Ordered' /\ Covered' /\ ReportWindow'
<1> DEFINE n == Len(reports)
           c == [m \in Measures |-> Len(added[m])]
<1>1. /\ added' = added /\ cuts' = Append(cuts, c)
      /\ n \in Nat /\ Len(reports') = n + 1 /\ reports'[n + 1].when = l
      /\ \A i \in 1..n : reports'[i] = reports[i]
  BY DEF ReportCall
<1>2. cuts \in Seq([Measures -> Nat]) /\ Len(cuts) = n /\ Covered /\ ReportWindow
  BY DEF WindowInv, ReporterInv, RP!TypeOK
<1>3. \A m \in Measures : Len(added[m]) \in Nat
  BY SampleTypes DEF WindowInv
<1>4. /\ \A i \in 1..n : cuts'[i] = cuts[i]
      /\ \A m \in Measures : cuts'[n + 1][m] = Len(added[m])
  <2>1. c \in [Measures -> Nat] /\ \A m \in Measures : c[m] = Len(added[m])
    BY <1>3
  <2> HIDE DEF c, n
  <2>2. cuts' = Append(cuts, c) /\ cuts'[n + 1] = c /\ \A i \in 1..n : cuts'[i] = cuts[i]
    BY <1>1, <1>2, <2>1
  <2> QED BY <2>1, <2>2
<1>5. \A i \in 1..(n + 1) : i \in 1..n \/ i = n + 1
  BY <1>1
<1>6. Covered'
  <2> SUFFICES ASSUME NEW i \in 1..(n + 1), NEW m \in Measures
               PROVE  cuts'[i][m] <= Len(added[m])
    BY <1>1 DEF Covered
  <2>1. CASE i \in 1..n
    BY <1>2, <1>4, <2>1 DEF Covered
  <2>2. CASE i = n + 1
    BY <1>3, <1>4, <2>2
  <2> QED BY <1>5, <2>1, <2>2
<1>7. ReportWindow'
  <2> SUFFICES ASSUME NEW i \in 2..(n + 1), NEW m \in Measures,
                      NEW j \in (cuts'[i - 1][m] + 1)..cuts'[i][m]
               PROVE  /\ reports'[i - 1].when <= added[m][j].t
                      /\ added[m][j].t <= reports'[i].when
    BY <1>1 DEF ReportWindow
  <2>1. i - 1 \in 1..n
    BY <1>1
  <2>2. CASE i \in 1..n
    <3>1. i \in 2..n
      BY <1>1, <2>2
    <3>2. j \in (cuts[i - 1][m] + 1)..cuts[i][m]
      BY <1>4, <2>1, <2>2
    <3> QED BY <1>1, <1>2, <2>1, <2>2, <3>1, <3>2 DEF ReportWindow
  <2>3. CASE i = n + 1
    <3>1. i - 1 = n /\ n >= 1 /\ reports # << >>
      <4>1. i - 1 = n /\ n >= 1
        BY <1>1, <2>1, <2>3
      <4>2. Len(<< >>) = 0
        OBVIOUS
      <4> QED BY <4>1, <4>2
    <3>2. j \in (cuts[n][m] + 1)..Len(added[m])
      BY <1>4, <2>1, <2>3, <3>1
    <3>3. reports[n].when <= added[m][j].t /\ added[m][j].t <= l
      BY <3>1, <3>2 DEF WindowInv, Ordered
    <3> QED BY <1>1, <2>1, <2>3, <3>1, <3>3
  <2> QED BY <1>5, <2>2, <2>3
<1>8. Ordered'
  <2>1. \A u \in tasks : l <= SP!Seconds(expiry'[u])
    <3> TAKE u \in tasks
    <3>1. expiry[ReportGenerator] \in Nat /\ expiry[u] \in Nat /\ expiry'[u] \in Nat
          /\ expiry[ReportGenerator] <= expiry[u] /\ expiry[u] <= expiry'[u]
      OBVIOUS
    <3>2. expiry[ReportGenerator] <= expiry'[u]
      BY <3>1
    <3> QED BY <3>1, <3>2, SecondsInOrder
  <2>2. \A m \in Measures : (cuts'[n + 1][m] + 1)..Len(added[m]) = {}
    BY <1>3, <1>4
  <2> HIDE DEF n
  <2> QED BY <1>1, <2>1, <2>2 DEF Ordered
<1> QED BY <1>6, <1>7, <1>8

(* A task that is still to start: there is no report yet.                   *)
LEMMA StartingNow ==
  ASSUME WindowInv, NEW t, NEW d, SP!HandlerRuns(t, "start", d)
  PROVE  reports = << >>
<1>1. ops # << >> /\ Head(ops) = SP!Op(t, "start") /\ ops \in Seq(SP!Item)
  BY DEF SP!HandlerRuns, WindowInv, SchedulerInv, SP!TypeOK, SP!Item
<1>2. 1 \in 1..Len(ops) /\ ops[1] = SP!Op(t, "start")
  BY <1>1
<1>3. ops[1].kind = "start"
  BY <1>2 DEF SP!Op
<1> QED BY <1>2, <1>3 DEF WindowInv, Ordered

(* A task whose wait is over is called.                                     *)
LEMMA WindowExecute ==
  ASSUME WindowInv, NEW t \in Tasks, NEW d, main = "running", S!Execute(t, d), Calls(t)
  PROVE  Ordered' /\ Covered' /\ ReportWindow'
<1>1. SchedulerInv /\ SP!InOrder /\ ReporterInv /\ Stage /\ ReportsTimed
  BY DEF WindowInv, SP!TimelyInv
<1>2. /\ t \in tasks /\ tasks' = tasks
      /\ labels' = [labels EXCEPT ![t] = Append(@, SP!Seconds(expiry[t]))]
      /\ \A u \in tasks : /\ expiry[u] \in Nat /\ expiry'[u] \in Nat
                          /\ expiry[t] <= expiry[u] /\ expiry[u] <= expiry'[u]
      /\ \A i \in 1..Len(ops') : ops'[i].kind # "start"
  BY <1>1, ExecuteIs
<1>3. PICK l \in Nat : l = SP!Seconds(expiry[t])
  BY <1>2, SecondsInOrder
<1>4. Call(t, l)
  <2>1. labels'[t] = Append(labels[t], l) /\ labels[t] \in Seq(Nat)
    BY <1>1, <1>2, <1>3, LabelTypes
  <2>2. labels'[t][Len(labels'[t])] = l
    BY <2>1
  <2> QED BY <1>2, <1>3, <2>2 DEF Calls, Call
<1>5. ReporterInv' /\ (RegularCall(t, l) \/ FailedCall(t) \/ ReportCall(t, l) \/ RotateCall(t))
  BY <1>1, <1>4, CallEffect
<1>6. reports # << >> => ReportGenerator \in tasks
  BY <1>1, ReportedIsComplete
<1>7. CASE RegularCall(t, l)
  <2>1. t \in Measures
    BY <1>7 DEF RegularCall
  <2> QED BY <1>2, <1>3, <1>5, <1>6, <1>7, <2>1, WindowSample
<1>8. CASE ReportCall(t, l)
  <2>1. t = ReportGenerator
    BY <1>8 DEF ReportCall
  <2> QED BY <1>2, <1>3, <1>5, <1>8, <2>1, WindowReport
<1>9. CASE FailedCall(t) \/ RotateCall(t)
  <2>1. UNCHANGED <<reports, cuts, added>>
    BY <1>9 DEF FailedCall, RotateCall, reporterVars
  <2> QED BY <1>2, <1>6, <2>1, WindowQuiet
<1> QED BY <1>5, <1>7, <1>8, <1>9

(* A step that leaves the expiries, the samples and the reports alone.      *)
LEMMA WindowIdle ==
  ASSUME WindowInv, UNCHANGED <<reports, cuts, added, tasks, expiry>>,
         \A i \in 1..Len(ops') : ops'[i].kind # "start"
  PROVE  Ordered' /\ Covered' /\ ReportWindow'
<1>1. \A u \in tasks : expiry[u] \in Nat /\ expiry[u] <= expiry[u]
  BY DEF WindowInv, SchedulerInv, SP!TypeOK
<1>2. reports # << >> => ReportGenerator \in tasks
  BY ReportedIsComplete DEF WindowInv
<1> QED BY <1>1, <1>2, WindowQuiet

LEMMA WindowOrder ==
  ASSUME WindowInv, [TimelyNext]_vars
  PROVE  Ordered' /\ Covered' /\ ReportWindow'
<1>1. CASE Start
  <2>1. main \in {"configure", "rotate", "execute"}
    BY <1>1 DEF Start, ConfigureMeasure, AddReportGenerator, AddLogRotator, ConnectServer,
                AddMeasure, RunScheduler
  <2>2. reports = << >>
    BY <2>1, ReportedIsComplete DEF WindowInv
  <2>3. reports' = reports
    BY StartIs, <1>1 DEF ConfigureMeasure, R!configure_measurement, reporterVars
  <2> QED BY <2>2, <2>3, NoReportYet
<1>2. CASE Handler
  <2>1. ASSUME NEW t \in Tasks, NEW d \in 0..MaxClock, main = "running",
               S!StartImmediate(t, d), Calls(t)
        PROVE  Ordered' /\ Covered' /\ ReportWindow'
    <3>1. Mode[t] = "execute_at_start" /\ SP!HandlerRuns(t, "start", d)
      BY <2>1, SameScheduler DEF SP!StartImmediate
    <3>2. reports = << >>
      BY <3>1, StartingNow
    <3>3. t # ReportGenerator
      BY <3>1, CrawlerAssumption DEF Mode, CrawlerAssumption
    <3>4. reports' = reports
      BY <2>1, <3>3, SameReporter DEF Calls, Task, meas_task, R!add_measurement, reporterVars
    <3> QED BY <3>2, <3>4, NoReportYet
  <2>2. ASSUME NEW t \in Tasks, S!StartAligned(t) \/ S!StartSkipping(t),
               UNCHANGED reporterVars
        PROVE  Ordered' /\ Covered' /\ ReportWindow'
    <3>1. SP!HandlerRuns(t, "start", 0)
      BY <2>2, SameScheduler DEF SP!StartAligned, SP!StartSkipping
    <3>2. reports = << >> /\ reports' = reports
      BY <2>2, <3>1, StartingNow DEF reporterVars
    <3> QED BY <3>2, NoReportYet
  <2> QED BY <1>2, <2>1, <2>2, WindowExecute DEF Handler
<1>3. CASE Silent(S!Poll)
  <2>1. SP!Poll /\ UNCHANGED <<reports, cuts, added>>
    BY <1>3, SamePoll DEF Silent, reporterVars
  <2>2. PICK s \in SP!ExpiryOrders(SP!Due) :
          ops' = [i \in 1..Len(s) |-> SP!Op(s[i], "expired")]
    BY <2>1 DEF SP!Poll
  <2>3. \A i \in 1..Len(ops') : ops'[i].kind # "start"
    <3>1. s \in Seq(SP!Due)
      BY <2>2, SchedulerAssumed, SP!OrderIsSequence DEF WindowInv, SchedulerInv
    <3>2. Len(ops') = Len(s) /\ \A i \in 1..Len(s) : ops'[i] = SP!Op(s[i], "expired")
      BY <2>2, <3>1
    <3>3. \A u : SP!Op(u, "expired").kind = "expired"
      BY DEF SP!Op
    <3> QED BY <3>2, <3>3
  <2>4. UNCHANGED <<tasks, expiry>>
    BY <2>1 DEF SP!Poll
  <2> QED BY <2>1, <2>3, <2>4, WindowIdle
<1>4. CASE Silent(S!IdleTick)
  <2>1. SP!IdleTick /\ UNCHANGED <<reports, cuts, added>>
    BY <1>4, SameIdleTick DEF Silent, reporterVars
  <2>2. UNCHANGED <<tasks, expiry, ops>> /\ ops = << >>
    BY <2>1 DEF SP!IdleTick, SP!Tick
  <2>3. \A i \in 1..Len(ops') : ops'[i].kind # "start"
    BY <2>2
  <2> QED BY <2>1, <2>2, <2>3, WindowIdle
<1>5. CASE Over \/ UNCHANGED vars
  <2>1. UNCHANGED <<reports, added, cuts, ops, tasks, expiry>>
    BY <1>5 DEF Over, vars, schedulerVars, reporterVars
  <2>2. CASE reports = << >>
    BY <2>1, <2>2, NoReportYet
  <2>3. CASE reports # << >>
    <3>1. \A i \in 1..Len(ops') : ops'[i].kind # "start"
      BY <2>1, <2>3 DEF WindowInv, Ordered
    <3> QED BY <2>1, <3>1, WindowIdle
  <2> QED BY <2>2, <2>3
<1> QED BY <1>1, <1>2, <1>3, <1>4, <1>5 DEF TimelyNext, Thread

LEMMA WindowInit == Init => WindowInv
<1> SUFFICES ASSUME Init PROVE WindowInv
  OBVIOUS
<1>1. /\ main = "configure" /\ phase = "setup" /\ reports = << >>
      /\ labels = [t \in Tasks |-> << >>]
  BY SameScheduler, SameReporter DEF Init, SP!Init, RP!Init
<1>2. Setup /\ Ordered
  BY <1>1 DEF Setup, Ordered
<1>3. ReportsTimed /\ Covered /\ ReportWindow
  <2>1. 1..Len(reports) = {} /\ 2..Len(reports) = {} /\ Len(reports) = 0
    BY <1>1
  <2>2. Len(labels[ReportGenerator]) = 0
    BY <1>1, IntervalTypes
  <2> QED BY <2>1, <2>2 DEF ReportsTimed, Covered, ReportWindow
<1>4. SP!TimelyInv
  BY SameScheduler, SchedulerAssumed, SP!TimelyInit DEF Init
<1> QED BY <1>2, <1>3, <1>4, SchedulerInvInit, ReporterInit, StageInit DEF WindowInv

LEMMA WindowStep ==
  ASSUME WindowInv, SP!FastEnough, [TimelyNext]_vars
  PROVE  WindowInv'
<1>1. [Next]_vars
  BY TimelyIsStep
<1>2. SchedulerInv' /\ ReporterInv' /\ Stage' /\ ReportsTimed'
  BY <1>1, SchedulerInvStep, ReporterStep, StageStep, TimedStep DEF WindowInv
<1>3. [SP!TimelyNext]_(SP!vars) /\ Setup'
  BY TimelySchedulerStep DEF WindowInv
<1>4. SP!TimelyInv'
  BY <1>3, SchedulerAssumed, SP!TimelyStep DEF WindowInv
<1>5. Ordered' /\ Covered' /\ ReportWindow'
  BY WindowOrder
<1> QED BY <1>2, <1>3, <1>4, <1>5 DEF WindowInv

(* On a machine that is fast enough for its tasks, a report holds samples   *)
(* of its own period only, from the instant of the report before to its own *)
(* (crawler/main.cpp: the report task and those of the measures share one   *)
(* scheduler; periodic_scheduler.cpp: they are called by expiry).           *)
THEOREM ReportsHoldTheirPeriod ==
  ASSUME SP!FastEnough
  PROVE  TimelySpec => []ReportWindow
<1>1. WindowInv /\ [TimelyNext]_vars => WindowInv'
  BY WindowStep
<1>2. WindowInv => ReportWindow
  BY DEF WindowInv
<1> QED BY <1>1, <1>2, WindowInit, PTL DEF TimelySpec
===============================================================================
