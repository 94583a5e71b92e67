---------------------------- MODULE ReporterProofs ----------------------------
(***************************************************************************)
(* Theorems about Reporter, for any measures, values, instants and bounds.  *)
(*                                                                         *)
(* The inductive invariant adds to the properties what ties the measures    *)
(* to the reports: a measure that is not configured has no data, and the    *)
(* measures of a report are configured still.                               *)
(***************************************************************************)
EXTENDS Reporter, TLAPS

Statistics0 == {<<>>} \cup {calculate_stats(s) : s \in Seq(Sample)}

ResultType ==
  [num_samples : Nat, period : Counter, total : Counter,
   statistics : Statistics0, samples : Seq(Sample)]

ReportType ==
  [when : Instants, period_id : Nat, outcome : Outcomes,
   results : UNION {[D -> ResultType] : D \in SUBSET Measures}]

Types == TypeOK /\ reports \in Seq(ReportType)

(* A measure that is not configured has neither data nor samples. *)
NothingUnconfigured ==
  \A m \in Measures \ configured : data[m] = NewData /\ added[m] = <<>>

Inv == Types /\ NothingUnconfigured

-------------------------------------------------------------------------------
(* What Append does to a sequence. *)
LEMMA AppendIs ==
  ASSUME NEW S, NEW s \in Seq(S), NEW x \in S
  PROVE  /\ Append(s, x) \in Seq(S)
         /\ Len(Append(s, x)) = Len(s) + 1
         /\ \A i \in 1..Len(s) : Append(s, x)[i] = s[i]
         /\ Append(s, x)[Len(s) + 1] = x
  OBVIOUS

(* The data of a measure, taken apart and put together. *)
LEMMA DataTypes ==
  ASSUME TypeOK, NEW m \in Measures
  PROVE  /\ data[m] \in [samples : Seq(Sample), period : Counter, total : Counter]
         /\ data[m].samples \in Seq(Sample)
         /\ data[m].period \in Counter
         /\ data[m].total \in Counter
         /\ added[m] \in Seq(Sample)
         /\ Len(added[m]) \in Nat
         /\ Len(data[m].samples) \in Nat
  BY DEF TypeOK

LEMMA NewDataTypes ==
  /\ NoFailure \in Counter
  /\ NewData \in [samples : Seq(Sample), period : Counter, total : Counter]
  BY DEF NoFailure, NewData, Counter

(* What is written of a measure has its type. *)
LEMMA ResultTypes ==
  ASSUME TypeOK, NEW m \in Measures
  PROVE  Result(m) \in ResultType
<1>1. data[m].samples \in Seq(Sample) /\ Len(data[m].samples) \in Nat
      /\ data[m].period \in Counter /\ data[m].total \in Counter
  BY DataTypes
<1>2. (IF data[m].samples = <<>> THEN <<>> ELSE calculate_stats(data[m].samples))
        \in Statistics0
  BY <1>1 DEF Statistics0
<1>3. (IF m \in RawReported THEN data[m].samples ELSE <<>>) \in Seq(Sample)
  BY <1>1
<1> QED
  BY <1>1, <1>2, <1>3 DEF Result, ResultType

(* So has a whole report. *)
LEMMA ReportTypes ==
  ASSUME TypeOK, NEW now \in Instants, NEW outcome \in Outcomes
  PROVE  [when |-> now, period_id |-> period_id + 1, outcome |-> outcome,
          results |-> [m \in configured |-> Result(m)]] \in ReportType
<1>1. configured \in SUBSET Measures /\ period_id + 1 \in Nat
  BY DEF TypeOK
<1>2. \A m \in configured : Result(m) \in ResultType
  BY <1>1, ResultTypes
<1>3. [m \in configured |-> Result(m)] \in [configured -> ResultType]
  BY <1>2
<1>4. [m \in configured |-> Result(m)]
        \in UNION {[D -> ResultType] : D \in SUBSET Measures}
  BY <1>1, <1>3
<1> QED
  BY <1>1, <1>4 DEF ReportType

(* The counters of a failure, counted up. *)
LEMMA CountedUp ==
  ASSUME NEW c \in Counter, NEW f \in Failures
  PROVE  [c EXCEPT ![f] = @ + 1] \in Counter
  BY DEF Counter

(* The minute of an instant is a natural number. *)
LEMMA MinuteIsNat ==
  ASSUME NEW now \in Instants
  PROVE  to_compact_string(now) \in Nat
  BY ReporterAssumption DEF ReporterAssumption, to_compact_string

-------------------------------------------------------------------------------
(* Type correctness. *)
LEMMA InitTypes == Init => Inv
<1> SUFFICES ASSUME Init PROVE Inv
  OBVIOUS
<1>1. data \in [Measures -> [samples : Seq(Sample), period : Counter, total : Counter]]
  BY NewDataTypes DEF Init
<1>2. added \in [Measures -> Seq(Sample)]
  BY DEF Init
<1>3. files = <<>> /\ DOMAIN <<>> = {}
  BY DEF Init
<1>4. TypeOK
  <2>1. cuts \in Seq([Measures -> Nat]) /\ Len(cuts) = 0 /\ Len(reports) = 0
    BY DEF Init
  <2>2. DOMAIN files \subseteq Nat /\ \A n \in DOMAIN files : files[n] \in 0..period_id
    BY <1>3
  <2> QED
    BY <1>1, <1>2, <2>1, <2>2 DEF Init, TypeOK
<1>5. reports \in Seq(ReportType)
  BY DEF Init
<1>6. NothingUnconfigured
  BY DEF Init, NothingUnconfigured
<1> QED
  BY <1>4, <1>5, <1>6 DEF Inv, Types

LEMMA ConfigureKeepsTypes ==
  ASSUME TypeOK, NEW m \in Measures, configure_measurement(m)
  PROVE  TypeOK'
  BY DEF TypeOK, configure_measurement

LEMMA ConfigureKeepsInv ==
  ASSUME Inv, NEW m \in Measures, configure_measurement(m)
  PROVE  Inv'
<1>1. TypeOK'
  BY ConfigureKeepsTypes DEF Inv, Types
<1>2. NothingUnconfigured'
  BY DEF Inv, configure_measurement, NothingUnconfigured
<1> QED
  BY <1>1, <1>2 DEF Inv, Types, configure_measurement

(* add_measurement touches one measure, and that only if it is configured. *)
LEMMA AddRegular ==
  ASSUME TypeOK, NEW m \in Measures, NEW when \in Instants, NEW value \in Values,
         add_measurement(m, when, value, "regular"), m \in configured
  PROVE  /\ data' = [data EXCEPT ![m].samples = Append(@, [t |-> when, v |-> value])]
         /\ added' = [added EXCEPT ![m] = Append(@, [t |-> when, v |-> value])]
         /\ [t |-> when, v |-> value] \in Sample
  BY DEF add_measurement, Failures, Sample

LEMMA AddFailure ==
  ASSUME NEW m \in Measures, NEW when \in Instants, NEW f \in Failures,
         add_measurement(m, when, NaN, f), m \in configured
  PROVE  /\ data' = [data EXCEPT ![m].period[f] = @ + 1, ![m].total[f] = @ + 1]
         /\ added' = added
  BY DEF add_measurement, Failures

LEMMA AddUnknown ==
  ASSUME NEW m, NEW when, NEW value, NEW type,
         add_measurement(m, when, value, type), m \notin configured
  PROVE  data' = data /\ added' = added
  BY DEF add_measurement

LEMMA AddOthers ==
  ASSUME NEW m, NEW when, NEW value, NEW type,
         add_measurement(m, when, value, type)
  PROVE  /\ UNCHANGED <<configured, period_id, files, reports, cuts>>
         /\ thrown' \in BOOLEAN
  BY DEF add_measurement

(* The types after a regular sample... *)
LEMMA RegularKeepsTypes ==
  ASSUME TypeOK, NEW m \in Measures, NEW when \in Instants, NEW value \in Values,
         add_measurement(m, when, value, "regular")
  PROVE  TypeOK'
<1>1. UNCHANGED <<configured, period_id, files, reports, cuts>> /\ thrown' \in BOOLEAN
  BY AddOthers
<1>2. CASE m \in configured
  <2>. DEFINE s == [t |-> when, v |-> value]
  <2>1. /\ data' = [data EXCEPT ![m].samples = Append(@, s)]
        /\ added' = [added EXCEPT ![m] = Append(@, s)]
        /\ s \in Sample
    BY <1>2, AddRegular
  <2>. HIDE DEF s
  <2>2. Append(data[m].samples, s) \in Seq(Sample) /\ Append(added[m], s) \in Seq(Sample)
    BY <2>1, DataTypes, AppendIs
  <2>3. [data[m] EXCEPT !.samples = Append(@, s)]
          \in [samples : Seq(Sample), period : Counter, total : Counter]
    BY <2>2, DataTypes
  <2>4. data' \in [Measures -> [samples : Seq(Sample), period : Counter, total : Counter]]
    BY <2>1, <2>3 DEF TypeOK
  <2>5. added' \in [Measures -> Seq(Sample)]
    BY <2>1, <2>2 DEF TypeOK
  <2> QED
    BY <1>1, <2>4, <2>5 DEF TypeOK
<1>3. CASE m \notin configured
  <2>1. data' = data /\ added' = added
    BY <1>3, AddUnknown
  <2> QED
    BY <1>1, <2>1 DEF TypeOK
<1> QED
  BY <1>2, <1>3

(* ... and after a failure, which counts one up. *)
LEMMA FailureIs ==
  ASSUME TypeOK, NEW m \in Measures, NEW when \in Instants, NEW f \in Failures,
         add_measurement(m, when, NaN, f), m \in configured
  PROVE  /\ data'[m] = [samples |-> data[m].samples,
                        period  |-> [data[m].period EXCEPT ![f] = @ + 1],
                        total   |-> [data[m].total EXCEPT ![f] = @ + 1]]
         /\ \A n \in Measures \ {m} : data'[n] = data[n]
         /\ data' \in [Measures -> [samples : Seq(Sample), period : Counter, total : Counter]]
         /\ added' = added
<1>1. data' = [data EXCEPT ![m].period[f] = @ + 1, ![m].total[f] = @ + 1]
      /\ added' = added
  BY AddFailure
<1>2. [data[m].period EXCEPT ![f] = @ + 1] \in Counter
      /\ [data[m].total EXCEPT ![f] = @ + 1] \in Counter
  BY DataTypes, CountedUp
<1>3. data'[m] = [samples |-> data[m].samples,
                  period  |-> [data[m].period EXCEPT ![f] = @ + 1],
                  total   |-> [data[m].total EXCEPT ![f] = @ + 1]]
      /\ \A n \in Measures \ {m} : data'[n] = data[n]
  BY <1>1, DataTypes DEF TypeOK
<1>4. data' \in [Measures -> [samples : Seq(Sample), period : Counter, total : Counter]]
  BY <1>1, <1>2, <1>3, DataTypes DEF TypeOK
<1> QED
  BY <1>1, <1>3, <1>4

LEMMA FailureKeepsTypes ==
  ASSUME TypeOK, NEW m \in Measures, NEW when \in Instants, NEW f \in Failures,
         add_measurement(m, when, NaN, f)
  PROVE  TypeOK'
<1>1. UNCHANGED <<configured, period_id, files, reports, cuts>> /\ thrown' \in BOOLEAN
  BY AddOthers
<1>2. CASE m \in configured
  BY <1>1, <1>2, FailureIs DEF TypeOK
<1>3. CASE m \notin configured
  <2>1. data' = data /\ added' = added
    BY <1>3, AddUnknown
  <2> QED
    BY <1>1, <2>1 DEF TypeOK
<1> QED
  BY <1>2, <1>3

(* The unconfigured measures are left alone by both. *)
LEMMA RegularKeepsInv ==
  ASSUME Inv, NEW m \in Measures, NEW when \in Instants, NEW value \in Values,
         add_measurement(m, when, value, "regular")
  PROVE  Inv'
<1>1. UNCHANGED <<configured, period_id, files, reports, cuts>> /\ TypeOK
  BY AddOthers DEF Inv, Types
<1>2. TypeOK'
  BY <1>1, RegularKeepsTypes
<1>3. NothingUnconfigured'
  <2>1. CASE m \in configured
    BY <1>1, <2>1, AddRegular DEF Inv, TypeOK, NothingUnconfigured
  <2>2. CASE m \notin configured
    BY <1>1, <2>2, AddUnknown DEF Inv, NothingUnconfigured
  <2> QED
    BY <2>1, <2>2
<1> QED
  BY <1>1, <1>2, <1>3 DEF Inv, Types

LEMMA FailureKeepsInv ==
  ASSUME Inv, NEW m \in Measures, NEW when \in Instants, NEW f \in Failures,
         add_measurement(m, when, NaN, f)
  PROVE  Inv'
<1>1. UNCHANGED <<configured, period_id, files, reports, cuts>> /\ TypeOK
  BY AddOthers DEF Inv, Types
<1>2. TypeOK'
  BY <1>1, FailureKeepsTypes
<1>3. NothingUnconfigured'
  <2>1. CASE m \in configured
    BY <1>1, <2>1, FailureIs DEF Inv, NothingUnconfigured
  <2>2. CASE m \notin configured
    BY <1>1, <2>2, AddUnknown DEF Inv, NothingUnconfigured
  <2> QED
    BY <2>1, <2>2
<1> QED
  BY <1>1, <1>2, <1>3 DEF Inv, Types

(* Closing a period resets the configured measures and appends a report. *)
LEMMA ResetIs ==
  ASSUME TypeOK, NEW m \in Measures
  PROVE  /\ reset(data[m]) = [samples |-> <<>>, period |-> NoFailure,
                              total |-> data[m].total]
         /\ reset(data[m]) \in [samples : Seq(Sample), period : Counter, total : Counter]
<1>. DEFINE d == data[m]
            e == [d EXCEPT !.samples = <<>>]
<1>1. d \in [samples : Seq(Sample), period : Counter, total : Counter]
  BY DataTypes
<1>2. reset(d) = [e EXCEPT !.period = NoFailure]
  BY Zenon DEF reset
<1>. HIDE DEF d
<1>3. e = [samples |-> <<>>, period |-> d.period, total |-> d.total]
  BY <1>1
<1>. HIDE DEF e
<1>4. reset(d) = [samples |-> <<>>, period |-> NoFailure, total |-> d.total]
  BY <1>2, <1>3
<1>5. reset(data[m]) = [samples |-> <<>>, period |-> NoFailure, total |-> data[m].total]
  BY <1>4 DEF d
<1> QED
  BY <1>5, DataTypes, NewDataTypes

LEMMA CloseFacts ==
  ASSUME TypeOK, NEW now \in Instants, NEW outcome \in Outcomes,
         close_period(now, outcome)
  PROVE  /\ period_id' = period_id + 1
         /\ reports' = Append(reports, [when |-> now, period_id |-> period_id + 1,
                                        outcome |-> outcome,
                                        results |-> [m \in configured |-> Result(m)]])
         /\ \A m \in configured :
              data'[m] = [samples |-> <<>>, period |-> NoFailure, total |-> data[m].total]
         /\ \A m \in Measures \ configured : data'[m] = data[m]
         /\ data' \in [Measures -> [samples : Seq(Sample), period : Counter, total : Counter]]
         /\ cuts' = Append(cuts, [m \in Measures |-> Len(added[m])])
         /\ UNCHANGED <<configured, thrown, added>>
<1>1. /\ period_id' = period_id + 1
      /\ reports' = Append(reports, [when |-> now, period_id |-> period_id + 1,
                                     outcome |-> outcome,
                                     results |-> [m \in configured |-> Result(m)]])
      /\ data' = [m \in Measures |->
                    IF m \in configured THEN reset(data[m]) ELSE data[m]]
      /\ cuts' = Append(cuts, [m \in Measures |-> Len(added[m])])
      /\ UNCHANGED <<configured, thrown, added>>
  BY DEF close_period
<1>2. configured \subseteq Measures
  BY DEF TypeOK
<1>3. \A m \in Measures :
        (IF m \in configured THEN reset(data[m]) ELSE data[m])
          \in [samples : Seq(Sample), period : Counter, total : Counter]
  BY ResetIs, DataTypes
<1>4. data' \in [Measures -> [samples : Seq(Sample), period : Counter, total : Counter]]
  BY <1>1, <1>3
<1>5. \A m \in configured :
        data'[m] = [samples |-> <<>>, period |-> NoFailure, total |-> data[m].total]
  BY <1>1, <1>2, ResetIs
<1>6. \A m \in Measures \ configured : data'[m] = data[m]
  BY <1>1
<1> QED
  BY <1>1, <1>4, <1>5, <1>6

LEMMA CloseFiles ==
  ASSUME TypeOK, NEW now \in Instants, NEW outcome \in Outcomes,
         close_period(now, outcome)
  PROVE  /\ DOMAIN files' \subseteq Nat
         /\ \A n \in DOMAIN files' : files'[n] \in 0..(period_id + 1)
<1>. DEFINE p == period_id + 1
            n0 == to_compact_string(now)
<1>1. n0 \in Nat /\ p \in Nat /\ period_id \in Nat
  BY MinuteIsNat DEF TypeOK
<1>2. \/ files' = Written(n0, p)
      \/ files' = Written(n0, Garbled)
      \/ files' = files
  BY DEF close_period, Outcomes
<1>3. Garbled \in 0..p /\ p \in 0..p
  BY <1>1 DEF Garbled
<1>. HIDE DEF p, n0
<1>4. DOMAIN files \subseteq Nat /\ \A n \in DOMAIN files : files[n] \in 0..p
  BY DEF TypeOK, p
<1>5. ASSUME NEW x \in 0..p, files' = Written(n0, x)
      PROVE  DOMAIN files' \subseteq Nat /\ \A n \in DOMAIN files' : files'[n] \in 0..p
  BY <1>1, <1>4, <1>5 DEF Written
<1>6. DOMAIN files' \subseteq Nat /\ \A n \in DOMAIN files' : files'[n] \in 0..p
  BY <1>2, <1>3, <1>4, <1>5
<1> QED
  BY <1>6 DEF p

LEMMA CloseKeepsInv ==
  ASSUME Inv, NEW now \in Instants, NEW outcome \in Outcomes,
         close_period(now, outcome)
  PROVE  Inv'
<1>. DEFINE r == [when |-> now, period_id |-> period_id + 1, outcome |-> outcome,
                  results |-> [m \in configured |-> Result(m)]]
            c == [m \in Measures |-> Len(added[m])]
<1>1. TypeOK /\ reports \in Seq(ReportType) /\ cuts \in Seq([Measures -> Nat])
  BY DEF Inv, Types, TypeOK
<1>2. r \in ReportType
  BY <1>1, ReportTypes
<1>3. c \in [Measures -> Nat]
  BY <1>1, DataTypes
<1>4. reports' = Append(reports, r) /\ cuts' = Append(cuts, c)
  BY <1>1, CloseFacts
<1>. HIDE DEF r, c
<1>5. reports' \in Seq(ReportType) /\ Len(reports') = Len(reports) + 1
  BY <1>1, <1>2, <1>4, AppendIs
<1>6. cuts' \in Seq([Measures -> Nat]) /\ Len(cuts') = Len(cuts) + 1
  BY <1>1, <1>3, <1>4, AppendIs
<1>7. /\ period_id' = period_id + 1
      /\ data' \in [Measures -> [samples : Seq(Sample), period : Counter, total : Counter]]
      /\ \A m \in Measures \ configured : data'[m] = data[m]
      /\ UNCHANGED <<configured, thrown, added>>
  BY <1>1, CloseFacts
<1>8. DOMAIN files' \subseteq Nat /\ \A n \in DOMAIN files' : files'[n] \in 0..period_id'
  BY <1>1, <1>7, CloseFiles
<1>9. TypeOK'
  BY <1>1, <1>5, <1>6, <1>7, <1>8 DEF TypeOK
<1>10. NothingUnconfigured'
  BY <1>7 DEF Inv, NothingUnconfigured
<1> QED
  BY <1>5, <1>9, <1>10 DEF Inv, Types

LEMMA NextKeepsInv == Inv /\ [Next]_vars => Inv'
<1> SUFFICES ASSUME Inv, [Next]_vars PROVE Inv'
  OBVIOUS
<1>1. CASE Configure
  BY <1>1, ConfigureKeepsInv DEF Configure
<1>2. CASE Add
  BY <1>2, RegularKeepsInv, FailureKeepsInv DEF Add
<1>3. CASE Close
  BY <1>3, CloseKeepsInv DEF Close
<1>4. CASE UNCHANGED vars
  BY <1>4 DEF vars, Inv, Types, TypeOK, NothingUnconfigured
<1> QED
  BY <1>1, <1>2, <1>3, <1>4 DEF Next

LEMMA Invariance == Spec => []Inv
  BY InitTypes, NextKeepsInv, PTL DEF Spec

(* Every variable of the Reporter keeps its type: the counters are never    *)
(* negative, there is a report and a cut for every period, and a file holds *)
(* a report that was made or nothing (meas_reporter.h, result_t).           *)
THEOREM ReporterTypes == Spec => []TypeOK
  BY Invariance, PTL DEF Inv, Types

-------------------------------------------------------------------------------
(* The reports and the cuts that are there, and those a step adds.           *)

LEMMA CutType ==
  ASSUME TypeOK, NEW m \in Measures, NEW i \in 0..Len(reports)
  PROVE  Cut(i, m) \in Nat
<1>1. cuts \in Seq([Measures -> Nat]) /\ Len(cuts) = Len(reports)
  BY DEF TypeOK
<1>2. CASE i = 0
  BY <1>2 DEF Cut
<1>3. CASE i # 0
  <2>1. Len(reports) \in Nat
    BY DEF TypeOK
  <2>2. i \in 1..Len(cuts)
    BY <1>1, <1>3, <2>1
  <2>3. cuts[i] \in [Measures -> Nat]
    BY <1>1, <2>2
  <2> QED
    BY <1>3, <2>3 DEF Cut
<1> QED
  BY <1>2, <1>3

(* A report that was made stays as it is, and so does its cut. *)
LEMMA OldReports ==
  ASSUME Inv, NEW now \in Instants, NEW outcome \in Outcomes,
         close_period(now, outcome), NEW m \in Measures
  PROVE  /\ Len(reports') = Len(reports) + 1 /\ Len(reports) \in Nat
         /\ \A i \in 1..Len(reports) : reports'[i] = reports[i]
         /\ \A i \in 0..Len(reports) : Cut(i, m)' = Cut(i, m)
         /\ reports'[Len(reports) + 1].results = [n \in configured |-> Result(n)]
         /\ \A i \in Nat : i = Len(reports) + 1 => Cut(i, m)' = Len(added[m])
<1>. DEFINE r == [when |-> now, period_id |-> period_id + 1, outcome |-> outcome,
                  results |-> [n \in configured |-> Result(n)]]
            c == [n \in Measures |-> Len(added[n])]
<1>1. TypeOK /\ reports \in Seq(ReportType) /\ cuts \in Seq([Measures -> Nat])
      /\ Len(cuts) = Len(reports) /\ Len(reports) \in Nat
  BY DEF Inv, Types, TypeOK
<1>2. r \in ReportType /\ c \in [Measures -> Nat]
  BY <1>1, ReportTypes, DataTypes
<1>3. reports' = Append(reports, r) /\ cuts' = Append(cuts, c)
  BY <1>1, CloseFacts
<1>4. r.results = [n \in configured |-> Result(n)] /\ c[m] = Len(added[m])
  OBVIOUS
<1>. HIDE DEF r, c
<1>5. /\ Len(reports') = Len(reports) + 1
      /\ \A i \in 1..Len(reports) : reports'[i] = reports[i]
      /\ reports'[Len(reports) + 1] = r
  BY <1>1, <1>2, <1>3, AppendIs
<1>6. /\ \A i \in 1..Len(cuts) : cuts'[i] = cuts[i]
      /\ cuts'[Len(cuts) + 1] = c
  BY <1>1, <1>2, <1>3, AppendIs
<1>7. \A i \in 0..Len(reports) : Cut(i, m)' = Cut(i, m)
  <2>1. ASSUME NEW i \in 0..Len(reports) PROVE Cut(i, m)' = Cut(i, m)
    <3>1. CASE i = 0
      BY <3>1 DEF Cut
    <3>2. CASE i # 0
      <4>1. i \in 1..Len(cuts)
        BY <1>1, <3>2
      <4>2. cuts'[i] = cuts[i]
        BY <1>6, <4>1
      <4> QED
        BY <3>2, <4>2 DEF Cut
    <3> QED
      BY <3>1, <3>2
  <2> QED
    BY <2>1
<1>8. \A i \in Nat : i = Len(reports) + 1 => Cut(i, m)' = Len(added[m])
  <2>1. ASSUME NEW i \in Nat, i = Len(reports) + 1 PROVE Cut(i, m)' = Len(added[m])
    <3>1. cuts'[i] = c /\ i # 0
      BY <1>1, <1>6, <2>1
    <3> QED
      BY <1>4, <3>1 DEF Cut
  <2> QED
    BY <2>1
<1> QED
  BY <1>1, <1>4, <1>5, <1>7, <1>8

(* The samples of the present period reach from the last cut to the end. *)
Waiting(m) == Slice(m, data[m].samples, Cut(Len(reports), m), Len(added[m]))

LEMMA SamplesOnceIs ==
  SamplesOnce <=> \A m \in Measures : (\A i \in 1..Len(reports) : Holds(i, m)) /\ Waiting(m)
  BY DEF SamplesOnce, Waiting

LEMMA InitSamples == Init => SamplesOnce
<1> SUFFICES ASSUME Init, NEW m \in Measures
             PROVE  (\A i \in 1..Len(reports) : Holds(i, m)) /\ Waiting(m)
  BY SamplesOnceIs
<1>1. reports = <<>> /\ Len(reports) = 0
  BY DEF Init
<1>2. data[m].samples = <<>> /\ added[m] = <<>>
  BY DEF Init, NewData
<1> QED
  BY <1>1, <1>2 DEF Waiting, Slice, Cut

(* What happens to one measure when a regular sample is added to it.        *)
LEMMA SliceGrows ==
  ASSUME NEW m \in Measures, NEW x \in Sample, added[m] \in Seq(Sample),
         added'[m] = Append(added[m], x),
         NEW s \in Seq(Sample), NEW a \in Nat, NEW b \in Nat, Slice(m, s, a, b)
  PROVE  Slice(m, s, a, b)'
<1>1. /\ Len(added'[m]) = Len(added[m]) + 1 /\ Len(added[m]) \in Nat
      /\ \A i \in 1..Len(added[m]) : added'[m][i] = added[m][i]
  BY AppendIs
<1>2. /\ a <= b /\ b <= Len(added[m]) /\ Len(s) = b - a
      /\ \A j \in 1..Len(s) : s[j] = added[m][a + j]
  BY DEF Slice
<1>3. \A j \in 1..Len(s) : a + j \in 1..Len(added[m])
  BY <1>1, <1>2
<1>4. \A j \in 1..Len(s) : s[j] = added'[m][a + j]
  BY <1>1, <1>2, <1>3
<1> QED
  BY <1>1, <1>2, <1>4 DEF Slice

LEMMA WaitingGrows ==
  ASSUME TypeOK, NEW m \in Measures, NEW x \in Sample, NEW a \in Nat,
         added'[m] = Append(added[m], x),
         data'[m].samples = Append(data[m].samples, x),
         Slice(m, data[m].samples, a, Len(added[m]))
  PROVE  Slice(m, data[m].samples, a, Len(added[m]))'
<1>. DEFINE s == data[m].samples
            w == added[m]
<1>1. s \in Seq(Sample) /\ w \in Seq(Sample) /\ Len(w) \in Nat /\ Len(s) \in Nat
  BY DataTypes
<1>2. /\ a <= Len(w) /\ Len(s) = Len(w) - a
      /\ \A j \in 1..Len(s) : s[j] = w[a + j]
  BY DEF Slice
<1>. HIDE DEF s, w
<1>3. /\ Len(Append(s, x)) = Len(s) + 1 /\ Append(s, x)[Len(s) + 1] = x
      /\ \A j \in 1..Len(s) : Append(s, x)[j] = s[j]
  BY <1>1, AppendIs
<1>4. /\ Len(Append(w, x)) = Len(w) + 1 /\ Append(w, x)[Len(w) + 1] = x
      /\ \A j \in 1..Len(w) : Append(w, x)[j] = w[j]
  BY <1>1, AppendIs
<1>5. ASSUME NEW j \in 1..(Len(s) + 1)
      PROVE  Append(s, x)[j] = Append(w, x)[a + j]
  <2>1. CASE j = Len(s) + 1
    <3>1. a + j = Len(w) + 1
      BY <1>1, <1>2, <2>1
    <3> QED
      BY <1>3, <1>4, <2>1, <3>1
  <2>2. CASE j # Len(s) + 1
    <3>1. j \in Nat /\ 1 <= j /\ j <= Len(s)
      BY <1>1, <2>2
    <3>2. j \in 1..Len(s)
      BY <3>1, <1>1
    <3>3. Len(s) = Len(w) - a
      BY <1>2
    <3>4. a + j \in 1..Len(w)
      BY <1>1, <3>1, <3>3
    <3> QED
      BY <1>2, <1>3, <1>4, <3>2, <3>4
  <2> QED
    BY <2>1, <2>2
<1>6. data'[m].samples = Append(s, x) /\ added'[m] = Append(w, x)
  BY DEF s, w
<1>7. a <= Len(w) + 1 /\ Len(s) + 1 = Len(w) + 1 - a
  BY <1>1, <1>2
<1> QED
  BY <1>3, <1>4, <1>5, <1>6, <1>7 DEF Slice

LEMMA ReportParts ==
  ASSUME Inv, NEW i \in 1..Len(reports), NEW m \in DOMAIN reports[i].results
  PROVE  reports[i].results[m] \in ResultType
<1>1. reports[i] \in ReportType
  BY DEF Inv, Types
<1>2. PICK D \in SUBSET Measures : reports[i].results \in [D -> ResultType]
  BY <1>1 DEF ReportType
<1> QED
  BY <1>2

(* A measure a step does not touch. *)
LEMMA SameMeasure ==
  ASSUME UNCHANGED <<reports, cuts>>, NEW m, added'[m] = added[m],
         data'[m].samples = data[m].samples
  PROVE  /\ \A i \in 1..Len(reports) : Holds(i, m) => Holds(i, m)'
         /\ Waiting(m) => Waiting(m)'
<1>1. reports' = reports /\ cuts' = cuts
  OBVIOUS
<1>2. \A i : Cut(i, m)' = Cut(i, m)
  BY <1>1 DEF Cut
<1>3. ASSUME NEW s, NEW a, NEW b, Slice(m, s, a, b)
      PROVE  Slice(m, s, a, b)'
  BY <1>3 DEF Slice
<1>4. ASSUME NEW i \in 1..Len(reports), Holds(i, m)
      PROVE  Holds(i, m)'
  <2>. DEFINE s == reports[i].results[m].samples
              a == Cut(i - 1, m)
              b == Cut(i, m)
  <2>1. s' = s /\ a' = a /\ b' = b
    BY <1>1, <1>2
  <2>2. Slice(m, s, a, b) => Slice(m, s, a, b)'
    <3>. HIDE DEF s, a, b
    <3> QED
      BY <1>3, <2>1 DEF Slice
  <2> QED
    BY <1>1, <1>2, <1>4, <2>2 DEF Holds
<1>5. ASSUME Waiting(m) PROVE Waiting(m)'
  <2>. DEFINE s == data[m].samples
              a == Cut(Len(reports), m)
              b == Len(added[m])
  <2>1. s' = s /\ a' = a /\ b' = b
    BY <1>1 DEF Cut
  <2>2. Slice(m, s, a, b)
    BY <1>5 DEF Waiting
  <2>3. Slice(m, s, a, b)'
    <3>. HIDE DEF s, a, b
    <3> QED
      BY <1>3, <2>1, <2>2 DEF Slice
  <2> QED
    BY <2>3 DEF Waiting
<1> QED
  BY <1>4, <1>5

(* Neither a failure nor a new measure touches the samples. *)
LEMMA SameSamples ==
  ASSUME SamplesOnce, UNCHANGED <<reports, cuts, added>>,
         \A m \in Measures : data'[m].samples = data[m].samples
  PROVE  SamplesOnce'
<1>1. SUFFICES ASSUME NEW m \in Measures
               PROVE  (\A i \in 1..Len(reports) : Holds(i, m)') /\ Waiting(m)'
  BY DEF SamplesOnce, Waiting
<1>2. (\A i \in 1..Len(reports) : Holds(i, m)) /\ Waiting(m)
  BY SamplesOnceIs
<1> QED
  BY <1>2, SameMeasure

LEMMA RegularKeepsSamples ==
  ASSUME Inv, SamplesOnce,
         NEW m \in Measures, NEW when \in Instants, NEW value \in Values,
         add_measurement(m, when, value, "regular")
  PROVE  SamplesOnce'
<1>1. UNCHANGED <<reports, cuts>> /\ TypeOK
  BY AddOthers DEF Inv, Types
<1>2. CASE m \in configured
  <2>. DEFINE x == [t |-> when, v |-> value]
  <2>1. /\ data' = [data EXCEPT ![m].samples = Append(@, x)]
        /\ added' = [added EXCEPT ![m] = Append(@, x)]
        /\ x \in Sample
    BY <1>1, <1>2, AddRegular
  <2>. HIDE DEF x
  <2>2. /\ added'[m] = Append(added[m], x)
        /\ data'[m].samples = Append(data[m].samples, x)
        /\ \A n \in Measures \ {m} : added'[n] = added[n] /\ data'[n] = data[n]
    BY <1>1, <2>1, DataTypes DEF TypeOK
  <2>3. SUFFICES ASSUME NEW n \in Measures
                 PROVE  (\A i \in 1..Len(reports) : Holds(i, n)') /\ Waiting(n)'
    BY <1>1 DEF SamplesOnce, Waiting
  <2>4. (\A i \in 1..Len(reports) : Holds(i, n)) /\ Waiting(n)
    BY SamplesOnceIs
  <2>5. Len(reports) \in Nat
    BY <1>1 DEF TypeOK
  <2>6. CASE n # m
    BY <1>1, <2>2, <2>4, <2>6, SameMeasure
  <2>7. CASE n = m
    <3>1. ASSUME NEW i \in 1..Len(reports), n \in RawReported,
                 n \in DOMAIN reports[i].results
          PROVE  Slice(n, reports[i].results[n].samples, Cut(i - 1, n), Cut(i, n))'
      <4>. DEFINE s == reports[i].results[n].samples
                  a == Cut(i - 1, n)
                  b == Cut(i, n)
      <4>1. s \in Seq(Sample)
        BY <3>1, ReportParts DEF ResultType
      <4>2. a \in Nat /\ b \in Nat
        <5>1. i \in 0..Len(reports) /\ i - 1 \in 0..Len(reports)
          BY <2>5
        <5> QED
          BY <1>1, <5>1, CutType
      <4>3. Slice(n, s, a, b)
        BY <2>4, <3>1 DEF Holds
      <4>4. s' = s /\ a' = a /\ b' = b
        BY <1>1 DEF Cut
      <4>5. added[n] \in Seq(Sample) /\ added'[n] = Append(added[n], x)
        BY <1>1, <2>2, <2>7, DataTypes
      <4>. HIDE DEF s, a, b
      <4>6. ASSUME NEW s0 \in Seq(Sample), NEW a0 \in Nat, NEW b0 \in Nat,
                   Slice(n, s0, a0, b0)
            PROVE  Slice(n, s0, a0, b0)'
        BY <2>1, <4>5, <4>6, SliceGrows
      <4>7. Slice(n, s, a, b)'
        BY <4>1, <4>2, <4>3, <4>4, <4>6 DEF Slice
      <4> QED
        BY <4>7 DEF s, a, b
    <3>2. \A i \in 1..Len(reports) : Holds(i, n)'
      BY <1>1, <2>4, <3>1 DEF Holds, Cut
    <3>3. Waiting(n)'
      <4>. DEFINE a == Cut(Len(reports), n)
      <4>1. a \in Nat /\ a' = a
        BY <1>1, <2>5, CutType DEF Cut
      <4>2. ASSUME NEW a0 \in Nat, Slice(n, data[n].samples, a0, Len(added[n]))
            PROVE  Slice(n, data[n].samples, a0, Len(added[n]))'
        BY <1>1, <2>1, <2>2, <2>7, <4>2, WaitingGrows
      <4>3. Slice(n, data[n].samples, a, Len(added[n]))
        BY <2>4 DEF Waiting
      <4>. HIDE DEF a
      <4>4. Slice(n, data[n].samples, a, Len(added[n]))'
        BY <4>1, <4>2, <4>3 DEF Slice
      <4> QED
        BY <4>4 DEF a, Waiting
    <3> QED
      BY <3>2, <3>3
  <2> QED
    BY <2>6, <2>7
<1>3. CASE m \notin configured
  BY <1>1, <1>3, AddUnknown, SameSamples
<1> QED
  BY <1>2, <1>3

LEMMA FailureKeepsSamples ==
  ASSUME Inv, SamplesOnce,
         NEW m \in Measures, NEW when \in Instants, NEW f \in Failures,
         add_measurement(m, when, NaN, f)
  PROVE  SamplesOnce'
<1>1. UNCHANGED <<reports, cuts>> /\ TypeOK
  BY AddOthers DEF Inv, Types
<1>2. CASE m \in configured
  <2>1. data' = [data EXCEPT ![m].period[f] = @ + 1, ![m].total[f] = @ + 1]
        /\ added' = added
    BY <1>2, AddFailure
  <2>2. \A n \in Measures : data'[n].samples = data[n].samples
    BY <1>1, <2>1, DataTypes DEF TypeOK
  <2> QED
    BY <1>1, <2>1, <2>2, SameSamples
<1>3. CASE m \notin configured
  BY <1>1, <1>3, AddUnknown, SameSamples
<1> QED
  BY <1>2, <1>3

(* The samples of the period go to the new report, and none is left. *)
LEMMA CloseKeepsSamples ==
  ASSUME Inv, SamplesOnce, NEW now \in Instants, NEW outcome \in Outcomes,
         close_period(now, outcome)
  PROVE  SamplesOnce'
<1>1. SUFFICES ASSUME NEW m \in Measures
               PROVE  (\A i \in 1..Len(reports') : Holds(i, m)') /\ Waiting(m)'
  BY DEF SamplesOnce, Waiting
<1>2. TypeOK /\ configured \subseteq Measures
  BY DEF Inv, Types, TypeOK
<1>. DEFINE n == Len(reports)
            k == Len(added[m])
<1>3. /\ Len(reports') = n + 1 /\ n \in Nat
      /\ \A i \in 1..n : reports'[i] = reports[i]
      /\ \A i \in 0..n : Cut(i, m)' = Cut(i, m)
      /\ reports'[n + 1].results = [q \in configured |-> Result(q)]
      /\ \A i \in Nat : i = n + 1 => Cut(i, m)' = k
  BY OldReports
<1>4. /\ m \in configured => data'[m].samples = <<>>
      /\ m \notin configured => data'[m] = data[m] /\ data[m].samples = <<>> /\ k = 0
      /\ added' = added
  <2>1. m \in configured =>
          data'[m] = [samples |-> <<>>, period |-> NoFailure, total |-> data[m].total]
    BY <1>2, CloseFacts
  <2>2. m \notin configured => data'[m] = data[m]
    BY <1>2, CloseFacts
  <2>3. added' = added
    BY <1>2, CloseFacts
  <2>4. m \notin configured => data[m].samples = <<>> /\ added[m] = <<>>
    BY DEF Inv, NothingUnconfigured, NewData
  <2> QED
    BY <2>1, <2>2, <2>3, <2>4
<1>5. (\A i \in 1..n : Holds(i, m)) /\ Waiting(m)
  BY SamplesOnceIs
<1>6. k \in Nat /\ data[m].samples \in Seq(Sample)
  BY <1>2, DataTypes
<1>. HIDE DEF n, k
<1>7. ASSUME NEW i \in 1..n PROVE Holds(i, m)'
  <2>1. i - 1 \in 0..n /\ i \in 0..n
    BY <1>3
  <2>2. reports'[i] = reports[i] /\ Cut(i, m)' = Cut(i, m)
        /\ Cut(i - 1, m)' = Cut(i - 1, m)
    BY <1>3, <2>1
  <2> QED
    BY <1>4, <1>5, <2>2 DEF Holds, Slice
<1>8. ASSUME NEW i \in Nat, i = n + 1 PROVE Holds(i, m)'
  <2>1. Cut(i, m)' = k /\ Cut(i - 1, m)' = Cut(n, m)
    BY <1>3, <1>8
  <2>2. CASE m \in configured
    <3>1. m \in DOMAIN reports'[i].results /\ reports'[i].results[m] = Result(m)
      BY <1>3, <1>8, <2>2
    <3>2. Result(m).num_samples = Len(data[m].samples)
          /\ (m \in RawReported => Result(m).samples = data[m].samples)
      BY DEF Result
    <3>3. Slice(m, data[m].samples, Cut(n, m), k)
      BY <1>5 DEF Waiting, n, k
    <3>4. Len(data[m].samples) = k - Cut(n, m)
      BY <3>3 DEF Slice
    <3>5. reports'[i].results[m].num_samples = Cut(i, m)' - Cut(i - 1, m)'
      BY <2>1, <3>1, <3>2, <3>4
    <3>6. m \in RawReported =>
            Slice(m, reports[i].results[m].samples, Cut(i - 1, m), Cut(i, m))'
      BY <1>4, <2>1, <3>1, <3>2, <3>3 DEF Slice
    <3> QED
      BY <3>1, <3>5, <3>6 DEF Holds
  <2>3. CASE m \notin configured
    BY <1>3, <1>4, <1>8, <2>1, <2>3 DEF Holds
  <2> QED
    BY <2>2, <2>3
<1>9. \A i \in 1..Len(reports') : Holds(i, m)'
  <2>1. ASSUME NEW i \in 1..(n + 1) PROVE Holds(i, m)'
    <3>1. i \in 1..n \/ (i \in Nat /\ i = n + 1)
      BY <1>3
    <3> QED
      BY <1>7, <1>8, <3>1
  <2> QED
    BY <1>3, <2>1
<1>10. Waiting(m)'
  <2>1. data'[m].samples = <<>>
    BY <1>4
  <2>2. \A i \in Nat : i = Len(reports') => Cut(i, m)' = k
    BY <1>3
  <2>3. Cut(Len(reports), m)' = k
    BY <1>3, <2>2 DEF Cut
  <2> QED
    BY <1>4, <1>6, <2>1, <2>3 DEF Waiting, Slice, k
<1> QED
  BY <1>9, <1>10

LEMMA NextKeepsSamples == Inv /\ SamplesOnce /\ [Next]_vars => SamplesOnce'
<1> SUFFICES ASSUME Inv, SamplesOnce, [Next]_vars PROVE SamplesOnce'
  OBVIOUS
<1>1. CASE Configure
  <2>1. UNCHANGED <<data, reports, added, cuts>>
    BY <1>1 DEF Configure, configure_measurement
  <2> QED
    BY <2>1, SameSamples
<1>2. CASE Add
  BY <1>2, RegularKeepsSamples, FailureKeepsSamples DEF Add
<1>3. CASE Close
  BY <1>3, CloseKeepsSamples DEF Close
<1>4. CASE UNCHANGED vars
  <2>1. UNCHANGED <<data, reports, added, cuts>>
    BY <1>4 DEF vars
  <2> QED
    BY <2>1, SameSamples
<1> QED
  BY <1>1, <1>2, <1>3, <1>4 DEF Next

(* Every regular sample is in exactly one period, whatever the sequence of  *)
(* calls: a report holds the samples given since the report before, in      *)
(* their order, and data_t::reset (meas_reporter.h) keeps none of them and  *)
(* forgets none that came later.                                            *)
THEOREM EverySampleOnce == Spec => []SamplesOnce
  BY Invariance, InitSamples, NextKeepsSamples, PTL DEF Spec

-------------------------------------------------------------------------------
(* The totals.                                                              *)

(* Of one measure and one kind of failure. *)
ReportAddsUp(i, m, f) ==
  m \in DOMAIN reports[i].results =>
    reports[i].results[m].total[f] = Before(i, m)[f] + reports[i].results[m].period[f]

AddsUp(m, f) == data[m].total[f] = Before(Len(reports) + 1, m)[f] + data[m].period[f]

LEMMA TotalsChainIs ==
  TotalsChain <=> \A m \in Measures, f \in Failures :
                    (\A i \in 1..Len(reports) : ReportAddsUp(i, m, f)) /\ AddsUp(m, f)
  BY DEF TotalsChain, ReportAddsUp, AddsUp

LEMMA BeforeType ==
  ASSUME Inv, NEW m \in Measures, NEW i \in 1..(Len(reports) + 1)
  PROVE  Before(i, m) \in Counter
<1>1. Len(reports) \in Nat
  BY DEF Inv, Types, TypeOK
<1>2. CASE i > 1 /\ m \in DOMAIN reports[i - 1].results
  <2>1. i - 1 \in 1..Len(reports)
    BY <1>1, <1>2
  <2>2. reports[i - 1].results[m] \in ResultType
    BY <1>2, <2>1, ReportParts
  <2> QED
    BY <1>2, <2>2 DEF Before, ResultType
<1>3. CASE ~(i > 1 /\ m \in DOMAIN reports[i - 1].results)
  BY <1>3, NewDataTypes DEF Before
<1> QED
  BY <1>2, <1>3

LEMMA InitTotals == Init => TotalsChain
<1> SUFFICES ASSUME Init, NEW m \in Measures, NEW f \in Failures
             PROVE  (\A i \in 1..Len(reports) : ReportAddsUp(i, m, f)) /\ AddsUp(m, f)
  BY TotalsChainIs
<1>1. reports = <<>> /\ Len(reports) = 0
  BY DEF Init
<1>2. data[m].total[f] = 0 /\ data[m].period[f] = 0
  BY DEF Init, NewData, NoFailure
<1>3. Before(Len(reports) + 1, m)[f] = 0
  BY <1>1 DEF Before, NoFailure
<1> QED
  BY <1>1, <1>2, <1>3 DEF AddsUp

LEMMA SameTotals ==
  ASSUME TotalsChain, UNCHANGED reports,
         \A m \in Measures : /\ data'[m].total = data[m].total
                             /\ data'[m].period = data[m].period
  PROVE  TotalsChain'
  BY DEF TotalsChain, Before

LEMMA RegularKeepsTotals ==
  ASSUME Inv, TotalsChain,
         NEW m \in Measures, NEW when \in Instants, NEW value \in Values,
         add_measurement(m, when, value, "regular")
  PROVE  TotalsChain'
<1>1. UNCHANGED reports /\ TypeOK
  BY AddOthers DEF Inv, Types
<1>2. CASE m \in configured
  <2>1. data' = [data EXCEPT ![m].samples = Append(@, [t |-> when, v |-> value])]
    BY <1>1, <1>2, AddRegular
  <2>2. \A n \in Measures : /\ data'[n].total = data[n].total
                            /\ data'[n].period = data[n].period
    BY <1>1, <2>1, DataTypes DEF TypeOK
  <2> QED
    BY <1>1, <2>2, SameTotals
<1>3. CASE m \notin configured
  BY <1>1, <1>3, AddUnknown, SameTotals
<1> QED
  BY <1>2, <1>3

(* A failure counts in the period and in the total. *)
LEMMA FailureKeepsTotals ==
  ASSUME Inv, TotalsChain,
         NEW m \in Measures, NEW when \in Instants, NEW f \in Failures,
         add_measurement(m, when, NaN, f)
  PROVE  TotalsChain'
<1>1. UNCHANGED reports /\ TypeOK /\ reports' = reports
  BY AddOthers DEF Inv, Types
<1>2. CASE m \in configured
  <2>1. data' = [data EXCEPT ![m].period[f] = @ + 1, ![m].total[f] = @ + 1]
    BY <1>2, AddFailure
  <2>2. /\ data'[m].period = [data[m].period EXCEPT ![f] = @ + 1]
        /\ data'[m].total = [data[m].total EXCEPT ![f] = @ + 1]
        /\ \A n \in Measures \ {m} : data'[n] = data[n]
    BY <1>1, <2>1, DataTypes DEF TypeOK
  <2>3. SUFFICES ASSUME NEW n \in Measures, NEW g \in Failures
                 PROVE  (\A i \in 1..Len(reports) : ReportAddsUp(i, n, g)') /\ AddsUp(n, g)'
    BY <1>1 DEF TotalsChain, ReportAddsUp, AddsUp
  <2>4. (\A i \in 1..Len(reports) : ReportAddsUp(i, n, g)) /\ AddsUp(n, g)
    BY TotalsChainIs
  <2>5. \A i : Before(i, n)' = Before(i, n)
    BY <1>1 DEF Before
  <2>6. \A i \in 1..Len(reports) : ReportAddsUp(i, n, g)'
    BY <1>1, <2>4, <2>5 DEF ReportAddsUp
  <2>7. Before(Len(reports) + 1, n)' = Before(Len(reports) + 1, n)
    BY <1>1 DEF Before
  <2>8. CASE n # m \/ g # f
    <3>1. data'[n].total[g] = data[n].total[g] /\ data'[n].period[g] = data[n].period[g]
      BY <1>1, <2>2, <2>8, DataTypes DEF Counter
    <3> QED
      BY <2>4, <2>6, <2>7, <3>1 DEF AddsUp
  <2>9. CASE n = m /\ g = f
    <3>1. data'[n].total[g] = data[n].total[g] + 1 /\ data'[n].period[g] = data[n].period[g] + 1
      BY <1>1, <2>2, <2>9, DataTypes DEF Counter
    <3>2. data[n].period[g] \in Nat
      BY <1>1, DataTypes DEF Counter
    <3>3. Before(Len(reports) + 1, n)[g] \in Nat
      <4>1. Len(reports) + 1 \in 1..(Len(reports) + 1)
        BY <1>1 DEF TypeOK
      <4> QED
        BY <4>1, BeforeType DEF Counter
    <3>4. data'[n].total[g] = Before(Len(reports) + 1, n)[g] + data'[n].period[g]
      BY <2>4, <3>1, <3>2, <3>3 DEF AddsUp
    <3> QED
      BY <2>6, <2>7, <3>4 DEF AddsUp
  <2> QED
    BY <2>8, <2>9
<1>3. CASE m \notin configured
  BY <1>1, <1>3, AddUnknown, SameTotals
<1> QED
  BY <1>2, <1>3

(* The totals of the new report are those the next period begins with. *)
LEMMA CloseKeepsTotals ==
  ASSUME Inv, TotalsChain, NEW now \in Instants, NEW outcome \in Outcomes,
         close_period(now, outcome)
  PROVE  TotalsChain'
<1>1. SUFFICES ASSUME NEW m \in Measures, NEW f \in Failures
               PROVE  (\A i \in 1..Len(reports') : ReportAddsUp(i, m, f)') /\ AddsUp(m, f)'
  BY DEF TotalsChain, ReportAddsUp, AddsUp
<1>2. TypeOK /\ configured \subseteq Measures
  BY DEF Inv, Types, TypeOK
<1>. DEFINE n == Len(reports)
<1>3. /\ Len(reports') = n + 1 /\ n \in Nat
      /\ \A i \in 1..n : reports'[i] = reports[i]
      /\ reports'[n + 1].results = [q \in configured |-> Result(q)]
  BY OldReports
<1>4. /\ \A i \in 1..n : ReportAddsUp(i, m, f)
      /\ data[m].total[f] = Before(n + 1, m)[f] + data[m].period[f]
  BY TotalsChainIs DEF AddsUp
<1>5. data[m].total[f] \in Nat
  BY <1>2, DataTypes DEF Counter
<1>. HIDE DEF n
<1>6. ASSUME NEW i \in 1..(n + 1) PROVE Before(i, m)' = Before(i, m)
  <2>1. i > 1 => i - 1 \in 1..n
    BY <1>3
  <2>2. i > 1 => reports'[i - 1] = reports[i - 1]
    BY <1>3, <2>1
  <2> QED
    BY <2>2 DEF Before
<1>7. ASSUME NEW i \in 1..n PROVE ReportAddsUp(i, m, f)'
  <2>1. reports'[i] = reports[i] /\ Before(i, m)' = Before(i, m)
    BY <1>3, <1>6
  <2> QED
    BY <1>4, <2>1 DEF ReportAddsUp
<1>8. ASSUME NEW i \in Nat, i = n + 1 PROVE ReportAddsUp(i, m, f)'
  <2>1. Before(i, m)' = Before(i, m)
    BY <1>3, <1>6, <1>8
  <2>2. ASSUME m \in configured
        PROVE  reports'[i].results[m].total = data[m].total
               /\ reports'[i].results[m].period = data[m].period
    <3>1. reports'[i].results[m] = Result(m)
      BY <1>3, <1>8, <2>2
    <3> QED
      BY <3>1 DEF Result
  <2>3. DOMAIN reports'[i].results = configured
    BY <1>3, <1>8
  <2> QED
    BY <1>4, <1>8, <2>1, <2>2, <2>3 DEF ReportAddsUp
<1>9. \A i \in 1..Len(reports') : ReportAddsUp(i, m, f)'
  <2>1. ASSUME NEW i \in 1..(n + 1) PROVE ReportAddsUp(i, m, f)'
    <3>1. i \in 1..n \/ (i \in Nat /\ i = n + 1)
      BY <1>3
    <3> QED
      BY <1>7, <1>8, <3>1
  <2> QED
    BY <1>3, <2>1
<1>10. AddsUp(m, f)'
  <2>1. ASSUME NEW i \in Nat, i = n + 2
        PROVE  data'[m].total[f] = Before(i, m)'[f] + data'[m].period[f]
    <3>1. i > 1 /\ i - 1 = n + 1
      BY <1>3, <2>1
    <3>2. CASE m \in configured
      <4>1. data'[m] = [samples |-> <<>>, period |-> NoFailure, total |-> data[m].total]
        BY <1>2, <3>2, CloseFacts
      <4>2. data'[m].total = data[m].total /\ data'[m].period[f] = 0
        BY <4>1 DEF NoFailure
      <4>3. reports'[i - 1].results = [q \in configured |-> Result(q)]
        BY <1>3, <3>1
      <4>4. m \in DOMAIN reports'[i - 1].results
            /\ reports'[i - 1].results[m].total = data[m].total
        BY <3>2, <4>3 DEF Result
      <4>5. Before(i, m)' = data[m].total
        BY <3>1, <4>4 DEF Before
      <4> QED
        BY <1>5, <4>2, <4>5
    <3>3. CASE m \notin configured
      <4>1. data'[m] = NewData
        BY <1>2, <3>3, CloseFacts DEF Inv, NothingUnconfigured
      <4>2. data'[m].total[f] = 0 /\ data'[m].period[f] = 0
        BY <4>1 DEF NewData, NoFailure
      <4>3. m \notin DOMAIN reports'[i - 1].results
        BY <1>3, <3>1, <3>3
      <4>4. Before(i, m)'[f] = 0
        BY <4>3 DEF Before, NoFailure
      <4> QED
        BY <4>2, <4>4
    <3> QED
      BY <3>2, <3>3
  <2>2. Len(reports') + 1 = n + 2 /\ n + 2 \in Nat
    BY <1>3
  <2>3. \A i \in Nat : i = Len(reports') + 1 =>
          data'[m].total[f] = Before(i, m)'[f] + data'[m].period[f]
    BY <2>1, <2>2
  <2> QED
    BY <2>2, <2>3 DEF AddsUp, Before
<1> QED
  BY <1>9, <1>10

LEMMA NextKeepsTotals == Inv /\ TotalsChain /\ [Next]_vars => TotalsChain'
<1> SUFFICES ASSUME Inv, TotalsChain, [Next]_vars PROVE TotalsChain'
  OBVIOUS
<1>1. CASE Configure
  <2>1. UNCHANGED <<data, reports>>
    BY <1>1 DEF Configure, configure_measurement
  <2> QED
    BY <2>1, SameTotals
<1>2. CASE Add
  BY <1>2, RegularKeepsTotals, FailureKeepsTotals DEF Add
<1>3. CASE Close
  BY <1>3, CloseKeepsTotals DEF Close
<1>4. CASE UNCHANGED vars
  <2>1. UNCHANGED <<data, reports>>
    BY <1>4 DEF vars
  <2> QED
    BY <2>1, SameTotals
<1> QED
  BY <1>1, <1>2, <1>3, <1>4 DEF Next

(* The totals of a report are those of the report before plus the counters  *)
(* of its period, for every measure and kind of failure and whatever became *)
(* of the files: no failure is counted twice and none is forgotten when     *)
(* close_period (meas_reporter.cpp) resets the period.                      *)
THEOREM TotalsAddUp == Spec => []TotalsChain
  BY Invariance, InitTotals, NextKeepsTotals, PTL DEF Spec
===============================================================================
