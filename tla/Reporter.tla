------------------------------- MODULE Reporter -------------------------------
(***************************************************************************)
(* measure::Reporter (meas_reporter.h, meas_reporter.cpp): collects, for    *)
(* every configured measure, the samples and the failures of the present    *)
(* period, and writes them to a file when the period is closed.             *)
(*                                                                         *)
(* A measure stands for the pair of keys (server, measure name) it has in   *)
(* results_.  The three operations run in the one thread of the program and *)
(* are atomic.  Nobody catches what they throw: the program ends.           *)
(*                                                                         *)
(* A report file is named after the minute of its instant.  Its stream is   *)
(* never checked: the outcome of writing it is a parameter of close_period  *)
(* and has no effect on the Reporter.                                       *)
(***************************************************************************)
EXTENDS Integers, Sequences, FiniteSets, Statistics

CONSTANTS Measures,     \* the measures there can be
          RawReported,  \* those whose report_raw_samples is set
          Values,       \* what a register can yield, scaled
          Instants,     \* the instants of samples and of reports, in seconds
          Minute,       \* seconds in a minute
          MaxCalls,     \* bound on the calls of add_measurement for a measure
          MaxPeriods    \* bound on the periods closed

ASSUME ReporterAssumption ==
  /\ RawReported \subseteq Measures
  /\ Values \subseteq Int
  /\ Instants \subseteq Nat
  /\ Minute \in Nat \ {0}
  /\ MaxCalls \in Nat /\ MaxPeriods \in Nat

VARIABLES configured,  \* the keys of results_
          data,        \* data[m]: result_t::data of m
          period_id,   \* period_id_
          files,       \* the report files: minute -> number of the report, or Garbled
          thrown,      \* an exception has left the Reporter
          reports,     \* history: the reports generated
          added,       \* history: added[m]: the regular samples given for m
          cuts         \* history: cuts[i][m]: Len(added[m]) at report i

vars == <<configured, data, period_id, files, thrown, reports, added, cuts>>

Failures    == {"read_failure", "underflow", "overflow"}
SampleTypes == {"regular"} \cup Failures
Outcomes    == {"written", "unopened", "truncated"}
Garbled     == 0      \* the contents of a file that was opened and not written

NoFailure == [f \in Failures |-> 0]
NewData   == [samples |-> <<>>, period |-> NoFailure, total |-> NoFailure]

(* Faulty: the name has no minutes either. *)
to_hour_string(when) == when \div (60 * Minute)

(* to_compact_string: the name of a report file has no seconds. *)
to_compact_string(when) == when \div Minute

Init ==
  /\ configured = {}
  /\ data = [m \in Measures |-> NewData]
  /\ period_id = 0
  /\ files = <<>>
  /\ thrown = FALSE
  /\ reports = <<>>
  /\ added = [m \in Measures |-> <<>>]
  /\ cuts = <<>>

-------------------------------------------------------------------------------
(* A duplicate leaves the result that is there alone and throws. *)
configure_measurement(m) ==
  /\ ~thrown
  /\ thrown' = (m \in configured)
  /\ configured' = configured \cup {m}
  /\ UNCHANGED <<data, period_id, files, reports, added, cuts>>

(* The value counts for a regular sample only. *)
add_measurement(m, when, value, sample_type) ==
  /\ ~thrown
  /\ thrown' = (m \notin configured)
  /\ \/ /\ m \in configured
        /\ sample_type = "regular"
        /\ data' = [data EXCEPT ![m].samples = Append(@, [t |-> when, v |-> value])]
        /\ added' = [added EXCEPT ![m] = Append(@, [t |-> when, v |-> value])]
     \/ /\ m \in configured
        /\ sample_type \in Failures
        /\ data' = [data EXCEPT ![m].period[sample_type] = @ + 1,
                                ![m].total[sample_type] = @ + 1]
        /\ UNCHANGED added
     \/ /\ m \notin configured
        /\ UNCHANGED <<data, added>>
  /\ UNCHANGED <<configured, period_id, files, reports, cuts>>

(* What is written of a measure: absent parts are <<>>. *)
Result(m) ==
  LET d == data[m]
  IN  [num_samples |-> Len(d.samples),
       period      |-> d.period,
       total       |-> d.total,
       statistics  |-> IF d.samples = <<>> THEN <<>> ELSE calculate_stats(d.samples),
       samples     |-> IF m \in RawReported THEN d.samples ELSE <<>>]

(* Faulty: the samples are kept. *)
reset_counters(d) == [d EXCEPT !.period = NoFailure]

(* Faulty: the totals are cleared as well. *)
reset_all(d) == NewData

(* data_t::reset *)
reset(d) == [d EXCEPT !.samples = <<>>, !.period = NoFailure]

(* Faulty: period_id_ is counted only when the file could be opened. *)
close_period_if_open(now, outcome) ==
  /\ ~thrown
  /\ period_id' = IF outcome = "unopened" THEN period_id ELSE period_id + 1
  /\ reports' = Append(reports, [when      |-> now,
                                 period_id |-> period_id',
                                 outcome   |-> outcome,
                                 results   |-> [m \in configured |-> Result(m)]])
  /\ data' = [m \in Measures |-> IF m \in configured THEN reset(data[m]) ELSE data[m]]
  /\ UNCHANGED <<configured, files, thrown, added>>
  /\ cuts' = Append(cuts, [m \in Measures |-> Len(added[m])])

(* The files once the file name holds the contents. *)
Written(name, contents) ==
  [n \in DOMAIN files \cup {name} |-> IF n = name THEN contents ELSE files[n]]

(* The stream is opened first, which empties a file of that name, and       *)
(* written last; the data are reset whatever becomes of it.                 *)
close_period(now, outcome) ==
  /\ ~thrown
  /\ period_id' = period_id + 1
  /\ reports' = Append(reports, [when      |-> now,
                                 period_id |-> period_id',
                                 outcome   |-> outcome,
                                 results   |-> [m \in configured |-> Result(m)]])
  /\ data' = [m \in Measures |-> IF m \in configured THEN reset(data[m]) ELSE data[m]]
  /\ \/ outcome = "written"   /\ files' = Written(to_compact_string(now), period_id')
     \/ outcome = "truncated" /\ files' = Written(to_compact_string(now), Garbled)
     \/ outcome = "unopened"  /\ UNCHANGED files
  /\ cuts' = Append(cuts, [m \in Measures |-> Len(added[m])])
  /\ UNCHANGED <<configured, thrown, added>>

-------------------------------------------------------------------------------
Calls(m) == Len(added[m]) + data[m].total["read_failure"]
              + data[m].total["underflow"] + data[m].total["overflow"]

Configure == \E m \in Measures : configure_measurement(m)

Add ==
  \E m \in Measures, when \in Instants :
    /\ Calls(m) < MaxCalls
    /\ \/ \E value \in Values : add_measurement(m, when, value, "regular")
       \/ \E f \in Failures : add_measurement(m, when, NaN, f)

Close ==
  /\ period_id < MaxPeriods
  /\ \E now \in Instants, outcome \in Outcomes : close_period(now, outcome)

(* A passive object: any of the operations may be called next, or none. *)
Next == Configure \/ Add \/ Close

Spec == Init /\ [][Next]_vars

-------------------------------------------------------------------------------
(* Properties.                                                              *)

Sample  == [t : Instants, v : Values]
Counter == [Failures -> Nat]

TypeOK ==
  /\ configured \in SUBSET Measures
  /\ data \in [Measures -> [samples : Seq(Sample), period : Counter, total : Counter]]
  /\ period_id \in Nat
  /\ thrown \in BOOLEAN
  /\ added \in [Measures -> Seq(Sample)]
  /\ cuts \in Seq([Measures -> Nat])
  /\ Len(reports) = period_id /\ Len(cuts) = period_id
  /\ DOMAIN files \subseteq Nat /\ \A n \in DOMAIN files : files[n] \in 0..period_id

(* Where the samples of report i begin: after those of report i - 1. *)
Cut(i, m) == IF i = 0 THEN 0 ELSE cuts[i][m]

(* The samples s of m are those it was given from position a + 1 to b. *)
Slice(m, s, a, b) ==
  /\ a <= b /\ b <= Len(added[m])
  /\ Len(s) = b - a
  /\ \A j \in 1..Len(s) : s[j] = added[m][a + j]

(* Report i holds the samples of m that came after report i - 1. *)
Holds(i, m) ==
  IF m \in DOMAIN reports[i].results
  THEN /\ reports[i].results[m].num_samples = Cut(i, m) - Cut(i - 1, m)
       /\ m \in RawReported =>
            Slice(m, reports[i].results[m].samples, Cut(i - 1, m), Cut(i, m))
  ELSE Cut(i, m) = 0

(* Every regular sample is in one period, in the order it was given: those  *)
(* of the reports follow one another without a gap or an overlap, and what  *)
(* comes after the last report waits for the next one.  reset() must forget *)
(* neither too little (a sample reported twice) nor too much (one lost).    *)
SamplesOnce ==
  \A m \in Measures :
    /\ \A i \in 1..Len(reports) : Holds(i, m)
    /\ Slice(m, data[m].samples, Cut(Len(reports), m), Len(added[m]))

Before(i, m) ==      \* the totals of m when report i is begun
  IF i > 1 /\ m \in DOMAIN reports[i - 1].results
  THEN reports[i - 1].results[m].total ELSE NoFailure

(* The totals of a report are those of the report before plus the counters  *)
(* of its period, and so are the current ones: a reader who lost a report   *)
(* file can still tell how many failures it held.                           *)
TotalsChain ==
  \A m \in Measures, f \in Failures :
    /\ \A i \in 1..Len(reports) :
         m \in DOMAIN reports[i].results =>
           reports[i].results[m].total[f]
             = Before(i, m)[f] + reports[i].results[m].period[f]
    /\ data[m].total[f] = Before(Len(reports) + 1, m)[f] + data[m].period[f]

===============================================================================
