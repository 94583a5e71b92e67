------------------------------- MODULE Metronome -------------------------------
(***************************************************************************)
(* What PeriodicScheduler promises to the tasks given to it, without the    *)
(* io_context, the timers and the wall clock: every task has a metronome of *)
(* its own.  The instants a task is called for form an arithmetic           *)
(* progression of step Interval, whatever the other tasks do, however late  *)
(* its calls run and however the wall clock is set meanwhile; only the      *)
(* first step of a task that is called at its start may differ.             *)
(***************************************************************************)
EXTENDS Integers, Sequences

CONSTANTS Tasks,     \* the scheduled tasks
          Interval,  \* Interval[t]: seconds between two calls of t, not 0
          Mode       \* Mode[t]: the TaskMode of t

VARIABLES labels,    \* labels[t]: the instants t was called for, oldest first
          rewound    \* the tasks with the clock set back during their first call

Aligned(t)   == Mode[t] = "execute_at_multiples_of_period"
Immediate(t) == Mode[t] = "execute_at_start"

(* The instants the task t may be called for next. An aligned task begins   *)
(* at a multiple of its interval, any other task at any instant. The first  *)
(* call of an immediate task is its start and not an expiry: the timer is   *)
(* set once that call is over, so the second one is late by its duration,   *)
(* and begins anew at any instant when the clock was set back during it.    *)
NextInstants(t) ==
  LET n == Len(labels[t])
  IN  IF n = 0 THEN { l \in Nat : Aligned(t) => l % Interval[t] = 0 }
      ELSE IF n = 1 /\ Immediate(t)
           THEN { l \in Nat : t \in rewound \/ l >= labels[t][n] + Interval[t] }
           ELSE { labels[t][n] + Interval[t] }

MetronomeInit == labels = [t \in Tasks |-> <<>>] /\ rewound = {}

Beat(t) ==
  /\ Len(labels'[t]) = Len(labels[t]) + 1
  /\ labels'[t][Len(labels[t]) + 1] \in NextInstants(t)
  /\ labels' = [labels EXCEPT ![t] = Append(@, labels'[t][Len(labels[t]) + 1])]
  /\ \/ rewound' = rewound
     \/ Immediate(t) /\ labels[t] = <<>> /\ rewound' = rewound \cup {t}

MetronomeNext == \E t \in Tasks : Beat(t)

MetronomeSpec == MetronomeInit /\ [][MetronomeNext]_<<labels, rewound>>

(* The instants of an aligned task are multiples of its interval: reports   *)
(* are cut at the same wall-clock times after every start of the program.   *)
OnGrid ==
  \A t \in Tasks : Aligned(t) =>
    \A i \in 1..Len(labels[t]) : labels[t][i] % Interval[t] = 0
===============================================================================
