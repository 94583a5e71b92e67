--------------------------- MODULE PeriodicScheduler ---------------------------
(***************************************************************************)
(* infra::PeriodicScheduler (periodic_scheduler.h, periodic_scheduler.cpp): *)
(* tasks, each with a system_timer of its own, run by one thread inside     *)
(* io_context::run().                                                       *)
(*                                                                         *)
(* A handler runs to completion before the next one, so it is one action;   *)
(* d is the time it takes (a task reads registers over a serial line and    *)
(* blocks the thread meanwhile).  The clock counts ticks, Second ticks make *)
(* a second: expiries have the clock's resolution, the instants given to    *)
(* the tasks are whole seconds.                                             *)
(*                                                                         *)
(* asio is external and modelled as it is used here: handlers queue in      *)
(* order; the timers are looked at once the queue is empty, and the waits   *)
(* that have expired by then complete together, in order of expiry.         *)
(***************************************************************************)
EXTENDS Integers, Sequences, FiniteSets

CONSTANTS Tasks,      \* the tasks that can be added
          Interval,   \* Interval[t]: interval_, in seconds
          Mode,       \* Mode[t]: the TaskMode given to addTask
          MaxCost,    \* MaxCost[t]: bound on the ticks one call of t takes
          Second,     \* ticks in a second
          MaxStart,   \* bound: the program starts at a tick of 0..MaxStart
          MaxClock,   \* bound on the clock
          MaxSteps,   \* bound on how often the wall clock is set
          MaxCancels  \* bound on the tasks cancelled (0: main cancels none)

ASSUME SchedulerAssumption ==
  /\ IsFiniteSet(Tasks)
  /\ Interval \in [Tasks -> Nat \ {0}]
  /\ Mode \in [Tasks -> { "execute_at_multiples_of_period",
                          "execute_at_start",
                          "skip_first_execution" }]
  /\ MaxCost \in [Tasks -> Nat]
  /\ Second \in Nat \ {0}
  /\ MaxStart \in Nat /\ MaxClock \in Nat /\ MaxStart <= MaxClock
  /\ MaxSteps \in Nat /\ MaxCancels \in Nat

VARIABLES phase,    \* "setup" until run() is called, then "running"
          tasks,    \* tasks_: the tasks added so far
          ops,      \* the io_context's queue of handlers ready to run
          waiting,  \* the tasks whose timer has an async_wait outstanding
          expiry,   \* expiry[t]: timer_.expiry()
          clock,    \* the system clock
          steps,    \* how often the clock was set (bounded by MaxSteps)
          cancelled,\* history: the tasks cancel() was called on
          labels,   \* history: the instants each task_ was called for
          rewound   \* history: the tasks during whose first call, made at their
                    \* start, the clock was set back

vars == <<phase, tasks, ops, waiting, expiry, clock, steps, cancelled, labels, rewound>>

Kinds == {"start", "expired", "aborted"}
Op(t, k) == [task |-> t, kind |-> k]

(* A time_point cast to seconds, and to_time_t: the fraction is dropped. *)
Seconds(tp) == tp \div Second

(* Faulty: the remainder is never made up for. *)
not_aligned_up(val, multiple) == val

aligned_up(val, multiple) ==
  LET rem == val % multiple
  IN  IF rem = 0 THEN val ELSE val + multiple - rem

Init ==
  /\ phase = "setup"
  /\ tasks = {}
  /\ ops = <<>>
  /\ waiting = {}
  /\ expiry = [t \in Tasks |-> 0]
  /\ clock \in 0..MaxStart
  /\ steps = 0
  /\ cancelled = {}
  /\ labels = [t \in Tasks |-> <<>>]
  /\ rewound = {}

-------------------------------------------------------------------------------
(* Setting up: addTask and run.                                             *)

(* addTask: the constructor of scheduled_task posts start(mode).  A task may *)
(* be added before run() is called, as main() does, or by another task.     *)
AddTask(t) ==
  /\ phase # "returned"
  /\ t \notin tasks
  /\ tasks' = tasks \cup {t}
  /\ ops' = Append(ops, Op(t, "start"))
  /\ UNCHANGED <<phase, waiting, expiry, clock, steps, cancelled, labels, rewound>>

Run ==
  /\ phase = "setup"
  /\ phase' = "running"
  /\ UNCHANGED <<tasks, ops, waiting, expiry, clock, steps, cancelled, labels, rewound>>

(* io_context::run() returns when no handler is queued and no wait is *)
(* outstanding.                                                        *)
Return ==
  /\ phase = "running"
  /\ ops = <<>>
  /\ waiting = {}
  /\ phase' = "returned"
  /\ UNCHANGED <<tasks, ops, waiting, expiry, clock, steps, cancelled, labels, rewound>>

-------------------------------------------------------------------------------
(* Handlers.                                                                *)

(* The handler of kind k of t is at the head of the queue and takes d ticks.*)
HandlerRuns(t, k, d) ==
  /\ phase = "running"
  /\ ops # <<>>
  /\ Head(ops) = Op(t, k)
  /\ clock + d <= MaxClock
  /\ clock' = clock + d
  /\ UNCHANGED <<phase, tasks, steps, cancelled, rewound>>

(* task_(when) *)
CallTask(t, when) == labels' = [labels EXCEPT ![t] = Append(@, when)]

(* Faulty: start_wait() is forgotten. *)
RearmWithoutWait(t, e) ==
  /\ expiry' = [expiry EXCEPT ![t] = e]
  /\ ops' = Tail(ops)
  /\ UNCHANGED waiting

(* Faulty: start_wait() comes first, and expires_at aborts the new wait. *)
RearmWaitFirst(t, e) ==
  /\ expiry' = [expiry EXCEPT ![t] = e]
  /\ ops' = Tail(ops) \o <<Op(t, "aborted")>>
  /\ waiting' = waiting \ {t}

(* timer_.expires_at(e), then start_wait(): expires_at aborts the waits that *)
(* are outstanding on the timer, whose handlers then run with                *)
(* operation_aborted; start_wait begins a new one.                           *)
Rearm(t, e) ==
  /\ expiry' = [expiry EXCEPT ![t] = e]
  /\ ops' = Tail(ops) \o (IF t \in waiting THEN <<Op(t, "aborted")>> ELSE <<>>)
  /\ waiting' = waiting \cup {t}

(* start(execute_at_multiples_of_period) *)
StartAligned(t) ==
  /\ Mode[t] = "execute_at_multiples_of_period"
  /\ HandlerRuns(t, "start", 0)
  /\ Rearm(t, aligned_up(Seconds(clock), Interval[t]) * Second)
  /\ UNCHANGED labels

(* Faulty: the timer is not set once the task was called. *)
StartImmediateOnly(t, d) ==
  /\ Mode[t] = "execute_at_start"
  /\ HandlerRuns(t, "start", d)
  /\ CallTask(t, Seconds(clock))
  /\ ops' = Tail(ops)
  /\ UNCHANGED <<waiting, expiry>>

(* start(execute_at_start) reads the clock twice: the first call is made at *)
(* once, for the present second, and expires_after counts from the end of   *)
(* that call.                                                               *)
StartImmediate(t, d) ==
  /\ Mode[t] = "execute_at_start"
  /\ HandlerRuns(t, "start", d)
  /\ CallTask(t, Seconds(clock))
  /\ Rearm(t, clock + d + Interval[t] * Second)

(* The same, with the clock set during the call: it shows now at its end.   *)
(* (The other handlers read the clock once or not at all, so that setting   *)
(* it while they run is setting it after them.)                             *)
StartImmediateReset(t, now) ==
  /\ Mode[t] = "execute_at_start"
  /\ phase = "running" /\ ops # <<>> /\ Head(ops) = Op(t, "start")
  /\ steps < MaxSteps
  /\ steps' = steps + 1
  /\ clock' = now
  /\ CallTask(t, Seconds(clock))
  /\ Rearm(t, now + Interval[t] * Second)
  /\ rewound' = IF now < clock THEN rewound \cup {t} ELSE rewound
  /\ UNCHANGED <<phase, tasks, cancelled>>

(* Faulty: the first expiry lies an interval in the past. *)
StartSkippingBack(t) ==
  /\ Mode[t] = "skip_first_execution"
  /\ HandlerRuns(t, "start", 0)
  /\ Rearm(t, clock - Interval[t] * Second)
  /\ UNCHANGED labels

(* start(skip_first_execution) *)
StartSkipping(t) ==
  /\ Mode[t] = "skip_first_execution"
  /\ HandlerRuns(t, "start", 0)
  /\ Rearm(t, clock + Interval[t] * Second)
  /\ UNCHANGED labels

(* Faulty: the next expiry is counted from the end of the call. *)
ExecuteDrifting(t, d) ==
  /\ HandlerRuns(t, "expired", d)
  /\ CallTask(t, Seconds(expiry[t]))
  /\ Rearm(t, clock + d + Interval[t] * Second)

(* Faulty: interval_ is added in ticks of the clock and not in seconds. *)
ExecuteInTicks(t, d) ==
  /\ HandlerRuns(t, "expired", d)
  /\ CallTask(t, Seconds(expiry[t]))
  /\ Rearm(t, expiry[t] + Interval[t])

(* Faulty: the timer is set before the call, which is given the new expiry. *)
ExecuteRearmedFirst(t, d) ==
  /\ HandlerRuns(t, "expired", d)
  /\ CallTask(t, Seconds(expiry[t] + Interval[t] * Second))
  /\ Rearm(t, expiry[t] + Interval[t] * Second)

(* execute(e), the wait expired: `now' is the expiry, not the clock. *)
Execute(t, d) ==
  /\ HandlerRuns(t, "expired", d)
  /\ CallTask(t, Seconds(expiry[t]))
  /\ Rearm(t, expiry[t] + Interval[t] * Second)

(* execute(operation_aborted): the task is not called and not set again. *)
Cancelled(t) ==
  /\ HandlerRuns(t, "aborted", 0)
  /\ ops' = Tail(ops)
  /\ UNCHANGED <<waiting, expiry, labels>>

-------------------------------------------------------------------------------
(* The io_context and the clock.                                            *)

Due == {t \in waiting : expiry[t] <= clock}

(* The orders in which the expired waits may complete: by expiry, ties in   *)
(* any order.                                                               *)
ExpiryOrders(D) ==
  LET n == Cardinality(D)
  IN  {s \in [1..n -> D] :
         /\ \A i, j \in 1..n : i < j => s[i] # s[j] /\ expiry[s[i]] <= expiry[s[j]]
         /\ \A t \in D : \E i \in 1..n : s[i] = t}

(* The queue is empty and timers have expired: their handlers are queued. *)
Poll ==
  /\ phase = "running"
  /\ ops = <<>>
  /\ Due # {}
  /\ \E s \in ExpiryOrders(Due) :
       ops' = [i \in 1..Len(s) |-> Op(s[i], "expired")]
  /\ waiting' = waiting \ Due
  /\ UNCHANGED <<phase, tasks, expiry, clock, steps, cancelled, labels, rewound>>

(* Time passes while no handler runs. *)
Tick ==
  /\ phase = "running"
  /\ clock < MaxClock
  /\ clock' = clock + 1
  /\ UNCHANGED <<phase, tasks, ops, waiting, expiry, steps, cancelled, labels, rewound>>

(* The system clock is set, forwards or backwards. *)
SetClock ==
  /\ phase = "running"
  /\ steps < MaxSteps
  /\ steps' = steps + 1
  /\ clock' \in (0..MaxClock) \ {clock}
  /\ UNCHANGED <<phase, tasks, ops, waiting, expiry, cancelled, labels, rewound>>

(* cancel(): an outstanding wait is aborted; a handler that is queued       *)
(* already is beyond its reach, and that task goes on.                      *)
Cancel(t) ==
  /\ phase = "running"
  /\ t \in tasks \ cancelled
  /\ Cardinality(cancelled) < MaxCancels
  /\ cancelled' = cancelled \cup {t}
  /\ ops' = ops \o (IF t \in waiting THEN <<Op(t, "aborted")>> ELSE <<>>)
  /\ waiting' = waiting \ {t}
  /\ UNCHANGED <<phase, tasks, expiry, clock, steps, labels, rewound>>

(* The bound of the model is reached and nothing is due before it. *)
Horizon ==
  /\ phase = "running" => clock = MaxClock /\ ops = <<>> /\ Due = {} /\ waiting # {}
  /\ phase # "setup"
  /\ UNCHANGED vars

-------------------------------------------------------------------------------
Handler ==
  \E t \in Tasks :
    \/ StartAligned(t)
    \/ StartSkipping(t)
    \/ Cancelled(t)
    \/ \E d \in 0..MaxCost[t] : StartImmediate(t, d) \/ Execute(t, d)

(* The thread inside io_context::run(). *)
Thread == Handler \/ Poll \/ Return

Next ==
  \/ \E t \in Tasks : AddTask(t) \/ Cancel(t)
  \/ Run
  \/ Thread
  \/ Tick
  \/ SetClock
  \/ \E t \in Tasks, now \in 0..MaxClock : StartImmediateReset(t, now)
  \/ Horizon

(* main() calls run(), the thread does not stop while it has something to   *)
(* do, and time passes.                                                     *)
Fairness == WF_vars(Run) /\ WF_vars(Thread) /\ WF_vars(Tick)

Spec == Init /\ [][Next]_vars /\ Fairness

(* A machine that is fast enough: time passes only inside the handlers or   *)
(* while there is nothing to do, nobody sets the clock, and all tasks are   *)
(* added before run() is called.                                            *)
IdleTick == Tick /\ ops = <<>> /\ Due = {}

TimelyNext ==
  \/ phase = "setup" /\ \E t \in Tasks : AddTask(t)
  \/ Run
  \/ Thread
  \/ IdleTick
  \/ Horizon

TimelySpec ==
  /\ Init /\ [][TimelyNext]_vars
  /\ WF_vars(Run) /\ WF_vars(Thread) /\ WF_vars(IdleTick)

-------------------------------------------------------------------------------
(* Properties.                                                              *)

TypeOK ==
  /\ phase \in {"setup", "running", "returned"}
  /\ tasks \in SUBSET Tasks
  /\ ops \in Seq([task : Tasks, kind : Kinds])
  /\ waiting \in SUBSET Tasks
  /\ expiry \in [Tasks -> Nat]
  /\ clock \in Nat
  /\ steps \in Nat
  /\ cancelled \in SUBSET Tasks
  /\ labels \in [Tasks -> Seq(Nat)]
  /\ rewound \in SUBSET Tasks

Queued(t) == {i \in 1..Len(ops) : ops[i].task = t}

(* An added task is in exactly one place, for ever: one handler of it is    *)
(* queued or one wait of its timer is outstanding.  Were it in none, it     *)
(* would silently stop being sampled; were it in two, it would be called    *)
(* twice for an instant.  Only cancel() takes a task away.                  *)
OneChainPerTask ==
  \A t \in Tasks :
    /\ t \in waiting \/ Queued(t) # {} => t \in tasks
    /\ t \in tasks \ cancelled => t \in waiting \/ Queued(t) # {}
    /\ t \in waiting => Queued(t) = {}
    /\ \A i, j \in Queued(t) : i = j

(* No wait is aborted but by cancel(): execute() would print CANCELLED and   *)
(* the task would be dead for the rest of the program's life. expires_at    *)
(* would abort one as well; it never does, because a handler sets the       *)
(* expiry when its own wait is over and before it begins the next.          *)
NeverCancelled ==
  \A i \in 1..Len(ops) : ops[i].kind = "aborted" => ops[i].task \in cancelled

Metronomes == INSTANCE Metronome

(* Whatever the delays, the costs and the settings of the clock, a task is  *)
(* called for the instants its metronome gives: none left out, none twice,  *)
(* no drift.  Only between the first call of a task that is called at its   *)
(* start and the second may the step be another than the interval: longer,  *)
(* by the time that call took, or any if the clock was set back meanwhile.  *)
KeepsTime == Metronomes!MetronomeSpec

(* The report task, aligned to its period, is called for multiples of it.   *)
ReportsOnGrid == Metronomes!OnGrid

(* On a machine that is fast enough for the sum of the costs, a task is     *)
(* called for an instant before the next one of it is due: the catch-up     *)
(* that execute() does by counting from the expiry never has to begin.      *)
NoBacklog ==
  \A t \in Tasks :
    (t \in waiting \/ \E i \in Queued(t) : ops[i].kind = "expired")
      => clock < expiry[t] + Interval[t] * Second

(* Every task not cancelled is called for every instant up to the horizon,  *)
(* however long the others block the thread: it catches up with late ones.  *)
EveryInstantServed ==
  (phase = "running") ~>
    \A t \in tasks \ cancelled : t \in waiting /\ expiry[t] > MaxClock

===============================================================================
