------------------------ MODULE PeriodicSchedulerProofs ------------------------
(***************************************************************************)
(* Theorems about PeriodicScheduler, for every set of tasks, every choice   *)
(* of modes, intervals and costs, and every bound.                          *)
(***************************************************************************)
EXTENDS PeriodicScheduler, FiniteSetTheorems, WellFoundedInduction, TLAPS

-------------------------------------------------------------------------------
(* Whole seconds.                                                           *)

LEMMA DivType ==
  ASSUME NEW e \in Nat, NEW S \in Nat \ {0}
  PROVE  e \div S \in Nat
  BY SMT

LEMMA SecondsType ==
  ASSUME NEW e \in Nat
  PROVE  Seconds(e) \in Nat
  BY SchedulerAssumption, DivType DEF SchedulerAssumption, Seconds

LEMMA CostType ==
  ASSUME NEW t \in Tasks, NEW d \in 0..MaxCost[t]
  PROVE  d \in Nat
<1>1. MaxCost[t] \in Nat
  BY SchedulerAssumption DEF SchedulerAssumption
<1>2. QED
  BY <1>1

LEMMA ShownType ==
  ASSUME NEW now \in 0..MaxClock
  PROVE  now \in Nat
<1>1. MaxClock \in Nat
  BY SchedulerAssumption DEF SchedulerAssumption
<1>2. QED
  BY <1>1

LEMMA AlignedUpType ==
  ASSUME NEW v \in Nat, NEW m \in Nat \ {0}
  PROVE  aligned_up(v, m) \in Nat
  BY SMT DEF aligned_up

LEMMA AlignedUpBound ==
  ASSUME NEW v \in Nat, NEW m \in Nat \ {0}
  PROVE  v <= aligned_up(v, m)
  BY SMT DEF aligned_up

LEMMA TimesType ==
  ASSUME NEW a \in Nat, NEW b \in Nat
  PROVE  a * b \in Nat
  BY SMT

(* A second that is not over began less than a second ago. *)
LEMMA SecondIsClose ==
  ASSUME NEW c \in Nat, NEW a \in Nat, Seconds(c) <= a
  PROVE  c < a * Second + Second
<1>1. Second \in Nat \ {0}
  BY SchedulerAssumption DEF SchedulerAssumption
<1> DEFINE q == c \div Second
<1>2. q \in Nat /\ c < q * Second + Second
  BY <1>1, SMT
<1>3. q <= a
  BY DEF Seconds
<1> HIDE DEF q
<1>4. q * Second <= a * Second
  BY <1>1, <1>2, <1>3, SMT
<1>5. q * Second \in Nat /\ a * Second \in Nat
  BY <1>1, <1>2, TimesType
<1> QED BY <1>1, <1>2, <1>4, <1>5

LEMMA IntervalTicks ==
  ASSUME NEW t \in Tasks
  PROVE  Interval[t] * Second \in Nat
<1>1. Interval[t] \in Nat /\ Second \in Nat
  BY SchedulerAssumption DEF SchedulerAssumption
<1>2. QED
  BY <1>1, TimesType

LEMMA ModZero ==
  ASSUME NEW q \in Nat, NEW m \in Nat \ {0}
  PROVE  (q * m) % m = 0 /\ (q * m) \div m = q
  BY SMT

(* aligned_up gives a multiple. *)
LEMMA AlignedUpMultiple ==
  ASSUME NEW v \in Nat, NEW m \in Nat \ {0}
  PROVE  aligned_up(v, m) % m = 0
<1>1. (v + m - (v % m)) % m = 0
  BY SMT
<1>2. QED
  BY <1>1 DEF aligned_up

LEMMA NextMultiple ==
  ASSUME NEW e \in Nat, NEW m \in Nat \ {0}, e % m = 0
  PROVE  (e + m) % m = 0
<1>. DEFINE q == (e \div m) + 1
<1>1. q \in Nat /\ e + m = q * m
  BY SMT
<1>2. (q * m) % m = 0
  BY <1>1, ModZero
<1>. HIDE DEF q
<1>3. QED
  BY <1>1, <1>2

LEMMA DivSum ==
  ASSUME NEW e \in Nat, NEW k \in Nat, NEW S \in Nat \ {0}
  PROVE  (e + k * S) \div S = (e \div S) + k
  BY SMT

LEMMA DivMonotone ==
  ASSUME NEW a \in Nat, NEW b \in Nat, NEW S \in Nat \ {0}, a <= b
  PROVE  a \div S <= b \div S
  BY SMT

-------------------------------------------------------------------------------
(* Types.                                                                   *)

Item == [task : Tasks, kind : Kinds]

LEMMA OpType ==
  ASSUME NEW t \in Tasks, NEW k \in Kinds
  PROVE  Op(t, k) \in Item
  BY DEF Op, Item

(* The head of the queue is removed, and other handlers may be appended. *)
LEMMA QueueType ==
  ASSUME NEW q \in Seq(Item), q # <<>>, NEW r \in Seq(Item)
  PROVE  /\ Tail(q) \in Seq(Item)
         /\ Tail(q) \o r \in Seq(Item)
  OBVIOUS

LEMMA RearmType ==
  ASSUME TypeOK, ops # <<>>, NEW t \in Tasks, NEW e \in Nat, Rearm(t, e)
  PROVE  /\ expiry' \in [Tasks -> Nat]
         /\ ops' \in Seq(Item)
         /\ waiting' \in SUBSET Tasks
<1>1. expiry' \in [Tasks -> Nat] /\ waiting' \in SUBSET Tasks
  BY DEF TypeOK, Rearm
<1>2. ops \in Seq(Item)
  BY DEF TypeOK, Item
<1>3. <<Op(t, "aborted")>> \in Seq(Item) /\ <<>> \in Seq(Item)
  BY OpType DEF Kinds
<1>4. ops' \in Seq(Item)
  BY <1>2, <1>3, QueueType DEF Rearm
<1>5. QED
  BY <1>1, <1>4

LEMMA CallTaskType ==
  ASSUME TypeOK, NEW t \in Tasks, NEW when \in Nat, CallTask(t, when)
  PROVE  labels' \in [Tasks -> Seq(Nat)]
  BY DEF TypeOK, CallTask

(* A handler sets the clock and leaves the rest of these alone. *)
LEMMA HandlerType ==
  ASSUME TypeOK, NEW t \in Tasks, NEW k, NEW d \in Nat, HandlerRuns(t, k, d)
  PROVE  /\ clock' \in Nat
         /\ phase' \in {"setup", "running", "returned"}
         /\ tasks' \in SUBSET Tasks /\ steps' \in Nat /\ cancelled' \in SUBSET Tasks
         /\ rewound' \in SUBSET Tasks
         /\ ops # <<>>
  BY DEF TypeOK, HandlerRuns

LEMMA DueFinite ==
  ASSUME TypeOK
  PROVE  IsFiniteSet(Due) /\ Cardinality(Due) \in Nat /\ Due \subseteq Tasks
<1>1. Due \subseteq Tasks
  BY DEF Due, TypeOK
<1>2. IsFiniteSet(Tasks)
  BY SchedulerAssumption DEF SchedulerAssumption
<1>3. IsFiniteSet(Due)
  BY <1>1, <1>2, FS_Subset
<1>4. QED
  BY <1>1, <1>3, FS_CardinalityType

(* An order of the expired waits is a sequence of different tasks. *)
LEMMA OrderIsSequence ==
  ASSUME TypeOK, NEW s \in ExpiryOrders(Due)
  PROVE  /\ s \in Seq(Due)
         /\ \A i, j \in 1..Len(s) : i # j => s[i] # s[j]
<1>. DEFINE n == Cardinality(Due)
<1>1. n \in Nat
  BY DueFinite
<1>2. s \in [1..n -> Due] /\ \A i, j \in 1..n : i < j => s[i] # s[j]
  BY DEF ExpiryOrders
<1>. HIDE DEF n
<1>3. s \in Seq(Due) /\ Len(s) = n
  BY <1>1, <1>2
<1>4. QED
  BY <1>1, <1>2, <1>3

LEMMA TypeStep ==
  ASSUME TypeOK, [Next]_vars
  PROVE  TypeOK'
<1>. USE SchedulerAssumption DEF SchedulerAssumption
<1>1. ASSUME NEW t \in Tasks, AddTask(t) PROVE TypeOK'
  <2>1. Append(ops, Op(t, "start")) \in Seq(Item)
    BY OpType DEF TypeOK, Kinds, Item
  <2>2. QED
    BY <1>1, <2>1 DEF TypeOK, AddTask, Item
<1>2. ASSUME NEW t \in Tasks, Cancel(t) PROVE TypeOK'
  <2>1. ops' \in Seq(Item)
    <3>1. <<Op(t, "aborted")>> \in Seq(Item) /\ <<>> \in Seq(Item) /\ ops \in Seq(Item)
      BY OpType DEF Kinds, TypeOK, Item
    <3>2. QED
      BY <1>2, <3>1 DEF Cancel
  <2>2. QED
    BY <1>2, <2>1 DEF TypeOK, Cancel, Item
<1>3. ASSUME Run PROVE TypeOK'
  BY <1>3 DEF TypeOK, Run
<1>4. ASSUME NEW t \in Tasks, StartAligned(t) PROVE TypeOK'
  <2>. DEFINE e == aligned_up(Seconds(clock), Interval[t]) * Second
  <2>1. HandlerRuns(t, "start", 0) /\ Rearm(t, e) /\ labels' = labels
    BY <1>4 DEF StartAligned
  <2>2. e \in Nat
    BY DivType, AlignedUpType, TimesType DEF TypeOK, Seconds
  <2>. HIDE DEF e
  <2>3. QED
    BY <2>1, <2>2, RearmType, HandlerType DEF TypeOK, Item
<1>5. ASSUME NEW t \in Tasks, StartSkipping(t) PROVE TypeOK'
  <2>. DEFINE e == clock + Interval[t] * Second
  <2>1. HandlerRuns(t, "start", 0) /\ Rearm(t, e) /\ labels' = labels
    BY <1>5 DEF StartSkipping
  <2>2. e \in Nat
    BY IntervalTicks DEF TypeOK
  <2>. HIDE DEF e
  <2>3. QED
    BY <2>1, <2>2, RearmType, HandlerType DEF TypeOK, Item
<1>6. ASSUME NEW t \in Tasks, Cancelled(t) PROVE TypeOK'
  <2>1. ops # <<>> /\ ops' = Tail(ops)
    BY <1>6 DEF Cancelled, HandlerRuns
  <2>2. ops' \in Seq(Item)
    BY <2>1, QueueType DEF TypeOK, Item
  <2>3. QED
    BY <1>6, <2>2, HandlerType DEF Cancelled, TypeOK, Item
<1>7. ASSUME NEW t \in Tasks, NEW d \in 0..MaxCost[t], StartImmediate(t, d) PROVE TypeOK'
  <2>. DEFINE e == clock + d + Interval[t] * Second
  <2>1. HandlerRuns(t, "start", d) /\ Rearm(t, e) /\ CallTask(t, Seconds(clock))
    BY <1>7 DEF StartImmediate
  <2>2. d \in Nat /\ Seconds(clock) \in Nat
    BY CostType, SecondsType DEF TypeOK
  <2>3. e \in Nat
    BY <2>2, IntervalTicks DEF TypeOK
  <2>. HIDE DEF e
  <2>4. labels' \in [Tasks -> Seq(Nat)]
    BY <2>1, <2>2, CallTaskType
  <2>5. QED
    BY <2>1, <2>2, <2>3, <2>4, RearmType, HandlerType DEF TypeOK, Item
<1>8. ASSUME NEW t \in Tasks, NEW d \in 0..MaxCost[t], Execute(t, d) PROVE TypeOK'
  <2>. DEFINE e == expiry[t] + Interval[t] * Second
  <2>1. HandlerRuns(t, "expired", d) /\ Rearm(t, e) /\ CallTask(t, Seconds(expiry[t]))
    BY <1>8 DEF Execute
  <2>2. e \in Nat /\ Seconds(expiry[t]) \in Nat /\ d \in Nat
    <3>1. expiry[t] \in Nat /\ d \in Nat
      BY CostType DEF TypeOK
    <3>2. e \in Nat
      BY <3>1, IntervalTicks
    <3>3. QED
      BY <3>1, <3>2, SecondsType
  <2>. HIDE DEF e
  <2>3. labels' \in [Tasks -> Seq(Nat)]
    BY <2>1, <2>2, CallTaskType
  <2>4. QED
    BY <2>1, <2>2, <2>3, RearmType, HandlerType DEF TypeOK, Item
<1>9. ASSUME Poll PROVE TypeOK'
  <2>1. PICK s \in ExpiryOrders(Due) : ops' = [i \in 1..Len(s) |-> Op(s[i], "expired")]
    BY <1>9 DEF Poll
  <2>2. s \in Seq(Tasks)
    BY OrderIsSequence, DueFinite
  <2>3. \A i \in 1..Len(s) : Op(s[i], "expired") \in Item
    BY <2>2, OpType DEF Kinds
  <2>4. ops' \in Seq(Item)
    BY <2>1, <2>2, <2>3
  <2>5. QED
    BY <1>9, <2>4 DEF Poll, TypeOK, Item
<1>10. ASSUME Return PROVE TypeOK'
  BY <1>10 DEF TypeOK, Return
<1>11. ASSUME Tick PROVE TypeOK'
  BY <1>11 DEF TypeOK, Tick
<1>12. ASSUME SetClock PROVE TypeOK'
  BY <1>12 DEF TypeOK, SetClock
<1>13. ASSUME UNCHANGED vars PROVE TypeOK'
  BY <1>13 DEF TypeOK, vars
<1>14. ASSUME NEW t \in Tasks, NEW now \in 0..MaxClock, StartImmediateReset(t, now)
       PROVE  TypeOK'
  <2>. DEFINE e == now + Interval[t] * Second
  <2>1. /\ Rearm(t, e) /\ CallTask(t, Seconds(clock)) /\ ops # <<>>
        /\ clock' = now /\ steps' = steps + 1 /\ rewound' \in {rewound, rewound \cup {t}}
        /\ UNCHANGED <<phase, tasks, cancelled>>
    BY <1>14 DEF StartImmediateReset
  <2>2. now \in Nat /\ Seconds(clock) \in Nat
    BY ShownType, SecondsType DEF TypeOK
  <2>3. e \in Nat
    BY <2>2, IntervalTicks
  <2>. HIDE DEF e
  <2>4. labels' \in [Tasks -> Seq(Nat)]
    BY <2>1, <2>2, CallTaskType
  <2>5. /\ expiry' \in [Tasks -> Nat] /\ waiting' \in SUBSET Tasks
        /\ ops' \in Seq([task : Tasks, kind : Kinds])
    BY <2>1, <2>3, RearmType DEF Item
  <2>6. steps' \in Nat /\ rewound' \in SUBSET Tasks /\ clock' \in Nat
    BY <2>1, <2>2 DEF TypeOK
  <2>7. QED
    BY <2>1, <2>4, <2>5, <2>6 DEF TypeOK
<1>15. QED
  BY <1>1, <1>2, <1>3, <1>4, <1>5, <1>6, <1>7, <1>8, <1>9, <1>10, <1>11, <1>12, <1>13, <1>14
  DEF Next, Thread, Handler, Horizon

LEMMA TypeInit ==
  ASSUME Init
  PROVE  TypeOK
  BY SchedulerAssumption DEF Init, TypeOK, SchedulerAssumption

(* Every variable has its type in every reachable state. *)
THEOREM TypeCorrect == Spec => []TypeOK
  BY TypeInit, TypeStep, PTL DEF Spec

-------------------------------------------------------------------------------
(* One chain per task.  The inductive invariant says of each place in the   *)
(* queue what OneChainPerTask says of each task, and needs NeverCancelled:  *)
(* a handler that ends a chain is that of a cancelled task.                 *)

QueuedTasksAreFree ==
  \A i \in 1..Len(ops) : ops[i].task \in tasks /\ ops[i].task \notin waiting

QueuedOnce ==
  \A i, j \in 1..Len(ops) : ops[i].task = ops[j].task => i = j

NoTaskLost ==
  \A t \in tasks \ cancelled :
    t \in waiting \/ \E i \in 1..Len(ops) : ops[i].task = t

Chain ==
  /\ QueuedTasksAreFree
  /\ QueuedOnce
  /\ NoTaskLost
  /\ waiting \subseteq tasks
  /\ NeverCancelled

LEMMA ChainImplies ==
  ASSUME TypeOK, Chain
  PROVE  OneChainPerTask /\ NeverCancelled
<1>. SUFFICES ASSUME NEW t \in Tasks
             PROVE  /\ t \in waiting \/ Queued(t) # {} => t \in tasks
                    /\ t \in tasks \ cancelled => t \in waiting \/ Queued(t) # {}
                    /\ t \in waiting => Queued(t) = {}
                    /\ \A i, j \in Queued(t) : i = j
  BY DEF OneChainPerTask, Chain
<1>1. \A i \in 1..Len(ops) : i \in Queued(t) <=> ops[i].task = t
  BY DEF Queued
<1>2. \A i \in Queued(t) : i \in 1..Len(ops)
  BY DEF Queued
<1>3. t \in waiting \/ Queued(t) # {} => t \in tasks
  BY <1>1, <1>2 DEF Chain, QueuedTasksAreFree
<1>4. t \in tasks \ cancelled => t \in waiting \/ Queued(t) # {}
  BY <1>1 DEF Chain, NoTaskLost
<1>5. t \in waiting => Queued(t) = {}
  BY <1>1, <1>2 DEF Chain, QueuedTasksAreFree
<1>6. \A i, j \in Queued(t) : i = j
  BY <1>1, <1>2 DEF Chain, QueuedOnce
<1>7. QED
  BY <1>3, <1>4, <1>5, <1>6

LEMMA ChainInit ==
  ASSUME Init
  PROVE  Chain
  BY DEF Init, Chain, QueuedTasksAreFree, QueuedOnce, NoTaskLost, NeverCancelled

(* A non-empty queue without its head. *)
LEMMA TailItems ==
  ASSUME NEW q \in Seq(Item), q # <<>>
  PROVE  /\ Len(q) \in Nat /\ Len(q) >= 1
         /\ q[1] = Head(q)
         /\ Len(Tail(q)) = Len(q) - 1
         /\ \A i \in 1..Len(Tail(q)) : i + 1 \in 1..Len(q) /\ Tail(q)[i] = q[i + 1]
         /\ \A i \in 2..Len(q) : i - 1 \in 1..Len(Tail(q)) /\ Tail(q)[i - 1] = q[i]
  OBVIOUS

LEMMA AppendItems ==
  ASSUME NEW q \in Seq(Item), NEW x \in Item
  PROVE  /\ Len(q) \in Nat
         /\ Append(q, x) = q \o <<x>>
         /\ Len(Append(q, x)) = Len(q) + 1
         /\ \A i \in 1..Len(q) : Append(q, x)[i] = q[i]
         /\ Append(q, x)[Len(q) + 1] = x
  OBVIOUS

(* The handler of t is the only one of t in the queue, and its wait is over.*)
LEMMA HeadAlone ==
  ASSUME TypeOK, Chain, ops # <<>>, NEW t, NEW k, Head(ops) = Op(t, k)
  PROVE  /\ t \in tasks /\ t \notin waiting
         /\ \A i \in 2..Len(ops) : ops[i].task # t
         /\ k = "aborted" => t \in cancelled
<1>1. ops \in Seq(Item)
  BY DEF TypeOK, Item
<1>2. Len(ops) \in Nat /\ 1 \in 1..Len(ops) /\ ops[1].task = t /\ ops[1].kind = k
  BY <1>1, TailItems DEF Op
<1>3. QED
  BY <1>2 DEF Chain, QueuedTasksAreFree, QueuedOnce, NeverCancelled

(* A handler that sets its timer again hands the chain from the queue to    *)
(* the timer.                                                               *)
LEMMA ChainRearm ==
  ASSUME TypeOK, Chain, NEW t \in Tasks, NEW e,  NEW k, ops # <<>>, Head(ops) = Op(t, k),
         Rearm(t, e), tasks' = tasks, cancelled' = cancelled
  PROVE  Chain'
<1>1. /\ t \in tasks /\ t \notin waiting
      /\ \A i \in 2..Len(ops) : ops[i].task # t
  BY HeadAlone
<1>2. ops \in Seq(Item)
  BY DEF TypeOK, Item
<1>3. ops' = Tail(ops) /\ waiting' = waiting \cup {t}
  BY <1>1, <1>2 DEF Rearm
<1>4. QueuedTasksAreFree'
  BY <1>1, <1>2, <1>3, TailItems DEF Chain, QueuedTasksAreFree
<1>5. QueuedOnce'
  BY <1>2, <1>3, TailItems DEF Chain, QueuedOnce
<1>6. NoTaskLost'
  <2>. SUFFICES ASSUME NEW u \in tasks \ cancelled, u \notin waiting, u # t
                PROVE  \E i \in 1..Len(ops') : ops'[i].task = u
    BY <1>3 DEF NoTaskLost
  <2>1. PICK i \in 1..Len(ops) : ops[i].task = u
    BY DEF Chain, NoTaskLost
  <2>2. ops[1].task = t
    BY <1>2, TailItems DEF Op
  <2>3. i \in 2..Len(ops)
    BY <2>1, <2>2, <1>2
  <2>4. QED
    BY <2>1, <2>3, <1>2, <1>3, TailItems
<1>7. NeverCancelled'
  BY <1>2, <1>3, TailItems DEF Chain, NeverCancelled
<1>8. QED
  BY <1>1, <1>3, <1>4, <1>5, <1>6, <1>7 DEF Chain

LEMMA ChainStep ==
  ASSUME TypeOK, Chain, [Next]_vars
  PROVE  Chain'
<1>q. ops \in Seq(Item) /\ Len(ops) \in Nat
  BY DEF TypeOK, Item
<1>1. ASSUME NEW t \in Tasks, AddTask(t) PROVE Chain'
  <2>1. t \notin tasks /\ tasks' = tasks \cup {t} /\ ops' = Append(ops, Op(t, "start"))
        /\ waiting' = waiting /\ cancelled' = cancelled
    BY <1>1 DEF AddTask
  <2>2. /\ Len(ops') = Len(ops) + 1
        /\ \A i \in 1..Len(ops) : ops'[i] = ops[i]
        /\ ops'[Len(ops) + 1] = Op(t, "start")
    BY <1>q, <2>1, AppendItems, OpType DEF Kinds
  <2>3. Op(t, "start").task = t /\ Op(t, "start").kind = "start"
    BY DEF Op
  <2>4. QueuedTasksAreFree'
    BY <1>q, <2>1, <2>2, <2>3 DEF Chain, QueuedTasksAreFree
  <2>5. QueuedOnce'
    BY <1>q, <2>1, <2>2, <2>3 DEF Chain, QueuedOnce, QueuedTasksAreFree
  <2>6. NoTaskLost'
    <3>1. Len(ops) + 1 \in 1..Len(ops')
      BY <1>q, <2>2
    <3>2. \A i \in 1..Len(ops) : i \in 1..Len(ops')
      BY <1>q, <2>2
    <3>3. QED
      BY <2>1, <2>2, <2>3, <3>1, <3>2 DEF Chain, NoTaskLost
  <2>7. NeverCancelled'
    BY <1>q, <2>1, <2>2, <2>3 DEF Chain, NeverCancelled
  <2>8. QED
    BY <2>1, <2>4, <2>5, <2>6, <2>7 DEF Chain
<1>2. ASSUME NEW t \in Tasks, Cancel(t) PROVE Chain'
  <2>1. /\ t \in tasks /\ tasks' = tasks /\ waiting' = waiting \ {t}
        /\ cancelled' = cancelled \cup {t}
    BY <1>2 DEF Cancel
  <2>2. CASE t \notin waiting
    <3>1. ops' = ops /\ waiting' = waiting
      BY <1>q, <1>2, <2>1, <2>2 DEF Cancel
    <3>2. QED
      BY <2>1, <3>1
      DEF Chain, QueuedTasksAreFree, QueuedOnce, NoTaskLost, NeverCancelled
  <2>3. CASE t \in waiting
    <3>1. ops' = Append(ops, Op(t, "aborted"))
      BY <1>q, <1>2, <2>3, AppendItems, OpType DEF Cancel, Kinds
    <3>2. /\ Len(ops') = Len(ops) + 1
          /\ \A i \in 1..Len(ops) : ops'[i] = ops[i]
          /\ ops'[Len(ops) + 1] = Op(t, "aborted")
      BY <1>q, <3>1, AppendItems, OpType DEF Kinds
    <3>3. Op(t, "aborted").task = t
      BY DEF Op
    <3>4. QueuedTasksAreFree'
      BY <1>q, <2>1, <3>2, <3>3 DEF Chain, QueuedTasksAreFree
    <3>5. QueuedOnce'
      BY <1>q, <2>3, <3>2, <3>3 DEF Chain, QueuedOnce, QueuedTasksAreFree
    <3>6. NoTaskLost'
      <4>1. \A i \in 1..Len(ops) : i \in 1..Len(ops')
        BY <1>q, <3>2
      <4>2. QED
        BY <2>1, <3>2, <4>1 DEF Chain, NoTaskLost
    <3>7. NeverCancelled'
      BY <1>q, <2>1, <3>2, <3>3 DEF Chain, NeverCancelled
    <3>8. QED
      BY <2>1, <3>4, <3>5, <3>6, <3>7 DEF Chain
  <2>4. QED
    BY <2>2, <2>3
<1>3. ASSUME NEW t \in Tasks, Cancelled(t) PROVE Chain'
  <2>1. /\ ops # <<>> /\ Head(ops) = Op(t, "aborted") /\ ops' = Tail(ops)
        /\ waiting' = waiting /\ tasks' = tasks /\ cancelled' = cancelled
    BY <1>3 DEF Cancelled, HandlerRuns
  <2>2. t \in cancelled /\ ops[1].task = t
    BY <1>q, <2>1, HeadAlone, TailItems DEF Op
  <2>3. QueuedTasksAreFree' /\ QueuedOnce' /\ NeverCancelled'
    BY <1>q, <2>1, TailItems DEF Chain, QueuedTasksAreFree, QueuedOnce, NeverCancelled
  <2>4. NoTaskLost'
    <3>. SUFFICES ASSUME NEW u \in tasks \ cancelled, u \notin waiting
                  PROVE  \E i \in 1..Len(ops') : ops'[i].task = u
      BY <2>1 DEF NoTaskLost
    <3>1. PICK i \in 1..Len(ops) : ops[i].task = u
      BY DEF Chain, NoTaskLost
    <3>2. i \in 2..Len(ops)
      BY <1>q, <2>2, <3>1
    <3>3. QED
      BY <1>q, <2>1, <3>1, <3>2, TailItems
  <2>5. QED
    BY <2>1, <2>3, <2>4 DEF Chain
<1>4. ASSUME NEW t \in Tasks, NEW k, NEW d, NEW e, HandlerRuns(t, k, d), Rearm(t, e)
      PROVE  Chain'
  BY <1>4, ChainRearm DEF HandlerRuns
<1>8. ASSUME NEW t \in Tasks, NEW now, StartImmediateReset(t, now)
      PROVE  Chain'
  BY <1>8, ChainRearm DEF StartImmediateReset
<1>5. ASSUME Poll PROVE Chain'
  <2>1. PICK s \in ExpiryOrders(Due) : ops' = [i \in 1..Len(s) |-> Op(s[i], "expired")]
    BY <1>5 DEF Poll
  <2>2. /\ ops = <<>> /\ waiting' = waiting \ Due /\ tasks' = tasks /\ cancelled' = cancelled
    BY <1>5 DEF Poll
  <2>3. /\ s \in Seq(Due)
        /\ \A i, j \in 1..Len(s) : i # j => s[i] # s[j]
    BY OrderIsSequence
  <2>4. /\ Len(ops') = Len(s)
        /\ \A i \in 1..Len(s) : /\ ops'[i].task = s[i] /\ ops'[i].kind = "expired"
                               /\ s[i] \in Due
    BY <2>1, <2>3 DEF Op
  <2>5. \A t \in Due : \E i \in 1..Len(s) : s[i] = t
    <3>1. Len(s) = Cardinality(Due)
      BY DueFinite DEF ExpiryOrders
    <3>2. QED
      BY <3>1 DEF ExpiryOrders
  <2>6. Due \subseteq waiting
    BY DEF Due
  <2>7. QueuedTasksAreFree' /\ QueuedOnce' /\ NeverCancelled'
    BY <2>2, <2>3, <2>4, <2>6
    DEF Chain, QueuedTasksAreFree, QueuedOnce, NeverCancelled
  <2>8. NoTaskLost'
    <3>1. \A t \in tasks \ cancelled : t \in waiting
      BY <2>2 DEF Chain, NoTaskLost
    <3>2. QED
      BY <2>2, <2>4, <2>5, <3>1 DEF NoTaskLost
  <2>9. QED
    BY <2>2, <2>7, <2>8 DEF Chain
<1>6. ASSUME UNCHANGED <<tasks, ops, waiting, cancelled>> PROVE Chain'
  BY <1>6 DEF Chain, QueuedTasksAreFree, QueuedOnce, NoTaskLost, NeverCancelled
<1>7. QED
  BY <1>1, <1>2, <1>3, <1>4, <1>5, <1>6, <1>8
  DEF Next, Thread, Handler, StartAligned, StartSkipping, StartImmediate, Execute,
      Run, Return, Tick, SetClock, Horizon, vars

(* Every task of a running scheduler has one handler in the queue or one    *)
(* wait outstanding, never both, never two, and none is lost but by cancel. *)
THEOREM OneChain == Spec => []OneChainPerTask
<1>1. Init => TypeOK /\ Chain
  BY TypeInit, ChainInit
<1>2. TypeOK /\ Chain /\ [Next]_vars => TypeOK' /\ Chain'
  BY TypeStep, ChainStep
<1>3. TypeOK /\ Chain => OneChainPerTask
  BY ChainImplies
<1>4. QED
  BY <1>1, <1>2, <1>3, PTL DEF Spec

(* No handler runs with operation_aborted but that of a task which cancel() *)
(* was called on: rearming a timer never aborts its wait.                   *)
THEOREM NoStrayCancellation == Spec => []NeverCancelled
<1>1. Init => TypeOK /\ Chain
  BY TypeInit, ChainInit
<1>2. TypeOK /\ Chain /\ [Next]_vars => TypeOK' /\ Chain'
  BY TypeStep, ChainStep
<1>3. TypeOK /\ Chain => NeverCancelled
  BY ChainImplies
<1>4. QED
  BY <1>1, <1>2, <1>3, PTL DEF Spec

-------------------------------------------------------------------------------
(* Keeping time.  The expiry a task waits for, or that has been reached and *)
(* is still in the queue, is the next instant of its metronome; a task that *)
(* is not started yet was not called.                                       *)

Has(t, k) == \E i \in 1..Len(ops) : ops[i] = Op(t, k)

InTime(t) ==
  /\ t \in waiting \/ Has(t, "expired")
       => Seconds(expiry[t]) \in Metronomes!NextInstants(t)
  /\ t \notin tasks \/ Has(t, "start") => labels[t] = <<>>

AllInTime == \A t \in Tasks : InTime(t)

LEMMA InTimeInit ==
  ASSUME Init
  PROVE  AllInTime
<1>1. \A t \in Tasks : \A k : ~ Has(t, k)
  BY DEF Init, Has
<1>2. QED
  BY <1>1 DEF Init, AllInTime, InTime

(* What concerns a task that a step does not touch. *)
LEMMA InTimeKept ==
  ASSUME NEW t \in Tasks, InTime(t), labels'[t] = labels[t], expiry'[t] = expiry[t],
         t \in rewound => t \in rewound',
         t \in tasks => t \in tasks',
         t \in waiting' \/ Has(t, "expired")' => t \in waiting \/ Has(t, "expired"),
         t \notin tasks' \/ Has(t, "start")' => t \notin tasks \/ Has(t, "start")
  PROVE  InTime(t)'
  BY DEF InTime, Metronomes!NextInstants

(* The handlers that are queued after one was removed were queued before. *)
LEMMA HasTail ==
  ASSUME TypeOK, ops # <<>>, ops' = Tail(ops), NEW t, NEW k, Has(t, k)'
  PROVE  Has(t, k)
<1>1. ops \in Seq(Item)
  BY DEF TypeOK, Item
<1>2. PICK i \in 1..Len(ops') : ops'[i] = Op(t, k)
  BY DEF Has
<1>3. QED
  BY <1>1, <1>2, TailItems DEF Has

(* The next instant after the second l of a task called for l. *)
LEMMA NextAfterCall ==
  ASSUME TypeOK, NEW t \in Tasks, NEW l \in Nat, CallTask(t, l),
         NEW n \in Nat,
         \/ n = l + Interval[t]
         \/ /\ labels[t] = <<>> /\ Metronomes!Immediate(t)
            /\ t \in rewound' \/ n >= l + Interval[t]
  PROVE  n \in Metronomes!NextInstants(t)'
<1>1. labels[t] \in Seq(Nat) /\ labels'[t] = Append(labels[t], l)
  BY DEF TypeOK, CallTask
<1>2. /\ Len(labels'[t]) = Len(labels[t]) + 1 /\ Len(labels[t]) \in Nat
      /\ labels'[t][Len(labels'[t])] = l
      /\ labels[t] = <<>> => Len(labels'[t]) = 1
  BY <1>1
<1>3. Interval[t] \in Nat
  BY SchedulerAssumption DEF SchedulerAssumption
<1>4. QED
  BY <1>2, <1>3 DEF Metronomes!NextInstants, Metronomes!Immediate

(* A call for an instant of its metronome is a beat. *)
LEMMA CallIsBeat ==
  ASSUME TypeOK, NEW t \in Tasks, NEW l \in Metronomes!NextInstants(t), CallTask(t, l),
         \/ rewound' = rewound
         \/ Metronomes!Immediate(t) /\ labels[t] = <<>> /\ rewound' = rewound \cup {t}
  PROVE  Metronomes!MetronomeNext
<1>1. labels \in [Tasks -> Seq(Nat)] /\ labels' = [labels EXCEPT ![t] = Append(@, l)]
  BY DEF TypeOK, CallTask
<1>2. labels[t] \in Seq(Nat) /\ labels'[t] = Append(labels[t], l)
  BY <1>1
<1>3. Len(labels'[t]) = Len(labels[t]) + 1 /\ labels'[t][Len(labels[t]) + 1] = l
  BY <1>2
<1>4. Metronomes!Beat(t)
  BY <1>1, <1>3 DEF Metronomes!Beat
<1>5. QED
  BY <1>4 DEF Metronomes!MetronomeNext

LEMMA HeadIsQueued ==
  ASSUME TypeOK, NEW t, NEW k, ops # <<>>, Head(ops) = Op(t, k)
  PROVE  Has(t, k)
<1>1. ops \in Seq(Item)
  BY DEF TypeOK, Item
<1>2. 1 \in 1..Len(ops) /\ ops[1] = Op(t, k)
  BY <1>1, TailItems
<1>3. QED
  BY <1>2 DEF Has

LEMMA InTimeRearm ==
  ASSUME TypeOK, Chain, AllInTime,
         NEW t \in Tasks, NEW k, NEW e, ops # <<>>, Head(ops) = Op(t, k), Rearm(t, e),
         tasks' = tasks, \A u \in Tasks \ {t} : labels'[u] = labels[u],
         rewound \subseteq rewound',
         Seconds(e) \in Metronomes!NextInstants(t)'
  PROVE  AllInTime'
<1>1. /\ t \in tasks /\ t \notin waiting
      /\ \A i \in 2..Len(ops) : ops[i].task # t
  BY HeadAlone
<1>2. ops \in Seq(Item)
  BY DEF TypeOK, Item
<1>3. ops' = Tail(ops) /\ waiting' = waiting \cup {t} /\ expiry' = [expiry EXCEPT ![t] = e]
  BY <1>1, <1>2 DEF Rearm
<1>4. InTime(t)'
  <2>1. expiry'[t] = e
    BY <1>3 DEF TypeOK
  <2>2. \A i \in 1..Len(ops') : ops'[i] # Op(t, "start")
    BY <1>1, <1>2, <1>3, TailItems DEF Op
  <2>3. QED
    BY <1>1, <1>3, <2>1, <2>2 DEF InTime, Has, Seconds
<1>5. ASSUME NEW u \in Tasks \ {t} PROVE InTime(u)'
  <2>1. expiry'[u] = expiry[u] /\ (u \in waiting' => u \in waiting)
    BY <1>3, <1>5 DEF TypeOK
  <2>2. (Has(u, "expired")' => Has(u, "expired")) /\ (Has(u, "start")' => Has(u, "start"))
    BY <1>3, HasTail
  <2>3. InTime(u) /\ labels'[u] = labels[u]
    BY <1>5 DEF AllInTime
  <2>4. QED
    BY <2>1, <2>2, <2>3, InTimeKept
<1>6. QED
  BY <1>4, <1>5 DEF AllInTime

(* Every step keeps the tasks in time and is a beat of one of them, or none *)
(* is called.                                                               *)
LEMMA InTimeStep ==
  ASSUME TypeOK, Chain, AllInTime, [Next]_vars
  PROVE  AllInTime' /\ [Metronomes!MetronomeNext]_<<labels, rewound>>
<1>. USE DEF Kinds
<1>i. \A t \in Tasks : Interval[t] \in Nat \ {0} /\ Second \in Nat \ {0}
  BY SchedulerAssumption DEF SchedulerAssumption
<1>1. ASSUME NEW t \in Tasks, StartAligned(t)
      PROVE  AllInTime' /\ labels' = labels /\ rewound' = rewound
  <2>. DEFINE a == aligned_up(Seconds(clock), Interval[t])
  <2>1. /\ HandlerRuns(t, "start", 0) /\ Rearm(t, a * Second) /\ labels' = labels
        /\ Mode[t] = "execute_at_multiples_of_period"
    BY <1>1 DEF StartAligned
  <2>2. a \in Nat /\ a % Interval[t] = 0
    BY <1>i, SecondsType, AlignedUpType, AlignedUpMultiple DEF TypeOK
  <2>. HIDE DEF a
  <2>3. Seconds(a * Second) = a
    BY <1>i, <2>2, ModZero DEF Seconds
  <2>4. ops # <<>> /\ Head(ops) = Op(t, "start") /\ tasks' = tasks /\ rewound' = rewound
    BY <2>1 DEF HandlerRuns
  <2>5. labels'[t] = <<>>
    BY <2>1, <2>4, HeadIsQueued DEF AllInTime, InTime
  <2>6. a \in Metronomes!NextInstants(t)'
    BY <2>2, <2>5 DEF Metronomes!NextInstants
  <2>7. QED
    BY <2>1, <2>3, <2>4, <2>6, InTimeRearm
<1>2. ASSUME NEW t \in Tasks, StartSkipping(t)
      PROVE  AllInTime' /\ labels' = labels /\ rewound' = rewound
  <2>. DEFINE e == clock + Interval[t] * Second
  <2>1. /\ HandlerRuns(t, "start", 0) /\ Rearm(t, e) /\ labels' = labels
        /\ Mode[t] = "skip_first_execution"
    BY <1>2 DEF StartSkipping
  <2>2. e \in Nat
    BY IntervalTicks DEF TypeOK
  <2>. HIDE DEF e
  <2>3. ops # <<>> /\ Head(ops) = Op(t, "start") /\ tasks' = tasks /\ rewound' = rewound
    BY <2>1 DEF HandlerRuns
  <2>4. labels'[t] = <<>>
    BY <2>1, <2>3, HeadIsQueued DEF AllInTime, InTime
  <2>5. Seconds(e) \in Metronomes!NextInstants(t)'
    BY <2>1, <2>2, <2>4, SecondsType DEF Metronomes!NextInstants, Metronomes!Aligned
  <2>6. QED
    BY <2>1, <2>3, <2>5, InTimeRearm
<1>3. ASSUME NEW t \in Tasks, NEW d \in 0..MaxCost[t], StartImmediate(t, d)
      PROVE  AllInTime' /\ Metronomes!MetronomeNext
  <2>. DEFINE e == clock + d + Interval[t] * Second
              l == Seconds(clock)
  <2>1. /\ HandlerRuns(t, "start", d) /\ Rearm(t, e) /\ CallTask(t, l)
        /\ Mode[t] = "execute_at_start"
    BY <1>3 DEF StartImmediate
  <2>2. clock \in Nat /\ d \in Nat /\ clock + d \in Nat /\ clock <= clock + d
    BY CostType DEF TypeOK
  <2>3. l \in Nat /\ Seconds(e) \in Nat /\ Seconds(e) >= l + Interval[t]
    <3>1. Seconds(e) = Seconds(clock + d) + Interval[t]
      BY <1>i, <2>2, DivSum DEF Seconds
    <3>2. l <= Seconds(clock + d)
      BY <1>i, <2>2, DivMonotone DEF Seconds
    <3>3. l \in Nat /\ Seconds(clock + d) \in Nat
      BY <2>2, SecondsType
    <3>. HIDE DEF l, e
    <3>4. QED
      BY <1>i, <3>1, <3>2, <3>3
  <2>4. ops # <<>> /\ Head(ops) = Op(t, "start") /\ tasks' = tasks /\ rewound' = rewound
    BY <2>1 DEF HandlerRuns
  <2>5. labels[t] = <<>>
    BY <2>4, HeadIsQueued DEF AllInTime, InTime
  <2>. HIDE DEF l, e
  <2>6. l \in Metronomes!NextInstants(t)
    BY <2>1, <2>3, <2>5 DEF Metronomes!NextInstants, Metronomes!Aligned
  <2>7. Seconds(e) \in Metronomes!NextInstants(t)'
    BY <2>1, <2>3, <2>5, NextAfterCall DEF Metronomes!Immediate
  <2>8. \A u \in Tasks \ {t} : labels'[u] = labels[u]
    BY <2>1 DEF TypeOK, CallTask
  <2>9. QED
    BY <2>1, <2>4, <2>6, <2>7, <2>8, InTimeRearm, CallIsBeat
<1>4. ASSUME NEW t \in Tasks, NEW d \in 0..MaxCost[t], Execute(t, d)
      PROVE  AllInTime' /\ Metronomes!MetronomeNext
  <2>. DEFINE e == expiry[t] + Interval[t] * Second
              l == Seconds(expiry[t])
  <2>1. HandlerRuns(t, "expired", d) /\ Rearm(t, e) /\ CallTask(t, l)
    BY <1>4 DEF Execute
  <2>2. expiry[t] \in Nat
    BY DEF TypeOK
  <2>3. l \in Nat /\ Seconds(e) = l + Interval[t]
    BY <1>i, <2>2, SecondsType, DivSum DEF Seconds
  <2>4. ops # <<>> /\ Head(ops) = Op(t, "expired") /\ tasks' = tasks /\ rewound' = rewound
    BY <2>1 DEF HandlerRuns
  <2>5. l \in Metronomes!NextInstants(t)
    BY <2>4, HeadIsQueued DEF AllInTime, InTime
  <2>. HIDE DEF l, e
  <2>6. Seconds(e) \in Metronomes!NextInstants(t)'
    <3>1. Seconds(e) \in Nat
      BY <1>i, <2>3
    <3>2. QED
      BY <2>1, <2>3, <3>1, NextAfterCall
  <2>7. \A u \in Tasks \ {t} : labels'[u] = labels[u]
    BY <2>1 DEF TypeOK, CallTask
  <2>8. QED
    BY <2>1, <2>4, <2>5, <2>6, <2>7, InTimeRearm, CallIsBeat
<1>5. ASSUME NEW t \in Tasks, Cancelled(t)
      PROVE  AllInTime' /\ labels' = labels /\ rewound' = rewound
  <2>1. /\ ops # <<>> /\ ops' = Tail(ops)
        /\ UNCHANGED <<tasks, waiting, expiry, labels, rewound>>
    BY <1>5 DEF Cancelled, HandlerRuns
  <2>2. ASSUME NEW u \in Tasks PROVE InTime(u)'
    <3>1. (Has(u, "expired")' => Has(u, "expired")) /\ (Has(u, "start")' => Has(u, "start"))
      BY <2>1, HasTail
    <3>2. QED
      BY <2>1, <3>1, InTimeKept DEF AllInTime
  <2>3. QED
    BY <2>1, <2>2 DEF AllInTime
<1>6. ASSUME Poll
      PROVE  AllInTime' /\ labels' = labels /\ rewound' = rewound
  <2>1. PICK s \in ExpiryOrders(Due) : ops' = [i \in 1..Len(s) |-> Op(s[i], "expired")]
    BY <1>6 DEF Poll
  <2>2. ops = <<>> /\ waiting' = waiting \ Due /\ UNCHANGED <<tasks, expiry, labels, rewound>>
    BY <1>6 DEF Poll
  <2>3. s \in Seq(Due) /\ Due \subseteq waiting
    BY OrderIsSequence DEF Due
  <2>4. ASSUME NEW u \in Tasks PROVE InTime(u)'
    <3>1. Has(u, "expired")' => u \in waiting
      BY <2>1, <2>3 DEF Has, Op
    <3>2. ~ Has(u, "start")'
      <4>1. \A i \in 1..Len(ops') : ops'[i].kind = "expired"
        BY <2>1, <2>3 DEF Op
      <4>2. Op(u, "start").kind = "start"
        BY DEF Op
      <4>3. QED
        BY <4>1, <4>2 DEF Has
    <3>3. QED
      BY <2>2, <3>1, <3>2, InTimeKept DEF AllInTime
  <2>5. QED
    BY <2>2, <2>4 DEF AllInTime
<1>7. ASSUME NEW t \in Tasks, AddTask(t)
      PROVE  AllInTime' /\ labels' = labels /\ rewound' = rewound
  <2>1. /\ t \notin tasks /\ tasks' = tasks \cup {t} /\ ops' = Append(ops, Op(t, "start"))
        /\ UNCHANGED <<waiting, expiry, labels, rewound>>
    BY <1>7 DEF AddTask
  <2>2. ASSUME NEW u \in Tasks PROVE InTime(u)'
    <3>1. ASSUME NEW k, Has(u, k)' PROVE Has(u, k) \/ (u = t /\ k = "start")
      <4>1. ops \in Seq(Item)
        BY DEF TypeOK, Item
      <4>2. PICK i \in 1..Len(ops') : ops'[i] = Op(u, k)
        BY <3>1 DEF Has
      <4>3. \/ i \in 1..Len(ops) /\ ops[i] = Op(u, k)
            \/ Op(t, "start") = Op(u, k)
        BY <2>1, <4>1, <4>2, AppendItems, OpType
      <4>4. QED
        BY <4>3 DEF Has, Op
    <3>2. InTime(u)
      BY DEF AllInTime
    <3>3. CASE u = t
      BY <2>1, <3>1, <3>2, <3>3, InTimeKept
    <3>4. CASE u # t
      BY <2>1, <3>1, <3>2, <3>4, InTimeKept
    <3>5. QED
      BY <3>3, <3>4
  <2>3. QED
    BY <2>1, <2>2 DEF AllInTime
<1>8. ASSUME NEW t \in Tasks, Cancel(t)
      PROVE  AllInTime' /\ labels' = labels /\ rewound' = rewound
  <2>1. /\ ops' = ops \o (IF t \in waiting THEN <<Op(t, "aborted")>> ELSE <<>>)
        /\ waiting' = waiting \ {t} /\ UNCHANGED <<tasks, expiry, labels, rewound>>
    BY <1>8 DEF Cancel
  <2>2. ASSUME NEW u \in Tasks, NEW k \in {"start", "expired"}, Has(u, k)' PROVE Has(u, k)
    <3>1. ops \in Seq(Item)
      BY DEF TypeOK, Item
    <3>2. ops' = ops \/ ops' = Append(ops, Op(t, "aborted"))
      BY <2>1, <3>1, AppendItems, OpType
    <3>3. PICK i \in 1..Len(ops') : ops'[i] = Op(u, k)
      BY <2>2 DEF Has
    <3>4. Op(t, "aborted") # Op(u, k)
      BY DEF Op
    <3>5. i \in 1..Len(ops) /\ ops[i] = Op(u, k)
      BY <3>1, <3>2, <3>3, <3>4, AppendItems, OpType
    <3>6. QED
      BY <3>5 DEF Has
  <2>3. ASSUME NEW u \in Tasks PROVE InTime(u)'
    BY <2>1, <2>2, InTimeKept DEF AllInTime
  <2>4. QED
    BY <2>1, <2>3 DEF AllInTime
<1>9. ASSUME UNCHANGED <<tasks, ops, waiting, expiry, labels, rewound>>
      PROVE  AllInTime' /\ labels' = labels /\ rewound' = rewound
  BY <1>9, InTimeKept DEF AllInTime, Has
<1>10. ASSUME NEW t \in Tasks, NEW now \in 0..MaxClock, StartImmediateReset(t, now)
       PROVE  AllInTime' /\ Metronomes!MetronomeNext
  <2>. DEFINE e == now + Interval[t] * Second
              l == Seconds(clock)
  <2>1. /\ Rearm(t, e) /\ CallTask(t, l) /\ Mode[t] = "execute_at_start"
        /\ ops # <<>> /\ Head(ops) = Op(t, "start") /\ tasks' = tasks
        /\ rewound' = IF now < clock THEN rewound \cup {t} ELSE rewound
    BY <1>10 DEF StartImmediateReset
  <2>2. clock \in Nat /\ now \in Nat
    BY ShownType DEF TypeOK
  <2>3. l \in Nat /\ Seconds(e) \in Nat /\ (t \in rewound' \/ Seconds(e) >= l + Interval[t])
    <3>1. Seconds(e) = Seconds(now) + Interval[t]
      BY <1>i, <2>2, DivSum DEF Seconds
    <3>2. clock <= now => l <= Seconds(now)
      BY <1>i, <2>2, DivMonotone DEF Seconds
    <3>3. l \in Nat /\ Seconds(now) \in Nat
      BY <2>2, SecondsType
    <3>. HIDE DEF l, e
    <3>4. QED
      BY <1>i, <2>1, <2>2, <3>1, <3>2, <3>3
  <2>4. labels[t] = <<>>
    BY <2>1, HeadIsQueued DEF AllInTime, InTime
  <2>. HIDE DEF l, e
  <2>5. l \in Metronomes!NextInstants(t)
    BY <2>1, <2>3, <2>4 DEF Metronomes!NextInstants, Metronomes!Aligned
  <2>6. Seconds(e) \in Metronomes!NextInstants(t)'
    BY <2>1, <2>3, <2>4, NextAfterCall DEF Metronomes!Immediate
  <2>7. \A u \in Tasks \ {t} : labels'[u] = labels[u]
    BY <2>1 DEF TypeOK, CallTask
  <2>8. AllInTime'
    BY <2>1, <2>6, <2>7, InTimeRearm
  <2>9. Metronomes!MetronomeNext
    BY <2>1, <2>4, <2>5, CallIsBeat DEF Metronomes!Immediate
  <2>10. QED
    BY <2>8, <2>9
<1>11. QED
  BY <1>1, <1>2, <1>3, <1>4, <1>5, <1>6, <1>7, <1>8, <1>9, <1>10
  DEF Next, Thread, Handler, Run, Return, Tick, SetClock, Horizon, vars

LEMMA Refinement ==
  ASSUME TypeOK, Chain, AllInTime
  PROVE  [Next]_vars => /\ TypeOK' /\ Chain' /\ AllInTime'
                        /\ [Metronomes!MetronomeNext]_<<labels, rewound>>
  BY TypeStep, ChainStep, InTimeStep

(* Whatever the delays and however the clock is set, between the handlers   *)
(* or during the first call of a task, every task is called for the instants*)
(* of its metronome: PeriodicScheduler implements Metronome.                *)
THEOREM TimeIsKept == Spec => KeepsTime
<1>1. Init => /\ TypeOK /\ Chain /\ AllInTime
              /\ Metronomes!MetronomeInit
  BY TypeInit, ChainInit, InTimeInit DEF Init, Metronomes!MetronomeInit
<1>2. TypeOK /\ Chain /\ AllInTime /\ [Next]_vars
        => /\ TypeOK' /\ Chain' /\ AllInTime'
           /\ [Metronomes!MetronomeNext]_<<labels, rewound>>
  BY Refinement
<1>3. QED
  BY <1>1, <1>2, PTL DEF Spec, KeepsTime, Metronomes!MetronomeSpec

(* A beat keeps the instants of the aligned tasks multiples.                *)
LEMMA BeatOnGrid ==
  ASSUME TypeOK, ReportsOnGrid, [Metronomes!MetronomeNext]_<<labels, rewound>>
  PROVE  ReportsOnGrid'
<1>1. CASE UNCHANGED <<labels, rewound>>
  BY <1>1 DEF ReportsOnGrid, Metronomes!OnGrid
<1>2. CASE Metronomes!MetronomeNext
  <2>1. PICK t \in Tasks : Metronomes!Beat(t)
    BY <1>2 DEF Metronomes!MetronomeNext
  <2>. DEFINE n == Len(labels[t])
              l == labels'[t][n + 1]
  <2>2. labels[t] \in Seq(Nat) /\ n \in Nat
    BY DEF TypeOK
  <2>3. l \in Metronomes!NextInstants(t) /\ labels' = [labels EXCEPT ![t] = Append(@, l)]
    BY <2>1 DEF Metronomes!Beat
  <2>4. labels'[t] = Append(labels[t], l) /\ \A u \in Tasks \ {t} : labels'[u] = labels[u]
    BY <2>3 DEF TypeOK
  <2>5. ASSUME Metronomes!Aligned(t) PROVE l % Interval[t] = 0
    <3>1. Interval[t] \in Nat \ {0} /\ ~ Metronomes!Immediate(t)
      BY <2>5, SchedulerAssumption
      DEF SchedulerAssumption, Metronomes!Aligned, Metronomes!Immediate
    <3>2. CASE n = 0
      BY <2>3, <2>5, <3>2 DEF Metronomes!NextInstants
    <3>3. CASE n # 0
      <4>1. l = labels[t][n] + Interval[t] /\ labels[t][n] \in Nat
        BY <2>2, <2>3, <3>1, <3>3 DEF Metronomes!NextInstants
      <4>2. labels[t][n] % Interval[t] = 0
        BY <2>2, <2>5, <3>3 DEF ReportsOnGrid, Metronomes!OnGrid
      <4>3. QED
        BY <3>1, <4>1, <4>2, NextMultiple
    <3>4. QED
      BY <3>2, <3>3
  <2>. HIDE DEF l
  <2>6. ASSUME NEW u \in Tasks, Metronomes!Aligned(u), NEW i \in 1..Len(labels'[u])
        PROVE  labels'[u][i] % Interval[u] = 0
    <3>1. CASE u # t
      BY <2>4, <2>6, <3>1 DEF ReportsOnGrid, Metronomes!OnGrid
    <3>2. CASE u = t /\ i = n + 1
      BY <2>2, <2>4, <2>5, <2>6, <3>2
    <3>3. CASE u = t /\ i # n + 1
      <4>1. i \in 1..n /\ labels'[t][i] = labels[t][i]
        BY <2>2, <2>4, <2>6, <3>3
      <4>2. QED
        BY <2>6, <3>3, <4>1 DEF ReportsOnGrid, Metronomes!OnGrid
    <3>4. QED
      BY <3>1, <3>2, <3>3
  <2>7. QED
    BY <2>6 DEF ReportsOnGrid, Metronomes!OnGrid, Metronomes!Aligned
<1>3. QED
  BY <1>1, <1>2

(* The instants an aligned task is called for are multiples of its interval.*)
THEOREM OnTheGrid == Spec => []ReportsOnGrid
<1>1. Init => /\ TypeOK /\ Chain /\ AllInTime /\ ReportsOnGrid
  <2>1. Init => ReportsOnGrid
    BY DEF Init, ReportsOnGrid, Metronomes!OnGrid
  <2>2. QED
    BY <2>1, TypeInit, ChainInit, InTimeInit
<1>2. TypeOK /\ Chain /\ AllInTime /\ ReportsOnGrid /\ [Next]_vars
        => TypeOK' /\ Chain' /\ AllInTime' /\ ReportsOnGrid'
  BY Refinement, BeatOnGrid
<1>3. QED
  BY <1>1, <1>2, PTL DEF Spec

-------------------------------------------------------------------------------
(* Induction, for sums over the tasks: a set of numbers that holds 0 and    *)
(* every successor holds them all.                                          *)

LEMMA LessIsWellFounded == IsWellFoundedOn({p \in Nat \X Nat : p[1] < p[2]}, Nat)
BY NatLessThanWellFounded DEF OpToRel

LEMMA LeastElement ==
  ASSUME NEW Ns, Ns \subseteq Nat, Ns # {}
  PROVE  \E n \in Ns : \A m \in Ns : n <= m
<1> DEFINE Less == {p \in Nat \X Nat : p[1] < p[2]}
<1>1. \E n \in Ns : \A m \in Ns : ~(<<m, n>> \in Less)
  <2>1. IsWellFoundedOn(Less, Nat)
    BY LessIsWellFounded
  <2> HIDE DEF Less
  <2> QED BY <2>1, WFMin
<1>2. PICK n \in Ns : \A m \in Ns : ~(<<m, n>> \in Less)
  BY <1>1
<1>3. ASSUME NEW m \in Ns PROVE n <= m
  <2>1. ~(m < n)
    BY <1>2
  <2> QED BY <2>1
<1> QED BY <1>3

LEMMA Induction ==
  ASSUME NEW Ns, 0 \in Ns, \A n \in Nat : n \in Ns => n + 1 \in Ns
  PROVE  Nat \subseteq Ns
<1> SUFFICES ASSUME Nat \ Ns # {} PROVE FALSE
  OBVIOUS
<1>1. PICK n \in Nat \ Ns : \A m \in Nat \ Ns : n <= m
  BY LeastElement
<1>2. n # 0
  BY <1>1
<1>3. n - 1 \in Nat /\ n - 1 \in Ns
  BY <1>1, <1>2
<1> QED BY <1>1, <1>3

-------------------------------------------------------------------------------
(* The load: the ticks that one call of each task of a set may take.        *)

SumsUp(f, T) ==
  /\ f \in [SUBSET T -> Nat]
  /\ \A t \in T : f[{t}] = MaxCost[t]
  /\ \A A, B \in SUBSET T : A \cap B = {} => f[A \cup B] = f[A] + f[B]

Load == CHOOSE f : SumsUp(f, Tasks)

LEMMA OneMoreTask ==
  ASSUME NEW T \in SUBSET Tasks, NEW t \in T, NEW f, SumsUp(f, T \ {t})
  PROVE  \E g : SumsUp(g, T)
<1> DEFINE g == [A \in SUBSET T |-> IF t \in A THEN f[A \ {t}] + MaxCost[t] ELSE f[A]]
<1>1. MaxCost[t] \in Nat
  BY SchedulerAssumption DEF SchedulerAssumption
<1>2. /\ \A A \in SUBSET (T \ {t}) : f[A] \in Nat
      /\ \A u \in T \ {t} : f[{u}] = MaxCost[u]
      /\ \A A, B \in SUBSET (T \ {t}) : A \cap B = {} => f[A \cup B] = f[A] + f[B]
  BY DEF SumsUp
<1>3. f[{}] = 0
  <2>1. {} \in SUBSET (T \ {t}) /\ {} \cap {} = {} /\ {} \cup {} = {}
    OBVIOUS
  <2> DEFINE z == f[{}]
  <2>2. z \in Nat /\ z = z + z
    BY <1>2, <2>1
  <2> HIDE DEF z
  <2>3. z = 0
    BY <2>2
  <2> QED BY <2>3 DEF z
<1>4. \A A \in SUBSET T : A \ {t} \in SUBSET (T \ {t}) /\ (t \notin A => A \ {t} = A)
  OBVIOUS
<1>5. \A A \in SUBSET T :
        g[A] = IF t \in A THEN f[A \ {t}] + MaxCost[t] ELSE f[A \ {t}]
  BY <1>4
<1>6. g \in [SUBSET T -> Nat]
  <2>1. \A A \in SUBSET T : g[A] \in Nat
    BY <1>1, <1>2, <1>4, <1>5
  <2> QED BY <2>1
<1> HIDE DEF g
<1>7. \A u \in T : g[{u}] = MaxCost[u]
  <2> TAKE u \in T
  <2>1. CASE u = t
    <3>1. {u} \ {t} = {} /\ t \in {u} /\ {u} \in SUBSET T
      BY <2>1
    <3> QED BY <1>1, <1>3, <1>5, <2>1, <3>1
  <2>2. CASE u # t
    <3>1. {u} \ {t} = {u} /\ t \notin {u} /\ {u} \in SUBSET T
      BY <2>2
    <3> QED BY <1>2, <1>5, <2>2, <3>1
  <2> QED BY <2>1, <2>2
<1>8. ASSUME NEW A \in SUBSET T, NEW B \in SUBSET T, A \cap B = {}
      PROVE  g[A \cup B] = g[A] + g[B]
  <2> DEFINE A0 == A \ {t}
             B0 == B \ {t}
  <2>1. /\ A0 \in SUBSET (T \ {t}) /\ B0 \in SUBSET (T \ {t}) /\ A0 \cap B0 = {}
        /\ (A \cup B) \ {t} = A0 \cup B0 /\ A \cup B \in SUBSET T
    BY <1>8
  <2>2. f[A0 \cup B0] = f[A0] + f[B0] /\ f[A0] \in Nat /\ f[B0] \in Nat
    BY <1>2, <2>1
  <2>3. /\ g[A] = IF t \in A THEN f[A0] + MaxCost[t] ELSE f[A0]
        /\ g[B] = IF t \in B THEN f[B0] + MaxCost[t] ELSE f[B0]
        /\ g[A \cup B] = IF t \in A \cup B THEN f[A0 \cup B0] + MaxCost[t] ELSE f[A0 \cup B0]
    BY <1>5, <2>1
  <2>4. ~ (t \in A /\ t \in B)
    BY <1>8
  <2> HIDE DEF A0, B0
  <2> QED BY <1>1, <2>2, <2>3, <2>4
<1>9. SumsUp(g, T)
  BY <1>6, <1>7, <1>8 DEF SumsUp
<1> QED BY <1>9

LEMMA LoadExists == \E f : SumsUp(f, Tasks)
<1> DEFINE Ns == {n \in Nat : \A T \in SUBSET Tasks :
                                Cardinality(T) = n => \E f : SumsUp(f, T)}
<1>1. IsFiniteSet(Tasks) /\ \A T \in SUBSET Tasks : IsFiniteSet(T)
  BY SchedulerAssumption, FS_Subset DEF SchedulerAssumption
<1>2. 0 \in Ns
  <2> SUFFICES ASSUME NEW T \in SUBSET Tasks, Cardinality(T) = 0
               PROVE  \E f : SumsUp(f, T)
    OBVIOUS
  <2>1. T = {}
    BY <1>1, FS_EmptySet
  <2>2. SumsUp([A \in SUBSET T |-> 0], T)
    BY <2>1 DEF SumsUp
  <2> QED BY <2>2
<1>3. ASSUME NEW n \in Nat, n \in Ns PROVE n + 1 \in Ns
  <2> SUFFICES ASSUME NEW T \in SUBSET Tasks, Cardinality(T) = n + 1
               PROVE  \E f : SumsUp(f, T)
    OBVIOUS
  <2>1. T # {}
    BY <1>1, FS_EmptySet
  <2>2. PICK t \in T : TRUE
    BY <2>1
  <2>3. Cardinality(T \ {t}) = n
    BY <1>1, <2>2, FS_RemoveElement
  <2>4. PICK f : SumsUp(f, T \ {t})
    BY <1>3, <2>3
  <2> QED BY <2>2, <2>4, OneMoreTask
<1>4. Cardinality(Tasks) \in Ns
  <2>1. Cardinality(Tasks) \in Nat
    BY <1>1, FS_CardinalityType
  <2> HIDE DEF Ns
  <2> QED BY <1>2, <1>3, <2>1, Induction
<1> QED BY <1>4

LEMMA LoadIs ==
  /\ \A A \in SUBSET Tasks : Load[A] \in Nat
  /\ \A A \in SUBSET Tasks : \A B \in SUBSET A : Load[B] <= Load[A]
  /\ \A A \in SUBSET Tasks : \A t \in A : Load[A] = Load[A \ {t}] + MaxCost[t]
<1>1. SumsUp(Load, Tasks)
  BY LoadExists DEF Load
<1>2. /\ \A A \in SUBSET Tasks : Load[A] \in Nat
      /\ \A t \in Tasks : Load[{t}] = MaxCost[t]
      /\ \A A, B \in SUBSET Tasks : A \cap B = {} => Load[A \cup B] = Load[A] + Load[B]
  BY <1>1 DEF SumsUp
<1>3. ASSUME NEW A \in SUBSET Tasks, NEW B \in SUBSET A PROVE Load[B] <= Load[A]
  <2>1. /\ A \ B \in SUBSET Tasks /\ B \in SUBSET Tasks
        /\ B \cap (A \ B) = {} /\ B \cup (A \ B) = A
    OBVIOUS
  <2>2. Load[A] = Load[B] + Load[A \ B] /\ Load[B] \in Nat /\ Load[A \ B] \in Nat
    BY <1>2, <2>1
  <2> QED BY <2>2
<1>4. ASSUME NEW A \in SUBSET Tasks, NEW t \in A
      PROVE  Load[A] = Load[A \ {t}] + MaxCost[t]
  <2>1. /\ A \ {t} \in SUBSET Tasks /\ {t} \in SUBSET Tasks /\ t \in Tasks
        /\ (A \ {t}) \cap {t} = {} /\ (A \ {t}) \cup {t} = A
    OBVIOUS
  <2>2. Load[(A \ {t}) \cup {t}] = Load[A \ {t}] + Load[{t}]
    BY <1>2, <2>1
  <2> QED BY <1>2, <2>1, <2>2
<1> QED BY <1>2, <1>3, <1>4

-------------------------------------------------------------------------------
(* On a machine that is fast enough.  A task that is due may have to wait   *)
(* for the calls of the others, but for one call of each only: whoever was  *)
(* called has its next expiry an interval later, behind those that wait.    *)

Pending(t) == t \in waiting \/ Has(t, "expired")

(* The tasks that may be called before one that is due at x. *)
Early(x) == {u \in Tasks : Has(u, "start") \/ (Pending(u) /\ expiry[u] <= x)}

(* What lies behind the clock leaves room for the calls that come first; the*)
(* last second is what an aligned task may be late when it is started.      *)
RoomLeft ==
  \A t \in Tasks : Pending(t) =>
    clock + Load[Early(expiry[t])] < expiry[t] + Load[Tasks] + Second

(* The queue holds start handlers or expired waits, not both; these are past*)
(* their expiry, in its order, and before all that wait still.              *)
InOrder ==
  /\ cancelled = {}
  /\ phase = "setup" => waiting = {} /\ \A i \in 1..Len(ops) : ops[i].kind = "start"
  /\ \A i, j \in 1..Len(ops) : ops[i].kind = ops[j].kind
  /\ \A i \in 1..Len(ops) : ops[i].kind = "expired" =>
       /\ expiry[ops[i].task] <= clock
       /\ \A j \in 1..Len(ops) : i < j => expiry[ops[i].task] <= expiry[ops[j].task]
       /\ \A u \in waiting : expiry[ops[i].task] <= expiry[u]

TimelyInv == TypeOK /\ Chain /\ InOrder /\ RoomLeft

(* The calls of a round fit in the least interval, and those of the others  *)
(* in a second less than the interval of each task.                         *)
FastEnough ==
  \A t \in Tasks : /\ Load[Tasks] <= Interval[t] * Second
                   /\ Load[Tasks \ {t}] + Second <= Interval[t] * Second

LEMMA TimelyIsNext ==
  ASSUME [TimelyNext]_vars
  PROVE  [Next]_vars
  BY DEF TimelyNext, Next, IdleTick, vars

LEMMA EarlyLoad ==
  ASSUME NEW x
  PROVE  Load[Early(x)] \in Nat /\ Load[Early(x)] <= Load[Tasks] /\ Load[Tasks] \in Nat
<1>1. Early(x) \in SUBSET Tasks /\ Tasks \in SUBSET Tasks
  BY DEF Early
<1> QED BY <1>1, LoadIs

(* A task that is pending is one of those due at its own expiry. *)
LEMMA RoomForOne ==
  ASSUME TypeOK, RoomLeft, NEW t \in Tasks, Pending(t)
  PROVE  /\ clock + MaxCost[t] < expiry[t] + Load[Tasks] + Second
         /\ clock < expiry[t] + Load[Tasks \ {t}] + Second
<1> DEFINE E == Early(expiry[t])
<1>1. /\ clock + Load[E] < expiry[t] + Load[Tasks] + Second
      /\ clock \in Nat /\ expiry[t] \in Nat /\ Second \in Nat /\ MaxCost[t] \in Nat
  BY SchedulerAssumption DEF RoomLeft, TypeOK, SchedulerAssumption
<1>2. t \in E /\ E \in SUBSET Tasks
  BY <1>1 DEF Early
<1> HIDE DEF E
<1>3. Load[E] = Load[E \ {t}] + MaxCost[t] /\ Load[E \ {t}] \in Nat
  <2>1. E \ {t} \in SUBSET Tasks
    BY <1>2
  <2> QED BY <1>2, <2>1, LoadIs
<1>4. Load[Tasks] = Load[Tasks \ {t}] + MaxCost[t] /\ Load[Tasks \ {t}] \in Nat
  <2>1. Tasks \ {t} \in SUBSET Tasks /\ Tasks \in SUBSET Tasks
    OBVIOUS
  <2> QED BY <2>1, LoadIs
<1> QED BY <1>1, <1>3, <1>4

LEMMA RoomIsNoBacklog ==
  ASSUME TypeOK, RoomLeft, FastEnough
  PROVE  NoBacklog
<1> SUFFICES ASSUME NEW t \in Tasks,
                    t \in waiting \/ \E i \in Queued(t) : ops[i].kind = "expired"
             PROVE  clock < expiry[t] + Interval[t] * Second
  BY DEF NoBacklog
<1>1. Pending(t)
  <2>1. ASSUME NEW i \in Queued(t), ops[i].kind = "expired" PROVE Has(t, "expired")
    <3>1. i \in 1..Len(ops) /\ ops[i].task = t /\ ops \in Seq(Item)
      BY DEF Queued, TypeOK, Item
    <3>2. ops[i] = Op(t, "expired")
      <4>1. ops[i] \in Item
        BY <3>1
      <4> QED BY <2>1, <3>1, <4>1 DEF Item, Op
    <3> QED BY <3>1, <3>2 DEF Has
  <2> QED BY <2>1 DEF Pending
<1>2. clock < expiry[t] + Load[Tasks \ {t}] + Second
  BY <1>1, RoomForOne
<1>3. Load[Tasks \ {t}] + Second <= Interval[t] * Second
  BY DEF FastEnough
<1>4. /\ clock \in Nat /\ expiry[t] \in Nat /\ Second \in Nat
      /\ Load[Tasks \ {t}] \in Nat /\ Interval[t] * Second \in Nat
  <2>1. Tasks \ {t} \in SUBSET Tasks
    OBVIOUS
  <2> QED BY <2>1, LoadIs, IntervalTicks, SchedulerAssumption DEF TypeOK, SchedulerAssumption
<1> DEFINE i == Interval[t] * Second
           l == Load[Tasks \ {t}]
<1> HIDE DEF i, l
<1>5. clock < expiry[t] + l + Second /\ l + Second <= i /\ l \in Nat /\ i \in Nat
  BY <1>2, <1>3, <1>4 DEF i, l
<1>6. clock < expiry[t] + i
  BY <1>4, <1>5
<1> QED BY <1>6 DEF i

LEMMA TimelyInit ==
  ASSUME Init
  PROVE  TimelyInv
<1>1. InOrder /\ RoomLeft
  BY DEF Init, InOrder, RoomLeft, Pending, Has
<1> QED BY <1>1, TypeInit, ChainInit DEF TimelyInv

(* The handler of t at the head of the queue takes d ticks and sets the     *)
(* timer to e, which may be in the past by less than a second.              *)
LEMMA RoomRearm ==
  ASSUME TimelyInv, NEW t \in Tasks, NEW k \in {"start", "expired"}, NEW d \in 0..MaxCost[t],
         NEW e \in Nat, HandlerRuns(t, k, d), Rearm(t, e),
         clock + d < e + Second, k = "expired" => clock <= e
  PROVE  InOrder' /\ RoomLeft'
<1>1. /\ ops \in Seq(Item) /\ ops # <<>> /\ Head(ops) = Op(t, k)
      /\ clock' = clock + d /\ UNCHANGED <<phase, tasks, cancelled>> /\ phase = "running"
  BY DEF HandlerRuns, TimelyInv, TypeOK, Item
<1>2. /\ t \in tasks /\ t \notin waiting
      /\ \A i \in 2..Len(ops) : ops[i].task # t
  BY <1>1, HeadAlone DEF TimelyInv
<1>3. /\ ops' = Tail(ops) /\ waiting' = waiting \cup {t}
      /\ expiry'[t] = e /\ \A u \in Tasks \ {t} : expiry'[u] = expiry[u]
  BY <1>1, <1>2 DEF Rearm, TimelyInv, TypeOK
<1>4. /\ Len(ops) \in Nat /\ Len(ops) >= 1 /\ ops[1] = Op(t, k) /\ ops[1].task = t /\ ops[1].kind = k
      /\ Len(ops') = Len(ops) - 1
      /\ \A i \in 1..Len(ops') : /\ i + 1 \in 2..Len(ops) /\ ops'[i] = ops[i + 1]
                                 /\ ops[i + 1].task \in Tasks
  <2>1. /\ Len(ops) \in Nat /\ Len(ops) >= 1 /\ ops[1] = Op(t, k)
        /\ Len(ops') = Len(ops) - 1
        /\ \A i \in 1..Len(ops') : i + 1 \in 1..Len(ops) /\ ops'[i] = ops[i + 1]
    BY <1>1, <1>3, TailItems
  <2>2. Op(t, k).task = t /\ Op(t, k).kind = k
    BY DEF Op
  <2>3. ASSUME NEW i \in 1..Len(ops')
        PROVE  i + 1 \in 2..Len(ops) /\ ops[i + 1].task \in Tasks
    <3>1. ops[i + 1] \in Item /\ i + 1 \in 2..Len(ops)
      BY <1>1, <2>1, <2>3
    <3> QED BY <3>1 DEF Item
  <2> QED BY <2>1, <2>2, <2>3
<1>5. /\ clock \in Nat /\ d \in Nat /\ Second \in Nat /\ Load[Tasks] \in Nat /\ MaxCost[t] \in Nat
      /\ d <= MaxCost[t]
      /\ \A u \in Tasks : expiry[u] \in Nat
  BY CostType, LoadIs, SchedulerAssumption DEF TimelyInv, TypeOK, SchedulerAssumption
<1>6. \A i \in 1..Len(ops) : ops[i].kind = k
  <2>1. 1 \in 1..Len(ops)
    BY <1>4
  <2> QED BY <1>4, <2>1 DEF TimelyInv, InOrder
<1>7. InOrder'
  <2>1. cancelled' = {} /\ phase' # "setup"
    BY <1>1 DEF TimelyInv, InOrder
  <2>2. \A i \in 1..Len(ops') : ops'[i].kind = k
    BY <1>4, <1>6
  <2>3. ASSUME NEW i \in 1..Len(ops'), ops'[i].kind = "expired"
        PROVE  /\ expiry'[ops'[i].task] <= clock'
               /\ \A j \in 1..Len(ops') : i < j => expiry'[ops'[i].task] <= expiry'[ops'[j].task]
               /\ \A u \in waiting' : expiry'[ops'[i].task] <= expiry'[u]
    <3> DEFINE v == ops'[i].task
    <3>1. i + 1 \in 1..Len(ops) /\ ops[i + 1].kind = "expired" /\ k = "expired"
          /\ ops[i + 1].task = v /\ v \in Tasks \ {t} /\ expiry'[v] = expiry[v]
      BY <1>2, <1>3, <1>4, <1>6, <2>2, <2>3
    <3>2. /\ expiry[v] <= clock
          /\ \A j \in 1..Len(ops) : i + 1 < j => expiry[v] <= expiry[ops[j].task]
          /\ \A u \in waiting : expiry[v] <= expiry[u]
      BY <3>1 DEF TimelyInv, InOrder
    <3> HIDE DEF v
    <3>3. expiry'[v] <= clock'
      BY <1>1, <1>5, <3>1, <3>2
    <3>4. ASSUME NEW j \in 1..Len(ops'), i < j PROVE expiry'[v] <= expiry'[ops'[j].task]
      <4>1. j + 1 \in 1..Len(ops) /\ i + 1 < j + 1 /\ ops'[j] = ops[j + 1]
        BY <1>4, <3>4
      <4>2. ops[j + 1].task \in Tasks \ {t}
        BY <1>2, <1>4
      <4> QED BY <1>3, <3>1, <3>2, <4>1, <4>2
    <3>5. ASSUME NEW u \in waiting' PROVE expiry'[v] <= expiry'[u]
      <4>1. CASE u = t
        <5>1. expiry[v] \in Nat /\ expiry[v] <= clock /\ clock <= e
          BY <1>5, <3>1, <3>2
        <5> QED BY <1>3, <1>5, <3>1, <4>1, <5>1
      <4>2. CASE u # t
        <5>1. u \in waiting /\ u \in Tasks \ {t}
          BY <1>3, <4>2 DEF TimelyInv, TypeOK
        <5> QED BY <1>3, <3>1, <3>2, <5>1
      <4> QED BY <4>1, <4>2
    <3> QED BY <3>3, <3>4, <3>5 DEF v
  <2> QED BY <2>1, <2>2, <2>3 DEF InOrder
<1>8. ASSUME NEW u \in Tasks, u # t
      PROVE  /\ Has(u, "start")' => Has(u, "start")
             /\ Pending(u)' => Pending(u)
  <2>1. (Has(u, "expired")' => Has(u, "expired")) /\ (Has(u, "start")' => Has(u, "start"))
    BY <1>1, <1>3, HasTail DEF TimelyInv
  <2> QED BY <1>3, <1>8, <2>1 DEF Pending
<1>9. ~ Has(t, "start")'
  <2>1. \A i \in 1..Len(ops') : ops'[i].task # t
    BY <1>2, <1>4
  <2>2. Op(t, "start").task = t
    BY DEF Op
  <2> QED BY <2>1, <2>2 DEF Has
<1>10. RoomLeft'
  <2> SUFFICES ASSUME NEW u \in Tasks, Pending(u)'
               PROVE  clock' + Load[Early(expiry[u])'] < expiry'[u] + Load[Tasks] + Second
    BY DEF RoomLeft
  <2> DEFINE x == expiry'[u]
             A == Early(expiry[u])'
             a == Load[A]
             L == Load[Tasks]
  <2>1. A = {w \in Tasks : Has(w, "start")' \/ (Pending(w)' /\ expiry'[w] <= x)}
    BY DEF Early
  <2>2. A \in SUBSET Tasks /\ Tasks \in SUBSET Tasks
    BY <2>1
  <2>3. a \in Nat /\ L \in Nat /\ a <= L
    <3> HIDE DEF A
    <3> QED BY <2>2, LoadIs
  <2>4. x \in Nat
    BY <1>3, <1>5
  <2>5. CASE e <= x
    <3> HIDE DEF x, a, L
    <3>1. clock' + a < x + L + Second
      BY <1>1, <1>5, <2>3, <2>4, <2>5
    <3> QED BY <3>1 DEF x, a, L
  <2>6. CASE x < e
    <3>1. u # t /\ x = expiry[u] /\ Pending(u)
      BY <1>3, <1>8, <2>6, <2>4
    <3> DEFINE B == Early(expiry[u])
               b == Load[B]
    <3>2. t \in B
      <4>1. CASE k = "start"
        BY <1>1, <4>1, HeadIsQueued DEF Early, TimelyInv
      <4>2. CASE k = "expired"
        <5>1. Has(t, "expired") /\ 1 \in 1..Len(ops) /\ ops[1].kind = "expired"
          BY <1>1, <1>4, <4>2, HeadIsQueued DEF TimelyInv
        <5>2. /\ \A j \in 1..Len(ops) : 1 < j => expiry[t] <= expiry[ops[j].task]
              /\ \A w \in waiting : expiry[t] <= expiry[w]
          BY <1>4, <5>1 DEF TimelyInv, InOrder
        <5>3. expiry[t] <= expiry[u]
          <6>1. CASE u \in waiting
            BY <5>2, <6>1
          <6>2. CASE Has(u, "expired")
            <7>1. PICK j \in 1..Len(ops) : ops[j] = Op(u, "expired")
              BY <6>2 DEF Has
            <7>2. ops[j].task = u
              BY <7>1 DEF Op
            <7>3. j # 1
              BY <1>4, <3>1, <7>2
            <7> QED BY <1>4, <5>2, <7>2, <7>3
          <6> QED BY <3>1, <6>1, <6>2 DEF Pending
        <5> QED BY <5>1, <5>3 DEF Early, Pending
      <4> QED BY <4>1, <4>2
    <3>3. A \subseteq B \ {t}
      <4> SUFFICES ASSUME NEW w \in Tasks, Has(w, "start")' \/ (Pending(w)' /\ expiry'[w] <= x)
                   PROVE  w \in B /\ w # t
        BY <2>1
      <4>1. w # t
        BY <1>3, <1>9, <2>4, <2>6
      <4>2. expiry'[w] = expiry[w]
        BY <1>3, <4>1
      <4> QED BY <1>8, <3>1, <4>1, <4>2 DEF Early
    <3>4. B \in SUBSET Tasks /\ B \ {t} \in SUBSET Tasks
      BY DEF Early
    <3>5. clock + b < x + L + Second
      BY <3>1 DEF TimelyInv, RoomLeft
    <3> HIDE DEF A, B
    <3>6. b \in Nat /\ a + MaxCost[t] <= b
      <4>1. Load[B] = Load[B \ {t}] + MaxCost[t] /\ Load[B \ {t}] \in Nat /\ Load[B] \in Nat
        BY <3>2, <3>4, LoadIs
      <4>2. Load[A] <= Load[B \ {t}]
        BY <3>3, <3>4, LoadIs
      <4> QED BY <1>5, <2>3, <4>1, <4>2
    <3> HIDE DEF x, a, b, L
    <3>7. clock' + a < x + L + Second
      BY <1>1, <1>5, <2>3, <2>4, <3>5, <3>6
    <3> QED BY <3>7 DEF x, a, L, A
  <2> QED BY <1>5, <2>4, <2>5, <2>6
<1> QED BY <1>7, <1>10

LEMMA TimelyStep ==
  ASSUME TimelyInv, FastEnough, [TimelyNext]_vars
  PROVE  TimelyInv'
<1>i. /\ ops \in Seq(Item) /\ Len(ops) \in Nat /\ clock \in Nat /\ Second \in Nat \ {0}
      /\ \A u \in Tasks : expiry[u] \in Nat /\ Interval[u] \in Nat \ {0}
  BY SchedulerAssumption DEF TimelyInv, TypeOK, Item, SchedulerAssumption
<1>t. TypeOK' /\ Chain'
  BY TimelyIsNext, TypeStep, ChainStep DEF TimelyInv
<1>1. ASSUME NEW t \in Tasks, phase = "setup", AddTask(t)
      PROVE  InOrder' /\ RoomLeft'
  <2>1. /\ ops' = Append(ops, Op(t, "start")) /\ waiting = {} /\ phase' = "setup"
        /\ UNCHANGED <<waiting, expiry, clock, cancelled>> /\ cancelled = {}
        /\ \A i \in 1..Len(ops) : ops[i].kind = "start"
    BY <1>1 DEF AddTask, TimelyInv, InOrder
  <2>2. \A i \in 1..Len(ops') : ops'[i].kind = "start"
    <3>1. Op(t, "start") \in Item /\ Op(t, "start").kind = "start"
      BY OpType DEF Op, Kinds
    <3> QED BY <1>i, <2>1, <3>1, AppendItems
  <2>3. \A u : ~ Pending(u)'
    <3>1. \A u : Op(u, "expired").kind = "expired"
      BY DEF Op
    <3> QED BY <2>1, <2>2, <3>1 DEF Pending, Has
  <2> QED BY <2>1, <2>2, <2>3 DEF InOrder, RoomLeft
<1>2. ASSUME NEW t \in Tasks, StartAligned(t)
      PROVE  InOrder' /\ RoomLeft'
  <2> DEFINE a == aligned_up(Seconds(clock), Interval[t])
             e == a * Second
  <2>1. HandlerRuns(t, "start", 0) /\ Rearm(t, e)
    BY <1>2 DEF StartAligned
  <2>2. a \in Nat /\ Seconds(clock) \in Nat /\ Seconds(clock) <= a
    BY <1>i, SecondsType, AlignedUpType, AlignedUpBound
  <2> HIDE DEF a
  <2>3. e \in Nat /\ clock + 0 < e + Second
    BY <1>i, <2>2, SecondIsClose, TimesType
  <2>4. 0 \in 0..MaxCost[t]
    BY SchedulerAssumption DEF SchedulerAssumption
  <2> HIDE DEF e
  <2> QED BY <2>1, <2>3, <2>4, RoomRearm
<1>3. ASSUME NEW t \in Tasks, StartSkipping(t)
      PROVE  InOrder' /\ RoomLeft'
  <2> DEFINE i == Interval[t] * Second
             e == clock + i
  <2>1. HandlerRuns(t, "start", 0) /\ Rearm(t, e)
    BY <1>3 DEF StartSkipping
  <2>2. i \in Nat
    BY IntervalTicks
  <2> HIDE DEF i
  <2>3. e \in Nat /\ clock + 0 < e + Second
    BY <1>i, <2>2
  <2>4. 0 \in 0..MaxCost[t]
    BY SchedulerAssumption DEF SchedulerAssumption
  <2> HIDE DEF e
  <2> QED BY <2>1, <2>3, <2>4, RoomRearm
<1>4. ASSUME NEW t \in Tasks, NEW d \in 0..MaxCost[t], StartImmediate(t, d)
      PROVE  InOrder' /\ RoomLeft'
  <2> DEFINE i == Interval[t] * Second
             e == clock + d + i
  <2>1. HandlerRuns(t, "start", d) /\ Rearm(t, e)
    BY <1>4 DEF StartImmediate
  <2>2. i \in Nat /\ d \in Nat
    BY IntervalTicks, CostType
  <2> HIDE DEF i
  <2>3. e \in Nat /\ clock + d < e + Second
    BY <1>i, <2>2
  <2> HIDE DEF e
  <2> QED BY <2>1, <2>3, RoomRearm
<1>5. ASSUME NEW t \in Tasks, NEW d \in 0..MaxCost[t], Execute(t, d)
      PROVE  InOrder' /\ RoomLeft'
  <2> DEFINE i == Interval[t] * Second
             x == expiry[t]
             e == x + i
             L == Load[Tasks]
             M == Load[Tasks \ {t}]
  <2>1. HandlerRuns(t, "expired", d) /\ Rearm(t, e)
    BY <1>5 DEF Execute
  <2>2. Pending(t)
    BY <2>1, HeadIsQueued DEF HandlerRuns, TimelyInv, Pending
  <2>3. clock + MaxCost[t] < x + L + Second /\ clock < x + M + Second /\ x \in Nat
    BY <1>i, <2>2, RoomForOne DEF TimelyInv
  <2>4. L <= i /\ M + Second <= i
    BY DEF FastEnough
  <2>5. L \in Nat /\ M \in Nat
    <3>1. Tasks \in SUBSET Tasks /\ Tasks \ {t} \in SUBSET Tasks
      OBVIOUS
    <3> QED BY <3>1, LoadIs
  <2>6. i \in Nat /\ d \in Nat /\ MaxCost[t] \in Nat /\ d <= MaxCost[t]
    BY IntervalTicks, CostType, SchedulerAssumption DEF SchedulerAssumption
  <2> HIDE DEF i, x, L, M
  <2>7. e \in Nat /\ clock + d < e + Second /\ clock <= e
    <3> DEFINE m == MaxCost[t]
    <3>1. m \in Nat /\ d <= m /\ clock + m < x + L + Second
      BY <2>3, <2>6
    <3>2. clock \in Nat /\ Second \in Nat /\ d \in Nat /\ i \in Nat
      BY <1>i, <2>6
    <3> HIDE DEF m
    <3>3. clock < x + i
      BY <2>3, <2>4, <2>5, <3>2
    <3>4. clock + d < x + i + Second
      BY <2>3, <2>4, <2>5, <3>1, <3>2
    <3> QED BY <2>3, <3>2, <3>3, <3>4
  <2> HIDE DEF e
  <2> QED BY <2>1, <2>7, RoomRearm
<1>6. ASSUME NEW t \in Tasks, Cancelled(t)
      PROVE  FALSE
  <2>1. ops # <<>> /\ Head(ops) = Op(t, "aborted")
    BY <1>6 DEF Cancelled, HandlerRuns
  <2>2. t \in cancelled
    BY <2>1, HeadAlone DEF TimelyInv
  <2> QED BY <2>2 DEF TimelyInv, InOrder
<1>7. ASSUME Poll
      PROVE  InOrder' /\ RoomLeft'
  <2>1. PICK s \in ExpiryOrders(Due) : ops' = [i \in 1..Len(s) |-> Op(s[i], "expired")]
    BY <1>7 DEF Poll
  <2>2. /\ ops = <<>> /\ waiting' = waiting \ Due /\ phase = "running"
        /\ UNCHANGED <<phase, expiry, clock, cancelled>>
    BY <1>7 DEF Poll
  <2>3. s \in Seq(Due)
    BY OrderIsSequence DEF TimelyInv
  <2>4. /\ Len(s) \in Nat /\ Len(ops') = Len(s)
        /\ \A i \in 1..Len(s) : /\ ops'[i] = Op(s[i], "expired")
                                /\ ops'[i].task = s[i] /\ ops'[i].kind = "expired"
                                /\ s[i] \in Due
    BY <2>1, <2>3 DEF Op
  <2>5. \A i, j \in 1..Len(s) : i < j => expiry[s[i]] <= expiry[s[j]]
    <3>1. Len(s) = Cardinality(Due)
      BY DueFinite DEF ExpiryOrders, TimelyInv
    <3> QED BY <3>1 DEF ExpiryOrders
  <2>6. InOrder'
    <3>1. ASSUME NEW i \in 1..Len(s)
          PROVE  expiry[s[i]] <= clock /\ \A u \in waiting' : expiry[s[i]] <= expiry[u]
      <4>1. s[i] \in waiting /\ expiry[s[i]] <= clock /\ expiry[s[i]] \in Nat
        BY <1>i, <2>4 DEF Due, TimelyInv, TypeOK
      <4>2. \A u \in waiting' : expiry[u] \in Nat /\ clock < expiry[u]
        BY <1>i, <2>2 DEF Due, TimelyInv, TypeOK
      <4> QED BY <1>i, <4>1, <4>2
    <3> QED BY <2>2, <2>4, <2>5, <3>1 DEF InOrder, TimelyInv
  <2>7. \A u : ~ Has(u, "start")' /\ (Pending(u)' => u \in waiting)
    <3>1. \A u : Op(u, "start").kind = "start" /\ Op(u, "expired").task = u
      BY DEF Op
    <3>2. Due \subseteq waiting
      BY DEF Due
    <3> QED BY <2>2, <2>4, <3>1, <3>2 DEF Has, Pending
  <2>8. RoomLeft'
    <3> SUFFICES ASSUME NEW u \in Tasks, Pending(u)'
                 PROVE  clock' + Load[Early(expiry[u])'] < expiry'[u] + Load[Tasks] + Second
      BY DEF RoomLeft
    <3> DEFINE A == Early(expiry[u])'
               B == Early(expiry[u])
    <3>1. clock + Load[B] < expiry[u] + Load[Tasks] + Second
      BY <2>7 DEF TimelyInv, RoomLeft, Pending
    <3>2. A \subseteq B /\ B \in SUBSET Tasks
      BY <2>2, <2>7 DEF Early, Pending
    <3> HIDE DEF A, B
    <3>3. Load[A] <= Load[B] /\ Load[A] \in Nat /\ Load[B] \in Nat
      <4>1. A \in SUBSET Tasks
        BY <3>2
      <4> QED BY <3>2, <4>1, LoadIs
    <3>4. Load[Tasks] \in Nat
      BY LoadIs
    <3>5. clock + Load[A] < expiry[u] + Load[Tasks] + Second
      BY <1>i, <3>1, <3>3, <3>4
    <3> QED BY <2>2, <3>5 DEF A
  <2> QED BY <2>6, <2>8
<1>8. ASSUME IdleTick
      PROVE  InOrder' /\ RoomLeft'
  <2>1. /\ clock' = clock + 1 /\ ops = <<>> /\ Due = {} /\ phase = "running"
        /\ UNCHANGED <<phase, ops, waiting, expiry, cancelled>>
    BY <1>8 DEF IdleTick, Tick
  <2>2. InOrder'
    BY <2>1 DEF InOrder, TimelyInv
  <2>3. ASSUME NEW u \in Tasks, Pending(u)'
        PROVE  clock' + Load[Early(expiry[u])'] < expiry'[u] + Load[Tasks] + Second
    <3>1. u \in waiting
      BY <2>1, <2>3 DEF Pending, Has
    <3>2. clock < expiry[u]
      BY <1>i, <2>1, <3>1 DEF Due
    <3> DEFINE l == Load[Early(expiry[u])']
               L == Load[Tasks]
    <3>3. l \in Nat /\ L \in Nat /\ l <= L
      <4> DEFINE A == Early(expiry[u])'
      <4>1. A \in SUBSET Tasks /\ Tasks \in SUBSET Tasks
        BY DEF Early
      <4> HIDE DEF A
      <4>2. Load[A] \in Nat /\ Load[A] <= Load[Tasks] /\ Load[Tasks] \in Nat
        BY <4>1, LoadIs
      <4> QED BY <4>2 DEF A
    <3> HIDE DEF l, L
    <3>4. clock' + l < expiry'[u] + L + Second
      BY <1>i, <2>1, <3>2, <3>3
    <3> QED BY <3>4 DEF l, L
  <2> QED BY <2>2, <2>3 DEF RoomLeft
<1>9. ASSUME UNCHANGED <<ops, waiting, expiry, clock, cancelled>>, phase' # "setup" \/ phase' = phase
      PROVE  InOrder' /\ RoomLeft'
  <2>1. InOrder'
    BY <1>9 DEF TimelyInv, InOrder
  <2>2. \A x : Early(x)' = Early(x)
    BY <1>9 DEF Early, Pending, Has
  <2>3. RoomLeft'
    BY <1>9, <2>2 DEF TimelyInv, RoomLeft, Pending, Has
  <2> QED BY <2>1, <2>3
<1>10. InOrder' /\ RoomLeft'
  BY <1>1, <1>2, <1>3, <1>4, <1>5, <1>6, <1>7, <1>8, <1>9
  DEF TimelyNext, Thread, Handler, Run, Return, Horizon, vars
<1> QED BY <1>t, <1>10 DEF TimelyInv

(* On a machine fast enough for the calls of a round, no task is an interval*)
(* late: execute() never has an instant to catch up with.                   *)
THEOREM NeverBehind ==
  ASSUME FastEnough
  PROVE  TimelySpec => []NoBacklog
<1>1. Init => TimelyInv
  BY TimelyInit
<1>2. TimelyInv /\ [TimelyNext]_vars => TimelyInv'
  BY TimelyStep
<1>3. TimelyInv => NoBacklog
  BY RoomIsNoBacklog DEF TimelyInv
<1> QED BY <1>1, <1>2, <1>3, PTL DEF TimelySpec
===============================================================================
