------------------------- MODULE MCPeriodicScheduler --------------------------
(***************************************************************************)
(* Instances of PeriodicScheduler for TLC: one task of each mode, with      *)
(* intervals that are not multiples of one another.                         *)
(***************************************************************************)
EXTENDS PeriodicScheduler

CONSTANTS Report, Log, Meas     \* the three tasks

MCTasks    == {Report, Log, Meas}
MCMode     == [t \in MCTasks |->
                 CASE t = Report -> "execute_at_multiples_of_period"
                   [] t = Log    -> "skip_first_execution"
                   [] t = Meas   -> "execute_at_start"]

(* Overload: a call of Meas may take longer than its interval. *)
MCInterval == [t \in MCTasks |-> CASE t = Report -> 3 [] t = Log -> 2 [] t = Meas -> 1]
MCCost     == [t \in MCTasks |-> IF t = Meas THEN 3 ELSE 0]

(* A machine that is just fast enough: the calls of a round fill the least  *)
(* interval, 6 ticks, and those of the others and a second that of Report.  *)
MCTimelyInterval == [t \in MCTasks |-> IF t = Report THEN 4 ELSE 3]
MCTimelyCost     == [t \in MCTasks |-> 2]
===============================================================================
