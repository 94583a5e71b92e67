------------------------------ MODULE Statistics ------------------------------
(***************************************************************************)
(* Reporter::calculate_stats (meas_reporter.cpp).  A double is an integer   *)
(* or NaN, a quotient is a pair <<numerator, denominator>> and the standard *)
(* deviation is given by its square: the arithmetic is exact, the rounding  *)
(* of doubles is left out.                                                  *)
(***************************************************************************)
LOCAL INSTANCE Integers
LOCAL INSTANCE Sequences
LOCAL INSTANCE FiniteSets
LOCAL INSTANCE FiniteSetsExt

CONSTANT NaN        \* std::numeric_limits<double>::quiet_NaN()

(* The positions of the valid samples, those that are not NaN. *)
Valid(samples) == {i \in DOMAIN samples : samples[i].v # NaN}

calculate_stats(samples) ==
  LET positions == Valid(samples)
      values    == {samples[i].v : i \in positions}
      valid     == Cardinality(positions)
      sum       == MapThenSumSet(LAMBDA i : samples[i].v, positions)
      accum     == MapThenSumSet(LAMBDA i : (valid * samples[i].v - sum)
                                              * (valid * samples[i].v - sum), positions)
  IN  IF values = {}
      THEN [min |-> NaN, max |-> NaN, mean |-> NaN, variance |-> NaN]
      ELSE [min      |-> Min(values),
            max      |-> Max(values),
            mean     |-> <<sum, valid>>,
            variance |-> IF valid > 1
                         THEN <<accum, valid * valid * (valid - 1)>>
                         ELSE <<0, 1>>]
===============================================================================
