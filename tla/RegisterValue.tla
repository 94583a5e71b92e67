----------------------------- MODULE RegisterValue -----------------------------
(***************************************************************************)
(* From the registers of a device to a sample: the limits of a source       *)
(* register (suval, meas_config.h; from_json, meas_config.cpp), the value   *)
(* of its registers (to_val, modbus_slave.hpp) and the comparison of the    *)
(* two (the task of Executor::add_schedule, meas_executor.cpp).             *)
(*                                                                         *)
(* A register has Word values (65536 in the code) and intmax_t those of four*)
(* registers, so that every conversion wraps as it does in the code.  The   *)
(* device is external: it holds a value of the type it was configured with. *)
(***************************************************************************)
EXTENDS Integers, Sequences

CONSTANTS Word,     \* the values of a register: 0..(Word - 1)
          Limits,   \* the texts a limit can be given as in the configuration
          Scale     \* scale_factor

ASSUME RegisterAssumption ==
  /\ Word \in Nat \ {0} /\ Word % 2 = 0
  /\ Limits \subseteq [tab : BOOLEAN, minus : BOOLEAN, digits : Nat]
  /\ Scale \in Int

VARIABLES source,   \* the source register: value_type, endianess and limits
          given,    \* history: the texts of its limits, <<>> where there is none
          errno,    \* "ERANGE" or "other"; from_json does not clear it
          at,       \* "config", then "running", or "refused": the program ends
          value,    \* the device's value
          sample    \* what meas_task gave to the Reporter for it

vars == <<source, given, errno, at, value, sample>>

Sizes      == {1, 2, 4}
ValueTypes == [signed : BOOLEAN, reg_size : Sizes]
Given(limit) == limit # <<>>       \* a limit is <<text>> or <<>>
NoSample   == [type |-> "none", measurement |-> 0]

(* How many values n registers have. *)
Span(n) ==
  CASE n = 0 -> 1
    [] n = 1 -> Word
    [] n = 2 -> Word * Word
    [] n = 3 -> Word * Word * Word
    [] n = 4 -> Word * Word * Word * Word
IntMaxSize == 4

(* static_cast to the signed, to the unsigned type of n registers *)
AsSigned(x, n) ==
  LET u == x % Span(n) IN IF u >= Span(n) \div 2 THEN u - Span(n) ELSE u
AsUnsigned(x, n) == x % Span(n)

(* std::numeric_limits of a value_type *)
Lowest(vt)  == IF vt.signed THEN -(Span(vt.reg_size) \div 2) ELSE 0
Highest(vt) == (IF vt.signed THEN Span(vt.reg_size) \div 2 ELSE Span(vt.reg_size)) - 1

(* The widest type of the same signedness: that of an suval. *)
Widest(vt) == [vt EXCEPT !.reg_size = IntMaxSize]

value_in_range(x, vt) == Lowest(vt) <= x /\ x <= Highest(vt)

-------------------------------------------------------------------------------
(* The limits.                                                              *)

(* A text is abstracted to what strtoimax looks at: whether white space     *)
(* other than ' ' is before the number, a minus sign, and the number itself *)
(* in whichever base, 0 if there is none.                                   *)
Number(text) == IF text.minus THEN -text.digits ELSE text.digits

(* strtoimax, or strtoumax, which wraps what has a minus sign around ...    *)
strtomax(text, vt) ==
  IF vt.signed THEN Number(text) ELSE AsUnsigned(Number(text), IntMaxSize)

(* ... and sets errno if the number is one of no integer type. *)
OutOfRange(text, vt) ==
  IF vt.signed THEN ~value_in_range(Number(text), Widest(vt))
               ELSE text.digits > Highest(Widest(vt))

(* The check of the text of an unsigned limit: find_first_not_of(' ') stops *)
(* at a tab, which strtoumax skips.                                         *)
MinusFound(text, vt) == ~vt.signed /\ text.minus /\ ~text.tab

(* errno after assign_from_string looked at the text. *)
ErrnoAfter(text, vt, before) ==
  IF MinusFound(text, vt) \/ OutOfRange(text, vt) THEN "ERANGE" ELSE before

(* Faulty: only what strtoumax rejects is rejected. *)
accepted_if_parsed(text, vt, before) == ErrnoAfter(text, vt, before) # "ERANGE"

(* assign_from_string takes the text and does not throw. *)
accepted(text, vt, before) ==
  /\ ErrnoAfter(text, vt, before) # "ERANGE"
  /\ value_in_range(strtomax(text, vt), vt)

(* from_json of a source_register_t: the minimum first, then the maximum;   *)
(* assign_min and assign_max where the configuration gives none.            *)
Configure(min, max) ==
  LET vt     == source.value_type
      ok1    == Given(min) => accepted(min[1], vt, errno)
      errno1 == IF Given(min) THEN ErrnoAfter(min[1], vt, errno) ELSE errno
      ok2    == Given(max) => accepted(max[1], vt, errno1)
      errno2 == IF Given(max) THEN ErrnoAfter(max[1], vt, errno1) ELSE errno1
  IN  /\ at = "config"
      /\ at' = IF ok1 /\ ok2 THEN "running" ELSE "refused"
      /\ given' = [min |-> min, max |-> max]
      /\ source' = [source EXCEPT
                      !.min = IF Given(min) THEN strtomax(min[1], vt) ELSE Lowest(vt),
                      !.max = IF Given(max) THEN strtomax(max[1], vt) ELSE Highest(vt)]
      /\ errno' = IF ok1 THEN errno2 ELSE errno1
      /\ UNCHANGED <<value, sample>>

-------------------------------------------------------------------------------
(* The value.                                                               *)

(* The device: the words of x, the most significant one first or last.      *)
Words(x, n, endianess) ==
  [i \in 1..n |-> LET k == IF endianess = "little" THEN i - 1 ELSE n - i
                  IN  ((x % Span(n)) \div Span(k)) % Span(1)]

(* Faulty: the value of one or two registers is not sign-extended. *)
to_val_unextended(regs, regsize, endianess) ==
  LET w(k) == regs[IF endianess = "little" THEN k + 1 ELSE regsize - k]
  IN  CASE regsize = 1 -> w(0)
        [] regsize = 2 -> w(1) * Span(1) + w(0)
        [] regsize = 4 -> AsSigned(w(3) * Span(3) + w(2) * Span(2)
                                     + w(1) * Span(1) + w(0), 4)

(* Faulty: the words are always taken in one order. *)
to_val_little(regs, regsize, endianess) ==
  LET w(k) == regs[k + 1]
  IN  CASE regsize = 1 -> AsSigned(w(0), 1)
        [] regsize = 2 -> AsSigned(w(1) * Span(1) + w(0), 2)
        [] regsize = 4 -> AsSigned(w(3) * Span(3) + w(2) * Span(2)
                                     + w(1) * Span(1) + w(0), 4)

(* to_val: cast to the signed type of the size, so that the assignment to   *)
(* intmax_t extends the sign.  w(k) is the word of weight k.                *)
to_val(regs, regsize, endianess) ==
  LET w(k) == regs[IF endianess = "little" THEN k + 1 ELSE regsize - k]
  IN  CASE regsize = 1 -> AsSigned(w(0), 1)
        [] regsize = 2 -> AsSigned(w(1) * Span(1) + w(0), 2)
        [] regsize = 4 -> AsSigned(w(3) * Span(3) + w(2) * Span(2)
                                     + w(1) * Span(1) + w(0), 4)

(* meas_task: below the minimum, above the maximum, or a sample. *)
Compare(v, min, max) ==
  CASE v < min -> [type |-> "underflow", measurement |-> 0]
    [] v >= min /\ v > max -> [type |-> "overflow", measurement |-> 0]
    [] OTHER -> [type |-> "regular", measurement |-> v * Scale]

(* One reading is enough: nothing is kept from one to the next. *)
Read ==
  LET vt        == source.value_type
      reg_value == to_val(Words(value', vt.reg_size, source.endianess),
                          vt.reg_size, source.endianess)
  IN  /\ at = "running" /\ sample = NoSample
      /\ value' \in Lowest(vt)..Highest(vt)
      /\ sample' = IF vt.signed
                   THEN Compare(reg_value, source.min, source.max)
                   ELSE Compare(AsUnsigned(reg_value, IntMaxSize), source.min, source.max)
      /\ UNCHANGED <<source, given, errno, at>>

-------------------------------------------------------------------------------
Init ==
  /\ source \in [value_type : ValueTypes, endianess : {"little", "big"},
                 min : {0}, max : {0}]
  /\ given = [min |-> <<>>, max |-> <<>>]
  /\ errno \in {"ERANGE", "other"}
  /\ at = "config"
  /\ value = 0
  /\ sample = NoSample

Next ==
  \/ \E min, max \in {<<>>} \cup {<<text>> : text \in Limits} : Configure(min, max)
  \/ Read

Spec == Init /\ [][Next]_vars

-------------------------------------------------------------------------------
(* Properties.                                                              *)

(* A limit that wraps around unnoticed: of an unsigned type, with a minus   *)
(* sign that comes after a tab.                                             *)
Wraps(text, vt) == ~vt.signed /\ text.minus /\ text.tab

AsGiven(limit, text, extreme) ==
  LET vt == source.value_type
  IN  IF ~Given(text) THEN limit = extreme
      ELSE \/ limit = Number(text[1])
           \/ Wraps(text[1], vt) /\ limit = Number(text[1]) + Span(IntMaxSize)

(* The limits the program runs with are values of the source's type and the *)
(* numbers that were given, or the extremes of the type where none was: no  *)
(* limit was cut off, and none wrapped around but a negative one that the   *)
(* check of an unsigned limit overlooks: that one wrapped once, into the    *)
(* range of the type.                                                       *)
LimitsAsGiven ==
  LET vt == source.value_type
  IN  at = "running" =>
        /\ value_in_range(source.min, vt) /\ AsGiven(source.min, given.min, Lowest(vt))
        /\ value_in_range(source.max, vt) /\ AsGiven(source.max, given.max, Highest(vt))

(* What the device's value should be classified as. *)
Expected ==
  IF value < source.min THEN "underflow"
  ELSE IF value > source.max THEN "overflow" ELSE "regular"

Classified == sample.type # "none" => sample.type = Expected

(* A sample is the value of the device, for every type and word order: a    *)
(* value that was misread never enters the statistics, since the limits     *)
(* keep it out.                                                             *)
NoWrongSample ==
  sample.type = "regular" =>
    sample.measurement = value * Scale /\ Expected = "regular"

(* Values of the signed types, and those of UINT64, are compared with the   *)
(* limits as what they are.                                                 *)
SignedClassified ==
  source.value_type.signed \/ source.value_type.reg_size = IntMaxSize => Classified

(* So are those of the narrower unsigned types: to_val "Always return[s]    *)
(* signed type, it's up to the consumer to convert to unsigned if desired,  *)
(* and that is a well defined conversion" (modbus_slave.hpp:27-28).         *)
UnsignedClassified == ~source.value_type.signed => Classified
===============================================================================
