------------------------------ MODULE StartProofs ------------------------------
(***************************************************************************)
(* Theorems about what main does until it runs a crawler: the command line  *)
(* and the log (Logging, which extends CommandLine), for any texts, any     *)
(* number of options, of lines, of rotations and of names to rotate to; and *)
(* the configuration and its slaves (Slaves, which extends MeasConfig), for *)
(* files of any number of servers and measures, in any order and with any   *)
(* mistakes.                                                                *)
(***************************************************************************)
EXTENDS Logging, Slaves, WellFoundedInduction, TLAPS


-------------------------------------------------------------------------------
(* The command line: what is remembered of the options given so far is what *)
(* the last of them says.                                                   *)

Letters == {"s", "a", "r", "t", "m", "d", "c", "l", "o"}

Remembered ==
  /\ given \in Seq(ToSet(given))
  /\ operands \in 0..2 /\ text \in Seq(Characters)
  /\ program \in {"crawler", "pwrmeter_client"}
  /\ DOMAIN options = Letters /\ options.s \in Int
  /\ IF mode = "unknown" THEN NoneGiven(Modes)
     ELSE \E i \in DOMAIN given :
            /\ LastGiven(i, Modes) /\ given[i].opt = mode
            /\ mode = "m" => given[i].arg = options.m
  /\ outcome # "terminated" =>
       \/ NoneGiven({"s"}) /\ options.s = -1
       \/ \E i \in DOMAIN given : LastGiven(i, {"s"}) /\ given[i].arg = options.s
  /\ options.c \in Arguments.c
  /\ (NoneGiven({"c"}) /\ options.c = "well_formed") \/ LastLine(options.c)
  /\ outcome \notin {"usage", "help", "terminated"} =>
       \A i \in DOMAIN given :
         /\ given[i].opt \notin {"?", "h"}
         /\ given[i].opt \in NumberOptions[program] => given[i].arg # NaN

CommandInv == Remembered /\ RunsAsAsked /\ RefusedRightly

-------------------------------------------------------------------------------
(* The log.                                                                 *)

Untouched == lines = 0 /\ progr = 0 /\ open = unopened /\ \A n \in Names : disk[n] = None

(* The rotations in their order; every line on disk was logged.             *)
Counted ==
  /\ lines \in Nat /\ progr \in Nat
  /\ rotated \in Seq(Nat) /\ Len(rotated) = progr
  /\ \A i \in 1..progr : 1 <= rotated[i] /\ rotated[i] <= lines
  /\ \A i, j \in 1..progr : i < j => rotated[i] < rotated[j]
  /\ disk \in [Names -> SUBSET Nat]
  /\ \A n \in Names : \A line \in disk[n] : line <= lines

(* loguru has the log's name open, or the file that was renamed last.       *)
Opens ==
  /\ \/ open \in {unopened, log_file}
     \/ progr > 0 /\ open = (progr - 1) % num_rotated_files
  /\ looked /\ open # unopened => open = log_file
  /\ looked \in BOOLEAN /\ rested \in BOOLEAN

(* A file that was not renamed last got its last line before the rotation   *)
(* after its own; names whose turn has not come hold nothing.               *)
Closed ==
  /\ \A j \in 0..(progr - 2) : j >= progr - num_rotated_files =>
       \A line \in disk[j % num_rotated_files] : line <= rotated[j + 2]
  /\ \A n \in 0..(num_rotated_files - 1) : n >= progr => disk[n] \subseteq None

Created ==
  /\ lines > 0 => open # unopened
  /\ open # unopened /\ ~refused => link = Target
  /\ outcome = "parsing" => Untouched

LogInv == Counted /\ Opens /\ Closed /\ Created /\ LinesKept /\ CurrentLog

-------------------------------------------------------------------------------
(* Options.                                                                 *)

LEMMA ElementsOf ==
  ASSUME NEW q, q \in Seq(ToSet(q)), NEW x
  PROVE  /\ Len(q) \in Nat /\ DOMAIN q = 1..Len(q)
         /\ Append(q, x) \in Seq(ToSet(Append(q, x)))
         /\ Len(Append(q, x)) = Len(q) + 1 /\ DOMAIN Append(q, x) = 1..(Len(q) + 1)
         /\ Append(q, x)[Len(q) + 1] = x
         /\ \A i \in DOMAIN q : i \in DOMAIN Append(q, x) /\ Append(q, x)[i] = q[i]
<1> DEFINE T == ToSet(q) \cup {x}
           a == Append(q, x)
<1>1. q \in Seq(T) /\ x \in T
  <2>1. ToSet(q) \subseteq T
    OBVIOUS
  <2> HIDE DEF T
  <2>2. \A U : q \in Seq(U) /\ U \subseteq T => q \in Seq(T)
    OBVIOUS
  <2>3. x \in T
    BY DEF T
  <2> QED BY <2>1, <2>2, <2>3
<1> HIDE DEF T
<1>2. /\ Len(q) \in Nat /\ DOMAIN q = 1..Len(q)
      /\ a \in Seq(T) /\ Len(a) = Len(q) + 1 /\ DOMAIN a = 1..(Len(q) + 1)
      /\ a[Len(q) + 1] = x /\ \A i \in 1..Len(q) : a[i] = q[i]
  BY <1>1
<1>3. a \in Seq(ToSet(a))
  <2> HIDE DEF a
  <2>1. \A i \in DOMAIN a : a[i] \in ToSet(a)
    BY DEF ToSet
  <2>2. a = [i \in 1..Len(a) |-> a[i]] /\ Len(a) \in Nat /\ DOMAIN a = 1..Len(a)
    BY <1>2
  <2> QED BY <2>1, <2>2
<1> QED BY <1>2, <1>3

(* One more option: it is the last of those it is one of.                   *)
LEMMA TakeOption ==
  ASSUME Remembered, NEW o, NEW arg, Take(o, arg),
         NEW n, n = Len(given) + 1
  PROVE  /\ given' \in Seq(ToSet(given))'
         /\ n \in DOMAIN given'
         /\ given'[n].opt = o /\ given'[n].arg = arg
         /\ \A i \in DOMAIN given : i \in DOMAIN given' /\ given'[i] = given[i]
         /\ \A i \in DOMAIN given' : i \in DOMAIN given \/ i = n
         /\ \A os : o \in os => LastGiven(n, os)'
         /\ \A os : \A i : o \notin os /\ LastGiven(i, os) => LastGiven(i, os)'
         /\ \A os : o \notin os /\ NoneGiven(os) => NoneGiven(os)'
<1> DEFINE x == [opt |-> o, arg |-> arg]
<1>1. given' = Append(given, x)
  BY DEF Take
<1>2. given \in Seq(ToSet(given))
  BY DEF Remembered
<1>3. x.opt = o /\ x.arg = arg
  OBVIOUS
<1> HIDE DEF x
<1>4. /\ Len(given) \in Nat /\ DOMAIN given = 1..Len(given)
      /\ given' \in Seq(ToSet(given')) /\ DOMAIN given' = 1..n
      /\ given'[n] = x /\ \A i \in DOMAIN given : i \in DOMAIN given' /\ given'[i] = given[i]
  BY <1>1, <1>2, ElementsOf
<1>5. n \in DOMAIN given' /\ \A i \in DOMAIN given' : i \in DOMAIN given \/ i = n
  BY <1>4
<1>6. \A i \in DOMAIN given : i \in Nat /\ i < n
  BY <1>4
<1>7. n \in Nat /\ \A i \in DOMAIN given' : ~ (i > n)
  BY <1>4
<1>8. \A os : o \in os => LastGiven(n, os)'
  BY <1>3, <1>4, <1>5, <1>7 DEF LastGiven
<1>9. \A os : \A i : o \notin os /\ LastGiven(i, os) => LastGiven(i, os)'
  BY <1>3, <1>4, <1>5 DEF LastGiven
<1>10. \A os : o \notin os /\ NoneGiven(os) => NoneGiven(os)'
  BY <1>3, <1>4, <1>5 DEF NoneGiven
<1> QED BY <1>3, <1>4, <1>5, <1>8, <1>9, <1>10

(* An option that does not end the parsing: what it sets is remembered.     *)
LEMMA OptionRemembered ==
  ASSUME Remembered, NEW o, NEW arg, Take(o, arg),
         IF o \in Modes THEN mode' = o /\ (o = "m" => options'.m = arg)
                        ELSE mode' = mode /\ options'.m = options.m,
         IF o = "s" /\ outcome' # "terminated"
         THEN options'.s = arg /\ arg \in Int ELSE options'.s = options.s,
         IF o = "c" THEN options'.c = arg /\ arg \in Arguments.c ELSE options'.c = options.c,
         DOMAIN options' = DOMAIN options,
         outcome' = "terminated" => o \in NumberOptions[program] /\ arg = NaN,
         outcome' \in {"parsing", "usage", "help", "terminated"},
         outcome' = "usage" => o = "?",
         outcome' = "parsing" =>
           o \notin {"?", "h"} /\ (o \in NumberOptions[program] => arg # NaN)
  PROVE  CommandInv'
<1>n. PICK n : n = Len(given) + 1
  OBVIOUS
<1>1. /\ given' \in Seq(ToSet(given))'
      /\ n \in DOMAIN given'
      /\ given'[n].opt = o /\ given'[n].arg = arg
      /\ \A i \in DOMAIN given : i \in DOMAIN given' /\ given'[i] = given[i]
      /\ \A i \in DOMAIN given' : i \in DOMAIN given \/ i = n
      /\ \A os : o \in os => LastGiven(n, os)'
      /\ \A os : \A i : o \notin os /\ LastGiven(i, os) => LastGiven(i, os)'
      /\ \A os : o \notin os /\ NoneGiven(os) => NoneGiven(os)'
  BY <1>n, TakeOption
<1>2. /\ outcome = "parsing" /\ program' = program
      /\ operands' = operands /\ text' = text
  BY DEF Take
<1>3. \A i, os : LastGiven(i, os) => i \in DOMAIN given
  BY DEF LastGiven
<1>4. IF mode' = "unknown" THEN NoneGiven(Modes)'
      ELSE \E i \in DOMAIN given' :
             /\ LastGiven(i, Modes)' /\ given'[i].opt = mode'
             /\ mode' = "m" => given'[i].arg = options'.m
  <2>1. CASE o \in Modes
    <3>1. o # "unknown"
      BY <2>1 DEF Modes
    <3> QED BY <1>1, <2>1, <3>1
  <2>2. CASE o \notin Modes
    BY <1>1, <1>3, <2>2 DEF Remembered
  <2> QED BY <2>1, <2>2
<1>5. outcome' # "terminated" =>
        \/ NoneGiven({"s"})' /\ options'.s = -1
        \/ \E i \in DOMAIN given' : LastGiven(i, {"s"})' /\ given'[i].arg = options'.s
  <2>1. CASE o = "s"
    BY <1>1, <2>1
  <2>2. CASE o # "s"
    BY <1>1, <1>2, <1>3, <2>2 DEF Remembered
  <2> QED BY <2>1, <2>2
<1>6. outcome' \notin {"usage", "help", "terminated"} =>
        \A i \in DOMAIN given' :
          /\ given'[i].opt \notin {"?", "h"}
          /\ given'[i].opt \in NumberOptions[program'] => given'[i].arg # NaN
  BY <1>1, <1>2 DEF Remembered
<1>7. options'.s \in Int
  BY DEF Remembered
<1>c. /\ options'.c \in Arguments.c
      /\ (NoneGiven({"c"})' /\ options'.c = "well_formed") \/ LastLine(options.c)'
  <2>1. CASE o = "c"
    BY <1>1, <2>1 DEF LastLine
  <2>2. CASE o # "c"
    BY <1>1, <1>3, <2>2 DEF Remembered, LastLine
  <2> QED BY <2>1, <2>2
<1>8. Remembered'
  BY <1>1, <1>2, <1>4, <1>5, <1>6, <1>7, <1>c DEF Remembered
<1>9. RunsAsAsked'
  BY DEF RunsAsAsked, Modes
<1>10. RefusedRightly'
  BY <1>1, <1>2 DEF RefusedRightly
<1> QED BY <1>8, <1>9, <1>10 DEF CommandInv

LEMMA OptionSets ==
  ASSUME program \in {"crawler", "pwrmeter_client"}
  PROVE  /\ Operations[program] \subseteq {"R", "W", "F", "U"}
         /\ NumberOptions[program] \subseteq {"s", "a", "r", "t"}
         /\ TextOptions[program] \subseteq {"d", "c", "l", "o"}
<1>1. CASE program = "crawler"
  BY <1>1 DEF Operations, NumberOptions, TextOptions
<1>2. CASE program = "pwrmeter_client"
  BY <1>2 DEF Operations, NumberOptions, TextOptions
<1> QED BY <1>1, <1>2

LEMMA OptionsStep ==
  ASSUME CommandInv, Options
  PROVE  CommandInv'
<1>r. Remembered
  BY DEF CommandInv
<1>p. program \in {"crawler", "pwrmeter_client"} /\ DOMAIN options = Letters
  BY <1>r DEF Remembered
<1>o. /\ Operations[program] \subseteq {"R", "W", "F", "U"}
      /\ NumberOptions[program] \subseteq {"s", "a", "r", "t"}
      /\ TextOptions[program] \subseteq {"d", "c", "l", "o"}
  BY <1>p, OptionSets
<1>1. ASSUME ModeOption PROVE CommandInv'
  <2>1. PICK o \in Operations[program] : Take(o, "") /\ mode' = o
    BY <1>1 DEF ModeOption
  <2>2. o \in {"R", "W", "F", "U"} /\ o \notin NumberOptions[program]
    BY <1>o, <2>1
  <2>3. UNCHANGED <<options, outcome>> /\ outcome = "parsing"
    BY <1>1, <2>1 DEF ModeOption, Take
  <2> QED BY <1>r, <2>1, <2>2, <2>3, OptionRemembered DEF Modes
<1>2. ASSUME MeasOption PROVE CommandInv'
  <2>1. PICK name \in {"", "measconfig_file"} :
          Take("m", name) /\ mode' = "m" /\ options' = [options EXCEPT !.m = name]
    BY <1>2 DEF MeasOption
  <2>2. "m" \notin NumberOptions[program]
    BY <1>o
  <2>3. outcome' = outcome /\ outcome = "parsing"
    BY <1>2, <2>1 DEF MeasOption, Take
  <2>4. options'.m = name /\ options'.s = options.s /\ options'.c = options.c
        /\ DOMAIN options' = DOMAIN options
    BY <1>p, <2>1 DEF Letters
  <2>5. "m" \in Modes
    BY DEF Modes
  <2> QED BY <1>r, <2>1, <2>2, <2>3, <2>4, <2>5, OptionRemembered
<1>3. ASSUME NumberOption PROVE CommandInv'
  <2>1. PICK o \in NumberOptions[program], n \in Numbers :
          /\ Take(o, n)
          /\ IF n = NaN THEN outcome' = "terminated" /\ UNCHANGED options
                        ELSE options' = [options EXCEPT ![o] = n] /\ UNCHANGED outcome
    BY <1>3 DEF NumberOption
  <2>2. o \in {"s", "a", "r", "t"}
    BY <1>o, <2>1
  <2>3. mode' = mode /\ outcome = "parsing" /\ n \in Int
    BY <1>3, <2>1 DEF NumberOption, Take, Numbers, NaN
  <2>4. o \notin Modes /\ o \notin {"?", "h", "c"}
    BY <2>2 DEF Modes
  <2>5. CASE n = NaN
    BY <1>r, <2>1, <2>3, <2>4, <2>5, OptionRemembered
  <2>6. CASE n # NaN
    <3>1. options' = [options EXCEPT ![o] = n] /\ outcome' = "parsing"
      BY <2>1, <2>3, <2>6
    <3>2. /\ options'.m = options.m /\ options'.c = options.c /\ DOMAIN options' = DOMAIN options
          /\ IF o = "s" THEN options'.s = n ELSE options'.s = options.s
      BY <1>p, <2>2, <3>1 DEF Letters
    <3> QED BY <1>r, <2>1, <2>3, <2>4, <2>6, <3>1, <3>2, OptionRemembered
  <2> QED BY <2>5, <2>6
<1>4. ASSUME TextOption PROVE CommandInv'
  <2>1. PICK o \in TextOptions[program] : \E t \in Arguments[o] :
          Take(o, t) /\ options' = [options EXCEPT ![o] = t]
    BY <1>4 DEF TextOption
  <2>t. PICK t \in Arguments[o] : Take(o, t) /\ options' = [options EXCEPT ![o] = t]
    BY <2>1
  <2>2. o \in {"d", "c", "l", "o"} /\ o \notin NumberOptions[program]
    BY <1>o, <2>1
  <2>3. UNCHANGED <<mode, outcome>> /\ outcome = "parsing"
    BY <1>4, <2>t DEF TextOption, Take
  <2>4. o \notin Modes /\ o \notin {"?", "h", "s"}
    BY <2>2 DEF Modes
  <2>5. /\ options'.m = options.m /\ options'.s = options.s /\ DOMAIN options' = DOMAIN options
        /\ IF o = "c" THEN options'.c = t /\ t \in Arguments.c ELSE options'.c = options.c
    <3>1. o = "c" => Arguments[o] = Arguments.c
      OBVIOUS
    <3> QED BY <1>p, <2>t, <2>2, <3>1 DEF Letters
  <2> QED BY <1>r, <2>t, <2>2, <2>3, <2>4, <2>5, OptionRemembered
<1>5. ASSUME LastOption PROVE CommandInv'
  <2>1. PICK o \in {"?", "h"} : /\ Take(o, "")
                                /\ outcome' \in {"usage", "help"}
                                /\ outcome' = "usage" => o = "?"
    BY <1>5 DEF LastOption
  <2>2. UNCHANGED <<mode, options>> /\ o \notin Modes /\ o \notin {"s", "c"}
    BY <1>5, <2>1 DEF LastOption, Modes
  <2> QED BY <1>r, <2>1, <2>2, OptionRemembered
<1> QED BY <1>1, <1>2, <1>3, <1>4, <1>5 DEF Options

-------------------------------------------------------------------------------
(* The numbers that a text begins with.                                     *)

Bases == {8, 10, 16}

LEMMA NumeralsAre ==
  /\ DOMAIN Numerals = 1..16
  /\ \A i \in 1..16 : Numerals[i] \in Characters
<1>1. DOMAIN Numerals = 1..16
  BY DEF Numerals
<1>2. \A i \in DOMAIN Numerals : Numerals[i] \in ToSet(Numerals)
  BY DEF ToSet
<1> QED BY <1>1, <1>2 DEF Characters

LEMMA NumeralsDiffer ==
  /\ \A i, j \in 1..16 : Numerals[i] = Numerals[j] => i = j
  /\ \A i \in 1..16 : Numerals[i] \notin {"r", "l", "x", " ", "-", "+", "other"}
<1>1. \A i \in 1..16 : i \in {1, 2, 3, 4, 5, 6, 7, 8, 9, 10, 11, 12, 13, 14, 15, 16}
  OBVIOUS
<1>2. /\ Numerals[1] = "0" /\ Numerals[2] = "1" /\ Numerals[3] = "2" /\ Numerals[4] = "3"
      /\ Numerals[5] = "4" /\ Numerals[6] = "5" /\ Numerals[7] = "6" /\ Numerals[8] = "7"
      /\ Numerals[9] = "8" /\ Numerals[10] = "9" /\ Numerals[11] = "a" /\ Numerals[12] = "b"
      /\ Numerals[13] = "c" /\ Numerals[14] = "d" /\ Numerals[15] = "e" /\ Numerals[16] = "f"
  BY DEF Numerals
<1> DEFINE Place(c) == CASE c = "0" -> 1 [] c = "1" -> 2 [] c = "2" -> 3 [] c = "3" -> 4
                         [] c = "4" -> 5 [] c = "5" -> 6 [] c = "6" -> 7 [] c = "7" -> 8
                         [] c = "8" -> 9 [] c = "9" -> 10 [] c = "a" -> 11 [] c = "b" -> 12
                         [] c = "c" -> 13 [] c = "d" -> 14 [] c = "e" -> 15 [] c = "f" -> 16
<1>3. \A i \in 1..16 : Place(Numerals[i]) = i
  BY <1>1, <1>2
<1>4. \A i \in 1..16 : Numerals[i] \notin {"r", "l", "x", " ", "-", "+", "other"}
  BY <1>1, <1>2
<1> HIDE DEF Place
<1>5. \A i, j \in 1..16 : Numerals[i] = Numerals[j] => i = j
  BY <1>3
<1> QED BY <1>4, <1>5

LEMMA DigitIs ==
  ASSUME NEW d \in 0..15
  PROVE  DigitValue(Numerals[d + 1]) = d
<1>1. d + 1 \in 1..16 /\ \A e \in 0..15 : e + 1 \in 1..16 /\ (e + 1 = d + 1 => e = d)
  OBVIOUS
<1>2. \A e \in 0..15 : Numerals[d + 1] = Numerals[e + 1] => e = d
  BY <1>1, NumeralsDiffer
<1> QED BY <1>2 DEF DigitValue

LEMMA DigitsAre ==
  ASSUME NEW b \in Bases
  PROVE  /\ \A d \in 0..(b - 1) : Numerals[d + 1] \in DigitsOf(b)
         /\ \A c \in DigitsOf(b) : c \notin {"r", "l", "x", " ", "-", "+", "other"}
<1>1. \A d \in 0..(b - 1) : d + 1 \in 1..16
  BY DEF Bases
<1> QED BY <1>1, NumeralsDiffer DEF DigitsOf

LEMMA LeadingIs ==
  ASSUME NEW t, t \in Seq(Characters), NEW b \in Bases, NEW m \in Nat, m < Len(t),
         \A i \in 1..m : t[i] \in DigitsOf(b), t[m + 1] \notin DigitsOf(b)
  PROVE  Leading(t, b) = m
<1> DEFINE a == Append(t, "other")
           I == {i \in 1..Len(a) : a[i] \notin DigitsOf(b)}
<1>1. Len(t) \in Nat /\ Len(a) = Len(t) + 1 /\ \A i \in 1..Len(t) : a[i] = t[i]
  OBVIOUS
<1> HIDE DEF a
<1>2. m + 1 \in I /\ \A i \in I : m + 1 <= i /\ i \in Int
  <2>1. m + 1 \in 1..Len(t) /\ m + 1 \in 1..Len(a) /\ 1..m \subseteq 1..Len(t)
    BY <1>1
  <2>2. \A i \in 1..Len(a) : i \in 1..m \/ m + 1 <= i
    BY <1>1
  <2> QED BY <1>1, <2>1, <2>2
<1>3. SelectInSeq(a, LAMBDA c : c \notin DigitsOf(b)) = IF I # {} THEN Min(I) ELSE 0
  BY DEF SelectInSeq, Min
<1>4. Min(I) = m + 1
  <2> HIDE DEF I
  <2>1. \A x \in I : (\A y \in I : x <= y) <=> x = m + 1
    BY <1>2
  <2> QED BY <1>2, <2>1 DEF Min
<1>5. SelectInSeq(a, LAMBDA c : c \notin DigitsOf(b)) = m + 1
  BY <1>2, <1>3, <1>4
<1> QED BY <1>5 DEF Leading, a

(* The value of up to three digits.                                         *)
LEMMA ThreeDigits ==
  ASSUME NEW t, NEW b \in Int, NEW m \in {1, 2, 3}, Leading(t, b) = m,
         \A i \in 1..m : DigitValue(t[i]) \in Int
  PROVE  InBase(t, b) = IF m = 1 THEN DigitValue(t[1])
                        ELSE IF m = 2 THEN b * DigitValue(t[1]) + DigitValue(t[2])
                        ELSE b * (b * DigitValue(t[1]) + DigitValue(t[2])) + DigitValue(t[3])
<1> DEFINE x == DigitValue(t[1])
           y == DigitValue(t[2])
           z == DigitValue(t[3])
           F(f) == [i \in 0..m |-> IF i = 0 THEN 0 ELSE b * f[i - 1] + DigitValue(t[i])]
           f == CHOOSE f : f = F(f)
           p == b * x + y
           q == b * p + z
           g == [i \in 0..m |-> IF i = 0 THEN 0 ELSE IF i = 1 THEN x ELSE IF i = 2 THEN p ELSE q]
<1>1. \A i \in 0..m : i = 0 \/ i = 1 \/ (i = 2 /\ m > 1) \/ (i = 3 /\ m > 2)
  OBVIOUS
<1>2. g = F(g)
  <2>1. b * 0 + x = x
    OBVIOUS
  <2> DEFINE h(i) == IF i = 0 THEN 0 ELSE b * g[i - 1] + DigitValue(t[i])
  <2>2. \A i \in 0..m : g[i] = h(i)
    <3> TAKE i \in 0..m
    <3>1. CASE i = 0
      BY <3>1
    <3>2. CASE i = 1
      <4>1. g[i - 1] = 0 /\ g[i] = x
        BY <3>2
      <4> HIDE DEF g
      <4> QED BY <2>1, <3>2, <4>1
    <3>3. CASE i = 2 /\ m > 1
      <4>1. g[i - 1] = x /\ g[i] = p
        <5>1. i - 1 = 1 /\ 1 \in 0..m
          BY <3>3
        <5> QED BY <3>3, <5>1
      <4> HIDE DEF g
      <4> QED BY <3>3, <4>1
    <3>4. CASE i = 3 /\ m > 2
      <4>1. g[i - 1] = p /\ g[i] = q
        <5>1. i - 1 = 2 /\ 2 \in 0..m
          BY <3>4
        <5> QED BY <3>4, <5>1
      <4> HIDE DEF g
      <4> QED BY <3>4, <4>1
    <3> QED BY <1>1, <3>1, <3>2, <3>3, <3>4
  <2>3. F(g) = [i \in 0..m |-> h(i)] /\ g = [i \in 0..m |-> g[i]]
    OBVIOUS
  <2> HIDE DEF g, h
  <2> QED BY <2>2, <2>3
<1>3. f = F(f)
  <2> HIDE DEF g
  <2> QED BY <1>2
<1> HIDE DEF f
<1>4. f[0] = 0 /\ \A i \in 1..m : f[i] = b * f[i - 1] + DigitValue(t[i])
  <2>1. 0 \in 0..m /\ \A i \in 1..m : i \in 0..m /\ i # 0
    OBVIOUS
  <2> QED BY <1>3, <2>1
<1>5. f[1] = x
  <2>1. f[1] = b * f[1 - 1] + DigitValue(t[1])
    BY <1>4
  <2> QED BY <1>4, <2>1
<1>6. m > 1 => f[2] = p
  <2>1. m > 1 => f[2] = b * f[2 - 1] + DigitValue(t[2])
    BY <1>4
  <2> QED BY <1>5, <2>1
<1>7. m > 2 => f[3] = q
  <2>1. m > 2 => f[3] = b * f[3 - 1] + DigitValue(t[3])
    BY <1>4
  <2> QED BY <1>6, <2>1
<1>8. InBase(t, b) = f[m]
  BY DEF InBase, f
<1> QED BY <1>5, <1>6, <1>7, <1>8

(* One more character.                                                      *)
LEMMA Joined ==
  ASSUME NEW S, NEW p \in Seq(S), NEW c \in S, NEW t, t = p \o <<c>>
  PROVE  /\ t \in Seq(S) /\ Len(p) \in Nat /\ Len(t) = Len(p) + 1
         /\ t[Len(p) + 1] = c /\ \A i \in 1..Len(p) : t[i] = p[i]
OBVIOUS

(* The digits of a number.                                                  *)
LEMMA NumeralIs ==
  ASSUME NEW b \in Bases, NEW n \in 1..MaxRead, NEW p, p = Numeral(n, b)
  PROVE  /\ p \in Seq(Characters) /\ Len(p) \in {1, 2, 3} /\ p[1] # "0"
         /\ \A i \in 1..Len(p) : p[i] \in DigitsOf(b) /\ DigitValue(p[i]) \in Int
         /\ n = IF Len(p) = 1 THEN DigitValue(p[1])
                ELSE IF Len(p) = 2 THEN b * DigitValue(p[1]) + DigitValue(p[2])
                ELSE b * (b * DigitValue(p[1]) + DigitValue(p[2])) + DigitValue(p[3])
<1> DEFINE d(k) == Numerals[(k % b) + 1]
           u == n \div b
           v == n \div (b * b)
<1>1. n \in 1..125 /\ b \in {8, 10, 16}
  BY DEF MaxRead, Bases
<1>2. /\ n % b \in 0..(b - 1) /\ u % b \in 0..(b - 1) /\ v % b \in 0..(b - 1)
      /\ n < b => n % b = n
      /\ n < b * b /\ ~ (n < b) => u % b = u /\ u > 0 /\ b * u + (n % b) = n
      /\ ~ (n < b * b) => /\ v % b = v /\ v > 0
                          /\ b * (b * v + (u % b)) + (n % b) = n
  <2>1. CASE b = 8
    <3>1. /\ n % 8 \in 0..7 /\ (n \div 8) % 8 \in 0..7 /\ (n \div 64) % 8 \in 0..7
          /\ n < 8 => n % 8 = n
          /\ n < 64 /\ ~ (n < 8) => /\ (n \div 8) % 8 = n \div 8 /\ n \div 8 > 0
                                    /\ 8 * (n \div 8) + (n % 8) = n
          /\ ~ (n < 64) => /\ (n \div 64) % 8 = n \div 64 /\ n \div 64 > 0
                           /\ 8 * (8 * (n \div 64) + ((n \div 8) % 8)) + (n % 8) = n
      BY <1>1
    <3>2. b * b = 64 /\ b - 1 = 7
      BY <2>1
    <3> QED BY <2>1, <3>1, <3>2
  <2>2. CASE b = 10
    <3>1. /\ n % 10 \in 0..9 /\ (n \div 10) % 10 \in 0..9 /\ (n \div 100) % 10 \in 0..9
          /\ n < 10 => n % 10 = n
          /\ n < 100 /\ ~ (n < 10) => /\ (n \div 10) % 10 = n \div 10 /\ n \div 10 > 0
                                      /\ 10 * (n \div 10) + (n % 10) = n
          /\ ~ (n < 100) => /\ (n \div 100) % 10 = n \div 100 /\ n \div 100 > 0
                            /\ 10 * (10 * (n \div 100) + ((n \div 10) % 10)) + (n % 10) = n
      BY <1>1
    <3>2. b * b = 100 /\ b - 1 = 9
      BY <2>2
    <3> QED BY <2>2, <3>1, <3>2
  <2>3. CASE b = 16
    BY <1>1, <2>3
  <2> QED BY <1>1, <2>1, <2>2, <2>3
<1>3. \A k \in {n, u, v} : /\ d(k) \in DigitsOf(b) /\ d(k) \in Characters
                           /\ DigitValue(d(k)) = k % b /\ (k % b > 0 => d(k) # "0")
  <2>1. \A k \in {n, u, v} : k % b \in 0..(b - 1) /\ k % b \in 0..15 /\ (k % b) + 1 \in 1..16
    BY <1>1, <1>2
  <2>2. \A k \in {n, u, v} : k % b > 0 => d(k) # "0"
    <3>1. Numerals[1] = "0" /\ 1 \in 1..16
      BY DEF Numerals
    <3>2. \A k \in {n, u, v} : k % b > 0 => (k % b) + 1 # 1
      BY <2>1
    <3> QED BY <2>1, <3>1, <3>2, NumeralsDiffer
  <2> QED BY <2>1, <2>2, NumeralsAre, DigitsAre, DigitIs
<1>4. Numeral(n, b) = IF n < b THEN <<d(n)>> ELSE IF n < b * b THEN <<d(u), d(n)>>
                      ELSE <<d(v), d(u), d(n)>>
  BY DEF Numeral
<1>5. n % b \in Int /\ u % b \in Int /\ v % b \in Int
  BY <1>1, <1>2
<1> HIDE DEF d, u, v
<1>6. CASE n < b
  <2>1. p \in Seq(Characters) /\ Len(p) = 1 /\ p[1] = d(n)
    BY <1>3, <1>4, <1>6
  <2> QED BY <1>1, <1>2, <1>3, <1>5, <1>6, <2>1
<1>7. CASE ~ (n < b) /\ n < b * b
  <2>1. p \in Seq(Characters) /\ Len(p) = 2 /\ p[1] = d(u) /\ p[2] = d(n)
    BY <1>3, <1>4, <1>7
  <2>2. \A i \in 1..Len(p) : i = 1 \/ i = 2
    BY <2>1
  <2> QED BY <1>2, <1>3, <1>5, <1>7, <2>1, <2>2
<1>8. CASE ~ (n < b * b)
  <2>1. ~ (n < b)
    BY <1>1, <1>8
  <2>2. p \in Seq(Characters) /\ Len(p) = 3 /\ p[1] = d(v) /\ p[2] = d(u) /\ p[3] = d(n)
    <3>1. p = <<d(v), d(u), d(n)>>
      BY <1>4, <1>8, <2>1
    <3> QED BY <1>3, <3>1
  <2>3. \A i \in 1..Len(p) : i = 1 \/ i = 2 \/ i = 3
    BY <2>2
  <2> QED BY <1>2, <1>3, <1>5, <1>8, <2>2, <2>3
<1> QED BY <1>6, <1>7, <1>8

(* The numeral of a number reads as that number.                            *)
LEMMA NumeralReads ==
  ASSUME NEW b \in Bases, NEW n \in 1..MaxRead, NEW t, t = Numeral(n, b) \o <<"r">>
  PROVE  /\ InBase(t, b) = n
         /\ t \in Seq(Characters) /\ Len(t) \in {2, 3, 4} /\ Last(t) = "r"
         /\ t[1] \in DigitsOf(b) /\ t[1] # "0"
<1>1. PICK p : p = Numeral(n, b)
  OBVIOUS
<1>2. /\ p \in Seq(Characters) /\ Len(p) \in {1, 2, 3} /\ p[1] # "0"
      /\ \A i \in 1..Len(p) : p[i] \in DigitsOf(b) /\ DigitValue(p[i]) \in Int
      /\ n = IF Len(p) = 1 THEN DigitValue(p[1])
             ELSE IF Len(p) = 2 THEN b * DigitValue(p[1]) + DigitValue(p[2])
             ELSE b * (b * DigitValue(p[1]) + DigitValue(p[2])) + DigitValue(p[3])
  BY <1>1, NumeralIs
<1>r. "r" \in Characters /\ "r" \notin DigitsOf(b)
  BY DigitsAre DEF Characters
<1>3. /\ t \in Seq(Characters) /\ Len(t) = Len(p) + 1
      /\ t[Len(p) + 1] = "r" /\ \A i \in 1..Len(p) : t[i] = p[i]
  BY <1>1, <1>2, <1>r, Joined
<1>4. Len(p) \in Nat /\ 1 \in 1..Len(p) /\ Len(p) < Len(t) /\ Len(t) \in {2, 3, 4}
  <2>1. Len(p) \in {1, 2, 3} /\ Len(t) = Len(p) + 1
    BY <1>2, <1>3
  <2>2. PICK k \in {1, 2, 3} : Len(p) = k /\ Len(t) = k + 1
    BY <2>1
  <2>3. k \in Nat /\ 1 \in 1..k /\ k < k + 1 /\ k + 1 \in {2, 3, 4}
    OBVIOUS
  <2> QED BY <2>2, <2>3
<1>5. Leading(t, b) = Len(p)
  <2>1. \A i \in 1..Len(p) : t[i] \in DigitsOf(b)
    BY <1>2, <1>3
  <2> QED BY <1>3, <1>4, <1>r, <2>1, LeadingIs
<1>6. InBase(t, b) = IF Len(p) = 1 THEN DigitValue(t[1])
                     ELSE IF Len(p) = 2 THEN b * DigitValue(t[1]) + DigitValue(t[2])
                     ELSE b * (b * DigitValue(t[1]) + DigitValue(t[2])) + DigitValue(t[3])
  <2>1. \A i \in 1..Len(p) : DigitValue(t[i]) \in Int
    BY <1>2, <1>3
  <2>2. b \in Int
    BY DEF Bases
  <2> QED BY <1>2, <1>5, <2>1, <2>2, ThreeDigits
<1>7. InBase(t, b) = n
  <2>1. /\ t[1] = p[1] /\ (Len(p) = 2 \/ Len(p) = 3 => t[2] = p[2])
        /\ Len(p) = 3 => t[3] = p[3]
    BY <1>2, <1>3
  <2> QED BY <1>2, <1>6, <2>1
<1> QED BY <1>2, <1>3, <1>4, <1>7 DEF Last

(* strtol of a text that begins with a digit.                               *)
LEMMA StrtolOfDigit ==
  ASSUME NEW t, t \in Seq(Characters), Len(t) > 0, NEW b \in Bases, t[1] \in DigitsOf(b)
  PROVE  strtol(t) = Natural(t)
<1> DEFINE a == Append(t, "other")
           I == {i \in 1..Len(a) : a[i] # " "}
<1>1. t[1] \notin {" ", "-", "+"}
  BY DigitsAre
<1>2. Len(t) \in Nat /\ Len(a) = Len(t) + 1 /\ a[1] = t[1]
  OBVIOUS
<1> HIDE DEF a
<1>3. 1 \in I /\ \A i \in I : 1 <= i /\ i \in Int
  <2>1. 1 \in 1..Len(a) /\ \A i \in 1..Len(a) : 1 <= i /\ i \in Int
    BY <1>2
  <2>2. a[1] # " "
    BY <1>1, <1>2
  <2> QED BY <2>1, <2>2
<1>4. SelectInSeq(a, LAMBDA c : c # " ") = IF I # {} THEN Min(I) ELSE 0
  BY DEF SelectInSeq, Min
<1>5. Min(I) = 1
  <2> HIDE DEF I
  <2>1. \A x \in I : (\A y \in I : x <= y) <=> x = 1
    BY <1>3
  <2> QED BY <1>3, <2>1 DEF Min
<1>6. SelectInSeq(a, LAMBDA c : c # " ") = 1
  BY <1>3, <1>4, <1>5
<1>7. SubSeq(t, 1, Len(t)) = t
  BY <1>2
<1>8. t # << >>
  OBVIOUS
<1> QED BY <1>1, <1>6, <1>7, <1>8 DEF strtol, a

LEMMA DecimalReads ==
  ASSUME NEW t, t \in Seq(Characters), Len(t) > 0, t[1] \in DigitsOf(10), t[1] # "0"
  PROVE  strtol(t) = InBase(t, 10)
<1>1. 10 \in Bases
  BY DEF Bases
<1>2. strtol(t) = Natural(t)
  BY <1>1, StrtolOfDigit
<1> QED BY <1>2 DEF Natural

(* A text behind a prefix.                                                  *)
LEMMA Behind ==
  ASSUME NEW S, NEW s \in Seq(S), Len(s) > 0, NEW a \in S, NEW t, t = <<a>> \o s
  PROVE  /\ t \in Seq(S) /\ Len(t) = Len(s) + 1 /\ t[1] = a /\ Len(s) \in Nat
         /\ \A i \in 1..Len(s) : t[i + 1] = s[i]
         /\ Tail(t) = s
OBVIOUS

LEMMA BehindTwo ==
  ASSUME NEW S, NEW s \in Seq(S), Len(s) > 0, NEW a \in S, NEW b \in S, NEW t, t = <<a, b>> \o s
  PROVE  /\ t \in Seq(S) /\ Len(t) = Len(s) + 2 /\ t[1] = a /\ t[2] = b /\ Len(s) \in Nat
         /\ \A i \in 1..Len(s) : t[i + 2] = s[i]
         /\ SubSeq(t, 3, Len(t)) = s
<1>1. /\ t \in Seq(S) /\ Len(t) = Len(s) + 2 /\ t[1] = a /\ t[2] = b /\ Len(s) \in Nat
      /\ \A i \in 1..Len(s) : t[i + 2] = s[i]
  OBVIOUS
<1> DEFINE q == SubSeq(t, 3, Len(t))
<1>2. q \in Seq(S) /\ Len(q) = Len(s) /\ \A i \in 1..Len(s) : q[i] = s[i]
  <2>1. q \in Seq(S) /\ Len(q) = Len(s)
    BY <1>1
  <2>2. \A i \in 1..Len(s) : q[i] = t[i + 2]
    BY <1>1
  <2> QED BY <1>1, <2>1, <2>2
<1> HIDE DEF q
<1>3. q = s
  BY <1>2
<1> QED BY <1>1, <1>3 DEF q

LEMMA PrefixesAre ==
  /\ "0" \in Characters /\ "x" \in Characters /\ "r" \in Characters
  /\ \A b \in Bases : "0" \in DigitsOf(b)
<1>1. Numerals[0 + 1] = "0" /\ 0 + 1 \in 1..16 /\ \A b \in Bases : 0 \in 0..(b - 1)
  BY DEF Numerals, Bases
<1> QED BY <1>1, NumeralsAre, DigitsAre DEF Characters

LEMMA OctalReads ==
  ASSUME NEW s, s \in Seq(Characters), Len(s) > 0, s[1] \in DigitsOf(8),
         NEW t, t = <<"0">> \o s
  PROVE  strtol(t) = InBase(s, 8) /\ Last(t) = Last(s) /\ Len(t) = Len(s) + 1
<1>1. /\ t \in Seq(Characters) /\ Len(t) = Len(s) + 1 /\ t[1] = "0" /\ Len(s) \in Nat
      /\ \A i \in 1..Len(s) : t[i + 1] = s[i]
      /\ Tail(t) = s
  BY PrefixesAre, Behind
<1>2. /\ 8 \in Bases /\ 1 \in 1..Len(s) /\ Len(s) \in 1..Len(s) /\ Len(t) > 0
      /\ t[1] \in DigitsOf(8)
  BY <1>1, PrefixesAre DEF Bases
<1>3. t[2] # "x"
  <2>1. t[1 + 1] = s[1]
    BY <1>1, <1>2
  <2>2. s[1] # "x"
    BY <1>2, DigitsAre
  <2> QED BY <2>1, <2>2
<1>4. strtol(t) = Natural(t)
  BY <1>1, <1>2, StrtolOfDigit
<1>5. Natural(t) = InBase(s, 8)
  <2>1. t # << >>
    <3>1. Len(<< >>) = 0
      OBVIOUS
    <3> QED BY <1>2, <3>1
  <2> QED BY <1>1, <1>3, <2>1 DEF Natural
<1>6. Last(t) = Last(s)
  BY <1>1, <1>2 DEF Last
<1> QED BY <1>1, <1>4, <1>5, <1>6

LEMMA HexadecimalReads ==
  ASSUME NEW s, s \in Seq(Characters), Len(s) > 0, s[1] \in DigitsOf(16),
         NEW t, t = <<"0", "x">> \o s
  PROVE  strtol(t) = InBase(s, 16) /\ Last(t) = Last(s) /\ Len(t) = Len(s) + 2
<1>1. /\ t \in Seq(Characters) /\ Len(t) = Len(s) + 2 /\ t[1] = "0" /\ t[2] = "x"
      /\ Len(s) \in Nat /\ \A i \in 1..Len(s) : t[i + 2] = s[i]
      /\ SubSeq(t, 3, Len(t)) = s
  BY PrefixesAre, BehindTwo
<1>2. /\ 16 \in Bases /\ 1 \in 1..Len(s) /\ Len(s) \in 1..Len(s) /\ Len(t) > 2
      /\ t[1] \in DigitsOf(16)
  BY <1>1, PrefixesAre DEF Bases
<1>3. t[3] \in DigitsOf(16)
  <2>1. t[1 + 2] = s[1]
    BY <1>1, <1>2
  <2> QED BY <2>1
<1>4. strtol(t) = Natural(t)
  <2>1. Len(t) > 0
    BY <1>1
  <2> QED BY <1>1, <1>2, <2>1, StrtolOfDigit
<1>5. Natural(t) = InBase(s, 16)
  BY <1>1, <1>2, <1>3 DEF Natural
<1>6. Last(t) = Last(s)
  BY <1>1, <1>2 DEF Last
<1> QED BY <1>1, <1>4, <1>5, <1>6

(* The numeral of a number and the r after it, behind what tells its base.  *)
LEMMA NumeralBehind ==
  ASSUME NEW b \in Bases, NEW n \in 1..MaxRead
  PROVE  /\ <<"0">> \o Numeral(n, b) \o <<"r">> = <<"0">> \o (Numeral(n, b) \o <<"r">>)
         /\ <<"0", "x">> \o Numeral(n, b) \o <<"r">> = <<"0", "x">> \o (Numeral(n, b) \o <<"r">>)
<1>1. \A p, q, r : p \in Seq(Characters) /\ q \in Seq(Characters) /\ r \in Seq(Characters)
                     => (p \o q) \o r = p \o (q \o r)
  OBVIOUS
<1>2. Numeral(n, b) \in Seq(Characters)
  BY NumeralIs
<1>3. /\ <<"r">> \in Seq(Characters) /\ <<"0">> \in Seq(Characters)
      /\ <<"0", "x">> \in Seq(Characters)
  BY PrefixesAre
<1> QED BY <1>1, <1>2, <1>3

(* The three ways to write how many registers to read.                      *)
LEMMA SpecificationReads ==
  ASSUME NEW n \in 1..MaxRead
  PROVE  \A t : \/ t = Numeral(n, 10) \o <<"r">>
                \/ t = <<"0">> \o Numeral(n, 8) \o <<"r">>
                \/ t = <<"0", "x">> \o Numeral(n, 16) \o <<"r">>
                => strtol(t) = n /\ Last(t) = "r"
<1>1. SUFFICES ASSUME NEW t
               PROVE  /\ t = Numeral(n, 10) \o <<"r">> => strtol(t) = n /\ Last(t) = "r"
                      /\ t = <<"0">> \o Numeral(n, 8) \o <<"r">> => strtol(t) = n /\ Last(t) = "r"
                      /\ t = <<"0", "x">> \o Numeral(n, 16) \o <<"r">>
                           => strtol(t) = n /\ Last(t) = "r"
  OBVIOUS
<1>2. ASSUME NEW b \in Bases
      PROVE  \E s : /\ s = Numeral(n, b) \o <<"r">>
                    /\ InBase(s, b) = n /\ s \in Seq(Characters) /\ Len(s) > 0
                    /\ Last(s) = "r" /\ s[1] \in DigitsOf(b) /\ s[1] # "0"
  <2>1. PICK s : s = Numeral(n, b) \o <<"r">>
    OBVIOUS
  <2>2. /\ InBase(s, b) = n /\ s \in Seq(Characters) /\ Len(s) \in {2, 3, 4}
        /\ Last(s) = "r" /\ s[1] \in DigitsOf(b) /\ s[1] # "0"
    BY <2>1, NumeralReads
  <2>3. Len(s) > 0
    BY <2>2
  <2> QED BY <2>1, <2>2, <2>3
<1>3. 8 \in Bases /\ 10 \in Bases /\ 16 \in Bases
  BY DEF Bases
<1>4. ASSUME t = Numeral(n, 10) \o <<"r">> PROVE strtol(t) = n /\ Last(t) = "r"
  <2>1. /\ InBase(t, 10) = n /\ t \in Seq(Characters) /\ Len(t) > 0
        /\ Last(t) = "r" /\ t[1] \in DigitsOf(10) /\ t[1] # "0"
    BY <1>2, <1>3, <1>4
  <2> QED BY <2>1, DecimalReads
<1>5. ASSUME t = <<"0">> \o Numeral(n, 8) \o <<"r">> PROVE strtol(t) = n /\ Last(t) = "r"
  <2>1. PICK s : /\ s = Numeral(n, 8) \o <<"r">>
                 /\ InBase(s, 8) = n /\ s \in Seq(Characters) /\ Len(s) > 0
                 /\ Last(s) = "r" /\ s[1] \in DigitsOf(8)
    BY <1>2, <1>3
  <2>2. t = <<"0">> \o s
    BY <1>3, <1>5, <2>1, NumeralBehind
  <2> QED BY <2>1, <2>2, OctalReads
<1>6. ASSUME t = <<"0", "x">> \o Numeral(n, 16) \o <<"r">>
      PROVE  strtol(t) = n /\ Last(t) = "r"
  <2>1. PICK s : /\ s = Numeral(n, 16) \o <<"r">>
                 /\ InBase(s, 16) = n /\ s \in Seq(Characters) /\ Len(s) > 0
                 /\ Last(s) = "r" /\ s[1] \in DigitsOf(16)
    BY <1>2, <1>3
  <2>2. t = <<"0", "x">> \o s
    BY <1>3, <1>6, <2>1, NumeralBehind
  <2> QED BY <2>1, <2>2, HexadecimalReads
<1> QED BY <1>4, <1>5, <1>6

-------------------------------------------------------------------------------
(* The operation that is called.                                            *)

LEMMA ParsedStep ==
  ASSUME CommandInv, Parsed
  PROVE  CommandInv'
<1>1. /\ outcome = "parsing" /\ outcome' = "parsed" /\ operands' \in 0..2
      /\ UNCHANGED <<program, given, mode, options>>
  <2>1. {0} \subseteq 0..2
    OBVIOUS
  <2> QED BY <2>1 DEF Parsed, parsed
<1>2. text' \in Seq(Characters)
  <2>1. text' \in Texts \/ text' = << >>
    BY DEF Parsed
  <2>2. << >> \in Seq(Characters)
    OBVIOUS
  <2> QED BY <2>1, <2>2, CommandLineAssumption DEF Characters
<1>3. /\ \A i, os : LastGiven(i, os)' = LastGiven(i, os)
      /\ \A os : NoneGiven(os)' = NoneGiven(os)
      /\ \A kind : LastLine(kind)' = LastLine(kind)
  BY <1>1 DEF LastGiven, NoneGiven, LastLine
<1>4. Remembered'
  BY <1>1, <1>2, <1>3 DEF CommandInv, Remembered
<1> QED BY <1>1, <1>4 DEF CommandInv, RunsAsAsked, RefusedRightly, Modes

(* What becomes of an operation that opens its line.                        *)
LEMMA LineOpened ==
  ASSUME options.c \in Arguments.c, NEW op \in {"R", "W", "F", "U"}
  PROVE  /\ OnLine(op) \in {op, "usage", "terminated"}
         /\ OnLine(op) = op => options.c = "well_formed"
         /\ OnLine(op) = "usage" => options.c = "malformed"
         /\ OnLine(op) = "terminated" => options.c = "out_of_range"
<1>1. options.c \in {"well_formed", "malformed", "out_of_range"}
  BY DEF Arguments
<1>2. CASE options.c = "well_formed"
  BY <1>2 DEF OnLine
<1>3. CASE options.c = "malformed"
  BY <1>3 DEF OnLine
<1>4. CASE options.c = "out_of_range"
  BY <1>4 DEF OnLine
<1> QED BY <1>1, <1>2, <1>3, <1>4

(* single_read reads what a register specification of the usage says.       *)
LEMMA ReadAsSpecified ==
  ASSUME options.c \in Arguments.c, single_read, outcome' = "R", text' = text
  PROVE  AsSpecified' /\ Complete(2) /\ options.c = "well_formed"
<1>1. Complete(2) /\ Specifies(text) /\ OnLine("R") = "R" /\ read' = Specified(text)
  BY DEF single_read, Call
<1>2. options.c = "well_formed"
  BY <1>1, LineOpened
<1>3. ASSUME NEW n \in {1, 2, 4}, NEW e \in {"l", "b"}, text = Numeral(n, 10) \o <<e>>
      PROVE  read' = [regs |-> n, order |-> IF e = "l" THEN "little" ELSE "big"]
  <2>1. Numeral(n, 10) = <<Numerals[n + 1]>>
    BY DEF Numeral
  <2>2. PICK p : p = <<Numerals[n + 1]>>
    OBVIOUS
  <2>3. p \in Seq(Characters) /\ Len(p) = 1 /\ p[1] = Numerals[n + 1] /\ e \in Characters
    <3>1. n + 1 \in 1..16
      OBVIOUS
    <3>2. Numerals[n + 1] \in Characters
      BY <3>1, NumeralsAre
    <3>3. e \in Characters
      <4>1. Numerals[12] = "b" /\ 12 \in 1..16
        BY DEF Numerals
      <4>2. "b" \in Characters
        BY <4>1, NumeralsAre
      <4> QED BY <4>2 DEF Characters
    <3> HIDE DEF Characters
    <3> QED BY <2>2, <3>2, <3>3
  <2>4. text[1] = Numerals[n + 1] /\ text[2] = e /\ Last(text) = e
    <3>1. text = p \o <<e>>
      BY <1>3, <2>1, <2>2
    <3>2. /\ Len(text) = Len(p) + 1 /\ text[Len(p) + 1] = e
          /\ \A i \in 1..Len(p) : text[i] = p[i]
      BY <2>3, <3>1, Joined
    <3> QED BY <2>3, <3>2 DEF Last
  <2>5. DigitValue(text[1]) = n /\ e # "r"
    BY <2>4, DigitIs
  <2> QED BY <1>1, <2>4, <2>5 DEF Specified
<1>4. ASSUME NEW n \in 1..MaxRead,
             \/ text = Numeral(n, 10) \o <<"r">>
             \/ text = <<"0">> \o Numeral(n, 8) \o <<"r">>
             \/ text = <<"0", "x">> \o Numeral(n, 16) \o <<"r">>
      PROVE  read' = [regs |-> n, order |-> "raw"]
  <2>1. strtol(text) = n /\ Last(text) = "r"
    BY <1>4, SpecificationReads
  <2> QED BY <1>1, <2>1 DEF Specified
<1> QED BY <1>1, <1>2, <1>3, <1>4 DEF AsSpecified

LEMMA ReadRefused ==
  ASSUME options.c \in Arguments.c, single_read, outcome' = "usage"
  PROVE  \/ ~Complete(2) \/ options.c = "malformed"
         \/ /\ \A n \in {"1", "2", "4"}, e \in {"l", "b"} : text # <<n, e>>
            /\ ~ (Len(text) >= 2 /\ Last(text) = "r")
<1>1. SUFFICES ASSUME Complete(2), options.c # "malformed"
               PROVE  /\ \A n \in {"1", "2", "4"}, e \in {"l", "b"} : text # <<n, e>>
                      /\ ~ (Len(text) >= 2 /\ Last(text) = "r")
  OBVIOUS
<1>2. ~Specifies(text)
  <2>1. OnLine("R") # "usage"
    BY <1>1, LineOpened
  <2>2. text = << >> => ~Specifies(text)
    BY DEF Specifies
  <2> QED BY <1>1, <2>1, <2>2 DEF single_read, Call
<1>3. ASSUME NEW n \in {"1", "2", "4"}, NEW e \in {"l", "b"}, text = <<n, e>>
      PROVE  FALSE
  <2>1. Len(text) = 2 /\ Last(text) = e /\ text[1] = n
    BY <1>3 DEF Last
  <2> QED BY <1>2, <2>1 DEF Specifies
<1>4. ~ (Len(text) >= 2 /\ Last(text) = "r")
  BY <1>2 DEF Specifies
<1> QED BY <1>3, <1>4

LEMMA ReadEnds ==
  ASSUME options.c \in Arguments.c, single_read
  PROVE  /\ mode = "R" /\ outcome' \in {"R", "usage", "aborted", "terminated"}
         /\ outcome' = "terminated" => options.c = "out_of_range"
BY LineOpened DEF single_read, Call

LEMMA DispatchEnds ==
  ASSUME Remembered, Dispatch
  PROVE  outcome' # "parsing"
<1>c. options.c \in Arguments.c
  BY DEF Remembered
<1>1. CASE single_read
  BY <1>1, <1>c, ReadEnds
<1>2. CASE single_write
  BY <1>2, <1>c, LineOpened DEF single_write, Call
<1>3. CASE file_transfer
  BY <1>3, <1>c, LineOpened DEF file_transfer, Call
<1>4. CASE flash_update
  BY <1>4, <1>c, LineOpened DEF flash_update, Call
<1>5. CASE measure
  BY <1>5 DEF measure, Call
<1>6. CASE NoMode
  BY <1>6 DEF NoMode, Call
<1> QED BY <1>1, <1>2, <1>3, <1>4, <1>5, <1>6 DEF Dispatch

LEMMA DispatchStep ==
  ASSUME CommandInv, Dispatch
  PROVE  CommandInv'
<1>1. /\ outcome = "parsed"
      /\ UNCHANGED <<program, given, mode, options, operands, text>>
  BY DEF Dispatch, parsed
<1>2. Remembered
  BY DEF CommandInv
<1>3. /\ \A i, os : LastGiven(i, os)' = LastGiven(i, os)
      /\ \A os : NoneGiven(os)' = NoneGiven(os)
      /\ \A kind : LastLine(kind)' = LastLine(kind)
  BY <1>1 DEF LastGiven, NoneGiven, LastLine
<1>4. Remembered'
  BY <1>1, <1>2, <1>3 DEF Remembered
<1>5. /\ options.s \in Int
      /\ \/ NoneGiven({"s"}) /\ options.s = -1
         \/ \E i \in DOMAIN given : LastGiven(i, {"s"}) /\ given[i].arg = options.s
      /\ options.c \in Arguments.c
      /\ (NoneGiven({"c"}) /\ options.c = "well_formed") \/ LastLine(options.c)
  BY <1>1, <1>2 DEF Remembered
<1>6. ASSUME outcome' \in Modes, outcome' = mode,
             mode # "m" => options.s >= 0 /\ options.c = "well_formed",
             mode = "R" => AsSpecified'
      PROVE  RunsAsAsked' /\ RefusedRightly'
  <2>1. \E i \in DOMAIN given : LastGiven(i, Modes) /\ given[i].opt = mode
    <3>1. mode # "unknown"
      BY <1>6 DEF Modes
    <3> QED BY <1>2, <3>1 DEF Remembered
  <2>2. \A i \in DOMAIN given :
          /\ given[i].opt \notin {"?", "h"}
          /\ given[i].opt \in NumberOptions[program] => given[i].arg # NaN
    BY <1>1, <1>2 DEF Remembered
  <2>3. mode # "m" => \E i \in DOMAIN given : LastGiven(i, {"s"}) /\ given[i].arg >= 0
    BY <1>5, <1>6
  <2>4. outcome' \notin {"usage", "terminated"}
    BY <1>6 DEF Modes
  <2>5. mode # "m" => NoneGiven({"c"}) \/ LastLine("well_formed")
    BY <1>5, <1>6
  <2> QED BY <1>1, <1>3, <1>6, <2>1, <2>2, <2>3, <2>4, <2>5 DEF RunsAsAsked, RefusedRightly
<1>7. ASSUME outcome' = "usage", NEW i \in DOMAIN given,
             LastGiven(i, Modes), given[i].opt = mode,
             \/ mode # "m" /\ options.s < 0
             \/ mode # "m" /\ operands = 0
             \/ mode # "m" /\ options.c = "malformed"
             \/ mode = "m" /\ given[i].arg = ""
             \/ mode \in {"R", "W", "F"} /\ operands < 2
             \/ mode = "W" /\ strtol(text) \notin 0..MaxValue
             \/ /\ mode = "R"
                /\ \A n \in {"1", "2", "4"}, e \in {"l", "b"} : text # <<n, e>>
                /\ ~ (Len(text) >= 2 /\ Last(text) = "r")
      PROVE  RunsAsAsked' /\ RefusedRightly'
  <2>1. options.s < 0 =>
          NoneGiven({"s"}) \/ \E j \in DOMAIN given : LastGiven(j, {"s"}) /\ given[j].arg < 0
    BY <1>5
  <2>2. outcome' \notin Modes /\ outcome' # "terminated"
    BY <1>7 DEF Modes
  <2>3. options.c = "malformed" => LastLine("malformed")
    BY <1>5
  <2> QED BY <1>1, <1>3, <1>7, <2>1, <2>2, <2>3 DEF RunsAsAsked, RefusedRightly
<1>t. ASSUME outcome' = "terminated", mode # "unknown", mode # "m",
             options.c = "out_of_range" \/ mode = "F"
      PROVE  RunsAsAsked' /\ RefusedRightly'
  <2>1. \E i \in DOMAIN given : LastGiven(i, Modes) /\ given[i].opt = mode
    BY <1>2, <1>t DEF Remembered
  <2>2. outcome' \notin Modes /\ outcome' # "usage"
    BY <1>t DEF Modes
  <2>3. options.c = "out_of_range" => LastLine("out_of_range")
    BY <1>5
  <2> QED BY <1>1, <1>3, <1>t, <2>1, <2>2, <2>3 DEF RunsAsAsked, RefusedRightly
<1>8. mode # "unknown" => \E i \in DOMAIN given :
                            /\ LastGiven(i, Modes) /\ given[i].opt = mode
                            /\ mode = "m" => given[i].arg = options.m
  BY <1>2 DEF Remembered
<1>c. /\ Complete(2) <=> options.s >= 0 /\ operands >= 2
      /\ Complete(1) <=> options.s >= 0 /\ operands >= 1
      /\ operands \in 0..2 /\ text \in Seq(Characters)
  BY <1>2 DEF Complete, Remembered
<1>n. /\ ~ (options.s >= 0) => options.s < 0
      /\ ~ (operands >= 2) => operands < 2
      /\ ~ (operands >= 1) => operands = 0
  BY <1>5, <1>c
<1>9. CASE single_read
  <2>1. /\ mode = "R" /\ outcome' \in {"R", "usage", "aborted", "terminated"}
        /\ outcome' = "terminated" => options.c = "out_of_range"
    BY <1>5, <1>9, ReadEnds
  <2>2. CASE outcome' = "R"
    <3>1. AsSpecified' /\ Complete(2) /\ options.c = "well_formed"
      BY <1>1, <1>5, <1>9, <2>2, ReadAsSpecified
    <3> QED BY <1>4, <1>6, <1>c, <2>1, <2>2, <3>1 DEF CommandInv, Modes
  <2>3. CASE outcome' = "usage"
    <3>1. \/ ~Complete(2) \/ options.c = "malformed"
          \/ /\ \A n \in {"1", "2", "4"}, e \in {"l", "b"} : text # <<n, e>>
             /\ ~ (Len(text) >= 2 /\ Last(text) = "r")
      BY <1>5, <1>9, <2>3, ReadRefused
    <3> QED BY <1>4, <1>7, <1>8, <1>c, <1>n, <2>1, <2>3, <3>1 DEF CommandInv
  <2>4. CASE outcome' = "aborted"
    BY <1>4, <2>4 DEF CommandInv, RunsAsAsked, RefusedRightly, Modes
  <2>5. CASE outcome' = "terminated"
    BY <1>4, <1>t, <2>1, <2>5 DEF CommandInv
  <2> QED BY <2>1, <2>2, <2>3, <2>4, <2>5
(* What an operation whose parameters are right comes to. *)
<1>l. ASSUME NEW op \in {"W", "F", "U"}, mode = op, outcome' = OnLine(op), options.s >= 0
      PROVE  CommandInv'
  <2>1. /\ OnLine(op) \in {op, "usage", "terminated"}
        /\ OnLine(op) = op => options.c = "well_formed"
        /\ OnLine(op) = "usage" => options.c = "malformed"
        /\ OnLine(op) = "terminated" => options.c = "out_of_range"
    BY <1>5, LineOpened
  <2>2. CASE outcome' = op
    BY <1>4, <1>6, <1>l, <2>1, <2>2 DEF CommandInv, Modes
  <2>3. CASE outcome' = "usage"
    BY <1>4, <1>7, <1>8, <1>l, <2>1, <2>3 DEF CommandInv
  <2>4. CASE outcome' = "terminated"
    BY <1>4, <1>t, <1>l, <2>1, <2>4 DEF CommandInv
  <2> QED BY <1>l, <2>1, <2>2, <2>3, <2>4
<1>10. CASE single_write
  <2>1. mode = "W"
    BY <1>10 DEF single_write
  <2>2. CASE Complete(2) /\ strtol(text) \in 0..MaxValue
    <3>1. outcome' = OnLine("W")
      BY <1>10, <2>2 DEF single_write, Call
    <3> QED BY <1>c, <1>l, <2>1, <2>2, <3>1
  <2>3. CASE ~ (Complete(2) /\ strtol(text) \in 0..MaxValue)
    <3>1. outcome' = "usage"
      BY <1>10, <2>3 DEF single_write, Call
    <3> QED BY <1>4, <1>7, <1>8, <1>c, <1>n, <2>1, <2>3, <3>1 DEF CommandInv
  <2> QED BY <2>2, <2>3
<1>11. CASE file_transfer
  <2>1. mode = "F"
    BY <1>11 DEF file_transfer
  <2>2. CASE Complete(2)
    <3>1. outcome' = "terminated" \/ outcome' = OnLine("F")
      BY <1>11, <2>2 DEF file_transfer, Call
    <3>2. CASE outcome' = "terminated"
      BY <1>4, <1>t, <2>1, <3>2 DEF CommandInv
    <3> QED BY <1>c, <1>l, <2>1, <2>2, <3>1, <3>2
  <2>3. CASE ~Complete(2)
    <3>1. outcome' = "usage"
      BY <1>11, <2>3 DEF file_transfer, Call
    <3> QED BY <1>4, <1>7, <1>8, <1>c, <1>n, <2>1, <2>3, <3>1 DEF CommandInv
  <2> QED BY <2>2, <2>3
<1>12. CASE flash_update
  <2>1. mode = "U" /\ outcome' = IF Complete(1) THEN OnLine("U") ELSE "usage"
    BY <1>12 DEF flash_update, Call
  <2>2. CASE Complete(1)
    BY <1>c, <1>l, <2>1, <2>2
  <2>3. CASE ~Complete(1)
    BY <1>4, <1>7, <1>8, <1>c, <1>n, <2>1, <2>3 DEF CommandInv
  <2> QED BY <2>2, <2>3
<1>13. CASE measure
  <2>1. mode = "m" /\ outcome' = IF options.m = "" THEN "usage" ELSE "m"
    BY <1>13 DEF measure, Call
  <2>2. CASE options.m = ""
    BY <1>4, <1>7, <1>8, <2>1, <2>2 DEF CommandInv
  <2>3. CASE options.m # ""
    BY <1>4, <1>6, <2>1, <2>3 DEF CommandInv, Modes
  <2> QED BY <2>2, <2>3
<1>14. CASE NoMode
  <2>1. mode = "unknown" /\ outcome' = "usage"
    BY <1>14 DEF NoMode, Call
  <2>2. NoneGiven(Modes)
    BY <1>2, <2>1 DEF Remembered
  <2> QED BY <1>3, <1>4, <2>1, <2>2 DEF CommandInv, RunsAsAsked, RefusedRightly, Modes
<1> QED BY <1>9, <1>10, <1>11, <1>12, <1>13, <1>14 DEF Dispatch

LEMMA CommandStart ==
  ASSUME Init
  PROVE  CommandInv
<1>1. /\ DOMAIN options = Letters /\ options.s = -1
      /\ options.c = "well_formed" /\ options.c \in Arguments.c
  BY DEF Init, Letters, Arguments
<1>2. given \in Seq(ToSet(given)) /\ DOMAIN given = {} /\ text \in Seq(Characters)
  <2>1. given = << >> /\ text = << >>
    BY DEF Init
  <2>2. \A S : << >> \in Seq(S)
    OBVIOUS
  <2>3. DOMAIN << >> = {}
    OBVIOUS
  <2> QED BY <2>1, <2>2, <2>3
<1>3. NoneGiven(Modes) /\ NoneGiven({"s"}) /\ NoneGiven({"c"})
  BY <1>2 DEF NoneGiven
<1>4. operands \in 0..2 /\ options.s \in Int
  <2>1. operands = 0
    BY DEF Init
  <2> QED BY <1>1, <2>1
<1>5. program \in {"crawler", "pwrmeter_client"} /\ mode = "unknown" /\ outcome = "parsing"
  BY DEF Init
<1>6. Remembered
  BY <1>1, <1>2, <1>3, <1>4, <1>5 DEF Remembered
<1> QED BY <1>5, <1>6 DEF CommandInv, RunsAsAsked, RefusedRightly, Modes

LEMMA CommandStep ==
  ASSUME CommandInv, [LoggingNext]_<<vars, log_vars>>
  PROVE  CommandInv'
<1>1. CASE UNCHANGED vars
  <2>1. UNCHANGED <<program, given, mode, options, operands, text, outcome, read>>
    BY <1>1 DEF vars, parsed
  <2>2. /\ \A i, os : LastGiven(i, os)' = LastGiven(i, os)
        /\ \A os : NoneGiven(os)' = NoneGiven(os)
        /\ \A kind : LastLine(kind)' = LastLine(kind)
        /\ AsSpecified' = AsSpecified
    BY <2>1 DEF LastGiven, NoneGiven, LastLine, AsSpecified
  <2>3. Remembered'
    BY <2>1, <2>2 DEF CommandInv, Remembered
  <2>4. RunsAsAsked'
    BY <2>1, <2>2 DEF CommandInv, RunsAsAsked
  <2>5. RefusedRightly'
    BY <2>1, <2>2 DEF CommandInv, RefusedRightly
  <2> QED BY <2>3, <2>4, <2>5 DEF CommandInv
<1>2. CASE Options
  BY <1>2, OptionsStep
<1>3. CASE Dispatch
  BY <1>3, DispatchStep
<1>4. CASE Parsed
  BY <1>4, ParsedStep
<1>5. CASE Log \/ Rotate
  BY <1>1, <1>5 DEF Log, Rotate
<1> QED BY <1>1, <1>2, <1>3, <1>4, <1>5 DEF LoggingNext, OptionsEnd

-------------------------------------------------------------------------------
(* The names in turn.                                                       *)

LEMMA Remainder ==
  ASSUME NEW a \in Nat
  PROVE  /\ a % num_rotated_files \in 0..(num_rotated_files - 1)
         /\ a % num_rotated_files \in Names
         /\ a % num_rotated_files \notin {log_file, unopened}
         /\ a < num_rotated_files => a % num_rotated_files = a
<1>1. num_rotated_files \in Nat \ {0}
  BY LoggingAssumption DEF LoggingAssumption
<1>2. /\ a % num_rotated_files \in 0..(num_rotated_files - 1)
      /\ a < num_rotated_files => a % num_rotated_files = a
  BY <1>1, SMT
<1> QED BY <1>1, <1>2 DEF Names, log_file, unopened

LEMMA InTurn ==
  ASSUME NEW a \in Nat, NEW b \in Nat
  PROVE  /\ b < a /\ a - b < num_rotated_files =>
              a % num_rotated_files # b % num_rotated_files
         /\ a = b + num_rotated_files =>
              a % num_rotated_files = b % num_rotated_files
<1>1. \A n \in Nat \ {0} : /\ a \div n \in Nat /\ a % n \in Nat /\ a % n < n
                           /\ a = (a \div n) * n + (a % n)
                           /\ b \div n \in Nat /\ b % n \in Nat /\ b % n < n
                           /\ b = (b \div n) * n + (b % n)
  BY SMT
<1>2. \A n \in Nat \ {0} : \A x, y \in Int : x > y => x * n >= y * n + n
  <2>1. \A n \in Nat \ {0} : \A d, y \in Int : d >= 1 => (y + d) * n >= y * n + n
    <3>1. \A n \in Nat \ {0} : \A d, y \in Int : d >= 1 => d * n >= n
      BY SMT
    <3>2. \A n \in Nat \ {0} : \A d, y \in Int : (y + d) * n = y * n + d * n
      BY SMT
    <3>3. \A n \in Nat \ {0} : \A y \in Int : y * n \in Int
      BY SMT
    <3> QED BY <3>1, <3>2, <3>3
  <2>2. SUFFICES ASSUME NEW n \in Nat \ {0}, NEW x \in Int, NEW y \in Int, x > y
                 PROVE  x * n >= y * n + n
    OBVIOUS
  <2>3. x = y + (x - y) /\ x - y \in Int /\ x - y >= 1
    BY <2>2

  <2> QED BY <2>1, <2>3
<1> DEFINE n == num_rotated_files
<1>n. n \in Nat \ {0}
  BY LoggingAssumption
<1> HIDE DEF n
<1>3. PICK p, q, r, s \in Int :
        /\ p = a \div n /\ q = b \div n /\ r = a % n /\ s = b % n
        /\ a = p * n + r /\ b = q * n + s
        /\ 0 <= r /\ r < n /\ 0 <= s /\ s < n
  <2>1. /\ a \div n \in Nat /\ a % n \in Nat /\ a % n < n
        /\ a = (a \div n) * n + (a % n)
        /\ b \div n \in Nat /\ b % n \in Nat /\ b % n < n
        /\ b = (b \div n) * n + (b % n)
    BY <1>1, <1>n
  <2> DEFINE p == a \div n
             q == b \div n
             r == a % n
             s == b % n
  <2>2. /\ a = p * n + r /\ b = q * n + s /\ r < n /\ s < n
        /\ p \in Nat /\ q \in Nat /\ r \in Nat /\ s \in Nat
    BY <2>1
  <2> HIDE DEF p, q, r, s
  <2>3. /\ p \in Int /\ q \in Int /\ r \in Int /\ s \in Int /\ 0 <= r /\ 0 <= s
    BY <2>2
  <2>4. p = a \div n /\ q = b \div n /\ r = a % n /\ s = b % n
    BY DEF p, q, r, s
  <2> QED BY <2>2, <2>3, <2>4
<1>4. PICK pn, qn \in Int : /\ pn = p * n /\ qn = q * n
                            /\ a = pn + r /\ b = qn + s
  <2>1. p * n \in Int /\ q * n \in Int
    BY <1>3, <1>n, SMT
  <2>2. \E pn \in Int : pn = p * n
    BY <2>1
  <2>3. \E qn \in Int : qn = q * n
    BY <2>1
  <2> QED BY <1>3, <2>2, <2>3
<1>5. /\ p > q => pn >= qn + n
      /\ q > p => qn >= pn + n
      /\ p = q => pn = qn
  BY <1>2, <1>4, <1>n
<1>6. p > q \/ q > p \/ p = q
  OBVIOUS
<1>7. b < a /\ a - b < n => r # s
  BY <1>3, <1>4, <1>5, <1>6, <1>n
<1>8. a = b + n => r = s
  <2>1. SUFFICES ASSUME a = b + n PROVE r = s
    OBVIOUS
  <2>2. p > q
    BY <1>3, <1>4, <1>5, <1>6, <1>n, <2>1
  <2>3. ~ (p > q + 1)
    <3>1. SUFFICES ASSUME p > q + 1 PROVE FALSE
      OBVIOUS
    <3>2. PICK m \in Int : m = (q + 1) * n /\ m = qn + n
      BY <1>4, <1>n, SMT
    <3>3. pn >= m + n
      BY <1>2, <1>4, <1>n, <3>1, <3>2
    <3> QED BY <1>3, <1>4, <1>n, <2>1, <3>2, <3>3
  <2>4. p = q + 1
    BY <2>2, <2>3
  <2>5. pn = qn + n
    BY <1>4, <1>n, <2>4, SMT
  <2> QED BY <1>3, <1>4, <1>n, <2>1, <2>5
<1> QED BY <1>3, <1>7, <1>8 DEF n
-------------------------------------------------------------------------------
(* A line of the log.                                                       *)

LEMMA NamesAre ==
  /\ log_file \in Names /\ unopened \notin Names /\ log_file # unopened
  /\ \A n \in Names : n = log_file \/ n \in 0..(num_rotated_files - 1)
  /\ \A n \in 0..(num_rotated_files - 1) : n \in Names /\ n # log_file /\ n # unopened
BY LoggingAssumption DEF Names, log_file, unopened

(* A line is added to the file that it goes to, and to no other.            *)
LEMMA LineLogged ==
  ASSUME LogInv, open # unopened, NEW looks \in BOOLEAN,
         NEW o, o = Opened(looks), NEW D, D = Logged(looks)
  PROVE  /\ o \in Names /\ D \in [Names -> SUBSET Nat]
         /\ lines + 1 \in D[o]
         /\ \A n \in Names : n # o /\ n # log_file => D[n] = disk[n]
         /\ \A n \in Names : \A line \in D[n] : line \in disk[n] \/ line = lines + 1
         /\ \A n \in Names : \A line \in disk[n] : line # 0 => line \in D[n]
         /\ looks \/ looked => o = log_file
         /\ o # log_file => progr > 0 /\ o = (progr - 1) % num_rotated_files
<1>1. /\ lines \in Nat /\ progr \in Nat /\ disk \in [Names -> SUBSET Nat]
      /\ \/ open = log_file
         \/ progr > 0 /\ open = (progr - 1) % num_rotated_files
      /\ looked => open = log_file
  BY DEF LogInv, Counted, Opens
<1>2. open \in Names
  <2>1. CASE open = log_file
    BY <2>1, NamesAre
  <2>2. CASE progr > 0 /\ open = (progr - 1) % num_rotated_files
    <3>1. progr - 1 \in Nat
      BY <1>1, <2>2
    <3> QED BY <2>2, <3>1, Remainder
  <2> QED BY <1>1, <2>1, <2>2
<1>3. /\ o \in Names
      /\ looks \/ looked => o = log_file
      /\ o # log_file => progr > 0 /\ o = (progr - 1) % num_rotated_files
  BY <1>1, <1>2, NamesAre DEF Opened
<1> DEFINE R == IF looks /\ disk[log_file] = None THEN [disk EXCEPT ![log_file] = {}]
                ELSE disk
<1>4. /\ R \in [Names -> SUBSET Nat]
      /\ \A n \in Names : n # log_file => R[n] = disk[n]
      /\ \A n \in Names : R[n] \subseteq disk[n]
      /\ \A n \in Names : \A line \in disk[n] : line # 0 => line \in R[n]
  <2>1. CASE looks /\ disk[log_file] = None
    <3>1. R = [disk EXCEPT ![log_file] = {}]
      BY <2>1
    <3> HIDE DEF R
    <3>2. R \in [Names -> SUBSET Nat]
      BY <1>1, <3>1
    <3>3. R[log_file] = {} /\ \A n \in Names : n # log_file => R[n] = disk[n]
      BY <1>1, <3>1, NamesAre
    <3> QED BY <2>1, <3>2, <3>3 DEF None
  <2>2. CASE ~ (looks /\ disk[log_file] = None)
    BY <1>1, <2>2
  <2> QED BY <2>1, <2>2
<1>5. D = [n \in Names |-> IF n = o THEN R[n] \cup {lines + 1} ELSE R[n]]
  BY DEF Logged
<1> HIDE DEF R
<1>6. lines + 1 \in Nat
  BY <1>1
<1>7. D \in [Names -> SUBSET Nat]
  BY <1>4, <1>5, <1>6
<1>8. \A n \in Names : D[n] = IF n = o THEN R[n] \cup {lines + 1} ELSE R[n]
  BY <1>5
<1> QED BY <1>3, <1>4, <1>7, <1>8

-------------------------------------------------------------------------------
(* Steps that log nothing.                                                  *)

LEMMA LogFrame ==
  ASSUME LogInv, UNCHANGED log_vars, outcome' = "parsing" => outcome = "parsing",
         options' = options \/ outcome = "parsing"
  PROVE  LogInv'
<1>1. LogInv /\ UNCHANGED <<link, refused, progr, disk, open, looked, rested, lines, rotated>>
  BY DEF log_vars
<1>2. Counted' /\ Opens' /\ Closed' /\ LinesKept'
  BY <1>1 DEF LogInv, Counted, Opens, Closed, LinesKept
<1>3. CASE outcome = "parsing"
  <2>1. open = unopened /\ lines = 0 /\ Untouched'
    BY <1>1, <1>3 DEF LogInv, Created, Untouched
  <2> QED BY <1>1, <1>2, <2>1 DEF LogInv, Created, CurrentLog
<1>4. CASE options' = options /\ outcome' # "parsing"
  BY <1>1, <1>2, <1>4 DEF LogInv, Created, CurrentLog, Target
<1> QED BY <1>3, <1>4

LEMMA CreateStep ==
  ASSUME LogInv, OptionsEnd
  PROVE  LogInv'
<1>1. outcome = "parsing" /\ outcome' = "parsed" /\ options' = options
  BY DEF OptionsEnd, Parsed, parsed
<1>2. CASE UNCHANGED log_vars
  BY <1>1, <1>2, LogFrame
<1>3. CASE CreateLog
  <2>1. PICK added \in BOOLEAN, unlinked \in BOOLEAN, done \in BOOLEAN :
          /\ link' = Linked(unlinked, done)
          /\ refused' = ~(added /\ Free(unlinked) /\ done)
          /\ open' = IF added THEN log_file ELSE unopened
          /\ disk' = [disk EXCEPT ![log_file] = IF added THEN {} ELSE None]
    BY <1>3 DEF CreateLog
  <2>2. UNCHANGED <<progr, looked, rested, lines, rotated>>
    BY <1>3 DEF CreateLog
  <2>3. lines = 0 /\ progr = 0 /\ \A n \in Names : disk[n] = None
    BY <1>1 DEF LogInv, Created, Untouched
  <2>4. Counted /\ Opens
    BY DEF LogInv
  <2>5. /\ disk' \in [Names -> SUBSET Nat]
        /\ \A n \in Names : disk'[n] \subseteq None
    <3>1. disk \in [Names -> SUBSET Nat]
      BY <2>4 DEF Counted
    <3>2. {} \in SUBSET Nat /\ None \in SUBSET Nat /\ {} \subseteq None
      BY DEF None
    <3> HIDE DEF None
    <3> QED BY <2>1, <2>3, <3>1, <3>2
  <2>6. Counted'
    <3>1. \A n \in Names : \A line \in disk'[n] : line <= lines'
      BY <2>2, <2>3, <2>5 DEF None
    <3> QED BY <2>2, <2>4, <2>5, <3>1 DEF Counted
  <2>7. Opens'
    BY <2>1, <2>2, <2>4 DEF Opens
  <2>8. Closed'
    <3>1. 0..(progr' - 2) = {}
      BY <2>2, <2>3
    <3> QED BY <2>5, <3>1, NamesAre DEF Closed
  <2>9. Created'
    <3>1. ~ (lines' > 0) /\ outcome' # "parsing"
      BY <1>1, <2>2, <2>3
    <3>2. ~refused' => link' = Target
      BY <2>1 DEF Linked
    <3>3. Target' = Target
      BY <1>1 DEF Target
    <3> QED BY <3>1, <3>2, <3>3 DEF Created
  <2>10. LinesKept' /\ CurrentLog'
    <3>1. lines' = 0 /\ 1..lines' = {}
      BY <2>2, <2>3
    <3> QED BY <3>1 DEF LinesKept, CurrentLog
  <2> QED BY <2>6, <2>7, <2>8, <2>9, <2>10 DEF LogInv
<1> QED BY <1>2, <1>3 DEF OptionsEnd

-------------------------------------------------------------------------------
LEMMA LogStep ==
  ASSUME LogInv, Log
  PROVE  LogInv'
<1>1. /\ outcome = "m" /\ open # unopened /\ lines' = lines + 1
      /\ UNCHANGED <<outcome, options, link, refused, progr, rotated>>
  BY DEF Log, Measuring, vars, parsed
<1>2. PICK looks \in BOOLEAN :
        /\ rested' \in BOOLEAN
        /\ rested' /\ ~looked => looks
        /\ disk' = Logged(looks) /\ open' = Opened(looks)
        /\ looked' = (looked \/ looks)
  <2>1. PICK passed \in BOOLEAN :
          /\ rested' = (rested \/ passed)
          /\ \E looks \in Looks(rested') :
               /\ disk' = Logged(looks) /\ open' = Opened(looks)
               /\ looked' = (looked \/ looks)
    BY DEF Log
  <2>2. rested \in BOOLEAN
    BY DEF LogInv, Opens
  <2> QED BY <2>1, <2>2 DEF Looks
<1>3. Counted /\ Opens /\ Closed /\ Created /\ LinesKept
  BY DEF LogInv
<1>4. /\ lines \in Nat /\ progr \in Nat /\ rotated \in Seq(Nat) /\ Len(rotated) = progr
      /\ num_rotated_files \in Nat \ {0} /\ looked \in BOOLEAN
  BY <1>3, LoggingAssumption DEF Counted, Opens
<1>5. /\ open' \in Names /\ disk' \in [Names -> SUBSET Nat]
      /\ lines + 1 \in disk'[open']
      /\ \A n \in Names : n # open' /\ n # log_file => disk'[n] = disk[n]
      /\ \A n \in Names : \A line \in disk'[n] : line \in disk[n] \/ line = lines + 1
      /\ \A n \in Names : \A line \in disk[n] : line # 0 => line \in disk'[n]
      /\ looks \/ looked => open' = log_file
      /\ open' # log_file => progr > 0 /\ open' = (progr - 1) % num_rotated_files
  BY <1>1, <1>2, LineLogged
<1>6. Counted'
  <2>1. \A n \in Names : \A line \in disk'[n] : line <= lines'
    <3>1. \A n \in Names : \A line \in disk[n] : line \in Nat /\ line <= lines
      BY <1>3 DEF Counted
    <3> QED BY <1>1, <1>4, <1>5, <3>1
  <2>2. \A i \in 1..progr : 1 <= rotated[i] /\ rotated[i] <= lines'
    <3>1. \A i \in 1..progr : rotated[i] \in Nat /\ 1 <= rotated[i] /\ rotated[i] <= lines
      BY <1>3, <1>4 DEF Counted
    <3> QED BY <1>1, <1>4, <3>1
  <2>3. lines' \in Nat
    BY <1>1, <1>4
  <2> QED BY <1>1, <1>3, <1>5, <2>1, <2>2, <2>3 DEF Counted
<1>7. Opens'
  <2>1. \/ open' \in {unopened, log_file}
        \/ progr' > 0 /\ open' = (progr' - 1) % num_rotated_files
    <3>1. progr' = progr
      BY <1>1
    <3> QED BY <1>5, <3>1
  <2>2. looked' \in BOOLEAN
    BY <1>2, <1>4, Zenon
  <2>3. looked' => open' = log_file
    BY <1>2, <1>5, Zenon
  <2>4. rested' \in BOOLEAN
    BY <1>2, Zenon
  <2> QED BY <2>1, <2>2, <2>3, <2>4 DEF Opens
<1>8. Closed'
  <2>1. ASSUME NEW j \in 0..(progr - 2), j >= progr - num_rotated_files
        PROVE  disk'[j % num_rotated_files] = disk[j % num_rotated_files]
    <3>1. j \in Nat /\ j % num_rotated_files \in Names /\ j % num_rotated_files # log_file
      <4>1. j \in Nat
        BY <2>1
      <4> QED BY <4>1, Remainder
    <3>2. open' # j % num_rotated_files
      <4>1. SUFFICES ASSUME open' # log_file PROVE open' # j % num_rotated_files
        BY <3>1
      <4>2. progr - 1 \in Nat /\ j < progr - 1 /\ (progr - 1) - j < num_rotated_files
        BY <1>4, <2>1, <3>1
      <4>3. (progr - 1) % num_rotated_files # j % num_rotated_files
        BY <3>1, <4>2, InTurn
      <4> QED BY <1>5, <4>1, <4>3
    <3> QED BY <1>5, <3>1, <3>2
  <2>2. ASSUME NEW n \in 0..(num_rotated_files - 1), n >= progr
        PROVE  disk'[n] = disk[n]
    <3>1. n \in Nat /\ n \in Names /\ n # log_file /\ n < num_rotated_files
      BY <1>4, NamesAre
    <3>2. open' # n
      <4>1. SUFFICES ASSUME open' # log_file PROVE open' # n
        BY <3>1
      <4>2. progr > 0 /\ open' = (progr - 1) % num_rotated_files
        BY <1>5, <4>1
      <4>3. progr - 1 \in Nat /\ progr - 1 < n /\ n - (progr - 1) < num_rotated_files
        BY <1>4, <2>2, <3>1, <4>2
      <4>4. n % num_rotated_files # (progr - 1) % num_rotated_files
        BY <3>1, <4>3, InTurn
      <4>5. n % num_rotated_files = n
        BY <3>1, Remainder
      <4> QED BY <4>2, <4>4, <4>5
    <3> QED BY <1>5, <3>1, <3>2
  <2> QED BY <1>1, <1>3, <2>1, <2>2 DEF Closed
<1>9. Created'
  <2>1. open' # unopened
    BY <1>5, NamesAre
  <2> QED BY <1>1, <1>3, <2>1 DEF Created, Target
<1>10. LinesKept'
  <2> DEFINE first == progr - num_rotated_files + 1
  <2>1. SUFFICES ASSUME NEW line \in 1..(lines + 1), first <= 1 \/ line > rotated[first]
                 PROVE  \E n \in Names : line \in disk'[n]
    BY <1>1 DEF LinesKept
  <2>2. CASE line = lines + 1
    BY <1>5, <2>2
  <2>3. CASE line # lines + 1
    <3>1. line \in 1..lines /\ line # 0
      BY <1>4, <2>3
    <3>2. PICK n \in Names : line \in disk[n]
      BY <1>3, <2>1, <3>1 DEF LinesKept
    <3> QED BY <1>5, <3>1, <3>2
  <2> QED BY <2>2, <2>3
<1>11. CurrentLog'
  <2>1. SUFFICES ASSUME rested', ~refused
                 PROVE  link = Target /\ lines + 1 \in disk'[log_file]
    BY <1>1 DEF CurrentLog, Target
  <2>2. open' = log_file
    BY <1>2, <1>5, <2>1
  <2> QED BY <1>1, <1>3, <1>5, <2>1, <2>2 DEF Created
<1> QED BY <1>6, <1>7, <1>8, <1>9, <1>10, <1>11 DEF LogInv
-------------------------------------------------------------------------------
(* The file that a rotation overwrites is the one that was renamed longest  *)
(* ago: what it holds may be given up.                                      *)
LEMMA Overwritten ==
  ASSUME LogInv, NEW line \in disk[newname], line # 0,
         NEW first, first = progr - num_rotated_files + 2
  PROVE  1 < first /\ (first <= progr => line <= rotated[first])
<1>1. /\ progr \in Nat /\ num_rotated_files \in Nat \ {0}
      /\ Closed
  BY LoggingAssumption DEF LogInv, Counted
<1>2. ~ (progr < num_rotated_files)
  <2>1. SUFFICES ASSUME progr < num_rotated_files PROVE FALSE
    OBVIOUS
  <2>2. newname = progr /\ progr \in 0..(num_rotated_files - 1)
    BY <1>1, <2>1, Remainder DEF newname
  <2>3. disk[progr] \subseteq None
    BY <1>1, <2>2 DEF Closed
  <2> QED BY <2>2, <2>3 DEF None
<1>3. 1 < first
  BY <1>1, <1>2
<1>4. ASSUME first <= progr PROVE line <= rotated[first]
  <2>1. PICK j \in Nat : j = progr - num_rotated_files
    BY <1>1, <1>2
  <2>2. /\ progr = j + num_rotated_files /\ first = j + 2
        /\ j \in 0..(progr - 2) /\ j >= progr - num_rotated_files
    BY <1>1, <1>4, <2>1
  <2>3. newname = j % num_rotated_files
    BY <1>1, <2>2, InTurn DEF newname
  <2>4. \A l \in disk[j % num_rotated_files] : l <= rotated[j + 2]
    BY <1>1, <2>2 DEF Closed
  <2> QED BY <2>2, <2>3, <2>4
<1> QED BY <1>3, <1>4

LEMMA RotateStep ==
  ASSUME LogInv, Rotate
  PROVE  LogInv'
<1>1. /\ outcome = "m" /\ open # unopened /\ lines' = lines + 1 /\ progr' = progr + 1
      /\ looked' = FALSE /\ rested' = FALSE /\ rotated' = Append(rotated, lines + 1)
      /\ UNCHANGED <<outcome, options, link, refused>>
  BY DEF Rotate, Measuring, vars, parsed
<1>2. Counted /\ Opens /\ Closed /\ Created /\ LinesKept
  BY DEF LogInv
<1>3. /\ lines \in Nat /\ progr \in Nat /\ rotated \in Seq(Nat) /\ Len(rotated) = progr
      /\ num_rotated_files \in Nat \ {0} /\ looked \in BOOLEAN
      /\ disk \in [Names -> SUBSET Nat]
  BY <1>2, LoggingAssumption DEF Counted, Opens
<1>4. PICK looks \in BOOLEAN, fails \in BOOLEAN :
        /\ ~looked => looks
        /\ IF fails THEN disk' = Logged(looks) /\ open' = Opened(looks)
           ELSE /\ disk' = [Logged(looks) EXCEPT ![newname] = Logged(looks)[log_file],
                                                 ![log_file] = None]
                /\ open' = newname
  <2>1. PICK looks \in Looks(TRUE), fails \in BOOLEAN :
          IF fails THEN disk' = Logged(looks) /\ open' = Opened(looks)
          ELSE /\ disk' = [Logged(looks) EXCEPT ![newname] = Logged(looks)[log_file],
                                                ![log_file] = None]
               /\ open' = newname
    BY DEF Rotate
  <2>2. looks \in BOOLEAN /\ (~looked => looks)
    BY <2>1 DEF Looks
  <2> QED BY <2>1, <2>2
<1>5. PICK D : D = Logged(looks)
  OBVIOUS
<1>6. /\ Opened(looks) = log_file
      /\ D \in [Names -> SUBSET Nat] /\ lines + 1 \in D[log_file]
      /\ \A n \in Names : n # log_file => D[n] = disk[n]
      /\ \A n \in Names : \A line \in D[n] : line \in disk[n] \/ line = lines + 1
      /\ \A n \in Names : \A line \in disk[n] : line # 0 => line \in D[n]
  <2>1. looks \/ looked
    BY <1>4, Zenon
  <2>2. PICK o : o = Opened(looks)
    OBVIOUS
  <2>3. /\ D \in [Names -> SUBSET Nat] /\ lines + 1 \in D[o]
        /\ \A n \in Names : n # o /\ n # log_file => D[n] = disk[n]
        /\ \A n \in Names : \A line \in D[n] : line \in disk[n] \/ line = lines + 1
        /\ \A n \in Names : \A line \in disk[n] : line # 0 => line \in D[n]
        /\ looks \/ looked => o = log_file
    BY <1>1, <1>5, <2>2, LineLogged
  <2>4. o = log_file
    BY <2>1, <2>3, Zenon
  <2> QED BY <2>2, <2>3, <2>4
<1>7. /\ newname \in Names /\ newname # log_file /\ newname # unopened
      /\ log_file \in Names /\ log_file # unopened
  BY <1>3, Remainder, NamesAre DEF newname
(* What the names hold afterwards. *)
<1>8. /\ disk' \in [Names -> SUBSET Nat]
      /\ \/ open' = log_file /\ disk' = D
         \/ /\ open' = newname /\ disk'[newname] = D[log_file] /\ disk'[log_file] = None
            /\ \A n \in Names : n # newname /\ n # log_file => disk'[n] = disk[n]
  <2>1. CASE fails
    BY <1>4, <1>5, <1>6, <2>1
  <2>2. CASE ~fails
    <3>1. disk' = [D EXCEPT ![newname] = D[log_file], ![log_file] = None] /\ open' = newname
      BY <1>4, <1>5, <2>2
    <3>2. None \in SUBSET Nat
      BY DEF None
    <3>3. disk' \in [Names -> SUBSET Nat]
      BY <1>6, <1>7, <3>1, <3>2
    <3>4. /\ disk'[newname] = D[log_file] /\ disk'[log_file] = None
          /\ \A n \in Names : n # newname /\ n # log_file => disk'[n] = D[n]
      BY <1>6, <1>7, <3>1
    <3> QED BY <1>6, <3>1, <3>3, <3>4
  <2> QED BY <2>1, <2>2
<1>9. /\ rotated' \in Seq(Nat) /\ Len(rotated') = progr + 1
      /\ rotated'[progr + 1] = lines + 1
      /\ \A i \in 1..progr : rotated'[i] = rotated[i]
  BY <1>1, <1>3
<1>10. /\ \A i \in 1..progr : rotated[i] \in Nat /\ 1 <= rotated[i] /\ rotated[i] <= lines
       /\ \A i, j \in 1..progr : i < j => rotated[i] < rotated[j]
       /\ \A n \in Names : \A line \in disk[n] : line \in Nat /\ line <= lines
  BY <1>2, <1>3 DEF Counted
<1>11. Counted'
  <2>1. \A n \in Names : \A line \in disk'[n] : line <= lines'
    <3>1. \A n \in Names : \A line \in D[n] : line <= lines'
      BY <1>1, <1>3, <1>6, <1>10
    <3>2. \A line \in None : line <= lines'
      BY <1>1, <1>3 DEF None
    <3>3. \A n \in Names : disk'[n] = D[n] \/ disk'[n] = D[log_file] \/ disk'[n] = None
      BY <1>6, <1>7, <1>8
    <3> QED BY <1>7, <3>1, <3>2, <3>3
  <2>2. \A i \in 1..(progr + 1) : 1 <= rotated'[i] /\ rotated'[i] <= lines + 1
    <3>1. \A i \in 1..(progr + 1) : i \in 1..progr \/ i = progr + 1
      BY <1>3
    <3> QED BY <1>3, <1>9, <1>10, <3>1
  <2>3. \A i, j \in 1..(progr + 1) : i < j => rotated'[i] < rotated'[j]
    <3>1. \A i, j \in 1..(progr + 1) :
            i < j => i \in 1..progr /\ (j \in 1..progr \/ j = progr + 1)
      BY <1>3
    <3>2. SUFFICES ASSUME NEW i \in 1..(progr + 1), NEW j \in 1..(progr + 1), i < j
                   PROVE  rotated'[i] < rotated'[j]
      OBVIOUS
    <3>3. i \in 1..progr /\ (j \in 1..progr \/ j = progr + 1)
      BY <3>1, <3>2
    <3>4. CASE j \in 1..progr
      <4>1. rotated'[i] = rotated[i] /\ rotated'[j] = rotated[j]
        BY <1>9, <3>3, <3>4
      <4>2. rotated[i] < rotated[j]
        BY <1>10, <3>2, <3>3, <3>4
      <4> QED BY <4>1, <4>2
    <3>5. CASE j = progr + 1
      <4>1. rotated'[i] = rotated[i] /\ rotated'[j] = lines + 1
        BY <1>9, <3>3, <3>5
      <4>2. rotated[i] \in Nat /\ rotated[i] <= lines
        BY <1>10, <3>3
      <4> QED BY <1>3, <4>1, <4>2
    <3> QED BY <3>3, <3>4, <3>5
  <2>4. lines' \in Nat /\ progr' \in Nat
    BY <1>1, <1>3
  <2> QED BY <1>1, <1>8, <1>9, <2>1, <2>2, <2>3, <2>4 DEF Counted
<1>12. Opens'
  <2>1. (progr + 1) - 1 = progr /\ progr + 1 > 0
    BY <1>3
  <2>2. open' = log_file \/ open' = (progr' - 1) % num_rotated_files
    BY <1>1, <1>8, <2>1 DEF newname
  <2> QED BY <1>1, <2>1, <2>2 DEF Opens
<1>13. Closed'
  <2>1. ASSUME NEW n \in 0..(num_rotated_files - 1), n # newname
        PROVE  disk'[n] = disk[n]
    BY <1>6, <1>8, <2>1, NamesAre
  <2>2. ASSUME NEW j \in 0..(progr - 1), j >= progr + 1 - num_rotated_files,
               NEW line \in disk'[j % num_rotated_files]
        PROVE  line <= rotated'[j + 2]
    <3>1. j \in Nat /\ j < progr /\ progr - j < num_rotated_files
      BY <1>3, <2>2
    <3>2. j % num_rotated_files \in 0..(num_rotated_files - 1)
      BY <3>1, Remainder
    <3>3. j % num_rotated_files # newname
      BY <1>3, <3>1, InTurn DEF newname
    <3>4. line \in disk[j % num_rotated_files]
      BY <2>1, <2>2, <3>2, <3>3
    <3>5. CASE j = progr - 1
      <4>1. line \in Nat /\ line <= lines
        BY <1>10, <3>2, <3>4, NamesAre
      <4>2. rotated'[j + 2] = lines + 1
        BY <1>3, <1>9, <3>5
      <4> QED BY <1>3, <4>1, <4>2
    <3>6. CASE j # progr - 1
      <4>1. /\ j \in 0..(progr - 2) /\ j >= progr - num_rotated_files
            /\ j + 2 \in 1..progr
        BY <1>3, <2>2, <3>1, <3>6
      <4>2. line <= rotated[j + 2]
        BY <1>2, <3>4, <4>1 DEF Closed
      <4> QED BY <1>9, <4>1, <4>2
    <3> QED BY <3>5, <3>6
  <2>3. ASSUME NEW n \in 0..(num_rotated_files - 1), n >= progr + 1
        PROVE  disk'[n] \subseteq None
    <3>1. n \in Nat /\ n < num_rotated_files /\ n > progr /\ n >= progr
      BY <1>3, <2>3
    <3>2. newname = progr
      BY <1>3, <3>1, Remainder DEF newname
    <3>3. disk'[n] = disk[n]
      BY <1>3, <2>1, <3>1, <3>2
    <3> QED BY <1>2, <3>1, <3>3 DEF Closed
  <2>4. progr' - 2 = progr - 1 /\ progr' - num_rotated_files = progr + 1 - num_rotated_files
    BY <1>1, <1>3
  <2> QED BY <1>1, <2>2, <2>3, <2>4 DEF Closed
<1>14. Created'
  <2>1. open' # unopened
    BY <1>7, <1>8
  <2> QED BY <1>1, <1>2, <2>1 DEF Created, Target
<1>15. LinesKept'
  <2>f. PICK first \in Int : first = progr - num_rotated_files + 2
    BY <1>3
  <2>1. first = progr' - num_rotated_files + 1
    BY <1>1, <1>3, <2>f
  <2>2. SUFFICES ASSUME NEW line \in 1..(lines + 1), first <= 1 \/ line > rotated'[first]
                 PROVE  \E n \in Names : line \in disk'[n]
    BY <1>1, <2>1 DEF LinesKept
  <2>3. line \in Nat /\ line # 0 /\ line > 0 /\ line <= lines + 1
    BY <1>3, <2>2
  <2>4. \E n \in Names : /\ line \in D[n]
                         /\ n = log_file \/ line \in disk[n]
    <3>1. CASE line = lines + 1
      BY <1>6, <1>7, <3>1
    <3>2. CASE line # lines + 1
      <4>1. line \in 1..lines
        BY <1>3, <2>3, <3>2
      <4>2. first - 1 <= 1 \/ line > rotated[first - 1]
        <5>1. CASE first <= 2
          BY <2>f, <5>1
        <5>2. CASE first > 2
          <6>1. first \in 1..(progr + 1) /\ first - 1 \in 1..progr /\ first - 1 < first
            BY <1>3, <2>f, <5>2
          <6>2. line > rotated'[first]
            BY <2>f, <2>2, <5>2
          <6>3. rotated'[first - 1] = rotated[first - 1] /\ rotated[first - 1] \in Nat
            BY <1>9, <1>10, <6>1
          <6>4. rotated'[first - 1] < rotated'[first] /\ rotated'[first] \in Nat
            <7>1. first - 1 \in 1..(progr + 1)
              BY <1>3, <6>1
            <7>2. \A i, j \in 1..(progr + 1) : i < j => rotated'[i] < rotated'[j]
              BY <1>1, <1>11 DEF Counted
            <7> QED BY <1>9, <6>1, <7>1, <7>2

          <6> QED BY <2>3, <6>2, <6>3, <6>4
        <5> QED BY <2>f, <5>1, <5>2
      <4>3. first - 1 = progr - num_rotated_files + 1
        BY <1>3, <2>f
      <4>4. \E n \in Names : line \in disk[n]
        BY <1>2, <4>1, <4>2, <4>3 DEF LinesKept
      <4> QED BY <1>6, <2>3, <4>4
    <3> QED BY <3>1, <3>2
  <2>5. PICK n \in Names : line \in D[n] /\ (n = log_file \/ line \in disk[n])
    BY <2>4
  <2>6. CASE disk' = D
    BY <2>5, <2>6
  <2>7. CASE disk' # D
    <3>1. /\ disk'[newname] = D[log_file]
          /\ \A m \in Names : m # newname /\ m # log_file => disk'[m] = disk[m]
      BY <1>8, <2>7
    <3>2. CASE n = log_file
      BY <1>7, <2>5, <3>1, <3>2
    <3>3. CASE n # log_file /\ n # newname
      BY <2>5, <3>1, <3>3
    <3>4. CASE n = newname
      <4>1. line \in disk[newname] /\ line <= lines
        BY <1>7, <1>10, <2>5, <3>4
      <4>2. 1 < first /\ (first <= progr => line <= rotated[first])
        BY <2>f, <2>3, <4>1, Overwritten
      <4>3. line > rotated'[first]
        BY <2>f, <2>2, <4>2
      <4>4. CASE first <= progr
        <5>1. first \in 1..progr
          BY <1>3, <2>f, <4>2, <4>4
        <5>2. rotated'[first] = rotated[first] /\ rotated[first] \in Nat
          BY <1>9, <1>10, <5>1
        <5> QED BY <2>3, <4>2, <4>3, <4>4, <5>2
      <4>5. CASE ~ (first <= progr)
        <5>1. first = progr + 1
          BY <1>3, <2>f, <4>5
        <5>2. rotated'[first] = lines + 1
          BY <1>9, <5>1
        <5> QED BY <1>3, <2>3, <4>1, <4>3, <5>2
      <4> QED BY <4>4, <4>5
    <3> QED BY <3>2, <3>3, <3>4
  <2> QED BY <2>6, <2>7
<1>16. CurrentLog'
  BY <1>1 DEF CurrentLog
<1> QED BY <1>11, <1>12, <1>13, <1>14, <1>15, <1>16 DEF LogInv

-------------------------------------------------------------------------------
(* The theorems.                                                            *)

LEMMA LogStart ==
  ASSUME LoggingInit
  PROVE  LogInv
<1>1. /\ lines = 0 /\ progr = 0 /\ rotated = << >> /\ open = unopened
      /\ looked = TRUE /\ rested = TRUE /\ refused = FALSE
      /\ disk = [n \in Names |-> None]
  BY DEF LoggingInit
<1>2. disk \in [Names -> SUBSET Nat] /\ \A n \in Names : disk[n] = None
  BY <1>1 DEF None
<1>3. Counted
  <2>1. \A n \in Names : \A line \in disk[n] : line <= lines
    BY <1>1, <1>2 DEF None
  <2>2. 1..progr = {}
    BY <1>1
  <2>3. rotated \in Seq(Nat) /\ Len(rotated) = 0
    BY <1>1
  <2> QED BY <1>1, <1>2, <2>1, <2>2, <2>3 DEF Counted
<1>4. Opens
  BY <1>1 DEF Opens
<1>5. Closed
  <2>1. 0..(progr - 2) = {}
    BY <1>1
  <2> QED BY <1>2, <2>1, NamesAre DEF Closed
<1>6. Created
  BY <1>1, <1>2 DEF Created, Untouched
<1>7. LinesKept /\ CurrentLog
  <2>1. 1..lines = {}
    BY <1>1
  <2> QED BY <1>1, <2>1 DEF LinesKept, CurrentLog
<1> QED BY <1>3, <1>4, <1>5, <1>6, <1>7 DEF LogInv

LEMMA LoggingStep ==
  ASSUME CommandInv, LogInv, [LoggingNext]_<<vars, log_vars>>
  PROVE  LogInv'
<1>1. CASE UNCHANGED <<vars, log_vars>>
  BY <1>1, LogFrame DEF vars, parsed
<1>2. CASE Options /\ UNCHANGED log_vars
  <2>1. outcome = "parsing"
    BY <1>2 DEF Options, ModeOption, MeasOption, NumberOption, TextOption, LastOption, Take
  <2> QED BY <1>2, <2>1, LogFrame
<1>3. CASE Dispatch /\ UNCHANGED log_vars
  <2>1. outcome' # "parsing" /\ options' = options
    BY <1>3, DispatchEnds DEF CommandInv, Dispatch, parsed
  <2> QED BY <1>3, <2>1, LogFrame
<1>4. CASE OptionsEnd
  BY <1>4, CreateStep
<1>5. CASE Log
  BY <1>5, LogStep
<1>6. CASE Rotate
  BY <1>6, RotateStep
<1> QED BY <1>1, <1>2, <1>3, <1>4, <1>5, <1>6 DEF LoggingNext

(* The operation that main() calls is the one that the command line asks    *)
(* for: of the modes the last, with the last server, on a line whose last   *)
(* configuration is well-formed, after options that are all valid; and      *)
(* single_read reads what its specification says, whether the number of     *)
(* registers is written in decimal, in octal or in hexadecimal.             *)
THEOREM RunsWhatWasAsked == LoggingSpec => []RunsAsAsked
<1>1. LoggingInit => CommandInv
  BY CommandStart DEF LoggingInit
<1>2. CommandInv /\ [LoggingNext]_<<vars, log_vars>> => CommandInv'
  BY CommandStep
<1>3. CommandInv => RunsAsAsked
  BY DEF CommandInv
<1> QED BY <1>1, <1>2, <1>3, PTL DEF LoggingSpec

(* main() refuses a command line with the usage only for one of the reasons *)
(* the usage gives or for a malformed line configuration, and no exception  *)
(* ends it but for a number that is none, one beyond an int, or a file that *)
(* cannot be read: a call that is complete and right is not turned down.    *)
THEOREM RefusesOnlyWrongCalls == LoggingSpec => []RefusedRightly
<1>1. LoggingInit => CommandInv
  BY CommandStart DEF LoggingInit
<1>2. CommandInv /\ [LoggingNext]_<<vars, log_vars>> => CommandInv'
  BY CommandStep
<1>3. CommandInv => RefusedRightly
  BY DEF CommandInv
<1> QED BY <1>1, <1>2, <1>3, PTL DEF LoggingSpec

(* However many names the log is rotated to, whenever loguru notices that   *)
(* its file was renamed and whatever renamings fail, no line is lost before *)
(* its turn, and current_log leads to the newest line if the log path is    *)
(* absolute or ".", and nowhere if it is another relative one.              *)
THEOREM LogIsKept == LoggingSpec => []LogKept
<1>1. LoggingInit => CommandInv /\ LogInv
  BY CommandStart, LogStart DEF LoggingInit
<1>2. CommandInv /\ LogInv /\ [LoggingNext]_<<vars, log_vars>> => (CommandInv /\ LogInv)'
  BY CommandStep, LoggingStep
<1>3. LogInv => LogKept
  BY DEF LogInv, LogKept
<1> QED BY <1>1, <1>2, <1>3, PTL DEF LoggingSpec

-------------------------------------------------------------------------------
(* Reading a configuration.                                                 *)

(* A part of the file that is accepted.                                     *)
Right(j) ==
  /\ ~j.broken /\ j.min \in {"none", "fits"} /\ j.max \in {"none", "fits"}
  /\ inherited = "ERANGE" => j.min = "none" /\ j.max = "none"

(* The parts before the part k of the descriptor d are right.               *)
RightUpTo(d, k) ==
  /\ \A e \in DOMAIN file : e < d => \A i \in {0} \cup Measures(e) : Right(Part(e, i))
  /\ d \in DOMAIN file => \A i \in {0} \cup Measures(d) : i < k => Right(Part(d, i))

AllRight == \A e \in DOMAIN file : \A i \in {0} \cup Measures(e) : Right(Part(e, i))

Converting ==
  at = "convert" =>
    /\ errno = inherited /\ DOMAIN config = {}
    /\ next \in 1..(Len(file) + 1)
    /\ IF next = Len(file) + 1 THEN part = 0 ELSE part \in {0} \cup Measures(next)
    /\ RightUpTo(next, part)

(* The map after the descriptors before n. *)
Inserted(n) ==
  /\ DOMAIN config = {Id(d) : d \in {e \in Running : e < n}}
  /\ \A d, e \in Running : d < n /\ e < n /\ Id(d) = Id(e) => d = e
  /\ \A d \in Running : d < n => config[Id(d)] = Stored(descriptor_from_json(file[d]))

Inserting ==
  /\ at = "insert" => AllRight /\ next \in 1..(Len(file) + 1) /\ Inserted(next)
  /\ at = "running" => AllRight /\ Inserted(Len(file) + 1)

ConfigInv ==
  /\ WellFormed(file) /\ at \in {"convert", "insert", "running", "refused"}
  /\ inherited \in {"ERANGE", "other"} /\ errno \in {"ERANGE", "other"}
  /\ Converting /\ Inserting
  /\ at = "refused" => Wrong

(* What ConfigAssumption says of a file, in the form the proofs use.        *)
LEMMA FileIs ==
  ASSUME WellFormed(file)
  PROVE  /\ Len(file) \in Nat /\ DOMAIN file = 1..Len(file)
         /\ \A d \in DOMAIN file :
              /\ Len(file[d].measures) \in Nat /\ Measures(d) = 1..Len(file[d].measures)
              /\ \A k \in {0} \cup Measures(d) :
                   LET j == Part(d, k)
                   IN  /\ j.broken \in BOOLEAN /\ j.min \in Limits /\ j.max \in Limits
                       /\ j.enabled \in {<< >>, <<TRUE>>, <<FALSE>>}
                       /\ j.sampling_period = << >> \/ j.sampling_period = <<j.sampling_period[1]>>
<1>1. Len(file) \in Nat /\ DOMAIN file = 1..Len(file)
  BY DEF WellFormed
<1>2. ASSUME NEW d \in DOMAIN file
      PROVE  Len(file[d].measures) \in Nat /\ Measures(d) = 1..Len(file[d].measures)
  BY DEF WellFormed, Measures
<1>3. ASSUME NEW d \in DOMAIN file, NEW k \in {0} \cup Measures(d)
      PROVE  LET j == Part(d, k)
             IN  /\ j.broken \in BOOLEAN /\ j.min \in Limits /\ j.max \in Limits
                 /\ j.enabled \in {<< >>, <<TRUE>>, <<FALSE>>}
                 /\ j.sampling_period = << >> \/ j.sampling_period = <<j.sampling_period[1]>>
  <2>1. Part(d, k) \in {file[d].server} \cup ToSet(file[d].measures)
    BY DEF Part, Measures, ToSet
  <2> QED BY <2>1 DEF WellFormed
<1> QED BY <1>1, <1>2, <1>3

(* A part that is not accepted is wrong, one that is accepted is right.     *)
LEMMA ConvertPartIs ==
  ASSUME ConfigInv, ConvertPart
  PROVE  /\ next \in DOMAIN file /\ part \in {0} \cup Measures(next)
         /\ UNCHANGED <<file, inherited, config>>
         /\ \/ at' = "refused" /\ Wrong /\ errno' \in {"ERANGE", "other"}
            \/ at' = "convert" /\ errno' = errno /\ Right(Part(next, part))
<1> DEFINE j == Part(next, part)
<1>1. /\ at = "convert" /\ errno = inherited /\ next \in DOMAIN file
      /\ part \in {0} \cup Measures(next) /\ UNCHANGED <<file, inherited, config>>
  BY FileIs DEF ConfigInv, Converting, ConvertPart
<1>2. j.broken \in BOOLEAN /\ j.min \in Limits /\ j.max \in Limits
  BY <1>1, FileIs DEF ConfigInv
<1>3. j.broken => Wrong
  BY <1>1 DEF Wrong
<1>4. ASSUME NEW x \in {j.min, j.max},
             x \in {"outside", "beyond"} \/ (inherited = "ERANGE" /\ x # "none")
      PROVE  Wrong
  <2>1. CASE x \in {"outside", "beyond"}
    <3>1. {j.min, j.max} \cap {"outside", "beyond"} # {}
      BY <2>1, <1>4
    <3> QED BY <1>1, <3>1 DEF Wrong
  <2>2. CASE inherited = "ERANGE" /\ x # "none"
    <3>1. {j.min, j.max} # {"none"}
      BY <2>2, <1>4
    <3> QED BY <1>1, <2>2, <3>1 DEF Wrong
  <2> QED BY <1>4, <2>1, <2>2
<1> DEFINE low  == j.min
           high == j.max
           broken == j.broken
           e1   == ErrnoAfter(low, errno)
<1>5. IF broken \/ ~Accepted(low, errno)
      THEN at' = "refused" /\ errno' = IF broken THEN errno ELSE e1
      ELSE /\ errno' = ErrnoAfter(high, e1)
           /\ at' = IF Accepted(high, e1) THEN "convert" ELSE "refused"
  BY DEF ConvertPart
<1>6. /\ broken => Wrong
      /\ low \in Limits /\ high \in Limits /\ broken \in BOOLEAN
      /\ low \in {"outside", "beyond"} \/ (inherited = "ERANGE" /\ low # "none") => Wrong
      /\ high \in {"outside", "beyond"} \/ (inherited = "ERANGE" /\ high # "none") => Wrong
  BY <1>2, <1>3, <1>4
<1>7. /\ ~broken /\ low \in {"none", "fits"} /\ high \in {"none", "fits"}
      /\ inherited = "ERANGE" => low = "none" /\ high = "none"
      => Right(j)
  BY DEF Right
<1> HIDE DEF broken, low, high, j
<1>8. CASE broken \/ ~Accepted(low, errno)
  <2>1. Wrong
    BY <1>1, <1>6, <1>8 DEF Accepted, ErrnoAfter, Limits
  <2>2. at' = "refused" /\ errno' \in {"ERANGE", "other"}
    BY <1>5, <1>8 DEF ErrnoAfter, ConfigInv
  <2> QED BY <1>1, <2>1, <2>2
<1>9. CASE ~(broken \/ ~Accepted(low, errno))
  <2>1. ~broken /\ low \in {"none", "fits"} /\ (inherited = "ERANGE" => low = "none")
    BY <1>1, <1>9 DEF Accepted, ErrnoAfter
  <2>2. e1 = errno
    BY <2>1 DEF ErrnoAfter
  <2>3. CASE Accepted(high, e1)
    <3>1. high \in {"none", "fits"} /\ (inherited = "ERANGE" => high = "none")
      BY <1>1, <2>2, <2>3 DEF Accepted, ErrnoAfter
    <3>2. at' = "convert" /\ errno' = errno
      BY <1>5, <1>9, <2>2, <2>3, <3>1 DEF ErrnoAfter
    <3> QED BY <1>1, <1>7, <2>1, <3>1, <3>2 DEF j
  <2>4. CASE ~Accepted(high, e1)
    <3>1. Wrong
      BY <1>1, <1>6, <2>2, <2>4 DEF Accepted, ErrnoAfter, Limits
    <3>2. at' = "refused" /\ errno' \in {"ERANGE", "other"}
      BY <1>5, <1>9, <2>2, <2>4 DEF ErrnoAfter, ConfigInv
    <3> QED BY <1>1, <3>1, <3>2
  <2> QED BY <2>3, <2>4
<1> QED BY <1>8, <1>9

(* What depends on the file only, which nothing changes.                    *)
LEMMA SameFile ==
  ASSUME UNCHANGED <<file, inherited>>
  PROVE  /\ Wrong' <=> Wrong
         /\ WellFormed(file)' <=> WellFormed(file)
         /\ AllRight' <=> AllRight
         /\ \A d, k : (RightUpTo(d, k))' <=> RightUpTo(d, k)
         /\ Running' = Running
         /\ \A d : Id(d)' = Id(d) /\ Measures(d)' = Measures(d)
<1>1. Running' = Running /\ \A d : Id(d)' = Id(d) /\ Measures(d)' = Measures(d)
  BY DEF Running, Id, Measures
<1>2. \A d, k : Part(d, k)' = Part(d, k)
  BY DEF Part
<1>3. \A j : Right(j)' <=> Right(j)
  BY DEF Right
<1>4. Wrong' <=> Wrong
  BY DEF Wrong, Part, Measures, Running, Id, On
<1>5. WellFormed(file)' <=> WellFormed(file)
  OBVIOUS
<1>6. AllRight' <=> AllRight
  BY DEF AllRight, Part, Measures, Right
<1>7. \A d, k : (RightUpTo(d, k))' <=> RightUpTo(d, k)
  BY DEF RightUpTo, Part, Measures, Right
<1> QED BY <1>1, <1>4, <1>5, <1>6, <1>7

LEMMA ConvertPartInv == ASSUME ConfigInv, ConvertPart PROVE ConfigInv'
<1>1. /\ next \in DOMAIN file /\ part \in {0} \cup Measures(next)
      /\ UNCHANGED <<file, inherited, config>>
      /\ \/ at' = "refused" /\ Wrong /\ errno' \in {"ERANGE", "other"}
         \/ at' = "convert" /\ errno' = errno /\ Right(Part(next, part))
  BY ConvertPartIs
<1>2. WellFormed(file)' /\ inherited' \in {"ERANGE", "other"}
  BY <1>1, SameFile DEF ConfigInv
<1>3. CASE at' = "refused" /\ Wrong /\ errno' \in {"ERANGE", "other"}
  BY <1>1, <1>2, <1>3, SameFile DEF ConfigInv, Converting, Inserting
<1>4. CASE at' = "convert" /\ errno' = errno /\ Right(Part(next, part))
  <2> DEFINE n == Len(file)
             m == Len(file[next].measures)
  <2>0. /\ n \in Nat /\ DOMAIN file = 1..n
        /\ \A d \in DOMAIN file :
             Len(file[d].measures) \in Nat /\ Measures(d) = 1..Len(file[d].measures)
    <3>1. WellFormed(file)
      BY DEF ConfigInv
    <3> QED BY <3>1, FileIs
  <2>1. /\ n \in Nat /\ DOMAIN file = 1..n /\ next \in 1..n
        /\ m \in Nat /\ Measures(next) = 1..m /\ part \in 0..m
    BY <1>1, <2>0
  <2>2. /\ at = "convert" /\ errno = inherited /\ DOMAIN config = {} /\ RightUpTo(next, part)
        /\ IF part + 1 \in Measures(next) THEN part' = part + 1 /\ UNCHANGED next
                                          ELSE part' = 0 /\ next' = next + 1
    BY <1>1, <2>1 DEF ConfigInv, Converting, ConvertPart
  <2> HIDE DEF n, m
  <2>3. next' \in 1..(n + 1)
    BY <2>1, <2>2
  <2>4. IF next' = n + 1 THEN part' = 0 ELSE part' \in {0} \cup Measures(next')
    BY <2>1, <2>2
  <2>5. RightUpTo(next', part')
    <3>1. ASSUME NEW e \in DOMAIN file, e < next', NEW i \in {0} \cup Measures(e)
          PROVE  Right(Part(e, i))
      <4>1. CASE e < next
        BY <2>2, <3>1, <4>1 DEF RightUpTo
      <4>2. CASE ~(e < next)
        <5>1. e = next /\ ~(part + 1 \in Measures(next))
          BY <2>1, <2>2, <3>1, <4>2
        <5>2. i < part \/ i = part
          BY <2>1, <3>1, <5>1
        <5> QED BY <1>1, <1>4, <2>2, <3>1, <5>1, <5>2 DEF RightUpTo
      <4> QED BY <4>1, <4>2
    <3>2. ASSUME next' \in DOMAIN file, NEW i \in {0} \cup Measures(next'), i < part'
          PROVE  Right(Part(next', i))
      <4>1. CASE part + 1 \in Measures(next)
        <5>1. next' = next /\ (i < part \/ i = part)
          BY <2>1, <2>2, <3>2, <4>1
        <5> QED BY <1>1, <1>4, <2>2, <3>2, <5>1 DEF RightUpTo
      <4>2. CASE ~(part + 1 \in Measures(next))
        <5>1. next' \in 1..n
          BY <2>1, <3>2
        <5>2. Measures(next') \subseteq Nat
          BY <2>0, <5>1
        <5>3. ~(i < part')
          BY <2>2, <4>2, <3>2, <5>2
        <5> QED BY <3>2, <5>3
      <4> QED BY <4>1, <4>2
    <3> QED BY <3>1, <3>2 DEF RightUpTo
  <2>6. Converting'
    <3>1. n' = n /\ (DOMAIN config)' = {} /\ (errno = inherited)'
      BY <1>1, <1>4, <2>2 DEF n
    <3>2. RightUpTo(next, part)'
      BY <1>1, <2>5, SameFile DEF RightUpTo, Part, Measures, Right
    <3>3. (Measures(next))' = Measures(next')
      BY <1>1 DEF Measures
    <3> QED BY <2>3, <2>4, <3>1, <3>2, <3>3 DEF Converting, n
  <2> QED BY <1>2, <1>4, <2>6 DEF ConfigInv, Inserting
<1> QED BY <1>1, <1>3, <1>4

LEMMA ConvertedInv == ASSUME ConfigInv, Converted PROVE ConfigInv'
<1>1. /\ at = "convert" /\ next > Len(file) /\ at' = "insert" /\ next' = 1
      /\ UNCHANGED <<file, errno, inherited, config>>
  BY DEF Converted
<1>2. /\ Len(file) \in Nat /\ DOMAIN file = 1..Len(file)
      /\ next \in 1..(Len(file) + 1) /\ RightUpTo(next, part) /\ DOMAIN config = {}
  BY <1>1, FileIs DEF ConfigInv, Converting
<1>3. AllRight
  BY <1>1, <1>2 DEF RightUpTo, AllRight
<1>4. \A d \in Running : ~(d < 1)
  BY <1>2 DEF Running
<1>5. Inserted(1)
  BY <1>2, <1>4 DEF Inserted
<1>6. Inserted(1)'
  BY <1>1, <1>2, <1>4, SameFile DEF Inserted
<1>7. Inserting'
  BY <1>1, <1>2, <1>3, <1>6, SameFile DEF Inserting
<1> QED BY <1>1, <1>7, SameFile DEF ConfigInv, Converting

(* Fields that may be missing.                                              *)
LEMMA Optional ==
  /\ <<FALSE>> # << >> /\ <<TRUE>> # << >> /\ <<TRUE>> # <<FALSE>>
  /\ <<TRUE>>[1] /\ ~(<<FALSE>>[1])
<1>1. <<TRUE>>[1] /\ ~(<<FALSE>>[1])
  OBVIOUS
<1>2. Len(<<FALSE>>) = 1 /\ Len(<<TRUE>>) = 1 /\ Len(<< >>) = 0
  OBVIOUS
<1>3. <<FALSE>> # << >> /\ <<TRUE>> # << >>
  BY <1>2
<1>4. <<TRUE>> # <<FALSE>>
  BY <1>1, Zenon
<1> QED BY <1>1, <1>3, <1>4

LEMMA EnabledIs ==
  \A j : j.enabled = << >> \/ j.enabled = <<TRUE>> \/ j.enabled = <<FALSE>>
         => (value_or(j.enabled, TRUE) <=> On(j))
<1> SUFFICES ASSUME NEW j,
                    j.enabled = << >> \/ j.enabled = <<TRUE>> \/ j.enabled = <<FALSE>>
             PROVE  value_or(j.enabled, TRUE) <=> On(j)
  BY Zenon
<1> DEFINE e == j.enabled
<1>1. e = << >> \/ e = <<TRUE>> \/ e = <<FALSE>>
  OBVIOUS
<1>2. /\ value_or(e, TRUE) <=> (IF e = << >> THEN TRUE ELSE e[1])
      /\ On(j) <=> e # <<FALSE>>
  BY Zenon DEF value_or, On
<1> HIDE DEF e
<1>3. (IF e = << >> THEN TRUE ELSE e[1]) <=> e # <<FALSE>>
  BY <1>1, Optional, Zenon
<1>4. value_or(e, TRUE) <=> On(j)
  BY <1>2, <1>3, Zenon
<1> QED BY <1>4 DEF e

LEMMA DescriptorIs ==
  ASSUME WellFormed(file), NEW d \in DOMAIN file
  PROVE  LET desc == descriptor_from_json(file[d])
         IN  /\ desc.server.modbus_id = Id(d)
             /\ Skipped(desc.server) <=> d \notin Running
<1> DEFINE j == file[d].server
           desc == descriptor_from_json(file[d])
<1>1. j.enabled = << >> \/ j.enabled = <<TRUE>> \/ j.enabled = <<FALSE>>
  BY FileIs DEF Part
<1>2. desc.server.enabled = value_or(j.enabled, TRUE) /\ desc.server.modbus_id = Id(d)
  BY DEF descriptor_from_json, server_from_json, Id
<1>3. d \in Running <=> On(j)
  BY DEF Running
<1> HIDE DEF j, desc
<1>4. value_or(j.enabled, TRUE) <=> On(j)
  BY <1>1, EnabledIs, Zenon
<1>5. Skipped(desc.server) <=> ~On(j)
  BY <1>2, <1>4, Zenon DEF Skipped
<1> QED BY <1>2, <1>3, <1>5 DEF desc

LEMMA InsertInv == ASSUME ConfigInv, Insert PROVE ConfigInv'
<1> DEFINE desc == descriptor_from_json(file[next])
           id   == desc.server.modbus_id
           new  == Stored(desc)
<1>1. /\ at = "insert" /\ next' = next + 1 /\ UNCHANGED <<file, errno, inherited>>
      /\ IF Skipped(desc.server) THEN UNCHANGED <<at, config>>
         ELSE IF id \in DOMAIN config THEN at' = "refused" /\ UNCHANGED config
         ELSE /\ config' = [i \in DOMAIN config \cup {id} |->
                              IF i = id THEN new ELSE config[i]]
              /\ UNCHANGED at
  BY DEF Insert
<1>2. /\ Len(file) \in Nat /\ DOMAIN file = 1..Len(file) /\ next \in DOMAIN file
      /\ WellFormed(file) /\ AllRight /\ Inserted(next)
  BY <1>1, FileIs DEF ConfigInv, Inserting, Insert
<1>3. id = Id(next) /\ (Skipped(desc.server) <=> next \notin Running)
  BY <1>2, DescriptorIs
<1>4. new = Stored(descriptor_from_json(file[next]))
  OBVIOUS
<1> HIDE DEF desc, id, new
<1>5. WellFormed(file)' /\ AllRight' /\ next + 1 \in 1..(Len(file) + 1)
  BY <1>1, <1>2, SameFile
<1>6. \A d \in Running : d < next + 1 <=> d < next \/ d = next
  BY <1>2 DEF Running
<1>7. ASSUME /\ DOMAIN config' = {Id(d) : d \in {e \in Running : e < next + 1}}
             /\ \A d, e \in Running :
                  d < next + 1 /\ e < next + 1 /\ Id(d) = Id(e) => d = e
             /\ \A d \in Running :
                  d < next + 1 => config'[Id(d)] = Stored(descriptor_from_json(file[d])),
             at' = at
      PROVE  ConfigInv'
  <2>1. Inserted(next)'
    BY <1>1, <1>7, SameFile DEF Inserted
  <2>2. Inserting' /\ Converting'
    BY <1>1, <1>5, <1>7, <2>1 DEF Inserting, Converting
  <2> QED BY <1>1, <1>5, <1>7, <2>2 DEF ConfigInv
<1>8. CASE next \notin Running
  <2>1. UNCHANGED <<at, config>>
    BY <1>1, <1>3, <1>8
  <2>2. \A d \in Running : d < next + 1 <=> d < next
    BY <1>6, <1>8
  <2> QED BY <1>2, <1>7, <2>1, <2>2 DEF Inserted
<1>9. CASE next \in Running /\ id \in DOMAIN config
  <2>1. at' = "refused" /\ UNCHANGED config
    BY <1>1, <1>3, <1>9
  <2>2. PICK d \in Running : d < next /\ Id(d) = id
    BY <1>2, <1>9 DEF Inserted
  <2>3. d # next
    BY <1>2, <2>2
  <2>4. Wrong
    BY <1>3, <1>9, <2>2, <2>3 DEF Wrong
  <2>5. Wrong'
    BY <1>1, <2>4, SameFile
  <2>6. Inserting' /\ Converting'
    BY <2>1 DEF Inserting, Converting
  <2> QED BY <1>1, <1>5, <2>1, <2>5, <2>6 DEF ConfigInv
<1>10. CASE next \in Running /\ id \notin DOMAIN config
  <2>1. /\ config' = [i \in DOMAIN config \cup {id} |-> IF i = id THEN new ELSE config[i]]
        /\ at' = at
    BY <1>1, <1>3, <1>10
  <2>2. DOMAIN config' = DOMAIN config \cup {id}
    BY <2>1
  <2>3. \A d \in Running : d < next => Id(d) \in DOMAIN config /\ Id(d) # id
    BY <1>2, <1>10 DEF Inserted
  <2>4. DOMAIN config' = {Id(d) : d \in {e \in Running : e < next + 1}}
    <3>1. ASSUME NEW i \in DOMAIN config'
          PROVE  i \in {Id(d) : d \in {e \in Running : e < next + 1}}
      BY <1>2, <1>3, <1>6, <1>10, <2>2, <3>1 DEF Inserted
    <3>2. ASSUME NEW d \in Running, d < next + 1 PROVE Id(d) \in DOMAIN config'
      BY <1>3, <1>6, <2>2, <2>3, <3>2
    <3> QED BY <3>1, <3>2
  <2>5. \A d, e \in Running : d < next + 1 /\ e < next + 1 /\ Id(d) = Id(e) => d = e
    BY <1>2, <1>3, <1>6, <2>3 DEF Inserted
  <2>6. ASSUME NEW d \in Running, d < next + 1
        PROVE  config'[Id(d)] = Stored(descriptor_from_json(file[d]))
    <3>1. CASE d = next
      BY <1>3, <1>4, <2>1, <3>1
    <3>2. CASE d < next
      <4>1. config'[Id(d)] = config[Id(d)]
        BY <2>1, <2>3, <3>2
      <4> QED BY <1>2, <3>2, <4>1 DEF Inserted
    <3> QED BY <1>6, <2>6, <3>1, <3>2
  <2> QED BY <1>7, <2>1, <2>4, <2>5, <2>6
<1> QED BY <1>8, <1>9, <1>10

LEMMA ReturnInv == ASSUME ConfigInv, Return PROVE ConfigInv'
<1>1. /\ at = "insert" /\ next > Len(file) /\ at' = "running"
      /\ UNCHANGED <<file, errno, inherited, next, config>>
  BY DEF Return
<1>2. /\ Len(file) \in Nat /\ AllRight /\ Inserted(next) /\ next \in 1..(Len(file) + 1)
  BY <1>1, FileIs DEF ConfigInv, Inserting
<1>3. next = Len(file) + 1
  BY <1>1, <1>2
<1>4. Inserted(Len(file) + 1)'
  BY <1>1, <1>2, <1>3, SameFile DEF Inserted
<1> QED BY <1>1, <1>2, <1>4, SameFile DEF ConfigInv, Converting, Inserting

LEMMA ReadInitInv == ASSUME ConfigAssumption, ReadInit PROVE ConfigInv
<1>1. WellFormed(file)
  BY DEF ConfigAssumption, ReadInit
<1>2. /\ Len(file) \in Nat /\ DOMAIN file = 1..Len(file)
      /\ \A d \in DOMAIN file : Measures(d) = 1..Len(file[d].measures)
  BY <1>1, FileIs
<1>3. /\ at = "convert" /\ next = 1 /\ part = 0 /\ errno = inherited
      /\ errno \in {"ERANGE", "other"} /\ DOMAIN config = {}
  BY DEF ReadInit
<1>4. RightUpTo(1, 0)
  <2>1. \A e \in DOMAIN file : ~(e < 1)
    BY <1>2
  <2>2. 1 \in DOMAIN file => \A i \in {0} \cup Measures(1) : ~(i < 0)
    BY <1>2
  <2> QED BY <2>1, <2>2 DEF RightUpTo
<1>5. next \in 1..(Len(file) + 1)
  BY <1>2, <1>3
<1> QED BY <1>1, <1>3, <1>4, <1>5 DEF ConfigInv, Converting, Inserting

LEMMA ConfigKept == ASSUME ConfigInv, UNCHANGED config_vars PROVE ConfigInv'
<1>1. UNCHANGED <<file, errno, inherited, at, next, part, config>>
  BY DEF config_vars
<1>2. /\ Inserted(next)' <=> Inserted(next)
      /\ Inserted(Len(file) + 1)' <=> Inserted(Len(file) + 1)
  BY <1>1, SameFile DEF Inserted
<1> QED BY <1>1, <1>2, SameFile DEF ConfigInv, Converting, Inserting, Measures

LEMMA ConfigStep ==
  ASSUME ConfigInv, read_config \/ UNCHANGED config_vars
  PROVE  ConfigInv'
BY ConvertPartInv, ConvertedInv, InsertInv, ReturnInv, ConfigKept DEF read_config

(* What is stored of a server that runs.                                    *)
LEMMA StoredIs ==
  ASSUME WellFormed(file), NEW d \in DOMAIN file
  PROVE  LET stored == Stored(descriptor_from_json(file[d]))
         IN  /\ stored.server = server_from_json(file[d].server)
             /\ DOMAIN stored.measures = {k \in Measures(d) : On(file[d].measures[k])}
             /\ \A k \in DOMAIN stored.measures :
                  LET m == stored.measures[k]
                      j == file[d].measures[k]
                  IN  /\ m.name = j.name /\ m.address = j.address /\ m.random = j.random
                      /\ <<m.sampling_period>> = PeriodMeant(j, file[d].server)
<1> DEFINE desc    == descriptor_from_json(file[d])
           stored  == Stored(desc)
           server_json   == file[d].server
           server  == server_from_json(server_json)
           enabled == {k \in DOMAIN desc.measures : desc.measures[k].enabled}
           period(m) == IF m.sampling_period = 0 THEN server.sampling_period
                                                 ELSE m.sampling_period
<1>0. \A k \in Measures(d) : k # 0
  <2>1. Len(file[d].measures) \in Nat /\ Measures(d) = 1..Len(file[d].measures)
    BY FileIs
  <2> QED BY <2>1
<1>1. /\ desc.server = server
      /\ desc.measures = [k \in Measures(d) |-> measure_from_json(file[d].measures[k])]
  BY DEF descriptor_from_json, Measures
<1>2. moved_from(desc).server.sampling_period = server.sampling_period
  BY DEF moved_from, descriptor_from_json, server_from_json
<1>3. /\ stored.server = desc.server
      /\ stored.measures = [k \in enabled |->
           [desc.measures[k] EXCEPT !.sampling_period = period(desc.measures[k])]]
  BY <1>2 DEF Stored, descriptor_from_json
<1> HIDE DEF stored
<1>4. \A k \in Measures(d) : k \in enabled <=> On(file[d].measures[k])
  <2> TAKE k \in Measures(d)
  <2>0. k # 0
    BY <1>0
  <2> DEFINE j == file[d].measures[k]
  <2>1. j.enabled = << >> \/ j.enabled = <<TRUE>> \/ j.enabled = <<FALSE>>
    BY <2>0, FileIs DEF Part
  <2>2. desc.measures[k].enabled = value_or(j.enabled, TRUE) /\ k \in DOMAIN desc.measures
    <3>1. desc.measures[k] = measure_from_json(j) /\ k \in DOMAIN desc.measures
      BY <1>1
    <3>2. measure_from_json(j).enabled = value_or(j.enabled, TRUE)
      BY Zenon DEF measure_from_json
    <3> HIDE DEF desc, j
    <3> QED BY <3>1, <3>2, Zenon
  <2> HIDE DEF j, desc
  <2>3. value_or(j.enabled, TRUE) <=> On(j)
    BY <2>1, EnabledIs, Zenon
  <2>4. k \in enabled <=> desc.measures[k].enabled
    BY <2>2
  <2>5. k \in enabled <=> On(j)
    BY <2>2, <2>3, <2>4, Zenon
  <2> QED BY <2>5 DEF j
<1>5. DOMAIN stored.measures = {k \in Measures(d) : On(file[d].measures[k])}
  <2>1. DOMAIN stored.measures = enabled /\ enabled \subseteq Measures(d)
    BY <1>1, <1>3
  <2> HIDE DEF enabled
  <2> QED BY <1>4, <2>1
<1>6. ASSUME NEW k \in DOMAIN stored.measures
      PROVE  LET m == stored.measures[k]
                 j == file[d].measures[k]
             IN  /\ m.name = j.name /\ m.address = j.address /\ m.random = j.random
                 /\ <<m.sampling_period>> = PeriodMeant(j, server_json)
  <2> DEFINE j == file[d].measures[k]
             m == stored.measures[k]
             p == value_or(j.sampling_period, 0)
             q == value_or(server_json.sampling_period, 5)
  <2>1. k \in Measures(d) /\ k \in enabled /\ k # 0
    BY <1>0, <1>3, <1>5
  <2>2. m = [measure_from_json(j) EXCEPT !.sampling_period = period(measure_from_json(j))]
    BY <1>1, <1>3, <2>1
  <2>3. /\ m.name = j.name /\ m.address = j.address /\ m.random = j.random
        /\ m.sampling_period = IF p = 0 THEN q ELSE p
    BY <2>2 DEF measure_from_json, server_from_json
  <2>4. /\ j.sampling_period = << >> \/ j.sampling_period = <<j.sampling_period[1]>>
        /\ \/ server_json.sampling_period = << >>
           \/ server_json.sampling_period = <<server_json.sampling_period[1]>>
    BY <2>1, FileIs DEF Part
  <2>5. <<m.sampling_period>> = PeriodMeant(j, server_json)
    <3> DEFINE js == j.sampling_period
               gs == server_json.sampling_period
    <3>1. /\ js = << >> \/ js = <<js[1]>>
          /\ gs = << >> \/ gs = <<gs[1]>>
      BY <2>4
    <3>2. PeriodMeant(j, server_json) = IF js \notin {<< >>, <<0>>} THEN js
                                  ELSE IF gs = << >> THEN <<5>> ELSE gs
      BY DEF PeriodMeant
    <3>3. /\ p = IF js = << >> THEN 0 ELSE js[1]
          /\ q = IF gs = << >> THEN 5 ELSE gs[1]
      BY DEF value_or
    <3> HIDE DEF js, gs, p, q, m, j, server_json
    <3>4. \A x : <<x>> # << >> /\ <<x>>[1] = x
      <4> TAKE x
      <4>1. Len(<<x>>) = 1 /\ Len(<< >>) = 0 /\ <<x>>[1] = x
        OBVIOUS
      <4> QED BY <4>1
    <3>5. CASE js = << >>
      BY <2>3, <3>1, <3>2, <3>3, <3>4, <3>5
    <3>6. CASE js # << >> /\ js[1] = 0
      BY <2>3, <3>1, <3>2, <3>3, <3>4, <3>6
    <3>7. CASE js # << >> /\ js[1] # 0
      BY <2>3, <3>1, <3>2, <3>3, <3>4, <3>7
    <3> QED BY <3>5, <3>6, <3>7
  <2> QED BY <2>3, <2>5
<1>7. stored.server = server
  BY <1>1, <1>3
<1> HIDE DEF desc, enabled, period
<1> QED BY <1>5, <1>6, <1>7 DEF stored, desc

LEMMA ConfigAsMeantAlways == ASSUME ConfigInv PROVE ConfigAsMeant
<1> SUFFICES ASSUME at = "running" PROVE ConfigAsMeant
  BY DEF ConfigAsMeant
<1>1. /\ WellFormed(file) /\ Inserted(Len(file) + 1) /\ Len(file) \in Nat
      /\ DOMAIN file = 1..Len(file)
  BY FileIs DEF ConfigInv, Inserting
<1>2. \A d \in Running : d < Len(file) + 1 /\ d \in DOMAIN file
  BY <1>1 DEF Running
<1>3. DOMAIN config = {Id(d) : d \in Running}
  BY <1>1, <1>2 DEF Inserted
<1>4. \A d \in Running : config[Id(d)] = Stored(descriptor_from_json(file[d]))
  BY <1>1, <1>2 DEF Inserted
<1> QED BY <1>1, <1>2, <1>3, <1>4, StoredIs DEF ConfigAsMeant

LEMMA FilesRefusedRightlyAlways == ASSUME ConfigInv PROVE FilesRefusedRightly
<1>1. at = "refused" => Wrong
  BY DEF ConfigInv
<1>2. ASSUME at = "running", Wrong PROVE FALSE
  <2>1. AllRight /\ Inserted(Len(file) + 1) /\ Len(file) \in Nat /\ DOMAIN file = 1..Len(file)
    BY <1>2, FileIs DEF ConfigInv, Inserting
  <2>2. ~\E d, e \in Running : d # e /\ Id(d) = Id(e)
    BY <2>1 DEF Inserted, Running
  <2> DEFINE Bad(j) ==
        \/ j.broken \/ {j.min, j.max} \cap {"outside", "beyond"} # {}
        \/ inherited = "ERANGE" /\ {j.min, j.max} # {"none"}
  <2>3. \E d \in DOMAIN file : \E k \in {0} \cup Measures(d) : Bad(Part(d, k))
    BY <1>2, <2>2 DEF Wrong
  <2>4. \A j : Right(j) => ~Bad(j)
    BY DEF Right
  <2> HIDE DEF Bad
  <2> QED BY <2>1, <2>3, <2>4 DEF AllRight
<1> QED BY <1>1, <1>2 DEF FilesRefusedRightly

-------------------------------------------------------------------------------
(* The least element.                                                       *)

LEMMA LeastElement ==
  ASSUME NEW Ns, Ns \subseteq Nat, Ns # {}
  PROVE  \E n \in Ns : \A m \in Ns : n <= m
<1> DEFINE Less == {p \in Nat \X Nat : p[1] < p[2]}
<1>1. \E n \in Ns : \A m \in Ns : ~(<<m, n>> \in Less)
  <2>1. IsWellFoundedOn(Less, Nat)
    BY NatLessThanWellFounded DEF OpToRel
  <2> HIDE DEF Less
  <2> QED BY <2>1, WFMin
<1>2. PICK n \in Ns : \A m \in Ns : ~(<<m, n>> \in Less)
  BY <1>1
<1>3. ASSUME NEW m \in Ns PROVE n <= m
  <2>1. ~(m < n)
    BY <1>2
  <2> QED BY <2>1
<1> QED BY <1>3

(* Of finitely many integers, too.                                          *)
LEMMA LeastInteger ==
  ASSUME NEW n \in Nat, NEW f, \A i \in 1..n : f[i] \in Int,
         NEW X, X # {}, \A x \in X : \E i \in 1..n : x = f[i]
  PROVE  \E x \in X : \A y \in X : x <= y
<1> DEFINE Below(k) == \E b \in Int : \A i \in 1..k : b <= f[i]
           Ns       == {k \in Nat : k <= n /\ ~Below(k)}
<1>1. Below(n)
  <2> SUFFICES ASSUME ~Below(n) PROVE FALSE
    OBVIOUS
  <2>1. Ns \subseteq Nat /\ Ns # {}
    <3>1. n <= n /\ Ns \subseteq Nat
      OBVIOUS
    <3> HIDE DEF Below
    <3>2. n \in Ns
      BY <3>1
    <3> QED BY <3>1, <3>2
  <2> HIDE DEF Ns
  <2>2. PICK k \in Ns : \A m \in Ns : k <= m
    BY <2>1, LeastElement
  <2>3. k \in Nat /\ k <= n /\ ~Below(k)
    BY <2>2 DEF Ns
  <2>4. Below(0)
    <3>1. \A i \in 1..0 : 0 <= f[i]
      OBVIOUS
    <3> QED BY <3>1
  <2>5. k # 0
    BY <2>3, <2>4
  <2>6. k - 1 \in Nat /\ k - 1 <= n /\ ~(k <= k - 1)
    BY <2>3, <2>5
  <2>7. Below(k - 1)
    BY <2>2, <2>6 DEF Ns
  <2>8. PICK b \in Int : \A i \in 1..(k - 1) : b <= f[i]
    BY <2>7
  <2>9. f[k] \in Int /\ k \in 1..n
    BY <2>3, <2>5
  <2>10. PICK c \in Int : c <= b /\ c <= f[k]
    <3>1. CASE b <= f[k]
      BY <3>1
    <3>2. CASE ~(b <= f[k])
      BY <2>9, <3>2
    <3> QED BY <3>1, <3>2
  <2>11. ASSUME NEW i \in 1..k PROVE c <= f[i]
    <3>1. CASE i = k
      BY <2>10, <3>1
    <3>2. CASE i # k
      <4>1. i \in 1..(k - 1) /\ i \in 1..n
        BY <2>3, <3>2
      <4>2. b <= f[i] /\ f[i] \in Int
        BY <2>8, <4>1
      <4> QED BY <2>10, <4>2
    <3> QED BY <3>1, <3>2
  <2> QED BY <2>3, <2>11
<1>2. PICK b \in Int : \A i \in 1..n : b <= f[i]
  BY <1>1
<1>3. \A x \in X : x \in Int /\ b <= x
  BY <1>2
<1> DEFINE Ms == {m \in Nat : b + m \in X}
<1>4. Ms # {}
  <2>1. PICK x \in X : TRUE
    OBVIOUS
  <2>2. x - b \in Nat /\ b + (x - b) = x
    BY <1>3
  <2> QED BY <2>2
<1> HIDE DEF Ms
<1>5. PICK m \in Ms : \A k \in Ms : m <= k
  <2>1. Ms \subseteq Nat
    BY DEF Ms
  <2> QED BY <1>4, <2>1, LeastElement
<1>6. m \in Nat /\ b + m \in X
  BY DEF Ms
<1>7. ASSUME NEW y \in X PROVE b + m <= y
  <2>1. y - b \in Nat /\ b + (y - b) = y
    BY <1>3
  <2>2. y - b \in Ms
    BY <2>1 DEF Ms
  <2>3. m <= y - b
    BY <1>5, <2>2
  <2> QED BY <1>3, <1>6, <2>3
<1> QED BY <1>6, <1>7

-------------------------------------------------------------------------------
(* The slaves.                                                              *)

IsRandom(id) == config[id].server.line = "random"

(* A slave has the id of its server, a random one also the generators of    *)
(* its addresses; no generator is malformed.                                *)
Made(id) ==
  IF IsRandom(id)
  THEN LET registers == fake_registers(config[id].measures)
       IN  /\ slaves[id] = [id |-> id, fake |-> registers]
           /\ \A a \in DOMAIN registers : registers[a] # Malformed
  ELSE slaves[id].id = set_slave(id)

ReadRight ==
  /\ last_read.server \in DOMAIN slaves
  /\ last_read.measure \in DOMAIN config[last_read.server].measures
  /\ main # "aborted" \/ IsRandom(last_read.server) => last_read.asked = last_read.server
  /\ IsRandom(last_read.server) =>
       LET a == config[last_read.server].measures[last_read.measure].address
       IN  last_read.value \in Draws(slaves[last_read.server].fake[a])

SlavesInv ==
  /\ file \in Files
  /\ at # "running" => main = "creating" /\ DOMAIN slaves = {}
  /\ main \in {"creating", "running", "terminated", "aborted"}
  /\ DOMAIN slaves \subseteq DOMAIN config
  /\ \A id \in DOMAIN slaves : Made(id)
  /\ last_read # NoRead => main \in {"running", "aborted"} /\ ReadRight
  /\ main = "aborted" => last_read.server \notin Ids

(* An address that a measure names has a generator, with the parameters of  *)
(* the first measure that names it.                                         *)
LEMMA FakeRegisters ==
  ASSUME NEW ms, DOMAIN ms \subseteq Nat, NEW k \in DOMAIN ms
  PROVE  LET a == ms[k].address
         IN  /\ a \in DOMAIN fake_registers(ms)
             /\ \E first \in DOMAIN ms :
                  /\ ms[first].address = a
                  /\ \A j \in DOMAIN ms : ms[j].address = a => first <= j
                  /\ fake_registers(ms)[a] = ms[first].random
<1> DEFINE a         == ms[k].address
           alike     == {j \in DOMAIN ms : ms[j].address = a}
           deciding  == {j \in DOMAIN ms : Decides(ms, j)}
           addresses == {ms[j].address : j \in deciding}
           chosen    == CHOOSE j \in deciding : ms[j].address = a
<1>1. PICK first \in alike : \A j \in alike : first <= j
  <2>1. alike \subseteq Nat /\ k \in alike
    OBVIOUS
  <2> HIDE DEF alike
  <2> QED BY <2>1, LeastElement
<1>2. /\ first \in DOMAIN ms /\ ms[first].address = a
      /\ \A j \in DOMAIN ms : ms[j].address = a => first <= j
  BY <1>1
<1>3. first \in deciding
  BY <1>2 DEF Decides
<1>4. chosen \in deciding /\ ms[chosen].address = a
  BY <1>2, <1>3
<1>5. chosen \in DOMAIN ms /\ chosen <= first
  BY <1>2, <1>4 DEF Decides
<1>6. first <= chosen
  BY <1>2, <1>4, <1>5
<1>7. chosen = first
  BY <1>2, <1>5, <1>6
<1>8. fake_registers(ms) =
        [x \in addresses |-> ms[CHOOSE j \in deciding : ms[j].address = x].random]
  BY DEF fake_registers
<1>9. a \in addresses
  BY <1>2, <1>3
<1>10. a \in DOMAIN fake_registers(ms) /\ fake_registers(ms)[a] = ms[first].random
  BY <1>7, <1>8, <1>9
<1> QED BY <1>2, <1>10

(* What the measures of a server that runs are.                             *)
LEMMA RunningIs ==
  ASSUME ConfigInv, SlavesInv, at = "running", NEW id \in DOMAIN config
  PROVE  /\ id \in Int /\ DOMAIN config[id].measures \subseteq Nat
         /\ \E d \in Running :
              /\ Id(d) = id /\ \A e \in Running : Id(e) = id => e = d
              /\ config[id] = Stored(descriptor_from_json(file[d]))
<1>1. /\ WellFormed(file) /\ Inserted(Len(file) + 1) /\ Len(file) \in Nat
      /\ DOMAIN file = 1..Len(file)
  BY FileIs DEF ConfigInv, Inserting
<1>2. \A d \in Running : d < Len(file) + 1 /\ d \in DOMAIN file
  BY <1>1 DEF Running
<1>3. PICK d \in Running : Id(d) = id
  BY <1>1 DEF Inserted
<1>4. \A e \in Running : Id(e) = id => e = d
  BY <1>1, <1>2, <1>3 DEF Inserted
<1>5. config[id] = Stored(descriptor_from_json(file[d]))
  BY <1>1, <1>2, <1>3 DEF Inserted
<1>6. id \in Int
  BY <1>2, <1>3, SlavesAssumption DEF SlavesAssumption, SlavesInv, Id
<1>7. DOMAIN config[id].measures \subseteq Measures(d)
  BY <1>1, <1>2, <1>5, StoredIs
<1>8. Measures(d) \subseteq Nat
  <2>1. Len(file[d].measures) \in Nat /\ Measures(d) = 1..Len(file[d].measures)
    BY <1>1, <1>2, FileIs
  <2> QED BY <2>1
<1> QED BY <1>3, <1>4, <1>5, <1>6, <1>7, <1>8

(* There is always a next server to make a slave for.                       *)
LEMMA Id1IsMissing ==
  ASSUME ConfigInv, SlavesInv, at = "running", Missing # {}
  PROVE  Id1 \in Missing
<1> DEFINE ids == [d \in 1..Len(file) |-> Id(d)]
<1>1. Len(file) \in Nat /\ DOMAIN file = 1..Len(file) /\ Inserted(Len(file) + 1)
  BY FileIs DEF ConfigInv, Inserting
<1>2. \A d \in 1..Len(file) : ids[d] \in Int
  BY <1>1, SlavesAssumption DEF SlavesAssumption, SlavesInv, Id
<1>3. ASSUME NEW id \in Missing PROVE \E d \in 1..Len(file) : id = ids[d]
  BY <1>1 DEF Missing, Inserted, Running
<1> HIDE DEF ids
<1>4. \E id \in Missing : \A other \in Missing : id <= other
  BY <1>1, <1>2, <1>3, LeastInteger
<1> QED BY <1>4 DEF Id1

(* The slaves there are stay what they are; the reads, too.                 *)
LEMMA SameSlaves ==
  ASSUME UNCHANGED <<config, slaves>>
  PROVE  /\ \A id : Made(id)' <=> Made(id)
         /\ UNCHANGED <<main, last_read>> => (ReadRight' <=> ReadRight)
<1>1. \A id : Made(id)' <=> Made(id)
  BY DEF Made, IsRandom
<1>2. UNCHANGED <<main, last_read>> => (ReadRight' <=> ReadRight)
  BY DEF ReadRight, IsRandom
<1> QED BY <1>1, <1>2

(* Nothing is made before read_config has returned.                         *)
LEMMA ReadConfigKeepsSlaves ==
  ASSUME SlavesInv, (read_config /\ UNCHANGED slave_vars) \/ UNCHANGED <<config_vars, slave_vars>>
  PROVE  SlavesInv'
<1>1. UNCHANGED <<main, slaves, last_read>> /\ UNCHANGED file
  BY DEF read_config, ConvertPart, Converted, Insert, Return, slave_vars, config_vars
<1>2. CASE UNCHANGED <<config_vars, slave_vars>>
  <2>1. UNCHANGED <<file, at, config, main, slaves, last_read>>
    BY <1>2 DEF slave_vars, config_vars
  <2> QED BY <2>1, SameSlaves DEF SlavesInv
<1>3. CASE read_config
  <2>1. at # "running"
    BY <1>3 DEF read_config, ConvertPart, Converted, Insert, Return
  <2>2. main = "creating" /\ DOMAIN slaves = {} /\ last_read = NoRead
    BY <2>1 DEF SlavesInv
  <2> QED BY <1>1, <2>2 DEF SlavesInv
<1> QED BY <1>2, <1>3

(* A slave made for the next server.                                        *)
LEMMA AddInv ==
  ASSUME ConfigInv, SlavesInv, at = "running", main = "creating", Missing # {},
         NEW slave, Add(slave), UNCHANGED <<config_vars, main, last_read>>,
         IF IsRandom(Id1)
         THEN LET registers == fake_registers(config[Id1].measures)
              IN  /\ slave = [id |-> Id1, fake |-> registers]
                  /\ \A a \in DOMAIN registers : registers[a] # Malformed
         ELSE slave.id = set_slave(Id1)
  PROVE  SlavesInv'
<1>0. UNCHANGED <<file, at, config, main, last_read>>
  BY DEF config_vars
<1>1. Id1 \in DOMAIN config /\ Id1 \notin DOMAIN slaves
  BY Id1IsMissing DEF Missing
<1>2. slaves' = [id \in DOMAIN slaves \cup {Id1} |-> IF id = Id1 THEN slave ELSE slaves[id]]
  BY DEF Add
<1>3. /\ DOMAIN slaves' = DOMAIN slaves \cup {Id1} /\ slaves'[Id1] = slave
      /\ \A id \in DOMAIN slaves : slaves'[id] = slaves[id]
  BY <1>1, <1>2
<1>4. ASSUME NEW id \in DOMAIN slaves PROVE Made(id)'
  <2>1. Made(id) /\ slaves'[id] = slaves[id]
    BY <1>3 DEF SlavesInv
  <2> QED BY <1>0, <2>1 DEF Made, IsRandom
<1>5. ASSUME NEW id, id = Id1 PROVE Made(id)'
  <2>1. slaves'[id] = slave
    BY <1>3, <1>5
  <2> QED BY <1>0, <1>5, <2>1 DEF Made, IsRandom
<1>6. \A id \in DOMAIN slaves' : Made(id)'
  BY <1>3, <1>4, <1>5
<1>7. DOMAIN slaves' \subseteq DOMAIN config'
  BY <1>0, <1>1, <1>3 DEF SlavesInv
<1>8. last_read = NoRead
  BY DEF SlavesInv
<1> QED BY <1>0, <1>6, <1>7, <1>8 DEF SlavesInv

LEMMA CreateInv == ASSUME ConfigInv, SlavesInv, Create PROVE SlavesInv'
<1>1. /\ at = "running" /\ main = "creating" /\ Missing # {}
      /\ CreateRandom \/ CreateRTU
      /\ UNCHANGED <<config_vars, last_read>>
  BY DEF Create
<1>2. UNCHANGED <<file, at, config, last_read>>
  BY <1>1 DEF config_vars
<1>3. CASE main' = "terminated" /\ UNCHANGED slaves
  <2>1. last_read = NoRead
    BY <1>1 DEF SlavesInv
  <2> QED BY <1>1, <1>2, <1>3, <2>1, SameSlaves DEF SlavesInv
<1>4. CASE CreateRandom /\ ~(main' = "terminated" /\ UNCHANGED slaves)
  <2> DEFINE registers == fake_registers(config[Id1].measures)
  <2>1. /\ IsRandom(Id1) /\ \A a \in DOMAIN registers : registers[a] # Malformed
        /\ Add([id |-> Id1, fake |-> registers]) /\ UNCHANGED main
    BY <1>4 DEF CreateRandom, IsRandom
  <2> QED BY <1>1, <2>1, AddInv
<1>5. CASE CreateRTU /\ ~(main' = "terminated" /\ UNCHANGED slaves)
  <2>1. /\ ~IsRandom(Id1) /\ Add([id |-> set_slave(Id1), fake |-> << >>]) /\ UNCHANGED main
    BY <1>5 DEF CreateRTU, IsRandom
  <2> QED BY <1>1, <2>1, AddInv
<1> QED BY <1>1, <1>3, <1>4, <1>5

LEMMA RunInv == ASSUME SlavesInv, Run PROVE SlavesInv'
<1>1. /\ at = "running" /\ main = "creating" /\ main' = "running"
      /\ UNCHANGED <<file, at, config, slaves, last_read>>
  BY DEF Run, config_vars
<1>2. last_read = NoRead
  BY <1>1 DEF SlavesInv
<1> QED BY <1>1, <1>2, SameSlaves DEF SlavesInv

LEMMA ReadInv == ASSUME ConfigInv, SlavesInv, Read PROVE SlavesInv'
<1>1. /\ main = "running" /\ UNCHANGED <<file, at, config, slaves>>
  BY DEF Read, config_vars
<1>2. PICK id \in DOMAIN slaves : \E k \in DOMAIN config[id].measures :
        ReadRandom(id, k) \/ ReadRTU(id, k)
  BY DEF Read
<1>3. PICK k \in DOMAIN config[id].measures : ReadRandom(id, k) \/ ReadRTU(id, k)
  BY <1>2
<1>4. Made(id) /\ id \in DOMAIN config /\ at = "running"
  BY <1>1 DEF SlavesInv
<1>5. IsRandom(id)' <=> IsRandom(id)
  BY <1>1 DEF IsRandom
<1>6. SUFFICES /\ main' \in {"running", "aborted"} /\ ReadRight'
               /\ main' = "aborted" => last_read'.server \notin Ids
  BY <1>1, SameSlaves DEF SlavesInv
<1>7. CASE ReadRandom(id, k)
  <2> DEFINE ms == config[id].measures
             a  == ms[k].address
  <2>1. IsRandom(id) /\ slaves[id] = [id |-> id, fake |-> fake_registers(ms)]
    BY <1>4, <1>7 DEF ReadRandom, Made, IsRandom
  <2>2. a \in DOMAIN slaves[id].fake
    BY <1>4, <2>1, RunningIs, FakeRegisters
  <2>3. PICK v \in Draws(slaves[id].fake[a]) : Result(id, k, slaves[id].id, v)
    BY <1>7, <2>2 DEF ReadRandom
  <2>4. last_read' = [server |-> id, measure |-> k, asked |-> id, value |-> v] /\ UNCHANGED main
    BY <1>7, <2>1, <2>3 DEF Result, ReadRandom
  <2>5. ReadRight'
    <3>1. (Draws(slaves[id].fake[a]))' = Draws(slaves[id].fake[a])
      BY <1>1 DEF Draws
    <3> QED BY <1>1, <2>3, <2>4, <3>1 DEF ReadRight
  <2> QED BY <1>1, <2>4, <2>5
<1>8. CASE ReadRTU(id, k)
  <2>1. ~IsRandom(id) /\ slaves[id].id = set_slave(id)
    BY <1>4, <1>8 DEF ReadRTU, Made, IsRandom
  <2>2. IF id \in Ids
        THEN /\ UNCHANGED main
             /\ last_read' = [server |-> id, measure |-> k, asked |-> id, value |-> 0]
        ELSE /\ main' = "aborted"
             /\ last_read' = [server |-> id, measure |-> k, asked |-> Unset, value |-> 0]
    BY <1>8, <2>1 DEF ReadRTU, Result, set_slave, Unset, Ids
  <2>3. /\ last_read'.server = id /\ last_read'.measure = k
        /\ main' # "aborted" => last_read'.asked = id
        /\ main' \in {"running", "aborted"} /\ (main' = "aborted" => id \notin Ids)
    BY <1>1, <2>2
  <2>4. ReadRight'
    <3>1. ~IsRandom(id)'
      BY <1>5, <2>1
    <3> QED BY <1>1, <2>3, <3>1 DEF ReadRight, IsRandom
  <2> QED BY <2>3, <2>4
<1> QED BY <1>3, <1>7, <1>8

LEMMA SlavesInitInv == ASSUME SlavesInit PROVE ConfigInv /\ SlavesInv
BY ReadInitInv, ConfigAssumption DEF SlavesInit, SlavesInv, ReadInit, NoRead, Ids, Unset

LEMMA SlavesStep ==
  ASSUME ConfigInv, SlavesInv, [SlavesNext]_<<config_vars, slave_vars>>
  PROVE  ConfigInv' /\ SlavesInv'
<1>1. ConfigInv'
  <2>1. read_config \/ UNCHANGED config_vars
    BY DEF SlavesNext, Create, Run, Read, config_vars
  <2> QED BY <2>1, ConfigStep
<1>2. SlavesInv'
  BY ReadConfigKeepsSlaves, CreateInv, RunInv, ReadInv DEF SlavesNext
<1> QED BY <1>1, <1>2

(* What a read shows of the configuration: the one descriptor of its server *)
(* that runs, and a measure of it that is enabled.                          *)
LEMMA ReadOf ==
  ASSUME ConfigInv, SlavesInv, last_read # NoRead
  PROVE  /\ last_read.server \in DOMAIN config /\ at = "running"
         /\ \E d \in Running :
              /\ Id(d) = last_read.server /\ Stanza = file[d]
              /\ config[last_read.server] = Stored(descriptor_from_json(file[d]))
<1>1. last_read.server \in DOMAIN config /\ at = "running"
  BY DEF SlavesInv, ReadRight
<1>2. PICK d \in Running :
        /\ Id(d) = last_read.server /\ \A e \in Running : Id(e) = last_read.server => e = d
        /\ config[last_read.server] = Stored(descriptor_from_json(file[d]))
  BY <1>1, RunningIs
<1>3. (CHOOSE e \in Running : Id(e) = last_read.server) = d
  BY <1>2
<1> QED BY <1>1, <1>2, <1>3 DEF Stanza

LEMMA FirstDecidesAlways == ASSUME ConfigInv, SlavesInv PROVE FirstDecides
<1> SUFFICES ASSUME last_read # NoRead, Stanza.server.line = "random" PROVE FirstDecides
  BY DEF FirstDecides
<1> DEFINE id == last_read.server
           k  == last_read.measure
           ms == config[id].measures
           a  == ms[k].address
           alike == {j \in DOMAIN Stanza.measures :
                       /\ On(Stanza.measures[j])
                       /\ Stanza.measures[j].address = Reading.address}
<1>1. PICK d \in Running :
        /\ Stanza = file[d] /\ config[id] = Stored(descriptor_from_json(file[d]))
  BY ReadOf
<1>2. /\ id \in DOMAIN slaves /\ k \in DOMAIN ms /\ at = "running"
      /\ id \in DOMAIN config /\ Made(id) /\ ReadRight
  BY ReadOf DEF SlavesInv, ReadRight
<1>3. WellFormed(file) /\ d \in DOMAIN file
  BY DEF ConfigInv, Running
<1>4. /\ config[id].server = server_from_json(file[d].server)
      /\ DOMAIN ms = {j \in Measures(d) : On(file[d].measures[j])}
      /\ \A j \in DOMAIN ms : /\ ms[j].address = file[d].measures[j].address
                              /\ ms[j].random = file[d].measures[j].random
  BY <1>1, <1>3, StoredIs
<1>5. IsRandom(id)
  <2>1. server_from_json(file[d].server).line = file[d].server.line
    BY DEF server_from_json
  <2> QED BY <1>1, <1>4, <2>1 DEF IsRandom
<1>6. /\ last_read.asked = id /\ last_read.value \in Draws(slaves[id].fake[a])
      /\ slaves[id] = [id |-> id, fake |-> fake_registers(ms)]
      /\ \A x \in DOMAIN fake_registers(ms) : fake_registers(ms)[x] # Malformed
  BY <1>2, <1>5 DEF ReadRight, Made
<1>7. DOMAIN ms \subseteq Nat
  BY <1>2, RunningIs
<1>8. /\ a \in DOMAIN fake_registers(ms)
      /\ \E first \in DOMAIN ms :
           /\ ms[first].address = a
           /\ \A j \in DOMAIN ms : ms[j].address = a => first <= j
           /\ fake_registers(ms)[a] = ms[first].random
  BY <1>2, <1>7, FakeRegisters
<1>9. PICK first \in DOMAIN ms :
           /\ ms[first].address = a
           /\ \A j \in DOMAIN ms : ms[j].address = a => first <= j
           /\ fake_registers(ms)[a] = ms[first].random
  BY <1>8
<1>10. Reading.address = a /\ DOMAIN Stanza.measures = Measures(d)
  BY <1>1, <1>2, <1>4 DEF Reading, Measures
<1>11. \A j : j \in alike <=> j \in DOMAIN ms /\ ms[j].address = a
  BY <1>1, <1>4, <1>10
<1>12. first \in alike /\ \A j \in alike : first <= j
  BY <1>9, <1>11
<1>13. /\ Stanza.measures[first].random # Malformed
       /\ last_read.value \in Draws(Stanza.measures[first].random)
  BY <1>1, <1>4, <1>6, <1>8, <1>9
<1> HIDE DEF alike
<1> QED BY <1>6, <1>12, <1>13 DEF FirstDecides, alike

LEMMA RightServerAlways == ASSUME ConfigInv, SlavesInv PROVE RightServerAsked
<1>1. ASSUME last_read # NoRead, main # "aborted"
      PROVE  \E d \in Running : Id(d) = last_read.server /\ last_read.asked = last_read.server
  BY <1>1, ReadOf DEF SlavesInv, ReadRight
<1> QED BY <1>1 DEF RightServerAsked, SlavesInv

LEMMA SlavesInvAlways == SlavesSpec => [](ConfigInv /\ SlavesInv)
<1>1. SlavesInit => ConfigInv /\ SlavesInv
  BY SlavesInitInv
<1>2. ConfigInv /\ SlavesInv /\ [SlavesNext]_<<config_vars, slave_vars>> => ConfigInv' /\ SlavesInv'
  BY SlavesStep
<1> QED BY <1>1, <1>2, PTL DEF SlavesSpec

(* What read_config returns is what the file means: every enabled server,   *)
(* with its enabled measures in their order and the periods they should     *)
(* have, for files of any length.                                           *)
THEOREM ConfigurationIsAsMeant == SlavesSpec => []ConfigAsMeant
BY SlavesInvAlways, ConfigAsMeantAlways, PTL

(* read_config throws for exactly the reasons there are: a broken part or a *)
(* limit that does not fit, enabled or not, two enabled servers with one    *)
(* identifier, and an errno that was ERANGE before.                         *)
THEOREM FilesAreRefusedRightly == SlavesSpec => []FilesRefusedRightly
BY SlavesInvAlways, FilesRefusedRightlyAlways, PTL

(* A random measure has the parameters of the first enabled measure of its  *)
(* server with its address, and there always is a generator for it.         *)
THEOREM FirstMeasureDecides == SlavesSpec => []FirstDecides
BY SlavesInvAlways, FirstDecidesAlways, PTL

(* A read asks the server that its measure was configured for, and the      *)
(* program is aborted at a read only for an id that libmodbus refuses.      *)
THEOREM RightServerIsAsked == SlavesSpec => []RightServerAsked
BY SlavesInvAlways, RightServerAlways, PTL
===============================================================================
