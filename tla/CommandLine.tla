----------------------------- MODULE CommandLine ------------------------------
(***************************************************************************)
(* main() of the two programs, up to the operation it calls: the loop over  *)
(* the options, the choice of the operation by its mode, and the checks of  *)
(* the parameters, in main() and at the head of each operation, up to the   *)
(* serial line that it opens.                                               *)
(*                                                                         *)
(* A text is a sequence of characters where it is read as a number or as a  *)
(* register specification, and one of a few values otherwise.  getopt is    *)
(* external.                                                                *)
(***************************************************************************)
EXTENDS Integers, SequencesExt

CONSTANTS MaxOptions,   \* bound on the options of a call
          Texts,        \* what a user may give as the second parameter
          MaxValue      \* 65535

Numerals == <<"0", "1", "2", "3", "4", "5", "6", "7",
              "8", "9", "a", "b", "c", "d", "e", "f">>
Characters == ToSet(Numerals) \cup {"x", "l", "r", "-", "+", " ", "other"}

(* " " is any white space; letters are in lower case; nine characters are a *)
(* number that fits an int, in any base.                                    *)
ASSUME CommandLineAssumption ==
  /\ MaxOptions \in Nat /\ MaxValue \in Nat
  /\ \A t \in Texts : t \in Seq(Characters) /\ Len(t) <= 9

VARIABLES program,      \* "crawler" or "pwrmeter_client"
          given,        \* the options so far, with their arguments
          mode, options,\* the options as stored; options[o] by its letter
          operands,     \* how many parameters follow the options,
          text,         \* and the second of them
          outcome,      \* "parsing", "parsed", the operation called, or how the
                        \* program ended
          read          \* for single_read: registers, word order

parsed == <<given, mode, options>>
vars   == <<program, parsed, operands, text, outcome, read>>

(* The options that select an operation without an argument.                *)
Operations == [crawler |-> {"R", "W", "F", "U"}, pwrmeter_client |-> {"R", "W", "U"}]

NumberOptions == [crawler |-> {"s", "a", "r", "t"}, pwrmeter_client |-> {"s", "a"}]
TextOptions   == [crawler |-> {"d", "c", "l", "o"}, pwrmeter_client |-> {"d", "c"}]

(* What their arguments may be: a line configuration by what serial_line    *)
(* makes of it (a number of it may be beyond an int), a log path by how it  *)
(* is given.                                                                *)
Arguments ==
  [d |-> {"text"}, o |-> {"text"},
   c |-> {"well_formed", "malformed", "out_of_range"},
   l |-> {"", "absolute", ".", "relative"}]

NaN     == -9       \* stands for what stoi does not take
Numbers == {-1, 0, 3, NaN}
Unread == [regs |-> 0, order |-> "none"]

-------------------------------------------------------------------------------
(* The number that a text begins with, as strtol(.., 0) has it.             *)

DigitsOf(base) == {Numerals[d + 1] : d \in 0..(base - 1)}
DigitValue(c)  == CHOOSE d \in 0..15 : c = Numerals[d + 1]

(* How many characters there are before the first that is no digit. *)
Leading(t, base) == SelectInSeq(Append(t, "other"), LAMBDA c : c \notin DigitsOf(base)) - 1

InBase(t, base) ==
  LET f[i \in 0..Leading(t, base)] ==
        IF i = 0 THEN 0 ELSE base * f[i - 1] + DigitValue(t[i])
  IN  f[Leading(t, base)]

(* Faulty: every number is a decimal one. *)
Natural_decimal(t) == InBase(t, 10)

(* 0x before a hexadecimal digit, or 0, select the base. *)
Natural(t) ==
  IF Len(t) > 2 /\ t[1] = "0" /\ t[2] = "x" /\ t[3] \in DigitsOf(16)
  THEN InBase(SubSeq(t, 3, Len(t)), 16)
  ELSE IF t # << >> /\ t[1] = "0" THEN InBase(Tail(t), 8) ELSE InBase(t, 10)

strtol(t) ==
  LET start == SelectInSeq(Append(t, "other"), LAMBDA c : c # " ")
      s     == SubSeq(t, start, Len(t))
  IN  CASE s # << >> /\ s[1] = "-" -> -Natural(Tail(s))
        [] s # << >> /\ s[1] = "+" -> Natural(Tail(s))
        [] OTHER -> Natural(s)

-------------------------------------------------------------------------------
(* The loop over the options.                                               *)

Take(o, arg) ==
  /\ outcome = "parsing" /\ Len(given) < MaxOptions
  /\ given' = Append(given, [opt |-> o, arg |-> arg])
  /\ UNCHANGED <<program, operands, text, read>>

ModeOption ==
  /\ \E o \in Operations[program] : Take(o, "") /\ mode' = o
  /\ UNCHANGED <<options, outcome>>

MeasOption ==
  /\ program = "crawler"
  /\ \E file \in {"", "measconfig_file"} :
       /\ Take("m", file)
       /\ mode' = "m" /\ options' = [options EXCEPT !.m = file]
  /\ UNCHANGED outcome

(* Nobody catches what stoi throws. *)
NumberOption ==
  /\ \E o \in NumberOptions[program], n \in Numbers :
       /\ Take(o, n)
       /\ IF n = NaN THEN outcome' = "terminated" /\ UNCHANGED options
                     ELSE options' = [options EXCEPT ![o] = n] /\ UNCHANGED outcome
  /\ UNCHANGED mode

TextOption ==
  /\ \E o \in TextOptions[program] : \E t \in Arguments[o] :
       Take(o, t) /\ options' = [options EXCEPT ![o] = t]
  /\ UNCHANGED <<mode, outcome>>

(* '?' is an option getopt does not know, or one without its argument.      *)
LastOption ==
  /\ \/ Take("?", "") /\ outcome' = "usage"
     \/ Take("h", "") /\ outcome' = "help"
  /\ UNCHANGED <<mode, options>>

-------------------------------------------------------------------------------
(* What follows the loop.                                                   *)

(* The parameters after the options, those that the mode looks at.          *)
Parsed ==
  /\ outcome = "parsing" /\ outcome' = "parsed"
  /\ operands' \in IF mode \in {"R", "W", "F", "U"} THEN 0..2 ELSE {0}
  /\ text' \in IF mode \in {"R", "W"} THEN Texts ELSE {<< >>}
  /\ UNCHANGED <<program, parsed, read>>

Call(op) == outcome' = op /\ UNCHANGED read

(* Faulty: the same check for all operations. *)
Complete_two(needed) == options.s >= 0 /\ operands >= 2

Complete(needed) == options.s >= 0 /\ operands >= needed

(* serial_line, which every operation makes before it talks to the device:  *)
(* what is thrown for a malformed configuration main() answers with the     *)
(* usage, what stoi throws for a number beyond an int nobody catches.       *)
OnLine(op) ==
  CASE options.c = "well_formed"  -> op
    [] options.c = "malformed"    -> "usage"
    [] options.c = "out_of_range" -> "terminated"

(* regspec, as single_read checks it, and what it then reads. *)
Specifies(t) ==
  Len(t) >= 2 /\ Last(t) \in {"l", "b", "r"} /\ (Last(t) # "r" => t[1] \in {"1", "2", "4"})
Specified(t) ==
  IF Last(t) = "r" THEN [regs |-> strtol(t), order |-> "raw"]
  ELSE [regs |-> DigitValue(t[1]), order |-> IF t[2] = "l" THEN "little" ELSE "big"]

single_read ==
  /\ mode = "R"
  /\ \/ ~Complete(2) /\ Call("usage")
     \/ Complete(2) /\ text = << >> /\ (Call("usage") \/ Call("aborted"))
     \/ Complete(2) /\ text # << >> /\ ~Specifies(text) /\ Call("usage")
     \/ /\ Complete(2) /\ Specifies(text)
        /\ outcome' = OnLine("R")
        /\ read' = IF OnLine("R") = "R" THEN Specified(text) ELSE read

single_write ==
  /\ mode = "W"
  /\ Call(IF Complete(2) /\ strtol(text) \in 0..MaxValue THEN OnLine("W") ELSE "usage")

(* The file is read first; nobody catches what registers_from_file throws   *)
(* when there is none.                                                      *)
file_transfer ==
  /\ mode = "F"
  /\ IF ~Complete(2) THEN Call("usage") ELSE Call("terminated") \/ Call(OnLine("F"))

flash_update == mode = "U" /\ Call(IF Complete(1) THEN OnLine("U") ELSE "usage")

measure == mode = "m" /\ Call(IF options.m = "" THEN "usage" ELSE "m")

NoMode == mode = "unknown" /\ Call("usage")

(* Faulty: a configuration file is enough to start measuring. *)
DispatchFileFirst ==
  /\ outcome = "parsed" /\ UNCHANGED <<program, parsed, operands, text>>
  /\ IF options.m # "" THEN Call("m")
     ELSE single_read \/ single_write \/ file_transfer \/ flash_update \/ measure \/ NoMode

Dispatch ==
  /\ outcome = "parsed" /\ UNCHANGED <<program, parsed, operands, text>>
  /\ single_read \/ single_write \/ file_transfer \/ flash_update \/ measure \/ NoMode

Init ==
  /\ program \in {"crawler", "pwrmeter_client"}
  /\ given = << >> /\ mode = "unknown"
  /\ options = [s |-> -1, a |-> 500, r |-> 300, t |-> 3600, m |-> "",
                d |-> "/dev/ttyCOM1", c |-> "well_formed", l |-> "", o |-> "/tmp"]
  /\ operands = 0 /\ text = << >> /\ outcome = "parsing" /\ read = Unread

Options == ModeOption \/ MeasOption \/ NumberOption \/ TextOption \/ LastOption
-------------------------------------------------------------------------------
(* Properties.                                                              *)

Modes == {"R", "W", "F", "U", "m"}

(* given[i] is the last of the options os. *)
LastGiven(i, os) ==
  /\ i \in DOMAIN given /\ given[i].opt \in os
  /\ \A j \in DOMAIN given : j > i => given[j].opt \notin os

NoneGiven(os) == \A i \in DOMAIN given : given[i].opt \notin os

(* The digits of a number below base ^ 3. *)
Numeral(n, base) ==
  LET d(k) == Numerals[(k % base) + 1]
  IN  IF n < base THEN <<d(n)>>
      ELSE IF n < base * base THEN <<d(n \div base), d(n)>>
      ELSE <<d(n \div (base * base)), d(n \div base), d(n)>>

MaxRead == 125      \* the registers that a request can ask for

(* The usage says of a register specification: {1|2|4}{l|b} | Nr, where N   *)
(* may be in octal or hexadecimal as well as decimal.                       *)
AsSpecified ==
  /\ \A n \in {1, 2, 4} :
       /\ text = Numeral(n, 10) \o <<"l">> => read = [regs |-> n, order |-> "little"]
       /\ text = Numeral(n, 10) \o <<"b">> => read = [regs |-> n, order |-> "big"]
  /\ \A n \in 1..MaxRead :
       \/ text = Numeral(n, 10) \o <<"r">>
       \/ text = <<"0">> \o Numeral(n, 8) \o <<"r">>
       \/ text = <<"0", "x">> \o Numeral(n, 16) \o <<"r">>
       => read = [regs |-> n, order |-> "raw"]

(* The last of the line configurations given, if any, is of this kind. *)
LastLine(kind) == \E i \in DOMAIN given : LastGiven(i, {"c"}) /\ given[i].arg = kind

(* Of several modes the last is meant, with the last server; an operation   *)
(* that touches a device is called for that mode only, and only with a      *)
(* server, with a line configuration that is well-formed (the last one) and *)
(* after options that are all valid.  A configuration file that was given   *)
(* before another mode starts nothing.  A read is one of as many registers  *)
(* and in the order as its specification says.                              *)
RunsAsAsked ==
  outcome \in Modes =>
    /\ \E i \in DOMAIN given : LastGiven(i, Modes) /\ given[i].opt = outcome
    /\ \A i \in DOMAIN given :
         /\ given[i].opt \notin {"?", "h"}
         /\ given[i].opt \in NumberOptions[program] => given[i].arg # NaN
    /\ outcome # "m" => \E i \in DOMAIN given : LastGiven(i, {"s"}) /\ given[i].arg >= 0
    /\ outcome # "m" => NoneGiven({"c"}) \/ LastLine("well_formed")
    /\ outcome = "R" => AsSpecified

(* A command line is refused for one of these reasons only: an unknown      *)
(* option, no mode, too little for the mode, a parameter that the mode      *)
(* cannot take, or a malformed configuration of its line, whatever else is  *)
(* given.  A specification that the usage allows, Nr included, is no reason.*)
(* An exception ends the program only for a number that is none or beyond   *)
(* an int, or for a file that cannot be read.                               *)
RefusedRightly ==
  /\ outcome = "usage" =>
       \/ \E i \in DOMAIN given : given[i].opt = "?"
       \/ NoneGiven(Modes)
       \/ \E i \in DOMAIN given :
            /\ LastGiven(i, Modes)
            /\ \/ given[i].opt = "m" /\ given[i].arg = ""
               \/ /\ given[i].opt # "m"
                  /\ \/ NoneGiven({"s"}) \/ operands = 0
                     \/ \E j \in DOMAIN given : LastGiven(j, {"s"}) /\ given[j].arg < 0
                     \/ LastLine("malformed")
               \/ given[i].opt \in {"R", "W", "F"} /\ operands < 2
               \/ given[i].opt = "W" /\ strtol(text) \notin 0..MaxValue
               \/ /\ given[i].opt = "R"
                  /\ \A n \in {"1", "2", "4"}, e \in {"l", "b"} : text # <<n, e>>
                  /\ ~ (Len(text) >= 2 /\ Last(text) = "r")
  /\ outcome = "terminated" =>
       \/ \E i \in DOMAIN given : given[i].opt \in NumberOptions[program] /\ given[i].arg = NaN
       \/ \E i \in DOMAIN given :
            /\ LastGiven(i, Modes) /\ given[i].opt # "m"
            /\ LastLine("out_of_range") \/ given[i].opt = "F"
===============================================================================
