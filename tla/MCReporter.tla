------------------------------ MODULE MCReporter ------------------------------
(***************************************************************************)
(* An instance of Reporter for TLC: a measure with raw samples and one      *)
(* without, two instants that fall into different minutes.                  *)
(***************************************************************************)
EXTENDS Reporter

CONSTANTS Volts, Amps     \* the two measures

MCMeasures    == {Volts, Amps}
MCRawReported == {Volts}
MCInstants    == {59, 60}
===============================================================================
