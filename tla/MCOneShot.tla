------------------------------ MODULE MCOneShot -------------------------------
(***************************************************************************)
(* Instances of OneShot for TLC.  The registers of a file differ from each  *)
(* other, so that one in the wrong place is noticed.                        *)
(***************************************************************************)
EXTENDS OneShot

CONSTANT Lengths      \* of the files, in registers

MCFiles == {[size |-> n, regs |-> [k \in 0..(n - 1) |-> 1 + ((k + n) % (Radix - 1))]]
            : n \in Lengths}
MCAddresses == {-1, 2, 5}
MCValues    == {-1, 1, Radix}
MCCounts    == {-1, 0, 2, 5}
===============================================================================
