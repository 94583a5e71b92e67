---------------------------- MODULE MCFlashUpdate -----------------------------
(***************************************************************************)
(* Instances of FlashFile for TLC: lines of eight registers and offsets     *)
(* beyond one register.  The bytes of a file go up and differ from file to  *)
(* file, so that one in the wrong place is noticed.                         *)
(***************************************************************************)
EXTENDS FlashFile

CONSTANT Lengths    \* in bytes, one file of each

MCFiles  == {[k \in 1..n |-> 1 + ((k + (k \div 7) + n) % (Power[ByteBits] - 1))] : n \in Lengths}

(* TLC evaluates what stands for a constant at every use, and other         *)
(* definitions once.                                                        *)
ImagesOnce == {registers_from_file(f) : f \in MCFiles}
MCImages   == ImagesOnce

MCWords  == 0..(Radix - 1)
===============================================================================
