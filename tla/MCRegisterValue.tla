--------------------------- MODULE MCRegisterValue ---------------------------
(***************************************************************************)
(* Instances of RegisterValue for TLC: registers of two bits, intmax_t of   *)
(* eight, and limits at and around the bounds of every type; negative ones  *)
(* also after a tab.                                                        *)
(***************************************************************************)
EXTENDS RegisterValue

Text(x, tab) == [tab |-> tab, minus |-> x < 0, digits |-> IF x < 0 THEN -x ELSE x]

MCLimits ==
  {Text(x, FALSE) : x \in {-129, -128, -3, -2, 0, 1, 2, 4, 7, 8, 16, 127, 128, 255, 256}}
  \cup {Text(x, TRUE) : x \in {-1, -3, -128, -255, -256, 2}}
  \cup {[tab |-> tab, minus |-> TRUE, digits |-> 0] : tab \in BOOLEAN}
===============================================================================
