----------------------------- MODULE MCCommandLine ----------------------------
(* Short texts: specifications that are right, nearly right and wrong, in   *)
(* the three bases, and values on both sides of the limits.                 *)
EXTENDS Logging

MCCharacters == {"-", "0", "1", "3", "x", "l", "r"}

MCTexts == UNION {[1..n -> MCCharacters] : n \in 0..2}
             \cup {<<"4", "b">>, <<"1", "3", "r">>, <<"1", "b", "l">>, <<"1", "2", "5", "r">>,
                   <<"0", "1", "0", "r">>, <<"0", "8", "r">>, <<"0", "x", "b", "r">>,
                   <<"0", "x", "r">>, <<" ", "-", "0", "r">>, <<"+", "1", "2">>}
===============================================================================
