----------------------------- MODULE MCSerialBus ------------------------------
(***************************************************************************)
(* Instances of SerialBus for TLC: a server with measures of two shapes on  *)
(* the line of another server, which answers within libmodbus's timeout by  *)
(* default, and a server with a line of its own.                            *)
(***************************************************************************)
EXTENDS SerialBus

CONSTANTS s1, s2, s3, l1, l2

MCMeasures == {"a", "b", "c", "d"}
MCServer == [m \in MCMeasures |-> CASE m \in {"a", "b"} -> s1
                                    [] m = "c" -> s2 [] m = "d" -> s3]
MCShape  == [m \in MCMeasures |-> IF m = "b" THEN "pair" ELSE "single"]
MCLine   == [s \in {s1, s2, s3} |-> IF s = s3 THEN l2 ELSE l1]
MCanswering_time == [s \in {s1, s2, s3} |-> CASE s = s1 -> 3 [] s = s2 -> 0
                                               [] s = s3 -> 1]
===============================================================================
