------------------------------- MODULE MCCrawler -------------------------------
(***************************************************************************)
(* Instances of Crawler for TLC: two servers with a measure each;           *)
(* configurations without the second measure, with the first one repeated,  *)
(* or empty.                                                                *)
(***************************************************************************)
EXTENDS Crawler

CONSTANTS Volts, Amps,     \* the measures
          East, West       \* their servers

MCServers  == {East, West}
MCMeasures == {Volts, Amps}
MCConfigs  == {<<[server |-> East, measures |-> east], [server |-> West, measures |-> west]>> :
                 east \in {<<Volts>>, <<Volts, Volts>>}, west \in {<<Amps>>, <<>>}}
                \cup {<<>>}
MCTimelyConfigs == {<<[server |-> East, measures |-> <<Volts>>],
                      [server |-> West, measures |-> <<Amps>>]>>}
MCSampling == [m \in MCMeasures |-> IF m = Volts THEN 1 ELSE 3]
MCTimelySampling == [m \in MCMeasures |-> IF m = Volts THEN 2 ELSE 3]

(* Overload: reading Volts may take longer than its sampling period. *)
MCCost       == [t \in Tasks |-> IF t = Volts THEN 2 ELSE 0]
MCTimelyCost == [t \in Tasks |-> IF t \in MCMeasures THEN 2 ELSE 0]
===============================================================================
