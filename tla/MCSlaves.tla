------------------------------- MODULE MCSlaves -------------------------------
(***************************************************************************)
(* Instances of Slaves for TLC: files of up to two descriptors with up to   *)
(* two measures.  Some are about what read_config refuses and how it fills  *)
(* in periods; the others about lines, ids on both sides of the limits,     *)
(* addresses that measures share and right and malformed parameters.        *)
(***************************************************************************)
EXTENDS Slaves

Json(id, enabled, period, line, broken) ==
  [modbus_id |-> id, name |-> "server", line |-> line, enabled |-> enabled,
   answering_time |-> << >>, sampling_period |-> period, broken |-> broken,
   min |-> "none", max |-> "none"]

Measure(name, enabled, period, min, max, broken) ==
  [name |-> name, address |-> 1, random |-> Malformed, enabled |-> enabled,
   sampling_period |-> period, min |-> min, max |-> max, broken |-> broken]

MeasureSets ==
  LET plain   == Measure("plain", << >>, << >>, "none", "none", FALSE)
      own     == Measure("own", <<TRUE>>, <<3>>, "fits", "fits", FALSE)
      zero    == Measure("zero", << >>, <<0>>, "none", "fits", FALSE)
      off     == Measure("off", <<FALSE>>, <<9>>, "none", "none", FALSE)
      broken  == Measure("broken", <<FALSE>>, << >>, "none", "none", TRUE)
      outside == Measure("outside", << >>, << >>, "fits", "outside", FALSE)
      beyond  == Measure("beyond", <<FALSE>>, << >>, "beyond", "none", FALSE)
  IN  {<< >>, <<plain, own>>, <<off, zero>>, <<own, broken>>, <<outside>>, <<beyond, own>>}

ForConfig ==
  LET servers == {Json(id, enabled, period, "well-formed", FALSE) :
                    id \in {1, 2}, enabled \in {<< >>, <<FALSE>>},
                    period \in {<< >>, <<0>>, <<7>>}}
                 \cup {Json(2, <<FALSE>>, << >>, "random", TRUE)}
      descriptors == [server : servers, measures : MeasureSets]
  IN  {<< >>} \cup {<<d>> : d \in descriptors}
              \cup {<<d, e>> : d, e \in descriptors}

Random(enabled, address, parameters) ==
  [Measure("random", enabled, << >>, "none", "none", FALSE)
     EXCEPT !.address = address, !.random = parameters]

ForSlaves ==
  LET parameters == {Malformed, [mean |-> 5, dev |-> 1], [mean |-> -2, dev |-> 2]}
      measures   == {Random(<<TRUE>>, a, p) : a \in {1, 2}, p \in parameters}
      hidden     == Random(<<FALSE>>, 1, [mean |-> 9, dev |-> 0])
      servers(ids, line) == {Json(id, << >>, << >>, line, FALSE) : id \in ids}
      stanzas(ids) ==
        [server : servers(ids, "random"),
         measures : {<<hidden, m>> : m \in measures} \cup [1..2 -> measures]]
          \cup [server : servers(ids, "well-formed") \cup servers(ids, "malformed"),
                measures : {<<Random(<<TRUE>>, 1, Malformed)>>}]
  IN  {<<s, t>> : s \in stanzas({247, 248}), t \in stanzas({-1, 3})}

MCFiles == ForConfig \cup ForSlaves
===============================================================================
