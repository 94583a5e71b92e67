------------------------------ MODULE MeasConfig ------------------------------
(***************************************************************************)
(* read_config (meas_config.cpp): the file is converted as a whole, with    *)
(* the limits of its registers, then every server that is enabled is moved  *)
(* into the map, loses the measures that are not enabled and gives its      *)
(* sampling period to those that have none.  What is thrown on the way ends *)
(* the program.  What becomes of the configuration is in Slaves.            *)
(*                                                                         *)
(* A field that may be missing is << >> or <<value>>.  A part is broken if  *)
(* a required field is missing, or a field is not of its type or not one    *)
(* of its enumeration.  A limit is missing, or assign_from_string takes it  *)
(* ("fits"), or refuses it without setting errno ("outside" of its type) or *)
(* with ("beyond" every integer, or a minus sign before an unsigned one):   *)
(* RegisterValue has the details.  Of the fields that are only copied those *)
(* that Slaves uses are here.                                               *)
(***************************************************************************)
EXTENDS Integers, Sequences, SequencesExt

CONSTANT Files      \* the configurations: sequences of descriptors

Limits == {"none", "fits", "outside", "beyond"}

WellFormed(f) ==
  /\ f \in Seq(ToSet(f))
  /\ \A d \in DOMAIN f :
       LET measures == f[d].measures
       IN  /\ measures \in Seq(ToSet(measures))
           /\ \A j \in {f[d].server} \cup ToSet(measures) :
                /\ j.broken \in BOOLEAN /\ j.min \in Limits /\ j.max \in Limits
                /\ j.enabled \in {<< >>, <<TRUE>>, <<FALSE>>}
                /\ \/ j.sampling_period = << >>
                   \/ j.sampling_period = <<j.sampling_period[1]>>

ASSUME ConfigAssumption == \A f \in Files : WellFormed(f)

VARIABLES file,
          errno,    \* "ERANGE" or "other"
          inherited,\* errno when the conversion began: the parser, which sets it
                    \* to 0 before each number it reads, has been over the file
          at,       \* "convert", "insert", "running" or "refused"
          next,     \* the descriptor that is next,
          part,     \* and which part of it: 0 the server, k the measure k
          config    \* measure_descriptors

config_vars == <<file, errno, inherited, at, next, part, config>>

value_or(given, default) == IF given = << >> THEN default ELSE given[1]

server_from_json(j) ==
  [modbus_id       |-> j.modbus_id,
   name            |-> j.name,
   line            |-> j.line,
   enabled         |-> value_or(j.enabled, TRUE),
   answering_time  |-> value_or(j.answering_time, 500),
   sampling_period |-> value_or(j.sampling_period, 5)]

measure_from_json(j) ==
  [name            |-> j.name,
   address         |-> j.address,
   random          |-> j.random,
   enabled         |-> value_or(j.enabled, TRUE),
   sampling_period |-> value_or(j.sampling_period, 0)]

descriptor_from_json(j) ==
  [server   |-> server_from_json(j.server),
   measures |-> [i \in DOMAIN j.measures |-> measure_from_json(j.measures[i])]]

-------------------------------------------------------------------------------
(* j.get<std::vector<descriptor_t>>() converts one part after another.      *)

Measures(d) == DOMAIN file[d].measures
Part(d, k)  == IF k = 0 THEN file[d].server ELSE file[d].measures[k]

(* Limits of a part; those of a server are empty. *)
ErrnoAfter(limit, before) == IF limit = "beyond" THEN "ERANGE" ELSE before
Accepted(limit, before) ==
  limit = "none" \/ (limit = "fits" /\ ErrnoAfter(limit, before) # "ERANGE")

ConvertPart ==
  /\ at = "convert" /\ next <= Len(file)
  /\ LET j      == Part(next, part)
         errno1 == ErrnoAfter(j.min, errno)
     IN  IF j.broken \/ ~Accepted(j.min, errno)
         THEN at' = "refused" /\ errno' = IF j.broken THEN errno ELSE errno1
         ELSE /\ errno' = ErrnoAfter(j.max, errno1)
              /\ at' = IF Accepted(j.max, errno1) THEN "convert" ELSE "refused"
  /\ IF part + 1 \in Measures(next) THEN part' = part + 1 /\ UNCHANGED next
                                    ELSE part' = 0 /\ next' = next + 1
  /\ UNCHANGED <<file, inherited, config>>

Converted ==
  /\ at = "convert" /\ next > Len(file)
  /\ at' = "insert" /\ next' = 1
  /\ UNCHANGED <<file, errno, inherited, part, config>>

-------------------------------------------------------------------------------
(* The loop over the descriptors.                                           *)

(* Faulty: the numbers of a descriptor that is moved from go, too. *)
moved_from_all(desc) == [desc EXCEPT !.server.name = "", !.measures = << >>,
                                     !.server.sampling_period = 0]

(* What is left of a descriptor that was moved from: strings and vectors    *)
(* are empty, numbers are what they were.                                   *)
moved_from(desc) == [desc EXCEPT !.server.name = "", !.measures = << >>]

(* The descriptor in the map: enabled measures, each with a period and by   *)
(* the place it has in the file, since of the places only the order counts. *)
Stored(desc) ==
  LET enabled   == {k \in DOMAIN desc.measures : desc.measures[k].enabled}
      server    == moved_from(desc).server
      period(m) == IF m.sampling_period = 0 THEN server.sampling_period
                                            ELSE m.sampling_period
  IN  [desc EXCEPT !.measures = [k \in enabled |->
                     [desc.measures[k] EXCEPT !.sampling_period = period(desc.measures[k])]]]

(* Faulty: try_emplace comes before the look at enabled. *)
SkippedLate(server) == ~server.enabled /\ server.modbus_id \notin DOMAIN config

Skipped(server) == ~server.enabled

Insert ==
  /\ at = "insert" /\ next <= Len(file)
  /\ LET desc == descriptor_from_json(file[next])
         id   == desc.server.modbus_id
     IN  IF Skipped(desc.server) THEN UNCHANGED <<at, config>>
         ELSE IF id \in DOMAIN config THEN at' = "refused" /\ UNCHANGED config
         ELSE /\ config' = [i \in DOMAIN config \cup {id} |->
                              IF i = id THEN Stored(desc) ELSE config[i]]
              /\ UNCHANGED at
  /\ next' = next + 1
  /\ UNCHANGED <<file, errno, inherited, part>>

Return ==
  /\ at = "insert" /\ next > Len(file)
  /\ at' = "running"
  /\ UNCHANGED <<file, errno, inherited, next, part, config>>

ReadInit ==
  /\ file \in Files /\ errno \in {"ERANGE", "other"} /\ inherited = errno
  /\ at = "convert" /\ next = 1 /\ part = 0 /\ config = [i \in {} |-> 0]

read_config == ConvertPart \/ Converted \/ Insert \/ Return
-------------------------------------------------------------------------------
(* Properties.                                                              *)

On(j) == j.enabled # <<FALSE>>
Running == {d \in DOMAIN file : On(file[d].server)}
Id(d)   == file[d].server.modbus_id

(* The program runs with the servers and the measures that are enabled, in  *)
(* their order, each with its own sampling period or else that of its       *)
(* server, which is the one given or 5 seconds: a period is 0, which keeps  *)
(* the thread busy for ever, only if the file gives 0 to the server.        *)
PeriodMeant(j, server) ==
  IF j.sampling_period \notin {<< >>, <<0>>} THEN j.sampling_period
  ELSE IF server.sampling_period = << >> THEN <<5>> ELSE server.sampling_period

ConfigAsMeant ==
  at = "running" =>
    /\ DOMAIN config = {Id(d) : d \in Running}
    /\ \A d \in Running :
         LET stored == config[Id(d)]
         IN  /\ stored.server = server_from_json(file[d].server)
             /\ DOMAIN stored.measures = {k \in Measures(d) : On(file[d].measures[k])}
             /\ \A k \in DOMAIN stored.measures :
                  /\ stored.measures[k].name = file[d].measures[k].name
                  /\ <<stored.measures[k].sampling_period>>
                       = PeriodMeant(file[d].measures[k], file[d].server)

(* A file is refused for a part that is broken or a limit that does not     *)
(* fit, also of what is not enabled, and for two servers with one           *)
(* identifier, both enabled; and, when errno was ERANGE beforehand, for any *)
(* limit at all.  It is refused for no other reason, and always for these.  *)
Wrong ==
  \/ \E d \in DOMAIN file : \E k \in {0} \cup Measures(d) :
       LET j == Part(d, k)
       IN  \/ j.broken \/ {j.min, j.max} \cap {"outside", "beyond"} # {}
           \/ inherited = "ERANGE" /\ {j.min, j.max} # {"none"}
  \/ \E d, e \in Running : d # e /\ Id(d) = Id(e)

FilesRefusedRightly ==
  /\ at = "refused" => Wrong
  /\ at = "running" => ~Wrong
===============================================================================
