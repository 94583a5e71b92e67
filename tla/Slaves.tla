-------------------------------- MODULE Slaves --------------------------------
(***************************************************************************)
(* From the configuration file to the slaves of the crawler: what           *)
(* read_config returns, a slave for every server of it, which the           *)
(* constructor of Executor makes, and whom a read of a measure asks.  A     *)
(* server without a serial device is a RandomSlave, with a generator for    *)
(* every address that its measures name; the others are RTUSlaves.          *)
(*                                                                         *)
(* libmodbus is external: it refuses some ids, which nobody looks at, and   *)
(* then it asserts, at the first request, that an id was set.  A normal     *)
(* distribution is any value up to Spread deviations from the mean.         *)
(***************************************************************************)
EXTENDS MeasConfig

CONSTANT Spread         \* bound on the draws

(* What becomes of the line of a server, and the mean and the deviation of  *)
(* a measure, or Malformed.                                                 *)
Lines     == {"random", "well-formed", "malformed"}
Malformed == [mean |-> 0, dev |-> -1]

ASSUME SlavesAssumption ==
  /\ Spread \in Nat
  /\ \A f \in Files : \A d \in DOMAIN f :
       /\ f[d].server.modbus_id \in Int /\ f[d].server.line \in Lines
       /\ \A k \in DOMAIN f[d].measures :
            /\ f[d].measures[k].address \in Int
            /\ \/ f[d].measures[k].random = Malformed
               \/ f[d].measures[k].random.dev \in Nat

VARIABLES main,     \* "creating", "running", "terminated" or "aborted"
          slaves,   \* by server, those so far: id that is set, generators
          last_read \* the last read: of which measure, whom it asked, the value

slave_vars == <<main, slaves, last_read>>

Ids   == 0..247     \* the ids that libmodbus takes
Unset == -1
NoRead == [server |-> Unset, measure |-> 0, asked |-> Unset, value |-> 0]

-------------------------------------------------------------------------------
(* Creating, in the order of the map.                                       *)

Missing == DOMAIN config \ DOMAIN slaves
Id1     == CHOOSE id \in Missing : \A other \in Missing : id <= other
Add(slave) ==
  slaves' = [id \in DOMAIN slaves \cup {Id1} |->
               IF id = Id1 THEN slave ELSE slaves[id]]

(* Faulty: the last of the measures with an address decides. *)
Decides_last(measures, k) ==
  \A j \in DOMAIN measures : measures[j].address = measures[k].address => j <= k

(* Of several measures with one address the first is looked at only.        *)
Decides(measures, k) ==
  \A j \in DOMAIN measures : measures[j].address = measures[k].address => k <= j

(* RandomSlave: the parameters by address. *)
fake_registers(measures) ==
  LET deciding  == {k \in DOMAIN measures : Decides(measures, k)}
      addresses == {measures[k].address : k \in deciding}
  IN  [a \in addresses |->
         measures[CHOOSE k \in deciding : measures[k].address = a].random]

CreateRandom ==
  LET registers == fake_registers(config[Id1].measures)
  IN  /\ config[Id1].server.line = "random"
      /\ IF \E a \in DOMAIN registers : registers[a] = Malformed
         THEN main' = "terminated" /\ UNCHANGED slaves
         ELSE Add([id |-> Id1, fake |-> registers]) /\ UNCHANGED main

(* Faulty: the id is set only where debugging is. *)
set_slave_not(id) == Unset

set_slave(id) == IF id \in Ids THEN id ELSE Unset

(* RTUSlave: the line is well-formed and it can be opened, or it throws.    *)
CreateRTU ==
  /\ config[Id1].server.line # "random"
  /\ \/ /\ config[Id1].server.line = "well-formed"
        /\ Add([id |-> set_slave(Id1), fake |-> << >>])
        /\ UNCHANGED main
     \/ main' = "terminated" /\ UNCHANGED slaves

Create ==
  /\ at = "running" /\ main = "creating" /\ Missing # {}
  /\ CreateRandom \/ CreateRTU
  /\ UNCHANGED <<config_vars, last_read>>

Run ==
  /\ at = "running" /\ main = "creating" /\ Missing = {}
  /\ main' = "running"
  /\ UNCHANGED <<config_vars, slaves, last_read>>

-------------------------------------------------------------------------------
(* Reading the measure k of the server id.                                  *)

Draws(r) == (r.mean - Spread * r.dev)..(r.mean + Spread * r.dev)

Result(id, k, asked, v) ==
  last_read' = [server |-> id, measure |-> k, asked |-> asked, value |-> v]

(* An address without a generator would throw, which counts as a failure.   *)
ReadRandom(id, k) ==
  LET address == config[id].measures[k].address
  IN  /\ config[id].server.line = "random"
      /\ IF address \notin DOMAIN slaves[id].fake THEN Result(id, k, Unset, 0)
         ELSE \E v \in Draws(slaves[id].fake[address]) :
                Result(id, k, slaves[id].id, v)
      /\ UNCHANGED main

(* What a device answers, and whether it does, is left to SerialBus.        *)
ReadRTU(id, k) ==
  /\ config[id].server.line # "random"
  /\ IF slaves[id].id = Unset
     THEN main' = "aborted" /\ Result(id, k, Unset, 0)
     ELSE Result(id, k, slaves[id].id, 0) /\ UNCHANGED main

Read ==
  /\ main = "running"
  /\ \E id \in DOMAIN slaves : \E k \in DOMAIN config[id].measures :
       ReadRandom(id, k) \/ ReadRTU(id, k)
  /\ UNCHANGED <<config_vars, slaves>>

SlavesInit == ReadInit /\ main = "creating" /\ slaves = << >> /\ last_read = NoRead

SlavesNext == (read_config /\ UNCHANGED slave_vars) \/ Create \/ Run \/ Read

SlavesSpec == SlavesInit /\ [][SlavesNext]_<<config_vars, slave_vars>>
-------------------------------------------------------------------------------
(* Properties.                                                              *)

Stanza  == file[CHOOSE d \in Running : Id(d) = last_read.server]
Reading == Stanza.measures[last_read.measure]

(* In a program that runs, a random measure always has a value, and its     *)
(* parameters are those of the first enabled measure of its server in the   *)
(* file that has its address, however many there are and whatever the       *)
(* others say, malformed ones and those of disabled measures included.      *)
FirstDecides ==
  last_read # NoRead /\ Stanza.server.line = "random" =>
    LET alike == {k \in DOMAIN Stanza.measures :
                    /\ On(Stanza.measures[k])
                    /\ Stanza.measures[k].address = Reading.address}
    IN  /\ last_read.asked = last_read.server
        /\ \E first \in alike :
             /\ \A k \in alike : first <= k
             /\ Stanza.measures[first].random # Malformed
             /\ last_read.value \in Draws(Stanza.measures[first].random)

(* A read asks a server that is enabled, the one it was configured for; the *)
(* program is aborted at a read, instead of failing it, only if the id of   *)
(* that server is none that a device can have.                              *)
RightServerAsked ==
  /\ last_read # NoRead /\ main # "aborted" =>
       \E d \in Running : Id(d) = last_read.server /\ last_read.asked = last_read.server
  /\ main = "aborted" => last_read.server \notin Ids
===============================================================================
