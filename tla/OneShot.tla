------------------------------- MODULE OneShot --------------------------------
(***************************************************************************)
(* single_read, single_write and file_transfer (modbus_ops.cpp) with the    *)
(* calls of RTUSlave they are made of: one command after another on the     *)
(* holding registers of a device.  A request or an answer may be lost, and  *)
(* the device may be one that refuses requests for no registers.            *)
(*                                                                         *)
(* libmodbus and the device are external: an address is cut to its width on *)
(* the wire, and a request beyond the last register is refused.             *)
(***************************************************************************)
EXTENDS Integers

CONSTANTS Chunk,        \* MODBUS_MAX_WRITE_REGISTERS, 123
          Most,         \* MODBUS_MAX_READ_REGISTERS, 125
          Space,        \* addresses, 2^16
          Radix,        \* values of a register, 2^16
          Addresses,    \* what a user may give as the address,
          Values,       \* the value of a write,
          Counts,       \* and the number of registers of a read
          Files         \* what registers_from_file makes of the files

Words == 0..(Radix - 1)

ASSUME OneShotAssumption ==
  /\ Chunk \in Nat \ {0, 1} /\ Most \in Nat
  /\ Space \in Nat \ {0} /\ Radix \in Nat \ {0}
  /\ Addresses \subseteq Int /\ Values \subseteq Int /\ Counts \subseteq Int
  /\ \A f \in Files :
       /\ f = [size |-> f.size, regs |-> f.regs]
       /\ f.size \in 0..Space /\ f.regs \in [0..(f.size - 1) -> Words]

VARIABLES at,           \* the call that is next; "completed", "failed", "usage", "idle"
          first,        \* the address given by the user
          content,      \* the registers to be written
          count,        \* how many are to be read
          address, regs,\* of the next register: in the device, in content
          chunk,
          strict,       \* the device refuses requests for no registers
          fault,        \* a call of this command failed for another reason
          holding,      \* the registers of the device
          before        \* and what they were when the command began

cursor == <<address, regs, chunk>>
vars   == <<at, first, content, count, cursor, strict, fault, holding, before>>

Over == {"idle", "completed", "failed", "usage"}

Nothing   == [size |-> 0, regs |-> [k \in 0..(-1) |-> 0]]
One(v)    == [size |-> 1, regs |-> [k \in 0..0 |-> v]]
chunks    == content.size \div Chunk
remaining == content.size % Chunk

-------------------------------------------------------------------------------
(* Calls of libmodbus.                                                      *)

Wire(a) == a % Space

Refused(a, n) == Wire(a) + n > Space \/ (n = 0 /\ strict)

Throw == at' = "failed" /\ UNCHANGED cursor

Stored(n) ==
  holding' = [k \in DOMAIN holding |->
                IF Wire(address) <= k /\ k < Wire(address) + n
                THEN content.regs[regs + (k - Wire(address))] ELSE holding[k]]

(* The next n registers of content.  Then is what follows a confirmation.   *)
modbus_write_registers(n, Then) ==
  /\ \/ Refused(address, n) /\ Throw /\ UNCHANGED <<holding, fault>>
     \/ /\ ~Refused(address, n) /\ Throw /\ fault' = TRUE
        /\ Stored(n) \/ UNCHANGED holding
     \/ ~Refused(address, n) /\ Stored(n) /\ Then /\ UNCHANGED fault
  /\ UNCHANGED <<first, content, count, strict, before>>

-------------------------------------------------------------------------------
(* The commands.                                                            *)

(* The command is refused, or its file or the line cannot be opened, or its *)
(* first call is next.                                                      *)
Command(a, c, n, next) ==
  /\ at \in Over
  /\ first' = a /\ content' = c /\ count' = n
  /\ address' = a /\ regs' = 0 /\ chunk' = 0
  /\ \/ at' = next /\ fault' = FALSE
     \/ next # "usage" /\ at' = "failed" /\ fault' = TRUE
  /\ before' = holding
  /\ UNCHANGED <<strict, holding>>

(* Faulty: any value is taken. *)
single_write_any(a, v) == Command(a, One(v), 0, "write")

single_write(a, v) ==
  Command(a, One(v), 0, IF v < 0 \/ v > Radix - 1 THEN "usage" ELSE "write")

single_read(a, n, raw) ==
  Command(a, Nothing, n, IF ~raw /\ n \notin {1, 2, 4} THEN "usage" ELSE "read")

file_transfer(a, f) ==
  Command(a, f, 0, IF f.size < Chunk THEN "remaining" ELSE "chunk")

write_holding_register ==
  /\ at = "write"
  /\ modbus_write_registers(1, at' = "completed" /\ UNCHANGED cursor)

(* A number of registers that libmodbus does not read, or a vector cannot   *)
(* have, throws.                                                            *)
read_holding_registers ==
  /\ at = "read"
  /\ IF count \notin 0..Most \/ Refused(address, count)
     THEN Throw /\ UNCHANGED fault
     ELSE \/ at' = "completed" /\ UNCHANGED <<cursor, fault>>
          \/ Throw /\ fault' = TRUE
  /\ UNCHANGED <<first, content, count, strict, holding, before>>

(* Faulty: the address is that of the first chunk. *)
NextChunkSameAddress ==
  /\ chunk' = chunk + 1 /\ regs' = regs + Chunk
  /\ at' = IF chunk + 1 = chunks THEN "remaining" ELSE "chunk"
  /\ UNCHANGED address

(* Faulty: bytes taken for registers. *)
NextChunkInBytes ==
  /\ chunk' = chunk + 1 /\ address' = address + 2 * Chunk /\ regs' = regs + Chunk
  /\ at' = IF chunk + 1 = chunks THEN "remaining" ELSE "chunk"

NextChunk ==
  /\ chunk' = chunk + 1 /\ address' = address + Chunk /\ regs' = regs + Chunk
  /\ at' = IF chunk + 1 = chunks THEN "remaining" ELSE "chunk"

(* Faulty: nothing is written after the last whole chunk. *)
write_multiple_registers_whole ==
  \/ at = "chunk" /\ modbus_write_registers(Chunk, NextChunk)
  \/ /\ at = "remaining" /\ at' = "completed"
     /\ UNCHANGED <<first, content, count, cursor, strict, fault, holding, before>>

(* The remaining registers are written even when there are none.            *)
write_multiple_registers ==
  \/ at = "chunk" /\ modbus_write_registers(Chunk, NextChunk)
  \/ /\ at = "remaining"
     /\ modbus_write_registers(remaining, at' = "completed" /\ UNCHANGED cursor)

-------------------------------------------------------------------------------
Init ==
  /\ at = "idle" /\ fault = FALSE /\ strict \in BOOLEAN
  /\ first = 0 /\ content = Nothing /\ count = 0
  /\ address = 0 /\ regs = 0 /\ chunk = 0
  /\ holding = [k \in 0..(Space - 1) |-> 0] /\ before = holding

Calls == write_holding_register \/ read_holding_registers \/ write_multiple_registers

Commands ==
  \E a \in Addresses :
    \/ \E v \in Values : single_write(a, v)
    \/ \E n \in Counts, raw \in BOOLEAN : single_read(a, n, raw)
    \/ \E f \in Files : file_transfer(a, f)

Next == Commands \/ Calls

Spec == Init /\ [][Next]_vars
-------------------------------------------------------------------------------
(* Properties.                                                              *)

(* A value that does not fit in a register never reaches the device.        *)
TypeOK ==
  /\ at \in Over \cup {"chunk", "remaining", "write", "read"}
  /\ first \in Int /\ address \in Int /\ count \in Int
  /\ content \in Files \cup {Nothing} \cup {One(v) : v \in Values}
  /\ regs \in 0..content.size /\ chunk \in 0..chunks
  /\ strict \in BOOLEAN /\ fault \in BOOLEAN
  /\ holding \in [0..(Space - 1) -> Words] /\ before \in [0..(Space - 1) -> Words]

(* The device with the first m registers of content, from the address on.   *)
Written(m) ==
  [k \in 0..(Space - 1) |-> IF (k - first) % Space < m
                            THEN content.regs[(k - first) % Space] ELSE before[k]]

(* Whatever is lost, the device holds a prefix of the file, in its place,   *)
(* and every other register is what it was; the prefix ends with a request. *)
PrefixWritten ==
  \E m \in 0..content.size :
    /\ holding = Written(m)
    /\ m % Chunk = 0 \/ m = content.size

(* A command that returns has written all of it.                            *)
CompletedWhole == at = "completed" => holding = Written(content.size)

(* The reasons for a command to fail when nothing is lost: a request that   *)
(* crosses the last address; a file that ends with a whole chunk, or none   *)
(* to read, and a device that refuses requests for no registers; a number   *)
(* of registers that cannot be read at once.                                *)
Doomed ==
  \/ \E c \in 0..chunks :
       Wire(first + c * Chunk) + (IF c = chunks THEN remaining ELSE Chunk) > Space
  \/ remaining = 0 /\ count = 0 /\ strict
  \/ count \notin 0..Most
  \/ Wire(first) + count > Space

(* A command fails for one of these reasons, always, and for no other.      *)
FailsOnlyDoomed ==
  /\ at = "failed" /\ ~fault => Doomed
  /\ at = "completed" => ~Doomed
===============================================================================
