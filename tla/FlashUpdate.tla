----------------------------- MODULE FlashUpdate ------------------------------
(***************************************************************************)
(* flash_update (modbus_ops.cpp): an image is written to a device line by   *)
(* line, through a buffer of registers, and handed over with its length and *)
(* checksum.  Every call is a request and an answer.  A request or an       *)
(* answer may be lost and a request may be refused: then the call throws,   *)
(* the update is over, and the user may start another one, on a device      *)
(* that is left with the registers, the buffer and the flash of the first.  *)
(*                                                                         *)
(* The device is external.  It is what the registers and commands of        *)
(* flash_update suppose: write_segment copies chunk_len bytes of the buffer *)
(* to the offset, done makes the flash what total_len and crc32 say.        *)
(***************************************************************************)
EXTENDS Integers

CONSTANTS HalfLine,    \* modbus_regs_at_once, 64
          Radix,       \* values of a register, 2^16
          FlashSize,   \* registers the flash has room for
          Words,       \* what a register of an image can hold
          Erased,      \* what a register of an erased flash holds
          Images       \* what registers_from_file makes of the files

flash_line_bytes == 4 * HalfLine
LineRegs == 2 * HalfLine

ASSUME FlashAssumption ==
  /\ HalfLine \in Nat \ {0} /\ Radix \in Nat \ {0} /\ FlashSize \in Nat
  /\ flash_line_bytes < Radix
  /\ Erased \in Words
  /\ Images # {}
  /\ \A i \in Images :
       /\ i = [size |-> i.size, regs |-> i.regs, crc |-> i.crc]
       /\ i.size \in 0..FlashSize /\ 2 * i.size < Radix * Radix
       /\ i.regs \in [0..(i.size - 1) -> Words]
       /\ i.crc \in 0..(Radix * Radix - 1)

VARIABLES at,             \* the call that is next; "completed", "failed", "idle"
          image,          \* content and checksum
          flash_line, flash_offset,
          regs,           \* the next register of content
          buffer_offset,  \* from the first register of the buffer
          strict,         \* the device refuses a write of no registers
          fault,          \* a call of this update failed for another reason
          hold, buffer, flash,   \* the device
          installed       \* and what it was told to start from

cursor  == <<flash_line, flash_offset, regs, buffer_offset>>
device  == <<hold, buffer, flash, installed>>
vars    == <<at, image, cursor, strict, fault, device>>

Registers == {"total_len_high", "total_len_low", "crc32_high", "crc32_low",
              "offset_high", "offset_low", "chunk_len"}
Calls == Registers \cup {"version", "start", "first_half", "second_half",
                         "chunk", "rest", "write_segment", "done"}

(* A 32 bit value in two registers. *)
high(x) == (x \div Radix) % Radix
(* Faulty: the low register is not cut to its width. *)
low_uncut(x) == x
low(x)  == x % Radix
Value(h, l) == h * Radix + l

total_len_bytes == 2 * image.size
full_lines      == total_len_bytes \div flash_line_bytes
remaining_bytes == total_len_bytes % flash_line_bytes
(* Faulty: bytes taken for registers. *)
remaining_bytes_for_regs == remaining_bytes % HalfLine
remaining_regs  == (remaining_bytes \div 2) % HalfLine
remaining_chunks == (remaining_bytes \div 2) \div HalfLine

-------------------------------------------------------------------------------
(* Calls.                                                                   *)

(* A call takes effect and is confirmed, or it throws, and took effect or not. *)
Call(Effect, Then) ==
  /\ \/ Effect /\ Then /\ UNCHANGED fault
     \/ /\ Effect \/ UNCHANGED device
        /\ at' = "failed" /\ fault' = TRUE
        /\ UNCHANGED cursor
  /\ UNCHANGED <<image, strict>>

Goto(next) == at' = next /\ UNCHANGED cursor

write_holding_register(reg, value, next) ==
  /\ at = reg
  /\ Call(/\ hold' = [hold EXCEPT ![reg] = value]
          /\ UNCHANGED <<buffer, flash, installed>>, Goto(next))

(* n registers of the image, from the one at src, to the buffer, from dst.  *)
write_multiple_registers(dst, src, n, Then) ==
  IF n = 0 /\ strict
  THEN /\ at' = "failed"
       /\ UNCHANGED <<image, cursor, strict, fault, device>>
  ELSE Call(/\ buffer' = [k \in DOMAIN buffer |->
                            IF dst <= k /\ k < dst + n
                            THEN image.regs[src + (k - dst)] ELSE buffer[k]]
            /\ UNCHANGED <<hold, flash, installed>>, Then)

(* write_segment in the device *)
Program ==
  LET first == Value(hold.offset_high, hold.offset_low) \div 2
  IN  /\ flash' = [k \in DOMAIN flash |->
                     IF first <= k /\ k < first + hold.chunk_len \div 2
                     THEN buffer[k - first] ELSE flash[k]]
      /\ UNCHANGED <<hold, buffer, installed>>

(* done in the device *)
Install ==
  LET n == Value(hold.total_len_high, hold.total_len_low) \div 2
  IN  /\ installed' = [size |-> n, regs |-> [k \in 0..(n - 1) |-> flash[k]],
                       crc |-> Value(hold.crc32_high, hold.crc32_low)]
      /\ UNCHANGED <<hold, buffer, flash>>

-------------------------------------------------------------------------------
(* The program.                                                             *)

Begin ==
  /\ at \in {"idle", "completed", "failed"}
  /\ at' = "version" /\ fault' = FALSE
  /\ flash_line' = 0 /\ flash_offset' = 0 /\ regs' = 0 /\ buffer_offset' = 0
  /\ UNCHANGED <<image, strict, device>>

(* Connects, reads required_image_version, then the file of that version.   *)
(* Any of them may fail.                                                    *)
ReadVersion ==
  /\ at = "version"
  /\ \/ at' = "start" /\ image' \in Images /\ UNCHANGED fault
     \/ at' = "failed" /\ fault' = TRUE /\ UNCHANGED image
  /\ UNCHANGED <<cursor, strict, device>>

(* The call after a line: the next one, the incomplete one or the length. *)
AfterLines(line) ==
  IF line # full_lines \/ remaining_bytes # 0 THEN "offset_high"
  ELSE "total_len_high"

(* The device may erase its flash. *)
Start ==
  /\ at = "start"
  /\ Call(/\ flash' \in {flash, [k \in DOMAIN flash |-> Erased]}
          /\ UNCHANGED <<hold, buffer, installed>>, Goto(AfterLines(0)))

(* Faulty: the loop does not advance. *)
NextLineStuck == at' = AfterLines(flash_line) /\ UNCHANGED cursor

NextLine ==
  /\ flash_line' = flash_line + 1
  /\ flash_offset' = flash_offset + flash_line_bytes
  /\ regs' = regs + LineRegs
  /\ at' = AfterLines(flash_line + 1)
  /\ UNCHANGED buffer_offset

FullLine ==
  /\ flash_line # full_lines
  /\ \/ write_holding_register("offset_high", high(flash_offset), "offset_low")
     \/ write_holding_register("offset_low", low(flash_offset), "first_half")
     \/ /\ at = "first_half"
        /\ write_multiple_registers(buffer_offset, regs, HalfLine, Goto("second_half"))
     \/ /\ at = "second_half"
        /\ write_multiple_registers(buffer_offset + HalfLine, regs + HalfLine,
                                    HalfLine, Goto("chunk_len"))
     \/ write_holding_register("chunk_len", flash_line_bytes, "write_segment")
     \/ at = "write_segment" /\ Call(Program, NextLine)

(* Faulty: the rest of the last line goes to the start of the buffer. *)
NextChunkSameBuffer(next) ==
  /\ at' = next /\ regs' = regs + HalfLine
  /\ UNCHANGED <<flash_line, flash_offset, buffer_offset>>

NextChunk(next) ==
  /\ at' = next
  /\ regs' = regs + HalfLine /\ buffer_offset' = buffer_offset + HalfLine
  /\ UNCHANGED <<flash_line, flash_offset>>

(* Faulty: the last line is programmed as a full one. *)
LastLineFull ==
  /\ flash_line = full_lines
  /\ \/ write_holding_register("offset_high", high(flash_offset), "offset_low")
     \/ write_holding_register("offset_low", low(flash_offset), "chunk_len")
     \/ write_holding_register("chunk_len", flash_line_bytes,
                               IF remaining_chunks # 0 THEN "chunk" ELSE "rest")
     \/ /\ at = "chunk"
        /\ write_multiple_registers(buffer_offset, regs, HalfLine, NextChunk("rest"))
     \/ /\ at = "rest"
        /\ write_multiple_registers(buffer_offset, regs, remaining_regs,
                                    Goto("write_segment"))
     \/ at = "write_segment" /\ Call(Program, Goto("total_len_high"))

LastLine ==
  /\ flash_line = full_lines
  /\ \/ write_holding_register("offset_high", high(flash_offset), "offset_low")
     \/ write_holding_register("offset_low", low(flash_offset), "chunk_len")
     \/ write_holding_register("chunk_len", remaining_bytes,
                               IF remaining_chunks # 0 THEN "chunk" ELSE "rest")
     \/ /\ at = "chunk"
        /\ write_multiple_registers(buffer_offset, regs, HalfLine, NextChunk("rest"))
     \/ /\ at = "rest"
        /\ write_multiple_registers(buffer_offset, regs, remaining_regs,
                                    Goto("write_segment"))
     \/ at = "write_segment" /\ Call(Program, Goto("total_len_high"))

HandOver ==
  \/ write_holding_register("total_len_high", high(total_len_bytes), "total_len_low")
  \/ write_holding_register("total_len_low", low(total_len_bytes), "crc32_high")
  \/ write_holding_register("crc32_high", high(image.crc), "crc32_low")
  \/ write_holding_register("crc32_low", low(image.crc), "done")
  \/ at = "done" /\ Call(Install, Goto("completed"))

-------------------------------------------------------------------------------
Init ==
  /\ at = "idle" /\ fault = FALSE /\ strict \in BOOLEAN
  /\ image \in Images
  /\ flash_line = 0 /\ flash_offset = 0 /\ regs = 0 /\ buffer_offset = 0
  /\ hold = [r \in Registers |-> 0]
  /\ buffer = [k \in 0..(LineRegs - 1) |-> Erased]
  /\ flash = [k \in 0..(FlashSize - 1) |-> Erased]
  /\ installed \in Images

Update == ReadVersion \/ Start \/ FullLine \/ LastLine \/ HandOver

Next == Begin \/ Update

(* A call ends, by an answer or the response timeout, and then the next one *)
(* is made.  Nobody need start another update.                              *)
Spec == Init /\ [][Next]_vars /\ WF_vars(Update)
-------------------------------------------------------------------------------
(* Properties.                                                              *)

TypeOK ==
  /\ at \in Calls \cup {"idle", "completed", "failed"}
  /\ image \in Images
  /\ flash_line \in Nat /\ flash_offset \in Nat /\ regs \in Nat
  /\ buffer_offset \in {0, HalfLine}
  /\ strict \in BOOLEAN /\ fault \in BOOLEAN
  /\ hold \in [Registers -> 0..(Radix - 1)]
  /\ buffer \in [0..(LineRegs - 1) -> Words]
  /\ flash \in [0..(FlashSize - 1) -> Words]
  /\ installed \in Images

Over == {"idle", "completed", "failed"}

P == INSTANCE FlashPromise WITH told <- IF at \in Over THEN at ELSE "busy"

(* The device starts from a whole file with its own length and checksum,    *)
(* whatever an earlier update that broke off left in the flash, the buffer  *)
(* and the registers; an update that returns has installed its file; one    *)
(* that throws has installed it or has changed nothing.                     *)
WholeOrNothing == P!PromiseSpec

(* Between start and done a register of the flash is written at most once,  *)
(* in order, and none beyond the file: what a step programs begins at       *)
(* flash_offset.                                                            *)
ProgrammedInOrder ==
  [][at # "start" =>
       \A k \in DOMAIN flash :
         flash'[k] # flash[k] => flash_offset <= 2 * k /\ k < image.size]_vars

(* A device that refuses a write of no registers refuses the last line of a *)
(* file that ends in the middle of a line: no update with it completes, and *)
(* when nothing is lost or refused for another reason no other update fails.*)
FailsOnlyHalfway ==
  LET halfway == 2 * remaining_bytes = flash_line_bytes
  IN  /\ at = "failed" /\ ~fault => strict /\ halfway
      /\ at = "completed" /\ strict => ~halfway

(* An update ends: the loop over the lines meets full_lines.                *)
UpdateEnds == at = "version" ~> at \in {"completed", "failed"}
===============================================================================
