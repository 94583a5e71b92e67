-------------------------- MODULE FlashUpdateProofs --------------------------
(***************************************************************************)
(* Theorems about FlashUpdate, for any images, line size, register width    *)
(* and flash.  The invariant follows the words of the file on their way:    *)
(* from the cursor to the buffer, from the buffer to the flash, and the     *)
(* offset, length and checksum that go along in two registers each.         *)
(*                                                                         *)
(* Then about FlashFile, for any files, bytes and polynomial: the registers *)
(* of a file give its bytes back, and its checksum by bytes, with a table,  *)
(* is the one by bits, by induction on the bytes.                           *)
(***************************************************************************)
EXTENDS FlashFile, SequenceTheorems, WellFoundedInduction, TLAPS

-------------------------------------------------------------------------------
(* Arithmetic.                                                              *)

LEMMA Division ==
  ASSUME NEW a \in Nat, NEW b \in Nat \ {0}
  PROVE  /\ a \div b \in Nat /\ a % b \in 0..(b - 1)
         /\ a = (a \div b) * b + (a % b)
BY SMT

LEMMA SmallModulus ==
  ASSUME NEW a \in Nat, NEW b \in Nat, a < b
  PROVE  a % b = a /\ a \div b = 0
BY SMT

LEMMA ProductMonotone ==
  ASSUME NEW a \in Nat, NEW b \in Nat, NEW c \in Nat, a < b
  PROVE  a * c + c <= b * c
BY SMT

LEMMA ProductNat ==
  ASSUME NEW a \in Nat, NEW b \in Nat
  PROVE  a * b \in Nat
BY SMT

LEMMA QuotientBelow ==
  ASSUME NEW q \in Nat, NEW r \in Nat, NEW b \in Nat \ {0}, q * b + r < b * b
  PROVE  q < b
<1> SUFFICES ASSUME q >= b PROVE FALSE
  BY SMT
<1>1. q * b >= b * b
  <2>1. CASE q = b
    BY <2>1
  <2>2. CASE b < q
    BY <2>2, ProductMonotone
  <2> QED BY <2>1, <2>2, SMT
<1> QED BY <1>1, SMT

LEMMA Sizes ==
  /\ HalfLine \in Nat \ {0} /\ Radix \in Nat \ {0} /\ FlashSize \in Nat
  /\ flash_line_bytes \in Nat \ {0} /\ flash_line_bytes < Radix
  /\ LineRegs \in Nat \ {0} /\ LineRegs = 2 * HalfLine
  /\ flash_line_bytes = 2 * LineRegs
BY FlashAssumption DEF FlashAssumption, flash_line_bytes, LineRegs

LEMMA AnImage ==
  ASSUME NEW i \in Images
  PROVE  /\ i = [size |-> i.size, regs |-> i.regs, crc |-> i.crc]
         /\ i.size \in 0..FlashSize /\ i.size \in Nat /\ 2 * i.size < Radix * Radix
         /\ i.regs \in [0..(i.size - 1) -> Words]
         /\ i.crc \in 0..(Radix * Radix - 1)
BY FlashAssumption DEF FlashAssumption

(* A value of two registers survives being split.                           *)
LEMMA Halves ==
  ASSUME NEW x \in Nat, x < Radix * Radix
  PROVE  /\ high(x) \in 0..(Radix - 1) /\ low(x) \in 0..(Radix - 1)
         /\ Value(high(x), low(x)) = x
<1>0. Radix \in Nat \ {0}
  BY FlashAssumption DEF FlashAssumption
<1>1. /\ x \div Radix \in Nat /\ x % Radix \in 0..(Radix - 1)
      /\ x = (x \div Radix) * Radix + (x % Radix)
  BY <1>0, Division
<1>2. x \div Radix < Radix
  <2> DEFINE q == x \div Radix
             r == x % Radix
  <2>1. q \in Nat /\ r \in Nat /\ q * Radix + r < Radix * Radix
    BY <1>1, <1>0
  <2> HIDE DEF q, r
  <2>2. q < Radix
    BY <2>1, <1>0, QuotientBelow
  <2> QED BY <2>2 DEF q
<1>3. (x \div Radix) % Radix = x \div Radix
  BY <1>0, <1>1, <1>2, SmallModulus
<1> QED BY <1>0, <1>1, <1>2, <1>3 DEF high, low, Value

(* The lines and what remains make up the file.                             *)
LEMMA Geometry ==
  ASSUME image \in Images
  PROVE  /\ image.size \in Nat /\ HalfLine \in Nat \ {0}
         /\ full_lines \in Nat /\ remaining_bytes \in 0..(flash_line_bytes - 1)
         /\ remaining_bytes < Radix
         /\ 2 * image.size = full_lines * flash_line_bytes + remaining_bytes
         /\ remaining_bytes \div 2 \in 0..(LineRegs - 1)
         /\ remaining_bytes = 2 * (remaining_bytes \div 2)
<1>1. image.size \in Nat /\ HalfLine \in Nat \ {0} /\ Radix \in Nat
      /\ flash_line_bytes \in Nat \ {0} /\ flash_line_bytes < Radix
  BY FlashAssumption DEF FlashAssumption, flash_line_bytes
<1>2. total_len_bytes \in Nat
  BY <1>1 DEF total_len_bytes
<1>3. /\ full_lines \in Nat /\ remaining_bytes \in 0..(flash_line_bytes - 1)
      /\ total_len_bytes = full_lines * flash_line_bytes + remaining_bytes
  BY <1>1, <1>2, Division DEF full_lines, remaining_bytes
<1>4. PICK m \in Int : full_lines * flash_line_bytes = 2 * m
  <2>1. full_lines * flash_line_bytes = 2 * (full_lines * (2 * HalfLine))
    BY <1>1, <1>3, SMT DEF flash_line_bytes
  <2>2. full_lines * (2 * HalfLine) \in Int
    BY <1>1, <1>3, SMT
  <2> QED BY <2>1, <2>2
<1>5. remaining_bytes = 2 * (image.size - m)
  BY <1>1, <1>3, <1>4, SMT DEF total_len_bytes
<1>6. remaining_bytes \div 2 = image.size - m
  BY <1>5, <1>4, <1>1, <1>3, SMT
<1> QED BY <1>1, <1>3, <1>5, <1>6, <1>4 DEF total_len_bytes, flash_line_bytes, LineRegs

-------------------------------------------------------------------------------
(* The invariant.                                                           *)

Writing  == Calls \ {"version", "start"}
Handing  == {"total_len_high", "total_len_low", "crc32_high", "crc32_low", "done"}
Base     == flash_line * LineRegs    \* the first register of the present line
LastRegs == remaining_bytes \div 2
Halfway  == 2 * remaining_bytes = flash_line_bytes

Types ==
  /\ at \in Calls \cup Over
  /\ image \in Images
  /\ flash_line \in Nat /\ flash_offset \in Nat /\ regs \in Nat
  /\ buffer_offset \in {0, HalfLine}
  /\ strict \in BOOLEAN /\ fault \in BOOLEAN
  /\ hold \in [Registers -> 0..(Radix - 1)]
  /\ buffer \in [0..(LineRegs - 1) -> Words]
  /\ flash \in [0..(FlashSize - 1) -> Words]
  /\ installed \in Images

(* Where the loop is. *)
Cursor ==
  /\ at \in {"version", "start"} =>
       flash_line = 0 /\ flash_offset = 0 /\ regs = 0 /\ buffer_offset = 0
  /\ at \in Writing =>
       /\ flash_line <= full_lines
       /\ flash_offset = 2 * Base
       /\ regs = Base + buffer_offset
  /\ at \in {"first_half", "second_half"} => flash_line # full_lines
  /\ at \in {"chunk", "rest"} => flash_line = full_lines
  /\ at = "chunk" => remaining_chunks # 0
  /\ at \in Writing \ Handing /\ flash_line = full_lines => remaining_bytes # 0
  /\ at \in Handing => flash_line = full_lines
  /\ at \in Writing /\ buffer_offset # 0 =>
       flash_line = full_lines /\ at \in Handing \cup {"rest", "write_segment"}
  /\ at = "rest" =>
       buffer_offset = IF remaining_chunks # 0 THEN HalfLine ELSE 0

(* The first n registers of the buffer hold those of the present line. *)
Buffered(n) ==
  \A k \in 0..(LineRegs - 1) :
    k < n => Base + k < image.size /\ buffer[k] = image.regs[Base + k]

(* What has been sent of the present line. *)
Sent ==
  /\ at \in {"offset_low", "first_half", "second_half", "chunk_len", "chunk",
             "rest", "write_segment"} =>
       hold.offset_high = high(flash_offset)
  /\ at \in {"first_half", "second_half", "chunk_len", "chunk", "rest",
             "write_segment"} =>
       hold.offset_low = low(flash_offset)
  /\ at = "second_half" => Buffered(HalfLine)
  /\ at \in {"chunk_len", "write_segment"} /\ flash_line # full_lines =>
       Buffered(LineRegs)
  /\ at = "write_segment" /\ flash_line # full_lines =>
       hold.chunk_len = flash_line_bytes
  /\ at \in {"chunk", "rest"} => hold.chunk_len = remaining_bytes
  /\ at = "rest" => Buffered(buffer_offset)
  /\ at = "write_segment" /\ flash_line = full_lines =>
       hold.chunk_len = remaining_bytes /\ Buffered(LastRegs)

(* The lines that are in the flash: those before the present one, at the    *)
(* end all of them.                                                         *)
Programmed ==
  /\ at \in Writing =>
       \A k \in 0..(image.size - 1) : k < Base => flash[k] = image.regs[k]
  /\ at \in Handing =>
       \A k \in 0..(image.size - 1) : flash[k] = image.regs[k]

(* What has been sent of the length and the checksum. *)
Told ==
  /\ at \in Handing \ {"total_len_high"} =>
       hold.total_len_high = high(total_len_bytes)
  /\ at \in {"crc32_high", "crc32_low", "done"} =>
       hold.total_len_low = low(total_len_bytes)
  /\ at \in {"crc32_low", "done"} => hold.crc32_high = high(image.crc)
  /\ at = "done" => hold.crc32_low = low(image.crc)

(* A device that refuses to be sent nothing does not get past the rest of a *)
(* last line that ends halfway.                                             *)
Refused ==
  /\ at = "failed" /\ ~fault => strict /\ Halfway
  /\ at = "completed" /\ strict => ~Halfway
  /\ at \in Handing /\ strict => ~Halfway
  /\ at = "write_segment" /\ flash_line = full_lines /\ strict => ~Halfway

IInv == Types /\ Cursor /\ Sent /\ Programmed /\ Told /\ Refused

-------------------------------------------------------------------------------
(* Every step.                                                              *)

LEMMA FullLineFits ==
  ASSUME image \in Images, flash_line \in Nat, flash_line < full_lines
  PROVE  Base \in Nat /\ Base + LineRegs <= image.size
<1> DEFINE fl == full_lines
           rb == remaining_bytes
<1>1. /\ image.size \in Nat /\ HalfLine \in Nat \ {0} /\ fl \in Nat /\ rb \in Nat
      /\ 2 * image.size = fl * flash_line_bytes + rb
  BY Geometry
<1>2. flash_line < fl
  OBVIOUS
<1> HIDE DEF fl, rb
<1>3. flash_line * flash_line_bytes + flash_line_bytes <= fl * flash_line_bytes
  BY <1>1, <1>2, ProductMonotone DEF flash_line_bytes
<1>4. /\ Base \in Nat /\ LineRegs \in Nat
      /\ flash_line * flash_line_bytes = 2 * Base /\ flash_line_bytes = 2 * LineRegs
  BY <1>1, SMT DEF Base, LineRegs, flash_line_bytes
<1>5. fl * flash_line_bytes \in Int
  BY <1>1, SMT DEF flash_line_bytes
<1> QED BY <1>1, <1>3, <1>4, <1>5

LEMMA LastLineFits ==
  ASSUME image \in Images, flash_line = full_lines
  PROVE  /\ Base \in Nat /\ Base + LastRegs = image.size
         /\ LastRegs \in 0..(LineRegs - 1) /\ remaining_bytes = 2 * LastRegs
         /\ remaining_regs \in 0..(HalfLine - 1)
         /\ remaining_chunks = 0 => LastRegs = remaining_regs
         /\ remaining_chunks # 0 => LastRegs = HalfLine + remaining_regs
         /\ Halfway <=> LastRegs = HalfLine
<1>1. /\ image.size \in Nat /\ HalfLine \in Nat \ {0}
      /\ full_lines \in Nat
      /\ 2 * image.size = full_lines * flash_line_bytes + remaining_bytes
      /\ LastRegs \in 0..(LineRegs - 1) /\ remaining_bytes = 2 * LastRegs
  BY Geometry DEF LastRegs
<1>2. Base \in Nat /\ full_lines * flash_line_bytes = 2 * Base
  BY <1>1, SMT DEF Base, LineRegs, flash_line_bytes
<1>3. Base + LastRegs = image.size
  <2>1. 2 * image.size = 2 * Base + 2 * LastRegs
    BY <1>1, <1>2
  <2>2. image.size \in Nat /\ Base \in Nat /\ LastRegs \in Nat
    BY <1>1, <1>2 DEF LineRegs
  <2> QED BY <2>1, <2>2
<1>4. /\ remaining_chunks \in Nat /\ remaining_regs \in 0..(HalfLine - 1)
      /\ LastRegs = remaining_chunks * HalfLine + remaining_regs
  <2>1. LastRegs \in Nat
    BY <1>1 DEF LineRegs
  <2> QED BY <1>1, <2>1, Division DEF remaining_chunks, remaining_regs, LastRegs
<1>5. remaining_chunks < 2
  <2> DEFINE c == remaining_chunks
             r == remaining_regs
             l == LastRegs
  <2>1. c \in Nat /\ r \in Nat /\ l = c * HalfLine + r /\ l < 2 * HalfLine /\ l \in Nat
    BY <1>1, <1>4 DEF LineRegs
  <2> HIDE DEF c, r, l
  <2>2. ASSUME c >= 2 PROVE FALSE
    <3>1. c * HalfLine >= 2 * HalfLine
      BY <1>1, <2>1, <2>2, SMT
    <3>2. c * HalfLine \in Nat
      BY <1>1, <2>1, SMT
    <3> QED BY <2>1, <1>1, <3>1, <3>2
  <2> QED BY <2>1, <2>2 DEF c
<1>6. /\ remaining_chunks = 0 => LastRegs = remaining_regs
      /\ remaining_chunks # 0 => LastRegs = HalfLine + remaining_regs
  <2>1. CASE remaining_chunks = 0
    BY <1>1, <1>4, <2>1
  <2>2. CASE remaining_chunks = 1
    BY <1>1, <1>4, <2>2
  <2> QED BY <1>4, <1>5, <2>1, <2>2
<1>7. Halfway <=> LastRegs = HalfLine
  BY <1>1 DEF Halfway, flash_line_bytes, LineRegs
<1> QED BY <1>1, <1>2, <1>3, <1>4, <1>6, <1>7

(* Where a line or the hand-over begins. *)
LEMMA AtLine ==
  ASSUME image \in Images, flash_line \in Nat
  PROVE  /\ AfterLines(flash_line) \in {"offset_high", "total_len_high"}
         /\ AfterLines(flash_line) = "total_len_high" <=>
              flash_line = full_lines /\ remaining_bytes = 0
BY DEF AfterLines

DeviceTypes ==
  /\ hold \in [Registers -> 0..(Radix - 1)]
  /\ buffer \in [0..(LineRegs - 1) -> Words]
  /\ flash \in [0..(FlashSize - 1) -> Words]
  /\ installed \in Images

(* A call that throws. *)
LEMMA Thrown ==
  ASSUME IInv, at' = "failed", fault' = TRUE \/ (fault' = fault /\ strict /\ Halfway),
         UNCHANGED <<image, strict, cursor>>, DeviceTypes'
  PROVE  IInv'
<1>1. Types' /\ Halfway' = Halfway
  BY DEF IInv, Types, DeviceTypes, cursor, Over, Halfway, remaining_bytes, total_len_bytes
<1>2. Cursor' /\ Sent' /\ Programmed' /\ Told'
  BY DEF Cursor, Sent, Programmed, Told, Writing, Handing, Calls, Registers
<1>3. Refused'
  BY <1>1 DEF Refused, Handing
<1> QED BY <1>1, <1>2, <1>3 DEF IInv

(* A write of one register is confirmed, or nothing follows from it.        *)
LEMMA RegisterWritten ==
  ASSUME IInv, NEW reg \in Registers, NEW value \in 0..(Radix - 1), NEW next,
         write_holding_register(reg, value, next)
  PROVE  \/ IInv'
         \/ /\ at = reg /\ at' = next
            /\ hold' = [hold EXCEPT ![reg] = value]
            /\ hold' \in [Registers -> 0..(Radix - 1)]
            /\ UNCHANGED <<image, strict, fault, cursor, buffer, flash, installed>>
<1> DEFINE Effect == /\ hold' = [hold EXCEPT ![reg] = value]
                     /\ UNCHANGED <<buffer, flash, installed>>
<1>1. Effect => DeviceTypes'
  BY DEF IInv, Types, DeviceTypes
<1>2. CASE /\ Effect \/ UNCHANGED device
           /\ at' = "failed" /\ fault' = TRUE /\ UNCHANGED <<cursor, image, strict>>
  <2>1. DeviceTypes'
    BY <1>1, <1>2 DEF IInv, Types, DeviceTypes, device
  <2> QED BY <1>2, <2>1, Thrown
<1>3. CASE Effect /\ Goto(next) /\ UNCHANGED <<fault, image, strict>>
  BY <1>1, <1>3 DEF Goto, write_holding_register, DeviceTypes
<1> QED BY <1>2, <1>3 DEF write_holding_register, Call

(* n registers of the image are written to the buffer, or the call throws.  *)
LEMMA BufferWritten ==
  ASSUME IInv, NEW dst \in Nat, NEW src \in Nat, NEW n \in Nat,
         dst + n <= LineRegs, src + n <= image.size,
         n = 0 /\ strict => Halfway,
         NEW ACTION Then, write_multiple_registers(dst, src, n, Then)
  PROVE  \/ IInv'
         \/ /\ ~(n = 0 /\ strict) /\ Then
            /\ buffer' \in [0..(LineRegs - 1) -> Words]
            /\ \A k \in 0..(LineRegs - 1) :
                 buffer'[k] = IF dst <= k /\ k < dst + n
                              THEN image.regs[src + (k - dst)] ELSE buffer[k]
            /\ UNCHANGED <<image, strict, fault, hold, flash, installed>>
<1> DEFINE new == [k \in DOMAIN buffer |->
                     IF dst <= k /\ k < dst + n
                     THEN image.regs[src + (k - dst)] ELSE buffer[k]]
<1>1. new \in [0..(LineRegs - 1) -> Words]
  <2>1. image.regs \in [0..(image.size - 1) -> Words] /\ image.size \in Nat
    BY AnImage DEF IInv, Types
  <2>2. buffer \in [0..(LineRegs - 1) -> Words] /\ LineRegs \in Nat
    BY Sizes DEF IInv, Types
  <2>3. ASSUME NEW k \in 0..(LineRegs - 1), dst <= k, k < dst + n
        PROVE  image.regs[src + (k - dst)] \in Words
    <3>1. src + (k - dst) \in 0..(image.size - 1)
      BY <2>1, <2>2, <2>3
    <3> QED BY <2>1, <3>1
  <2>4. DOMAIN buffer = 0..(LineRegs - 1)
    BY <2>2
  <2>5. ASSUME NEW k \in 0..(LineRegs - 1)
        PROVE  (IF dst <= k /\ k < dst + n
                THEN image.regs[src + (k - dst)] ELSE buffer[k]) \in Words
    BY <2>2, <2>3
  <2> QED BY <2>4, <2>5
<1>2. \A k \in 0..(LineRegs - 1) :
        new[k] = IF dst <= k /\ k < dst + n
                 THEN image.regs[src + (k - dst)] ELSE buffer[k]
  <2>1. DOMAIN buffer = 0..(LineRegs - 1)
    BY DEF IInv, Types
  <2> QED BY <2>1
<1>3. CASE /\ n = 0 /\ strict /\ at' = "failed"
           /\ UNCHANGED <<image, cursor, strict, fault, device>>
  <2>1. DeviceTypes'
    BY <1>3 DEF IInv, Types, DeviceTypes, device
  <2> QED BY <1>3, <2>1, Thrown
<1>4. CASE /\ (buffer' = new /\ UNCHANGED <<hold, flash, installed>>) \/ UNCHANGED device
           /\ at' = "failed" /\ fault' = TRUE /\ UNCHANGED <<cursor, image, strict>>
  <2>1. DeviceTypes'
    BY <1>1, <1>4 DEF IInv, Types, DeviceTypes, device
  <2> QED BY <1>4, <2>1, Thrown
<1>5. CASE /\ ~(n = 0 /\ strict) /\ buffer' = new
           /\ UNCHANGED <<hold, flash, installed, fault, image, strict>> /\ Then
  <2> HIDE DEF new
  <2> QED BY <1>1, <1>2, <1>5
<1>6. \/ /\ n = 0 /\ strict /\ at' = "failed"
         /\ UNCHANGED <<image, cursor, strict, fault, device>>
      \/ /\ (buffer' = new /\ UNCHANGED <<hold, flash, installed>>) \/ UNCHANGED device
         /\ at' = "failed" /\ fault' = TRUE /\ UNCHANGED <<cursor, image, strict>>
      \/ /\ ~(n = 0 /\ strict) /\ buffer' = new
         /\ UNCHANGED <<hold, flash, installed, fault, image, strict>> /\ Then
  BY DEF write_multiple_registers, Call
<1> HIDE DEF new
<1> QED BY <1>3, <1>4, <1>5, <1>6

(* At the beginning of a line, or of the hand-over, of the same image.      *)
LEMMA LineBegins ==
  ASSUME Types, Types', UNCHANGED <<image, strict>>,
         at' = AfterLines(flash_line'), flash_line' <= full_lines,
         flash_offset' = 2 * Base', regs' = Base', buffer_offset' = 0,
         \A k \in 0..(image.size - 1) : k < Base' => flash'[k] = image.regs[k]
  PROVE  IInv'
<1>1. at' \in {"offset_high", "total_len_high"}
  BY DEF AfterLines
<1>2. /\ full_lines' = full_lines /\ remaining_bytes' = remaining_bytes
      /\ Halfway' = Halfway
  BY DEF full_lines, remaining_bytes, total_len_bytes, Halfway
<1>3. Base' \in Nat
  <2>1. flash_line' \in Nat
    BY DEF Types
  <2>2. Base' = flash_line' * LineRegs
    BY DEF Base
  <2> QED BY <2>1, <2>2, Sizes, ProductNat
<1>4. ASSUME at' = "total_len_high"
      PROVE  flash_line' = full_lines /\ Base' = image.size /\ ~Halfway
  <2>1. flash_line' = full_lines /\ remaining_bytes = 0
    BY <1>4 DEF AfterLines
  <2>2. 2 * image.size = full_lines * flash_line_bytes + remaining_bytes
        /\ image.size \in Nat /\ full_lines \in Nat
    BY Geometry DEF Types
  <2>3. Base' = full_lines * LineRegs
    BY <2>1 DEF Base
  <2>4. full_lines * flash_line_bytes = 2 * (full_lines * LineRegs)
        /\ full_lines * LineRegs \in Nat
    BY <2>2, Sizes, SMT
  <2>5. image.size = full_lines * LineRegs
    BY <2>1, <2>2, <2>4
  <2> QED BY <2>1, <2>3, <2>5, Sizes DEF Halfway
<1>5. at' = "offset_high" => ~(flash_line' = full_lines /\ remaining_bytes = 0)
  BY DEF AfterLines
<1>6. Cursor'
  <2>1. regs' = Base' + buffer_offset' /\ flash_line' <= full_lines'
    <3>1. Base' + 0 = Base'
      BY <1>3
    <3> QED BY <1>2, <3>1
  <2>2. at' \notin {"version", "start", "first_half", "second_half", "chunk", "rest"}
    BY <1>1
  <2>3. at' \in Handing => flash_line' = full_lines'
    BY <1>1, <1>2, <1>4 DEF Handing
  <2>4. at' \notin Handing /\ flash_line' = full_lines' => remaining_bytes' # 0
    BY <1>1, <1>2, <1>5 DEF Handing
  <2> HIDE DEF Base
  <2> QED BY <2>1, <2>2, <2>3, <2>4 DEF Cursor
<1>7. Sent' /\ Told'
  BY <1>1 DEF Sent, Told, Handing
<1>8. Programmed'
  <2>1. \A k \in 0..(image.size - 1) : k < Base' => flash'[k] = image.regs[k]
    OBVIOUS
  <2>2. at' \in Handing => \A k \in 0..(image.size - 1) : k < Base'
    BY <1>1, <1>4, AnImage DEF Handing, Types
  <2> QED BY <2>1, <2>2 DEF Programmed
<1>9. Refused'
  BY <1>1, <1>2, <1>4 DEF Refused, Handing
<1> QED BY <1>6, <1>7, <1>8, <1>9 DEF IInv

LEMMA BeginInv == ASSUME IInv, Begin PROVE IInv'
<1>1. Types'
  BY Sizes DEF IInv, Types, Begin, device, Calls
<1>2. Cursor' /\ Sent' /\ Programmed' /\ Told' /\ Refused'
  BY DEF Begin, Cursor, Sent, Programmed, Told, Refused, Writing, Handing, Calls, Registers
<1> QED BY <1>1, <1>2 DEF IInv

LEMMA ReadVersionInv == ASSUME IInv, ReadVersion PROVE IInv'
<1>1. CASE at' = "failed" /\ fault' = TRUE /\ UNCHANGED image
  <2>1. DeviceTypes'
    BY DEF IInv, Types, DeviceTypes, ReadVersion, device
  <2> QED BY <1>1, <2>1, Thrown DEF ReadVersion
<1>2. CASE at' = "start" /\ image' \in Images /\ UNCHANGED fault
  <2>1. Types'
    BY <1>2 DEF IInv, Types, ReadVersion, device, cursor, Calls
  <2>2. Cursor'
    BY <1>2 DEF IInv, Cursor, ReadVersion, cursor, Writing, Handing, Calls, Registers
  <2>3. Sent' /\ Programmed' /\ Told' /\ Refused'
    BY <1>2 DEF Sent, Programmed, Told, Refused, Writing, Handing, Calls, Registers
  <2> QED BY <2>1, <2>2, <2>3 DEF IInv
<1> QED BY <1>1, <1>2 DEF ReadVersion

LEMMA StartInv == ASSUME IInv, Start PROVE IInv'
<1> DEFINE Effect == /\ flash' \in {flash, [k \in DOMAIN flash |-> Erased]}
                     /\ UNCHANGED <<hold, buffer, installed>>
<1>1. Effect => DeviceTypes'
  <2>1. Erased \in Words
    BY FlashAssumption DEF FlashAssumption
  <2> QED BY <2>1 DEF IInv, Types, DeviceTypes
<1>2. CASE /\ Effect \/ UNCHANGED device
           /\ at' = "failed" /\ fault' = TRUE /\ UNCHANGED <<cursor, image, strict>>
  <2>1. DeviceTypes'
    BY <1>1, <1>2 DEF IInv, Types, DeviceTypes, device
  <2> QED BY <1>2, <2>1, Thrown
<1>3. CASE Effect /\ Goto(AfterLines(0)) /\ UNCHANGED <<fault, image, strict>>
  <2>1. /\ flash_line' = 0 /\ flash_offset' = 0 /\ regs' = 0 /\ buffer_offset' = 0
        /\ at' = AfterLines(0)
    BY <1>3 DEF Goto, cursor, Start, IInv, Cursor
  <2>2. AfterLines(0) \in Calls
    BY DEF AfterLines, Calls, Registers
  <2>3. Types'
    BY <1>1, <1>3, <2>1, <2>2 DEF IInv, Types, DeviceTypes
  <2>4. full_lines \in Nat
    BY Geometry DEF IInv, Types
  <2>5. Base' = 0
    BY <2>1, Sizes DEF Base
  <2>6. \A k \in 0..(image.size - 1) : ~(k < 0)
    BY AnImage DEF IInv, Types
  <2> QED BY <1>3, <2>1, <2>3, <2>4, <2>5, <2>6, LineBegins DEF IInv
<1> QED BY <1>2, <1>3 DEF Start, Call

(* What confirmed writes of a register share.                               *)
RegisterStep(reg, value, next) ==
  /\ at = reg /\ at' = next
  /\ hold' = [hold EXCEPT ![reg] = value]
  /\ hold' \in [Registers -> 0..(Radix - 1)]
  /\ UNCHANGED <<image, strict, fault, cursor, buffer, flash, installed>>

LEMMA RegisterStepTypes ==
  ASSUME IInv, NEW reg, NEW value, NEW next \in Calls, RegisterStep(reg, value, next)
  PROVE  /\ Types'
         /\ hold[reg]' = IF reg \in Registers THEN value ELSE hold[reg]
         /\ \A r \in Registers \ {reg} : hold[r]' = hold[r]
         /\ full_lines' = full_lines /\ remaining_bytes' = remaining_bytes
         /\ remaining_chunks' = remaining_chunks /\ total_len_bytes' = total_len_bytes
         /\ Base' = Base /\ LastRegs' = LastRegs /\ Halfway' = Halfway
         /\ \A n : Buffered(n)' <=> Buffered(n)
<1>1. Types'
  BY DEF IInv, Types, RegisterStep, cursor
<1>2. /\ hold[reg]' = IF reg \in Registers THEN value ELSE hold[reg]
      /\ \A r \in Registers \ {reg} : hold[r]' = hold[r]
  BY DEF IInv, Types, RegisterStep
<1>3. /\ full_lines' = full_lines /\ remaining_bytes' = remaining_bytes
      /\ remaining_chunks' = remaining_chunks /\ total_len_bytes' = total_len_bytes
      /\ Base' = Base /\ LastRegs' = LastRegs /\ Halfway' = Halfway
      /\ \A n : Buffered(n)' <=> Buffered(n)
  BY DEF RegisterStep, cursor, full_lines, remaining_bytes, remaining_chunks,
         total_len_bytes, Base, LastRegs, Halfway, Buffered
<1> QED BY <1>1, <1>2, <1>3

LEMMA OffsetFits ==
  ASSUME IInv, at \in Writing
  PROVE  /\ flash_offset \in Nat /\ flash_offset < Radix * Radix
         /\ flash_offset \div 2 = Base /\ Base \in Nat /\ Base <= image.size
<1>1. Base \in Nat /\ Base <= image.size
  <2>1. CASE flash_line = full_lines
    <3>1. Base \in Nat /\ LastRegs \in 0..(LineRegs - 1) /\ Base + LastRegs = image.size
      BY <2>1, LastLineFits DEF IInv, Types
    <3> QED BY <3>1, Sizes
  <2>2. CASE flash_line # full_lines
    <3>1. flash_line < full_lines
      BY <2>2, Geometry DEF IInv, Types, Cursor
    <3>2. Base \in Nat /\ Base + LineRegs <= image.size
      BY <3>1, FullLineFits DEF IInv, Types
    <3>3. image.size \in Nat
      BY AnImage DEF IInv, Types
    <3> QED BY <3>2, <3>3, Sizes
  <2> QED BY <2>1, <2>2
<1>2. flash_offset = 2 * Base
  BY DEF IInv, Cursor
<1>3. image.size \in Nat /\ 2 * image.size < Radix * Radix /\ Radix * Radix \in Nat
  BY AnImage, Sizes, ProductNat DEF IInv, Types
<1> QED BY <1>1, <1>2, <1>3

(* The writes of one register that flash_update makes. *)
SetRegister(reg, value, next) ==
  \/ reg = "offset_high" /\ value = high(flash_offset) /\ next = "offset_low"
  \/ /\ reg = "offset_low" /\ value = low(flash_offset)
     /\ next = IF flash_line # full_lines THEN "first_half" ELSE "chunk_len"
  \/ /\ reg = "chunk_len" /\ flash_line # full_lines
     /\ value = flash_line_bytes /\ next = "write_segment"
  \/ /\ reg = "chunk_len" /\ flash_line = full_lines /\ value = remaining_bytes
     /\ next = IF remaining_chunks # 0 THEN "chunk" ELSE "rest"
  \/ reg = "total_len_high" /\ value = high(total_len_bytes) /\ next = "total_len_low"
  \/ reg = "total_len_low" /\ value = low(total_len_bytes) /\ next = "crc32_high"
  \/ reg = "crc32_high" /\ value = high(image.crc) /\ next = "crc32_low"
  \/ reg = "crc32_low" /\ value = low(image.crc) /\ next = "done"

LEMMA SetRegisterTypes ==
  ASSUME IInv, NEW reg, NEW value, NEW next, at = reg, SetRegister(reg, value, next)
  PROVE  reg \in Registers /\ value \in 0..(Radix - 1) /\ next \in Calls
<1>1. reg \in Registers /\ next \in Calls
  BY DEF SetRegister, Registers, Calls
<1>2. image.size \in Nat /\ 2 * image.size < Radix * Radix
      /\ image.crc \in 0..(Radix * Radix - 1)
  BY AnImage DEF IInv, Types
<1>3. Radix * Radix \in Nat
  BY Sizes, ProductNat
<1>4. /\ high(total_len_bytes) \in 0..(Radix - 1)
      /\ low(total_len_bytes) \in 0..(Radix - 1)
  <2>1. total_len_bytes \in Nat /\ total_len_bytes < Radix * Radix
    BY <1>2 DEF total_len_bytes
  <2> QED BY <2>1, Halves
<1>5. high(image.crc) \in 0..(Radix - 1) /\ low(image.crc) \in 0..(Radix - 1)
  <2>1. image.crc \in Nat /\ image.crc < Radix * Radix
    BY <1>2, <1>3
  <2> QED BY <2>1, Halves
<1>6. reg \in {"offset_high", "offset_low"} =>
        /\ high(flash_offset) \in 0..(Radix - 1) /\ low(flash_offset) \in 0..(Radix - 1)
  BY OffsetFits, Halves DEF Writing, Calls, Registers
<1>7. flash_line_bytes \in 0..(Radix - 1) /\ remaining_bytes \in 0..(Radix - 1)
  <2>1. remaining_bytes \in Nat /\ remaining_bytes < Radix
    BY Geometry, Sizes DEF IInv, Types
  <2> QED BY <2>1, Sizes
<1>8. value \in 0..(Radix - 1)
  BY <1>4, <1>5, <1>6, <1>7 DEF SetRegister
<1> QED BY <1>1, <1>8

LEMMA SetRegisterInv ==
  ASSUME IInv, NEW reg, NEW value, NEW next,
         RegisterStep(reg, value, next), SetRegister(reg, value, next)
  PROVE  IInv'
<1>0. at = reg
  BY DEF RegisterStep
<1>1. reg \in Registers /\ next \in Calls
  BY <1>0, SetRegisterTypes
<1>2. /\ Types'
      /\ hold[reg]' = value
      /\ \A r \in Registers \ {reg} : hold[r]' = hold[r]
      /\ full_lines' = full_lines /\ remaining_bytes' = remaining_bytes
      /\ remaining_chunks' = remaining_chunks /\ total_len_bytes' = total_len_bytes
      /\ Base' = Base /\ LastRegs' = LastRegs /\ Halfway' = Halfway
      /\ \A n : Buffered(n)' <=> Buffered(n)
  BY <1>1, RegisterStepTypes
<1>3. /\ at = reg /\ at' = next
      /\ UNCHANGED <<image, strict, fault, flash_line, flash_offset, regs,
                     buffer_offset, flash>>
  BY DEF RegisterStep, cursor
<1>4. Cursor'
  BY <1>2, <1>3 DEF SetRegister, IInv, Cursor, Writing, Handing, Calls, Registers
<1>5. Sent'
  <2>1. CASE reg \in {"offset_high", "offset_low"}
    BY <2>1, <1>1, <1>2, <1>3 DEF SetRegister, IInv, Sent, high, low, Registers
  <2>2. CASE reg = "chunk_len" /\ flash_line # full_lines
    BY <2>2, <1>1, <1>2, <1>3 DEF SetRegister, IInv, Sent, high, low, Registers
  <2>3. CASE reg = "chunk_len" /\ flash_line = full_lines
    <3>1. at' \in {"chunk", "rest"} /\ buffer_offset = 0
      BY <2>3, <1>3 DEF SetRegister, IInv, Cursor, Writing, Calls, Registers, Handing
    <3>2. hold.offset_high' = high(flash_offset) /\ hold.offset_low' = low(flash_offset)
          /\ hold.chunk_len' = remaining_bytes
      BY <2>3, <1>1, <1>2, <1>3 DEF SetRegister, IInv, Sent, Registers
    <3>3. Buffered(0)
      BY Sizes DEF Buffered
    <3> QED BY <3>1, <3>2, <3>3, <1>2, <1>3 DEF Sent, high, low
  <2>4. CASE at' \in Handing
    BY <2>4 DEF Sent, Handing
  <2> QED BY <2>1, <2>2, <2>3, <2>4, <1>3 DEF SetRegister, Handing
<1>6. Programmed' /\ Refused'
  BY <1>2, <1>3 DEF SetRegister, IInv, Programmed, Refused, Writing, Handing, Calls, Registers
<1>7. Told'
  BY <1>1, <1>2, <1>3 DEF SetRegister, IInv, Told, Handing, high, low, Registers
<1> QED BY <1>2, <1>4, <1>5, <1>6, <1>7 DEF IInv

LEMMA WriteHoldingRegisterInv ==
  ASSUME IInv, NEW reg, NEW value, NEW next,
         write_holding_register(reg, value, next), SetRegister(reg, value, next)
  PROVE  IInv'
<1>1. at = reg
  BY DEF write_holding_register
<1>2. reg \in Registers /\ value \in 0..(Radix - 1)
  BY <1>1, SetRegisterTypes
<1>3. IInv' \/ RegisterStep(reg, value, next)
  BY <1>2, RegisterWritten DEF RegisterStep
<1> QED BY <1>3, SetRegisterInv


(* A write to the buffer that is confirmed leaves the cursor's geometry.    *)
LEMMA BufferStepFrame ==
  ASSUME IInv, UNCHANGED <<image, strict, fault, hold, flash, installed, flash_line,
                           flash_offset>>,
         at' \in Calls, buffer' \in [0..(LineRegs - 1) -> Words],
         regs' \in Nat, buffer_offset' \in {0, HalfLine}
  PROVE  /\ Types'
         /\ full_lines' = full_lines /\ remaining_bytes' = remaining_bytes
         /\ remaining_chunks' = remaining_chunks
         /\ Base' = Base /\ LastRegs' = LastRegs /\ Halfway' = Halfway
<1>1. Types'
  BY DEF IInv, Types
<1>2. /\ full_lines' = full_lines /\ remaining_bytes' = remaining_bytes
      /\ remaining_chunks' = remaining_chunks
      /\ Base' = Base /\ LastRegs' = LastRegs /\ Halfway' = Halfway
  BY DEF full_lines, remaining_bytes, remaining_chunks, total_len_bytes, Base,
         LastRegs, Halfway
<1> QED BY <1>1, <1>2

LEMMA FirstHalfInv ==
  ASSUME IInv, at = "first_half",
         write_multiple_registers(buffer_offset, regs, HalfLine, Goto("second_half"))
  PROVE  IInv'
<1>1. /\ flash_line < full_lines /\ buffer_offset = 0 /\ regs = Base
      /\ Base \in Nat /\ Base + LineRegs <= image.size /\ image.size \in Nat
  <2>1. /\ flash_line <= full_lines /\ flash_line # full_lines /\ buffer_offset = 0
        /\ regs = Base + buffer_offset
    BY DEF IInv, Cursor, Writing, Handing, Calls, Registers
  <2>2. flash_line < full_lines
    BY <2>1, Geometry DEF IInv, Types
  <2>3. Base \in Nat /\ Base + LineRegs <= image.size
    BY <2>2, FullLineFits DEF IInv, Types
  <2> QED BY <2>1, <2>2, <2>3, AnImage DEF IInv, Types
<1>2. /\ buffer_offset + HalfLine <= LineRegs /\ regs + HalfLine <= image.size
      /\ ~(HalfLine = 0 /\ strict) /\ regs \in Nat /\ buffer_offset \in Nat
      /\ HalfLine \in Nat /\ (HalfLine = 0 /\ strict => Halfway)
  BY <1>1, Sizes
<1>3. \/ IInv'
      \/ /\ Goto("second_half")
         /\ buffer' \in [0..(LineRegs - 1) -> Words]
         /\ \A k \in 0..(LineRegs - 1) :
              buffer'[k] = IF buffer_offset <= k /\ k < buffer_offset + HalfLine
                           THEN image.regs[regs + (k - buffer_offset)] ELSE buffer[k]
         /\ UNCHANGED <<image, strict, fault, hold, flash, installed>>
  BY <1>2, BufferWritten, SMTT(30)
<1>4. ASSUME /\ Goto("second_half")
             /\ buffer' \in [0..(LineRegs - 1) -> Words]
             /\ \A k \in 0..(LineRegs - 1) :
                  buffer'[k] = IF buffer_offset <= k /\ k < buffer_offset + HalfLine
                               THEN image.regs[regs + (k - buffer_offset)] ELSE buffer[k]
             /\ UNCHANGED <<image, strict, fault, hold, flash, installed>>
      PROVE  IInv'
  <2>1. /\ at' = "second_half"
        /\ UNCHANGED <<image, strict, fault, hold, flash, installed, flash_line,
                       flash_offset, regs, buffer_offset>>
    BY <1>4 DEF Goto, cursor
  <2>2. /\ Types' /\ full_lines' = full_lines /\ remaining_bytes' = remaining_bytes
        /\ Base' = Base
    <3>1. at' \in Calls /\ regs' \in Nat /\ buffer_offset' \in {0, HalfLine}
      BY <2>1 DEF Calls, IInv, Types
    <3> QED BY <1>4, <2>1, <3>1, BufferStepFrame
  <2>3. Cursor'
    BY <2>1, <2>2 DEF IInv, Cursor, Writing, Handing, Calls, Registers
  <2>4. Buffered(HalfLine)'
    <3>1. ASSUME NEW k \in 0..(LineRegs - 1), k < HalfLine
          PROVE  Base + k < image.size /\ buffer'[k] = image.regs[Base + k]
      <4>1. buffer_offset <= k /\ k < buffer_offset + HalfLine
            /\ regs + (k - buffer_offset) = Base + k
        BY <1>1, <3>1, Sizes
      <4>2. Base + k < image.size
        BY <1>1, <3>1, Sizes
      <4> QED BY <1>4, <4>1, <4>2
    <3> QED BY <2>1, <2>2, <3>1 DEF Buffered
  <2>5. Sent'
    BY <2>1, <2>4 DEF IInv, Sent, high, low
  <2>6. Programmed' /\ Told' /\ Refused'
    BY <2>1, <2>2 DEF IInv, Programmed, Told, Refused, Writing, Handing, Calls, Registers
  <2> QED BY <2>2, <2>3, <2>5, <2>6 DEF IInv
<1> QED BY <1>3, <1>4

LEMMA SecondHalfInv ==
  ASSUME IInv, at = "second_half",
         write_multiple_registers(buffer_offset + HalfLine, regs + HalfLine,
                                  HalfLine, Goto("chunk_len"))
  PROVE  IInv'
<1>1. /\ flash_line < full_lines /\ buffer_offset = 0 /\ regs = Base
      /\ Base \in Nat /\ Base + LineRegs <= image.size /\ image.size \in Nat
  <2>1. /\ flash_line <= full_lines /\ flash_line # full_lines /\ buffer_offset = 0
        /\ regs = Base + buffer_offset
    BY DEF IInv, Cursor, Writing, Handing, Calls, Registers
  <2>2. flash_line < full_lines
    BY <2>1, Geometry DEF IInv, Types
  <2>3. Base \in Nat /\ Base + LineRegs <= image.size
    BY <2>2, FullLineFits DEF IInv, Types
  <2> QED BY <2>1, <2>2, <2>3, AnImage DEF IInv, Types
<1> DEFINE dst == buffer_offset + HalfLine
           src == regs + HalfLine
           Confirmed ==
             /\ Goto("chunk_len")
             /\ buffer' \in [0..(LineRegs - 1) -> Words]
             /\ \A k \in 0..(LineRegs - 1) :
                  buffer'[k] = IF dst <= k /\ k < dst + HalfLine
                               THEN image.regs[src + (k - dst)] ELSE buffer[k]
             /\ UNCHANGED <<image, strict, fault, hold, flash, installed>>
<1>2. /\ dst + HalfLine <= LineRegs /\ src + HalfLine <= image.size
      /\ ~(HalfLine = 0 /\ strict) /\ src \in Nat /\ dst \in Nat
  BY <1>1, Sizes
<1>3. IInv' \/ Confirmed
  <2> HIDE DEF dst, src
  <2> QED BY <1>2, Sizes, BufferWritten, SMTT(30) DEF dst, src
<1>4. ASSUME Confirmed PROVE IInv'
  <2>1. /\ at' = "chunk_len"
        /\ UNCHANGED <<image, strict, fault, hold, flash, installed, flash_line,
                       flash_offset, regs, buffer_offset>>
    BY <1>4 DEF Goto, cursor
  <2>2. /\ Types' /\ full_lines' = full_lines /\ remaining_bytes' = remaining_bytes
        /\ Base' = Base
    <3>1. at' \in Calls /\ regs' \in Nat /\ buffer_offset' \in {0, HalfLine}
      BY <2>1 DEF Calls, Registers, IInv, Types
    <3> QED BY <1>4, <2>1, <3>1, BufferStepFrame
  <2>3. Cursor'
    BY <2>1, <2>2, <1>1, Geometry DEF IInv, Types, Cursor, Writing, Handing, Calls, Registers
  <2>4. Buffered(LineRegs)'
    <3>1. ASSUME NEW k \in 0..(LineRegs - 1)
          PROVE  Base + k < image.size /\ buffer'[k] = image.regs[Base + k]
      <4>1. Base + k < image.size
        BY <1>1, Sizes
      <4>2. CASE k < HalfLine
        <5>1. ~(dst <= k)
          BY <1>1, <4>2, Sizes
        <5>2. Buffered(HalfLine)
          BY DEF IInv, Sent
        <5> QED BY <1>4, <4>1, <4>2, <5>1, <5>2 DEF Buffered
      <4>3. CASE ~(k < HalfLine)
        <5>1. dst <= k /\ k < dst + HalfLine /\ src + (k - dst) = Base + k
          BY <1>1, <4>3, Sizes
        <5> QED BY <1>4, <4>1, <5>1
      <4> QED BY <4>2, <4>3
    <3> QED BY <2>1, <2>2, <3>1 DEF Buffered
  <2>5. Sent'
    BY <2>1, <2>2, <2>4, <1>1 DEF IInv, Sent, high, low
  <2>6. Programmed' /\ Told' /\ Refused'
    BY <2>1, <2>2 DEF IInv, Programmed, Told, Refused, Writing, Handing, Calls, Registers
  <2> QED BY <2>2, <2>3, <2>5, <2>6 DEF IInv
<1> QED BY <1>3, <1>4

LEMMA ChunkInv ==
  ASSUME IInv, at = "chunk",
         write_multiple_registers(buffer_offset, regs, HalfLine, NextChunk("rest"))
  PROVE  IInv'
<1>1. /\ flash_line = full_lines /\ buffer_offset = 0 /\ regs = Base
      /\ remaining_chunks # 0 /\ Base \in Nat /\ image.size \in Nat
      /\ Base + HalfLine <= image.size
  <2>1. /\ flash_line = full_lines /\ buffer_offset = 0 /\ remaining_chunks # 0
        /\ regs = Base + buffer_offset
    BY DEF IInv, Cursor, Writing, Handing, Calls, Registers
  <2>2. /\ Base \in Nat /\ Base + LastRegs = image.size
        /\ LastRegs = HalfLine + remaining_regs /\ remaining_regs \in 0..(HalfLine - 1)
    BY <2>1, LastLineFits DEF IInv, Types
  <2> QED BY <2>1, <2>2, Sizes
<1> DEFINE Confirmed ==
             /\ NextChunk("rest")
             /\ buffer' \in [0..(LineRegs - 1) -> Words]
             /\ \A k \in 0..(LineRegs - 1) :
                  buffer'[k] = IF buffer_offset <= k /\ k < buffer_offset + HalfLine
                               THEN image.regs[regs + (k - buffer_offset)] ELSE buffer[k]
             /\ UNCHANGED <<image, strict, fault, hold, flash, installed>>
<1>2. /\ buffer_offset + HalfLine <= LineRegs /\ regs + HalfLine <= image.size
      /\ ~(HalfLine = 0 /\ strict) /\ regs \in Nat /\ buffer_offset \in Nat
      /\ HalfLine \in Nat /\ (HalfLine = 0 /\ strict => Halfway)
  BY <1>1, Sizes
<1>3. IInv' \/ Confirmed
  BY <1>2, Sizes, BufferWritten, SMTT(30)
<1>4. ASSUME Confirmed PROVE IInv'
  <2>1. /\ at' = "rest" /\ regs' = Base + HalfLine /\ buffer_offset' = HalfLine
        /\ UNCHANGED <<image, strict, fault, hold, flash, installed, flash_line,
                       flash_offset>>
    BY <1>1, <1>4, Sizes DEF NextChunk
  <2>2. /\ Types' /\ full_lines' = full_lines /\ remaining_bytes' = remaining_bytes
        /\ Base' = Base /\ remaining_chunks' = remaining_chunks
    <3>1. at' \in Calls /\ regs' \in Nat /\ buffer_offset' \in {0, HalfLine}
      BY <1>1, <2>1, Sizes DEF Calls
    <3> QED BY <1>4, <2>1, <3>1, BufferStepFrame
  <2>3. Cursor'
    BY <2>1, <2>2, <1>1 DEF IInv, Cursor, Writing, Handing, Calls, Registers
  <2>4. Buffered(HalfLine)'
    <3>1. ASSUME NEW k \in 0..(LineRegs - 1), k < HalfLine
          PROVE  Base + k < image.size /\ buffer'[k] = image.regs[Base + k]
      <4>1. buffer_offset <= k /\ k < buffer_offset + HalfLine
            /\ regs + (k - buffer_offset) = Base + k
        BY <1>1, <3>1, Sizes
      <4>2. Base + k < image.size
        BY <1>1, <3>1, Sizes
      <4> QED BY <1>4, <4>1, <4>2
    <3> QED BY <2>1, <2>2, <3>1 DEF Buffered
  <2>5. Sent'
    BY <2>1, <2>2, <2>4 DEF IInv, Sent, high, low
  <2>6. Programmed' /\ Told' /\ Refused'
    BY <2>1, <2>2 DEF IInv, Programmed, Told, Refused, Writing, Handing, Calls, Registers
  <2> QED BY <2>2, <2>3, <2>5, <2>6 DEF IInv
<1> QED BY <1>3, <1>4

LEMMA RestInv ==
  ASSUME IInv, at = "rest",
         write_multiple_registers(buffer_offset, regs, remaining_regs,
                                  Goto("write_segment"))
  PROVE  IInv'
<1>1. /\ flash_line = full_lines /\ regs = Base + buffer_offset
      /\ Base \in Nat /\ image.size \in Nat /\ remaining_regs \in 0..(HalfLine - 1)
      /\ Base + LastRegs = image.size /\ LastRegs = buffer_offset + remaining_regs
      /\ LastRegs \in 0..(LineRegs - 1) /\ buffer_offset \in {0, HalfLine}
      /\ remaining_bytes # 0 /\ remaining_bytes = 2 * LastRegs
      /\ Halfway <=> LastRegs = HalfLine
  <2>1. /\ flash_line = full_lines /\ remaining_bytes # 0
        /\ regs = Base + buffer_offset
        /\ buffer_offset = IF remaining_chunks # 0 THEN HalfLine ELSE 0
    BY DEF IInv, Cursor, Writing, Handing, Calls, Registers
  <2>2. /\ Base \in Nat /\ Base + LastRegs = image.size
        /\ LastRegs \in 0..(LineRegs - 1) /\ remaining_bytes = 2 * LastRegs
        /\ remaining_regs \in 0..(HalfLine - 1)
        /\ remaining_chunks = 0 => LastRegs = remaining_regs
        /\ remaining_chunks # 0 => LastRegs = HalfLine + remaining_regs
        /\ Halfway <=> LastRegs = HalfLine
    BY <2>1, LastLineFits DEF IInv, Types
  <2>3. LastRegs = buffer_offset + remaining_regs
    BY <2>1, <2>2, Sizes
  <2> QED BY <2>1, <2>2, <2>3, AnImage DEF IInv, Types
<1> DEFINE Confirmed ==
             /\ ~(remaining_regs = 0 /\ strict)
             /\ Goto("write_segment")
             /\ buffer' \in [0..(LineRegs - 1) -> Words]
             /\ \A k \in 0..(LineRegs - 1) :
                  buffer'[k] = IF buffer_offset <= k /\ k < buffer_offset + remaining_regs
                               THEN image.regs[regs + (k - buffer_offset)] ELSE buffer[k]
             /\ UNCHANGED <<image, strict, fault, hold, flash, installed>>
<1>2. /\ buffer_offset + remaining_regs <= LineRegs
      /\ regs + remaining_regs <= image.size
      /\ remaining_regs \in Nat /\ regs \in Nat /\ buffer_offset \in Nat
  BY <1>1, Sizes
<1>3. remaining_regs = 0 <=> Halfway
  BY <1>1, Sizes
<1>4. IInv' \/ Confirmed
  BY <1>2, <1>3, BufferWritten, SMTT(30)
<1>5. ASSUME Confirmed PROVE IInv'
  <2>1. /\ at' = "write_segment"
        /\ UNCHANGED <<image, strict, fault, hold, flash, installed, flash_line,
                       flash_offset, regs, buffer_offset>>
    BY <1>5 DEF Goto, cursor
  <2>2. /\ Types' /\ full_lines' = full_lines /\ remaining_bytes' = remaining_bytes
        /\ Base' = Base /\ LastRegs' = LastRegs /\ Halfway' = Halfway
    <3>1. at' \in Calls /\ regs' \in Nat /\ buffer_offset' \in {0, HalfLine}
      BY <1>1, <1>2, <2>1 DEF Calls
    <3> QED BY <1>5, <2>1, <3>1, BufferStepFrame
  <2>3. Cursor'
    BY <2>1, <2>2, <1>1 DEF IInv, Cursor, Writing, Handing, Calls, Registers
  <2>4. Buffered(LastRegs)'
    <3>1. ASSUME NEW k \in 0..(LineRegs - 1), k < LastRegs
          PROVE  Base + k < image.size /\ buffer'[k] = image.regs[Base + k]
      <4>1. Base + k < image.size
        BY <1>1, <3>1, Sizes
      <4>2. CASE k < buffer_offset
        <5>1. Buffered(buffer_offset)
          BY DEF IInv, Sent
        <5>2. ~(buffer_offset <= k)
          BY <1>2, <4>2
        <5> QED BY <1>5, <4>1, <4>2, <5>1, <5>2 DEF Buffered
      <4>3. CASE ~(k < buffer_offset)
        <5>1. buffer_offset <= k /\ k < buffer_offset + remaining_regs
              /\ regs + (k - buffer_offset) = Base + k
          BY <1>1, <1>2, <3>1, <4>3, Sizes
        <5> QED BY <1>5, <4>1, <5>1
      <4> QED BY <4>2, <4>3
    <3> QED BY <2>1, <2>2, <3>1 DEF Buffered
  <2>5. Sent'
    BY <2>1, <2>2, <2>4, <1>1 DEF IInv, Sent, high, low
  <2>6. Programmed' /\ Told'
    BY <2>1, <2>2 DEF IInv, Programmed, Told, Writing, Handing, Calls, Registers
  <2>7. Refused'
    BY <2>1, <2>2, <1>3, <1>5 DEF Refused, Handing
  <2> QED BY <2>2, <2>3, <2>5, <2>6, <2>7 DEF IInv
<1> QED BY <1>4, <1>5

-------------------------------------------------------------------------------
(* The commands.                                                            *)

LEMMA ProgramTypes ==
  ASSUME IInv, Program,
         hold.offset_high = high(flash_offset), hold.offset_low = low(flash_offset),
         at \in Writing, hold.chunk_len <= flash_line_bytes
  PROVE  /\ flash' \in [0..(FlashSize - 1) -> Words]
         /\ \A k \in 0..(FlashSize - 1) :
              flash'[k] = IF Base <= k /\ k < Base + hold.chunk_len \div 2
                          THEN buffer[k - Base] ELSE flash[k]
         /\ hold.chunk_len \in Nat /\ UNCHANGED <<hold, buffer, installed>>
<1>1. /\ flash_offset \in Nat /\ flash_offset < Radix * Radix
      /\ flash_offset \div 2 = Base /\ Base \in Nat
  BY OffsetFits
<1>2. Value(hold.offset_high, hold.offset_low) = flash_offset
  BY <1>1, Halves
<1>3. hold.chunk_len \in Nat
  BY Sizes DEF IInv, Types, Registers
<1>4. DOMAIN flash = 0..(FlashSize - 1)
  BY DEF IInv, Types
<1>5. flash' = [k \in 0..(FlashSize - 1) |->
                  IF Base <= k /\ k < Base + hold.chunk_len \div 2
                  THEN buffer[k - Base] ELSE flash[k]]
  BY <1>1, <1>2, <1>4 DEF Program
<1>6. ASSUME NEW k \in 0..(FlashSize - 1), Base <= k, k < Base + hold.chunk_len \div 2
      PROVE  buffer[k - Base] \in Words
  <2>1. k - Base \in 0..(LineRegs - 1)
    BY <1>1, <1>3, <1>6, Sizes
  <2> QED BY <2>1 DEF IInv, Types
<1>7. \A k \in 0..(FlashSize - 1) : flash[k] \in Words
  BY DEF IInv, Types
<1> QED BY <1>3, <1>5, <1>6, <1>7 DEF Program

(* write_segment of a full line. *)
LEMMA SegmentInv ==
  ASSUME IInv, at = "write_segment", flash_line # full_lines, Call(Program, NextLine)
  PROVE  IInv'
<1>1. /\ hold.offset_high = high(flash_offset) /\ hold.offset_low = low(flash_offset)
      /\ hold.chunk_len = flash_line_bytes /\ Buffered(LineRegs)
  BY DEF IInv, Sent
<1>2. /\ flash_line < full_lines /\ flash_offset = 2 * Base /\ regs = Base
      /\ buffer_offset = 0 /\ flash_line \in Nat /\ full_lines \in Nat
      /\ Base \in Nat /\ Base + LineRegs <= image.size
      /\ image.size \in Nat /\ image.size <= FlashSize
  <2>1. /\ flash_line <= full_lines /\ flash_offset = 2 * Base
        /\ regs = Base + buffer_offset /\ buffer_offset = 0
    BY DEF IInv, Cursor, Writing, Handing, Calls, Registers
  <2>2. flash_line < full_lines /\ flash_line \in Nat /\ full_lines \in Nat
    BY <2>1, Geometry DEF IInv, Types
  <2>3. Base \in Nat /\ Base + LineRegs <= image.size
    BY <2>2, FullLineFits DEF IInv, Types
  <2>4. image.size \in Nat /\ image.size <= FlashSize
    BY AnImage, Sizes DEF IInv, Types
  <2> QED BY <2>1, <2>2, <2>3, <2>4
<1>3. Program =>
        /\ flash' \in [0..(FlashSize - 1) -> Words]
        /\ \A k \in 0..(FlashSize - 1) :
             flash'[k] = IF Base <= k /\ k < Base + LineRegs
                         THEN buffer[k - Base] ELSE flash[k]
        /\ UNCHANGED <<hold, buffer, installed>>
  <2>1. flash_line_bytes \div 2 = LineRegs
    BY Sizes
  <2>2. at \in Writing /\ hold.chunk_len <= flash_line_bytes
    BY <1>1, Sizes DEF Writing, Calls
  <2> QED BY <1>1, <2>1, <2>2, ProgramTypes
<1>4. CASE /\ Program \/ UNCHANGED device
           /\ at' = "failed" /\ fault' = TRUE /\ UNCHANGED <<cursor, image, strict>>
  <2>1. DeviceTypes'
    BY <1>3, <1>4 DEF IInv, Types, DeviceTypes, device
  <2> QED BY <1>4, <2>1, Thrown
<1>5. CASE Program /\ NextLine /\ UNCHANGED <<fault, image, strict>>
  <2>1. /\ flash_line' = flash_line + 1 /\ flash_line' \in Nat
        /\ flash_line' <= full_lines
        /\ regs' = Base + LineRegs /\ buffer_offset' = 0
        /\ at' = AfterLines(flash_line')
    BY <1>2, <1>5 DEF NextLine
  <2>2. Base' = Base + LineRegs
    BY <1>2, <2>1, Sizes, SMT DEF Base
  <2>3. flash_offset' = 2 * Base'
    BY <1>2, <1>5, <2>2, Sizes DEF NextLine
  <2>4. Types'
    <3>1. at' \in Calls
      BY <2>1 DEF AfterLines, Calls, Registers
    <3>2. flash_offset' \in Nat /\ regs' \in Nat /\ buffer_offset' \in {0, HalfLine}
      BY <1>2, <2>1, <2>2, <2>3, Sizes
    <3> QED BY <1>3, <1>5, <2>1, <3>1, <3>2 DEF IInv, Types
  <2>5. ASSUME NEW k \in 0..(image.size - 1), k < Base'
        PROVE  flash'[k] = image.regs[k]
    <3>1. k \in 0..(FlashSize - 1)
      BY <1>2, Sizes
    <3>2. CASE k < Base
      <4>1. flash[k] = image.regs[k]
        BY <3>2 DEF IInv, Programmed, Writing, Calls
      <4> QED BY <1>2, <1>3, <1>5, <3>1, <3>2, <4>1
    <3>3. CASE ~(k < Base)
      <4>1. k - Base \in 0..(LineRegs - 1) /\ Base <= k /\ k < Base + LineRegs
        BY <1>2, <2>2, <2>5, <3>3, Sizes
      <4>2. buffer[k - Base] = image.regs[Base + (k - Base)]
        BY <1>1, <4>1, Sizes DEF Buffered
      <4>3. Base + (k - Base) = k
        BY <1>2
      <4> QED BY <1>3, <1>5, <3>1, <4>1, <4>2, <4>3
    <3> QED BY <3>2, <3>3
  <2>6. regs' = Base'
    BY <2>1, <2>2
  <2> QED BY <1>5, <2>1, <2>3, <2>4, <2>5, <2>6, LineBegins DEF IInv
<1> QED BY <1>4, <1>5 DEF Call

(* write_segment of the last line. *)
LEMMA LastSegmentInv ==
  ASSUME IInv, at = "write_segment", flash_line = full_lines,
         Call(Program, Goto("total_len_high"))
  PROVE  IInv'
<1>1. /\ hold.offset_high = high(flash_offset) /\ hold.offset_low = low(flash_offset)
      /\ hold.chunk_len = remaining_bytes /\ Buffered(LastRegs)
  BY DEF IInv, Sent
<1>2. /\ Base \in Nat /\ Base + LastRegs = image.size /\ LastRegs \in 0..(LineRegs - 1)
      /\ remaining_bytes = 2 * LastRegs /\ image.size \in Nat
      /\ image.size <= FlashSize
  <2>1. image.size \in Nat /\ image.size <= FlashSize
    BY AnImage, Sizes DEF IInv, Types
  <2> QED BY <2>1, LastLineFits DEF IInv, Types
<1>3. Program =>
        /\ flash' \in [0..(FlashSize - 1) -> Words]
        /\ \A k \in 0..(FlashSize - 1) :
             flash'[k] = IF Base <= k /\ k < Base + LastRegs
                         THEN buffer[k - Base] ELSE flash[k]
        /\ UNCHANGED <<hold, buffer, installed>>
  <2>1. remaining_bytes \div 2 = LastRegs
    BY DEF LastRegs
  <2>2. at \in Writing /\ hold.chunk_len <= flash_line_bytes
    BY <1>1, <1>2, Sizes DEF Writing, Calls
  <2> QED BY <1>1, <2>1, <2>2, ProgramTypes
<1>4. CASE /\ Program \/ UNCHANGED device
           /\ at' = "failed" /\ fault' = TRUE /\ UNCHANGED <<cursor, image, strict>>
  <2>1. DeviceTypes'
    BY <1>3, <1>4 DEF IInv, Types, DeviceTypes, device
  <2> QED BY <1>4, <2>1, Thrown
<1>5. CASE Program /\ Goto("total_len_high") /\ UNCHANGED <<fault, image, strict>>
  <2>1. /\ at' = "total_len_high"
        /\ UNCHANGED <<image, strict, fault, hold, buffer, installed, flash_line,
                       flash_offset, regs, buffer_offset>>
    BY <1>3, <1>5 DEF Goto, cursor
  <2>2. Types'
    BY <1>3, <1>5, <2>1 DEF IInv, Types, Calls, Registers
  <2>3. /\ full_lines' = full_lines /\ remaining_bytes' = remaining_bytes
        /\ Base' = Base /\ Halfway' = Halfway
    BY <2>1 DEF full_lines, remaining_bytes, total_len_bytes, Base, Halfway
  <2>4. Cursor'
    BY <2>1, <2>3 DEF IInv, Cursor, Writing, Handing, Calls, Registers
  <2>5. \A k \in 0..(image.size - 1) : flash'[k] = image.regs[k]
    <3> SUFFICES ASSUME NEW k \in 0..(image.size - 1)
                 PROVE  flash'[k] = image.regs[k]
      OBVIOUS
    <3>1. k \in 0..(FlashSize - 1)
      BY <1>2, Sizes
    <3>2. CASE k < Base
      <4>1. flash[k] = image.regs[k]
        BY <3>2 DEF IInv, Programmed, Writing, Calls
      <4> QED BY <1>2, <1>3, <1>5, <3>1, <3>2, <4>1
    <3>3. CASE ~(k < Base)
      <4>1. k - Base \in 0..(LineRegs - 1) /\ k - Base < LastRegs
            /\ Base <= k /\ k < Base + LastRegs
        BY <1>2, <3>3, Sizes
      <4>2. buffer[k - Base] = image.regs[Base + (k - Base)]
        BY <1>1, <4>1 DEF Buffered
      <4>3. Base + (k - Base) = k
        BY <1>2
      <4> QED BY <1>3, <1>5, <3>1, <4>1, <4>2, <4>3
    <3> QED BY <3>2, <3>3
  <2>6. Programmed' /\ Sent' /\ Told'
    BY <2>1, <2>5 DEF Programmed, Sent, Told, Handing
  <2>7. Refused'
    BY <2>1, <2>3 DEF IInv, Refused, Handing
  <2> QED BY <2>2, <2>4, <2>6, <2>7 DEF IInv
<1> QED BY <1>4, <1>5 DEF Call

(* done: the device installs the image of this update.                      *)
LEMMA Installs ==
  ASSUME IInv, at = "done", Install
  PROVE  installed' = image /\ UNCHANGED <<hold, buffer, flash>>
<1>1. /\ hold.total_len_high = high(total_len_bytes)
      /\ hold.total_len_low = low(total_len_bytes)
      /\ hold.crc32_high = high(image.crc) /\ hold.crc32_low = low(image.crc)
      /\ \A k \in 0..(image.size - 1) : flash[k] = image.regs[k]
  BY DEF IInv, Told, Programmed, Handing
<1>2. /\ image.size \in Nat /\ 2 * image.size < Radix * Radix
      /\ image.regs \in [0..(image.size - 1) -> Words]
      /\ image.crc \in 0..(Radix * Radix - 1) /\ Radix * Radix \in Nat
      /\ image = [size |-> image.size, regs |-> image.regs, crc |-> image.crc]
  BY AnImage, Sizes, ProductNat DEF IInv, Types
<1>3. Value(hold.total_len_high, hold.total_len_low) = 2 * image.size
  <2>1. total_len_bytes = 2 * image.size
    BY DEF total_len_bytes
  <2>2. total_len_bytes \in Nat /\ total_len_bytes < Radix * Radix
    BY <1>2, <2>1
  <2> QED BY <1>1, <2>1, <2>2, Halves
<1>4. Value(hold.crc32_high, hold.crc32_low) = image.crc
  <2>1. image.crc \in Nat /\ image.crc < Radix * Radix
    BY <1>2
  <2> QED BY <1>1, <2>1, Halves
<1>5. (2 * image.size) \div 2 = image.size
  BY <1>2
<1>6. [k \in 0..(image.size - 1) |-> flash[k]] = image.regs
  BY <1>1, <1>2
<1> QED BY <1>2, <1>3, <1>4, <1>5, <1>6 DEF Install

LEMMA DoneInv ==
  ASSUME IInv, at = "done", Call(Install, Goto("completed"))
  PROVE  IInv'
<1>1. Install => installed' \in Images /\ UNCHANGED <<hold, buffer, flash>>
  BY Installs DEF IInv, Types
<1>2. CASE /\ Install \/ UNCHANGED device
           /\ at' = "failed" /\ fault' = TRUE /\ UNCHANGED <<cursor, image, strict>>
  <2>1. DeviceTypes'
    BY <1>1, <1>2 DEF IInv, Types, DeviceTypes, device
  <2> QED BY <1>2, <2>1, Thrown
<1>3. CASE Install /\ Goto("completed") /\ UNCHANGED <<fault, image, strict>>
  <2>1. /\ at' = "completed"
        /\ UNCHANGED <<image, strict, fault, hold, buffer, flash, flash_line,
                       flash_offset, regs, buffer_offset>>
    BY <1>1, <1>3 DEF Goto, cursor
  <2>2. Types'
    BY <1>1, <1>3, <2>1 DEF IInv, Types, Over
  <2>3. Cursor' /\ Sent' /\ Programmed' /\ Told'
    BY <2>1 DEF Cursor, Sent, Programmed, Told, Writing, Handing, Calls, Registers
  <2>4. Refused'
    <3>1. Halfway' = Halfway
      BY <2>1 DEF Halfway, remaining_bytes, total_len_bytes
    <3>2. strict => ~Halfway
      BY DEF IInv, Refused, Handing
    <3> QED BY <2>1, <3>1, <3>2 DEF Refused, Handing
  <2> QED BY <2>2, <2>3, <2>4 DEF IInv
<1> QED BY <1>2, <1>3 DEF Call

-------------------------------------------------------------------------------
(* The actions.                                                             *)

LEMMA FullLineInv == ASSUME IInv, FullLine PROVE IInv'
<1>1. CASE write_holding_register("offset_high", high(flash_offset), "offset_low")
  BY <1>1, WriteHoldingRegisterInv DEF SetRegister
<1>2. CASE write_holding_register("offset_low", low(flash_offset), "first_half")
  BY <1>2, WriteHoldingRegisterInv DEF SetRegister, FullLine
<1>3. CASE at = "first_half" /\ write_multiple_registers(buffer_offset, regs,
                                   HalfLine, Goto("second_half"))
  BY <1>3, FirstHalfInv
<1>4. CASE at = "second_half" /\ write_multiple_registers(buffer_offset + HalfLine,
                                    regs + HalfLine, HalfLine, Goto("chunk_len"))
  BY <1>4, SecondHalfInv
<1>5. CASE write_holding_register("chunk_len", flash_line_bytes, "write_segment")
  BY <1>5, WriteHoldingRegisterInv DEF SetRegister, FullLine
<1>6. CASE at = "write_segment" /\ Call(Program, NextLine)
  BY <1>6, SegmentInv DEF FullLine
<1> QED BY <1>1, <1>2, <1>3, <1>4, <1>5, <1>6 DEF FullLine

LEMMA LastLineInv == ASSUME IInv, LastLine PROVE IInv'
<1>1. CASE write_holding_register("offset_high", high(flash_offset), "offset_low")
  BY <1>1, WriteHoldingRegisterInv DEF SetRegister
<1>2. CASE write_holding_register("offset_low", low(flash_offset), "chunk_len")
  BY <1>2, WriteHoldingRegisterInv DEF SetRegister, LastLine
<1>3. CASE write_holding_register("chunk_len", remaining_bytes,
                                  IF remaining_chunks # 0 THEN "chunk" ELSE "rest")
  BY <1>3, WriteHoldingRegisterInv DEF SetRegister, LastLine
<1>4. CASE at = "chunk" /\ write_multiple_registers(buffer_offset, regs, HalfLine,
                                                    NextChunk("rest"))
  BY <1>4, ChunkInv
<1>5. CASE at = "rest" /\ write_multiple_registers(buffer_offset, regs,
                             remaining_regs, Goto("write_segment"))
  BY <1>5, RestInv
<1>6. CASE at = "write_segment" /\ Call(Program, Goto("total_len_high"))
  BY <1>6, LastSegmentInv DEF LastLine
<1> QED BY <1>1, <1>2, <1>3, <1>4, <1>5, <1>6 DEF LastLine

LEMMA HandOverInv == ASSUME IInv, HandOver PROVE IInv'
<1>1. CASE write_holding_register("total_len_high", high(total_len_bytes), "total_len_low")
  BY <1>1, WriteHoldingRegisterInv DEF SetRegister
<1>2. CASE write_holding_register("total_len_low", low(total_len_bytes), "crc32_high")
  BY <1>2, WriteHoldingRegisterInv DEF SetRegister
<1>3. CASE write_holding_register("crc32_high", high(image.crc), "crc32_low")
  BY <1>3, WriteHoldingRegisterInv DEF SetRegister
<1>4. CASE write_holding_register("crc32_low", low(image.crc), "done")
  BY <1>4, WriteHoldingRegisterInv DEF SetRegister
<1>5. CASE at = "done" /\ Call(Install, Goto("completed"))
  BY <1>5, DoneInv
<1> QED BY <1>1, <1>2, <1>3, <1>4, <1>5 DEF HandOver

LEMMA InitInv == Init => IInv
<1> SUFFICES ASSUME Init PROVE IInv
  OBVIOUS
<1>1. Types
  <2>1. Erased \in Words /\ 0 \in 0..(Radix - 1)
    BY FlashAssumption, Sizes DEF FlashAssumption
  <2> QED BY <2>1 DEF Init, Types, Over
<1>2. Cursor /\ Sent /\ Programmed /\ Told /\ Refused
  BY DEF Init, Cursor, Sent, Programmed, Told, Refused, Writing, Handing, Calls, Registers
<1> QED BY <1>1, <1>2 DEF IInv

LEMMA StutterInv == ASSUME IInv, UNCHANGED vars PROVE IInv'
<1>1. UNCHANGED <<at, image, flash_line, flash_offset, regs, buffer_offset, strict,
                  fault, hold, buffer, flash, installed>>
  BY DEF vars, cursor, device
<1>2. /\ full_lines' = full_lines /\ remaining_bytes' = remaining_bytes
      /\ remaining_chunks' = remaining_chunks /\ total_len_bytes' = total_len_bytes
      /\ Base' = Base /\ LastRegs' = LastRegs /\ Halfway' = Halfway
      /\ \A n : Buffered(n)' <=> Buffered(n)
  BY <1>1 DEF full_lines, remaining_bytes, remaining_chunks, total_len_bytes, Base,
              LastRegs, Halfway, Buffered
<1>3. Types' /\ Cursor'
  BY <1>1, <1>2 DEF IInv, Types, Cursor
<1>4. Sent' /\ Programmed'
  BY <1>1, <1>2 DEF IInv, Sent, Programmed, high, low
<1>5. Told' /\ Refused'
  BY <1>1, <1>2 DEF IInv, Told, Refused, high, low
<1> QED BY <1>3, <1>4, <1>5 DEF IInv

LEMMA NextInv == ASSUME IInv, [Next]_vars PROVE IInv'
BY BeginInv, ReadVersionInv, StartInv, FullLineInv, LastLineInv, HandOverInv,
   StutterInv DEF Next, Update

LEMMA Invariance == Spec => []IInv
<1>1. IInv /\ [Next]_vars => IInv'
  BY NextInv
<1> QED BY InitInv, <1>1, PTL DEF Spec

-------------------------------------------------------------------------------
(* The refinement.                                                          *)

Unfinished == UNCHANGED <<image, installed>> /\ at' \in Calls \cup {"failed"}

LEMMA WriteUnfinished ==
  ASSUME NEW reg, NEW value, NEW next \in Calls,
         write_holding_register(reg, value, next)
  PROVE  Unfinished
BY DEF write_holding_register, Call, Goto, Unfinished, device

LEMMA WritesUnfinished ==
  ASSUME NEW dst, NEW src, NEW n, NEW next \in Calls,
         \/ write_multiple_registers(dst, src, n, Goto(next))
         \/ write_multiple_registers(dst, src, n, NextChunk(next))
  PROVE  Unfinished
BY DEF write_multiple_registers, Call, Goto, NextChunk, Unfinished, device

LEMMA SegmentUnfinished ==
  ASSUME Call(Program, NextLine) \/ Call(Program, Goto("total_len_high"))
  PROVE  Unfinished
BY DEF Call, Program, NextLine, Goto, AfterLines, Unfinished, device, Calls, Registers

LEMMA LinesUnfinished == ASSUME FullLine \/ LastLine PROVE Unfinished
<1>1. /\ {"offset_high", "offset_low", "first_half", "second_half", "chunk_len",
          "chunk", "rest", "write_segment"} \subseteq Calls
      /\ (IF remaining_chunks # 0 THEN "chunk" ELSE "rest") \in Calls
  BY DEF Calls, Registers
<1>2. CASE FullLine
  BY <1>1, <1>2, WriteUnfinished, WritesUnfinished, SegmentUnfinished DEF FullLine
<1>3. CASE LastLine
  BY <1>1, <1>3, WriteUnfinished, WritesUnfinished, SegmentUnfinished DEF LastLine
<1> QED BY <1>2, <1>3

LEMMA BusyCalls == ASSUME Update PROVE at \notin Over
<1>1. ASSUME NEW reg \in Registers, NEW value, NEW next,
             write_holding_register(reg, value, next)
      PROVE  at \notin Over
  BY <1>1 DEF write_holding_register, Registers, Over
<1>2. CASE FullLine \/ LastLine \/ HandOver
  BY <1>1, <1>2 DEF FullLine, LastLine, HandOver, Over, Registers
<1>3. CASE ReadVersion \/ Start
  BY <1>3 DEF ReadVersion, Start, Over
<1> QED BY <1>2, <1>3 DEF Update

(* Every step of an update is one that the promise allows. *)
LEMMA StepKeepsPromise ==
  ASSUME IInv, [Next]_vars
  PROVE  [P!Begin \/ P!ReadFile \/ P!Complete \/ P!Throw]_P!vars
<1>0. ASSUME Unfinished, at \notin Over
      PROVE  UNCHANGED P!vars \/ P!Throw
  BY <1>0 DEF Unfinished, P!vars, P!Throw, Calls, Registers, Over
<1>1. CASE Begin
  BY <1>1 DEF Begin, P!Begin, Over, device
<1>2. CASE ReadVersion
  BY <1>2 DEF ReadVersion, P!ReadFile, P!Throw, Over, device, IInv, Types
<1>3. CASE Start
  <2>1. Unfinished /\ at \notin Over
    BY <1>3 DEF Start, Call, Goto, AfterLines, Unfinished, Over, Calls, Registers, device
  <2> QED BY <1>0, <2>1
<1>4. CASE FullLine \/ LastLine
  <2>1. Unfinished /\ at \notin Over
    BY <1>4, LinesUnfinished, BusyCalls DEF Update
  <2> QED BY <1>0, <2>1
<1>5. CASE HandOver
  <2>1. at \notin Over
    BY <1>5, BusyCalls DEF Update
  <2>2. CASE at = "done" /\ Call(Install, Goto("completed"))
    <3>1. CASE Install /\ Goto("completed") /\ UNCHANGED image
      BY <2>1, <2>2, <3>1, Installs DEF P!Complete, Goto, Over
    <3>2. CASE (Install \/ UNCHANGED device) /\ at' = "failed" /\ UNCHANGED image
      BY <2>1, <2>2, <3>2, Installs DEF P!Throw, Over, device
    <3> QED BY <2>2, <3>1, <3>2 DEF Call
  <2>3. CASE Unfinished
    BY <1>0, <2>1, <2>3
  <2>4. {"total_len_low", "crc32_high", "crc32_low", "done"} \subseteq Calls
    BY DEF Calls, Registers
  <2> QED BY <1>5, <2>2, <2>3, <2>4, WriteUnfinished DEF HandOver
<1>6. CASE UNCHANGED vars
  BY <1>6 DEF vars, device, P!vars
<1> QED BY <1>1, <1>2, <1>3, <1>4, <1>5, <1>6 DEF Next, Update

-------------------------------------------------------------------------------
(* What a step programs.                                                    *)

LEMMA WriteKeepsFlash ==
  ASSUME NEW reg, NEW value, NEW next, write_holding_register(reg, value, next)
  PROVE  UNCHANGED flash
BY DEF write_holding_register, Call, device

LEMMA WritesKeepFlash ==
  ASSUME NEW dst, NEW src, NEW n, NEW ACTION Then,
         write_multiple_registers(dst, src, n, Then)
  PROVE  UNCHANGED flash
BY DEF write_multiple_registers, Call, device

InOrder ==
  \A k \in DOMAIN flash :
    flash'[k] # flash[k] => flash_offset <= 2 * k /\ k < image.size

LEMMA SegmentInOrder ==
  ASSUME IInv, at = "write_segment", Program \/ UNCHANGED device
  PROVE  InOrder
<1>1. /\ hold.offset_high = high(flash_offset) /\ hold.offset_low = low(flash_offset)
      /\ hold.chunk_len = IF flash_line = full_lines THEN remaining_bytes
                                                     ELSE flash_line_bytes
  BY DEF IInv, Sent
<1>2. image.size \in Nat /\ image.size <= FlashSize
  BY AnImage, Sizes DEF IInv, Types
<1>3. /\ Base \in Nat /\ Base + hold.chunk_len \div 2 <= image.size
      /\ hold.chunk_len <= flash_line_bytes /\ flash_offset = 2 * Base
      /\ hold.chunk_len \div 2 \in Nat
  <2>0. flash_offset = 2 * Base /\ flash_line \in Nat /\ flash_line <= full_lines
    BY DEF IInv, Types, Cursor, Writing, Calls
  <2>1. CASE flash_line = full_lines
    <3>1. /\ Base \in Nat /\ Base + LastRegs = image.size
          /\ LastRegs \in 0..(LineRegs - 1) /\ remaining_bytes = 2 * LastRegs
      BY <2>1, LastLineFits DEF IInv, Types
    <3>2. hold.chunk_len \div 2 = LastRegs
      BY <1>1, <2>1 DEF LastRegs
    <3> QED BY <1>1, <2>0, <2>1, <3>1, <3>2, Sizes
  <2>2. CASE flash_line # full_lines
    <3>1. Base \in Nat /\ Base + LineRegs <= image.size
      BY <2>0, <2>2, FullLineFits, Geometry DEF IInv, Types
    <3>2. hold.chunk_len \div 2 = LineRegs
      BY <1>1, <2>2, Sizes
    <3> QED BY <1>1, <2>0, <2>2, <3>1, <3>2, Sizes
  <2> QED BY <2>1, <2>2
<1>4. CASE Program
  <2>1. \A k \in 0..(FlashSize - 1) :
          flash'[k] = IF Base <= k /\ k < Base + hold.chunk_len \div 2
                      THEN buffer[k - Base] ELSE flash[k]
    BY <1>1, <1>2, <1>3, <1>4, ProgramTypes DEF Writing, Calls
  <2>2. DOMAIN flash = 0..(FlashSize - 1)
    BY DEF IInv, Types
  <2>3. ASSUME NEW k \in 0..(FlashSize - 1), flash'[k] # flash[k]
        PROVE  flash_offset <= 2 * k /\ k < image.size
    <3>1. Base <= k /\ k < Base + hold.chunk_len \div 2
      BY <2>1, <2>3
    <3> QED BY <1>2, <1>3, <3>1, Sizes
  <2> QED BY <2>2, <2>3 DEF InOrder
<1>5. CASE UNCHANGED device
  BY <1>5 DEF device, InOrder
<1> QED BY <1>4, <1>5

LEMMA StepInOrder ==
  ASSUME IInv, [Next]_vars, at # "start"
  PROVE  InOrder
<1>0. UNCHANGED flash => InOrder
  BY DEF InOrder
<1>1. CASE Begin \/ ReadVersion \/ UNCHANGED vars
  BY <1>0, <1>1 DEF Begin, ReadVersion, vars, device
<1>2. CASE FullLine \/ LastLine
  <2>1. CASE at = "write_segment" /\ (Program \/ UNCHANGED device)
    BY <2>1, SegmentInOrder
  <2>2. CASE UNCHANGED flash
    BY <1>0, <2>2
  <2>3. Call(Program, NextLine) \/ Call(Program, Goto("total_len_high"))
          => Program \/ UNCHANGED device
    BY DEF Call
  <2> QED BY <1>2, <2>1, <2>2, <2>3, WriteKeepsFlash, WritesKeepFlash
             DEF FullLine, LastLine
<1>3. CASE HandOver
  <2>1. Call(Install, Goto("completed")) => UNCHANGED flash
    BY DEF Call, Install, device
  <2> QED BY <1>0, <1>3, <2>1, WriteKeepsFlash DEF HandOver
<1> QED BY <1>1, <1>2, <1>3 DEF Next, Update, Start

-------------------------------------------------------------------------------
(* The theorems.                                                            *)

(* Every register holds a value of its width, every word of the flash is a  *)
(* word, and what the device starts from is always one of the files.        *)
THEOREM UpdateTypes == Spec => []TypeOK
<1>1. IInv => TypeOK
  BY DEF IInv, Types, TypeOK, Over
<1> QED BY <1>1, Invariance, PTL

(* With a device that refuses a write of no registers the updates that end  *)
(* halfway through a line, and no other, fail although nothing is lost.     *)
THEOREM OnlyHalfwayFails == Spec => []FailsOnlyHalfway
<1>1. IInv => FailsOnlyHalfway
  BY DEF IInv, Refused, FailsOnlyHalfway, Halfway
<1> QED BY <1>1, Invariance, PTL

(* The detailed update implements the promise: whatever is lost, refused or *)
(* left over from an earlier update, the device starts from a whole file.   *)
THEOREM UpdateKeepsPromise == Spec => WholeOrNothing
<1>1. Init => P!PromiseInit
  BY DEF Init, P!PromiseInit, Over
<1>2. IInv /\ [Next]_vars => [P!Begin \/ P!ReadFile \/ P!Complete \/ P!Throw]_P!vars
  BY StepKeepsPromise
<1> QED BY <1>1, <1>2, Invariance, PTL DEF Spec, WholeOrNothing, P!PromiseSpec

(* Lines are programmed in order, each once, and nothing beyond the file.   *)
THEOREM ProgramsInOrder == Spec => ProgrammedInOrder
<1>1. IInv /\ [Next]_vars =>
        [at # "start" =>
           \A k \in DOMAIN flash :
             flash'[k] # flash[k] => flash_offset <= 2 * k /\ k < image.size]_vars
  BY StepInOrder DEF InOrder
<1> QED BY <1>1, Invariance, PTL DEF Spec, ProgrammedInOrder

-------------------------------------------------------------------------------
(* Induction: a set that holds 0 and every successor up to n holds them all.*)

LEMMA LessIsWellFounded == IsWellFoundedOn({p \in Nat \X Nat : p[1] < p[2]}, Nat)
BY NatLessThanWellFounded DEF OpToRel

LEMMA LeastElement ==
  ASSUME NEW Ns, Ns \subseteq Nat, Ns # {}
  PROVE  \E n \in Ns : \A m \in Ns : n <= m
<1> DEFINE Less == {p \in Nat \X Nat : p[1] < p[2]}
<1>1. \E n \in Ns : \A m \in Ns : ~(<<m, n>> \in Less)
  <2>1. IsWellFoundedOn(Less, Nat)
    BY LessIsWellFounded
  <2> HIDE DEF Less
  <2> QED BY <2>1, WFMin
<1>2. PICK n \in Ns : \A m \in Ns : ~(<<m, n>> \in Less)
  BY <1>1
<1>3. ASSUME NEW m \in Ns PROVE n <= m
  <2>1. ~(m < n)
    BY <1>2
  <2> QED BY <2>1
<1> QED BY <1>3

LEMMA Induction ==
  ASSUME NEW n \in Nat, NEW Ns, 0 \in Ns, \A k \in 0..(n - 1) : k \in Ns => k + 1 \in Ns
  PROVE  \A k \in 0..n : k \in Ns
<1> SUFFICES ASSUME (0..n) \ Ns # {} PROVE FALSE
  OBVIOUS
<1>1. PICK k \in (0..n) \ Ns : \A m \in (0..n) \ Ns : k <= m
  <2>1. (0..n) \ Ns \subseteq Nat
    OBVIOUS
  <2> QED BY <2>1, LeastElement
<1>2. k # 0
  BY <1>1
<1>3. k - 1 \in 0..(n - 1) /\ k - 1 \in 0..n /\ (k - 1) + 1 = k /\ ~(k <= k - 1)
  BY <1>1, <1>2
<1>4. k - 1 \in Ns
  BY <1>1, <1>3
<1> QED BY <1>1, <1>3, <1>4

(* What a recursive function over 0..n does: it begins with first and       *)
(* applies step[k] to get the value at k.                                   *)
Follows(f, n, S, first, step) ==
  /\ f \in [0..n -> S] /\ f[0] = first
  /\ \A k \in 1..n : f[k] = step[k][f[k - 1]]

LEMMA RecursionExists ==
  ASSUME NEW n \in Nat, NEW S, NEW first \in S, NEW step \in [1..n -> [S -> S]]
  PROVE  \E f : Follows(f, n, S, first, step)
<1> DEFINE Ns == {m \in 0..n : \E f : Follows(f, m, S, first, step)}
<1>1. 0 \in Ns
  <2>1. Follows([k \in 0..0 |-> first], 0, S, first, step)
    BY DEF Follows
  <2> QED BY <2>1
<1>2. ASSUME NEW m \in 0..(n - 1), m \in Ns PROVE m + 1 \in Ns
  <2>1. PICK f : Follows(f, m, S, first, step)
    BY <1>2
  <2> DEFINE e == step[m + 1][f[m]]
             g == [k \in 0..(m + 1) |-> IF k = m + 1 THEN e ELSE f[k]]
  <2>2. m \in Nat /\ m + 1 \in 1..n /\ m \in 0..m /\ f[m] \in S /\ m + 1 \in 0..n
    BY <2>1 DEF Follows
  <2>3. e \in S
    <3>1. step[m + 1] \in [S -> S]
      BY <2>2
    <3> QED BY <2>2, <3>1
  <2>4. e = step[m + 1][f[m]]
    OBVIOUS
  <2> HIDE DEF e
  <2>5. g \in [0..(m + 1) -> S]
    <3>1. \A k \in 0..(m + 1) : k # m + 1 => k \in 0..m
      BY <2>2
    <3>2. \A k \in 0..m : f[k] \in S
      BY <2>1 DEF Follows
    <3> QED BY <2>3, <3>1, <3>2
  <2>6. g[0] = first
    BY <2>1, <2>2 DEF Follows
  <2>7. ASSUME NEW k \in 1..(m + 1) PROVE g[k] = step[k][g[k - 1]]
    <3>1. k \in 0..(m + 1) /\ k - 1 \in 0..(m + 1) /\ k - 1 # m + 1
      BY <2>2
    <3>2. g[k - 1] = f[k - 1]
      BY <3>1
    <3>3. CASE k = m + 1
      <4>1. k - 1 = m /\ g[k] = e
        BY <2>2, <3>1, <3>3
      <4> QED BY <2>4, <3>2, <3>3, <4>1
    <3>4. CASE k # m + 1
      <4>1. k \in 1..m /\ g[k] = f[k]
        BY <2>2, <3>1, <3>4
      <4> QED BY <2>1, <3>2, <4>1 DEF Follows
    <3> QED BY <3>3, <3>4
  <2>8. Follows(g, m + 1, S, first, step)
    <3> HIDE DEF g
    <3> QED BY <2>5, <2>6, <2>7 DEF Follows
  <2> HIDE DEF g
  <2> QED BY <2>2, <2>8
<1>3. n \in Ns
  <2>1. n \in 0..n
    OBVIOUS
  <2> HIDE DEF Ns
  <2> QED BY <1>1, <1>2, <2>1, Induction
<1> QED BY <1>3

-------------------------------------------------------------------------------
(* Powers of 2 and the bits of a byte.                                      *)

LEMMA Widths ==
  /\ ByteBits \in Nat \ {0} /\ CrcBits \in Nat \ {0} /\ ByteBits <= CrcBits
  /\ Polynomial \subseteq Ones
BY FileAssumption DEF FileAssumption, Ones

IsPower(f) == f = [k \in 0..CrcBits |-> IF k = 0 THEN 1 ELSE 2 * f[k - 1]]

LEMMA PowerExists == \E f : IsPower(f)
<1> DEFINE step == [k \in 1..CrcBits |-> [x \in Nat |-> 2 * x]]
<1>1. step \in [1..CrcBits -> [Nat -> Nat]]
  OBVIOUS
<1>2. PICK f : Follows(f, CrcBits, Nat, 1, step)
  <2> HIDE DEF step
  <2> QED BY <1>1, Widths, RecursionExists
<1>3. \A k \in 1..CrcBits : f[k] = 2 * f[k - 1]
  <2> TAKE k \in 1..CrcBits
  <2>1. k - 1 \in 0..CrcBits
    BY Widths
  <2>2. f[k - 1] \in Nat /\ f[k] = step[k][f[k - 1]]
    BY <1>2, <2>1 DEF Follows
  <2> QED BY <2>2
<1>4. f \in [0..CrcBits -> Nat] /\ f[0] = 1
  BY <1>2 DEF Follows
<1>5. \A k \in 0..CrcBits : f[k] = IF k = 0 THEN 1 ELSE 2 * f[k - 1]
  <2> TAKE k \in 0..CrcBits
  <2>1. k # 0 => k \in 1..CrcBits
    BY Widths
  <2> QED BY <1>3, <1>4, <2>1
<1>6. f = [k \in 0..CrcBits |-> IF k = 0 THEN 1 ELSE 2 * f[k - 1]]
  BY <1>4, <1>5
<1> QED BY <1>6 DEF IsPower

LEMMA PowerIs ==
  /\ Power[0] = 1
  /\ \A k \in 0..(CrcBits - 1) : Power[k + 1] = 2 * Power[k]
  /\ \A k \in 0..CrcBits : Power[k] \in Nat \ {0}
<1>1. Power = CHOOSE f : IsPower(f)
  BY Zenon DEF Power, IsPower
<1>2. IsPower(Power)
  BY <1>1, PowerExists
<1>3. \A k \in 0..CrcBits : Power[k] = IF k = 0 THEN 1 ELSE 2 * Power[k - 1]
  BY <1>2, Zenon DEF IsPower
<1>4. Power[0] = 1
  BY <1>3, Widths
<1>5. \A k \in 0..(CrcBits - 1) : Power[k + 1] = 2 * Power[k]
  <2> TAKE k \in 0..(CrcBits - 1)
  <2>1. k + 1 \in 0..CrcBits /\ k + 1 # 0 /\ (k + 1) - 1 = k
    BY Widths
  <2> QED BY <1>3, <2>1
<1>6. \A k \in 0..CrcBits : Power[k] \in Nat \ {0}
  <2> DEFINE Ns == {k \in Nat : Power[k] \in Nat \ {0}}
  <2>1. 0 \in Ns
    BY <1>4
  <2>2. ASSUME NEW k \in 0..(CrcBits - 1), k \in Ns PROVE k + 1 \in Ns
    <3>1. Power[k + 1] = 2 * Power[k] /\ Power[k] \in Nat \ {0} /\ k + 1 \in Nat
      BY <1>5, <2>2
    <3> QED BY <3>1
  <2>3. \A k \in 0..CrcBits : k \in Ns
    <3> HIDE DEF Ns
    <3> QED BY <2>1, <2>2, Widths, Induction
  <2> QED BY <2>3
<1> QED BY <1>4, <1>5, <1>6

LEMMA PowerMonotone ==
  ASSUME NEW k \in ByteBits..CrcBits
  PROVE  Power[ByteBits] <= Power[k]
<1> DEFINE Ns == {j \in Nat : ByteBits + j <= CrcBits => Power[ByteBits] <= Power[ByteBits + j]}
<1>1. 0 \in Ns
  <2>1. Power[ByteBits] \in Nat /\ ByteBits + 0 = ByteBits
    BY Widths, PowerIs
  <2> QED BY <2>1
<1>2. ASSUME NEW j \in 0..((CrcBits - ByteBits) - 1), j \in Ns PROVE j + 1 \in Ns
  <2>1. /\ ByteBits + j \in 0..(CrcBits - 1) /\ (ByteBits + j) + 1 = ByteBits + (j + 1)
        /\ ByteBits + j \in 0..CrcBits /\ ByteBits \in 0..CrcBits /\ j + 1 \in Nat
        /\ ByteBits + j <= CrcBits
    BY Widths
  <2>2. /\ Power[ByteBits + (j + 1)] = 2 * Power[ByteBits + j]
        /\ Power[ByteBits + j] \in Nat /\ Power[ByteBits] \in Nat
        /\ Power[ByteBits] <= Power[ByteBits + j]
    BY <1>2, <2>1, PowerIs
  <2>3. Power[ByteBits] <= Power[ByteBits + (j + 1)]
    BY <2>2
  <2> QED BY <2>1, <2>3
<1>3. \A j \in 0..(CrcBits - ByteBits) : j \in Ns
  <2>1. CrcBits - ByteBits \in Nat
    BY Widths
  <2> HIDE DEF Ns
  <2> QED BY <1>1, <1>2, <2>1, Induction
<1>4. k - ByteBits \in 0..(CrcBits - ByteBits) /\ ByteBits + (k - ByteBits) = k /\ k <= CrcBits
  BY Widths
<1> QED BY <1>3, <1>4

LEMMA BitsOfByte ==
  ASSUME NEW byte \in Byte
  PROVE  Bits(byte) \subseteq 0..(ByteBits - 1) /\ Bits(byte) \subseteq Ones /\ byte \in Nat
<1>1. Power[ByteBits] \in Nat \ {0}
  BY Widths, PowerIs
<1>2. byte \in Nat /\ byte < Power[ByteBits]
  BY <1>1 DEF Byte
<1>3. ASSUME NEW k \in Bits(byte) PROVE k \in 0..(ByteBits - 1)
  <2>1. k \in 0..(CrcBits - 1) /\ (byte \div Power[k]) % 2 = 1
    BY <1>3 DEF Bits, Ones
  <2>2. CASE k < ByteBits
    BY <2>1, <2>2, Widths
  <2>3. CASE ~(k < ByteBits)
    <3>1. k \in ByteBits..CrcBits /\ k \in 0..CrcBits
      BY <2>1, <2>3, Widths
    <3>2. Power[ByteBits] <= Power[k] /\ Power[k] \in Nat \ {0}
      BY <3>1, PowerMonotone, PowerIs
    <3>3. byte < Power[k]
      BY <1>1, <1>2, <3>2
    <3>4. byte \div Power[k] = 0
      BY <1>2, <3>2, <3>3, SmallModulus
    <3> QED BY <2>1, <3>4
  <2> QED BY <2>2, <2>3
<1> QED BY <1>2, <1>3 DEF Bits
-------------------------------------------------------------------------------
(* The table: what eight steps of the division do to a byte, at once.  Both *)
(* are linear, so that the byte and the rest of the checksum may be divided *)
(* apart.                                                                   *)

LEMMA XorIs ==
  ASSUME NEW a, NEW b
  PROVE  \A x : x \in Xor(a, b) <=> ((x \in a) # (x \in b))
<1> TAKE x
<1>1. x \in Xor(a, b) <=> (x \in a /\ x \notin b) \/ (x \in b /\ x \notin a)
  BY DEF Xor
<1> QED BY <1>1

LEMMA ShiftedIs ==
  ASSUME NEW a, NEW n
  PROVE  \A x : x \in ShiftedBy(a, n) <=> (x \in Ones /\ x + n \in a)
BY DEF ShiftedBy

LEMMA XorTypes ==
  ASSUME NEW a \in SUBSET Ones, NEW b \in SUBSET Ones
  PROVE  Xor(a, b) \in SUBSET Ones
BY DEF Xor

LEMMA DividedTypes ==
  ASSUME NEW c
  PROVE  Divided(c) \in SUBSET Ones
<1>1. ShiftedBy(c, 1) \in SUBSET Ones /\ Polynomial \in SUBSET Ones
  BY Widths DEF ShiftedBy
<1> QED BY <1>1, XorTypes DEF Divided

LEMMA DividedIs ==
  ASSUME NEW c
  PROVE  \A x \in Ones : x \in Divided(c) <=> ((0 \in c /\ x \in Polynomial) # (x + 1 \in c))
BY XorIs, ShiftedIs DEF Divided

LEMMA DividedLinear ==
  ASSUME NEW a, NEW b
  PROVE  Divided(Xor(a, b)) = Xor(Divided(a), Divided(b))
<1>1. \A x \in Ones : x \in Divided(Xor(a, b)) <=> x \in Xor(Divided(a), Divided(b))
  <2> TAKE x \in Ones
  <2>1. /\ 0 \in Xor(a, b) <=> ((0 \in a) # (0 \in b))
        /\ x + 1 \in Xor(a, b) <=> ((x + 1 \in a) # (x + 1 \in b))
    BY XorIs
  <2>2. /\ x \in Divided(a) <=> ((0 \in a /\ x \in Polynomial) # (x + 1 \in a))
        /\ x \in Divided(b) <=> ((0 \in b /\ x \in Polynomial) # (x + 1 \in b))
        /\ x \in Divided(Xor(a, b)) <=>
             ((0 \in Xor(a, b) /\ x \in Polynomial) # (x + 1 \in Xor(a, b)))
    BY DividedIs
  <2>3. x \in Xor(Divided(a), Divided(b)) <=> ((x \in Divided(a)) # (x \in Divided(b)))
    BY XorIs
  <2> QED BY <2>1, <2>2, <2>3
<1>2. Divided(Xor(a, b)) \in SUBSET Ones /\ Xor(Divided(a), Divided(b)) \in SUBSET Ones
  BY DividedTypes, XorTypes
<1> QED BY <1>1, <1>2

(* Where the lowest bit is not set a division is a shift.                   *)
LEMMA DividedShift ==
  ASSUME NEW c \in SUBSET Ones, NEW j \in Nat, j \notin c
  PROVE  Divided(ShiftedBy(c, j)) = ShiftedBy(c, j + 1)
<1>1. 0 \notin ShiftedBy(c, j)
  BY DEF ShiftedBy
<1>2. Divided(ShiftedBy(c, j)) = ShiftedBy(ShiftedBy(c, j), 1)
  BY <1>1 DEF Divided
<1>3. ASSUME NEW x \in Ones
      PROVE  x \in ShiftedBy(ShiftedBy(c, j), 1) <=> x \in ShiftedBy(c, j + 1)
  <2>1. x \in Nat /\ (x + 1) + j = x + (j + 1)
    BY Widths DEF Ones
  <2>2. x + (j + 1) \in c => x + 1 \in Ones
    <3>1. x + (j + 1) \in c => x + (j + 1) \in Ones
      OBVIOUS
    <3>2. x + (j + 1) \in Ones => x + 1 \in Ones
      BY <2>1, Widths DEF Ones
    <3> QED BY <3>1, <3>2
  <2>3. x \in ShiftedBy(c, j + 1) <=> x + (j + 1) \in c
    BY ShiftedIs
  <2>4. x \in ShiftedBy(ShiftedBy(c, j), 1) <=> x + 1 \in ShiftedBy(c, j)
    BY ShiftedIs
  <2>5. x + 1 \in ShiftedBy(c, j) <=> (x + 1 \in Ones /\ (x + 1) + j \in c)
    BY ShiftedIs
  <2> QED BY <2>1, <2>2, <2>3, <2>4, <2>5
<1>4. ShiftedBy(ShiftedBy(c, j), 1) \subseteq Ones /\ ShiftedBy(c, j + 1) \subseteq Ones
  BY DEF ShiftedBy
<1> QED BY <1>2, <1>3, <1>4

(* c is divided bit by bit, from i on.                                      *)
BitByBit(c, i) == c = [j \in 0..ByteBits |-> IF j = 0 THEN i ELSE Divided(c[j - 1])]

LEMMA TableIs ==
  ASSUME NEW i \in SUBSET Ones, i \subseteq 0..(ByteBits - 1)
  PROVE  \E c \in [0..ByteBits -> SUBSET Ones] :
           /\ c[0] = i /\ table[i] = c[ByteBits]
           /\ \A j \in 0..(ByteBits - 1) : c[j + 1] = Divided(c[j])
<1> DEFINE step == [j \in 1..ByteBits |-> [x \in SUBSET Ones |-> Divided(x)]]
           d == CHOOSE c : BitByBit(c, i)
<1>1. step \in [1..ByteBits -> [SUBSET Ones -> SUBSET Ones]]
  BY DividedTypes
<1>2. PICK f : Follows(f, ByteBits, SUBSET Ones, i, step)
  <2> HIDE DEF step
  <2> QED BY <1>1, Widths, RecursionExists
<1>3. f \in [0..ByteBits -> SUBSET Ones] /\ f[0] = i
  BY <1>2 DEF Follows
<1>4. \A j \in 1..ByteBits : f[j] = Divided(f[j - 1])
  <2> TAKE j \in 1..ByteBits
  <2>1. j - 1 \in 0..ByteBits
    BY Widths
  <2>2. f[j - 1] \in SUBSET Ones /\ f[j] = step[j][f[j - 1]]
    BY <1>2, <2>1 DEF Follows
  <2> QED BY <2>2
<1>5. BitByBit(f, i)
  <2>1. \A j \in 0..ByteBits : f[j] = IF j = 0 THEN i ELSE Divided(f[j - 1])
    <3> TAKE j \in 0..ByteBits
    <3>1. j # 0 => j \in 1..ByteBits
      BY Widths
    <3> QED BY <1>3, <1>4, <3>1
  <2>2. f = [j \in 0..ByteBits |-> IF j = 0 THEN i ELSE Divided(f[j - 1])]
    BY <1>3, <2>1
  <2> QED BY <2>2 DEF BitByBit
<1>6. BitByBit(d, i)
  BY <1>5
<1>7. table[i] = d[ByteBits]
  <2>1. i \in SUBSET (0..(ByteBits - 1))
    OBVIOUS
  <2> QED BY <2>1, Zenon DEF table, BitByBit
<1> HIDE DEF d
<1>8. /\ DOMAIN d = 0..ByteBits
      /\ \A j \in 0..ByteBits : d[j] = IF j = 0 THEN i ELSE Divided(d[j - 1])
  BY <1>6, Zenon DEF BitByBit
<1>9. d[0] = i
  BY <1>8, Widths
<1>10. \A j \in 0..(ByteBits - 1) : d[j + 1] = Divided(d[j])
  <2> TAKE j \in 0..(ByteBits - 1)
  <2>1. j + 1 \in 0..ByteBits /\ j + 1 # 0 /\ (j + 1) - 1 = j
    BY Widths
  <2> QED BY <1>8, <2>1
<1>11. d \in [0..ByteBits -> SUBSET Ones]
  <2>1. \A j \in 0..ByteBits : d[j] \in SUBSET Ones
    BY <1>8, DividedTypes
  <2>2. d = [j \in 0..ByteBits |-> d[j]]
    BY <1>6, <1>8, Zenon DEF BitByBit
  <2> QED BY <2>1, <2>2
<1> QED BY <1>7, <1>9, <1>10, <1>11

(* update does to a checksum what a step for each bit of the byte would do. *)
LEMMA ByteAtOnce ==
  ASSUME NEW c \in SUBSET Ones, NEW byte \in Byte,
         NEW s \in [0..ByteBits -> SUBSET Ones], s[0] = c,
         \A j \in 0..(ByteBits - 1) :
           s[j + 1] = Divided(IF j \in Bits(byte) THEN Xor(s[j], {0}) ELSE s[j])
  PROVE  s[ByteBits] = Xor(table[LowByte(Xor(c, Bits(byte)))], ShiftedBy(c, ByteBits))
<1> DEFINE b == Bits(byte)
           x == Xor(c, b)
           head == LowByte(x)
           rest == x \ head
<1>1. b \in SUBSET Ones /\ b \subseteq 0..(ByteBits - 1)
  BY BitsOfByte
<1> HIDE DEF b
<1>2. /\ x \in SUBSET Ones /\ head \in SUBSET Ones /\ rest \in SUBSET Ones
      /\ head \subseteq 0..(ByteBits - 1) /\ rest \cap 0..(ByteBits - 1) = {}
  BY <1>1, XorTypes DEF LowByte
<1>3. PICK t \in [0..ByteBits -> SUBSET Ones] :
        /\ t[0] = head /\ table[head] = t[ByteBits]
        /\ \A j \in 0..(ByteBits - 1) : t[j + 1] = Divided(t[j])
  BY <1>2, TableIs
<1>4. Xor(head, rest) = x
  BY DEF Xor, LowByte
<1>5. \A k : k \in x <=> ((k \in c) # (k \in b))
  BY XorIs
<1> DEFINE Ns == {j \in 0..ByteBits :
                    Xor(s[j], ShiftedBy(b, j)) = Xor(t[j], ShiftedBy(rest, j))}
<1>6. 0 \in Ns
  <2>1. \A k \in Ones : k + 0 = k
    BY Widths DEF Ones
  <2>2. ShiftedBy(b, 0) = b /\ ShiftedBy(rest, 0) = rest
    <3> HIDE DEF rest
    <3> QED BY <1>1, <1>2, <2>1 DEF ShiftedBy
  <2>3. Xor(s[0], ShiftedBy(b, 0)) = Xor(t[0], ShiftedBy(rest, 0))
    BY <1>3, <1>4, <2>2
  <2> QED BY <2>3, Widths
<1> HIDE DEF x, head, rest
<1>7. ASSUME NEW j \in 0..(ByteBits - 1), j \in Ns PROVE j + 1 \in Ns
  <2> DEFINE u == IF j \in b THEN Xor(s[j], {0}) ELSE s[j]
             r == b \ {j}
  <2>1. /\ j \in Nat /\ j \in 0..ByteBits /\ j + 1 \in 0..ByteBits
        /\ Xor(s[j], ShiftedBy(b, j)) = Xor(t[j], ShiftedBy(rest, j))
        /\ s[j + 1] = Divided(u) /\ t[j + 1] = Divided(t[j])
    BY <1>3, <1>7, Widths DEF b
  <2>2. 0 \in Ones /\ \A k \in Ones : k \in Nat
    BY Widths DEF Ones
  <2>3. Xor(s[j], ShiftedBy(b, j)) = Xor(u, ShiftedBy(r, j))
    <3>1. \A k : k \in u <=> ((k \in s[j]) # (j \in b /\ k = 0))
      <4>1. \A k : k \in Xor(s[j], {0}) <=> ((k \in s[j]) # (k \in {0}))
        BY XorIs
      <4> QED BY <4>1
    <3>2. \A k : /\ k \in ShiftedBy(b, j) <=> (k \in Ones /\ k + j \in b)
                 /\ k \in ShiftedBy(r, j) <=> (k \in Ones /\ k + j \in b /\ k # 0)
      <4>1. \A k \in Ones : k + j = j <=> k = 0
        BY <2>1, <2>2
      <4> QED BY <4>1, ShiftedIs
    <3>3. 0 \in ShiftedBy(b, j) <=> j \in b
      <4>1. 0 + j = j
        BY <2>1
      <4> QED BY <2>2, <3>2, <4>1
    <3>4. \A k : (k \in Xor(s[j], ShiftedBy(b, j))) <=> (k \in Xor(u, ShiftedBy(r, j)))
      <4> TAKE k
      <4>1. /\ k \in Xor(s[j], ShiftedBy(b, j)) <=> ((k \in s[j]) # (k \in ShiftedBy(b, j)))
            /\ k \in Xor(u, ShiftedBy(r, j)) <=> ((k \in u) # (k \in ShiftedBy(r, j)))
        BY XorIs
      <4> HIDE DEF u, r
      <4>2. CASE k = 0
        BY <3>1, <3>2, <3>3, <4>1, <4>2
      <4>3. CASE k # 0
        BY <3>1, <3>2, <4>1, <4>3
      <4> QED BY <4>2, <4>3
    <3> HIDE DEF u, r
    <3> QED BY <3>4
  <2>4. r \in SUBSET Ones /\ j \notin r
    BY <1>1
  <2>5. j \notin rest
    BY <1>2, <1>7
  <2> HIDE DEF u, r
  <2>6. Xor(s[j + 1], ShiftedBy(r, j + 1)) = Xor(t[j + 1], ShiftedBy(rest, j + 1))
    <3>1. Divided(Xor(u, ShiftedBy(r, j))) = Xor(Divided(u), Divided(ShiftedBy(r, j)))
      BY DividedLinear
    <3>2. Divided(Xor(t[j], ShiftedBy(rest, j)))
            = Xor(Divided(t[j]), Divided(ShiftedBy(rest, j)))
      BY DividedLinear
    <3>3. /\ Divided(ShiftedBy(r, j)) = ShiftedBy(r, j + 1)
          /\ Divided(ShiftedBy(rest, j)) = ShiftedBy(rest, j + 1)
      BY <1>2, <2>1, <2>4, <2>5, DividedShift
    <3> QED BY <2>1, <2>3, <3>1, <3>2, <3>3
  <2>7. ShiftedBy(r, j + 1) = ShiftedBy(b, j + 1)
    <3>1. \A k \in Ones : k + (j + 1) # j
      BY <2>1, <2>2
    <3> QED BY <3>1 DEF ShiftedBy, r
  <2> QED BY <2>1, <2>6, <2>7
<1>8. Xor(s[ByteBits], ShiftedBy(b, ByteBits)) = Xor(t[ByteBits], ShiftedBy(rest, ByteBits))
  <2>1. ByteBits \in Nat /\ ByteBits \in 0..ByteBits
    BY Widths
  <2>2. \A j \in 0..ByteBits : j \in Ns
    <3> HIDE DEF Ns
    <3> QED BY <1>6, <1>7, <2>1, Induction
  <2> QED BY <2>1, <2>2
<1>9. \A k \in Ones : k + ByteBits \notin 0..(ByteBits - 1)
  BY Widths DEF Ones
<1>10. ShiftedBy(b, ByteBits) = {}
  BY <1>1, <1>9 DEF ShiftedBy
<1>11. ShiftedBy(rest, ByteBits) = ShiftedBy(c, ByteBits)
  <2>1. \A k \in Ones : k + ByteBits \in rest <=> k + ByteBits \in c
    <3> TAKE k \in Ones
    <3>1. k + ByteBits \notin b /\ k + ByteBits \notin head
      BY <1>1, <1>2, <1>9
    <3> QED BY <1>5, <3>1 DEF rest
  <2> QED BY <2>1 DEF ShiftedBy
<1>12. Xor(s[ByteBits], {}) = s[ByteBits]
  BY DEF Xor
<1> QED BY <1>3, <1>8, <1>10, <1>11, <1>12 DEF x, head, b
-------------------------------------------------------------------------------
(* The checksum of a file.                                                  *)

LEMMA XorTwice ==
  ASSUME NEW a, NEW b
  PROVE  Xor(Xor(a, b), b) = a
BY DEF Xor

LEMMA TableTypes ==
  ASSUME NEW i
  PROVE  LowByte(i) \in SUBSET Ones /\ table[LowByte(i)] \in SUBSET Ones
<1>1. LowByte(i) \subseteq 0..(ByteBits - 1)
  BY DEF LowByte
<1>2. 0..(ByteBits - 1) \subseteq Ones
  BY Widths DEF Ones
<1>3. PICK c \in [0..ByteBits -> SUBSET Ones] : table[LowByte(i)] = c[ByteBits]
  BY <1>1, <1>2, TableIs
<1>4. ByteBits \in 0..ByteBits
  BY Widths
<1> QED BY <1>1, <1>2, <1>3, <1>4

LEMMA UpdateIs ==
  ASSUME NEW initial \in SUBSET Ones, NEW byte \in Byte
  PROVE  LET c == Xor(initial, Ones)
         IN  /\ c \in SUBSET Ones /\ update[byte][initial] \in SUBSET Ones
             /\ update[byte][initial]
                  = Xor(Xor(table[LowByte(Xor(c, Bits(byte)))], ShiftedBy(c, ByteBits)), Ones)
<1> DEFINE c == Xor(initial, Ones)
           d == Xor(Xor(table[LowByte(Xor(c, Bits(byte)))], ShiftedBy(c, ByteBits)), Ones)
<1>1. c \in SUBSET Ones
  BY XorTypes
<1>2. d \in SUBSET Ones
  <2> DEFINE x == table[LowByte(Xor(c, Bits(byte)))]
             y == ShiftedBy(c, ByteBits)
  <2>1. x \in SUBSET Ones /\ y \in SUBSET Ones
    BY TableTypes DEF ShiftedBy
  <2> HIDE DEF x, y
  <2>2. Xor(x, y) \in SUBSET Ones
    BY <2>1, XorTypes
  <2>3. Xor(Xor(x, y), Ones) \in SUBSET Ones
    BY <2>2, XorTypes
  <2> QED BY <2>3 DEF x, y
<1>3. update[byte][initial] = d
  BY DEF update
<1> QED BY <1>1, <1>2, <1>3

IsCrc(v, bytes) ==
  v = [k \in 0..Len(bytes) |-> IF k = 0 THEN {} ELSE update[bytes[k]][v[k - 1]]]

LastCrc(bytes) == (CHOOSE v : IsCrc(v, bytes))[Len(bytes)]

LEMMA CrcOfFile ==
  ASSUME NEW file
  PROVE  registers_from_file(file).crc = Number(LastCrc(Padded(file)))
<1> DEFINE bytes == Padded(file)
           w == CHOOSE v : v = [k \in 0..Len(bytes) |->
                                  IF k = 0 THEN {} ELSE update[bytes[k]][v[k - 1]]]
<1>1. registers_from_file(file).crc = Number(w[Len(bytes)])
  BY DEF registers_from_file
<1>2. w[Len(bytes)] = LastCrc(bytes)
  BY Zenon DEF LastCrc, IsCrc
<1> QED BY <1>1, <1>2

(* What registers_from_file computes on the way.                            *)
LEMMA CrcIs ==
  ASSUME NEW bytes \in Seq(Byte)
  PROVE  \E v \in [0..Len(bytes) -> SUBSET Ones] :
           /\ v[0] = {} /\ v[Len(bytes)] = LastCrc(bytes)
           /\ \A k \in 0..(Len(bytes) - 1) : v[k + 1] = update[bytes[k + 1]][v[k]]
<1> DEFINE n == Len(bytes)
           step == [k \in 1..n |-> [x \in SUBSET Ones |-> update[bytes[k]][x]]]
           v == CHOOSE w : IsCrc(w, bytes)
<1>1. n \in Nat /\ \A k \in 1..n : bytes[k] \in Byte
  OBVIOUS
<1>2. step \in [1..n -> [SUBSET Ones -> SUBSET Ones]]
  BY <1>1, UpdateIs
<1>3. \A k \in 1..n : \A x \in SUBSET Ones : step[k][x] = update[bytes[k]][x]
  OBVIOUS
<1> HIDE DEF step, n
<1>4. PICK f : Follows(f, n, SUBSET Ones, {}, step)
  BY <1>1, <1>2, RecursionExists
<1>5. f \in [0..n -> SUBSET Ones] /\ f[0] = {}
  BY <1>4 DEF Follows
<1>6. \A k \in 0..n : f[k] = IF k = 0 THEN {} ELSE update[bytes[k]][f[k - 1]]
  <2> TAKE k \in 0..n
  <2>1. CASE k # 0
    <3>1. k \in 1..n /\ k - 1 \in 0..n
      BY <1>1, <2>1
    <3>2. f[k - 1] \in SUBSET Ones /\ f[k] = step[k][f[k - 1]]
      BY <1>4, <3>1 DEF Follows
    <3> QED BY <1>3, <2>1, <3>1, <3>2
  <2> QED BY <1>5, <2>1
<1>7. f = [k \in 0..n |-> IF k = 0 THEN {} ELSE update[bytes[k]][f[k - 1]]]
  BY <1>5, <1>6
<1>8. IsCrc(v, bytes)
  BY <1>7 DEF IsCrc, n
<1>9. v[n] = LastCrc(bytes)
  BY DEF LastCrc, n
<1> HIDE DEF v
<1>10. /\ v = [k \in 0..n |-> v[k]]
       /\ \A k \in 0..n : v[k] = IF k = 0 THEN {} ELSE update[bytes[k]][v[k - 1]]
  BY <1>8, Zenon DEF IsCrc, n
<1>11. v[0] = {}
  <2>1. 0 \in 0..n
    BY <1>1
  <2> QED BY <1>10, <2>1
<1>12. \A k \in 0..(n - 1) : v[k + 1] = update[bytes[k + 1]][v[k]]
  <2> TAKE k \in 0..(n - 1)
  <2>1. k + 1 \in 0..n /\ k + 1 # 0 /\ (k + 1) - 1 = k
    BY <1>1
  <2> QED BY <1>10, <2>1
<1>13. \A k \in 0..n : v[k] \in SUBSET Ones
  <2> DEFINE Ns == {k \in Nat : v[k] \in SUBSET Ones}
  <2>1. 0 \in Ns
    BY <1>11
  <2>2. ASSUME NEW k \in 0..(n - 1), k \in Ns PROVE k + 1 \in Ns
    <3>1. k + 1 \in 1..n /\ k + 1 \in Nat
      BY <1>1
    <3>2. v[k + 1] = update[bytes[k + 1]][v[k]] /\ bytes[k + 1] \in Byte
      BY <1>1, <1>12, <3>1
    <3> QED BY <2>2, <3>1, <3>2, UpdateIs
  <2>3. \A k \in 0..n : k \in Ns
    <3> HIDE DEF Ns
    <3> QED BY <1>1, <2>1, <2>2, Induction
  <2> QED BY <2>3
<1>14. v \in [0..n -> SUBSET Ones]
  BY <1>10, <1>13
<1> QED BY <1>9, <1>11, <1>12, <1>14 DEF n
-------------------------------------------------------------------------------
(* The bytes that the device starts from.                                   *)

(* What is divided by b is known from a quotient and a remainder.           *)
LEMMA Quotient ==
  ASSUME NEW q \in Nat, NEW b \in Nat \ {0}, NEW r \in 0..(b - 1)
  PROVE  (q * b + r) \div b = q /\ (q * b + r) % b = r
<1> DEFINE x == q * b + r
           u == x \div b
           v == x % b
<1>1. x \in Nat
  BY ProductNat
<1>2. u \in Nat /\ v \in 0..(b - 1) /\ q * b + r = u * b + v
  BY <1>1, Division
<1> HIDE DEF u, v
<1>3. u * b \in Nat /\ q * b \in Nat
  BY <1>2, ProductNat
<1>4. ~(u < q)
  <2> SUFFICES ASSUME u < q PROVE FALSE
    OBVIOUS
  <2>1. u * b + b <= q * b
    BY <1>2, ProductMonotone
  <2> QED BY <1>2, <1>3, <2>1
<1>5. ~(q < u)
  <2> SUFFICES ASSUME q < u PROVE FALSE
    OBVIOUS
  <2>1. q * b + b <= u * b
    BY <1>2, ProductMonotone
  <2> QED BY <1>2, <1>3, <2>1
<1>6. u = q
  BY <1>2, <1>4, <1>5
<1>7. v = r
  BY <1>2, <1>3, <1>6
<1> QED BY <1>6, <1>7 DEF u, v

LEMMA PaddedIs ==
  ASSUME NEW file \in Seq(Byte)
  PROVE  LET bytes == Padded(file)
         IN  /\ bytes \in Seq(Byte) /\ Len(bytes) % 4 = 0
             /\ Len(bytes) - Len(file) \in 0..3
             /\ \A k \in 1..Len(bytes) : bytes[k] = IF k <= Len(file) THEN file[k] ELSE 0
<1> DEFINE p == (-Len(file)) % 4
           zeros == [k \in 1..p |-> 0]
           bytes == Padded(file)
<1>1. Len(file) \in Nat
  OBVIOUS
<1>2. p \in 0..3 /\ (Len(file) + p) % 4 = 0
  BY <1>1, SMT
<1>3. 0 \in Byte
  <2>1. Power[ByteBits] \in Nat \ {0}
    BY Widths, PowerIs
  <2> QED BY <2>1 DEF Byte
<1>4. bytes = file \o zeros
  BY DEF Padded
<1> HIDE DEF p, bytes
<1>5. zeros \in Seq(Byte) /\ Len(zeros) = p
  BY <1>2, <1>3
<1>6. \A k \in 1..p : zeros[k] = 0
  OBVIOUS
<1> HIDE DEF zeros
<1>7. /\ bytes \in Seq(Byte) /\ Len(bytes) = Len(file) + p
      /\ \A k \in 1..Len(bytes) :
           bytes[k] = IF k <= Len(file) THEN file[k] ELSE zeros[k - Len(file)]
  BY <1>4, <1>5, ConcatProperties
<1>8. \A k \in 1..Len(bytes) : k > Len(file) => k - Len(file) \in 1..p
  BY <1>1, <1>2, <1>7
<1> QED BY <1>1, <1>2, <1>6, <1>7, <1>8 DEF bytes

(* The bytes of the registers are those of the file.                        *)
LEMMA RegistersHoldBytes ==
  ASSUME NEW file \in Seq(Byte), NEW i, i = registers_from_file(file)
  PROVE  LET bytes == Padded(file)
         IN  /\ i.size = Len(bytes) \div 2 /\ 2 * i.size = Len(bytes)
             /\ \A k \in 1..Len(bytes) :
                  bytes[k] = IF k % 2 = 1 THEN i.regs[(k - 1) \div 2] \div Power[ByteBits]
                             ELSE i.regs[(k - 1) \div 2] % Power[ByteBits]
<1> DEFINE bytes == Padded(file)
           n == Len(bytes)
<1>1. bytes \in Seq(Byte) /\ n \in Nat /\ n % 4 = 0
  BY PaddedIs
<1>2. Power[ByteBits] \in Nat \ {0}
  BY Widths, PowerIs
<1>3. /\ i.size = n \div 2
      /\ i.regs = [k \in 0..((n \div 2) - 1) |-> Register(bytes[(2 * k) + 1], bytes[(2 * k) + 2])]
  BY DEF registers_from_file
<1> HIDE DEF bytes, n
<1>4. n \div 2 \in Nat /\ n = 2 * (n \div 2)
  BY <1>1
<1>5. ASSUME NEW k \in 1..n
      PROVE  bytes[k] = IF k % 2 = 1 THEN i.regs[(k - 1) \div 2] \div Power[ByteBits]
                        ELSE i.regs[(k - 1) \div 2] % Power[ByteBits]
  <2> DEFINE j == (k - 1) \div 2
             a == bytes[(2 * j) + 1]
             b == bytes[(2 * j) + 2]
  <2>1. /\ j \in 0..((n \div 2) - 1)
        /\ (2 * j) + 1 \in 1..n /\ (2 * j) + 2 \in 1..n
        /\ k % 2 = 1 => k = (2 * j) + 1
        /\ k % 2 # 1 => k = (2 * j) + 2
    BY <1>1, <1>4
  <2> HIDE DEF j
  <2>2. i.regs[j] = Register(a, b)
    BY <1>3, <2>1
  <2>3. a \in Byte /\ b \in Byte
    BY <1>1, <2>1 DEF n
  <2> HIDE DEF a, b
  <2>4. Register(a, b) \div Power[ByteBits] = a /\ Register(a, b) % Power[ByteBits] = b
    <3>1. a \in Nat /\ b \in 0..(Power[ByteBits] - 1)
      BY <1>2, <2>3 DEF Byte
    <3> QED BY <1>2, <3>1, Quotient DEF Register
  <2>5. bytes[k] = IF k % 2 = 1 THEN a ELSE b
    BY <2>1 DEF a, b
  <2> QED BY <2>2, <2>4, <2>5 DEF j
<1> QED BY <1>3, <1>4, <1>5 DEF bytes, n

(* What the device starts from are the bytes of a file of Files.            *)
LEMMA StartedIs ==
  ASSUME installed \in Images
  PROVE  \E f \in Files :
           /\ f \in Seq(Byte) /\ installed = registers_from_file(f) /\ Started = Padded(f)
           /\ Padded(f) \in Seq(Byte)
<1>1. PICK f \in Files : installed = registers_from_file(f) /\ f \in Seq(Byte)
  BY FlashFileAssumption DEF FlashFileAssumption
<1> DEFINE bytes == Padded(f)
<1>2. bytes \in Seq(Byte)
  BY <1>1, PaddedIs
<1>3. /\ 2 * installed.size = Len(bytes)
      /\ \A k \in 1..Len(bytes) :
           bytes[k] = IF k % 2 = 1 THEN installed.regs[(k - 1) \div 2] \div Power[ByteBits]
                      ELSE installed.regs[(k - 1) \div 2] % Power[ByteBits]
  BY <1>1, RegistersHoldBytes
<1> HIDE DEF bytes
<1>4. Started = [k \in 1..Len(bytes) |-> bytes[k]]
  BY <1>3 DEF Started
<1>5. bytes = [k \in 1..Len(bytes) |-> bytes[k]]
  BY <1>2
<1> QED BY <1>1, <1>2, <1>4, <1>5 DEF bytes

LEMMA StartsFromAFile ==
  ASSUME installed \in Images
  PROVE  DeviceHoldsFile
<1>1. PICK f \in Files : f \in Seq(Byte) /\ Started = Padded(f) /\ Padded(f) \in Seq(Byte)
  BY StartedIs
<1>2. DOMAIN Started = 1..Len(Started)
  BY <1>1
<1>3. /\ Len(Started) % 4 = 0 /\ Len(Started) - Len(f) \in 0..3
      /\ \A k \in 1..Len(Started) : Started[k] = IF k <= Len(f) THEN f[k] ELSE 0
  BY <1>1, PaddedIs
<1> QED BY <1>2, <1>3 DEF DeviceHoldsFile

-------------------------------------------------------------------------------
(* The checksum by its definition, and that it is the one of the file.      *)

(* A step of the checksum by its definition.                                *)
BitStep(k, c) == Divided(IF Bit(k) = 1 THEN Xor(c, {0}) ELSE c)

AnyStep ==
  [bit \in 0..1 |-> [d \in SUBSET Ones |-> Divided(IF bit = 1 THEN Xor(d, {0}) ELSE d)]]

IsChecksum(c) ==
  c = [k \in 0..(Len(Started) * ByteBits) |->
         IF k = 0 THEN Ones ELSE AnyStep[Bit(k)][c[k - 1]]]

LEMMA BitIs ==
  ASSUME Started \in Seq(Byte), NEW k \in 0..(Len(Started) - 1), NEW j \in 0..(ByteBits - 1)
  PROVE  /\ Bit(((k * ByteBits) + j) + 1) \in 0..1
         /\ Bit(((k * ByteBits) + j) + 1) = 1 <=> j \in Bits(Started[k + 1])
<1> DEFINE m == (k * ByteBits) + j
           byte == Started[k + 1]
           p == Power[j]
<1>1. k \in Nat /\ ByteBits \in Nat \ {0} /\ j \in Ones /\ j \in 0..CrcBits
      /\ k + 1 \in 1..Len(Started)
  BY Widths DEF Ones
<1>2. m \in Nat /\ m \div ByteBits = k /\ m % ByteBits = j
  <2>1. k * ByteBits \in Nat
    BY <1>1, ProductNat
  <2>2. m \in Nat
    BY <2>1
  <2>3. m \div ByteBits = k /\ m % ByteBits = j
    BY <1>1, Quotient
  <2> QED BY <2>2, <2>3
<1>3. byte \in Byte /\ byte \in Nat /\ p \in Nat \ {0}
  BY <1>1, PowerIs, BitsOfByte
<1> HIDE DEF m, byte, p
<1>4. (m + 1) - 1 = m /\ 1 + k = k + 1
  BY <1>1, <1>2
<1>5. Bit(m + 1) = (byte \div p) % 2
  BY <1>2, <1>4 DEF Bit, byte, p
<1>6. (byte \div p) % 2 \in 0..1
  <2>1. byte \div p \in Nat
    BY <1>3, Division
  <2> QED BY <2>1
<1>7. j \in Bits(byte) <=> (byte \div p) % 2 = 1
  BY <1>1 DEF Bits, p
<1> QED BY <1>5, <1>6, <1>7 DEF m, byte

LEMMA EveryBit ==
  ASSUME Started \in Seq(Byte), NEW i \in 1..(Len(Started) * ByteBits)
  PROVE  Bit(i) \in 0..1
<1> DEFINE n == Len(Started)
           k == (i - 1) \div ByteBits
           j == (i - 1) % ByteBits
<1>1. n \in Nat /\ ByteBits \in Nat \ {0} /\ n * ByteBits \in Nat
  BY Widths, ProductNat
<1>2. i - 1 \in Nat /\ i - 1 < n * ByteBits
  BY <1>1
<1>3. k \in Nat /\ j \in 0..(ByteBits - 1) /\ i - 1 = k * ByteBits + j
  BY <1>1, <1>2, Division
<1> HIDE DEF n, k, j
<1>4. k * ByteBits \in Nat
  BY <1>1, <1>3, ProductNat
<1>5. k < n
  <2> SUFFICES ASSUME ~(k < n) PROVE FALSE
    OBVIOUS
  <2>1. CASE n = k
    BY <1>1, <1>2, <1>3, <1>4, <2>1
  <2>2. CASE n < k
    <3>1. n * ByteBits + ByteBits <= k * ByteBits
      BY <1>1, <1>3, <2>2, ProductMonotone
    <3> QED BY <1>1, <1>2, <1>3, <1>4, <3>1
  <2> QED BY <1>1, <1>3, <2>1, <2>2
<1>6. k \in 0..(n - 1) /\ ((k * ByteBits) + j) + 1 = i
  BY <1>1, <1>3, <1>4, <1>5
<1> QED BY <1>3, <1>6, BitIs DEF n

LEMMA ChecksumIs ==
  ASSUME Started \in Seq(Byte)
  PROVE  LET n == Len(Started) * ByteBits
         IN  \E c \in [0..n -> SUBSET Ones] :
               /\ c[0] = Ones /\ Checksum = Number(Xor(c[n], Ones))
               /\ \A k \in 0..(n - 1) : c[k + 1] = BitStep(k + 1, c[k])
<1> DEFINE n == Len(Started) * ByteBits
           step == [k \in 1..n |-> [d \in SUBSET Ones |-> BitStep(k, d)]]
           c == CHOOSE e : IsChecksum(e)
<1>1. n \in Nat
  BY Widths, ProductNat
<1>2. \A k \in 1..n : \A d \in SUBSET Ones :
        AnyStep[Bit(k)][d] = BitStep(k, d) /\ BitStep(k, d) \in SUBSET Ones
  BY EveryBit, DividedTypes DEF AnyStep, BitStep
<1>3. step \in [1..n -> [SUBSET Ones -> SUBSET Ones]]
  BY <1>2
<1>4. \A k \in 1..n : \A d \in SUBSET Ones : step[k][d] = BitStep(k, d)
  OBVIOUS
<1> HIDE DEF step, n
<1>5. PICK f : Follows(f, n, SUBSET Ones, Ones, step)
  BY <1>1, <1>3, RecursionExists
<1>6. f \in [0..n -> SUBSET Ones] /\ f[0] = Ones
  BY <1>5 DEF Follows
<1>7. \A k \in 0..n : f[k] = IF k = 0 THEN Ones ELSE AnyStep[Bit(k)][f[k - 1]]
  <2> TAKE k \in 0..n
  <2>1. CASE k # 0
    <3>1. k \in 1..n /\ k - 1 \in 0..n
      BY <1>1, <2>1
    <3>2. f[k - 1] \in SUBSET Ones /\ f[k] = step[k][f[k - 1]]
      BY <1>5, <3>1 DEF Follows
    <3> QED BY <1>2, <1>4, <2>1, <3>1, <3>2
  <2> QED BY <1>6, <2>1
<1>8. f = [k \in 0..n |-> IF k = 0 THEN Ones ELSE AnyStep[Bit(k)][f[k - 1]]]
  BY <1>6, <1>7
<1>9. IsChecksum(c)
  BY <1>8 DEF IsChecksum, n
<1>10. Checksum = Number(Xor(c[n], Ones))
  BY Zenon DEF Checksum, IsChecksum, AnyStep, n
<1> HIDE DEF c
<1>11. /\ c = [k \in 0..n |-> c[k]]
       /\ \A k \in 0..n : c[k] = IF k = 0 THEN Ones ELSE AnyStep[Bit(k)][c[k - 1]]
  BY <1>9, Zenon DEF IsChecksum, n
<1>12. c[0] = Ones
  <2>1. 0 \in 0..n
    BY <1>1
  <2> QED BY <1>11, <2>1
<1>13. \A k \in 0..(n - 1) : c[k + 1] = AnyStep[Bit(k + 1)][c[k]] /\ k + 1 \in 1..n
  <2> TAKE k \in 0..(n - 1)
  <2>1. k + 1 \in 0..n /\ k + 1 # 0 /\ (k + 1) - 1 = k /\ k + 1 \in 1..n
    BY <1>1
  <2> QED BY <1>11, <2>1
<1>14. \A k \in 0..n : c[k] \in SUBSET Ones
  <2> DEFINE Ns == {k \in Nat : c[k] \in SUBSET Ones}
  <2>1. 0 \in Ns
    BY <1>12
  <2>2. ASSUME NEW k \in 0..(n - 1), k \in Ns PROVE k + 1 \in Ns
    <3>1. k + 1 \in 1..n /\ k + 1 \in Nat
      BY <1>1
    <3>2. c[k + 1] = AnyStep[Bit(k + 1)][c[k]]
      BY <1>13
    <3> QED BY <1>2, <2>2, <3>1, <3>2
  <2>3. \A k \in 0..n : k \in Ns
    <3> HIDE DEF Ns
    <3> QED BY <1>1, <2>1, <2>2, Induction
  <2> QED BY <2>3
<1>15. \A k \in 0..(n - 1) : c[k + 1] = BitStep(k + 1, c[k])
  <2> TAKE k \in 0..(n - 1)
  <2>1. k \in 0..n
    BY <1>1
  <2> QED BY <1>2, <1>13, <1>14, <2>1
<1>16. c \in [0..n -> SUBSET Ones]
  BY <1>11, <1>14
<1> QED BY <1>10, <1>12, <1>15, <1>16 DEF n

(* Byte by byte the checksum is the same as bit by bit.                     *)
LEMMA ChecksumOfStarted ==
  ASSUME installed \in Images
  PROVE  ChecksumOfFlash
<1> DEFINE n == Len(Started)
<1>1. PICK file \in Files :
        /\ installed = registers_from_file(file) /\ Started = Padded(file)
        /\ Started \in Seq(Byte)
  BY StartedIs
<1>2. n \in Nat /\ ByteBits \in Nat \ {0} /\ n * ByteBits \in Nat
  BY <1>1, Widths, ProductNat
<1>3. PICK v \in [0..n -> SUBSET Ones] :
        /\ v[0] = {} /\ installed.crc = Number(v[n])
        /\ \A k \in 0..(n - 1) : v[k + 1] = update[Started[k + 1]][v[k]]
  <2>1. installed.crc = Number(LastCrc(Started))
    BY <1>1, CrcOfFile
  <2>2. \E v \in [0..Len(Started) -> SUBSET Ones] :
          /\ v[0] = {} /\ v[Len(Started)] = LastCrc(Started)
          /\ \A k \in 0..(Len(Started) - 1) : v[k + 1] = update[Started[k + 1]][v[k]]
    BY <1>1, CrcIs
  <2> QED BY <2>1, <2>2, Zenon
<1>4. PICK c \in [0..(n * ByteBits) -> SUBSET Ones] :
        /\ c[0] = Ones /\ Checksum = Number(Xor(c[n * ByteBits], Ones))
        /\ \A k \in 0..((n * ByteBits) - 1) : c[k + 1] = BitStep(k + 1, c[k])
  BY <1>1, ChecksumIs
<1>5. \A k \in 0..(n - 1) : Started[k + 1] \in Byte
  BY <1>1
<1> HIDE DEF n
<1> DEFINE Ns == {k \in Nat : c[k * ByteBits] = Xor(v[k], Ones)}
<1>6. 0 \in Ns
  <2>1. 0 * ByteBits = 0
    BY <1>2
  <2>2. Xor({}, Ones) = Ones
    BY DEF Xor
  <2> QED BY <1>3, <1>4, <2>1, <2>2
<1>7. ASSUME NEW k \in 0..(n - 1), k \in Ns PROVE k + 1 \in Ns
  <2> DEFINE b == k * ByteBits
             byte == Started[k + 1]
             s == [j \in 0..ByteBits |-> c[b + j]]
  <2>1. k \in Nat /\ k + 1 \in Nat /\ k \in 0..n /\ byte \in Byte
    BY <1>2, <1>5
  <2>2. b \in Nat /\ (k + 1) * ByteBits = b + ByteBits /\ b + ByteBits <= n * ByteBits
    <3>1. b \in Nat
      BY <1>2, <2>1, ProductNat
    <3>2. b + ByteBits <= n * ByteBits
      BY <1>2, <2>1, ProductMonotone
    <3>3. (k + 1) * ByteBits = b + ByteBits
      BY <1>2, <2>1
    <3> QED BY <3>1, <3>2, <3>3
  <2> HIDE DEF b, byte
  <2>3. \A j \in 0..ByteBits : b + j \in 0..(n * ByteBits)
    BY <1>2, <2>2
  <2>4. s \in [0..ByteBits -> SUBSET Ones]
    BY <2>3
  <2>5. s[0] = Xor(v[k], Ones)
    <3>1. 0 \in 0..ByteBits /\ b + 0 = b
      BY <1>2, <2>2
    <3>2. s[0] = c[b]
      BY <3>1
    <3> QED BY <1>7, <3>2 DEF b
  <2>6. \A j \in 0..(ByteBits - 1) :
          s[j + 1] = Divided(IF j \in Bits(byte) THEN Xor(s[j], {0}) ELSE s[j])
    <3> TAKE j \in 0..(ByteBits - 1)
    <3>1. /\ j \in 0..ByteBits /\ j + 1 \in 0..ByteBits /\ b + (j + 1) = (b + j) + 1
          /\ b + j \in 0..((n * ByteBits) - 1)
      BY <1>2, <2>2
    <3>2. s[j] = c[b + j] /\ s[j + 1] = c[(b + j) + 1]
      BY <3>1
    <3>3. c[(b + j) + 1] = BitStep((b + j) + 1, c[b + j])
      BY <1>4, <3>1
    <3>4. Bit((b + j) + 1) = 1 <=> j \in Bits(byte)
      BY <1>1, BitIs DEF n, b, byte
    <3> QED BY <3>2, <3>3, <3>4 DEF BitStep
  <2>7. s[ByteBits] = c[(k + 1) * ByteBits]
    <3>1. ByteBits \in 0..ByteBits
      BY <1>2
    <3> QED BY <2>2, <3>1
  <2> HIDE DEF s
  <2> DEFINE d == Xor(v[k], Ones)
             t == Xor(table[LowByte(Xor(d, Bits(byte)))], ShiftedBy(d, ByteBits))
  <2>8. v[k] \in SUBSET Ones
    BY <1>3, <2>1
  <2>9. d \in SUBSET Ones /\ update[byte][v[k]] = Xor(t, Ones)
    BY <2>1, <2>8, UpdateIs
  <2>10. s[ByteBits] = t
    <3> HIDE DEF d
    <3>1. s[0] = d
      BY <2>5 DEF d
    <3> QED BY <2>1, <2>4, <2>6, <2>9, <3>1, ByteAtOnce
  <2>11. v[k + 1] = Xor(t, Ones)
    BY <1>3, <2>9 DEF byte
  <2> HIDE DEF t
  <2>12. Xor(v[k + 1], Ones) = t
    BY <2>11, XorTwice
  <2> QED BY <2>1, <2>7, <2>10, <2>12
<1>8. c[n * ByteBits] = Xor(v[n], Ones)
  <2>1. n \in 0..n
    BY <1>2
  <2>2. \A k \in 0..n : k \in Ns
    <3> HIDE DEF Ns
    <3> QED BY <1>2, <1>6, <1>7, Induction
  <2> QED BY <2>1, <2>2
<1>9. installed.crc = Checksum
  BY <1>3, <1>4, <1>8, XorTwice
<1> QED BY <1>9 DEF ChecksumOfFlash
-------------------------------------------------------------------------------
(* Theorems about the files.                                                *)

(* After an update that returned the device starts from the bytes of a      *)
(* file, in their order, and the zeros that registers_from_file adds.       *)
THEOREM FlashHoldsAFile == Spec => []DeviceHoldsFile
<1>1. IInv => DeviceHoldsFile
  BY StartsFromAFile DEF IInv, Types, TypeOK
<1> QED BY <1>1, Invariance, PTL

(* The checksum that flash_update hands over is the CRC of the bytes that   *)
(* the device starts from, for any polynomial and any files: the table of   *)
(* CRC32 and its step for each byte do what a step for each bit would.      *)
THEOREM ChecksumIsRight == Spec => []ChecksumOfFlash
<1>1. IInv => ChecksumOfFlash
  BY ChecksumOfStarted DEF IInv, Types, TypeOK
<1> QED BY <1>1, Invariance, PTL
===============================================================================
