------------------------------ MODULE FlashFile -------------------------------
(***************************************************************************)
(* flash_update with the files it reads: from the bytes of a file, through  *)
(* registers_from_file and the protocol, to what the device starts from.    *)
(***************************************************************************)
EXTENDS FlashUpdate, FileRegisters

CONSTANT Files      \* sequences of bytes

ASSUME FlashFileAssumption ==
  /\ \A f \in Files : f \in Seq(Byte)
  /\ Images = {registers_from_file(f) : f \in Files}
-------------------------------------------------------------------------------
(* Properties.                                                              *)

(* The bytes that the device starts from, high byte first. *)
Started ==
  [k \in 1..(2 * installed.size) |->
     IF k % 2 = 1 THEN installed.regs[(k - 1) \div 2] \div Power[ByteBits]
                  ELSE installed.regs[(k - 1) \div 2] % Power[ByteBits]]

(* After an update that returned these are the bytes of a file, and up to   *)
(* three zeros that make them a multiple of four.                           *)
DeviceHoldsFile ==
  at = "completed" =>
    \E f \in Files :
      /\ Len(Started) % 4 = 0 /\ Len(Started) - Len(f) \in 0..3
      /\ \A k \in DOMAIN Started : Started[k] = IF k <= Len(f) THEN f[k] ELSE 0

(* The checksum by its definition: a bit at a time, the lowest one first.   *)
Bit(k) == (Started[1 + ((k - 1) \div ByteBits)] \div Power[(k - 1) % ByteBits]) % 2
Checksum ==
  LET step == [bit \in 0..1 |-> [d \in SUBSET Ones |->
                 Divided(IF bit = 1 THEN Xor(d, {0}) ELSE d)]]
      c[k \in 0..(Len(Started) * ByteBits)] ==
        IF k = 0 THEN Ones ELSE step[Bit(k)][c[k - 1]]
  IN  Number(Xor(c[Len(Started) * ByteBits], Ones))

(* The checksum that the device was given is that of the bytes it starts    *)
(* from, those that were added included, although it was computed with a    *)
(* table, byte by byte, and sent in two registers.                          *)
ChecksumOfFlash == at = "completed" => installed.crc = Checksum
===============================================================================
