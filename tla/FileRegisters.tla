---------------------------- MODULE FileRegisters -----------------------------
(***************************************************************************)
(* registers_from_file and its CRC32 (modbus_ops.cpp): two bytes of a file  *)
(* make a register, the high one first; zeros are added up to an even       *)
(* number of registers; the checksum is that of all bytes, those that were  *)
(* added included.  Bytes and checksums have any number of bits; a checksum *)
(* under way is the set of its bits that are 1.                             *)
(***************************************************************************)
EXTENDS Integers, Sequences

CONSTANTS ByteBits,     \* 8
          CrcBits,      \* 32
          Polynomial    \* the bits of 0xEDB88320

ASSUME FileAssumption ==
  /\ ByteBits \in Nat \ {0} /\ CrcBits \in Nat /\ ByteBits <= CrcBits
  /\ Polynomial \subseteq 0..(CrcBits - 1)

(* 2^k *)
Power[k \in 0..CrcBits] == IF k = 0 THEN 1 ELSE 2 * Power[k - 1]

Byte == 0..(Power[ByteBits] - 1)
Ones == 0..(CrcBits - 1)

Bits(n) == {k \in Ones : (n \div Power[k]) % 2 = 1}
Number(c) ==
  LET sum[k \in 0..CrcBits] ==
        IF k = 0 THEN 0 ELSE sum[k - 1] + (IF k - 1 \in c THEN Power[k - 1] ELSE 0)
  IN  sum[CrcBits]

Xor(c, d)       == (c \ d) \cup (d \ c)
ShiftedBy(c, n) == {k \in Ones : k + n \in c}
Divided(c)      == IF 0 \in c THEN Xor(Polynomial, ShiftedBy(c, 1)) ELSE ShiftedBy(c, 1)

(* CRC32::CRC32 *)
table ==
  [i \in SUBSET (0..(ByteBits - 1)) |->
     LET c[j \in 0..ByteBits] == IF j = 0 THEN i ELSE Divided(c[j - 1])
     IN  c[ByteBits]]

LowByte(c) == c \cap 0..(ByteBits - 1)

(* Faulty: what is handed on is not inverted back. *)
update_uninverted ==
  [byte \in Byte |->
    [initial \in SUBSET Ones |->
       LET c == Xor(initial, Ones)
       IN  Xor(table[LowByte(Xor(c, Bits(byte)))], ShiftedBy(c, ByteBits))]]

(* CRC32::update, by the byte and the checksum so far. *)
update ==
  [byte \in Byte |->
    [initial \in SUBSET Ones |->
       LET c == Xor(initial, Ones)
       IN  Xor(Xor(table[LowByte(Xor(c, Bits(byte)))], ShiftedBy(c, ByteBits)), Ones)]]

(* Faulty: the low byte first. *)
RegisterSwapped(high_byte, low_byte) == low_byte * Power[ByteBits] + high_byte

Register(high_byte, low_byte) == high_byte * Power[ByteBits] + low_byte

(* The bytes that are read or added: the low one of the last register, and  *)
(* a register of two zeros.                                                 *)
Padded(file) == file \o [k \in 1..((-Len(file)) % 4) |-> 0]

registers_from_file(file) ==
  LET bytes == Padded(file)
      crc_value[k \in 0..Len(bytes)] ==
        IF k = 0 THEN {} ELSE update[bytes[k]][crc_value[k - 1]]
  IN  [size |-> Len(bytes) \div 2,
       regs |-> [k \in 0..((Len(bytes) \div 2) - 1) |->
                   Register(bytes[(2 * k) + 1], bytes[(2 * k) + 2])],
       crc  |-> Number(crc_value[Len(bytes)])]
===============================================================================
