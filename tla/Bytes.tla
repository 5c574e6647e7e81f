------------------------------- MODULE Bytes -------------------------------
(***************************************************************************)
(* The fixed-width integers of the emulator: uint8_t, uint16_t, and the    *)
(* little-endian pairs that the CPU keeps in two neighbouring registers.   *)
(***************************************************************************)
EXTENDS Integers

Byte == 0..255
UINT16_MAX == 65535
Word == 0..UINT16_MAX

\* (uint8_t)(w & 0xFF) and (uint8_t)(w >> 8)
Lo(w) == w % 256
Hi(w) == w \div 256

\* get_addr(): the two bytes of an operand or a register pair, low byte first
MkWord(lo, hi) == lo + 256 * hi

\* x & mask, for a mask with a single bit set
HasBit(x, mask) == (x \div mask) % 2 = 1
=============================================================================
