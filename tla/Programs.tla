------------------------------ MODULE Programs ------------------------------
(***************************************************************************)
(* Cartridge images for model checking.  An image is the header's magic, a *)
(* program at offset 0x10, where the BIOS jumps (address 0x0110), and an   *)
(* HLT at offset 0x100 (address 0x0200) for jumps and calls to go to; the  *)
(* rest is zero, which the CPU executes as NOP.  After the BIOS the stack  *)
(* pointer is 0xA0FF, the top of WRAM0.                                    *)
(***************************************************************************)
EXTENDS Semantics, SequencesExt

Magic == <<\h4B, \h4D, \h38, \hB0>>

\* A program is a sequence of instructions, each a sequence of bytes.
Image(program) ==
  LET code == FlattenSeq(program)
      At(i) == IF i < 4 THEN Magic[i + 1]
               ELSE IF i = \h100 THEN HLT
               ELSE code[i - 15]
  IN  [i \in 0..3 \cup 16..(15 + Len(code)) \cup {\h100} |-> At(i)]

Cartridge(program, banks) == [rom |-> Image(program), ram_bank_count |-> banks]

\* Registers 7 and 8 are the stack pointer, 9 and 10 the program counter, 11
\* the flags; 12 is not a register.

Transfers == {
  <<NOP>>,
  <<LDR_MEM, 0, \h10, \h01>>, <<LDR_MEM, 2, \h00, \h81>>,
  <<LDR_MEM, 3, \hFF, \hFF>>, <<LDR_MEM, 0, \h00, \h42>>,
  <<LDR_MEM, 12, \h00, \hA1>>,
  <<LDR_IMM, 0, \h7F>>, <<LDR_IMM, 7, 0>>, <<LDR_IMM, 12, 1>>,
  <<STR, 0, \h00, \h81>>, <<STR, 0, \h00, \hA1>>, <<STR, 0, \h16, \h01>>,
  <<STR, 12, \h00, \h81>>,
  <<MOV, 2, 0>>, <<MOV, 11, 0>>, <<MOV, 12, 0>>, <<MOV, 0, 12>>,
  <<SWP, 0, 7>>, <<SWP, 0, 12>>,
  <<PSH, 0>>, <<PSH, 7>>, <<PSH, 12>>,
  <<POP, 1>>, <<POP, 7>>, <<POP, 12>>,
  <<CLR, 0>>, <<CLR, 11>>, <<CLR, 255>> }

RegisterAlu == {<<op, 0, 1>> : op \in RegisterForms}
ImmediateAlu == {<<op, 0, 129>> : op \in ImmediateForms}
OneOperandAlu == {<<op, 0>> : op \in UnaryOps \cup INC \cup DEC}
AluIntoFlags == {<<\h11, 11, 1>>, <<SHL, 11>>, <<\h12, 11, 12>>}

MemoryTargets == {<<op, \h00, \h02>> : op \in MemoryJumps}
\* The top of the address space, from where PC wraps around.
TopTarget == {<<\h30, \hFF, \hFF>>}

PairTargets == {<<op, 0>> : op \in JumpOps \ MemoryJumps}
BadPairs == {<<\h31, 11>>, <<\h33, 11>>, <<\h35, 12>>, <<CAL_REG, 11>>}

Calls == {<<CAL_MEM, \h00, \h02>>, <<CAL_REG, 0>>, <<RET>>}
Stops == {<<HLT>>, <<\h09>>, <<\h46>>, <<\hFF>>}

Instructions ==
  Transfers \cup RegisterAlu \cup ImmediateAlu \cup OneOperandAlu
    \cup AluIntoFlags \cup MemoryTargets \cup TopTarget \cup PairTargets
    \cup BadPairs \cup Calls \cup Stops

\* What runs before the instruction: the flags one way or the other, a pair
\* that points at the HLT, a byte on the stack, a stack at the bottom of its
\* RAM or wrapping around, and code in work RAM.
Preludes == {
  << >>,
  << <<\h1B, 0, 0>> >>,
  << <<\h1B, 0, 1>> >>,
  << <<LDR_IMM, 0, \h7F>>, <<\h11, 0, 1>> >>,
  << <<LDR_IMM, 1, 2>> >>,
  << <<PSH, 8>> >>,
  << <<LDR_IMM, 7, 0>>, <<LDR_IMM, 8, 0>> >>,
  << <<LDR_IMM, 7, 1>>, <<LDR_IMM, 8, \h81>>, <<PSH, 7>> >> }

-----------------------------------------------------------------------------
\* Programs that store to, load from and run in cartridge RAM, or keep their
\* stack there, on cartridges with no RAM, one bank and several banks.
SaveRamAddresses == {\hE100, \hE101, \hF0FF}
Uses(addr) == {
  << <<LDR_IMM, 0, 7>>, <<STR, 0, Lo(addr), Hi(addr)>>, <<LDR_MEM, 1, Lo(addr), Hi(addr)>> >>,
  << <<\h30, Lo(addr), Hi(addr)>> >>,
  << <<LDR_IMM, 7, Lo(addr)>>, <<LDR_IMM, 8, Hi(addr)>>, <<PSH, 7>>, <<POP, 0>> >> }

SaveRamCartridges ==
  {Cartridge(use \o <<<<HLT>>>>, banks) :
     use \in UNION {Uses(addr) : addr \in SaveRamAddresses}, banks \in {0, 1, 4}}
=============================================================================
