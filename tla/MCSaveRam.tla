----------------------------- MODULE MCSaveRam -----------------------------
(***************************************************************************)
(* The programs that use cartridge RAM; what a load from outside of it     *)
(* yields is an instruction that goes on or one that stops.                *)
(***************************************************************************)
EXTENDS Cpu, Programs

NopOrHlt == {NOP, HLT}
=============================================================================
