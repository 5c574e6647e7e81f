------------------------------- MODULE MCBoot -------------------------------
(***************************************************************************)
(* Boot and progress: every instruction once, and loops.  The counters are *)
(* left out (CounterMod = 1), so that a program that never stops has       *)
(* finitely many states and the CPU can step for ever.                     *)
(***************************************************************************)
EXTENDS Cpu, Programs

Loop(program) == program \o << <<\h30, \h10, \h01>> >>

BootPrograms ==
  {<<i, <<HLT>> >> : i \in Instructions}
    \cup {Loop(p) : p \in {<< >>,
                           << <<PSH, 8>>, <<POP, 1>> >>,
                           << <<LDR_MEM, 0, \h00, \hA1>>, <<\h14, 0>>, <<STR, 0, \h00, \hA1>> >>}}

BootCartridges == {Cartridge(p, 0) : p \in BootPrograms}
ZeroOnly == {0}
=============================================================================
