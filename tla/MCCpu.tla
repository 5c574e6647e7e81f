------------------------------- MODULE MCCpu -------------------------------
(***************************************************************************)
(* The CPU, with both of its histories, on every instruction, valid and    *)
(* invalid, after every prelude; on programs of calls, returns, pushes and *)
(* pops; and on programs that use cartridge RAM.                           *)
(***************************************************************************)
EXTENDS CpuRefinement, CallFrames, CallPrograms

AllCartridges ==
  UNION {
    {Cartridge(p \o <<i, <<HLT>> >>, 0) : p \in Preludes, i \in Instructions},
    StackPrograms,
    SaveRamCartridges}

ZeroOnly == {0}

MCInit == InitSeen /\ frames = {}
MCNext == NextSeen /\ frames' = FramesAfter
MCSpec == MCInit /\ [][MCNext]_<<vars, seen, frames>>
=============================================================================
