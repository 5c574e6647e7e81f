----------------------------- MODULE CallFrames -----------------------------
(***************************************************************************)
(* Subroutines: CAL and RET of the CPU together with a record of the calls *)
(* that are under way.  The CPU keeps no such record: a return address is  *)
(* two bytes in memory, written and read in separate clock cycles, between *)
(* the bytes that PSH and POP move.                                        *)
(***************************************************************************)
EXTENDS Cpu

VARIABLE frames          \* history: the calls under way

\* A call leaves SP at sp and the address of the next instruction above it.
Frame(sp, back) == [sp |-> sp, back |-> back]
FrameBytes(f) == {f.sp + 1, f.sp + 2}

CallEnds == CalJump /\ state' = "FETCH_OPCODE"

\* A program may store over a return address; that call has no return then.
StoresOver(f) == ExecStr /\ Address(instr_buf, 2) \in FrameBytes(f)

\* Between instructions, a frame whose bytes SP has passed is gone.
FramesAfter ==
  {f \in frames \cup IF CallEnds THEN {Frame(SP, PC)} ELSE {} :
     /\ ~StoresOver(f)
     /\ state' = "FETCH_OPCODE" => f.sp >= SP'}

InitFrames == Init /\ frames = {}
NextFrames == Next /\ frames' = FramesAfter
SpecFrames == InitFrames /\ [][NextFrames]_<<vars, frames>>

-----------------------------------------------------------------------------
InRam(f) == FrameBytes(f) \subseteq WRAM
WramAt(addr) == Cell(wram, WramIndex(addr))

(***************************************************************************)
(* Whatever a program pushes, pops and calls, the return address of every  *)
(* call under way stays in memory, low byte first, as long as the stack is *)
(* in work RAM and no STR is aimed at it.  It needs the push of a byte and *)
(* the move of SP to agree in opcodes.c:90-103 and in all the pending      *)
(* cycles of CAL (lines 556-599).                                          *)
(***************************************************************************)
FramesIntact ==
  \A f \in frames :
    InRam(f) => WramAt(f.sp + 1) = Lo(f.back) /\ WramAt(f.sp + 2) = Hi(f.back)

(***************************************************************************)
(* A RET that starts with SP where a call left it goes back to the         *)
(* instruction after that call and gives the caller its SP back            *)
(* (opcodes.c:601-615): its first cycle has already moved SP by one.       *)
(***************************************************************************)
ReturnsToCaller ==
  [][ RetPopHigh /\ state' = "FETCH_OPCODE" =>
        \A f \in frames :
          SP = f.sp + 1 /\ InRam(f) =>
            PC' = f.back /\ SP' = f.sp + 2 ]_<<vars, frames>>
=============================================================================
