---------------------------- MODULE CallPrograms ----------------------------
(***************************************************************************)
(* Programs of stack instructions: a main program and two subroutines,     *)
(* at 0x0150 and 0x0180, that push, pop, call and return in any order,     *)
(* balanced or not, with the stack at the top, or two bytes above the      *)
(* bottom, of the work RAM.  One of them stores over a return address.     *)
(***************************************************************************)
EXTENDS Programs

Sub1 == \h0150
Sub2 == \h0180
CallTo(addr) == <<CAL_MEM, Lo(addr), Hi(addr)>>

\* The image of a main program and two subroutines.
Linked(main, sub1, sub2) ==
  LET place(body, at) ==
        LET code == FlattenSeq(body)
        IN  [i \in at..(at + Len(code) - 1) |-> code[i - at + 1]]
      merge(f, g) ==
        [i \in DOMAIN f \cup DOMAIN g |-> IF i \in DOMAIN f THEN f[i] ELSE g[i]]
  IN  [rom |-> merge(place(main, 16),
                     merge(place(sub1, Sub1 - 256), place(sub2, Sub2 - 256))),
       ram_bank_count |-> 0]

HighStack == << >>
LowStack == << <<LDR_IMM, 7, 2>>, <<LDR_IMM, 8, \h81>> >>

Steps(S, n) == UNION {[1..k -> S] : k \in 0..n}

MainBodies == Steps({<<PSH, 8>>, <<POP, 1>>, CallTo(Sub1)}, 2)
Sub1Bodies == Steps({<<PSH, 7>>, <<POP, 2>>, CallTo(Sub2)}, 3)
Sub2Bodies == Steps({<<PSH, 8>>, <<POP, 3>>}, 1)
Overwrite == << <<STR, 0, \hFE, \hA0>> >>

Calling(stack, main, sub1, sub2) ==
  Linked(stack \o <<CallTo(Sub1)>> \o main \o <<<<HLT>>>>,
         sub1 \o <<<<RET>>>>, sub2 \o <<<<RET>>>>)

StackPrograms ==
  {Calling(stack, main, sub1, sub2) :
     stack \in {HighStack, LowStack},
     main \in MainBodies, sub1 \in Sub1Bodies, sub2 \in Sub2Bodies}
  \cup {Calling(HighStack, << >>, sub1, Overwrite) : sub1 \in Sub1Bodies}
=============================================================================
