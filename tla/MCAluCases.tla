----------------------------- MODULE MCAluCases -----------------------------
(***************************************************************************)
(* AluCases on all 256 operand bytes.  One operation ends a behaviour.     *)
(***************************************************************************)
EXTENDS AluCases

AllBytes == Byte
=============================================================================
