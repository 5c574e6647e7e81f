----------------------------- MODULE MCAluChain -----------------------------
(***************************************************************************)
(* Numbers of up to three bytes, made of the bytes at which carries,       *)
(* borrows and signs turn.                                                 *)
(***************************************************************************)
EXTENDS AluChain

Boundaries == {0, 1, 127, 128, 254, 255}
=============================================================================
