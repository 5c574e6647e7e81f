---------------------------- MODULE MCCartridge ----------------------------
(***************************************************************************)
(* Images of the sizes around one bank, of the smallest and of the largest *)
(* ROM, with size codes inside and outside the tables.                     *)
(***************************************************************************)
EXTENDS Cartridge

Sizes == {0, \h3FFF, \h4000, \h8000, \h8001, \hC000, \h10000, \h800000}

HeaderImages ==
  [size : Sizes, magic : BOOLEAN, rom_size_code : {0, 1, 8, 9},
   ram_size_code : {0, 1, 5, 6}]
=============================================================================
