----------------------------- MODULE MCConsole -----------------------------
(***************************************************************************)
(* A bus of twelve addresses: the console's four devices in the order of   *)
(* its address map, and devices of an embedder that lie beside them, in    *)
(* the middle of them, across two of them, over everything, and nowhere    *)
(* (end before start).  Two contexts, work RAM with one fixed byte and two *)
(* banks of two, and a bank register that goes past the banks.             *)
(***************************************************************************)
EXTENDS Console

CONSTANTS beside, inside, across, over, nowhere, tail, ctx1, ctx2

Devices == {Bios, Rom, Eram, Wram, beside, inside, across, over, nowhere, tail}

Starts ==
  [d \in Devices |->
     CASE d = Bios -> 0 [] d = Rom -> 1 [] d = Wram -> 4 [] d = Eram -> 9
       [] d = beside -> 7 [] d = inside -> 5 [] d = across -> 3
       [] d = over -> 0 [] d = nowhere -> 6 [] d = tail -> 8]
Ends ==
  [d \in Devices |->
     CASE d = Bios -> 0 [] d = Rom -> 3 [] d = Wram -> 6 [] d = Eram -> 10
       [] d = beside -> 8 [] d = inside -> 5 [] d = across -> 4
       [] d = over -> 11 [] d = nowhere -> 5 [] d = tail -> 11]

Contexts == {ctx1, ctx2}
Values == {0, 1}
Registers == 0..3
=============================================================================
