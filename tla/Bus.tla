-------------------------------- MODULE Bus --------------------------------
(***************************************************************************)
(* The dispatch table of the bus (src/bus/dispatch.c) and the registration *)
(* of devices on it: km8_bus_device_register, called by an embedder for    *)
(* its own devices and by km8_bus_init for the four of the console.        *)
(*                                                                         *)
(* Registering a device claims its addresses one by one and stops at the   *)
(* first that is taken; the ones claimed before it stay claimed.           *)
(***************************************************************************)
EXTENDS Integers

CONSTANTS
  Device,                \* the devices there are
  Bios, Rom, Eram, Wram, \* those of km8_bus_init
  Start, End,            \* [Device -> Nat]: BusDevice.start and .end, inclusive
  AddressRange,          \* the number of addresses: 0x10000 in the code
  NULL

ASSUME BusAssumption ==
  /\ {Bios, Rom, Eram, Wram} \subseteq Device
  /\ NULL \notin Device
  /\ AddressRange \in Nat
  /\ \A d \in Device : Start[d] \in Nat /\ End[d] \in Nat /\ End[d] < AddressRange

VARIABLES
  gDispatchTable,        \* [Address -> Device \cup {NULL}]
  accepted,              \* history: devices whose registration returned KM8_OK
  refused                \* history: devices refused for an overlap, never accepted

vars == <<gDispatchTable, accepted, refused>>

Address == 0..(AddressRange - 1)
Cells(d) == Start[d]..End[d]

Init ==
  /\ gDispatchTable = [a \in Address |-> NULL]
  /\ accepted = {} /\ refused = {}

-----------------------------------------------------------------------------
\* The cells the loop of km8_bus_device_register gets to claim in table t.
Claimed(t, d) == {a \in Cells(d) : \A b \in Start[d]..a : t[b] = NULL}

\* The loop runs to the end: KM8_OK.
Fits(t, d) == \A a \in Cells(d) : t[a] = NULL

\* Mutation: the loop claims every free cell, and only reports the overlap.
After_SkipTaken(t, d) ==
  [a \in Address |-> IF a \in Cells(d) /\ t[a] = NULL THEN d ELSE t[a]]

\* Mutation: the loop claims the cell before it looks whether it is taken.
After_ClaimFirst(t, d) ==
  [a \in Address |->
     IF a \in Cells(d) /\ \A b \in Start[d]..(a - 1) : t[b] = NULL
     THEN d ELSE t[a]]

\* Mutation: the loop stops one short of the inclusive end.
After_EndExclusive(t, d) ==
  [a \in Address |-> IF a \in Claimed(t, d) \ {End[d]} THEN d ELSE t[a]]

\* Mutation: the loop runs one past the inclusive end.
After_PastEnd(t, d) ==
  [a \in Address |-> IF a \in Claimed(t, d) \/ (a = End[d] + 1 /\ t[a] = NULL)
                    THEN d ELSE t[a]]

After(t, d) == [a \in Address |-> IF a \in Claimed(t, d) THEN d ELSE t[a]]

\* km8_bus_device_register(d), by an embedder.
Register(d) ==
  /\ gDispatchTable' = After(gDispatchTable, d)
  /\ IF Fits(gDispatchTable, d)
     THEN /\ accepted' = accepted \cup {d}
          /\ refused' = refused \ {d}
     ELSE /\ refused' = refused \cup ({d} \ accepted)
          /\ UNCHANGED accepted

-----------------------------------------------------------------------------
\* km8_bus_init: the four devices in order, up to the first that does not
\* fit.  Its result is dropped by km8_init (core.c:4-6).

Afters(t) ==
  LET t1 == After(t, Bios)
      t2 == After(t1, Rom)
      t3 == After(t2, Eram)
  IN  <<t, t1, t2, t3, After(t3, Wram)>>

Defaults == <<Bios, Rom, Eram, Wram>>
FitsAt(t, n) == Fits(Afters(t)[n], Defaults[n])

\* Mutation: a device that fits ends the list, as if KM8_OK were an error.
TriedUpTo_StopAtFit(t, n) ==
  /\ \A k \in 1..(n - 1) : ~FitsAt(t, k)
  /\ n < 4 => FitsAt(t, n)

\* The devices up to the n-th are tried: all but the last of them fit.
TriedUpTo(t, n) ==
  /\ \A k \in 1..(n - 1) : FitsAt(t, k)
  /\ n < 4 => ~FitsAt(t, n)

BusInit ==
  \E n \in 1..4 :
    LET tried == {Defaults[k] : k \in 1..n}
        ok == {Defaults[k] : k \in {i \in 1..n : FitsAt(gDispatchTable, i)}}
    IN  /\ TriedUpTo(gDispatchTable, n)
        /\ gDispatchTable' = Afters(gDispatchTable)[n + 1]
        /\ accepted' = accepted \cup ok
        /\ refused' = (refused \ ok) \cup ((tried \ ok) \ accepted)

Next == BusInit \/ \E d \in Device : Register(d)

Spec == Init /\ [][Next]_vars

-----------------------------------------------------------------------------
\* km8_bus_device_resolve and km8_bus_localize_address
Resolve(a) == gDispatchTable[a]
Localize(d, a) == a - Start[d]

(***************************************************************************)
(* A table cell names a device or none, and the two histories are disjoint.*)
(***************************************************************************)
TypeOK ==
  /\ gDispatchTable \in [Address -> Device \cup {NULL}]
  /\ accepted \subseteq Device /\ refused \subseteq Device
  /\ accepted \cap refused = {}

(***************************************************************************)
(* A device only answers for addresses of its own, so that localizing an   *)
(* address (bus.h:117-119) never wraps below zero or past its size.        *)
(***************************************************************************)
LocalAddressInside ==
  \A a \in Address :
    Resolve(a) # NULL =>
      Localize(Resolve(a), a) \in 0..(End[Resolve(a)] - Start[Resolve(a)])

(***************************************************************************)
(* A device that was told KM8_OK answers for its whole range, whatever is  *)
(* registered, or refused, after it.                                       *)
(***************************************************************************)
AcceptedOwnsRange ==
  \A d \in accepted : \A a \in Cells(d) : Resolve(a) = d

(***************************************************************************)
(* The cells of a refused device are the beginning of its range, without a *)
(* gap: the loop (dispatch.c:14-19) never claims past a taken cell.        *)
(***************************************************************************)
OwnedIsPrefix ==
  \A a \in Address :
    LET d == Resolve(a)
    IN  d # NULL => \A b \in Start[d]..a : Resolve(b) = d

(***************************************************************************)
(* No registration takes an address away from the device that has it.      *)
(***************************************************************************)
OwnersStay ==
  [][\A a \in Address :
       gDispatchTable[a] # NULL => gDispatchTable'[a] = gDispatchTable[a]]_vars

(***************************************************************************)
(* README.md:10 says that the bus dispatches "through registered BusDevice *)
(* handlers".  A device whose registration was refused is not registered,  *)
(* but the code leaves it the cells it claimed before the overlap          *)
(* (dispatch.c:14-19), and dispatches them to it.                          *)
(***************************************************************************)
RefusedOwnsNothing == \A a \in Address : Resolve(a) \notin refused
=============================================================================
