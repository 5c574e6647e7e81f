--------------------------- MODULE ConsoleProofs ---------------------------
(***************************************************************************)
(* That the dispatch table belongs to whom it should, for every set of     *)
(* devices, every ranges and every size of the address space; and that the *)
(* work RAM of every context is a fixed part and separate banks, for any   *)
(* sizes of them, any number of contexts and any devices on the bus.  The  *)
(* work of the second is in the arithmetic of one cell: the cells of bank  *)
(* k are k * WRAM_BANK_SIZE and the ones after it, and no two banks share  *)
(* one.  The last part is about the cartridges that are mapped on the bus: *)
(* what the loader allocates and what it returns.                          *)
(***************************************************************************)
EXTENDS Console, Cartridge, TLAPS

-----------------------------------------------------------------------------
(***************************************************************************)
(* The invariants of the dispatch table.  A call of km8_bus_init is up to  *)
(* four registrations in a row, so what a single one preserves is proved   *)
(* of any table and any history first.                                     *)
(***************************************************************************)

\* The tables there are, and what the invariants say of one, with the set of
\* the devices that were accepted.
Tables == [Address -> Device \cup {NULL}]

OwnCellsOnly(t) == \A a \in Address : t[a] # NULL => a \in Cells(t[a])

Prefixes(t) ==
  \A a \in Address : t[a] # NULL => \A b \in Start[t[a]]..a : t[b] = t[a]

Owned(t, devices) == \A d \in devices : \A a \in Cells(d) : t[a] = d

Good(t, devices) ==
  /\ t \in Tables
  /\ devices \subseteq Device
  /\ OwnCellsOnly(t)
  /\ Prefixes(t)
  /\ Owned(t, devices)

Keeps(t, u) == \A a \in Address : t[a] # NULL => u[a] = t[a]

\* The range of a device lies in the address space.
LEMMA CellsInside ==
  ASSUME NEW d \in Device
  PROVE  Cells(d) \subseteq Address /\ Start[d] \in Nat /\ End[d] \in Nat
  BY BusAssumption DEF Cells, Address

-----------------------------------------------------------------------------
\* One registration: the loop of km8_bus_device_register.
LEMMA AfterType ==
  ASSUME NEW t \in Tables, NEW d \in Device
  PROVE  After(t, d) \in Tables /\ Keeps(t, After(t, d))
<1>1. After(t, d) \in Tables
  BY DEF After, Tables
<1>2. ASSUME NEW a \in Address, t[a] # NULL PROVE After(t, d)[a] = t[a]
  <2>1. a \notin Claimed(t, d)
    <3> SUFFICES ASSUME a \in Claimed(t, d) PROVE FALSE
      OBVIOUS
    <3>1. a \in Start[d]..a
      BY CellsInside DEF Claimed, Cells
    <3> QED BY <1>2, <3>1 DEF Claimed
  <2> QED BY <2>1 DEF After
<1> QED BY <1>1, <1>2 DEF Keeps

LEMMA AfterGood ==
  ASSUME NEW t, NEW devices, NEW d \in Device, Good(t, devices)
  PROVE  /\ Good(After(t, d), devices)
         /\ Fits(t, d) => Good(After(t, d), devices \cup {d})
<1> DEFINE u == After(t, d)
<1>0. t \in Tables /\ u \in Tables /\ Keeps(t, u)
  BY AfterType DEF Good
<1>1. \A a \in Address : u[a] = IF a \in Claimed(t, d) THEN d ELSE t[a]
  BY DEF After
<1>2. Claimed(t, d) \subseteq Cells(d) /\ Cells(d) \subseteq Address
  BY CellsInside DEF Claimed
<1>3. NULL \notin Device
  BY BusAssumption
<1> HIDE DEF u
<1>4. OwnCellsOnly(u)
  BY <1>1, <1>2 DEF Good, OwnCellsOnly
<1>5. Prefixes(u)
  <2> SUFFICES ASSUME NEW a \in Address, u[a] # NULL, NEW b \in Start[u[a]]..a
               PROVE  u[b] = u[a]
    BY DEF Prefixes
  <2>1. CASE a \in Claimed(t, d)
    <3>1. u[a] = d
      BY <1>1, <2>1
    <3>2. b \in Claimed(t, d)
      <4>1. b \in Cells(d) /\ a \in Cells(d) /\ b <= a /\ b \in Nat /\ a \in Nat
        BY <1>2, <2>1, <3>1, CellsInside DEF Cells, Address
      <4>2. \A c \in Start[d]..b : t[c] = NULL
        BY <2>1, <4>1, CellsInside DEF Claimed
      <4> QED BY <4>1, <4>2 DEF Claimed
    <3>3. b \in Address
      BY <1>2, <3>2
    <3> QED BY <1>1, <3>1, <3>2, <3>3
  <2>2. CASE a \notin Claimed(t, d)
    <3>1. u[a] = t[a] /\ t[a] # NULL /\ t[a] \in Device
      BY <1>0, <1>1, <2>2 DEF Tables
    <3>2. t[b] = t[a]
      BY <3>1 DEF Good, Prefixes
    <3>3. b \in Address
      <4>1. Start[t[a]] \in Nat /\ b \in Start[t[a]]..a
        BY <3>1, CellsInside
      <4>2. a \in Int /\ a <= AddressRange - 1 /\ AddressRange \in Nat
        BY BusAssumption DEF Address
      <4> QED BY <4>1, <4>2 DEF Address
    <3> QED BY <1>0, <3>1, <3>2, <3>3 DEF Keeps
  <2> QED BY <2>1, <2>2
<1>6. Owned(u, devices)
  <2> SUFFICES ASSUME NEW e \in devices, NEW a \in Cells(e) PROVE u[a] = e
    BY DEF Owned
  <2>1. e \in Device /\ t[a] = e
    BY DEF Good, Owned
  <2>2. a \in Address
    BY <2>1, CellsInside
  <2> QED BY <1>0, <1>3, <2>1, <2>2 DEF Keeps
<1>7. ASSUME Fits(t, d) PROVE Owned(u, devices \cup {d})
  <2>1. \A a \in Cells(d) : a \in Claimed(t, d)
    BY <1>7, CellsInside DEF Fits, Claimed, Cells
  <2>2. \A a \in Cells(d) : u[a] = d
    BY <1>1, <1>2, <2>1
  <2> QED BY <1>6, <2>2 DEF Owned
<1> QED BY <1>0, <1>4, <1>5, <1>6, <1>7 DEF Good, u

LEMMA KeepsTransitive ==
  ASSUME NEW t, NEW u, NEW v, Keeps(t, u), Keeps(u, v)
  PROVE  Keeps(t, v)
  BY DEF Keeps

LEMMA KeepsItself ==
  ASSUME NEW t
  PROVE  Keeps(t, t)
  BY DEF Keeps

-----------------------------------------------------------------------------
\* Up to four registrations: km8_bus_init.

\* What a call leaves behind that registers the devices of tried, of which
\* the ones in ok fit, in the table t.
Registered(t, devices, u, tried, ok) ==
  /\ Good(u, devices \cup ok)
  /\ Keeps(t, u)
  /\ tried \subseteq Device /\ ok \subseteq tried

LEMMA OneMore ==
  ASSUME NEW t, NEW devices, NEW u, NEW tried, NEW ok, NEW d \in Device,
         Registered(t, devices, u, tried, ok),
         NEW more, more = tried \cup {d},
         NEW fit, fit = ok \/ (fit = ok \cup {d} /\ Fits(u, d))
  PROVE  Registered(t, devices, After(u, d), more, fit)
<1>1. Good(u, devices \cup ok) /\ Keeps(t, u) /\ u \in Tables
  BY DEF Registered, Good
<1>2. Keeps(t, After(u, d))
  BY <1>1, AfterType, KeepsTransitive
<1>3. CASE fit = ok
  BY <1>1, <1>2, <1>3, AfterGood DEF Registered
<1>4. CASE fit = ok \cup {d} /\ Fits(u, d)
  <2>1. Good(After(u, d), (devices \cup ok) \cup {d})
    BY <1>1, <1>4, AfterGood
  <2>2. (devices \cup ok) \cup {d} = devices \cup fit
    BY <1>4
  <2> QED BY <1>2, <1>4, <2>1, <2>2 DEF Registered
<1> QED BY <1>3, <1>4

LEMMA BusInitEffect ==
  ASSUME Good(gDispatchTable, accepted), BusInit
  PROVE  \E tried, ok :
           /\ Registered(gDispatchTable, accepted, gDispatchTable', tried, ok)
           /\ accepted' = accepted \cup ok
           /\ refused' = (refused \ ok) \cup ((tried \ ok) \ accepted)
<1> DEFINE t == gDispatchTable
           t1 == After(t, Bios)
           t2 == After(t1, Rom)
           t3 == After(t2, Eram)
           t4 == After(t3, Wram)
<1>1. /\ Afters(t)[1] = t /\ Afters(t)[2] = t1 /\ Afters(t)[3] = t2
      /\ Afters(t)[4] = t3 /\ Afters(t)[5] = t4
  BY DEF Afters
<1>2. PICK n \in 1..4 :
        LET tried == {Defaults[k] : k \in 1..n}
            ok == {Defaults[k] : k \in {i \in 1..n : FitsAt(t, i)}}
        IN  /\ TriedUpTo(t, n)
            /\ gDispatchTable' = Afters(t)[n + 1]
            /\ accepted' = accepted \cup ok
            /\ refused' = (refused \ ok) \cup ((tried \ ok) \ accepted)
  BY DEF BusInit
<1> DEFINE tried == {Defaults[k] : k \in 1..n}
           ok == {Defaults[k] : k \in {i \in 1..n : FitsAt(t, i)}}
<1>3. /\ Defaults[1] = Bios /\ Defaults[2] = Rom
      /\ Defaults[3] = Eram /\ Defaults[4] = Wram
      /\ Bios \in Device /\ Rom \in Device /\ Eram \in Device /\ Wram \in Device
  BY BusAssumption DEF Defaults
<1>4. /\ FitsAt(t, 1) = Fits(t, Bios) /\ FitsAt(t, 2) = Fits(t1, Rom)
      /\ FitsAt(t, 3) = Fits(t2, Eram) /\ FitsAt(t, 4) = Fits(t3, Wram)
  BY <1>1, <1>3 DEF FitsAt
<1>5. \A k \in 1..(n - 1) : FitsAt(t, k)
  BY <1>2 DEF TriedUpTo
<1>6. gDispatchTable' = Afters(t)[n + 1]
  BY <1>2
<1>7. /\ accepted' = accepted \cup ok
      /\ refused' = (refused \ ok) \cup ((tried \ ok) \ accepted)
  BY <1>2
<1>8. Registered(t, accepted, t, {}, {})
  BY KeepsItself DEF Registered
<1>9. Fits(t, Bios) => Registered(t, accepted, t1, {Bios}, {Bios})
  BY <1>3, <1>8, OneMore
<1>10. Fits(t, Bios) /\ Fits(t1, Rom) =>
         Registered(t, accepted, t2, {Bios, Rom}, {Bios, Rom})
  <2> HIDE DEF t1
  <2> QED BY <1>3, <1>9, OneMore
<1>11. Fits(t, Bios) /\ Fits(t1, Rom) /\ Fits(t2, Eram) =>
         Registered(t, accepted, t3, {Bios, Rom, Eram}, {Bios, Rom, Eram})
  <2> HIDE DEF t1, t2
  <2> QED BY <1>3, <1>10, OneMore
<1>12. Registered(t, accepted, gDispatchTable', tried, ok)
  <2>1. CASE n = 1
    <3>1. /\ tried = {} \cup {Bios} /\ gDispatchTable' = t1
          /\ ok = {} \/ (ok = {} \cup {Bios} /\ Fits(t, Bios))
      BY <1>1, <1>3, <1>4, <1>6, <2>1
    <3> QED BY <1>3, <1>8, <3>1, OneMore
  <2>2. CASE n = 2
    <3>1. Fits(t, Bios)
      BY <1>4, <1>5, <2>2
    <3>2. gDispatchTable' = t2
      BY <1>1, <1>6, <2>2
    <3>3. 1..n = {1, 2}
      BY <2>2
    <3>4. tried = {Bios} \cup {Rom}
      BY <1>3, <3>3
    <3>5. ok = {Bios} \/ (ok = {Bios} \cup {Rom} /\ Fits(t1, Rom))
      <4>1. CASE FitsAt(t, 2)
        <5>1. {i \in 1..n : FitsAt(t, i)} = {1, 2}
          BY <1>4, <3>1, <3>3, <4>1
        <5> QED BY <1>3, <1>4, <4>1, <5>1
      <4>2. CASE ~FitsAt(t, 2)
        <5>1. {i \in 1..n : FitsAt(t, i)} = {1}
          BY <1>4, <3>1, <3>3, <4>2
        <5> QED BY <1>3, <5>1
      <4> QED BY <4>1, <4>2
    <3> HIDE DEF t1, tried, ok
    <3> QED BY <1>3, <1>9, <3>1, <3>2, <3>4, <3>5, OneMore
  <2>3. CASE n = 3
    <3>1. Fits(t, Bios) /\ Fits(t1, Rom)
      BY <1>4, <1>5, <2>3
    <3>2. gDispatchTable' = t3
      BY <1>1, <1>6, <2>3
    <3>3. 1..n = {1, 2, 3}
      BY <2>3
    <3>4. tried = {Bios, Rom} \cup {Eram}
      BY <1>3, <3>3
    <3>5. ok = {Bios, Rom} \/ (ok = {Bios, Rom} \cup {Eram} /\ Fits(t2, Eram))
      <4>1. CASE FitsAt(t, 3)
        <5>1. {i \in 1..n : FitsAt(t, i)} = {1, 2, 3}
          BY <1>4, <3>1, <3>3, <4>1
        <5> QED BY <1>3, <1>4, <4>1, <5>1
      <4>2. CASE ~FitsAt(t, 3)
        <5>1. {i \in 1..n : FitsAt(t, i)} = {1, 2}
          BY <1>4, <3>1, <3>3, <4>2
        <5> QED BY <1>3, <5>1
      <4> QED BY <4>1, <4>2
    <3> HIDE DEF t1, t2, tried, ok
    <3> QED BY <1>3, <1>10, <3>1, <3>2, <3>4, <3>5, OneMore
  <2>4. CASE n = 4
    <3>1. Fits(t, Bios) /\ Fits(t1, Rom) /\ Fits(t2, Eram)
      BY <1>4, <1>5, <2>4
    <3>2. gDispatchTable' = t4
      BY <1>1, <1>6, <2>4
    <3>3. 1..n = {1, 2, 3, 4}
      BY <2>4
    <3>4. tried = {Bios, Rom, Eram} \cup {Wram}
      BY <1>3, <3>3
    <3>5. ok = {Bios, Rom, Eram} \/ (ok = {Bios, Rom, Eram} \cup {Wram} /\ Fits(t3, Wram))
      <4>1. CASE FitsAt(t, 4)
        <5>1. {i \in 1..n : FitsAt(t, i)} = {1, 2, 3, 4}
          BY <1>4, <3>1, <3>3, <4>1
        <5> QED BY <1>3, <1>4, <4>1, <5>1
      <4>2. CASE ~FitsAt(t, 4)
        <5>1. {i \in 1..n : FitsAt(t, i)} = {1, 2, 3}
          BY <1>4, <3>1, <3>3, <4>2
        <5> QED BY <1>3, <5>1
      <4> QED BY <4>1, <4>2
    <3> HIDE DEF t1, t2, t3, tried, ok
    <3> QED BY <1>3, <1>11, <3>1, <3>2, <3>4, <3>5, OneMore
  <2> QED BY <1>2, <2>1, <2>2, <2>3, <2>4
<1> QED BY <1>7, <1>12

-----------------------------------------------------------------------------
\* The invariant.

Inv ==
  /\ Good(gDispatchTable, accepted)
  /\ refused \subseteq Device
  /\ accepted \cap refused = {}

LEMMA InitInv == Init => Inv
<1> SUFFICES ASSUME Init PROVE Inv
  OBVIOUS
<1>1. \A a \in Address : gDispatchTable[a] = NULL
  BY DEF Init
<1>2. gDispatchTable \in Tables
  BY DEF Init, Tables
<1> QED BY <1>1, <1>2 DEF Init, Inv, Good, OwnCellsOnly, Prefixes, Owned

\* A step keeps the invariant, and the owners of the cells.
LEMMA StepGood ==
  ASSUME Inv, [Next]_vars
  PROVE  Inv' /\ Keeps(gDispatchTable, gDispatchTable')
<1>0. Good(gDispatchTable, accepted) /\ gDispatchTable \in Tables
  BY DEF Inv, Good
<1>1. CASE UNCHANGED vars
  BY <1>1, KeepsItself DEF vars, Inv
<1>2. ASSUME NEW d \in Device, Register(d)
      PROVE  Inv' /\ Keeps(gDispatchTable, gDispatchTable')
  <2>1. gDispatchTable' = After(gDispatchTable, d)
    BY <1>2 DEF Register
  <2>2. Keeps(gDispatchTable, gDispatchTable')
    BY <1>0, <1>2, <2>1, AfterType
  <2>3. CASE Fits(gDispatchTable, d)
    <3>1. accepted' = accepted \cup {d} /\ refused' = refused \ {d}
      BY <1>2, <2>3 DEF Register
    <3>2. Good(gDispatchTable', accepted')
      BY <1>0, <1>2, <2>1, <2>3, <3>1, AfterGood
    <3> QED BY <2>2, <3>1, <3>2 DEF Inv
  <2>4. CASE ~Fits(gDispatchTable, d)
    <3>1. accepted' = accepted /\ refused' = refused \cup ({d} \ accepted)
      BY <1>2, <2>4 DEF Register
    <3>2. Good(gDispatchTable', accepted')
      BY <1>0, <1>2, <2>1, <3>1, AfterGood
    <3> QED BY <1>2, <2>2, <3>1, <3>2 DEF Inv
  <2> QED BY <2>3, <2>4
<1>3. CASE BusInit
  <2>1. PICK tried, ok :
          /\ Registered(gDispatchTable, accepted, gDispatchTable', tried, ok)
          /\ accepted' = accepted \cup ok
          /\ refused' = (refused \ ok) \cup ((tried \ ok) \ accepted)
    BY <1>0, <1>3, BusInitEffect
  <2>2. /\ Good(gDispatchTable', accepted') /\ Keeps(gDispatchTable, gDispatchTable')
        /\ tried \subseteq Device
    BY <2>1 DEF Registered
  <2> QED BY <2>1, <2>2 DEF Inv
<1> QED BY <1>1, <1>2, <1>3 DEF Next

LEMMA Invariance == Spec => []Inv
<1>1. Inv /\ [Next]_vars => Inv'
  BY StepGood
<1> QED BY <1>1, InitInv, PTL DEF Spec

\* The table names devices only, and no device is both accepted and refused.
THEOREM TypeCorrect == Spec => []TypeOK
<1>1. Inv => TypeOK
  BY DEF Inv, Good, Tables, TypeOK
<1> QED BY <1>1, Invariance, PTL

\* For any devices, however they overlap, and any order of registering them:
\* an address that a device is given is one of its own.
THEOREM LocalizesInside == Spec => []LocalAddressInside
<1>1. Inv => LocalAddressInside
  <2> SUFFICES ASSUME Inv, NEW a \in Address, gDispatchTable[a] # NULL
               PROVE  a - Start[gDispatchTable[a]]
                        \in 0..(End[gDispatchTable[a]] - Start[gDispatchTable[a]])
    BY DEF LocalAddressInside, Resolve, Localize
  <2> DEFINE d == gDispatchTable[a]
  <2>1. d \in Device /\ a \in Cells(d)
    BY DEF Inv, Good, Tables, OwnCellsOnly
  <2>2. Start[d] \in Nat /\ End[d] \in Nat
    BY <2>1, CellsInside
  <2> HIDE DEF d
  <2>3. a - Start[d] \in 0..(End[d] - Start[d])
    BY <2>1, <2>2 DEF Cells
  <2> QED BY <2>3 DEF d
<1> QED BY <1>1, Invariance, PTL

\* A device that was told KM8_OK answers for all its addresses for ever.
THEOREM AcceptedAnswers == Spec => []AcceptedOwnsRange
<1>1. Inv => AcceptedOwnsRange
  BY DEF Inv, Good, Owned, AcceptedOwnsRange, Resolve
<1> QED BY <1>1, Invariance, PTL

\* What a device owns is the beginning of its range.
THEOREM OwnsPrefix == Spec => []OwnedIsPrefix
<1>1. Inv => OwnedIsPrefix
  BY DEF Inv, Good, Prefixes, OwnedIsPrefix, Resolve
<1> QED BY <1>1, Invariance, PTL

\* No registration, by km8_bus_init or by an embedder, moves an address from
\* one device to another.
THEOREM OwnersKept == Spec => OwnersStay
<1>1. Inv /\ [Next]_vars =>
        [\A a \in Address :
           gDispatchTable[a] # NULL => gDispatchTable'[a] = gDispatchTable[a]]_vars
  BY StepGood DEF Keeps
<1> QED BY <1>1, Invariance, PTL DEF Spec, OwnersStay

Bank == 0..(WRAM_BANK_COUNT - 1)
InBank == 0..(WRAM_BANK_SIZE - 1)
InFixed == 0..(WRAM_FIXED_SIZE - 1)

-----------------------------------------------------------------------------
LEMMA Sizes ==
  /\ WRAM_FIXED_SIZE \in Nat
  /\ WRAM_BANK_COUNT \in Nat /\ WRAM_BANK_COUNT > 0
  /\ WRAM_BANK_SIZE \in Nat /\ WRAM_BANK_SIZE > 0
  BY WramAssumption

\* The product grows by a bank with every bank.
LEMMA NextBank ==
  ASSUME NEW k \in Nat, NEW m \in Nat, NEW s \in Nat, k < m
  PROVE  k * s + s <= m * s
<1>1. PICK d \in Nat : m = k + 1 + d
  <2>1. m - k - 1 \in Nat /\ m = k + 1 + (m - k - 1)
    OBVIOUS
  <2> QED BY <2>1
<1>2. m * s = k * s + s + d * s
  BY <1>1
<1>3. d * s \in Nat /\ k * s \in Nat /\ m * s \in Nat
  OBVIOUS
<1> QED
  BY <1>2, <1>3

\* The cell of a bank, counted from the end of the fixed part.
LEMMA CellOfBank ==
  ASSUME NEW k \in Bank, NEW i \in InBank
  PROVE  k * WRAM_BANK_SIZE + i \in 0..(WRAM_BANK_COUNT * WRAM_BANK_SIZE - 1)
<1>1. k \in Nat /\ i \in Nat /\ i < WRAM_BANK_SIZE /\ k < WRAM_BANK_COUNT
  BY Sizes DEF Bank, InBank
<1>2. k * WRAM_BANK_SIZE + WRAM_BANK_SIZE <= WRAM_BANK_COUNT * WRAM_BANK_SIZE
  BY <1>1, Sizes, NextBank
<1>3. k * WRAM_BANK_SIZE \in Nat /\ WRAM_BANK_COUNT * WRAM_BANK_SIZE \in Nat
  BY <1>1, Sizes
<1> DEFINE ks == k * WRAM_BANK_SIZE
           all == WRAM_BANK_COUNT * WRAM_BANK_SIZE
<1> HIDE DEF ks, all
<1>4. ks \in Nat /\ all \in Nat /\ ks + WRAM_BANK_SIZE <= all
  BY <1>2, <1>3 DEF ks, all
<1>5. ks + i \in 0..(all - 1)
  BY <1>1, <1>4, Sizes
<1> QED
  BY <1>5 DEF ks, all

LEMMA CellsApart ==
  ASSUME NEW k \in Bank, NEW i \in InBank, NEW m \in Bank, NEW j \in InBank,
         k * WRAM_BANK_SIZE + i = m * WRAM_BANK_SIZE + j
  PROVE  k = m /\ i = j
<1> DEFINE ks == k * WRAM_BANK_SIZE
           ms == m * WRAM_BANK_SIZE
<1>1. /\ k \in Nat /\ i \in Nat /\ i < WRAM_BANK_SIZE
      /\ m \in Nat /\ j \in Nat /\ j < WRAM_BANK_SIZE
  BY Sizes DEF Bank, InBank
<1>2. ks \in Nat /\ ms \in Nat
  BY <1>1, Sizes
<1>3. k < m => ks + WRAM_BANK_SIZE <= ms
  BY <1>1, Sizes, NextBank
<1>4. m < k => ms + WRAM_BANK_SIZE <= ks
  BY <1>1, Sizes, NextBank
<1>5. k = m => ks = ms
  OBVIOUS
<1>6. ks + i = ms + j
  OBVIOUS
<1> HIDE DEF ks, ms
<1> QED
  BY <1>1, <1>2, <1>3, <1>4, <1>5, <1>6, Sizes

LEMMA SmallRemainder ==
  ASSUME NEW n \in Nat, n > 0, NEW x \in 0..(n - 1)
  PROVE  x % n = x
  OBVIOUS

-----------------------------------------------------------------------------
\* What wram_resolve_offset computes, without the remainders.
Shown == gCurBank % WRAM_BANK_COUNT

LEMMA ShownIsBank ==
  ASSUME gCurBank \in Nat
  PROVE  Shown \in Bank /\ Shown = Banked!Shown
  BY Sizes DEF Shown, Bank, Banked!Shown

LEMMA Resolved ==
  ASSUME gCurBank \in Nat, NEW local \in Local
  PROVE  \/ local \in InFixed /\ ResolveOffset(local) = local
         \/ \E i \in InBank :
              /\ local = WRAM_FIXED_SIZE + i
              /\ ResolveOffset(local) = WRAM_FIXED_SIZE + Shown * WRAM_BANK_SIZE + i
<1>1. local \in Nat /\ local < WRAM_FIXED_SIZE + WRAM_BANK_SIZE
  BY Sizes DEF Local
<1>2. CASE local < WRAM_FIXED_SIZE
  BY <1>1, <1>2, Sizes DEF InFixed, ResolveOffset
<1>3. CASE ~(local < WRAM_FIXED_SIZE)
  <2> DEFINE i == local - WRAM_FIXED_SIZE
             cell == Shown * WRAM_BANK_SIZE + i
             all == WRAM_BANK_COUNT * WRAM_BANK_SIZE
  <2>1. i \in InBank /\ local = WRAM_FIXED_SIZE + i
    BY <1>1, <1>3, Sizes DEF InBank
  <2>2. ResolveOffset(local) = WRAM_FIXED_SIZE + (cell % all)
    BY <1>3 DEF ResolveOffset, Shown
  <2>3. cell \in 0..(all - 1)
    BY <2>1, ShownIsBank, CellOfBank
  <2>4. all \in Nat /\ Shown * WRAM_BANK_SIZE \in Nat
    BY Sizes, ShownIsBank DEF Bank
  <2>5. cell % all = cell
    <3> HIDE DEF cell, all
    <3>1. all > 0
      BY <2>3, <2>4
    <3> QED
      BY <2>3, <2>4, <3>1, SmallRemainder
  <2>6. WRAM_FIXED_SIZE + cell = WRAM_FIXED_SIZE + Shown * WRAM_BANK_SIZE + i
    <3> DEFINE b == Shown * WRAM_BANK_SIZE
    <3>1. b \in Nat /\ i \in Nat /\ cell = b + i
      BY <2>1, <2>4, Sizes DEF InBank
    <3> HIDE DEF b, i, cell
    <3>2. WRAM_FIXED_SIZE + cell = WRAM_FIXED_SIZE + b + i
      BY <3>1, Sizes
    <3> QED
      BY <3>2 DEF b
  <2> QED
    BY <2>1, <2>2, <2>5, <2>6
<1> QED
  BY <1>2, <1>3

\* Two local addresses, one cell: they are the same.
LEMMA OffsetsApart ==
  ASSUME gCurBank \in Nat, NEW i \in Local, NEW j \in Local,
         ResolveOffset(i) = ResolveOffset(j)
  PROVE  i = j
<1> DEFINE b == Shown * WRAM_BANK_SIZE
<1>1. b \in Nat
  BY ShownIsBank, Sizes DEF Bank
<1> HIDE DEF b
<1>2. \A local \in Local :
        \/ local \in Nat /\ local < WRAM_FIXED_SIZE /\ ResolveOffset(local) = local
        \/ \E k \in Nat : local = WRAM_FIXED_SIZE + k
                        /\ ResolveOffset(local) = WRAM_FIXED_SIZE + b + k
  BY Resolved, Sizes DEF InFixed, InBank, b
<1> QED
  BY <1>1, <1>2, Sizes

LEMMA OffsetInside ==
  ASSUME gCurBank \in Nat, NEW local \in Local
  PROVE  ResolveOffset(local) \in Offset
<1> DEFINE all == WRAM_BANK_COUNT * WRAM_BANK_SIZE
           b == Shown * WRAM_BANK_SIZE
<1>1. all \in Nat /\ b \in Nat /\ WRAM_SIZE = WRAM_FIXED_SIZE + all
  BY Sizes, ShownIsBank DEF WRAM_SIZE, Bank
<1>2. \A i \in InBank : i \in Nat /\ b + i \in 0..(all - 1)
  BY ShownIsBank, CellOfBank DEF InBank
<1> HIDE DEF all, b
<1>3. \/ ResolveOffset(local) \in InFixed
      \/ \E i \in InBank : ResolveOffset(local) = WRAM_FIXED_SIZE + b + i
  BY Resolved DEF b
<1> QED
  BY <1>1, <1>2, <1>3, Sizes DEF Offset, InFixed

-----------------------------------------------------------------------------
\* The invariant: the bus's, and the ranges of what the work RAM keeps.
Arrays == [Context -> [Offset -> Value]]

ConsoleInv ==
  /\ Inv
  /\ wram \in Arrays
  /\ gCurBank \in BankRegister

LEMMA WriteInArrays ==
  ASSUME wram \in Arrays, gCurBank \in Nat,
         NEW c \in Context, NEW local \in Local, NEW value \in Value,
         Write(c, local, value)
  PROVE  wram' \in Arrays
  BY OffsetInside DEF Write, Arrays

\* The bus gives the work RAM local addresses of its window only.
LEMMA LocalOfWram ==
  ASSUME Inv, NEW a \in Address, Resolve(a) = Wram
  PROVE  Localize(Wram, a) \in Local
<1>1. Wram \in Device /\ Wram # NULL
  BY BusAssumption
<1>2. a \in Cells(Wram)
  BY <1>1 DEF Inv, Good, OwnCellsOnly, Resolve
<1>3. End[Wram] - Start[Wram] = WRAM_FIXED_SIZE + WRAM_BANK_SIZE - 1
  BY ConsoleAssumption
<1>4. Start[Wram] \in Nat /\ End[Wram] \in Nat
  BY <1>1, CellsInside
<1> QED
  BY <1>2, <1>3, <1>4, Sizes DEF Cells, Localize, Local

LEMMA ConsoleInitInv == ConsoleInit => ConsoleInv
<1>1. Init => Inv
  BY InitInv
<1>2. InitWram => wram \in Arrays /\ gCurBank \in BankRegister
  BY WramAssumption DEF InitWram, Cleared, Arrays
<1> QED
  BY <1>1, <1>2 DEF ConsoleInit, ConsoleInv

\* A step of the console is a step of the bus, or leaves the bus alone.
LEMMA BusStep == [ConsoleNext]_consoleVars => [Next]_vars
  BY DEF ConsoleNext, InitBus, RegisterForeign, CreateContext, Select, WorkRamWrite,
         Next, Foreign, consoleVars

LEMMA ConsoleStep == ConsoleInv /\ [ConsoleNext]_consoleVars => ConsoleInv'
<1> SUFFICES ASSUME ConsoleInv, [ConsoleNext]_consoleVars PROVE ConsoleInv'
  OBVIOUS
<1>1. Inv'
  BY BusStep, StepGood DEF ConsoleInv
<1>2. wram' \in Arrays /\ gCurBank' \in BankRegister
  <2> USE DEF ConsoleInv
  <2>1. CASE UNCHANGED wramVars
    BY <2>1 DEF wramVars
  <2>2. ASSUME NEW c \in Context, CreateContext(c) PROVE wram' \in Arrays /\ gCurBank' \in BankRegister
    BY <2>2, WramAssumption DEF CreateContext, Create, Cleared, Arrays
  <2>3. ASSUME NEW bank \in BankRegister, Select(bank) PROVE wram' \in Arrays /\ gCurBank' \in BankRegister
    BY <2>3 DEF Select, SelectBank
  <2>4. ASSUME NEW c \in Context, NEW a \in Address, NEW value \in Value,
               WorkRamWrite(c, a, value)
        PROVE  wram' \in Arrays /\ gCurBank' \in BankRegister
    <3>1. Localize(Wram, a) \in Local /\ Write(c, Localize(Wram, a), value)
      BY <2>4, LocalOfWram DEF WorkRamWrite
    <3>2. gCurBank \in Nat
      BY WramAssumption
    <3> QED
      BY <3>1, <3>2, WriteInArrays DEF Write
  <2> QED
    BY <2>1, <2>2, <2>3, <2>4 DEF ConsoleNext, InitBus, RegisterForeign, consoleVars
<1> QED
  BY <1>1, <1>2 DEF ConsoleInv

LEMMA ConsoleInvariance == ConsoleSpec => []ConsoleInv
  BY ConsoleInitInv, ConsoleStep, PTL DEF ConsoleSpec

-----------------------------------------------------------------------------
\* What the invariants say follows of one state.
LEMMA NaturalBank == ConsoleInv => gCurBank \in Nat
  BY WramAssumption DEF ConsoleInv

(***************************************************************************)
(* The four guarantees of the bus hold of it as part of the console: all   *)
(* that the contexts do leaves the table alone.                            *)
(***************************************************************************)
THEOREM ConsoleKeepsBus == ConsoleSpec => Spec
  BY BusStep, PTL DEF ConsoleSpec, ConsoleInit, Spec

-----------------------------------------------------------------------------
(***************************************************************************)
(* The default devices.  Until km8_init is called for the first time the   *)
(* bus knows none of them, so what stops it then was an embedder's.        *)
(***************************************************************************)
Known == accepted \cup refused

DefaultsInv ==
  /\ DefaultsRegistered
  /\ ~Initialised =>
       \A k \in 1..4 :
         /\ Defaults[k] \notin Known
         /\ \A a \in Address : Resolve(a) # Defaults[k]

LEMMA DefaultDevices ==
  /\ \A k \in 1..4 : Defaults[k] \in Device /\ Defaults[k] \notin Foreign
  /\ \A d \in Device \ Foreign : \E k \in 1..4 : d = Defaults[k]
  /\ Defaults[1] = Bios
<1>1. /\ Defaults[1] = Bios /\ Defaults[2] = Rom
      /\ Defaults[3] = Eram /\ Defaults[4] = Wram
  BY DEF Defaults
<1>2. \A k \in 1..4 : k = 1 \/ k = 2 \/ k = 3 \/ k = 4
  OBVIOUS
<1>3. 1 \in 1..4 /\ 2 \in 1..4 /\ 3 \in 1..4 /\ 4 \in 1..4
  OBVIOUS
<1>4. ASSUME NEW k \in 1..4 PROVE Defaults[k] \in Device /\ Defaults[k] \notin Foreign
  BY <1>1, <1>2, BusAssumption DEF Foreign
<1>5. ASSUME NEW d \in Device \ Foreign PROVE \E k \in 1..4 : d = Defaults[k]
  BY <1>1, <1>3 DEF Foreign
<1> QED BY <1>1, <1>4, <1>5

\* What is accepted, or stands in the way, stays.
LEMMA DefaultsStay ==
  ASSUME DefaultsRegistered, Initialised,
         accepted \subseteq accepted', Keeps(gDispatchTable, gDispatchTable')
  PROVE  DefaultsRegistered'
<1>1. NULL \notin Foreign
  BY BusAssumption DEF Foreign
<1>2. \A k \in 1..4 : Cells(Defaults[k]) \subseteq Address
  BY DefaultDevices, CellsInside
<1>3. ASSUME NEW n \in 1..4
      PROVE  \/ Defaults[n] \in accepted'
             \/ \E k \in 1..n : \E a \in Cells(Defaults[k]) : gDispatchTable'[a] \in Foreign
  <2>1. CASE Defaults[n] \in accepted
    BY <2>1
  <2>2. ASSUME NEW k \in 1..n, NEW a \in Cells(Defaults[k]), gDispatchTable[a] \in Foreign
        PROVE  gDispatchTable'[a] \in Foreign
    <3>1. k \in 1..4
      OBVIOUS
    <3> QED BY <1>1, <1>2, <2>2, <3>1 DEF Keeps
  <2> QED BY <2>1, <2>2 DEF DefaultsRegistered, Resolve
<1> QED BY <1>3 DEF DefaultsRegistered, Resolve

\* A cell of a default device is not claimed by one registered before it.
LEMMA NotByThemselves ==
  ASSUME NEW n \in 1..4, NEW a \in Cells(Defaults[n]), NEW t \in Tables
  PROVE  Afters(t)[n][a] = t[a]
<1> DEFINE t1 == After(t, Bios)
           t2 == After(t1, Rom)
           t3 == After(t2, Eram)
<1>1. /\ Afters(t)[1] = t /\ Afters(t)[2] = t1 /\ Afters(t)[3] = t2
      /\ Afters(t)[4] = t3
  BY DEF Afters
<1>2. a \in Address
  BY DefaultDevices, CellsInside
<1>3. \A k \in 1..4 : k # n => a \notin Cells(Defaults[k])
  BY ConsoleAssumption
<1>4. \A u, d : a \notin Cells(d) => After(u, d)[a] = u[a]
  BY <1>2 DEF After, Claimed
<1>5. /\ Defaults[1] = Bios /\ Defaults[2] = Rom /\ Defaults[3] = Eram
  BY DEF Defaults
<1>6. /\ n > 1 => a \notin Cells(Bios)
      /\ n > 2 => a \notin Cells(Rom)
      /\ n > 3 => a \notin Cells(Eram)
  BY <1>3, <1>5
<1>7. /\ n > 1 => t1[a] = t[a]
      /\ n > 2 => t2[a] = t1[a]
      /\ n > 3 => t3[a] = t2[a]
  BY <1>4, <1>6
<1> HIDE DEF t1, t2, t3
<1> QED BY <1>1, <1>7

\* The first km8_init: the device that did not fit met one of an embedder's.
LEMMA FirstInit ==
  ASSUME Inv, DefaultsInv, ~Initialised, BusInit
  PROVE  DefaultsRegistered'
<1> DEFINE t == gDispatchTable
<1>1. PICK n \in 1..4 :
        /\ TriedUpTo(t, n)
        /\ accepted' = accepted \cup {Defaults[k] : k \in {i \in 1..n : FitsAt(t, i)}}
  BY DEF BusInit
<1>2. t \in Tables /\ Keeps(t, gDispatchTable')
  BY StepGood DEF Inv, Good, Next
<1>3. ASSUME NEW m \in 1..n, FitsAt(t, m) PROVE Defaults[m] \in accepted'
  BY <1>1, <1>3
<1>4. ASSUME ~FitsAt(t, n)
      PROVE  \E a \in Cells(Defaults[n]) : gDispatchTable'[a] \in Foreign
  <2>1. PICK a \in Cells(Defaults[n]) : Afters(t)[n][a] # NULL
    BY <1>4 DEF FitsAt, Fits
  <2>2. t[a] # NULL
    BY <1>2, <2>1, NotByThemselves
  <2>3. a \in Address
    BY DefaultDevices, CellsInside
  <2>4. t[a] \in Device
    BY <1>2, <2>2, <2>3 DEF Tables
  <2>5. \A k \in 1..4 : t[a] # Defaults[k]
    BY <2>3 DEF DefaultsInv, Resolve
  <2>6. t[a] \in Foreign
    BY <2>4, <2>5, DefaultDevices
  <2> QED BY <1>2, <2>2, <2>3, <2>6 DEF Keeps
<1>5. ASSUME NEW m \in 1..4
      PROVE  \/ Defaults[m] \in accepted'
             \/ \E k \in 1..m : \E a \in Cells(Defaults[k]) : gDispatchTable'[a] \in Foreign
  <2>1. CASE m < n
    <3>1. m \in 1..n /\ m \in 1..(n - 1)
      BY <2>1
    <3>2. FitsAt(t, m)
      BY <1>1, <3>1 DEF TriedUpTo
    <3> QED BY <1>3, <3>1, <3>2
  <2>2. CASE m >= n /\ FitsAt(t, n)
    <3>1. m = n
      BY <1>1, <2>2 DEF TriedUpTo
    <3> QED BY <1>3, <2>2, <3>1
  <2>3. CASE m >= n /\ ~FitsAt(t, n)
    <3>1. n \in 1..m
      BY <2>3
    <3> QED BY <1>4, <2>3, <3>1
  <2> QED BY <2>1, <2>2, <2>3
<1> QED BY <1>5 DEF DefaultsRegistered, Resolve

\* km8_init knows its first device from then on.
LEMMA InitKnows ==
  ASSUME BusInit
  PROVE  Initialised' /\ accepted \subseteq accepted' /\ Known \subseteq Known'
<1>1. PICK n \in 1..4 :
        LET tried == {Defaults[k] : k \in 1..n}
            ok == {Defaults[k] : k \in {i \in 1..n : FitsAt(gDispatchTable, i)}}
        IN  /\ accepted' = accepted \cup ok
            /\ refused' = (refused \ ok) \cup ((tried \ ok) \ accepted)
  BY DEF BusInit
<1>2. Bios \in {Defaults[k] : k \in 1..n}
  BY DefaultDevices
<1> QED BY <1>1, <1>2 DEF Initialised, Known

LEMMA RegisterForeignKeeps ==
  ASSUME Inv, DefaultsInv, NEW d \in Foreign, RegisterForeign(d)
  PROVE  DefaultsInv'
<1>1. d \in Device /\ Register(d)
  BY DEF Foreign, RegisterForeign
<1>2. /\ gDispatchTable' = After(gDispatchTable, d)
      /\ accepted \subseteq accepted' /\ Known' = Known \cup {d}
  BY <1>1 DEF Register, Known
<1>3. Keeps(gDispatchTable, gDispatchTable')
  BY <1>1, StepGood DEF Next
<1>4. \A k \in 1..4 : Defaults[k] # d
  BY DefaultDevices
<1>5. Initialised' = Initialised
  <2>1. Bios # d
    BY DEF Foreign
  <2> QED BY <1>2, <2>1 DEF Initialised, Known
<1>6. CASE Initialised
  BY <1>2, <1>3, <1>5, <1>6, DefaultsStay DEF DefaultsInv
<1>7. CASE ~Initialised
  <2>1. \A k \in 1..4 : Defaults[k] \notin Known'
    BY <1>2, <1>4, <1>7 DEF DefaultsInv
  <2>2. ASSUME NEW k \in 1..4, NEW a \in Address
        PROVE  gDispatchTable'[a] # Defaults[k]
    <3>1. gDispatchTable[a] # Defaults[k]
      BY <1>7 DEF DefaultsInv, Resolve
    <3>2. gDispatchTable'[a] \in {d, gDispatchTable[a]}
      BY <1>2 DEF After
    <3> QED BY <1>4, <3>1, <3>2
  <2> QED BY <1>5, <1>7, <2>1, <2>2 DEF DefaultsInv, DefaultsRegistered, Resolve
<1> QED BY <1>6, <1>7

(***************************************************************************)
(* On any bus whose default devices do not overlap, one of them is missing *)
(* after km8_init only if an embedder's device is in the way.              *)
(***************************************************************************)
THEOREM DefaultsInPlace == ConsoleSpec => []DefaultsRegistered
<1>1. ConsoleInit => DefaultsInv
  <2> SUFFICES ASSUME ConsoleInit PROVE DefaultsInv
    OBVIOUS
  <2>1. Known = {} /\ ~Initialised
    BY DEF ConsoleInit, Init, Known, Initialised
  <2>2. \A k \in 1..4, a \in Address : gDispatchTable[a] # Defaults[k]
    BY BusAssumption, DefaultDevices DEF ConsoleInit, Init
  <2> QED BY <2>1, <2>2 DEF DefaultsInv, DefaultsRegistered, Resolve
<1>2. ConsoleInv /\ DefaultsInv /\ [ConsoleNext]_consoleVars => DefaultsInv'
  <2> SUFFICES ASSUME ConsoleInv, DefaultsInv, [ConsoleNext]_consoleVars
               PROVE  DefaultsInv'
    OBVIOUS
  <2>0. Inv
    BY DEF ConsoleInv
  <2>1. CASE UNCHANGED vars
    BY <2>1 DEF vars, DefaultsInv, DefaultsRegistered, Initialised, Known, Resolve
  <2>2. CASE InitBus
    <3>1. BusInit
      BY <2>2 DEF InitBus
    <3>2. Initialised' /\ accepted \subseteq accepted'
      BY <3>1, InitKnows
    <3>3. Keeps(gDispatchTable, gDispatchTable')
      BY <2>0, <3>1, StepGood DEF Next
    <3>4. DefaultsRegistered'
      BY <2>0, <3>1, <3>2, <3>3, DefaultsStay, FirstInit DEF DefaultsInv
    <3> QED BY <3>2, <3>4 DEF DefaultsInv
  <2>3. ASSUME NEW d \in Foreign, RegisterForeign(d) PROVE DefaultsInv'
    BY <2>0, <2>3, RegisterForeignKeeps
  <2> QED
    BY <2>1, <2>2, <2>3 DEF ConsoleNext, CreateContext, Select, WorkRamWrite, consoleVars
<1>3. DefaultsInv => DefaultsRegistered
  BY DEF DefaultsInv
<1> QED
  BY <1>1, <1>2, <1>3, ConsoleInvariance, PTL DEF ConsoleSpec

-----------------------------------------------------------------------------
(***************************************************************************)
(* The window is inside the array and one-to-one, for any number and size  *)
(* of banks and any value of the bank register.                            *)
(***************************************************************************)
THEOREM WindowFits == ConsoleSpec => []WindowFitsArray
<1>1. ConsoleInv => WindowFitsArray
  BY NaturalBank, OffsetInside, OffsetsApart DEF WindowFitsArray
<1> QED
  BY <1>1, ConsoleInvariance, PTL

(***************************************************************************)
(* A CPU reads its own context's fixed part or the bank now shown.         *)
(***************************************************************************)
THEOREM ReadsOwnBank == ConsoleSpec => []ReadsBankShown
<1>1. ASSUME ConsoleInv, NEW c \in Context, NEW a \in Address, Resolve(a) = Wram
      PROVE  WorkRamRead(c, a) =
               IF a - Start[Wram] < WRAM_FIXED_SIZE THEN FixedPart[c][a - Start[Wram]]
               ELSE BankParts[c][Banked!Shown][a - Start[Wram] - WRAM_FIXED_SIZE]
  <2> DEFINE local == a - Start[Wram]
  <2>1. local \in Local /\ Localize(Wram, a) = local /\ gCurBank \in Nat
    BY <1>1, LocalOfWram, NaturalBank DEF Localize, ConsoleInv
  <2>2. WorkRamRead(c, a) = wram[c][ResolveOffset(local)]
    BY <2>1 DEF WorkRamRead, Read
  <2> HIDE DEF local
  <2>3. CASE local \in InFixed /\ ResolveOffset(local) = local
    <3>1. local < WRAM_FIXED_SIZE
      BY <2>3, Sizes DEF InFixed
    <3>2. FixedPart[c][local] = wram[c][local]
      BY <2>3 DEF FixedPart, InFixed
    <3> QED
      BY <2>2, <2>3, <3>1, <3>2 DEF local
  <2>4. ASSUME NEW i \in InBank, local = WRAM_FIXED_SIZE + i,
               ResolveOffset(local) = WRAM_FIXED_SIZE + Shown * WRAM_BANK_SIZE + i
        PROVE  WorkRamRead(c, a) =
                 IF local < WRAM_FIXED_SIZE THEN FixedPart[c][local]
                 ELSE BankParts[c][Banked!Shown][local - WRAM_FIXED_SIZE]
    <3>1. ~(local < WRAM_FIXED_SIZE) /\ local - WRAM_FIXED_SIZE = i
      BY <2>4, Sizes DEF InBank
    <3>2. Shown \in Bank /\ Shown = Banked!Shown
      BY <2>1, ShownIsBank
    <3>3. BankParts[c][Shown][i] = wram[c][WRAM_FIXED_SIZE + Shown * WRAM_BANK_SIZE + i]
      BY <3>2 DEF BankParts, Bank, InBank
    <3> QED
      BY <2>2, <2>4, <3>1, <3>2, <3>3
  <2> QED
    BY <2>1, <2>3, <2>4, Resolved DEF local
<1>2. ConsoleInv => ReadsBankShown
  BY <1>1 DEF ReadsBankShown
<1> QED
  BY <1>2, ConsoleInvariance, PTL

(***************************************************************************)
(* A write is seen at its own address, by its own context, and nowhere     *)
(* else.                                                                   *)
(***************************************************************************)
THEOREM WritesSeen == ConsoleSpec => WriteThenRead
<1> DEFINE Seen == \A c \in Context, a \in Address, value \in Value :
              WorkRamWrite(c, a, value) =>
                \A d \in Context, b \in Address :
                  Resolve(b) = Wram =>
                    WorkRamRead(d, b)' =
                      IF d = c /\ b = a THEN value ELSE WorkRamRead(d, b)
<1>1. ConsoleInv => Seen
  <2> SUFFICES ASSUME ConsoleInv,
                      NEW c \in Context, NEW a \in Address, NEW value \in Value,
                      WorkRamWrite(c, a, value),
                      NEW d \in Context, NEW b \in Address, Resolve(b) = Wram
               PROVE  WorkRamRead(d, b)' =
                        IF d = c /\ b = a THEN value ELSE WorkRamRead(d, b)
    OBVIOUS
  <2> DEFINE i == Localize(Wram, a)
             j == Localize(Wram, b)
  <2>1. i \in Local /\ j \in Local /\ gCurBank \in Nat
    BY LocalOfWram, NaturalBank DEF ConsoleInv, WorkRamWrite
  <2>2. i = j => a = b
    BY BusAssumption DEF Localize, Address
  <2>3. wram' = [wram EXCEPT ![c][ResolveOffset(i)] = value] /\ gCurBank' = gCurBank
    BY DEF WorkRamWrite, Write
  <2>4. WorkRamRead(d, b)' = wram'[d][ResolveOffset(j)]
    BY <2>3 DEF WorkRamRead, Read, ResolveOffset, Localize
  <2>5. WorkRamRead(d, b) = wram[d][ResolveOffset(j)]
    BY DEF WorkRamRead, Read
  <2>6. ResolveOffset(i) \in Offset /\ ResolveOffset(j) \in Offset
    BY <2>1, OffsetInside
  <2>7. ResolveOffset(i) = ResolveOffset(j) => i = j
    BY <2>1, OffsetsApart
  <2>8. wram \in Arrays
    BY DEF ConsoleInv
  <2>9. a = b => i = j
    OBVIOUS
  <2> HIDE DEF i, j
  <2> QED
    BY <2>2, <2>3, <2>4, <2>5, <2>6, <2>7, <2>8, <2>9 DEF Arrays
<1>2. ConsoleInv /\ [ConsoleNext]_consoleVars => [Seen]_consoleVars
  BY <1>1
<1> HIDE DEF Seen
<1>3. ConsoleSpec => [][Seen]_consoleVars
  BY <1>2, ConsoleInvariance, PTL DEF ConsoleSpec
<1> QED
  BY <1>3 DEF WriteThenRead, Seen

-----------------------------------------------------------------------------
(***************************************************************************)
(* The refinement.  A cell of the fixed part or of a bank is the cell of   *)
(* the array that the mapping names; a write to one of them leaves the     *)
(* others.                                                                 *)
(***************************************************************************)
FixedOf(array) == [i \in InFixed |-> array[i]]
BanksOf(array) ==
  [k \in Bank |-> [i \in InBank |-> array[WRAM_FIXED_SIZE + k * WRAM_BANK_SIZE + i]]]

LEMMA Parts ==
  /\ FixedPart = [c \in Context |-> FixedOf(wram[c])]
  /\ BankParts = [c \in Context |-> BanksOf(wram[c])]
  BY DEF FixedPart, BankParts, FixedOf, BanksOf, Bank, InBank, InFixed

LEMMA PartsPrime ==
  /\ FixedPart' = [c \in Context |-> FixedOf(wram'[c])]
  /\ BankParts' = [c \in Context |-> BanksOf(wram'[c])]
  BY DEF FixedPart, BankParts, FixedOf, BanksOf, Bank, InBank, InFixed

LEMMA BankOffset ==
  ASSUME NEW k \in Bank, NEW i \in InBank
  PROVE  /\ WRAM_FIXED_SIZE + k * WRAM_BANK_SIZE + i \in Offset
         /\ WRAM_FIXED_SIZE + k * WRAM_BANK_SIZE + i \notin InFixed
<1> DEFINE b == k * WRAM_BANK_SIZE
           all == WRAM_BANK_COUNT * WRAM_BANK_SIZE
<1>1. all \in Nat /\ b \in Nat /\ WRAM_SIZE = WRAM_FIXED_SIZE + all
  BY Sizes DEF WRAM_SIZE, Bank
<1>2. i \in Nat /\ b + i \in 0..(all - 1)
  BY CellOfBank DEF InBank
<1> HIDE DEF all, b
<1>3. WRAM_FIXED_SIZE + b + i \in Offset /\ WRAM_FIXED_SIZE + b + i \notin InFixed
  BY <1>1, <1>2, Sizes DEF Offset, InFixed
<1> QED
  BY <1>3 DEF b

LEMMA FixedOffset == InFixed \subseteq Offset
<1> DEFINE all == WRAM_BANK_COUNT * WRAM_BANK_SIZE
<1>1. all \in Nat /\ WRAM_SIZE = WRAM_FIXED_SIZE + all
  BY Sizes DEF WRAM_SIZE
<1> HIDE DEF all
<1> QED
  BY <1>1, Sizes DEF Offset, InFixed

LEMMA BankCellsApart ==
  ASSUME NEW k \in Bank, NEW i \in InBank, NEW m \in Bank, NEW j \in InBank,
         WRAM_FIXED_SIZE + k * WRAM_BANK_SIZE + i
           = WRAM_FIXED_SIZE + m * WRAM_BANK_SIZE + j
  PROVE  k = m /\ i = j
<1> DEFINE b == k * WRAM_BANK_SIZE
           e == m * WRAM_BANK_SIZE
<1>1. b \in Nat /\ e \in Nat /\ i \in Nat /\ j \in Nat
  BY Sizes DEF Bank, InBank
<1>2. WRAM_FIXED_SIZE + b + i = WRAM_FIXED_SIZE + e + j
  OBVIOUS
<1>3. b + i = e + j
  <2> HIDE DEF b, e
  <2> QED BY <1>1, <1>2, Sizes
<1> QED
  BY <1>3, CellsApart

LEMMA WriteFixedArray ==
  ASSUME NEW array \in [Offset -> Value], NEW o \in InFixed, NEW value
  PROVE  LET new == [array EXCEPT ![o] = value]
         IN  /\ FixedOf(new) = [FixedOf(array) EXCEPT ![o] = value]
             /\ BanksOf(new) = BanksOf(array)
<1> DEFINE new == [array EXCEPT ![o] = value]
<1>1. FixedOf(new) = [FixedOf(array) EXCEPT ![o] = value]
  BY FixedOffset DEF FixedOf
<1>2. \A k \in Bank, i \in InBank :
        new[WRAM_FIXED_SIZE + k * WRAM_BANK_SIZE + i]
          = array[WRAM_FIXED_SIZE + k * WRAM_BANK_SIZE + i]
  BY BankOffset
<1>3. BanksOf(new) = BanksOf(array)
  BY <1>2 DEF BanksOf
<1> QED
  BY <1>1, <1>3

LEMMA WriteBankArray ==
  ASSUME NEW array \in [Offset -> Value], NEW k \in Bank, NEW i \in InBank,
         NEW value, NEW o, o = WRAM_FIXED_SIZE + k * WRAM_BANK_SIZE + i
  PROVE  /\ FixedOf([array EXCEPT ![o] = value]) = FixedOf(array)
         /\ BanksOf([array EXCEPT ![o] = value]) = [BanksOf(array) EXCEPT ![k][i] = value]
<1> DEFINE new == [array EXCEPT ![o] = value]
<1>1. o \in Offset /\ o \notin InFixed
  BY BankOffset
<1>2. FixedOf(new) = FixedOf(array)
  BY <1>1, FixedOffset DEF FixedOf
<1>3. \A m \in Bank, j \in InBank :
        new[WRAM_FIXED_SIZE + m * WRAM_BANK_SIZE + j]
          = IF m = k /\ j = i THEN value
            ELSE array[WRAM_FIXED_SIZE + m * WRAM_BANK_SIZE + j]
  BY <1>1, BankOffset, BankCellsApart
<1>4. BanksOf(new) = [BanksOf(array) EXCEPT ![k][i] = value]
  <2> HIDE DEF new
  <2>1. \A m \in Bank : m # k => BanksOf(new)[m] = BanksOf(array)[m]
    BY <1>3 DEF BanksOf
  <2>2. BanksOf(new)[k] = [BanksOf(array)[k] EXCEPT ![i] = value]
    <3>1. BanksOf(new)[k] = [j \in InBank |-> IF j = i THEN value ELSE BanksOf(array)[k][j]]
      BY <1>3 DEF BanksOf
    <3>2. BanksOf(array)[k] = [j \in InBank |-> BanksOf(array)[k][j]]
      BY DEF BanksOf
    <3> QED
      BY <3>1, <3>2
  <2>3. /\ BanksOf(new) = [m \in Bank |-> BanksOf(new)[m]]
        /\ BanksOf(array) = [m \in Bank |-> BanksOf(array)[m]]
    BY DEF BanksOf
  <2> QED
    BY <2>1, <2>2, <2>3
<1> QED
  BY <1>2, <1>4

(***************************************************************************)
(* One step of the arrays is one step of the banked memories.              *)
(***************************************************************************)
LEMMA WriteIsBanked ==
  ASSUME wram \in Arrays, gCurBank \in Nat,
         NEW c \in Context, NEW local \in Local, NEW value \in Value,
         Write(c, local, value)
  PROVE  Banked!Next
<1> DEFINE new == [wram[c] EXCEPT ![ResolveOffset(local)] = value]
<1>0. wram[c] \in [Offset -> Value]
  BY DEF Arrays
<1>1. wram' = [wram EXCEPT ![c] = new] /\ gCurBank' = gCurBank
  BY DEF Write
<1>2. wram' = [d \in Context |-> IF d = c THEN new ELSE wram[d]]
  BY <1>1 DEF Arrays
<1>3. CASE local \in InFixed /\ ResolveOffset(local) = local
  <2>1. FixedOf(new) = [FixedOf(wram[c]) EXCEPT ![local] = value]
        /\ BanksOf(new) = BanksOf(wram[c])
    BY <1>0, <1>3, WriteFixedArray
  <2> HIDE DEF new
  <2>2. FixedPart' = [FixedPart EXCEPT ![c][local] = value]
    BY <1>2, <2>1, Parts, PartsPrime
  <2>3. BankParts' = BankParts
    BY <1>2, <2>1, Parts, PartsPrime
  <2>4. Banked!WriteFixed(c, local, value)
    BY <1>1, <2>2, <2>3 DEF Banked!WriteFixed
  <2> QED
    BY <1>3, <2>4 DEF Banked!Next, InFixed
<1>4. ASSUME NEW i \in InBank,
             ResolveOffset(local) = WRAM_FIXED_SIZE + Shown * WRAM_BANK_SIZE + i
      PROVE  Banked!Next
  <2>0. Shown \in Bank /\ Banked!Shown = Shown
    BY ShownIsBank
  <2>1. FixedOf(new) = FixedOf(wram[c])
        /\ BanksOf(new) = [BanksOf(wram[c]) EXCEPT ![Shown][i] = value]
    <3> DEFINE o == ResolveOffset(local)
    <3>1. o = WRAM_FIXED_SIZE + Shown * WRAM_BANK_SIZE + i /\ new = [wram[c] EXCEPT ![o] = value]
      BY <1>4
    <3> HIDE DEF new, o
    <3> QED
      BY <1>0, <2>0, <3>1, WriteBankArray
  <2> HIDE DEF new
  <2>2. FixedPart' = FixedPart
    BY <1>2, <2>1, Parts, PartsPrime
  <2>3. BankParts' = [BankParts EXCEPT ![c][Shown][i] = value]
    BY <1>2, <2>1, Parts, PartsPrime
  <2>4. Banked!WriteBanked(c, i, value)
    BY <1>1, <2>0, <2>2, <2>3 DEF Banked!WriteBanked
  <2> QED
    BY <2>4 DEF Banked!Next, InBank
<1> QED
  BY <1>3, <1>4, Resolved

LEMMA ClearedParts ==
  FixedOf(Cleared) = Banked!ZeroFixed /\ BanksOf(Cleared) = Banked!ZeroBanks
<1>1. FixedOf(Cleared) = Banked!ZeroFixed
  BY FixedOffset DEF FixedOf, Cleared, Banked!ZeroFixed, InFixed
<1>2. \A k \in Bank, i \in InBank : Cleared[WRAM_FIXED_SIZE + k * WRAM_BANK_SIZE + i] = 0
  BY BankOffset DEF Cleared
<1>3. BanksOf(Cleared) = Banked!ZeroBanks
  BY <1>2 DEF BanksOf, Banked!ZeroBanks, Bank, InBank
<1> QED
  BY <1>1, <1>3

LEMMA CreateIsClear ==
  ASSUME wram \in Arrays, NEW c \in Context, Create(c)
  PROVE  Banked!Next
<1>1. wram' = [d \in Context |-> IF d = c THEN Cleared ELSE wram[d]]
      /\ gCurBank' = gCurBank
  BY DEF Create, Arrays
<1>2. FixedPart' = [FixedPart EXCEPT ![c] = Banked!ZeroFixed]
  BY <1>1, ClearedParts, Parts, PartsPrime
<1>3. BankParts' = [BankParts EXCEPT ![c] = Banked!ZeroBanks]
  BY <1>1, ClearedParts, Parts, PartsPrime
<1>4. Banked!Clear(c)
  BY <1>1, <1>2, <1>3 DEF Banked!Clear
<1> QED
  BY <1>4 DEF Banked!Next

(***************************************************************************)
(* The arrays of the contexts implement, for any sizes, a fixed memory and *)
(* separate banks for each of them.                                        *)
(***************************************************************************)
THEOREM ArraysAreBanks == ConsoleSpec => ImplementsBanks
<1>1. ConsoleInit => Banked!Init
  <2> SUFFICES ASSUME ConsoleInit PROVE Banked!Init
    OBVIOUS
  <2>1. \A c \in Context : wram[c] = Cleared
    BY DEF ConsoleInit, InitWram
  <2>2. FixedPart = [c \in Context |-> Banked!ZeroFixed]
        /\ BankParts = [c \in Context |-> Banked!ZeroBanks]
    BY <2>1, Parts, ClearedParts
  <2> QED
    BY <2>2 DEF Banked!Init, ConsoleInit, InitWram
<1>2. ConsoleInv /\ [ConsoleNext]_consoleVars => [Banked!Next]_(Banked!vars)
  <2> SUFFICES ASSUME ConsoleInv, [ConsoleNext]_consoleVars
               PROVE  [Banked!Next]_(Banked!vars)
    OBVIOUS
  <2>0. wram \in Arrays /\ gCurBank \in Nat
    BY NaturalBank DEF ConsoleInv
  <2>1. CASE UNCHANGED wramVars
    BY <2>1, Parts, PartsPrime DEF wramVars, Banked!vars
  <2>2. ASSUME NEW c \in Context, CreateContext(c) PROVE Banked!Next
    BY <2>0, <2>2, CreateIsClear DEF CreateContext
  <2>3. ASSUME NEW bank \in BankRegister, Select(bank) PROVE Banked!Next
    <3>1. FixedPart' = FixedPart /\ BankParts' = BankParts /\ gCurBank' = bank
      BY <2>3, Parts, PartsPrime DEF Select, SelectBank
    <3>2. Banked!Select(bank)
      BY <3>1 DEF Banked!Select
    <3> QED
      BY <3>2 DEF Banked!Next
  <2>4. ASSUME NEW c \in Context, NEW a \in Address, NEW value \in Value,
               WorkRamWrite(c, a, value)
        PROVE  Banked!Next
    <3>1. Localize(Wram, a) \in Local /\ Write(c, Localize(Wram, a), value)
      BY <2>4, LocalOfWram DEF WorkRamWrite, ConsoleInv
    <3> QED
      BY <2>0, <3>1, WriteIsBanked
  <2> QED
    BY <2>1, <2>2, <2>3, <2>4 DEF ConsoleNext, InitBus, RegisterForeign, consoleVars
<1> QED
  BY <1>1, <1>2, ConsoleInvariance, PTL DEF ConsoleSpec, ImplementsBanks, Banked!Spec

-----------------------------------------------------------------------------
(***************************************************************************)
(* The cartridge loader: that it leaks nothing and returns only what can   *)
(* be run, for any images and any number of loads.  The key to the heap is *)
(* that no two Cartridges come from the same load: what one frees is never *)
(* another's.                                                              *)
(***************************************************************************)
Held == UNION {Blocks(c) : c \in loaded}

LoaderInv ==
  /\ loads \in Nat
  /\ \A c \in loaded : c.load \in Nat /\ c.load < loads
  /\ \A c, d \in loaded : c.load = d.load => c = d
  /\ heap = Held
  /\ RunnableRom

LEMMA InitLoaderInv == InitLoader => LoaderInv
  BY CartridgeAssumption DEF InitLoader, LoaderInv, Held, RunnableRom

\* What is freed is what was allocated, all of it marked with its load.
LEMMA FreesBlocks ==
  /\ \A c : Freed(c) = Blocks(c)
  /\ \A c : \A block \in Blocks(c) : block[1] = c.load
  BY DEF Freed, Blocks

LEMMA GiveUpKeepsHeap ==
  ASSUME heap = Held, NEW c, \A d \in loaded : d.load # c.load, GiveUp(c)
  PROVE  heap' = heap /\ loaded' = loaded
<1>1. heap' = (heap \cup Blocks(c)) \ Blocks(c) /\ loaded' = loaded
  BY FreesBlocks DEF GiveUp
<1>2. ASSUME NEW block \in heap PROVE block \notin Blocks(c)
  <2>1. PICK d \in loaded : block \in Blocks(d)
    BY <1>2 DEF Held
  <2> QED
    BY <2>1, FreesBlocks
<1> QED
  BY <1>1, <1>2

-----------------------------------------------------------------------------
\* The entries of the two tables, and what they make of a header.
LEMMA RomTable ==
  ASSUME NEW code \in 0..8
  PROVE  ROM_SIZE_CODES[code + 1] \in Nat /\ ROM_SIZE_CODES[code + 1] >= 2
  BY DEF ROM_SIZE_CODES

LEMMA RamTable ==
  ASSUME NEW code \in 0..5
  PROVE  RAM_SIZE_CODES[code + 1] \in 0..64
  BY DEF RAM_SIZE_CODES

LEMMA GoodImage ==
  ASSUME NEW image \in Images, GoodHeader(image)
  PROVE  /\ RomBanks(image) * ROM_BANK_SIZE = image.size
         /\ RomBanks(image) * ROM_BANK_SIZE >= 2 * ROM_BANK_SIZE
         /\ (RamBanks(image) * ERAM_BANK_SIZE) % ERAM_BANK_SIZE = 0
         /\ (RamBanks(image) * ERAM_BANK_SIZE) \div ERAM_BANK_SIZE <= 255
<1>1. image.rom_size_code \in 0..8 /\ image.ram_size_code \in 0..5
  BY CartridgeAssumption DEF GoodHeader
<1>2. RomBanks(image) \in Nat /\ RomBanks(image) >= 2
  BY <1>1, RomTable DEF RomBanks
<1>3. RamBanks(image) \in 0..64
  BY <1>1, RamTable DEF RamBanks
<1>4. RomBanks(image) * ROM_BANK_SIZE = image.size
  BY DEF GoodHeader
<1>5. RomBanks(image) * ROM_BANK_SIZE >= 2 * ROM_BANK_SIZE
  BY <1>2 DEF ROM_BANK_SIZE
<1>6. /\ (RamBanks(image) * ERAM_BANK_SIZE) % ERAM_BANK_SIZE = 0
      /\ (RamBanks(image) * ERAM_BANK_SIZE) \div ERAM_BANK_SIZE <= 255
  BY <1>3 DEF ERAM_BANK_SIZE
<1> QED
  BY <1>4, <1>5, <1>6

-----------------------------------------------------------------------------
LEMMA LoadKeeps ==
  ASSUME LoaderInv, NEW image \in Images, NEW failing, Load(image, failing)
  PROVE  LoaderInv'
<1> DEFINE with(rom, ram) == Cartridge(loads, image, rom, ram)
           romBytes == RomBanks(image) * ROM_BANK_SIZE
           ramBytes == RamBanks(image) * ERAM_BANK_SIZE
<1>1. loads' = loads + 1 /\ loads \in Nat
  BY DEF Load, LoaderInv
<1>2. \A rom, ram : with(rom, ram).load = loads
  BY DEF Cartridge
<1>3. \A c \in loaded : c.load \in Nat /\ c.load < loads
  BY DEF LoaderInv
<1>4. CASE Refuse
  BY <1>1, <1>3, <1>4 DEF Refuse, LoaderInv, Held, RunnableRom
<1>5. ASSUME NEW rom, NEW ram, GiveUp(with(rom, ram)) PROVE LoaderInv'
  <2>1. \A d \in loaded : d.load # with(rom, ram).load
    BY <1>1, <1>2, <1>3
  <2> HIDE DEF with
  <2>2. heap' = heap /\ loaded' = loaded
    BY <1>5, <2>1, GiveUpKeepsHeap DEF LoaderInv
  <2> QED
    BY <1>1, <1>3, <2>2 DEF LoaderInv, Held, RunnableRom
<1>6. CASE GoodHeader(image) /\ Return(with(romBytes, ramBytes))
  <2> DEFINE c == with(romBytes, ramBytes)
  <2>1. /\ c.load = loads /\ c.rom = romBytes /\ c.ram = ramBytes
        /\ c.copied = image.size
    BY DEF Cartridge
  <2>2. /\ romBytes >= 2 * ROM_BANK_SIZE /\ image.size = romBytes
        /\ ramBytes % ERAM_BANK_SIZE = 0 /\ ramBytes \div ERAM_BANK_SIZE <= 255
    BY <1>6, GoodImage
  <2>3. heap' = heap \cup Blocks(c) /\ loaded' = loaded \cup {c}
    BY <1>6 DEF Return
  <2> HIDE DEF with, romBytes, ramBytes, c
  <2>4. heap' = Held'
    BY <2>3 DEF LoaderInv, Held
  <2>5. RunnableRom'
    BY <2>1, <2>2, <2>3 DEF LoaderInv, RunnableRom
  <2>6. \A d \in loaded' : d.load \in Nat /\ d.load < loads'
    BY <1>1, <1>3, <2>1, <2>3
  <2>7. \A d, e \in loaded' : d.load = e.load => d = e
    BY <1>1, <1>3, <2>1, <2>3 DEF LoaderInv
  <2> QED
    BY <1>1, <2>4, <2>5, <2>6, <2>7 DEF LoaderInv
<1>7. \/ Refuse
      \/ GiveUp(with(0, 0))
      \/ GiveUp(with(romBytes, 0))
      \/ GoodHeader(image) /\ Return(with(romBytes, ramBytes))
  BY DEF Load
<1> QED
  BY <1>4, <1>5, <1>6, <1>7

LEMMA UnloadKeeps ==
  ASSUME LoaderInv, NEW c \in loaded, Unload(c)
  PROVE  LoaderInv'
<1>1. loaded' = loaded \ {c} /\ heap' = heap \ Blocks(c) /\ loads' = loads
  BY FreesBlocks DEF Unload
<1>2. heap' = Held'
  <2>1. ASSUME NEW d \in loaded, d # c, NEW block \in Blocks(d)
        PROVE  block \notin Blocks(c)
    BY <2>1, FreesBlocks DEF LoaderInv
  <2> QED
    BY <1>1, <2>1 DEF LoaderInv, Held
<1> QED
  BY <1>1, <1>2 DEF LoaderInv, RunnableRom

LEMMA LoaderInvariance == SpecLoader => []LoaderInv
<1>1. LoaderInv /\ [NextLoader]_loaderVars => LoaderInv'
  <2>1. LoaderInv /\ UNCHANGED loaderVars => LoaderInv'
    BY DEF LoaderInv, loaderVars, Held, RunnableRom
  <2> QED
    BY <2>1, LoadKeeps, UnloadKeeps DEF NextLoader
<1> QED
  BY <1>1, InitLoaderInv, PTL DEF SpecLoader

(***************************************************************************)
(* No path of the loader leaks, and unloading one Cartridge frees nothing  *)
(* of another.                                                             *)
(***************************************************************************)
THEOREM NothingLeaks == SpecLoader => []HeapIsLoaded
<1>1. LoaderInv => HeapIsLoaded
  BY DEF LoaderInv, Held, HeapIsLoaded
<1> QED
  BY <1>1, LoaderInvariance, PTL

(***************************************************************************)
(* Every Cartridge the loader returns has two banks of ROM or more, filled *)
(* by the image, and a number of RAM banks that a byte can hold.           *)
(***************************************************************************)
THEOREM ReturnsRunnable == SpecLoader => []RunnableRom
<1>1. LoaderInv => RunnableRom
  BY DEF LoaderInv
<1> QED
  BY <1>1, LoaderInvariance, PTL
=============================================================================
