# KM8 in TLA+

KM8 is an 8-bit fantasy console: a C library (CPU, bus, memories, cartridges),
a desktop front end that runs it with one of three drivers, and an assembler that
is not finished. These modules model all three, TLC checks them on small instances,
and TLAPS proves the main safety properties for every value of the constants. Paths
below are relative to the repository root; `src/` is the directory of that name
in it.

## 1. Inventory

| Component | Source | State | Operations | Hard part |
| --- | --- | --- | --- | --- |
| CPU | `src/cpu/cpu.c`, `internal/cpu_internal.h` | `struct Cpu`: state, registers (SP, PC and flags among them), instruction buffer, pending cycle, latency, counters | `km8_cpu_step`: wait, fetch opcode, decode, fetch operand, execute | one instruction is spread over many calls; 16-bit wrap; state left over from the instruction before |
| Handlers | `src/cpu/opcodes.c` | none of their own | 57 handlers, a table of opcodes and sizes | three of them take several cycles; validation after the first effects; registers 7-11 are SP, PC and flags |
| ALU | `src/cpu/alu.c` | the flags | add, adc, sub, sbc, and, or, xor; shifts in the handlers | carry and overflow at the edges of a byte; chains of bytes |
| Bus | `src/bus/dispatch.c`, `src/bus/bus.c`, `internal/bus.h` | the static dispatch table | init, register, resolve, read, write | registration that fails half way; a second init |
| BIOS, ROM, RAM, WRAM devices | `src/mem/*.c`, `src/cartridge/rom.c`, `ram.c` | static bank registers, the memories | read, write, latency, bank select | address arithmetic; one bank register for all contexts |
| Cartridge loader | `src/cartridge/cartridge.c` | the loaded cartridges | load, unload | header checks between three allocations |
| Context | `src/core.c` | `Km8Context` | create, init, step cycles | result of init dropped; several contexts share the table and the bank register |
| Front end | `emulator/main.c` | resources held, the file being read, the loop's deadline | start-up, frame, pacing, teardown | eight ways out; being late |
| X11 driver | `emulator/platform/platform_linux.c` | display, window, image, event queue | init, create, poll, present, destroy, shutdown | events between frames; the window destroyed from outside; scaling |
| Win32 driver | `emulator/platform/platform_win32.c` | window class, window, message queue | the same, and the window procedure | callbacks from inside `DispatchMessageW`, `CreateWindowExW` and `DestroyWindow`; the title bar's own loop |
| Stub driver | `emulator/platform/platform_stub.c` | none | the same, all refusing | none |
| Kasm | `tools/kasm` | tokens, the statement being built, statements, symbols | tokenize, parse (the resolver is a stub, not called) | one builder and one symbol table for all files; line numbers; an instruction table written a second time |

How they interact: `main()` loads a cartridge, makes a window, calls `km8_init`
(which registers the devices on the bus) and then, frame by frame, polls the
window, calls `km8_step_cycles`, draws and sleeps. Each cycle is one
`km8_cpu_step`; it calls at most one opcode handler, which reaches memory only
through `km8_bus_read` and `km8_bus_write`, which find the device in the
dispatch table and charge its latency to the CPU. Everything is one thread; what
runs beside it is the X server or Windows, other programs and the user. The
assembler is a program of its own that shares only its instruction table with
the CPU.

What makes each part correct, in short: the CPU does what the instruction set
says, one instruction at a time, and stops only for a reason; arithmetic and
flags mean what conditional jumps take them to mean; return addresses survive;
devices own their addresses; banks do not mix; the loader neither leaks nor
returns what cannot be run; the loop keeps to the clock, answers a close request
and gives everything back. `PROJECT.json` lists the hazards line by line with
the properties aimed at each.

## 2. Modules

    Bytes ── Alu ─┬─ AluCases ── AluCasesProofs    (all operands)
                  ├─ AluChain ── AluChainProofs    (numbers of several bytes)
                  └─ Opcodes ── Semantics ─┐
    Bytes ── Memory ───────────────────────┴─┬─ Isa          (whole instructions)
                                             └─ Cpu          (clock cycles)
             Cpu ─┬─ CallFrames ──── CpuProofs     (the calls under way)
                  └─ CpuRefinement ─ CpuRefinementProofs (Cpu implements Isa;
                                                    extends CpuProofs)
    Bus ─────────────────────┐
    Wram (implements         ├─ Console ──┬── ConsoleProofs
          BankedMemory) ─────┘            │
    Cartridge ────────────────────────────┘
    Pacing ── PacingProofs
    Platform ─┬─ X11Window (with Pixels) ─┬─ Frontend ── FrontendProofs
              └─ Win32Window ─────────────┘
    Opcodes ── InstructionSet ── Kasm ── KasmProofs

`MC*` modules give the constants their values for TLC; `Programs` and
`CallPrograms` hold the programs the CPU is run on. `MCCpu` runs it with both
histories at once, `MCSaveRam` and `MCBoot` without.

**Bytes, Alu.** Bytes and words as integers; an ALU operation is a function from
operands (and the carry) to `[value, flags]`. Bitwise operators are built from
the set of a byte's bits, so that the modules above can be proved about.

**Opcodes, Semantics.** The opcode numbers, grouped by handler; instruction sizes
and execution cycles; and what an instruction does to the registers. A register
file is a function on 0..11; `SetPair` is `km8_cpu_set_pc`/`set_sp` with its wrap
at 16 bits.

**Memory.** The address map, latencies and the four default devices. A memory is
the function of its cells that were written or are not zero. A read yields a set
of bytes: one, except for accesses outside the cartridge RAM, which `ram.c:10`
really makes and which in C may yield anything or end the process
(`StrayBytes`, `crashed`).

**Cpu.** One action is one `km8_cpu_step`. `Wait` counts latency down,
`FetchOpcode`, `Decode`, `FetchOperand`, `OperandsComplete` are the first three
states, and each shape of handler has an action; `LdrMemRead`/`LdrMemStore`,
`CalPushHigh`/`CalPushLow`/`CalJump` and `RetPopLow`/`RetPopHigh` are the pending
cycles of one handler. The variables are the fields of `struct Cpu` by name.

**Isa** is the abstract specification: registers, memories and counters, and one
action per instruction with its total cost in cycles. **CpuRefinement** maps the
CPU to it: between instructions the two agree, inside one Isa still shows the
values from before, and the CPU's last cycle of the instruction is Isa's step.

**CallFrames** adds a history of the calls under way to Cpu: the set of the places
where a call has left its return address. A frame is gone when SP has passed it, or
when the program itself stores over its bytes.

**Bus.** The dispatch table over an address space and devices that are
constants; `Register` is the loop of `dispatch.c` with its early return, `BusInit`
the four registrations of `km8_bus_init` with theirs. Which devices were accepted
and refused is history.

**Wram, BankedMemory.** The window of `wram.c` on the array of each context, the
one static bank register that moves the windows of all, and the abstract memory
they implement: for each context a fixed part and separate banks. The abstract
`Clear` leaves the bank register alone, because `km8_create_context` does.

**Console.** The library as an embedder of several contexts uses it: `km8_init` and
registrations in any order and number (Bus), contexts created and created again,
bank selections, and accesses that find their device through the dispatch table
and reach Wram by its local address.

**Cartridge.** The loader with the size codes, the failing allocations as a
parameter, and the heap as the set of blocks allocated and not freed.

**Pacing.** The deadline arithmetic of the main loop against a clock that
advances at any moment.

**Platform, X11Window, Win32Window, Pixels.** Platform has what the drivers share
(the interface of `platform.h`: whether a window is there, whether it is to close,
how large it is) and the stub driver. `X11Window` and `Win32Window` have the
functions of the two real drivers as operators: the X11 event loop and its image;
the window class, the window procedure with its `GWLP_USERDATA` pointer, messages
that are posted and queued or sent and answered at once, and the loop that Windows
runs itself while the title bar is held. Windows calls the procedure from inside
`CreateWindowExW` and `DestroyWindow`, so making and destroying a window there is a
sequence of steps: the memory is allocated, Windows has the window and its pointer,
the call returns and the `hwnd` field is set; and back: the call begins, it returns,
the field is cleared, the memory is freed. What Windows holds (`system`) and what
the struct holds (`window`) are separate state, which `HandlesAlive` relates.
`Pixels` is the arithmetic that takes a pixel of the window to one of the frame and
a byte of the memory view to its pixel. Xlib, the server and Windows are modelled
by what the code relies on and marked external in the map.

**Frontend.** `main()` as a program counter that calls a driver, chosen at the
start: the name of the ROM, the stdio calls of `km8_read_entire_file` with each of
their failures, the cartridge, the window, the frame buffer, the loop, the wait for
a key and the teardown. On Windows the places inside the creation and the destruction
of the window are places of it too, where other programs' messages are heard.

**InstructionSet, Kasm.** The assembler's table `km8-isa-v1.json` entry by entry, and
the assembler: the files of a project are tokenized and parsed in turn; one
action of the parser is one turn of the loop in `Parser.Parse`. The token sequence
of `Tokenizer.cs` is a function from places, pairs of a line and a position in it,
to tokens; the tokens still to come are its domain, and the next is the one at the
least place. `KasmAssumption` says what words there are: those that the regular
expressions of the token handlers and the names of registers tell apart (`Shapes`).
The expressions exclude one another by the first or last character of a word, but
that a register's name is an identifier too; and each mnemonic of the table is an
identifier that names no register. `Kind`, `Good`, `Means` and
`Program` say what a line means by itself, which the statements are compared with.

## 3. What the runs check

| Run | Shows | Instance and bounds |
| --- | --- | --- |
| `alu_cases` | carry, overflow, compare and shift flags mean what they say | every pair of bytes, both carries: nothing is left out |
| `alu_chain` | additions of several bytes are exact, subtractions up to the borrows `SBC` drops | 3 bytes from {0, 1, 127, 128, 254, 255}: the values where carry and sign change |
| `cpu` | registers and memory in range, fetch window, operands from memory, pending cycles, latency, halt reasons; Cpu implements Isa with the same number of cycles; return addresses survive and are found | 688 programs with every instruction form, valid and not, after preludes that prepare registers, flags and stack, at and across 0xFFFF; 3120 programs of calls and returns: up to 2 stack instructions in the main program, 3 and 1 in two nested subroutines, the stack at the top and two bytes above the bottom of work RAM; 27 programs with data, code and stack in cartridge RAM of 0, 1 and 4 banks. 320 cycles, in which a program ends, or wraps around through a second boot |
| `boot` | the BIOS reaches the entry point; no instruction lasts for ever | every instruction once and three loops; counters left out (`CounterMod = 1`) so that the CPU can go on for ever |
| `console` | owners keep their addresses, prefixes, local addresses; the four default devices are all there after `km8_init` but for those an embedder's device is in the way of; a context reads what it wrote, from the bank shown, and no other context's; refinement of BankedMemory | 12 addresses; the four default devices and six that lie beside, inside and across them, over everything and nowhere, of which an embedder registers up to three, in any order and repeatedly; two contexts; one fixed cell, two banks of two, bank register 0..3 (beyond the banks), 2 values, three writes: one to each of two banks or contexts and one over it |
| `cartridge` | no leak on any path; what is loaded can be run | headers with every kind of fault, every set of failing allocations, three loads |
| `pacing` | never ahead of the clock, no burst, bounded sleep | interval 3, time to 18: six intervals, enough for a frame to be late by several, catch up and be late again |
| `frontend` | releases, one image, image of the right size, the whole frame shown, no handle of Windows or `main()` outlives what it names, the loop ends when asked | each driver; every start-up failure, a window that is refused before or after its first callback among them; events and messages of any kind at any time up to the bound, sizes that differ in either direction, larger and smaller than the frame |
| `kasm` | statements are lines, symbols are labels, errors name their line, the instruction table is the CPU's | one file of up to three lines or two of up to two, of fifteen kinds of lines (right ones of each kind, one for each error, an empty one, one of spaces), so that a line follows and precedes every other, also across files; a file that is not there |

The bounds are named constants (`StepCount`, `MaxBytes`, `MaxLoads`, `MaxTime`,
`MaxEvents`, `MaxForeign`, `MaxWrites`) in the guards; `kasm` is bounded by its projects. `CHECK_DEADLOCK FALSE` stands where the system stops:
a halted CPU, a finished computation, used-up loads, the loop left, the assembler's end.

Each property of a passing run has a mutant in `PROJECT.json`: a form of a
definition with a bug that the code could plausibly have (a dropped reset, an
off-by-one, a swapped order), kept beside the definition under "Mutation", that
makes the run fail.

### Fairness

`boot`: weak fairness of the CPU's step. The front end calls `km8_step_cycles`
every frame for as long as it runs, so a CPU that can step does. `frontend`: weak
fairness of the loop and the teardown. `main()` is a single thread that, once its
loop has begun, blocks nowhere but in `km8_wait_for_any_key`; the user's key, the
server's events, messages of other programs and the start-up (which may wait for the
answer to a prompt) are not fair, so nothing relies on them. While the user holds the
title bar of a Windows window, `DispatchMessageW` does not return; `CloseEnds` asks
that the button is let go again and again (`[]<>(~modal)`), which no code can force.
No other run assumes fairness.

### Disagreements found

Three runs expect a violation; each checks one sentence of the README or of a
comment against the code.

- `alu_borrow`: `SBC` of 0xFF with the carry set reports no borrow
  (`alu.c:56,60`), although the comment there says "borrow occurred".
- `save_ram`: cartridge RAM is not reachable, the index is outside the
  allocation (`ram.c:10`, README "External save RAM").
- `bus_refused`: a device refused for an overlap keeps the cells before it and is
  dispatched to (`dispatch.c:13-22`, README "through registered BusDevice handlers").

Smaller disagreements met on the way, visible in the code without a model: the
RAM size codes go to 256 KiB, not 64 KiB (README line 61, `cartridge.c:21-28`);
the flags byte is not validated (line 9, `cartridge.c:75`) and nothing reads it,
so cartridge RAM is mapped whether `flags & 1` is set or not (line 65, `bus.c:16`);
the X11 driver ignores `.resizable = false` (line 50, `main.c:214`); the CPU's
mnemonic for a call is `CAL` (`opcodes.c:686`), the assembler's `CALL`, and `PUSH` in
the README is `PSH` in both; the assembler accepts binary literals but cannot convert
one (`IntegerLiteralToken.cs:36`: `Convert.ToInt32` does not take the prefix), removes tabs
where it should part words (`Tokenizer.cs:46`), and exits with 0 when a source file is
missing (`Program.cs:67`); its errors name a line counted without the empty ones
(`Tokenizer.cs:51`), which is not the editor's; `CPU_HALTCODE_STACK_OVERFLOW`
(`include/km8/cpu.h:37`) is never raised, a stack may grow out of work RAM.

Where a property of a passing run is weaker than one would like, its comment says
why: `CarryExact` and `OverflowExact` name the operands at which `SBC` and `ADC`
are wrong (and say they are wrong nowhere else), `SubChainAccount` counts the lost
borrows, `ExitReleases` admits the cartridge on two failing paths of `main()`,
`ErrorNamesLine` counts lines as the assembler does, without the empty ones;
`FramesIntact` and `ReturnsToCaller` speak of return addresses in work RAM, not of
those a stack that left it has lost; `DefaultsRegistered` says who may be the cause
of a missing default device, since `km8_init` itself reports nothing (`core.c:5`).

## 4. What is proved

The theorems hold for every value of the constants under the named assumptions;
TLC evaluates those on the instances.

**CpuProofs** (any set of cartridges, any number of cycles; `CpuAssumption`,
`StrayAssumption`). The invariant is the conjunction of `TypeOK`, `FetchWindow`,
`ExecCycleBound`, `LatencyBound` and `HaltReason`. None of
them is inductive alone: that an operand slot is inside the buffer needs the
fetch window; that needs that PC is a word; that a handler sees only its own
cycles needs the opcode in the buffer to be the one selected; that latency does
not add up needs every access to be made at latency 0. Every action of `Next` has
a lemma that it keeps the invariant. `ExecutesMemory` (`FetchedFromMemory`) is
proved from it: operands are read from where they lie, and no write can come
between, because nothing writes while an instruction is fetched.

The module begins with the lemmas on bytes, words, the ALU and `Semantics` that this
rests on: results and flags are bytes, a stored word can be read back, every
instruction leaves a register file.

Its last part is about calls, with the history of CallFrames: the return address of
every call under way stays in work RAM (`ReturnAddressesKept`), and a RET that begins
where the call left SP takes it (`CallsReturn`), whatever the program pushes and
calls. `FramesIntact` needs a strengthening, `FrameInv`: a frame is above SP except
in the middle of an instruction that pushes, so a push never lands on one; and
half-way through a CAL the bytes pushed so far are those of the frame that is to be,
at addresses counted from the SP of that cycle. Stores to cartridge RAM or through
the unmapped parts of the bus keep the frames because they are not in work RAM.

**CpuRefinementProofs** (the same constants): `InstructionsImplemented`, Cpu
implements Isa. Most cycles of the CPU must show nothing and one per instruction
must be Isa's whole step, so the invariant, `SeenInv`, says for every state and every
pending cycle what of the instruction has been done to the machine last seen
between two instructions: nothing but PC while it is fetched and before its handler
runs; the byte read for LDR and RET; one or both pushes of CAL. Time is kept by one
number: `Due`, the clock as it will be when the latency incurred so far has been
waited for, which a waiting cycle leaves alone; `Paid(n)` says that it is n cycles
ahead of the clock seen, and every other cycle raises n by what Isa charges for it.
Both clocks wrap, so the sums are compared modulo `CounterMod` (`ModAdd`). STR, PSH,
POP and RET end with an access: the architecture's step is then the cycle that waits
its last delay, and until then `Settled` says that the machine is the one after the
instruction but for the clock. An instruction that writes over itself is no
exception: it was fetched before it wrote, and what Isa executes is read from the
memory as it was seen.

The theorem has a hypothesis: a load outside an allocation yields always the same
byte, or no cartridge has RAM. Isa reads each byte of an instruction once; the C
program may find a different one there every time it looks (`ram.c:10`), and then
there is no instruction that it executed.

**AluCasesProofs** (any set of operands that are bytes; `OperandsAssumption`): the
flags after each operation on bytes, by cases on carry and sign. What `alu_cases`
finds by trying all operands follows from the definitions of the operations.

**AluChainProofs** (chains of any length, any operand bytes; `ChainAssumption`):
addition is exact, subtraction exact but for the borrows counted in `lost`.

**PacingProofs** (any interval, frames of any length; `PacingAssumption`): the
invariant relates the deadline to the frame's start, the number of frames begun
to the deadline, and the last two starts to each other.

**ConsoleProofs** (any address space, devices, contexts, sizes of fixed part and
banks, and bytes in the bank register; `BusAssumption`, `WramAssumption`,
`ConsoleAssumption`). First the bus alone: owners, prefixes and accepted ranges. The
invariant says that a device owns only cells of its own range and that they are a
gapless beginning of it; a registration that succeeds found every cell free, so it
owns them all afterwards. `BusInit` is four registrations and is proved by the
one-registration lemma. `ConsoleKeepsBus` says that the composition only takes Bus's
steps on the table, so that those theorems hold of it. From there a work RAM address
that resolves to the device is inside its range, its local address inside the
window, and its cell inside the array. `WindowFits` is about division:
`(bank % count) * size + offset` is below `count * size`, and equal only for equal
banks and offsets. `DefaultsInPlace` is about the dropped error: until the first `km8_init` no cell names
a default device, so the cell that stops it is an embedder's, or one of a default
device registered just before, which `ConsoleAssumption` (their ranges do not
overlap) excludes; and what is in the way stays in the way. `WritesSeen` and the refinement `ArraysAreBanks` follow: every
step of the console is a step of BankedMemory, or changes nothing it shows.

The last part of the module is about the loader (any images, any number of loads, any
failures; `CartridgeAssumption`): the invariant adds that the cartridges held come
from different loads, so that what one frees is no other's block.

**FrontendProofs** (each driver, any number of events, any sizes of frame and
windows; the assumptions of Frontend and Platform): the invariant says, for each
place in `main()`, which resources are held, which driver's window is there, that
the image has the size it was made for, where Windows may call back and where the
`hwnd` field is set. The last two are different sets of places: Windows has the
window before `CreateWindowExW` has returned it, and the memory outlives both.
`HandlesStayAlive` follows, because at all of them the memory is there. `ScalesFrame`
and `MemViewFits` are about the integer divisions of Pixels.

**KasmProofs** (every project: any number of files, lines and words;
`KasmAssumption`). The parser keeps one builder and one list of statements for all
files and forgets the lines, so what it has done must be read off the tokens that
are left. The invariant, `KasmInv`, says: the tokens left are the last of the file,
unchanged (`TokensInv`); the statement in the builder is the words of one line that
have been read, in order, and means what they mean so far (`HalfInv`); the
statements submitted are, by rank, the lines of the files before and the lines of
this one that have ended (`Full`), all of which were well formed; and `line` is the
number of those that are not empty. A terminator turns the words read into a whole
line, and the file's last one makes the program longer by the file. At an error the
word that throws is the first of the first bad line: every line before has ended
and was good. `SymbolInv` relates the symbols to the statements, the unfinished one
with them: a name is added in the step that makes the builder a label, and a label
that is there already ends the program in the same step.

`EncodingsAreTheTable` has no state to argue about but 62 rows: every instruction is
the row of its opcode (`InstructionsAreRows`), and the operands, with the first
opcode of the mnemonic, give the opcode back (`OperandsTell`).

Model-checked only: the liveness properties (`BootHandsOff`, `InstructionsEnd`,
`CloseEnds`), which need fairness and ENABLED. Every invariant and action property of
the passing runs is a theorem. The violations are TLC's counterexamples.

## 5. What is not modelled, and why

- The colours of pixels (`fill_black`, the hues of `fill_mem_view`) and the drawing
  that Windows does from the frame (`StretchDIBits`): no state but pixels changes.
  Where a pixel is drawn and read from is in Pixels.
- The texts printed and the characters of words: the assembler's words are known
  by the expressions that accept them, after tabs were removed.
- `km8_step_instructions`, `_lines`, `_frames`: empty bodies.
- `instr_len`, `instr_pos`, the cartridge title: never read.
- VRAM, OAM, I/O and HRAM: named in `bus.h`, but no device is registered there;
  `Memory` gives them what the bus gives an address without a device.
- The resolver of Kasm: `Assemble` does not call it, nothing advances its address, and
  it emits nothing. There is no behaviour to be right or wrong yet. Nothing sets
  `Statement.SourceLine`, or reads it.
- More than one cartridge RAM or ROM bank selected at run time: `rom.c:6` and its like in
  `ram.c` are static bank registers that nothing writes.
- `nanosleep` interrupted by a signal: the program installs no handler.

## 6. Plan

Done in this order: arithmetic, CPU, its properties and proofs, Isa and the
refinement, call frames, bus, work RAM, loader, pacing, front end with X11; then the
Win32 and stub drivers, pixels and file reading, the proofs about the front end,
the composition of bus and work RAM under several contexts with its refinement as a
theorem, the proofs about the loader, and the assembler; then the proofs about
return addresses, the flags, the refinement of Isa, and the assembler.

Next, in order of importance:

1. *Machine*: Cpu over the dispatch table of Console in place of the fixed map, to
   check what a dropped `km8_bus_init` error does to a program.
2. *The assembler's resolver*, when it is written: that addresses of labels are those
   of the statements behind them, and that what is emitted is what `Cpu` fetches.
3. *The smaller disagreements* of section 3 as runs of their own.
