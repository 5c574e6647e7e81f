------------------------------ MODULE Platform ------------------------------
(***************************************************************************)
(* The window layer of the front end, emulator/platform/platform.h: one    *)
(* interface, of which emulator/CMakeLists.txt:5-11 builds one driver      *)
(* into the program.  What every driver has is declared here; the drivers  *)
(* are modules X11Window and Win32Window, and the stub, which can do       *)
(* nothing and is defined here.                                            *)
(***************************************************************************)
EXTENDS Naturals, Sequences

CONSTANTS
  MaxEvents,             \* bound: the events that arrive
  NULL

ASSUME PlatformAssumption == MaxEvents \in Nat

VARIABLES
  driver,                \* the one built in: "x11", "win32" or "stub"
  window,                \* the Km8PlatformWindow, or NULL
  queue,                 \* the events or messages not yet read
  arrived                \* the number of events so far

platformVars == <<window, queue, arrived>>

InitPlatformVars ==
  /\ driver \in {"x11", "win32", "stub"}
  /\ window = NULL
  /\ queue = << >> /\ arrived = 0

\* km8_platform_window_should_close, the same in the two drivers that make
\* windows.
ShouldClose == IF window = NULL THEN TRUE ELSE window.should_close

\* km8_platform_open_rom_dialog, of every driver: what it hands the caller to
\* free is a path, or nothing when there was no answer or no memory.
OpenRomDialog == {{}, {"rom_path"}}

\* Every other function of platform_stub.c; km8_platform_init answers FALSE.
StubDoesNothing == UNCHANGED platformVars
=============================================================================
