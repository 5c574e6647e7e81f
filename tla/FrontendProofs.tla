--------------------------- MODULE FrontendProofs ---------------------------
(***************************************************************************)
(* That the front end releases what it holds on every path, that the X11   *)
(* driver has one image of the right size, and that neither Windows nor    *)
(* main() uses a window of the other's that is gone, for any driver, any   *)
(* sizes of the window and the frame, and any number of events.            *)
(***************************************************************************)
EXTENDS Frontend, TLAPS

Starting == {"platform_init", "select_rom", "fopen", "ftell", "malloc", "fread",
             "load", "window_create"}
Shown == {"frame_buffer", "loop", "poll", "step", "present", "halt_check", "left",
          "wait_key", "free_frame", "destroy"}
Making == {"create_hwnd", "hwnd_created"}
Undoing == {"destroying", "free_window"}
Points == Starting \cup Making \cup Shown \cup Undoing
            \cup {"shutdown", "free", "exit", "killed"}

\* What main() may hold at each point.
HeapAt(p) ==
  CASE p \in {"platform_init", "select_rom"} -> {}
    [] p = "fopen" -> {"rom_path"}
    [] p \in {"ftell", "malloc"} -> {"rom_path", "file"}
    [] p = "fread" -> {"rom_path", "file", "rom_bytes"}
    [] p = "load" -> {"rom_path", "rom_bytes"}
    [] p \in Making \cup Undoing \cup
             {"window_create", "frame_buffer", "destroy", "shutdown", "free"} ->
         {"rom_path", "cartridge"}
    [] p = "exit" -> {"cartridge"}
    [] OTHER -> {"rom_path", "cartridge", "frame_buffer"}

HeapInv ==
  /\ heap \subseteq HeapAt(at)
  /\ at = "exit" /\ status = "SUCCESS" => heap = {}

Types ==
  /\ at \in Points
  /\ driver \in {"x11", "win32", "stub"}
  /\ queue \in Seq(Events \cup Messages)
  /\ imageBlocks \in Nat

\* Each driver leaves the others' state alone, and has what it should have at
\* each point of main().
Platformed == at \notin {"platform_init", "free", "exit", "killed"}

X11Inv ==
  /\ at \notin Making \cup Undoing
  /\ window \in X11Windows \cup {NULL}
  /\ gDisplay \in BOOLEAN
  /\ Platformed => gDisplay
  /\ at \in {"platform_init", "free", "exit"} => ~gDisplay
  /\ gActiveWindow => window # NULL
  /\ system = {}
  /\ imageBlocks = IF window # NULL /\ window.image # NULL THEN 1 ELSE 0
  /\ at = "halt_check" => window.image \in {NULL, window.display}

\* Where Windows may call the window procedure, and where the hwnd field is set.
Callable == {"hwnd_created", "destroying"} \cup Shown
HwndSet == {"destroying"} \cup Shown

Win32Inv ==
  /\ at # "killed" /\ ~doomed
  /\ window \in Win32Windows \cup {NULL}
  /\ window # NULL => (window.hwnd <=> at \in HwndSet)
  /\ gWindowClass \in BOOLEAN
  /\ Platformed => gWindowClass
  /\ at \in {"platform_init", "free", "exit"} => ~gWindowClass
  /\ system = (IF gWindowClass THEN {"class"} ELSE {})
                \cup (IF at \in Callable THEN {"hwnd"} ELSE {})
  /\ ~gDisplay /\ imageBlocks = 0

StubInv ==
  /\ at \in {"platform_init", "exit"}
  /\ window = NULL /\ ~gDisplay /\ system = {} /\ imageBlocks = 0

DriverInv ==
  /\ driver = "x11" => X11Inv
  /\ driver = "win32" => Win32Inv
  /\ driver = "stub" => StubInv

WindowInv ==
  /\ at \in Making \cup Shown \cup Undoing => window # NULL
  /\ at \in Starting \cup {"shutdown", "free", "exit"} => window = NULL

Inv == Types /\ HeapInv /\ DriverInv /\ WindowInv

-----------------------------------------------------------------------------
LEMMA InitInv == Init => Inv
<1> SUFFICES ASSUME Init PROVE Inv
  OBVIOUS
<1> USE DEF Init, InitPlatformVars, InitX11, InitWin32
<1>1. Types
  BY DEF Types, Points, Starting
<1>2. HeapInv
  BY DEF HeapInv, HeapAt
<1>3. DriverInv
  BY DEF DriverInv, X11Inv, Win32Inv, StubInv, Platformed, Shown, Making, Undoing, Callable,
     HwndSet
<1>4. WindowInv
  BY DEF WindowInv, Shown, Starting, Making, Undoing
<1> QED
  BY <1>1, <1>2, <1>3, <1>4 DEF Inv

\* Steps of main() that leave the window layer alone: what the drivers are in
\* depends on the part of main(), not on the point in it.
SamePart(p, q) ==
  \/ {p, q} \subseteq (Starting \ {"platform_init"}) \cup {"shutdown"}
  \/ {p, q} \subseteq Shown /\ q # "halt_check"
  \/ p = "free" /\ q = "exit"
  \/ p \in Shown \cup {"shutdown"} /\ q = "killed" /\ doomed

LEMMA QuietKeeps ==
  ASSUME Inv, UNCHANGED windowLayer, SamePart(at, at')
  PROVE  Types' /\ DriverInv' /\ WindowInv'
<1> USE DEF windowLayer, platformVars, x11Vars, win32Vars, SamePart, Shown, Starting,
           Making, Undoing
<1>1. Types'
  BY DEF Inv, Types, Points
<1>2. X11Inv /\ driver = "x11" => X11Inv'
  BY DEF X11Inv, Platformed
<1>3. Win32Inv /\ driver = "win32" => Win32Inv'
  BY DEF Win32Inv, Platformed, Callable, HwndSet
<1>4. StubInv /\ driver = "stub" => StubInv'
  BY DEF StubInv
<1>5. WindowInv'
  BY DEF Inv, WindowInv
<1> QED
  BY <1>1, <1>2, <1>3, <1>4, <1>5 DEF Inv, DriverInv

\* The steps of main() between the calls to the driver.
MainStep ==
  \/ SelectRom \/ OpenFile \/ MeasureFile \/ AllocBytes \/ ReadFile \/ Load
  \/ AllocFrame \/ CheckClose \/ PollDone \/ StepConsole \/ HaltCheck
  \/ Leave \/ KeyPressed \/ FreeFrame \/ Free \/ Killed

LEMMA MainStepKeeps == ASSUME Inv, MainStep PROVE Inv'
<1> USE DEF MainStep, Fail
<1>1. UNCHANGED windowLayer /\ SamePart(at, at')
  BY DEF SamePart, Shown, Starting, SelectRom, OpenFile, MeasureFile, AllocBytes,
     ReadFile, Load, AllocFrame, CheckClose, PollDone, StepConsole, HaltCheck,
     Leave, KeyPressed, FreeFrame, Free, Killed
<1>2. HeapInv'
  <2> USE DEF Inv, HeapInv, HeapAt, Making, Undoing
  <2>0. CASE SelectRom
    <3>1. heap' \subseteq {"rom_path"} /\ at' \in {"fopen", "shutdown"}
      BY <2>0 DEF SelectRom, OpenRomDialog, Fail
    <3> QED
      BY <3>1
  <2>1. CASE OpenFile \/ MeasureFile \/ AllocBytes \/ ReadFile \/ Load
    BY <2>1 DEF OpenFile, MeasureFile, AllocBytes, ReadFile, Load
  <2>2. CASE AllocFrame \/ CheckClose \/ PollDone \/ StepConsole \/ HaltCheck
    BY <2>2 DEF AllocFrame, CheckClose, PollDone, StepConsole, HaltCheck
  <2>3. CASE Leave \/ KeyPressed \/ FreeFrame \/ Free
    BY <2>3 DEF Leave, KeyPressed, FreeFrame, Free
  <2>4. CASE Killed
    BY <2>4 DEF Killed
  <2> QED
    BY <2>0, <2>1, <2>2, <2>3, <2>4
<1> QED
  BY <1>1, <1>2, QuietKeeps DEF Inv

-----------------------------------------------------------------------------
\* The calls to the driver.  HeapInv does not depend on what the driver does.
LEMMA CallsKeepHeap ==
  ASSUME Inv,
         \/ InitPlatform \/ MakeWindow \/ CreateHwnd \/ ReturnHwnd
         \/ PollEvent \/ PresentFrame \/ SentMessage
         \/ Destroy \/ DestroyReturns \/ FreeWindowMemory \/ Shutdown
  PROVE  HeapInv' /\ at' \in Points
<1> USE DEF Inv, HeapInv, HeapAt, Points, Starting, Shown, Making, Undoing, Fail, Types
<1>1. CASE InitPlatform \/ MakeWindow \/ CreateHwnd \/ ReturnHwnd
  BY <1>1 DEF InitPlatform, MakeWindow, CreateHwnd, ReturnHwnd
<1>2. CASE PollEvent \/ PresentFrame \/ SentMessage
  BY <1>2 DEF PollEvent, PresentFrame, SentMessage, mainVars
<1>3. CASE Destroy \/ DestroyReturns \/ FreeWindowMemory \/ Shutdown
  BY <1>3 DEF Destroy, DestroyReturns, FreeWindowMemory, Shutdown
<1> QED
  BY <1>1, <1>2, <1>3

LEMMA InitPlatformKeeps == ASSUME Inv, InitPlatform PROVE Inv'
<1>1. PICK ok \in BOOLEAN :
        /\ Call(OpenDisplay(ok), InitClass(ok), ~ok /\ StubDoesNothing)
        /\ IF ok THEN at' = "select_rom" /\ UNCHANGED status ELSE Fail("exit")
  BY DEF InitPlatform
<1> USE <1>1 DEF Inv, Call, InitPlatform, Fail
<1>2. CASE driver = "x11"
  BY <1>2, CallsKeepHeap DEF OpenDisplay, Types, DriverInv, X11Inv, WindowInv, Platformed,
     platformVars, win32Vars, Shown, Starting, Making, Undoing
<1>3. CASE driver = "win32"
  BY <1>3, CallsKeepHeap DEF InitClass, RegisterClass, Types, DriverInv, Win32Inv, WindowInv,
     Platformed, platformVars, x11Vars, Shown, Starting, Making, Undoing,
     Callable, HwndSet
<1>4. CASE driver = "stub"
  BY <1>4, CallsKeepHeap DEF StubDoesNothing, Types, DriverInv, StubInv, WindowInv,
     platformVars, x11Vars, win32Vars, Shown, Starting, Making, Undoing
<1> QED
  BY <1>2, <1>3, <1>4 DEF Types

LEMMA MakeWindowKeeps == ASSUME Inv, MakeWindow PROVE Inv'
<1>1. PICK ok \in BOOLEAN : Call(CreateWindow(ok), AllocWindow(ok), StubDoesNothing)
  BY DEF MakeWindow
<1>2. at = "window_create" /\ window = NULL
  BY DEF MakeWindow, Inv, WindowInv, Starting
<1>3. at' = IF window' = NULL THEN "shutdown"
            ELSE IF driver = "win32" THEN "create_hwnd" ELSE "frame_buffer"
  BY DEF MakeWindow, Fail
<1> USE <1>1, <1>2, <1>3 DEF Inv, Call
<1>4. CASE driver = "x11"
  <2>1. [should_close |-> FALSE, display |-> WindowSize, image |-> NULL] \in X11Windows
    BY X11Assumption DEF X11Windows
  <2> QED
    <3>1. X11Inv /\ CreateWindow(ok) /\ UNCHANGED win32Vars
      BY <1>4 DEF DriverInv
    <3>2. X11Inv'
      <4>1. CASE window' = NULL
        BY <2>1, <3>1, <4>1, X11Assumption DEF CreateWindow, X11Inv, Platformed, win32Vars,
           Making, Undoing
      <4>2. CASE window' # NULL
        <5>1. window' = [should_close |-> FALSE, display |-> WindowSize, image |-> NULL]
          BY <3>1, <4>2 DEF CreateWindow
        <5>2. window'.image = NULL
          BY <5>1
        <5> QED
          BY <1>4, <2>1, <3>1, <4>2, <5>1, <5>2 DEF CreateWindow, X11Inv, Platformed, win32Vars,
             Making, Undoing
      <4> QED
        BY <4>1, <4>2
    <3> QED
      BY <1>4, <2>1, <3>1, <3>2, X11Assumption, CallsKeepHeap DEF CreateWindow, Types,
         DriverInv, WindowInv, Shown, Starting, Making, Undoing
<1>5. CASE driver = "win32"
  <2>1. [should_close |-> FALSE, hwnd |-> FALSE] \in Win32Windows
    BY DEF Win32Windows
  <2>2. Win32Inv /\ AllocWindow(ok) /\ UNCHANGED x11Vars
    BY <1>5 DEF DriverInv
  <2>3. Win32Inv'
    BY <2>1, <2>2, <1>5, Win32Assumption DEF AllocWindow, Win32Inv, Platformed, win32Vars,
       x11Vars, Shown, Callable, HwndSet
  <2> QED
    BY <1>5, <2>1, <2>2, <2>3, Win32Assumption, CallsKeepHeap DEF AllocWindow, Types,
       DriverInv, WindowInv, x11Vars, Shown, Starting, Making, Undoing
<1>6. CASE driver = "stub"
  BY <1>6 DEF DriverInv, StubInv
<1> QED
  BY <1>4, <1>5, <1>6 DEF Types

\* A "configure" event carries a size.
LEMMA ConfigureSize ==
  ASSUME NEW event \in Events \cup Messages, event[1] = "configure"
  PROVE  event[2] \in Sizes
  BY DEF Events, Messages

LEMMA PollEventKeeps == ASSUME Inv, PollEvent PROVE Inv'
<1> USE DEF Inv, PollEvent, Call
<1>1. at = "poll" /\ at' = "poll" /\ window # NULL
  BY DEF mainVars, WindowInv, Shown
<1>2. ASSUME queue # << >>
      PROVE  Head(queue) \in Events \cup Messages /\ Tail(queue) \in Seq(Events \cup Messages)
  BY <1>2 DEF Types
<1>3. CASE driver = "x11"
  <2>1. HandleEvent /\ UNCHANGED win32Vars /\ X11Inv /\ window \in X11Windows
    BY <1>1, <1>3 DEF DriverInv, X11Inv
  <2>2. window' \in X11Windows /\ window'.image = window.image
    BY <2>1, <1>2, ConfigureSize DEF HandleEvent, X11Windows
  <2>3. window' # NULL
    BY <2>2, X11Assumption
  <2>4. X11Inv'
    BY <1>1, <1>3, <2>1, <2>2, <2>3 DEF HandleEvent, X11Inv, Platformed, win32Vars,
       Making, Undoing
  <2> QED
    BY <1>1, <1>2, <1>3, <2>1, <2>3, <2>4, CallsKeepHeap DEF HandleEvent, Types, DriverInv,
       WindowInv, Shown, Starting, Making, Undoing
<1>4. CASE driver = "win32"
  <2>1. Dispatch /\ UNCHANGED x11Vars /\ Win32Inv /\ window \in Win32Windows
    BY <1>1, <1>4 DEF DriverInv, Win32Inv
  <2>2. window' \in Win32Windows /\ window'.hwnd = window.hwnd
    BY <2>1 DEF Dispatch, Win32Windows
  <2>3. window' # NULL
    BY <2>2, Win32Assumption
  <2>4. Win32Inv'
    BY <1>1, <2>1, <2>2, <2>3 DEF Dispatch, Win32Inv, Platformed, x11Vars, Shown, Callable,
       HwndSet
  <2> QED
    BY <1>1, <1>2, <1>4, <2>1, <2>3, <2>4, CallsKeepHeap DEF Dispatch, Types, DriverInv,
       WindowInv, Shown, Starting, Making, Undoing,
       Callable, HwndSet, x11Vars
<1> QED
  BY <1>1, <1>3, <1>4 DEF Types

LEMMA PresentFrameKeeps == ASSUME Inv, PresentFrame PROVE Inv'
<1>1. PICK ok \in BOOLEAN : Call(Present(ok), Stretch, StubDoesNothing)
  BY DEF PresentFrame
<1>2. at = "present" /\ at' = "halt_check" /\ window # NULL
  BY DEF PresentFrame, Inv, WindowInv, Shown
<1> USE <1>1, <1>2 DEF Inv, Call
<1>3. CASE driver = "x11"
  <2>1. Present(ok) /\ UNCHANGED win32Vars /\ X11Inv /\ window \in X11Windows
    BY <1>3 DEF DriverInv, X11Inv
  <2>2. window' \in X11Windows /\ window'.image \in {NULL, window'.display}
    BY <2>1 DEF Present, WithoutImage, X11Windows
  <2>3. window' # NULL
    BY <2>2, X11Assumption
  <2>4. window.display # NULL
    BY <2>1, X11Assumption DEF X11Windows
  <2>5. imageBlocks' = IF window'.image # NULL THEN 1 ELSE 0
    BY <2>1, <2>4 DEF Present, WithoutImage, BlocksWithoutImage, X11Inv, X11Windows
  <2>6. X11Inv'
    BY <2>1, <2>2, <2>3, <2>5 DEF Present, X11Inv, Platformed, win32Vars,
       Making, Undoing
  <2> QED
    BY <1>3, <2>1, <2>3, <2>5, <2>6, CallsKeepHeap DEF Present, Types, DriverInv,
       WindowInv, Shown, Starting, Making, Undoing
<1>4. CASE driver = "win32"
  BY <1>4, CallsKeepHeap DEF Stretch, Types, DriverInv, Win32Inv, WindowInv,
     Platformed, platformVars, win32Vars, x11Vars, Shown, Starting, Making, Undoing,
     Callable, HwndSet
<1>5. CASE driver = "stub"
  BY <1>5 DEF DriverInv, StubInv
<1> QED
  BY <1>3, <1>4, <1>5 DEF Types

LEMMA DestroyKeeps == ASSUME Inv, Destroy PROVE Inv'
<1>1. /\ at = "destroy" /\ window # NULL
      /\ at' = IF driver = "win32" THEN "destroying" ELSE "shutdown"
      /\ Call(DestroyWindow, DestroyCalled, StubDoesNothing)
  BY DEF Destroy, Inv, WindowInv, Shown
<1> USE <1>1 DEF Inv, Call
<1>2. CASE driver = "x11"
  <2>1. X11Inv /\ DestroyWindow /\ UNCHANGED win32Vars /\ gDisplay
    BY <1>2 DEF DriverInv, X11Inv, Platformed
  <2>2. window' = NULL /\ imageBlocks' = 0
    BY <2>1 DEF DestroyWindow, BlocksWithoutImage, X11Inv
  <2>3. X11Inv'
    BY <1>2, <2>1, <2>2 DEF DestroyWindow, X11Inv, Platformed, win32Vars,
       Making, Undoing
  <2> QED
    BY <1>2, <2>1, <2>2, <2>3, CallsKeepHeap DEF DestroyWindow, Types, DriverInv,
       WindowInv, Shown, Starting, Making, Undoing
<1>3. CASE driver = "win32"
  <2>1. <<"quit">> \in Events \cup Messages
    BY DEF Messages
  <2>2. Win32Inv /\ DestroyCalled /\ UNCHANGED x11Vars
    BY <1>3 DEF DriverInv
  <2>3. queue' \in Seq(Events \cup Messages)
    BY <2>1, <2>2 DEF DestroyCalled, Types
  <2>4. Win32Inv'
    BY <1>3, <2>2 DEF DestroyCalled, Win32Inv, Platformed, win32Vars, x11Vars, Shown, Callable,
       HwndSet
  <2> QED
    BY <1>3, <2>2, <2>3, <2>4, CallsKeepHeap DEF DestroyCalled, Types, DriverInv, WindowInv,
       x11Vars, Shown, Starting, Making, Undoing
<1>4. CASE driver = "stub"
  BY <1>4 DEF DriverInv, StubInv
<1> QED
  BY <1>2, <1>3, <1>4 DEF Types

\* The steps of main() on Windows only, inside the making and the destroying of
\* the window; and what Windows lets other programs do to it meanwhile.
HwndStep ==
  \/ CreateHwnd \/ ReturnHwnd \/ DestroyReturns \/ FreeWindowMemory \/ SentMessage

LEMMA HwndStepKeeps == ASSUME Inv, HwndStep PROVE Inv'
<1> USE DEF Inv, Call
<1>1. /\ driver = "win32" /\ driver' = "win32"
      /\ Win32Inv /\ window \in Win32Windows /\ window # NULL /\ gWindowClass
      /\ UNCHANGED x11Vars
  <2>1. driver # "x11"
    BY DEF HwndStep, CreateHwnd, ReturnHwnd, DestroyReturns, FreeWindowMemory, SentMessage
  <2>2. driver # "stub"
    BY DEF HwndStep, CreateHwnd, ReturnHwnd, DestroyReturns, FreeWindowMemory, SentMessage,
       DriverInv, StubInv
  <2>3. at \in Making \cup Shown \cup Undoing
    BY DEF HwndStep, CreateHwnd, ReturnHwnd, DestroyReturns, FreeWindowMemory, SentMessage,
       Making, Shown, Undoing
  <2>4. driver = "win32"
    BY <2>1, <2>2 DEF Types
  <2> QED
    BY <2>3, <2>4 DEF HwndStep, CreateHwnd, ReturnHwnd, DestroyReturns, FreeWindowMemory,
       SentMessage, DriverInv, Win32Inv, WindowInv, Platformed, Making, Shown, Undoing
<1>2. HeapInv' /\ at' \in Points
  BY CallsKeepHeap DEF HwndStep
<1>3. /\ window' \in Win32Windows \cup {NULL}
      /\ queue' = queue /\ gWindowClass' = gWindowClass
      /\ at' \in Making \cup Shown \cup Undoing => window' # NULL
      /\ at' \in Starting \cup {"shutdown", "free", "exit"} => window' = NULL
      /\ window' # NULL => (window'.hwnd <=> at' \in HwndSet)
      /\ system' = (IF gWindowClass THEN {"class"} ELSE {})
                     \cup (IF at' \in Callable THEN {"hwnd"} ELSE {})
      /\ at' \in Points \ {"platform_init", "free", "exit", "killed"}
  <2> USE <1>1, Win32Assumption
          DEF Win32Inv, Win32Windows, Points, Starting, Making, Shown, Undoing, Callable, HwndSet
  <2>1. CASE CreateHwnd
    <3>1. at = "create_hwnd"
      BY <2>1 DEF CreateHwnd
    <3>2. CASE HwndCreated /\ at' = "hwnd_created"
      <4>1. window' = window /\ queue' = queue /\ gWindowClass' = gWindowClass
        BY <3>2 DEF HwndCreated, platformVars
      <4>2. ~window.hwnd /\ system' = {"class", "hwnd"}
        BY <3>1, <3>2 DEF HwndCreated
      <4> QED
        BY <3>2, <4>1, <4>2
    <3>3. CASE HwndFailed /\ at' = "shutdown"
      BY <3>1, <3>3 DEF HwndFailed
    <3> QED
      BY <2>1, <3>2, <3>3 DEF CreateHwnd, Fail
  <2>2. CASE ReturnHwnd
    <3>1. at = "hwnd_created"
      BY <2>2 DEF ReturnHwnd
    <3>2. CASE HwndReturned /\ at' = "frame_buffer"
      <4>1. window' \in Win32Windows /\ window'.hwnd /\ window' # NULL
        BY <3>2 DEF HwndReturned
      <4> QED
        BY <3>1, <3>2, <4>1 DEF HwndReturned, win32Vars
    <3>3. CASE HwndFailed /\ at' = "shutdown"
      BY <3>1, <3>3 DEF HwndFailed
    <3> QED
      BY <2>2, <3>2, <3>3 DEF ReturnHwnd, Fail
  <2>3. CASE DestroyReturns
    BY <2>3 DEF DestroyReturns, HwndDestroyed
  <2>4. CASE FreeWindowMemory
    BY <2>4 DEF FreeWindowMemory, FreeWindow, win32Vars
  <2>5. CASE SentMessage
    BY <2>5 DEF SentMessage, SendClose, mainVars, win32Vars
  <2> QED
    BY <2>1, <2>2, <2>3, <2>4, <2>5 DEF HwndStep
<1>4. Win32Inv'
  BY <1>1, <1>3 DEF Win32Inv, Platformed, x11Vars
<1> QED
  BY <1>1, <1>2, <1>3, <1>4 DEF Types, DriverInv, WindowInv, x11Vars

LEMMA ShutdownKeeps == ASSUME Inv, Shutdown PROVE Inv'
<1>1. at = "shutdown" /\ at' = "free" /\ window = NULL
      /\ Call(CloseDisplay, UnregisterClass, StubDoesNothing)
  BY DEF Shutdown, Inv, WindowInv
<1> USE <1>1 DEF Inv, Call
<1>2. CASE driver = "x11"
  <2>1. << >> \in Seq(Events \cup Messages)
    OBVIOUS
  <2>2. X11Inv /\ CloseDisplay /\ UNCHANGED win32Vars
    BY <1>2 DEF DriverInv
  <2>3. X11Inv'
    BY <2>2 DEF CloseDisplay, X11Inv, Platformed, win32Vars,
       Making, Undoing
  <2> QED
    BY <1>2, <2>1, <2>2, <2>3, CallsKeepHeap DEF CloseDisplay, Types, DriverInv, WindowInv,
       Shown, Starting, Making, Undoing
<1>3. CASE driver = "win32"
  BY <1>3, CallsKeepHeap DEF UnregisterClass, Types, DriverInv, Win32Inv, WindowInv,
     Platformed, platformVars, x11Vars, Shown, Starting, Making, Undoing,
     Callable, HwndSet
<1>4. CASE driver = "stub"
  BY <1>4 DEF DriverInv, StubInv
<1> QED
  BY <1>2, <1>3, <1>4 DEF Types

\* What comes from outside touches the queue and the server only.
LEMMA EnvironmentKeeps ==
  ASSUME Inv, ServerEvent \/ PostedMessage \/ ButtonReleased
  PROVE  Inv'
<1> USE DEF Inv
<1>1. UNCHANGED <<driver, mainVars, window, gDisplay, gActiveWindow, imageBlocks,
                  gWindowClass, system, doomed>>
  BY DEF ServerEvent, PostedMessage, ButtonReleased, Arrive, Post, EndDrag, platformVars,
     x11Vars, win32Vars
<1>2. queue' \in Seq(Events \cup Messages)
  <2>1. CASE ServerEvent
    BY <2>1 DEF ServerEvent, Arrive, Types
  <2>2. CASE PostedMessage
    BY <2>2 DEF PostedMessage, Post, Types
  <2>3. CASE ButtonReleased
    BY <2>3 DEF ButtonReleased, EndDrag, platformVars, Types
  <2> QED
    BY <2>1, <2>2, <2>3
<1>3. Types' /\ HeapInv' /\ WindowInv'
  BY <1>1, <1>2 DEF Types, HeapInv, HeapAt, WindowInv, mainVars
<1>4. DriverInv'
  BY <1>1 DEF DriverInv, X11Inv, Win32Inv, StubInv, Platformed, mainVars
<1> QED
  BY <1>3, <1>4

LEMMA StutterKeeps == ASSUME Inv, UNCHANGED vars PROVE Inv'
  BY DEF vars, mainVars, windowLayer, platformVars, x11Vars, win32Vars, Inv, Types, HeapInv,
     HeapAt, DriverInv, WindowInv, X11Inv, Win32Inv, StubInv, Platformed

(***************************************************************************)
(* The invariant holds in every state of the front end.                    *)
(***************************************************************************)
THEOREM Invariance == Spec => []Inv
<1>1. Inv /\ [Next]_vars => Inv'
  BY MainStepKeeps, InitPlatformKeeps, MakeWindowKeeps, PollEventKeeps, PresentFrameKeeps,
     DestroyKeeps, HwndStepKeeps, ShutdownKeeps, EnvironmentKeeps, StutterKeeps
     DEF Next, Startup, Loop, Teardown, Environment, MainStep, HwndStep
<1> QED
  BY <1>1, InitInv, PTL DEF Spec

(***************************************************************************)
(* However main() returns, with whatever driver, it has given back what it *)
(* held, but for the cartridge on two failing paths.                       *)
(***************************************************************************)
THEOREM Releases == Spec => []ExitReleases
<1>1. Inv => ExitReleases
  BY DEF Inv, Types, HeapInv, HeapAt, DriverInv, X11Inv, Win32Inv, StubInv, WindowInv,
     Shown, Callable, ExitReleases
<1> QED
  BY <1>1, Invariance, PTL

(***************************************************************************)
(* There is one block of pixels while the window has an image, and none    *)
(* otherwise.                                                              *)
(***************************************************************************)
THEOREM KeepsOneImage == Spec => []OneImage
<1>1. Inv => OneImage
  BY DEF Inv, Types, DriverInv, X11Inv, Win32Inv, StubInv, OneImage, HasImage
<1> QED
  BY <1>1, Invariance, PTL

(***************************************************************************)
(* The image a frame is scaled into has the size the loops run over.       *)
(***************************************************************************)
THEOREM ImageHasSize == Spec => []ImageFits
<1>1. Inv => ImageFits
  BY DEF Inv, DriverInv, X11Inv, ImageFits, HasImage
<1> QED
  BY <1>1, Invariance, PTL

(***************************************************************************)
(* The window procedure is never called with memory that was freed, and    *)
(* main() never draws to a window that was destroyed.                      *)
(***************************************************************************)
THEOREM HandlesStayAlive == Spec => []HandlesAlive
<1>1. Inv => HandlesAlive
  BY DEF Inv, Types, DriverInv, X11Inv, Win32Inv, StubInv, WindowInv, Making, Shown,
     Undoing, Callable, HwndSet, HandlesAlive
<1> QED
  BY <1>1, Invariance, PTL

-----------------------------------------------------------------------------
\* Quotients: n = (n \div d) * d + n % d, with 0 <= n % d < d.
LEMMA Quotient ==
  ASSUME NEW n \in Nat, NEW d \in Nat \ {0}, NEW q \in Nat,
         q * d <= n, n < (q + 1) * d
  PROVE  n \div d = q
  OBVIOUS

LEMMA QuotientBounds ==
  ASSUME NEW n \in Nat, NEW d \in Nat \ {0}
  PROVE  n \div d \in Nat /\ (n \div d) * d <= n /\ n < ((n \div d) + 1) * d
  OBVIOUS

LEMMA QuotientMonotone ==
  ASSUME NEW m \in Nat, NEW n \in Nat, m <= n, NEW d \in Nat \ {0}
  PROVE  m \div d <= n \div d
<1> DEFINE p == m \div d
           q == n \div d
<1>1. p \in Nat /\ q \in Nat /\ p * d <= m /\ n < (q + 1) * d
  BY QuotientBounds
<1> HIDE DEF p, q
<1>2. p * d < (q + 1) * d
  BY <1>1
<1>3. p < q + 1
  BY <1>1, <1>2
<1> QED
  BY <1>1, <1>3 DEF p, q

LEMMA ScalesWhole ==
  ASSUME NEW from \in Nat \ {0}, NEW to \in Nat \ {0}
  PROVE  ScaledWhole(from, to)
<1>1. \A i \in Nat : (i * from) \div to \in Nat
  BY QuotientBounds
<1>2. ASSUME NEW i \in 0..(to - 1)
      PROVE  Source(i, from, to) \in 0..(from - 1)
  BY <1>1 DEF Source
<1>3. ASSUME NEW i \in 0..(to - 1), NEW j \in 0..(to - 1), i <= j
      PROVE  Source(i, from, to) <= Source(j, from, to)
  <2>1. i * from \in Nat /\ j * from \in Nat /\ i * from <= j * from
    BY <1>3
  <2>2. (i * from) \div to <= (j * from) \div to
    BY <2>1, QuotientMonotone
  <2>3. (i * from) \div to \in Nat /\ (j * from) \div to \in Nat
    BY <1>1
  <2> QED
    BY <2>2, <2>3 DEF Source
<1>4. ASSUME to >= from, NEW s \in 0..(from - 1)
      PROVE  \E i \in 0..(to - 1) : Source(i, from, to) = s
  <2> DEFINE n == s * to + (from - 1)
             i == n \div from       \* the least with i * from >= s * to
  <2>1. n \in Nat
    OBVIOUS
  <2>2. i \in Nat /\ i * from <= n /\ n < (i + 1) * from
    BY <2>1, QuotientBounds
  <2> HIDE DEF i
  <2>3. s * to <= i * from /\ i * from < (s + 1) * to
    BY <1>4, <2>2
  <2>4. (i * from) \div to = s
    BY <2>2, <2>3, Quotient
  <2>5. (s + 1) * to <= from * to
    OBVIOUS
  <2>6. i * from < to * from
    BY <2>2, <2>3, <2>5
  <2>7. i < to
    BY <2>2, <2>6
  <2>8. Source(i, from, to) = s
    BY <2>4 DEF Source
  <2> QED
    BY <2>2, <2>7, <2>8
<1> QED
  BY <1>2, <1>3, <1>4 DEF ScaledWhole

(***************************************************************************)
(* Whatever size the window gets, the frame is scaled to it without a read *)
(* outside it, and without a gap if the window is large enough.            *)
(***************************************************************************)
THEOREM ScalesFrame == Spec => []WholeFrameShown
<1>1. ASSUME Inv, HasImage, NEW axis \in {1, 2}
      PROVE  ScaledWhole(Frame[axis], window.image[axis])
  <2>1. window.image \in Sizes
    BY <1>1 DEF Inv, DriverInv, X11Inv, HasImage, X11Windows
  <2>2. Frame[axis] \in Nat \ {0} /\ window.image[axis] \in Nat \ {0}
    BY <2>1, X11Assumption
  <2> QED
    BY <2>2, ScalesWhole
<1>2. Inv => WholeFrameShown
  BY <1>1 DEF WholeFrameShown
<1> QED
  BY <1>2, Invariance, PTL

(***************************************************************************)
(* The memory view (fill_mem_view, main.c:54-71) writes inside the frame,  *)
(* and each register and each byte shown has a pixel of its own.           *)
(***************************************************************************)
InFrame(pixel) == pixel[1] \in 0..(KM8_FRAME[1] - 1) /\ pixel[2] \in 0..(KM8_FRAME[2] - 1)

THEOREM MemViewFits ==
  /\ \A i \in 0..(REGISTER_COUNT - 1) : InFrame(RegisterPixel(i))
  /\ \A i \in 0..(ShownWram - 1) : InFrame(WramPixel(i))
  /\ \A i, j \in 0..(REGISTER_COUNT - 1) : RegisterPixel(i) = RegisterPixel(j) => i = j
  /\ \A i, j \in 0..(ShownWram - 1) : WramPixel(i) = WramPixel(j) => i = j
  /\ \A i \in 0..(REGISTER_COUNT - 1), j \in 0..(ShownWram - 1) :
       RegisterPixel(i) # WramPixel(j)
<1>1. ASSUME NEW i \in 0..(ShownWram - 1)
      PROVE  i % 128 \in 0..127 /\ i \div 128 \in 0..63 /\ i = 128 * (i \div 128) + (i % 128)
  BY DEF ShownWram
<1>2. \A i \in 0..(ShownWram - 1) : InFrame(WramPixel(i))
  BY <1>1 DEF InFrame, WramPixel, KM8_FRAME
<1>3. \A i, j \in 0..(ShownWram - 1) : WramPixel(i) = WramPixel(j) => i = j
  <2> SUFFICES ASSUME NEW i \in 0..(ShownWram - 1), NEW j \in 0..(ShownWram - 1),
                      WramPixel(i) = WramPixel(j)
               PROVE  i = j
    OBVIOUS
  <2>1. i % 128 = j % 128 /\ i \div 128 = j \div 128
    BY <1>1 DEF WramPixel
  <2> QED
    BY <2>1, <1>1
<1>4. \A i \in 0..(REGISTER_COUNT - 1), j \in 0..(ShownWram - 1) :
        RegisterPixel(i) # WramPixel(j)
  BY <1>1 DEF RegisterPixel, WramPixel, REGISTER_COUNT
<1>5. \A i, j \in 0..(REGISTER_COUNT - 1) : RegisterPixel(i) = RegisterPixel(j) => i = j
  BY DEF RegisterPixel, REGISTER_COUNT
<1>6. \A i \in 0..(REGISTER_COUNT - 1) : InFrame(RegisterPixel(i))
  BY DEF RegisterPixel, REGISTER_COUNT, KM8_FRAME, InFrame
<1> QED
  BY <1>2, <1>3, <1>4, <1>5, <1>6
=============================================================================
