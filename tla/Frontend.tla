------------------------------ MODULE Frontend ------------------------------
(***************************************************************************)
(* The front end, main() in emulator/main.c:159-277: it acquires, one      *)
(* after another, the display, the path and the bytes of a ROM, the        *)
(* cartridge, a window and a frame buffer, any of which may fail; runs     *)
(* frames until the window is closed or the CPU halts; and gives back what *)
(* it holds.  The window is module X11Window, the clock of the loop module *)
(* Pacing, the loader module Cartridge, the machine module Cpu: here a     *)
(* ROM loads or does not, and a frame may leave the CPU halted.  The       *)
(* window layer is whichever driver the program is built with.             *)
(***************************************************************************)
EXTENDS X11Window, Win32Window

VARIABLES
  at,                    \* where main() is
  heap,                  \* what it has allocated or opened and not given back
  halted,                \* is context.cpu.state CPU_HALT?
  status                 \* what main() is to return, once it is decided

mainVars == <<at, heap, halted, status>>
windowLayer == <<driver, platformVars, x11Vars, win32Vars>>
vars == <<mainVars, windowLayer>>

Init ==
  /\ at = "platform_init"
  /\ heap = {} /\ halted = FALSE /\ status = "none"
  /\ InitPlatformVars /\ InitX11 /\ InitWin32

\* A call through platform.h reaches the driver that is built in.
Call(x11, win32, stub) ==
  /\ CASE driver = "x11" -> x11 /\ UNCHANGED win32Vars
       [] driver = "win32" -> win32 /\ UNCHANGED x11Vars
       [] driver = "stub" -> stub /\ UNCHANGED <<x11Vars, win32Vars>>
  /\ UNCHANGED driver

-----------------------------------------------------------------------------
(***************************************************************************)
(* What is acquired.  A failure releases what is held so far, in the order *)
(* "destroy", "shutdown", "free".                                          *)
(***************************************************************************)
Fail(from) == at' = from /\ status' = "FAILURE"

InitPlatform ==
  /\ at = "platform_init"
  /\ \E ok \in BOOLEAN :
       /\ Call(OpenDisplay(ok), InitClass(ok), ~ok /\ StubDoesNothing)
       /\ IF ok THEN at' = "select_rom" /\ UNCHANGED status ELSE Fail("exit")
  /\ UNCHANGED <<heap, halted>>

\* The path is an argument, or the answer to a dialog, which main() then owns.
SelectRom ==
  /\ at = "select_rom"
  /\ \/ at' = "fopen" /\ UNCHANGED <<heap, status>>
     \/ \E answer \in OpenRomDialog :
          /\ heap' = answer
          /\ IF answer # {} THEN at' = "fopen" /\ UNCHANGED status ELSE Fail("shutdown")
  /\ UNCHANGED <<halted, windowLayer>>

\* km8_read_entire_file, from fopen to fread.
OpenFile ==
  /\ at = "fopen"
  /\ \/ at' = "ftell" /\ heap' = heap \cup {"file"} /\ UNCHANGED status
     \/ Fail("shutdown") /\ UNCHANGED heap
  /\ UNCHANGED <<halted, windowLayer>>

\* Its size, for which it must be one that can be searched.
MeasureFile ==
  /\ at = "ftell"
  /\ \/ at' = "malloc" /\ UNCHANGED <<heap, status>>
     \/ Fail("shutdown") /\ heap' = heap \ {"file"}
  /\ UNCHANGED <<halted, windowLayer>>

AllocBytes ==
  /\ at = "malloc"
  /\ \/ at' = "fread" /\ heap' = heap \cup {"rom_bytes"} /\ UNCHANGED status
     \/ Fail("shutdown") /\ heap' = heap \ {"file"}
  /\ UNCHANGED <<halted, windowLayer>>

\* The file is closed whether or not all of it could be read.
ReadFile ==
  /\ at = "fread"
  /\ \/ at' = "load" /\ heap' = heap \ {"file"} /\ UNCHANGED status
     \/ Fail("shutdown") /\ heap' = heap \ {"file", "rom_bytes"}
  /\ UNCHANGED <<halted, windowLayer>>

\* The loader copies what it keeps; the bytes are freed whether it accepts
\* them, refuses them, or is not asked because they are too many.
Load ==
  /\ at = "load"
  /\ \/ /\ at' = "window_create" /\ UNCHANGED status
        /\ heap' = (heap \ {"rom_bytes"}) \cup {"cartridge"}
     \/ Fail("shutdown") /\ heap' = heap \ {"rom_bytes"}
  /\ UNCHANGED <<halted, windowLayer>>

MakeWindow ==
  /\ at = "window_create"
  /\ \E ok \in BOOLEAN :
       Call(CreateWindow(ok), AllocWindow(ok), StubDoesNothing)
  /\ IF window' = NULL THEN Fail("shutdown")
     ELSE /\ at' = IF driver = "win32" THEN "create_hwnd" ELSE "frame_buffer"
          /\ UNCHANGED status
  /\ UNCHANGED <<heap, halted>>

\* On Windows, CreateWindowExW: it fails at once, or after it called back.
CreateHwnd ==
  /\ at = "create_hwnd"
  /\ \/ Call(FALSE, HwndCreated, FALSE) /\ at' = "hwnd_created" /\ UNCHANGED status
     \/ Call(FALSE, HwndFailed, FALSE) /\ Fail("shutdown")
  /\ UNCHANGED <<heap, halted>>

ReturnHwnd ==
  /\ at = "hwnd_created"
  /\ \/ Call(FALSE, HwndReturned, FALSE) /\ at' = "frame_buffer" /\ UNCHANGED status
     \/ Call(FALSE, HwndFailed, FALSE) /\ Fail("shutdown")
  /\ UNCHANGED <<heap, halted>>

AllocFrame ==
  /\ at = "frame_buffer"
  /\ \/ at' = "loop" /\ heap' = heap \cup {"frame_buffer"} /\ UNCHANGED status
     \/ Fail("destroy") /\ UNCHANGED heap
  /\ UNCHANGED <<halted, windowLayer>>

-----------------------------------------------------------------------------
(***************************************************************************)
(* The loop, one call after another.                                       *)
(***************************************************************************)
CheckClose ==
  /\ at = "loop"
  /\ at' = IF ShouldClose THEN "left" ELSE "poll"
  /\ UNCHANGED <<heap, halted, status, windowLayer>>

PollEvent ==
  /\ at = "poll"
  /\ Call(HandleEvent, Dispatch, FALSE)
  /\ UNCHANGED mainVars

\* The queue is empty, and no window procedure still runs.
PollDone ==
  /\ at = "poll" /\ queue = << >> /\ ~modal
  /\ at' = "step"
  /\ UNCHANGED <<heap, halted, status, windowLayer>>

StepConsole ==
  /\ at = "step"
  /\ halted' \in BOOLEAN
  /\ at' = "present"
  /\ UNCHANGED <<heap, status, windowLayer>>

PresentFrame ==
  /\ at = "present"
  /\ \E ok \in BOOLEAN : Call(Present(ok), Stretch, StubDoesNothing)
  /\ at' = "halt_check"
  /\ UNCHANGED <<heap, halted, status>>

HaltCheck ==
  /\ at = "halt_check"
  /\ at' = IF halted THEN "left" ELSE "loop"
  /\ UNCHANGED <<heap, halted, status, windowLayer>>

-----------------------------------------------------------------------------
(***************************************************************************)
(* What is given back.                                                     *)
(***************************************************************************)
Leave ==
  /\ at = "left"
  /\ at' = IF halted THEN "wait_key" ELSE "free_frame"
  /\ UNCHANGED <<heap, halted, status, windowLayer>>

\* The user presses a key: the one step main() cannot take by itself.
KeyPressed ==
  /\ at = "wait_key"
  /\ at' = "free_frame"
  /\ UNCHANGED <<heap, halted, status, windowLayer>>

FreeFrame ==
  /\ at = "free_frame"
  /\ heap' = heap \ {"frame_buffer"}
  /\ status' = "SUCCESS"
  /\ at' = "destroy"
  /\ UNCHANGED <<halted, windowLayer>>

\* Mutation: the display is closed before the window is destroyed.
Destroy_AfterShutdown ==
  /\ at = "destroy"
  /\ Call(CloseDisplay, UnregisterClass, StubDoesNothing)
  /\ at' = "shutdown"
  /\ UNCHANGED <<heap, halted, status>>

Destroy ==
  /\ at = "destroy"
  /\ Call(DestroyWindow, DestroyCalled, StubDoesNothing)
  /\ at' = IF driver = "win32" /\ window # NULL THEN "destroying" ELSE "shutdown"
  /\ UNCHANGED <<heap, halted, status>>

\* On Windows, the rest of km8_platform_window_destroy.
DestroyReturns ==
  /\ at = "destroying"
  /\ Call(FALSE, HwndDestroyed, FALSE)
  /\ at' = "free_window"
  /\ UNCHANGED <<heap, halted, status>>

FreeWindowMemory ==
  /\ at = "free_window"
  /\ Call(FALSE, FreeWindow, FALSE)
  /\ at' = "shutdown"
  /\ UNCHANGED <<heap, halted, status>>

\* Closing the display hears every answer that is still to come.
Shutdown ==
  /\ at = "shutdown" /\ ~doomed
  /\ Call(CloseDisplay, UnregisterClass, StubDoesNothing)
  /\ at' = "free"
  /\ UNCHANGED <<heap, halted, status>>

\* Only the path that succeeds unloads the cartridge.
Free ==
  /\ at = "free"
  /\ heap' = heap \ ({"rom_path"} \cup IF status = "SUCCESS" THEN {"cartridge"} ELSE {})
  /\ at' = "exit"
  /\ UNCHANGED <<halted, status, windowLayer>>

\* Xlib hears of a bad request in some call of it, and ends the process.
Killed ==
  /\ doomed
  /\ at \in {"poll", "present", "destroy", "shutdown"}
  /\ at' = "killed"
  /\ UNCHANGED <<heap, halted, status, windowLayer>>

-----------------------------------------------------------------------------
Running == at \notin {"exit", "killed"}

ServerEvent ==
  /\ Running /\ driver = "x11"
  /\ \E event \in Events : Arrive(event)
  /\ UNCHANGED <<mainVars, driver, win32Vars>>

PostedMessage ==
  /\ Running /\ driver = "win32"
  /\ \E message \in Messages : Post(message)
  /\ UNCHANGED <<mainVars, driver, x11Vars>>

\* Sent messages are heard where main() is inside Windows.
SentMessage ==
  /\ at \in {"hwnd_created", "poll", "destroying"} /\ driver = "win32"
  /\ SendClose
  /\ UNCHANGED <<mainVars, driver, x11Vars>>

ButtonReleased == EndDrag /\ UNCHANGED <<mainVars, driver, x11Vars>>

Startup ==
  \/ InitPlatform \/ SelectRom
  \/ OpenFile \/ MeasureFile \/ AllocBytes \/ ReadFile \/ Load
  \/ MakeWindow \/ CreateHwnd \/ ReturnHwnd \/ AllocFrame
Loop == CheckClose \/ PollEvent \/ PollDone \/ StepConsole \/ PresentFrame \/ HaltCheck
Teardown ==
  \/ Leave \/ FreeFrame \/ Destroy \/ DestroyReturns \/ FreeWindowMemory
  \/ Shutdown \/ Free \/ Killed

Environment ==
  KeyPressed \/ ServerEvent \/ PostedMessage \/ SentMessage \/ ButtonReleased

Next == Startup \/ Loop \/ Teardown \/ Environment

\* Once in its loop main() runs; neither the user nor the server has to do
\* anything.
Spec == Init /\ [][Next]_vars /\ WF_vars(Loop \/ Teardown)

-----------------------------------------------------------------------------
(***************************************************************************)
(* However main() returns, the display is closed or the window class given *)
(* back, the window and its image are freed, and so is everything else it  *)
(* opened or allocated, but for the cartridge when no window or no frame   *)
(* buffer could be had (main.c:217-230 return without                      *)
(* km8_unload_cartridge).                                                  *)
(***************************************************************************)
ExitReleases ==
  at = "exit" =>
    /\ ~gDisplay /\ system = {}
    /\ window = NULL /\ imageBlocks = 0
    /\ heap \subseteq {"cartridge"}
    /\ status = "SUCCESS" => heap = {}

(***************************************************************************)
(* One block of pixels is allocated while the window has an image and none *)
(* while it has not: resizing the window frees the old block with the old  *)
(* image, and so does a resize that fails (platform_linux.c:29-38,         *)
(* 229-260).                                                               *)
(***************************************************************************)
HasImage == driver = "x11" /\ window # NULL /\ window.image # NULL
OneImage == imageBlocks = IF HasImage THEN 1 ELSE 0

(***************************************************************************)
(* What was just presented was scaled into an image of the window's        *)
(* present size, in both directions, or not drawn: the loops at            *)
(* platform_linux.c:265-288 write as many pixels as the window has, and    *)
(* must not write more than the image holds.                               *)
(***************************************************************************)
ImageFits ==
  at = "halt_check" /\ HasImage => window.image = window.display

(***************************************************************************)
(* The scaling reads no pixel outside the frame, keeps its pixels in       *)
(* order, and when the window is as large as the frame or larger leaves    *)
(* none of them out (platform_linux.c:265-274).                            *)
(***************************************************************************)
ScaledWhole(from, to) ==
  /\ \A i \in 0..(to - 1) : Source(i, from, to) \in 0..(from - 1)
  /\ \A i, j \in 0..(to - 1) : i <= j => Source(i, from, to) <= Source(j, from, to)
  /\ to >= from => \A s \in 0..(from - 1) : \E i \in 0..(to - 1) : Source(i, from, to) = s

WholeFrameShown ==
  HasImage => \A axis \in {1, 2} : ScaledWhole(Frame[axis], window.image[axis])

(***************************************************************************)
(* Windows and main() each hold a handle of the other's, and neither ever  *)
(* outlives what it names.  While Windows has the window, and may call its *)
(* procedure from inside any call, the memory it was given is allocated:   *)
(* it is there before CreateWindowExW calls back, and is freed after the   *)
(* last call, in DestroyWindow, and on no path before it.  And as long as  *)
(* the hwnd field is set, which km8_platform_window_present draws to, the  *)
(* window exists: nothing that reaches the procedure destroys it           *)
(* (platform_win32.c:21-44, 80-117, 132-143, 163).                         *)
(***************************************************************************)
HandlesAlive ==
  /\ "hwnd" \in system => window # NULL
  /\ driver = "win32" /\ window # NULL /\ window.hwnd => "hwnd" \in system

(***************************************************************************)
(* A request to close the window that reached the queue, or the window     *)
(* itself, while frames are run is answered: the loop ends, and the        *)
(* program with it unless the CPU halted, when it waits for a key first.   *)
(* On Windows, provided that the user does not hold the title bar for      *)
(* ever.                                                                   *)
(***************************************************************************)
InLoop == at \in {"loop", "poll", "step", "present", "halt_check"}
Asked ==
  /\ InLoop
  /\ \/ ShouldClose
     \/ \E i \in DOMAIN queue : queue[i] \in {<<"delete">>, <<"destroy">>, <<"close">>}
CloseEnds ==
  []<>(~modal) => (Asked ~> at \in {"exit", "killed", "wait_key"})
=============================================================================
