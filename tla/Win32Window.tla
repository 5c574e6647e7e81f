---------------------------- MODULE Win32Window ----------------------------
(***************************************************************************)
(* The window of the front end on Windows (platform_win32.c): the window   *)
(* class, the one window and its procedure, which Windows calls back: for  *)
(* a message the program dispatches, for one that another program sends,   *)
(* and inside CreateWindowExW and DestroyWindow.                           *)
(*                                                                         *)
(* Windows is modelled by what the file relies on: a thread's messages are *)
(* queued in order; those sent to it by others are not queued, but wait    *)
(* for its next call into Windows; only the thread that made a window      *)
(* destroys it; a class is not unregistered while it has a window; and     *)
(* DefWindowProc, on the message of a mouse button pressed on the title    *)
(* bar, does not return to the program until the button is released,       *)
(* dispatching messages itself meanwhile.                                  *)
(***************************************************************************)
EXTENDS Platform

\* Km8PlatformWindow.  hwnd: is the field set?  "hwnd" in system says whether
\* Windows has the window, with a pointer back to this (GWLP_USERDATA).
Win32Windows == [should_close : BOOLEAN, hwnd : BOOLEAN]

ASSUME Win32Assumption == NULL \notin Win32Windows

VARIABLES
  gWindowClass,          \* is it an atom (or 0)?
  system,                \* what Windows holds for us: {"class", "hwnd"}
  modal                  \* is DefWindowProc in its loop?

win32Vars == <<gWindowClass, system, modal>>

\* WM_CLOSE, the button on the title bar, WM_QUIT, and what changes nothing.
Messages == {<<"close">>, <<"drag">>, <<"quit">>, <<"other">>}

InitWin32 == gWindowClass = FALSE /\ system = {} /\ modal = FALSE

\* The user, or another program, posts a message.
Post(message) ==
  /\ arrived < MaxEvents
  /\ "hwnd" \in system
  /\ arrived' = arrived + 1
  /\ queue' = Append(queue, message)
  /\ UNCHANGED <<window, win32Vars>>

\* Another program sends WM_CLOSE and waits for the answer.
SendClose ==
  /\ arrived < MaxEvents
  /\ "hwnd" \in system
  /\ arrived' = arrived + 1
  /\ window' = [window EXCEPT !.should_close = TRUE]
  /\ UNCHANGED <<queue, win32Vars>>

\* The user lets go of the title bar.
EndDrag ==
  /\ modal
  /\ modal' = FALSE
  /\ UNCHANGED <<platformVars, gWindowClass, system>>

-----------------------------------------------------------------------------
\* km8_win32_register_window_class: once it has the class, it keeps it.
RegisterClass(ok) ==
  LET have == gWindowClass \/ ok
  IN  /\ gWindowClass' = have
      /\ system' = IF have THEN system \cup {"class"} ELSE system

\* km8_platform_init
InitClass(ok) == RegisterClass(ok) /\ UNCHANGED <<platformVars, modal>>

\* km8_platform_shutdown: the atom is cleared even if Windows refuses.
UnregisterClass ==
  /\ gWindowClass' = FALSE
  /\ system' = IF gWindowClass /\ "hwnd" \notin system
               THEN system \ {"class"} ELSE system
  /\ UNCHANGED <<platformVars, modal>>

\* km8_platform_window_create, up to calloc, which may fail.
AllocWindow(ok) ==
  /\ window' = IF gWindowClass /\ ok
               THEN [should_close |-> FALSE, hwnd |-> FALSE] ELSE window
  /\ UNCHANGED <<queue, arrived, win32Vars>>

\* Inside CreateWindowExW: WM_NCCREATE hands the pointer to the new window.
HwndCreated ==
  /\ system' = system \cup {"hwnd"}
  /\ UNCHANGED <<platformVars, gWindowClass, modal>>

\* CreateWindowExW has returned NULL, before or after that: the memory is freed.
HwndFailed ==
  /\ system' = system \ {"hwnd"}
  /\ window' = NULL
  /\ UNCHANGED <<queue, arrived, gWindowClass, modal>>

\* It has returned the window.
HwndReturned ==
  /\ window' = [window EXCEPT !.hwnd = TRUE]
  /\ UNCHANGED <<queue, arrived, win32Vars>>

\* Mutation: the memory is freed before DestroyWindow.
DestroyCalled_FreeFirst ==
  /\ window' = NULL
  /\ queue' = Append(queue, <<"quit">>)
  /\ UNCHANGED <<arrived, win32Vars>>

\* km8_platform_window_destroy: DestroyWindow calls the window procedure with
\* WM_DESTROY, which posts WM_QUIT.
DestroyCalled ==
  /\ queue' = IF window # NULL /\ window.hwnd THEN Append(queue, <<"quit">>)
                                              ELSE queue
  /\ UNCHANGED <<window, arrived, win32Vars>>

\* DestroyWindow has returned.
HwndDestroyed ==
  /\ system' = IF window.hwnd THEN system \ {"hwnd"} ELSE system
  /\ window' = [window EXCEPT !.hwnd = FALSE]
  /\ UNCHANGED <<queue, arrived, gWindowClass, modal>>

\* free(window)
FreeWindow ==
  /\ window' = NULL
  /\ UNCHANGED <<queue, arrived, win32Vars>>

-----------------------------------------------------------------------------
\* km8_platform_poll_events, one message, and km8_win32_wndproc on it.  A
\* WM_QUIT is dispatched like any other message, to no window.

\* Mutation: WM_CLOSE is left to DefWindowProc, which destroys the window.
Dispatch_DefaultClose ==
  LET message == Head(queue)[1] IN
  /\ queue # << >>
  /\ window' = window
  /\ queue' = IF message = "close" THEN Append(Tail(queue), <<"quit">>)
                                   ELSE Tail(queue)
  /\ system' = IF message = "close" THEN system \ {"hwnd"} ELSE system
  /\ modal' = (modal \/ message = "drag")
  /\ UNCHANGED <<arrived, gWindowClass>>

Dispatch ==
  LET message == Head(queue)[1] IN
  /\ queue # << >>
  /\ queue' = Tail(queue)
  /\ window' = IF message = "close"
               THEN [window EXCEPT !.should_close = TRUE] ELSE window
  /\ modal' = (modal \/ message = "drag")
  /\ UNCHANGED <<arrived, gWindowClass, system>>

\* km8_platform_window_present: draws to a device context it gets and
\* releases, stretched to the window's size of the moment; nothing is kept.
Stretch == UNCHANGED <<platformVars, win32Vars>>
=============================================================================
