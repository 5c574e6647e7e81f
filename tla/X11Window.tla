----------------------------- MODULE X11Window -----------------------------
(***************************************************************************)
(* The window of the front end on Linux (emulator/platform/                *)
(* platform_linux.c): the display connection, the one window the front end *)
(* makes, the image it is drawn from, and the events it is told of.  Each  *)
(* operator is a function of the file; module Frontend calls them in the   *)
(* order main() does.                                                      *)
(*                                                                         *)
(* Xlib is modelled by what the file relies on: the server queues events   *)
(* in order; it frees what a client holds when the connection is closed;   *)
(* and a request for a window that another client destroyed is an error    *)
(* that kills the process when Xlib next hears from the server, in         *)
(* XCloseDisplay at the latest.  A window may get any size: platform_linux *)
(* reads no desc->resizable and gives the window manager no size hints.    *)
(***************************************************************************)
EXTENDS Platform, Pixels

CONSTANTS
  Sizes,                 \* the sizes, <<width, height>>, a window can get
  WindowSize,            \* the size it is created with
  Frame                  \* the size of the frame: KM8_FRAME

\* Km8PlatformWindow
X11Windows ==
  [should_close : BOOLEAN, display : Sizes, image : Sizes \cup {NULL}]

ASSUME X11Assumption ==
  /\ NULL \notin X11Windows
  /\ WindowSize \in Sizes /\ NULL \notin Sizes
  /\ Sizes \subseteq (Nat \ {0}) \X (Nat \ {0})
  /\ Frame \in (Nat \ {0}) \X (Nat \ {0})

VARIABLES
  gDisplay,              \* is the display open?
  gActiveWindow,         \* is it the window (or NULL)?
  imageBlocks,           \* the blocks allocated for image_data and not freed
                         \* (window.image is the size of the image, or NULL)
  server,                \* what the X server holds for us: {"window", "gc"}
  doomed                 \* a request was made for a window that is gone

x11Vars == <<gDisplay, gActiveWindow, imageBlocks, server, doomed>>

Events == {<<"delete">>, <<"destroy">>, <<"expose">>} \cup {<<"configure", s>> : s \in Sizes}

InitX11 ==
  /\ gDisplay = FALSE /\ gActiveWindow = FALSE /\ imageBlocks = 0
  /\ server = {} /\ doomed = FALSE

\* Something happens to the window; "destroy" is another client's doing.
Arrive(event) ==
  /\ arrived < MaxEvents
  /\ "window" \in server
  /\ arrived' = arrived + 1
  /\ queue' = Append(queue, event)
  /\ server' = IF event = <<"destroy">> THEN server \ {"window"} ELSE server
  /\ UNCHANGED <<window, gDisplay, gActiveWindow, imageBlocks, doomed>>

\* A request that names the window.
Request == doomed' = (doomed \/ "window" \notin server)

-----------------------------------------------------------------------------
\* km8_platform_init
OpenDisplay(ok) ==
  /\ gDisplay' = ok
  /\ UNCHANGED <<platformVars, gActiveWindow, imageBlocks, server, doomed>>

\* km8_platform_shutdown
CloseDisplay ==
  /\ gDisplay' = FALSE
  /\ gActiveWindow' = FALSE
  /\ server' = {} /\ queue' = << >>
  /\ UNCHANGED <<window, imageBlocks, doomed, arrived>>

\* km8_platform_window_create; a part that cannot be made undoes the others.
CreateWindow(ok) ==
  /\ IF gDisplay /\ ok
     THEN /\ window' = [should_close |-> FALSE, display |-> WindowSize,
                        image |-> NULL]
          /\ server' = {"window", "gc"}
          /\ gActiveWindow' = TRUE
     ELSE UNCHANGED <<window, server, gActiveWindow>>
  /\ UNCHANGED <<gDisplay, imageBlocks, doomed, queue, arrived>>

\* km8_linux_destroy_image: XDestroyImage frees the image and its data.
WithoutImage ==
  IF window.image = NULL THEN window
  ELSE [window EXCEPT !.image = NULL]
BlocksWithoutImage ==
  IF window.image = NULL THEN imageBlocks ELSE imageBlocks - 1

\* km8_platform_window_destroy
DestroyWindow ==
  IF window = NULL \/ ~gDisplay THEN UNCHANGED <<platformVars, x11Vars>>
  ELSE /\ imageBlocks' = BlocksWithoutImage
       /\ Request
       /\ server' = {}
       /\ window' = NULL
       /\ gActiveWindow' = FALSE
       /\ UNCHANGED <<gDisplay, queue, arrived>>

-----------------------------------------------------------------------------
\* km8_platform_poll_events, one event.  An expose redraws the image as it is.

HandleEvent ==
  LET event == Head(queue) IN
  /\ queue # << >>
  /\ queue' = Tail(queue)
  /\ window' =
       CASE ~gActiveWindow -> window
         [] event[1] \in {"delete", "destroy"} -> [window EXCEPT !.should_close = TRUE]
         [] event[1] = "configure" -> [window EXCEPT !.display = event[2]]
         [] OTHER -> window
  /\ IF event[1] = "expose" /\ gActiveWindow /\ window.image # NULL
     THEN Request ELSE UNCHANGED doomed
  /\ UNCHANGED <<gDisplay, gActiveWindow, imageBlocks, server, arrived>>

-----------------------------------------------------------------------------
\* km8_platform_window_present: the image is made anew when the window's size
\* is not its size, by malloc and XCreateImage, of which either may fail.

\* Mutation: the image that is replaced is not destroyed.
Present_KeepOld(ok) ==
  LET size == window.display IN
  /\ IF window.image = size
     THEN Request /\ UNCHANGED <<window, imageBlocks>>
     ELSE IF ~ok
     THEN /\ window' = [window EXCEPT !.image = NULL]
          /\ UNCHANGED <<imageBlocks, doomed>>
     ELSE /\ window' = [window EXCEPT !.image = size]
          /\ imageBlocks' = imageBlocks + 1
          /\ Request
  /\ UNCHANGED <<gDisplay, gActiveWindow, server, queue, arrived>>

\* Mutation: only the width is compared.
Present_WidthOnly(ok) ==
  LET size == window.display IN
  /\ IF window.image # NULL /\ window.image[1] = size[1]
     THEN Request /\ UNCHANGED <<window, imageBlocks>>
     ELSE IF ~ok
     THEN /\ window' = WithoutImage
          /\ imageBlocks' = BlocksWithoutImage
          /\ UNCHANGED doomed
     ELSE /\ window' = [window EXCEPT !.image = size]
          /\ imageBlocks' = BlocksWithoutImage + 1
          /\ Request
  /\ UNCHANGED <<gDisplay, gActiveWindow, server, queue, arrived>>

Present(ok) ==
  LET size == window.display IN
  /\ IF window.image = size
     THEN Request /\ UNCHANGED <<window, imageBlocks>>
     ELSE IF ~ok
     THEN /\ window' = WithoutImage
          /\ imageBlocks' = BlocksWithoutImage
          /\ UNCHANGED doomed
     ELSE /\ window' = [window EXCEPT !.image = size]
          /\ imageBlocks' = BlocksWithoutImage + 1
          /\ Request
  /\ UNCHANGED <<gDisplay, gActiveWindow, server, queue, arrived>>
=============================================================================
