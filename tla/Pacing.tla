------------------------------- MODULE Pacing -------------------------------
(***************************************************************************)
(* The clock of the front end's main loop (emulator/main.c:239-265): when  *)
(* a frame is begun, how long the loop sleeps, and what it does when it is *)
(* late.  Deadlines are absolute, so a sleep that lasts too long shortens  *)
(* the next; a deadline that is already past is given up.                  *)
(*                                                                         *)
(* nanosleep is taken to sleep at least as long as it is asked to: the     *)
(* program installs no signal handler that could interrupt it.             *)
(***************************************************************************)
EXTENDS Integers

CONSTANTS
  FRAME_INTERVAL,        \* KM8_FRAME_INTERVAL_NS
  MaxTime                \* bound: the time until which the loop is watched

ASSUME PacingAssumption == FRAME_INTERVAL \in Nat \ {0} /\ MaxTime \in Nat

VARIABLES
  at,                    \* where the loop is: "begin", "frame", "sleep", "left"
  now,                   \* the monotonic clock
  next_frame_time,
  frames,                \* history: the frames begun
  start,                 \* history: when the last of them was
  startBefore,           \* history: when the one before it was
  first                  \* history: when the loop was entered

vars == <<at, now, next_frame_time, frames, start, startBefore, first>>

Init ==
  /\ at = "begin"
  /\ now \in 0..FRAME_INTERVAL
  /\ next_frame_time = now
  /\ frames = 0
  /\ first = now /\ start = now /\ startBefore = now

\* Time passes, whatever the loop is doing.
Tick ==
  /\ now < MaxTime
  /\ now' = now + 1
  /\ UNCHANGED <<at, next_frame_time, frames, start, startBefore, first>>

\* Poll, step the console, draw: a frame.
BeginFrame ==
  /\ at = "begin"
  /\ at' = "frame"
  /\ frames' = frames + 1
  /\ start' = now
  /\ startBefore' = start
  /\ UNCHANGED <<now, next_frame_time, first>>

\* Mutation: a deadline that was missed is kept, to be made up for.
EndFrame_KeepDeadline ==
  /\ at = "frame"
  /\ next_frame_time' = next_frame_time + FRAME_INTERVAL
  /\ at' = IF next_frame_time' > now THEN "sleep" ELSE "begin"
  /\ UNCHANGED <<now, frames, start, startBefore, first>>

\* Mutation: the deadline after a late frame is a whole interval away.
EndFrame_SkipInterval ==
  LET next == next_frame_time + FRAME_INTERVAL IN
  /\ at = "frame"
  /\ IF next > now
     THEN next_frame_time' = next /\ at' = "sleep"
     ELSE next_frame_time' = now + FRAME_INTERVAL /\ at' = "begin"
  /\ UNCHANGED <<now, frames, start, startBefore, first>>

EndFrame ==
  LET next == next_frame_time + FRAME_INTERVAL IN
  /\ at = "frame"
  /\ IF next > now
     THEN next_frame_time' = next /\ at' = "sleep"
     ELSE next_frame_time' = now /\ at' = "begin"
  /\ UNCHANGED <<now, frames, start, startBefore, first>>

\* Mutation: the sleep is rounded down to the resolution of the sleep function.
Wake_Early ==
  /\ at = "sleep"
  /\ now >= next_frame_time - 1
  /\ at' = "begin"
  /\ UNCHANGED <<now, next_frame_time, frames, start, startBefore, first>>

Wake ==
  /\ at = "sleep"
  /\ now >= next_frame_time
  /\ at' = "begin"
  /\ UNCHANGED <<now, next_frame_time, frames, start, startBefore, first>>

\* The window was closed, or the CPU halted in the frame.
Leave ==
  /\ at \in {"begin", "frame"}
  /\ at' = "left"
  /\ UNCHANGED <<now, next_frame_time, frames, start, startBefore, first>>

Next == Tick \/ BeginFrame \/ EndFrame \/ Wake \/ Leave

Spec == Init /\ [][Next]_vars

-----------------------------------------------------------------------------
(***************************************************************************)
(* The console never runs ahead of the clock, which is what "fixed 60 Hz"  *)
(* (README.md:99) asks of a front end: by the start of the n-th frame,     *)
(* n - 1 intervals have passed since the loop was entered, however the     *)
(* frames before were early or late.                                       *)
(***************************************************************************)
NeverAhead == frames > 0 => start >= first + (frames - 1) * FRAME_INTERVAL

(***************************************************************************)
(* A loop that fell behind does not make up for it in a burst: of three    *)
(* frames in a row the last begins at least an interval after the first    *)
(* (main.c:262-264 gives up a missed deadline).                            *)
(***************************************************************************)
NoBurst ==
  [][BeginFrame /\ frames > 1 => now >= startBefore + FRAME_INTERVAL]_vars

(***************************************************************************)
(* A frame is never followed by more sleep than is left of an interval     *)
(* since it began: the window is looked at again within one.               *)
(***************************************************************************)
SleepBounded == at = "sleep" => next_frame_time <= start + FRAME_INTERVAL
=============================================================================
