---------------------------- MODULE PacingProofs ----------------------------
(***************************************************************************)
(* The pacing of the main loop, for every interval and however long the    *)
(* frames take, the process is held up or the sleeps last.                 *)
(***************************************************************************)
EXTENDS Pacing, TLAPS

\* Where the loop waits for its next deadline.
Waiting == at \in {"begin", "sleep"}

TypeInv ==
  /\ at \in {"begin", "frame", "sleep", "left"}
  /\ now \in Int /\ next_frame_time \in Int
  /\ frames \in Nat
  /\ start \in Int /\ startBefore \in Int /\ first \in Int
  /\ startBefore <= start /\ start <= now

\* The deadline waited for lies after the last frame began, and no more than
\* an interval after it if it is to be slept for; while a frame runs, it lies
\* between the starts of that frame and the one before.
DeadlineInv ==
  /\ Waiting => start <= next_frame_time
  /\ at = "begin" => next_frame_time <= now
  /\ at = "sleep" => next_frame_time <= start + FRAME_INTERVAL
  /\ at = "frame" => next_frame_time <= start
  /\ at = "frame" => frames > 0 /\ startBefore <= next_frame_time

\* A deadline for every frame, an interval or more apart.
CountInv ==
  /\ Waiting => next_frame_time >= first + frames * FRAME_INTERVAL
  /\ at = "frame" => next_frame_time >= first + (frames - 1) * FRAME_INTERVAL

\* Two deadlines after the frame before the last one began.
SpacingInv ==
  Waiting /\ frames > 1 => next_frame_time >= startBefore + FRAME_INTERVAL

Inv == TypeInv /\ DeadlineInv /\ CountInv /\ SpacingInv /\ NeverAhead

\* Each deadline is an interval after the one before.
LEMMA OneMore ==
  ASSUME NEW n \in Nat, NEW i \in Nat
  PROVE  (n - 1) * i + i = n * i
  OBVIOUS

LEMMA NoMore ==
  ASSUME NEW i \in Nat
  PROVE  0 * i = 0
  OBVIOUS

LEMMA InitInv == Init => Inv
<1> SUFFICES ASSUME Init PROVE Inv
  OBVIOUS
<1>1. now \in Int /\ FRAME_INTERVAL \in Nat
  BY PacingAssumption DEF Init
<1>2. 0 * FRAME_INTERVAL = 0
  BY <1>1, NoMore
<1> QED BY <1>1, <1>2 DEF Init, Inv, TypeInv, DeadlineInv, CountInv, SpacingInv, Waiting, NeverAhead

LEMMA TickInv == Inv /\ Tick => Inv'
  BY DEF Tick, Inv, TypeInv, DeadlineInv, CountInv, SpacingInv, Waiting, NeverAhead

LEMMA BeginFrameInv == Inv /\ BeginFrame => Inv'
<1> SUFFICES ASSUME Inv, BeginFrame PROVE Inv'
  OBVIOUS
<1>1. FRAME_INTERVAL \in Nat
  BY PacingAssumption
<1>2. TypeInv'
  BY DEF BeginFrame, Inv, TypeInv
<1>3. DeadlineInv'
  BY DEF BeginFrame, Inv, TypeInv, DeadlineInv, Waiting
<1>4. next_frame_time >= first + frames * FRAME_INTERVAL /\ next_frame_time <= now
  BY DEF BeginFrame, Inv, DeadlineInv, CountInv, Waiting
<1>5. frames' - 1 = frames
  BY DEF BeginFrame, Inv, TypeInv
<1>6. CountInv'
  BY <1>4, <1>5 DEF BeginFrame, CountInv, Waiting
<1>7. SpacingInv'
  BY DEF BeginFrame, SpacingInv, Waiting
<1>8. start' >= first' + (frames' - 1) * FRAME_INTERVAL
  <2>1. frames * FRAME_INTERVAL \in Int
    BY <1>1 DEF Inv, TypeInv
  <2> QED BY <1>4, <1>5, <2>1 DEF BeginFrame, Inv, TypeInv
<1> QED BY <1>2, <1>3, <1>6, <1>7, <1>8 DEF Inv, NeverAhead

LEMMA EndFrameInv == Inv /\ EndFrame => Inv'
<1> SUFFICES ASSUME Inv, EndFrame PROVE Inv'
  OBVIOUS
<1>1. FRAME_INTERVAL \in Nat
  BY PacingAssumption
<1>2. next_frame_time' >= next_frame_time + FRAME_INTERVAL /\ next_frame_time' \in Int
  BY <1>1 DEF EndFrame, Inv, TypeInv
<1>3. TypeInv'
  BY <1>2 DEF EndFrame, Inv, TypeInv
<1>4. DeadlineInv'
  BY <1>1 DEF EndFrame, Inv, TypeInv, DeadlineInv, Waiting
<1>5. next_frame_time' >= first + frames * FRAME_INTERVAL
  <2>1. (frames - 1) * FRAME_INTERVAL + FRAME_INTERVAL = frames * FRAME_INTERVAL
    BY <1>1, OneMore DEF Inv, TypeInv
  <2>2. (frames - 1) * FRAME_INTERVAL \in Int
    BY <1>1 DEF Inv, TypeInv
  <2>3. next_frame_time >= first + (frames - 1) * FRAME_INTERVAL
    BY DEF EndFrame, Inv, CountInv
  <2> QED BY <1>1, <1>2, <2>1, <2>2, <2>3 DEF Inv, TypeInv
<1>6. CountInv'
  BY <1>5 DEF EndFrame, CountInv, Waiting
<1>7. startBefore <= next_frame_time
  BY DEF EndFrame, Inv, DeadlineInv
<1>8. SpacingInv'
  BY <1>1, <1>2, <1>7 DEF EndFrame, Inv, TypeInv, SpacingInv, Waiting
<1>9. NeverAhead'
  BY DEF EndFrame, Inv, NeverAhead
<1> QED BY <1>3, <1>4, <1>6, <1>8, <1>9 DEF Inv

LEMMA WakeInv == Inv /\ Wake => Inv'
  BY DEF Wake, Inv, TypeInv, DeadlineInv, CountInv, SpacingInv, Waiting, NeverAhead

LEMMA LeaveInv == Inv /\ Leave => Inv'
  BY DEF Leave, Inv, TypeInv, DeadlineInv, CountInv, SpacingInv, Waiting, NeverAhead

LEMMA StutterInv == Inv /\ UNCHANGED vars => Inv'
  BY DEF vars, Inv, TypeInv, DeadlineInv, CountInv, SpacingInv, Waiting, NeverAhead

LEMMA PacingInv == Spec => []Inv
<1>1. Inv /\ [Next]_vars => Inv'
  BY TickInv, BeginFrameInv, EndFrameInv, WakeInv, LeaveInv, StutterInv DEF Next
<1> QED BY InitInv, <1>1, PTL DEF Spec

(***************************************************************************)
(* The console never runs ahead of the clock (main.c:258-264).             *)
(***************************************************************************)
THEOREM PacedByClock == Spec => []NeverAhead
  BY PacingInv, PTL DEF Inv

(***************************************************************************)
(* No sleep reaches further than an interval from the frame before it.     *)
(***************************************************************************)
THEOREM SleepsWithinInterval == Spec => []SleepBounded
<1>1. Inv => SleepBounded
  BY DEF Inv, DeadlineInv, SleepBounded
<1> QED BY <1>1, PacingInv, PTL

(***************************************************************************)
(* However late the loop was, it does not run three frames in an interval. *)
(***************************************************************************)
THEOREM NeverBursts == Spec => NoBurst
<1>1. Inv /\ [Next]_vars => [BeginFrame /\ frames > 1 => now >= startBefore + FRAME_INTERVAL]_vars
  <2>1. ASSUME Inv, BeginFrame, frames > 1
        PROVE  now >= startBefore + FRAME_INTERVAL
    <3>1. next_frame_time >= startBefore + FRAME_INTERVAL /\ next_frame_time <= now
      BY <2>1 DEF BeginFrame, Inv, DeadlineInv, SpacingInv, Waiting
    <3> QED BY <2>1, <3>1, PacingAssumption DEF Inv, TypeInv
  <2> QED BY <2>1
<1> QED BY <1>1, PacingInv, PTL DEF Spec, NoBurst
=============================================================================
