------------------------------ MODULE Windows ------------------------------
(***************************************************************************)
(* windows.iter_windows: the sliding windows of one run.  The graphs of    *)
(* the flash detector are built from them one by one, those of the ppt     *)
(* detector from the whole list, in module Memory.                         *)
(*                                                                         *)
(* Time is counted in a unit that divides all timestamps and parameters.   *)
(* Events with one timestamp are always in the same windows: an event is   *)
(* its timestamp here.                                                     *)
(***************************************************************************)
EXTENDS Integers, Sequences, FiniteSets

CONSTANTS
  Times,    \* the timestamps there may be
  Widths, Strides, Tails  \* values of windows.width_s, .stride_s, .min_tail_s

ASSUME WindowsAssumption ==
  /\ Times \subseteq Nat /\ IsFiniteSet(Times)
  /\ Widths \subseteq Nat \ {0} /\ Strides \subseteq Nat \ {0} /\ Tails \subseteq Nat

VARIABLES
  events,                \* argument: the timestamps of the run's events
  width, stride, tail,   \* arguments
  start, end,            \* first and last timestamp
  t0, w_idx,             \* the loop's variables
  out,                   \* the windows yielded so far
  done                   \* the generator has returned

winArgs == <<events, width, stride, tail, start, end>>
winVars == <<winArgs, t0, w_idx, out, done>>

WindowSet == [w_idx : Nat, t0 : Nat, events : SUBSET Times]

WindowsTypeOK ==
  /\ events \in SUBSET Times /\ start \in events /\ end \in events
  /\ \A e \in events : start <= e /\ e <= end
  /\ width \in Widths /\ stride \in Strides /\ tail \in Tails
  /\ t0 \in Nat /\ w_idx \in Nat /\ done \in BOOLEAN
  /\ out \in Seq(WindowSet)

(* A run without events is left out: the generator returns at once.        *)
WindowsInit ==
  /\ events \in SUBSET Times
  /\ width \in Widths /\ stride \in Strides /\ tail \in Tails
  /\ start \in events /\ end \in events
  /\ \A e \in events : start <= e /\ e <= end
  /\ t0 = start
  /\ w_idx = 0
  /\ out = <<>>
  /\ done = FALSE

----------------------------------------------------------------------------
t1 == t0 + width

InWindow == {e \in events : t0 <= e /\ e < t1}

InLoop == ~ done /\ t0 <= end

(* Slip: the tail is measured to the end of the window. *)
ShortTailBy == w_idx > 0 /\ end - t0 < tail + width

(* The window at t0 is partial, too short, and not the only one.           *)
ShortTail == t1 > end /\ w_idx > 0 /\ end - t0 < tail

DropTail ==
  /\ InLoop
  /\ ShortTail
  /\ done' = TRUE
  /\ UNCHANGED <<winArgs, t0, w_idx, out>>

(* Slip: the windows go on up to the last event. *)
AdvanceToEnd == t0' = t0 + stride /\ UNCHANGED done

(* The loop leaves after a window that reaches beyond the last event.      *)
Advance == IF t1 > end THEN done' = TRUE /\ UNCHANGED t0
                       ELSE t0' = t0 + stride /\ UNCHANGED done

YieldWindow ==
  /\ InLoop
  /\ ~ ShortTail
  /\ InWindow # {}
  /\ out' = Append(out, [w_idx |-> w_idx, t0 |-> t0, events |-> InWindow])
  /\ w_idx' = w_idx + 1
  /\ Advance
  /\ UNCHANGED winArgs

SkipEmpty ==
  /\ InLoop
  /\ ~ ShortTail
  /\ InWindow = {}
  /\ Advance
  /\ UNCHANGED <<winArgs, w_idx, out>>

(* A stride beyond the width may jump over the last event.                 *)
LoopOver ==
  /\ ~ done
  /\ t0 > end
  /\ done' = TRUE
  /\ UNCHANGED <<winArgs, t0, w_idx, out>>

WindowStep == DropTail \/ YieldWindow \/ SkipEmpty \/ LoopOver

(* The generator is drained by its consumers.                              *)
WindowsSpec == WindowsInit /\ [][WindowStep]_winVars /\ WF_winVars(WindowStep)

----------------------------------------------------------------------------
Covered(e) == \E i \in DOMAIN out : e \in out[i].events

(* Telemetry is never lost between windows: as long as windows do not leave *)
(* gaps, the only events that are in no window are less than min_tail_s     *)
(* away from the last event (windows.py:34-42).                             *)
OnlyTailIsLost ==
  done /\ stride <= width => \A e \in events : ~ Covered(e) => end - e < tail

(* A run with events always yields a window, also when it is shorter than  *)
(* min_tail_s (windows.py:31-33).                                          *)
SomeWindow == done => out # <<>>

(* Windows are numbered without gaps in the order of time, which is what   *)
(* the pod aggregation and the memory graphs rely on (windows.py:36-39).   *)
NumberedInTime ==
  /\ w_idx = Len(out)
  /\ \A i \in DOMAIN out : out[i].w_idx = i - 1
  /\ \A i, j \in DOMAIN out : i < j => out[i].t0 < out[j].t0

(* The windows a reader of default.yaml expects: start + k * stride for    *)
(* every k up to the first window that reaches beyond the last event,      *)
(* without the empty ones and without that last one when it is a short     *)
(* tail (default.yaml:20-23); their numbers leave out the empty ones.       *)
Partial(k) == start + k * stride + width > end
Expected(k) ==
  /\ \A j \in 0..k - 1 : ~ Partial(j)
  /\ \E e \in events : start + k * stride <= e /\ e < start + k * stride + width
  /\ Partial(k) /\ k > 0 => end - (start + k * stride) >= tail
WindowsAsExpected ==
  done =>
    /\ {out[i].t0 : i \in DOMAIN out} =
         {start + k * stride : k \in {n \in 0..end : start + n * stride <= end /\ Expected(n)}}
    /\ NumberedInTime
=============================================================================
