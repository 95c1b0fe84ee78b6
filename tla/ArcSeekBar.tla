------------------------------ MODULE ArcSeekBar ------------------------------
(***************************************************************************)
(* ArcSeekBar, a slider on an arc.  Its value is set by the program, by a  *)
(* tap on the arc and by dragging the slider, which is where the last draw *)
(* left it.  An arc has two ends close to each other: the drag must not    *)
(* jump from one to the other when the finger leaves the bar over an end   *)
(* and comes back over the other one.                                      *)
(*                                                                         *)
(* A touch is its angle in degrees, clockwise from three o'clock as atan2  *)
(* gives it, and whether it is on the arc at all.  The listeners, which    *)
(* are told every change, and the drawing itself are left out.             *)
(***************************************************************************)
EXTENDS Integers

CONSTANTS
    StartAngle, EndAngle,   \* of the bar: 150 and 390
    ArcExtend,              \* ARC_EXTEND_ANGLE
    SliderReach,            \* how many degrees the slider's rectangle extends
    Degrees,                \* the angles touched
    Mins, Maxs,             \* the limits callers set, in either order
    Starts,                 \* the values a bar begins with, within its limits or not
    Ranges,                 \* the arguments of setRange, pairs
    Values,                 \* the values the program sets
    Refusals,               \* what a check listener refuses: sets of values
    MaxStep                 \* how far a slow finger moves between two events: at most a
                            \* fifteenth of the bar, and less than the gap between its ends

ASSUME ArcConstants ==
    /\ StartAngle \in 91..180 /\ EndAngle \in 361..(StartAngle + 359)
    /\ ArcExtend \in Nat /\ SliderReach \in Nat /\ MaxStep \in Nat \ {0}
    /\ 15 * MaxStep <= EndAngle - StartAngle /\ EndAngle - StartAngle + MaxStep < 360
    /\ Degrees \subseteq -179..180
    /\ Mins \subseteq Int /\ Maxs \subseteq Int
    /\ Starts \subseteq Int /\ Values \subseteq Int
    /\ Ranges \subseteq Int \X Int

VARIABLES
    min, max,   \* mMin, mMax
    reverse,    \* mIsReverse, an attribute of the layout
    refused,    \* what mOnChangeCheckListener refuses
    range,      \* mRange
    progress,   \* mProgress
    shown,      \* mShowSlider, and the view is enabled
    drawn,      \* the angle at which onDraw put mRectSlider, {} before it has
    touching,   \* whether a finger is on the view, which took the press
    down,       \* mSliderDown
    last        \* the angle of mTouchLastX, mTouchLastY

settings == <<min, max, reverse, refused, range>>
vars == <<settings, progress, shown, drawn, touching, down, last>>

----------------------------------------------------------------------------
\* Integer division as C does it.
Quotient(a, b) == IF a >= 0 THEN a \div b ELSE -((-a) \div b)

\* getWidthProgress.
Width == IF max > min THEN max - min ELSE 1

\* getRelativeDegrees: from StartAngle on.
Relative(deg) ==
    LET once == IF deg < StartAngle THEN deg + 360 ELSE deg
    IN  IF once < StartAngle THEN once + 360 ELSE once

\* The value under a finger.
ValueAt(deg) ==
    LET v == min + Quotient(Width * (Relative(deg) - StartAngle), EndAngle - StartAngle)
    IN  IF reverse THEN max - v ELSE v

Clamp(p) == IF p > max THEN max ELSE IF p < min THEN min ELSE p

\* checkRange; a range outside the limits is not in force.
RangeInForce == range[1] >= min /\ range[2] <= max /\ range[1] < range[2]

Ranged(p) ==
    IF ~RangeInForce THEN p
    ELSE IF p > range[2] THEN range[2] ELSE IF p < range[1] THEN range[1] ELSE p

\* A slip: the range is not looked at.
SetToUnranged(p) == IF p \in refused THEN progress ELSE Clamp(p)

\* setProgress.  The check listener is asked about the value before it is
\* clamped.
SetTo(p) == IF p \in refused THEN progress ELSE Ranged(Clamp(p))

\* A slip: the half where the angle wraps is not told apart.
ClockwiseHalf(from, to) == to > from

\* calcTouchState: whether the finger turned clockwise.
Clockwise(from, to) ==
    IF to \in 0..90 THEN to > from
    ELSE IF from > 0 THEN to > from \/ to < 0 ELSE to < 0 /\ to > from

TopEighth(p) == p - min > Quotient((max - min) * 7, 8)
BottomEighth(p) == p - min < Quotient(max - min, 8)

\* Whether the finger has turned over an end of the bar.
PastTop(from, to) ==
    Clockwise(from, to) # reverse /\ ValueAt(to) < progress /\ TopEighth(progress)
PastBottom(from, to) ==
    Clockwise(from, to) = reverse /\ ValueAt(to) > progress /\ BottomEighth(progress)

\* A slip: only the upper end is guarded.
DraggedUpOnly(from, to) == IF PastTop(from, to) THEN max ELSE ValueAt(to)

\* The value a drag asks for: the one under the finger, except that a turn over
\* an end stays there, and an end is only left step by step.
Dragged(from, to) ==
    CASE PastTop(from, to) -> max
      [] PastBottom(from, to) -> min
      [] OTHER -> ValueAt(to)

LeavesTooFar(from, to) ==
    LET p == ValueAt(to)
        up == Clockwise(from, to) # reverse
    IN  /\ ~PastTop(from, to) /\ ~PastBottom(from, to)
        /\ \/ up /\ progress = min /\ p - min > Quotient(max - min, 8)
           \/ ~up /\ progress = max /\ p - min < Quotient((max - min) * 7, 8)

----------------------------------------------------------------------------
TypeOK ==
    /\ min \in Mins /\ max \in Maxs
    /\ reverse \in BOOLEAN /\ refused \in Refusals
    /\ range \in Ranges \cup {<<0, 0>>} \cup ({ r[1] : r \in Ranges } \X Maxs)
    /\ range = <<0, 0>> \/ range[1] < range[2]
    /\ progress \in Int
    /\ shown \in BOOLEAN
    /\ drawn \in SUBSET Int
    /\ touching \in BOOLEAN /\ down \in BOOLEAN
    /\ last \in Degrees

\* initViewData and the attributes, which are taken as they are.
Init ==
    /\ min \in Mins /\ max \in Maxs
    /\ reverse \in BOOLEAN /\ refused \in Refusals
    /\ range = <<0, 0>>
    /\ progress \in Starts
    /\ shown = TRUE /\ drawn = {}
    /\ touching = FALSE /\ down = FALSE
    /\ last \in { d \in Degrees : d < -90 }

\* Where the value is on the bar.  On a reversed bar it is counted from mMax.
SliderAngle ==
    LET p == Ranged(IF reverse THEN max - progress ELSE progress)
    IN  StartAngle + Quotient((EndAngle - StartAngle) * (p - min), Width)

\* onDraw, as far as the slider goes.
Draw ==
    /\ shown
    /\ drawn' = {SliderAngle}
    /\ UNCHANGED <<settings, progress, shown, touching, down, last>>

----------------------------------------------------------------------------
(* The program. *)

SetProgress(p) ==
    /\ progress' = SetTo(p)
    /\ UNCHANGED <<settings, shown, drawn, touching, down, last>>

SetMin(lo) ==
    /\ lo # min
    /\ min' = lo
    /\ progress' = IF progress < lo THEN lo ELSE progress
    /\ UNCHANGED <<max, reverse, refused, range, shown, drawn, touching, down, last>>

\* A slip: the value is left to the next setProgress.
SetMaxAlone(hi) ==
    /\ hi # max
    /\ max' = hi
    /\ UNCHANGED <<min, progress, reverse, refused, range, shown, drawn, touching, down, last>>

SetMax(hi) ==
    /\ hi # max
    /\ max' = hi
    /\ progress' = IF progress > hi THEN hi ELSE progress
    /\ UNCHANGED <<min, reverse, refused, range, shown, drawn, touching, down, last>>

\* A slip: an empty range is taken over.
SetRangeEmpty(r0, r2) ==
    LET top == IF r2 < r0 THEN max ELSE r2
    IN  /\ range' = IF r0 >= min /\ top <= max THEN <<r0, top>> ELSE <<0, 0>>
        /\ UNCHANGED <<min, max, reverse, refused, progress, shown, drawn, touching, down, last>>

\* setRange; the value stays where it is.
SetRange(r0, r2) ==
    LET top == IF r2 < r0 THEN max ELSE r2
    IN  /\ range' = IF r0 >= min /\ top <= max /\ r0 < top THEN <<r0, top>> ELSE <<0, 0>>
        /\ UNCHANGED <<min, max, reverse, refused, progress, shown, drawn, touching, down, last>>

ShowSlider ==
    /\ shown' = ~shown
    /\ UNCHANGED <<settings, progress, drawn, touching, down, last>>

----------------------------------------------------------------------------
(* onTouchEvent; a slider that is not shown takes no touch, and does not   *)
(* see the finger lift either.                                             *)

OnSlider(deg) ==
    \E angle \in drawn : \E off \in (-SliderReach)..SliderReach :
        (Relative(deg) + off - angle) % 360 = 0

\* Pressing grabs the slider; elsewhere on the bar it sets the value.
Press(deg, onArc) ==
    /\ shown /\ ~touching
    /\ touching' = TRUE
    /\ down' = (onArc /\ OnSlider(deg))
    /\ progress' = IF ~down' /\ onArc /\ Relative(deg) <= EndAngle + ArcExtend
                   THEN SetTo(ValueAt(deg)) ELSE progress
    /\ last' = deg
    /\ UNCHANGED <<settings, shown, drawn>>

Move(deg) ==
    /\ shown /\ touching
    /\ progress' = IF down /\ ~LeavesTooFar(last, deg)
                   THEN SetTo(Dragged(last, deg)) ELSE progress
    /\ last' = deg
    /\ UNCHANGED <<settings, shown, drawn, touching, down>>

Lift(deg) ==
    /\ touching
    /\ touching' = FALSE
    /\ down' = (down /\ ~shown)
    /\ last' = IF shown THEN deg ELSE last
    /\ UNCHANGED <<settings, progress, shown, drawn>>

Next ==
    \/ Draw
    \/ \E p \in Values : SetProgress(p)
    \/ \E lo \in Mins : SetMin(lo)
    \/ \E hi \in Maxs : SetMax(hi)
    \/ \E r \in Ranges : SetRange(r[1], r[2])
    \/ ShowSlider
    \/ \E deg \in Degrees :
         \/ \E onArc \in BOOLEAN : Press(deg, onArc)
         \/ Move(deg)
         \/ Lift(deg)

Spec == Init /\ [][Next]_vars

----------------------------------------------------------------------------
(***************************************************************************)
(* A value within the limits stays within them, whichever limit moves past *)
(* it, and every change ends within them.  Neither the limits nor the      *)
(* value a bar begins with are checked: a bar may begin outside its limits *)
(* and stays there until something sets it, and while the lower limit is   *)
(* above the upper one there is nothing between them.                      *)
(***************************************************************************)
Within == progress \in min..max

StaysWithin ==
    [][ (Within \/ progress' # progress) /\ min' <= max' => Within' ]_vars

(* How far, and which way round, the finger went in a drag.                *)
Turn == LET d == last' - last
        IN  IF d > 180 THEN d - 360 ELSE IF d < -180 THEN d + 360 ELSE d
Dragging == down /\ touching /\ touching' /\ last' # last /\ UNCHANGED settings /\ UNCHANGED drawn
SlowDrag == Dragging /\ Turn \in (-MaxStep)..MaxStep

UnderFinger == progress = Clamp(ValueAt(last))

\* Neither the range nor the check listener holds the slider back, and an eighth
\* of the bar is not nothing.
Free == ~RangeInForce /\ refused = {} /\ max - min >= 8

(***************************************************************************)
(* The drag cannot go round: one slow step of the finger never takes the   *)
(* value from the eighth at one end to the eighth at the other, wherever   *)
(* off the bar the finger has been meanwhile.  Bars of fewer than eight    *)
(* values are not guarded, and are stuck at their lower end; a reversed    *)
(* bar with a negative lower limit has values left beyond its upper end.   *)
(***************************************************************************)
AtTop(p) == 8 * (p - min) > 7 * (max - min)
AtBottom(p) == 8 * (p - min) < max - min

NoJump ==
    [][ SlowDrag /\ Free /\ (reverse => min >= 0) /\ (UnderFinger \/ progress \in {min, max})
        => ~(AtTop(progress) /\ AtBottom(progress')) /\ ~(AtBottom(progress) /\ AtTop(progress')) ]_vars

(***************************************************************************)
(* The slider follows the finger: a slow step along the bar that begins    *)
(* with the slider under the finger ends with it there, whichever way the  *)
(* finger turns and wherever it turns back.  There is one exception:       *)
(* calcTouchState takes a counter-clockwise step over three o'clock for a  *)
(* clockwise one, and made from the eighth of the bar beyond it the step   *)
(* sends the slider to the end of the bar.                                 *)
(***************************************************************************)
OnBar(deg) == Relative(deg) <= EndAngle
OverThreeOClock == last > 0 /\ last' < 0 /\ Turn < 0

Follows ==
    [][ SlowDrag /\ Free /\ UnderFinger /\ OnBar(last) /\ OnBar(last') /\ ~OverThreeOClock
        => UnderFinger' ]_vars

(***************************************************************************)
(* What a change may end with.  Touching or setting the value never leaves *)
(* the range in force, which moving the limits does not look at; and what  *)
(* the check listener refuses only appears where a value beyond it, which  *)
(* the listener was asked about, has been cut to an end.                   *)
(***************************************************************************)
OnlyAllowed ==
    [][ progress' # progress /\ UNCHANGED settings
        => /\ RangeInForce => progress' \in range[1]..range[2]
           /\ progress' \in refused => progress' \in {min, max, range[1], range[2]} ]_vars
=============================================================================
