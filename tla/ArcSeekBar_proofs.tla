--------------------------- MODULE ArcSeekBar_proofs ---------------------------
(***************************************************************************)
(* What holds of the slider for every bar, every limits and every finger:  *)
(* a value within the limits stays there, what touching it or setting it   *)
(* may end with, and what a drag may do.                                   *)
(***************************************************************************)
EXTENDS ArcSeekBar, TLAPS

(***************************************************************************)
(* A division by a positive number gives an integer, as C rounds it too.   *)
(***************************************************************************)
LEMMA QuotientType == \A a \in Int, b \in Nat \ {0} : Quotient(a, b) \in Int
  BY DEF Quotient

(***************************************************************************)
(* An angle is turned to one on the bar's side of StartAngle.              *)
(***************************************************************************)
LEMMA RelativeType == \A deg \in Degrees : Relative(deg) \in Int
  BY ArcConstants DEF Relative

(***************************************************************************)
(* The value under a finger is an integer, within the limits or not.       *)
(***************************************************************************)
LEMMA ValueType ==
  ASSUME TypeOK, NEW deg \in Degrees
  PROVE  ValueAt(deg) \in Int
<1>1. min \in Int /\ max \in Int /\ Width \in Int
  BY ArcConstants DEF TypeOK, Width
<1>2. Relative(deg) \in Int
  BY RelativeType
<1> DEFINE a == Width * (Relative(deg) - StartAngle)
           b == EndAngle - StartAngle
<1>3. a \in Int /\ b \in Nat \ {0}
  <2>1. Relative(deg) - StartAngle \in Int
    BY <1>2, ArcConstants
  <2>2. a \in Int
    BY <1>1, <2>1
  <2>3. QED
    BY <2>2, ArcConstants
<1>4. Quotient(a, b) \in Int
  <2> HIDE DEF a, b
  <2> QED BY <1>3, QuotientType
<1>5. QED
  <2> DEFINE q == Quotient(a, b)
  <2>1. ValueAt(deg) = IF reverse THEN max - (min + q) ELSE min + q
    BY DEF ValueAt
  <2>2. q \in Int
    BY <1>4
  <2> HIDE DEF q
  <2> QED BY <1>1, <2>1, <2>2

(***************************************************************************)
(* Whatever set the range, its ends are integers.                          *)
(***************************************************************************)
LEMMA RangeType == ASSUME TypeOK PROVE range[1] \in Int /\ range[2] \in Int
<1>1. CASE range = <<0, 0>>
  BY <1>1
<1>2. CASE range \in Ranges
  <2>1. range \in Int \X Int
    BY <1>2, ArcConstants
  <2>2. QED
    BY <2>1
<1>3. CASE range \in ({ r[1] : r \in Ranges } \X Maxs)
  <2>1. PICK lo \in { r[1] : r \in Ranges }, hi \in Maxs : range = <<lo, hi>>
    BY <1>3
  <2>2. PICK r \in Ranges : lo = r[1]
    BY <2>1
  <2>3. r \in Int \X Int /\ hi \in Int
    BY ArcConstants
  <2>4. lo \in Int
    BY <2>2, <2>3
  <2>5. range[1] = lo /\ range[2] = hi
    BY <2>1
  <2>6. QED
    BY <2>3, <2>4, <2>5
<1>4. QED
  BY <1>1, <1>2, <1>3 DEF TypeOK

(***************************************************************************)
(* What setProgress may set: it leaves the value, or ends within the limits*)
(* and the range in force; a value the listener refuses only comes of a    *)
(* cut.                                                                    *)
(***************************************************************************)
LEMMA SetToBounds ==
  ASSUME TypeOK, NEW p \in Int
  PROVE  /\ SetTo(p) \in Int
         /\ SetTo(p) # progress =>
              /\ min <= max => SetTo(p) \in min..max
              /\ RangeInForce => SetTo(p) \in range[1]..range[2]
              /\ SetTo(p) \in refused => SetTo(p) \in {min, max, range[1], range[2]}
<1>1. min \in Int /\ max \in Int /\ progress \in Int
  BY ArcConstants DEF TypeOK
<1>2. range[1] \in Int /\ range[2] \in Int
  BY RangeType
<1>3. CASE p \in refused
  BY <1>1, <1>3 DEF SetTo
<1>4. CASE p \notin refused
  <2>1. SetTo(p) = Ranged(Clamp(p))
    BY <1>4 DEF SetTo
  <2>2. Clamp(p) \in {p, min, max} /\ (min <= max => Clamp(p) \in min..max)
    BY <1>1 DEF Clamp
  <2> DEFINE c == Clamp(p)
  <2> HIDE DEF c
  <2>3. c \in Int /\ c \in {p, min, max} /\ (min <= max => c \in min..max)
    BY <1>1, <2>2 DEF c
  <2>4. /\ Ranged(c) \in Int /\ Ranged(c) \in {c, range[1], range[2]}
        /\ min <= max => Ranged(c) \in min..max
        /\ RangeInForce => Ranged(c) \in range[1]..range[2]
    BY <1>1, <1>2, <2>3 DEF Ranged, RangeInForce
  <2>5. SetTo(p) = Ranged(c)
    BY <2>1 DEF c
  <2> QED
    BY <1>4, <2>3, <2>4, <2>5
<1>5. QED
  BY <1>3, <1>4

(***************************************************************************)
(* A drag asks for an integer too.                                         *)
(***************************************************************************)
LEMMA DraggedType ==
  ASSUME TypeOK, NEW deg \in Degrees
  PROVE  Dragged(last, deg) \in Int
<1>1. ValueAt(deg) \in Int
  BY ValueType
<1>2. min \in Int /\ max \in Int
  BY ArcConstants DEF TypeOK
<1>3. QED
  BY <1>1, <1>2 DEF Dragged, PastTop, PastBottom

(***************************************************************************)
(* The invariant holds when the widget has been constructed.               *)
(***************************************************************************)
LEMMA InitType == Init => TypeOK
<1> SUFFICES ASSUME Init PROVE TypeOK
  OBVIOUS
<1>1. progress \in Starts /\ drawn = {}
  BY DEF Init
<1>2. progress \in Int /\ drawn \in SUBSET Int
  BY <1>1, ArcConstants
<1>3. QED
  BY <1>2 DEF Init, TypeOK

(***************************************************************************)
(* Every operation keeps it.                                               *)
(***************************************************************************)
LEMMA StepType == TypeOK /\ [Next]_vars => TypeOK'
<1> SUFFICES ASSUME TypeOK, [Next]_vars PROVE TypeOK'
  OBVIOUS
<1>0. min \in Int /\ max \in Int /\ progress \in Int
  BY ArcConstants DEF TypeOK
<1>1. CASE Draw
  <2> DEFINE v == Ranged(IF reverse THEN max - progress ELSE progress)
  <2>1. v \in Int
    <3>1. range[1] \in Int /\ range[2] \in Int
      BY RangeType
    <3>2. QED
      BY <1>0, <3>1 DEF Ranged
  <2> HIDE DEF v
  <2> DEFINE a == (EndAngle - StartAngle) * (v - min)
  <2>2. a \in Int
    BY <2>1, <1>0, ArcConstants
  <2>3. Width \in Nat \ {0}
    BY <1>0 DEF Width
  <2>4. drawn' = {StartAngle + Quotient(a, Width)}
    BY <1>1 DEF Draw, SliderAngle, v
  <2> HIDE DEF a
  <2>5. Quotient(a, Width) \in Int
    BY <2>2, <2>3, QuotientType
  <2> DEFINE q == Quotient(a, Width)
  <2>6. drawn' \in SUBSET Int
    <3> HIDE DEF q
    <3> QED BY <2>4, <2>5, ArcConstants DEF q
  <2>7. QED
    BY <1>1, <2>6 DEF Draw, TypeOK, settings
<1>2. ASSUME NEW p \in Values, SetProgress(p) PROVE TypeOK'
  <2>1. SetTo(p) \in Int
    BY SetToBounds, ArcConstants
  <2>2. QED
    BY <1>2, <2>1 DEF SetProgress, TypeOK, settings
<1>3. ASSUME NEW lo \in Mins, SetMin(lo) PROVE TypeOK'
  BY <1>3, <1>0, ArcConstants DEF SetMin, TypeOK
<1>4. ASSUME NEW hi \in Maxs, SetMax(hi) PROVE TypeOK'
  BY <1>4, <1>0, ArcConstants DEF SetMax, TypeOK
<1>5. ASSUME NEW r \in Ranges, SetRange(r[1], r[2]) PROVE TypeOK'
  <2>1. r = <<r[1], r[2]>> /\ r[1] \in Int /\ r[2] \in Int
    BY ArcConstants
  <2>2. range' \in Ranges \cup {<<0, 0>>} \cup ({ x[1] : x \in Ranges } \X Maxs)
    BY <1>5, <2>1 DEF SetRange, TypeOK
  <2>3. range' = <<0, 0>> \/ range'[1] < range'[2]
    BY <1>5 DEF SetRange
  <2>4. QED
    BY <1>5, <2>2, <2>3 DEF SetRange, TypeOK
<1>6. CASE ShowSlider
  BY <1>6 DEF ShowSlider, TypeOK, settings
<1>7. ASSUME NEW deg \in Degrees, NEW onArc \in BOOLEAN, Press(deg, onArc) PROVE TypeOK'
  <2>1. SetTo(ValueAt(deg)) \in Int
    BY ValueType, SetToBounds
  <2>2. progress' \in Int
    BY <1>7, <2>1, <1>0 DEF Press
  <2>3. down' \in BOOLEAN
    BY <1>7 DEF Press, OnSlider
  <2>4. QED
    BY <1>7, <2>2, <2>3 DEF Press, TypeOK, settings
<1>8. ASSUME NEW deg \in Degrees, Move(deg) PROVE TypeOK'
  <2>1. SetTo(Dragged(last, deg)) \in Int
    BY DraggedType, SetToBounds
  <2>2. progress' \in Int
    BY <1>8, <2>1, <1>0 DEF Move
  <2>3. QED
    BY <1>8, <2>2 DEF Move, TypeOK, settings
<1>9. ASSUME NEW deg \in Degrees, Lift(deg) PROVE TypeOK'
  BY <1>9 DEF Lift, TypeOK, settings
<1>10. CASE UNCHANGED vars
  BY <1>10 DEF vars, settings, TypeOK
<1>11. QED
  BY <1>1, <1>2, <1>3, <1>4, <1>5, <1>6, <1>7, <1>8, <1>9, <1>10 DEF Next

(***************************************************************************)
(* Everything has its type; in particular a range that has been taken over *)
(* is not empty.                                                           *)
(***************************************************************************)
THEOREM TypeCorrect == Spec => []TypeOK
  BY InitType, StepType, PTL DEF Spec

\* The value is set by setProgress only, but for the limits that move past it.
LEMMA ProgressSet ==
  ASSUME TypeOK, Next
  PROVE  \/ UNCHANGED progress /\ UNCHANGED <<min, max>>
         \/ (\E p \in Int : progress' = SetTo(p)) /\ UNCHANGED <<min, max>>
         \/ \E lo \in Mins : SetMin(lo)
         \/ \E hi \in Maxs : SetMax(hi)
<1>1. ASSUME NEW p \in Values, SetProgress(p)
      PROVE  (\E v \in Int : progress' = SetTo(v)) /\ UNCHANGED <<min, max>>
  BY <1>1, ArcConstants DEF SetProgress, settings
<1>2. ASSUME NEW deg \in Degrees, NEW onArc \in BOOLEAN, Press(deg, onArc)
      PROVE  /\ UNCHANGED progress \/ \E v \in Int : progress' = SetTo(v)
             /\ UNCHANGED <<min, max>>
  <2>1. progress' \in {progress, SetTo(ValueAt(deg))} /\ UNCHANGED <<min, max>>
    BY <1>2 DEF Press, settings
  <2> QED
    BY <2>1, ValueType
<1>3. ASSUME NEW deg \in Degrees, Move(deg)
      PROVE  /\ UNCHANGED progress \/ \E v \in Int : progress' = SetTo(v)
             /\ UNCHANGED <<min, max>>
  <2>1. progress' \in {progress, SetTo(Dragged(last, deg))} /\ UNCHANGED <<min, max>>
    BY <1>3 DEF Move, settings
  <2> QED
    BY <2>1, DraggedType
<1>4. ASSUME Draw \/ ShowSlider \/ (\E deg \in Degrees : Lift(deg))
             \/ (\E x \in Ranges : SetRange(x[1], x[2]))
      PROVE  UNCHANGED progress /\ UNCHANGED <<min, max>>
  BY <1>4 DEF Draw, ShowSlider, Lift, SetRange, settings
<1> QED
  BY <1>1, <1>2, <1>3, <1>4 DEF Next

(***************************************************************************)
(* A value within the limits stays within them, and every change of it     *)
(* ends within them, whichever limits are set in whichever order, unless   *)
(* the lower one is above the upper one.                                   *)
(***************************************************************************)
THEOREM KeptWithin == Spec => StaysWithin
<1> DEFINE Stays == (Within \/ progress' # progress) /\ min' <= max' => Within'
<1>1. ASSUME TypeOK, [Next]_vars PROVE [Stays]_vars
  <2> SUFFICES ASSUME Next, Within \/ progress' # progress, min' <= max' PROVE Within'
    BY <1>1
  <2>1. min \in Int /\ max \in Int /\ progress \in Int /\ Mins \subseteq Int /\ Maxs \subseteq Int
    BY <1>1, ArcConstants DEF TypeOK
  <2>2. CASE UNCHANGED progress /\ UNCHANGED <<min, max>>
    BY <2>2 DEF Within
  <2>3. ASSUME NEW p \in Int, progress' = SetTo(p), UNCHANGED <<min, max>> PROVE Within'
    <3>1. progress' # progress => progress' \in min..max
      BY <1>1, <2>3, SetToBounds
    <3> QED
      BY <2>3, <3>1 DEF Within
  <2>4. ASSUME NEW lo \in Mins, SetMin(lo) PROVE Within'
    <3>1. /\ min' = lo /\ max' = max /\ lo \in Int
          /\ progress' = IF progress < lo THEN lo ELSE progress
      BY <2>1, <2>4 DEF SetMin
    <3> QED
      BY <2>1, <3>1 DEF Within
  <2>5. ASSUME NEW hi \in Maxs, SetMax(hi) PROVE Within'
    <3>1. /\ max' = hi /\ min' = min /\ hi \in Int
          /\ progress' = IF progress > hi THEN hi ELSE progress
      BY <2>1, <2>5 DEF SetMax
    <3> QED
      BY <2>1, <3>1 DEF Within
  <2> QED
    BY <1>1, <2>2, <2>3, <2>4, <2>5, ProgressSet
<1>2. QED
  BY <1>1, TypeCorrect, PTL DEF Spec, StaysWithin

(***************************************************************************)
(* No touch and no call of setProgress ends outside the range in force, or *)
(* with a value that is refused and has not been cut.                      *)
(***************************************************************************)
THEOREM ChangesAllowed == Spec => OnlyAllowed
<1> DEFINE Allowed ==
      progress' # progress /\ UNCHANGED settings
      => /\ RangeInForce => progress' \in range[1]..range[2]
         /\ progress' \in refused => progress' \in {min, max, range[1], range[2]}
<1>1. ASSUME TypeOK, [Next]_vars PROVE [Allowed]_vars
  <2> SUFFICES ASSUME Next, progress' # progress, UNCHANGED settings PROVE Allowed
    BY <1>1
  <2>1. ASSUME NEW p \in Int, progress' = SetTo(p) PROVE Allowed
    BY <1>1, <2>1, SetToBounds
  <2>2. (\A lo \in Mins : ~SetMin(lo)) /\ (\A hi \in Maxs : ~SetMax(hi))
    BY DEF SetMin, SetMax, settings
  <2>3. \E p \in Int : progress' = SetTo(p)
    BY <1>1, <2>2, ProgressSet
  <2> QED
    BY <2>1, <2>3
<1>2. QED
  BY <1>1, TypeCorrect, PTL DEF Spec, OnlyAllowed

----------------------------------------------------------------------------
(* The drag.  On a bar of w values an angle of x degrees from StartAngle   *)
(* stands for Steps(w, x) of them, rounded down, so what the drag does is  *)
(* a matter of inequalities between products.                              *)

Arc == EndAngle - StartAngle
Steps(w, x) == Quotient(w * x, Arc)

\* A common positive factor can be taken out of an inequality.
LEMMA Cancel ==
  ASSUME NEW c \in Nat \ {0}, NEW a \in Int, NEW b \in Int
  PROVE  /\ c * a < c * b => a < b
         /\ c * a <= c * b => a <= b
<1> SUFFICES ASSUME a >= b PROVE c * a >= c * b /\ (a > b => c * a > c * b)
  OBVIOUS
<1>1. c * (a - b) = c * a - c * b
  OBVIOUS
<1>2. c * (a - b) >= 0 /\ (a - b > 0 => c * (a - b) > 0)
  OBVIOUS
<1> QED
  BY <1>1, <1>2

\* The quotient of natural numbers is rounded down.
LEMMA StepsRound ==
  ASSUME NEW w \in Nat, NEW x \in Nat
  PROVE  /\ Steps(w, x) \in Nat
         /\ Arc * Steps(w, x) <= w * x
         /\ w * x < Arc * Steps(w, x) + Arc
<1>1. Arc \in Nat \ {0} /\ w * x \in Nat
  BY ArcConstants DEF Arc
<1> DEFINE a == w * x
<1> HIDE DEF a
<1>2. a \in Nat => /\ a \div Arc \in Nat
                   /\ Arc * (a \div Arc) <= a
                   /\ a < Arc * (a \div Arc) + Arc
  BY <1>1
<1>3. Steps(w, x) = a \div Arc
  BY <1>1 DEF Steps, Quotient, a
<1> QED
  BY <1>1, <1>2, <1>3 DEF a

\* The steps grow with the angle: a slow finger changes them by a fifteenth of
\* the bar, rounded up.
LEMMA StepsGrow ==
  ASSUME NEW w \in Nat, NEW x \in Nat, NEW d \in Nat, 15 * d <= Arc
  PROVE  /\ Steps(w, x) <= Steps(w, x + d)
         /\ 15 * (Steps(w, x + d) - Steps(w, x)) < w + 15
<1> DEFINE a == Steps(w, x)
           b == Steps(w, x + d)
           e == w * d
           f == w * x
<1>1. Arc \in Nat \ {0} /\ x + d \in Nat
  BY ArcConstants DEF Arc
<1>2. /\ a \in Nat /\ Arc * a <= f /\ f < Arc * a + Arc
      /\ b \in Nat /\ Arc * b <= f + e /\ f + e < Arc * b + Arc
  <2>1. w * (x + d) = f + e
    OBVIOUS
  <2> QED
    BY <1>1, <2>1, StepsRound
<1>3. e \in Nat /\ f \in Nat /\ 15 * e <= Arc * w
  <2>1. w * (Arc - 15 * d) >= 0
    BY <1>1
  <2>2. w * (Arc - 15 * d) = Arc * w - 15 * e
    BY <1>1
  <2> QED
    BY <1>1, <2>1, <2>2
<1> HIDE DEF a, b, e, f
<1>4. a <= b
  <2>1. Arc * a < Arc * (b + 1)
    BY <1>1, <1>2, <1>3
  <2> QED
    BY <1>1, <1>2, <2>1, Cancel
<1>5. 15 * (b - a) < w + 15
  <2> DEFINE g == 15 * (b - a)
             h == w + 15
  <2>1. Arc * g < Arc * h
    <3>1. Arc * g = 15 * (Arc * b) - 15 * (Arc * a) /\ Arc * h = Arc * w + 15 * Arc
      BY <1>1, <1>2
    <3> QED
      BY <1>1, <1>2, <1>3, <3>1
  <2>2. g \in Int /\ h \in Int
    BY <1>2
  <2> HIDE DEF g, h
  <2>3. g < h
    BY <1>1, <2>1, <2>2, Cancel
  <2> QED
    BY <2>3 DEF g, h
<1> QED
  BY <1>4, <1>5 DEF a, b

\* What the two ends of the bar stand for.
LEMMA StepsEnds ==
  ASSUME NEW w \in Nat \ {0}, NEW x \in Nat
  PROVE  /\ x <= Arc => Steps(w, x) <= w
         /\ x >= Arc => Steps(w, x) >= w
         /\ 15 * x < Arc => 15 * Steps(w, x) < w
<1> DEFINE a == Steps(w, x)
           f == w * x
<1>1. Arc \in Nat \ {0}
  BY ArcConstants DEF Arc
<1>2. a \in Nat /\ Arc * a <= f /\ f < Arc * a + Arc
  BY StepsRound
<1>3. /\ f \in Nat
      /\ x <= Arc => f <= Arc * w
      /\ x >= Arc => f >= Arc * w
      /\ 15 * x < Arc => 15 * f < Arc * w
  <2>1. /\ w * (Arc - x) = Arc * w - f
        /\ w * (Arc - 15 * x) = Arc * w - 15 * f
    BY <1>1
  <2>2. /\ x <= Arc => w * (Arc - x) >= 0
        /\ x >= Arc => w * (Arc - x) <= 0
        /\ 15 * x < Arc => w * (Arc - 15 * x) > 0
    BY <1>1
  <2> QED
    BY <1>1, <2>1, <2>2
<1> HIDE DEF a, f
<1>4. ASSUME x <= Arc PROVE a <= w
  BY <1>1, <1>2, <1>3, <1>4, Cancel
<1>5. ASSUME x >= Arc PROVE a >= w
  <2>1. Arc * w < Arc * (a + 1)
    BY <1>1, <1>2, <1>3, <1>5
  <2>2. w < a + 1
    BY <1>1, <1>2, <2>1, Cancel
  <2> QED
    BY <1>2, <2>2
<1>6. ASSUME 15 * x < Arc PROVE 15 * a < w
  <2>1. Arc * (15 * a) < Arc * w
    BY <1>1, <1>2, <1>3, <1>6
  <2> QED
    BY <1>1, <1>2, <2>1, Cancel
<1> QED
  BY <1>4, <1>5, <1>6 DEF a

\* Two angles a slow step apart, whichever comes first.
LEMMA StepsNear ==
  ASSUME NEW w \in Nat, NEW x \in Nat, NEW y \in Nat,
         15 * (y - x) <= Arc, 15 * (x - y) <= Arc
  PROVE  /\ Steps(w, x) \in Nat /\ Steps(w, y) \in Nat
         /\ 15 * (Steps(w, y) - Steps(w, x)) < w + 15
         /\ 15 * (Steps(w, x) - Steps(w, y)) < w + 15
         /\ x <= y => Steps(w, x) <= Steps(w, y)
         /\ y <= x => Steps(w, y) <= Steps(w, x)
<1>1. Steps(w, x) \in Nat /\ Steps(w, y) \in Nat
  BY StepsRound
<1>2. CASE x <= y
  <2>1. y - x \in Nat /\ x + (y - x) = y
    BY <1>2
  <2>2. /\ Steps(w, x) <= Steps(w, y)
        /\ 15 * (Steps(w, y) - Steps(w, x)) < w + 15
    BY <2>1, StepsGrow
  <2>3. y <= x => Steps(w, y) = Steps(w, x)
    <3>1. y <= x => y = x
      BY <1>2
    <3> QED
      BY <3>1
  <2> QED
    BY <1>1, <2>2, <2>3
<1>3. CASE y <= x
  <2>1. x - y \in Nat /\ y + (x - y) = x
    BY <1>3
  <2>2. /\ Steps(w, y) <= Steps(w, x)
        /\ 15 * (Steps(w, x) - Steps(w, y)) < w + 15
    BY <2>1, StepsGrow
  <2>3. x <= y => Steps(w, y) = Steps(w, x)
    <3>1. x <= y => y = x
      BY <1>3
    <3> QED
      BY <3>1
  <2> QED
    BY <1>1, <2>2, <2>3
<1> QED
  BY <1>2, <1>3

----------------------------------------------------------------------------
(* Where a finger is, counted from StartAngle, and how it turns.           *)

Place(deg) == Relative(deg) - StartAngle
TurnOf(from, to) ==
    LET d == to - from
    IN  IF d > 180 THEN d - 360 ELSE IF d < -180 THEN d + 360 ELSE d

LEMMA ClockwiseType == \A from, to : Clockwise(from, to) \in BOOLEAN
<1> SUFFICES ASSUME NEW from, NEW to PROVE Clockwise(from, to) \in BOOLEAN
  OBVIOUS
<1>1. CASE to \in 0..90
  <2>1. Clockwise(from, to) = (to > from)
    BY <1>1, Zenon DEF Clockwise
  <2> QED
    BY <2>1
<1>2. CASE ~(to \in 0..90) /\ from > 0
  <2>1. Clockwise(from, to) = (to > from \/ to < 0)
    BY <1>2, Zenon DEF Clockwise
  <2> QED
    BY <2>1
<1>3. CASE ~(to \in 0..90) /\ ~(from > 0)
  <2>1. Clockwise(from, to) = (to < 0 /\ to > from)
    BY <1>3, Zenon DEF Clockwise
  <2> QED
    BY <2>1
<1> QED
  BY <1>1, <1>2, <1>3

LEMMA PlaceType ==
  ASSUME NEW deg \in Degrees
  PROVE  /\ Place(deg) \in 0..359
         /\ Place(deg) = deg - StartAngle + (IF deg < StartAngle THEN 360 ELSE 0)
<1>1. deg \in -179..180 /\ StartAngle \in 91..180
  BY ArcConstants
<1>2. CASE deg < StartAngle
  BY <1>1, <1>2 DEF Place, Relative
<1>3. CASE deg >= StartAngle
  BY <1>1, <1>3 DEF Place, Relative
<1>4. QED
  BY <1>1, <1>2, <1>3

(***************************************************************************)
(* A slow turn moves the place by as much, unless it crosses the gap: then *)
(* it begins or ends right after StartAngle, and ends or begins beyond the *)
(* bar.  calcTouchState is right about it but for the step over three      *)
(* o'clock, where no gap is near.                                          *)
(***************************************************************************)
LEMMA FingerTurns ==
  ASSUME NEW from \in Degrees, NEW to \in Degrees, from # to,
         NEW d \in Int, d = TurnOf(from, to), d \in (-MaxStep)..MaxStep
  PROVE  /\ d # 0 /\ 15 * d <= Arc /\ 15 * (-d) <= Arc
         /\ d > 0 => /\ Clockwise(from, to)
                     /\ \/ Place(to) = Place(from) + d
                        \/ 15 * Place(to) < Arc /\ Place(from) > Arc
         /\ d < 0 => \/ Place(to) = Place(from) + d
                     \/ /\ 15 * Place(from) < Arc /\ Place(to) > Arc
                        /\ ~Clockwise(from, to)
         /\ d < 0 /\ Clockwise(from, to) => from > 0 /\ to < 0
<1>1. /\ from \in -179..180 /\ to \in -179..180 /\ MaxStep \in Nat \ {0}
      /\ 15 * MaxStep <= Arc /\ Arc + MaxStep < 360 /\ Arc = EndAngle - StartAngle
      /\ StartAngle \in 91..180 /\ Arc \in 181..359
  BY ArcConstants DEF Arc
<1>2. /\ Place(from) \in 0..359 /\ Place(to) \in 0..359
      /\ Place(from) = from - StartAngle + (IF from < StartAngle THEN 360 ELSE 0)
      /\ Place(to) = to - StartAngle + (IF to < StartAngle THEN 360 ELSE 0)
  BY PlaceType
<1>3. /\ d # 0 /\ 15 * d <= Arc /\ 15 * (-d) <= Arc /\ d <= 23 /\ d >= -23
  BY <1>1 DEF TurnOf
<1>4. \/ d = to - from
      \/ d = to - from - 360 /\ to - from > 180
      \/ d = to - from + 360 /\ to - from < -180
  BY <1>1 DEF TurnOf
<1>5. d > 0 => Clockwise(from, to)
  BY <1>1, <1>3, <1>4 DEF Clockwise
<1>6. d < 0 /\ Clockwise(from, to) => from > 0 /\ to < 0 /\ from <= 22 /\ to >= -22
  BY <1>1, <1>3, <1>4 DEF Clockwise
<1>7. d > 0 => Place(to) = Place(from) + d \/ Place(to) = Place(from) + d - 360
  BY <1>1, <1>2, <1>3, <1>4, SMTT(30)
<1>8. d < 0 => Place(to) = Place(from) + d \/ Place(to) = Place(from) + d + 360
  BY <1>1, <1>2, <1>3, <1>4, SMTT(30)
<1>9. d < 0 /\ Clockwise(from, to) => Place(to) = Place(from) + d
  BY <1>1, <1>2, <1>3, <1>4, <1>6, SMTT(30)
<1>10. Place(to) = Place(from) + d - 360 => 15 * Place(to) < Arc /\ Place(from) > Arc
  BY <1>1, <1>2, <1>3, SMTT(30)
<1>11. Place(to) = Place(from) + d + 360 => 15 * Place(from) < Arc /\ Place(to) > Arc
  BY <1>1, <1>2, <1>3
<1> QED
  BY <1>3, <1>5, <1>6, <1>7, <1>8, <1>9, <1>10, <1>11

\* The value under a finger, on a plain and on a reversed bar.
LEMMA ValueOfPlace ==
  ASSUME TypeOK, min < max, NEW deg \in Degrees
  PROVE  /\ max - min \in Nat \ {0}
         /\ Place(deg) \in Nat /\ Steps(max - min, Place(deg)) \in Nat
         /\ ValueAt(deg) = IF reverse THEN max - min - Steps(max - min, Place(deg))
                           ELSE min + Steps(max - min, Place(deg))
<1>1. min \in Int /\ max \in Int /\ min < max
  BY ArcConstants DEF TypeOK
<1>2. Width = max - min /\ max - min \in Nat \ {0}
  BY <1>1 DEF Width
<1>3. Place(deg) \in Nat
  BY PlaceType
<1>4. Steps(max - min, Place(deg)) \in Nat
  BY <1>2, <1>3, StepsRound
<1> DEFINE q == Steps(max - min, Place(deg))
<1>5. q = Quotient(Width * (Relative(deg) - StartAngle), EndAngle - StartAngle)
  BY <1>2 DEF Steps, Place, Arc
<1>6. ValueAt(deg) = IF reverse THEN max - (min + q) ELSE min + q
  BY <1>5 DEF ValueAt
<1> HIDE DEF q
<1>7. q \in Nat
  BY <1>4 DEF q
<1>8. ValueAt(deg) = IF reverse THEN max - min - q ELSE min + q
  BY <1>1, <1>6, <1>7
<1> QED
  BY <1>2, <1>3, <1>4, <1>8 DEF q

\* What a step of a drag does to a free slider.
LEMMA DragStep ==
  ASSUME TypeOK, [Next]_vars, SlowDrag, Free
  PROVE  /\ last \in Degrees /\ last' \in Degrees /\ last # last'
         /\ TurnOf(last, last') \in (-MaxStep)..MaxStep
         /\ min < max
         /\ min' = min /\ max' = max /\ reverse' = reverse
         /\ progress' = IF LeavesTooFar(last, last') THEN progress
                        ELSE Clamp(Dragged(last, last'))
<1>1. /\ last' # last /\ touching /\ down /\ UNCHANGED settings
      /\ TurnOf(last, last') \in (-MaxStep)..MaxStep
  BY DEF SlowDrag, Dragging, Turn, TurnOf
<1>2. PICK deg \in Degrees : Move(deg)
  <2>1. last' # last
    BY <1>1
  <2>2. ~Draw /\ ~ShowSlider /\ \A q \in Values : ~SetProgress(q)
    BY <2>1 DEF Draw, ShowSlider, SetProgress
  <2>3. /\ \A lo \in Mins : ~SetMin(lo)
        /\ \A hi \in Maxs : ~SetMax(hi)
        /\ \A r \in Ranges : ~SetRange(r[1], r[2])
    BY <2>1 DEF SetMin, SetMax, SetRange
  <2>4. \A deg \in Degrees : ~Lift(deg) /\ \A onArc \in BOOLEAN : ~Press(deg, onArc)
    BY <1>1 DEF SlowDrag, Dragging, Lift, Press
  <2>5. ~UNCHANGED vars
    BY <2>1 DEF vars
  <2> QED
    BY <2>2, <2>3, <2>4, <2>5 DEF Next
<1>3. last' = deg /\ last \in Degrees
  BY <1>2 DEF Move, TypeOK
<1>4. \A q : SetTo(q) = Clamp(q)
  BY DEF Free, SetTo, Ranged
<1>5. progress' = IF LeavesTooFar(last, last') THEN progress ELSE Clamp(Dragged(last, last'))
  BY <1>1, <1>2, <1>3, <1>4 DEF Move
<1>6. min < max
  BY ArcConstants DEF Free, TypeOK
<1> QED
  BY <1>1, <1>2, <1>3, <1>5, <1>6 DEF settings

(***************************************************************************)
(* The steps q and r under the finger before and after a slow step: near   *)
(* each other, or on both sides of the gap.                                *)
(***************************************************************************)
LEMMA FingerSteps ==
  ASSUME TypeOK, min < max, NEW from \in Degrees, NEW to \in Degrees, from # to,
         TurnOf(from, to) \in (-MaxStep)..MaxStep,
         NEW w, w = max - min, NEW q, q = Steps(w, Place(from)), NEW r, r = Steps(w, Place(to))
  PROVE  /\ w \in Nat \ {0} /\ q \in Nat /\ r \in Nat
         /\ \/ 15 * (q - r) < w + 15 /\ 15 * (r - q) < w + 15
            \/ Clockwise(from, to) /\ 15 * r < w /\ q >= w
            \/ ~Clockwise(from, to) /\ 15 * q < w /\ r >= w
<1> DEFINE x == Place(from)
           y == Place(to)
           d == TurnOf(from, to)
<1>1. w \in Nat \ {0} /\ x \in Nat /\ y \in Nat /\ q \in Nat /\ r \in Nat
  BY ValueOfPlace
<1>2. Arc \in Nat /\ d \in Int
  BY ArcConstants DEF Arc
<1>3. /\ d # 0 /\ 15 * d <= Arc /\ 15 * (-d) <= Arc
      /\ d > 0 => Clockwise(from, to) /\ (y = x + d \/ (15 * y < Arc /\ x > Arc))
      /\ d < 0 => y = x + d \/ (15 * x < Arc /\ y > Arc /\ ~Clockwise(from, to))
  BY <1>2, FingerTurns
<1> HIDE DEF x, y, d
<1>4. q = Steps(w, x) /\ r = Steps(w, y)
  BY DEF x, y
<1>5. CASE y = x + d
  <2>1. 15 * (y - x) <= Arc /\ 15 * (x - y) <= Arc
    BY <1>1, <1>2, <1>3, <1>5
  <2>2. 15 * (q - r) < w + 15 /\ 15 * (r - q) < w + 15
    BY <1>1, <1>4, <2>1, StepsNear
  <2> QED
    BY <1>1, <2>2
<1>6. CASE y # x + d /\ d > 0
  <2>1. Clockwise(from, to) /\ 15 * y < Arc /\ x >= Arc
    BY <1>1, <1>2, <1>3, <1>6
  <2>2. 15 * r < w /\ q >= w
    BY <1>1, <1>4, <2>1, StepsEnds
  <2> QED
    BY <1>1, <2>1, <2>2
<1>7. CASE y # x + d /\ d < 0
  <2>1. ~Clockwise(from, to) /\ 15 * x < Arc /\ y >= Arc
    BY <1>1, <1>2, <1>3, <1>7
  <2>2. 15 * q < w /\ r >= w
    BY <1>1, <1>4, <2>1, StepsEnds
  <2> QED
    BY <1>1, <2>1, <2>2
<1> QED
  BY <1>2, <1>3, <1>5, <1>6, <1>7

\* The eighths the drag is told by, without their quotients.
LEMMA Eighths ==
  ASSUME TypeOK, min < max
  PROVE  /\ Quotient((max - min) * 7, 8) \in Nat
         /\ 8 * Quotient((max - min) * 7, 8) <= 7 * (max - min)
         /\ 7 * (max - min) < 8 * Quotient((max - min) * 7, 8) + 8
         /\ Quotient(max - min, 8) \in Nat
         /\ 8 * Quotient(max - min, 8) <= max - min
         /\ max - min < 8 * Quotient(max - min, 8) + 8
<1>1. min \in Int /\ max \in Int /\ min < max
  BY ArcConstants DEF TypeOK
<1> DEFINE w == max - min
<1>2. w \in Nat /\ w * 7 \in Nat /\ w * 7 = 7 * w
  BY <1>1
<1> HIDE DEF w
<1>3. Quotient(w * 7, 8) = (w * 7) \div 8 /\ Quotient(w, 8) = w \div 8
  BY <1>2 DEF Quotient
<1>4. /\ Quotient(w * 7, 8) \in Nat
      /\ 8 * Quotient(w * 7, 8) <= 7 * w /\ 7 * w < 8 * Quotient(w * 7, 8) + 8
      /\ Quotient(w, 8) \in Nat
      /\ 8 * Quotient(w, 8) <= w /\ w < 8 * Quotient(w, 8) + 8
  BY <1>2, <1>3
<1> QED
  BY <1>4 DEF w

\* A bar that is free has its limits in their order; under a finger, or at an
\* end, the slider is within them.
LEMMA BarInOrder ==
  ASSUME TypeOK, Free, UnderFinger \/ progress \in {min, max}
  PROVE  /\ min \in Int /\ max \in Int /\ progress \in min..max
         /\ max - min \in Nat /\ max - min >= 8 /\ max = min + (max - min)
         /\ reverse \in BOOLEAN
<1>1. min \in Int /\ max \in Int /\ max - min >= 8 /\ reverse \in BOOLEAN
  BY ArcConstants DEF TypeOK, Free
<1>2. ValueAt(last) \in Int
  BY ValueType DEF TypeOK
<1>3. Clamp(ValueAt(last)) \in min..max
  BY <1>1, <1>2 DEF Clamp
<1> QED
  BY <1>1, <1>3 DEF UnderFinger

\* The guards of the two ends, for bars whose limits are in their order: a value
\* at the lower end is not in the eighth at the upper one.
TooFar(up, p, t, b) ==
    \/ up /\ progress = min /\ p - min > b
    \/ ~up /\ progress = max /\ p - min < t
Asked(up, p, t, b) ==
    IF up /\ p < progress /\ progress - min > t THEN max
    ELSE IF ~up /\ p > progress /\ progress - min < b THEN min ELSE p

LEMMA DragMeans ==
  ASSUME TypeOK, min < max, NEW from \in Degrees, NEW to \in Degrees
  PROVE  /\ LeavesTooFar(from, to) <=>
              TooFar(Clockwise(from, to) # reverse, ValueAt(to),
                     Quotient((max - min) * 7, 8), Quotient(max - min, 8))
         /\ Dragged(from, to) =
              Asked(Clockwise(from, to) # reverse, ValueAt(to),
                    Quotient((max - min) * 7, 8), Quotient(max - min, 8))
<1> DEFINE up == Clockwise(from, to) # reverse
           p == ValueAt(to)
           t == Quotient((max - min) * 7, 8)
           b == Quotient(max - min, 8)
<1>1. /\ min \in Int /\ max \in Int /\ progress \in Int /\ p \in Int
      /\ reverse \in BOOLEAN /\ Clockwise(from, to) \in BOOLEAN
  BY ArcConstants, ValueType, ClockwiseType DEF TypeOK
<1>2. t \in Nat /\ b \in Nat /\ 8 * b <= max - min
  BY Eighths
<1>3. /\ TopEighth(progress) <=> progress - min > t
      /\ BottomEighth(progress) <=> progress - min < b
  BY DEF TopEighth, BottomEighth
<1>4. ~up <=> Clockwise(from, to) = reverse
  OBVIOUS
<1> HIDE DEF t, b
<1>5. /\ PastTop(from, to) <=> up /\ p < progress /\ progress - min > t
      /\ PastBottom(from, to) <=> ~up /\ p > progress /\ progress - min < b
  BY <1>3, <1>4, Zenon DEF PastTop, PastBottom, t, b
<1>6. /\ ~(progress = min /\ progress - min > t)
      /\ ~(progress = max /\ progress - min < b)
  BY <1>1, <1>2
<1>7. LeavesTooFar(from, to) <=>
        ~PastTop(from, to) /\ ~PastBottom(from, to) /\ TooFar(up, p, t, b)
  BY <1>4, Zenon DEF LeavesTooFar, TooFar, t, b
<1>8. LeavesTooFar(from, to) <=> TooFar(up, p, t, b)
  BY <1>5, <1>6, <1>7, Zenon DEF TooFar
<1>9. Dragged(from, to) = Asked(up, p, t, b)
  <2>1. CASE PastTop(from, to)
    <3>1. Dragged(from, to) = max
      BY <1>5, <2>1, Zenon DEF Dragged
    <3> QED
      BY <1>5, <2>1, <3>1, Zenon DEF Asked
  <2>2. CASE PastBottom(from, to)
    <3>1. ~PastTop(from, to)
      BY <1>5, <2>2, Zenon
    <3>2. Dragged(from, to) = min
      BY <2>2, <3>1, Zenon DEF Dragged
    <3> QED
      BY <1>5, <2>2, <3>2, Zenon DEF Asked
  <2>3. CASE ~PastTop(from, to) /\ ~PastBottom(from, to)
    <3>1. Dragged(from, to) = p
      BY <2>3, Zenon DEF Dragged
    <3> QED
      BY <1>5, <2>3, <3>1, Zenon DEF Asked
  <2> QED
    BY <2>1, <2>2, <2>3, Zenon
<1> QED
  BY <1>8, <1>9 DEF t, b

(***************************************************************************)
(* One slow step does not jump.  If it does not cross the gap it moves the *)
(* value by too little.  If it crosses it from an end, the slider is kept  *)
(* there, by the guard of that end; if it crosses it elsewhere, the value  *)
(* it begins with or the one it asks for is at neither end.                *)
(***************************************************************************)
LEMMA StepDoesNotJump ==
  ASSUME TypeOK, [Next]_vars, SlowDrag, Free, reverse => min >= 0,
         UnderFinger \/ progress \in {min, max}
  PROVE  /\ ~(AtTop(progress) /\ AtBottom(progress'))
         /\ ~(AtBottom(progress) /\ AtTop(progress'))
<1> DEFINE w == max - min
           q == Steps(w, Place(last))
           r == Steps(w, Place(last'))
           clockwise == Clockwise(last, last')
           up == clockwise # reverse
           p == ValueAt(last')
           t == Quotient(w * 7, 8)
           b == Quotient(w, 8)
<1>1. /\ last \in Degrees /\ last' \in Degrees /\ last # last'
      /\ TurnOf(last, last') \in (-MaxStep)..MaxStep /\ min < max
      /\ progress' = IF LeavesTooFar(last, last') THEN progress
                     ELSE Clamp(Dragged(last, last'))
  BY DragStep
<1>2. /\ min \in Int /\ max \in Int /\ progress \in min..max
      /\ w \in Nat /\ w >= 8 /\ max = min + w /\ reverse \in BOOLEAN
  BY BarInOrder
<1>3. /\ w \in Nat /\ q \in Nat /\ r \in Nat
      /\ \/ 15 * (q - r) < w + 15 /\ 15 * (r - q) < w + 15
         \/ clockwise /\ 15 * r < w /\ q >= w
         \/ ~clockwise /\ 15 * q < w /\ r >= w
  BY <1>1, FingerSteps
<1>4. p = IF reverse THEN w - r ELSE min + r
  BY <1>1, ValueOfPlace
<1>5. UnderFinger => progress = Clamp(IF reverse THEN w - q ELSE min + q)
  BY <1>1, ValueOfPlace DEF UnderFinger
<1>6. /\ t \in Nat /\ 8 * t <= 7 * w /\ 7 * w < 8 * t + 8
      /\ b \in Nat /\ 8 * b <= w /\ w < 8 * b + 8
  BY <1>1, Eighths
<1>7. LeavesTooFar(last, last') <=> \/ up /\ progress = min /\ p - min > b
                                    \/ ~up /\ progress = max /\ p - min < t
  BY <1>1, DragMeans DEF TooFar
<1>8. Dragged(last, last') =
        IF up /\ p < progress /\ progress - min > t THEN max
        ELSE IF ~up /\ p > progress /\ progress - min < b THEN min ELSE p
  BY <1>1, DragMeans DEF Asked
<1> DEFINE v == progress
           n == progress'
<1>9. AtTop(v) <=> 8 * (v - min) > 7 * w
  BY DEF AtTop
<1>10. AtBottom(v) <=> 8 * (v - min) < w
  BY DEF AtBottom
<1>11. AtTop(n) <=> 8 * (n - min) > 7 * w
  BY DEF AtTop
<1>12. AtBottom(n) <=> 8 * (n - min) < w
  BY DEF AtBottom
<1>13. clockwise \in BOOLEAN
  BY ClockwiseType
<1> HIDE DEF w, q, r, clockwise, p, t, b
<1>14. ASSUME AtTop(v), AtBottom(n) PROVE FALSE
  <2>1. ~LeavesTooFar(last, last') /\ n = Clamp(Dragged(last, last'))
    BY <1>1, <1>2, <1>3, <1>9, <1>12, <1>14
  <2>2. v - min > t /\ v > min
    BY <1>2, <1>6, <1>9, <1>14
  <2>3. Clamp(max) = max /\ Clamp(min) = min /\ ~AtBottom(max)
    BY <1>2 DEF Clamp, AtBottom, w
  <2>4. ~(up /\ p < v)
    BY <1>8, <1>14, <2>1, <2>2, <2>3
  <2>5. b <= t
    BY <1>2, <1>6
  <2>6. n = Clamp(p)
    BY <1>2, <1>6, <1>8, <2>1, <2>2, <2>4, <2>5
  <2>7. p < v /\ ~up /\ 8 * (p - min) < w
    BY <1>2, <1>3, <1>4, <1>9, <1>12, <1>14, <2>4, <2>6 DEF Clamp
  <2>8. v # max
    BY <1>2, <1>3, <1>4, <1>6, <1>7, <2>1, <2>7
  <2>9. v = Clamp(IF reverse THEN w - q ELSE min + q)
    BY <1>2, <1>5, <2>2, <2>8
  <2>10. 8 * ((IF reverse THEN w - q ELSE min + q) - min) > 7 * w
    BY <1>2, <1>3, <1>9, <1>14, <2>9 DEF Clamp
  <2>11. CASE reverse
    BY <1>2, <1>3, <1>4, <2>7, <2>10, <2>11
  <2>12. CASE ~reverse
    BY <1>2, <1>3, <1>4, <1>13, <2>7, <2>10, <2>12
  <2> QED
    BY <2>11, <2>12
<1>15. ASSUME AtBottom(v), AtTop(n) PROVE FALSE
  <2>1. ~LeavesTooFar(last, last') /\ n = Clamp(Dragged(last, last'))
    BY <1>1, <1>2, <1>3, <1>10, <1>11, <1>15
  <2>2. v - min <= t /\ v # max
    BY <1>2, <1>6, <1>10, <1>15
  <2>3. Clamp(min) = min /\ ~AtTop(min)
    BY <1>2 DEF Clamp, AtTop, w
  <2>4. Dragged(last, last') = p /\ n = Clamp(p)
    BY <1>2, <1>6, <1>8, <1>15, <2>1, <2>2, <2>3
  <2>5. p > v /\ 8 * (p - min) > 7 * w
    BY <1>2, <1>3, <1>4, <1>10, <1>11, <1>15, <2>4 DEF Clamp
  <2>6. ~(~up /\ v - min < b)
    BY <1>2, <1>3, <1>6, <1>8, <1>15, <2>1, <2>3, <2>4, <2>5
  <2>7. v # min
    <3>1. 0 < b /\ p - min > b
      BY <1>2, <1>3, <1>4, <1>6, <2>5
    <3> QED
      BY <1>2, <1>6, <1>7, <2>1, <2>6, <3>1
  <2>8. v = Clamp(IF reverse THEN w - q ELSE min + q)
    BY <1>5, <2>2, <2>7
  <2>9. v = IF reverse THEN w - q ELSE min + q
    BY <1>2, <1>3, <2>2, <2>7, <2>8 DEF Clamp
  <2>10. ~(15 * (q - r) < w + 15 /\ 15 * (r - q) < w + 15)
    BY <1>2, <1>3, <1>4, <1>10, <1>15, <2>5, <2>9
  <2>11. CASE reverse
    BY <1>2, <1>3, <1>4, <2>5, <2>7, <2>9, <2>10, <2>11
  <2>12. CASE ~reverse
    BY <1>2, <1>3, <1>4, <1>6, <1>13, <2>5, <2>6, <2>9, <2>10, <2>12
  <2> QED
    BY <2>11, <2>12
<1> QED
  BY <1>14, <1>15

(***************************************************************************)
(* However slowly, a finger does not drag the slider from one end of the   *)
(* bar to the other over the gap between them.                             *)
(***************************************************************************)
THEOREM NeverRound == Spec => NoJump
<1> DEFINE Stays ==
      SlowDrag /\ Free /\ (reverse => min >= 0) /\ (UnderFinger \/ progress \in {min, max})
      => ~(AtTop(progress) /\ AtBottom(progress')) /\ ~(AtBottom(progress) /\ AtTop(progress'))
<1>1. TypeOK /\ [Next]_vars => [Stays]_vars
  BY StepDoesNotJump
<1> QED
  BY <1>1, TypeCorrect, PTL DEF Spec, NoJump

----------------------------------------------------------------------------
(* Along the bar there is no gap to cross, and calcTouchState is right but *)
(* over three o'clock.                                                     *)

LEMMA StepsAlongBar ==
  ASSUME TypeOK, min < max, NEW from \in Degrees, NEW to \in Degrees, from # to,
         TurnOf(from, to) \in (-MaxStep)..MaxStep,
         Relative(from) <= EndAngle, Relative(to) <= EndAngle,
         ~(from > 0 /\ to < 0 /\ TurnOf(from, to) < 0),
         NEW w, w = max - min, NEW q, q = Steps(w, Place(from)), NEW r, r = Steps(w, Place(to))
  PROVE  /\ q <= w /\ r <= w
         /\ 15 * (q - r) < w + 15 /\ 15 * (r - q) < w + 15
         /\ Clockwise(from, to) => q <= r
         /\ ~Clockwise(from, to) => r <= q
<1> DEFINE x == Place(from)
           y == Place(to)
           d == TurnOf(from, to)
<1>1. w \in Nat \ {0} /\ x \in Nat /\ y \in Nat /\ q \in Nat /\ r \in Nat
  BY ValueOfPlace
<1>2. Arc \in Nat /\ d \in Int /\ x <= Arc /\ y <= Arc
  BY <1>1, ArcConstants, RelativeType DEF Arc, Place
<1>3. /\ d # 0 /\ 15 * d <= Arc /\ 15 * (-d) <= Arc
      /\ d > 0 => Clockwise(from, to) /\ (y = x + d \/ (15 * y < Arc /\ x > Arc))
      /\ d < 0 => y = x + d \/ (15 * x < Arc /\ y > Arc /\ ~Clockwise(from, to))
      /\ d < 0 => ~Clockwise(from, to)
  BY <1>2, FingerTurns
<1> HIDE DEF x, y, d
<1>4. q = Steps(w, x) /\ r = Steps(w, y)
  BY DEF x, y
<1>5. y = x + d
  BY <1>1, <1>2, <1>3
<1>6. 15 * (y - x) <= Arc /\ 15 * (x - y) <= Arc
  BY <1>1, <1>2, <1>3, <1>5
<1>7. /\ 15 * (q - r) < w + 15 /\ 15 * (r - q) < w + 15
      /\ x <= y => q <= r
      /\ y <= x => r <= q
  <2>1. /\ 15 * (Steps(w, y) - Steps(w, x)) < w + 15
        /\ 15 * (Steps(w, x) - Steps(w, y)) < w + 15
        /\ x <= y => Steps(w, x) <= Steps(w, y)
        /\ y <= x => Steps(w, y) <= Steps(w, x)
    BY <1>1, <1>6, StepsNear
  <2> QED
    BY <1>4, <2>1
<1>8. q <= w /\ r <= w
  BY <1>1, <1>2, <1>4, StepsEnds
<1>9. /\ Clockwise(from, to) => x <= y
      /\ ~Clockwise(from, to) => y <= x
  BY <1>1, <1>2, <1>3, <1>5
<1> QED
  BY <1>7, <1>8, <1>9

(***************************************************************************)
(* A turn the right way never asks for less, and a slow one never leaves   *)
(* an end by more than the eighth that LeavesTooFar allows.                *)
(***************************************************************************)
LEMMA StepFollows ==
  ASSUME TypeOK, [Next]_vars, SlowDrag, Free, UnderFinger,
         OnBar(last), OnBar(last)', ~OverThreeOClock
  PROVE  UnderFinger'
<1> DEFINE w == max - min
           q == Steps(w, Place(last))
           r == Steps(w, Place(last'))
           clockwise == Clockwise(last, last')
           up == clockwise # reverse
           p == ValueAt(last')
           t == Quotient(w * 7, 8)
           b == Quotient(w, 8)
           v == progress
<1>1. /\ last \in Degrees /\ last' \in Degrees /\ last # last'
      /\ TurnOf(last, last') \in (-MaxStep)..MaxStep /\ min < max
      /\ min' = min /\ max' = max /\ reverse' = reverse
      /\ progress' = IF LeavesTooFar(last, last') THEN progress
                     ELSE Clamp(Dragged(last, last'))
  BY DragStep
<1>2. /\ min \in Int /\ max \in Int /\ progress \in min..max
      /\ w \in Nat /\ w >= 8 /\ max = min + w /\ reverse \in BOOLEAN
  BY BarInOrder
<1>3. q \in Nat /\ r \in Nat
  BY <1>1, ValueOfPlace
<1>4. /\ q <= w /\ r <= w
      /\ 15 * (q - r) < w + 15 /\ 15 * (r - q) < w + 15
      /\ clockwise => q <= r
      /\ ~clockwise => r <= q
  <2>1. Relative(last) <= EndAngle /\ Relative(last') <= EndAngle
    BY DEF OnBar, Relative
  <2>2. ~(last > 0 /\ last' < 0 /\ TurnOf(last, last') < 0)
    BY DEF OverThreeOClock, Turn, TurnOf
  <2> QED
    BY <1>1, <2>1, <2>2, StepsAlongBar
<1>5. p = IF reverse THEN w - r ELSE min + r
  BY <1>1, ValueOfPlace
<1>6. v = Clamp(IF reverse THEN w - q ELSE min + q)
  BY <1>1, ValueOfPlace DEF UnderFinger
<1>7. /\ t \in Nat /\ 8 * t <= 7 * w /\ 7 * w < 8 * t + 8
      /\ b \in Nat /\ 8 * b <= w /\ w < 8 * b + 8
  BY <1>1, Eighths
<1>8. LeavesTooFar(last, last') <=> \/ up /\ v = min /\ p - min > b
                                    \/ ~up /\ v = max /\ p - min < t
  BY <1>1, DragMeans DEF TooFar
<1>9. Dragged(last, last') =
        IF up /\ p < v /\ v - min > t THEN max
        ELSE IF ~up /\ p > v /\ v - min < b THEN min ELSE p
  BY <1>1, DragMeans DEF Asked
<1>10. clockwise \in BOOLEAN
  BY ClockwiseType
<1>11. UnderFinger' <=> progress' = Clamp(p)
  BY <1>1 DEF UnderFinger, Clamp, ValueAt, Width, Relative
<1> HIDE DEF w, q, r, clockwise, p, t, b, v
<1>12. p \in Int /\ v \in min..max
  BY <1>2, <1>3, <1>5 DEF v
<1>13. CASE up
  <2>1. (IF reverse THEN w - q ELSE min + q) <= p
    BY <1>2, <1>3, <1>4, <1>5, <1>10, <1>13
  <2>2. ~(p < v /\ v - min > t)
    BY <1>2, <1>3, <1>6, <1>7, <1>12, <2>1 DEF Clamp
  <2>3. ~(v = min /\ p - min > b)
    BY <1>2, <1>3, <1>4, <1>5, <1>6, <1>7, <1>12 DEF Clamp
  <2> QED
    BY <1>1, <1>8, <1>9, <1>11, <1>13, <2>2, <2>3
<1>14. CASE ~up
  <2>1. (IF reverse THEN w - q ELSE min + q) >= p
    BY <1>2, <1>3, <1>4, <1>5, <1>10, <1>14
  <2>2. ~(p > v /\ v - min < b)
    BY <1>2, <1>3, <1>6, <1>7, <1>12, <2>1 DEF Clamp
  <2>3. ~(v = max /\ p - min < t)
    BY <1>2, <1>3, <1>4, <1>5, <1>6, <1>7, <1>12 DEF Clamp
  <2> QED
    BY <1>1, <1>8, <1>9, <1>11, <1>14, <2>2, <2>3
<1> QED
  BY <1>13, <1>14

(***************************************************************************)
(* The slider stays under a finger that moves slowly along the bar, but    *)
(* for the counter-clockwise step over three o'clock.                      *)
(***************************************************************************)
THEOREM SliderFollows == Spec => Follows
<1> DEFINE Kept ==
      SlowDrag /\ Free /\ UnderFinger /\ OnBar(last) /\ OnBar(last') /\ ~OverThreeOClock
      => UnderFinger'
<1>1. TypeOK /\ [Next]_vars => [Kept]_vars
  <2> SUFFICES ASSUME TypeOK, [Next]_vars, SlowDrag, Free, UnderFinger, OnBar(last), OnBar(last'),
                      ~OverThreeOClock
               PROVE  UnderFinger'
    OBVIOUS
  <2>1. OnBar(last)'
    BY DEF OnBar, Relative
  <2> QED
    BY <2>1, StepFollows
<1> QED
  BY <1>1, TypeCorrect, PTL DEF Spec, Follows
=============================================================================
