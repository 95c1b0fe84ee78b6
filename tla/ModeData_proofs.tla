-------------------------- MODULE ModeData_proofs ---------------------------
(***************************************************************************)
(* What the operations on a list of water modes do, for any list: they     *)
(* keep the numbers in order, and each does one thing to the row the user  *)
(* sees.                                                                   *)
(***************************************************************************)
EXTENDS ModeData, SequenceTheorems, TLAPS


(* The numbers. *)

\* deleteModeData renumbers the modes behind the one it erases.
LEMMA WithoutNumbered ==
  ASSUME NEW modes \in Seq(Mode), NumberedFrom1(modes), NEW i \in DOMAIN modes
  PROVE  Without(modes, i) \in Seq(Mode) /\ NumberedFrom1(Without(modes, i))
<1> DEFINE n == Len(modes)
<1>1. n \in Nat /\ DOMAIN modes = 1..n /\ i \in 1..n /\ n - 1 \in Nat
  OBVIOUS
<1>2. ASSUME NEW k \in 1..(n - 1)
      PROVE  /\ Without(modes, i)[k] \in Mode
             /\ Without(modes, i)[k].dataPos = k
  <2>1. k \in 1..n /\ k + 1 \in 1..n /\ k \in Nat \ {0}
    BY <1>1
  <2>2. /\ modes[k] \in Mode /\ modes[k].dataPos = k
        /\ modes[k + 1] \in Mode /\ modes[k + 1].dataPos = k + 1
    BY <1>1, <2>1 DEF NumberedFrom1
  <2>3. CASE k < i
    BY <2>2, <2>3 DEF Without
  <2>4. CASE ~(k < i)
    <3>1. Without(modes, i)[k] = [modes[k + 1] EXCEPT !.dataPos = k + 1 - 1]
      BY <2>2, <2>4 DEF Without
    <3>2. k + 1 - 1 = k
      BY <2>1
    <3>3. QED
      BY <2>1, <2>2, <3>1, <3>2 DEF Mode
  <2>5. QED
    BY <2>3, <2>4
<1>3. DOMAIN Without(modes, i) = 1..(n - 1)
  BY DEF Without
<1>4. Without(modes, i) = [k \in 1..(n - 1) |-> Without(modes, i)[k]]
  BY DEF Without
<1>5. Without(modes, i) \in Seq(Mode)
  BY <1>1, <1>2, <1>4, IsASeq
<1>6. QED
  BY <1>2, <1>3, <1>5 DEF NumberedFrom1

\* movedMode exchanges two modes and leaves the numbers where they were.
LEMMA MovedNumbered ==
  ASSUME NEW modes \in Seq(Mode), NumberedFrom1(modes),
         NEW i \in DOMAIN modes, NEW j \in DOMAIN modes, i # j
  PROVE  Moved(modes, i, j) \in Seq(Mode) /\ NumberedFrom1(Moved(modes, i, j))
<1>1. DOMAIN Moved(modes, i, j) = DOMAIN modes
  BY DEF Moved
<1>2. /\ modes[i] \in Mode /\ modes[i].dataPos = i /\ i \in Nat \ {0}
      /\ modes[j] \in Mode /\ modes[j].dataPos = j /\ j \in Nat \ {0}
  BY DEF NumberedFrom1
<1> DEFINE a == [modes[j] EXCEPT !.dataPos = modes[i].dataPos]
           b == [modes[i] EXCEPT !.dataPos = modes[j].dataPos]
<1>3. a \in Mode /\ a.dataPos = i /\ b \in Mode /\ b.dataPos = j
  BY <1>2 DEF Mode
<1>4. Moved(modes, i, j) = [modes EXCEPT ![i] = a, ![j] = b]
  BY DEF Moved
<1> HIDE DEF a, b
<1>5. Moved(modes, i, j) \in Seq(Mode)
  BY <1>3, <1>4
<1>6. NumberedFrom1(Moved(modes, i, j))
  BY <1>1, <1>3, <1>4 DEF NumberedFrom1
<1>7. QED
  BY <1>5, <1>6

\* A new mode takes the next number.
LEMMA AddedNumbered ==
  ASSUME NEW modes \in Seq(Mode), NumberedFrom1(modes), NEW m \in Mode,
         m.dataPos = Len(modes) + 1
  PROVE  Append(modes, m) \in Seq(Mode) /\ NumberedFrom1(Append(modes, m))
<1>1. Append(modes, m) \in Seq(Mode) /\ Len(Append(modes, m)) = Len(modes) + 1
  OBVIOUS
<1>2. \A i \in 1..(Len(modes) + 1) :
        Append(modes, m)[i] = IF i <= Len(modes) THEN modes[i] ELSE m
  BY AppendProperties
<1>3. QED
  BY <1>1, <1>2 DEF NumberedFrom1

\* An edited mode keeps the number it was copied with.
LEMMA EditedNumbered ==
  ASSUME NEW modes \in Seq(Mode), NumberedFrom1(modes), NEW i \in DOMAIN modes,
         NEW m \in Mode, m.dataPos = i
  PROVE  [modes EXCEPT ![i] = m] \in Seq(Mode) /\ NumberedFrom1([modes EXCEPT ![i] = m])
  BY DEF NumberedFrom1

\* The default modes are numbered.
LEMMA DefaultsNumbered ==
  DefaultModes \in Seq(Mode) /\ NumberedFrom1(DefaultModes)
<1>1. \A i \in 1..DefaultCount :
        [dataPos |-> i, default |-> TRUE, setting |-> FirstSetting] \in Mode
  BY ModeConstants DEF Mode
<1>2. DefaultModes \in Seq(Mode)
  BY <1>1, ModeConstants, IsASeq DEF DefaultModes
<1>3. QED
  BY <1>2 DEF DefaultModes, NumberedFrom1

----------------------------------------------------------------------------
(* What is left of a list without its numbers follows each operation.      *)

Shown == [default : BOOLEAN, setting : Settings]

LEMMA FaceOfList ==
  ASSUME NEW modes \in Seq(Mode)
  PROVE  Face(modes) \in Seq(Shown) /\ Len(Face(modes)) = Len(modes)
<1>1. \A i \in 1..Len(modes) :
        [default |-> modes[i].default, setting |-> modes[i].setting] \in Shown
  <2>1. ASSUME NEW i \in 1..Len(modes)
        PROVE  [default |-> modes[i].default, setting |-> modes[i].setting] \in Shown
    <3>1. modes[i] \in Mode
      OBVIOUS
    <3>2. modes[i].default \in BOOLEAN /\ modes[i].setting \in Settings
      BY <3>1 DEF Mode
    <3>3. QED
      BY <3>2 DEF Shown
  <2>2. QED
    BY <2>1
<1>2. Face(modes) = [i \in 1..Len(modes) |->
                       [default |-> modes[i].default, setting |-> modes[i].setting]]
  BY DEF Face
<1>3. QED
  BY <1>1, <1>2, IsASeq

LEMMA FaceAppended ==
  ASSUME NEW modes \in Seq(Mode), NEW m \in Mode
  PROVE  Face(Append(modes, m)) =
           Append(Face(modes), [default |-> m.default, setting |-> m.setting])
<1> DEFINE f == [default |-> m.default, setting |-> m.setting]
<1>1. Append(modes, m) \in Seq(Mode) /\ Len(Append(modes, m)) = Len(modes) + 1
  OBVIOUS
<1>2. /\ DOMAIN Face(Append(modes, m)) = 1..(Len(modes) + 1)
      /\ \A i \in 1..(Len(modes) + 1) :
           Face(Append(modes, m))[i] = IF i <= Len(modes) THEN Face(modes)[i] ELSE f
  <2>1. \A i \in 1..(Len(modes) + 1) :
          Append(modes, m)[i] = IF i <= Len(modes) THEN modes[i] ELSE m
    BY AppendProperties
  <2>2. DOMAIN Append(modes, m) = 1..(Len(modes) + 1) /\ DOMAIN modes = 1..Len(modes)
    BY <1>1
  <2>3. QED
    BY <2>1, <2>2 DEF Face
<1>3. Face(modes) \in Seq(Shown) /\ Len(Face(modes)) = Len(modes) /\ f \in Shown
  BY FaceOfList DEF Mode, Shown
<1> HIDE DEF f
<1>4. /\ DOMAIN Append(Face(modes), f) = 1..(Len(modes) + 1)
      /\ \A i \in 1..(Len(modes) + 1) :
           Append(Face(modes), f)[i] = IF i <= Len(modes) THEN Face(modes)[i] ELSE f
  BY <1>3, AppendProperties
<1>5. Face(Append(modes, m)) = Append(Face(modes), f)
  <2>1. Append(Face(modes), f) \in Seq(Shown)
    BY <1>3
  <2>2. Face(Append(modes, m)) \in Seq(Shown)
    BY <1>1, FaceOfList
  <2>3. QED
    BY <1>2, <1>4, <2>1, <2>2
<1>6. QED
  BY <1>5 DEF f

LEMMA FaceEdited ==
  ASSUME NEW modes \in Seq(Mode), NEW i \in DOMAIN modes, NEW m
  PROVE  Face([modes EXCEPT ![i] = m]) =
           [Face(modes) EXCEPT ![i] = [default |-> m.default, setting |-> m.setting]]
  BY DEF Face

LEMMA FaceWithout ==
  ASSUME NEW modes \in Seq(Mode), NEW i \in DOMAIN modes
  PROVE  Face(Without(modes, i)) =
           [k \in 1..(Len(Face(modes)) - 1) |->
              IF k < i THEN Face(modes)[k] ELSE Face(modes)[k + 1]]
<1> DEFINE n == Len(modes)
<1>1. n \in Nat /\ DOMAIN modes = 1..n /\ i \in 1..n /\ Len(Face(modes)) = n
  BY FaceOfList
<1>2. DOMAIN Without(modes, i) = 1..(n - 1)
  BY DEF Without
<1>3. ASSUME NEW k \in 1..(n - 1)
      PROVE  [default |-> Without(modes, i)[k].default,
              setting |-> Without(modes, i)[k].setting] =
               IF k < i THEN Face(modes)[k] ELSE Face(modes)[k + 1]
  <2>1. k \in 1..n /\ k + 1 \in 1..n /\ modes[k] \in Mode /\ modes[k + 1] \in Mode
    BY <1>1
  <2>2. CASE k < i
    BY <1>1, <2>1, <2>2 DEF Without, Face
  <2>3. CASE ~(k < i)
    <3>1. Without(modes, i)[k] = [modes[k + 1] EXCEPT !.dataPos = @ - 1]
      BY <2>3 DEF Without
    <3>2. /\ Without(modes, i)[k].default = modes[k + 1].default
          /\ Without(modes, i)[k].setting = modes[k + 1].setting
      BY <2>1, <3>1 DEF Mode
    <3>3. QED
      BY <1>1, <2>1, <2>3, <3>2 DEF Face
  <2>4. QED
    BY <2>2, <2>3
<1>4. Face(Without(modes, i)) =
        [k \in 1..(n - 1) |-> [default |-> Without(modes, i)[k].default,
                               setting |-> Without(modes, i)[k].setting]]
  BY <1>2 DEF Face
<1>5. QED
  BY <1>1, <1>3, <1>4

LEMMA FaceMoved ==
  ASSUME NEW modes \in Seq(Mode), NEW i \in DOMAIN modes, NEW j \in DOMAIN modes, i # j
  PROVE  Face(Moved(modes, i, j)) =
           [Face(modes) EXCEPT ![i] = Face(modes)[j], ![j] = Face(modes)[i]]
<1>1. modes[i] \in Mode /\ modes[j] \in Mode
  OBVIOUS
<1> DEFINE a == [modes[j] EXCEPT !.dataPos = modes[i].dataPos]
           b == [modes[i] EXCEPT !.dataPos = modes[j].dataPos]
<1>2. /\ a.default = modes[j].default /\ a.setting = modes[j].setting
      /\ b.default = modes[i].default /\ b.setting = modes[i].setting
  BY <1>1 DEF Mode
<1>3. Moved(modes, i, j) = [modes EXCEPT ![i] = a, ![j] = b]
  BY DEF Moved
<1> HIDE DEF a, b
<1>4. Face(Moved(modes, i, j)) =
        [Face(modes) EXCEPT ![i] = [default |-> a.default, setting |-> a.setting],
                            ![j] = [default |-> b.default, setting |-> b.setting]]
  BY <1>3 DEF Face
<1>5. /\ Face(modes)[i] = [default |-> b.default, setting |-> b.setting]
      /\ Face(modes)[j] = [default |-> a.default, setting |-> a.setting]
  BY <1>2 DEF Face
<1>6. QED
  BY <1>4, <1>5
=============================================================================
