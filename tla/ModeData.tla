------------------------------ MODULE ModeData ------------------------------
(***************************************************************************)
(* The list of water modes, CConfMgr::modeDataList, and the operations on  *)
(* it.  Each mode has a number of its own, dataPos, beside its place in    *)
(* the list, and the operations renumber by rules of their own.            *)
(***************************************************************************)
EXTENDS Integers, Sequences

CONSTANTS
    Settings,       \* what a mode holds besides its place and its type
    FirstSetting,   \* the settings of the default modes and of a new mode
    DefaultCount    \* the modes in __modeDataLocalJson__

ASSUME ModeConstants ==
    /\ FirstSetting \in Settings
    /\ DefaultCount \in Nat \ {0}

Mode == [dataPos : Nat \ {0}, default : BOOLEAN, setting : Settings]

DefaultModes ==
    [i \in 1..DefaultCount |-> [dataPos |-> i, default |-> TRUE, setting |-> FirstSetting]]

\* updateModeDataByPos(data, -1), from the page that adds a mode.
Added(modes, s) ==
    Append(modes, [dataPos |-> Len(modes) + 1, default |-> FALSE, setting |-> s])

\* A copy of a mode, changed by the buttons of the edit page.
Edited(m, s) == [m EXCEPT !.setting = s]

\* A slip: every mode is renumbered, those before the erased one too.
WithoutAll(modes, i) ==
    [k \in 1..(Len(modes) - 1) |->
        LET m == IF k < i THEN modes[k] ELSE modes[k + 1]
        IN  [m EXCEPT !.dataPos = @ - 1]]

\* CConfMgr::deleteModeData.
Without(modes, i) ==
    [k \in 1..(Len(modes) - 1) |->
        IF k < i THEN modes[k]
        ELSE [modes[k + 1] EXCEPT !.dataPos = @ - 1]]

\* A slip: the modes change places and keep their dataPos.
MovedOnly(modes, from, to) ==
    [modes EXCEPT ![from] = modes[to], ![to] = modes[from]]

\* CConfMgr::movedMode, to the left or to the right: the modes change places
\* and their dataPos change back.
Moved(modes, from, to) ==
    [modes EXCEPT ![from] = [modes[to] EXCEPT !.dataPos = modes[from].dataPos],
                  ![to] = [modes[from] EXCEPT !.dataPos = modes[to].dataPos]]

----------------------------------------------------------------------------
NumberedFrom1(modes) == \A i \in DOMAIN modes : modes[i].dataPos = i

\* What the user sees of a list of modes.
Face(modes) ==
    [i \in DOMAIN modes |-> [default |-> modes[i].default, setting |-> modes[i].setting]]
=============================================================================
