------------------------------ MODULE ModeList ------------------------------
(***************************************************************************)
(* The water modes as the user knows them: a row of modes that he extends, *)
(* changes one at a time, shortens and rearranges.  There are no numbers,  *)
(* no copies and no files; which row the panel comes up with is left open. *)
(***************************************************************************)
EXTENDS Integers, Sequences

CONSTANT Settings   \* what a mode holds besides its place and its type

VARIABLES
    on,         \* whether the panel is running
    row         \* the modes, in the order shown

mvars == <<on, row>>

Shown == [default : BOOLEAN, setting : Settings]

MInit == on = FALSE /\ row = <<>>

SwitchOn == ~on /\ on' = TRUE /\ row' \in Seq(Shown)
SwitchOff == on /\ on' = FALSE /\ row' = <<>>

New(s) == row' = Append(row, [default |-> FALSE, setting |-> s])

Change(i, s) == row' = [row EXCEPT ![i].setting = s]

Erase(i) ==
    row' = [k \in 1..(Len(row) - 1) |-> IF k < i THEN row[k] ELSE row[k + 1]]

Swap(i, j) ==
    /\ j \in {i - 1, i + 1}
    /\ row' = [row EXCEPT ![i] = row[j], ![j] = row[i]]

Use ==
    /\ on /\ UNCHANGED on
    /\ \/ \E s \in Settings : New(s)
       \/ \E i \in DOMAIN row, s \in Settings : Change(i, s)
       \/ \E i \in DOMAIN row : Erase(i)
       \/ \E i, j \in DOMAIN row : Swap(i, j)

MNext == SwitchOn \/ SwitchOff \/ Use

MSpec == MInit /\ [][MNext]_mvars
=============================================================================
