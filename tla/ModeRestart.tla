---------------------------- MODULE ModeRestart -----------------------------
(***************************************************************************)
(* ModeStore watched across restarts: the lists of modes the user has      *)
(* reason to expect after the panel comes back.  The variable only records *)
(* what the steps of ModeStore do.                                         *)
(***************************************************************************)
EXTENDS ModeStore

VARIABLE expected   \* the lists since the last one that is safely on disk

rvars == <<vars, expected>>

RInit == Init /\ expected = {}

\* When nothing waits to be written back, no list but the one in the file
\* (if there is one) may come back.
InFile == IF Parses(file) THEN {file.modes} ELSE {}
OnScreen == IF pc = "down" THEN {} ELSE {list}

RNext ==
    \/ /\ Change \/ LoadDefaults
       /\ expected' = {list'} \cup (IF onDisk = {file} THEN InFile ELSE expected)
    \/ /\ Sync \/ WriteBack
       /\ expected' = InFile \cup OnScreen
    \/ /\ WriteFile \/ Load \/ Browse \/ Outage
       /\ UNCHANGED expected

RSpec == RInit /\ [][RNext]_rvars

(***************************************************************************)
(* What a restart may cost: whenever the process or the power goes, the    *)
(* panel comes back with the default modes, or with a list the user saw    *)
(* since the last save that reached the disk; never with an older one, a   *)
(* part of one or a mixture of two.                                        *)
(***************************************************************************)
RestartKeepsModes == [][ Load => list' \in expected ]_rvars
=============================================================================
