----------------------------- MODULE ModeStore ------------------------------
(***************************************************************************)
(* The water modes: CConfMgr keeps them in modeDataList, in the order they *)
(* are shown, each with its own dataPos, and after every change writes the *)
(* whole list to waterModeData.json.  saveLocalJson removes the old file,  *)
(* creates a new one and writes it; no result is looked at.  The panel may *)
(* stop at any of these steps: by a crash of the process, which leaves the *)
(* file as it is, or by a loss of power, which leaves any content the file *)
(* had since it was last synced.  CConfMgr::init reads whatever is left.   *)
(*                                                                         *)
(* The pages that change the modes are shown one at a time: the list,      *)
(* which moves and deletes, and the page that edits a copy of one mode.    *)
(***************************************************************************)
EXTENDS ModeData, FiniteSets

CONSTANTS
    MaxModes,       \* bound: no mode is added to a list of this length
    MaxPending      \* bound: the file contents not yet written back when a save begins

ASSUME StoreConstants ==
    /\ MaxModes \in Nat /\ MaxModes >= DefaultCount
    /\ MaxPending \in Nat \ {0}

VARIABLES
    list,       \* CConfMgr::modeDataList
    edit,       \* the edit page's tmp_modedata and the position it was opened with
    pc,         \* where the main thread is: down, idle, or in saveLocalJson
    file,       \* what reading waterModeData.json would give
    onDisk      \* what a loss of power could leave of it

vars == <<list, edit, pc, file, onDisk>>

NoEdit == [at |-> 0]

\* What the file may hold: a whole list, or what does not parse (no file at
\* all, an empty one, the beginning of a list).
Json(modes) == [form |-> "list", modes |-> modes]
Broken(form) == [form |-> form, modes |-> <<>>]
Absent == Broken("absent")
Empty == Broken("empty")
Partial == Broken("partial")
Parses(content) == content.form = "list"

----------------------------------------------------------------------------
TypeOK ==
    /\ list \in Seq(Mode)
    /\ \/ edit = NoEdit
       \/ edit \in [at : Nat \ {0}, copy : Mode]
    /\ pc \in {"down", "idle", "remove", "create", "write", "sync"}
    /\ \A c \in onDisk :
         c \in {Absent, Empty, Partial} \/ (c.modes \in Seq(Mode) /\ c = Json(c.modes))
    /\ file \in onDisk

(* The first start of a panel. *)
Init ==
    /\ list = <<>>
    /\ edit = NoEdit
    /\ pc = "down"
    /\ file = Absent
    /\ onDisk = {Absent}

----------------------------------------------------------------------------
(* CConfMgr::init.  std::sort promises an order by dataPos, and nothing    *)
(* about modes with the same one.                                          *)

InOrder(modes) ==
    \A i, j \in DOMAIN modes : i < j => modes[i].dataPos <= modes[j].dataPos

Orders(n) == { p \in [1..n -> 1..n] : \A i, j \in 1..n : p[i] = p[j] => i = j }

Load ==
    /\ pc = "down"
    /\ Parses(file)
    /\ \E p \in Orders(Len(file.modes)) :
         /\ list' = [i \in 1..Len(file.modes) |-> file.modes[p[i]]]
         /\ InOrder(list')
    /\ pc' = "idle"
    /\ UNCHANGED <<edit, file, onDisk>>

\* The default modes: init opens the file, which empties it, before it calls
\* saveLocalJson; a file that cannot be opened is not saved at all.
LoadDefaults ==
    /\ pc = "down"
    /\ ~Parses(file)
    /\ list' = DefaultModes
    /\ \/ /\ file' = Empty
          /\ onDisk' = onDisk \cup {Empty}
          /\ pc' = "remove"
       \/ /\ pc' = "idle"
          /\ UNCHANGED <<file, onDisk>>
    /\ UNCHANGED edit

----------------------------------------------------------------------------
(* The operations; each ends in saveLocalJson. *)

MaySave == pc = "idle" /\ Cardinality(onDisk) <= MaxPending

Save(modes) ==
    /\ list' = modes
    /\ pc' = "remove"
    /\ UNCHANGED <<file, onDisk>>

\* updateModeDataByPos(tmp_modedata, -1), from the page that adds a mode.
AddMode ==
    /\ MaySave /\ edit = NoEdit /\ Len(list) < MaxModes
    /\ \E s \in Settings :
         Save(Added(list, s))
    /\ UNCHANGED edit

\* Start_Page_action of the edit page, which copies the mode it shows.
OpenEdit(i) ==
    /\ pc = "idle" /\ edit = NoEdit
    /\ edit' = [at |-> i, copy |-> list[i]]
    /\ UNCHANGED <<list, pc, file, onDisk>>

\* bt_confirm: updateModeDataByPos(tmp_modedata, position).
ConfirmEdit ==
    /\ MaySave /\ edit # NoEdit
    /\ \E s \in Settings :
         Save([list EXCEPT ![edit.at] = Edited(edit.copy, s)])
    /\ edit' = NoEdit

\* bt_back, bt_back_home.
LeaveEdit ==
    /\ pc = "idle" /\ edit # NoEdit
    /\ edit' = NoEdit
    /\ UNCHANGED <<list, pc, file, onDisk>>

\* The list shows its delete button for the modes that canDelete only ...
DeleteFromList(i) ==
    /\ MaySave /\ edit = NoEdit /\ ~list[i].default
    /\ Save(Without(list, i))
    /\ UNCHANGED edit

\* A slip: the edit page stays open after its mode is deleted.
DeleteAndStay ==
    /\ MaySave /\ edit # NoEdit
    /\ Save(Without(list, edit.at))
    /\ edit' = edit

\* ... the edit page shows one for every mode.
DeleteFromEdit ==
    /\ MaySave /\ edit # NoEdit
    /\ Save(Without(list, edit.at))
    /\ edit' = NoEdit

MoveMode(from, to) ==
    /\ MaySave /\ edit = NoEdit /\ to \in {from - 1, from + 1}
    /\ Save(Moved(list, from, to))
    /\ UNCHANGED edit

----------------------------------------------------------------------------
(* saveLocalJson, step by step. *)

Write(content) ==
    /\ file' = content
    /\ onDisk' = onDisk \cup {content}
    /\ UNCHANGED <<list, edit>>

\* A slip: the old file is not removed before the new one is opened.
RemoveNothing ==
    /\ pc = "remove"
    /\ pc' = "create"
    /\ UNCHANGED <<list, edit, file, onDisk>>

RemoveFile == pc = "remove" /\ Write(Absent) /\ pc' = "create"

CreateFile == pc = "create" /\ Write(Empty) /\ pc' = "write"

\* The stream could not be opened: saveLocalJson returns false to nobody.
CreateFails ==
    /\ pc = "create"
    /\ pc' = "idle"
    /\ UNCHANGED <<list, edit, file, onDisk>>

\* The stream's buffer is smaller than the list, and the disk may be full.
WritePart == pc = "write" /\ file = Empty /\ Write(Partial) /\ pc' = "write"

WriteAll == pc = "write" /\ Write(Json(list)) /\ pc' = "sync"

WriteFails ==
    /\ pc = "write"
    /\ pc' = "sync"
    /\ UNCHANGED <<list, edit, file, onDisk>>

\* A slip: saveLocalJson returns without a sync.
SyncNothing ==
    /\ pc = "sync"
    /\ pc' = "idle"
    /\ UNCHANGED <<list, edit, file, onDisk>>

\* sync(), on the product; the development builds leave it to WriteBack.
Sync ==
    /\ pc = "sync"
    /\ onDisk' = {file}
    /\ pc' = "idle"
    /\ UNCHANGED <<list, edit, file>>

----------------------------------------------------------------------------
(* The environment: the kernel writes back, the process or the power goes. *)

WriteBack ==
    /\ onDisk # {file}
    /\ onDisk' = {file}
    /\ UNCHANGED <<list, edit, pc, file>>

Stop(left) ==
    /\ pc # "down"
    /\ pc' = "down"
    /\ list' = <<>>
    /\ edit' = NoEdit
    /\ file' = left

Crash == Stop(file) /\ UNCHANGED onDisk

PowerLoss == \E left \in onDisk : Stop(left) /\ onDisk' = {left}

----------------------------------------------------------------------------
Boot == Load \/ LoadDefaults

Change ==
    \/ AddMode
    \/ ConfirmEdit
    \/ \E i \in DOMAIN list : DeleteFromList(i)
    \/ DeleteFromEdit
    \/ \E i, j \in DOMAIN list : MoveMode(i, j)

Browse == LeaveEdit \/ \E i \in DOMAIN list : OpenEdit(i)

WriteFile ==
    RemoveFile \/ CreateFile \/ CreateFails \/ WritePart \/ WriteAll \/ WriteFails

Outage == Crash \/ PowerLoss

Next == Boot \/ Change \/ Browse \/ WriteFile \/ Sync \/ WriteBack \/ Outage

Spec == Init /\ [][Next]_vars

----------------------------------------------------------------------------
(***************************************************************************)
(* dataPos counts from 1 in the order of the list, in memory and in every  *)
(* file that a restart may find: the number on the screen, the position a  *)
(* button was bound to and the order after the next start stay the same    *)
(* thing, although four operations and a sort each renumber by their own   *)
(* rule.                                                                   *)
(***************************************************************************)
Numbered ==
    /\ NumberedFrom1(list)
    /\ \A content \in onDisk : Parses(content) => NumberedFrom1(content.modes)

(***************************************************************************)
(* While no save is under way the file is never an old list: whatever save *)
(* failed, it either is the list on the screen or does not parse, so that  *)
(* a restart of the process shows the same modes or the default ones, and  *)
(* never brings back a mode that was deleted.                              *)
(***************************************************************************)
NeverStale ==
    pc = "idle" => file = Json(list) \/ ~Parses(file)

(***************************************************************************)
(* Under dataPos, the copies and the file, the user works on one row of    *)
(* modes: a mode added, changed, deleted or moved is that mode, and no     *)
(* other.                                                                  *)
(***************************************************************************)
Row == INSTANCE ModeList WITH on <- pc # "down", row <- Face(list)
KeepsRow == Row!MSpec

(***************************************************************************)
(* ModeData.h, of dataType: "marks the default modes; a default mode       *)
(* cannot be deleted".                                                     *)
(***************************************************************************)
DefaultsKept ==
    pc = "idle" => Cardinality({ i \in DOMAIN list : list[i].default }) = DefaultCount
=============================================================================
