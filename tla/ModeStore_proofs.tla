-------------------------- MODULE ModeStore_proofs --------------------------
(***************************************************************************)
(* Proofs about the store of water modes, for any number of default modes  *)
(* and any settings: the numbering of the modes survives every operation,  *)
(* every failure of a save and every restart, and the file never holds an  *)
(* old list while the panel is idle.                                       *)
(***************************************************************************)
EXTENDS ModeRestart, ModeData_proofs, WellFoundedInduction

(* The edit page is open only while nothing is being saved, and from the   *)
(* moment the old file is removed there is no file but the new one.        *)
SaveInv ==
    /\ edit # NoEdit => pc = "idle"
    /\ pc \in {"create", "write"} => ~Parses(file)
    /\ pc = "sync" => file = Json(list) \/ ~Parses(file)

\* The edit page's copy still is the mode at the position it was opened with.
EditIsCurrent ==
    edit # NoEdit => edit.at \in DOMAIN list /\ edit.copy = list[edit.at]

SInv == TypeOK /\ Numbered /\ EditIsCurrent /\ NeverStale /\ SaveInv

----------------------------------------------------------------------------
\* Every non-empty set of natural numbers has a least element.
LEMMA NatMin ==
  ASSUME NEW T \in SUBSET Nat, T # {}
  PROVE  \E m \in T : \A k \in T : m <= k
<1>1. PICK m \in T : \A k \in T : ~ (<<k, m>> \in OpToRel(<, Nat))
  BY NatLessThanWellFounded, WFMin
<1>2. ASSUME NEW k \in T PROVE m <= k
  <2>1. ~ (<<k, m>> \in OpToRel(<, Nat))
    BY <1>1
  <2>2. k \in Nat /\ m \in Nat
    OBVIOUS
  <2>3. ~ (k < m)
    BY <2>1, <2>2 DEF OpToRel
  <2>4. QED
    BY <2>2, <2>3
<1>3. QED
  BY <1>2

(***************************************************************************)
(* The one order std::sort can give distinct numbers 1 to n is their own:  *)
(* an injective and weakly increasing map of 1..n to itself is the         *)
(* identity.                                                               *)
(***************************************************************************)
LEMMA IncreasingIsIdentity ==
  ASSUME NEW n \in Nat, NEW p \in Orders(n),
         \A i, j \in 1..n : i < j => p[i] <= p[j]
  PROVE  \A i \in 1..n : p[i] = i
<1>1. \A i \in 1..n : p[i] \in 1..n
  BY DEF Orders
<1>2. \A i, j \in 1..n : i < j => p[i] < p[j]
  <2>1. ASSUME NEW i \in 1..n, NEW j \in 1..n, i < j PROVE p[i] < p[j]
    <3>1. p[i] <= p[j] /\ p[i] # p[j]
      BY <2>1 DEF Orders
    <3>2. QED
      BY <3>1, <1>1
  <2>2. QED
    BY <2>1
<1>3. \A i \in 1..n : p[i] >= i
  <2>1. SUFFICES ASSUME NEW k \in 1..n, p[k] < k PROVE FALSE
    BY <1>1
  <2> DEFINE Low == { i \in 1..n : p[i] < i }
  <2>2. PICK m \in Low : \A i \in Low : m <= i
    <3>1. Low \in SUBSET Nat /\ Low # {}
      BY <2>1
    <3> HIDE DEF Low
    <3>2. QED
      BY <3>1, NatMin
  <2>3. p[m] \in 1..n /\ p[m] < m
    BY <1>1
  <2>4. p[p[m]] < p[m]
    BY <1>2, <2>3
  <2>5. p[m] \in Low
    BY <2>3, <2>4
  <2>6. QED
    BY <2>2, <2>3, <2>5
<1>4. \A i \in 1..n : p[i] <= i
  <2>1. SUFFICES ASSUME NEW k \in 1..n, p[k] > k PROVE FALSE
    BY <1>1
  <2> DEFINE High == { d \in 0..n : n - d \in 1..n /\ p[n - d] > n - d }
  <2>2. PICK d \in High : \A e \in High : d <= e
    <3>1. n - k \in 0..n /\ n - (n - k) = k
      OBVIOUS
    <3>2. n - (n - k) \in 1..n /\ p[n - (n - k)] > n - (n - k)
      BY <2>1, <3>1
    <3>3. n - k \in High
      BY <3>1, <3>2
    <3>4. High \in SUBSET Nat
      OBVIOUS
    <3> HIDE DEF High
    <3>5. QED
      BY <3>3, <3>4, NatMin
  <2>3. n - d \in 1..n /\ p[n - d] \in 1..n /\ p[n - d] > n - d
    BY <1>1
  <2>4. p[p[n - d]] > p[n - d]
    BY <1>2, <2>3
  <2>5. n - p[n - d] \in High /\ n - p[n - d] < d
    <3>1. n - p[n - d] \in 0..n /\ n - (n - p[n - d]) = p[n - d]
      BY <2>3
    <3>2. QED
      BY <3>1, <2>3, <2>4
  <2>6. QED
    BY <2>2, <2>5
<1>5. QED
  BY <1>1, <1>3, <1>4

----------------------------------------------------------------------------
\* Reading a numbered file gives the list that was written.
LEMMA LoadIdentity ==
  ASSUME NEW modes \in Seq(Mode), NumberedFrom1(modes),
         NEW p \in Orders(Len(modes)),
         NEW read, read = [i \in 1..Len(modes) |-> modes[p[i]]], InOrder(read)
  PROVE  read = modes
<1>1. Len(modes) \in Nat /\ DOMAIN modes = 1..Len(modes)
  OBVIOUS
<1>2. \A i \in 1..Len(modes) : p[i] \in 1..Len(modes)
  BY DEF Orders
<1>3. \A i \in 1..Len(modes) : read[i].dataPos = p[i]
  BY <1>1, <1>2 DEF NumberedFrom1
<1>4. DOMAIN read = 1..Len(modes)
  OBVIOUS
<1>5. \A i, j \in 1..Len(modes) : i < j => p[i] <= p[j]
  BY <1>3, <1>4 DEF InOrder
<1>6. \A i \in 1..Len(modes) : p[i] = i
  BY <1>1, <1>5, IncreasingIsIdentity
<1>7. read = [i \in 1..Len(modes) |-> modes[i]]
  BY <1>6
<1>8. QED
  BY <1>1, <1>7

\* What the forms of a file's content say of it.
LEMMA Forms ==
  /\ ~Parses(Absent) /\ ~Parses(Empty) /\ ~Parses(Partial)
  /\ \A m : Parses(Json(m)) /\ Json(m).modes = m
  BY DEF Parses, Absent, Empty, Partial, Broken, Json

\* The first start finds no file.
LEMMA InitInv == Init => SInv
<1> SUFFICES ASSUME Init PROVE SInv
  OBVIOUS
<1>1. TypeOK
  BY DEF Init, TypeOK
<1>2. Numbered
  BY Forms DEF Init, Numbered, NumberedFrom1
<1>3. EditIsCurrent /\ NeverStale /\ SaveInv
  BY DEF Init, EditIsCurrent, NeverStale, SaveInv
<1>4. QED
  BY <1>1, <1>2, <1>3 DEF SInv

\* Beginning a save with a numbered list, the edit page closed.
LEMMA SavePreserves ==
  ASSUME SInv, NEW modes \in Seq(Mode), NumberedFrom1(modes),
         Save(modes), edit' = NoEdit
  PROVE  SInv'
<1>1. list' = modes /\ pc' = "remove" /\ file' = file /\ onDisk' = onDisk
  BY DEF Save
<1>2. TypeOK'
  BY <1>1 DEF SInv, TypeOK
<1>3. Numbered'
  BY <1>1 DEF SInv, Numbered
<1>4. EditIsCurrent' /\ NeverStale' /\ SaveInv'
  BY <1>1 DEF EditIsCurrent, NeverStale, SaveInv
<1>5. QED
  BY <1>2, <1>3, <1>4 DEF SInv

\* CConfMgr::init, with a file that parses or without one.
LEMMA BootPreserves == SInv /\ Boot => SInv'
<1> SUFFICES ASSUME SInv, Boot PROVE SInv'
  OBVIOUS
<1>1. edit = NoEdit /\ edit' = NoEdit
  BY DEF Boot, Load, LoadDefaults, SInv, SaveInv
<1>2. CASE Load
  <2>0. file' = file /\ onDisk' = onDisk
    BY <1>2 DEF Load
  <2>1. pc' = "idle" /\ Parses(file)
    BY <1>2 DEF Load
  <2>2. file.modes \in Seq(Mode) /\ file = Json(file.modes) /\ NumberedFrom1(file.modes)
    BY <2>1, Forms DEF SInv, TypeOK, Numbered
  <2>3. list' = file.modes
    <3>1. PICK p \in Orders(Len(file.modes)) :
            /\ list' = [i \in 1..Len(file.modes) |-> file.modes[p[i]]]
            /\ InOrder(list')
      BY <1>2 DEF Load
    <3>2. QED
      BY <2>2, <3>1, LoadIdentity
  <2>4. TypeOK'
    BY <1>1, <2>0, <2>1, <2>2, <2>3 DEF SInv, TypeOK
  <2>5. Numbered'
    BY <2>0, <2>2, <2>3 DEF SInv, Numbered
  <2>6. EditIsCurrent' /\ NeverStale' /\ SaveInv'
    BY <1>1, <2>0, <2>1, <2>2, <2>3 DEF EditIsCurrent, NeverStale, SaveInv
  <2>7. QED
    BY <2>4, <2>5, <2>6 DEF SInv
<1>3. CASE LoadDefaults
  <2>1. /\ list' = DefaultModes /\ pc' \in {"remove", "idle"}
        /\ ~Parses(file') /\ file' \in {file, Empty} /\ file' \in onDisk'
        /\ onDisk' \subseteq onDisk \cup {Empty}
    BY <1>3, Forms DEF LoadDefaults, SInv, TypeOK
  <2>2. TypeOK'
    BY <1>1, <2>1, DefaultsNumbered DEF SInv, TypeOK
  <2>3. Numbered'
    BY <2>1, DefaultsNumbered, Forms DEF SInv, Numbered
  <2>4. EditIsCurrent' /\ NeverStale' /\ SaveInv'
    BY <1>1, <2>1 DEF EditIsCurrent, NeverStale, SaveInv
  <2>5. QED
    BY <2>2, <2>3, <2>4 DEF SInv
<1>4. QED
  BY <1>2, <1>3 DEF Boot

\* The operations: each saves a numbered list.
LEMMA ChangePreserves == SInv /\ Change => SInv'
<1> SUFFICES ASSUME SInv, Change PROVE SInv'
  OBVIOUS
<1>1. list \in Seq(Mode) /\ NumberedFrom1(list)
  BY DEF SInv, TypeOK, Numbered
<1>2. CASE AddMode
  <2>1. PICK s \in Settings :
          Save(Append(list, [dataPos |-> Len(list) + 1, default |-> FALSE, setting |-> s]))
    BY <1>2 DEF AddMode, Added
  <2>2. [dataPos |-> Len(list) + 1, default |-> FALSE, setting |-> s] \in Mode
    BY <1>1 DEF Mode
  <2>3. edit' = NoEdit
    BY <1>2 DEF AddMode
  <2>4. QED
    BY <1>1, <2>1, <2>2, <2>3, AddedNumbered, SavePreserves
<1>3. CASE ConfirmEdit
  <2>1. edit.at \in DOMAIN list /\ edit.copy = list[edit.at]
    BY <1>3 DEF ConfirmEdit, SInv, EditIsCurrent
  <2>2. PICK s \in Settings :
          Save([list EXCEPT ![edit.at] = [edit.copy EXCEPT !.setting = s]])
    BY <1>3 DEF ConfirmEdit, Edited
  <2>3. /\ [edit.copy EXCEPT !.setting = s] \in Mode
        /\ [edit.copy EXCEPT !.setting = s].dataPos = edit.at
    <3>1. edit.copy \in Mode /\ edit.copy.dataPos = edit.at
      BY <1>1, <2>1 DEF NumberedFrom1
    <3>2. s \in Settings
      BY <2>2
    <3> DEFINE c == edit.copy
    <3>3. c \in Mode /\ c.dataPos = edit.at
      BY <3>1
    <3> HIDE DEF c
    <3>4. [c EXCEPT !.setting = s] \in Mode /\ [c EXCEPT !.setting = s].dataPos = edit.at
      BY <3>2, <3>3 DEF Mode
    <3>5. QED
      BY <3>4 DEF c
  <2>4. edit' = NoEdit
    BY <1>3 DEF ConfirmEdit
  <2>5. QED
    BY <1>1, <2>1, <2>2, <2>3, <2>4, EditedNumbered, SavePreserves
<1>4. ASSUME NEW i \in DOMAIN list, DeleteFromList(i) PROVE SInv'
  <2>1. Save(Without(list, i)) /\ edit' = NoEdit
    BY <1>4 DEF DeleteFromList
  <2>2. QED
    BY <1>1, <2>1, WithoutNumbered, SavePreserves
<1>5. CASE DeleteFromEdit
  <2>1. Save(Without(list, edit.at)) /\ edit' = NoEdit /\ edit.at \in DOMAIN list
    BY <1>5 DEF DeleteFromEdit, SInv, EditIsCurrent
  <2>2. QED
    BY <1>1, <2>1, WithoutNumbered, SavePreserves
<1>6. ASSUME NEW i \in DOMAIN list, NEW j \in DOMAIN list, MoveMode(i, j) PROVE SInv'
  <2>1. Save(Moved(list, i, j)) /\ edit' = NoEdit /\ j \in {i - 1, i + 1}
    BY <1>6 DEF MoveMode
  <2>2. i \in Int /\ i # j
    BY <1>1, <2>1
  <2>3. QED
    BY <1>1, <2>1, <2>2, MovedNumbered, SavePreserves
<1>7. QED
  BY <1>2, <1>3, <1>4, <1>5, <1>6 DEF Change

\* Opening the edit page takes the copy from the list, closing it drops it.
LEMMA BrowsePreserves == SInv /\ Browse => SInv'
<1> SUFFICES ASSUME SInv, Browse PROVE SInv'
  OBVIOUS
<1>1. pc = "idle" /\ UNCHANGED <<list, pc, file, onDisk>>
  BY DEF Browse, LeaveEdit, OpenEdit
<1>2. edit' = NoEdit \/ \E i \in DOMAIN list : edit' = [at |-> i, copy |-> list[i]]
  BY DEF Browse, LeaveEdit, OpenEdit
<1>3. TypeOK' /\ EditIsCurrent'
  <2>1. CASE edit' = NoEdit
    BY <1>1, <2>1 DEF SInv, TypeOK, EditIsCurrent
  <2>2. ASSUME NEW i \in DOMAIN list, edit' = [at |-> i, copy |-> list[i]]
        PROVE  TypeOK' /\ EditIsCurrent'
    <3>1. i \in Nat \ {0} /\ list[i] \in Mode
      BY DEF SInv, TypeOK
    <3>2. edit' \in [at : Nat \ {0}, copy : Mode] /\ edit'.at = i /\ edit'.copy = list[i]
      BY <2>2, <3>1
    <3>3. QED
      BY <1>1, <3>2 DEF SInv, TypeOK, EditIsCurrent
  <2>3. QED
    BY <1>2, <2>1, <2>2
<1>4. Numbered' /\ NeverStale' /\ SaveInv'
  BY <1>1 DEF SInv, Numbered, NeverStale, SaveInv
<1>5. QED
  BY <1>3, <1>4 DEF SInv

\* saveLocalJson, up to the sync: every content it writes is none or the list.
LEMMA WritePreserves == SInv /\ WriteFile => SInv'
<1> SUFFICES ASSUME SInv, WriteFile PROVE SInv'
  OBVIOUS
<1>1. pc \in {"remove", "create", "write"} /\ list' = list /\ edit' = edit
  BY DEF WriteFile, RemoveFile, CreateFile, CreateFails, WritePart, WriteAll,
     WriteFails, Write
<1>2. edit = NoEdit
  BY <1>1 DEF SInv, SaveInv
<1>3. \/ file' = file /\ onDisk' = onDisk /\ ~Parses(file)
      \/ /\ file' \in {Absent, Empty, Partial}
         /\ onDisk' = onDisk \cup {file'} /\ pc' \in {"create", "write"}
      \/ file' = Json(list) /\ onDisk' = onDisk \cup {file'} /\ pc' = "sync"
  BY DEF WriteFile, RemoveFile, CreateFile, CreateFails, WritePart, WriteAll,
     WriteFails, Write, SInv, SaveInv
<1>4. pc' \in {"idle", "create", "write", "sync"}
  BY DEF WriteFile, RemoveFile, CreateFile, CreateFails, WritePart, WriteAll,
     WriteFails
<1>5. /\ onDisk' \subseteq onDisk \cup {file'} /\ file' \in onDisk'
      /\ \/ file' \in onDisk /\ ~Parses(file')
         \/ file' \in {Absent, Empty, Partial}
         \/ file' = Json(list)
  BY <1>3 DEF SInv, TypeOK
<1>6. ~Parses(file') \/ file' = Json(list)
  BY <1>5, Forms
<1>7. TypeOK'
  <2>1. list \in Seq(Mode) /\ Json(list).modes = list
    BY Forms DEF SInv, TypeOK
  <2>2. QED
    BY <1>1, <1>2, <1>4, <1>5, <2>1 DEF SInv, TypeOK
<1>8. Numbered'
  BY <1>1, <1>5, <1>6, Forms DEF SInv, Numbered
<1>9. EditIsCurrent' /\ NeverStale' /\ SaveInv'
  <2>1. pc' \in {"create", "write"} => ~Parses(file')
    BY <1>3, Forms, <1>4
  <2>2. QED
    BY <1>1, <1>2, <1>6, <2>1 DEF EditIsCurrent, NeverStale, SaveInv
<1>10. QED
  BY <1>7, <1>8, <1>9 DEF SInv

\* The sync and the write-back only forget contents.
LEMMA SettlePreserves == SInv /\ (Sync \/ WriteBack) => SInv'
<1> SUFFICES ASSUME SInv, Sync \/ WriteBack PROVE SInv'
  OBVIOUS
<1>1. /\ onDisk' = {file} /\ UNCHANGED <<list, edit, file>>
      /\ pc' = pc \/ (pc = "sync" /\ pc' = "idle")
  BY DEF Sync, WriteBack
<1>2. TypeOK'
  BY <1>1 DEF SInv, TypeOK
<1>3. Numbered'
  BY <1>1 DEF SInv, Numbered, TypeOK
<1>4. EditIsCurrent' /\ NeverStale' /\ SaveInv'
  BY <1>1 DEF SInv, EditIsCurrent, NeverStale, SaveInv
<1>5. QED
  BY <1>2, <1>3, <1>4 DEF SInv

\* Whatever content is left, it was one of those the file had.
LEMMA OutagePreserves == SInv /\ Outage => SInv'
<1> SUFFICES ASSUME SInv, Outage PROVE SInv'
  OBVIOUS
<1>1. pc' = "down" /\ list' = <<>> /\ edit' = NoEdit
  BY DEF Outage, Crash, PowerLoss, Stop
<1>2. file' \in onDisk' /\ onDisk' \subseteq onDisk
  BY DEF Outage, Crash, PowerLoss, Stop, SInv, TypeOK
<1>3. TypeOK'
  BY <1>1, <1>2 DEF SInv, TypeOK
<1>4. Numbered'
  BY <1>1, <1>2 DEF SInv, Numbered, NumberedFrom1
<1>5. EditIsCurrent' /\ NeverStale' /\ SaveInv'
  BY <1>1 DEF EditIsCurrent, NeverStale, SaveInv
<1>6. QED
  BY <1>3, <1>4, <1>5 DEF SInv

----------------------------------------------------------------------------
(***************************************************************************)
(* The invariants hold together in every reachable state.                  *)
(***************************************************************************)
THEOREM StoreInvariance == Spec => []SInv
<1>1. SInv /\ [Next]_vars => SInv'
  <2> SUFFICES ASSUME SInv, [Next]_vars PROVE SInv'
    OBVIOUS
  <2>1. CASE UNCHANGED vars
    BY <2>1 DEF vars, SInv, TypeOK, Numbered, EditIsCurrent, NeverStale, SaveInv
  <2>2. QED
    BY <2>1, BootPreserves, ChangePreserves, BrowsePreserves, WritePreserves,
       SettlePreserves, OutagePreserves DEF Next
<1>2. QED
  BY InitInv, <1>1, PTL DEF Spec

\* The list, the copies and every content of the file are what they should be.
THEOREM StoreTyped == Spec => []TypeOK
<1>1. SInv => TypeOK
  BY DEF SInv
<1>2. QED
  BY StoreInvariance, <1>1, PTL

(***************************************************************************)
(* dataPos is the place in the list, counted from 1, in memory and in      *)
(* every file a restart may find, whatever saves failed and whenever the   *)
(* power went: the sort of CConfMgr::init never moves a mode.              *)
(***************************************************************************)
THEOREM AlwaysNumbered == Spec => []Numbered
<1>1. SInv => Numbered
  BY DEF SInv
<1>2. QED
  BY StoreInvariance, <1>1, PTL

\* While no save is under way the file is the list on the screen or none.
THEOREM FileNeverStale == Spec => []NeverStale
<1>1. SInv => NeverStale
  BY DEF SInv
<1>2. QED
  BY StoreInvariance, <1>1, PTL

----------------------------------------------------------------------------
(* The store implements the row of modes.                                  *)

\* Each operation on the list is one on the row.
LEMMA ChangeUsesRow == SInv /\ Change => Row!Use
<1> SUFFICES ASSUME SInv, Change PROVE Row!Use
  OBVIOUS
<1>1. list \in Seq(Mode)
  BY DEF SInv, TypeOK
<1>2. pc # "down" /\ pc' # "down"
  BY DEF Change, AddMode, ConfirmEdit, DeleteFromList, DeleteFromEdit, MoveMode,
     MaySave, Save
<1>3. Len(Face(list)) = Len(list) /\ DOMAIN Face(list) = DOMAIN list
  BY <1>1, FaceOfList DEF Face
<1>4. CASE AddMode
  <2>1. PICK s \in Settings :
          list' = Append(list, [dataPos |-> Len(list) + 1, default |-> FALSE, setting |-> s])
    BY <1>4 DEF AddMode, Save, Added
  <2>2. [dataPos |-> Len(list) + 1, default |-> FALSE, setting |-> s] \in Mode
    BY <1>1 DEF Mode
  <2>3. Row!New(s)
    BY <1>1, <2>1, <2>2, FaceAppended DEF Row!New
  <2>4. QED
    BY <1>2, <2>3 DEF Row!Use
<1>5. CASE ConfirmEdit
  <2>1. edit.at \in DOMAIN list /\ edit.copy = list[edit.at]
    BY <1>5 DEF ConfirmEdit, SInv, EditIsCurrent
  <2>2. PICK s \in Settings :
          list' = [list EXCEPT ![edit.at] = [edit.copy EXCEPT !.setting = s]]
    BY <1>5 DEF ConfirmEdit, Save, Edited
  <2>3. list' = [list EXCEPT ![edit.at] = [list[edit.at] EXCEPT !.setting = s]]
    BY <2>1, <2>2
  <2>4. Row!Change(edit.at, s)
    <3> DEFINE i == edit.at
               m == [list[i] EXCEPT !.setting = s]
    <3>1. i \in DOMAIN list /\ list[i] \in Mode
      BY <1>1, <2>1
    <3>2. m.default = list[i].default /\ m.setting = s
      BY <3>1 DEF Mode
    <3>3. list' = [list EXCEPT ![i] = m]
      BY <2>3
    <3> HIDE DEF i, m
    <3>4. Face(list') = [Face(list) EXCEPT ![i] = [default |-> m.default, setting |-> m.setting]]
      BY <1>1, <3>1, <3>3, FaceEdited
    <3>5. [Face(list)[i] EXCEPT !.setting = s] = [default |-> m.default, setting |-> m.setting]
      BY <3>1, <3>2 DEF Face
    <3>6. Row!Change(i, s)
      BY <3>4, <3>5 DEF Row!Change
    <3>7. QED
      BY <3>6 DEF i
  <2>5. QED
    BY <1>2, <1>3, <2>1, <2>4 DEF Row!Use
<1>6. ASSUME NEW i \in DOMAIN list, list' = Without(list, i) PROVE Row!Use
  <2>1. Row!Erase(i)
    BY <1>1, <1>6, FaceWithout DEF Row!Erase
  <2>2. QED
    BY <1>2, <1>3, <2>1 DEF Row!Use
<1>7. ASSUME NEW i \in DOMAIN list, DeleteFromList(i) PROVE Row!Use
  BY <1>6, <1>7 DEF DeleteFromList, Save
<1>8. CASE DeleteFromEdit
  BY <1>6, <1>8 DEF DeleteFromEdit, Save, SInv, EditIsCurrent
<1>9. ASSUME NEW i \in DOMAIN list, NEW j \in DOMAIN list, MoveMode(i, j) PROVE Row!Use
  <2>1. list' = Moved(list, i, j) /\ j \in {i - 1, i + 1}
    BY <1>9 DEF MoveMode, Save
  <2>2. i # j
    BY <1>1, <2>1
  <2>3. Row!Swap(i, j)
    BY <1>1, <2>1, <2>2, FaceMoved DEF Row!Swap
  <2>4. QED
    BY <1>2, <1>3, <2>3 DEF Row!Use
<1>10. QED
  BY <1>4, <1>5, <1>7, <1>8, <1>9 DEF Change

\* A start brings some row of modes, a stop takes it away; the steps of a save
\* and of the edit page leave it as it is.
LEMMA StepOfRow == SInv /\ SInv' /\ [Next]_vars => [Row!MNext]_(Row!mvars)
<1> SUFFICES ASSUME SInv, SInv', [Next]_vars
             PROVE  Row!MNext \/ UNCHANGED Row!mvars
  OBVIOUS
<1>1. CASE Boot
  <2>1. pc = "down" /\ pc' # "down"
    BY <1>1 DEF Boot, Load, LoadDefaults
  <2>2. Face(list)' \in Seq(Row!Shown)
    <3>1. list' \in Seq(Mode)
      BY DEF SInv, TypeOK
    <3>2. QED
      BY <3>1, FaceOfList DEF Face, Row!Shown, Shown
  <2>3. QED
    BY <2>1, <2>2 DEF Row!MNext, Row!SwitchOn
<1>2. CASE Change
  BY <1>2, ChangeUsesRow DEF Row!MNext
<1>3. CASE Outage
  <2>1. pc # "down" /\ pc' = "down" /\ list' = <<>>
    BY <1>3 DEF Outage, Crash, PowerLoss, Stop
  <2>2. Face(list)' = <<>>
    BY <2>1 DEF Face
  <2>3. QED
    BY <2>1, <2>2 DEF Row!MNext, Row!SwitchOff
<1>4. CASE Browse \/ WriteFile \/ Sync \/ WriteBack \/ UNCHANGED vars
  <2>1. list' = list
    BY <1>4 DEF Browse, LeaveEdit, OpenEdit, WriteFile, RemoveFile, CreateFile,
       CreateFails, WritePart, WriteAll, WriteFails, Write, Sync, WriteBack, vars
  <2>2. (pc # "down")' = (pc # "down")
    BY <1>4 DEF Browse, LeaveEdit, OpenEdit, WriteFile, RemoveFile, CreateFile,
       CreateFails, WritePart, WriteAll, WriteFails, Write, Sync, WriteBack, vars
  <2>3. QED
    BY <2>1, <2>2 DEF Row!mvars, Face
<1>5. QED
  BY <1>1, <1>2, <1>3, <1>4 DEF Next

(***************************************************************************)
(* Under the numbers, the copies, the file and its failures the user works *)
(* on one row of modes.                                                    *)
(***************************************************************************)
THEOREM StoreKeepsRow == Spec => KeepsRow
<1>1. Init => Row!MInit
  BY DEF Init, Row!MInit, Face
<1>2. SInv /\ SInv' /\ [Next]_vars => [Row!MNext]_(Row!mvars)
  BY StepOfRow
<1>3. QED
  BY StoreInvariance, <1>1, <1>2, PTL DEF Spec, KeepsRow, Row!MSpec

----------------------------------------------------------------------------
(* What a restart may cost.                                                *)

\* Every list a restart may find, and the one on the screen, is expected.
ExpectedInv ==
    /\ \A content \in onDisk : Parses(content) => content.modes \in expected
    /\ pc # "down" => list \in expected

\* Watching the restarts adds nothing to what the store does.
LEMMA WatchedStore == RSpec => Spec
<1>1. RInit => Init
  BY DEF RInit
<1>2. [RNext]_rvars => [Next]_vars
  BY DEF RNext, rvars, Next, Boot
<1>3. QED
  BY <1>1, <1>2, PTL DEF RSpec, Spec

\* A start from a file gives the list in it, the order included.
LEMMA LoadFromFile == SInv /\ Load => list' = file.modes
<1> SUFFICES ASSUME SInv, Load PROVE list' = file.modes
  OBVIOUS
<1>1. file.modes \in Seq(Mode) /\ NumberedFrom1(file.modes)
  BY Forms DEF Load, SInv, TypeOK, Numbered
<1>2. PICK p \in Orders(Len(file.modes)) :
        /\ list' = [i \in 1..Len(file.modes) |-> file.modes[p[i]]]
        /\ InOrder(list')
  BY DEF Load
<1>3. QED
  BY <1>1, <1>2, LoadIdentity

LEMMA ExpectedPreserves == SInv /\ ExpectedInv /\ [RNext]_rvars => ExpectedInv'
<1> SUFFICES ASSUME SInv, ExpectedInv, [RNext]_rvars PROVE ExpectedInv'
  OBVIOUS
<1>1. file \in onDisk
  BY DEF SInv, TypeOK
<1>2. CASE /\ Change \/ LoadDefaults
           /\ expected' = {list'} \cup (IF onDisk = {file} THEN InFile ELSE expected)
  <2>1. onDisk' \subseteq onDisk \cup {Empty}
    BY <1>2 DEF Change, AddMode, ConfirmEdit, DeleteFromList, DeleteFromEdit, MoveMode,
       Save, LoadDefaults
  <2>2. \A content \in onDisk : Parses(content) => content.modes \in expected'
    BY <1>2 DEF ExpectedInv, InFile
  <2>3. QED
    BY <1>2, <2>1, <2>2, Forms DEF ExpectedInv
<1>3. CASE (Sync \/ WriteBack) /\ expected' = InFile \cup OnScreen
  <2>1. onDisk' = {file} /\ list' = list /\ (pc' # "down" => pc # "down")
    BY <1>3 DEF Sync, WriteBack
  <2>2. QED
    BY <1>3, <2>1 DEF ExpectedInv, InFile, OnScreen
<1>4. CASE WriteFile /\ UNCHANGED expected
  <2>1. pc # "down" /\ list' = list
    BY <1>4 DEF WriteFile, RemoveFile, CreateFile, CreateFails, WritePart, WriteAll,
       WriteFails, Write
  <2>2. onDisk' \subseteq onDisk \cup {Absent, Empty, Partial, Json(list)}
    BY <1>4 DEF WriteFile, RemoveFile, CreateFile, CreateFails, WritePart, WriteAll,
       WriteFails, Write
  <2>3. QED
    BY <1>4, <2>1, <2>2, Forms DEF ExpectedInv
<1>5. CASE Load /\ UNCHANGED expected
  <2>1. list' = file.modes /\ onDisk' = onDisk /\ Parses(file)
    BY <1>5, LoadFromFile DEF Load
  <2>2. QED
    BY <1>1, <1>5, <2>1 DEF ExpectedInv
<1>6. CASE Browse /\ UNCHANGED expected
  <2>1. UNCHANGED <<list, pc, onDisk>>
    BY <1>6 DEF Browse, LeaveEdit, OpenEdit
  <2>2. QED
    BY <1>6, <2>1 DEF ExpectedInv
<1>7. CASE Outage /\ UNCHANGED expected
  <2>1. pc' = "down" /\ onDisk' \subseteq onDisk
    BY <1>7 DEF Outage, Crash, PowerLoss, Stop
  <2>2. QED
    BY <1>7, <2>1 DEF ExpectedInv
<1>8. CASE UNCHANGED rvars
  BY <1>8 DEF rvars, vars, ExpectedInv
<1>9. QED
  BY <1>2, <1>3, <1>4, <1>5, <1>6, <1>7, <1>8 DEF RNext

(***************************************************************************)
(* Whatever stops the panel, and whenever, it comes back with the default  *)
(* modes or with a list the user saw since the last save that is safely on *)
(* disk: an older list, a part of one or a mixture never comes back.       *)
(***************************************************************************)
THEOREM RestartsKeepModes == RSpec => RestartKeepsModes
<1>1. RInit => ExpectedInv
  BY Forms DEF RInit, Init, ExpectedInv
<1>2. SInv /\ ExpectedInv /\ [RNext]_rvars => ExpectedInv'
  BY ExpectedPreserves
<1>3. SInv /\ ExpectedInv => [Load => list' \in expected]_rvars
  <2> SUFFICES ASSUME SInv, ExpectedInv, Load PROVE list' \in expected
    OBVIOUS
  <2>1. file \in onDisk /\ Parses(file)
    BY DEF SInv, TypeOK, Load
  <2>2. QED
    BY <2>1, LoadFromFile DEF ExpectedInv
<1>4. QED
  BY <1>1, <1>2, <1>3, StoreInvariance, WatchedStore, PTL DEF RSpec, RestartKeepsModes
=============================================================================
