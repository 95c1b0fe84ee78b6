-------------------------- MODULE PageFlow_proofs ---------------------------
(***************************************************************************)
(* Proofs about the pages, for any number of default modes, any settings   *)
(* and lists of any length: no page is constructed twice, hidden pages are *)
(* stopped, and every tap acts on the mode the user sees.                  *)
(***************************************************************************)
EXTENDS PageFlow, ModeData_proofs

(* Page lists without repetition. *)

OnceEach(s) == \A i, j \in DOMAIN s : s[i] = s[j] => i = j

\* Taking out the one place where a page stands.
LEMMA Removed ==
  ASSUME NEW s \in Seq(Pages), OnceEach(s), NEW i \in 1..Len(s)
  PROVE  /\ RemoveFirst(s, s[i]) \in Seq(Pages)
         /\ Len(RemoveFirst(s, s[i])) = Len(s) - 1
         /\ \A k \in 1..(Len(s) - 1) :
              RemoveFirst(s, s[i])[k] = IF k < i THEN s[k] ELSE s[k + 1]
<1> DEFINE p == s[i]
           a == SubSeq(s, 1, i - 1)
           b == SubSeq(s, i + 1, Len(s))
<1>1. Len(s) \in Nat /\ DOMAIN s = 1..Len(s) /\ i \in Nat
  OBVIOUS
<1>2. { k \in 1..Len(s) : s[k] = p } = {i}
  BY <1>1 DEF OnceEach
<1>3. Min({i}) = i
  BY <1>1 DEF Min
<1>4. RemoveFirst(s, p) = RemoveAt(s, i)
  BY <1>2, <1>3 DEF RemoveFirst, SelectInSeq
<1>5. RemoveFirst(s, p) = a \o b
  BY <1>4 DEF RemoveAt
<1>6. /\ a \in Seq(Pages) /\ Len(a) = i - 1
      /\ \A k \in 1..(i - 1) : a[k] = s[k]
  BY <1>1
<1>7. /\ b \in Seq(Pages) /\ Len(b) = Len(s) - i
      /\ \A k \in 1..(Len(s) - i) : b[k] = s[i + k]
  <2> DEFINE m == i + 1
             n == Len(s)
  <2>1. m \in Int /\ n \in Int /\ m - 1 = i
    BY <1>1
  <2>2. \A k \in m..n : s[k] \in Pages
    <3>1. \A k \in m..n : k \in 1..Len(s)
      BY <1>1
    <3>2. QED
      BY <3>1
  <2> HIDE DEF m, n
  <2>3. /\ SubSeq(s, m, n) \in Seq(Pages)
        /\ Len(SubSeq(s, m, n)) = IF m <= n THEN n - m + 1 ELSE 0
        /\ \A k \in 1..(n - m + 1) : SubSeq(s, m, n)[k] = s[m + k - 1]
    BY <2>1, <2>2, SubSeqProperties
  <2>4. b = SubSeq(s, m, n) /\ n = Len(s) /\ m = i + 1 /\ i <= n
    BY <1>1 DEF m, n
  <2> HIDE DEF b
  <2>5. b \in Seq(Pages) /\ Len(b) = Len(s) - i
    <3>1. n - i = IF m <= n THEN n - m + 1 ELSE 0
      <4>1. n \in Int /\ m \in Int /\ i \in Int /\ m = i + 1 /\ i <= n
        BY <1>1, <2>1, <2>4
      <4>2. CASE m <= n
        BY <4>1, <4>2
      <4>3. CASE ~(m <= n)
        BY <4>1, <4>3
      <4>4. QED
        BY <4>2, <4>3
    <3>2. b \in Seq(Pages) /\ Len(b) = n - i
      BY <2>3, <2>4, <3>1
    <3>3. QED
      BY <2>4, <3>2
  <2>6. ASSUME NEW k \in 1..(Len(s) - i) PROVE b[k] = s[i + k]
    <3>1. k \in 1..(n - m + 1) /\ m + k - 1 = i + k
      BY <1>1, <2>4
    <3>2. QED
      BY <2>3, <2>4, <3>1
  <2>7. QED
    BY <2>5, <2>6
<1> HIDE DEF a, b
<1>8. a \o b \in Seq(Pages) /\ Len(a \o b) = Len(s) - 1
  <2>1. a \o b \in Seq(Pages) /\ Len(a \o b) = Len(a) + Len(b)
    BY <1>6, <1>7, ConcatProperties
  <2>2. QED
    BY <1>1, <1>6, <1>7, <2>1
<1>9. ASSUME NEW k \in 1..(Len(s) - 1)
      PROVE  (a \o b)[k] = IF k < i THEN s[k] ELSE s[k + 1]
  <2>1. CASE k < i
    BY <1>1, <1>6, <1>7, <2>1
  <2>2. CASE ~(k < i)
    <3>1. k - (i - 1) \in 1..(Len(s) - i) /\ i + (k - (i - 1)) = k + 1
      BY <1>1, <2>2
    <3>2. (a \o b)[k] = b[k - (i - 1)]
      BY <1>1, <1>6, <1>7, <2>2
    <3>3. QED
      BY <1>7, <2>2, <3>1, <3>2
  <2>3. QED
    BY <2>1, <2>2
<1>10. QED
  BY <1>5, <1>8, <1>9

\* A page taken from a list is not there any more, and the others are.
LEMMA RemovedFirst ==
  ASSUME NEW s \in Seq(Pages), OnceEach(s), NEW p
  PROVE  /\ RemoveFirst(s, p) \in Seq(Pages)
         /\ OnceEach(RemoveFirst(s, p))
         /\ ~Contains(RemoveFirst(s, p), p)
         /\ \A q : Contains(s, q) /\ q # p => Contains(RemoveFirst(s, p), q)
<1>1. CASE ~Contains(s, p)
  <2>1. RemoveFirst(s, p) = s
    BY <1>1 DEF RemoveFirst, Contains
  <2>2. QED
    BY <1>1, <2>1
<1>2. CASE Contains(s, p)
  <2>1. PICK i \in 1..Len(s) : s[i] = p
    BY <1>2 DEF Contains
  <2> DEFINE r == RemoveFirst(s, p)
  <2>2. /\ r \in Seq(Pages) /\ Len(r) = Len(s) - 1 /\ DOMAIN r = 1..(Len(s) - 1)
        /\ \A k \in 1..(Len(s) - 1) : r[k] = IF k < i THEN s[k] ELSE s[k + 1]
    <3>1. /\ r \in Seq(Pages) /\ Len(r) = Len(s) - 1
          /\ \A k \in 1..(Len(s) - 1) : r[k] = IF k < i THEN s[k] ELSE s[k + 1]
      BY <2>1, Removed
    <3> HIDE DEF r
    <3>2. QED
      BY <3>1
  <2> HIDE DEF r
  <2>3. Len(s) \in Nat /\ DOMAIN s = 1..Len(s) /\ i \in Nat
    OBVIOUS
  <2>4. ASSUME NEW j \in DOMAIN r, NEW k \in DOMAIN r, r[j] = r[k] PROVE j = k
    <3>1. /\ j \in 1..(Len(s) - 1) /\ k \in 1..(Len(s) - 1)
          /\ j \in DOMAIN s /\ k \in DOMAIN s /\ j + 1 \in DOMAIN s /\ k + 1 \in DOMAIN s
      BY <2>2, <2>3
    <3>2. CASE j < i /\ k < i
      BY <2>2, <2>4, <3>1, <3>2 DEF OnceEach
    <3>3. CASE j < i /\ ~(k < i)
      <4>1. s[j] = s[k + 1]
        BY <2>2, <2>4, <3>1, <3>3
      <4>2. j = k + 1
        BY <3>1, <4>1 DEF OnceEach
      <4>3. QED
        BY <2>3, <3>1, <3>3, <4>2
    <3>4. CASE ~(j < i) /\ k < i
      <4>1. s[j + 1] = s[k]
        BY <2>2, <2>4, <3>1, <3>4
      <4>2. j + 1 = k
        BY <3>1, <4>1 DEF OnceEach
      <4>3. QED
        BY <2>3, <3>1, <3>4, <4>2
    <3>5. CASE ~(j < i) /\ ~(k < i)
      <4>1. s[j + 1] = s[k + 1]
        BY <2>2, <2>4, <3>1, <3>5
      <4>2. j + 1 = k + 1
        BY <3>1, <4>1 DEF OnceEach
      <4>3. QED
        BY <2>3, <3>1, <4>2
    <3>6. QED
      BY <3>2, <3>3, <3>4, <3>5
  <2>5. ~Contains(r, p)
    <3>1. SUFFICES ASSUME NEW k \in 1..(Len(s) - 1), r[k] = p PROVE FALSE
      BY <2>2 DEF Contains
    <3>2. k \in DOMAIN s /\ k + 1 \in DOMAIN s /\ i \in DOMAIN s
      BY <2>3
    <3>3. CASE k < i
      <4>1. s[k] = s[i]
        BY <2>1, <2>2, <3>1, <3>3
      <4>2. QED
        BY <2>3, <3>2, <3>3, <4>1 DEF OnceEach
    <3>4. CASE ~(k < i)
      <4>1. s[k + 1] = s[i]
        BY <2>1, <2>2, <3>1, <3>4
      <4>2. k + 1 = i
        BY <3>2, <4>1 DEF OnceEach
      <4>3. QED
        BY <2>3, <3>2, <3>4, <4>2
    <3>5. QED
      BY <3>3, <3>4
  <2>6. ASSUME NEW q, Contains(s, q), q # p PROVE Contains(r, q)
    <3>1. PICK k \in 1..Len(s) : s[k] = q
      BY <2>6 DEF Contains
    <3>2. k # i
      BY <2>1, <2>6, <3>1
    <3>3. CASE k < i
      <4>1. k \in 1..(Len(s) - 1) /\ r[k] = q
        BY <2>2, <2>3, <3>1, <3>3
      <4>2. QED
        BY <2>2, <4>1 DEF Contains
    <3>4. CASE i < k
      <4>1. k - 1 \in 1..(Len(s) - 1) /\ ~(k - 1 < i) /\ k - 1 + 1 = k
        BY <2>3, <3>4
      <4>2. r[k - 1] = q
        BY <2>2, <3>1, <4>1
      <4>3. QED
        BY <2>2, <4>1, <4>2 DEF Contains
    <3>5. QED
      BY <2>3, <3>2, <3>3, <3>4
  <2>7. OnceEach(r)
    BY <2>4 DEF OnceEach
  <2>8. QED
    BY <2>2, <2>5, <2>6, <2>7 DEF r
<1>3. QED
  BY <1>1, <1>2

\* The members of a list, as a set and one by one.
LEMMA Members ==
  ASSUME NEW s \in Seq(Pages), NEW q
  PROVE  q \in ToSet(s) <=> Contains(s, q)
<1>1. DOMAIN s = 1..Len(s)
  OBVIOUS
<1>2. QED
  BY <1>1 DEF ToSet, Contains

\* Another page at the end of the list.
LEMMA AppendedOnce ==
  ASSUME NEW s \in Seq(Pages), OnceEach(s), NEW p \in Pages, ~Contains(s, p)
  PROVE  /\ Append(s, p) \in Seq(Pages) /\ OnceEach(Append(s, p))
         /\ \A q : Contains(Append(s, p), q) <=> Contains(s, q) \/ q = p
<1> DEFINE r == Append(s, p)
<1>1. /\ r \in Seq(Pages) /\ DOMAIN r = 1..(Len(s) + 1) /\ Len(r) = Len(s) + 1
      /\ DOMAIN s = 1..Len(s) /\ Len(s) \in Nat
      /\ \A k \in 1..Len(s) : r[k] = s[k]
      /\ r[Len(s) + 1] = p
  OBVIOUS
<1> HIDE DEF r
<1>2. ASSUME NEW j \in DOMAIN r, NEW k \in DOMAIN r, r[j] = r[k] PROVE j = k
  <2>1. CASE j \in DOMAIN s /\ k \in DOMAIN s
    BY <1>1, <1>2, <2>1 DEF OnceEach
  <2>2. CASE j \in DOMAIN s /\ k = Len(s) + 1
    BY <1>1, <1>2, <2>2 DEF Contains
  <2>3. CASE j = Len(s) + 1 /\ k \in DOMAIN s
    BY <1>1, <1>2, <2>3 DEF Contains
  <2>4. QED
    BY <1>1, <2>1, <2>2, <2>3
<1>3. ASSUME NEW q PROVE Contains(r, q) <=> Contains(s, q) \/ q = p
  <2>1. \A k \in 1..(Len(s) + 1) : k \in 1..Len(s) \/ k = Len(s) + 1
    BY <1>1
  <2>2. Len(s) + 1 \in 1..(Len(s) + 1) /\ \A k \in 1..Len(s) : k \in 1..(Len(s) + 1)
    BY <1>1
  <2>3. QED
    BY <1>1, <2>1, <2>2 DEF Contains
<1>4. QED
  BY <1>1, <1>2, <1>3 DEF OnceEach, r

----------------------------------------------------------------------------
(***************************************************************************)
(* The inductive invariant.  Clocks: one that runs, or is about to, is     *)
(* that of the page shown or of a page the delayed message will stop, and  *)
(* once the message came it is that of the page shown.  Before the first   *)
(* page is shown there is nothing at all.                                  *)
(***************************************************************************)
ClockInv ==
    \A p \in started \cup waking :
        /\ p = cur \/ Contains(recycled, p)
        /\ ~closing => p = cur

OffInv ==
    cur = "none" =>
        /\ modes = <<>> /\ recycled = <<>> /\ pop = Nothing
        /\ started = {} /\ waking = {}

PInv ==
    /\ TypeOK
    /\ NumberedFrom1(modes)
    /\ OneOfEach /\ HiddenAreStopped /\ TapsHitTheirMode
    /\ ClockInv /\ OffInv

LEMMA InitInv == Init => PInv
<1> SUFFICES ASSUME Init PROVE PInv
  OBVIOUS
<1>1. TypeOK
  <2>1. closing \in BOOLEAN
    BY DEF Init
  <2>2. modes \in Seq(Mode) /\ held \in Seq(Mode) /\ recycled \in Seq(Pages)
    BY DEF Init
  <2>3. timers \in [Pages -> Nat] /\ tickers \in [Pages -> Nat]
    BY DEF Init
  <2>4. QED
    BY <2>1, <2>2, <2>3 DEF Init, TypeOK
<1>2. NumberedFrom1(modes) /\ OneOfEach
  BY DEF Init, NumberedFrom1, OneOfEach, Contains
<1>3. HiddenAreStopped
  BY DEF Init, HiddenAreStopped, Pages
<1>4. TapsHitTheirMode
  BY DEF Init, TapsHitTheirMode
<1>5. ClockInv /\ OffInv
  BY DEF Init, ClockInv, OffInv
<1>6. QED
  BY <1>1, <1>2, <1>3, <1>4, <1>5 DEF PInv

----------------------------------------------------------------------------
(* wind_mgr::Show_Page. *)

\* The page taken is not in the list, the page hidden is, the others stay.
LEMMA ShownOnce ==
  ASSUME TypeOK, OneOfEach, NEW p \in Pages
  PROVE  /\ Recycled(p) \in Seq(Pages) /\ OnceEach(Recycled(p))
         /\ ~Contains(Recycled(p), p)
         /\ \A q \in Pages : q = cur \/ Contains(recycled, q)
                               => q = p \/ Contains(Recycled(p), q)
<1>1. recycled \in Seq(Pages) /\ OnceEach(recycled) /\ ~Contains(recycled, cur)
  BY DEF TypeOK, OneOfEach, OnceEach
<1>2. /\ Kept \in Seq(Pages) /\ OnceEach(Kept)
      /\ \A q \in Pages : q = cur \/ Contains(recycled, q) => Contains(Kept, q)
  <2>1. CASE cur = "none"
    <3>1. "none" \notin Pages
      BY DEF Pages
    <3>2. QED
      BY <1>1, <2>1, <3>1 DEF Kept
  <2>2. CASE cur # "none"
    <3>1. cur \in Pages
      BY <2>2 DEF TypeOK
    <3>2. QED
      BY <1>1, <2>2, <3>1, AppendedOnce DEF Kept
  <2>3. QED
    BY <2>1, <2>2
<1>3. QED
  BY <1>2, RemovedFirst DEF Recycled

\* The timers: the hidden page has none, the page shown at most one.
LEMMA ShownTimers ==
  ASSUME TypeOK, HiddenAreStopped, NEW p \in Pages, cur # p, timers' = Timers(p)
  PROVE  /\ timers' \in [Pages -> Nat]
         /\ \A q \in Pages : timers'[q] <= IF q = p THEN 1 ELSE 0
<1>1. timers \in [Pages -> Nat]
  BY DEF TypeOK
<1>2. ASSUME NEW q \in Pages
      PROVE  Timers(p)[q] \in Nat /\ Timers(p)[q] <= IF q = p THEN 1 ELSE 0
  <2>1. timers[q] \in Nat /\ timers[q] <= IF q = cur THEN 1 ELSE 0
    BY <1>1 DEF HiddenAreStopped
  <2>2. CASE q = cur
    <3>1. Timers(p)[q] = 0
      BY <2>2 DEF Timers
    <3>2. QED
      BY <2>2, <3>1
  <2>3. CASE q = p
    <3>1. Timers(p)[q] = IF StartsTimer(p) THEN timers[q] + 1 ELSE timers[q]
      BY <2>3 DEF Timers
    <3>2. timers[q] = 0
      BY <2>1, <2>3
    <3>3. QED
      BY <2>3, <3>1, <3>2
  <2>4. CASE q # cur /\ q # p
    <3>1. Timers(p)[q] = timers[q]
      BY <2>4 DEF Timers
    <3>2. QED
      BY <2>1, <2>4, <3>1
  <2>5. QED
    BY <2>2, <2>3, <2>4
<1>3. Timers(p) = [q \in Pages |-> Timers(p)[q]]
  BY DEF Timers
<1>4. QED
  BY <1>2, <1>3

(* Stop and Start: a clock has one ticker if it is started and none if not.*)

Ticking(on, ticks) ==
    /\ on \subseteq Pages /\ ticks \in [Pages -> Nat]
    /\ \A q \in Pages : ticks[q] = IF q \in on THEN 1 ELSE 0

LEMMA StopTicks ==
  ASSUME NEW on, NEW ticks, NEW ps, Ticking(on, ticks)
  PROVE  /\ Ticking(Stop(on, ticks, ps).on, Stop(on, ticks, ps).ticks)
         /\ Stop(on, ticks, ps).on = on \ ps
  BY DEF Ticking, Stop

LEMMA StartTicks ==
  ASSUME NEW on, NEW ticks, NEW ps \in SUBSET Pages, Ticking(on, ticks)
  PROVE  /\ Ticking(Start(on, ticks, ps).on, Start(on, ticks, ps).ticks)
         /\ Start(on, ticks, ps).on = on \cup ps
  BY DEF Ticking, Start

LEMMA ClocksTick == TypeOK /\ HiddenAreStopped => Ticking(started, tickers)
  BY DEF TypeOK, HiddenAreStopped, Ticking

\* The whole of Show_Page, for a change of the modes that keeps them numbered.
LEMMA ShowPreserves ==
  ASSUME PInv, NEW p \in Pages, NEW i, ShowPage(p, i), pop' = Nothing,
         modes' \in Seq(Mode), NumberedFrom1(modes'),
         p = "modify" => i \in DOMAIN modes'
  PROVE  PInv'
<1>1. TypeOK /\ OneOfEach /\ HiddenAreStopped /\ ClockInv
  BY DEF PInv
<1>2. /\ cur # p /\ cur' = p /\ recycled' = Recycled(p) /\ timers' = Timers(p)
      /\ attached' = (attached \ {cur}) \cup {p} /\ waking' = waking /\ closing' = TRUE
      /\ held' = Held(p) /\ bound' = Bound(p, i)
  BY DEF ShowPage
<1>3. /\ recycled' \in Seq(Pages) /\ OnceEach(recycled') /\ ~Contains(recycled', p)
      /\ \A q \in Pages : q = cur \/ Contains(recycled, q)
                            => q = p \/ Contains(recycled', q)
  BY <1>1, <1>2, ShownOnce
<1>4. /\ timers' \in [Pages -> Nat]
      /\ \A q \in Pages : timers'[q] <= IF q = p THEN 1 ELSE 0
  BY <1>1, <1>2, ShownTimers
<1>5. Ticking(started', tickers') /\ started' \subseteq started \cup {p}
  <2> DEFINE c == Stop(started, tickers, {cur})
             ps == IF StartsTimer(p) THEN {p} ELSE {}
  <2>1. Ticking(c.on, c.ticks) /\ c.on = started \ {cur}
    BY <1>1, ClocksTick, StopTicks
  <2>2. started' = Start(c.on, c.ticks, ps).on /\ tickers' = Start(c.on, c.ticks, ps).ticks
    BY DEF ShowPage, SetClocks
  <2>3. ps \in SUBSET Pages /\ ps \subseteq {p}
    OBVIOUS
  <2> HIDE DEF c, ps
  <2>4. /\ Ticking(Start(c.on, c.ticks, ps).on, Start(c.on, c.ticks, ps).ticks)
        /\ Start(c.on, c.ticks, ps).on = c.on \cup ps
    BY <2>1, <2>3, StartTicks
  <2>5. Ticking(started', tickers') /\ started' = c.on \cup ps
    BY <2>2, <2>4
  <2>6. QED
    BY <2>1, <2>3, <2>5
<1>6. attached' = {p}
  BY <1>1, <1>2 DEF HiddenAreStopped
<1>7. held' \in Seq(Mode) /\ (p = "list" => held' = modes')
  BY <1>1, <1>2 DEF Held, TypeOK
<1>8. /\ bound' = Nothing \/ bound' \in [at : Nat \ {0}, copy : Mode]
      /\ p = "modify" => bound'.at \in DOMAIN modes' /\ bound'.copy = modes'[bound'.at]
  <2>1. CASE p = "modify"
    <3>1. bound' = [at |-> i, copy |-> modes'[i]]
      BY <1>2, <2>1 DEF Bound
    <3>2. i \in Nat \ {0} /\ modes'[i] \in Mode
      BY <2>1
    <3>3. QED
      BY <2>1, <3>1, <3>2
  <2>2. CASE p # "modify"
    BY <1>1, <1>2, <2>2 DEF Bound, TypeOK
  <2>3. QED
    BY <2>1, <2>2
<1>9. TypeOK'
  <2>1. waking' \subseteq Pages /\ started' \subseteq Pages /\ tickers' \in [Pages -> Nat]
    BY <1>1, <1>2, <1>5 DEF TypeOK, Ticking
  <2>2. QED
    BY <1>2, <1>3, <1>4, <1>6, <1>7, <1>8, <2>1 DEF TypeOK
<1>10. OneOfEach'
  BY <1>2, <1>3 DEF OneOfEach, OnceEach
<1>11. p # "none"
  BY DEF Pages
<1>12. HiddenAreStopped'
  BY <1>2, <1>4, <1>5, <1>6, <1>11 DEF HiddenAreStopped, Ticking
<1>13. TapsHitTheirMode'
  BY <1>2, <1>7, <1>8 DEF TapsHitTheirMode
<1>14. ClockInv'
  <2>1. started' \cup waking' \subseteq Pages
    BY <1>9 DEF TypeOK
  <2>2. \A q \in started' \cup waking' : q = p \/ q \in started \cup waking
    BY <1>2, <1>5
  <2>3. QED
    BY <1>1, <1>2, <1>3, <2>1, <2>2 DEF ClockInv
<1>15. OffInv'
  BY <1>2, <1>11 DEF OffInv
<1>16. QED
  BY <1>9, <1>10, <1>12, <1>13, <1>14, <1>15 DEF PInv

\* main, before and after CConfMgr::init.
LEMMA BootPreserves == PInv /\ Boot => PInv'
<1> SUFFICES ASSUME PInv, Boot PROVE PInv'
  OBVIOUS
<1>1. pop' = Nothing
  BY DEF PInv, OffInv, Boot
<1>2. modes' \in {DefaultModes} \cup Saved /\ ShowPage("home", 0) /\ "home" \in Pages
  BY DEF Boot, Pages
<1>3. modes' \in Seq(Mode) /\ NumberedFrom1(modes')
  <2>1. CASE modes' = DefaultModes
    BY <2>1, DefaultsNumbered
  <2>2. CASE modes' \in Saved
    BY <2>2, SavedNumbered
  <2> QED
    BY <1>2, <2>1, <2>2
<1>4. QED
  BY <1>1, <1>2, <1>3, ShowPreserves

----------------------------------------------------------------------------
(* Taps. *)

\* A tap that leaves the page shown where it is.
LEMMA StayPreserves ==
  ASSUME PInv, cur # "none", UNCHANGED <<windows, clocks, bound>>,
         modes' \in Seq(Mode), NumberedFrom1(modes'), held' \in Seq(Mode),
         pop' = Nothing \/ pop' \in [at : Nat \ {0}, from : {"list", "modify"}],
         TapsHitTheirMode'
  PROVE  PInv'
<1>1. /\ UNCHANGED <<cur, recycled, attached, timers, closing, started, tickers, waking>>
      /\ bound' = bound
  BY DEF windows, clocks
<1>2. TypeOK'
  BY <1>1 DEF PInv, TypeOK
<1>3. OneOfEach' /\ HiddenAreStopped' /\ ClockInv' /\ OffInv'
  BY <1>1 DEF PInv, OneOfEach, HiddenAreStopped, ClockInv, OffInv
<1>4. QED
  BY <1>2, <1>3 DEF PInv

\* A tap that leads to another page and changes nothing else.
LEMMA GotoPreserves ==
  ASSUME PInv, pop = Nothing, NEW p \in Pages, NEW i, Goto(p, i),
         p = "modify" => i \in DOMAIN modes
  PROVE  PInv'
<1>1. ShowPage(p, i) /\ modes' = modes /\ pop' = Nothing
  BY DEF Goto
<1>2. modes \in Seq(Mode) /\ NumberedFrom1(modes)
  BY DEF PInv, TypeOK
<1>3. QED
  BY <1>1, <1>2, ShowPreserves

\* A tap that changes the modes and ends on the list page.
LEMMA ApplyPreserves ==
  ASSUME PInv, pop' = Nothing, NEW changed \in Seq(Mode), NumberedFrom1(changed),
         Apply(changed)
  PROVE  PInv'
<1>1. ShowPage("list", 0) /\ modes' = changed /\ "list" \in Pages
  BY DEF Apply, Pages
<1>2. QED
  BY <1>1, ShowPreserves

\* The buttons of the list page; the list it holds is the list of modes.
LEMMA OnListPreserves == PInv /\ OnList => PInv'
<1> SUFFICES ASSUME PInv, OnList PROVE PInv'
  OBVIOUS
<1>1. cur = "list" /\ pop = Nothing
  BY DEF OnList, TapAdd, TapMode, TapDelete, TapMove, Tap
<1>2. held = modes /\ modes \in Seq(Mode) /\ NumberedFrom1(modes)
  BY <1>1 DEF PInv, TypeOK, TapsHitTheirMode
<1>3. CASE TapAdd
  BY <1>1, <1>3, GotoPreserves DEF TapAdd, Pages
<1>4. ASSUME NEW i \in DOMAIN held, TapMode(i) PROVE PInv'
  BY <1>1, <1>2, <1>4, GotoPreserves DEF TapMode, Pages
<1>5. ASSUME NEW i \in DOMAIN held, TapDelete(i) PROVE PInv'
  <2>1. /\ pop' = [at |-> i, from |-> "list"] /\ ~modes[i].default
        /\ UNCHANGED <<modes, windows, clocks, held, bound>>
    BY <1>1, <1>2, <1>5 DEF TapDelete, Ask
  <2>2. i \in Nat \ {0} /\ cur' = "list"
    BY <1>1, <1>2, <2>1 DEF windows
  <2>3. TapsHitTheirMode'
    BY <1>2, <2>1, <2>2 DEF TapsHitTheirMode
  <2>4. pop' \in [at : Nat \ {0}, from : {"list", "modify"}]
    BY <2>1, <2>2
  <2>5. QED
    BY <1>1, <1>2, <2>1, <2>3, <2>4, StayPreserves
<1>6. ASSUME NEW i \in DOMAIN held, NEW j \in DOMAIN held, TapMove(i, j) PROVE PInv'
  <2>1. /\ j \in {i - 1, i + 1} /\ modes' = Moved(modes, i, j) /\ held' = modes'
        /\ UNCHANGED <<windows, clocks, bound, pop>>
    BY <1>6 DEF TapMove
  <2>2. i # j
    BY <1>2, <2>1
  <2>3. modes' \in Seq(Mode) /\ NumberedFrom1(modes')
    BY <1>2, <2>1, <2>2, MovedNumbered
  <2>4. TapsHitTheirMode'
    BY <1>1, <2>1 DEF TapsHitTheirMode, windows
  <2>5. QED
    BY <1>1, <2>1, <2>3, <2>4, StayPreserves
<1>7. QED
  BY <1>3, <1>4, <1>5, <1>6 DEF OnList

LEMMA OnPagePreserves == PInv /\ OnPage => PInv'
<1> SUFFICES ASSUME PInv, OnPage PROVE PInv'
  OBVIOUS
<1>1. modes \in Seq(Mode) /\ NumberedFrom1(modes)
  BY DEF PInv, TypeOK
<1>2. CASE TapHome \/ TapSteam \/ TapModes
  BY <1>2, GotoPreserves DEF TapHome, TapSteam, TapModes, Tap, Pages
<1>3. CASE OnList
  BY <1>3, OnListPreserves
<1>4. CASE TapDeleteShown
  <2>1. /\ cur = "modify" /\ pop = Nothing /\ pop' = [at |-> bound.at, from |-> "modify"]
        /\ UNCHANGED <<modes, windows, clocks, held, bound>>
    BY <1>4 DEF TapDeleteShown, Tap, Ask
  <2>2. bound.at \in DOMAIN modes /\ bound.copy = modes[bound.at]
    BY <2>1 DEF PInv, TapsHitTheirMode
  <2>3. bound.at \in Nat \ {0} /\ cur' = cur /\ held \in Seq(Mode)
    BY <1>1, <2>1, <2>2 DEF PInv, TypeOK, windows
  <2>4. TapsHitTheirMode'
    BY <2>1, <2>2, <2>3 DEF TapsHitTheirMode
  <2>5. pop' \in [at : Nat \ {0}, from : {"list", "modify"}]
    BY <2>1, <2>3
  <2>6. QED
    BY <1>1, <2>1, <2>3, <2>4, <2>5, StayPreserves
<1>5. ASSUME NEW v \in Settings, TapConfirm(v) PROVE PInv'
  <2>1. /\ cur = "modify" /\ pop' = Nothing
        /\ Apply([modes EXCEPT ![bound.at] = Edited(bound.copy, v)])
    BY <1>5 DEF TapConfirm, Tap
  <2>2. bound.at \in DOMAIN modes /\ bound.copy = modes[bound.at]
    BY <2>1 DEF PInv, TapsHitTheirMode
  <2>3. bound.copy \in Mode /\ bound.copy.dataPos = bound.at
    BY <1>1, <2>2 DEF NumberedFrom1
  <2> DEFINE m == bound.copy
             at == bound.at
  <2>4. m \in Mode /\ m.dataPos = at /\ at \in DOMAIN modes
    BY <2>2, <2>3
  <2>5. Apply([modes EXCEPT ![at] = Edited(m, v)])
    BY <2>1
  <2> HIDE DEF m, at
  <2>6. Edited(m, v) \in Mode /\ Edited(m, v).dataPos = at
    BY <2>4 DEF Edited, Mode
  <2>7. QED
    BY <1>1, <2>1, <2>4, <2>5, <2>6, EditedNumbered, ApplyPreserves
<1>6. ASSUME NEW v \in Settings, TapConfirmNew(v) PROVE PInv'
  <2>1. pop' = Nothing /\ Apply(Added(modes, v))
    BY <1>6 DEF TapConfirmNew, Tap
  <2> DEFINE m == [dataPos |-> Len(modes) + 1, default |-> FALSE, setting |-> v]
  <2>2. m \in Mode /\ m.dataPos = Len(modes) + 1
    BY <1>1 DEF Mode
  <2>3. Added(modes, v) = Append(modes, m)
    BY DEF Added
  <2> HIDE DEF m
  <2>4. QED
    BY <1>1, <2>1, <2>2, <2>3, AddedNumbered, ApplyPreserves
<1>7. QED
  BY <1>2, <1>3, <1>4, <1>5, <1>6 DEF OnPage

\* The buttons of the pop-up; the mode it asks about is still where it was.
LEMMA OnPopPreserves == PInv /\ OnPop => PInv'
<1> SUFFICES ASSUME PInv, OnPop PROVE PInv'
  OBVIOUS
<1>1. modes \in Seq(Mode) /\ NumberedFrom1(modes) /\ held \in Seq(Mode)
  BY DEF PInv, TypeOK
<1>2. pop # Nothing /\ pop.from = cur /\ pop.at \in DOMAIN modes /\ cur # "none"
  BY DEF OnPop, SureFromList, SureFromModify, Cancel, PInv, TapsHitTheirMode, OffInv
<1>3. /\ Without(modes, pop.at) \in Seq(Mode)
      /\ NumberedFrom1(Without(modes, pop.at))
  BY <1>1, <1>2, WithoutNumbered
<1>4. CASE SureFromList
  <2>1. /\ cur = "list" /\ modes' = Without(modes, pop.at) /\ held' = modes'
        /\ pop' = Nothing /\ UNCHANGED <<windows, clocks, bound>> /\ cur' = cur
    BY <1>2, <1>4 DEF SureFromList, windows
  <2>2. TapsHitTheirMode'
    BY <2>1 DEF TapsHitTheirMode
  <2>3. QED
    BY <1>2, <1>3, <2>1, <2>2, StayPreserves
<1>5. CASE SureFromModify
  BY <1>3, <1>5, ApplyPreserves DEF SureFromModify
<1>6. CASE Cancel
  <2>1. /\ pop' = Nothing /\ UNCHANGED <<modes, windows, clocks, held, bound>>
        /\ cur' = cur
    BY <1>6 DEF Cancel, windows
  <2>2. TapsHitTheirMode'
    BY <2>1 DEF PInv, TapsHitTheirMode
  <2>3. QED
    BY <1>1, <1>2, <2>1, <2>2, StayPreserves
<1>7. QED
  BY <1>4, <1>5, <1>6 DEF OnPop

----------------------------------------------------------------------------
(* The clocks and the delayed message. *)

\* What the clocks do leaves the modes and the taps alone.
LEMMA ClockPreserves ==
  ASSUME PInv, UNCHANGED <<modes, cur, recycled, held, bound, pop>>,
         cur # "none" \/ (started' = {} /\ waking' = {}),
         attached' = attached, timers' \in [Pages -> Nat],
         \A p \in Pages : timers'[p] <= timers[p],
         Ticking(started', tickers'), closing' \in BOOLEAN, ClockInv'
  PROVE  PInv'
<1>1. waking' \subseteq Pages
  <2>1. SUFFICES ASSUME NEW p \in waking' PROVE p \in Pages
    OBVIOUS
  <2>2. p = cur \/ Contains(recycled, p)
    BY DEF ClockInv
  <2>3. recycled \in Seq(Pages) /\ cur \in Pages \cup {"none"} /\ cur # "none"
    BY <2>1 DEF PInv, TypeOK
  <2>4. QED
    BY <2>2, <2>3 DEF Contains
<1>2. TypeOK'
  BY <1>1 DEF PInv, TypeOK, Ticking
<1>3. OneOfEach' /\ TapsHitTheirMode' /\ OffInv' /\ NumberedFrom1(modes')
  BY DEF PInv, OneOfEach, TapsHitTheirMode, OffInv
<1>4. HiddenAreStopped'
  <2>1. \A p \in Pages : timers'[p] <= IF p = cur THEN 1 ELSE 0
    BY <1>2 DEF PInv, TypeOK, HiddenAreStopped
  <2>2. ~closing' => started' \subseteq {cur'}
    BY DEF ClockInv
  <2>3. QED
    BY <2>1, <2>2 DEF PInv, HiddenAreStopped, Ticking
<1>5. QED
  BY <1>2, <1>3, <1>4 DEF PInv

LEMMA ClocksPreserve == PInv /\ Clocks => PInv'
<1> SUFFICES ASSUME PInv, Clocks PROVE PInv'
  OBVIOUS
<1>1. Ticking(started, tickers) /\ timers \in [Pages -> Nat] /\ closing \in BOOLEAN
  BY ClocksTick DEF PInv, TypeOK
<1>2. \A p \in Pages : timers[p] <= timers[p]
  BY <1>1
<1>3. ASSUME NEW p \in Pages, MeasureClock(p) PROVE PInv'
  <2>1. /\ waking' = waking \cup {p} /\ p \in attached
        /\ UNCHANGED <<modes, cur, recycled, attached, timers, closing, started, tickers,
                       held, bound, pop>>
    BY <1>3 DEF MeasureClock, windows
  <2>2. p = cur /\ cur # "none"
    BY <2>1 DEF PInv, HiddenAreStopped
  <2>3. ClockInv'
    BY <2>1, <2>2 DEF PInv, ClockInv
  <2>4. QED
    BY <1>1, <1>2, <2>1, <2>2, <2>3, ClockPreserves
<1>4. ASSUME NEW p \in Pages, StartClock(p) PROVE PInv'
  <2>1. /\ p \in waking /\ waking' = waking \ {p}
        /\ started' = Start(started, tickers, {p}).on
        /\ tickers' = Start(started, tickers, {p}).ticks
        /\ UNCHANGED <<modes, cur, recycled, attached, timers, closing, held, bound, pop>>
    BY <1>4 DEF StartClock, SetClocks, windows
  <2>2. Ticking(started', tickers') /\ started' = started \cup {p}
    BY <1>1, <2>1, StartTicks
  <2>3. cur # "none"
    BY <2>1 DEF PInv, OffInv
  <2>4. ClockInv'
    BY <2>1, <2>2 DEF PInv, ClockInv
  <2>5. QED
    BY <1>1, <1>2, <2>1, <2>2, <2>3, <2>4, ClockPreserves
<1>5. QED
  BY <1>3, <1>4 DEF Clocks

\* wind_mgr::handleMessage: what is left running is the clock of the page shown.
LEMMA ClosePreserves == PInv /\ CloseRecycled => PInv'
<1> SUFFICES ASSUME PInv, CloseRecycled PROVE PInv'
  OBVIOUS
<1>1. /\ closing' = FALSE /\ waking \subseteq {cur} /\ waking' = waking
      /\ attached' = attached \ ToSet(recycled)
      /\ timers' = [q \in Pages |-> IF Contains(recycled, q) THEN 0 ELSE timers[q]]
      /\ started' = Stop(started, tickers, ToSet(recycled)).on
      /\ tickers' = Stop(started, tickers, ToSet(recycled)).ticks
      /\ UNCHANGED <<modes, cur, recycled, held, bound, pop>>
  BY DEF CloseRecycled, SetClocks
<1>2. /\ recycled \in Seq(Pages) /\ timers \in [Pages -> Nat]
      /\ Ticking(started, tickers) /\ ~Contains(recycled, cur)
      /\ attached = IF cur = "none" THEN {} ELSE {cur}
  BY ClocksTick DEF PInv, TypeOK, OneOfEach, HiddenAreStopped
<1>3. attached' = attached
  <2>1. cur \notin ToSet(recycled)
    BY <1>2, Members
  <2>2. QED
    BY <1>1, <1>2, <2>1
<1>4. Ticking(started', tickers') /\ started' = started \ ToSet(recycled)
  BY <1>1, <1>2, StopTicks
<1>5. /\ timers' \in [Pages -> Nat]
      /\ \A p \in Pages : timers'[p] <= timers[p]
  BY <1>1, <1>2
<1>6. ClockInv'
  <2>1. \A p \in started' : p \in started /\ ~Contains(recycled, p)
    BY <1>2, <1>4, Members
  <2>2. \A p \in started' \cup waking' : p = cur
    BY <1>1, <2>1 DEF PInv, ClockInv
  <2>3. QED
    BY <1>1, <2>2 DEF ClockInv
<1>7. cur # "none" \/ (started' = {} /\ waking' = {})
  BY <1>1, <1>4 DEF PInv, OffInv
<1>8. closing' \in BOOLEAN
  BY <1>1
<1>9. QED
  BY <1>1, <1>3, <1>4, <1>5, <1>6, <1>7, <1>8, ClockPreserves

----------------------------------------------------------------------------
(***************************************************************************)
(* The invariants of the pages hold together in every reachable state.     *)
(***************************************************************************)
THEOREM PagesInvariance == Spec => []PInv
<1>1. PInv /\ [Next]_vars => PInv'
  <2> SUFFICES ASSUME PInv, [Next]_vars PROVE PInv'
    OBVIOUS
  <2>1. CASE UNCHANGED vars
    BY <2>1 DEF vars, windows, clocks, PInv, TypeOK, OneOfEach, HiddenAreStopped,
       TapsHitTheirMode, ClockInv, OffInv
  <2>2. QED
    BY <2>1, BootPreserves, OnPagePreserves, OnPopPreserves, ClocksPreserve,
       ClosePreserves DEF Next
<1>2. QED
  BY InitInv, <1>1, PTL DEF Spec

\* What the pages and the window manager hold keeps its type.
THEOREM PagesTyped == Spec => []TypeOK
<1>1. PInv => TypeOK
  BY DEF PInv
<1>2. QED
  BY PagesInvariance, <1>1, PTL

(***************************************************************************)
(* In whatever order pages are shown, hidden and taken again, none is      *)
(* constructed twice and the one shown is not among those to be closed.    *)
(***************************************************************************)
THEOREM PagesConstructedOnce == Spec => []OneOfEach
<1>1. PInv => OneOfEach
  BY DEF PInv
<1>2. QED
  BY PagesInvariance, <1>1, PTL

(***************************************************************************)
(* A hidden page has no timer and is not in the window, no clock ever has  *)
(* two tickers, and one that starts late on a hidden page is stopped by    *)
(* the delayed message.                                                    *)
(***************************************************************************)
THEOREM HiddenPagesStop == Spec => []HiddenAreStopped
<1>1. PInv => HiddenAreStopped
  BY DEF PInv
<1>2. QED
  BY PagesInvariance, <1>1, PTL

(***************************************************************************)
(* However long the list of modes, and whatever was added, moved, deleted  *)
(* or edited before, a tap acts on the mode the user sees.                 *)
(***************************************************************************)
THEOREM TapsHitWhatIsSeen == Spec => []TapsHitTheirMode
<1>1. PInv => TapsHitTheirMode
  BY DEF PInv
<1>2. QED
  BY PagesInvariance, <1>1, PTL

----------------------------------------------------------------------------
(* The pages implement the row of modes. *)

LEMMA MovedInRow ==
  ASSUME PInv, cur # "none", cur' # "none",
         NEW i \in DOMAIN modes, NEW j \in DOMAIN modes, j \in {i - 1, i + 1},
         modes' = Moved(modes, i, j)
  PROVE  Row!Use
<1>1. modes \in Seq(Mode)
  BY DEF PInv, TypeOK
<1>2. i # j
  BY <1>1
<1>3. DOMAIN Face(modes) = DOMAIN modes
  BY DEF Face
<1>4. Row!Swap(i, j)
  BY <1>1, <1>2, FaceMoved DEF Row!Swap
<1>5. QED
  BY <1>3, <1>4 DEF Row!Use

LEMMA ErasedInRow ==
  ASSUME PInv, cur # "none", cur' # "none", NEW i \in DOMAIN modes,
         modes' = Without(modes, i)
  PROVE  Row!Use
<1>1. modes \in Seq(Mode)
  BY DEF PInv, TypeOK
<1>2. DOMAIN Face(modes) = DOMAIN modes
  BY DEF Face
<1>3. Row!Erase(i)
  BY <1>1, FaceWithout DEF Row!Erase
<1>4. QED
  BY <1>2, <1>3 DEF Row!Use

LEMMA AddedInRow ==
  ASSUME PInv, cur # "none", cur' # "none", NEW s \in Settings,
         modes' = Added(modes, s)
  PROVE  Row!Use
<1> DEFINE m == [dataPos |-> Len(modes) + 1, default |-> FALSE, setting |-> s]
<1>1. modes \in Seq(Mode) /\ m \in Mode
  BY DEF PInv, TypeOK, Mode
<1>2. modes' = Append(modes, m) /\ m.default = FALSE /\ m.setting = s
  BY DEF Added
<1> HIDE DEF m
<1>3. Row!New(s)
  BY <1>1, <1>2, FaceAppended DEF Row!New
<1>4. QED
  BY <1>3 DEF Row!Use

LEMMA EditedInRow ==
  ASSUME PInv, cur # "none", cur' # "none", NEW i \in DOMAIN modes, NEW s \in Settings,
         NEW m \in Mode, m = modes[i], modes' = [modes EXCEPT ![i] = Edited(m, s)]
  PROVE  Row!Use
<1>1. modes \in Seq(Mode) /\ DOMAIN Face(modes) = DOMAIN modes
  BY DEF PInv, TypeOK, Face
<1> DEFINE e == Edited(m, s)
<1>2. e.default = m.default /\ e.setting = s
  BY DEF Edited, Mode
<1>3. modes' = [modes EXCEPT ![i] = e]
  OBVIOUS
<1> HIDE DEF e
<1>4. Face(modes') = [Face(modes) EXCEPT ![i] = [default |-> e.default, setting |-> e.setting]]
  <2>1. Face([modes EXCEPT ![i] = e]) =
          [Face(modes) EXCEPT ![i] = [default |-> e.default, setting |-> e.setting]]
    BY <1>1, FaceEdited
  <2>2. QED
    BY <1>3, <2>1
<1>5. [Face(modes)[i] EXCEPT !.setting = s] = [default |-> e.default, setting |-> e.setting]
  BY <1>2 DEF Face
<1>6. Row!Change(i, s)
  BY <1>4, <1>5 DEF Row!Change
<1>7. QED
  BY <1>1, <1>6 DEF Row!Use

\* Once the panel shows a page it shows one for ever.
LEMMA StaysOn == PInv /\ [Next]_vars /\ cur # "none" => cur' # "none"
<1> SUFFICES ASSUME [Next]_vars, cur # "none", cur' = "none" PROVE FALSE
  OBVIOUS
<1>1. cur' # cur
  OBVIOUS
<1>2. PICK p \in Pages : \E i : ShowPage(p, i)
  BY <1>1 DEF Next, Boot, OnPage, OnList, OnPop, Clocks, TapHome, TapSteam, TapModes,
     TapAdd, TapMode, TapMove, TapDelete, TapDeleteShown, TapConfirm, TapConfirmNew,
     Goto, Apply, Ask, SureFromList, SureFromModify, Cancel, MeasureClock, StartClock,
     CloseRecycled, windows, vars, Pages
<1>3. QED
  BY <1>2 DEF ShowPage, Pages

LEMMA StepOfRow == PInv /\ PInv' /\ [Next]_vars => [Row!MNext]_(Row!mvars)
<1> SUFFICES ASSUME PInv, PInv', [Next]_vars
             PROVE  Row!MNext \/ UNCHANGED Row!mvars
  OBVIOUS
<1>1. CASE Boot
  <2>1. cur = "none" /\ cur' # "none"
    BY <1>1 DEF Boot, ShowPage
  <2>2. Face(modes)' \in Seq(Row!Shown)
    <3>1. modes' \in Seq(Mode)
      BY DEF PInv, TypeOK
    <3>2. QED
      BY <3>1, FaceOfList DEF Face, Shown, Row!Shown
  <2>3. QED
    BY <2>1, <2>2 DEF Row!MNext, Row!SwitchOn
<1>2. ASSUME cur # "none" PROVE Row!MNext \/ UNCHANGED Row!mvars
  <2>1. cur' # "none"
    BY <1>2, StaysOn
  <2>2. modes \in Seq(Mode)
    BY DEF PInv, TypeOK
  <2>3. ASSUME NEW i \in DOMAIN held, NEW j \in DOMAIN held, TapMove(i, j) PROVE Row!Use
    <3>1. held = modes /\ j \in {i - 1, i + 1} /\ modes' = Moved(modes, i, j)
      BY <2>3 DEF TapMove, Tap, PInv, TapsHitTheirMode
    <3>2. QED
      BY <1>2, <2>1, <3>1, MovedInRow
  <2>4. CASE SureFromList \/ SureFromModify
    <3>1. pop.at \in DOMAIN modes /\ modes' = Without(modes, pop.at)
      BY <2>4 DEF SureFromList, SureFromModify, Apply, PInv, TapsHitTheirMode
    <3>2. QED
      BY <1>2, <2>1, <3>1, ErasedInRow DEF Row!MNext
  <2>5. ASSUME NEW v \in Settings, TapConfirmNew(v) PROVE Row!Use
    BY <1>2, <2>1, <2>5, AddedInRow DEF TapConfirmNew, Apply
  <2>6. ASSUME NEW v \in Settings, TapConfirm(v) PROVE Row!Use
    <3>1. /\ bound.at \in DOMAIN modes /\ bound.copy = modes[bound.at]
          /\ modes' = [modes EXCEPT ![bound.at] = Edited(bound.copy, v)]
      BY <2>6 DEF TapConfirm, Tap, Apply, PInv, TapsHitTheirMode
    <3>2. bound.copy \in Mode
      BY <2>2, <3>1
    <3>3. QED
      BY <1>2, <2>1, <3>1, <3>2, EditedInRow
  <2>7. CASE \/ UNCHANGED vars \/ Clocks \/ CloseRecycled \/ TapDeleteShown \/ Cancel
             \/ TapHome \/ TapSteam \/ TapModes \/ TapAdd
             \/ \E i \in DOMAIN held : TapMode(i) \/ TapDelete(i)
    <3>1. modes' = modes
      BY <2>7 DEF vars, Clocks, MeasureClock, StartClock, CloseRecycled, TapDeleteShown,
         Cancel, TapHome, TapSteam, TapModes, TapAdd, TapMode, TapDelete, Ask, Goto
    <3>2. (cur # "none")' = (cur # "none")
      BY <1>2, <2>1
    <3>3. Face(modes)' = Face(modes)
      BY <3>1 DEF Face
    <3>4. UNCHANGED Row!mvars
      BY <3>2, <3>3 DEF Row!mvars
    <3>5. QED
      BY <3>4
  <2>8. CASE Boot
    BY <1>2, <2>8 DEF Boot
  <2>9. QED
    BY <2>3, <2>4, <2>5, <2>6, <2>7, <2>8 DEF Next, OnPage, OnList, OnPop, Row!MNext
<1>3. CASE cur = "none" /\ ~Boot
  <2>1. pop = Nothing /\ started = {} /\ waking = {} /\ attached = {}
    BY <1>3 DEF PInv, OffInv, HiddenAreStopped
  <2>2. modes' = modes /\ cur' = cur
    BY <1>3, <2>1 DEF Next, OnPage, OnList, OnPop, Clocks, TapHome, TapSteam, TapModes,
       TapAdd, TapMode, TapMove, TapDelete, TapDeleteShown, TapConfirm, TapConfirmNew,
       Tap, Goto, Apply, Ask, SureFromList, SureFromModify, Cancel, MeasureClock,
       StartClock, CloseRecycled, windows, vars, Pages
  <2>3. QED
    BY <2>2 DEF Row!mvars, Face
<1>4. QED
  BY <1>1, <1>2, <1>3

(***************************************************************************)
(* Through the list page's copy, the edit page's and the pop-up's position *)
(* the user works on one row of modes, whatever its length.                *)
(***************************************************************************)
THEOREM PagesKeepRow == Spec => KeepsRow
<1>1. Init => Row!MInit
  BY DEF Init, Row!MInit, Face
<1>2. PInv /\ PInv' /\ [Next]_vars => [Row!MNext]_(Row!mvars)
  BY StepOfRow
<1>3. QED
  BY PagesInvariance, <1>1, <1>2, PTL DEF Spec, KeepsRow, Row!MSpec
=============================================================================
