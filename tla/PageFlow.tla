------------------------------ MODULE PageFlow ------------------------------
(***************************************************************************)
(* The pages.  wind_mgr shows one page at a time and keeps those shown     *)
(* before in page_recycle_list, from where Show_Page takes them again; a   *)
(* delayed message closes whatever is in that list.  Each page has a timer *)
(* that sets the time it shows and posts itself again, and so has the view *)
(* that shows it, a TimeTextView, whose ticker makes the colon blink.  The *)
(* list page holds a copy of the modes, the edit page a copy of one mode   *)
(* and its position, the pop-up page a position; each was taken when its   *)
(* page was shown, and each is what the next tap acts on.  A tap runs to   *)
(* its end, saveLocalJson included, before the looper takes the next event.*)
(***************************************************************************)
EXTENDS ModeData, SequencesExt

CONSTANTS
    Saved,      \* the lists the file may hold when the panel is switched on
    MaxModes    \* bound: no mode is added to a list of this length

\* What ModeStore shows of every list its file holds (Numbered).
ASSUME SavedNumbered == Saved \subseteq Seq(Mode) /\ \A list \in Saved : NumberedFrom1(list)

Pages == {"home", "steam", "list", "modify", "add"}

VARIABLES
    modes,      \* CConfMgr::modeDataList
    cur,        \* the type of cur_showpage
    recycled,   \* page_recycle_list, by type
    attached,   \* the pages whose layout is in root_page
    timers,     \* the OnTimer calls each page has posted and not removed
    started,    \* the pages whose left_time has mIsStart
    tickers,    \* the mTicker calls each left_time has posted and not removed
    waking,     \* those onMeasure has posted a start for
    closing,    \* whether MSG_PAGE_DELAY_CLOSE is posted
    held,       \* the list page's mode_data_list
    bound,      \* the edit page's tmp_modedata and position
    pop         \* cur_show_poppage: the page it was opened from and its position

clocks == <<started, tickers, waking>>
windows == <<cur, recycled, attached, timers, closing>>
vars == <<modes, windows, clocks, held, bound, pop>>

Nothing == [at |-> 0]

TypeOK ==
    /\ modes \in Seq(Mode) /\ held \in Seq(Mode)
    /\ cur \in Pages \cup {"none"}
    /\ recycled \in Seq(Pages) /\ attached \subseteq Pages
    /\ timers \in [Pages -> Nat]
    /\ started \subseteq Pages /\ waking \subseteq Pages
    /\ tickers \in [Pages -> Nat]
    /\ closing \in BOOLEAN
    /\ bound = Nothing \/ bound \in [at : Nat \ {0}, copy : Mode]
    /\ pop = Nothing \/ pop \in [at : Nat \ {0}, from : {"list", "modify"}]

Init ==
    /\ modes = <<>> /\ held = <<>>
    /\ cur = "none" /\ recycled = <<>> /\ attached = {}
    /\ timers = [p \in Pages |-> 0]
    /\ started = {} /\ waking = {} /\ tickers = [p \in Pages |-> 0]
    /\ closing = FALSE
    /\ bound = Nothing /\ pop = Nothing

----------------------------------------------------------------------------
(* wind_mgr::Show_Page.  It returns at once if the page is shown already,  *)
(* which no button asks for.                                               *)

\* page_recycle_list with the page that is hidden now.
Kept == IF cur = "none" THEN recycled ELSE Append(recycled, cur)
IsReused(p) == Contains(Kept, p)

\* A slip: the reused page stays in the list.
RecycledUncut(p) == Kept
Recycled(p) == RemoveFirst(Kept, p)

\* OnTimer runs and left_time starts when a page is constructed.  When it is
\* used again its Start_Page_action decides; those of two classes leave both out.
StartsTimer(p) == ~IsReused(p) \/ p \in {"home", "list"}

\* A slip: RemovePage leaves the timer of the hidden page.
TimersKept(p) == [timers EXCEPT ![p] = IF StartsTimer(p) THEN @ + 1 ELSE @]

\* The hidden page is stopped (Stop_Page_action, RemovePage).
Timers(p) ==
    [q \in Pages |->
        CASE q = cur -> 0
          [] q = p -> IF StartsTimer(p) THEN timers[q] + 1 ELSE timers[q]
          [] OTHER -> timers[q]]

(* TimeTextView: start and stop return at once if there is nothing to do.  *)
\* A slip: the ticker is left running.
StopKept(on, ticks, ps) == [on |-> on \ ps, ticks |-> ticks]

\* stop, called by RemovePage.
Stop(on, ticks, ps) ==
    [on |-> on \ ps, ticks |-> [q \in Pages |-> IF q \in on \cap ps THEN 0 ELSE ticks[q]]]

Start(on, ticks, ps) ==
    [on |-> on \cup ps,
     ticks |-> [q \in Pages |-> IF q \in ps \ on THEN ticks[q] + 1 ELSE ticks[q]]]

SetClocks(c) == started' = c.on /\ tickers' = c.ticks

\* A slip: the list page takes the modes only when it is constructed.
HeldOnce(p) == IF p = "list" /\ ~IsReused(p) THEN modes' ELSE held

\* The adapter takes the modes when it is constructed, and again in
\* PageWaterMode::Start_Page_action.
Held(p) == IF p = "list" THEN modes' ELSE held

\* A slip: a reused edit page keeps the copy it was constructed with.
BoundCopyKept(p, i) ==
    IF p # "modify" THEN bound
    ELSE [at |-> i, copy |-> IF IsReused(p) THEN bound.copy ELSE modes'[i]]

\* PageWaterModify::Start_Page_action.
Bound(p, i) == IF p = "modify" THEN [at |-> i, copy |-> modes'[i]] ELSE bound

ShowPage(p, i) ==
    /\ cur # p
    /\ cur' = p
    /\ recycled' = Recycled(p)
    /\ attached' = (attached \ {cur}) \cup {p}
    /\ timers' = Timers(p)
    /\ LET c == Stop(started, tickers, {cur})
       IN  SetClocks(Start(c.on, c.ticks, IF StartsTimer(p) THEN {p} ELSE {}))
    /\ UNCHANGED waking
    /\ closing' = TRUE
    /\ held' = Held(p)
    /\ bound' = Bound(p, i)

\* TimeTextView::onMeasure, which the framework calls for views in the window.
MeasureClock(p) ==
    /\ p \in attached \ (started \cup waking)
    /\ waking' = waking \cup {p}
    /\ UNCHANGED <<modes, windows, started, tickers, held, bound, pop>>

\* The start it posted runs 10 ms later, whether or not the page is hidden by then.
StartClock(p) ==
    /\ p \in waking
    /\ waking' = waking \ {p}
    /\ SetClocks(Start(started, tickers, {p}))
    /\ UNCHANGED <<modes, windows, held, bound, pop>>

\* handleMessage, 200 ms after the page was shown: the starts that the hidden
\* pages' clocks have posted are due before it.
CloseRecycled ==
    /\ closing /\ waking \subseteq {cur}
    /\ closing' = FALSE
    /\ attached' = attached \ ToSet(recycled)
    /\ timers' = [q \in Pages |-> IF Contains(recycled, q) THEN 0 ELSE timers[q]]
    /\ SetClocks(Stop(started, tickers, ToSet(recycled)))
    /\ UNCHANGED <<modes, cur, recycled, waking, held, bound, pop>>

\* main: Show_Page(PAGE_HOME_), then CConfMgr::init, which loads the file or, if
\* it cannot be read, takes the default modes.
Boot ==
    /\ cur = "none"
    /\ modes' \in {DefaultModes} \cup Saved
    /\ ShowPage("home", 0)
    /\ UNCHANGED pop

----------------------------------------------------------------------------
(* Taps.  While the pop-up is there root_page is invisible and takes none. *)

Tap(p) == cur = p /\ pop = Nothing
Goto(p, i) == UNCHANGED <<modes, pop>> /\ ShowPage(p, i)

\* A change that ends on the list page.
Apply(changed) ==
    /\ modes' = changed
    /\ ShowPage("list", 0)

TapHome == cur \in Pages \ {"home"} /\ Tap(cur) /\ Goto("home", 0)
TapSteam == Tap("home") /\ Goto("steam", 0)
TapModes == cur \in {"home", "modify", "add"} /\ Tap(cur) /\ Goto("list", 0)
TapAdd == Tap("list") /\ Goto("add", 0)
TapMode(i) == Tap("list") /\ Goto("modify", i)

\* down_left and down_right: movedMode, and the adapter takes the list again.
TapMove(i, j) ==
    /\ Tap("list") /\ j \in {i - 1, i + 1}
    /\ modes' = Moved(modes, i, j)
    /\ held' = modes'
    /\ UNCHANGED <<windows, clocks, bound, pop>>

Ask(i) ==
    /\ pop' = [at |-> i, from |-> cur]
    /\ UNCHANGED <<modes, windows, clocks, held, bound>>

\* down_delete, hidden where canDelete is 0.
TapDelete(i) == Tap("list") /\ ~held[i].default /\ Ask(i)
TapDeleteShown == Tap("modify") /\ Ask(bound.at)

\* bt_confirm of the edit page and of the page that adds a mode.
TapConfirm(s) ==
    /\ Tap("modify")
    /\ Apply([modes EXCEPT ![bound.at] = Edited(bound.copy, s)])
    /\ UNCHANGED pop

TapConfirmNew(s) ==
    /\ Tap("add") /\ Len(modes) < MaxModes
    /\ Apply(Added(modes, s))
    /\ UNCHANGED pop

----------------------------------------------------------------------------
(* The pop-up's buttons: the callback, then Deal_Close_Pop_Page. *)

SureFromList ==
    /\ pop # Nothing /\ pop.from = "list"
    /\ modes' = Without(modes, pop.at)
    /\ held' = modes'
    /\ pop' = Nothing
    /\ UNCHANGED <<windows, clocks, bound>>

SureFromModify ==
    /\ pop # Nothing /\ pop.from = "modify"
    /\ Apply(Without(modes, pop.at))
    /\ pop' = Nothing

Cancel ==
    /\ pop # Nothing
    /\ pop' = Nothing
    /\ UNCHANGED <<modes, windows, clocks, held, bound>>

----------------------------------------------------------------------------
OnList ==
    \/ TapAdd
    \/ \E i \in DOMAIN held : TapMode(i) \/ TapDelete(i)
    \/ \E i, j \in DOMAIN held : TapMove(i, j)

OnPage ==
    \/ TapHome \/ TapSteam \/ TapModes \/ OnList \/ TapDeleteShown
    \/ \E s \in Settings : TapConfirm(s) \/ TapConfirmNew(s)

OnPop == SureFromList \/ SureFromModify \/ Cancel

Clocks == \E p \in Pages : MeasureClock(p) \/ StartClock(p)

Next == Boot \/ OnPage \/ OnPop \/ Clocks \/ CloseRecycled

Spec == Init /\ [][Next]_vars

----------------------------------------------------------------------------
(***************************************************************************)
(* A page is constructed at most once, however pages are shown, hidden and *)
(* taken again: the one shown is not in page_recycle_list (the delayed     *)
(* message would take it down) and no other is there twice.                *)
(***************************************************************************)
OneOfEach ==
    /\ ~Contains(recycled, cur)
    /\ \A i, j \in DOMAIN recycled : recycled[i] = recycled[j] => i = j

(***************************************************************************)
(* The page shown is alone in the window, before and after the delayed     *)
(* message; hidden pages have no timer running and the page shown at most  *)
(* one.  No clock has more than one ticker, and one that started after its *)
(* page was hidden, as a start posted by onMeasure may, stops when the     *)
(* delayed message comes.                                                  *)
(***************************************************************************)
HiddenAreStopped ==
    /\ attached = IF cur = "none" THEN {} ELSE {cur}
    /\ \A p \in Pages : timers[p] <= IF p = cur THEN 1 ELSE 0
    /\ \A p \in Pages : tickers[p] = IF p \in started THEN 1 ELSE 0
    /\ ~closing => started \subseteq {cur}

(***************************************************************************)
(* What a tap acts on is what the user sees: the list page shows the modes *)
(* as they are, the edit page's copy is the mode at its position, and the  *)
(* pop-up asks about a mode of the page beneath it.                        *)
(***************************************************************************)
TapsHitTheirMode ==
    /\ cur = "list" => held = modes
    /\ cur = "modify" => bound.at \in DOMAIN modes /\ bound.copy = modes[bound.at]
    /\ pop # Nothing =>
         /\ pop.from = cur /\ pop.at \in DOMAIN modes
         /\ IF cur = "list" THEN ~modes[pop.at].default ELSE pop.at = bound.at

(***************************************************************************)
(* Through all the copies, the user works on one row of modes.             *)
(***************************************************************************)
Row == INSTANCE ModeList WITH on <- cur # "none", row <- Face(modes)
KeepsRow == Row!MSpec

(***************************************************************************)
(* pagebase.h, of Start_Page_action: "to be overridden in the pages, do    *)
(* not forget to bind m_Timer_cb to the page again".  The page that is     *)
(* shown has its timer running, or its clock stands still.                 *)
(***************************************************************************)
ClockRuns == cur # "none" => timers[cur] > 0
=============================================================================
