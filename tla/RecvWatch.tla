----------------------------- MODULE RecvWatch ------------------------------
(***************************************************************************)
(* The receiving half watched from the wire: how long no good frame has    *)
(* arrived, what the last good frame said, and what CConnMgr was last      *)
(* told.  These variables only record the steps of RecvDispatch.           *)
(***************************************************************************)
EXTENDS RecvDispatch

VARIABLES
    silence,    \* time since a frame with a good check code arrived
    latest,     \* that frame
    seen,       \* the frame onCommDeal was last called with
    modeAge,    \* time since the product test was last entered or left
    settled,    \* a good frame has arrived DealSpace or more after that
    tested      \* the product test was entered since onCommand was last called

watched == <<silence, latest, seen, modeAge, settled, tested>>
allVars == <<vars, watched>>

SilenceCap == RecvTimeout + MaxLag

WInit ==
    /\ Init
    /\ silence = 0
    /\ latest = NoFrame
    /\ seen = NoFrame
    /\ modeAge = DealSpace
    /\ settled = TRUE
    /\ tested = FALSE

WReceive(f) ==
    /\ Receive(f)
    /\ silence' = 0
    /\ latest' = f
    /\ seen' = IF out' = "handler" THEN f ELSE seen
    /\ settled' = (settled \/ modeAge >= DealSpace)
    /\ tested' = (tested /\ out' # "handler")
    /\ modeAge' = modeAge

WProductTest(on) ==
    /\ SetProductTest(on)
    /\ modeAge' = 0
    /\ settled' = FALSE
    /\ tested' = (tested \/ on)
    /\ UNCHANGED <<silence, latest, seen>>

WPass ==
    /\ Pass
    /\ silence' = Older(silence, SilenceCap)
    /\ modeAge' = Older(modeAge, DealSpace)
    /\ UNCHANGED <<latest, seen, settled, tested>>

WOnTick == OnTick /\ UNCHANGED watched

WNext ==
    \/ \E f \in Frame : WReceive(f)
    \/ \E on \in BOOLEAN : WProductTest(on)
    \/ WPass
    \/ WOnTick

WSpec == WInit /\ [][WNext]_allVars

----------------------------------------------------------------------------
(***************************************************************************)
(* No false alarm: the receive timeout stands only if good frames have     *)
(* stayed away.  Repetitions are suppressed and do not reach onCommand; it *)
(* is because checkDealData lets one through each second, and onCommand    *)
(* then restarts the clock, that a steady stream of equal frames is not    *)
(* taken for silence.  Frames the product test took do not restart it.     *)
(***************************************************************************)
TimeoutMeansSilence ==
    timedOut /\ ~tested => silence > RecvTimeout - DealSpace

(***************************************************************************)
(* What RECV_TIMEOUT_TIME is documented as, a warning that received data   *)
(* timed out: it never stands while good frames arrive.                    *)
(***************************************************************************)
NoAlarmWhileReceiving ==
    timedOut => silence > 0

\* No missed alarm: after RecvTimeout of silence the next tick raises it,
\* product test or not.
SilenceIsDetected ==
    silence >= RecvTimeout + MaxLag => timedOut

(***************************************************************************)
(* CConnMgr is never left with old news: outside the product test the last *)
(* frame it was told of is the last good frame that arrived, at the latest *)
(* from the first frame that arrives DealSpace after the test was left     *)
(* (before that, the frame may repeat one the product callback took).      *)
(***************************************************************************)
HandlerIsCurrent ==
    ~factory /\ settled => seen = latest
=============================================================================
