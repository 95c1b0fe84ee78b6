---------------------------- MODULE RecvDispatch ----------------------------
(***************************************************************************)
(* The receiving half of the control-board link, from a complete frame on: *)
(* UartClient::onUartData checks it, drops it when it repeats the last one *)
(* (at most one repetition per second is let through) and hands it either  *)
(* to the product-test callback or to CHandlerManager, whose onTick raises *)
(* the receive timeout, and so to CConnMgr::onCommDeal.  How bytes become  *)
(* frames is FrameParser's business.                                       *)
(*                                                                         *)
(* An age is the time since a time stamp of the code, in units of the tick *)
(* period, capped where the code stops telling larger values apart.        *)
(***************************************************************************)
EXTENDS Integers

CONSTANTS
    DealSpace,      \* checkDealData's 1000 ms
    RecvTimeout,    \* RECV_TIMEOUT_TIME, 3000 ms
    WarnSpace,      \* onCommDeal's 30 s between two warnings
    IceLimit,       \* the 30 warnings after which E07 is raised
    MaxLag,         \* the longest the main loop leaves between two ticks
    Bodies          \* what else tells a frame from another, its length included

ASSUME RecvConstants ==
    /\ DealSpace \in Nat \ {0}
    /\ RecvTimeout \in Nat /\ RecvTimeout >= DealSpace
    /\ WarnSpace \in Nat
    /\ IceLimit \in Nat \ {0}
    /\ MaxLag \in Nat \ {0}

VARIABLES
    lastRecv,   \* UartClient::mLastRecv, the last frame dispatched
    dealAge,    \* now - UartClient::mLastDealDataTime
    factory,    \* CConnMgr::mIsFactory, and a product callback is set
    recvAge,    \* now - CHandlerManager::mLastRecvTime
    timedOut,   \* CHandlerManager::mRecvTimeout > 0
    warnAge,    \* now - CConnMgr::mLastWarnTime
    commErr,    \* CConnMgr::commErrorCount
    sinceTick,  \* time since the last onTick
    out         \* who this step dispatched a frame to

commander == <<recvAge, timedOut, warnAge, commErr>>
vars == <<lastRecv, dealAge, factory, recvAge, timedOut, warnAge, commErr,
          sinceTick, out>>

(* keys: one of the bytes 6 to 9 is not zero.  warn: D12 or D13 is not     *)
(* zero.  ice: bit 0x40 of D12.                                            *)
Frame == { f \in [body : Bodies, keys : BOOLEAN, warn : BOOLEAN, ice : BOOLEAN] :
             f.ice => f.warn }
NoFrame == [body |-> "none"]

Older(age, cap) == IF age < cap THEN age + 1 ELSE cap

TypeOK ==
    /\ lastRecv \in Frame \cup {NoFrame}
    /\ dealAge \in 0..DealSpace
    /\ factory \in BOOLEAN
    /\ recvAge \in 0..RecvTimeout
    /\ timedOut \in BOOLEAN
    /\ warnAge \in 0..WarnSpace
    /\ commErr \in 0..(IceLimit - 1)
    /\ sinceTick \in 0..MaxLag
    /\ out \in {"none", "product", "handler"}

Init ==
    /\ lastRecv = NoFrame
    /\ dealAge = DealSpace
    /\ factory = FALSE
    /\ recvAge = 0
    /\ timedOut = FALSE
    /\ warnAge = 0
    /\ commErr = 0
    /\ sinceTick = 0
    /\ out = "none"

----------------------------------------------------------------------------
\* A slip: a frame is taken for a repetition when a part of it repeats.
RepeatsInPart(f) == f.body = lastRecv.body /\ ~f.keys

(* SDHWPacketBuffer::compare: a frame with key data never is a repetition. *)
Repeats(f) == f = lastRecv /\ ~f.keys

\* A slip: the count of ice errors is not reset when E07 is raised.
OnCommDealUnreset(f) ==
    IF f.warn /\ warnAge >= WarnSpace
    THEN /\ warnAge' = 0
         /\ commErr' = IF f.ice THEN commErr + 1 ELSE 0
    ELSE UNCHANGED <<warnAge, commErr>>

(* CConnMgr::onCommDeal, its warning part.  A frame without a warning, or  *)
(* one that comes too soon, leaves the count of ice errors alone.          *)
OnCommDeal(f) ==
    IF f.warn /\ warnAge >= WarnSpace
    THEN /\ warnAge' = 0
         /\ commErr' = IF f.ice /\ commErr + 1 < IceLimit THEN commErr + 1 ELSE 0
    ELSE UNCHANGED <<warnAge, commErr>>

\* A slip: the timeout is withdrawn, but mLastRecvTime is not touched.
OnCommandUntimed(f) ==
    /\ timedOut' = FALSE
    /\ recvAge' = recvAge
    /\ OnCommDeal(f)

(* CHandlerManager::onCommand; CConnMgr is the handler of BT_MCU. *)
OnCommand(f) ==
    /\ timedOut' = FALSE
    /\ recvAge' = 0
    /\ OnCommDeal(f)

Dispatch(f) ==
    /\ lastRecv' = f
    /\ IF factory
       THEN out' = "product" /\ UNCHANGED commander
       ELSE out' = "handler" /\ OnCommand(f)

(* UartClient::onUartData for one complete frame whose check code is good. *)
\* A frame with news: checkDealData is not even asked.
ReceiveNew(f) ==
    /\ ~Repeats(f)
    /\ Dispatch(f)
    /\ UNCHANGED <<dealAge, factory, sinceTick>>

\* A repetition that checkDealData lets through, one per DealSpace.
ReceiveRepeated(f) ==
    /\ Repeats(f)
    /\ dealAge >= DealSpace
    /\ dealAge' = 0
    /\ Dispatch(f)
    /\ UNCHANGED <<factory, sinceTick>>

\* A repetition that is dropped.
Suppress(f) ==
    /\ Repeats(f)
    /\ dealAge < DealSpace
    /\ out' = "none"
    /\ UNCHANGED <<lastRecv, dealAge, factory, commander, sinceTick>>

Receive(f) == ReceiveNew(f) \/ ReceiveRepeated(f) \/ Suppress(f)

(* CConnMgr::setProductTest: with a callback, or without one. *)
SetProductTest(on) ==
    /\ factory' = on
    /\ out' = "none"
    /\ UNCHANGED <<lastRecv, dealAge, commander, sinceTick>>

(* The clock, and CHandlerManager::onTick, which the main loop calls at    *)
(* most MaxLag after it did so last.                                       *)
Pass ==
    /\ sinceTick < MaxLag
    /\ sinceTick' = sinceTick + 1
    /\ dealAge' = Older(dealAge, DealSpace)
    /\ recvAge' = Older(recvAge, RecvTimeout)
    /\ warnAge' = Older(warnAge, WarnSpace)
    /\ out' = "none"
    /\ UNCHANGED <<lastRecv, factory, timedOut, commErr>>

\* A slip: "once" is taken to mean one tick.
OnTickOnce ==
    /\ timedOut' = (~timedOut /\ recvAge >= RecvTimeout)
    /\ sinceTick' = 0
    /\ out' = "none"
    /\ UNCHANGED <<lastRecv, dealAge, factory, recvAge, warnAge, commErr>>

OnTick ==
    /\ timedOut' = (timedOut \/ recvAge >= RecvTimeout)
    /\ sinceTick' = 0
    /\ out' = "none"
    /\ UNCHANGED <<lastRecv, dealAge, factory, recvAge, warnAge, commErr>>

Next ==
    \/ \E f \in Frame : Receive(f)
    \/ \E on \in BOOLEAN : SetProductTest(on)
    \/ Pass
    \/ OnTick

Spec == Init /\ [][Next]_vars
=============================================================================
