----------------------------- MODULE SendQueue -----------------------------
(***************************************************************************)
(* The sending half of the control-board link: CConnMgr keeps the settings *)
(* the user asked for (mSndData), and on every tick of the main loop hands *)
(* the link layer a frame with a copy of them, either because a setter was *)
(* called or because a second has passed.  UartClient queues the frame     *)
(* unless an equal one is still waiting, and puts at most one frame on the *)
(* wire per tick, SEND_PACKET_TIME_SPACE apart.                            *)
(*                                                                         *)
(* Time is counted in ticks of TICK_TIME (50 ms); an age is the number of  *)
(* ticks since a time stamp of the code, capped where the code stops       *)
(* telling larger values apart.                                            *)
(***************************************************************************)
EXTENDS Integers, Sequences

CONSTANTS
    ConnTcp,        \* CONN_TCP: TRUE when the link is a socket, FALSE on a serial port
    SendSpace,      \* SEND_PACKET_TIME_SPACE, in ticks
    Resend,         \* the 1000 ms after which the settings are sent again, in ticks
    MaxLag,         \* the longest a busy main loop may take between two ticks
    QueueCap,       \* bound: no setter is called while this many frames wait
    WaterActions,   \* WaterAction values (0 is WA_NULL)
    Temperatures, Yields,
    CoolStates,     \* CoolStatus values (0 is CS_NULL)
    IceFlags,       \* the flags setIceAction is called with
    FilterFlags     \* the flags setHPCCReset and setROReset are called with

Byte == 0..255

ASSUME LinkConstants ==
    /\ ConnTcp \in BOOLEAN
    /\ SendSpace \in Nat \ {0}
    /\ Resend \in Nat \ {0}
    /\ MaxLag \in Nat \ {0}
    /\ QueueCap \in Nat \ {0}
    /\ WaterActions \subseteq Byte /\ 0 \in WaterActions
    /\ Temperatures \subseteq Int
    /\ Yields \subseteq Int
    /\ CoolStates \subseteq Byte /\ 0 \in CoolStates
    /\ IceFlags \subseteq BOOLEAN
    /\ FilterFlags \subseteq BOOLEAN

VARIABLES
    snd,        \* CConnMgr::mSndData, the bytes a frame carries
    dirty,      \* CConnMgr::mSetData > 0
    periodAge,  \* now - CConnMgr::mLastSendTime
    queue,      \* UartClient::mSendQueue: buffers and the frames in them
    sendAge,    \* now - UartClient::mLastSendTime
    pool,       \* SDHWPacketBuffer::mBuffs, the recycled buffers
    nalloc,     \* the number of buffers ever allocated for sending
    conn,       \* Client::isConn()
    tx          \* the frame this step puts on the wire, NoFrame for none

settings == <<snd, dirty>>
buffers == <<queue, pool, nalloc>>
ages == <<periodAge, sendAge>>
vars == <<snd, dirty, periodAge, queue, sendAge, pool, nalloc, conn, tx>>

----------------------------------------------------------------------------
(* Frames.  D13 and D14 always carry 100 and D11 is never written, so a    *)
(* frame is told from another by these bytes.                              *)

Fields == {"D3", "D4", "D5", "D6", "D7", "D8", "D9", "D10", "D12"}
Frame == [Fields -> Byte]
NoFrame == [f \in {} |-> 0]
Entry == [buf : Nat \ {0}, frame : Frame]

Flag(b) == IF b THEN 1 ELSE 0
Least(a, b) == IF a <= b THEN a ELSE b

\* A slip: the beep bit is left out of it.
CompareSettings(src, dst) ==
    /\ \A f \in Fields \ {"D12"} : src[f] = dst[f]
    /\ \A f \in {"D6", "D7", "D8", "D9"} : src[f] = 0

\* SDHWPacketBuffer::compare: equal frames count as the same packet only
\* when the bytes buf[6] to buf[9] are all zero.
Compare(src, dst) ==
    /\ src = dst
    /\ \A f \in {"D6", "D7", "D8", "D9"} : src[f] = 0

----------------------------------------------------------------------------
TypeOK ==
    /\ snd \in Frame
    /\ dirty \in BOOLEAN
    /\ periodAge \in 0..Resend
    /\ queue \in Seq(Entry)
    /\ sendAge \in 0..SendSpace
    /\ pool \in Seq(Nat \ {0})
    /\ nalloc \in Nat
    /\ conn \in BOOLEAN
    /\ tx \in Frame \cup {NoFrame}

Init ==
    /\ snd = [f \in Fields |-> 0]
    /\ dirty = FALSE
    /\ periodAge = Resend
    /\ queue = <<>>
    /\ sendAge = SendSpace
    /\ pool = <<>>
    /\ nalloc = 0
    /\ conn \in (IF ConnTcp THEN {FALSE} ELSE BOOLEAN)
    /\ tx = NoFrame

----------------------------------------------------------------------------
(* CConnMgr's setters: called by the user interface, on the main thread.   *)

Put(change) ==
    /\ Len(queue) < QueueCap
    /\ snd' = [f \in Fields |-> IF f \in DOMAIN change THEN change[f] ELSE snd[f]]
    /\ dirty' = TRUE
    /\ tx' = NoFrame
    /\ UNCHANGED <<buffers, ages, conn>>

SetWaterAction(t) == Put([D3 |-> t])
\* A slip: the value is stored without being cut to a byte.
SetWaterTemWide(value) == Put([D4 |-> value])
SetWaterTem(value) == Put([D4 |-> value % 256])
SetWaterYield(value) == Put([D5 |-> (value \div 256) % 256, D6 |-> value % 256])
SetCooling(c) == Put([D7 |-> c])
SetIceAction(flag) == Put([D8 |-> Flag(flag)])
SetHPCCReset(flag) == Put([D9 |-> Flag(flag)])
SetROReset(flag) == Put([D10 |-> Flag(flag)])
SetResetStatus(flag) ==
    Put(IF flag THEN [D3 |-> 0, D7 |-> 0, D8 |-> 0] ELSE NoFrame)
SetBeep(flag) == Put(IF flag THEN [D12 |-> 1] ELSE NoFrame)
\* closeVolumn, setStoveLight and setSleep only count the call.
Touch == Put(NoFrame)

----------------------------------------------------------------------------
(* SDHWPacketBuffer's pool.                                                *)

Obtained(p, n) == IF p = <<>> THEN n + 1 ELSE Head(p)
\* A slip: obtain() returns a buffer and leaves it in the pool.
PoolKept(p) == p
PoolAfter(p) == IF p = <<>> THEN p ELSE Tail(p)
AllocAfter(p, n) == IF p = <<>> THEN n + 1 ELSE n
Recycle(p, b) == Append(p, b)

\* A slip: send() compares with the last waiting frame only.
AcceptedAfterLast(q, frame) ==
    conn /\ (q = <<>> \/ ~Compare(frame, q[Len(q)].frame))

(* UartClient::send: refused while the link is down, dropped when an equal *)
(* packet is still waiting; the buffer goes back to the pool either way.   *)
Accepted(q, frame) ==
    conn /\ \A i \in DOMAIN q : ~Compare(frame, q[i].frame)

----------------------------------------------------------------------------
(* UartClient::onTick, its transmission: the state of queue and pool after *)
(* it.  The frame leaves the queue even if the link is down.               *)

MayTransmit(age) == age >= SendSpace /\ queue # <<>>
QueueSent(age) == IF MayTransmit(age) THEN Tail(queue) ELSE queue
PoolSent(age) == IF MayTransmit(age) THEN Recycle(pool, Head(queue).buf) ELSE pool

\* UartClient::sendTrans: a socket that is down takes nothing, a serial port
\* is written to whatever Client thinks of it.
OnWire(frame) == IF conn \/ ~ConnTcp THEN frame ELSE NoFrame

Transmit(age) ==
    /\ sendAge' = IF MayTransmit(age) THEN 0 ELSE age
    /\ tx' = IF MayTransmit(age) THEN OnWire(Head(queue).frame) ELSE NoFrame

(* CConnMgr::send2MCU on the queue q and the pool p that onTick left. *)
Send2MCU(q, p) ==
    LET b == Obtained(p, nalloc)
    IN  /\ nalloc' = AllocAfter(p, nalloc)
        /\ IF Accepted(q, snd)
           THEN /\ queue' = Append(q, [buf |-> b, frame |-> snd])
                /\ pool' = PoolAfter(p)
           ELSE /\ queue' = q
                /\ pool' = Recycle(PoolAfter(p), b)
        /\ snd' = [snd EXCEPT !["D12"] = 0]
        /\ dirty' = FALSE
        /\ periodAge' = 0

\* A slip: the settings are sent when they are set, and never again.
DueOnce(page) == dirty
Due(page) == dirty \/ page >= Resend

(* CConnMgr::handleEvents, lag ticks after the last time it ran. *)
HandleEvents(lag) ==
    LET sage == Least(sendAge + lag, SendSpace)
        page == Least(periodAge + lag, Resend)
    IN  /\ Transmit(sage)
        /\ IF Due(page)
           THEN Send2MCU(QueueSent(sage), PoolSent(sage))
           ELSE /\ queue' = QueueSent(sage)
                /\ pool' = PoolSent(sage)
                /\ periodAge' = page
                /\ UNCHANGED <<settings, nalloc>>
        /\ UNCHANGED conn

----------------------------------------------------------------------------
(* What the receiving half and the connection do to the sender. *)

\* A packet with news was dispatched: mLastSendTime = 0 lets the next frame go.
NewPacket ==
    /\ conn
    /\ sendAge' = SendSpace
    /\ tx' = NoFrame
    /\ UNCHANGED <<settings, buffers, periodAge, conn>>

\* Only a socket is ever connected again; nothing empties the queue.
LinkUp ==
    /\ ConnTcp /\ ~conn
    /\ conn' = TRUE
    /\ tx' = NoFrame
    /\ UNCHANGED <<settings, buffers, ages>>

LinkDown ==
    /\ conn
    /\ conn' = FALSE
    /\ tx' = NoFrame
    /\ UNCHANGED <<settings, buffers, ages>>

----------------------------------------------------------------------------
Setter ==
    \/ \E t \in WaterActions : SetWaterAction(t)
    \/ \E v \in Temperatures : SetWaterTem(v)
    \/ \E v \in Yields : SetWaterYield(v)
    \/ \E c \in CoolStates : SetCooling(c)
    \/ \E b \in IceFlags : SetIceAction(b)
    \/ \E b \in FilterFlags : SetHPCCReset(b) \/ SetROReset(b)
    \/ \E b \in BOOLEAN : SetResetStatus(b) \/ SetBeep(b)
    \/ Touch

Link == NewPacket \/ LinkUp \/ LinkDown
Tick == \E lag \in 1..MaxLag : HandleEvents(lag)

Next == Setter \/ Link \/ Tick

Spec == Init /\ [][Next]_vars

----------------------------------------------------------------------------
(***************************************************************************)
(* Every buffer the sender ever allocated is in one place: waiting in the  *)
(* queue with a frame in it, or in the pool.  A buffer recycled twice, or  *)
(* recycled while it is queued, would let the next send2MCU write into a   *)
(* frame that still waits; one never recycled would be lost.               *)
(***************************************************************************)
Owned(q, p, n) ==
    /\ \A i \in DOMAIN q : q[i].buf \in 1..n
    /\ \A i \in DOMAIN p : p[i] \in 1..n
    /\ \A i, j \in DOMAIN q : q[i].buf = q[j].buf => i = j
    /\ \A i, j \in DOMAIN p : p[i] = p[j] => i = j
    /\ \A i \in DOMAIN q, j \in DOMAIN p : q[i].buf # p[j]
    /\ Len(q) + Len(p) = n

BufferOwnership == Owned(queue, pool, nalloc)

(***************************************************************************)
(* No two waiting frames are the same packet, however setters, ticks and   *)
(* reconnections interleave: this is what bounds the queue while the       *)
(* frames are of the kind compare() recognises.                            *)
(***************************************************************************)
Distinct(q) ==
    \A i, j \in DOMAIN q : i # j => ~Compare(q[i].frame, q[j].frame)

NoDuplicateWaiting == Distinct(queue)
=============================================================================
