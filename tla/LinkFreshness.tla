--------------------------- MODULE LinkFreshness ---------------------------
(***************************************************************************)
(* The sender watched from the control board: which settings the board has *)
(* last been given, how long the user has left them alone, and whether a   *)
(* beep is still owed.  None of this is program state: the variables below *)
(* only record what the steps of SendQueue do.                             *)
(***************************************************************************)
EXTENDS SendQueue

VARIABLES
    mcu,        \* the settings in the last frame the board received
    quiet,      \* ticks since a setter was called, the link changed or a frame was lost
    owed        \* a beep was asked for over a live link and not yet transmitted

watched == <<mcu, quiet, owed>>
allVars == <<vars, watched>>

Quieted(frame) == [frame EXCEPT !["D12"] = 0]
Current == Quieted(snd)

\* Long enough for a full queue to drain and for the periodic resend.
StaleBound == QueueCap * (SendSpace + MaxLag - 1) + Resend

WInit ==
    /\ Init
    /\ mcu = NoFrame
    /\ quiet = 0
    /\ owed = FALSE

WSetter ==
    /\ Setter
    /\ quiet' = 0
    /\ owed' = (owed \/ (conn /\ snd'["D12"] = 1))
    /\ mcu' = mcu

WLinkChange ==
    /\ LinkUp \/ LinkDown
    /\ quiet' = 0
    /\ owed' = FALSE
    /\ mcu' = mcu

WNewPacket == NewPacket /\ UNCHANGED watched

StillOwed == owed /\ (tx' = NoFrame \/ tx'["D12"] = 0)

\* A tick that transmits nothing, or whose frame reaches the board.
Received(lag) ==
    /\ HandleEvents(lag)
    /\ quiet' = Least(quiet + lag, StaleBound)
    /\ owed' = StillOwed
    /\ mcu' = IF tx' = NoFrame THEN mcu ELSE Quieted(tx')

\* A tick whose frame does not get through.  UART0_Send drops what the driver
\* holds when a write fails, and its result, like that of send(), is ignored.
Lost(lag) ==
    /\ HandleEvents(lag)
    /\ tx' # NoFrame
    /\ quiet' = 0
    /\ owed' = StillOwed
    /\ mcu' = mcu

WTick == \E lag \in 1..MaxLag : Received(lag) \/ Lost(lag)

WNext == WSetter \/ WLinkChange \/ WNewPacket \/ WTick

WSpec == WInit /\ [][WNext]_allVars

\* The looper polls handleEvents for ever, and the wire does not lose every
\* frame: one that is sent again and again gets through.
Delivery == \E lag \in 1..MaxLag : Received(lag) /\ tx' # NoFrame
FairWSpec == WSpec /\ WF_allVars(WTick) /\ SF_allVars(Delivery)

----------------------------------------------------------------------------
(***************************************************************************)
(* Bounded staleness: on a link that is up, the board holds the current    *)
(* settings once the user has left them alone, and the wire has lost       *)
(* nothing, for StaleBound ticks, whatever was lost before.  send() may    *)
(* drop the newest frame because an older equal one waits in front of a    *)
(* different one (on, off, on leaves the board with "off"): it is the      *)
(* periodic resend that repairs it.                                        *)
(***************************************************************************)
StaleBounded ==
    conn /\ quiet >= StaleBound => mcu = Current

(***************************************************************************)
(* The beep bit is sent once and then cleared by send2MCU whatever send()  *)
(* did with the frame.  While the link stays up, a beep that was asked for *)
(* is nevertheless either transmitted or still in mSndData or in a waiting *)
(* frame: no equal frame without the bit may swallow it.                   *)
(***************************************************************************)
BeepNotLost ==
    owed => \/ snd["D12"] = 1
            \/ \E i \in DOMAIN queue : queue[i].frame["D12"] = 1

(***************************************************************************)
(* Convergence: whatever was lost on the wire, dropped by send() or thrown *)
(* away while the link was down, a board that stays connected ends up with *)
(* the user's last settings for good.                                      *)
(***************************************************************************)
Converges ==
    <>[]conn /\ <>[][~WSetter]_allVars => <>[](mcu = Current)
=============================================================================
