----------------------------- MODULE SocketLink -----------------------------
(***************************************************************************)
(* The socket under the control-board link, as the development builds use  *)
(* it (CONN_TCP): UartClient is a SocketClient, which is a Client.  Every  *)
(* tick of the main loop either checks an established connection for a     *)
(* timeout, checks an attempt that is under way, or makes a new attempt;   *)
(* a heart-beat keeps the connection's own sending side from looking idle. *)
(* Between ticks the looper calls handleEvent when the socket is readable. *)
(*                                                                         *)
(* Time is counted in ticks, as in SendQueue.  rcvAge, sndAge and heartAge *)
(* are ages on the clock that only goes forward (uptimeMillis); connAge is *)
(* an age on the wall clock (currentTimeSeconds), which can be set.        *)
(***************************************************************************)
EXTENDS Integers

CONSTANTS
    Sockets,        \* the descriptors the system can hand out
    TimeOut,        \* Client::TIME_OUT, in ticks
    HeartTime,      \* Client::HEART_TIME, in ticks
    ConnSpace,      \* CONN_SPACE, in ticks
    ConnTimeout,    \* CONN_TIMEOUT, in ticks
    MaxLag,         \* the longest a busy main loop may take between two ticks
    MaxBack,        \* bound: how far back the wall clock is set
    MaxSets         \* bound: how often it is set

ASSUME SocketConstants ==
    /\ Sockets \subseteq Nat \ {0}
    /\ TimeOut \in Nat /\ HeartTime \in Nat
    /\ ConnSpace \in Nat /\ ConnTimeout \in Nat
    /\ MaxLag \in Nat \ {0}
    /\ HeartTime + MaxLag <= TimeOut
    /\ MaxBack \in Nat /\ MaxSets \in Nat

VARIABLES
    status,     \* Client::mStatus
    fd,         \* Client::mFd
    sockId,     \* SocketClient::mSockId
    open,       \* the process's open sockets
    watched,    \* the descriptors registered with the looper
    rcvAge,     \* now - Client::mLastRcvTime
    sndAge,     \* now - Client::mLastSndTime
    heartAge,   \* now - UartClient::mLastSndHeart
    connAge,    \* now - SocketClient::mLastConnTime, on the wall clock
    net,        \* the connection as the system sees it
    inbox,      \* bytes have arrived and are not yet read
    polled,     \* the looper has looked at its descriptors since the last tick
    silence,    \* ticks since the far end was last heard of by this machine
    lapsed,     \* the far end was once silent for nearly TimeOut
    prompt,     \* the server accepts at once and closes nothing
    sets        \* the times the wall clock was set

client == <<status, fd, sockId, open, watched>>
peer == <<net, inbox, silence, lapsed>>
ages == <<rcvAge, sndAge, heartAge, connAge>>
vars == <<client, peer, ages, polled, prompt, sets>>

None == -1
Least(a, b) == IF a <= b THEN a ELSE b
ConnCap == IF ConnSpace > ConnTimeout THEN ConnSpace ELSE ConnTimeout + 1
NearlyOut == TimeOut - MaxLag

\* An age after lag more ticks, capped where the code tells no more apart.
Aged(age, lag) == Least(age + lag, TimeOut + 1)
HeartAged(lag) == Least(heartAge + lag, HeartTime)
ConnAged(lag) == Least(connAge + lag, ConnCap)

TypeOK ==
    /\ status \in {"disconnect", "connecting", "connected"}
    /\ fd \in open \cup {None}
    /\ sockId \in open \cup {None}
    /\ open \subseteq Sockets
    /\ watched \subseteq open
    /\ rcvAge \in 0..(TimeOut + 1)
    /\ sndAge \in 0..(TimeOut + 1)
    /\ heartAge \in 0..HeartTime
    /\ connAge \in (-MaxBack)..ConnCap
    /\ net \in {"none", "dialing", "refused", "up", "shut"}
    /\ inbox \in BOOLEAN /\ polled \in BOOLEAN
    /\ silence \in 0..(TimeOut + MaxLag + 1)
    /\ lapsed \in BOOLEAN /\ prompt \in BOOLEAN
    /\ sets \in 0..MaxSets

(* initData leaves mLastRcvTime and mLastSndTime as the memory was.  The   *)
(* wall clock may be anything: mLastConnTime is 0.                         *)
Init ==
    /\ status = "disconnect"
    /\ fd = None /\ sockId = None
    /\ open = {} /\ watched = {}
    /\ rcvAge \in {0, TimeOut + 1} /\ sndAge \in {0, TimeOut + 1}
    /\ heartAge = 0
    /\ connAge \in {0, ConnCap}
    /\ net = "none" /\ inbox = FALSE
    /\ polled = FALSE
    /\ silence = 0 /\ lapsed = FALSE
    /\ prompt \in BOOLEAN
    /\ sets = 0

----------------------------------------------------------------------------
(* Client's and SocketClient's helpers. *)

\* A slip: both directions must be idle.
IsTimeoutBoth(rcv, snd, space) == rcv > space /\ snd > space
IsTimeout(rcv, snd, space) == rcv > space \/ snd > space

\* Client::setFd; getRecvSpace() is 0, so the looper watches the socket.
SetFd(s) ==
    /\ fd' = s
    /\ status' = "connected"
    /\ watched' = watched \cup {s}
    /\ rcvAge' = 0

\* A slip: mFd keeps the number of the socket it closed.
CloseFdKept == open' = open \ {fd} /\ watched' = watched \ {fd} /\ UNCHANGED fd

CloseFd ==
    /\ watched' = watched \ {fd}
    /\ open' = open \ {fd}
    /\ fd' = None

\* What is left of a connection whose socket is closed.
Forgotten == net' = "none" /\ inbox' = FALSE

(* mStatus = ST_DISCONNECT and SocketClient::onStatusChange. *)
Disconnect ==
    /\ status' = "disconnect"
    /\ sockId' = None
    /\ CloseFd
    /\ Forgotten

----------------------------------------------------------------------------
(* SocketClient::connectServer: the attempt fails at once, is under way,   *)
(* or has already succeeded.                                               *)

ConnectFails(lag) ==
    /\ ~prompt
    /\ rcvAge' = Aged(rcvAge, lag)
    /\ UNCHANGED <<client, net, inbox>>

ConnectPending(lag) ==
    /\ \E s \in Sockets \ open : sockId' = s /\ open' = open \cup {s}
    /\ status' = "connecting"
    /\ net' = "dialing"
    /\ rcvAge' = Aged(rcvAge, lag)
    /\ UNCHANGED <<fd, watched, inbox>>

ConnectDone ==
    /\ \E s \in Sockets \ open : SetFd(s) /\ open' = open \cup {s}
    /\ net' = "up"
    /\ UNCHANGED <<sockId, inbox>>

ConnectServer(lag) ==
    /\ connAge' = 0
    /\ ConnectFails(lag) \/ ConnectPending(lag) \/ ConnectDone

\* A slip: an attempt that failed leaves its socket open.
GiveUpOpen ==
    /\ sockId' = None
    /\ status' = "disconnect"
    /\ Forgotten
    /\ UNCHANGED <<fd, open, watched>>

\* A slip: an attempt that failed leaves the client connecting.
GiveUpConnecting ==
    /\ open' = open \ {sockId}
    /\ sockId' = None
    /\ Forgotten
    /\ UNCHANGED <<status, fd, watched>>

GiveUp ==
    /\ open' = open \ {sockId}
    /\ sockId' = None
    /\ status' = "disconnect"
    /\ Forgotten
    /\ UNCHANGED <<fd, watched>>

(* SocketClient::onCheckConnecting: select waits 10 ms for the socket to   *)
(* become writable, and an attempt that is still under way then is given   *)
(* up like one that was refused or is too old.                             *)
OnCheckConnecting(lag) ==
    LET now == ConnAged(lag)
    IN  /\ connAge' = now
        /\ \/ /\ now > ConnTimeout \/ net \notin {"up", "shut"}
              /\ GiveUp
              /\ rcvAge' = Aged(rcvAge, lag)
           \/ /\ now <= ConnTimeout /\ net \in {"up", "shut"}
              /\ sockId > 0
              /\ SetFd(sockId)
              /\ UNCHANGED <<sockId, open, net, inbox>>

----------------------------------------------------------------------------
(* SocketClient::onTick. *)

Idle(lag) ==
    /\ rcvAge' = Aged(rcvAge, lag)
    /\ connAge' = ConnAged(lag)
    /\ UNCHANGED <<client, net, inbox>>

CheckTimeout(lag) ==
    IF IsTimeout(Aged(rcvAge, lag), Aged(sndAge, lag), TimeOut)
    THEN /\ Disconnect
         /\ rcvAge' = Aged(rcvAge, lag)
         /\ connAge' = ConnAged(lag)
    ELSE Idle(lag)

SocketTick(lag) ==
    \/ status = "connected" /\ CheckTimeout(lag)
    \/ status = "connecting" /\ OnCheckConnecting(lag)
    \/ status = "disconnect" /\ ConnAged(lag) >= ConnSpace /\ ConnectServer(lag)
    \/ status = "disconnect" /\ ConnAged(lag) < ConnSpace /\ Idle(lag)

JustUp == status # "connected" /\ status' = "connected"

\* A slip: the heart-beat asks about the received packets only.
BeatOnRecv(heart, rcv, snd) == heart >= HeartTime /\ rcv > HeartTime
BeatDue(heart, rcv, snd) == heart >= HeartTime /\ IsTimeout(rcv, snd, HeartTime)

(* The rest of UartClient::onTick: the heart-beat, and whether a queued    *)
(* frame is sent.  Only sendData over a live link renews mLastSndTime.     *)
Send(lag, frame) ==
    LET snd == IF JustUp THEN 0 ELSE Aged(sndAge, lag)
        beat == BeatDue(HeartAged(lag), rcvAge', snd)
    IN  /\ heartAge' = IF beat THEN 0 ELSE HeartAged(lag)
        /\ sndAge' = IF status' = "connected" /\ (beat \/ frame) THEN 0 ELSE snd

\* The far end, during a tick: heard of again when connect() itself succeeds.
Silent(lag) ==
    LET done == status = "disconnect" /\ status' = "connected"
        s == Least(silence + lag, TimeOut + MaxLag + 1)
    IN  /\ silence' = IF done THEN 0 ELSE s
        /\ lapsed' = (~done /\ (lapsed \/ s > NearlyOut))

OnTick(lag, frame) ==
    /\ polled
    /\ polled' = FALSE
    /\ prompt => net # "dialing"
    /\ SocketTick(lag)
    /\ Send(lag, frame)
    /\ Silent(lag)
    /\ UNCHANGED <<prompt, sets>>

Tick == \E lag \in 1..MaxLag, frame \in BOOLEAN : OnTick(lag, frame)

----------------------------------------------------------------------------
(* Client::handleEvent, called by the looper when a watched socket is      *)
(* readable: bytes wait, or the far end has closed.  In the second case    *)
(* recv returns 0 and leaves errno as it was; only if that happens to be   *)
(* ENOENT does the client notice.                                          *)

Readable == fd \in watched /\ (inbox \/ net = "shut")

ReadBytes ==
    /\ inbox
    /\ inbox' = FALSE
    /\ rcvAge' = 0
    /\ UNCHANGED <<client, net>>

ReadNothing ==
    /\ ~inbox
    /\ Disconnect \/ UNCHANGED <<client, net, inbox>>
    /\ UNCHANGED rcvAge

HandleEvent == ReadBytes \/ ReadNothing

\* One pass of the looper over its descriptors.
Poll ==
    /\ polled' = TRUE
    /\ IF Readable THEN HandleEvent ELSE UNCHANGED <<client, net, inbox, rcvAge>>
    /\ UNCHANGED <<silence, lapsed, sndAge, heartAge, connAge, prompt, sets>>

----------------------------------------------------------------------------
(* The far end, the network and the wall clock. *)

Accepted ==
    /\ net = "dialing"
    /\ net' = "up"
    /\ silence' = 0
    /\ lapsed' = FALSE
    /\ UNCHANGED <<client, inbox, ages, polled, prompt, sets>>

\* Also any system call on the way that fails.
Refused ==
    /\ net = "dialing" /\ ~prompt
    /\ net' = "refused"
    /\ UNCHANGED <<client, inbox, silence, lapsed, ages, polled, prompt, sets>>

PeerSends ==
    /\ net = "up"
    /\ inbox' = TRUE
    /\ silence' = 0
    /\ UNCHANGED <<client, net, lapsed, ages, polled, prompt, sets>>

PeerCloses ==
    /\ net = "up" /\ ~prompt
    /\ net' = "shut"
    /\ UNCHANGED <<client, inbox, silence, lapsed, ages, polled, prompt, sets>>

ServerChanges ==
    /\ prompt' = ~prompt
    /\ UNCHANGED <<client, peer, ages, polled, sets>>

\* timeSet, or another program: mLastConnTime is now any time ago, or ahead.
SetClock ==
    /\ sets < MaxSets
    /\ sets' = sets + 1
    /\ connAge' \in (-MaxBack)..ConnCap
    /\ UNCHANGED <<client, peer, rcvAge, sndAge, heartAge, polled, prompt>>

Environment ==
    Accepted \/ Refused \/ PeerSends \/ PeerCloses \/ ServerChanges \/ SetClock

Next == Tick \/ Poll \/ Environment

Spec == Init /\ [][Next]_vars

\* The looper goes round for ever; a server that answers at all answers.
FairSpec == Spec /\ WF_vars(Tick) /\ WF_vars(Poll) /\ WF_vars(Accepted)

----------------------------------------------------------------------------
(***************************************************************************)
(* Every socket has one owner: the connection being made or the connection *)
(* that is up.  No path of connectServer, onCheckConnecting, handleEvent   *)
(* and onTick leaves a socket open behind it, closes one that is in use,   *)
(* or leaves the looper watching a descriptor that is closed.              *)
(***************************************************************************)
SocketOwnership ==
    CASE status = "disconnect" -> open = {} /\ watched = {}
      [] status = "connecting" -> open = {sockId} /\ watched = {} /\ fd = None
      [] status = "connected" -> open = {fd} /\ watched = {fd}

(***************************************************************************)
(* A far end that died without a word, or whose close went unnoticed by    *)
(* handleEvent, is noticed by onTick: isConn() is not true for longer than *)
(* TimeOut and a tick after the last sign of life, although the heart-beat *)
(* and the settings keep being sent.                                       *)
(***************************************************************************)
DeadPeerNoticed == status = "connected" => silence <= TimeOut + MaxLag

(***************************************************************************)
(* A far end that sends something at least every TimeOut less one tick     *)
(* never loses the connection, however little the panel itself has to say  *)
(* (isTimeout looks at both directions): it is the heart-beat that renews  *)
(* mLastSndTime in time, and the looper that reads before the next tick.   *)
(***************************************************************************)
DropsOnlyTheDead ==
    [][ status = "connected" /\ status' = "disconnect" => net = "shut" \/ lapsed ]_vars

(***************************************************************************)
(* Once the server accepts promptly, the client comes back again and again *)
(* from whatever state it was left in: a half-open connection, a refused   *)
(* attempt, a wall clock that was set back after the last attempt.         *)
(***************************************************************************)
Reconnects == <>[]prompt => []<>(status = "connected")

(***************************************************************************)
(* CONN_TIMEOUT and the message "async connect timeout" say how long an    *)
(* attempt is given: one that is neither refused nor older is still under  *)
(* way.  The code closes it at the first tick at which it is not yet       *)
(* established.                                                            *)
(***************************************************************************)
AttemptGetsItsTime ==
    [][ status = "connecting" /\ status' = "disconnect" =>
            net = "refused" \/ connAge' > ConnTimeout ]_vars
=============================================================================
