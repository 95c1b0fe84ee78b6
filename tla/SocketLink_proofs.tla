-------------------------- MODULE SocketLink_proofs --------------------------
(***************************************************************************)
(* What SocketLink's properties rest on, for every choice of the times.    *)
(***************************************************************************)
EXTENDS SocketLink, TLAPS

USE DEF None, Least

\* What the network can have done by the time the client is in a state.
NetInv ==
    /\ status = "disconnect" <=> net = "none"
    /\ status = "connected" => net \in {"up", "shut"}
    /\ status = "disconnect" => inbox = FALSE
    /\ status = "connecting" /\ net \in {"up", "shut"} => silence = 0

\* The panel's own sending side never looks idle: the heart-beat is in time.
BeatInv == status = "connected" => sndAge <= HeartTime /\ sndAge <= heartAge

\* What waits unread arrived since the last pass of the looper, or the one before.
FreshInv ==
    status = "connected" /\ inbox => silence <= (IF polled THEN 0 ELSE MaxLag)

\* rcvAge against the true silence of the far end.
AgeInv ==
    /\ status = "connected" => rcvAge <= TimeOut /\ silence <= rcvAge + MaxLag
    /\ status = "connected" /\ ~inbox => rcvAge <= silence

LapseInv ==
    /\ silence > NearlyOut => lapsed
    /\ status = "connected" /\ polled /\ rcvAge > NearlyOut => lapsed

LInv ==
    /\ TypeOK /\ SocketOwnership
    /\ NetInv /\ BeatInv /\ FreshInv /\ AgeInv /\ LapseInv

LEMMA LInit == Init => LInv
<1> SUFFICES ASSUME Init PROVE LInv
    OBVIOUS
<1>1. ConnCap \in Nat
    BY SocketConstants DEF ConnCap
<1>2. TypeOK
    <2>1. /\ rcvAge \in 0..(TimeOut + 1) /\ sndAge \in 0..(TimeOut + 1)
          /\ connAge \in (-MaxBack)..ConnCap
          /\ heartAge \in 0..HeartTime
          /\ silence \in 0..(TimeOut + MaxLag + 1)
          /\ sets \in 0..MaxSets
        BY <1>1, SocketConstants DEF Init
    <2> QED
        BY <2>1 DEF Init, TypeOK
<1>3. SocketOwnership
    BY DEF Init, SocketOwnership
<1>4. NetInv /\ BeatInv /\ FreshInv /\ AgeInv /\ LapseInv
    BY SocketConstants DEF Init, NetInv, BeatInv, FreshInv, AgeInv, LapseInv, NearlyOut
<1> QED
    BY <1>2, <1>3, <1>4 DEF LInv

\* What the parts of a tick leave: the ages stay in their ranges.
LEMMA AgesInRange ==
    ASSUME TypeOK, NEW lag \in 1..MaxLag
    PROVE  /\ Aged(rcvAge, lag) \in 0..(TimeOut + 1)
           /\ Aged(sndAge, lag) \in 0..(TimeOut + 1)
           /\ HeartAged(lag) \in 0..HeartTime
           /\ ConnAged(lag) \in (-MaxBack)..ConnCap
           /\ ConnCap \in Nat
           /\ Least(silence + lag, TimeOut + MaxLag + 1) \in 0..(TimeOut + MaxLag + 1)
<1>1. ConnCap \in Nat
    BY SocketConstants DEF ConnCap
<1> QED
    BY <1>1, SocketConstants DEF TypeOK, Aged, HeartAged, ConnAged

\* The ways a tick can leave the client's sockets.
Stays(lag) ==
    /\ status # "connecting"
    /\ UNCHANGED <<client, net, inbox>>
    /\ rcvAge' = Aged(rcvAge, lag)
    /\ status = "connected" => Aged(rcvAge, lag) <= TimeOut

Drops(lag) ==
    /\ status = "connected"
    /\ IsTimeout(Aged(rcvAge, lag), Aged(sndAge, lag), TimeOut)
    /\ Disconnect
    /\ rcvAge' = Aged(rcvAge, lag)

Dials(lag) == status = "disconnect" /\ ConnectPending(lag)
Connects == status = "disconnect" /\ ConnectDone
GivesUp(lag) == status = "connecting" /\ GiveUp /\ rcvAge' = Aged(rcvAge, lag)

Establishes ==
    /\ status = "connecting" /\ net \in {"up", "shut"}
    /\ SetFd(sockId)
    /\ UNCHANGED <<sockId, open, net, inbox>>

LEMMA TickCases ==
    ASSUME LInv, NEW lag \in 1..MaxLag, SocketTick(lag)
    PROVE  /\ connAge' \in (-MaxBack)..ConnCap
           /\ \/ Stays(lag) \/ Drops(lag) \/ Dials(lag)
              \/ Connects \/ GivesUp(lag) \/ Establishes
<1> USE DEF LInv
<1>1. /\ ConnAged(lag) \in (-MaxBack)..ConnCap
      /\ ConnCap \in Nat
      /\ Aged(rcvAge, lag) \in 0..(TimeOut + 1)
    BY AgesInRange
<1>2. 0 \in (-MaxBack)..ConnCap
    BY <1>1, SocketConstants
<1>3. CASE status = "connected" /\ CheckTimeout(lag)
    BY <1>3, <1>1, SocketConstants
       DEF CheckTimeout, Idle, Stays, Drops, IsTimeout
<1>4. CASE status = "connecting" /\ OnCheckConnecting(lag)
    BY <1>4, <1>1 DEF OnCheckConnecting, GivesUp, Establishes
<1>5. CASE status = "disconnect" /\ ConnectServer(lag)
    BY <1>5, <1>2 DEF ConnectServer, ConnectFails, Stays, Dials, Connects
<1>6. CASE status = "disconnect" /\ Idle(lag)
    BY <1>6, <1>1 DEF Idle, Stays
<1> QED
    BY <1>3, <1>4, <1>5, <1>6 DEF SocketTick

----------------------------------------------------------------------------
(* A tick.  What the rest of it does to the sending side and to the history *)
(* is the same in every case.                                              *)

LEMMA TickSends ==
    ASSUME LInv, NEW lag \in 1..MaxLag, NEW frame \in BOOLEAN,
           Send(lag, frame), rcvAge' \in 0..(TimeOut + 1),
           status' \in {"disconnect", "connecting", "connected"}
    PROVE  /\ heartAge' \in 0..HeartTime
           /\ sndAge' \in 0..(TimeOut + 1)
           /\ BeatInv'
<1> DEFINE snd == IF JustUp THEN 0 ELSE Aged(sndAge, lag)
           heart == HeartAged(lag)
           beat == BeatDue(heart, rcvAge', snd)
<1>1. /\ Aged(sndAge, lag) \in 0..(TimeOut + 1)
      /\ heart \in 0..HeartTime
    BY AgesInRange DEF LInv
<1>2. snd \in 0..(TimeOut + 1)
    BY <1>1, SocketConstants
<1>3. /\ heartAge' = IF beat THEN 0 ELSE heart
      /\ sndAge' = IF status' = "connected" /\ (beat \/ frame) THEN 0 ELSE snd
    BY DEF Send
<1>4. heartAge' \in 0..HeartTime /\ sndAge' \in 0..(TimeOut + 1)
    BY <1>1, <1>2, <1>3, SocketConstants
<1>5. ASSUME status' = "connected" PROVE sndAge' <= HeartTime /\ sndAge' <= heartAge'
    <2>1. CASE JustUp
        <3>1. snd = 0
            BY <2>1
        <3>2. sndAge' = 0
            BY <1>3, <3>1
        <3> QED
            BY <3>2, <1>4, SocketConstants
    <2>2. CASE ~JustUp /\ (beat \/ frame)
        <3>1. sndAge' = 0
            BY <1>3, <1>5, <2>2
        <3> QED
            BY <3>1, <1>4, SocketConstants
    <2>3. CASE ~JustUp /\ ~beat /\ ~frame
        <3>1. status = "connected"
            BY <2>3, <1>5 DEF JustUp
        <3>2. sndAge <= HeartTime /\ sndAge <= heartAge
            BY <3>1 DEF LInv, BeatInv
        <3>3. /\ sndAge \in Nat /\ heartAge \in 0..HeartTime
            BY SocketConstants DEF LInv, TypeOK
        <3>4. snd = Least(sndAge + lag, TimeOut + 1) /\ heart = Least(heartAge + lag, HeartTime)
            BY <2>3 DEF Aged, HeartAged
        <3>5. snd <= HeartTime
            BY <2>3, <3>2, <3>3, <3>4, <1>2, SocketConstants DEF BeatDue, IsTimeout
        <3>6. snd <= heart
            BY <3>2, <3>3, <3>4, <3>5, SocketConstants
        <3>7. sndAge' = snd /\ heartAge' = heart
            BY <1>3, <2>3
        <3> QED
            BY <3>5, <3>6, <3>7
    <2> QED
        BY <2>1, <2>2, <2>3
<1> QED
    BY <1>4, <1>5 DEF BeatInv

LEMMA TickKeeps ==
    ASSUME LInv, NEW lag \in 1..MaxLag, NEW frame \in BOOLEAN, OnTick(lag, frame)
    PROVE  LInv'
<1> USE DEF LInv
<1>1. /\ connAge' \in (-MaxBack)..ConnCap
      /\ \/ Stays(lag) \/ Drops(lag) \/ Dials(lag)
         \/ Connects \/ GivesUp(lag) \/ Establishes
    BY TickCases DEF OnTick
<1>2. Aged(rcvAge, lag) \in 0..(TimeOut + 1)
    BY AgesInRange
<1>3. rcvAge' \in 0..(TimeOut + 1)
    BY <1>1, <1>2, SocketConstants
       DEF Stays, Drops, Dials, ConnectPending, Connects, ConnectDone, GivesUp, Establishes, SetFd
\* The client's sockets and the system's view of them.
<1>4. /\ status' \in {"disconnect", "connecting", "connected"}
      /\ fd' \in open' \cup {None} /\ sockId' \in open' \cup {None}
      /\ open' \subseteq Sockets /\ watched' \subseteq open'
      /\ net' \in {"none", "dialing", "refused", "up", "shut"}
      /\ inbox' \in BOOLEAN
      /\ SocketOwnership'
    <2>1. CASE Stays(lag)
        BY <2>1 DEF Stays, client, TypeOK, SocketOwnership
    <2>2. CASE Drops(lag)
        BY <2>2 DEF Drops, Disconnect, CloseFd, Forgotten, TypeOK, SocketOwnership
    <2>3. CASE Dials(lag)
        BY <2>3 DEF Dials, ConnectPending, TypeOK, SocketOwnership
    <2>4. CASE Connects
        BY <2>4 DEF Connects, ConnectDone, SetFd, TypeOK, SocketOwnership
    <2>5. CASE GivesUp(lag)
        BY <2>5, SocketConstants DEF GivesUp, GiveUp, Forgotten, TypeOK, SocketOwnership
    <2>6. CASE Establishes
        BY <2>6 DEF Establishes, SetFd, TypeOK, SocketOwnership
    <2> QED
        BY <1>1, <2>1, <2>2, <2>3, <2>4, <2>5, <2>6
<1>5. heartAge' \in 0..HeartTime /\ sndAge' \in 0..(TimeOut + 1) /\ BeatInv'
    BY <1>3, <1>4, TickSends DEF OnTick
\* The history.
<1> DEFINE s == Least(silence + lag, TimeOut + MaxLag + 1)
           done == status = "disconnect" /\ status' = "connected"
<1>6. /\ s \in 0..(TimeOut + MaxLag + 1)
      /\ silence' = IF done THEN 0 ELSE s
      /\ lapsed' = (~done /\ (lapsed \/ s > NearlyOut))
    BY AgesInRange DEF OnTick, Silent
<1>7. /\ silence' \in 0..(TimeOut + MaxLag + 1)
      /\ lapsed' \in BOOLEAN
      /\ silence' > NearlyOut => lapsed'
    <2>1. silence' \in 0..(TimeOut + MaxLag + 1)
        BY <1>6, SocketConstants
    <2>2. lapsed' \in BOOLEAN
        BY <1>6
    <2>3. ASSUME silence' > NearlyOut PROVE ~done /\ s > NearlyOut
        BY <2>3, <1>6, SocketConstants DEF NearlyOut
    <2>4. silence' > NearlyOut => lapsed'
        BY <2>3, <1>6
    <2> QED
        BY <2>1, <2>2, <2>4
<1>8. polled /\ polled' = FALSE /\ prompt' = prompt /\ sets' = sets
    BY DEF OnTick
<1>9. TypeOK'
    <2>1. prompt' \in BOOLEAN /\ sets' \in 0..MaxSets /\ polled' \in BOOLEAN
        BY <1>8 DEF TypeOK
    <2> QED
        BY <1>1, <1>3, <1>4, <1>5, <1>7, <2>1 DEF TypeOK, ConnCap
<1>10. NetInv'
    <2>1. CASE Stays(lag)
        BY <2>1 DEF Stays, client, NetInv
    <2>2. CASE Drops(lag)
        BY <2>2 DEF Drops, Disconnect, Forgotten, NetInv
    <2>3. CASE Dials(lag)
        BY <2>3 DEF Dials, ConnectPending, NetInv
    <2>4. CASE Connects
        BY <2>4 DEF Connects, ConnectDone, SetFd, NetInv
    <2>5. CASE GivesUp(lag)
        BY <2>5 DEF GivesUp, GiveUp, Forgotten, NetInv
    <2>6. CASE Establishes
        BY <2>6 DEF Establishes, SetFd, NetInv
    <2> QED
        BY <1>1, <2>1, <2>2, <2>3, <2>4, <2>5, <2>6
\* Just connected, or connected before and not timed out.
<1>11. ASSUME status' = "connected"
       PROVE  \/ status = "connected" /\ Stays(lag)
              \/ silence' = 0 /\ rcvAge' = 0
              \/ silence = 0 /\ silence' = s /\ rcvAge' = 0
    <2>1. CASE Connects
        BY <2>1, <1>11, <1>6 DEF Connects, ConnectDone, SetFd
    <2>2. CASE Establishes
        BY <2>2, <1>6 DEF Establishes, SetFd, NetInv
    <2> QED
        BY <1>1, <1>11, <2>1, <2>2
           DEF Stays, client, Drops, Disconnect, Dials, ConnectPending, GivesUp, GiveUp
<1>12. FreshInv'
    <2> SUFFICES ASSUME status' = "connected", inbox'
                 PROVE  silence' <= MaxLag
        BY <1>8 DEF FreshInv
    <2>1. CASE status = "connected" /\ Stays(lag)
        <3>1. silence = 0
            BY <2>1, <1>8, SocketConstants DEF Stays, FreshInv, TypeOK
        <3> QED
            BY <3>1, <2>1, <1>6, SocketConstants
    <2> QED
        BY <1>11, <2>1, <1>6, SocketConstants
<1>13. AgeInv'
    <2> SUFFICES ASSUME status' = "connected"
                 PROVE  /\ rcvAge' <= TimeOut
                        /\ silence' <= rcvAge' + MaxLag
                        /\ ~inbox' => rcvAge' <= silence'
        BY DEF AgeInv
    <2>1. CASE status = "connected" /\ Stays(lag)
        <3>1. /\ rcvAge \in 0..(TimeOut + 1) /\ silence \in 0..(TimeOut + MaxLag + 1)
              /\ silence <= rcvAge + MaxLag
              /\ ~inbox => rcvAge <= silence
              /\ inbox' = inbox
            BY <2>1 DEF TypeOK, AgeInv, Stays
        <3>2. rcvAge' = rcvAge + lag /\ rcvAge' <= TimeOut
            BY <2>1, <3>1, SocketConstants DEF Stays, Aged
        <3>3. silence' = s
            BY <2>1, <1>6
        <3> QED
            BY <3>1, <3>2, <3>3, SocketConstants
    <2> QED
        BY <1>11, <2>1, <1>6, SocketConstants
<1>14. LapseInv'
    BY <1>7, <1>8 DEF LapseInv, NearlyOut
<1> QED
    BY <1>4, <1>5, <1>9, <1>10, <1>12, <1>13, <1>14

----------------------------------------------------------------------------
(* Everything else. *)

LEMMA PollKeeps == LInv /\ Poll => LInv'
<1> SUFFICES ASSUME LInv, Poll PROVE LInv'
    OBVIOUS
<1> USE DEF LInv
<1>1. /\ polled' = TRUE
      /\ UNCHANGED <<silence, lapsed, sndAge, heartAge, connAge, prompt, sets>>
    BY DEF Poll
<1>2. \/ ~Readable /\ UNCHANGED <<client, net, inbox, rcvAge>>
      \/ Readable /\ ReadBytes
      \/ Readable /\ ReadNothing /\ UNCHANGED <<client, net, inbox>>
      \/ Readable /\ ReadNothing /\ Disconnect
    BY DEF Poll, HandleEvent, ReadNothing
<1>3. Readable => status = "connected"
    BY DEF Readable, SocketOwnership, TypeOK
\* Bytes that wait are read, so none wait after a pass over a live connection.
<1>4. ReadBytes /\ status = "connected" => silence <= MaxLag
    BY SocketConstants DEF FreshInv, ReadBytes, TypeOK
<1>5. status' = "connected" => status = "connected" /\ ~inbox'
    BY <1>2, <1>3 DEF Readable, ReadBytes, ReadNothing, Disconnect, SocketOwnership, client
<1>6. rcvAge' \in 0..(TimeOut + 1) /\ (rcvAge' = rcvAge \/ (rcvAge' = 0 /\ ReadBytes))
    BY <1>2, SocketConstants DEF ReadBytes, ReadNothing, TypeOK
<1>7. TypeOK'
    <2>1. /\ status' \in {"disconnect", "connecting", "connected"}
          /\ fd' \in open' \cup {None} /\ sockId' \in open' \cup {None}
          /\ open' \subseteq Sockets /\ watched' \subseteq open'
          /\ net' \in {"none", "dialing", "refused", "up", "shut"}
          /\ inbox' \in BOOLEAN
        BY <1>2 DEF client, ReadBytes, Disconnect, CloseFd, Forgotten, TypeOK
    <2> QED
        BY <1>1, <1>6, <2>1 DEF TypeOK, ConnCap
<1>8. SocketOwnership'
    BY <1>2, <1>3 DEF client, ReadBytes, Disconnect, CloseFd, SocketOwnership, TypeOK
<1>9. NetInv'
    BY <1>1, <1>2, <1>3 DEF client, ReadBytes, Disconnect, Forgotten, NetInv
<1>10. BeatInv' /\ FreshInv'
    BY <1>1, <1>5 DEF BeatInv, FreshInv
<1>11. AgeInv'
    <2> SUFFICES ASSUME status' = "connected"
                 PROVE  /\ rcvAge' <= TimeOut
                        /\ silence' <= rcvAge' + MaxLag
                        /\ rcvAge' <= silence'
        BY DEF AgeInv
    <2>1. CASE ReadBytes /\ rcvAge' = 0
        BY <2>1, <1>1, <1>4, <1>5, SocketConstants DEF TypeOK
    <2>2. CASE ~ReadBytes /\ rcvAge' = rcvAge
        <3>1. ~inbox
            BY <2>2, <1>2, <1>5 DEF ReadNothing, Readable, SocketOwnership
        <3> QED
            BY <3>1, <2>2, <1>1, <1>5 DEF AgeInv
    <2> QED
        BY <2>1, <2>2, <1>6 DEF ReadBytes
<1>12. LapseInv'
    <2>1. ASSUME status' = "connected", rcvAge' > NearlyOut PROVE lapsed'
        <3>1. rcvAge' <= silence'
            BY <2>1, <1>5, <1>11 DEF AgeInv
        <3>2. silence > NearlyOut
            BY <2>1, <3>1, <1>1, <1>6, SocketConstants DEF NearlyOut, TypeOK
        <3> QED
            BY <3>2, <1>1 DEF LapseInv
    <2> QED
        BY <2>1, <1>1 DEF LapseInv, NearlyOut
<1> QED
    BY <1>7, <1>8, <1>9, <1>10, <1>11, <1>12

LEMMA EnvironmentKeeps == LInv /\ Environment => LInv'
<1> SUFFICES ASSUME LInv, Environment PROVE LInv'
    OBVIOUS
<1> USE DEF LInv, client, ages
<1>1. /\ UNCHANGED <<client, rcvAge, sndAge, heartAge, polled>>
      /\ connAge' \in (-MaxBack)..ConnCap
      /\ sets' \in 0..MaxSets
      /\ prompt' \in BOOLEAN
    <2> USE DEF Environment, Accepted, Refused, PeerSends, PeerCloses, ServerChanges, SetClock
    <2>1. UNCHANGED <<client, rcvAge, sndAge, heartAge, polled>>
        OBVIOUS
    <2>2. connAge' \in (-MaxBack)..ConnCap
        BY DEF TypeOK
    <2>3. sets' \in 0..MaxSets
        <3>1. sets' = sets \/ (sets < MaxSets /\ sets' = sets + 1)
            OBVIOUS
        <3> QED
            BY <3>1, SocketConstants DEF TypeOK
    <2>4. prompt' \in BOOLEAN
        BY DEF TypeOK
    <2> QED
        BY <2>1, <2>2, <2>3, <2>4
\* What happens to the connection itself.
<1>2. \/ UNCHANGED peer
      \/ net = "dialing" /\ net' = "up" /\ silence' = 0 /\ lapsed' = FALSE /\ inbox' = inbox
      \/ /\ \/ net = "dialing" /\ net' = "refused"
            \/ net = "up" /\ net' = "shut"
         /\ UNCHANGED <<inbox, silence, lapsed>>
      \/ net = "up" /\ inbox' = TRUE /\ silence' = 0 /\ UNCHANGED <<net, lapsed>>
    BY DEF Environment, Accepted, Refused, PeerSends, PeerCloses, ServerChanges, SetClock, peer
<1>3. TypeOK'
    <2>1. /\ net' \in {"none", "dialing", "refused", "up", "shut"}
          /\ inbox' \in BOOLEAN
          /\ lapsed' \in BOOLEAN
        BY <1>2 DEF peer, TypeOK
    <2>2. silence' \in 0..(TimeOut + MaxLag + 1)
        BY <1>2, SocketConstants DEF peer, TypeOK
    <2> QED
        BY <1>1, <2>1, <2>2 DEF TypeOK, ConnCap
<1>4. SocketOwnership' /\ NetInv'
    BY <1>1, <1>2 DEF peer, SocketOwnership, NetInv
<1>5. BeatInv' /\ FreshInv'
    BY <1>1, <1>2, SocketConstants DEF peer, BeatInv, FreshInv, NetInv
<1>6. AgeInv'
    BY <1>1, <1>2, SocketConstants DEF peer, AgeInv, NetInv, TypeOK
<1>7. LapseInv'
    BY <1>1, <1>2, SocketConstants DEF peer, LapseInv, NetInv, NearlyOut
<1> QED
    BY <1>3, <1>4, <1>5, <1>6, <1>7

(***************************************************************************)
(* The inductive invariant holds in every state of every panel.            *)
(***************************************************************************)
THEOREM LinkInvariance == Spec => []LInv
<1>1. Init => LInv
    BY LInit
<1>2. LInv /\ [Next]_vars => LInv'
    <2> SUFFICES ASSUME LInv, [Next]_vars PROVE LInv'
        OBVIOUS
    <2>1. CASE Tick
        BY <2>1, TickKeeps DEF Tick
    <2>2. CASE Poll
        BY <2>2, PollKeeps
    <2>3. CASE Environment
        BY <2>3, EnvironmentKeeps
    <2>4. CASE UNCHANGED vars
        <3>1. UNCHANGED <<client, peer, ages, polled, prompt, sets>>
            BY <2>4 DEF vars
        <3>2. TypeOK' /\ SocketOwnership'
            BY <3>1 DEF client, peer, ages, LInv, TypeOK, SocketOwnership
        <3>3. NetInv' /\ BeatInv' /\ FreshInv'
            BY <3>1 DEF client, peer, ages, LInv, NetInv, BeatInv, FreshInv
        <3>4. AgeInv' /\ LapseInv'
            BY <3>1 DEF client, peer, ages, LInv, AgeInv, LapseInv
        <3> QED
            BY <3>2, <3>3, <3>4 DEF LInv
    <2> QED
        BY <2>1, <2>2, <2>3, <2>4 DEF Next
<1> QED
    BY <1>1, <1>2, PTL DEF Spec

\* The ages, the descriptors and the status are what the code's fields can be.
THEOREM LinkTyped == Spec => []TypeOK
<1>1. LInv => TypeOK
    BY DEF LInv
<1> QED
    BY <1>1, LinkInvariance, PTL

(***************************************************************************)
(* The sockets, for every set of descriptors and every choice of times: no *)
(* path leaks one, closes one in use or leaves a closed one watched.       *)
(***************************************************************************)
THEOREM SocketsOwned == Spec => []SocketOwnership
<1>1. LInv => SocketOwnership
    BY DEF LInv
<1> QED
    BY <1>1, LinkInvariance, PTL

(***************************************************************************)
(* isConn() outlives the last sign of life by TimeOut and a tick at most.  *)
(***************************************************************************)
THEOREM DeathNoticed == Spec => []DeadPeerNoticed
<1>1. LInv => DeadPeerNoticed
    BY SocketConstants DEF LInv, TypeOK, AgeInv, DeadPeerNoticed
<1> QED
    BY <1>1, LinkInvariance, PTL

(***************************************************************************)
(* The connection is taken down only when the far end closed it or had     *)
(* been silent for nearly TimeOut, whatever the panel itself sent.         *)
(***************************************************************************)
THEOREM OnlyTheDeadDropped == Spec => DropsOnlyTheDead
<1> DEFINE Drop == status = "connected" /\ status' = "disconnect" => net = "shut" \/ lapsed
<1>1. LInv /\ [Next]_vars => [Drop]_vars
    <2> SUFFICES ASSUME LInv, Next, status = "connected", status' = "disconnect"
                 PROVE  net = "shut" \/ lapsed
        BY DEF Drop
    <2>1. CASE Tick
        <3>1. PICK lag \in 1..MaxLag, frame \in BOOLEAN : OnTick(lag, frame)
            BY <2>1 DEF Tick
        <3>2. Drops(lag)
            BY <3>1, TickCases
               DEF OnTick, Stays, client, Dials, Connects, GivesUp, Establishes
        <3>3. rcvAge \in 0..(TimeOut + 1) /\ sndAge \in 0..(TimeOut + 1) /\ polled
            BY <3>1 DEF LInv, TypeOK, OnTick
        <3>4. sndAge <= HeartTime
            BY DEF LInv, BeatInv
        <3>5. ~(Aged(sndAge, lag) > TimeOut)
            BY <3>3, <3>4, SocketConstants DEF Aged
        <3>6. Aged(rcvAge, lag) > TimeOut
            BY <3>2, <3>5 DEF Drops, IsTimeout
        <3>7. rcvAge > NearlyOut
            BY <3>3, <3>6, SocketConstants DEF Aged, NearlyOut
        <3> QED
            BY <3>3, <3>7 DEF LInv, LapseInv
    <2>2. CASE Poll
        <3>1. Readable /\ ReadNothing
            BY <2>2 DEF Poll, HandleEvent, ReadBytes, client
        <3> QED
            BY <3>1 DEF Readable, ReadNothing
    <2>3. CASE Environment
        BY <2>3 DEF Environment, Accepted, Refused, PeerSends, PeerCloses, ServerChanges,
                    SetClock, client
    <2> QED
        BY <2>1, <2>2, <2>3 DEF Next
<1> QED
    BY <1>1, LinkInvariance, PTL DEF Spec, DropsOnlyTheDead
=============================================================================
