-------------------------- MODULE SendQueue_proofs --------------------------
(***************************************************************************)
(* Proofs about the sending half of the link, for every value of the       *)
(* constants: the type invariant, the ownership of the frame buffers, the  *)
(* absence of duplicates among the waiting frames, the beep that is never  *)
(* lost, and the bound on how long the board is behind.                    *)
(***************************************************************************)
EXTENDS LinkFreshness, SequenceTheorems, TLAPS

Buffer == Nat \ {0}

(***************************************************************************)
(* The transmission of UartClient::onTick moves one buffer from the head   *)
(* of the queue to the end of the pool.                                    *)
(***************************************************************************)
LEMMA TransmitOwned ==
  ASSUME NEW q \in Seq(Entry), NEW p \in Seq(Buffer), NEW n \in Nat,
         Owned(q, p, n), q # <<>>
  PROVE  /\ Tail(q) \in Seq(Entry)
         /\ Recycle(p, Head(q).buf) \in Seq(Buffer)
         /\ Owned(Tail(q), Recycle(p, Head(q).buf), n)
<1> DEFINE t == Tail(q)
           b == q[1].buf
           r == Append(p, b)
<1>1. /\ Len(q) \in Nat /\ Len(q) > 0
      /\ Head(q) = q[1]
      /\ q[1] \in Entry /\ b \in Buffer
  <2>1. Len(q) \in Nat /\ Len(q) > 0 /\ Head(q) = q[1]
    OBVIOUS
  <2>2. q[1] \in Entry
    BY <2>1
  <2> QED
    BY <2>1, <2>2 DEF Entry, Buffer
<1>2. /\ t \in Seq(Entry)
      /\ Len(t) = Len(q) - 1
      /\ \A i \in 1..Len(t) : t[i] = q[i + 1]
  BY HeadTailProperties
<1>3. /\ r \in Seq(Buffer)
      /\ Len(r) = Len(p) + 1
      /\ \A i \in 1..Len(p) : r[i] = p[i]
      /\ r[Len(p) + 1] = b
  BY <1>1
<1>4. /\ DOMAIN q = 1..Len(q) /\ DOMAIN p = 1..Len(p)
      /\ DOMAIN t = 1..Len(t) /\ DOMAIN r = 1..Len(r)
      /\ Len(p) \in Nat
  BY <1>2, <1>3, LenProperties
<1> HIDE DEF t, r
<1>0. \A i \in DOMAIN t :
        i + 1 \in DOMAIN q /\ i + 1 # 1 /\ t[i].buf = q[i + 1].buf
  BY <1>1, <1>2, <1>4
<1>5. /\ \A i \in DOMAIN t : t[i].buf \in 1..n
      /\ \A i \in DOMAIN r : r[i] \in 1..n
  <2>1. b \in 1..n
    BY <1>1, <1>4 DEF Owned
  <2>2. \A i \in DOMAIN t : t[i].buf \in 1..n
    BY <1>0 DEF Owned
  <2>3. \A i \in DOMAIN r : (i \in DOMAIN p /\ r[i] = p[i]) \/ r[i] = b
    BY <1>3, <1>4
  <2> QED
    BY <2>1, <2>2, <2>3 DEF Owned
<1>6. ASSUME NEW i \in DOMAIN t, NEW j \in DOMAIN t, t[i].buf = t[j].buf PROVE i = j
  <2>1. q[i + 1].buf = q[j + 1].buf /\ i + 1 \in DOMAIN q /\ j + 1 \in DOMAIN q
    BY <1>0, <1>6
  <2>2. i + 1 = j + 1
    BY <2>1 DEF Owned
  <2> QED
    BY <1>4, <2>2
<1>7. \A i, j \in DOMAIN r : r[i] = r[j] => i = j
  <2>1. \A i \in DOMAIN r : \/ i \in DOMAIN p /\ r[i] = p[i]
                            \/ i = Len(p) + 1 /\ r[i] = b
    BY <1>3, <1>4
  <2>2. \A i \in DOMAIN p : p[i] # b
    BY <1>1, <1>4 DEF Owned
  <2>3. \A i, j \in DOMAIN p : p[i] = p[j] => i = j
    BY DEF Owned
  <2> QED
    BY <2>1, <2>2, <2>3
<1>8. \A i \in DOMAIN t, j \in DOMAIN r : t[i].buf # r[j]
  <2>1. \A i \in DOMAIN t : t[i].buf # b
    BY <1>0, <1>1, <1>4 DEF Owned
  <2>2. \A i \in DOMAIN t, j \in DOMAIN p : t[i].buf # p[j]
    BY <1>0 DEF Owned
  <2>3. \A j \in DOMAIN r : (j \in DOMAIN p /\ r[j] = p[j]) \/ r[j] = b
    BY <1>3, <1>4
  <2> QED
    BY <2>1, <2>2, <2>3
<1>9. Len(t) + Len(r) = n
  <2>1. Len(q) + Len(p) = n
    BY DEF Owned
  <2>2. Len(t) = Len(q) - 1 /\ Len(r) = Len(p) + 1
    BY <1>2, <1>3
  <2> QED
    BY <1>1, <1>4, <2>1, <2>2
<1>10. Owned(t, r, n)
  BY <1>5, <1>6, <1>7, <1>8, <1>9 DEF Owned
<1> QED
  BY <1>1, <1>2, <1>3, <1>10 DEF Recycle, t, r

(***************************************************************************)
(* Between obtain() and the end of send() one buffer, b, is in the hands   *)
(* of send2MCU: neither the queue nor the pool holds it.                   *)
(***************************************************************************)
Lent(q, p, b, n) ==
    /\ b \in 1..n
    /\ \A i \in DOMAIN q : q[i].buf \in 1..n /\ q[i].buf # b
    /\ \A i \in DOMAIN p : p[i] \in 1..n /\ p[i] # b
    /\ \A i, j \in DOMAIN q : q[i].buf = q[j].buf => i = j
    /\ \A i, j \in DOMAIN p : p[i] = p[j] => i = j
    /\ \A i \in DOMAIN q, j \in DOMAIN p : q[i].buf # p[j]
    /\ Len(q) + Len(p) + 1 = n

(***************************************************************************)
(* obtain() lends a buffer nobody holds: the head of the pool, or a fresh  *)
(* one when the pool is empty.                                             *)
(***************************************************************************)
LEMMA ObtainLent ==
  ASSUME NEW q \in Seq(Entry), NEW p \in Seq(Buffer), NEW n \in Nat,
         Owned(q, p, n)
  PROVE  /\ Obtained(p, n) \in Buffer
         /\ PoolAfter(p) \in Seq(Buffer)
         /\ AllocAfter(p, n) \in Nat
         /\ Lent(q, PoolAfter(p), Obtained(p, n), AllocAfter(p, n))
<1>1. CASE p = <<>>
  <2>1. \A i \in DOMAIN q : q[i].buf \in 1..(n + 1) /\ q[i].buf # n + 1
    BY DEF Owned
  <2> QED
    BY <1>1, <2>1 DEF Owned, Lent, Obtained, PoolAfter, AllocAfter, Buffer
<1>2. CASE p # <<>>
  <2> DEFINE t == Tail(p)
             b == p[1]
  <2>1. /\ Len(p) \in Nat /\ Len(p) > 0 /\ Head(p) = b
        /\ b \in Buffer
        /\ DOMAIN p = 1..Len(p)
    BY <1>2
  <2>2. /\ t \in Seq(Buffer)
        /\ Len(t) = Len(p) - 1
        /\ DOMAIN t = 1..Len(t)
        /\ \A i \in DOMAIN t : t[i] = p[i + 1]
    BY <1>2, HeadTailProperties, LenProperties
  <2> HIDE DEF t
  <2>3. \A i \in DOMAIN t :
          i + 1 \in DOMAIN p /\ i + 1 # 1 /\ t[i] = p[i + 1]
    BY <2>1, <2>2
  <2>4. Lent(q, t, b, n)
    BY <2>1, <2>2, <2>3, SMTT(30) DEF Owned, Lent
  <2> QED
    BY <1>2, <2>1, <2>2, <2>4 DEF Obtained, PoolAfter, AllocAfter, t
<1> QED
  BY <1>1, <1>2

\* send() accepted the frame: the lent buffer is now the last of the queue.
LEMMA AcceptOwned ==
  ASSUME NEW q \in Seq(Entry), NEW p \in Seq(Buffer), NEW n \in Nat,
         NEW b \in Buffer, NEW f \in Frame, Lent(q, p, b, n)
  PROVE  /\ Append(q, [buf |-> b, frame |-> f]) \in Seq(Entry)
         /\ Owned(Append(q, [buf |-> b, frame |-> f]), p, n)
<1> DEFINE e == [buf |-> b, frame |-> f]
           r == Append(q, e)
<1>1. e \in Entry /\ e.buf = b
  BY DEF Entry, Buffer
<1> HIDE DEF e
<1>2. /\ r \in Seq(Entry)
      /\ Len(r) = Len(q) + 1 /\ Len(q) \in Nat
      /\ DOMAIN r = 1..(Len(q) + 1) /\ DOMAIN q = 1..Len(q)
      /\ \A i \in DOMAIN q : r[i] = q[i]
      /\ r[Len(q) + 1] = e
  BY <1>1
<1> HIDE DEF r
<1>3. \A i \in DOMAIN r :
        \/ i \in DOMAIN q /\ r[i].buf = q[i].buf
        \/ i = Len(q) + 1 /\ r[i].buf = b
  BY <1>1, <1>2
<1>4. Owned(r, p, n)
  BY <1>2, <1>3 DEF Owned, Lent
<1> QED
  BY <1>2, <1>4 DEF e, r

\* send() refused it: the lent buffer goes back to the pool.
LEMMA RefuseOwned ==
  ASSUME NEW q \in Seq(Entry), NEW p \in Seq(Buffer), NEW n \in Nat,
         NEW b \in Buffer, Lent(q, p, b, n)
  PROVE  /\ Recycle(p, b) \in Seq(Buffer)
         /\ Owned(q, Recycle(p, b), n)
<1> DEFINE r == Append(p, b)
<1>1. /\ r \in Seq(Buffer)
      /\ Len(r) = Len(p) + 1 /\ Len(p) \in Nat /\ Len(q) \in Nat
      /\ DOMAIN r = 1..(Len(p) + 1) /\ DOMAIN p = 1..Len(p)
      /\ \A i \in DOMAIN p : r[i] = p[i]
      /\ r[Len(p) + 1] = b
  OBVIOUS
<1> HIDE DEF r
<1>2. \A i \in DOMAIN r :
        \/ i \in DOMAIN p /\ r[i] = p[i]
        \/ i = Len(p) + 1 /\ r[i] = b
  BY <1>1
<1>3. Owned(q, r, n)
  BY <1>1, <1>2 DEF Owned, Lent
<1> QED
  BY <1>1, <1>3 DEF Recycle, r

----------------------------------------------------------------------------
\* Transmitting the head keeps the waiting frames distinct.
LEMMA TailDistinct ==
  ASSUME NEW q \in Seq(Entry), q # <<>>, Distinct(q)
  PROVE  Distinct(Tail(q))
<1> DEFINE t == Tail(q)
<1>1. /\ Len(q) \in Nat /\ DOMAIN q = 1..Len(q)
      /\ t \in Seq(Entry) /\ Len(t) = Len(q) - 1
      /\ DOMAIN t = 1..Len(t)
      /\ \A i \in DOMAIN t : t[i] = q[i + 1]
  BY HeadTailProperties, LenProperties
<1> HIDE DEF t
<1>2. \A i \in DOMAIN t : i + 1 \in DOMAIN q /\ t[i].frame = q[i + 1].frame
  BY <1>1
<1>3. \A i, j \in DOMAIN t : i # j => i + 1 # j + 1
  BY <1>1
<1>4. Distinct(t)
  BY <1>2, <1>3 DEF Distinct
<1> QED
  BY <1>4 DEF t

\* A frame that send() accepted is no packet that already waits.
LEMMA AcceptDistinct ==
  ASSUME NEW q \in Seq(Entry), NEW b \in Buffer, NEW f \in Frame, Distinct(q),
         \A i \in DOMAIN q : ~Compare(f, q[i].frame)
  PROVE  Distinct(Append(q, [buf |-> b, frame |-> f]))
<1> DEFINE r == Append(q, [buf |-> b, frame |-> f])
<1>1. [buf |-> b, frame |-> f] \in Entry
  BY DEF Entry, Buffer
<1>2. /\ DOMAIN r = 1..(Len(q) + 1) /\ DOMAIN q = 1..Len(q) /\ Len(q) \in Nat
      /\ \A i \in DOMAIN q : r[i] = q[i]
      /\ r[Len(q) + 1] = [buf |-> b, frame |-> f]
  BY <1>1
<1> HIDE DEF r
<1>3. \A i \in DOMAIN r :
        \/ i \in DOMAIN q /\ r[i].frame = q[i].frame
        \/ i = Len(q) + 1 /\ r[i].frame = f
  BY <1>2
<1>4. \A g, h : Compare(g, h) => Compare(h, g)
  BY DEF Compare
<1>5. Distinct(r)
  BY <1>3, <1>4 DEF Distinct
<1> QED
  BY <1>5 DEF r

----------------------------------------------------------------------------
IInv == TypeOK /\ BufferOwnership /\ NoDuplicateWaiting

\* A setter writes bytes of mSndData and touches neither queue nor pool.
LEMMA PutPreserves ==
  ASSUME IInv, NEW change, Put(change),
         \A f \in DOMAIN change : change[f] \in Byte
  PROVE  IInv'
<1>1. snd' \in Frame
  BY DEF IInv, TypeOK, Put, Frame
<1>2. TypeOK'
  BY <1>1 DEF IInv, TypeOK, Put, buffers, ages
<1>3. UNCHANGED <<queue, pool, nalloc>>
  BY DEF Put, buffers
<1> QED
  BY <1>2, <1>3 DEF IInv, BufferOwnership, NoDuplicateWaiting

\* Every setter writes bytes only: the settings stay a frame.
LEMMA SetterPreserves == IInv /\ Setter => IInv'
<1> SUFFICES ASSUME IInv, Setter PROVE IInv'
  OBVIOUS
<1> USE LinkConstants DEF Byte
<1>1. ASSUME NEW t \in WaterActions, SetWaterAction(t) PROVE IInv'
  BY <1>1, PutPreserves DEF SetWaterAction
<1>2. ASSUME NEW v \in Temperatures, SetWaterTem(v) PROVE IInv'
  <2>1. v % 256 \in Byte
    OBVIOUS
  <2> QED
    BY <1>2, <2>1, PutPreserves DEF SetWaterTem
<1>3. ASSUME NEW v \in Yields, SetWaterYield(v) PROVE IInv'
  <2>1. v % 256 \in Byte /\ (v \div 256) % 256 \in Byte
    OBVIOUS
  <2> QED
    BY <1>3, <2>1, PutPreserves DEF SetWaterYield
<1>4. ASSUME NEW c \in CoolStates, SetCooling(c) PROVE IInv'
  <2>1. c \in Byte
    OBVIOUS
  <2> QED
    BY <1>4, <2>1, PutPreserves DEF SetCooling
<1>5. ASSUME NEW b, SetIceAction(b) \/ SetHPCCReset(b) \/ SetROReset(b)
      PROVE  IInv'
  <2>1. Flag(b) \in Byte
    BY DEF Flag
  <2>2. CASE SetIceAction(b)
    BY <2>1, <2>2, PutPreserves DEF SetIceAction
  <2>3. CASE SetHPCCReset(b)
    BY <2>1, <2>3, PutPreserves DEF SetHPCCReset
  <2>4. CASE SetROReset(b)
    BY <2>1, <2>4, PutPreserves DEF SetROReset
  <2> QED
    BY <1>5, <2>2, <2>3, <2>4
<1>6. ASSUME Put(NoFrame) PROVE IInv'
  BY <1>6, PutPreserves DEF NoFrame
<1>7. ASSUME NEW b, SetResetStatus(b) PROVE IInv'
  <2>1. ASSUME Put([D3 |-> 0, D7 |-> 0, D8 |-> 0]) PROVE IInv'
    BY <2>1, PutPreserves
  <2> QED
    BY <1>6, <1>7, <2>1 DEF SetResetStatus
<1>8. ASSUME NEW b, SetBeep(b) PROVE IInv'
  <2>1. ASSUME Put([D12 |-> 1]) PROVE IInv'
    BY <2>1, PutPreserves
  <2> QED
    BY <1>6, <1>8, <2>1 DEF SetBeep
<1>9. CASE Touch
  BY <1>6, <1>9 DEF Touch
<1> QED
  BY <1>1, <1>2, <1>3, <1>4, <1>5, <1>7, <1>8, <1>9 DEF Setter

\* NewPacket, LinkUp and LinkDown change a time stamp or the link's status.
LEMMA LinkPreserves == IInv /\ Link => IInv'
<1> SUFFICES ASSUME IInv, Link PROVE IInv'
  OBVIOUS
<1>1. UNCHANGED <<queue, pool, nalloc>>
  BY DEF Link, NewPacket, LinkUp, LinkDown, buffers
<1>2. TypeOK'
  <2>1. UNCHANGED <<snd, dirty, periodAge>> /\ tx' = NoFrame
    BY DEF Link, NewPacket, LinkUp, LinkDown, settings, ages
  <2>2. conn' \in BOOLEAN
    BY DEF Link, NewPacket, LinkUp, LinkDown, IInv, TypeOK
  <2>3. sendAge' \in 0..SendSpace
    BY LinkConstants DEF Link, NewPacket, LinkUp, LinkDown, ages, IInv, TypeOK
  <2> QED
    BY <1>1, <2>1, <2>2, <2>3 DEF IInv, TypeOK
<1> QED
  BY <1>1, <1>2 DEF IInv, BufferOwnership, NoDuplicateWaiting

\* What a tick's transmission leaves to send2MCU.
LEMMA SentState ==
  ASSUME IInv, NEW age \in 0..SendSpace
  PROVE  /\ QueueSent(age) \in Seq(Entry)
         /\ PoolSent(age) \in Seq(Buffer)
         /\ Owned(QueueSent(age), PoolSent(age), nalloc)
         /\ Distinct(QueueSent(age))
<1>1. /\ queue \in Seq(Entry) /\ pool \in Seq(Buffer) /\ nalloc \in Nat
      /\ Owned(queue, pool, nalloc) /\ Distinct(queue)
  BY DEF IInv, TypeOK, BufferOwnership, NoDuplicateWaiting, Buffer
<1>2. CASE MayTransmit(age)
  <2>1. queue # <<>>
    BY <1>2 DEF MayTransmit
  <2> QED
    BY <1>1, <1>2, <2>1, TransmitOwned, TailDistinct DEF QueueSent, PoolSent
<1>3. CASE ~MayTransmit(age)
  BY <1>1, <1>3 DEF QueueSent, PoolSent
<1> QED
  BY <1>2, <1>3

\* send2MCU, on whatever the transmission left, accepted or refused.
LEMMA SendPreserves ==
  ASSUME IInv, NEW q \in Seq(Entry), NEW p \in Seq(Buffer),
         Owned(q, p, nalloc), Distinct(q), Send2MCU(q, p)
  PROVE  /\ queue' \in Seq(Entry) /\ pool' \in Seq(Buffer) /\ nalloc' \in Nat
         /\ Owned(queue', pool', nalloc')
         /\ Distinct(queue')
<1> DEFINE b == Obtained(p, nalloc)
<1>1. nalloc \in Nat /\ snd \in Frame
  BY DEF IInv, TypeOK
<1>2. /\ b \in Buffer
      /\ PoolAfter(p) \in Seq(Buffer)
      /\ nalloc' \in Nat
      /\ Lent(q, PoolAfter(p), b, nalloc')
  BY <1>1, ObtainLent DEF Send2MCU
<1> HIDE DEF b
<1>3. CASE Accepted(q, snd)
  <2>1. /\ queue' = Append(q, [buf |-> b, frame |-> snd])
        /\ pool' = PoolAfter(p)
    BY <1>3 DEF Send2MCU, b
  <2>2. Distinct(queue')
    BY <1>1, <1>2, <1>3, <2>1, AcceptDistinct DEF Accepted
  <2> QED
    BY <1>1, <1>2, <2>1, <2>2, AcceptOwned
<1>4. CASE ~Accepted(q, snd)
  <2>1. queue' = q /\ pool' = Recycle(PoolAfter(p), b)
    BY <1>4 DEF Send2MCU, b
  <2> QED
    BY <1>2, <2>1, RefuseOwned
<1> QED
  BY <1>3, <1>4

\* A tick: the transmission, and then perhaps send2MCU.
LEMMA TickPreserves ==
  ASSUME IInv, NEW lag \in 1..MaxLag, HandleEvents(lag)
  PROVE  IInv'
<1> USE LinkConstants
<1> DEFINE sage == Least(sendAge + lag, SendSpace)
           page == Least(periodAge + lag, Resend)
           q == QueueSent(sage)
           p == PoolSent(sage)
<1>1. sage \in 0..SendSpace /\ page \in 0..Resend
  BY DEF IInv, TypeOK, Least
<1>2. /\ q \in Seq(Entry) /\ p \in Seq(Buffer)
      /\ Owned(q, p, nalloc) /\ Distinct(q)
  BY <1>1, SentState
<1>3. Transmit(sage) /\ conn' = conn
  BY DEF HandleEvents, Due
<1>4. sendAge' \in 0..SendSpace
  BY <1>1, <1>3 DEF Transmit
<1>5. tx' \in Frame \cup {NoFrame}
  <2>1. CASE queue # <<>>
    <3>1. queue \in Seq(Entry) /\ Head(queue) = queue[1] /\ Len(queue) > 0
      BY <2>1 DEF IInv, TypeOK
    <3>2. Head(queue) \in Entry
      BY <3>1
    <3> QED
      BY <1>3, <3>2 DEF Transmit, OnWire, Entry
  <2>2. CASE queue = <<>>
    BY <1>3, <2>2 DEF Transmit, MayTransmit
  <2> QED
    BY <2>1, <2>2
<1> HIDE DEF sage, page, q, p
<1>6. CASE dirty \/ page >= Resend
  <2>1. Send2MCU(q, p)
    BY <1>6 DEF HandleEvents, Due, sage, page, q, p
  <2>2. /\ queue' \in Seq(Entry) /\ pool' \in Seq(Buffer) /\ nalloc' \in Nat
        /\ Owned(queue', pool', nalloc') /\ Distinct(queue')
    BY <1>2, <2>1, SendPreserves
  <2>3. snd' \in Frame /\ dirty' = FALSE /\ periodAge' = 0
    BY <2>1 DEF Send2MCU, IInv, TypeOK, Frame, Byte
  <2>4. dirty' \in BOOLEAN /\ conn' \in BOOLEAN /\ periodAge' \in 0..Resend
    <3>1. dirty' \in BOOLEAN
      BY <2>3
    <3>2. conn' \in BOOLEAN
      BY <1>3 DEF TypeOK, IInv
    <3>3. periodAge' \in 0..Resend
      BY <2>3
    <3> QED
      BY <3>1, <3>2, <3>3
  <2>5. TypeOK'
    BY <1>4, <1>5, <2>2, <2>3, <2>4 DEF TypeOK, Buffer
  <2> QED
    BY <2>2, <2>5 DEF IInv, BufferOwnership, NoDuplicateWaiting
<1>7. CASE ~(dirty \/ page >= Resend)
  <2>1. /\ queue' = q /\ pool' = p /\ periodAge' = page
        /\ UNCHANGED <<snd, dirty, nalloc>>
    BY <1>7 DEF HandleEvents, Due, settings, sage, page, q, p
  <2>2. dirty' \in BOOLEAN /\ conn' \in BOOLEAN /\ snd' \in Frame
    BY <1>3, <2>1 DEF TypeOK, IInv
  <2>3. /\ queue' \in Seq(Entry) /\ pool' \in Seq(Nat \ {0})
        /\ nalloc' \in Nat /\ periodAge' \in 0..Resend
    BY <1>1, <1>2, <2>1 DEF TypeOK, IInv, Buffer
  <2>4. TypeOK'
    BY <1>4, <1>5, <2>2, <2>3 DEF TypeOK
  <2> QED
    BY <1>2, <2>1, <2>4 DEF IInv, BufferOwnership, NoDuplicateWaiting
<1> QED
  BY <1>6, <1>7

(***************************************************************************)
(* The three invariants are inductive together.                            *)
(***************************************************************************)
THEOREM Invariance == Spec => []IInv
<1>1. Init => IInv
  <2> SUFFICES ASSUME Init PROVE IInv
    OBVIOUS
  <2>1. conn \in BOOLEAN /\ dirty \in BOOLEAN
    BY DEF Init
  <2>2. snd \in Frame
    BY DEF Init, Frame, Byte
  <2>3. TypeOK
    BY <2>1, <2>2, LinkConstants DEF Init, TypeOK
  <2> QED
    BY <2>3 DEF Init, IInv, BufferOwnership, NoDuplicateWaiting, Owned, Distinct
<1>2. IInv /\ [Next]_vars => IInv'
  <2> SUFFICES ASSUME IInv, [Next]_vars PROVE IInv'
    OBVIOUS
  <2>1. CASE Setter
    BY <2>1, SetterPreserves
  <2>2. CASE Link
    BY <2>2, LinkPreserves
  <2>3. CASE Tick
    BY <2>3, TickPreserves DEF Tick
  <2>4. CASE UNCHANGED vars
    BY <2>4 DEF IInv, TypeOK, BufferOwnership, NoDuplicateWaiting, vars
  <2> QED
    BY <2>1, <2>2, <2>3, <2>4 DEF Next
<1> QED
  BY <1>1, <1>2, PTL DEF Spec

\* Every variable of the sender keeps its type.
THEOREM TypeCorrect == Spec => []TypeOK
<1>1. IInv => TypeOK
  BY DEF IInv
<1> QED
  BY <1>1, Invariance, PTL

\* Each frame buffer is in the queue or in the pool, once: send2MCU, send and
\* onTick neither leak a buffer nor recycle one that is still in use.
THEOREM BuffersOwned == Spec => []BufferOwnership
<1>1. IInv => BufferOwnership
  BY DEF IInv
<1> QED
  BY <1>1, Invariance, PTL

\* The test in send() keeps the waiting frames pairwise different packets.
THEOREM DuplicatesNeverWait == Spec => []NoDuplicateWaiting
<1>1. IInv => NoDuplicateWaiting
  BY DEF IInv
<1> QED
  BY <1>1, Invariance, PTL

----------------------------------------------------------------------------
(* The beep.                                                               *)

Beeps(q) == \E i \in DOMAIN q : q[i].frame["D12"] = 1

\* A beep is owed on a link that is up only; LinkDown forgives it.
BeepInv ==
    /\ owed \in BOOLEAN
    /\ owed => conn
    /\ BeepNotLost

\* Watching the board adds nothing to what the sender does.
LEMMA WatchedSender == WSpec => Spec
<1>1. WInit => Init
  BY DEF WInit
<1>2. [WNext]_allVars => [Next]_vars
  BY DEF WNext, WSetter, WLinkChange, WNewPacket, WTick, Received, Lost, Next, Link,
     Tick, allVars
<1> QED
  BY <1>1, <1>2, PTL DEF WSpec, Spec

\* The frame that leaves the queue is the one on the wire.
LEMMA BeepTransmitted ==
  ASSUME IInv, conn, NEW age, Transmit(age), Beeps(queue),
         tx' = NoFrame \/ tx'["D12"] = 0
  PROVE  Beeps(QueueSent(age))
<1>1. CASE ~MayTransmit(age)
  BY <1>1 DEF QueueSent
<1>2. CASE MayTransmit(age)
  <2>1. queue \in Seq(Entry) /\ queue # <<>>
    BY <1>2 DEF IInv, TypeOK, MayTransmit
  <2>2. Head(queue) = queue[1] /\ queue[1].frame \in Frame
    <3>1. queue[1] \in Entry
      BY <2>1
    <3> QED
      BY <2>1, <3>1 DEF Entry
  <2>3. tx' = queue[1].frame
    BY <1>2, <2>2 DEF Transmit, OnWire
  <2>4. tx' # NoFrame
    <3>1. DOMAIN tx' = Fields /\ DOMAIN NoFrame = {}
      BY <2>2, <2>3 DEF Frame, NoFrame
    <3>2. "D12" \in Fields
      BY DEF Fields
    <3> QED
      BY <3>1, <3>2
  <2>5. queue[1].frame["D12"] = 0
    BY <2>3, <2>4
  <2>6. PICK i \in 1..Len(queue) : queue[i].frame["D12"] = 1
    BY <2>1 DEF Beeps
  <2>7. /\ Len(Tail(queue)) = Len(queue) - 1 /\ DOMAIN Tail(queue) = 1..Len(Tail(queue))
        /\ \A k \in 1..Len(Tail(queue)) : Tail(queue)[k] = queue[k + 1]
    BY <2>1, HeadTailProperties
  <2>8. i # 1 /\ Len(queue) \in Nat
    BY <2>1, <2>5, <2>6
  <2>9. i - 1 \in 1..Len(Tail(queue)) /\ Tail(queue)[i - 1] = queue[i]
    <3>1. i - 1 \in 1..Len(Tail(queue)) /\ i - 1 + 1 = i
      BY <2>7, <2>8
    <3> QED
      BY <2>7, <3>1
  <2>10. Beeps(Tail(queue))
    BY <2>6, <2>7, <2>9 DEF Beeps
  <2> QED
    BY <1>2, <2>10 DEF QueueSent
<1> QED
  BY <1>1, <1>2

\* send() drops the frame with the beep only where one like it still waits.
LEMMA BeepSent ==
  ASSUME IInv, conn, NEW q \in Seq(Entry), NEW p, Send2MCU(q, p),
         snd["D12"] = 1 \/ Beeps(q)
  PROVE  Beeps(queue')
<1>1. CASE Accepted(q, snd)
  <2>1. PICK b : queue' = Append(q, [buf |-> b, frame |-> snd])
    BY <1>1 DEF Send2MCU
  <2> DEFINE e == [buf |-> b, frame |-> snd]
  <2>2. e.frame = snd
    OBVIOUS
  <2> HIDE DEF e
  <2>3. /\ DOMAIN queue' = 1..(Len(q) + 1) /\ DOMAIN q = 1..Len(q) /\ Len(q) \in Nat
        /\ \A i \in 1..Len(q) : queue'[i] = q[i]
        /\ queue'[Len(q) + 1] = e
    BY <2>1 DEF e
  <2>4. \A i \in DOMAIN q : i \in DOMAIN queue' /\ queue'[i] = q[i]
    BY <2>3
  <2>5. Len(q) + 1 \in DOMAIN queue'
    BY <2>3
  <2> QED
    BY <2>2, <2>3, <2>4, <2>5 DEF Beeps
<1>2. CASE ~Accepted(q, snd)
  <2>1. queue' = q
    BY <1>2 DEF Send2MCU
  <2>2. PICK i \in DOMAIN q : snd = q[i].frame
    BY <1>2 DEF Accepted, Compare
  <2> QED
    BY <2>1, <2>2 DEF Beeps
<1> QED
  BY <1>1, <1>2

LEMMA BeepKept ==
  ASSUME IInv, BeepInv, NEW lag \in 1..MaxLag, HandleEvents(lag), owed' = StillOwed
  PROVE  BeepInv'
<1>0. owed' \in BOOLEAN
  BY DEF StillOwed
<1>1. SUFFICES ASSUME owed' PROVE conn' /\ BeepNotLost'
  BY <1>0 DEF BeepInv, BeepNotLost
<1>2. owed /\ conn /\ conn' = conn /\ (tx' = NoFrame \/ tx'["D12"] = 0)
  BY <1>1 DEF StillOwed, BeepInv, HandleEvents
<1> DEFINE sage == Least(sendAge + lag, SendSpace)
           page == Least(periodAge + lag, Resend)
           q == QueueSent(sage)
           p == PoolSent(sage)
<1>3. snd["D12"] = 1 \/ Beeps(queue)
  BY <1>2 DEF BeepInv, BeepNotLost, Beeps
<1>4. Transmit(sage)
  BY DEF HandleEvents
<1>5. q \in Seq(Entry)
  BY DEF QueueSent, IInv, TypeOK, MayTransmit
<1>6. Beeps(queue) => Beeps(q)
  BY <1>2, <1>4, BeepTransmitted
<1>7. CASE Due(page)
  <2>1. Send2MCU(q, p)
    BY <1>7 DEF HandleEvents
  <2> HIDE DEF q, p
  <2>2. Beeps(queue')
    BY <1>2, <1>3, <1>5, <1>6, <2>1, BeepSent
  <2> QED
    BY <1>2, <2>2 DEF BeepNotLost, Beeps
<1>8. CASE ~Due(page)
  <2>1. queue' = q /\ snd' = snd
    BY <1>8 DEF HandleEvents, settings
  <2> HIDE DEF q
  <2>2. snd'["D12"] = 1 \/ Beeps(queue')
    BY <1>3, <1>6, <2>1
  <2> QED
    BY <1>2, <2>2 DEF BeepNotLost, Beeps
<1> QED
  BY <1>7, <1>8

\* A setter may ask for a beep and never takes one back.
LEMMA BeepAsked == ASSUME IInv, BeepInv, WSetter PROVE BeepInv'
<1> DEFINE Beeping(change) == "D12" \in DOMAIN change => change["D12"] = 1
<1>1. \E change : Put(change) /\ Beeping(change)
  <2>1. Beeping(NoFrame) /\ Beeping([D12 |-> 1])
    BY DEF NoFrame
  <2>2. \A v, w, u : /\ Beeping([D3 |-> v]) /\ Beeping([D4 |-> v]) /\ Beeping([D7 |-> v])
                     /\ Beeping([D8 |-> v]) /\ Beeping([D9 |-> v]) /\ Beeping([D10 |-> v])
                     /\ Beeping([D5 |-> v, D6 |-> w])
                     /\ Beeping([D3 |-> v, D7 |-> w, D8 |-> u])
    OBVIOUS
  <2> HIDE DEF Beeping
  <2>3. CASE (\E t \in WaterActions : SetWaterAction(t)) \/ \E v \in Temperatures : SetWaterTem(v)
    <3>1. ASSUME NEW t \in WaterActions, SetWaterAction(t)
          PROVE  \E change : Put(change) /\ Beeping(change)
      BY <2>2, <3>1, Zenon DEF SetWaterAction
    <3>2. ASSUME NEW v \in Temperatures, SetWaterTem(v)
          PROVE  \E change : Put(change) /\ Beeping(change)
      <4> DEFINE low == v % 256
      <4>1. Put([D4 |-> low])
        BY <3>2 DEF SetWaterTem
      <4> HIDE DEF low
      <4> QED
        BY <2>2, <4>1, Zenon
    <3> QED
      BY <2>3, <3>1, <3>2, Zenon
  <2>4. ASSUME NEW v \in Yields, SetWaterYield(v)
        PROVE  \E change : Put(change) /\ Beeping(change)
    <3> DEFINE high == (v \div 256) % 256
               low == v % 256
    <3>1. Beeping([D5 |-> high, D6 |-> low])
      <4> HIDE DEF high, low
      <4> QED
        BY <2>2, Zenon
    <3> QED
      BY <2>4, <3>1, Zenon DEF SetWaterYield
  <2>5. CASE \/ \E c \in CoolStates : SetCooling(c)
             \/ \E b \in IceFlags : SetIceAction(b)
             \/ \E b \in FilterFlags : SetHPCCReset(b) \/ SetROReset(b)
    BY <2>2, <2>5 DEF SetCooling, SetIceAction, SetHPCCReset, SetROReset
  <2>6. CASE (\E b \in BOOLEAN : SetResetStatus(b) \/ SetBeep(b)) \/ Touch
    BY <2>1, <2>2, <2>6 DEF SetResetStatus, SetBeep, Touch
  <2> QED
    BY <2>3, <2>4, <2>5, <2>6 DEF WSetter, Setter
<1>2. PICK change : Put(change) /\ Beeping(change)
  BY <1>1
<1>3. queue' = queue /\ conn' = conn
  BY <1>2 DEF Put, buffers
<1>4. snd["D12"] = 1 => snd'["D12"] = 1
  <2>1. "D12" \in Fields
    BY DEF Fields
  <2>2. snd' = [f \in Fields |-> IF f \in DOMAIN change THEN change[f] ELSE snd[f]]
    BY <1>2 DEF Put
  <2>3. snd'["D12"] = IF "D12" \in DOMAIN change THEN change["D12"] ELSE snd["D12"]
    BY <2>1, <2>2
  <2> QED
    BY <1>2, <2>3
<1>5. owed' = (owed \/ (conn /\ snd'["D12"] = 1))
  BY DEF WSetter
<1> QED
  BY <1>3, <1>4, <1>5 DEF BeepInv, BeepNotLost

(***************************************************************************)
(* While the link stays up a beep that was asked for is on the wire or     *)
(* still to come, although send2MCU clears the bit whether or not send()   *)
(* took the frame: send() drops none but a copy of one that waits.         *)
(***************************************************************************)
THEOREM BeepsNotLost == WSpec => []BeepNotLost
<1>1. WInit => BeepInv
  BY DEF WInit, BeepInv, BeepNotLost
<1>2. IInv /\ BeepInv /\ [WNext]_allVars => BeepInv'
  <2> SUFFICES ASSUME IInv, BeepInv, [WNext]_allVars PROVE BeepInv'
    OBVIOUS
  <2>1. CASE WSetter
    BY <2>1, BeepAsked
  <2>2. CASE WLinkChange
    BY <2>2 DEF WLinkChange, BeepInv, BeepNotLost
  <2>3. CASE WNewPacket
    BY <2>3 DEF WNewPacket, NewPacket, watched, settings, buffers, BeepInv, BeepNotLost
  <2>4. CASE WTick
    BY <2>4, BeepKept DEF WTick, Received, Lost
  <2>5. CASE UNCHANGED allVars
    BY <2>5 DEF allVars, vars, watched, BeepInv, BeepNotLost
  <2> QED
    BY <2>1, <2>2, <2>3, <2>4, <2>5 DEF WNext
<1>3. BeepInv => BeepNotLost
  BY DEF BeepInv
<1> QED
  BY <1>1, <1>2, <1>3, Invariance, WatchedSender, PTL DEF WSpec

----------------------------------------------------------------------------
(* Staleness.  Of the frames that wait, those that differ from the current *)
(* settings were queued before the last setter call, so they sit among the *)
(* first QueueCap - 1.  Each leaves within Drain(1) ticks of the one in    *)
(* front of it; behind the last of them the current settings wait, or the  *)
(* periodic resend puts them there.                                        *)

Drain(k) == k * (SendSpace + MaxLag - 1)
SpaceAge == Least(sendAge, SendSpace - 1)
PeriodSpent == Least(periodAge, Resend - 1)
Behind(entry, settled) == Quieted(entry.frame) # Quieted(settled)
UpToDate == \A i \in DOMAIN queue : ~Behind(queue[i], snd)

StaleFramesLeave ==
    \A i \in DOMAIN queue : Behind(queue[i], snd) =>
        /\ i <= QueueCap - 1
        /\ quiet <= Drain(QueueCap - 1 - i) + SpaceAge

StaleInv ==
    /\ quiet \in Nat
    /\ StaleFramesLeave
    /\ conn /\ mcu # Current /\ queue # <<>> /\ UpToDate =>
         quiet <= Drain(QueueCap - 1) + Resend + MaxLag - 1 + SpaceAge
    /\ conn /\ mcu # Current /\ queue = <<>> =>
         quiet <= Drain(QueueCap - 1) + PeriodSpent

\* What is left of the drain after k + 1 frames is one frame more than after k.
LEMMA DrainStep ==
  \A k \in Nat : Drain(k) \in Nat /\ Drain(k + 1) = Drain(k) + SendSpace + MaxLag - 1
<1> SUFFICES ASSUME NEW k \in Nat
             PROVE  Drain(k) \in Nat /\ Drain(k + 1) = Drain(k) + SendSpace + MaxLag - 1
  OBVIOUS
<1> DEFINE c == SendSpace + MaxLag - 1
<1>1. c \in Nat
  BY LinkConstants
<1> HIDE DEF c
<1>2. k * c \in Nat /\ (k + 1) * c = k * c + c
  BY <1>1
<1> QED
  BY <1>2, LinkConstants DEF Drain, c

\* The settings a frame is judged by do not include the beep bit that send2MCU clears.
LEMMA SendKeepsCurrent ==
  ASSUME snd \in Frame, snd' = snd \/ snd' = [snd EXCEPT !["D12"] = 0]
  PROVE  Quieted(snd') = Quieted(snd)
BY DEF Quieted, Frame

\* The queue after a tick: what the transmission left, and perhaps the current
\* settings behind it.  An empty queue on a live link means that none were due.
LEMMA QueueAfterTick ==
  ASSUME IInv, NEW lag \in 1..MaxLag, HandleEvents(lag),
         NEW q \in Seq(Entry), q = QueueSent(Least(sendAge + lag, SendSpace))
  PROVE  /\ Quieted(snd') = Quieted(snd)
         /\ \A i \in DOMAIN q : i \in DOMAIN queue' /\ queue'[i] = q[i]
         /\ \A i \in DOMAIN queue' \ DOMAIN q : Quieted(queue'[i].frame) = Quieted(snd)
         /\ q # <<>> => queue' # <<>>
         /\ conn /\ queue' = <<>> =>
              /\ periodAge + lag < Resend
              /\ periodAge' = periodAge + lag
<1> USE LinkConstants
<1> DEFINE page == Least(periodAge + lag, Resend)
<1>1. snd \in Frame /\ periodAge \in 0..Resend /\ lag \in Nat
  BY DEF IInv, TypeOK
<1>2. DOMAIN q = 1..Len(q) /\ Len(q) \in Nat
  OBVIOUS
<1>3. CASE ~Due(page)
  <2>1. queue' = q /\ periodAge' = page /\ snd' = snd
    BY <1>3 DEF HandleEvents, settings
  <2>2. periodAge + lag < Resend /\ page = periodAge + lag
    BY <1>1, <1>3 DEF Due, Least
  <2> QED
    BY <2>1, <2>2
<1>4. CASE Due(page)
  <2> DEFINE p == PoolSent(Least(sendAge + lag, SendSpace))
  <2>1. Send2MCU(q, p)
    BY <1>4 DEF HandleEvents
  <2> HIDE DEF p
  <2>2. Quieted(snd') = Quieted(snd)
    BY <1>1, <2>1, SendKeepsCurrent DEF Send2MCU
  <2>3. CASE ~Accepted(q, snd)
    <3>1. queue' = q
      BY <2>1, <2>3 DEF Send2MCU
    <3>2. conn => q # <<>>
      BY <2>3 DEF Accepted
    <3> QED
      BY <2>2, <3>1, <3>2
  <2>4. CASE Accepted(q, snd)
    <3>1. PICK b : queue' = Append(q, [buf |-> b, frame |-> snd])
      BY <2>1, <2>4 DEF Send2MCU
    <3> DEFINE e == [buf |-> b, frame |-> snd]
    <3>2. e.frame = snd
      OBVIOUS
    <3> HIDE DEF e
    <3>3. /\ DOMAIN queue' = 1..(Len(q) + 1) /\ Len(queue') = Len(q) + 1
          /\ \A i \in 1..Len(q) : queue'[i] = q[i]
          /\ queue'[Len(q) + 1] = e
      BY <3>1 DEF e
    <3>4. \A i \in DOMAIN q : i \in DOMAIN queue' /\ queue'[i] = q[i]
      BY <1>2, <3>3
    <3>5. \A i \in DOMAIN queue' \ DOMAIN q : i = Len(q) + 1
      BY <1>2, <3>3
    <3>6. queue' # <<>>
      BY <1>2, <3>3
    <3> QED
      BY <2>2, <3>2, <3>3, <3>4, <3>5, <3>6
  <2> QED
    BY <2>3, <2>4
<1> QED
  BY <1>3, <1>4

\* A tick that transmits nothing: the frames wait on, and the resend comes closer.
LEMMA StaleWait ==
  ASSUME IInv, StaleInv, NEW lag \in 1..MaxLag, HandleEvents(lag),
         ~MayTransmit(Least(sendAge + lag, SendSpace)),
         mcu' = mcu, quiet' \in Nat, quiet' <= quiet + lag
  PROVE  StaleInv'
<1> USE LinkConstants
<1> DEFINE sage == Least(sendAge + lag, SendSpace)

<1>1. /\ sendAge \in 0..SendSpace /\ periodAge \in 0..Resend /\ lag \in Nat
      /\ lag <= MaxLag /\ queue \in Seq(Entry) /\ quiet \in Nat
  BY DEF IInv, TypeOK, StaleInv
<1>2. sendAge' = sage /\ conn' = conn
  BY DEF HandleEvents, Transmit
<1>3. queue = QueueSent(sage)
  BY DEF QueueSent
<1>4. /\ Quieted(snd') = Quieted(snd)
      /\ \A i \in DOMAIN queue : i \in DOMAIN queue' /\ queue'[i] = queue[i]
      /\ \A i \in DOMAIN queue' \ DOMAIN queue : Quieted(queue'[i].frame) = Quieted(snd)
      /\ queue # <<>> => queue' # <<>>
      /\ conn /\ queue' = <<>> => periodAge + lag < Resend /\ periodAge' = periodAge + lag
  BY <1>1, <1>3, QueueAfterTick
<1>5. Drain(QueueCap - 1) \in Nat
  BY DrainStep
<1>6. queue # <<>> => SpaceAge' = SpaceAge + lag
  <2>1. queue # <<>> => sendAge + lag < SendSpace /\ sage = sendAge + lag
    BY <1>1 DEF MayTransmit, Least
  <2>2. queue # <<>> => Least(sage, SendSpace - 1) = Least(sendAge, SendSpace - 1) + lag
    BY <1>1, <2>1 DEF Least
  <2> QED
    BY <1>2, <2>2 DEF SpaceAge
<1>7. SpaceAge' \in Nat /\ SpaceAge \in Nat
  BY <1>1, <1>2 DEF SpaceAge, Least
<1> HIDE DEF sage
<1>8. StaleFramesLeave'
  <2> SUFFICES ASSUME NEW i \in DOMAIN queue', Behind(queue'[i], snd')
               PROVE  /\ i <= QueueCap - 1
                      /\ quiet' <= Drain(QueueCap - 1 - i) + SpaceAge'
    BY DEF StaleFramesLeave
  <2>1. i \in DOMAIN queue /\ Behind(queue[i], snd)
    BY <1>4 DEF Behind
  <2>2. i <= QueueCap - 1 /\ quiet <= Drain(QueueCap - 1 - i) + SpaceAge
    BY <2>1 DEF StaleInv, StaleFramesLeave
  <2>3. queue # <<>> /\ i \in Nat /\ i >= 1
    BY <1>1, <2>1
  <2>4. Drain(QueueCap - 1 - i) \in Nat
    <3>1. QueueCap - 1 - i \in Nat
      BY <2>2, <2>3
    <3> QED
      BY <3>1, DrainStep
  <2> QED
    BY <1>1, <1>6, <1>7, <2>2, <2>3, <2>4
<1>9. ASSUME conn', mcu' # Current', queue' # <<>>, UpToDate'
      PROVE  quiet' <= Drain(QueueCap - 1) + Resend + MaxLag - 1 + SpaceAge'
  <2>1. conn /\ mcu # Current
    BY <1>2, <1>4, <1>9 DEF Current
  <2>2. CASE queue # <<>>
    <3>1. UpToDate
      BY <1>4, <1>9 DEF UpToDate, Behind
    <3>2. quiet <= Drain(QueueCap - 1) + Resend + MaxLag - 1 + SpaceAge
      BY <2>1, <2>2, <3>1 DEF StaleInv
    <3> QED
      BY <1>1, <1>5, <1>6, <1>7, <2>2, <3>2, SMTT(30)
  <2>3. CASE queue = <<>>
    <3>1. quiet <= Drain(QueueCap - 1) + PeriodSpent
      BY <2>1, <2>3 DEF StaleInv
    <3>2. PeriodSpent \in Nat /\ PeriodSpent <= Resend - 1
      BY <1>1 DEF PeriodSpent, Least
    <3> QED
      BY <1>1, <1>5, <1>7, <3>1, <3>2, SMTT(30)
  <2> QED
    BY <2>2, <2>3
<1>10. ASSUME conn', mcu' # Current', queue' = <<>>
       PROVE  quiet' <= Drain(QueueCap - 1) + PeriodSpent'
  <2>1. conn /\ mcu # Current /\ queue = <<>>
    BY <1>2, <1>4, <1>10 DEF Current
  <2>2. quiet <= Drain(QueueCap - 1) + PeriodSpent
    BY <2>1 DEF StaleInv
  <2>3. periodAge + lag < Resend /\ periodAge' = periodAge + lag
    BY <1>4, <1>10, <2>1
  <2>4. PeriodSpent' = PeriodSpent + lag /\ PeriodSpent \in Nat
    BY <1>1, <2>3 DEF PeriodSpent, Least
  <2> QED
    BY <1>1, <1>5, <2>2, <2>4
<1> QED
  BY <1>8, <1>9, <1>10 DEF StaleInv

\* A tick whose frame arrives: the board is current, or one stale frame fewer waits.
LEMMA StaleLeaves ==
  ASSUME IInv, StaleInv, NEW lag \in 1..MaxLag, HandleEvents(lag),
         MayTransmit(Least(sendAge + lag, SendSpace)),
         mcu' = IF tx' = NoFrame THEN mcu ELSE Quieted(tx'),
         quiet' \in Nat, quiet' <= quiet + lag
  PROVE  StaleInv'
<1> USE LinkConstants
<1> DEFINE sage == Least(sendAge + lag, SendSpace)
           q == Tail(queue)
<1>1. /\ sendAge \in 0..SendSpace /\ periodAge \in 0..Resend /\ lag \in Nat
      /\ lag <= MaxLag /\ queue \in Seq(Entry) /\ queue # <<>> /\ quiet \in Nat
  BY DEF IInv, TypeOK, StaleInv, MayTransmit
<1>2. sendAge' = 0 /\ conn' = conn /\ tx' = OnWire(Head(queue).frame)
  BY DEF HandleEvents, Transmit
<1>3. q = QueueSent(sage)
  BY DEF QueueSent
<1>4. /\ q \in Seq(Entry) /\ Len(queue) \in Nat \ {0} /\ DOMAIN q = 1..(Len(queue) - 1)
      /\ \A i \in 1..(Len(queue) - 1) : q[i] = queue[i + 1]
      /\ Head(queue) = queue[1] /\ queue[1] \in Entry /\ DOMAIN queue = 1..Len(queue)
  BY <1>1, HeadTailProperties
<1> HIDE DEF q
<1>5. /\ Quieted(snd') = Quieted(snd)
      /\ \A i \in DOMAIN q : queue'[i] = q[i]
      /\ \A i \in DOMAIN queue' \ DOMAIN q : Quieted(queue'[i].frame) = Quieted(snd)
  BY <1>3, <1>4, QueueAfterTick
<1>6. SpaceAge \in Nat /\ SpaceAge <= SendSpace - 1 /\ SpaceAge' = 0
  BY <1>1, <1>2 DEF SpaceAge, Least
<1>7. ASSUME NEW i \in 1..Len(queue), Behind(queue[i], snd)
      PROVE  i <= QueueCap - 1 /\ quiet' <= Drain(QueueCap - i)
  <2>1. i <= QueueCap - 1 /\ quiet <= Drain(QueueCap - 1 - i) + SpaceAge
    BY <1>4, <1>7 DEF StaleInv, StaleFramesLeave
  <2>2. QueueCap - 1 - i \in Nat /\ QueueCap - i = (QueueCap - 1 - i) + 1
    BY <1>4, <2>1
  <2>3. /\ Drain(QueueCap - 1 - i) \in Nat
        /\ Drain(QueueCap - i) = Drain(QueueCap - 1 - i) + SendSpace + MaxLag - 1
    BY <2>2, DrainStep
  <2> QED
    BY <1>1, <1>6, <2>1, <2>3, SMTT(30)
<1>8. StaleFramesLeave'
  <2> SUFFICES ASSUME NEW i \in DOMAIN queue', Behind(queue'[i], snd')
               PROVE  /\ i <= QueueCap - 1
                      /\ quiet' <= Drain(QueueCap - 1 - i) + SpaceAge'
    BY DEF StaleFramesLeave
  <2>1. i \in DOMAIN q /\ Behind(q[i], snd)
    BY <1>5 DEF Behind
  <2>2. i + 1 \in 1..Len(queue) /\ Behind(queue[i + 1], snd) /\ i \in Nat
    BY <1>4, <2>1
  <2>3. i + 1 <= QueueCap - 1 /\ quiet' <= Drain(QueueCap - (i + 1))
    BY <1>7, <2>2
  <2>4. QueueCap - (i + 1) = QueueCap - 1 - i /\ QueueCap - 1 - i \in Nat
    BY <2>2, <2>3
  <2>5. quiet' <= Drain(QueueCap - 1 - i) /\ Drain(QueueCap - 1 - i) \in Nat
    BY <2>3, <2>4, DrainStep
  <2> QED
    BY <1>6, <2>2, <2>3, <2>5
<1>9. conn' /\ mcu' # Current' => quiet' <= Drain(QueueCap - 1)
  <2> SUFFICES ASSUME conn', mcu' # Current' PROVE quiet' <= Drain(QueueCap - 1)
    OBVIOUS
  <2>1. tx' = queue[1].frame
    BY <1>2, <1>4 DEF OnWire
  <2>2. tx' # NoFrame
    <3>1. queue[1].frame \in Frame
      BY <1>4 DEF Entry
    <3>2. DOMAIN tx' = Fields /\ DOMAIN NoFrame = {} /\ "D12" \in Fields
      BY <2>1, <3>1 DEF Frame, NoFrame, Fields
    <3> QED
      BY <3>2
  <2>3. Behind(queue[1], snd)
    BY <1>5, <2>1, <2>2 DEF Behind, Current
  <2>4. 1 \in 1..Len(queue)
    BY <1>4
  <2> QED
    BY <1>7, <2>3, <2>4
<1>10. Drain(QueueCap - 1) \in Nat /\ PeriodSpent' \in Nat
  <2>1. periodAge' \in 0..Resend
    BY TickPreserves DEF IInv, TypeOK
  <2>2. PeriodSpent' \in Nat
    BY <2>1 DEF PeriodSpent, Least
  <2> QED
    BY <2>2, DrainStep
<1> QED
  BY <1>1, <1>6, <1>8, <1>9, <1>10 DEF StaleInv

\* A setter makes every waiting frame stale, and leaves room for its own behind them.
LEMMA StaleAsked ==
  ASSUME IInv, StaleInv, WSetter PROVE StaleInv'
<1> USE LinkConstants
<1>1. \E change : Put(change)
  BY DEF WSetter, Setter, SetWaterAction, SetWaterTem, SetWaterYield, SetCooling, SetIceAction,
     SetHPCCReset, SetROReset, SetResetStatus, SetBeep, Touch
<1>2. Len(queue) < QueueCap /\ queue' = queue /\ sendAge' = sendAge /\ periodAge' = periodAge
  BY <1>1 DEF Put, buffers, ages
<1>3. quiet' = 0
  BY DEF WSetter
<1>4. SpaceAge' \in Nat /\ PeriodSpent' \in Nat /\ Drain(QueueCap - 1) \in Nat
  <2>1. sendAge \in 0..SendSpace /\ periodAge \in 0..Resend
    BY DEF IInv, TypeOK
  <2>2. SpaceAge' \in Nat
    BY <1>2, <2>1 DEF SpaceAge, Least
  <2>3. PeriodSpent' \in Nat
    BY <1>2, <2>1 DEF PeriodSpent, Least
  <2> QED
    BY <2>2, <2>3, DrainStep
<1>5. ASSUME NEW i \in DOMAIN queue PROVE i <= QueueCap - 1 /\ Drain(QueueCap - 1 - i) \in Nat
  <2>1. i \in 1..Len(queue) /\ Len(queue) \in Nat
    BY DEF IInv, TypeOK
  <2>2. i <= QueueCap - 1 /\ QueueCap - 1 - i \in Nat
    BY <1>2, <2>1
  <2> QED
    BY <2>2, DrainStep
<1>6. StaleFramesLeave'
  BY <1>2, <1>3, <1>4, <1>5 DEF StaleFramesLeave
<1> QED
  BY <1>3, <1>4, <1>6 DEF StaleInv

\* A link that goes up or down leaves the queue alone and starts the wait again.
LEMMA StaleReset ==
  ASSUME IInv, IInv', StaleInv, WLinkChange PROVE StaleInv'
<1> USE LinkConstants
<1>1. /\ queue' = queue /\ snd' = snd /\ sendAge' = sendAge
      /\ periodAge' = periodAge /\ quiet' = 0
  BY DEF WLinkChange, LinkUp, LinkDown, settings, buffers, ages
<1>2. SpaceAge' \in Nat /\ PeriodSpent' \in Nat
  BY <1>1 DEF IInv, TypeOK, SpaceAge, PeriodSpent, Least
<1>3. ASSUME NEW i \in DOMAIN queue, Behind(queue[i], snd)
      PROVE  i <= QueueCap - 1 /\ Drain(QueueCap - 1 - i) \in Nat
  <2>1. i <= QueueCap - 1 /\ i \in Nat
    BY <1>3 DEF StaleInv, StaleFramesLeave, IInv, TypeOK
  <2> QED
    BY <2>1, DrainStep
<1>4. StaleFramesLeave'
  BY <1>1, <1>2, <1>3 DEF StaleFramesLeave
<1>5. Drain(QueueCap - 1) \in Nat
  BY DrainStep
<1> QED
  BY <1>1, <1>2, <1>4, <1>5 DEF StaleInv

\* A frame lost on the wire starts the wait again; the stale ones have moved up.
LEMMA StaleLost ==
  ASSUME IInv, StaleInv, NEW lag \in 1..MaxLag, Lost(lag) PROVE StaleInv'
<1> USE LinkConstants
<1> DEFINE sage == Least(sendAge + lag, SendSpace)
           q == Tail(queue)
<1>1. HandleEvents(lag) /\ quiet' = 0
  BY DEF Lost
<1>2. MayTransmit(sage)
  BY DEF Lost, HandleEvents, Transmit
<1>3. IInv'
  BY <1>1, TickPreserves
<1>4. SpaceAge' \in Nat /\ PeriodSpent' \in Nat /\ Drain(QueueCap - 1) \in Nat
  <2>1. SpaceAge' \in Nat /\ PeriodSpent' \in Nat
    BY <1>3 DEF IInv, TypeOK, SpaceAge, PeriodSpent, Least
  <2> QED
    BY <2>1, DrainStep
<1>5. queue \in Seq(Entry) /\ queue # <<>>
  BY <1>2 DEF IInv, TypeOK, MayTransmit
<1>6. q = QueueSent(sage)
  BY <1>2 DEF QueueSent
<1>7. /\ q \in Seq(Entry) /\ Len(queue) \in Nat \ {0} /\ DOMAIN q = 1..(Len(queue) - 1)
      /\ \A i \in 1..(Len(queue) - 1) : q[i] = queue[i + 1]
      /\ DOMAIN queue = 1..Len(queue)
  BY <1>5, HeadTailProperties
<1> HIDE DEF q
<1>8. /\ Quieted(snd') = Quieted(snd)
      /\ \A i \in DOMAIN q : queue'[i] = q[i]
      /\ \A i \in DOMAIN queue' \ DOMAIN q : Quieted(queue'[i].frame) = Quieted(snd)
  BY <1>1, <1>6, <1>7, QueueAfterTick
<1>9. StaleFramesLeave'
  <2> SUFFICES ASSUME NEW i \in DOMAIN queue', Behind(queue'[i], snd')
               PROVE  /\ i <= QueueCap - 1
                      /\ quiet' <= Drain(QueueCap - 1 - i) + SpaceAge'
    BY DEF StaleFramesLeave
  <2>1. i \in DOMAIN q /\ Behind(q[i], snd)
    BY <1>8 DEF Behind
  <2>2. i + 1 \in 1..Len(queue) /\ Behind(queue[i + 1], snd) /\ i \in Nat
    BY <1>7, <2>1
  <2>3. i + 1 <= QueueCap - 1
    BY <1>7, <2>2 DEF StaleInv, StaleFramesLeave
  <2>4. Drain(QueueCap - 1 - i) \in Nat
    <3>1. QueueCap - 1 - i \in Nat
      BY <2>2, <2>3
    <3> QED
      BY <3>1, DrainStep
  <2> QED
    BY <1>1, <1>4, <2>2, <2>3, <2>4
<1> QED
  BY <1>1, <1>4, <1>9 DEF StaleInv

\* A packet with news lets the next frame go at once: the wait does not grow.
LEMMA StaleNews ==
  ASSUME IInv, StaleInv, WNewPacket PROVE StaleInv'
<1> USE LinkConstants
<1>1. /\ queue' = queue /\ snd' = snd /\ sendAge' = SendSpace /\ conn' = conn
      /\ periodAge' = periodAge /\ quiet' = quiet /\ mcu' = mcu
  BY DEF WNewPacket, NewPacket, settings, buffers, watched
<1>2. SpaceAge \in Nat /\ SpaceAge' \in Nat /\ SpaceAge <= SpaceAge'
  BY <1>1 DEF IInv, TypeOK, SpaceAge, Least
<1>3. PeriodSpent' = PeriodSpent /\ Current' = Current
  BY <1>1 DEF PeriodSpent, Current
<1>4. UpToDate' => UpToDate
  BY <1>1 DEF UpToDate
<1>5. StaleFramesLeave'
  <2> SUFFICES ASSUME NEW i \in DOMAIN queue, Behind(queue[i], snd)
               PROVE  i <= QueueCap - 1 /\ quiet <= Drain(QueueCap - 1 - i) + SpaceAge'
    BY <1>1 DEF StaleFramesLeave
  <2>1. i <= QueueCap - 1 /\ quiet <= Drain(QueueCap - 1 - i) + SpaceAge /\ i \in Nat
    BY DEF StaleInv, StaleFramesLeave, IInv, TypeOK
  <2>2. Drain(QueueCap - 1 - i) \in Nat /\ quiet \in Nat
    BY <2>1, DrainStep, SMTT(30) DEF StaleInv
  <2> QED
    BY <1>2, <2>1, <2>2
<1>6. Drain(QueueCap - 1) \in Nat /\ quiet \in Nat
  <2>1. Drain(QueueCap - 1) \in Nat
    BY DrainStep
  <2> QED
    BY <2>1 DEF StaleInv
<1>7. ASSUME conn', mcu' # Current', queue' # <<>>, UpToDate'
      PROVE  quiet' <= Drain(QueueCap - 1) + Resend + MaxLag - 1 + SpaceAge'
  <2>1. quiet <= Drain(QueueCap - 1) + Resend + MaxLag - 1 + SpaceAge
    BY <1>1, <1>3, <1>4, <1>7 DEF StaleInv
  <2> QED
    BY <1>1, <1>2, <1>6, <2>1
<1>8. ASSUME conn', mcu' # Current', queue' = <<>>
      PROVE  quiet' <= Drain(QueueCap - 1) + PeriodSpent'
  BY <1>1, <1>3, <1>8 DEF StaleInv
<1> QED
  BY <1>1, <1>5, <1>6, <1>7, <1>8 DEF StaleInv

\* A link whose board is behind has not been quiet for as long as StaleBound.
LEMMA StaleEnds == IInv /\ StaleInv => StaleBounded
<1> USE LinkConstants
<1> SUFFICES ASSUME IInv, StaleInv, conn, mcu # Current, quiet >= StaleBound PROVE FALSE
  BY DEF StaleBounded
<1>1. SpaceAge \in Nat /\ SpaceAge <= SendSpace - 1 /\ PeriodSpent \in Nat /\ PeriodSpent <= Resend - 1
  BY DEF IInv, TypeOK, SpaceAge, PeriodSpent, Least
<1>2. /\ Drain(QueueCap) = Drain(QueueCap - 1) + SendSpace + MaxLag - 1
      /\ Drain(QueueCap - 1) \in Nat
  BY DrainStep
<1>3. StaleBound = Drain(QueueCap) + Resend
  BY DEF StaleBound, Drain
<1>4. quiet \in Nat
  BY DEF StaleInv
<1>5. CASE queue = <<>>
  <2>1. quiet <= Drain(QueueCap - 1) + PeriodSpent
    BY <1>5 DEF StaleInv
  <2> QED
    BY <1>1, <1>2, <1>3, <1>4, <2>1
<1>6. CASE queue # <<>> /\ UpToDate
  <2>1. quiet <= Drain(QueueCap - 1) + Resend + MaxLag - 1 + SpaceAge
    BY <1>6 DEF StaleInv
  <2> QED
    BY <1>1, <1>2, <1>3, <1>4, <2>1
<1>7. CASE ~UpToDate
  <2>1. PICK i \in DOMAIN queue : Behind(queue[i], snd)
    BY <1>7 DEF UpToDate
  <2>2. i <= QueueCap - 1 /\ quiet <= Drain(QueueCap - 1 - i) + SpaceAge
    BY <2>1 DEF StaleInv, StaleFramesLeave
  <2>3. i \in Nat /\ i >= 1
    BY DEF IInv, TypeOK
  <2>4. Drain(QueueCap - 1 - i) <= Drain(QueueCap - 1) /\ Drain(QueueCap - 1 - i) \in Nat
    <3> DEFINE c == SendSpace + MaxLag - 1
               k == QueueCap - 1 - i
    <3>1. c \in Nat /\ k \in Nat
      BY <2>2, <2>3
    <3> HIDE DEF c, k
    <3>2. i * c \in Nat /\ k * c \in Nat /\ (k + i) * c = k * c + i * c
      BY <2>3, <3>1
    <3>3. k + i = QueueCap - 1
      BY <2>3 DEF k
    <3>4. Drain(k) = k * c /\ Drain(QueueCap - 1) = (k + i) * c
      BY <3>3 DEF Drain, c
    <3>5. Drain(k) <= Drain(QueueCap - 1) /\ Drain(k) \in Nat
      BY <3>2, <3>4
    <3> QED
      BY <3>5 DEF k
  <2> QED
    BY <1>1, <1>2, <1>3, <1>4, <2>2, <2>4
<1> QED
  BY <1>5, <1>6, <1>7

(***************************************************************************)
(* On a link that is up, whatever was dropped by send() or lost before,    *)
(* the board has the current settings once setters, link and wire have     *)
(* been quiet for StaleBound ticks.                                        *)
(***************************************************************************)
THEOREM BoardSoonCurrent == WSpec => []StaleBounded
<1> USE LinkConstants
<1>1. WInit => StaleInv
  <2> SUFFICES ASSUME WInit PROVE StaleInv
    OBVIOUS
  <2>1. quiet = 0 /\ queue = <<>> /\ periodAge = Resend
    BY DEF WInit, Init
  <2>2. PeriodSpent \in Nat /\ Drain(QueueCap - 1) \in Nat
    <3>1. PeriodSpent \in Nat
      BY <2>1 DEF PeriodSpent, Least
    <3> QED
      BY <3>1, DrainStep
  <2> QED
    BY <2>1, <2>2 DEF StaleInv, StaleFramesLeave
<1>2. IInv /\ IInv' /\ StaleInv /\ [WNext]_allVars => StaleInv'
  <2> SUFFICES ASSUME IInv, IInv', StaleInv, [WNext]_allVars PROVE StaleInv'
    OBVIOUS
  <2>1. CASE WSetter
    BY <2>1, StaleAsked
  <2>2. CASE WLinkChange
    BY <2>2, StaleReset
  <2>3. CASE WNewPacket
    BY <2>3, StaleNews
  <2>4. ASSUME NEW lag \in 1..MaxLag, Received(lag) PROVE StaleInv'
    <3>1. HandleEvents(lag) /\ mcu' = (IF tx' = NoFrame THEN mcu ELSE Quieted(tx'))
      BY <2>4 DEF Received
    <3>2. quiet' \in Nat /\ quiet' <= quiet + lag
      <4> DEFINE c == SendSpace + MaxLag - 1
      <4>1. c \in Nat
        OBVIOUS
      <4> HIDE DEF c
      <4>2. QueueCap * c \in Nat
        BY <4>1
      <4>3. StaleBound \in Nat
        BY <4>2 DEF StaleBound, c
      <4>4. quiet \in Nat /\ quiet' = Least(quiet + lag, StaleBound)
        BY <2>4 DEF Received, StaleInv
      <4> QED
        BY <4>3, <4>4 DEF Least
    <3>3. CASE MayTransmit(Least(sendAge + lag, SendSpace))
      BY <3>1, <3>2, <3>3, StaleLeaves
    <3>4. CASE ~MayTransmit(Least(sendAge + lag, SendSpace))
      <4>1. mcu' = mcu
        BY <3>1, <3>4 DEF HandleEvents, Transmit
      <4> QED
        BY <3>1, <3>2, <3>4, <4>1, StaleWait
    <3> QED
      BY <3>3, <3>4
  <2>5. CASE WTick
    BY <2>4, <2>5, StaleLost DEF WTick
  <2>6. CASE UNCHANGED allVars
    BY <2>6 DEF allVars, vars, watched, StaleInv, StaleFramesLeave, UpToDate, SpaceAge,
       PeriodSpent, Current
  <2> QED
    BY <2>1, <2>2, <2>3, <2>5, <2>6 DEF WNext
<1>3. IInv /\ StaleInv => StaleBounded
  BY StaleEnds
<1> QED
  BY <1>1, <1>2, <1>3, Invariance, WatchedSender, PTL DEF WSpec
=============================================================================
