----------------------------- MODULE FrameParser -----------------------------
(***************************************************************************)
(* From bytes to frames.  UartClient::init opens the serial port and sets  *)
(* it up; from then on UartClient::onUartData feeds what a read returned   *)
(* to add(), which looks for the head bytes in a buffer of BUF_LEN bytes;  *)
(* a buffer is complete once it starts with a head and holds as many bytes *)
(* as the frame announces, and is emptied after the check, trailing bytes  *)
(* included.  The frames that pass the check are the input of              *)
(* RecvDispatch.                                                           *)
(*                                                                         *)
(* SDHWPacketBuffer parses frames of one of two types.  Those of the       *)
(* control board (MCU2UI) are of one length, which is their second head    *)
(* byte, and BUF_LEN is two of them.  Those of a Tuya module (TUYA2UI)     *)
(* have a third head byte and announce how many bytes of data they carry.  *)
(* Bytes are numbers below Modulus, small enough to enumerate.             *)
(***************************************************************************)
EXTENDS Integers, SequencesExt

CONSTANTS
    Types,      \* the BufferTypes of the links, some of "BT_MCU" and "BT_TUYA_MCU"
    LeftBehind, \* the settings the last user of the port may have left it with
    Modulus,    \* 256 in the code: a byte wraps there
    McuHead, McuBufLen,     \* MCU2UI::HEAD_BYTE and BUF_LEN
    TuyaHead, TuyaBufLen,   \* TUYA2UI::HEAD_BYTE and BUF_LEN
    McuBodies,  \* what the board puts between head and check code
    TuyaBodies, \* the same for the module: command, length of the data, data
    Noise,      \* the bytes that disturb the line
    ReadLen,    \* the size of the receive buffer, LEN_4K
    WireCap,    \* bound: the bytes waiting to be read
    DirtyCap,   \* bound: those already waiting when the line loses or adds some
    EarlyCap    \* bound: the same before the port is listened to

FrameLen == McuHead[2]
Byte == 0..(Modulus - 1)

(* The settings of the port: the flags UART0_Set clears, and those that it *)
(* leaves as they were although the driver alters bytes because of them.   *)
Cleared == {"ICANON", "ISIG", "ICRNL", "IXON", "ISTRIP", "BRKINT", "INPCK"}
LeftAlone == {"IGNCR", "INLCR", "PARMRK", "IUCLC", "IEXTEN"}
Lines == [speed : Nat, flow : {"none", "hardware"}, databits : 5..8,
          parity : {"none", "odd", "even"}, stopbits : 1..2, flags : SUBSET (Cleared \cup LeftAlone)]

ASSUME ParserConstants ==
    /\ Types \subseteq {"BT_MCU", "BT_TUYA_MCU"}
    /\ LeftBehind \subseteq Lines
    /\ Modulus \in Nat \ {0}
    /\ McuHead \in [1..2 -> Byte] /\ McuHead[1] # McuHead[2]
    /\ TuyaHead \in [1..3 -> Byte] /\ TuyaHead[1] # TuyaHead[2]
    /\ FrameLen > 3 /\ McuBufLen = 2 * FrameLen
    /\ TuyaBufLen \in Nat /\ TuyaBufLen >= 7
    /\ McuBodies \subseteq [1..(FrameLen - 3) -> Byte]
    /\ \A t \in TuyaBodies :
         /\ t \in Seq(Byte) /\ Len(t) >= 3
         /\ Len(t) = 3 + t[2] * Modulus + t[3] /\ Len(t) + 4 <= TuyaBufLen
    /\ Noise \subseteq Byte
    /\ ReadLen \in Nat \ {0} /\ WireCap \in Nat /\ EarlyCap \in 0..WireCap /\ DirtyCap \in Nat

VARIABLES
    type,       \* UartClient::mBufType
    port,       \* how far UartClient::init has come
    line,       \* the settings of the port, as the driver keeps them
    wire,       \* the bytes in the driver's buffer
    garbled,    \* whether one of them was received with settings that may alter it
    curr,       \* UartClient::mCurrRecv: the first len bytes of buf
    good        \* the buffers this step found to be good frames, in order

serial == <<port, line, wire, garbled>>
parserVars == <<type, serial, curr, good>>

HeadBytes == IF type = "BT_MCU" THEN McuHead ELSE TuyaHead
BufLen == IF type = "BT_MCU" THEN McuBufLen ELSE TuyaBufLen

----------------------------------------------------------------------------
(* UART0_Set. *)

\* The speeds it knows; it leaves the speed alone if asked for another.
Speeds == {115200, 19200, 9600, 4800, 2400, 1200, 300}

\* What CConnMgr::init asks for.
Asked == [speed |-> 9600, flow |-> 0, databits |-> 8, parity |-> "N", stopbits |-> 1]

\* A slip: the parity of the last user is left enabled.
SetUpKept(old, req) ==
    [old EXCEPT !.speed = req.speed, !.flow = "none", !.databits = req.databits,
                !.stopbits = req.stopbits, !.flags = @ \ Cleared]

\* Asked for hardware or for no flow control.
SetUp(old, req) ==
    [speed |-> IF req.speed \in Speeds THEN req.speed ELSE old.speed,
     flow |-> IF req.flow = 0 THEN "none" ELSE "hardware",
     databits |-> req.databits, stopbits |-> req.stopbits,
     parity |-> CASE req.parity = "O" -> "odd" [] req.parity = "E" -> "even" [] OTHER -> "none",
     flags |-> (old.flags \ Cleared)
               \cup (IF req.parity \in {"O", "E"} THEN {"INPCK"} ELSE {})]

\* How the board sends.
BoardLine == [speed |-> 9600, flow |-> "none", databits |-> 8, parity |-> "none", stopbits |-> 1]

\* The driver drops, replaces, doubles or acts on some bytes of its input.  It
\* folds letters (IUCLC) where IEXTEN is set as well, as it is by default.
Alters(flags) ==
    \/ flags \cap {"ICANON", "ISIG", "ICRNL", "IXON", "ISTRIP", "IGNCR", "INLCR", "PARMRK"} # {}
    \/ {"IUCLC", "IEXTEN"} \subseteq flags

ReceivesAsSent(l) ==
    /\ \A setting \in DOMAIN BoardLine : l[setting] = BoardLine[setting]
    /\ ~Alters(l.flags)

----------------------------------------------------------------------------
(* The parser. *)

\* A slip: the check code is computed in an int and stored as it is.
SumWide(b) == FoldLeft(LAMBDA s, x : s + x, 0, b)

\* The sum of the bytes, in a uchar.
Sum(b) ==
    LET sum[i \in 0..Len(b)] == IF i = 0 THEN 0 ELSE (sum[i - 1] + b[i]) % Modulus
    IN  sum[Len(b)]

\* The bytes of the frame at the start of the buffer.  Before its length has
\* arrived, none is shorter than 7.
Declared(b) ==
    IF type = "BT_MCU" THEN FrameLen
    ELSE IF Len(b) < 6 THEN 7 ELSE b[5] * Modulus + b[6] + 7

\* MCU2UI::check, TUYA2UI::check: the last byte is the sum of the others.
Check(b) == b[Declared(b)] = Sum(SubSeq(b, 1, Declared(b) - 1))

\* A slip: the buffer must hold a byte more than the frame.
CompleteLater(b) == Len(b) > Declared(b) /\ IsPrefix(HeadBytes, b)

\* MCU2UI::complete, TUYA2UI::complete.
Complete(b) == Len(b) >= Declared(b) /\ IsPrefix(HeadBytes, b)

Heads(b) ==
    { i \in 1..(Len(b) - Len(HeadBytes) + 1) : SubSeq(b, i, i + Len(HeadBytes) - 1) = HeadBytes }

\* How many bytes at the end may be the beginning of a head.
HeadBegun(b) ==
    Max({ k \in 0..(Len(HeadBytes) - 1) : IsSuffix(SubSeq(HeadBytes, 1, k), b) })

\* Slips: mDlen stays when no head is found, or when the head is moved down.
FromHeadKept(b) ==
    IF Heads(b) # {} THEN SubSeq(b, Min(Heads(b)), Len(b)) ELSE b

FromHeadUncut(b) ==
    IF Heads(b) # {}
    THEN LET j == Min(Heads(b)) IN SubSeq(b, j, Len(b)) \o SubSeq(b, Len(b) - j + 2, Len(b))
    ELSE SubSeq(HeadBytes, 1, HeadBegun(b))

\* The part of the buffer that add keeps: from the first head on, else what may
\* be the beginning of one at the very end, else nothing.
FromHead(b) ==
    IF Heads(b) # {} THEN SubSeq(b, Min(Heads(b)), Len(b))
    ELSE SubSeq(HeadBytes, 1, HeadBegun(b))

(* MCU2UI::add, TUYA2UI::add: fill the buffer, look for a head, until the  *)
(* input is used up or the buffer is full.  The head is looked for until   *)
(* it is found.  Each turn of the loop uses up some of the input, so there *)
(* are no more turns than bytes.                                           *)
Fill(s) ==
    IF Len(s.buf) >= BufLen \/ s.rest = <<>> THEN s
    ELSE LET n == Min({BufLen - Len(s.buf), Len(s.rest)})
             filled == s.buf \o SubSeq(s.rest, 1, n)
             search == ~s.found /\ Len(filled) > Len(HeadBytes)
         IN  [buf |-> IF search THEN FromHead(filled) ELSE filled,
              rest |-> SubSeq(s.rest, n + 1, Len(s.rest)),
              found |-> IF search THEN Heads(filled) # {} ELSE s.found]

Add(buf, in) ==
    LET turn[k \in 0..Len(in)] ==
            IF k = 0 THEN [buf |-> buf, rest |-> in, found |-> FALSE] ELSE Fill(turn[k - 1])
    IN  turn[Len(in)]

\* UartClient::onUartData, a turn of its loop at a time; an incomplete buffer
\* ends it, whatever is left.
Parse(s) ==
    IF s.rest = <<>> THEN s
    ELSE LET a == Add(s.buf, s.rest)
         IN  IF ~Complete(a.buf) THEN [s EXCEPT !.buf = a.buf, !.rest = <<>>]
             ELSE [buf |-> <<>>, rest |-> a.rest,
                   frames |-> IF Check(a.buf) THEN Append(s.frames, a.buf) ELSE s.frames]

OnUartData(buf, in) ==
    LET turn[k \in 0..Len(in)] ==
            IF k = 0 THEN [buf |-> buf, rest |-> in, frames |-> <<>>] ELSE Parse(turn[k - 1])
    IN  turn[Len(in)]

----------------------------------------------------------------------------
Frames(h, bodies) == { Append(h \o b, Sum(h \o b)) : b \in bodies }
GoodFrames ==
    IF type = "BT_MCU" THEN Frames(McuHead, McuBodies) ELSE Frames(TuyaHead, TuyaBodies)

ParserTypeOK ==
    /\ type \in Types
    /\ port \in {"closed", "open", "flushed", "set", "deaf", "ready", "failed"}
    /\ line \in Lines
    /\ wire \in Seq(Byte) /\ Len(wire) <= WireCap
    /\ garbled \in BOOLEAN
    /\ curr \in Seq(Byte)
    /\ good \in Seq(Seq(Byte))

\* The port is as whoever used it last has left it.
ParserInit ==
    /\ type \in Types
    /\ port = "closed"
    /\ line \in LeftBehind
    /\ wire = <<>> /\ garbled = FALSE
    /\ curr = <<>> /\ good = <<>>

----------------------------------------------------------------------------
(* UartClient::init.  Where it fails it returns, and nobody calls it again.*)

InitStep == good' = <<>> /\ UNCHANGED <<type, curr>>

\* UART0_Open, and tcgetattr in UART0_Set.
Open ==
    /\ port = "closed"
    /\ port' \in {"open", "failed"}
    /\ UNCHANGED <<line, wire, garbled>>
    /\ InitStep

\* tcflush, then tcsetattr; bytes may arrive in between.
Flush ==
    /\ port = "open"
    /\ port' = "flushed" /\ wire' = <<>> /\ garbled' = FALSE
    /\ UNCHANGED line
    /\ InitStep

Configure ==
    /\ port = "flushed"
    /\ \/ /\ port' = "set" /\ line' = SetUp(line, Asked)
          /\ UNCHANGED <<wire, garbled>>
       \/ /\ port' = "failed" /\ wire' = <<>> /\ garbled' = FALSE
          /\ UNCHANGED line
    /\ InitStep

\* A slip: what has been received so far is kept.
DrainNothing == wire' = wire /\ garbled' = garbled

\* init reads until a read comes back with less than it asked for.
DrainInput == wire' = <<>> /\ garbled' = FALSE

Drain ==
    /\ port = "set"
    /\ port' = "deaf"
    /\ DrainInput
    /\ UNCHANGED line
    /\ InitStep

\* readData reads nothing before mLastRecvTime, which the constructor sets five
\* seconds ahead and the first frame sent sets to the present.
Listen ==
    /\ port = "deaf"
    /\ port' = "ready"
    /\ UNCHANGED <<line, wire, garbled>>
    /\ InitStep

----------------------------------------------------------------------------
\* The board writes a frame, the line delivers the beginning or the end of one
\* (or both, and the bytes between them are lost), or it adds a byte.  A port
\* that is not open receives nothing.
IsOpen == port \notin {"closed", "failed"}

Arrive(bytes) ==
    /\ Len(wire) + Len(bytes) <= IF port = "ready" THEN WireCap ELSE EarlyCap
    /\ wire' = IF IsOpen THEN wire \o bytes ELSE wire
    /\ garbled' = (garbled \/ (IsOpen /\ ~ReceivesAsSent(line)))
    /\ good' = <<>>
    /\ UNCHANGED <<type, port, line, curr>>

BoardSends == \E f \in GoodFrames : Arrive(f)

LineLoss ==
    /\ Len(wire) <= DirtyCap
    /\ \E f \in GoodFrames : \E k \in 1..(Len(f) - 1) :
        Arrive(SubSeq(f, 1, k)) \/ Arrive(SubSeq(f, k + 1, Len(f)))

LineNoise == Len(wire) <= DirtyCap /\ \E b \in Noise : Arrive(<<b>>)

\* Client::handleEvent reads what has arrived, any part of what the board
\* wrote, and parses it.
Read(n) ==
    LET got == OnUartData(curr, SubSeq(wire, 1, n))
    IN  /\ port = "ready"
        /\ wire' = SubSeq(wire, n + 1, Len(wire))
        /\ curr' = got.buf
        /\ good' = got.frames
        /\ UNCHANGED <<type, port, line, garbled>>

Connect == Open \/ Flush \/ Configure \/ Drain \/ Listen

ParserNext ==
    \/ Connect
    \/ BoardSends
    \/ LineLoss
    \/ LineNoise
    \/ \E n \in 1..Min({ReadLen, Len(wire)}) : Read(n)

ParserSpec == ParserInit /\ [][ParserNext]_parserVars

----------------------------------------------------------------------------
(***************************************************************************)
(* Only what the board sent is parsed: whatever the port's last user left  *)
(* it set to, and however the bytes that keep arriving fall between the    *)
(* steps of init, no byte received with settings that alter it is there to *)
(* be read once the port is listened to.  UART0_Set does not make the port *)
(* raw, so there are exceptions: a port left with IGNCR, INLCR or PARMRK   *)
(* goes on dropping, replacing or doubling bytes of the frames, and one    *)
(* left with both IUCLC and IEXTEN folds letters.                          *)
(***************************************************************************)
KeepsAltering(flags) ==
    flags \cap {"IGNCR", "INLCR", "PARMRK"} # {} \/ {"IUCLC", "IEXTEN"} \subseteq flags

ReadAsSent == port = "ready" /\ garbled => KeepsAltering(line.flags)

(***************************************************************************)
(* The parser never wedges.  A full buffer without a complete frame would  *)
(* make add() take no byte ever again, and the receiver would be deaf for  *)
(* good.  Between reads the buffer holds less than a frame: the beginning  *)
(* of one, or bytes too few to be searched.  With the control board it is  *)
(* never full; with a Tuya module it is once a frame announces more data   *)
(* than the buffer takes, which nothing refuses.                           *)
(***************************************************************************)
NeverWedged ==
    /\ Len(curr) < Declared(curr)
    /\ Len(curr) > Len(HeadBytes) => IsPrefix(HeadBytes, curr)
    /\ Len(curr) = BufLen => type = "BT_TUYA_MCU" /\ Declared(curr) > BufLen

(***************************************************************************)
(* Resynchronisation: a good frame that is read alone into an empty buffer *)
(* is recognised and leaves nothing behind; of two control board frames    *)
(* read at once the first is, the second goes with the emptied buffer and  *)
(* nothing else is lost.  On the control board's line a read of exactly    *)
(* one good frame leaves an empty buffer whatever the line did before, so  *)
(* that at most that frame is lost.                                        *)
(***************************************************************************)
ReadChunk == SubSeq(wire, 1, Len(wire) - Len(wire'))
IsRead == port = "ready" /\ Len(wire') < Len(wire)
TwoFrames == { f \o g : f, g \in GoodFrames }

Resynchronises ==
    [][ IsRead =>
        /\ curr = <<>> /\ ReadChunk \in GoodFrames => curr' = <<>> /\ good' = <<ReadChunk>>
        /\ type = "BT_MCU" =>
             /\ ReadChunk \in GoodFrames => curr' = <<>>
             /\ curr = <<>> /\ ReadChunk \in TwoFrames
                => /\ curr' = <<>> /\ Len(good') = 1
                   /\ IsPrefix(SubSeq(ReadChunk, 1, FrameLen), good'[1]) ]_parserVars

(***************************************************************************)
(* Nothing is made up: between reads the buffer is the tail of the bytes   *)
(* read so far, and every good frame found is made of consecutive bytes of *)
(* the stream, so moving the buffer down to its head never mixes old bytes *)
(* with new ones.  A Tuya buffer that is full has stopped following the    *)
(* stream.                                                                 *)
(***************************************************************************)
IsWithin(s, t) ==
    \E i \in 0..(Len(t) - Len(s)) : SubSeq(t, i + 1, i + Len(s)) = s

NothingInvented ==
    [][ IsRead => LET stream == curr \o ReadChunk
                  IN  /\ IsSuffix(curr', stream) \/ Len(curr') = BufLen
                      /\ \A i \in DOMAIN good' : IsWithin(good'[i], stream) ]_parserVars
=============================================================================
