-------------------------- MODULE Receiving_proofs --------------------------
(***************************************************************************)
(* Proofs about what arrives from the control board: the frame parser, and *)
(* the watch on what onCommand sees.                                       *)
(*                                                                         *)
(* The parser, for any heads, frames and lengths: only what was received   *)
(* as the board sends is parsed, what is in the buffer is less than a      *)
(* frame, nothing is made up of the bytes read, and the parser is in step  *)
(* again after a frame.  add and onUartData are loops, so most of what is  *)
(* said of them is about any number of turns: first that such a loop has a *)
(* state after each turn at all, then what a turn of each loop keeps true, *)
(* then when a turn recognises a frame, and then the parser's steps.       *)
(*                                                                         *)
(* The watch: three clocks run there, the age of the last frame onCommand  *)
(* saw, the age of the last repetition that was let through, and the       *)
(* silence on the wire; the invariants are how they bound one another.     *)
(***************************************************************************)
EXTENDS FrameParser, RecvWatch, SequenceTheorems, WellFoundedInduction, TLAPS

(* Loops.  A loop of the code is a function from the number of its turns   *)
(* to its state; the library's theorems about recursive functions take an  *)
(* operator, these take the step as a function on a set of states.         *)

\* Every non-empty set of natural numbers has a least element.
LEMMA LeastOf ==
  ASSUME NEW T \in SUBSET Nat, T # {}
  PROVE  \E m \in T : \A k \in T : m <= k
<1>1. PICK m \in T : \A k \in T : ~ (<<k, m>> \in OpToRel(<, Nat))
  BY NatLessThanWellFounded, WFMin
<1>2. ASSUME NEW k \in T PROVE m <= k
  <2>1. ~ (<<k, m>> \in OpToRel(<, Nat))
    BY <1>1
  <2>2. k \in Nat /\ m \in Nat
    OBVIOUS
  <2>3. ~ (k < m)
    BY <2>1, <2>2 DEF OpToRel
  <2>4. QED
    BY <2>2, <2>3
<1>3. QED
  BY <1>2

\* What holds at the start, and holds after a turn if it did before, holds
\* after any number of turns.
LEMMA LoopStays ==
  ASSUME NEW n \in Nat, NEW r, NEW T, r[0] \in T[0],
         \A k \in 1..n : r[k - 1] \in T[k - 1] => r[k] \in T[k]
  PROVE  \A k \in 0..n : r[k] \in T[k]
<1> DEFINE Bad == { k \in 0..n : r[k] \notin T[k] }
<1> SUFFICES ASSUME Bad # {} PROVE FALSE
  OBVIOUS
<1>1. PICK m \in Bad : \A k \in Bad : m <= k
  <2>1. Bad \in SUBSET Nat
    OBVIOUS
  <2> HIDE DEF Bad
  <2>2. QED
    BY <2>1, LeastOf
<1>2. m \in 1..n
  OBVIOUS
<1>3. m - 1 \in 0..n /\ m - 1 \notin Bad
  BY <1>1, <1>2
<1>4. QED
  BY <1>2, <1>3

\* The function exists, whatever a turn does to a state.
Turning(T, start, next, n) ==
    { f \in [0..n -> T] : f[0] = start /\ \A k \in 1..n : f[k] = next[<<k, f[k - 1]>>] }

LEMMA LoopExists ==
  ASSUME NEW T, NEW start \in T, NEW next \in [Nat \X T -> T], NEW n \in Nat
  PROVE  Turning(T, start, next, n) # {}
<1> DEFINE Loop(m, f) == f[0] = start /\ \A k \in 1..m : f[k] = next[<<k, f[k - 1]>>]
           Bad == { m \in Nat : ~ \E f \in [0..m -> T] : Loop(m, f) }
<1> SUFFICES ASSUME Bad # {} PROVE FALSE
  <2>1. \E f \in [0..n -> T] : Loop(n, f)
    OBVIOUS
  <2> QED
    BY <2>1 DEF Turning
<1>1. PICK m \in Bad : \A k \in Bad : m <= k
  <2>1. Bad \in SUBSET Nat
    OBVIOUS
  <2> HIDE DEF Bad
  <2>2. QED
    BY <2>1, LeastOf
<1>2. ~ \E f \in [0..m -> T] : Loop(m, f)
  OBVIOUS
<1>3. m \in Nat
  OBVIOUS
<1>4. CASE m = 0
  <2> DEFINE f == [k \in 0..m |-> start]
  <2>1. f \in [0..m -> T]
    OBVIOUS
  <2>2. Loop(m, f)
    BY <1>4
  <2>3. QED
    BY <1>2, <2>1, <2>2
<1>5. CASE m # 0
  <2>1. m - 1 \in Nat /\ m - 1 \notin Bad
    BY <1>1, <1>3, <1>5
  <2>2. PICK g \in [0..(m - 1) -> T] : Loop(m - 1, g)
    BY <2>1
  <2>3. m \in 0..m /\ m - 1 \in 0..(m - 1) /\ ~ (m - 1 = m) /\ <<m, g[m - 1]>> \in Nat \X T
    BY <1>3, <2>1
  <2> DEFINE f == [k \in 0..m |-> IF k = m THEN next[<<m, g[m - 1]>>] ELSE g[k]]
  <2>4. f[m] = next[<<m, g[m - 1]>>]
    BY <2>3
  <2>5. \A k \in 0..(m - 1) : f[k] = g[k]
    BY <1>3
  <2>6. f \in [0..m -> T]
    <3>1. next[<<m, g[m - 1]>>] \in T
      BY <2>3
    <3>2. \A k \in 0..m : k # m => g[k] \in T
      BY <1>3
    <3> QED
      BY <3>1, <3>2
  <2> HIDE DEF f
  <2>7. f[0] = start
    BY <2>1, <2>2, <2>5
  <2>8. ASSUME NEW k \in 1..m PROVE f[k] = next[<<k, f[k - 1]>>]
    <3>1. CASE k = m
      BY <2>3, <2>4, <2>5, <3>1
    <3>2. CASE k # m
      <4>1. k \in 1..(m - 1) /\ k \in 0..(m - 1) /\ k - 1 \in 0..(m - 1)
        BY <1>3, <3>2
      <4> QED
        BY <2>2, <2>5, <4>1
    <3> QED
      BY <3>1, <3>2
  <2> QED
    BY <1>2, <2>6, <2>7, <2>8
<1> QED
  BY <1>4, <1>5

-------------------------------------------------------------------------------
\* The check code is a byte.
LEMMA SumType == ASSUME NEW b \in Seq(Byte) PROVE Sum(b) \in Byte
<1> DEFINE n == Len(b)
           Sums(f) == f = [i \in 0..n |-> IF i = 0 THEN 0 ELSE (f[i - 1] + b[i]) % Modulus]
           sum == CHOOSE f : Sums(f)
<1>1. Modulus \in Nat \ {0} /\ 0 \in Byte /\ n \in Nat
  BY ParserConstants DEF Byte
<1>2. \A s \in Byte, i \in 1..n : (s + b[i]) % Modulus \in Byte
  <2>1. \A s, x \in Byte : (s + x) % Modulus \in Byte
    BY <1>1 DEF Byte
  <2>2. \A i \in 1..n : b[i] \in Byte
    OBVIOUS
  <2> QED
    BY <2>1, <2>2
<1>3. \E f : Sums(f)
  <2> DEFINE next == [p \in Nat \X Byte |->
                        IF p[1] \in 1..n THEN (p[2] + b[p[1]]) % Modulus ELSE 0]
  <2>1. next \in [Nat \X Byte -> Byte]
    BY <1>1, <1>2
  <2>2. \A i \in 1..n, s \in Byte : next[<<i, s>>] = (s + b[i]) % Modulus
    BY <1>1
  <2> HIDE DEF next, n
  <2>0. Turning(Byte, 0, next, n) # {}
    BY <1>1, <2>1, LoopExists, ZenonT(30)
  <2>3. PICK f \in [0..n -> Byte] :
               f[0] = 0 /\ \A i \in 1..n : f[i] = next[<<i, f[i - 1]>>]
    BY <2>0 DEF Turning
  <2>4. \A i \in 1..n : f[i] = (f[i - 1] + b[i]) % Modulus
    <3>1. \A i \in 1..n : f[i - 1] \in Byte
      BY <1>1
    <3> QED
      BY <2>2, <2>3, <3>1
  <2>5. Sums(f)
    <3>1. f = [i \in 0..n |-> f[i]]
      OBVIOUS
    <3>2. \A i \in 0..n : f[i] = IF i = 0 THEN 0 ELSE (f[i - 1] + b[i]) % Modulus
      BY <1>1, <2>3, <2>4
    <3> QED
      BY <3>1, <3>2
  <2> QED
    BY <2>5
<1>4. Sums(sum)
  BY <1>3
<1>5. Sum(b) = sum[n]
  BY DEF Sum
<1> HIDE DEF sum
<1>6. \A i \in 0..n : sum[i] \in Byte
  <2>1. sum[0] \in Byte
    BY <1>1, <1>4
  <2>2. \A i \in 1..n : sum[i] = (sum[i - 1] + b[i]) % Modulus
    BY <1>1, <1>4
  <2>3. \A i \in 1..n : sum[i - 1] \in Byte => sum[i] \in Byte
    BY <1>2, <2>2
  <2> DEFINE T == [i \in 0..n |-> Byte]
  <2>4. \A i \in 0..n : T[i] = Byte
    OBVIOUS
  <2>5. 0 \in 0..n /\ \A i \in 1..n : i \in 0..n /\ i - 1 \in 0..n
    BY <1>1
  <2> HIDE DEF n, T
  <2>6. sum[0] \in T[0] /\ \A i \in 1..n : sum[i - 1] \in T[i - 1] => sum[i] \in T[i]
    BY <2>1, <2>3, <2>4, <2>5
  <2>7. \A i \in 0..n : sum[i] \in T[i]
    BY <1>1, <2>6, LoopStays
  <2> QED
    BY <2>4, <2>7
<1> QED
  BY <1>1, <1>5, <1>6

-------------------------------------------------------------------------------
(* Sequences, byte by byte. *)

\* Part of a sequence.
LEMMA Cut ==
  ASSUME NEW S, NEW s \in Seq(S), NEW m \in 1..(Len(s) + 1), NEW n \in (m - 1)..Len(s)
  PROVE  /\ SubSeq(s, m, n) \in Seq(S)
         /\ Len(SubSeq(s, m, n)) = n - m + 1
         /\ \A i \in 1..(n - m + 1) : SubSeq(s, m, n)[i] = s[m + i - 1]
<1>1. Len(s) \in Nat /\ m \in Int /\ n \in Int
  OBVIOUS
<1>2. \A i \in m..n : s[i] \in S
  BY <1>1
<1> QED
  BY <1>1, <1>2, SubSeqProperties

\* What the library's prefixes, reversed sequences and suffixes are.
LEMMA PrefixMeans ==
  ASSUME NEW S, NEW s \in Seq(S), NEW t \in Seq(S)
  PROVE  IsPrefix(s, t) <=> Len(s) <= Len(t) /\ \A i \in 1..Len(s) : s[i] = t[i]
<1>1. Len(s) \in Nat /\ Len(t) \in Nat
  OBVIOUS
<1>2. SubSeq(s, 1, Len(s)) = s
  BY SubSeqFull
<1>3. ASSUME Len(s) <= Len(t)
      PROVE  s = SubSeq(t, 1, Len(s)) <=> \A i \in 1..Len(s) : s[i] = t[i]
  <2> DEFINE u == SubSeq(t, 1, Len(s))
  <2>1. u \in Seq(S) /\ Len(u) = Len(s) /\ \A i \in 1..Len(s) : u[i] = t[1 + i - 1]
    <3>1. 1 \in 1..(Len(t) + 1) /\ Len(s) \in (1 - 1)..Len(t) /\ Len(s) - 1 + 1 = Len(s)
      BY <1>1, <1>3
    <3> QED
      BY <3>1, Cut
  <2>2. \A i \in 1..Len(s) : u[i] = t[i]
    BY <2>1
  <2> HIDE DEF u
  <2>3. s = u <=> \A i \in 1..Len(s) : s[i] = u[i]
    BY <2>1, SeqEqual
  <2>4. s = u <=> \A i \in 1..Len(s) : s[i] = t[i]
    BY <2>2, <2>3
  <2> QED
    BY <2>4 DEF u
<1> QED
  BY <1>2, <1>3 DEF IsPrefix

LEMMA ReverseMeans ==
  ASSUME NEW S, NEW s \in Seq(S)
  PROVE  /\ Reverse(s) \in Seq(S) /\ Len(Reverse(s)) = Len(s)
         /\ \A i \in 1..Len(s) : Reverse(s)[i] = s[Len(s) - i + 1]
<1>1. \A i \in 1..Len(s) : s[(Len(s) - i) + 1] \in S
  OBVIOUS
<1>2. Reverse(s) = [i \in 1..Len(s) |-> s[(Len(s) - i) + 1]]
  BY DEF Reverse
<1>3. Reverse(s) \in Seq(S)
  BY <1>1, <1>2, IsASeq
<1> QED
  BY <1>2, <1>3

LEMMA SuffixMeans ==
  ASSUME NEW S, NEW s \in Seq(S), NEW t \in Seq(S)
  PROVE  IsSuffix(s, t) <=>
           Len(s) <= Len(t) /\ \A i \in 1..Len(s) : s[i] = t[Len(t) - Len(s) + i]
<1> DEFINE m == Len(s)
           n == Len(t)
<1>1. m \in Nat /\ n \in Nat
  OBVIOUS
<1>2. IsSuffix(s, t) <=>
        m <= n /\ \A i \in 1..m : Reverse(s)[i] = Reverse(t)[i]
  <2> DEFINE u == Reverse(s)
             v == Reverse(t)
  <2>1. u \in Seq(S) /\ Len(u) = m /\ v \in Seq(S) /\ Len(v) = n
    BY ReverseMeans
  <2>2. IsSuffix(s, t) <=> IsPrefix(u, v)
    BY DEF IsSuffix
  <2> HIDE DEF u, v
  <2>3. IsPrefix(u, v) <=> Len(u) <= Len(v) /\ \A i \in 1..Len(u) : u[i] = v[i]
    BY <2>1, PrefixMeans
  <2>4. IsSuffix(s, t) <=> m <= n /\ \A i \in 1..m : u[i] = v[i]
    BY <2>1, <2>2, <2>3
  <2> QED
    BY <2>4 DEF u, v
<1>3. ASSUME m <= n
      PROVE  (\A i \in 1..m : Reverse(s)[i] = Reverse(t)[i])
             <=> \A i \in 1..m : s[i] = t[n - m + i]
  <2>1. /\ \A i \in 1..m : Reverse(s)[i] = s[m - i + 1]
        /\ \A i \in 1..n : Reverse(t)[i] = t[n - i + 1]
    BY ReverseMeans
  <2> HIDE DEF m, n
  <2>2. \A i \in 1..m : i \in 1..n
    BY <1>1, <1>3
  <2>3. \A i \in 1..m : Reverse(s)[i] = s[m - i + 1] /\ Reverse(t)[i] = t[n - i + 1]
    BY <2>1, <2>2
  <2>4. ASSUME \A i \in 1..m : Reverse(s)[i] = Reverse(t)[i], NEW i \in 1..m
        PROVE  s[i] = t[n - m + i]
    <3>1. m - i + 1 \in 1..m /\ m - (m - i + 1) + 1 = i /\ n - (m - i + 1) + 1 = n - m + i
      BY <1>1
    <3> QED
      BY <2>3, <2>4, <3>1
  <2>5. ASSUME \A i \in 1..m : s[i] = t[n - m + i], NEW i \in 1..m
        PROVE  Reverse(s)[i] = Reverse(t)[i]
    <3>1. m - i + 1 \in 1..m /\ n - m + (m - i + 1) = n - i + 1
      BY <1>1
    <3> QED
      BY <2>3, <2>5, <3>1
  <2> QED
    BY <2>4, <2>5
<1> QED
  BY <1>2, <1>3

-------------------------------------------------------------------------------
(* The parser, for either type of frame. *)

\* A function on the first numbers is a sequence.
LEMMA AsSequence ==
  ASSUME NEW S, NEW n \in Nat, NEW f \in [1..n -> S]
  PROVE  f \in Seq(S) /\ Len(f) = n
<1>1. f \in Seq(S)
  BY SeqDef
<1>2. Len(f) \in Nat /\ 1..Len(f) = 1..n
  BY <1>1, LenProperties
<1> QED
  BY <1>1, <1>2

\* Both heads are sequences of bytes, and a buffer takes at least seven.
LEMMA HeadType ==
  ASSUME type \in Types
  PROVE  /\ HeadBytes \in Seq(Byte) /\ Len(HeadBytes) \in 2..3
         /\ BufLen \in Nat /\ BufLen >= 7
         /\ FrameLen \in Nat /\ FrameLen > 3
<1>1. McuHead \in Seq(Byte) /\ Len(McuHead) = 2 /\ TuyaHead \in Seq(Byte) /\ Len(TuyaHead) = 3
  <2>1. McuHead \in [1..2 -> Byte] /\ TuyaHead \in [1..3 -> Byte] /\ 2 \in Nat /\ 3 \in Nat
    BY ParserConstants
  <2> QED
    BY <2>1, AsSequence
<1>2. FrameLen \in Nat /\ FrameLen > 3
  BY ParserConstants DEF FrameLen, Byte
<1>3. /\ McuBufLen \in Nat /\ McuBufLen >= 7
      /\ TuyaBufLen \in Nat /\ TuyaBufLen >= 7
  BY <1>2, ParserConstants
<1> QED
  BY <1>1, <1>2, <1>3 DEF HeadBytes, BufLen

\* A frame is longer than its head.
LEMMA DeclaredType ==
  ASSUME type \in Types, NEW b \in Seq(Byte)
  PROVE  Declared(b) \in Nat /\ Declared(b) > Len(HeadBytes) /\ Declared(b) > 0
<1>0. Len(HeadBytes) \in 2..3 /\ FrameLen \in Nat /\ FrameLen > 3
  BY HeadType
<1> DEFINE h == Len(HeadBytes)
<1> HIDE DEF h
<1>h. h \in 2..3
  BY <1>0 DEF h
<1> SUFFICES Declared(b) \in Nat /\ Declared(b) > h /\ Declared(b) > 0
  BY DEF h
<1>1. CASE type = "BT_MCU"
  BY <1>0, <1>h, <1>1 DEF Declared
<1>2. CASE type # "BT_MCU"
  <2>1. CASE Len(b) < 6
    BY <1>h, <1>2, <2>1 DEF Declared
  <2>2. CASE ~(Len(b) < 6)
    <3>0. Modulus \in Nat \ {0} /\ 5 \in 1..Len(b) /\ 6 \in 1..Len(b)
      BY <2>2, ParserConstants
    <3>1. b[5] \in Nat /\ b[6] \in Nat /\ Modulus \in Nat
      BY <3>0 DEF Byte
    <3>2. b[5] * Modulus \in Nat
      BY <3>1
    <3>3. Declared(b) = b[5] * Modulus + b[6] + 7
      BY <1>2, <2>2 DEF Declared
    <3> DEFINE w == b[5] * Modulus
    <3> HIDE DEF w
    <3>4. Declared(b) = w + b[6] + 7 /\ w \in Nat
      BY <3>2, <3>3 DEF w
    <3> QED
      BY <1>h, <3>1, <3>4
  <2> QED
    BY <2>1, <2>2
<1> QED
  BY <1>1, <1>2

\* The lesser of two.
LEMMA MinOfTwo ==
  ASSUME NEW a \in Nat, NEW b \in Nat
  PROVE  Min({a, b}) \in Nat /\ Min({a, b}) = IF a <= b THEN a ELSE b
<1> DEFINE m == IF a <= b THEN a ELSE b
<1>1. m \in {a, b} /\ \A y \in {a, b} : m <= y
  OBVIOUS
<1>2. \A x \in {a, b} : (\A y \in {a, b} : x <= y) => x = m
  OBVIOUS
<1>3. Min({a, b}) \in {a, b} /\ \A y \in {a, b} : Min({a, b}) <= y
  BY <1>1 DEF Min
<1> QED
  BY <1>1, <1>2, <1>3

\* The least and the greatest member of a set of positions are members of it.
LEMMA MinMember ==
  ASSUME NEW S \in SUBSET Nat, S # {}
  PROVE  Min(S) \in S /\ \A y \in S : Min(S) <= y
<1>1. \E x \in S : \A y \in S : x <= y
  BY LeastOf
<1> QED
  BY <1>1 DEF Min

LEMMA MaxMember ==
  ASSUME NEW n \in Nat, NEW S \in SUBSET (0..n), S # {}
  PROVE  Max(S) \in S /\ \A y \in S : Max(S) >= y
<1> DEFINE D == { n - x : x \in S }
<1>1. D \in SUBSET Nat /\ D # {}
  <2>1. \A x \in S : n - x \in Nat
    OBVIOUS
  <2> QED
    BY <2>1
<1>2. PICK d \in D : \A e \in D : d <= e
  <2> HIDE DEF D
  <2> QED
    BY <1>1, LeastOf
<1>3. PICK x \in S : d = n - x
  OBVIOUS
<1>4. \A y \in S : x >= y
  <2>1. ASSUME NEW y \in S PROVE x >= y
    <3>1. n - y \in D
      OBVIOUS
    <3>2. d <= n - y
      BY <1>2, <3>1
    <3> QED
      BY <1>3, <3>2
  <2> QED
    BY <2>1
<1>5. \E z \in S : \A y \in S : z >= y
  BY <1>4
<1> QED
  BY <1>5 DEF Max

-------------------------------------------------------------------------------
(* add. *)

Begins(s, t) == Len(s) <= Len(t) /\ \A i \in 1..Len(s) : s[i] = t[i]
Ends(s, t) == Len(s) <= Len(t) /\ \A i \in 1..Len(s) : s[i] = t[Len(t) - Len(s) + i]

\* A head is found where the bytes of one are.
LEMMA HeadsMeans ==
  ASSUME type \in Types, NEW b \in Seq(Byte)
  PROVE  /\ Heads(b) \in SUBSET Nat
         /\ \A i \in Nat : i \in Heads(b) <=>
              /\ i \in 1..(Len(b) - Len(HeadBytes) + 1)
              /\ \A j \in 1..Len(HeadBytes) : HeadBytes[j] = b[i + j - 1]
<1> DEFINE H == HeadBytes
           n == Len(b)
           m == Len(HeadBytes)
<1>1. H \in Seq(Byte) /\ m \in 2..3 /\ n \in Nat
  BY HeadType
<1>2. ASSUME NEW i \in 1..(n - m + 1)
      PROVE  SubSeq(b, i, i + m - 1) = H <=> \A j \in 1..m : H[j] = b[i + j - 1]
  <2> DEFINE u == SubSeq(b, i, i + m - 1)
  <2>1. u \in Seq(Byte) /\ Len(u) = m /\ \A j \in 1..m : u[j] = b[i + j - 1]
    <3>1. i \in 1..(n + 1) /\ i + m - 1 \in (i - 1)..n /\ (i + m - 1) - i + 1 = m
      BY <1>1
    <3> QED
      BY <3>1, Cut
  <2> HIDE DEF u, H, m, n
  <2>2. u = H <=> \A j \in 1..m : u[j] = H[j]
    <3>1. Len(H) = m
      BY DEF H, m
    <3> QED
      BY <1>1, <2>1, <3>1, SeqEqual
  <2>3. u = H <=> \A j \in 1..m : H[j] = b[i + j - 1]
    BY <2>1, <2>2
  <2> QED
    BY <2>3 DEF u
<1>3. Heads(b) = { i \in 1..(n - m + 1) : SubSeq(b, i, i + m - 1) = H }
  BY DEF Heads
<1> HIDE DEF H, m, n
<1>4. Heads(b) \in SUBSET Nat
  BY <1>3
<1>5. \A i \in Nat : i \in Heads(b) <=>
        i \in 1..(n - m + 1) /\ \A j \in 1..m : H[j] = b[i + j - 1]
  BY <1>2, <1>3
<1> QED
  BY <1>4, <1>5 DEF H, m, n

\* What add keeps of a buffer it has searched.
LEMMA FromHeadKeeps ==
  ASSUME type \in Types, NEW b \in Seq(Byte)
  PROVE  /\ FromHead(b) \in Seq(Byte)
         /\ Ends(FromHead(b), b)
         /\ Heads(b) # {} => Begins(HeadBytes, FromHead(b))
         /\ Heads(b) = {} => Len(FromHead(b)) < Len(HeadBytes)
<1> DEFINE H == HeadBytes
           n == Len(b)
           m == Len(HeadBytes)
<1>1. H \in Seq(Byte) /\ m \in 2..3 /\ n \in Nat /\ Len(H) = m
  BY HeadType
<1>2. ASSUME Heads(b) # {}
      PROVE  FromHead(b) \in Seq(Byte) /\ Ends(FromHead(b), b) /\ Begins(H, FromHead(b))
  <2> DEFINE k == Min(Heads(b))
             u == SubSeq(b, k, n)
  <2>1. /\ k \in 1..(n - m + 1)
        /\ \A j \in 1..m : H[j] = b[k + j - 1]
    BY <1>2, HeadsMeans, MinMember
  <2> HIDE DEF k
  <2>2. u \in Seq(Byte) /\ Len(u) = n - k + 1 /\ \A j \in 1..(n - k + 1) : u[j] = b[k + j - 1]
    <3>1. k \in 1..(n + 1) /\ n \in (k - 1)..n
      BY <1>1, <2>1
    <3> QED
      BY <3>1, Cut
  <2>3. FromHead(b) = u
    BY <1>2 DEF FromHead, k
  <2> HIDE DEF u, H, m, n
  <2>4. Ends(u, b)
    <3>1. Len(u) <= n
      BY <1>1, <2>1, <2>2
    <3>2. \A i \in 1..Len(u) : u[i] = b[n - Len(u) + i]
      <4>1. \A i \in 1..Len(u) : n - Len(u) + i = k + i - 1
        BY <1>1, <2>1, <2>2
      <4> QED
        BY <2>2, <4>1
    <3> QED
      BY <3>1, <3>2 DEF Ends, n
  <2>5. Begins(H, u)
    <3>1. m <= Len(u) /\ 1..m \subseteq 1..(n - k + 1)
      BY <1>1, <2>1, <2>2
    <3>2. \A j \in 1..m : H[j] = u[j]
      BY <2>1, <2>2, <3>1
    <3> QED
      BY <1>1, <3>1, <3>2 DEF Begins
  <2> QED
    BY <2>2, <2>3, <2>4, <2>5
<1>3. ASSUME Heads(b) = {}
      PROVE  FromHead(b) \in Seq(Byte) /\ Ends(FromHead(b), b) /\ Len(FromHead(b)) < m
  <2> DEFINE Begun == { j \in 0..(m - 1) : IsSuffix(SubSeq(H, 1, j), b) }
             k == HeadBegun(b)
             u == SubSeq(H, 1, k)
  <2>0. k = Max(Begun)
    BY DEF HeadBegun
  <2>1. \A j \in 0..(m - 1) : SubSeq(H, 1, j) \in Seq(Byte) /\ Len(SubSeq(H, 1, j)) = j
    <3>1. ASSUME NEW j \in 0..(m - 1)
          PROVE  SubSeq(H, 1, j) \in Seq(Byte) /\ Len(SubSeq(H, 1, j)) = j
      <4>1. 1 \in 1..(Len(H) + 1) /\ j \in (1 - 1)..Len(H) /\ j - 1 + 1 = j
        BY <1>1
      <4> QED
        BY <1>1, <4>1, Cut
    <3> QED
      BY <3>1
  <2>2. Begun # {}
    <3> DEFINE e == SubSeq(H, 1, 0)
    <3>0. 0 \in 0..(m - 1)
      <4> HIDE DEF m, n, Begun, k
      <4> QED
        BY <1>1
    <3>1. e \in Seq(Byte) /\ Len(e) = 0
      BY <2>1, <3>0
    <3> HIDE DEF e
    <3>2. Len(e) <= Len(b) /\ \A i \in 1..Len(e) : e[i] = b[Len(b) - Len(e) + i]
      BY <1>1, <3>1
    <3>3. IsSuffix(e, b)
      BY <3>1, <3>2, SuffixMeans
    <3>4. 0 \in Begun
      BY <3>0, <3>3 DEF e
    <3> QED
      BY <3>4
  <2>3. k \in Begun
    <3>0. m - 1 \in Nat
      <4> HIDE DEF m, n, Begun, k
      <4> QED
        BY <1>1
    <3>1. Begun \in SUBSET (0..(m - 1))
      OBVIOUS
    <3> HIDE DEF Begun, k
    <3> QED
      BY <2>0, <2>2, <3>0, <3>1, MaxMember
  <2>4. k \in 0..(m - 1) /\ IsSuffix(u, b)
    BY <2>3
  <2>5. FromHead(b) = u
    BY <1>3 DEF FromHead
  <2> HIDE DEF k
  <2>6. u \in Seq(Byte) /\ Len(u) = k
    BY <2>1, <2>4
  <2> HIDE DEF u
  <2>7. Ends(u, b)
    BY <2>4, <2>6, SuffixMeans DEF Ends
  <2>8. Len(u) < m
    BY <1>1, <2>4, <2>6
  <2> QED
    BY <2>5, <2>6, <2>7, <2>8
<1> QED
  BY <1>2, <1>3

\* The end of the end of a sequence is its end.
LEMMA EndsTransitive ==
  ASSUME NEW S, NEW a \in Seq(S), NEW b \in Seq(S), NEW c \in Seq(S), Ends(a, b), Ends(b, c)
  PROVE  Ends(a, c)
<1>1. /\ Len(a) \in Nat /\ Len(b) \in Nat /\ Len(c) \in Nat
      /\ Len(a) <= Len(b) /\ Len(b) <= Len(c)
  BY DEF Ends
<1>2. ASSUME NEW i \in 1..Len(a) PROVE a[i] = c[Len(c) - Len(a) + i]
  <2>1. a[i] = b[Len(b) - Len(a) + i]
    BY DEF Ends
  <2>2. Len(b) - Len(a) + i \in 1..Len(b)
    BY <1>1
  <2>3. b[Len(b) - Len(a) + i] = c[Len(c) - Len(b) + (Len(b) - Len(a) + i)]
    BY <2>2 DEF Ends
  <2>4. Len(c) - Len(b) + (Len(b) - Len(a) + i) = Len(c) - Len(a) + i
    BY <1>1
  <2> QED
    BY <2>1, <2>3, <2>4
<1> QED
  BY <1>1, <1>2 DEF Ends

\* What is appended to a sequence is appended to its end, and its beginning stays.
LEMMA EndsLonger ==
  ASSUME NEW S, NEW a \in Seq(S), NEW b \in Seq(S), NEW r \in Seq(S), Ends(a, b)
  PROVE  Ends(a \o r, b \o r)
<1> DEFINE x == a \o r
           y == b \o r
<1>1. /\ Len(a) \in Nat /\ Len(b) \in Nat /\ Len(r) \in Nat /\ Len(a) <= Len(b)
      /\ \A i \in 1..Len(a) : a[i] = b[Len(b) - Len(a) + i]
  BY DEF Ends
<1>2. /\ Len(x) = Len(a) + Len(r) /\ Len(y) = Len(b) + Len(r)
      /\ \A i \in 1..(Len(a) + Len(r)) : x[i] = IF i <= Len(a) THEN a[i] ELSE r[i - Len(a)]
      /\ \A i \in 1..(Len(b) + Len(r)) : y[i] = IF i <= Len(b) THEN b[i] ELSE r[i - Len(b)]
  BY ConcatProperties
<1> HIDE DEF x, y
<1>3. ASSUME NEW i \in 1..Len(x) PROVE x[i] = y[Len(y) - Len(x) + i]
  <2> DEFINE k == Len(b) - Len(a) + i
  <2>1. k \in 1..(Len(b) + Len(r)) /\ Len(y) - Len(x) + i = k
    BY <1>1, <1>2
  <2>2. y[k] = IF k <= Len(b) THEN b[k] ELSE r[k - Len(b)]
    BY <1>2, <2>1
  <2>3. (k <= Len(b) <=> i <= Len(a)) /\ k - Len(b) = i - Len(a)
    BY <1>1, <1>2
  <2>4. x[i] = IF i <= Len(a) THEN a[i] ELSE r[i - Len(a)]
    BY <1>2
  <2>5. i <= Len(a) => a[i] = b[k]
    BY <1>1, <1>2
  <2> HIDE DEF k
  <2> QED
    BY <2>1, <2>2, <2>3, <2>4, <2>5
<1>4. Len(x) <= Len(y)
  BY <1>1, <1>2
<1> QED
  BY <1>3, <1>4 DEF Ends, x, y

LEMMA BeginsLonger ==
  ASSUME NEW S, NEW h \in Seq(S), NEW b \in Seq(S), NEW r \in Seq(S), Begins(h, b)
  PROVE  Begins(h, b \o r)
<1> DEFINE y == b \o r
<1>1. /\ Len(h) \in Nat /\ Len(b) \in Nat /\ Len(r) \in Nat /\ Len(h) <= Len(b)
      /\ \A i \in 1..Len(h) : h[i] = b[i]
  BY DEF Begins
<1>2. /\ Len(y) = Len(b) + Len(r)
      /\ \A i \in 1..(Len(b) + Len(r)) : y[i] = IF i <= Len(b) THEN b[i] ELSE r[i - Len(b)]
  BY ConcatProperties
<1> HIDE DEF y
<1>3. \A i \in 1..Len(h) : h[i] = y[i]
  BY <1>1, <1>2
<1> QED
  BY <1>1, <1>2, <1>3 DEF Begins, y

\* Cutting a sequence in two.
LEMMA CutInTwo ==
  ASSUME NEW S, NEW s \in Seq(S), NEW n \in 0..Len(s)
  PROVE  /\ SubSeq(s, 1, n) \in Seq(S) /\ Len(SubSeq(s, 1, n)) = n
         /\ SubSeq(s, n + 1, Len(s)) \in Seq(S)
         /\ Len(SubSeq(s, n + 1, Len(s))) = Len(s) - n
         /\ SubSeq(s, 1, n) \o SubSeq(s, n + 1, Len(s)) = s
<1>1. Len(s) \in Nat /\ n \in Nat /\ n <= Len(s)
  OBVIOUS
<1>2. SubSeq(s, 1, n) \in Seq(S) /\ Len(SubSeq(s, 1, n)) = n
  <2>1. 1 \in 1..(Len(s) + 1) /\ n \in (1 - 1)..Len(s) /\ n - 1 + 1 = n
    BY <1>1
  <2> QED
    BY <2>1, Cut
<1>3. /\ SubSeq(s, n + 1, Len(s)) \in Seq(S)
      /\ Len(SubSeq(s, n + 1, Len(s))) = Len(s) - n
  <2>1. /\ n + 1 \in 1..(Len(s) + 1) /\ Len(s) \in ((n + 1) - 1)..Len(s)
        /\ Len(s) - (n + 1) + 1 = Len(s) - n
    BY <1>1
  <2> QED
    BY <2>1, Cut
<1>4. SubSeq(s, 1, n) \o SubSeq(s, n + 1, Len(s)) = SubSeq(s, 1, Len(s))
  <2>1. 1 \in 1..(Len(s) + 1) /\ n \in (1 - 1)..Len(s) /\ Len(s) \in n..Len(s)
    BY <1>1
  <2> QED
    BY <2>1, ConcatAdjacentSubSeq
<1> QED
  BY <1>2, <1>3, <1>4, SubSeqFull

\* A buffer long enough to be searched begins with a head.
Shaped(b) == Len(b) > Len(HeadBytes) => Begins(HeadBytes, b)

(* The states of the loop of add: the buffer is no longer than it may be,  *)
(* a buffer that has been searched begins with a head, and what is in it   *)
(* and what is left of the input are the end of the stream.                *)
FillState == [buf : Seq(Byte), rest : Seq(Byte), found : BOOLEAN]

Filling(stream) ==
    { s \in FillState :
        /\ Len(s.buf) <= BufLen
        /\ Shaped(s.buf)
        /\ s.found => Begins(HeadBytes, s.buf)
        /\ Ends(s.buf \o s.rest, stream) }

\* A turn that is not the last takes some of the input, c: as much as there
\* is or as the buffer takes.
Turns(s, c, r) ==
    /\ s.rest = c \o r /\ Len(r) = Len(s.rest) - Len(c)
    /\ Len(c) = IF BufLen - Len(s.buf) <= Len(s.rest) THEN BufLen - Len(s.buf)
                ELSE Len(s.rest)
    /\ s.buf \o c \in Seq(Byte) /\ Len(s.buf \o c) = Len(s.buf) + Len(c)
    /\ LET search == ~s.found /\ Len(s.buf \o c) > Len(HeadBytes)
       IN  Fill(s) = [buf |-> IF search THEN FromHead(s.buf \o c) ELSE s.buf \o c,
                      rest |-> r,
                      found |-> IF search THEN Heads(s.buf \o c) # {} ELSE s.found]

\* Every turn of the loop of add but the last is one that takes some of the input.
LEMMA FillTakes ==
  ASSUME type \in Types, NEW s \in FillState, Len(s.buf) < BufLen, s.rest # <<>>
  PROVE  \E c, r \in Seq(Byte) : Turns(s, c, r)
<1> DEFINE n == Min({BufLen - Len(s.buf), Len(s.rest)})
           c == SubSeq(s.rest, 1, n)
           r == SubSeq(s.rest, n + 1, Len(s.rest))
<1>1. /\ s.buf \in Seq(Byte) /\ s.rest \in Seq(Byte) /\ s.found \in BOOLEAN
      /\ Len(s.buf) \in Nat /\ Len(s.rest) \in Nat /\ Len(s.rest) > 0
      /\ BufLen \in Nat
  BY HeadType DEF FillState
<1>2. n = IF BufLen - Len(s.buf) <= Len(s.rest) THEN BufLen - Len(s.buf) ELSE Len(s.rest)
  <2>1. BufLen - Len(s.buf) \in Nat
    BY <1>1
  <2> QED
    BY <1>1, <2>1, MinOfTwo
<1>4. Fill(s) = LET filled == s.buf \o c
                    search == ~s.found /\ Len(filled) > Len(HeadBytes)
                IN  [buf |-> IF search THEN FromHead(filled) ELSE filled,
                     rest |-> r,
                     found |-> IF search THEN Heads(filled) # {} ELSE s.found]
  <2>1. ~ (Len(s.buf) >= BufLen \/ s.rest = <<>>)
    BY <1>1
  <2> QED
    BY <2>1 DEF Fill
<1> HIDE DEF n
<1>3. n \in 0..Len(s.rest) /\ n > 0
  <2> DEFINE x == BufLen - Len(s.buf)
             y == Len(s.rest)
  <2>1. x \in Nat /\ x > 0 /\ y \in Nat /\ y > 0
    BY <1>1
  <2>2. n = IF x <= y THEN x ELSE y
    BY <1>2
  <2> HIDE DEF x, y
  <2>3. n \in 0..y /\ n > 0
    BY <2>1, <2>2
  <2> QED
    BY <2>3 DEF y
<1>5. /\ c \in Seq(Byte) /\ r \in Seq(Byte) /\ Len(c) = n /\ Len(r) = Len(s.rest) - n
      /\ c \o r = s.rest
  <2> DEFINE q == s.rest
  <2>1. q \in Seq(Byte) /\ n \in 0..Len(q)
    BY <1>1, <1>3
  <2> HIDE DEF q
  <2>2. /\ SubSeq(q, 1, n) \in Seq(Byte) /\ SubSeq(q, n + 1, Len(q)) \in Seq(Byte)
        /\ Len(SubSeq(q, 1, n)) = n /\ Len(SubSeq(q, n + 1, Len(q))) = Len(q) - n
        /\ SubSeq(q, 1, n) \o SubSeq(q, n + 1, Len(q)) = q
    BY <2>1, CutInTwo
  <2> QED
    BY <2>2 DEF q
<1> HIDE DEF c, r
<1>6. s.buf \o c \in Seq(Byte) /\ Len(s.buf \o c) = Len(s.buf) + Len(c)
  BY <1>1, <1>5, ConcatProperties
<1> QED
  BY <1>2, <1>4, <1>5, <1>6 DEF Turns

\* A turn of the loop keeps to its states.
LEMMA FillKeeps ==
  ASSUME type \in Types, NEW stream \in Seq(Byte), NEW s \in Filling(stream)
  PROVE  Fill(s) \in Filling(stream)
<1>1. /\ s \in FillState /\ s.buf \in Seq(Byte) /\ s.rest \in Seq(Byte) /\ s.found \in BOOLEAN
      /\ Len(s.buf) <= BufLen /\ Shaped(s.buf)
      /\ s.found => Begins(HeadBytes, s.buf)
      /\ Ends(s.buf \o s.rest, stream)
  BY DEF Filling, FillState
<1>2. CASE Len(s.buf) >= BufLen \/ s.rest = <<>>
  BY <1>2 DEF Fill
<1>3. CASE ~ (Len(s.buf) >= BufLen \/ s.rest = <<>>)
  <2>0. HeadBytes \in Seq(Byte) /\ Len(HeadBytes) \in Nat /\ BufLen \in Nat
    BY HeadType
  <2>1. Len(s.buf) < BufLen /\ s.rest # <<>> /\ Len(s.buf) \in Nat
    BY <1>1, <1>3, <2>0
  <2> DEFINE Search(b) == ~s.found /\ Len(b) > Len(HeadBytes)
  <2>2. PICK c \in Seq(Byte), r \in Seq(Byte) : Turns(s, c, r)
    BY <1>1, <2>1, FillTakes
  <2> DEFINE f == s.buf \o c
  <2>3. f \in Seq(Byte) /\ Len(f) <= BufLen /\ Len(f) \in Nat
    <3>1. Len(c) <= BufLen - Len(s.buf)
      <4>1. BufLen - Len(s.buf) \in Nat /\ Len(s.rest) \in Nat
        BY <1>1, <2>0, <2>1
      <4> QED
        BY <2>2, <4>1 DEF Turns
    <3>2. f \in Seq(Byte) /\ Len(f) = Len(s.buf) + Len(c)
      BY <2>2 DEF Turns
    <3> DEFINE x == Len(s.buf)
               y == Len(c)
               z == Len(f)
    <3>3. x \in Nat /\ y \in Nat /\ z = x + y /\ y <= BufLen - x
      BY <2>1, <3>1, <3>2
    <3> HIDE DEF x, y, z
    <3>4. z \in Nat /\ z <= BufLen
      BY <2>0, <3>3
    <3> QED
      BY <3>2, <3>4 DEF z
  <2>4. Ends(f \o r, stream)
    <3> DEFINE b == s.buf
    <3>0. b \in Seq(Byte)
      BY <1>1
    <3>1. f \o r = s.buf \o (c \o r)
      <4> HIDE DEF b
      <4>1. (b \o c) \o r = b \o (c \o r)
        BY <3>0, ConcatAssociative
      <4> QED
        BY <4>1 DEF b
    <3>2. s.rest = c \o r
      BY <2>2 DEF Turns
    <3> QED
      BY <1>1, <3>1, <3>2
  <2>5. Begins(HeadBytes, s.buf) => Begins(HeadBytes, f)
    BY <1>1, <2>0, BeginsLonger
  <2>6. Fill(s) = [buf |-> IF Search(f) THEN FromHead(f) ELSE f, rest |-> r,
                   found |-> IF Search(f) THEN Heads(f) # {} ELSE s.found]
    BY <2>2 DEF Turns
  <2> HIDE DEF f
  <2>7. CASE Search(f)
    <3> DEFINE k == FromHead(f)
    <3>1. /\ k \in Seq(Byte) /\ Ends(k, f)
          /\ Heads(f) # {} => Begins(HeadBytes, k)
          /\ Heads(f) = {} => Len(k) < Len(HeadBytes)
      BY <2>3, FromHeadKeeps
    <3>2. Fill(s) = [buf |-> k, rest |-> r, found |-> Heads(f) # {}]
      BY <2>6, <2>7
    <3> HIDE DEF k
    <3>3. Len(k) \in Nat /\ Len(k) <= Len(f)
      BY <3>1 DEF Ends
    <3>4. Len(k) <= BufLen
      BY <2>0, <2>3, <3>3
    <3>5. Shaped(k)
      BY <2>0, <3>1, <3>3 DEF Shaped
    <3>6. Ends(k \o r, stream)
      <4>1. Ends(k \o r, f \o r)
        BY <2>3, <3>1, EndsLonger
      <4>2. k \o r \in Seq(Byte) /\ f \o r \in Seq(Byte)
        BY <2>3, <3>1, ConcatProperties
      <4> QED
        BY <2>4, <4>1, <4>2, EndsTransitive
    <3>7. Fill(s) \in FillState
      BY <3>1, <3>2 DEF FillState
    <3>8. /\ Fill(s).buf = k /\ Fill(s).rest = r
          /\ Fill(s).found => Begins(HeadBytes, k)
      <4>1. Fill(s).buf = k /\ Fill(s).rest = r /\ Fill(s).found = (Heads(f) # {})
        BY <3>2
      <4> QED
        BY <3>1, <4>1
    <3> QED
      BY <3>4, <3>5, <3>6, <3>7, <3>8 DEF Filling
  <2>8. CASE ~Search(f)
    <3>1. Fill(s) = [buf |-> f, rest |-> r, found |-> s.found]
      BY <2>6, <2>8
    <3>2. s.found \/ Len(f) <= Len(HeadBytes)
      BY <2>0, <2>3, <2>8
    <3>3. Shaped(f) /\ (s.found => Begins(HeadBytes, f))
      BY <1>1, <2>0, <2>3, <2>5, <3>2 DEF Shaped
    <3>4. Fill(s) \in FillState
      BY <1>1, <2>3, <3>1 DEF FillState
    <3> QED
      BY <2>3, <2>4, <3>1, <3>3, <3>4 DEF Filling
  <2> QED
    BY <2>7, <2>8
<1> QED
  BY <1>2, <1>3

\* A turn leaves less of the input, unless the loop is over.
LEMMA FillShortens ==
  ASSUME type \in Types, NEW s \in FillState
  PROVE  \/ (Len(s.buf) >= BufLen \/ s.rest = <<>>) /\ Fill(s) = s
         \/ Len(s.buf) < BufLen /\ s.rest # <<>> /\ Len(Fill(s).rest) < Len(s.rest)
<1>1. s.buf \in Seq(Byte) /\ s.rest \in Seq(Byte) /\ BufLen \in Nat
  BY HeadType DEF FillState
<1>2. CASE Len(s.buf) >= BufLen \/ s.rest = <<>>
  BY <1>2 DEF Fill
<1>3. CASE ~ (Len(s.buf) >= BufLen \/ s.rest = <<>>)
  <2>1. Len(s.buf) < BufLen /\ s.rest # <<>>
    BY <1>1, <1>3
  <2>2. PICK c \in Seq(Byte), r \in Seq(Byte) : Turns(s, c, r)
    BY <2>1, FillTakes
  <2>3. Fill(s).rest = r
    BY <2>2 DEF Turns
  <2> DEFINE x == BufLen - Len(s.buf)
             y == Len(s.rest)
  <2>4. x \in Nat /\ x > 0 /\ y \in Nat /\ y > 0
    BY <1>1, <2>1
  <2>5. Len(r) = y - (IF x <= y THEN x ELSE y)
    BY <2>2 DEF Turns
  <2> HIDE DEF x, y
  <2>6. Len(r) < y
    BY <2>4, <2>5
  <2> QED
    BY <2>1, <2>3, <2>6 DEF y
<1> QED
  BY <1>2, <1>3

\* A sequence is its own end.
LEMMA EndsSelf == ASSUME NEW S, NEW s \in Seq(S) PROVE Ends(s, s)
<1>1. Len(s) \in Nat
  OBVIOUS
<1>2. \A i \in 1..Len(s) : Len(s) - Len(s) + i = i
  BY <1>1
<1> QED
  BY <1>1, <1>2 DEF Ends

Started(b, in) == [buf |-> b, rest |-> in, found |-> FALSE]

AddLoop(b, in, r) ==
    /\ Add(b, in) = r[Len(in)]
    /\ r[0] = Started(b, in)
    /\ \A k \in 1..Len(in) : r[k] = Fill(r[k - 1])

\* add is the last state of its loop.
LEMMA AddTurns ==
  ASSUME type \in Types, NEW b \in Seq(Byte), Len(b) <= BufLen, Shaped(b), NEW in \in Seq(Byte)
  PROVE  /\ Started(b, in) \in Filling(b \o in)
         /\ \E r : AddLoop(b, in, r)
<1> DEFINE n == Len(in)
           st == Started(b, in)
           T == Filling(b \o in)
           Loop(f) == f = [k \in 0..n |-> IF k = 0 THEN [buf |-> b, rest |-> in, found |-> FALSE]
                                          ELSE Fill(f[k - 1])]
           turn == CHOOSE f : Loop(f)
<1>1. n \in Nat /\ b \o in \in Seq(Byte)
  BY ConcatProperties
<1>2. st \in T
  <2>1. st \in FillState /\ st.buf = b /\ st.rest = in /\ st.found = FALSE
    BY DEF Started, FillState
  <2>2. Ends(b \o in, b \o in)
    BY <1>1, EndsSelf
  <2> HIDE DEF st
  <2> QED
    BY <2>1, <2>2 DEF Filling
<1>3. \A s \in T : Fill(s) \in T
  BY <1>1, FillKeeps
<1> HIDE DEF T
<1>4. \E f : Loop(f)
  <2> DEFINE next == [p \in Nat \X T |-> Fill(p[2])]
  <2>1. next \in [Nat \X T -> T]
    BY <1>3
  <2>2. \A k \in Nat, s \in T : next[<<k, s>>] = Fill(s)
    OBVIOUS
  <2> HIDE DEF next, st
  <2>3. Turning(T, st, next, n) # {}
    BY <1>1, <1>2, <2>1, LoopExists, ZenonT(30)
  <2> HIDE DEF n
  <2>4. PICK f \in [0..n -> T] :
               f[0] = st /\ \A k \in 1..n : f[k] = next[<<k, f[k - 1]>>]
    BY <2>3 DEF Turning
  <2>5. \A k \in 1..n : f[k] = Fill(f[k - 1])
    <3>1. \A k \in 1..n : f[k - 1] \in T /\ k \in Nat
      BY <1>1
    <3> QED
      BY <2>2, <2>4, <3>1
  <2>6. f = [k \in 0..n |-> IF k = 0 THEN st ELSE Fill(f[k - 1])]
    <3>1. f = [k \in 0..n |-> f[k]]
      OBVIOUS
    <3>2. \A k \in 0..n : f[k] = IF k = 0 THEN st ELSE Fill(f[k - 1])
      BY <1>1, <2>4, <2>5
    <3> QED
      BY <3>1, <3>2
  <2>7. Loop(f)
    BY <2>6 DEF st, Started
  <2> QED
    BY <2>7
<1>5. Loop(turn)
  BY <1>4
<1>6. Add(b, in) = turn[n]
  BY DEF Add
<1> HIDE DEF turn
<1>7. turn[0] = st /\ \A k \in 1..n : turn[k] = Fill(turn[k - 1])
  <2>1. 0 \in 0..n /\ \A k \in 1..n : k \in 0..n /\ k # 0
    BY <1>1
  <2> HIDE DEF n
  <2>2. \A k \in 0..n : turn[k] = IF k = 0 THEN [buf |-> b, rest |-> in, found |-> FALSE]
                                  ELSE Fill(turn[k - 1])
    BY <1>5
  <2>3. turn[0] = st
    BY <2>1, <2>2 DEF Started
  <2> HIDE DEF st
  <2> QED
    BY <2>1, <2>2, <2>3
<1>8. AddLoop(b, in, turn)
  BY <1>6, <1>7 DEF AddLoop
<1> QED
  BY <1>2, <1>8 DEF T

\* What add returns: all of the input is used up or the buffer is full, and
\* some of the input is used if there was room for any.  A full buffer stays
\* as it was.
LEMMA AddKeeps ==
  ASSUME type \in Types, NEW b \in Seq(Byte), Len(b) <= BufLen, Shaped(b), NEW in \in Seq(Byte)
  PROVE  /\ Add(b, in) \in Filling(b \o in)
         /\ Add(b, in).rest = <<>> \/ Len(Add(b, in).buf) = BufLen
         /\ in # <<>> /\ Len(b) < BufLen => Len(Add(b, in).rest) < Len(in)
         /\ Len(b) = BufLen => Add(b, in).buf = b
<1> DEFINE n == Len(in)
           F == Filling(b \o in)
           Ended(s) == s.rest = <<>> \/ Len(s.buf) = BufLen
           T == [k \in 0..n |->
                   { s \in F : /\ Len(s.rest) <= n - k \/ Ended(s)
                               /\ Len(s.rest) <= n
                               /\ k > 0 /\ Len(b) < BufLen => Len(s.rest) < n
                               /\ Len(b) = BufLen => s.buf = b }]
<1>1. n \in Nat /\ b \o in \in Seq(Byte) /\ BufLen \in Nat /\ Len(b) \in Nat
  BY ConcatProperties, HeadType
<1>0. PICK r : AddLoop(b, in, r)
  BY AddTurns
<1>2. /\ Add(b, in) = r[n] /\ r[0] = Started(b, in) /\ Started(b, in) \in F
      /\ \A k \in 1..n : r[k] = Fill(r[k - 1])
  <2>1. Started(b, in) \in F
    BY AddTurns
  <2> HIDE DEF F, T
  <2> QED
    BY <1>0, <2>1 DEF AddLoop
<1>3. ASSUME NEW s \in F
      PROVE  /\ s \in FillState /\ s.buf \in Seq(Byte) /\ s.rest \in Seq(Byte)
             /\ Len(s.buf) \in Nat /\ Len(s.buf) <= BufLen /\ Len(s.rest) \in Nat
             /\ Fill(s) \in F
  <2>1. s \in FillState /\ Len(s.buf) <= BufLen
    BY DEF Filling
  <2>2. s.buf \in Seq(Byte) /\ s.rest \in Seq(Byte)
    BY <2>1 DEF FillState
  <2>3. Fill(s) \in F
    BY <1>1, FillKeeps
  <2> HIDE DEF F
  <2> QED
    BY <2>1, <2>2, <2>3
<1> HIDE DEF F
<1>4. r[0] \in T[0]
  <2>1. r[0].rest = in /\ r[0].buf = b
    BY <1>2 DEF Started
  <2>2. r[0] \in F /\ 0 \in 0..n
    BY <1>1, <1>2
  <2> QED
    BY <1>1, <2>1, <2>2
<1>5. ASSUME NEW k \in 1..n, r[k - 1] \in T[k - 1] PROVE r[k] \in T[k]
  <2> DEFINE p == r[k - 1]
             f == Fill(p)
  <2>1. k \in 0..n /\ k - 1 \in 0..n /\ k > 0 /\ k \in Nat
    BY <1>1
  <2>2. /\ p \in F
        /\ Len(p.rest) <= n - (k - 1) \/ Ended(p)
        /\ Len(p.rest) <= n
        /\ k - 1 > 0 /\ Len(b) < BufLen => Len(p.rest) < n
        /\ Len(b) = BufLen => p.buf = b
    BY <1>5, <2>1
  <2>3. k = 1 => p.rest = in /\ p.buf = b
    BY <1>2 DEF Started
  <2>4. /\ f \in F /\ Len(p.rest) \in Nat /\ Len(f.rest) \in Nat
        /\ Len(p.buf) \in Nat /\ Len(p.buf) <= BufLen
    <3>1. p \in F
      BY <2>2
    <3> HIDE DEF p
    <3>2. Fill(p) \in F
      BY <1>3, <3>1
    <3>3. Len(Fill(p).rest) \in Nat
      BY <1>3, <3>2
    <3> QED
      BY <1>3, <3>1, <3>2, <3>3
  <2>5. \/ (Len(p.buf) >= BufLen \/ p.rest = <<>>) /\ f = p
        \/ Len(p.buf) < BufLen /\ p.rest # <<>> /\ Len(f.rest) < Len(p.rest)
    <3>1. p \in FillState
      BY <1>3, <2>2
    <3> HIDE DEF p
    <3> QED
      BY <3>1, FillShortens
  <2> HIDE DEF f, p
  <2>6. r[k] = f
    BY <1>2 DEF f, p
  <2> SUFFICES /\ Len(f.rest) <= n - k \/ Ended(f)
               /\ Len(f.rest) <= n
               /\ Len(b) < BufLen => Len(f.rest) < n
               /\ Len(b) = BufLen => f.buf = b
    BY <2>1, <2>4, <2>6
  <2>7. CASE (Len(p.buf) >= BufLen \/ p.rest = <<>>) /\ f = p
    <3>1. Ended(f)
      BY <1>1, <2>4, <2>7
    <3>2. Len(b) < BufLen => Len(f.rest) < n
      <4>1. CASE k = 1
        <5>1. Len(b) < BufLen => in = <<>>
          BY <1>1, <2>3, <2>7, <4>1
        <5>2. in = <<>> => n = 0
          OBVIOUS
        <5> QED
          BY <1>1, <2>1, <5>1, <5>2
      <4>2. CASE k # 1
        BY <1>1, <2>1, <2>2, <2>7, <4>2
      <4> QED
        BY <4>1, <4>2
    <3> QED
      BY <2>2, <2>7, <3>1, <3>2
  <2>8. CASE Len(p.buf) < BufLen /\ p.rest # <<>> /\ Len(f.rest) < Len(p.rest)
    <3>1. ~Ended(p)
      BY <1>1, <2>4, <2>8
    <3> QED
      BY <1>1, <2>1, <2>2, <2>4, <2>8, <3>1
  <2> QED
    BY <2>5, <2>7, <2>8
<1>6. r[n] \in T[n]
  <2>1. n \in 0..n
    BY <1>1
  <2> HIDE DEF T, n
  <2> QED
    BY <1>1, <1>4, <1>5, <2>1, LoopStays
<1>7. /\ r[n] \in F
      /\ Len(r[n].rest) <= 0 \/ Ended(r[n])
      /\ n > 0 /\ Len(b) < BufLen => Len(r[n].rest) < n
      /\ Len(b) = BufLen => r[n].buf = b
  BY <1>1, <1>6
<1> HIDE DEF T, n
<1> DEFINE a == r[n]
<1>8. /\ a \in F
      /\ Len(a.rest) <= 0 \/ Ended(a)
      /\ n > 0 /\ Len(b) < BufLen => Len(a.rest) < n
      /\ Len(b) = BufLen => a.buf = b
  BY <1>7
<1>9. in # <<>> => n > 0
  BY DEF n
<1>10. Add(b, in) = a
  BY <1>2
<1> HIDE DEF a
<1>11. Ended(a)
  <2>1. a.rest \in Seq(Byte)
    BY <1>3, <1>8
  <2>2. Len(a.rest) <= 0 => a.rest = <<>>
    BY <2>1
  <2> QED
    BY <1>8, <2>2
<1> QED
  BY <1>8, <1>9, <1>10, <1>11 DEF F, n

-------------------------------------------------------------------------------
(* onUartData. *)

\* What is appended is the end.
LEMMA EndsOfTwo ==
  ASSUME NEW S, NEW a \in Seq(S), NEW r \in Seq(S)
  PROVE  Ends(r, a \o r)
<1> DEFINE x == a \o r
<1>1. /\ Len(a) \in Nat /\ Len(r) \in Nat /\ Len(x) = Len(a) + Len(r)
      /\ \A i \in 1..(Len(a) + Len(r)) : x[i] = IF i <= Len(a) THEN a[i] ELSE r[i - Len(a)]
  BY ConcatProperties
<1> HIDE DEF x
<1>2. ASSUME NEW i \in 1..Len(r) PROVE r[i] = x[Len(x) - Len(r) + i]
  <2> DEFINE k == Len(a) + i
  <2>1. k \in 1..(Len(a) + Len(r)) /\ ~ (k <= Len(a)) /\ k - Len(a) = i
    BY <1>1
  <2>2. x[k] = r[i]
    BY <1>1, <2>1
  <2>3. Len(x) - Len(r) + i = k
    BY <1>1
  <2> QED
    BY <2>2, <2>3
<1>3. Len(r) <= Len(x)
  BY <1>1
<1> QED
  BY <1>2, <1>3 DEF Ends, x

\* What is followed by the end of a stream to its end lies within it.
LEMMA WithinIfFollowed ==
  ASSUME NEW S, NEW a \in Seq(S), NEW r \in Seq(S), NEW t \in Seq(S), Ends(a \o r, t)
  PROVE  IsWithin(a, t)
<1> DEFINE x == a \o r
           i == Len(t) - Len(x)
           u == SubSeq(t, i + 1, i + Len(a))
<1>1. /\ Len(a) \in Nat /\ Len(r) \in Nat /\ Len(x) = Len(a) + Len(r) /\ Len(t) \in Nat
      /\ \A j \in 1..(Len(a) + Len(r)) : x[j] = IF j <= Len(a) THEN a[j] ELSE r[j - Len(a)]
  BY ConcatProperties
<1>2. Len(x) <= Len(t) /\ \A j \in 1..Len(x) : x[j] = t[i + j]
  BY DEF Ends
<1> HIDE DEF x
<1>3. i \in 0..(Len(t) - Len(a)) /\ i \in Nat
  BY <1>1, <1>2
<1>4. u \in Seq(S) /\ Len(u) = Len(a) /\ \A j \in 1..Len(a) : u[j] = t[i + j]
  <2> HIDE DEF i
  <2>1. /\ i + 1 \in 1..(Len(t) + 1) /\ i + Len(a) \in ((i + 1) - 1)..Len(t)
        /\ (i + Len(a)) - (i + 1) + 1 = Len(a)
    BY <1>1, <1>3
  <2>2. \A j \in 1..Len(a) : (i + 1) + j - 1 = i + j
    BY <1>3
  <2>3. /\ u \in Seq(S) /\ Len(u) = Len(a)
        /\ \A j \in 1..Len(a) : u[j] = t[(i + 1) + j - 1]
    BY <2>1, Cut
  <2> HIDE DEF u
  <2> QED
    BY <2>2, <2>3
<1>5. \A j \in 1..Len(a) : a[j] = x[j] /\ j \in 1..Len(x)
  BY <1>1
<1> HIDE DEF i
<1>6. u = a
  <2> HIDE DEF u
  <2>1. \A j \in 1..Len(a) : u[j] = a[j]
    BY <1>2, <1>4, <1>5
  <2> QED
    BY <1>4, <2>1, SeqEqual
<1> QED
  BY <1>3, <1>6 DEF IsWithin

(* The states of the loop of onUartData over the buffer and the bytes read *)
(* into it, the stream: what is in the buffer is less than a frame, and    *)
(* the frames found lie within the stream.                                 *)
ParseState == [buf : Seq(Byte), rest : Seq(Byte), frames : Seq(Seq(Byte))]

Sound(b) == Len(b) <= BufLen /\ Shaped(b) /\ Len(b) < Declared(b)

Parsing(stream) ==
    { s \in ParseState :
        /\ Sound(s.buf)
        /\ Ends(s.buf \o s.rest, stream) \/ (s.rest = <<>> /\ Len(s.buf) = BufLen)
        /\ \A i \in 1..Len(s.frames) : IsWithin(s.frames[i], stream) }

\* An empty buffer holds less than a frame.
LEMMA SoundIfEmpty == ASSUME type \in Types PROVE Sound(<<>>)
<1>1. <<>> \in Seq(Byte)
  OBVIOUS
<1> DEFINE e == <<>>
<1>2. e \in Seq(Byte) /\ Len(e) = 0
  OBVIOUS
<1> HIDE DEF e
<1>3. Declared(e) \in Nat /\ Declared(e) > 0
  BY <1>2, DeclaredType
<1>4. Sound(e)
  BY <1>2, <1>3, HeadType DEF Sound, Shaped
<1> QED
  BY <1>4 DEF e

\* A buffer that is not complete holds less than a frame.
LEMMA SoundIfIncomplete ==
  ASSUME type \in Types, NEW b \in Seq(Byte), Len(b) <= BufLen, Shaped(b), ~Complete(b)
  PROVE  Sound(b)
<1>1. /\ HeadBytes \in Seq(Byte) /\ Len(HeadBytes) \in Nat /\ Len(b) \in Nat
      /\ Declared(b) \in Nat /\ Declared(b) > Len(HeadBytes)
  BY HeadType, DeclaredType
<1>2. ASSUME Len(b) >= Declared(b) PROVE FALSE
  <2>1. Begins(HeadBytes, b)
    BY <1>1, <1>2 DEF Shaped
  <2>2. IsPrefix(HeadBytes, b)
    BY <1>1, <2>1, PrefixMeans DEF Begins
  <2> QED
    BY <1>2, <2>2 DEF Complete
<1> QED
  BY <1>1, <1>2 DEF Sound

\* A turn keeps to these states, and uses up some of the bytes until none is left.
LEMMA ParseKeeps ==
  ASSUME type \in Types, NEW stream \in Seq(Byte), NEW s \in Parsing(stream)
  PROVE  /\ Parse(s) \in Parsing(stream)
         /\ s.rest = <<>> => Parse(s) = s
         /\ s.rest # <<>> => Len(Parse(s).rest) < Len(s.rest)
<1>1. /\ s \in ParseState /\ s.buf \in Seq(Byte) /\ s.rest \in Seq(Byte)
      /\ s.frames \in Seq(Seq(Byte))
      /\ Len(s.buf) <= BufLen /\ Shaped(s.buf) /\ Len(s.buf) < Declared(s.buf)
      /\ Sound(s.buf)
      /\ Ends(s.buf \o s.rest, stream) \/ (s.rest = <<>> /\ Len(s.buf) = BufLen)
      /\ \A i \in 1..Len(s.frames) : IsWithin(s.frames[i], stream)
  BY DEF Parsing, ParseState, Sound
<1>2. CASE s.rest = <<>>
  BY <1>2 DEF Parse
<1>3. CASE s.rest # <<>>
  <2> DEFINE b == s.buf
             in == s.rest
             a == Add(b, in)
  <2>1. /\ b \in Seq(Byte) /\ in \in Seq(Byte) /\ Len(b) <= BufLen /\ Shaped(b)
        /\ Len(b) < Declared(b) /\ in # <<>> /\ Sound(b)
        /\ Len(b) \in Nat /\ Len(in) \in Nat /\ BufLen \in Nat
    BY <1>1, <1>3, HeadType
  <2>2. Ends(b \o in, stream)
    BY <1>1, <1>3
  <2>p. Parse(s) = IF ~Complete(a.buf) THEN [s EXCEPT !.buf = a.buf, !.rest = <<>>]
                   ELSE [buf |-> <<>>, rest |-> a.rest,
                         frames |-> IF Check(a.buf) THEN Append(s.frames, a.buf) ELSE s.frames]
    BY <1>3 DEF Parse
  <2> HIDE DEF b, in
  <2>3. /\ a \in Filling(b \o in)
        /\ a.rest = <<>> \/ Len(a.buf) = BufLen
        /\ Len(b) < BufLen => Len(a.rest) < Len(in)
        /\ Len(b) = BufLen => a.buf = b
    BY <2>1, AddKeeps
  <2> HIDE DEF a
  <2>4. a \in FillState /\ Len(a.buf) <= BufLen /\ Shaped(a.buf) /\ Ends(a.buf \o a.rest, b \o in)
    BY <2>3 DEF Filling
  <2>5. a.buf \in Seq(Byte) /\ a.rest \in Seq(Byte)
    BY <2>4 DEF FillState
  <2>6. Ends(a.buf \o a.rest, stream)
    <3>1. a.buf \o a.rest \in Seq(Byte) /\ b \o in \in Seq(Byte)
      BY <2>1, <2>5, ConcatProperties
    <3> QED
      BY <2>2, <2>4, <3>1, EndsTransitive
  <2>7. CASE ~Complete(a.buf)
    <3> DEFINE p == [buf |-> a.buf, rest |-> <<>>, frames |-> s.frames]
    <3>1. Parse(s) = p
      BY <1>1, <2>7, <2>p DEF ParseState
    <3>2. p \in ParseState /\ p.buf = a.buf /\ p.rest = <<>> /\ p.frames = s.frames
      BY <1>1, <2>5 DEF ParseState
    <3> HIDE DEF p
    <3>3. Sound(p.buf)
      BY <2>4, <2>5, <2>7, <3>2, SoundIfIncomplete
    <3>4. Ends(p.buf \o p.rest, stream) \/ Len(p.buf) = BufLen
      <4>1. CASE a.rest = <<>>
        BY <2>6, <3>2, <4>1
      <4> QED
        BY <2>3, <3>2, <4>1
    <3>5. p \in Parsing(stream)
      BY <1>1, <3>2, <3>3, <3>4 DEF Parsing
    <3>6. Len(p.rest) < Len(in)
      <4>1. Len(in) > 0
        BY <2>1
      <4>2. Len(p.rest) = 0
        BY <3>2
      <4> QED
        BY <2>1, <4>1, <4>2
    <3> QED
      BY <1>3, <3>1, <3>5, <3>6 DEF in
  <2>8. CASE Complete(a.buf)
    <3> DEFINE fr == IF Check(a.buf) THEN Append(s.frames, a.buf) ELSE s.frames
               p == [buf |-> <<>>, rest |-> a.rest, frames |-> fr]
    <3>1. Parse(s) = p
      BY <2>8, <2>p
    <3>2. /\ fr \in Seq(Seq(Byte))
          /\ \A i \in 1..Len(fr) : IsWithin(fr[i], stream)
      <4>1. IsWithin(a.buf, stream)
        BY <2>5, <2>6, WithinIfFollowed
      <4> DEFINE g == Append(s.frames, a.buf)
      <4>2. /\ g \in Seq(Seq(Byte)) /\ Len(g) = Len(s.frames) + 1 /\ Len(s.frames) \in Nat
            /\ \A i \in 1..Len(s.frames) : g[i] = s.frames[i]
            /\ g[Len(s.frames) + 1] = a.buf
        BY <1>1, <2>5, AppendProperties
      <4> DEFINE m == Len(s.frames)
      <4>3. /\ Len(g) = m + 1 /\ m \in Nat
            /\ \A i \in 1..m : g[i] = s.frames[i] /\ IsWithin(s.frames[i], stream)
            /\ g[m + 1] = a.buf
        BY <1>1, <4>2
      <4> HIDE DEF g, m
      <4>4. ASSUME NEW i \in 1..Len(g) PROVE IsWithin(g[i], stream)
        <5>1. i \in 1..m \/ i = m + 1
          BY <4>3
        <5> QED
          BY <4>1, <4>3, <5>1
      <4> QED
        BY <1>1, <4>2, <4>4 DEF g
    <3> HIDE DEF fr
    <3>3. p \in ParseState /\ p.buf = <<>> /\ p.rest = a.rest /\ p.frames = fr
      BY <2>5, <3>2 DEF ParseState
    <3> HIDE DEF p
    <3>4. Ends(p.buf \o p.rest, stream)
      <4> DEFINE x == a.buf \o a.rest
      <4>1. Ends(a.rest, x) /\ x \in Seq(Byte)
        BY <2>5, EndsOfTwo, ConcatProperties
      <4>2. Ends(x, stream)
        BY <2>6
      <4> HIDE DEF x
      <4>3. Ends(a.rest, stream)
        BY <2>5, <4>1, <4>2, EndsTransitive
      <4>4. p.buf \o p.rest = a.rest
        BY <2>5, <3>3, ConcatEmptySeq
      <4> QED
        BY <4>3, <4>4
    <3>5. p \in Parsing(stream)
      <4>1. Sound(p.buf)
        BY <3>3, SoundIfEmpty
      <4> QED
        BY <3>2, <3>3, <3>4, <4>1 DEF Parsing
    <3>6. Len(b) # BufLen
      <4>1. ASSUME Len(b) = BufLen PROVE FALSE
        <5>1. Complete(b)
          BY <2>3, <2>8, <4>1
        <5>2. Declared(b) \in Nat
          BY <2>1, DeclaredType
        <5> QED
          BY <2>1, <5>1, <5>2 DEF Complete
      <4> QED
        BY <4>1
    <3>7. Len(p.rest) < Len(in)
      BY <2>1, <2>3, <3>3, <3>6
    <3> QED
      BY <1>3, <3>1, <3>5, <3>7 DEF in
  <2> QED
    BY <2>7, <2>8
<1> QED
  BY <1>2, <1>3

Begun(b, in) == [buf |-> b, rest |-> in, frames |-> <<>>]

ParseLoop(b, in, r) ==
    /\ OnUartData(b, in) = r[Len(in)]
    /\ r[0] = Begun(b, in)
    /\ \A k \in 1..Len(in) : r[k] = Parse(r[k - 1])

\* onUartData is the last state of its loop.
LEMMA ParseTurns ==
  ASSUME type \in Types, NEW b \in Seq(Byte), Sound(b), NEW in \in Seq(Byte)
  PROVE  /\ Begun(b, in) \in Parsing(b \o in)
         /\ \E r : ParseLoop(b, in, r)
<1> DEFINE n == Len(in)
           st == Begun(b, in)
           T == Parsing(b \o in)
           Loop(f) == f = [k \in 0..n |-> IF k = 0 THEN [buf |-> b, rest |-> in, frames |-> <<>>]
                                          ELSE Parse(f[k - 1])]
           turn == CHOOSE f : Loop(f)
<1>1. n \in Nat /\ b \o in \in Seq(Byte)
  BY ConcatProperties
<1>2. st \in T
  <2>1. st \in ParseState /\ st.buf = b /\ st.rest = in /\ st.frames = <<>>
    BY DEF Begun, ParseState
  <2>2. Ends(b \o in, b \o in)
    BY <1>1, EndsSelf
  <2> HIDE DEF st
  <2> QED
    BY <2>1, <2>2 DEF Parsing
<1>3. \A s \in T : Parse(s) \in T
  BY <1>1, ParseKeeps
<1> HIDE DEF T
<1>4. \E f : Loop(f)
  <2> DEFINE next == [p \in Nat \X T |-> Parse(p[2])]
  <2>1. next \in [Nat \X T -> T]
    BY <1>3
  <2>2. \A k \in Nat, s \in T : next[<<k, s>>] = Parse(s)
    OBVIOUS
  <2> HIDE DEF next, st
  <2>3. Turning(T, st, next, n) # {}
    BY <1>1, <1>2, <2>1, LoopExists, ZenonT(30)
  <2> HIDE DEF n
  <2>4. PICK f \in [0..n -> T] :
               f[0] = st /\ \A k \in 1..n : f[k] = next[<<k, f[k - 1]>>]
    BY <2>3 DEF Turning
  <2>5. \A k \in 1..n : f[k] = Parse(f[k - 1])
    <3>1. \A k \in 1..n : f[k - 1] \in T /\ k \in Nat
      BY <1>1
    <3> QED
      BY <2>2, <2>4, <3>1
  <2>6. f = [k \in 0..n |-> IF k = 0 THEN st ELSE Parse(f[k - 1])]
    <3>1. f = [k \in 0..n |-> f[k]]
      OBVIOUS
    <3>2. \A k \in 0..n : f[k] = IF k = 0 THEN st ELSE Parse(f[k - 1])
      BY <1>1, <2>4, <2>5
    <3> QED
      BY <3>1, <3>2
  <2>7. Loop(f)
    BY <2>6 DEF st, Begun
  <2> QED
    BY <2>7
<1>5. Loop(turn)
  BY <1>4
<1>6. OnUartData(b, in) = turn[n]
  BY DEF OnUartData
<1> HIDE DEF turn
<1>7. turn[0] = st /\ \A k \in 1..n : turn[k] = Parse(turn[k - 1])
  <2>1. 0 \in 0..n /\ \A k \in 1..n : k \in 0..n /\ k # 0
    BY <1>1
  <2> HIDE DEF n
  <2>2. \A k \in 0..n : turn[k] = IF k = 0 THEN [buf |-> b, rest |-> in, frames |-> <<>>]
                                  ELSE Parse(turn[k - 1])
    BY <1>5
  <2>3. turn[0] = st
    BY <2>1, <2>2 DEF Begun
  <2> HIDE DEF st
  <2> QED
    BY <2>1, <2>2, <2>3
<1>8. ParseLoop(b, in, turn)
  BY <1>6, <1>7 DEF ParseLoop
<1> QED
  BY <1>2, <1>8 DEF T

\* onUartData uses up what was read: its loop has as many turns as it needs.
LEMMA OnUartDataKeeps ==
  ASSUME type \in Types, NEW b \in Seq(Byte), Sound(b), NEW in \in Seq(Byte)
  PROVE  /\ OnUartData(b, in) \in Parsing(b \o in)
         /\ OnUartData(b, in).rest = <<>>
<1> DEFINE n == Len(in)
           P == Parsing(b \o in)
           T == [k \in 0..n |-> { s \in P : Len(s.rest) <= n - k }]
<1>1. n \in Nat /\ b \o in \in Seq(Byte)
  BY ConcatProperties
<1>0. PICK r : ParseLoop(b, in, r)
  BY ParseTurns
<1>2. /\ OnUartData(b, in) = r[n] /\ r[0] = Begun(b, in) /\ Begun(b, in) \in P
      /\ \A k \in 1..n : r[k] = Parse(r[k - 1])
  <2>1. Begun(b, in) \in P
    BY ParseTurns
  <2> HIDE DEF P, T
  <2> QED
    BY <1>0, <2>1 DEF ParseLoop
<1>3. ASSUME NEW s \in P
      PROVE  /\ s.rest \in Seq(Byte) /\ Len(s.rest) \in Nat
             /\ Parse(s) \in P
             /\ s.rest = <<>> => Parse(s) = s
             /\ s.rest # <<>> => Len(Parse(s).rest) < Len(s.rest)
  <2>1. s.rest \in Seq(Byte)
    BY DEF Parsing, ParseState
  <2>2. /\ Parse(s) \in P
        /\ s.rest = <<>> => Parse(s) = s
        /\ s.rest # <<>> => Len(Parse(s).rest) < Len(s.rest)
    BY <1>1, ParseKeeps
  <2> HIDE DEF P
  <2> QED
    BY <2>1, <2>2
<1> HIDE DEF P
<1>4. r[0] \in T[0]
  <2>1. r[0].rest = in
    BY <1>2 DEF Begun
  <2>2. r[0] \in P /\ 0 \in 0..n
    BY <1>1, <1>2
  <2> QED
    BY <1>1, <2>1, <2>2
<1>5. ASSUME NEW k \in 1..n, r[k - 1] \in T[k - 1] PROVE r[k] \in T[k]
  <2> DEFINE p == r[k - 1]
             f == Parse(p)
  <2>1. k \in 0..n /\ k - 1 \in 0..n
    BY <1>1
  <2>2. p \in P /\ Len(p.rest) <= n - (k - 1)
    BY <1>5, <2>1
  <2>3. r[k] = f
    BY <1>2
  <2> HIDE DEF p
  <2>4. /\ Len(p.rest) \in Nat /\ f \in P
        /\ p.rest = <<>> => f = p
        /\ p.rest # <<>> => Len(f.rest) < Len(p.rest)
    BY <1>3, <2>2
  <2> HIDE DEF f
  <2>5. Len(f.rest) \in Nat
    BY <1>3, <2>4
  <2>6. Len(f.rest) <= n - k
    <3>1. CASE p.rest = <<>>
      <4>1. Len(f.rest) = 0
        BY <2>4, <3>1
      <4> QED
        BY <1>1, <2>1, <4>1
    <3>2. CASE p.rest # <<>>
      BY <1>1, <2>1, <2>2, <2>4, <2>5, <3>2
    <3> QED
      BY <3>1, <3>2
  <2> QED
    BY <2>1, <2>3, <2>4, <2>6
<1>6. r[n] \in T[n]
  <2>1. n \in 0..n
    BY <1>1
  <2> HIDE DEF T, n
  <2> QED
    BY <1>1, <1>4, <1>5, <2>1, LoopStays
<1>7. r[n] \in P /\ Len(r[n].rest) <= 0
  BY <1>1, <1>6
<1> HIDE DEF T, n
<1> DEFINE a == r[n]
<1>8. a \in P /\ Len(a.rest) <= 0 /\ OnUartData(b, in) = a
  BY <1>2, <1>7
<1> HIDE DEF a
<1>9. a.rest = <<>>
  <2>1. a.rest \in Seq(Byte)
    BY <1>3, <1>8
  <2> QED
    BY <1>8, <2>1
<1> QED
  BY <1>8, <1>9 DEF P

-------------------------------------------------------------------------------
(* Recognising a frame. *)

\* A buffer that begins with a head is kept as it is.
LEMMA HeadFirst ==
  ASSUME type \in Types, NEW b \in Seq(Byte), Begins(HeadBytes, b)
  PROVE  Heads(b) # {} /\ FromHead(b) = b
<1> DEFINE H == HeadBytes
           m == Len(HeadBytes)
           n == Len(b)
<1>1. H \in Seq(Byte) /\ m \in 2..3 /\ n \in Nat
  BY HeadType
<1>2. m <= n /\ \A j \in 1..m : H[j] = b[j]
  BY DEF Begins
<1>3. /\ Heads(b) \in SUBSET Nat
      /\ \A i \in Nat : i \in Heads(b) <=>
           i \in 1..(n - m + 1) /\ \A j \in 1..m : H[j] = b[i + j - 1]
  BY HeadsMeans
<1> HIDE DEF H, m, n
<1>4. 1 \in Heads(b)
  <2>1. 1 \in 1..(n - m + 1) /\ \A j \in 1..m : 1 + j - 1 = j
    BY <1>1, <1>2
  <2>2. \A j \in 1..m : H[j] = b[1 + j - 1]
    BY <1>2, <2>1
  <2> QED
    BY <1>3, <2>1, <2>2
<1>5. Min(Heads(b)) = 1
  <2>1. Min(Heads(b)) \in Heads(b) /\ \A y \in Heads(b) : Min(Heads(b)) <= y
    BY <1>3, <1>4, MinMember
  <2> DEFINE k == Min(Heads(b))
  <2>2. k \in Heads(b) /\ k <= 1
    BY <1>4, <2>1
  <2> HIDE DEF k
  <2>3. k \in Nat /\ k \in 1..(n - m + 1)
    BY <1>3, <2>2
  <2>4. k = 1
    BY <1>1, <2>2, <2>3
  <2> QED
    BY <2>4 DEF k
<1>6. SubSeq(b, 1, Len(b)) = b
  BY SubSeqFull
<1> QED
  BY <1>4, <1>5, <1>6 DEF FromHead

\* Input that the buffer has room for is taken in one turn.
LEMMA FillWhole ==
  ASSUME type \in Types, NEW b \in Seq(Byte), NEW in \in Seq(Byte), in # <<>>,
         Len(b) + Len(in) <= BufLen, Len(b \o in) > Len(HeadBytes)
  PROVE  Fill(Started(b, in)) = [buf |-> FromHead(b \o in), rest |-> <<>>,
                                 found |-> Heads(b \o in) # {}]
<1> DEFINE s == Started(b, in)
<1>1. s \in FillState /\ s.buf = b /\ s.rest = in /\ s.found = FALSE
  BY DEF Started, FillState
<1>2. Len(b) \in Nat /\ Len(in) \in Nat /\ Len(in) > 0 /\ BufLen \in Nat
  BY HeadType
<1> HIDE DEF s
<1>3. Len(s.buf) < BufLen
  <2>1. Len(b) < BufLen
    BY <1>2
  <2> QED
    BY <1>1, <2>1
<1>4. PICK c \in Seq(Byte), r \in Seq(Byte) : Turns(s, c, r)
  BY <1>1, <1>3, FillTakes
<1>5. Len(c) = Len(in)
  <2>1. Len(c) = IF BufLen - Len(b) <= Len(in) THEN BufLen - Len(b) ELSE Len(in)
    BY <1>1, <1>4 DEF Turns
  <2> DEFINE x == Len(b)
             y == Len(in)
  <2>2. /\ x \in Nat /\ y \in Nat /\ x + y <= BufLen
        /\ Len(c) = IF BufLen - x <= y THEN BufLen - x ELSE y
    BY <1>2, <2>1
  <2> HIDE DEF x, y
  <2>3. Len(c) = y
    BY <1>2, <2>2
  <2> QED
    BY <2>3 DEF y
<1>6. in = c \o r /\ Len(r) = 0
  <2>1. in = c \o r /\ Len(r) = Len(in) - Len(c)
    BY <1>1, <1>4 DEF Turns
  <2> QED
    BY <1>2, <1>5, <2>1
<1>7. r = <<>> /\ c = in
  <2>1. r = <<>>
    BY <1>6
  <2>2. c \o r = c
    BY <2>1, ConcatEmptySeq
  <2> QED
    BY <1>6, <2>1, <2>2
<1>8. ~s.found /\ s.buf \o c = b \o in
  BY <1>1, <1>7
<1>9. Fill(s) = [buf |-> FromHead(b \o in), rest |-> r, found |-> Heads(b \o in) # {}]
  BY <1>4, <1>8 DEF Turns
<1> QED
  BY <1>7, <1>9 DEF s

\* The same of add.
LEMMA AddWhole ==
  ASSUME type \in Types, NEW b \in Seq(Byte), Shaped(b), NEW in \in Seq(Byte), in # <<>>,
         Len(b) + Len(in) <= BufLen, Len(b \o in) > Len(HeadBytes)
  PROVE  Add(b, in).buf = FromHead(b \o in) /\ Add(b, in).rest = <<>>
<1> DEFINE n == Len(in)
           x == [buf |-> FromHead(b \o in), rest |-> <<>>, found |-> Heads(b \o in) # {}]
           T == [k \in 0..n |-> IF k = 0 THEN {Started(b, in)} ELSE {x}]
<1>1. n \in Nat /\ n > 0 /\ Len(b) \in Nat /\ BufLen \in Nat
  BY HeadType
<1>0. PICK r : AddLoop(b, in, r)
  <2>1. Len(b) <= BufLen
    BY <1>1
  <2> QED
    BY <2>1, AddTurns
<1>2. /\ Add(b, in) = r[n] /\ r[0] = Started(b, in)
      /\ \A k \in 1..n : r[k] = Fill(r[k - 1])
  BY <1>0 DEF AddLoop
<1>3. Fill(Started(b, in)) = x
  BY FillWhole
<1>4. x.buf = FromHead(b \o in) /\ x.rest = <<>>
  OBVIOUS
<1> HIDE DEF x
<1>5. Fill(x) = x
  BY <1>4 DEF Fill
<1>6. T[0] = {Started(b, in)} /\ \A k \in 1..n : T[k] = {x} /\ k \in 0..n
  BY <1>1
<1>7. ASSUME NEW k \in 1..n, r[k - 1] \in T[k - 1] PROVE r[k] \in T[k]
  <2>1. k = 1 \/ k - 1 \in 1..n
    BY <1>1
  <2>2. r[k - 1] = Started(b, in) \/ r[k - 1] = x
    <3>1. CASE k = 1
      <4>1. k - 1 = 0
        BY <3>1
      <4> QED
        BY <1>2, <4>1
    <3>2. CASE k - 1 \in 1..n
      <4> HIDE DEF T
      <4> QED
        BY <1>6, <1>7, <3>2
    <3> QED
      BY <2>1, <3>1, <3>2
  <2> HIDE DEF T, n
  <2>3. r[k] = x
    BY <1>2, <1>3, <1>5, <2>2
  <2> QED
    BY <1>6, <2>3
<1>8. n \in 0..n /\ n \in 1..n
  BY <1>1
<1> HIDE DEF T, n
<1>9. r[n] \in T[n]
  <2>1. r[0] \in T[0]
    BY <1>2, <1>6
  <2> QED
    BY <1>1, <1>7, <1>8, <2>1, LoopStays
<1> QED
  BY <1>2, <1>4, <1>6, <1>8, <1>9

\* If the first turn of onUartData uses up what was read and completes a
\* frame, the buffer is empty in the end.
LEMMA OneTurn ==
  ASSUME type \in Types, NEW b \in Seq(Byte), Sound(b), NEW in \in Seq(Byte), in # <<>>,
         NEW c \in Seq(Byte), Add(b, in).buf = c, Add(b, in).rest = <<>>, Complete(c)
  PROVE  /\ OnUartData(b, in).buf = <<>>
         /\ Check(c) => OnUartData(b, in).frames = <<c>>
<1>0. PICK r : ParseLoop(b, in, r)
  BY ParseTurns
<1> DEFINE n == Len(in)
           fr == IF Check(c) THEN Append(<<>>, c) ELSE <<>>
           x == [buf |-> <<>>, rest |-> <<>>, frames |-> fr]
           T == [k \in 0..n |-> IF k = 0 THEN {Begun(b, in)} ELSE {x}]
<1>1. n \in Nat /\ n > 0
  OBVIOUS
<1>2. /\ OnUartData(b, in) = r[n] /\ r[0] = Begun(b, in)
      /\ \A k \in 1..n : r[k] = Parse(r[k - 1])
  BY <1>0 DEF ParseLoop
<1>3. Parse(Begun(b, in)) = x
  <2> DEFINE s == Begun(b, in)
  <2>1. s.buf = b /\ s.rest = in /\ s.frames = <<>>
    BY DEF Begun
  <2> HIDE DEF s
  <2>2. Parse(s) = x
    BY <2>1 DEF Parse
  <2> QED
    BY <2>2 DEF s
<1>4. x.buf = <<>> /\ x.rest = <<>> /\ (Check(c) => x.frames = <<c>>)
  OBVIOUS
<1> HIDE DEF x
<1>5. Parse(x) = x
  BY <1>4 DEF Parse
<1>6. T[0] = {Begun(b, in)} /\ \A k \in 1..n : T[k] = {x} /\ k \in 0..n
  BY <1>1
<1>7. ASSUME NEW k \in 1..n, r[k - 1] \in T[k - 1] PROVE r[k] \in T[k]
  <2>1. k = 1 \/ k - 1 \in 1..n
    BY <1>1
  <2>2. r[k - 1] = Begun(b, in) \/ r[k - 1] = x
    <3>1. CASE k = 1
      <4>1. k - 1 = 0
        BY <3>1
      <4> QED
        BY <1>2, <4>1
    <3>2. CASE k - 1 \in 1..n
      <4> HIDE DEF T
      <4> QED
        BY <1>6, <1>7, <3>2
    <3> QED
      BY <2>1, <3>1, <3>2
  <2> HIDE DEF T, n
  <2>3. r[k] = x
    BY <1>2, <1>3, <1>5, <2>2
  <2> QED
    BY <1>6, <2>3
<1>8. n \in 0..n /\ n \in 1..n
  BY <1>1
<1> HIDE DEF T, n
<1>9. r[n] \in T[n]
  <2>1. r[0] \in T[0]
    BY <1>2, <1>6
  <2> QED
    BY <1>1, <1>7, <1>8, <2>1, LoopStays
<1> QED
  BY <1>2, <1>4, <1>6, <1>8, <1>9

\* Two parts and a check code.
Framed(h, t) == Append(h \o t, Sum(h \o t))

\* The bytes of a frame: its head, its body, and the check code of both.
LEMMA FramedMeans ==
  ASSUME NEW h \in Seq(Byte), NEW t \in Seq(Byte)
  PROVE  LET f == Framed(h, t)
         IN  /\ f \in Seq(Byte) /\ Len(f) = Len(h) + Len(t) + 1
             /\ \A i \in 1..Len(h) : f[i] = h[i]
             /\ \A i \in 1..Len(t) : f[Len(h) + i] = t[i]
             /\ f[Len(f)] = Sum(SubSeq(f, 1, Len(f) - 1))
<1> DEFINE x == h \o t
           s == Sum(x)
           f == Append(x, s)
           m == Len(h)
           n == Len(t)
<1>1. /\ m \in Nat /\ n \in Nat /\ x \in Seq(Byte) /\ Len(x) = m + n
      /\ \A i \in 1..(m + n) : x[i] = IF i <= m THEN h[i] ELSE t[i - m]
  BY ConcatProperties
<1>2. s \in Byte
  BY <1>1, SumType
<1>0. f = Framed(h, t)
  BY DEF Framed
<1> HIDE DEF s
<1>3. /\ f \in Seq(Byte) /\ Len(f) = Len(x) + 1 /\ f[Len(x) + 1] = s
      /\ \A i \in 1..Len(x) : f[i] = x[i]
  <2> HIDE DEF x
  <2>1. x \in Seq(Byte) /\ s \in Byte
    BY <1>1, <1>2
  <2>2. /\ Append(x, s) \in Seq(Byte) /\ Len(Append(x, s)) = Len(x) + 1
        /\ Append(x, s)[Len(x) + 1] = s
        /\ \A i \in 1..Len(x) : Append(x, s)[i] = x[i]
    BY <2>1, AppendProperties, SMTT(30)
  <2> QED
    BY <2>2
<1> HIDE DEF x, f, m, n
<1>4. Len(f) = m + n + 1 /\ f[Len(f)] = s /\ \A i \in 1..(m + n) : f[i] = x[i]
  BY <1>1, <1>3
<1>5. \A i \in 1..m : f[i] = h[i]
  <2>1. \A i \in 1..m : i \in 1..(m + n) /\ i <= m
    BY <1>1
  <2> QED
    BY <1>1, <1>4, <2>1
<1>6. \A i \in 1..n : f[m + i] = t[i]
  <2>1. \A i \in 1..n : m + i \in 1..(m + n) /\ ~ (m + i <= m) /\ (m + i) - m = i
    BY <1>1
  <2>2. ASSUME NEW i \in 1..n PROVE f[m + i] = t[i]
    <3> DEFINE k == m + i
    <3>1. k \in 1..(m + n) /\ ~ (k <= m) /\ k - m = i
      BY <2>1
    <3> HIDE DEF k
    <3>2. f[k] = t[i]
      BY <1>1, <1>4, <3>1
    <3> QED
      BY <3>2 DEF k
  <2> QED
    BY <2>2
<1>7. SubSeq(f, 1, Len(f) - 1) = x
  <2> DEFINE u == SubSeq(f, 1, Len(f) - 1)
  <2>1. /\ 1 \in 1..(Len(f) + 1) /\ Len(f) - 1 \in (1 - 1)..Len(f)
        /\ (Len(f) - 1) - 1 + 1 = m + n
        /\ \A i \in 1..(m + n) : 1 + i - 1 = i
    BY <1>1, <1>4
  <2>2. u \in Seq(Byte) /\ Len(u) = m + n /\ \A i \in 1..(m + n) : u[i] = f[1 + i - 1]
    BY <1>3, <2>1, Cut
  <2> HIDE DEF u
  <2>3. \A i \in 1..(m + n) : u[i] = x[i]
    BY <1>4, <2>1, <2>2
  <2>4. u = x
    BY <1>1, <2>2, <2>3, SeqEqual
  <2> QED
    BY <2>4 DEF u
<1>8. f[Len(f)] = Sum(SubSeq(f, 1, Len(f) - 1))
  BY <1>4, <1>7 DEF s
<1> QED
  BY <1>0, <1>3, <1>4, <1>5, <1>6, <1>8 DEF m, n

\* A frame begins with a head, is as long as it says, passes the check and
\* fits into the buffer.
LEMMA GoodFrame ==
  ASSUME type \in Types, NEW f \in GoodFrames
  PROVE  /\ f \in Seq(Byte) /\ Begins(HeadBytes, f)
         /\ Len(f) > Len(HeadBytes) /\ Len(f) <= BufLen
         /\ Declared(f) = Len(f) /\ Check(f)
         /\ type = "BT_MCU" => Len(f) = FrameLen
<1> DEFINE H == HeadBytes
<1>1. H \in Seq(Byte) /\ Len(H) \in 2..3 /\ FrameLen \in Nat /\ FrameLen > 3
  BY HeadType
<1>2. \E t \in Seq(Byte) :
         /\ f = Framed(H, t)
         /\ type = "BT_MCU" => Len(t) = FrameLen - 3 /\ Len(H) = 2
         /\ type # "BT_MCU" => /\ Len(t) >= 3 /\ Len(t) = 3 + t[2] * Modulus + t[3]
                               /\ Len(t) + 4 <= TuyaBufLen /\ Len(H) = 3
  <2>1. CASE type = "BT_MCU"
    <3>1. f \in Frames(McuHead, McuBodies) /\ H = McuHead
      BY <2>1 DEF GoodFrames, HeadBytes
    <3>2. PICK t \in McuBodies : f = Framed(H, t)
      BY <3>1 DEF Frames, Framed
    <3>3. t \in [1..(FrameLen - 3) -> Byte] /\ McuHead \in [1..2 -> Byte] /\ 2 \in Nat
      BY <3>2, ParserConstants
    <3>4. FrameLen - 3 \in Nat
      BY <1>1
    <3>5. t \in Seq(Byte) /\ Len(t) = FrameLen - 3
      BY <3>3, <3>4, AsSequence
    <3>6. Len(McuHead) = 2
      BY <3>3, AsSequence
    <3> QED
      BY <2>1, <3>1, <3>2, <3>5, <3>6
  <2>2. CASE type # "BT_MCU"
    <3>1. f \in Frames(TuyaHead, TuyaBodies) /\ H = TuyaHead
      BY <2>2 DEF GoodFrames, HeadBytes
    <3>2. PICK t \in TuyaBodies : f = Framed(H, t)
      BY <3>1 DEF Frames, Framed
    <3>3. /\ t \in Seq(Byte) /\ Len(t) >= 3
          /\ Len(t) = 3 + t[2] * Modulus + t[3] /\ Len(t) + 4 <= TuyaBufLen
          /\ TuyaHead \in [1..3 -> Byte] /\ 3 \in Nat
      BY <3>2, ParserConstants
    <3>4. Len(TuyaHead) = 3
      BY <3>3, AsSequence
    <3> QED
      BY <2>2, <3>1, <3>2, <3>3, <3>4
  <2> QED
    BY <2>1, <2>2
<1>3. PICK t \in Seq(Byte) :
         /\ f = Framed(H, t)
         /\ type = "BT_MCU" => Len(t) = FrameLen - 3 /\ Len(H) = 2
         /\ type # "BT_MCU" => /\ Len(t) >= 3 /\ Len(t) = 3 + t[2] * Modulus + t[3]
                               /\ Len(t) + 4 <= TuyaBufLen /\ Len(H) = 3
  BY <1>2
<1>4. /\ f \in Seq(Byte) /\ Len(f) = Len(H) + Len(t) + 1
      /\ \A i \in 1..Len(H) : f[i] = H[i]
      /\ \A i \in 1..Len(t) : f[Len(H) + i] = t[i]
      /\ f[Len(f)] = Sum(SubSeq(f, 1, Len(f) - 1))
  <2> HIDE DEF H
  <2> QED
    BY <1>1, <1>3, FramedMeans
<1>5. Len(t) \in Nat
  OBVIOUS
<1>6. Begins(H, f) /\ Len(f) > Len(H)
  <2> HIDE DEF H
  <2> QED
    BY <1>1, <1>4, <1>5 DEF Begins
<1>7. Declared(f) = Len(f) /\ Len(f) <= BufLen /\ (type = "BT_MCU" => Len(f) = FrameLen)
  <2>1. CASE type = "BT_MCU"
    <3>1. Len(f) = FrameLen
      <4>1. Len(t) = FrameLen - 3 /\ Len(H) = 2 /\ Len(f) = Len(H) + Len(t) + 1
        BY <1>3, <1>4, <2>1
      <4> DEFINE x == Len(t)
                 y == Len(H)
                 z == Len(f)
      <4>2. x = FrameLen - 3 /\ y = 2 /\ z = y + x + 1
        BY <4>1
      <4> HIDE DEF x, y, z
      <4>3. z = FrameLen
        BY <1>1, <4>2
      <4> QED
        BY <4>3 DEF z
    <3>2. Declared(f) = FrameLen /\ BufLen = 2 * FrameLen
      BY <2>1, ParserConstants DEF Declared, BufLen
    <3> QED
      BY <1>1, <3>1, <3>2
  <2>2. CASE type # "BT_MCU"
    <3> DEFINE w == t[2] * Modulus
    <3>0. Modulus \in Nat \ {0} /\ TuyaBufLen \in Nat
      BY ParserConstants
    <3>1. Len(t) >= 3
      BY <1>3, <2>2
    <3>2. t[2] \in Nat /\ t[3] \in Nat
      <4>1. 2 \in 1..Len(t) /\ 3 \in 1..Len(t)
        BY <1>5, <3>1
      <4>2. t[2] \in Byte /\ t[3] \in Byte
        BY <4>1, ElementOfSeq
      <4> QED
        BY <3>0, <4>2 DEF Byte
    <3>3. w \in Nat
      BY <3>0, <3>2
    <3>4. Len(t) = 3 + w + t[3] /\ Len(t) + 4 <= TuyaBufLen /\ Len(H) = 3
      BY <1>3, <2>2
    <3>5. f[3 + 2] = t[2] /\ f[3 + 3] = t[3]
      BY <1>4, <1>5, <3>1, <3>4
    <3>6. Len(f) = 7 + w + t[3] /\ Len(f) <= TuyaBufLen /\ ~ (Len(f) < 6)
      <4> DEFINE x == Len(t)
                 y == Len(H)
                 z == Len(f)
                 v == t[3]
      <4>1. /\ z = y + x + 1 /\ x = 3 + w + v /\ x + 4 <= TuyaBufLen /\ y = 3
            /\ x \in Nat /\ v \in Nat
        BY <1>4, <1>5, <3>2, <3>4
      <4> HIDE DEF w, x, y, z, v
      <4>2. z = 7 + w + v /\ z <= TuyaBufLen /\ ~ (z < 6)
        BY <3>0, <3>3, <4>1
      <4> QED
        BY <4>2 DEF z, v
    <3>7. Declared(f) = w + t[3] + 7
      BY <2>2, <3>5, <3>6 DEF Declared
    <3>8. Declared(f) = Len(f)
      <4> HIDE DEF w
      <4> QED
        BY <3>2, <3>3, <3>6, <3>7
    <3> QED
      BY <2>2, <3>6, <3>8 DEF BufLen
  <2> QED
    BY <2>1, <2>2
<1>8. Check(f)
  BY <1>4, <1>7 DEF Check
<1> QED
  BY <1>4, <1>6, <1>7, <1>8

\* A buffer with a head and enough bytes is complete.
LEMMA CompleteIfBegun ==
  ASSUME type \in Types, NEW b \in Seq(Byte), Begins(HeadBytes, b), Declared(b) <= Len(b)
  PROVE  Complete(b)
<1>1. HeadBytes \in Seq(Byte) /\ Declared(b) \in Nat /\ Len(b) \in Nat
  BY HeadType, DeclaredType
<1>2. IsPrefix(HeadBytes, b)
  BY <1>1, PrefixMeans DEF Begins
<1> QED
  BY <1>1, <1>2 DEF Complete

\* What is read into an empty buffer and begins with a good frame is kept whole.
LEMMA ReadAlone ==
  ASSUME type \in Types, NEW in \in Seq(Byte), Begins(HeadBytes, in),
         Len(in) > Len(HeadBytes), Len(in) <= BufLen, Declared(in) <= Len(in), Check(in)
  PROVE  OnUartData(<<>>, in).buf = <<>> /\ OnUartData(<<>>, in).frames = <<in>>
<1> DEFINE e == <<>>
<1>1. e \in Seq(Byte) /\ Len(e) = 0 /\ e \o in = in /\ Sound(e)
  BY ConcatEmptySeq, SoundIfEmpty
<1>2. /\ Len(HeadBytes) \in Nat /\ Len(in) \in Nat /\ BufLen \in Nat
      /\ in # <<>>
  BY HeadType
<1> HIDE DEF e
<1>3. Shaped(e)
  BY <1>1 DEF Sound
<1>4. FromHead(in) = in
  BY HeadFirst
<1>5. Len(e) + Len(in) <= BufLen
  BY <1>1, <1>2
<1>6. Add(e, in).buf = in /\ Add(e, in).rest = <<>>
  <2>1. Add(e, in).buf = FromHead(e \o in) /\ Add(e, in).rest = <<>>
    <3>1. Len(e \o in) > Len(HeadBytes)
      BY <1>1
    <3> QED
      BY <1>1, <1>2, <1>3, <1>5, <3>1, AddWhole
  <2> QED
    BY <1>1, <1>4, <2>1
<1>7. Complete(in)
  BY CompleteIfBegun
<1>8. OnUartData(e, in).buf = <<>> /\ OnUartData(e, in).frames = <<in>>
  BY <1>1, <1>2, <1>6, <1>7, OneTurn
<1> QED
  BY <1>8 DEF e

\* On the control board's line, a read of a good frame empties the buffer.
LEMMA ReadAfterLoss ==
  ASSUME type \in Types, type = "BT_MCU", NEW b \in Seq(Byte), Sound(b), NEW f \in GoodFrames
  PROVE  OnUartData(b, f).buf = <<>>
<1> DEFINE H == HeadBytes
           m == Len(HeadBytes)
           n == Len(b)
           x == b \o f
           k == FromHead(x)
<1>1. H \in Seq(Byte) /\ m \in 2..3 /\ FrameLen \in Nat /\ FrameLen > 3 /\ n \in Nat
  BY HeadType
<1>2. f \in Seq(Byte) /\ Begins(H, f) /\ Len(f) = FrameLen
  BY GoodFrame
<1>3. BufLen = 2 * FrameLen /\ n < FrameLen /\ Shaped(b)
  BY ParserConstants DEF BufLen, Sound, Declared
<1>4. /\ x \in Seq(Byte) /\ Len(x) = n + FrameLen
      /\ \A i \in 1..(n + FrameLen) : x[i] = IF i <= n THEN b[i] ELSE f[i - n]
  BY <1>2, ConcatProperties
<1>5. f # <<>> /\ n + Len(f) <= BufLen /\ Len(x) > m
  <2>1. f # <<>>
    BY <1>1, <1>2
  <2> HIDE DEF n, m, x
  <2> QED
    BY <1>1, <1>2, <1>3, <1>4, <2>1
<1>6. Add(b, f).buf = k /\ Add(b, f).rest = <<>>
  BY <1>2, <1>3, <1>5, AddWhole
<1>7. n + 1 \in Heads(x)
  <2>1. m <= FrameLen /\ \A j \in 1..m : H[j] = f[j]
    BY <1>2 DEF Begins
  <2> HIDE DEF H, x
  <2>2. ASSUME NEW j \in 1..m PROVE H[j] = x[(n + 1) + j - 1]
    <3> DEFINE i == (n + 1) + j - 1
    <3> HIDE DEF m, n
    <3>1. i \in 1..(n + FrameLen) /\ ~ (i <= n) /\ i - n = j
      BY <1>1, <2>1
    <3> HIDE DEF i
    <3>2. x[i] = f[j]
      BY <1>4, <3>1
    <3> QED
      BY <2>1, <3>2 DEF i
  <2>3. n + 1 \in Nat /\ n + 1 \in 1..(Len(x) - m + 1)
    <3> HIDE DEF m, n
    <3> QED
      BY <1>1, <1>4, <2>1
  <2>4. \A i \in Nat : i \in Heads(x) <=>
          i \in 1..(Len(x) - m + 1) /\ \A j \in 1..m : H[j] = x[i + j - 1]
    BY <1>4, HeadsMeans DEF H
  <2> HIDE DEF m, n
  <2> QED
    BY <2>2, <2>3, <2>4
<1>8. k \in Seq(Byte) /\ Begins(H, k)
  <2> HIDE DEF x
  <2> QED
    BY <1>4, <1>7, FromHeadKeeps
<1>9. Len(k) >= FrameLen
  <2> DEFINE j == Min(Heads(x))
             u == SubSeq(x, j, Len(x))
  <2>1. Heads(x) \in SUBSET Nat /\ \A i \in Nat : i \in Heads(x) => i \in 1..(Len(x) - m + 1)
    <3> HIDE DEF x
    <3> QED
      BY <1>4, HeadsMeans
  <2>2. j \in Heads(x) /\ j <= n + 1
    <3> HIDE DEF x
    <3> QED
      BY <1>7, <2>1, MinMember
  <2>3. k = u
    BY <1>7 DEF FromHead
  <2> HIDE DEF j, x, n, m, k
  <2>4. j \in Nat /\ j >= 1 /\ j <= n + 1
    BY <2>1, <2>2
  <2>5. j \in 1..(Len(x) + 1) /\ Len(x) \in (j - 1)..Len(x) /\ Len(x) - j + 1 >= FrameLen
    BY <1>1, <1>4, <2>4
  <2>6. Len(u) = Len(x) - j + 1
    BY <1>4, <2>5, Cut
  <2> QED
    BY <2>3, <2>5, <2>6
<1> HIDE DEF k
<1>10. Complete(k)
  <2>1. Declared(k) = FrameLen
    BY DEF Declared
  <2>2. Declared(k) <= Len(k)
    <3>1. Len(k) \in Nat
      BY <1>8
    <3> QED
      BY <1>1, <1>9, <2>1, <3>1
  <2> QED
    BY <1>8, <2>2, CompleteIfBegun
<1> QED
  BY <1>2, <1>5, <1>6, <1>8, <1>10, OneTurn

\* Two frames, one behind the other.
LEMMA TwoFramesMeans ==
  ASSUME NEW x \in TwoFrames
  PROVE  \E f \in GoodFrames, g \in GoodFrames : x = f \o g
BY SMTT(30) DEF TwoFrames

\* Of two frames of the control board read at once the first is recognised.
LEMMA ReadTwo ==
  ASSUME type \in Types, type = "BT_MCU", NEW f \in GoodFrames, NEW g \in GoodFrames
  PROVE  /\ OnUartData(<<>>, f \o g).buf = <<>>
         /\ OnUartData(<<>>, f \o g).frames = <<f \o g>>
         /\ IsPrefix(SubSeq(f \o g, 1, FrameLen), f \o g)
<1> DEFINE H == HeadBytes
           m == Len(HeadBytes)
           x == f \o g
           l == FrameLen
<1>1. H \in Seq(Byte) /\ m \in 2..3 /\ l \in Nat /\ l > 3 /\ BufLen = 2 * l
  BY HeadType, ParserConstants DEF BufLen
<1>2. /\ f \in Seq(Byte) /\ Begins(H, f) /\ Len(f) = l /\ Declared(f) = l /\ Check(f)
      /\ g \in Seq(Byte) /\ Len(g) = l
  BY GoodFrame
<1>3. /\ x \in Seq(Byte) /\ Len(x) = l + l
      /\ \A i \in 1..(l + l) : x[i] = IF i <= l THEN f[i] ELSE g[i - l]
  <2>1. /\ x \in Seq(Byte) /\ Len(x) = Len(f) + Len(g)
        /\ \A i \in 1..(Len(f) + Len(g)) : x[i] = IF i <= Len(f) THEN f[i] ELSE g[i - Len(f)]
    BY <1>2, ConcatProperties
  <2> HIDE DEF x, l
  <2> QED
    BY <1>2, <2>1
<1>4. Begins(H, x)
  BY <1>1, <1>2, BeginsLonger
<1> HIDE DEF x
<1>5. Len(x) > m /\ Len(x) <= BufLen
  <2> HIDE DEF l, m
  <2> QED
    BY <1>1, <1>3
<1>6. Declared(x) = l /\ l <= Len(x)
  <2>1. Declared(x) = l
    BY DEF Declared
  <2> HIDE DEF l
  <2> QED
    BY <1>1, <1>3, <2>1
<1>7. SubSeq(x, 1, l - 1) = SubSeq(f, 1, l - 1)
  <2> DEFINE u == SubSeq(x, 1, l - 1)
             v == SubSeq(f, 1, l - 1)
  <2> HIDE DEF l
  <2>1. /\ 1 \in 1..(Len(x) + 1) /\ l - 1 \in (1 - 1)..Len(x)
        /\ 1 \in 1..(Len(f) + 1) /\ l - 1 \in (1 - 1)..Len(f)
        /\ (l - 1) - 1 + 1 = l - 1
        /\ \A i \in 1..(l - 1) : 1 + i - 1 = i /\ i \in 1..(l + l) /\ i <= l
    BY <1>1, <1>2, <1>3
  <2>2. u \in Seq(Byte) /\ Len(u) = l - 1 /\ \A i \in 1..(l - 1) : u[i] = x[1 + i - 1]
    BY <1>3, <2>1, Cut
  <2>3. v \in Seq(Byte) /\ Len(v) = l - 1 /\ \A i \in 1..(l - 1) : v[i] = f[1 + i - 1]
    BY <1>2, <2>1, Cut
  <2> HIDE DEF u, v
  <2>4. \A i \in 1..(l - 1) : u[i] = v[i]
    BY <1>3, <2>1, <2>2, <2>3
  <2>5. u = v
    BY <2>2, <2>3, <2>4, SeqEqual
  <2> QED
    BY <2>5 DEF u, v
<1>8. Check(x)
  <2>1. x[l] = f[l]
    <3> HIDE DEF l
    <3>1. l \in 1..(l + l) /\ l <= l
      BY <1>1
    <3> QED
      BY <1>3, <3>1
  <2>2. f[l] = Sum(SubSeq(f, 1, l - 1))
    BY <1>2 DEF Check
  <2> QED
    BY <1>6, <1>7, <2>1, <2>2 DEF Check
<1>9. OnUartData(<<>>, x).buf = <<>> /\ OnUartData(<<>>, x).frames = <<x>>
  <2>1. Declared(x) <= Len(x)
    BY <1>6
  <2> QED
    BY <1>3, <1>4, <1>5, <1>8, <2>1, ReadAlone
<1>10. IsPrefix(SubSeq(x, 1, l), x)
  <2> DEFINE u == SubSeq(x, 1, l)
  <2> HIDE DEF l
  <2>1. /\ 1 \in 1..(Len(x) + 1) /\ l \in (1 - 1)..Len(x)
        /\ l - 1 + 1 = l /\ l <= Len(x)
        /\ \A i \in 1..l : 1 + i - 1 = i
    BY <1>1, <1>3
  <2>2. u \in Seq(Byte) /\ Len(u) = l /\ \A i \in 1..l : u[i] = x[1 + i - 1]
    BY <1>3, <2>1, Cut
  <2> HIDE DEF u
  <2>3. Len(u) <= Len(x) /\ \A i \in 1..Len(u) : u[i] = x[i]
    BY <2>1, <2>2
  <2>4. IsPrefix(u, x)
    BY <1>3, <2>2, <2>3, PrefixMeans
  <2> QED
    BY <2>4 DEF u
<1> QED
  BY <1>9, <1>10 DEF x, l

-------------------------------------------------------------------------------
(* The invariant.  Once init has set the port up, bytes are received as    *)
(* the board sends them, unless it was left with flags that alter them and *)
(* that init does not clear; after the last drain nothing is left of what  *)
(* was received before; the buffer holds less than a frame.                *)
ParserIInv ==
    /\ ParserTypeOK
    /\ port \in {"set", "deaf", "ready"} => ReceivesAsSent(line) \/ KeepsAltering(line.flags)
    /\ port \in {"deaf", "ready"} /\ garbled => KeepsAltering(line.flags)
    /\ Sound(curr)

\* Whatever a port was set to before, init sets it up to receive what the board
\* sends, but for the flags that it leaves alone.
LEMMA SetUpLine ==
  ASSUME line \in Lines
  PROVE  /\ SetUp(line, Asked) \in Lines
         /\ \/ ReceivesAsSent(SetUp(line, Asked))
            \/ KeepsAltering(SetUp(line, Asked).flags)
<1> DEFINE fl == line.flags \ Cleared
           l == SetUp(line, Asked)
<1>1. l = [speed |-> 9600, flow |-> "none", databits |-> 8, stopbits |-> 1,
           parity |-> "none", flags |-> fl \cup {}]
  BY DEF SetUp, Asked, Speeds
<1>2. fl \cup {} = fl /\ fl \subseteq LeftAlone
  BY DEF Lines
<1> HIDE DEF fl, l
<1>3. l = [speed |-> 9600, flow |-> "none", databits |-> 8, stopbits |-> 1,
           parity |-> "none", flags |-> fl]
  BY <1>1, <1>2
<1>4. l \in Lines
  BY <1>2, <1>3 DEF Lines
<1>5. \A setting \in DOMAIN BoardLine : l[setting] = BoardLine[setting]
  <2>1. DOMAIN BoardLine = {"speed", "flow", "databits", "parity", "stopbits"}
    BY DEF BoardLine
  <2>2. /\ l.speed = BoardLine.speed /\ l.flow = BoardLine.flow
        /\ l.databits = BoardLine.databits /\ l.parity = BoardLine.parity
        /\ l.stopbits = BoardLine.stopbits
    BY <1>3 DEF BoardLine
  <2> QED
    BY <2>1, <2>2
<1>6. Alters(fl) => KeepsAltering(fl)
  <2>1. fl \cap {"ICANON", "ISIG", "ICRNL", "IXON", "ISTRIP"} = {}
    BY <1>2 DEF LeftAlone
  <2> QED
    BY <2>1 DEF Alters, KeepsAltering
<1>7. l.flags = fl
  BY <1>3
<1>8. ReceivesAsSent(l) \/ KeepsAltering(l.flags)
  BY <1>5, <1>6, <1>7, Zenon DEF ReceivesAsSent
<1> QED
  BY <1>4, <1>8 DEF l

\* The invariant holds at the start.
LEMMA ParserInitIInv == ParserInit => ParserIInv
<1> SUFFICES ASSUME ParserInit PROVE ParserIInv
  OBVIOUS
<1>1. /\ type \in Types /\ port = "closed" /\ wire = <<>> /\ garbled = FALSE
      /\ curr = <<>> /\ good = <<>>
  BY DEF ParserInit
<1>2. line \in Lines
  <2>1. line \in LeftBehind
    BY DEF ParserInit
  <2>2. LeftBehind \subseteq Lines
    BY ParserConstants
  <2> QED
    BY <2>1, <2>2
<1>3. wire \in Seq(Byte) /\ Len(wire) <= WireCap /\ curr \in Seq(Byte) /\ good \in Seq(Seq(Byte))
  <2>1. WireCap \in Nat /\ Len(<<>>) = 0 /\ <<>> \in Seq(Byte) /\ <<>> \in Seq(Seq(Byte))
    BY ParserConstants
  <2> QED
    BY <1>1, <2>1
<1>4. Sound(curr)
  BY <1>1, SoundIfEmpty
<1>5. garbled \in BOOLEAN /\ ~garbled
  BY <1>1
<1>6. /\ port \in {"closed", "open", "flushed", "set", "deaf", "ready", "failed"}
      /\ port \notin {"set", "deaf", "ready"} /\ port \notin {"deaf", "ready"}
  BY <1>1
<1>7. ParserTypeOK
  BY <1>1, <1>2, <1>3, <1>5, <1>6, Zenon DEF ParserTypeOK
<1> QED
  BY <1>4, <1>5, <1>6, <1>7, Zenon DEF ParserIInv

\* What arrives is a sequence of bytes.
LEMMA ArriveKeeps ==
  ASSUME ParserIInv, NEW bytes \in Seq(Byte), Arrive(bytes)
  PROVE  ParserIInv'
<1>1. /\ type' = type /\ port' = port /\ line' = line /\ curr' = curr /\ good' = <<>>
      /\ garbled' = (garbled \/ (IsOpen /\ ~ReceivesAsSent(line)))
      /\ wire' = IF IsOpen THEN wire \o bytes ELSE wire
      /\ Len(wire) + Len(bytes) <= IF port = "ready" THEN WireCap ELSE EarlyCap
  BY DEF Arrive
<1>2. /\ type \in Types /\ line \in Lines /\ wire \in Seq(Byte) /\ Len(wire) <= WireCap
      /\ garbled \in BOOLEAN /\ curr \in Seq(Byte)
      /\ port \in {"closed", "open", "flushed", "set", "deaf", "ready", "failed"}
  BY DEF ParserIInv, ParserTypeOK
<1>3. wire' \in Seq(Byte) /\ Len(wire') <= WireCap
  <2>1. WireCap \in Nat /\ EarlyCap \in Nat /\ EarlyCap <= WireCap
    BY ParserConstants
  <2>2. wire \o bytes \in Seq(Byte) /\ Len(wire \o bytes) = Len(wire) + Len(bytes)
    BY <1>2, ConcatProperties
  <2>3. Len(wire) \in Nat /\ Len(bytes) \in Nat
    BY <1>2
  <2>4. Len(wire) + Len(bytes) <= WireCap
    BY <1>1, <2>1, <2>3
  <2> QED
    BY <1>1, <1>2, <2>2, <2>4
<1>4. Sound(curr)'
  BY <1>1 DEF ParserIInv, Sound, Shaped, Declared, BufLen, HeadBytes
<1>5. garbled' \in BOOLEAN
  BY <1>1, <1>2
<1>6. ParserTypeOK'
  BY <1>1, <1>2, <1>3, <1>5 DEF ParserTypeOK
<1>7. port \in {"deaf", "ready"} /\ garbled' => KeepsAltering(line.flags)
  <2>1. port \in {"deaf", "ready"} => port \in {"set", "deaf", "ready"}
    OBVIOUS
  <2>2. CASE garbled
    BY <2>2 DEF ParserIInv
  <2>3. CASE ~garbled
    BY <1>1, <2>1, <2>3 DEF ParserIInv
  <2> QED
    BY <1>2, <2>2, <2>3
<1>8. port \in {"set", "deaf", "ready"} => ReceivesAsSent(line) \/ KeepsAltering(line.flags)
  BY DEF ParserIInv
<1>9. line'.flags = line.flags /\ (ReceivesAsSent(line)' <=> ReceivesAsSent(line))
  BY <1>1 DEF ReceivesAsSent
<1>10. KeepsAltering(line.flags)' <=> KeepsAltering(line.flags)
  BY <1>9 DEF KeepsAltering
<1> QED
  BY <1>1, <1>4, <1>6, <1>7, <1>8, <1>9, <1>10, Zenon DEF ParserIInv

\* A read takes the first n bytes.
ReadsN(n) ==
    /\ n \in 1..Len(wire) /\ n \in Nat
    /\ SubSeq(wire, 1, n) \in Seq(Byte) /\ Len(SubSeq(wire, 1, n)) = n
    /\ wire' \in Seq(Byte) /\ Len(wire') = Len(wire) - n
    /\ curr' = OnUartData(curr, SubSeq(wire, 1, n)).buf
    /\ good' = OnUartData(curr, SubSeq(wire, 1, n)).frames
    /\ UNCHANGED <<type, port, line, garbled>>
    /\ port = "ready"

\* What Read does, with its bounds.
LEMMA ReadMeans ==
  ASSUME ParserIInv, NEW n \in 1..Min({ReadLen, Len(wire)}), Read(n)
  PROVE  ReadsN(n)
<1>1. wire \in Seq(Byte) /\ Len(wire) \in Nat /\ ReadLen \in Nat
  BY ParserConstants DEF ParserIInv, ParserTypeOK
<1>2. n \in 1..Len(wire) /\ n \in Nat
  <2> DEFINE m == Min({ReadLen, Len(wire)})
  <2>1. m \in Nat /\ m = IF ReadLen <= Len(wire) THEN ReadLen ELSE Len(wire)
    BY <1>1, MinOfTwo
  <2>2. n \in 1..m
    OBVIOUS
  <2> HIDE DEF m
  <2> QED
    BY <1>1, <2>1, <2>2
<1>3. n \in 0..Len(wire)
  BY <1>1, <1>2
<1>4. /\ SubSeq(wire, 1, n) \in Seq(Byte) /\ Len(SubSeq(wire, 1, n)) = n
      /\ SubSeq(wire, n + 1, Len(wire)) \in Seq(Byte)
      /\ Len(SubSeq(wire, n + 1, Len(wire))) = Len(wire) - n
  BY <1>1, <1>3, CutInTwo
<1> QED
  BY <1>2, <1>4 DEF ReadsN, Read

\* Reading preserves the invariant.
LEMMA ReadKeeps ==
  ASSUME ParserIInv, NEW n \in 1..Min({ReadLen, Len(wire)}), Read(n)
  PROVE  ParserIInv'
<1> DEFINE in == SubSeq(wire, 1, n)
           d == OnUartData(curr, in)
<1>1. ReadsN(n)
  BY ReadMeans
<1>2. /\ type \in Types /\ line \in Lines /\ wire \in Seq(Byte) /\ Len(wire) <= WireCap
      /\ garbled \in BOOLEAN /\ curr \in Seq(Byte) /\ Sound(curr)
      /\ port \in {"closed", "open", "flushed", "set", "deaf", "ready", "failed"}
  BY DEF ParserIInv, ParserTypeOK
<1>3. in \in Seq(Byte)
  BY <1>1 DEF ReadsN
<1>4. curr' = d.buf /\ good' = d.frames
  BY <1>1 DEF ReadsN
<1> HIDE DEF in
<1>5. d \in Parsing(curr \o in)
  BY <1>2, <1>3, OnUartDataKeeps
<1> HIDE DEF d
<1>6. curr' \in Seq(Byte) /\ good' \in Seq(Seq(Byte)) /\ Sound(curr')
  BY <1>4, <1>5 DEF Parsing, ParseState
<1>7. /\ type' = type /\ port' = port /\ line' = line /\ garbled' = garbled
      /\ wire' \in Seq(Byte) /\ Len(wire') <= WireCap
  <2>1. Len(wire') = Len(wire) - n /\ n \in Nat /\ Len(wire) \in Nat /\ WireCap \in Nat
    BY <1>1, <1>2, ParserConstants DEF ReadsN
  <2>2. Len(wire') <= WireCap
    BY <1>2, <2>1
  <2> QED
    BY <1>1, <2>2 DEF ReadsN
<1>8. Sound(curr)'
  BY <1>6, <1>7 DEF Sound, Shaped, Declared, BufLen, HeadBytes
<1>9. ParserTypeOK'
  BY <1>2, <1>6, <1>7 DEF ParserTypeOK
<1> QED
  BY <1>7, <1>8, <1>9 DEF ParserIInv

\* So does every step of init.
LEMMA ConnectKeeps == ParserIInv /\ Connect => ParserIInv'
<1> SUFFICES ASSUME ParserIInv, Connect PROVE ParserIInv'
  OBVIOUS
<1> DEFINE Ports == {"closed", "open", "flushed", "set", "deaf", "ready", "failed"}
<1>1. /\ type \in Types /\ line \in Lines /\ wire \in Seq(Byte) /\ Len(wire) <= WireCap
      /\ garbled \in BOOLEAN /\ curr \in Seq(Byte) /\ port \in Ports
      /\ port \in {"set", "deaf", "ready"} => ReceivesAsSent(line) \/ KeepsAltering(line.flags)
      /\ port \in {"deaf", "ready"} /\ garbled => KeepsAltering(line.flags)
      /\ Sound(curr)
  BY DEF ParserIInv, ParserTypeOK
<1>2. type' = type /\ curr' = curr /\ good' = <<>>
  BY DEF Connect, Open, Flush, Configure, Drain, Listen, InitStep
<1>3. Sound(curr)'
  BY <1>1, <1>2 DEF Sound, Shaped, Declared, BufLen, HeadBytes
<1>4. <<>> \in Seq(Byte) /\ Len(<<>>) <= WireCap /\ <<>> \in Seq(Seq(Byte))
  BY ParserConstants
<1>5. (wire' = wire /\ garbled' = garbled) \/ (wire' = <<>> /\ garbled' = FALSE)
  BY DEF Connect, Open, Flush, Configure, Drain, Listen, DrainInput
<1>6. wire' \in Seq(Byte) /\ Len(wire') <= WireCap /\ garbled' \in BOOLEAN
  BY <1>1, <1>4, <1>5
<1> HIDE DEF Ports
<1>7. ASSUME port' \in Ports, line' \in Lines
      PROVE  ParserTypeOK'
  BY <1>1, <1>2, <1>4, <1>6, <1>7 DEF ParserTypeOK, Ports
<1>8. CASE Open
  <2>1. port' \in {"open", "failed"} /\ line' = line
    BY <1>8 DEF Open
  <2>2. port' \in Ports /\ port' \notin {"set", "deaf", "ready"} /\ port' \notin {"deaf", "ready"}
    BY <2>1 DEF Ports
  <2> QED
    BY <1>1, <1>3, <1>7, <2>1, <2>2 DEF ParserIInv
<1>9. CASE Flush
  <2>1. port' = "flushed" /\ line' = line
    BY <1>9 DEF Flush
  <2>2. port' \in Ports /\ port' \notin {"set", "deaf", "ready"} /\ port' \notin {"deaf", "ready"}
    BY <2>1 DEF Ports
  <2> QED
    BY <1>1, <1>3, <1>7, <2>1, <2>2 DEF ParserIInv
<1>10. CASE Configure
  <2>1. CASE port' = "set" /\ line' = SetUp(line, Asked)
    <3>1. line' \in Lines /\ (ReceivesAsSent(line') \/ KeepsAltering(line'.flags))
      BY <1>1, <2>1, SetUpLine
    <3>2. port' \in Ports /\ port' \notin {"deaf", "ready"}
      BY <2>1 DEF Ports
    <3> QED
      BY <1>3, <1>7, <3>1, <3>2 DEF ParserIInv
  <2>2. CASE port' = "failed" /\ line' = line
    <3>1. port' \in Ports /\ port' \notin {"set", "deaf", "ready"} /\ port' \notin {"deaf", "ready"}
      BY <2>2 DEF Ports
    <3> QED
      BY <1>1, <1>3, <1>7, <2>2, <3>1 DEF ParserIInv
  <2> QED
    BY <1>10, <2>1, <2>2 DEF Configure
<1>11. CASE Drain
  <2>1. port = "set" /\ port' = "deaf" /\ line' = line /\ ~garbled'
    BY <1>11 DEF Drain, DrainInput
  <2>2. port' \in Ports /\ port \in {"set", "deaf", "ready"}
    BY <2>1 DEF Ports
  <2> QED
    BY <1>1, <1>3, <1>7, <2>1, <2>2 DEF ParserIInv
<1>12. CASE Listen
  <2>1. port = "deaf" /\ port' = "ready" /\ line' = line /\ garbled' = garbled
    BY <1>12 DEF Listen
  <2>2. port' \in Ports /\ port \in {"set", "deaf", "ready"} /\ port \in {"deaf", "ready"}
    BY <2>1 DEF Ports
  <2> QED
    BY <1>1, <1>3, <1>7, <2>1, <2>2 DEF ParserIInv
<1> QED
  BY <1>8, <1>9, <1>10, <1>11, <1>12 DEF Connect

\* What the board sends, what the line leaves of it and what it adds are bytes.
LEMMA BytesArrive ==
  ASSUME ParserIInv, BoardSends \/ LineLoss \/ LineNoise
  PROVE  \E bytes \in Seq(Byte) : Arrive(bytes)
<1>1. type \in Types
  BY DEF ParserIInv, ParserTypeOK
<1>2. CASE BoardSends
  BY <1>1, <1>2, GoodFrame DEF BoardSends
<1>3. CASE LineLoss
  <2>0. PICK f \in GoodFrames : \E k \in 1..(Len(f) - 1) :
            Arrive(SubSeq(f, 1, k)) \/ Arrive(SubSeq(f, k + 1, Len(f)))
    BY <1>3 DEF LineLoss
  <2>1. PICK k \in 1..(Len(f) - 1) :
            Arrive(SubSeq(f, 1, k)) \/ Arrive(SubSeq(f, k + 1, Len(f)))
    BY <2>0
  <2>2. f \in Seq(Byte)
    BY <1>1, GoodFrame
  <2>3. k \in 0..Len(f)
    BY <2>2
  <2>4. SubSeq(f, 1, k) \in Seq(Byte) /\ SubSeq(f, k + 1, Len(f)) \in Seq(Byte)
    BY <2>2, <2>3, CutInTwo
  <2> QED
    BY <2>1, <2>4
<1>4. CASE LineNoise
  <2>1. PICK b \in Noise : Arrive(<<b>>)
    BY <1>4 DEF LineNoise
  <2>2. b \in Byte
    BY ParserConstants
  <2>3. <<b>> \in Seq(Byte)
    BY <2>2
  <2> QED
    BY <2>1, <2>3
<1> QED
  BY <1>2, <1>3, <1>4

\* Every step preserves the invariant.
LEMMA ParserStepIInv == ParserIInv /\ [ParserNext]_parserVars => ParserIInv'
<1> SUFFICES ASSUME ParserIInv, [ParserNext]_parserVars PROVE ParserIInv'
  OBVIOUS
<1>1. CASE Connect
  BY <1>1, ConnectKeeps
<1>2. CASE BoardSends \/ LineLoss \/ LineNoise
  <2>1. PICK bytes \in Seq(Byte) : Arrive(bytes)
    BY <1>2, BytesArrive
  <2> QED
    BY <2>1, ArriveKeeps
<1>3. CASE \E n \in 1..Min({ReadLen, Len(wire)}) : Read(n)
  BY <1>3, ReadKeeps
<1>4. CASE UNCHANGED parserVars
  <2>1. /\ type' = type /\ port' = port /\ line' = line /\ wire' = wire /\ garbled' = garbled
        /\ curr' = curr /\ good' = good
    BY <1>4 DEF parserVars, serial
  <2>2. Sound(curr)'
    BY <2>1 DEF ParserIInv, Sound, Shaped, Declared, BufLen, HeadBytes
  <2>3. ParserTypeOK'
    BY <2>1 DEF ParserIInv, ParserTypeOK
  <2> QED
    BY <2>1, <2>2, <2>3 DEF ParserIInv
<1> QED
  BY <1>1, <1>2, <1>3, <1>4 DEF ParserNext

\* The invariant always holds.
LEMMA ParserInvariant == ParserSpec => []ParserIInv
  BY ParserInitIInv, ParserStepIInv, PTL DEF ParserSpec

\* The type invariant: what the parser keeps are bytes, and no more wait to be
\* read than the bound allows.
THEOREM ParserTyped == ParserSpec => []ParserTypeOK
<1>1. ParserIInv => ParserTypeOK
  BY DEF ParserIInv
<1> QED
  BY <1>1, ParserInvariant, PTL

\* Once UartClient::init listens to the port, nothing received with settings
\* that alter it is there to be read, whatever the port was left set to, unless
\* it was left with flags that alter the input and that UART0_Set keeps.
THEOREM OnlyReadAsSent == ParserSpec => []ReadAsSent
<1>1. ParserIInv => ReadAsSent
  BY DEF ParserIInv, ReadAsSent
<1> QED
  BY <1>1, ParserInvariant, PTL

\* add never leaves a full buffer behind that waits for bytes it has no room
\* for, but for the Tuya frame that announces too many.
THEOREM ParserNeverWedged == ParserSpec => []NeverWedged
<1>1. ASSUME ParserIInv PROVE NeverWedged
  <2>1. type \in Types /\ curr \in Seq(Byte) /\ Sound(curr)
    BY <1>1 DEF ParserIInv, ParserTypeOK
  <2>2. Len(curr) < Declared(curr) /\ Shaped(curr)
    BY <2>1 DEF Sound
  <2>3. Len(curr) > Len(HeadBytes) => IsPrefix(HeadBytes, curr)
    <3>1. HeadBytes \in Seq(Byte)
      BY <2>1, HeadType
    <3> QED
      BY <2>1, <2>2, <3>1, PrefixMeans DEF Shaped, Begins
  <2>4. ASSUME Len(curr) = BufLen PROVE type = "BT_TUYA_MCU" /\ Declared(curr) > BufLen
    <3>1. Declared(curr) \in Nat /\ FrameLen \in Nat /\ FrameLen > 3 /\ BufLen \in Nat
      BY <2>1, DeclaredType, HeadType
    <3>2. Declared(curr) > BufLen
      BY <2>2, <2>4, <3>1
    <3>3. ASSUME type = "BT_MCU" PROVE FALSE
      <4>1. Declared(curr) = FrameLen /\ BufLen = 2 * FrameLen
        BY <3>3, ParserConstants DEF Declared, BufLen
      <4> QED
        BY <3>1, <3>2, <4>1
    <3>4. type \in {"BT_MCU", "BT_TUYA_MCU"}
      BY <2>1, ParserConstants
    <3> QED
      BY <3>2, <3>3, <3>4
  <2> QED
    BY <2>2, <2>3, <2>4 DEF NeverWedged
<1> QED
  BY <1>1, ParserInvariant, PTL

\* A step that reads.
LEMMA OnlyReadReads ==
  ASSUME ParserIInv, [ParserNext]_parserVars, IsRead
  PROVE  \E n : ReadsN(n) /\ ReadChunk = SubSeq(wire, 1, n)
<1>1. wire \in Seq(Byte) /\ Len(wire) \in Nat
  BY DEF ParserIInv, ParserTypeOK
<1>2. port = "ready" /\ Len(wire') < Len(wire)
  BY DEF IsRead
<1>3. ASSUME Connect PROVE FALSE
  BY <1>2, <1>3 DEF Connect, Open, Flush, Configure, Drain, Listen
<1>4. ASSUME BoardSends \/ LineLoss \/ LineNoise PROVE FALSE
  <2>1. PICK bytes \in Seq(Byte) : Arrive(bytes)
    BY <1>4, BytesArrive
  <2>2. Len(wire \o bytes) = Len(wire) + Len(bytes) /\ Len(bytes) \in Nat
    BY <1>1, ConcatProperties
  <2>3. wire' = wire \/ wire' = wire \o bytes
    BY <2>1 DEF Arrive
  <2>4. Len(wire') >= Len(wire)
    BY <1>1, <2>2, <2>3
  <2>5. Len(wire') \in Nat
    BY <1>1, <2>2, <2>3
  <2> QED
    BY <1>1, <1>2, <2>4, <2>5
<1>5. wire' # wire
  BY <1>1, <1>2
<1>6. PICK n \in 1..Min({ReadLen, Len(wire)}) : Read(n)
  BY <1>3, <1>4, <1>5 DEF ParserNext, parserVars, serial
<1>7. ReadsN(n)
  BY <1>6, ReadMeans
<1>8. Len(wire) - Len(wire') = n
  BY <1>1, <1>7 DEF ReadsN
<1> QED
  BY <1>7, <1>8 DEF ReadChunk

\* Nothing is made up: the buffer is the end of the bytes read, and each frame
\* found lies within them.
THEOREM ParserInventsNothing == ParserSpec => NothingInvented
<1> DEFINE A == IsRead => LET stream == curr \o ReadChunk
                          IN  /\ IsSuffix(curr', stream) \/ Len(curr') = BufLen
                              /\ \A i \in DOMAIN good' : IsWithin(good'[i], stream)
<1>1. ASSUME ParserIInv, [ParserNext]_parserVars PROVE [A]_parserVars
  <2> SUFFICES ASSUME IsRead
               PROVE  /\ IsSuffix(curr', curr \o ReadChunk) \/ Len(curr') = BufLen
                      /\ \A i \in DOMAIN good' : IsWithin(good'[i], curr \o ReadChunk)
    OBVIOUS
  <2>1. PICK n : ReadsN(n) /\ ReadChunk = SubSeq(wire, 1, n)
    BY <1>1, OnlyReadReads
  <2>2. type \in Types /\ curr \in Seq(Byte) /\ Sound(curr)
    BY <1>1 DEF ParserIInv, ParserTypeOK
  <2> DEFINE in == ReadChunk
             stream == curr \o in
             d == OnUartData(curr, in)
  <2>3. in \in Seq(Byte) /\ curr' = d.buf /\ good' = d.frames
    BY <2>1 DEF ReadsN
  <2> HIDE DEF in
  <2>4. d \in Parsing(stream) /\ d.rest = <<>>
    BY <2>2, <2>3, OnUartDataKeeps
  <2>5. stream \in Seq(Byte)
    BY <2>2, <2>3, ConcatProperties
  <2> HIDE DEF d, stream
  <2>6. /\ d.buf \in Seq(Byte) /\ d.frames \in Seq(Seq(Byte))
        /\ Ends(d.buf \o d.rest, stream) \/ Len(d.buf) = BufLen
        /\ \A i \in 1..Len(d.frames) : IsWithin(d.frames[i], stream)
    BY <2>4 DEF Parsing, ParseState
  <2>7. d.buf \o d.rest = d.buf
    BY <2>4, <2>6, ConcatEmptySeq
  <2>8. IsSuffix(d.buf, stream) \/ Len(d.buf) = BufLen
    BY <2>5, <2>6, <2>7, SuffixMeans DEF Ends
  <2>9. DOMAIN d.frames = 1..Len(d.frames)
    BY <2>6
  <2> QED
    BY <2>3, <2>6, <2>8, <2>9 DEF stream, in
<1>2. ParserSpec => [][A]_parserVars
  <2> HIDE DEF A
  <2> QED
    BY <1>1, ParserInvariant, PTL DEF ParserSpec
<1> QED
  BY <1>2 DEF NothingInvented

\* A good frame read alone is recognised, and on the control board's line a
\* read of a good frame leaves an empty buffer whatever was in it.
THEOREM ParserResynchronises == ParserSpec => Resynchronises
<1> DEFINE A == IsRead =>
             /\ curr = <<>> /\ ReadChunk \in GoodFrames => curr' = <<>> /\ good' = <<ReadChunk>>
             /\ type = "BT_MCU" =>
                  /\ ReadChunk \in GoodFrames => curr' = <<>>
                  /\ curr = <<>> /\ ReadChunk \in TwoFrames
                     => /\ curr' = <<>> /\ Len(good') = 1
                        /\ IsPrefix(SubSeq(ReadChunk, 1, FrameLen), good'[1])
<1>1. ASSUME ParserIInv, [ParserNext]_parserVars PROVE [A]_parserVars
  <2> SUFFICES ASSUME IsRead PROVE A
    OBVIOUS
  <2>1. PICK n : ReadsN(n) /\ ReadChunk = SubSeq(wire, 1, n)
    BY <1>1, OnlyReadReads
  <2>2. type \in Types /\ curr \in Seq(Byte) /\ Sound(curr)
    BY <1>1 DEF ParserIInv, ParserTypeOK
  <2> DEFINE in == ReadChunk
  <2>3. /\ in \in Seq(Byte)
        /\ curr' = OnUartData(curr, in).buf /\ good' = OnUartData(curr, in).frames
    BY <2>1 DEF ReadsN
  <2> HIDE DEF in
  <2>4. ASSUME curr = <<>>, in \in GoodFrames PROVE curr' = <<>> /\ good' = <<in>>
    <3>1. /\ Begins(HeadBytes, in) /\ Len(in) > Len(HeadBytes) /\ Len(in) <= BufLen
          /\ Declared(in) = Len(in) /\ Check(in) /\ Len(in) \in Nat
      BY <2>2, <2>3, <2>4, GoodFrame
    <3>2. Declared(in) <= Len(in)
      BY <3>1
    <3> QED
      BY <2>2, <2>3, <2>4, <3>1, <3>2, ReadAlone
  <2>5. ASSUME type = "BT_MCU", in \in GoodFrames PROVE curr' = <<>>
    BY <2>2, <2>3, <2>5, ReadAfterLoss
  <2>6. ASSUME type = "BT_MCU", curr = <<>>, in \in TwoFrames
        PROVE  curr' = <<>> /\ Len(good') = 1 /\ IsPrefix(SubSeq(in, 1, FrameLen), good'[1])
    <3>1. PICK f \in GoodFrames, g \in GoodFrames : in = f \o g
      BY <2>6, TwoFramesMeans
    <3>2. /\ OnUartData(<<>>, in).buf = <<>> /\ OnUartData(<<>>, in).frames = <<in>>
          /\ IsPrefix(SubSeq(in, 1, FrameLen), in)
      BY <2>2, <2>6, <3>1, ReadTwo
    <3>3. good' = <<in>> /\ curr' = <<>>
      BY <2>3, <2>6, <3>2
    <3>4. Len(<<in>>) = 1 /\ <<in>>[1] = in
      OBVIOUS
    <3> QED
      BY <3>2, <3>3, <3>4
  <2> QED
    BY <2>4, <2>5, <2>6 DEF in
<1>2. ParserSpec => [][A]_parserVars
  <2> HIDE DEF A
  <2> QED
    BY <1>1, ParserInvariant, PTL DEF ParserSpec
<1> QED
  BY <1>2 DEF Resynchronises

-----------------------------------------------------------------------------

(* The watch on what onCommand sees.                                       *)

WatchTypeOK ==
    /\ silence \in 0..SilenceCap
    /\ latest \in Frame \cup {NoFrame}
    /\ seen \in Frame \cup {NoFrame}
    /\ modeAge \in 0..DealSpace
    /\ settled \in BOOLEAN
    /\ tested \in BOOLEAN

(* What holds of the alarm.  Without the third conjunct the second is not  *)
(* inductive: a repetition may be suppressed, which ends the silence but   *)
(* not the age of what onCommand saw.                                      *)
AlarmInv ==
    /\ timedOut => recvAge = RecvTimeout
    /\ ~tested => recvAge < silence + DealSpace
    /\ ~tested /\ dealAge < DealSpace => recvAge <= dealAge
    /\ factory => tested
    /\ silence <= RecvTimeout => silence <= recvAge
    /\ silence > RecvTimeout => recvAge = RecvTimeout
    /\ silence >= RecvTimeout + sinceTick => timedOut

(* What holds of the frame CConnMgr knows: a repetition let through since  *)
(* the product test was last entered or left went to it.                   *)
NewsInv ==
    /\ ~factory /\ settled => seen = lastRecv /\ latest = lastRecv
    /\ ~factory /\ dealAge < modeAge => seen = lastRecv

RInv == TypeOK /\ WatchTypeOK /\ AlarmInv /\ NewsInv

\* The variables start with their types, and the ages agree.
LEMMA InitInv == WInit => RInv
<1> SUFFICES ASSUME WInit PROVE RInv
  OBVIOUS
<1>1. TypeOK
  <2>1. /\ dealAge \in 0..DealSpace /\ recvAge \in 0..RecvTimeout
        /\ warnAge \in 0..WarnSpace /\ commErr \in 0..(IceLimit - 1)
        /\ sinceTick \in 0..MaxLag
    BY RecvConstants DEF WInit, Init
  <2>2. QED
    BY <2>1 DEF WInit, Init, TypeOK
<1>2. WatchTypeOK
  <2>1. silence \in 0..SilenceCap /\ modeAge \in 0..DealSpace
    BY RecvConstants DEF WInit, SilenceCap
  <2>2. QED
    BY <2>1 DEF WInit, WatchTypeOK
<1>3. AlarmInv
  <2>1. /\ ~timedOut /\ ~tested /\ ~factory
        /\ recvAge = 0 /\ silence = 0 /\ dealAge = DealSpace /\ sinceTick = 0
    BY DEF WInit, Init
  <2>2. QED
    BY <2>1, RecvConstants DEF AlarmInv
<1>4. NewsInv
  BY RecvConstants DEF WInit, Init, NewsInv
<1>5. QED
  BY <1>1, <1>2, <1>3, <1>4 DEF RInv

----------------------------------------------------------------------------
\* onUartData with a good frame, seen as one of three outcomes.
LEMMA ReceiveTypes ==
  ASSUME TypeOK, WatchTypeOK, NEW f \in Frame, WReceive(f)
  PROVE  TypeOK' /\ WatchTypeOK'
<1>1. lastRecv' \in Frame \cup {NoFrame} /\ dealAge' \in 0..DealSpace
  BY RecvConstants DEF TypeOK, WReceive, Receive, ReceiveNew, ReceiveRepeated,
     Suppress, Dispatch
<1>2. factory' \in BOOLEAN /\ sinceTick' \in 0..MaxLag
  BY DEF TypeOK, WReceive, Receive, ReceiveNew, ReceiveRepeated, Suppress
<1>3. recvAge' \in 0..RecvTimeout /\ timedOut' \in BOOLEAN
  <2>1. \/ recvAge' = recvAge /\ timedOut' = timedOut
        \/ recvAge' = 0 /\ timedOut' = FALSE
    BY DEF WReceive, Receive, ReceiveNew, ReceiveRepeated, Suppress, Dispatch,
       OnCommand, commander
  <2>2. timedOut' \in BOOLEAN
    BY <2>1 DEF TypeOK
  <2>3. recvAge' \in 0..RecvTimeout
    BY <2>1, RecvConstants DEF TypeOK
  <2>4. QED
    BY <2>2, <2>3
<1>4. warnAge' \in 0..WarnSpace /\ commErr' \in 0..(IceLimit - 1)
  <2>1. CASE OnCommDeal(f)
    <3>1. commErr \in 0..(IceLimit - 1) /\ warnAge \in 0..WarnSpace
      BY DEF TypeOK
    <3>2. CASE f.warn /\ warnAge >= WarnSpace
      <4>1. warnAge' = 0 /\ ((commErr' = commErr + 1 /\ commErr + 1 < IceLimit) \/ commErr' = 0)
        BY <2>1, <3>2 DEF OnCommDeal
      <4>2. QED
        BY <4>1, <3>1, RecvConstants
    <3>3. CASE ~(f.warn /\ warnAge >= WarnSpace)
      BY <2>1, <3>1, <3>3 DEF OnCommDeal
    <3>4. QED
      BY <3>2, <3>3
  <2>2. CASE UNCHANGED commander
    BY <2>2 DEF TypeOK, commander
  <2>3. QED
    BY <2>1, <2>2 DEF WReceive, Receive, ReceiveNew, ReceiveRepeated, Suppress,
       Dispatch, OnCommand
<1>5. out' \in {"none", "product", "handler"}
  BY DEF WReceive, Receive, ReceiveNew, ReceiveRepeated, Suppress, Dispatch
<1>6. WatchTypeOK'
  BY RecvConstants DEF WatchTypeOK, WReceive, SilenceCap
<1>7. QED
  BY <1>1, <1>2, <1>3, <1>4, <1>5, <1>6 DEF TypeOK

\* The same three outcomes keep the ages and the frames in agreement.
LEMMA ReceivePreserves ==
  ASSUME RInv, NEW f \in Frame, WReceive(f)
  PROVE  RInv'
<1>1. TypeOK' /\ WatchTypeOK'
  BY ReceiveTypes DEF RInv
<1>2. /\ silence' = 0
      /\ latest' = f
      /\ seen' = IF out' = "handler" THEN f ELSE seen
      /\ settled' = (settled \/ modeAge >= DealSpace)
      /\ tested' = (tested /\ out' # "handler")
      /\ modeAge' = modeAge
  BY DEF WReceive
<1>3. factory' = factory /\ sinceTick' = sinceTick
  BY DEF WReceive, Receive, ReceiveNew, ReceiveRepeated, Suppress
<1>4. CASE Suppress(f)
  <2>1. /\ f = lastRecv /\ dealAge < DealSpace /\ out' = "none"
        /\ lastRecv' = lastRecv /\ dealAge' = dealAge
        /\ recvAge' = recvAge /\ timedOut' = timedOut
    BY <1>4 DEF Suppress, Repeats, commander
  <2>2. AlarmInv'
    BY <1>2, <1>3, <2>1, RecvConstants DEF RInv, AlarmInv, TypeOK, WatchTypeOK
  <2>3. NewsInv'
    BY <1>2, <1>3, <2>1, RecvConstants DEF RInv, NewsInv, TypeOK, WatchTypeOK
  <2>4. QED
    BY <1>1, <2>2, <2>3 DEF RInv
<1>5. CASE Dispatch(f) /\ dealAge' \in {0, dealAge}
  <2>1. lastRecv' = f
    BY <1>5 DEF Dispatch
  <2>2. CASE factory
    <3>1. out' = "product" /\ recvAge' = recvAge /\ timedOut' = timedOut
      BY <1>5, <2>2 DEF Dispatch, commander
    <3>2. AlarmInv'
      <4>1. tested /\ tested'
        BY <1>2, <2>2, <3>1 DEF RInv, AlarmInv
      <4>2. timedOut' <=> timedOut
        BY <3>1
      <4>3. /\ recvAge' = recvAge /\ silence' = 0 /\ sinceTick' = sinceTick
            /\ recvAge \in 0..RecvTimeout /\ sinceTick \in 0..MaxLag
        BY <1>2, <1>3, <3>1 DEF RInv, TypeOK
      <4>4. timedOut => recvAge = RecvTimeout
        BY DEF RInv, AlarmInv
      <4>5. QED
        BY <4>1, <4>2, <4>3, <4>4, RecvConstants DEF AlarmInv
    <3>3. NewsInv'
      BY <1>3, <2>2 DEF NewsInv
    <3>4. QED
      BY <1>1, <3>2, <3>3 DEF RInv
  <2>3. CASE ~factory
    <3>1. out' = "handler" /\ recvAge' = 0 /\ timedOut' = FALSE
      BY <1>5, <2>3 DEF Dispatch, OnCommand
    <3>2. AlarmInv'
      BY <1>1, <1>2, <1>3, <2>3, <3>1, RecvConstants DEF AlarmInv, TypeOK, WatchTypeOK
    <3>3. NewsInv'
      BY <1>2, <2>1, <3>1 DEF NewsInv
    <3>4. QED
      BY <1>1, <3>2, <3>3 DEF RInv
  <2>4. QED
    BY <2>2, <2>3
<1>6. QED
  BY <1>4, <1>5 DEF WReceive, Receive, ReceiveNew, ReceiveRepeated

----------------------------------------------------------------------------
\* Entering or leaving the product test restarts modeAge and nothing else.
LEMMA ProductTestPreserves ==
  ASSUME RInv, NEW on \in BOOLEAN, WProductTest(on)
  PROVE  RInv'
<1>1. /\ factory' = on /\ modeAge' = 0 /\ settled' = FALSE
      /\ tested' = (tested \/ on) /\ out' = "none"
      /\ UNCHANGED <<lastRecv, dealAge, recvAge, timedOut, warnAge, commErr,
                     sinceTick, silence, latest, seen>>
  BY DEF WProductTest, SetProductTest, commander
<1>2. TypeOK'
  BY <1>1 DEF RInv, TypeOK
<1>3. WatchTypeOK'
  <2>1. modeAge' \in 0..DealSpace
    BY <1>1, RecvConstants
  <2>2. settled' \in BOOLEAN /\ tested' \in BOOLEAN
    BY <1>1 DEF RInv, WatchTypeOK
  <2>3. QED
    BY <1>1, <2>1, <2>2 DEF RInv, WatchTypeOK
<1>4. AlarmInv'
  BY <1>1 DEF RInv, AlarmInv
<1>5. NewsInv'
  BY <1>1, RecvConstants DEF RInv, NewsInv, TypeOK
<1>6. QED
  BY <1>2, <1>3, <1>4, <1>5 DEF RInv

\* The clock advances every age by one, up to its cap.
LEMMA PassPreserves == RInv /\ WPass => RInv'
<1> SUFFICES ASSUME RInv, WPass PROVE RInv'
  OBVIOUS
<1>1. /\ sinceTick < MaxLag
      /\ sinceTick' = sinceTick + 1
      /\ dealAge' = IF dealAge < DealSpace THEN dealAge + 1 ELSE DealSpace
      /\ recvAge' = IF recvAge < RecvTimeout THEN recvAge + 1 ELSE RecvTimeout
      /\ warnAge' = IF warnAge < WarnSpace THEN warnAge + 1 ELSE WarnSpace
      /\ silence' = IF silence < SilenceCap THEN silence + 1 ELSE SilenceCap
      /\ modeAge' = IF modeAge < DealSpace THEN modeAge + 1 ELSE DealSpace
      /\ out' = "none"
      /\ UNCHANGED <<lastRecv, factory, timedOut, commErr, latest, seen, settled, tested>>
  BY DEF WPass, Pass, Older
<1>2. TypeOK' /\ WatchTypeOK'
  BY <1>1, RecvConstants DEF RInv, TypeOK, WatchTypeOK, SilenceCap
<1>3. AlarmInv'
  BY <1>1, RecvConstants DEF RInv, AlarmInv, TypeOK, WatchTypeOK, SilenceCap
<1>4. NewsInv'
  BY <1>1, RecvConstants DEF RInv, NewsInv, TypeOK, WatchTypeOK
<1>5. QED
  BY <1>2, <1>3, <1>4 DEF RInv

\* onTick raises the timeout exactly when the age has reached its cap.
LEMMA OnTickPreserves == RInv /\ WOnTick => RInv'
<1> SUFFICES ASSUME RInv, WOnTick PROVE RInv'
  OBVIOUS
<1>1. /\ timedOut' = (timedOut \/ recvAge >= RecvTimeout)
      /\ sinceTick' = 0 /\ out' = "none"
      /\ UNCHANGED <<lastRecv, dealAge, factory, recvAge, warnAge, commErr>>
      /\ UNCHANGED <<silence, latest, seen, modeAge, settled, tested>>
  BY DEF WOnTick, OnTick, watched
<1>2. TypeOK' /\ WatchTypeOK'
  BY <1>1, RecvConstants DEF RInv, TypeOK, WatchTypeOK
<1>3. AlarmInv'
  <2>1. /\ timedOut' <=> timedOut \/ recvAge >= RecvTimeout
        /\ tested' <=> tested
        /\ factory' <=> factory
    BY <1>1
  <2>2. /\ recvAge' = recvAge /\ dealAge' = dealAge /\ silence' = silence
        /\ sinceTick' = 0
        /\ recvAge \in 0..RecvTimeout /\ silence \in 0..SilenceCap
    BY <1>1 DEF RInv, TypeOK, WatchTypeOK
  <2>3. AlarmInv
    BY DEF RInv
  <2>4. QED
    BY <2>1, <2>2, <2>3, RecvConstants DEF AlarmInv, SilenceCap
<1>4. NewsInv'
  BY <1>1 DEF RInv, NewsInv
<1>5. QED
  BY <1>2, <1>3, <1>4 DEF RInv

----------------------------------------------------------------------------
(***************************************************************************)
(* The clocks of the receiving half bound one another in every reachable   *)
(* state.                                                                  *)
(***************************************************************************)
THEOREM RecvInvariance == WSpec => []RInv
<1>1. RInv /\ [WNext]_allVars => RInv'
  <2> SUFFICES ASSUME RInv, [WNext]_allVars PROVE RInv'
    OBVIOUS
  <2>1. ASSUME NEW f \in Frame, WReceive(f) PROVE RInv'
    BY <2>1, ReceivePreserves
  <2>2. ASSUME NEW on \in BOOLEAN, WProductTest(on) PROVE RInv'
    BY <2>2, ProductTestPreserves
  <2>3. CASE WPass
    BY <2>3, PassPreserves
  <2>4. CASE WOnTick
    BY <2>4, OnTickPreserves
  <2>5. CASE UNCHANGED allVars
    BY <2>5 DEF allVars, vars, watched, RInv, TypeOK, WatchTypeOK, AlarmInv, NewsInv
  <2>6. QED
    BY <2>1, <2>2, <2>3, <2>4, <2>5 DEF WNext
<1>2. QED
  BY InitInv, <1>1, PTL DEF WSpec

\* The receiving side's state, and the frame it remembers, keep their types.
THEOREM RecvTyped == WSpec => []TypeOK
<1>1. RInv => TypeOK
  BY DEF RInv
<1>2. QED
  BY RecvInvariance, <1>1, PTL

(***************************************************************************)
(* The receive timeout never stands while repeated frames keep arriving:   *)
(* checkDealData's one repetition per second is enough to feed onCommand,  *)
(* for every DealSpace no longer than RECV_TIMEOUT_TIME.                   *)
(***************************************************************************)
THEOREM NoFalseAlarm == WSpec => []TimeoutMeansSilence
<1>1. RInv => TimeoutMeansSilence
  BY RecvConstants DEF RInv, AlarmInv, TypeOK, WatchTypeOK, TimeoutMeansSilence
<1>2. QED
  BY RecvInvariance, <1>1, PTL

\* A silence of RECV_TIMEOUT_TIME is noticed by the tick that follows it.
THEOREM SilenceDetected == WSpec => []SilenceIsDetected
<1>1. RInv => SilenceIsDetected
  BY RecvConstants DEF RInv, AlarmInv, TypeOK, WatchTypeOK, SilenceIsDetected
<1>2. QED
  BY RecvInvariance, <1>1, PTL

(***************************************************************************)
(* Suppressing repetitions never hides news from CConnMgr: outside the     *)
(* product test, what onCommDeal was last called with is the last good     *)
(* frame.                                                                  *)
(***************************************************************************)
THEOREM HandlerKeepsUp == WSpec => []HandlerIsCurrent
<1>1. RInv => HandlerIsCurrent
  BY DEF RInv, NewsInv, HandlerIsCurrent
<1>2. QED
  BY RecvInvariance, <1>1, PTL
=============================================================================
