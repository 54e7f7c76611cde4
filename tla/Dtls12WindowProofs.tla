------------------------- MODULE Dtls12WindowProofs -------------------------
(***************************************************************************)
(* Proofs about Dtls12Window for all values of its constants, with the     *)
(* bounds MAX_HI, EDGE and MAX_EPOCH as large as one likes and LO the      *)
(* 2^32 of the code.                                                       *)
(*                                                                         *)
(* Both windows are read and written by the same code, so one lemma,       *)
(* UpdateExact, carries the proof: if a window marks exactly the numbers   *)
(* of a set S, and _DtlsCheckWindow lets a record through, then after      *)
(* wolfSSL_DtlsUpdateWindow it marks exactly S and that record.  The       *)
(* inductive invariant says so of the two windows, and that no record      *)
(* processed is at or above the next number of its epoch.                  *)
(***************************************************************************)
EXTENDS Dtls12Window, TLAPS

\* Arithmetic of multiples of B: the provers do not multiply two variables by
\* themselves, so every fact about a word index times DTLS_WORD_BITS is here.
LEMMA Products ==
    ASSUME NEW i \in Int, NEW j \in Int, NEW B \in Nat \ {0}
    PROVE  /\ i * B \in Int
           /\ (i + 1) * B = i * B + B
           /\ (i - 1) * B = i * B - B
           /\ (i - j) * B = i * B - j * B
           /\ i < j => i * B + B <= j * B
           /\ i <= j => i * B <= j * B
           /\ i >= 0 => i * B >= 0
  BY Z3

\* Division with remainder, which splits a distance into a word index and a bit
\* position (diff / DTLS_WORD_BITS and diff % DTLS_WORD_BITS in the code).
LEMMA DivMod ==
    ASSUME NEW n \in Nat, NEW B \in Nat \ {0}
    PROVE  /\ n \div B \in Nat
           /\ n % B \in 0 .. B - 1
           /\ n = ((n \div B) * B) + (n % B)
  BY Z3

\* That split is unique: two (word, bit) pairs for the same distance are equal.
LEMMA Digits ==
    ASSUME NEW B \in Nat \ {0}, NEW i \in Int, NEW j \in Int,
           NEW b \in 0 .. B - 1, NEW c \in 0 .. B - 1,
           i * B + b = j * B + c
    PROVE  i = j /\ b = c
<1>1. ~ (i < j)
  BY Products, Z3
<1>2. ~ (j < i)
  BY Products, Z3
<1> QED
  BY <1>1, <1>2, Z3

\* A distance smaller than DTLS_SEQ_BITS has its bit inside the window array: the
\* accesses window[idx] of check and update stay within bounds.
LEMMA SlotOf ==
    ASSUME NEW n \in Nat, n < SEQ_BITS
    PROVE  /\ n \div WORD_BITS \in WordIdx
           /\ n % WORD_BITS \in BitIdx
           /\ n = ((n \div WORD_BITS) * WORD_BITS) + (n % WORD_BITS)
<1> DEFINE q == n \div WORD_BITS
           r == n % WORD_BITS
<1>1. q \in Nat /\ r \in 0 .. WORD_BITS - 1 /\ n = q * WORD_BITS + r
  BY DivMod, WindowAssumption
<1> HIDE DEF q, r
<1>2. ~ (WINDOW_WORDS <= q)
  <2> SUFFICES ASSUME WINDOW_WORDS <= q PROVE FALSE
    OBVIOUS
  <2>1. WINDOW_WORDS * WORD_BITS <= q * WORD_BITS
    BY <1>1, WindowAssumption, Products
  <2>2. WINDOW_WORDS * WORD_BITS \in Int /\ q * WORD_BITS \in Int
    BY <1>1, WindowAssumption, Products
  <2> QED
    BY <1>1, <2>1, <2>2 DEF SEQ_BITS
<1>3. q \in WordIdx
  BY <1>1, <1>2, WindowAssumption DEF WordIdx
<1> QED
  BY <1>1, <1>3 DEF q, r, BitIdx

\* What the loop of _DtlsUpdateWindowGTSeq computes: a bit is set after the shift
\* exactly if the bit diff places below it, in whichever word, was set before.
LEMMA ShiftBits ==
    ASSUME NEW win \in Window, NEW diff \in 1 .. SEQ_BITS - 1,
           NEW i \in WordIdx, NEW b \in BitIdx
    PROVE  b \in ShiftedWords(diff, win)[i] <=>
             \E j \in WordIdx, c \in BitIdx :
                /\ c \in win[j]
                /\ i * WORD_BITS + b = j * WORD_BITS + c + diff
<1> DEFINE idx == diff \div WORD_BITS
           off == diff % WORD_BITS
           B == WORD_BITS
<1>0. B \in Nat \ {0} /\ diff \in Nat /\ diff < SEQ_BITS
  <2>1. SEQ_BITS \in Int
    BY WindowAssumption, Products DEF SEQ_BITS
  <2> QED
    BY <2>1, WindowAssumption
<1>1. idx \in WordIdx /\ off \in BitIdx /\ diff = idx * B + off
  BY <1>0, SlotOf
<1>a. ShiftedWords(diff, win) =
        [k \in WordIdx |->
           IF k < idx THEN {}
           ELSE ShiftLeft(win[k - idx], off) \cup
                IF k > idx /\ off > 0
                THEN ShiftRight(win[k - idx - 1], B - off)
                ELSE {}]
  BY DEF ShiftedWords
<1> HIDE DEF idx, off, B
<1>2. b \in ShiftedWords(diff, win)[i] <=>
        /\ ~ (i < idx)
        /\ \/ b - off \in win[i - idx]
           \/ i > idx /\ off > 0 /\ b + (B - off) \in win[i - idx - 1]
  BY <1>a DEF ShiftLeft, ShiftRight
<1>3. /\ i \in Nat /\ idx \in Nat /\ b \in 0 .. B - 1 /\ off \in 0 .. B - 1
      /\ i < WINDOW_WORDS /\ WINDOW_WORDS \in Nat
  BY <1>1, WindowAssumption DEF WordIdx, BitIdx, B
<1>4. ASSUME NEW j \in Int PROVE j * B \in Int /\ (j + 1) * B = j * B + B
  BY <1>0, <1>4, Products
<1>5. ASSUME NEW j \in Int, NEW k \in Int
      PROVE  (j - k) * B = j * B - k * B
  BY <1>0, <1>5, Products
<1>6. \A j \in WordIdx : win[j] \subseteq BitIdx
  BY DEF Window, Word
<1>7. ASSUME ~ (i < idx), b - off \in win[i - idx]
      PROVE  \E j \in WordIdx, c \in BitIdx :
                c \in win[j] /\ i * B + b = j * B + c + diff
  <2>1. i - idx \in WordIdx
    BY <1>3, <1>7 DEF WordIdx
  <2>2. b - off \in BitIdx
    BY <2>1, <1>6, <1>7
  <2>3. i * B + b = (i - idx) * B + (b - off) + diff
    <3>1. (i - idx) * B = i * B - idx * B
      BY <1>3, <1>5
    <3>2. i * B \in Int /\ idx * B \in Int
      BY <1>3, <1>4
    <3> QED
      BY <3>1, <3>2, <1>0, <1>1, <1>3
  <2> QED
    BY <2>1, <2>2, <2>3, <1>7
<1>8. ASSUME i > idx, off > 0, b + (B - off) \in win[i - idx - 1]
      PROVE  \E j \in WordIdx, c \in BitIdx :
                c \in win[j] /\ i * B + b = j * B + c + diff
  <2>1. i - idx - 1 \in WordIdx
    BY <1>3, <1>8 DEF WordIdx
  <2>2. b + (B - off) \in BitIdx
    BY <2>1, <1>6, <1>8
  <2>3. i * B + b = (i - idx - 1) * B + (b + (B - off)) + diff
    <3>1. (i - idx) * B = i * B - idx * B
      BY <1>3, <1>5
    <3>2. ((i - idx - 1) + 1) * B = (i - idx - 1) * B + B
      BY <1>3, <1>4
    <3>3. (i - idx - 1) + 1 = i - idx
      BY <1>3
    <3> QED
      BY <3>1, <3>2, <3>3, <1>0, <1>1, <1>3, <1>4
  <2> QED
    BY <2>1, <2>2, <2>3, <1>8
<1>9. ASSUME NEW j \in WordIdx, NEW c \in BitIdx, c \in win[j],
             i * B + b = j * B + c + diff
      PROVE  /\ ~ (i < idx)
             /\ \/ b - off \in win[i - idx]
                \/ i > idx /\ off > 0 /\ b + (B - off) \in win[i - idx - 1]
  <2>1. j \in Nat /\ c \in 0 .. B - 1
    BY WindowAssumption DEF WordIdx, BitIdx, B
  <2>2. (i - idx) * B = i * B - idx * B
    BY <1>3, <1>5
  <2>3. (i - idx) * B + (b - off) = j * B + c
    BY <2>1, <2>2, <1>9, <1>1, <1>3, <1>4, <1>0
  <2>4. CASE b >= off
    <3>1. i - idx = j /\ b - off = c
      <4>1. b - off \in 0 .. B - 1 /\ i - idx \in Int /\ j \in Int
        BY <2>4, <1>3, <2>1, <1>0
      <4> QED
        BY <4>1, <2>3, <2>1, <1>0, Digits
    <3> QED
      BY <3>1, <2>1, <1>3, <1>9
  <2>5. CASE b < off
    <3>1. (i - idx - 1) * B + B = (i - idx) * B
      <4>1. ((i - idx - 1) + 1) * B = (i - idx - 1) * B + B
        BY <1>3, <1>4
      <4>2. (i - idx - 1) + 1 = i - idx
        BY <1>3
      <4> QED
        BY <4>1, <4>2
    <3>2. i - idx - 1 = j /\ b + (B - off) = c
      <4> DEFINE k == i - idx - 1
                 d == b + (B - off)
      <4>1. d \in 0 .. B - 1 /\ k \in Int /\ j \in Int
        BY <2>5, <1>3, <2>1, <1>0
      <4>2. k * B \in Int /\ j * B \in Int /\ (i - idx) * B \in Int
        BY <4>1, <1>4, <1>3
      <4>3. k * B + d = j * B + c
        BY <4>2, <3>1, <2>3, <1>3, <1>0, <2>1
      <4> HIDE DEF k, d
      <4>4. k = j /\ d = c
        BY <4>1, <4>3, <2>1, <1>0, Digits
      <4> QED
        BY <4>4 DEF k, d
    <3> QED
      BY <3>2, <2>1, <2>5, <1>3, <1>9
  <2> QED
    BY <2>4, <2>5, <1>3
<1>10. b \in ShiftedWords(diff, win)[i] <=>
         \E j \in WordIdx, c \in BitIdx :
            c \in win[j] /\ i * B + b = j * B + c + diff
  <2> HIDE DEF ShiftedWords
  <2> QED
    BY <1>2, <1>7, <1>8, <1>9
<1> QED
  BY <1>10 DEF B

\* The window has at least one word, one bit and so one position.
LEMMA SeqBitsType == SEQ_BITS \in Nat \ {0} /\ 0 \in WordIdx /\ 0 \in BitIdx
<1>1. SEQ_BITS \in Int /\ 1 * WORD_BITS <= SEQ_BITS
  BY WindowAssumption, Products DEF SEQ_BITS
<1>2. 1 * WORD_BITS = WORD_BITS
  BY WindowAssumption
<1> QED
  BY <1>1, <1>2, WindowAssumption DEF WordIdx, BitIdx

\* The distance a (word, bit) pair stands for is a natural number.
LEMMA SlotType ==
    ASSUME NEW i \in WordIdx, NEW b \in BitIdx
    PROVE  i * WORD_BITS + b \in Nat
<1>1. i * WORD_BITS \in Int /\ i * WORD_BITS >= 0
  BY WindowAssumption, Products DEF WordIdx
<1> QED
  BY <1>1, WindowAssumption DEF BitIdx

-----------------------------------------------------------------------------
(***************************************************************************)
(* What a window means, apart from where the set of records comes from.    *)
(***************************************************************************)

\* The window marks exactly the numbers of S that are below n and in its reach.
Exact(win, n, S) ==
    \A i \in WordIdx, b \in BitIdx :
        b \in win[i] <=> n - 1 - (i * WORD_BITS + b) \in S

\* The bit for distance k is set exactly if the number k + 1 below n is in S.
LEMMA TestBitExact ==
    ASSUME NEW win, NEW n \in Int, NEW S, Exact(win, n, S),
           NEW k \in Nat, k < SEQ_BITS
    PROVE  TestBit(win, k) <=> n - 1 - k \in S
<1> DEFINE q == k \div WORD_BITS
           r == k % WORD_BITS
<1>1. q \in WordIdx /\ r \in BitIdx /\ k = q * WORD_BITS + r
  BY SlotOf
<1>2. TestBit(win, k) <=> r \in win[q]
  BY DEF TestBit
<1> HIDE DEF q, r
<1>3. r \in win[q] <=> n - 1 - (q * WORD_BITS + r) \in S
  BY <1>1 DEF Exact
<1> QED
  BY <1>1, <1>2, <1>3

\* Marking a late record adds it to what the window marks.
LEMMA LateExact ==
    ASSUME NEW win \in Window, NEW n \in Int, NEW S, Exact(win, n, S),
           NEW k \in Nat, k < SEQ_BITS
    PROVE  /\ SetBit(win, k) \in Window
           /\ Exact(SetBit(win, k), n, S \cup {n - 1 - k})
<1> DEFINE q == k \div WORD_BITS
           r == k % WORD_BITS
           new == SetBit(win, k)
<1>1. q \in WordIdx /\ r \in BitIdx /\ k = q * WORD_BITS + r
  BY SlotOf
<1>2. new = [win EXCEPT ![q] = @ \cup {r}]
  BY DEF SetBit
<1> HIDE DEF q, r, new
<1>3. new \in Window
  BY <1>1, <1>2 DEF Window, Word
<1>4. ASSUME NEW i \in WordIdx, NEW b \in BitIdx
      PROVE  b \in new[i] <=> n - 1 - (i * WORD_BITS + b) \in S \cup {n - 1 - k}
  <2> DEFINE m == i * WORD_BITS + b
  <2>1. m \in Nat
    BY SlotType
  <2>2. b \in win[i] <=> n - 1 - m \in S
    BY DEF Exact
  <2>3. (i = q /\ b = r) <=> m = k
    <3>1. i = q /\ b = r => m = k
      BY <1>1
    <3>2. ASSUME m = k PROVE i = q /\ b = r
      <4>1. i \in Int /\ q \in Int /\ b \in 0 .. WORD_BITS - 1
              /\ r \in 0 .. WORD_BITS - 1 /\ WORD_BITS \in Nat \ {0}
        BY <1>1, WindowAssumption DEF WordIdx, BitIdx
      <4>2. i * WORD_BITS + b = q * WORD_BITS + r
        BY <3>2, <1>1
      <4> QED
        BY <4>1, <4>2, Digits
    <3> QED
      BY <3>1, <3>2
  <2>4. b \in new[i] <=> b \in win[i] \/ (i = q /\ b = r)
    BY <1>1, <1>2 DEF Window
  <2> HIDE DEF m
  <2>5. n - 1 - m = n - 1 - k <=> m = k
    BY <2>1
  <2>6. b \in new[i] <=> n - 1 - m \in S \cup {n - 1 - k}
    BY <2>2, <2>3, <2>4, <2>5
  <2> QED
    BY <2>6 DEF m
<1>5. Exact(new, n, S \cup {n - 1 - k})
  BY <1>4 DEF Exact
<1> QED
  BY <1>3, <1>5 DEF new

\* Every distance a (word, bit) pair stands for is inside the window.
LEMMA SlotBound ==
    ASSUME NEW i \in WordIdx, NEW b \in BitIdx
    PROVE  i * WORD_BITS + b < SEQ_BITS
<1>1. i \in Int /\ WINDOW_WORDS \in Int /\ i < WINDOW_WORDS
  BY WindowAssumption DEF WordIdx
<1>2. i * WORD_BITS + WORD_BITS <= SEQ_BITS
  BY <1>1, WindowAssumption, Products DEF SEQ_BITS
<1>3. i * WORD_BITS \in Int
  BY <1>1, WindowAssumption, Products
<1> QED
  BY <1>2, <1>3, SeqBitsType, WindowAssumption DEF BitIdx

\* Moving the window up by gap records adds the newest one, whether the distance
\* handed to _DtlsUpdateWindowGTSeq is the gap or, where that is not less than the
\* window, the 0 that empties it.
LEMMA MoveExact ==
    ASSUME NEW win \in Window, NEW n \in Int, NEW S, Exact(win, n, S),
           \A s \in S : s \in Int /\ s < n,
           NEW gap \in Nat \ {0}, NEW d \in Nat,
           d = gap \/ (d = 0 /\ gap >= SEQ_BITS)
    PROVE  /\ UpdateWindowGTSeq(d, win) \in Window
           /\ Exact(UpdateWindowGTSeq(d, win), n + gap, S \cup {n + gap - 1})
<1> DEFINE moved == IF d = 0 \/ d >= SEQ_BITS THEN EmptyWindow
                    ELSE ShiftedWords(d, win)
           new == UpdateWindowGTSeq(d, win)
<1>1. moved \in Window
  BY DEF EmptyWindow, ShiftedWords, ShiftLeft, ShiftRight, Window, Word
<1>2. new = [moved EXCEPT ![0] = @ \cup {0}]
  BY DEF UpdateWindowGTSeq
<1> HIDE DEF new
<1>3. ASSUME NEW i \in WordIdx, NEW b \in BitIdx
      PROVE  b \in moved[i] <=> n + gap - 1 - (i * WORD_BITS + b) \in S
  <2> DEFINE m == i * WORD_BITS + b
  <2>0. m \in Nat /\ m < SEQ_BITS
    BY SlotType, SlotBound
  <2>1. CASE d # 0 /\ d < SEQ_BITS
    <3>0. d = gap /\ gap \in 1 .. SEQ_BITS - 1 /\ moved = ShiftedWords(gap, win)
      BY <2>1, SeqBitsType
    <3> HIDE DEF moved
    <3>1. b \in moved[i] <=>
            \E j \in WordIdx, c \in BitIdx :
               /\ c \in win[j]
               /\ i * WORD_BITS + b = j * WORD_BITS + c + gap
      BY <3>0, ShiftBits
    <3>2. ASSUME NEW j \in WordIdx, NEW c \in BitIdx, c \in win[j],
                 m = j * WORD_BITS + c + gap
          PROVE  n + gap - 1 - m \in S
      <4>1. j * WORD_BITS + c \in Nat
        BY SlotType
      <4>2. n - 1 - (j * WORD_BITS + c) \in S
        BY <3>2 DEF Exact
      <4>3. n - 1 - (j * WORD_BITS + c) = n + gap - 1 - m
        BY <4>1, <3>2
      <4> QED
        BY <4>2, <4>3
    <3>3. ASSUME n + gap - 1 - m \in S
          PROVE  \E j \in WordIdx, c \in BitIdx :
                    c \in win[j] /\ m = j * WORD_BITS + c + gap
      <4> DEFINE k == m - gap
                 q == k \div WORD_BITS
                 r == k % WORD_BITS
      <4>1. k \in Nat /\ k < SEQ_BITS /\ n - 1 - k = n + gap - 1 - m /\ m = k + gap
        <5>1. n + gap - 1 - m < n
          BY <3>3
        <5> QED
          BY <5>1, <2>0, SeqBitsType
      <4> HIDE DEF k
      <4>2. q \in WordIdx /\ r \in BitIdx /\ k = q * WORD_BITS + r
        BY <4>1, SlotOf
      <4> HIDE DEF q, r
      <4>3. n - 1 - (q * WORD_BITS + r) \in S
        BY <4>1, <4>2, <3>3
      <4>4. r \in win[q]
        BY <4>2, <4>3 DEF Exact
      <4>5. m = q * WORD_BITS + r + gap
        BY <4>1, <4>2
      <4> QED
        BY <4>2, <4>4, <4>5
    <3> QED
      BY <3>1, <3>2, <3>3
  <2>2. CASE ~ (d # 0 /\ d < SEQ_BITS)
    <3>1. b \notin moved[i]
      BY <2>2, SeqBitsType DEF EmptyWindow
    <3>2. gap >= SEQ_BITS
      BY <2>2, SeqBitsType
    <3>3. ~ (n + gap - 1 - m < n)
      BY <3>2, <2>0, SeqBitsType
    <3> QED
      BY <3>1, <3>3
  <2> QED
    BY <2>1, <2>2
<1> HIDE DEF moved
<1>4. new \in Window
  BY <1>1, <1>2, SeqBitsType DEF Window, Word
<1>5. ASSUME NEW i \in WordIdx, NEW b \in BitIdx
      PROVE  b \in new[i] <=>
               n + gap - 1 - (i * WORD_BITS + b) \in S \cup {n + gap - 1}
  <2> DEFINE m == i * WORD_BITS + b
  <2>0. m \in Nat
    BY SlotType
  <2>1. (i = 0 /\ b = 0) <=> m = 0
    <3>1. i = 0 /\ b = 0 => m = 0
      BY WindowAssumption
    <3>2. ASSUME m = 0 PROVE i = 0 /\ b = 0
      <4>1. i * WORD_BITS + b = 0 * WORD_BITS + 0
        BY <3>2, WindowAssumption
      <4>2. i \in Int /\ 0 \in Int /\ b \in 0 .. WORD_BITS - 1
              /\ 0 \in 0 .. WORD_BITS - 1 /\ WORD_BITS \in Nat \ {0}
        BY WindowAssumption DEF WordIdx, BitIdx
      <4> QED
        BY <4>1, <4>2, Digits
    <3> QED
      BY <3>1, <3>2
  <2>2. b \in new[i] <=> m = 0 \/ b \in moved[i]
    BY <2>1, <1>1, <1>2, SeqBitsType DEF Window
  <2>3. b \in moved[i] <=> n + gap - 1 - m \in S
    BY <1>3
  <2> HIDE DEF m
  <2>4. n + gap - 1 - m = n + gap - 1 <=> m = 0
    BY <2>0
  <2>5. b \in new[i] <=> n + gap - 1 - m \in S \cup {n + gap - 1}
    BY <2>2, <2>3, <2>4
  <2> QED
    BY <2>5 DEF m
<1>6. Exact(new, n + gap, S \cup {n + gap - 1})
  <2>1. \A i \in WordIdx, b \in BitIdx :
          (n + gap) - 1 - (i * WORD_BITS + b) = n + gap - 1 - (i * WORD_BITS + b)
    BY SlotType
  <2> QED
    BY <1>5, <2>1 DEF Exact
<1> QED
  BY <1>4, <1>6 DEF new

-----------------------------------------------------------------------------
(***************************************************************************)
(* Numbers in two parts, and the distances between them.                   *)
(***************************************************************************)
Number == [hi : Nat, lo : 0 .. LO - 1]
IsNumber(n) == n.hi \in Nat /\ n.lo \in 0 .. LO - 1

\* The constants are numbers and LO is larger than three windows.
LEMMA Sizes == /\ LO \in Nat \ {0} /\ SEQ_BITS \in Nat \ {0}
               /\ LO > 3 * SEQ_BITS + 1
  BY LoAssumption, SeqBitsType

\* What a word32 makes of a difference of two low parts.
LEMMA LoIs ==
    ASSUME NEW x \in Int
    PROVE  /\ x \in 0 .. LO - 1 => Lo(x) = x
           /\ x \in -LO .. -1 => Lo(x) = x + LO
           /\ Lo(LO) = 0
<1> DEFINE B == LO
<1>1. B \in Nat \ {0}
  BY Sizes
<1> HIDE DEF B
<1>2. x \in 0 .. B - 1 => x % B = x
  BY <1>1, Z3
<1>3. x \in -B .. -1 => x % B = x + B
  BY <1>1, Z3
<1>4. B % B = 0
  BY <1>1, Z3
<1> QED
  BY <1>2, <1>3, <1>4 DEF Lo, B

\* The distance between two numbers, as natural numbers, by their two parts.
LEMMA ValueDiff ==
    ASSUME NEW a, NEW b, IsNumber(a), IsNumber(b)
    PROVE  /\ Value(a) \in Nat /\ Value(b) \in Nat
           /\ a.hi = b.hi => Value(a) - Value(b) = a.lo - b.lo
           /\ a.hi = b.hi + 1 => Value(a) - Value(b) = LO + a.lo - b.lo
           /\ a.hi < b.hi => Value(a) < Value(b)
<1>1. /\ a.hi \in Int /\ b.hi \in Int /\ a.lo \in Int /\ b.lo \in Int
      /\ a.hi >= 0 /\ b.hi >= 0
      /\ 0 <= a.lo /\ a.lo < LO /\ 0 <= b.lo /\ b.lo < LO
      /\ LO \in Nat \ {0}
  BY Sizes DEF IsNumber
<1>2. /\ a.hi * LO \in Int /\ b.hi * LO \in Int
      /\ a.hi * LO >= 0 /\ b.hi * LO >= 0
      /\ (b.hi + 1) * LO = b.hi * LO + LO
      /\ a.hi < b.hi => a.hi * LO + LO <= b.hi * LO
  BY <1>1, Products
<1>3. Value(a) = a.hi * LO + a.lo /\ Value(b) = b.hi * LO + b.lo
  BY DEF Value
<1>4. Value(a) \in Nat /\ Value(b) \in Nat
  BY <1>1, <1>2, <1>3
<1>5. a.hi = b.hi => Value(a) - Value(b) = a.lo - b.lo
  BY <1>1, <1>2, <1>3
<1>6. a.hi = b.hi + 1 => Value(a) - Value(b) = LO + a.lo - b.lo
  BY <1>1, <1>2, <1>3
<1>7. a.hi < b.hi => Value(a) < Value(b)
  BY <1>1, <1>2, <1>3
<1> QED
  BY <1>4, <1>5, <1>6, <1>7

\* The comparison of _DtlsCheckWindow is the order of the numbers.
LEMMA CheckLTIs ==
    ASSUME NEW a, NEW b, IsNumber(a), IsNumber(b)
    PROVE  CheckLT(a, b) <=> Value(a) < Value(b)
<1>0. a.hi \in Nat /\ b.hi \in Nat /\ a.lo \in Int /\ b.lo \in Int
  BY Sizes DEF IsNumber
<1>1. Value(a) \in Nat /\ Value(b) \in Nat
  BY ValueDiff
<1>2. CASE a.hi = b.hi
  <2>1. Value(a) - Value(b) = a.lo - b.lo
    BY <1>2, ValueDiff
  <2> QED
    BY <2>1, <1>0, <1>1, <1>2 DEF CheckLT
<1>3. CASE a.hi < b.hi
  <2>1. Value(a) < Value(b)
    BY <1>3, ValueDiff
  <2> QED
    BY <2>1, <1>0, <1>3 DEF CheckLT
<1>4. CASE b.hi < a.hi
  <2>1. Value(b) < Value(a)
    BY <1>4, ValueDiff
  <2> QED
    BY <2>1, <1>0, <1>1, <1>4 DEF CheckLT
<1> QED
  BY <1>0, <1>2, <1>3, <1>4

\* The number after cur (wolfSSL_DtlsUpdateWindow's carry into the high part).
LEMMA AfterIs ==
    ASSUME NEW cur, IsNumber(cur)
    PROVE  After(cur) \in Number /\ Value(After(cur)) = Value(cur) + 1
<1>0. cur.hi \in Nat /\ cur.lo \in Nat /\ cur.lo < LO /\ LO \in Nat \ {0}
  BY Sizes DEF IsNumber
<1>1. cur.hi * LO \in Int /\ (cur.hi + 1) * LO = cur.hi * LO + LO
  BY <1>0, Products
<1>2. CASE cur.lo + 1 = LO
  <2>1. After(cur) = [hi |-> cur.hi + 1, lo |-> 0]
    <3>1. Lo(cur.lo + 1) = 0
      BY <1>0, <1>2, LoIs
    <3> QED
      BY <3>1 DEF After
  <2>2. Value(After(cur)) = (cur.hi + 1) * LO + 0 /\ Value(cur) = cur.hi * LO + cur.lo
    BY <2>1 DEF Value
  <2> QED
    BY <2>1, <2>2, <1>0, <1>1, <1>2 DEF Number
<1>3. CASE cur.lo + 1 # LO
  <2>1. After(cur) = [hi |-> cur.hi, lo |-> cur.lo + 1]
    <3>1. Lo(cur.lo + 1) = cur.lo + 1
      BY <1>0, <1>3, LoIs
    <3> QED
      BY <3>1, <1>0 DEF After
  <2>2. Value(After(cur)) = cur.hi * LO + (cur.lo + 1)
        /\ Value(cur) = cur.hi * LO + cur.lo
    BY <2>1 DEF Value
  <2> QED
    BY <2>1, <2>2, <1>0, <1>1, <1>3 DEF Number
<1> QED
  BY <1>2, <1>3

\* What the check lets through: a record not yet passed; one in the window whose
\* bit is not set; or, because the distance is taken the wrong way round when the
\* high parts differ, one at least LO - SEQ_BITS behind.
LEMMA CheckedNumber ==
    ASSUME NEW cur, NEW nxt, NEW win, IsNumber(cur), IsNumber(nxt),
           CheckNumber(cur, nxt, win), Value(cur) < Value(nxt)
    PROVE  \/ /\ cur.hi = nxt.hi
              /\ Value(nxt) - Value(cur) <= SEQ_BITS
              /\ ~ TestBit(win, Value(nxt) - Value(cur) - 1)
           \/ /\ nxt.hi = cur.hi + 1
              /\ Value(nxt) - Value(cur) >= LO - SEQ_BITS
<1> DEFINE diff == CheckDiff(cur, nxt)
<1>0. /\ cur.hi \in Nat /\ nxt.hi \in Nat /\ LO \in Nat \ {0}
      /\ cur.lo \in Int /\ 0 <= cur.lo /\ cur.lo < LO
      /\ nxt.lo \in Int /\ 0 <= nxt.lo /\ nxt.lo < LO
      /\ SEQ_BITS \in Nat \ {0} /\ LO > 3 * SEQ_BITS + 1
  BY Sizes DEF IsNumber
<1>1. CheckLT(cur, nxt)
  BY CheckLTIs
<1>2. /\ ~ (cur.hi > nxt.hi + 1 \/ nxt.hi > cur.hi + 1)
      /\ ~ ((nxt.hi > 0 \/ nxt.lo > SEQ_BITS) /\ diff > SEQ_BITS)
      /\ diff # 0
      /\ (diff - 1) \div WORD_BITS < WINDOW_WORDS
      /\ ~ TestBit(win, diff - 1)
  BY <1>1 DEF CheckNumber
<1>3. Value(cur) \in Nat /\ Value(nxt) \in Nat
  BY ValueDiff
<1>4. CASE cur.hi = nxt.hi
  <2>1. cur.lo < nxt.lo
    BY <1>1, <1>4 DEF CheckLT
  <2>2. diff = nxt.lo - cur.lo
    BY <2>1, <1>4 DEF CheckDiff
  <2>3. Value(nxt) - Value(cur) = nxt.lo - cur.lo
    BY <1>4, ValueDiff
  <2>4. diff <= SEQ_BITS
    <3> HIDE DEF diff
    <3> QED
      BY <2>2, <1>0, <1>2
  <2>5. diff = Value(nxt) - Value(cur)
    BY <2>2, <2>3
  <2> HIDE DEF diff
  <2> QED
    BY <2>4, <2>5, <1>2, <1>4
<1>5. CASE cur.hi # nxt.hi
  <2>1. cur.hi < nxt.hi
    BY <1>1, <1>5 DEF CheckLT
  <2>2. nxt.hi = cur.hi + 1
    BY <2>1, <1>0, <1>2
  <2>3. Value(nxt) - Value(cur) = LO + nxt.lo - cur.lo
    BY <2>2, ValueDiff
  <2>4. diff = Lo(cur.lo - nxt.lo)
    BY <2>1, <1>5 DEF CheckDiff
  <2> HIDE DEF diff
  <2>5. diff <= SEQ_BITS
    <3>1. nxt.hi > 0
      BY <2>1, <1>0
    <3>2. diff \in Int
      BY <2>4, <1>0, LoIs
    <3> QED
      BY <3>1, <3>2, <1>0, <1>2
  <2>6. CASE cur.lo >= nxt.lo
    <3>1. diff = cur.lo - nxt.lo
      BY <2>4, <2>6, <1>0, LoIs
    <3> QED
      BY <3>1, <2>2, <2>3, <2>5, <1>0
  <2>7. CASE cur.lo < nxt.lo
    <3>1. Value(nxt) - Value(cur) >= LO
      BY <2>3, <2>7, <1>0
    <3> QED
      BY <3>1, <2>2, <1>0, <1>3
  <2> QED
    BY <2>6, <2>7, <1>0
<1> QED
  BY <1>4, <1>5

\* The window and the next number after an update that marks a late record.
LEMMA UpdateLate ==
    ASSUME NEW cur, NEW nxt, NEW win, NEW k \in Nat, k < SEQ_BITS,
           UpdateDist(cur, nxt) = Dist(k + 1), CheckLT(cur, nxt)
    PROVE  /\ UpdatedWindow(cur, nxt, win) = SetBit(win, k)
           /\ UpdatedNext(cur, nxt) = nxt
<1> DEFINE d == UpdateDist(cur, nxt)
<1>1. d.kind = "dist" /\ d.n = k + 1
  BY DEF Dist
<1>2. (k + 1) - 1 = k
  OBVIOUS
<1>3. k \div WORD_BITS < WINDOW_WORDS
  BY SlotOf, WindowAssumption DEF WordIdx
<1>4. UpdatedWindow(cur, nxt, win) =
        CASE d.kind = "old"   -> win
          [] d.kind = "reset" -> UpdateWindowGTSeq(0, win)
          [] d.kind = "dist" /\ CheckLT(cur, nxt) ->
                IF (d.n - 1) \div WORD_BITS < WINDOW_WORDS
                THEN SetBit(win, d.n - 1)
                ELSE win
          [] d.kind = "dist" /\ ~ CheckLT(cur, nxt) ->
                UpdateWindowGTSeq(Lo(d.n + 1), win)
  BY DEF UpdatedWindow
<1>5. UpdatedNext(cur, nxt) =
        IF d.kind = "reset" \/ (d.kind = "dist" /\ ~ CheckLT(cur, nxt))
        THEN After(cur) ELSE nxt
  BY DEF UpdatedNext
<1> HIDE DEF d
<1>6. d.n - 1 = k
  BY <1>1, <1>2
<1> QED
  BY <1>1, <1>3, <1>4, <1>5, <1>6

\* The window and the next number after an update that moves the window.
LEMMA UpdateMove ==
    ASSUME NEW cur, NEW nxt, NEW win, NEW k,
           UpdateDist(cur, nxt) = Dist(k), ~ CheckLT(cur, nxt)
    PROVE  /\ UpdatedWindow(cur, nxt, win) = UpdateWindowGTSeq(Lo(k + 1), win)
           /\ UpdatedNext(cur, nxt) = After(cur)
<1> DEFINE d == UpdateDist(cur, nxt)
<1>1. d.kind = "dist" /\ d.n = k
  BY DEF Dist
<1>2. UpdatedWindow(cur, nxt, win) =
        CASE d.kind = "old"   -> win
          [] d.kind = "reset" -> UpdateWindowGTSeq(0, win)
          [] d.kind = "dist" /\ CheckLT(cur, nxt) ->
                IF (d.n - 1) \div WORD_BITS < WINDOW_WORDS
                THEN SetBit(win, d.n - 1)
                ELSE win
          [] d.kind = "dist" /\ ~ CheckLT(cur, nxt) ->
                UpdateWindowGTSeq(Lo(d.n + 1), win)
  BY DEF UpdatedWindow
<1>3. UpdatedNext(cur, nxt) =
        IF d.kind = "reset" \/ (d.kind = "dist" /\ ~ CheckLT(cur, nxt))
        THEN After(cur) ELSE nxt
  BY DEF UpdatedNext
<1> HIDE DEF d
<1> QED
  BY <1>1, <1>2, <1>3

\* The same for a record too new for the window, and for one too far back.
LEMMA UpdateEnds ==
    ASSUME NEW cur, NEW nxt, NEW win
    PROVE  /\ UpdateDist(cur, nxt) = Reset =>
                /\ UpdatedWindow(cur, nxt, win) = UpdateWindowGTSeq(0, win)
                /\ UpdatedNext(cur, nxt) = After(cur)
           /\ UpdateDist(cur, nxt) = Old =>
                /\ UpdatedWindow(cur, nxt, win) = win
                /\ UpdatedNext(cur, nxt) = nxt
<1> DEFINE d == UpdateDist(cur, nxt)
<1>1. /\ d = Reset => d.kind = "reset"
      /\ d = Old => d.kind = "old"
  BY DEF Reset, Old
<1>2. UpdatedWindow(cur, nxt, win) =
        CASE d.kind = "old"   -> win
          [] d.kind = "reset" -> UpdateWindowGTSeq(0, win)
          [] d.kind = "dist" /\ CheckLT(cur, nxt) ->
                IF (d.n - 1) \div WORD_BITS < WINDOW_WORDS
                THEN SetBit(win, d.n - 1)
                ELSE win
          [] d.kind = "dist" /\ ~ CheckLT(cur, nxt) ->
                UpdateWindowGTSeq(Lo(d.n + 1), win)
  BY DEF UpdatedWindow
<1>3. UpdatedNext(cur, nxt) =
        IF d.kind = "reset" \/ (d.kind = "dist" /\ ~ CheckLT(cur, nxt))
        THEN After(cur) ELSE nxt
  BY DEF UpdatedNext
<1> HIDE DEF d
<1>4. d.kind = "reset" => /\ UpdatedWindow(cur, nxt, win) = UpdateWindowGTSeq(0, win)
                          /\ UpdatedNext(cur, nxt) = After(cur)
  BY <1>2, <1>3
<1>5. d.kind = "old" => /\ UpdatedWindow(cur, nxt, win) = win
                        /\ UpdatedNext(cur, nxt) = nxt
  BY <1>2, <1>3
<1> QED
  BY <1>1, <1>4, <1>5 DEF d

\* wolfSSL_DtlsUpdateWindow after a check that succeeded: the window marks one
\* record more, and the next number is above everything it has seen.
LEMMA UpdateExact ==
    ASSUME NEW cur, IsNumber(cur), NEW nxt \in Number, NEW win \in Window,
           NEW S, \A s \in S : s \in Int /\ s < Value(nxt),
           Exact(win, Value(nxt), S), CheckNumber(cur, nxt, win)
    PROVE  /\ UpdatedWindow(cur, nxt, win) \in Window
           /\ UpdatedNext(cur, nxt) \in Number
           /\ Value(nxt) <= Value(UpdatedNext(cur, nxt))
           /\ Value(cur) < Value(UpdatedNext(cur, nxt))
           /\ Exact(UpdatedWindow(cur, nxt, win), Value(UpdatedNext(cur, nxt)),
                    S \cup {Value(cur)})
<1> DEFINE v == Value(cur)
           n == Value(nxt)
           newWin == UpdatedWindow(cur, nxt, win)
           newNext == UpdatedNext(cur, nxt)
<1>a. IsNumber(nxt)
  BY DEF Number, IsNumber
<1>0. /\ cur.hi \in Nat /\ nxt.hi \in Nat /\ LO \in Nat \ {0}
      /\ cur.lo \in Int /\ 0 <= cur.lo /\ cur.lo < LO
      /\ nxt.lo \in Int /\ 0 <= nxt.lo /\ nxt.lo < LO
      /\ SEQ_BITS \in Nat \ {0} /\ LO > 3 * SEQ_BITS + 1
  BY <1>a, Sizes DEF IsNumber
<1>1. v \in Nat /\ n \in Nat
  BY <1>a, ValueDiff
<1>2. CheckLT(cur, nxt) <=> v < n
  BY <1>a, CheckLTIs
<1>3. After(cur) \in Number /\ Value(After(cur)) = v + 1
  BY AfterIs
<1>4. ASSUME NEW d \in Nat, v >= n, newWin = UpdateWindowGTSeq(d, win),
             newNext = After(cur),
             d = v - n + 1 \/ (d = 0 /\ v - n + 1 >= SEQ_BITS)
      PROVE  /\ newWin \in Window /\ newNext \in Number
             /\ n <= Value(newNext) /\ v < Value(newNext)
             /\ Exact(newWin, Value(newNext), S \cup {v})
  <2> DEFINE gap == v - n + 1
  <2>1. gap \in Nat \ {0} /\ n + gap = v + 1 /\ n + gap - 1 = v
    BY <1>1, <1>4
  <2> HIDE DEF gap, v, n, newWin, newNext
  <2>2. d = gap \/ (d = 0 /\ gap >= SEQ_BITS)
    BY <1>4 DEF gap
  <2>3. /\ UpdateWindowGTSeq(d, win) \in Window
        /\ Exact(UpdateWindowGTSeq(d, win), n + gap, S \cup {n + gap - 1})
    BY <2>1, <2>2, <1>1, <1>4, MoveExact DEF n
  <2>4. Value(newNext) = v + 1
    BY <1>3, <1>4
  <2> QED
    BY <2>1, <2>3, <2>4, <1>1, <1>3, <1>4
<1>5. CASE cur.hi = nxt.hi /\ v < n
  <2> DEFINE k == n - v - 1
  <2>1. n - v = nxt.lo - cur.lo
    BY <1>a, <1>5, ValueDiff
  <2>2. n - v <= SEQ_BITS
    BY <1>a, <1>0, <1>5, CheckedNumber
  <2>3. k \in Nat /\ k < SEQ_BITS /\ nxt.lo - cur.lo = k + 1 /\ n - 1 - k = v
    BY <2>1, <2>2, <1>0, <1>1, <1>5
  <2>4. UpdateDist(cur, nxt) = Dist(nxt.lo - cur.lo)
    <3>1. cur.lo < nxt.lo
      BY <2>1, <1>0, <1>1, <1>5
    <3>2. UpdateDist(cur, nxt) =
            Dist(IF cur.lo < nxt.lo THEN nxt.lo - cur.lo ELSE cur.lo - nxt.lo)
      BY <1>0, <1>5 DEF UpdateDist
    <3> QED
      BY <3>1, <3>2
  <2> HIDE DEF k
  <2>5. newWin = SetBit(win, k) /\ newNext = nxt
    BY <2>3, <2>4, <1>2, <1>5, UpdateLate
  <2>6. SetBit(win, k) \in Window /\ Exact(SetBit(win, k), n, S \cup {n - 1 - k})
    BY <2>3, <1>1, LateExact
  <2> HIDE DEF newWin, newNext
  <2>7. Value(newNext) = n
    BY <2>5
  <2>8. newWin \in Window /\ newNext \in Number
    BY <2>5, <2>6
  <2> HIDE DEF v, n
  <2>9. n <= Value(newNext) /\ v < Value(newNext)
    BY <2>7, <1>1, <1>5
  <2>10. Exact(newWin, Value(newNext), S \cup {v})
    BY <2>3, <2>5, <2>6, <2>7
  <2> QED
    BY <2>8, <2>9, <2>10 DEF v, n, newWin, newNext
<1>6. CASE cur.hi = nxt.hi /\ ~ (v < n)
  <2> DEFINE k == cur.lo - nxt.lo
  <2>1. v - n = k
    BY <1>a, <1>6, ValueDiff
  <2>2. k \in Nat /\ k < LO /\ v >= n
    BY <2>1, <1>0, <1>1, <1>6
  <2>3. UpdateDist(cur, nxt) = Dist(k)
    <3>1. ~ (cur.lo < nxt.lo)
      BY <2>2, <1>0
    <3>2. UpdateDist(cur, nxt) =
            Dist(IF cur.lo < nxt.lo THEN nxt.lo - cur.lo ELSE cur.lo - nxt.lo)
      BY <1>0, <1>6 DEF UpdateDist
    <3> QED
      BY <3>1, <3>2
  <2> HIDE DEF k
  <2>4. newWin = UpdateWindowGTSeq(Lo(k + 1), win) /\ newNext = After(cur)
    BY <2>3, <1>2, <1>6, UpdateMove
  <2>5. Lo(k + 1) \in Nat
        /\ (Lo(k + 1) = v - n + 1 \/ (Lo(k + 1) = 0 /\ v - n + 1 >= SEQ_BITS))
    <3>1. CASE k + 1 < LO
      <4>1. Lo(k + 1) = k + 1
        BY <3>1, <2>2, <1>0, LoIs
      <4> QED
        BY <4>1, <2>1, <2>2
    <3>2. CASE k + 1 = LO
      <4>1. Lo(k + 1) = 0
        BY <3>2, <1>0, LoIs
      <4>2. v - n + 1 >= SEQ_BITS
        BY <3>2, <2>1, <1>0
      <4> QED
        BY <4>1, <4>2
    <3> QED
      BY <3>1, <3>2, <2>2, <1>0
  <2> QED
    BY <2>2, <2>4, <2>5, <1>4
<1>7. CASE cur.hi = nxt.hi + 1
  <2>1. v - n = LO + cur.lo - nxt.lo
    BY <1>a, <1>7, ValueDiff
  <2>2. v >= n /\ ~ (v < n)
    BY <2>1, <1>0, <1>1
  <2>3. UpdateDist(cur, nxt) =
          IF nxt.lo >= LO - 1 - SEQ_BITS /\ cur.lo < SEQ_BITS
          THEN Dist(Lo(cur.lo - nxt.lo))
          ELSE Reset
    BY <1>0, <1>7 DEF UpdateDist
  <2>4. CASE nxt.lo >= LO - 1 - SEQ_BITS /\ cur.lo < SEQ_BITS
    <3> DEFINE k == LO + cur.lo - nxt.lo
    <3>1. cur.lo - nxt.lo \in -LO .. -1 /\ k \in Nat /\ k + 1 < LO
      BY <2>4, <1>0
    <3>2. Lo(cur.lo - nxt.lo) = k
      <4>1. Lo(cur.lo - nxt.lo) = (cur.lo - nxt.lo) + LO
        BY <3>1, LoIs
      <4> QED
        BY <4>1, <1>0
    <3>3. UpdateDist(cur, nxt) = Dist(k)
      BY <3>2, <2>3, <2>4
    <3>4. v - n = k
      BY <2>1
    <3> HIDE DEF k
    <3>5. newWin = UpdateWindowGTSeq(Lo(k + 1), win) /\ newNext = After(cur)
      BY <3>3, <2>2, <1>2, UpdateMove
    <3>6. Lo(k + 1) = k + 1
      BY <3>1, <1>0, LoIs
    <3>7. Lo(k + 1) \in Nat /\ Lo(k + 1) = v - n + 1
      BY <3>1, <3>4, <3>6
    <3> QED
      BY <3>5, <3>7, <2>2, <1>4
  <2>5. CASE ~ (nxt.lo >= LO - 1 - SEQ_BITS /\ cur.lo < SEQ_BITS)
    <3>1. newWin = UpdateWindowGTSeq(0, win) /\ newNext = After(cur)
      BY <2>3, <2>5, UpdateEnds
    <3>2. v - n + 1 >= SEQ_BITS
      BY <2>1, <2>5, <1>0
    <3> QED
      BY <3>1, <3>2, <2>2, <1>4
  <2> QED
    BY <2>4, <2>5
<1>8. CASE nxt.hi = cur.hi + 1
  <2>1. n - v = LO + nxt.lo - cur.lo
    BY <1>a, <1>8, ValueDiff
  <2>2. v < n
    BY <2>1, <1>0, <1>1
  <2>3. n - v >= LO - SEQ_BITS
    BY <2>2, <1>a, <1>0, <1>8, CheckedNumber
  <2>4. ~ (nxt.lo < SEQ_BITS /\ cur.lo >= LO - 1 - SEQ_BITS)
    BY <2>1, <2>3, <1>0
  <2>5. UpdateDist(cur, nxt) = Old
    <3>1. UpdateDist(cur, nxt) =
            IF nxt.lo < SEQ_BITS /\ cur.lo >= LO - 1 - SEQ_BITS
            THEN Dist(nxt.lo + (LO - 1 - cur.lo) + 1)
            ELSE Old
      BY <1>0, <1>8 DEF UpdateDist
    <3> QED
      BY <3>1, <2>4
  <2>6. newWin = win /\ newNext = nxt
    BY <2>5, UpdateEnds
  <2>7. Exact(win, n, S \cup {v})
    <3> SUFFICES ASSUME NEW i \in WordIdx, NEW b \in BitIdx
                 PROVE  b \in win[i] <=> n - 1 - (i * WORD_BITS + b) \in S \cup {v}
      BY DEF Exact
    <3> DEFINE m == i * WORD_BITS + b
    <3>1. m \in Nat /\ m < SEQ_BITS
      BY SlotType, SlotBound
    <3>2. b \in win[i] <=> n - 1 - m \in S
      BY DEF Exact
    <3> HIDE DEF m, v, n
    <3>3. n - 1 - m # v
      BY <3>1, <2>3, <1>0, <1>1
    <3> QED
      BY <3>2, <3>3 DEF m
  <2>8. Value(newNext) = n
    BY <2>6
  <2>9. newWin \in Window /\ newNext \in Number
    BY <2>6
  <2> HIDE DEF v, n, newWin, newNext
  <2>10. n <= Value(newNext) /\ v < Value(newNext)
    BY <2>2, <2>8, <1>1
  <2>11. Exact(newWin, Value(newNext), S \cup {v})
    BY <2>6, <2>7, <2>8
  <2> QED
    BY <2>9, <2>10, <2>11 DEF v, n, newWin, newNext
<1>9. \/ cur.hi = nxt.hi \/ cur.hi = nxt.hi + 1 \/ nxt.hi = cur.hi + 1
  <2>1. ~ (cur.hi > nxt.hi + 1 \/ nxt.hi > cur.hi + 1)
    BY DEF CheckNumber
  <2> QED
    BY <2>1, <1>0
<1> HIDE DEF newWin, newNext
<1> QED
  BY <1>5, <1>6, <1>7, <1>8, <1>9 DEF newWin, newNext

-----------------------------------------------------------------------------
(***************************************************************************)
(* The inductive invariant.                                                *)
(***************************************************************************)
Processed(r) == times[r] > 0

\* The numbers of the records processed in an epoch.
Done(e) == {Value(r) : r \in {q \in Record : q.epoch = e /\ Processed(q)}}

Typed == /\ nextEpoch \in Epoch
         /\ next \in Number /\ prev \in Number
         /\ window \in Window /\ prevWindow \in Window
         /\ times \in [Record -> 0 .. 2]

\* A window anchored at nxt marks exactly S, and all of S is below nxt.
Covers(win, nxt, S) ==
    /\ Exact(win, Value(nxt), S)
    /\ \A s \in S : s \in Int /\ s < Value(nxt)

IndInv == /\ Typed
          /\ \A r \in Record : Processed(r) => r.epoch <= nextEpoch
          /\ Covers(window, next, Done(nextEpoch))
          /\ nextEpoch > 0 => Covers(prevWindow, prev, Done(nextEpoch - 1))

\* Both parts of a record's number are within their bounds.
LEMMA RecordNumber ==
    ASSUME NEW r \in Record
    PROVE  IsNumber(r) /\ r.epoch \in Epoch /\ Value(r) \in Nat
<1>1. IsNumber(r) /\ r.epoch \in Epoch
  BY LoAssumption DEF Record, IsNumber
<1> QED
  BY <1>1, ValueDiff

\* Two records of one epoch with the same number are the same.
LEMMA ValueUnique ==
    ASSUME NEW r \in Record, NEW q \in Record, r.epoch = q.epoch,
           Value(r) = Value(q)
    PROVE  r = q
<1>1. IsNumber(r) /\ IsNumber(q)
  BY RecordNumber
<1>2. /\ r.hi \in Int /\ q.hi \in Int /\ LO \in Nat \ {0}
      /\ r.lo \in 0 .. LO - 1 /\ q.lo \in 0 .. LO - 1
  BY <1>1, Sizes DEF IsNumber
<1>3. r.hi * LO + r.lo = q.hi * LO + q.lo
  BY DEF Value
<1>4. r.hi = q.hi /\ r.lo = q.lo
  BY <1>2, <1>3, Digits
<1> QED
  BY <1>4 DEF Record

\* A record's number is among the processed ones of its epoch exactly if the record
\* was processed.
LEMMA InDone ==
    ASSUME NEW r \in Record
    PROVE  Value(r) \in Done(r.epoch) <=> Processed(r)
<1>1. Processed(r) => Value(r) \in Done(r.epoch)
  BY DEF Done
<1>2. ASSUME Value(r) \in Done(r.epoch) PROVE Processed(r)
  <2>1. PICK q \in Record : q.epoch = r.epoch /\ Processed(q) /\ Value(r) = Value(q)
    BY <1>2 DEF Done
  <2> QED
    BY <2>1, ValueUnique
<1> QED
  BY <1>1, <1>2

\* The inductive invariant holds before any record arrives.
LEMMA InitInv == Init => IndInv
<1> SUFFICES ASSUME Init PROVE IndInv
  OBVIOUS
<1>1. Zero \in Number /\ EmptyWindow \in Window
  BY Sizes DEF Zero, Number, EmptyWindow, Window, Word
<1>2. 0 \in Epoch
  BY LoAssumption DEF Epoch
<1>3. Typed
  BY <1>1, <1>2 DEF Init, Typed
<1>4. \A r \in Record : ~ Processed(r)
  BY DEF Init, Processed
<1>5. Done(0) = {}
  BY <1>4 DEF Done
<1>6. Exact(EmptyWindow, Value(Zero), {})
  BY DEF Exact, EmptyWindow
<1>7. Covers(window, next, Done(nextEpoch))
  BY <1>5, <1>6 DEF Init, Covers
<1> QED
  BY <1>3, <1>4, <1>7 DEF Init, IndInv

\* A record let through by the check adds its number to those of its epoch and
\* leaves those of every other epoch alone.
LEMMA ProcessDone ==
    ASSUME Typed, NEW rec \in Record,
           times' = [times EXCEPT ![rec] = IF @ < 2 THEN @ + 1 ELSE @]
    PROVE  /\ times' \in [Record -> 0 .. 2]
           /\ \A r \in Record : Processed(r)' <=> Processed(r) \/ r = rec
           /\ Done(rec.epoch)' = Done(rec.epoch) \cup {Value(rec)}
           /\ \A e \in Int : e # rec.epoch => Done(e)' = Done(e)
<1>0. times \in [Record -> 0 .. 2]
  BY DEF Typed
<1>1. times' \in [Record -> 0 .. 2]
  BY <1>0
<1>2. \A r \in Record : times'[r] > 0 <=> times[r] > 0 \/ r = rec
  BY <1>0
<1>3. \A r \in Record : Processed(r)' <=> Processed(r) \/ r = rec
  BY <1>2 DEF Processed
<1>4. ASSUME NEW e
      PROVE  Done(e)' = {Value(r) : r \in {q \in Record : q.epoch = e /\ (Processed(q) \/ q = rec)}}
  <2>1. Done(e)' = {Value(r) : r \in {q \in Record : q.epoch = e /\ Processed(q)'}}
    BY DEF Done, Value
  <2> QED
    BY <2>1, <1>3
<1>5. Done(rec.epoch)' = Done(rec.epoch) \cup {Value(rec)}
  BY <1>4 DEF Done
<1>6. ASSUME NEW e \in Int, e # rec.epoch PROVE Done(e)' = Done(e)
  BY <1>4, <1>6 DEF Done
<1> QED
  BY <1>1, <1>3, <1>5, <1>6

\* The check and the update of one window, whichever it is.
LEMMA WindowStep ==
    ASSUME NEW rec \in Record, NEW nxt \in Number, NEW win \in Window,
           NEW S, Covers(win, nxt, S), CheckNumber(rec, nxt, win)
    PROVE  /\ UpdatedWindow(rec, nxt, win) \in Window
           /\ UpdatedNext(rec, nxt) \in Number
           /\ Covers(UpdatedWindow(rec, nxt, win), UpdatedNext(rec, nxt),
                     S \cup {Value(rec)})
<1> DEFINE newWin == UpdatedWindow(rec, nxt, win)
           newNext == UpdatedNext(rec, nxt)
<1>0. IsNumber(rec) /\ Value(rec) \in Nat
  BY RecordNumber
<1>1. Exact(win, Value(nxt), S) /\ \A s \in S : s \in Int /\ s < Value(nxt)
  BY DEF Covers
<1>2. /\ newWin \in Window /\ newNext \in Number
      /\ Value(nxt) <= Value(newNext) /\ Value(rec) < Value(newNext)
      /\ Exact(newWin, Value(newNext), S \cup {Value(rec)})
  BY <1>0, <1>1, UpdateExact
<1> HIDE DEF newWin, newNext
<1>3. Value(newNext) \in Nat /\ Value(nxt) \in Nat
  BY <1>2, ValueDiff DEF IsNumber, Number
<1>4. \A s \in S \cup {Value(rec)} : s \in Int /\ s < Value(newNext)
  BY <1>0, <1>1, <1>2, <1>3
<1>5. Covers(newWin, newNext, S \cup {Value(rec)})
  BY <1>2, <1>4 DEF Covers
<1> QED
  BY <1>2, <1>5 DEF newWin, newNext

\* The epochs of the two windows after a step, by their numbers.
LEMMA NextDone ==
    ASSUME NEW CONSTANT e
    PROVE  /\ nextEpoch' = e => Done(nextEpoch)' = Done(e)'
           /\ nextEpoch' - 1 = e => Done(nextEpoch - 1)' = Done(e)'
  BY DEF Done

\* The three parts of the invariant after a step, from what the step makes of them.
LEMMA InvAfter ==
    ASSUME Typed', \A r \in Record : Processed(r)' => r.epoch <= nextEpoch',
           NEW CONSTANT e, NEW CONSTANT f, nextEpoch' = e, nextEpoch' - 1 = f,
           Covers(window', next', Done(e)'),
           nextEpoch' > 0 => Covers(prevWindow', prev', Done(f)')
    PROVE  IndInv'
<1>1. Covers(window', next', Done(nextEpoch)')
  BY NextDone
<1>2. nextEpoch' > 0 => Covers(prevWindow', prev', Done(nextEpoch - 1)')
  BY NextDone
<1>3. Covers(window, next, Done(nextEpoch))'
  BY <1>1 DEF Covers, Exact, Value
<1>4. (nextEpoch > 0 => Covers(prevWindow, prev, Done(nextEpoch - 1)))'
  BY <1>2 DEF Covers, Exact, Value
<1> QED
  BY <1>3, <1>4 DEF IndInv

\* Every step keeps the invariant: a record into the current window or into the
\* previous one, and the copy ChangeCipherSpec makes.
LEMMA NextInv == IndInv /\ [Next]_vars => IndInv'
<1> SUFFICES ASSUME IndInv, [Next]_vars PROVE IndInv'
  OBVIOUS
<1>0. Typed /\ nextEpoch \in Nat /\ Epoch \subseteq Nat
  BY LoAssumption DEF IndInv, Typed, Epoch
<1>1. CASE UNCHANGED vars
  BY <1>1 DEF IndInv, Typed, Covers, Exact, Done, Processed, vars, Value
<1>2. CASE ChangeCipherSpec
  <2>0. /\ nextEpoch' = nextEpoch + 1 /\ prev' = next /\ prevWindow' = window
        /\ next' = Zero /\ window' = EmptyWindow /\ times' = times
        /\ nextEpoch < MAX_EPOCH
    BY <1>2 DEF ChangeCipherSpec
  <2>1. Typed'
    <3>1. Zero \in Number /\ EmptyWindow \in Window
      BY Sizes DEF Zero, Number, EmptyWindow, Window, Word
    <3>2. nextEpoch' \in Epoch
      BY <2>0, <1>0, LoAssumption DEF Epoch
    <3> QED
      BY <2>0, <3>1, <3>2, <1>0 DEF Typed
  <2>2. \A r \in Record : Processed(r)' <=> Processed(r)
    BY <2>0 DEF Processed
  <2>3. ASSUME NEW CONSTANT e PROVE Done(e)' = Done(e)
    BY <2>0 DEF Done, Processed
  <2>4. \A r \in Record : r.epoch \in Nat /\ (Processed(r) => r.epoch <= nextEpoch)
    BY <1>0, RecordNumber DEF IndInv
  <2>5. \A r \in Record : Processed(r)' => r.epoch <= nextEpoch'
    <3> SUFFICES ASSUME NEW r \in Record, Processed(r)' PROVE r.epoch <= nextEpoch'
      OBVIOUS
    <3>1. r.epoch \in Nat /\ r.epoch <= nextEpoch
      BY <2>2, <2>4
    <3> QED
      BY <3>1, <2>0, <1>0
  <2>6. PICK e \in Int : e = nextEpoch + 1
    BY <1>0
  <2>7. PICK f \in Int : f = nextEpoch
    BY <1>0
  <2>8. nextEpoch' = e /\ nextEpoch' - 1 = f
    BY <2>0, <2>6, <2>7, <1>0
  <2>9. Covers(window', next', Done(e)')
    <3>1. \A r \in Record : Processed(r) => r.epoch # e
      BY <2>4, <2>6, <1>0
    <3>2. Done(e)' = {}
      BY <3>1, <2>3 DEF Done
    <3>3. Covers(EmptyWindow, Zero, {})
      BY DEF Covers, Exact, EmptyWindow
    <3> QED
      BY <3>2, <3>3, <2>0
  <2>10. Covers(prevWindow', prev', Done(f)')
    <3>1. Covers(window, next, Done(f))
      BY <2>7 DEF IndInv
    <3>2. Done(f)' = Done(f)
      BY <2>3
    <3> QED
      BY <3>1, <3>2, <2>0
  <2> QED
    BY <2>1, <2>5, <2>8, <2>9, <2>10, InvAfter
<1>3. ASSUME NEW rec \in Record, Drop(rec)
      PROVE  IndInv'
  BY <1>3 DEF IndInv, Typed, Covers, Exact, Done, Processed, vars, Value, Drop
<1>4. ASSUME NEW rec \in Record, Process(rec)
      PROVE  IndInv'
  <2>0. /\ CheckWindow(rec) /\ UpdateWindow(rec) /\ nextEpoch' = nextEpoch
        /\ times' = [times EXCEPT ![rec] = IF @ < 2 THEN @ + 1 ELSE @]
    BY <1>4 DEF Process
  <2>1. /\ times' \in [Record -> 0 .. 2]
        /\ \A r \in Record : Processed(r)' <=> Processed(r) \/ r = rec
        /\ Done(rec.epoch)' = Done(rec.epoch) \cup {Value(rec)}
        /\ \A e \in Int : e # rec.epoch => Done(e)' = Done(e)
    BY <2>0, <1>0, ProcessDone
  <2>2. rec.epoch \in Nat
    BY <1>0, RecordNumber
  <2>3. rec.epoch = nextEpoch \/ rec.epoch = nextEpoch - 1
    BY <2>0 DEF CheckWindow
  <2>4. \A r \in Record : Processed(r)' => r.epoch <= nextEpoch'
    <3>1. \A r \in Record : Processed(r) => r.epoch <= nextEpoch
      BY DEF IndInv
    <3>2. rec.epoch <= nextEpoch
      BY <2>2, <2>3, <1>0
    <3> QED
      BY <3>1, <3>2, <2>0, <2>1
  <2>5. CASE rec.epoch = nextEpoch
    <3>0. rec.epoch # nextEpoch - 1
      BY <2>2, <2>5, <1>0
    <3>1. CheckNumber(rec, next, window)
      BY <2>0, <2>5, <3>0 DEF CheckWindow
    <3>2. /\ window' = UpdatedWindow(rec, next, window)
          /\ next' = UpdatedNext(rec, next)
          /\ prev' = prev /\ prevWindow' = prevWindow
      BY <2>0, <2>5 DEF UpdateWindow
    <3>3. /\ Covers(window, next, Done(rec.epoch))
          /\ window \in Window /\ next \in Number
      BY <2>5 DEF IndInv, Typed
    <3>4. /\ window' \in Window /\ next' \in Number
          /\ Covers(window', next', Done(rec.epoch)')
      BY <3>1, <3>2, <3>3, <2>1, WindowStep
    <3>5. Typed'
      BY <3>2, <3>4, <2>0, <2>1, <1>0 DEF Typed
    <3>6. PICK f \in Int : f = nextEpoch - 1
      BY <1>0
    <3>7. nextEpoch' = rec.epoch /\ nextEpoch' - 1 = f /\ f # rec.epoch
      BY <3>0, <3>6, <2>0, <2>5
    <3>8. ASSUME nextEpoch' > 0 PROVE Covers(prevWindow', prev', Done(f)')
      <4>1. Covers(prevWindow, prev, Done(f))
        BY <3>6, <3>8, <2>0 DEF IndInv
      <4>2. Done(f)' = Done(f)
        BY <3>7, <2>1
      <4> QED
        BY <4>1, <4>2, <3>2
    <3> QED
      BY <3>4, <3>5, <3>7, <3>8, <2>4, InvAfter
  <2>6. CASE rec.epoch = nextEpoch - 1
    <3>0. rec.epoch # nextEpoch /\ nextEpoch > 0
      BY <2>2, <2>6, <1>0
    <3>1. CheckNumber(rec, prev, prevWindow)
      BY <2>0, <2>6, <3>0 DEF CheckWindow
    <3>2. /\ prevWindow' = UpdatedWindow(rec, prev, prevWindow)
          /\ prev' = UpdatedNext(rec, prev)
          /\ next' = next /\ window' = window
      BY <2>0, <3>0 DEF UpdateWindow
    <3>3. /\ Covers(prevWindow, prev, Done(rec.epoch))
          /\ prevWindow \in Window /\ prev \in Number
      BY <2>6, <3>0 DEF IndInv, Typed
    <3>4. /\ prevWindow' \in Window /\ prev' \in Number
          /\ Covers(prevWindow', prev', Done(rec.epoch)')
      BY <3>1, <3>2, <3>3, <2>1, WindowStep
    <3>5. Typed'
      BY <3>2, <3>4, <2>0, <2>1, <1>0 DEF Typed
    <3>6. PICK e \in Int : e = nextEpoch
      BY <1>0
    <3>7. nextEpoch' = e /\ nextEpoch' - 1 = rec.epoch /\ e # rec.epoch
      BY <3>0, <3>6, <2>0, <2>6
    <3>8. Covers(window', next', Done(e)')
      <4>1. Covers(window, next, Done(e))
        BY <3>6 DEF IndInv
      <4>2. Done(e)' = Done(e)
        BY <3>7, <2>1
      <4> QED
        BY <4>1, <4>2, <3>2
    <3> QED
      BY <3>4, <3>5, <3>7, <3>8, <2>4, InvAfter
  <2> QED
    BY <2>3, <2>5, <2>6
<1> QED
  BY <1>1, <1>2, <1>3, <1>4 DEF Next, Receive

-----------------------------------------------------------------------------
\* The window a record is looked up in covers its epoch.
LEMMA OwnWindow ==
    ASSUME IndInv, NEW rec \in Record
    PROVE  /\ rec.epoch = nextEpoch => Covers(window, next, Done(rec.epoch))
           /\ rec.epoch = nextEpoch - 1 => Covers(prevWindow, prev, Done(rec.epoch))
<1>1. rec.epoch \in Nat /\ nextEpoch \in Nat
  BY LoAssumption, RecordNumber DEF IndInv, Typed, Epoch
<1>2. rec.epoch = nextEpoch - 1 => nextEpoch > 0
  BY <1>1
<1> QED
  BY <1>2 DEF IndInv

\* A record that passes the check of a window that covers its epoch was not
\* processed before, unless it is LO - SEQ_BITS behind.
LEMMA CheckMeansFresh ==
    ASSUME NEW rec \in Record, NEW nxt \in Number, NEW win,
           Covers(win, nxt, Done(rec.epoch)), CheckNumber(rec, nxt, win), Processed(rec)
    PROVE  Value(nxt) - Value(rec) >= LO - SEQ_BITS
<1>0. IsNumber(rec) /\ IsNumber(nxt)
  BY RecordNumber DEF IsNumber, Number
<1>1. Value(rec) \in Nat /\ Value(nxt) \in Nat
  BY <1>0, ValueDiff
<1>2. Value(rec) \in Done(rec.epoch)
  BY InDone
<1>3. Value(rec) < Value(nxt)
  BY <1>2 DEF Covers
<1>4. CASE /\ Value(nxt) - Value(rec) <= SEQ_BITS
           /\ ~ TestBit(win, Value(nxt) - Value(rec) - 1)
  <2> DEFINE k == Value(nxt) - Value(rec) - 1
  <2>1. k \in Nat /\ k < SEQ_BITS /\ Value(nxt) - 1 - k = Value(rec)
    BY <1>1, <1>3, <1>4, Sizes
  <2> HIDE DEF k
  <2>2. TestBit(win, k)
    BY <2>1, <1>1, <1>2, TestBitExact DEF Covers
  <2> QED
    BY <2>2, <1>4 DEF k
<1> QED
  BY <1>0, <1>3, <1>4, CheckedNumber

\* The counters of records only grow by the record that is processed.
LEMMA StepNoReplay ==
    ASSUME IndInv, [Next]_vars
    PROVE  [\A rec \in Record :
              times'[rec] = 2 /\ times[rec] < 2 => Behind(rec) >= LO - SEQ_BITS]_vars
<1> SUFFICES ASSUME NEW rec \in Record, times'[rec] = 2, times[rec] < 2
             PROVE  Behind(rec) >= LO - SEQ_BITS
  OBVIOUS
<1>0. times \in [Record -> 0 .. 2] /\ next \in Number /\ prev \in Number
  BY DEF IndInv, Typed
<1>1. Process(rec)
  <2>1. times' # times
    OBVIOUS
  <2>2. ~ ChangeCipherSpec /\ ~ UNCHANGED vars /\ \A r \in Record : ~ Drop(r)
    BY <2>1 DEF ChangeCipherSpec, vars, Drop
  <2>3. PICK r \in Record : Process(r)
    BY <2>2 DEF Next, Receive
  <2>4. times' = [times EXCEPT ![r] = IF @ < 2 THEN @ + 1 ELSE @]
    BY <2>3 DEF Process
  <2>5. r = rec
    BY <2>4, <1>0
  <2> QED
    BY <2>3, <2>5
<1>2. Processed(rec)
  <2>1. times' = [times EXCEPT ![rec] = IF @ < 2 THEN @ + 1 ELSE @]
    BY <1>1 DEF Process
  <2>2. times[rec] \in 0 .. 2
    BY <1>0
  <2>3. times[rec] # 0
    BY <2>1, <2>2, <1>0
  <2> QED
    BY <2>2, <2>3 DEF Processed
<1>3. CASE rec.epoch = nextEpoch
  <2>0. rec.epoch # nextEpoch - 1
    BY <1>3, LoAssumption, RecordNumber DEF Epoch
  <2>1. CheckNumber(rec, next, window)
    BY <2>0, <1>1, <1>3 DEF Process, CheckWindow
  <2> QED
    BY <2>1, <1>0, <1>2, <1>3, OwnWindow, CheckMeansFresh DEF Behind
<1>4. CASE rec.epoch # nextEpoch
  <2>1. rec.epoch = nextEpoch - 1 /\ CheckNumber(rec, prev, prevWindow)
    BY <1>1, <1>4 DEF Process, CheckWindow
  <2> QED
    BY <2>1, <1>0, <1>2, <1>4, OwnWindow, CheckMeansFresh DEF Behind
<1> QED
  BY <1>3, <1>4

\* The invariant says what WindowExact says of each window.
LEMMA CoversMarks ==
    ASSUME NEW win, NEW nxt, NEW e, Covers(win, nxt, Done(e))
    PROVE  MarksProcessed(win, e, nxt)
<1> SUFFICES ASSUME NEW i \in WordIdx, NEW b \in BitIdx
             PROVE  b \in win[i] <=>
                      \E rec \in Record :
                         /\ rec.epoch = e
                         /\ times[rec] > 0
                         /\ Value(nxt) - 1 - (i * WORD_BITS + b) = Value(rec)
  BY DEF MarksProcessed
<1> DEFINE v == Value(nxt) - 1 - (i * WORD_BITS + b)
<1>1. b \in win[i] <=> v \in Done(e)
  BY DEF Covers, Exact
<1> HIDE DEF v
<1>2. v \in Done(e) <=>
        \E rec \in Record : rec.epoch = e /\ times[rec] > 0 /\ v = Value(rec)
  BY DEF Done, Processed
<1> QED
  BY <1>1, <1>2 DEF v

\* A record with the high part expected, near enough and not processed before,
\* passes the check of a window that covers its epoch.
LEMMA FreshPasses ==
    ASSUME NEW rec \in Record, NEW nxt \in Number, NEW win,
           Covers(win, nxt, Done(rec.epoch)), ~ Processed(rec),
           rec.hi = nxt.hi, Value(nxt) - Value(rec) <= SEQ_BITS
    PROVE  CheckNumber(rec, nxt, win)
<1> DEFINE diff == CheckDiff(rec, nxt)
<1>0. IsNumber(rec) /\ IsNumber(nxt)
  BY RecordNumber DEF IsNumber, Number
<1>1. /\ rec.hi \in Nat /\ nxt.hi \in Nat /\ rec.lo \in Int /\ nxt.lo \in Int
      /\ SEQ_BITS \in Nat \ {0} /\ Value(nxt) \in Nat /\ Value(rec) \in Nat
  BY <1>0, Sizes, ValueDiff DEF IsNumber
<1>2. ~ (rec.hi > nxt.hi + 1 \/ nxt.hi > rec.hi + 1)
  BY <1>1
<1>3. ASSUME CheckLT(rec, nxt)
      PROVE  /\ ~ ((nxt.hi > 0 \/ nxt.lo > SEQ_BITS) /\ diff > SEQ_BITS)
             /\ diff # 0
             /\ (diff - 1) \div WORD_BITS < WINDOW_WORDS
             /\ ~ TestBit(win, diff - 1)
  <2>1. rec.lo < nxt.lo /\ diff = nxt.lo - rec.lo
    BY <1>3 DEF CheckLT, CheckDiff
  <2>2. Value(nxt) - Value(rec) = nxt.lo - rec.lo
    BY <1>0, ValueDiff
  <2> HIDE DEF diff
  <2> DEFINE k == diff - 1
  <2>3. k \in Nat /\ k < SEQ_BITS /\ Value(nxt) - 1 - k = Value(rec)
    BY <2>1, <2>2, <1>1
  <2>4. ~ (diff > SEQ_BITS) /\ diff # 0
    BY <2>1, <2>2, <1>1
  <2> HIDE DEF k
  <2>5. Value(rec) \notin Done(rec.epoch)
    BY InDone
  <2>6. ~ TestBit(win, k)
    BY <2>3, <2>5, <1>1, TestBitExact DEF Covers
  <2>7. k \div WORD_BITS < WINDOW_WORDS
    BY <2>3, SlotOf, WindowAssumption DEF WordIdx
  <2> QED
    BY <2>4, <2>6, <2>7 DEF k
<1> QED
  BY <1>2, <1>3 DEF CheckNumber

\* In the invariant every fresh record near the expected number is accepted.
LEMMA FreshInv == IndInv => FreshAccepted
<1> SUFFICES ASSUME IndInv, NEW rec \in Record, Tracked(rec), times[rec] = 0,
                    rec.hi = (IF rec.epoch = nextEpoch THEN next.hi ELSE prev.hi),
                    Behind(rec) <= SEQ_BITS
             PROVE  CheckWindow(rec)
  BY DEF FreshAccepted
<1>0. ~ Processed(rec) /\ next \in Number /\ prev \in Number
  BY DEF Processed, IndInv, Typed
<1>1. CASE rec.epoch = nextEpoch
  <2>0. rec.epoch # nextEpoch - 1
    BY <1>1, LoAssumption, RecordNumber DEF Epoch
  <2>1. CheckNumber(rec, next, window)
    BY <1>0, <1>1, OwnWindow, FreshPasses DEF Behind
  <2> QED
    BY <2>0, <2>1, <1>1 DEF CheckWindow
<1>2. CASE rec.epoch # nextEpoch
  <2>0. rec.epoch = nextEpoch - 1
    BY <1>2 DEF Tracked
  <2>1. CheckNumber(rec, prev, prevWindow)
    BY <2>0, <1>0, <1>2, OwnWindow, FreshPasses DEF Behind
  <2> QED
    BY <2>0, <2>1, <1>2 DEF CheckWindow
<1> QED
  BY <1>1, <1>2

\* Both windows mark exactly the processed records they cover, across the wrap of
\* the low part and the copy ChangeCipherSpec makes.
THEOREM WindowsExact == Spec => []WindowExact
<1>1. IndInv => WindowExact
  BY CoversMarks DEF IndInv, WindowExact
<1> QED
  BY <1>1, InitInv, NextInv, PTL DEF Spec

\* A record with the expected high part that is at most SEQ_BITS behind is refused
\* by _DtlsCheckWindow only if it was processed before.
THEOREM NoFreshRecordRefused == Spec => []FreshAccepted
  BY FreshInv, InitInv, NextInv, PTL DEF Spec

\* No record is processed twice that is less than LO - SEQ_BITS (2^32 less the
\* window) behind the next number of its epoch.
THEOREM NoRecordTwice == Spec => NoReplay
<1>1. IndInv /\ [Next]_vars =>
        [\A rec \in Record :
           times'[rec] = 2 /\ times[rec] < 2 => Behind(rec) >= LO - SEQ_BITS]_vars
  BY StepNoReplay
<1> QED
  BY <1>1, InitInv, NextInv, PTL DEF Spec, NoReplay
=============================================================================
