------------------------- MODULE Dtls13WindowProofs -------------------------
(***************************************************************************)
(* Proofs about Dtls13Window for all values of its constants.              *)
(*                                                                         *)
(* WindowExact is what makes NoReplay inductive: knowing that a bit is set  *)
(* exactly for the records delivered, a record that passes                 *)
(* Dtls13CheckWindow was not delivered before, so its count goes from 0 to *)
(* 1.  That the update keeps the window exact is the substance of the      *)
(* proof: SetBitStep for a late record and MoveStep for a new one, which   *)
(* rests on ShiftBits, the meaning of the code's word-wise shift.          *)
(***************************************************************************)
EXTENDS Dtls13Window, TLAPS

\* Arithmetic of multiples of B: the provers do not multiply two variables by
\* themselves, so every fact about a word index times DTLS_WORD_BITS is here.
LEMMA Products ==
    ASSUME NEW i \in Int, NEW j \in Int, NEW B \in Nat \ {0}
    PROVE  /\ i * B \in Int
           /\ (i + 1) * B = i * B + B
           /\ (i - 1) * B = i * B - B
           /\ (i - j) * B = i * B - j * B
           /\ i < j => i * B + B <= j * B
           /\ i <= j => i * B <= j * B
           /\ i >= 0 => i * B >= 0
  BY Z3

\* Division with remainder, which splits a distance into a word index and a bit
\* position (diff / DTLS_WORD_BITS and diff % DTLS_WORD_BITS in the code).
LEMMA DivMod ==
    ASSUME NEW n \in Nat, NEW B \in Nat \ {0}
    PROVE  /\ n \div B \in Nat
           /\ n % B \in 0 .. B - 1
           /\ n = ((n \div B) * B) + (n % B)
  BY Z3

\* That split is unique: two (word, bit) pairs for the same distance are equal.
LEMMA Digits ==
    ASSUME NEW B \in Nat \ {0}, NEW i \in Int, NEW j \in Int,
           NEW b \in 0 .. B - 1, NEW c \in 0 .. B - 1,
           i * B + b = j * B + c
    PROVE  i = j /\ b = c
<1>1. ~ (i < j)
  BY Products, Z3
<1>2. ~ (j < i)
  BY Products, Z3
<1> QED
  BY <1>1, <1>2, Z3

\* A distance smaller than DTLS_SEQ_BITS has its bit inside the window array: the
\* accesses window[idx] of check and update stay within bounds.
LEMMA SlotOf ==
    ASSUME NEW n \in Nat, n < SEQ_BITS
    PROVE  /\ n \div WORD_BITS \in WordIdx
           /\ n % WORD_BITS \in BitIdx
           /\ n = ((n \div WORD_BITS) * WORD_BITS) + (n % WORD_BITS)
<1> DEFINE q == n \div WORD_BITS
           r == n % WORD_BITS
<1>1. q \in Nat /\ r \in 0 .. WORD_BITS - 1 /\ n = q * WORD_BITS + r
  BY DivMod, WindowAssumption
<1> HIDE DEF q, r
<1>2. ~ (WINDOW_WORDS <= q)
  <2> SUFFICES ASSUME WINDOW_WORDS <= q PROVE FALSE
    OBVIOUS
  <2>1. WINDOW_WORDS * WORD_BITS <= q * WORD_BITS
    BY <1>1, WindowAssumption, Products
  <2>2. WINDOW_WORDS * WORD_BITS \in Int /\ q * WORD_BITS \in Int
    BY <1>1, WindowAssumption, Products
  <2> QED
    BY <1>1, <2>1, <2>2 DEF SEQ_BITS
<1>3. q \in WordIdx
  BY <1>1, <1>2, WindowAssumption DEF WordIdx
<1> QED
  BY <1>1, <1>3 DEF q, r, BitIdx

\* What the loop of _DtlsUpdateWindowGTSeq computes: a bit is set after the shift
\* exactly if the bit diff places below it, in whichever word, was set before.
LEMMA ShiftBits ==
    ASSUME NEW win \in Window, NEW diff \in 1 .. SEQ_BITS - 1,
           NEW i \in WordIdx, NEW b \in BitIdx
    PROVE  b \in ShiftedWords(diff, win)[i] <=>
             \E j \in WordIdx, c \in BitIdx :
                /\ c \in win[j]
                /\ i * WORD_BITS + b = j * WORD_BITS + c + diff
<1> DEFINE idx == diff \div WORD_BITS
           off == diff % WORD_BITS
           B == WORD_BITS
<1>0. B \in Nat \ {0} /\ diff \in Nat /\ diff < SEQ_BITS
  <2>1. SEQ_BITS \in Int
    BY WindowAssumption, Products DEF SEQ_BITS
  <2> QED
    BY <2>1, WindowAssumption
<1>1. idx \in WordIdx /\ off \in BitIdx /\ diff = idx * B + off
  BY <1>0, SlotOf
<1>a. ShiftedWords(diff, win) =
        [k \in WordIdx |->
           IF k < idx THEN {}
           ELSE ShiftLeft(win[k - idx], off) \cup
                IF k > idx /\ off > 0
                THEN ShiftRight(win[k - idx - 1], B - off)
                ELSE {}]
  BY DEF ShiftedWords
<1> HIDE DEF idx, off, B
<1>2. b \in ShiftedWords(diff, win)[i] <=>
        /\ ~ (i < idx)
        /\ \/ b - off \in win[i - idx]
           \/ i > idx /\ off > 0 /\ b + (B - off) \in win[i - idx - 1]
  BY <1>a DEF ShiftLeft, ShiftRight
<1>3. /\ i \in Nat /\ idx \in Nat /\ b \in 0 .. B - 1 /\ off \in 0 .. B - 1
      /\ i < WINDOW_WORDS /\ WINDOW_WORDS \in Nat
  BY <1>1, WindowAssumption DEF WordIdx, BitIdx, B
<1>4. ASSUME NEW j \in Int PROVE j * B \in Int /\ (j + 1) * B = j * B + B
  BY <1>0, <1>4, Products
<1>5. ASSUME NEW j \in Int, NEW k \in Int
      PROVE  (j - k) * B = j * B - k * B
  BY <1>0, <1>5, Products
<1>6. \A j \in WordIdx : win[j] \subseteq BitIdx
  BY DEF Window, Word
<1>7. ASSUME ~ (i < idx), b - off \in win[i - idx]
      PROVE  \E j \in WordIdx, c \in BitIdx :
                c \in win[j] /\ i * B + b = j * B + c + diff
  <2>1. i - idx \in WordIdx
    BY <1>3, <1>7 DEF WordIdx
  <2>2. b - off \in BitIdx
    BY <2>1, <1>6, <1>7
  <2>3. i * B + b = (i - idx) * B + (b - off) + diff
    <3>1. (i - idx) * B = i * B - idx * B
      BY <1>3, <1>5
    <3>2. i * B \in Int /\ idx * B \in Int
      BY <1>3, <1>4
    <3> QED
      BY <3>1, <3>2, <1>0, <1>1, <1>3
  <2> QED
    BY <2>1, <2>2, <2>3, <1>7
<1>8. ASSUME i > idx, off > 0, b + (B - off) \in win[i - idx - 1]
      PROVE  \E j \in WordIdx, c \in BitIdx :
                c \in win[j] /\ i * B + b = j * B + c + diff
  <2>1. i - idx - 1 \in WordIdx
    BY <1>3, <1>8 DEF WordIdx
  <2>2. b + (B - off) \in BitIdx
    BY <2>1, <1>6, <1>8
  <2>3. i * B + b = (i - idx - 1) * B + (b + (B - off)) + diff
    <3>1. (i - idx) * B = i * B - idx * B
      BY <1>3, <1>5
    <3>2. ((i - idx - 1) + 1) * B = (i - idx - 1) * B + B
      BY <1>3, <1>4
    <3>3. (i - idx - 1) + 1 = i - idx
      BY <1>3
    <3> QED
      BY <3>1, <3>2, <3>3, <1>0, <1>1, <1>3, <1>4
  <2> QED
    BY <2>1, <2>2, <2>3, <1>8
<1>9. ASSUME NEW j \in WordIdx, NEW c \in BitIdx, c \in win[j],
             i * B + b = j * B + c + diff
      PROVE  /\ ~ (i < idx)
             /\ \/ b - off \in win[i - idx]
                \/ i > idx /\ off > 0 /\ b + (B - off) \in win[i - idx - 1]
  <2>1. j \in Nat /\ c \in 0 .. B - 1
    BY WindowAssumption DEF WordIdx, BitIdx, B
  <2>2. (i - idx) * B = i * B - idx * B
    BY <1>3, <1>5
  <2>3. (i - idx) * B + (b - off) = j * B + c
    BY <2>1, <2>2, <1>9, <1>1, <1>3, <1>4, <1>0
  <2>4. CASE b >= off
    <3>1. i - idx = j /\ b - off = c
      <4>1. b - off \in 0 .. B - 1 /\ i - idx \in Int /\ j \in Int
        BY <2>4, <1>3, <2>1, <1>0
      <4> QED
        BY <4>1, <2>3, <2>1, <1>0, Digits
    <3> QED
      BY <3>1, <2>1, <1>3, <1>9
  <2>5. CASE b < off
    <3>1. (i - idx - 1) * B + B = (i - idx) * B
      <4>1. ((i - idx - 1) + 1) * B = (i - idx - 1) * B + B
        BY <1>3, <1>4
      <4>2. (i - idx - 1) + 1 = i - idx
        BY <1>3
      <4> QED
        BY <4>1, <4>2
    <3>2. i - idx - 1 = j /\ b + (B - off) = c
      <4> DEFINE k == i - idx - 1
                 d == b + (B - off)
      <4>1. d \in 0 .. B - 1 /\ k \in Int /\ j \in Int
        BY <2>5, <1>3, <2>1, <1>0
      <4>2. k * B \in Int /\ j * B \in Int /\ (i - idx) * B \in Int
        BY <4>1, <1>4, <1>3
      <4>3. k * B + d = j * B + c
        BY <4>2, <3>1, <2>3, <1>3, <1>0, <2>1
      <4> HIDE DEF k, d
      <4>4. k = j /\ d = c
        BY <4>1, <4>3, <2>1, <1>0, Digits
      <4> QED
        BY <4>4 DEF k, d
    <3> QED
      BY <3>2, <2>1, <2>5, <1>3, <1>9
  <2> QED
    BY <2>4, <2>5, <1>3
<1>10. b \in ShiftedWords(diff, win)[i] <=>
         \E j \in WordIdx, c \in BitIdx :
            c \in win[j] /\ i * B + b = j * B + c + diff
  <2> HIDE DEF ShiftedWords
  <2> QED
    BY <1>2, <1>7, <1>8, <1>9
<1> QED
  BY <1>10 DEF B

-----------------------------------------------------------------------------
IInv == TypeOK /\ NoReplay /\ WindowExact /\ UpdateNeverFails

\* The window has at least one word, one bit and so one position.
LEMMA SeqBitsType == SEQ_BITS \in Nat \ {0} /\ 0 \in WordIdx /\ 0 \in BitIdx
<1>1. SEQ_BITS \in Int /\ 1 * WORD_BITS <= SEQ_BITS
  BY WindowAssumption, Products DEF SEQ_BITS
<1>2. 1 * WORD_BITS = WORD_BITS
  BY WindowAssumption
<1> QED
  BY <1>1, <1>2, WindowAssumption DEF WordIdx, BitIdx

\* The distance a (word, bit) pair stands for is a natural number.
LEMMA SlotType ==
    ASSUME NEW i \in WordIdx, NEW b \in BitIdx
    PROVE  i * WORD_BITS + b \in Nat
<1>1. i * WORD_BITS \in Int /\ i * WORD_BITS >= 0
  BY WindowAssumption, Products DEF WordIdx
<1> QED
  BY <1>1, WindowAssumption DEF BitIdx

\* The bit Dtls13CheckWindow tests for a record inside the window is set exactly
\* if that record was delivered.
LEMMA TestBitExact ==
    ASSUME IInv, NEW s \in Seq, s < nextPeerSeqNumber,
           nextPeerSeqNumber - s <= SEQ_BITS
    PROVE  TestBit(window, nextPeerSeqNumber - s - 1) <=> times[s] > 0
<1> DEFINE n == nextPeerSeqNumber - s - 1
           q == n \div WORD_BITS
           r == n % WORD_BITS
<1>1. n \in Nat /\ n < SEQ_BITS /\ nextPeerSeqNumber \in Nat /\ s \in Nat
  BY SeqBitsType, SeqAssumption DEF IInv, TypeOK, Seq
<1>2. q \in WordIdx /\ r \in BitIdx /\ n = q * WORD_BITS + r
  BY <1>1, SlotOf
<1>3. TestBit(window, n) <=> r \in window[q]
  BY DEF TestBit
<1>4. nextPeerSeqNumber - 1 - (q * WORD_BITS + r) = s
  <2> SUFFICES nextPeerSeqNumber - 1 - n = s
    BY <1>2
  <2> QED
    BY <1>1
<1> HIDE DEF n, q, r
<1>5. r \in window[q] <=> times[s] > 0
  BY <1>2, <1>4 DEF IInv, WindowExact
<1> QED
  BY <1>3, <1>5 DEF n

\* The inductive invariant holds when the epoch is new.
LEMMA InitInv == Init => IInv
<1> SUFFICES ASSUME Init PROVE IInv
  OBVIOUS
<1>0. 0 \in Seq /\ 0 \in 0 .. MAX_SEQ + 1
  BY SeqAssumption DEF Seq
<1>a. window \in Window
  BY DEF Init, EmptyWindow, Window, Word
<1>1. TypeOK
  BY <1>0, <1>a DEF Init, TypeOK, Verdict
<1>2. NoReplay /\ UpdateNeverFails
  BY DEF Init, NoReplay, UpdateNeverFails
<1>3. \A s \in Seq : ~ (times[s] > 0)
  BY DEF Init
<1>4. \A i \in WordIdx : window[i] = {}
  BY DEF Init, EmptyWindow
<1>5. WindowExact
  BY <1>3, <1>4 DEF WindowExact
<1> QED
  BY <1>1, <1>2, <1>5 DEF IInv

\* Marking a late record (Dtls13UpdateWindow, first half) keeps the window exact.
LEMMA SetBitStep ==
    ASSUME IInv, NEW s \in Seq, s < nextPeerSeqNumber,
           nextPeerSeqNumber - s <= SEQ_BITS,
           window' = SetBit(window, nextPeerSeqNumber - s - 1),
           UNCHANGED nextPeerSeqNumber,
           times' = [times EXCEPT ![s] = @ + 1]
    PROVE  window' \in Window /\ WindowExact'
<1> DEFINE n == nextPeerSeqNumber - s - 1
           q == n \div WORD_BITS
           r == n % WORD_BITS
<1>1. n \in Nat /\ n < SEQ_BITS /\ nextPeerSeqNumber \in Nat /\ s \in Nat
  BY SeqBitsType, SeqAssumption DEF IInv, TypeOK, Seq
<1>2. q \in WordIdx /\ r \in BitIdx /\ n = q * WORD_BITS + r
  BY <1>1, SlotOf
<1>3. window' = [window EXCEPT ![q] = @ \cup {r}]
  BY DEF SetBit
<1> HIDE DEF q, r
<1>4. window \in Window /\ times \in [Seq -> Nat]
  BY DEF IInv, TypeOK
<1>5. window' \in Window
  BY <1>2, <1>3, <1>4 DEF Window, Word
<1>6. \A t \in Seq : times'[t] > 0 => t < nextPeerSeqNumber'
  BY <1>4 DEF IInv, WindowExact
<1>7. ASSUME NEW i \in WordIdx, NEW b \in BitIdx
      PROVE  b \in window'[i] <=>
               LET t == nextPeerSeqNumber' - 1 - (i * WORD_BITS + b)
               IN  t \in Seq /\ times'[t] > 0
  <2> DEFINE t == nextPeerSeqNumber - 1 - (i * WORD_BITS + b)
  <2>1. b \in window[i] <=> t \in Seq /\ times[t] > 0
    BY DEF IInv, WindowExact
  <2>2. i * WORD_BITS + b \in Nat
    BY SlotType
  <2>3. CASE i = q /\ b = r
    <3>1. t = s
      BY <2>3, <1>1, <1>2
    <3>2. b \in window'[i]
      BY <2>3, <1>2, <1>3, <1>4 DEF Window
    <3>3. times'[s] > 0
      BY <1>4
    <3> QED
      BY <3>1, <3>2, <3>3
  <2>4. CASE ~ (i = q /\ b = r)
    <3>1. t # s
      <4>1. SUFFICES ASSUME t = s PROVE i = q /\ b = r
        BY <2>4
      <4>2. i * WORD_BITS + b = n
        BY <4>1, <2>2, <1>1
      <4>3. i \in Int /\ q \in Int /\ b \in 0 .. WORD_BITS - 1
              /\ r \in 0 .. WORD_BITS - 1 /\ WORD_BITS \in Nat \ {0}
        BY <1>2, WindowAssumption DEF WordIdx, BitIdx
      <4>4. i * WORD_BITS + b = q * WORD_BITS + r
        BY <4>2, <1>2
      <4> HIDE DEF t, n
      <4> QED
        BY <4>3, <4>4, Digits
    <3>2. b \in window'[i] <=> b \in window[i]
      BY <2>4, <1>2, <1>3, <1>4 DEF Window
    <3>3. t \in Seq => times'[t] = times[t]
      BY <3>1, <1>4
    <3> QED
      BY <3>2, <3>3, <2>1
  <2> QED
    BY <2>3, <2>4
<1> QED
  BY <1>5, <1>6, <1>7 DEF WindowExact

\* Moving the window up to a new record (Dtls13UpdateWindow, second half, with
\* _DtlsUpdateWindowGTSeq) keeps the window exact, whether the shift is shorter
\* than the window or empties it.
LEMMA MoveStep ==
    ASSUME IInv, NEW s \in Seq, s >= nextPeerSeqNumber,
           window' = UpdateWindowGTSeq(s - nextPeerSeqNumber + 1, window),
           nextPeerSeqNumber' = s + 1,
           times' = [times EXCEPT ![s] = @ + 1]
    PROVE  window' \in Window /\ WindowExact'
<1> DEFINE diff == s - nextPeerSeqNumber + 1
           moved == IF diff = 0 \/ diff >= SEQ_BITS THEN EmptyWindow
                    ELSE ShiftedWords(diff, window)
<1>1. diff \in Nat \ {0} /\ nextPeerSeqNumber \in Nat /\ s \in Nat
  BY SeqAssumption DEF IInv, TypeOK, Seq
<1>2. window \in Window /\ times \in [Seq -> Nat]
  BY DEF IInv, TypeOK
<1>3. moved \in Window
  BY DEF EmptyWindow, ShiftedWords, ShiftLeft, ShiftRight, Window, Word
<1>4. window' = [moved EXCEPT ![0] = @ \cup {0}]
  BY DEF UpdateWindowGTSeq
<1>5. ASSUME NEW i \in WordIdx, NEW b \in BitIdx
      PROVE  b \in moved[i] <=>
               \E j \in WordIdx, c \in BitIdx :
                  /\ c \in window[j]
                  /\ i * WORD_BITS + b = j * WORD_BITS + c + diff
  <2>1. CASE diff < SEQ_BITS
    <3>1. diff \in 1 .. SEQ_BITS - 1
      BY <2>1, <1>1, SeqBitsType
    <3>2. moved = ShiftedWords(diff, window)
      BY <3>1, SeqBitsType
    <3> HIDE DEF diff, moved
    <3> QED
      BY <3>1, <3>2, <1>2, <1>5, ShiftBits
  <2>2. CASE diff >= SEQ_BITS
    <3>1. b \notin moved[i]
      BY <2>2 DEF EmptyWindow
    <3>2. ASSUME NEW j \in WordIdx, NEW c \in BitIdx
          PROVE  i * WORD_BITS + b # j * WORD_BITS + c + diff
      <4>1. j * WORD_BITS + c \in Nat
        BY SlotType
      <4>2. i * WORD_BITS + b < SEQ_BITS
        <5>1. i \in Int /\ WINDOW_WORDS \in Int /\ i < WINDOW_WORDS
          BY WindowAssumption DEF WordIdx
        <5>2. i * WORD_BITS + WORD_BITS <= SEQ_BITS
          BY <5>1, WindowAssumption, Products DEF SEQ_BITS
        <5>3. i * WORD_BITS \in Int
          BY <5>1, WindowAssumption, Products
        <5> QED
          BY <5>2, <5>3, SeqBitsType, WindowAssumption DEF BitIdx
      <4>3. i * WORD_BITS + b \in Nat
        BY SlotType
      <4> HIDE DEF diff
      <4> QED
        BY <4>1, <4>2, <4>3, <2>2, <1>1, SeqBitsType
    <3> QED
      BY <3>1, <3>2
  <2> QED
    BY <2>1, <2>2, <1>1, SeqBitsType
<1> HIDE DEF moved
<1>6. window' \in Window
  BY <1>3, <1>4, SeqBitsType DEF Window, Word
<1>7. \A t \in Seq : times'[t] > 0 => t < nextPeerSeqNumber'
  <2> SUFFICES ASSUME NEW t \in Seq, times'[t] > 0 PROVE t < s + 1
    OBVIOUS
  <2>1. CASE t = s
    BY <2>1, <1>1
  <2>2. CASE t # s
    <3>1. times[t] > 0
      BY <2>2, <1>2
    <3>2. t < nextPeerSeqNumber /\ t \in Nat
      BY <3>1, SeqAssumption DEF IInv, WindowExact, Seq
    <3> QED
      BY <3>2, <1>1
  <2> QED
    BY <2>1, <2>2
<1>8. ASSUME NEW i \in WordIdx, NEW b \in BitIdx
      PROVE  b \in window'[i] <=>
               LET t == nextPeerSeqNumber' - 1 - (i * WORD_BITS + b)
               IN  t \in Seq /\ times'[t] > 0
  <2> DEFINE m == i * WORD_BITS + b
             t == s - m
  <2>0. m \in Nat /\ t = s + 1 - 1 - m
    BY SlotType, <1>1
  <2>1. (i = 0 /\ b = 0) <=> m = 0
    <3>1. i = 0 /\ b = 0 => m = 0
      BY WindowAssumption
    <3>2. ASSUME m = 0 PROVE i = 0 /\ b = 0
      <4>1. i * WORD_BITS + b = 0 * WORD_BITS + 0
        BY <3>2, WindowAssumption
      <4>2. i \in Int /\ 0 \in Int /\ b \in 0 .. WORD_BITS - 1
              /\ 0 \in 0 .. WORD_BITS - 1 /\ WORD_BITS \in Nat \ {0}
        BY WindowAssumption DEF WordIdx, BitIdx
      <4> QED
        BY <4>1, <4>2, Digits
    <3> QED
      BY <3>1, <3>2
  <2>2. b \in window'[i] <=> m = 0 \/ b \in moved[i]
    BY <2>1, <1>3, <1>4, SeqBitsType DEF Window
  <2>3. (t \in Seq /\ times'[t] > 0) <=> m = 0 \/ (t \in Seq /\ times[t] > 0)
    <3>1. t = s <=> m = 0
      BY <2>0, <1>1
    <3>2. times'[s] > 0
      BY <1>2
    <3>3. \A u \in Seq : u # s => times'[u] = times[u]
      BY <1>2
    <3> HIDE DEF t, m
    <3> QED
      BY <3>1, <3>2, <3>3
  <2>4. b \in moved[i] <=> t \in Seq /\ times[t] > 0
    <3> HIDE DEF diff
    <3>1. ASSUME NEW j \in WordIdx, NEW c \in BitIdx, c \in window[j],
                 m = j * WORD_BITS + c + diff
          PROVE  t \in Seq /\ times[t] > 0
      <4>1. j * WORD_BITS + c \in Nat
        BY SlotType
      <4>2. nextPeerSeqNumber - 1 - (j * WORD_BITS + c) = t
        BY <4>1, <3>1, <2>0, <1>1 DEF diff
      <4>3. nextPeerSeqNumber - 1 - (j * WORD_BITS + c) \in Seq
              /\ times[nextPeerSeqNumber - 1 - (j * WORD_BITS + c)] > 0
        BY <3>1 DEF IInv, WindowExact
      <4> HIDE DEF t
      <4> QED
        BY <4>2, <4>3
    <3>2. ASSUME t \in Seq, times[t] > 0
          PROVE  \E j \in WordIdx, c \in BitIdx :
                    c \in window[j] /\ m = j * WORD_BITS + c + diff
      <4> DEFINE n == nextPeerSeqNumber - 1 - t
      <4>1. t < nextPeerSeqNumber /\ t \in Nat
        BY <3>2, SeqAssumption DEF IInv, WindowExact, Seq
      <4>2. n \in Nat /\ m = n + diff
        BY <4>1, <2>0, <1>1 DEF diff
      <4>3. n < SEQ_BITS
        <5>1. m < SEQ_BITS
          <6>1. i \in Int /\ WINDOW_WORDS \in Int /\ i < WINDOW_WORDS
            BY WindowAssumption DEF WordIdx
          <6>2. i * WORD_BITS + WORD_BITS <= SEQ_BITS
            BY <6>1, WindowAssumption, Products DEF SEQ_BITS
          <6>3. i * WORD_BITS \in Int
            BY <6>1, WindowAssumption, Products
          <6> QED
            BY <6>2, <6>3, SeqBitsType, WindowAssumption DEF BitIdx
        <5> HIDE DEF n, m
        <5> QED
          BY <5>1, <4>2, <1>1, SeqBitsType
      <4> DEFINE q == n \div WORD_BITS
                 r == n % WORD_BITS
      <4>4. q \in WordIdx /\ r \in BitIdx /\ n = q * WORD_BITS + r
        BY <4>2, <4>3, SlotOf
      <4>5. nextPeerSeqNumber - 1 - n = t
        BY <4>1, <1>1
      <4> HIDE DEF q, r, n, t, m
      <4>6. r \in window[q]
        BY <4>4, <4>5, <3>2 DEF IInv, WindowExact
      <4> QED
        BY <4>4, <4>2, <4>6
    <3> QED
      BY <3>1, <3>2, <1>5
  <2> HIDE DEF t, m
  <2>5. b \in window'[i] <=> t \in Seq /\ times'[t] > 0
    BY <2>2, <2>3, <2>4
  <2>6. nextPeerSeqNumber' - 1 - (i * WORD_BITS + b) = t
    BY <2>0, <1>1 DEF m, t
  <2> QED
    BY <2>5, <2>6
<1> QED
  BY <1>6, <1>7, <1>8 DEF WindowExact

\* A number that Dtls13ReconstructSeqNumber got right is less than a word32 ahead
\* of the expected one, so the distance Dtls13UpdateWindow computes does not
\* overflow.
LEMMA ReconstructNear ==
    ASSUME NEW s \in Nat, NEW e \in Nat,
           ReconstructSeqNumber(s % SHIFT, e) = s
    PROVE  s - e + 1 < GAP_LIMIT
<1> DEFINE low == s % SHIFT
           expected == e % SHIFT
<1>1. low \in 0 .. SHIFT - 1 /\ expected \in 0 .. SHIFT - 1 /\ SHIFT \in Nat
  BY SeqAssumption, DivMod
<1>2. SHIFT \div 2 \in Nat /\ 2 * (SHIFT \div 2) = SHIFT
  BY SeqAssumption
<1>3. ReconstructSeqNumber(low, e) =
        IF low >= expected
        THEN IF low - expected > SHIFT \div 2 /\ e - expected + low >= SHIFT
             THEN (e - expected + low) - SHIFT
             ELSE e - expected + low
        ELSE IF expected - low > SHIFT \div 2
             THEN e - expected + low + SHIFT
             ELSE e - expected + low
  <2> HIDE DEF low
  <2> QED
    BY Zenon DEF ReconstructSeqNumber
<1> HIDE DEF low, expected
<1>4. s = ReconstructSeqNumber(low, e)
  BY DEF low
<1>5. s - e < SHIFT
  BY <1>1, <1>2, <1>3, <1>4
<1> QED
  BY <1>5, <1>1, SeqAssumption

\* Every step preserves the inductive invariant.
LEMMA NextInv == IInv /\ [Next]_vars => IInv'
<1> SUFFICES ASSUME IInv, [Next]_vars PROVE IInv'
  OBVIOUS
<1>1. CASE Send
  BY <1>1, SeqAssumption
     DEF Send, IInv, TypeOK, NoReplay, WindowExact, UpdateNeverFails
<1>2. ASSUME NEW s \in Seq, DecryptFails(s) \/ DropOutsideWindow(s)
      PROVE  IInv'
  <2>1. last' \in [seq : Seq, verdict : Verdict]
    BY <1>2 DEF DecryptFails, DropOutsideWindow, Verdicts, Verdict
  <2> QED
    BY <1>2, <2>1 DEF DecryptFails, DropOutsideWindow, IInv, TypeOK, NoReplay,
                      WindowExact, UpdateNeverFails
<1>3. ASSUME NEW s \in Seq, Accept(s)
      PROVE  IInv'
  <2>1. /\ nextPeerSeqNumber \in Nat /\ s \in Nat /\ times \in [Seq -> Nat]
        /\ SEQ_BITS \in Nat
    BY SeqAssumption, SeqBitsType DEF IInv, TypeOK, Seq
  <2>2. CASE s < nextPeerSeqNumber
    <3>1. /\ nextPeerSeqNumber - s <= SEQ_BITS
          /\ ~ TestBit(window, nextPeerSeqNumber - s - 1)
      BY <1>3, <2>2 DEF Accept, CheckWindow
    <3>2. ~ UpdateFails(s)
      BY <3>1, <2>1, <2>2, SeqAssumption DEF UpdateFails
    <3>3. times[s] = 0
      BY <3>1, <2>1, <2>2, TestBitExact
    <3>4. /\ window' = SetBit(window, nextPeerSeqNumber - s - 1)
          /\ UNCHANGED <<nextPeerSeqNumber, failed, nextSeqNumber>>
          /\ times' = [times EXCEPT ![s] = @ + 1]
          /\ last' = [seq |-> s, verdict |-> "deliver"]
      BY <1>3, <3>2, <2>2
         DEF Accept, UpdateWindow, LateUpdateWindow, Verdicts
    <3>5. window' \in Window /\ WindowExact'
      BY <3>1, <3>4, <2>2, SetBitStep
    <3>6. NoReplay'
      BY <3>3, <3>4, <2>1 DEF NoReplay, IInv
    <3>7. TypeOK' /\ UpdateNeverFails'
      BY <3>4, <3>5, <2>1 DEF IInv, TypeOK, UpdateNeverFails, Verdict
    <3> QED
      BY <3>5, <3>6, <3>7 DEF IInv
  <2>3. CASE s >= nextPeerSeqNumber
    <3>1. times[s] = 0
      BY <2>1, <2>3 DEF IInv, WindowExact
    <3>2. ~ UpdateFails(s)
      <4>1. ReconstructSeqNumber(s % SHIFT, nextPeerSeqNumber) = s
        BY <1>3 DEF Accept
      <4>2. s - nextPeerSeqNumber + 1 < GAP_LIMIT
        BY <4>1, <2>1, ReconstructNear
      <4> QED
        BY <4>2, <2>1, <2>3, SeqAssumption DEF UpdateFails
    <3>3. /\ window' = UpdateWindowGTSeq(s - nextPeerSeqNumber + 1, window)
          /\ nextPeerSeqNumber' = s + 1
          /\ UNCHANGED <<failed, nextSeqNumber>>
          /\ times' = [times EXCEPT ![s] = @ + 1]
          /\ last' = [seq |-> s, verdict |-> "deliver"]
      BY <1>3, <3>2, <2>1, <2>3
         DEF Accept, UpdateWindow, NewUpdateWindow, Verdicts
    <3>4. window' \in Window /\ WindowExact'
      BY <3>3, <2>3, MoveStep
    <3>5. NoReplay'
      BY <3>1, <3>3, <2>1 DEF NoReplay, IInv
    <3>6. TypeOK' /\ UpdateNeverFails'
      BY <3>3, <3>4, <2>1 DEF IInv, TypeOK, UpdateNeverFails, Verdict
    <3> QED
      BY <3>4, <3>5, <3>6 DEF IInv
  <2> QED
    BY <2>1, <2>2, <2>3
<1>4. CASE UNCHANGED vars
  BY <1>4 DEF vars, IInv, TypeOK, NoReplay, WindowExact, UpdateNeverFails
<1> QED
  BY <1>1, <1>2, <1>3, <1>4 DEF Next, Receive

\* The state of the epoch keeps its types; in particular nextPeerSeqNumber never
\* goes below 0 and no mark falls outside the words of the window.
THEOREM TypesKept == Spec => []TypeOK
  BY InitInv, NextInv, PTL DEF Spec, IInv

\* For every window size, header width and record range, and whatever the network
\* repeats, delays or reorders, no record is handed to the message layer twice.
THEOREM NoRecordTwice == Spec => []NoReplay
  BY InitInv, NextInv, PTL DEF Spec, IInv

\* The bitmap marks exactly the records delivered: neither SetBit nor the shifts
\* and carries of _DtlsUpdateWindowGTSeq lose a mark or invent one.
THEOREM BitmapExact == Spec => []WindowExact
  BY InitInv, NextInv, PTL DEF Spec, IInv

\* Dtls13UpdateWindow never returns BAD_STATE_E for a record that was reconstructed
\* and that Dtls13CheckWindow let through.
THEOREM UpdateSucceeds == Spec => []UpdateNeverFails
  BY InitInv, NextInv, PTL DEF Spec, IInv

\* Dtls13ReconstructSeqNumber finds the number sent whenever it is less than half a
\* header block away from the expected one, on either side.
LEMMA ReconstructExact ==
    ASSUME NEW s \in Nat, NEW e \in Nat,
           s - e < SHIFT \div 2, e - s < SHIFT \div 2
    PROVE  ReconstructSeqNumber(s % SHIFT, e) = s
<1> DEFINE low == s % SHIFT
           expected == e % SHIFT
           a == e \div SHIFT
           b == s \div SHIFT
           H == SHIFT \div 2
<1>1. /\ low \in 0 .. SHIFT - 1 /\ b \in Nat /\ s = b * SHIFT + low
      /\ expected \in 0 .. SHIFT - 1 /\ a \in Nat /\ e = a * SHIFT + expected
      /\ SHIFT \in Nat \ {0}
  BY SeqAssumption, DivMod
<1>2. H \in Nat /\ 2 * H = SHIFT
  BY SeqAssumption
<1>3. ReconstructSeqNumber(low, e) =
        IF low >= expected
        THEN IF low - expected > H /\ e - expected + low >= SHIFT
             THEN (e - expected + low) - SHIFT
             ELSE e - expected + low
        ELSE IF expected - low > H
             THEN e - expected + low + SHIFT
             ELSE e - expected + low
  <2> HIDE DEF low
  <2> QED
    BY Zenon DEF ReconstructSeqNumber
<1>4. s - e < H /\ e - s < H
  OBVIOUS
<1> HIDE DEF low, expected, a, b, H
<1>5. a * SHIFT \in Int /\ b * SHIFT \in Int /\ b * SHIFT >= 0
  BY <1>1, Products
<1>6. CASE b = a
  BY <1>1, <1>2, <1>3, <1>4, <1>5, <1>6 DEF low
<1>7. CASE b = a + 1
  <2>1. b * SHIFT = a * SHIFT + SHIFT
    BY <1>1, <1>7, Products
  <2>2. e - expected + low + SHIFT = s /\ low < expected /\ expected - low > H
    BY <1>1, <1>2, <1>4, <1>5, <2>1
  <2>3. ReconstructSeqNumber(low, e) = s
    BY <2>2, <1>3, <1>1, <1>2
  <2> QED
    BY <2>3 DEF low
<1>8. CASE b = a - 1
  <2>1. b * SHIFT = a * SHIFT - SHIFT
    BY <1>1, <1>8, Products
  <2>2. /\ (e - expected + low) - SHIFT = s
        /\ low >= expected /\ low - expected > H
        /\ e - expected + low >= SHIFT
    BY <1>1, <1>2, <1>4, <1>5, <2>1
  <2>3. ReconstructSeqNumber(low, e) = s
    BY <2>2, <1>3, <1>1, <1>2
  <2> QED
    BY <2>3 DEF low
<1>9. CASE b > a + 1
  <2>1. (a + 1) * SHIFT + SHIFT <= b * SHIFT /\ (a + 1) * SHIFT = a * SHIFT + SHIFT
    BY <1>1, <1>9, Products
  <2> QED
    BY <2>1, <1>1, <1>2, <1>4, <1>5
<1>10. CASE b < a - 1
  <2>1. b * SHIFT + SHIFT <= (a - 1) * SHIFT /\ (a - 1) * SHIFT = a * SHIFT - SHIFT
    BY <1>1, <1>10, Products
  <2> QED
    BY <2>1, <1>1, <1>2, <1>4, <1>5
<1> QED
  BY <1>1, <1>6, <1>7, <1>8, <1>9, <1>10

\* Every step of the record layer is a step of AntiReplay or changes nothing there.
LEMMA StepRefines == IInv /\ [Next]_vars => [Abstract!Next]_(Abstract!vars)
<1> SUFFICES ASSUME IInv, [Next]_vars PROVE [Abstract!Next]_(Abstract!vars)
  OBVIOUS
<1>0. /\ nextPeerSeqNumber \in Nat /\ times \in [Seq -> Nat]
      /\ SEQ_BITS \in Nat /\ Seq \subseteq Nat
  BY SeqAssumption, SeqBitsType DEF IInv, TypeOK, Seq
<1>1. CASE Send \/ UNCHANGED vars
  BY <1>1 DEF Send, vars, Abstract!vars
<1>2. ASSUME NEW s \in Seq, DecryptFails(s)
      PROVE  Abstract!Next
  <2>1. s - nextPeerSeqNumber >= SHIFT \div 2 \/ nextPeerSeqNumber - s >= SHIFT \div 2
    <3>1. s \in Nat /\ SHIFT \div 2 \in Int
      BY <1>0, SeqAssumption
    <3> QED
      BY <1>0, <1>2, <3>1, ReconstructExact DEF DecryptFails
  <2>2. Abstract!Refuse(s)
    BY <1>2, <2>1 DEF DecryptFails, Verdicts, Abstract!Refuse
  <2> QED
    BY <2>2 DEF Abstract!Next
<1>3. ASSUME NEW s \in Seq, DropOutsideWindow(s)
      PROVE  Abstract!Next
  <2>1. /\ s < nextPeerSeqNumber
        /\ \/ ~ (nextPeerSeqNumber - s <= SEQ_BITS)
           \/ TestBit(window, nextPeerSeqNumber - s - 1)
    BY <1>3 DEF DropOutsideWindow, CheckWindow
  <2>2. times[s] > 0 \/ nextPeerSeqNumber - s > SEQ_BITS
    BY <1>0, <2>1, TestBitExact
  <2>3. Abstract!Refuse(s)
    BY <1>3, <2>2 DEF DropOutsideWindow, Verdicts, Abstract!Refuse
  <2> QED
    BY <2>3 DEF Abstract!Next
<1>4. ASSUME NEW s \in Seq, Accept(s)
      PROVE  Abstract!Next
  <2>1. times[s] = 0 /\ s \in Nat
    <3>1. CASE s < nextPeerSeqNumber
      <4>1. /\ nextPeerSeqNumber - s <= SEQ_BITS
            /\ ~ TestBit(window, nextPeerSeqNumber - s - 1)
        BY <1>4, <3>1 DEF Accept, CheckWindow
      <4> QED
        BY <4>1, <3>1, <1>0, TestBitExact
    <3>2. CASE ~ (s < nextPeerSeqNumber)
      BY <1>0, <3>2 DEF IInv, WindowExact
    <3> QED
      BY <3>1, <3>2
  <2>2. ~ UpdateFails(s)
    BY <1>4, NextInv DEF Accept, UpdateNeverFails, IInv
  <2>3. nextPeerSeqNumber' = IF s >= nextPeerSeqNumber THEN s + 1
                             ELSE nextPeerSeqNumber
    BY <1>0, <1>4, <2>1, <2>2
       DEF Accept, UpdateWindow, LateUpdateWindow, NewUpdateWindow
  <2>4. /\ times' = [times EXCEPT ![s] = 1]
        /\ last' = [seq |-> s, verdict |-> "deliver"]
    BY <1>0, <1>4, <2>1, <2>2 DEF Accept, Verdicts
  <2>5. Abstract!Deliver(s)
    BY <2>1, <2>3, <2>4 DEF Abstract!Deliver
  <2> QED
    BY <2>5 DEF Abstract!Next
<1> QED
  BY <1>1, <1>2, <1>3, <1>4 DEF Next, Receive

\* The bitmap, its shifts and the number reconstruction implement the abstract
\* replay protection AntiReplay: a record is refused only if it was delivered
\* before, is older than the window, or is half a header block or more away.
THEOREM WindowImplementsAntiReplay == Spec => ImplementsAntiReplay
<1>1. Init => Abstract!Init
  BY DEF Init, Abstract!Init, Abstract!NoRecord
<1> QED
  BY <1>1, InitInv, NextInv, StepRefines, PTL
     DEF Spec, ImplementsAntiReplay, Abstract!Spec
=============================================================================
