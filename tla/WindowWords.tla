---------------------------- MODULE WindowWords ----------------------------
(***************************************************************************)
(* The bitmap of a DTLS replay window as the record layer stores it: an    *)
(* array word32 window[WOLFSSL_DTLS_WINDOW_WORDS] (wolfssl/internal.h), in  *)
(* which bit o of word i stands for the record that is i * DTLS_WORD_BITS   *)
(* + o + 1 places behind the next expected one.  A word is modelled by the *)
(* set of its bits that are 1, so C's <<, >>, | and & on a word32 become    *)
(* operations on sets of bit positions, with the bits that leave the word  *)
(* lost as they are in C.                                                  *)
(***************************************************************************)
EXTENDS Integers

CONSTANTS
    WINDOW_WORDS,   \* WOLFSSL_DTLS_WINDOW_WORDS, 2 unless configured
    WORD_BITS       \* DTLS_WORD_BITS, 32 in C

ASSUME WindowAssumption == /\ WINDOW_WORDS \in Nat \ {0}
                           /\ WORD_BITS \in Nat \ {0}

\* DTLS_SEQ_BITS: how many records behind the next one the window tracks.
SEQ_BITS == WINDOW_WORDS * WORD_BITS

WordIdx == 0 .. WINDOW_WORDS - 1
BitIdx == 0 .. WORD_BITS - 1

Word == SUBSET BitIdx
Window == [WordIdx -> Word]

\* w << d and w >> d on a word.
ShiftLeft(w, d) == {b \in BitIdx : b - d \in w}
ShiftRight(w, d) == {b \in BitIdx : b + d \in w}

\* window[diff / DTLS_WORD_BITS] & (1 << (diff % DTLS_WORD_BITS))
TestBit(window, diff) == diff % WORD_BITS \in window[diff \div WORD_BITS]

\* window[diff / DTLS_WORD_BITS] |= (1 << (diff % DTLS_WORD_BITS))
SetBit(window, diff) ==
    [window EXCEPT ![diff \div WORD_BITS] = @ \cup {diff % WORD_BITS}]

EmptyWindow == [i \in WordIdx |-> {}]

(***************************************************************************)
(* The loop of _DtlsUpdateWindowGTSeq over the words, for a distance that   *)
(* does not empty the window: the word at i receives the word idx places   *)
(* below it shifted by diff, and the bits the word below that one loses    *)
(* (the carry the code keeps in temp).                                     *)
(***************************************************************************)
NoCarryShiftedWords(diff, window) ==
    LET idx == diff \div WORD_BITS
        off == diff % WORD_BITS
    IN  [i \in WordIdx |-> IF i < idx THEN {}
                           ELSE ShiftLeft(window[i - idx], off)]

ShiftedWords(diff, window) ==
    LET idx == diff \div WORD_BITS
        off == diff % WORD_BITS
    IN  [i \in WordIdx |->
           IF i < idx THEN {}
           ELSE ShiftLeft(window[i - idx], off) \cup
                IF i > idx /\ off > 0
                THEN ShiftRight(window[i - idx - 1], WORD_BITS - off)
                ELSE {}]

(***************************************************************************)
(* _DtlsUpdateWindowGTSeq: move the window diff records forward and mark    *)
(* the newest record.  A diff of 0 stands for an overflow of the distance. *)
(***************************************************************************)
UpdateWindowGTSeq(diff, window) ==
    LET moved == IF diff = 0 \/ diff >= SEQ_BITS
                 THEN EmptyWindow
                 ELSE ShiftedWords(diff, window)
    IN  [moved EXCEPT ![0] = @ \cup {0}]
=============================================================================
