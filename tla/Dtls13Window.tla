---------------------------- MODULE Dtls13Window ----------------------------
(***************************************************************************)
(* The receiving end of one protected DTLS 1.3 epoch: a peer numbers its   *)
(* records from 0 (Dtls13GetSeq), the network loses, duplicates, delays    *)
(* and reorders them, and the receiver reconstructs the full number from   *)
(* the low bits in the header (Dtls13ReconstructSeqNumber), lets the AEAD  *)
(* check it, and only then asks and updates the replay window              *)
(* (Dtls13CheckWindow and Dtls13UpdateWindow in ProcessReply).             *)
(*                                                                         *)
(* The network needs no variable of its own: a record that was sent can    *)
(* arrive at any later time, any number of times, or never, so what may    *)
(* arrive is exactly what was sent.  The AEAD is modelled by its contract: *)
(* a record is authentic iff its number was reconstructed correctly.       *)
(***************************************************************************)
EXTENDS WindowWords

CONSTANTS
    SHIFT,      \* 2^(bits of a sequence number in the header): 2^8 or 2^16
    GAP_LIMIT,  \* 2^32: first distance that does not fit in a word32
    MAX_SEQ     \* bound: largest record number the peer uses

ASSUME SeqAssumption == /\ SHIFT \in Nat \ {0}
                        /\ SHIFT % 2 = 0
                        /\ GAP_LIMIT \in Nat
                        /\ GAP_LIMIT > SHIFT
                        /\ GAP_LIMIT > SEQ_BITS
                        /\ MAX_SEQ \in Nat

VARIABLES
    nextSeqNumber,      \* Dtls13Epoch.nextSeqNumber of the sending peer
    nextPeerSeqNumber,  \* Dtls13Epoch.nextPeerSeqNumber of the receiver
    window,             \* Dtls13Epoch.window of the receiver
    failed,             \* Dtls13UpdateWindow returned BAD_STATE_E
    times,              \* how often each record reached the message layer
    last                \* the record handled last and what became of it

vars == <<nextSeqNumber, nextPeerSeqNumber, window, failed, times, last>>

Seq == 0 .. MAX_SEQ
Verdict == {"none", "drop", "deliver", "error"}

TypeOK == /\ nextSeqNumber \in 0 .. MAX_SEQ + 1
          /\ nextPeerSeqNumber \in Nat
          /\ window \in Window
          /\ failed \in BOOLEAN
          /\ times \in [Seq -> Nat]
          /\ last \in [seq : Seq, verdict : Verdict]

Init == /\ nextSeqNumber = 0
        /\ nextPeerSeqNumber = 0
        /\ window = EmptyWindow
        /\ failed = FALSE
        /\ times = [s \in Seq |-> 0]
        /\ last = [seq |-> 0, verdict |-> "none"]

\* Dtls13GetSeq(CUR_ORDER, increment): the sender takes the next number.
Send == /\ nextSeqNumber <= MAX_SEQ
        /\ nextSeqNumber' = nextSeqNumber + 1
        /\ UNCHANGED <<nextPeerSeqNumber, window, failed, times, last>>

(***************************************************************************)
(* Dtls13ReconstructSeqNumber: the number with these low bits in the same  *)
(* block of SHIFT numbers as the expected one, moved one block back or     *)
(* forward if that brings it within half a block.  A move below 0 (the     *)
(* wrap of w64Sub32) is not made.                                          *)
(***************************************************************************)
NoForwardReconstructSeqNumber(low, next) ==
    LET expected == next % SHIFT
        out == next - expected + low
    IN  IF low >= expected /\ low - expected > SHIFT \div 2 /\ out >= SHIFT
        THEN out - SHIFT
        ELSE out

ReconstructSeqNumber(low, next) ==
    LET expected == next % SHIFT
        out == next - expected + low
    IN  IF low >= expected
        THEN IF low - expected > SHIFT \div 2 /\ out >= SHIFT
             THEN out - SHIFT
             ELSE out
        ELSE IF expected - low > SHIFT \div 2
             THEN out + SHIFT
             ELSE out

(***************************************************************************)
(* Dtls13CheckWindow: may the record be processed?                         *)
(***************************************************************************)
NoBitCheckWindow(seq) ==
    seq < nextPeerSeqNumber => nextPeerSeqNumber - seq <= SEQ_BITS

NoRangeCheckWindow(seq) ==
    seq < nextPeerSeqNumber =>
        IF nextPeerSeqNumber - seq <= SEQ_BITS
        THEN ~ TestBit(window, nextPeerSeqNumber - seq - 1)
        ELSE TRUE

CheckWindow(seq) ==
    seq < nextPeerSeqNumber =>
        /\ nextPeerSeqNumber - seq <= SEQ_BITS
        /\ ~ TestBit(window, nextPeerSeqNumber - seq - 1)

(***************************************************************************)
(* Dtls13UpdateWindow: mark a late record, or move the window up to a new  *)
(* one.  Distances that do not fit a word32, and late records outside the  *)
(* window, end in BAD_STATE_E and leave the epoch alone.                   *)
(***************************************************************************)
UpdateFails(seq) ==
    \/ /\ seq < nextPeerSeqNumber
       /\ \/ nextPeerSeqNumber - seq - 1 >= GAP_LIMIT
          \/ nextPeerSeqNumber - seq - 1 >= SEQ_BITS
    \/ /\ seq >= nextPeerSeqNumber
       /\ seq - nextPeerSeqNumber + 1 >= GAP_LIMIT

LateUpdateWindow(seq) ==
    /\ window' = SetBit(window, nextPeerSeqNumber - seq - 1)
    /\ UNCHANGED nextPeerSeqNumber

NewUpdateWindow(seq) ==
    /\ window' = UpdateWindowGTSeq(seq - nextPeerSeqNumber + 1, window)
    /\ nextPeerSeqNumber' = seq + 1

UpdateWindow(seq) ==
    IF seq < nextPeerSeqNumber THEN LateUpdateWindow(seq)
                               ELSE NewUpdateWindow(seq)

\* What becomes of the record is noted for the properties.
Verdicts(seq, verdict) == last' = [seq |-> seq, verdict |-> verdict]

\* The number was reconstructed wrongly, so the record fails to decrypt and
\* ProcessReply drops it (HandleDTLSDecryptFailed).
DecryptFails(seq) ==
    /\ ReconstructSeqNumber(seq % SHIFT, nextPeerSeqNumber) # seq
    /\ Verdicts(seq, "drop")
    /\ UNCHANGED <<nextSeqNumber, nextPeerSeqNumber, window, failed, times>>

\* "Dropping DTLS record outside receiving window"
DropOutsideWindow(seq) ==
    /\ ReconstructSeqNumber(seq % SHIFT, nextPeerSeqNumber) = seq
    /\ ~ CheckWindow(seq)
    /\ Verdicts(seq, "drop")
    /\ UNCHANGED <<nextSeqNumber, nextPeerSeqNumber, window, failed, times>>

(***************************************************************************)
(* The record passes the window.  After the update it goes on to           *)
(* runProcessingOneMessage; if the update failed, ProcessReply returns the *)
(* error to the application instead.                                       *)
(***************************************************************************)
Accept(seq) ==
    /\ ReconstructSeqNumber(seq % SHIFT, nextPeerSeqNumber) = seq
    /\ CheckWindow(seq)
    /\ IF UpdateFails(seq)
       THEN /\ failed' = TRUE
            /\ Verdicts(seq, "error")
            /\ UNCHANGED <<nextPeerSeqNumber, window, times>>
       ELSE /\ UpdateWindow(seq)
            /\ times' = [times EXCEPT ![seq] = @ + 1]
            /\ Verdicts(seq, "deliver")
            /\ UNCHANGED failed
    /\ UNCHANGED nextSeqNumber

\* One record that was sent arrives (runProcessingOneRecord).
Receive(seq) ==
    /\ seq < nextSeqNumber
    /\ DecryptFails(seq) \/ DropOutsideWindow(seq) \/ Accept(seq)

Next == Send \/ \E seq \in Seq : Receive(seq)

Spec == Init /\ [][Next]_vars

-----------------------------------------------------------------------------
(***************************************************************************)
(* Safety.                                                                 *)
(***************************************************************************)

\* No record is handed to the message layer twice, however often the network
\* repeats it: the check in Dtls13CheckWindow sees every earlier update.
NoReplay == \A s \in Seq : times[s] <= 1

\* Bit k of the window is set exactly when the record k + 1 places behind the
\* next expected one was delivered: the shifts and carries of
\* _DtlsUpdateWindowGTSeq lose no mark and invent none.
WindowExact ==
    /\ \A s \in Seq : times[s] > 0 => s < nextPeerSeqNumber
    /\ \A i \in WordIdx, b \in BitIdx :
         b \in window[i] <=>
           LET s == nextPeerSeqNumber - 1 - (i * WORD_BITS + b)
           IN  s \in Seq /\ times[s] > 0

\* A record that Dtls13CheckWindow lets through never makes Dtls13UpdateWindow
\* fail with BAD_STATE_E, which ProcessReply would return as a fatal error.
UpdateNeverFails == ~ failed

\* The window keeps the promise of AntiReplay: each record at most once, and
\* none refused but for being delivered before, being more than SEQ_BITS
\* behind, or being half a header block away from the expected number.
Abstract == INSTANCE AntiReplay WITH
                Seq <- Seq, W <- SEQ_BITS, Reach <- SHIFT \div 2,
                next <- nextPeerSeqNumber

ImplementsAntiReplay == Abstract!Spec
=============================================================================
