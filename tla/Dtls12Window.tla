---------------------------- MODULE Dtls12Window ----------------------------
(***************************************************************************)
(* The replay window of DTLS 1.2 (struct WOLFSSL_DTLS_PEERSEQ): a window   *)
(* for the current read epoch and one for the epoch before it, kept with   *)
(* sequence numbers split into a 16-bit high and a 32-bit low part.  The    *)
(* check (_DtlsCheckWindow) is made on the record header, before the       *)
(* record is decrypted; the update (DtlsUpdateWindow) follows once it has  *)
(* been authenticated; a ChangeCipherSpec moves to the next epoch.         *)
(*                                                                         *)
(* The low part has LO numbers here instead of 2^32, so that the carry     *)
(* into the high part is within reach; every subtraction on it wraps the   *)
(* way a word32 does.  Records of the peer may arrive at any time, any     *)
(* number of times, in any order.  Records that fail to decrypt change     *)
(* nothing here and are left out.                                          *)
(***************************************************************************)
EXTENDS WindowWords

CONSTANTS
    LO,         \* 2^32: how many numbers the low part has
    MAX_HI,     \* bound: largest high part the peer uses (0xffff in C)
    EDGE,       \* bound: the peer's records that ever arrive are the ones
                \* less than EDGE away from where the low part wraps
    MAX_EPOCH   \* bound: last epoch of the run

ASSUME LoAssumption == /\ LO \in Nat /\ LO > 3 * SEQ_BITS + 1
                       /\ MAX_HI \in Nat /\ EDGE \in Nat
                       /\ MAX_EPOCH \in Nat

VARIABLES
    nextEpoch,      \* peerSeq->nextEpoch
    next,           \* peerSeq->nextSeq_hi, nextSeq_lo
    window,         \* peerSeq->window
    prev,           \* peerSeq->prevSeq_hi, prevSeq_lo
    prevWindow,     \* peerSeq->prevWindow
    times           \* how often each record was processed (2: or more)

vars == <<nextEpoch, next, window, prev, prevWindow, times>>

Epoch == 0 .. MAX_EPOCH
Record == [epoch : Epoch, hi : 0 .. MAX_HI,
           lo : {l \in 0 .. LO - 1 : l < EDGE \/ l >= LO - EDGE}]
Zero == [hi |-> 0, lo |-> 0]

\* The number as one natural, for the properties.
Value(n) == n.hi * LO + n.lo

Init == /\ nextEpoch = 0
        /\ next = Zero /\ prev = Zero
        /\ window = EmptyWindow /\ prevWindow = EmptyWindow
        /\ times = [r \in Record |-> 0]

-----------------------------------------------------------------------------
\* A difference of two low parts in a word32.
Lo(n) == n % LO

(***************************************************************************)
(* The distance _DtlsCheckWindow computes.  When the high parts differ the *)
(* code subtracts the other way round than when they agree.                *)
(***************************************************************************)
CheckLT(cur, nxt) ==
    IF cur.hi = nxt.hi THEN cur.lo < nxt.lo ELSE cur.hi < nxt.hi

CheckDiff(cur, nxt) ==
    IF cur.hi = nxt.hi
    THEN IF cur.lo < nxt.lo THEN nxt.lo - cur.lo ELSE cur.lo - nxt.lo
    ELSE IF cur.hi < nxt.hi THEN Lo(cur.lo - nxt.lo) ELSE Lo(nxt.lo - cur.lo)

(***************************************************************************)
(* _DtlsCheckWindow on the window of the record's epoch.                   *)
(***************************************************************************)
UndecrementedCheckNumber(cur, nxt, win) ==
    LET diff == CheckDiff(cur, nxt)
    IN  /\ ~ (cur.hi > nxt.hi + 1 \/ nxt.hi > cur.hi + 1)
        /\ CheckLT(cur, nxt) =>
             /\ ~ ((nxt.hi > 0 \/ nxt.lo > SEQ_BITS) /\ diff > SEQ_BITS)
             /\ diff # 0
             /\ diff \div WORD_BITS < WINDOW_WORDS
             /\ ~ TestBit(win, diff)

CheckNumber(cur, nxt, win) ==
    LET diff == CheckDiff(cur, nxt)
    IN  /\ ~ (cur.hi > nxt.hi + 1 \/ nxt.hi > cur.hi + 1)
        /\ CheckLT(cur, nxt) =>
             /\ ~ ((nxt.hi > 0 \/ nxt.lo > SEQ_BITS) /\ diff > SEQ_BITS)
             /\ diff # 0
             /\ (diff - 1) \div WORD_BITS < WINDOW_WORDS
             /\ ~ TestBit(win, diff - 1)

CheckWindow(rec) ==
    CASE rec.epoch = nextEpoch     -> CheckNumber(rec, next, window)
      [] rec.epoch = nextEpoch - 1 -> CheckNumber(rec, prev, prevWindow)
      [] OTHER                     -> FALSE

(***************************************************************************)
(* wolfSSL_DtlsUpdateWindow: the next number and window after cur.         *)
(***************************************************************************)
After(cur) == IF Lo(cur.lo + 1) = 0 THEN [hi |-> cur.hi + 1, lo |-> 0]
                                    ELSE [hi |-> cur.hi, lo |-> cur.lo + 1]

\* How far the update finds cur from the next number: a distance, or "reset"
\* for a record too new for the window, or "old" for one too far back.
Dist(n) == [kind |-> "dist", n |-> n]
Reset == [kind |-> "reset", n |-> 0]
Old == [kind |-> "old", n |-> 0]

ResetUpdateDist(cur, nxt) ==
    CASE cur.hi = nxt.hi ->
            Dist(IF cur.lo < nxt.lo THEN nxt.lo - cur.lo ELSE cur.lo - nxt.lo)
      [] cur.hi > nxt.hi -> Reset
      [] cur.hi < nxt.hi -> Old

UpdateDist(cur, nxt) ==
    CASE cur.hi = nxt.hi ->
            Dist(IF cur.lo < nxt.lo THEN nxt.lo - cur.lo ELSE cur.lo - nxt.lo)
      [] cur.hi > nxt.hi + 1 -> Reset
      [] nxt.hi > cur.hi + 1 -> Old
      [] cur.hi = nxt.hi - 1 ->
            IF nxt.lo < SEQ_BITS /\ cur.lo >= LO - 1 - SEQ_BITS
            THEN Dist(nxt.lo + (LO - 1 - cur.lo) + 1)
            ELSE Old
      [] cur.hi = nxt.hi + 1 ->
            IF nxt.lo >= LO - 1 - SEQ_BITS /\ cur.lo < SEQ_BITS
            THEN Dist(Lo(cur.lo - nxt.lo))
            ELSE Reset

UpdatedWindow(cur, nxt, win) ==
    LET d == UpdateDist(cur, nxt)
    IN  CASE d.kind = "old"   -> win
          [] d.kind = "reset" -> UpdateWindowGTSeq(0, win)
          [] d.kind = "dist" /\ CheckLT(cur, nxt) ->
                IF (d.n - 1) \div WORD_BITS < WINDOW_WORDS
                THEN SetBit(win, d.n - 1)
                ELSE win
          [] d.kind = "dist" /\ ~ CheckLT(cur, nxt) ->
                UpdateWindowGTSeq(Lo(d.n + 1), win)

UpdatedNext(cur, nxt) ==
    LET d == UpdateDist(cur, nxt)
    IN  IF d.kind = "reset" \/ (d.kind = "dist" /\ ~ CheckLT(cur, nxt))
        THEN After(cur)
        ELSE nxt

(***************************************************************************)
(* DtlsUpdateWindow: the update goes to the window of the record's epoch.  *)
(***************************************************************************)
UpdateWindow(rec) ==
    IF rec.epoch = nextEpoch
    THEN /\ window' = UpdatedWindow(rec, next, window)
         /\ next' = UpdatedNext(rec, next)
         /\ UNCHANGED <<prev, prevWindow>>
    ELSE /\ prevWindow' = UpdatedWindow(rec, prev, prevWindow)
         /\ prev' = UpdatedNext(rec, prev)
         /\ UNCHANGED <<next, window>>

-----------------------------------------------------------------------------
\* GetRecordHeader returns SEQUENCE_ERROR and DtlsShouldDrop drops the record.
Drop(rec) ==
    /\ ~ CheckWindow(rec)
    /\ UNCHANGED vars

\* The record is decrypted, the window updated and the record processed.
Process(rec) ==
    /\ CheckWindow(rec)
    /\ UpdateWindow(rec)
    /\ times' = [times EXCEPT ![rec] = IF @ < 2 THEN @ + 1 ELSE @]
    /\ UNCHANGED nextEpoch

Receive(rec) == Drop(rec) \/ Process(rec)

(***************************************************************************)
(* DoChangeCipherSpecTls12: the epoch moves on and the window of the one   *)
(* that ends becomes the previous window.                                  *)
(***************************************************************************)
KeepWindowChangeCipherSpec ==
    /\ nextEpoch < MAX_EPOCH
    /\ nextEpoch' = nextEpoch + 1
    /\ prev' = next /\ prevWindow' = prevWindow
    /\ next' = Zero /\ window' = EmptyWindow
    /\ UNCHANGED times

ChangeCipherSpec ==
    /\ nextEpoch < MAX_EPOCH
    /\ nextEpoch' = nextEpoch + 1
    /\ prev' = next /\ prevWindow' = window
    /\ next' = Zero /\ window' = EmptyWindow
    /\ UNCHANGED times

Next == ChangeCipherSpec \/ \E rec \in Record : Receive(rec)

Spec == Init /\ [][Next]_vars

-----------------------------------------------------------------------------
(***************************************************************************)
(* Safety.                                                                 *)
(***************************************************************************)

\* How far a record is behind the next one expected in its own epoch.
Behind(rec) == IF rec.epoch = nextEpoch THEN Value(next) - Value(rec)
               ELSE Value(prev) - Value(rec)

Tracked(rec) == rec.epoch \in {nextEpoch, nextEpoch - 1}

\* A record is never processed a second time as long as it is less than
\* LO - SEQ_BITS (2^32 less the window) records behind: the marks that
\* wolfSSL_DtlsUpdateWindow sets are the ones _DtlsCheckWindow later reads,
\* also after a ChangeCipherSpec has moved them to prevWindow.
NoReplay ==
    [][\A rec \in Record :
         times'[rec] = 2 /\ times[rec] < 2 => Behind(rec) >= LO - SEQ_BITS]_vars

\* A bit of the window is set exactly if the record it stands for, given the
\* number the window is anchored at, was processed in that epoch.
MarksProcessed(win, epoch, nxt) ==
    \A i \in WordIdx, b \in BitIdx :
        b \in win[i] <=>
          \E rec \in Record : /\ rec.epoch = epoch
                              /\ times[rec] > 0
                              /\ Value(nxt) - 1 - (i * WORD_BITS + b) = Value(rec)

\* Both windows mark exactly the processed records they cover, also where the
\* low part of the number wraps and across the copy of the window that
\* ChangeCipherSpec makes.
WindowExact ==
    /\ MarksProcessed(window, nextEpoch, next)
    /\ nextEpoch > 0 => MarksProcessed(prevWindow, nextEpoch - 1, prev)

\* A record that has the high part of the number expected next and is not
\* more than SEQ_BITS behind it is refused only if it was processed before.
FreshAccepted ==
    \A rec \in Record :
        /\ Tracked(rec) /\ times[rec] = 0
        /\ rec.hi = IF rec.epoch = nextEpoch THEN next.hi ELSE prev.hi
        /\ Behind(rec) <= SEQ_BITS
        => CheckWindow(rec)
=============================================================================
