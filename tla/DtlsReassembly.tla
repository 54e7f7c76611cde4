--------------------------- MODULE DtlsReassembly ---------------------------
(***************************************************************************)
(* How a DTLS endpoint turns the fragments of the peer's handshake         *)
(* messages back into messages in order: dtls_rx_msg_list, a list of       *)
(* DtlsMsg items, each with a sorted list of buckets (runs of bytes        *)
(* received so far), filled by DtlsMsgStore and emptied from its head.     *)
(* DTLS 1.2 (DoDtlsHandShakeMsg) and DTLS 1.3 (_Dtls13HandshakeRecv) share *)
(* the list and differ in the handler around it.                           *)
(*                                                                         *)
(* Byte i of message m is <<m, i>>, so that a byte copied to a wrong place *)
(* shows.  The network delivers any fragment the peer may send, any number *)
(* of times and in any order.  The messages are the ones of one handshake  *)
(* after the ClientHello (which is never stored); fragments of a message   *)
(* come in one epoch, so an item is found by its number alone; memory does *)
(* not run out and the messages themselves are accepted.  The flights that *)
(* DoDtlsHandShakeMsg sends again when it sees the end of a flight out of  *)
(* order (DtlsMsgPoolSend) leave the list alone and are left out.          *)
(***************************************************************************)
EXTENDS Integers, Sequences, SequencesExt, FiniteSetsExt

CONSTANTS
    LengthOf,           \* the lengths of the messages of the handshake
    DTLS_POOL_SZ,       \* most items in the list
    DTLS_FRAG_POOL_SZ,  \* most buckets of one item
    Mixed               \* which peers: FALSE cuts a message the same way
                        \* every time it is sent, TRUE any way

ASSUME ReassemblyAssumption ==
    /\ LengthOf \in Seq(Nat)
    /\ DTLS_POOL_SZ \in Nat \ {0} /\ DTLS_FRAG_POOL_SZ \in Nat \ {0}
    /\ Mixed \subseteq BOOLEAN

VARIABLES
    dtls13,     \* which of the two handlers
    mixed,      \* does the peer cut a message differently when repeating it
    cut,        \* a peer that does not: length of its fragments, by message
    expected,   \* keys.dtls_expected_peer_handshake_number
    list,       \* dtls_rx_msg_list
    delivered,  \* the messages handed to DoHandShakeMsgType, as bytes
    got,        \* by message, the bytes that arrived in a fragment not refused
    acked,      \* DTLS 1.3: fragments whose records went on the ACK list
    dead        \* the connection failed with DTLS_TOO_MANY_FRAGMENTS_E

peer == <<dtls13, mixed, cut>>
vars == <<dtls13, mixed, cut, expected, list, delivered, got, acked, dead>>

Messages == DOMAIN LengthOf
LastMessage == Len(LengthOf)
Junk == <<0, 0>>                                   \* memory not yet written
Bytes(m, from, to) == [i \in 1 .. to - from |-> <<m, from + i - 1>>]

\* The fragments a peer may send: any part, or its own way of cutting.
FragmentsOf(m) ==
    UNION {{[seq |-> m, off |-> o, sz |-> n] : n \in 0 .. LengthOf[m] - o} :
           o \in 0 .. LengthOf[m]}

AnyFragment == UNION {FragmentsOf(m) : m \in Messages}

Sendable(f) ==
    \/ mixed
    \/ /\ f.off % cut[f.seq] = 0
       /\ f.off < LengthOf[f.seq] \/ LengthOf[f.seq] = 0
       /\ f.sz = Min({cut[f.seq], LengthOf[f.seq] - f.off})

Whole(f) == f.sz = LengthOf[f.seq]
Data(f) == Bytes(f.seq, f.off, f.off + f.sz)
EndOf(f) == f.off + f.sz

Init == /\ dtls13 \in BOOLEAN /\ mixed \in Mixed
        /\ cut \in {c \in [Messages -> {1} \cup UNION {1 .. LengthOf[m] : m \in Messages}] :
                      \A m \in Messages : c[m] = 1 \/ (~ mixed /\ c[m] <= LengthOf[m])}
        /\ expected = 1 /\ list = <<>> /\ delivered = <<>>
        /\ got = [m \in Messages |-> {}]
        /\ acked = {}
        /\ dead = FALSE

-----------------------------------------------------------------------------
(***************************************************************************)
(* DtlsMsgCombineFragBuckets.  The fragment f touches cur and ends before  *)
(* the end of next, if there is a next; buckets between them are swallowed.*)
(* cur or next, whichever is larger, is reallocated and filled in place,   *)
(* so the order of the copies and what they read matter.                   *)
(***************************************************************************)
Bucket(off, buf) == [off |-> off, sz |-> Len(buf), buf |-> buf]

\* A copy of piece into buf at offset at; one past the end of buf lengthens
\* it, where the code would write past the allocation.
Copy(buf, at, piece) ==
    SubSeq(buf, 1, at) \o piece \o SubSeq(buf, at + Len(piece) + 1, Len(buf))

Grow(buf, sz) == buf \o [i \in 1 .. sz - Len(buf) |-> Junk]

\* The bucket that replaces cur (and next, when f reaches it: joins).
CombinedBucket(cur, next, joins, f) ==
    LET newOff   == Min({cur.off, f.off})
        curEnd   == cur.off + cur.sz
        newSz    == (IF joins THEN next.off + next.sz ELSE Max({curEnd, EndOf(f)}))
                    - newOff
        inCur    == ~ joins \/ cur.sz >= next.sz
        grown    == Grow(IF inCur THEN cur.buf ELSE next.buf, newSz)
        placed   == IF joins THEN Copy(grown, next.off - newOff, next.buf)
                             ELSE grown
        fillEnd  == IF joins THEN next.off ELSE newOff + newSz
        curBuf   == IF inCur THEN SubSeq(placed, 1, cur.sz) ELSE cur.buf
        skip     == EndOf(f) - cur.off
        filled   ==
            IF newOff = f.off
            THEN IF fillEnd <= EndOf(f)
                 THEN Copy(placed, 0,
                           SubSeq(Data(f), 1, Min({f.sz, fillEnd - newOff})))
                 ELSE Copy(Copy(placed, f.sz, SubSeq(curBuf, skip + 1, cur.sz)),
                           0, Data(f))
            ELSE Copy(Copy(placed, 0, curBuf), cur.sz,
                      SubSeq(Data(f), curEnd - f.off + 1, fillEnd - f.off))
    IN  [off |-> newOff, sz |-> newSz, buf |-> filled]

\* The buckets that were swallowed are not counted.
FirstOverlap(b, c, rest) == b[c].sz

\* The bytes that the buckets from c to before rest already had.
Overlap(b, c, rest) ==
    LET sum[i \in c .. rest - 1] ==
          IF i = c THEN b[c].sz ELSE sum[i - 1] + b[i].sz
    IN  sum[rest - 1]

\* The item with f merged into its bucket number c, which f touches.
CombineFragBuckets(item, c, f) ==
    LET b       == item.buckets
        reach   == {n \in c + 1 .. Len(b) : b[n].off + b[n].sz > EndOf(f)}
        n       == IF reach = {} THEN Len(b) + 1 ELSE Min(reach)
        joins   == n <= Len(b) /\ EndOf(f) >= b[n].off
        next    == IF n <= Len(b) THEN b[n] ELSE b[c]        \* unused if none
        new     == CombinedBucket(b[c], next, joins, f)
        rest    == IF joins THEN n + 1 ELSE n    \* first bucket that stays
        overlap == Overlap(b, c, rest)
    IN  [item EXCEPT
           !.buckets = SubSeq(b, 1, c - 1) \o <<new>> \o SubSeq(b, rest, Len(b)),
           !.received = @ + new.sz - overlap]

(***************************************************************************)
(* DtlsMsgSet: fragment f into an item.                                    *)
(***************************************************************************)
\* The first bucket that ends at or after the start of f.
PlaceOf(b, f) ==
    LET at == {i \in 1 .. Len(b) : f.off <= b[i].off + b[i].sz}
    IN  IF at = {} THEN Len(b) + 1 ELSE Min(at)

\* A fragment is taken for known when its start is.
StartKnown(b, f) == LET c == PlaceOf(b, f)
                    IN  c <= Len(b) /\ f.off >= b[c].off /\ f.off < b[c].off + b[c].sz

Known(b, f) == LET c == PlaceOf(b, f)
               IN  /\ c <= Len(b)
                   /\ f.off >= b[c].off /\ EndOf(f) <= b[c].off + b[c].sz

\* A fragment that ends where its place starts is not joined to it.
AdjacentDisjoint(b, f) == LET c == PlaceOf(b, f)
                          IN  c > Len(b) \/ EndOf(f) <= b[c].off

\* f is after everything, or before its place with a gap.
Disjoint(b, f) == LET c == PlaceOf(b, f)
                  IN  c > Len(b) \/ EndOf(f) < b[c].off

StoreInBuckets(item, f) ==
    LET b == item.buckets
    IN  CASE Known(b, f) -> item
          [] Disjoint(b, f) ->
               IF b # <<>> /\ Len(b) >= DTLS_FRAG_POOL_SZ
               THEN item                                       \* refused
               ELSE [item EXCEPT
                       !.buckets = InsertAt(b, PlaceOf(b, f), Bucket(f.off, Data(f))),
                       !.received = @ + f.sz]
          [] OTHER -> CombineFragBuckets(item, PlaceOf(b, f), f)

\* DtlsMsgAssembleCompleteMessage; its check failing is a "Major error".
AssembleCompleteMessage(item) ==
    IF /\ Len(item.buckets) = 1 /\ item.buckets[1].off = 0
       /\ item.buckets[1].sz = LengthOf[item.seq]
    THEN [item EXCEPT !.ready = TRUE, !.full = item.buckets[1].buf,
                      !.buckets = <<>>]
    ELSE item

DtlsMsgSet(item, f) ==
    LET stored == StoreInBuckets(item, f)
    IN  IF item.ready THEN item
        ELSE IF stored.received = LengthOf[f.seq]
             THEN AssembleCompleteMessage(stored) ELSE stored

DtlsMsgNew(m) == [seq |-> m, buckets |-> <<>>, received |-> 0,
                  ready |-> FALSE, full |-> <<>>]

(***************************************************************************)
(* DtlsMsgStore: find the item of the message or insert one in order       *)
(* (DtlsMsgInsert), and put the fragment into it.                          *)
(***************************************************************************)
IndexOf(items, m) == {i \in 1 .. Len(items) : items[i].seq = m}

\* Every new item goes to the end.
AppendPlace(items, m) == Len(items) + 1

InsertPlace(items, m) ==
    LET later == {i \in 1 .. Len(items) : m < items[i].seq}
    IN  IF later = {} THEN Len(items) + 1 ELSE Min(later)

DtlsMsgStore(items, f) ==
    IF IndexOf(items, f.seq) = {}
    THEN InsertAt(items, InsertPlace(items, f.seq), DtlsMsgSet(DtlsMsgNew(f.seq), f))
    ELSE LET i == Min(IndexOf(items, f.seq))
         IN  ReplaceAt(items, i, DtlsMsgSet(items[i], f))

(***************************************************************************)
(* DtlsMsgDrain and Dtls13ProcessBufferedMessages: the items at the head   *)
(* that are complete and next in order, processed and deleted.             *)
(***************************************************************************)
\* The number of the item is not compared.
ReadyDrainable(items, exp) ==
    Max({k \in 0 .. Len(items) : \A i \in 1 .. k : items[i].ready})

Drainable(items, exp) ==
    Max({k \in 0 .. Len(items) :
           \A i \in 1 .. k : items[i].seq = exp + i - 1 /\ items[i].ready})

Drain(items, exp, done) ==
    LET k == Drainable(items, exp)
    IN  /\ delivered' = done \o [i \in 1 .. k |-> items[i].full]
        /\ expected' = exp + k
        /\ list' = SubSeq(items, k + 1, Len(items))

\* The bytes that have to be kept: a fragment may be refused only when it
\* would be one bucket too many.
Refusable(f) ==
    \E i \in IndexOf(list, f.seq) :
        /\ ~ list[i].ready
        /\ Len(list[i].buckets) >= DTLS_FRAG_POOL_SZ
        /\ \A j \in 1 .. Len(list[i].buckets) :
              \/ EndOf(f) < list[i].buckets[j].off
              \/ f.off > list[i].buckets[j].off + list[i].buckets[j].sz

NoteArrival(f) ==
    got' = IF Refusable(f) THEN got
           ELSE [got EXCEPT ![f.seq] = @ \cup {f.off + k : k \in 0 .. f.sz - 1}]

-----------------------------------------------------------------------------
\* A message in order and whole, processed without being stored.
ProcessDirectly(f) ==
    /\ Drain(list, expected + 1, Append(delivered, Data(f)))
    /\ UNCHANGED <<got, dead>>

PoolFull == Len(list) >= DTLS_POOL_SZ

Fail == dead' = TRUE /\ UNCHANGED <<expected, list, delivered, got>>

(***************************************************************************)
(* DoDtlsHandShakeMsg, DTLS 1.2: out of order, already processed, in order *)
(* but a fragment, in order and whole.  An out-of-order message is stored  *)
(* without looking at the head.                                            *)
(***************************************************************************)
StoreOutOfOrder(f) ==
    \/ PoolFull /\ Fail
    \/ /\ ~ PoolFull
       /\ list' = DtlsMsgStore(list, f)
       /\ NoteArrival(f)
       /\ UNCHANGED <<expected, delivered, dead>>

\* The completed message waits for another one to drain it.
UndrainedStoreInOrder(f) == StoreOutOfOrder(f)

StoreInOrder(f) ==
    \/ PoolFull /\ Fail
    \/ /\ ~ PoolFull
       /\ \E stored \in {DtlsMsgStore(list, f)} :
             IF Head(stored).ready
             THEN Drain(stored, expected, delivered)
             ELSE list' = stored /\ UNCHANGED <<expected, delivered>>
       /\ NoteArrival(f)
       /\ UNCHANGED dead

DoDtlsHandShakeMsg(f) ==
    /\ ~ dtls13
    /\ \/ f.seq > expected /\ StoreOutOfOrder(f)
       \/ f.seq = expected /\ ~ Whole(f) /\ StoreInOrder(f)
       \/ f.seq = expected /\ Whole(f) /\ ProcessDirectly(f)

(***************************************************************************)
(* _Dtls13HandshakeRecv: anything incomplete or out of order is stored,    *)
(* then the head is processed if it is next (Dtls13NextMessageComplete).   *)
(***************************************************************************)
Dtls13HandshakeRecv(f) ==
    /\ dtls13
    /\ \/ /\ f.seq > expected \/ (f.seq = expected /\ ~ Whole(f))
          /\ \/ PoolFull /\ Fail
             \/ /\ ~ PoolFull
                /\ \E stored \in {DtlsMsgStore(list, f)} :
                      Drain(stored, expected, delivered)
                /\ NoteArrival(f)
                /\ UNCHANGED dead
       \/ /\ f.seq = expected /\ Whole(f)
          /\ ProcessDirectly(f)

(***************************************************************************)
(* Dtls13RecordRecvd: the record goes on the ACK list before the fragment  *)
(* is handled, so a fragment that DtlsMsgSet then refuses is acknowledged  *)
(* too.  Only kept for a peer that cuts a message the same way every time, *)
(* for the fairness below.                                                 *)
(***************************************************************************)
Dtls13RecordRecvd(f) ==
    acked' = IF dtls13 /\ ~ mixed THEN acked \cup {f} ELSE acked

Arrive(f) ==
    /\ ~ dead
    /\ Sendable(f)
    /\ f.seq >= expected            \* an older message is ignored
    /\ Dtls13RecordRecvd(f)
    /\ DoDtlsHandShakeMsg(f) \/ Dtls13HandshakeRecv(f)
    /\ UNCHANGED peer

Next == \E f \in AnyFragment : Arrive(f)

\* A peer that cuts its messages the same way every time repeats its flight
\* until it is answered, with DTLS 1.3 only what is not acknowledged yet, and
\* the network does not lose every copy of a fragment.
Fairness == \A f \in AnyFragment : WF_vars(~ mixed /\ f \notin acked /\ Arrive(f))

Spec == Init /\ [][Next]_vars /\ Fairness

-----------------------------------------------------------------------------
(***************************************************************************)
(* What reaches the handshake is exactly the peer's messages: in order,    *)
(* each once, every byte in its place, whatever overlaps and repetitions   *)
(* the fragments arrived with.                                             *)
(***************************************************************************)
DeliveredExact ==
    /\ Len(delivered) = expected - 1
    /\ \A m \in 1 .. Len(delivered) : delivered[m] = Bytes(m, 0, LengthOf[m])

(***************************************************************************)
(* The list has at most DTLS_POOL_SZ items.  An item that is ready has the *)
(* whole message.  The buckets of one that is not are in order with a gap  *)
(* between any two, within the message and at most DTLS_FRAG_POOL_SZ, and  *)
(* each holds the bytes of the message at its offset.                      *)
(***************************************************************************)
BucketsExact ==
    /\ Len(list) <= DTLS_POOL_SZ
    /\ \A i \in 1 .. Len(list) :
        LET item == list[i]
            b    == item.buckets
        IN  IF item.ready
            THEN item.full = Bytes(item.seq, 0, LengthOf[item.seq])
            ELSE /\ Len(b) <= DTLS_FRAG_POOL_SZ
                 /\ \A j \in 1 .. Len(b) :
                      /\ b[j].buf = Bytes(item.seq, b[j].off, b[j].off + b[j].sz)
                      /\ b[j].off + b[j].sz <= LengthOf[item.seq]
                      /\ j < Len(b) => b[j].off + b[j].sz < b[j + 1].off

\* The bytes of its message that an item holds.
Held(item) ==
    IF item.ready THEN 0 .. LengthOf[item.seq] - 1
    ELSE UNION {b.off .. b.off + b.sz - 1 : b \in Range(item.buckets)}

(***************************************************************************)
(* bytesReceived is the number of bytes the buckets hold, however they     *)
(* were merged, and an item that is not complete has fewer than its        *)
(* message: the "Major error" of DtlsMsgAssembleCompleteMessage cannot     *)
(* happen, and no message waits with all its bytes there.                  *)
(***************************************************************************)
ReceivedExact ==
    \A i \in 1 .. Len(list) : ~ list[i].ready =>
        /\ list[i].received = Cardinality(Held(list[i]))
        /\ list[i].received < LengthOf[list[i].seq]

(***************************************************************************)
(* A fragment that arrived is never lost again, and none is dropped that   *)
(* could have been stored: an item holds every byte that arrived for its   *)
(* message, unless it came in a fragment that touches no bucket while the  *)
(* buckets were used up.                                                   *)
(***************************************************************************)
NothingLost == \A i \in 1 .. Len(list) : Held(list[i]) = got[list[i].seq]

(***************************************************************************)
(* The handlers look only at the head of the list.  That is enough with a  *)
(* peer that cuts a message the same way every time: if the next message   *)
(* is in the list at all it is the head.                                   *)
(***************************************************************************)
NextIsHead ==
    \A i \in 1 .. Len(list) : list[i].seq = expected => i = 1

NextIsHeadUnlessMixed == ~ mixed => NextIsHead

(***************************************************************************)
(* With such a peer the handshake gets all its messages in the end: no     *)
(* arrangement of buckets, however fragments were refused and merged,      *)
(* leaves a message that is never completed, and none is completed and     *)
(* then left in the list.  The exceptions are a list that overflows with   *)
(* messages that cannot be processed yet, and, with DTLS 1.3, a fragment   *)
(* that was acknowledged but refused ("the data is just dropped"), so that *)
(* the peer need not send it again.                                        *)
(***************************************************************************)
Overflowed == dead /\ Drainable(list, expected) = 0

AckedButDropped ==
    \E f \in acked : f.seq >= expected /\ ~ (f.off .. EndOf(f) - 1 \subseteq got[f.seq])

AllDelivered ==
    <>[](mixed \/ expected = LastMessage + 1 \/ Overflowed \/ AckedButDropped)
=============================================================================
