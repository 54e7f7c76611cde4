----------------------- MODULE Dtls13KeyUpdateProofs -----------------------
(***************************************************************************)
(* Proofs about Dtls13KeyUpdate, for every size of the tables, every limit *)
(* and any number of messages, losses and retransmissions.                 *)
(*                                                                         *)
(* The inductive invariant has a part about each endpoint (its epoch       *)
(* table, its buffer of records to retransmit) and a part about each       *)
(* direction (the sender, the receiver and the records in flight).  Both   *)
(* are predicates of an endpoint's state and a set of records, so that     *)
(* they can be shown of every intermediate state of a call: each step of a *)
(* handler preserves them.                                                 *)
(***************************************************************************)
EXTENDS Dtls13KeyUpdate, FiniteSetTheorems, NaturalsInduction,
        WellFoundedInduction, TLAPS

-----------------------------------------------------------------------------
(***************************************************************************)
(* Types.                                                                  *)
(***************************************************************************)
Number == Nat \X Nat            \* an epoch and a record's number in it
Table == UNION {[D -> Slot] : D \in SUBSET Nat}
Errors == {"none", "decrypt", "state", "limit", "timeout"}

Seen == {S \in SUBSET Number :
            IsFiniteSet(S) /\ Cardinality(S) <= ACK_MAX_RECORDS}

State == [epoch : Nat, peerEpoch : Nat, slots : Table, enc : Nat, key : Nat,
          wait : BOOLEAN, req : BOOLEAN, num : Nat, expected : Nat,
          stored : SUBSET Message, rtx : Seq(RtxRecord),
          seen : Seen, recent : BOOLEAN, fast : BOOLEAN,
          timeouts : Nat, invalidate : Nat, err : Errors]

HandshakeRec == [from : Peer, epoch : Nat, key : Nat, type : {"handshake"},
                 body : [seq : Nat, msg : Message]]
AckRec == [from : Peer, epoch : Nat, key : Nat, type : {"ack"},
           body : SUBSET Number]
DataRec == [from : Peer, epoch : Nat, key : Nat, type : {"data"}, body : {{}}]
Rec == HandshakeRec \cup AckRec \cup DataRec

Works == [s : State, out : SUBSET Rec, sendAcks : BOOLEAN,
          retransmit : BOOLEAN, doKeyUpdate : BOOLEAN]

-----------------------------------------------------------------------------
(***************************************************************************)
(* One endpoint.                                                           *)
(***************************************************************************)
IsLive(s) == s.err \in {"none", "decrypt"}

\* The epoch table has room, and holds the epochs in use for their sides.
TableInv(s) ==
    /\ IsFiniteSet(DOMAIN s.slots)
    /\ Cardinality(DOMAIN s.slots) <= EPOCH_SIZE
    /\ s.epoch >= TRAFFIC0 /\ s.peerEpoch >= TRAFFIC0 /\ s.enc >= TRAFFIC0
    /\ {s.epoch, s.peerEpoch, s.enc} \subseteq DOMAIN s.slots
    /\ s.slots[s.epoch].own /\ s.slots[s.epoch].side # Dec
    /\ s.slots[s.peerEpoch].side # Enc
    /\ s.key = Wiped \/ s.key \in TRAFFIC0 .. s.epoch

\* Which slots hold write keys, and which can be used to read or write.
SlotsInv(s) ==
    /\ \A e \in DOMAIN s.slots :
         /\ s.slots[e].side # Enc => e <= s.peerEpoch
         /\ s.slots[e].own => e <= s.epoch
         /\ ~ s.slots[e].own => e > TRAFFIC0
         /\ ~ s.slots[e].own /\ s.slots[e].side # Dec => e < s.peerEpoch
    /\ s.epoch = TRAFFIC0 + 2 =>
         IF TRAFFIC0 + 1 \in DOMAIN s.slots THEN s.slots[TRAFFIC0 + 1].own
         ELSE s.peerEpoch > TRAFFIC0

\* The encrypt pointer points to a slot for writing, whose keys are loaded.
KeysMatch(s) == /\ s.slots[s.enc].side # Dec
                /\ s.key = IF s.slots[s.enc].own THEN s.enc ELSE Wiped

\* The buffer of records to retransmit.
RtxInv(s) ==
    /\ \A i \in 1 .. Len(s.rtx) :
         LET r == s.rtx[i]
         IN  /\ r.epoch \in TRAFFIC0 .. s.epoch
             /\ r.msg.kind = "key_update" => s.wait /\ r.epoch = s.epoch
             /\ r.msg.num < s.num
             /\ r.seqs # {} /\ IsFiniteSet(r.seqs)
             /\ Cardinality(r.seqs) <= RETRANS_RN_SIZE
             /\ r.epoch \in DOMAIN s.slots /\ s.slots[r.epoch].own =>
                  \A seq \in r.seqs : seq < s.slots[r.epoch].next
    /\ \A i, j \in 1 .. Len(s.rtx) :
         \/ i = j
         \/ /\ s.rtx[i].msg.num # s.rtx[j].msg.num
            /\ \/ s.rtx[i].msg.kind # "key_update"
               \/ s.rtx[j].msg.kind # "key_update"
    /\ s.wait => HasKeyUpdateBuffered(s) /\ s.epoch < EPOCH_MAX
    /\ s.epoch <= EPOCH_MAX

Local(s) == s \in State /\ TableInv(s) /\ SlotsInv(s) /\ RtxInv(s)

\* A call stops with BAD_STATE_E only at a record whose slot was reused.
Evicted(s) == \E i \in 1 .. Len(s.rtx) :
                 /\ s.rtx[i].epoch < s.epoch
                 /\ s.rtx[i].epoch \in DOMAIN s.slots =>
                      s.slots[s.rtx[i].epoch].side = Dec

\* Between calls: what a live endpoint finds when the next one starts.
AtRest(s) == /\ IsLive(s) => KeysMatch(s)
             /\ s.err = "state" => Evicted(s)
             /\ s.timeouts <= TIMEOUTS

-----------------------------------------------------------------------------
(***************************************************************************)
(* One direction: s is the sender p's state, q the receiver's, N the       *)
(* records in flight and A the record numbers the receiver has             *)
(* acknowledged or will.                                                   *)
(***************************************************************************)
Handshakes(p, N) == {rec \in N : rec.from = p /\ rec.type = "handshake"}

\* Handshake records the receiver can decrypt.
Keyed(p, N) == {rec \in Handshakes(p, N) : rec.key = rec.epoch}

AckedNumbers(p, N) ==
    UNION {rec.body : rec \in {x \in N : x.from = Other(p) /\ x.type = "ack"}}

Got(q, num) == num < q.expected \/ \E m \in q.stored : m.num = num

Buffered(s, m) == \E i \in 1 .. Len(s.rtx) : s.rtx[i].msg = m

\* Records name an epoch of the sender, with its keys, under a used number.
SentInv(p, s, N) ==
    /\ \A rec \in N : rec.from = p =>
         /\ rec.epoch <= s.epoch
         /\ \/ rec.key = rec.epoch
            \/ /\ rec.key = Wiped /\ rec.type = "handshake"
               /\ rec.epoch < s.epoch
    /\ \A rec \in Handshakes(p, N) : rec.body.msg.num < s.num
    /\ \A rec \in Keyed(p, N) :
         rec.epoch \in DOMAIN s.slots /\ s.slots[rec.epoch].own =>
            rec.body.seq < s.slots[rec.epoch].next

\* So do acknowledgements.
AckInv(s, A) ==
    \A a \in A :
        /\ a[1] <= s.epoch
        /\ a[1] \in DOMAIN s.slots /\ s.slots[a[1]].own =>
             a[2] < s.slots[a[1]].next

\* One of the numbers a buffered record was sent under is acknowledged.
IsTracked(r, acked) == \E seq \in r.seqs : <<r.epoch, seq>> \in acked

\* Buffered records whose numbers have not been used for another record.
Unique(s, r) == r.epoch = s.epoch \/ NumbersUnique(s)

\* A record in flight under a number of a buffered one carries its message.
NumberInv(p, s, N) ==
    \A i \in 1 .. Len(s.rtx) : Unique(s, s.rtx[i]) =>
        \A rec \in Keyed(p, N) :
            rec.epoch = s.rtx[i].epoch /\ rec.body.seq \in s.rtx[i].seqs =>
                rec.body.msg = s.rtx[i].msg

\* What is acknowledged has arrived.
ArrivedInv(s, q, A) ==
    \A i \in 1 .. Len(s.rtx) : Unique(s, s.rtx[i]) =>
        (IsTracked(s.rtx[i], A) => Got(q, s.rtx[i].msg.num))

\* A number stands for one message.
MeaningInv(p, s, q, N) ==
    LET M == q.stored \cup {rec.body.msg : rec \in Handshakes(p, N)}
    IN  /\ \A m, n \in M : m.num = n.num => m = n
        /\ \A m \in M : \A i \in 1 .. Len(s.rtx) :
             m.num = s.rtx[i].msg.num => m = s.rtx[i].msg

\* A KeyUpdate in flight that has not arrived is the one that is buffered.
UpdateInv(p, s, q, N) ==
    \A rec \in Keyed(p, N) : rec.body.msg.kind = "key_update" =>
        Got(q, rec.body.msg.num) \/ Buffered(s, rec.body.msg)

\* The receiver has got no message that was not sent.
OrderInv(s, q) ==
    /\ q.expected <= s.num
    /\ IsFiniteSet(q.stored)
    /\ \A m \in q.stored : q.expected <= m.num /\ m.num < s.num

\* The messages before from have been applied to the receiver's read epoch; it
\* knows of the epochs of stored KeyUpdates as well.
KnownFrom(q, from) == q.peerEpoch + Cardinality(StoredUpdates(q, from))

\* The receiver knows of one epoch more than the sender uses exactly while
\* the sender waits for the acknowledgement of a KeyUpdate that has arrived.
EpochInv(s, q, from) ==
    /\ from <= s.num
    /\ KnownFrom(q, from) \in {s.epoch, s.epoch + 1}
    /\ ~ s.wait => KnownFrom(q, from) = s.epoch
    /\ \A i \in 1 .. Len(s.rtx) : s.rtx[i].msg.kind = "key_update" =>
         IF \/ s.rtx[i].msg.num < from
            \/ \E m \in q.stored : m.num = s.rtx[i].msg.num
         THEN KnownFrom(q, from) = s.epoch + 1
         ELSE KnownFrom(q, from) = s.epoch

\* The epoch before the newest is readable until the sender has left it.
ReadableInv(s, q) == s.epoch < q.peerEpoch => CanDecrypt(q, q.peerEpoch - 1)

\* Every message has arrived or is buffered.
KeptInv(s, q) ==
    NumbersUnique(s) => \A n \in 0 .. s.num - 1 :
        Got(q, n) \/ \E i \in 1 .. Len(s.rtx) : s.rtx[i].msg.num = n

Direction(p, s, q, from, N, A) ==
    /\ SentInv(p, s, N) /\ AckInv(s, A) /\ NumberInv(p, s, N)
    /\ ArrivedInv(s, q, A) /\ MeaningInv(p, s, q, N) /\ UpdateInv(p, s, q, N)
    /\ OrderInv(s, q) /\ EpochInv(s, q, from) /\ ReadableInv(s, q)
    /\ KeptInv(s, q)

\* Between calls: messages are applied and counted, except that a call may
\* have failed while it answered one.
Between(p, s, q, N, A) ==
    \/ NextStored(q) = {} /\ Direction(p, s, q, q.expected, N, A)
    \/ ~ IsLive(q) /\ Direction(p, s, q, q.expected + 1, N, A)

\* A dead endpoint does not acknowledge any more.
WillAck(q) == IF IsLive(q) THEN q.seen ELSE {}

\* An endpoint's own state, and the direction in which it sends.
PairInv(p, s, q, N) ==
    /\ Local(s) /\ AtRest(s)
    /\ Between(p, s, q, N, WillAck(q) \cup AckedNumbers(p, N))

\* The inductive invariant.
IndInv ==
    /\ DOMAIN peer = Peer /\ net \subseteq Rec /\ lost \in 0 .. LOSSES
    /\ \A p \in Peer : PairInv(p, peer[p], peer[Other(p)], net)
-----------------------------------------------------------------------------
(***************************************************************************)
(* Records and tables.                                                     *)
(***************************************************************************)

\* An epoch table is a function from epoch numbers to slots.
LEMMA TableIs ==
    ASSUME NEW f
    PROVE  /\ f \in Table => /\ f = [x \in DOMAIN f |-> f[x]]
                             /\ DOMAIN f \subseteq Nat
                             /\ \A x \in DOMAIN f : f[x] \in Slot
           /\ \A D \in SUBSET Nat : f \in [D -> Slot] => f \in Table
BY DEF Table

\* The list of numbers to acknowledge: empty, and after one number more.
LEMMA SeenIs ==
    /\ {} \in Seen
    /\ \A S \in Seen : \A number \in Number : RtxAddAck(S, number) \in Seen
<1>1. {} \in Seen
  BY FS_EmptySet, KeyUpdateAssumption DEF Seen
<1>2. ASSUME NEW S \in Seen, NEW number \in Number
      PROVE  RtxAddAck(S, number) \in Seen
  <2>1. /\ S \subseteq Number /\ IsFiniteSet(S) /\ Cardinality(S) \in Nat
        /\ Cardinality(S) <= ACK_MAX_RECORDS /\ ACK_MAX_RECORDS \in Nat
    BY FS_CardinalityType, KeyUpdateAssumption DEF Seen
  <2>2. /\ IsFiniteSet(S \cup {number})
        /\ Cardinality(S \cup {number})
             = IF number \in S THEN Cardinality(S) ELSE Cardinality(S) + 1
    BY <2>1, FS_AddElement
  <2>3. CASE Cardinality(S) >= ACK_MAX_RECORDS
    BY <2>3 DEF RtxAddAck
  <2>4. CASE ~(Cardinality(S) >= ACK_MAX_RECORDS)
    <3>1. /\ Cardinality(S \cup {number}) <= ACK_MAX_RECORDS
          /\ S \cup {number} \subseteq Number
      BY <2>1, <2>2, <2>4
    <3> QED
      BY <2>2, <2>4, <3>1 DEF RtxAddAck, Seen
  <2> QED
    BY <2>3, <2>4
<1> QED
  BY <1>1, <1>2

\* The fields of a state.
LEMMA StateFields ==
    ASSUME NEW s \in State
    PROVE  /\ s.epoch \in Nat /\ s.peerEpoch \in Nat /\ s.enc \in Nat
           /\ s.key \in Nat /\ s.num \in Nat /\ s.expected \in Nat
           /\ s.slots \in Table /\ s.stored \subseteq Message
           /\ s.rtx \in Seq(RtxRecord) /\ s.seen \subseteq Number
           /\ s.wait \in BOOLEAN /\ s.err \in Errors
           /\ IsFiniteSet(s.seen) /\ Cardinality(s.seen) <= ACK_MAX_RECORDS
           /\ DOMAIN s.slots \subseteq Nat
           /\ \A e \in DOMAIN s.slots :
                /\ s.slots[e] \in Slot /\ s.slots[e].own \in BOOLEAN
                /\ s.slots[e].next \in Nat
                /\ s.slots[e].side \in {Enc, Dec, Both}
           /\ Len(s.rtx) \in Nat
           /\ \A i \in 1 .. Len(s.rtx) :
                /\ s.rtx[i] \in RtxRecord /\ s.rtx[i].epoch \in Nat
                /\ s.rtx[i].seqs \subseteq Nat
                /\ s.rtx[i].msg \in Message /\ s.rtx[i].msg.num \in Nat
<1>1. /\ s.epoch \in Nat /\ s.peerEpoch \in Nat /\ s.enc \in Nat
      /\ s.key \in Nat /\ s.num \in Nat /\ s.expected \in Nat
      /\ s.slots \in Table /\ s.stored \subseteq Message
      /\ s.rtx \in Seq(RtxRecord) /\ s.seen \in Seen
      /\ s.wait \in BOOLEAN /\ s.err \in Errors
  BY DEF State
<1>6. /\ s.seen \subseteq Number /\ IsFiniteSet(s.seen)
      /\ Cardinality(s.seen) <= ACK_MAX_RECORDS
  BY <1>1 DEF Seen
<1>2. DOMAIN s.slots \subseteq Nat /\ \A e \in DOMAIN s.slots : s.slots[e] \in Slot
  BY <1>1, TableIs
<1>3. \A x \in Slot : x.own \in BOOLEAN /\ x.next \in Nat /\ x.side \in {Enc, Dec, Both}
  BY DEF Slot
<1>4. Len(s.rtx) \in Nat /\ \A i \in 1 .. Len(s.rtx) : s.rtx[i] \in RtxRecord
  BY <1>1
<1>5. \A r \in RtxRecord : /\ r.epoch \in Nat /\ r.seqs \subseteq Nat
                           /\ r.msg \in Message /\ r.msg.num \in Nat
  BY DEF RtxRecord, Message
<1> QED
  BY <1>1, <1>2, <1>3, <1>4, <1>5, <1>6

\* Loading keys changes the encrypt pointer and the keys, or fails.
LEMMA EncryptWithIs ==
    ASSUME NEW w \in Works, NEW e \in Nat
    PROVE  LET v == EncryptWith(w, e)
           IN  \/ w.s.enc = e /\ v = w
               \/ /\ w.s.enc # e
                  /\ e \in DOMAIN w.s.slots /\ w.s.slots[e].side # Dec
                  /\ v = [w EXCEPT !.s = [w.s EXCEPT
                            !.enc = e,
                            !.key = IF w.s.slots[e].own THEN e ELSE Wiped]]
               \/ /\ w.s.enc # e
                  /\ e \in DOMAIN w.s.slots => w.s.slots[e].side = Dec
                  /\ v = [w EXCEPT !.s = [w.s EXCEPT !.err = "state"]]
<1>0. w.s \in State
  BY DEF Works
<1>1. \A x \in DOMAIN w.s.slots : w.s.slots[x].side \in {Enc, Dec, Both}
  BY <1>0, StateFields
<1> QED
  BY <1>1 DEF EncryptWith, SetEpochKeys, Fail, Enc, Dec, Both

-----------------------------------------------------------------------------
(***************************************************************************)
(* A direction, when its sender takes a step.                              *)
(***************************************************************************)

\* A handshake record has a number and a message.
LEMMA HandshakeIs ==
    ASSUME NEW N, N \subseteq Rec, NEW p, NEW rec \in Handshakes(p, N)
    PROVE  /\ rec \in N /\ rec.from = p /\ rec.type = "handshake"
           /\ rec.epoch \in Nat /\ rec.key \in Nat /\ rec.body.seq \in Nat
           /\ rec.body.msg \in Message /\ rec.body.msg.num \in Nat
           /\ rec.body.msg.kind \in {"key_update", "ticket"}
<1>1. rec \in Rec /\ rec \in N /\ rec.from = p /\ rec.type = "handshake"
  BY DEF Handshakes
<1>2. rec \in HandshakeRec
  BY <1>1 DEF Rec, HandshakeRec, AckRec, DataRec
<1>3. rec.epoch \in Nat /\ rec.key \in Nat /\ rec.body \in [seq : Nat, msg : Message]
  BY <1>2 DEF HandshakeRec
<1>4. rec.body.seq \in Nat /\ rec.body.msg \in Message
  BY <1>3
<1>5. \A m \in Message : m.num \in Nat /\ m.kind \in {"key_update", "ticket"}
  BY DEF Message
<1> QED
  BY <1>1, <1>3, <1>4, <1>5

\* The slots that hold write keys keep them, and their numbers only grow.
SlotsKept(s, t) ==
    \A e \in DOMAIN t.slots : t.slots[e].own =>
        /\ e \in DOMAIN s.slots /\ s.slots[e].own
        /\ s.slots[e].next <= t.slots[e].next

\* A number is not below itself.
LEMMA NotBelowItself ==
    \A n \in Nat : ~(n < n)
OBVIOUS

\* Acknowledged numbers stay below the next ones when slots are kept.
LEMMA AcksKept ==
    ASSUME NEW s, NEW t, NEW A, AckInv(s, A), SlotsKept(s, t), t.epoch = s.epoch,
           \A a \in A : a[2] \in Nat,
           \A x \in DOMAIN s.slots : s.slots[x].next \in Nat,
           \A x \in DOMAIN t.slots : t.slots[x].next \in Nat
    PROVE  AckInv(t, A)
<1> SUFFICES ASSUME NEW a \in A
             PROVE  /\ a[1] <= t.epoch
                    /\ a[1] \in DOMAIN t.slots /\ t.slots[a[1]].own =>
                         a[2] < t.slots[a[1]].next
  BY DEF AckInv
<1>1. a[1] <= t.epoch
  BY DEF AckInv
<1>2. ASSUME a[1] \in DOMAIN t.slots, t.slots[a[1]].own
      PROVE  a[2] < t.slots[a[1]].next
  <2>1. /\ a[1] \in DOMAIN s.slots /\ s.slots[a[1]].own
        /\ s.slots[a[1]].next <= t.slots[a[1]].next
    BY <1>2 DEF SlotsKept
  <2>2. a[2] < s.slots[a[1]].next
    BY <2>1 DEF AckInv
  <2>3. /\ s.slots[a[1]].next \in Nat /\ t.slots[a[1]].next \in Nat
        /\ a[2] \in Nat
    BY <1>2, <2>1
  <2> QED
    BY <2>1, <2>2, <2>3
<1> QED
  BY <1>1, <1>2

\* Steps that send no handshake message and take no acknowledgement.
LEMMA SenderQuiet ==
    ASSUME NEW p, NEW s \in State, NEW t \in State, NEW q, NEW from,
           NEW N, N \subseteq Rec, NEW A, A \subseteq Number,
           t.epoch = s.epoch, t.rtx = s.rtx, t.num = s.num, t.wait = s.wait,
           s.peerEpoch <= t.peerEpoch, SlotsKept(s, t),
           Direction(p, s, q, from, N, A)
    PROVE  Direction(p, t, q, from, N, A)
<1>0. /\ \A e \in DOMAIN s.slots : s.slots[e].next \in Nat
      /\ \A e \in DOMAIN t.slots : t.slots[e].next \in Nat
      /\ t.peerEpoch \in Nat /\ s.peerEpoch \in Nat
  BY StateFields
<1>1. SentInv(p, t, N)
  <2>1. \A rec \in Keyed(p, N) : rec.body.seq \in Nat
    BY HandshakeIs DEF Keyed
  <2>2. SentInv(p, s, N)
    BY DEF Direction
  <2> QED
    BY <1>0, <2>1, <2>2 DEF SentInv, SlotsKept
<1>2. AckInv(t, A)
  <2>1. AckInv(s, A)
    BY DEF Direction
  <2>2. \A a \in A : a[2] \in Nat
    BY DEF Number
  <2> QED
    BY <1>0, <2>1, <2>2 DEF AckInv, SlotsKept
<1>3. \A r : Unique(t, r) => Unique(s, r)
  BY <1>0 DEF Unique, NumbersUnique, TRAFFIC0
<1>4. NumberInv(p, t, N) /\ ArrivedInv(t, q, A)
  BY <1>3 DEF Direction, NumberInv, ArrivedInv
<1>5. MeaningInv(p, t, q, N) /\ UpdateInv(p, t, q, N) /\ OrderInv(t, q)
  BY DEF Direction, MeaningInv, UpdateInv, OrderInv, Buffered
<1>6. EpochInv(t, q, from) /\ ReadableInv(t, q)
  BY DEF Direction, EpochInv, ReadableInv
<1>7. KeptInv(t, q)
  BY <1>0 DEF Direction, KeptInv, NumbersUnique, TRAFFIC0
<1> QED
  BY <1>1, <1>2, <1>4, <1>5, <1>6, <1>7 DEF Direction

\* Fewer records and fewer acknowledgements: a loss, or a delivery.
LEMMA DirectionLess ==
    ASSUME NEW p, NEW s, NEW q, NEW from, NEW N, NEW A, NEW M, NEW B,
           M \subseteq N, B \subseteq A, Direction(p, s, q, from, N, A)
    PROVE  Direction(p, s, q, from, M, B)
<1>1. Handshakes(p, M) \subseteq Handshakes(p, N) /\ Keyed(p, M) \subseteq Keyed(p, N)
  BY DEF Handshakes, Keyed
<1>2. SentInv(p, s, M) /\ AckInv(s, B)
  BY <1>1 DEF Direction, SentInv, AckInv
<1>3. NumberInv(p, s, M) /\ UpdateInv(p, s, q, M)
  BY <1>1 DEF Direction, NumberInv, UpdateInv
<1>4. ArrivedInv(s, q, B)
  BY DEF Direction, ArrivedInv, IsTracked
<1>5. MeaningInv(p, s, q, M)
  <2>1. {rec.body.msg : rec \in Handshakes(p, M)}
          \subseteq {rec.body.msg : rec \in Handshakes(p, N)}
    BY <1>1
  <2> QED
    BY <2>1 DEF Direction, MeaningInv
<1> QED
  BY <1>2, <1>3, <1>4, <1>5 DEF Direction

\* Sending an acknowledgement or application data.
LEMMA SenderSendsOther ==
    ASSUME NEW p, NEW s, NEW q, NEW from, NEW N, NEW A, NEW rec,
           rec.from = p => /\ rec.type # "handshake"
                           /\ rec.key = rec.epoch /\ rec.epoch <= s.epoch,
           Direction(p, s, q, from, N, A)
    PROVE  Direction(p, s, q, from, N \cup {rec}, A)
<1>1. Handshakes(p, N \cup {rec}) = Handshakes(p, N)
  BY DEF Handshakes
<1>2. Keyed(p, N \cup {rec}) = Keyed(p, N)
  BY <1>1 DEF Keyed
<1>3. SentInv(p, s, N \cup {rec})
  BY <1>1, <1>2 DEF Direction, SentInv
<1> QED
  BY <1>1, <1>2, <1>3 DEF Direction, NumberInv, MeaningInv, UpdateInv

\* Sending a new handshake message under the next number of the newest epoch.
LEMMA SenderSends ==
    ASSUME NEW p, NEW s \in State, NEW t \in State, NEW q, NEW from \in Nat,
           NEW N, N \subseteq Rec, NEW A, A \subseteq Number,
           NEW m \in Message, NEW r \in RtxRecord, NEW rec \in Rec,
           Local(s), Direction(p, s, q, from, N, A),
           q.expected \in Nat, q.stored \subseteq Message,
           t.epoch = s.epoch, t.peerEpoch = s.peerEpoch,
           t.rtx = Append(s.rtx, r), t.num = s.num + 1,
           t.wait = (s.wait \/ m.kind = "key_update"),
           DOMAIN t.slots = DOMAIN s.slots,
           \A e \in DOMAIN s.slots :
              /\ t.slots[e].own = s.slots[e].own
              /\ t.slots[e].next = IF e = s.epoch THEN s.slots[e].next + 1
                                   ELSE s.slots[e].next,
           m.num = s.num, m.kind = "key_update" => ~ s.wait,
           r.msg = m, r.epoch = s.epoch, r.seqs = {s.slots[s.epoch].next},
           rec.from = p, rec.epoch = s.epoch, rec.key = s.epoch,
           rec.type = "handshake", rec.body.msg = m,
           rec.body.seq = s.slots[s.epoch].next
    PROVE  Direction(p, t, q, from, N \cup {rec}, A)
<1> DEFINE e == s.epoch
           n == Len(s.rtx)
<1>0. /\ e \in Nat /\ s.num \in Nat /\ n \in Nat
      /\ e \in DOMAIN s.slots /\ s.slots[e].own
      /\ \A x \in DOMAIN s.slots : s.slots[x].next \in Nat
      /\ \A i \in 1 .. n : /\ s.rtx[i].epoch \in Nat /\ s.rtx[i].msg.num \in Nat
                           /\ s.rtx[i].seqs \subseteq Nat
  BY StateFields DEF Local, TableInv
<1>1. /\ Len(t.rtx) = n + 1 /\ t.rtx[n + 1] = r
      /\ \A i \in 1 .. n : t.rtx[i] = s.rtx[i]
  <2>1. s.rtx \in Seq(RtxRecord)
    BY StateFields
  <2> QED
    BY <2>1
<1>2. Handshakes(p, N \cup {rec}) = Handshakes(p, N) \cup {rec}
  BY DEF Handshakes
<1>3. Keyed(p, N \cup {rec}) = Keyed(p, N) \cup {rec}
  <2>1. \A x \in Keyed(p, N \cup {rec}) : x \in Keyed(p, N) \/ x = rec
    BY <1>2 DEF Keyed
  <2>2. \A x \in Keyed(p, N) : x \in Keyed(p, N \cup {rec})
    BY <1>2 DEF Keyed
  <2>3. rec \in Keyed(p, N \cup {rec})
    BY <1>2 DEF Keyed
  <2> QED
    BY <2>1, <2>2, <2>3
<1>4. \A x \in Handshakes(p, N) : /\ x.epoch \in Nat /\ x.body.seq \in Nat
                                  /\ x.body.msg \in Message
                                  /\ x.body.msg.num \in Nat
  BY HandshakeIs
<1>5. Keyed(p, N) \subseteq Handshakes(p, N) /\ Handshakes(p, N) \subseteq N
  BY DEF Keyed, Handshakes
<1>6. SentInv(p, s, N) /\ AckInv(s, A)
  BY DEF Direction
<1>7. \A x \in Keyed(p, N) : x.epoch = e => x.body.seq < s.slots[e].next
  BY <1>0, <1>6 DEF SentInv
<1>8. \A i \in 1 .. n : s.rtx[i].epoch = e =>
        \A seq \in s.rtx[i].seqs : seq < s.slots[e].next
  BY <1>0 DEF Local, RtxInv
<1>9. \A a \in A : a[1] = e => a[2] \in Nat /\ a[2] < s.slots[e].next
  BY <1>0, <1>6 DEF AckInv, Number
<1>10. \A x \in RtxRecord : Unique(t, x) = Unique(s, x)
  BY DEF Unique, NumbersUnique
<1>20. SlotsKept(s, t) /\ \A x \in DOMAIN t.slots : t.slots[x].next \in Nat
  <2>1. \A x \in DOMAIN t.slots : t.slots[x].own => s.slots[x].own
    BY StateFields
  <2>2. \A x \in DOMAIN t.slots : /\ s.slots[x].next <= t.slots[x].next
                                   /\ t.slots[x].next \in Nat
    BY <1>0
  <2> QED
    BY <2>1, <2>2 DEF SlotsKept
<1>11. SentInv(p, t, N \cup {rec})
  <2>1. \A x \in N \cup {rec} : x.from = p =>
          /\ x.epoch <= t.epoch
          /\ \/ x.key = x.epoch
             \/ x.key = Wiped /\ x.type = "handshake" /\ x.epoch < t.epoch
    BY <1>0, <1>6 DEF SentInv
  <2>2. \A x \in Handshakes(p, N \cup {rec}) : x.body.msg.num < t.num
    BY <1>0, <1>2, <1>4, <1>6 DEF SentInv
  <2>3. \A x \in Keyed(p, N \cup {rec}) :
          x.epoch \in DOMAIN t.slots /\ t.slots[x.epoch].own =>
             x.body.seq < t.slots[x.epoch].next
    <3>1. \A x \in Keyed(p, N) :
             x.epoch \in DOMAIN s.slots /\ s.slots[x.epoch].own =>
                x.body.seq < s.slots[x.epoch].next
      BY <1>6 DEF SentInv
    <3>2. \A x \in Keyed(p, N) : x.body.seq \in Nat
      BY <1>4, <1>5
    <3>3. \A x \in Keyed(p, N) :
             x.epoch \in DOMAIN t.slots /\ t.slots[x.epoch].own =>
                x.body.seq < t.slots[x.epoch].next
      <4> SUFFICES ASSUME NEW x \in Keyed(p, N), x.epoch \in DOMAIN t.slots,
                          t.slots[x.epoch].own
                   PROVE  x.body.seq < t.slots[x.epoch].next
        OBVIOUS
      <4>1. /\ s.slots[x.epoch].own
            /\ s.slots[x.epoch].next <= t.slots[x.epoch].next
        BY <1>20 DEF SlotsKept
      <4>2. x.body.seq < s.slots[x.epoch].next
        BY <3>1, <4>1
      <4>3. s.slots[x.epoch].next \in Nat /\ t.slots[x.epoch].next \in Nat
        BY <1>0, <1>20
      <4> QED
        BY <3>2, <4>1, <4>2, <4>3
    <3>4. rec.body.seq < t.slots[rec.epoch].next
      BY <1>0
    <3> QED
      BY <1>3, <3>3, <3>4
  <2> QED
    BY <2>1, <2>2, <2>3 DEF SentInv
<1>12. AckInv(t, A)
  <2>1. \A a \in A : a[2] \in Nat
    BY DEF Number
  <2> QED
    BY <1>0, <1>6, <1>20, <2>1, AcksKept, Zenon
<1>13. NumberInv(p, t, N \cup {rec})
  <2> SUFFICES ASSUME NEW i \in 1 .. n + 1, Unique(t, t.rtx[i]),
                      NEW x \in Keyed(p, N \cup {rec}),
                      x.epoch = t.rtx[i].epoch, x.body.seq \in t.rtx[i].seqs
               PROVE  x.body.msg = t.rtx[i].msg
    BY <1>1 DEF NumberInv
  <2>1. CASE i \in 1 .. n /\ x \in Keyed(p, N)
    <3>1. t.rtx[i] = s.rtx[i] /\ s.rtx[i] \in RtxRecord
      BY <1>1, <2>1, StateFields
    <3>2. Unique(s, s.rtx[i])
      BY <1>10, <3>1
    <3> QED
      BY <2>1, <3>1, <3>2 DEF Direction, NumberInv
  <2>2. CASE i \in 1 .. n /\ x = rec
    BY <1>0, <1>1, <1>8, <2>2
  <2>3. CASE i = n + 1 /\ x \in Keyed(p, N)
    <3>1. x.body.seq \in Nat
      BY <1>4, <1>5, <2>3
    <3> QED
      BY <1>0, <1>1, <1>7, <2>3, <3>1
  <2>4. CASE i = n + 1 /\ x = rec
    BY <1>1, <2>4
  <2>5. i \in 1 .. n \/ i = n + 1
    BY <1>0
  <2> QED
    BY <1>3, <2>1, <2>2, <2>3, <2>4, <2>5
<1>14. ArrivedInv(t, q, A)
  <2> SUFFICES ASSUME NEW i \in 1 .. n + 1, Unique(t, t.rtx[i]),
                      IsTracked(t.rtx[i], A)
               PROVE  Got(q, t.rtx[i].msg.num)
    BY <1>1 DEF ArrivedInv
  <2>1. CASE i \in 1 .. n
    <3>1. t.rtx[i] = s.rtx[i] /\ s.rtx[i] \in RtxRecord
      BY <1>1, <2>1, StateFields
    <3>2. Unique(s, s.rtx[i])
      BY <1>10, <3>1
    <3> QED
      BY <2>1, <3>1, <3>2 DEF Direction, ArrivedInv
  <2>2. CASE i = n + 1
    <3>1. <<e, s.slots[e].next>> \in A
      BY <1>1, <2>2 DEF IsTracked
    <3> QED
      BY <1>0, <1>9, <3>1
  <2> QED
    BY <1>0, <2>1, <2>2
<1>15. \A x \in q.stored : x.num \in Nat /\ x.num < s.num
  BY DEF Direction, OrderInv, Message
<1>16. MeaningInv(p, t, q, N \cup {rec})
  <2> DEFINE M == q.stored \cup {x.body.msg : x \in Handshakes(p, N)}
             M2 == q.stored \cup {x.body.msg : x \in Handshakes(p, N \cup {rec})}
  <2>1. M2 = M \cup {m}
    <3>1. {x.body.msg : x \in Handshakes(p, N) \cup {rec}}
            = {x.body.msg : x \in Handshakes(p, N)} \cup {rec.body.msg}
      OBVIOUS
    <3> QED
      BY <1>2, <3>1
  <2>2. \A x \in M : x.num \in Nat /\ x.num < s.num
    BY <1>4, <1>6, <1>15 DEF SentInv
  <2>3. /\ \A x, y \in M : x.num = y.num => x = y
        /\ \A x \in M : \A i \in 1 .. n :
             x.num = s.rtx[i].msg.num => x = s.rtx[i].msg
    BY DEF Direction, MeaningInv
  <2>4. \A i \in 1 .. n : s.rtx[i].msg.num < s.num
    BY DEF Local, RtxInv
  <2> HIDE DEF M, M2
  <2>5. \A x, y \in M2 : x.num = y.num => x = y
    BY <1>0, <2>1, <2>2, <2>3
  <2>6. \A x \in M2 : \A i \in 1 .. n :
             x.num = t.rtx[i].msg.num => x = t.rtx[i].msg
    BY <1>0, <1>1, <2>1, <2>2, <2>3, <2>4
  <2>7. \A x \in M2 : x.num = t.rtx[n + 1].msg.num => x = t.rtx[n + 1].msg
    BY <1>0, <1>1, <2>1, <2>2
  <2>8. \A x \in M2 : \A i \in 1 .. Len(t.rtx) :
             x.num = t.rtx[i].msg.num => x = t.rtx[i].msg
    BY <1>0, <1>1, <2>6, <2>7
  <2> QED
    BY <2>5, <2>8 DEF MeaningInv, M2
<1>17. UpdateInv(p, t, q, N \cup {rec})
  <2>1. \A x : Buffered(s, x) => Buffered(t, x)
    BY <1>0, <1>1 DEF Buffered
  <2>2. Buffered(t, m)
    BY <1>0, <1>1 DEF Buffered
  <2> QED
    BY <1>3, <2>1, <2>2 DEF Direction, UpdateInv
<1>18. OrderInv(t, q)
  <2>1. q.expected <= s.num /\ IsFiniteSet(q.stored)
        /\ \A x \in q.stored : q.expected <= x.num
    BY DEF Direction, OrderInv
  <2> QED
    BY <1>0, <1>15, <2>1 DEF OrderInv
<1>19. EpochInv(t, q, from)
  <2>1. EpochInv(s, q, from)
    BY DEF Direction
  <2>2. from <= t.num
    BY <1>0, <2>1 DEF EpochInv
  <2>3. ~ s.wait => KnownFrom(q, from) = s.epoch
    BY <2>1 DEF EpochInv
  <2>4. CASE m.kind = "key_update"
    <3>1. \A i \in 1 .. n : s.rtx[i].msg.kind # "key_update"
      BY <2>4 DEF Local, RtxInv
    <3>2. ~ (m.num < from) /\ ~ \E x \in q.stored : x.num = m.num
      BY <1>0, <1>15, <2>1 DEF EpochInv
    <3>3. \A i \in 1 .. n + 1 : t.rtx[i].msg.kind = "key_update" => t.rtx[i].msg = m
      BY <1>0, <1>1, <3>1
    <3>4. KnownFrom(q, from) = t.epoch
      BY <2>3, <2>4
    <3> HIDE DEF n
    <3> QED
      BY <1>1, <2>2, <3>2, <3>3, <3>4 DEF EpochInv
  <2>5. CASE m.kind # "key_update"
    <3>1. \A i \in 1 .. n + 1 : t.rtx[i].msg.kind = "key_update" =>
              i \in 1 .. n /\ t.rtx[i] = s.rtx[i]
      BY <1>0, <1>1, <2>5
    <3>2. ~ t.wait => ~ s.wait
      OBVIOUS
    <3> QED
      BY <1>1, <2>1, <2>2, <3>1, <3>2 DEF EpochInv
  <2> QED
    BY <2>4, <2>5
<1>21. ReadableInv(t, q)
  BY DEF Direction, ReadableInv
<1>22. KeptInv(t, q)
  <2> SUFFICES ASSUME NumbersUnique(t), NEW k \in 0 .. t.num - 1
               PROVE  Got(q, k) \/ \E i \in 1 .. Len(t.rtx) : t.rtx[i].msg.num = k
    BY DEF KeptInv
  <2>1. CASE k = s.num
    <3>1. n + 1 \in 1 .. Len(t.rtx) /\ t.rtx[n + 1].msg.num = k
      BY <1>0, <1>1, <2>1
    <3> QED
      BY <3>1
  <2>2. CASE k \in 0 .. s.num - 1
    <3>1. Got(q, k) \/ \E i \in 1 .. n : s.rtx[i].msg.num = k
      BY <2>2 DEF Direction, KeptInv, NumbersUnique
    <3> QED
      BY <1>0, <1>1, <3>1
  <2> QED
    BY <1>0, <2>1, <2>2
<1> QED
  BY <1>11, <1>12, <1>13, <1>14, <1>16, <1>17, <1>18, <1>19, <1>21, <1>22
     DEF Direction

\* A buffered record that can be sent, and whose numbers are unique, is sent in
\* a slot that holds write keys.
LEMMA UniqueOwn ==
    ASSUME NEW s \in State, Local(s), NEW i \in 1 .. Len(s.rtx),
           Unique(s, s.rtx[i]), s.rtx[i].epoch \in DOMAIN s.slots,
           s.slots[s.rtx[i].epoch].side # Dec
    PROVE  s.slots[s.rtx[i].epoch].own
<1> DEFINE e == s.rtx[i].epoch
<1>0. /\ e \in Nat /\ s.epoch \in Nat /\ s.peerEpoch \in Nat
      /\ s.slots[e].own \in BOOLEAN /\ e <= s.epoch
  BY StateFields DEF Local, RtxInv
<1>1. CASE e = s.epoch
  BY <1>1 DEF Local, TableInv
<1>2. CASE e # s.epoch
  <2> SUFFICES ASSUME ~ s.slots[e].own  PROVE FALSE
    OBVIOUS
  <2>1. NumbersUnique(s)
    BY <1>2 DEF Unique
  <2>2. e > TRAFFIC0 /\ e < s.peerEpoch
    BY DEF Local, SlotsInv
  <2>3. s.epoch = TRAFFIC0 + 2 => e # TRAFFIC0 + 1
    BY DEF Local, SlotsInv
  <2> QED
    BY <1>0, <1>2, <2>1, <2>2, <2>3 DEF NumbersUnique, TRAFFIC0
<1> QED
  BY <1>1, <1>2

\* t is s after the record of s.rtx[k] was sent again as rec, in its epoch.
SentAgain(p, s, t, k, rec) ==
    LET e == s.rtx[k].epoch
    IN  /\ t.epoch = s.epoch /\ t.peerEpoch = s.peerEpoch
        /\ t.num = s.num /\ t.wait = s.wait /\ DOMAIN t.slots = DOMAIN s.slots
        /\ e \in DOMAIN s.slots /\ s.slots[e].side # Dec
        /\ \A x \in DOMAIN s.slots :
             /\ t.slots[x].own = s.slots[x].own
             /\ t.slots[x].next = IF x = e THEN s.slots[x].next + 1
                                  ELSE s.slots[x].next
        /\ Len(t.rtx) = Len(s.rtx)
        /\ \A i \in 1 .. Len(s.rtx) : i # k => t.rtx[i] = s.rtx[i]
        /\ t.rtx[k].msg = s.rtx[k].msg /\ t.rtx[k].epoch = e
        /\ t.rtx[k].seqs \subseteq s.rtx[k].seqs \cup {s.slots[e].next}
        /\ rec.from = p /\ rec.epoch = e /\ rec.type = "handshake"
        /\ rec.key = IF s.slots[e].own THEN e ELSE Wiped
        /\ rec.body.msg = s.rtx[k].msg /\ rec.body.seq = s.slots[e].next

\* Sending a buffered record again, in the epoch it was sent in.
LEMMA SenderResends ==
    ASSUME NEW p, NEW s \in State, NEW t \in State, NEW q, NEW from \in Nat,
           NEW N, N \subseteq Rec, NEW A, A \subseteq Number,
           NEW k \in 1 .. Len(s.rtx), NEW rec \in Rec,
           Local(s), Direction(p, s, q, from, N, A), SentAgain(p, s, t, k, rec)
    PROVE  Direction(p, t, q, from, N \cup {rec}, A)
<1> DEFINE e == s.rtx[k].epoch
           n == Len(s.rtx)
           next == s.slots[e].next
<1>a. /\ t.epoch = s.epoch /\ t.peerEpoch = s.peerEpoch
      /\ t.num = s.num /\ t.wait = s.wait /\ DOMAIN t.slots = DOMAIN s.slots
      /\ e \in DOMAIN s.slots /\ s.slots[e].side # Dec
  BY Zenon DEF SentAgain
<1>b. \A x \in DOMAIN s.slots :
         /\ t.slots[x].own = s.slots[x].own
         /\ t.slots[x].next = IF x = e THEN s.slots[x].next + 1
                              ELSE s.slots[x].next
  BY Zenon DEF SentAgain
<1>c. /\ Len(t.rtx) = n
      /\ \A i \in 1 .. n : i # k => t.rtx[i] = s.rtx[i]
      /\ t.rtx[k].msg = s.rtx[k].msg /\ t.rtx[k].epoch = e
      /\ t.rtx[k].seqs \subseteq s.rtx[k].seqs \cup {next}
  BY Zenon DEF SentAgain
<1>d. /\ rec.from = p /\ rec.epoch = e /\ rec.type = "handshake"
      /\ rec.key = IF s.slots[e].own THEN e ELSE Wiped
      /\ rec.body.msg = s.rtx[k].msg /\ rec.body.seq = next
  BY Zenon DEF SentAgain
<1>0. /\ e \in Nat /\ s.epoch \in Nat /\ s.num \in Nat /\ n \in Nat
      /\ e \in DOMAIN s.slots /\ e >= TRAFFIC0 /\ e <= s.epoch
      /\ \A x \in DOMAIN s.slots : s.slots[x].next \in Nat
                                   /\ s.slots[x].own \in BOOLEAN
      /\ \A i \in 1 .. n : /\ s.rtx[i].epoch \in Nat /\ s.rtx[i].msg.num \in Nat
                           /\ s.rtx[i].seqs \subseteq Nat
                           /\ s.rtx[i].msg.num < s.num
  <2>1. /\ s.rtx[k].epoch \in Nat /\ s.epoch \in Nat /\ s.num \in Nat
        /\ Len(s.rtx) \in Nat
        /\ \A x \in DOMAIN s.slots : s.slots[x].next \in Nat
                                     /\ s.slots[x].own \in BOOLEAN
        /\ \A i \in 1 .. Len(s.rtx) : /\ s.rtx[i].epoch \in Nat
                                       /\ s.rtx[i].msg.num \in Nat
                                       /\ s.rtx[i].seqs \subseteq Nat
    BY StateFields, Zenon
  <2>2. \A i \in 1 .. Len(s.rtx) : /\ s.rtx[i].epoch \in TRAFFIC0 .. s.epoch
                                   /\ s.rtx[i].msg.num < s.num
    BY Zenon DEF Local, RtxInv
  <2>3. s.rtx[k].epoch >= TRAFFIC0 /\ s.rtx[k].epoch <= s.epoch
    BY <2>1, <2>2 DEF TRAFFIC0
  <2> QED
    BY <1>a, <2>1, <2>2, <2>3, Zenon
<1>n. next \in Nat
  BY <1>0, Zenon
<1>1. \A i \in 1 .. n : t.rtx[i].msg = s.rtx[i].msg /\ t.rtx[i].epoch = s.rtx[i].epoch
  BY <1>c
<1>2. Handshakes(p, N \cup {rec}) = Handshakes(p, N) \cup {rec}
  BY <1>d DEF Handshakes
<1>3. /\ Keyed(p, N \cup {rec}) \subseteq Keyed(p, N) \cup {rec}
      /\ rec \in Keyed(p, N \cup {rec}) => s.slots[e].own
  <2>1. \A x \in Keyed(p, N \cup {rec}) : x \in Keyed(p, N) \/ x = rec
    BY <1>2 DEF Keyed
  <2>2. rec \in Keyed(p, N \cup {rec}) => rec.key = rec.epoch
    BY DEF Keyed
  <2>3. e # Wiped
    <3>1. e \in Nat /\ e >= TRAFFIC0
      BY <1>0, Zenon
    <3> HIDE DEF e
    <3> QED
      BY <3>1 DEF Wiped, TRAFFIC0
  <2>4. rec.key = rec.epoch => s.slots[e].own
    BY <1>d, <2>3
  <2> QED
    BY <2>1, <2>2, <2>4
<1>4. \A x \in Handshakes(p, N) : /\ x.epoch \in Nat /\ x.body.seq \in Nat
                                  /\ x.body.msg \in Message
                                  /\ x.body.msg.num \in Nat
  BY HandshakeIs
<1>5. Keyed(p, N) \subseteq Handshakes(p, N) /\ Handshakes(p, N) \subseteq N
  BY DEF Keyed, Handshakes
<1>6. SentInv(p, s, N) /\ AckInv(s, A)
  BY DEF Direction
<1>7. s.slots[e].own =>
        /\ \A x \in Keyed(p, N) : x.epoch = e => x.body.seq < next
        /\ \A i \in 1 .. n : s.rtx[i].epoch = e =>
              \A seq \in s.rtx[i].seqs : seq < next
        /\ \A a \in A : a[1] = e => a[2] < next
  <2>1. s.slots[e].own => \A x \in Keyed(p, N) : x.epoch = e => x.body.seq < next
    BY <1>a, <1>6 DEF SentInv
  <2>2. s.slots[e].own => \A i \in 1 .. n : s.rtx[i].epoch = e =>
              \A seq \in s.rtx[i].seqs : seq < next
    BY <1>a DEF Local, RtxInv
  <2>3. s.slots[e].own => \A a \in A : a[1] = e => a[2] < next
    BY <1>a, <1>6 DEF AckInv
  <2> QED
    BY <2>1, <2>2, <2>3
<1>8. Unique(s, s.rtx[k]) => s.slots[e].own
  BY <1>a, UniqueOwn
<1>9. \A i \in 1 .. n : Unique(t, t.rtx[i]) = Unique(s, s.rtx[i])
  BY <1>a, <1>1 DEF Unique, NumbersUnique
<1>10. SlotsKept(s, t) /\ \A x \in DOMAIN t.slots : t.slots[x].next \in Nat
  <2>1. \A x \in DOMAIN t.slots : t.slots[x].own => s.slots[x].own
    BY <1>a, <1>b
  <2>2. \A x \in DOMAIN t.slots : s.slots[x].next \in Nat
    BY <1>a, <1>0, Zenon
  <2>3. \A x \in DOMAIN t.slots : /\ s.slots[x].next <= t.slots[x].next
                                  /\ t.slots[x].next \in Nat
    BY <1>a, <1>b, <2>2
  <2> QED
    BY <1>a, <2>1, <2>3 DEF SlotsKept
<1>11. SentInv(p, t, N \cup {rec})
  <2>1. \A x \in N \cup {rec} : x.from = p =>
          /\ x.epoch <= t.epoch
          /\ \/ x.key = x.epoch
             \/ x.key = Wiped /\ x.type = "handshake" /\ x.epoch < t.epoch
    <3>1. s.slots[e].own \/ e < s.epoch
      <4>1. s.slots[s.epoch].own
        BY DEF Local, TableInv
      <4>2. e \in Nat /\ s.epoch \in Nat /\ e <= s.epoch
        BY <1>0, Zenon
      <4> QED
        BY <4>1, <4>2
    <3>2. e <= s.epoch
      BY <1>0, Zenon
    <3> QED
      BY <1>a, <1>d, <1>6, <3>1, <3>2 DEF SentInv
  <2>2. \A x \in Handshakes(p, N \cup {rec}) : x.body.msg.num < t.num
    <3>1. s.rtx[k].msg.num < s.num
      BY <1>0, Zenon
    <3> QED
      BY <1>a, <1>d, <1>2, <1>6, <3>1 DEF SentInv
  <2>3. \A x \in Keyed(p, N) :
             x.epoch \in DOMAIN t.slots /\ t.slots[x.epoch].own =>
                x.body.seq < t.slots[x.epoch].next
    <3> SUFFICES ASSUME NEW x \in Keyed(p, N), x.epoch \in DOMAIN t.slots,
                        t.slots[x.epoch].own
                 PROVE  x.body.seq < t.slots[x.epoch].next
      OBVIOUS
    <3>1. /\ s.slots[x.epoch].own
          /\ s.slots[x.epoch].next <= t.slots[x.epoch].next
      BY <1>10 DEF SlotsKept
    <3>2. x.body.seq < s.slots[x.epoch].next
      BY <1>a, <1>6, <3>1 DEF SentInv
    <3>3. s.slots[x.epoch].next \in Nat /\ t.slots[x.epoch].next \in Nat
      BY <1>a, <1>0, <1>10, Zenon
    <3>4. x.body.seq \in Nat
      BY <1>4, <1>5
    <3> QED
      BY <3>1, <3>2, <3>3, <3>4
  <2>4. rec.body.seq < t.slots[rec.epoch].next
    <3>1. t.slots[e].next = next + 1
      BY <1>a, <1>b
    <3> QED
      BY <1>d, <1>n, <3>1
  <2> QED
    BY <1>3, <2>1, <2>2, <2>3, <2>4 DEF SentInv
<1>12. AckInv(t, A)
  <2>1. \A a \in A : a[2] \in Nat
    BY DEF Number
  <2> QED
    BY <1>a, <1>0, <1>6, <1>10, <2>1, AcksKept, Zenon
<1>13. NumberInv(p, t, N \cup {rec})
  <2> SUFFICES ASSUME NEW i \in 1 .. n, Unique(t, t.rtx[i]),
                      NEW x \in Keyed(p, N \cup {rec}),
                      x.epoch = t.rtx[i].epoch, x.body.seq \in t.rtx[i].seqs
               PROVE  x.body.msg = t.rtx[i].msg
    BY <1>c DEF NumberInv
  <2>0. Unique(s, s.rtx[i]) /\ x.epoch = s.rtx[i].epoch
    BY <1>1, <1>9
  <2>1. CASE x \in Keyed(p, N) /\ x.body.seq \in s.rtx[i].seqs
    <3>1. x.body.msg = s.rtx[i].msg
      BY <2>0, <2>1, Zenon DEF Direction, NumberInv
    <3> QED
      BY <1>1, <3>1
  <2>2. CASE x \in Keyed(p, N) /\ x.body.seq \notin s.rtx[i].seqs
    <3>1. i = k /\ x.body.seq = next
      BY <1>c, <2>2
    <3>2. s.slots[e].own /\ x.epoch = e
      BY <1>8, <2>0, <3>1
    <3>3. next < next
      BY <1>7, <2>2, <3>1, <3>2, Zenon
    <3> QED
      BY <1>n, <3>3, NotBelowItself, Zenon
  <2>3. CASE x = rec
    <3>1. s.slots[e].own
      BY <1>3, <2>3
    <3>2. CASE i # k
      <4>1. s.rtx[i].epoch = e /\ next \in s.rtx[i].seqs
        BY <1>c, <1>d, <2>3, <3>2
      <4>2. next < next
        BY <1>7, <3>1, <4>1, Zenon
      <4> QED
        BY <1>n, <4>2, NotBelowItself, Zenon
    <3> QED
      BY <1>d, <1>1, <2>3, <3>2
  <2> QED
    BY <1>3, <2>1, <2>2, <2>3
<1>14. ArrivedInv(t, q, A)
  <2> SUFFICES ASSUME NEW i \in 1 .. n, Unique(t, t.rtx[i]),
                      IsTracked(t.rtx[i], A)
               PROVE  Got(q, t.rtx[i].msg.num)
    BY <1>c DEF ArrivedInv
  <2>0. Unique(s, s.rtx[i])
    BY <1>9
  <2>1. CASE IsTracked(s.rtx[i], A)
    BY <1>1, <2>0, <2>1 DEF Direction, ArrivedInv
  <2>2. CASE ~ IsTracked(s.rtx[i], A)
    <3>1. i = k /\ <<e, next>> \in A
      BY <1>c, <2>2 DEF IsTracked
    <3>2. s.slots[e].own
      BY <1>8, <2>0, <3>1
    <3>3. <<e, next>>[1] = e /\ <<e, next>>[2] = next
      OBVIOUS
    <3>4. next < next
      BY <1>7, <3>1, <3>2, <3>3, Zenon
    <3> QED
      BY <1>n, <3>4, NotBelowItself, Zenon
  <2> QED
    BY <2>1, <2>2
<1>15. MeaningInv(p, t, q, N \cup {rec})
  <2> DEFINE M == q.stored \cup {x.body.msg : x \in Handshakes(p, N)}
             M2 == q.stored \cup {x.body.msg : x \in Handshakes(p, N \cup {rec})}
             m == s.rtx[k].msg
  <2>1. M2 = M \cup {m}
    <3>1. {x.body.msg : x \in Handshakes(p, N) \cup {rec}}
            = {x.body.msg : x \in Handshakes(p, N)} \cup {rec.body.msg}
      OBVIOUS
    <3> QED
      BY <1>d, <1>2, <3>1
  <2>2. /\ \A x, y \in M : x.num = y.num => x = y
        /\ \A x \in M : \A i \in 1 .. n :
             x.num = s.rtx[i].msg.num => x = s.rtx[i].msg
    BY DEF Direction, MeaningInv
  <2>3. \A i \in 1 .. n : m.num = s.rtx[i].msg.num => m = s.rtx[i].msg
    BY DEF Local, RtxInv
  <2> HIDE DEF M, M2, m
  <2>4. \A x \in M : x.num = m.num => x = m
    BY <2>2 DEF m
  <2>5. \A x, y \in M2 : x.num = y.num => x = y
    BY <2>1, <2>2, <2>4
  <2>6. \A x \in M2 : \A i \in 1 .. n :
             x.num = t.rtx[i].msg.num => x = t.rtx[i].msg
    BY <1>1, <2>1, <2>2, <2>3
  <2> QED
    BY <1>c, <2>5, <2>6, ZenonT(30) DEF MeaningInv, M2
<1>16. UpdateInv(p, t, q, N \cup {rec})
  <2>1. \A x : Buffered(s, x) => Buffered(t, x)
    BY <1>c, <1>1 DEF Buffered
  <2>2. Buffered(t, s.rtx[k].msg)
    BY <1>c, <1>1 DEF Buffered
  <2> QED
    BY <1>d, <1>3, <2>1, <2>2 DEF Direction, UpdateInv
<1>17. OrderInv(t, q)
  BY <1>a DEF Direction, OrderInv
<1>18. EpochInv(t, q, from)
  BY <1>a, <1>c, <1>1 DEF Direction, EpochInv
<1>19. ReadableInv(t, q)
  BY <1>a DEF Direction, ReadableInv
<1>20. KeptInv(t, q)
  BY <1>a, <1>c, <1>1 DEF Direction, KeptInv, NumbersUnique
<1> QED
  BY <1>11, <1>12, <1>13, <1>14, <1>15, <1>16, <1>17, <1>18, <1>19, <1>20
     DEF Direction

\* kept is what is left of rtx after the acknowledgement of the numbers acked.
Removed(rtx, kept, acked) ==
    /\ kept \in Seq(RtxRecord)
    /\ \A j \in 1 .. Len(kept) : \E i \in 1 .. Len(rtx) : kept[j] = rtx[i]
    /\ \A i \in 1 .. Len(rtx) :
         IsTracked(rtx[i], acked) \/ \E j \in 1 .. Len(kept) : kept[j] = rtx[i]

\* Taking an acknowledgement: what is removed from the buffer has arrived.
LEMMA SenderRemoves ==
    ASSUME NEW p, NEW s \in State, NEW t \in State, NEW q, NEW from,
           NEW N, NEW A, NEW acked, acked \subseteq A,
           RtxInv(s), Direction(p, s, q, from, N, A),
           t.epoch = s.epoch, t.peerEpoch = s.peerEpoch, t.num = s.num,
           t.wait = s.wait, t.slots = s.slots,
           Removed(s.rtx, t.rtx, acked)
    PROVE  /\ Direction(p, t, q, from, N, A)
           /\ \A i \in 1 .. Len(s.rtx) :
                s.rtx[i].msg.kind = "key_update" =>
                   Got(q, s.rtx[i].msg.num) \/ Buffered(t, s.rtx[i].msg)
<1>1. \A j \in 1 .. Len(t.rtx) : \E i \in 1 .. Len(s.rtx) : t.rtx[j] = s.rtx[i]
  BY DEF Removed
<1>2. \A r : Unique(t, r) = Unique(s, r)
  BY DEF Unique, NumbersUnique
<1>3. \A i \in 1 .. Len(s.rtx) : Unique(s, s.rtx[i]) =>
        \/ Got(q, s.rtx[i].msg.num)
        \/ \E j \in 1 .. Len(t.rtx) : t.rtx[j] = s.rtx[i]
  <2>1. \A r : IsTracked(r, acked) => IsTracked(r, A)
    BY DEF IsTracked
  <2> QED
    BY <2>1 DEF Direction, ArrivedInv, Removed
<1>4. \A i \in 1 .. Len(s.rtx) : s.rtx[i].msg.kind = "key_update" =>
        Got(q, s.rtx[i].msg.num) \/ Buffered(t, s.rtx[i].msg)
  <2>1. \A i \in 1 .. Len(s.rtx) : s.rtx[i].msg.kind = "key_update" =>
          Unique(s, s.rtx[i])
    BY DEF RtxInv, Unique
  <2> QED
    BY <1>3, <2>1 DEF Buffered
<1>5. SentInv(p, t, N) /\ AckInv(t, A)
  BY DEF Direction, SentInv, AckInv
<1>6. NumberInv(p, t, N)
  <2> SUFFICES ASSUME NEW j \in 1 .. Len(t.rtx), Unique(t, t.rtx[j])
               PROVE  \A rec \in Keyed(p, N) :
                         rec.epoch = t.rtx[j].epoch /\ rec.body.seq \in t.rtx[j].seqs =>
                            rec.body.msg = t.rtx[j].msg
    BY DEF NumberInv
  <2>1. PICK i \in 1 .. Len(s.rtx) : t.rtx[j] = s.rtx[i]
    BY <1>1
  <2>2. Unique(s, s.rtx[i])
    BY <1>2, <2>1
  <2> QED
    BY <2>1, <2>2 DEF Direction, NumberInv
<1>7. ArrivedInv(t, q, A)
  <2> SUFFICES ASSUME NEW j \in 1 .. Len(t.rtx), Unique(t, t.rtx[j]),
                      IsTracked(t.rtx[j], A)
               PROVE  Got(q, t.rtx[j].msg.num)
    BY DEF ArrivedInv
  <2>1. PICK i \in 1 .. Len(s.rtx) : t.rtx[j] = s.rtx[i]
    BY <1>1
  <2>2. Unique(s, s.rtx[i])
    BY <1>2, <2>1
  <2> QED
    BY <2>1, <2>2 DEF Direction, ArrivedInv
<1>8. MeaningInv(p, t, q, N)
  <2> DEFINE M == q.stored \cup {rec.body.msg : rec \in Handshakes(p, N)}
  <2>1. /\ \A x, y \in M : x.num = y.num => x = y
        /\ \A x \in M : \A i \in 1 .. Len(s.rtx) :
             x.num = s.rtx[i].msg.num => x = s.rtx[i].msg
    BY DEF Direction, MeaningInv
  <2> HIDE DEF M
  <2>2. \A x \in M : \A j \in 1 .. Len(t.rtx) :
             x.num = t.rtx[j].msg.num => x = t.rtx[j].msg
    BY <1>1, <2>1
  <2> QED
    BY <2>1, <2>2 DEF MeaningInv, M
<1>9. UpdateInv(p, t, q, N)
  <2>1. UpdateInv(p, s, q, N)
    BY DEF Direction
  <2> SUFFICES ASSUME NEW rec \in Keyed(p, N), rec.body.msg.kind = "key_update",
                      Buffered(s, rec.body.msg)
               PROVE  Got(q, rec.body.msg.num) \/ Buffered(t, rec.body.msg)
    BY <2>1 DEF UpdateInv
  <2> QED
    BY <1>4 DEF Buffered
<1>10. OrderInv(t, q) /\ ReadableInv(t, q)
  BY DEF Direction, OrderInv, ReadableInv
<1>11. EpochInv(t, q, from)
  <2>1. EpochInv(s, q, from)
    BY DEF Direction
  <2>2. \A j \in 1 .. Len(t.rtx) : t.rtx[j].msg.kind = "key_update" =>
         IF \/ t.rtx[j].msg.num < from
            \/ \E m \in q.stored : m.num = t.rtx[j].msg.num
         THEN KnownFrom(q, from) = s.epoch + 1
         ELSE KnownFrom(q, from) = s.epoch
    <3> SUFFICES ASSUME NEW j \in 1 .. Len(t.rtx),
                        t.rtx[j].msg.kind = "key_update"
                 PROVE  IF \/ t.rtx[j].msg.num < from
                           \/ \E m \in q.stored : m.num = t.rtx[j].msg.num
                        THEN KnownFrom(q, from) = s.epoch + 1
                        ELSE KnownFrom(q, from) = s.epoch
      BY Zenon
    <3>1. PICK i \in 1 .. Len(s.rtx) : t.rtx[j] = s.rtx[i]
      BY <1>1, Zenon
    <3> QED
      BY <2>1, <3>1, Zenon DEF EpochInv
  <2> QED
    BY <2>1, <2>2 DEF EpochInv
<1>12. KeptInv(t, q)
  <2> SUFFICES ASSUME NumbersUnique(t), NEW n \in 0 .. t.num - 1
               PROVE  Got(q, n) \/ \E j \in 1 .. Len(t.rtx) : t.rtx[j].msg.num = n
    BY DEF KeptInv
  <2>1. NumbersUnique(s)
    BY DEF NumbersUnique
  <2>2. Got(q, n) \/ \E i \in 1 .. Len(s.rtx) : s.rtx[i].msg.num = n
    BY <2>1 DEF Direction, KeptInv
  <2>3. \A i \in 1 .. Len(s.rtx) : Unique(s, s.rtx[i])
    BY <2>1 DEF Unique
  <2> QED
    BY <1>3, <2>2, <2>3
<1> QED
  BY <1>4, <1>5, <1>6, <1>7, <1>8, <1>9, <1>10, <1>11, <1>12 DEF Direction

\* The acknowledgement of a KeyUpdate: the sender moves to the next epoch, which
\* the receiver knows of.
LEMMA SenderMoves ==
    ASSUME NEW p, NEW s \in State, NEW t \in State, NEW q, NEW from,
           NEW N, N \subseteq Rec, NEW A, A \subseteq Number, q.peerEpoch \in Nat,
           Direction(p, s, q, from, N, A), KnownFrom(q, from) = s.epoch + 1,
           \A i \in 1 .. Len(s.rtx) : /\ s.rtx[i].epoch <= s.epoch
                                      /\ s.rtx[i].msg.kind # "key_update",
           t.epoch = s.epoch + 1, t.peerEpoch = s.peerEpoch, t.num = s.num,
           t.wait = FALSE, t.rtx = s.rtx,
           \A e \in DOMAIN t.slots : t.slots[e].own /\ e # s.epoch + 1 =>
              /\ e \in DOMAIN s.slots /\ s.slots[e].own
              /\ s.slots[e].next <= t.slots[e].next
    PROVE  Direction(p, t, q, from, N, A)
<1>0. /\ s.epoch \in Nat /\ t.epoch \in Nat /\ s.peerEpoch \in Nat
      /\ \A e \in DOMAIN s.slots : s.slots[e].next \in Nat
      /\ \A e \in DOMAIN t.slots : t.slots[e].next \in Nat
      /\ \A i \in 1 .. Len(s.rtx) : s.rtx[i].epoch \in Nat
  BY StateFields
<1>1. SentInv(p, t, N)
  <2>1. SentInv(p, s, N)
    BY DEF Direction
  <2>2. \A rec \in N : rec.epoch \in Nat
    BY DEF Rec, HandshakeRec, AckRec, DataRec
  <2>3. \A rec \in N : rec.from = p =>
         /\ rec.epoch <= t.epoch
         /\ \/ rec.key = rec.epoch
            \/ /\ rec.key = Wiped /\ rec.type = "handshake"
               /\ rec.epoch < t.epoch
    BY <1>0, <2>1, <2>2 DEF SentInv
  <2>4. \A rec \in Keyed(p, N) :
         rec.epoch \in DOMAIN t.slots /\ t.slots[rec.epoch].own =>
            rec.body.seq < t.slots[rec.epoch].next
    <3> SUFFICES ASSUME NEW rec \in Keyed(p, N), rec.epoch \in DOMAIN t.slots,
                        t.slots[rec.epoch].own
                 PROVE  rec.body.seq < t.slots[rec.epoch].next
      OBVIOUS
    <3>1. rec \in Handshakes(p, N) /\ rec.body.seq \in Nat /\ rec.epoch \in Nat
      BY HandshakeIs DEF Keyed
    <3>2. rec.epoch <= s.epoch
      BY <2>1, <3>1 DEF SentInv, Handshakes
    <3>3. rec.epoch # s.epoch + 1
      BY <1>0, <3>1, <3>2
    <3>4. /\ rec.epoch \in DOMAIN s.slots /\ s.slots[rec.epoch].own
          /\ s.slots[rec.epoch].next <= t.slots[rec.epoch].next
      BY <3>3
    <3>5. rec.body.seq < s.slots[rec.epoch].next
      BY <2>1, <3>4 DEF SentInv
    <3> QED
      BY <1>0, <3>1, <3>4, <3>5
  <2> QED
    BY <2>1, <2>3, <2>4 DEF SentInv
<1>2. AckInv(t, A)
  <2>1. AckInv(s, A)
    BY DEF Direction
  <2> SUFFICES ASSUME NEW a \in A
               PROVE  /\ a[1] <= t.epoch
                      /\ a[1] \in DOMAIN t.slots /\ t.slots[a[1]].own =>
                            a[2] < t.slots[a[1]].next
    BY DEF AckInv
  <2>2. a[1] \in Nat /\ a[2] \in Nat /\ a[1] <= s.epoch
    BY <2>1 DEF Number, AckInv
  <2>3. a[1] # s.epoch + 1 /\ a[1] <= t.epoch
    BY <1>0, <2>2
  <2>4. a[1] \in DOMAIN t.slots /\ t.slots[a[1]].own =>
          /\ a[1] \in DOMAIN s.slots /\ s.slots[a[1]].own
          /\ s.slots[a[1]].next <= t.slots[a[1]].next
    BY <2>3
  <2> QED
    BY <1>0, <2>1, <2>2, <2>3, <2>4 DEF AckInv
<1>3. NumbersUnique(t) => NumbersUnique(s)
  BY <1>0 DEF NumbersUnique, TRAFFIC0
<1>4. \A i \in 1 .. Len(t.rtx) : Unique(t, t.rtx[i]) => Unique(s, s.rtx[i])
  BY <1>0, <1>3 DEF Unique
<1>5. NumberInv(p, t, N) /\ ArrivedInv(t, q, A)
  BY <1>4 DEF Direction, NumberInv, ArrivedInv
<1>6. MeaningInv(p, t, q, N) /\ UpdateInv(p, t, q, N) /\ OrderInv(t, q)
  BY DEF Direction, MeaningInv, UpdateInv, OrderInv, Buffered
<1>7. EpochInv(t, q, from)
  BY DEF Direction, EpochInv
<1>8. ReadableInv(t, q)
  BY <1>0 DEF Direction, ReadableInv
<1>9. KeptInv(t, q)
  BY <1>3 DEF Direction, KeptInv
<1> QED
  BY <1>1, <1>2, <1>5, <1>6, <1>7, <1>8, <1>9 DEF Direction

-----------------------------------------------------------------------------
(***************************************************************************)
(* A direction, when its receiver takes a step.                            *)
(***************************************************************************)

\* Steps that neither take a message nor change the read epoch.
LEMMA ReceiverQuiet ==
    ASSUME NEW p, NEW s, NEW q, NEW u, NEW from, NEW N, NEW A,
           Direction(p, s, q, from, N, A),
           u.expected = q.expected, u.stored = q.stored,
           u.peerEpoch = q.peerEpoch,
           s.epoch < q.peerEpoch /\ CanDecrypt(q, q.peerEpoch - 1) =>
              CanDecrypt(u, q.peerEpoch - 1)
    PROVE  Direction(p, s, u, from, N, A)
<1>1. \A n : Got(u, n) = Got(q, n)
  BY DEF Got
<1>2. SentInv(p, s, N) /\ AckInv(s, A) /\ NumberInv(p, s, N)
  BY DEF Direction
<1>3. ArrivedInv(s, u, A) /\ UpdateInv(p, s, u, N) /\ KeptInv(s, u)
  BY <1>1 DEF Direction, ArrivedInv, UpdateInv, KeptInv
<1>4. MeaningInv(p, s, u, N) /\ OrderInv(s, u)
  BY DEF Direction, MeaningInv, OrderInv
<1>5. EpochInv(s, u, from)
  <2>1. KnownFrom(u, from) = KnownFrom(q, from)
    BY DEF KnownFrom, StoredUpdates
  <2> QED
    BY <2>1 DEF Direction, EpochInv
<1>6. ReadableInv(s, u)
  BY DEF Direction, ReadableInv
<1> QED
  BY <1>2, <1>3, <1>4, <1>5, <1>6 DEF Direction

\* A message that is stored, or carried by a record in flight.
Carried(p, q, N, m) == m \in q.stored \/ \E rec \in Keyed(p, N) : rec.body.msg = m

\* What MeaningInv says of a message the receiver has at hand.
LEMMA CarriedIs ==
    ASSUME NEW p, NEW s \in State, NEW q \in State, NEW N \in SUBSET Rec, NEW m,
           Carried(p, q, N, m),
           SentInv(p, s, N), OrderInv(s, q), MeaningInv(p, s, q, N)
    PROVE  /\ m \in Message /\ m.num \in Nat /\ m.num < s.num
           /\ m.kind \in {"key_update", "ticket"}
<1>2. m \in Message /\ m.num < s.num
  <2>1. CASE m \in q.stored
    BY <2>1, StateFields DEF OrderInv
  <2>2. CASE \E rec \in Keyed(p, N) : rec.body.msg = m
    <3>1. PICK rec \in Handshakes(p, N) : rec.body.msg = m
      BY <2>2 DEF Keyed
    <3> QED
      BY <3>1, HandshakeIs DEF SentInv
  <2> QED
    BY <2>1, <2>2 DEF Carried
<1>3. m.num \in Nat /\ m.kind \in {"key_update", "ticket"}
  BY <1>2 DEF Message
<1> QED
  BY <1>2, <1>3

\* Stored and buffered messages with its number are the same message.
LEMMA CarriedOnce ==
    ASSUME NEW p, NEW s, NEW q, NEW N, NEW m,
           Carried(p, q, N, m), MeaningInv(p, s, q, N)
    PROVE  /\ \A x \in q.stored : x.num = m.num => x = m
           /\ \A i \in 1 .. Len(s.rtx) :
                s.rtx[i].msg.num = m.num => s.rtx[i].msg = m
<1> DEFINE M == q.stored \cup {rec.body.msg : rec \in Handshakes(p, N)}
<1>1. m \in M
  BY DEF Carried, Keyed
<1>2. /\ \A x, y \in M : x.num = y.num => x = y
      /\ \A x \in M : \A i \in 1 .. Len(s.rtx) :
             x.num = s.rtx[i].msg.num => x = s.rtx[i].msg
  BY DEF MeaningInv
<1>3. q.stored \subseteq M
  OBVIOUS
<1> HIDE DEF M
<1> QED
  BY <1>1, <1>2, <1>3

\* Storing a message that is not next in order.
LEMMA ReceiverStores ==
    ASSUME NEW p, NEW s \in State, NEW q \in State, NEW u \in State,
           NEW N, N \subseteq Rec, NEW A, NEW rec \in Keyed(p, N),
           Local(s), Direction(p, s, q, q.expected, N, A),
           rec.body.msg.num > q.expected,
           u.expected = q.expected, u.stored = q.stored \cup {rec.body.msg},
           u.peerEpoch = q.peerEpoch, u.slots = q.slots
    PROVE  Direction(p, s, u, u.expected, N, A)
<1> DEFINE m == rec.body.msg
           x == q.expected
<1>0. /\ SentInv(p, s, N) /\ MeaningInv(p, s, q, N) /\ OrderInv(s, q)
      /\ EpochInv(s, q, x) /\ UpdateInv(p, s, q, N)
  BY DEF Direction
<1>1. Carried(p, q, N, m)
  BY DEF Carried
<1>2. /\ m \in Message /\ m.num \in Nat /\ m.num < s.num
      /\ \A y \in q.stored : y.num = m.num => y = m
      /\ \A i \in 1 .. Len(s.rtx) :
           s.rtx[i].msg.num = m.num => s.rtx[i].msg = m
  <2> HIDE DEF m
  <2> QED
    BY <1>0, <1>1, CarriedIs, CarriedOnce
<1>3. \A n : Got(q, n) => Got(u, n)
  BY DEF Got
<1>4. SentInv(p, s, N) /\ AckInv(s, A) /\ NumberInv(p, s, N)
  BY DEF Direction
<1>5. ArrivedInv(s, u, A) /\ UpdateInv(p, s, u, N) /\ KeptInv(s, u)
  BY <1>3 DEF Direction, ArrivedInv, UpdateInv, KeptInv
<1>6. MeaningInv(p, s, u, N)
  <2>1. u.stored \cup {y.body.msg : y \in Handshakes(p, N)}
          = q.stored \cup {y.body.msg : y \in Handshakes(p, N)}
    BY DEF Keyed
  <2> QED
    BY <1>0, <2>1 DEF MeaningInv
<1>7. OrderInv(s, u)
  <2>1. IsFiniteSet(u.stored)
    BY <1>0, FS_AddElement DEF OrderInv
  <2>2. x \in Nat
    BY StateFields
  <2> QED
    BY <1>0, <1>2, <2>1, <2>2 DEF OrderInv
<1>8. ReadableInv(s, u)
  BY DEF Direction, ReadableInv, CanDecrypt
<1>9. EpochInv(s, u, x)
  <2>1. CASE m \in q.stored
    <3>1. u.stored = q.stored
      BY <2>1
    <3> QED
      BY <1>0, <3>1 DEF EpochInv, KnownFrom, StoredUpdates
  <2>2. CASE m \notin q.stored /\ m.kind # "key_update"
    <3>1. StoredUpdates(u, x) = StoredUpdates(q, x)
      BY <2>2 DEF StoredUpdates
    <3>2. KnownFrom(u, x) = KnownFrom(q, x)
      BY <3>1 DEF KnownFrom
    <3>3. \A i \in 1 .. Len(s.rtx) : s.rtx[i].msg.kind = "key_update" =>
            s.rtx[i].msg.num # m.num
      BY <1>2, <2>2
    <3> QED
      BY <1>0, <3>2, <3>3 DEF EpochInv
  <2>3. CASE m \notin q.stored /\ m.kind = "key_update"
    <3>1. ~ Got(q, m.num)
      <4>1. x \in Nat
        BY StateFields
      <4> QED
        BY <1>2, <2>3, <4>1 DEF Got
    <3>2. PICK i \in 1 .. Len(s.rtx) : s.rtx[i].msg = m
      BY <1>0, <2>3, <3>1 DEF UpdateInv, Buffered
    <3>3. KnownFrom(q, x) = s.epoch /\ s.wait
      BY <1>0, <2>3, <3>1, <3>2 DEF EpochInv, Got, Local, RtxInv
    <3>4. \A j \in 1 .. Len(s.rtx) : s.rtx[j].msg.kind = "key_update" => j = i
      BY <2>3, <3>2 DEF Local, RtxInv
    <3>5. StoredUpdates(u, x) = StoredUpdates(q, x) \cup {m}
      BY <1>2, <2>3, StateFields DEF StoredUpdates
    <3>6. IsFiniteSet(StoredUpdates(q, x))
      BY <1>0, FS_Subset DEF OrderInv, StoredUpdates
    <3>7. m \notin StoredUpdates(q, x)
      BY <2>3 DEF StoredUpdates
    <3>8. /\ Cardinality(StoredUpdates(u, x)) = Cardinality(StoredUpdates(q, x)) + 1
          /\ Cardinality(StoredUpdates(q, x)) \in Nat
      <4> DEFINE U == StoredUpdates(q, x)
      <4> HIDE DEF U, m
      <4>1. Cardinality(U \cup {m}) = Cardinality(U) + 1 /\ Cardinality(U) \in Nat
        BY <3>6, <3>7, FS_AddElement, FS_CardinalityType DEF U
      <4> QED
        BY <3>5, <4>1 DEF U
    <3>9. KnownFrom(u, x) = s.epoch + 1
      BY <3>3, <3>8, StateFields DEF KnownFrom
    <3> QED
      BY <1>0, <3>2, <3>3, <3>4, <3>9 DEF EpochInv
  <2> QED
    BY <1>2, <2>1, <2>2, <2>3
<1> QED
  BY <1>4, <1>5, <1>6, <1>7, <1>8, <1>9 DEF Direction

\* Applying the message that is next in order to the read epoch.
LEMMA ReceiverApplies ==
    ASSUME NEW p, NEW s \in State, NEW q \in State, NEW u \in State,
           NEW N, N \subseteq Rec, NEW A, NEW m,
           Local(s), Direction(p, s, q, q.expected, N, A),
           m.num = q.expected, Carried(p, q, N, m),
           m \in q.stored \/ NextStored(q) = {},
           u.expected = q.expected, u.stored = q.stored,
           u.peerEpoch = IF m.kind = "key_update" THEN q.peerEpoch + 1
                         ELSE q.peerEpoch,
           m.kind = "key_update" => CanDecrypt(u, q.peerEpoch),
           m.kind # "key_update" => u.slots = q.slots
    PROVE  Direction(p, s, u, q.expected + 1, N, A)
<1> DEFINE x == q.expected
           U == StoredUpdates(q, x)
           V == StoredUpdates(q, x + 1)
<1>0. /\ SentInv(p, s, N) /\ MeaningInv(p, s, q, N) /\ OrderInv(s, q)
      /\ EpochInv(s, q, x) /\ UpdateInv(p, s, q, N)
  BY DEF Direction
<1>1. /\ m \in Message /\ m.num \in Nat /\ m.num < s.num
      /\ m.kind \in {"key_update", "ticket"}
      /\ \A y \in q.stored : y.num = m.num => y = m
      /\ \A i \in 1 .. Len(s.rtx) :
           s.rtx[i].msg.num = m.num => s.rtx[i].msg = m
  BY <1>0, CarriedIs, CarriedOnce
<1>2. /\ x \in Nat /\ s.num \in Nat /\ q.peerEpoch \in Nat /\ s.epoch \in Nat
      /\ \A y \in q.stored : y.num \in Nat
      /\ \A i \in 1 .. Len(s.rtx) : s.rtx[i].msg.num \in Nat
  BY StateFields DEF Message
<1>3. \A n : Got(u, n) = Got(q, n)
  BY DEF Got
<1>4. SentInv(p, s, N) /\ AckInv(s, A) /\ NumberInv(p, s, N)
  BY DEF Direction
<1>5. ArrivedInv(s, u, A) /\ UpdateInv(p, s, u, N) /\ KeptInv(s, u)
  BY <1>3 DEF Direction, ArrivedInv, UpdateInv, KeptInv
<1>6. MeaningInv(p, s, u, N) /\ OrderInv(s, u)
  BY DEF Direction, MeaningInv, OrderInv
<1>7. ReadableInv(s, u)
  <2>1. CASE m.kind = "key_update"
    <3>1. u.peerEpoch - 1 = q.peerEpoch
      BY <1>2, <2>1
    <3> QED
      BY <2>1, <3>1 DEF ReadableInv
  <2>2. CASE m.kind # "key_update"
    BY <2>2 DEF Direction, ReadableInv, CanDecrypt
  <2> QED
    BY <2>1, <2>2
<1>8. StoredUpdates(u, x + 1) = V
  BY DEF StoredUpdates
<1>9. IsFiniteSet(U) /\ IsFiniteSet(V)
  BY <1>0, FS_Subset DEF OrderInv, StoredUpdates
<1>10. Cardinality(U) \in Nat /\ Cardinality(V) \in Nat
  <2> HIDE DEF U, V
  <2> QED
    BY <1>9, FS_CardinalityType
<1>11. KnownFrom(q, x) = q.peerEpoch + Cardinality(U)
       /\ KnownFrom(u, x + 1) = u.peerEpoch + Cardinality(V)
  BY <1>8 DEF KnownFrom
<1>12. \A y \in U : y \in V \/ y.num = x
  BY <1>2 DEF StoredUpdates
<1>13. V \subseteq U /\ \A y \in V : y.num # x
  BY <1>2 DEF StoredUpdates
<1>14. x + 1 <= s.num
  BY <1>1, <1>2
<1>15. CASE m \in q.stored
  <2>1. \A i \in 1 .. Len(s.rtx) :
          (\/ s.rtx[i].msg.num < x + 1
           \/ \E y \in u.stored : y.num = s.rtx[i].msg.num)
          <=> (\/ s.rtx[i].msg.num < x
               \/ \E y \in q.stored : y.num = s.rtx[i].msg.num)
    BY <1>1, <1>2, <1>15
  <2>2. KnownFrom(u, x + 1) = KnownFrom(q, x)
    <3>1. CASE m.kind = "key_update"
      <4>1. U = V \cup {m} /\ m \notin V
        <5>1. m \in U
          BY <1>1, <1>2, <1>15, <3>1 DEF StoredUpdates
        <5>2. \A y \in U : y \in V \/ y = m
          BY <1>1, <1>12 DEF StoredUpdates
        <5> QED
          BY <1>13, <5>1, <5>2
      <4>2. Cardinality(U) = Cardinality(V) + 1
        <5> HIDE DEF U, V
        <5> QED
          BY <1>9, <4>1, FS_AddElement
      <4> QED
        BY <1>2, <1>10, <1>11, <3>1, <4>2
    <3>2. CASE m.kind # "key_update"
      <4>1. U = V
        <5>1. \A y \in U : y.num # x
          BY <1>1, <3>2 DEF StoredUpdates
        <5> QED
          BY <1>12, <1>13, <5>1
      <4> QED
        BY <1>11, <3>2, <4>1
    <3> QED
      BY <3>1, <3>2
  <2>3. EpochInv(s, u, x + 1)
    BY <1>0, <1>14, <2>1, <2>2 DEF EpochInv
  <2> QED
    BY <1>4, <1>5, <1>6, <1>7, <2>3 DEF Direction
<1>16. CASE m \notin q.stored
  <2>1. \A y \in q.stored : y.num # x
    BY <1>16 DEF NextStored
  <2>2. U = V
    BY <1>12, <1>13, <2>1 DEF StoredUpdates
  <2>3. CASE m.kind # "key_update"
    <3>1. KnownFrom(u, x + 1) = KnownFrom(q, x)
      BY <1>11, <2>2, <2>3
    <3>2. \A i \in 1 .. Len(s.rtx) : s.rtx[i].msg.kind = "key_update" =>
            (s.rtx[i].msg.num < x + 1 <=> s.rtx[i].msg.num < x)
      BY <1>1, <1>2, <2>3
    <3>3. EpochInv(s, u, x + 1)
      BY <1>0, <1>14, <3>1, <3>2 DEF EpochInv
    <3> QED
      BY <1>4, <1>5, <1>6, <1>7, <3>3 DEF Direction
  <2>4. CASE m.kind = "key_update"
    <3>1. ~ Got(q, m.num)
      BY <1>2, <2>1 DEF Got
    <3>2. PICK rec \in Keyed(p, N) : rec.body.msg = m
      BY <1>16 DEF Carried
    <3>3. PICK i \in 1 .. Len(s.rtx) : s.rtx[i].msg = m
      BY <1>0, <2>4, <3>1, <3>2 DEF UpdateInv, Buffered
    <3>4. KnownFrom(q, x) = s.epoch /\ s.wait
      BY <1>0, <2>4, <3>1, <3>3 DEF EpochInv, Got, Local, RtxInv
    <3>5. \A j \in 1 .. Len(s.rtx) : s.rtx[j].msg.kind = "key_update" => j = i
      BY <2>4, <3>3 DEF Local, RtxInv
    <3>6. KnownFrom(u, x + 1) = s.epoch + 1
      BY <1>2, <1>10, <1>11, <2>2, <2>4, <3>4
    <3>7. s.rtx[i].msg.num < x + 1
      BY <1>2, <3>3
    <3>8. EpochInv(s, u, x + 1)
      BY <1>0, <1>14, <3>4, <3>5, <3>6, <3>7 DEF EpochInv
    <3> QED
      BY <1>4, <1>5, <1>6, <1>7, <3>8 DEF Direction
  <2> QED
    BY <2>3, <2>4
<1> QED
  BY <1>15, <1>16

\* Counting the message that was applied, and dropping it from the stored ones.
LEMMA ReceiverCounts ==
    ASSUME NEW p, NEW s \in State, NEW q \in State, NEW u \in State,
           NEW N, N \subseteq Rec, NEW A, NEW m,
           Direction(p, s, q, q.expected + 1, N, A),
           m.num = q.expected, Carried(p, q, N, m),
           u.expected = q.expected + 1, u.stored = q.stored \ {m},
           u.peerEpoch = q.peerEpoch, u.slots = q.slots
    PROVE  Direction(p, s, u, u.expected, N, A)
<1> DEFINE x == q.expected
<1>0. /\ SentInv(p, s, N) /\ MeaningInv(p, s, q, N) /\ OrderInv(s, q)
      /\ EpochInv(s, q, x + 1)
  BY DEF Direction
<1>1. /\ m \in Message /\ m.num \in Nat /\ m.num < s.num
      /\ \A y \in q.stored : y.num = m.num => y = m
  BY <1>0, CarriedIs, CarriedOnce
<1>2. /\ x \in Nat /\ s.num \in Nat /\ \A y \in q.stored : y.num \in Nat
      /\ \A i \in 1 .. Len(s.rtx) : s.rtx[i].msg.num \in Nat
  BY StateFields DEF Message
<1>3. \A n \in Nat : Got(q, n) => Got(u, n)
  BY <1>1, <1>2 DEF Got
<1>4. SentInv(p, s, N) /\ AckInv(s, A) /\ NumberInv(p, s, N)
  BY DEF Direction
<1>5. ArrivedInv(s, u, A) /\ UpdateInv(p, s, u, N) /\ KeptInv(s, u)
  <2>1. ArrivedInv(s, u, A)
    BY <1>2, <1>3 DEF Direction, ArrivedInv
  <2>2. UpdateInv(p, s, u, N)
    <3>1. \A rec \in Keyed(p, N) : rec.body.msg.num \in Nat
      BY HandshakeIs DEF Keyed
    <3> QED
      BY <1>3, <3>1 DEF Direction, UpdateInv
  <2>3. KeptInv(s, u)
    BY <1>2, <1>3 DEF Direction, KeptInv
  <2> QED
    BY <2>1, <2>2, <2>3
<1>6. MeaningInv(p, s, u, N)
  BY <1>0 DEF MeaningInv
<1>7. OrderInv(s, u)
  <2>1. IsFiniteSet(u.stored)
    BY <1>0, FS_Subset DEF OrderInv
  <2>2. u.expected <= s.num
    BY <1>1, <1>2
  <2>3. \A y \in u.stored : u.expected <= y.num /\ y.num < s.num
    BY <1>0, <1>1, <1>2 DEF OrderInv
  <2> QED
    BY <2>1, <2>2, <2>3 DEF OrderInv
<1>8. ReadableInv(s, u)
  BY DEF Direction, ReadableInv, CanDecrypt
<1>9. EpochInv(s, u, x + 1)
  <2>1. StoredUpdates(u, x + 1) = StoredUpdates(q, x + 1)
    BY <1>1, <1>2 DEF StoredUpdates
  <2>2. KnownFrom(u, x + 1) = KnownFrom(q, x + 1)
    BY <2>1 DEF KnownFrom
  <2>3. \A i \in 1 .. Len(s.rtx) :
          (\/ s.rtx[i].msg.num < x + 1
           \/ \E y \in u.stored : y.num = s.rtx[i].msg.num)
          <=> (\/ s.rtx[i].msg.num < x + 1
               \/ \E y \in q.stored : y.num = s.rtx[i].msg.num)
    BY <1>1, <1>2
  <2> QED
    BY <1>0, <2>2, <2>3 DEF EpochInv
<1> QED
  BY <1>4, <1>5, <1>6, <1>7, <1>8, <1>9 DEF Direction

\* Noting the number of a record whose message has arrived.
LEMMA ReceiverAcks ==
    ASSUME NEW p, NEW s \in State, NEW q, NEW from, NEW N, NEW A,
           NEW rec \in Keyed(p, N),
           Direction(p, s, q, from, N, A), Got(q, rec.body.msg.num)
    PROVE  Direction(p, s, q, from, N, A \cup {<<rec.epoch, rec.body.seq>>})
<1> DEFINE a == <<rec.epoch, rec.body.seq>>
<1>1. AckInv(s, A \cup {a})
  <2>1. rec.epoch <= s.epoch
    BY DEF Direction, SentInv, Keyed, Handshakes
  <2>2. rec.epoch \in DOMAIN s.slots /\ s.slots[rec.epoch].own =>
          rec.body.seq < s.slots[rec.epoch].next
    BY DEF Direction, SentInv
  <2> QED
    BY <2>1, <2>2 DEF Direction, AckInv
<1>2. ArrivedInv(s, q, A \cup {a})
  <2> SUFFICES ASSUME NEW i \in 1 .. Len(s.rtx), Unique(s, s.rtx[i]),
                      IsTracked(s.rtx[i], A \cup {a})
               PROVE  Got(q, s.rtx[i].msg.num)
    BY DEF ArrivedInv
  <2>1. CASE IsTracked(s.rtx[i], A)
    BY <2>1 DEF Direction, ArrivedInv
  <2>2. CASE ~ IsTracked(s.rtx[i], A)
    <3>1. s.rtx[i].epoch = rec.epoch /\ rec.body.seq \in s.rtx[i].seqs
      BY <2>2 DEF IsTracked
    <3>2. rec.body.msg = s.rtx[i].msg
      BY <3>1 DEF Direction, NumberInv
    <3> QED
      BY <3>2
  <2> QED
    BY <2>1, <2>2
<1> QED
  BY <1>1, <1>2 DEF Direction

-----------------------------------------------------------------------------
(***************************************************************************)
(* The epoch table.                                                        *)
(***************************************************************************)

\* A nonempty set of naturals has a smallest element.
LEMMA MinIs ==
    ASSUME NEW S, S \subseteq Nat, S # {}
    PROVE  Min(S) \in S
<1>1. \E x \in S : \A y \in S : ~ (<<y, x>> \in OpToRel(<, Nat))
  BY WFMin, NatLessThanWellFounded
<1>2. \E x \in S : \A y \in S : ~ (y < x)
  BY <1>1 DEF OpToRel
<1>3. \E x \in S : \A y \in S : x <= y
  BY <1>2
<1> QED
  BY <1>3 DEF Min

\* A table with EPOCH_SIZE slots has one that may be reused: three are needed.
LEMMA SlotToReuse ==
    ASSUME NEW s \in State, IsFiniteSet(DOMAIN s.slots),
           Cardinality(DOMAIN s.slots) = EPOCH_SIZE
    PROVE  Min(Evictable(s)) \in Evictable(s)
<1> DEFINE K == {s.epoch, s.peerEpoch, s.peerEpoch - 1}
<1>1. IsFiniteSet({}) /\ Cardinality({}) = 0
  BY FS_EmptySet
<1>2. IsFiniteSet({s.epoch}) /\ Cardinality({s.epoch}) = 1
  BY FS_Singleton
<1>3. /\ IsFiniteSet({s.epoch} \cup {s.peerEpoch})
      /\ Cardinality({s.epoch} \cup {s.peerEpoch}) \in {1, 2}
  <2>1. /\ IsFiniteSet({s.epoch} \cup {s.peerEpoch})
        /\ \/ Cardinality({s.epoch} \cup {s.peerEpoch}) = Cardinality({s.epoch})
           \/ Cardinality({s.epoch} \cup {s.peerEpoch}) = Cardinality({s.epoch}) + 1
    BY <1>2, FS_AddElement
  <2> QED
    BY <1>2, <2>1
<1>4. IsFiniteSet(K) /\ Cardinality(K) <= 3
  <2> DEFINE J == {s.epoch} \cup {s.peerEpoch}
  <2>1. K = J \cup {s.peerEpoch - 1}
    OBVIOUS
  <2>2. IsFiniteSet(J) /\ Cardinality(J) \in {1, 2}
    BY <1>3
  <2> HIDE DEF J, K
  <2>3. /\ IsFiniteSet(J \cup {s.peerEpoch - 1})
        /\ \/ Cardinality(J \cup {s.peerEpoch - 1}) = Cardinality(J)
           \/ Cardinality(J \cup {s.peerEpoch - 1}) = Cardinality(J) + 1
    BY <2>2, FS_AddElement
  <2> QED
    BY <2>1, <2>2, <2>3
<1>5. ~ (DOMAIN s.slots \subseteq K)
  <2> HIDE DEF K
  <2> SUFFICES ASSUME DOMAIN s.slots \subseteq K  PROVE FALSE
    OBVIOUS
  <2>1. Cardinality(DOMAIN s.slots) <= Cardinality(K)
    BY <1>4, FS_Subset
  <2>2. Cardinality(K) \in Nat
    BY <1>4, FS_CardinalityType
  <2> QED
    BY <1>4, <2>1, <2>2, KeyUpdateAssumption
<1>6. Evictable(s) # {} /\ Evictable(s) \subseteq Nat
  BY <1>5, StateFields DEF Evictable
<1> QED
  BY <1>6, MinIs

\* The table with a slot for e, on the epochs D that were kept.
NewTable(s, D, e, side) ==
    [x \in D \cup {e} |-> IF x = e THEN NewSlot(side) ELSE s.slots[x]]

\* The call goes on with table T and an encrypt pointer to epoch x.
WithTable(w, T, x) == [w EXCEPT !.s = [w.s EXCEPT !.slots = T, !.enc = x]]

\* D is kept with room for e, and x is where the encrypt pointer points.
SlotFound(s, D, x, e) ==
    /\ D \subseteq DOMAIN s.slots /\ x \in D \cup {e}
    /\ \A y \in {s.epoch, s.peerEpoch, s.peerEpoch - 1} :
          y \in DOMAIN s.slots => y \in D
    /\ IsFiniteSet(D \cup {e}) /\ Cardinality(D \cup {e}) <= EPOCH_SIZE
    /\ x = s.enc \/ x = e

\* Dtls13NewEpochSlot finds a slot.
LEMMA NewEpochSlotIs ==
    ASSUME NEW w \in Works, TableInv(w.s), NEW e \in Nat, e \notin DOMAIN w.s.slots,
           NEW side \in {Enc, Dec}
    PROVE  \E D, x :
             /\ SlotFound(w.s, D, x, e)
             /\ NewEpochSlot(w, e, side) = WithTable(w, NewTable(w.s, D, e, side), x)
<1> DEFINE s == w.s
           F == DOMAIN s.slots
           v == Min(Evictable(s))
<1>0. s \in State /\ IsFiniteSet(F) /\ Cardinality(F) <= EPOCH_SIZE /\ s.enc \in F
  BY DEF Works, TableInv
<1>1. Cardinality(F) \in Nat /\ EPOCH_SIZE \in Nat
  BY <1>0, FS_CardinalityType, KeyUpdateAssumption
<1>2. CASE Cardinality(F) = EPOCH_SIZE
  <2>1. v \in Evictable(s)
    BY <1>0, <1>2, SlotToReuse
  <2>2. v \in F /\ \A y \in {s.epoch, s.peerEpoch, s.peerEpoch - 1} : y # v
    BY <2>1 DEF Evictable
  <2>3. IsFiniteSet(F \ {v}) /\ Cardinality(F \ {v}) = EPOCH_SIZE - 1
    <3> HIDE DEF F, v
    <3> QED
      BY <1>0, <1>2, <2>2, FS_RemoveElement
  <2>4. /\ IsFiniteSet((F \ {v}) \cup {e})
        /\ Cardinality((F \ {v}) \cup {e}) <= EPOCH_SIZE
    <3> DEFINE D == F \ {v}
    <3>1. IsFiniteSet(D) /\ Cardinality(D) = EPOCH_SIZE - 1
      BY <2>3
    <3> HIDE DEF D
    <3>2. /\ IsFiniteSet(D \cup {e})
          /\ \/ Cardinality(D \cup {e}) = Cardinality(D)
             \/ Cardinality(D \cup {e}) = Cardinality(D) + 1
      BY <3>1, FS_AddElement
    <3>3. Cardinality(D \cup {e}) <= EPOCH_SIZE
      BY <1>1, <3>1, <3>2
    <3> QED
      BY <3>2, <3>3 DEF D
  <2> DEFINE x == IF s.enc = v THEN e ELSE s.enc
  <2>5. Evictable(s) # {}
    BY <2>1
  <2>6. NewEpochSlot(w, e, side)
          = WithTable(w, NewTable(w.s, F \ {v}, e, side), x)
    BY <1>2, <2>5 DEF NewEpochSlot, NewTable, WithTable
  <2>7. x \in (F \ {v}) \cup {e} /\ (x = w.s.enc \/ x = e)
    BY <1>0
  <2>8. \A y \in {w.s.epoch, w.s.peerEpoch, w.s.peerEpoch - 1} :
           y \in DOMAIN w.s.slots => y \in F \ {v}
    BY <2>2
  <2> HIDE DEF x
  <2>9. SlotFound(w.s, F \ {v}, x, e)
    BY <2>4, <2>7, <2>8 DEF SlotFound
  <2> QED
    BY <2>6, <2>9
<1>3. CASE Cardinality(F) # EPOCH_SIZE
  <2>1. IsFiniteSet(F \cup {e}) /\ Cardinality(F \cup {e}) <= EPOCH_SIZE
    <3> HIDE DEF F
    <3>1. /\ IsFiniteSet(F \cup {e})
          /\ \/ Cardinality(F \cup {e}) = Cardinality(F)
             \/ Cardinality(F \cup {e}) = Cardinality(F) + 1
      BY <1>0, FS_AddElement
    <3> QED
      BY <1>0, <1>1, <1>3, <3>1
  <2>2. NewEpochSlot(w, e, side)
          = WithTable(w, NewTable(w.s, F, e, side), s.enc)
    BY <1>3 DEF NewEpochSlot, NewTable, WithTable
  <2>3. s.enc \in F \cup {e}
    BY <1>0
  <2>4. SlotFound(w.s, F, s.enc, e)
    BY <2>1, <2>3 DEF SlotFound
  <2> QED
    BY <2>2, <2>4
<1> QED
  BY <1>2, <1>3

\* What a table T and an encrypt pointer x have to do with the state s before
\* Dtls13NewEpoch(e, side).
EpochAdded(s, T, x, e, side) ==
    /\ T \in Table /\ IsFiniteSet(DOMAIN T) /\ Cardinality(DOMAIN T) <= EPOCH_SIZE
    /\ e \in DOMAIN T /\ DOMAIN T \subseteq DOMAIN s.slots \cup {e}
    /\ \A y \in {s.epoch, s.peerEpoch, s.peerEpoch - 1} :
          y \in DOMAIN s.slots => y \in DOMAIN T
    /\ x \in DOMAIN T
    /\ x = s.enc \/ (x = e /\ e \notin DOMAIN s.slots)
    /\ IF e \in DOMAIN s.slots
       THEN /\ T[e].own = (s.slots[e].own \/ side = Enc)
            /\ T[e].next = s.slots[e].next
            /\ T[e].side = IF s.slots[e].side # side THEN Both ELSE side
       ELSE T[e].own = (side # Dec) /\ T[e].side = side
    /\ \A y \in DOMAIN T : y # e =>
         /\ T[y].own = s.slots[y].own /\ T[y].next = s.slots[y].next
         /\ T[y].side = IF y < e - 1 /\ T[e].side # Enc THEN Enc
                        ELSE s.slots[y].side

\* The same before older epochs are marked.
EpochPlaced(s, T, x, e, side) ==
    /\ IsFiniteSet(DOMAIN T) /\ Cardinality(DOMAIN T) <= EPOCH_SIZE
    /\ e \in DOMAIN T /\ DOMAIN T \subseteq DOMAIN s.slots \cup {e}
    /\ \A y \in {s.epoch, s.peerEpoch, s.peerEpoch - 1} :
          y \in DOMAIN s.slots => y \in DOMAIN T
    /\ x \in DOMAIN T
    /\ x = s.enc \/ (x = e /\ e \notin DOMAIN s.slots)
    /\ IF e \in DOMAIN s.slots
       THEN /\ T[e].own = (s.slots[e].own \/ side = Enc)
            /\ T[e].next = s.slots[e].next
            /\ T[e].side = IF s.slots[e].side # side THEN Both ELSE side
       ELSE T[e].own = (side # Dec) /\ T[e].side = side
    /\ \A y \in DOMAIN T : y # e => T[y] = s.slots[y]

OlderMarked(s, T, e) ==
    /\ DOMAIN T = DOMAIN s.slots
    /\ \A y \in DOMAIN T :
         /\ T[y].own = s.slots[y].own /\ T[y].next = s.slots[y].next
         /\ T[y].side = IF y < e THEN Enc ELSE s.slots[y].side

\* Marking older epochs changes only their sides.
LEMMA SetOlderIs ==
    ASSUME NEW s \in State, NEW e \in Int
    PROVE  \E T \in Table : /\ SetOlderEpochSide(s, e) = [s EXCEPT !.slots = T]
                            /\ OlderMarked(s, T, e)
<1> DEFINE F == DOMAIN s.slots
           T == [x \in F |-> IF x < e THEN [s.slots[x] EXCEPT !.side = Enc]
                             ELSE s.slots[x]]
<1>1. F \subseteq Nat /\ \A x \in F : s.slots[x] \in Slot
  BY StateFields
<1>2. \A x \in F : [s.slots[x] EXCEPT !.side = Enc] \in Slot
  BY <1>1 DEF Slot, Enc
<1>3. T \in [F -> Slot]
  BY <1>1, <1>2
<1>4. T \in Table
  <2> HIDE DEF T, F
  <2> QED
    BY <1>1, <1>3, TableIs
<1>5. SetOlderEpochSide(s, e) = [s EXCEPT !.slots = T]
  BY DEF SetOlderEpochSide
<1>6. DOMAIN T = F
  OBVIOUS
<1>7. \A y \in F : /\ T[y].own = s.slots[y].own /\ T[y].next = s.slots[y].next
                   /\ T[y].side = IF y < e THEN Enc ELSE s.slots[y].side
  <2>1. \A x \in Slot : LET z == [x EXCEPT !.side = Enc]
                        IN  z.own = x.own /\ z.next = x.next /\ z.side = Enc
    BY DEF Slot
  <2> QED
    BY <1>1, <2>1
<1> HIDE DEF T
<1> QED
  BY <1>4, <1>5, <1>6, <1>7 DEF OlderMarked

\* Dtls13NewEpoch never fails.
LEMMA NewEpochIs ==
    ASSUME NEW w \in Works, Ok(w), TableInv(w.s), NEW e \in Nat,
           NEW side \in {Enc, Dec}
    PROVE  \E T \in Table : \E x \in Nat :
             /\ EpochAdded(w.s, T, x, e, side)
             /\ NewEpoch(w, e, side) = WithTable(w, T, x)
<1> DEFINE s == w.s
           F == DOMAIN s.slots
           placed == IF e \notin F THEN NewEpochSlot(w, e, side)
                     ELSE [w EXCEPT
                             !.s.slots[e].side = IF @ # side THEN Both ELSE @,
                             !.s.slots[e].own = @ \/ side = Enc]
<1>0. s \in State
  BY DEF Works
<1>1. /\ F \subseteq Nat /\ \A y \in F : s.slots[y] \in Slot
      /\ s.slots = [y \in F |-> s.slots[y]]
  BY <1>0, StateFields, TableIs
<1>2. PICK T0 \in Table, x \in Nat :
        placed = WithTable(w, T0, x) /\ EpochPlaced(s, T0, x, e, side)
  <2>1. CASE e \notin F
    <3>0. PICK D, x :
             /\ SlotFound(w.s, D, x, e)
             /\ NewEpochSlot(w, e, side) = WithTable(w, NewTable(w.s, D, e, side), x)
      BY <2>1, NewEpochSlotIs
    <3>1. /\ D \subseteq F /\ x \in D \cup {e}
          /\ \A y \in {s.epoch, s.peerEpoch, s.peerEpoch - 1} : y \in F => y \in D
          /\ IsFiniteSet(D \cup {e}) /\ Cardinality(D \cup {e}) <= EPOCH_SIZE
          /\ x = s.enc \/ x = e
      BY <3>0 DEF SlotFound
    <3> DEFINE T0 == NewTable(w.s, D, e, side)
    <3>2. NewSlot(side) \in Slot
      BY DEF NewSlot, Slot, Enc, Dec, Both
    <3>3. T0 \in [D \cup {e} -> Slot]
      BY <1>1, <3>1, <3>2 DEF NewTable
    <3>4. D \cup {e} \in SUBSET Nat
      BY <1>1, <3>1
    <3>5. T0 \in Table
      <4> HIDE DEF T0
      <4> QED
        BY <3>3, <3>4, TableIs
    <3>6. DOMAIN T0 = D \cup {e}
      BY DEF NewTable
    <3>7. T0[e].own = (side # Dec) /\ T0[e].side = side
      BY DEF NewTable, NewSlot
    <3>8. \A y \in DOMAIN T0 : y # e => T0[y] = s.slots[y]
      BY DEF NewTable
    <3>9. x \in Nat /\ placed = WithTable(w, T0, x)
      BY <1>1, <2>1, <3>0, <3>1
    <3> HIDE DEF T0, placed
    <3>10. EpochPlaced(s, T0, x, e, side)
      BY <2>1, <3>1, <3>6, <3>7, <3>8 DEF EpochPlaced
    <3> QED
      BY <3>5, <3>9, <3>10
  <2>2. CASE e \in F
    <3> DEFINE new == [s.slots[e] EXCEPT
                         !.side = IF @ # side THEN Both ELSE @,
                         !.own = @ \/ side = Enc]
               T0 == [s.slots EXCEPT ![e] = new]
    <3>1. new \in Slot
      BY <1>1, <2>2 DEF Slot, Enc, Dec, Both
    <3>2. T0 \in [F -> Slot]
      <4> HIDE DEF new
      <4> QED
        BY <1>1, <3>1
    <3>3. T0 \in Table
      <4> HIDE DEF T0
      <4> QED
        BY <1>1, <3>2, TableIs
    <3>4. /\ new.own = (s.slots[e].own \/ side = Enc)
          /\ new.next = s.slots[e].next
          /\ new.side = IF s.slots[e].side # side THEN Both ELSE side
      BY <1>1, <2>2 DEF Slot
    <3>5. T0[e] = new /\ \A y \in F : y # e => T0[y] = s.slots[y]
      BY <1>1, <2>2
    <3>6. placed = WithTable(w, T0, w.s.enc)
      <4>1. placed = [w EXCEPT !.s = [w.s EXCEPT !.slots = T0]]
        BY <2>2, ZenonT(90)
      <4>2. [w.s EXCEPT !.slots = T0]
              = [w.s EXCEPT !.slots = T0, !.enc = w.s.enc]
        <5> HIDE DEF T0, placed
        <5> QED
          BY <1>0 DEF State
      <4> QED
        BY <4>1, <4>2 DEF WithTable
    <3>7. DOMAIN T0 = F
      BY <3>2
    <3>8. w.s.enc \in Nat /\ w.s.enc \in F /\ IsFiniteSet(F)
          /\ Cardinality(F) <= EPOCH_SIZE
      BY <1>0, StateFields DEF TableInv
    <3> HIDE DEF T0, placed, new
    <3>10. /\ T0[e].own = (s.slots[e].own \/ side = Enc)
           /\ T0[e].next = s.slots[e].next
           /\ T0[e].side = IF s.slots[e].side # side THEN Both ELSE side
      BY <3>4, <3>5
    <3>11. \A y \in DOMAIN T0 : y # e => T0[y] = s.slots[y]
      BY <3>5, <3>7
    <3>9. EpochPlaced(s, T0, w.s.enc, e, side)
      <4> HIDE DEF F
      <4> QED
        BY <2>2, <3>7, <3>8, <3>10, <3>11 DEF EpochPlaced, F
    <3> QED
      BY <3>3, <3>6, <3>8, <3>9
  <2> QED
    BY <2>1, <2>2
<1> DEFINE s1 == [w.s EXCEPT !.slots = T0, !.enc = x]
<1>3. s1 \in State /\ s1.slots = T0 /\ s1.enc = x
  BY <1>0 DEF State
<1>4. Ok(placed) /\ placed.s = s1
  <2> HIDE DEF placed
  <2>1. placed.s = s1
    BY <1>2 DEF Works, WithTable
  <2>2. s1.err = w.s.err
    BY <1>0 DEF State
  <2> QED
    BY <2>1, <2>2 DEF Ok
<1>5. NewEpoch(w, e, side) = IF T0[e].side # Enc
                             THEN [placed EXCEPT !.s = SetOlderEpochSide(@, e - 1)]
                             ELSE placed
  <2>1. NewEpoch(w, e, side) = IF Ok(placed) /\ CanDecrypt(placed.s, e)
                               THEN [placed EXCEPT !.s = SetOlderEpochSide(@, e - 1)]
                               ELSE placed
    BY DEF NewEpoch
  <2>2. CanDecrypt(placed.s, e) = (T0[e].side # Enc)
    BY <1>2, <1>3, <1>4 DEF CanDecrypt, EpochPlaced
  <2> HIDE DEF placed
  <2> QED
    BY <1>4, <2>1, <2>2
<1>6. CASE T0[e].side = Enc
  <2>1. EpochAdded(s, T0, x, e, side)
    BY <1>2, <1>6 DEF EpochAdded, EpochPlaced
  <2>2. NewEpoch(w, e, side) = WithTable(w, T0, x)
    BY <1>2, <1>5, <1>6
  <2> QED
    BY <2>1, <2>2
<1>7. CASE T0[e].side # Enc
  <2>1. PICK T \in Table :
             /\ SetOlderEpochSide(s1, e - 1) = [s1 EXCEPT !.slots = T]
             /\ OlderMarked(s1, T, e - 1)
    <3> HIDE DEF s1
    <3>1. e - 1 \in Int
      OBVIOUS
    <3> QED
      BY <1>3, <3>1, SetOlderIs
  <2>2. EpochAdded(s, T, x, e, side)
    <3>1. T[e].side = T0[e].side /\ T[e].own = T0[e].own /\ T[e].next = T0[e].next
      BY <1>2, <1>3, <2>1 DEF EpochPlaced, OlderMarked
    <3>2. \A y \in DOMAIN T : y # e =>
            /\ T[y].own = s.slots[y].own /\ T[y].next = s.slots[y].next
            /\ T[y].side = IF y < e - 1 THEN Enc ELSE s.slots[y].side
      BY <1>2, <1>3, <2>1 DEF EpochPlaced, OlderMarked
    <3>3. DOMAIN T = DOMAIN T0
      BY <1>3, <2>1 DEF OlderMarked
    <3> QED
      BY <1>2, <1>7, <3>1, <3>2, <3>3 DEF EpochAdded, EpochPlaced
  <2>3. [s1 EXCEPT !.slots = T] = [w.s EXCEPT !.slots = T, !.enc = x]
    BY <1>0 DEF State
  <2>4. NewEpoch(w, e, side) = WithTable(w, T, x)
    <3>1. NewEpoch(w, e, side) = [placed EXCEPT !.s = SetOlderEpochSide(s1, e - 1)]
      <4> HIDE DEF placed, s1
      <4> QED
        BY <1>4, <1>5, <1>7
    <3>2. placed = [w EXCEPT !.s = s1]
      BY <1>2 DEF WithTable
    <3>3. [[w EXCEPT !.s = s1] EXCEPT !.s = SetOlderEpochSide(s1, e - 1)]
            = [w EXCEPT !.s = SetOlderEpochSide(s1, e - 1)]
      BY DEF Works
    <3>4. SetOlderEpochSide(s1, e - 1) = [w.s EXCEPT !.slots = T, !.enc = x]
      BY <2>1, <2>3
    <3> HIDE DEF placed, s1
    <3>5. NewEpoch(w, e, side) = [w EXCEPT !.s = SetOlderEpochSide(s1, e - 1)]
      BY <3>1, <3>2, <3>3
    <3>6. [w EXCEPT !.s = SetOlderEpochSide(s1, e - 1)]
            = [w EXCEPT !.s = [w.s EXCEPT !.slots = T, !.enc = x]]
      BY <3>4
    <3> QED
      BY <3>5, <3>6 DEF WithTable
  <2> QED
    BY <2>2, <2>4
<1> QED
  BY <1>6, <1>7

-----------------------------------------------------------------------------
(***************************************************************************)
(* The state of an endpoint.                                               *)
(***************************************************************************)

\* The buffer is not touched and slots keep their keys and numbers.
LEMMA RtxQuiet ==
    ASSUME NEW s \in State, NEW t \in State, RtxInv(s), SlotsKept(s, t),
           t.epoch = s.epoch, t.rtx = s.rtx, t.num = s.num, t.wait = s.wait
    PROVE  RtxInv(t)
<1>1. \A i \in 1 .. Len(t.rtx) :
        t.rtx[i].epoch \in DOMAIN t.slots /\ t.slots[t.rtx[i].epoch].own =>
          \A seq \in t.rtx[i].seqs : seq < t.slots[t.rtx[i].epoch].next
  <2> SUFFICES ASSUME NEW i \in 1 .. Len(s.rtx),
                      s.rtx[i].epoch \in DOMAIN t.slots,
                      t.slots[s.rtx[i].epoch].own,
                      NEW seq \in s.rtx[i].seqs
               PROVE  seq < t.slots[s.rtx[i].epoch].next
    OBVIOUS
  <2>1. /\ s.rtx[i].epoch \in DOMAIN s.slots /\ s.slots[s.rtx[i].epoch].own
        /\ s.slots[s.rtx[i].epoch].next <= t.slots[s.rtx[i].epoch].next
    BY DEF SlotsKept
  <2>2. seq < s.slots[s.rtx[i].epoch].next
    BY <2>1 DEF RtxInv
  <2>3. /\ s.slots[s.rtx[i].epoch].next \in Nat /\ seq \in Nat
        /\ t.slots[s.rtx[i].epoch].next \in Nat
    BY <2>1, StateFields
  <2> QED
    BY <2>1, <2>2, <2>3
<1>2. HasKeyUpdateBuffered(t) = HasKeyUpdateBuffered(s)
  BY DEF HasKeyUpdateBuffered
<1> QED
  BY <1>1, <1>2 DEF RtxInv

\* Slots change at most in their counters.
SameSlots(s, t) ==
    /\ DOMAIN t.slots = DOMAIN s.slots
    /\ \A e \in DOMAIN s.slots : /\ t.slots[e].side = s.slots[e].side
                                 /\ t.slots[e].own = s.slots[e].own
                                 /\ t.slots[e].next = s.slots[e].next

\* Steps that change neither the table nor the buffer.
LEMMA LocalSame ==
    ASSUME NEW s \in State, NEW t \in State, Local(s), SameSlots(s, t),
           t.epoch = s.epoch, t.peerEpoch = s.peerEpoch, t.enc = s.enc,
           t.key = s.key, t.rtx = s.rtx, t.num = s.num, t.wait = s.wait
    PROVE  /\ Local(t) /\ SlotsKept(s, t)
           /\ KeysMatch(s) => KeysMatch(t)
<1>1. SlotsKept(s, t)
  BY StateFields DEF SameSlots, SlotsKept
<1>2. TableInv(t)
  BY DEF Local, TableInv, SameSlots
<1>3. SlotsInv(t)
  BY DEF Local, SlotsInv, SameSlots
<1>4. RtxInv(t)
  BY <1>1, RtxQuiet DEF Local
<1>5. KeysMatch(s) => KeysMatch(t)
  BY DEF KeysMatch, SameSlots, Local, TableInv
<1> QED
  BY <1>1, <1>2, <1>3, <1>4, <1>5 DEF Local

\* Loading the keys of a slot.
LEMMA LocalLoads ==
    ASSUME NEW s \in State, NEW t \in State, Local(s),
           NEW e \in DOMAIN s.slots, e >= TRAFFIC0, s.slots[e].side # Dec,
           t.slots = s.slots,
           t.epoch = s.epoch, t.peerEpoch = s.peerEpoch, t.rtx = s.rtx,
           t.num = s.num, t.wait = s.wait, t.enc = e,
           t.key = IF s.slots[e].own THEN e ELSE Wiped
    PROVE  Local(t) /\ KeysMatch(t) /\ SlotsKept(s, t)
<1>1. SlotsKept(s, t)
  BY StateFields DEF SlotsKept
<1>2. e \in Nat /\ s.epoch \in Nat
  BY StateFields
<1>3. TableInv(t)
  BY <1>2 DEF Local, TableInv, SlotsInv, TRAFFIC0
<1>4. SlotsInv(t)
  BY DEF Local, SlotsInv
<1>5. RtxInv(t)
  BY <1>1, RtxQuiet DEF Local
<1>6. KeysMatch(t)
  BY DEF KeysMatch
<1> QED
  BY <1>1, <1>3, <1>4, <1>5, <1>6 DEF Local

\* A new read epoch.
LEMMA LocalPeerEpoch ==
    ASSUME NEW s \in State, NEW t \in State, Local(s),
           EpochAdded(s, t.slots, t.enc, s.peerEpoch + 1, Dec),
           t.peerEpoch = s.peerEpoch + 1, t.epoch = s.epoch, t.key = s.key,
           t.rtx = s.rtx, t.num = s.num, t.wait = s.wait
    PROVE  /\ Local(t) /\ SlotsKept(s, t) /\ CanDecrypt(t, s.peerEpoch)
           /\ KeysMatch(s) \/ s.enc # s.epoch => KeysMatch(t) \/ t.enc # t.epoch
<1> DEFINE e == s.peerEpoch + 1
           T == t.slots
           F == DOMAIN s.slots
<1>0. /\ s.peerEpoch \in Nat /\ s.epoch \in Nat /\ F \subseteq Nat
      /\ DOMAIN T \subseteq Nat /\ s.enc \in Nat /\ t.enc \in Nat
      /\ \A y \in F : /\ s.slots[y].own \in BOOLEAN /\ s.slots[y].next \in Nat
                      /\ s.slots[y].side \in {Enc, Dec, Both}
      /\ \A y \in DOMAIN T : T[y].own \in BOOLEAN
  BY StateFields
<1>1. /\ TableInv(s) /\ SlotsInv(s) /\ RtxInv(s)
      /\ s.peerEpoch >= TRAFFIC0 /\ s.peerEpoch \in F /\ s.epoch \in F
  BY DEF Local, TableInv
<1>2. e \in F => s.slots[e].own
  BY <1>0, <1>1 DEF SlotsInv, Enc, Dec
<1>3. /\ e \in DOMAIN T /\ DOMAIN T \subseteq F \cup {e}
      /\ s.epoch \in DOMAIN T /\ s.peerEpoch \in DOMAIN T
      /\ IsFiniteSet(DOMAIN T) /\ Cardinality(DOMAIN T) <= EPOCH_SIZE
      /\ t.enc \in DOMAIN T /\ (t.enc = s.enc \/ (t.enc = e /\ e \notin F))
  BY <1>1 DEF EpochAdded
<1>4. T[e].side \in {Dec, Both} /\ (T[e].own => e \in F)
  BY DEF EpochAdded, Enc, Dec, Both
<1>5. \A y \in DOMAIN T : y # e =>
         /\ T[y].own = s.slots[y].own /\ T[y].next = s.slots[y].next
         /\ T[y].side = IF y < s.peerEpoch THEN Enc ELSE s.slots[y].side
  <2>1. \A y : y < e - 1 <=> y < s.peerEpoch
    BY <1>0
  <2>2. T[e].side # Enc
    BY <1>4 DEF Enc, Dec, Both
  <2> QED
    BY <2>1, <2>2 DEF EpochAdded
<1>6. e \in F => T[e].own /\ T[e].next = s.slots[e].next /\
                 (s.slots[e].side # Dec => T[e].side # Dec)
  BY <1>2 DEF EpochAdded, Enc, Dec, Both
<1>7. e \notin F => ~ T[e].own /\ T[e].side = Dec
  BY DEF EpochAdded
<1>8. SlotsKept(s, t)
  <2>1. \A y \in DOMAIN T : T[y].own => /\ y \in F /\ s.slots[y].own
                                        /\ T[y].next = s.slots[y].next
    BY <1>2, <1>3, <1>5, <1>6, <1>7
  <2> QED
    BY <1>0, <2>1 DEF SlotsKept
<1>9. T[s.epoch].own /\ T[s.epoch].side # Dec
  <2>1. s.slots[s.epoch].own /\ s.slots[s.epoch].side # Dec
    BY <1>1 DEF TableInv
  <2>2. CASE s.epoch = e
    BY <1>1, <1>6, <2>1, <2>2
  <2>3. CASE s.epoch # e
    BY <1>3, <1>5, <2>1, <2>3 DEF Enc, Dec
  <2> QED
    BY <2>2, <2>3
<1>10. TableInv(t)
  <2>1. e >= TRAFFIC0 /\ t.enc >= TRAFFIC0
    BY <1>0, <1>1, <1>3 DEF TableInv, TRAFFIC0
  <2>2. T[e].side # Enc
    BY <1>4 DEF Enc, Dec, Both
  <2> QED
    BY <1>1, <1>3, <1>9, <2>1, <2>2 DEF TableInv
<1>11. SlotsInv(t)
  <2>1. \A y \in DOMAIN T : y # e =>
         /\ T[y].side # Enc => y <= e
         /\ T[y].own => y <= s.epoch
         /\ ~ T[y].own => y > TRAFFIC0
         /\ ~ T[y].own /\ T[y].side # Dec => y < e
    <3> SUFFICES ASSUME NEW y \in DOMAIN T, y # e
                 PROVE  /\ T[y].side # Enc => y <= e
                        /\ T[y].own => y <= s.epoch
                        /\ ~ T[y].own => y > TRAFFIC0
                        /\ ~ T[y].own /\ T[y].side # Dec => y < e
      OBVIOUS
    <3>1. y \in F /\ y \in Nat
      BY <1>0, <1>3
    <3>2. /\ s.slots[y].side # Enc => y <= s.peerEpoch
          /\ s.slots[y].own => y <= s.epoch
          /\ ~ s.slots[y].own => y > TRAFFIC0
          /\ ~ s.slots[y].own /\ s.slots[y].side # Dec => y < s.peerEpoch
      BY <1>1, <3>1 DEF SlotsInv
    <3>3. /\ T[y].own = s.slots[y].own
          /\ T[y].side = IF y < s.peerEpoch THEN Enc ELSE s.slots[y].side
      BY <1>5
    <3> QED
      BY <1>0, <3>1, <3>2, <3>3
  <2>2. /\ T[e].own => e <= s.epoch
        /\ ~ T[e].own => e > TRAFFIC0 /\ T[e].side = Dec
    <3>1. T[e].own => e <= s.epoch
      BY <1>1, <1>2, <1>4 DEF SlotsInv
    <3>2. ~ T[e].own => T[e].side = Dec
      BY <1>6, <1>7
    <3> QED
      BY <1>0, <1>1, <3>1, <3>2 DEF TRAFFIC0
  <2>3. s.epoch = TRAFFIC0 + 2 =>
         IF TRAFFIC0 + 1 \in DOMAIN T THEN T[TRAFFIC0 + 1].own
         ELSE e > TRAFFIC0
    <3> DEFINE f == TRAFFIC0 + 1
    <3> SUFFICES ASSUME s.epoch = TRAFFIC0 + 2, f \in DOMAIN T
                 PROVE  T[f].own
      BY <1>0, <1>1 DEF TRAFFIC0
    <3>1. IF f \in F THEN s.slots[f].own ELSE s.peerEpoch > TRAFFIC0
      BY <1>1 DEF SlotsInv
    <3>2. CASE f = e
      <4>1. ~ (s.peerEpoch > TRAFFIC0)
        BY <1>0, <1>1, <3>2 DEF TRAFFIC0
      <4> QED
        BY <1>6, <3>1, <3>2, <4>1
    <3>3. CASE f # e
      <4>1. f \in F
        BY <1>3, <3>3
      <4> QED
        BY <1>5, <3>1, <3>3, <4>1
    <3> QED
      BY <3>2, <3>3
  <2> QED
    BY <1>0, <2>1, <2>2, <2>3 DEF SlotsInv
<1>12. RtxInv(t)
  BY <1>1, <1>8, RtxQuiet
<1>13. CanDecrypt(t, s.peerEpoch)
  <2>1. T[s.peerEpoch].side = s.slots[s.peerEpoch].side
    BY <1>0, <1>3, <1>5
  <2> QED
    BY <1>1, <1>3, <2>1 DEF CanDecrypt, TableInv
<1>14. KeysMatch(s) \/ s.enc # s.epoch => KeysMatch(t) \/ t.enc # t.epoch
  <2>1. CASE t.enc = e /\ e \notin F
    BY <1>1, <2>1
  <2>2. CASE t.enc = s.enc
    <3>1. s.enc \in F
      BY <1>1 DEF TableInv
    <3>2. T[s.enc].own = s.slots[s.enc].own
      <4>1. CASE s.enc = e
        <5>1. T[e].own = TRUE /\ s.slots[e].own = TRUE
          BY <1>0, <1>2, <1>3, <1>6, <3>1, <4>1
        <5> QED
          BY <4>1, <5>1
      <4>2. CASE s.enc # e
        BY <1>3, <1>5, <2>2, <4>2
      <4> QED
        BY <4>1, <4>2
    <3>3. s.slots[s.enc].side # Dec => T[s.enc].side # Dec
      <4>1. CASE s.enc = e
        BY <1>6, <3>1, <4>1
      <4>2. CASE s.enc # e
        BY <1>3, <1>5, <2>2, <4>2 DEF Enc, Dec
      <4> QED
        BY <4>1, <4>2
    <3> QED
      BY <2>2, <3>2, <3>3 DEF KeysMatch
  <2> QED
    BY <1>3, <2>1, <2>2
<1> QED
  BY <1>8, <1>10, <1>11, <1>12, <1>13, <1>14 DEF Local

\* A new write epoch, when no KeyUpdate waits any more.
LEMMA LocalOwnEpoch ==
    ASSUME NEW s \in State, NEW t \in State, NEW x, Local(s), s.epoch < EPOCH_MAX,
           EpochAdded(s, t.slots, x, s.epoch + 1, Enc),
           \A i \in 1 .. Len(s.rtx) : s.rtx[i].msg.kind # "key_update",
           ~ s.wait, t.wait = FALSE, t.epoch = s.epoch + 1,
           t.peerEpoch = s.peerEpoch, t.enc = s.epoch + 1,
           t.key = s.epoch + 1, t.rtx = s.rtx, t.num = s.num
    PROVE  /\ Local(t) /\ KeysMatch(t)
           /\ CanDecrypt(s, s.peerEpoch - 1) => CanDecrypt(t, s.peerEpoch - 1)
           /\ \A y \in DOMAIN t.slots : t.slots[y].own /\ y # s.epoch + 1 =>
                /\ y \in DOMAIN s.slots /\ s.slots[y].own
                /\ s.slots[y].next <= t.slots[y].next
<1> DEFINE e == s.epoch + 1
           T == t.slots
           F == DOMAIN s.slots
<1>0. /\ s.peerEpoch \in Nat /\ s.epoch \in Nat /\ F \subseteq Nat
      /\ DOMAIN T \subseteq Nat /\ EPOCH_MAX \in Nat
      /\ \A y \in F : /\ s.slots[y].own \in BOOLEAN /\ s.slots[y].next \in Nat
                      /\ s.slots[y].side \in {Enc, Dec, Both}
      /\ \A y \in DOMAIN T : T[y].own \in BOOLEAN
  BY StateFields, KeyUpdateAssumption
<1>1. /\ TableInv(s) /\ SlotsInv(s) /\ RtxInv(s)
      /\ s.epoch >= TRAFFIC0 /\ s.peerEpoch \in F /\ s.epoch \in F
      /\ s.peerEpoch >= TRAFFIC0
  BY DEF Local, TableInv
<1>2. /\ e \in DOMAIN T /\ DOMAIN T \subseteq F \cup {e}
      /\ s.epoch \in DOMAIN T /\ s.peerEpoch \in DOMAIN T
      /\ s.peerEpoch - 1 \in F => s.peerEpoch - 1 \in DOMAIN T
      /\ IsFiniteSet(DOMAIN T) /\ Cardinality(DOMAIN T) <= EPOCH_SIZE
  BY <1>1 DEF EpochAdded
<1>3. T[e].own /\ T[e].side \in {Enc, Both}
  BY DEF EpochAdded, Enc, Dec, Both
<1>4. T[e].side # Enc => e \in F /\ s.slots[e].side # Enc /\ e <= s.peerEpoch
  BY <1>1 DEF EpochAdded, SlotsInv
<1>5. \A y \in DOMAIN T : y # e =>
         /\ y \in F /\ T[y].own = s.slots[y].own /\ T[y].next = s.slots[y].next
         /\ T[y].side = IF y < s.epoch /\ T[e].side # Enc THEN Enc
                        ELSE s.slots[y].side
  <2>1. \A y : y < e - 1 <=> y < s.epoch
    BY <1>0
  <2> QED
    BY <1>2, <2>1 DEF EpochAdded
<1>6. /\ s.slots[e].side # Enc /\ e \in F => T[e].side # Enc
  BY DEF EpochAdded, Enc, Dec, Both
<1>7. \A y \in {s.peerEpoch, s.peerEpoch - 1} : y \in F /\ s.slots[y].side # Enc =>
         y \in DOMAIN T /\ T[y].side # Enc
  <2> SUFFICES ASSUME NEW y \in {s.peerEpoch, s.peerEpoch - 1}, y \in F,
                      s.slots[y].side # Enc
               PROVE  y \in DOMAIN T /\ T[y].side # Enc
    OBVIOUS
  <2>1. y \in DOMAIN T
    BY <1>2
  <2>2. ~ (y < s.epoch /\ T[e].side # Enc)
    BY <1>0, <1>4
  <2>3. CASE y = e
    BY <1>6, <2>1, <2>3
  <2>4. CASE y # e
    BY <1>5, <2>1, <2>2, <2>4
  <2> QED
    BY <2>1, <2>3, <2>4
<1>8. CanDecrypt(s, s.peerEpoch - 1) => CanDecrypt(t, s.peerEpoch - 1)
  BY <1>7 DEF CanDecrypt
<1>9. TableInv(t)
  <2>1. T[s.peerEpoch].side # Enc
    BY <1>1, <1>7 DEF TableInv
  <2>2. e >= TRAFFIC0 /\ e \in TRAFFIC0 .. e
    BY <1>0, <1>1 DEF TRAFFIC0
  <2>3. T[e].side # Dec
    BY <1>3 DEF Enc, Dec, Both
  <2> QED
    BY <1>1, <1>2, <1>3, <2>1, <2>2, <2>3 DEF TableInv
<1>10. SlotsInv(t)
  <2>1. \A y \in DOMAIN T :
         /\ T[y].side # Enc => y <= s.peerEpoch
         /\ T[y].own => y <= e
         /\ ~ T[y].own => y > TRAFFIC0
         /\ ~ T[y].own /\ T[y].side # Dec => y < s.peerEpoch
    <3> SUFFICES ASSUME NEW y \in DOMAIN T
                 PROVE  /\ T[y].side # Enc => y <= s.peerEpoch
                        /\ T[y].own => y <= e
                        /\ ~ T[y].own => y > TRAFFIC0
                        /\ ~ T[y].own /\ T[y].side # Dec => y < s.peerEpoch
      OBVIOUS
    <3>1. CASE y = e
      BY <1>0, <1>3, <1>4, <3>1
    <3>2. CASE y # e
      <4>1. y \in F /\ y \in Nat
        BY <1>0, <1>5, <3>2
      <4>2. /\ s.slots[y].side # Enc => y <= s.peerEpoch
            /\ s.slots[y].own => y <= s.epoch
            /\ ~ s.slots[y].own => y > TRAFFIC0
            /\ ~ s.slots[y].own /\ s.slots[y].side # Dec => y < s.peerEpoch
        BY <1>1, <4>1 DEF SlotsInv
      <4>3. /\ T[y].own = s.slots[y].own
            /\ T[y].side = IF y < s.epoch /\ T[e].side # Enc THEN Enc
                           ELSE s.slots[y].side
        BY <1>5, <3>2
      <4>4. T[e].side # Enc => s.epoch < s.peerEpoch
        BY <1>0, <1>4
      <4> QED
        BY <1>0, <4>1, <4>2, <4>3, <4>4
    <3> QED
      BY <3>1, <3>2
  <2>2. e = TRAFFIC0 + 2 =>
         IF TRAFFIC0 + 1 \in DOMAIN T THEN T[TRAFFIC0 + 1].own
         ELSE s.peerEpoch > TRAFFIC0
    <3> SUFFICES ASSUME e = TRAFFIC0 + 2
                 PROVE  TRAFFIC0 + 1 \in DOMAIN T /\ T[TRAFFIC0 + 1].own
      OBVIOUS
    <3>1. TRAFFIC0 + 1 = s.epoch /\ s.epoch # e
      BY <1>0 DEF TRAFFIC0
    <3>2. T[s.epoch].own
      BY <1>1, <1>2, <1>5, <3>1 DEF TableInv
    <3> QED
      BY <1>2, <3>1, <3>2
  <2> QED
    BY <2>1, <2>2 DEF SlotsInv
<1>11. \A y \in DOMAIN T : T[y].own /\ y # e =>
         /\ y \in F /\ s.slots[y].own
         /\ s.slots[y].next <= T[y].next
  BY <1>0, <1>5
<1>12. RtxInv(t)
  <2>1. \A i \in 1 .. Len(s.rtx) :
          LET r == s.rtx[i]
          IN  /\ r.epoch \in TRAFFIC0 .. e
              /\ r.msg.num < s.num
              /\ r.seqs # {} /\ IsFiniteSet(r.seqs)
              /\ Cardinality(r.seqs) <= RETRANS_RN_SIZE
              /\ r.epoch \in DOMAIN T /\ T[r.epoch].own =>
                   \A seq \in r.seqs : seq < T[r.epoch].next
    <3> SUFFICES ASSUME NEW i \in 1 .. Len(s.rtx)
                 PROVE  LET r == s.rtx[i]
                        IN  /\ r.epoch \in TRAFFIC0 .. e
                            /\ r.msg.num < s.num
                            /\ r.seqs # {} /\ IsFiniteSet(r.seqs)
                            /\ Cardinality(r.seqs) <= RETRANS_RN_SIZE
                            /\ r.epoch \in DOMAIN T /\ T[r.epoch].own =>
                                 \A seq \in r.seqs : seq < T[r.epoch].next
      OBVIOUS
    <3> DEFINE r == s.rtx[i]
    <3>1. /\ r.epoch \in TRAFFIC0 .. s.epoch
          /\ r.msg.num < s.num
          /\ r.seqs # {} /\ IsFiniteSet(r.seqs)
          /\ Cardinality(r.seqs) <= RETRANS_RN_SIZE
          /\ r.epoch \in F /\ s.slots[r.epoch].own =>
               \A seq \in r.seqs : seq < s.slots[r.epoch].next
      BY <1>1 DEF RtxInv
    <3>2. r.epoch \in TRAFFIC0 .. e /\ r.epoch # e
      BY <1>0, <3>1 DEF TRAFFIC0
    <3>3. r.epoch \in DOMAIN T /\ T[r.epoch].own =>
            /\ r.epoch \in F /\ s.slots[r.epoch].own
            /\ T[r.epoch].next = s.slots[r.epoch].next
      BY <1>5, <3>2
    <3> QED
      BY <3>1, <3>2, <3>3
  <2>2. \A i, j \in 1 .. Len(s.rtx) :
         \/ i = j
         \/ /\ s.rtx[i].msg.num # s.rtx[j].msg.num
            /\ \/ s.rtx[i].msg.kind # "key_update"
               \/ s.rtx[j].msg.kind # "key_update"
    BY <1>1 DEF RtxInv
  <2>3. e <= EPOCH_MAX
    BY <1>0
  <2> QED
    BY <2>1, <2>2, <2>3 DEF RtxInv
<1>13. KeysMatch(t)
  BY <1>3 DEF KeysMatch, Enc, Dec, Both
<1> QED
  BY <1>8, <1>9, <1>10, <1>11, <1>12, <1>13 DEF Local

\* Marking epochs before the peer's as encrypt only.
LEMMA LocalMarks ==
    ASSUME NEW s \in State, NEW t \in State, NEW e \in Nat, Local(s),
           OlderMarked(s, t.slots, e), e <= s.peerEpoch,
           t.epoch = s.epoch, t.peerEpoch = s.peerEpoch, t.enc = s.enc,
           t.key = s.key, t.rtx = s.rtx, t.num = s.num, t.wait = s.wait
    PROVE  /\ Local(t) /\ SlotsKept(s, t)
           /\ KeysMatch(s) => KeysMatch(t)
           /\ CanDecrypt(s, s.peerEpoch - 1) /\ e < s.peerEpoch =>
                CanDecrypt(t, s.peerEpoch - 1)
<1>0. /\ s.peerEpoch \in Nat /\ s.epoch \in Nat /\ DOMAIN s.slots \subseteq Nat
      /\ \A y \in DOMAIN s.slots : s.slots[y].next \in Nat
  BY StateFields
<1>1. SlotsKept(s, t)
  BY <1>0 DEF OlderMarked, SlotsKept
<1>2. TableInv(t)
  BY <1>0 DEF Local, TableInv, OlderMarked, Enc, Dec
<1>3. SlotsInv(t)
  BY <1>0 DEF Local, SlotsInv, OlderMarked
<1>4. RtxInv(t)
  BY <1>1, RtxQuiet DEF Local
<1>5. KeysMatch(s) => KeysMatch(t)
  BY DEF KeysMatch, OlderMarked, Local, TableInv, Enc, Dec
<1>6. CanDecrypt(s, s.peerEpoch - 1) /\ e < s.peerEpoch =>
        CanDecrypt(t, s.peerEpoch - 1)
  BY <1>0 DEF CanDecrypt, OlderMarked
<1> QED
  BY <1>1, <1>2, <1>3, <1>4, <1>5, <1>6 DEF Local

\* A slot's next number is used, and nothing else changes in the table.
NumberUsed(s, t, e) ==
    /\ e \in DOMAIN s.slots /\ DOMAIN t.slots = DOMAIN s.slots
    /\ \A y \in DOMAIN s.slots :
         /\ t.slots[y].own = s.slots[y].own
         /\ t.slots[y].side = s.slots[y].side
         /\ t.slots[y].next = IF y = e THEN s.slots[y].next + 1
                              ELSE s.slots[y].next

\* The table after a handshake record.
LEMMA LocalNumber ==
    ASSUME NEW s \in State, NEW t \in State, NEW e, Local(s), NumberUsed(s, t, e),
           t.epoch = s.epoch, t.peerEpoch = s.peerEpoch, t.enc = s.enc,
           t.key = s.key
    PROVE  TableInv(t) /\ SlotsInv(t) /\ (KeysMatch(s) => KeysMatch(t))
<1>1. TableInv(t)
  BY DEF Local, TableInv, NumberUsed
<1>2. SlotsInv(t)
  BY DEF Local, SlotsInv, NumberUsed
<1>3. KeysMatch(s) => KeysMatch(t)
  BY DEF KeysMatch, NumberUsed, Local, TableInv
<1> QED
  BY <1>1, <1>2, <1>3

\* Counting on does not lose what is below.
LEMMA BelowNext ==
    ASSUME NEW a \in Nat, NEW b \in Nat, NEW c, a < b, c \in {b, b + 1}
    PROVE  a < c
OBVIOUS

\* A message is sent in the highest epoch and kept.
LEMMA LocalSends ==
    ASSUME NEW s \in State, NEW t \in State, Local(s),
           NEW m \in Message, NEW r \in RtxRecord, NumberUsed(s, t, s.epoch),
           t.epoch = s.epoch, t.peerEpoch = s.peerEpoch, t.enc = s.enc,
           t.key = s.key, t.rtx = Append(s.rtx, r), t.num = s.num + 1,
           t.wait = (s.wait \/ m.kind = "key_update"),
           m.num = s.num, m.kind = "key_update" => ~ s.wait /\ s.epoch < EPOCH_MAX,
           r.msg = m, r.epoch = s.epoch, r.seqs = {s.slots[s.epoch].next}
    PROVE  Local(t) /\ (KeysMatch(s) => KeysMatch(t))
<1> DEFINE n == Len(s.rtx)
<1>0. /\ s.num \in Nat /\ s.epoch \in Nat /\ n \in Nat /\ s.rtx \in Seq(RtxRecord)
      /\ \A y \in DOMAIN s.slots : s.slots[y].next \in Nat
      /\ \A i \in 1 .. n : s.rtx[i].seqs \subseteq Nat /\ s.rtx[i].msg.num \in Nat
      /\ RETRANS_RN_SIZE \in Nat \ {0}
  BY StateFields, KeyUpdateAssumption
<1>1. /\ Len(t.rtx) = n + 1 /\ t.rtx[n + 1] = r
      /\ \A i \in 1 .. n : t.rtx[i] = s.rtx[i]
  BY <1>0
<1>2. 1 .. n + 1 = (1 .. n) \cup {n + 1} /\ n + 1 \notin 1 .. n
  BY <1>0
<1>3. RtxInv(s) /\ s.epoch \in TRAFFIC0 .. s.epoch /\ s.epoch \in DOMAIN s.slots
  BY <1>0 DEF Local, TableInv, TRAFFIC0
<1>4. \A i \in 1 .. n :
        /\ s.rtx[i].epoch \in TRAFFIC0 .. s.epoch
        /\ s.rtx[i].msg.kind = "key_update" => t.wait /\ s.rtx[i].epoch = s.epoch
        /\ s.rtx[i].msg.num < s.num + 1
        /\ s.rtx[i].seqs # {} /\ IsFiniteSet(s.rtx[i].seqs)
        /\ Cardinality(s.rtx[i].seqs) <= RETRANS_RN_SIZE
  <2>1. s.wait => t.wait
    OBVIOUS
  <2>2. \A i \in 1 .. n :
          /\ s.rtx[i].epoch \in TRAFFIC0 .. s.epoch
          /\ s.rtx[i].msg.kind = "key_update" => s.wait /\ s.rtx[i].epoch = s.epoch
          /\ s.rtx[i].msg.num < s.num
          /\ s.rtx[i].seqs # {} /\ IsFiniteSet(s.rtx[i].seqs)
          /\ Cardinality(s.rtx[i].seqs) <= RETRANS_RN_SIZE
    BY <1>3 DEF RtxInv
  <2>3. \A i \in 1 .. n : s.rtx[i].msg.num < s.num + 1
    BY <1>0, <2>2
  <2> QED
    BY <2>1, <2>2, <2>3
<1>5. \A i \in 1 .. n : s.rtx[i].epoch \in DOMAIN t.slots /\ t.slots[s.rtx[i].epoch].own =>
         \A seq \in s.rtx[i].seqs : seq < t.slots[s.rtx[i].epoch].next
  <2> SUFFICES ASSUME NEW i \in 1 .. n, s.rtx[i].epoch \in DOMAIN t.slots,
                      t.slots[s.rtx[i].epoch].own, NEW seq \in s.rtx[i].seqs
               PROVE  seq < t.slots[s.rtx[i].epoch].next
    OBVIOUS
  <2>1. s.rtx[i].epoch \in DOMAIN s.slots /\ s.slots[s.rtx[i].epoch].own
    BY DEF NumberUsed
  <2>2. seq < s.slots[s.rtx[i].epoch].next
    BY <1>3, <2>1 DEF RtxInv
  <2>3. t.slots[s.rtx[i].epoch].next
          \in {s.slots[s.rtx[i].epoch].next, s.slots[s.rtx[i].epoch].next + 1}
    BY <2>1 DEF NumberUsed
  <2>4. seq \in Nat /\ s.slots[s.rtx[i].epoch].next \in Nat
    BY <1>0, <2>1
  <2> DEFINE b == s.slots[s.rtx[i].epoch].next
             c == t.slots[s.rtx[i].epoch].next
  <2>5. seq < b /\ b \in Nat /\ c \in {b, b + 1} /\ seq \in Nat
    BY <2>2, <2>3, <2>4
  <2> HIDE DEF b, c
  <2>6. seq < c
    BY <2>5
  <2> QED
    BY <2>6 DEF c
<1>6. /\ r.epoch \in TRAFFIC0 .. s.epoch
      /\ r.msg.kind = "key_update" => t.wait /\ r.epoch = s.epoch
      /\ r.msg.num < s.num + 1
      /\ r.seqs # {} /\ IsFiniteSet(r.seqs)
      /\ Cardinality(r.seqs) <= RETRANS_RN_SIZE
      /\ \A seq \in r.seqs : seq < t.slots[r.epoch].next
  <2>1. IsFiniteSet(r.seqs) /\ Cardinality(r.seqs) = 1
    BY FS_Singleton
  <2>2. t.slots[r.epoch].next = s.slots[s.epoch].next + 1
    BY <1>3 DEF NumberUsed
  <2>3. s.slots[s.epoch].next \in Nat
    BY <1>0, <1>3
  <2>4. \A seq \in r.seqs : seq < t.slots[r.epoch].next
    BY <2>2, <2>3
  <2> QED
    <3>1. 1 <= RETRANS_RN_SIZE /\ s.num < s.num + 1
      BY <1>0
    <3>2. r.msg.kind = "key_update" => t.wait
      OBVIOUS
    <3> QED
      BY <1>3, <2>1, <2>4, <3>1, <3>2
<1>7. \A i \in 1 .. n + 1 :
         LET x == t.rtx[i]
         IN  /\ x.epoch \in TRAFFIC0 .. t.epoch
             /\ x.msg.kind = "key_update" => t.wait /\ x.epoch = t.epoch
             /\ x.msg.num < t.num
             /\ x.seqs # {} /\ IsFiniteSet(x.seqs)
             /\ Cardinality(x.seqs) <= RETRANS_RN_SIZE
             /\ x.epoch \in DOMAIN t.slots /\ t.slots[x.epoch].own =>
                  \A seq \in x.seqs : seq < t.slots[x.epoch].next
  BY <1>1, <1>2, <1>4, <1>5, <1>6
<1>8. \A i, j \in 1 .. n + 1 :
         \/ i = j
         \/ /\ t.rtx[i].msg.num # t.rtx[j].msg.num
            /\ \/ t.rtx[i].msg.kind # "key_update"
               \/ t.rtx[j].msg.kind # "key_update"
  <2>1. \A i \in 1 .. n : /\ s.rtx[i].msg.num # m.num
                          /\ \/ s.rtx[i].msg.kind # "key_update"
                             \/ m.kind # "key_update"
    BY <1>0, <1>3 DEF RtxInv
  <2>2. \A i, j \in 1 .. n :
         \/ i = j
         \/ /\ s.rtx[i].msg.num # s.rtx[j].msg.num
            /\ \/ s.rtx[i].msg.kind # "key_update"
               \/ s.rtx[j].msg.kind # "key_update"
    BY <1>3 DEF RtxInv
  <2> QED
    BY <1>1, <1>2, <2>1, <2>2
<1>9. t.wait => HasKeyUpdateBuffered(t) /\ t.epoch < EPOCH_MAX
  <2>1. CASE s.wait
    <3>1. HasKeyUpdateBuffered(s) /\ s.epoch < EPOCH_MAX
      BY <1>3, <2>1 DEF RtxInv
    <3> QED
      BY <1>1, <1>2, <3>1 DEF HasKeyUpdateBuffered
  <2>2. CASE m.kind = "key_update"
    BY <1>1, <1>2, <2>2 DEF HasKeyUpdateBuffered
  <2> QED
    BY <2>1, <2>2
<1>10. RtxInv(t)
  <2>1. t.epoch <= EPOCH_MAX
    BY <1>3 DEF RtxInv
  <2> QED
    BY <1>1, <1>7, <1>8, <1>9, <2>1 DEF RtxInv
<1> QED
  BY <1>10, LocalNumber DEF Local

\* A buffered record is sent again under another number.
LEMMA LocalResends ==
    ASSUME NEW s \in State, NEW t \in State, Local(s), NEW k \in 1 .. Len(s.rtx),
           NumberUsed(s, t, s.rtx[k].epoch),
           t.epoch = s.epoch, t.peerEpoch = s.peerEpoch, t.enc = s.enc,
           t.key = s.key, t.num = s.num, t.wait = s.wait,
           Len(t.rtx) = Len(s.rtx),
           \A i \in 1 .. Len(s.rtx) : i # k => t.rtx[i] = s.rtx[i],
           t.rtx[k].msg = s.rtx[k].msg, t.rtx[k].epoch = s.rtx[k].epoch,
           t.rtx[k].seqs
             \subseteq s.rtx[k].seqs \cup {s.slots[s.rtx[k].epoch].next},
           t.rtx[k].seqs # {}, IsFiniteSet(t.rtx[k].seqs),
           Cardinality(t.rtx[k].seqs) <= RETRANS_RN_SIZE
    PROVE  Local(t) /\ (KeysMatch(s) => KeysMatch(t))
<1> DEFINE n == Len(s.rtx)
<1>0. /\ s.num \in Nat /\ s.epoch \in Nat /\ n \in Nat
      /\ \A y \in DOMAIN s.slots : s.slots[y].next \in Nat
      /\ \A i \in 1 .. n : s.rtx[i].seqs \subseteq Nat
  BY StateFields
<1>1. RtxInv(s)
  BY DEF Local
<1>2. \A i \in 1 .. n : t.rtx[i].msg = s.rtx[i].msg /\ t.rtx[i].epoch = s.rtx[i].epoch
  OBVIOUS
<1>3. \A i \in 1 .. n :
        /\ t.rtx[i].epoch \in TRAFFIC0 .. s.epoch
        /\ t.rtx[i].msg.kind = "key_update" => s.wait /\ t.rtx[i].epoch = s.epoch
        /\ t.rtx[i].msg.num < s.num
        /\ t.rtx[i].seqs # {} /\ IsFiniteSet(t.rtx[i].seqs)
        /\ Cardinality(t.rtx[i].seqs) <= RETRANS_RN_SIZE
  <2> SUFFICES ASSUME NEW i \in 1 .. n
               PROVE  /\ t.rtx[i].epoch \in TRAFFIC0 .. s.epoch
                      /\ t.rtx[i].msg.kind = "key_update" =>
                           s.wait /\ t.rtx[i].epoch = s.epoch
                      /\ t.rtx[i].msg.num < s.num
                      /\ t.rtx[i].seqs # {} /\ IsFiniteSet(t.rtx[i].seqs)
                      /\ Cardinality(t.rtx[i].seqs) <= RETRANS_RN_SIZE
    BY Zenon
  <2>1. /\ s.rtx[i].epoch \in TRAFFIC0 .. s.epoch
        /\ s.rtx[i].msg.kind = "key_update" => s.wait /\ s.rtx[i].epoch = s.epoch
        /\ s.rtx[i].msg.num < s.num
        /\ s.rtx[i].seqs # {} /\ IsFiniteSet(s.rtx[i].seqs)
        /\ Cardinality(s.rtx[i].seqs) <= RETRANS_RN_SIZE
    BY <1>1, Zenon DEF RtxInv
  <2>2. t.rtx[i].msg = s.rtx[i].msg /\ t.rtx[i].epoch = s.rtx[i].epoch
    BY <1>2, Zenon
  <2>3. /\ t.rtx[i].seqs # {} /\ IsFiniteSet(t.rtx[i].seqs)
        /\ Cardinality(t.rtx[i].seqs) <= RETRANS_RN_SIZE
    BY <2>1, Zenon
  <2> QED
    BY <2>1, <2>2, <2>3, Zenon
<1>4. \A i \in 1 .. n : t.rtx[i].epoch \in DOMAIN t.slots /\ t.slots[t.rtx[i].epoch].own =>
         \A seq \in t.rtx[i].seqs : seq < t.slots[t.rtx[i].epoch].next
  <2> SUFFICES ASSUME NEW i \in 1 .. n, t.rtx[i].epoch \in DOMAIN t.slots,
                      t.slots[t.rtx[i].epoch].own, NEW seq \in t.rtx[i].seqs
               PROVE  seq < t.slots[t.rtx[i].epoch].next
    OBVIOUS
  <2> DEFINE e == s.rtx[i].epoch
  <2>1. e = t.rtx[i].epoch
    BY <1>2
  <2>2. e \in DOMAIN s.slots /\ s.slots[e].own
    BY <2>1 DEF NumberUsed
  <2>3. \A x \in s.rtx[i].seqs : x < s.slots[e].next
    BY <1>1, <2>2 DEF RtxInv
  <2>4. seq \in s.rtx[i].seqs \/ (i = k /\ seq = s.slots[e].next)
    OBVIOUS
  <2>5. CASE seq \in s.rtx[i].seqs
    <3>1. seq < s.slots[e].next /\ seq \in Nat
      BY <1>0, <2>3, <2>5
    <3>2. t.slots[e].next \in {s.slots[e].next, s.slots[e].next + 1}
      BY <2>2 DEF NumberUsed
    <3>3. s.slots[e].next \in Nat
      BY <1>0, <2>2
    <3> QED
      BY <2>1, <3>1, <3>2, <3>3, BelowNext
  <2>6. CASE i = k /\ seq = s.slots[e].next
    <3>1. t.slots[e].next = s.slots[e].next + 1
      BY <2>2, <2>6 DEF NumberUsed
    <3>2. s.slots[e].next \in Nat
      BY <1>0, <2>2, Zenon
    <3>3. \A x \in Nat : x < x + 1
      OBVIOUS
    <3> QED
      BY <2>1, <2>6, <3>1, <3>2, <3>3, Zenon
  <2> QED
    BY <2>4, <2>5, <2>6
<1>5. \A i, j \in 1 .. n :
         \/ i = j
         \/ /\ t.rtx[i].msg.num # t.rtx[j].msg.num
            /\ \/ t.rtx[i].msg.kind # "key_update"
               \/ t.rtx[j].msg.kind # "key_update"
  <2>1. \A i, j \in 1 .. n :
         \/ i = j
         \/ /\ s.rtx[i].msg.num # s.rtx[j].msg.num
            /\ \/ s.rtx[i].msg.kind # "key_update"
               \/ s.rtx[j].msg.kind # "key_update"
    BY <1>1, Zenon DEF RtxInv
  <2>2. ASSUME NEW i \in 1 .. n, NEW j \in 1 .. n
        PROVE  \/ i = j
               \/ /\ t.rtx[i].msg.num # t.rtx[j].msg.num
                  /\ \/ t.rtx[i].msg.kind # "key_update"
                     \/ t.rtx[j].msg.kind # "key_update"
    <3>1. t.rtx[i].msg = s.rtx[i].msg /\ t.rtx[j].msg = s.rtx[j].msg
      BY <1>2, Zenon
    <3> QED
      BY <2>1, <3>1, ZenonT(60)
  <2> QED
    BY <2>2, Zenon
<1>6. HasKeyUpdateBuffered(s) => HasKeyUpdateBuffered(t)
  BY <1>2 DEF HasKeyUpdateBuffered
<1>7. RtxInv(t)
  <2>1. s.wait => HasKeyUpdateBuffered(s) /\ s.epoch < EPOCH_MAX
    BY <1>1 DEF RtxInv
  <2>2. s.epoch <= EPOCH_MAX
    BY <1>1 DEF RtxInv
  <2> QED
    BY <1>3, <1>4, <1>5, <1>6, <2>1, <2>2 DEF RtxInv
<1> QED
  BY <1>7, LocalNumber DEF Local

\* Records are taken out of the buffer; wait is cleared with the last KeyUpdate.
LEMMA LocalRemoves ==
    ASSUME NEW s \in State, NEW t \in State, NEW acked, Local(s),
           t.slots = s.slots, t.epoch = s.epoch, t.peerEpoch = s.peerEpoch,
           t.enc = s.enc, t.key = s.key, t.num = s.num,
           Removed(s.rtx, t.rtx, acked),
           \A i, j \in 1 .. Len(t.rtx) :
              t.rtx[i].msg.num = t.rtx[j].msg.num => i = j,
           t.wait = (s.wait /\ HasKeyUpdateBuffered(t))
    PROVE  Local(t) /\ (KeysMatch(s) => KeysMatch(t))
<1>1. TableInv(t) /\ SlotsInv(t) /\ (KeysMatch(s) => KeysMatch(t))
  BY DEF Local, TableInv, SlotsInv, KeysMatch
<1>2. RtxInv(s)
  BY DEF Local
<1>3. ASSUME NEW j \in 1 .. Len(t.rtx)
      PROVE  \E i \in 1 .. Len(s.rtx) : t.rtx[j] = s.rtx[i]
  BY DEF Removed
<1>4. ASSUME NEW j \in 1 .. Len(t.rtx)
      PROVE  LET r == t.rtx[j]
             IN  /\ r.epoch \in TRAFFIC0 .. s.epoch
                 /\ r.msg.kind = "key_update" => t.wait /\ r.epoch = s.epoch
                 /\ r.msg.num < s.num
                 /\ r.seqs # {} /\ IsFiniteSet(r.seqs)
                 /\ Cardinality(r.seqs) <= RETRANS_RN_SIZE
                 /\ r.epoch \in DOMAIN s.slots /\ s.slots[r.epoch].own =>
                      \A seq \in r.seqs : seq < s.slots[r.epoch].next
  <2>1. PICK i \in 1 .. Len(s.rtx) : t.rtx[j] = s.rtx[i]
    BY <1>3
  <2> DEFINE r == t.rtx[j]
  <2>2. /\ r.epoch \in TRAFFIC0 .. s.epoch
        /\ r.msg.kind = "key_update" => s.wait /\ r.epoch = s.epoch
        /\ r.msg.num < s.num
        /\ r.seqs # {} /\ IsFiniteSet(r.seqs)
        /\ Cardinality(r.seqs) <= RETRANS_RN_SIZE
        /\ r.epoch \in DOMAIN s.slots /\ s.slots[r.epoch].own =>
             \A seq \in r.seqs : seq < s.slots[r.epoch].next
    BY <1>2, <2>1 DEF RtxInv
  <2>3. r.msg.kind = "key_update" => HasKeyUpdateBuffered(t)
    BY DEF HasKeyUpdateBuffered
  <2> QED
    BY <2>2, <2>3
<1>5. \A i, j \in 1 .. Len(t.rtx) :
         \/ i = j
         \/ /\ t.rtx[i].msg.num # t.rtx[j].msg.num
            /\ \/ t.rtx[i].msg.kind # "key_update"
               \/ t.rtx[j].msg.kind # "key_update"
  <2> SUFFICES ASSUME NEW i \in 1 .. Len(t.rtx), NEW j \in 1 .. Len(t.rtx), i # j,
                      t.rtx[i].msg.kind = "key_update",
                      t.rtx[j].msg.kind = "key_update"
               PROVE  FALSE
    OBVIOUS
  <2>1. PICK a \in 1 .. Len(s.rtx) : t.rtx[i] = s.rtx[a]
    BY <1>3
  <2>2. PICK b \in 1 .. Len(s.rtx) : t.rtx[j] = s.rtx[b]
    BY <1>3
  <2>3. a = b
    BY <1>2, <2>1, <2>2 DEF RtxInv
  <2>4. t.rtx[i].msg.num = t.rtx[j].msg.num
    BY <2>1, <2>2, <2>3
  <2> QED
    BY <2>4
<1>6. RtxInv(t)
  <2>1. t.wait => HasKeyUpdateBuffered(t) /\ s.epoch < EPOCH_MAX
    BY <1>2 DEF RtxInv
  <2>2. s.epoch <= EPOCH_MAX
    BY <1>2 DEF RtxInv
  <2> QED
    BY <1>4, <1>5, <2>1, <2>2 DEF RtxInv
<1> QED
  BY <1>1, <1>6 DEF Local

-----------------------------------------------------------------------------
(***************************************************************************)
(* Loops.  f[i] is the state after i rounds; St[i] is the i-th round.      *)
(***************************************************************************)

\* An invariant of the rounds holds at the end.
LEMMA LoopInvariant ==
    ASSUME NEW n \in Nat, NEW I, NEW f, f[0] \in I[0],
           \A i \in 1 .. n : f[i - 1] \in I[i - 1] => f[i] \in I[i]
    PROVE  \A i \in 0 .. n : f[i] \in I[i]
<1> DEFINE B == {i \in 0 .. n : f[i] \notin I[i]}
<1>1. SUFFICES ASSUME B # {} PROVE FALSE
  OBVIOUS
<1>2. B \subseteq Nat
  OBVIOUS
<1>3. \E x \in B : \A y \in B : ~ (<<y, x>> \in OpToRel(<, Nat))
  BY <1>1, <1>2, WFMin, NatLessThanWellFounded
<1>4. PICK k \in B : \A y \in B : ~ (y < k)
  BY <1>2, <1>3 DEF OpToRel
<1>5. k # 0 /\ k \in 1 .. n /\ k - 1 \in 0 .. n
  OBVIOUS
<1>6. k - 1 \notin B
  BY <1>4, <1>5
<1> QED
  BY <1>5, <1>6

\* A loop started in x goes through n rounds.
LoopFrom(n, I, x, St, g) ==
    /\ DOMAIN g = 0 .. n /\ g[0] = x
    /\ \A i \in 0 .. n : g[i] \in I[i]
    /\ \A i \in 1 .. n : g[i] = St[i][g[i - 1]]

\* A loop can be unrolled: there is a function of its states after each round.
LEMMA LoopExists ==
    ASSUME NEW n \in Nat, NEW I, NEW x \in I[0], NEW St,
           \A i \in 1 .. n : \A v \in I[i - 1] : St[i][v] \in I[i]
    PROVE  \E g : LoopFrom(n, I, x, St, g) /\ g = [i \in 0 .. n |-> g[i]]
<1> DEFINE B == {k \in 0 .. n : ~ \E g : LoopFrom(k, I, x, St, g)}
<1>0. B = {}
  <2>1. SUFFICES ASSUME B # {} PROVE FALSE
    OBVIOUS
  <2>2. B \subseteq Nat
    OBVIOUS
  <2>3. \E k \in B : \A y \in B : ~ (<<y, k>> \in OpToRel(<, Nat))
    <3> HIDE DEF B
    <3> QED
      BY <2>1, <2>2, WFMin, NatLessThanWellFounded
  <2>4. PICK k \in B : \A y \in B : ~ (y < k)
    <3> HIDE DEF B
    <3> QED
      BY <2>2, <2>3 DEF OpToRel
  <2>5. k # 0
    <3>1. LoopFrom(0, I, x, St, [i \in 0 .. 0 |-> x])
      BY DEF LoopFrom
    <3> QED
      BY <3>1
  <2>6. k \in 1 .. n /\ k - 1 \in 0 .. n /\ k - 1 \notin B
    <3>1. k \in 0 .. n
      OBVIOUS
    <3> HIDE DEF B
    <3> QED
      BY <2>4, <2>5, <3>1
  <2>7. PICK g : LoopFrom(k - 1, I, x, St, g)
    BY <2>6
  <2> DEFINE h == [i \in 0 .. k |-> IF i = k THEN St[k][g[k - 1]] ELSE g[i]]
  <2>8. /\ DOMAIN g = 0 .. k - 1 /\ g[0] = x
        /\ \A i \in 0 .. k - 1 : g[i] \in I[i]
        /\ \A i \in 1 .. k - 1 : g[i] = St[i][g[i - 1]]
    BY <2>7 DEF LoopFrom
  <2>9. St[k][g[k - 1]] \in I[k]
    BY <2>6, <2>8
  <2> HIDE DEF B
  <2>10. DOMAIN h = 0 .. k /\ h[k] = St[k][g[k - 1]] /\ \A i \in 0 .. k - 1 : h[i] = g[i]
    BY <2>6
  <2> HIDE DEF h
  <2>11. h[0] = x /\ \A i \in 0 .. k : h[i] \in I[i]
    <3>1. 0 \in 0 .. k - 1 /\ 0 .. k = (0 .. k - 1) \cup {k}
      BY <2>6
    <3> QED
      BY <2>8, <2>9, <2>10, <3>1
  <2>12. \A i \in 1 .. k : h[i] = St[i][h[i - 1]]
    <3> SUFFICES ASSUME NEW i \in 1 .. k PROVE h[i] = St[i][h[i - 1]]
      OBVIOUS
    <3>1. i - 1 \in 0 .. k - 1 /\ h[i - 1] = g[i - 1]
      BY <2>6, <2>10
    <3>2. CASE i = k
      BY <2>10, <3>1, <3>2
    <3>3. CASE i # k
      <4>1. i \in 1 .. k - 1 /\ i \in 0 .. k - 1
        BY <2>6, <3>3
      <4> QED
        BY <2>8, <2>10, <3>1, <4>1
    <3> QED
      BY <3>2, <3>3
  <2>13. LoopFrom(k, I, x, St, h)
    BY <2>10, <2>11, <2>12 DEF LoopFrom
  <2> QED
    BY <2>13 DEF B
<1>1. PICK g : LoopFrom(n, I, x, St, g)
  BY <1>0
<1> DEFINE h == [i \in 0 .. n |-> g[i]]
<1>2. \A i \in 0 .. n : h[i] = g[i]
  OBVIOUS
<1>3. DOMAIN h = 0 .. n /\ h = [i \in 0 .. n |-> h[i]]
  OBVIOUS
<1>4. 0 \in 0 .. n /\ \A i \in 1 .. n : i \in 0 .. n /\ i - 1 \in 0 .. n
  OBVIOUS
<1> HIDE DEF h
<1>5. LoopFrom(n, I, x, St, h)
  BY <1>1, <1>2, <1>3, <1>4 DEF LoopFrom
<1> QED
  BY <1>3, <1>5

\* The buffer after the first i records have been looked at.
RemovedUpTo(rtx, kept, acked, i) ==
    /\ \A j \in 1 .. Len(kept) : \E a \in 1 .. i : kept[j] = rtx[a]
    /\ \A a \in 1 .. i :
         IsTracked(rtx[a], acked) \/ \E j \in 1 .. Len(kept) : kept[j] = rtx[a]
    /\ \A j, k \in 1 .. Len(kept) : kept[j].msg.num = kept[k].msg.num => j = k

\* The records kept and the numbers not used up after i records.
LeftAfter(rtx, acked, i) ==
    {left \in [rtx : Seq(RtxRecord), acks : SUBSET acked] :
        RemovedUpTo(rtx, left.rtx, acked, i)}

\* A record that is not acknowledged is kept.
LEMMA KeepIs ==
    ASSUME NEW rtx \in Seq(RtxRecord), NEW acked, NEW i \in 1 .. Len(rtx),
           \A j, k \in 1 .. Len(rtx) : rtx[j].msg.num = rtx[k].msg.num => j = k,
           NEW kept \in Seq(RtxRecord), RemovedUpTo(rtx, kept, acked, i - 1)
    PROVE  /\ Append(kept, rtx[i]) \in Seq(RtxRecord)
           /\ RemovedUpTo(rtx, Append(kept, rtx[i]), acked, i)
<1>0. rtx[i] \in RtxRecord /\ Len(rtx) \in Nat /\ Len(kept) \in Nat
  OBVIOUS
<1>1. 1 .. i = (1 .. i - 1) \cup {i} /\ i \notin 1 .. i - 1 /\ 1 .. i \subseteq 1 .. Len(rtx)
  BY <1>0
<1> DEFINE n == Len(kept)
           more == Append(kept, rtx[i])
<1>2. /\ more \in Seq(RtxRecord) /\ Len(more) = n + 1 /\ more[n + 1] = rtx[i]
      /\ \A j \in 1 .. n : more[j] = kept[j]
  BY <1>0
<1>3. 1 .. n + 1 = (1 .. n) \cup {n + 1} /\ n + 1 \notin 1 .. n
  BY <1>0
<1> HIDE DEF more
<1>4. \A j \in 1 .. n : \E a \in 1 .. i - 1 : kept[j] = rtx[a]
  BY DEF RemovedUpTo
<1>5. \A j \in 1 .. n : kept[j].msg.num # rtx[i].msg.num
  <2> SUFFICES ASSUME NEW j \in 1 .. n PROVE kept[j].msg.num # rtx[i].msg.num
    OBVIOUS
  <2>1. PICK a \in 1 .. i - 1 : kept[j] = rtx[a]
    BY <1>4
  <2>2. a # i /\ a \in 1 .. Len(rtx)
    BY <1>1
  <2> QED
    BY <2>1, <2>2
<1>6. \A j \in 1 .. n + 1 : \E a \in 1 .. i : more[j] = rtx[a]
  <2>1. \A j \in 1 .. n : \E a \in 1 .. i : more[j] = rtx[a]
    BY <1>1, <1>2, <1>4
  <2>2. \E a \in 1 .. i : more[n + 1] = rtx[a]
    BY <1>1, <1>2
  <2> QED
    BY <1>3, <2>1, <2>2
<1>7. \A a \in 1 .. i :
       IsTracked(rtx[a], acked) \/ \E j \in 1 .. n + 1 : more[j] = rtx[a]
  <2>1. \A a \in 1 .. i - 1 :
          IsTracked(rtx[a], acked) \/ \E j \in 1 .. n : kept[j] = rtx[a]
    BY DEF RemovedUpTo
  <2> QED
    BY <1>1, <1>2, <1>3, <2>1
<1>8. \A j, k \in 1 .. n + 1 : more[j].msg.num = more[k].msg.num => j = k
  <2>1. \A j, k \in 1 .. n : kept[j].msg.num = kept[k].msg.num => j = k
    BY DEF RemovedUpTo
  <2> QED
    BY <1>2, <1>3, <1>5, <2>1
<1>9. RemovedUpTo(rtx, more, acked, i)
  BY <1>2, <1>6, <1>7, <1>8 DEF RemovedUpTo
<1> QED
  BY <1>2, <1>9 DEF more

\* One record is removed with a number that tracks it, or kept.
LEMMA RemoveOneIs ==
    ASSUME NEW rtx \in Seq(RtxRecord), NEW acked, NEW i \in 1 .. Len(rtx),
           \A j, k \in 1 .. Len(rtx) : rtx[j].msg.num = rtx[k].msg.num => j = k,
           NEW left \in LeftAfter(rtx, acked, i - 1)
    PROVE  RemoveOne(left, rtx[i]) \in LeftAfter(rtx, acked, i)
<1>1. /\ left \in [rtx : Seq(RtxRecord), acks : SUBSET acked]
      /\ RemovedUpTo(rtx, left.rtx, acked, i - 1)
  BY DEF LeftAfter
<1>2. left.rtx \in Seq(RtxRecord) /\ left.acks \subseteq acked
  BY <1>1
<1>3. CASE Tracking(rtx[i], left.acks) = {}
  <2>1. RemoveOne(left, rtx[i]) = [left EXCEPT !.rtx = Append(left.rtx, rtx[i])]
    BY <1>1, <1>3 DEF RemoveOne
  <2>2. /\ Append(left.rtx, rtx[i]) \in Seq(RtxRecord)
        /\ RemovedUpTo(rtx, Append(left.rtx, rtx[i]), acked, i)
    BY <1>1, <1>2, KeepIs
  <2> QED
    BY <1>1, <2>1, <2>2 DEF LeftAfter
<1>4. CASE Tracking(rtx[i], left.acks) # {}
  <2> DEFINE a == <<rtx[i].epoch, Min(Tracking(rtx[i], left.acks))>>
  <2>1. RemoveOne(left, rtx[i]) = [left EXCEPT !.acks = left.acks \ {a}]
    BY <1>1, <1>4 DEF RemoveOne
  <2>2. IsTracked(rtx[i], acked)
    BY <1>2, <1>4 DEF Tracking, IsTracked
  <2>3. 1 .. i = (1 .. i - 1) \cup {i}
    OBVIOUS
  <2>4. RemovedUpTo(rtx, left.rtx, acked, i)
    BY <1>1, <2>2, <2>3 DEF RemovedUpTo
  <2> HIDE DEF a
  <2> QED
    BY <1>1, <1>2, <2>1, <2>4 DEF LeftAfter
<1> QED
  BY <1>3, <1>4

\* Dtls13RtxRemoveRecord for the numbers of an ACK.
LEMMA RtxRemoveRecordsIs ==
    ASSUME NEW rtx \in Seq(RtxRecord), NEW acked,
           \A j, k \in 1 .. Len(rtx) : rtx[j].msg.num = rtx[k].msg.num => j = k
    PROVE  /\ Removed(rtx, RtxRemoveRecords(rtx, acked), acked)
           /\ LET kept == RtxRemoveRecords(rtx, acked)
              IN  \A j, k \in 1 .. Len(kept) :
                     kept[j].msg.num = kept[k].msg.num => j = k
<1> DEFINE n == Len(rtx)
           x == [rtx |-> <<>>, acks |-> acked]
           I == [i \in 0 .. n |-> LeftAfter(rtx, acked, i)]
           St == [i \in 1 .. n |-> [k \in I[i - 1] |-> RemoveOne(k, rtx[i])]]
           IsLoop(f) == f = [i \in 0 .. n |-> IF i = 0 THEN x
                                               ELSE RemoveOne(f[i - 1], rtx[i])]
           kept == CHOOSE f : IsLoop(f)
<1>0. n \in Nat
  OBVIOUS
<1>1. RtxRemoveRecords(rtx, acked) = kept[n].rtx
  BY Zenon DEF RtxRemoveRecords
<1>2. x \in I[0]
  <2>1. RemovedUpTo(rtx, <<>>, acked, 0)
    BY DEF RemovedUpTo
  <2> QED
    BY <1>0, <2>1 DEF LeftAfter
<1> HIDE DEF x
<1>3. \A i \in 1 .. n : i \in 0 .. n /\ i - 1 \in 0 .. n /\ i # 0
  BY <1>0
<1>4. ASSUME NEW i \in 1 .. n, NEW k \in I[i - 1]
      PROVE  RemoveOne(k, rtx[i]) \in I[i]
  BY <1>3, RemoveOneIs
<1> HIDE DEF I
<1>5. \A i \in 1 .. n : \A k \in I[i - 1] : St[i][k] = RemoveOne(k, rtx[i])
  OBVIOUS
<1> HIDE DEF St
<1>6. PICK g : LoopFrom(n, I, x, St, g) /\ g = [i \in 0 .. n |-> g[i]]
  <2>1. \A i \in 1 .. n : \A k \in I[i - 1] : St[i][k] \in I[i]
    BY <1>4, <1>5
  <2> HIDE DEF n
  <2> QED
    BY <1>0, <1>2, <2>1, LoopExists, ZenonT(120)
<1>7. IsLoop(g)
  <2>1. \A i \in 0 .. n : g[i] = IF i = 0 THEN x
                                 ELSE RemoveOne(g[i - 1], rtx[i])
    <3> SUFFICES ASSUME NEW i \in 0 .. n, i # 0
                 PROVE  g[i] = RemoveOne(g[i - 1], rtx[i])
      BY <1>6 DEF LoopFrom
    <3>1. i \in 1 .. n /\ i - 1 \in 0 .. n
      BY <1>0
    <3> QED
      BY <1>5, <1>6, <3>1 DEF LoopFrom
  <2> QED
    BY <1>6, <2>1
<1>8. IsLoop(kept)
  <2> HIDE DEF IsLoop
  <2> QED
    BY <1>7
<1> HIDE DEF kept
<1>9. kept[0] = x /\ \A i \in 1 .. n : kept[i] = RemoveOne(kept[i - 1], rtx[i])
  BY <1>0, <1>3, <1>8
<1>10. kept[n] \in I[n]
  <2>1. \A i \in 1 .. n : kept[i - 1] \in I[i - 1] => kept[i] \in I[i]
    BY <1>4, <1>9
  <2> HIDE DEF n, IsLoop
  <2>2. \A i \in 0 .. n : kept[i] \in I[i]
    BY <1>0, <1>2, <1>9, <2>1, LoopInvariant
  <2> QED
    BY <1>0, <2>2
<1>11. kept[n].rtx \in Seq(RtxRecord) /\ RemovedUpTo(rtx, kept[n].rtx, acked, n)
  BY <1>0, <1>10 DEF I, LeftAfter
<1> QED
  BY <1>1, <1>11 DEF RemovedUpTo, Removed

-----------------------------------------------------------------------------
(***************************************************************************)
(* A call of the library by p: w is the state the handlers work on, q the  *)
(* other endpoint, N the records in flight when the call started.  The     *)
(* messages before k, and before from, count as applied to the read epoch  *)
(* of q and of p; A are the numbers p may find acknowledged, B those that  *)
(* p acknowledges.                                                         *)
(***************************************************************************)
Flight(w, N) == N \cup w.out

Setting(p, q, k, from, N, A, B) ==
    /\ p \in Peer /\ q \in State /\ Local(q)
    /\ N \subseteq Rec /\ A \subseteq Number /\ B \subseteq Number
    /\ k \in Nat /\ from \in Nat

Call(p, w, q, k, from, N, A, B) ==
    /\ Setting(p, q, k, from, N, A, B)
    /\ w \in Works /\ Local(w.s) /\ w.s.timeouts <= TIMEOUTS
    /\ \A rec \in w.out : rec.from = p
    /\ Direction(p, w.s, q, k, Flight(w, N), A)
    /\ Direction(Other(p), q, w.s, from, Flight(w, N), B)
    /\ AckedNumbers(Other(p), Flight(w, N)) \subseteq B

\* What handlers that only send leave alone.
Keeps(w, v) ==
    /\ v.s.epoch = w.s.epoch /\ v.s.expected = w.s.expected
    /\ v.s.stored = w.s.stored /\ v.s.seen \subseteq w.s.seen
    /\ v.sendAcks = w.sendAcks /\ v.retransmit = w.retransmit
    /\ v.doKeyUpdate = w.doKeyUpdate

\* The keys are those of the slot, or will be loaded before they are used.
Loadable(s) == KeysMatch(s) \/ s.enc # s.epoch

\* The fields of a handler's state, and what replacing the endpoint's leaves.
LEMMA WorkIs ==
    ASSUME NEW w \in Works
    PROVE  /\ w.s \in State /\ w.out \subseteq Rec /\ w.sendAcks \in BOOLEAN
           /\ w.retransmit \in BOOLEAN /\ w.doKeyUpdate \in BOOLEAN
           /\ \A t \in State :
                /\ [w EXCEPT !.s = t] \in Works /\ [w EXCEPT !.s = t].s = t
                /\ [w EXCEPT !.s = t].out = w.out
                /\ [w EXCEPT !.s = t].sendAcks = w.sendAcks
                /\ [w EXCEPT !.s = t].retransmit = w.retransmit
                /\ [w EXCEPT !.s = t].doKeyUpdate = w.doKeyUpdate
BY DEF Works

\* What a call has in flight are records, between two different endpoints.
LEMMA FlightIs ==
    ASSUME NEW p, NEW w, NEW q, NEW k, NEW from, NEW N, NEW A, NEW B,
           Call(p, w, q, k, from, N, A, B)
    PROVE  /\ Flight(w, N) \subseteq Rec /\ Other(p) \in Peer /\ Other(p) # p
           /\ Other(Other(p)) = p
BY WorkIs DEF Call, Setting, Flight, Other, Peer

\* Steps on fields that the invariant does not read.
LEMMA CallQuiet ==
    ASSUME NEW p, NEW w, NEW q, NEW k, NEW from, NEW N, NEW A, NEW B,
           Call(p, w, q, k, from, N, A, B),
           NEW v \in Works, v.out = w.out, SameSlots(w.s, v.s),
           v.s.epoch = w.s.epoch, v.s.peerEpoch = w.s.peerEpoch,
           v.s.enc = w.s.enc, v.s.key = w.s.key, v.s.rtx = w.s.rtx,
           v.s.num = w.s.num, v.s.wait = w.s.wait,
           v.s.expected = w.s.expected, v.s.stored = w.s.stored,
           v.s.timeouts <= TIMEOUTS
    PROVE  /\ Call(p, v, q, k, from, N, A, B)
           /\ KeysMatch(w.s) => KeysMatch(v.s)
<1>0. w \in Works /\ w.s \in State /\ v.s \in State
  BY WorkIs DEF Call
<1>1. Local(v.s) /\ SlotsKept(w.s, v.s) /\ (KeysMatch(w.s) => KeysMatch(v.s))
  BY <1>0, LocalSame DEF Call
<1>2. Flight(v, N) = Flight(w, N) /\ Flight(v, N) \subseteq Rec
  BY FlightIs DEF Flight
<1>3. Direction(p, v.s, q, k, Flight(v, N), A)
  <2>1. Direction(p, w.s, q, k, Flight(v, N), A) /\ A \subseteq Number
    BY <1>2 DEF Call, Setting
  <2>2. w.s.peerEpoch <= v.s.peerEpoch
    BY <1>0, StateFields
  <2> QED
    BY <1>0, <1>1, <1>2, <2>1, <2>2, SenderQuiet
<1>4. Direction(Other(p), q, v.s, from, Flight(v, N), B)
  <2>1. Direction(Other(p), q, w.s, from, Flight(v, N), B)
    BY <1>2 DEF Call
  <2>2. \A e : CanDecrypt(w.s, e) => CanDecrypt(v.s, e)
    BY DEF SameSlots, CanDecrypt
  <2> QED
    BY <2>1, <2>2, ReceiverQuiet
<1> QED
  BY <1>1, <1>2, <1>3, <1>4 DEF Call

\* Steps that load keys.
LEMMA CallLoads ==
    ASSUME NEW p, NEW w, NEW q, NEW k, NEW from, NEW N, NEW A, NEW B,
           Call(p, w, q, k, from, N, A, B), Ok(w), NEW e \in Nat, e >= TRAFFIC0,
           KeysMatch(w.s) \/ (e = w.s.epoch /\ w.s.enc # w.s.epoch)
    PROVE  LET v == EncryptWith(w, e)
           IN  /\ Call(p, v, q, k, from, N, A, B) /\ Keeps(w, v)
               /\ v.s.slots = w.s.slots /\ v.s.rtx = w.s.rtx /\ v.s.num = w.s.num
               /\ v.s.wait = w.s.wait /\ v.s.peerEpoch = w.s.peerEpoch
               /\ v.out = w.out
               /\ \/ Ok(v) /\ KeysMatch(v.s) /\ v.s.enc = e
                  \/ /\ v.s.err = "state" /\ e # v.s.epoch
                     /\ e \in DOMAIN v.s.slots => v.s.slots[e].side = Dec
<1>0. w \in Works /\ w.s \in State /\ Local(w.s)
  BY WorkIs DEF Call
<1> DEFINE v == EncryptWith(w, e)
           t == [w.s EXCEPT !.enc = e, !.key = IF w.s.slots[e].own THEN e ELSE Wiped]
           f == [w.s EXCEPT !.err = "state"]
<1>1. CASE w.s.enc = e /\ v = w
  BY <1>1 DEF Keeps
<1>2. CASE /\ w.s.enc # e /\ e \in DOMAIN w.s.slots /\ w.s.slots[e].side # Dec
           /\ v = [w EXCEPT !.s = t]
  <2>1. t \in State
    BY <1>0 DEF State, Wiped
  <2>2. /\ t.slots = w.s.slots /\ t.epoch = w.s.epoch /\ t.peerEpoch = w.s.peerEpoch
        /\ t.rtx = w.s.rtx /\ t.num = w.s.num /\ t.wait = w.s.wait /\ t.enc = e
        /\ t.key = IF w.s.slots[e].own THEN e ELSE Wiped
        /\ t.expected = w.s.expected /\ t.stored = w.s.stored
        /\ t.seen = w.s.seen /\ t.err = w.s.err /\ t.timeouts = w.s.timeouts
    BY <1>0 DEF State
  <2> HIDE DEF t, v
  <2>3. /\ v \in Works /\ v.s = t /\ v.out = w.out /\ v.sendAcks = w.sendAcks
        /\ v.retransmit = w.retransmit /\ v.doKeyUpdate = w.doKeyUpdate
    BY <1>0, <1>2, <2>1, WorkIs
  <2>4. Local(t) /\ KeysMatch(t) /\ SlotsKept(w.s, t)
    BY <1>0, <1>2, <2>1, <2>2, LocalLoads
  <2>5. Flight(v, N) = Flight(w, N) /\ Flight(v, N) \subseteq Rec
    BY <2>3, FlightIs DEF Flight
  <2>6. Direction(p, t, q, k, Flight(v, N), A)
    <3>1. Direction(p, w.s, q, k, Flight(v, N), A) /\ A \subseteq Number
      BY <2>5 DEF Call, Setting
    <3>2. w.s.peerEpoch <= t.peerEpoch
      BY <1>0, <2>2, StateFields
    <3> QED
      BY <1>0, <2>1, <2>2, <2>4, <2>5, <3>1, <3>2, SenderQuiet
  <2>7. Direction(Other(p), q, t, from, Flight(v, N), B)
    <3>1. Direction(Other(p), q, w.s, from, Flight(v, N), B)
      BY <2>5 DEF Call
    <3>2. \A x : CanDecrypt(w.s, x) => CanDecrypt(t, x)
      BY <2>2 DEF CanDecrypt
    <3> QED
      BY <2>2, <3>1, <3>2, ReceiverQuiet
  <2>8. Call(p, v, q, k, from, N, A, B)
    BY <2>2, <2>3, <2>4, <2>5, <2>6, <2>7 DEF Call
  <2> QED
    BY <2>2, <2>3, <2>4, <2>8 DEF Keeps, Ok, v
<1>3. CASE /\ w.s.enc # e /\ (e \in DOMAIN w.s.slots => w.s.slots[e].side = Dec)
           /\ v = [w EXCEPT !.s = f]
  <2>1. f \in State
    BY <1>0 DEF State, Errors
  <2>2. /\ f.slots = w.s.slots /\ f.epoch = w.s.epoch /\ f.peerEpoch = w.s.peerEpoch
        /\ f.rtx = w.s.rtx /\ f.num = w.s.num /\ f.wait = w.s.wait
        /\ f.enc = w.s.enc /\ f.key = w.s.key
        /\ f.expected = w.s.expected /\ f.stored = w.s.stored
        /\ f.seen = w.s.seen /\ f.err = "state" /\ f.timeouts = w.s.timeouts
    BY <1>0 DEF State
  <2> HIDE DEF f, v
  <2>3. /\ v \in Works /\ v.s = f /\ v.out = w.out /\ v.sendAcks = w.sendAcks
        /\ v.retransmit = w.retransmit /\ v.doKeyUpdate = w.doKeyUpdate
    BY <1>0, <1>3, <2>1, WorkIs
  <2>4. SameSlots(w.s, v.s) /\ v.s.timeouts <= TIMEOUTS
    BY <2>2, <2>3 DEF SameSlots, Call
  <2>5. Call(p, v, q, k, from, N, A, B)
    BY <2>2, <2>3, <2>4, CallQuiet
  <2>6. e # w.s.epoch
    BY <1>0, <1>3 DEF Local, TableInv
  <2> QED
    BY <1>3, <2>2, <2>3, <2>5, <2>6 DEF Keeps, v
<1> QED
  BY <1>0, <1>1, <1>2, <1>3, EncryptWithIs

-----------------------------------------------------------------------------
(***************************************************************************)
(* Sending.                                                                *)
(***************************************************************************)

\* Using a record number.
LEMMA NextTable ==
    ASSUME NEW s \in State, NEW e \in DOMAIN s.slots, NEW T,
           T = [s.slots EXCEPT ![e].next = @ + 1]
    PROVE  /\ T \in Table
           /\ \A t : t.slots = T => NumberUsed(s, t, e)
<1>1. /\ s.slots \in Table /\ DOMAIN s.slots \subseteq Nat
      /\ \A x \in DOMAIN s.slots : s.slots[x] \in Slot
  BY StateFields
<1>2. DOMAIN T = DOMAIN s.slots /\ T = [x \in DOMAIN T |-> T[x]]
  OBVIOUS
<1>3. \A x \in DOMAIN T : x # e => T[x] = s.slots[x]
  OBVIOUS
<1>4. T[e] = [s.slots[e] EXCEPT !.next = @ + 1]
  OBVIOUS
<1>5. /\ T[e] \in Slot /\ T[e].own = s.slots[e].own /\ T[e].side = s.slots[e].side
      /\ T[e].next = s.slots[e].next + 1
  BY <1>1, <1>4 DEF Slot
<1>6. T \in [DOMAIN T -> Slot]
  BY <1>1, <1>2, <1>3, <1>5
<1>7. T \in Table
  BY <1>1, <1>2, <1>6, TableIs
<1> HIDE DEF NumberUsed
<1>8. ASSUME NEW t, t.slots = T PROVE NumberUsed(s, t, e)
  BY <1>2, <1>3, <1>5, <1>8 DEF NumberUsed
<1> QED
  BY <1>7, <1>8

\* The parts of a handler's state that a send changes.
Sends(u, t, rec) == [u EXCEPT !.s = t, !.out = @ \cup {rec}]

\* A send adds its record to what is in flight.
LEMMA SendsIs ==
    ASSUME NEW u \in Works, NEW t \in State, NEW rec \in Rec
    PROVE  LET v == Sends(u, t, rec)
           IN  /\ v \in Works /\ v.s = t /\ v.out = u.out \cup {rec}
               /\ v.sendAcks = u.sendAcks /\ v.retransmit = u.retransmit
               /\ v.doKeyUpdate = u.doKeyUpdate
               /\ \A N : Flight(v, N) = Flight(u, N) \cup {rec}
BY DEF Works, Sends, Flight

\* The record of a handshake message names the loaded epoch and its keys.
LEMMA HandshakeRecIs ==
    ASSUME NEW p \in Peer, NEW s \in State, NEW m \in Message, NEW n \in Nat
    PROVE  LET rec == Record(p, s, "handshake", [seq |-> n, msg |-> m])
           IN  /\ rec \in Rec /\ rec.from = p /\ rec.epoch = s.enc
               /\ rec.key = s.key /\ rec.type = "handshake"
               /\ rec.body.msg = m /\ rec.body.seq = n
<1>1. s.enc \in Nat /\ s.key \in Nat
  BY StateFields
<1> QED
  BY <1>1 DEF Record, Rec, HandshakeRec

\* A record of p's to the other endpoint is none of the other's.
LEMMA OtherDirection ==
    ASSUME NEW p, NEW w, NEW q, NEW k, NEW from, NEW N, NEW A, NEW B,
           Call(p, w, q, k, from, N, A, B), NEW rec, rec.from = p,
           rec.type # "ack" \/ rec.body \subseteq B
    PROVE  /\ Direction(Other(p), q, w.s, from, Flight(w, N) \cup {rec}, B)
           /\ AckedNumbers(Other(p), Flight(w, N) \cup {rec}) \subseteq B
<1>1. rec.from # Other(p)
  BY FlightIs
<1>2. Direction(Other(p), q, w.s, from, Flight(w, N), B)
  BY DEF Call
<1>3. Direction(Other(p), q, w.s, from, Flight(w, N) \cup {rec}, B)
  BY <1>1, <1>2, SenderSendsOther
<1>4. AckedNumbers(Other(p), Flight(w, N)) \subseteq B
  BY DEF Call
<1>5. AckedNumbers(Other(p), Flight(w, N) \cup {rec}) \subseteq B
  BY <1>4 DEF AckedNumbers
<1> QED
  BY <1>3, <1>5

\* Dtls13HandshakeSend
LEMMA CallHandshakeSend ==
    ASSUME NEW p, NEW w, NEW q, NEW k, NEW from, NEW N, NEW A, NEW B,
           Call(p, w, q, k, from, N, A, B), Ok(w), Loadable(w.s),
           NEW kind \in {"key_update", "ticket"}, NEW req \in BOOLEAN,
           kind = "key_update" => ~ w.s.wait /\ w.s.epoch < EPOCH_MAX
    PROVE  LET v == HandshakeSend(p, w, kind, req)
           IN  /\ Call(p, v, q, k, from, N, A, B) /\ Keeps(w, v)
               /\ Ok(v) /\ KeysMatch(v.s) /\ v.s.peerEpoch = w.s.peerEpoch
<1> DEFINE u == EncryptWith(w, w.s.epoch)
           e == u.s.enc
           m == [num |-> u.s.num, kind |-> kind, req |-> req]
           r == [msg |-> m, epoch |-> e, seqs |-> {u.s.slots[e].next}]
           rec == Record(p, u.s, "handshake", [seq |-> u.s.slots[e].next, msg |-> m])
           T == [u.s.slots EXCEPT ![e].next = @ + 1]
           t == [u.s EXCEPT !.slots = T, !.rtx = Append(@, r), !.num = @ + 1,
                            !.wait = @ \/ kind = "key_update"]
           v == HandshakeSend(p, w, kind, req)
<1>0. /\ w \in Works /\ w.s \in State /\ Local(w.s) /\ w.s.epoch \in Nat
      /\ w.s.epoch >= TRAFFIC0
  BY WorkIs, StateFields DEF Call, Local, TableInv
<1>1. KeysMatch(w.s) \/ w.s.enc # w.s.epoch
  BY DEF Loadable
<1>2. /\ Call(p, u, q, k, from, N, A, B) /\ Keeps(w, u)
      /\ u.s.slots = w.s.slots /\ u.s.rtx = w.s.rtx /\ u.s.num = w.s.num
      /\ u.s.wait = w.s.wait /\ u.s.peerEpoch = w.s.peerEpoch /\ u.out = w.out
      /\ \/ Ok(u) /\ KeysMatch(u.s) /\ u.s.enc = w.s.epoch
         \/ /\ u.s.err = "state" /\ w.s.epoch # u.s.epoch
            /\ w.s.epoch \in DOMAIN u.s.slots => u.s.slots[w.s.epoch].side = Dec
  BY <1>0, <1>1, CallLoads
<1>3. u.s.epoch = w.s.epoch
  BY <1>2 DEF Keeps
<1>4. Ok(u) /\ KeysMatch(u.s) /\ e = u.s.epoch
  BY <1>2, <1>3
<1>6. u \in Works /\ u.s \in State /\ Local(u.s) /\ u.out \subseteq Rec /\ p \in Peer
  BY <1>2, WorkIs DEF Call, Setting
<1>5. v = Sends(u, t, rec)
  <2> DEFINE sent == SendFragment(p, u, m)
             x == [u.s EXCEPT !.slots = T]
  <2>1. v = [sent EXCEPT !.s.rtx = Append(@, r), !.s.num = @ + 1,
                         !.s.wait = @ \/ kind = "key_update"]
    BY <1>4 DEF HandshakeSend
  <2>2. sent = [u EXCEPT !.s = x, !.out = @ \cup {rec}]
    BY <1>6 DEF SendFragment
  <2> HIDE DEF u, m, T, r, rec, sent
  <2>3. sent.s = x /\ [sent EXCEPT !.s = t] = Sends(u, t, rec)
    BY <1>6, <2>2 DEF Works, Sends
  <2>4. x.rtx = u.s.rtx /\ x.num = u.s.num /\ x.wait = u.s.wait
    BY <1>6 DEF State
  <2>5. t = [x EXCEPT !.rtx = Append(@, r), !.num = @ + 1,
                      !.wait = @ \/ kind = "key_update"]
    BY <1>6, <2>4 DEF State
  <2> HIDE DEF x, t
  <2>6. v = [sent EXCEPT !.s = [sent.s EXCEPT !.rtx = Append(@, r), !.num = @ + 1,
                                           !.wait = @ \/ kind = "key_update"]]
    BY <2>1
  <2> QED
    BY <2>3, <2>5, <2>6
<1> HIDE DEF u
<1>7. /\ e \in DOMAIN u.s.slots /\ u.s.slots[e].next \in Nat /\ u.s.num \in Nat
      /\ e \in Nat /\ u.s.slots[e].own /\ u.s.wait \in BOOLEAN
      /\ u.s.rtx \in Seq(RtxRecord) /\ u.s.key = e
  <2>1. e \in DOMAIN u.s.slots /\ u.s.slots[e].own
    BY <1>4, <1>6 DEF Local, TableInv
  <2>2. u.s.key = e
    BY <1>4, <2>1 DEF KeysMatch
  <2> QED
    BY <1>6, <2>1, <2>2, StateFields
<1>8. m \in Message /\ m.num = u.s.num /\ m.kind = kind
  BY <1>7 DEF Message
<1>9. r \in RtxRecord /\ r.msg = m /\ r.epoch = e /\ r.seqs = {u.s.slots[e].next}
  BY <1>7, <1>8 DEF RtxRecord
<1>10. /\ rec \in Rec /\ rec.from = p /\ rec.epoch = e /\ rec.key = e
       /\ rec.type = "handshake" /\ rec.body.msg = m
       /\ rec.body.seq = u.s.slots[e].next
  <2> HIDE DEF m
  <2> QED
    BY <1>6, <1>7, <1>8, HandshakeRecIs
<1>11. T \in Table /\ \A x : x.slots = T => NumberUsed(u.s, x, e)
  BY <1>6, <1>7, NextTable
<1> HIDE DEF T, r, m, rec
<1>12. t \in State
  <2>1. Append(u.s.rtx, r) \in Seq(RtxRecord) /\ u.s.num + 1 \in Nat
    BY <1>7, <1>9
  <2>2. (u.s.wait \/ kind = "key_update") \in BOOLEAN
    BY <1>7
  <2> QED
    BY <1>6, <1>11, <2>1, <2>2 DEF State
<1>13. /\ t.slots = T /\ t.rtx = Append(u.s.rtx, r) /\ t.num = u.s.num + 1
       /\ t.wait = (u.s.wait \/ kind = "key_update")
       /\ t.epoch = u.s.epoch /\ t.peerEpoch = u.s.peerEpoch /\ t.enc = u.s.enc
       /\ t.key = u.s.key /\ t.expected = u.s.expected /\ t.stored = u.s.stored
       /\ t.seen = u.s.seen /\ t.err = u.s.err /\ t.timeouts = u.s.timeouts
  BY <1>6 DEF State
<1> HIDE DEF t
<1>14. NumberUsed(u.s, t, e)
  BY <1>11, <1>13
<1>15. Local(t) /\ KeysMatch(t)
  <2>1. kind = "key_update" => ~ u.s.wait /\ u.s.epoch < EPOCH_MAX
    BY <1>2, <1>3
  <2> QED
    BY <1>4, <1>6, <1>8, <1>9, <1>12, <1>13, <1>14, <2>1, LocalSends
<1>16. Direction(p, t, q, k, Flight(u, N) \cup {rec}, A)
  <2>1. /\ Direction(p, u.s, q, k, Flight(u, N), A) /\ A \subseteq Number
        /\ k \in Nat /\ q \in State
    BY <1>2 DEF Call, Setting
  <2>2. Flight(u, N) \subseteq Rec
    BY <1>2, FlightIs
  <2>3. q.expected \in Nat /\ q.stored \subseteq Message
    BY <2>1, StateFields
  <2>4. /\ DOMAIN t.slots = DOMAIN u.s.slots
        /\ \A x \in DOMAIN u.s.slots :
              /\ t.slots[x].own = u.s.slots[x].own
              /\ t.slots[x].next = IF x = u.s.epoch THEN u.s.slots[x].next + 1
                                   ELSE u.s.slots[x].next
    BY <1>4, <1>14 DEF NumberUsed
  <2>5. m.kind = "key_update" => ~ u.s.wait
    BY <1>2, <1>8
  <2>6. /\ rec.epoch = u.s.epoch /\ rec.key = u.s.epoch /\ r.epoch = u.s.epoch
        /\ rec.body.seq = u.s.slots[u.s.epoch].next
        /\ r.seqs = {u.s.slots[u.s.epoch].next}
        /\ t.wait = (u.s.wait \/ m.kind = "key_update")
    BY <1>4, <1>8, <1>9, <1>10, <1>13, Zenon
  <2>7. /\ u.s \in State /\ Local(u.s) /\ t.epoch = u.s.epoch
        /\ t.peerEpoch = u.s.peerEpoch /\ t.num = u.s.num + 1
        /\ t.rtx = Append(u.s.rtx, r)
    BY <1>6, <1>13, Zenon
  <2> HIDE DEF u, e
  <2> QED
    BY <1>8, <1>9, <1>10, <1>12, <2>1, <2>2, <2>3, <2>4, <2>5, <2>6, <2>7,
       SenderSends
<1>17. /\ Direction(Other(p), q, t, from, Flight(u, N) \cup {rec}, B)
       /\ AckedNumbers(Other(p), Flight(u, N) \cup {rec}) \subseteq B
  <2>1. /\ Direction(Other(p), q, u.s, from, Flight(u, N) \cup {rec}, B)
        /\ AckedNumbers(Other(p), Flight(u, N) \cup {rec}) \subseteq B
    BY <1>2, <1>10, OtherDirection
  <2>2. \A x : CanDecrypt(u.s, x) => CanDecrypt(t, x)
    BY <1>14 DEF CanDecrypt, NumberUsed
  <2> QED
    BY <1>13, <2>1, <2>2, ReceiverQuiet
<1>18. /\ v \in Works /\ v.s = t /\ v.out = u.out \cup {rec}
       /\ v.sendAcks = u.sendAcks /\ v.retransmit = u.retransmit
       /\ v.doKeyUpdate = u.doKeyUpdate
       /\ Flight(v, N) = Flight(u, N) \cup {rec}
  BY <1>5, <1>6, <1>10, <1>12, SendsIs
<1> HIDE DEF v
<1>19. Call(p, v, q, k, from, N, A, B)
  <2>1. \A x \in v.out : x.from = p
    BY <1>2, <1>10, <1>18 DEF Call
  <2>2. v.s.timeouts <= TIMEOUTS
    BY <1>2, <1>13, <1>18 DEF Call
  <2> QED
    BY <1>2, <1>15, <1>16, <1>17, <1>18, <2>1, <2>2 DEF Call
<1>20. Keeps(w, v)
  BY <1>2, <1>13, <1>18 DEF Keeps
<1> QED
  BY <1>2, <1>4, <1>13, <1>15, <1>18, <1>19, <1>20 DEF Ok, v

\* The fields of a state that no part of the invariant reads.
Unread(s, t) ==
    /\ t \in State /\ t.slots = s.slots
    /\ t.epoch = s.epoch /\ t.peerEpoch = s.peerEpoch
    /\ t.enc = s.enc /\ t.key = s.key /\ t.rtx = s.rtx
    /\ t.num = s.num /\ t.wait = s.wait
    /\ t.expected = s.expected /\ t.stored = s.stored

\* Steps on fields no part of the invariant reads preserve it.
LEMMA CallUnread ==
    ASSUME NEW p, NEW w, NEW q, NEW k, NEW from, NEW N, NEW A, NEW B,
           Call(p, w, q, k, from, N, A, B), NEW v \in Works,
           v.out = w.out, Unread(w.s, v.s), v.s.timeouts <= TIMEOUTS
    PROVE  /\ Call(p, v, q, k, from, N, A, B)
           /\ KeysMatch(w.s) => KeysMatch(v.s)
           /\ Loadable(w.s) => Loadable(v.s)
<1>1. SameSlots(w.s, v.s)
  BY DEF SameSlots, Unread
<1>2. /\ Call(p, v, q, k, from, N, A, B)
      /\ KeysMatch(w.s) => KeysMatch(v.s)
  BY <1>1, CallQuiet DEF Unread
<1> QED
  BY <1>2 DEF Loadable, Unread

\* Ending a call with an error.
LEMMA CallFails ==
    ASSUME NEW p, NEW w, NEW q, NEW k, NEW from, NEW N, NEW A, NEW B,
           Call(p, w, q, k, from, N, A, B), NEW err \in Errors
    PROVE  /\ Call(p, Fail(w, err), q, k, from, N, A, B) /\ Keeps(w, Fail(w, err))
           /\ Fail(w, err).s.err = err
           /\ KeysMatch(w.s) => KeysMatch(Fail(w, err).s)
<1> DEFINE t == [w.s EXCEPT !.err = err]
<1>0. w \in Works /\ w.s \in State /\ w.s.timeouts <= TIMEOUTS
  BY WorkIs DEF Call
<1>1. t \in State
  BY <1>0 DEF State
<1>2. /\ Unread(w.s, t) /\ t.err = err /\ t.timeouts = w.s.timeouts
      /\ t.seen = w.s.seen /\ t.epoch = w.s.epoch
      /\ t.expected = w.s.expected /\ t.stored = w.s.stored
  BY <1>0, <1>1 DEF Unread, State
<1>3. Fail(w, err) = [w EXCEPT !.s = t]
  BY DEF Fail
<1> HIDE DEF t
<1>4. /\ Fail(w, err) \in Works /\ Fail(w, err).s = t
      /\ Fail(w, err).out = w.out /\ Fail(w, err).sendAcks = w.sendAcks
      /\ Fail(w, err).retransmit = w.retransmit
      /\ Fail(w, err).doKeyUpdate = w.doKeyUpdate
  BY <1>0, <1>1, <1>3, WorkIs
<1>5. /\ Call(p, Fail(w, err), q, k, from, N, A, B)
      /\ KeysMatch(w.s) => KeysMatch(Fail(w, err).s)
  BY <1>0, <1>2, <1>4, CallUnread
<1>6. Keeps(w, Fail(w, err))
  BY <1>2, <1>4 DEF Keeps
<1> QED
  BY <1>2, <1>4, <1>5, <1>6

\* SendTls13KeyUpdate
LEMMA CallSendKeyUpdate ==
    ASSUME NEW p, NEW w, NEW q, NEW k, NEW from, NEW N, NEW A, NEW B,
           Call(p, w, q, k, from, N, A, B), Ok(w), Loadable(w.s), ~ w.s.wait,
           NEW respond \in BOOLEAN
    PROVE  LET v == SendKeyUpdate(p, w, respond)
           IN  /\ Call(p, v, q, k, from, N, A, B) /\ Keeps(w, v)
               /\ (Ok(v) /\ KeysMatch(v.s)) \/ v.s.err = "limit"
               /\ v.s.peerEpoch = w.s.peerEpoch
<1> DEFINE flag == ~ w.s.req /\ ~ respond
           t == [w.s EXCEPT !.req = flag]
           u == [w EXCEPT !.s = t]
           v == SendKeyUpdate(p, w, respond)
<1>0. w \in Works /\ w.s \in State /\ w.s.timeouts <= TIMEOUTS
  BY WorkIs DEF Call
<1>1. CASE w.s.epoch >= EPOCH_MAX
  <2>1. v = Fail(w, "limit")
    BY <1>1 DEF SendKeyUpdate
  <2>2. "limit" \in Errors
    BY DEF Errors
  <2>3. Fail(w, "limit").s.peerEpoch = w.s.peerEpoch
    BY <1>0 DEF Fail, Works, State
  <2> QED
    BY <2>1, <2>2, <2>3, CallFails
<1>2. CASE ~ (w.s.epoch >= EPOCH_MAX)
  <2>1. t \in State
    BY <1>0 DEF State
  <2>2. /\ Unread(w.s, t) /\ t.err = w.s.err /\ t.timeouts = w.s.timeouts
        /\ t.seen = w.s.seen /\ t.wait = w.s.wait /\ t.epoch = w.s.epoch
        /\ t.expected = w.s.expected /\ t.stored = w.s.stored
        /\ t.peerEpoch = w.s.peerEpoch
    BY <1>0, <2>1 DEF Unread, State
  <2>3. v = HandshakeSend(p, u, "key_update", flag)
    BY <1>2 DEF SendKeyUpdate
  <2>4. flag \in BOOLEAN
    OBVIOUS
  <2> HIDE DEF t, flag
  <2>5. /\ u \in Works /\ u.s = t /\ u.out = w.out /\ u.sendAcks = w.sendAcks
        /\ u.retransmit = w.retransmit /\ u.doKeyUpdate = w.doKeyUpdate
    BY <1>0, <2>1, WorkIs
  <2> HIDE DEF u
  <2>6. Call(p, u, q, k, from, N, A, B) /\ Loadable(u.s)
    BY <1>0, <2>2, <2>5, CallUnread
  <2>7. Ok(u) /\ ~ u.s.wait /\ u.s.epoch < EPOCH_MAX
    <3>1. w.s.epoch \in Nat /\ EPOCH_MAX \in Nat
      BY <1>0, StateFields, KeyUpdateAssumption
    <3> QED
      BY <1>2, <2>2, <2>5, <3>1 DEF Ok
  <2>8. /\ Call(p, v, q, k, from, N, A, B) /\ Keeps(u, v)
        /\ Ok(v) /\ KeysMatch(v.s) /\ v.s.peerEpoch = u.s.peerEpoch
    BY <2>3, <2>4, <2>6, <2>7, CallHandshakeSend
  <2>9. Keeps(w, v)
    BY <2>2, <2>5, <2>8 DEF Keeps
  <2> QED
    BY <2>2, <2>5, <2>8, <2>9
<1> QED
  BY <1>1, <1>2

\* SendDtls13Ack
LEMMA CallSendAck ==
    ASSUME NEW p, NEW w, NEW q, NEW k, NEW from, NEW N, NEW A, NEW B,
           Call(p, w, q, k, from, N, A, B), Ok(w), Loadable(w.s),
           w.s.seen \subseteq B
    PROVE  LET v == SendAck(p, w)
           IN  /\ Call(p, v, q, k, from, N, A, B) /\ Keeps(w, v)
               /\ Ok(v) /\ KeysMatch(v.s)
<1> DEFINE u == EncryptWith(w, w.s.epoch)
           rec == Record(p, u.s, "ack", u.s.seen)
           t == [u.s EXCEPT !.seen = {}]
           v == SendAck(p, w)
<1>0. /\ w \in Works /\ w.s \in State /\ Local(w.s) /\ w.s.epoch \in Nat
      /\ w.s.epoch >= TRAFFIC0 /\ p \in Peer
  BY WorkIs, StateFields DEF Call, Setting, Local, TableInv
<1>1. KeysMatch(w.s) \/ w.s.enc # w.s.epoch
  BY DEF Loadable
<1>2. /\ Call(p, u, q, k, from, N, A, B) /\ Keeps(w, u)
      /\ u.out = w.out
      /\ \/ Ok(u) /\ KeysMatch(u.s) /\ u.s.enc = w.s.epoch
         \/ u.s.err = "state" /\ w.s.epoch # u.s.epoch
  BY <1>0, <1>1, CallLoads
<1>3. u.s.epoch = w.s.epoch /\ u.s.seen \subseteq B
  BY <1>2 DEF Keeps
<1>4. Ok(u) /\ KeysMatch(u.s) /\ u.s.enc = u.s.epoch
  BY <1>2, <1>3
<1>5. u \in Works /\ u.s \in State /\ Local(u.s) /\ u.s.timeouts <= TIMEOUTS
  BY <1>2, WorkIs DEF Call, Setting
<1>6. v = Sends(u, t, rec)
  BY <1>4, <1>5 DEF SendAck, Sends
<1> HIDE DEF u
<1>7. t \in State
  BY <1>5, SeenIs DEF State
<1>8. /\ Unread(u.s, t) /\ t.err = u.s.err /\ t.timeouts = u.s.timeouts
      /\ t.seen = {} /\ t.epoch = u.s.epoch
      /\ t.expected = u.s.expected /\ t.stored = u.s.stored
  BY <1>5, <1>7 DEF Unread, State
<1> HIDE DEF t
<1>9. u.s.key = u.s.epoch
  BY <1>4, <1>5 DEF KeysMatch, Local, TableInv
<1>10. /\ rec \in Rec /\ rec.from = p /\ rec.epoch = u.s.epoch
       /\ rec.key = u.s.epoch /\ rec.type = "ack" /\ rec.body = u.s.seen
  <2>1. u.s.seen \subseteq Number /\ u.s.epoch \in Nat
    BY <1>5, StateFields
  <2> QED
    BY <1>0, <1>4, <1>9, <2>1 DEF Record, Rec, AckRec
<1> HIDE DEF rec
<1> DEFINE x == [u EXCEPT !.s = t]
<1>11. /\ x \in Works /\ x.s = t /\ x.out = u.out
  BY <1>5, <1>7, WorkIs
<1> HIDE DEF x
<1>12. Call(p, x, q, k, from, N, A, B) /\ KeysMatch(x.s)
  BY <1>2, <1>4, <1>5, <1>8, <1>11, CallUnread
<1>13. Flight(x, N) = Flight(u, N)
  BY <1>11 DEF Flight
<1>14. /\ v \in Works /\ v.s = t /\ v.out = u.out \cup {rec}
       /\ v.sendAcks = u.sendAcks /\ v.retransmit = u.retransmit
       /\ v.doKeyUpdate = u.doKeyUpdate
       /\ Flight(v, N) = Flight(x, N) \cup {rec}
  BY <1>5, <1>6, <1>7, <1>10, <1>13, SendsIs
<1>15. Direction(p, t, q, k, Flight(v, N), A)
  <2>1. Direction(p, t, q, k, Flight(x, N), A)
    BY <1>11, <1>12 DEF Call
  <2>2. /\ rec.type # "handshake" /\ rec.key = rec.epoch /\ rec.epoch <= t.epoch
    BY <1>5, <1>8, <1>10, StateFields
  <2> QED
    BY <1>14, <2>1, <2>2, SenderSendsOther
<1>16. /\ Direction(Other(p), q, t, from, Flight(v, N), B)
       /\ AckedNumbers(Other(p), Flight(v, N)) \subseteq B
  <2>1. rec.from = p /\ rec.body \subseteq B
    BY <1>3, <1>10
  <2>2. /\ Direction(Other(p), q, x.s, from, Flight(x, N) \cup {rec}, B)
        /\ AckedNumbers(Other(p), Flight(x, N) \cup {rec}) \subseteq B
    BY <1>12, <2>1, OtherDirection
  <2> QED
    BY <1>11, <1>14, <2>2
<1> HIDE DEF v
<1>17. Call(p, v, q, k, from, N, A, B)
  <2>1. \A y \in v.out : y.from = p
    BY <1>2, <1>10, <1>14 DEF Call
  <2>2. v.s.timeouts <= TIMEOUTS
    BY <1>5, <1>8, <1>14
  <2>3. Local(t)
    BY <1>11, <1>12 DEF Call
  <2> QED
    BY <1>2, <1>14, <1>15, <1>16, <2>1, <2>2, <2>3 DEF Call
<1>18. Keeps(w, v)
  BY <1>2, <1>8, <1>14 DEF Keeps
<1> QED
  BY <1>4, <1>8, <1>11, <1>12, <1>14, <1>17, <1>18 DEF Ok, v

\* The state of a call that sends the records of the buffer again.
Resending(w, v) ==
    /\ Keeps(w, v) /\ Len(v.s.rtx) = Len(w.s.rtx)
    /\ \/ Ok(v) /\ KeysMatch(v.s)
       \/ v.s.err = "state" /\ Evicted(v.s)

\* The numbers a record is known under after another transmission.
LEMMA SeqsIs ==
    ASSUME NEW S, S \subseteq Nat, S # {}, IsFiniteSet(S), NEW n \in Nat,
           Cardinality(S) <= RETRANS_RN_SIZE, NEW R,
           R = IF Cardinality(S) >= RETRANS_RN_SIZE THEN {n} ELSE S \cup {n}
    PROVE  /\ R \subseteq S \cup {n} /\ R # {} /\ IsFiniteSet(R) /\ R \subseteq Nat
           /\ Cardinality(R) <= RETRANS_RN_SIZE
<1>0. RETRANS_RN_SIZE \in Nat \ {0} /\ Cardinality(S) \in Nat
  BY KeyUpdateAssumption, FS_CardinalityType
<1>1. CASE Cardinality(S) >= RETRANS_RN_SIZE
  <2>1. R = {n}
    BY <1>1
  <2>2. IsFiniteSet(R) /\ Cardinality(R) = 1
    BY <2>1, FS_Singleton
  <2> QED
    BY <1>0, <2>1, <2>2
<1>2. CASE ~ (Cardinality(S) >= RETRANS_RN_SIZE)
  <2>1. R = S \cup {n}
    BY <1>2
  <2>2. IsFiniteSet(R) /\ (Cardinality(R) = Cardinality(S) \/ Cardinality(R) = Cardinality(S) + 1)
    BY <2>1, FS_AddElement
  <2> QED
    BY <1>0, <1>2, <2>1, <2>2
<1> QED
  BY <1>1, <1>2

\* Setting the numbers of one record of the buffer.
SeqsSet(rtx, i, R) == [rtx EXCEPT ![i].seqs = R]

Renumbered(rtx, new, i, R) ==
    /\ new \in Seq(RtxRecord) /\ Len(new) = Len(rtx)
    /\ \A j \in 1 .. Len(rtx) : j # i => new[j] = rtx[j]
    /\ new[i].msg = rtx[i].msg /\ new[i].epoch = rtx[i].epoch
    /\ new[i].seqs = R

\* Noting a number of one buffered record leaves the others alone.
LEMMA RtxUpdated ==
    ASSUME NEW rtx \in Seq(RtxRecord), NEW i \in 1 .. Len(rtx),
           NEW R, R \subseteq Nat
    PROVE  Renumbered(rtx, SeqsSet(rtx, i, R), i, R)
<1> DEFINE new == [rtx EXCEPT ![i].seqs = R]
<1>1. rtx \in [1 .. Len(rtx) -> RtxRecord] /\ rtx[i] \in RtxRecord
  OBVIOUS
<1>2. new[i] = [rtx[i] EXCEPT !.seqs = R] /\ DOMAIN new = 1 .. Len(rtx)
  BY <1>1
<1>3. /\ new[i] \in RtxRecord /\ new[i].msg = rtx[i].msg
      /\ new[i].epoch = rtx[i].epoch /\ new[i].seqs = R
  BY <1>1, <1>2 DEF RtxRecord
<1>4. \A j \in 1 .. Len(rtx) : j # i => new[j] = rtx[j]
  BY <1>1
<1>5. new \in [1 .. Len(rtx) -> RtxRecord]
  <2>1. new = [j \in 1 .. Len(rtx) |-> new[j]]
    BY <1>1, <1>2
  <2> QED
    BY <1>1, <1>3, <1>4, <2>1
<1>6. new \in Seq(RtxRecord) /\ Len(new) = Len(rtx)
  BY <1>2, <1>5
<1> QED
  BY <1>3, <1>4, <1>6 DEF Renumbered, SeqsSet

\* One round of Dtls13RtxSendBuffered.
LEMMA CallRtxSendOne ==
    ASSUME NEW p, NEW w, NEW q, NEW k, NEW from, NEW N, NEW A, NEW B,
           Call(p, w, q, k, from, N, A, B), Ok(w), KeysMatch(w.s),
           NEW i \in 1 .. Len(w.s.rtx)
    PROVE  LET v == RtxSendOne(p, w, i)
           IN  Call(p, v, q, k, from, N, A, B) /\ Resending(w, v)
<1> DEFINE r == w.s.rtx[i]
           u == EncryptWith(w, r.epoch)
           e == u.s.enc
           n == u.s.slots[e].next
           R == IF Cardinality(r.seqs) >= RETRANS_RN_SIZE THEN {n} ELSE r.seqs \cup {n}
           rec == Record(p, u.s, "handshake", [seq |-> n, msg |-> r.msg])
           T == [u.s.slots EXCEPT ![e].next = @ + 1]
           X == [u.s.rtx EXCEPT ![i].seqs = R]
           t == [u.s EXCEPT !.slots = T, !.rtx = X]
           v == RtxSendOne(p, w, i)
<1>0. /\ w \in Works /\ w.s \in State /\ Local(w.s) /\ RtxInv(w.s) /\ p \in Peer
      /\ r \in RtxRecord /\ r.epoch \in Nat /\ r.seqs \subseteq Nat
      /\ r.msg \in Message /\ Len(w.s.rtx) \in Nat
      /\ w.s.rtx \in Seq(RtxRecord) /\ w.s.epoch \in Nat
  BY WorkIs, StateFields DEF Call, Setting, Local
<1>1. /\ r.epoch >= TRAFFIC0 /\ r.epoch <= w.s.epoch /\ r.seqs # {}
      /\ IsFiniteSet(r.seqs) /\ Cardinality(r.seqs) <= RETRANS_RN_SIZE
  <2>1. r.epoch \in TRAFFIC0 .. w.s.epoch
    BY <1>0 DEF RtxInv
  <2>2. r.seqs # {} /\ IsFiniteSet(r.seqs) /\ Cardinality(r.seqs) <= RETRANS_RN_SIZE
    BY <1>0 DEF RtxInv
  <2> QED
    BY <1>0, <2>1, <2>2 DEF TRAFFIC0
<1>2. /\ Call(p, u, q, k, from, N, A, B) /\ Keeps(w, u)
      /\ u.s.slots = w.s.slots /\ u.s.rtx = w.s.rtx /\ u.s.num = w.s.num
      /\ u.s.wait = w.s.wait /\ u.s.peerEpoch = w.s.peerEpoch /\ u.out = w.out
      /\ \/ Ok(u) /\ KeysMatch(u.s) /\ u.s.enc = r.epoch
         \/ /\ u.s.err = "state" /\ r.epoch # u.s.epoch
            /\ r.epoch \in DOMAIN u.s.slots => u.s.slots[r.epoch].side = Dec
  <2>1. r.epoch \in Nat /\ r.epoch >= TRAFFIC0
    BY <1>0, <1>1, Zenon
  <2> HIDE DEF r
  <2> QED
    BY <2>1, CallLoads
<1>3. CASE /\ u.s.err = "state" /\ r.epoch # u.s.epoch
           /\ r.epoch \in DOMAIN u.s.slots => u.s.slots[r.epoch].side = Dec
  <2>1. v = u
    BY <1>3 DEF RtxSendOne, Ok
  <2>2. u.s.epoch = w.s.epoch
    BY <1>2 DEF Keeps
  <2>3. u.s.rtx[i].epoch < u.s.epoch /\ i \in 1 .. Len(u.s.rtx)
    <3>1. u.s.rtx[i] = r /\ i \in 1 .. Len(u.s.rtx)
      BY <1>2, Zenon
    <3>2. /\ r.epoch \in Nat /\ u.s.epoch \in Nat
          /\ r.epoch <= u.s.epoch /\ r.epoch # u.s.epoch
      BY <1>0, <1>1, <1>3, <2>2, Zenon
    <3>3. \A a, b \in Nat : a <= b /\ a # b => a < b
      OBVIOUS
    <3> QED
      BY <3>1, <3>2, <3>3, Zenon
  <2>4. Evicted(u.s)
    BY <1>2, <1>3, <2>3 DEF Evicted
  <2> QED
    BY <1>2, <1>3, <2>1, <2>4 DEF Resending
<1>4. CASE Ok(u) /\ KeysMatch(u.s) /\ u.s.enc = r.epoch
  <2>0. u \in Works /\ u.s \in State /\ Local(u.s) /\ u.s.rtx[i] = r
    BY <1>2, WorkIs DEF Call
  <2>1. v = Sends(u, t, rec)
    <3> DEFINE sent == SendFragment(p, u, r.msg)
               x == [u.s EXCEPT !.slots = T]
    <3>1. v = [sent EXCEPT !.s.rtx[i].seqs = R]
      BY <1>4 DEF RtxSendOne
    <3>2. sent = [u EXCEPT !.s = x, !.out = @ \cup {rec}]
      BY <2>0 DEF SendFragment
    <3> HIDE DEF u, T, rec, sent, R
    <3>3. sent.s = x /\ [sent EXCEPT !.s = t] = Sends(u, t, rec)
      BY <2>0, <3>2 DEF Works, Sends
    <3>4. x.rtx = u.s.rtx
      BY <2>0 DEF State
    <3>5. t = [x EXCEPT !.rtx[i].seqs = R]
      BY <2>0, <3>4 DEF State
    <3> HIDE DEF x, t
    <3>6. v = [sent EXCEPT !.s = [sent.s EXCEPT !.rtx[i].seqs = R]]
      BY <3>1
    <3> QED
      BY <3>3, <3>5, <3>6
  <2> HIDE DEF u
  <2>2. /\ e \in DOMAIN u.s.slots /\ n \in Nat /\ e = r.epoch
        /\ u.s.slots[e].side # Dec
        /\ u.s.key = IF u.s.slots[e].own THEN e ELSE Wiped
    <3>1. e \in DOMAIN u.s.slots
      BY <2>0 DEF Local, TableInv
    <3> QED
      BY <1>4, <2>0, <3>1, StateFields DEF KeysMatch
  <2>3. /\ R \subseteq r.seqs \cup {n} /\ R # {} /\ IsFiniteSet(R) /\ R \subseteq Nat
        /\ Cardinality(R) <= RETRANS_RN_SIZE
    <3>1. R = IF Cardinality(r.seqs) >= RETRANS_RN_SIZE THEN {n} ELSE r.seqs \cup {n}
      OBVIOUS
    <3>2. n \in Nat /\ r.seqs \subseteq Nat
      BY <1>0, <2>2
    <3> HIDE DEF n, r, R
    <3> QED
      BY <1>1, <3>1, <3>2, SeqsIs
  <2>4. /\ rec \in Rec /\ rec.from = p /\ rec.epoch = e
        /\ rec.key = IF u.s.slots[e].own THEN e ELSE Wiped
        /\ rec.type = "handshake" /\ rec.body.msg = r.msg /\ rec.body.seq = n
    <3>1. n \in Nat /\ r.msg \in Message
      BY <1>0, <2>2
    <3>2. rec = Record(p, u.s, "handshake", [seq |-> n, msg |-> r.msg])
      OBVIOUS
    <3> HIDE DEF n, r, rec
    <3>3. /\ rec \in Rec /\ rec.from = p /\ rec.epoch = u.s.enc
          /\ rec.key = u.s.key /\ rec.type = "handshake"
          /\ rec.body.msg = r.msg /\ rec.body.seq = n
      BY <1>0, <2>0, <3>1, <3>2, HandshakeRecIs
    <3> QED
      BY <2>2, <3>3
  <2>5. T \in Table /\ \A x : x.slots = T => NumberUsed(u.s, x, e)
    BY <2>0, <2>2, NextTable
  <2> HIDE DEF rec, T, R
  <2>6. /\ X \in Seq(RtxRecord) /\ Len(X) = Len(u.s.rtx)
        /\ \A j \in 1 .. Len(u.s.rtx) : j # i => X[j] = u.s.rtx[j]
        /\ X[i].msg = u.s.rtx[i].msg /\ X[i].epoch = u.s.rtx[i].epoch
        /\ X[i].seqs = R
    <3>1. u.s.rtx \in Seq(RtxRecord) /\ i \in 1 .. Len(u.s.rtx) /\ R \subseteq Nat
      BY <1>0, <1>2, <2>3
    <3>2. X = SeqsSet(u.s.rtx, i, R)
      BY DEF SeqsSet
    <3> HIDE DEF X
    <3>3. Renumbered(u.s.rtx, X, i, R)
      BY <3>1, <3>2, RtxUpdated
    <3> QED
      BY <3>3 DEF Renumbered
  <2> HIDE DEF X
  <2>7. t \in State
    BY <2>0, <2>5, <2>6 DEF State
  <2>8. /\ t.slots = T /\ t.rtx = X /\ t.num = u.s.num /\ t.wait = u.s.wait
        /\ t.epoch = u.s.epoch /\ t.peerEpoch = u.s.peerEpoch /\ t.enc = u.s.enc
        /\ t.key = u.s.key /\ t.expected = u.s.expected /\ t.stored = u.s.stored
        /\ t.seen = u.s.seen /\ t.err = u.s.err /\ t.timeouts = u.s.timeouts
    BY <2>0 DEF State
  <2> HIDE DEF t
  <2>9. NumberUsed(u.s, t, u.s.rtx[i].epoch)
    BY <2>0, <2>2, <2>5, <2>8
  <2>10. i \in 1 .. Len(u.s.rtx)
    BY <1>2
  <2>11. /\ Len(t.rtx) = Len(u.s.rtx)
         /\ \A j \in 1 .. Len(u.s.rtx) : j # i => t.rtx[j] = u.s.rtx[j]
         /\ t.rtx[i].msg = u.s.rtx[i].msg /\ t.rtx[i].epoch = u.s.rtx[i].epoch
         /\ t.rtx[i].seqs
              \subseteq u.s.rtx[i].seqs \cup {u.s.slots[u.s.rtx[i].epoch].next}
         /\ t.rtx[i].seqs # {} /\ IsFiniteSet(t.rtx[i].seqs)
         /\ Cardinality(t.rtx[i].seqs) <= RETRANS_RN_SIZE
    BY <2>0, <2>2, <2>3, <2>6, <2>8
  <2>12. Local(t) /\ KeysMatch(t)
    BY <1>4, <2>0, <2>7, <2>8, <2>9, <2>10, <2>11, LocalResends
  <2>13. Direction(p, t, q, k, Flight(u, N) \cup {rec}, A)
    <3>1. /\ Direction(p, u.s, q, k, Flight(u, N), A) /\ A \subseteq Number
          /\ k \in Nat /\ Flight(u, N) \subseteq Rec
      BY <1>2, FlightIs DEF Call, Setting
    <3>2. /\ DOMAIN t.slots = DOMAIN u.s.slots
          /\ \A x \in DOMAIN u.s.slots :
                /\ t.slots[x].own = u.s.slots[x].own
                /\ t.slots[x].next = IF x = u.s.rtx[i].epoch
                                     THEN u.s.slots[x].next + 1
                                     ELSE u.s.slots[x].next
      BY <2>9 DEF NumberUsed
    <3>3. u.s.rtx[i].epoch \in DOMAIN u.s.slots /\ u.s.slots[u.s.rtx[i].epoch].side # Dec
      BY <2>0, <2>2
    <3>4. /\ rec.epoch = u.s.rtx[i].epoch /\ rec.body.msg = u.s.rtx[i].msg
          /\ rec.key = IF u.s.slots[u.s.rtx[i].epoch].own THEN u.s.rtx[i].epoch
                       ELSE Wiped
          /\ rec.body.seq = u.s.slots[u.s.rtx[i].epoch].next
      BY <2>0, <2>2, <2>4
    <3> HIDE DEF e, n, r
    <3>5. SentAgain(p, u.s, t, i, rec)
      BY <2>4, <2>8, <2>11, <3>2, <3>3, <3>4 DEF SentAgain
    <3> QED
      BY <2>0, <2>4, <2>7, <2>10, <3>1, <3>5, SenderResends
  <2>14. /\ Direction(Other(p), q, t, from, Flight(u, N) \cup {rec}, B)
         /\ AckedNumbers(Other(p), Flight(u, N) \cup {rec}) \subseteq B
    <3>1. /\ Direction(Other(p), q, u.s, from, Flight(u, N) \cup {rec}, B)
          /\ AckedNumbers(Other(p), Flight(u, N) \cup {rec}) \subseteq B
      BY <1>2, <2>4, OtherDirection
    <3>2. \A x : CanDecrypt(u.s, x) => CanDecrypt(t, x)
      BY <2>9 DEF CanDecrypt, NumberUsed
    <3> QED
      BY <2>8, <3>1, <3>2, ReceiverQuiet
  <2>15. /\ v \in Works /\ v.s = t /\ v.out = u.out \cup {rec}
         /\ v.sendAcks = u.sendAcks /\ v.retransmit = u.retransmit
         /\ v.doKeyUpdate = u.doKeyUpdate
         /\ Flight(v, N) = Flight(u, N) \cup {rec}
    BY <2>0, <2>1, <2>4, <2>7, SendsIs
  <2> HIDE DEF v
  <2>16. Call(p, v, q, k, from, N, A, B)
    <3>1. \A x \in v.out : x.from = p
      BY <1>2, <2>4, <2>15 DEF Call
    <3>2. v.s.timeouts <= TIMEOUTS
      BY <1>2, <2>8, <2>15 DEF Call
    <3> QED
      BY <1>2, <2>12, <2>13, <2>14, <2>15, <3>1, <3>2 DEF Call
  <2>17. Keeps(w, v)
    BY <1>2, <2>8, <2>15 DEF Keeps
  <2>18. Ok(v) /\ KeysMatch(v.s) /\ Len(v.s.rtx) = Len(w.s.rtx)
    BY <1>2, <1>4, <2>8, <2>11, <2>12, <2>15 DEF Ok
  <2> QED
    BY <2>16, <2>17, <2>18 DEF Resending, v
<1> QED
  BY <1>2, <1>3, <1>4

\* A round of Dtls13RtxSendBuffered, or nothing once an error has occurred.
LEMMA CallRtxSendNext ==
    ASSUME NEW p, NEW w, NEW q, NEW k, NEW from, NEW N, NEW A, NEW B,
           NEW x, NEW i \in 1 .. Len(x.s.rtx),
           Call(p, w, q, k, from, N, A, B), Resending(x, w)
    PROVE  LET v == RtxSendNext(p, w, i)
           IN  Call(p, v, q, k, from, N, A, B) /\ Resending(x, v)
<1>1. CASE Ok(w)
  <2>1. KeysMatch(w.s)
    BY <1>1 DEF Resending, Ok
  <2>2. i \in 1 .. Len(w.s.rtx)
    BY DEF Resending
  <2> DEFINE v == RtxSendOne(p, w, i)
  <2>3. Call(p, v, q, k, from, N, A, B) /\ Resending(w, v)
    BY <1>1, <2>1, <2>2, CallRtxSendOne
  <2>4. RtxSendNext(p, w, i) = v
    BY <1>1 DEF RtxSendNext
  <2> HIDE DEF v
  <2>5. Resending(x, v)
    BY <2>3 DEF Resending, Keeps
  <2> QED
    BY <2>3, <2>4, <2>5
<1>2. CASE ~ Ok(w)
  BY <1>2 DEF RtxSendNext
<1> QED
  BY <1>1, <1>2

\* Dtls13RtxSendBuffered
LEMMA CallRtxSendBuffered ==
    ASSUME NEW p, NEW w, NEW q, NEW k, NEW from, NEW N, NEW A, NEW B,
           Call(p, w, q, k, from, N, A, B), Ok(w), KeysMatch(w.s)
    PROVE  LET v == RtxSendBuffered(p, w)
           IN  Call(p, v, q, k, from, N, A, B) /\ Resending(w, v)
<1> DEFINE n == Len(w.s.rtx)
           t == [w.s EXCEPT !.recent = TRUE]
           first == [w EXCEPT !.s.recent = TRUE]
           I == [i \in 0 .. n |->
                   {v \in Works : Call(p, v, q, k, from, N, A, B) /\ Resending(w, v)}]
           St == [i \in 1 .. n |-> [v \in I[i - 1] |-> RtxSendNext(p, v, i)]]
           IsLoop(f) == f = [i \in 0 .. n |-> IF i = 0 THEN first
                                              ELSE RtxSendNext(p, f[i - 1], i)]
           sent == CHOOSE f : IsLoop(f)
<1>0. /\ w \in Works /\ w.s \in State /\ n \in Nat /\ w.s.timeouts <= TIMEOUTS
  BY WorkIs, StateFields DEF Call
<1>1. RtxSendBuffered(p, w) = IF w.s.recent THEN w ELSE sent[n]
  BY Zenon DEF RtxSendBuffered
<1>2. first \in I[0]
  <2>1. t \in State
    BY <1>0 DEF State
  <2>2. /\ Unread(w.s, t) /\ t.err = w.s.err /\ t.timeouts = w.s.timeouts
        /\ t.seen = w.s.seen /\ t.rtx = w.s.rtx /\ t.epoch = w.s.epoch
        /\ t.expected = w.s.expected /\ t.stored = w.s.stored
    BY <1>0, <2>1 DEF Unread, State
  <2>3. first = [w EXCEPT !.s = t]
    OBVIOUS
  <2> HIDE DEF t, first
  <2>4. /\ first \in Works /\ first.s = t /\ first.out = w.out
        /\ first.sendAcks = w.sendAcks /\ first.retransmit = w.retransmit
        /\ first.doKeyUpdate = w.doKeyUpdate
    BY <1>0, <2>1, <2>3, WorkIs
  <2>5. Call(p, first, q, k, from, N, A, B) /\ KeysMatch(first.s)
    BY <1>0, <2>2, <2>4, CallUnread
  <2>6. Resending(w, first)
    BY <2>2, <2>4, <2>5 DEF Resending, Keeps, Ok
  <2> QED
    BY <1>0, <2>4, <2>5, <2>6
<1>3. \A i \in 1 .. n : i \in 0 .. n /\ i - 1 \in 0 .. n /\ i # 0
  BY <1>0
<1>4. ASSUME NEW i \in 1 .. n, NEW v \in I[i - 1]
      PROVE  RtxSendNext(p, v, i) \in I[i]
  <2>1. i \in 0 .. n /\ i - 1 \in 0 .. n
    BY <1>3
  <2>2. Call(p, v, q, k, from, N, A, B) /\ Resending(w, v)
    BY <2>1
  <2> DEFINE x == RtxSendNext(p, v, i)
  <2>3. Call(p, x, q, k, from, N, A, B) /\ Resending(w, x)
    BY <2>2, CallRtxSendNext
  <2>4. x \in Works
    BY <2>3 DEF Call
  <2> QED
    BY <2>1, <2>3, <2>4
<1> HIDE DEF I, first
<1>5. \A i \in 1 .. n : \A v \in I[i - 1] : St[i][v] = RtxSendNext(p, v, i)
  OBVIOUS
<1> HIDE DEF St
<1>6. PICK g : LoopFrom(n, I, first, St, g) /\ g = [i \in 0 .. n |-> g[i]]
  <2>1. \A i \in 1 .. n : \A v \in I[i - 1] : St[i][v] \in I[i]
    BY <1>4, <1>5
  <2> HIDE DEF n
  <2> QED
    BY <1>0, <1>2, <2>1, LoopExists
<1>7. IsLoop(g)
  <2>1. \A i \in 0 .. n : g[i] = IF i = 0 THEN first ELSE RtxSendNext(p, g[i - 1], i)
    <3> SUFFICES ASSUME NEW i \in 0 .. n, i # 0
                 PROVE  g[i] = RtxSendNext(p, g[i - 1], i)
      BY <1>6 DEF LoopFrom
    <3>1. i \in 1 .. n /\ i - 1 \in 0 .. n
      BY <1>0
    <3> QED
      BY <1>5, <1>6, <3>1 DEF LoopFrom
  <2> QED
    BY <1>6, <2>1
<1>8. IsLoop(sent)
  <2> HIDE DEF IsLoop
  <2> QED
    BY <1>7
<1> HIDE DEF sent
<1>9. sent[0] = first /\ \A i \in 1 .. n : sent[i] = RtxSendNext(p, sent[i - 1], i)
  BY <1>0, <1>3, <1>8
<1>10. sent[n] \in I[n]
  <2>1. \A i \in 1 .. n : sent[i - 1] \in I[i - 1] => sent[i] \in I[i]
    BY <1>4, <1>9
  <2> HIDE DEF n, IsLoop
  <2>2. \A i \in 0 .. n : sent[i] \in I[i]
    BY <1>0, <1>2, <1>9, <2>1, LoopInvariant
  <2> QED
    BY <1>0, <2>2
<1>11. Call(p, sent[n], q, k, from, N, A, B) /\ Resending(w, sent[n])
  BY <1>0, <1>10 DEF I
<1>12. Resending(w, w)
  BY DEF Resending, Keeps
<1> QED
  BY <1>1, <1>11, <1>12

\* Tls13UpdateKeys
LEMMA CallTls13UpdateKeys ==
    ASSUME NEW p, NEW w, NEW q, NEW k, NEW from, NEW N, NEW A, NEW B,
           Call(p, w, q, k, from, N, A, B), Ok(w), KeysMatch(w.s)
    PROVE  LET v == Tls13UpdateKeys(p, w)
           IN  /\ Call(p, v, q, k, from, N, A, B) /\ Keeps(w, v)
               /\ (Ok(v) /\ KeysMatch(v.s)) \/ v.s.err = "limit"
<1>1. CASE w.s.wait
  <2>1. Tls13UpdateKeys(p, w) = w
    BY <1>1 DEF Tls13UpdateKeys
  <2> QED
    BY <2>1 DEF Keeps
<1>2. CASE ~ w.s.wait
  <2>1. Tls13UpdateKeys(p, w) = SendKeyUpdate(p, w, FALSE)
    BY <1>2 DEF Tls13UpdateKeys
  <2>2. Loadable(w.s)
    BY DEF Loadable
  <2> DEFINE v == SendKeyUpdate(p, w, FALSE)
  <2>3. /\ Call(p, v, q, k, from, N, A, B) /\ Keeps(w, v)
        /\ (Ok(v) /\ KeysMatch(v.s)) \/ v.s.err = "limit"
    BY <1>2, <2>2, CallSendKeyUpdate
  <2> QED
    BY <2>1, <2>3
<1> QED
  BY <1>1, <1>2

\* The handler of a record has left the keys to the acknowledgement that is
\* due, or has failed.
Ready(w) == IF Ok(w) THEN KeysMatch(w.s) \/ (w.s.enc # w.s.epoch /\ w.sendAcks)
            ELSE AtRest(w.s)

\* Dtls13DoScheduledWork
LEMMA CallDoScheduledWork ==
    ASSUME NEW p, NEW w, NEW q, NEW k, NEW from, NEW N, NEW A, NEW B,
           Call(p, w, q, k, from, N, A, B), Ready(w), Ok(w) => w.s.seen \subseteq B
    PROVE  LET v == DoScheduledWork(p, w)
           IN  Call(p, v, q, k, from, N, A, B) /\ Keeps(w, v) /\ AtRest(v.s)
<1> DEFINE a == IF Ok(w) /\ w.sendAcks THEN SendAck(p, w) ELSE w
           b == IF Ok(a) /\ a.retransmit THEN RtxSendBuffered(p, a) ELSE a
           c == IF Ok(b) /\ b.doKeyUpdate THEN Tls13UpdateKeys(p, b) ELSE b
<1>0. DoScheduledWork(p, w) = c
  BY DEF DoScheduledWork
<1>1. /\ Call(p, a, q, k, from, N, A, B) /\ Keeps(w, a)
      /\ IF Ok(a) THEN KeysMatch(a.s) ELSE AtRest(a.s)
  <2>1. CASE Ok(w) /\ w.sendAcks
    <3>1. Loadable(w.s)
      BY <2>1 DEF Ready, Loadable
    <3>2. a = SendAck(p, w)
      BY <2>1
    <3> QED
      BY <2>1, <3>1, <3>2, CallSendAck
  <2>2. CASE ~ (Ok(w) /\ w.sendAcks)
    <3>1. a = w
      BY <2>2
    <3> QED
      BY <2>2, <3>1 DEF Ready, Keeps
  <2> QED
    BY <2>1, <2>2
<1> HIDE DEF a
<1>2. /\ Call(p, b, q, k, from, N, A, B) /\ Keeps(w, b)
      /\ IF Ok(b) THEN KeysMatch(b.s) ELSE AtRest(b.s)
  <2>1. CASE Ok(a) /\ a.retransmit
    <3>1. b = RtxSendBuffered(p, a) /\ KeysMatch(a.s)
      BY <1>1, <2>1
    <3>2. Call(p, b, q, k, from, N, A, B) /\ Resending(a, b)
      BY <1>1, <2>1, <3>1, CallRtxSendBuffered
    <3> HIDE DEF b
    <3>3. Keeps(w, b)
      BY <1>1, <3>2 DEF Resending, Keeps
    <3>4. IF Ok(b) THEN KeysMatch(b.s) ELSE AtRest(b.s)
      BY <3>2 DEF Resending, Ok, AtRest, IsLive, Call
    <3> QED
      BY <3>2, <3>3, <3>4
  <2>2. CASE ~ (Ok(a) /\ a.retransmit)
    <3>1. b = a
      BY <2>2
    <3> QED
      BY <1>1, <3>1
  <2> QED
    BY <2>1, <2>2
<1> HIDE DEF b
<1>3. Call(p, c, q, k, from, N, A, B) /\ Keeps(w, c) /\ AtRest(c.s)
  <2>1. CASE Ok(b) /\ b.doKeyUpdate
    <3>1. c = Tls13UpdateKeys(p, b) /\ KeysMatch(b.s)
      BY <1>2, <2>1
    <3>2. /\ Call(p, c, q, k, from, N, A, B) /\ Keeps(b, c)
          /\ (Ok(c) /\ KeysMatch(c.s)) \/ c.s.err = "limit"
      BY <1>2, <2>1, <3>1, CallTls13UpdateKeys
    <3> HIDE DEF c
    <3>3. Keeps(w, c)
      BY <1>2, <3>2 DEF Keeps
    <3>4. AtRest(c.s)
      BY <3>2 DEF AtRest, Ok, IsLive, Call
    <3> QED
      BY <3>2, <3>3, <3>4
  <2>2. CASE ~ (Ok(b) /\ b.doKeyUpdate)
    <3>1. c = b
      BY <2>2
    <3>2. AtRest(b.s)
      BY <1>2 DEF AtRest, Ok, Call
    <3> QED
      BY <1>2, <3>1, <3>2
  <2> QED
    BY <2>1, <2>2
<1> QED
  BY <1>0, <1>3

-----------------------------------------------------------------------------
(***************************************************************************)
(* Receiving.                                                              *)
(***************************************************************************)

\* A message that p has stored, or gets from a record in flight.
AtHand(p, s, N, m) ==
    /\ Carried(Other(p), s, N, m) /\ m.num = s.expected
    /\ m \in s.stored \/ NextStored(s) = {}

\* A message at hand is a KeyUpdate or a ticket that the sender has sent.
LEMMA AtHandIs ==
    ASSUME NEW p, NEW w, NEW q, NEW k, NEW from, NEW N, NEW A, NEW B,
           Call(p, w, q, k, from, N, A, B), NEW m, AtHand(p, w.s, N, m)
    PROVE  /\ Carried(Other(p), w.s, Flight(w, N), m)
           /\ m \in Message /\ m.num \in Nat /\ m.kind \in {"key_update", "ticket"}
<1>1. Keyed(Other(p), N) \subseteq Keyed(Other(p), Flight(w, N))
  BY DEF Keyed, Handshakes, Flight
<1>2. Carried(Other(p), w.s, Flight(w, N), m)
  BY <1>1 DEF AtHand, Carried
<1>3. /\ SentInv(Other(p), q, Flight(w, N)) /\ OrderInv(q, w.s)
      /\ MeaningInv(Other(p), q, w.s, Flight(w, N))
  BY DEF Call, Direction
<1>4. q \in State /\ w.s \in State /\ Flight(w, N) \in SUBSET Rec
  BY FlightIs, WorkIs DEF Call, Setting
<1> QED
  BY <1>2, <1>3, <1>4, CarriedIs

\* A message has been applied, and is not counted yet.
Applied(w, v) ==
    /\ Keeps(w, v)
    /\ (Ok(v) /\ Loadable(v.s)) \/ v.s.err = "limit"

\* A new read epoch, for a KeyUpdate.
LEMMA CallReadEpoch ==
    ASSUME NEW p, NEW w, NEW q, NEW k, NEW N, NEW A, NEW B,
           Call(p, w, q, k, w.s.expected, N, A, B), Ok(w), Loadable(w.s),
           NEW m, AtHand(p, w.s, N, m), m.kind = "key_update",
           NEW t \in State, NEW T, NEW x, NEW v \in Works,
           EpochAdded(w.s, T, x, w.s.peerEpoch + 1, Dec),
           t.slots = T, t.enc = x, t.peerEpoch = w.s.peerEpoch + 1,
           t.epoch = w.s.epoch, t.key = w.s.key, t.rtx = w.s.rtx,
           t.num = w.s.num, t.wait = w.s.wait, t.expected = w.s.expected,
           t.stored = w.s.stored, t.seen = w.s.seen, t.err = w.s.err,
           t.timeouts = w.s.timeouts,
           v.s = t, v.out = w.out, v.sendAcks = w.sendAcks,
           v.retransmit = w.retransmit, v.doKeyUpdate = w.doKeyUpdate
    PROVE  /\ Call(p, v, q, k, w.s.expected + 1, N, A, B)
           /\ Applied(w, v) /\ Ok(v)
<1>0. w \in Works /\ w.s \in State /\ Local(w.s)
  BY WorkIs DEF Call
<1>1. /\ Local(t) /\ SlotsKept(w.s, t) /\ CanDecrypt(t, w.s.peerEpoch)
      /\ Loadable(t)
  BY <1>0, LocalPeerEpoch DEF Loadable
<1>2. Flight(v, N) = Flight(w, N) /\ Flight(w, N) \subseteq Rec
  BY FlightIs DEF Flight
<1>3. Direction(p, t, q, k, Flight(v, N), A)
  <2>1. Direction(p, w.s, q, k, Flight(w, N), A) /\ A \subseteq Number
    BY DEF Call, Setting
  <2>2. w.s.peerEpoch <= t.peerEpoch
    BY <1>0, StateFields
  <2> QED
    BY <1>0, <1>1, <1>2, <2>1, <2>2, SenderQuiet
<1>4. Direction(Other(p), q, t, w.s.expected + 1, Flight(v, N), B)
  <2>1. /\ Direction(Other(p), q, w.s, w.s.expected, Flight(w, N), B)
        /\ q \in State /\ Local(q)
    BY DEF Call, Setting
  <2>2. Carried(Other(p), w.s, Flight(w, N), m)
    BY AtHandIs
  <2>3. m.num = w.s.expected /\ (m \in w.s.stored \/ NextStored(w.s) = {})
    BY DEF AtHand
  <2> QED
    BY <1>0, <1>1, <1>2, <2>1, <2>2, <2>3, ReceiverApplies
<1>5. Call(p, v, q, k, w.s.expected + 1, N, A, B)
  <2>1. w.s.expected + 1 \in Nat
    BY <1>0, StateFields
  <2> QED
    BY <1>1, <1>2, <1>3, <1>4, <2>1 DEF Call, Setting
<1> QED
  BY <1>1, <1>5 DEF Applied, Keeps, Ok

\* DoTls13KeyUpdate
LEMMA CallDoKeyUpdate ==
    ASSUME NEW p, NEW w, NEW q, NEW k, NEW N, NEW A, NEW B,
           Call(p, w, q, k, w.s.expected, N, A, B), Ok(w), Loadable(w.s),
           NEW m, AtHand(p, w.s, N, m), m.kind = "key_update"
    PROVE  LET v == DoKeyUpdate(p, w, m)
           IN  Call(p, v, q, k, w.s.expected + 1, N, A, B) /\ Applied(w, v)
<1> DEFINE e == w.s.peerEpoch + 1
           s0 == [w.s EXCEPT !.req = m.req /\ @]
           w0 == [w EXCEPT !.s.req = m.req /\ @]
           a == NewEpoch(w0, e, Dec)
           b == IF Ok(a) THEN SetEpochKeys([a EXCEPT !.s.peerEpoch = e], e, Dec) ELSE a
<1>0. /\ w \in Works /\ w.s \in State /\ Local(w.s) /\ e \in Nat
      /\ w.s.peerEpoch \in Nat
  BY WorkIs, StateFields DEF Call
<1>1. m.req \in BOOLEAN
  BY AtHandIs DEF Message
<1>2. s0 \in State
  BY <1>0, <1>1 DEF State
<1>3. /\ s0.slots = w.s.slots /\ s0.epoch = w.s.epoch /\ s0.peerEpoch = w.s.peerEpoch
      /\ s0.rtx = w.s.rtx /\ s0.num = w.s.num /\ s0.wait = w.s.wait
      /\ s0.enc = w.s.enc /\ s0.key = w.s.key
      /\ s0.expected = w.s.expected /\ s0.stored = w.s.stored
      /\ s0.seen = w.s.seen /\ s0.err = w.s.err /\ s0.timeouts = w.s.timeouts
  BY <1>0 DEF State
<1>4. w0 = [w EXCEPT !.s = s0]
  OBVIOUS
<1> HIDE DEF s0, w0
<1>5. /\ w0 \in Works /\ w0.s = s0 /\ w0.out = w.out /\ w0.sendAcks = w.sendAcks
      /\ w0.retransmit = w.retransmit /\ w0.doKeyUpdate = w.doKeyUpdate
  BY <1>0, <1>2, <1>4, WorkIs
<1>6. Ok(w0) /\ TableInv(w0.s)
  BY <1>0, <1>3, <1>5 DEF Ok, Local, TableInv
<1>7. PICK T \in Table, x \in Nat : EpochAdded(w0.s, T, x, e, Dec) /\ a = WithTable(w0, T, x)
  BY <1>0, <1>5, <1>6, NewEpochIs
<1>8. EpochAdded(w.s, T, x, e, Dec)
  BY <1>3, <1>5, <1>7 DEF EpochAdded
<1> HIDE DEF a
<1> DEFINE t == [s0 EXCEPT !.slots = T, !.enc = x, !.peerEpoch = e]
<1>9. t \in State
  BY <1>0, <1>2, <1>7 DEF State
<1>10. /\ t.slots = T /\ t.epoch = w.s.epoch /\ t.peerEpoch = e
       /\ t.rtx = w.s.rtx /\ t.num = w.s.num /\ t.wait = w.s.wait
       /\ t.enc = x /\ t.key = w.s.key
       /\ t.expected = w.s.expected /\ t.stored = w.s.stored
       /\ t.seen = w.s.seen /\ t.err = w.s.err /\ t.timeouts = w.s.timeouts
  BY <1>2, <1>3 DEF State
<1>11. Ok(a) /\ [a EXCEPT !.s.peerEpoch = e] = [w0 EXCEPT !.s = t]
  <2> DEFINE y == [w0.s EXCEPT !.slots = T, !.enc = x]
  <2>1. a = [w0 EXCEPT !.s = y] /\ y \in State /\ y.err = w0.s.err
    BY <1>2, <1>5, <1>7 DEF WithTable, State
  <2>2. [y EXCEPT !.peerEpoch = e] = t
    BY <1>2, <1>5 DEF State
  <2> HIDE DEF y
  <2>3. a.s = y /\ a \in Works
    BY <1>5, <2>1, WorkIs
  <2>4. [a EXCEPT !.s.peerEpoch = e] = [a EXCEPT !.s = [y EXCEPT !.peerEpoch = e]]
    BY <2>3
  <2>5. [a EXCEPT !.s = t] = [w0 EXCEPT !.s = t]
    BY <1>5, <2>1 DEF Works
  <2> QED
    BY <1>6, <2>1, <2>2, <2>3, <2>4, <2>5 DEF Ok
<1> HIDE DEF t
<1> DEFINE c == [w0 EXCEPT !.s = t]
<1>12. /\ c \in Works /\ c.s = t /\ c.out = w.out /\ c.sendAcks = w.sendAcks
       /\ c.retransmit = w.retransmit /\ c.doKeyUpdate = w.doKeyUpdate
  BY <1>5, <1>9, WorkIs
<1> HIDE DEF c
<1>13. b = c
  <2>1. e \in DOMAIN T /\ T[e].side \in {Both, Dec} /\ Dec # Enc
    BY <1>8 DEF EpochAdded, Enc, Dec, Both
  <2>2. SetEpochKeys(c, e, Dec) = c
    BY <1>10, <1>12, <2>1 DEF SetEpochKeys
  <2> QED
    BY <1>11, <2>2 DEF c
<1>14. DoKeyUpdate(p, w, m) = IF Ok(b) /\ m.req /\ ~ b.s.wait
                              THEN SendKeyUpdate(p, b, TRUE) ELSE b
  BY DEF DoKeyUpdate, a, w0
<1> HIDE DEF b
<1>15. /\ Call(p, c, q, k, w.s.expected + 1, N, A, B)
       /\ Applied(w, c) /\ Ok(c)
  BY <1>8, <1>9, <1>10, <1>12, CallReadEpoch
<1>16. CASE Ok(b) /\ m.req /\ ~ b.s.wait
  <2> DEFINE v == SendKeyUpdate(p, c, TRUE)
  <2>1. DoKeyUpdate(p, w, m) = v
    BY <1>13, <1>14, <1>16
  <2>2. Loadable(c.s) /\ Keeps(w, c)
    BY <1>15 DEF Applied, Ok
  <2>3. /\ Call(p, v, q, k, w.s.expected + 1, N, A, B) /\ Keeps(c, v)
        /\ (Ok(v) /\ KeysMatch(v.s)) \/ v.s.err = "limit"
    BY <1>13, <1>15, <1>16, <2>2, CallSendKeyUpdate
  <2> HIDE DEF v
  <2>4. Applied(w, v)
    BY <2>2, <2>3 DEF Applied, Keeps, Loadable
  <2> QED
    BY <2>1, <2>3, <2>4
<1>17. CASE ~ (Ok(b) /\ m.req /\ ~ b.s.wait)
  BY <1>13, <1>14, <1>15, <1>17
<1> QED
  BY <1>16, <1>17

\* What p has got stays got.
Progress(s, t) == /\ t.epoch = s.epoch
                  /\ \A n \in Nat : Got(s, n) => Got(t, n)

\* Messages are applied and counted, and an acknowledgement is due; or an
\* answer has failed.
InStep(p, v, q, k, N, A, B) ==
    \/ /\ Ok(v) /\ v.sendAcks /\ Loadable(v.s)
       /\ Call(p, v, q, k, v.s.expected, N, A, B)
    \/ v.s.err = "limit" /\ Call(p, v, q, k, v.s.expected + 1, N, A, B)

\* A message is counted.
Counted(w, m) == [w EXCEPT !.s.expected = @ + 1, !.s.stored = @ \ {m},
                           !.sendAcks = TRUE]

IsCounted(w, v, m) ==
    /\ Ok(v) /\ Progress(w.s, v.s) /\ Got(v.s, m.num)
    /\ v.s.seen = w.s.seen /\ v.s.stored = w.s.stored \ {m}

\* Dtls13MsgWasProcessed counts a message whose effect has been applied.
LEMMA CallCounts ==
    ASSUME NEW p, NEW w, NEW q, NEW k, NEW N, NEW A, NEW B,
           Call(p, w, q, k, w.s.expected + 1, N, A, B), Ok(w), Loadable(w.s),
           NEW m, AtHand(p, w.s, N, m)
    PROVE  /\ InStep(p, Counted(w, m), q, k, N, A, B)
           /\ IsCounted(w, Counted(w, m), m)
<1> DEFINE v == Counted(w, m)
<1> DEFINE t == [w.s EXCEPT !.expected = @ + 1, !.stored = @ \ {m}]
<1>0. /\ w \in Works /\ w.s \in State /\ Local(w.s) /\ w.s.expected \in Nat
      /\ w.s.stored \subseteq Message /\ w.s.timeouts <= TIMEOUTS
  BY WorkIs, StateFields DEF Call
<1>1. t \in State
  <2> DEFINE n == w.s.expected + 1
             S == w.s.stored \ {m}
  <2>1. n \in Nat /\ S \in SUBSET Message
    BY <1>0
  <2>2. t = [w.s EXCEPT !.expected = n, !.stored = S]
    OBVIOUS
  <2> HIDE DEF n, S, t
  <2> QED
    BY <1>0, <2>1, <2>2 DEF State
<1>2. /\ t.slots = w.s.slots /\ t.epoch = w.s.epoch /\ t.peerEpoch = w.s.peerEpoch
      /\ t.rtx = w.s.rtx /\ t.num = w.s.num /\ t.wait = w.s.wait
      /\ t.enc = w.s.enc /\ t.key = w.s.key
      /\ t.expected = w.s.expected + 1 /\ t.stored = w.s.stored \ {m}
      /\ t.seen = w.s.seen /\ t.err = w.s.err /\ t.timeouts = w.s.timeouts
  BY <1>0 DEF State
<1>3. v = [w EXCEPT !.s = t, !.sendAcks = TRUE]
  BY DEF Counted
<1> HIDE DEF t, v
<1>4. /\ v \in Works /\ v.s = t /\ v.out = w.out /\ v.sendAcks
  BY <1>0, <1>1, <1>3 DEF Works
<1>5. SameSlots(w.s, t)
  BY <1>2 DEF SameSlots
<1>6. Local(t) /\ SlotsKept(w.s, t) /\ (KeysMatch(w.s) => KeysMatch(t))
  BY <1>0, <1>1, <1>2, <1>5, LocalSame
<1>7. Flight(v, N) = Flight(w, N) /\ Flight(w, N) \subseteq Rec
  BY <1>4, FlightIs DEF Flight
<1>8. Direction(p, t, q, k, Flight(v, N), A)
  <2>1. Direction(p, w.s, q, k, Flight(w, N), A) /\ A \subseteq Number
    BY DEF Call, Setting
  <2>2. w.s.peerEpoch <= t.peerEpoch
    BY <1>0, <1>2, StateFields
  <2> QED
    BY <1>0, <1>1, <1>2, <1>6, <1>7, <2>1, <2>2, SenderQuiet
<1>9. Direction(Other(p), q, t, t.expected, Flight(v, N), B)
  <2>1. /\ Direction(Other(p), q, w.s, w.s.expected + 1, Flight(w, N), B)
        /\ q \in State
    BY DEF Call, Setting
  <2>2. Carried(Other(p), w.s, Flight(w, N), m) /\ m.num = w.s.expected
    BY AtHandIs DEF AtHand
  <2> QED
    BY <1>0, <1>1, <1>2, <1>7, <2>1, <2>2, ReceiverCounts
<1>10. Call(p, v, q, k, v.s.expected, N, A, B)
  <2>1. v.s.expected \in Nat
    BY <1>0, <1>2, <1>4
  <2> QED
    BY <1>0, <1>2, <1>4, <1>6, <1>7, <1>8, <1>9, <2>1 DEF Call, Setting
<1>11. Loadable(v.s)
  BY <1>2, <1>4, <1>6 DEF Loadable
<1>12. m.num = w.s.expected
  BY DEF AtHand
<1>13. \A n \in Nat : Got(w.s, n) => Got(t, n)
  BY <1>0, <1>2, <1>12 DEF Got
<1>14. Got(t, m.num)
  BY <1>0, <1>2, <1>12 DEF Got
<1> QED
  BY <1>2, <1>4, <1>10, <1>11, <1>13, <1>14 DEF InStep, IsCounted, Progress, Ok, v

Processed(w, v, m) ==
    /\ Progress(w.s, v.s) /\ v.s.seen \subseteq w.s.seen
    /\ Ok(v) => Got(v.s, m.num) /\ v.s.stored = w.s.stored \ {m}

\* DoTls13HandShakeMsgType and Dtls13MsgWasProcessed
LEMMA CallProcessMessage ==
    ASSUME NEW p, NEW w, NEW q, NEW k, NEW N, NEW A, NEW B,
           Call(p, w, q, k, w.s.expected, N, A, B), Ok(w), Loadable(w.s),
           NEW m, AtHand(p, w.s, N, m)
    PROVE  LET v == ProcessMessage(p, w, m)
           IN  InStep(p, v, q, k, N, A, B) /\ Processed(w, v, m)
<1> DEFINE done == IF m.kind = "key_update" THEN DoKeyUpdate(p, w, m) ELSE w
           v == ProcessMessage(p, w, m)
<1>1. Call(p, done, q, k, w.s.expected + 1, N, A, B) /\ Applied(w, done)
  <2>1. CASE m.kind = "key_update"
    <3>1. done = DoKeyUpdate(p, w, m)
      BY <2>1
    <3> QED
      BY <2>1, <3>1, CallDoKeyUpdate
  <2>2. CASE m.kind # "key_update"
    <3>1. done = w
      BY <2>2
    <3>2. Direction(Other(p), q, w.s, w.s.expected + 1, Flight(w, N), B)
      <4>1. /\ Direction(Other(p), q, w.s, w.s.expected, Flight(w, N), B)
            /\ q \in State /\ Local(q) /\ w.s \in State
            /\ Flight(w, N) \subseteq Rec
        BY FlightIs, WorkIs DEF Call, Setting
      <4>2. Carried(Other(p), w.s, Flight(w, N), m)
        BY AtHandIs
      <4>3. m.num = w.s.expected /\ (m \in w.s.stored \/ NextStored(w.s) = {})
        BY DEF AtHand
      <4> QED
        BY <2>2, <4>1, <4>2, <4>3, ReceiverApplies
    <3>3. w.s.expected + 1 \in Nat
      BY WorkIs, StateFields DEF Call
    <3>4. Call(p, w, q, k, w.s.expected + 1, N, A, B)
      BY <3>2, <3>3 DEF Call, Setting
    <3> QED
      BY <3>1, <3>4 DEF Applied, Keeps
  <2> QED
    BY <2>1, <2>2
<1>2. v = IF ~ Ok(done) THEN done
          ELSE Counted(done, m)
  BY DEF ProcessMessage, Counted
<1> HIDE DEF done, v
<1>3. /\ done.s.expected = w.s.expected /\ done.s.stored = w.s.stored
      /\ done.s.seen \subseteq w.s.seen /\ done.s.epoch = w.s.epoch
  BY <1>1 DEF Applied, Keeps
<1>4. Progress(w.s, done.s)
  BY <1>3 DEF Progress, Got
<1>5. CASE ~ Ok(done)
  <2>1. v = done
    BY <1>2, <1>5
  <2>2. done.s.err = "limit"
    BY <1>1, <1>5 DEF Applied
  <2>3. InStep(p, v, q, k, N, A, B)
    BY <1>1, <1>3, <2>1, <2>2 DEF InStep
  <2> QED
    BY <1>3, <1>4, <1>5, <2>1, <2>3 DEF v, Processed
<1>6. CASE Ok(done)
  <2>1. AtHand(p, done.s, N, m)
    BY <1>3 DEF AtHand, Carried, NextStored
  <2>2. Loadable(done.s)
    BY <1>1, <1>6 DEF Applied, Ok
  <2>3. Call(p, done, q, k, done.s.expected + 1, N, A, B)
    BY <1>1, <1>3
  <2>4. v = Counted(done, m)
    BY <1>2, <1>6
  <2>5. InStep(p, v, q, k, N, A, B) /\ IsCounted(done, v, m)
    BY <1>6, <2>1, <2>2, <2>3, <2>4, CallCounts
  <2>6. Progress(w.s, v.s)
    BY <1>4, <2>5 DEF Progress, IsCounted
  <2> QED
    BY <1>3, <2>5, <2>6 DEF v, IsCounted, Processed
<1> QED
  BY <1>5, <1>6

\* The state after i rounds over n stored messages.
Draining(w, v, n, i) ==
    /\ Progress(w.s, v.s) /\ v.s.seen \subseteq w.s.seen
    /\ Ok(v) => Ok(w)
    /\ Ok(v) => NextStored(v.s) = {} \/ Cardinality(v.s.stored) <= n - i

\* Stored messages are finitely many.
LEMMA InStepIs ==
    ASSUME NEW p, NEW v, NEW q, NEW k, NEW N, NEW A, NEW B,
           InStep(p, v, q, k, N, A, B)
    PROVE  /\ v \in Works /\ v.s \in State /\ IsFiniteSet(v.s.stored)
           /\ Cardinality(v.s.stored) \in Nat /\ v.s.expected \in Nat
           /\ v.s.stored \subseteq Message
<1>1. /\ v \in Works /\ v.s \in State /\ IsFiniteSet(v.s.stored)
  BY WorkIs DEF InStep, Call, Direction, OrderInv
<1> QED
  BY <1>1, StateFields, FS_CardinalityType

\* One round of Dtls13ProcessBufferedMessages.
LEMMA CallProcessNextStored ==
    ASSUME NEW p, NEW w, NEW v, NEW q, NEW k, NEW N, NEW A, NEW B,
           InStep(p, v, q, k, N, A, B), NEW n \in Nat, NEW i \in 1 .. n,
           Draining(w, v, n, i - 1)
    PROVE  LET x == ProcessNextStored(p, v)
           IN  InStep(p, x, q, k, N, A, B) /\ Draining(w, x, n, i)
<1>0. /\ v \in Works /\ v.s \in State /\ IsFiniteSet(v.s.stored)
      /\ Cardinality(v.s.stored) \in Nat
  BY InStepIs
<1>1. CASE Ok(v) /\ NextStored(v.s) # {}
  <2> DEFINE m == CHOOSE y \in NextStored(v.s) : TRUE
             x == ProcessMessage(p, v, m)
  <2>1. ProcessNextStored(p, v) = x
    BY <1>1 DEF ProcessNextStored
  <2>2. m \in NextStored(v.s)
    BY <1>1
  <2> HIDE DEF m
  <2>3. m \in v.s.stored /\ m.num = v.s.expected
    BY <2>2 DEF NextStored
  <2>4. AtHand(p, v.s, N, m)
    BY <2>3 DEF AtHand, Carried
  <2>5. Call(p, v, q, k, v.s.expected, N, A, B) /\ Loadable(v.s)
    BY <1>1 DEF InStep, Ok
  <2>6. InStep(p, x, q, k, N, A, B) /\ Processed(v, x, m)
    BY <1>1, <2>4, <2>5, CallProcessMessage
  <2> HIDE DEF x
  <2>7. /\ IsFiniteSet(v.s.stored \ {m})
        /\ Cardinality(v.s.stored \ {m}) = Cardinality(v.s.stored) - 1
    BY <1>0, <2>3, FS_RemoveElement
  <2>8. Cardinality(v.s.stored) <= n - (i - 1)
    BY <1>1 DEF Draining
  <2>9. Ok(x) => Cardinality(x.s.stored) <= n - i
    <3> DEFINE c == Cardinality(v.s.stored)
               d == Cardinality(x.s.stored)
    <3>1. Ok(x) => d = c - 1
      BY <2>6, <2>7 DEF Processed
    <3>2. c \in Nat /\ c <= n - (i - 1)
      BY <1>0, <2>8
    <3> HIDE DEF c, d
    <3>3. Ok(x) => d <= n - i
      BY <3>1, <3>2
    <3> QED
      BY <3>3 DEF d
  <2>10. Progress(w.s, x.s) /\ x.s.seen \subseteq w.s.seen
    BY <2>6 DEF Draining, Processed, Progress
  <2>11. Ok(w)
    BY <1>1 DEF Draining
  <2> QED
    BY <2>1, <2>6, <2>9, <2>10, <2>11 DEF Draining
<1>2. CASE ~ (Ok(v) /\ NextStored(v.s) # {})
  <2>1. ProcessNextStored(p, v) = v
    BY <1>2 DEF ProcessNextStored
  <2> QED
    BY <1>2, <2>1 DEF Draining
<1> QED
  BY <1>1, <1>2

\* Dtls13ProcessBufferedMessages
LEMMA CallProcessBufferedMessages ==
    ASSUME NEW p, NEW w, NEW q, NEW k, NEW N, NEW A, NEW B,
           InStep(p, w, q, k, N, A, B)
    PROVE  LET v == ProcessBufferedMessages(p, w)
           IN  /\ InStep(p, v, q, k, N, A, B) /\ Progress(w.s, v.s)
               /\ v.s.seen \subseteq w.s.seen
               /\ Ok(v) => NextStored(v.s) = {} /\ Ok(w)
<1> DEFINE n == Cardinality(w.s.stored)
           I == [i \in 0 .. n |->
                   {v \in Works : InStep(p, v, q, k, N, A, B) /\ Draining(w, v, n, i)}]
           St == [i \in 1 .. n |-> [v \in I[i - 1] |-> ProcessNextStored(p, v)]]
           IsLoop(f) == f = [i \in 0 .. n |-> IF i = 0 THEN w
                                              ELSE ProcessNextStored(p, f[i - 1])]
           done == CHOOSE f : IsLoop(f)
<1>0. w \in Works /\ n \in Nat
  BY InStepIs
<1>1. ProcessBufferedMessages(p, w) = done[n]
  BY Zenon DEF ProcessBufferedMessages
<1>2. w \in I[0]
  <2>1. Draining(w, w, n, 0)
    BY <1>0 DEF Draining, Progress
  <2> QED
    BY <1>0, <2>1
<1>3. \A i \in 1 .. n : i \in 0 .. n /\ i - 1 \in 0 .. n /\ i # 0
  BY <1>0
<1>4. ASSUME NEW i \in 1 .. n, NEW v \in I[i - 1]
      PROVE  ProcessNextStored(p, v) \in I[i]
  <2>1. i \in 0 .. n /\ i - 1 \in 0 .. n
    BY <1>3
  <2>2. InStep(p, v, q, k, N, A, B) /\ Draining(w, v, n, i - 1)
    BY <2>1
  <2> DEFINE x == ProcessNextStored(p, v)
  <2>3. InStep(p, x, q, k, N, A, B) /\ Draining(w, x, n, i)
    <3> HIDE DEF n
    <3> QED
      BY <1>0, <2>2, CallProcessNextStored
  <2>4. x \in Works
    BY <2>3, InStepIs
  <2> QED
    BY <2>1, <2>3, <2>4
<1> HIDE DEF I
<1>5. \A i \in 1 .. n : \A v \in I[i - 1] : St[i][v] = ProcessNextStored(p, v)
  OBVIOUS
<1> HIDE DEF St
<1>6. PICK g : LoopFrom(n, I, w, St, g) /\ g = [i \in 0 .. n |-> g[i]]
  <2>1. \A i \in 1 .. n : \A v \in I[i - 1] : St[i][v] \in I[i]
    BY <1>4, <1>5
  <2> HIDE DEF n
  <2> QED
    BY <1>0, <1>2, <2>1, LoopExists
<1>7. IsLoop(g)
  <2>1. \A i \in 0 .. n : g[i] = IF i = 0 THEN w ELSE ProcessNextStored(p, g[i - 1])
    <3> SUFFICES ASSUME NEW i \in 0 .. n, i # 0
                 PROVE  g[i] = ProcessNextStored(p, g[i - 1])
      BY <1>6 DEF LoopFrom
    <3>1. i \in 1 .. n /\ i - 1 \in 0 .. n
      BY <1>0
    <3> QED
      BY <1>5, <1>6, <3>1 DEF LoopFrom
  <2> QED
    BY <1>6, <2>1
<1>8. IsLoop(done)
  <2> HIDE DEF IsLoop
  <2> QED
    BY <1>7
<1> HIDE DEF done
<1>9. done[0] = w /\ \A i \in 1 .. n : done[i] = ProcessNextStored(p, done[i - 1])
  BY <1>0, <1>3, <1>8
<1>10. done[n] \in I[n]
  <2>1. \A i \in 1 .. n : done[i - 1] \in I[i - 1] => done[i] \in I[i]
    BY <1>4, <1>9
  <2> HIDE DEF n, IsLoop
  <2>2. \A i \in 0 .. n : done[i] \in I[i]
    BY <1>0, <1>2, <1>9, <2>1, LoopInvariant
  <2> QED
    BY <1>0, <2>2
<1> DEFINE v == done[n]
<1>11. InStep(p, v, q, k, N, A, B) /\ Draining(w, v, n, n)
  BY <1>0, <1>10 DEF I
<1> HIDE DEF n, v
<1>12. Ok(v) => NextStored(v.s) = {}
  <2> SUFFICES ASSUME Ok(v), Cardinality(v.s.stored) <= n - n
               PROVE  NextStored(v.s) = {}
    BY <1>11 DEF Draining
  <2>1. IsFiniteSet(v.s.stored) /\ Cardinality(v.s.stored) = 0
    BY <1>0, <1>11, InStepIs
  <2>2. v.s.stored = {}
    BY <2>1, FS_EmptySet
  <2> QED
    BY <2>2 DEF NextStored
<1> QED
  BY <1>1, <1>11, <1>12 DEF Draining, v

\* What a call finds when it starts.
Starts(p, w, q, k, N, A, B) ==
    /\ Call(p, w, q, k, w.s.expected, N, A, B)
    /\ Ok(w) /\ KeysMatch(w.s) /\ NextStored(w.s) = {} /\ ~ w.sendAcks

\* What a handler of a record leaves to Dtls13DoScheduledWork.
Handled(p, w, v, q, k, N, A, B) ==
    /\ Ready(v) /\ (v.s.epoch = w.s.epoch \/ v.s.epoch = w.s.epoch + 1)
    /\ \A n \in Nat : Got(w.s, n) => Got(v.s, n)
    /\ \/ /\ IsLive(v.s) /\ NextStored(v.s) = {}
          /\ \E C \in SUBSET Number :
               /\ v.s.seen \subseteq C
               /\ Call(p, v, q, k, v.s.expected, N, A, C)
       \/ /\ ~ IsLive(v.s)
          /\ Call(p, v, q, k, v.s.expected + 1, N, A, B)

\* The receiver notes the number of a record whose message it has got.
LEMMA CallNotes ==
    ASSUME NEW p, NEW w, NEW q, NEW k, NEW from, NEW N, NEW A, NEW B,
           Call(p, w, q, k, from, N, A, B), NEW rec \in Keyed(Other(p), N),
           Got(w.s, rec.body.msg.num)
    PROVE  /\ B \cup {<<rec.epoch, rec.body.seq>>} \in SUBSET Number
           /\ Call(p, w, q, k, from, N, A, B \cup {<<rec.epoch, rec.body.seq>>})
<1> DEFINE C == B \cup {<<rec.epoch, rec.body.seq>>}
<1>1. rec \in Keyed(Other(p), Flight(w, N)) /\ rec \in Handshakes(Other(p), N)
  BY DEF Keyed, Handshakes, Flight
<1>2. rec.epoch \in Nat /\ rec.body.seq \in Nat /\ q \in State /\ B \subseteq Number
  BY <1>1, HandshakeIs DEF Call, Setting
<1>3. C \in SUBSET Number
  BY <1>2 DEF Number
<1>4. Direction(Other(p), q, w.s, from, Flight(w, N), C)
  <2>1. Direction(Other(p), q, w.s, from, Flight(w, N), B)
    BY DEF Call
  <2> QED
    BY <1>1, <1>2, <2>1, ReceiverAcks
<1>5. AckedNumbers(Other(p), Flight(w, N)) \subseteq C
  BY DEF Call
<1> QED
  BY <1>3, <1>4, <1>5 DEF Call, Setting

\* A message that is stored for later.
IsStored(s, t, m) == m.num > s.expected /\ t = [s EXCEPT !.stored = @ \cup {m}]

\* DtlsMsgStore keeps a message that is not next in order.
LEMMA CallStores ==
    ASSUME NEW p, NEW w, NEW q, NEW k, NEW N, NEW A, NEW B,
           Call(p, w, q, k, w.s.expected, N, A, B), KeysMatch(w.s),
           NextStored(w.s) = {}, NEW rec \in Keyed(Other(p), N),
           NEW v \in Works,
           IsStored(w.s, v.s, rec.body.msg), v.out = w.out
    PROVE  /\ Call(p, v, q, k, v.s.expected, N, A, B) /\ KeysMatch(v.s)
           /\ NextStored(v.s) = {} /\ Progress(w.s, v.s)
           /\ Got(v.s, rec.body.msg.num)
           /\ v.s.seen = w.s.seen /\ v.s.err = w.s.err
<1> DEFINE t == v.s
<1>0. /\ w \in Works /\ w.s \in State /\ Local(w.s) /\ w.s.expected \in Nat
      /\ w.s.stored \subseteq Message /\ w.s.timeouts <= TIMEOUTS /\ t \in State
  BY WorkIs, StateFields DEF Call
<1>1. /\ rec \in Keyed(Other(p), Flight(w, N)) /\ rec \in Handshakes(Other(p), N)
      /\ rec.body.msg.num \in Nat /\ rec.body.msg.num > w.s.expected
  BY HandshakeIs DEF Keyed, Handshakes, Flight, Call, Setting, IsStored
<1>2. /\ t.slots = w.s.slots /\ t.epoch = w.s.epoch /\ t.peerEpoch = w.s.peerEpoch
      /\ t.rtx = w.s.rtx /\ t.num = w.s.num /\ t.wait = w.s.wait
      /\ t.enc = w.s.enc /\ t.key = w.s.key
      /\ t.expected = w.s.expected /\ t.stored = w.s.stored \cup {rec.body.msg}
      /\ t.seen = w.s.seen /\ t.err = w.s.err /\ t.timeouts = w.s.timeouts
  BY <1>0 DEF State, IsStored
<1> HIDE DEF t
<1>3. SameSlots(w.s, t)
  BY <1>2 DEF SameSlots
<1>4. Local(t) /\ SlotsKept(w.s, t) /\ KeysMatch(t)
  BY <1>0, <1>2, <1>3, LocalSame
<1>5. Flight(v, N) = Flight(w, N) /\ Flight(w, N) \subseteq Rec
  BY FlightIs DEF Flight
<1>6. Direction(p, t, q, k, Flight(v, N), A)
  <2>1. Direction(p, w.s, q, k, Flight(w, N), A) /\ A \subseteq Number
    BY DEF Call, Setting
  <2>2. w.s.peerEpoch <= t.peerEpoch
    BY <1>0, <1>2, StateFields
  <2> QED
    BY <1>0, <1>2, <1>4, <1>5, <2>1, <2>2, SenderQuiet
<1>7. Direction(Other(p), q, t, t.expected, Flight(v, N), B)
  <2>1. /\ Direction(Other(p), q, w.s, w.s.expected, Flight(w, N), B)
        /\ q \in State /\ Local(q)
    BY DEF Call, Setting
  <2> QED
    BY <1>0, <1>1, <1>2, <1>5, <2>1, ReceiverStores
<1>8. Call(p, v, q, k, t.expected, N, A, B)
  <2>1. t.expected \in Nat
    BY <1>0, <1>2
  <2> QED
    BY <1>0, <1>2, <1>4, <1>5, <1>6, <1>7, <2>1 DEF Call, Setting, t
<1>9. NextStored(t) = {}
  BY <1>0, <1>1, <1>2 DEF NextStored
<1>10. Progress(w.s, t) /\ Got(t, rec.body.msg.num)
  BY <1>2 DEF Progress, Got
<1> QED
  BY <1>2, <1>4, <1>8, <1>9, <1>10 DEF t

\* A handshake record has been looked at.
Looked(p, w, d, q, k, N, A, B, rec) ==
    /\ Progress(w.s, d.s)
    /\ d.s.seen \subseteq w.s.seen \cup {<<rec.epoch, rec.body.seq>>}
    /\ \/ /\ Ok(d) /\ (KeysMatch(d.s) \/ (d.s.enc # d.s.epoch /\ d.sendAcks))
          /\ NextStored(d.s) = {} /\ Got(d.s, rec.body.msg.num)
          /\ Call(p, d, q, k, d.s.expected, N, A, B)
       \/ d.s.err = "limit" /\ Call(p, d, q, k, d.s.expected + 1, N, A, B)


\* The timeout starts from its first value again.
TimerReset(d) == [d EXCEPT !.s.timeouts = 0]

\* Resetting the timer preserves the invariant.
LEMMA CallTimerReset ==
    ASSUME NEW p, NEW d, NEW q, NEW k, NEW from, NEW N, NEW A, NEW B,
           Call(p, d, q, k, from, N, A, B)
    PROVE  LET v == TimerReset(d)
           IN  /\ Call(p, v, q, k, from, N, A, B)
               /\ KeysMatch(d.s) => KeysMatch(v.s)
               /\ v.s.err = d.s.err /\ v.s.seen = d.s.seen
               /\ v.s.epoch = d.s.epoch /\ v.s.enc = d.s.enc
               /\ v.s.expected = d.s.expected /\ v.s.stored = d.s.stored
               /\ v.sendAcks = d.sendAcks
<1> DEFINE t == [d.s EXCEPT !.timeouts = 0]
           v == TimerReset(d)
<1>1. d \in Works /\ d.s \in State
  BY WorkIs DEF Call
<1>2. t \in State
  BY <1>1 DEF State
<1>3. /\ Unread(d.s, t) /\ t.err = d.s.err /\ t.timeouts = 0 /\ t.seen = d.s.seen
      /\ t.epoch = d.s.epoch /\ t.enc = d.s.enc
      /\ t.expected = d.s.expected /\ t.stored = d.s.stored
  BY <1>1, <1>2 DEF Unread, State
<1>4. v = [d EXCEPT !.s = t]
  BY DEF TimerReset
<1> HIDE DEF t, v
<1>5. v \in Works /\ v.s = t /\ v.out = d.out /\ v.sendAcks = d.sendAcks
  BY <1>1, <1>2, <1>4, WorkIs
<1>6. v.s.timeouts <= TIMEOUTS
  BY <1>3, <1>5, KeyUpdateAssumption
<1>7. /\ Call(p, v, q, k, from, N, A, B)
      /\ KeysMatch(d.s) => KeysMatch(v.s)
  BY <1>3, <1>5, <1>6, CallUnread
<1> QED
  BY <1>3, <1>5, <1>7 DEF v

\* The end of a handshake record's handling.
LEMMA CallLooked ==
    ASSUME NEW p, NEW w, NEW d, NEW q, NEW k, NEW N, NEW A, NEW B,
           NEW rec \in Keyed(Other(p), N), Looked(p, w, d, q, k, N, A, B, rec),
           w.s.seen \subseteq B
    PROVE  /\ Ok(d) => Handled(p, w, TimerReset(d), q, k, N, A, B)
           /\ ~ Ok(d) => Handled(p, w, d, q, k, N, A, B)
<1>1. ASSUME Ok(d)
      PROVE  Handled(p, w, TimerReset(d), q, k, N, A, B)
  <2> DEFINE v == TimerReset(d)
             C == B \cup {<<rec.epoch, rec.body.seq>>}
  <2>0. /\ (KeysMatch(d.s) \/ (d.s.enc # d.s.epoch /\ d.sendAcks))
        /\ NextStored(d.s) = {} /\ Got(d.s, rec.body.msg.num)
        /\ Call(p, d, q, k, d.s.expected, N, A, B)
    BY <1>1 DEF Looked, Ok
  <2>1. /\ Call(p, v, q, k, d.s.expected, N, A, B)
        /\ KeysMatch(d.s) => KeysMatch(v.s)
        /\ v.s.err = d.s.err /\ v.s.seen = d.s.seen
        /\ v.s.epoch = d.s.epoch /\ v.s.enc = d.s.enc
        /\ v.s.expected = d.s.expected /\ v.s.stored = d.s.stored
        /\ v.sendAcks = d.sendAcks
    BY <2>0, CallTimerReset
  <2> HIDE DEF v
  <2>2. Got(v.s, rec.body.msg.num) /\ NextStored(v.s) = {}
    BY <2>0, <2>1 DEF Got, NextStored
  <2>3. C \in SUBSET Number /\ Call(p, v, q, k, v.s.expected, N, A, C)
    BY <2>1, <2>2, CallNotes
  <2>4. Ready(v) /\ IsLive(v.s)
    BY <1>1, <2>0, <2>1 DEF Ok, Ready, IsLive
  <2>5. v.s.seen \subseteq C
    BY <2>1 DEF Looked
  <2>6. v.s.epoch = w.s.epoch /\ \A n \in Nat : Got(w.s, n) => Got(v.s, n)
    BY <2>1 DEF Looked, Progress, Got
  <2> HIDE DEF C
  <2>7. Handled(p, w, v, q, k, N, A, B)
    BY <2>2, <2>3, <2>4, <2>5, <2>6 DEF Handled
  <2> QED
    BY <2>7 DEF v
<1>2. ASSUME ~ Ok(d)
      PROVE  Handled(p, w, d, q, k, N, A, B)
  <2>1. d.s.err = "limit" /\ Call(p, d, q, k, d.s.expected + 1, N, A, B)
    BY <1>2 DEF Looked, Ok
  <2>2. ~ IsLive(d.s) /\ AtRest(d.s)
    BY <2>1 DEF IsLive, AtRest, Call
  <2>3. Ready(d)
    BY <1>2, <2>1, <2>2 DEF Ready
  <2> QED
    BY <2>1, <2>2, <2>3 DEF Handled, Looked, Progress
<1> QED
  BY <1>1, <1>2

\* _Dtls13HandshakeRecv
LEMMA CallHandshakeRecv ==
    ASSUME NEW p, NEW w, NEW q, NEW k, NEW N, NEW A, NEW B,
           Starts(p, w, q, k, N, A, B), w.s.seen \subseteq B,
           NEW rec \in Keyed(Other(p), N)
    PROVE  Handled(p, w, HandshakeRecv(p, w, rec.epoch, rec.body), q, k, N, A, B)
<1> DEFINE m == rec.body.msg
           num == <<rec.epoch, rec.body.seq>>
           t == [w.s EXCEPT !.seen = RtxAddAck(@, num),
                            !.fast = IF SEND_MORE_ACKS THEN @ ELSE TRUE]
           v == [w EXCEPT !.s.seen = RtxAddAck(@, num),
                          !.s.fast = IF SEND_MORE_ACKS THEN @ ELSE TRUE]
           done == CASE m.num < v.s.expected ->
                          [v EXCEPT !.retransmit = TRUE, !.sendAcks = TRUE]
                     [] m.num > v.s.expected ->
                          [v EXCEPT !.s.stored = @ \cup {m},
                                    !.sendAcks = SEND_MORE_ACKS]
                     [] m.num = v.s.expected ->
                          ProcessBufferedMessages(p, ProcessMessage(p, v, m))
<1>0. HandshakeRecv(p, w, rec.epoch, rec.body)
        = IF Ok(done) THEN TimerReset(done) ELSE done
  BY DEF HandshakeRecv, TimerReset
<1>1. /\ w \in Works /\ w.s \in State /\ w.s.expected \in Nat
      /\ w.s.timeouts <= TIMEOUTS /\ w.s.seen \subseteq Number
      /\ Call(p, w, q, k, w.s.expected, N, A, B) /\ Ok(w) /\ KeysMatch(w.s)
      /\ NextStored(w.s) = {}
  BY WorkIs, StateFields DEF Call, Starts
<1>2. /\ rec.epoch \in Nat /\ rec.body.seq \in Nat /\ m \in Message /\ m.num \in Nat
      /\ num \in Number
  <2>1. rec \in Handshakes(Other(p), N) /\ N \subseteq Rec
    BY <1>1 DEF Keyed, Call, Setting
  <2> QED
    BY <2>1, HandshakeIs DEF Number
<1>3. t \in State
  <2>1. RtxAddAck(w.s.seen, num) \in Seen
    <3>1. w.s.seen \in Seen
      BY <1>1 DEF State
    <3> QED
      BY <1>2, <3>1, SeenIs
  <2>2. (IF SEND_MORE_ACKS THEN w.s.fast ELSE TRUE) \in BOOLEAN
    BY <1>1 DEF State
  <2> QED
    BY <1>1, <2>1, <2>2 DEF State
<1>4. /\ Unread(w.s, t) /\ t.err = w.s.err /\ t.timeouts = w.s.timeouts
      /\ t.seen = RtxAddAck(w.s.seen, num) /\ t.epoch = w.s.epoch /\ t.enc = w.s.enc
      /\ t.expected = w.s.expected /\ t.stored = w.s.stored
  BY <1>1, <1>3 DEF Unread, State
<1>5. v = [w EXCEPT !.s = t]
  OBVIOUS
<1> HIDE DEF t, v
<1>6. v \in Works /\ v.s = t /\ v.out = w.out
  BY <1>1, <1>3, <1>5, WorkIs
<1>7. Call(p, v, q, k, v.s.expected, N, A, B) /\ KeysMatch(v.s) /\ Ok(v)
  BY <1>1, <1>4, <1>6, CallUnread DEF Ok
<1>8. /\ Progress(w.s, v.s) /\ NextStored(v.s) = {}
      /\ v.s.seen \subseteq w.s.seen \cup {num}
  <2>1. v.s.seen \subseteq w.s.seen \cup {num}
    BY <1>4, <1>6 DEF RtxAddAck
  <2> QED
    BY <1>1, <1>4, <1>6, <2>1 DEF Progress, Got, NextStored
<1>9. Looked(p, w, done, q, k, N, A, B, rec)
  <2>1. CASE m.num < v.s.expected
    <3> DEFINE d == [v EXCEPT !.retransmit = TRUE, !.sendAcks = TRUE]
    <3>1. done = d
      BY <1>2, <1>1, <1>4, <1>6, <2>1
    <3>2. d \in Works /\ d.s = v.s /\ d.out = v.out
      BY <1>6 DEF Works
    <3> HIDE DEF d, done
    <3>3. Unread(v.s, d.s) /\ d.s.timeouts <= TIMEOUTS
      BY <1>1, <1>3, <1>4, <1>6, <3>2 DEF Unread
    <3>4. Call(p, d, q, k, d.s.expected, N, A, B) /\ KeysMatch(d.s)
      BY <1>7, <3>2, <3>3, CallUnread
    <3>5. Got(d.s, m.num)
      BY <2>1, <3>2 DEF Got
    <3> QED
      BY <1>7, <1>8, <3>1, <3>2, <3>4, <3>5 DEF Looked, Ok
  <2>2. CASE m.num > v.s.expected
    <3> DEFINE d == [v EXCEPT !.s.stored = @ \cup {m}, !.sendAcks = SEND_MORE_ACKS]
               y == [v.s EXCEPT !.stored = @ \cup {m}]
    <3>0. ~ (m.num < v.s.expected)
      BY <1>1, <1>2, <1>4, <1>6, <2>2
    <3>1. done = d
      BY <2>2, <3>0
    <3>2. SEND_MORE_ACKS \in BOOLEAN /\ v.s \in State /\ v.s.stored \cup {m} \in SUBSET Message
      BY <1>2, <1>3, <1>6, KeyUpdateAssumption, StateFields
    <3>3. y \in State
      BY <3>2 DEF State
    <3>4. d = [v EXCEPT !.s = y, !.sendAcks = SEND_MORE_ACKS]
      OBVIOUS
    <3> HIDE DEF d, done, y
    <3>5. d \in Works /\ d.s = y /\ d.out = v.out
      BY <1>6, <3>2, <3>3, <3>4 DEF Works
    <3>6. IsStored(v.s, d.s, rec.body.msg)
      BY <2>2, <3>5 DEF y, IsStored
    <3>7. /\ Call(p, d, q, k, d.s.expected, N, A, B) /\ KeysMatch(d.s)
          /\ NextStored(d.s) = {} /\ Progress(v.s, d.s)
          /\ Got(d.s, rec.body.msg.num)
          /\ d.s.seen = v.s.seen /\ d.s.err = v.s.err
      <4>1. d.out = v.out /\ d \in Works
        BY <3>5
      <4>2. NextStored(v.s) = {}
        BY <1>8
      <4>3. Call(p, v, q, k, v.s.expected, N, A, B) /\ KeysMatch(v.s)
        BY <1>7
      <4> HIDE DEF m, num
      <4>4. /\ Call(p, d, q, k, d.s.expected, N, A, B) /\ KeysMatch(d.s)
            /\ NextStored(d.s) = {} /\ Progress(v.s, d.s)
            /\ Got(d.s, rec.body.msg.num)
        BY <3>6, <4>1, <4>2, <4>3, CallStores, ZenonT(60)
      <4>5. d.s.seen = v.s.seen /\ d.s.err = v.s.err
        BY <3>2, <3>6 DEF IsStored, State
      <4> QED
        BY <4>4, <4>5
    <3> QED
      BY <1>7, <1>8, <3>1, <3>7 DEF Looked, Ok, Progress
  <2>3. CASE m.num = v.s.expected
    <3> DEFINE x == ProcessMessage(p, v, m)
               d == ProcessBufferedMessages(p, x)
    <3>0. ~ (m.num < v.s.expected) /\ ~ (m.num > v.s.expected)
      BY <1>1, <1>2, <1>4, <1>6, <2>3
    <3>1. done = d
      BY <2>3, <3>0
    <3>2. AtHand(p, v.s, N, m)
      BY <1>8, <2>3 DEF AtHand, Carried
    <3>3. Loadable(v.s)
      BY <1>7 DEF Loadable
    <3>4. InStep(p, x, q, k, N, A, B) /\ Processed(v, x, m)
      BY <1>7, <3>2, <3>3, CallProcessMessage
    <3> HIDE DEF x, done
    <3>5. /\ InStep(p, d, q, k, N, A, B) /\ Progress(x.s, d.s)
          /\ d.s.seen \subseteq x.s.seen
          /\ Ok(d) => NextStored(d.s) = {} /\ Ok(x)
      BY <3>4, CallProcessBufferedMessages
    <3> HIDE DEF d
    <3>6. Progress(w.s, d.s) /\ d.s.seen \subseteq w.s.seen \cup {num}
      BY <1>8, <3>4, <3>5 DEF Progress, Processed
    <3>7. Ok(d) => Got(d.s, m.num)
      BY <1>2, <3>4, <3>5 DEF Processed, Progress
    <3> QED
      BY <3>1, <3>5, <3>6, <3>7 DEF Looked, InStep, Loadable, Ok
  <2> QED
    BY <1>1, <1>2, <1>4, <1>6, <2>1, <2>2, <2>3
<1> QED
  <2> HIDE DEF done
  <2> QED
    BY <1>0, <1>9, CallLooked

\* The buffer after an acknowledgement, and whether a KeyUpdate still waits.
AckTaken(s, t, acked, waits) ==
    t = [s EXCEPT !.rtx = RtxRemoveRecords(s.rtx, acked), !.wait = waits]

\* What an acknowledgement leaves of the endpoint.
LEMMA LocalAck ==
    ASSUME NEW s \in State, Local(s), NEW t, NEW acked, NEW waits \in BOOLEAN,
           AckTaken(s, t, acked, waits), waits = (s.wait /\ HasKeyUpdateBuffered(t))
    PROVE  /\ t \in State /\ Local(t) /\ (KeysMatch(s) => KeysMatch(t))
           /\ Removed(s.rtx, t.rtx, acked)
<1> DEFINE kept == RtxRemoveRecords(s.rtx, acked)
<1>1. \A i, j \in 1 .. Len(s.rtx) : s.rtx[i].msg.num = s.rtx[j].msg.num => i = j
  BY DEF Local, RtxInv
<1>2. s.rtx \in Seq(RtxRecord)
  BY StateFields
<1>3. /\ Removed(s.rtx, kept, acked)
      /\ \A j, k \in 1 .. Len(kept) : kept[j].msg.num = kept[k].msg.num => j = k
  BY <1>1, <1>2, RtxRemoveRecordsIs
<1> HIDE DEF kept
<1>4. kept \in Seq(RtxRecord)
  BY <1>3 DEF Removed
<1>5. t = [s EXCEPT !.rtx = kept, !.wait = waits]
  BY DEF AckTaken, kept
<1>6. /\ t \in State /\ t.slots = s.slots /\ t.epoch = s.epoch
      /\ t.peerEpoch = s.peerEpoch /\ t.enc = s.enc /\ t.key = s.key
      /\ t.num = s.num /\ t.rtx = kept /\ t.wait = waits
  BY <1>4, <1>5 DEF State
<1>7. Local(t) /\ (KeysMatch(s) => KeysMatch(t))
  BY <1>3, <1>6, LocalRemoves
<1> QED
  BY <1>3, <1>6, <1>7

\* The fields an acknowledgement leaves alone.
LEMMA AckTakenIs ==
    ASSUME NEW s \in State, NEW t, NEW acked, NEW waits,
           AckTaken(s, t, acked, waits)
    PROVE  /\ t.slots = s.slots /\ t.epoch = s.epoch /\ t.peerEpoch = s.peerEpoch
           /\ t.enc = s.enc /\ t.key = s.key /\ t.num = s.num /\ t.wait = waits
           /\ t.expected = s.expected /\ t.stored = s.stored /\ t.seen = s.seen
           /\ t.err = s.err /\ t.timeouts = s.timeouts
           /\ t.rtx = RtxRemoveRecords(s.rtx, acked)
BY DEF AckTaken, State

\* An acknowledgement after which the sender stays in its epoch.
LEMMA CallAckStays ==
    ASSUME NEW p, NEW w, NEW q, NEW k, NEW from, NEW N, NEW A, NEW B,
           Call(p, w, q, k, from, N, A, B), KeysMatch(w.s),
           NEW acked, acked \subseteq A, NEW v \in Works, v.out = w.out,
           AckTaken(w.s, v.s, acked, w.s.wait),
           w.s.wait => HasKeyUpdateBuffered(v.s)
    PROVE  Call(p, v, q, k, from, N, A, B) /\ KeysMatch(v.s)
<1> DEFINE t == v.s
<1>0. /\ w \in Works /\ w.s \in State /\ Local(w.s) /\ w.s.wait \in BOOLEAN
      /\ w.s.timeouts <= TIMEOUTS
  BY WorkIs, StateFields DEF Call
<1>1. /\ t.slots = w.s.slots /\ t.epoch = w.s.epoch /\ t.peerEpoch = w.s.peerEpoch
      /\ t.num = w.s.num /\ t.wait = w.s.wait /\ t.timeouts = w.s.timeouts
      /\ t.expected = w.s.expected /\ t.stored = w.s.stored
  BY <1>0, AckTakenIs
<1>2. w.s.wait = (w.s.wait /\ HasKeyUpdateBuffered(t))
  BY <1>0
<1>3. /\ t \in State /\ Local(t) /\ KeysMatch(t) /\ Removed(w.s.rtx, t.rtx, acked)
  BY <1>0, <1>2, LocalAck
<1>4. Flight(v, N) = Flight(w, N)
  BY DEF Flight
<1> HIDE DEF t
<1>5. Direction(p, t, q, k, Flight(v, N), A)
  <2>1. Direction(p, w.s, q, k, Flight(w, N), A) /\ RtxInv(w.s)
    BY <1>0 DEF Call, Local
  <2> QED
    BY <1>0, <1>1, <1>3, <1>4, <2>1, SenderRemoves
<1>6. Direction(Other(p), q, t, from, Flight(v, N), B)
  <2>1. Direction(Other(p), q, w.s, from, Flight(w, N), B)
    BY DEF Call
  <2>2. CanDecrypt(w.s, w.s.peerEpoch - 1) => CanDecrypt(t, w.s.peerEpoch - 1)
    BY <1>1 DEF CanDecrypt
  <2> QED
    BY <1>1, <1>4, <2>1, <2>2, ReceiverQuiet
<1> QED
  BY <1>0, <1>1, <1>3, <1>4, <1>5, <1>6 DEF Call, Setting, t

\* The KeyUpdate that waited has arrived when an acknowledgement removes it.
LEMMA AckedUpdate ==
    ASSUME NEW p, NEW w, NEW q, NEW k, NEW from, NEW N, NEW A, NEW B,
           Call(p, w, q, k, from, N, A, B), q.expected <= k,
           NEW acked, acked \subseteq A, NEW t \in State,
           AckTaken(w.s, t, acked, w.s.wait), Removed(w.s.rtx, t.rtx, acked),
           w.s.wait, ~ HasKeyUpdateBuffered(t)
    PROVE  /\ KnownFrom(q, k) = w.s.epoch + 1
           /\ Direction(p, t, q, k, Flight(w, N), A)
<1>0. /\ w \in Works /\ w.s \in State /\ Local(w.s) /\ q \in State /\ q.expected \in Nat
      /\ k \in Nat
  BY WorkIs, StateFields DEF Call, Setting
<1>1. /\ t.slots = w.s.slots /\ t.epoch = w.s.epoch /\ t.peerEpoch = w.s.peerEpoch
      /\ t.num = w.s.num /\ t.wait = w.s.wait
  BY <1>0 DEF AckTaken, State
<1>2. Direction(p, w.s, q, k, Flight(w, N), A) /\ RtxInv(w.s)
  BY <1>0 DEF Call, Local
<1>3. /\ Direction(p, t, q, k, Flight(w, N), A)
      /\ \A i \in 1 .. Len(w.s.rtx) :
            w.s.rtx[i].msg.kind = "key_update" =>
               Got(q, w.s.rtx[i].msg.num) \/ Buffered(t, w.s.rtx[i].msg)
  BY <1>0, <1>1, <1>2, SenderRemoves, ZenonT(120)
<1>4. PICK i \in 1 .. Len(w.s.rtx) : w.s.rtx[i].msg.kind = "key_update"
  BY <1>2 DEF RtxInv, HasKeyUpdateBuffered
<1>5. Got(q, w.s.rtx[i].msg.num)
  BY <1>3, <1>4 DEF Buffered, HasKeyUpdateBuffered
<1>6. w.s.rtx[i].msg.num \in Nat
  BY <1>0, StateFields
<1>7. \/ w.s.rtx[i].msg.num < k
      \/ \E m \in q.stored : m.num = w.s.rtx[i].msg.num
  BY <1>0, <1>5, <1>6 DEF Got
<1>8. EpochInv(w.s, q, k)
  BY <1>2 DEF Direction
<1>9. KnownFrom(q, k) = w.s.epoch + 1
  BY <1>4, <1>7, <1>8 DEF EpochInv
<1> QED
  BY <1>3, <1>9

\* The endpoint writes in the next epoch, with table T.
OwnEpoch(s, T) == [s EXCEPT !.slots = T, !.epoch = s.epoch + 1,
                            !.enc = s.epoch + 1, !.key = s.epoch + 1]

\* Dtls13KeyUpdateAckReceived
LEMMA KeyUpdateAckReceivedIs ==
    ASSUME NEW w \in Works, Ok(w), TableInv(w.s), w.s.epoch < EPOCH_MAX
    PROVE  \E T \in Table : \E x \in Nat :
             /\ EpochAdded(w.s, T, x, w.s.epoch + 1, Enc)
             /\ KeyUpdateAckReceived(w) = [w EXCEPT !.s = OwnEpoch(w.s, T)]
<1> DEFINE e == w.s.epoch + 1
           a == NewEpoch(w, e, Enc)
<1>0. w.s \in State /\ w.s.epoch \in Nat /\ e \in Nat /\ EPOCH_MAX \in Nat
  BY WorkIs, StateFields, KeyUpdateAssumption
<1>1. PICK T \in Table, x \in Nat :
        EpochAdded(w.s, T, x, e, Enc) /\ a = WithTable(w, T, x)
  BY <1>0, NewEpochIs
<1> HIDE DEF a
<1> DEFINE b == [a EXCEPT !.s.epoch = e]
           s == [w.s EXCEPT !.slots = T, !.enc = x]
           y == [w.s EXCEPT !.slots = T, !.enc = x, !.epoch = e]
<1>2. a = [w EXCEPT !.s = s]
  BY <1>1 DEF WithTable
<1>3. /\ s \in State /\ y \in State
  BY <1>0 DEF State
<1>4. Ok(a) /\ b = [w EXCEPT !.s = y]
  BY <1>0, <1>2, <1>3 DEF Ok, Works, State
<1>5. ~ (e > EPOCH_MAX)
  BY <1>0
<1>6. KeyUpdateAckReceived(w) = SetEpochKeys(b, e, Enc)
  BY <1>4, <1>5 DEF KeyUpdateAckReceived, a
<1>7. b \in Works /\ b.s = y /\ y.slots = T
  <2>1. y.slots = T
    BY <1>0 DEF State
  <2> HIDE DEF b, y
  <2> QED
    BY <1>3, <1>4, <2>1, WorkIs
<1>8. e \in DOMAIN T /\ T[e].own /\ T[e].side \in {Both, Enc}
  BY <1>1 DEF EpochAdded, Enc, Dec, Both
<1>9. SetEpochKeys(b, e, Enc) = [b EXCEPT !.s.enc = e, !.s.key = e]
  BY <1>7, <1>8 DEF SetEpochKeys
<1>10. [b EXCEPT !.s.enc = e, !.s.key = e] = [w EXCEPT !.s = OwnEpoch(w.s, T)]
  <2>1. [b EXCEPT !.s.enc = e, !.s.key = e] = [b EXCEPT !.s = [b.s EXCEPT !.enc = e, !.key = e]]
    BY <1>3, <1>7 DEF Works, State
  <2>2. [y EXCEPT !.enc = e, !.key = e] = OwnEpoch(w.s, T)
    BY <1>0 DEF OwnEpoch, State
  <2>3. \A r : [b EXCEPT !.s = r] = [w EXCEPT !.s = r]
    <3> HIDE DEF b, y
    <3> QED
      BY <1>3, <1>4 DEF Works
  <2> HIDE DEF b, y
  <2> QED
    BY <1>7, <2>1, <2>2, <2>3
<1> QED
  BY <1>1, <1>6, <1>9, <1>10

\* The sender has moved to its next epoch.
Moved(w, v) ==
    /\ Ok(v) /\ KeysMatch(v.s) /\ v.s.epoch = w.s.epoch + 1
    /\ v.s.expected = w.s.expected /\ v.s.stored = w.s.stored
    /\ v.s.seen = w.s.seen /\ v.sendAcks = w.sendAcks

\* An acknowledgement after which the sender moves to the next epoch.
LEMMA CallAckMoves ==
    ASSUME NEW p, NEW w, NEW q, NEW k, NEW from, NEW N, NEW A, NEW B,
           Call(p, w, q, k, from, N, A, B), q.expected <= k, Ok(w),
           NEW acked, acked \subseteq A, w.s.wait,
           NEW t \in State, AckTaken(w.s, t, acked, FALSE),
           ~ HasKeyUpdateBuffered(t)
    PROVE  LET v == KeyUpdateAckReceived([w EXCEPT !.s = t])
           IN  Call(p, v, q, k, from, N, A, B) /\ Moved(w, v)
<1> DEFINE z == [w EXCEPT !.s = t]
           v == KeyUpdateAckReceived(z)
           t1 == [w.s EXCEPT !.rtx = RtxRemoveRecords(w.s.rtx, acked)]
<1>0. /\ w \in Works /\ w.s \in State /\ Local(w.s) /\ w.s.epoch < EPOCH_MAX
      /\ w.s.timeouts <= TIMEOUTS /\ w.s.epoch \in Nat
  BY WorkIs, StateFields DEF Call, Local, RtxInv
<1>1. /\ t.slots = w.s.slots /\ t.epoch = w.s.epoch /\ t.peerEpoch = w.s.peerEpoch
      /\ t.num = w.s.num /\ t.wait = FALSE /\ t.timeouts = w.s.timeouts
      /\ t.expected = w.s.expected /\ t.stored = w.s.stored /\ t.seen = w.s.seen
      /\ t.err = w.s.err /\ t.rtx = RtxRemoveRecords(w.s.rtx, acked)
  BY <1>0 DEF AckTaken, State
<1>2. Local(t) /\ Removed(w.s.rtx, t.rtx, acked)
  <2>1. FALSE = (w.s.wait /\ HasKeyUpdateBuffered(t))
    OBVIOUS
  <2> QED
    BY <1>0, <2>1, LocalAck
<1>3. /\ z \in Works /\ z.s = t /\ z.out = w.out /\ z.sendAcks = w.sendAcks
  BY <1>0, WorkIs
<1> HIDE DEF z
<1>4. PICK T \in Table, x \in Nat :
        /\ EpochAdded(t, T, x, t.epoch + 1, Enc)
        /\ v = [z EXCEPT !.s = OwnEpoch(t, T)]
  <2>1. Ok(z) /\ TableInv(z.s) /\ z.s.epoch < EPOCH_MAX
    BY <1>0, <1>1, <1>2, <1>3 DEF Ok, Local
  <2> QED
    BY <1>3, <2>1, KeyUpdateAckReceivedIs
<1> DEFINE u == OwnEpoch(t, T)
<1>5. /\ u \in State /\ u.slots = T /\ u.epoch = t.epoch + 1 /\ u.enc = t.epoch + 1
      /\ u.key = t.epoch + 1 /\ u.peerEpoch = t.peerEpoch /\ u.num = t.num
      /\ u.wait = FALSE /\ u.rtx = t.rtx /\ u.timeouts = t.timeouts
      /\ u.expected = t.expected /\ u.stored = t.stored /\ u.seen = t.seen
      /\ u.err = t.err
  <2>1. t.epoch + 1 \in Nat
    BY <1>0, <1>1
  <2> QED
    BY <1>1, <2>1 DEF OwnEpoch, State
<1> HIDE DEF u, v
<1>6. v \in Works /\ v.s = u /\ v.out = w.out /\ v.sendAcks = w.sendAcks
  <2>1. v = [z EXCEPT !.s = u]
    BY <1>4 DEF u
  <2> QED
    BY <1>3, <1>5, <2>1, WorkIs
<1>7. /\ Local(u) /\ KeysMatch(u)
      /\ CanDecrypt(t, t.peerEpoch - 1) => CanDecrypt(u, t.peerEpoch - 1)
      /\ \A y \in DOMAIN u.slots : u.slots[y].own /\ y # t.epoch + 1 =>
           /\ y \in DOMAIN t.slots /\ t.slots[y].own
           /\ t.slots[y].next <= u.slots[y].next
  <2>1. EpochAdded(t, u.slots, x, t.epoch + 1, Enc)
    BY <1>4, <1>5
  <2>2. \A i \in 1 .. Len(t.rtx) : t.rtx[i].msg.kind # "key_update"
    BY DEF HasKeyUpdateBuffered
  <2>3. t.epoch < EPOCH_MAX /\ ~ t.wait
    BY <1>0, <1>1
  <2> QED
    BY <1>2, <1>5, <2>1, <2>2, <2>3, LocalOwnEpoch
<1>8. KnownFrom(q, k) = w.s.epoch + 1 /\ Direction(p, t1, q, k, Flight(w, N), A)
  <2>1. t1 \in State /\ t1.rtx = t.rtx
    BY <1>0, <1>1, <1>2 DEF State, Removed
  <2>2. AckTaken(w.s, t1, acked, w.s.wait)
    BY <1>0 DEF AckTaken, State
  <2>3. Removed(w.s.rtx, t1.rtx, acked) /\ ~ HasKeyUpdateBuffered(t1)
    BY <1>2, <2>1 DEF HasKeyUpdateBuffered
  <2> HIDE DEF t1
  <2> QED
    BY <2>1, <2>2, <2>3, AckedUpdate
<1>9. Direction(p, u, q, k, Flight(w, N), A)
  <2>1. /\ t1 \in State /\ t1.rtx = t.rtx /\ t1.slots = t.slots
        /\ t1.epoch = t.epoch /\ t1.peerEpoch = t.peerEpoch /\ t1.num = t.num
    BY <1>0, <1>1, <1>2 DEF State, Removed
  <2> HIDE DEF t1
  <2>2. \A i \in 1 .. Len(t1.rtx) : /\ t1.rtx[i].epoch <= t1.epoch
                                    /\ t1.rtx[i].msg.kind # "key_update"
    BY <1>2, <2>1 DEF Local, RtxInv, HasKeyUpdateBuffered
  <2>3. \A y \in DOMAIN u.slots : u.slots[y].own /\ y # t1.epoch + 1 =>
           /\ y \in DOMAIN t1.slots /\ t1.slots[y].own
           /\ t1.slots[y].next <= u.slots[y].next
    BY <1>7, <2>1
  <2>4. /\ Flight(w, N) \subseteq Rec /\ A \subseteq Number /\ q.peerEpoch \in Nat
        /\ KnownFrom(q, k) = t1.epoch + 1
    BY <1>1, <1>8, <2>1, FlightIs, StateFields, ZenonT(30) DEF Call, Setting
  <2>5. /\ u.epoch = t1.epoch + 1 /\ u.peerEpoch = t1.peerEpoch
        /\ u.num = t1.num /\ u.wait = FALSE /\ u.rtx = t1.rtx
    BY <1>5, <2>1
  <2> QED
    BY <1>5, <1>8, <2>1, <2>2, <2>3, <2>4, <2>5, SenderMoves
<1>10. Direction(Other(p), q, u, from, Flight(w, N), B)
  <2>1. Direction(Other(p), q, w.s, from, Flight(w, N), B)
    BY DEF Call
  <2>2. CanDecrypt(w.s, w.s.peerEpoch - 1) => CanDecrypt(u, w.s.peerEpoch - 1)
    BY <1>1, <1>7 DEF CanDecrypt
  <2> QED
    BY <1>1, <1>5, <2>1, <2>2, ReceiverQuiet
<1>11. Flight(v, N) = Flight(w, N)
  BY <1>6 DEF Flight
<1>12. Call(p, v, q, k, from, N, A, B)
  BY <1>0, <1>1, <1>5, <1>6, <1>7, <1>9, <1>10, <1>11 DEF Call, Setting
<1>13. Moved(w, v)
  BY <1>1, <1>5, <1>6, <1>7 DEF Moved, Ok
<1> QED
  BY <1>12, <1>13 DEF v, z

\* Setting the flag that retransmission is due.
Retransmit(b) == [b EXCEPT !.retransmit = b.s.rtx # <<>>]

\* A handler of a record has changed nothing but the fields a record may change.
LEMMA CallRetransmit ==
    ASSUME NEW p, NEW w, NEW b, NEW q, NEW k, NEW N, NEW A, NEW B,
           Call(p, b, q, k, b.s.expected, N, A, B), B \subseteq Number,
           Ok(b), KeysMatch(b.s), NextStored(b.s) = {}, b.s.seen \subseteq B,
           b.s.epoch = w.s.epoch \/ b.s.epoch = w.s.epoch + 1,
           b.s.expected = w.s.expected, b.s.stored = w.s.stored
    PROVE  Handled(p, w, Retransmit(b), q, k, N, A, B)
<1> DEFINE v == Retransmit(b)
<1>0. b \in Works /\ b.s \in State /\ b.s.timeouts <= TIMEOUTS
  BY WorkIs DEF Call
<1>1. v \in Works /\ v.s = b.s /\ v.out = b.out
  BY <1>0 DEF Retransmit, Works
<1> HIDE DEF v
<1>2. Unread(b.s, v.s)
  BY <1>0, <1>1 DEF Unread
<1>3. Call(p, v, q, k, v.s.expected, N, A, B)
  BY <1>0, <1>1, <1>2, CallUnread
<1>4. Ready(v) /\ IsLive(v.s)
  BY <1>1 DEF Ready, Ok, IsLive
<1>5. \A n \in Nat : Got(w.s, n) => Got(v.s, n)
  BY <1>1 DEF Got
<1>6. NextStored(v.s) = {} /\ v.s.seen \subseteq B /\ B \in SUBSET Number
  BY <1>1
<1>7. v.s.epoch = w.s.epoch \/ v.s.epoch = w.s.epoch + 1
  BY <1>1
<1>8. Handled(p, w, v, q, k, N, A, B)
  BY <1>3, <1>4, <1>5, <1>6, <1>7 DEF Handled
<1> QED
  BY <1>8 DEF v

\* DoDtls13Ack
LEMMA CallDoAck ==
    ASSUME NEW p, NEW w, NEW q, NEW k, NEW N, NEW A, NEW B,
           Starts(p, w, q, k, N, A, B), w.s.seen \subseteq B, q.expected <= k,
           NEW acked, acked \subseteq A
    PROVE  Handled(p, w, DoAck(w, acked), q, k, N, A, B)
<1> DEFINE kept == RtxRemoveRecords(w.s.rtx, acked)
           t == [w.s EXCEPT !.rtx = kept]
           t0 == [w.s EXCEPT !.rtx = kept, !.wait = FALSE]
           a == [w EXCEPT !.s.rtx = RtxRemoveRecords(@, acked)]
           a0 == [a EXCEPT !.s.wait = FALSE]
           b == IF a.s.wait /\ ~ HasKeyUpdateBuffered(a.s)
                THEN KeyUpdateAckReceived(a0) ELSE a
<1>0. /\ w \in Works /\ w.s \in State /\ Local(w.s) /\ w.s.wait \in BOOLEAN
      /\ Call(p, w, q, k, w.s.expected, N, A, B) /\ Ok(w) /\ KeysMatch(w.s)
      /\ NextStored(w.s) = {} /\ B \subseteq Number
  BY WorkIs, StateFields DEF Starts, Call, Setting
<1>1. DoAck(w, acked) = Retransmit(b)
  BY DEF DoAck, Retransmit
<1>2. kept \in Seq(RtxRecord)
  <2>1. \A i, j \in 1 .. Len(w.s.rtx) :
           w.s.rtx[i].msg.num = w.s.rtx[j].msg.num => i = j
    BY <1>0 DEF Local, RtxInv
  <2> QED
    BY <1>0, <2>1, RtxRemoveRecordsIs, StateFields DEF Removed
<1>3. /\ a = [w EXCEPT !.s = t] /\ a0 = [w EXCEPT !.s = t0]
  BY <1>0 DEF Works, State
<1>4. /\ AckTaken(w.s, t, acked, w.s.wait) /\ AckTaken(w.s, t0, acked, FALSE)
  BY <1>0 DEF AckTaken, State
<1>5. /\ t \in State /\ t0 \in State /\ t.rtx = kept /\ t0.rtx = kept
      /\ t.wait = w.s.wait
  <2> HIDE DEF kept
  <2> QED
    BY <1>0, <1>2 DEF State
<1>6. HasKeyUpdateBuffered(t) = HasKeyUpdateBuffered(t0)
  <2>1. t.rtx = t0.rtx
    BY <1>5
  <2> HIDE DEF t, t0
  <2> QED
    BY <2>1 DEF HasKeyUpdateBuffered
<1> HIDE DEF t, t0, a, a0, kept
<1>7. a \in Works /\ a.s = t /\ a.out = w.out
  BY <1>0, <1>3, <1>5, WorkIs
<1>8. CASE w.s.wait /\ ~ HasKeyUpdateBuffered(t)
  <2>1. b = KeyUpdateAckReceived([w EXCEPT !.s = t0])
    BY <1>3, <1>5, <1>7, <1>8
  <2>2. ~ HasKeyUpdateBuffered(t0)
    BY <1>6, <1>8
  <2>3. Call(p, b, q, k, w.s.expected, N, A, B) /\ Moved(w, b)
    <3>1. w.s.wait
      BY <1>8
    <3> HIDE DEF b
    <3> QED
      BY <1>0, <1>4, <1>5, <2>1, <2>2, <3>1, CallAckMoves
  <2> HIDE DEF b
  <2>4. /\ b.s.expected = w.s.expected /\ b.s.stored = w.s.stored
        /\ b.s.seen = w.s.seen /\ b.s.epoch = w.s.epoch + 1 /\ Ok(b) /\ KeysMatch(b.s)
    BY <2>3 DEF Moved
  <2>5. NextStored(b.s) = {}
    BY <1>0, <2>4 DEF NextStored
  <2>6. Handled(p, w, Retransmit(b), q, k, N, A, B)
    BY <1>0, <2>3, <2>4, <2>5, CallRetransmit
  <2> QED
    BY <1>1, <2>6
<1>9. CASE ~ (w.s.wait /\ ~ HasKeyUpdateBuffered(t))
  <2>1. b = a
    BY <1>5, <1>7, <1>9
  <2>2. w.s.wait => HasKeyUpdateBuffered(a.s)
    BY <1>7, <1>9
  <2>3. Call(p, a, q, k, w.s.expected, N, A, B) /\ KeysMatch(a.s)
    BY <1>0, <1>4, <1>7, <2>2, CallAckStays
  <2>4. /\ a.s.expected = w.s.expected /\ a.s.stored = w.s.stored
        /\ a.s.seen = w.s.seen /\ a.s.epoch = w.s.epoch /\ a.s.err = w.s.err
    BY <1>0, <1>4, <1>7, AckTakenIs
  <2>5. NextStored(a.s) = {} /\ Ok(a)
    BY <1>0, <2>4 DEF NextStored, Ok
  <2>6. Handled(p, w, Retransmit(a), q, k, N, A, B)
    BY <1>0, <2>3, <2>4, <2>5, CallRetransmit
  <2> QED
    BY <1>1, <2>1, <2>6
<1> QED
  BY <1>8, <1>9

\* The handler of a record took no message and sent nothing.
Aside(s, t) ==
    /\ t.epoch = s.epoch /\ t.peerEpoch = s.peerEpoch
    /\ t.enc = s.enc /\ t.key = s.key /\ t.rtx = s.rtx
    /\ t.num = s.num /\ t.wait = s.wait
    /\ t.expected = s.expected /\ t.stored = s.stored
    /\ t.seen = s.seen /\ t.timeouts = s.timeouts

\* What such a handler leaves to Dtls13DoScheduledWork.
LEMMA HandledAside ==
    ASSUME NEW p, NEW w, NEW v, NEW q, NEW k, NEW N, NEW A, NEW B,
           Starts(p, w, q, k, N, A, B), w.s.seen \subseteq B, Aside(w.s, v.s),
           Call(p, v, q, k, w.s.expected, N, A, B), KeysMatch(v.s), IsLive(v.s)
    PROVE  Handled(p, w, v, q, k, N, A, B)
<1>1. /\ NextStored(v.s) = {} /\ v.s.seen \subseteq B
      /\ v.s.expected = w.s.expected /\ v.s.epoch = w.s.epoch
  BY DEF Starts, Aside, NextStored
<1>2. \A n \in Nat : Got(w.s, n) => Got(v.s, n)
  BY DEF Aside, Got
<1>3. Ready(v)
  BY DEF Ready, AtRest, IsLive, Ok, Call
<1>4. B \in SUBSET Number /\ Call(p, v, q, k, v.s.expected, N, A, B)
  BY <1>1 DEF Call, Setting
<1> QED
  BY <1>1, <1>2, <1>3, <1>4 DEF Handled

\* DoApplicationData, for a record in an epoch the sender has reached.
LEMMA CallDoApplicationData ==
    ASSUME NEW p, NEW w, NEW q, NEW k, NEW N, NEW A, NEW B,
           Starts(p, w, q, k, N, A, B), w.s.seen \subseteq B,
           NEW e \in Nat, e <= w.s.peerEpoch, e <= q.epoch
    PROVE  Handled(p, w, DoApplicationData(w, e), q, k, N, A, B)
<1>0. /\ w \in Works /\ w.s \in State /\ Local(w.s) /\ w.s.timeouts <= TIMEOUTS
      /\ w.s.peerEpoch \in Nat /\ q.epoch \in Nat
      /\ Call(p, w, q, k, w.s.expected, N, A, B) /\ Ok(w) /\ KeysMatch(w.s)
  BY WorkIs, StateFields DEF Starts, Call, Setting
<1>1. CASE w.s.invalidate # e
  <2>1. DoApplicationData(w, e) = w /\ Aside(w.s, w.s) /\ IsLive(w.s)
    BY <1>0, <1>1 DEF DoApplicationData, Aside, IsLive, Ok
  <2> QED
    BY <1>0, <2>1, HandledAside
<1>2. CASE w.s.invalidate = e
  <2>1. PICK T \in Table : /\ SetOlderEpochSide(w.s, e) = [w.s EXCEPT !.slots = T]
                           /\ OlderMarked(w.s, T, e)
    BY <1>0, SetOlderIs
  <2> DEFINE t == [w.s EXCEPT !.slots = T, !.invalidate = 0]
             v == DoApplicationData(w, e)
  <2>2. v = [w EXCEPT !.s = t]
    <3>1. [[w.s EXCEPT !.slots = T] EXCEPT !.invalidate = 0] = t
      BY <1>0 DEF State
    <3> QED
      BY <1>2, <2>1, <3>1 DEF DoApplicationData
  <2>3. /\ t \in State /\ t.slots = T /\ Aside(w.s, t) /\ t.err = w.s.err
    BY <1>0 DEF State, Aside
  <2> HIDE DEF t, v
  <2>4. v \in Works /\ v.s = t /\ v.out = w.out
    BY <1>0, <2>2, <2>3, WorkIs
  <2>5. /\ Local(t) /\ SlotsKept(w.s, t) /\ KeysMatch(t)
        /\ CanDecrypt(w.s, w.s.peerEpoch - 1) /\ e < w.s.peerEpoch =>
             CanDecrypt(t, w.s.peerEpoch - 1)
    <3>1. OlderMarked(w.s, t.slots, e)
      BY <2>1, <2>3
    <3> QED
      BY <1>0, <2>3, <3>1, LocalMarks DEF Aside
  <2>6. Flight(v, N) = Flight(w, N) /\ Flight(v, N) \subseteq Rec
    BY <1>0, <2>4, FlightIs DEF Flight
  <2>7. Direction(p, t, q, k, Flight(v, N), A)
    <3>1. Direction(p, w.s, q, k, Flight(w, N), A) /\ A \subseteq Number
      BY <1>0 DEF Call, Setting
    <3>2. w.s.peerEpoch <= t.peerEpoch
      BY <1>0, <2>3 DEF Aside
    <3> QED
      BY <1>0, <2>3, <2>5, <2>6, <3>1, <3>2, SenderQuiet DEF Aside
  <2>8. Direction(Other(p), q, t, w.s.expected, Flight(v, N), B)
    <3>1. Direction(Other(p), q, w.s, w.s.expected, Flight(w, N), B)
      BY <1>0 DEF Call
    <3>2. q.epoch < w.s.peerEpoch => e < w.s.peerEpoch
      BY <1>0
    <3> QED
      BY <2>3, <2>5, <2>6, <3>1, <3>2, ReceiverQuiet DEF Aside
  <2>9. Call(p, v, q, k, w.s.expected, N, A, B)
    <3>1. t.timeouts <= TIMEOUTS
      BY <1>0, <2>3 DEF Aside
    <3> QED
      BY <1>0, <2>4, <2>5, <2>6, <2>7, <2>8, <3>1 DEF Call
  <2>10. IsLive(v.s)
    BY <1>0, <2>3, <2>4 DEF Ok, IsLive
  <2>11. Handled(p, w, v, q, k, N, A, B)
    BY <2>3, <2>4, <2>5, <2>9, <2>10, HandledAside
  <2> QED
    BY <2>11 DEF v
<1> QED
  BY <1>1, <1>2

\* A record that fails to decrypt is counted.
DropCounted(w, e, n) == [w EXCEPT !.s.slots[e].drops = n]

\* Counting it changes nothing that the invariant reads.
LEMMA DropCountedIs ==
    ASSUME NEW w \in Works, NEW e \in DOMAIN w.s.slots, NEW n \in Nat
    PROVE  LET v == DropCounted(w, e, n)
           IN  /\ v \in Works /\ v.out = w.out /\ SameSlots(w.s, v.s)
               /\ Aside(w.s, v.s) /\ v.s.err = w.s.err
<1> DEFINE T == [w.s.slots EXCEPT ![e].drops = n]
           t == [w.s EXCEPT !.slots = T]
           v == DropCounted(w, e, n)
<1>0. /\ w.s \in State /\ w.s.slots \in Table /\ DOMAIN w.s.slots \subseteq Nat
      /\ w.s.slots = [x \in DOMAIN w.s.slots |-> w.s.slots[x]]
      /\ \A x \in DOMAIN w.s.slots : w.s.slots[x] \in Slot
  BY WorkIs, StateFields, TableIs
<1>1. /\ DOMAIN T = DOMAIN w.s.slots
      /\ \A x \in DOMAIN T : T[x] = IF x = e THEN [w.s.slots[x] EXCEPT !.drops = n]
                                    ELSE w.s.slots[x]
  BY <1>0
<1>2. \A x \in DOMAIN w.s.slots :
         LET y == [w.s.slots[x] EXCEPT !.drops = n]
         IN  /\ y \in Slot /\ y.side = w.s.slots[x].side
             /\ y.own = w.s.slots[x].own /\ y.next = w.s.slots[x].next
  BY <1>0 DEF Slot
<1>3. T \in [DOMAIN w.s.slots -> Slot]
  BY <1>0, <1>1, <1>2
<1>4. T \in Table
  BY <1>0, <1>3, TableIs
<1>5. v = [w EXCEPT !.s = t]
  BY DEF DropCounted
<1>6. /\ t \in State /\ t.slots = T /\ Aside(w.s, t) /\ t.err = w.s.err
  <2> HIDE DEF T
  <2> QED
    BY <1>0, <1>4 DEF State, Aside
<1>7. SameSlots(w.s, t)
  <2> HIDE DEF t
  <2> QED
    BY <1>1, <1>2, <1>6 DEF SameSlots
<1> HIDE DEF t, T, v
<1>8. v \in Works /\ v.s = t /\ v.out = w.out
  BY <1>5, <1>6, WorkIs
<1> QED
  BY <1>6, <1>7, <1>8 DEF v

\* Dtls13CheckAEADFailLimit
LEMMA CallCheckAEADFailLimit ==
    ASSUME NEW p, NEW w, NEW q, NEW k, NEW N, NEW A, NEW B,
           Starts(p, w, q, k, N, A, B), w.s.seen \subseteq B,
           NEW e \in DOMAIN w.s.slots
    PROVE  Handled(p, w, CheckAEADFailLimit(w, e), q, k, N, A, B)
<1> DEFINE drops == w.s.slots[e].drops + 1
           n == IF w.s.slots[e].drops > FAIL_LIMIT THEN w.s.slots[e].drops ELSE drops
           v == DropCounted(w, e, n)
           u == [v EXCEPT !.doKeyUpdate = TRUE, !.s.invalidate = v.s.peerEpoch + 1]
           r == CheckAEADFailLimit(w, e)
<1>0. /\ w \in Works /\ w.s \in State /\ w.s.timeouts <= TIMEOUTS
      /\ Call(p, w, q, k, w.s.expected, N, A, B) /\ Ok(w) /\ KeysMatch(w.s)
  BY WorkIs DEF Starts, Call
<1>1. n \in Nat
  <2>1. w.s.slots[e].drops \in Nat
    BY <1>0, StateFields DEF Slot
  <2> QED
    BY <2>1
<1>2. r = IF drops > FAIL_LIMIT THEN Fail(v, "decrypt")
          ELSE IF drops > FAIL_KU_LIMIT /\ ~ v.s.req THEN u ELSE v
  BY DEF CheckAEADFailLimit, DropCounted
<1>3. /\ v \in Works /\ v.out = w.out /\ SameSlots(w.s, v.s)
      /\ Aside(w.s, v.s) /\ v.s.err = w.s.err
  <2> HIDE DEF n
  <2> QED
    BY <1>0, <1>1, DropCountedIs
<1> HIDE DEF v, n
<1>4. Call(p, v, q, k, w.s.expected, N, A, B) /\ KeysMatch(v.s) /\ v.s \in State
  <2>1. v.s.timeouts <= TIMEOUTS
    BY <1>0, <1>3 DEF Aside
  <2> QED
    BY <1>0, <1>3, <2>1, CallQuiet, WorkIs DEF Aside
<1>5. CASE drops > FAIL_LIMIT
  <2> DEFINE f == Fail(v, "decrypt")
  <2>1. r = f
    BY <1>2, <1>5
  <2>2. "decrypt" \in Errors
    BY DEF Errors
  <2>3. /\ Call(p, f, q, k, w.s.expected, N, A, B) /\ KeysMatch(f.s)
        /\ f.s.err = "decrypt"
    BY <1>4, <2>2, CallFails
  <2>4. Aside(v.s, f.s)
    BY <1>3, <1>4 DEF Fail, Aside, Works, State
  <2> HIDE DEF f
  <2>5. Aside(w.s, f.s) /\ IsLive(f.s)
    BY <1>3, <2>3, <2>4 DEF Aside, IsLive
  <2> QED
    BY <2>1, <2>3, <2>5, HandledAside
<1>6. CASE ~ (drops > FAIL_LIMIT) /\ drops > FAIL_KU_LIMIT /\ ~ v.s.req
  <2> DEFINE t == [v.s EXCEPT !.invalidate = v.s.peerEpoch + 1]
  <2>1. r = u
    BY <1>2, <1>6
  <2>2. v.s.peerEpoch + 1 \in Nat
    BY <1>4, StateFields
  <2>3. /\ t \in State /\ Unread(v.s, t) /\ Aside(v.s, t) /\ t.err = v.s.err
    BY <1>4, <2>2 DEF State, Unread, Aside
  <2>4. u = [v EXCEPT !.s = t, !.doKeyUpdate = TRUE]
    OBVIOUS
  <2> HIDE DEF t, u
  <2>5. u \in Works /\ u.s = t /\ u.out = v.out
    BY <1>3, <2>3, <2>4 DEF Works
  <2>6. u.s.timeouts <= TIMEOUTS
    BY <1>0, <1>3, <2>3, <2>5 DEF Aside
  <2>7. Call(p, u, q, k, w.s.expected, N, A, B) /\ KeysMatch(u.s)
    BY <1>4, <2>3, <2>5, <2>6, CallUnread
  <2>8. Aside(w.s, u.s) /\ IsLive(u.s)
    BY <1>0, <1>3, <2>3, <2>5 DEF Aside, IsLive, Ok
  <2> QED
    BY <2>1, <2>7, <2>8, HandledAside
<1>7. CASE ~ (drops > FAIL_LIMIT) /\ ~ (drops > FAIL_KU_LIMIT /\ ~ v.s.req)
  <2>1. r = v
    BY <1>2, <1>7
  <2>2. IsLive(v.s)
    BY <1>0, <1>3 DEF IsLive, Ok
  <2> QED
    BY <1>3, <1>4, <2>1, <2>2, HandledAside
<1> QED
  BY <1>5, <1>6, <1>7

\* How a call leaves the endpoint.
Ended(p, w, v, q, k, N, A, B) ==
    /\ AtRest(v.s) /\ (v.s.epoch = w.s.epoch \/ v.s.epoch = w.s.epoch + 1)
    /\ \A n \in Nat : Got(w.s, n) => Got(v.s, n)
    /\ \/ /\ NextStored(v.s) = {}
          /\ \E C \in SUBSET Number :
               /\ WillAck(v.s) \subseteq C
               /\ Call(p, v, q, k, v.s.expected, N, A, C)
       \/ /\ ~ IsLive(v.s)
          /\ Call(p, v, q, k, v.s.expected + 1, N, A, B)

\* The work scheduled by the handler of a record ends the call.
LEMMA EndedScheduled ==
    ASSUME NEW p, NEW w, NEW v, NEW q, NEW k, NEW N, NEW A, NEW B,
           Handled(p, w, v, q, k, N, A, B)
    PROVE  Ended(p, w, DoScheduledWork(p, v), q, k, N, A, B)
<1> DEFINE x == DoScheduledWork(p, v)
<1>1. CASE /\ IsLive(v.s) /\ NextStored(v.s) = {}
           /\ \E C \in SUBSET Number :
                /\ v.s.seen \subseteq C
                /\ Call(p, v, q, k, v.s.expected, N, A, C)
  <2>1. PICK C \in SUBSET Number : /\ v.s.seen \subseteq C
                                   /\ Call(p, v, q, k, v.s.expected, N, A, C)
    BY <1>1
  <2>2. Call(p, x, q, k, v.s.expected, N, A, C) /\ Keeps(v, x) /\ AtRest(x.s)
    <3>1. Ready(v)
      BY DEF Handled
    <3> QED
      BY <2>1, <3>1, CallDoScheduledWork
  <2> HIDE DEF x
  <2>3. /\ x.s.expected = v.s.expected /\ x.s.stored = v.s.stored
        /\ x.s.epoch = v.s.epoch /\ WillAck(x.s) \subseteq C
    BY <2>1, <2>2 DEF Keeps, WillAck
  <2>4. NextStored(x.s) = {} /\ \A n \in Nat : Got(v.s, n) => Got(x.s, n)
    BY <1>1, <2>3 DEF NextStored, Got
  <2>5. \A n \in Nat : Got(w.s, n) => Got(x.s, n)
    BY <2>4 DEF Handled
  <2>6. x.s.epoch = w.s.epoch \/ x.s.epoch = w.s.epoch + 1
    BY <2>3 DEF Handled
  <2>7. Ended(p, w, x, q, k, N, A, B)
    BY <2>2, <2>3, <2>4, <2>5, <2>6 DEF Ended
  <2> QED
    BY <2>7 DEF x
<1>2. CASE ~ IsLive(v.s) /\ Call(p, v, q, k, v.s.expected + 1, N, A, B)
  <2>1. ~ Ok(v)
    BY <1>2 DEF Ok, IsLive
  <2>2. x = v
    BY <2>1 DEF DoScheduledWork
  <2>3. AtRest(v.s)
    BY <2>1 DEF Handled, Ready
  <2> QED
    BY <1>2, <2>2, <2>3 DEF Ended, Handled
<1> QED
  BY <1>1, <1>2 DEF Handled

\* A call that only sends.
LEMMA EndedSends ==
    ASSUME NEW p, NEW w, NEW v, NEW q, NEW k, NEW N, NEW A, NEW B,
           Starts(p, w, q, k, N, A, B), w.s.seen \subseteq B,
           Call(p, v, q, k, w.s.expected, N, A, B), Keeps(w, v), AtRest(v.s)
    PROVE  Ended(p, w, v, q, k, N, A, B)
<1>1. /\ v.s.expected = w.s.expected /\ v.s.stored = w.s.stored
      /\ v.s.epoch = w.s.epoch /\ WillAck(v.s) \subseteq B
  BY DEF Keeps, WillAck
<1>2. NextStored(v.s) = {} /\ \A n \in Nat : Got(w.s, n) => Got(v.s, n)
  BY <1>1 DEF NextStored, Got, Starts
<1>3. B \in SUBSET Number /\ Call(p, v, q, k, v.s.expected, N, A, B)
  BY <1>1 DEF Call, Setting
<1> QED
  BY <1>1, <1>2, <1>3 DEF Ended

\* wolfSSL_write
SentData(p, w) ==
    LET u == EncryptWith(w, w.s.epoch)
    IN  IF Ok(u) THEN [u EXCEPT !.out = {Record(p, u.s, "data", {})}] ELSE u

\* Application data is sent in the highest epoch.
LEMMA CallSendData ==
    ASSUME NEW p, NEW w, NEW q, NEW k, NEW from, NEW N, NEW A, NEW B,
           Call(p, w, q, k, from, N, A, B), Ok(w), KeysMatch(w.s), w.out = {}
    PROVE  LET v == SentData(p, w)
           IN  Call(p, v, q, k, from, N, A, B) /\ Keeps(w, v) /\ AtRest(v.s)
<1> DEFINE u == EncryptWith(w, w.s.epoch)
           rec == Record(p, u.s, "data", {})
           v == SentData(p, w)
<1>0. /\ w \in Works /\ w.s \in State /\ Local(w.s) /\ w.s.epoch \in Nat
      /\ w.s.epoch >= TRAFFIC0 /\ p \in Peer
  BY WorkIs, StateFields DEF Call, Setting, Local, TableInv
<1>1. /\ Call(p, u, q, k, from, N, A, B) /\ Keeps(w, u)
      /\ u.out = w.out
      /\ \/ Ok(u) /\ KeysMatch(u.s) /\ u.s.enc = w.s.epoch
         \/ u.s.err = "state" /\ w.s.epoch # u.s.epoch
  BY <1>0, CallLoads
<1>2. Ok(u) /\ KeysMatch(u.s) /\ u.s.enc = u.s.epoch /\ u.s.epoch = w.s.epoch
  BY <1>1 DEF Keeps
<1>3. u \in Works /\ u.s \in State /\ Local(u.s) /\ u.s.timeouts <= TIMEOUTS
  BY <1>1, WorkIs DEF Call, Setting
<1>4. v = [u EXCEPT !.out = {rec}]
  BY <1>2 DEF SentData
<1> HIDE DEF u
<1>5. u.s.key = u.s.epoch /\ u.s.epoch \in Nat
  BY <1>2, <1>3, StateFields DEF KeysMatch, Local, TableInv
<1>6. /\ rec \in Rec /\ rec.from = p /\ rec.epoch = u.s.epoch
      /\ rec.key = u.s.epoch /\ rec.type = "data"
  BY <1>0, <1>2, <1>5 DEF Record, Rec, DataRec
<1> HIDE DEF rec, v
<1>7. /\ v \in Works /\ v.s = u.s /\ v.out = {rec}
      /\ v.sendAcks = u.sendAcks /\ v.retransmit = u.retransmit
      /\ v.doKeyUpdate = u.doKeyUpdate
  BY <1>3, <1>4, <1>6 DEF Works
<1>8. Flight(v, N) = Flight(u, N) \cup {rec}
  BY <1>1, <1>7 DEF Flight
<1>9. Direction(p, u.s, q, k, Flight(v, N), A)
  <2>1. Direction(p, u.s, q, k, Flight(u, N), A)
    BY <1>1 DEF Call
  <2>2. /\ rec.type # "handshake" /\ rec.key = rec.epoch /\ rec.epoch <= u.s.epoch
    BY <1>5, <1>6
  <2> QED
    BY <1>8, <2>1, <2>2, SenderSendsOther
<1>10. /\ Direction(Other(p), q, u.s, from, Flight(v, N), B)
       /\ AckedNumbers(Other(p), Flight(v, N)) \subseteq B
  <2>1. rec.from = p /\ rec.type # "ack"
    BY <1>6
  <2> QED
    BY <1>1, <1>8, <2>1, OtherDirection
<1>11. Call(p, v, q, k, from, N, A, B)
  <2>1. \A y \in v.out : y.from = p
    BY <1>6, <1>7
  <2> QED
    BY <1>1, <1>3, <1>7, <1>9, <1>10, <2>1 DEF Call
<1>12. Keeps(w, v) /\ AtRest(v.s)
  BY <1>1, <1>2, <1>3, <1>7 DEF Keeps, AtRest, Ok
<1> QED
  BY <1>11, <1>12 DEF v

\* Setting the flag of the fast timeout.
LEMMA CallNotFast ==
    ASSUME NEW p, NEW w, NEW q, NEW k, NEW from, NEW N, NEW A, NEW B,
           Call(p, w, q, k, from, N, A, B), KeysMatch(w.s)
    PROVE  LET v == [w EXCEPT !.s.fast = FALSE]
           IN  /\ Call(p, v, q, k, from, N, A, B) /\ KeysMatch(v.s)
               /\ Keeps(w, v) /\ v.s.err = w.s.err
<1> DEFINE t == [w.s EXCEPT !.fast = FALSE]
           v == [w EXCEPT !.s.fast = FALSE]
<1>0. w \in Works /\ w.s \in State /\ w.s.timeouts <= TIMEOUTS
  BY WorkIs DEF Call
<1>1. t \in State
  BY <1>0 DEF State
<1>2. /\ Unread(w.s, t) /\ t.err = w.s.err /\ t.timeouts = w.s.timeouts
      /\ t.seen = w.s.seen /\ t.epoch = w.s.epoch
      /\ t.expected = w.s.expected /\ t.stored = w.s.stored
  BY <1>0, <1>1 DEF Unread, State
<1>3. v = [w EXCEPT !.s = t]
  OBVIOUS
<1> HIDE DEF t, v
<1>4. /\ v \in Works /\ v.s = t /\ v.out = w.out /\ v.sendAcks = w.sendAcks
      /\ v.retransmit = w.retransmit /\ v.doKeyUpdate = w.doKeyUpdate
  BY <1>0, <1>1, <1>3, WorkIs
<1>5. Call(p, v, q, k, from, N, A, B) /\ KeysMatch(v.s)
  BY <1>0, <1>2, <1>4, CallUnread
<1>6. Keeps(w, v) /\ v.s.err = w.s.err
  BY <1>2, <1>4 DEF Keeps
<1> QED
  BY <1>5, <1>6 DEF v

\* Doubling the timeout.
LEMMA CallDoubles ==
    ASSUME NEW p, NEW w, NEW q, NEW k, NEW from, NEW N, NEW A, NEW B,
           Call(p, w, q, k, from, N, A, B), KeysMatch(w.s),
           w.s.timeouts # TIMEOUTS
    PROVE  LET v == [w EXCEPT !.s.timeouts = @ + 1]
           IN  /\ Call(p, v, q, k, from, N, A, B) /\ KeysMatch(v.s)
               /\ Keeps(w, v) /\ v.s.err = w.s.err
<1> DEFINE t == [w.s EXCEPT !.timeouts = w.s.timeouts + 1]
           v == [w EXCEPT !.s.timeouts = @ + 1]
<1>0. /\ w \in Works /\ w.s \in State /\ w.s.timeouts <= TIMEOUTS
      /\ w.s.timeouts \in Nat /\ TIMEOUTS \in Nat
  BY WorkIs, KeyUpdateAssumption DEF Call, State
<1>1. t \in State
  <2>1. w.s.timeouts + 1 \in Nat
    BY <1>0
  <2> QED
    BY <1>0, <2>1 DEF State
<1>2. /\ Unread(w.s, t) /\ t.err = w.s.err /\ t.timeouts = w.s.timeouts + 1
      /\ t.seen = w.s.seen /\ t.epoch = w.s.epoch
      /\ t.expected = w.s.expected /\ t.stored = w.s.stored
  BY <1>0, <1>1 DEF Unread, State
<1>3. v = [w EXCEPT !.s = t]
  OBVIOUS
<1> HIDE DEF t, v
<1>4. /\ v \in Works /\ v.s = t /\ v.out = w.out /\ v.sendAcks = w.sendAcks
      /\ v.retransmit = w.retransmit /\ v.doKeyUpdate = w.doKeyUpdate
  BY <1>0, <1>1, <1>3, WorkIs
<1>5. v.s.timeouts <= TIMEOUTS
  BY <1>0, <1>2, <1>4
<1>6. Call(p, v, q, k, from, N, A, B) /\ KeysMatch(v.s)
  BY <1>2, <1>4, <1>5, CallUnread
<1>7. Keeps(w, v) /\ v.s.err = w.s.err
  BY <1>2, <1>4 DEF Keeps
<1> QED
  BY <1>6, <1>7 DEF v

\* Dtls13RtxTimeout
LEMMA CallRtxTimeout ==
    ASSUME NEW p, NEW w, NEW q, NEW k, NEW from, NEW N, NEW A, NEW B,
           Call(p, w, q, k, from, N, A, B), Ok(w), KeysMatch(w.s),
           w.s.seen \subseteq B
    PROVE  LET v == RtxTimeout(p, w)
           IN  Call(p, v, q, k, from, N, A, B) /\ Keeps(w, v) /\ AtRest(v.s)
<1> DEFINE w1 == [w EXCEPT !.s.fast = FALSE]
           a == IF w.s.seen # {} THEN SendAck(p, w1) ELSE w
           v == RtxTimeout(p, w)
<1>1. v = IF ~ Ok(a) THEN a
          ELSE IF a.s.fast THEN [a EXCEPT !.s.fast = FALSE]
          ELSE IF a.s.timeouts = TIMEOUTS THEN Fail(a, "timeout")
          ELSE RtxSendBuffered(p, [a EXCEPT !.s.timeouts = @ + 1])
  BY DEF RtxTimeout
<1>2. /\ Call(p, a, q, k, from, N, A, B) /\ Keeps(w, a) /\ Ok(a) /\ KeysMatch(a.s)
  <2>1. CASE w.s.seen = {}
    BY <2>1 DEF Keeps
  <2>2. CASE w.s.seen # {}
    <3>1. /\ Call(p, w1, q, k, from, N, A, B) /\ KeysMatch(w1.s)
          /\ Keeps(w, w1) /\ w1.s.err = w.s.err
      BY CallNotFast
    <3> HIDE DEF w1
    <3>2. Ok(w1) /\ Loadable(w1.s) /\ w1.s.seen \subseteq B
      BY <3>1 DEF Ok, Loadable, Keeps
    <3> DEFINE x == SendAck(p, w1)
    <3>3. Call(p, x, q, k, from, N, A, B) /\ Keeps(w1, x) /\ Ok(x) /\ KeysMatch(x.s)
      BY <3>1, <3>2, CallSendAck
    <3> HIDE DEF x
    <3>4. Keeps(w, x)
      BY <3>1, <3>3 DEF Keeps
    <3>5. a = x
      BY <2>2 DEF x
    <3> HIDE DEF a
    <3> QED
      BY <3>3, <3>4, <3>5
  <2> QED
    BY <2>1, <2>2
<1> HIDE DEF a, v, w1
<1>3. CASE a.s.fast
  <2> DEFINE x == [a EXCEPT !.s.fast = FALSE]
  <2>1. /\ Call(p, x, q, k, from, N, A, B) /\ KeysMatch(x.s)
        /\ Keeps(a, x) /\ x.s.err = a.s.err
    BY <1>2, CallNotFast
  <2>2. v = x
    BY <1>1, <1>2, <1>3
  <2> HIDE DEF x
  <2>3. Keeps(w, x) /\ AtRest(x.s)
    BY <1>2, <2>1 DEF Keeps, AtRest, Ok, Call
  <2> QED
    BY <2>1, <2>2, <2>3 DEF v
<1>4. CASE ~ a.s.fast /\ a.s.timeouts = TIMEOUTS
  <2> DEFINE x == Fail(a, "timeout")
  <2>1. "timeout" \in Errors
    BY DEF Errors
  <2>2. /\ Call(p, x, q, k, from, N, A, B) /\ Keeps(a, x) /\ x.s.err = "timeout"
    BY <1>2, <2>1, CallFails
  <2>3. v = x
    BY <1>1, <1>2, <1>4
  <2> HIDE DEF x
  <2>4. Keeps(w, x) /\ AtRest(x.s)
    BY <1>2, <2>2 DEF Keeps, AtRest, IsLive, Call
  <2> QED
    BY <2>2, <2>3, <2>4 DEF v
<1>5. CASE ~ a.s.fast /\ a.s.timeouts # TIMEOUTS
  <2> DEFINE y == [a EXCEPT !.s.timeouts = @ + 1]
             x == RtxSendBuffered(p, y)
  <2>1. /\ Call(p, y, q, k, from, N, A, B) /\ KeysMatch(y.s)
        /\ Keeps(a, y) /\ y.s.err = a.s.err
    BY <1>2, <1>5, CallDoubles
  <2>2. v = x
    BY <1>1, <1>2, <1>5
  <2> HIDE DEF y
  <2>3. Call(p, x, q, k, from, N, A, B) /\ Resending(y, x)
    <3>1. Ok(y)
      BY <1>2, <2>1 DEF Ok
    <3> QED
      BY <2>1, <3>1, CallRtxSendBuffered
  <2> HIDE DEF x
  <2>4. Keeps(w, x)
    BY <1>2, <2>1, <2>3 DEF Keeps, Resending
  <2>5. AtRest(x.s)
    BY <2>3 DEF AtRest, Resending, Ok, IsLive, Call
  <2> QED
    BY <2>2, <2>3, <2>4, <2>5 DEF v
<1> QED
  BY <1>3, <1>4, <1>5

-----------------------------------------------------------------------------
(***************************************************************************)
(* A record's epoch.                                                       *)
(***************************************************************************)

\* A nonempty set of naturals with an upper bound has a largest element.
LEMMA MaxIs ==
    ASSUME NEW S, S \subseteq Nat, S # {}, NEW b \in Nat, \A x \in S : x <= b
    PROVE  Max(S) \in S /\ \A y \in S : Max(S) >= y
<1> DEFINE D == {b - x : x \in S}
<1>1. D \subseteq Nat /\ D # {}
  <2>1. \A x \in S : b - x \in Nat
    OBVIOUS
  <2> QED
    BY <2>1
<1>2. Min(D) \in D
  <2> HIDE DEF D
  <2> QED
    BY <1>1, MinIs
<1>3. \A y \in D : Min(D) <= y
  <2>1. \E x \in D : \A y \in D : ~ (<<y, x>> \in OpToRel(<, Nat))
    <3> HIDE DEF D
    <3> QED
      BY <1>1, WFMin, NatLessThanWellFounded
  <2> HIDE DEF D
  <2>2. \E x \in D : \A y \in D : ~ (y < x)
    BY <1>1, <2>1 DEF OpToRel
  <2>3. \E x \in D : \A y \in D : x <= y
    BY <1>1, <2>2
  <2> QED
    BY <2>3 DEF Min
<1>4. PICK x \in S : Min(D) = b - x
  BY <1>2
<1>5. \A y \in S : b - x <= b - y
  BY <1>3, <1>4
<1>6. \A y \in S : x >= y
  BY <1>5
<1> QED
  BY <1>6 DEF Max

\* Dtls13ReconstructEpochNumber finds an epoch that can be read, the peer's
\* current one or the largest with the two bits, or none.
LEMMA ReconstructIs ==
    ASSUME NEW s \in State, Local(s), NEW bits
    PROVE  LET e == ReconstructEpochNumber(s, bits)
           IN  /\ e \in Nat
               /\ s.peerEpoch % 4 = bits => e = s.peerEpoch
               /\ e # 0 => CanDecrypt(s, e) /\ e <= s.peerEpoch
               /\ s.peerEpoch % 4 # bits =>
                    \A y \in DOMAIN s.slots :
                       y % 4 = bits /\ CanDecrypt(s, y) => e % 4 = bits /\ y <= e
<1> DEFINE same == {e \in DOMAIN s.slots : e % 4 = bits /\ CanDecrypt(s, e)}
           r == ReconstructEpochNumber(s, bits)
<1>0. /\ DOMAIN s.slots \subseteq Nat /\ s.peerEpoch \in Nat
      /\ CanDecrypt(s, s.peerEpoch)
      /\ \A e \in DOMAIN s.slots : CanDecrypt(s, e) => e <= s.peerEpoch
  BY StateFields DEF Local, TableInv, SlotsInv, CanDecrypt
<1>1. r = IF s.peerEpoch % 4 = bits THEN s.peerEpoch
          ELSE IF same = {} THEN 0 ELSE Max(same)
  BY DEF ReconstructEpochNumber
<1>2. \A x \in same : x <= s.peerEpoch /\ CanDecrypt(s, x) /\ x % 4 = bits /\ x \in Nat
  BY <1>0
<1>3. \A y \in DOMAIN s.slots : y % 4 = bits /\ CanDecrypt(s, y) => y \in same
  OBVIOUS
<1> HIDE DEF same, r
<1>4. same # {} => Max(same) \in same /\ \A y \in same : Max(same) >= y
  BY <1>0, <1>2, MaxIs
<1>5. CASE s.peerEpoch % 4 = bits
  BY <1>0, <1>1, <1>5 DEF r
<1>6. CASE s.peerEpoch % 4 # bits /\ same = {}
  <2>1. r = 0
    BY <1>1, <1>6
  <2> QED
    BY <1>3, <1>6, <2>1 DEF r
<1>7. CASE s.peerEpoch % 4 # bits /\ same # {}
  <2>1. r \in same /\ \A y \in same : r >= y
    BY <1>1, <1>4, <1>7
  <2>2. \A y \in same : y <= r
    BY <1>2, <2>1
  <2> QED
    BY <1>2, <1>3, <1>7, <2>1, <2>2 DEF r
<1> QED
  BY <1>5, <1>6, <1>7

\* Consecutive epochs have different bits.
LEMMA BitsDiffer ==
    ASSUME NEW a \in Nat
    PROVE  (a + 1) % 4 # a % 4
OBVIOUS

-----------------------------------------------------------------------------
(***************************************************************************)
(* The calls.                                                              *)
(***************************************************************************)

\* From which message on q's stored KeyUpdates are not applied yet.
Opening(q, k) ==
    \/ k = q.expected /\ NextStored(q) = {}
    \/ k = q.expected + 1 /\ ~ IsLive(q)

\* What a call of p's finds when it starts, and does not change.
Context(p, k) ==
    /\ Opening(peer[Other(p)], k) /\ k \in Nat
    /\ Starts(p, Work(p), peer[Other(p)], k, net,
              WillAck(peer[Other(p)]) \cup AckedNumbers(p, net),
              WillAck(peer[p]) \cup AckedNumbers(Other(p), net))

\* Acknowledged numbers are numbers.
LEMMA AckedIs ==
    ASSUME NEW p, NEW N, N \subseteq Rec
    PROVE  AckedNumbers(p, N) \subseteq Number
<1>1. \A rec \in N : rec.type = "ack" => rec.body \subseteq Number
  BY DEF Rec, HandshakeRec, AckRec, DataRec
<1> QED
  BY <1>1 DEF AckedNumbers

\* A call starts from a state that satisfies the invariant.
LEMMA CallStarts ==
    ASSUME IndInv, NEW p \in Peer, Live(p)
    PROVE  /\ \E k : Context(p, k)
           /\ Work(p).out = {} /\ Work(p).s.seen = peer[p].seen
           /\ Work(p).s.slots = peer[p].slots /\ Work(p).s.epoch = peer[p].epoch
           /\ Work(p).s.peerEpoch = peer[p].peerEpoch
           /\ Work(p).s.expected = peer[p].expected
           /\ Work(p).s.stored = peer[p].stored
           /\ Work(p).s.seen \subseteq WillAck(peer[p]) \cup AckedNumbers(Other(p), net)
<1> DEFINE s == peer[p]
           q == peer[Other(p)]
           w == [s |-> peer[p], out |-> {}, sendAcks |-> FALSE,
                 retransmit |-> FALSE, doKeyUpdate |-> FALSE]
           A == WillAck(q) \cup AckedNumbers(p, net)
           B == WillAck(s) \cup AckedNumbers(Other(p), net)
<1>0. Other(p) \in Peer /\ Other(Other(p)) = p
  BY DEF Peer, Other
<1>1. /\ Local(s) /\ AtRest(s) /\ Between(p, s, q, net, A)
      /\ Local(q) /\ AtRest(q) /\ Between(Other(p), q, s, net, B)
      /\ net \subseteq Rec
  BY <1>0, Zenon DEF IndInv, PairInv
<1>2. IsLive(s) /\ s \in State /\ q \in State
  BY <1>1 DEF Live, IsLive, Local
<1>3. A \subseteq Number /\ B \subseteq Number
  BY <1>1, <1>2, AckedIs, StateFields DEF WillAck
<1>4. /\ NextStored(s) = {} /\ Direction(Other(p), q, s, s.expected, net, B)
  BY <1>1, <1>2 DEF Between
<1>5. PICK k : Opening(q, k) /\ Direction(p, s, q, k, net, A)
  BY <1>1 DEF Between, Opening
<1>6. k \in Nat /\ s.expected \in Nat
  BY <1>2, <1>5, StateFields DEF Opening
<1>7. /\ w \in Works /\ w.s = s /\ w.out = {} /\ ~ w.sendAcks
  BY <1>2 DEF Works
<1> HIDE DEF w, A, B, s, q
<1>8. Flight(w, net) = net
  BY <1>7 DEF Flight
<1>9. AckedNumbers(Other(p), net) \subseteq B
  BY DEF B
<1>10. Call(p, w, q, k, s.expected, net, A, B)
  <2>1. Setting(p, q, k, s.expected, net, A, B)
    BY <1>1, <1>2, <1>3, <1>6 DEF Setting
  <2>2. s.timeouts <= TIMEOUTS
    BY <1>1 DEF AtRest
  <2> QED
    BY <1>1, <1>4, <1>5, <1>7, <1>8, <1>9, <2>1, <2>2 DEF Call
<1>11. Work(p) = Fail(w, "none")
  <2>1. Fail(w, "none") = [w EXCEPT !.s = [w.s EXCEPT !.err = "none"]]
    BY DEF Fail
  <2>2. w.s = peer[p]
    BY <1>7 DEF s
  <2>3. Fail(w, "none") = [w EXCEPT !.s = [peer[p] EXCEPT !.err = "none"]]
    BY <2>1, <2>2
  <2> QED
    BY <2>3 DEF Work, w
<1> DEFINE x == Fail(w, "none")
<1>12. /\ Call(p, x, q, k, s.expected, net, A, B) /\ Keeps(w, x)
       /\ x.s.err = "none" /\ KeysMatch(x.s)
  <2>1. "none" \in Errors /\ KeysMatch(w.s)
    BY <1>1, <1>2, <1>7 DEF Errors, AtRest
  <2> QED
    BY <1>10, <2>1, CallFails
<1>13. /\ x.s = [s EXCEPT !.err = "none"] /\ x.out = {} /\ x.sendAcks = FALSE
  BY <1>7 DEF Fail, w, s
<1>14. /\ x.s.seen = s.seen /\ x.s.slots = s.slots /\ x.s.epoch = s.epoch
       /\ x.s.peerEpoch = s.peerEpoch /\ x.s.expected = s.expected
       /\ x.s.stored = s.stored
  BY <1>2, <1>13 DEF State
<1> HIDE DEF x
<1>15. Starts(p, x, q, k, net, A, B)
  BY <1>4, <1>12, <1>13, <1>14 DEF Starts, Ok, NextStored
<1>16. x.s.seen \subseteq B
  BY <1>2, <1>14 DEF WillAck, B
<1>17. Work(p) = x
  BY <1>11 DEF x
<1>18. Context(p, k)
  BY <1>5, <1>6, <1>15, <1>17 DEF Context, A, B, s, q
<1> QED
  BY <1>13, <1>14, <1>16, <1>17, <1>18 DEF s, B

\* Fewer records acknowledge fewer numbers.
LEMMA AckedLess ==
    ASSUME NEW p, NEW M, NEW N, M \subseteq N
    PROVE  AckedNumbers(p, M) \subseteq AckedNumbers(p, N)
BY DEF AckedNumbers

\* The other endpoint's acknowledgements are not among the records p sends.
LEMMA AckedOwn ==
    ASSUME NEW p, NEW N, NEW out, \A rec \in out : rec.from # Other(p)
    PROVE  AckedNumbers(p, N \cup out) \subseteq AckedNumbers(p, N)
BY DEF AckedNumbers

\* The invariant holds again at the end of a call, whatever of the records in
\* flight is lost.
LEMMA EndedPair ==
    ASSUME NEW p \in Peer, NEW w, NEW v, NEW q, NEW k, NEW N, NEW A, NEW B,
           Ended(p, w, v, q, k, N, A, B), AtRest(q), Opening(q, k),
           A = WillAck(q) \cup AckedNumbers(p, N),
           NEW M, M \subseteq Flight(v, N)
    PROVE  /\ PairInv(p, v.s, q, M) /\ PairInv(Other(p), q, v.s, M)
           /\ M \subseteq Rec
<1>1. PICK from, C :
        /\ Call(p, v, q, k, from, N, A, C) /\ WillAck(v.s) \subseteq C
        /\ \/ NextStored(v.s) = {} /\ from = v.s.expected
           \/ ~ IsLive(v.s) /\ from = v.s.expected + 1
  <2>1. CASE /\ NextStored(v.s) = {}
             /\ \E D \in SUBSET Number :
                  /\ WillAck(v.s) \subseteq D
                  /\ Call(p, v, q, k, v.s.expected, N, A, D)
    BY <2>1
  <2>2. CASE ~ IsLive(v.s) /\ Call(p, v, q, k, v.s.expected + 1, N, A, B)
    BY <2>2 DEF WillAck
  <2> QED
    BY <2>1, <2>2 DEF Ended
<1>2. /\ Local(v.s) /\ Local(q) /\ AtRest(v.s) /\ (\A rec \in v.out : rec.from = p)
      /\ Direction(p, v.s, q, k, Flight(v, N), A)
      /\ Direction(Other(p), q, v.s, from, Flight(v, N), C)
      /\ AckedNumbers(Other(p), Flight(v, N)) \subseteq C
  BY <1>1 DEF Call, Setting, Ended
<1>3. Other(p) # p /\ M \subseteq Rec
  BY <1>1, FlightIs
<1>4. Between(p, v.s, q, M, WillAck(q) \cup AckedNumbers(p, M))
  <2>1. AckedNumbers(p, M) \subseteq AckedNumbers(p, N)
    <3>1. AckedNumbers(p, M) \subseteq AckedNumbers(p, N \cup v.out)
      BY AckedLess DEF Flight
    <3> QED
      BY <1>2, <1>3, <3>1, AckedOwn
  <2>2. WillAck(q) \cup AckedNumbers(p, M) \subseteq A
    BY <2>1
  <2>3. Direction(p, v.s, q, k, M, WillAck(q) \cup AckedNumbers(p, M))
    BY <1>2, <2>2, DirectionLess
  <2> QED
    BY <2>3 DEF Between, Opening
<1>5. Between(Other(p), q, v.s, M, WillAck(v.s) \cup AckedNumbers(Other(p), M))
  <2>1. AckedNumbers(Other(p), M) \subseteq AckedNumbers(Other(p), Flight(v, N))
    BY AckedLess
  <2>2. WillAck(v.s) \cup AckedNumbers(Other(p), M) \subseteq C
    BY <1>1, <1>2, <2>1
  <2>3. Direction(Other(p), q, v.s, from, M,
                  WillAck(v.s) \cup AckedNumbers(Other(p), M))
    BY <1>2, <2>2, DirectionLess
  <2> QED
    BY <1>1, <2>3 DEF Between
<1> QED
  BY <1>2, <1>3, <1>4, <1>5 DEF PairInv

\* How an action that is a call of p's ends; q is the other endpoint.
Returns(p, v, k) ==
    Ended(p, Work(p), v, peer[Other(p)], k, net,
          WillAck(peer[Other(p)]) \cup AckedNumbers(p, net),
          WillAck(peer[p]) \cup AckedNumbers(Other(p), net))

\* The state after a call.
LEMMA FinishIs ==
    ASSUME IndInv, NEW p \in Peer, NEW v, NEW others, Finish(p, v, others)
    PROVE  /\ DOMAIN peer' = Peer /\ peer'[p] = v.s
           /\ peer'[Other(p)] = peer[Other(p)]
           /\ net' \subseteq others \cup v.out /\ lost' = lost
           /\ Peer = {p, Other(p)} /\ Other(Other(p)) = p
<1>1. Peer = {p, Other(p)} /\ Other(Other(p)) = p /\ Other(p) # p
  BY DEF Peer, Other
<1>2. DOMAIN peer = Peer
  BY DEF IndInv
<1>3. /\ peer' = [peer EXCEPT ![p] = v.s] /\ lost' = lost
      /\ net' \in Kept(others \cup v.out)
  BY DEF Finish
<1>4. DOMAIN peer' = Peer /\ peer'[p] = v.s /\ peer'[Other(p)] = peer[Other(p)]
  BY <1>1, <1>2, <1>3
<1>5. net' \subseteq others \cup v.out
  BY <1>3 DEF Kept, kSubset
<1> QED
  BY <1>1, <1>3, <1>4, <1>5

\* A call preserves the invariant.
LEMMA CallEnds ==
    ASSUME IndInv, NEW p \in Peer, NEW k, Context(p, k), NEW v, Returns(p, v, k),
           NEW others, others \subseteq net, Finish(p, v, others)
    PROVE  IndInv'
<1>1. /\ DOMAIN peer' = Peer /\ peer'[p] = v.s
      /\ peer'[Other(p)] = peer[Other(p)]
      /\ net' \subseteq others \cup v.out /\ lost' = lost
      /\ Peer = {p, Other(p)} /\ Other(Other(p)) = p
  BY FinishIs
<1> DEFINE q == peer[Other(p)]
           A == WillAck(q) \cup AckedNumbers(p, net)
           B == WillAck(peer[p]) \cup AckedNumbers(Other(p), net)
<1>2. AtRest(q) /\ Opening(q, k) /\ Ended(p, Work(p), v, q, k, net, A, B)
  BY <1>1 DEF IndInv, PairInv, Context, Returns
<1>3. net' \subseteq Flight(v, net)
  BY <1>1 DEF Flight
<1>4. /\ PairInv(p, v.s, q, net') /\ PairInv(Other(p), q, v.s, net')
      /\ net' \subseteq Rec
  <2> HIDE DEF B, q
  <2> QED
    BY <1>2, <1>3, EndedPair
<1>5. \A x \in Peer : PairInv(x, peer'[x], peer'[Other(x)], net')
  BY <1>1, <1>4
<1>6. lost' \in 0 .. LOSSES
  BY <1>1 DEF IndInv
<1> QED
  BY <1>1, <1>4, <1>5, <1>6 DEF IndInv

\* A step of the system that is a call of p's.
Called(p, k, v, others) ==
    /\ Context(p, k) /\ Returns(p, v, k)
    /\ others \subseteq net /\ Finish(p, v, others)

\* A call that only sends.
LEMMA CalledSends ==
    ASSUME IndInv, NEW p \in Peer, Live(p), NEW v, Finish(p, v, net),
           \A q, k, N, A, B :
              Starts(p, Work(p), q, k, N, A, B) /\ Work(p).s.seen \subseteq B =>
                 /\ Call(p, v, q, k, Work(p).s.expected, N, A, B)
                 /\ Keeps(Work(p), v) /\ AtRest(v.s)
    PROVE  \E k : Called(p, k, v, net)
<1> DEFINE w == Work(p)
           q == peer[Other(p)]
           A == WillAck(q) \cup AckedNumbers(p, net)
           B == WillAck(peer[p]) \cup AckedNumbers(Other(p), net)
<1>1. PICK k : Context(p, k)
  BY CallStarts
<1>2. Starts(p, w, q, k, net, A, B) /\ w.s.seen \subseteq B
  BY <1>1, CallStarts DEF Context
<1>3. /\ Call(p, v, q, k, w.s.expected, net, A, B) /\ Keeps(w, v) /\ AtRest(v.s)
  BY <1>2
<1>4. Ended(p, w, v, q, k, net, A, B)
  <2> HIDE DEF w, q, A, B
  <2> QED
    BY <1>2, <1>3, EndedSends
<1>5. Returns(p, v, k)
  BY <1>4 DEF Returns
<1> QED
  BY <1>1, <1>5 DEF Called

\* wolfSSL_update_keys
LEMMA UpdateKeysCalls ==
    ASSUME IndInv, NEW p \in Peer, UpdateKeys(p)
    PROVE  \E k, v : Called(p, k, v, net)
<1> DEFINE w == Work(p)
           v == Tls13UpdateKeys(p, w)
<1>1. Live(p) /\ Finish(p, v, net)
  BY DEF UpdateKeys
<1>2. ASSUME NEW q, NEW k, NEW N, NEW A, NEW B,
             Starts(p, w, q, k, N, A, B), w.s.seen \subseteq B
      PROVE  /\ Call(p, v, q, k, w.s.expected, N, A, B)
             /\ Keeps(w, v) /\ AtRest(v.s)
  <2> HIDE DEF w
  <2>1. /\ Call(p, v, q, k, w.s.expected, N, A, B) /\ Keeps(w, v)
        /\ (Ok(v) /\ KeysMatch(v.s)) \/ v.s.err = "limit"
    BY <1>2, CallTls13UpdateKeys DEF Starts
  <2> HIDE DEF v
  <2>2. AtRest(v.s)
    BY <2>1 DEF AtRest, Ok, IsLive, Call
  <2> QED
    BY <2>1, <2>2
<1> HIDE DEF v
<1> QED
  BY <1>1, <1>2, CalledSends

\* wolfSSL_send_SessionTicket
LEMMA SendTicketCalls ==
    ASSUME IndInv, NEW p \in Peer, SendTicket(p)
    PROVE  \E k, v : Called(p, k, v, net)
<1> DEFINE w == Work(p)
           v == HandshakeSend(p, w, "ticket", FALSE)
<1>1. Live(p) /\ Finish(p, v, net)
  BY DEF SendTicket
<1>2. ASSUME NEW q, NEW k, NEW N, NEW A, NEW B,
             Starts(p, w, q, k, N, A, B), w.s.seen \subseteq B
      PROVE  /\ Call(p, v, q, k, w.s.expected, N, A, B)
             /\ Keeps(w, v) /\ AtRest(v.s)
  <2> HIDE DEF w
  <2>1. Call(p, w, q, k, w.s.expected, N, A, B) /\ Ok(w) /\ Loadable(w.s)
    BY <1>2 DEF Starts, Loadable
  <2>2. /\ Call(p, v, q, k, w.s.expected, N, A, B) /\ Keeps(w, v)
        /\ Ok(v) /\ KeysMatch(v.s)
    BY <2>1, CallHandshakeSend
  <2> HIDE DEF v
  <2>3. AtRest(v.s)
    BY <2>2 DEF AtRest, Ok, IsLive, Call
  <2> QED
    BY <2>2, <2>3
<1> HIDE DEF v
<1> QED
  BY <1>1, <1>2, CalledSends

\* wolfSSL_write
LEMMA SendDataCalls ==
    ASSUME IndInv, NEW p \in Peer, SendData(p)
    PROVE  \E k, v : Called(p, k, v, net)
<1> DEFINE w == Work(p)
           v == SentData(p, w)
<1>0. Live(p)
  BY DEF SendData
<1>1. w.s.epoch = peer[p].epoch /\ w.out = {}
  BY <1>0, CallStarts
<1>2. Finish(p, v, net)
  BY <1>1 DEF SendData, SentData
<1>3. ASSUME NEW q, NEW k, NEW N, NEW A, NEW B,
             Starts(p, w, q, k, N, A, B), w.s.seen \subseteq B
      PROVE  /\ Call(p, v, q, k, w.s.expected, N, A, B)
             /\ Keeps(w, v) /\ AtRest(v.s)
  <2> HIDE DEF w
  <2> QED
    BY <1>1, <1>3, CallSendData DEF Starts
<1> HIDE DEF v
<1> QED
  BY <1>0, <1>2, <1>3, CalledSends

\* wolfSSL_dtls_got_timeout
LEMMA GotTimeoutCalls ==
    ASSUME IndInv, NEW p \in Peer, GotTimeout(p)
    PROVE  \E k, v : Called(p, k, v, net)
<1> DEFINE w == Work(p)
           v == RtxTimeout(p, w)
<1>1. Live(p) /\ Finish(p, v, net)
  BY DEF GotTimeout
<1>2. ASSUME NEW q, NEW k, NEW N, NEW A, NEW B,
             Starts(p, w, q, k, N, A, B), w.s.seen \subseteq B
      PROVE  /\ Call(p, v, q, k, w.s.expected, N, A, B)
             /\ Keeps(w, v) /\ AtRest(v.s)
  <2> HIDE DEF w
  <2> QED
    BY <1>2, CallRtxTimeout DEF Starts
<1> HIDE DEF v
<1> QED
  BY <1>1, <1>2, CalledSends

\* A call that handles a record, and does the work scheduled by it.
LEMMA CalledHandles ==
    ASSUME IndInv, NEW p \in Peer, NEW k, Context(p, k), NEW v, NEW others,
           others \subseteq net,
           Handled(p, Work(p), v, peer[Other(p)], k, net,
                   WillAck(peer[Other(p)]) \cup AckedNumbers(p, net),
                   WillAck(peer[p]) \cup AckedNumbers(Other(p), net)),
           Finish(p, DoScheduledWork(p, v), others)
    PROVE  Called(p, k, DoScheduledWork(p, v), others)
<1>1. Returns(p, DoScheduledWork(p, v), k)
  BY EndedScheduled DEF Returns
<1> QED
  BY <1>1 DEF Called

\* A damaged record.
LEMMA ReadDamagedCalls ==
    ASSUME IndInv, NEW p \in Peer, NEW e, ReadDamaged(p, e)
    PROVE  \E k, v : Called(p, k, v, net)
<1> DEFINE w == Work(p)
           q == peer[Other(p)]
           A == WillAck(q) \cup AckedNumbers(p, net)
           B == WillAck(peer[p]) \cup AckedNumbers(Other(p), net)
           v == CheckAEADFailLimit(w, e)
<1>0. /\ Live(p) /\ e = ReconstructEpochNumber(peer[p], e % 4) /\ e # 0
      /\ Finish(p, DoScheduledWork(p, v), net)
  BY DEF ReadDamaged
<1>1. PICK k : Context(p, k)
  BY <1>0, CallStarts
<1>2. /\ Starts(p, w, q, k, net, A, B) /\ w.s.seen \subseteq B
      /\ w.s.slots = peer[p].slots
  BY <1>0, <1>1, CallStarts DEF Context
<1>3. e \in DOMAIN w.s.slots
  <2>1. Local(peer[p]) /\ peer[p] \in State
    BY DEF IndInv, PairInv, Local
  <2>2. CanDecrypt(peer[p], e)
    BY <1>0, <2>1, ReconstructIs
  <2> QED
    BY <1>2, <2>2 DEF CanDecrypt
<1>4. Handled(p, w, v, q, k, net, A, B)
  <2> HIDE DEF w, q, A, B
  <2> QED
    BY <1>2, <1>3, CallCheckAEADFailLimit
<1> HIDE DEF v
<1>5. Called(p, k, DoScheduledWork(p, v), net)
  BY <1>0, <1>1, <1>4, CalledHandles
<1> QED
  BY <1>5

\* A record that can be decrypted names its own epoch.
LEMMA OpenedRecord ==
    ASSUME IndInv, NEW p \in Peer, Live(p), NEW rec \in net, rec.from = Other(p)
    PROVE  /\ rec.epoch <= peer[Other(p)].epoch
           /\ rec.key = rec.epoch \/ rec.key = 0
           /\ rec.type \in {"handshake", "ack", "data"} /\ rec.epoch \in Nat
<1> DEFINE s == peer[p]
           q == peer[Other(p)]
           B == WillAck(s) \cup AckedNumbers(Other(p), net)
<1>1. Other(p) \in Peer /\ Other(Other(p)) = p
  BY DEF Peer, Other
<1>2. Between(Other(p), q, s, net, B) /\ net \subseteq Rec
  BY <1>1, Zenon DEF IndInv, PairInv
<1>3. SentInv(Other(p), q, net)
  BY <1>2 DEF Between, Direction
<1>4. /\ rec.epoch <= q.epoch /\ (rec.key = rec.epoch \/ rec.key = Wiped)
  BY <1>3 DEF SentInv
<1>5. rec.type \in {"handshake", "ack", "data"} /\ rec.epoch \in Nat
  BY <1>2 DEF Rec, HandshakeRec, AckRec, DataRec
<1> QED
  BY <1>4, <1>5 DEF Wiped

\* wolfSSL_read on a record.
LEMMA ReadRecordCalls ==
    ASSUME IndInv, NEW p \in Peer, Live(p), NEW rec \in net, rec.from = Other(p),
           ReadRecord(p, rec)
    PROVE  \E k, v : Called(p, k, v, net \ {rec})
<1> DEFINE w == Work(p)
           q == peer[Other(p)]
           A == WillAck(q) \cup AckedNumbers(p, net)
           B == WillAck(peer[p]) \cup AckedNumbers(Other(p), net)
           e == ReconstructEpochNumber(peer[p], rec.epoch % 4)
           v == Opened(p, rec)
<1>0. /\ e # 0 /\ CanDecrypt(peer[p], e)
      /\ Finish(p, DoScheduledWork(p, v), net \ {rec})
  BY DEF ReadRecord, NoEpochFor
<1>1. PICK k : Context(p, k)
  BY CallStarts
<1>2. /\ Starts(p, w, q, k, net, A, B) /\ w.s.seen \subseteq B /\ Opening(q, k)
      /\ w.s.slots = peer[p].slots /\ w.s.peerEpoch = peer[p].peerEpoch
  BY <1>1, CallStarts DEF Context
<1>3. e \in Nat /\ e <= w.s.peerEpoch /\ e \in DOMAIN w.s.slots
  <2>1. Local(peer[p]) /\ peer[p] \in State
    BY DEF IndInv, PairInv, Local
  <2>2. e \in Nat /\ e <= peer[p].peerEpoch
    BY <1>0, <2>1, ReconstructIs
  <2> QED
    BY <1>0, <1>2, <2>2 DEF CanDecrypt
<1>4. /\ rec.epoch <= q.epoch /\ (rec.key = rec.epoch \/ rec.key = 0)
      /\ rec.type \in {"handshake", "ack", "data"}
  BY OpenedRecord
<1>5. v = CASE rec.key # e -> CheckAEADFailLimit(w, e)
            [] rec.key = e /\ rec.type = "handshake" ->
                  HandshakeRecv(p, w, e, rec.body)
            [] rec.key = e /\ rec.type = "ack" -> DoAck(w, rec.body)
            [] rec.key = e /\ rec.type = "data" -> DoApplicationData(w, e)
  BY DEF Opened
<1> HIDE DEF w, e, v
<1>6. Handled(p, w, v, q, k, net, A, B)
  <2>1. CASE rec.key # e
    <3>1. v = CheckAEADFailLimit(w, e)
      BY <1>5, <2>1
    <3> HIDE DEF q, A, B
    <3> QED
      BY <1>2, <1>3, <3>1, CallCheckAEADFailLimit
  <2>2. CASE rec.key = e /\ rec.type = "handshake"
    <3>1. v = HandshakeRecv(p, w, e, rec.body) /\ e = rec.epoch
      BY <1>0, <1>4, <1>5, <2>2
    <3>2. rec \in Keyed(Other(p), net)
      BY <2>2, <3>1 DEF Keyed, Handshakes
    <3> HIDE DEF q, A, B
    <3> QED
      BY <1>2, <3>1, <3>2, CallHandshakeRecv
  <2>3. CASE rec.key = e /\ rec.type = "ack"
    <3>1. v = DoAck(w, rec.body)
      BY <1>5, <2>3
    <3>2. rec.body \subseteq A
      BY <2>3 DEF AckedNumbers
    <3>3. q.expected <= k
      <4>1. q.expected \in Nat
        BY <1>2, StateFields DEF Starts, Call, Setting
      <4> QED
        BY <1>2, <4>1 DEF Opening
    <3> HIDE DEF q, A, B
    <3> QED
      BY <1>2, <3>1, <3>2, <3>3, CallDoAck
  <2>4. CASE rec.key = e /\ rec.type = "data"
    <3>1. v = DoApplicationData(w, e) /\ e = rec.epoch
      BY <1>0, <1>4, <1>5, <2>4
    <3>2. e <= q.epoch
      BY <1>4, <3>1
    <3> HIDE DEF q, A, B
    <3> QED
      BY <1>2, <1>3, <3>1, <3>2, CallDoApplicationData
  <2> QED
    BY <1>4, <2>1, <2>2, <2>3, <2>4
<1>7. Called(p, k, DoScheduledWork(p, v), net \ {rec})
  BY <1>0, <1>1, <1>6, CalledHandles DEF w
<1> QED
  BY <1>7

\* Steps of the network and of time: records are lost, and a retransmission is
\* not recent any more.
Aged(s, t) == t = s \/ t = [s EXCEPT !.recent = FALSE]

Passes ==
    /\ DOMAIN peer' = Peer /\ net' \subseteq net /\ lost' \in 0 .. LOSSES
    /\ \A p \in Peer : Aged(peer[p], peer'[p])

\* Every step is a call, or one of those.
LEMMA NextIs ==
    ASSUME IndInv, Next
    PROVE  \/ \E p \in Peer : \E k, v, others : Called(p, k, v, others)
           \/ Passes
<1>0. DOMAIN peer = Peer /\ lost \in 0 .. LOSSES /\ LOSSES \in Nat
  BY KeyUpdateAssumption DEF IndInv
<1>1. CASE Lose
  BY <1>0, <1>1 DEF Lose, Passes, Aged
<1>2. ASSUME NEW p \in Peer, Messages(p)
      PROVE  \/ \E k, v, others : Called(p, k, v, others)
             \/ Passes
  <2>1. CASE UpdateKeys(p)
    BY <2>1, UpdateKeysCalls
  <2>2. CASE SendTicket(p)
    BY <2>2, SendTicketCalls
  <2>3. CASE Receive(p)
    <3>1. PICK rec \in net : /\ rec.from = Other(p) /\ Live(p)
                             /\ DropRecord(p, rec) \/ ReadRecord(p, rec)
      BY <2>3 DEF Receive
    <3>2. CASE DropRecord(p, rec)
      BY <1>0, <3>2 DEF DropRecord, Passes, Aged
    <3>3. CASE ReadRecord(p, rec)
      BY <3>1, <3>3, ReadRecordCalls
    <3> QED
      BY <3>1, <3>2, <3>3
  <2> QED
    BY <1>2, <2>1, <2>2, <2>3 DEF Messages
<1>3. ASSUME NEW p \in Peer, SendData(p)
      PROVE  \E k, v, others : Called(p, k, v, others)
  BY <1>3, SendDataCalls
<1>4. ASSUME NEW p \in Peer, NEW e, ReadDamaged(p, e)
      PROVE  \E k, v, others : Called(p, k, v, others)
  BY <1>4, ReadDamagedCalls
<1>5. ASSUME NEW p \in Peer, GotTimeout(p)
      PROVE  \E k, v, others : Called(p, k, v, others)
  BY <1>5, GotTimeoutCalls
<1>6. ASSUME NEW p \in Peer, IntervalPasses(p)
      PROVE  Passes
  <2>1. /\ peer' = [peer EXCEPT ![p].recent = FALSE] /\ net' = net /\ lost' = lost
    BY <1>6 DEF IntervalPasses
  <2>2. /\ DOMAIN peer' = Peer
        /\ \A x \in Peer : peer'[x] = IF x = p THEN [peer[p] EXCEPT !.recent = FALSE]
                                      ELSE peer[x]
    BY <1>0, <2>1
  <2>3. \A x \in Peer : Aged(peer[x], peer'[x])
    BY <2>2 DEF Aged
  <2> QED
    BY <1>0, <2>1, <2>2, <2>3 DEF Passes
<1> QED
  BY <1>1, <1>2, <1>3, <1>4, <1>5, <1>6 DEF Next

\* The invariant reads no field that time changes.
LEMMA AgedIs ==
    ASSUME NEW s \in State, NEW t, Aged(s, t)
    PROVE  /\ t \in State /\ Unread(s, t) /\ t.err = s.err
           /\ t.timeouts = s.timeouts /\ t.seen = s.seen
<1>1. CASE t = s
  BY <1>1 DEF Unread
<1>2. CASE t = [s EXCEPT !.recent = FALSE]
  BY <1>2 DEF Unread, State
<1> QED
  BY <1>1, <1>2 DEF Aged

\* The network and time preserve the invariant.
LEMMA PairPasses ==
    ASSUME NEW p, NEW s, NEW q, NEW N, N \subseteq Rec, PairInv(p, s, q, N), Local(q),
           NEW t, NEW u, NEW M, Aged(s, t), Aged(q, u), M \subseteq N
    PROVE  PairInv(p, t, u, M)
<1> DEFINE A == WillAck(q) \cup AckedNumbers(p, N)
           C == WillAck(u) \cup AckedNumbers(p, M)
<1>0. s \in State /\ q \in State /\ Local(s) /\ AtRest(s) /\ Between(p, s, q, N, A)
  BY DEF PairInv, Local
<1>1. /\ t \in State /\ Unread(s, t) /\ t.err = s.err
      /\ t.timeouts = s.timeouts /\ t.seen = s.seen
      /\ u \in State /\ Unread(q, u) /\ u.err = q.err /\ u.seen = q.seen
  BY <1>0, AgedIs
<1>2. /\ t.slots = s.slots /\ t.epoch = s.epoch /\ t.peerEpoch = s.peerEpoch
      /\ t.enc = s.enc /\ t.key = s.key /\ t.rtx = s.rtx
      /\ t.num = s.num /\ t.wait = s.wait
      /\ u.slots = q.slots /\ u.peerEpoch = q.peerEpoch
      /\ u.expected = q.expected /\ u.stored = q.stored
  BY <1>1 DEF Unread
<1>3. Local(t) /\ SlotsKept(s, t) /\ (KeysMatch(s) => KeysMatch(t))
  <2>1. SameSlots(s, t)
    BY <1>2 DEF SameSlots
  <2> QED
    BY <1>0, <1>1, <1>2, <2>1, LocalSame
<1>4. AtRest(t)
  BY <1>0, <1>1, <1>2, <1>3 DEF AtRest, IsLive, Evicted
<1>5. A \subseteq Number
  BY <1>0, AckedIs, StateFields DEF WillAck
<1>6. C \subseteq A
  <2>1. WillAck(u) = WillAck(q)
    BY <1>1 DEF WillAck, IsLive
  <2>2. AckedNumbers(p, M) \subseteq AckedNumbers(p, N)
    BY AckedLess
  <2> QED
    BY <2>1, <2>2
<1> HIDE DEF A, C
<1>7. ASSUME NEW from, Direction(p, s, q, from, N, A)
      PROVE  Direction(p, t, u, from, M, C)
  <2>1. s.peerEpoch <= t.peerEpoch
    BY <1>0, <1>2, StateFields
  <2>2. Direction(p, t, q, from, N, A)
    BY <1>0, <1>1, <1>2, <1>3, <1>5, <1>7, <2>1, SenderQuiet
  <2>3. CanDecrypt(q, q.peerEpoch - 1) => CanDecrypt(u, q.peerEpoch - 1)
    BY <1>2 DEF CanDecrypt
  <2>4. Direction(p, t, u, from, N, A)
    BY <1>2, <2>2, <2>3, ReceiverQuiet
  <2> QED
    BY <1>6, <2>4, DirectionLess
<1>8. NextStored(u) = NextStored(q) /\ IsLive(u) = IsLive(q)
  BY <1>1, <1>2 DEF NextStored, IsLive
<1>9. Between(p, t, u, M, C)
  BY <1>0, <1>2, <1>7, <1>8 DEF Between
<1> QED
  BY <1>3, <1>4, <1>9 DEF PairInv, C

\* Steps that are no calls preserve the invariant.
LEMMA PassesInv ==
    ASSUME IndInv, Passes
    PROVE  IndInv'
<1>1. ASSUME NEW p \in Peer
      PROVE  PairInv(p, peer'[p], peer'[Other(p)], net')
  <2>1. Other(p) \in Peer
    BY DEF Peer, Other
  <2>2. /\ PairInv(p, peer[p], peer[Other(p)], net) /\ Local(peer[Other(p)])
        /\ net \subseteq Rec
    BY <2>1, Zenon DEF IndInv, PairInv
  <2>3. /\ Aged(peer[p], peer'[p]) /\ Aged(peer[Other(p)], peer'[Other(p)])
        /\ net' \subseteq net
    BY <2>1 DEF Passes
  <2> QED
    BY <2>2, <2>3, PairPasses
<1>2. net' \subseteq Rec /\ DOMAIN peer' = Peer /\ lost' \in 0 .. LOSSES
  BY DEF IndInv, Passes
<1> QED
  BY <1>1, <1>2 DEF IndInv

\* The endpoint at the end of the handshake.
LEMMA EstablishedIs ==
    Local(Established) /\ AtRest(Established)
<1> DEFINE s == Established
           T == [e \in {0, 2, 3} |-> NewSlot(Both)]
           b == NewSlot(Both)
<1>1. b \in Slot /\ b.side = Both /\ b.own /\ b.next = 0
  BY DEF NewSlot, Slot, Both, Enc, Dec
<1>2. T \in Table /\ DOMAIN T = {0, 2, 3} /\ \A e \in {0, 2, 3} : T[e] = b
  <2> HIDE DEF b
  <2>1. [e \in {0, 2, 3} |-> b] \in [{0, 2, 3} -> Slot]
    BY <1>1
  <2>2. {0, 2, 3} \in SUBSET Nat
    OBVIOUS
  <2>3. T = [e \in {0, 2, 3} |-> b]
    BY DEF b
  <2>4. [e \in {0, 2, 3} |-> b] \in Table
    BY <2>1, <2>2, TableIs
  <2> QED
    BY <2>3, <2>4
<1> HIDE DEF T
<1>3. /\ s.epoch = 3 /\ s.peerEpoch = 3 /\ s.slots = T /\ s.enc = 3 /\ s.key = 3
      /\ s.wait = FALSE /\ s.num = 0 /\ s.expected = 0 /\ s.stored = {}
      /\ s.rtx = <<>> /\ s.seen = {} /\ s.timeouts = 0 /\ s.err = "none"
  BY DEF Established, TRAFFIC0, T
<1>4. s \in State
  <2>1. <<>> \in Seq(RtxRecord) /\ "none" \in Errors
    BY DEF Errors
  <2> QED
    BY <1>2, <2>1, SeenIs DEF Established, State, TRAFFIC0, T
<1>5. IsFiniteSet({0, 2, 3}) /\ Cardinality({0, 2, 3}) <= 3
  <2>1. IsFiniteSet({0}) /\ Cardinality({0}) = 1
    BY FS_Singleton
  <2>2. IsFiniteSet({0} \cup {2}) /\ Cardinality({0} \cup {2}) <= 2
    <3>1. /\ IsFiniteSet({0} \cup {2})
          /\ \/ Cardinality({0} \cup {2}) = Cardinality({0})
             \/ Cardinality({0} \cup {2}) = Cardinality({0}) + 1
      BY <2>1, FS_AddElement
    <3> QED
      BY <2>1, <3>1
  <2>3. Cardinality({0} \cup {2}) \in Nat
    BY <2>2, FS_CardinalityType
  <2> DEFINE J == {0} \cup {2}
             K == J \cup {3}
  <2>4. IsFiniteSet(J) /\ Cardinality(J) \in Nat /\ Cardinality(J) <= 2
    BY <2>2, <2>3
  <2> HIDE DEF J
  <2>5. /\ IsFiniteSet(K)
        /\ Cardinality(K) = Cardinality(J) \/ Cardinality(K) = Cardinality(J) + 1
    BY <2>4, FS_AddElement
  <2>6. IsFiniteSet(K) /\ Cardinality(K) <= 3
    <3> HIDE DEF K
    <3> QED
      BY <2>4, <2>5
  <2>7. {0, 2, 3} = K
    BY DEF J
  <2> QED
    BY <2>6, <2>7
<1> HIDE DEF s
<1>6. TableInv(s)
  <2>1. EPOCH_SIZE \in Nat /\ EPOCH_SIZE >= 4
    BY KeyUpdateAssumption
  <2>2. IsFiniteSet(DOMAIN s.slots) /\ Cardinality(DOMAIN s.slots) <= EPOCH_SIZE
    <3> DEFINE c == Cardinality({0, 2, 3})
    <3>1. c \in Nat /\ c <= 3
      BY <1>5, FS_CardinalityType
    <3> HIDE DEF c
    <3>2. c <= EPOCH_SIZE
      BY <2>1, <3>1
    <3> QED
      BY <1>2, <1>3, <1>5, <3>2 DEF c
  <2>3. s.slots[3].own /\ s.slots[3].side = Both /\ 3 \in DOMAIN s.slots
    BY <1>1, <1>2, <1>3
  <2> QED
    BY <1>3, <2>2, <2>3 DEF TableInv, TRAFFIC0, Enc, Dec, Both
<1>7. SlotsInv(s)
  <2>1. \A e \in DOMAIN s.slots : e <= 3 /\ s.slots[e].own
    BY <1>1, <1>2, <1>3
  <2> QED
    BY <1>3, <2>1 DEF SlotsInv, TRAFFIC0
<1>8. RtxInv(s)
  <2>1. Len(s.rtx) = 0 /\ 1 .. 0 = {}
    BY <1>3
  <2> QED
    BY <1>3, <2>1, KeyUpdateAssumption DEF RtxInv
<1>9. AtRest(s)
  <2>1. KeysMatch(s)
    BY <1>1, <1>2, <1>3 DEF KeysMatch, Dec, Both
  <2>2. s.timeouts <= TIMEOUTS
    BY <1>3, KeyUpdateAssumption
  <2> QED
    BY <1>3, <2>1, <2>2 DEF AtRest
<1> QED
  BY <1>4, <1>6, <1>7, <1>8, <1>9 DEF Local, s

\* The invariant holds initially.
LEMMA InitInv ==
    ASSUME Init
    PROVE  IndInv
<1> DEFINE s == Established
<1>1. /\ Local(s) /\ AtRest(s)
  BY EstablishedIs
<1>2. /\ s.epoch = 3 /\ s.peerEpoch = 3 /\ s.wait = FALSE /\ s.num = 0
      /\ s.expected = 0 /\ s.stored = {} /\ s.rtx = <<>> /\ s.seen = {}
  BY DEF Established, TRAFFIC0
<1> HIDE DEF s
<1>3. ASSUME NEW p
      PROVE  AckedNumbers(p, {}) = {} /\ WillAck(s) = {}
  BY <1>2 DEF AckedNumbers, WillAck
<1>4. ASSUME NEW p
      PROVE  Direction(p, s, s, 0, {}, {})
  <2>1. Handshakes(p, {}) = {} /\ Keyed(p, {}) = {}
    BY DEF Handshakes, Keyed
  <2>2. 1 .. Len(s.rtx) = {} /\ 0 .. s.num - 1 = {}
    BY <1>2
  <2>3. KnownFrom(s, 0) = 3
    <3>1. StoredUpdates(s, 0) = {}
      BY <1>2 DEF StoredUpdates
    <3>2. Cardinality({}) = 0
      BY FS_EmptySet
    <3>3. Cardinality(StoredUpdates(s, 0)) = 0
      BY <3>1, <3>2
    <3> QED
      BY <1>2, <3>3 DEF KnownFrom
  <2>4. EpochInv(s, s, 0) /\ ReadableInv(s, s)
    BY <1>2, <2>2, <2>3 DEF EpochInv, ReadableInv
  <2>5. SentInv(p, s, {}) /\ AckInv(s, {}) /\ NumberInv(p, s, {}) /\ UpdateInv(p, s, s, {})
    BY <2>1 DEF SentInv, AckInv, NumberInv, UpdateInv
  <2>6. MeaningInv(p, s, s, {}) /\ ArrivedInv(s, s, {}) /\ KeptInv(s, s)
    BY <1>2, <2>1, <2>2 DEF MeaningInv, ArrivedInv, KeptInv
  <2>7. OrderInv(s, s)
    BY <1>2, FS_EmptySet DEF OrderInv
  <2> QED
    BY <2>4, <2>5, <2>6, <2>7 DEF Direction
<1>5. NextStored(s) = {}
  BY <1>2 DEF NextStored
<1>6. ASSUME NEW p
      PROVE  PairInv(p, s, s, {})
  <2>1. WillAck(s) \cup AckedNumbers(p, {}) = {}
    BY <1>3
  <2>2. Direction(p, s, s, s.expected, {}, {})
    BY <1>2, <1>4
  <2> QED
    BY <1>1, <1>5, <2>1, <2>2 DEF PairInv, Between
<1>7. DOMAIN peer = Peer /\ \A p \in Peer : peer[p] = s
  BY DEF Init, s
<1>8. \A p \in Peer : PairInv(p, peer[p], peer[Other(p)], net)
  <2>1. \A p \in Peer : Other(p) \in Peer
    BY DEF Peer, Other
  <2> QED
    BY <1>6, <1>7, <2>1 DEF Init
<1>9. lost \in 0 .. LOSSES /\ net \subseteq Rec
  BY KeyUpdateAssumption DEF Init
<1> QED
  BY <1>7, <1>8, <1>9 DEF IndInv

\* The inductive invariant is one.
LEMMA Inductive ==
    Spec => []IndInv
<1>1. Init => IndInv
  BY InitInv
<1>2. IndInv /\ [Next]_vars => IndInv'
  <2>1. ASSUME IndInv, Next
        PROVE  IndInv'
    <3>1. CASE Passes
      BY <2>1, <3>1, PassesInv
    <3>2. ASSUME NEW p \in Peer, NEW k, NEW v, NEW others, Called(p, k, v, others)
          PROVE  IndInv'
      BY <2>1, <3>2, CallEnds DEF Called
    <3> QED
      BY <2>1, <3>1, <3>2, NextIs
  <2>2. ASSUME IndInv, UNCHANGED vars
        PROVE  IndInv'
    BY <2>2 DEF IndInv, vars
  <2> QED
    BY <2>1, <2>2
<1> QED
  BY <1>1, <1>2, PTL DEF Spec

-----------------------------------------------------------------------------
(***************************************************************************)
(* What the invariant says between calls.                                  *)
(***************************************************************************)

\* A connection at rest, seen from p.
LEMMA RestIs ==
    ASSUME IndInv, NEW p \in Peer
    PROVE  /\ PairInv(p, peer[p], peer[Other(p)], net)
           /\ Local(peer[p]) /\ AtRest(peer[p]) /\ peer[p] \in State
           /\ Local(peer[Other(p)]) /\ peer[Other(p)] \in State
           /\ Other(p) \in Peer /\ Other(Other(p)) = p /\ Other(p) # p
<1>1. Other(p) \in Peer /\ Other(Other(p)) = p /\ Other(p) # p
  BY DEF Peer, Other
<1>2. /\ PairInv(p, peer[p], peer[Other(p)], net)
      /\ PairInv(Other(p), peer[Other(p)], peer[Other(Other(p))], net)
  BY <1>1 DEF IndInv
<1> QED
  BY <1>1, <1>2 DEF PairInv, Local

\* The epochs the receiver knows of are counted in the same way before and
\* after a message that has been applied and not counted.
LEMMA KnownIs ==
    ASSUME NEW q \in State, NEW k, Opening(q, k)
    PROVE  KnownFrom(q, k) = KnownFrom(q, q.expected + 1)
<1>1. CASE k = q.expected + 1
  BY <1>1
<1>2. CASE k = q.expected /\ NextStored(q) = {}
  <2>1. q.expected \in Nat /\ \A m \in q.stored : m.num \in Nat /\ m.num # q.expected
    BY <1>2, StateFields DEF NextStored, Message
  <2>2. StoredUpdates(q, k) = StoredUpdates(q, q.expected + 1)
    BY <1>2, <2>1 DEF StoredUpdates
  <2> QED
    BY <2>2 DEF KnownFrom
<1> QED
  BY <1>1, <1>2 DEF Opening

\* The two epochs of a direction.
LEMMA EpochsAtRest ==
    ASSUME NEW p, NEW s \in State, NEW q \in State, NEW N, PairInv(p, s, q, N)
    PROVE  /\ KnownFrom(q, q.expected + 1) \in {s.epoch, s.epoch + 1}
           /\ ~ s.wait => KnownFrom(q, q.expected + 1) = s.epoch
           /\ IsFiniteSet(q.stored)
           /\ \E k : /\ Opening(q, k) /\ (IsLive(q) => k = q.expected)
                     /\ KnownFrom(q, k) = KnownFrom(q, q.expected + 1)
                     /\ EpochInv(s, q, k)
<1>1. PICK k : /\ Opening(q, k) /\ (IsLive(q) => k = q.expected)
               /\ EpochInv(s, q, k) /\ OrderInv(s, q)
  BY DEF PairInv, Between, Direction, Opening
<1>2. KnownFrom(q, k) = KnownFrom(q, q.expected + 1)
  BY <1>1, KnownIs
<1>3. IsFiniteSet(q.stored)
  BY <1>1 DEF OrderInv
<1> QED
  BY <1>1, <1>2, <1>3 DEF EpochInv

\* The read epoch is known.
LEMMA KnownAtLeast ==
    ASSUME NEW q \in State, IsFiniteSet(q.stored), NEW from
    PROVE  q.peerEpoch <= KnownFrom(q, from) /\ KnownFrom(q, from) \in Nat
<1> DEFINE c == Cardinality(StoredUpdates(q, from))
<1>1. StoredUpdates(q, from) \subseteq q.stored
  BY DEF StoredUpdates
<1>2. c \in Nat
  BY <1>1, FS_Subset, FS_CardinalityType
<1>3. q.peerEpoch \in Nat /\ KnownFrom(q, from) = q.peerEpoch + c
  BY StateFields DEF KnownFrom
<1> HIDE DEF c
<1> QED
  BY <1>2, <1>3

\* No epoch is beyond DTLS13_EPOCH_MAX.
LEMMA EpochsBounded ==
    ASSUME NEW p, NEW s \in State, NEW q \in State, NEW N, PairInv(p, s, q, N)
    PROVE  s.epoch <= EPOCH_MAX /\ q.peerEpoch <= EPOCH_MAX
<1> DEFINE K == KnownFrom(q, q.expected + 1)
<1>1. RtxInv(s)
  BY DEF PairInv, Local
<1>2. /\ K \in {s.epoch, s.epoch + 1} /\ (~ s.wait => K = s.epoch)
      /\ q.peerEpoch <= K /\ K \in Nat
  BY EpochsAtRest, KnownAtLeast
<1>3. s.epoch <= EPOCH_MAX /\ (s.wait => s.epoch < EPOCH_MAX)
  BY <1>1 DEF RtxInv
<1>4. s.epoch \in Nat /\ q.peerEpoch \in Nat /\ EPOCH_MAX \in Nat
  BY StateFields, KeyUpdateAssumption
<1> HIDE DEF K
<1>5. K <= EPOCH_MAX
  BY <1>2, <1>3, <1>4
<1> QED
  BY <1>2, <1>3, <1>4, <1>5

\* Every slot is of an epoch one of the endpoints has reached.
LEMMA SlotsBounded ==
    ASSUME NEW s \in State, Local(s), s.epoch <= EPOCH_MAX, s.peerEpoch <= EPOCH_MAX,
           NEW e \in DOMAIN s.slots
    PROVE  e <= EPOCH_MAX
<1>1. /\ s.slots[e].side # Enc => e <= s.peerEpoch
      /\ s.slots[e].own => e <= s.epoch
      /\ ~ s.slots[e].own /\ s.slots[e].side # Dec => e < s.peerEpoch
  BY DEF Local, SlotsInv
<1>2. e \in Nat /\ s.epoch \in Nat /\ s.peerEpoch \in Nat /\ EPOCH_MAX \in Nat
  BY StateFields, KeyUpdateAssumption
<1>3. e <= s.peerEpoch \/ e <= s.epoch \/ e < s.peerEpoch
  BY <1>1 DEF Enc, Dec
<1> QED
  BY <1>2, <1>3

-----------------------------------------------------------------------------
(***************************************************************************)
(* The theorems.                                                           *)
(***************************************************************************)

\* The epoch tables of both endpoints always have room, and hold the epochs
\* that are written and read in; epochs stay within DTLS13_EPOCH_MAX, every
\* record to retransmit keeps a number it was sent under, at most
\* DTLS13_RETRANS_RN_SIZE of them, the list of numbers to acknowledge fits the
\* DTLS13_ACK_MAX_RECORDS Dtls13WriteAckMessage accepts, and the timeout is at
\* most the largest.
THEOREM TypesHold ==
    Spec => []TypeOK
<1>1. ASSUME IndInv
      PROVE  TypeOK
  <2>1. DOMAIN peer = Peer /\ lost \in 0 .. LOSSES
    BY <1>1 DEF IndInv
  <2>2. ASSUME NEW p \in Peer, NEW s, s = peer[p]
        PROVE  /\ {s.epoch, s.peerEpoch, s.enc} \subseteq TRAFFIC0 .. EPOCH_MAX
               /\ s.key \in {Wiped} \cup (TRAFFIC0 .. EPOCH_MAX)
               /\ Cardinality(DOMAIN s.slots) <= EPOCH_SIZE
               /\ {s.epoch, s.peerEpoch, s.enc} \subseteq DOMAIN s.slots
               /\ \A e \in DOMAIN s.slots : s.slots[e] \in Slot
               /\ \A i \in 1 .. Len(s.rtx) :
                    /\ s.rtx[i].seqs # {}
                    /\ Cardinality(s.rtx[i].seqs) <= RETRANS_RN_SIZE
               /\ Cardinality(s.seen) <= ACK_MAX_RECORDS
               /\ s.timeouts \in 0 .. TIMEOUTS
    <3>1. Local(s) /\ AtRest(s) /\ s \in State /\ TableInv(s) /\ RtxInv(s)
      BY <1>1, <2>2, RestIs DEF Local
    <3>2. s.epoch <= EPOCH_MAX /\ s.peerEpoch <= EPOCH_MAX
      <4> DEFINE q == peer[Other(p)]
      <4>1. /\ PairInv(p, s, q, net) /\ PairInv(Other(p), q, s, net)
            /\ q \in State
        <5>1. Other(p) \in Peer /\ Other(Other(p)) = p
          BY DEF Peer, Other
        <5> QED
          BY <1>1, <2>2, <5>1, RestIs
      <4> HIDE DEF q
      <4> QED
        BY <3>1, <4>1, EpochsBounded
    <3>3. s.enc <= EPOCH_MAX
      BY <3>1, <3>2, SlotsBounded DEF TableInv
    <3>4. /\ s.epoch \in Nat /\ s.peerEpoch \in Nat /\ s.enc \in Nat
          /\ EPOCH_MAX \in Nat /\ s.timeouts \in Nat /\ TIMEOUTS \in Nat
      BY <3>1, StateFields, KeyUpdateAssumption DEF State
    <3>5. {s.epoch, s.peerEpoch, s.enc} \subseteq TRAFFIC0 .. EPOCH_MAX
      BY <3>1, <3>2, <3>3, <3>4 DEF TableInv, TRAFFIC0
    <3>6. s.key \in {Wiped} \cup (TRAFFIC0 .. EPOCH_MAX)
      BY <3>1, <3>2, <3>4 DEF TableInv, TRAFFIC0
    <3>7. \A e \in DOMAIN s.slots : s.slots[e] \in Slot
      BY <3>1, StateFields
    <3>8. s.timeouts \in 0 .. TIMEOUTS
      BY <3>1, <3>4 DEF AtRest
    <3>9. \A i \in 1 .. Len(s.rtx) :
            s.rtx[i].seqs # {} /\ Cardinality(s.rtx[i].seqs) <= RETRANS_RN_SIZE
      BY <3>1 DEF RtxInv
    <3>10. /\ Cardinality(DOMAIN s.slots) <= EPOCH_SIZE
           /\ {s.epoch, s.peerEpoch, s.enc} \subseteq DOMAIN s.slots
      BY <3>1 DEF TableInv
    <3>11. Cardinality(s.seen) <= ACK_MAX_RECORDS
      BY <3>1, StateFields
    <3> QED
      BY <3>5, <3>6, <3>7, <3>8, <3>9, <3>10, <3>11
  <2> QED
    BY <2>1, <2>2, Zenon DEF TypeOK
<1> QED
  BY <1>1, Inductive, PTL

\* A record in flight is protected with the keys of the epoch its header names,
\* or is a retransmission in an earlier epoch whose slot was reused and holds no
\* write keys, whatever updates, evictions and retransmissions came before.
THEOREM HeadersNameKeys ==
    Spec => []HeaderNamesKeys
<1>1. ASSUME IndInv
      PROVE  HeaderNamesKeys
  <2> SUFFICES ASSUME NEW rec \in net
               PROVE  \/ rec.key = rec.epoch
                      \/ /\ rec.key = Wiped /\ rec.type = "handshake"
                         /\ rec.epoch < peer[rec.from].epoch
    BY DEF HeaderNamesKeys
  <2> DEFINE p == rec.from
  <2>1. p \in Peer
    BY <1>1 DEF IndInv, Rec, HandshakeRec, AckRec, DataRec
  <2>2. SentInv(p, peer[p], net)
    BY <1>1, <2>1, RestIs DEF PairInv, Between, Direction
  <2> QED
    BY <2>2 DEF SentInv
<1> QED
  BY <1>1, Inductive, PTL

\* dtls13WaitKeyUpdateAck is set exactly while one KeyUpdate is buffered, and
\* never two, whoever starts an update and whatever is acknowledged.
THEOREM OneUpdateInFlight ==
    Spec => []OneKeyUpdateInFlight
<1>1. ASSUME IndInv
      PROVE  OneKeyUpdateInFlight
  <2> SUFFICES ASSUME NEW p \in Peer
               PROVE  Cardinality({i \in 1 .. Len(peer[p].rtx) :
                                     peer[p].rtx[i].msg.kind = "key_update"})
                        = IF peer[p].wait THEN 1 ELSE 0
    BY DEF OneKeyUpdateInFlight
  <2> DEFINE s == peer[p]
             I == {i \in 1 .. Len(s.rtx) : s.rtx[i].msg.kind = "key_update"}
  <2>1. RtxInv(s)
    BY <1>1, RestIs DEF Local
  <2>2. CASE s.wait
    <3>1. PICK i \in 1 .. Len(s.rtx) : s.rtx[i].msg.kind = "key_update"
      BY <2>1, <2>2 DEF RtxInv, HasKeyUpdateBuffered
    <3>2. I = {i}
      BY <2>1, <3>1 DEF RtxInv
    <3> HIDE DEF I
    <3>3. Cardinality(I) = 1
      BY <3>2, FS_Singleton
    <3> QED
      BY <2>2, <3>3 DEF I
  <2>3. CASE ~ s.wait
    <3>1. I = {}
      BY <2>1, <2>3 DEF RtxInv
    <3> HIDE DEF I
    <3>2. Cardinality(I) = 0
      BY <3>1, FS_EmptySet
    <3> QED
      BY <2>3, <3>2 DEF I
  <2> QED
    BY <2>2, <2>3
<1> QED
  BY <1>1, Inductive, PTL

\* BAD_STATE_E ends a call only when a record waits for retransmission in an
\* earlier epoch whose slot was reused: Dtls13NewEpochSlot always finds a slot,
\* and no other load of keys fails.
THEOREM StateErrorsMeanEvicted ==
    Spec => []StateErrorMeansEvicted
<1>1. ASSUME IndInv
      PROVE  StateErrorMeansEvicted
  <2> SUFFICES ASSUME NEW p \in Peer, peer[p].err = "state"
               PROVE  \E r \in Range(peer[p].rtx) :
                         /\ r.epoch < peer[p].epoch
                         /\ r.epoch \in DOMAIN peer[p].slots =>
                              peer[p].slots[r.epoch].side = Dec
    BY DEF StateErrorMeansEvicted
  <2> DEFINE s == peer[p]
  <2>1. Evicted(s) /\ s \in State
    BY <1>1, RestIs DEF AtRest
  <2>2. s.rtx \in Seq(RtxRecord)
    BY <2>1, StateFields
  <2>3. DOMAIN s.rtx = 1 .. Len(s.rtx)
    BY <2>2
  <2> QED
    BY <2>1, <2>3 DEF Evicted, Range
<1> QED
  BY <1>1, Inductive, PTL

\* A message stays buffered until the peer has got it, as long as record
\* numbers are not used again: no acknowledgement is taken for another's.
THEOREM NoMessageForgotten ==
    Spec => []NothingForgotten
<1>1. ASSUME IndInv
      PROVE  NothingForgotten
  <2> SUFFICES ASSUME NEW p \in Peer, NEW n \in 0 .. peer[p].num - 1,
                      NumbersUnique(peer[p])
               PROVE  \/ Received(p, n)
                      \/ \E i \in 1 .. Len(peer[p].rtx) : peer[p].rtx[i].msg.num = n
    BY DEF NothingForgotten
  <2>1. KeptInv(peer[p], peer[Other(p)])
    BY <1>1, RestIs DEF PairInv, Between, Direction
  <2> QED
    BY <2>1 DEF KeptInv, Got, Received
<1> QED
  BY <1>1, Inductive, PTL

\* What an endpoint sends in its highest epoch can be read: the peer finds the
\* epoch from two bits of the header, and its slot has not been retired.
THEOREM CurrentEpochIsReadable ==
    Spec => []CurrentEpochReadable
<1>1. ASSUME IndInv
      PROVE  CurrentEpochReadable
  <2> SUFFICES ASSUME NEW p \in Peer, NEW s, s = peer[p],
                      NEW q, q = peer[Other(p)],
                      Live(p), Live(Other(p)), q.stored = {}
               PROVE  /\ ReconstructEpochNumber(q, s.epoch % 4) = s.epoch
                      /\ CanDecrypt(q, s.epoch)
    BY Zenon DEF CurrentEpochReadable
  <2>1. /\ PairInv(p, s, q, net) /\ s \in State /\ q \in State /\ Local(q)
        /\ s.epoch \in Nat /\ q.peerEpoch \in Nat
    BY <1>1, RestIs, StateFields
  <2>2. KnownFrom(q, q.expected + 1) = q.peerEpoch
    <3>1. StoredUpdates(q, q.expected + 1) = {}
      BY DEF StoredUpdates
    <3>2. Cardinality(StoredUpdates(q, q.expected + 1)) = 0
      BY <3>1, FS_EmptySet
    <3> QED
      BY <2>1, <3>2 DEF KnownFrom
  <2>3. q.peerEpoch \in {s.epoch, s.epoch + 1}
    BY <2>1, <2>2, EpochsAtRest
  <2> DEFINE bits == s.epoch % 4
             e == ReconstructEpochNumber(q, bits)
  <2>4. /\ e \in Nat
        /\ q.peerEpoch % 4 = bits => e = q.peerEpoch
        /\ e # 0 => CanDecrypt(q, e) /\ e <= q.peerEpoch
        /\ q.peerEpoch % 4 # bits =>
             \A y \in DOMAIN q.slots :
                y % 4 = bits /\ CanDecrypt(q, y) => e % 4 = bits /\ y <= e
    BY <2>1, ReconstructIs
  <2> HIDE DEF e
  <2>5. CASE q.peerEpoch = s.epoch
    <3>1. CanDecrypt(q, q.peerEpoch)
      BY <2>1 DEF Local, TableInv, CanDecrypt
    <3> QED
      BY <2>4, <2>5, <3>1 DEF e
  <2>6. CASE q.peerEpoch = s.epoch + 1
    <3>1. CanDecrypt(q, s.epoch) /\ s.epoch \in DOMAIN q.slots
      <4>1. ReadableInv(s, q)
        BY <2>1 DEF PairInv, Between, Direction
      <4>2. s.epoch < q.peerEpoch /\ q.peerEpoch - 1 = s.epoch
        BY <2>1, <2>6
      <4> QED
        BY <4>1, <4>2 DEF ReadableInv, CanDecrypt
    <3>2. q.peerEpoch % 4 # bits
      BY <2>1, <2>6, BitsDiffer
    <3>3. e % 4 = bits /\ s.epoch <= e
      BY <2>4, <3>1, <3>2
    <3>4. s.epoch >= 3
      BY <2>1 DEF PairInv, Local, TableInv, TRAFFIC0
    <3>5. e # 0
      BY <2>1, <2>4, <3>3, <3>4
    <3>6. e <= q.peerEpoch /\ e # q.peerEpoch
      BY <2>4, <3>2, <3>3, <3>5
    <3> HIDE DEF bits
    <3>7. e = s.epoch
      BY <2>1, <2>4, <2>6, <3>3, <3>6
    <3> QED
      BY <3>1, <3>7 DEF e, bits
  <2> QED
    BY <2>3, <2>5, <2>6
<1> QED
  BY <1>1, Inductive, PTL

\* What the receiver knows of never shrinks: if it has got every message it had
\* before, it knows of the next epoch if it did.
LEMMA KnownKept ==
    ASSUME NEW s \in State, Local(s), NEW q \in State, NEW r \in State, NEW m, NEW n,
           EpochInv(s, q, m), EpochInv(s, r, n), m = q.expected,
           n = r.expected \/ n = r.expected + 1,
           \A x \in Nat : Got(q, x) => Got(r, x)
    PROVE  \/ KnownFrom(r, n) = KnownFrom(q, m)
           \/ KnownFrom(q, m) = s.epoch /\ KnownFrom(r, n) = s.epoch + 1
<1> DEFINE a == KnownFrom(q, m)
           b == KnownFrom(r, n)
<1>1. a \in {s.epoch, s.epoch + 1} /\ b \in {s.epoch, s.epoch + 1}
  BY DEF EpochInv
<1>2. ASSUME a # s.epoch
      PROVE  b = s.epoch + 1
  <2>1. s.wait
    BY <1>2 DEF EpochInv
  <2>2. PICK i \in 1 .. Len(s.rtx) : s.rtx[i].msg.kind = "key_update"
    BY <2>1 DEF Local, RtxInv, HasKeyUpdateBuffered
  <2> DEFINE x == s.rtx[i].msg.num
  <2>3. x \in Nat /\ r.expected \in Nat
    BY <2>2, StateFields
  <2>4. x < m \/ \E y \in q.stored : y.num = x
    BY <1>2, <2>2 DEF EpochInv
  <2>5. Got(r, x)
    BY <2>3, <2>4 DEF Got
  <2>6. x < n \/ \E y \in r.stored : y.num = x
    BY <2>3, <2>5 DEF Got
  <2> QED
    BY <2>2, <2>6 DEF EpochInv
<1> QED
  BY <1>1, <1>2

\* A step of a direction: the sender's epoch goes from a to b and what the
\* receiver knows from m to n.
KeyStep(a, b, m, n) ==
    \/ b = a /\ n = m
    \/ m = a /\ n = m + 1 /\ b = a
    \/ a < m /\ b = a + 1 /\ n = m

\* A call of the sender's is a step of the direction.
LEMMA SenderSteps ==
    ASSUME IndInv, IndInv', NEW p \in Peer,
           NEW k, NEW v, NEW others, Called(p, k, v, others)
    PROVE  KeyStep(peer[p].epoch, peer'[p].epoch, Known(Other(p)), Known(Other(p))')
<1> DEFINE q == peer[Other(p)]
           K == KnownFrom(q, q.expected + 1)
           e == peer[p].epoch
<1>1. /\ peer'[p] = v.s /\ peer'[Other(p)] = q /\ Other(p) \in Peer
  BY FinishIs DEF Called
<1>2. /\ Known(Other(p)) = K /\ Known(Other(p))' = K
  BY <1>1 DEF Known, KnownFrom
<1>3. v.s.epoch = e \/ v.s.epoch = e + 1
  <2>1. Work(p).s.epoch = e
    <3>1. peer[p] \in State
      BY RestIs
    <3> QED
      BY <3>1 DEF Work, State
  <2> QED
    BY <2>1 DEF Called, Returns, Ended
<1>4. peer[p] \in State /\ q \in State /\ PairInv(p, peer[p], q, net)
  BY RestIs
<1>5. K \in {e, e + 1} /\ K \in Nat /\ e \in Nat
  BY <1>4, EpochsAtRest, KnownAtLeast, StateFields
<1>6. K \in {v.s.epoch, v.s.epoch + 1}
  <2>1. /\ PairInv(p, v.s, q, net') /\ v.s \in State
    <3>1. PairInv(p, peer'[p], peer'[Other(p)], net')
      BY DEF IndInv
    <3> QED
      BY <1>1, <3>1 DEF PairInv, Local
  <2> QED
    BY <1>4, <2>1, EpochsAtRest
<1> HIDE DEF K, e, q
<1>7. KeyStep(e, v.s.epoch, K, K)
  BY <1>3, <1>5, <1>6 DEF KeyStep
<1> QED
  BY <1>1, <1>2, <1>7 DEF e

\* So is a call of the receiver's.
LEMMA ReceiverSteps ==
    ASSUME IndInv, IndInv', NEW p \in Peer,
           NEW k, NEW v, NEW others, Called(p, k, v, others)
    PROVE  KeyStep(peer[Other(p)].epoch, peer'[Other(p)].epoch, Known(p), Known(p)')
<1> DEFINE q == peer[Other(p)]
           w == Work(p)
           A == WillAck(q) \cup AckedNumbers(p, net)
           B == WillAck(peer[p]) \cup AckedNumbers(Other(p), net)
<1>1. /\ peer'[p] = v.s /\ peer'[Other(p)] = q /\ Other(p) \in Peer
  BY FinishIs DEF Called
<1>2. /\ Starts(p, w, q, k, net, A, B) /\ Ended(p, w, v, q, k, net, A, B)
  BY DEF Called, Context, Returns
<1>3. peer[p] \in State
  BY RestIs
<1>4. /\ w.s.peerEpoch = peer[p].peerEpoch /\ w.s.stored = peer[p].stored
      /\ w.s.expected = peer[p].expected
  BY <1>3 DEF Work, State
<1> HIDE DEF A, B, w, q
<1>5. /\ EpochInv(q, w.s, w.s.expected) /\ w.s \in State /\ Local(q) /\ q \in State
      /\ NextStored(w.s) = {}
  BY <1>2 DEF Starts, Call, Direction, Local, Setting
<1>6. PICK n : /\ EpochInv(q, v.s, n) /\ v.s \in State /\ Opening(v.s, n)
  BY <1>2 DEF Ended, Call, Direction, Local, Opening
<1>7. \A x \in Nat : Got(w.s, x) => Got(v.s, x)
  BY <1>2 DEF Ended
<1> DEFINE a == KnownFrom(w.s, w.s.expected)
           b == KnownFrom(v.s, n)
<1>8. b = a \/ (a = q.epoch /\ b = q.epoch + 1)
  BY <1>5, <1>6, <1>7, KnownKept DEF Opening
<1>9. Known(p) = a
  <2>1. a = KnownFrom(w.s, w.s.expected + 1)
    BY <1>5, KnownIs DEF Opening
  <2> QED
    BY <1>4, <2>1 DEF Known, KnownFrom, StoredUpdates
<1>10. Known(p)' = b
  <2>1. b = KnownFrom(v.s, v.s.expected + 1)
    BY <1>6, KnownIs
  <2> QED
    BY <1>1, <2>1 DEF Known, KnownFrom
<1> HIDE DEF a, b
<1> QED
  BY <1>1, <1>8, <1>9, <1>10 DEF KeyStep, q

\* Every step of the system is a step of each direction.
LEMMA DirectionSteps ==
    ASSUME IndInv, IndInv', [Next]_vars, NEW x \in Peer
    PROVE  KeyStep(peer[x].epoch, peer'[x].epoch, Known(Other(x)), Known(Other(x))')
<1>1. CASE UNCHANGED vars
  BY <1>1 DEF KeyStep, Known, vars
<1>2. CASE Passes
  <2>1. Other(x) \in Peer /\ peer[x] \in State /\ peer[Other(x)] \in State
    BY RestIs
  <2>2. Unread(peer[x], peer'[x]) /\ Unread(peer[Other(x)], peer'[Other(x)])
    BY <1>2, <2>1, AgedIs DEF Passes
  <2>3. peer'[x].epoch = peer[x].epoch
    BY <2>2 DEF Unread
  <2>4. Known(Other(x))' = Known(Other(x))
    BY <2>2 DEF Unread, Known, StoredUpdates
  <2> QED
    BY <2>3, <2>4 DEF KeyStep
<1>3. ASSUME NEW p \in Peer, NEW k, NEW v, NEW others, Called(p, k, v, others)
      PROVE  KeyStep(peer[x].epoch, peer'[x].epoch, Known(Other(x)), Known(Other(x))')
  <2>1. p = x \/ (x = Other(p) /\ Other(x) = p)
    BY DEF Peer, Other
  <2>2. CASE p = x
    BY <1>3, <2>2, SenderSteps
  <2>3. CASE x = Other(p) /\ Other(x) = p
    BY <1>3, <2>3, ReceiverSteps
  <2> QED
    BY <2>1, <2>2, <2>3
<1> QED
  BY <1>1, <1>2, <1>3, NextIs

\* In each direction sender and receiver go through the epochs in lockstep, the
\* receiver first: the connection implements KeyDirection twice.
THEOREM EpochsLockstep ==
    Spec => EpochsInLockstep
<1>1. ASSUME Init
      PROVE  ToServer!Init /\ ToClient!Init
  <2>1. /\ peer["client"] = Established /\ peer["server"] = Established
    BY <1>1 DEF Init, Peer
  <2>2. /\ Established.epoch = TRAFFIC0 /\ Established.peerEpoch = TRAFFIC0
        /\ Established.stored = {}
    BY DEF Established
  <2>3. TRAFFIC0 + 0 = TRAFFIC0
    BY DEF TRAFFIC0
  <2>4. Known("client") = TRAFFIC0 /\ Known("server") = TRAFFIC0
    <3>1. \A from : StoredUpdates(Established, from) = {}
      BY <2>2 DEF StoredUpdates
    <3>2. Cardinality({}) = 0
      BY FS_EmptySet
    <3> QED
      BY <2>1, <2>2, <2>3, <3>1, <3>2, Zenon DEF Known
  <2> QED
    BY <2>1, <2>2, <2>4 DEF ToServer!Init, ToClient!Init
<1>2. ASSUME IndInv, IndInv', [Next]_vars
      PROVE  [ToServer!Next]_(ToServer!vars) /\ [ToClient!Next]_(ToClient!vars)
  <2>1. /\ "client" \in Peer /\ "server" \in Peer
        /\ Other("client") = "server" /\ Other("server") = "client"
    BY DEF Peer, Other
  <2>2. /\ KeyStep(peer["client"].epoch, peer'["client"].epoch,
                   Known("server"), Known("server")')
        /\ KeyStep(peer["server"].epoch, peer'["server"].epoch,
                   Known("client"), Known("client")')
    <3>1. ASSUME NEW x \in Peer
          PROVE  KeyStep(peer[x].epoch, peer'[x].epoch,
                         Known(Other(x)), Known(Other(x))')
      BY <1>2, <3>1, DirectionSteps
    <3> QED
      BY <2>1, <3>1
  <2>3. [ToServer!Next]_(ToServer!vars)
    BY <2>2 DEF KeyStep, ToServer!Next, ToServer!Learn, ToServer!Switch, ToServer!vars
  <2>4. [ToClient!Next]_(ToClient!vars)
    BY <2>2 DEF KeyStep, ToClient!Next, ToClient!Learn, ToClient!Switch, ToClient!vars
  <2> QED
    BY <2>3, <2>4
<1> QED
  BY <1>1, <1>2, Inductive, PTL
     DEF Spec, EpochsInLockstep, ToServer!Spec, ToClient!Spec
=============================================================================
