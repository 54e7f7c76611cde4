--------------------------- MODULE Dtls13KeyUpdate ---------------------------
(***************************************************************************)
(* DTLS 1.3 after the handshake: the two endpoints of a connection rotate  *)
(* their keys with KeyUpdate messages over a network that loses, delays    *)
(* and reorders records (src/dtls13.c, src/tls13.c).                       *)
(*                                                                         *)
(* Each endpoint keeps a small table of epochs (ssl->dtls13Epochs), a list *)
(* of handshake records to retransmit until they are acknowledged          *)
(* (ssl->dtls13Rtx.rtxRecords) and a list of record numbers to acknowledge *)
(* (seenRecords).  A KeyUpdate moves the receiver to the next read epoch   *)
(* when it is processed, and the sender to the next write epoch when it is *)
(* acknowledged.                                                           *)
(*                                                                         *)
(* One action is one call of the library: wolfSSL_update_keys,             *)
(* wolfSSL_send_SessionTicket, wolfSSL_write, wolfSSL_dtls_got_timeout, or *)
(* wolfSSL_read handling one record, with the work Dtls13DoScheduledWork   *)
(* does at its end.  Inside an action a handler maps the state of the      *)
(* endpoint to the next one; err stops it the way a return code does.      *)
(*                                                                         *)
(* A record is delivered at most once (Dtls13Window shows that a second    *)
(* copy is refused) and one that is never delivered is lost.  Only the     *)
(* numbers of handshake records are kept: no other record is acknowledged. *)
(***************************************************************************)
EXTENDS Integers, Sequences, FiniteSets, FiniteSetsExt, Functions

CONSTANTS
    EPOCH_SIZE,         \* DTLS13_EPOCH_SIZE: slots of the epoch table
    RETRANS_RN_SIZE,    \* DTLS13_RETRANS_RN_SIZE: numbers kept for a record
    ACK_MAX_RECORDS,    \* DTLS13_ACK_MAX_RECORDS: numbers to acknowledge
    EPOCH_MAX,          \* DTLS13_EPOCH_MAX: 2^48 - 1
    FAIL_LIMIT,         \* hard limit of records that fail to decrypt
    FAIL_KU_LIMIT,      \* the limit that asks for a key update
    TIMEOUTS,           \* doublings from dtls_timeout_init to dtls_timeout_max
    SEND_MORE_ACKS,     \* option dtls13SendMoreAcks
    CLIENT_MSGS,        \* bound: messages before a client stops starting more
    SERVER_MSGS,        \* bound: the same for the server
    TICKETS,            \* whether the server sends session tickets
    DATA,               \* whether application data is sent
    DAMAGE,             \* whether damaged records arrive
    MAX_SEQ,            \* bound: handshake records of an epoch
    NET,                \* bound: records in flight; with more, some are lost
    LOSSES              \* bound: records lost otherwise

ASSUME KeyUpdateAssumption ==
    /\ EPOCH_SIZE \in Nat /\ EPOCH_SIZE >= 4    \* #error in internal.h
    /\ RETRANS_RN_SIZE \in Nat \ {0}
    /\ ACK_MAX_RECORDS \in Nat \ {0}
    /\ EPOCH_MAX \in Nat /\ EPOCH_MAX >= 3
    /\ FAIL_KU_LIMIT \in Nat /\ FAIL_LIMIT \in Nat
    /\ FAIL_KU_LIMIT < FAIL_LIMIT
    /\ {TIMEOUTS, CLIENT_MSGS, SERVER_MSGS, MAX_SEQ, NET, LOSSES} \subseteq Nat
    /\ {SEND_MORE_ACKS, TICKETS, DATA, DAMAGE} \subseteq BOOLEAN

VARIABLES
    peer,   \* the state of the two WOLFSSL objects
    net,    \* records sent and not yet delivered
    lost    \* how many records the action Lose took

vars == <<peer, net, lost>>

Peer == {"client", "server"}
Other(p) == IF p = "client" THEN "server" ELSE "client"
MaxMsgs(p) == IF p = "client" THEN CLIENT_MSGS ELSE SERVER_MSGS

TRAFFIC0 == 3                   \* DTLS13_EPOCH_TRAFFIC0
Wiped == 0                      \* what ForceZero leaves of the keys of a slot
Enc == "enc"                    \* ENCRYPT_SIDE_ONLY
Dec == "dec"                    \* DECRYPT_SIDE_ONLY
Both == "both"                  \* ENCRYPT_AND_DECRYPT_SIDE

(***************************************************************************)
(* A handshake message, a slot of the epoch table and a record to          *)
(* retransmit; seqs are the numbers it was sent under (r->seq, r->rnIdx).  *)
(***************************************************************************)
Message == [num : Nat, kind : {"key_update", "ticket"}, req : BOOLEAN]
Slot == [side : {Enc, Dec, Both}, own : BOOLEAN, next : Nat, drops : Nat]
RtxRecord == [msg : Message, epoch : Nat, seqs : SUBSET Nat]

\* own: Dtls13EpochCopyKeys has put the endpoint's own write keys into the slot.
NewSlot(side) == [side |-> side, own |-> side # Dec, next |-> 0, drops |-> 0]

\* The endpoint at the end of the handshake.
Established ==
    [epoch      |-> TRAFFIC0,   \* ssl->dtls13Epoch
     peerEpoch  |-> TRAFFIC0,   \* ssl->dtls13PeerEpoch
     slots      |-> [e \in {0, 2, 3} |-> NewSlot(Both)],
     enc        |-> TRAFFIC0,   \* ssl->dtls13EncryptEpoch->epochNumber
     key        |-> TRAFFIC0,   \* the epoch of the write keys in ssl->keys
     wait       |-> FALSE,      \* ssl->dtls13WaitKeyUpdateAck
     req        |-> FALSE,      \* ssl->keys.updateResponseReq
     num        |-> 0,          \* ssl->keys.dtls_handshake_number
     expected   |-> 0,          \* dtls_expected_peer_handshake_number
     stored     |-> {},         \* ssl->dtls_rx_msg_list
     rtx        |-> <<>>,       \* ssl->dtls13Rtx.rtxRecords
     seen       |-> {},         \* ssl->dtls13Rtx.seenRecords
     recent     |-> FALSE,      \* dtls13Rtx.lastRtx is within the interval
     fast       |-> FALSE,      \* ssl->dtls13FastTimeout
     timeouts   |-> 0,          \* log2(dtls_timeout / dtls_timeout_init)
     invalidate |-> 0,          \* ssl->dtls13InvalidateBefore
     err        |-> "none"]     \* ssl->error

Init == /\ peer = [p \in Peer |-> Established]
        /\ net = {}
        /\ lost = 0

\* A handler's working state: the endpoint, the records it sends, and the
\* flags of ssl->dtls13Rtx, which Dtls13DoScheduledWork clears again.  A call
\* forgives an earlier DECRYPT_ERROR.
Work(p) == [s |-> [peer[p] EXCEPT !.err = "none"], out |-> {},
            sendAcks |-> FALSE, retransmit |-> FALSE, doKeyUpdate |-> FALSE]

Ok(w) == w.s.err = "none"
Fail(w, e) == [w EXCEPT !.s.err = e]

-----------------------------------------------------------------------------
(***************************************************************************)
(* The epoch table.                                                        *)
(***************************************************************************)
CanDecrypt(s, e) == e \in DOMAIN s.slots /\ s.slots[e].side # Enc

\* Dtls13SetOlderEpochSide(ssl, e, ENCRYPT_SIDE_ONLY)
SetOlderEpochSide(s, e) ==
    [s EXCEPT !.slots = [x \in DOMAIN @ |->
                           IF x < e THEN [@[x] EXCEPT !.side = Enc] ELSE @[x]]]

\* Slots Dtls13NewEpochSlot may reuse when none is free.
Evictable(s) == DOMAIN s.slots \ {s.epoch, s.peerEpoch, s.peerEpoch - 1}

\* Dtls13NewEpochSlot: a free slot, or the oldest one that may be reused.  An
\* encrypt pointer into the reused slot now finds epoch e there.
NewEpochSlot(w, e, side) ==
    LET s == w.s
        full == Cardinality(DOMAIN s.slots) = EPOCH_SIZE
        victim == Min(Evictable(s))
        left == IF full THEN DOMAIN s.slots \ {victim} ELSE DOMAIN s.slots
    IN  IF full /\ Evictable(s) = {} THEN Fail(w, "state")
        ELSE [w EXCEPT !.s.slots = [x \in left \cup {e} |->
                                      IF x = e THEN NewSlot(side) ELSE @[x]],
                       !.s.enc = IF full /\ @ = victim THEN e ELSE @]

EagerNewEpoch(w, e, side) ==
    LET placed == IF e \notin DOMAIN w.s.slots THEN NewEpochSlot(w, e, side)
                  ELSE [w EXCEPT !.s.slots[e].side = Both,
                                 !.s.slots[e].own = @ \/ side = Enc]
    IN  IF Ok(placed) /\ CanDecrypt(placed.s, e)
        THEN [placed EXCEPT !.s = SetOlderEpochSide(@, e)]
        ELSE placed

KeepSideNewEpoch(w, e, side) ==
    LET placed == IF e \notin DOMAIN w.s.slots THEN NewEpochSlot(w, e, side)
                  ELSE w
    IN  IF Ok(placed) /\ CanDecrypt(placed.s, e)
        THEN [placed EXCEPT !.s = SetOlderEpochSide(@, e - 1)]
        ELSE placed

\* Dtls13NewEpoch after the handshake.
NewEpoch(w, e, side) ==
    LET placed == IF e \notin DOMAIN w.s.slots THEN NewEpochSlot(w, e, side)
                  ELSE [w EXCEPT !.s.slots[e].side = IF @ # side THEN Both ELSE @,
                                 !.s.slots[e].own = @ \/ side = Enc]
    IN  IF Ok(placed) /\ CanDecrypt(placed.s, e)
        THEN [placed EXCEPT !.s = SetOlderEpochSide(@, e - 1)]
        ELSE placed

\* Dtls13SetEpochKeys(ssl, e, side)
SetEpochKeys(w, e, side) ==
    IF e \notin DOMAIN w.s.slots THEN Fail(w, "state")
    ELSE IF w.s.slots[e].side \notin {Both, side} THEN Fail(w, "state")
    ELSE IF side = Enc
    THEN [w EXCEPT !.s.enc = e,
                   !.s.key = IF w.s.slots[e].own THEN e ELSE Wiped]
    ELSE w

PointerOnlyEncryptWith(w, e) == [w EXCEPT !.s.enc = e]

\* The test before every send: load the keys unless the pointer is right.
EncryptWith(w, e) == IF w.s.enc = e THEN w ELSE SetEpochKeys(w, e, Enc)

-----------------------------------------------------------------------------
(***************************************************************************)
(* Sending.                                                                *)
(***************************************************************************)

\* BuildTls13Message: header of the encrypt epoch, keys that are loaded.
Record(p, s, type, body) ==
    [from |-> p, epoch |-> s.enc, key |-> s.key, type |-> type, body |-> body]

\* Dtls13SendFragment of a handshake message under the next record number.
SendFragment(p, w, m) ==
    LET seq == w.s.slots[w.s.enc].next
    IN  [w EXCEPT !.out = @ \cup {Record(p, w.s, "handshake",
                                         [seq |-> seq, msg |-> m])},
                  !.s.slots[w.s.enc].next = @ + 1]

\* Dtls13HandshakeSend: always in the highest epoch, and kept for
\* retransmission.
HandshakeSend(p, w, kind, req) ==
    LET u == EncryptWith(w, w.s.epoch)
        m == [num |-> u.s.num, kind |-> kind, req |-> req]
        r == [msg |-> m, epoch |-> u.s.enc, seqs |-> {u.s.slots[u.s.enc].next}]
        sent == SendFragment(p, u, m)
    IN  IF ~ Ok(u) THEN u
        ELSE [sent EXCEPT !.s.rtx = Append(@, r),
                          !.s.num = @ + 1,
                          !.s.wait = @ \/ kind = "key_update"]

\* SendTls13KeyUpdate; respond is ssl->keys.keyUpdateRespond.
SendKeyUpdate(p, w, respond) ==
    LET flag == ~ w.s.req /\ ~ respond
    IN  IF w.s.epoch >= EPOCH_MAX THEN Fail(w, "limit")
        ELSE HandshakeSend(p, [w EXCEPT !.s.req = flag], "key_update", flag)

\* SendDtls13Ack: acknowledge every record seen, in the highest epoch.
SendAck(p, w) ==
    LET u == EncryptWith(w, w.s.epoch)
    IN  IF ~ Ok(u) THEN u
        ELSE [u EXCEPT !.out = @ \cup {Record(p, u.s, "ack", u.s.seen)},
                       !.s.seen = {}]

NoWrapRtxSendOne(p, w, i) ==
    LET r == w.s.rtx[i]
        u == EncryptWith(w, r.epoch)
        seq == u.s.slots[u.s.enc].next
    IN  IF ~ Ok(u) THEN u
        ELSE [SendFragment(p, u, r.msg) EXCEPT !.s.rtx[i].seqs = @ \cup {seq}]

\* One round of the loop of Dtls13RtxSendBuffered, on the i-th record.
RtxSendOne(p, w, i) ==
    LET r == w.s.rtx[i]
        u == EncryptWith(w, r.epoch)
        seq == u.s.slots[u.s.enc].next
        seqs == IF Cardinality(r.seqs) >= RETRANS_RN_SIZE
                THEN {seq} ELSE r.seqs \cup {seq}
    IN  IF ~ Ok(u) THEN u
        ELSE [SendFragment(p, u, r.msg) EXCEPT !.s.rtx[i].seqs = seqs]

RtxSendNext(p, w, i) == IF Ok(w) THEN RtxSendOne(p, w, i) ELSE w

\* Dtls13RtxSendBuffered: nothing within DTLS13_MIN_RTX_INTERVAL of the last
\* retransmission.
RtxSendBuffered(p, w) ==
    LET first == [w EXCEPT !.s.recent = TRUE]
        sent[i \in 0 .. Len(w.s.rtx)] ==
            IF i = 0 THEN first ELSE RtxSendNext(p, sent[i - 1], i)
    IN  IF w.s.recent THEN w ELSE sent[Len(w.s.rtx)]

\* Tls13UpdateKeys
Tls13UpdateKeys(p, w) == IF w.s.wait THEN w ELSE SendKeyUpdate(p, w, FALSE)

\* Dtls13DoScheduledWork
DoScheduledWork(p, w) ==
    LET a == IF Ok(w) /\ w.sendAcks THEN SendAck(p, w) ELSE w
        b == IF Ok(a) /\ a.retransmit THEN RtxSendBuffered(p, a) ELSE a
    IN  IF Ok(b) /\ b.doKeyUpdate THEN Tls13UpdateKeys(p, b) ELSE b

-----------------------------------------------------------------------------
(***************************************************************************)
(* Receiving.                                                              *)
(***************************************************************************)

\* Dtls13ReconstructEpochNumber: the epoch a header's two bits stand for, or
\* 0 when none does.
ReconstructEpochNumber(s, bits) ==
    LET same == {e \in DOMAIN s.slots : e % 4 = bits /\ CanDecrypt(s, e)}
    IN  IF s.peerEpoch % 4 = bits THEN s.peerEpoch
        ELSE IF same = {} THEN 0 ELSE Max(same)

AlwaysAnswerDoKeyUpdate(p, w, m) ==
    LET e == w.s.peerEpoch + 1
        a == NewEpoch([w EXCEPT !.s.req = m.req /\ @], e, Dec)
        b == IF Ok(a) THEN SetEpochKeys([a EXCEPT !.s.peerEpoch = e], e, Dec)
             ELSE a
    IN  IF Ok(b) /\ m.req THEN SendKeyUpdate(p, b, TRUE) ELSE b

\* DoTls13KeyUpdate
DoKeyUpdate(p, w, m) ==
    LET e == w.s.peerEpoch + 1
        a == NewEpoch([w EXCEPT !.s.req = m.req /\ @], e, Dec)
        b == IF Ok(a) THEN SetEpochKeys([a EXCEPT !.s.peerEpoch = e], e, Dec)
             ELSE a
    IN  IF Ok(b) /\ m.req /\ ~ b.s.wait THEN SendKeyUpdate(p, b, TRUE) ELSE b

\* DoTls13HandShakeMsgType, then Dtls13MsgWasProcessed: both kinds of message
\* need an explicit acknowledgement (Dtls13RtxMsgNeedsAck).
ProcessMessage(p, w, m) ==
    LET done == IF m.kind = "key_update" THEN DoKeyUpdate(p, w, m) ELSE w
    IN  IF ~ Ok(done) THEN done
        ELSE [done EXCEPT !.s.expected = @ + 1,
                          !.s.stored = @ \ {m},
                          !.sendAcks = TRUE]

\* The stored message that is next in order, if there is one.
NextStored(s) == {m \in s.stored : m.num = s.expected}

ProcessNextStored(p, w) ==
    IF Ok(w) /\ NextStored(w.s) # {}
    THEN ProcessMessage(p, w, CHOOSE m \in NextStored(w.s) : TRUE)
    ELSE w

\* Dtls13ProcessBufferedMessages: all stored messages that are next in order.
ProcessBufferedMessages(p, w) ==
    LET n == Cardinality(w.s.stored)
        done[i \in 0 .. n] ==
            IF i = 0 THEN w ELSE ProcessNextStored(p, done[i - 1])
    IN  done[n]

\* Dtls13RtxAddAck: a full list takes no number more.
RtxAddAck(seen, number) ==
    IF Cardinality(seen) >= ACK_MAX_RECORDS THEN seen ELSE seen \cup {number}

SilentHandshakeRecv(p, w, e, body) ==
    LET m == body.msg
        v == [w EXCEPT !.s.seen = RtxAddAck(@, <<e, body.seq>>)]
    IN  CASE m.num < v.s.expected -> w
          [] m.num > v.s.expected -> [v EXCEPT !.s.stored = @ \cup {m}]
          [] m.num = v.s.expected ->
                ProcessBufferedMessages(p, ProcessMessage(p, v, m))

\* _Dtls13HandshakeRecv, after Dtls13RecordRecvd has noted the number.
HandshakeRecv(p, w, e, body) ==
    LET m == body.msg
        v == [w EXCEPT !.s.seen = RtxAddAck(@, <<e, body.seq>>),
                       !.s.fast = IF SEND_MORE_ACKS THEN @ ELSE TRUE]
        done == CASE m.num < v.s.expected ->
                       [v EXCEPT !.retransmit = TRUE, !.sendAcks = TRUE]
                  [] m.num > v.s.expected ->
                       [v EXCEPT !.s.stored = @ \cup {m},
                                 !.sendAcks = SEND_MORE_ACKS]
                  [] m.num = v.s.expected ->
                       ProcessBufferedMessages(p, ProcessMessage(p, v, m))
    IN  IF Ok(done) THEN [done EXCEPT !.s.timeouts = 0] ELSE done

\* Dtls13KeyUpdateAckReceived
KeyUpdateAckReceived(w) ==
    LET e == w.s.epoch + 1
        a == NewEpoch(w, e, Enc)
    IN  IF ~ Ok(a) THEN a
        ELSE IF e > EPOCH_MAX THEN Fail(a, "limit")
        ELSE SetEpochKeys([a EXCEPT !.s.epoch = e], e, Enc)

HasKeyUpdateBuffered(s) ==
    \E i \in 1 .. Len(s.rtx) : s.rtx[i].msg.kind = "key_update"

SeqOnlyTracking(r, acks) == {seq \in r.seqs : \E a \in acks : a[2] = seq}

\* Dtls13RtxIsTrackedByRn: the numbers of r that are acknowledged.
Tracking(r, acks) == {seq \in r.seqs : <<r.epoch, seq>> \in acks}

\* Dtls13RtxRemoveRecord removes the first record a number tracks, and no other:
\* the lowest number that tracks a record is used up by it.
RemoveOne(left, r) ==
    LET hits == Tracking(r, left.acks)
    IN  IF hits = {} THEN [left EXCEPT !.rtx = Append(@, r)]
        ELSE [left EXCEPT !.acks = @ \ {<<r.epoch, Min(hits)>>}]

\* Dtls13RtxRemoveRecord for every number of an ACK, in ascending order.
RtxRemoveRecords(rtx, acked) ==
    LET left[i \in 0 .. Len(rtx)] ==
            IF i = 0 THEN [rtx |-> <<>>, acks |-> acked]
            ELSE RemoveOne(left[i - 1], rtx[i])
    IN  left[Len(rtx)].rtx

AnyAckDoAck(w, acked) ==
    LET a == [w EXCEPT !.s.rtx = RtxRemoveRecords(@, acked)]
        b == IF a.s.wait THEN KeyUpdateAckReceived([a EXCEPT !.s.wait = FALSE])
             ELSE a
    IN  [b EXCEPT !.retransmit = b.s.rtx # <<>>]

\* DoDtls13Ack
DoAck(w, acked) ==
    LET a == [w EXCEPT !.s.rtx = RtxRemoveRecords(@, acked)]
        b == IF a.s.wait /\ ~ HasKeyUpdateBuffered(a.s)
             THEN KeyUpdateAckReceived([a EXCEPT !.s.wait = FALSE])
             ELSE a
    IN  [b EXCEPT !.retransmit = b.s.rtx # <<>>]

\* DoApplicationData: data in a new epoch retires the ones before it.
DoApplicationData(w, e) ==
    IF w.s.invalidate = e
    THEN [w EXCEPT !.s = [SetOlderEpochSide(@, e) EXCEPT !.invalidate = 0]]
    ELSE w

EagerCheckAEADFailLimit(w, e) ==
    LET drops == w.s.slots[e].drops + 1
        v == [w EXCEPT !.s.slots[e].drops = IF @ > FAIL_LIMIT THEN @ ELSE drops]
    IN  IF drops > FAIL_LIMIT THEN Fail(v, "decrypt")
        ELSE IF drops > FAIL_KU_LIMIT /\ ~ v.s.req
        THEN [v EXCEPT !.doKeyUpdate = TRUE,
                       !.s = SetOlderEpochSide(@, v.s.peerEpoch)]
        ELSE v

\* Dtls13CheckAEADFailLimit for a record that fails to decrypt in epoch e.
CheckAEADFailLimit(w, e) ==
    LET drops == w.s.slots[e].drops + 1
        v == [w EXCEPT !.s.slots[e].drops = IF @ > FAIL_LIMIT THEN @ ELSE drops]
    IN  IF drops > FAIL_LIMIT THEN Fail(v, "decrypt")
        ELSE IF drops > FAIL_KU_LIMIT /\ ~ v.s.req
        THEN [v EXCEPT !.doKeyUpdate = TRUE, !.s.invalidate = v.s.peerEpoch + 1]
        ELSE v

-----------------------------------------------------------------------------
(***************************************************************************)
(* The calls of the library.                                               *)
(***************************************************************************)
Live(p) == peer[p].err \in {"none", "decrypt"}

\* What the network keeps of a set of records: all it has room for.
Kept(recs) == IF Cardinality(recs) <= NET THEN {recs} ELSE kSubset(NET, recs)

\* The end of a call that leaves p's object in state w.s; others are the
\* records in flight besides the ones it sends.
Finish(p, w, others) ==
    /\ peer' = [peer EXCEPT ![p] = w.s]
    /\ net' \in Kept(others \cup w.out)
    /\ UNCHANGED lost

\* wolfSSL_update_keys
UpdateKeys(p) ==
    /\ Live(p) /\ ~ peer[p].wait
    /\ peer[p].epoch < EPOCH_MAX
    /\ peer[p].num < MaxMsgs(p)
    /\ Finish(p, Tls13UpdateKeys(p, Work(p)), net)

\* wolfSSL_send_SessionTicket
SendTicket(p) ==
    /\ TICKETS /\ p = "server"
    /\ Live(p) /\ peer[p].num < MaxMsgs(p)
    /\ Finish(p, HandshakeSend(p, Work(p), "ticket", FALSE), net)

\* wolfSSL_write
SendData(p) ==
    /\ DATA /\ Live(p)
    /\ LET u == EncryptWith(Work(p), peer[p].epoch)
       IN  Finish(p, IF Ok(u)
                     THEN [u EXCEPT !.out = {Record(p, u.s, "data", {})}]
                     ELSE u, net)

(***************************************************************************)
(* wolfSSL_read on a record: ReceiveData, ProcessReply and the scheduled   *)
(* work.  The record is dropped when no epoch that can decrypt has its     *)
(* bits, and counted when it fails to decrypt under the epoch found.       *)
(***************************************************************************)
NoEpochFor(p, rec) ==
    LET e == ReconstructEpochNumber(peer[p], rec.epoch % 4)
    IN  e = 0 \/ ~ CanDecrypt(peer[p], e)

DropRecord(p, rec) ==
    /\ NoEpochFor(p, rec)
    /\ net' = net \ {rec}
    /\ UNCHANGED <<peer, lost>>

Opened(p, rec) ==
    LET e == ReconstructEpochNumber(peer[p], rec.epoch % 4)
        w == Work(p)
    IN  CASE rec.key # e -> CheckAEADFailLimit(w, e)
          [] rec.key = e /\ rec.type = "handshake" ->
                HandshakeRecv(p, w, e, rec.body)
          [] rec.key = e /\ rec.type = "ack" -> DoAck(w, rec.body)
          [] rec.key = e /\ rec.type = "data" -> DoApplicationData(w, e)

ReadRecord(p, rec) ==
    /\ ~ NoEpochFor(p, rec)
    /\ Finish(p, DoScheduledWork(p, Opened(p, rec)), net \ {rec})

\* A record damaged on its way arrives in epoch e.
ReadDamaged(p, e) ==
    /\ DAMAGE /\ Live(p) /\ peer[p].num < MaxMsgs(p)
    /\ e = ReconstructEpochNumber(peer[p], e % 4) /\ e # 0
    /\ Finish(p, DoScheduledWork(p, CheckAEADFailLimit(Work(p), e)), net)

Receive(p) ==
    /\ Live(p)
    /\ \E rec \in net :
         /\ rec.from = Other(p)
         /\ DropRecord(p, rec) \/ ReadRecord(p, rec)

(***************************************************************************)
(* wolfSSL_dtls_got_timeout: Dtls13RtxTimeout.  The timer only runs while  *)
(* there is something to retransmit or to acknowledge (EmbedReceiveFrom).  *)
(***************************************************************************)
TimerRuns(s) == s.rtx # <<>> \/ (s.fast /\ s.seen # {})

RtxTimeout(p, w) ==
    LET a == IF w.s.seen # {}
             THEN SendAck(p, [w EXCEPT !.s.fast = FALSE])
             ELSE w
    IN  IF ~ Ok(a) THEN a
        ELSE IF a.s.fast THEN [a EXCEPT !.s.fast = FALSE]
        ELSE IF a.s.timeouts = TIMEOUTS THEN Fail(a, "timeout")
        ELSE RtxSendBuffered(p, [a EXCEPT !.s.timeouts = @ + 1])

GotTimeout(p) ==
    /\ Live(p) /\ TimerRuns(peer[p])
    /\ Finish(p, RtxTimeout(p, Work(p)), net)

\* DTLS13_MIN_RTX_INTERVAL after the last retransmission.
IntervalPasses(p) ==
    /\ peer[p].recent
    /\ \A r \in Range(peer[p].rtx) :
         r.epoch \in DOMAIN peer[p].slots =>
            peer[p].slots[r.epoch].next + Len(peer[p].rtx) <= MAX_SEQ
    /\ peer' = [peer EXCEPT ![p].recent = FALSE]
    /\ UNCHANGED <<net, lost>>

\* The network loses a record for good.
Lose ==
    /\ lost < LOSSES
    /\ \E rec \in net : net' = net \ {rec}
    /\ lost' = lost + 1
    /\ UNCHANGED peer

\* The calls that send or receive handshake messages.
Messages(p) == UpdateKeys(p) \/ SendTicket(p) \/ Receive(p)

Next == \/ Lose
        \/ \E p \in Peer :
             \/ Messages(p)
             \/ SendData(p)
             \/ \E e \in DOMAIN peer[p].slots : ReadDamaged(p, e)
             \/ GotTimeout(p)
             \/ IntervalPasses(p)

Spec == Init /\ [][Next]_vars

(***************************************************************************)
(* For liveness: records that are not lost arrive before a timer expires,  *)
(* the timers are served, and a timer is not shorter than the interval     *)
(* DTLS13_MIN_RTX_INTERVAL (DTLS_TIMEOUT_INIT, the shortest dtls_timeout). *)
(* Application data plays no part: it is neither kept nor acknowledged.    *)
(***************************************************************************)
Quiet == net = {}

TimerExpires(p) == Quiet /\ ~ peer[p].recent /\ GotTimeout(p)
TimePasses(p) == Quiet /\ IntervalPasses(p)

PromptNext == \/ Lose
              \/ \E p \in Peer : \/ Messages(p)
                                  \/ TimerExpires(p)
                                  \/ TimePasses(p)

\* Receive(p) is enabled exactly in these states.
CanReceive(p) == Live(p) /\ \E rec \in net : rec.from = Other(p)

\* Weak fairness of Receive(p), with its enabling condition spelled out.
FairReceive(p) == []<>(~ CanReceive(p)) \/ []<><<Receive(p)>>_vars

PromptSpec == /\ Init /\ [][PromptNext]_vars
              /\ \A p \in Peer : /\ FairReceive(p)
                                 /\ WF_vars(TimerExpires(p))
                                 /\ WF_vars(TimePasses(p))

-----------------------------------------------------------------------------
(***************************************************************************)
(* Safety.                                                                 *)
(***************************************************************************)
\* Epochs stay within their limits and both tables hold the epochs in use, the
\* records kept for retransmission hold at least one and at most RETRANS_RN_SIZE
\* numbers, and the list Dtls13RtxAddAck fills never exceeds what
\* Dtls13WriteAckMessage accepts.
TypeOK ==
    /\ DOMAIN peer = Peer
    /\ \A p \in Peer :
         LET s == peer[p]
         IN  /\ {s.epoch, s.peerEpoch, s.enc} \subseteq TRAFFIC0 .. EPOCH_MAX
             /\ s.key \in {Wiped} \cup (TRAFFIC0 .. EPOCH_MAX)
             /\ Cardinality(DOMAIN s.slots) <= EPOCH_SIZE
             /\ {s.epoch, s.peerEpoch, s.enc} \subseteq DOMAIN s.slots
             /\ \A e \in DOMAIN s.slots : s.slots[e] \in Slot
             /\ \A i \in 1 .. Len(s.rtx) :
                  /\ s.rtx[i].seqs # {}
                  /\ Cardinality(s.rtx[i].seqs) <= RETRANS_RN_SIZE
             /\ Cardinality(s.seen) <= ACK_MAX_RECORDS
             /\ s.timeouts \in 0 .. TIMEOUTS
    /\ lost \in 0 .. LOSSES

\* Messages of p the other endpoint has got, processed or stored.
Received(p, num) == \/ num < peer[Other(p)].expected
                    \/ \E m \in peer[Other(p)].stored : m.num = num

\* No slot of an own earlier epoch can have been reused for the peer's epoch of
\* the same number and left for writing: then record numbers start again at 0.
NumbersUnique(s) == s.epoch <= TRAFFIC0 + 2 \/ s.peerEpoch <= TRAFFIC0 + 1

\* No handshake message is forgotten: as long as the peer does not have it, it
\* is buffered for retransmission.  Dtls13RtxRemoveRecord never takes the
\* acknowledgement of one record for that of another.
NothingForgotten ==
    \A p \in Peer : \A n \in 0 .. peer[p].num - 1 :
        \/ ~ NumbersUnique(peer[p])
        \/ Received(p, n)
        \/ \E i \in 1 .. Len(peer[p].rtx) : peer[p].rtx[i].msg.num = n

\* "DTLS must not have two in flight" (Dtls13CanSendKeyUpdate): a KeyUpdate is
\* buffered exactly while dtls13WaitKeyUpdateAck is set, and only one, although
\* the application, the answer to a peer's request and the AEAD limit all
\* start one.
OneKeyUpdateInFlight ==
    \A p \in Peer :
        Cardinality({i \in 1 .. Len(peer[p].rtx) :
                        peer[p].rtx[i].msg.kind = "key_update"})
          = IF peer[p].wait THEN 1 ELSE 0

\* What a live endpoint sends now, in its highest epoch, a live peer that is
\* not missing an earlier message finds the right keys for from the two epoch
\* bits of the header, whatever was lost, marked encrypt only or evicted.
CurrentEpochReadable ==
    \A p \in Peer :
        LET s == peer[p]
            q == peer[Other(p)]
        IN  Live(p) /\ Live(Other(p)) /\ q.stored = {} =>
              /\ ReconstructEpochNumber(q, s.epoch % 4) = s.epoch
              /\ CanDecrypt(q, s.epoch)

\* A record is protected with the keys of the epoch its header names: the
\* encrypt pointer, the keys loaded and the slot never drift apart.  The one
\* exception is a retransmission in an earlier epoch whose slot was reused for
\* the peer's epoch of that number, and holds no write keys.
HeaderNamesKeys ==
    \A rec \in net :
        \/ rec.key = rec.epoch
        \/ /\ rec.key = Wiped /\ rec.type = "handshake"
           /\ rec.epoch < peer[rec.from].epoch

\* Dtls13NewEpochSlot always finds a slot, and Dtls13SetEpochKeys finds the
\* epoch it is asked for and may use it for that side: a call ends with
\* BAD_STATE_E only when the slot a record was sent in, before the sender's
\* last update, was reused while the record is still buffered.  The peer's
\* epoch of the same number may meanwhile have taken a slot, for reading only.
StateErrorMeansEvicted ==
    \A p \in Peer : peer[p].err = "state" =>
        \E r \in Range(peer[p].rtx) :
            /\ r.epoch < peer[p].epoch
            /\ r.epoch \in DOMAIN peer[p].slots => peer[p].slots[r.epoch].side = Dec

\* Each direction goes through the epochs as KeyDirection says: a KeyUpdate
\* counts as known once the receiver has processed or stored it.  (One that is
\* next in order is being processed; it stays stored when its answer fails.)
StoredUpdates(s, from) ==
    {m \in s.stored : m.kind = "key_update" /\ m.num >= from}

Known(p) == peer[p].peerEpoch
            + Cardinality(StoredUpdates(peer[p], peer[p].expected + 1))

ToServer == INSTANCE KeyDirection
              WITH FIRST <- TRAFFIC0, sendEpoch <- peer["client"].epoch,
                   knownEpoch <- Known("server")
ToClient == INSTANCE KeyDirection
              WITH FIRST <- TRAFFIC0, sendEpoch <- peer["server"].epoch,
                   knownEpoch <- Known("client")

EpochsInLockstep == ToServer!Spec /\ ToClient!Spec

-----------------------------------------------------------------------------
(***************************************************************************)
(* Liveness.                                                               *)
(***************************************************************************)

\* Every key update completes: with finitely many losses, and as long as the
\* timeouts are not used up, a KeyUpdate that waits for its acknowledgement
\* gets it, and the sender moves to the new epoch.
KeyUpdateCompletes ==
    \A p \in Peer : peer[p].wait ~> ~ peer[p].wait

-----------------------------------------------------------------------------
(* What the documentation says and the code does not do.                   *)

\* wolfSSL_dtls_got_timeout fails after "too many retransmissions/timeouts
\* without getting a response from the peer": as long as fewer records are
\* lost than there are timeouts, a live peer's response arrives in time.
PeerAnswersInTime ==
    lost < TIMEOUTS => \A p \in Peer : peer[p].err # "timeout"
=============================================================================
