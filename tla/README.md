# TLA+ models of wolfSSL's stateful core

wolfSSL is a TLS/DTLS library in C. This project keeps formal models of its
stateful core beside the code: TLA+ modules translated from the source, TLC
configurations that check them on small instances, and proofs that the TLA+
proof system (TLAPS) checks for every value of the constants. It covers two
kinds of code: DTLS, where the library itself has to deal with loss,
duplication, reordering and timeouts, and the objects several threads,
connections or runs of the program share: session cache, ticket keys, library
initialisation, the indices of one-time signatures, rings of bytes. What can go
wrong there takes long sequences of steps of several actors, which unit tests do
not produce.

`PROJECT.json` maps every definition that models code to its source lines, and
lists components, runs, mutants, hazards, findings and theorems.

## 1. Inventory

| Component | State | Operations | Hard because of |
|---|---|---|---|
| DTLS 1.3 replay window (`internal.c`, `dtls13.c`) | per epoch: `nextPeerSeqNumber`, bitmap `window[]`, `nextSeqNumber` | `Dtls13GetSeq`, `Dtls13ReconstructSeqNumber`, `Dtls13CheckWindow`, `Dtls13UpdateWindow` | duplicated and reordered records, shifts across words, shortened numbers |
| DTLS 1.2 replay window (`internal.c`) | `WOLFSSL_DTLS_PEERSEQ`: window and number of the current and the previous epoch | `_DtlsCheckWindow`, `DtlsUpdateWindow`, ChangeCipherSpec | late records of the old epoch, numbers split 16/32 |
| DTLS 1.3 epochs, KeyUpdate, ACKs, retransmission (`dtls13.c`, `tls13.c`) | `dtls13Epochs[4]`, write and read epoch, `dtls13WaitKeyUpdateAck`, `rtxRecords`, `seenRecords`, timers | `wolfSSL_update_keys`, `DoTls13KeyUpdate`, `DoDtls13Ack`, `Dtls13RtxTimeout`, `Dtls13DoScheduledWork`, ... | two endpoints, loss, a table of four slots, keys switched under retransmissions |
| DTLS reassembly (`internal.c`, `dtls13.c`) | `dtls_rx_msg_list`, fragment buckets, expected number | `DtlsMsgStore`, `DtlsMsgSet`, `DtlsMsgCombineFragBuckets`, `DtlsMsgDrain` | overlapping and repeated fragments, two limits |
| Session cache (`ssl_sess.c`) | rows of sessions, client rows, a row lock and a mutex | add, get, resolve, remove, time out, flush | threads; positions carried over an unlock; eviction under use |
| Ticket keys (`internal.c`) | a name, two keys with expiry, a mutex | `DefTicketEncCb`, `TicketEncCbCtx_Setup`, `TicketEncCbCtx_ChooseKey` | rotation by several threads, reads without the mutex, a clock |
| LMS/XMSS keys (`wc_lms.c`, `wc_xmss.c`) | one-time index in memory, its stored copy, `key->state` | make, reload, sign, free | crash between use and store, callbacks that fail |
| BIO pair (`bio.c`) | ring with `rdIdx`, `wrIdx`, `wrSz` | `nread`, `nwrite`, `read`, `write`, reset, size, pair, free | full, empty, wrap |
| wolfCrypt initialisation (`wc_port.c`, `wc_port.h`) | one atomic word: state and count | `wolfCrypt_Init`, `wolfCrypt_Cleanup` | compare-and-exchange loops beside plain stores |
| wolfSSL initialisation (`ssl.c`) | `initRefCount` and its mutex | `wolfSSL_Init`, `wolfSSL_Cleanup` | threads; resources released after the mutex |
| DTLS 1.2 flights (`internal.c`) | `dtls_tx_msg_list`, timeouts | `DtlsMsgPoolSave/Send/Timeout/Reset` | retransmission with the right epoch and cipher state |
| Stateless server (`dtls.c`) | none, by design; cookie | `DoClientHelloStateless` | state must not be created before the cookie is verified |
| TLS 1.2 / 1.3 handshake (`internal.c`, `tls13.c`) | `connectState`, `acceptState`, `msgsReceived` | `wolfSSL_connect`, `wolfSSL_accept`, `SanityCheck*MsgReceived` | message order, early data, resumption after WANT_READ/WANT_WRITE |
| Record state machine (`internal.c`) | `processReply`, input buffer | `DoProcessReplyEx` | can stop at any byte |
| Write duplication (`ssl_api_rw.c`) | `dupWrite` with a mutex | work handed from reader to writer | two threads, one connection |
| Static memory, DRBG, certificate manager, CRL, OCSP | pools, counters, caches | | limits, threads |
| Crypto primitives, ASN.1, generated code, ports, network I/O | | | not models of state: tested by vectors, or pure I/O |

Nearly all lines of the repository belong to the last row: the generated
single-precision arithmetic and the assembly of the ports alone are about nine
tenths of it, and have no state to model. The share of the repository the models
cover is therefore small by its nature; the parts modelled are where the
protocol's and the library's own state lives.

How the parts interact. `wolfSSL_read` calls `ReceiveData`, which calls
`ProcessReply` for each record. The header names an epoch (two bits in DTLS 1.3)
and a record number; DTLS 1.2 asks its window there, DTLS 1.3 after decryption.
The window is updated once the record is authentic, and the record goes to the
handler of its type: handshake fragments to the reassembly list and from its
head to the handshake, ACKs to `DoDtls13Ack`. Handlers only schedule ACKs,
retransmissions and key updates; `Dtls13DoScheduledWork` does them at the end of
the call. A finished handshake puts its session into the cache; a server seals
it into a ticket instead, under the keys all connections of a `WOLFSSL_CTX`
share. Every user of the library counts on `wolfCrypt_Init`.

What makes each modelled part correct: nothing is processed twice and nothing
fresh is refused (windows); the bitmap, whose only purpose is to remember, is
exact; sender and receiver move through the epochs so that what is sent can be
read; no message is forgotten before the peer has it; an update that was started
finishes; messages are put together byte for byte and delivered once and in
order; a connection never gets half of one session and half of another; a ticket
opens for as long as it promises; no one-time key signs twice; bytes leave a ring
as they entered it; the module is initialised while anybody uses it.

## 2. Modules

| Module | Models | Role |
|---|---|---|
| `WindowWords` | the bitmap: words as sets of bits, `_DtlsUpdateWindowGTSeq` | shared by both windows |
| `AntiReplay` | what a replay window promises | abstract specification |
| `Dtls13Window` | one DTLS 1.3 epoch, from the sender's number to the delivery | implements `AntiReplay` |
| `Dtls12Window` | both DTLS 1.2 windows and ChangeCipherSpec | |
| `KeyDirection` | what a key update promises for one direction | abstract specification |
| `Dtls13KeyUpdate` | two endpoints after the handshake | implements `KeyDirection` in each direction |
| `DtlsReassembly`, `MCReassembly` | the list of partial handshake messages | |
| `SessionCache`, `MCSessionCache` | a row of the session cache and of the client cache | |
| `TicketKeys`, `MCTicketKeys` | the default ticket callback on several threads | |
| `StatefulSignatures` | LMS and XMSS key objects over one storage | |
| `BytePipe` | what a BIO pair promises for one direction | abstract specification |
| `BioPair` | the ring of a BIO pair | implements `BytePipe` |
| `InitState` | the counted initialisation of wolfCrypt | |
| `Dtls13WindowProofs`, `Dtls12WindowProofs`, `Dtls13KeyUpdateProofs`, `DtlsReassemblyProofs`, `BioPairProofs`, `SessionCacheProofs`, `TicketKeysProofs` | theorems about the module they extend | TLAPS |
| `WolfCryptProofs` | theorems about `InitState` and `StatefulSignatures`, the two modules of wolfCrypt | TLAPS |

The cfg files `MC*.cfg` instantiate these modules; the three `MC*` modules only
define constants a cfg cannot write down and the symmetry sets.

**Dtls13Window.** `nextSeqNumber` is the sender's counter; `nextPeerSeqNumber`
and `window` are the receiver's `Dtls13Epoch`. A record that was sent may arrive
any number of times, in any order, so the network needs no variable. `Receive`
is the path of a record through `ProcessReply`: the number is reconstructed from
its low bits, a wrong number fails the AEAD and is dropped, then the window is
asked and updated. `times` and `last` only observe. A word32 is the set of its
bits; the shift of `_DtlsUpdateWindowGTSeq` is modelled word by word with its
carry, not as a shift of one long number.

**Dtls12Window.** Numbers are pairs (hi, lo), as in the code, and all
differences of low parts wrap. `CheckNumber` and `UpdateDist` compute the
distance in two different ways, because `_DtlsCheckWindow` and
`wolfSSL_DtlsUpdateWindow` do.

**Dtls13KeyUpdate.** `peer[p]` holds the fields of a `WOLFSSL` object that
matter here. An action is one call of the library; inside it each function of
the C code is an operator from a working state to the next one, and `err` ends
the call as a negative return code does. The epoch table is a function from the
epochs that have a slot; `NewEpochSlot` evicts as the code does, and an encrypt
pointer that stays on an evicted slot finds the new epoch there. `enc` (the
epoch the header will name) and `key` (the keys in `ssl->keys`) are separate, so
that they can disagree. A slot says whether it holds the endpoint's own write keys
(`own`): one that was reused, and wiped, for the peer's epoch does not, and what is
sent with it is protected with the keys `Wiped`. Loops over lists are recursive
functions of the number of rounds. A record is delivered at most once, which is what
`Dtls13Window` shows. An ACK lists (epoch, number) pairs; handshake records get
numbers, others do not need them. Time is abstract: a timer can expire whenever
`EmbedReceiveFrom` would let it run, and `recent` says whether
`DTLS13_MIN_RTX_INTERVAL` since the last retransmission is over.

**DtlsReassembly.** `list` is `dtls_rx_msg_list`: items with a sorted sequence of
buckets, each with offset, size and bytes, and the item's `bytesReceived`. Byte i
of message m is the pair (m, i), so that a copy to a wrong place shows. `Arrive`
is the handler of one fragment, with the drain at its end, for DTLS 1.2 and 1.3,
which differ. With DTLS 1.3 the record goes on the list of records to acknowledge
(`acked`) before the fragment is looked at. The peer either cuts a message the same way whenever it repeats it
(as wolfSSL does) or any way it likes (as the RFC allows).

**SessionCache.** Calls are split at every lock and unlock. What is read under a
lock is one step; what is written under it is one step per part, so that an
unlocked reader would see the middle. Threads carry positions in the row from
step to step, as the code carries indices and pointers. The alternative ID under
which a client keeps a session stands before the part that `wolfSSL_DupSession`
copies: it becomes the ID of the entry and is not kept beside it. `put` and
`recent` observe what was stored, `asked` what an object of `wolfSSL_get_session`
stood for when `ClientSessionToSession` resolved it.

**TicketKeys.** Each read without the mutex is a step: the two expiraries in
`DefTicketEncCb`, then the use of the key; under the mutex, the new key and its
new expirary are written in two steps, since the unlocked readers can see the
state between them. A ticket is only sealed with a hint that
`DefTicketHintTooLarge` admits, which `SendTicket` and the sender of TLS 1.3
tickets ask before they call the callback. Time moves at any point. Tickets remember when and with
which hint they were made.

**StatefulSignatures.** `nv` is what the callbacks store, `priv` the copy in
memory. A call is split where a crash makes a difference: before the callback and
after it. Signing can fail before it has done anything and, with LMS, after the
signature is built and the index in memory advanced. A failing write may or may not
have taken effect. Restart is the
application's own: objects are gone, storage stays. Its specification is
`KeysSpec` (`KeysInit`, `KeysNext`, `KeysTypeOK`), so that `WolfCryptProofs` can
extend it together with `InitState`.

**BioPair.** The indices, the resets to 0 and the two forms of access are those
of the code. `Contents` is the refinement mapping to `BytePipe`.

**InitState.** Loads, compare-and-exchanges, and the load and the store of the
`Done` functions are separate steps; a caller is one matched pair of calls.

## 3. Runs

| Run | Expected | Shows |
|---|---|---|
| `dtls13_window` | pass | types, `NoReplay`, `WindowExact`, `UpdateNeverFails`, and the refinement `ImplementsAntiReplay` |
| `dtls12_window` | pass | exactness, acceptance of fresh records and no replay across a ChangeCipherSpec and across the wrap of the low part |
| `ku_pair` | pass | both sides update, ask for updates, send tickets, retransmit and evict slots |
| `ku_limit` | pass | the AEAD failure limit starts updates, data retires epochs |
| `ku_live` | pass | every key update completes |
| `ku_stalled` | violation | the finding of section 5 |
| `reassembly` | pass | messages are delivered once, in order and byte for byte; with a peer that repeats itself, all of them, unless one was acknowledged and dropped |
| `session_cache` | pass | no torn session, the row holds what was stored last, no deadlock |
| `ticket_keys` | pass | a ticket opens while it is fresh and not after a key lifetime; a key is always at hand |
| `stateful_signatures` | pass | no one-time key signs twice, through failures and crashes |
| `bio_pair` | pass | the ring is a pipe and moves as much as it can |
| `wolfcrypt_init` | pass | counted, initialised while held, nothing impossible happens, every call returns |

What the properties say:

- `NoReplay`, `WindowExact`, `UpdateNeverFails`, `FreshAccepted`: the windows.
- `OneKeyUpdateInFlight`: three sources of KeyUpdates, one in flight, also in an
  endpoint that has failed.
- `EpochsInLockstep`: each direction implements `KeyDirection`; the receiver
  learns of an epoch before the sender uses it, and they are never two apart.
- `CurrentEpochReadable`: whatever was evicted or marked encrypt only, the
  receiver finds the keys of the sender's present epoch from the two header bits.
- `NothingForgotten`: a message leaves the retransmission list only when the
  peer has it, for as long as record numbers cannot be used twice
  (`NumbersUnique`; item 2 of section 5 says when they are).
- `HeaderNamesKeys`, `StateErrorMeansEvicted`: pointer, keys and table stay
  consistent. Both name an exception, a record of an earlier epoch that is sent
  again after its slot was reused (section 5).
- `KeyUpdateCompletes`: liveness.
- `DeliveredExact`, `BucketsExact`, `NothingLost`: what is delivered, what is
  stored and what arrived agree, whatever was split, merged or refused.
  `ReceivedExact`: `bytesReceived`, which is kept by adding and subtracting, is the
  number of different bytes of the message in the buckets, and no message waits
  with all its bytes there.
  `NextIsHeadUnlessMixed`: looking only at the head of the list is enough.
  `AllDelivered`: liveness; with DTLS 1.2 no arrangement of refused and merged
  fragments gets stuck, and with DTLS 1.3 only the one the property names
  (`AckedButDropped`): a fragment that was acknowledged and then refused, so that
  it is not sent again (section 5).
- `SessionsWhole`: a connection gets the secret that goes with the ID, or nothing;
  and if it used an object of `wolfSSL_get_session`, the session of that ID or one
  stored since the object was resolved, because a place that was reused earlier is
  noticed by the hash of its ID. `RowIsLastStored`, `SomeoneProceeds`: see the table.
- `FreshTicketOpens`, `OldTicketRefused`: a ticket's key is neither replaced too
  early nor used too long, although sealing does not take the mutex.
  `KeyAvailable`: the branch of `TicketEncCbCtx_ChooseKey` that finds neither a
  live nor a spent key is not taken, for the hints `DefTicketHintTooLarge` admits,
  in whatever order they are set.
- `NoIndexReuse`, `MemoryMatchesStore`: one-time keys.
- `ImplementsPipe`, `WriteTakesWhatFits`, `ReadTakesWhatIsThere`: the ring. The
  last one names its exception (section 5).
- `CountExact`, `ReadyWhileHeld`, `NothingImpossible`, `CallsReturn`: the count
  is right although it is also changed by plain stores, and nobody spins forever.

**Bounds and why they are enough.** `dtls13_window` has two words of two bits,
header blocks of 12 numbers and 13 records, so every kind of shift and carry and
both block corrections happen; the proof removes the bound. `dtls12_window`
keeps `LO` more than three windows wide, so that "in the window", "outside it"
and "across the wrap" are different cases; `EDGE` keeps only the records near the
wrap. `Dtls13KeyUpdate` uses the real smallest table (`EPOCH_SIZE = 4`).
`CLIENT_MSGS` and `SERVER_MSGS` bound the messages an endpoint starts by itself
(answers are not bounded): two of its own and the answers fill the table and
evict. `MAX_SEQ` bounds retransmissions by stopping the clock, `NET` bounds the
records in flight (with more, any of them may be lost), and
`RETRANS_RN_SIZE = 1` makes the reuse of the number array happen at once;
`ACK_MAX_RECORDS = 2` fills the list of numbers to acknowledge, and the numbers
`Dtls13RtxAddAck` then drops are received and never acknowledged.
`ku_limit` starts with no timeouts left to keep retransmission small.
`FAIL_LIMIT` and `FAIL_KU_LIMIT` replace limits of about 2^36 by 1 and 0.

`reassembly`: messages of 5, 1 and 0 bytes, a list of three items and two buckets
per item, so that both limits are reached, buckets are merged over one and over two
gaps and fragments are refused, also by DTLS 1.3 after it has acknowledged them; the network delivers any
fragment at any time, so no message bound is needed. `session_cache`: rows of two
places, three client objects and three IDs, so that the ring wraps and evicts while
objects still name its places, two threads, sessions that time out after one
instant and are flushed after two, and five calls, enough for an add in the middle of
another call's lookup, eviction or resolution; the proofs remove these bounds.
`ticket_keys`: keys live 3 instants and hints are 1, the largest that is admitted,
and 3, with which no ticket is sealed; the clock
reaches 7, more than two lifetimes, and three keys can be drawn, so that both keys
are replaced; the proofs remove the bounds. `stateful_signatures`: three one-time keys, two objects, two private
keys, so keys are exhausted and replaced. `bio_pair`: rings of 0, 2, 3 and 4
bytes, calls of up to 4: every position of both indices and every way to meet the
end. `wolfcrypt_init`: three callers, a count that is full at two, seven calls;
with three callers every combination of one initialising or cleaning up, one
counting and one comparing a stale word occurs.

Deadlock is not checked where an end is legitimate: for `Dtls13KeyUpdate` (two
idle endpoints that used up their messages), `reassembly` (the handshake is over),
`ticket_keys`, `session_cache` and `wolfcrypt_init` (the calls that are counted
are used up). Symmetry is used for the threads of `ticket_keys` and
`session_cache`, whose properties are safety properties and name no thread.

**Fairness.** `ku_live`: records that are not lost are eventually read
(`FairReceive`; the application calls `wolfSSL_read`), and an expired timer and
the retransmission interval are eventually noticed (weak fairness of
`TimerExpires`, `TimePasses`; that is the application's duty to call
`wolfSSL_dtls_got_timeout`, or the receive callback's). The specification is
`PromptSpec`: a timer expires only when nothing is in flight, so timeouts are
used up by losses and not by impatience, and it is not shorter than
`DTLS13_MIN_RTX_INTERVAL`. Losses are bounded (`LOSSES`) below the number of
timeouts, which is the documented condition for `wolfSSL_dtls_got_timeout` not
to give up. Nothing is assumed fair about starting updates. The fairness of
`Receive` spells out when it is enabled because TLC is very slow to decide
ENABLED for that action. `ku_live` sends no tickets: with them the property
fails, for the reason given in section 5.

`reassembly`: a peer that cuts its messages the same way every time repeats its
flight until it is answered, with DTLS 1.3 only what is not acknowledged, and not
every copy of a fragment is lost: weak fairness of `Arrive(f)` for each of its
fragments that is not in `acked`. Nothing is assumed of a peer
that cuts differently. `wolfcrypt_init`: a thread inside a call is scheduled again
(weak fairness of `Proceeds`); the number of calls is finite, because the loops of
the code are lock-free for the system but not wait-free for one thread.

**Mutants.** Each property of a passing run has a mutant of a mapped definition
(named after the definition, placed before it) that models a plausible slip and
violates the property.

## 4. What is proved

**Dtls13WindowProofs**, for every number of words, word size, header width
and range of numbers (assumptions `WindowAssumption`, `SeqAssumption`: sizes are
positive, the header block is even and, like the window, smaller than 2^32):

- `TypesKept`, `NoRecordTwice`, `BitmapExact`, `UpdateSucceeds`: `Spec => []P` for
  `TypeOK` (which no run lists), `NoReplay`, `WindowExact` and `UpdateNeverFails`;
- `WindowImplementsAntiReplay`: `Spec => ImplementsAntiReplay`.

`NoReplay` alone is not inductive: the check looks at a bit, and one has to know
what the bit means. `WindowExact` says it, for every bit and in both directions.
The inductive invariant `IInv` is the conjunction of the four. `SetBitStep` and
`MoveStep` show that the two halves of `Dtls13UpdateWindow` keep the window
exact; `MoveStep` rests on `ShiftBits`, which says that the loop over words with
its carry shifts the window as if it were one long number, and `ShiftBits` on the
uniqueness of division with remainder (`Digits`). `TestBitExact` turns the check
into a fact about `times`. `ReconstructNear` bounds the distance of an authentic
record, which is why the update cannot overflow. For the refinement,
`ReconstructExact` shows that the number is found within half a header block, so
that `DecryptFails` is a refusal `AntiReplay` allows.

**Dtls12WindowProofs**, for every window size, word size, width of the low part of
a number (`LoAssumption`: it holds more than three windows) and number of epochs:
`WindowsExact` (`WindowExact`), `NoFreshRecordRefused` (`FreshAccepted`) and the
action property `NoRecordTwice` (`NoReplay`). The invariant `IndInv` says of each of
the two windows that it covers the processed numbers of its epoch (`Covers`: its
bits mark exactly those, and none is at or after the next number), and that no
record of a later epoch was processed. The arithmetic on split numbers is related
to plain numbers first (`ValueDiff`), for the check and the update separately, since
they compute the distance differently. The lemmas about the words of the bitmap are
those of `Dtls13WindowProofs`, stated again: the two modules cannot extend one
another, because each extends a machine with variables of its own.

**DtlsReassemblyProofs**, for messages of any number and length (0 included), any
limits on items and buckets, both handlers and both kinds of peer
(`ReassemblyAssumption`: lengths are natural numbers and the limits are not 0):
`DeliversExactly` (`DeliveredExact`), `BucketsStayExact` (`BucketsExact`),
`CountsExactly` (`ReceivedExact`), `ArrivalsKept` (`NothingLost`) and `HeadIsNext`
(`NextIsHeadUnlessMixed`). The argument goes from the bytes up. `CombinedExact` shows that
`DtlsMsgCombineFragBuckets`, which reallocates one of two buffers and fills it in
place, yields the bytes of the message whichever buffer it took and in whichever
order it copied. `CombineStep`, `DisjointStep` and `KnownStep` show that the buckets
stay in order with gaps (`Layout`) and what they hold afterwards; `SetStep` lifts
this to an item, `ChangeStep` and `InsertStep` to the list, `DrainableIs` and
`SentStep` to what is delivered. `DeliveredExact` is inductive only with all of
that: the invariant `IndInv` says that the list is in order with one exact item per
message, that every item holds the bytes noted for its message and that nothing is
noted for a message still to come that has no item (`Kept`); and for a peer that
cuts messages one way, that no item is left behind, that a message sent in one piece
never has an incomplete item, and that the next message is not complete in the list
(`Tidy`), without which the head need not be the next message. `bytesReceived` is
counted separately (`Counted`): the code adds the size of a fragment and subtracts
the bytes of it that were there already, computed from the buckets it merges.
`OverlapIs` shows that the sum the code makes over those buckets is the number of
bytes in them, `SpliceCount` how replacing them by one changes what is held, and
`WholeCovered` that buckets which hold every byte of the message are one bucket, so
that an item whose count is full is complete.

**BioPairProofs**, for rings of every size (`BioAssumption`: sizes are natural
numbers, one of them is the largest, and a byte that was never written is none of
the bytes): `WritesFillTheRing` (`WriteTakesWhatFits`), `ReadsEmptyTheRing`
(`ReadTakesWhatIsThere`) and the refinement `RingIsPipe` (`ImplementsPipe`). The
invariant `RingOK` says where the two indices may be and that the places between
them hold bytes; each operation is shown to take from the front of `Contents`, to
add to its end, or to leave it alone.

**WolfCryptProofs** on `StatefulSignatures`, for any number of objects, leaves and private keys:
`TypeCorrect` (`KeysTypeOK`), `OneSignaturePerIndex` (`NoIndexReuse`) and `LmsMemoryIsStored`
(`MemoryMatchesStore`). `NoIndexReuse` says nothing of the next signature; the
invariant adds that storage is ahead of every signature released (`Stored`), that
the call in progress signs with the stored index and writes the one after it
(`CallInProgress`), and that at most one LMS object may sign (`OneLive`).

**TicketKeysProofs**, for any number of threads, every key lifetime and any hints:
`TypeCorrect`, `OldTicketsRefused` (`OldTicketRefused`), `KeyAlwaysAvailable`
(`KeyAvailable`) and `FreshTicketsOpen` (`FreshTicketOpens`). While a thread is
sealing the hint is one that `DefTicketHintTooLarge` admits (`Permitted`), and of two
such hints the sum is less than a key lifetime.
The invariant: the two expiraries are always at least such a hint apart (`Gap`), so that
one key is spent before the other becomes too short-lived; a key is only replaced
when it is spent (`Replacing`); whoever is about to seal (`Sealing`) and every
ticket that is still fresh (`AllSafe`) has a key that outlives it; and what the
threads have read is not from the future (`Times`). For old tickets it is the other
way round: the key of a ticket is spent, or expires within a lifetime of the
sealing, or was replaced (`Ageing`).

**WolfCryptProofs** on `InitState`, for any finite set of callers and any width of the count:
`TypeTheorem`, `CountTheorem`, `ReadyTheorem` and `PossibleTheorem`. The state
says where the counted callers are (`Phase`), a caller about to store the word has
a copy that is still current (`Fresh`), and a caller only compares with words that
were possible (`Compared`). `CountedUp` and `CountedDown` do the counting, from
the library's theorems on cardinality.

**SessionCacheProofs**, for any number of threads, servers, sessions and places:
`SessionsStayWhole`, `NoDeadlock` and `RowStaysExact` (`RowIsLastStored`). A copy is whole because every place of the
row is, but for one that a thread has written and not yet named (`RowWhole`), and
that thread holds the lock (`LocksHeld`); positions carried over an unlock stay
places (`Positions`). A thread that resolved an object finds at its place that
session, nothing, or one stored later, since each is stored with a secret no earlier
one has (`AskInv`). The row is the ring of the last insertions (`RowInv`): place
by place it holds what was put there last, or nothing, and no ID twice.

**Dtls13KeyUpdateProofs**, for every size of the epoch table from 4 on, every
number of record numbers kept, every length of the list of numbers to
acknowledge, every failure limit, number of timeouts and largest epoch, and for any number of messages, losses and retransmissions
(`KeyUpdateAssumption`, which asks no more than the build does): `TypesHold`
(`TypeOK`), `HeadersNameKeys` (`HeaderNamesKeys`), `OneUpdateInFlight`
(`OneKeyUpdateInFlight`), `StateErrorsMeanEvicted` (`StateErrorMeansEvicted`),
`NoMessageForgotten` (`NothingForgotten`), `CurrentEpochIsReadable`
(`CurrentEpochReadable`) and the refinement `EpochsLockstep` (`EpochsInLockstep`).

None of these is inductive alone, and they need each other: whether the peer can
read depends on when the sender may move, that on what an acknowledgement means,
that on numbers not being used twice, and that on the table. `IndInv` has three
parts.

- One endpoint (`Local`, `AtRest`): the table holds the epochs in use, for the right
  sides (`TableInv`, `SlotsInv`); each buffered record was sent in an epoch not
  after the present one, and a KeyUpdate is buffered exactly while one is awaited,
  in the present epoch (`RtxInv`); between calls the keys loaded are those of the
  slot the encrypt pointer is on (`KeysMatch`).
- One direction (`Direction`, with the sender, the receiver, the records in flight
  and the numbers acknowledged): records and acknowledgements only name numbers
  that were used (`SentInv`, `AckInv`); one that names a number of a buffered
  record carries or acknowledges its message (`NumberInv`, `ArrivedInv`); a number
  of a message stands for one message (`MeaningInv`); a KeyUpdate in flight has
  arrived or is the one buffered (`UpdateInv`); the receiver knows of one epoch
  more than the sender uses exactly while the awaited KeyUpdate has arrived
  (`EpochInv`), and until the sender has moved it can read the epoch before
  (`ReadableInv`); every message has arrived or is buffered (`KeptInv`).
- Between calls (`Between`): no stored message is next in order, except that a call
  which failed while it answered a KeyUpdate has applied a message it did not
  count.

A call is a sequence of handlers, and the invariant of the endpoint does not hold
in the middle of it. `Call` is what holds of every intermediate state, with the
messages that count as applied as a parameter; there is a lemma for every handler
(`CallSendAck`, `CallRtxSendBuffered`, `CallDoKeyUpdate`, `CallDoAck`, ...) that
leads from `Call` to `Call`, and `Ended` turns the last one into the invariant.
The loops of the code, over the records to retransmit, the stored messages and the
records of an ACK, are recursive functions; the induction over their rounds is by
the smallest round at which the loop's invariant would fail (`LoopInvariant`,
`LoopExists`), since the induction theorems of the library cannot be used. Of the
epoch table the central fact is `SlotToReuse`: at most three epochs may not be
evicted, so a table of four always has room. For `CurrentEpochReadable` one needs
that epochs one apart have different bits (`BitsDiffer`) and that the reconstruction
takes the present epoch or the largest readable one with the bits
(`ReconstructIs`). For the refinement every step, a call of the sender's or of the
receiver's, is shown to be a step of `KeyDirection` or to leave both epochs alone
(`KeyStep`, `DirectionSteps`).

The proof changed the model and two properties. A slot that is reused for the
peer's epoch is wiped and then has no write keys, which the model had not said, and
its record numbers start again at 0: `HeaderNamesKeys` and `NothingForgotten` are
false without their exceptions, in histories longer than the bounds of the run
reach.

The properties proved were first checked by TLC, on the instance of their run.

Only model-checked: liveness, which is out of the prover's reach
(`KeyUpdateCompletes`, `AllDelivered`, `CallsReturn`). Every invariant, action
property and refinement that a passing run checks is also a theorem.

## 5. Disagreements between the code and its comments or docs

With a run:

1. `ku_stalled` - a record is retransmitted only in its first epoch; two key
   updates later the peer cannot read it any more, never acknowledges it, and the
   connection ends with a timeout (`dtls13.c:1701`). One update further the slot
   of that epoch may be reused (`dtls13.c:2434`), or the peer's epoch of that
   number hold a slot for reading only, and the retransmission fails with
   BAD_STATE_E instead, which is why `StateErrorMeansEvicted` allows it.

Met while modelling, without a run: most are a matter of one expression or one
unlock, and a property stating it would only repeat the line. The models follow the code, and
their properties say what holds all the same:

2. When the slot of an own earlier epoch is reused for the peer's epoch of the same
   number it is wiped (`dtls13.c:2459`) and gets read keys only
   (`dtls13.c:2311`). Once later updates mark it encrypt only, a record of that
   epoch that is still buffered is sent again with it: `Dtls13SetEpochKeys` finds
   epoch and side right and loads write keys that are zero, and the numbers of
   that epoch start again at 0, so that a late acknowledgement can be taken for
   another record's. It takes a ticket whose acknowledgements are lost for three
   updates, and two updates of the peer's; the retransmission could not be read
   anyway (item 1). This is the exception in `HeaderNamesKeys`, and the reason for
   `NumbersUnique` in `NothingForgotten`.
3. `_DtlsCheckWindow` computes the distance the wrong way round when the high
   parts differ (`internal.c:20890`; the comment at 20893-20896 says otherwise),
   so late records from before a wrap of the low 32 bits are refused although
   they are in the window. The same reversed distance is short for a record almost
   a whole range of the low part behind: it is tested against a bit that stands for
   another record and can be processed again. It takes 2^32 records less a window
   in one epoch; `NoReplay` is about records closer than that.
4. `Dtls13RtxTimeout` clears the fast-timeout flag before it tests it
   (`dtls13.c:2942`), so the short timer also doubles the timeout and retransmits,
   unlike the comment at 2948-2952.
5. After two crossing KeyUpdates `updateResponseReq` stays set on both sides
   (`dtls13.c:3358`), and the AEAD limit no longer asks for an update although no
   response is due any more (comment at 3357: "If not waiting for a response then
   request a key update").
6. At the last epoch a request for an update fails the connection
   (`tls13.c:13578`) instead of being ignored (comment at `tls13.c:13776-13780`).
7. After a write that ended exactly at the end of the ring with part of it read,
   `wrIdx` is 0 (`bio.c:1705`) and `nread0` reports -1 (`bio.c:1565`) with bytes
   pending; the documentation (`doc/dox_comments/header_files/ssl.h:5070`) says
   "-1 on error case with nothing to read". Nothing is lost: the next write makes
   the bytes readable. This is the exception in `ReadTakesWhatIsThere`.
8. DTLS 1.3 puts the number of a handshake record on the list of records to
   acknowledge (`internal.c:25726`, `dtls13.c:1617-1627`) before it looks at the
   fragment. One that finds no bucket free "is just dropped" (`internal.c:11014`) and
   still acknowledged, and a peer that believes the acknowledgement does not send it
   again: the message is never complete. It takes a message cut into pieces that
   arrive with more gaps than `DTLS_FRAG_POOL_SZ`. Without its exception
   `AckedButDropped`, TLC finds `AllDelivered` violated for DTLS 1.3.
9. With a peer that cuts a repeated message differently, the next message can be
   in the reassembly list without being its head, against the comment at
   `internal.c:21478-21480`: the part of a message that later arrived whole stays
   at the head, and the messages behind it are processed only when they arrive
   whole. The order and the contents of what is delivered are not affected.
10. `wolfSSL_GetSessionClient` returns a pointer into the row after both locks are
   given up (`ssl_sess.c:1055`), so that the session finally copied may be another
   server's or an evicted one; the documentation warns of it for a full cache.
   An expired session is evicted under a second lock without a second look at
   its age (`ssl_sess.c:1393`, and `ssl_sess.c:3365` for removal), so that a
   session stored afresh in between is evicted too.
11. When `wc_hss_sign` fails after it has filled the caller's buffer and advanced
    the index in memory (`wc_lms_impl.c:4059-4075`), LMS does not erase the
    signature, as the failed write and XMSS do (`wc_lms.c:1548`). `Sign` has this
    failure as a case of its own: the call returns an error, the object stays bad,
    and storage has the old index, with which an object loaded later signs.
    `NoIndexReuse` is about signatures of calls that succeeded.

## 6. Limits of the models

`Dtls13KeyUpdate`: not the handshake before it (the endpoints start in epoch 3,
with epochs 0 and 2 still in the table and nothing to retransmit), fragments,
early data, connection IDs, sends that return WANT_WRITE, `WOLFSSL_RW_THREADED`
and write duplication, and a write pending in several parts. `Dtls12Window`: not multicast and renegotiation. The AEAD is
assumed to reject every record whose number or keys are wrong.

`DtlsReassembly`: memory does not run out, the messages are accepted, and the
flights sent again on seeing an old message are left out; they do not touch the
list. An acknowledgement reaches the peer at once, and the list of numbers to
acknowledge is never full; `Dtls13KeyUpdate` has both.

`SessionCache`: one row of each cache, on the side of a client; not
`SESSION_CACHE_DYNAMIC_MEM`, external caches, ex_data, saving to a file, locks that
fail, or the server's use of the cache.

`TicketKeys`: memory accesses of one thread are seen in program order (as on x86);
not a mutex that fails, a hint of 0, the freeing of the context, or the bytes of a
ticket. `StatefulSignatures`: the application makes one call at a time and has at
most one live LMS object for a stored key, which the API leaves to it; without
that `NoIndexReuse` does not hold for LMS, whose objects never read the storage
again. `BioPair`: one direction, one thread, as the documentation demands; memory
BIOs and chains of BIOs are left out. `InitState`: not
`WC_INIT_ERROR_WHEN_CONTENDED`, nor calls from inside the initialisation.

### Not modelled

The handshake state machines, the record state machine, the DTLS 1.2 flights and
the stateless server are next in the plan. The static memory allocator, the DRBG
and the certificate manager are candidates after that. Cryptographic primitives
and ASN.1 work on large data without protocol state, which is out of TLC's reach;
generated code, assembly and the ports repeat them; network callbacks are system
calls.

## 7. Plan

Next modules, most important first:

1. `Dtls13KeyUpdate`: WANT_WRITE in the middle of a handler, and the
   `WOLFSSL_RW_THREADED` variant, in which `SendData` answers update requests.
2. `wolfSSL_Init` and `wolfSSL_Cleanup` above `InitState`.
3. `Dtls12Flights`: the message pool, epochs of retransmitted messages, timeouts,
   composed with a lossy network; liveness of the handshake.
4. `WriteDup`: the work a read object leaves for the write object of the same
   connection (responses to KeyUpdates, ACKs, the awaited ACK of a KeyUpdate), the
   first error and the release of what they share.
5. `HandshakeOrder`: `SanityCheckTls13MsgReceived` and the connect/accept state
   machines of two endpoints; agreement on completion.

What is left to prove is the next modules': for the present ones only liveness is
not proved.
