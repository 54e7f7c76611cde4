------------------------------ MODULE BioPair -------------------------------
(***************************************************************************)
(* One direction of a BIO pair (WOLFSSL_BIO_BIO in bio.c): the ring buffer *)
(* of the writing BIO, which the paired BIO reads from.  Reads and writes  *)
(* come in two forms: nread and nwrite hand out a piece of the ring itself *)
(* and never go past its end; read and write copy and try a second piece.  *)
(* The two directions share nothing but the pairing, and the two BIOs      *)
(* "are expected to be used by the same thread", so an operation and the   *)
(* caller's use of the piece it got are one step.                          *)
(***************************************************************************)
EXTENDS Integers, Sequences, FiniteSetsExt

CONSTANTS
    Byte,           \* what is written
    Junk,           \* content of memory nobody has written yet
    Sizes,          \* the sizes given to wolfSSL_BIO_set_write_buf_size
    DEFAULT_SIZE,   \* WOLFSSL_BIO_SIZE: the size of a pair nobody sized
    MAX_LEN         \* bound: the most bytes one call asks for

(* A size is an int, so one of them is the largest.                         *)
ASSUME BioAssumption ==
    /\ Sizes \subseteq Nat /\ DEFAULT_SIZE \in Nat \ {0}
    /\ \E largest \in Sizes \cup {0, DEFAULT_SIZE} :
          \A size \in Sizes \cup {0, DEFAULT_SIZE} : size <= largest
    /\ MAX_LEN \in Nat \ {0}
    /\ Junk \notin Byte

VARIABLES
    ring,       \* the writer: wrSz, wrIdx, rdIdx and mem_buf_data
    hasMem,     \* mem_buf_data # NULL
    paired,     \* writer->pair # NULL (and the reader's pair)
    out,        \* the bytes the last call handed to the reader
    last        \* the last read or write: what it was asked for, how much
                \* there was (bytes to read, room to write), what it returned

vars == <<ring, hasMem, paired, out, last>>

AllSizes == Sizes \cup {0, DEFAULT_SIZE}
FreshRing(sz) == [size |-> sz, wr |-> 0, rd |-> 0,
                  mem |-> [i \in 0 .. sz - 1 |-> Junk]]

WOLFSSL_BIO_ERROR == -1
WOLFSSL_BIO_UNSET == -2

Quiet == [op |-> "none", asked |-> 0, had |-> 0, ret |-> 0]

Offers == UNION {[1 .. n -> Byte] : n \in 1 .. MAX_LEN}

Init == /\ ring = FreshRing(0) /\ hasMem = FALSE /\ paired = FALSE
        /\ out = <<>> /\ last = Quiet

-----------------------------------------------------------------------------
(***************************************************************************)
(* The bytes in the ring, oldest first.  The write index goes back to 0 as *)
(* soon as a write ends at the end of the ring and something has been read *)
(* since, so rd > 0 with wr <= rd means the contents run past the end.     *)
(***************************************************************************)
Piece(r, from, to) == [i \in 1 .. to - from |-> r.mem[from + i - 1]]

Contents(r) ==
    IF r.rd > 0 /\ r.wr <= r.rd
    THEN Piece(r, r.rd, r.size) \o Piece(r, 0, r.wr)
    ELSE Piece(r, r.rd, r.wr)

Room(r) == r.size - Len(Contents(r))

(***************************************************************************)
(* wolfSSL_BIO_nwrite.                                                     *)
(***************************************************************************)
Wrapped(r) == r.wr < r.rd
Full(r) == \/ r.rd > 0 /\ r.wr = r.rd
           \/ r.rd = 0 /\ r.wr = r.size

\* A write index left at the end goes back to 0 before the piece is cut.
NwriteAt(r) == IF ~ Wrapped(r) /\ r.wr = r.size THEN 0 ELSE r.wr

\* Equal indices read as an empty ring.
EqualIsEmptyNwriteSize(r, num) ==
    IF r.rd = 0 /\ r.wr = r.size THEN WOLFSSL_BIO_ERROR
    ELSE Min({num, IF r.rd > NwriteAt(r) THEN r.rd - NwriteAt(r)
                                         ELSE r.size - NwriteAt(r)})

NwriteSize(r, num) ==
    IF Full(r) THEN WOLFSSL_BIO_ERROR
    ELSE Min({num, IF r.rd > NwriteAt(r) THEN r.rd - NwriteAt(r)
                                         ELSE r.size - NwriteAt(r)})

\* The ring after a piece of n bytes was cut and filled with bytes.
NwriteRing(r, bytes, n) ==
    LET at  == NwriteAt(r)
        end == at + n
    IN  [r EXCEPT !.wr = IF end = r.size /\ r.rd > 0 THEN 0 ELSE end,
                  !.mem = [i \in DOMAIN @ |-> IF at <= i /\ i < end
                                              THEN bytes[i - at + 1]
                                              ELSE @[i]]]

(***************************************************************************)
(* wolfSSL_BIO_nread0 and wolfSSL_BIO_nread.                               *)
(***************************************************************************)
Nread0(r) == IF r.wr > 0 /\ r.rd >= r.wr THEN r.size - r.rd
                                         ELSE r.wr - r.rd

NreadSize(r, num) == IF Nread0(r) < 0 THEN WOLFSSL_BIO_ERROR
                                      ELSE Min({num, Nread0(r)})

\* The write index stays where it is when the reader catches up with it.
NoResetNreadRing(r, n) ==
    LET atEnd == r.rd + n = r.size
    IN  [r EXCEPT !.rd = IF atEnd THEN 0 ELSE r.rd + n,
                  !.wr = IF atEnd /\ r.wr = r.size THEN 0 ELSE r.wr]

NreadRing(r, n) ==
    LET atEnd == r.rd + n = r.size
        rd    == IF atEnd THEN 0 ELSE r.rd + n
        wr    == IF atEnd /\ r.wr = r.size THEN 0 ELSE r.wr
    IN  [r EXCEPT !.rd = IF rd = wr THEN 0 ELSE rd,
                  !.wr = IF rd = wr THEN 0 ELSE wr]

-----------------------------------------------------------------------------
Saw(op, asked, had, ret) ==
    last' = [op |-> op, asked |-> asked, had |-> had, ret |-> ret]

(***************************************************************************)
(* wolfSSL_BIO_nwrite, and the caller filling the piece it was given.      *)
(***************************************************************************)
Nwrite(bytes) ==
    /\ paired
    /\ LET num == Len(bytes)
           sz  == NwriteSize(ring, num)
       IN  /\ ring' = IF sz > 0 THEN NwriteRing(ring, bytes, sz) ELSE ring
           /\ Saw("nwrite", num, Room(ring), sz)
    /\ out' = <<>>
    /\ UNCHANGED <<hasMem, paired>>

(***************************************************************************)
(* wolfSSL_BIO_BIO_write: a piece and, past the end of the ring, a second. *)
(***************************************************************************)
Write(bytes) ==
    /\ paired
    /\ LET num   == Len(bytes)
           sz1   == NwriteSize(ring, num)
           ring1 == NwriteRing(ring, bytes, sz1)
           sz2   == NwriteSize(ring1, num - sz1)
           again == sz1 < num /\ sz2 > 0
       IN  IF sz1 <= 0
           THEN UNCHANGED ring /\ Saw("write", num, Room(ring), WOLFSSL_BIO_ERROR)
           ELSE /\ ring' = IF again
                           THEN NwriteRing(ring1, SubSeq(bytes, sz1 + 1, num), sz2)
                           ELSE ring1
                /\ Saw("write", num, Room(ring), IF again THEN sz1 + sz2 ELSE sz1)
    /\ out' = <<>>
    /\ UNCHANGED <<hasMem, paired>>

(***************************************************************************)
(* wolfSSL_BIO_nread, and the caller using the piece it was given.         *)
(***************************************************************************)
Nread(num) ==
    /\ paired
    /\ LET sz == NreadSize(ring, num)
       IN  /\ ring' = IF sz >= 0 THEN NreadRing(ring, sz) ELSE ring
           /\ out' = IF sz > 0 THEN Piece(ring, ring.rd, ring.rd + sz) ELSE <<>>
           /\ Saw("nread", num, Len(Contents(ring)), sz)
    /\ UNCHANGED <<hasMem, paired>>

(***************************************************************************)
(* wolfSSL_BIO_BIO_read: nothing there is turned into -1 and a retry flag, *)
(* an error of nread is passed on without one.                             *)
(***************************************************************************)
OnePieceRead(num) ==
    /\ paired
    /\ LET sz1   == NreadSize(ring, num)
       IN  IF sz1 <= 0
           THEN /\ ring' = IF sz1 = 0 THEN NreadRing(ring, 0) ELSE ring
                /\ out' = <<>>
                /\ Saw("read", num, Len(Contents(ring)), WOLFSSL_BIO_ERROR)
           ELSE /\ ring' = NreadRing(ring, sz1)
                /\ out' = Piece(ring, ring.rd, ring.rd + sz1)
                /\ Saw("read", num, Len(Contents(ring)), sz1)
    /\ UNCHANGED <<hasMem, paired>>

Read(num) ==
    /\ paired
    /\ LET sz1   == NreadSize(ring, num)
           ring1 == NreadRing(ring, sz1)
           sz2   == NreadSize(ring1, num - sz1)
           again == sz1 < num /\ sz2 > 0
       IN  IF sz1 <= 0
           THEN /\ ring' = IF sz1 = 0 THEN NreadRing(ring, 0) ELSE ring
                /\ out' = <<>>
                /\ Saw("read", num, Len(Contents(ring)), WOLFSSL_BIO_ERROR)
           ELSE /\ ring' = IF sz1 < num /\ sz2 >= 0 THEN NreadRing(ring1, sz2)
                                                    ELSE ring1
                /\ out' = Piece(ring, ring.rd, ring.rd + sz1) \o
                          (IF again THEN Piece(ring1, ring1.rd, ring1.rd + sz2)
                                    ELSE <<>>)
                /\ Saw("read", num, Len(Contents(ring)),
                       IF again THEN sz1 + sz2 ELSE sz1)
    /\ UNCHANGED <<hasMem, paired>>

\* A call on a BIO without a pair.
Unpaired(op, num) ==
    /\ ~ paired
    /\ Saw(op, num, 0, WOLFSSL_BIO_UNSET)
    /\ out' = <<>>
    /\ UNCHANGED <<ring, hasMem, paired>>

\* wolfSSL_BIO_reset on the writing BIO.
Reset == /\ ring' = [ring EXCEPT !.wr = 0, !.rd = 0]
         /\ out' = <<>> /\ last' = Quiet
         /\ UNCHANGED <<hasMem, paired>>

\* wolfSSL_BIO_set_write_buf_size: the old buffer is gone even when the new
\* one cannot be allocated.
SetWriteBufSize(size) ==
    /\ ~ paired
    /\ \/ ring' = FreshRing(size) /\ hasMem' = TRUE
       \/ ring' = FreshRing(0) /\ hasMem' = FALSE
    /\ out' = <<>> /\ last' = Quiet
    /\ UNCHANGED paired

\* wolfSSL_BIO_make_bio_pair with another reader: a writer that has a buffer
\* keeps it and what is in it.
MakeBioPair ==
    /\ ~ paired
    /\ \/ hasMem /\ paired' = TRUE /\ UNCHANGED <<ring, hasMem>>
       \/ /\ ~ hasMem
          /\ ring' = FreshRing(DEFAULT_SIZE) /\ hasMem' = TRUE /\ paired' = TRUE
       \/ ~ hasMem /\ UNCHANGED <<ring, hasMem, paired>>   \* out of memory
    /\ out' = <<>> /\ last' = Quiet

\* wolfSSL_BIO_free on the reading BIO, and on the writing one (after which
\* the direction starts again with a new BIO).
FreeReader == /\ paired /\ paired' = FALSE
              /\ out' = <<>> /\ last' = Quiet
              /\ UNCHANGED <<ring, hasMem>>

FreeWriter == /\ ring' = FreshRing(0) /\ hasMem' = FALSE /\ paired' = FALSE
              /\ out' = <<>> /\ last' = Quiet

Next ==
    \/ \E bytes \in Offers : Write(bytes) \/ Nwrite(bytes)
    \/ \E num \in 1 .. MAX_LEN : Read(num) \/ Nread(num)
    \/ \E num \in 1 .. MAX_LEN, op \in {"write", "read"} : Unpaired(op, num)
    \/ Reset
    \/ \E size \in Sizes : SetWriteBufSize(size)
    \/ MakeBioPair
    \/ FreeReader
    \/ FreeWriter

Spec == Init /\ [][Next]_vars

-----------------------------------------------------------------------------
(***************************************************************************)
(* The ring is a pipe: bytes come out once and in order whatever mixture   *)
(* of the two forms of reading and writing, wrap-arounds, resets and       *)
(* re-pairings happens, and what is handed out was written.                *)
(***************************************************************************)
Pipe == INSTANCE BytePipe WITH
            pipe <- Contents(ring), out <- out,
            MAX_SIZE <- Max(AllSizes)

ImplementsPipe == Pipe!Spec

(***************************************************************************)
(* wolfSSL_BIO_BIO_write fills the whole ring: it takes as much of what it *)
(* is given as there is room for, on both sides of the end, and reports an *)
(* error only when there is no room at all.                                *)
(***************************************************************************)
WriteTakesWhatFits ==
    last.op = "write" /\ paired =>
        last.ret = IF last.had = 0 THEN WOLFSSL_BIO_ERROR
                                   ELSE Min({last.asked, last.had})

(***************************************************************************)
(* wolfSSL_BIO_BIO_read takes everything there is up to what was asked,    *)
(* over the end of the ring too.  The exception is a ring whose last write *)
(* ended exactly at the end while part of it had been read: a read then    *)
(* fails and leaves the ring as it is, until the next write.               *)
(***************************************************************************)
WroteUpToEnd(r) == r.wr = 0 /\ r.rd > 0

ReadTakesWhatIsThere ==
    last.op = "read" /\ paired =>
        \/ last.had = 0 /\ last.ret = WOLFSSL_BIO_ERROR
        \/ last.had > 0 /\ last.ret = Min({last.asked, last.had})
        \/ last.ret = WOLFSSL_BIO_ERROR /\ WroteUpToEnd(ring)
=============================================================================
