---------------------------- MODULE BioPairProofs ----------------------------
(***************************************************************************)
(* The ring of a BIO pair for every buffer size, every content and every   *)
(* sequence of calls.                                                      *)
(*                                                                         *)
(* The ring is seen as the cells from the read index on, around the end:   *)
(* byte k of the contents is in cell Place(r, k).  Cutting and filling a   *)
(* piece adds cells behind them (NwriteFills), handing out a piece drops   *)
(* cells at their head (NreadTakes), and each of read and write is at most *)
(* two such pieces.  The invariant is that the indices are within the ring *)
(* and the cells of the contents hold bytes somebody wrote (RingOK).       *)
(***************************************************************************)
EXTENDS BioPair, TLAPS

(* How many bytes the ring holds, and where the k-th of them is.            *)
Count(r) == IF r.rd > 0 /\ r.wr <= r.rd THEN r.size - r.rd + r.wr ELSE r.wr - r.rd

Place(r, k) == IF r.rd + k - 1 < r.size THEN r.rd + k - 1 ELSE r.rd + k - 1 - r.size

(* Where the indices may be: the read index never stays at the end.         *)
Indices(r) == /\ r.size \in Nat
              /\ r.wr \in 0 .. r.size
              /\ r.rd \in 0 .. r.size
              /\ r.rd > 0 => r.rd < r.size

(* The rings, and those that can come up.                                   *)
Memory == UNION {[0 .. n - 1 -> Byte \cup {Junk}] : n \in Nat}

Ring == [size : AllSizes, wr : Nat, rd : Nat, mem : Memory]

RingOK(r) ==
    /\ r \in Ring
    /\ Indices(r)
    /\ r.mem \in [0 .. r.size - 1 -> Byte \cup {Junk}]
    /\ \A k \in 1 .. Count(r) : r.mem[Place(r, k)] \in Byte

-----------------------------------------------------------------------------

(* The smaller of two numbers.                                              *)
LEMMA MinOfTwo ==
  ASSUME NEW a \in Int, NEW b \in Int
  PROVE  Min({a, b}) = IF a <= b THEN a ELSE b
BY DEF Min

(* No buffer is larger than the largest size.                               *)
LEMMA LargestSize ==
  /\ Max(AllSizes) \in Nat
  /\ \A size \in AllSizes : size \in Nat /\ size <= Max(AllSizes)
<1>1. AllSizes \subseteq Nat
  BY BioAssumption DEF AllSizes
<1>2. PICK m \in AllSizes : \A size \in AllSizes : size <= m
  BY BioAssumption DEF AllSizes
<1>3. \A size \in AllSizes : m >= size
  BY <1>1, <1>2
<1>4. \E x \in AllSizes : \A y \in AllSizes : x >= y
  BY <1>3
<1>5. /\ Max(AllSizes) \in AllSizes
      /\ \A y \in AllSizes : Max(AllSizes) >= y
  BY <1>4 DEF Max
<1> QED
  BY <1>1, <1>5

(* The elements of a concatenation.                                         *)
LEMMA Concat ==
  ASSUME NEW S, NEW s \in Seq(S), NEW t \in Seq(S)
  PROVE  /\ s \o t \in Seq(S)
         /\ Len(s \o t) = Len(s) + Len(t)
         /\ \A k \in 1 .. Len(s) + Len(t) :
              (s \o t)[k] = IF k <= Len(s) THEN s[k] ELSE t[k - Len(s)]
OBVIOUS

(* Sequences with the same elements are the same.                           *)
LEMMA SameSeq ==
  ASSUME NEW S, NEW s \in Seq(S), NEW t \in Seq(S), Len(s) = Len(t),
         \A k \in 1 .. Len(s) : s[k] = t[k]
  PROVE  s = t
OBVIOUS

(* A function on an initial interval is a sequence.                         *)
LEMMA Made ==
  ASSUME NEW S, NEW n \in Nat, NEW p \in [1 .. n -> S]
  PROVE  p \in Seq(S) /\ Len(p) = n
OBVIOUS

(* A piece of the ring's memory.                                            *)
LEMMA PieceIs ==
  ASSUME NEW r, Indices(r), r.mem \in [0 .. r.size - 1 -> Byte \cup {Junk}],
         NEW from \in 0 .. r.size, NEW to \in from .. r.size
  PROVE  /\ Piece(r, from, to) \in Seq(Byte \cup {Junk})
         /\ Len(Piece(r, from, to)) = to - from
         /\ \A k \in 1 .. to - from : Piece(r, from, to)[k] = r.mem[from + k - 1]
<1>1. \A k \in 1 .. to - from : from + k - 1 \in 0 .. r.size - 1
  BY DEF Indices
<1>2. \A k \in 1 .. to - from : r.mem[from + k - 1] \in Byte \cup {Junk}
  BY <1>1
<1>3. to - from \in Nat
  BY DEF Indices
<1>4. Piece(r, from, to) \in [1 .. to - from -> Byte \cup {Junk}]
  BY <1>2 DEF Piece
<1>5. Piece(r, from, to) \in Seq(Byte \cup {Junk}) /\ Len(Piece(r, from, to)) = to - from
  BY <1>3, <1>4, Made
<1> QED
  BY <1>5 DEF Piece

(* The contents are the cells from the read index on, around the end.       *)
LEMMA ContentsAre ==
  ASSUME NEW r, RingOK(r)
  PROVE  /\ Count(r) \in 0 .. r.size
         /\ \A k \in 1 .. Count(r) : Place(r, k) \in 0 .. r.size - 1
         /\ Contents(r) \in Seq(Byte)
         /\ Len(Contents(r)) = Count(r)
         /\ \A k \in 1 .. Count(r) : Contents(r)[k] = r.mem[Place(r, k)]
<1> DEFINE M == Byte \cup {Junk}
<1>0. /\ Indices(r) /\ r.mem \in [0 .. r.size - 1 -> M]
      /\ r.size \in Nat /\ r.wr \in 0 .. r.size /\ r.rd \in 0 .. r.size
  BY DEF RingOK, Indices
<1>1. Count(r) \in 0 .. r.size
  BY <1>0 DEF Count, Indices
<1>2. \A k \in 1 .. Count(r) : Place(r, k) \in 0 .. r.size - 1
  BY <1>0, <1>1 DEF Count, Place, Indices
<1>3. /\ Contents(r) \in Seq(M)
      /\ Len(Contents(r)) = Count(r)
      /\ \A k \in 1 .. Count(r) : Contents(r)[k] = r.mem[Place(r, k)]
  <2>1. CASE r.rd > 0 /\ r.wr <= r.rd
    <3>0. /\ r.size \in r.rd .. r.size /\ r.wr \in 0 .. r.size /\ 0 \in 0 .. r.size
          /\ r.wr - 0 = r.wr
      BY <1>0
    <3> DEFINE s == Piece(r, r.rd, r.size)
               t == Piece(r, 0, r.wr)
    <3>1. /\ s \in Seq(M) /\ Len(s) = r.size - r.rd
          /\ \A k \in 1 .. r.size - r.rd : s[k] = r.mem[r.rd + k - 1]
      BY <1>0, <3>0, PieceIs, ZenonT(60)
    <3>2. /\ t \in Seq(M) /\ Len(t) = r.wr
          /\ \A k \in 1 .. r.wr : t[k] = r.mem[0 + k - 1]
      <4>1. /\ t \in Seq(M) /\ Len(t) = r.wr - 0
            /\ \A k \in 1 .. r.wr - 0 : t[k] = r.mem[0 + k - 1]
        BY <1>0, <3>0, PieceIs
      <4> QED
        BY <3>0, <4>1
    <3>3. Contents(r) = s \o t /\ Count(r) = r.size - r.rd + r.wr
      BY <2>1 DEF Contents, Count
    <3> HIDE DEF s, t
    <3>4. /\ s \o t \in Seq(M)
          /\ Len(s \o t) = Len(s) + Len(t)
          /\ \A k \in 1 .. Len(s) + Len(t) :
               (s \o t)[k] = IF k <= Len(s) THEN s[k] ELSE t[k - Len(s)]
      BY <3>1, <3>2, Concat
    <3>5. ASSUME NEW k \in 1 .. Count(r) PROVE (s \o t)[k] = r.mem[Place(r, k)]
      <4>0. k \in Int /\ r.size \in Int /\ r.rd \in Int /\ r.wr \in Int
        BY <1>0, <1>1
      <4>1. CASE k <= r.size - r.rd
        BY <1>0, <3>1, <3>2, <3>3, <3>4, <4>1 DEF Place
      <4>2. CASE k > r.size - r.rd
        <5>0. k <= r.size - r.rd + r.wr
          BY <3>3, <4>0
        <5>1. k - Len(s) \in 1 .. r.wr /\ 0 + (k - Len(s)) - 1 = Place(r, k)
          BY <3>1, <4>0, <4>2, <5>0, SMTT(30) DEF Place
        <5>2. (s \o t)[k] = t[k - Len(s)]
          BY <1>0, <3>1, <3>2, <3>3, <3>4, <4>2
        <5> QED
          BY <3>2, <5>1, <5>2
      <4>3. k <= r.size - r.rd \/ k > r.size - r.rd
        BY <4>0
      <4> QED
        BY <4>1, <4>2, <4>3
    <3> QED
      BY <1>0, <3>1, <3>2, <3>3, <3>4, <3>5
  <2>2. CASE ~(r.rd > 0 /\ r.wr <= r.rd)
    <3>1. r.wr \in r.rd .. r.size
      BY <1>0, <2>2
    <3>2. Contents(r) = Piece(r, r.rd, r.wr) /\ Count(r) = r.wr - r.rd
      BY <2>2 DEF Contents, Count
    <3>3. \A k \in 1 .. Count(r) : Place(r, k) = r.rd + k - 1
      BY <1>0, <3>1, <3>2 DEF Place
    <3>4. /\ Piece(r, r.rd, r.wr) \in Seq(M) /\ Len(Piece(r, r.rd, r.wr)) = r.wr - r.rd
          /\ \A k \in 1 .. r.wr - r.rd : Piece(r, r.rd, r.wr)[k] = r.mem[r.rd + k - 1]
      BY <1>0, <3>1, PieceIs
    <3> QED
      BY <3>2, <3>3, <3>4
  <2> QED
    BY <2>1, <2>2
<1>4. \A k \in 1 .. Len(Contents(r)) : Contents(r)[k] \in Byte
  BY <1>3 DEF RingOK
<1>5. Contents(r) \in Seq(Byte)
  BY <1>3, <1>4
<1> QED
  BY <1>1, <1>2, <1>3, <1>5

(* Nothing has room only when it is full, and room is what is not filled.   *)
LEMMA RoomIs ==
  ASSUME NEW r, RingOK(r)
  PROVE  /\ Room(r) = r.size - Count(r)
         /\ Room(r) \in Nat
         /\ Full(r) <=> Room(r) = 0
<1>1. Room(r) = r.size - Count(r)
  BY ContentsAre DEF Room
<1>2. r.size \in Nat /\ r.wr \in 0 .. r.size /\ r.rd \in 0 .. r.size /\ (r.rd > 0 => r.rd < r.size)
  BY DEF RingOK, Indices
<1>3. Count(r) \in 0 .. r.size
  BY ContentsAre
<1>4. Full(r) <=> r.size - Count(r) = 0
  BY <1>2 DEF Full, Count
<1> QED
  BY <1>1, <1>2, <1>3, <1>4

(* The length of the piece that wolfSSL_BIO_nwrite can cut.                 *)
Gap(r) == IF r.rd > NwriteAt(r) THEN r.rd - NwriteAt(r) ELSE r.size - NwriteAt(r)

(* wolfSSL_BIO_nwrite cuts a piece whenever there is room, and what it cuts *)
(* is free.                                                                 *)
LEMMA NwriteCuts ==
  ASSUME NEW r, RingOK(r), NEW num \in Nat \ {0}
  PROVE  /\ Room(r) = 0 => NwriteSize(r, num) = WOLFSSL_BIO_ERROR
         /\ Room(r) # 0 =>
              /\ Gap(r) \in 1 .. Room(r)
              /\ NwriteSize(r, num) = (IF num <= Gap(r) THEN num ELSE Gap(r))
              /\ NwriteAt(r) \in 0 .. r.size - 1
              /\ NwriteAt(r) + Gap(r) <= r.size
              /\ \A k \in 1 .. Gap(r) : NwriteAt(r) + k - 1 = Place(r, Count(r) + k)
<1>1. r.size \in Nat /\ r.wr \in 0 .. r.size /\ r.rd \in 0 .. r.size /\ (r.rd > 0 => r.rd < r.size)
  BY DEF RingOK, Indices
<1>2. CASE Room(r) = 0
  BY <1>2, RoomIs DEF NwriteSize
<1>3. CASE Room(r) # 0
  <2>1. ~Full(r) /\ Room(r) = r.size - Count(r)
    BY <1>3, RoomIs
  <2>2. /\ NwriteAt(r) \in 0 .. r.size - 1
        /\ Gap(r) \in 1 .. r.size - Count(r)
        /\ NwriteAt(r) + Gap(r) <= r.size
    BY <1>1, <2>1 DEF Full, NwriteAt, Wrapped, Gap, Count
  <2>3. NwriteSize(r, num) = (IF num <= Gap(r) THEN num ELSE Gap(r))
    <3>1. NwriteSize(r, num) = Min({num, Gap(r)})
      BY <2>1 DEF NwriteSize, Gap
    <3> QED
      BY <3>1, <1>1, <2>2, MinOfTwo DEF Count
  <2>4. \A k \in 1 .. Gap(r) : NwriteAt(r) + k - 1 = Place(r, Count(r) + k)
    BY <1>1, <2>1 DEF Full, NwriteAt, Wrapped, Gap, Count, Place
  <2> QED
    BY <1>3, <2>1, <2>2, <2>3, <2>4
<1> QED
  BY <1>2, <1>3

(* A piece cut by wolfSSL_BIO_nwrite and filled joins the contents.         *)
LEMMA NwriteFills ==
  ASSUME NEW r, RingOK(r), Room(r) # 0,
         NEW n \in 1 .. Gap(r), NEW bytes \in Seq(Byte), n <= Len(bytes)
  PROVE  LET q == NwriteRing(r, bytes, n)
         IN  /\ RingOK(q)
             /\ q.size = r.size
             /\ q.rd = r.rd
             /\ q.wr = IF NwriteAt(r) + n = r.size /\ r.rd > 0 THEN 0 ELSE NwriteAt(r) + n
             /\ Room(q) = Room(r) - n
             /\ Contents(q) = Contents(r) \o SubSeq(bytes, 1, n)
<1> DEFINE q == NwriteRing(r, bytes, n)
           at == NwriteAt(r)
           M  == Byte \cup {Junk}
<1>0. /\ r.size \in Nat /\ r.wr \in 0 .. r.size /\ r.rd \in 0 .. r.size
      /\ r.rd > 0 => r.rd < r.size
      /\ r.mem \in [0 .. r.size - 1 -> M]
      /\ r \in Ring
  BY DEF RingOK, Indices
<1>1. /\ ~Full(r)
      /\ at \in 0 .. r.size - 1
      /\ Gap(r) \in 1 .. r.size - Count(r)
      /\ at + Gap(r) <= r.size
      /\ \A k \in 1 .. Gap(r) : at + k - 1 = Place(r, Count(r) + k)
  <2>1. 1 \in Nat \ {0}
    OBVIOUS
  <2> QED
    BY <2>1, RoomIs, NwriteCuts
<1>2. n \in Nat /\ n >= 1 /\ n <= Gap(r) /\ Gap(r) \in Nat /\ at \in Nat
  BY <1>0, <1>1 DEF Count
<1>3. \A j \in 1 .. n : bytes[j] \in Byte
  BY <1>2
<1> DEFINE wr  == IF at + n = r.size /\ r.rd > 0 THEN 0 ELSE at + n
           mem == [i \in DOMAIN r.mem |->
                     IF at <= i /\ i < at + n THEN bytes[i - at + 1] ELSE r.mem[i]]
<1>4. wr \in 0 .. r.size /\ wr \in Nat
  BY <1>0, <1>1, <1>2
<1>5. /\ mem \in [0 .. r.size - 1 -> M]
      /\ DOMAIN r.mem = 0 .. r.size - 1
  <2>1. \A i \in 0 .. r.size - 1 : at <= i /\ i < at + n => i - at + 1 \in 1 .. n
    BY <1>0, <1>2
  <2>2. DOMAIN r.mem = 0 .. r.size - 1
    BY <1>0
  <2>3. \A i \in DOMAIN r.mem :
          (IF at <= i /\ i < at + n THEN bytes[i - at + 1] ELSE r.mem[i]) \in M
    BY <1>0, <1>3, <2>1, <2>2
  <2> HIDE DEF at, M
  <2>4. mem \in [DOMAIN r.mem -> M]
    BY <2>3
  <2> HIDE DEF mem
  <2> QED
    BY <2>2, <2>4
<1>6. q = [r EXCEPT !.wr = wr, !.mem = mem]
  BY DEF NwriteRing
<1>7. q \in Ring /\ q.size = r.size /\ q.rd = r.rd /\ q.wr = wr /\ q.mem = mem
  <2>1. mem \in Memory
    BY <1>0, <1>5 DEF Memory
  <2>2. r \in Ring /\ wr \in Nat
    BY <1>0, <1>4
  <2> HIDE DEF q, wr, mem
  <2> QED
    BY <1>6, <2>1, <2>2 DEF Ring
<1>8. Count(q) = Count(r) + n
  <2> HIDE DEF q
  <2>1. CASE r.rd = 0
    BY <1>0, <1>1, <1>2, <1>7, <2>1 DEF Count, Full, NwriteAt, Wrapped, Gap
  <2>2. CASE r.rd > 0 /\ r.wr < r.rd
    BY <1>0, <1>1, <1>2, <1>7, <2>2, SMTT(30) DEF Count, Full, NwriteAt, Wrapped, Gap
  <2>3. CASE r.rd > 0 /\ r.wr > r.rd
    BY <1>0, <1>1, <1>2, <1>7, <2>3 DEF Count, Full, NwriteAt, Wrapped, Gap
  <2>4. r.rd > 0 => r.wr # r.rd
    BY <1>1 DEF Full
  <2> QED
    BY <1>0, <2>1, <2>2, <2>3, <2>4
<1>9. \A k : Place(q, k) = Place(r, k)
  BY <1>7 DEF Place
<1>10. ASSUME NEW k \in 1 .. Count(r) PROVE q.mem[Place(q, k)] = r.mem[Place(r, k)]
  <2>1. Place(r, k) \in 0 .. r.size - 1
    BY ContentsAre
  <2>2. ~(at <= Place(r, k) /\ Place(r, k) < at + n)
    <3>0. k \in Nat /\ k >= 1 /\ k <= Count(r)
      BY <1>0, <1>10, ContentsAre
    <3>1. CASE r.rd = 0
      BY <1>0, <1>1, <1>2, <3>0, <3>1, SMTT(30) DEF Count, Full, NwriteAt, Wrapped, Gap, Place
    <3>2. CASE r.rd > 0 /\ r.wr < r.rd
      <4>1. at = r.wr /\ n <= r.rd - r.wr /\ k <= r.size - r.rd + r.wr
        BY <1>0, <1>2, <3>0, <3>2 DEF Count, NwriteAt, Wrapped, Gap
      <4> QED
        BY <1>0, <1>2, <3>0, <3>2, <4>1, SMTT(30) DEF Place
    <3>3. CASE r.rd > 0 /\ r.wr > r.rd
      <4>1. /\ k <= r.wr - r.rd
            /\ \/ r.wr = r.size /\ at = 0 /\ n <= r.rd
               \/ r.wr < r.size /\ at = r.wr
        BY <1>0, <1>2, <3>0, <3>3 DEF Count, NwriteAt, Wrapped, Gap
      <4>2. Place(r, k) = r.rd + k - 1
        BY <1>0, <3>0, <4>1 DEF Place
      <4> QED
        BY <1>0, <1>2, <3>0, <3>3, <4>1, <4>2
    <3>4. r.rd > 0 => r.wr # r.rd
      BY <1>1 DEF Full
    <3> QED
      BY <1>0, <3>1, <3>2, <3>3, <3>4
  <2> QED
    BY <1>5, <1>7, <1>9, <2>1, <2>2
<1>11. ASSUME NEW j \in 1 .. n PROVE q.mem[Place(q, Count(r) + j)] = bytes[j]
  <2>1. Place(q, Count(r) + j) = at + j - 1
    BY <1>1, <1>2, <1>9
  <2>2. at + j - 1 \in 0 .. r.size - 1 /\ at <= at + j - 1 /\ at + j - 1 < at + n
        /\ (at + j - 1) - at + 1 = j
    BY <1>0, <1>1, <1>2, SMTT(30)
  <2> QED
    BY <1>5, <1>7, <2>1, <2>2
<1>12. Count(r) \in Nat /\ Count(r) + n <= r.size
  BY <1>1, <1>2, <1>0, ContentsAre
<1>13. \A k \in 1 .. Count(r) + n :
         \/ k \in 1 .. Count(r)
         \/ k - Count(r) \in 1 .. n /\ k = Count(r) + (k - Count(r))
  BY <1>2, <1>12
<1>14. \A k \in 1 .. Count(q) : q.mem[Place(q, k)] \in Byte
  <2>1. \A k \in 1 .. Count(r) : r.mem[Place(r, k)] \in Byte
    BY DEF RingOK
  <2> QED
    BY <1>3, <1>8, <1>10, <1>11, <1>13, <2>1
<1>15. RingOK(q)
  <2>1. Indices(q)
    BY <1>0, <1>7, <1>4 DEF Indices
  <2> HIDE DEF q, mem
  <2> QED
    BY <1>5, <1>7, <1>14, <2>1 DEF RingOK
<1>16. Contents(q) = Contents(r) \o SubSeq(bytes, 1, n)
  <2> DEFINE s == SubSeq(bytes, 1, n)
  <2>1. s \in Seq(Byte) /\ Len(s) = n /\ \A j \in 1 .. n : s[j] = bytes[j]
    BY <1>2
  <2> HIDE DEF s, q
  <2>2. /\ Contents(r) \in Seq(Byte) /\ Len(Contents(r)) = Count(r)
        /\ \A k \in 1 .. Count(r) : Contents(r)[k] = r.mem[Place(r, k)]
    BY ContentsAre
  <2>3. /\ Contents(q) \in Seq(Byte) /\ Len(Contents(q)) = Count(r) + n
        /\ \A k \in 1 .. Count(r) + n : Contents(q)[k] = q.mem[Place(q, k)]
    BY <1>8, <1>15, ContentsAre
  <2>4. /\ Contents(r) \o s \in Seq(Byte)
        /\ Len(Contents(r) \o s) = Count(r) + n
        /\ \A k \in 1 .. Count(r) + n :
             (Contents(r) \o s)[k] = IF k <= Count(r) THEN Contents(r)[k] ELSE s[k - Count(r)]
    <3>1. /\ Contents(r) \o s \in Seq(Byte)
          /\ Len(Contents(r) \o s) = Len(Contents(r)) + Len(s)
          /\ \A k \in 1 .. Len(Contents(r)) + Len(s) :
               (Contents(r) \o s)[k] =
                 IF k <= Len(Contents(r)) THEN Contents(r)[k] ELSE s[k - Len(Contents(r))]
      BY <2>1, <2>2, Concat
    <3> QED
      BY <2>1, <2>2, <3>1
  <2>5. ASSUME NEW k \in 1 .. Count(r) + n PROVE Contents(q)[k] = (Contents(r) \o s)[k]
    <3>1. CASE k \in 1 .. Count(r)
      <4>1. k <= Count(r)
        BY <1>12, <3>1
      <4> QED
        BY <1>10, <2>2, <2>3, <2>4, <3>1, <4>1
    <3>2. CASE k - Count(r) \in 1 .. n /\ k = Count(r) + (k - Count(r))
      <4>1. ~(k <= Count(r))
        BY <1>2, <1>12, <3>2
      <4>2. q.mem[Place(q, k)] = bytes[k - Count(r)]
        BY <1>11, <3>2
      <4> QED
        BY <2>1, <2>3, <2>4, <3>2, <4>1, <4>2
    <3> QED
      BY <1>13, <3>1, <3>2
  <2>6. Contents(q) = Contents(r) \o s
    BY <2>3, <2>4, <2>5, SameSeq
  <2> QED
    BY <2>6 DEF s
<1>17. Room(q) = Room(r) - n
  <2> HIDE DEF q
  <2> QED
    BY <1>0, <1>2, <1>7, <1>8, <1>12, <1>15, RoomIs
<1> QED
  BY <1>7, <1>15, <1>16, <1>17

(* What is cut off in two goes is what is cut off in one.                   *)
LEMMA TwoGoes ==
  ASSUME NEW S, NEW c \in Seq(S), NEW s \in Seq(S),
         NEW m \in Nat, NEW n \in Nat, m + n <= Len(s)
  PROVE  (c \o SubSeq(s, 1, m)) \o SubSeq(SubSeq(s, m + 1, Len(s)), 1, n)
           = c \o SubSeq(s, 1, m + n)
<1> DEFINE a == SubSeq(s, 1, m)
           b == SubSeq(s, m + 1, Len(s))
           d == SubSeq(b, 1, n)
           e == SubSeq(s, 1, m + n)
<1>0. m \in Nat /\ n \in Nat /\ Len(s) \in Nat /\ Len(c) \in Nat /\ m + n <= Len(s)
  OBVIOUS
<1>1. a \in Seq(S) /\ Len(a) = m /\ \A k \in 1 .. m : a[k] = s[k]
  BY <1>0
<1>2. b \in Seq(S) /\ Len(b) = Len(s) - m /\ \A k \in 1 .. Len(s) - m : b[k] = s[m + k]
  BY <1>0
<1>3. d \in Seq(S) /\ Len(d) = n /\ \A k \in 1 .. n : d[k] = s[m + k]
  <2> HIDE DEF b
  <2>1. d \in Seq(S) /\ Len(d) = n /\ \A k \in 1 .. n : d[k] = b[k]
    BY <1>0, <1>2
  <2> QED
    BY <1>0, <1>2, <2>1
<1>4. e \in Seq(S) /\ Len(e) = m + n /\ \A k \in 1 .. m + n : e[k] = s[k]
  BY <1>0
<1> HIDE DEF a, b, d, e
<1> DEFINE f == c \o a
<1>5. /\ f \in Seq(S) /\ Len(f) = Len(c) + m
      /\ \A k \in 1 .. Len(c) + m : f[k] = IF k <= Len(c) THEN c[k] ELSE s[k - Len(c)]
  <2>1. /\ f \in Seq(S) /\ Len(f) = Len(c) + m
        /\ \A k \in 1 .. Len(c) + m : f[k] = IF k <= Len(c) THEN c[k] ELSE a[k - Len(c)]
    <3>1. /\ f \in Seq(S)
          /\ Len(f) = Len(c) + Len(a)
          /\ \A k \in 1 .. Len(c) + Len(a) :
               f[k] = IF k <= Len(c) THEN c[k] ELSE a[k - Len(c)]
      BY <1>1, Concat
    <3> HIDE DEF f
    <3> QED
      BY <1>1, <3>1
  <2>2. \A k \in 1 .. Len(c) + m : k <= Len(c) \/ k - Len(c) \in 1 .. m
    BY <1>0
  <2> HIDE DEF f
  <2> QED
    BY <1>1, <2>1, <2>2
<1> HIDE DEF f
<1>6. /\ c \o e \in Seq(S) /\ Len(c \o e) = Len(c) + m + n
      /\ \A k \in 1 .. Len(c) + m + n :
           (c \o e)[k] = IF k <= Len(c) THEN c[k] ELSE s[k - Len(c)]
  <2>1. /\ c \o e \in Seq(S) /\ Len(c \o e) = Len(c) + m + n
        /\ \A k \in 1 .. Len(c) + m + n :
             (c \o e)[k] = IF k <= Len(c) THEN c[k] ELSE e[k - Len(c)]
    BY <1>0, <1>4
  <2>2. \A k \in 1 .. Len(c) + m + n : k <= Len(c) \/ k - Len(c) \in 1 .. m + n
    BY <1>0
  <2> QED
    BY <1>4, <2>1, <2>2
<1>7. /\ f \o d \in Seq(S) /\ Len(f \o d) = Len(c) + m + n
      /\ \A k \in 1 .. Len(c) + m + n :
           (f \o d)[k] = IF k <= Len(c) + m THEN f[k] ELSE d[k - (Len(c) + m)]
  <2>1. /\ f \o d \in Seq(S)
        /\ Len(f \o d) = Len(f) + Len(d)
        /\ \A k \in 1 .. Len(f) + Len(d) :
             (f \o d)[k] = IF k <= Len(f) THEN f[k] ELSE d[k - Len(f)]
    BY <1>3, <1>5, Concat
  <2>2. Len(f) = Len(c) + m /\ Len(d) = n
    BY <1>3, <1>5
  <2> QED
    BY <2>1, <2>2
<1>8. ASSUME NEW k \in 1 .. Len(c) + m + n PROVE (f \o d)[k] = (c \o e)[k]
  <2>0. k \in Nat /\ k >= 1 /\ k <= Len(c) + m + n
    BY <1>0
  <2>1. CASE k <= Len(c) + m
    <3>1. k \in 1 .. Len(c) + m
      BY <1>0, <2>0, <2>1
    <3> QED
      BY <1>5, <1>6, <1>7, <2>1, <3>1
  <2>2. CASE ~(k <= Len(c) + m)
    <3>1. /\ k - (Len(c) + m) \in 1 .. n /\ ~(k <= Len(c))
          /\ m + (k - (Len(c) + m)) = k - Len(c)
      BY <1>0, <2>0, <2>2
    <3>2. (f \o d)[k] = d[k - (Len(c) + m)]
      BY <1>7, <2>2
    <3>3. d[k - (Len(c) + m)] = s[k - Len(c)]
      BY <1>3, <3>1
    <3>4. (c \o e)[k] = s[k - Len(c)]
      BY <1>6, <3>1
    <3> QED
      BY <3>2, <3>3, <3>4
  <2> QED
    BY <2>1, <2>2
<1>9. f \o d = c \o e
  BY <1>6, <1>7, <1>8, SameSeq
<1> QED
  BY <1>9 DEF a, b, d, e, f

(* wolfSSL_BIO_BIO_write: two pieces are enough, for the second one starts  *)
(* at the beginning of the ring and ends at the read index.                 *)
LEMMA WriteFills ==
  ASSUME NEW r, RingOK(r), Room(r) # 0,
         NEW bytes \in Seq(Byte), Len(bytes) # 0
  PROVE  LET num   == Len(bytes)
             sz1   == NwriteSize(r, num)
             ring1 == NwriteRing(r, bytes, sz1)
             sz2   == NwriteSize(ring1, num - sz1)
             again == sz1 < num /\ sz2 > 0
             q     == IF again THEN NwriteRing(ring1, SubSeq(bytes, sz1 + 1, num), sz2)
                               ELSE ring1
             total == IF again THEN sz1 + sz2 ELSE sz1
         IN  /\ sz1 \in Nat /\ sz1 > 0
             /\ total = IF num <= Room(r) THEN num ELSE Room(r)
             /\ RingOK(q)
             /\ Contents(q) = Contents(r) \o SubSeq(bytes, 1, total)
<1> DEFINE num   == Len(bytes)
           sz1   == NwriteSize(r, num)
           ring1 == NwriteRing(r, bytes, sz1)
           sz2   == NwriteSize(ring1, num - sz1)
           rest  == SubSeq(bytes, sz1 + 1, num)
           q     == NwriteRing(ring1, rest, sz2)
<1>0. /\ num \in Nat \ {0}
      /\ Room(r) \in Nat /\ r.size \in Nat /\ r.rd \in 0 .. r.size
      /\ r.rd > 0 => r.rd < r.size
      /\ Contents(r) \in Seq(Byte)
  BY RoomIs, ContentsAre DEF RingOK, Indices
<1>1. /\ Gap(r) \in 1 .. Room(r)
      /\ sz1 = (IF num <= Gap(r) THEN num ELSE Gap(r))
      /\ NwriteAt(r) \in 0 .. r.size - 1
      /\ NwriteAt(r) + Gap(r) <= r.size
  BY <1>0, NwriteCuts
<1>2. sz1 \in 1 .. Gap(r) /\ sz1 <= num /\ sz1 \in Nat /\ sz1 > 0
  BY <1>0, <1>1
<1>3. /\ RingOK(ring1) /\ ring1.size = r.size /\ ring1.rd = r.rd
      /\ ring1.wr = IF NwriteAt(r) + sz1 = r.size /\ r.rd > 0 THEN 0 ELSE NwriteAt(r) + sz1
      /\ Room(ring1) = Room(r) - sz1
      /\ Contents(ring1) = Contents(r) \o SubSeq(bytes, 1, sz1)
  <2> HIDE DEF sz1
  <2> QED
    BY <1>2, NwriteFills
<1> HIDE DEF num, sz1, ring1
<1>4. CASE sz1 = num
  <2>1. ~(sz1 < num) /\ num <= Room(r)
    BY <1>0, <1>1, <1>2, <1>4
  <2> HIDE DEF sz2
  <2> QED
    BY <1>2, <1>3, <1>4, <2>1 DEF num, sz1, ring1, sz2
<1>5. CASE sz1 # num
  <2>1. sz1 < num /\ sz1 = Gap(r) /\ num - sz1 \in Nat \ {0} /\ num > sz1
    BY <1>0, <1>1, <1>2, <1>5
  <2>2. CASE Room(ring1) = 0
    <3>1. sz2 = -1
      BY <1>3, <2>1, <2>2, NwriteCuts DEF WOLFSSL_BIO_ERROR
    <3>2. sz1 = Room(r)
      BY <1>0, <1>2, <1>3, <2>2
    <3> HIDE DEF sz2
    <3>3. ~(sz1 < num /\ sz2 > 0) /\ ~(num <= Room(r))
      BY <1>0, <1>2, <2>1, <3>1, <3>2
    <3> QED
      BY <1>2, <1>3, <3>2, <3>3 DEF num, sz1, ring1, sz2
  <2>3. CASE Room(ring1) # 0
    <3>1. /\ Gap(ring1) \in 1 .. Room(ring1)
          /\ sz2 = (IF num - sz1 <= Gap(ring1) THEN num - sz1 ELSE Gap(ring1))
      BY <1>3, <2>1, <2>3, NwriteCuts
    <3>2. Room(ring1) = ring1.size - Count(ring1) /\ ~Full(ring1)
      BY <1>3, <2>3, RoomIs
    <3>3. Gap(ring1) = Room(ring1)
      <4>1. CASE r.rd > NwriteAt(r)
        <5>1. ring1.wr = r.rd /\ ring1.rd > 0
          <6>1. sz1 = r.rd - NwriteAt(r)
            BY <2>1, <4>1 DEF Gap
          <6>2. NwriteAt(r) + sz1 = r.rd /\ r.rd > 0 /\ r.rd # r.size
            BY <1>0, <1>1, <4>1, <6>1
          <6> QED
            BY <1>3, <6>2
        <5> QED
          BY <1>3, <3>2, <5>1 DEF Full
      <4>2. CASE ~(r.rd > NwriteAt(r))
        <5>1. NwriteAt(r) + sz1 = r.size
          BY <1>0, <1>1, <1>3, <2>1, <4>2, SMTT(30) DEF Gap
        <5>2. r.rd > 0 /\ ring1.wr = 0
          BY <1>0, <1>3, <3>2, <5>1 DEF Full
        <5>3. Gap(ring1) = r.rd /\ Count(ring1) = r.size - r.rd + 0
          BY <1>0, <1>3, <5>2 DEF Gap, Count, NwriteAt, Wrapped
        <5> QED
          BY <1>0, <1>3, <3>2, <5>3
      <4> QED
        BY <4>1, <4>2
    <3>4. sz2 \in 1 .. Gap(ring1) /\ sz2 <= num - sz1 /\ sz2 \in Nat /\ sz2 > 0
      BY <1>0, <1>2, <1>3, <2>1, <3>1, SMTT(30)
    <3>5. rest \in Seq(Byte) /\ Len(rest) = num - sz1
      BY <1>0, <1>2 DEF num
    <3>6. sz1 + sz2 = IF num <= Room(r) THEN num ELSE Room(r)
      <4>1. Room(ring1) = Room(r) - sz1
        BY <1>3
      <4>2. sz2 = (IF num - sz1 <= Room(r) - sz1 THEN num - sz1 ELSE Room(r) - sz1)
        BY <3>1, <3>3, <4>1
      <4> HIDE DEF sz2
      <4> QED
        BY <1>0, <1>2, <4>2
    <3> HIDE DEF sz2, rest
    <3>7. RingOK(q) /\ Contents(q) = Contents(ring1) \o SubSeq(rest, 1, sz2)
      BY <1>3, <2>3, <3>4, <3>5, NwriteFills
    <3>8. Contents(q) = Contents(r) \o SubSeq(bytes, 1, sz1 + sz2)
      <4>1. sz1 \in Nat /\ sz2 \in Nat /\ sz1 + sz2 <= Len(bytes) /\ Contents(r) \in Seq(Byte)
        BY <1>0, <1>2, <3>4 DEF num
      <4>2. (Contents(r) \o SubSeq(bytes, 1, sz1))
              \o SubSeq(SubSeq(bytes, sz1 + 1, Len(bytes)), 1, sz2)
            = Contents(r) \o SubSeq(bytes, 1, sz1 + sz2)
        BY <4>1, TwoGoes, ZenonT(90)
      <4> QED
        BY <1>3, <3>7, <4>2 DEF rest, num
    <3>9. sz1 < num /\ sz2 > 0
      BY <2>1, <3>4
    <3> HIDE DEF q
    <3> QED
      BY <1>2, <3>6, <3>7, <3>8, <3>9 DEF num, sz1, ring1, sz2, rest, q
  <2> QED
    BY <2>2, <2>3
<1> QED
  BY <1>4, <1>5

(* How much wolfSSL_BIO_nread can hand out, unless a write just ended at    *)
(* the end of the ring.                                                     *)
LEMMA NreadSees ==
  ASSUME NEW r, RingOK(r), ~WroteUpToEnd(r)
  PROVE  /\ Nread0(r) \in 0 .. Count(r)
         /\ Nread0(r) = 0 <=> Count(r) = 0
         /\ r.rd + Nread0(r) <= r.size
         /\ Count(r) = 0 => r.rd = 0 /\ r.wr = 0
         /\ \A num \in Nat \ {0} :
              NreadSize(r, num) = IF num <= Nread0(r) THEN num ELSE Nread0(r)
<1>0. /\ r.size \in Nat /\ r.wr \in 0 .. r.size /\ r.rd \in 0 .. r.size
      /\ r.rd > 0 => r.rd < r.size
      /\ r.rd > 0 => r.wr # 0
  BY DEF RingOK, Indices, WroteUpToEnd
<1>1. /\ Nread0(r) \in 0 .. Count(r)
      /\ Nread0(r) = 0 <=> Count(r) = 0
      /\ r.rd + Nread0(r) <= r.size
      /\ Count(r) = 0 => r.rd = 0 /\ r.wr = 0
  BY <1>0 DEF Nread0, Count
<1>2. ASSUME NEW num \in Nat \ {0}
      PROVE  NreadSize(r, num) = IF num <= Nread0(r) THEN num ELSE Nread0(r)
  <2>1. Nread0(r) \in Nat /\ num \in Int
    BY <1>0, <1>1 DEF Count
  <2>2. NreadSize(r, num) = Min({num, Nread0(r)})
    BY <2>1 DEF NreadSize
  <2> QED
    BY <2>1, <2>2, MinOfTwo
<1> QED
  BY <1>1, <1>2

(* What wolfSSL_BIO_nread hands out leaves the contents at their head.      *)
LEMMA NreadTakes ==
  ASSUME NEW r, RingOK(r), ~WroteUpToEnd(r),
         NEW n \in Nat, n <= Nread0(r), n = 0 => Nread0(r) = 0
  PROVE  LET q == NreadRing(r, n)
         IN  /\ RingOK(q)
             /\ n = Nread0(r) => q.rd = 0
             /\ Count(q) = Count(r) - n
             /\ Contents(q) = SubSeq(Contents(r), n + 1, Len(Contents(r)))
             /\ Piece(r, r.rd, r.rd + n) = SubSeq(Contents(r), 1, n)
<1> DEFINE q == NreadRing(r, n)
<1>0. /\ r.size \in Nat /\ r.wr \in 0 .. r.size /\ r.rd \in 0 .. r.size
      /\ r.rd > 0 => r.rd < r.size
      /\ r.rd > 0 => r.wr # 0
      /\ r.mem \in [0 .. r.size - 1 -> Byte \cup {Junk}]
      /\ r \in Ring
  BY DEF RingOK, Indices, WroteUpToEnd
<1>1. /\ Nread0(r) \in 0 .. Count(r)
      /\ Nread0(r) = 0 <=> Count(r) = 0
      /\ r.rd + Nread0(r) <= r.size
      /\ Count(r) = 0 => r.rd = 0 /\ r.wr = 0
  BY NreadSees
<1>2. /\ Contents(r) \in Seq(Byte) /\ Len(Contents(r)) = Count(r)
      /\ \A k \in 1 .. Count(r) : Contents(r)[k] = r.mem[Place(r, k)]
      /\ Count(r) \in Nat
  BY <1>0, ContentsAre
<1>3. n <= Count(r) /\ r.rd + n <= r.size /\ r.rd + n \in r.rd .. r.size
  BY <1>0, <1>1, <1>2
<1> DEFINE atEnd == r.rd + n = r.size
           rd0 == IF atEnd THEN 0 ELSE r.rd + n
           wr0 == IF atEnd /\ r.wr = r.size THEN 0 ELSE r.wr
           rd  == IF rd0 = wr0 THEN 0 ELSE rd0
           wr  == IF rd0 = wr0 THEN 0 ELSE wr0
<1>4. q = [r EXCEPT !.rd = rd, !.wr = wr]
  BY DEF NreadRing
<1>5. rd \in Nat /\ wr \in Nat
  BY <1>0, <1>3
<1>6. q \in Ring /\ q.size = r.size /\ q.rd = rd /\ q.wr = wr /\ q.mem = r.mem
  <2>1. r \in Ring
    BY <1>0
  <2> HIDE DEF q, rd, wr
  <2> QED
    BY <1>4, <1>5, <2>1 DEF Ring
<1>7. Indices(q)
  <2>1. rd \in 0 .. r.size /\ wr \in 0 .. r.size /\ (rd > 0 => rd < r.size)
    BY <1>0, <1>3
  <2> HIDE DEF q, rd, wr
  <2> QED
    BY <1>0, <1>6, <2>1 DEF Indices
<1> HIDE DEF q
<1>8. /\ Count(q) = Count(r) - n
      /\ n = Nread0(r) => q.rd = 0
      /\ \A k \in 1 .. Count(r) - n : Place(q, k) = Place(r, n + k)
  <2>1. CASE r.rd = 0
    <3>1. Count(r) = r.wr /\ Nread0(r) = r.wr /\ n <= r.wr
      BY <1>0, <2>1 DEF Count, Nread0
    <3>2. CASE n = r.wr
      <4>1. q.rd = 0 /\ q.wr = 0
        BY <1>0, <1>6, <2>1, <3>2
      <4> QED
        BY <1>0, <1>6, <2>1, <3>1, <3>2, <4>1 DEF Count, Place
    <3>3. CASE n # r.wr
      <4>1. n < r.wr /\ q.rd = n /\ q.wr = r.wr
        BY <1>0, <1>6, <2>1, <3>1, <3>3
      <4> QED
        BY <1>0, <1>6, <2>1, <3>1, <3>3, <4>1 DEF Count, Place
    <3> QED
      BY <3>2, <3>3
  <2>2. CASE r.rd > 0 /\ r.wr <= r.rd
    <3>1. Count(r) = r.size - r.rd + r.wr /\ Nread0(r) = r.size - r.rd /\ r.wr > 0
      BY <1>0, <2>2 DEF Count, Nread0
    <3>2. CASE n = r.size - r.rd
      <4>1. q.rd = 0 /\ q.wr = r.wr
        BY <1>0, <1>6, <2>2, <3>1, <3>2
      <4>2. Count(q) = r.wr
        BY <1>0, <4>1 DEF Count
      <4>3. \A k \in 1 .. r.wr : Place(q, k) = k - 1 /\ Place(r, n + k) = k - 1
        BY <1>0, <1>6, <2>2, <3>2, <4>1 DEF Place
      <4> QED
        BY <1>0, <3>1, <3>2, <4>1, <4>2, <4>3
    <3>3. CASE n # r.size - r.rd
      <4>0. n > 0 /\ n < r.size - r.rd
        BY <1>0, <3>1, <3>3, <1>3, <2>2
      <4>1. q.rd = r.rd + n /\ q.wr = r.wr /\ q.wr <= q.rd /\ q.rd > 0
        BY <1>0, <1>6, <2>2, <4>0
      <4>2. Count(q) = Count(r) - n
        BY <1>0, <1>6, <3>1, <4>1 DEF Count
      <4>3. \A k \in 1 .. Count(r) - n : Place(q, k) = Place(r, n + k)
        BY <1>0, <1>6, <3>1, <4>1, SMTT(30) DEF Place
      <4> QED
        BY <3>1, <3>3, <4>2, <4>3
    <3> QED
      BY <3>2, <3>3
  <2>3. CASE r.rd > 0 /\ r.wr > r.rd
    <3>1. Count(r) = r.wr - r.rd /\ Nread0(r) = r.wr - r.rd /\ n > 0
      BY <1>0, <1>1, <2>3 DEF Count, Nread0
    <3>2. CASE n = r.wr - r.rd
      <4>1. q.rd = 0 /\ q.wr = 0
        BY <1>0, <1>6, <2>3, <3>2
      <4>2. Count(q) = 0 /\ Count(r) - n = 0
        BY <1>0, <3>1, <3>2, <4>1 DEF Count
      <4> QED
        BY <4>1, <4>2
    <3>3. CASE n # r.wr - r.rd
      <4>1. n < r.wr - r.rd /\ q.rd = r.rd + n /\ q.wr = r.wr /\ q.wr > q.rd
        BY <1>0, <1>6, <2>3, <3>1, <3>3, <1>3
      <4>2. Count(q) = Count(r) - n
        BY <1>0, <3>1, <4>1 DEF Count
      <4>3. \A k \in 1 .. Count(r) - n : Place(q, k) = Place(r, n + k)
        BY <1>0, <1>6, <3>1, <4>1, SMTT(30) DEF Place
      <4> QED
        BY <3>1, <3>3, <4>2, <4>3
    <3> QED
      BY <3>2, <3>3
  <2> QED
    BY <1>0, <2>1, <2>2, <2>3
<1>9. \A k \in 1 .. Count(r) - n : n + k \in 1 .. Count(r)
  BY <1>2, <1>3
<1>10. RingOK(q)
  <2>1. \A k \in 1 .. Count(q) : q.mem[Place(q, k)] \in Byte
    <3>1. \A k \in 1 .. Count(r) : r.mem[Place(r, k)] \in Byte
      BY DEF RingOK
    <3> QED
      BY <1>6, <1>8, <1>9, <3>1
  <2> QED
    BY <1>0, <1>6, <1>7, <2>1 DEF RingOK
<1>11. Contents(q) = SubSeq(Contents(r), n + 1, Len(Contents(r)))
  <2> DEFINE s == SubSeq(Contents(r), n + 1, Len(Contents(r)))
             c == Contents(r)
  <2>1. s \in Seq(Byte) /\ Len(s) = Count(r) - n /\ \A k \in 1 .. Count(r) - n : s[k] = c[n + k]
    <3> HIDE DEF c
    <3> QED
      BY <1>2, <1>3 DEF c
  <2> HIDE DEF s, c
  <2>2. /\ Contents(q) \in Seq(Byte) /\ Len(Contents(q)) = Count(q)
        /\ \A k \in 1 .. Count(q) : Contents(q)[k] = q.mem[Place(q, k)]
    BY <1>10, ContentsAre
  <2>3. \A k \in 1 .. Count(r) - n : Contents(q)[k] = s[k]
    BY <1>2, <1>6, <1>8, <1>9, <2>1, <2>2 DEF c
  <2>4. Contents(q) = s
    BY <1>8, <2>1, <2>2, <2>3, SameSeq
  <2> QED
    BY <2>4 DEF s
<1>12. Piece(r, r.rd, r.rd + n) = SubSeq(Contents(r), 1, n)
  <2> DEFINE s == SubSeq(Contents(r), 1, n)
             p == Piece(r, r.rd, r.rd + n)
             M == Byte \cup {Junk}
  <2>1. s \in Seq(Byte) /\ Len(s) = n /\ \A k \in 1 .. n : s[k] = Contents(r)[k]
    BY <1>2, <1>3
  <2>2. p \in Seq(M) /\ Len(p) = n /\ \A k \in 1 .. n : p[k] = r.mem[r.rd + k - 1]
    <3>1. (r.rd + n) - r.rd = n
      BY <1>0
    <3>2. Indices(r)
      BY DEF RingOK
    <3>3. /\ p \in Seq(M) /\ Len(p) = (r.rd + n) - r.rd
          /\ \A k \in 1 .. (r.rd + n) - r.rd : p[k] = r.mem[r.rd + k - 1]
      BY <1>0, <1>3, <3>2, PieceIs
    <3> HIDE DEF p, M
    <3> QED
      BY <3>1, <3>3
  <2>3. \A k \in 1 .. n : k \in 1 .. Count(r) /\ Place(r, k) = r.rd + k - 1
    BY <1>0, <1>2, <1>3, SMTT(30) DEF Place
  <2> HIDE DEF s, p
  <2>4. \A k \in 1 .. n : p[k] = s[k]
    BY <1>2, <2>1, <2>2, <2>3
  <2>5. s \in Seq(M)
    BY <2>1
  <2>6. p = s
    BY <2>1, <2>2, <2>4, <2>5, SameSeq
  <2> QED
    BY <2>6 DEF p, s
<1> QED
  BY <1>8, <1>10, <1>11, <1>12 DEF q

(* What is taken in two goes is what is taken in one.                       *)
LEMMA TwoHeads ==
  ASSUME NEW S, NEW c \in Seq(S), NEW m \in Nat, NEW n \in Nat, m + n <= Len(c)
  PROVE  /\ SubSeq(c, 1, m) \o SubSeq(SubSeq(c, m + 1, Len(c)), 1, n) = SubSeq(c, 1, m + n)
         /\ SubSeq(SubSeq(c, m + 1, Len(c)), n + 1, Len(SubSeq(c, m + 1, Len(c))))
              = SubSeq(c, m + n + 1, Len(c))
<1> DEFINE a == SubSeq(c, 1, m)
           d == SubSeq(c, m + 1, Len(c))
           b == SubSeq(d, 1, n)
           e == SubSeq(c, 1, m + n)
           f == SubSeq(d, n + 1, Len(d))
           g == SubSeq(c, m + n + 1, Len(c))
<1>0. Len(c) \in Nat
  OBVIOUS
<1>1. a \in Seq(S) /\ Len(a) = m /\ \A k \in 1 .. m : a[k] = c[k]
  BY <1>0
<1>2. d \in Seq(S) /\ Len(d) = Len(c) - m /\ \A k \in 1 .. Len(c) - m : d[k] = c[m + k]
  BY <1>0
<1>3. e \in Seq(S) /\ Len(e) = m + n /\ \A k \in 1 .. m + n : e[k] = c[k]
  BY <1>0
<1>4. /\ g \in Seq(S) /\ Len(g) = Len(c) - m - n
      /\ \A k \in 1 .. Len(c) - m - n : g[k] = c[m + n + k]
  BY <1>0
<1> HIDE DEF a, d, e, g
<1>5. b \in Seq(S) /\ Len(b) = n /\ \A k \in 1 .. n : b[k] = c[m + k]
  <2>1. b \in Seq(S) /\ Len(b) = n /\ \A k \in 1 .. n : b[k] = d[k]
    BY <1>0, <1>2
  <2> QED
    BY <1>0, <1>2, <2>1
<1>6. f = g
  <2>1. /\ f \in Seq(S) /\ Len(f) = Len(c) - m - n
        /\ \A k \in 1 .. Len(c) - m - n : f[k] = d[n + k]
    BY <1>0, <1>2
  <2>2. \A k \in 1 .. Len(c) - m - n : n + k \in 1 .. Len(c) - m /\ m + (n + k) = m + n + k
    BY <1>0
  <2> HIDE DEF f
  <2>3. \A k \in 1 .. Len(c) - m - n : f[k] = g[k]
    BY <1>2, <1>4, <2>1, <2>2
  <2> QED
    BY <1>4, <2>1, <2>3, SameSeq
<1> HIDE DEF b
<1>7. /\ a \o b \in Seq(S) /\ Len(a \o b) = m + n
      /\ \A k \in 1 .. m + n : (a \o b)[k] = IF k <= m THEN a[k] ELSE b[k - m]
  <2>1. /\ a \o b \in Seq(S)
        /\ Len(a \o b) = Len(a) + Len(b)
        /\ \A k \in 1 .. Len(a) + Len(b) :
             (a \o b)[k] = IF k <= Len(a) THEN a[k] ELSE b[k - Len(a)]
    BY <1>1, <1>5, Concat
  <2> QED
    BY <1>1, <1>5, <2>1
<1>8. ASSUME NEW k \in 1 .. m + n PROVE (a \o b)[k] = e[k]
  <2>1. CASE k <= m
    <3>1. k \in 1 .. m
      BY <2>1
    <3> QED
      BY <1>1, <1>3, <1>7, <2>1, <3>1
  <2>2. CASE ~(k <= m)
    <3>1. k - m \in 1 .. n /\ m + (k - m) = k
      BY <2>2
    <3> QED
      BY <1>3, <1>5, <1>7, <2>2, <3>1
  <2> QED
    BY <2>1, <2>2
<1>9. a \o b = e
  BY <1>3, <1>7, <1>8, SameSeq
<1> QED
  BY <1>6, <1>9 DEF a, b, d, e, f, g

(* wolfSSL_BIO_BIO_read: two pieces hand over all there is.                 *)
LEMMA ReadTakes ==
  ASSUME NEW r, RingOK(r), ~WroteUpToEnd(r), Count(r) # 0, NEW num \in Nat \ {0}
  PROVE  LET sz1   == NreadSize(r, num)
             ring1 == NreadRing(r, sz1)
             sz2   == NreadSize(ring1, num - sz1)
             again == sz1 < num /\ sz2 > 0
             q     == IF sz1 < num /\ sz2 >= 0 THEN NreadRing(ring1, sz2) ELSE ring1
             total == IF again THEN sz1 + sz2 ELSE sz1
         IN  /\ sz1 \in Nat /\ sz1 > 0
             /\ total = IF num <= Count(r) THEN num ELSE Count(r)
             /\ RingOK(q)
             /\ Contents(q) = SubSeq(Contents(r), total + 1, Len(Contents(r)))
             /\ Piece(r, r.rd, r.rd + sz1) \o
                  (IF again THEN Piece(ring1, ring1.rd, ring1.rd + sz2) ELSE <<>>)
                  = SubSeq(Contents(r), 1, total)
<1> DEFINE sz1   == NreadSize(r, num)
           ring1 == NreadRing(r, sz1)
           sz2   == NreadSize(ring1, num - sz1)
           c     == Contents(r)
           c1    == Contents(ring1)
           p     == Piece(r, r.rd, r.rd + sz1)
<1>0. Count(r) \in Nat /\ c \in Seq(Byte) /\ Len(c) = Count(r) /\ r.size \in Nat
  BY ContentsAre DEF RingOK, Indices
<1>1. /\ Nread0(r) \in 1 .. Count(r)
      /\ sz1 = IF num <= Nread0(r) THEN num ELSE Nread0(r)
  BY <1>0, NreadSees
<1>2. sz1 \in Nat /\ sz1 > 0 /\ sz1 <= Nread0(r) /\ sz1 <= num /\ sz1 <= Count(r)
  BY <1>0, <1>1
<1>3. /\ RingOK(ring1)
      /\ sz1 = Nread0(r) => ring1.rd = 0
      /\ Count(ring1) = Count(r) - sz1
      /\ c1 = SubSeq(c, sz1 + 1, Len(c))
      /\ p = SubSeq(c, 1, sz1)
  <2> HIDE DEF sz1
  <2> QED
    BY <1>2, NreadTakes
<1> HIDE DEF sz1, ring1, c, c1, p
<1>4. p \in Seq(Byte) /\ p \o <<>> = p
  <2>1. p \in Seq(Byte)
    BY <1>0, <1>2, <1>3
  <2> QED
    BY <2>1
<1>5. CASE sz1 = num
  <2>1. ~(sz1 < num) /\ num <= Count(r)
    BY <1>2, <1>5
  <2> HIDE DEF sz2
  <2> QED
    BY <1>2, <1>3, <1>4, <1>5, <2>1 DEF sz1, ring1, sz2, c, c1, p
<1>6. CASE sz1 # num
  <2>1. sz1 < num /\ sz1 = Nread0(r) /\ num - sz1 \in Nat \ {0} /\ ~(num <= sz1)
    BY <1>0, <1>1, <1>2, <1>6
  <2>2. ~WroteUpToEnd(ring1) /\ ring1.rd = 0
    BY <1>3, <2>1 DEF WroteUpToEnd
  <2>3. /\ Nread0(ring1) = Count(ring1)
        /\ sz2 = IF num - sz1 <= Nread0(ring1) THEN num - sz1 ELSE Nread0(ring1)
    <3>1. Nread0(ring1) = Count(ring1)
      BY <1>3, <2>2 DEF Nread0, Count, RingOK, Indices
    <3> QED
      BY <1>3, <2>1, <2>2, <3>1, NreadSees
  <2>4. /\ sz2 \in Nat /\ sz2 <= Nread0(ring1) /\ sz2 <= Count(r) - sz1
        /\ sz2 = 0 => Nread0(ring1) = 0
        /\ sz1 + sz2 = IF num <= Count(r) THEN num ELSE Count(r)
    <3>1. sz2 = IF num - sz1 <= Count(r) - sz1 THEN num - sz1 ELSE Count(r) - sz1
      BY <1>3, <2>3
    <3>2. Nread0(ring1) = Count(r) - sz1 /\ Count(r) \in Nat
      BY <1>0, <1>3, <2>3
    <3> HIDE DEF sz2
    <3> QED
      BY <1>2, <2>1, <3>1, <3>2
  <2> DEFINE q  == NreadRing(ring1, sz2)
             p2 == Piece(ring1, ring1.rd, ring1.rd + sz2)
  <2> HIDE DEF sz2
  <2>5. /\ RingOK(q)
        /\ Contents(q) = SubSeq(c1, sz2 + 1, Len(c1))
        /\ p2 = SubSeq(c1, 1, sz2)
    BY <1>3, <2>2, <2>4, NreadTakes DEF c1
  <2>6. /\ SubSeq(c, 1, sz1) \o SubSeq(SubSeq(c, sz1 + 1, Len(c)), 1, sz2)
             = SubSeq(c, 1, sz1 + sz2)
        /\ SubSeq(SubSeq(c, sz1 + 1, Len(c)), sz2 + 1, Len(SubSeq(c, sz1 + 1, Len(c))))
             = SubSeq(c, sz1 + sz2 + 1, Len(c))
    <3>1. sz1 \in Nat /\ sz2 \in Nat /\ c \in Seq(Byte) /\ sz1 + sz2 <= Len(c)
      BY <1>0, <1>2, <2>4
    <3> QED
      BY <3>1, TwoHeads
  <2> HIDE DEF q, p2
  <2>7. /\ Contents(q) = SubSeq(c, sz1 + sz2 + 1, Len(c))
        /\ p \o p2 = SubSeq(c, 1, sz1 + sz2)
    BY <1>3, <2>5, <2>6
  <2>8. CASE sz2 = 0
    <3>1. ~(sz2 > 0) /\ sz2 >= 0 /\ sz1 + sz2 = sz1
      BY <1>2, <2>8
    <3> QED
      BY <1>2, <1>3, <1>4, <2>1, <2>4, <2>5, <2>7, <3>1 DEF sz1, ring1, sz2, c, p, q
  <2>9. CASE sz2 # 0
    <3>1. sz2 > 0 /\ sz2 >= 0
      BY <2>4, <2>9
    <3> QED
      BY <1>2, <2>1, <2>4, <2>5, <2>7, <3>1 DEF sz1, ring1, sz2, c, p, p2, q
  <2> QED
    BY <2>8, <2>9
<1> QED
  BY <1>5, <1>6

(* A read at a ring whose last write ended at the end finds nothing.        *)
LEMMA NreadStuck ==
  ASSUME NEW r, RingOK(r), WroteUpToEnd(r)
  PROVE  \A num : NreadSize(r, num) = WOLFSSL_BIO_ERROR
<1>1. r.rd \in Nat /\ r.rd > 0 /\ r.wr = 0
  BY DEF RingOK, Indices, WroteUpToEnd
<1>2. Nread0(r) < 0
  BY <1>1 DEF Nread0
<1> QED
  BY <1>2 DEF NreadSize

-----------------------------------------------------------------------------

-----------------------------------------------------------------------------
(* The specification.                                                       *)

(* The ring is well formed, and what the last read or write reported is     *)
(* what the two properties ask for.                                         *)
IndInv == RingOK(ring) /\ WriteTakesWhatFits /\ ReadTakesWhatIsThere

(* A new buffer is well formed and empty.                                   *)
LEMMA FreshIsEmpty ==
  ASSUME NEW sz \in AllSizes
  PROVE  RingOK(FreshRing(sz)) /\ Contents(FreshRing(sz)) = <<>>
<1> DEFINE r == FreshRing(sz)
<1>1. sz \in Nat
  BY LargestSize
<1>2. r.size = sz /\ r.wr = 0 /\ r.rd = 0 /\ r.mem \in [0 .. sz - 1 -> Byte \cup {Junk}]
  BY DEF FreshRing
<1>3. r \in Ring
  <2>1. r.mem \in Memory
    BY <1>1, <1>2 DEF Memory
  <2> QED
    BY <1>1, <2>1 DEF Ring, FreshRing
<1> HIDE DEF r
<1>4. Count(r) = 0
  BY <1>2 DEF Count
<1>5. RingOK(r)
  BY <1>1, <1>2, <1>3, <1>4 DEF RingOK, Indices
<1>6. Contents(r) = <<>>
  BY <1>4, <1>5, ContentsAre
<1> QED
  BY <1>5, <1>6 DEF r

(* wolfSSL_BIO_reset empties the ring.                                      *)
LEMMA ResetIsEmpty ==
  ASSUME NEW r, RingOK(r)
  PROVE  LET q == [r EXCEPT !.wr = 0, !.rd = 0]
         IN  RingOK(q) /\ Contents(q) = <<>>
<1> DEFINE q == [r EXCEPT !.wr = 0, !.rd = 0]
<1>1. r \in Ring /\ r.size \in Nat /\ r.mem \in [0 .. r.size - 1 -> Byte \cup {Junk}]
  BY DEF RingOK, Indices
<1>2. r \in Ring
  BY <1>1
<1>3. q \in Ring /\ q.size = r.size /\ q.rd = 0 /\ q.wr = 0 /\ q.mem = r.mem
  BY <1>2 DEF Ring
<1> HIDE DEF q
<1>4. Count(q) = 0
  BY <1>3 DEF Count
<1>5. RingOK(q)
  BY <1>1, <1>3, <1>4 DEF RingOK, Indices
<1>6. Contents(q) = <<>>
  BY <1>4, <1>5, ContentsAre
<1> QED
  BY <1>5, <1>6 DEF q

(* What a caller offers.                                                    *)
LEMMA OffersAre ==
  ASSUME NEW bytes \in Offers
  PROVE  bytes \in Seq(Byte) /\ Len(bytes) \in Nat \ {0}
<1>1. PICK n \in 1 .. MAX_LEN : bytes \in [1 .. n -> Byte]
  BY DEF Offers
<1>2. n \in Nat \ {0}
  BY <1>1, BioAssumption
<1> QED
  BY <1>1, <1>2, Made

(* Bytes that join the contents are a step of the pipe.                     *)
LEMMA Joined ==
  ASSUME RingOK(ring), RingOK(ring'), NEW bytes \in Seq(Byte), NEW n \in Nat \ {0},
         n <= Len(bytes),
         Contents(ring') = Contents(ring) \o SubSeq(bytes, 1, n), out' = <<>>
  PROVE  Pipe!Put
<1> DEFINE s == SubSeq(bytes, 1, n)
<1>1. s \in [1 .. n -> Byte] /\ s \in Seq(Byte) /\ Len(s) = n
  <2>1. s \in Seq(Byte) /\ Len(s) = n
    OBVIOUS
  <2> HIDE DEF s
  <2> QED
    BY <2>1
<1> HIDE DEF s
<1>2. /\ Contents(ring) \in Seq(Byte) /\ Contents(ring') \in Seq(Byte)
      /\ Len(Contents(ring')) <= (ring').size
      /\ (ring').size \in AllSizes
  <2>1. /\ Contents(ring) \in Seq(Byte) /\ Contents(ring') \in Seq(Byte)
        /\ Len(Contents(ring')) = Count(ring') /\ Count(ring') \in 0 .. (ring').size
    BY ContentsAre
  <2>2. (ring').size \in Nat /\ (ring').size \in AllSizes
    BY DEF RingOK, Indices, Ring
  <2> QED
    BY <2>1, <2>2
<1>3. Len(Contents(ring')) = Len(Contents(ring)) + n
  BY <1>1, <1>2, Concat DEF s
<1>4. (ring').size \in Nat /\ (ring').size <= Max(AllSizes) /\ Max(AllSizes) \in Nat
  BY <1>2, LargestSize
<1>5. n \in 1 .. Max(AllSizes) - Len(Contents(ring))
  BY <1>2, <1>3, <1>4
<1>6. Contents(ring') = Contents(ring) \o s
  BY DEF s
<1>7. Contents(ring)' = Contents(ring')
  BY DEF Contents, Piece
<1> QED
  BY <1>1, <1>5, <1>6, <1>7 DEF Pipe!Put

(* Bytes handed over are a step of the pipe.                                *)
LEMMA Handed ==
  ASSUME NEW n \in Nat \ {0}, n <= Len(Contents(ring)),
         RingOK(ring),
         out' = SubSeq(Contents(ring), 1, n),
         Contents(ring') = SubSeq(Contents(ring), n + 1, Len(Contents(ring)))
  PROVE  Pipe!Take
<1>1. Contents(ring)' = Contents(ring')
  BY DEF Contents, Piece
<1>2. n \in 1 .. Len(Contents(ring))
  BY ContentsAre
<1> QED
  BY <1>1, <1>2 DEF Pipe!Take

(* So is a step that moves nothing, and one that throws everything away.    *)
LEMMA Still ==
  ASSUME out' = <<>>
  PROVE  /\ Contents(ring') = Contents(ring) => Pipe!Idle
         /\ Contents(ring') = <<>> => Pipe!Clear
<1>1. Contents(ring)' = Contents(ring')
  BY DEF Contents, Piece
<1> QED
  BY <1>1 DEF Pipe!Idle, Pipe!Clear

(* wolfSSL_BIO_nwrite.                                                      *)
LEMMA NwriteStep ==
  ASSUME RingOK(ring), NEW bytes \in Offers, Nwrite(bytes)
  PROVE  RingOK(ring') /\ (Pipe!Put \/ Pipe!Idle) /\ last'.op = "nwrite"
<1> DEFINE num == Len(bytes)
           sz  == NwriteSize(ring, num)
<1>1. /\ ring' = IF sz > 0 THEN NwriteRing(ring, bytes, sz) ELSE ring
      /\ out' = <<>>
      /\ last'.op = "nwrite"
  BY DEF Nwrite, Saw
<1>2. bytes \in Seq(Byte) /\ num \in Nat \ {0}
  BY OffersAre
<1> HIDE DEF num
<1>3. CASE Room(ring) = 0
  <2>1. sz = -1
    BY <1>2, <1>3, NwriteCuts DEF WOLFSSL_BIO_ERROR
  <2> HIDE DEF sz
  <2>2. ring' = ring
    BY <1>1, <2>1
  <2> QED
    BY <1>1, <2>2, Still
<1>4. CASE Room(ring) # 0
  <2>1. Gap(ring) \in 1 .. Room(ring) /\ sz = (IF num <= Gap(ring) THEN num ELSE Gap(ring))
    BY <1>2, <1>4, NwriteCuts
  <2>2. sz \in 1 .. Gap(ring) /\ sz \in Nat \ {0} /\ sz <= num /\ sz > 0
    BY <1>2, <2>1, RoomIs
  <2> HIDE DEF sz
  <2>3. ring' = NwriteRing(ring, bytes, sz)
    BY <1>1, <2>2
  <2>4. RingOK(ring') /\ Contents(ring') = Contents(ring) \o SubSeq(bytes, 1, sz)
    BY <1>2, <1>4, <2>2, <2>3, NwriteFills DEF num
  <2> QED
    BY <1>1, <1>2, <2>2, <2>4, Joined DEF num
<1> QED
  BY <1>3, <1>4

(* wolfSSL_BIO_BIO_write.                                                   *)
LEMMA WriteStep ==
  ASSUME RingOK(ring), NEW bytes \in Offers, Write(bytes)
  PROVE  /\ RingOK(ring')
         /\ Pipe!Put \/ Pipe!Idle
         /\ last'.op = "write"
         /\ last'.ret = IF last'.had = 0 THEN WOLFSSL_BIO_ERROR
                                         ELSE Min({last'.asked, last'.had})
<1> DEFINE num   == Len(bytes)
           sz1   == NwriteSize(ring, num)
           ring1 == NwriteRing(ring, bytes, sz1)
           sz2   == NwriteSize(ring1, num - sz1)
           again == sz1 < num /\ sz2 > 0
           q     == IF again THEN NwriteRing(ring1, SubSeq(bytes, sz1 + 1, num), sz2)
                             ELSE ring1
           total == IF again THEN sz1 + sz2 ELSE sz1
<1>1. /\ out' = <<>>
      /\ sz1 <= 0 => /\ ring' = ring
                     /\ last' = [op |-> "write", asked |-> num, had |-> Room(ring),
                                 ret |-> WOLFSSL_BIO_ERROR]
      /\ ~(sz1 <= 0) => /\ ring' = q
                        /\ last' = [op |-> "write", asked |-> num, had |-> Room(ring),
                                    ret |-> total]
  BY DEF Write, Saw
<1>2. bytes \in Seq(Byte) /\ num \in Nat \ {0} /\ Len(bytes) # 0
  BY OffersAre
<1>3. CASE Room(ring) = 0
  <2>1. sz1 = -1
    BY <1>2, <1>3, NwriteCuts DEF WOLFSSL_BIO_ERROR
  <2>2. sz1 <= 0
    BY <2>1
  <2> HIDE DEF num, sz1, q, total
  <2>3. /\ ring' = ring
        /\ last' = [op |-> "write", asked |-> num, had |-> Room(ring),
                    ret |-> WOLFSSL_BIO_ERROR]
    BY <1>1, <2>2
  <2> QED
    BY <1>1, <1>3, <2>3, Still
<1>4. CASE Room(ring) # 0
  <2>1. /\ sz1 \in Nat /\ sz1 > 0
        /\ total = IF num <= Room(ring) THEN num ELSE Room(ring)
        /\ RingOK(q)
        /\ Contents(q) = Contents(ring) \o SubSeq(bytes, 1, total)
    BY <1>2, <1>4, WriteFills
  <2>2. Room(ring) \in Nat
    BY RoomIs
  <2>3. num \in Int /\ Room(ring) \in Int
    BY <1>2, <2>2
  <2> HIDE DEF num, sz1, q, total
  <2>4. ~(sz1 <= 0)
    BY <2>1
  <2>5. /\ ring' = q
        /\ last' = [op |-> "write", asked |-> num, had |-> Room(ring), ret |-> total]
    BY <1>1, <2>4
  <2>6. total = Min({num, Room(ring)})
    BY <2>1, <2>3, MinOfTwo
  <2>7. total \in Nat \ {0} /\ total <= Len(bytes)
    BY <1>2, <1>4, <2>1, <2>2 DEF num
  <2>8. RingOK(ring') /\ Contents(ring') = Contents(ring) \o SubSeq(bytes, 1, total)
    BY <2>1, <2>5
  <2>9. Pipe!Put
    BY <1>1, <1>2, <2>7, <2>8, Joined
  <2>10. /\ last'.op = "write" /\ last'.had # 0
         /\ last'.ret = Min({last'.asked, last'.had})
    BY <1>4, <2>5, <2>6
  <2> QED
    BY <2>8, <2>9, <2>10
<1> QED
  BY <1>3, <1>4

(* wolfSSL_BIO_nread.                                                       *)
LEMMA NreadStep ==
  ASSUME RingOK(ring), NEW num \in 1 .. MAX_LEN, Nread(num)
  PROVE  RingOK(ring') /\ (Pipe!Take \/ Pipe!Idle) /\ last'.op = "nread"
<1> DEFINE sz == NreadSize(ring, num)
<1>1. /\ ring' = IF sz >= 0 THEN NreadRing(ring, sz) ELSE ring
      /\ out' = IF sz > 0 THEN Piece(ring, ring.rd, ring.rd + sz) ELSE <<>>
      /\ last'.op = "nread"
  BY DEF Nread, Saw
<1>2. num \in Nat \ {0}
  BY BioAssumption
<1>3. CASE WroteUpToEnd(ring)
  <2>1. sz = -1
    BY <1>3, NreadStuck DEF WOLFSSL_BIO_ERROR
  <2> HIDE DEF sz
  <2>2. ring' = ring /\ out' = <<>>
    BY <1>1, <2>1
  <2> QED
    BY <1>1, <2>2, Still
<1>4. CASE ~WroteUpToEnd(ring)
  <2>1. /\ Nread0(ring) \in 0 .. Count(ring)
        /\ sz = IF num <= Nread0(ring) THEN num ELSE Nread0(ring)
    BY <1>2, <1>4, NreadSees
  <2>2. Count(ring) \in Nat /\ Len(Contents(ring)) = Count(ring) /\ Contents(ring) \in Seq(Byte)
    BY ContentsAre DEF RingOK, Indices
  <2> HIDE DEF sz
  <2>3. /\ sz \in Nat /\ sz <= Nread0(ring) /\ sz <= Count(ring) /\ sz >= 0
        /\ sz = 0 => Nread0(ring) = 0
    BY <1>2, <2>1, <2>2
  <2>4. ring' = NreadRing(ring, sz)
    BY <1>1, <2>3
  <2>5. /\ RingOK(ring')
        /\ Contents(ring') = SubSeq(Contents(ring), sz + 1, Len(Contents(ring)))
        /\ Piece(ring, ring.rd, ring.rd + sz) = SubSeq(Contents(ring), 1, sz)
    BY <1>4, <2>3, <2>4, NreadTakes
  <2>6. CASE sz = 0
    <3>1. out' = <<>>
      BY <1>1, <2>6
    <3>2. SubSeq(Contents(ring), sz + 1, Len(Contents(ring))) = Contents(ring)
      <4> DEFINE c == Contents(ring)
      <4>1. c \in Seq(Byte)
        BY <2>2
      <4> HIDE DEF c
      <4>2. SubSeq(c, 1, Len(c)) = c
        BY <4>1
      <4> QED
        BY <2>6, <4>2 DEF c
    <3> QED
      BY <1>1, <2>5, <3>1, <3>2, Still
  <2>7. CASE sz # 0
    <3>1. sz \in Nat \ {0} /\ sz > 0 /\ sz <= Len(Contents(ring))
      BY <2>2, <2>3, <2>7
    <3>2. out' = SubSeq(Contents(ring), 1, sz)
      BY <1>1, <2>5, <3>1
    <3> QED
      BY <1>1, <2>5, <3>1, <3>2, Handed
  <2> QED
    BY <2>6, <2>7
<1> QED
  BY <1>3, <1>4

(* wolfSSL_BIO_BIO_read.                                                    *)
LEMMA ReadStep ==
  ASSUME RingOK(ring), NEW num \in 1 .. MAX_LEN, Read(num)
  PROVE  /\ RingOK(ring')
         /\ Pipe!Take \/ Pipe!Idle
         /\ last'.op = "read"
         /\ \/ last'.had = 0 /\ last'.ret = WOLFSSL_BIO_ERROR
            \/ last'.had > 0 /\ last'.ret = Min({last'.asked, last'.had})
            \/ last'.ret = WOLFSSL_BIO_ERROR /\ WroteUpToEnd(ring')
<1> DEFINE sz1   == NreadSize(ring, num)
           ring1 == NreadRing(ring, sz1)
           sz2   == NreadSize(ring1, num - sz1)
           again == sz1 < num /\ sz2 > 0
           q     == IF sz1 < num /\ sz2 >= 0 THEN NreadRing(ring1, sz2) ELSE ring1
           total == IF again THEN sz1 + sz2 ELSE sz1
           piece == Piece(ring, ring.rd, ring.rd + sz1) \o
                      (IF again THEN Piece(ring1, ring1.rd, ring1.rd + sz2) ELSE <<>>)
           had   == Len(Contents(ring))
<1>1. /\ sz1 <= 0 => /\ ring' = IF sz1 = 0 THEN NreadRing(ring, 0) ELSE ring
                     /\ out' = <<>>
                     /\ last' = [op |-> "read", asked |-> num, had |-> had,
                                 ret |-> WOLFSSL_BIO_ERROR]
      /\ ~(sz1 <= 0) => /\ ring' = q
                        /\ out' = piece
                        /\ last' = [op |-> "read", asked |-> num, had |-> had,
                                    ret |-> total]
  BY DEF Read, Saw
<1>2. num \in Nat \ {0} /\ num \in Int
  BY BioAssumption
<1>3. Count(ring) \in Nat /\ had = Count(ring) /\ Contents(ring) \in Seq(Byte)
  BY ContentsAre DEF RingOK, Indices
<1>4. CASE WroteUpToEnd(ring)
  <2>1. sz1 = -1
    BY <1>4, NreadStuck DEF WOLFSSL_BIO_ERROR
  <2> HIDE DEF sz1, q, total, piece, had
  <2>2. /\ ring' = ring /\ out' = <<>>
        /\ last' = [op |-> "read", asked |-> num, had |-> had, ret |-> WOLFSSL_BIO_ERROR]
    BY <1>1, <2>1
  <2> QED
    BY <1>4, <2>2, Still
<1>5. CASE ~WroteUpToEnd(ring) /\ Count(ring) = 0
  <2>1. Nread0(ring) = 0 /\ sz1 = 0
    BY <1>2, <1>5, NreadSees
  <2> HIDE DEF sz1, q, total, piece
  <2>2. /\ ring' = NreadRing(ring, 0) /\ out' = <<>>
        /\ last' = [op |-> "read", asked |-> num, had |-> had, ret |-> WOLFSSL_BIO_ERROR]
    BY <1>1, <2>1
  <2>3. RingOK(NreadRing(ring, 0)) /\ Count(NreadRing(ring, 0)) = Count(ring) - 0
    BY <1>5, <2>1, NreadTakes
  <2>4. RingOK(ring') /\ Count(ring') = 0
    BY <1>5, <2>2, <2>3
  <2>5. Contents(ring') = <<>>
    BY <2>4, ContentsAre
  <2>6. Contents(ring) = <<>>
    BY <1>5, ContentsAre
  <2>7. Pipe!Idle
    BY <2>2, <2>5, <2>6, Still
  <2>8. last'.op = "read" /\ last'.had = 0 /\ last'.ret = WOLFSSL_BIO_ERROR
    BY <1>3, <1>5, <2>2
  <2> QED
    BY <2>4, <2>7, <2>8
<1>6. CASE ~WroteUpToEnd(ring) /\ Count(ring) # 0
  <2>1. /\ sz1 \in Nat /\ sz1 > 0
        /\ total = IF num <= Count(ring) THEN num ELSE Count(ring)
        /\ RingOK(q)
        /\ Contents(q) = SubSeq(Contents(ring), total + 1, Len(Contents(ring)))
        /\ piece = SubSeq(Contents(ring), 1, total)
    BY <1>2, <1>6, ReadTakes
  <2> HIDE DEF sz1, q, total, piece, had
  <2>2. ~(sz1 <= 0)
    BY <2>1
  <2>3. /\ ring' = q /\ out' = piece
        /\ last' = [op |-> "read", asked |-> num, had |-> had, ret |-> total]
    BY <1>1, <2>2
  <2>4. total = Min({num, had}) /\ had > 0
    BY <1>2, <1>3, <1>6, <2>1, MinOfTwo
  <2>5. total \in Nat \ {0} /\ total <= Len(Contents(ring))
    BY <1>2, <1>3, <1>6, <2>1 DEF had
  <2>6. Pipe!Take
    BY <2>1, <2>3, <2>5, Handed
  <2>7. last'.op = "read" /\ last'.had > 0 /\ last'.ret = Min({last'.asked, last'.had})
    BY <2>3, <2>4
  <2> QED
    BY <2>1, <2>3, <2>6, <2>7
<1> QED
  BY <1>4, <1>5, <1>6

(* Resets, new buffers, pairings and frees: the contents stay or go         *)
(* altogether, and nothing was read or written.                             *)
LEMMA OtherSteps ==
  ASSUME RingOK(ring),
         \/ Reset
         \/ \E size \in Sizes : SetWriteBufSize(size)
         \/ MakeBioPair \/ FreeReader \/ FreeWriter
  PROVE  RingOK(ring') /\ (Pipe!Idle \/ Pipe!Clear) /\ last' = Quiet
<1>1. out' = <<>> /\ last' = Quiet
  BY DEF Reset, SetWriteBufSize, MakeBioPair, FreeReader, FreeWriter
<1>2. \/ ring' = ring
      \/ ring' = [ring EXCEPT !.wr = 0, !.rd = 0]
      \/ \E size \in AllSizes : ring' = FreshRing(size)
  BY DEF Reset, SetWriteBufSize, MakeBioPair, FreeReader, FreeWriter, AllSizes
<1>3. CASE ring' = ring
  BY <1>1, <1>3, Still
<1>4. CASE ring' = [ring EXCEPT !.wr = 0, !.rd = 0]
  <2>1. RingOK(ring') /\ Contents(ring') = <<>>
    BY <1>4, ResetIsEmpty
  <2> QED
    BY <1>1, <2>1, Still
<1>5. CASE \E size \in AllSizes : ring' = FreshRing(size)
  <2>1. RingOK(ring') /\ Contents(ring') = <<>>
    BY <1>5, FreshIsEmpty
  <2> QED
    BY <1>1, <2>1, Still
<1> QED
  BY <1>2, <1>3, <1>4, <1>5

(* Every step keeps the invariant and is a step of the pipe.                *)
LEMMA EveryStep ==
  ASSUME IndInv, [Next]_vars
  PROVE  IndInv' /\ [Pipe!Next]_(Pipe!vars)
<1> USE DEF IndInv
<1>0. RingOK(ring)' <=> RingOK(ring')
  BY DEF RingOK, Ring, Indices, Count, Place
<1>1. CASE \E bytes \in Offers : Nwrite(bytes)
  <2>1. RingOK(ring') /\ (Pipe!Put \/ Pipe!Idle) /\ last'.op = "nwrite"
    BY <1>1, NwriteStep
  <2> QED
    BY <1>0, <2>1 DEF Pipe!Next, WriteTakesWhatFits, ReadTakesWhatIsThere
<1>2. CASE \E bytes \in Offers : Write(bytes)
  <2>1. /\ RingOK(ring')
        /\ Pipe!Put \/ Pipe!Idle
        /\ last'.op = "write"
        /\ last'.ret = IF last'.had = 0 THEN WOLFSSL_BIO_ERROR
                                        ELSE Min({last'.asked, last'.had})
    BY <1>2, WriteStep
  <2> QED
    BY <1>0, <2>1 DEF Pipe!Next, WriteTakesWhatFits, ReadTakesWhatIsThere
<1>3. CASE \E num \in 1 .. MAX_LEN : Nread(num)
  <2>1. RingOK(ring') /\ (Pipe!Take \/ Pipe!Idle) /\ last'.op = "nread"
    BY <1>3, NreadStep
  <2> QED
    BY <1>0, <2>1 DEF Pipe!Next, WriteTakesWhatFits, ReadTakesWhatIsThere
<1>4. CASE \E num \in 1 .. MAX_LEN : Read(num)
  <2>1. /\ RingOK(ring')
        /\ Pipe!Take \/ Pipe!Idle
        /\ last'.op = "read"
        /\ \/ last'.had = 0 /\ last'.ret = WOLFSSL_BIO_ERROR
           \/ last'.had > 0 /\ last'.ret = Min({last'.asked, last'.had})
           \/ last'.ret = WOLFSSL_BIO_ERROR /\ WroteUpToEnd(ring')
    BY <1>4, ReadStep
  <2> QED
    BY <1>0, <2>1 DEF Pipe!Next, WriteTakesWhatFits, ReadTakesWhatIsThere, WroteUpToEnd
<1>5. CASE \E num \in 1 .. MAX_LEN, op \in {"write", "read"} : Unpaired(op, num)
  <2>1. ring' = ring /\ out' = <<>> /\ ~paired'
    BY <1>5 DEF Unpaired
  <2>2. Pipe!Idle
    BY <2>1, Still
  <2> QED
    BY <1>0, <2>1, <2>2 DEF Pipe!Next, WriteTakesWhatFits, ReadTakesWhatIsThere
<1>6. CASE \/ Reset
           \/ \E size \in Sizes : SetWriteBufSize(size)
           \/ MakeBioPair \/ FreeReader \/ FreeWriter
  <2>1. RingOK(ring') /\ (Pipe!Idle \/ Pipe!Clear) /\ last' = Quiet
    BY <1>6, OtherSteps
  <2> QED
    BY <1>0, <2>1 DEF Pipe!Next, Quiet, WriteTakesWhatFits, ReadTakesWhatIsThere
<1>7. CASE UNCHANGED vars
  <2>1. Contents(ring)' = Contents(ring) /\ out' = out
    BY <1>7 DEF vars, Contents, Piece
  <2>2. UNCHANGED Pipe!vars
    BY <2>1 DEF Pipe!vars
  <2>3. IndInv'
    BY <1>0, <1>7 DEF vars, WriteTakesWhatFits, ReadTakesWhatIsThere, WroteUpToEnd
  <2> QED
    BY <2>2, <2>3
<1> QED
  BY <1>1, <1>2, <1>3, <1>4, <1>5, <1>6, <1>7 DEF Next

(* The invariant holds of a new BIO.                                        *)
LEMMA InitHolds == Init => IndInv /\ Pipe!Init
<1> SUFFICES ASSUME Init PROVE IndInv /\ Pipe!Init
  OBVIOUS
<1>1. RingOK(ring) /\ Contents(ring) = <<>>
  BY FreshIsEmpty DEF Init, AllSizes
<1> QED
  BY <1>1 DEF Init, IndInv, Pipe!Init, Quiet, WriteTakesWhatFits, ReadTakesWhatIsThere

(* wolfSSL_BIO_BIO_write takes as much as there is room for, on both sides  *)
(* of the end of the ring, for every buffer size and every history.         *)
THEOREM WritesFillTheRing == Spec => []WriteTakesWhatFits
<1>1. IndInv => WriteTakesWhatFits
  BY DEF IndInv
<1> QED
  BY <1>1, InitHolds, EveryStep, PTL DEF Spec

(* wolfSSL_BIO_BIO_read takes what there is up to what was asked, over the  *)
(* end of the ring too, except right after a write that ended at the end of *)
(* a ring that had been read from.                                          *)
THEOREM ReadsEmptyTheRing == Spec => []ReadTakesWhatIsThere
<1>1. IndInv => ReadTakesWhatIsThere
  BY DEF IndInv
<1> QED
  BY <1>1, InitHolds, EveryStep, PTL DEF Spec

(* The ring of bio.c is a pipe, whatever mixture of nread, read, nwrite and *)
(* write is used, for every buffer size.                                    *)
THEOREM RingIsPipe == Spec => ImplementsPipe
<1> QED
  BY InitHolds, EveryStep, PTL DEF Spec, ImplementsPipe, Pipe!Spec

=============================================================================
