------------------------ MODULE DtlsReassemblyProofs ------------------------
(***************************************************************************)
(* The reassembly of handshake messages for messages of any number and     *)
(* length, any fragments in any order, and any limits on items and         *)
(* buckets.                                                                *)
(***************************************************************************)
EXTENDS DtlsReassembly, TLAPS, FiniteSetTheorems, WellFoundedInduction

-----------------------------------------------------------------------------
(***************************************************************************)
(* Sequences, and the smallest and largest of a set of numbers.            *)
(***************************************************************************)

\* A set of natural numbers that is not empty has a smallest element.
LEMMA MinIs ==
    ASSUME NEW S, S \subseteq Nat, S # {}
    PROVE  Min(S) \in S /\ \A y \in S : Min(S) <= y
<1>1. \E x \in S : \A y \in S : ~ (<<y, x>> \in OpToRel(<, Nat))
  BY WFMin, NatLessThanWellFounded
<1>2. \E x \in S : \A y \in S : ~ (y < x)
  BY <1>1 DEF OpToRel
<1>3. \E x \in S : \A y \in S : x <= y
  BY <1>2
<1> QED
  BY <1>3 DEF Min

\* One with an upper bound has a largest element.
LEMMA MaxIs ==
    ASSUME NEW n \in Nat, NEW S, S \subseteq 0 .. n, S # {}
    PROVE  Max(S) \in S /\ \A y \in S : y <= Max(S)
<1> DEFINE T == {n - x : x \in S}
<1>0. \A x \in S : x \in Nat /\ x <= n
  OBVIOUS
<1>1. T \subseteq Nat /\ T # {}
  <2>1. \A x \in S : n - x \in Nat
    BY <1>0
  <2> QED
    BY <2>1
<1>2. PICK t \in T : \A y \in T : ~ (<<y, t>> \in OpToRel(<, Nat))
  BY <1>1, WFMin, NatLessThanWellFounded
<1>3. \A y \in T : t <= y
  <2> HIDE DEF T
  <2>1. \A y \in T : ~ (y < t)
    BY <1>1, <1>2 DEF OpToRel
  <2> QED
    BY <1>1, <2>1
<1>4. PICK x \in S : t = n - x
  OBVIOUS
<1>5. \A y \in S : x >= y
  BY <1>0, <1>3, <1>4
<1>6. \E u \in S : \A y \in S : u >= y
  BY <1>5
<1>7. Max(S) \in S /\ \A y \in S : Max(S) >= y
  BY <1>6 DEF Max
<1> QED
  BY <1>7

\* The smaller and the larger of two numbers.
LEMMA OfTwo ==
    ASSUME NEW a \in Int, NEW b \in Int
    PROVE  /\ Min({a, b}) = IF a <= b THEN a ELSE b
           /\ Max({a, b}) = IF a <= b THEN b ELSE a
  BY DEF Min, Max

\* The elements of a concatenation.
LEMMA Concat ==
    ASSUME NEW S, NEW s \in Seq(S), NEW t \in Seq(S)
    PROVE  /\ s \o t \in Seq(S)
           /\ Len(s \o t) = Len(s) + Len(t)
           /\ \A k \in 1 .. Len(s) + Len(t) :
                (s \o t)[k] = IF k <= Len(s) THEN s[k] ELSE t[k - Len(s)]
  OBVIOUS

\* Sequences with the same elements are the same.
LEMMA SameSeq ==
    ASSUME NEW S, NEW s \in Seq(S), NEW t \in Seq(S), Len(s) = Len(t),
           \A k \in 1 .. Len(s) : s[k] = t[k]
    PROVE  s = t
  OBVIOUS

\* A function on an initial interval is a sequence.
LEMMA Made ==
    ASSUME NEW S, NEW n \in Nat, NEW p \in [1 .. n -> S]
    PROVE  p \in Seq(S) /\ Len(p) = n
  OBVIOUS

\* The elements of a part of a sequence.
LEMMA SubIs ==
    ASSUME NEW S, NEW s \in Seq(S), NEW a \in Nat \ {0}, NEW e \in Nat,
           a <= e + 1, e <= Len(s)
    PROVE  /\ SubSeq(s, a, e) \in Seq(S)
           /\ Len(SubSeq(s, a, e)) = e - a + 1
           /\ \A k \in 1 .. e - a + 1 : SubSeq(s, a, e)[k] = s[a + k - 1]
<1>1. SubSeq(s, a, e) = [k \in 1 .. e - a + 1 |-> s[a + k - 1]]
  OBVIOUS
<1>2. \A k \in 1 .. e - a + 1 : a + k - 1 \in 1 .. Len(s)
  OBVIOUS
<1>3. [k \in 1 .. e - a + 1 |-> s[a + k - 1]] \in [1 .. e - a + 1 -> S]
  BY <1>2
<1>4. e - a + 1 \in Nat
  OBVIOUS
<1> QED
  BY <1>1, <1>3, <1>4, Made

\* A sequence with the elements from c to before rest replaced by one.
Splice(s, c, rest, e) == SubSeq(s, 1, c - 1) \o <<e>> \o SubSeq(s, rest, Len(s))

IsSplice(t, S, s, c, rest, e) ==
    /\ t \in Seq(S)
    /\ Len(t) = Len(s) + c - rest + 1
    /\ \A i \in 1 .. Len(s) + c - rest + 1 :
         t[i] = IF i < c THEN s[i]
                ELSE IF i = c THEN e ELSE s[i + rest - c - 1]

\* The elements of such a sequence.
LEMMA SpliceIs ==
    ASSUME NEW S, NEW s \in Seq(S), NEW c \in Nat \ {0}, NEW rest \in Nat,
           c <= rest, rest <= Len(s) + 1, NEW e \in S
    PROVE  IsSplice(Splice(s, c, rest, e), S, s, c, rest, e)
<1> DEFINE u == SubSeq(s, 1, c - 1)
           v == SubSeq(s, rest, Len(s))
           w == u \o <<e>>
           t == w \o v
<1>0. Len(s) \in Nat
  OBVIOUS
<1>1. /\ u \in Seq(S) /\ Len(u) = c - 1
      /\ \A k \in 1 .. c - 1 : u[k] = s[k]
  <2>1. /\ u \in Seq(S) /\ Len(u) = (c - 1) - 1 + 1
        /\ \A k \in 1 .. (c - 1) - 1 + 1 : u[k] = s[1 + k - 1]
    BY <1>0, SubIs
  <2> QED
    BY <2>1
<1>2. /\ v \in Seq(S) /\ Len(v) = Len(s) - rest + 1
      /\ \A k \in 1 .. Len(s) - rest + 1 : v[k] = s[rest + k - 1]
  BY <1>0, SubIs
<1>3. <<e>> \in Seq(S) /\ Len(<<e>>) = 1 /\ <<e>>[1] = e
  OBVIOUS
<1> HIDE DEF u, v
<1>4. /\ w \in Seq(S) /\ Len(w) = c
      /\ \A k \in 1 .. c : w[k] = IF k < c THEN s[k] ELSE e
  <2>1. /\ w \in Seq(S) /\ Len(w) = Len(u) + Len(<<e>>)
        /\ \A k \in 1 .. Len(u) + Len(<<e>>) :
             w[k] = IF k <= Len(u) THEN u[k] ELSE <<e>>[k - Len(u)]
    BY <1>1, <1>3, Concat
  <2>2. Len(u) + Len(<<e>>) = c
    BY <1>1, <1>3
  <2>3. ASSUME NEW k \in 1 .. c PROVE w[k] = IF k < c THEN s[k] ELSE e
    <3>1. w[k] = IF k <= c - 1 THEN u[k] ELSE <<e>>[k - (c - 1)]
      BY <2>1, <2>2, <1>1
    <3>2. CASE k < c
      BY <3>1, <3>2, <1>1
    <3>3. CASE k = c
      <4>1. k - (c - 1) = 1 /\ ~ (k <= c - 1) /\ ~ (k < c)
        BY <3>3
      <4>2. w[k] = <<e>>[1]
        BY <3>1, <4>1
      <4> QED
        BY <4>1, <4>2, <1>3
    <3>4. k < c \/ k = c
      OBVIOUS
    <3> QED
      BY <3>2, <3>3, <3>4
  <2> QED
    BY <2>1, <2>2, <2>3
<1> HIDE DEF w
<1>5. /\ t \in Seq(S) /\ Len(t) = Len(w) + Len(v)
      /\ \A k \in 1 .. Len(w) + Len(v) :
           t[k] = IF k <= Len(w) THEN w[k] ELSE v[k - Len(w)]
  BY <1>2, <1>4, Concat
<1>6. Len(w) + Len(v) = Len(s) + c - rest + 1
  BY <1>0, <1>2, <1>4
<1>7. ASSUME NEW i \in 1 .. Len(s) + c - rest + 1
      PROVE  t[i] = IF i < c THEN s[i]
                    ELSE IF i = c THEN e ELSE s[i + rest - c - 1]
  <2>1. t[i] = IF i <= c THEN w[i] ELSE v[i - c]
    BY <1>4, <1>5, <1>6
  <2>2. CASE i <= c
    BY <2>1, <2>2, <1>4
  <2>3. CASE i > c
    <3>1. i - c \in 1 .. Len(s) - rest + 1 /\ rest + (i - c) - 1 = i + rest - c - 1
      BY <2>3, <1>0
    <3>2. v[i - c] = s[rest + (i - c) - 1]
      BY <3>1, <1>2
    <3> QED
      BY <2>1, <2>3, <3>1, <3>2
  <2>4. i <= c \/ i > c
    BY <1>0
  <2> QED
    BY <2>2, <2>3, <2>4
<1> HIDE DEF t
<1>8. /\ t \in Seq(S)
      /\ Len(t) = Len(s) + c - rest + 1
      /\ \A i \in 1 .. Len(s) + c - rest + 1 :
           t[i] = IF i < c THEN s[i]
                  ELSE IF i = c THEN e
                  ELSE s[i + rest - c - 1]
  BY <1>5, <1>6, <1>7
<1> QED
  BY <1>8 DEF IsSplice, Splice, t, w, u, v

-----------------------------------------------------------------------------
(***************************************************************************)
(* Bytes, fragments, and what the copies of DtlsMsgCombineFragBuckets do.  *)
(***************************************************************************)
Byte == Nat \X Int

\* The messages are numbered and have a length.
LEMMA MessageType ==
    /\ \A m \in Messages : m \in Nat \ {0} /\ LengthOf[m] \in Nat
    /\ Messages = 1 .. LastMessage /\ LastMessage \in Nat
  BY ReassemblyAssumption DEF Messages, LastMessage

\* A fragment lies within its message.
LEMMA FragmentType ==
    ASSUME NEW f \in AnyFragment
    PROVE  /\ f.seq \in Messages /\ f.seq \in Nat /\ f.off \in Nat /\ f.sz \in Nat
           /\ LengthOf[f.seq] \in Nat /\ f.off + f.sz <= LengthOf[f.seq]
           /\ f = [seq |-> f.seq, off |-> f.off, sz |-> f.sz]
<1>1. PICK m \in Messages : f \in FragmentsOf(m)
  BY DEF AnyFragment
<1>2. LengthOf[m] \in Nat /\ m \in Nat
  BY MessageType
<1>3. PICK o \in 0 .. LengthOf[m] :
        f \in {[seq |-> m, off |-> o, sz |-> n] : n \in 0 .. LengthOf[m] - o}
  BY <1>1 DEF FragmentsOf
<1>4. PICK n \in 0 .. LengthOf[m] - o : f = [seq |-> m, off |-> o, sz |-> n]
  BY <1>3
<1> QED
  BY <1>2, <1>4

\* The bytes of a part of a message.
LEMMA BytesAre ==
    ASSUME NEW m \in Messages, NEW from \in Nat, NEW to \in Nat, from <= to
    PROVE  /\ Bytes(m, from, to) \in Seq(Byte)
           /\ Len(Bytes(m, from, to)) = to - from
           /\ \A k \in 1 .. to - from : Bytes(m, from, to)[k] = <<m, from + k - 1>>
<1>1. m \in Nat /\ to - from \in Nat
  BY MessageType
<1>2. Bytes(m, from, to) \in [1 .. to - from -> Byte]
  BY <1>1 DEF Bytes, Byte
<1> QED
  BY <1>1, <1>2, Made DEF Bytes

\* What a copy within a buffer changes.
LEMMA CopyIs ==
    ASSUME NEW buf \in Seq(Byte), NEW piece \in Seq(Byte), NEW at \in Nat,
           at + Len(piece) <= Len(buf)
    PROVE  /\ Copy(buf, at, piece) \in Seq(Byte)
           /\ Len(Copy(buf, at, piece)) = Len(buf)
           /\ \A i \in 1 .. Len(buf) :
                Copy(buf, at, piece)[i] =
                  IF i > at /\ i <= at + Len(piece) THEN piece[i - at] ELSE buf[i]
<1> DEFINE p == Len(piece)
           n == Len(buf)
           u == SubSeq(buf, 1, at)
           v == SubSeq(buf, at + p + 1, n)
           w == u \o piece
           t == w \o v
<1>0. p \in Nat /\ n \in Nat /\ at + p <= n
  OBVIOUS
<1>1. u \in Seq(Byte) /\ Len(u) = at /\ \A k \in 1 .. at : u[k] = buf[k]
  <2>1. /\ u \in Seq(Byte) /\ Len(u) = at - 1 + 1
        /\ \A k \in 1 .. at - 1 + 1 : u[k] = buf[1 + k - 1]
    BY <1>0, SubIs
  <2> QED
    BY <2>1
<1>2. /\ v \in Seq(Byte) /\ Len(v) = n - at - p
      /\ \A k \in 1 .. n - at - p : v[k] = buf[at + p + k]
  <2> DEFINE a == at + p + 1
  <2>1. a \in Nat \ {0} /\ a <= n + 1 /\ n - a + 1 = n - at - p
    BY <1>0
  <2>2. v = SubSeq(buf, a, n) /\ n <= Len(buf) /\ buf \in Seq(Byte)
    BY <1>0
  <2>3. \A k \in 1 .. n - a + 1 : a + k - 1 = at + p + k
    BY <1>0
  <2> HIDE DEF a, v, n
  <2>4. /\ v \in Seq(Byte) /\ Len(v) = n - a + 1
        /\ \A k \in 1 .. n - a + 1 : v[k] = buf[a + k - 1]
    BY <1>0, <2>1, <2>2, SubIs
  <2> QED
    BY <2>1, <2>3, <2>4
<1> HIDE DEF u, v
<1>3. /\ w \in Seq(Byte) /\ Len(w) = at + p
      /\ \A k \in 1 .. at + p : w[k] = IF k <= at THEN buf[k] ELSE piece[k - at]
  <2>1. /\ w \in Seq(Byte) /\ Len(w) = Len(u) + Len(piece)
        /\ \A k \in 1 .. Len(u) + Len(piece) :
             w[k] = IF k <= Len(u) THEN u[k] ELSE piece[k - Len(u)]
    BY <1>1, Concat
  <2> QED
    BY <2>1, <1>0, <1>1
<1> HIDE DEF w
<1>4. /\ t \in Seq(Byte) /\ Len(t) = Len(w) + Len(v)
      /\ \A k \in 1 .. Len(w) + Len(v) :
           t[k] = IF k <= Len(w) THEN w[k] ELSE v[k - Len(w)]
  <2>1. w \in Seq(Byte) /\ v \in Seq(Byte)
    BY <1>2, <1>3
  <2> QED
    BY <2>1, Concat
<1>5. Len(w) + Len(v) = n
  BY <1>0, <1>2, <1>3
<1>6. ASSUME NEW i \in 1 .. n
      PROVE  t[i] = IF i > at /\ i <= at + p THEN piece[i - at] ELSE buf[i]
  <2>1. t[i] = IF i <= at + p THEN w[i] ELSE v[i - (at + p)]
    BY <1>3, <1>4, <1>5
  <2>2. CASE i <= at + p
    <3>1. i \in 1 .. at + p
      BY <2>2, <1>0
    <3> QED
      BY <3>1, <2>1, <2>2, <1>0, <1>3
  <2>3. CASE i > at + p
    <3>1. i - (at + p) \in 1 .. n - at - p /\ at + p + (i - (at + p)) = i
      BY <2>3, <1>0
    <3>2. v[i - (at + p)] = buf[i]
      BY <3>1, <1>2
    <3>3. ~ (i <= at + p)
      BY <2>3, <1>0
    <3> QED
      BY <3>2, <3>3, <2>1
  <2>4. i <= at + p \/ i > at + p
    BY <1>0
  <2> QED
    BY <2>2, <2>3, <2>4
<1> HIDE DEF t
<1>7. /\ t \in Seq(Byte) /\ Len(t) = n
      /\ \A i \in 1 .. n :
           t[i] = IF i > at /\ i <= at + p THEN piece[i - at] ELSE buf[i]
  BY <1>4, <1>5, <1>6
<1> QED
  BY <1>7 DEF Copy, t, w, u, v

\* What a reallocation keeps.
LEMMA GrowIs ==
    ASSUME NEW buf \in Seq(Byte), NEW sz \in Nat, Len(buf) <= sz
    PROVE  /\ Grow(buf, sz) \in Seq(Byte)
           /\ Len(Grow(buf, sz)) = sz
           /\ \A i \in 1 .. Len(buf) : Grow(buf, sz)[i] = buf[i]
<1> DEFINE r == [i \in 1 .. sz - Len(buf) |-> Junk]
<1>0. sz - Len(buf) \in Nat /\ Len(buf) \in Nat
  OBVIOUS
<1>1. r \in [1 .. sz - Len(buf) -> Byte]
  BY DEF Junk, Byte
<1>2. r \in Seq(Byte) /\ Len(r) = sz - Len(buf)
  BY <1>0, <1>1, Made
<1> HIDE DEF r
<1>3. /\ buf \o r \in Seq(Byte) /\ Len(buf \o r) = Len(buf) + Len(r)
      /\ \A k \in 1 .. Len(buf) + Len(r) :
           (buf \o r)[k] = IF k <= Len(buf) THEN buf[k] ELSE r[k - Len(buf)]
  BY <1>2, Concat
<1>4. Len(buf) + Len(r) = sz
  BY <1>0, <1>2
<1>5. ASSUME NEW i \in 1 .. Len(buf) PROVE (buf \o r)[i] = buf[i]
  BY <1>0, <1>3, <1>4
<1> QED
  BY <1>3, <1>4, <1>5 DEF Grow, r

\* The bytes of a fragment.
LEMMA DataIs ==
    ASSUME NEW f \in AnyFragment
    PROVE  /\ Data(f) \in Seq(Byte) /\ Len(Data(f)) = f.sz
           /\ \A k \in 1 .. f.sz : Data(f)[k] = <<f.seq, f.off + k - 1>>
<1>1. /\ f.seq \in Messages /\ f.off \in Nat /\ f.off + f.sz \in Nat
      /\ f.off <= f.off + f.sz /\ (f.off + f.sz) - f.off = f.sz
  BY FragmentType
<1> DEFINE to == f.off + f.sz
<1> HIDE DEF to
<1>2. /\ Bytes(f.seq, f.off, to) \in Seq(Byte)
      /\ Len(Bytes(f.seq, f.off, to)) = to - f.off
      /\ \A k \in 1 .. to - f.off : Bytes(f.seq, f.off, to)[k] = <<f.seq, f.off + k - 1>>
  BY <1>1, BytesAre DEF to
<1> QED
  BY <1>1, <1>2 DEF Data, to

\* A bucket that holds the bytes of message m at its offset.
BucketSet == [off : Nat, sz : Nat, buf : Seq(Byte)]

RightBucket(m, b) ==
    /\ b \in BucketSet
    /\ b.off + b.sz <= LengthOf[m]
    /\ b.buf = Bytes(m, b.off, b.off + b.sz)

\* The bytes of such a bucket.
LEMMA RightIs ==
    ASSUME NEW m \in Messages, NEW b, RightBucket(m, b)
    PROVE  /\ b.off \in Nat /\ b.sz \in Nat /\ b.off + b.sz <= LengthOf[m]
           /\ b.buf \in Seq(Byte) /\ Len(b.buf) = b.sz
           /\ \A k \in 1 .. b.sz : b.buf[k] = <<m, b.off + k - 1>>
<1>1. /\ b.off \in Nat /\ b.sz \in Nat /\ b.buf \in Seq(Byte)
      /\ b.off + b.sz <= LengthOf[m]
  BY DEF RightBucket, BucketSet
<1> DEFINE to == b.off + b.sz
<1>2. to \in Nat /\ b.off <= to /\ to - b.off = b.sz
  BY <1>1
<1> HIDE DEF to
<1>3. b.buf = Bytes(m, b.off, to)
  BY DEF RightBucket, to
<1>4. /\ Len(b.buf) = to - b.off
      /\ \A k \in 1 .. to - b.off : b.buf[k] = <<m, b.off + k - 1>>
  <2>1. b.off \in Nat /\ to \in Nat /\ b.off <= to
    BY <1>1, <1>2
  <2>2. /\ Len(Bytes(m, b.off, to)) = to - b.off
        /\ \A k \in 1 .. to - b.off : Bytes(m, b.off, to)[k] = <<m, b.off + k - 1>>
    BY <2>1, BytesAre
  <2> QED
    BY <2>2, <1>3
<1> QED
  BY <1>1, <1>2, <1>4

\* A buffer whose elements are the bytes of the message makes such a bucket.
LEMMA MakesRight ==
    ASSUME NEW m \in Messages, NEW off \in Nat, NEW sz \in Nat,
           off + sz <= LengthOf[m], NEW buf \in Seq(Byte), Len(buf) = sz,
           \A k \in 1 .. sz : buf[k] = <<m, off + k - 1>>
    PROVE  RightBucket(m, [off |-> off, sz |-> sz, buf |-> buf])
<1> DEFINE to == off + sz
           b == [off |-> off, sz |-> sz, buf |-> buf]
<1>1. to \in Nat /\ off <= to /\ to - off = sz
  OBVIOUS
<1> HIDE DEF to
<1>2. /\ Bytes(m, off, to) \in Seq(Byte) /\ Len(Bytes(m, off, to)) = sz
      /\ \A k \in 1 .. sz : Bytes(m, off, to)[k] = <<m, off + k - 1>>
  <2>1. /\ Bytes(m, off, to) \in Seq(Byte) /\ Len(Bytes(m, off, to)) = to - off
        /\ \A k \in 1 .. to - off : Bytes(m, off, to)[k] = <<m, off + k - 1>>
    BY <1>1, BytesAre
  <2> QED
    BY <1>1, <2>1
<1>3. buf = Bytes(m, off, to)
  BY <1>2, SameSeq
<1>4. b \in BucketSet /\ b.off = off /\ b.sz = sz /\ b.buf = buf
  BY DEF BucketSet
<1> HIDE DEF b
<1>5. RightBucket(m, b)
  BY <1>3, <1>4 DEF RightBucket, to
<1> QED
  BY <1>5 DEF b

\* When a fragment is merged into cur, and joins next if it reaches that far.
Merges(cur, next, joins, f) ==
    /\ f.off <= cur.off + cur.sz /\ cur.off <= EndOf(f)
    /\ f.off < cur.off \/ cur.off + cur.sz < EndOf(f)
    /\ joins => /\ cur.off + cur.sz < next.off
                /\ next.off <= EndOf(f) /\ EndOf(f) < next.off + next.sz

\* DtlsMsgCombineFragBuckets: the merged bucket starts where the first of cur and
\* the fragment starts, ends where the last of them (and next) ends, and holds the
\* bytes of the message, whichever of the two buffers was reallocated and in
\* whichever order the pieces were copied.
LEMMA CombinedExact ==
    ASSUME NEW f \in AnyFragment, NEW cur, RightBucket(f.seq, cur),
           NEW next, RightBucket(f.seq, next), NEW joins \in BOOLEAN,
           Merges(cur, next, joins, f)
    PROVE  LET new == CombinedBucket(cur, next, joins, f)
           IN  /\ RightBucket(f.seq, new)
               /\ new.off = IF cur.off <= f.off THEN cur.off ELSE f.off
               /\ new.off + new.sz =
                    IF joins THEN next.off + next.sz
                    ELSE IF cur.off + cur.sz <= EndOf(f) THEN EndOf(f)
                    ELSE cur.off + cur.sz
<1> DEFINE m == f.seq
           newOff == Min({cur.off, f.off})
           curEnd == cur.off + cur.sz
           newSz == (IF joins THEN next.off + next.sz ELSE Max({curEnd, EndOf(f)}))
                    - newOff
           inCur == ~ joins \/ cur.sz >= next.sz
           grown == Grow(IF inCur THEN cur.buf ELSE next.buf, newSz)
           placed == IF joins THEN Copy(grown, next.off - newOff, next.buf) ELSE grown
           fillEnd == IF joins THEN next.off ELSE newOff + newSz
           curBuf == IF inCur THEN SubSeq(placed, 1, cur.sz) ELSE cur.buf
           skip == EndOf(f) - cur.off
           filled ==
             IF newOff = f.off
             THEN IF fillEnd <= EndOf(f)
                  THEN Copy(placed, 0,
                            SubSeq(Data(f), 1, Min({f.sz, fillEnd - newOff})))
                  ELSE Copy(Copy(placed, f.sz, SubSeq(curBuf, skip + 1, cur.sz)),
                            0, Data(f))
             ELSE Copy(Copy(placed, 0, curBuf), cur.sz,
                       SubSeq(Data(f), curEnd - f.off + 1, fillEnd - f.off))
           fEnd == EndOf(f)
           nextEnd == next.off + next.sz
<1>0. CombinedBucket(cur, next, joins, f) =
        [off |-> newOff, sz |-> newSz, buf |-> filled]
  BY DEF CombinedBucket
<1>1. /\ m \in Messages /\ f.off \in Nat /\ f.sz \in Nat /\ LengthOf[m] \in Nat
      /\ fEnd = f.off + f.sz /\ fEnd <= LengthOf[m]
  BY FragmentType DEF EndOf
<1>2. /\ cur.off \in Nat /\ cur.sz \in Nat /\ curEnd <= LengthOf[m]
      /\ cur.buf \in Seq(Byte) /\ Len(cur.buf) = cur.sz
      /\ \A k \in 1 .. cur.sz : cur.buf[k] = <<m, cur.off + k - 1>>
  BY <1>1, RightIs
<1>3. /\ next.off \in Nat /\ next.sz \in Nat /\ nextEnd <= LengthOf[m]
      /\ next.buf \in Seq(Byte) /\ Len(next.buf) = next.sz
      /\ \A k \in 1 .. next.sz : next.buf[k] = <<m, next.off + k - 1>>
  BY <1>1, RightIs
<1>4. /\ f.off <= curEnd /\ cur.off <= fEnd
      /\ f.off < cur.off \/ curEnd < fEnd
      /\ joins => curEnd < next.off /\ next.off <= fEnd /\ fEnd < nextEnd
  BY DEF Merges
<1>5. /\ newOff \in Nat
      /\ newOff = IF cur.off <= f.off THEN cur.off ELSE f.off
  <2>1. cur.off \in Nat /\ f.off \in Nat
    BY <1>1, <1>2
  <2>2. newOff = IF cur.off <= f.off THEN cur.off ELSE f.off
    BY <2>1, OfTwo
  <2> HIDE DEF newOff
  <2>3. newOff \in Nat
    <3>1. newOff = cur.off \/ newOff = f.off
      BY <2>2
    <3> QED
      BY <3>1, <2>1
  <2> QED
    BY <2>2, <2>3
<1>6. /\ fEnd \in Nat /\ curEnd \in Nat /\ nextEnd \in Nat
      /\ curEnd = cur.off + cur.sz /\ nextEnd = next.off + next.sz
  BY <1>1, <1>2, <1>3, SMTT(30)
<1>7. newSz = (IF joins THEN nextEnd ELSE IF curEnd <= fEnd THEN fEnd ELSE curEnd)
              - newOff
  <2> HIDE DEF newOff, nextEnd, curEnd, fEnd
  <2>0. curEnd \in Int /\ fEnd \in Int
    BY <1>6
  <2>1. Max({curEnd, fEnd}) = IF curEnd <= fEnd THEN fEnd ELSE curEnd
    BY <2>0, OfTwo
  <2> QED
    BY <2>1 DEF fEnd, nextEnd
<1>a. fillEnd = (IF joins THEN next.off ELSE newOff + newSz) /\ skip = fEnd - cur.off
  OBVIOUS
<1>b. inCur = (~ joins \/ cur.sz >= next.sz)
  OBVIOUS
<1>c. newOff + newSz = IF joins THEN nextEnd
                       ELSE IF curEnd <= fEnd THEN fEnd ELSE curEnd
  <2> HIDE DEF newOff, newSz, nextEnd, curEnd, fEnd
  <2> QED
    BY <1>5, <1>6, <1>7
<1>n. /\ f.off \in Int /\ f.off >= 0 /\ f.sz \in Int /\ f.sz >= 0
      /\ cur.off \in Int /\ cur.off >= 0 /\ cur.sz \in Int /\ cur.sz >= 0
      /\ next.off \in Int /\ next.off >= 0 /\ next.sz \in Int /\ next.sz >= 0
      /\ LengthOf[m] \in Int /\ fEnd = f.off + f.sz
      /\ curEnd = cur.off + cur.sz /\ nextEnd = next.off + next.sz
      /\ fEnd <= LengthOf[m] /\ curEnd <= LengthOf[m] /\ nextEnd <= LengthOf[m]
  BY <1>1, <1>2, <1>3
<1>d. /\ newSz \in Nat /\ newOff + newSz <= LengthOf[m]
      /\ cur.sz <= newSz /\ cur.off - newOff \in Nat
      /\ (cur.off - newOff) + cur.sz <= newSz
      /\ joins => /\ next.sz <= newSz /\ next.off - newOff \in Nat
                  /\ (next.off - newOff) + next.sz = newSz
                  /\ cur.sz <= next.off - newOff
  <2> HIDE DEF newOff, newSz, nextEnd, curEnd, fEnd, inCur
  <2> QED
    <3>1. newSz \in Int /\ newOff \in Int
      BY <1>n, <1>5, <1>7
    <3>2. CASE joins
      BY <3>1, <3>2, <1>4, <1>5, <1>n, <1>c
    <3>3. CASE ~ joins
      BY <3>1, <3>3, <1>4, <1>5, <1>n, <1>c
    <3> QED
      BY <3>2, <3>3
<1> HIDE DEF newOff, newSz, nextEnd, curEnd, fEnd, skip, fillEnd, inCur
<1>8. /\ grown \in Seq(Byte) /\ Len(grown) = newSz
      /\ inCur => \A k \in 1 .. cur.sz : grown[k] = <<m, cur.off + k - 1>>
  <2>1. CASE inCur
    <3>1. grown = Grow(cur.buf, newSz)
      BY <2>1
    <3> HIDE DEF grown
    <3>2. /\ grown \in Seq(Byte) /\ Len(grown) = newSz
          /\ \A k \in 1 .. Len(cur.buf) : grown[k] = cur.buf[k]
      BY <3>1, <1>2, <1>d, GrowIs
    <3> QED
      BY <3>2, <1>2
  <2>2. CASE ~ inCur
    <3>1. grown = Grow(next.buf, newSz) /\ joins
      BY <2>2, <1>b
    <3> HIDE DEF grown
    <3>2. /\ grown \in Seq(Byte) /\ Len(grown) = newSz
      BY <3>1, <1>3, <1>d, GrowIs
    <3> QED
      BY <3>2, <2>2
  <2> QED
    BY <2>1, <2>2
<1> HIDE DEF grown
<1>9. /\ placed \in Seq(Byte) /\ Len(placed) = newSz
      /\ joins => \A k \in 1 .. newSz :
                     k > next.off - newOff => placed[k] = <<m, newOff + k - 1>>
      /\ inCur => \A k \in 1 .. cur.sz : placed[k] = <<m, cur.off + k - 1>>
  <2>1. CASE joins
    <3> DEFINE at == next.off - newOff
    <3>1. placed = Copy(grown, at, next.buf)
      BY <2>1
    <3>2. at \in Nat /\ at + next.sz = newSz /\ cur.sz <= at
      BY <2>1, <1>d
    <3>3. next.off = newOff + at
      BY <1>3, <1>5
    <3> HIDE DEF at, placed
    <3>4. /\ placed \in Seq(Byte) /\ Len(placed) = newSz
          /\ \A k \in 1 .. newSz :
               placed[k] = IF k > at /\ k <= at + next.sz
                           THEN next.buf[k - at] ELSE grown[k]
      BY <3>1, <3>2, <1>3, <1>8, CopyIs
    <3>5. ASSUME NEW k \in 1 .. newSz, k > at
          PROVE  placed[k] = <<m, newOff + k - 1>>
      <4>1. k - at \in 1 .. next.sz /\ k <= at + next.sz
        BY <3>2, <3>5, <1>3, <1>d
      <4>2. placed[k] = next.buf[k - at]
        BY <3>4, <3>5, <4>1
      <4>3. next.buf[k - at] = <<m, next.off + (k - at) - 1>>
        BY <4>1, <1>3
      <4>4. next.off + (k - at) - 1 = newOff + k - 1
        BY <3>2, <3>3, <1>5, <1>d
      <4> QED
        BY <4>2, <4>3, <4>4
    <3>6. ASSUME inCur, NEW k \in 1 .. cur.sz
          PROVE  placed[k] = <<m, cur.off + k - 1>>
      <4>1. k \in 1 .. newSz /\ ~ (k > at)
        BY <3>2, <1>2, <1>d
      <4>2. placed[k] = grown[k]
        BY <3>4, <4>1
      <4> QED
        BY <4>2, <3>6, <1>8
    <3> QED
      BY <3>4, <3>5, <3>6 DEF at
  <2>2. CASE ~ joins
    <3>1. placed = grown
      BY <2>2
    <3> HIDE DEF placed
    <3> QED
      BY <3>1, <2>2, <1>8
  <2> QED
    BY <2>1, <2>2
<1> HIDE DEF placed
<1>10. /\ curBuf \in Seq(Byte) /\ Len(curBuf) = cur.sz
       /\ \A k \in 1 .. cur.sz : curBuf[k] = <<m, cur.off + k - 1>>
  <2>1. CASE inCur
    <3>1. curBuf = SubSeq(placed, 1, cur.sz)
      BY <2>1
    <3> HIDE DEF curBuf
    <3>2. /\ curBuf \in Seq(Byte) /\ Len(curBuf) = cur.sz - 1 + 1
          /\ \A k \in 1 .. cur.sz - 1 + 1 : curBuf[k] = placed[1 + k - 1]
      BY <3>1, <1>2, <1>9, <1>d, SubIs
    <3>3. cur.sz - 1 + 1 = cur.sz
      BY <1>2
    <3>4. ASSUME NEW k \in 1 .. cur.sz PROVE curBuf[k] = <<m, cur.off + k - 1>>
      <4>1. 1 + k - 1 = k
        OBVIOUS
      <4>2. curBuf[k] = placed[k]
        BY <3>2, <3>3, <4>1
      <4> QED
        BY <4>2, <2>1, <1>9
    <3> QED
      BY <3>2, <3>3, <3>4
  <2>2. CASE ~ inCur
    BY <2>2, <1>2
  <2> QED
    BY <2>1, <2>2
<1> HIDE DEF curBuf
<1>11. /\ Data(f) \in Seq(Byte) /\ Len(Data(f)) = f.sz
       /\ \A k \in 1 .. f.sz : Data(f)[k] = <<m, f.off + k - 1>>
  BY DataIs
<1>12. /\ filled \in Seq(Byte) /\ Len(filled) = newSz
       /\ \A k \in 1 .. newSz : filled[k] = <<m, newOff + k - 1>>
  <2>1. CASE newOff = f.off /\ fillEnd <= fEnd
    <3> DEFINE p == Min({f.sz, fillEnd - newOff})
               piece == SubSeq(Data(f), 1, p)
    <3>1. fillEnd - newOff \in Nat /\ fillEnd - newOff <= f.sz /\ fillEnd - newOff <= newSz
      <4>1. newOff \in Int /\ newSz \in Int
        BY <1>5, <1>d
      <4>2. CASE joins
        BY <4>1, <4>2, <2>1, <1>4, <1>n, <1>a, <1>c
      <4>3. CASE ~ joins
        BY <4>1, <4>3, <2>1, <1>4, <1>n, <1>a, <1>c, <1>d
      <4> QED
        BY <4>2, <4>3
    <3>2. p = fillEnd - newOff
      BY <3>1, <1>1, OfTwo
    <3>3. filled = Copy(placed, 0, piece)
      BY <2>1 DEF fEnd
    <3> HIDE DEF p
    <3>4. p \in Nat /\ p <= f.sz /\ p <= newSz /\ p - 1 + 1 = p
      BY <3>1, <3>2
    <3>5. /\ piece \in Seq(Byte) /\ Len(piece) = p
          /\ \A k \in 1 .. p : piece[k] = Data(f)[1 + k - 1]
      <4>1. /\ piece \in Seq(Byte) /\ Len(piece) = p - 1 + 1
            /\ \A k \in 1 .. p - 1 + 1 : piece[k] = Data(f)[1 + k - 1]
        BY <3>4, <1>11, SubIs
      <4> QED
        BY <3>4, <4>1
    <3> HIDE DEF piece, filled
    <3>6. /\ filled \in Seq(Byte) /\ Len(filled) = newSz
          /\ \A k \in 1 .. newSz : filled[k] = IF k > 0 /\ k <= 0 + p
                                               THEN piece[k - 0] ELSE placed[k]
      BY <3>3, <3>4, <3>5, <1>9, CopyIs, SMTT(30)
    <3>7. ASSUME NEW k \in 1 .. newSz PROVE filled[k] = <<m, newOff + k - 1>>
      <4>0. k \in Nat \ {0}
        BY <1>d
      <4>1. CASE k <= p
        <5>1. k > 0 /\ k <= 0 + p /\ k - 0 = k /\ 1 + k - 1 = k /\ k \in 1 .. p
              /\ k \in 1 .. f.sz
          BY <4>0, <4>1, <3>4, <1>1
        <5>2. filled[k] = Data(f)[k]
          BY <5>1, <3>5, <3>6
        <5> QED
          BY <5>1, <5>2, <2>1, <1>11
      <4>2. CASE k > p
        <5>1. joins
          BY <4>0, <4>2, <3>2, <1>5, <1>a, <1>d
        <5>2. k > next.off - newOff
          BY <5>1, <4>2, <3>2, <1>a
        <5>3. filled[k] = placed[k]
          BY <4>0, <4>2, <3>4, <3>6
        <5> QED
          BY <5>1, <5>2, <5>3, <1>9
      <4> QED
        BY <4>0, <4>1, <4>2, <3>4
    <3> QED
      BY <3>6, <3>7
  <2>2. CASE newOff = f.off /\ ~ (fillEnd <= fEnd)
    <3> DEFINE piece == SubSeq(curBuf, skip + 1, cur.sz)
               mid == Copy(placed, f.sz, piece)
    <3>1. filled = Copy(mid, 0, Data(f))
      BY <2>2 DEF fEnd
    <3>2. ~ joins /\ newOff + newSz = curEnd /\ fEnd < curEnd
      BY <2>2, <1>4, <1>5, <1>6, <1>a, <1>c, <1>d
    <3>3. /\ skip \in Nat /\ skip <= cur.sz /\ cur.sz - skip \in Nat
          /\ f.sz + (cur.sz - skip) = newSz
          /\ cur.sz - (skip + 1) + 1 = cur.sz - skip
          /\ cur.off + skip = f.off + f.sz
      <4>1. newOff \in Int /\ newSz \in Int
        BY <1>5, <1>d
      <4>2. skip = fEnd - cur.off /\ fEnd = f.off + f.sz /\ curEnd = cur.off + cur.sz
            /\ cur.off <= fEnd /\ newOff = f.off
        BY <2>2, <1>4, <1>n, <1>a
      <4>3. cur.off \in Nat /\ cur.sz \in Nat /\ f.off \in Nat /\ f.sz \in Nat
        BY <1>n
      <4> HIDE DEF skip, fEnd, curEnd, newOff, newSz
      <4>4. skip \in Nat /\ skip <= cur.sz
        BY <4>2, <4>3, <3>2
      <4>5. f.sz + (cur.sz - skip) = newSz
        BY <4>1, <4>2, <4>3, <4>4, <3>2
      <4> QED
        BY <4>2, <4>3, <4>4, <4>5
    <3>4. /\ piece \in Seq(Byte) /\ Len(piece) = cur.sz - skip
          /\ \A k \in 1 .. cur.sz - skip : piece[k] = curBuf[(skip + 1) + k - 1]
      <4>1. skip + 1 \in Nat \ {0} /\ skip + 1 <= cur.sz + 1
        BY <3>3, <1>2
      <4>2. /\ piece \in Seq(Byte) /\ Len(piece) = cur.sz - (skip + 1) + 1
            /\ \A k \in 1 .. cur.sz - (skip + 1) + 1 :
                 piece[k] = curBuf[(skip + 1) + k - 1]
        BY <4>1, <1>2, <1>10, SubIs
      <4> QED
        BY <4>2, <3>3
    <3> HIDE DEF piece
    <3>5. /\ mid \in Seq(Byte) /\ Len(mid) = newSz
          /\ \A k \in 1 .. newSz : mid[k] = IF k > f.sz /\ k <= f.sz + Len(piece)
                                            THEN piece[k - f.sz] ELSE placed[k]
      <4>1. placed \in Seq(Byte) /\ Len(placed) = newSz /\ f.sz \in Nat
        BY <1>1, <1>9
      <4>2. f.sz + Len(piece) <= Len(placed)
        BY <4>1, <3>3, <3>4, <1>d
      <4>3. /\ mid \in Seq(Byte) /\ Len(mid) = Len(placed)
            /\ \A k \in 1 .. Len(placed) :
                 mid[k] = IF k > f.sz /\ k <= f.sz + Len(piece)
                          THEN piece[k - f.sz] ELSE placed[k]
        BY <4>1, <4>2, <3>4, CopyIs
      <4> QED
        BY <4>1, <4>3
    <3> HIDE DEF mid, filled
    <3>6. 0 + f.sz <= newSz
      <4>1. newSz \in Int
        BY <1>d
      <4> QED
        BY <4>1, <3>3, <1>n
    <3>7. /\ filled \in Seq(Byte) /\ Len(filled) = newSz
          /\ \A k \in 1 .. newSz : filled[k] = IF k > 0 /\ k <= 0 + f.sz
                                               THEN Data(f)[k - 0] ELSE mid[k]
      BY <3>1, <3>5, <3>6, <1>11, CopyIs
    <3>8. ASSUME NEW k \in 1 .. newSz PROVE filled[k] = <<m, newOff + k - 1>>
      <4>0. k \in Nat \ {0} /\ k <= newSz
        BY <1>d
      <4>1. CASE k <= f.sz
        <5>1. k > 0 /\ k <= 0 + f.sz /\ k - 0 = k /\ k \in 1 .. f.sz
          BY <4>0, <4>1, <1>1
        <5>2. filled[k] = Data(f)[k]
          BY <5>1, <3>7
        <5> QED
          BY <5>1, <5>2, <2>2, <1>11
      <4>2. CASE k > f.sz
        <5> DEFINE j == k - f.sz
        <5>1. j \in 1 .. cur.sz - skip /\ ~ (k <= 0 + f.sz) /\ k <= f.sz + Len(piece)
          BY <4>0, <4>2, <3>3, <3>4, <1>1
        <5>2. (skip + 1) + j - 1 = skip + j /\ skip + j \in 1 .. cur.sz
          <6> HIDE DEF j
          <6>1. j \in Int /\ 1 <= j /\ j <= cur.sz - skip /\ skip \in Nat
            BY <5>1, <3>3
          <6>2. cur.sz \in Nat
            BY <1>n
          <6> HIDE DEF skip
          <6> QED
            BY <6>1, <6>2
        <5>3. cur.off + (skip + j) - 1 = newOff + k - 1
          <6>1. newOff = f.off /\ j = k - f.sz
            BY <2>2, <1>4, <1>n, <1>a
          <6>2. cur.off + skip = f.off + f.sz /\ skip \in Nat
            BY <3>3
          <6>3. k \in Int /\ cur.off \in Int /\ f.off \in Int /\ f.sz \in Int
            BY <4>0, <1>n
          <6> HIDE DEF j, skip, newOff
          <6> QED
            BY <6>1, <6>2, <6>3
        <5>4. filled[k] = piece[j]
          BY <5>1, <4>2, <3>5, <3>7
        <5> HIDE DEF j
        <5>5. piece[j] = curBuf[skip + j]
          BY <5>1, <5>2, <3>4
        <5>6. curBuf[skip + j] = <<m, cur.off + (skip + j) - 1>>
          BY <5>2, <1>10
        <5> QED
          BY <5>3, <5>4, <5>5, <5>6
      <4>3. k <= f.sz \/ k > f.sz
        BY <4>0, <1>1
      <4> QED
        BY <4>1, <4>2, <4>3
    <3> QED
      BY <3>7, <3>8
  <2>3. CASE newOff # f.off
    <3> DEFINE from == curEnd - f.off + 1
               to == fillEnd - f.off
               piece == SubSeq(Data(f), from, to)
               mid == Copy(placed, 0, curBuf)
               p == fillEnd - curEnd
    <3>1. filled = Copy(mid, cur.sz, piece)
      BY <2>3 DEF fEnd
    <3>2. newOff = cur.off /\ cur.off < f.off /\ curEnd < fEnd
      BY <2>3, <1>1, <1>2, <1>4, <1>5
    <3>3. fillEnd \in Nat /\ curEnd <= fillEnd /\ fillEnd <= fEnd /\ fillEnd <= newOff + newSz
          /\ (~ joins => fillEnd = newOff + newSz)
      <4>1. newOff \in Int /\ newSz \in Int
        BY <1>5, <1>d
      <4>2. CASE joins
        BY <4>1, <4>2, <3>2, <1>4, <1>n, <1>a, <1>c
      <4>3. CASE ~ joins
        BY <4>1, <4>3, <3>2, <1>4, <1>n, <1>a, <1>c
      <4> QED
        BY <4>2, <4>3
    <3>4. /\ from \in Nat \ {0} /\ to \in Nat /\ from <= to + 1 /\ to <= f.sz
          /\ to - from + 1 = p /\ p \in Nat /\ cur.sz + p <= newSz
          /\ cur.sz + p = fillEnd - newOff
      <4>1. newOff \in Int /\ newSz \in Int
        BY <1>5, <1>d
      <4> QED
        BY <4>1, <3>2, <3>3, <1>4, <1>n
    <3>5. from = curEnd - f.off + 1
      OBVIOUS
    <3> HIDE DEF from, to, p
    <3>6. /\ piece \in Seq(Byte) /\ Len(piece) = p
          /\ \A k \in 1 .. p : piece[k] = Data(f)[from + k - 1]
      <4>1. /\ piece \in Seq(Byte) /\ Len(piece) = to - from + 1
            /\ \A k \in 1 .. to - from + 1 : piece[k] = Data(f)[from + k - 1]
        BY <3>4, <1>11, SubIs
      <4> QED
        BY <3>4, <4>1
    <3> HIDE DEF piece
    <3>7. /\ mid \in Seq(Byte) /\ Len(mid) = newSz
          /\ \A k \in 1 .. newSz : mid[k] = IF k > 0 /\ k <= 0 + cur.sz
                                            THEN curBuf[k - 0] ELSE placed[k]
      <4>1. 0 + Len(curBuf) <= Len(placed)
        BY <1>2, <1>9, <1>10, <1>d
      <4> QED
        BY <4>1, <1>9, <1>10, CopyIs
    <3> HIDE DEF mid, filled
    <3>8. /\ filled \in Seq(Byte) /\ Len(filled) = newSz
          /\ \A k \in 1 .. newSz : filled[k] = IF k > cur.sz /\ k <= cur.sz + p
                                               THEN piece[k - cur.sz] ELSE mid[k]
      <4>1. mid \in Seq(Byte) /\ piece \in Seq(Byte) /\ cur.sz \in Nat
            /\ cur.sz + Len(piece) <= Len(mid) /\ Len(mid) = newSz /\ Len(piece) = p
        BY <3>4, <3>6, <3>7, <1>2
      <4>2. /\ filled \in Seq(Byte) /\ Len(filled) = Len(mid)
            /\ \A k \in 1 .. Len(mid) :
                 filled[k] = IF k > cur.sz /\ k <= cur.sz + Len(piece)
                             THEN piece[k - cur.sz] ELSE mid[k]
        BY <4>1, <3>1, CopyIs
      <4> QED
        BY <4>1, <4>2
    <3>9. ASSUME NEW k \in 1 .. newSz PROVE filled[k] = <<m, newOff + k - 1>>
      <4>0. k \in Nat \ {0} /\ k <= newSz
        BY <1>d
      <4>1. CASE k <= cur.sz
        <5>1. k > 0 /\ k <= 0 + cur.sz /\ k - 0 = k /\ k \in 1 .. cur.sz
              /\ ~ (k > cur.sz)
          BY <4>0, <4>1, <1>2
        <5>2. filled[k] = curBuf[k]
          BY <5>1, <3>7, <3>8
        <5> QED
          BY <5>1, <5>2, <3>2, <1>10
      <4>2. CASE k > cur.sz /\ k <= cur.sz + p
        <5> DEFINE j == k - cur.sz
        <5>1. j \in 1 .. p
          BY <4>0, <4>2, <3>4, <1>2
        <5>2. from + j - 1 \in 1 .. f.sz
          BY <5>1, <3>4, <1>1
        <5>3. f.off + (from + j - 1) - 1 = newOff + k - 1
          <6>1. j = k - cur.sz /\ j \in Int /\ from \in Int
            BY <5>1, <3>4, <4>0, <1>n
          <6> HIDE DEF j
          <6> QED
            BY <6>1, <4>0, <3>2, <3>5, <1>n
        <5>4. filled[k] = piece[j]
          BY <4>2, <3>8
        <5> HIDE DEF j
        <5>5. piece[j] = Data(f)[from + j - 1]
          BY <5>1, <3>6
        <5>6. Data(f)[from + j - 1] = <<m, f.off + (from + j - 1) - 1>>
          BY <5>2, <1>11
        <5> QED
          BY <5>3, <5>4, <5>5, <5>6
      <4>3. CASE k > cur.sz + p
        <5>1. joins
          BY <4>0, <4>3, <3>3, <3>4, <1>5, <1>d
        <5>2. k > next.off - newOff
          BY <5>1, <4>3, <3>4, <1>a
        <5>3. ~ (k <= cur.sz + p) /\ ~ (k <= 0 + cur.sz)
          BY <4>0, <4>3, <3>4, <1>2
        <5>4. filled[k] = placed[k]
          BY <5>3, <3>7, <3>8
        <5> QED
          BY <5>1, <5>2, <5>4, <1>9
      <4>4. k <= cur.sz \/ (k > cur.sz /\ k <= cur.sz + p) \/ k > cur.sz + p
        BY <4>0, <3>4, <1>2
      <4> QED
        BY <4>1, <4>2, <4>3, <4>4
    <3> QED
      BY <3>8, <3>9
  <2> QED
    BY <2>1, <2>2, <2>3
<1> HIDE DEF filled
<1>13. RightBucket(m, [off |-> newOff, sz |-> newSz, buf |-> filled])
  BY <1>1, <1>5, <1>d, <1>12, MakesRight
<1>14. LET new == CombinedBucket(cur, next, joins, f)
       IN  new.off = newOff /\ new.sz = newSz
  BY <1>0
<1> QED
  BY <1>0, <1>5, <1>c, <1>13, <1>14 DEF nextEnd, curEnd, fEnd

-----------------------------------------------------------------------------
(***************************************************************************)
(* The buckets of an item: in order with a gap between any two, each       *)
(* holding the bytes of the message.                                       *)
(***************************************************************************)
Layout(m, b) ==
    /\ b \in Seq(BucketSet)
    /\ \A i \in 1 .. Len(b) : RightBucket(m, b[i])
    /\ \A i \in 1 .. Len(b), j \in 1 .. Len(b) :
          i < j => b[i].off + b[i].sz < b[j].off

\* The bytes of the message that some bucket holds.
Covered(b) == UNION {x.off .. x.off + x.sz - 1 : x \in Range(b)}

Inside(y, x) == x.off <= y /\ y < x.off + x.sz

\* A byte is held if it is inside a bucket.
LEMMA CoveredIs ==
    ASSUME NEW b \in Seq(BucketSet), NEW y
    PROVE  y \in Covered(b) <=>
             y \in Int /\ \E i \in 1 .. Len(b) : Inside(y, b[i])
<1>1. \A i \in 1 .. Len(b) : b[i] \in BucketSet
  OBVIOUS
<1>2. \A x \in BucketSet : y \in x.off .. x.off + x.sz - 1 <=> y \in Int /\ Inside(y, x)
  BY DEF BucketSet, Inside
<1>3. Range(b) = {b[i] : i \in 1 .. Len(b)}
  BY DEF Range
<1>4. y \in Covered(b) <=> \E i \in 1 .. Len(b) : y \in b[i].off .. b[i].off + b[i].sz - 1
  BY <1>3 DEF Covered
<1> QED
  BY <1>1, <1>2, <1>4

\* The first bucket that ends at or after the start of the fragment.
LEMMA PlaceIs ==
    ASSUME NEW b \in Seq(BucketSet), NEW f \in AnyFragment
    PROVE  LET c == PlaceOf(b, f)
           IN  /\ c \in 1 .. Len(b) + 1
               /\ \A i \in 1 .. Len(b) : i < c => b[i].off + b[i].sz < f.off
               /\ c <= Len(b) => f.off <= b[c].off + b[c].sz
<1> DEFINE at == {i \in 1 .. Len(b) : f.off <= b[i].off + b[i].sz}
           c == PlaceOf(b, f)
<1>0. Len(b) \in Nat /\ f.off \in Nat
  BY FragmentType
<1>1. \A i \in 1 .. Len(b) : b[i].off \in Nat /\ b[i].sz \in Nat
  <2>1. \A i \in 1 .. Len(b) : b[i] \in BucketSet
    OBVIOUS
  <2>2. \A x \in BucketSet : x.off \in Nat /\ x.sz \in Nat
    BY DEF BucketSet
  <2> QED
    BY <2>1, <2>2
<1>2. c = IF at = {} THEN Len(b) + 1 ELSE Min(at)
  BY DEF PlaceOf
<1>3. at \subseteq Nat /\ at \subseteq 1 .. Len(b)
  BY <1>0
<1> HIDE DEF c
<1>4. CASE at = {}
  <2>1. \A i \in 1 .. Len(b) : ~ (f.off <= b[i].off + b[i].sz)
    BY <1>4
  <2>2. c = Len(b) + 1
    BY <1>2, <1>4
  <2>3. \A i \in 1 .. Len(b) : b[i].off + b[i].sz < f.off
    BY <2>1, <1>0, <1>1
  <2> HIDE DEF at
  <2> QED
    BY <2>2, <2>3, <1>0 DEF c
<1>5. CASE at # {}
  <2>1. c \in at /\ \A y \in at : c <= y
    <3> HIDE DEF at
    <3> QED
      BY <1>2, <1>3, <1>5, MinIs
  <2>2. c \in 1 .. Len(b) /\ f.off <= b[c].off + b[c].sz
    BY <2>1
  <2>3. ASSUME NEW i \in 1 .. Len(b), i < c PROVE b[i].off + b[i].sz < f.off
    <3>1. i \notin at
      BY <2>1, <2>2, <2>3, <1>0
    <3>2. ~ (f.off <= b[i].off + b[i].sz)
      BY <3>1
    <3> QED
      BY <3>2, <1>0, <1>1
  <2> HIDE DEF at
  <2> QED
    BY <2>2, <2>3, <1>0 DEF c
<1> QED
  BY <1>4, <1>5

\* The buckets t are b with the ones from c to before rest replaced by e.
Respliced(t, m, b, c, rest, e) ==
    /\ Layout(m, t)
    /\ Len(t) = Len(b) + c - rest + 1
    /\ \A y : y \in Covered(t) <=>
         y \in Int /\ \/ Inside(y, e)
                      \/ \E i \in 1 .. Len(b) :
                           (i < c \/ i >= rest) /\ Inside(y, b[i])

\* Replacing the buckets from c to before rest by one that is right and has a gap on
\* either side keeps the layout; what is held is what the others and it hold.
LEMMA SpliceLayout ==
    ASSUME NEW m \in Messages, NEW b, Layout(m, b), NEW c \in Nat \ {0},
           NEW rest \in Nat, c <= rest, rest <= Len(b) + 1,
           NEW e, RightBucket(m, e),
           \A i \in 1 .. Len(b) : i < c => b[i].off + b[i].sz < e.off,
           \A i \in 1 .. Len(b) : i >= rest => e.off + e.sz < b[i].off
    PROVE  Respliced(Splice(b, c, rest, e), m, b, c, rest, e)
<1> DEFINE t == Splice(b, c, rest, e)
           n == Len(b)
           At(i) == i + rest - c - 1
<1>0. b \in Seq(BucketSet) /\ n \in Nat /\ e \in BucketSet
  BY DEF Layout, RightBucket
<1>1. /\ t \in Seq(BucketSet)
      /\ Len(t) = n + c - rest + 1
      /\ \A i \in 1 .. n + c - rest + 1 :
           t[i] = IF i < c THEN b[i] ELSE IF i = c THEN e ELSE b[At(i)]
  <2>1. /\ t \in Seq(BucketSet)
        /\ Len(t) = Len(b) + c - rest + 1
        /\ \A i \in 1 .. Len(b) + c - rest + 1 :
             t[i] = IF i < c THEN b[i] ELSE IF i = c THEN e ELSE b[i + rest - c - 1]
    <3> HIDE DEF n, At
    <3>1. b \in Seq(BucketSet) /\ e \in BucketSet
      BY <1>0
    <3>2. IsSplice(t, BucketSet, b, c, rest, e)
      BY <3>1, SpliceIs
    <3> QED
      BY <3>2 DEF IsSplice
  <2> HIDE DEF t
  <2> QED
    BY <2>1
<1> HIDE DEF t
<1>2. Len(t) \in Nat
  BY <1>1
<1>3. ASSUME NEW i \in 1 .. Len(t)
      PROVE  \/ i < c /\ i \in 1 .. n /\ t[i] = b[i]
             \/ i = c /\ t[i] = e
             \/ /\ i > c /\ At(i) \in 1 .. n /\ At(i) >= rest
                /\ t[i] = b[At(i)]
  <2>1. t[i] = IF i < c THEN b[i] ELSE IF i = c THEN e ELSE b[At(i)]
    BY <1>1
  <2>2. i \in Nat /\ i >= 1 /\ i <= n + c - rest + 1
    BY <1>1, <1>2
  <2>3. CASE i < c
    BY <2>1, <2>2, <2>3, <1>0
  <2>4. CASE i = c
    BY <2>1, <2>4
  <2>5. CASE i > c
    <3>1. At(i) \in 1 .. n /\ At(i) >= rest /\ ~ (i < c) /\ i # c
      BY <2>2, <2>5, <1>0
    <3> QED
      BY <2>1, <2>5, <3>1
  <2>6. i < c \/ i = c \/ i > c
    BY <2>2
  <2> QED
    BY <2>3, <2>4, <2>5, <2>6
<1>4. \A i \in 1 .. n : RightBucket(m, b[i])
  BY DEF Layout
<1>5. \A i \in 1 .. n, j \in 1 .. n : i < j => b[i].off + b[i].sz < b[j].off
  BY DEF Layout
<1>6. ASSUME NEW i \in 1 .. Len(t) PROVE RightBucket(m, t[i])
  BY <1>3, <1>4
<1>7. ASSUME NEW i \in 1 .. Len(t), NEW j \in 1 .. Len(t), i < j
      PROVE  t[i].off + t[i].sz < t[j].off
  <2>0. i \in Nat /\ j \in Nat
    BY <1>2
  <2>1. CASE i < c /\ j < c
    <3>1. i \in 1 .. n /\ j \in 1 .. n /\ t[i] = b[i] /\ t[j] = b[j]
      BY <2>0, <2>1, <1>3
    <3> QED
      BY <3>1, <1>5, <1>7
  <2>2. CASE i < c /\ j = c
    <3>1. i \in 1 .. n /\ t[i] = b[i] /\ t[j] = e
      BY <2>0, <2>2, <1>3
    <3> QED
      BY <3>1, <2>2
  <2>3. CASE i < c /\ j > c
    <3>1. i \in 1 .. n /\ t[i] = b[i] /\ At(j) \in 1 .. n /\ At(j) >= rest
          /\ t[j] = b[At(j)]
      BY <2>0, <2>3, <1>3
    <3>2. i < At(j)
      BY <2>0, <2>3, <3>1
    <3> HIDE DEF At
    <3> QED
      BY <3>1, <3>2, <1>5
  <2>4. CASE i = c /\ j > c
    <3>1. t[i] = e /\ At(j) \in 1 .. n /\ At(j) >= rest /\ t[j] = b[At(j)]
      BY <2>0, <2>4, <1>3
    <3> HIDE DEF At
    <3> QED
      BY <3>1
  <2>5. CASE i > c /\ j > c
    <3>1. At(i) \in 1 .. n /\ t[i] = b[At(i)] /\ At(j) \in 1 .. n /\ t[j] = b[At(j)]
      BY <2>0, <2>5, <1>3
    <3>2. At(i) < At(j)
      BY <2>0, <1>7
    <3> HIDE DEF At
    <3> QED
      BY <3>1, <3>2, <1>5
  <2>6. \/ i < c /\ (j < c \/ j = c \/ j > c)
        \/ (i = c \/ i > c) /\ j > c
    BY <2>0, <1>7
  <2> QED
    BY <2>1, <2>2, <2>3, <2>4, <2>5, <2>6
<1>8. Layout(m, t)
  BY <1>1, <1>6, <1>7 DEF Layout
<1>9. ASSUME NEW y
      PROVE  (\E i \in 1 .. Len(t) : Inside(y, t[i])) <=>
               \/ Inside(y, e)
               \/ \E i \in 1 .. n : (i < c \/ i >= rest) /\ Inside(y, b[i])
  <2>1. ASSUME NEW i \in 1 .. Len(t), Inside(y, t[i])
        PROVE  \/ Inside(y, e)
               \/ \E k \in 1 .. n : (k < c \/ k >= rest) /\ Inside(y, b[k])
    <3> HIDE DEF At
    <3> QED
      BY <2>1, <1>3
  <2>2. ASSUME Inside(y, e) PROVE \E i \in 1 .. Len(t) : Inside(y, t[i])
    <3>1. c \in 1 .. Len(t) /\ ~ (c < c)
      BY <1>0, <1>1
    <3>2. t[c] = e
      BY <3>1, <1>1
    <3> QED
      BY <3>1, <3>2, <2>2
  <2>3. ASSUME NEW k \in 1 .. n, k < c, Inside(y, b[k])
        PROVE  \E i \in 1 .. Len(t) : Inside(y, t[i])
    <3>1. k \in 1 .. Len(t)
      BY <2>3, <1>0, <1>1
    <3>2. t[k] = b[k]
      BY <3>1, <2>3, <1>1
    <3> QED
      BY <3>1, <3>2, <2>3
  <2>4. ASSUME NEW k \in 1 .. n, k >= rest, Inside(y, b[k])
        PROVE  \E i \in 1 .. Len(t) : Inside(y, t[i])
    <3> DEFINE i == k - rest + c + 1
    <3>1. i \in 1 .. Len(t) /\ ~ (i < c) /\ i # c /\ At(i) = k
      BY <2>4, <1>0, <1>1
    <3> HIDE DEF i
    <3>2. t[i] = b[At(i)]
      BY <3>1, <1>1
    <3> QED
      BY <3>1, <3>2, <2>4
  <2> QED
    BY <2>1, <2>2, <2>3, <2>4
<1>10. ASSUME NEW y
       PROVE  y \in Covered(t) <=>
                y \in Int /\ \/ Inside(y, e)
                             \/ \E i \in 1 .. n :
                                  (i < c \/ i >= rest) /\ Inside(y, b[i])
  BY <1>1, <1>9, CoveredIs
<1> QED
  BY <1>1, <1>8, <1>10 DEF t, Respliced

-----------------------------------------------------------------------------
(***************************************************************************)
(* Counting the bytes in the buckets.                                      *)
(***************************************************************************)
InBucket(x) == {y \in Int : Inside(y, x)}

\* The bytes in the buckets from c to i.
Part(b, c, i) == {y \in Int : \E j \in c .. i : Inside(y, b[j])}

\* Two finite sets with nothing in common.
LEMMA Together ==
    ASSUME NEW S, NEW T, IsFiniteSet(S), IsFiniteSet(T), \A y \in S : y \notin T
    PROVE  Cardinality(S \cup T) = Cardinality(S) + Cardinality(T)
<1>1. S \cap T = {}
  OBVIOUS
<1>2. Cardinality(S \cap T) = 0
  BY <1>1, FS_EmptySet
<1>3. Cardinality(S \cup T) = Cardinality(S) + Cardinality(T) - Cardinality(S \cap T)
  BY FS_Union
<1>4. Cardinality(S) \in Nat /\ Cardinality(T) \in Nat
  BY FS_CardinalityType
<1> QED
  BY <1>2, <1>3, <1>4

\* A bucket holds as many bytes as its size says.
LEMMA BucketCount ==
    ASSUME NEW x \in BucketSet
    PROVE  IsFiniteSet(InBucket(x)) /\ Cardinality(InBucket(x)) = x.sz
<1>1. x.off \in Nat /\ x.sz \in Nat
  BY DEF BucketSet
<1> DEFINE a == x.off
           z == x.off + x.sz - 1
<1>2. a \in Int /\ z \in Int /\ (IF a > z THEN 0 ELSE z - a + 1) = x.sz
  BY <1>1
<1>3. InBucket(x) = a .. z
  BY <1>1 DEF InBucket, Inside
<1> HIDE DEF a, z
<1> QED
  BY <1>2, <1>3, FS_Interval

\* The bytes held are bytes of the message.
LEMMA CoveredFinite ==
    ASSUME NEW m \in Messages, NEW b, Layout(m, b)
    PROVE  /\ Covered(b) \subseteq 0 .. LengthOf[m] - 1
           /\ IsFiniteSet(Covered(b))
           /\ Cardinality(Covered(b)) \in Nat /\ Cardinality(Covered(b)) <= LengthOf[m]
           /\ Cardinality(Covered(b)) = LengthOf[m] => Covered(b) = 0 .. LengthOf[m] - 1
<1> DEFINE n == LengthOf[m]
           W == 0 .. n - 1
<1>1. n \in Nat /\ b \in Seq(BucketSet)
  BY MessageType DEF Layout
<1>2. ASSUME NEW y \in Covered(b)
      PROVE  y \in W
  <2>1. PICK i \in 1 .. Len(b) : Inside(y, b[i]) /\ y \in Int
    BY <1>1, CoveredIs
  <2>2. RightBucket(m, b[i])
    BY <2>1 DEF Layout
  <2>3. b[i].off \in Nat /\ b[i].sz \in Nat /\ b[i].off + b[i].sz <= n
    BY <2>2, RightIs
  <2> QED
    BY <1>1, <2>1, <2>3 DEF Inside
<1>3. IsFiniteSet(W) /\ Cardinality(W) = n
  <2>1. 0 \in Int /\ n - 1 \in Int /\ (IF 0 > n - 1 THEN 0 ELSE (n - 1) - 0 + 1) = n
    BY <1>1
  <2> QED
    BY <2>1, FS_Interval
<1> HIDE DEF W, n
<1>4. Covered(b) \in SUBSET W
  BY <1>2
<1>5. IsFiniteSet(Covered(b)) /\ Cardinality(Covered(b)) \in Nat
  BY <1>3, <1>4, FS_Subset, FS_CardinalityType
<1>6. /\ Cardinality(Covered(b)) <= n
      /\ Cardinality(Covered(b)) = n => Covered(b) = W
  BY <1>3, <1>4, FS_Subset
<1> QED
  BY <1>4, <1>5, <1>6 DEF W, n

\* A part of the buckets is finite.
LEMMA PartFinite ==
    ASSUME NEW m \in Messages, NEW b, Layout(m, b), NEW c \in Nat \ {0},
           NEW i \in Int, i <= Len(b)
    PROVE  IsFiniteSet(Part(b, c, i)) /\ Cardinality(Part(b, c, i)) \in Nat
<1>1. b \in Seq(BucketSet) /\ Len(b) \in Nat
  BY DEF Layout
<1>2. \A j \in c .. i : j \in 1 .. Len(b)
  BY <1>1
<1>3. Part(b, c, i) \in SUBSET Covered(b)
  BY <1>1, <1>2, CoveredIs DEF Part
<1>4. IsFiniteSet(Covered(b))
  BY CoveredFinite
<1> QED
  BY <1>3, <1>4, FS_Subset, FS_CardinalityType

\* One more bucket adds its size.
LEMMA PartStep ==
    ASSUME NEW m \in Messages, NEW b, Layout(m, b), NEW c \in Nat \ {0},
           NEW i \in c .. Len(b)
    PROVE  Cardinality(Part(b, c, i)) = Cardinality(Part(b, c, i - 1)) + b[i].sz
<1>1. b \in Seq(BucketSet) /\ Len(b) \in Nat
  BY DEF Layout
<1>2. /\ i \in 1 .. Len(b) /\ i - 1 \in Int /\ i - 1 <= Len(b)
      /\ c .. i = (c .. i - 1) \cup {i}
  BY <1>1
<1>3. b[i] \in BucketSet
  BY <1>1, <1>2
<1>4. Part(b, c, i) = Part(b, c, i - 1) \cup InBucket(b[i])
  BY <1>2 DEF Part, InBucket
<1>5. ASSUME NEW y \in Part(b, c, i - 1)
      PROVE  y \notin InBucket(b[i])
  <2>1. PICK j \in c .. i - 1 : Inside(y, b[j]) /\ y \in Int
    BY DEF Part
  <2>2. j \in 1 .. Len(b) /\ j < i
    BY <1>1, <1>2, <2>1
  <2>3. b[j].off + b[j].sz < b[i].off /\ b[j] \in BucketSet
    BY <1>1, <1>2, <2>2 DEF Layout
  <2>4. b[j].off \in Nat /\ b[j].sz \in Nat /\ b[i].off \in Nat
    BY <1>3, <2>3 DEF BucketSet
  <2> QED
    BY <2>1, <2>3, <2>4 DEF InBucket, Inside
<1>6. IsFiniteSet(Part(b, c, i - 1)) /\ IsFiniteSet(InBucket(b[i]))
  BY <1>2, <1>3, PartFinite, BucketCount
<1>7. Cardinality(Part(b, c, i)) = Cardinality(Part(b, c, i - 1)) + Cardinality(InBucket(b[i]))
  BY <1>4, <1>5, <1>6, Together
<1> QED
  BY <1>3, <1>7, BucketCount

\* overlapSz is the number of bytes in the buckets that are merged.
LEMMA OverlapIs ==
    ASSUME NEW m \in Messages, NEW b, Layout(m, b), NEW c \in Nat \ {0},
           NEW rest \in Nat, c < rest, rest <= Len(b) + 1
    PROVE  Overlap(b, c, rest) = Cardinality(Part(b, c, rest - 1))
<1> DEFINE I == c .. rest - 1
           g == [i \in I |-> Cardinality(Part(b, c, i))]
           IsSum(f) == f = [i \in I |-> IF i = c THEN b[c].sz ELSE f[i - 1] + b[i].sz]
           sum == CHOOSE f : IsSum(f)
<1>0. Len(b) \in Nat /\ b \in Seq(BucketSet)
  BY DEF Layout
<1>1. Overlap(b, c, rest) = sum[rest - 1]
  BY Zenon DEF Overlap
<1>2. ASSUME NEW i \in I
      PROVE  /\ i \in c .. Len(b) /\ i \in Nat /\ (i # c => i - 1 \in I)
             /\ Cardinality(Part(b, c, i)) = Cardinality(Part(b, c, i - 1)) + b[i].sz
  <2>1. i \in c .. Len(b) /\ i \in Nat /\ (i # c => i - 1 \in I)
    BY <1>0
  <2> QED
    BY <2>1, PartStep
<1>3. Cardinality(Part(b, c, c)) = b[c].sz
  <2>1. Part(b, c, c - 1) = {}
    BY DEF Part
  <2>2. Cardinality(Part(b, c, c - 1)) = 0
    BY <2>1, FS_EmptySet
  <2>3. c \in I /\ c \in 1 .. Len(b)
    BY <1>0
  <2>4. b[c].sz \in Nat
    <3>1. b[c] \in BucketSet
      BY <1>0, <2>3
    <3> QED
      BY <3>1 DEF BucketSet
  <2> QED
    BY <1>2, <2>2, <2>3, <2>4
<1>4. IsSum(g)
  <2>1. \A i \in I : g[i] = IF i = c THEN b[c].sz ELSE g[i - 1] + b[i].sz
    BY <1>2, <1>3
  <2>2. g = [i \in I |-> g[i]]
    OBVIOUS
  <2> HIDE DEF g, I
  <2> QED
    BY <2>1, <2>2
<1>5. IsSum(sum)
  <2> HIDE DEF IsSum
  <2> QED
    BY <1>4
<1> HIDE DEF sum
<1>6. \A i \in I : sum[i] = IF i = c THEN b[c].sz ELSE sum[i - 1] + b[i].sz
  <2> HIDE DEF I
  <2> QED
    BY <1>5
<1> DEFINE B == {i \in I : sum[i] # Cardinality(Part(b, c, i))}
<1>7. B = {}
  <2> SUFFICES ASSUME B # {} PROVE FALSE
    OBVIOUS
  <2>1. B \subseteq Nat
    BY <1>2
  <2>2. Min(B) \in B /\ \A y \in B : Min(B) <= y
    <3> HIDE DEF B
    <3> QED
      BY <2>1, MinIs
  <2> DEFINE k == Min(B)
  <2> HIDE DEF k
  <2>3. k \in B /\ k \in I /\ k \in Nat /\ \A y \in B : k <= y
    BY <1>2, <2>2 DEF k
  <2>4. k # c
    BY <1>3, <1>6, <2>3
  <2>5. k - 1 \in I /\ k - 1 \notin B
    BY <1>2, <2>3, <2>4
  <2>6. sum[k - 1] = Cardinality(Part(b, c, k - 1))
    BY <2>5
  <2> QED
    BY <1>2, <1>6, <2>3, <2>4, <2>6
<1>8. rest - 1 \in I
  OBVIOUS
<1> QED
  BY <1>1, <1>7, <1>8

\* Ranges with a gap between them have no number in common.
LEMMA Disjoined ==
    \A k, n, l, o \in Nat, z \in Int :
        /\ k + n < l \/ l + o < k
        /\ k <= z /\ z < k + n
        => ~ (l <= z /\ z < l + o)
OBVIOUS

\* How a splice changes the number of bytes held.
LEMMA SpliceCount ==
    ASSUME NEW m \in Messages, NEW b, Layout(m, b), NEW c \in Nat \ {0},
           NEW rest \in Nat, c <= rest, rest <= Len(b) + 1,
           NEW e, RightBucket(m, e),
           \A i \in 1 .. Len(b) : i < c => b[i].off + b[i].sz < e.off,
           \A i \in 1 .. Len(b) : i >= rest => e.off + e.sz < b[i].off,
           NEW t, Respliced(t, m, b, c, rest, e)
    PROVE  Cardinality(Covered(t))
             = Cardinality(Covered(b)) + e.sz - Cardinality(Part(b, c, rest - 1))
<1> DEFINE O == {y \in Int : \E i \in 1 .. Len(b) :
                               (i < c \/ i >= rest) /\ Inside(y, b[i])}
           P == Part(b, c, rest - 1)
<1>0. /\ b \in Seq(BucketSet) /\ Len(b) \in Nat /\ e \in BucketSet
      /\ \A i \in 1 .. Len(b) : b[i] \in BucketSet
  BY DEF Layout, RightBucket
<1>1. \A x \in BucketSet : x.off \in Nat /\ x.sz \in Nat
  BY DEF BucketSet
<1>2. \A y : y \in Covered(t) <=> y \in O \/ y \in InBucket(e)
  BY DEF Respliced, InBucket
<1>3. \A y : y \in Covered(b) <=> y \in O \/ y \in P
  <2>1. \A i : i \in 1 .. Len(b) /\ ~ (i < c \/ i >= rest) <=> i \in c .. rest - 1
    BY <1>0
  <2> QED
    BY <1>0, <2>1, CoveredIs DEF Part
<1>4. ASSUME NEW y \in O
      PROVE  y \notin InBucket(e) /\ y \notin P
  <2>1. PICK i \in 1 .. Len(b) : (i < c \/ i >= rest) /\ Inside(y, b[i]) /\ y \in Int
    OBVIOUS
  <2> HIDE DEF O
  <2>2. /\ b[i].off \in Nat /\ b[i].sz \in Nat /\ e.off \in Nat /\ e.sz \in Nat
        /\ i \in Nat
    BY <1>0, <1>1
  <2>3. y \notin InBucket(e)
    <3>1. b[i].off + b[i].sz < e.off \/ e.off + e.sz < b[i].off
      BY <2>1
    <3>2. b[i].off <= y /\ y < b[i].off + b[i].sz /\ y \in Int
      BY <2>1 DEF Inside
    <3>3. ~ (e.off <= y /\ y < e.off + e.sz)
      BY <2>2, <3>1, <3>2, Disjoined, Zenon
    <3> QED
      BY <2>2, <3>2, <3>3 DEF InBucket, Inside
  <2>4. ASSUME NEW j \in c .. rest - 1, Inside(y, b[j])
        PROVE  FALSE
    <3>1. j \in 1 .. Len(b) /\ j \in Nat /\ c <= j /\ j < rest
      BY <1>0
    <3>2. b[j].off \in Nat /\ b[j].sz \in Nat
      BY <1>0, <1>1, <3>1
    <3>3. i < j \/ j < i
      BY <2>1, <2>2, <3>1
    <3>4. b[i].off + b[i].sz < b[j].off \/ b[j].off + b[j].sz < b[i].off
      BY <2>1, <3>1, <3>3 DEF Layout
    <3>5. /\ b[i].off <= y /\ y < b[i].off + b[i].sz
          /\ b[j].off <= y /\ y < b[j].off + b[j].sz
      BY <2>1, <2>4 DEF Inside
    <3>6. y \in Int
      BY <2>1
    <3> QED
      BY <2>2, <3>2, <3>4, <3>5, <3>6, Disjoined, Zenon
  <2> QED
    BY <2>3, <2>4 DEF Part
<1> HIDE DEF O
<1>5. IsFiniteSet(InBucket(e)) /\ Cardinality(InBucket(e)) = e.sz
  BY <1>0, BucketCount
<1>6. IsFiniteSet(P) /\ Cardinality(P) \in Nat
  <2>1. rest - 1 \in Int /\ rest - 1 <= Len(b)
    BY <1>0
  <2> QED
    BY <2>1, PartFinite
<1>7. IsFiniteSet(O) /\ Cardinality(O) \in Nat
  <2>1. O \in SUBSET Covered(b) /\ IsFiniteSet(Covered(b))
    BY <1>3, CoveredFinite
  <2> QED
    BY <2>1, FS_Subset, FS_CardinalityType
<1> HIDE DEF P
<1>8. Covered(t) = O \cup InBucket(e) /\ Covered(b) = O \cup P
  BY <1>2, <1>3
<1>9. /\ Cardinality(O \cup InBucket(e)) = Cardinality(O) + Cardinality(InBucket(e))
      /\ Cardinality(O \cup P) = Cardinality(O) + Cardinality(P)
  BY <1>4, <1>5, <1>6, <1>7, Together
<1>10. e.sz \in Nat
  BY <1>0, <1>1
<1>11. Cardinality(Covered(t)) = Cardinality(O) + e.sz
  BY <1>5, <1>8, <1>9
<1>12. Cardinality(Covered(b)) = Cardinality(O) + Cardinality(P)
  BY <1>8, <1>9
<1>13. Cardinality(Covered(t)) = Cardinality(Covered(b)) + e.sz - Cardinality(P)
  BY <1>6, <1>7, <1>10, <1>11, <1>12
<1> QED
  BY <1>13 DEF P

\* Buckets that hold the whole message are one bucket.
LEMMA WholeCovered ==
    ASSUME NEW m \in Messages, NEW b, Layout(m, b), Len(b) >= 1,
           Cardinality(Covered(b)) = LengthOf[m]
    PROVE  Len(b) = 1 /\ b[1].off = 0 /\ b[1].sz = LengthOf[m]
<1> DEFINE n == LengthOf[m]
<1>1. /\ b \in Seq(BucketSet) /\ Len(b) \in Nat /\ n \in Nat
      /\ \A i \in 1 .. Len(b) : RightBucket(m, b[i])
      /\ \A i \in 1 .. Len(b), j \in 1 .. Len(b) :
            i < j => b[i].off + b[i].sz < b[j].off
  BY MessageType DEF Layout
<1>2. \A i \in 1 .. Len(b) : /\ b[i].off \in Nat /\ b[i].sz \in Nat
                             /\ b[i].off + b[i].sz <= n
  BY <1>1, RightIs
<1>3. \A y : y \in 0 .. n - 1 => \E i \in 1 .. Len(b) : Inside(y, b[i])
  BY <1>1, CoveredFinite, CoveredIs
<1> HIDE DEF n
<1>4. 1 \in 1 .. Len(b)
  BY <1>1
<1> DEFINE z == b[1].off + b[1].sz
<1>5. \A i \in 1 .. Len(b) : i # 1 => z < b[i].off
  <2>1. \A i \in 1 .. Len(b) : i # 1 => 1 < i
    BY <1>1
  <2> QED
    BY <1>1, <1>4, <2>1
<1>6. z \in Nat /\ z <= n /\ b[1].off \in Nat /\ b[1].sz \in Nat
  BY <1>2, <1>4
<1>7. ~ Inside(z, b[1]) /\ (b[1].off # 0 => ~ Inside(0, b[1]))
  BY <1>6 DEF Inside
<1> HIDE DEF z
<1>8. z = n
  <2> SUFFICES ASSUME z # n PROVE FALSE
    OBVIOUS
  <2>1. z \in 0 .. n - 1
    BY <1>1, <1>6
  <2>2. PICK i \in 1 .. Len(b) : Inside(z, b[i])
    BY <1>3, <2>1
  <2>3. i # 1 /\ z < b[i].off /\ b[i].off \in Nat
    BY <1>2, <1>5, <1>7, <2>2
  <2> QED
    BY <1>6, <2>2, <2>3 DEF Inside
<1>9. Len(b) = 1
  <2> SUFFICES ASSUME Len(b) # 1 PROVE FALSE
    OBVIOUS
  <2> DEFINE k == Len(b)
  <2>0. k \in Nat /\ k >= 1 /\ k # 1
    BY <1>1
  <2> HIDE DEF k
  <2>1. 2 \in 1 .. k
    BY <2>0
  <2>2. z < b[2].off /\ b[2].off \in Nat /\ b[2].sz \in Nat /\ b[2].off + b[2].sz <= n
    BY <1>2, <1>5, <2>1 DEF k
  <2> QED
    BY <1>6, <1>8, <2>2
<1>10. b[1].off = 0
  <2> SUFFICES ASSUME b[1].off # 0 PROVE FALSE
    OBVIOUS
  <2>1. 0 \in 0 .. n - 1
    BY <1>1, <1>6, <1>8 DEF z
  <2>2. PICK i \in 1 .. Len(b) : Inside(0, b[i])
    BY <1>3, <2>1
  <2> QED
    BY <1>7, <1>9, <2>2
<1> QED
  BY <1>6, <1>8, <1>9, <1>10 DEF z, n

-----------------------------------------------------------------------------
(***************************************************************************)
(* Items: what a fragment makes of one (DtlsMsgSet).                       *)
(***************************************************************************)
IsItem(it) == it = [seq |-> it.seq, buckets |-> it.buckets, received |-> it.received,
                    ready |-> it.ready, full |-> it.full]

\* bytesReceived is the number of bytes in the buckets.
Counted(it) == it.received = Cardinality(Covered(it.buckets))

\* The same item with other buckets.
Rebucketed(new, it, b) ==
    /\ IsItem(new) /\ new.seq = it.seq /\ new.buckets = b
    /\ new.ready = it.ready /\ new.full = it.full

\* Storing buckets and a count changes nothing else.
LEMMA StoredItem ==
    ASSUME NEW it, IsItem(it), NEW b, NEW n
    PROVE  /\ Rebucketed([it EXCEPT !.buckets = b, !.received = n], it, b)
           /\ [it EXCEPT !.buckets = b, !.received = n].received = n
<1> DEFINE new == [it EXCEPT !.buckets = b, !.received = n]
<1>1. new \in [seq : {it.seq}, buckets : {b}, received : {n},
               ready : {it.ready}, full : {it.full}]
  BY DEF IsItem
<1> HIDE DEF new
<1>2. new = [seq |-> it.seq, buckets |-> b, received |-> n,
             ready |-> it.ready, full |-> it.full]
  BY <1>1
<1>3. Rebucketed(new, it, b) /\ new.received = n
  BY <1>2 DEF Rebucketed, IsItem
<1> QED
  BY <1>3 DEF new

\* The bytes of a fragment as a range.
LEMMA FragmentRange ==
    ASSUME NEW f \in AnyFragment
    PROVE  \A y : y \in {f.off + k : k \in 0 .. f.sz - 1} <=>
                    y \in Int /\ f.off <= y /\ y < EndOf(f)
<1>0. f.off \in Nat /\ f.sz \in Nat /\ EndOf(f) = f.off + f.sz
  BY FragmentType DEF EndOf
<1> SUFFICES ASSUME NEW y
             PROVE  y \in {f.off + k : k \in 0 .. f.sz - 1} <=>
                      y \in Int /\ f.off <= y /\ y < EndOf(f)
  OBVIOUS
<1>1. ASSUME NEW k \in 0 .. f.sz - 1, y = f.off + k
      PROVE  y \in Int /\ f.off <= y /\ y < EndOf(f)
  BY <1>0, <1>1
<1>2. ASSUME y \in Int, f.off <= y, y < EndOf(f)
      PROVE  \E k \in 0 .. f.sz - 1 : y = f.off + k
  <2>1. y - f.off \in 0 .. f.sz - 1 /\ y = f.off + (y - f.off)
    BY <1>0, <1>2
  <2> QED
    BY <2>1
<1> QED
  BY <1>1, <1>2

\* A fragment that touches a bucket and is not inside it, merged into the buckets.
LEMMA CombineStep ==
    ASSUME NEW f \in AnyFragment, NEW item, IsItem(item),
           Layout(f.seq, item.buckets), Counted(item),
           ~ Known(item.buckets, f), ~ Disjoint(item.buckets, f)
    PROVE  LET new == CombineFragBuckets(item, PlaceOf(item.buckets, f), f)
           IN  /\ Rebucketed(new, item, new.buckets)
               /\ Layout(f.seq, new.buckets) /\ Counted(new)
               /\ Len(new.buckets) <= Len(item.buckets) /\ Len(new.buckets) >= 1
               /\ \A y : y \in Covered(new.buckets) <=>
                    \/ y \in Covered(item.buckets)
                    \/ y \in Int /\ f.off <= y /\ y < EndOf(f)
<1> DEFINE b == item.buckets
           m == f.seq
           c == PlaceOf(b, f)
           reach == {i \in c + 1 .. Len(b) : b[i].off + b[i].sz > EndOf(f)}
           n == IF reach = {} THEN Len(b) + 1 ELSE Min(reach)
           joins == n <= Len(b) /\ EndOf(f) >= b[n].off
           next == IF n <= Len(b) THEN b[n] ELSE b[c]
           merged == CombinedBucket(b[c], next, joins, f)
           rest == IF joins THEN n + 1 ELSE n
           overlap == Overlap(b, c, rest)
           new == CombineFragBuckets(item, c, f)
           fEnd == EndOf(f)
<1>1. new = [item EXCEPT !.buckets = SubSeq(b, 1, c - 1) \o <<merged>>
                                       \o SubSeq(b, rest, Len(b)),
                         !.received = @ + merged.sz - overlap]
  BY DEF CombineFragBuckets
<1>2. /\ m \in Messages /\ f.off \in Nat /\ f.sz \in Nat
      /\ fEnd = f.off + f.sz /\ fEnd \in Nat
  BY FragmentType DEF EndOf
<1>3. b \in Seq(BucketSet) /\ Len(b) \in Nat
  BY DEF Layout
<1>4. /\ c \in 1 .. Len(b) + 1
      /\ \A i \in 1 .. Len(b) : i < c => b[i].off + b[i].sz < f.off
      /\ c <= Len(b) => f.off <= b[c].off + b[c].sz
  BY <1>3, PlaceIs
<1>5. \A i \in 1 .. Len(b) : /\ RightBucket(m, b[i])
                             /\ b[i].off \in Nat /\ b[i].sz \in Nat
  <2>1. \A i \in 1 .. Len(b) : RightBucket(m, b[i])
    BY DEF Layout
  <2> QED
    BY <2>1, <1>2, RightIs
<1>6. \A i \in 1 .. Len(b), j \in 1 .. Len(b) : i < j => b[i].off + b[i].sz < b[j].off
  BY DEF Layout
<1>7. c <= Len(b) /\ ~ (fEnd < b[c].off)
  BY <1>3, <1>4 DEF Disjoint
<1>8. f.off < b[c].off \/ ~ (fEnd <= b[c].off + b[c].sz)
  <2>1. ~ (f.off >= b[c].off /\ fEnd <= b[c].off + b[c].sz)
    BY <1>7 DEF Known
  <2>2. c \in 1 .. Len(b)
    BY <1>3, <1>4, <1>7
  <2> QED
    BY <2>1, <2>2, <1>2, <1>5
<1> HIDE DEF b, c, m, fEnd
<1>9. c \in 1 .. Len(b) /\ c \in Nat /\ c + 1 \in Nat
  BY <1>3, <1>4, <1>7
<1>10. /\ n \in Nat /\ c < n /\ n <= Len(b) + 1
       /\ \A i \in 1 .. Len(b) : c < i /\ i < n => b[i].off + b[i].sz <= fEnd
       /\ n <= Len(b) => fEnd < b[n].off + b[n].sz
  <2>0. reach \subseteq Nat /\ \A i \in reach : c < i /\ i \in 1 .. Len(b)
    BY <1>3, <1>9
  <2>1. \A i \in 1 .. Len(b) : c < i /\ i \notin reach => b[i].off + b[i].sz <= fEnd
    <3> SUFFICES ASSUME NEW i \in 1 .. Len(b), c < i, i \notin reach
                 PROVE  b[i].off + b[i].sz <= fEnd
      OBVIOUS
    <3>1. i \in c + 1 .. Len(b)
      BY <1>3, <1>9
    <3>2. ~ (b[i].off + b[i].sz > fEnd)
      BY <3>1 DEF fEnd
    <3> QED
      BY <3>2, <1>2, <1>5
  <2>2. \A i \in reach : fEnd < b[i].off + b[i].sz
    BY <2>0, <1>2, <1>5 DEF fEnd
  <2>3. CASE reach = {}
    <3>1. n = Len(b) + 1
      BY <2>3
    <3> HIDE DEF n, reach
    <3> QED
      BY <3>1, <2>1, <2>3, <1>3, <1>9
  <2>4. CASE reach # {}
    <3> HIDE DEF reach
    <3>1. n = Min(reach)
      BY <2>4
    <3> HIDE DEF n
    <3>2. n \in reach /\ \A y \in reach : n <= y
      BY <3>1, <2>0, <2>4, MinIs
    <3>3. n \in Nat /\ c < n /\ n <= Len(b)
      BY <3>2, <2>0, <1>3
    <3>4. ASSUME NEW i \in 1 .. Len(b), c < i, i < n PROVE i \notin reach
      BY <3>2, <3>3, <3>4, <1>3
    <3>5. fEnd < b[n].off + b[n].sz
      BY <3>2, <2>2
    <3> QED
      BY <3>3, <3>4, <3>5, <2>1, <1>3
  <2> QED
    BY <2>3, <2>4
<1>11. /\ joins = (n <= Len(b) /\ fEnd >= b[n].off)
       /\ next = IF n <= Len(b) THEN b[n] ELSE b[c]
       /\ rest = IF joins THEN n + 1 ELSE n
  BY DEF fEnd
<1> HIDE DEF n, reach, joins, next, rest, overlap
<1>12. joins \in BOOLEAN
  BY <1>11
<1>13. RightBucket(m, b[c]) /\ RightBucket(m, next)
  <2>1. n <= Len(b) => n \in 1 .. Len(b)
    BY <1>9, <1>10, <1>3
  <2> QED
    BY <2>1, <1>5, <1>9, <1>11
<1>14. /\ b[c].off \in Nat /\ b[c].sz \in Nat
  BY <1>5, <1>9
<1>15. joins => /\ n \in 1 .. Len(b) /\ next = b[n]
                /\ b[c].off + b[c].sz < b[n].off /\ b[n].off <= fEnd
                /\ fEnd < b[n].off + b[n].sz
                /\ b[n].off \in Nat /\ b[n].sz \in Nat
  <2> SUFFICES ASSUME joins
               PROVE  /\ n \in 1 .. Len(b) /\ next = b[n]
                      /\ b[c].off + b[c].sz < b[n].off /\ b[n].off <= fEnd
                      /\ fEnd < b[n].off + b[n].sz
                      /\ b[n].off \in Nat /\ b[n].sz \in Nat
    OBVIOUS
  <2>1. n <= Len(b) /\ fEnd >= b[n].off /\ next = b[n]
    BY <1>11
  <2>2. n \in 1 .. Len(b)
    BY <2>1, <1>9, <1>10, <1>3
  <2>3. b[c].off + b[c].sz < b[n].off
    BY <2>2, <1>6, <1>9, <1>10
  <2>4. b[n].off \in Nat /\ b[n].sz \in Nat
    BY <2>2, <1>5
  <2>5. b[n].off <= fEnd
    BY <2>1, <2>4, <1>2
  <2> QED
    BY <2>1, <2>2, <2>3, <2>4, <2>5, <1>10
<1>16. Merges(b[c], next, joins, f)
  <2>1. b[c].off <= fEnd /\ (f.off < b[c].off \/ b[c].off + b[c].sz < fEnd)
    BY <1>2, <1>7, <1>8, <1>14
  <2>2. f.off <= b[c].off + b[c].sz
    BY <1>4, <1>7
  <2> QED
    BY <2>1, <2>2, <1>15 DEF Merges, fEnd
<1> DEFINE mEnd == merged.off + merged.sz
<1>17. /\ RightBucket(m, merged)
       /\ merged.off = IF b[c].off <= f.off THEN b[c].off ELSE f.off
       /\ mEnd = IF joins THEN next.off + next.sz
                 ELSE IF b[c].off + b[c].sz <= fEnd THEN fEnd
                 ELSE b[c].off + b[c].sz
  BY <1>12, <1>13, <1>16, CombinedExact DEF m, fEnd
<1> HIDE DEF merged
<1>18. merged.off \in Nat /\ merged.sz \in Nat /\ mEnd \in Nat
  BY <1>2, <1>17, RightIs
<1>19. /\ rest \in Nat /\ c <= rest /\ rest <= Len(b) + 1
       /\ rest = IF joins THEN n + 1 ELSE n
  <2>1. CASE joins
    <3>1. rest = n + 1 /\ n <= Len(b)
      BY <2>1, <1>11, <1>15, <1>3
    <3> QED
      BY <3>1, <2>1, <1>3, <1>9, <1>10
  <2>2. CASE ~ joins
    <3>1. rest = n
      BY <2>2, <1>11
    <3> QED
      BY <3>1, <2>2, <1>3, <1>9, <1>10
  <2> QED
    BY <2>1, <2>2
<1>20. ASSUME NEW i \in 1 .. Len(b), i < c
       PROVE  b[i].off + b[i].sz < merged.off
  <2>1. b[i].off + b[i].sz < f.off
    BY <1>4, <1>20
  <2>2. b[i].off + b[i].sz < b[c].off
    BY <1>6, <1>9, <1>20
  <2> QED
    BY <2>1, <2>2, <1>17
<1>21. ASSUME NEW i \in 1 .. Len(b), i >= rest
       PROVE  mEnd < b[i].off
  <2>0. i \in Nat /\ c < i /\ b[i].off \in Nat
    BY <1>3, <1>5, <1>9, <1>10, <1>19, <1>21
  <2>1. CASE joins
    <3>1. n < i
      BY <2>0, <2>1, <1>10, <1>19, <1>21
    <3>2. b[n].off + b[n].sz < b[i].off
      BY <3>1, <2>1, <1>6, <1>15
    <3> QED
      BY <3>2, <2>1, <1>15, <1>17
  <2>2. CASE ~ joins
    <3>1. n <= i /\ n \in 1 .. Len(b)
      BY <2>0, <2>2, <1>3, <1>9, <1>10, <1>19, <1>21
    <3>2. b[c].off + b[c].sz < b[i].off
      BY <2>0, <1>6, <1>9
    <3>3. fEnd < b[n].off
      <4>0. n <= Len(b)
        BY <3>1, <1>3
      <4>1. ~ (fEnd >= b[n].off)
        BY <4>0, <2>2, <1>11
      <4> QED
        BY <4>1, <3>1, <1>2, <1>5
    <3>4. b[n].off <= b[i].off
      <4>1. CASE n = i
        BY <4>1, <2>0
      <4>2. CASE n < i
        <5>1. b[n].off + b[n].sz < b[i].off /\ b[n].off \in Nat /\ b[n].sz \in Nat
          BY <4>2, <3>1, <1>5, <1>6
        <5> QED
          BY <5>1, <2>0
      <4> QED
        BY <4>1, <4>2, <3>1, <2>0, <1>10
    <3>5. fEnd < b[i].off
      <4>1. b[n].off \in Nat
        BY <3>1, <1>5
      <4> QED
        BY <4>1, <3>3, <3>4, <2>0, <1>2
    <3> QED
      BY <3>2, <3>5, <2>2, <1>17
  <2> QED
    BY <2>1, <2>2
<1> DEFINE t == Splice(b, c, rest, merged)
<1>22. /\ Layout(m, t)
       /\ Cardinality(Covered(t))
            = Cardinality(Covered(b)) + merged.sz - Cardinality(Part(b, c, rest - 1))
       /\ Len(t) = Len(b) + c - rest + 1
       /\ \A y : y \in Covered(t) <=>
            y \in Int /\ \/ Inside(y, merged)
                         \/ \E i \in 1 .. Len(b) :
                              (i < c \/ i >= rest) /\ Inside(y, b[i])
  <2>1. Layout(m, b) /\ c \in Nat \ {0}
    BY <1>9 DEF b, m
  <2>2. \A i \in 1 .. Len(b) : i < c => b[i].off + b[i].sz < merged.off
    BY <1>20
  <2>3. \A i \in 1 .. Len(b) : i >= rest => merged.off + merged.sz < b[i].off
    BY <1>21
  <2>4. m \in Messages /\ rest \in Nat /\ c <= rest /\ rest <= Len(b) + 1
    BY <1>2, <1>19
  <2>5. RightBucket(m, merged)
    BY <1>17
  <2>6. Respliced(t, m, b, c, rest, merged)
    BY <2>1, <2>2, <2>3, <2>4, <2>5, SpliceLayout
  <2>7. Cardinality(Covered(t))
          = Cardinality(Covered(b)) + merged.sz - Cardinality(Part(b, c, rest - 1))
    <3> HIDE DEF t
    <3> QED
      BY <2>1, <2>2, <2>3, <2>4, <2>5, <2>6, SpliceCount
  <2> QED
    BY <2>6, <2>7 DEF Respliced
<1> HIDE DEF t
<1>23. Len(t) <= Len(b) /\ Len(t) >= 1 /\ overlap = Cardinality(Part(b, c, rest - 1))
  <2>1. c < rest
    BY <1>9, <1>10, <1>19
  <2>2. Layout(m, b) /\ c \in Nat \ {0} /\ m \in Messages
    BY <1>2, <1>9 DEF b, m
  <2>3. overlap = Cardinality(Part(b, c, rest - 1))
    BY <1>19, <2>1, <2>2, OverlapIs DEF overlap
  <2>4. Len(t) <= Len(b) /\ Len(t) >= 1
    BY <2>1, <1>3, <1>9, <1>19, <1>22
  <2> QED
    BY <2>3, <2>4
<1>24. ASSUME NEW y \in Int
       PROVE  /\ Inside(y, merged) =>
                   \/ f.off <= y /\ y < fEnd
                   \/ Inside(y, b[c])
                   \/ joins /\ Inside(y, b[n])
              /\ (f.off <= y /\ y < fEnd) => Inside(y, merged)
              /\ \A i \in 1 .. Len(b) :
                   ~ (i < c \/ i >= rest) /\ Inside(y, b[i]) => Inside(y, merged)
  <2>1. Inside(y, merged) <=> merged.off <= y /\ y < mEnd
    BY DEF Inside
  <2> HIDE DEF mEnd
  <2>2. Inside(y, merged) => \/ f.off <= y /\ y < fEnd
                             \/ Inside(y, b[c])
                             \/ joins /\ Inside(y, b[n])
    <3>1. f.off <= b[c].off + b[c].sz /\ b[c].off <= fEnd
      BY <1>2, <1>4, <1>7, <1>14
    <3>2. CASE joins
      <4>1. next = b[n] /\ b[n].off <= fEnd /\ b[n].off \in Nat /\ b[n].sz \in Nat
        BY <3>2, <1>15
      <4>2. mEnd = b[n].off + b[n].sz
        BY <4>1, <3>2, <1>17
      <4>3. y < mEnd => \/ y < fEnd
                        \/ Inside(y, b[n])
        BY <4>1, <4>2, <1>2 DEF Inside
      <4>4. merged.off <= y => \/ f.off <= y
                               \/ b[c].off <= y
        BY <1>2, <1>14, <1>17
      <4>5. f.off <= y \/ Inside(y, b[c]) \/ ~ (b[c].off <= y)
        BY <3>1, <1>2, <1>14 DEF Inside
      <4>6. ASSUME Inside(y, merged)
            PROVE  (f.off <= y /\ y < fEnd) \/ Inside(y, b[c]) \/ Inside(y, b[n])
        <5>1. (y < fEnd \/ Inside(y, b[n])) /\ (f.off <= y \/ b[c].off <= y)
          BY <4>3, <4>4, <4>6, <2>1
        <5> QED
          BY <5>1, <4>5
      <4> QED
        BY <4>6, <3>2
    <3>3. CASE ~ joins
      <4>1. y < mEnd => y < fEnd \/ y < b[c].off + b[c].sz
        BY <3>3, <1>17
      <4>2. merged.off <= y => f.off <= y \/ b[c].off <= y
        BY <1>17
      <4>3. Inside(y, b[c]) <=> b[c].off <= y /\ y < b[c].off + b[c].sz
        BY DEF Inside
      <4>4. (f.off <= y \/ y < b[c].off + b[c].sz) /\ (b[c].off <= y \/ y < fEnd)
        BY <3>1, <1>2, <1>14
      <4>5. ASSUME Inside(y, merged)
            PROVE  (f.off <= y /\ y < fEnd) \/ Inside(y, b[c])
        BY <4>1, <4>2, <4>3, <4>4, <4>5, <2>1
      <4> QED
        BY <4>5
    <3> QED
      BY <3>2, <3>3
  <2>3. merged.off <= f.off /\ merged.off <= b[c].off
    BY <1>2, <1>14, <1>17
  <2>4. fEnd <= mEnd /\ b[c].off + b[c].sz <= mEnd
    <3>1. CASE joins
      BY <3>1, <1>2, <1>14, <1>15, <1>17, SMTT(30)
    <3>2. CASE ~ joins
      BY <3>2, <1>2, <1>14, <1>17
    <3> QED
      BY <3>1, <3>2
  <2>5. (f.off <= y /\ y < fEnd) => Inside(y, merged)
    BY <2>1, <2>3, <2>4, <1>2, <1>18
  <2>6. ASSUME NEW i \in 1 .. Len(b), ~ (i < c \/ i >= rest), Inside(y, b[i])
        PROVE  Inside(y, merged)
    <3>0. b[i].off \in Nat /\ b[i].sz \in Nat /\ i \in Nat
          /\ b[i].off <= y /\ y < b[i].off + b[i].sz
      BY <2>6, <1>3, <1>5 DEF Inside
    <3>1. c <= i /\ i < rest
      BY <3>0, <2>6, <1>9, <1>19
    <3>2. CASE i = c
      BY <3>0, <3>2, <2>1, <2>3, <2>4, <1>18
    <3>3. CASE c < i /\ i < n
      <4>1. b[i].off + b[i].sz <= fEnd
        BY <3>3, <1>10
      <4>2. b[c].off + b[c].sz < b[i].off
        BY <3>3, <1>6, <1>9
      <4>3. merged.off <= y
        BY <4>2, <3>0, <2>3, <1>14, <1>18, SMTT(30)
      <4>4. y < mEnd
        BY <4>1, <3>0, <2>4, <1>2, <1>18
      <4> QED
        BY <4>3, <4>4, <2>1
    <3>4. CASE joins /\ i = n
      <4>1. mEnd = b[n].off + b[n].sz
        BY <3>4, <1>15, <1>17
      <4>2. b[c].off + b[c].sz < b[n].off
        BY <3>4, <1>15
      <4> QED
        BY <4>1, <4>2, <3>0, <3>4, <2>1, <2>3, <1>14, <1>18
    <3>5. i = c \/ (c < i /\ i < n) \/ (joins /\ i = n)
      BY <3>0, <3>1, <1>9, <1>10, <1>19
    <3> QED
      BY <3>2, <3>3, <3>4, <3>5
  <2> QED
    BY <2>2, <2>5, <2>6
<1>25. ASSUME NEW y
       PROVE  y \in Covered(t) <=> \/ y \in Covered(b)
                                   \/ y \in Int /\ f.off <= y /\ y < fEnd
  <2>1. y \in Covered(b) <=> y \in Int /\ \E i \in 1 .. Len(b) : Inside(y, b[i])
    BY <1>3, CoveredIs
  <2>2. y \in Covered(t) <=>
          y \in Int /\ \/ Inside(y, merged)
                       \/ \E i \in 1 .. Len(b) :
                            (i < c \/ i >= rest) /\ Inside(y, b[i])
    BY <1>22
  <2>3. joins => n \in 1 .. Len(b)
    BY <1>15
  <2>4. CASE y \in Int
    BY <2>1, <2>2, <2>3, <2>4, <1>9, <1>24
  <2>5. CASE y \notin Int
    BY <2>1, <2>2, <2>5
  <2> QED
    BY <2>4, <2>5
<1>26. Rebucketed(new, item, t) /\ new.received = item.received + merged.sz - overlap
  <2> HIDE DEF new
  <2>1. new = [item EXCEPT !.buckets = t, !.received = item.received + merged.sz - overlap]
    BY <1>1 DEF t, Splice
  <2> QED
    BY <2>1, StoredItem, ZenonT(90)
<1> HIDE DEF new
<1>27. new.buckets = t
  BY <1>26 DEF Rebucketed
<1>28. Counted(new)
  <2>1. item.received = Cardinality(Covered(b))
    BY DEF Counted, b
  <2> QED
    BY <2>1, <1>22, <1>23, <1>26, <1>27 DEF Counted
<1> QED
  BY <1>22, <1>23, <1>25, <1>26, <1>27, <1>28 DEF new, b, c, m, fEnd
\* A fragment that touches none of the buckets, when they are used up.
TurnedAway(it, f) ==
    /\ Len(it.buckets) >= DTLS_FRAG_POOL_SZ
    /\ \A j \in 1 .. Len(it.buckets) :
          \/ EndOf(f) < it.buckets[j].off
          \/ f.off > it.buckets[j].off + it.buckets[j].sz

\* The item st is the item it after fragment f: its buckets are in order and within
\* the limit, and hold the bytes of the fragment too unless it was turned away.
HasStored(st, it, f) ==
    /\ Rebucketed(st, it, st.buckets)
    /\ Layout(f.seq, st.buckets) /\ Counted(st)
    /\ Len(st.buckets) <= DTLS_FRAG_POOL_SZ /\ Len(st.buckets) >= 1
    /\ \A y : y \in Covered(st.buckets) <=>
         \/ y \in Covered(it.buckets)
         \/ y \in Int /\ f.off <= y /\ y < EndOf(f) /\ ~ TurnedAway(it, f)

\* A fragment inside a bucket changes nothing, and was not turned away.
LEMMA KnownStep ==
    ASSUME NEW f \in AnyFragment, NEW it, IsItem(it), Layout(f.seq, it.buckets),
           Counted(it), Len(it.buckets) <= DTLS_FRAG_POOL_SZ, Known(it.buckets, f)
    PROVE  HasStored(it, it, f)
<1> DEFINE b == it.buckets
           c == PlaceOf(b, f)
<1>1. f.off \in Nat /\ f.sz \in Nat /\ EndOf(f) = f.off + f.sz
  BY FragmentType DEF EndOf
<1>2. b \in Seq(BucketSet) /\ Len(b) \in Nat
  BY DEF Layout
<1>3. c \in 1 .. Len(b) + 1
  BY <1>2, PlaceIs
<1>4. c <= Len(b) /\ f.off >= b[c].off /\ EndOf(f) <= b[c].off + b[c].sz
  BY DEF Known
<1> HIDE DEF b, c
<1>5. c \in 1 .. Len(b)
  BY <1>2, <1>3, <1>4
<1>6. b[c].off \in Nat /\ b[c].sz \in Nat
  <2>1. b[c] \in BucketSet
    BY <1>2, <1>5
  <2> QED
    BY <2>1 DEF BucketSet
<1>7. ASSUME NEW y \in Int, f.off <= y, y < EndOf(f) PROVE y \in Covered(b)
  <2>1. Inside(y, b[c])
    BY <1>1, <1>4, <1>6, <1>7 DEF Inside
  <2> QED
    BY <2>1, <1>2, <1>5, CoveredIs
<1>8. Rebucketed(it, it, b)
  BY DEF Rebucketed, b
<1>9. Len(b) >= 1
  BY <1>2, <1>5
<1> QED
  BY <1>7, <1>8, <1>9 DEF HasStored, b

\* A fragment with a gap to every bucket gets a bucket of its own, or is turned away
\* when they are used up.
LEMMA DisjointStep ==
    ASSUME NEW f \in AnyFragment, NEW it, IsItem(it), Layout(f.seq, it.buckets),
           Counted(it), Len(it.buckets) <= DTLS_FRAG_POOL_SZ,
           ~ Known(it.buckets, f), Disjoint(it.buckets, f)
    PROVE  HasStored(StoreInBuckets(it, f), it, f)
<1> DEFINE b == it.buckets
           m == f.seq
           c == PlaceOf(b, f)
           e == Bucket(f.off, Data(f))
           t == Splice(b, c, c, e)
           st == StoreInBuckets(it, f)
<1>1. /\ m \in Messages /\ f.off \in Nat /\ f.sz \in Nat /\ EndOf(f) = f.off + f.sz
      /\ EndOf(f) \in Nat /\ f.off + f.sz <= LengthOf[m]
  BY FragmentType DEF EndOf
<1>2. b \in Seq(BucketSet) /\ Len(b) \in Nat
  BY DEF Layout
<1>3. /\ c \in 1 .. Len(b) + 1
      /\ \A i \in 1 .. Len(b) : i < c => b[i].off + b[i].sz < f.off
  BY <1>2, PlaceIs
<1>4. c > Len(b) \/ EndOf(f) < b[c].off
  BY DEF Disjoint
<1>5. st = IF b # <<>> /\ Len(b) >= DTLS_FRAG_POOL_SZ THEN it
           ELSE [it EXCEPT !.buckets = t, !.received = it.received + f.sz]
  BY DEF StoreInBuckets, InsertAt, Splice
<1>6. DTLS_FRAG_POOL_SZ \in Nat \ {0}
  BY ReassemblyAssumption
<1>7. \A i \in 1 .. Len(b) : b[i].off \in Nat /\ b[i].sz \in Nat
  <2>1. \A i \in 1 .. Len(b) : b[i] \in BucketSet
    BY <1>2
  <2>2. \A x \in BucketSet : x.off \in Nat /\ x.sz \in Nat
    BY DEF BucketSet
  <2> QED
    BY <2>1, <2>2
<1>8. \A i \in 1 .. Len(b), j \in 1 .. Len(b) : i < j => b[i].off + b[i].sz < b[j].off
  BY DEF Layout
<1> HIDE DEF c, t
<1>9. ASSUME NEW i \in 1 .. Len(b), i >= c PROVE EndOf(f) < b[i].off
  <2>0. c \in Nat /\ i \in Nat /\ c \in 1 .. Len(b) /\ ~ (c > Len(b))
    BY <1>2, <1>3, <1>9
  <2>1. EndOf(f) < b[c].off
    BY <2>0, <1>4
  <2>2. CASE i = c
    BY <2>1, <2>2
  <2>3. CASE c < i
    <3>1. b[c].off + b[c].sz < b[i].off
      BY <2>0, <2>3, <1>8
    <3>2. b[c].off \in Nat /\ b[c].sz \in Nat /\ b[i].off \in Nat
      BY <2>0, <1>7
    <3> QED
      BY <3>1, <3>2, <2>1, <1>1, SMTT(90)
  <2> QED
    BY <2>0, <2>2, <2>3, <1>9
<1>10. TurnedAway(it, f) <=> Len(b) >= DTLS_FRAG_POOL_SZ
  <2>1. ASSUME NEW j \in 1 .. Len(b)
        PROVE  EndOf(f) < b[j].off \/ f.off > b[j].off + b[j].sz
    <3>1. j < c \/ j >= c
      BY <1>2, <1>3
    <3>2. CASE j < c
      <4>1. b[j].off + b[j].sz < f.off
        BY <3>2, <1>3
      <4> QED
        BY <4>1
    <3>3. CASE j >= c
      BY <3>3, <1>9
    <3> QED
      BY <3>1, <3>2, <3>3
  <2> QED
    BY <2>1 DEF TurnedAway
<1>11. CASE Len(b) >= DTLS_FRAG_POOL_SZ
  <2>1. b # <<>>
    BY <1>6, <1>11
  <2>2. st = it
    BY <2>1, <1>5, <1>11
  <2>3. Rebucketed(it, it, b)
    BY DEF Rebucketed
  <2> HIDE DEF st
  <2>4. Len(b) >= 1
    BY <1>2, <1>6, <1>11
  <2>5. HasStored(st, it, f)
    BY <2>2, <2>3, <2>4, <1>10, <1>11 DEF HasStored
  <2> QED
    BY <2>5 DEF st
<1>12. CASE ~ (Len(b) >= DTLS_FRAG_POOL_SZ)
  <2>1. Rebucketed(st, it, t) /\ st.received = it.received + f.sz
    <3>1. st = [it EXCEPT !.buckets = t, !.received = it.received + f.sz]
      BY <1>5, <1>12
    <3> HIDE DEF st
    <3> QED
      BY <3>1, StoredItem, ZenonT(30)
  <2> HIDE DEF st
  <2>2. /\ e.off = f.off /\ e.sz = f.sz /\ RightBucket(m, e)
    <3>1. /\ Data(f) \in Seq(Byte) /\ Len(Data(f)) = f.sz
          /\ \A k \in 1 .. f.sz : Data(f)[k] = <<m, f.off + k - 1>>
      BY DataIs
    <3>2. e = [off |-> f.off, sz |-> f.sz, buf |-> Data(f)]
      BY <3>1 DEF Bucket
    <3>3. RightBucket(m, [off |-> f.off, sz |-> f.sz, buf |-> Data(f)])
      BY <3>1, <1>1, MakesRight
    <3> HIDE DEF e
    <3> QED
      BY <3>2, <3>3
  <2> HIDE DEF e
  <2>3. /\ Respliced(t, m, b, c, c, e)
        /\ Cardinality(Covered(t))
             = Cardinality(Covered(b)) + e.sz - Cardinality(Part(b, c, c - 1))
    <3>1. Layout(m, b) /\ c \in Nat \ {0} /\ c \in Nat /\ c <= c /\ c <= Len(b) + 1
      BY <1>2, <1>3
    <3>2. \A i \in 1 .. Len(b) : i < c => b[i].off + b[i].sz < e.off
      BY <2>2, <1>3
    <3>3. \A i \in 1 .. Len(b) : i >= c => e.off + e.sz < b[i].off
      BY <2>2, <1>1, <1>9
    <3> HIDE DEF b, m
    <3>4. Respliced(t, m, b, c, c, e)
      BY <3>1, <3>2, <3>3, <2>2, <1>1, SpliceLayout DEF t
    <3> QED
      BY <3>1, <3>2, <3>3, <3>4, <2>2, <1>1, SpliceCount, SMTT(30)
  <2>4. /\ Layout(m, t) /\ Len(t) = Len(b) + c - c + 1
        /\ \A y : y \in Covered(t) <=>
             y \in Int /\ \/ Inside(y, e)
                          \/ \E i \in 1 .. Len(b) :
                               (i < c \/ i >= c) /\ Inside(y, b[i])
    BY <2>3 DEF Respliced
  <2>5. Len(t) <= DTLS_FRAG_POOL_SZ /\ Len(t) >= 1
    BY <2>4, <1>2, <1>3, <1>6, <1>12
  <2>6. ASSUME NEW y
        PROVE  y \in Covered(t) <=> \/ y \in Covered(b)
                                    \/ y \in Int /\ f.off <= y /\ y < EndOf(f)
    <3>1. y \in Covered(b) <=> y \in Int /\ \E i \in 1 .. Len(b) : Inside(y, b[i])
      BY <1>2, CoveredIs
    <3>2. Inside(y, e) <=> f.off <= y /\ y < EndOf(f)
      BY <2>2, <1>1 DEF Inside
    <3>3. \A i \in 1 .. Len(b) : i < c \/ i >= c
      BY <1>2, <1>3
    <3> HIDE DEF b
    <3> QED
      BY <3>1, <3>2, <3>3, <2>4
  <2>7. ~ TurnedAway(it, f)
    BY <1>10, <1>12
  <2>8. st.buckets = t
    BY <2>1 DEF Rebucketed
  <2>9. Counted(st)
    <3>1. Part(b, c, c - 1) = {}
      BY <1>3 DEF Part
    <3>2. Cardinality(Part(b, c, c - 1)) = 0
      BY <3>1, FS_EmptySet
    <3>3. it.received = Cardinality(Covered(b)) /\ Cardinality(Covered(b)) \in Nat
      BY <1>1, CoveredFinite DEF Counted
    <3> QED
      BY <1>1, <2>1, <2>2, <2>3, <2>8, <3>2, <3>3 DEF Counted
  <2>10. HasStored(st, it, f)
    BY <2>1, <2>4, <2>5, <2>6, <2>7, <2>8, <2>9 DEF HasStored
  <2> QED
    BY <2>10 DEF st
<1> QED
  BY <1>11, <1>12

\* What storing a fragment makes of an item that is not complete.
LEMMA StoreStep ==
    ASSUME NEW f \in AnyFragment, NEW it, IsItem(it), Layout(f.seq, it.buckets),
           Counted(it), Len(it.buckets) <= DTLS_FRAG_POOL_SZ
    PROVE  HasStored(StoreInBuckets(it, f), it, f)
<1>1. CASE Known(it.buckets, f)
  <2>0. ~ Disjoint(it.buckets, f)
    <3> DEFINE b == it.buckets
               c == PlaceOf(b, f)
    <3>1. c <= Len(b) /\ f.off >= b[c].off
      BY <1>1 DEF Known
    <3>2. b \in Seq(BucketSet) /\ Len(b) \in Nat
      BY DEF Layout
    <3>3. c \in 1 .. Len(b) + 1
      BY <3>2, PlaceIs
    <3> HIDE DEF c
    <3>4. c \in 1 .. Len(b)
      BY <3>1, <3>2, <3>3
    <3>5. b[c].off \in Nat
      <4>1. b[c] \in BucketSet
        BY <3>2, <3>4
      <4> QED
        BY <4>1 DEF BucketSet
    <3>6. ~ (EndOf(f) < b[c].off) /\ ~ (c > Len(b))
      BY <3>1, <3>2, <3>4, <3>5, FragmentType DEF EndOf
    <3> QED
      BY <3>6 DEF Disjoint, c
  <2>1. StoreInBuckets(it, f) = it
    BY <2>0, <1>1 DEF StoreInBuckets
  <2> QED
    BY <2>1, <1>1, KnownStep
<1>2. CASE ~ Known(it.buckets, f) /\ Disjoint(it.buckets, f)
  BY <1>2, DisjointStep
<1>3. CASE ~ Known(it.buckets, f) /\ ~ Disjoint(it.buckets, f)
  <2> DEFINE b == it.buckets
             c == PlaceOf(b, f)
             new == CombineFragBuckets(it, c, f)
  <2>1. StoreInBuckets(it, f) = new
    BY <1>3 DEF StoreInBuckets
  <2>2. /\ Rebucketed(new, it, new.buckets)
        /\ Layout(f.seq, new.buckets) /\ Counted(new)
        /\ Len(new.buckets) <= Len(it.buckets) /\ Len(new.buckets) >= 1
        /\ \A y : y \in Covered(new.buckets) <=>
             \/ y \in Covered(it.buckets)
             \/ y \in Int /\ f.off <= y /\ y < EndOf(f)
    BY <1>3, CombineStep
  <2> HIDE DEF new
  <2>3. Len(new.buckets) <= DTLS_FRAG_POOL_SZ
    <3>1. Len(new.buckets) \in Nat /\ Len(b) \in Nat /\ DTLS_FRAG_POOL_SZ \in Nat
      BY <2>2, ReassemblyAssumption DEF Layout
    <3> QED
      BY <3>1, <2>2
  <2>4. ~ TurnedAway(it, f)
    <3>1. b \in Seq(BucketSet) /\ Len(b) \in Nat
      BY DEF Layout
    <3>2. c \in 1 .. Len(b) + 1 /\ (c <= Len(b) => f.off <= b[c].off + b[c].sz)
      BY <3>1, PlaceIs
    <3>3. c <= Len(b) /\ ~ (EndOf(f) < b[c].off)
      BY <1>3, <3>1, <3>2 DEF Disjoint
    <3> HIDE DEF c
    <3>4. c \in 1 .. Len(b)
      BY <3>1, <3>2, <3>3
    <3>5. b[c].off \in Nat /\ b[c].sz \in Nat
      <4>1. b[c] \in BucketSet
        BY <3>1, <3>4
      <4> QED
        BY <4>1 DEF BucketSet
    <3>6. ~ (f.off > b[c].off + b[c].sz)
      BY <3>2, <3>3, <3>5, FragmentType
    <3> QED
      BY <3>3, <3>4, <3>6 DEF TurnedAway
  <2>5. HasStored(new, it, f)
    BY <2>2, <2>3, <2>4 DEF HasStored
  <2> QED
    BY <2>1, <2>5
<1> QED
  BY <1>1, <1>2, <1>3

\* An item: complete, or with its buckets in order and counted.
Sound(it) ==
    /\ IsItem(it) /\ it.seq \in Messages /\ it.ready \in BOOLEAN
    /\ it.ready => it.full = Bytes(it.seq, 0, LengthOf[it.seq])
    /\ ~ it.ready => /\ Layout(it.seq, it.buckets) /\ Counted(it)
                     /\ Len(it.buckets) <= DTLS_FRAG_POOL_SZ

\* An item of the list: it is complete if all its bytes are there.
ItemOK(it) ==
    Sound(it) /\ (~ it.ready => it.received < LengthOf[it.seq])

\* The item new is the item it after fragment f.
HasTaken(new, it, f) ==
    /\ ItemOK(new) /\ new.seq = it.seq
    /\ it.ready => new.ready
    /\ \A y : y \in Held(new) <=>
         \/ y \in Held(it)
         \/ /\ y \in Int /\ f.off <= y /\ y < EndOf(f)
            /\ it.ready \/ ~ TurnedAway(it, f)

\* An item whose only bucket is the whole message is complete with its bytes.
LEMMA AssembleStep ==
    ASSUME NEW it, Sound(it), ~ it.ready
    PROVE  LET new == AssembleCompleteMessage(it)
           IN  /\ Sound(new) /\ new.seq = it.seq
               /\ Len(it.buckets) >= 1 /\ it.received = LengthOf[it.seq] => new.ready
               /\ \A y : y \in Held(new) <=> y \in Held(it)
<1> DEFINE b == it.buckets
           m == it.seq
           new == AssembleCompleteMessage(it)
           whole == /\ Len(b) = 1 /\ b[1].off = 0
                    /\ b[1].sz = LengthOf[m]
<1>1. new = IF whole THEN [it EXCEPT !.ready = TRUE, !.full = b[1].buf, !.buckets = <<>>]
            ELSE it
  BY DEF AssembleCompleteMessage
<1>2. CASE whole
  <2>0. m \in Messages /\ Layout(m, b) /\ b \in Seq(BucketSet) /\ IsItem(it)
    BY DEF Sound, Layout
  <2>1. LengthOf[m] \in Nat
    BY <2>0, MessageType
  <2>2. new = [it EXCEPT !.ready = TRUE, !.full = b[1].buf, !.buckets = <<>>]
    BY <1>1, <1>2
  <2>3. new \in [seq : {m}, buckets : {<<>>}, received : {it.received},
                 ready : {TRUE}, full : {b[1].buf}]
    <3> HIDE DEF new
    <3> QED
      BY <2>0, <2>2 DEF IsItem
  <2> HIDE DEF new
  <2>4. new = [seq |-> m, buckets |-> <<>>, received |-> it.received,
               ready |-> TRUE, full |-> b[1].buf]
    BY <2>3
  <2>5. IsItem(new) /\ new.seq = m /\ new.ready = TRUE /\ new.full = b[1].buf
    BY <2>4 DEF IsItem
  <2>6. b[1].buf = Bytes(m, 0, LengthOf[m])
    <3>1. RightBucket(m, b[1])
      BY <2>0, <1>2 DEF Layout
    <3>2. 0 + LengthOf[m] = LengthOf[m]
      BY <2>1
    <3> QED
      BY <3>1, <3>2, <1>2 DEF RightBucket
  <2>7. Sound(new)
    BY <2>0, <2>5, <2>6 DEF Sound
  <2>8. ASSUME NEW y PROVE y \in Held(new) <=> y \in Held(it)
    <3>1. y \in Held(new) <=> y \in 0 .. LengthOf[m] - 1
      BY <2>5 DEF Held
    <3>2. Held(it) = Covered(b)
      BY DEF Held, Covered
    <3>3. y \in Covered(b) <=> y \in Int /\ \E i \in 1 .. Len(b) : Inside(y, b[i])
      BY <2>0, CoveredIs
    <3>4. y \in Covered(b) <=> y \in Int /\ Inside(y, b[1])
      <4>1. \A i \in 1 .. Len(b) : i = 1
        BY <1>2
      <4>2. 1 \in 1 .. Len(b)
        BY <1>2
      <4> QED
        BY <4>1, <4>2, <3>3
    <3>5. Inside(y, b[1]) <=> 0 <= y /\ y < 0 + LengthOf[m]
      BY <1>2 DEF Inside
    <3> QED
      BY <3>1, <3>2, <3>4, <3>5, <2>1
  <2> QED
    BY <2>5, <2>7, <2>8 DEF new
<1>3. CASE ~ whole
  <2>1. new = it
    BY <1>1, <1>3
  <2>2. ~ (Len(b) >= 1 /\ it.received = LengthOf[m])
    BY <1>3, WholeCovered DEF Sound, Counted
  <2> QED
    BY <2>1, <2>2
<1> QED
  BY <1>2, <1>3

\* DtlsMsgSet: an item takes every fragment of its message except one that it turns
\* away, loses no byte it held, and stays complete once it is.
LEMMA SetStep ==
    ASSUME NEW f \in AnyFragment, NEW it, Sound(it), it.seq = f.seq
    PROVE  HasTaken(DtlsMsgSet(it, f), it, f)
<1>0. f.off \in Nat /\ f.sz \in Nat /\ EndOf(f) = f.off + f.sz /\ EndOf(f) <= LengthOf[f.seq]
      /\ LengthOf[f.seq] \in Nat
  BY FragmentType DEF EndOf
<1>1. CASE it.ready
  <2>1. DtlsMsgSet(it, f) = it
    BY <1>1 DEF DtlsMsgSet
  <2>2. Held(it) = 0 .. LengthOf[f.seq] - 1
    BY <1>1 DEF Held
  <2>3. \A y \in Int : f.off <= y /\ y < EndOf(f) => y \in Held(it)
    BY <2>2, <1>0
  <2> QED
    BY <2>1, <2>3, <1>1 DEF HasTaken, ItemOK
<1>2. CASE ~ it.ready
  <2> DEFINE st == StoreInBuckets(it, f)
             new == DtlsMsgSet(it, f)
  <2>1. HasStored(st, it, f)
    <3>1. /\ IsItem(it) /\ Layout(f.seq, it.buckets) /\ Counted(it)
          /\ Len(it.buckets) <= DTLS_FRAG_POOL_SZ
      BY <1>2 DEF Sound
    <3> QED
      BY <3>1, StoreStep
  <2>2. new = IF st.received = LengthOf[f.seq] THEN AssembleCompleteMessage(st) ELSE st
    BY <1>2 DEF DtlsMsgSet
  <2> HIDE DEF st, new
  <2>3. /\ IsItem(st) /\ st.seq = it.seq /\ st.ready = it.ready
        /\ Layout(f.seq, st.buckets) /\ Len(st.buckets) <= DTLS_FRAG_POOL_SZ
        /\ Counted(st) /\ Len(st.buckets) >= 1
        /\ \A y : y \in Covered(st.buckets) <=>
             \/ y \in Covered(it.buckets)
             \/ y \in Int /\ f.off <= y /\ y < EndOf(f) /\ ~ TurnedAway(it, f)
    BY <2>1 DEF HasStored, Rebucketed
  <2>4. Sound(st) /\ ~ st.ready
    BY <2>3, <1>2 DEF Sound
  <2>5. Held(st) = Covered(st.buckets) /\ Held(it) = Covered(it.buckets)
    BY <2>4, <1>2 DEF Held, Covered
  <2>6. /\ ItemOK(new) /\ new.seq = st.seq
        /\ \A y : y \in Held(new) <=> y \in Held(st)
    <3>1. CASE st.received = LengthOf[f.seq]
      <4>1. /\ Sound(new) /\ new.seq = st.seq /\ new.ready
            /\ \A y : y \in Held(new) <=> y \in Held(st)
        BY <2>2, <2>3, <2>4, <3>1, AssembleStep
      <4> QED
        BY <4>1 DEF ItemOK
    <3>2. CASE st.received # LengthOf[f.seq]
      <4>1. new = st
        BY <2>2, <3>2
      <4>2. st.received \in Nat /\ st.received <= LengthOf[f.seq] /\ f.seq \in Messages
        BY <2>3, CoveredFinite DEF Counted, Sound
      <4>3. st.received < LengthOf[f.seq]
        BY <1>0, <3>2, <4>2
      <4> QED
        BY <2>3, <2>4, <4>1, <4>3 DEF ItemOK
    <3> QED
      BY <3>1, <3>2
  <2>7. HasTaken(new, it, f)
    BY <2>3, <2>5, <2>6, <1>2 DEF HasTaken
  <2> QED
    BY <2>7 DEF new
<1> QED
  BY <1>1, <1>2

\* An item made for a fragment: new, and complete at once if the fragment is the
\* whole message.
LEMMA NewStep ==
    ASSUME NEW f \in AnyFragment
    PROVE  LET new == DtlsMsgSet(DtlsMsgNew(f.seq), f)
           IN  /\ ItemOK(new) /\ new.seq = f.seq
               /\ Whole(f) => new.ready
               /\ \A y : y \in Held(new) <=> y \in Int /\ f.off <= y /\ y < EndOf(f)
<1> DEFINE it == DtlsMsgNew(f.seq)
           st == StoreInBuckets(it, f)
           new == DtlsMsgSet(it, f)
           e == Bucket(f.off, Data(f))
<1>0. /\ f.seq \in Messages /\ f.off \in Nat /\ f.sz \in Nat
      /\ LengthOf[f.seq] \in Nat /\ f.off + f.sz <= LengthOf[f.seq]
      /\ DTLS_FRAG_POOL_SZ \in Nat \ {0}
  BY FragmentType, ReassemblyAssumption
<1>1. it = [seq |-> f.seq, buckets |-> <<>>, received |-> 0,
            ready |-> FALSE, full |-> <<>>]
  BY DEF DtlsMsgNew
<1> HIDE DEF it
<1>2. it.seq = f.seq /\ it.buckets = <<>> /\ it.received = 0 /\ it.ready = FALSE
      /\ IsItem(it)
  BY <1>1 DEF IsItem
<1>3. Layout(f.seq, <<>>) /\ Len(<<>>) = 0
  BY DEF Layout
<1>4. Sound(it)
  <2>0. Counted(it)
    <3>1. <<>> \in Seq(BucketSet)
      OBVIOUS
    <3>2. \A y : y \in Covered(<<>>) <=> y \in Int /\ \E i \in 1 .. 0 : Inside(y, <<>>[i])
      BY <3>1, <1>3, CoveredIs
    <3>3. Covered(<<>>) = {}
      BY <3>2
    <3> QED
      BY <1>2, <3>3, FS_EmptySet DEF Counted
  <2>1. Len(<<>>) <= DTLS_FRAG_POOL_SZ
    BY <1>0, <1>3
  <2>2. it.ready \in BOOLEAN /\ ~ it.ready
    BY <1>2
  <2> QED
    BY <2>0, <2>1, <2>2, <1>0, <1>2, <1>3 DEF Sound
<1>5. HasTaken(new, it, f)
  BY <1>2, <1>4, SetStep
<1>6. \A y : y \notin Held(it)
  <2>1. Held(it) = Covered(<<>>)
    BY <1>2 DEF Held, Covered
  <2>2. <<>> \in Seq(BucketSet)
    OBVIOUS
  <2>3. \A y : y \in Covered(<<>>) <=> y \in Int /\ \E i \in 1 .. 0 : Inside(y, <<>>[i])
    BY <2>2, <1>3, CoveredIs
  <2> QED
    BY <2>1, <2>3
<1>7. ~ TurnedAway(it, f)
  BY <1>0, <1>2, <1>3 DEF TurnedAway
<1>8. ASSUME Whole(f) PROVE new.ready
  <2>1. PlaceOf(<<>>, f) = 1
    <3>1. {i \in 1 .. Len(<<>>) : f.off <= <<>>[i].off + <<>>[i].sz} = {}
      BY <1>3
    <3> QED
      BY <3>1, <1>3 DEF PlaceOf
  <2>2. ~ Known(<<>>, f) /\ Disjoint(<<>>, f)
    BY <2>1, <1>3 DEF Known, Disjoint
  <2>3. st = [it EXCEPT !.buckets = InsertAt(<<>>, 1, e), !.received = 0 + f.sz]
    BY <2>1, <2>2, <1>2 DEF StoreInBuckets
  <2>4. InsertAt(<<>>, 1, e) = <<e>>
    <3>1. SubSeq(<<>>, 1, 0) = <<>> /\ 1 - 1 = 0
      OBVIOUS
    <3> HIDE DEF e
    <3>2. <<>> \o <<e>> \o <<>> = <<e>>
      OBVIOUS
    <3>3. InsertAt(<<>>, 1, e) = SubSeq(<<>>, 1, 1 - 1) \o <<e>> \o SubSeq(<<>>, 1, Len(<<>>))
      BY DEF InsertAt
    <3>4. SubSeq(<<>>, 1, 1 - 1) = <<>> /\ SubSeq(<<>>, 1, Len(<<>>)) = <<>>
      BY <3>1, <1>3
    <3> QED
      BY <3>2, <3>3, <3>4
  <2>5. f.sz = LengthOf[f.seq] /\ f.off = 0
    BY <1>0, <1>8 DEF Whole
  <2>6. e.off = 0 /\ e.sz = LengthOf[f.seq]
    BY <2>5, DataIs DEF Bucket
  <2> HIDE DEF e
  <2>7. st = [seq |-> f.seq, buckets |-> <<e>>, received |-> f.sz,
              ready |-> FALSE, full |-> <<>>]
    <3>1. st \in [seq : {f.seq}, buckets : {<<e>>}, received : {f.sz},
                  ready : {FALSE}, full : {<<>>}]
      <4>1. 0 + f.sz = f.sz
        BY <1>0
      <4>2. st = [it EXCEPT !.buckets = <<e>>, !.received = f.sz]
        BY <4>1, <2>3, <2>4
      <4> HIDE DEF st
      <4> QED
        BY <4>2, <1>1
    <3> HIDE DEF st
    <3> QED
      BY <3>1
  <2>8. new = AssembleCompleteMessage(st)
    <3>1. st.received = LengthOf[f.seq]
      <4> HIDE DEF st
      <4> QED
        BY <2>5, <2>7
    <3> QED
      BY <3>1, <1>2 DEF DtlsMsgSet
  <2> HIDE DEF st, new
  <2>9. /\ st.buckets = <<e>> /\ st.seq = f.seq
    BY <2>7
  <2>10. Len(st.buckets) = 1 /\ st.buckets[1] = e
    BY <2>9
  <2>11. new = [st EXCEPT !.ready = TRUE, !.full = st.buckets[1].buf, !.buckets = <<>>]
    BY <2>6, <2>8, <2>9, <2>10 DEF AssembleCompleteMessage
  <2> QED
    BY <2>7, <2>11
<1> HIDE DEF new
<1>9. /\ ItemOK(new) /\ new.seq = f.seq
      /\ \A y : y \in Held(new) <=> y \in Int /\ f.off <= y /\ y < EndOf(f)
  BY <1>2, <1>5, <1>6, <1>7 DEF HasTaken
<1> QED
  BY <1>8, <1>9 DEF new, it

-----------------------------------------------------------------------------
(***************************************************************************)
(* The list: items in the order of their messages, at most one each.       *)
(***************************************************************************)
ListOK(s) ==
    /\ \E S : s \in Seq(S)
    /\ \A i \in 1 .. Len(s) : ItemOK(s[i])
    /\ \A i \in 1 .. Len(s), j \in 1 .. Len(s) : i < j => s[i].seq < s[j].seq

\* The list t is s with its item i changed by fragment f.
HasChanged(t, s, i, f) ==
    /\ i \in 1 .. Len(s) /\ Len(t) = Len(s) /\ s[i].seq = f.seq
    /\ HasTaken(t[i], s[i], f)
    /\ \A k \in 1 .. Len(s) : k # i => t[k] = s[k]

\* The list t is s with a new item at p that holds fragment f.
HasInserted(t, s, p, f) ==
    /\ p \in 1 .. Len(s) + 1 /\ Len(t) = Len(s) + 1
    /\ \A k \in 1 .. Len(s) : s[k].seq # f.seq
    /\ t[p].seq = f.seq /\ (Whole(f) => t[p].ready)
    /\ \A y : y \in Held(t[p]) <=> y \in Int /\ f.off <= y /\ y < EndOf(f)
    /\ \A k \in 1 .. Len(s) + 1 : /\ k < p => t[k] = s[k]
                                  /\ k > p => t[k] = s[k - 1]

\* A fragment of a message that has an item.
LEMMA ChangeStep ==
    ASSUME NEW f \in AnyFragment, NEW s, ListOK(s), IndexOf(s, f.seq) # {}
    PROVE  LET t == DtlsMsgStore(s, f)
           IN  ListOK(t) /\ \E i \in 1 .. Len(s) : HasChanged(t, s, i, f)
<1> DEFINE at == IndexOf(s, f.seq)
           i == Min(at)
           e == DtlsMsgSet(s[i], f)
           t == DtlsMsgStore(s, f)
<1>1. PICK S : s \in Seq(S)
  BY DEF ListOK
<1>2. Len(s) \in Nat
  BY <1>1
<1>3. at \subseteq Nat /\ at \subseteq 1 .. Len(s)
  BY <1>2 DEF IndexOf
<1>4. i \in at
  <2> HIDE DEF at
  <2> QED
    BY <1>3, MinIs DEF at
<1>5. i \in 1 .. Len(s) /\ s[i].seq = f.seq
  BY <1>4 DEF IndexOf
<1>6. t = [s EXCEPT ![i] = e]
  BY DEF DtlsMsgStore, ReplaceAt
<1> HIDE DEF i, at
<1>7. ItemOK(s[i]) /\ Sound(s[i])
  BY <1>5 DEF ListOK, ItemOK
<1>8. HasTaken(e, s[i], f)
  BY <1>5, <1>7, SetStep
<1> HIDE DEF e, t
<1>9. /\ t \in Seq(S \cup {e}) /\ Len(t) = Len(s) /\ t[i] = e
      /\ \A k \in 1 .. Len(s) : k # i => t[k] = s[k]
  <2>1. s \in [1 .. Len(s) -> S]
    BY <1>1
  <2>2. t \in [1 .. Len(s) -> S \cup {e}]
    BY <2>1, <1>5, <1>6
  <2>3. t \in Seq(S \cup {e}) /\ Len(t) = Len(s)
    BY <2>2, <1>2, Made
  <2> QED
    BY <2>1, <2>3, <1>5, <1>6
<1>10. HasChanged(t, s, i, f)
  BY <1>5, <1>8, <1>9 DEF HasChanged
<1>11. \A k \in 1 .. Len(s) : t[k].seq = s[k].seq /\ ItemOK(t[k])
  <2>1. e.seq = s[i].seq /\ ItemOK(e)
    BY <1>8 DEF HasTaken
  <2>2. \A k \in 1 .. Len(s) : ItemOK(s[k])
    BY DEF ListOK
  <2> QED
    BY <2>1, <2>2, <1>9
<1>12. ListOK(t)
  <2>1. \A k \in 1 .. Len(s), j \in 1 .. Len(s) : k < j => s[k].seq < s[j].seq
    BY DEF ListOK
  <2>2. \A k \in 1 .. Len(t), j \in 1 .. Len(t) : k < j => t[k].seq < t[j].seq
    BY <2>1, <1>9, <1>11
  <2>3. \A k \in 1 .. Len(t) : ItemOK(t[k])
    BY <1>9, <1>11
  <2>4. \E T : t \in Seq(T)
    BY <1>9
  <2> QED
    BY <2>2, <2>3, <2>4 DEF ListOK
<1> QED
  BY <1>5, <1>10, <1>12 DEF t

\* A fragment of a message that has none.
LEMMA InsertStep ==
    ASSUME NEW f \in AnyFragment, NEW s, ListOK(s), IndexOf(s, f.seq) = {}
    PROVE  LET t == DtlsMsgStore(s, f)
           IN  ListOK(t) /\ \E p \in 1 .. Len(s) + 1 : HasInserted(t, s, p, f)
<1> DEFINE later == {i \in 1 .. Len(s) : f.seq < s[i].seq}
           p == InsertPlace(s, f.seq)
           e == DtlsMsgSet(DtlsMsgNew(f.seq), f)
           t == DtlsMsgStore(s, f)
           n == Len(s)
<1>1. PICK S : s \in Seq(S)
  BY DEF ListOK
<1>2. n \in Nat /\ f.seq \in Nat
  BY <1>1, FragmentType
<1>3. \A k \in 1 .. n : s[k].seq # f.seq
  BY DEF IndexOf
<1>4. \A k \in 1 .. n : s[k].seq \in Nat /\ ItemOK(s[k])
  <2>1. \A k \in 1 .. n : s[k].seq \in Messages /\ ItemOK(s[k])
    BY DEF ListOK, ItemOK, Sound
  <2> QED
    BY <2>1, MessageType
<1>5. \A i \in 1 .. n, j \in 1 .. n : i < j => s[i].seq < s[j].seq
  BY DEF ListOK
<1>6. /\ p \in 1 .. n + 1
      /\ \A k \in 1 .. n : k < p => s[k].seq < f.seq
      /\ \A k \in 1 .. n : k >= p => f.seq < s[k].seq
  <2>0. p = IF later = {} THEN n + 1 ELSE Min(later)
    BY DEF InsertPlace
  <2>1. later \subseteq Nat /\ later \subseteq 1 .. n
    BY <1>2
  <2>2. \A k \in 1 .. n : k \notin later => s[k].seq < f.seq
    BY <1>2, <1>3, <1>4
  <2>3. \A k \in later : f.seq < s[k].seq
    OBVIOUS
  <2> HIDE DEF later, p
  <2>4. CASE later = {}
    BY <2>0, <2>2, <2>4, <1>2
  <2>5. CASE later # {}
    <3>1. p \in later /\ \A y \in later : p <= y
      BY <2>0, <2>1, <2>5, MinIs
    <3>2. p \in 1 .. n /\ p \in Nat
      BY <3>1, <2>1
    <3>3. ASSUME NEW k \in 1 .. n, k < p PROVE s[k].seq < f.seq
      <4>1. k \notin later
        BY <3>1, <3>2, <3>3, <1>2
      <4> QED
        BY <4>1, <2>2
    <3>4. ASSUME NEW k \in 1 .. n, k >= p PROVE f.seq < s[k].seq
      <4>1. f.seq < s[p].seq
        BY <3>1, <2>3
      <4>2. CASE k = p
        BY <4>1, <4>2
      <4>3. CASE p < k
        <5>1. s[p].seq < s[k].seq
          BY <4>3, <3>2, <1>5
        <5> QED
          BY <5>1, <4>1, <3>2, <1>2, <1>4
      <4>4. k = p \/ p < k
        BY <3>2, <3>4, <1>2
      <4> QED
        BY <4>2, <4>3, <4>4
    <3> QED
      BY <3>2, <3>3, <3>4, <1>2
  <2> QED
    BY <2>4, <2>5
<1>7. t = Splice(s, p, p, e)
  BY DEF DtlsMsgStore, InsertAt, Splice
<1>8. /\ ItemOK(e) /\ e.seq = f.seq /\ (Whole(f) => e.ready)
      /\ \A y : y \in Held(e) <=> y \in Int /\ f.off <= y /\ y < EndOf(f)
  BY NewStep
<1> HIDE DEF p, e, t
<1>9. IsSplice(t, S \cup {e}, s, p, p, e)
  <2>1. s \in Seq(S \cup {e}) /\ e \in S \cup {e}
    BY <1>1
  <2>2. p \in Nat \ {0} /\ p \in Nat /\ p <= p /\ p <= Len(s) + 1
    BY <1>2, <1>6
  <2> HIDE DEF n
  <2> QED
    BY <2>1, <2>2, <1>7, SpliceIs
<1>10. /\ t \in Seq(S \cup {e}) /\ Len(t) = n + 1
       /\ \A i \in 1 .. n + 1 :
            t[i] = IF i < p THEN s[i] ELSE IF i = p THEN e ELSE s[i - 1]
  <2>1. /\ t \in Seq(S \cup {e}) /\ Len(t) = n + p - p + 1
        /\ \A i \in 1 .. n + p - p + 1 :
             t[i] = IF i < p THEN s[i] ELSE IF i = p THEN e ELSE s[i + p - p - 1]
    BY <1>9 DEF IsSplice
  <2>2. p \in Int
    BY <1>6, <1>2
  <2>3. n + p - p + 1 = n + 1
    BY <2>2, <1>2
  <2>4. \A i \in 1 .. n + 1 : i + p - p - 1 = i - 1
    BY <2>2, <1>2
  <2> HIDE DEF n
  <2> QED
    BY <2>1, <2>3, <2>4
<1>11. ASSUME NEW i \in 1 .. n + 1
       PROVE  \/ i < p /\ i \in 1 .. n /\ t[i] = s[i]
              \/ i = p /\ t[i] = e
              \/ i > p /\ i - 1 \in 1 .. n /\ i - 1 >= p /\ t[i] = s[i - 1]
  <2>0. i \in Nat /\ p \in Nat /\ 1 <= i /\ i <= n + 1 /\ 1 <= p /\ p <= n + 1
    BY <1>2, <1>6
  <2>1. t[i] = IF i < p THEN s[i] ELSE IF i = p THEN e ELSE s[i - 1]
    BY <1>10
  <2>2. CASE i < p
    BY <2>0, <2>1, <2>2, <1>2
  <2>3. CASE i = p
    BY <2>0, <2>1, <2>3
  <2>4. CASE i > p
    <3>1. ~ (i < p) /\ i # p /\ i - 1 \in 1 .. n /\ i - 1 >= p
      BY <2>0, <2>4, <1>2
    <3> QED
      BY <2>1, <2>4, <3>1
  <2>5. i < p \/ i = p \/ i > p
    BY <2>0
  <2> QED
    BY <2>2, <2>3, <2>4, <2>5
<1>12. HasInserted(t, s, p, f)
  <2>1. p \in 1 .. n + 1 /\ t[p] = e
    BY <1>6, <1>10, <1>2
  <2>2. \A k \in 1 .. n + 1 : /\ k < p => t[k] = s[k]
                              /\ k > p => t[k] = s[k - 1]
    BY <1>2, <1>6, <1>10
  <2> QED
    BY <2>1, <2>2, <1>3, <1>8, <1>10 DEF HasInserted
<1>13. ListOK(t)
  <2>1. \A i \in 1 .. n + 1 : ItemOK(t[i])
    BY <1>4, <1>8, <1>11
  <2>2. ASSUME NEW i \in 1 .. n + 1, NEW j \in 1 .. n + 1, i < j
        PROVE  t[i].seq < t[j].seq
    <3>0. i \in Nat /\ j \in Nat /\ p \in Nat
      BY <1>2, <1>6
    <3>1. CASE i < p /\ j < p
      <4>1. i \in 1 .. n /\ j \in 1 .. n /\ t[i] = s[i] /\ t[j] = s[j]
        BY <3>0, <3>1, <1>11
      <4> QED
        BY <4>1, <2>2, <1>5
    <3>2. CASE i < p /\ j = p
      <4>1. i \in 1 .. n /\ t[i] = s[i] /\ t[j] = e
        BY <3>0, <3>2, <1>11
      <4> QED
        BY <4>1, <3>2, <1>6, <1>8
    <3>3. CASE i < p /\ j > p
      <4>1. i \in 1 .. n /\ t[i] = s[i] /\ j - 1 \in 1 .. n /\ t[j] = s[j - 1]
        BY <3>0, <3>3, <1>11
      <4>2. i < j - 1
        BY <3>0, <3>3
      <4> QED
        BY <4>1, <4>2, <1>5
    <3>4. CASE i = p /\ j > p
      <4>1. t[i] = e /\ j - 1 \in 1 .. n /\ j - 1 >= p /\ t[j] = s[j - 1]
        BY <3>0, <3>4, <1>11
      <4> QED
        BY <4>1, <1>6, <1>8
    <3>5. CASE i > p /\ j > p
      <4>1. i - 1 \in 1 .. n /\ t[i] = s[i - 1] /\ j - 1 \in 1 .. n /\ t[j] = s[j - 1]
        BY <3>0, <3>5, <1>11
      <4>2. i - 1 < j - 1
        BY <3>0, <2>2
      <4> QED
        BY <4>1, <4>2, <1>5
    <3>6. \/ i < p /\ (j < p \/ j = p \/ j > p)
          \/ (i = p \/ i > p) /\ j > p
      BY <3>0, <2>2
    <3> QED
      BY <3>1, <3>2, <3>3, <3>4, <3>5, <3>6
  <2>3. \E T : t \in Seq(T)
    BY <1>10
  <2> QED
    BY <2>1, <2>2, <2>3, <1>10 DEF ListOK
<1> QED
  BY <1>6, <1>12, <1>13 DEF t

-----------------------------------------------------------------------------
(***************************************************************************)
(* Draining the head of the list.                                          *)
(***************************************************************************)
Rest(s, k) == SubSeq(s, k + 1, Len(s))

\* The messages handed over so far, when exp is the next one.
Sent(d, exp) ==
    /\ d \in Seq(Seq(Byte)) /\ Len(d) = exp - 1
    /\ \A m \in 1 .. Len(d) : d[m] = Bytes(m, 0, LengthOf[m])

\* k items at the head are complete and next in order, and the one after is not.
Drains(s, exp, k) ==
    /\ k \in 0 .. Len(s)
    /\ \A i \in 1 .. k : s[i].seq = exp + i - 1 /\ s[i].ready
    /\ k < Len(s) => ~ (s[k + 1].seq = exp + k /\ s[k + 1].ready)

\* That is what is drained.
LEMMA DrainableIs ==
    ASSUME NEW s, ListOK(s), NEW exp \in Nat
    PROVE  Drains(s, exp, Drainable(s, exp))
<1> DEFINE n == Len(s)
           Good(k) == \A i \in 1 .. k : s[i].seq = exp + i - 1 /\ s[i].ready
           K == {k \in 0 .. n : Good(k)}
           k == Drainable(s, exp)
<1>1. n \in Nat
  BY DEF ListOK
<1>2. k = Max(K)
  BY DEF Drainable
<1>3. 0 \in K
  BY <1>1
<1>4. K \subseteq 0 .. n
  OBVIOUS
<1> HIDE DEF k
<1>5. k \in K /\ \A y \in K : y <= k
  <2> HIDE DEF K, n
  <2> QED
    BY <1>1, <1>2, <1>3, <1>4, MaxIs
<1>6. k \in 0 .. n /\ k \in Nat /\ Good(k)
  BY <1>1, <1>5
<1>7. ASSUME k < n, s[k + 1].seq = exp + k, s[k + 1].ready PROVE FALSE
  <2>1. ASSUME NEW i \in 1 .. k + 1 PROVE s[i].seq = exp + i - 1 /\ s[i].ready
    <3>1. i \in 1 .. k \/ i = k + 1
      BY <1>6
    <3>2. CASE i \in 1 .. k
      BY <3>2, <1>6
    <3>3. CASE i = k + 1
      <4>1. exp + i - 1 = exp + k
        BY <3>3, <1>6
      <4> QED
        BY <4>1, <3>3, <1>7
    <3> QED
      BY <3>1, <3>2, <3>3
  <2>2. k + 1 \in K
    BY <2>1, <1>1, <1>6, <1>7
  <2>3. k + 1 <= k
    BY <2>2, <1>5
  <2> QED
    BY <2>3, <1>6
<1> QED
  BY <1>6, <1>7 DEF Drains, k

\* What is left is a list again.
LEMMA RestIs ==
    ASSUME NEW s, ListOK(s), NEW k \in 0 .. Len(s)
    PROVE  /\ ListOK(Rest(s, k)) /\ Len(Rest(s, k)) = Len(s) - k
           /\ \A i \in 1 .. Len(s) - k : k + i \in 1 .. Len(s) /\ Rest(s, k)[i] = s[k + i]
<1> DEFINE r == Rest(s, k)
           n == Len(s)
<1>1. PICK S : s \in Seq(S)
  BY DEF ListOK
<1>2. n \in Nat /\ k \in Nat /\ k <= n
  BY <1>1
<1>3. /\ r \in Seq(S) /\ Len(r) = n - k
      /\ \A i \in 1 .. n - k : r[i] = s[k + i]
  <2>1. k + 1 \in Nat \ {0} /\ k + 1 <= n + 1 /\ n <= n
    BY <1>2
  <2>2. /\ r \in Seq(S) /\ Len(r) = n - (k + 1) + 1
        /\ \A i \in 1 .. n - (k + 1) + 1 : r[i] = s[(k + 1) + i - 1]
    BY <2>1, <1>1, <1>2, SubIs DEF Rest
  <2>3. n - (k + 1) + 1 = n - k /\ \A i \in 1 .. n - k : (k + 1) + i - 1 = k + i
    BY <1>2
  <2> HIDE DEF r, n
  <2> QED
    BY <2>2, <2>3
<1> HIDE DEF r
<1>4. \A i \in 1 .. n - k : k + i \in 1 .. n
  BY <1>2
<1>5. \A i \in 1 .. n - k, j \in 1 .. n - k : i < j => k + i < k + j
  BY <1>2
<1>6. \A i \in 1 .. n : ItemOK(s[i])
  BY DEF ListOK
<1>7. \A i \in 1 .. n, j \in 1 .. n : i < j => s[i].seq < s[j].seq
  BY DEF ListOK
<1> HIDE DEF n
<1>8. \A i \in 1 .. Len(r) : ItemOK(r[i])
  BY <1>3, <1>4, <1>6
<1>9. \A i \in 1 .. Len(r), j \in 1 .. Len(r) : i < j => r[i].seq < r[j].seq
  BY <1>3, <1>4, <1>5, <1>7
<1>10. ListOK(r)
  BY <1>3, <1>8, <1>9 DEF ListOK
<1> QED
  BY <1>3, <1>4, <1>10 DEF r, n

\* The drained items are the next messages, whole.
LEMMA SentStep ==
    ASSUME NEW s, ListOK(s), NEW exp \in Nat \ {0}, NEW k, Drains(s, exp, k),
           NEW d, Sent(d, exp)
    PROVE  Sent(d \o [i \in 1 .. k |-> s[i].full], exp + k)
<1> DEFINE out == [i \in 1 .. k |-> s[i].full]
           t == d \o out
<1>0. Len(s) \in Nat
  BY DEF ListOK
<1>1. k \in 0 .. Len(s) /\ k \in Nat /\ \A i \in 1 .. k : s[i].seq = exp + i - 1 /\ s[i].ready
  BY <1>0 DEF Drains
<1>2. ASSUME NEW i \in 1 .. k
      PROVE  /\ exp + i - 1 \in Messages
             /\ s[i].full = Bytes(exp + i - 1, 0, LengthOf[exp + i - 1])
             /\ s[i].full \in Seq(Byte)
  <2>1. i \in 1 .. Len(s)
    BY <1>0, <1>1
  <2>2. ItemOK(s[i])
    BY <2>1 DEF ListOK
  <2>3. s[i].seq = exp + i - 1 /\ s[i].ready
    BY <1>1
  <2> DEFINE m == exp + i - 1
  <2> HIDE DEF m
  <2>4. m \in Messages /\ s[i].full = Bytes(m, 0, LengthOf[m])
    BY <2>2, <2>3 DEF ItemOK, Sound, m
  <2>5. LengthOf[m] \in Nat /\ 0 <= LengthOf[m]
    BY <2>4, MessageType
  <2>6. Bytes(m, 0, LengthOf[m]) \in Seq(Byte)
    BY <2>4, <2>5, BytesAre
  <2> QED
    BY <2>4, <2>6 DEF m
<1>3. out \in Seq(Seq(Byte)) /\ Len(out) = k
  <2>1. out \in [1 .. k -> Seq(Byte)]
    BY <1>2
  <2> HIDE DEF out
  <2> QED
    BY <2>1, <1>1, Made
<1>4. \A i \in 1 .. k : out[i] = Bytes(exp + i - 1, 0, LengthOf[exp + i - 1])
  BY <1>2
<1> HIDE DEF out
<1>5. d \in Seq(Seq(Byte)) /\ Len(d) = exp - 1 /\ Len(d) \in Nat
      /\ \A m \in 1 .. Len(d) : d[m] = Bytes(m, 0, LengthOf[m])
  BY DEF Sent
<1>6. /\ t \in Seq(Seq(Byte)) /\ Len(t) = Len(d) + k
      /\ \A i \in 1 .. Len(d) + k : t[i] = IF i <= Len(d) THEN d[i] ELSE out[i - Len(d)]
  <2>1. /\ t \in Seq(Seq(Byte)) /\ Len(t) = Len(d) + Len(out)
        /\ \A i \in 1 .. Len(d) + Len(out) :
             t[i] = IF i <= Len(d) THEN d[i] ELSE out[i - Len(d)]
    BY <1>3, <1>5, Concat
  <2> HIDE DEF t
  <2> QED
    BY <2>1, <1>3
<1> HIDE DEF t
<1>7. Len(t) = (exp + k) - 1
  BY <1>1, <1>5, <1>6
<1>8. ASSUME NEW m \in 1 .. Len(t) PROVE t[m] = Bytes(m, 0, LengthOf[m])
  <2>0. m \in Nat /\ 1 <= m /\ m <= Len(d) + k
    BY <1>1, <1>5, <1>6
  <2>1. CASE m <= Len(d)
    <3>1. m \in 1 .. Len(d)
      BY <2>0, <2>1, <1>5
    <3> QED
      BY <3>1, <2>1, <1>5, <1>6
  <2>2. CASE ~ (m <= Len(d))
    <3> DEFINE i == m - Len(d)
    <3>1. i \in 1 .. k /\ exp + i - 1 = m
      BY <2>0, <2>2, <1>1, <1>5
    <3>2. t[m] = out[i]
      BY <2>2, <1>6
    <3> HIDE DEF i
    <3>3. out[i] = Bytes(exp + i - 1, 0, LengthOf[exp + i - 1])
      BY <3>1, <1>4
    <3> QED
      BY <3>1, <3>2, <3>3
  <2> QED
    BY <2>1, <2>2
<1> QED
  BY <1>6, <1>7, <1>8 DEF Sent, t, out

-----------------------------------------------------------------------------
(***************************************************************************)
(* The invariant.  Kept: an item holds exactly the bytes noted for its     *)
(* message, and none are noted for a message still to come that has no     *)
(* item.  Tidy, for a peer that cuts a message the same way every time: no *)
(* item is left behind, and a message sent in one piece never has an       *)
(* incomplete item.                                                        *)
(***************************************************************************)
Kept(s, g, exp) ==
    /\ ListOK(s)
    /\ \A i \in 1 .. Len(s) : Held(s[i]) = g[s[i].seq]
    /\ \A m \in Messages :
         m >= exp /\ (\A i \in 1 .. Len(s) : s[i].seq # m) => g[m] = {}

WholeCut(m) == LengthOf[m] <= cut[m]

Tidy(s, exp) ==
    \A i \in 1 .. Len(s) : s[i].seq >= exp /\ (s[i].ready \/ ~ WholeCut(s[i].seq))

Types ==
    /\ mixed \in BOOLEAN /\ cut \in [Messages -> Nat \ {0}]
    /\ expected \in Nat \ {0} /\ got \in [Messages -> SUBSET Int]

IndInv ==
    /\ Types
    /\ Sent(delivered, expected)
    /\ Kept(list, got, expected)
    /\ Len(list) <= DTLS_POOL_SZ
    /\ ~ mixed => /\ Tidy(list, expected)
                  /\ \A i \in 1 .. Len(list) : list[i].seq = expected => ~ list[i].ready

\* The bytes noted when fragment f arrives.
Noted(f) == IF Refusable(f) THEN got
            ELSE [got EXCEPT ![f.seq] = @ \cup {f.off + k : k \in 0 .. f.sz - 1}]

\* They stay sets of offsets, and only those of the fragment's message change.
LEMMA NotedIs ==
    ASSUME NEW f \in AnyFragment, got \in [Messages -> SUBSET Int]
    PROVE  /\ Noted(f) \in [Messages -> SUBSET Int]
           /\ \A m \in Messages : m # f.seq => Noted(f)[m] = got[m]
           /\ \A y : y \in Noted(f)[f.seq] <=>
                \/ y \in got[f.seq]
                \/ ~ Refusable(f) /\ y \in Int /\ f.off <= y /\ y < EndOf(f)
<1> DEFINE F == {f.off + k : k \in 0 .. f.sz - 1}
<1>1. \A y : y \in F <=> y \in Int /\ f.off <= y /\ y < EndOf(f)
  BY FragmentRange
<1>2. f.seq \in Messages
  BY FragmentType
<1>3. Noted(f) = IF Refusable(f) THEN got ELSE [got EXCEPT ![f.seq] = got[f.seq] \cup F]
  BY DEF Noted
<1> HIDE DEF F
<1>4. CASE Refusable(f)
  BY <1>3, <1>4
<1>5. CASE ~ Refusable(f)
  <2>1. F \subseteq Int
    BY <1>1
  <2>2. Noted(f) = [got EXCEPT ![f.seq] = got[f.seq] \cup F]
    BY <1>3, <1>5
  <2>3. Noted(f)[f.seq] = got[f.seq] \cup F
    BY <2>2, <1>2
  <2>4. Noted(f) \in [Messages -> SUBSET Int]
    BY <2>1, <2>2, <1>2
  <2>5. \A m \in Messages : m # f.seq => Noted(f)[m] = got[m]
    BY <2>2
  <2> QED
    BY <2>3, <2>4, <2>5, <1>1, <1>5
<1> QED
  BY <1>4, <1>5

\* The fragment is one that may be refused if the item of its message turns it away.
LEMMA RefusableIs ==
    ASSUME NEW f \in AnyFragment, ListOK(list)
    PROVE  /\ IndexOf(list, f.seq) = {} => ~ Refusable(f)
           /\ \A i \in 1 .. Len(list) : list[i].seq = f.seq =>
                (Refusable(f) <=> ~ list[i].ready /\ TurnedAway(list[i], f))
<1>1. IndexOf(list, f.seq) = {} => ~ Refusable(f)
  BY DEF Refusable
<1>2. ASSUME NEW i \in 1 .. Len(list), list[i].seq = f.seq
      PROVE  Refusable(f) <=> ~ list[i].ready /\ TurnedAway(list[i], f)
  <2>1. IndexOf(list, f.seq) = {i}
    <3>0. Len(list) \in Nat /\ f.seq \in Nat
      BY FragmentType DEF ListOK
    <3>1. \A k \in 1 .. Len(list), j \in 1 .. Len(list) : k < j => list[k].seq < list[j].seq
      BY DEF ListOK
    <3>2. ASSUME NEW j \in 1 .. Len(list), list[j].seq = f.seq PROVE j = i
      <4>1. i < j \/ i = j \/ j < i
        BY <3>0
      <4>2. ~ (f.seq < f.seq)
        BY <3>0
      <4>3. ~ (i < j) /\ ~ (j < i)
        BY <4>2, <3>1, <3>2, <1>2
      <4> QED
        BY <4>1, <4>3
    <3> QED
      BY <3>2, <1>2 DEF IndexOf
  <2> QED
    BY <2>1 DEF Refusable, TurnedAway
<1> QED
  BY <1>1, <1>2

\* Storing a fragment of a message still to come keeps the list and the notes in step.
LEMMA StoreKept ==
    ASSUME NEW f \in AnyFragment, Types, Kept(list, got, expected), f.seq >= expected
    PROVE  LET t == DtlsMsgStore(list, f)
           IN  /\ Kept(t, Noted(f), expected)
               /\ Len(t) \in Nat /\ Len(t) <= Len(list) + 1
<1> DEFINE t == DtlsMsgStore(list, f)
           g == Noted(f)
           n == Len(list)
<1>1. /\ g \in [Messages -> SUBSET Int]
      /\ \A m \in Messages : m # f.seq => g[m] = got[m]
      /\ \A y : y \in g[f.seq] <=>
           \/ y \in got[f.seq]
           \/ ~ Refusable(f) /\ y \in Int /\ f.off <= y /\ y < EndOf(f)
  BY NotedIs DEF Types
<1>2. /\ ListOK(list) /\ n \in Nat
      /\ \A i \in 1 .. n : Held(list[i]) = got[list[i].seq] /\ list[i].seq \in Messages
      /\ \A m \in Messages :
           m >= expected /\ (\A i \in 1 .. n : list[i].seq # m) => got[m] = {}
  BY DEF Kept, ListOK, ItemOK, Sound
<1>3. f.seq \in Messages
  BY FragmentType
<1>4. /\ IndexOf(list, f.seq) = {} => ~ Refusable(f)
      /\ \A i \in 1 .. n : list[i].seq = f.seq =>
           (Refusable(f) <=> ~ list[i].ready /\ TurnedAway(list[i], f))
  BY <1>2, RefusableIs
<1>5. CASE IndexOf(list, f.seq) # {}
  <2>1. ListOK(t) /\ \E i \in 1 .. n : HasChanged(t, list, i, f)
    BY <1>2, <1>5, ChangeStep
  <2> HIDE DEF t, g
  <2>2. PICK i \in 1 .. n : HasChanged(t, list, i, f)
    BY <2>1
  <2>3. /\ Len(t) = n /\ list[i].seq = f.seq
        /\ HasTaken(t[i], list[i], f)
        /\ \A k \in 1 .. n : k # i => t[k] = list[k]
    BY <2>2 DEF HasChanged
  <2>4. /\ t[i].seq = list[i].seq
        /\ \A y : y \in Held(t[i]) <=>
             \/ y \in Held(list[i])
             \/ /\ y \in Int /\ f.off <= y /\ y < EndOf(f)
                /\ list[i].ready \/ ~ TurnedAway(list[i], f)
    BY <2>3 DEF HasTaken
  <2>5. Held(t[i]) = g[t[i].seq]
    <3>1. Refusable(f) <=> ~ list[i].ready /\ TurnedAway(list[i], f)
      BY <2>3, <1>4
    <3>2. \A y : y \in Held(t[i]) <=> y \in g[f.seq]
      BY <3>1, <2>3, <2>4, <1>1, <1>2
    <3> QED
      BY <3>2, <2>3, <2>4
  <2>6. ASSUME NEW k \in 1 .. n, k # i PROVE Held(t[k]) = g[t[k].seq]
    <3>1. t[k] = list[k]
      BY <2>3, <2>6
    <3>2. list[k].seq # f.seq
      <4>1. k < i \/ i < k
        BY <2>6, <1>2
      <4>2. list[k].seq < list[i].seq \/ list[i].seq < list[k].seq
        BY <4>1, <1>2 DEF ListOK
      <4>3. f.seq \in Nat
        BY FragmentType
      <4> QED
        BY <4>2, <4>3, <2>3
    <3> QED
      BY <3>1, <3>2, <1>1, <1>2
  <2>7. ASSUME NEW m \in Messages, m >= expected, \A k \in 1 .. n : t[k].seq # m
        PROVE  g[m] = {}
    <3>1. m # f.seq
      BY <2>3, <2>4, <2>7
    <3>2. \A k \in 1 .. n : list[k].seq # m
      BY <2>3, <2>4, <2>7
    <3> QED
      BY <3>1, <3>2, <2>7, <1>1, <1>2
  <2>8. Kept(t, g, expected)
    BY <2>1, <2>3, <2>5, <2>6, <2>7 DEF Kept
  <2>9. Len(t) \in Nat /\ Len(t) <= n + 1
    BY <2>3, <1>2
  <2> QED
    BY <2>8, <2>9 DEF t, g
<1>6. CASE IndexOf(list, f.seq) = {}
  <2>1. ListOK(t) /\ \E p \in 1 .. n + 1 : HasInserted(t, list, p, f)
    BY <1>2, <1>6, InsertStep
  <2> HIDE DEF t, g
  <2>2. PICK p \in 1 .. n + 1 : HasInserted(t, list, p, f)
    BY <2>1
  <2>3. /\ Len(t) = n + 1 /\ t[p].seq = f.seq
        /\ \A k \in 1 .. n : list[k].seq # f.seq
        /\ \A y : y \in Held(t[p]) <=> y \in Int /\ f.off <= y /\ y < EndOf(f)
        /\ \A k \in 1 .. n + 1 : /\ k < p => t[k] = list[k]
                                 /\ k > p => t[k] = list[k - 1]
    BY <2>2 DEF HasInserted
  <2>4. Held(t[p]) = g[t[p].seq]
    <3>1. got[f.seq] = {}
      BY <2>3, <1>2, <1>3
    <3>2. \A y : y \in g[f.seq] <=> y \in Held(t[p])
      BY <3>1, <2>3, <1>1, <1>4, <1>6
    <3> QED
      BY <3>2, <2>3
  <2>5. ASSUME NEW k \in 1 .. n + 1, k # p
        PROVE  \E j \in 1 .. n : t[k] = list[j]
    <3>1. k < p \/ k > p
      BY <2>5, <1>2
    <3>2. CASE k < p
      <4>1. k \in 1 .. n
        BY <3>2, <1>2
      <4> QED
        BY <4>1, <3>2, <2>3
    <3>3. CASE k > p
      <4>1. k - 1 \in 1 .. n
        BY <3>3, <1>2
      <4> QED
        BY <4>1, <3>3, <2>3
    <3> QED
      BY <3>1, <3>2, <3>3
  <2>6. ASSUME NEW k \in 1 .. n + 1, k # p PROVE Held(t[k]) = g[t[k].seq]
    <3>1. PICK j \in 1 .. n : t[k] = list[j]
      BY <2>5, <2>6
    <3> QED
      BY <3>1, <2>3, <1>1, <1>2
  <2>7. ASSUME NEW m \in Messages, m >= expected, \A k \in 1 .. n + 1 : t[k].seq # m
        PROVE  g[m] = {}
    <3>1. m # f.seq
      BY <2>3, <2>7
    <3>2. ASSUME NEW j \in 1 .. n PROVE list[j].seq # m
      <4>1. CASE j < p
        <5>1. j \in 1 .. n + 1
          BY <1>2
        <5> QED
          BY <5>1, <4>1, <2>3, <2>7
      <4>2. CASE j >= p
        <5>1. j + 1 \in 1 .. n + 1 /\ j + 1 > p /\ (j + 1) - 1 = j
          BY <4>2, <1>2
        <5>2. t[j + 1] = list[j]
          BY <5>1, <2>3
        <5> QED
          BY <5>1, <5>2, <2>7
      <4>3. j < p \/ j >= p
        BY <1>2
      <4> QED
        BY <4>1, <4>2, <4>3
    <3> QED
      BY <3>1, <3>2, <2>7, <1>1, <1>2
  <2>8. Kept(t, g, expected)
    BY <2>1, <2>3, <2>4, <2>6, <2>7 DEF Kept
  <2>9. Len(t) \in Nat /\ Len(t) <= n + 1
    BY <2>3, <1>2
  <2> QED
    BY <2>8, <2>9 DEF t, g
<1> QED
  BY <1>5, <1>6

\* A number below the divisor is its own remainder.
LEMMA SmallRemainder ==
    ASSUME NEW a \in Nat, NEW d \in Nat \ {0}, a < d
    PROVE  a % d = a
  OBVIOUS

\* A peer that cuts messages one way sends one that fits in a fragment in one piece.
LEMMA SendsWhole ==
    ASSUME NEW f \in AnyFragment, Types, ~ mixed, Sendable(f)
    PROVE  Whole(f) <=> WholeCut(f.seq)
<1> DEFINE n == LengthOf[f.seq]
           d == cut[f.seq]
<1>1. /\ n \in Nat /\ d \in Nat \ {0} /\ f.off \in Nat /\ f.sz \in Nat
      /\ f.off + f.sz <= n
  BY FragmentType DEF Types
<1>2. f.off % d = 0 /\ (f.off < n \/ n = 0) /\ f.sz = Min({d, n - f.off})
  BY DEF Sendable
<1>3. f.sz = IF d <= n - f.off THEN d ELSE n - f.off
  <2>1. d \in Int /\ n - f.off \in Int
    BY <1>1
  <2> HIDE DEF d, n
  <2> QED
    BY <2>1, <1>2, OfTwo
<1>4. Whole(f) <=> f.sz = n
  BY DEF Whole
<1>5. WholeCut(f.seq) <=> n <= d
  BY DEF WholeCut
<1> HIDE DEF d, n
<1>6. ASSUME f.sz = n PROVE n <= d
  BY <1>1, <1>3, <1>6
<1>7. ASSUME n <= d PROVE f.sz = n
  <2>1. CASE n = 0
    BY <2>1, <1>1
  <2>2. CASE f.off < n
    <3>1. f.off < d
      BY <2>2, <1>1, <1>7
    <3>2. f.off % d = f.off
      BY <3>1, <1>1, SmallRemainder
    <3>3. f.off = 0
      BY <3>2, <1>2
    <3> QED
      BY <3>3, <1>1, <1>3, <1>7
  <2> QED
    BY <2>1, <2>2, <1>2
<1> QED
  BY <1>4, <1>5, <1>6, <1>7

\* With such a peer storing leaves no incomplete item of a message sent in one piece.
LEMMA StoreTidy ==
    ASSUME NEW f \in AnyFragment, Types, ListOK(list), f.seq >= expected,
           ~ mixed, Sendable(f), Tidy(list, expected)
    PROVE  LET t == DtlsMsgStore(list, f)
           IN  /\ Tidy(t, expected)
               /\ f.seq # expected =>
                    \A k \in 1 .. Len(t) : t[k].seq = expected =>
                      \E i \in 1 .. Len(list) : t[k] = list[i]
<1> DEFINE t == DtlsMsgStore(list, f)
           n == Len(list)
           Good(x) == x.seq >= expected /\ (x.ready \/ ~ WholeCut(x.seq))
           Old(x) == \E i \in 1 .. n : x = list[i]
<1>1. n \in Nat
  BY DEF ListOK
<1>2. Whole(f) <=> WholeCut(f.seq)
  BY SendsWhole
<1>3. \A i \in 1 .. n : Good(list[i])
  BY DEF Tidy
<1>4. ASSUME NEW k \in 1 .. Len(t) PROVE Good(t[k]) /\ (t[k].seq = f.seq \/ Old(t[k]))
  <2>1. CASE IndexOf(list, f.seq) # {}
    <3>1. \E i \in 1 .. n : HasChanged(t, list, i, f)
      BY <2>1, ChangeStep
    <3> HIDE DEF t
    <3>2. PICK i \in 1 .. n : HasChanged(t, list, i, f)
      BY <3>1
    <3>3. /\ Len(t) = n /\ list[i].seq = f.seq /\ HasTaken(t[i], list[i], f)
          /\ \A j \in 1 .. n : j # i => t[j] = list[j]
      BY <3>2 DEF HasChanged
    <3>4. t[i].seq = list[i].seq /\ (list[i].ready => t[i].ready)
      BY <3>3 DEF HasTaken
    <3>5. Good(list[i]) /\ Good(list[k])
      BY <3>3, <1>3
    <3>6. CASE k = i
      BY <3>3, <3>4, <3>5, <3>6
    <3>7. CASE k # i
      <4>1. t[k] = list[k] /\ k \in 1 .. n
        BY <3>3, <3>7
      <4> QED
        BY <4>1, <3>5
    <3> QED
      BY <3>6, <3>7
  <2>2. CASE IndexOf(list, f.seq) = {}
    <3>1. \E p \in 1 .. n + 1 : HasInserted(t, list, p, f)
      BY <2>2, InsertStep
    <3> HIDE DEF t
    <3>2. PICK p \in 1 .. n + 1 : HasInserted(t, list, p, f)
      BY <3>1
    <3>3. /\ Len(t) = n + 1 /\ t[p].seq = f.seq /\ (Whole(f) => t[p].ready)
          /\ \A j \in 1 .. n + 1 : /\ j < p => t[j] = list[j]
                                   /\ j > p => t[j] = list[j - 1]
      BY <3>2 DEF HasInserted
    <3>4. k < p \/ k = p \/ k > p
      BY <3>3, <1>1
    <3>5. CASE k = p
      BY <3>3, <3>5, <1>2
    <3>6. CASE k < p
      <4>1. k \in 1 .. n /\ t[k] = list[k]
        BY <3>3, <3>6, <1>1
      <4> QED
        BY <4>1, <1>3
    <3>7. CASE k > p
      <4>1. k - 1 \in 1 .. n /\ t[k] = list[k - 1]
        BY <3>3, <3>7, <1>1
      <4> QED
        BY <4>1, <1>3
    <3> QED
      BY <3>4, <3>5, <3>6, <3>7
  <2> QED
    BY <2>1, <2>2
<1> HIDE DEF t
<1>5. Tidy(t, expected)
  BY <1>4 DEF Tidy
<1>6. f.seq # expected =>
        \A k \in 1 .. Len(t) : t[k].seq = expected => Old(t[k])
  BY <1>4
<1> QED
  BY <1>5, <1>6 DEF t

\* Draining keeps the rest of the list and the notes in step.
LEMMA DrainKept ==
    ASSUME NEW s, NEW g, NEW exp \in Nat \ {0}, Kept(s, g, exp),
           NEW k, Drains(s, exp, k)
    PROVE  Kept(Rest(s, k), g, exp + k) /\ Len(Rest(s, k)) <= Len(s)
<1> DEFINE r == Rest(s, k)
           n == Len(s)
<1>1. ListOK(s) /\ n \in Nat /\ \A i \in 1 .. n : Held(s[i]) = g[s[i].seq]
  BY DEF Kept, ListOK
<1>2. k \in 0 .. n /\ k \in Nat /\ \A i \in 1 .. k : s[i].seq = exp + i - 1
  BY <1>1 DEF Drains
<1>3. /\ ListOK(r) /\ Len(r) = n - k
      /\ \A i \in 1 .. n - k : k + i \in 1 .. n /\ r[i] = s[k + i]
  BY <1>1, <1>2, RestIs
<1> HIDE DEF r
<1>4. \A i \in 1 .. Len(r) : Held(r[i]) = g[r[i].seq]
  BY <1>1, <1>3
<1>5. ASSUME NEW m \in Messages, m >= exp + k, \A i \in 1 .. Len(r) : r[i].seq # m
      PROVE  g[m] = {}
  <2>0. m \in Nat
    BY MessageType
  <2>1. ASSUME NEW i \in 1 .. n PROVE s[i].seq # m
    <3>1. CASE i <= k
      <4>1. i \in 1 .. k /\ exp + i - 1 < exp + k
        BY <3>1, <1>1, <1>2
      <4>2. s[i].seq = exp + i - 1
        BY <4>1, <1>2
      <4>3. exp + i - 1 \in Int /\ exp + k \in Int
        BY <4>1, <1>2
      <4> DEFINE a == exp + i - 1
      <4> HIDE DEF a
      <4> QED
        BY <4>1, <4>2, <4>3, <2>0, <1>5 DEF a
    <3>2. CASE ~ (i <= k)
      <4>1. i - k \in 1 .. n - k /\ k + (i - k) = i
        BY <3>2, <1>1, <1>2
      <4>2. r[i - k] = s[i]
        BY <4>1, <1>3
      <4> QED
        BY <4>1, <4>2, <1>3, <1>5
    <3> QED
      BY <3>1, <3>2
  <2>2. m >= exp
    BY <2>0, <1>2, <1>5
  <2> QED
    BY <2>1, <2>2 DEF Kept
<1>6. Kept(r, g, exp + k)
  BY <1>3, <1>4, <1>5 DEF Kept
<1>7. Len(r) <= n
  BY <1>1, <1>2, <1>3
<1> QED
  BY <1>6, <1>7 DEF r

\* After draining a tidy list, the next message is not complete in it.
LEMMA DrainTidy ==
    ASSUME NEW s, ListOK(s), NEW exp \in Nat \ {0}, Tidy(s, exp),
           NEW k, Drains(s, exp, k)
    PROVE  LET r == Rest(s, k)
           IN  /\ Tidy(r, exp + k)
               /\ \A i \in 1 .. Len(r) : r[i].seq = exp + k => ~ r[i].ready
<1> DEFINE r == Rest(s, k)
           n == Len(s)
<1>1. n \in Nat /\ \A i \in 1 .. n : s[i].seq \in Nat
  <2>1. n \in Nat /\ \A i \in 1 .. n : s[i].seq \in Messages
    BY DEF ListOK, ItemOK, Sound
  <2> QED
    BY <2>1, MessageType
<1>2. /\ k \in 0 .. n /\ k \in Nat /\ \A i \in 1 .. k : s[i].seq = exp + i - 1
      /\ k < n => ~ (s[k + 1].seq = exp + k /\ s[k + 1].ready)
  BY <1>1 DEF Drains
<1>3. /\ ListOK(r) /\ Len(r) = n - k
      /\ \A i \in 1 .. n - k : k + i \in 1 .. n /\ r[i] = s[k + i]
  BY <1>2, RestIs
<1>4. \A i \in 1 .. n, j \in 1 .. n : i < j => s[i].seq < s[j].seq
  BY DEF ListOK
<1> HIDE DEF r
<1>5. ASSUME NEW j \in 1 .. n, k < j PROVE s[j].seq >= exp + k
  <2>1. s[j].seq >= exp /\ s[j].seq \in Nat
    BY <1>1 DEF Tidy
  <2>2. CASE k = 0
    BY <2>1, <2>2
  <2>3. CASE k # 0
    <3>1. k \in 1 .. k /\ k \in 1 .. n
      BY <2>3, <1>1, <1>2
    <3>2. s[k].seq < s[j].seq
      BY <3>1, <1>4, <1>5
    <3>3. s[k].seq = exp + k - 1
      BY <3>1, <1>2
    <3> QED
      BY <3>2, <3>3, <2>1, <1>2
  <2> QED
    BY <2>2, <2>3
<1>6. Tidy(r, exp + k)
  <2>1. ASSUME NEW i \in 1 .. Len(r)
        PROVE  r[i].seq >= exp + k /\ (r[i].ready \/ ~ WholeCut(r[i].seq))
    <3>1. k + i \in 1 .. n /\ r[i] = s[k + i] /\ k < k + i
      BY <1>1, <1>2, <1>3
    <3>2. s[k + i].seq >= exp + k
      BY <3>1, <1>5
    <3>3. s[k + i].ready \/ ~ WholeCut(s[k + i].seq)
      BY <3>1 DEF Tidy
    <3> QED
      BY <3>1, <3>2, <3>3
  <2> QED
    BY <2>1 DEF Tidy
<1>7. ASSUME NEW i \in 1 .. Len(r), r[i].seq = exp + k PROVE ~ r[i].ready
  <2>1. i \in Nat /\ 1 <= i /\ i <= n - k
    BY <1>1, <1>2, <1>3
  <2>2. k + i \in 1 .. n /\ k + 1 \in 1 .. n /\ k < n /\ k < k + 1
    BY <2>1, <1>1, <1>2
  <2>3. r[i] = s[k + i]
    BY <1>3
  <2>4. CASE i = 1
    BY <2>2, <2>3, <2>4, <1>2, <1>7
  <2>5. CASE 1 < i
    <3>1. s[k + 1].seq < s[k + i].seq
      <4>1. k + 1 < k + i
        BY <2>1, <2>5, <1>2
      <4> QED
        BY <4>1, <2>2, <1>4
    <3>2. s[k + 1].seq >= exp + k /\ s[k + 1].seq \in Nat
      BY <2>2, <1>1, <1>5
    <3> QED
      BY <3>1, <3>2, <2>3, <1>2, <1>7
  <2> QED
    BY <2>1, <2>4, <2>5
<1> QED
  BY <1>6, <1>7 DEF r

\* The parts of the invariant after a step that leaves the peer's habits alone.
LEMMA Rebuilt ==
    ASSUME Types, UNCHANGED peer,
           expected' \in Nat \ {0}, got' \in [Messages -> SUBSET Int],
           Sent(delivered', expected'), Kept(list', got', expected'),
           Len(list') <= DTLS_POOL_SZ,
           ~ mixed => /\ Tidy(list', expected')
                      /\ \A i \in 1 .. Len(list') : list'[i].seq = expected' => ~ list'[i].ready
    PROVE  IndInv'
<1>1. mixed' = mixed /\ cut' = cut
  BY DEF peer
<1>2. Types'
  BY <1>1 DEF Types
<1>3. Sent(delivered, expected)'
  BY DEF Sent
<1>4. Kept(list, got, expected)'
  BY DEF Kept
<1>5. ~ mixed' => Tidy(list, expected)'
  BY <1>1 DEF Tidy, WholeCut
<1>6. ~ mixed' => \A i \in 1 .. Len(list') : list'[i].seq = expected' => ~ list'[i].ready
  BY <1>1
<1> QED
  BY <1>2, <1>3, <1>4, <1>5, <1>6 DEF IndInv

\* Draining a list that is in step with the notes.
LEMMA DrainInv ==
    ASSUME Types, UNCHANGED peer, NEW s, NEW exp \in Nat \ {0}, NEW d,
           Drain(s, exp, d), got' \in [Messages -> SUBSET Int],
           Sent(d, exp), Kept(s, got', exp), Len(s) <= DTLS_POOL_SZ,
           ~ mixed => Tidy(s, exp)
    PROVE  IndInv'
<1> DEFINE k == Drainable(s, exp)
<1>1. /\ delivered' = d \o [i \in 1 .. k |-> s[i].full]
      /\ expected' = exp + k
      /\ list' = Rest(s, k)
  BY DEF Drain, Rest
<1>2. ListOK(s)
  BY DEF Kept
<1>3. Drains(s, exp, k)
  BY <1>2, DrainableIs
<1> HIDE DEF k
<1>4. k \in Nat /\ Len(s) \in Nat /\ exp + k \in Nat \ {0}
  BY <1>2, <1>3 DEF Drains, ListOK
<1>5. Sent(delivered', expected')
  BY <1>1, <1>2, <1>3, SentStep
<1>6. Kept(list', got', expected') /\ Len(list') <= Len(s)
  BY <1>1, <1>3, DrainKept
<1>7. Len(list') <= DTLS_POOL_SZ
  <2>1. Len(list') \in Nat /\ DTLS_POOL_SZ \in Nat
    BY <1>6, ReassemblyAssumption DEF Kept, ListOK
  <2> QED
    BY <2>1, <1>4, <1>6
<1>8. ASSUME ~ mixed
      PROVE  /\ Tidy(list', expected')
             /\ \A i \in 1 .. Len(list') : list'[i].seq = expected' => ~ list'[i].ready
  BY <1>1, <1>2, <1>3, <1>8, DrainTidy
<1> QED
  BY <1>1, <1>4, <1>5, <1>6, <1>7, <1>8, Rebuilt

\* A fragment stored, and the list as it is then.
StoredNow(f, t) ==
    /\ Kept(t, got', expected) /\ got' \in [Messages -> SUBSET Int]
    /\ Len(t) <= DTLS_POOL_SZ
    /\ ~ mixed => Tidy(t, expected)

\* A fragment of a message still to come, stored in a list that is not full.
LEMMA StoredInv ==
    ASSUME IndInv, NEW f \in AnyFragment, Sendable(f), f.seq >= expected,
           ~ PoolFull, NoteArrival(f)
    PROVE  StoredNow(f, DtlsMsgStore(list, f))
<1> DEFINE t == DtlsMsgStore(list, f)
<1>1. got' = Noted(f)
  BY DEF NoteArrival, Noted
<1>2. Types /\ Kept(list, got, expected) /\ ListOK(list)
      /\ (~ mixed => Tidy(list, expected))
  BY DEF IndInv, Kept
<1>3. Kept(t, got', expected) /\ Len(t) \in Nat /\ Len(t) <= Len(list) + 1
  BY <1>1, <1>2, StoreKept
<1>4. got' \in [Messages -> SUBSET Int]
  BY <1>1, <1>2, NotedIs DEF Types
<1>5. ~ mixed => Tidy(t, expected)
  BY <1>2, StoreTidy
<1> HIDE DEF t
<1>6. Len(t) <= DTLS_POOL_SZ
  <2>1. Len(list) \in Nat /\ DTLS_POOL_SZ \in Nat
    BY <1>2, ReassemblyAssumption DEF ListOK
  <2> QED
    BY <2>1, <1>3 DEF PoolFull
<1> QED
  BY <1>3, <1>4, <1>5, <1>6 DEF StoredNow, t

\* A message in order and whole, handed over without being stored.
LEMMA DirectInv ==
    ASSUME IndInv, NEW f \in AnyFragment, Sendable(f), f.seq = expected, Whole(f),
           ProcessDirectly(f), UNCHANGED peer
    PROVE  IndInv'
<1> DEFINE d == Append(delivered, Data(f))
           exp == expected + 1
<1>1. Drain(list, exp, d) /\ got' = got
  BY DEF ProcessDirectly
<1>2. /\ Types /\ Sent(delivered, expected) /\ Kept(list, got, expected)
      /\ Len(list) <= DTLS_POOL_SZ /\ expected \in Nat \ {0}
      /\ got \in [Messages -> SUBSET Int]
  BY DEF IndInv, Types
<1>3. exp \in Nat \ {0}
  BY <1>2
<1>4. f.seq \in Messages /\ LengthOf[f.seq] \in Nat /\ f.off = 0 /\ f.sz = LengthOf[f.seq]
  BY FragmentType DEF Whole
<1>5. Sent(d, exp)
  <2>1. Data(f) = Bytes(expected, 0, LengthOf[expected])
    <3>1. 0 + LengthOf[f.seq] = LengthOf[f.seq]
      BY <1>4
    <3> QED
      BY <3>1, <1>4 DEF Data
  <2>2. Data(f) \in Seq(Byte)
    BY DataIs
  <2>3. delivered \in Seq(Seq(Byte)) /\ Len(delivered) = expected - 1
        /\ \A m \in 1 .. Len(delivered) : delivered[m] = Bytes(m, 0, LengthOf[m])
    BY <1>2 DEF Sent
  <2>4. /\ d \in Seq(Seq(Byte)) /\ Len(d) = Len(delivered) + 1
        /\ d[Len(delivered) + 1] = Data(f)
        /\ \A m \in 1 .. Len(delivered) : d[m] = delivered[m]
    <3>1. Data(f) \in Seq(Byte) /\ delivered \in Seq(Seq(Byte))
      BY <2>2, <2>3
    <3> DEFINE e == Data(f)
    <3> HIDE DEF e
    <3>2. ASSUME e \in Seq(Byte)
          PROVE  /\ Append(delivered, e) \in Seq(Seq(Byte))
                 /\ Len(Append(delivered, e)) = Len(delivered) + 1
                 /\ Append(delivered, e)[Len(delivered) + 1] = e
                 /\ \A m \in 1 .. Len(delivered) : Append(delivered, e)[m] = delivered[m]
      BY <3>1, <3>2, SMT
    <3> QED
      BY <3>1, <3>2 DEF e
  <2> HIDE DEF d
  <2>5. Len(d) = exp - 1
    BY <2>3, <2>4, <1>2
  <2>6. ASSUME NEW m \in 1 .. Len(d) PROVE d[m] = Bytes(m, 0, LengthOf[m])
    <3>1. m \in 1 .. Len(delivered) \/ m = expected
      BY <2>3, <2>4, <1>2
    <3>2. Len(delivered) + 1 = expected
      BY <2>3, <1>2
    <3>3. CASE m \in 1 .. Len(delivered)
      BY <3>3, <2>3, <2>4
    <3>4. CASE m = expected
      BY <3>2, <3>4, <2>1, <2>4
    <3> QED
      BY <3>1, <3>3, <3>4
  <2> QED
    BY <2>4, <2>5, <2>6 DEF Sent
<1>6. Kept(list, got, exp)
  <2>1. ListOK(list)
    BY <1>2 DEF Kept
  <2>2. \A i \in 1 .. Len(list) : Held(list[i]) = got[list[i].seq]
    BY <1>2 DEF Kept
  <2>3. ASSUME NEW m \in Messages, m >= exp, \A i \in 1 .. Len(list) : list[i].seq # m
        PROVE  got[m] = {}
    <3>1. m >= expected
      BY <2>3, <1>2, MessageType
    <3> QED
      BY <3>1, <2>3, <1>2 DEF Kept
  <2> QED
    BY <2>1, <2>2, <2>3 DEF Kept
<1>7. ASSUME ~ mixed PROVE Tidy(list, exp)
  <2>1. WholeCut(expected)
    BY <1>2, <1>7, SendsWhole
  <2>2. /\ Tidy(list, expected)
        /\ \A i \in 1 .. Len(list) : list[i].seq = expected => ~ list[i].ready
    BY <1>7 DEF IndInv
  <2>3. \A i \in 1 .. Len(list) : list[i].seq \in Nat
    <3>1. \A i \in 1 .. Len(list) : list[i].seq \in Messages
      BY <1>2 DEF Kept, ListOK, ItemOK, Sound
    <3> QED
      BY <3>1, MessageType
  <2>4. ASSUME NEW i \in 1 .. Len(list)
        PROVE  list[i].seq >= exp /\ (list[i].ready \/ ~ WholeCut(list[i].seq))
    <3>1. list[i].seq >= expected /\ (list[i].ready \/ ~ WholeCut(list[i].seq))
      BY <2>2 DEF Tidy
    <3>2. list[i].seq # expected
      BY <3>1, <2>1, <2>2
    <3>3. list[i].seq >= exp
      BY <3>1, <3>2, <2>3, <1>2
    <3> QED
      BY <3>1, <3>3
  <2> QED
    BY <2>4 DEF Tidy
<1> HIDE DEF d, exp
<1> QED
  BY <1>1, <1>2, <1>3, <1>5, <1>6, <1>7, DrainInv

\* The initial state.
LEMMA InitInv == Init => IndInv
<1> SUFFICES ASSUME Init PROVE IndInv
  OBVIOUS
<1>1. expected = 1 /\ list = <<>> /\ delivered = <<>> /\ got = [m \in Messages |-> {}]
      /\ mixed \in BOOLEAN
  BY ReassemblyAssumption DEF Init
<1>2. cut \in [Messages -> Nat \ {0}]
  <2> DEFINE C == {1} \cup UNION {1 .. LengthOf[m] : m \in Messages}
  <2>1. cut \in [Messages -> C]
    BY DEF Init
  <2>2. C \subseteq Nat \ {0}
    BY MessageType
  <2> HIDE DEF C
  <2> QED
    BY <2>1, <2>2
<1>3. Types
  BY <1>1, <1>2 DEF Types
<1>4. Len(<<>>) = 0 /\ 1 - 1 = 0 /\ \A i : i \notin 1 .. 0
  OBVIOUS
<1>5. Sent(<<>>, 1)
  BY <1>4 DEF Sent
<1>6. ListOK(<<>>)
  <2>1. <<>> \in Seq({})
    OBVIOUS
  <2> QED
    BY <2>1, <1>4 DEF ListOK
<1>7. Kept(<<>>, got, 1)
  BY <1>1, <1>4, <1>6 DEF Kept
<1>8. Len(<<>>) <= DTLS_POOL_SZ
  BY <1>4, ReassemblyAssumption
<1>9. Tidy(<<>>, 1)
  BY <1>4 DEF Tidy
<1> QED
  BY <1>1, <1>3, <1>4, <1>5, <1>7, <1>8, <1>9 DEF IndInv

\* The head of a tidy list is the next message, if that has an item.
LEMMA NextAtHead ==
    ASSUME NEW s, ListOK(s), NEW exp \in Nat, \A i \in 1 .. Len(s) : s[i].seq >= exp,
           NEW k \in 1 .. Len(s), s[k].seq = exp
    PROVE  k = 1
<1>1. Len(s) \in Nat /\ 1 \in 1 .. Len(s)
  BY DEF ListOK
<1>2. CASE 1 < k
  <2>1. s[1].seq < exp
    BY <1>1, <1>2 DEF ListOK
  <2>2. s[1].seq >= exp
    BY <1>1
  <2>3. s[1].seq \in Nat
    <3>1. s[1].seq \in Messages
      BY <1>1 DEF ListOK, ItemOK, Sound
    <3> QED
      BY <3>1, MessageType
  <2> QED
    BY <2>1, <2>2, <2>3
<1> QED
  BY <1>1, <1>2

\* A step in which a fragment is stored and the list left as it is then.
LEMMA StoreInv ==
    ASSUME IndInv, NEW f \in AnyFragment, Sendable(f), f.seq >= expected,
           ~ PoolFull, NoteArrival(f), list' = DtlsMsgStore(list, f),
           UNCHANGED <<expected, delivered>>, UNCHANGED peer,
           f.seq = expected => ~ Head(list').ready
    PROVE  IndInv'
<1> DEFINE t == DtlsMsgStore(list, f)
<1>1. StoredNow(f, t)
  BY StoredInv
<1>2. /\ Types /\ Sent(delivered, expected) /\ ListOK(list) /\ expected \in Nat \ {0}
      /\ ~ mixed => /\ Tidy(list, expected)
                    /\ \A i \in 1 .. Len(list) :
                         list[i].seq = expected => ~ list[i].ready
  BY DEF IndInv, Types, Kept
<1>3. f.seq # expected /\ ~ mixed =>
        \A k \in 1 .. Len(t) : t[k].seq = expected =>
          \E i \in 1 .. Len(list) : t[k] = list[i]
  BY <1>2, StoreTidy
<1>4. list' = t /\ expected' = expected /\ delivered' = delivered
  OBVIOUS
<1> HIDE DEF t
<1>5. /\ Kept(t, got', expected) /\ got' \in [Messages -> SUBSET Int]
      /\ Len(t) <= DTLS_POOL_SZ /\ (~ mixed => Tidy(t, expected)) /\ ListOK(t)
  BY <1>1 DEF StoredNow, Kept
<1>6. ASSUME ~ mixed, NEW k \in 1 .. Len(t), t[k].seq = expected PROVE ~ t[k].ready
  <2>1. CASE f.seq # expected
    <3>1. PICK i \in 1 .. Len(list) : t[k] = list[i]
      BY <2>1, <1>3, <1>6
    <3> QED
      BY <3>1, <1>2, <1>6
  <2>2. CASE f.seq = expected
    <3>1. \A i \in 1 .. Len(t) : t[i].seq >= expected
      BY <1>5, <1>6 DEF Tidy
    <3>2. k = 1
      BY <3>1, <1>2, <1>5, <1>6, NextAtHead
    <3>3. Head(t) = t[1]
      OBVIOUS
    <3> QED
      BY <3>2, <3>3, <2>2, <1>4
  <2> QED
    BY <2>1, <2>2
<1> QED
  BY <1>2, <1>4, <1>5, <1>6, Rebuilt

\* A connection that has failed keeps everything.
LEMMA FailInv ==
    ASSUME IndInv, Fail, UNCHANGED peer
    PROVE  IndInv'
<1>1. UNCHANGED <<expected, list, delivered, got>>
  BY DEF Fail
<1>2. /\ Types /\ Sent(delivered, expected) /\ Kept(list, got, expected)
      /\ Len(list) <= DTLS_POOL_SZ
      /\ ~ mixed => /\ Tidy(list, expected)
                    /\ \A i \in 1 .. Len(list) :
                         list[i].seq = expected => ~ list[i].ready
  BY DEF IndInv
<1>3. expected \in Nat \ {0} /\ got \in [Messages -> SUBSET Int]
  BY <1>2 DEF Types
<1>4. expected' = expected /\ list' = list /\ delivered' = delivered /\ got' = got
  BY <1>1
<1> QED
  BY <1>2, <1>3, <1>4, Rebuilt

\* A step of either handler keeps the invariant.
LEMMA NextInv == IndInv /\ [Next]_vars => IndInv'
<1> SUFFICES ASSUME IndInv, [Next]_vars PROVE IndInv'
  OBVIOUS
<1>1. ASSUME NEW f \in AnyFragment, Arrive(f) PROVE IndInv'
  <2>1. Sendable(f) /\ f.seq >= expected /\ UNCHANGED peer
    BY <1>1 DEF Arrive
  <2>2. expected \in Nat \ {0} /\ f.seq \in Nat /\ Types /\ Sent(delivered, expected)
    BY FragmentType DEF IndInv, Types
  <2>3. CASE f.seq > expected /\ StoreOutOfOrder(f)
    <3>1. CASE Fail
      BY <3>1, <2>1, FailInv
    <3>2. CASE /\ ~ PoolFull /\ list' = DtlsMsgStore(list, f) /\ NoteArrival(f)
               /\ UNCHANGED <<expected, delivered, dead>>
      <4>1. f.seq # expected
        BY <2>2, <2>3
      <4>2. UNCHANGED <<expected, delivered>>
        BY <3>2
      <4> QED
        BY <4>1, <4>2, <3>2, <2>1, StoreInv
    <3> QED
      BY <3>1, <3>2, <2>3 DEF StoreOutOfOrder
  <2>4. ASSUME ~ PoolFull, Drain(DtlsMsgStore(list, f), expected, delivered),
               NoteArrival(f)
        PROVE  IndInv'
    <3> DEFINE t == DtlsMsgStore(list, f)
    <3>1. StoredNow(f, t)
      BY <2>1, <2>4, StoredInv
    <3>2. Drain(t, expected, delivered)
      BY <2>4
    <3> HIDE DEF t
    <3>3. /\ Kept(t, got', expected) /\ got' \in [Messages -> SUBSET Int]
          /\ Len(t) <= DTLS_POOL_SZ /\ (~ mixed => Tidy(t, expected))
      BY <3>1 DEF StoredNow
    <3> QED
      BY <3>2, <3>3, <2>1, <2>2, DrainInv
  <2>5. CASE f.seq = expected /\ StoreInOrder(f)
    <3>1. CASE Fail
      BY <3>1, <2>1, FailInv
    <3>2. CASE /\ ~ PoolFull /\ NoteArrival(f)
               /\ \E stored \in {DtlsMsgStore(list, f)} :
                     IF Head(stored).ready
                     THEN Drain(stored, expected, delivered)
                     ELSE list' = stored /\ UNCHANGED <<expected, delivered>>
      <4>1. CASE Drain(DtlsMsgStore(list, f), expected, delivered)
        BY <4>1, <3>2, <2>4
      <4>2. CASE /\ ~ Head(DtlsMsgStore(list, f)).ready
                 /\ list' = DtlsMsgStore(list, f) /\ UNCHANGED <<expected, delivered>>
        <5>1. ~ Head(list').ready
          BY <4>2
        <5> QED
          BY <5>1, <4>2, <3>2, <2>1, StoreInv
      <4> QED
        BY <4>1, <4>2, <3>2
    <3> QED
      BY <3>1, <3>2, <2>5 DEF StoreInOrder
  <2>6. CASE f.seq = expected /\ Whole(f) /\ ProcessDirectly(f)
    BY <2>6, <2>1, DirectInv
  <2>7. CASE DoDtlsHandShakeMsg(f)
    BY <2>7, <2>3, <2>5, <2>6 DEF DoDtlsHandShakeMsg
  <2>8. CASE Dtls13HandshakeRecv(f)
    <3>1. CASE Fail
      BY <3>1, <2>1, FailInv
    <3>2. CASE /\ ~ PoolFull /\ NoteArrival(f)
               /\ \E stored \in {DtlsMsgStore(list, f)} :
                     Drain(stored, expected, delivered)
      BY <3>2, <2>4
    <3> QED
      BY <3>1, <3>2, <2>6, <2>8 DEF Dtls13HandshakeRecv
  <2> QED
    BY <2>7, <2>8, <1>1 DEF Arrive
<1>2. CASE UNCHANGED vars
  BY <1>2 DEF vars, IndInv, Types, Sent, Kept, Tidy, WholeCut
<1> QED
  BY <1>1, <1>2 DEF Next

-----------------------------------------------------------------------------
\* Every state satisfies the invariant.
LEMMA Invariant == Spec => []IndInv
  BY InitInv, NextInv, PTL DEF Spec

\* What reaches the handshake is the peer's messages, in order, each once and every
\* byte in its place, for messages of any number and length and fragments that
\* overlap, repeat and arrive in any order.
THEOREM DeliversExactly == Spec => []DeliveredExact
<1>1. IndInv => DeliveredExact
  BY DEF IndInv, Sent, DeliveredExact
<1> QED
  BY <1>1, Invariant, PTL

\* The list keeps to its limit, a ready item has the whole message, and the buckets of
\* the others are in order, apart, within the message and the limit, and hold its bytes
\* at their offsets.
THEOREM BucketsStayExact == Spec => []BucketsExact
<1>1. IndInv => BucketsExact
  <2> SUFFICES ASSUME IndInv PROVE BucketsExact
    OBVIOUS
  <2>1. Len(list) <= DTLS_POOL_SZ /\ ListOK(list)
    BY DEF IndInv, Kept
  <2>2. ASSUME NEW i \in 1 .. Len(list), ~ list[i].ready,
               NEW j \in 1 .. Len(list[i].buckets)
        PROVE  LET b == list[i].buckets
                   m == list[i].seq
               IN  /\ Len(b) <= DTLS_FRAG_POOL_SZ
                   /\ b[j].buf = Bytes(m, b[j].off, b[j].off + b[j].sz)
                   /\ b[j].off + b[j].sz <= LengthOf[m]
                   /\ j < Len(b) => b[j].off + b[j].sz < b[j + 1].off
    <3> DEFINE b == list[i].buckets
               m == list[i].seq
    <3>1. Layout(m, b) /\ Len(b) <= DTLS_FRAG_POOL_SZ
      BY <2>1, <2>2 DEF ListOK, ItemOK, Sound
    <3> HIDE DEF b, m
    <3>2. Len(b) \in Nat /\ j \in 1 .. Len(b)
      BY <3>1 DEF Layout, b
    <3>3. RightBucket(m, b[j])
      BY <3>1, <3>2 DEF Layout
    <3>4. ASSUME j < Len(b) PROVE b[j].off + b[j].sz < b[j + 1].off
      <4>1. j + 1 \in 1 .. Len(b) /\ j < j + 1
        BY <3>2, <3>4
      <4> QED
        BY <4>1, <3>1, <3>2 DEF Layout
    <3> QED
      BY <3>1, <3>3, <3>4 DEF RightBucket, b, m
  <2>3. \A i \in 1 .. Len(list) :
          /\ list[i].ready => list[i].full = Bytes(list[i].seq, 0, LengthOf[list[i].seq])
          /\ ~ list[i].ready => Len(list[i].buckets) <= DTLS_FRAG_POOL_SZ
    BY <2>1 DEF ListOK, ItemOK, Sound
  <2> QED
    BY <2>1, <2>2, <2>3 DEF BucketsExact
<1> QED
  BY <1>1, Invariant, PTL

\* bytesReceived of an item that is not complete is the number of bytes it holds, and
\* less than the length of its message: the "Major error" of
\* DtlsMsgAssembleCompleteMessage is unreachable.
THEOREM CountsExactly == Spec => []ReceivedExact
<1>1. IndInv => ReceivedExact
  <2> SUFFICES ASSUME IndInv, NEW i \in 1 .. Len(list), ~ list[i].ready
               PROVE  /\ list[i].received = Cardinality(Held(list[i]))
                      /\ list[i].received < LengthOf[list[i].seq]
    BY DEF ReceivedExact
  <2>1. ItemOK(list[i])
    BY DEF IndInv, Kept, ListOK
  <2>2. Held(list[i]) = Covered(list[i].buckets)
    BY DEF Held, Covered
  <2> QED
    BY <2>1, <2>2 DEF ItemOK, Sound, Counted
<1> QED
  BY <1>1, Invariant, PTL

\* An item holds every byte that arrived for its message, unless it came in a fragment
\* that touches no bucket while the buckets were used up: none is lost again and none
\* is dropped that could have been stored.
THEOREM ArrivalsKept == Spec => []NothingLost
<1>1. IndInv => NothingLost
  BY DEF IndInv, Kept, NothingLost
<1> QED
  BY <1>1, Invariant, PTL

\* With a peer that cuts a message the same way every time, the next message is the
\* head of the list if it has an item at all, so a handler that looks only at the head
\* misses nothing.
THEOREM HeadIsNext == Spec => []NextIsHeadUnlessMixed
<1>1. IndInv => NextIsHeadUnlessMixed
  <2> SUFFICES ASSUME IndInv, ~ mixed, NEW i \in 1 .. Len(list), list[i].seq = expected
               PROVE  i = 1
    BY DEF NextIsHeadUnlessMixed, NextIsHead
  <2>1. ListOK(list) /\ expected \in Nat /\ \A k \in 1 .. Len(list) : list[k].seq >= expected
    BY DEF IndInv, Kept, Types, Tidy
  <2> QED
    BY <2>1, NextAtHead
<1> QED
  BY <1>1, Invariant, PTL


=============================================================================
