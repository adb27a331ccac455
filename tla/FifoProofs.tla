----------------------------- MODULE FifoProofs -----------------------------
(***************************************************************************)
(* The ring buffer implements the bounded queue, for every capacity, every *)
(* set of bytes and arrays of every length.                                *)
(***************************************************************************)
EXTENDS Fifo, SequenceTheorems, TLAPS

(***************************************************************************)
(* Positions.                                                              *)
(***************************************************************************)

LEMMA CapacityIsNat == Capacity \in Nat /\ Capacity >= 1 /\ 0 \in Positions
BY CapacityAssumption DEF Positions

\* Moving on by at most the capacity wraps once.
LEMMA Wrapped ==
  ASSUME NEW p \in Positions, NEW n \in 0 .. Capacity
  PROVE  /\ PtrAdd(p, n) \in Positions
         /\ p + n < Capacity => PtrAdd(p, n) = p + n
         /\ p + n >= Capacity => PtrAdd(p, n) = p + n - Capacity
<1>1. \A a \in 0 .. Capacity - 1 : a % Capacity = a
  BY CapacityIsNat
<1>2. \A a \in Capacity .. 2 * Capacity - 1 : a % Capacity = a - Capacity
  BY CapacityIsNat
<1>3. p + n \in 0 .. Capacity - 1 \/ p + n \in Capacity .. 2 * Capacity - 1
  BY CapacityIsNat DEF Positions
<1> QED
  BY <1>1, <1>2, <1>3, CapacityIsNat DEF PtrAdd, Positions

\* Moving on twice is moving on by the sum.
LEMMA WrappedTwice ==
  ASSUME NEW p \in Positions, NEW n \in 0 .. Capacity, NEW m \in 0 .. Capacity,
         n + m <= Capacity
  PROVE  PtrAdd(PtrAdd(p, n), m) = PtrAdd(p, n + m)
<1> DEFINE q == PtrAdd(p, n)
<1>1. q \in Positions
  BY Wrapped
<1>2. p + n < Capacity => q = p + n
  BY Wrapped
<1>3. p + n >= Capacity => q = p + n - Capacity
  BY Wrapped
<1> HIDE DEF q
<1>4. n + m \in 0 .. Capacity
  BY CapacityIsNat
<1> DEFINE r == PtrAdd(q, m)
<1> DEFINE t == PtrAdd(p, n + m)
<1>5. /\ q + m < Capacity => r = q + m
      /\ q + m >= Capacity => r = q + m - Capacity
  BY <1>1, Wrapped
<1>6. /\ p + (n + m) < Capacity => t = p + (n + m)
      /\ p + (n + m) >= Capacity => t = p + (n + m) - Capacity
  BY <1>4, Wrapped
<1> HIDE DEF r, t
<1>7. r = t
  BY <1>1, <1>2, <1>3, <1>5, <1>6, CapacityIsNat DEF Positions
<1> QED
  BY <1>7 DEF q, r, t

(***************************************************************************)
(* A FIFO by its fields.                                                   *)
(***************************************************************************)

Fifos == [buffer : [Positions -> Bytes], read : Positions, write : Positions,
          count : 0 .. Capacity]

LEMMA Fields ==
  ASSUME NEW f, FifoOK(f)
  PROVE  /\ f \in Fifos
         /\ f.buffer \in [Positions -> Bytes] /\ f.read \in Positions
         /\ f.write \in Positions /\ f.count \in 0 .. Capacity
         /\ f.write = PtrAdd(f.read, f.count)
BY DEF FifoOK, Fifos

LEMMA ContentsType ==
  ASSUME NEW f, FifoOK(f)
  PROVE  /\ Contents(f) \in Seq(Bytes)
         /\ Len(Contents(f)) = f.count
         /\ \A i \in 1 .. f.count : /\ Contents(f)[i] = f.buffer[PtrAdd(f.read, i - 1)]
                                    /\ Contents(f)[i] \in Bytes
<1>1. f.buffer \in [Positions -> Bytes] /\ f.read \in Positions /\ f.count \in 0 .. Capacity
  BY Fields
<1>2. ASSUME NEW i \in 1 .. f.count PROVE f.buffer[PtrAdd(f.read, i - 1)] \in Bytes
  <2>1. i - 1 \in 0 .. Capacity
    BY <1>1, CapacityIsNat
  <2>2. PtrAdd(f.read, i - 1) \in Positions
    BY <1>1, <2>1, Wrapped
  <2> QED
    BY <1>1, <2>2
<1>3. f.count \in Nat
  BY <1>1, CapacityIsNat
<1> QED
  BY <1>2, <1>3 DEF Contents

\* Two sequences of the same length with the same elements.
LEMMA SameSeq ==
  ASSUME NEW s \in Seq(Bytes), NEW t \in Seq(Bytes), Len(s) = Len(t),
         \A i \in 1 .. Len(s) : s[i] = t[i]
  PROVE  s = t
BY SeqEqual

(***************************************************************************)
(* Dropping.                                                               *)
(***************************************************************************)

LEMMA ResetOK ==
  ASSUME NEW f, FifoOK(f)
  PROVE  FifoOK(Reset(f)) /\ Contents(Reset(f)) = <<>> /\ Reset(f).count = 0
<1> DEFINE g == Reset(f)
<1>1. 0 \in Positions /\ 0 \in 0 .. Capacity
  BY CapacityIsNat
<1>2. f \in Fifos
  BY Fields
<1>3. g \in Fifos /\ g.read = 0 /\ g.write = 0 /\ g.count = 0
  BY <1>1, <1>2 DEF Reset, Fifos
<1> HIDE DEF g
<1>4. PtrAdd(0, 0) = 0
  BY <1>1, Wrapped, CapacityIsNat
<1>5. FifoOK(g)
  BY <1>3, <1>4 DEF FifoOK, Fifos
<1>6. Contents(g) \in Seq(Bytes) /\ Len(Contents(g)) = 0
  BY <1>3, <1>5, ContentsType
<1>7. Contents(g) = <<>>
  BY <1>6
<1> QED
  BY <1>3, <1>5, <1>7 DEF g

LEMMA DroppedOK ==
  ASSUME NEW f, FifoOK(f), NEW n \in Nat
  PROVE  /\ FifoOK(Dropped(f, n))
         /\ Contents(Dropped(f, n)) = SubSeq(Contents(f), n + 1, Len(Contents(f)))
         /\ n >= f.count => Dropped(f, n).count = 0
         /\ n < f.count => Dropped(f, n).count = f.count - n
<1> DEFINE c == Contents(f)
<1>1. c \in Seq(Bytes) /\ Len(c) = f.count
  BY ContentsType
<1>2. f.count \in Nat /\ f.count <= Capacity
  BY Fields, CapacityIsNat
<1>3. \A i \in 1 .. f.count : /\ c[i] = f.buffer[PtrAdd(f.read, i - 1)]
                              /\ c[i] \in Bytes
  BY ContentsType
<1> HIDE DEF c
<1>4. CASE n >= f.count
  <2>0. ~(n < f.count)
    BY <1>2, <1>4
  <2>1. SubSeq(c, n + 1, Len(c)) = <<>>
    BY <1>1, <1>2, <1>4, SubSeqEmpty
  <2>2. CASE n = 0
    <3>1. Dropped(f, n) = f /\ f.count = 0
      BY <1>2, <1>4, <2>2 DEF Dropped
    <3>2. c = <<>>
      BY <1>1, <3>1
    <3> QED
      BY <2>0, <2>1, <3>1, <3>2, Zenon DEF c
  <2>3. CASE n # 0
    <3>1. Dropped(f, n) = Reset(f)
      BY <1>4, <2>3 DEF Dropped
    <3>2. FifoOK(Reset(f)) /\ Contents(Reset(f)) = <<>> /\ Reset(f).count = 0
      BY ResetOK
    <3> QED
      BY <2>0, <2>1, <3>1, <3>2, Zenon DEF c
  <2> QED
    BY <2>2, <2>3
<1>5. CASE n < f.count
  <2> DEFINE g == Dropped(f, n)
  <2> DEFINE r == PtrAdd(f.read, n)
  <2>1. n \in 0 .. Capacity /\ f.count - n \in 0 .. Capacity
    BY <1>2, <1>5, CapacityIsNat
  <2>2. r \in Positions
    BY <2>1, Fields, Wrapped
  <2>3. f \in Fifos
    BY Fields
  <2>4. /\ g \in Fifos /\ g.buffer = f.buffer /\ g.read = r /\ g.write = f.write
        /\ g.count = f.count - n
    <3>1. CASE n = 0
      <4>1. g = f
        BY <3>1 DEF Dropped
      <4>2. f.read \in Positions
        BY Fields
      <4>3. r = f.read
        BY <2>1, <3>1, <4>2, Wrapped, CapacityIsNat DEF Positions
      <4>4. f.count - n = f.count
        BY <1>2, <3>1
      <4> HIDE DEF g, r
      <4> QED
        BY <2>3, <4>1, <4>3, <4>4
    <3>2. CASE n # 0
      <4>1. g = [f EXCEPT !.read = r, !.count = f.count - n]
        BY <1>2, <1>5, <3>2 DEF Dropped
      <4> HIDE DEF g, r
      <4> QED
        BY <2>1, <2>2, <2>3, <4>1 DEF Fifos
    <3> QED
      BY <3>1, <3>2
  <2> HIDE DEF g
  <2>5. \A k \in 0 .. f.count - n : PtrAdd(r, k) = PtrAdd(f.read, n + k)
    <3> SUFFICES ASSUME NEW k \in 0 .. f.count - n PROVE PtrAdd(r, k) = PtrAdd(f.read, n + k)
      OBVIOUS
    <3>1. k \in 0 .. Capacity /\ n + k <= Capacity
      BY <1>2, <1>5, CapacityIsNat
    <3>2. f.read \in Positions
      BY Fields
    <3> QED
      BY <2>1, <3>1, <3>2, WrappedTwice
  <2> HIDE DEF r
  <2>6. FifoOK(g)
    <3>1. PtrAdd(r, f.count - n) = PtrAdd(f.read, n + (f.count - n))
      BY <1>2, <1>5, <2>5
    <3>2. n + (f.count - n) = f.count
      BY <1>2
    <3>3. f.write = PtrAdd(f.read, f.count)
      BY Fields
    <3> QED
      BY <2>4, <3>1, <3>2, <3>3 DEF FifoOK, Fifos
  <2>7. Contents(g) = SubSeq(c, n + 1, Len(c))
    <3> DEFINE s == SubSeq(c, n + 1, Len(c))
    <3>1. n + 1 \in 1 .. Len(c) + 1 /\ Len(c) \in n .. Len(c)
      BY <1>1, <1>2, <1>5
    <3>2. /\ s \in Seq(Bytes) /\ Len(s) = f.count - n
          /\ \A i \in 1 .. f.count - n : s[i] = c[n + i]
      BY <1>1, <1>2, <1>3, <1>5
    <3> HIDE DEF s
    <3>3. Contents(g) \in Seq(Bytes) /\ Len(Contents(g)) = f.count - n
      BY <2>4, <2>6, ContentsType
    <3>4. ASSUME NEW i \in 1 .. f.count - n PROVE Contents(g)[i] = s[i]
      <4>1. Contents(g)[i] = f.buffer[PtrAdd(r, i - 1)]
        BY <2>4, <2>6, ContentsType
      <4>2. PtrAdd(r, i - 1) = PtrAdd(f.read, n + (i - 1)) /\ n + (i - 1) = (n + i) - 1
        BY <1>2, <1>5, <2>5
      <4>3. n + i \in 1 .. f.count
        BY <1>2, <1>5
      <4>4. c[n + i] = f.buffer[PtrAdd(f.read, (n + i) - 1)]
        BY <1>3, <4>3
      <4> QED
        BY <3>2, <4>1, <4>2, <4>4
    <3>5. Contents(g) = s
      BY <3>2, <3>3, <3>4, SameSeq
    <3> QED
      BY <3>5 DEF s
  <2>8. ~(n >= f.count)
    BY <1>2, <1>5
  <2> QED
    BY <2>4, <2>6, <2>7, <2>8 DEF g, c
<1> QED
  BY <1>2, <1>4, <1>5

(***************************************************************************)
(* Storing.                                                                *)
(***************************************************************************)

\* A FIFO whose free places behind the write position were filled with d.
LEMMA FilledOK ==
  ASSUME NEW f, FifoOK(f), NEW d \in Seq(Bytes), Len(d) <= Capacity - f.count,
         NEW filled \in [Positions -> Bytes],
         \A k \in 0 .. Capacity - 1 :
           filled[PtrAdd(f.write, k)] = IF k < Len(d) THEN d[k + 1]
                                        ELSE f.buffer[PtrAdd(f.write, k)],
         NEW g \in Fifos, g.buffer = filled, g.read = f.read,
         g.write = PtrAdd(f.write, Len(d)), g.count = f.count + Len(d)
  PROVE  FifoOK(g) /\ Contents(g) = Contents(f) \o d
<1> DEFINE n == f.count
<1> DEFINE l == Len(d)
<1>1. /\ n \in Nat /\ n <= Capacity /\ l \in Nat /\ n + l <= Capacity
      /\ n \in 0 .. Capacity /\ l \in 0 .. Capacity /\ Capacity \in Nat
  BY Fields, CapacityIsNat
<1>2. f.read \in Positions /\ f.write = PtrAdd(f.read, n)
  BY Fields
<1>3. /\ l = Len(d) /\ g.write = PtrAdd(f.write, l) /\ g.count = n + l
      /\ \A k \in 0 .. Capacity - 1 :
           filled[PtrAdd(f.write, k)] = IF k < l THEN d[k + 1] ELSE f.buffer[PtrAdd(f.write, k)]
  OBVIOUS
<1>4. /\ Contents(f) \in Seq(Bytes) /\ Len(Contents(f)) = n
      /\ \A i \in 1 .. n : Contents(f)[i] = f.buffer[PtrAdd(f.read, i - 1)]
  BY ContentsType
<1> HIDE DEF n, l
<1>5. FifoOK(g)
  <2>1. PtrAdd(f.write, l) = PtrAdd(f.read, n + l)
    BY <1>1, <1>2, WrappedTwice
  <2> QED
    BY <1>3, <2>1 DEF FifoOK, Fifos
<1>6. ASSUME NEW i \in 1 .. n + l
      PROVE  Contents(g)[i] = IF i <= n THEN Contents(f)[i] ELSE d[i - n]
  <2>1. Contents(g)[i] = filled[PtrAdd(f.read, i - 1)]
    BY <1>3, <1>5, ContentsType
  <2>2. CASE i <= n
    <3> DEFINE k == i - 1 - n + Capacity
    <3>1. k \in 0 .. Capacity - 1 /\ ~(k < l) /\ k \in 0 .. Capacity /\ i - 1 \in 0 .. Capacity
      BY <1>1, <2>2
    <3>2. PtrAdd(f.read, i - 1) = PtrAdd(f.write, k)
      <4>1. /\ f.read + (i - 1) < Capacity => PtrAdd(f.read, i - 1) = f.read + (i - 1)
            /\ f.read + (i - 1) >= Capacity => PtrAdd(f.read, i - 1) = f.read + (i - 1) - Capacity
        BY <1>2, <3>1, Wrapped
      <4>2. /\ f.read + n < Capacity => f.write = f.read + n
            /\ f.read + n >= Capacity => f.write = f.read + n - Capacity
            /\ f.write \in Positions
        BY <1>1, <1>2, Wrapped
      <4>3. /\ f.write + k < Capacity => PtrAdd(f.write, k) = f.write + k
            /\ f.write + k >= Capacity => PtrAdd(f.write, k) = f.write + k - Capacity
        BY <3>1, <4>2, Wrapped
      <4>4. f.read \in 0 .. Capacity - 1
        BY <1>2 DEF Positions
      <4> HIDE <1>2
      <4> DEFINE a == PtrAdd(f.read, i - 1)
      <4> DEFINE b == PtrAdd(f.write, k)
      <4>5. a = b
        <5> DEFINE r == f.read
        <5> DEFINE w == f.write
        <5>1. /\ r + (i - 1) < Capacity => a = r + (i - 1)
              /\ r + (i - 1) >= Capacity => a = r + (i - 1) - Capacity
              /\ r + n < Capacity => w = r + n
              /\ r + n >= Capacity => w = r + n - Capacity
              /\ w + k < Capacity => b = w + k
              /\ w + k >= Capacity => b = w + k - Capacity
              /\ r \in 0 .. Capacity - 1
          BY <4>1, <4>2, <4>3, <4>4
        <5> HIDE DEF a, b, r, w
        <5> QED
          BY <1>1, <2>2, <5>1
      <4> QED
        BY <4>5
    <3> HIDE DEF k
    <3>3. Contents(f)[i] = f.buffer[PtrAdd(f.read, i - 1)]
      BY <1>1, <1>4, <2>2
    <3>4. filled[PtrAdd(f.write, k)] = f.buffer[PtrAdd(f.write, k)]
      BY <1>3, <3>1
    <3> QED
      BY <2>1, <2>2, <3>2, <3>3, <3>4
  <2>3. CASE i > n
    <3> DEFINE k == i - 1 - n
    <3>1. /\ k \in 0 .. Capacity - 1 /\ k < l /\ k \in 0 .. Capacity
          /\ n + k = i - 1 /\ n + k <= Capacity /\ k + 1 = i - n /\ ~(i <= n)
      BY <1>1, <2>3
    <3> HIDE DEF k
    <3>2. PtrAdd(f.write, k) = PtrAdd(f.read, i - 1)
      BY <1>1, <1>2, <3>1, WrappedTwice
    <3>3. filled[PtrAdd(f.write, k)] = d[k + 1]
      BY <1>3, <3>1
    <3> QED
      BY <2>1, <3>1, <3>2, <3>3
  <2> QED
    BY <1>1, <2>2, <2>3
<1>7. Contents(g) \in Seq(Bytes) /\ Len(Contents(g)) = n + l
  BY <1>3, <1>5, ContentsType
<1>8. /\ Contents(f) \o d \in Seq(Bytes)
      /\ Len(Contents(f) \o d) = n + l
      /\ \A i \in 1 .. n + l :
           (Contents(f) \o d)[i] = IF i <= n THEN Contents(f)[i] ELSE d[i - n]
  <2> DEFINE c == Contents(f)
  <2>1. c \in Seq(Bytes) /\ Len(c) = n /\ Len(d) = l
    BY <1>3, <1>4
  <2> HIDE DEF c
  <2>2. c \o d \in Seq(Bytes) /\ Len(c \o d) = n + l
    BY <1>1, <2>1
  <2>3. ASSUME NEW i \in 1 .. n + l PROVE (c \o d)[i] = IF i <= n THEN c[i] ELSE d[i - n]
    BY <1>1, <2>1
  <2> QED
    BY <2>2, <2>3 DEF c
<1>9. Contents(g) = Contents(f) \o d
  <2> DEFINE s == Contents(g)
  <2> DEFINE t == Contents(f) \o d
  <2>1. \A i \in 1 .. n + l : s[i] = t[i]
    BY <1>6, <1>8
  <2>2. s \in Seq(Bytes) /\ t \in Seq(Bytes) /\ Len(s) = n + l /\ Len(t) = n + l
    BY <1>7, <1>8
  <2> HIDE DEF s, t
  <2>3. s = t
    BY <2>1, <2>2, SameSeq
  <2> QED
    BY <2>3 DEF s, t
<1> QED
  BY <1>5, <1>9

LEMMA AppendedOK ==
  ASSUME NEW f, FifoOK(f), NEW d \in Seq(Bytes), Len(d) <= Capacity - f.count
  PROVE  /\ FifoOK(Appended(f, d))
         /\ Contents(Appended(f, d)) = Contents(f) \o d
<1> DEFINE l == Len(d)
<1> DEFINE w == f.write
<1> DEFINE t == Capacity - f.write
<1> DEFINE d1 == SubSeq(d, 1, t)
<1> DEFINE d2 == SubSeq(d, t + 1, l)
<1> DEFINE filled == IF l <= t THEN CopyIn(f.buffer, w, d)
                     ELSE CopyIn(CopyIn(f.buffer, w, d1), 0, d2)
<1> DEFINE g == Appended(f, d)
<1>1. /\ f \in Fifos /\ f.buffer \in [Positions -> Bytes]
      /\ f.count \in 0 .. Capacity /\ w \in Positions
  BY Fields
<1>2. /\ l \in Nat /\ l <= Capacity /\ l + f.count <= Capacity /\ l \in 0 .. Capacity
      /\ w \in 0 .. Capacity - 1 /\ Capacity \in Nat
  BY <1>1, CapacityIsNat DEF Positions
<1>3. \A i \in 1 .. l : d[i] \in Bytes
  OBVIOUS
<1>4. /\ filled \in [Positions -> Bytes]
      /\ \A k \in 0 .. Capacity - 1 :
           filled[PtrAdd(w, k)] = IF k < l THEN d[k + 1] ELSE f.buffer[PtrAdd(w, k)]
  <2>0. ASSUME NEW k \in 0 .. Capacity - 1
        PROVE  /\ PtrAdd(w, k) \in Positions
               /\ w + k < Capacity => PtrAdd(w, k) = w + k
               /\ w + k >= Capacity => PtrAdd(w, k) = w + k - Capacity
    <3>1. k \in 0 .. Capacity
      BY <1>2
    <3> QED
      BY <1>1, <3>1, Wrapped
  <2>1. CASE l <= t
    <3>1. filled = CopyIn(f.buffer, w, d)
      BY <2>1
    <3>2. \A p \in Positions : filled[p] = IF p \in w .. w + Len(d) - 1 THEN d[p - w + 1]
                                           ELSE f.buffer[p]
      BY <3>1 DEF CopyIn
    <3>3. filled = [p \in Positions |-> filled[p]]
      BY <3>1 DEF CopyIn
    <3> HIDE DEF filled
    <3>4. \A p \in Positions : /\ w <= p /\ p < w + l => filled[p] = d[p - w + 1]
                               /\ ~(w <= p /\ p < w + l) => filled[p] = f.buffer[p]
      BY <1>2, <3>2 DEF Positions
    <3> HIDE DEF w, l
    <3>5. ASSUME NEW p \in Positions PROVE filled[p] \in Bytes
      <4>1. CASE w <= p /\ p < w + l
        <5>1. p - w + 1 \in 1 .. l
          BY <1>2, <4>1 DEF Positions
        <5> QED
          BY <1>3, <3>4, <4>1, <5>1
      <4>2. CASE ~(w <= p /\ p < w + l)
        BY <1>1, <3>4, <4>2
      <4> QED
        BY <4>1, <4>2
    <3>6. filled \in [Positions -> Bytes]
      BY <3>3, <3>5
    <3>7. ASSUME NEW k \in 0 .. Capacity - 1
          PROVE  filled[PtrAdd(w, k)] = IF k < l THEN d[k + 1] ELSE f.buffer[PtrAdd(w, k)]
      <4> DEFINE p == PtrAdd(w, k)
      <4>1. /\ p \in Positions /\ w + k < Capacity => p = w + k
            /\ w + k >= Capacity => p = w + k - Capacity
        BY <2>0
      <4>2. p \in Positions
        BY <2>0
      <4> HIDE DEF p
      <4>3. CASE k < l
        <5>1. w + k < Capacity
          BY <1>2, <2>1, <4>3 DEF l, w
        <5>2. w <= p /\ p < w + l /\ p - w + 1 = k + 1
          BY <1>2, <4>1, <4>3, <5>1, <4>2
        <5>3. filled[p] = d[k + 1]
          BY <3>4, <4>2, <5>2
        <5> QED
          BY <4>3, <5>3 DEF p
      <4>4. CASE ~(k < l)
        <5>1. ~(w <= p /\ p < w + l)
          BY <1>2, <4>1, <4>2, <4>4 DEF Positions
        <5>2. filled[p] = f.buffer[p]
          BY <3>4, <4>2, <5>1
        <5> QED
          BY <4>4, <5>2 DEF p
      <4> QED
        BY <4>3, <4>4
    <3> QED
      BY <3>6, <3>7
  <2>2. CASE l > t
    <3>1. t \in Nat /\ t >= 1 /\ l - t \in Nat /\ t = Capacity - w
      BY <1>2, <2>2
    <3>2. Len(d1) = t /\ \A i \in 1 .. t : d1[i] = d[i]
      BY <1>2, <2>2, <3>1
    <3>3. Len(d2) = l - t /\ \A i \in 1 .. l - t : d2[i] = d[t + i]
      <4>1. d \in Seq(Bytes) /\ Len(d) = l
        OBVIOUS
      <4> HIDE DEF t, w, l
      <4> QED
        BY <1>2, <1>3, <2>2, <3>1, <4>1
    <3> DEFINE once == CopyIn(f.buffer, w, d1)
    <3>4. \A p \in Positions : once[p] = IF p \in w .. w + Len(d1) - 1 THEN d1[p - w + 1]
                                         ELSE f.buffer[p]
      BY DEF CopyIn
    <3>5. filled = CopyIn(once, 0, d2)
      BY <1>2, <2>2, <3>1
    <3> HIDE DEF once
    <3>6. /\ \A p \in Positions : filled[p] = IF p \in 0 .. 0 + Len(d2) - 1 THEN d2[p - 0 + 1]
                                              ELSE once[p]
          /\ filled = [p \in Positions |-> filled[p]]
      BY <3>5 DEF CopyIn
    <3> HIDE DEF filled, d1, d2, t, w, l
    <3>7. ASSUME NEW p \in Positions
          PROVE  /\ p < l - t => filled[p] = d[t + p + 1] /\ t + p + 1 \in 1 .. l
                 /\ ~(p < l - t) /\ w <= p => filled[p] = d[p - w + 1] /\ p - w + 1 \in 1 .. l
                 /\ ~(p < l - t) /\ ~(w <= p) => filled[p] = f.buffer[p]
      <4>0. p \in 0 .. Capacity - 1
        BY DEF Positions
      <4>1. CASE p < l - t
        <5>1. p \in 0 .. 0 + Len(d2) - 1 /\ p - 0 + 1 = p + 1 /\ p + 1 \in 1 .. l - t
              /\ t + (p + 1) = t + p + 1 /\ t + p + 1 \in 1 .. l
          BY <1>2, <3>1, <3>3, <4>0, <4>1
        <5>2. filled[p] = d2[p - 0 + 1]
          BY <3>6, <5>1
        <5>3. d2[p + 1] = d[t + (p + 1)]
          BY <3>3, <5>1
        <5> QED
          BY <4>1, <5>1, <5>2, <5>3
      <4>2. CASE ~(p < l - t)
        <5>1. ~(p \in 0 .. 0 + Len(d2) - 1)
          BY <3>1, <3>3, <4>0, <4>2
        <5>2. filled[p] = once[p]
          BY <3>6, <5>1
        <5>3. CASE w <= p
          <6>1. p \in w .. w + Len(d1) - 1 /\ p - w + 1 \in 1 .. t /\ p - w + 1 \in 1 .. l
            BY <1>2, <3>1, <3>2, <4>0, <5>3
          <6>2. once[p] = d1[p - w + 1]
            BY <3>4, <6>1
          <6>3. d1[p - w + 1] = d[p - w + 1]
            BY <3>2, <6>1
          <6> QED
            BY <4>2, <5>2, <5>3, <6>1, <6>2, <6>3
        <5>4. CASE ~(w <= p)
          <6>1. ~(p \in w .. w + Len(d1) - 1)
            BY <1>2, <3>1, <3>2, <4>0, <5>4
          <6> QED
            BY <3>4, <4>2, <5>2, <5>4, <6>1
        <5> QED
          BY <5>3, <5>4
      <4> QED
        BY <4>1, <4>2
    <3>8. ASSUME NEW p \in Positions PROVE filled[p] \in Bytes
      BY <1>1, <1>3, <3>7
    <3>9. filled \in [Positions -> Bytes]
      BY <3>6, <3>8
    <3>10. ASSUME NEW k \in 0 .. Capacity - 1
          PROVE  filled[PtrAdd(w, k)] = IF k < l THEN d[k + 1] ELSE f.buffer[PtrAdd(w, k)]
      <4> DEFINE p == PtrAdd(w, k)
      <4>1. /\ p \in Positions
            /\ w + k < Capacity => p = w + k
            /\ w + k >= Capacity => p = w + k - Capacity
        BY <2>0
      <4> HIDE DEF p
      <4>2. p \in 0 .. Capacity - 1
        BY <4>1 DEF Positions
      <4>3. CASE w + k < Capacity
        <5>0. p = w + k
          BY <4>1, <4>3
        <5>1. ~(p < l - t) /\ w <= p /\ k < l /\ p - w + 1 = k + 1
          BY <1>2, <2>2, <3>1, <4>3, <5>0 DEF t, l, w
        <5>2. filled[p] = d[k + 1]
          BY <3>7, <4>1, <5>1
        <5> QED
          BY <5>1, <5>2 DEF p
      <4>4. CASE ~(w + k < Capacity)
        <5>0. p = w + k - Capacity
          BY <1>2, <4>1, <4>4
        <5>1. ~(w <= p) /\ (p < l - t <=> k < l) /\ t + p + 1 = k + 1
          BY <1>2, <3>1, <4>4, <5>0
        <5>2. CASE k < l
          <6>1. filled[p] = d[k + 1]
            BY <3>7, <4>1, <5>1, <5>2
          <6> QED
            BY <5>2, <6>1 DEF p
        <5>3. CASE ~(k < l)
          <6>1. filled[p] = f.buffer[p]
            BY <3>7, <4>1, <5>1, <5>3
          <6> QED
            BY <5>3, <6>1 DEF p
        <5> QED
          BY <5>2, <5>3
      <4> QED
        BY <4>3, <4>4
    <3> QED
      BY <3>9, <3>10
  <2> QED
    BY <1>2, <2>1, <2>2
<1>5. g = [f EXCEPT !.buffer = filled, !.write = PtrAdd(f.write, Len(d)),
                    !.count = f.count + Len(d)]
  BY DEF Appended
<1>6. PtrAdd(f.write, Len(d)) \in Positions /\ f.count + Len(d) \in 0 .. Capacity
  <2>1. PtrAdd(w, l) \in Positions
    BY <1>1, <1>2, Wrapped
  <2>2. f.count + l \in 0 .. Capacity
    BY <1>1, <1>2
  <2> QED
    BY <2>1, <2>2
<1>7. /\ filled \in [Positions -> Bytes]
      /\ \A k \in 0 .. Capacity - 1 :
           filled[PtrAdd(f.write, k)] = IF k < Len(d) THEN d[k + 1]
                                        ELSE f.buffer[PtrAdd(f.write, k)]
  BY <1>4
<1> HIDE DEF filled, g, l, w, t, d1, d2
<1>8. /\ g \in Fifos /\ g.buffer = filled /\ g.read = f.read
      /\ g.write = PtrAdd(f.write, Len(d)) /\ g.count = f.count + Len(d)
  BY <1>1, <1>5, <1>6, <1>7 DEF Fifos
<1>9. FifoOK(g) /\ Contents(g) = Contents(f) \o d
  BY <1>7, <1>8, FilledOK
<1> QED
  BY <1>9 DEF g

LEMMA PushedOK ==
  ASSUME NEW f, FifoOK(f), NEW b \in Bytes, f.count < Capacity
  PROVE  /\ FifoOK(Pushed(f, b))
         /\ Contents(Pushed(f, b)) = Contents(f) \o <<b>>
<1> DEFINE filled == [f.buffer EXCEPT ![f.write] = b]
<1> DEFINE d == <<b>>
<1> DEFINE g == Pushed(f, b)
<1>1. /\ f \in Fifos /\ f.buffer \in [Positions -> Bytes]
      /\ f.count \in 0 .. Capacity /\ f.write \in Positions
  BY Fields
<1>2. d \in Seq(Bytes) /\ Len(d) = 1 /\ d[1] = b
  OBVIOUS
<1>3. filled \in [Positions -> Bytes]
  BY <1>1
<1>4. /\ 1 \in 0 .. Capacity /\ f.count + 1 \in 0 .. Capacity
      /\ 1 <= Capacity - f.count
  BY <1>1, CapacityIsNat
<1>5. PtrAdd(f.write, 1) \in Positions
  BY <1>1, <1>4, Wrapped
<1>6. ASSUME NEW k \in 0 .. Capacity - 1
      PROVE  filled[PtrAdd(f.write, k)] = IF k < 1 THEN d[k + 1]
                                          ELSE f.buffer[PtrAdd(f.write, k)]
  <2> DEFINE q == PtrAdd(f.write, k)
  <2>1. /\ q \in Positions /\ k \in 0 .. Capacity
        /\ f.write + k < Capacity => q = f.write + k
        /\ f.write + k >= Capacity => q = f.write + k - Capacity
    <3>1. k \in 0 .. Capacity
      BY CapacityIsNat
    <3> QED
      BY <1>1, <3>1, Wrapped
  <2> HIDE DEF q
  <2>2. q = f.write <=> k = 0
    BY <1>1, <2>1, CapacityIsNat DEF Positions
  <2>3. filled[q] = IF q = f.write THEN b ELSE f.buffer[q]
    BY <1>1, <2>1
  <2>4. k < 1 <=> k = 0
    OBVIOUS
  <2>5. k = 0 => d[k + 1] = b
    OBVIOUS
  <2> HIDE DEF filled, d
  <2> QED
    BY <2>2, <2>3, <2>4, <2>5 DEF q
<1>7. g = [f EXCEPT !.buffer[f.write] = b, !.write = PtrAdd(f.write, 1),
                    !.count = f.count + 1]
  BY DEF Pushed
<1>8. g \in Fifos
  <2> HIDE DEF g
  <2> QED
    BY <1>1, <1>4, <1>5, <1>7 DEF Fifos
<1>9. /\ g.buffer = filled /\ g.read = f.read
      /\ g.write = PtrAdd(f.write, 1) /\ g.count = f.count + 1
  <2> HIDE DEF g
  <2> QED
    BY <1>1, <1>7 DEF Fifos
<1> HIDE DEF filled, d, g
<1>10. FifoOK(g) /\ Contents(g) = Contents(f) \o d
  BY <1>1, <1>2, <1>3, <1>4, <1>6, <1>8, <1>9, FilledOK
<1> QED
  BY <1>10 DEF d, g

(***************************************************************************)
(* Reading.                                                                *)
(***************************************************************************)

\* The first n bytes, on both sides of the end of the buffer.
LEMMA PeekedOK ==
  ASSUME NEW f, FifoOK(f), NEW n \in Nat, n <= f.count
  PROVE  Peeked(f, n) = SubSeq(Contents(f), 1, n)
<1> DEFINE c == Contents(f)
<1> DEFINE r == f.read
<1> DEFINE t == Capacity - f.read
<1>1. /\ f.buffer \in [Positions -> Bytes] /\ r \in Positions
      /\ f.count \in Nat /\ f.count <= Capacity
  BY Fields, CapacityIsNat
<1>2. /\ r \in 0 .. Capacity - 1 /\ Capacity \in Nat /\ n <= Capacity
      /\ t \in Nat /\ t = Capacity - r /\ t >= 1
  BY <1>1, CapacityIsNat DEF Positions
<1>3. /\ c \in Seq(Bytes) /\ Len(c) = f.count
      /\ \A i \in 1 .. f.count : c[i] = f.buffer[PtrAdd(r, i - 1)] /\ c[i] \in Bytes
  BY ContentsType
<1> DEFINE s == SubSeq(c, 1, n)
<1>4. s \in Seq(Bytes) /\ Len(s) = n /\ \A i \in 1 .. n : s[i] = c[i]
  <2> HIDE DEF c
  <2> QED
    BY <1>1, <1>3
<1>5. ASSUME NEW i \in 1 .. n
      PROVE  /\ r + i - 1 < Capacity => r + i - 1 \in Positions /\ c[i] = f.buffer[r + i - 1]
             /\ r + i - 1 >= Capacity => /\ r + i - 1 - Capacity \in Positions
                                         /\ c[i] = f.buffer[r + i - 1 - Capacity]
             /\ c[i] \in Bytes
  <2> HIDE DEF r
  <2>1. i - 1 \in 0 .. Capacity /\ i \in 1 .. f.count /\ r + (i - 1) = r + i - 1
    BY <1>1, <1>2
  <2>2. /\ r + (i - 1) < Capacity => PtrAdd(r, i - 1) = r + (i - 1)
        /\ r + (i - 1) >= Capacity => PtrAdd(r, i - 1) = r + (i - 1) - Capacity
        /\ PtrAdd(r, i - 1) \in Positions
    BY <1>1, <2>1, Wrapped
  <2> HIDE DEF c
  <2> QED
    BY <1>3, <2>1, <2>2
<1> HIDE DEF c, s, r, t
<1> DEFINE u == Peeked(f, n)
<1>6. /\ u \in Seq(Bytes) /\ Len(u) = n /\ \A i \in 1 .. n : u[i] = c[i]
  <2>1. CASE n <= t
    <3>1. u = [i \in 1 .. n |-> f.buffer[r + i - 1]]
      BY <2>1 DEF Peeked, CopyOut, r, t
    <3> HIDE DEF u
    <3>2. ASSUME NEW i \in 1 .. n PROVE f.buffer[r + i - 1] = c[i] /\ c[i] \in Bytes
      <4>1. r + i - 1 < Capacity
        BY <1>2, <2>1
      <4> QED
        BY <1>5, <4>1
    <3> QED
      BY <3>1, <3>2
  <2>2. CASE n > t
    <3> DEFINE a == [i \in 1 .. t |-> f.buffer[r + i - 1]]
    <3> DEFINE b == [i \in 1 .. n - t |-> f.buffer[0 + i - 1]]
    <3>1. u = a \o b
      <4>1. ~(n <= t)
        BY <1>2, <2>2
      <4> QED
        BY <4>1 DEF Peeked, CopyOut, r, t
    <3> HIDE DEF u
    <3>2. ASSUME NEW i \in 1 .. t PROVE f.buffer[r + i - 1] = c[i] /\ c[i] \in Bytes
      <4>1. r + i - 1 < Capacity /\ i \in 1 .. n
        BY <1>2, <2>2
      <4> QED
        BY <1>5, <4>1
    <3>3. ASSUME NEW i \in 1 .. n - t
          PROVE  f.buffer[0 + i - 1] = c[t + i] /\ c[t + i] \in Bytes
      <4>1. /\ t + i \in 1 .. n /\ r + (t + i) - 1 >= Capacity
            /\ r + (t + i) - 1 - Capacity = 0 + i - 1
        BY <1>2, <2>2
      <4> QED
        BY <1>5, <4>1
    <3>4. n - t \in Nat
      BY <1>2, <2>2
    <3>5. a \in Seq(Bytes) /\ Len(a) = t /\ \A i \in 1 .. t : a[i] = c[i]
      BY <1>2, <3>2
    <3>6. b \in Seq(Bytes) /\ Len(b) = n - t /\ \A i \in 1 .. n - t : b[i] = c[t + i]
      BY <3>3, <3>4
    <3> HIDE DEF a, b
    <3>7. u \in Seq(Bytes) /\ Len(u) = n
      <4>1. u \in Seq(Bytes) /\ Len(u) = Len(a) + Len(b)
        BY <3>1, <3>5, <3>6, ConcatProperties
      <4>2. t + (n - t) = n
        BY <1>2
      <4> QED
        BY <3>5, <3>6, <4>1, <4>2
    <3>8. ASSUME NEW i \in 1 .. n PROVE u[i] = c[i]
      <4>1. CASE i <= t
        BY <1>2, <3>1, <3>5, <3>6, <4>1
      <4>2. CASE i > t
        <5>1. i - t \in 1 .. n - t /\ t + (i - t) = i
          BY <1>2, <4>2
        <5>2. u[i] = b[i - t]
          BY <1>2, <3>1, <3>4, <3>5, <3>6, <4>2
        <5>3. b[i - t] = c[t + (i - t)]
          BY <3>6, <5>1
        <5> QED
          BY <5>1, <5>2, <5>3
      <4> QED
        BY <1>2, <4>1, <4>2
    <3> QED
      BY <3>7, <3>8
  <2> QED
    BY <1>2, <2>1, <2>2
<1> HIDE DEF u
<1>7. u = s
  <2>1. \A i \in 1 .. Len(u) : u[i] = s[i]
    BY <1>4, <1>6
  <2> QED
    BY <1>4, <1>6, <2>1, SameSeq
<1> QED
  BY <1>7 DEF c, s, u

(***************************************************************************)
(* Overwriting.                                                            *)
(***************************************************************************)

LEMMA Joined ==
  ASSUME NEW c \in Seq(Bytes), NEW d \in Seq(Bytes)
  PROVE  /\ c \o d \in Seq(Bytes) /\ Len(c \o d) = Len(c) + Len(d)
         /\ \A i \in 1 .. Len(c) + Len(d) :
              (c \o d)[i] = IF i <= Len(c) THEN c[i] ELSE d[i - Len(c)]
BY ConcatProperties

LEMMA Tailed ==
  ASSUME NEW c \in Seq(Bytes), NEW k \in Nat, k <= Len(c)
  PROVE  /\ SubSeq(c, k + 1, Len(c)) \in Seq(Bytes)
         /\ Len(SubSeq(c, k + 1, Len(c))) = Len(c) - k
         /\ \A i \in 1 .. Len(c) - k : SubSeq(c, k + 1, Len(c))[i] = c[k + i]
<1> DEFINE n == Len(c)
<1>1. n \in Nat /\ \A i \in 1 .. n : c[i] \in Bytes
  OBVIOUS
<1>2. c \in Seq(Bytes) /\ Len(c) = n /\ k <= n
  OBVIOUS
<1> HIDE DEF n
<1> QED
  BY <1>1, <1>2

\* Dropping the oldest k of c and storing d, where k bytes have no room.
LEMMA Squeezed ==
  ASSUME NEW c \in Seq(Bytes), NEW d \in Seq(Bytes), NEW k \in Nat, k <= Len(c),
         Len(c) + Len(d) = Capacity + k
  PROVE  SubSeq(c, k + 1, Len(c)) \o d = Abstract!Newest(c \o d)
<1> DEFINE n == Len(c)
<1> DEFINE l == Len(d)
<1> DEFINE s == c \o d
<1> DEFINE a == SubSeq(c, k + 1, n)
<1> DEFINE u == a \o d
<1>1. n \in Nat /\ l \in Nat /\ n + l = Capacity + k /\ k <= n
  OBVIOUS
<1>2. /\ s \in Seq(Bytes) /\ Len(s) = n + l
      /\ \A i \in 1 .. n + l : s[i] = IF i <= n THEN c[i] ELSE d[i - n]
  BY Joined
<1>3. a \in Seq(Bytes) /\ Len(a) = n - k /\ \A i \in 1 .. n - k : a[i] = c[k + i]
  BY Tailed
<1>4. /\ u \in Seq(Bytes) /\ Len(u) = (n - k) + l
      /\ \A i \in 1 .. (n - k) + l : u[i] = IF i <= n - k THEN a[i] ELSE d[i - (n - k)]
  <2> HIDE DEF a, u
  <2>1. /\ a \o d \in Seq(Bytes) /\ Len(a \o d) = Len(a) + Len(d)
        /\ \A i \in 1 .. Len(a) + Len(d) :
             (a \o d)[i] = IF i <= Len(a) THEN a[i] ELSE d[i - Len(a)]
    BY <1>3, Joined
  <2>2. Len(a) = n - k /\ Len(d) = l /\ u = a \o d
    BY <1>3 DEF u
  <2> QED
    BY <2>1, <2>2
<1> DEFINE v == SubSeq(s, k + 1, Len(s))
<1>5. v \in Seq(Bytes) /\ Len(v) = n + l - k /\ \A i \in 1 .. n + l - k : v[i] = s[k + i]
  <2>1. k <= Len(s)
    BY <1>1, <1>2
  <2> HIDE DEF s
  <2> QED
    BY <1>2, <2>1, Tailed
<1>6. v = Abstract!Newest(s)
  <2> HIDE DEF s, n, l
  <2>1. CASE k = 0
    <3>1. Len(s) <= Capacity
      BY <1>1, <1>2, <2>1, CapacityIsNat
    <3>2. v = s
      <4>1. \A i \in 1 .. Len(v) : v[i] = s[i]
        BY <1>1, <1>5, <2>1
      <4>2. Len(v) = Len(s)
        BY <1>1, <1>2, <1>5, <2>1
      <4> HIDE DEF v
      <4> QED
        BY <1>2, <1>5, <4>1, <4>2, SameSeq
    <3> QED
      BY <3>1, <3>2 DEF Abstract!Newest
  <2>2. CASE k # 0
    <3>1. ~(Len(s) <= Capacity)
      BY <1>1, <1>2, <2>2, CapacityIsNat
    <3>2. Len(s) - Capacity + 1 = k + 1
      BY <1>1, <1>2, CapacityIsNat
    <3>3. Abstract!Newest(s) = SubSeq(s, Len(s) - Capacity + 1, Len(s))
      BY <3>1, Zenon DEF Abstract!Newest
    <3> QED
      BY <3>2, <3>3
  <2> QED
    BY <2>1, <2>2
<1> HIDE DEF a, s, u, v, n, l
<1>7. ASSUME NEW i \in 1 .. (n - k) + l PROVE u[i] = v[i]
  <2>1. v[i] = s[k + i]
    BY <1>1, <1>5
  <2>2. CASE i <= n - k
    <3>1. u[i] = c[k + i]
      BY <1>1, <1>3, <1>4, <2>2
    <3>2. k + i <= n /\ k + i \in 1 .. n + l
      BY <1>1, <2>2
    <3> QED
      BY <1>2, <2>1, <3>1, <3>2
  <2>3. CASE ~(i <= n - k)
    <3>1. u[i] = d[i - (n - k)]
      BY <1>4, <2>3
    <3>2. ~(k + i <= n) /\ k + i \in 1 .. n + l /\ (k + i) - n = i - (n - k)
      BY <1>1, <2>3
    <3>3. s[k + i] = d[(k + i) - n]
      BY <1>2, <3>2
    <3> QED
      BY <2>1, <3>1, <3>2, <3>3
  <2> QED
    BY <2>2, <2>3
<1>8. Len(u) = Len(v) /\ \A i \in 1 .. Len(u) : u[i] = v[i]
  <2>1. n + l - k = (n - k) + l
    BY <1>1
  <2> QED
    BY <1>4, <1>5, <1>7, <2>1
<1>9. u = v
  BY <1>4, <1>5, <1>8, SameSeq
<1> QED
  BY <1>6, <1>9, Zenon DEF u, a, s, n

\* The end of d alone, where d fills the buffer.
LEMMA Flooded ==
  ASSUME NEW c \in Seq(Bytes), NEW d \in Seq(Bytes), Len(c) <= Capacity, Len(d) >= Capacity
  PROVE  SubSeq(d, Len(d) - Capacity + 1, Len(d)) = Abstract!Newest(c \o d)
<1> DEFINE n == Len(c)
<1> DEFINE l == Len(d)
<1> DEFINE s == c \o d
<1> DEFINE k == l - Capacity
<1>1. n \in Nat /\ l \in Nat /\ Capacity \in Nat /\ n <= Capacity /\ l >= Capacity /\ k \in Nat
      /\ k <= l
  BY CapacityIsNat
<1>2. /\ s \in Seq(Bytes) /\ Len(s) = n + l
      /\ \A i \in 1 .. n + l : s[i] = IF i <= n THEN c[i] ELSE d[i - n]
  BY Joined
<1> DEFINE a == SubSeq(d, k + 1, Len(d))
<1>3. a \in Seq(Bytes) /\ Len(a) = l - k /\ \A i \in 1 .. l - k : a[i] = d[k + i]
  <2> HIDE DEF k
  <2> QED
    BY <1>1, Tailed
<1>4. CASE n + l <= Capacity
  <2> HIDE DEF s, n, l
  <2>1. n = 0 /\ k = 0 /\ l = Capacity
    BY <1>1, <1>4
  <2>2. Abstract!Newest(s) = s
    BY <1>2, <1>4 DEF Abstract!Newest
  <2>3. Len(a) = Len(s)
    BY <1>1, <1>2, <1>3, <2>1
  <2>4. ASSUME NEW i \in 1 .. Len(a) PROVE a[i] = s[i]
    <3>1. i \in 1 .. l - k /\ i \in 1 .. n + l /\ ~(i <= n) /\ i - n = k + i
      BY <1>1, <1>2, <1>3, <2>1, <2>3
    <3>2. a[i] = d[k + i] /\ s[i] = d[i - n]
      BY <1>2, <1>3, <3>1
    <3> QED
      BY <3>1, <3>2
  <2> HIDE DEF a, k
  <2>5. a = s
    BY <1>2, <1>3, <2>3, <2>4, SameSeq
  <2> QED
    BY <2>2, <2>5, Zenon DEF a, k, s, l
<1>5. CASE ~(n + l <= Capacity)
  <2> DEFINE m == n + k
  <2> DEFINE v == SubSeq(s, m + 1, Len(s))
  <2>1. m \in Nat /\ m <= n + l
    BY <1>1
  <2>2. v \in Seq(Bytes) /\ Len(v) = n + l - m /\ \A i \in 1 .. n + l - m : v[i] = s[m + i]
    <3>1. m <= Len(s) /\ Len(s) - m = n + l - m
      BY <1>2, <2>1
    <3> HIDE DEF s, m, n, l
    <3>2. /\ v \in Seq(Bytes) /\ Len(v) = Len(s) - m
          /\ \A i \in 1 .. Len(s) - m : v[i] = s[m + i]
      BY <1>2, <2>1, <3>1, Tailed
    <3> QED
      BY <3>1, <3>2
  <2> HIDE DEF s, n, l
  <2>3. Abstract!Newest(s) = v
    <3>1. Len(s) - Capacity + 1 = m + 1
      BY <1>1, <1>2
    <3>2. Abstract!Newest(s) = SubSeq(s, Len(s) - Capacity + 1, Len(s))
      BY <1>2, <1>5, Zenon DEF Abstract!Newest
    <3> QED
      BY <3>1, <3>2
  <2>4. Len(a) = Len(v)
    BY <1>1, <1>3, <2>2
  <2>5. ASSUME NEW i \in 1 .. Len(a) PROVE a[i] = v[i]
    <3>1. /\ i \in 1 .. l - k /\ i \in 1 .. n + l - m /\ m + i \in 1 .. n + l
          /\ ~(m + i <= n) /\ (m + i) - n = k + i
      BY <1>1, <1>3, <2>1
    <3>2. a[i] = d[k + i] /\ v[i] = s[m + i] /\ s[m + i] = d[(m + i) - n]
      BY <1>2, <1>3, <2>2, <3>1
    <3> QED
      BY <3>1, <3>2
  <2> HIDE DEF a, k, v, m
  <2>6. a = v
    BY <1>3, <2>2, <2>4, <2>5, SameSeq
  <2> QED
    BY <2>3, <2>6, Zenon DEF a, k, s, l
<1> QED
  BY <1>4, <1>5

LEMMA OverwrittenOK ==
  ASSUME NEW f, FifoOK(f), NEW d \in Seq(Bytes)
  PROVE  /\ FifoOK(Overwritten(f, d))
         /\ Contents(Overwritten(f, d)) = Abstract!Newest(Contents(f) \o d)
<1> DEFINE c == Contents(f)
<1> DEFINE n == f.count
<1> DEFINE l == Len(d)
<1>1. c \in Seq(Bytes) /\ Len(c) = n
  BY ContentsType
<1>2. n \in Nat /\ n <= Capacity /\ l \in Nat /\ Capacity \in Nat
  BY Fields, CapacityIsNat
<1>3. CASE l >= Capacity
  <2> DEFINE g == Reset(f)
  <2> DEFINE e == SubSeq(d, l - Capacity + 1, l)
  <2>1. FifoOK(g) /\ Contents(g) = <<>> /\ g.count = 0
    BY ResetOK
  <2>2. e \in Seq(Bytes) /\ Len(e) = Capacity
    <3> DEFINE k == l - Capacity
    <3>1. k \in Nat /\ k <= Len(d) /\ Len(d) - k = Capacity
      BY <1>2, <1>3
    <3> HIDE DEF k
    <3>2. SubSeq(d, k + 1, Len(d)) \in Seq(Bytes) /\ Len(SubSeq(d, k + 1, Len(d))) = Len(d) - k
      BY <3>1, Tailed
    <3> QED
      BY <3>1, <3>2 DEF k
  <2>3. e = Abstract!Newest(c \o d)
    <3> HIDE DEF c
    <3> QED
      BY <1>1, <1>2, <1>3, Flooded
  <2>4. Overwritten(f, d) = Appended(g, e)
    BY <1>3 DEF Overwritten
  <2> HIDE DEF g, e, c
  <2>5. Len(e) <= Capacity - g.count
    BY <1>2, <2>1, <2>2
  <2>6. FifoOK(Appended(g, e)) /\ Contents(Appended(g, e)) = <<>> \o e
    BY <2>1, <2>2, <2>5, AppendedOK
  <2>7. <<>> \o e = e
    BY <2>2
  <2> QED
    BY <2>3, <2>4, <2>6, <2>7, Zenon DEF c
<1>4. CASE ~(l >= Capacity) /\ l >= Capacity - n
  <2> DEFINE k == l - (Capacity - n)
  <2> DEFINE g == Dropped(f, k)
  <2>1. k \in Nat /\ k <= n /\ k < n /\ n + l = Capacity + k /\ l <= Capacity - (n - k)
    BY <1>2, <1>4
  <2>2. Overwritten(f, d) = Appended(g, d)
    BY <1>4 DEF Overwritten
  <2> HIDE DEF k
  <2>3. FifoOK(g) /\ Contents(g) = SubSeq(c, k + 1, Len(c)) /\ g.count = n - k
    BY <2>1, DroppedOK
  <2> HIDE DEF g, c
  <2>4. FifoOK(Appended(g, d)) /\ Contents(Appended(g, d)) = SubSeq(c, k + 1, Len(c)) \o d
    <3>1. Len(d) <= Capacity - g.count
      BY <2>1, <2>3
    <3>2. FifoOK(Appended(g, d)) /\ Contents(Appended(g, d)) = Contents(g) \o d
      BY <2>3, <3>1, AppendedOK
    <3> QED
      BY <2>3, <3>2
  <2>5. SubSeq(c, k + 1, Len(c)) \o d = Abstract!Newest(c \o d)
    <3>1. k <= Len(c) /\ Len(c) + Len(d) = Capacity + k
      BY <1>1, <2>1
    <3> QED
      BY <1>1, <2>1, <3>1, Squeezed
  <2> QED
    BY <2>2, <2>4, <2>5, Zenon DEF c
<1>5. CASE ~(l >= Capacity) /\ ~(l >= Capacity - n)
  <2>1. Overwritten(f, d) = Appended(f, d)
    BY <1>5 DEF Overwritten
  <2>2. Len(d) <= Capacity - f.count
    BY <1>2, <1>5
  <2>3. FifoOK(Appended(f, d)) /\ Contents(Appended(f, d)) = c \o d
    BY <2>2, AppendedOK
  <2>4. Len(c \o d) = n + l
    <3> HIDE DEF c
    <3> QED
      BY <1>1, Joined
  <2>5. Abstract!Newest(c \o d) = c \o d
    <3> HIDE DEF c
    <3>1. Len(c \o d) <= Capacity
      BY <1>2, <1>5, <2>4
    <3> QED
      BY <3>1 DEF Abstract!Newest
  <2> HIDE DEF c
  <2> QED
    BY <2>1, <2>3, <2>5, Zenon DEF c
<1> QED
  BY <1>3, <1>4, <1>5

LEMMA PushedOverwriteOK ==
  ASSUME NEW f, FifoOK(f), f.count = Capacity, NEW b \in Bytes
  PROVE  /\ FifoOK(Pushed(Dropped(f, 1), b))
         /\ Contents(Pushed(Dropped(f, 1), b)) = Abstract!Newest(Contents(f) \o <<b>>)
<1> DEFINE c == Contents(f)
<1> DEFINE g == Dropped(f, 1)
<1> DEFINE d == <<b>>
<1>1. c \in Seq(Bytes) /\ Len(c) = Capacity
  BY ContentsType
<1>2. FifoOK(g) /\ Contents(g) = SubSeq(c, 1 + 1, Len(c)) /\ g.count < Capacity
  <2>1. /\ FifoOK(g) /\ Contents(g) = SubSeq(c, 1 + 1, Len(c))
        /\ 1 >= f.count => g.count = 0
        /\ 1 < f.count => g.count = f.count - 1
    BY DroppedOK
  <2> HIDE DEF g, c
  <2> QED
    BY <2>1, CapacityIsNat
<1>3. d \in Seq(Bytes) /\ Len(d) = 1
  OBVIOUS
<1> HIDE DEF c, g
<1>4. FifoOK(Pushed(g, b)) /\ Contents(Pushed(g, b)) = SubSeq(c, 1 + 1, Len(c)) \o d
  BY <1>2, PushedOK
<1> HIDE DEF d
<1>5. SubSeq(c, 1 + 1, Len(c)) \o d = Abstract!Newest(c \o d)
  <2>1. 1 \in Nat /\ 1 <= Len(c) /\ Len(c) + Len(d) = Capacity + 1
    BY <1>1, <1>3, CapacityIsNat
  <2> QED
    BY <1>1, <1>3, <2>1, Squeezed
<1> QED
  BY <1>4, <1>5, Zenon DEF c, g, d

(***************************************************************************)
(* Every call keeps the invariant and does what the queue does.            *)
(***************************************************************************)

LEMMA DataIsSeq ==
  ASSUME NEW d \in Data
  PROVE  d \in Seq(Bytes) /\ Len(d) \in Nat /\ d \in Abstract!Data
<1>1. PICK n \in Sizes : d \in [1 .. n -> Bytes]
  BY DEF Data
<1>2. n \in Nat
  BY MaxDataAssumption DEF Sizes
<1>3. d \in Abstract!Data
  BY Zenon DEF Data, Sizes, Abstract!Data, Abstract!Sizes
<1> QED
  BY <1>1, <1>2, <1>3

LEMMA PushImplements ==
  ASSUME Inv, NEW b \in Bytes, Push(b) PROVE Inv' /\ Abstract!Push(b)
<1> DEFINE c == Contents(fifo)
<1>1. FifoOK(fifo) /\ c \in Seq(Bytes) /\ Len(c) = fifo.count
      /\ fifo.count \in Nat /\ fifo.count <= Capacity
  BY ContentsType, Fields, CapacityIsNat DEF Inv
<1>2. CASE fifo.count = Capacity
  <2>1. fifo' = fifo /\ ret' = FULL /\ out' = <<>>
    BY <1>2 DEF Push, Reply
  <2>2. Abstract!Push(b)
    BY <1>1, <1>2, <2>1, Zenon DEF Abstract!Push, Abstract!Reply, FULL, Abstract!FULL
  <2> QED
    BY <1>1, <2>1, <2>2 DEF Inv
<1>3. CASE fifo.count # Capacity
  <2>1. fifo' = Pushed(fifo, b) /\ ret' = OK /\ out' = <<>>
    BY <1>3 DEF Push, Reply
  <2>2. fifo.count < Capacity
    BY <1>1, <1>3, CapacityIsNat
  <2>3. FifoOK(Pushed(fifo, b)) /\ Contents(Pushed(fifo, b)) = c \o <<b>>
    BY <1>1, <2>2, PushedOK
  <2>4. c \o <<b>> = Append(c, b)
    <3> HIDE DEF c
    <3> QED
      BY <1>1
  <2>5. Contents(fifo') = Append(Contents(fifo), b)
    BY <2>1, <2>3, <2>4, Zenon
  <2>6. Abstract!Push(b)
    BY <1>1, <1>3, <2>1, <2>5, Zenon DEF Abstract!Push, Abstract!Reply, OK, Abstract!OK
  <2> QED
    BY <2>1, <2>3, <2>6, Zenon DEF Inv
<1> QED
  BY <1>2, <1>3

LEMMA PushOverwriteImplements ==
  ASSUME Inv, NEW b \in Bytes, PushOverwrite(b) PROVE Inv' /\ Abstract!PushOverwrite(b)
<1> DEFINE c == Contents(fifo)
<1>1. FifoOK(fifo) /\ c \in Seq(Bytes) /\ Len(c) = fifo.count
      /\ fifo.count \in Nat /\ fifo.count <= Capacity
  BY ContentsType, Fields, CapacityIsNat DEF Inv
<1>2. c \o <<b>> = Append(c, b) /\ Len(Append(c, b)) = fifo.count + 1
  <2> HIDE DEF c
  <2> QED
    BY <1>1
<1>3. /\ FifoOK(fifo') /\ Contents(fifo') = Abstract!Newest(Append(c, b))
      /\ ret' = OK /\ out' = <<>>
  <2>1. CASE fifo.count # Capacity
    <3>1. fifo' = Pushed(fifo, b) /\ ret' = OK /\ out' = <<>>
      BY <2>1 DEF PushOverwrite, Reply
    <3>2. fifo.count < Capacity
      BY <1>1, <2>1, CapacityIsNat
    <3>3. FifoOK(Pushed(fifo, b)) /\ Contents(Pushed(fifo, b)) = c \o <<b>>
      BY <1>1, <3>2, PushedOK
    <3>4. Len(Append(c, b)) <= Capacity
      BY <1>1, <1>2, <3>2, CapacityIsNat
    <3>5. Abstract!Newest(Append(c, b)) = Append(c, b)
      BY <3>4, Zenon DEF Abstract!Newest
    <3> QED
      BY <1>2, <3>1, <3>3, <3>5, Zenon
  <2>2. CASE fifo.count = Capacity
    <3>1. fifo' = Pushed(Dropped(fifo, 1), b) /\ ret' = OK /\ out' = <<>>
      BY <2>2 DEF PushOverwrite, Reply
    <3>2. /\ FifoOK(Pushed(Dropped(fifo, 1), b))
          /\ Contents(Pushed(Dropped(fifo, 1), b)) = Abstract!Newest(c \o <<b>>)
      BY <1>1, <2>2, PushedOverwriteOK
    <3> QED
      BY <1>2, <3>1, <3>2, Zenon
  <2> QED
    BY <2>1, <2>2
<1> QED
  BY <1>3, Zenon DEF Inv, Abstract!PushOverwrite, Abstract!Reply, OK, Abstract!OK

LEMMA PushRangeImplements ==
  ASSUME Inv, NEW d \in Data, PushRange(d) PROVE Inv' /\ Abstract!PushRange(d)
<1> DEFINE c == Contents(fifo)
<1>1. FifoOK(fifo) /\ c \in Seq(Bytes) /\ Len(c) = fifo.count
      /\ fifo.count \in Nat /\ fifo.count <= Capacity
  BY ContentsType, Fields, CapacityIsNat DEF Inv
<1>2. d \in Seq(Bytes) /\ Len(d) \in Nat
  BY DataIsSeq
<1>3. CASE Capacity - fifo.count < Len(d)
  <2>1. fifo' = fifo /\ ret' = NOMEM /\ out' = <<>>
    BY <1>3 DEF PushRange, Reply
  <2>2. Abstract!PushRange(d)
    BY <1>1, <1>3, <2>1, Zenon DEF Abstract!PushRange, Abstract!Reply, NOMEM, Abstract!NOMEM
  <2> QED
    BY <1>1, <2>1, <2>2 DEF Inv
<1>4. CASE ~(Capacity - fifo.count < Len(d))
  <2>1. FifoOK(fifo') /\ Contents(fifo') = c \o d /\ ret' = OK /\ out' = <<>>
    <3>1. CASE Len(d) = 0
      <4>1. fifo' = fifo /\ ret' = OK /\ out' = <<>>
        BY <1>4, <3>1 DEF PushRange, Reply
      <4>2. c \o d = c
        <5>1. d = <<>>
          BY <1>2, <3>1
        <5> HIDE DEF c
        <5> QED
          BY <1>1, <5>1
      <4> QED
        BY <1>1, <4>1, <4>2, Zenon
    <3>2. CASE Len(d) # 0
      <4>1. fifo' = Appended(fifo, d) /\ ret' = OK /\ out' = <<>>
        BY <1>4, <3>2 DEF PushRange, Reply
      <4>2. Len(d) <= Capacity - fifo.count
        BY <1>1, <1>2, <1>4, CapacityIsNat
      <4>3. FifoOK(Appended(fifo, d)) /\ Contents(Appended(fifo, d)) = c \o d
        BY <1>1, <1>2, <4>2, AppendedOK
      <4> QED
        BY <4>1, <4>3, Zenon
    <3> QED
      BY <3>1, <3>2
  <2> QED
    BY <1>1, <1>4, <2>1, Zenon DEF Inv, Abstract!PushRange, Abstract!Reply, OK, Abstract!OK
<1> QED
  BY <1>3, <1>4

LEMMA PushRangeOverwriteImplements ==
  ASSUME Inv, NEW d \in Data, PushRangeOverwrite(d)
  PROVE  Inv' /\ Abstract!PushRangeOverwrite(d)
<1>1. fifo' = Overwritten(fifo, d) /\ ret' = OK /\ out' = <<>>
  BY DEF PushRangeOverwrite, Reply
<1>2. /\ FifoOK(Overwritten(fifo, d))
      /\ Contents(Overwritten(fifo, d)) = Abstract!Newest(Contents(fifo) \o d)
  BY DataIsSeq, OverwrittenOK DEF Inv
<1> QED
  BY <1>1, <1>2, Zenon
  DEF Inv, Abstract!PushRangeOverwrite, Abstract!Reply, OK, Abstract!OK

LEMMA DropImplements ==
  ASSUME Inv, NEW n \in Nat, Drop(n) PROVE Inv' /\ Abstract!Drop(n)
<1>1. fifo' = Dropped(fifo, n) /\ ret' = OK /\ out' = <<>>
  BY DEF Drop, Reply
<1>2. /\ FifoOK(Dropped(fifo, n))
      /\ Contents(Dropped(fifo, n)) = SubSeq(Contents(fifo), n + 1, Len(Contents(fifo)))
  BY DroppedOK DEF Inv
<1> QED
  BY <1>1, <1>2, Zenon DEF Inv, Abstract!Drop, Abstract!Rest, Abstract!Reply, OK, Abstract!OK

\* Reading n bytes that are there.
LEMMA TakenImplements ==
  ASSUME Inv, NEW n \in Nat, NEW size \in Nat, NEW take \in BOOLEAN,
         fifo.count # 0, n <= size, n <= fifo.count,
         fifo' = (IF take THEN Dropped(fifo, n) ELSE fifo), ret' = fifo'.count,
         out' = Peeked(fifo, n)
  PROVE  Inv' /\ Abstract!Read(n, size, take)
<1> DEFINE c == Contents(fifo)
<1>1. FifoOK(fifo) /\ c \in Seq(Bytes) /\ Len(c) = fifo.count
      /\ fifo.count \in Nat /\ fifo.count <= Capacity
  BY ContentsType, Fields, CapacityIsNat DEF Inv
<1>2. c # <<>> /\ ~(n > size \/ n > Len(c))
  <2> HIDE DEF c
  <2> QED
    BY <1>1
<1>3. out' = SubSeq(c, 1, n)
  BY <1>1, PeekedOK
<1>4. CASE take
  <2>1. fifo' = Dropped(fifo, n)
    BY <1>4
  <2>2. /\ FifoOK(fifo') /\ Contents(fifo') = SubSeq(c, n + 1, Len(c))
        /\ n >= fifo.count => fifo'.count = 0
        /\ n < fifo.count => fifo'.count = fifo.count - n
    <3> DEFINE g == Dropped(fifo, n)
    <3>1. /\ FifoOK(g) /\ Contents(g) = SubSeq(c, n + 1, Len(c))
          /\ n >= fifo.count => g.count = 0
          /\ n < fifo.count => g.count = fifo.count - n
      BY <1>1, DroppedOK
    <3>2. fifo' = g
      BY <2>1
    <3> HIDE DEF g, c
    <3> QED
      BY <3>1, <3>2, Zenon
  <2>3. ret' = Len(c) - n
    <3> HIDE DEF c
    <3> QED
      BY <1>1, <2>2
  <2> QED
    BY <1>2, <1>3, <1>4, <2>2, <2>3, Zenon DEF Inv, Abstract!Read, Abstract!Rest, Abstract!Reply
<1>5. CASE ~take
  <2>1. fifo' = fifo /\ ret' = Len(c)
    BY <1>1, <1>5
  <2> QED
    BY <1>1, <1>2, <1>3, <1>5, <2>1, Zenon DEF Inv, Abstract!Read, Abstract!Reply
<1> QED
  BY <1>4, <1>5

\* Reading from an empty queue, and more than there is.
LEMMA RefusedImplements ==
  ASSUME Inv, NEW n \in Nat, NEW size \in Nat, NEW take \in BOOLEAN,
         fifo' = fifo, out' = <<>>,
         \/ fifo.count = 0 /\ ret' = EMPTY
         \/ fifo.count # 0 /\ (n > size \/ n > fifo.count) /\ ret' = NOMEM
  PROVE  Inv' /\ Abstract!Read(n, size, take)
<1> DEFINE c == Contents(fifo)
<1>1. FifoOK(fifo) /\ c \in Seq(Bytes) /\ Len(c) = fifo.count
  BY ContentsType DEF Inv
<1>2. c = <<>> <=> fifo.count = 0
  <2> HIDE DEF c
  <2> QED
    BY <1>1
<1>3. Inv'
  BY <1>1, Zenon DEF Inv
<1>4. CASE fifo.count = 0 /\ ret' = EMPTY
  BY <1>2, <1>3, <1>4, Zenon DEF Abstract!Read, Abstract!Reply, EMPTY, Abstract!EMPTY
<1>5. CASE fifo.count # 0 /\ (n > size \/ n > fifo.count) /\ ret' = NOMEM
  <2>1. n > size \/ n > Len(c)
    BY <1>1, <1>5
  <2> QED
    BY <1>2, <1>3, <1>5, <2>1, Zenon DEF Abstract!Read, Abstract!Reply, NOMEM, Abstract!NOMEM
<1> QED
  BY <1>4, <1>5

LEMMA ReadRangeImplements ==
  ASSUME Inv, NEW n \in Nat, NEW size \in Nat, NEW take \in BOOLEAN,
         ReadRange(n, size, take)
  PROVE  Inv' /\ Abstract!Read(n, size, take)
<1>1. fifo.count \in Nat /\ fifo.count <= Capacity /\ Capacity \in Nat
  BY Fields, CapacityIsNat DEF Inv
<1>2. CASE fifo.count = 0
  <2>1. fifo' = fifo /\ ret' = EMPTY /\ out' = <<>>
    BY <1>2 DEF ReadRange, Reply
  <2> QED
    BY <1>2, <2>1, RefusedImplements
<1>3. CASE fifo.count # 0 /\ (n > size \/ n > fifo.count \/ n > Capacity)
  <2>1. fifo' = fifo /\ ret' = NOMEM /\ out' = <<>>
    BY <1>3 DEF ReadRange, Reply
  <2>2. n > size \/ n > fifo.count
    BY <1>1, <1>3
  <2> QED
    BY <1>3, <2>1, <2>2, RefusedImplements
<1>4. CASE fifo.count # 0 /\ ~(n > size \/ n > fifo.count \/ n > Capacity)
  <2>1. /\ fifo' = (IF take THEN Dropped(fifo, n) ELSE fifo) /\ ret' = fifo'.count
        /\ out' = Peeked(fifo, n)
    BY <1>4 DEF ReadRange, Reply
  <2>2. n <= size /\ n <= fifo.count
    BY <1>1, <1>4
  <2> QED
    BY <1>4, <2>1, <2>2, TakenImplements
<1> QED
  BY <1>2, <1>3, <1>4

LEMMA ReadByteImplements ==
  ASSUME Inv, NEW take \in BOOLEAN, ReadByte(take) PROVE Inv' /\ Abstract!Read(1, 1, take)
<1>1. /\ FifoOK(fifo) /\ fifo.count \in Nat /\ fifo.count <= Capacity
      /\ fifo.read \in Positions /\ fifo.buffer \in [Positions -> Bytes]
  BY Fields, CapacityIsNat DEF Inv
<1>2. CASE fifo.count = 0
  <2>1. fifo' = fifo /\ ret' = EMPTY /\ out' = <<>>
    BY <1>2 DEF ReadByte, Reply
  <2> QED
    BY <1>2, <2>1, RefusedImplements
<1>3. CASE fifo.count # 0
  <2>1. /\ fifo' = (IF take THEN Dropped(fifo, 1) ELSE fifo) /\ ret' = fifo'.count
        /\ out' = <<fifo.buffer[fifo.read]>>
    BY <1>3 DEF ReadByte, Reply
  <2>2. Peeked(fifo, 1) = <<fifo.buffer[fifo.read]>>
    <3>1. 1 <= Capacity - fifo.read /\ fifo.read + 1 - 1 = fifo.read
      BY <1>1, CapacityIsNat DEF Positions
    <3>2. Peeked(fifo, 1) = [i \in 1 .. 1 |-> fifo.buffer[fifo.read + i - 1]]
      BY <3>1, Zenon DEF Peeked, CopyOut
    <3>3. \A i \in 1 .. 1 : i = 1
      OBVIOUS
    <3>4. Peeked(fifo, 1) = [i \in 1 .. 1 |-> fifo.buffer[fifo.read]]
      BY <3>1, <3>2, <3>3
    <3> QED
      BY <3>4
  <2>3. 1 <= fifo.count /\ 1 <= 1
    BY <1>1, <1>3
  <2>4. out' = Peeked(fifo, 1)
    BY <2>1, <2>2, Zenon
  <2> QED
    BY <1>3, <2>1, <2>3, <2>4, TakenImplements
<1> QED
  BY <1>2, <1>3

LEMMA StepImplements ==
  ASSUME Inv, Next PROVE Inv' /\ Abstract!Next
<1>1. /\ Abstract!Sizes = Sizes /\ \A n \in Sizes : n \in Nat
      /\ 1 \in Sizes
  BY MaxDataAssumption DEF Abstract!Sizes, Sizes
<1>2. ASSUME NEW b \in Bytes, Push(b) PROVE Inv' /\ Abstract!Next
  BY <1>2, PushImplements DEF Abstract!Next
<1>3. ASSUME NEW b \in Bytes, PushOverwrite(b) PROVE Inv' /\ Abstract!Next
  BY <1>3, PushOverwriteImplements DEF Abstract!Next
<1>4. ASSUME NEW d \in Data, PushRange(d) PROVE Inv' /\ Abstract!Next
  BY <1>4, PushRangeImplements, DataIsSeq DEF Abstract!Next
<1>5. ASSUME NEW d \in Data, PushRangeOverwrite(d) PROVE Inv' /\ Abstract!Next
  BY <1>5, PushRangeOverwriteImplements, DataIsSeq DEF Abstract!Next
<1>6. ASSUME NEW take \in BOOLEAN, ReadByte(take) PROVE Inv' /\ Abstract!Next
  BY <1>1, <1>6, ReadByteImplements DEF Abstract!Next
<1>7. ASSUME NEW n \in Sizes, NEW size \in Sizes, NEW take \in BOOLEAN,
             ReadRange(n, size, take)
      PROVE  Inv' /\ Abstract!Next
  BY <1>1, <1>7, ReadRangeImplements DEF Abstract!Next
<1>8. ASSUME NEW n \in Sizes, Drop(n) PROVE Inv' /\ Abstract!Next
  BY <1>1, <1>8, DropImplements DEF Abstract!Next
<1> QED
  BY <1>2, <1>3, <1>4, <1>5, <1>6, <1>7, <1>8 DEF Next

LEMMA InitImplements == Init => Inv /\ Abstract!Init
<1> SUFFICES ASSUME Init PROVE Inv /\ Abstract!Init
  OBVIOUS
<1>1. fifo \in Fifos /\ fifo.read = 0 /\ fifo.write = 0 /\ fifo.count = 0
  BY BytesAssumption, CapacityIsNat DEF Init, Fifos
<1>2. PtrAdd(0, 0) = 0
  BY CapacityIsNat, Wrapped
<1>3. FifoOK(fifo)
  BY <1>1, <1>2 DEF FifoOK, Fifos
<1>4. Contents(fifo) \in Seq(Bytes) /\ Len(Contents(fifo)) = 0
  BY <1>1, <1>3, ContentsType
<1>5. Contents(fifo) = <<>>
  BY <1>4
<1> QED
  BY <1>3, <1>5 DEF Inv, Init, Abstract!Init, OK, Abstract!OK

\* The read and write positions stay inside the buffer, and the count is the distance
\* between them.
THEOREM Invariance == Spec => []Inv
<1>1. Init => Inv
  BY InitImplements
<1>2. Inv /\ [Next]_vars => Inv'
  BY StepImplements DEF vars, Inv
<1> QED
  BY <1>1, <1>2, PTL DEF Spec

\* Whatever the positions, the calls of fifo.c do what the calls of a bounded queue do.
THEOREM Refinement == Spec => ImplementsQueue
<1>1. Init => Abstract!Init
  BY InitImplements
<1>2. Inv /\ [Next]_vars => [Abstract!Next]_<<Contents(fifo), ret, out>>
  BY StepImplements DEF vars
<1> QED
  BY <1>1, <1>2, Invariance, PTL DEF Spec, ImplementsQueue, Abstract!Spec
=============================================================================
