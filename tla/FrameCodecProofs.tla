-------------------------- MODULE FrameCodecProofs --------------------------
(* The codec, for any messages and any way the stream is cut.                *)
EXTENDS FrameCodec, SequenceTheorems, TLAPS

(* The frame codec. rest[k] is all that follows message k in the stream; what *)
(* the decoder has, what is on the wire and what a close has thrown away are *)
(* together what follows the last message that was decoded.                  *)

Frame(d) == writeInt(Len(d)) \o d

CodecTypes == /\ sent \in Seq(Data) /\ out \in Seq(Data)
              /\ wire \in Seq(Byte) /\ in \in Seq(Byte)

Follows(rest) ==
  /\ rest[Len(sent)] = <<>>
  /\ \A k \in 1 .. Len(sent) : rest[k - 1] = Frame(sent[k]) \o rest[k]

Stream == \E rest \in [0 .. Len(sent) -> Seq(Byte)], lost \in Seq(Byte) :
            /\ Follows(rest)
            /\ rest[Len(out)] = in \o (wire \o lost)
            /\ ~cut => lost = <<>>

Decoded == Len(out) <= Len(sent) /\ \A k \in 1 .. Len(out) : out[k] = sent[k]

CodecInv == CodecTypes /\ Decoded /\ Stream

LEMMA Regroup ==
  ASSUME NEW a \in Seq(Byte), NEW b \in Seq(Byte), NEW c \in Seq(Byte)
  PROVE  (a \o b) \o c = a \o (b \o c)
BY ConcatAssociative

(* The digits of an int that is not negative, and what readInt makes of them. *)
LEMMA Digit == ASSUME NEW n \in Nat
               PROVE  n \div Base \in Nat /\ n % Base \in Byte /\ n = (n \div Base) * Base + (n % Base)
BY BaseIsNat DEF Byte

LEMMA Lower == ASSUME NEW n \in Nat, NEW k \in Nat, n < Base * k PROVE n \div Base < k
<1> DEFINE q == n \div Base
           r == n % Base
<1>1. q \in Nat /\ r \in Nat /\ n = q * Base + r
  BY Digit DEF Byte
<1>2. Base \in Nat
  BY BaseIsNat
<1> HIDE DEF q, r
<1>3. ASSUME q >= k PROVE FALSE
  <2>1. PICK e \in Nat : q = k + e
    BY ONLY <1>1, <1>3, k \in Nat
  <2>2. q * Base = Base * k + e * Base /\ e * Base \in Nat
    BY ONLY <1>2, <2>1, k \in Nat
  <2> QED
    BY ONLY <1>1, <2>2, <1>2, k \in Nat, n \in Nat, n < Base * k
<1> QED
  BY <1>1, <1>3 DEF q

IntBound == Base * (Base * (Base * Half))

LEMMA IntsSurvive ==
  ASSUME NEW n \in Nat, n < IntBound, NEW b, \A i \in 1 .. 4 : b[i] = writeInt(n)[i]
  PROVE  writeInt(n) \in Seq(Byte) /\ Len(writeInt(n)) = 4 /\ readInt(b) = n
<1> DEFINE n1 == n \div Base
           n2 == n1 \div Base
           n3 == n2 \div Base
<1>1. Base \in Nat /\ Half \in Nat /\ Half <= Base
  BY BaseIsNat DEF Half
<1>2. Base * (Base * Half) \in Nat /\ Base * Half \in Nat
  BY <1>1
<1>3. n1 \in Nat /\ n = n1 * Base + (n % Base) /\ n % Base \in Byte
  BY Digit
<1>4. n2 \in Nat /\ n1 = n2 * Base + (n1 % Base) /\ n1 % Base \in Byte
  BY <1>3, Digit
<1>5. n3 \in Nat /\ n2 = n3 * Base + (n2 % Base) /\ n2 % Base \in Byte
  BY <1>4, Digit
<1>6. n3 < Half
  <2>1. n1 < Base * (Base * Half)
    BY <1>2, Lower DEF IntBound
  <2>2. n2 < Base * Half
    BY <1>2, <1>3, <2>1, Lower
  <2> QED
    BY <1>1, <1>4, <2>2, Lower
<1>7. n3 \in Byte
  BY <1>1, <1>5, <1>6 DEF Byte
<1>8. writeInt(n) = <<n3, n2 % Base, n1 % Base, n % Base>>
  BY DEF writeInt
<1>9. b[1] = n3 /\ b[2] = n2 % Base /\ b[3] = n1 % Base /\ b[4] = n % Base
  BY <1>8
<1> DEFINE r0 == n % Base
           r1 == n1 % Base
           r2 == n2 % Base
<1> HIDE DEF n1, n2, n3, r0, r1, r2
<1>10. writeInt(n) \in Seq(Byte) /\ Len(writeInt(n)) = 4
  <2>1. n3 \in Byte /\ r2 \in Byte /\ r1 \in Byte /\ r0 \in Byte /\ writeInt(n) = <<n3, r2, r1, r0>>
    BY <1>3, <1>4, <1>5, <1>7, <1>8 DEF r0, r1, r2
  <2> QED
    BY ONLY <2>1
<1>11. readInt(b) = ((b[1] * Base + b[2]) * Base + b[3]) * Base + b[4]
  BY <1>6, <1>9 DEF readInt
<1>12. readInt(b) = n
  BY <1>3, <1>4, <1>5, <1>9, <1>11
<1> QED
  BY <1>10, <1>12

LEMMA Framed ==
  ASSUME NEW d \in Seq(Byte), Len(d) < IntBound
  PROVE  /\ Frame(d) \in Seq(Byte) /\ Len(Frame(d)) = 4 + Len(d)
         /\ \A i \in 1 .. 4 : Frame(d)[i] = writeInt(Len(d))[i]
         /\ \A i \in 1 .. Len(d) : Frame(d)[4 + i] = d[i]
         /\ \A q \in Seq(Byte) : q \o writeInt(Len(d)) \o d = q \o Frame(d)
<1> DEFINE h == writeInt(Len(d))
<1>1. h \in Seq(Byte) /\ Len(h) = 4
  BY IntsSurvive
<1>2. Frame(d) = h \o d
  BY DEF Frame
<1> HIDE DEF h
<1>3. /\ h \o d \in Seq(Byte) /\ Len(h \o d) = Len(h) + Len(d)
      /\ \A i \in 1 .. Len(h) + Len(d) : (h \o d)[i] = IF i <= Len(h) THEN h[i] ELSE d[i - Len(h)]
  BY ONLY <1>1, ConcatProperties, d \in Seq(Byte)
<1>4. \A q \in Seq(Byte) : (q \o h) \o d = q \o (h \o d)
  <2>1. h \in Seq(Byte) /\ d \in Seq(Byte)
    BY ONLY <1>1, d \in Seq(Byte)
  <2> QED
    BY ONLY <2>1, Regroup, Zenon
<1> DEFINE n == Len(d)
<1>5. n \in Nat
  OBVIOUS
<1> HIDE DEF n
<1> DEFINE r == h \o d
<1>6. /\ Len(r) = 4 + n
      /\ \A i \in 1 .. 4 + n : r[i] = IF i <= 4 THEN h[i] ELSE d[i - 4]
  BY <1>1, <1>3 DEF n
<1> HIDE DEF r
<1>7. /\ \A i \in 1 .. 4 : r[i] = h[i]
      /\ \A i \in 1 .. n : r[4 + i] = d[i]
  BY ONLY <1>5, <1>6
<1> QED
  BY <1>2, <1>3, <1>4, <1>6, <1>7 DEF h, n, r

(* Two ways to cut a sequence: the shorter first part begins the longer.     *)
Begins(x, y, a, b) ==
  /\ \A i \in 1 .. Len(x) : a[i] = x[i]
  /\ \E z \in Seq(Byte) :
       /\ y = z \o b /\ Len(z) = Len(a) - Len(x)
       /\ \A i \in 1 .. Len(a) - Len(x) : z[i] = a[Len(x) + i]

LEMMA Cuts ==
  ASSUME NEW x \in Seq(Byte), NEW y \in Seq(Byte), NEW a \in Seq(Byte), NEW b \in Seq(Byte),
         x \o y = a \o b, Len(x) <= Len(a)
  PROVE  Begins(x, y, a, b)
<1> DEFINE nx == Len(x)
           ny == Len(y)
           na == Len(a)
           nb == Len(b)
           w == x \o y
           v == SubSeq(a, nx + 1, na)
           u == v \o b
<1>1. nx \in Nat /\ ny \in Nat /\ na \in Nat /\ nb \in Nat /\ nx <= na
  OBVIOUS
<1>2. Len(w) = nx + ny /\ \A i \in 1 .. nx + ny : w[i] = IF i <= nx THEN x[i] ELSE y[i - nx]
  BY ConcatProperties
<1>3. Len(w) = na + nb /\ \A i \in 1 .. na + nb : w[i] = IF i <= na THEN a[i] ELSE b[i - na]
  BY ConcatProperties
<1>4. \A i \in nx + 1 .. na : a[i] \in Byte
  BY <1>1
<1>5. /\ v \in Seq(Byte) /\ Len(v) = na - nx
      /\ \A i \in 1 .. na - nx : v[i] = a[nx + i]
  <2>1. nx + 1 \in Int /\ na \in Int
    BY <1>1
  <2> HIDE DEF nx, na
  <2>2. /\ v \in Seq(Byte) /\ Len(v) = IF nx + 1 <= na THEN na - (nx + 1) + 1 ELSE 0
        /\ \A i \in 1 .. na - (nx + 1) + 1 : v[i] = a[nx + 1 + i - 1]
    BY ONLY <1>4, <2>1, SubSeqProperties
  <2> HIDE DEF v
  <2> QED
    BY ONLY <1>1, <2>2
<1>6. /\ Len(u) = Len(v) + nb
      /\ u \in Seq(Byte)
      /\ \A i \in 1 .. Len(v) + nb : u[i] = IF i <= Len(v) THEN v[i] ELSE b[i - Len(v)]
  <2> HIDE DEF v
  <2> QED
    BY <1>5, ConcatProperties
<1> HIDE DEF nx, ny, na, nb, w, v, u
<1>7. nx + ny = na + nb
  BY ONLY <1>2, <1>3
<1>8. \A i \in 1 .. nx : a[i] = x[i]
  <2> SUFFICES ASSUME NEW i \in 1 .. nx PROVE a[i] = x[i]
    OBVIOUS
  <2>1. i \in 1 .. nx + ny /\ i \in 1 .. na + nb /\ i <= nx /\ i <= na
    BY ONLY <1>1
  <2>2. w[i] = x[i]
    BY ONLY <1>2, <2>1
  <2>3. w[i] = a[i]
    BY ONLY <1>3, <2>1
  <2> QED
    BY ONLY <2>2, <2>3
<1>9. Len(u) = ny
  BY ONLY <1>1, <1>5, <1>6, <1>7
<1>10. \A i \in 1 .. ny : y[i] = w[nx + i]
  BY ONLY <1>1, <1>2
<1>11. \A i \in 1 .. ny : u[i] = w[nx + i]
  <2> SUFFICES ASSUME NEW i \in 1 .. ny PROVE u[i] = w[nx + i]
    OBVIOUS
  <2>1. CASE i <= na - nx
    <3>1. u[i] = a[nx + i]
      <4>1. i \in 1 .. Len(v) + nb /\ i <= Len(v) /\ i \in 1 .. na - nx
        BY ONLY <1>1, <1>5, <2>1, i \in 1 .. ny
      <4>2. u[i] = v[i]
        BY ONLY <1>6, <4>1
      <4>3. v[i] = a[nx + i]
        BY ONLY <1>5, <4>1
      <4> QED
        BY ONLY <4>2, <4>3
    <3>2. w[nx + i] = a[nx + i]
      <4> DEFINE k == nx + i
      <4>1. k \in 1 .. na + nb /\ k <= na
        BY ONLY <1>1, <1>7, <2>1, i \in 1 .. ny
      <4> HIDE DEF k
      <4>2. w[k] = a[k]
        BY ONLY <1>1, <1>3, <4>1
      <4> QED
        BY ONLY <4>2 DEF k
    <3> QED
      BY ONLY <3>1, <3>2
  <2>2. CASE i > na - nx
    <3>1. u[i] = b[i - (na - nx)]
      <4>1. i \in 1 .. Len(v) + nb /\ ~(i <= Len(v)) /\ Len(v) = na - nx
        BY ONLY <1>1, <1>5, <1>7, <2>2, i \in 1 .. ny
      <4>2. u[i] = b[i - Len(v)]
        BY ONLY <1>6, <4>1
      <4> QED
        BY ONLY <4>1, <4>2
    <3>2. w[nx + i] = b[nx + i - na]
      <4> DEFINE k == nx + i
      <4>1. k \in 1 .. na + nb /\ ~(k <= na)
        BY ONLY <1>1, <1>7, <2>2, i \in 1 .. ny
      <4> HIDE DEF k
      <4>2. w[k] = b[k - na]
        BY ONLY <1>1, <1>3, <4>1
      <4> QED
        BY ONLY <1>1, <4>2, i \in 1 .. ny DEF k
    <3>3. i - (na - nx) = nx + i - na
      BY ONLY <1>1, i \in 1 .. ny
    <3> QED
      BY ONLY <3>1, <3>2, <3>3
  <2> QED
    BY ONLY <1>1, <2>1, <2>2, i \in 1 .. ny
<1>12. y = u
  <2>1. \A i \in 1 .. Len(y) : y[i] = u[i]
    BY <1>10, <1>11 DEF ny
  <2> QED
    BY <1>6, <1>9, <2>1, SeqEqual DEF ny
<1> QED
  BY <1>5, <1>8, <1>12 DEF nx, na, u, Begins

(* Appending to the stream appends to what follows each message.             *)
LEMMA Encodes == ASSUME CodecInv, NEW d \in Data, encode(d) PROVE CodecInv'
<1> DEFINE N == Len(sent)
           fd == Frame(d)
<1>1. /\ ~cut /\ sent' = Append(sent, d) /\ wire' = wire \o writeInt(Len(d)) \o d
      /\ UNCHANGED <<in, out, cut>>
  BY DEF encode
<1>2. /\ sent \in Seq(Data) /\ out \in Seq(Data) /\ wire \in Seq(Byte) /\ in \in Seq(Byte)
      /\ Len(out) <= N /\ \A k \in 1 .. Len(out) : out[k] = sent[k]
      /\ N \in Nat /\ Len(out) \in Nat
  BY DEF CodecInv, CodecTypes, Decoded
<1>3. \A e \in Data : e \in Seq(Byte) /\ Len(e) < IntBound /\ Frame(e) \in Seq(Byte)
  BY DataAreBytes, Framed DEF IntBound
<1>4. fd \in Seq(Byte) /\ wire' = wire \o fd /\ wire' \in Seq(Byte)
  <2>1. fd \in Seq(Byte) /\ wire' = wire \o fd
    BY <1>1, <1>2, <1>3, Framed
  <2> HIDE DEF fd
  <2> QED
    BY <1>2, <2>1, ConcatProperties
<1>5. /\ sent' \in Seq(Data) /\ Len(sent') = N + 1 /\ sent'[N + 1] = d
      /\ \A k \in 1 .. N : sent'[k] = sent[k] /\ sent[k] \in Data
  BY <1>1, <1>2
<1>6. PICK rest \in [0 .. N -> Seq(Byte)], lost \in Seq(Byte) :
        /\ Follows(rest)
        /\ rest[Len(out)] = in \o (wire \o lost)
        /\ ~cut => lost = <<>>
  BY DEF CodecInv, Stream
<1>7. /\ rest[N] = <<>>
      /\ \A k \in 1 .. N : rest[k - 1] = Frame(sent[k]) \o rest[k]
  BY <1>6 DEF Follows
<1>8. rest[Len(out)] = in \o wire
  BY <1>1, <1>2, <1>6, ConcatEmptySeq
<1>9. \A k \in 0 .. N : rest[k] \in Seq(Byte) /\ rest[k] \o fd \in Seq(Byte)
  <2> HIDE DEF fd
  <2> QED
    BY <1>4, <1>6, ConcatProperties
<1> HIDE DEF N, fd
<1>10. PICK new \in [0 .. N + 1 -> Seq(Byte)] :
         new[N + 1] = <<>> /\ \A k \in 0 .. N : new[k] = rest[k] \o fd
  <2> DEFINE r == [k \in 0 .. N + 1 |-> IF k = N + 1 THEN <<>> ELSE rest[k] \o fd]
  <2>1. /\ r \in [0 .. N + 1 -> Seq(Byte)] /\ r[N + 1] = <<>>
        /\ \A k \in 0 .. N : r[k] = rest[k] \o fd
    <3>1. N + 1 \in 0 .. N + 1 /\ \A k \in 0 .. N : k \in 0 .. N + 1 /\ k # N + 1
      BY ONLY <1>2
    <3>2. \A k \in 0 .. N + 1 : k = N + 1 \/ k \in 0 .. N
      BY ONLY <1>2
    <3>3. <<>> \in Seq(Byte)
      OBVIOUS
    <3> QED
      BY ONLY <1>9, <3>1, <3>2, <3>3
  <2> HIDE DEF r
  <2> QED
    BY ONLY <2>1
<1>11. ASSUME NEW k \in 1 .. N + 1 PROVE new[k - 1] = Frame(sent'[k]) \o new[k]
  <2>1. CASE k = N + 1
    <3>1. new[k - 1] = <<>> \o fd /\ new[k] = <<>> /\ sent'[k] = d
      <4>1. k - 1 = N /\ N \in 0 .. N
        BY ONLY <1>2, <2>1
      <4> QED
        BY ONLY <1>5, <1>7, <1>10, <2>1, <4>1
    <3>2. <<>> \o fd = fd \o <<>>
      BY <1>4, ConcatEmptySeq
    <3> QED
      BY <3>1, <3>2 DEF fd
  <2>2. CASE k # N + 1
    <3>1. k \in 1 .. N /\ k - 1 \in 0 .. N /\ k \in 0 .. N
      BY <1>2, <2>2
    <3>2. /\ new[k - 1] = (Frame(sent[k]) \o rest[k]) \o fd /\ new[k] = rest[k] \o fd
          /\ sent'[k] = sent[k] /\ Frame(sent[k]) \in Seq(Byte) /\ rest[k] \in Seq(Byte)
      <4>1. new[k - 1] = rest[k - 1] \o fd /\ new[k] = rest[k] \o fd
        BY ONLY <1>10, <3>1
      <4>2. rest[k - 1] = Frame(sent[k]) \o rest[k]
        BY ONLY <1>7, <3>1
      <4>3. sent'[k] = sent[k] /\ Frame(sent[k]) \in Seq(Byte) /\ rest[k] \in Seq(Byte)
        BY ONLY <1>3, <1>5, <1>9, <3>1
      <4> QED
        BY ONLY <4>1, <4>2, <4>3
    <3>3. (Frame(sent[k]) \o rest[k]) \o fd = Frame(sent[k]) \o (rest[k] \o fd)
      <4> DEFINE fr == Frame(sent[k])
      <4>1. fr \in Seq(Byte) /\ rest[k] \in Seq(Byte) /\ fd \in Seq(Byte)
        BY ONLY <1>4, <3>2
      <4> HIDE DEF fr
      <4>2. (fr \o rest[k]) \o fd = fr \o (rest[k] \o fd)
        BY ONLY <4>1, Regroup, Zenon
      <4> QED
        BY ONLY <4>2 DEF fr
    <3> QED
      BY ONLY <3>2, <3>3
  <2> QED
    BY <2>1, <2>2
<1>12. Follows(new)'
  BY ONLY <1>5, <1>10, <1>11 DEF Follows
<1>13. new[Len(out)] = in \o (wire' \o <<>>)
  <2>1. new[Len(out)] = (in \o wire) \o fd
    <3>1. Len(out) \in 0 .. N
      BY ONLY <1>2
    <3> QED
      BY ONLY <1>8, <1>10, <3>1
  <2>2. (in \o wire) \o fd = in \o (wire \o fd)
    <3>1. in \in Seq(Byte) /\ wire \in Seq(Byte) /\ fd \in Seq(Byte)
      BY ONLY <1>2, <1>4
    <3> QED
      BY ONLY <3>1, Regroup, Zenon
  <2>3. wire' \o <<>> = wire'
    BY <1>4, ConcatEmptySeq
  <2> QED
    BY <1>4, <2>1, <2>2, <2>3
<1>14. Stream'
  <2>1. /\ new \in [0 .. Len(sent') -> Seq(Byte)] /\ <<>> \in Seq(Byte)
        /\ new[Len(out')] = in' \o (wire' \o <<>>)
    <3>1. <<>> \in Seq(Byte)
      OBVIOUS
    <3> QED
      BY ONLY <1>1, <1>5, <1>10, <1>13, <3>1
  <2> QED
    BY ONLY <1>12, <2>1 DEF Stream
<1>15. CodecTypes'
  BY <1>1, <1>2, <1>4, <1>5 DEF CodecTypes
<1>16. Decoded'
  <2>1. Len(sent') = N + 1 /\ out' = out /\ \A k \in 1 .. Len(out) : k \in 1 .. N
    BY ONLY <1>1, <1>2, <1>5
  <2>2. Len(out') <= Len(sent')
    BY ONLY <1>2, <2>1
  <2>3. \A k \in 1 .. Len(out) : out[k] = sent'[k]
    BY ONLY <1>2, <1>5, <2>1
  <2> QED
    BY ONLY <2>1, <2>2, <2>3 DEF Decoded
<1> QED
  BY <1>14, <1>15, <1>16 DEF CodecInv

(* A piece that arrives moves from the wire to the buffer.                   *)
LEMMA Delivers == ASSUME CodecInv, NEW n \in 1 .. Len(wire), Deliver(n) PROVE CodecInv'
<1> DEFINE piece == SubSeq(wire, 1, n)
           left == SubSeq(wire, n + 1, Len(wire))
<1>1. /\ ~cut /\ in' = in \o piece /\ wire' = left
      /\ UNCHANGED <<sent, out, cut>>
  BY DEF Deliver, Skip
<1>2. /\ sent \in Seq(Data) /\ out \in Seq(Data) /\ wire \in Seq(Byte) /\ in \in Seq(Byte)
  BY DEF CodecInv, CodecTypes
<1>3. piece \in Seq(Byte) /\ left \in Seq(Byte) /\ wire = piece \o left
  <2>1. /\ piece \in Seq(Byte) /\ Len(piece) = n
        /\ \A i \in 1 .. n : piece[i] = wire[i]
    BY <1>2, SubSeqProperties
  <2>2. /\ left \in Seq(Byte) /\ Len(left) = Len(wire) - n
        /\ \A i \in 1 .. Len(wire) - n : left[i] = wire[n + i]
    BY <1>2, SubSeqProperties
  <2> HIDE DEF piece, left
  <2>3. /\ piece \o left \in Seq(Byte) /\ Len(piece \o left) = Len(wire)
        /\ \A i \in 1 .. Len(wire) : (piece \o left)[i] = wire[i]
    <3>1. /\ piece \o left \in Seq(Byte) /\ Len(piece \o left) = Len(piece) + Len(left)
          /\ \A i \in 1 .. Len(piece) + Len(left) :
               (piece \o left)[i] = IF i <= Len(piece) THEN piece[i] ELSE left[i - Len(piece)]
      BY ONLY <2>1, <2>2, ConcatProperties
    <3>2. Len(wire) \in Nat /\ n \in 1 .. Len(wire)
      BY <1>2
    <3> DEFINE w == Len(wire)
               j == piece \o left
    <3>3. \A i \in 1 .. w : j[i] = IF i <= n THEN piece[i] ELSE left[i - n]
      <4> HIDE DEF w, j
      <4>1. w \in Nat /\ Len(piece) + Len(left) = w
        BY <2>1, <2>2, <3>2 DEF w
      <4> QED
        BY ONLY <2>1, <3>1, <4>1 DEF j
    <3>4. Len(j) = w
      BY ONLY <2>1, <2>2, <3>1, <3>2
    <3>5. \A i \in 1 .. w : wire[i] = IF i <= n THEN piece[i] ELSE left[i - n]
      <4> HIDE DEF w, j
      <4>1. w \in Nat /\ n \in 1 .. w /\ \A i \in 1 .. w - n : left[i] = wire[n + i]
        BY <2>2, <3>2 DEF w
      <4> QED
        BY ONLY <2>1, <4>1
    <3> HIDE DEF w, j
    <3> QED
      BY ONLY <3>1, <3>3, <3>4, <3>5 DEF w, j
  <2> QED
    BY <1>2, <2>1, <2>2, <2>3, SeqEqual
<1> HIDE DEF piece, left
<1>4. PICK rest \in [0 .. Len(sent) -> Seq(Byte)], lost \in Seq(Byte) :
        /\ Follows(rest)
        /\ rest[Len(out)] = in \o (wire \o lost)
        /\ ~cut => lost = <<>>
  BY DEF CodecInv, Stream
<1>5. rest[Len(out)] = (in \o piece) \o (left \o lost)
  <2>1. (in \o piece) \o (left \o lost) = in \o (piece \o (left \o lost))
    <3>1. left \o lost \in Seq(Byte)
      BY ONLY <1>3, <1>4, ConcatProperties
    <3> DEFINE more == left \o lost
    <3> HIDE DEF more
    <3>2. more \in Seq(Byte) /\ in \in Seq(Byte) /\ piece \in Seq(Byte)
      BY ONLY <1>2, <1>3, <3>1 DEF more
    <3>3. (in \o piece) \o more = in \o (piece \o more)
      BY ONLY <3>2, Regroup, Zenon
    <3> QED
      BY ONLY <3>3 DEF more
  <2>2. piece \o (left \o lost) = (piece \o left) \o lost
    BY ONLY <1>3, <1>4, Regroup, Zenon
  <2> QED
    BY ONLY <1>3, <1>4, <2>1, <2>2
<1>6. Stream'
  BY ONLY <1>1, <1>4, <1>5 DEF Stream, Follows
<1>7. CodecTypes'
  <2>1. in \o piece \in Seq(Byte)
    BY ONLY <1>2, <1>3, ConcatProperties
  <2> QED
    BY ONLY <1>1, <1>2, <1>3, <2>1 DEF CodecTypes
<1>8. Decoded'
  BY ONLY CodecInv, <1>1 DEF CodecInv, Decoded
<1> QED
  BY ONLY <1>6, <1>7, <1>8 DEF CodecInv

(* A whole frame at the head of the buffer is the next message sent.         *)
IsHead(d, after, b, q) ==
  /\ readInt(b) = Len(d)
  /\ Len(Skip(b, 4)) \in Nat
  /\ Len(Skip(b, 4)) >= Len(d) =>
       /\ SubSeq(Skip(b, 4), 1, Len(d)) = d
       /\ Skip(Skip(b, 4), Len(d)) \in Seq(Byte)
       /\ after = Skip(Skip(b, 4), Len(d)) \o q

LEMMA HeadIsNext ==
  ASSUME NEW d \in Seq(Byte), Len(d) < IntBound, NEW after \in Seq(Byte),
         NEW b \in Seq(Byte), NEW q \in Seq(Byte),
         Frame(d) \o after = b \o q, Len(b) >= 4
  PROVE  IsHead(d, after, b, q)
<1> DEFINE f == Frame(d)
           n == Len(d)
           m == Len(b)
           s == SubSeq(b, 5, m)
<1>1. /\ f \in Seq(Byte) /\ Len(f) = 4 + n
      /\ \A i \in 1 .. 4 : f[i] = writeInt(n)[i]
      /\ \A i \in 1 .. n : f[4 + i] = d[i]
  BY Framed
<1>2. n \in Nat /\ m \in Nat /\ m >= 4 /\ n < IntBound
  OBVIOUS
<1> HIDE DEF f
<1>3. \A i \in 1 .. 4 : b[i] = f[i]
  <2>1. \A i \in 1 .. Len(f) + Len(after) :
           (f \o after)[i] = IF i <= Len(f) THEN f[i] ELSE after[i - Len(f)]
    BY ONLY <1>1, ConcatProperties, after \in Seq(Byte)
  <2>2. \A i \in 1 .. Len(b) + Len(q) :
           (b \o q)[i] = IF i <= Len(b) THEN b[i] ELSE q[i - Len(b)]
    BY ONLY ConcatProperties, b \in Seq(Byte), q \in Seq(Byte)
  <2>3. f \o after = b \o q /\ Len(after) \in Nat /\ Len(q) \in Nat
    BY DEF f
  <2> HIDE DEF n
  <2>4. ASSUME NEW i \in 1 .. 4 PROVE b[i] = f[i]
    <3>1. /\ i \in 1 .. Len(f) + Len(after) /\ i <= Len(f)
          /\ i \in 1 .. Len(b) + Len(q) /\ i <= Len(b)
      BY ONLY <1>1, <1>2, <2>3 DEF m
    <3>2. (f \o after)[i] = f[i]
      BY ONLY <2>1, <3>1
    <3>3. (b \o q)[i] = b[i]
      BY ONLY <2>2, <3>1
    <3> QED
      BY ONLY <2>3, <3>2, <3>3
  <2> QED
    BY ONLY <2>4
<1>4. readInt(b) = n
  <2> HIDE DEF n
  <2>1. \A i \in 1 .. 4 : b[i] = writeInt(n)[i]
    BY ONLY <1>1, <1>3
  <2> QED
    BY ONLY <1>2, <2>1, IntsSurvive
<1>5. /\ s = Skip(b, 4) /\ s \in Seq(Byte) /\ Len(s) = m - 4
      /\ \A i \in 1 .. m - 4 : s[i] = b[4 + i]
  <2>1. s = Skip(b, 4)
    BY DEF Skip
  <2>2. /\ s \in Seq(Byte) /\ Len(s) = IF 5 <= m THEN m - 5 + 1 ELSE 0
        /\ \A i \in 1 .. m - 5 + 1 : s[i] = b[5 + i - 1]
    BY SubSeqProperties
  <2> HIDE DEF s, m
  <2> QED
    BY ONLY <1>2, <2>1, <2>2
<1>6. ASSUME m - 4 >= n
      PROVE  /\ SubSeq(s, 1, n) = d /\ Skip(s, n) \in Seq(Byte) /\ after = Skip(s, n) \o q
  <2> DEFINE u == SubSeq(s, n + 1, Len(s))
             c == SubSeq(s, 1, n)
  <2>0. Len(f) <= Len(b)
    BY ONLY <1>1, <1>2, <1>6 DEF m
  <2>1. /\ \A i \in 1 .. Len(f) : b[i] = f[i]
        /\ \E z \in Seq(Byte) :
             /\ after = z \o q /\ Len(z) = Len(b) - Len(f)
             /\ \A i \in 1 .. Len(b) - Len(f) : z[i] = b[Len(f) + i]
    <3>1. f \o after = b \o q
      BY DEF f
    <3>2. b \in Seq(Byte) /\ q \in Seq(Byte) /\ after \in Seq(Byte) /\ f \in Seq(Byte)
      BY <1>1
    <3>3. Begins(f, after, b, q)
      BY ONLY <2>0, <3>1, <3>2, Cuts
    <3> QED
      BY ONLY <3>3 DEF Begins
  <2>2. PICK t \in Seq(Byte) :
          /\ after = t \o q /\ Len(t) = m - 4 - n
          /\ \A i \in 1 .. m - 4 - n : t[i] = b[4 + n + i]
    <3>1. Len(b) - Len(f) = m - 4 - n
      BY ONLY <1>1, <1>2 DEF m
    <3>2. PICK z \in Seq(Byte) :
            /\ after = z \o q /\ Len(z) = Len(b) - Len(f)
            /\ \A i \in 1 .. Len(b) - Len(f) : z[i] = b[Len(f) + i]
      BY ONLY <2>1
    <3> HIDE DEF m, n
    <3>3. \A i \in 1 .. m - 4 - n : z[i] = b[4 + n + i]
      BY ONLY <1>1, <3>1, <3>2
    <3> QED
      BY ONLY <3>1, <3>2, <3>3
  <2> HIDE DEF s
  <2>3. /\ u \in Seq(Byte) /\ Len(u) = m - 4 - n
        /\ \A i \in 1 .. m - 4 - n : u[i] = s[n + i]
    <3>1. /\ u \in Seq(Byte)
          /\ Len(u) = IF n + 1 <= m - 4 THEN m - 4 - (n + 1) + 1 ELSE 0
          /\ \A i \in 1 .. m - 4 - (n + 1) + 1 : u[i] = s[n + 1 + i - 1]
      <4> DEFINE j == n + 1
                 l == m - 4
      <4>1. /\ s \in Seq(Byte) /\ Len(s) = l /\ j \in Int /\ l \in Int
            /\ \A i \in j .. l : s[i] \in Byte
        BY <1>2, <1>5
      <4>2. u = SubSeq(s, j, l)
        BY <4>1
      <4> HIDE DEF j, l, u
      <4>3. /\ u \in Seq(Byte) /\ Len(u) = IF j <= l THEN l - j + 1 ELSE 0
            /\ \A i \in 1 .. l - j + 1 : u[i] = s[j + i - 1]
        BY ONLY <4>1, <4>2, SubSeqProperties
      <4> QED
        BY ONLY <4>3 DEF j, l
    <3> HIDE DEF n, m, u
    <3> QED
      BY ONLY <1>2, <1>6, <3>1
  <2>4. c \in Seq(Byte) /\ Len(c) = n /\ \A i \in 1 .. n : c[i] = s[i]
    BY <1>2, <1>5, <1>6, SubSeqProperties
  <2> HIDE DEF u, c, n, m
  <2>5. t = u
    <3>1. \A i \in 1 .. m - 4 - n : t[i] = u[i]
      BY ONLY <1>2, <1>5, <1>6, <2>2, <2>3
    <3> QED
      BY ONLY <2>2, <2>3, <3>1, SeqEqual
  <2>6. c = d
    <3>1. \A i \in 1 .. n : c[i] = d[i]
      <4> SUFFICES ASSUME NEW i \in 1 .. n PROVE c[i] = d[i]
        OBVIOUS
      <4>1. c[i] = s[i] /\ s[i] = b[4 + i] /\ f[4 + i] = d[i]
        BY ONLY <1>1, <1>2, <1>5, <1>6, <2>4, i \in 1 .. n
      <4>2. b[4 + i] = f[4 + i]
        BY ONLY <1>1, <1>2, <2>1, i \in 1 .. n
      <4> QED
        BY ONLY <4>1, <4>2
    <3> QED
      BY <2>4, <3>1, SeqEqual DEF n
  <2>7. u = Skip(s, n)
    BY DEF u, Skip
  <2> QED
    BY <2>2, <2>3, <2>5, <2>6, <2>7 DEF c
<1>7. Len(s) \in Nat /\ (Len(s) >= n => m - 4 >= n)
  <2> HIDE DEF s, m, n
  <2> QED
    BY ONLY <1>2, <1>5
<1> QED
  BY <1>4, <1>5, <1>6, <1>7 DEF IsHead

(* A message decoded is the next one sent, and what follows it is what is    *)
(* left in the buffer and on the wire.                                       *)
LEMMA Decodes == ASSUME CodecInv, decode PROVE CodecInv'
<1> DEFINE n == readInt(in)
           s == Skip(in, 4)
           m == Len(out)
<1>1. /\ UNCHANGED <<sent, wire, cut>>
      /\ \/ UNCHANGED <<in, out>>
         \/ /\ ~(Len(in) < 4 \/ Len(s) < n)
            /\ out' = Append(out, SubSeq(s, 1, n)) /\ in' = Skip(s, n)
  BY DEF decode
<1>2. CASE UNCHANGED <<in, out>>
  BY <1>1, <1>2 DEF CodecInv, CodecTypes, Decoded, Stream, Follows
<1>3. CASE /\ ~(Len(in) < 4 \/ Len(s) < n)
           /\ out' = Append(out, SubSeq(s, 1, n)) /\ in' = Skip(s, n)
  <2>1. /\ sent \in Seq(Data) /\ out \in Seq(Data) /\ wire \in Seq(Byte) /\ in \in Seq(Byte)
        /\ m \in Nat /\ Len(sent) \in Nat /\ m <= Len(sent)
        /\ \A k \in 1 .. m : out[k] = sent[k]
    BY DEF CodecInv, CodecTypes, Decoded
  <2>2. PICK rest \in [0 .. Len(sent) -> Seq(Byte)], lost \in Seq(Byte) :
          /\ Follows(rest)
          /\ rest[m] = in \o (wire \o lost)
          /\ ~cut => lost = <<>>
    BY DEF CodecInv, Stream
  <2> DEFINE q == wire \o lost
  <2>3. q \in Seq(Byte)
    BY <2>1, <2>2, ConcatProperties
  <2> HIDE DEF q
  <2>4. Len(in) \in Nat /\ Len(in) >= 4
    BY <1>3, <2>1
  <2>5. m # Len(sent)
    <3> SUFFICES ASSUME m = Len(sent) PROVE FALSE
      OBVIOUS
    <3>1. in \o q = <<>>
      BY <2>2 DEF Follows, q
    <3>2. Len(in \o q) = Len(in) + Len(q) /\ Len(q) \in Nat
      BY ONLY <2>1, <2>3, ConcatProperties
    <3>3. Len(in \o q) = 0
      BY ONLY <3>1
    <3> QED
      BY ONLY <2>4, <3>2, <3>3
  <2> DEFINE d == sent[m + 1]
             after == rest[m + 1]
  <2>6. /\ m + 1 \in 1 .. Len(sent) /\ m + 1 \in 0 .. Len(sent) /\ (m + 1) - 1 = m
    <3> HIDE DEF m
    <3> QED
      BY ONLY <2>1, <2>5
  <2>7. d \in Data /\ d \in Seq(Byte) /\ Len(d) < IntBound /\ after \in Seq(Byte)
    <3>1. d \in Data /\ after \in Seq(Byte)
      BY <2>1, <2>2, <2>6
    <3> QED
      BY <3>1, DataAreBytes DEF IntBound
  <2>8. Frame(d) \o after = in \o q
    <3>1. rest[(m + 1) - 1] = Frame(d) \o after
      BY <2>2, <2>6 DEF Follows
    <3> QED
      BY <2>2, <2>6, <3>1 DEF q
  <2> HIDE DEF d, after
  <2>9. IsHead(d, after, in, q)
    BY ONLY <2>1, <2>3, <2>4, <2>7, <2>8, HeadIsNext
  <2>10. out' = Append(out, d) /\ in' \in Seq(Byte) /\ after = in' \o q
    <3>1. n = Len(d) /\ Len(s) \in Nat
      BY ONLY <2>9 DEF IsHead
    <3>2. Len(d) \in Nat
      BY ONLY <2>7
    <3>3. Len(s) >= Len(d)
      <4> HIDE DEF n, s
      <4> QED
        BY ONLY <1>3, <3>1, <3>2
    <3> QED
      BY ONLY <1>3, <2>9, <3>1, <3>3 DEF IsHead
  <2>11. /\ out' \in Seq(Data) /\ Len(out') = m + 1 /\ out'[m + 1] = d
         /\ \A k \in 1 .. m : out'[k] = out[k]
    BY ONLY <2>1, <2>7, <2>10
  <2>12. CodecTypes'
    BY ONLY <1>1, <2>1, <2>10, <2>11 DEF CodecTypes
  <2>13. Decoded'
    <3> HIDE DEF m
    <3> SUFFICES /\ Len(out') <= Len(sent)
                 /\ \A k \in 1 .. Len(out') : out'[k] = sent[k]
      BY ONLY <1>1 DEF Decoded
    <3>1. Len(out') <= Len(sent)
      BY ONLY <2>6, <2>11
    <3>2. ASSUME NEW k \in 1 .. Len(out') PROVE out'[k] = sent[k]
      <4>1. CASE k = m + 1
        BY ONLY <2>11, <4>1 DEF d
      <4>2. CASE k # m + 1
        <5>1. k \in 1 .. m
          BY ONLY <2>1, <2>11, <4>2
        <5> QED
          BY ONLY <2>1, <2>11, <5>1
      <4> QED
        BY ONLY <4>1, <4>2
    <3> QED
      BY ONLY <3>1, <3>2
  <2>14. Stream'
    <3>1. rest[Len(out')] = in' \o (wire \o lost)
      BY ONLY <2>10, <2>11 DEF after, q
    <3> QED
      BY ONLY <1>1, <2>2, <3>1 DEF Stream, Follows
  <2> QED
    BY ONLY <2>12, <2>13, <2>14 DEF CodecInv
<1> QED
  BY <1>1, <1>2, <1>3

(* What a close throws away was the last of the stream.                      *)
LEMMA Closes == ASSUME CodecInv, CloseWire PROVE CodecInv'
<1>1. ~cut /\ cut' = TRUE /\ wire' = <<>> /\ UNCHANGED <<sent, in, out>>
  BY DEF CloseWire
<1>2. /\ sent \in Seq(Data) /\ out \in Seq(Data) /\ wire \in Seq(Byte) /\ in \in Seq(Byte)
  BY DEF CodecInv, CodecTypes
<1>3. PICK rest \in [0 .. Len(sent) -> Seq(Byte)], lost \in Seq(Byte) :
        /\ Follows(rest)
        /\ rest[Len(out)] = in \o (wire \o lost)
        /\ ~cut => lost = <<>>
  BY DEF CodecInv, Stream
<1>4. wire \o lost \in Seq(Byte) /\ <<>> \o (wire \o lost) = wire \o lost
  BY <1>1, <1>2, <1>3, ConcatProperties, ConcatEmptySeq
<1>5. Stream'
  <2> DEFINE gone == wire \o lost
  <2>1. gone \in Seq(Byte) /\ rest[Len(out)] = in \o (<<>> \o gone)
    BY <1>3, <1>4
  <2> HIDE DEF gone
  <2> QED
    BY ONLY <1>1, <1>3, <2>1 DEF Stream, Follows
<1>6. CodecTypes' /\ Decoded'
  <2>1. CodecTypes'
    BY <1>1, <1>2 DEF CodecTypes
  <2> QED
    BY <1>1, <2>1 DEF CodecInv, Decoded
<1> QED
  BY <1>5, <1>6 DEF CodecInv

LEMMA CodecStarts == CodecInit => CodecInv
<1> SUFFICES ASSUME CodecInit PROVE CodecInv
  OBVIOUS
<1>1. sent = <<>> /\ wire = <<>> /\ in = <<>> /\ out = <<>>
  BY DEF CodecInit
<1>2. CodecTypes /\ Decoded
  BY <1>1 DEF CodecTypes, Decoded
<1>3. Stream
  <2> DEFINE rest == [k \in 0 .. 0 |-> <<>>]
  <2>1. rest \in [0 .. 0 -> Seq(Byte)] /\ rest[0] = <<>>
    OBVIOUS
  <2>2. <<>> \o (<<>> \o <<>>) = <<>> /\ <<>> \in Seq(Byte) /\ Len(<<>>) = 0
    BY ConcatEmptySeq
  <2> HIDE DEF rest
  <2>3. rest \in [0 .. Len(sent) -> Seq(Byte)] /\ rest[Len(sent)] = <<>>
        /\ \A k \in 1 .. Len(sent) : FALSE
    BY <1>1, <2>1, <2>2
  <2>4. Follows(rest)
    BY ONLY <2>3 DEF Follows
  <2>5. rest[Len(out)] = in \o (wire \o <<>>)
    BY <1>1, <2>1, <2>2
  <2> QED
    BY ONLY <2>2, <2>3, <2>4, <2>5 DEF Stream
<1> QED
  BY <1>2, <1>3 DEF CodecInv

LEMMA CodecInductive == CodecInv /\ [CodecNext]_codecVars => CodecInv'
<1> SUFFICES ASSUME CodecInv, [CodecNext]_codecVars PROVE CodecInv'
  OBVIOUS
<1>1. ASSUME NEW d \in Data, encode(d) PROVE CodecInv'
  BY <1>1, Encodes
<1>2. ASSUME NEW n \in 1 .. Len(wire), Deliver(n) PROVE CodecInv'
  BY <1>2, Delivers
<1>3. CASE decode
  BY <1>3, Decodes
<1>4. CASE CloseWire
  BY <1>4, Closes
<1>5. CASE UNCHANGED codecVars
  BY <1>5 DEF codecVars, CodecInv, CodecTypes, Decoded, Stream, Follows
<1> QED
  BY <1>1, <1>2, <1>3, <1>4, <1>5 DEF CodecNext, Transfer

(* ObjEncoder and ObjDecoder: whatever messages are sent and however the     *)
(* stream is cut into pieces, the messages decoded are the first of those    *)
(* sent, unchanged and in order, whether or not the connection is closed.    *)
THEOREM FramesSurvive == CodecSpec => []DecodedIsPrefix
<1>2. CodecInv => DecodedIsPrefix
  <2> SUFFICES ASSUME CodecInv PROVE DecodedIsPrefix
    OBVIOUS
  <2> DEFINE k == Len(out)
             p == SubSeq(sent, 1, k)
  <2>1. /\ sent \in Seq(Data) /\ out \in Seq(Data) /\ k \in Nat /\ k <= Len(sent)
        /\ \A i \in 1 .. k : out[i] = sent[i]
    BY DEF CodecInv, CodecTypes, Decoded
  <2>2. p \in Seq(Data) /\ Len(p) = k /\ \A i \in 1 .. k : p[i] = sent[i]
    BY <2>1, SubSeqProperties
  <2>3. out = p
    BY <2>1, <2>2, SeqEqual
  <2> QED
    BY <2>1, <2>3 DEF DecodedIsPrefix
<1> QED
  BY <1>2, CodecInductive, CodecStarts, PTL DEF CodecSpec

(* What decode leaves in the buffer is no whole frame.                       *)
NoFrame == stuck => Len(in) < 4 \/ Len(Skip(in, 4)) < readInt(in)

(* ObjDecoder: once decode has done what it can and all bytes have come in,  *)
(* no message is left for the next read: whatever is still in the buffer     *)
(* would begin with a frame, and a frame that is whole would have been taken. *)
THEOREM NothingWaits == CodecSpec => []NothingHeldBack
<1>1. CodecInit => NoFrame
  BY DEF CodecInit, NoFrame
<1>2. NoFrame /\ [CodecNext]_codecVars => NoFrame'
  <2> SUFFICES ASSUME NoFrame, [CodecNext]_codecVars PROVE NoFrame'
    OBVIOUS
  <2> DEFINE Whole(b) == Len(b) < 4 \/ Len(Skip(b, 4)) < readInt(b)
  <2>1. NoFrame = (stuck => Whole(in)) /\ NoFrame' = (stuck' => Whole(in'))
    BY DEF NoFrame, Skip, readInt
  <2>2. \/ stuck' = FALSE
        \/ UNCHANGED <<in, stuck>>
        \/ UNCHANGED in /\ Whole(in)
        \/ ~stuck /\ UNCHANGED stuck
    <3> HIDE DEF Whole
    <3>1. ASSUME NEW d \in Data, encode(d) PROVE UNCHANGED <<in, stuck>>
      BY <3>1 DEF encode
    <3>2. ASSUME NEW n \in 1 .. Len(wire), Deliver(n) PROVE stuck' = FALSE
      BY <3>2 DEF Deliver
    <3>3. CASE decode
      BY <3>3 DEF decode, Whole
    <3>4. CASE CloseWire \/ UNCHANGED codecVars
      BY <3>4 DEF CloseWire, codecVars
    <3> QED
      BY <3>1, <3>2, <3>3, <3>4 DEF CodecNext, Transfer
  <2> HIDE DEF Whole
  <2> QED
    BY <2>1, <2>2
<1>3. CodecInv /\ NoFrame => NothingHeldBack
  <2> SUFFICES ASSUME CodecInv, NoFrame, stuck, wire = <<>>, ~cut, Len(out) # Len(sent)
               PROVE  FALSE
    BY DEF NothingHeldBack
  <2> DEFINE m == Len(out)
  <2>1. /\ sent \in Seq(Data) /\ in \in Seq(Byte) /\ m \in Nat /\ Len(sent) \in Nat /\ m < Len(sent)
    BY DEF CodecInv, CodecTypes, Decoded
  <2>2. PICK rest \in [0 .. Len(sent) -> Seq(Byte)] : Follows(rest) /\ rest[m] = in
    <3>1. PICK rest \in [0 .. Len(sent) -> Seq(Byte)], lost \in Seq(Byte) :
            Follows(rest) /\ rest[m] = in \o (wire \o lost) /\ lost = <<>>
      BY DEF CodecInv, Stream
    <3>2. in \o (<<>> \o <<>>) = in
      BY <2>1, ConcatEmptySeq
    <3> QED
      BY <3>1, <3>2
  <2> DEFINE d == sent[m + 1]
             after == rest[m + 1]
  <2>3. m + 1 \in 1 .. Len(sent) /\ m + 1 \in 0 .. Len(sent) /\ (m + 1) - 1 = m
    <3> HIDE DEF m
    <3> QED
      BY ONLY <2>1
  <2>4. d \in Seq(Byte) /\ Len(d) < IntBound /\ after \in Seq(Byte)
    <3>1. d \in Data /\ after \in Seq(Byte)
      BY <2>1, <2>2, <2>3
    <3> QED
      BY <3>1, DataAreBytes DEF IntBound
  <2>5. in = Frame(d) \o after
    BY <2>2, <2>3 DEF Follows
  <2> HIDE DEF d, after
  <2>6. Frame(d) \in Seq(Byte) /\ Len(Frame(d)) = 4 + Len(d) /\ Len(d) \in Nat
    BY ONLY <2>4, Framed
  <2>7. Len(in) = 4 + Len(d) + Len(after) /\ Len(after) \in Nat
    <3> DEFINE f == Frame(d)
    <3>1. f \in Seq(Byte) /\ after \in Seq(Byte) /\ in = f \o after /\ Len(f) = 4 + Len(d)
      BY <2>4, <2>5, <2>6
    <3> HIDE DEF f
    <3>2. Len(in) = Len(f) + Len(after)
      BY ONLY <3>1, ConcatProperties
    <3> QED
      BY ONLY <3>1, <3>2
  <2>8. IsHead(d, after, in, <<>>)
    <3>1. Frame(d) \o after = in \o <<>> /\ <<>> \in Seq(Byte)
      BY ONLY <2>1, <2>5, ConcatEmptySeq
    <3>2. Len(in) >= 4
      BY ONLY <2>6, <2>7
    <3> QED
      BY ONLY <2>1, <2>4, <3>1, <3>2, HeadIsNext
  <2>9. Len(Skip(in, 4)) = Len(in) - 4
    <3>1. Len(in) >= 4 /\ Len(in) \in Nat
      BY ONLY <2>6, <2>7
    <3> DEFINE l == Len(in)
    <3>2. l \in Nat /\ 4 + 1 \in Int /\ l \in Int /\ \A i \in 4 + 1 .. l : in[i] \in Byte
      BY <2>1, <3>1
    <3>3. Skip(in, 4) = SubSeq(in, 4 + 1, l)
      BY DEF Skip
    <3> HIDE DEF l
    <3>4. Len(SubSeq(in, 4 + 1, l)) = IF 4 + 1 <= l THEN l - (4 + 1) + 1 ELSE 0
      BY ONLY <2>1, <3>2, SubSeqProperties
    <3>5. l >= 4
      BY <3>1 DEF l
    <3> QED
      BY ONLY <3>2, <3>3, <3>4, <3>5 DEF l
  <2>10. ~(Len(in) < 4) /\ ~(Len(Skip(in, 4)) < readInt(in))
    BY ONLY <2>6, <2>7, <2>8, <2>9 DEF IsHead
  <2> QED
    BY <2>10 DEF NoFrame
<1> QED
  BY <1>1, <1>2, <1>3, CodecInductive, CodecStarts, PTL DEF CodecSpec
============================================================================
