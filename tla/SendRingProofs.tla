---------------------------- MODULE SendRingProofs ---------------------------
(***************************************************************************)
(* Proofs about SendRing for a ring of any size, messages of any lengths   *)
(* and any writes: positions in the ring without %, what send_data stores, *)
(* what write() takes, and that conn_write is never forgotten.             *)
(***************************************************************************)
EXTENDS SendRing, SequenceTheorems, TLAPS

\* The number of bytes from rd to wr, and the position k bytes after rd.
Filled(rd, wr) == IF wr >= rd THEN wr - rd ELSE wr - rd + Size
At(rd, k) == IF rd + k >= Size THEN rd + k - Size ELSE rd + k

\* The bytes s lie in bf, from rd up to wr.
Holds(rd, wr, bf, s) ==
    /\ Len(s) = Filled(rd, wr)
    /\ \A k \in 0 .. Filled(rd, wr) - 1 : bf[At(rd, k)] = s[k + 1]

\* A loop around write() belongs to a connection; a closed one has nothing left.
OnlyWhenOpen == ~open => phase = "idle" /\ q = << >>

\* Whatever waits, conn_write will be called, in a loop around write() too.
Waiting == q # << >> \/ dropAfter => armed

RingInv == TypeOK /\ RingHoldsQueue /\ OnlyWhenOpen /\ Waiting

-----------------------------------------------------------------------------
\* No position is more than one turn away.
LEMMA ModOneTurn ==
    ASSUME NEW a \in 0 .. 2 * Size - 1
    PROVE  a % Size = IF a >= Size THEN a - Size ELSE a
<1>1. Size \in Nat \ {0} /\ a \in Nat
  BY RingAssumption
<1>2. CASE a < Size
  BY <1>1, <1>2
<1>3. CASE a >= Size
  <2>. DEFINE b == a - Size
  <2>1. b \in 0 .. Size - 1 /\ a = b + Size
    BY <1>1, <1>3
  <2>2. (b + Size) % Size = b
    BY <1>1, <2>1
  <2>. QED  BY <1>1, <1>3, <2>1, <2>2
<1>. QED  BY <1>1, <1>2, <1>3

\* The positions of a ring with one end at rd.
LEMMA Positions ==
    ASSUME NEW rd \in Index, NEW wr \in Index
    PROVE  /\ Filled(rd, wr) \in 0 .. Size - 1
           /\ (wr - rd + Size) % Size = Filled(rd, wr)
           /\ \A k \in 0 .. Size - 1 : At(rd, k) \in Index /\ (rd + k) % Size = At(rd, k)
           /\ Filled(rd, wr) = 0 <=> rd = wr
           /\ \A k \in 0 .. Size - 1 : Filled(rd, At(rd, k)) = k
           /\ \A n \in 0 .. Size - 1 - Filled(rd, wr) :
                Filled(rd, At(wr, n)) = Filled(rd, wr) + n
           /\ \A k \in 0 .. Filled(rd, wr) : \A j \in 0 .. Filled(rd, wr) - k :
                /\ At(At(rd, k), j) = At(rd, k + j)
                /\ Filled(At(rd, k), wr) = Filled(rd, wr) - k
           /\ At(rd, Filled(rd, wr)) = wr
<1>1. Size \in Nat \ {0} /\ rd \in 0 .. Size - 1 /\ wr \in 0 .. Size - 1
  BY RingAssumption DEF Index
<1>2. (wr - rd + Size) % Size = Filled(rd, wr)
  <2>1. wr - rd + Size \in 0 .. 2 * Size - 1
    BY <1>1
  <2>. QED  BY <1>1, <2>1, ModOneTurn DEF Filled
<1>3. ASSUME NEW k \in 0 .. Size - 1
      PROVE  (rd + k) % Size = At(rd, k)
  <2>1. rd + k \in 0 .. 2 * Size - 1
    BY <1>1
  <2>2. PICK a : a = rd + k
    OBVIOUS
  <2>3. a % Size = IF a >= Size THEN a - Size ELSE a
    BY <2>1, <2>2, ModOneTurn
  <2>. QED  BY <1>1, <2>2, <2>3 DEF At
<1>4. /\ Filled(rd, wr) \in 0 .. Size - 1
      /\ \A k \in 0 .. Size - 1 : At(rd, k) \in Index
      /\ Filled(rd, wr) = 0 <=> rd = wr
      /\ At(rd, Filled(rd, wr)) = wr
  BY <1>1 DEF Filled, At, Index
<1>5. \A k \in 0 .. Size - 1 : Filled(rd, At(rd, k)) = k
  BY <1>1 DEF Filled, At
<1>6. \A n \in 0 .. Size - 1 - Filled(rd, wr) : Filled(rd, At(wr, n)) = Filled(rd, wr) + n
  BY <1>1 DEF Filled, At
<1>7. \A k \in 0 .. Filled(rd, wr) : \A j \in 0 .. Filled(rd, wr) - k :
        /\ At(At(rd, k), j) = At(rd, k + j)
        /\ Filled(At(rd, k), wr) = Filled(rd, wr) - k
  BY <1>1 DEF Filled, At
<1>. QED  BY <1>2, <1>3, <1>4, <1>5, <1>6, <1>7

\* avail_send_buf counts the free bytes but one.
LEMMA AvailForm ==
    ASSUME TypeOK, NEW wr \in Index
    PROVE  Avail(wr) = Size - 1 - Filled(r, wr)
  BY RingAssumption DEF TypeOK, Index, Avail, Filled

\* Content, written with positions.
LEMMA ContentForm ==
    ASSUME NEW rd \in Index, NEW wr \in Index, NEW bf, NEW s \in Seq(Byte)
    PROVE  [i \in 1 .. (wr - rd + Size) % Size |-> bf[(rd + i - 1) % Size]] = s
             <=> Holds(rd, wr, bf, s)
<1>1. PICK n : n = Filled(rd, wr)
  OBVIOUS
<1>2. /\ n \in 0 .. Size - 1 /\ (wr - rd + Size) % Size = n
      /\ \A k \in 0 .. Size - 1 : (rd + k) % Size = At(rd, k)
  BY <1>1, Positions
<1>3. Size \in Nat /\ n \in Nat /\ rd \in Int
  BY <1>2, RingAssumption DEF Index
<1>4. ASSUME NEW i \in 1 .. n
      PROVE  (rd + i - 1) % Size = At(rd, i - 1) /\ i - 1 \in 0 .. n - 1 /\ (i - 1) + 1 = i
  <2>1. i - 1 \in 0 .. Size - 1 /\ rd + i - 1 = rd + (i - 1)
    BY <1>2, <1>3
  <2>. QED  BY <1>2, <1>3, <2>1
<1>5. PICK f : f = [i \in 1 .. n |-> bf[(rd + i - 1) % Size]]
  OBVIOUS
<1>6. Len(s) \in Nat /\ DOMAIN s = 1 .. Len(s) /\ s = [i \in 1 .. Len(s) |-> s[i]]
  BY LenProperties, SeqDef
<1>7. \A i \in 1 .. n : f[i] = bf[At(rd, i - 1)]
  BY <1>4, <1>5
<1>8. ASSUME f = s PROVE Holds(rd, wr, bf, s)
  <2>1. Len(s) = n
    BY <1>3, <1>5, <1>6, <1>8
  <2>2. ASSUME NEW k \in 0 .. n - 1 PROVE bf[At(rd, k)] = s[k + 1]
    <3>1. k + 1 \in 1 .. n /\ (k + 1) - 1 = k
      BY <1>3
    <3>. QED  BY <1>7, <1>8, <3>1
  <2>. QED  BY <1>1, <2>1, <2>2 DEF Holds
<1>9. ASSUME Holds(rd, wr, bf, s) PROVE f = s
  <2>1. Len(s) = n
    BY <1>1, <1>9 DEF Holds
  <2>2. \A i \in 1 .. n : f[i] = s[i]
    BY <1>1, <1>4, <1>7, <1>9 DEF Holds
  <2>. QED  BY <1>5, <1>6, <2>1, <2>2
<1>. QED  BY <1>2, <1>5, <1>8, <1>9

-----------------------------------------------------------------------------
\* What send_data stores comes after what the ring holds, and nothing of that is
\* overwritten.
LEMMA StoredHolds ==
    ASSUME NEW rd \in Index, NEW wr \in Index, NEW bf \in [Index -> Byte],
           NEW s \in Seq(Byte), Holds(rd, wr, bf, s),
           NEW d \in Seq(Byte), Filled(rd, wr) + Len(d) < Size,
           NEW rec, rec.w = wr, rec.buf = bf
    PROVE  /\ At(wr, Len(d)) \in Index /\ (wr + Len(d)) % Size = At(wr, Len(d))
           /\ Stored(rec, d) \in [Index -> Byte]
           /\ Filled(rd, At(wr, Len(d))) = Filled(rd, wr) + Len(d)
           /\ s \o d \in Seq(Byte)
           /\ Holds(rd, At(wr, Len(d)), Stored(rec, d), s \o d)
<1>1. PICK n, m : n = Filled(rd, wr) /\ m = Len(d)
  OBVIOUS
<1>2. /\ Size \in Nat \ {0} /\ m \in Nat /\ n \in 0 .. Size - 1 /\ n + m < Size
      /\ m \in 0 .. Size - 1 /\ m \in 0 .. Size - 1 - n
  <2>1. Size \in Nat \ {0} /\ m \in Nat
    BY <1>1, LenProperties, RingAssumption
  <2>2. n \in 0 .. Size - 1 /\ n + m < Size
    BY <1>1, Positions
  <2>. QED  BY <2>1, <2>2
<1>3. /\ At(wr, m) \in Index /\ (wr + m) % Size = At(wr, m)
      /\ Filled(rd, At(wr, m)) = n + m
  BY <1>1, <1>2, Positions
<1>4. \A k \in Index : (k - wr + Size) % Size = Filled(wr, k)
  BY Positions
<1>5. PICK g : g = Stored(rec, d)
  OBVIOUS
<1>6. g = [k \in Index |-> IF Filled(wr, k) < m THEN d[Filled(wr, k) + 1] ELSE bf[k]]
  BY <1>1, <1>4, <1>5 DEF Stored
<1>7. \A j \in 1 .. m : d[j] \in Byte
  BY <1>1, ElementOfSeq
<1>8. g \in [Index -> Byte]
  <2>1. ASSUME NEW k \in Index, Filled(wr, k) < m PROVE Filled(wr, k) + 1 \in 1 .. m
    <3>1. Filled(wr, k) \in 0 .. Size - 1
      BY Positions
    <3>. QED  BY <1>2, <2>1, <3>1
  <2>. QED  BY <1>6, <1>7, <2>1
<1>9. Len(s) = n /\ \A k \in 0 .. n - 1 : bf[At(rd, k)] = s[k + 1]
  BY <1>1 DEF Holds
<1>10. PICK u : u = s \o d
  OBVIOUS
<1>11. /\ u \in Seq(Byte) /\ Len(u) = n + m
       /\ \A j \in 1 .. n + m : u[j] = IF j <= n THEN s[j] ELSE d[j - n]
  <2>1. /\ u \in Seq(Byte) /\ Len(u) = Len(s) + Len(d)
        /\ \A j \in 1 .. Len(s) + Len(d) : u[j] = IF j <= Len(s) THEN s[j] ELSE d[j - Len(s)]
    BY <1>10, ConcatProperties
  <2>. QED  BY <1>1, <1>9, <2>1
<1>12. ASSUME NEW k \in 0 .. n + m - 1 PROVE g[At(rd, k)] = u[k + 1]
  <2>1. k \in 0 .. Size - 1 /\ k + 1 \in 1 .. n + m /\ At(rd, k) \in Index
    <3>1. k \in 0 .. Size - 1 /\ k + 1 \in 1 .. n + m
      BY <1>2
    <3>. QED  BY <3>1, Positions
  <2>2. Filled(wr, At(rd, k)) = IF k < n THEN k - n + Size ELSE k - n
    <3>1. rd \in 0 .. Size - 1 /\ wr \in 0 .. Size - 1
      BY DEF Index
    <3>2. n = IF wr >= rd THEN wr - rd ELSE wr - rd + Size
      BY <1>1 DEF Filled
    <3>3. PICK p : p = At(rd, k)
      OBVIOUS
    <3>4. p = IF rd + k >= Size THEN rd + k - Size ELSE rd + k
      BY <3>3 DEF At
    <3>5. (IF p >= wr THEN p - wr ELSE p - wr + Size) = IF k < n THEN k - n + Size ELSE k - n
      BY <1>2, <2>1, <3>1, <3>2, <3>4
    <3>. QED  BY <3>3, <3>5 DEF Filled
  <2>3. CASE k < n
    <3>1. ~(Filled(wr, At(rd, k)) < m)
      BY <1>2, <2>2, <2>3
    <3>2. g[At(rd, k)] = bf[At(rd, k)]
      BY <1>6, <2>1, <3>1
    <3>3. k \in 0 .. n - 1 /\ k + 1 <= n
      BY <1>2, <2>3
    <3>. QED  BY <1>9, <1>11, <2>1, <3>2, <3>3
  <2>4. CASE k >= n
    <3>1. Filled(wr, At(rd, k)) = k - n /\ k - n < m /\ ~(k + 1 <= n) /\ (k + 1) - n = (k - n) + 1
      BY <1>2, <2>2, <2>4
    <3>2. g[At(rd, k)] = d[(k - n) + 1]
      BY <1>6, <2>1, <3>1
    <3>. QED  BY <1>11, <2>1, <3>1, <3>2
  <2>. QED  BY <1>2, <2>3, <2>4
<1>13. Holds(rd, At(wr, m), g, u)
  <2>1. PICK p : p = At(wr, m)
    OBVIOUS
  <2>2. Len(u) = Filled(rd, p)
    BY <1>3, <1>11, <2>1
  <2>3. \A k \in 0 .. Filled(rd, p) - 1 : g[At(rd, k)] = u[k + 1]
    <3>1. PICK f : f = Filled(rd, p)
      OBVIOUS
    <3>2. f = n + m
      BY <1>3, <2>1, <3>1
    <3>3. \A k \in 0 .. f - 1 : g[At(rd, k)] = u[k + 1]
      <4>1. \A k \in 0 .. n + m - 1 : g[At(rd, k)] = u[k + 1]
        BY <1>12
      <4>. QED  BY <1>2, <3>2, <4>1
    <3>. QED  BY <3>1, <3>3
  <2>. QED  BY <2>1, <2>2, <2>3 DEF Holds
<1>. QED  BY <1>1, <1>3, <1>5, <1>8, <1>10, <1>11, <1>13

\* The bytes of a message.
LEMMA BytesType ==
    ASSUME mark \in 0 .. Marks - 1, NEW a \in Nat, NEW b \in Nat
    PROVE  /\ Bytes(a + 1, a + b) \in Seq(Byte) /\ Len(Bytes(a + 1, a + b)) = b
           /\ \A i \in 1 .. b : Bytes(a + 1, a + b)[i] = <<mark, a + i>>
<1>1. PICK d : d = Bytes(a + 1, a + b)
  OBVIOUS
<1>2. d = [i \in 1 .. b |-> <<mark, a + i>>]
  <2>1. (a + b) - (a + 1) + 1 = b /\ \A i \in 1 .. b : (a + 1) + i - 1 = a + i
    OBVIOUS
  <2>. QED  BY <1>1, <2>1 DEF Bytes
<1>3. d \in [1 .. b -> Byte]
  <2>1. \A i \in 1 .. b : a + i \in Nat
    OBVIOUS
  <2>. QED  BY <1>2, <2>1 DEF Byte
<1>4. d \in Seq(Byte)
  BY <1>3, SeqDef
<1>5. Len(d) = b
  BY <1>2, <1>4, LenProperties
<1>. QED  BY <1>1, <1>2, <1>4, <1>5

\* Two pieces of a message, one after the other, are the message.
LEMMA BytesJoin ==
    ASSUME mark \in 0 .. Marks - 1, NEW a \in Nat, NEW b \in Nat, NEW s \in Seq(Byte)
    PROVE  (s \o Bytes(1, a)) \o Bytes(a + 1, a + b) = s \o Bytes(1, a + b)
<1>1. PICK x, y, z : x = Bytes(1, a) /\ y = Bytes(a + 1, a + b) /\ z = Bytes(1, a + b)
  OBVIOUS
<1>2. /\ 0 + 1 = 1 /\ 0 + a = a /\ 0 + (a + b) = a + b /\ a + b \in Nat
      /\ \A i \in Nat : 0 + i = i
  OBVIOUS
<1>3. x \in Seq(Byte) /\ Len(x) = a /\ \A i \in 1 .. a : x[i] = <<mark, 0 + i>>
  <2>1. x = Bytes(0 + 1, 0 + a)
    BY <1>1, <1>2
  <2>. QED  BY <2>1, BytesType
<1>4. y \in Seq(Byte) /\ Len(y) = b /\ \A i \in 1 .. b : y[i] = <<mark, a + i>>
  BY <1>1, BytesType
<1>5. z \in Seq(Byte) /\ Len(z) = a + b /\ \A i \in 1 .. a + b : z[i] = <<mark, 0 + i>>
  <2>1. z = Bytes(0 + 1, 0 + (a + b))
    BY <1>1, <1>2
  <2>. QED  BY <1>2, <2>1, BytesType
<1>6. PICK n, u, v, t : n = Len(s) /\ u = s \o x /\ v = u \o y /\ t = s \o z
  OBVIOUS
<1>7. n \in Nat
  BY <1>6, LenProperties
<1>8. /\ u \in Seq(Byte) /\ Len(u) = n + a
      /\ \A i \in 1 .. n + a : u[i] = IF i <= n THEN s[i] ELSE x[i - n]
  BY <1>3, <1>6, ConcatProperties
<1>9. /\ v \in Seq(Byte) /\ Len(v) = (n + a) + b
      /\ \A i \in 1 .. (n + a) + b : v[i] = IF i <= n + a THEN u[i] ELSE y[i - (n + a)]
  <2>1. /\ v \in Seq(Byte) /\ Len(v) = Len(u) + Len(y)
        /\ \A i \in 1 .. Len(u) + Len(y) : v[i] = IF i <= Len(u) THEN u[i] ELSE y[i - Len(u)]
    <3>1. u \in Seq(Byte) /\ y \in Seq(Byte) /\ v = u \o y
      BY <1>4, <1>6, <1>8
    <3>. QED  BY <3>1, ConcatProperties
  <2>. QED  BY <1>4, <1>8, <2>1
<1>10. /\ t \in Seq(Byte) /\ Len(t) = n + (a + b)
       /\ \A i \in 1 .. n + (a + b) : t[i] = IF i <= n THEN s[i] ELSE z[i - n]
  <2>1. /\ t \in Seq(Byte) /\ Len(t) = Len(s) + Len(z)
        /\ \A i \in 1 .. Len(s) + Len(z) : t[i] = IF i <= Len(s) THEN s[i] ELSE z[i - Len(s)]
    BY <1>5, <1>6, ConcatProperties
  <2>. QED  BY <1>5, <1>6, <2>1
<1>11. ASSUME NEW i \in 1 .. Len(v) PROVE v[i] = t[i]
  <2>1. i \in 1 .. (n + a) + b /\ i \in 1 .. n + (a + b)
    BY <1>7, <1>9
  <2>2. CASE i <= n
    <3>1. i \in 1 .. n + a /\ i <= n + a
      BY <1>7, <2>2
    <3>. QED  BY <1>8, <1>9, <1>10, <2>1, <2>2, <3>1
  <2>3. CASE i > n /\ i <= n + a
    <3>1. i \in 1 .. n + a /\ ~(i <= n) /\ i - n \in 1 .. a /\ i - n \in 1 .. a + b
      BY <1>7, <2>3
    <3>. QED  BY <1>3, <1>5, <1>8, <1>9, <1>10, <2>1, <2>3, <3>1
  <2>4. CASE i > n + a
    <3>1. /\ ~(i <= n) /\ ~(i <= n + a) /\ i - (n + a) \in 1 .. b /\ i - n \in 1 .. a + b
          /\ a + (i - (n + a)) = 0 + (i - n)
      BY <1>7, <2>1, <2>4
    <3>. QED  BY <1>4, <1>5, <1>9, <1>10, <2>1, <3>1
  <2>. QED  BY <1>7, <2>2, <2>3, <2>4
<1>12. v = t
  <2>1. Len(v) = Len(t)
    BY <1>7, <1>9, <1>10
  <2>. QED  BY <1>9, <1>10, <1>11, <2>1, SeqEqual
<1>. QED  BY <1>1, <1>6, <1>12

-----------------------------------------------------------------------------
\* send_data on a ring with room: the record it returns.
LEMMA SendDataHolds ==
    ASSUME TypeOK, NEW wr \in Index, NEW bf \in [Index -> Byte], NEW s \in Seq(Byte),
           Holds(r, wr, bf, s), NEW d \in Seq(Byte), Filled(r, wr) + Len(d) < Size,
           NEW rec, rec.w = wr, rec.buf = bf
    PROVE  LET t == SendData(rec, d)
           IN  /\ t.w \in Index /\ t.buf \in [Index -> Byte] /\ t.armed = TRUE
               /\ s \o d \in Seq(Byte) /\ Holds(r, t.w, t.buf, s \o d)
<1>1. r \in Index /\ Len(d) \in Nat /\ Size \in Nat
  BY LenProperties, RingAssumption DEF TypeOK
<1>2. Filled(r, wr) \in 0 .. Size - 1 /\ Avail(wr) = Size - 1 - Filled(r, wr)
  BY <1>1, Positions, AvailForm
<1>3. ~(Avail(rec.w) < Len(d))
  <2>1. ~(Avail(wr) < Len(d))
    BY <1>1, <1>2
  <2>. QED  BY <2>1
<1>4. /\ At(wr, Len(d)) \in Index /\ (wr + Len(d)) % Size = At(wr, Len(d))
      /\ Stored(rec, d) \in [Index -> Byte]
      /\ Filled(r, At(wr, Len(d))) = Filled(r, wr) + Len(d)
      /\ s \o d \in Seq(Byte)
      /\ Holds(r, At(wr, Len(d)), Stored(rec, d), s \o d)
  BY <1>1, StoredHolds
<1>5. PICK p, g, t : p = At(wr, Len(d)) /\ g = Stored(rec, d) /\ t = SendData(rec, d)
  OBVIOUS
<1>6. t = [w |-> p, buf |-> g, armed |-> TRUE]
  BY <1>3, <1>4, <1>5 DEF SendData
<1>7. t.w = p /\ t.buf = g /\ t.armed = TRUE
  BY <1>6
<1>. QED  BY <1>4, <1>5, <1>7

\* A message that was seen to fit is queued whole, and the event loop is asked to
\* write it.
LEMMA SendBothHolds ==
    ASSUME TypeOK, RingHoldsQueue, NEW a \in Nat, NEW b \in Nat, Avail(w) >= a + b,
           SendBoth(a, b)
    PROVE  /\ w' \in Index /\ buf' \in [Index -> Byte] /\ armed' = TRUE
           /\ mark' \in 0 .. Marks - 1 /\ q' \in Seq(Byte) /\ r' = r
           /\ Holds(r, w', buf', q')
<1>1. /\ r \in Index /\ w \in Index /\ buf \in [Index -> Byte] /\ q \in Seq(Byte)
      /\ mark \in 0 .. Marks - 1 /\ Size \in Nat
  BY RingAssumption DEF TypeOK
<1>2. Holds(r, w, buf, q)
  BY <1>1, ContentForm DEF RingHoldsQueue, Content
<1>3. Filled(r, w) \in 0 .. Size - 1 /\ Filled(r, w) + (a + b) < Size
  <2>1. Filled(r, w) \in 0 .. Size - 1 /\ Avail(w) = Size - 1 - Filled(r, w)
    BY <1>1, Positions, AvailForm
  <2>. QED  BY <1>1, <2>1
<1>4. PICK x, y : x = Bytes(1, a) /\ y = Bytes(a + 1, a + b)
  OBVIOUS
<1>5. x \in Seq(Byte) /\ Len(x) = a /\ y \in Seq(Byte) /\ Len(y) = b
  <2>1. 0 + 1 = 1 /\ 0 + a = a
    OBVIOUS
  <2>2. x = Bytes(0 + 1, 0 + a)
    BY <1>4, <2>1
  <2>3. 0 \in Nat
    OBVIOUS
  <2>4. x \in Seq(Byte) /\ Len(x) = a
    BY <1>1, <2>2, <2>3, BytesType
  <2>5. y \in Seq(Byte) /\ Len(y) = b
    BY <1>1, <1>4, BytesType
  <2>. QED  BY <2>4, <2>5
<1>6. PICK rec : rec = Ring
  OBVIOUS
<1>7. PICK t : t = SendData(rec, x)
  OBVIOUS
<1>8. /\ t.w \in Index /\ t.buf \in [Index -> Byte]
      /\ Filled(r, t.w) = Filled(r, w) + a
      /\ q \o x \in Seq(Byte) /\ Holds(r, t.w, t.buf, q \o x)
  <2>1. Filled(r, w) + Len(x) < Size
    BY <1>1, <1>3, <1>5
  <2>2. rec.w = w /\ rec.buf = buf
    BY <1>6 DEF Ring
  <2>3. /\ t.w \in Index /\ t.buf \in [Index -> Byte]
        /\ Filled(r, t.w) = Filled(r, w) + Len(x)
        /\ q \o x \in Seq(Byte) /\ Holds(r, t.w, t.buf, q \o x)
    <3>1. PICK wr, bf, z : wr = w /\ bf = buf /\ z = q
      OBVIOUS
    <3>2. /\ wr \in Index /\ bf \in [Index -> Byte] /\ z \in Seq(Byte)
          /\ Holds(r, wr, bf, z) /\ Filled(r, wr) + Len(x) < Size
          /\ rec.w = wr /\ rec.buf = bf
      BY <1>1, <1>2, <2>1, <2>2, <3>1
    <3>3. /\ t.w \in Index /\ t.buf \in [Index -> Byte]
          /\ Filled(r, t.w) = Filled(r, wr) + Len(x)
          /\ z \o x \in Seq(Byte) /\ Holds(r, t.w, t.buf, z \o x)
      <4>1. x \in Seq(Byte)
        BY <1>5
      <4>2. /\ t.w \in Index /\ t.buf \in [Index -> Byte]
            /\ z \o x \in Seq(Byte) /\ Holds(r, t.w, t.buf, z \o x)
        BY <1>7, <3>2, <4>1, SendDataHolds
      <4>3. Filled(r, t.w) = Filled(r, wr) + Len(x)
        <5>1. Len(z) = Filled(r, wr) /\ Len(z \o x) = Filled(r, t.w)
          BY <3>2, <4>2 DEF Holds
        <5>2. Len(z \o x) = Len(z) + Len(x)
          BY <3>2, <4>1, ConcatProperties
        <5>. QED  BY <5>1, <5>2
      <4>. QED  BY <4>2, <4>3
    <3>. QED  BY <3>1, <3>3
  <2>. QED  BY <1>5, <2>3
<1>9. PICK u : u = SendData(t, y)
  OBVIOUS
<1>10. /\ u.w \in Index /\ u.buf \in [Index -> Byte] /\ u.armed = TRUE
       /\ (q \o x) \o y \in Seq(Byte) /\ Holds(r, u.w, u.buf, (q \o x) \o y)
  <2>1. Filled(r, t.w) + Len(y) < Size
    BY <1>1, <1>3, <1>5, <1>8
  <2>2. PICK wr, bf, z : wr = t.w /\ bf = t.buf /\ z = q \o x
    OBVIOUS
  <2>3. /\ wr \in Index /\ bf \in [Index -> Byte] /\ z \in Seq(Byte)
        /\ Holds(r, wr, bf, z) /\ Filled(r, wr) + Len(y) < Size
    BY <1>8, <2>1, <2>2
  <2>4. /\ u.w \in Index /\ u.buf \in [Index -> Byte] /\ u.armed = TRUE
        /\ z \o y \in Seq(Byte) /\ Holds(r, u.w, u.buf, z \o y)
    BY <1>5, <1>9, <2>2, <2>3, SendDataHolds
  <2>. QED  BY <2>2, <2>4
<1>11. w' = u.w /\ buf' = u.buf /\ armed' = u.armed /\ r' = r
       /\ mark' = (mark + 1) % Marks
  BY <1>4, <1>6, <1>7, <1>9 DEF SendBoth
<1>12. q' = (q \o x) \o y
  BY <1>1, <1>4, BytesJoin DEF SendBoth
<1>13. mark' \in 0 .. Marks - 1
  <2>1. Marks \in Nat \ {0} /\ mark + 1 \in Nat
    BY <1>1, RingAssumption
  <2>2. (mark + 1) % Marks \in 0 .. Marks - 1
    BY <2>1
  <2>. QED  BY <1>11, <2>2
<1>. QED  BY <1>10, <1>11, <1>12, <1>13

\* A write takes what comes first in the ring.
LEMMA AdvanceHolds ==
    ASSUME TypeOK, RingHoldsQueue, NEW n \in Writable
    PROVE  /\ Advance(n) \in Index /\ SubSeq(q, n + 1, Len(q)) \in Seq(Byte)
           /\ Holds(Advance(n), w, buf, SubSeq(q, n + 1, Len(q)))
           /\ q # << >>
<1>1. /\ r \in Index /\ w \in Index /\ buf \in [Index -> Byte] /\ q \in Seq(Byte)
      /\ Size \in Nat \ {0} /\ r \in 0 .. Size - 1 /\ w \in 0 .. Size - 1
  BY RingAssumption DEF TypeOK, Index
<1>2. Holds(r, w, buf, q)
  BY <1>1, ContentForm DEF RingHoldsQueue, Content
<1>3. PICK f : f = Filled(r, w)
  OBVIOUS
<1>4. /\ f \in 0 .. Size - 1 /\ Len(q) = f
      /\ \A k \in 0 .. f - 1 : buf[At(r, k)] = q[k + 1]
  BY <1>1, <1>2, <1>3, Positions DEF Holds
<1>5. n \in 1 .. f /\ Advance(n) = At(r, n)
  BY <1>1, <1>3 DEF Writable, Contiguous, Filled, Advance, At
<1>6. /\ At(r, n) \in Index /\ Filled(At(r, n), w) = f - n
      /\ \A j \in 0 .. f - n : At(At(r, n), j) = At(r, n + j)
  <2>1. n \in 0 .. f /\ n \in 0 .. Size - 1 /\ 0 \in 0 .. f - n
    BY <1>1, <1>4, <1>5
  <2>2. \A k \in 0 .. Size - 1 : At(r, k) \in Index
    BY <1>1, Positions
  <2>3. \A k \in 0 .. Filled(r, w) : \A j \in 0 .. Filled(r, w) - k :
          /\ At(At(r, k), j) = At(r, k + j)
          /\ Filled(At(r, k), w) = Filled(r, w) - k
    BY <1>1, Positions
  <2>4. n \in 0 .. Filled(r, w) /\ 0 \in 0 .. Filled(r, w) - n
    BY <1>3, <2>1
  <2>. QED  BY <1>3, <2>1, <2>2, <2>3, <2>4
<1>7. PICK s, p : s = SubSeq(q, n + 1, Len(q)) /\ p = At(r, n)
  OBVIOUS
<1>8. /\ s \in Seq(Byte) /\ Len(s) = f - n
      /\ \A k \in 1 .. f - n : s[k] = q[n + k]
  <2>1. /\ n + 1 \in Int /\ f \in Int /\ q \in Seq(Byte)
        /\ \A k \in n + 1 .. f : q[k] \in Byte
    <3>1. \A k \in 1 .. f : q[k] \in Byte
      BY <1>1, <1>4, ElementOfSeq
    <3>. QED  BY <1>1, <1>4, <1>5, <3>1
  <2>2. /\ s \in Seq(Byte) /\ Len(s) = (IF n + 1 <= f THEN f - (n + 1) + 1 ELSE 0)
        /\ \A k \in 1 .. f - (n + 1) + 1 : s[k] = q[(n + 1) + k - 1]
    BY <1>4, <1>7, <2>1, SubSeqProperties
  <2>3. n \in Nat /\ f \in Nat /\ n <= f
    BY <1>4, <1>5
  <2>4. Len(s) = f - n
    BY <2>2, <2>3
  <2>5. ASSUME NEW k \in 1 .. f - n PROVE s[k] = q[n + k]
    <3>1. k \in 1 .. f - (n + 1) + 1 /\ (n + 1) + k - 1 = n + k
      BY <2>3
    <3>. QED  BY <2>2, <3>1
  <2>. QED  BY <2>2, <2>4, <2>5
<1>9. ASSUME NEW k \in 0 .. f - n - 1 PROVE buf[At(p, k)] = s[k + 1]
  <2>1. /\ k \in 0 .. f - n /\ n + k \in 0 .. f - 1 /\ k + 1 \in 1 .. f - n
        /\ n + (k + 1) = (n + k) + 1
    BY <1>4, <1>5
  <2>. QED  BY <1>4, <1>6, <1>7, <1>8, <2>1
<1>10. Holds(p, w, buf, s)
  <2>1. Filled(p, w) = f - n
    BY <1>6, <1>7
  <2>. QED  BY <1>8, <1>9, <2>1 DEF Holds
<1>11. q # << >>
  BY <1>4, <1>5
<1>. QED  BY <1>5, <1>6, <1>7, <1>8, <1>10, <1>11

\* The ring is empty when its ends meet.
LEMMA EmptyRing ==
    ASSUME TypeOK, RingHoldsQueue
    PROVE  r = w <=> q = << >>
<1>1. r \in Index /\ w \in Index /\ q \in Seq(Byte)
  BY DEF TypeOK
<1>2. Len(q) = Filled(r, w) /\ (Filled(r, w) = 0 <=> r = w)
  BY <1>1, ContentForm, Positions DEF RingHoldsQueue, Content, Holds
<1>. QED  BY <1>1, <1>2, EmptySeq

-----------------------------------------------------------------------------
\* Each action keeps the types, what the ring holds and the rest of RingInv.
LEMMA RingInit == Init => RingInv
<1>. SUFFICES ASSUME Init PROVE RingInv
  OBVIOUS
<1>1. Size \in Nat \ {0} /\ Marks \in Nat \ {0} /\ Window \in Nat
  BY RingAssumption
<1>2. 0 \in Index /\ 0 \in 0 .. Marks - 1 /\ 0 \in Nat
  BY <1>1 DEF Index
<1>3. << >> \in Seq(Byte) /\ Len(<< >>) = 0
  BY EmptySeq
<1>4. TypeOK
  BY <1>1, <1>2, <1>3 DEF Init, TypeOK, Byte
<1>5. Holds(0, 0, buf, << >>)
  BY <1>3 DEF Holds, Filled
<1>6. [i \in 1 .. (0 - 0 + Size) % Size |-> buf[(0 + i - 1) % Size]] = << >>
  <2>1. PICK a, bf, s : a = 0 /\ bf = buf /\ s = << >>
    OBVIOUS
  <2>2. a \in Index /\ s \in Seq(Byte) /\ Holds(a, a, bf, s)
    BY <1>2, <1>3, <1>5, <2>1
  <2>3. [i \in 1 .. (a - a + Size) % Size |-> bf[(a + i - 1) % Size]] = s
    BY <2>2, ContentForm
  <2>. QED  BY <2>1, <2>3
<1>7. RingHoldsQueue
  BY <1>6 DEF Init, RingHoldsQueue, Content
<1>. QED  BY <1>4, <1>7 DEF Init, RingInv, OnlyWhenOpen, Waiting

\* What makes up the ring's part of the invariant after a step.
LEMMA HoldsAfter ==
    ASSUME r' \in Index, w' \in Index, q' \in Seq(Byte), Holds(r', w', buf', q')
    PROVE  RingHoldsQueue'
<1>1. PICK rd, wr, bf, s : rd = r' /\ wr = w' /\ bf = buf' /\ s = q'
  OBVIOUS
<1>2. rd \in Index /\ wr \in Index /\ s \in Seq(Byte) /\ Holds(rd, wr, bf, s)
  BY <1>1
<1>3. [i \in 1 .. (wr - rd + Size) % Size |-> bf[(rd + i - 1) % Size]] = s
  BY <1>2, ContentForm
<1>. QED  BY <1>1, <1>3 DEF RingHoldsQueue, Content

\* A step that leaves the ring alone.
LEMMA RingUnchanged ==
    ASSUME RingHoldsQueue, UNCHANGED <<r, w, buf, q>>
    PROVE  RingHoldsQueue'
  BY DEF RingHoldsQueue, Content

\* A message, of a reply or a packet, that is queued or refused.
LEMMA MessageKeeps ==
    ASSUME RingInv, open, NEW a \in Nat, NEW b \in Nat,
           IF Avail(w) >= a + b THEN SendBoth(a, b) ELSE Refused,
           open' = open, dropAfter' \in BOOLEAN, phase' \in {"idle", "write", "flush"},
           packet' \in Bodies \cup {0}, room' = room,
           dropAfter' => dropAfter \/ Avail(w) >= a + b \/ a + b < Size
    PROVE  RingInv'
<1>1. TypeOK /\ RingHoldsQueue /\ Waiting
  BY DEF RingInv
<1>2. CASE Avail(w) >= a + b
  <2>1. SendBoth(a, b)
    BY <1>2
  <2>2. /\ w' \in Index /\ buf' \in [Index -> Byte] /\ armed' = TRUE
        /\ mark' \in 0 .. Marks - 1 /\ q' \in Seq(Byte) /\ r' = r
        /\ Holds(r, w', buf', q')
    BY <1>1, <1>2, <2>1, SendBothHolds
  <2>3. TypeOK'
    BY <1>1, <2>2 DEF TypeOK
  <2>4. RingHoldsQueue'
    <3>1. r' \in Index /\ w' \in Index /\ q' \in Seq(Byte)
      BY <1>1, <2>2 DEF TypeOK
    <3>2. Holds(r', w', buf', q')
      BY <2>2
    <3>. QED  BY <3>1, <3>2, HoldsAfter
  <2>. QED  BY <2>2, <2>3, <2>4 DEF RingInv, OnlyWhenOpen, Waiting
<1>3. CASE ~(Avail(w) >= a + b)
  <2>1. UNCHANGED <<r, w, buf, armed, q, mark>>
    BY <1>3 DEF Refused, ring
  <2>2. TypeOK'
    BY <1>1, <2>1 DEF TypeOK
  <2>3. RingHoldsQueue'
    BY <1>1, <2>1, RingUnchanged
  <2>4. a + b < Size => q # << >>
    <3>1. /\ r \in Index /\ w \in Index /\ q \in Seq(Byte) /\ Size \in Nat \ {0}
      BY <1>1, RingAssumption DEF TypeOK
    <3>2. Avail(w) = Size - 1 - Filled(r, w) /\ Filled(r, w) \in 0 .. Size - 1
      BY <1>1, <3>1, AvailForm, Positions
    <3>3. a + b < Size => Filled(r, w) # 0
      BY <1>3, <3>1, <3>2
    <3>4. Filled(r, w) = 0 <=> r = w
      BY <3>1, Positions
    <3>. QED  BY <1>1, <3>3, <3>4, EmptyRing
  <2>5. Waiting'
    BY <1>1, <1>3, <2>1, <2>4 DEF Waiting
  <2>. QED  BY <2>2, <2>3, <2>5 DEF RingInv, OnlyWhenOpen
<1>. QED  BY <1>2, <1>3

\* A reply that is refused finds bytes in the ring, so that the event is on and the
\* connection is dropped after them.
LEMMA RepliesKeep ==
    ASSUME RingInv, NEW h \in Headers, NEW b \in Bodies \cup {0},
           SendReply(h, b) \/ SendLastReply(h, b)
    PROVE  RingInv'
<1>1. h \in Nat /\ b \in Nat /\ h + b < Size
  BY RingAssumption, ReplyAssumption
<1>2. /\ dropAfter \in BOOLEAN /\ phase \in {"idle", "write", "flush"}
      /\ packet \in Bodies \cup {0}
  BY DEF RingInv, TypeOK
<1>3. IF Avail(w) >= h + b THEN SendBoth(h, b) ELSE Refused
  BY DEF SendReply, SendLastReply, ReplyFits
<1>4. /\ open /\ open' = open /\ phase' = phase /\ packet' = packet /\ room' = room
      /\ dropAfter' = dropAfter \/ dropAfter' = TRUE
  BY DEF SendReply, SendLastReply, Idle
<1>. QED  BY <1>1, <1>2, <1>3, <1>4, MessageKeeps

LEMMA PacketsKeep ==
    ASSUME RingInv, (\E b \in Bodies : InterleaveSend(b)) \/ FlushReturns
    PROVE  RingInv'
<1>1. /\ dropAfter \in BOOLEAN /\ phase \in {"idle", "write", "flush"}
      /\ packet \in Bodies \cup {0} /\ HeadLen \in Nat /\ Bodies \subseteq Nat
  BY RingAssumption DEF RingInv, TypeOK
<1>2. CASE \E b \in Bodies : InterleaveSend(b)
  <2>1. PICK b \in Bodies : InterleaveSend(b)
    BY <1>2
  <2>2. IF Avail(w) >= HeadLen + b THEN SendBoth(HeadLen, b) ELSE Refused
    BY <2>1 DEF InterleaveSend, PacketFits
  <2>3. /\ open /\ open' = open /\ dropAfter' = dropAfter /\ room' = room
        /\ phase' \in {"idle", "write", "flush"} /\ packet' \in Bodies \cup {0}
    BY <1>1, <2>1 DEF InterleaveSend, Idle
  <2>4. b \in Nat
    BY <1>1
  <2>. QED  BY <1>1, <2>2, <2>3, <2>4, MessageKeeps
<1>3. CASE FlushReturns
  <2>1. IF Avail(w) >= HeadLen + packet THEN SendBoth(HeadLen, packet) ELSE Refused
    BY <1>3 DEF FlushReturns, PacketFits
  <2>2. /\ open' = open /\ dropAfter' = dropAfter /\ room' = room
        /\ phase' = "idle" /\ packet' = 0 /\ phase = "flush"
    BY <1>3 DEF FlushReturns
  <2>3. open /\ packet \in Nat
    BY <1>1, <2>2 DEF RingInv, OnlyWhenOpen
  <2>. QED  BY <1>1, <2>1, <2>2, <2>3, MessageKeeps
<1>. QED  BY <1>2, <1>3

LEMMA WriteSomeKeeps ==
    ASSUME RingInv, WriteSome
    PROVE  RingInv'
<1>1. TypeOK /\ RingHoldsQueue /\ Waiting /\ OnlyWhenOpen
  BY DEF RingInv
<1>2. PICK n \in Writable : /\ n <= room /\ r' = Advance(n) /\ room' = room - n
                            /\ q' = SubSeq(q, n + 1, Len(q))
  BY DEF WriteSome
<1>3. /\ Advance(n) \in Index /\ SubSeq(q, n + 1, Len(q)) \in Seq(Byte)
      /\ Holds(Advance(n), w, buf, SubSeq(q, n + 1, Len(q))) /\ q # << >>
  BY <1>1, AdvanceHolds
<1>4. UNCHANGED <<w, buf, armed, dropAfter, open, phase, packet, mark>>
  BY DEF WriteSome
<1>5. room' \in 0 .. Window
  <2>1. room \in 0 .. Window /\ Window \in Nat /\ n \in Nat
    BY <1>1, RingAssumption DEF TypeOK, Index, Writable, Contiguous
  <2>. QED  BY <1>2, <2>1
<1>6. r' \in Index /\ w' \in Index /\ q' \in Seq(Byte) /\ Holds(r', w', buf', q')
  <2>1. w \in Index
    BY <1>1 DEF TypeOK
  <2>. QED  BY <1>2, <1>3, <1>4, <2>1
<1>7. TypeOK'
  BY <1>1, <1>4, <1>5, <1>6 DEF TypeOK
<1>8. RingHoldsQueue'
  BY <1>6, HoldsAfter
<1>9. armed' /\ open'
  BY <1>1, <1>3, <1>4 DEF Waiting, OnlyWhenOpen
<1>. QED  BY <1>7, <1>8, <1>9 DEF RingInv, OnlyWhenOpen, Waiting

\* A connection that is closed, or just accepted.
LEMMA EmptyKeeps ==
    ASSUME RingInv, r' = 0, w' = 0, q' = << >>, buf' = buf, mark' = mark,
           phase' = "idle", ~dropAfter', dropAfter' \in BOOLEAN, armed' \in BOOLEAN,
           open' \in BOOLEAN, packet' \in Bodies \cup {0}, room' \in 0 .. Window
    PROVE  RingInv'
<1>1. 0 \in Index
  BY RingAssumption DEF Index
<1>2. << >> \in Seq(Byte) /\ Len(<< >>) = 0
  BY EmptySeq
<1>3. TypeOK'
  BY <1>1, <1>2 DEF RingInv, TypeOK
<1>4. Holds(r', w', buf', q')
  BY <1>2 DEF Holds, Filled
<1>5. RingHoldsQueue'
  BY <1>1, <1>2, <1>4, HoldsAfter
<1>. QED  BY <1>3, <1>5 DEF RingInv, OnlyWhenOpen, Waiting

LEMMA ClosedKeeps ==
    ASSUME RingInv, Closed
    PROVE  RingInv'
<1>1. packet' \in Bodies \cup {0} /\ room' \in 0 .. Window
  BY DEF Closed, RingInv, TypeOK
<1>. QED  BY <1>1, EmptyKeeps DEF Closed

LEMMA AcceptKeeps ==
    ASSUME RingInv, Accept
    PROVE  RingInv'
<1>1. ~open /\ phase = "idle" /\ q = << >>
  BY DEF Accept, RingInv, OnlyWhenOpen
<1>2. packet' \in Bodies \cup {0} /\ room' \in 0 .. Window
  BY RingAssumption DEF Accept, RingInv, TypeOK
<1>. QED  BY <1>1, <1>2, EmptyKeeps DEF Accept

\* The end of conn_write's loop: the ring is empty, and the event may go.
LEMMA WriteEndsKeeps ==
    ASSUME RingInv, WriteEnds
    PROVE  RingInv'
<1>1. CASE dropAfter
  BY <1>1, ClosedKeeps DEF WriteEnds
<1>2. CASE ~dropAfter
  <2>1. /\ armed' = FALSE /\ phase' = "idle" /\ r = w
        /\ UNCHANGED <<r, w, buf, dropAfter, open, packet, room, mark, q>>
    BY <1>2 DEF WriteEnds
  <2>2. q = << >>
    BY <2>1, EmptyRing DEF RingInv
  <2>3. TypeOK'
    BY <2>1 DEF RingInv, TypeOK
  <2>4. RingHoldsQueue'
    BY <2>1, RingUnchanged DEF RingInv
  <2>. QED  BY <1>2, <2>1, <2>2, <2>3, <2>4 DEF RingInv, OnlyWhenOpen, Waiting
<1>. QED  BY <1>1, <1>2

LEMMA OthersKeep ==
    ASSUME RingInv, ConnWrite \/ ClientReads \/ UNCHANGED vars
    PROVE  RingInv'
<1>1. UNCHANGED <<r, w, buf, armed, dropAfter, open, packet, mark, q>>
  BY DEF ConnWrite, ClientReads, vars, ring
<1>2. /\ phase' \in {"idle", "write", "flush"} /\ (open \/ phase' = phase)
      /\ room' \in 0 .. Window
  BY RingAssumption DEF ConnWrite, ClientReads, vars, ring, RingInv, TypeOK, Idle
<1>3. TypeOK'
  BY <1>1, <1>2 DEF RingInv, TypeOK
<1>4. RingHoldsQueue'
  BY <1>1, RingUnchanged DEF RingInv
<1>. QED  BY <1>1, <1>2, <1>3, <1>4 DEF RingInv, OnlyWhenOpen, Waiting

LEMMA RingStep ==
    ASSUME RingInv, [Next]_vars
    PROVE  RingInv'
<1>1. CASE \E h \in Headers, b \in Bodies \cup {0} : SendReply(h, b) \/ SendLastReply(h, b)
  BY <1>1, RepliesKeep
<1>2. CASE (\E b \in Bodies : InterleaveSend(b)) \/ FlushEnds \/ FlushFails
  BY <1>2, PacketsKeep DEF FlushEnds, FlushFails
<1>3. CASE WriteSome
  BY <1>3, WriteSomeKeeps
<1>4. CASE WriteEnds
  BY <1>4, WriteEndsKeeps
<1>5. CASE WriteFails \/ DropConn
  BY <1>5, ClosedKeeps DEF WriteFails, DropConn
<1>6. CASE Accept
  BY <1>6, AcceptKeeps
<1>7. CASE ConnWrite \/ ClientReads \/ UNCHANGED vars
  BY <1>7, OthersKeep
<1>. QED  BY <1>1, <1>2, <1>3, <1>4, <1>5, <1>6, <1>7 DEF Next, Writes

-----------------------------------------------------------------------------
\* RingInv is an invariant of the sending side of a connection (tcp.c, and
\* interleave_send of rtsp.c).
THEOREM RingInvariant == Spec => []RingInv
<1>1. Init => RingInv
  BY RingInit
<1>2. RingInv /\ [Next]_vars => RingInv'
  BY RingStep
<1>. QED  BY <1>1, <1>2, PTL DEF Spec

\* The types of the sending side: the positions stay in send_buf, wherever it wraps.
THEOREM TypeCorrect == Spec => []TypeOK
<1>1. RingInv => TypeOK
  BY DEF RingInv
<1>. QED  BY <1>1, RingInvariant, PTL

\* The ring holds what send_data accepted and write() has not taken, in order and
\* each message whole, for every size of send_buf, every split of the writes and
\* every packet that had to flush the ring first.
THEOREM QueueKept == Spec => []RingHoldsQueue
<1>1. RingInv => RingHoldsQueue
  BY DEF RingInv
<1>. QED  BY <1>1, RingInvariant, PTL

\* While anything waits to be written, or a connection to be dropped, the write
\* event is on: tcp_send_pmsg's last reply too, when it was refused.
THEOREM WritesAsked == Spec => []WriteEventArmed
<1>1. RingInv => WriteEventArmed
  BY DEF RingInv, Waiting, WriteEventArmed
<1>. QED  BY <1>1, RingInvariant, PTL
=============================================================================
