------------------------- MODULE RequestBufferProofs -------------------------
(***************************************************************************)
(* Proofs about RequestBuffer for any number of sockets and any size of    *)
(* the buffer: who owns which descriptor, what the events watch, and the   *)
(* order of dispatch.                                                      *)
(***************************************************************************)
EXTENDS RequestBuffer, ListsProofs, FiniteSetTheorems, SequenceTheorems, TLAPS

\* A piece of an item; those that are left of a socket that ended, and those that
\* were decoded from anything else than an item, have no descriptor.
Piece == [item : Nat, kind : AllKinds, part : Nat, fd : Fds \cup {None}]

\* struct conn
Conn == [second : Fds \cup {None}, cookie : BOOLEAN, base64_count : Int,
         buf : Seq(Piece), proto : {"start", "rtsp", "http"}]

LEMMA ConnFields ==
    ASSUME NEW x \in Conn
    PROVE  /\ \A v \in Fds \cup {None} : [x EXCEPT !.second = v] \in Conn
           /\ \A v \in BOOLEAN : [x EXCEPT !.cookie = v] \in Conn
           /\ \A v \in Int : [x EXCEPT !.base64_count = v] \in Conn
           /\ \A v \in Seq(Piece) : [x EXCEPT !.buf = v] \in Conn
           /\ \A v \in {"start", "rtsp", "http"} : [x EXCEPT !.proto = v] \in Conn
<1>1. \A v \in Fds \cup {None} : [x EXCEPT !.second = v] \in Conn
  BY DEF Conn
<1>2. \A v \in BOOLEAN : [x EXCEPT !.cookie = v] \in Conn
  BY DEF Conn
<1>3. \A v \in Int : [x EXCEPT !.base64_count = v] \in Conn
  BY DEF Conn
<1>4. \A v \in Seq(Piece) : [x EXCEPT !.buf = v] \in Conn
  BY DEF Conn
<1>5. \A v \in {"start", "rtsp", "http"} : [x EXCEPT !.proto = v] \in Conn
  BY DEF Conn
<1>. QED  BY <1>1, <1>2, <1>3, <1>4, <1>5

\* No connection is in conn_list twice; the characters that wait to be decoded
\* are in the buffer.
ListType ==
    /\ list \in Seq(Fds)
    /\ \A i, j \in DOMAIN list : list[i] = list[j] => i = j

ConnType ==
    /\ conn \in [Fds -> Conn]
    /\ \A c \in Fds : conn[c].base64_count \in -1 .. Len(conn[c].buf)
    /\ opened \subseteq Fds
    /\ wire \in [Fds -> Seq(Piece)]

SentType == sent \in [Fds -> Nat]

\* Only a tunnel has a second socket, and a tunnel speaks RTSP.
TunnelsOnly ==
    \A c \in Conns : /\ conn[c].second # None => conn[c].cookie
                     /\ conn[c].cookie => conn[c].proto = "rtsp"

\* The event of a connection's own socket, and that of its second one.
OwnEvent(c) == [fd |-> c, conn |-> c, second |-> FALSE]
SecondEvent(c) == [fd |-> conn[c].second, conn |-> c, second |-> TRUE]

\* There are exactly the events of the sockets that connections hold.
EventsExact ==
    \A e : e \in events <=> \E c \in Conns :
        e = OwnEvent(c) \/ (conn[c].second # None /\ e = SecondEvent(c))

TcpInv == ListType /\ ConnType /\ TunnelsOnly /\ SocketsOwned /\ EventsExact

-----------------------------------------------------------------------------
\* drop_conn takes one connection out of conn_list and leaves the others.
LEMMA UnlinkedProperties ==
    ASSUME ListType, NEW c \in Conns
    PROVE  /\ Unlinked(c) \in Seq(Fds)
           /\ \A i, j \in DOMAIN Unlinked(c) : Unlinked(c)[i] = Unlinked(c)[j] => i = j
           /\ {Unlinked(c)[i] : i \in DOMAIN Unlinked(c)} = Conns \ {c}
<1>. DEFINE i == CHOOSE i \in DOMAIN list : list[i] = c
            n == Len(list)
            a == SubSeq(list, 1, i - 1)
            b == SubSeq(list, i + 1, n)
<1>1. n \in Nat /\ DOMAIN list = 1 .. n /\ \A k \in 1 .. n : list[k] \in Fds
  BY LenProperties, ElementOfSeq DEF ListType
<1>2. i \in 1 .. n /\ list[i] = c
  BY <1>1 DEF Conns
<1>. HIDE DEF i, n
<1>3. /\ a \in Seq(Fds) /\ Len(a) = i - 1
      /\ \A k \in 1 .. i - 1 : a[k] = list[k]
  BY <1>1, <1>2, SubSeqProperties
<1>4. /\ b \in Seq(Fds) /\ Len(b) = n - i
      /\ \A k \in 1 .. n - i : b[k] = list[i + k]
  BY <1>1, <1>2, SubSeqProperties
<1>. HIDE DEF a, b
<1>. DEFINE u == a \o b
<1>5. /\ u \in Seq(Fds) /\ Len(u) = Len(a) + Len(b)
      /\ \A k \in 1 .. Len(a) + Len(b) : u[k] = IF k <= Len(a) THEN a[k] ELSE b[k - Len(a)]
  BY <1>3, <1>4, ConcatProperties
<1>6. Unlinked(c) = u
  BY DEF Unlinked, i, n, a, b
<1>. HIDE DEF u
<1>7. DOMAIN u = 1 .. n - 1
  BY <1>1, <1>2, <1>3, <1>4, <1>5, LenProperties
<1>8. ASSUME NEW k \in 1 .. n - 1
      PROVE  u[k] = IF k < i THEN list[k] ELSE list[k + 1]
  <2>1. k \in 1 .. Len(a) + Len(b)
    BY <1>1, <1>2, <1>3, <1>4
  <2>2. CASE k < i
    BY <1>1, <1>2, <1>3, <1>5, <2>1, <2>2
  <2>3. CASE k >= i
    <3>1. k - (i - 1) \in 1 .. n - i /\ i + (k - (i - 1)) = k + 1
      BY <1>1, <1>2, <2>3
    <3>. QED  BY <1>1, <1>2, <1>3, <1>4, <1>5, <2>1, <2>3, <3>1
  <2>. QED  BY <1>1, <1>2, <2>2, <2>3
<1>9. \A j, k \in 1 .. n : list[j] = list[k] => j = k
  BY <1>1 DEF ListType
<1>10. \A j, k \in 1 .. n - 1 : u[j] = u[k] => j = k
  BY <1>1, <1>2, <1>8, <1>9
<1>11. ASSUME NEW k \in 1 .. n - 1 PROVE u[k] \in Conns \ {c}
  BY <1>1, <1>2, <1>8, <1>9 DEF Conns
<1>12. ASSUME NEW k \in 1 .. n, list[k] # c PROVE \E j \in 1 .. n - 1 : u[j] = list[k]
  <2>1. CASE k < i
    BY <1>1, <1>2, <1>8, <2>1
  <2>2. CASE k > i
    <3>1. k - 1 \in 1 .. n - 1 /\ ~(k - 1 < i) /\ (k - 1) + 1 = k
      BY <1>1, <1>2, <2>2
    <3>. QED  BY <1>8, <3>1
  <2>. QED  BY <1>1, <1>2, <1>12, <2>1, <2>2
<1>13. {u[k] : k \in DOMAIN u} = Conns \ {c}
  <2>1. \A d \in Conns \ {c} : \E k \in 1 .. n : list[k] = d /\ d # c
    BY <1>1 DEF Conns
  <2>2. \A d \in Conns \ {c} : \E k \in DOMAIN u : u[k] = d
    BY <1>7, <1>12, <2>1
  <2>3. \A k \in DOMAIN u : u[k] \in Conns \ {c}
    BY <1>7, <1>11
  <2>. QED  BY <2>2, <2>3
<1>. QED  BY <1>5, <1>6, <1>7, <1>10, <1>13
\* So do the steps that unlink one.
LEMMA UnlinkInv ==
    ASSUME ListType, NEW c \in Conns, list' = Unlinked(c)
    PROVE  ListType' /\ Conns' = Conns \ {c}
<1>. DEFINE u == Unlinked(c)
<1>1. /\ u \in Seq(Fds) /\ \A i, j \in DOMAIN u : u[i] = u[j] => i = j
      /\ {u[i] : i \in DOMAIN u} = Conns \ {c}
  BY UnlinkedProperties
<1>. HIDE DEF u
<1>2. list' = u
  BY DEF u
<1>3. Conns' = {u[i] : i \in DOMAIN u}
  BY <1>2 DEF Conns
<1>. QED  BY <1>1, <1>2, <1>3 DEF ListType

-----------------------------------------------------------------------------
\* A function on 1 .. n is a sequence.
LEMMA SeqByElements ==
    ASSUME NEW S, NEW n \in Nat, NEW s \in [1 .. n -> S]
    PROVE  s \in Seq(S) /\ Len(s) = n
  OBVIOUS

\* What is left of the buffer when the socket ends has no owner.
LEMMA OrphanedType ==
    ASSUME ConnType, NEW c \in Fds
    PROVE  /\ Orphaned(c) \in Seq(Piece) /\ Len(Orphaned(c)) = Len(conn[c].buf)
           /\ \A i \in 1 .. Len(conn[c].buf) : Orphaned(c)[i].fd = None
<1>. DEFINE s == conn[c].buf
            u == [i \in DOMAIN s |-> [s[i] EXCEPT !.fd = None, !.item = 0]]
<1>1. s \in Seq(Piece)
  BY DEF ConnType, Conn
<1>. HIDE DEF s
<1>2. Len(s) \in Nat /\ DOMAIN s = 1 .. Len(s) /\ \A i \in 1 .. Len(s) : s[i] \in Piece
  BY <1>1, LenProperties, ElementOfSeq
<1>3. ASSUME NEW i \in 1 .. Len(s) PROVE u[i] \in Piece /\ u[i].fd = None
  BY <1>2 DEF Piece
<1>4. u \in [1 .. Len(s) -> Piece]
  BY <1>2, <1>3
<1>5. Orphaned(c) = u
  BY DEF Orphaned, s
<1>. HIDE DEF u
<1>6. u \in Seq(Piece) /\ Len(u) = Len(s)
  BY <1>2, <1>4, SeqByElements
<1>. QED  BY <1>3, <1>5, <1>6 DEF s

\* Piece p holds, or was decoded from, piece x.
Stems(p, x) == p.item = x.item /\ p.fd = x.fd /\ (p.part = 1 => x.part = 1)

\* unbase64 makes a piece from the first character of its group.
LEMMA DecodedType ==
    ASSUME NEW s \in Seq(Piece)
    PROVE  /\ Decoded(s) \in Seq(Piece)
           /\ \A i \in 1 .. Len(Decoded(s)) :
                \/ Decoded(s)[i] = Junk
                \/ \E k \in 1 .. Len(s) : Stems(Decoded(s)[i], s[k])
<1>. DEFINE q == Len(s) \div Chars
            n == 3 * q
<1>1. Len(s) \in Nat /\ DOMAIN s = 1 .. Len(s) /\ \A i \in 1 .. Len(s) : s[i] \in Piece
  BY LenProperties, ElementOfSeq
<1>2. q \in Nat /\ 4 * q <= Len(s) /\ n \in Nat
  BY <1>1 DEF Chars
<1>. HIDE DEF q
<1>3. ASSUME NEW i \in 1 .. n
      PROVE  Group(i) + 1 \in 1 .. Len(s) /\ ((i - 1) % 3) + 1 \in 1 .. 3
  <2>1. (i - 1) \div 3 \in 0 .. q - 1
    BY <1>2
  <2>. QED  BY <1>1, <1>2, <2>1 DEF Group, Chars
<1>4. ASSUME NEW i \in 1 .. n
      PROVE  [s[Group(i) + 1] EXCEPT !.part = ((i - 1) % 3) + 1] \in Piece /\ Junk \in Piece
  <2>. DEFINE k == Group(i) + 1
              m == ((i - 1) % 3) + 1
  <2>1. s[k] \in Piece /\ m \in Nat
    BY <1>1, <1>3
  <2>. HIDE DEF k, m
  <2>2. [s[k] EXCEPT !.part = m] \in Piece
    BY <2>1 DEF Piece
  <2>3. Junk \in Piece
    BY DEF Piece, Junk, AllKinds
  <2>. QED  BY <2>2, <2>3 DEF k, m
<1>5. Decoded(s) = [i \in 1 .. n |-> IF Aligned(s, Group(i))
                      THEN [s[Group(i) + 1] EXCEPT !.part = ((i - 1) % 3) + 1]
                      ELSE Junk]
  BY DEF Decoded, q
<1>6. Decoded(s) \in [1 .. n -> Piece]
  BY <1>4, <1>5
<1>7. Decoded(s) \in Seq(Piece) /\ Len(Decoded(s)) = n
  BY <1>2, <1>6, SeqByElements
<1>8. ASSUME NEW i \in 1 .. n, Decoded(s)[i] # Junk
      PROVE  \E k \in 1 .. Len(s) : Stems(Decoded(s)[i], s[k])
  <2>1. Aligned(s, Group(i))
        /\ Decoded(s)[i] = [s[Group(i) + 1] EXCEPT !.part = ((i - 1) % 3) + 1]
    BY <1>5, <1>8
  <2>2. s[Group(i) + 1].part = 1
    BY <2>1 DEF Aligned, Chars
  <2>. DEFINE k == Group(i) + 1
              m == ((i - 1) % 3) + 1
  <2>3. s[k] \in Piece /\ Decoded(s)[i] = [s[k] EXCEPT !.part = m]
    BY <1>1, <1>3, <2>1
  <2>. HIDE DEF k, m
  <2>4. Decoded(s)[i].item = s[k].item /\ Decoded(s)[i].fd = s[k].fd
    BY <2>3 DEF Piece
  <2>. QED  BY <1>3, <2>2, <2>4 DEF k, Stems
<1>. QED  BY <1>7, <1>8
\* The first k elements of a sequence, and those from k + 1 on.
LEMMA SeqParts ==
    ASSUME NEW S, NEW s \in Seq(S), NEW k \in 0 .. Len(s)
    PROVE  /\ SubSeq(s, 1, k) \in Seq(S) /\ Len(SubSeq(s, 1, k)) = k
           /\ \A i \in 1 .. k : SubSeq(s, 1, k)[i] = s[i]
           /\ SubSeq(s, k + 1, Len(s)) \in Seq(S)
           /\ Len(SubSeq(s, k + 1, Len(s))) = Len(s) - k
           /\ \A i \in 1 .. Len(s) - k : SubSeq(s, k + 1, Len(s))[i] = s[k + i]
<1>1. Len(s) \in Nat /\ \A i \in 1 .. Len(s) : s[i] \in S
  BY LenProperties, ElementOfSeq
<1>. DEFINE n == Len(s)
<1>. HIDE DEF n
<1>2. n \in Nat /\ k \in Nat /\ k <= n /\ k + 1 \in Int
      /\ (\A i \in 1 .. k : s[i] \in S) /\ (\A i \in k + 1 .. n : s[i] \in S)
  BY <1>1 DEF n
<1>3. /\ SubSeq(s, 1, k) \in Seq(S)
      /\ Len(SubSeq(s, 1, k)) = IF 1 <= k THEN k - 1 + 1 ELSE 0
      /\ \A i \in 1 .. k - 1 + 1 : SubSeq(s, 1, k)[i] = s[1 + i - 1]
  BY <1>2, SubSeqProperties
<1>4. /\ SubSeq(s, k + 1, n) \in Seq(S)
      /\ Len(SubSeq(s, k + 1, n)) = IF k + 1 <= n THEN n - (k + 1) + 1 ELSE 0
      /\ \A i \in 1 .. n - (k + 1) + 1 : SubSeq(s, k + 1, n)[i] = s[k + 1 + i - 1]
  BY <1>2, SubSeqProperties
<1>. QED  BY <1>2, <1>3, <1>4 DEF n

\* What do_read's buffer holds after a read: what it held and what has come, some
\* of it decoded.
LEMMA ReceivedType ==
    ASSUME ConnType, NEW c \in Fds, NEW s \in Seq(Piece)
    PROVE  /\ Received(c, s).buf \in Seq(Piece)
           /\ Received(c, s).left \in -1 .. Len(Received(c, s).buf)
           /\ \A i \in 1 .. Len(Received(c, s).buf) :
                \/ Received(c, s).buf[i].fd = None
                \/ \E k \in 1 .. Len(conn[c].buf) : Stems(Received(c, s).buf[i], conn[c].buf[k])
                \/ \E k \in 1 .. Len(s) : Stems(Received(c, s).buf[i], s[k])
<1>. DEFINE a == conn[c].buf
            m == conn[c].base64_count
            r == Received(c, s)
<1>1. a \in Seq(Piece) /\ Len(a) \in Nat /\ m \in -1 .. Len(a) /\ Len(s) \in Nat
  BY LenProperties DEF ConnType, Conn
<1>. HIDE DEF a, m
<1>2. CASE m < 0
  <2>1. r.buf = a \o s /\ r.left = -1
    BY <1>2 DEF Received, a, m
  <2>2. /\ a \o s \in Seq(Piece) /\ Len(a \o s) = Len(a) + Len(s)
        /\ \A i \in 1 .. Len(a) + Len(s) : (a \o s)[i] = IF i <= Len(a) THEN a[i] ELSE s[i - Len(a)]
    BY <1>1, ConcatProperties
  <2>3. \A x : Stems(x, x)
    BY DEF Stems
  <2>4. -1 \in -1 .. Len(a \o s)
    BY <1>1, <2>2
  <2>5. ASSUME NEW i \in 1 .. Len(a \o s)
        PROVE  \/ \E k \in 1 .. Len(a) : Stems((a \o s)[i], a[k])
               \/ \E k \in 1 .. Len(s) : Stems((a \o s)[i], s[k])
    <3>1. CASE i <= Len(a)
      <4>1. i \in 1 .. Len(a) /\ (a \o s)[i] = a[i]
        BY <1>1, <2>2, <3>1
      <4>. QED  BY <2>3, <4>1
    <3>2. CASE i > Len(a)
      <4>1. i - Len(a) \in 1 .. Len(s) /\ (a \o s)[i] = s[i - Len(a)]
        BY <1>1, <2>2, <3>2
      <4>. QED  BY <2>3, <4>1
    <3>. QED  BY <1>1, <2>2, <3>1, <3>2
  <2>. DEFINE u == a \o s
  <2>. HIDE DEF u, r
  <2>6. r.buf = u /\ r.left = -1 /\ u \in Seq(Piece) /\ -1 \in -1 .. Len(u)
    BY <2>1, <2>2, <2>4 DEF u
  <2>7. \A i \in 1 .. Len(u) : \/ \E k \in 1 .. Len(a) : Stems(u[i], a[k])
                               \/ \E k \in 1 .. Len(s) : Stems(u[i], s[k])
    BY <2>5 DEF u
  <2>. QED  BY <2>6, <2>7 DEF r, a
<1>3. CASE m >= 0
  <2>. DEFINE n == Len(a) - m
              b == SubSeq(a, 1, n)
              w == SubSeq(a, n + 1, Len(a))
              t == w \o s
              d == Decoded(t)
              z == SubSeq(t, Len(t) - Remain(t) + 1, Len(t))
  <2>1. n \in 0 .. Len(a)
    BY <1>1, <1>3
  <2>2. /\ b \in Seq(Piece) /\ Len(b) = n /\ \A i \in 1 .. n : b[i] = a[i]
        /\ w \in Seq(Piece) /\ Len(w) = Len(a) - n /\ \A i \in 1 .. Len(a) - n : w[i] = a[n + i]
    BY <1>1, <2>1, SeqParts
  <2>3. r.buf = (b \o d) \o z /\ r.left = Remain(t)
    <3>1. ~(conn[c].base64_count < 0)
      BY <1>1, <1>3 DEF m
    <3>2. r = [buf |-> (b \o d) \o z, left |-> Remain(t)]
      BY <3>1, Zenon DEF Received, Settled, a, m
    <3>. HIDE DEF r, b, d, z, t
    <3>. QED  BY <3>2
  <2>. HIDE DEF n, b, w
  <2>4. /\ t \in Seq(Piece) /\ Len(t) = Len(w) + Len(s)
        /\ \A i \in 1 .. Len(w) + Len(s) : t[i] = IF i <= Len(w) THEN w[i] ELSE s[i - Len(w)]
    BY <2>2, ConcatProperties
  <2>. HIDE DEF t
  <2>5. Len(t) \in Nat /\ Remain(t) \in 0 .. Len(t) /\ Len(t) - Remain(t) \in 0 .. Len(t)
    <3>1. Len(t) \in Nat
      BY <2>4, LenProperties
    <3>. QED  BY <3>1 DEF Remain, Chars
  <2>6. /\ z \in Seq(Piece) /\ Len(z) = Remain(t)
        /\ \A i \in 1 .. Remain(t) : z[i] = t[Len(t) - Remain(t) + i]
    <3>. DEFINE k == Len(t) - Remain(t)
    <3>1. k \in 0 .. Len(t) /\ Len(t) - k = Remain(t)
      BY <2>5
    <3>. HIDE DEF k, z
    <3>2. z = SubSeq(t, k + 1, Len(t))
      BY DEF z, k
    <3>3. /\ z \in Seq(Piece) /\ Len(z) = Len(t) - k
          /\ \A i \in 1 .. Len(t) - k : z[i] = t[k + i]
      BY <2>4, <3>1, <3>2, SeqParts
    <3>. QED  BY <3>1, <3>3 DEF k
  <2>7. /\ d \in Seq(Piece)
        /\ \A i \in 1 .. Len(d) : d[i] = Junk \/ \E k \in 1 .. Len(t) : Stems(d[i], t[k])
    BY <2>4, DecodedType
  <2>. HIDE DEF z, d
  <2>. DEFINE e == b \o d
              u == e \o z
  <2>8. /\ e \in Seq(Piece) /\ Len(e) = Len(b) + Len(d)
        /\ \A i \in 1 .. Len(b) + Len(d) : e[i] = IF i <= Len(b) THEN b[i] ELSE d[i - Len(b)]
    BY <2>2, <2>7, ConcatProperties
  <2>. HIDE DEF e
  <2>9. /\ u \in Seq(Piece) /\ Len(u) = Len(e) + Len(z)
        /\ \A i \in 1 .. Len(e) + Len(z) : u[i] = IF i <= Len(e) THEN e[i] ELSE z[i - Len(e)]
    BY <2>6, <2>8, ConcatProperties
  <2>10. Len(b) \in Nat /\ Len(d) \in Nat /\ Len(z) \in Nat /\ Len(e) = Len(b) + Len(d)
         /\ Len(w) \in Nat
    BY <2>2, <2>6, <2>7, <2>8, LenProperties
  <2>. HIDE DEF u
  <2>11. ASSUME NEW i \in 1 .. Len(t)
         PROVE  \/ \E k \in 1 .. Len(a) : t[i] = a[k]
                \/ \E k \in 1 .. Len(s) : t[i] = s[k]
    <3>1. CASE i <= Len(w)
      <4>1. n + i \in 1 .. Len(a) /\ i \in 1 .. Len(a) - n /\ i \in 1 .. Len(w) + Len(s)
        BY <1>1, <2>1, <2>2, <2>4, <2>10, <3>1
      <4>. QED  BY <2>2, <2>4, <3>1, <4>1
    <3>2. CASE i > Len(w)
      <4>1. i - Len(w) \in 1 .. Len(s) /\ i \in 1 .. Len(w) + Len(s) /\ ~(i <= Len(w))
        BY <1>1, <2>4, <2>10, <3>2
      <4>. QED  BY <2>4, <4>1
    <3>. QED  BY <2>5, <2>10, <3>1, <3>2
  <2>12. ASSUME NEW i \in 1 .. Len(u)
         PROVE  \/ \E k \in 1 .. Len(b) : u[i] = b[k]
                \/ \E k \in 1 .. Len(d) : u[i] = d[k]
                \/ \E k \in 1 .. Len(z) : u[i] = z[k]
    <3>1. CASE i <= Len(b)
      <4>1. /\ i \in 1 .. Len(b) /\ i \in 1 .. Len(b) + Len(d) /\ i <= Len(e)
            /\ i \in 1 .. Len(e) + Len(z)
        BY <2>9, <2>10, <3>1
      <4>2. u[i] = e[i]
        BY <2>9, <4>1
      <4>3. e[i] = b[i]
        BY <2>8, <3>1, <4>1
      <4>. QED  BY <4>1, <4>2, <4>3
    <3>2. CASE i > Len(b) /\ i <= Len(e)
      <4>1. i - Len(b) \in 1 .. Len(d)
        BY <2>10, <3>2
      <4>2. u[i] = e[i]
        BY <2>9, <2>10, <3>2
      <4>3. e[i] = d[i - Len(b)]
        BY <2>8, <2>10, <3>2
      <4>. QED  BY <4>1, <4>2, <4>3
    <3>3. CASE i > Len(e)
      <4>1. i - Len(e) \in 1 .. Len(z)
        BY <2>9, <2>10, <3>3
      <4>. QED  BY <2>9, <2>10, <3>3, <4>1
    <3>. QED  BY <2>9, <2>10, <3>1, <3>2, <3>3
  <2>13. ASSUME NEW i \in 1 .. Len(u)
         PROVE  \/ u[i].fd = None
                \/ \E k \in 1 .. Len(a) : Stems(u[i], a[k])
                \/ \E k \in 1 .. Len(s) : Stems(u[i], s[k])
    <3>1. CASE \E k \in 1 .. Len(b) : u[i] = b[k]
      <4>1. \E k \in 1 .. Len(a) : u[i] = a[k]
        BY <1>1, <2>1, <2>2, <3>1
      <4>. QED  BY <4>1 DEF Stems
    <3>2. CASE \E k \in 1 .. Len(d) : u[i] = d[k]
      <4>1. PICK k \in 1 .. Len(d) : u[i] = d[k]
        BY <3>2
      <4>2. d[k] = Junk => u[i].fd = None
        BY <4>1 DEF Junk
      <4>3. ASSUME NEW j \in 1 .. Len(t), Stems(d[k], t[j])
            PROVE  \/ \E l \in 1 .. Len(a) : Stems(u[i], a[l])
                   \/ \E l \in 1 .. Len(s) : Stems(u[i], s[l])
        BY <2>11, <4>1, <4>3, Zenon
      <4>. QED  BY <2>7, <4>2, <4>3
    <3>3. CASE \E k \in 1 .. Len(z) : u[i] = z[k]
      <4>1. \E k \in 1 .. Len(t) : u[i] = t[k]
        <5>1. PICK k \in 1 .. Len(z) : u[i] = z[k]
          BY <3>3
        <5>2. Len(t) - Remain(t) + k \in 1 .. Len(t) /\ k \in 1 .. Remain(t)
          BY <2>5, <2>6
        <5>. QED  BY <2>6, <5>1, <5>2
      <4>. QED  BY <2>11, <4>1 DEF Stems
    <3>. QED  BY <2>12, <3>1, <3>2, <3>3
  <2>14. Remain(t) \in -1 .. Len(u)
    BY <2>5, <2>6, <2>9, <2>10
  <2>. HIDE DEF r
  <2>15. r.buf = u /\ r.left = Remain(t)
    BY <2>3 DEF u, e
  <2>. QED  BY <2>9, <2>13, <2>14, <2>15 DEF r, a
<1>. QED  BY <1>1, <1>2, <1>3
-----------------------------------------------------------------------------
\* do_accept's struct conn is one.
LEMMA FreshType == Fresh \in Conn /\ Fresh.base64_count \in -1 .. Len(Fresh.buf)
<1>1. << >> \in Seq(Piece) /\ Len(<< >>) = 0
  BY EmptySeq
<1>. QED  BY <1>1 DEF Fresh, Conn

\* The length of what a socket holds.
LEMMA WireLen ==
    ASSUME ConnType, NEW f \in Fds
    PROVE  wire[f] \in Seq(Piece) /\ Len(wire[f]) \in Nat /\ 0 \in 0 .. Len(wire[f])
<1>1. wire[f] \in Seq(Piece)
  BY DEF ConnType
<1>2. Len(wire[f]) \in Nat
  BY <1>1, LenProperties
<1>. QED  BY <1>1, <1>2

\* What Sockets does to the descriptors and to what is in them.
LEMMA SocketsType ==
    ASSUME ConnType, NEW f \in Fds, NEW n \in 0 .. Len(wire[f]), NEW closed, NEW served,
           Sockets(f, n, closed, served)
    PROVE  opened' = opened \ closed /\ wire' \in [Fds -> Seq(Piece)]
<1>1. SubSeq(wire[f], n + 1, Len(wire[f])) \in Seq(Piece)
  BY SeqParts, WireLen
<1>2. << >> \in Seq(Piece)
  BY EmptySeq
<1>3. ASSUME NEW g \in Fds PROVE wire'[g] \in Seq(Piece)
  <2>1. CASE g \in closed
    BY <1>2, <2>1 DEF Sockets
  <2>2. CASE g \notin closed /\ g = f
    BY <1>1, <2>2 DEF Sockets
  <2>3. CASE g \notin closed /\ g # f
    BY <2>3, WireLen DEF Sockets
  <2>. QED  BY <2>1, <2>2, <2>3
<1>4. wire' = [g \in Fds |-> wire'[g]]
  BY DEF Sockets
<1>. QED  BY <1>3, <1>4 DEF Sockets

-----------------------------------------------------------------------------
\* What a turn of do_read has to change for the invariant to be about new
\* connections, struct conns and events: nothing else matters to it.
LEMMA SameConns ==
    ASSUME TcpInv, ConnType', UNCHANGED <<list, events, opened>>,
           \A c \in Conns : /\ conn'[c].second = conn[c].second
                            /\ conn[c].cookie => conn'[c].cookie
                            /\ conn'[c].cookie => conn'[c].proto = "rtsp"
    PROVE  TcpInv'
<1>. USE DEF TcpInv
<1>1. Conns' = Conns
  BY DEF Conns
<1>2. ListType'
  BY DEF ListType
<1>3. TunnelsOnly'
  BY <1>1 DEF TunnelsOnly
<1>4. \A c \in Conns : FdsOf(c)' = FdsOf(c) /\ OwnEvent(c)' = OwnEvent(c)
                       /\ SecondEvent(c)' = SecondEvent(c)
  BY DEF FdsOf, OwnEvent, SecondEvent
<1>5. SocketsOwned'
  <2>1. UNION {FdsOf(c) : c \in Conns}' = UNION {FdsOf(c) : c \in Conns}
    BY <1>1, <1>4
  <2>. QED  BY <1>1, <1>4, <2>1 DEF SocketsOwned
<1>6. EventsExact'
  BY <1>1, <1>4 DEF EventsExact
<1>. QED  BY <1>2, <1>3, <1>5, <1>6

\* A connection holds its own descriptor, which is open.
LEMMA OwnFd ==
    ASSUME TcpInv, NEW c \in Conns
    PROVE  c \in Fds /\ c \in FdsOf(c) /\ FdsOf(c) \subseteq opened /\ FdsOf(c) \subseteq Fds
<1>1. c \in Fds
  BY ElementOfSeq, LenProperties DEF TcpInv, Conns, ListType
<1>2. c \in FdsOf(c)
  BY <1>1, RequestAssumption DEF FdsOf
<1>. QED  BY <1>1, <1>2 DEF TcpInv, SocketsOwned, ConnType

\* do_accept: the descriptor is new, so nobody else holds it.
LEMMA AcceptInv == ASSUME TcpInv, NEW f \in Fds, Accept(f) PROVE TcpInv'
<1>. USE DEF TcpInv
<1>1. f \notin Conns /\ \A c \in Conns : f \notin FdsOf(c)
  BY OwnFd DEF Accept
<1>2. ListType' /\ Conns' = Conns \cup {f}
  <2>. DEFINE n == Len(list)
              u == <<f>> \o list
  <2>1. n \in Nat /\ DOMAIN list = 1 .. n /\ list \in Seq(Fds)
    BY LenProperties DEF ListType
  <2>2. <<f>> \in Seq(Fds) /\ Len(<<f>>) = 1 /\ <<f>>[1] = f
    OBVIOUS
  <2>3. /\ u \in Seq(Fds) /\ Len(u) = Len(<<f>>) + Len(list)
        /\ \A k \in 1 .. Len(<<f>>) + Len(list) :
              u[k] = IF k <= Len(<<f>>) THEN <<f>>[k] ELSE list[k - Len(<<f>>)]
    BY <2>1, <2>2, ConcatProperties
  <2>. HIDE DEF u, n
  <2>4. DOMAIN u = 1 .. n + 1 /\ u[1] = f /\ \A k \in 1 .. n : u[k + 1] = list[k]
    BY <2>1, <2>2, <2>3, LenProperties DEF n
  <2>5. \A k \in 2 .. n + 1 : u[k] = list[k - 1] /\ k - 1 \in 1 .. n
    BY <2>1, <2>4
  <2>6. \A k \in 1 .. n : list[k] # f
    BY <1>1, <2>1 DEF Conns
  <2>7. \A i, j \in 1 .. n + 1 : u[i] = u[j] => i = j
    <3>1. \A i, j \in 1 .. n : list[i] = list[j] => i = j
      BY <2>1 DEF ListType
    <3>. QED  BY <2>1, <2>4, <2>5, <2>6, <3>1
  <2>8. {u[k] : k \in 1 .. n + 1} = {list[k] : k \in 1 .. n} \cup {f}
    <3>1. ASSUME NEW k \in 1 .. n + 1 PROVE u[k] = f \/ \E j \in 1 .. n : u[k] = list[j]
      BY <2>1, <2>4, <2>5
    <3>2. ASSUME NEW j \in 1 .. n PROVE \E k \in 1 .. n + 1 : u[k] = list[j]
      BY <2>1, <2>4
    <3>3. 1 \in 1 .. n + 1
      BY <2>1
    <3>. QED  BY <2>4, <3>1, <3>2, <3>3
  <2>9. list' = u
    BY DEF Accept, u
  <2>10. Conns = {list[k] : k \in 1 .. n} /\ Conns' = {u[k] : k \in 1 .. n + 1}
    BY <2>1, <2>4, <2>9 DEF Conns
  <2>. QED  BY <2>3, <2>4, <2>7, <2>8, <2>9, <2>10 DEF ListType
<1>3. conn'[f] = Fresh /\ \A c \in Conns : conn'[c] = conn[c]
  BY <1>1, OwnFd DEF Accept, ConnType
<1>4. \A c \in Conns : FdsOf(c)' = FdsOf(c) /\ OwnEvent(c)' = OwnEvent(c)
                       /\ SecondEvent(c)' = SecondEvent(c)
  BY <1>3 DEF FdsOf, OwnEvent, SecondEvent
<1>5. FdsOf(f)' = {f} /\ OwnEvent(f)' = OwnEvent(f)
  BY <1>3, RequestAssumption DEF Fresh, FdsOf, OwnEvent
<1>6. ConnType'
  <2>1. Fresh \in Conn /\ Fresh.base64_count \in -1 .. Len(Fresh.buf)
    BY FreshType
  <2>. QED  BY <2>1 DEF ConnType, Accept
<1>7. TunnelsOnly'
  BY <1>2, <1>3 DEF TunnelsOnly, Fresh
<1>8. SocketsOwned'
  <2>1. (UNION {FdsOf(c) : c \in Conns})' = (UNION {FdsOf(c) : c \in Conns}) \cup {f}
    BY <1>2, <1>4, <1>5
  <2>2. opened' = (UNION {FdsOf(c) : c \in Conns})'
    BY <2>1 DEF SocketsOwned, Accept
  <2>3. ASSUME NEW c \in Conns', NEW d \in Conns', c # d PROVE FdsOf(c)' \cap FdsOf(d)' = {}
    BY <1>1, <1>2, <1>4, <1>5, <2>3 DEF SocketsOwned
  <2>4. \A c \in Conns' : conn'[c].second # c
    BY <1>2, <1>3, RequestAssumption DEF SocketsOwned, Fresh
  <2>. QED  BY <2>2, <2>3, <2>4 DEF SocketsOwned
<1>9. EventsExact'
  <2>1. ASSUME NEW e PROVE e \in events' <=> e \in events \/ e = OwnEvent(f)
    BY DEF Accept, OwnEvent
  <2>2. conn'[f].second = None
    BY <1>3 DEF Fresh
  <2>3. \A c \in Conns : conn'[c].second = conn[c].second
    BY <1>3
  <2>. QED  BY <1>2, <1>4, <1>5, <2>1, <2>2, <2>3 DEF EventsExact
<1>. QED  BY <1>2, <1>6, <1>7, <1>8, <1>9

\* drop_conn closes the descriptors of one connection and removes its events.
LEMMA DropInv == ASSUME TcpInv, NEW c \in Conns, NEW f \in Fds, Drop(c, f) PROVE TcpInv'
<1>. USE DEF TcpInv
<1>1. ListType' /\ Conns' = Conns \ {c}
  BY UnlinkInv DEF Drop
<1>2. \A d \in Conns' : conn'[d] = conn[d]
  BY <1>1, OwnFd DEF Drop, ConnType
<1>3. \A d \in Conns' : FdsOf(d)' = FdsOf(d) /\ OwnEvent(d)' = OwnEvent(d)
                        /\ SecondEvent(d)' = SecondEvent(d)
  BY <1>2 DEF FdsOf, OwnEvent, SecondEvent
<1>4. opened' = opened \ FdsOf(c) /\ wire' \in [Fds -> Seq(Piece)]
  BY SocketsType, WireLen DEF Drop
<1>5. ConnType'
  BY <1>4, FreshType DEF ConnType, Drop
<1>6. TunnelsOnly'
  BY <1>1, <1>2 DEF TunnelsOnly
<1>7. SocketsOwned'
  <2>1. opened' = (UNION {FdsOf(d) : d \in Conns})'
    BY <1>1, <1>3, <1>4 DEF SocketsOwned
  <2>. QED  BY <1>1, <1>2, <1>3, <2>1 DEF SocketsOwned
<1>8. EventsExact'
  <2>1. ASSUME NEW e PROVE e \in events' <=> e \in events /\ e.conn # c
    BY DEF Drop, EventsOf
  <2>2. \A d : OwnEvent(d).conn = d /\ SecondEvent(d).conn = d
    BY DEF OwnEvent, SecondEvent
  <2>3. \A d \in Conns' : conn'[d].second = conn[d].second
    BY <1>2
  <2>. QED  BY <1>1, <1>3, <2>1, <2>2, <2>3 DEF EventsExact
<1>. QED  BY <1>1, <1>5, <1>6, <1>7, <1>8
\* A connection and one of its events, as do_read is called with them.
LEMMA EventOf ==
    ASSUME TcpInv, NEW e \in events
    PROVE  /\ e.conn \in Conns /\ e.fd \in FdsOf(e.conn)
           /\ e.second => conn[e.conn].second # None /\ e = SecondEvent(e.conn)
           /\ ~e.second => e = OwnEvent(e.conn)
<1>1. PICK c \in Conns : e = OwnEvent(c) \/ (conn[c].second # None /\ e = SecondEvent(c))
  BY DEF TcpInv, EventsExact
<1>2. OwnEvent(c).conn = c /\ OwnEvent(c).second = FALSE /\ OwnEvent(c).fd = c
  BY DEF OwnEvent
<1>3. /\ SecondEvent(c).conn = c /\ SecondEvent(c).second = TRUE
      /\ SecondEvent(c).fd = conn[c].second
  BY DEF SecondEvent
<1>. QED  BY <1>1, <1>2, <1>3, OwnFd DEF FdsOf

\* The second socket of a tunnel ends, and the tunnel goes on without it.
LEMMA SecondEndsInv ==
    ASSUME TcpInv, NEW e \in events, e.second, SocketEnds(e)
    PROVE  TcpInv'
<1>. USE DEF TcpInv
<1>. DEFINE c == e.conn
            g == conn[c].second
<1>1. c \in Conns /\ c \in Fds /\ g # None /\ e = SecondEvent(c) /\ e.fd = g /\ g \in Fds
  BY EventOf, OwnFd DEF SecondEvent, FdsOf
<1>2. /\ conn' = [conn EXCEPT ![c].second = None, ![c].buf = Orphaned(c)]
      /\ events' = events \ {e} /\ opened' = opened \ {g} /\ UNCHANGED list
      /\ wire' \in [Fds -> Seq(Piece)]
  BY <1>1, SocketsType, WireLen DEF SocketEnds
<1>. HIDE DEF c, g
<1>3. /\ conn'[c].second = None /\ conn'[c].cookie = conn[c].cookie
      /\ conn'[c].proto = conn[c].proto
  BY <1>1, <1>2 DEF ConnType, Conn
<1>4. \A d \in Conns : d # c => conn'[d] = conn[d]
  BY <1>1, <1>2, OwnFd DEF ConnType
<1>5. Conns' = Conns
  BY <1>2 DEF Conns
<1>6. /\ \A d \in Conns : d # c => FdsOf(d)' = FdsOf(d) /\ SecondEvent(d)' = SecondEvent(d)
      /\ \A d \in Conns : OwnEvent(d)' = OwnEvent(d)
      /\ FdsOf(c)' = {c} /\ FdsOf(c) = {c, g} /\ c # g
  <2>1. \A d \in Conns : d # c => FdsOf(d)' = FdsOf(d) /\ SecondEvent(d)' = SecondEvent(d)
    BY <1>4 DEF FdsOf, SecondEvent
  <2>2. \A d \in Conns : OwnEvent(d)' = OwnEvent(d)
    BY DEF OwnEvent
  <2>3. FdsOf(c)' = {c} /\ FdsOf(c) = {c, g}
    BY <1>1, <1>3, RequestAssumption DEF FdsOf, g
  <2>4. c # g
    BY <1>1 DEF SocketsOwned, g
  <2>. QED  BY <2>1, <2>2, <2>3, <2>4
<1>7. ConnType' /\ ListType'
  <2>1. Orphaned(c) \in Seq(Piece) /\ Len(Orphaned(c)) = Len(conn[c].buf)
    BY <1>1, OrphanedType
  <2>2. conn' \in [Fds -> Conn]
    <3>1. PICK x \in Conn : x = conn[c]
      BY <1>1 DEF ConnType
    <3>2. PICK y \in Conn : y = [x EXCEPT !.second = None]
      BY ConnFields
    <3>3. [y EXCEPT !.buf = Orphaned(c)] \in Conn
      BY <2>1, ConnFields
    <3>4. conn' = [conn EXCEPT ![c] = [y EXCEPT !.buf = Orphaned(c)]]
      BY <1>1, <1>2, <3>1, <3>2 DEF ConnType
    <3>. QED  BY <1>1, <3>3, <3>4 DEF ConnType
  <2>3. conn'[c].buf = Orphaned(c) /\ conn'[c].base64_count = conn[c].base64_count
    BY <1>1, <1>2 DEF ConnType, Conn
  <2>4. \A d \in Fds : d # c => conn'[d] = conn[d]
    BY <1>1, <1>2 DEF ConnType
  <2>5. \A d \in Fds : conn'[d].base64_count \in -1 .. Len(conn'[d].buf)
    BY <2>1, <2>3, <2>4 DEF ConnType
  <2>. QED  BY <1>2, <2>2, <2>5 DEF ConnType, ListType
<1>8. TunnelsOnly'
  <2>1. ASSUME NEW d \in Conns
        PROVE  /\ conn'[d].second = conn[d].second \/ conn'[d].second = None
               /\ conn'[d].cookie = conn[d].cookie /\ conn'[d].proto = conn[d].proto
    BY <1>3, <1>4
  <2>. QED  BY <1>5, <2>1, Zenon DEF TunnelsOnly
<1>9. SocketsOwned'
  <2>1. \A d \in Conns : d # c => g \notin FdsOf(d)
    BY <1>1, <1>6 DEF SocketsOwned
  <2>2. opened' = (UNION {FdsOf(d) : d \in Conns})'
    <3>1. \A x : x \in opened <=> \E d \in Conns : x \in FdsOf(d)
      BY DEF SocketsOwned
    <3>2. ASSUME NEW x \in opened' PROVE \E d \in Conns : x \in FdsOf(d)'
      BY <1>1, <1>2, <1>6, <3>1, <3>2
    <3>3. ASSUME NEW d \in Conns, NEW x \in FdsOf(d)' PROVE x \in opened'
      BY <1>1, <1>2, <1>6, <2>1, <3>1
    <3>. QED  BY <1>5, <3>2, <3>3
  <2>3. ASSUME NEW a \in Conns', NEW b \in Conns', a # b PROVE FdsOf(a)' \cap FdsOf(b)' = {}
    BY <1>1, <1>5, <1>6, <2>3 DEF SocketsOwned
  <2>4. \A d \in Conns' : conn'[d].second # d
    BY <1>1, <1>3, <1>4, <1>5, RequestAssumption DEF SocketsOwned
  <2>. QED  BY <2>2, <2>3, <2>4 DEF SocketsOwned
<1>10. EventsExact'
  <2>1. \A d : /\ OwnEvent(d).conn = d /\ OwnEvent(d).second = FALSE
               /\ SecondEvent(d).conn = d /\ SecondEvent(d).second = TRUE
    BY DEF OwnEvent, SecondEvent
  <2>2. \A d \in Conns : d # c => conn'[d].second = conn[d].second
    BY <1>4
  <2>3. ASSUME NEW x PROVE x \in events' <=> x \in events /\ x # SecondEvent(c)
    BY <1>1, <1>2
  <2>. QED  BY <1>1, <1>3, <1>5, <1>6, <2>1, <2>2, <2>3 DEF EventsExact
<1>. QED  BY <1>7, <1>8, <1>9, <1>10
\* handle_QT_tunnel, POST: the connection that is dropped has no second socket
\* and is not the tunnel; the tunnel holds its descriptor from now on.
LEMMA AdoptFacts ==
    ASSUME TcpInv, NEW e \in events, NEW b, IsTunnel(e.conn, b, "post"), WithCookie # {}
    PROVE  /\ TunnelOf \in Conns /\ TunnelOf \in Fds /\ TunnelOf # e.conn
           /\ e.conn \in Conns /\ e.conn \in Fds /\ e.fd = e.conn
           /\ conn[e.conn].second = None /\ conn[TunnelOf].cookie
<1>. USE DEF TcpInv
<1>. DEFINE c == e.conn
<1>1. TunnelOf \in Conns /\ conn[TunnelOf].cookie
  <2>1. \E i \in WithCookie : \A k \in WithCookie : i <= k
    <3>1. WithCookie \in SUBSET Nat
      BY LenProperties DEF ListType, WithCookie
    <3>. QED  BY <3>1, LeastIndex
  <2>. QED  BY <2>1 DEF TunnelOf, WithCookie, Conns
<1>2. c \in Conns /\ c \in Fds
  BY EventOf, OwnFd
<1>3. conn[c].proto # "rtsp"
  BY DEF IsTunnel, StartProto
<1>4. ~conn[c].cookie /\ conn[c].second = None
  BY <1>2, <1>3 DEF TunnelsOnly
<1>5. e.fd = c
  BY <1>4, EventOf DEF OwnEvent
<1>. QED  BY <1>1, <1>2, <1>4, <1>5, OwnFd
\* Adopt in terms of the connection c that is dropped, the tunnel t and the second
\* descriptor t had.
LEMMA AdoptInv ==
    ASSUME TcpInv, NEW e \in events, NEW n \in 0 .. Len(wire[e.fd]), NEW b,
           IsTunnel(e.conn, b, "post"), WithCookie # {}, Adopt(e.conn, e.fd, n, b)
    PROVE  TcpInv'
<1>. USE DEF TcpInv
<1>. DEFINE c == e.conn
<1>1. PICK t \in Fds : t = TunnelOf
  BY AdoptFacts
<1>2. PICK old : old = OldSecond(t)
  OBVIOUS
<1>3. /\ t \in Conns /\ t \in Fds /\ t # c /\ c \in Conns /\ c \in Fds /\ e.fd = c
      /\ conn[c].second = None /\ conn[t].cookie
  BY <1>1, AdoptFacts
<1>4. /\ conn' = [conn EXCEPT ![c] = Fresh, ![t].second = c, ![t].buf = Orphaned(t)]
      /\ events' = (events \ (EventsOf(c) \cup OldSecondEvent(t))) \cup {[fd |-> c, conn |-> t, second |-> TRUE]}
      /\ list' = Unlinked(c)
      /\ Sockets(c, n, old, Front(b))
  BY <1>1, <1>2, <1>3 DEF Adopt
<1>5. opened' = opened \ old /\ wire' \in [Fds -> Seq(Piece)]
  BY <1>3, <1>4, SocketsType
<1>. HIDE DEF c
<1>6. ListType' /\ Conns' = Conns \ {c}
  BY <1>3, <1>4, UnlinkInv
<1>7. /\ conn'[t].second = c /\ conn'[t].buf = Orphaned(t) /\ conn'[c] = Fresh
      /\ conn'[t].cookie = conn[t].cookie /\ conn'[t].proto = conn[t].proto
      /\ conn'[t].base64_count = conn[t].base64_count
      /\ \A d \in Fds : d # t /\ d # c => conn'[d] = conn[d]
  BY <1>3, <1>4 DEF ConnType, Conn
<1>8. Orphaned(t) \in Seq(Piece) /\ Len(Orphaned(t)) = Len(conn[t].buf)
  BY <1>3, OrphanedType
<1>9. ConnType'
  <2>1. conn' \in [Fds -> Conn]
    <3>. DEFINE g == [conn EXCEPT ![c] = Fresh]
    <3>1. g \in [Fds -> Conn]
      BY FreshType DEF ConnType
    <3>. HIDE DEF g
    <3>2. [g EXCEPT ![t].second = c] \in [Fds -> Conn]
      BY <1>3, <3>1 DEF Conn
    <3>3. [[g EXCEPT ![t].second = c] EXCEPT ![t].buf = Orphaned(t)] \in [Fds -> Conn]
      BY <1>8, <3>2 DEF Conn
    <3>. QED  BY <1>4, <3>3 DEF g
  <2>2. \A d \in Fds : conn'[d].base64_count \in -1 .. Len(conn'[d].buf)
    BY <1>7, <1>8, FreshType DEF ConnType
  <2>. QED  BY <1>5, <2>1, <2>2 DEF ConnType
<1>10. TunnelsOnly'
  <2>1. \A d \in Conns' : d # t => conn'[d] = conn[d]
    BY <1>6, <1>7, OwnFd
  <2>. QED  BY <1>3, <1>6, <1>7, <2>1 DEF TunnelsOnly
<1>11. /\ \A d \in Conns : d # t /\ d # c => FdsOf(d)' = FdsOf(d) /\ SecondEvent(d)' = SecondEvent(d)
      /\ FdsOf(t)' = {t, c} /\ FdsOf(t) = {t} \cup old /\ FdsOf(c) = {c} /\ t \notin old
      /\ SecondEvent(t)' = [fd |-> c, conn |-> t, second |-> TRUE]
      /\ \A d : OwnEvent(d)' = OwnEvent(d)
  <2>1. \A d \in Conns : d # t /\ d # c => FdsOf(d)' = FdsOf(d) /\ SecondEvent(d)' = SecondEvent(d)
    BY <1>7, OwnFd DEF FdsOf, SecondEvent
  <2>2. FdsOf(t)' = {t, c} /\ FdsOf(t) = {t} \cup old /\ FdsOf(c) = {c}
    BY <1>2, <1>3, <1>7, RequestAssumption DEF FdsOf, OldSecond
  <2>3. SecondEvent(t)' = [fd |-> c, conn |-> t, second |-> TRUE] /\ t \notin old
    BY <1>2, <1>3, <1>7 DEF SecondEvent, SocketsOwned, OldSecond
  <2>4. \A d : OwnEvent(d)' = OwnEvent(d)
    BY DEF OwnEvent
  <2>. QED  BY <2>1, <2>2, <2>3, <2>4
<1>12. SocketsOwned'
  <2>1. \A d \in Conns : d # t => FdsOf(d) \cap ({t} \cup old) = {}
    BY <1>3, <1>11 DEF SocketsOwned
  <2>2. \A d \in Conns : d # c => c \notin FdsOf(d)
    BY <1>3, <1>11 DEF SocketsOwned
  <2>3. opened' = (UNION {FdsOf(d) : d \in Conns})'
    <3>1. ASSUME NEW f \in opened' PROVE \E d \in Conns' : f \in FdsOf(d)'
      <4>1. PICK d \in Conns : f \in FdsOf(d) /\ f \notin old
        BY <1>5, <3>1 DEF SocketsOwned
      <4>2. CASE d = t \/ d = c
        <5>1. f \in FdsOf(t)' /\ t \in Conns'
          BY <1>3, <1>6, <1>11, <4>1, <4>2
        <5>. QED  BY <5>1
      <4>3. CASE d # t /\ d # c
        BY <1>6, <1>11, <4>1, <4>3
      <4>. QED  BY <4>2, <4>3
    <3>2. ASSUME NEW d \in Conns', NEW f \in FdsOf(d)' PROVE f \in opened'
      <4>1. CASE d = t
        <5>1. f \in FdsOf(t) \cup FdsOf(c) /\ f \notin old
          BY <1>3, <1>11, <2>1, <3>2, <4>1
        <5>. QED  BY <1>3, <1>5, <5>1, OwnFd
      <4>2. CASE d # t
        <5>1. f \in FdsOf(d) /\ d \in Conns /\ f \notin old
          BY <1>6, <1>11, <2>1, <3>2, <4>2
        <5>. QED  BY <1>5, <5>1, OwnFd
      <4>. QED  BY <4>1, <4>2
    <3>. QED  BY <3>1, <3>2
  <2>4. ASSUME NEW x \in Conns', NEW y \in Conns', x # y PROVE FdsOf(x)' \cap FdsOf(y)' = {}
    <3>1. ASSUME NEW d \in Conns', d # t PROVE FdsOf(d)' \cap {t, c} = {}
      BY <1>6, <1>11, <2>1, <2>2, <3>1
    <3>2. CASE x # t /\ y # t
      BY <1>6, <1>11, <2>4, <3>2 DEF SocketsOwned
    <3>. QED  BY <1>11, <2>4, <3>1, <3>2
  <2>5. \A d \in Conns' : conn'[d].second # d
    BY <1>3, <1>6, <1>7, OwnFd DEF SocketsOwned
  <2>. QED  BY <2>3, <2>4, <2>5 DEF SocketsOwned
<1>13. EventsExact'
  <2>1. \A d : /\ OwnEvent(d).conn = d /\ OwnEvent(d).second = FALSE
               /\ SecondEvent(d).conn = d /\ SecondEvent(d).second = TRUE
    BY DEF OwnEvent, SecondEvent
  <2>2. ASSUME NEW x
        PROVE  x \in events' <=> \/ x = SecondEvent(t)'
                                 \/ x \in events /\ x.conn # c /\ ~(x.conn = t /\ x.second)
    BY <1>4, <1>11 DEF EventsOf, OldSecondEvent
  <2>3. \A d \in Conns' : d # t => conn'[d].second = conn[d].second
    BY <1>6, <1>7, OwnFd
  <2>4. conn'[t].second # None /\ t \in Conns'
    BY <1>3, <1>6, <1>7, RequestAssumption
  <2>5. ASSUME NEW x \in events'
        PROVE  \E d \in Conns' : \/ x = OwnEvent(d)'
                                 \/ conn'[d].second # None /\ x = SecondEvent(d)'
    <3>1. CASE x = SecondEvent(t)'
      BY <2>4, <3>1
    <3>2. CASE x \in events /\ x.conn # c /\ ~(x.conn = t /\ x.second)
      <4>1. PICK d \in Conns : x = OwnEvent(d) \/ (conn[d].second # None /\ x = SecondEvent(d))
        BY <3>2 DEF EventsExact
      <4>2. d \in Conns'
        BY <1>6, <2>1, <3>2, <4>1
      <4>3. CASE x = OwnEvent(d)
        BY <1>11, <4>2, <4>3
      <4>4. CASE conn[d].second # None /\ x = SecondEvent(d)
        <5>1. d # t
          BY <2>1, <3>2, <4>4
        <5>2. d # c
          BY <1>6, <4>2
        <5>. QED  BY <1>11, <2>3, <4>2, <4>4, <5>1, <5>2
      <4>. QED  BY <4>1, <4>3, <4>4
    <3>. QED  BY <2>2, <3>1, <3>2
  <2>6. ASSUME NEW d \in Conns', NEW x,
               \/ x = OwnEvent(d)'
               \/ conn'[d].second # None /\ x = SecondEvent(d)'
        PROVE  x \in events'
    <3>1. d \in Conns /\ d # c
      BY <1>6
    <3>2. CASE x = OwnEvent(d)'
      <4>1. x = OwnEvent(d) /\ x \in events
        BY <1>11, <3>1, <3>2 DEF EventsExact
      <4>. QED  BY <2>1, <2>2, <3>1, <4>1
    <3>3. CASE conn'[d].second # None /\ x = SecondEvent(d)' /\ d # t
      <4>1. x = SecondEvent(d) /\ x \in events
        BY <1>11, <2>3, <3>1, <3>3 DEF EventsExact
      <4>. QED  BY <2>1, <2>2, <3>1, <3>3, <4>1
    <3>. QED  BY <2>2, <2>6, <3>2, <3>3
  <2>. QED  BY <2>5, <2>6 DEF EventsExact
<1>. QED  BY <1>6, <1>9, <1>10, <1>12, <1>13
\* A request that is dispatched, or not yet complete, changes only the struct conn
\* of its connection, which stays a tunnel if it was one.
LEMMA SameConn ==
    ASSUME TcpInv, NEW c \in Conns, NEW f \in Fds, NEW n \in 0 .. Len(wire[f]), NEW served,
           NEW r \in Conn, r.base64_count \in -1 .. Len(r.buf),
           r.second = conn[c].second, conn[c].cookie => r.cookie, r.cookie => r.proto = "rtsp",
           conn' = [conn EXCEPT ![c] = r], Sockets(f, n, {}, served), UNCHANGED <<list, events>>
    PROVE  TcpInv'
<1>1. c \in Fds /\ conn \in [Fds -> Conn]
  BY OwnFd DEF TcpInv, ConnType
<1>2. opened' = opened /\ wire' \in [Fds -> Seq(Piece)]
  <2>1. opened' = opened \ {} /\ wire' \in [Fds -> Seq(Piece)]
    BY SocketsType DEF TcpInv
  <2>. QED  BY <2>1
<1>3. conn'[c] = r /\ \A d \in Fds : d # c => conn'[d] = conn[d]
  BY <1>1
<1>4. ConnType'
  BY <1>1, <1>2, <1>3 DEF TcpInv, ConnType
<1>5. \A d \in Conns : /\ conn'[d].second = conn[d].second
                       /\ conn[d].cookie => conn'[d].cookie
                       /\ conn'[d].cookie => conn'[d].proto = "rtsp"
  BY <1>3, OwnFd DEF TcpInv, TunnelsOnly
<1>. QED  BY <1>2, <1>4, <1>5, SameConns

\* parse_client_data and handle_request, for every request but a POST that is
\* adopted.
LEMMA ServedInv ==
    ASSUME TcpInv, NEW c \in Conns, NEW f \in Fds, NEW n \in 0 .. Len(wire[f]), NEW b,
           NEW left \in -1 .. 0,
           conn' = [conn EXCEPT ![c] = IF IsTunnel(c, b, "get") THEN Tunnelled(c, b)
                                       ELSE Served(c, b, left)],
           Sockets(f, n, {}, Front(b)), UNCHANGED <<list, events>>
    PROVE  TcpInv'
<1>1. conn[c] \in Conn /\ (conn[c].cookie => conn[c].proto = "rtsp")
  BY OwnFd DEF TcpInv, ConnType, TunnelsOnly
<1>2. << >> \in Seq(Piece) /\ Len(<< >>) = 0
  BY EmptySeq
<1>3. StartProto(c, b[1]) \in {"start", "rtsp", "http"}
      /\ (conn[c].proto = "rtsp" => StartProto(c, b[1]) = "rtsp")
  BY <1>1 DEF StartProto, Conn
<1>4. /\ Tunnelled(c, b) \in Conn /\ Tunnelled(c, b).base64_count = 0
      /\ Tunnelled(c, b).buf = << >> /\ Tunnelled(c, b).second = conn[c].second
      /\ Tunnelled(c, b).cookie /\ Tunnelled(c, b).proto = "rtsp"
  <2>1. PICK x \in Conn : x = conn[c]
    BY <1>1
  <2>2. Tunnelled(c, b) = [x EXCEPT !.cookie = TRUE, !.base64_count = 0, !.proto = "rtsp",
                                    !.buf = << >>]
    BY <2>1 DEF Tunnelled, Kept
  <2>3. Tunnelled(c, b) \in Conn
    <3>. DEFINE x1 == [x EXCEPT !.cookie = TRUE]
                x2 == [x1 EXCEPT !.base64_count = 0]
                x3 == [x2 EXCEPT !.proto = "rtsp"]
    <3>1. x1 \in Conn
      BY ConnFields
    <3>. HIDE DEF x1
    <3>2. x2 \in Conn
      <4>1. \A v \in Int : [x1 EXCEPT !.base64_count = v] \in Conn
        BY <3>1, ConnFields
      <4>. QED  BY <4>1
    <3>. HIDE DEF x2
    <3>3. x3 \in Conn
      BY <3>2, ConnFields
    <3>. HIDE DEF x3
    <3>4. [x3 EXCEPT !.buf = << >>] \in Conn
      BY <1>2, <3>3, ConnFields
    <3>. QED  BY <2>2, <3>4 DEF x1, x2, x3
  <2>. QED  BY <2>1, <2>2, <2>3 DEF Conn
<1>5. /\ Served(c, b, left) \in Conn /\ Served(c, b, left).base64_count = left
      /\ Served(c, b, left).buf = << >> /\ Served(c, b, left).second = conn[c].second
      /\ Served(c, b, left).cookie = conn[c].cookie
      /\ Served(c, b, left).proto = StartProto(c, b[1])
  <2>1. PICK x \in Conn : x = conn[c]
    BY <1>1
  <2>2. PICK y \in {"start", "rtsp", "http"} : y = StartProto(c, b[1])
    BY <1>3
  <2>3. Served(c, b, left) = [x EXCEPT !.buf = << >>, !.base64_count = left, !.proto = y]
    BY <2>1, <2>2 DEF Served, Kept
  <2>4. Served(c, b, left) \in Conn
    <3>. DEFINE x1 == [x EXCEPT !.buf = << >>]
                x2 == [x1 EXCEPT !.base64_count = left]
    <3>1. x1 \in Conn
      BY <1>2, ConnFields
    <3>. HIDE DEF x1
    <3>2. x2 \in Conn
      <4>1. \A v \in Int : [x1 EXCEPT !.base64_count = v] \in Conn
        BY <3>1, ConnFields
      <4>. QED  BY <4>1
    <3>. HIDE DEF x2
    <3>3. [x2 EXCEPT !.proto = y] \in Conn
      BY <3>2 DEF Conn
    <3>. QED  BY <2>3, <3>3 DEF x1, x2
  <2>. QED  BY <2>1, <2>2, <2>3, <2>4 DEF Conn
<1>6. CASE IsTunnel(c, b, "get")
  <2>1. Tunnelled(c, b).base64_count \in -1 .. Len(Tunnelled(c, b).buf)
    BY <1>2, <1>4
  <2>. QED  BY <1>4, <1>6, <2>1, SameConn
<1>7. CASE ~IsTunnel(c, b, "get")
  <2>1. Served(c, b, left).base64_count \in -1 .. Len(Served(c, b, left).buf)
    BY <1>2, <1>5
  <2>2. /\ conn[c].cookie => Served(c, b, left).cookie
        /\ Served(c, b, left).cookie => Served(c, b, left).proto = "rtsp"
    BY <1>1, <1>3, <1>5
  <2>. QED  BY <1>5, <1>7, <2>1, <2>2, SameConn
<1>. QED  BY <1>6, <1>7

\* Nothing is dispatched yet.
LEMMA WaitInv ==
    ASSUME TcpInv, NEW c \in Conns, NEW f \in Fds, NEW n \in 0 .. Len(wire[f]),
           NEW b \in Seq(Piece), NEW left \in -1 .. Len(b), Wait(c, f, n, b, left)
    PROVE  TcpInv'
<1>1. conn[c] \in Conn /\ (conn[c].cookie => conn[c].proto = "rtsp") /\ c \in Fds
      /\ conn \in [Fds -> Conn]
  BY OwnFd DEF TcpInv, ConnType, TunnelsOnly
<1>. DEFINE p == IF left > 0 THEN conn[c].proto ELSE StartProto(c, b[1])
            r == [second |-> conn[c].second, cookie |-> conn[c].cookie, base64_count |-> left,
                  buf |-> b, proto |-> p]
<1>2. p \in {"start", "rtsp", "http"} /\ (conn[c].proto = "rtsp" => p = "rtsp")
  BY <1>1 DEF StartProto, Conn
<1>. HIDE DEF p
<1>3. left \in Int
  BY LenProperties
<1>4. r \in Conn
  BY <1>1, <1>2, <1>3 DEF Conn
<1>5. conn' = [conn EXCEPT ![c] = r]
  <2>1. conn' \in [Fds -> Conn]
    BY <1>1, <1>2, <1>3 DEF Wait, Conn, p
  <2>2. /\ conn'[c].second = conn[c].second /\ conn'[c].cookie = conn[c].cookie
        /\ conn'[c].base64_count = left /\ conn'[c].buf = b /\ conn'[c].proto = p
    BY <1>1 DEF Wait, Conn, p
  <2>3. conn'[c] = r
    BY <1>1, <2>1, <2>2 DEF Conn
  <2>4. \A d \in Fds : d # c => conn'[d] = conn[d]
    BY <1>1 DEF Wait
  <2>. HIDE DEF r
  <2>. QED  BY <1>1, <2>1, <2>3, <2>4
<1>6. r.base64_count \in -1 .. Len(r.buf) /\ r.second = conn[c].second
      /\ (conn[c].cookie => r.cookie) /\ (r.cookie => r.proto = "rtsp")
  BY <1>1, <1>2
<1>. HIDE DEF r
<1>. QED  BY <1>4, <1>5, <1>6, SameConn DEF Wait

\* One turn of do_read's loop.
LEMMA ReadInv ==
    ASSUME TcpInv, NEW e \in events, NEW n \in 1 .. ReqSize, Read(e, n)
    PROVE  TcpInv'
<1>. DEFINE c == e.conn
            f == e.fd
            s == SubSeq(wire[f], 1, n)
            r == Received(c, s)
            b == r.buf
<1>1. c \in Conns /\ c \in Fds /\ f \in Fds
  BY EventOf, OwnFd
<1>2. n \in 0 .. Len(wire[f])
  BY <1>1, WireLen DEF Read, TcpInv
<1>3. s \in Seq(Piece)
  BY <1>1, <1>2, SeqParts, WireLen DEF TcpInv
<1>4. b \in Seq(Piece) /\ r.left \in -1 .. Len(b)
  BY <1>1, <1>3, ReceivedType DEF TcpInv
<1>5. \/ Drop(c, f)
      \/ r.left <= 0 /\ Dispatch(c, f, n, b, r.left)
      \/ Wait(c, f, n, b, r.left)
  BY DEF Read
<1>. HIDE DEF b, r
<1>6. CASE Drop(c, f)
  BY <1>1, <1>6, DropInv
<1>7. CASE r.left <= 0 /\ Dispatch(c, f, n, b, r.left)
  <2>1. CASE IsTunnel(c, b, "post") /\ WithCookie # {}
    BY <1>2, <1>7, <2>1, AdoptInv DEF Dispatch
  <2>2. CASE ~(IsTunnel(c, b, "post") /\ WithCookie # {})
    <3>1. r.left \in -1 .. 0
      BY <1>4, <1>7, LenProperties
    <3>. QED  BY <1>1, <1>2, <1>7, <2>2, <3>1, ServedInv DEF Dispatch
  <2>. QED  BY <2>1, <2>2
<1>8. CASE Wait(c, f, n, b, r.left)
  BY <1>1, <1>2, <1>4, <1>8, WaitInv
<1>. QED  BY <1>5, <1>6, <1>7, <1>8

\* What a client sends goes to the socket.
LEMMA ClientSendsInv ==
    ASSUME TcpInv, SentType, NEW f \in Fds, NEW kind \in Kinds[f], ClientSends(f, kind)
    PROVE  TcpInv'
<1>. DEFINE n == IF kind = "tunnel" THEN Chars ELSE Parts(kind)
            u == [i \in 1 .. n |-> [item |-> sent[f] + 1, kind |-> kind, part |-> i, fd |-> f]]
<1>1. n \in Nat /\ kind \in AllKinds
  BY RequestAssumption DEF Chars, Parts
<1>2. u \in [1 .. n -> Piece]
  BY <1>1 DEF SentType, Piece
<1>3. wire[f] \in Seq(Piece) /\ u \in Seq(Piece)
  BY <1>1, <1>2, SeqByElements, WireLen DEF TcpInv
<1>4. wire[f] \o u \in Seq(Piece)
  BY <1>3, ConcatProperties
<1>5. wire' = [wire EXCEPT ![f] = wire[f] \o u] /\ UNCHANGED <<list, conn, events, opened>>
  BY DEF ClientSends
<1>. HIDE DEF u
<1>6. ConnType'
  BY <1>4, <1>5 DEF TcpInv, ConnType
<1>. QED  BY <1>5, <1>6, SameConns DEF TcpInv, TunnelsOnly

\* sent counts items.
LEMMA SentTypeInv == ASSUME SentType, [Next]_vars PROVE SentType'
<1>1. ASSUME NEW f, NEW n, NEW closed, NEW served, Sockets(f, n, closed, served)
      PROVE  SentType'
  BY <1>1 DEF SentType, Sockets
<1>2. ASSUME NEW e, SocketEnds(e) PROVE SentType'
  BY <1>1, <1>2 DEF SocketEnds, Drop
<1>3. ASSUME NEW e, NEW n, Read(e, n) PROVE SentType'
  BY <1>1, <1>3 DEF Read, Drop, Dispatch, Adopt, Wait
<1>4. ASSUME NEW f \in Fds, NEW kind, ClientSends(f, kind) PROVE SentType'
  BY <1>4 DEF SentType, ClientSends
<1>5. ASSUME NEW f \in Fds, Accept(f) PROVE SentType'
  BY <1>5 DEF SentType, Accept
<1>6. CASE UNCHANGED vars
  BY <1>6 DEF SentType, vars
<1>. QED  BY <1>2, <1>3, <1>4, <1>5, <1>6 DEF Next, ReadOn

\* Ownership is invariant.
LEMMA TcpInvariance == Spec => [](TcpInv /\ SentType)
<1>1. Init => TcpInv /\ SentType
  <2>. SUFFICES ASSUME Init PROVE TcpInv /\ SentType
    OBVIOUS
  <2>1. << >> \in Seq(Fds) /\ DOMAIN << >> = {} /\ << >> \in Seq(Piece)
    BY EmptySeq
  <2>2. Conns = {} /\ ListType
    BY <2>1 DEF Init, Conns, ListType
  <2>3. ConnType /\ SentType
    BY <2>1, FreshType DEF Init, ConnType, SentType
  <2>. QED  BY <2>2, <2>3 DEF Init, TcpInv, TunnelsOnly, SocketsOwned, EventsExact
<1>2. TcpInv /\ SentType /\ [Next]_vars => (TcpInv /\ SentType)'
  <2>. SUFFICES ASSUME TcpInv, SentType, [Next]_vars PROVE TcpInv'
    BY SentTypeInv
  <2>1. ASSUME NEW e \in events, SocketEnds(e) PROVE TcpInv'
    <3>1. CASE e.second
      BY <2>1, <3>1, SecondEndsInv
    <3>2. CASE ~e.second
      <4>1. Drop(e.conn, e.fd)
        BY <2>1, <3>2 DEF SocketEnds
      <4>. QED  BY <4>1, DropInv, EventOf, OwnFd
    <3>. QED  BY <3>1, <3>2
  <2>2. CASE UNCHANGED vars
    <3>1. ConnType' /\ UNCHANGED <<list, conn, events, opened>>
      BY <2>2 DEF vars, TcpInv, ConnType
    <3>. QED  BY <3>1, SameConns DEF TcpInv, TunnelsOnly
  <2>. QED  BY <2>1, <2>2, ClientSendsInv, AcceptInv, ReadInv DEF Next, ReadOn
<1>. QED  BY <1>1, <1>2, PTL DEF Spec

-----------------------------------------------------------------------------
\* Whatever is accepted, adopted and dropped in whatever order, every open
\* descriptor is held by exactly one connection (do_accept, handle_QT_tunnel,
\* do_read, drop_conn).
THEOREM SocketsAreOwned == Spec => []SocketsOwned
<1>1. TcpInv => SocketsOwned
  BY DEF TcpInv
<1>. QED  BY <1>1, TcpInvariance, PTL

\* Every open descriptor has one read event, for the connection that holds it.
THEOREM EventsAreRight == Spec => []EventsWatchSockets
<1>1. TcpInv => EventsWatchSockets
  <2>. SUFFICES ASSUME TcpInv PROVE EventsWatchSockets
    OBVIOUS
  <2>1. ASSUME NEW e \in events
        PROVE  e.conn \in Conns /\ e.fd = IF e.second THEN conn[e.conn].second ELSE e.conn
    BY EventOf DEF OwnEvent, SecondEvent
  <2>2. ASSUME NEW f \in opened PROVE \E e : {x \in events : x.fd = f} = {e}
    <3>1. PICK c \in Conns : f \in FdsOf(c)
      BY DEF TcpInv, SocketsOwned
    <3>2. ASSUME NEW e \in events, e.fd = f PROVE e.conn = c
      BY <3>1, <3>2, EventOf DEF TcpInv, SocketsOwned
    <3>3. c # conn[c].second
      BY DEF TcpInv, SocketsOwned
    <3>4. OwnEvent(c).fd = c /\ SecondEvent(c).fd = conn[c].second
      BY DEF OwnEvent, SecondEvent
    <3>5. CASE f = c
      <4>1. OwnEvent(c) \in events
        BY DEF TcpInv, EventsExact
      <4>2. ASSUME NEW e \in events, e.fd = f PROVE e = OwnEvent(c)
        BY <3>2, <3>3, <3>4, <3>5, <4>2, EventOf
      <4>3. {x \in events : x.fd = f} = {OwnEvent(c)}
        BY <3>4, <3>5, <4>1, <4>2
      <4>. QED  BY <4>3
    <3>6. CASE f # c
      <4>1. f = conn[c].second /\ f # None /\ SecondEvent(c) \in events
        BY <3>1, <3>6 DEF FdsOf, TcpInv, EventsExact
      <4>2. ASSUME NEW e \in events, e.fd = f PROVE e = SecondEvent(c)
        BY <3>2, <3>4, <3>6, <4>2, EventOf
      <4>3. {x \in events : x.fd = f} = {SecondEvent(c)}
        BY <3>4, <4>1, <4>2
      <4>. QED  BY <4>3
    <3>. QED  BY <3>5, <3>6
  <2>. QED  BY <2>1, <2>2, FS_Singleton DEF EventsWatchSockets
<1>. QED  BY <1>1, TcpInvariance, PTL
-----------------------------------------------------------------------------
(***************************************************************************)
(* The order of dispatch.                                                  *)
(***************************************************************************)
\* Piece q was sent over the same socket after piece p.
Later(p, q) == p.item <= q.item /\ (IsFirst(q) => p.item < q.item)

\* A socket holds pieces in the order they were sent; an item that begins in it
\* has not been dispatched.
WireOrder ==
    \A f \in Fds : \A i \in 1 .. Len(wire[f]) :
        /\ wire[f][i].fd = f
        /\ wire[f][i].item <= sent[f]
        /\ IsFirst(wire[f][i]) => wire[f][i].item > done[f]
        /\ \A j \in i + 1 .. Len(wire[f]) : Later(wire[f][i], wire[f][j])

\* A piece in the buffer of c came over a socket of c, before what that socket
\* still holds from position n + 1 on, if it is f; an item that begins with it has
\* not been dispatched.
CleanFrom(p, c, f, n) ==
    p.fd \in Fds => /\ p.fd \in FdsOf(c)
                    /\ p.item <= sent[p.fd]
                    /\ IsFirst(p) => p.item > done[p.fd]
                    /\ \A j \in 1 .. Len(wire[p.fd]) :
                          (p.fd = f => j > n) => Later(p, wire[p.fd][j])

BufOrder ==
    \A c \in Conns : \A i \in 1 .. Len(conn[c].buf) : CleanFrom(conn[c].buf[i], c, c, 0)

DoneType == done \in [Fds -> Nat] /\ \A f \in Fds : done[f] <= sent[f]

OrderInv == DoneType /\ WireOrder /\ BufOrder

\* What is decoded from a piece is no earlier and no later than it.
LEMMA CleanStems ==
    ASSUME NEW p, NEW x, NEW c, NEW f, NEW n, CleanFrom(x, c, f, n), Stems(p, x)
    PROVE  CleanFrom(p, c, f, n)
  BY DEF CleanFrom, Stems, Later, IsFirst

\* Both the pieces that were in the buffer and the n that arrive from f are earlier
\* than what is left in the sockets.
LEMMA ReadPieces ==
    ASSUME TcpInv, OrderInv, NEW c \in Conns, NEW f \in FdsOf(c), NEW n \in 0 .. Len(wire[f]),
           NEW s, s = SubSeq(wire[f], 1, n), NEW b, b = Received(c, s).buf
    PROVE  /\ b \in Seq(Piece)
           /\ \A i \in 1 .. Len(b) : CleanFrom(b[i], c, f, n)
<1>1. c \in Fds /\ f \in Fds
  BY OwnFd
<1>2. wire[f] \in Seq(Piece) /\ Len(wire[f]) \in Nat
  BY <1>1, WireLen DEF TcpInv
<1>3. s \in Seq(Piece) /\ Len(s) = n /\ \A k \in 1 .. n : s[k] = wire[f][k]
  BY <1>2, SeqParts
<1>4. /\ b \in Seq(Piece)
      /\ \A i \in 1 .. Len(b) : \/ b[i].fd = None
                                \/ \E k \in 1 .. Len(conn[c].buf) : Stems(b[i], conn[c].buf[k])
                                \/ \E k \in 1 .. Len(s) : Stems(b[i], s[k])
  <2>1. ConnType
    BY DEF TcpInv
  <2>. QED  BY <1>1, <1>3, <2>1, ReceivedType
<1>5. ASSUME NEW k \in 1 .. Len(conn[c].buf) PROVE CleanFrom(conn[c].buf[k], c, f, n)
  <2>1. CleanFrom(conn[c].buf[k], c, c, 0)
    BY <1>1 DEF OrderInv, BufOrder
  <2>2. \A g \in Fds : \A j \in 1 .. Len(wire[g]) : j > 0
    BY WireLen DEF TcpInv
  <2>. QED  BY <2>1, <2>2 DEF CleanFrom
<1>6. ASSUME NEW k \in 1 .. n PROVE CleanFrom(s[k], c, f, n)
  <2>1. /\ k \in 1 .. Len(wire[f]) /\ s[k] = wire[f][k]
        /\ \A j \in 1 .. Len(wire[f]) : j > n => j \in k + 1 .. Len(wire[f])
    BY <1>2, <1>3
  <2>. QED  BY <1>1, <2>1 DEF OrderInv, WireOrder, CleanFrom
<1>7. ASSUME NEW i \in 1 .. Len(b) PROVE CleanFrom(b[i], c, f, n)
  <2>1. CASE b[i].fd = None
    BY <2>1, RequestAssumption DEF CleanFrom
  <2>2. CASE \E k \in 1 .. Len(conn[c].buf) : Stems(b[i], conn[c].buf[k])
    BY <1>5, <2>2, CleanStems
  <2>3. CASE \E k \in 1 .. Len(s) : Stems(b[i], s[k])
    BY <1>3, <1>6, <2>3, CleanStems
  <2>. QED  BY <1>4, <2>1, <2>2, <2>3
<1>. QED  BY <1>4, <1>7

\* What Sockets does to the counters of socket g.
LEMMA SocketsEffect ==
    ASSUME NEW f \in Fds, NEW n, NEW closed, NEW served, Sockets(f, n, closed, served),
           NEW g \in Fds
    PROVE  /\ g \in closed => wire'[g] = << >> /\ sent'[g] = 0 /\ done'[g] = 0
           /\ g \notin closed =>
                /\ sent'[g] = sent[g]
                /\ done'[g] = IF \E p \in served : p.fd = g
                              THEN (CHOOSE p \in served : p.fd = g).item
                              ELSE done[g]
  BY DEF Sockets

\* What Sockets leaves in socket g: all but the first m pieces.
ShiftedBy(f, n, g, m) ==
    /\ g = f => m = n
    /\ Len(wire'[g]) = Len(wire[g]) - m /\ Len(wire'[g]) \in Nat
    /\ \A j \in 1 .. Len(wire'[g]) : /\ j + m \in 1 .. Len(wire[g])
                                     /\ wire'[g][j] = wire[g][j + m]

LEMMA SocketsShift ==
    ASSUME TcpInv, NEW f \in Fds, NEW n \in 0 .. Len(wire[f]),
           NEW closed, NEW served, Sockets(f, n, closed, served),
           NEW g \in Fds, g \notin closed
    PROVE  \E m \in Nat : ShiftedBy(f, n, g, m)
<1>1. Len(wire[f]) \in Nat /\ Len(wire[g]) \in Nat /\ wire[f] \in Seq(Piece)
  BY WireLen DEF TcpInv
<1>2. CASE g = f
  <2>1. wire'[g] = SubSeq(wire[f], n + 1, Len(wire[f]))
    BY <1>2 DEF Sockets
  <2>2. Len(wire'[g]) = Len(wire[g]) - n
        /\ \A j \in 1 .. Len(wire[g]) - n : wire'[g][j] = wire[g][n + j]
    <3>1. PICK a \in Seq(Piece) : a = wire[f]
      BY <1>1
    <3>2. n \in 0 .. Len(a)
      BY <3>1
    <3>3. /\ Len(SubSeq(a, n + 1, Len(a))) = Len(a) - n
          /\ \A j \in 1 .. Len(a) - n : SubSeq(a, n + 1, Len(a))[j] = a[n + j]
      BY <3>2, SeqParts
    <3>. QED  BY <1>2, <2>1, <3>1, <3>3
  <2>3. n \in Nat /\ Len(wire'[g]) \in Nat
        /\ \A j \in 1 .. Len(wire'[g]) : /\ j + n \in 1 .. Len(wire[g])
                                         /\ wire'[g][j] = wire[g][j + n]
    BY <1>1, <1>2, <2>2
  <2>4. ShiftedBy(f, n, g, n)
    BY <2>2, <2>3 DEF ShiftedBy
  <2>. QED  BY <2>3, <2>4
<1>3. CASE g # f
  <2>1. wire'[g] = wire[g]
    BY <1>3 DEF Sockets
  <2>2. Len(wire'[g]) = Len(wire[g]) - 0 /\ \A j \in 1 .. Len(wire[g]) : j + 0 = j
    BY <1>1, <2>1
  <2>3. \A j \in 1 .. Len(wire'[g]) : j + 0 \in 1 .. Len(wire[g]) /\ wire'[g][j] = wire[g][j + 0]
    BY <2>1, <2>2
  <2>4. ShiftedBy(f, n, g, 0)
    BY <1>1, <1>3, <2>1, <2>2, <2>3 DEF ShiftedBy
  <2>. QED  BY <2>4
<1>. QED  BY <1>2, <1>3

\* What a turn of do_read may hand to a handler: the beginning of an item of c that
\* is earlier than what the sockets still hold.
Startable(p, c, f, n) ==
    \E x \in Piece : IsFirst(x) /\ p.item = x.item /\ p.fd = x.fd /\ CleanFrom(x, c, f, n)

\* The last item of socket g after such a turn.
LEMMA DoneStep ==
    ASSUME TcpInv, SentType, OrderInv, NEW c \in Conns, NEW f \in FdsOf(c),
           NEW n \in 0 .. Len(wire[f]), NEW closed, NEW served, Sockets(f, n, closed, served),
           \A p \in served : Startable(p, c, f, n), NEW g \in Fds, g \notin closed
    PROVE  \/ done'[g] = done[g]
           \/ \E x \in Piece : /\ IsFirst(x) /\ x.fd = g /\ CleanFrom(x, c, f, n)
                               /\ done'[g] = x.item
<1>1. f \in Fds
  BY OwnFd
<1>2. done'[g] = IF \E p \in served : p.fd = g
                 THEN (CHOOSE p \in served : p.fd = g).item ELSE done[g]
  BY <1>1, SocketsEffect
<1>3. CASE \E p \in served : p.fd = g
  <2>1. PICK p \in served : p.fd = g /\ done'[g] = p.item
    BY <1>2, <1>3
  <2>. QED  BY <2>1 DEF Startable
<1>4. CASE ~ \E p \in served : p.fd = g
  BY <1>2, <1>4
<1>. QED  BY <1>3, <1>4

\* The sockets stay in order.
LEMMA SocketsOrder ==
    ASSUME TcpInv, SentType, OrderInv, NEW c \in Conns, NEW f \in FdsOf(c),
           NEW n \in 0 .. Len(wire[f]), NEW closed, NEW served, Sockets(f, n, closed, served),
           \A p \in served : Startable(p, c, f, n)
    PROVE  DoneType' /\ WireOrder'
<1>. USE DEF OrderInv
<1>1. f \in Fds
  BY OwnFd
<1>2. ASSUME NEW g \in Fds, g \in closed
      PROVE  wire'[g] = << >> /\ sent'[g] = 0 /\ done'[g] = 0
  BY <1>1, <1>2, SocketsEffect
<1>3. ASSUME NEW g \in Fds, g \notin closed
      PROVE  done'[g] \in Nat /\ done'[g] <= sent'[g]
  <2>1. sent'[g] = sent[g]
    BY <1>1, <1>3, SocketsEffect
  <2>2. ASSUME NEW x \in Piece, x.fd = g, CleanFrom(x, c, f, n)
        PROVE  x.item \in Nat /\ x.item <= sent[g]
    BY <2>2 DEF Piece, CleanFrom
  <2>. QED  BY <1>3, <2>1, <2>2, DoneStep DEF DoneType
<1>4. DoneType'
  <2>1. done' = [g \in Fds |-> done'[g]]
    BY DEF Sockets
  <2>2. \A g \in Fds : done'[g] \in Nat /\ done'[g] <= sent'[g]
    BY <1>2, <1>3
  <2>. HIDE DEF OrderInv
  <2>. QED  BY <2>1, <2>2 DEF DoneType
<1>5. ASSUME NEW g \in Fds, g \notin closed, NEW i \in 1 .. Len(wire'[g])
      PROVE  /\ wire'[g][i].fd = g
             /\ wire'[g][i].item <= sent'[g]
             /\ IsFirst(wire'[g][i]) => wire'[g][i].item > done'[g]
             /\ \A j \in i + 1 .. Len(wire'[g]) : Later(wire'[g][i], wire'[g][j])
  <2>1. PICK m \in Nat :
           /\ g = f => m = n
           /\ Len(wire'[g]) = Len(wire[g]) - m /\ Len(wire'[g]) \in Nat
           /\ \A j \in 1 .. Len(wire'[g]) : /\ j + m \in 1 .. Len(wire[g])
                                            /\ wire'[g][j] = wire[g][j + m]
    <3>1. \E m \in Nat : ShiftedBy(f, n, g, m)
      BY <1>1, <1>5, SocketsShift
    <3>. QED  BY <3>1 DEF ShiftedBy
  <2>2. sent'[g] = sent[g]
    BY <1>1, <1>5, SocketsEffect
  <2>3. /\ wire'[g][i].fd = g /\ wire'[g][i].item <= sent'[g]
        /\ IsFirst(wire'[g][i]) => wire'[g][i].item > done[g]
    <3>1. PICK k \in 1 .. Len(wire[g]) : wire'[g][i] = wire[g][k]
      BY <2>1
    <3>2. /\ wire[g][k].fd = g /\ wire[g][k].item <= sent[g]
          /\ IsFirst(wire[g][k]) => wire[g][k].item > done[g]
      BY DEF WireOrder
    <3>. QED  BY <2>2, <3>1, <3>2
  <2>4. ASSUME NEW j \in i + 1 .. Len(wire'[g]) PROVE Later(wire'[g][i], wire'[g][j])
    <3>1. /\ j \in 1 .. Len(wire'[g]) /\ j + m \in i + m + 1 .. Len(wire[g])
          /\ i + m \in 1 .. Len(wire[g])
      BY <2>1
    <3>2. Later(wire[g][i + m], wire[g][j + m])
      BY <3>1 DEF WireOrder
    <3>. QED  BY <2>1, <3>1, <3>2
  <2>5. ASSUME NEW x \in Piece, x.fd = g, CleanFrom(x, c, f, n), IsFirst(wire'[g][i])
        PROVE  wire'[g][i].item > x.item
    <3>1. i + m \in 1 .. Len(wire[g]) /\ (g = f => i + m > n) /\ wire'[g][i] = wire[g][i + m]
      BY <2>1
    <3>2. Later(x, wire[g][i + m])
      BY <2>5, <3>1 DEF CleanFrom
    <3>3. wire[g] \in Seq(Piece) /\ wire[g][i + m] \in Piece
      BY <3>1, WireLen, ElementOfSeq DEF TcpInv
    <3>4. x.item \in Nat /\ wire[g][i + m].item \in Nat
      BY <3>3 DEF Piece
    <3>. QED  BY <2>5, <3>1, <3>2, <3>4 DEF Later
  <2>6. IsFirst(wire'[g][i]) => wire'[g][i].item > done'[g]
    BY <1>5, <2>3, <2>5, DoneStep
  <2>. QED  BY <2>3, <2>4, <2>6
<1>6. WireOrder'
  <2>1. ASSUME NEW g \in Fds, g \in closed, NEW i \in 1 .. Len(wire'[g]) PROVE FALSE
    BY <1>2, <2>1, EmptySeq
  <2>2. \A g \in Fds : \A i \in 1 .. Len(wire'[g]) :
             /\ wire'[g][i].fd = g
             /\ wire'[g][i].item <= sent'[g]
             /\ IsFirst(wire'[g][i]) => wire'[g][i].item > done'[g]
             /\ \A j \in i + 1 .. Len(wire'[g]) : Later(wire'[g][i], wire'[g][j])
    BY <1>5, <2>1
  <2>. QED  BY <2>2 DEF WireOrder, IsFirst, Later, Parts
<1>. QED  BY <1>4, <1>6

\* A piece that stays in a buffer and whose socket is neither closed nor served
\* keeps its place in the order.
LEMMA CleanKept ==
    ASSUME TcpInv, SentType, OrderInv, NEW f \in Fds,
           NEW n \in 0 .. Len(wire[f]), NEW closed, NEW served, Sockets(f, n, closed, served),
           NEW p, NEW d, CleanFrom(p, d, f, n), conn'[d].second = conn[d].second,
           p.fd \in Fds => p.fd \notin closed /\ \A q \in served : q.fd # p.fd
    PROVE  CleanFrom(p, d, d, 0)'
<1>. SUFFICES ASSUME p.fd \in Fds
              PROVE  /\ p.fd \in FdsOf(d)'
                     /\ p.item <= sent'[p.fd]
                     /\ IsFirst(p) => p.item > done'[p.fd]
                     /\ \A j \in 1 .. Len(wire'[p.fd]) : Later(p, wire'[p.fd][j])
  BY DEF CleanFrom, IsFirst, Later
<1>1. PICK g \in Fds : g = p.fd /\ g \notin closed
  OBVIOUS
<1>2. PICK m \in Nat :
         /\ g = f => m = n
         /\ Len(wire'[g]) = Len(wire[g]) - m /\ Len(wire'[g]) \in Nat
         /\ \A j \in 1 .. Len(wire'[g]) : /\ j + m \in 1 .. Len(wire[g])
                                          /\ wire'[g][j] = wire[g][j + m]
  <2>1. g \in Fds /\ g \notin closed
    BY <1>1
  <2>2. \E m \in Nat : ShiftedBy(f, n, g, m)
    BY <2>1, SocketsShift
  <2>. QED  BY <2>2 DEF ShiftedBy
<1>3. sent'[g] = sent[g] /\ done'[g] = done[g]
  BY <1>1, SocketsEffect
<1>4. p.fd \in FdsOf(d)'
  BY DEF CleanFrom, FdsOf
<1>5. p.item <= sent'[p.fd] /\ (IsFirst(p) => p.item > done'[p.fd])
  BY <1>1, <1>3 DEF CleanFrom
<1>6. ASSUME NEW j \in 1 .. Len(wire'[g]) PROVE Later(p, wire'[g][j])
  <2>1. j + m \in 1 .. Len(wire[g]) /\ (g = f => j + m > n) /\ wire'[g][j] = wire[g][j + m]
    BY <1>2
  <2>. QED  BY <1>1, <2>1 DEF CleanFrom
<1>. QED  BY <1>1, <1>4, <1>5, <1>6

\* One turn of do_read leaves the buffers of the other connections alone.
LEMMA OrderStep ==
    ASSUME TcpInv, SentType, OrderInv, NEW c \in Conns, NEW f \in FdsOf(c),
           NEW n \in 0 .. Len(wire[f]), NEW closed, NEW served, Sockets(f, n, closed, served),
           \A p \in served : Startable(p, c, f, n),
           \A d \in Conns' :
              \/ d \in Conns /\ d # c /\ conn'[d] = conn[d] /\ FdsOf(d) \cap closed = {}
              \/ (\A i \in 1 .. Len(conn[d].buf) : CleanFrom(conn[d].buf[i], d, d, 0))'
    PROVE  OrderInv'
<1>1. DoneType' /\ WireOrder'
  BY SocketsOrder
<1>2. ASSUME NEW d \in Conns', d \in Conns, d # c, conn'[d] = conn[d], FdsOf(d) \cap closed = {},
             NEW i \in 1 .. Len(conn[d].buf)
      PROVE  (CleanFrom(conn[d].buf[i], d, d, 0))'
  <2>1. PICK p : p = conn[d].buf[i] /\ p = conn'[d].buf[i]
    BY <1>2
  <2>2. CleanFrom(p, d, d, 0) /\ f \in Fds /\ FdsOf(d) \cap FdsOf(c) = {}
    BY <1>2, <2>1, OwnFd DEF OrderInv, BufOrder, TcpInv, SocketsOwned
  <2>3. CleanFrom(p, d, f, n)
    <3>1. \A g \in Fds : \A j \in 1 .. Len(wire[g]) : j > 0
      BY WireLen DEF TcpInv
    <3>. QED  BY <2>2, <3>1 DEF CleanFrom
  <2>4. p.fd \in Fds => p.fd \notin closed /\ \A q \in served : q.fd # p.fd
    <3>1. \A q \in served : q.fd \in Fds => q.fd \in FdsOf(c)
      BY DEF Startable, CleanFrom
    <3>. QED  BY <1>2, <2>2, <3>1 DEF CleanFrom
  <2>5. CleanFrom(p, d, d, 0)'
    BY <1>2, <2>2, <2>3, <2>4, CleanKept
  <2>. QED  BY <2>1, <2>5
<1>3. BufOrder'
  <2>1. ASSUME NEW d \in Conns', NEW i \in 1 .. Len(conn'[d].buf)
        PROVE  (CleanFrom(conn[d].buf[i], d, d, 0))'
    BY <1>2, <2>1
  <2>. QED  BY <2>1 DEF BufOrder
<1>. QED  BY <1>1, <1>3 DEF OrderInv

-----------------------------------------------------------------------------
\* drop_conn.
LEMMA DropOrder ==
    ASSUME TcpInv, SentType, OrderInv, NEW c \in Conns, NEW f \in FdsOf(c), Drop(c, f)
    PROVE  OrderInv'
<1>1. c \in Fds /\ f \in Fds
  BY OwnFd
<1>2. ASSUME NEW d \in Conns'
      PROVE  d \in Conns /\ d # c /\ conn'[d] = conn[d] /\ FdsOf(d) \cap FdsOf(c) = {}
  <2>1. Conns' = Conns \ {c}
    BY UnlinkInv DEF Drop, TcpInv
  <2>2. d \in Conns /\ d # c /\ d \in Fds
    BY <2>1, OwnFd
  <2>. QED  BY <2>2 DEF Drop, TcpInv, ConnType, SocketsOwned
<1>3. 0 \in 0 .. Len(wire[f]) /\ Sockets(f, 0, FdsOf(c), {})
  BY <1>1, WireLen DEF Drop, TcpInv
<1>4. PICK closed : closed = FdsOf(c)
  OBVIOUS
<1>. QED  BY <1>2, <1>3, <1>4, OrderStep

\* A buffer whose pieces belong to no socket is in order.
LEMMA NobodysOrder ==
    ASSUME NEW d, \A i \in 1 .. Len(conn'[d].buf) : conn'[d].buf[i].fd = None
    PROVE  (\A i \in 1 .. Len(conn[d].buf) : CleanFrom(conn[d].buf[i], d, d, 0))'
  BY RequestAssumption DEF CleanFrom

\* The second socket of a tunnel ends.
LEMMA SecondEndsOrder ==
    ASSUME TcpInv, SentType, OrderInv, NEW e \in events, e.second, SocketEnds(e)
    PROVE  OrderInv'
<1>1. PICK c, f : c = e.conn /\ f = e.fd
  OBVIOUS
<1>2. c \in Conns /\ f \in FdsOf(c) /\ c \in Fds /\ f \in Fds
  BY <1>1, EventOf, OwnFd
<1>3. /\ conn' = [conn EXCEPT ![c].second = None, ![c].buf = Orphaned(c)]
      /\ UNCHANGED list /\ Sockets(f, 0, {f}, {})
  BY <1>1 DEF SocketEnds
<1>4. conn'[c].buf = Orphaned(c) /\ \A d \in Conns : d # c => conn'[d] = conn[d]
  BY <1>2, <1>3, OwnFd DEF TcpInv, ConnType, Conn
<1>5. (\A i \in 1 .. Len(conn[c].buf) : CleanFrom(conn[c].buf[i], c, c, 0))'
  <2>1. Len(Orphaned(c)) = Len(conn[c].buf)
        /\ \A i \in 1 .. Len(conn[c].buf) : Orphaned(c)[i].fd = None
    BY <1>2, OrphanedType DEF TcpInv
  <2>. QED  BY <1>4, <2>1, NobodysOrder
<1>6. ASSUME NEW d \in Conns', d # c
      PROVE  d \in Conns /\ conn'[d] = conn[d] /\ FdsOf(d) \cap {f} = {}
  <2>1. d \in Conns
    BY <1>3, <1>6 DEF Conns
  <2>2. FdsOf(d) \cap FdsOf(c) = {}
    BY <1>2, <1>6, <2>1 DEF TcpInv, SocketsOwned
  <2>. QED  BY <1>2, <1>4, <1>6, <2>1, <2>2
<1>7. 0 \in 0 .. Len(wire[f])
  BY <1>2, WireLen DEF TcpInv
<1>8. PICK closed : closed = {f}
  OBVIOUS
<1>9. \A d \in Conns' :
         \/ d \in Conns /\ d # c /\ conn'[d] = conn[d] /\ FdsOf(d) \cap closed = {}
         \/ (\A i \in 1 .. Len(conn[d].buf) : CleanFrom(conn[d].buf[i], d, d, 0))'
  BY <1>5, <1>6, <1>8
<1>10. Sockets(f, 0, closed, {})
  BY <1>3, <1>8
<1>. QED  BY <1>2, <1>7, <1>9, <1>10, OrderStep

\* The item at the front of the buffer may be handed to a handler.
LEMMA FrontStartable ==
    ASSUME NEW b \in Seq(Piece), Len(b) > 0, NEW c, NEW f, NEW n,
           \A i \in 1 .. Len(b) : CleanFrom(b[i], c, f, n), NEW p \in Front(b)
    PROVE  Startable(p, c, f, n)
<1>1. 1 \in 1 .. Len(b)
  BY LenProperties
<1>2. b[1] \in Piece /\ CleanFrom(b[1], c, f, n)
  BY <1>1, ElementOfSeq
<1>3. IsFirst(b[1]) /\ p.item = b[1].item /\ p.fd = b[1].fd
  BY DEF Front
<1>. QED  BY <1>2, <1>3 DEF Startable

\* handle_QT_tunnel, POST.
LEMMA AdoptOrder ==
    ASSUME TcpInv, SentType, OrderInv, NEW e \in events, NEW n \in 0 .. Len(wire[e.fd]),
           NEW b \in Seq(Piece), Len(b) > 0,
           \A i \in 1 .. Len(b) : CleanFrom(b[i], e.conn, e.fd, n),
           IsTunnel(e.conn, b, "post"), WithCookie # {}, Adopt(e.conn, e.fd, n, b)
    PROVE  OrderInv'
<1>1. PICK c, t, closed : c = e.conn /\ t = TunnelOf /\ closed = OldSecond(TunnelOf)
  OBVIOUS
<1>2. /\ t \in Conns /\ t \in Fds /\ t # c /\ c \in Conns /\ c \in Fds /\ e.fd = c
      /\ c \in FdsOf(c) /\ closed \subseteq FdsOf(t)
  BY <1>1, AdoptFacts, OwnFd DEF OldSecond, FdsOf
<1>3. /\ conn' = [conn EXCEPT ![c] = Fresh, ![t].second = c, ![t].buf = Orphaned(t)]
      /\ list' = Unlinked(c) /\ Sockets(c, n, closed, Front(b)) /\ n \in 0 .. Len(wire[c])
  BY <1>1, <1>2 DEF Adopt
<1>4. Conns' = Conns \ {c}
  BY <1>2, <1>3, UnlinkInv DEF TcpInv
<1>5. conn'[t].buf = Orphaned(t) /\ \A d \in Fds : d # t /\ d # c => conn'[d] = conn[d]
  BY <1>2, <1>3 DEF TcpInv, ConnType, Conn
<1>6. (\A i \in 1 .. Len(conn[t].buf) : CleanFrom(conn[t].buf[i], t, t, 0))'
  <2>1. Len(Orphaned(t)) = Len(conn[t].buf)
        /\ \A i \in 1 .. Len(conn[t].buf) : Orphaned(t)[i].fd = None
    BY <1>2, OrphanedType DEF TcpInv
  <2>. QED  BY <1>5, <2>1, NobodysOrder
<1>7. ASSUME NEW d \in Conns', d # t
      PROVE  d \in Conns /\ d # c /\ conn'[d] = conn[d] /\ FdsOf(d) \cap closed = {}
  BY <1>2, <1>4, <1>5, <1>7, OwnFd DEF TcpInv, SocketsOwned
<1>8. \A p \in Front(b) : Startable(p, c, c, n)
  BY <1>1, <1>2, FrontStartable
<1>9. \A d \in Conns' :
         \/ d \in Conns /\ d # c /\ conn'[d] = conn[d] /\ FdsOf(d) \cap closed = {}
         \/ (\A i \in 1 .. Len(conn[d].buf) : CleanFrom(conn[d].buf[i], d, d, 0))'
  BY <1>6, <1>7
<1>10. PICK served : served = Front(b)
  OBVIOUS
<1>11. PICK m \in 0 .. Len(wire[c]) : m = n
  BY <1>3
<1>12. Sockets(c, m, closed, served) /\ \A p \in served : Startable(p, c, c, m)
  BY <1>3, <1>8, <1>10, <1>11
<1>13. c \in Conns /\ c \in FdsOf(c)
  BY <1>2
<1>. QED  BY <1>9, <1>12, <1>13, OrderStep

\* Any other dispatch empties the buffer.
LEMMA ServedOrder ==
    ASSUME TcpInv, SentType, OrderInv, NEW c \in Conns, NEW f \in FdsOf(c),
           NEW n \in 0 .. Len(wire[f]), NEW b \in Seq(Piece), Len(b) > 0, NEW left,
           \A i \in 1 .. Len(b) : CleanFrom(b[i], c, f, n),
           conn' = [conn EXCEPT ![c] = IF IsTunnel(c, b, "get") THEN Tunnelled(c, b)
                                       ELSE Served(c, b, left)],
           Sockets(f, n, {}, Front(b)), UNCHANGED <<list, events>>
    PROVE  OrderInv'
<1>1. c \in Fds /\ conn \in [Fds -> Conn] /\ Conns' = Conns
  BY OwnFd DEF TcpInv, ConnType, Conns
<1>2. conn'[c].buf = << >>
  <2>1. PICK x \in Conn : x = conn[c]
    BY <1>1
  <2>2. [x EXCEPT !.cookie = TRUE, !.base64_count = 0, !.proto = "rtsp", !.buf = << >>].buf = << >>
    BY DEF Conn
  <2>3. \A y : [x EXCEPT !.buf = << >>, !.base64_count = left, !.proto = y].buf = << >>
    BY DEF Conn
  <2>4. Tunnelled(c, b).buf = << >>
    BY <2>1, <2>2 DEF Tunnelled, Kept
  <2>5. Served(c, b, left).buf = << >>
    BY <2>1, <2>3 DEF Served, Kept
  <2>. QED  BY <1>1, <2>4, <2>5
<1>3. (\A i \in 1 .. Len(conn[c].buf) : CleanFrom(conn[c].buf[i], c, c, 0))'
  BY <1>2, NobodysOrder
<1>4. ASSUME NEW d \in Conns', d # c
      PROVE  d \in Conns /\ conn'[d] = conn[d] /\ FdsOf(d) \cap {} = {}
  BY <1>1, <1>4, OwnFd
<1>5. \A p \in Front(b) : Startable(p, c, f, n)
  BY FrontStartable
<1>. QED  BY <1>3, <1>4, <1>5, OrderStep

\* What has arrived stays in the buffer.
LEMMA WaitOrder ==
    ASSUME TcpInv, SentType, OrderInv, NEW c \in Conns, NEW f \in FdsOf(c),
           NEW n \in 0 .. Len(wire[f]), NEW b \in Seq(Piece), NEW left,
           \A i \in 1 .. Len(b) : CleanFrom(b[i], c, f, n), Wait(c, f, n, b, left)
    PROVE  OrderInv'
<1>1. c \in Fds /\ f \in Fds /\ conn \in [Fds -> Conn] /\ Conns' = Conns /\ conn[c] \in Conn
  BY OwnFd DEF TcpInv, ConnType, Conns, Wait
<1>2. /\ conn'[c].buf = b /\ conn'[c].second = conn[c].second
      /\ \A d \in Fds : d # c => conn'[d] = conn[d]
      /\ Sockets(f, n, {}, {})
  BY <1>1 DEF Wait, Conn
<1>3. ASSUME NEW i \in 1 .. Len(b) PROVE CleanFrom(b[i], c, c, 0)'
  BY <1>1, <1>2, CleanKept
<1>4. (\A i \in 1 .. Len(conn[c].buf) : CleanFrom(conn[c].buf[i], c, c, 0))'
  BY <1>2, <1>3
<1>5. ASSUME NEW d \in Conns', d # c
      PROVE  d \in Conns /\ conn'[d] = conn[d] /\ FdsOf(d) \cap {} = {}
  BY <1>1, <1>2, <1>5, OwnFd
<1>. QED  BY <1>2, <1>4, <1>5, OrderStep

\* One turn of do_read's loop.
LEMMA ReadOrder ==
    ASSUME TcpInv, SentType, OrderInv, NEW e \in events, NEW n \in 1 .. ReqSize, Read(e, n)
    PROVE  OrderInv'
<1>0. PICK c \in Conns : c = e.conn
  BY EventOf
<1>1. PICK f \in FdsOf(c) : c = e.conn /\ f = e.fd
  BY <1>0, EventOf
<1>2. f \in Fds /\ c \in Fds
  BY OwnFd
<1>3. n \in 1 .. Len(wire[f]) /\ n \in 0 .. Len(wire[f])
  BY <1>1, <1>2, WireLen DEF Read, TcpInv
<1>4. PICK s : s = SubSeq(wire[f], 1, n)
  OBVIOUS
<1>5. PICK r : r = Received(c, s)
  OBVIOUS
<1>6. PICK b : b = r.buf
  OBVIOUS
<1>7. b \in Seq(Piece) /\ \A i \in 1 .. Len(b) : CleanFrom(b[i], c, f, n)
  BY <1>3, <1>4, <1>5, <1>6, ReadPieces
<1>8. \/ Drop(c, f)
      \/ Complete(c, b) /\ Dispatch(c, f, n, b, r.left)
      \/ Wait(c, f, n, b, r.left)
  BY <1>1, <1>4, <1>5, <1>6 DEF Read
<1>9. CASE Drop(c, f)
  BY <1>9, DropOrder
<1>10. CASE Complete(c, b) /\ Dispatch(c, f, n, b, r.left)
  <2>1. Len(b) > 0
    <3>1. Len(b) \in Nat /\ DOMAIN b = 1 .. Len(b)
      BY <1>7, LenProperties
    <3>2. PacketFirst(c, b) => Len(b) >= 2
      BY <1>10 DEF Complete, Parts
    <3>3. ~PacketFirst(c, b) => \E i \in DOMAIN b : TRUE
      BY <1>10 DEF Complete
    <3>. QED  BY <3>1, <3>2, <3>3
  <2>2. CASE IsTunnel(c, b, "post") /\ WithCookie # {}
    <3>1. Adopt(e.conn, e.fd, n, b) /\ IsTunnel(e.conn, b, "post")
      BY <1>1, <1>10, <2>2 DEF Dispatch
    <3>. QED  BY <1>1, <1>3, <1>7, <2>1, <2>2, <3>1, AdoptOrder
  <2>3. CASE ~(IsTunnel(c, b, "post") /\ WithCookie # {})
    <3>1. PICK left : left = r.left
      OBVIOUS
    <3>2. /\ conn' = [conn EXCEPT ![c] = IF IsTunnel(c, b, "get") THEN Tunnelled(c, b)
                                         ELSE Served(c, b, left)]
          /\ Sockets(f, n, {}, Front(b)) /\ UNCHANGED <<list, events>>
      BY <1>10, <2>3, <3>1 DEF Dispatch
    <3>. QED  BY <1>3, <1>7, <2>1, <3>2, ServedOrder
  <2>. QED  BY <2>2, <2>3
<1>11. CASE Wait(c, f, n, b, r.left)
  <2>1. PICK left : left = r.left
    OBVIOUS
  <2>. QED  BY <1>3, <1>7, <1>11, <2>1, WaitOrder
<1>. QED  BY <1>8, <1>9, <1>10, <1>11

\* A new connection has an empty buffer.
LEMMA AcceptOrder ==
    ASSUME TcpInv, SentType, OrderInv, NEW f \in Fds, Accept(f)
    PROVE  OrderInv'
<1>1. UNCHANGED <<wire, sent, done>> /\ f \notin Conns
  BY OwnFd DEF Accept
<1>2. DoneType' /\ WireOrder'
  BY <1>1 DEF OrderInv, DoneType, WireOrder
<1>3. Conns' \subseteq Conns \cup {f}
  <2>1. list \in Seq(Fds) /\ Len(list) \in Nat /\ DOMAIN list = 1 .. Len(list)
    BY LenProperties DEF TcpInv, ListType
  <2>2. PICK u : u = <<f>> \o list
    OBVIOUS
  <2>3. DOMAIN u = 1 .. 1 + Len(list)
        /\ \A k \in 1 .. 1 + Len(list) : u[k] = IF k <= 1 THEN f ELSE list[k - 1]
    BY <2>1, <2>2
  <2>4. ASSUME NEW k \in DOMAIN u PROVE u[k] = f \/ \E j \in DOMAIN list : u[k] = list[j]
    BY <2>1, <2>3
  <2>5. list' = u
    BY <2>2 DEF Accept
  <2>. QED  BY <2>4, <2>5 DEF Conns
<1>4. conn'[f].buf = << >> /\ \A d \in Conns : conn'[d] = conn[d]
  BY <1>1, OwnFd DEF Accept, Fresh, TcpInv, ConnType
<1>5. BufOrder'
  <2>1. (\A i \in 1 .. Len(conn[f].buf) : CleanFrom(conn[f].buf[i], f, f, 0))'
    BY <1>4, NobodysOrder
  <2>2. ASSUME NEW d \in Conns, NEW i \in 1 .. Len(conn[d].buf)
        PROVE  (CleanFrom(conn[d].buf[i], d, d, 0))'
    <3>1. CleanFrom(conn[d].buf[i], d, d, 0)
      BY DEF OrderInv, BufOrder
    <3>. QED  BY <1>1, <1>4, <3>1 DEF CleanFrom, FdsOf
  <2>3. ASSUME NEW d \in Conns'
        PROVE  (\A i \in 1 .. Len(conn[d].buf) : CleanFrom(conn[d].buf[i], d, d, 0))'
    BY <1>3, <1>4, <2>1, <2>2
  <2>. QED  BY <2>3 DEF BufOrder
<1>. QED  BY <1>2, <1>5 DEF OrderInv

\* What a client sends comes after everything it has sent.
LEMMA ClientSendsOrder ==
    ASSUME TcpInv, SentType, OrderInv, NEW f \in Fds, NEW kind \in Kinds[f], ClientSends(f, kind)
    PROVE  OrderInv'
<1>. DEFINE n == IF kind = "tunnel" THEN Chars ELSE Parts(kind)
            u == [i \in 1 .. n |-> [item |-> sent[f] + 1, kind |-> kind, part |-> i, fd |-> f]]
            L == Len(wire[f])
<1>1. n \in Nat /\ L \in Nat /\ wire[f] \in Seq(Piece) /\ kind \in AllKinds
  BY RequestAssumption, WireLen DEF Chars, Parts, TcpInv
<1>. HIDE DEF n
<1>2. u \in Seq(Piece) /\ Len(u) = n
  <2>1. u \in [1 .. n -> Piece]
    BY <1>1 DEF SentType, Piece
  <2>. QED  BY <1>1, <2>1, SeqByElements
<1>3. \A i \in 1 .. n : u[i].item = sent[f] + 1 /\ u[i].part = i /\ u[i].fd = f
  OBVIOUS
<1>4. /\ wire' = [wire EXCEPT ![f] = wire[f] \o u] /\ UNCHANGED <<list, conn, done>>
      /\ sent' = [sent EXCEPT ![f] = sent[f] + 1]
  BY DEF ClientSends, n
<1>. HIDE DEF u
<1>5. Len(wire[f] \o u) = L + n
      /\ \A j \in 1 .. L + n : (wire[f] \o u)[j] = IF j <= L THEN wire[f][j] ELSE u[j - L]
  <2>1. Len(wire[f] \o u) = Len(wire[f]) + Len(u)
        /\ \A j \in 1 .. Len(wire[f]) + Len(u) :
              (wire[f] \o u)[j] = IF j <= Len(wire[f]) THEN wire[f][j] ELSE u[j - Len(wire[f])]
    BY <1>1, <1>2, ConcatProperties
  <2>. QED  BY <1>2, <2>1
<1>6. /\ Len(wire'[f]) = L + n
      /\ \A j \in 1 .. L : wire'[f][j] = wire[f][j]
      /\ \A j \in L + 1 .. L + n : /\ wire'[f][j].item = sent[f] + 1
                                   /\ wire'[f][j].part = j - L /\ wire'[f][j].fd = f
      /\ sent'[f] = sent[f] + 1 /\ sent[f] \in Nat /\ done'[f] = done[f]
  <2>1. wire'[f] = wire[f] \o u /\ sent'[f] = sent[f] + 1 /\ sent[f] \in Nat /\ done'[f] = done[f]
    BY <1>4 DEF TcpInv, ConnType, SentType
  <2>2. \A j \in L + 1 .. L + n : j - L \in 1 .. n /\ wire'[f][j] = u[j - L]
    BY <1>1, <1>5, <2>1
  <2>3. \A j \in 1 .. L : wire'[f][j] = wire[f][j]
    BY <1>1, <1>5, <2>1
  <2>. QED  BY <1>3, <1>5, <2>1, <2>2, <2>3
<1>7. ASSUME NEW g \in Fds, g # f
      PROVE  wire'[g] = wire[g] /\ sent'[g] = sent[g] /\ done'[g] = done[g]
  BY <1>4, <1>7 DEF TcpInv, ConnType, SentType
<1>. HIDE DEF L
<1>8. DoneType'
  <2>1. done[f] \in Nat /\ done[f] <= sent[f] /\ done' = done
    BY <1>4 DEF OrderInv, DoneType
  <2>2. \A g \in Fds : done'[g] <= sent'[g]
    BY <1>6, <1>7, <2>1 DEF OrderInv, DoneType
  <2>. QED  BY <1>4, <2>2 DEF OrderInv, DoneType
<1>9. ASSUME NEW i \in 1 .. L
      PROVE  /\ wire[f][i].fd = f /\ wire[f][i].item \in Nat
             /\ wire[f][i].item <= sent[f]
             /\ IsFirst(wire[f][i]) => wire[f][i].item > done[f]
             /\ \A j \in i + 1 .. L : Later(wire[f][i], wire[f][j])
  <2>1. wire[f][i] \in Piece
    BY <1>1, ElementOfSeq DEF L
  <2>. QED  BY <2>1 DEF OrderInv, WireOrder, L, Piece
<1>10. ASSUME NEW i \in 1 .. L + n
       PROVE  /\ wire'[f][i].fd = f
              /\ wire'[f][i].item <= sent'[f]
              /\ IsFirst(wire'[f][i]) => wire'[f][i].item > done'[f]
              /\ \A j \in i + 1 .. L + n : Later(wire'[f][i], wire'[f][j])
  <2>1. done[f] \in Nat /\ done[f] <= sent[f]
    BY DEF OrderInv, DoneType
  <2>2. CASE i \in 1 .. L
    <3>1. ASSUME NEW j \in i + 1 .. L + n PROVE Later(wire[f][i], wire'[f][j])
      <4>1. CASE j \in i + 1 .. L
        <5>1. j \in 1 .. L
          BY <1>1, <2>2, <4>1
        <5>. QED  BY <1>6, <1>9, <2>2, <4>1, <5>1
      <4>2. CASE j \in L + 1 .. L + n
        BY <1>6, <1>9, <2>2, <4>2 DEF Later
      <4>. QED  BY <1>1, <2>2, <4>1, <4>2
    <3>2. wire[f][i].item <= sent[f] + 1
      BY <1>6, <1>9, <2>2
    <3>. QED  BY <1>6, <1>9, <2>2, <3>1, <3>2
  <2>3. CASE i \in L + 1 .. L + n
    <3>1. ASSUME NEW j \in i + 1 .. L + n PROVE Later(wire'[f][i], wire'[f][j])
      <4>1. j \in L + 1 .. L + n /\ j - L # 1
        BY <1>1, <2>3
      <4>. QED  BY <1>6, <2>3, <4>1 DEF Later, IsFirst
    <3>. QED  BY <1>6, <2>1, <2>3, <3>1
  <2>. QED  BY <1>1, <2>2, <2>3
<1>11. WireOrder'
  <2>1. ASSUME NEW g \in Fds, NEW i \in 1 .. Len(wire'[g])
        PROVE  /\ wire'[g][i].fd = g
               /\ wire'[g][i].item <= sent'[g]
               /\ IsFirst(wire'[g][i]) => wire'[g][i].item > done'[g]
               /\ \A j \in i + 1 .. Len(wire'[g]) : Later(wire'[g][i], wire'[g][j])
    <3>1. CASE g = f
      BY <1>6, <1>10, <3>1
    <3>2. CASE g # f
      BY <1>7, <3>2 DEF OrderInv, WireOrder
    <3>. QED  BY <3>1, <3>2
  <2>. QED  BY <2>1 DEF WireOrder, IsFirst, Later
<1>12. BufOrder'
  <2>1. ASSUME NEW c \in Conns, NEW i \in 1 .. Len(conn[c].buf)
        PROVE  (CleanFrom(conn[c].buf[i], c, c, 0))'
    <3>1. PICK p : p = conn[c].buf[i] /\ p = conn'[c].buf[i]
      BY <1>4
    <3>2. CleanFrom(p, c, c, 0) /\ p \in Piece
      <4>1. conn[c].buf \in Seq(Piece)
        BY OwnFd DEF TcpInv, ConnType, Conn
      <4>. QED  BY <3>1, <4>1, ElementOfSeq DEF OrderInv, BufOrder
    <3>3. ASSUME p.fd \in Fds
          PROVE  /\ p.fd \in FdsOf(c)' /\ p.item <= sent'[p.fd]
                 /\ IsFirst(p) => p.item > done'[p.fd]
                 /\ \A j \in 1 .. Len(wire'[p.fd]) : Later(p, wire'[p.fd][j])
      <4>1. /\ p.fd \in FdsOf(c)' /\ p.item <= sent[p.fd] /\ p.item \in Nat
            /\ IsFirst(p) => p.item > done[p.fd]
            /\ \A j \in 1 .. Len(wire[p.fd]) : Later(p, wire[p.fd][j])
        <5>1. FdsOf(c)' = FdsOf(c)
          BY <1>4 DEF FdsOf
        <5>2. \A j \in 1 .. Len(wire[p.fd]) : j > 0
          BY <3>3, WireLen DEF TcpInv
        <5>. QED  BY <3>2, <3>3, <5>1, <5>2 DEF CleanFrom, Piece
      <4>2. CASE p.fd = f
        <5>1. ASSUME NEW j \in 1 .. L + n PROVE Later(p, wire'[f][j])
          <6>1. CASE j \in 1 .. L
            BY <1>6, <4>1, <4>2, <6>1 DEF L
          <6>2. CASE j \in L + 1 .. L + n
            BY <1>6, <4>1, <4>2, <6>2 DEF Later
          <6>. QED  BY <1>1, <6>1, <6>2
        <5>2. p.item <= sent[f] + 1
          BY <1>6, <4>1, <4>2
        <5>. QED  BY <1>6, <4>1, <4>2, <5>1, <5>2
      <4>3. CASE p.fd # f
        BY <1>7, <3>3, <4>1, <4>3
      <4>. QED  BY <4>2, <4>3
    <3>4. CleanFrom(p, c, c, 0)'
      BY <3>3 DEF CleanFrom, IsFirst, Later
    <3>. QED  BY <3>1, <3>4
  <2>2. Conns' = Conns /\ \A c \in Conns : conn'[c].buf = conn[c].buf
    BY <1>4 DEF Conns
  <2>. QED  BY <2>1, <2>2 DEF BufOrder
<1>. QED  BY <1>8, <1>11, <1>12 DEF OrderInv

-----------------------------------------------------------------------------
\* However the streams are split into reads and whatever is thrown away with a
\* buffer, no item is handed to a handler after a later one of its socket, or twice
\* (do_read, parse_client_data, handle_request).
THEOREM DispatchIsInOrder == Spec => []DispatchedInOrder
<1>1. Init => OrderInv
  <2>. SUFFICES ASSUME Init PROVE OrderInv
    OBVIOUS
  <2>1. Len(<< >>) = 0 /\ DOMAIN << >> = {}
    OBVIOUS
  <2>2. Conns = {}
    BY <2>1 DEF Init, Conns
  <2>3. DoneType /\ BufOrder
    BY <2>2 DEF Init, DoneType, BufOrder
  <2>4. WireOrder
    BY <2>1 DEF Init, WireOrder
  <2>. QED  BY <2>3, <2>4 DEF OrderInv
<1>2. (TcpInv /\ SentType) /\ OrderInv /\ [Next]_vars => OrderInv'
  <2>. SUFFICES ASSUME TcpInv, SentType, OrderInv, [Next]_vars PROVE OrderInv'
    OBVIOUS
  <2>1. ASSUME NEW e \in events, SocketEnds(e) PROVE OrderInv'
    <3>1. CASE e.second
      BY <2>1, <3>1, SecondEndsOrder
    <3>2. CASE ~e.second
      <4>1. Drop(e.conn, e.fd)
        BY <2>1, <3>2 DEF SocketEnds
      <4>. QED  BY <4>1, DropOrder, EventOf
    <3>. QED  BY <3>1, <3>2
  <2>2. CASE UNCHANGED vars
    BY <2>2 DEF vars, OrderInv, DoneType, WireOrder, BufOrder, CleanFrom, Conns, FdsOf
  <2>. QED  BY <2>1, <2>2, ClientSendsOrder, AcceptOrder, ReadOrder DEF Next, ReadOn
<1>3. (TcpInv /\ SentType) /\ OrderInv => DispatchedInOrder
  <2>. SUFFICES ASSUME TcpInv, OrderInv, NEW p \in Pieces, IsFirst(p), p.fd \in Fds
                PROVE  p.item > done[p.fd]
    BY DEF DispatchedInOrder
  <2>1. ASSUME NEW c \in Conns, NEW i \in DOMAIN conn[c].buf, p = conn[c].buf[i]
        PROVE  p.item > done[p.fd]
    <3>1. i \in 1 .. Len(conn[c].buf)
      <4>1. conn[c].buf \in Seq(Piece)
        BY OwnFd DEF TcpInv, ConnType, Conn
      <4>. QED  BY <4>1, LenProperties
    <3>. QED  BY <2>1, <3>1 DEF OrderInv, BufOrder, CleanFrom
  <2>2. ASSUME NEW f \in Fds, NEW i \in DOMAIN wire[f], p = wire[f][i]
        PROVE  p.item > done[p.fd]
    <3>1. i \in 1 .. Len(wire[f])
      BY WireLen, LenProperties DEF TcpInv
    <3>. QED  BY <2>2, <3>1 DEF OrderInv, WireOrder
  <2>. QED  BY <2>1, <2>2 DEF Pieces
<1>. QED  BY <1>1, <1>2, <1>3, TcpInvariance, PTL DEF Spec
=============================================================================
