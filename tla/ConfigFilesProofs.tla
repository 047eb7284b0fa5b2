-------------------------- MODULE ConfigFilesProofs --------------------------
(***************************************************************************)
(* Proofs about ConfigFiles for any file and any requests, with updates    *)
(* that do not overlap: one writer.                                        *)
(***************************************************************************)
EXTENDS ConfigFiles, ListsProofs, TLAPS

(***************************************************************************)
(* The calls of a request: FlattenSeq stays in any set of sequences that   *)
(* is closed under concatenation.                                          *)
(***************************************************************************)
Flattens(seqs, F) ==
    F = [i \in 1 .. Len(seqs) |-> IF i = 1 THEN seqs[i] ELSE F[i - 1] \o seqs[i]]

LEMMA FlattenExists ==
    ASSUME NEW T, NEW S \in SUBSET Seq(T), \A a, b \in S : a \o b \in S,
           NEW seqs \in Seq(S), seqs # << >>
    PROVE  \E F : Flattens(seqs, F)
<1>. DEFINE n == Len(seqs)
            G == [p \in Nat \X S |-> IF p[1] + 2 \in 1 .. n THEN p[2] \o seqs[p[1] + 2] ELSE p[2]]
<1>1. n \in Nat /\ n # 0 /\ \A i \in 1 .. n : seqs[i] \in S
  BY LenProperties, ElementOfSeq, EmptySeq
<1>. HIDE DEF n
<1>2. G \in Steps(S)
  BY <1>1 DEF Steps
<1>3. \A k \in Nat, v \in S : G[<<k, v>>] = IF k + 2 \in 1 .. n THEN v \o seqs[k + 2] ELSE v
  OBVIOUS
<1>. HIDE DEF G
<1>4. PICK v0 \in S : v0 = seqs[1]
  <2>1. 1 \in 1 .. n
    BY <1>1
  <2>. QED  BY <1>1, <2>1
<1>5. PICK f : Follows(S, v0, G, f)
  BY <1>2, RecursionExists
<1>6. f \in [Nat -> S] /\ f[0] = v0 /\ \A k \in Nat : f[k + 1] = G[<<k, f[k]>>]
  BY <1>5 DEF Follows
<1>. DEFINE F == [i \in 1 .. n |-> f[i - 1]]
<1>7. ASSUME NEW i \in 1 .. n PROVE F[i] = IF i = 1 THEN seqs[i] ELSE F[i - 1] \o seqs[i]
  <2>1. CASE i = 1
    <3>1. F[1] = f[0]
      BY <1>1, <2>1
    <3>. QED  BY <1>4, <1>6, <2>1, <3>1
  <2>2. CASE i # 1
    <3>1. i - 1 \in Nat /\ i - 2 \in Nat /\ i - 2 + 1 = i - 1 /\ i - 2 + 2 = i /\ i - 1 \in 1 .. n
          /\ i - 1 - 1 = i - 2
      BY <1>1, <2>2
    <3>2. f[i - 1] = G[<<i - 2, f[i - 2]>>] /\ f[i - 2] \in S
      BY <1>6, <3>1
    <3>3. f[i - 1] = f[i - 2] \o seqs[i]
      BY <1>3, <3>1, <3>2
    <3>4. F[i] = f[i - 1] /\ F[i - 1] = f[i - 2]
      BY <3>1
    <3>. QED  BY <2>2, <3>3, <3>4
  <2>. QED  BY <2>1, <2>2
<1>8. F = [i \in 1 .. n |-> F[i]]
  OBVIOUS
<1>. HIDE DEF F
<1>9. F = [i \in 1 .. n |-> IF i = 1 THEN seqs[i] ELSE F[i - 1] \o seqs[i]]
  BY <1>7, <1>8
<1>. QED  BY <1>9 DEF Flattens, n

LEMMA FlattenIn ==
    ASSUME NEW T, NEW S \in SUBSET Seq(T), << >> \in S, \A a, b \in S : a \o b \in S,
           NEW seqs \in Seq(S)
    PROVE  FlattenSeq(seqs) \in S
<1>1. CASE seqs = << >>
  <2>1. Len(seqs) = 0
    BY <1>1
  <2>. QED  BY <1>1, <2>1 DEF FlattenSeq
<1>2. CASE seqs # << >>
  <2>1. PICK n : n = Len(seqs)
    OBVIOUS
  <2>2. n \in Nat /\ n # 0 /\ \A i \in 1 .. n : seqs[i] \in S
    BY <1>2, <2>1, LenProperties, ElementOfSeq, EmptySeq
  <2>. DEFINE flatten[i \in 1 .. Len(seqs)] == IF i = 1 THEN seqs[i] ELSE flatten[i - 1] \o seqs[i]
  <2>3. FlattenSeq(seqs) = flatten[Len(seqs)]
    BY <2>1, <2>2 DEF FlattenSeq
  <2>4. Flattens(seqs, flatten)
    <3>1. PICK F : Flattens(seqs, F)
      BY <1>2, FlattenExists
    <3>. QED  BY <3>1 DEF Flattens
  <2>5. PICK F : F = flatten
    OBVIOUS
  <2>6. Flattens(seqs, F) /\ FlattenSeq(seqs) = F[n]
    BY <2>1, <2>3, <2>4, <2>5
  <2>. HIDE DEF flatten
  <2>7. \A i \in 1 .. n : F[i] = IF i = 1 THEN seqs[i] ELSE F[i - 1] \o seqs[i]
    BY <2>1, <2>6 DEF Flattens
  <2>. DEFINE M == {m \in Nat : m + 1 <= n => F[m + 1] \in S}
  <2>8. 0 \in M
    <3>1. 0 + 1 = 1 /\ 1 \in 1 .. n
      BY <2>2
    <3>2. F[1] \in S
      BY <2>2, <2>7, <3>1
    <3>. QED  BY <3>1, <3>2
  <2>9. ASSUME NEW m \in M PROVE m + 1 \in M
    <3>1. m \in Nat /\ (m + 1 <= n => F[m + 1] \in S)
      OBVIOUS
    <3>2. ASSUME m + 1 + 1 <= n PROVE F[m + 1 + 1] \in S
      <4>1. PICK k : k = m + 1 + 1
        OBVIOUS
      <4>2. k \in 1 .. n /\ k # 1 /\ k - 1 = m + 1 /\ m + 1 <= n
        BY <2>2, <3>1, <3>2, <4>1
      <4>3. F[k] = F[k - 1] \o seqs[k] /\ F[k - 1] \in S /\ seqs[k] \in S
        BY <2>2, <2>7, <3>1, <4>2
      <4>. QED  BY <4>1, <4>3
    <3>. QED  BY <3>1, <3>2
  <2>10. M = Nat
    <3>1. M \in SUBSET Nat
      OBVIOUS
    <3>. HIDE DEF M
    <3>. QED  BY <2>8, <2>9, <3>1, InductionSet
  <2>11. n - 1 \in Nat /\ n - 1 + 1 = n
    BY <2>2
  <2>12. n - 1 \in M
    BY <2>10, <2>11
  <2>13. F[n - 1 + 1] \in S
    BY <2>11, <2>12
  <2>. QED  BY <2>6, <2>11, <2>13
<1>. QED  BY <1>1, <1>2

-----------------------------------------------------------------------------
\* A list of updates that sets a key only behind its mode and its encryption, and these
\* to one value each.
KeyLines == {"AP_AUTH_KEY", "AP_AUTH_MODE", "AP_ENCRYPT_TYPE"}
ModeCall == Call("AP_AUTH_MODE", "WPA2PSK")
EncryptCall == Call("AP_ENCRYPT_TYPE", "AES")

KeyOrder(cs) ==
    \A i \in 1 .. Len(cs) :
        /\ cs[i].name = "AP_AUTH_KEY" =>
              i - 2 \in 1 .. Len(cs) /\ cs[i - 2] = ModeCall /\ cs[i - 1] = EncryptCall
        /\ cs[i].name = "AP_AUTH_MODE" => cs[i] = ModeCall
        /\ cs[i].name = "AP_ENCRYPT_TYPE" => cs[i] = EncryptCall

KeySeqs == {cs \in Seq(Lines) : KeyOrder(cs)}

LEMMA KeySeqsClosed == ASSUME NEW a \in KeySeqs, NEW b \in KeySeqs PROVE a \o b \in KeySeqs
<1>1. a \in Seq(Lines) /\ b \in Seq(Lines) /\ KeyOrder(a) /\ KeyOrder(b)
  BY DEF KeySeqs
<1>2. PICK m, n, c : m = Len(a) /\ n = Len(b) /\ c = a \o b
  OBVIOUS
<1>3. /\ m \in Nat /\ n \in Nat /\ c \in Seq(Lines) /\ Len(c) = m + n
      /\ \A i \in 1 .. m + n : c[i] = IF i <= m THEN a[i] ELSE b[i - m]
  BY <1>1, <1>2, ConcatProperties
<1>4. ASSUME NEW i \in 1 .. m + n, c[i].name = "AP_AUTH_KEY"
      PROVE  i - 2 \in 1 .. m + n /\ c[i - 2] = ModeCall /\ c[i - 1] = EncryptCall
  <2>1. CASE i <= m
    <3>1. i \in 1 .. m /\ c[i] = a[i]
      BY <1>3, <2>1
    <3>2. i - 2 \in 1 .. m /\ a[i - 2] = ModeCall /\ a[i - 1] = EncryptCall
      BY <1>1, <1>2, <1>4, <3>1 DEF KeyOrder
    <3>3. i - 2 \in 1 .. m + n /\ i - 1 \in 1 .. m + n /\ i - 2 <= m /\ i - 1 <= m
      BY <1>3, <2>1, <3>2
    <3>. QED  BY <1>3, <3>2, <3>3
  <2>2. CASE ~(i <= m)
    <3>1. PICK j : j = i - m
      OBVIOUS
    <3>2. j \in 1 .. n /\ c[i] = b[j]
      BY <1>3, <2>2, <3>1
    <3>3. j - 2 \in 1 .. n /\ b[j - 2] = ModeCall /\ b[j - 1] = EncryptCall
      BY <1>1, <1>2, <1>4, <3>2 DEF KeyOrder
    <3>4. /\ i - 2 \in 1 .. m + n /\ i - 1 \in 1 .. m + n /\ ~(i - 2 <= m) /\ ~(i - 1 <= m)
          /\ i - 2 - m = j - 2 /\ i - 1 - m = j - 1
      BY <1>3, <2>2, <3>1, <3>2, <3>3
    <3>. QED  BY <1>3, <3>3, <3>4
  <2>. QED  BY <2>1, <2>2
<1>5. ASSUME NEW i \in 1 .. m + n
      PROVE  /\ c[i].name = "AP_AUTH_MODE" => c[i] = ModeCall
             /\ c[i].name = "AP_ENCRYPT_TYPE" => c[i] = EncryptCall
  <2>1. CASE i <= m
    <3>1. i \in 1 .. m /\ c[i] = a[i]
      BY <1>3, <2>1
    <3>. QED  BY <1>1, <1>2, <3>1 DEF KeyOrder
  <2>2. CASE ~(i <= m)
    <3>1. PICK j : j = i - m
      OBVIOUS
    <3>2. j \in 1 .. n /\ c[i] = b[j]
      BY <1>3, <2>2, <3>1
    <3>. QED  BY <1>1, <1>2, <3>2 DEF KeyOrder
  <2>. QED  BY <2>1, <2>2
<1>. QED  BY <1>2, <1>3, <1>4, <1>5 DEF KeySeqs, KeyOrder

\* What a token asks for are lines of Lines.
LEMMA AsksType ==
    ASSUME NEW by \in Served \cup {"param"}, NEW t \in Tokens
    PROVE  Asks(by, t) \in Seq(Lines)
<1>1. PICK cs : cs = Asks(by, t)
  OBVIOUS
<1>2. Range(cs) \subseteq Lines
  BY <1>1 DEF Lines
<1>3. \/ cs = <<Call(t.name, t.value)>>
      \/ cs = KeyCalls(t.value)
      \/ cs = <<Call(ApiNames[by][t.name], t.value)>>
  BY <1>1 DEF Asks
<1>4. cs \in Seq(Range(cs))
  <2>1. \A c : <<c>> \in Seq(Range(<<c>>))
    BY DEF Range
  <2>2. \A a, b, c : <<a, b, c>> \in Seq(Range(<<a, b, c>>))
    BY DEF Range
  <2>. QED  BY <1>3, <2>1, <2>2 DEF KeyCalls
<1>. QED  BY <1>1, <1>2, <1>4

LEMMA AsksInOrder ==
    ASSUME NEW by \in Served \cup {"param"}, NEW t \in Tokens, Known(by, t),
           by \in {"nabto", "param"} => t.name \notin KeyLines
    PROVE  Asks(by, t) \in KeySeqs
<1>. PICK cs, v : cs = Asks(by, t) /\ v = t.value
  OBVIOUS
<1>1. cs \in Seq(Lines)
  BY AsksType
<1>2. \A n, u : Call(n, u).name = n
  BY DEF Call
<1>3. ASSUME NEW n, cs = <<Call(n, v)>>, n \notin KeyLines PROVE KeyOrder(cs)
  BY <1>2, <1>3 DEF KeyOrder, KeyLines
<1>4. ASSUME cs = KeyCalls(v) PROVE KeyOrder(cs)
  <2>1. PICK k : k = Call("AP_AUTH_KEY", v)
    OBVIOUS
  <2>2. cs = <<ModeCall, EncryptCall, k>>
    BY <1>4, <2>1 DEF KeyCalls, ModeCall, EncryptCall
  <2>3. ModeCall.name = "AP_AUTH_MODE" /\ EncryptCall.name = "AP_ENCRYPT_TYPE" /\ k.name = "AP_AUTH_KEY"
    BY <1>2, <2>1 DEF ModeCall, EncryptCall
  <2>4. Len(cs) = 3 /\ cs[1] = ModeCall /\ cs[2] = EncryptCall /\ cs[3] = k
    BY <2>2
  <2>5. \A i \in 1 .. Len(cs) : i = 1 \/ i = 2 \/ i = 3
    BY <2>4
  <2>6. 3 - 2 = 1 /\ 3 - 1 = 2 /\ 1 \in 1 .. Len(cs)
    BY <2>4
  <2>. QED  BY <2>3, <2>4, <2>5, <2>6 DEF KeyOrder
<1>5. CASE by \in {"nabto", "param"}
  <2>1. by \notin DOMAIN ApiNames
    BY <1>5 DEF ApiNames
  <2>2. cs = <<Call(t.name, v)>>
    BY <2>1 DEF Asks
  <2>. QED  BY <1>1, <1>3, <1>5, <2>2 DEF KeySeqs
<1>6. CASE by \in {"wifi", "stream"}
  <2>1. by \in DOMAIN ApiNames /\ t.name \in DOMAIN ApiNames[by]
    BY <1>6 DEF ApiNames, Known
  <2>2. CASE t.name = "ap_key"
    BY <1>1, <1>4, <2>1, <2>2 DEF Asks, KeySeqs, Known
  <2>3. CASE t.name # "ap_key"
    <3>1. cs = <<Call(ApiNames[by][t.name], v)>>
      BY <2>1, <2>3 DEF Asks, Known
    <3>2. ApiNames[by][t.name] \notin KeyLines
      <4>1. CASE by = "wifi"
        BY <2>1, <2>3, <4>1 DEF ApiNames, KeyLines
      <4>2. CASE by = "stream"
        BY <2>1, <2>3, <4>2 DEF ApiNames, KeyLines
      <4>. QED  BY <1>6, <4>1, <4>2
    <3>. QED  BY <1>1, <1>3, <3>1, <3>2 DEF KeySeqs
  <2>. QED  BY <2>2, <2>3
<1>. QED  BY <1>5, <1>6 DEF Served

-----------------------------------------------------------------------------
\* The place where the loop over the tokens ends.
LEMMA TokensOf ==
    ASSUME NEW w \in Writers, NEW req \in Requests[w]
    PROVE  /\ req.by \in Served \cup {"param"} /\ req.tokens \in Seq(Tokens)
           /\ Len(req.tokens) \in Nat /\ DOMAIN req.tokens = 1 .. Len(req.tokens)
           /\ \A i \in 1 .. Len(req.tokens) : req.tokens[i] \in Tokens
<1>1. req.by \in Served \cup {"param"} /\ req.tokens \in Seq(Tokens)
  BY ContentAssumption
<1>. QED  BY <1>1, LenProperties, ElementOfSeq

LEMMA FirstFacts ==
    ASSUME NEW req, Len(req.tokens) \in Nat, NEW S \in SUBSET (1 .. Len(req.tokens))
    PROVE  /\ First(S, req) \in 0 .. Len(req.tokens)
           /\ S = {} => First(S, req) = Len(req.tokens)
           /\ S # {} => First(S, req) = Min(S) /\ Min(S) \in S /\ \A j \in S : Min(S) <= j
<1>1. CASE S # {}
  <2>1. PICK i \in S : \A j \in S : i <= j
    <3>1. S \in SUBSET Nat
      OBVIOUS
    <3>. QED  BY <1>1, <3>1, LeastIndex
  <2>2. Min(S) \in S /\ \A j \in S : Min(S) <= j
    BY <2>1 DEF Min
  <2>3. First(S, req) = Min(S)
    BY <1>1 DEF First
  <2>4. PICK k, l : k = Min(S) /\ l = Len(req.tokens)
    OBVIOUS
  <2>5. l \in Nat /\ k \in 1 .. l
    BY <2>2, <2>4
  <2>6. k \in 0 .. l
    BY <2>5
  <2>. QED  BY <1>1, <2>2, <2>3, <2>4, <2>6
<1>2. CASE S = {}
  BY <1>2 DEF First
<1>. QED  BY <1>1, <1>2

LEMMA UpdatesIn ==
    ASSUME NEW w \in Writers, NEW req \in Requests[w], NEW n \in 0 .. Len(req.tokens),
           NEW S \in SUBSET Seq(Lines), << >> \in S, \A a, b \in S : a \o b \in S,
           \A i \in 1 .. n : Asks(req.by, req.tokens[i]) \in S
    PROVE  Updates(req, n) \in S
<1>1. PICK seqs : seqs = [i \in 1 .. n |-> Asks(req.by, req.tokens[i])]
  OBVIOUS
<1>2. n \in Nat
  BY TokensOf
<1>3. seqs \in [1 .. n -> S]
  BY <1>1
<1>4. seqs \in Seq(S)
  BY <1>2, <1>3, SeqDef
<1>5. FlattenSeq(seqs) \in S
  BY <1>4, FlattenIn
<1>. QED  BY <1>1, <1>5 DEF Updates

LEMMA UpdatesType ==
    ASSUME NEW w \in Writers, NEW req \in Requests[w], NEW n \in 0 .. Len(req.tokens)
    PROVE  Updates(req, n) \in Seq(Lines)
<1>1. ASSUME NEW i \in 1 .. n PROVE Asks(req.by, req.tokens[i]) \in Seq(Lines)
  <2>1. i \in 1 .. Len(req.tokens)
    BY TokensOf
  <2>. QED  BY <2>1, TokensOf, AsksType
<1>2. PICK S : S = Seq(Lines)
  OBVIOUS
<1>3. S \in SUBSET Seq(Lines) /\ << >> \in S /\ \A a, b \in S : a \o b \in S
  BY <1>2, EmptySeq, ConcatProperties
<1>4. \A i \in 1 .. n : Asks(req.by, req.tokens[i]) \in S
  BY <1>1, <1>2
<1>5. Updates(req, n) \in S
  BY <1>3, <1>4, UpdatesIn
<1>. QED  BY <1>2, <1>5

\* How many tokens lead to calls: all of them are accepted, and if the request is to be
\* answered 0 they are those in front of the first that cuts it off.
LEMMA CallsFacts ==
    ASSUME NEW w \in Writers, NEW req \in Requests[w]
    PROVE  /\ \E n \in 0 .. Len(req.tokens) :
                 /\ CallsOf(req) = Updates(req, n)
                 /\ \A i \in 1 .. n : Accepted(req.by, req.tokens[i])
           /\ VerdictOf(req) \in {"fail", "success"}
           /\ VerdictOf(req) = "success" => CallsOf(req) = Updates(req, First(Cuts(req), req))
<1>1. PICK l, m, S, C : /\ l = Len(req.tokens) /\ m = First(Stops(req), req)
                        /\ S = Stops(req) /\ C = Cuts(req)
  OBVIOUS
<1>2. l \in Nat /\ DOMAIN req.tokens = 1 .. l
  BY <1>1, TokensOf
<1>3. S \in SUBSET (1 .. l) /\ C \in SUBSET S
  BY <1>1, <1>2 DEF Stops, Cuts
<1>4. \A i \in 1 .. l : i \notin S => Accepted(req.by, req.tokens[i])
  BY <1>1, <1>2 DEF Stops
<1>5. \A i \in C : Accepted(req.by, req.tokens[i])
  BY <1>1 DEF Cuts
<1>6. /\ m \in 0 .. l /\ (S = {} => m = l)
      /\ S # {} => m = Min(S) /\ m \in S /\ \A j \in S : m <= j
  BY <1>1, <1>2, <1>3, FirstFacts
<1>7. PICK n : n = IF m # 0 /\ ~Accepted(req.by, req.tokens[m]) THEN m - 1 ELSE m
  OBVIOUS
<1>8. CallsOf(req) = Updates(req, n)
  BY <1>1, <1>7 DEF CallsOf
<1>9. n \in 0 .. l /\ n <= m /\ (n = m \/ n = m - 1)
  <2>1. m \in Nat /\ m <= l
    BY <1>2, <1>6
  <2>2. CASE n = m
    BY <1>2, <2>1, <2>2
  <2>3. CASE n # m
    <3>1. m # 0 /\ n = m - 1
      BY <1>7, <2>3
    <3>. QED  BY <1>2, <2>1, <3>1
  <2>. QED  BY <2>2, <2>3
<1>10. ASSUME NEW i \in 1 .. n PROVE Accepted(req.by, req.tokens[i])
  <2>1. i \in 1 .. l /\ i <= m
    BY <1>2, <1>6, <1>9
  <2>2. CASE i = m
    <3>1. n = m /\ m # 0
      BY <1>6, <1>9, <2>2
    <3>. QED  BY <1>7, <2>2, <3>1, <1>9, <1>6
  <2>3. CASE i # m
    <3>1. i \notin S
      BY <1>6, <2>1, <2>3
    <3>. QED  BY <1>4, <2>1, <3>1
  <2>. QED  BY <2>2, <2>3
<1>11. ASSUME VerdictOf(req) = "success" PROVE n = First(C, req)
  <2>1. S = {} \/ Min(S) \in C
    BY <1>1, <1>11 DEF VerdictOf
  <2>2. CASE S = {}
    <3>1. C = {} /\ First(C, req) = l /\ m = l
      BY <1>1, <1>2, <1>3, <1>6, <2>2, FirstFacts
    <3>2. m # 0 => Accepted(req.by, req.tokens[m])
      BY <1>2, <1>4, <2>2, <3>1
    <3>. QED  BY <1>7, <3>1, <3>2
  <2>3. CASE S # {}
    <3>1. m \in C /\ n = m
      BY <1>5, <1>6, <1>7, <2>1, <2>3
    <3>2. C \in SUBSET (1 .. l) /\ C # {}
      BY <1>3, <3>1
    <3>3. First(C, req) \in C /\ \A j \in C : First(C, req) <= j
      BY <1>1, <1>2, <3>2, FirstFacts
    <3>4. PICK f : f = First(C, req)
      OBVIOUS
    <3>5. f \in 1 .. l /\ f \in S /\ m \in 1 .. l
      BY <1>3, <3>1, <3>2, <3>3, <3>4
    <3>6. f <= m /\ m <= f
      BY <1>6, <2>3, <3>1, <3>3, <3>4, <3>5
    <3>7. f = m
      BY <1>2, <3>5, <3>6
    <3>. QED  BY <3>1, <3>4, <3>7
  <2>. QED  BY <2>2, <2>3
<1>12. VerdictOf(req) \in {"fail", "success"}
  BY DEF VerdictOf
<1>. QED  BY <1>1, <1>8, <1>9, <1>10, <1>11, <1>12

LEMMA CallsType ==
    ASSUME NEW w \in Writers, NEW req \in Requests[w]
    PROVE  /\ CallsOf(req) \in Seq(Lines)
           /\ Updates(req, First(Cuts(req), req)) \in Seq(Lines)
<1>1. CallsOf(req) \in Seq(Lines)
  BY CallsFacts, UpdatesType
<1>2. Cuts(req) \in SUBSET (1 .. Len(req.tokens)) /\ Len(req.tokens) \in Nat
  BY TokensOf DEF Cuts
<1>3. First(Cuts(req), req) \in 0 .. Len(req.tokens)
  BY <1>2, FirstFacts
<1>. QED  BY <1>1, <1>3, UpdatesType

LEMMA ReplacedType ==
    ASSUME NEW c \in Contents, NEW p \in Lines PROVE Replaced(c, p) \in Contents
<1>1. DOMAIN c = DOMAIN Initial /\ \A l \in DOMAIN Initial : c[l] \in Lines
  BY DEF Contents
<1>. QED  BY <1>1 DEF Replaced, Contents

LEMMA InitialContent == Initial \in Contents
<1>1. Initial \in Seq(Lines)
  BY ContentAssumption
<1>2. Initial \in [1 .. Len(Initial) -> Lines] /\ DOMAIN Initial = 1 .. Len(Initial)
  BY <1>1, LenProperties
<1>. QED  BY <1>2 DEF Contents

-----------------------------------------------------------------------------
(***************************************************************************)
(* The inductive invariant, for writer w.                                  *)
(***************************************************************************)
WriteSteps == {"idle", "read", "write", "copy", "close", "remove", "rename", "sync"}

TypeInv ==
    /\ dir \in [Names -> Inodes \cup {NoFile}]
    /\ data \in [Inodes -> Contents \cup {Empty}]
    /\ disk \in [Names -> Contents \cup {Empty, NoFile}]
    /\ at \in [Writers -> WriteSteps]
    /\ calls \in [Writers -> Seq(Lines)]
    /\ verdict \in [Writers -> {"fail", "success"}]
    /\ old \in [Writers -> Inodes \cup {NoFile}]
    /\ new \in [Writers -> Inodes \cup {NoFile}]
    /\ text \in [Writers -> Contents \cup {Empty}]
    /\ asked \in [Writers -> Seq(Lines)]
    /\ found \in [Writers -> Contents]
    /\ answer \in [Writers -> {"none", "fail", "success"}]
    /\ settled \in Contents
    /\ wiped \in BOOLEAN

\* What the current call of w makes of the settled content.
NextOf(w) == Replaced(settled, Head(calls[w]))

\* The two names, step by step.
NamesInv(w) ==
    /\ dir["config"] # NoFile => dir["config"] # dir["new"]
    /\ at[w] # "idle" => calls[w] # << >>
    /\ at[w] \in {"idle", "read", "write", "copy", "close", "remove"} /\ dir["config"] # NoFile
          => data[dir["config"]] = settled
    /\ at[w] \notin {"copy", "close"} => new[w] = NoFile
    /\ at[w] = "write" => old[w] = dir["config"]
    /\ at[w] \in {"copy", "close"} => /\ dir["config"] # NoFile /\ old[w] = dir["config"]
                                      /\ dir["new"] # NoFile /\ new[w] = dir["new"]
    /\ at[w] = "close" => text[w] = NextOf(w)
    /\ at[w] = "remove" => dir["config"] # NoFile
    /\ at[w] = "rename" => dir["config"] = NoFile
    /\ at[w] \in {"remove", "rename"} => dir["new"] # NoFile /\ data[dir["new"]] = NextOf(w)
    /\ at[w] = "sync" => /\ dir["config"] # NoFile /\ data[dir["config"]] = NextOf(w)
                         /\ dir["new"] = NoFile

\* What is written out.
DiskInv(w) == \/ disk["config"] \in {NoFile, settled}
              \/ at[w] = "sync" /\ disk["config"] = NextOf(w)

\* The copy of the file that is left.
CopyInv(w) ==
    ~wiped => /\ at[w] \in {"idle", "read", "write"} /\ dir["config"] = NoFile
                    => dir["new"] # NoFile /\ data[dir["new"]] \in Contents
              /\ disk["config"] \in Contents \/ disk["new"] \in Contents

\* Checked by TLC on MCConfigFiles.cfg, proved below for one writer.
FileInv == TypeInv /\ \A w \in Writers : NamesInv(w) /\ DiskInv(w) /\ CopyInv(w)

-----------------------------------------------------------------------------
LEMMA NowFacts ==
    ASSUME TypeInv
    PROVE  /\ Now \in [Names -> Contents \cup {Empty, NoFile}]
           /\ Now["config"] = IF dir["config"] = NoFile THEN NoFile ELSE data[dir["config"]]
           /\ Now["new"] = IF dir["new"] = NoFile THEN NoFile ELSE data[dir["new"]]
<1>1. ASSUME NEW n \in Names
      PROVE  (IF dir[n] = NoFile THEN NoFile ELSE data[dir[n]]) \in Contents \cup {Empty, NoFile}
  BY DEF TypeInv
<1>. QED  BY <1>1 DEF Now, Names

LEMMA CallFacts ==
    ASSUME NEW w \in Writers, TypeInv, NamesInv(w), at[w] # "idle"
    PROVE  /\ calls[w] \in Seq(Lines) /\ calls[w] # << >>
           /\ Head(calls[w]) \in Lines /\ Head(calls[w]) = calls[w][1]
           /\ Tail(calls[w]) \in Seq(Lines) /\ NextOf(w) \in Contents
<1>1. calls[w] \in Seq(Lines) /\ calls[w] # << >> /\ settled \in Contents
  BY DEF TypeInv, NamesInv
<1>2. Head(calls[w]) \in Lines /\ Head(calls[w]) = calls[w][1] /\ Tail(calls[w]) \in Seq(Lines)
  BY <1>1, HeadTailProperties
<1>. QED  BY <1>1, <1>2, ReplacedType DEF NextOf

LEMMA InitKeeps == ASSUME Init PROVE FileInv
<1>1. Initial \in Contents /\ 1 \in Inodes /\ NoFile \notin Inodes
  BY ConfigAssumption, InitialContent
<1>2. TypeInv
  <2>1. dir \in [Names -> Inodes \cup {NoFile}] /\ data \in [Inodes -> Contents \cup {Empty}]
    BY <1>1 DEF Init
  <2>2. disk \in [Names -> Contents \cup {Empty, NoFile}] /\ settled \in Contents /\ wiped \in BOOLEAN
    BY <1>1 DEF Init
  <2>3. << >> \in Seq(Lines)
    BY EmptySeq
  <2>4. found \in [Writers -> Contents]
    BY <1>1 DEF Init
  <2>. QED  BY <2>1, <2>2, <2>3, <2>4 DEF Init, TypeInv, WriteSteps
<1>3. /\ dir["config"] = 1 /\ dir["new"] = NoFile /\ data[1] = Initial
      /\ disk["config"] = Initial /\ settled = Initial
  BY <1>1 DEF Init, Names
<1>4. ASSUME NEW w \in Writers PROVE NamesInv(w) /\ DiskInv(w) /\ CopyInv(w)
  <2>1. at[w] = "idle" /\ new[w] = NoFile
    BY DEF Init
  <2>2. NamesInv(w)
    BY <1>1, <1>3, <2>1 DEF NamesInv
  <2>. QED  BY <1>1, <1>3, <2>1, <2>2 DEF DiskInv, CopyInv
<1>. QED  BY <1>2, <1>4 DEF FileInv

LEMMA BeginKeeps ==
    ASSUME NEW w, Writers = {w}, FileInv, Begin(w) PROVE FileInv'
<1>1. TypeInv /\ NamesInv(w) /\ DiskInv(w) /\ CopyInv(w) /\ at[w] = "idle" /\ w \in Writers
  BY DEF FileInv, Begin
<1>2. PICK req \in Requests[w] :
          /\ calls' = [calls EXCEPT ![w] = CallsOf(req)]
          /\ asked' = [asked EXCEPT ![w] = Updates(req, First(Cuts(req), req))]
          /\ verdict' = [verdict EXCEPT ![w] = VerdictOf(req)]
          /\ at' = [at EXCEPT ![w] = IF CallsOf(req) = << >> THEN "idle" ELSE "read"]
          /\ answer' = [answer EXCEPT ![w] = IF CallsOf(req) = << >> THEN VerdictOf(req)
                                             ELSE "none"]
  BY DEF Begin
<1>3. PICK cs : cs = CallsOf(req)
  OBVIOUS
<1>4. cs \in Seq(Lines) /\ Updates(req, First(Cuts(req), req)) \in Seq(Lines)
  BY <1>1, <1>3, CallsType
<1>5. VerdictOf(req) \in {"fail", "success"}
  BY <1>1, CallsFacts
<1>6. /\ calls'[w] = cs /\ at'[w] \in {"idle", "read"} /\ (at'[w] = "read" => cs # << >>)
      /\ UNCHANGED <<dir, data, disk, old, new, text, settled, wiped>>
  BY <1>1, <1>2, <1>3 DEF TypeInv, Begin
<1>7. TypeInv'
  <2>1. calls' \in [Writers -> Seq(Lines)] /\ asked' \in [Writers -> Seq(Lines)]
    BY <1>1, <1>2, <1>3, <1>4 DEF TypeInv
  <2>2. verdict' \in [Writers -> {"fail", "success"}]
    BY <1>1, <1>2, <1>5 DEF TypeInv
  <2>3. at' \in [Writers -> WriteSteps]
    BY <1>1, <1>2 DEF TypeInv, WriteSteps
  <2>4. answer' \in [Writers -> {"none", "fail", "success"}]
    BY <1>1, <1>2, <1>5 DEF TypeInv
  <2>5. found' \in [Writers -> Contents]
    BY <1>1 DEF TypeInv, Begin
  <2>. QED  BY <1>1, <1>6, <2>1, <2>2, <2>3, <2>4, <2>5 DEF TypeInv
<1>8. NamesInv(w)'
  BY <1>1, <1>6 DEF NamesInv
<1>9. DiskInv(w)' /\ CopyInv(w)'
  BY <1>1, <1>6 DEF DiskInv, CopyInv
<1>. QED  BY <1>7, <1>8, <1>9 DEF FileInv

LEMMA OpenOldKeeps ==
    ASSUME NEW w, Writers = {w}, FileInv, OpenOld(w) PROVE FileInv'
<1>1. TypeInv /\ NamesInv(w) /\ DiskInv(w) /\ CopyInv(w) /\ at[w] = "read" /\ w \in Writers
  BY DEF FileInv, OpenOld
<1>2. /\ at'[w] = "write" /\ old'[w] = dir["config"]
      /\ UNCHANGED <<dir, data, disk, calls, verdict, new, text, asked, found, answer, settled, wiped>>
  BY <1>1 DEF TypeInv, OpenOld
<1>3. TypeInv'
  <2>1. at' \in [Writers -> WriteSteps]
    BY <1>1 DEF TypeInv, OpenOld, WriteSteps
  <2>2. old' \in [Writers -> Inodes \cup {NoFile}]
    BY <1>1 DEF TypeInv, OpenOld, Names
  <2>. QED  BY <1>1, <1>2, <2>1, <2>2 DEF TypeInv
<1>4. NamesInv(w)'
  BY <1>1, <1>2 DEF NamesInv
<1>5. DiskInv(w)' /\ CopyInv(w)'
  BY <1>1, <1>2 DEF DiskInv, CopyInv
<1>. QED  BY <1>3, <1>4, <1>5 DEF FileInv

LEMMA OpenNewFailsKeeps ==
    ASSUME NEW w, Writers = {w}, FileInv, OpenNewFails(w) PROVE FileInv'
<1>1. TypeInv /\ NamesInv(w) /\ DiskInv(w) /\ CopyInv(w) /\ at[w] = "write" /\ w \in Writers
  BY DEF FileInv, OpenNewFails
<1>2. /\ at'[w] = "idle"
      /\ UNCHANGED <<dir, data, disk, calls, verdict, new, text, asked, found, settled, wiped>>
  BY <1>1 DEF TypeInv, OpenNewFails
<1>3. TypeInv'
  <2>1. at' \in [Writers -> WriteSteps]
    BY <1>1 DEF TypeInv, OpenNewFails, WriteSteps
  <2>2. old' \in [Writers -> Inodes \cup {NoFile}]
    BY <1>1 DEF TypeInv, OpenNewFails
  <2>3. answer' \in [Writers -> {"none", "fail", "success"}]
    BY <1>1 DEF TypeInv, OpenNewFails
  <2>. QED  BY <1>1, <1>2, <2>1, <2>2, <2>3 DEF TypeInv
<1>4. NamesInv(w)'
  BY <1>1, <1>2 DEF NamesInv
<1>5. DiskInv(w)' /\ CopyInv(w)'
  BY <1>1, <1>2 DEF DiskInv, CopyInv
<1>. QED  BY <1>3, <1>4, <1>5 DEF FileInv

LEMMA OpenNewKeeps ==
    ASSUME NEW w, Writers = {w}, FileInv, OpenNew(w) PROVE FileInv'
<1>1. TypeInv /\ NamesInv(w) /\ DiskInv(w) /\ CopyInv(w) /\ at[w] = "write" /\ w \in Writers
  BY DEF FileInv, OpenNew
<1>2. PICK i : i = IF dir["new"] = NoFile THEN FreeInode ELSE dir["new"]
  OBVIOUS
<1>3. /\ dir["config"] \in Inodes \cup {NoFile} /\ dir["new"] \in Inodes \cup {NoFile}
      /\ old[w] = dir["config"] /\ new[w] = NoFile
  BY <1>1 DEF TypeInv, NamesInv, Names
<1>4. i \in Inodes /\ i # NoFile /\ i # dir["config"]
  <2>1. CASE dir["new"] # NoFile
    BY <1>1, <1>2, <1>3, <2>1, ConfigAssumption DEF NamesInv
  <2>2. CASE dir["new"] = NoFile
    <3>1. InUse = {dir["config"], NoFile}
      BY <1>3, <2>2 DEF InUse, Names
    <3>2. \E k \in Inodes : k \notin InUse
      BY <3>1, ConfigAssumption
    <3>3. FreeInode \in Inodes /\ FreeInode \notin InUse
      BY <3>2 DEF FreeInode
    <3>. QED  BY <1>2, <2>2, <3>1, <3>3
  <2>. QED  BY <2>1, <2>2
<1>5. /\ dir' = [dir EXCEPT !["new"] = i] /\ data' = [data EXCEPT ![i] = Empty]
      /\ UNCHANGED <<disk, calls, verdict, old, text, asked, found, settled>>
  BY <1>2 DEF OpenNew
<1>6. /\ dir'["config"] = dir["config"] /\ dir'["new"] = i
      /\ dir["config"] # NoFile => data'[dir["config"]] = data[dir["config"]]
  BY <1>1, <1>3, <1>4, <1>5 DEF TypeInv, Names
<1>7. dir' \in [Names -> Inodes \cup {NoFile}] /\ data' \in [Inodes -> Contents \cup {Empty}]
  BY <1>1, <1>4, <1>5 DEF TypeInv
<1>8. CASE old[w] = NoFile
  <2>1. /\ at' = [at EXCEPT ![w] = "idle"] /\ answer' = [answer EXCEPT ![w] = "fail"]
        /\ wiped' = TRUE /\ new' = new
    BY <1>8 DEF OpenNew
  <2>2. at'[w] = "idle" /\ at' \in [Writers -> WriteSteps]
    BY <1>1, <2>1 DEF TypeInv, WriteSteps
  <2>3. answer' \in [Writers -> {"none", "fail", "success"}]
    BY <1>1, <2>1 DEF TypeInv
  <2>4. TypeInv'
    BY <1>1, <1>5, <1>7, <2>1, <2>2, <2>3 DEF TypeInv
  <2>5. NamesInv(w)'
    BY <1>1, <1>3, <1>4, <1>5, <1>6, <1>8, <2>1, <2>2 DEF NamesInv
  <2>6. DiskInv(w)' /\ CopyInv(w)'
    BY <1>1, <1>5, <2>1, <2>2 DEF DiskInv, CopyInv
  <2>. QED  BY <2>4, <2>5, <2>6 DEF FileInv
<1>9. CASE old[w] # NoFile
  <2>1. /\ at' = [at EXCEPT ![w] = "copy"] /\ new' = [new EXCEPT ![w] = i]
        /\ UNCHANGED <<answer, wiped>>
    BY <1>2, <1>9 DEF OpenNew
  <2>2. at'[w] = "copy" /\ at' \in [Writers -> WriteSteps]
    BY <1>1, <2>1 DEF TypeInv, WriteSteps
  <2>3. new'[w] = i /\ new' \in [Writers -> Inodes \cup {NoFile}]
    BY <1>1, <1>4, <2>1 DEF TypeInv
  <2>4. TypeInv'
    BY <1>1, <1>5, <1>7, <2>1, <2>2, <2>3 DEF TypeInv
  <2>5. NamesInv(w)'
    BY <1>1, <1>3, <1>4, <1>5, <1>6, <1>9, <2>2, <2>3 DEF NamesInv
  <2>6. DiskInv(w)' /\ CopyInv(w)'
    BY <1>1, <1>5, <2>1, <2>2 DEF DiskInv, CopyInv
  <2>. QED  BY <2>4, <2>5, <2>6 DEF FileInv
<1>. QED  BY <1>8, <1>9

LEMMA CopyKeeps ==
    ASSUME NEW w, Writers = {w}, FileInv, Copy(w) PROVE FileInv'
<1>1. TypeInv /\ NamesInv(w) /\ DiskInv(w) /\ CopyInv(w) /\ at[w] = "copy" /\ w \in Writers
  BY DEF FileInv, Copy, Goes
<1>2. /\ at' = [at EXCEPT ![w] = "close"]
      /\ UNCHANGED <<dir, data, disk, calls, verdict, old, new, asked, found, answer, settled, wiped>>
  BY DEF Copy, Goes, Then
<1>3. at'[w] = "close" /\ at' \in [Writers -> WriteSteps]
  BY <1>1, <1>2 DEF TypeInv, WriteSteps
<1>4. text' = [text EXCEPT ![w] = NextOf(w)] /\ NextOf(w) \in Contents
  <2>1. data[old[w]] = settled
    BY <1>1 DEF NamesInv
  <2>. QED  BY <1>1, <2>1, CallFacts DEF Copy, NextOf
<1>5. text'[w] = NextOf(w) /\ text' \in [Writers -> Contents \cup {Empty}]
  BY <1>1, <1>4 DEF TypeInv
<1>6. TypeInv'
  BY <1>1, <1>2, <1>3, <1>5 DEF TypeInv
<1>7. NextOf(w)' = NextOf(w)
  BY <1>2 DEF NextOf
<1>8. NamesInv(w)'
  BY <1>1, <1>2, <1>3, <1>5, <1>7 DEF NamesInv
<1>9. DiskInv(w)' /\ CopyInv(w)'
  BY <1>1, <1>2, <1>3 DEF DiskInv, CopyInv
<1>. QED  BY <1>6, <1>8, <1>9 DEF FileInv

LEMMA CloseKeeps ==
    ASSUME NEW w, Writers = {w}, FileInv, Close(w) PROVE FileInv'
<1>1. TypeInv /\ NamesInv(w) /\ DiskInv(w) /\ CopyInv(w) /\ at[w] = "close" /\ w \in Writers
  BY DEF FileInv, Close, Goes
<1>2. /\ at' = [at EXCEPT ![w] = "remove"]
      /\ UNCHANGED <<dir, disk, calls, verdict, asked, found, answer, settled, wiped>>
      /\ old' = [old EXCEPT ![w] = NoFile] /\ new' = [new EXCEPT ![w] = NoFile]
      /\ text' = [text EXCEPT ![w] = Empty]
  BY DEF Close, Goes, Then
<1>3. at'[w] = "remove" /\ at' \in [Writers -> WriteSteps]
  BY <1>1, <1>2 DEF TypeInv, WriteSteps
<1>4. /\ new[w] = dir["new"] /\ text[w] = NextOf(w) /\ dir["config"] # dir["new"]
      /\ dir["config"] # NoFile /\ dir["new"] # NoFile
  BY <1>1 DEF NamesInv
<1>5. dir["config"] \in Inodes /\ dir["new"] \in Inodes
  BY <1>1, <1>4 DEF TypeInv, Names
<1>6. data' = [data EXCEPT ![dir["new"]] = NextOf(w)] /\ NextOf(w) \in Contents
  BY <1>1, <1>4, CallFacts DEF Close
<1>7. /\ data'[dir["new"]] = NextOf(w) /\ data'[dir["config"]] = data[dir["config"]]
      /\ data' \in [Inodes -> Contents \cup {Empty}]
  BY <1>1, <1>4, <1>5, <1>6 DEF TypeInv
<1>8. TypeInv'
  <2>1. /\ old' \in [Writers -> Inodes \cup {NoFile}] /\ new' \in [Writers -> Inodes \cup {NoFile}]
        /\ text' \in [Writers -> Contents \cup {Empty}]
    BY <1>1, <1>2 DEF TypeInv
  <2>. QED  BY <1>1, <1>2, <1>3, <1>7, <2>1 DEF TypeInv
<1>9. new'[w] = NoFile /\ NextOf(w)' = NextOf(w)
  BY <1>1, <1>2 DEF NextOf, TypeInv
<1>10. NamesInv(w)'
  BY <1>1, <1>2, <1>3, <1>4, <1>7, <1>9 DEF NamesInv
<1>11. DiskInv(w)' /\ CopyInv(w)'
  BY <1>1, <1>2, <1>3 DEF DiskInv, CopyInv
<1>. QED  BY <1>8, <1>10, <1>11 DEF FileInv

LEMMA RemoveOldKeeps ==
    ASSUME NEW w, Writers = {w}, FileInv, RemoveOld(w) PROVE FileInv'
<1>1. TypeInv /\ NamesInv(w) /\ DiskInv(w) /\ CopyInv(w) /\ at[w] = "remove" /\ w \in Writers
  BY DEF FileInv, RemoveOld, Goes
<1>2. /\ at' = [at EXCEPT ![w] = "rename"] /\ dir' = [dir EXCEPT !["config"] = NoFile]
      /\ UNCHANGED <<data, disk, calls, verdict, old, new, text, asked, found, answer, settled, wiped>>
  BY DEF RemoveOld, Goes, Then
<1>3. at'[w] = "rename" /\ at' \in [Writers -> WriteSteps]
  BY <1>1, <1>2 DEF TypeInv, WriteSteps
<1>4. /\ dir'["config"] = NoFile /\ dir'["new"] = dir["new"]
      /\ dir' \in [Names -> Inodes \cup {NoFile}]
  BY <1>1, <1>2 DEF TypeInv, Names
<1>5. TypeInv' /\ NextOf(w)' = NextOf(w)
  BY <1>1, <1>2, <1>3, <1>4 DEF TypeInv, NextOf
<1>6. NamesInv(w)'
  BY <1>1, <1>2, <1>3, <1>4, <1>5 DEF NamesInv
<1>7. DiskInv(w)' /\ CopyInv(w)'
  BY <1>1, <1>2, <1>3 DEF DiskInv, CopyInv
<1>. QED  BY <1>5, <1>6, <1>7 DEF FileInv

LEMMA RenameNewKeeps ==
    ASSUME NEW w, Writers = {w}, FileInv, RenameNew(w) PROVE FileInv'
<1>1. TypeInv /\ NamesInv(w) /\ DiskInv(w) /\ CopyInv(w) /\ at[w] = "rename" /\ w \in Writers
  BY DEF FileInv, RenameNew, Goes
<1>2. dir["new"] # NoFile /\ data[dir["new"]] = NextOf(w)
  BY <1>1 DEF NamesInv
<1>3. /\ at' = [at EXCEPT ![w] = "sync"]
      /\ dir' = [dir EXCEPT !["config"] = dir["new"], !["new"] = NoFile]
      /\ UNCHANGED <<data, disk, calls, verdict, old, new, text, asked, found, answer, settled, wiped>>
  BY <1>2 DEF RenameNew, Goes, Then
<1>4. at'[w] = "sync" /\ at' \in [Writers -> WriteSteps]
  BY <1>1, <1>3 DEF TypeInv, WriteSteps
<1>5. /\ dir'["config"] = dir["new"] /\ dir'["new"] = NoFile
      /\ dir' \in [Names -> Inodes \cup {NoFile}]
  BY <1>1, <1>3 DEF TypeInv, Names
<1>6. TypeInv' /\ NextOf(w)' = NextOf(w)
  BY <1>1, <1>3, <1>4, <1>5 DEF TypeInv, NextOf
<1>7. NamesInv(w)'
  BY <1>1, <1>2, <1>3, <1>4, <1>5, <1>6 DEF NamesInv
<1>8. DiskInv(w)' /\ CopyInv(w)'
  BY <1>1, <1>3, <1>4 DEF DiskInv, CopyInv
<1>. QED  BY <1>6, <1>7, <1>8 DEF FileInv

LEMMA SyncKeeps ==
    ASSUME NEW w, Writers = {w}, FileInv, Sync(w) PROVE FileInv'
<1>1. TypeInv /\ NamesInv(w) /\ DiskInv(w) /\ CopyInv(w) /\ at[w] = "sync" /\ w \in Writers
  BY DEF FileInv, Sync
<1>2. PICK rest : rest = Tail(calls[w])
  OBVIOUS
<1>3. /\ disk' = Now /\ calls' = [calls EXCEPT ![w] = rest]
      /\ at' = [at EXCEPT ![w] = IF rest = << >> THEN "idle" ELSE "read"]
      /\ answer' = [answer EXCEPT ![w] = IF rest = << >> THEN verdict[w] ELSE "none"]
      /\ settled' = Now["config"]
      /\ UNCHANGED <<dir, data, verdict, old, new, text, asked, found, wiped>>
  BY <1>2 DEF Sync, Written
<1>4. rest \in Seq(Lines) /\ NextOf(w) \in Contents
  BY <1>1, <1>2, CallFacts
<1>5. /\ at'[w] \in {"idle", "read"} /\ (at'[w] = "read" => rest # << >>) /\ calls'[w] = rest
      /\ at' \in [Writers -> WriteSteps] /\ calls' \in [Writers -> Seq(Lines)]
  BY <1>1, <1>3, <1>4 DEF TypeInv, WriteSteps
<1>6. /\ Now \in [Names -> Contents \cup {Empty, NoFile}]
      /\ Now["config"] = NextOf(w) /\ dir["config"] # NoFile /\ data[dir["config"]] = NextOf(w)
  BY <1>1, NowFacts DEF NamesInv
<1>7. TypeInv'
  <2>1. verdict[w] \in {"fail", "success"}
    BY <1>1 DEF TypeInv
  <2>2. answer' \in [Writers -> {"none", "fail", "success"}]
    BY <1>1, <1>3, <2>1 DEF TypeInv
  <2>. QED  BY <1>1, <1>3, <1>4, <1>5, <1>6, <2>2 DEF TypeInv
<1>8. NamesInv(w)'
  BY <1>1, <1>3, <1>5, <1>6 DEF NamesInv
<1>9. DiskInv(w)' /\ CopyInv(w)'
  BY <1>1, <1>3, <1>4, <1>5, <1>6 DEF DiskInv, CopyInv
<1>. QED  BY <1>7, <1>8, <1>9 DEF FileInv

\* Some name holds a whole file, at every step of an update.
LEMMA CopyNow ==
    ASSUME NEW w \in Writers, TypeInv, NamesInv(w), CopyInv(w), ~wiped
    PROVE  Now["config"] \in Contents \/ Now["new"] \in Contents
<1>1. at[w] \in WriteSteps /\ settled \in Contents
  BY DEF TypeInv
<1>2. CASE at[w] \in {"idle", "read", "write", "copy", "close", "remove"}
  BY <1>1, <1>2, NowFacts DEF NamesInv, CopyInv
<1>3. CASE at[w] \in {"rename", "sync"}
  BY <1>3, NowFacts, CallFacts DEF NamesInv
<1>. QED  BY <1>1, <1>2, <1>3 DEF WriteSteps

LEMMA ConfigNow ==
    ASSUME NEW w \in Writers, TypeInv, NamesInv(w)
    PROVE  Now["config"] \in {NoFile, settled} \/ (at[w] = "sync" /\ Now["config"] = NextOf(w))
<1>1. at[w] \in WriteSteps
  BY DEF TypeInv
<1>. QED  BY <1>1, NowFacts DEF NamesInv, WriteSteps

LEMMA WritebackKeeps ==
    ASSUME NEW w, Writers = {w}, FileInv, Writeback PROVE FileInv'
<1>1. TypeInv /\ NamesInv(w) /\ DiskInv(w) /\ CopyInv(w) /\ w \in Writers
  BY DEF FileInv
<1>2. /\ disk' = Now
      /\ UNCHANGED <<dir, data, at, calls, verdict, old, new, text, asked, found, answer, settled, wiped>>
  BY DEF Writeback
<1>3. TypeInv' /\ NextOf(w)' = NextOf(w)
  BY <1>1, <1>2, NowFacts DEF TypeInv, NextOf
<1>4. NamesInv(w)'
  BY <1>1, <1>2, <1>3 DEF NamesInv
<1>5. DiskInv(w)'
  BY <1>1, <1>2, <1>3, ConfigNow DEF DiskInv
<1>6. CopyInv(w)'
  BY <1>1, <1>2, CopyNow DEF CopyInv
<1>. QED  BY <1>3, <1>4, <1>5, <1>6 DEF FileInv

LEMMA PowerFailsKeeps ==
    ASSUME NEW w, Writers = {w}, FileInv, PowerFails PROVE FileInv'
<1>1. TypeInv /\ NamesInv(w) /\ DiskInv(w) /\ CopyInv(w) /\ w \in Writers
  BY DEF FileInv
<1>2. PICK boot : boot = [n \in Names |-> IF disk[n] = NoFile THEN NoFile
                                          ELSE IF n = "config" THEN 1 ELSE 2]
  OBVIOUS
<1>3. /\ dir' = boot
      /\ data' = [i \in Inodes |-> CASE i = boot["config"] -> disk["config"]
                                     [] i = boot["new"] -> disk["new"]
                                     [] OTHER -> Empty]
      /\ at' = [v \in Writers |-> "idle"] /\ calls' = [v \in Writers |-> << >>]
      /\ old' = [v \in Writers |-> NoFile] /\ new' = [v \in Writers |-> NoFile]
      /\ text' = [v \in Writers |-> Empty]
      /\ settled' = IF disk["config"] = NoFile THEN settled ELSE disk["config"]
      /\ UNCHANGED <<disk, verdict, asked, found, answer, wiped>>
  BY <1>2 DEF PowerFails
<1>4. 1 \in Inodes /\ 2 \in Inodes /\ NoFile \notin Inodes /\ NoFile \notin Contents
  BY ConfigAssumption, ContentAssumption
<1>5. /\ boot["config"] = IF disk["config"] = NoFile THEN NoFile ELSE 1
      /\ boot["new"] = IF disk["new"] = NoFile THEN NoFile ELSE 2
      /\ boot \in [Names -> Inodes \cup {NoFile}]
  BY <1>2, <1>4 DEF Names
<1>6. /\ disk["config"] # NoFile => disk["config"] \in Contents
      /\ disk["new"] # NoFile => disk["new"] \in Contents \cup {Empty}
      /\ settled \in Contents
  <2>1. disk["new"] \in Contents \cup {Empty, NoFile} /\ settled \in Contents
    BY <1>1 DEF TypeInv, Names
  <2>2. at[w] = "sync" => NextOf(w) \in Contents
    BY <1>1, CallFacts
  <2>. QED  BY <1>1, <2>1, <2>2 DEF DiskInv
<1>7. data' \in [Inodes -> Contents \cup {Empty}]
  <2>1. ASSUME NEW i \in Inodes
        PROVE  (CASE i = boot["config"] -> disk["config"]
                  [] i = boot["new"] -> disk["new"]
                  [] OTHER -> Empty) \in Contents \cup {Empty}
    BY <1>4, <1>5, <1>6
  <2>. QED  BY <1>3, <2>1
<1>8. /\ disk["config"] # NoFile => data'[1] = disk["config"]
      /\ disk["new"] # NoFile => data'[2] = disk["new"]
  BY <1>3, <1>4, <1>5
<1>9. TypeInv'
  <2>1. << >> \in Seq(Lines)
    BY EmptySeq
  <2>. QED  BY <1>1, <1>3, <1>5, <1>6, <1>7, <2>1 DEF TypeInv, WriteSteps
<1>10. at'[w] = "idle" /\ new'[w] = NoFile
  BY <1>1, <1>3
<1>11. NamesInv(w)'
  BY <1>3, <1>4, <1>5, <1>8, <1>10 DEF NamesInv
<1>12. DiskInv(w)'
  BY <1>3 DEF DiskInv
<1>13. CopyInv(w)'
  BY <1>1, <1>3, <1>4, <1>5, <1>8 DEF CopyInv
<1>. QED  BY <1>9, <1>11, <1>12, <1>13 DEF FileInv

\* The invariant holds in every state, whatever the requests and the power failures, for
\* updates that do not overlap.
LEMMA FileInvHolds ==
    ASSUME NEW w, Writers = {w} PROVE Spec => []FileInv
<1>1. Init => FileInv
  BY InitKeeps
<1>2. FileInv /\ [Next]_vars => FileInv'
  <2>. SUFFICES ASSUME FileInv, [Next]_vars PROVE FileInv'
    OBVIOUS
  <2>1. CASE Begin(w)
    BY <2>1, BeginKeeps
  <2>2. CASE OpenOld(w)
    BY <2>2, OpenOldKeeps
  <2>3. CASE OpenNew(w)
    BY <2>3, OpenNewKeeps
  <2>4. CASE OpenNewFails(w)
    BY <2>4, OpenNewFailsKeeps
  <2>5. CASE Copy(w)
    BY <2>5, CopyKeeps
  <2>6. CASE Close(w)
    BY <2>6, CloseKeeps
  <2>7. CASE RemoveOld(w)
    BY <2>7, RemoveOldKeeps
  <2>8. CASE RenameNew(w)
    BY <2>8, RenameNewKeeps
  <2>9. CASE Sync(w)
    BY <2>9, SyncKeeps
  <2>10. CASE Writeback
    BY <2>10, WritebackKeeps
  <2>11. CASE PowerFails
    BY <2>11, PowerFailsKeeps
  <2>12. CASE UNCHANGED vars
    BY <2>12 DEF vars, FileInv, TypeInv, NamesInv, DiskInv, CopyInv, NextOf
  <2>. QED  BY <2>1, <2>2, <2>3, <2>4, <2>5, <2>6, <2>7, <2>8, <2>9, <2>10, <2>11, <2>12
            DEF Next, WriteParamStr
<1>. QED  BY <1>1, <1>2, PTL DEF Spec

\* With updates that do not overlap, who reads it, also after a power failure, finds
\* no file or the content before or after one WriteParamStr.
THEOREM ConfigIsPrecise ==
    ASSUME NEW w, Writers = {w} PROVE Spec => []ConfigPrecise
<1>1. FileInv => ConfigPrecise
  <2>. SUFFICES ASSUME FileInv PROVE ConfigPrecise
    OBVIOUS
  <2>1. TypeInv /\ NamesInv(w) /\ DiskInv(w) /\ w \in Writers
    BY DEF FileInv
  <2>2. at[w] = "sync" => NextOf(w) \in Coming
    BY <2>1, CallFacts DEF Coming, NextOf
  <2>. QED  BY <2>1, <2>2, ConfigNow DEF DiskInv, ConfigPrecise, Configs
<1>. QED  BY <1>1, FileInvHolds, PTL

\* With updates that do not overlap, one of the two names holds a whole file, now and
\* after a power failure, until an update begins while the configuration file is missing.
THEOREM ACopySurvives ==
    ASSUME NEW w, Writers = {w} PROVE Spec => []CopySurvives
<1>1. FileInv => CopySurvives
  <2>. SUFFICES ASSUME FileInv, ~wiped, NEW fs \in {Now, disk}
                PROVE  \E n \in Names : fs[n] # NoFile /\ DOMAIN fs[n] = DOMAIN Initial
    BY DEF CopySurvives
  <2>1. TypeInv /\ NamesInv(w) /\ CopyInv(w) /\ w \in Writers
    BY DEF FileInv
  <2>2. fs["config"] \in Contents \/ fs["new"] \in Contents
    BY <2>1, CopyNow DEF CopyInv
  <2>3. \A c \in Contents : c # NoFile /\ DOMAIN c = DOMAIN Initial
    BY ContentAssumption DEF Contents
  <2>. QED  BY <2>2, <2>3 DEF Names
<1>. QED  BY <1>1, FileInvHolds, PTL

-----------------------------------------------------------------------------
(***************************************************************************)
(* Keys: the calls that are left set what the settled content still lacks  *)
(* before they set a key.                                                  *)
(***************************************************************************)
Set(c, p) == \A l \in DOMAIN c : c[l].name = p.name => c[l] = p

Keyed(c) == \A l \in DOMAIN Initial : c[l].name = "AP_AUTH_KEY" /\ c[l] # Initial[l] =>
               Set(c, ModeCall) /\ Set(c, EncryptCall)

\* The updates that are left: KeyOrder, with the content for those already made.
Ordered(cs, c) ==
    \A i \in 1 .. Len(cs) :
        /\ cs[i].name = "AP_AUTH_KEY" =>
              /\ i >= 2 => cs[i - 1] = EncryptCall
              /\ i >= 3 => cs[i - 2] = ModeCall
              /\ i = 1 => Set(c, EncryptCall)
              /\ i \in {1, 2} => Set(c, ModeCall)
        /\ cs[i].name = "AP_AUTH_MODE" => cs[i] = ModeCall
        /\ cs[i].name = "AP_ENCRYPT_TYPE" => cs[i] = EncryptCall

KeyInv(w) == Keyed(settled) /\ (at[w] # "idle" => Ordered(calls[w], settled))

\* An update leaves lines with its name as it sets them, and lines of another name alone.
LEMMA ReplacedSets ==
    ASSUME NEW c \in Contents, NEW h \in Lines, NEW p, h.name = p.name => h = p,
           Set(c, p) \/ h = p
    PROVE  Set(Replaced(c, h), p)
<1>1. DOMAIN c = DOMAIN Initial
  BY DEF Contents
<1>2. ASSUME NEW l \in DOMAIN c, Replaced(c, h)[l].name = p.name PROVE Replaced(c, h)[l] = p
  <2>1. Replaced(c, h)[l] = IF StartsWith(c[l].name, h.name) THEN h ELSE c[l]
    BY DEF Replaced
  <2>2. CASE StartsWith(c[l].name, h.name)
    BY <1>2, <2>1, <2>2
  <2>3. CASE ~StartsWith(c[l].name, h.name)
    <3>1. c[l].name # h.name
      BY <2>3 DEF StartsWith
    <3>. QED  BY <1>2, <2>1, <2>3, <3>1 DEF Set
  <2>. QED  BY <2>2, <2>3
<1>3. DOMAIN Replaced(c, h) = DOMAIN c
  BY DEF Replaced
<1>. QED  BY <1>2, <1>3 DEF Set

\* One call keeps a content keyed, and the calls after it ordered.
LEMMA CallKeepsKey ==
    ASSUME NEW c \in Contents, Keyed(c), NEW cs \in Seq(Lines), cs # << >>, Ordered(cs, c)
    PROVE  Keyed(Replaced(c, Head(cs))) /\ Ordered(Tail(cs), Replaced(c, Head(cs)))
<1>1. PICK n, h, r : n = Len(cs) /\ h = Head(cs) /\ r = Replaced(c, Head(cs))
  OBVIOUS
<1>2. n \in Nat /\ n >= 1 /\ h \in Lines /\ h = cs[1] /\ 1 \in 1 .. Len(cs)
  BY <1>1, HeadTailProperties, LenProperties, EmptySeq
<1>3. DOMAIN c = DOMAIN Initial
  BY DEF Contents
<1>4. ModeCall.name = "AP_AUTH_MODE" /\ EncryptCall.name = "AP_ENCRYPT_TYPE"
  BY DEF ModeCall, EncryptCall, Call
<1>5. (h.name = "AP_AUTH_MODE" => h = ModeCall) /\ (h.name = "AP_ENCRYPT_TYPE" => h = EncryptCall)
  BY <1>2 DEF Ordered
<1>6. (h.name = ModeCall.name => h = ModeCall) /\ (h.name = EncryptCall.name => h = EncryptCall)
  BY <1>4, <1>5
<1>7. /\ Set(c, ModeCall) \/ h = ModeCall => Set(r, ModeCall)
      /\ Set(c, EncryptCall) \/ h = EncryptCall => Set(r, EncryptCall)
  <2>1. Set(c, ModeCall) \/ h = ModeCall => Set(Replaced(c, h), ModeCall)
    BY <1>2, <1>6, ReplacedSets
  <2>2. Set(c, EncryptCall) \/ h = EncryptCall => Set(Replaced(c, h), EncryptCall)
    BY <1>2, <1>6, ReplacedSets
  <2>. QED  BY <1>1, <2>1, <2>2
<1>8. Keyed(r)
  <2>1. CASE h.name = "AP_AUTH_KEY"
    <3>1. Set(c, EncryptCall) /\ Set(c, ModeCall)
      BY <1>2, <2>1 DEF Ordered
    <3>. QED  BY <1>7, <3>1 DEF Keyed
  <2>2. CASE h.name # "AP_AUTH_KEY"
    <3>1. ASSUME NEW l \in DOMAIN Initial, r[l].name = "AP_AUTH_KEY" PROVE r[l] = c[l]
      <4>1. r[l] = IF StartsWith(c[l].name, h.name) THEN h ELSE c[l]
        BY <1>1, <1>3 DEF Replaced
      <4>. QED  BY <2>2, <3>1, <4>1
    <3>2. ASSUME NEW l \in DOMAIN Initial, r[l].name = "AP_AUTH_KEY", r[l] # Initial[l]
          PROVE  Set(r, ModeCall) /\ Set(r, EncryptCall)
      <4>1. r[l] = c[l]
        BY <3>1, <3>2
      <4>2. Set(c, ModeCall) /\ Set(c, EncryptCall)
        BY <3>2, <4>1 DEF Keyed
      <4>. QED  BY <1>7, <4>2
    <3>. QED  BY <3>2 DEF Keyed
  <2>. QED  BY <2>1, <2>2
<1>9. PICK t : t = Tail(cs)
  OBVIOUS
<1>10. t \in Seq(Lines) /\ Len(t) = n - 1 /\ \A i \in 1 .. n - 1 : t[i] = cs[i + 1]
  BY <1>1, <1>9, HeadTailProperties
<1>11. ASSUME NEW i \in 1 .. Len(t), t[i].name = "AP_AUTH_KEY"
       PROVE  /\ i >= 2 => t[i - 1] = EncryptCall
              /\ i >= 3 => t[i - 2] = ModeCall
              /\ i = 1 => Set(r, EncryptCall)
              /\ i \in {1, 2} => Set(r, ModeCall)
  <2>1. PICK k : k = i + 1
    OBVIOUS
  <2>2. k \in 1 .. n /\ k >= 2 /\ i \in 1 .. n - 1 /\ k - 1 = i /\ k - 2 = i - 1 /\ cs[k] = t[i]
    BY <1>2, <1>10, <2>1
  <2>3. /\ cs[i] = EncryptCall
        /\ k >= 3 => cs[i - 1] = ModeCall
        /\ k = 2 => Set(c, ModeCall)
    BY <1>1, <1>11, <2>2 DEF Ordered
  <2>4. i >= 2 => t[i - 1] = EncryptCall
    <3>1. i >= 2 => i - 1 \in 1 .. n - 1 /\ i - 1 + 1 = i
      BY <1>2, <2>2
    <3>. QED  BY <1>10, <2>3, <3>1
  <2>5. i >= 3 => t[i - 2] = ModeCall
    <3>1. i >= 3 => i - 2 \in 1 .. n - 1 /\ i - 2 + 1 = i - 1 /\ k >= 3
      BY <1>2, <2>1, <2>2
    <3>. QED  BY <1>10, <2>3, <3>1
  <2>6. CASE i = 1
    <3>1. h = EncryptCall /\ Set(c, ModeCall)
      BY <1>2, <2>1, <2>3, <2>6
    <3>. QED  BY <1>7, <2>4, <2>5, <3>1
  <2>7. CASE i = 2
    <3>1. h = ModeCall
      BY <1>2, <2>1, <2>3, <2>7
    <3>. QED  BY <1>7, <2>4, <2>5, <2>7, <3>1
  <2>. QED  BY <2>4, <2>5, <2>6, <2>7
<1>12. ASSUME NEW i \in 1 .. Len(t)
       PROVE  /\ t[i].name = "AP_AUTH_MODE" => t[i] = ModeCall
              /\ t[i].name = "AP_ENCRYPT_TYPE" => t[i] = EncryptCall
  <2>1. i + 1 \in 1 .. Len(cs) /\ t[i] = cs[i + 1]
    BY <1>1, <1>2, <1>10
  <2>. QED  BY <2>1 DEF Ordered
<1>. QED  BY <1>1, <1>8, <1>9, <1>11, <1>12 DEF Ordered

\* nabto and param are not asked for the lines that belong to a key.
KeysByApi(w) == \A req \in Requests[w] : req.by \in {"nabto", "param"} =>
                   \A i \in 1 .. Len(req.tokens) : req.tokens[i].name \notin KeyLines

LEMMA CallsInOrder ==
    ASSUME NEW w \in Writers, KeysByApi(w), NEW req \in Requests[w] PROVE CallsOf(req) \in KeySeqs
<1>1. PICK n \in 0 .. Len(req.tokens) :
          CallsOf(req) = Updates(req, n) /\ \A i \in 1 .. n : Accepted(req.by, req.tokens[i])
  BY CallsFacts
<1>2. ASSUME NEW i \in 1 .. n PROVE Asks(req.by, req.tokens[i]) \in KeySeqs
  <2>1. i \in 1 .. Len(req.tokens) /\ req.by \in Served \cup {"param"} /\ req.tokens[i] \in Tokens
    BY TokensOf
  <2>2. Known(req.by, req.tokens[i])
    BY <1>1 DEF Accepted
  <2>3. req.by \in {"nabto", "param"} => req.tokens[i].name \notin KeyLines
    BY <2>1 DEF KeysByApi
  <2>. QED  BY <2>1, <2>2, <2>3, AsksInOrder
<1>3. KeySeqs \in SUBSET Seq(Lines) /\ << >> \in KeySeqs
  BY EmptySeq DEF KeySeqs, KeyOrder
<1>. QED  BY <1>1, <1>2, <1>3, KeySeqsClosed, UpdatesIn

LEMMA KeyKeeps ==
    ASSUME NEW w, Writers = {w}, KeysByApi(w),
           FileInv, KeyInv(w), [Next]_vars
    PROVE  KeyInv(w)'
<1>1. TypeInv /\ NamesInv(w) /\ DiskInv(w) /\ w \in Writers
  BY DEF FileInv
<1>2. at[w] # "idle" => /\ NextOf(w) \in Contents /\ Keyed(NextOf(w))
                        /\ Ordered(Tail(calls[w]), NextOf(w))
  <2>. SUFFICES ASSUME at[w] # "idle"
                PROVE  /\ NextOf(w) \in Contents /\ Keyed(NextOf(w))
                       /\ Ordered(Tail(calls[w]), NextOf(w))
    OBVIOUS
  <2>1. /\ calls[w] \in Seq(Lines) /\ calls[w] # << >> /\ NextOf(w) \in Contents
        /\ settled \in Contents
    BY <1>1, CallFacts DEF TypeInv
  <2>2. Keyed(settled) /\ Ordered(calls[w], settled)
    BY DEF KeyInv
  <2>. QED  BY <2>1, <2>2, CallKeepsKey DEF NextOf
<1>3. CASE Begin(w)
  <2>1. PICK req \in Requests[w] : calls' = [calls EXCEPT ![w] = CallsOf(req)]
    BY <1>3 DEF Begin
  <2>2. PICK cs : cs = CallsOf(req)
    OBVIOUS
  <2>3. cs \in KeySeqs
    BY <1>1, <2>2, CallsInOrder
  <2>4. calls'[w] = cs /\ settled' = settled
    BY <1>1, <1>3, <2>1, <2>2 DEF TypeInv, Begin
  <2>5. cs \in Seq(Lines) /\ KeyOrder(cs) /\ Len(cs) \in Nat
    BY <2>3, LenProperties DEF KeySeqs
  <2>6. \A c : Ordered(cs, c)
    BY <2>5 DEF KeyOrder, Ordered
  <2>. QED  BY <2>4, <2>5, <2>6 DEF KeyInv
<1>4. CASE Sync(w)
  <2>1. at[w] = "sync" /\ Now["config"] = NextOf(w)
    BY <1>1, <1>4, NowFacts DEF NamesInv, Sync
  <2>2. calls'[w] = Tail(calls[w]) /\ settled' = NextOf(w)
    BY <1>1, <1>4, <2>1 DEF TypeInv, Sync
  <2>. QED  BY <1>2, <2>1, <2>2 DEF KeyInv
<1>5. CASE PowerFails
  <2>1. at'[w] = "idle" /\ calls'[w] = << >>
    BY <1>1, <1>5 DEF PowerFails
  <2>2. settled' = IF disk["config"] = NoFile THEN settled ELSE disk["config"]
    BY <1>5 DEF PowerFails
  <2>3. Keyed(settled')
    BY <1>1, <1>2, <2>2 DEF DiskInv, KeyInv
  <2>. QED  BY <2>1, <2>3 DEF KeyInv
<1>6. CASE UNCHANGED <<calls, settled>> /\ (at[w] = "idle" => at'[w] = "idle")
  BY <1>6 DEF KeyInv
<1>7. CASE OpenOld(w) \/ OpenNew(w) \/ OpenNewFails(w)
  BY <1>6, <1>7 DEF OpenOld, OpenNew, OpenNewFails
<1>8. CASE Copy(w) \/ Close(w) \/ RemoveOld(w) \/ RenameNew(w)
  BY <1>6, <1>8 DEF Copy, Close, RemoveOld, RenameNew, Goes
<1>9. CASE Writeback \/ UNCHANGED vars
  BY <1>6, <1>9 DEF Writeback, vars
<1>. QED  BY <1>3, <1>4, <1>5, <1>7, <1>8, <1>9 DEF Next, WriteParamStr

\* With updates that do not overlap, a key set through the API is never in the file, or
\* found in it after a power failure, without the mode and the encryption it is for.
THEOREM KeysComeWithMode ==
    ASSUME NEW w, Writers = {w}, KeysByApi(w) PROVE Spec => []KeyNeedsMode
<1>1. Init => KeyInv(w)
  BY DEF Init, KeyInv, Keyed
<1>2. FileInv /\ KeyInv(w) /\ [Next]_vars => KeyInv(w)'
  BY KeyKeeps
<1>3. FileInv /\ KeyInv(w) => KeyNeedsMode
  <2>. SUFFICES ASSUME FileInv, KeyInv(w), NEW c \in Configs, NEW l \in DOMAIN c,
                       c[l].name = "AP_AUTH_KEY", c[l] # Initial[l]
                PROVE  HasValue(c, "AP_AUTH_MODE", "WPA2PSK") /\ HasValue(c, "AP_ENCRYPT_TYPE", "AES")
    BY DEF KeyNeedsMode
  <2>1. TypeInv /\ NamesInv(w) /\ DiskInv(w) /\ w \in Writers
    BY DEF FileInv
  <2>2. c = settled \/ (at[w] = "sync" /\ c = NextOf(w))
    BY <2>1, ConfigNow DEF DiskInv, Configs
  <2>3. settled \in Contents /\ Keyed(settled)
    BY <2>1 DEF TypeInv, KeyInv
  <2>4. at[w] = "sync" => NextOf(w) \in Contents /\ Keyed(NextOf(w))
    <3>. SUFFICES ASSUME at[w] = "sync" PROVE NextOf(w) \in Contents /\ Keyed(NextOf(w))
      OBVIOUS
    <3>1. /\ calls[w] # << >> /\ calls[w] \in Seq(Lines) /\ NextOf(w) \in Contents
          /\ Ordered(calls[w], settled)
      BY <2>1, CallFacts DEF KeyInv
    <3>. QED  BY <2>3, <3>1, CallKeepsKey DEF NextOf
  <2>5. c \in Contents /\ Keyed(c)
    BY <2>2, <2>3, <2>4
  <2>6. Set(c, ModeCall) /\ Set(c, EncryptCall)
    BY <2>5 DEF Keyed, Contents
  <2>. QED  BY <2>6 DEF Set, HasValue, ModeCall, EncryptCall, Call
<1>. QED  BY <1>1, <1>2, <1>3, FileInvHolds, PTL DEF Spec

-----------------------------------------------------------------------------
(***************************************************************************)
(* Answers: while a request that can be answered 0 is under way, the calls *)
(* made are the first d of those it asked for, and the settled content is  *)
(* what these make of the one it found.                                    *)
(***************************************************************************)
LEMMA AfterFacts ==
    ASSUME NEW c \in Contents, NEW cs \in Seq(Lines)
    PROVE  /\ After(c, cs)[0] = c
           /\ \A i \in 1 .. Len(cs) : After(c, cs)[i] = Replaced(After(c, cs)[i - 1], cs[i])
<1>1. PICK n : n = Len(cs)
  OBVIOUS
<1>2. n \in Nat /\ \A i \in 1 .. n : cs[i] \in Lines
  BY <1>1, LenProperties, ElementOfSeq
<1>. DEFINE G == [p \in Nat \X Contents |-> IF p[1] + 1 \in 1 .. n THEN Replaced(p[2], cs[p[1] + 1])
                                            ELSE p[2]]
<1>3. G \in Steps(Contents)
  <2>1. ASSUME NEW p \in Nat \X Contents
        PROVE  (IF p[1] + 1 \in 1 .. n THEN Replaced(p[2], cs[p[1] + 1]) ELSE p[2]) \in Contents
    BY <1>2, ReplacedType
  <2>. QED  BY <2>1 DEF Steps
<1>4. \A k \in Nat, v \in Contents : G[<<k, v>>] = IF k + 1 \in 1 .. n THEN Replaced(v, cs[k + 1]) ELSE v
  OBVIOUS
<1>. HIDE DEF G
<1>5. PICK f : Follows(Contents, c, G, f)
  BY <1>3, RecursionExists
<1>6. f \in [Nat -> Contents] /\ f[0] = c /\ \A k \in Nat : f[k + 1] = G[<<k, f[k]>>]
  BY <1>5 DEF Follows
<1>7. PICK F : F = [i \in 0 .. n |-> f[i]]
  OBVIOUS
<1>8. ASSUME NEW i \in 0 .. n PROVE F[i] = IF i = 0 THEN c ELSE Replaced(F[i - 1], cs[i])
  <2>1. CASE i = 0
    BY <1>6, <1>7, <2>1
  <2>2. CASE i # 0
    <3>1. PICK k : k = i - 1
      OBVIOUS
    <3>2. k \in Nat /\ k + 1 = i /\ k \in 0 .. n /\ i \in 1 .. n
      BY <1>2, <2>2, <3>1
    <3>3. F[i] = f[k + 1] /\ F[k] = f[k] /\ f[k] \in Contents
      BY <1>6, <1>7, <3>2
    <3>4. f[k + 1] = Replaced(f[k], cs[k + 1])
      BY <1>4, <1>6, <3>2, <3>3
    <3>. QED  BY <2>2, <3>1, <3>2, <3>3, <3>4
  <2>. QED  BY <2>1, <2>2
<1>9. F = [i \in 0 .. n |-> IF i = 0 THEN c ELSE Replaced(F[i - 1], cs[i])]
  BY <1>7, <1>8
<1>. DEFINE after[i \in 0 .. Len(cs)] == IF i = 0 THEN c ELSE Replaced(after[i - 1], cs[i])
<1>10. after = [i \in 0 .. Len(cs) |-> IF i = 0 THEN c ELSE Replaced(after[i - 1], cs[i])]
  BY <1>1, <1>9
<1>11. After(c, cs) = after
  BY DEF After
<1>12. PICK A : A = after
  OBVIOUS
<1>13. A = [i \in 0 .. n |-> IF i = 0 THEN c ELSE Replaced(A[i - 1], cs[i])] /\ After(c, cs) = A
  BY <1>1, <1>10, <1>11, <1>12
<1>. HIDE DEF after
<1>14. \A i \in 0 .. n : A[i] = IF i = 0 THEN c ELSE Replaced(A[i - 1], cs[i])
  BY <1>13
<1>15. 0 \in 0 .. n /\ \A i \in 1 .. n : i \in 0 .. n /\ i # 0
  BY <1>2
<1>. QED  BY <1>1, <1>13, <1>14, <1>15

Remaining(cs, left, d) == /\ Len(left) + d = Len(cs)
                          /\ \A i \in 1 .. Len(left) : left[i] = cs[i + d]

\* Of the updates cs, those in left are still to be made to the content c.
Halfway(w, left, c) ==
    \E d \in Nat : Remaining(asked[w], left, d) /\ c = After(found[w], asked[w])[d]

Done(w) == After(found[w], asked[w])[Len(asked[w])]

DoneInv(w) ==
    /\ at[w] # "idle" /\ verdict[w] = "success" => Halfway(w, calls[w], settled)
    /\ answer[w] = "success" =>
          /\ at[w] = "idle"
          /\ asked[w] # << >> => /\ settled = Done(w) /\ dir["config"] # NoFile
                                 /\ data[dir["config"]] = settled /\ disk["config"] = settled

LEMMA CallDone ==
    ASSUME NEW c \in Contents, NEW cs \in Seq(Lines), NEW d \in Nat, NEW left \in Seq(Lines),
           left # << >>, Remaining(cs, left, d)
    PROVE  /\ Remaining(cs, Tail(left), d + 1)
           /\ After(c, cs)[d + 1] = Replaced(After(c, cs)[d], Head(left))
<1>1. PICK n, m, h, t : n = Len(cs) /\ m = Len(left) /\ h = Head(left) /\ t = Tail(left)
  OBVIOUS
<1>2. /\ n \in Nat /\ m \in Nat /\ m >= 1 /\ h = left[1] /\ Len(t) = m - 1
      /\ \A i \in 1 .. m - 1 : t[i] = left[i + 1]
  BY <1>1, HeadTailProperties, LenProperties, EmptySeq
<1>3. m + d = n /\ \A i \in 1 .. m : left[i] = cs[i + d]
  BY <1>1 DEF Remaining
<1>4. h = cs[d + 1] /\ d + 1 \in 1 .. n
  <2>1. 1 \in 1 .. m /\ 1 + d = d + 1 /\ d + 1 \in 1 .. n
    BY <1>2, <1>3
  <2>. QED  BY <1>2, <1>3, <2>1
<1>5. Remaining(cs, t, d + 1)
  <2>1. Len(t) + (d + 1) = n
    BY <1>2, <1>3
  <2>2. ASSUME NEW i \in 1 .. Len(t) PROVE t[i] = cs[i + (d + 1)]
    <3>1. i \in 1 .. m - 1 /\ i + 1 \in 1 .. m /\ i + 1 + d = i + (d + 1)
      BY <1>2
    <3>. QED  BY <1>2, <1>3, <3>1
  <2>. QED  BY <1>1, <2>1, <2>2 DEF Remaining
<1>6. PICK k : k = d + 1
  OBVIOUS
<1>7. k - 1 = d /\ k \in 1 .. Len(cs) /\ h = cs[k]
  BY <1>1, <1>4, <1>6
<1>8. After(c, cs)[k] = Replaced(After(c, cs)[k - 1], cs[k])
  BY <1>7, AfterFacts
<1>. QED  BY <1>1, <1>5, <1>6, <1>7, <1>8

LEMMA BeginDone ==
    ASSUME NEW w, Writers = {w}, TypeInv, Begin(w) PROVE DoneInv(w)'
<1>1. PICK req \in Requests[w] :
          /\ calls' = [calls EXCEPT ![w] = CallsOf(req)]
          /\ asked' = [asked EXCEPT ![w] = Updates(req, First(Cuts(req), req))]
          /\ verdict' = [verdict EXCEPT ![w] = VerdictOf(req)]
          /\ at' = [at EXCEPT ![w] = IF CallsOf(req) = << >> THEN "idle" ELSE "read"]
          /\ answer' = [answer EXCEPT ![w] = IF CallsOf(req) = << >> THEN VerdictOf(req)
                                             ELSE "none"]
  BY DEF Begin
<1>2. PICK cs, ask, vd : /\ cs = CallsOf(req) /\ ask = Updates(req, First(Cuts(req), req))
                         /\ vd = VerdictOf(req)
  OBVIOUS
<1>3. vd = "success" => ask = cs
  BY <1>2, CallsFacts
<1>4. /\ calls'[w] = cs /\ asked'[w] = ask /\ verdict'[w] = vd
      /\ at'[w] = IF cs = << >> THEN "idle" ELSE "read"
      /\ answer'[w] = IF cs = << >> THEN vd ELSE "none"
      /\ found'[w] = settled /\ settled' = settled /\ settled \in Contents
  BY <1>1, <1>2 DEF TypeInv, Begin
<1>5. cs \in Seq(Lines) /\ Len(cs) \in Nat
  BY <1>2, CallsType, LenProperties
<1>6. Remaining(cs, cs, 0) /\ After(settled, cs)[0] = settled
  <2>1. \A i \in 1 .. Len(cs) : i + 0 = i
    BY <1>5
  <2>. QED  BY <1>4, <1>5, <2>1, AfterFacts DEF Remaining
<1>7. ASSUME vd = "success" PROVE Halfway(w, calls[w], settled)'
  <2>1. asked'[w] = cs
    BY <1>3, <1>4, <1>7
  <2>. QED  BY <1>4, <1>6, <2>1 DEF Halfway
<1>8. answer'[w] = "success" => at'[w] = "idle" /\ asked'[w] = << >>
  BY <1>3, <1>4
<1>. QED  BY <1>4, <1>7, <1>8 DEF DoneInv

LEMMA SyncDone ==
    ASSUME NEW w, Writers = {w}, FileInv, DoneInv(w), Sync(w) PROVE DoneInv(w)'
<1>1. TypeInv /\ NamesInv(w) /\ at[w] = "sync" /\ w \in Writers
  BY DEF FileInv, Sync
<1>2. /\ Now["config"] = NextOf(w) /\ dir["config"] # NoFile /\ data[dir["config"]] = NextOf(w)
      /\ calls[w] \in Seq(Lines) /\ calls[w] # << >> /\ asked[w] \in Seq(Lines)
      /\ settled \in Contents /\ found[w] \in Contents
  BY <1>1, NowFacts, CallFacts DEF NamesInv, TypeInv
<1>3. PICK rest : rest = Tail(calls[w])
  OBVIOUS
<1>4. /\ disk'["config"] = NextOf(w) /\ settled' = NextOf(w)
      /\ calls'[w] = rest /\ at'[w] = IF rest = << >> THEN "idle" ELSE "read"
      /\ answer'[w] = IF rest = << >> THEN verdict[w] ELSE "none"
      /\ UNCHANGED <<dir, data, verdict, asked, found>>
  BY <1>1, <1>2, <1>3 DEF TypeInv, Sync, Written
<1>5. ASSUME verdict[w] = "success" PROVE Halfway(w, rest, NextOf(w))
  <2>1. PICK d \in Nat : /\ Remaining(asked[w], calls[w], d)
                         /\ settled = After(found[w], asked[w])[d]
    BY <1>1, <1>5 DEF DoneInv, Halfway
  <2>2. /\ Remaining(asked[w], rest, d + 1)
        /\ After(found[w], asked[w])[d + 1] = Replaced(After(found[w], asked[w])[d], Head(calls[w]))
    BY <1>2, <1>3, <2>1, CallDone
  <2>3. NextOf(w) = After(found[w], asked[w])[d + 1]
    BY <2>1, <2>2 DEF NextOf
  <2>4. d + 1 \in Nat
    BY <2>1
  <2>. QED  BY <2>2, <2>3, <2>4 DEF Halfway
<1>6. ASSUME verdict[w] = "success", rest = << >> PROVE NextOf(w) = Done(w)
  <2>1. PICK d \in Nat : /\ Remaining(asked[w], rest, d)
                         /\ NextOf(w) = After(found[w], asked[w])[d]
    BY <1>5, <1>6 DEF Halfway
  <2>2. Len(rest) = 0 /\ Len(rest) + d = Len(asked[w])
    BY <1>6, <2>1 DEF Remaining
  <2>3. d = Len(asked[w])
    BY <2>2
  <2>. QED  BY <2>1, <2>3 DEF Done
<1>7. at'[w] # "idle" /\ verdict'[w] = "success" => Halfway(w, calls[w], settled)'
  <2>. SUFFICES ASSUME at'[w] # "idle", verdict'[w] = "success"
                PROVE  Halfway(w, calls[w], settled)'
    OBVIOUS
  <2>1. Halfway(w, rest, NextOf(w))
    BY <1>4, <1>5
  <2>. QED  BY <1>4, <2>1 DEF Halfway
<1>8. answer'[w] = "success" => verdict[w] = "success" /\ rest = << >> /\ at'[w] = "idle"
  BY <1>4
<1>9. Done(w)' = Done(w)
  BY <1>4 DEF Done
<1>. QED  BY <1>2, <1>4, <1>6, <1>7, <1>8, <1>9 DEF DoneInv

LEMMA DoneKeeps ==
    ASSUME NEW w, Writers = {w}, FileInv, DoneInv(w), [Next]_vars PROVE DoneInv(w)'
<1>1. TypeInv /\ NamesInv(w) /\ DiskInv(w) /\ w \in Writers
  BY DEF FileInv
<1>2. CASE Begin(w)
  BY <1>1, <1>2, BeginDone
<1>3. CASE Sync(w)
  BY <1>3, SyncDone
<1>4. CASE PowerFails
  <2>1. PICK boot : boot = [n \in Names |-> IF disk[n] = NoFile THEN NoFile
                                            ELSE IF n = "config" THEN 1 ELSE 2]
    OBVIOUS
  <2>2. /\ dir' = boot
        /\ data' = [i \in Inodes |-> CASE i = boot["config"] -> disk["config"]
                                       [] i = boot["new"] -> disk["new"]
                                       [] OTHER -> Empty]
        /\ settled' = IF disk["config"] = NoFile THEN settled ELSE disk["config"]
        /\ at'[w] = "idle" /\ UNCHANGED <<disk, asked, found, answer>>
    BY <1>1, <1>4, <2>1 DEF PowerFails
  <2>3. boot["new"] \in {2, NoFile} /\ (disk["config"] # NoFile => boot["config"] = 1)
    BY <2>1 DEF Names
  <2>4. 1 \in Inodes /\ NoFile \notin Inodes /\ settled \in Contents /\ NoFile \notin Contents
    BY <1>1, ConfigAssumption, ContentAssumption DEF TypeInv
  <2>5. disk["config"] = settled => /\ dir'["config"] # NoFile /\ data'[dir'["config"]] = settled
                                    /\ settled' = settled
    BY <2>2, <2>3, <2>4
  <2>6. Done(w)' = Done(w)
    BY <2>2 DEF Done
  <2>. QED  BY <2>2, <2>5, <2>6 DEF DoneInv
<1>5. CASE Writeback
  <2>1. disk'["config"] = IF dir["config"] = NoFile THEN NoFile ELSE data[dir["config"]]
    BY <1>1, <1>5, NowFacts DEF Writeback
  <2>2. UNCHANGED <<dir, data, at, calls, verdict, asked, found, answer, settled>>
    BY <1>5 DEF Writeback
  <2>3. Halfway(w, calls[w], settled)' = Halfway(w, calls[w], settled) /\ Done(w)' = Done(w)
    BY <2>2 DEF Halfway, Done
  <2>. QED  BY <2>1, <2>2, <2>3 DEF DoneInv
<1>6. ASSUME at[w] # "idle", answer' = answer, UNCHANGED <<calls, verdict, asked, found, settled>>
      PROVE  DoneInv(w)'
  <2>1. answer'[w] # "success"
    BY <1>6 DEF DoneInv
  <2>2. Halfway(w, calls[w], settled)' = Halfway(w, calls[w], settled)
    BY <1>6 DEF Halfway
  <2>. QED  BY <1>6, <2>1, <2>2 DEF DoneInv
<1>7. ASSUME at'[w] = "idle", answer'[w] = "fail" PROVE DoneInv(w)'
  BY <1>7 DEF DoneInv
<1>8. CASE OpenOld(w)
  BY <1>6, <1>8 DEF OpenOld
<1>9. CASE OpenNewFails(w)
  BY <1>1, <1>7, <1>9 DEF OpenNewFails, TypeInv
<1>10. CASE OpenNew(w)
  <2>1. at[w] = "write" /\ UNCHANGED <<calls, verdict, asked, found, settled>>
    BY <1>10 DEF OpenNew
  <2>2. CASE old[w] = NoFile
    <3>1. at'[w] = "idle" /\ answer'[w] = "fail"
      BY <1>1, <1>10, <2>2 DEF OpenNew, TypeInv
    <3>. QED  BY <1>7, <3>1
  <2>3. CASE old[w] # NoFile
    <3>1. answer' = answer
      BY <1>10, <2>3 DEF OpenNew
    <3>. QED  BY <1>6, <2>1, <3>1
  <2>. QED  BY <2>2, <2>3
<1>11. CASE Copy(w) \/ Close(w) \/ RemoveOld(w) \/ RenameNew(w)
  BY <1>6, <1>11 DEF Copy, Close, RemoveOld, RenameNew, Goes
<1>12. CASE UNCHANGED vars
  BY <1>12 DEF vars, DoneInv, Halfway, Done
<1>. QED  BY <1>2, <1>3, <1>4, <1>5, <1>8, <1>9, <1>10, <1>11, <1>12 DEF Next, WriteParamStr

\* With updates that do not overlap, when a request was answered 0 the file is, now and
\* after a power failure, what all the updates it asked for, up to a token that cuts it
\* off, make of the content it found.
THEOREM SuccessIsDone ==
    ASSUME NEW w, Writers = {w} PROVE Spec => []SuccessMeansDone
<1>1. Init => DoneInv(w)
  BY DEF Init, DoneInv
<1>2. FileInv /\ DoneInv(w) /\ [Next]_vars => DoneInv(w)'
  BY DoneKeeps
<1>3. FileInv /\ DoneInv(w) => SuccessMeansDone
  <2>. SUFFICES ASSUME FileInv, DoneInv(w), answer[w] = "success", asked[w] # << >>,
                       NEW fs \in {Now, disk}
                PROVE  fs["config"] = Done(w)
    BY DEF SuccessMeansDone, Done
  <2>1. TypeInv
    BY DEF FileInv
  <2>. QED  BY <2>1, NowFacts DEF DoneInv
<1>. QED  BY <1>1, <1>2, <1>3, FileInvHolds, PTL DEF Spec

=============================================================================
