---------------------------- MODULE ListsProofs -----------------------------
(***************************************************************************)
(* Facts about lists, and the two principles that proofs about them need:  *)
(* a set of numbers has a least element, and a function may be defined by  *)
(* recursion on numbers.                                                   *)
(***************************************************************************)
EXTENDS Lists, Integers, SequenceTheorems, WellFoundedInduction, TLAPS

\* A set of numbers that is not empty has a least element.
LEMMA LeastIndex ==
    ASSUME NEW S \in SUBSET Nat, S # {}
    PROVE  \E i \in S : \A k \in S : i <= k
<1>. DEFINE R == OpToRel(<, Nat)
<1>1. IsWellFoundedOn(R, Nat)
  BY NatLessThanWellFounded
<1>2. \A y, x \in Nat : y < x => <<y, x>> \in R
  BY DEF OpToRel
<1>. HIDE DEF R
<1>3. PICK i \in S : \A k \in S : ~(<<k, i>> \in R)
  BY <1>1, WFMin
<1>4. i \in Nat /\ \A k \in S : k \in Nat /\ ~(k < i)
  BY <1>2, <1>3, Zenon
<1>5. \A k \in S : i <= k
  BY <1>4
<1>. QED  BY <1>5

\* So a set of numbers that holds 0, and with a number its successor, holds all.
LEMMA InductionSet ==
    ASSUME NEW S \in SUBSET Nat, 0 \in S, \A n \in S : n + 1 \in S
    PROVE  S = Nat
<1>. SUFFICES ASSUME Nat \ S # {} PROVE FALSE
  OBVIOUS
<1>1. Nat \ S \in SUBSET Nat
  OBVIOUS
<1>2. PICK i \in Nat \ S : \A k \in Nat \ S : i <= k
  BY <1>1, LeastIndex
<1>3. i \in Nat /\ i # 0 /\ i - 1 \in Nat /\ ~(i <= i - 1)
  BY <1>2
<1>4. i - 1 \in S
  BY <1>2, <1>3
<1>5. i - 1 + 1 \in S /\ i - 1 + 1 = i
  BY <1>3, <1>4
<1>. QED  BY <1>2, <1>5

\* Definition by recursion: the beginnings of the function exist and agree.
Begins(V, v0, G, n, g) ==
    /\ g \in [0 .. n -> V]
    /\ g[0] = v0
    /\ \A i \in 0 .. n : i # n => g[i + 1] = G[<<i, g[i]>>]

LEMMA BeginningsExist ==
    ASSUME NEW V, NEW v0 \in V, NEW G \in [Nat \X V -> V], NEW n \in Nat
    PROVE  \E g : Begins(V, v0, G, n, g)
<1>. DEFINE S == {m \in Nat : \E g : Begins(V, v0, G, m, g)}
<1>1. 0 \in S
  <2>. DEFINE h == [i \in 0 .. 0 |-> v0]
  <2>1. Begins(V, v0, G, 0, h)
    BY DEF Begins
  <2>. QED  BY <2>1
<1>2. ASSUME NEW m \in S PROVE m + 1 \in S
  <2>1. m \in Nat
    OBVIOUS
  <2>2. PICK g : Begins(V, v0, G, m, g)
    OBVIOUS
  <2>3. g \in [0 .. m -> V] /\ g[0] = v0
        /\ \A i \in 0 .. m : i # m => g[i + 1] = G[<<i, g[i]>>]
    BY <2>2 DEF Begins
  <2>. DEFINE h == [i \in 0 .. m + 1 |-> IF i = m + 1 THEN G[<<m, g[m]>>] ELSE g[i]]
  <2>4. g[m] \in V /\ <<m, g[m]>> \in Nat \X V
    BY <2>1, <2>3
  <2>5. G[<<m, g[m]>>] \in V
    BY <2>4
  <2>6. \A i \in 0 .. m + 1 : i # m + 1 => i \in 0 .. m
    BY <2>1
  <2>7. h \in [0 .. m + 1 -> V]
    BY <2>3, <2>5, <2>6
  <2>8. h[0] = v0
    BY <2>1, <2>3
  <2>9. ASSUME NEW i \in 0 .. m + 1, i # m + 1 PROVE h[i + 1] = G[<<i, h[i]>>]
    <3>1. i \in 0 .. m /\ h[i] = g[i] /\ i + 1 \in 0 .. m + 1
      BY <2>1, <2>6, <2>9
    <3>2. CASE i = m
      BY <3>1, <3>2
    <3>3. CASE i # m
      <4>1. i + 1 # m + 1
        BY <2>1, <3>1, <3>3
      <4>. QED  BY <2>3, <3>1, <3>3, <4>1
    <3>. QED  BY <3>2, <3>3
  <2>. HIDE DEF h
  <2>10. Begins(V, v0, G, m + 1, h)
    BY <2>7, <2>8, <2>9 DEF Begins
  <2>. QED  BY <2>1, <2>10
<1>. HIDE DEF S
<1>3. S \in SUBSET Nat
  BY DEF S
<1>4. S = Nat
  BY <1>1, <1>2, <1>3, InductionSet
<1>. QED  BY <1>4 DEF S

LEMMA BeginningsAgree ==
    ASSUME NEW V, NEW v0, NEW G, NEW m \in Nat, NEW n \in Nat, m <= n,
           NEW g, Begins(V, v0, G, m, g), NEW h, Begins(V, v0, G, n, h), NEW k \in 0 .. m
    PROVE  g[k] = h[k]
<1>. DEFINE S == {i \in Nat : i <= m => g[i] = h[i]}
<1>1. 0 \in S
  BY DEF Begins
<1>2. ASSUME NEW i \in S PROVE i + 1 \in S
  <2>1. i \in Nat
    OBVIOUS
  <2>2. ASSUME i + 1 <= m PROVE g[i + 1] = h[i + 1]
    <3>1. i \in 0 .. m /\ i # m /\ i \in 0 .. n /\ i # n /\ i <= m
      BY <2>1, <2>2
    <3>2. g[i] = h[i]
      BY <3>1
    <3>. QED  BY <3>1, <3>2 DEF Begins
  <2>. QED  BY <2>1, <2>2
<1>. HIDE DEF S
<1>3. S \in SUBSET Nat
  BY DEF S
<1>4. S = Nat
  BY <1>1, <1>2, <1>3, InductionSet
<1>. QED  BY <1>4 DEF S

Steps(V) == [Nat \X V -> V]
Follows(V, v0, G, f) ==
    f \in [Nat -> V] /\ f[0] = v0 /\ \A n \in Nat : f[n + 1] = G[<<n, f[n]>>]

LEMMA RecursionExists ==
    ASSUME NEW V, NEW v0 \in V, NEW G \in Steps(V)
    PROVE  \E f : Follows(V, v0, G, f)
<1>. USE DEF Steps
<1>. DEFINE B(n) == CHOOSE g : Begins(V, v0, G, n, g)
            f == [n \in Nat |-> B(n)[n]]
<1>1. ASSUME NEW n \in Nat PROVE Begins(V, v0, G, n, B(n))
  BY BeginningsExist
<1>. HIDE DEF B
<1>2. ASSUME NEW n \in Nat PROVE f[n] \in V
  <2>1. n \in 0 .. n
    OBVIOUS
  <2>. QED  BY <1>1, <2>1 DEF Begins
<1>3. f[0] = v0
  BY <1>1 DEF Begins
<1>4. ASSUME NEW n \in Nat PROVE f[n + 1] = G[<<n, f[n]>>]
  <2>1. PICK g, h : g = B(n) /\ h = B(n + 1)
    OBVIOUS
  <2>2. n + 1 \in Nat /\ n <= n + 1 /\ n \in 0 .. n /\ n \in 0 .. n + 1 /\ n # n + 1
    OBVIOUS
  <2>3. Begins(V, v0, G, n, g) /\ Begins(V, v0, G, n + 1, h)
    BY <1>1, <2>1, <2>2
  <2>4. g[n] = h[n]
    BY <2>2, <2>3, BeginningsAgree
  <2>5. h[n + 1] = G[<<n, h[n]>>]
    BY <2>2, <2>3 DEF Begins
  <2>. QED  BY <2>1, <2>2, <2>4, <2>5
<1>5. f \in [Nat -> V]
  BY <1>2
<1>. HIDE DEF f
<1>6. Follows(V, v0, G, f)
  BY <1>3, <1>4, <1>5 DEF Follows
<1>. QED  BY <1>6

-----------------------------------------------------------------------------
\* No element is linked twice.
Distinct(list) == \A i, j \in DOMAIN list : list[i] = list[j] => i = j

\* What a walk of the list has still to visit when it is at s.
From(list, s) == {x \in Elems(list) : \E i, j \in DOMAIN list : i <= j /\ list[i] = s /\ list[j] = x}

\* The recursive function of Without has the values its definition gives it.
Unlinks(list, S, F) ==
    F = [i \in 0 .. Len(list) |-> IF i = 0 THEN << >>
                                  ELSE IF list[i] \in S THEN F[i - 1]
                                  ELSE Append(F[i - 1], list[i])]

LEMMA KeptExists ==
    ASSUME NEW T, NEW list \in Seq(T), NEW S
    PROVE  \E F : Unlinks(list, S, F)
<1>. DEFINE V == Seq(T)
            n == Len(list)
            G == [p \in Nat \X V |-> IF p[1] + 1 \in 1 .. n /\ list[p[1] + 1] \notin S
                                     THEN Append(p[2], list[p[1] + 1]) ELSE p[2]]
<1>1. n \in Nat /\ \A i \in 1 .. n : list[i] \in T
  BY LenProperties, ElementOfSeq
<1>. HIDE DEF n
<1>2. << >> \in V
  OBVIOUS
<1>3. G \in [Nat \X V -> V]
  <2>1. ASSUME NEW p \in Nat \X V
        PROVE  (IF p[1] + 1 \in 1 .. n /\ list[p[1] + 1] \notin S
                THEN Append(p[2], list[p[1] + 1]) ELSE p[2]) \in V
    <3>1. p[2] \in V
      OBVIOUS
    <3>2. \A x \in T : Append(p[2], x) \in V
      BY <3>1, AppendProperties
    <3>. QED  BY <1>1, <3>1, <3>2
  <2>. HIDE DEF V
  <2>. QED  BY <2>1
<1>4. \A k \in Nat, v \in V : G[<<k, v>>] = IF k + 1 \in 1 .. n /\ list[k + 1] \notin S
                                            THEN Append(v, list[k + 1]) ELSE v
  OBVIOUS
<1>. HIDE DEF V, G
<1>5. PICK f \in [Nat -> V] : f[0] = << >> /\ \A k \in Nat : f[k + 1] = G[<<k, f[k]>>]
  <2>1. PICK v0 \in V : v0 = << >>
    BY <1>2
  <2>2. PICK f : Follows(V, v0, G, f)
    <3>1. G \in Steps(V)
      BY <1>3 DEF Steps
    <3>. QED  BY <3>1, RecursionExists
  <2>. QED  BY <2>1, <2>2 DEF Follows
<1>. DEFINE F == [i \in 0 .. n |-> f[i]]
<1>6. ASSUME NEW i \in 0 .. n
      PROVE  F[i] = IF i = 0 THEN << >> ELSE IF list[i] \in S THEN F[i - 1]
                    ELSE Append(F[i - 1], list[i])
  <2>1. CASE i = 0
    BY <1>1, <1>5, <2>1
  <2>2. CASE i # 0
    <3>1. i - 1 \in Nat /\ i - 1 + 1 = i /\ i \in 1 .. n /\ i - 1 \in 0 .. n
      BY <1>1, <2>2
    <3>2. f[i] = G[<<i - 1, f[i - 1]>>] /\ f[i - 1] \in V
      BY <1>5, <3>1
    <3>3. f[i] = IF list[i] \notin S THEN Append(f[i - 1], list[i]) ELSE f[i - 1]
      BY <1>4, <3>1, <3>2
    <3>. QED  BY <2>2, <3>1, <3>3
  <2>. QED  BY <2>1, <2>2
<1>7. F = [i \in 0 .. n |-> F[i]]
  OBVIOUS
<1>. HIDE DEF F
<1>8. F = [i \in 0 .. n |-> IF i = 0 THEN << >> ELSE IF list[i] \in S THEN F[i - 1]
                            ELSE Append(F[i - 1], list[i])]
  BY <1>6, <1>7
<1>. QED  BY <1>8 DEF Unlinks, n

LEMMA WithoutDef ==
    ASSUME NEW T, NEW list \in Seq(T), NEW S
    PROVE  \E F : Unlinks(list, S, F) /\ Without(list, S) = F[Len(list)]
<1>. DEFINE kept[i \in 0 .. Len(list)] ==
                IF i = 0 THEN << >>
                ELSE IF list[i] \in S THEN kept[i - 1]
                ELSE Append(kept[i - 1], list[i])
<1>1. \E F : F = [i \in 0 .. Len(list) |-> IF i = 0 THEN << >>
                                           ELSE IF list[i] \in S THEN F[i - 1]
                                           ELSE Append(F[i - 1], list[i])]
  <2>1. PICK F : Unlinks(list, S, F)
    BY KeptExists
  <2>. QED  BY <2>1 DEF Unlinks
<1>2. Unlinks(list, S, kept)
  BY <1>1 DEF Unlinks
<1>3. Without(list, S) = kept[Len(list)]
  BY DEF Without
<1>. QED  BY <1>2, <1>3

\* The elements kept of the first m: which they are, and that they stay in order.
Prefixed(T, list, S, m, u) ==
    /\ u \in Seq(T)
    /\ \A x : (\E a \in 1 .. Len(u) : u[a] = x) <=> x \notin S /\ \E i \in 1 .. m : list[i] = x
    /\ \A a, b \in 1 .. Len(u) : a < b =>
          \E i, j \in 1 .. m : i < j /\ list[i] = u[a] /\ list[j] = u[b]

LEMMA KeptPrefix ==
    ASSUME NEW T, NEW list \in Seq(T), NEW S, NEW F, Unlinks(list, S, F), NEW k \in 0 .. Len(list)
    PROVE  Prefixed(T, list, S, k, F[k])
<1>. DEFINE n == Len(list)
            M == {m \in Nat : m <= n => Prefixed(T, list, S, m, F[m])}
<1>1. n \in Nat /\ \A i \in 1 .. n : list[i] \in T
  BY LenProperties, ElementOfSeq
<1>2. \A i \in 0 .. n : F[i] = IF i = 0 THEN << >> ELSE IF list[i] \in S THEN F[i - 1]
                               ELSE Append(F[i - 1], list[i])
  BY DEF Unlinks
<1>. HIDE DEF n
<1>3. 0 \in M
  <2>1. F[0] = << >> /\ Len(<< >>) = 0 /\ << >> \in Seq(T)
    BY <1>1, <1>2
  <2>2. PICK u : u = F[0]
    OBVIOUS
  <2>3. u \in Seq(T) /\ ~ \E a \in 1 .. Len(u) : TRUE
    BY <2>1, <2>2
  <2>4. ~ \E i \in 1 .. 0 : TRUE
    OBVIOUS
  <2>5. Prefixed(T, list, S, 0, u)
    BY <2>3, <2>4 DEF Prefixed
  <2>. QED  BY <2>2, <2>5
<1>4. ASSUME NEW m \in M PROVE m + 1 \in M
  <2>. SUFFICES ASSUME m + 1 <= n PROVE Prefixed(T, list, S, m + 1, F[m + 1])
    OBVIOUS
  <2>1. m \in Nat /\ m <= n /\ m + 1 \in 1 .. n /\ m + 1 \in 0 .. n /\ m + 1 # 0 /\ m + 1 - 1 = m
    BY <1>1
  <2>2. Prefixed(T, list, S, m, F[m])
    BY <2>1
  <2>3. PICK u, x : u = F[m] /\ x = list[m + 1]
    OBVIOUS
  <2>4. F[m + 1] = IF x \in S THEN u ELSE Append(u, x)
    BY <1>2, <2>1, <2>3
  <2>5. u \in Seq(T) /\ x \in T /\ Len(u) \in Nat /\ Prefixed(T, list, S, m, u)
    BY <1>1, <2>1, <2>2, <2>3, LenProperties DEF Prefixed
  <2>6. /\ \A y : (\E i \in 1 .. m + 1 : list[i] = y) <=> y = x \/ \E i \in 1 .. m : list[i] = y
        /\ \A i \in 1 .. m : i \in 1 .. m + 1 /\ i < m + 1
        /\ m + 1 \in 1 .. m + 1
    <3>1. \A i \in 1 .. m + 1 : i = m + 1 \/ i \in 1 .. m
      BY <2>1
    <3>2. \A i \in 1 .. m : i \in 1 .. m + 1 /\ i < m + 1
      BY <2>1
    <3>3. m + 1 \in 1 .. m + 1
      BY <2>1
    <3>. QED  BY <2>3, <3>1, <3>2, <3>3
  <2>7. CASE x \in S
    <3>1. Prefixed(T, list, S, m + 1, u)
      <4>1. ASSUME NEW y
            PROVE  (\E a \in 1 .. Len(u) : u[a] = y) <=> y \notin S /\ \E i \in 1 .. m + 1 : list[i] = y
        BY <2>5, <2>6, <2>7 DEF Prefixed
      <4>2. ASSUME NEW a \in 1 .. Len(u), NEW b \in 1 .. Len(u), a < b
            PROVE  \E i, j \in 1 .. m + 1 : i < j /\ list[i] = u[a] /\ list[j] = u[b]
        <5>1. PICK i, j \in 1 .. m : i < j /\ list[i] = u[a] /\ list[j] = u[b]
          BY <2>5, <4>2 DEF Prefixed
        <5>. QED  BY <2>6, <5>1
      <4>. QED  BY <2>5, <4>1, <4>2 DEF Prefixed
    <3>. QED  BY <2>4, <2>7, <3>1
  <2>8. CASE x \notin S
    <3>1. PICK w : w = Append(u, x)
      OBVIOUS
    <3>2. /\ w \in Seq(T) /\ Len(w) = Len(u) + 1 /\ w[Len(u) + 1] = x
          /\ \A a \in 1 .. Len(u) : w[a] = u[a]
      BY <2>5, <3>1, AppendProperties
    <3>3. \A a \in 1 .. Len(w) : a = Len(u) + 1 \/ a \in 1 .. Len(u)
      BY <2>5, <3>2
    <3>4. Len(u) + 1 \in 1 .. Len(w) /\ \A a \in 1 .. Len(u) : a \in 1 .. Len(w)
      BY <2>5, <3>2
    <3>5. \A y : (\E a \in 1 .. Len(w) : w[a] = y) <=> y = x \/ \E a \in 1 .. Len(u) : u[a] = y
      BY <3>2, <3>3, <3>4
    <3>6. ASSUME NEW a \in 1 .. Len(w), NEW b \in 1 .. Len(w), a < b
          PROVE  \E i, j \in 1 .. m + 1 : i < j /\ list[i] = w[a] /\ list[j] = w[b]
      <4>1. a \in 1 .. Len(u) /\ w[a] = u[a]
        BY <2>5, <3>2, <3>6
      <4>2. PICK i \in 1 .. m : list[i] = u[a]
        BY <2>5, <4>1 DEF Prefixed
      <4>3. CASE b = Len(u) + 1
        BY <2>3, <2>6, <3>2, <4>1, <4>2, <4>3
      <4>4. CASE b \in 1 .. Len(u)
        <5>1. PICK p, q \in 1 .. m : p < q /\ list[p] = u[a] /\ list[q] = u[b]
          BY <2>5, <3>6, <4>1, <4>4 DEF Prefixed
        <5>. QED  BY <2>6, <3>2, <4>1, <4>4, <5>1
      <4>. QED  BY <3>3, <4>3, <4>4
    <3>7. \A y : (\E a \in 1 .. Len(w) : w[a] = y) <=> y \notin S /\ \E i \in 1 .. m + 1 : list[i] = y
      BY <2>5, <2>6, <2>8, <3>5 DEF Prefixed
    <3>8. Prefixed(T, list, S, m + 1, w)
      BY <3>2, <3>6, <3>7 DEF Prefixed
    <3>. QED  BY <2>4, <2>8, <3>1, <3>8
  <2>. QED  BY <2>7, <2>8
<1>. HIDE DEF M
<1>5. M \in SUBSET Nat
  BY DEF M
<1>6. M = Nat
  BY <1>3, <1>4, <1>5, InductionSet
<1>7. k \in M /\ k <= n
  BY <1>1, <1>6 DEF n
<1>. QED  BY <1>7 DEF M

\* Unlinking keeps the others, once each, and what is still to be visited.
LEMMA WithoutList ==
    ASSUME NEW T, NEW list \in Seq(T), Distinct(list), NEW S
    PROVE  /\ Without(list, S) \in Seq(T) /\ Distinct(Without(list, S))
           /\ Elems(Without(list, S)) = Elems(list) \ S
           /\ \A s \in Elems(list) \ S : From(Without(list, S), s) = From(list, s) \ S
<1>1. PICK u, n : u = Without(list, S) /\ n = Len(list)
  OBVIOUS
<1>2. n \in Nat /\ DOMAIN list = 1 .. n
  BY <1>1, LenProperties
<1>3. Prefixed(T, list, S, n, u)
  <2>1. PICK F : Unlinks(list, S, F) /\ u = F[n]
    BY <1>1, WithoutDef
  <2>2. n \in 0 .. Len(list)
    BY <1>1, <1>2
  <2>. QED  BY <2>1, <2>2, KeptPrefix
<1>4. u \in Seq(T) /\ Len(u) \in Nat /\ DOMAIN u = 1 .. Len(u)
  BY <1>3, LenProperties DEF Prefixed
<1>5. Elems(u) = Elems(list) \ S
  <2>1. \A x : x \in Elems(u) <=> \E a \in 1 .. Len(u) : u[a] = x
    BY <1>4 DEF Elems
  <2>2. \A x : x \in Elems(list) <=> \E i \in 1 .. n : list[i] = x
    BY <1>2 DEF Elems
  <2>3. \A x : x \in Elems(u) <=> x \in Elems(list) /\ x \notin S
    BY <1>3, <2>1, <2>2 DEF Prefixed
  <2>. QED  BY <2>3
<1>6. \A i, j \in 1 .. n : list[i] = list[j] => i = j
  BY <1>2 DEF Distinct
<1>7. ASSUME NEW a \in 1 .. Len(u), NEW b \in 1 .. Len(u), a < b PROVE u[a] # u[b]
  <2>1. PICK i, j \in 1 .. n : i < j /\ list[i] = u[a] /\ list[j] = u[b]
    BY <1>3, <1>7 DEF Prefixed
  <2>2. i # j
    BY <1>2, <2>1
  <2>. QED  BY <1>6, <2>1, <2>2
<1>8. Distinct(u)
  <2>1. ASSUME NEW a \in 1 .. Len(u), NEW b \in 1 .. Len(u), u[a] = u[b] PROVE a = b
    BY <1>4, <1>7, <2>1
  <2>. QED  BY <1>4, <2>1 DEF Distinct
<1>9. ASSUME NEW s \in Elems(list) \ S PROVE From(u, s) = From(list, s) \ S
  <2>1. ASSUME NEW x \in From(u, s) PROVE x \in From(list, s) /\ x \notin S
    <3>1. PICK a, b \in 1 .. Len(u) : a <= b /\ u[a] = s /\ u[b] = x
      BY <1>4 DEF From
    <3>2. x \in Elems(list) /\ x \notin S /\ \E i \in 1 .. n : list[i] = x
      BY <1>2, <1>5 DEF From, Elems
    <3>3. CASE a = b
      <4>1. PICK i \in 1 .. n : list[i] = x
        BY <3>2
      <4>2. i <= i /\ x = s
        BY <1>2, <3>1, <3>3
      <4>. QED  BY <1>2, <3>2, <4>1, <4>2 DEF From
    <3>4. CASE a # b
      <4>1. a < b
        BY <1>4, <3>1, <3>4
      <4>2. PICK i, j \in 1 .. n : i < j /\ list[i] = u[a] /\ list[j] = u[b]
        BY <1>3, <4>1 DEF Prefixed
      <4>3. i <= j
        BY <1>2, <4>2
      <4>. QED  BY <1>2, <3>1, <3>2, <4>2, <4>3 DEF From
    <3>. QED  BY <3>3, <3>4
  <2>2. ASSUME NEW x \in From(list, s), x \notin S PROVE x \in From(u, s)
    <3>1. PICK i, j \in 1 .. n : i <= j /\ list[i] = s /\ list[j] = x
      BY <1>2 DEF From
    <3>2. x \in Elems(u) /\ s \in Elems(u)
      BY <1>5, <2>2 DEF From
    <3>3. PICK a, b \in 1 .. Len(u) : u[a] = s /\ u[b] = x
      BY <1>4, <3>2 DEF Elems
    <3>4. ASSUME b < a PROVE FALSE
      <4>1. PICK p, q \in 1 .. n : p < q /\ list[p] = u[b] /\ list[q] = u[a]
        BY <1>3, <3>4 DEF Prefixed
      <4>2. p = j /\ q = i
        BY <1>6, <3>1, <3>3, <4>1
      <4>. QED  BY <1>2, <3>1, <4>1, <4>2
    <3>5. a <= b
      BY <1>4, <3>4
    <3>. QED  BY <1>4, <3>2, <3>3, <3>5 DEF From
  <2>. QED  BY <2>1, <2>2
<1>. QED  BY <1>1, <1>4, <1>5, <1>8, <1>9

\* A new element at the head leaves what a walk has still to visit.
LEMMA PrependList ==
    ASSUME NEW T, NEW list \in Seq(T), Distinct(list), NEW e \in T, e \notin Elems(list)
    PROVE  /\ <<e>> \o list \in Seq(T) /\ Distinct(<<e>> \o list)
           /\ Elems(<<e>> \o list) = Elems(list) \cup {e}
           /\ \A s \in Elems(list) : From(<<e>> \o list, s) = From(list, s)
<1>1. PICK u, n : u = <<e>> \o list /\ n = Len(list)
  OBVIOUS
<1>2. n \in Nat /\ DOMAIN list = 1 .. n
  BY <1>1, LenProperties
<1>3. u \in Seq(T) /\ Len(u) = n + 1 /\ u[1] = e /\ \A i \in 1 .. n : u[i + 1] = list[i]
  <2>1. <<e>> \in Seq(T) /\ Len(<<e>>) = 1 /\ <<e>>[1] = e
    OBVIOUS
  <2>2. PICK s : s = <<e>>
    OBVIOUS
  <2>3. /\ s \o list \in Seq(T) /\ Len(s \o list) = Len(s) + Len(list)
        /\ \A k \in 1 .. Len(s) + Len(list) :
              (s \o list)[k] = IF k <= Len(s) THEN s[k] ELSE list[k - Len(s)]
    BY <2>1, <2>2, ConcatProperties
  <2>4. u \in Seq(T) /\ Len(u) = n + 1
        /\ \A k \in 1 .. n + 1 : u[k] = IF k <= 1 THEN s[k] ELSE list[k - 1]
    BY <1>1, <1>2, <2>1, <2>2, <2>3
  <2>. QED  BY <1>2, <2>1, <2>2, <2>4
<1>4. DOMAIN u = 1 .. n + 1
  BY <1>3, LenProperties
<1>5. \A k \in 1 .. n + 1 : k = 1 \/ (k - 1 \in 1 .. n /\ u[k] = list[k - 1])
  <2>1. \A k \in 1 .. n + 1 : k = 1 \/ (k - 1 \in 1 .. n /\ k - 1 + 1 = k)
    BY <1>2
  <2>. QED  BY <1>3, <2>1
<1>6. 1 \in 1 .. n + 1 /\ \A i \in 1 .. n : i + 1 \in 1 .. n + 1
  BY <1>2
<1>7. Elems(u) = Elems(list) \cup {e}
  <2>1. \A x : x \in Elems(u) <=> \E k \in 1 .. n + 1 : u[k] = x
    BY <1>4 DEF Elems
  <2>2. \A x : x \in Elems(list) <=> \E i \in 1 .. n : list[i] = x
    BY <1>2 DEF Elems
  <2>3. \A x : x \in Elems(u) <=> x \in Elems(list) \/ x = e
    BY <1>3, <1>5, <1>6, <2>1, <2>2
  <2>. QED  BY <2>3
<1>8. Distinct(u)
  <2>1. \A i \in 1 .. n : list[i] # e
    BY <1>2 DEF Elems
  <2>2. ASSUME NEW i \in 1 .. n + 1, NEW j \in 1 .. n + 1, u[i] = u[j] PROVE i = j
    <3>1. CASE i = 1 \/ j = 1
      BY <1>3, <1>5, <2>1, <2>2, <3>1
    <3>2. CASE i # 1 /\ j # 1
      <4>1. i - 1 \in 1 .. n /\ j - 1 \in 1 .. n /\ list[i - 1] = list[j - 1]
        BY <1>5, <2>2, <3>2
      <4>2. i - 1 = j - 1
        BY <1>2, <4>1 DEF Distinct
      <4>. QED  BY <1>2, <4>2
    <3>. QED  BY <3>1, <3>2
  <2>. QED  BY <1>4, <2>2 DEF Distinct
<1>9. ASSUME NEW s \in Elems(list) PROVE From(u, s) = From(list, s)
  <2>1. s # e
    OBVIOUS
  <2>2. ASSUME NEW x \in From(u, s) PROVE x \in From(list, s)
    <3>1. PICK i, j \in 1 .. n + 1 : i <= j /\ u[i] = s /\ u[j] = x
      BY <1>4 DEF From
    <3>2. i # 1 /\ j # 1
      BY <1>2, <1>3, <2>1, <3>1
    <3>3. /\ i - 1 \in 1 .. n /\ j - 1 \in 1 .. n /\ i - 1 <= j - 1
          /\ list[i - 1] = s /\ list[j - 1] = x
      BY <1>2, <1>5, <3>1, <3>2
    <3>. QED  BY <1>2, <3>3 DEF From, Elems
  <2>3. ASSUME NEW x \in From(list, s) PROVE x \in From(u, s)
    <3>1. PICK i, j \in 1 .. n : i <= j /\ list[i] = s /\ list[j] = x
      BY <1>2 DEF From
    <3>2. /\ i + 1 \in 1 .. n + 1 /\ j + 1 \in 1 .. n + 1 /\ i + 1 <= j + 1
          /\ u[i + 1] = s /\ u[j + 1] = x
      BY <1>2, <1>3, <3>1
    <3>. QED  BY <1>4, <3>2 DEF From, Elems
  <2>. QED  BY <2>2, <2>3
<1>. QED  BY <1>1, <1>3, <1>7, <1>8, <1>9

\* A walk goes on with the next element, or ends with the last.
LEMMA NextInList ==
    ASSUME NEW T, NEW list \in Seq(T), Distinct(list), NEW s \in Elems(list),
           NEW i, i = CHOOSE j \in DOMAIN list : list[j] = s
    PROVE  /\ i = Len(list) => From(list, s) = {s}
           /\ i # Len(list) => /\ list[i + 1] \in Elems(list) /\ list[i + 1] # s
                               /\ From(list, s) = {s} \cup From(list, list[i + 1])
<1>1. PICK n : n = Len(list)
  OBVIOUS
<1>2. n \in Nat /\ DOMAIN list = 1 .. n
  BY <1>1, LenProperties
<1>3. i \in 1 .. n /\ list[i] = s
  BY <1>2 DEF Elems
<1>4. \A k \in 1 .. n : list[k] = s => k = i
  BY <1>2, <1>3 DEF Distinct
<1>5. From(list, s) = {list[j] : j \in i .. n}
  <2>1. \A j \in i .. n : j \in 1 .. n /\ i <= j
    BY <1>2, <1>3
  <2>2. \A j \in 1 .. n : i <= j => j \in i .. n
    BY <1>2, <1>3
  <2>3. ASSUME NEW x \in From(list, s) PROVE \E j \in i .. n : x = list[j]
    BY <1>2, <1>4, <2>2 DEF From
  <2>4. ASSUME NEW j \in i .. n PROVE list[j] \in From(list, s)
    BY <1>2, <1>3, <2>1 DEF From, Elems
  <2>5. PICK R : R = From(list, s)
    OBVIOUS
  <2>6. (\A x \in R : \E j \in i .. n : x = list[j]) /\ \A j \in i .. n : list[j] \in R
    BY <2>3, <2>4, <2>5
  <2>7. R = {list[j] : j \in i .. n}
    BY <2>6
  <2>. QED  BY <2>5, <2>7
<1>6. CASE i = n
  <2>0. n \in Int
    BY <1>2
  <2>1. \A j \in i .. n : j = i
    <3>1. \A j \in n .. n : j = n
      BY <2>0
    <3>. QED  BY <1>6, <3>1
  <2>2. i \in i .. n
    BY <1>2, <1>3, <1>6
  <2>. QED  BY <1>1, <1>3, <1>5, <1>6, <2>1, <2>2
<1>7. CASE i # n
  <2>1. i + 1 \in 1 .. n /\ i \in i .. n
    BY <1>2, <1>3, <1>7
  <2>5. \A j \in i .. n : j = i \/ j \in i + 1 .. n
    BY <1>2, <1>3
  <2>6. \A j \in i + 1 .. n : j \in i .. n
    BY <1>2, <1>3
  <2>2. From(list, list[i + 1]) = {list[j] : j \in i + 1 .. n}
    <3>1. \A k \in 1 .. n : list[k] = list[i + 1] => k = i + 1
      BY <1>2, <2>1 DEF Distinct
    <3>2. \A j \in i + 1 .. n : j \in 1 .. n /\ i + 1 <= j
      BY <1>2, <1>3
    <3>3. \A j \in 1 .. n : i + 1 <= j => j \in i + 1 .. n
      BY <1>2, <1>3
    <3>4. ASSUME NEW x \in From(list, list[i + 1]) PROVE \E j \in i + 1 .. n : x = list[j]
      BY <1>2, <3>1, <3>3 DEF From
    <3>5. ASSUME NEW j \in i + 1 .. n PROVE list[j] \in From(list, list[i + 1])
      BY <1>2, <2>1, <3>2 DEF From, Elems
    <3>6. \A x \in {list[j] : j \in i + 1 .. n} : x \in From(list, list[i + 1])
      BY <3>5
    <3>7. \A x \in From(list, list[i + 1]) : x \in {list[j] : j \in i + 1 .. n}
      BY <3>4
    <3>. QED  BY <3>6, <3>7
  <2>3. list[i + 1] \in Elems(list) /\ list[i + 1] # s
    <3>1. i \in Int
      BY <1>2, <1>3
    <3>2. \A m \in Int : m + 1 # m
      OBVIOUS
    <3>. QED  BY <1>2, <1>4, <2>1, <3>1, <3>2 DEF Elems
  <2>4. From(list, s) = {s} \cup From(list, list[i + 1])
    BY <1>3, <1>5, <2>1, <2>2, <2>5, <2>6
  <2>. QED  BY <1>1, <1>7, <2>3, <2>4
<1>. QED  BY <1>1, <1>6, <1>7

\* A walk begins at the head and has everything to visit.
LEMMA HeadOfList ==
    ASSUME NEW T, NEW list \in Seq(T)
    PROVE  /\ list = << >> => Elems(list) = {}
           /\ list # << >> => Head(list) \in Elems(list) /\ From(list, Head(list)) = Elems(list)
<1>1. PICK n : n = Len(list)
  OBVIOUS
<1>2. n \in Nat /\ DOMAIN list = 1 .. n
  BY <1>1, LenProperties
<1>3. CASE list = << >>
  <2>1. n = 0 /\ 1 .. 0 = {}
    BY <1>1, <1>3
  <2>2. DOMAIN list = {}
    BY <1>2, <2>1
  <2>. QED  BY <1>3, <2>2 DEF Elems
<1>4. CASE list # << >>
  <2>1. 1 \in 1 .. n /\ Head(list) = list[1]
    BY <1>1, <1>2, <1>4, EmptySeq, HeadTailProperties
  <2>2. \A j \in 1 .. n : 1 <= j
    BY <1>2
  <2>. QED  BY <1>2, <1>4, <2>1, <2>2 DEF From, Elems
<1>. QED  BY <1>3, <1>4
=============================================================================
