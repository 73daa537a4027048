------------------------------ MODULE ListLemmas ------------------------------
(***************************************************************************)
(* What the walks over linked lists of Lists compute, and the order of the *)
(* elements of a list.  Induction over the numbers rests on the order <    *)
(* being well founded; a walk is a function over the positions 1 .. n + 1. *)
(***************************************************************************)
EXTENDS Lists, Integers, SequencesExt, TLAPS, FiniteSetTheorems, SequenceTheorems

\* A set of numbers that is not empty has a least element.
LEMMA LeastNumber ==
  ASSUME NEW T \in SUBSET Nat, T # {}
  PROVE  \E n \in T : \A k \in T : n <= k
<1>1. IsWellFoundedOn(OpToRel(<, Nat), Nat)
  BY NatLessThanWellFounded
<1>2. \E n \in T : \A k \in T : ~(<<k, n>> \in OpToRel(<, Nat))
  BY <1>1, WFMin
<1>3. PICK n \in T : \A k \in T : ~(<<k, n>> \in {p \in Nat \X Nat : p[1] < p[2]})
  BY <1>2 DEF OpToRel
<1>4. ASSUME NEW k \in T PROVE n <= k
  <2>1. <<k, n>> \in Nat \X Nat /\ ~(<<k, n>>[1] < <<k, n>>[2])
    BY <1>3
  <2>2. QED BY <2>1
<1>5. QED BY <1>4

\* A set that holds 0, and n + 1 with n, holds every number.
LEMMA SetInduction ==
  ASSUME NEW T, 0 \in T, \A n \in Nat : n \in T => n + 1 \in T
  PROVE  \A n \in Nat : n \in T
<1>1. SUFFICES ASSUME Nat \ T # {} PROVE FALSE
  OBVIOUS
<1>2. PICK n \in Nat \ T : \A k \in Nat \ T : n <= k
  BY LeastNumber, <1>1
<1>3. n - 1 \in Nat /\ n - 1 \notin T
  BY <1>2
<1>4. QED BY <1>2, <1>3

\* The walk of Filter over the first n elements of s: g[i] is what it left of those
\* before the i-th.
Walk(g, s, S, n) ==
  /\ g[1] = <<>>
  /\ \A i \in 1 .. n : g[i + 1] = IF s[i] \in S THEN Append(g[i], s[i]) ELSE g[i]

\* There is such a walk, by induction on the part of s it covers.
LEMMA WalkExists ==
  ASSUME NEW M, NEW s \in Seq(M), NEW S
  PROVE  \E g \in [1 .. Len(s) + 1 -> Seq(M)] : Walk(g, s, S, Len(s))
<1> DEFINE T == {n \in Nat : n <= Len(s) => \E g \in [1 .. n + 1 -> Seq(M)] : Walk(g, s, S, n)}
<1>1. 0 \in T
  <2>1. [i \in 1 .. 1 |-> <<>>] \in [1 .. 0 + 1 -> Seq(M)]
    OBVIOUS
  <2>2. Walk([i \in 1 .. 1 |-> <<>>], s, S, 0)
    BY DEF Walk
  <2>3. QED BY <2>1, <2>2
<1>2. ASSUME NEW n \in Nat, n \in T PROVE n + 1 \in T
  <2>1. SUFFICES ASSUME n + 1 <= Len(s)
                 PROVE  \E g \in [1 .. (n + 1) + 1 -> Seq(M)] : Walk(g, s, S, n + 1)
    OBVIOUS
  <2>2. PICK g \in [1 .. n + 1 -> Seq(M)] : Walk(g, s, S, n)
    BY <1>2, <2>1
  <2>3. s[n + 1] \in M /\ g[n + 1] \in Seq(M)
    BY <2>1
  <2> DEFINE last == IF s[n + 1] \in S THEN Append(g[n + 1], s[n + 1]) ELSE g[n + 1]
             h == [i \in 1 .. (n + 1) + 1 |-> IF i = (n + 1) + 1 THEN last ELSE g[i]]
  <2>4. last \in Seq(M)
    BY <2>3
  <2>5. h \in [1 .. (n + 1) + 1 -> Seq(M)]
    BY <2>4
  <2>6. Walk(h, s, S, n + 1)
    <3>1. h[1] = <<>>
      BY <2>2 DEF Walk
    <3>2. ASSUME NEW i \in 1 .. n + 1
          PROVE  h[i + 1] = IF s[i] \in S THEN Append(h[i], s[i]) ELSE h[i]
      <4>1. h[i] = g[i]
        OBVIOUS
      <4>2. CASE i = n + 1
        <5>1. h[i + 1] = last
          BY <4>2
        <5>2. QED BY <4>1, <4>2, <5>1
      <4>3. CASE i \in 1 .. n
        <5>1. h[i + 1] = g[i + 1]
          BY <4>3
        <5>2. QED BY <4>1, <4>3, <5>1, <2>2 DEF Walk
      <4>4. QED BY <4>2, <4>3
    <3>3. QED BY <3>1, <3>2 DEF Walk
  <2>7. QED BY <2>5, <2>6
<1>3. \A n \in Nat : n \in T
  <2> HIDE DEF T
  <2>1. QED BY <1>1, <1>2, SetInduction
<1>4. QED BY <1>3

\* Filter returns the last element of such a walk.
LEMMA FilterWalks ==
  ASSUME NEW M, NEW s \in Seq(M), NEW S
  PROVE  \E g \in [1 .. Len(s) + 1 -> Seq(M)] :
           Walk(g, s, S, Len(s)) /\ Filter(s, S) = g[Len(s) + 1]
<1> DEFINE Eq(f) == f = [i \in 1 .. Len(s) + 1 |->
              IF i = 1 THEN <<>>
              ELSE IF s[i - 1] \in S THEN Append(f[i - 1], s[i - 1]) ELSE f[i - 1]]
           f0 == CHOOSE f : Eq(f)
<1>1. PICK g \in [1 .. Len(s) + 1 -> Seq(M)] : Walk(g, s, S, Len(s))
  BY WalkExists
<1>2. Eq(g)
  <2> DEFINE h == [i \in 1 .. Len(s) + 1 |->
              IF i = 1 THEN <<>>
              ELSE IF s[i - 1] \in S THEN Append(g[i - 1], s[i - 1]) ELSE g[i - 1]]
  <2>1. ASSUME NEW i \in 1 .. Len(s) + 1 PROVE g[i] = h[i]
    <3>1. CASE i = 1
      BY <3>1, <1>1 DEF Walk
    <3>2. CASE i # 1
      <4>1. i - 1 \in 1 .. Len(s) /\ (i - 1) + 1 = i
        BY <3>2
      <4>2. g[i] = IF s[i - 1] \in S THEN Append(g[i - 1], s[i - 1]) ELSE g[i - 1]
        BY <1>1, <4>1 DEF Walk
      <4>3. QED BY <3>2, <4>2
    <3>3. QED BY <3>1, <3>2
  <2>2. h = [i \in 1 .. Len(s) + 1 |-> h[i]] /\ g = [i \in 1 .. Len(s) + 1 |-> g[i]]
    OBVIOUS
  <2>3. g = h
    BY <2>1, <2>2
  <2>4. QED BY <2>3
<1>3. Filter(s, S) = f0[Len(s) + 1]
  BY DEF Filter
<1>4. Eq(f0)
  BY <1>2
<1>5. \A i \in 1 .. Len(s) + 1 : f0[i] = IF i = 1 THEN <<>> ELSE
            IF s[i - 1] \in S THEN Append(f0[i - 1], s[i - 1]) ELSE f0[i - 1]
  <2> HIDE DEF f0
  <2>1. QED BY <1>4
<1> DEFINE T == {n \in Nat : n <= Len(s) => f0[n + 1] = g[n + 1]}
<1>6. \A n \in Nat : n \in T
  <2> HIDE DEF f0
  <2>1. 0 \in T
    <3>1. f0[1] = <<>>
      BY <1>5
    <3>2. g[1] = <<>>
      BY <1>1 DEF Walk
    <3>3. QED BY <3>1, <3>2
  <2>2. ASSUME NEW n \in Nat, n \in T PROVE n + 1 \in T
    <3>1. SUFFICES ASSUME n + 1 <= Len(s) PROVE f0[(n + 1) + 1] = g[(n + 1) + 1]
      OBVIOUS
    <3>2. /\ f0[n + 1] = g[n + 1] /\ n + 1 \in 1 .. Len(s)
          /\ (n + 1) + 1 \in 1 .. Len(s) + 1 /\ ((n + 1) + 1) - 1 = n + 1 /\ (n + 1) + 1 # 1
      BY <2>2, <3>1
    <3>3. g[(n + 1) + 1] = IF s[n + 1] \in S THEN Append(g[n + 1], s[n + 1]) ELSE g[n + 1]
      BY <1>1, <3>2 DEF Walk
    <3>4. f0[(n + 1) + 1] = IF s[n + 1] \in S THEN Append(f0[n + 1], s[n + 1]) ELSE f0[n + 1]
      BY <1>5, <3>2
    <3>5. QED BY <3>2, <3>3, <3>4
  <2> HIDE DEF T
  <2>3. QED BY <2>1, <2>2, SetInduction
<1>7. f0[Len(s) + 1] = g[Len(s) + 1]
  <2> HIDE DEF f0
  <2>1. QED BY <1>6
<1>8. QED
  <2> HIDE DEF f0
  <2>1. QED BY <1>1, <1>3, <1>7

\* t is the list s without the elements outside of S: h tells where each stood.
Embeds(h, t, s, S, n) ==
  /\ h \in [1 .. Len(t) -> 1 .. n]
  /\ \A i \in 1 .. Len(t) : t[i] = s[h[i]] /\ t[i] \in S
  /\ \A i, j \in 1 .. Len(t) : i < j => h[i] < h[j]
  /\ \A p \in 1 .. n : s[p] \in S => \E i \in 1 .. Len(t) : h[i] = p

\* By induction on the walk: what Filter returns is s without the elements outside
\* of S, in their order.
LEMMA FilterEmbeds ==
  ASSUME NEW M, NEW s \in Seq(M), NEW S
  PROVE  /\ Filter(s, S) \in Seq(M)
         /\ \E h : Embeds(h, Filter(s, S), s, S, Len(s))
<1>1. PICK g \in [1 .. Len(s) + 1 -> Seq(M)] :
        Walk(g, s, S, Len(s)) /\ Filter(s, S) = g[Len(s) + 1]
  BY FilterWalks
<1> DEFINE T == {n \in Nat : n <= Len(s) => \E h : Embeds(h, g[n + 1], s, S, n)}
<1>2. 0 \in T
  <2>1. g[1] = <<>> /\ Len(g[1]) = 0
    BY <1>1 DEF Walk
  <2>2. Embeds([i \in 1 .. 0 |-> i], g[1], s, S, 0)
    BY <2>1 DEF Embeds
  <2>3. QED BY <2>2
<1>3. ASSUME NEW n \in Nat, n \in T PROVE n + 1 \in T
  <2>1. SUFFICES ASSUME n + 1 <= Len(s) PROVE \E h : Embeds(h, g[(n + 1) + 1], s, S, n + 1)
    OBVIOUS
  <2>2. PICK h : Embeds(h, g[n + 1], s, S, n)
    BY <1>3, <2>1
  <2>3. /\ n + 1 \in 1 .. Len(s) /\ n + 1 \in 1 .. Len(s) + 1
        /\ s[n + 1] \in M /\ g[n + 1] \in Seq(M)
    BY <2>1
  <2>4. g[(n + 1) + 1] = IF s[n + 1] \in S THEN Append(g[n + 1], s[n + 1]) ELSE g[n + 1]
    BY <1>1, <2>3 DEF Walk
  <2>5. CASE s[n + 1] \notin S
    <3>1. g[(n + 1) + 1] = g[n + 1]
      BY <2>4, <2>5
    <3>2. h \in [1 .. Len(g[n + 1]) -> 1 .. n + 1]
      BY <2>2 DEF Embeds
    <3>4. ASSUME NEW p \in 1 .. n + 1, s[p] \in S
          PROVE  \E i \in 1 .. Len(g[n + 1]) : h[i] = p
      <4>1. p \in 1 .. n
        BY <2>5, <3>4
      <4>2. QED BY <2>2, <3>4, <4>1 DEF Embeds
    <3>5. Embeds(h, g[n + 1], s, S, n + 1)
      BY <2>2, <3>2, <3>4 DEF Embeds
    <3>6. QED BY <3>1, <3>5
  <2>6. CASE s[n + 1] \in S
    <3> DEFINE t == g[(n + 1) + 1]
               k == [i \in 1 .. Len(g[n + 1]) + 1 |-> IF i = Len(g[n + 1]) + 1 THEN n + 1 ELSE h[i]]
    <3>1. t = Append(g[n + 1], s[n + 1])
      BY <2>4, <2>6
    <3>2. /\ Len(t) = Len(g[n + 1]) + 1 /\ Len(g[n + 1]) \in Nat
          /\ \A i \in 1 .. Len(g[n + 1]) : t[i] = g[n + 1][i]
          /\ t[Len(g[n + 1]) + 1] = s[n + 1]
      BY <2>3, <3>1, AppendProperties
    <3> HIDE DEF t
    <3>3. k \in [1 .. Len(t) -> 1 .. n + 1]
      BY <2>2, <3>2 DEF Embeds
    <3>4. ASSUME NEW i \in 1 .. Len(t) PROVE t[i] = s[k[i]] /\ t[i] \in S
      <4>1. CASE i = Len(g[n + 1]) + 1
        BY <2>6, <3>2, <4>1
      <4>2. CASE i \in 1 .. Len(g[n + 1])
        BY <2>2, <3>2, <4>2 DEF Embeds
      <4>3. QED BY <3>2, <4>1, <4>2
    <3>5. ASSUME NEW i \in 1 .. Len(t), NEW j \in 1 .. Len(t), i < j PROVE k[i] < k[j]
      <4>1. i \in 1 .. Len(g[n + 1]) /\ k[i] = h[i] /\ h[i] \in 1 .. n
        <5>1. i \in 1 .. Len(g[n + 1]) /\ i # Len(g[n + 1]) + 1
          BY <3>2, <3>5
        <5>2. k[i] = h[i]
          BY <5>1
        <5>3. h[i] \in 1 .. n
          BY <2>2, <5>1 DEF Embeds
        <5>4. QED BY <5>1, <5>2, <5>3
      <4>2. CASE j = Len(g[n + 1]) + 1
        BY <4>1, <4>2
      <4>3. CASE j \in 1 .. Len(g[n + 1])
        <5>1. h[i] < h[j] /\ k[j] = h[j]
          BY <2>2, <3>5, <4>1, <4>3 DEF Embeds
        <5>2. QED BY <4>1, <5>1
      <4>4. QED BY <3>2, <4>2, <4>3
    <3>6. ASSUME NEW p \in 1 .. n + 1, s[p] \in S PROVE \E i \in 1 .. Len(t) : k[i] = p
      <4>1. CASE p = n + 1
        <5>1. Len(g[n + 1]) + 1 \in 1 .. Len(t) /\ k[Len(g[n + 1]) + 1] = p
          BY <4>1, <3>2
        <5>2. QED BY <5>1
      <4>2. CASE p \in 1 .. n
        <5>1. PICK i \in 1 .. Len(g[n + 1]) : h[i] = p
          BY <2>2, <3>6, <4>2 DEF Embeds
        <5>2. i \in 1 .. Len(t) /\ k[i] = p
          BY <5>1, <3>2
        <5>3. QED BY <5>2
      <4> HIDE DEF k
      <4>3. QED BY <4>1, <4>2
    <3>7. Embeds(k, t, s, S, n + 1)
      <4> HIDE DEF k
      <4>1. QED BY <3>3, <3>4, <3>5, <3>6 DEF Embeds
    <3>8. QED BY <3>7 DEF t
  <2>7. QED BY <2>5, <2>6
<1>4. \A n \in Nat : n \in T
  <2> HIDE DEF T
  <2>1. QED BY <1>2, <1>3, SetInduction
<1>5. Len(s) \in T
  <2> HIDE DEF T
  <2>1. QED BY <1>4
<1>6. QED BY <1>1, <1>5

-----------------------------------------------------------------------------
\* In the list s one comes from k to m, or they are the same.
Precedes(s, k, m) == \E i, j \in DOMAIN s : i <= j /\ s[i] = k /\ s[j] = m

\* The elements that are left.
LEMMA FilterProperties ==
  ASSUME NEW M, NEW s \in Seq(M), NEW S
  PROVE  /\ Filter(s, S) \in Seq(M)
         /\ ToSet(Filter(s, S)) = ToSet(s) \cap S
         /\ IsInjective(s) => IsInjective(Filter(s, S))
<1> DEFINE t == Filter(s, S)
<1>1. t \in Seq(M) /\ DOMAIN s = 1 .. Len(s) /\ DOMAIN t = 1 .. Len(t) /\ Len(t) \in Nat
  BY FilterEmbeds
<1>2. PICK h : Embeds(h, t, s, S, Len(s))
  BY FilterEmbeds
<1> HIDE DEF t
<1>3. ToSet(t) \subseteq ToSet(s) \cap S
  BY <1>1, <1>2 DEF Embeds, ToSet
<1>4. ASSUME NEW m \in ToSet(s) \cap S PROVE m \in ToSet(t)
  <2>1. PICK p \in 1 .. Len(s) : s[p] = m
    BY <1>1 DEF ToSet
  <2>2. PICK i \in 1 .. Len(t) : h[i] = p
    BY <1>2, <1>4, <2>1 DEF Embeds
  <2>3. t[i] = m
    BY <1>2, <2>1, <2>2 DEF Embeds
  <2>4. QED BY <1>1, <2>3 DEF ToSet
<1>5. ASSUME IsInjective(s), NEW i \in DOMAIN t, NEW j \in DOMAIN t, t[i] = t[j] PROVE i = j
  <2>1. h[i] \in DOMAIN s /\ h[j] \in DOMAIN s /\ s[h[i]] = s[h[j]]
    BY <1>1, <1>2, <1>5 DEF Embeds
  <2>2. h[i] = h[j]
    BY <1>5, <2>1 DEF IsInjective
  <2>3. ~(i < j) /\ ~(j < i) /\ i \in Nat /\ j \in Nat
    <3>1. h[i] \in 1 .. Len(s) /\ h[j] \in 1 .. Len(s)
      BY <1>1, <1>2 DEF Embeds
    <3>2. QED BY <1>1, <1>2, <2>2, <3>1 DEF Embeds
  <2>4. QED BY <2>3
<1>6. IsInjective(s) => IsInjective(t)
  BY <1>5 DEF IsInjective
<1>7. QED BY <1>1, <1>3, <1>4, <1>6 DEF t

\* Two elements that are left stand in the order they stood in.
LEMMA FilterKeepsOrder ==
  ASSUME NEW M, NEW s \in Seq(M), NEW S, IsInjective(s), NEW k \in S, NEW m \in S
  PROVE  Precedes(Filter(s, S), k, m) <=> Precedes(s, k, m)
<1> DEFINE t == Filter(s, S)
<1>1. t \in Seq(M) /\ DOMAIN s = 1 .. Len(s) /\ DOMAIN t = 1 .. Len(t) /\ Len(t) \in Nat
  BY FilterEmbeds
<1>2. PICK h : Embeds(h, t, s, S, Len(s))
  BY FilterEmbeds
<1> HIDE DEF t
<1>3. \A i \in DOMAIN t : h[i] \in DOMAIN s /\ h[i] \in Nat /\ t[i] = s[h[i]]
  BY <1>1, <1>2 DEF Embeds
<1>4. ASSUME NEW i \in DOMAIN t, NEW j \in DOMAIN t PROVE i <= j <=> h[i] <= h[j]
  <2>1. i \in Nat /\ j \in Nat
    BY <1>1
  <2>2. CASE i = j
    BY <1>3, <2>1, <2>2
  <2>3. CASE i < j
    BY <1>1, <1>2, <1>3, <2>1, <2>3 DEF Embeds
  <2>4. CASE j < i
    BY <1>1, <1>2, <1>3, <2>1, <2>4 DEF Embeds
  <2>5. QED BY <2>1, <2>2, <2>3, <2>4
<1>5. ASSUME Precedes(t, k, m) PROVE Precedes(s, k, m)
  BY <1>3, <1>4, <1>5 DEF Precedes
<1>6. ASSUME Precedes(s, k, m) PROVE Precedes(t, k, m)
  <2>1. PICK p \in DOMAIN s, q \in DOMAIN s : p <= q /\ s[p] = k /\ s[q] = m
    BY <1>6 DEF Precedes
  <2>2. PICK i \in DOMAIN t : h[i] = p
    BY <1>1, <1>2, <2>1 DEF Embeds
  <2>3. PICK j \in DOMAIN t : h[j] = q
    BY <1>1, <1>2, <2>1 DEF Embeds
  <2>4. i <= j /\ t[i] = k /\ t[j] = m
    BY <1>3, <1>4, <2>1, <2>2, <2>3
  <2>5. QED BY <2>4 DEF Precedes
<1>7. QED BY <1>5, <1>6 DEF t

\* A new element at the head of a list.
LEMMA ConsProperties ==
  ASSUME NEW M, NEW s \in Seq(M), NEW x \in M
  PROVE  /\ <<x>> \o s \in Seq(M)
         /\ ToSet(<<x>> \o s) = ToSet(s) \cup {x}
         /\ IsInjective(s) /\ x \notin ToSet(s) =>
              /\ IsInjective(<<x>> \o s)
              /\ \A k, m : k # x => (Precedes(<<x>> \o s, k, m) <=> Precedes(s, k, m))
<1> DEFINE t == <<x>> \o s
<1>1. /\ t \in Seq(M) /\ Len(t) = Len(s) + 1 /\ Len(s) \in Nat
      /\ DOMAIN t = 1 .. Len(s) + 1 /\ DOMAIN s = 1 .. Len(s)
      /\ t[1] = x /\ \A i \in 1 .. Len(s) : t[i + 1] = s[i]
  OBVIOUS
<1> HIDE DEF t
<1>2. ASSUME NEW i \in DOMAIN t PROVE i = 1 \/ \E j \in DOMAIN s : i = j + 1 /\ t[i] = s[j]
  <2>1. CASE i = 1
    BY <2>1
  <2>2. CASE i # 1
    <3>1. i - 1 \in DOMAIN s /\ i = (i - 1) + 1
      BY <1>1, <2>2
    <3>2. QED BY <1>1, <3>1
  <2>3. QED BY <2>1, <2>2
<1>3. \A j \in DOMAIN s : j + 1 \in DOMAIN t /\ t[j + 1] = s[j] /\ j + 1 # 1 /\ j \in Nat
  BY <1>1
<1>4. 1 \in DOMAIN t
  BY <1>1
<1>5. ToSet(t) = ToSet(s) \cup {x}
  BY <1>1, <1>2, <1>3, <1>4 DEF ToSet
<1>6. ASSUME IsInjective(s), x \notin ToSet(s) PROVE IsInjective(t)
  <2>1. \A j \in DOMAIN s : s[j] # x
    BY <1>6 DEF ToSet
  <2>2. QED BY <1>1, <1>2, <1>3, <1>6, <2>1 DEF IsInjective
<1>7. ASSUME x \notin ToSet(s), NEW k, NEW m, k # x PROVE Precedes(t, k, m) <=> Precedes(s, k, m)
  <2>1. ASSUME Precedes(t, k, m) PROVE Precedes(s, k, m)
    <3>1. PICK i \in DOMAIN t, j \in DOMAIN t : i <= j /\ t[i] = k /\ t[j] = m
      BY <2>1 DEF Precedes
    <3>2. PICK p \in DOMAIN s : i = p + 1 /\ t[i] = s[p]
      BY <1>1, <1>2, <1>7, <3>1
    <3>3. j # 1
      BY <1>3, <3>1, <3>2
    <3>4. PICK q \in DOMAIN s : j = q + 1 /\ t[j] = s[q]
      BY <1>2, <3>3
    <3>5. p <= q
      BY <1>3, <3>1, <3>2, <3>4
    <3>6. QED BY <3>1, <3>2, <3>4, <3>5 DEF Precedes
  <2>2. ASSUME Precedes(s, k, m) PROVE Precedes(t, k, m)
    <3>1. PICK p \in DOMAIN s, q \in DOMAIN s : p <= q /\ s[p] = k /\ s[q] = m
      BY <2>2 DEF Precedes
    <3>2. p + 1 <= q + 1 /\ p + 1 \in DOMAIN t /\ q + 1 \in DOMAIN t
          /\ t[p + 1] = k /\ t[q + 1] = m
      BY <1>3, <3>1
    <3>3. QED BY <3>2 DEF Precedes
  <2>3. QED BY <2>1, <2>2
<1>8. QED BY <1>1, <1>5, <1>6, <1>7 DEF t

\* The enumeration of a finite set.
LEMMA SetToSeqProperties ==
  ASSUME NEW S, IsFiniteSet(S)
  PROVE  /\ SetToSeq(S) \in Seq(S)
         /\ IsInjective(SetToSeq(S))
         /\ ToSet(SetToSeq(S)) = S
<1> DEFINE n == Cardinality(S)
<1>1. n \in Nat /\ ExistsBijection(1 .. n, S)
  BY FS_CardinalityType
<1>2. PICK f : f \in Bijection(1 .. n, S)
  BY <1>1 DEF ExistsBijection
<1>3. f \in [1 .. n -> S] /\ IsInjective(f)
  BY <1>2 DEF Bijection, Injection
<1>4. SetToSeq(S) \in [1 .. n -> S] /\ IsInjective(SetToSeq(S))
  BY <1>3 DEF SetToSeq
<1> DEFINE t == SetToSeq(S)
<1> HIDE DEF t
<1>5. t \in Injection(1 .. n, S)
  BY <1>4 DEF t, Injection
<1>6. Cardinality(1 .. n) = Cardinality(S) /\ IsFiniteSet(1 .. n)
  BY <1>1, FS_Interval
<1>7. t \in Surjection(1 .. n, S)
  BY <1>5, <1>6, FS_Injection
<1>8. \A m \in S : \E i \in 1 .. n : t[i] = m
  BY <1>7 DEF Surjection
<1>9. ToSet(t) = S
  BY <1>4, <1>8 DEF ToSet, t
<1>10. t \in Seq(S)
  BY <1>1, <1>4 DEF t
<1>11. QED BY <1>4, <1>9, <1>10 DEF t

\* Two lists without a common element.
LEMMA JoinProperties ==
  ASSUME NEW M, NEW s \in Seq(M), NEW t \in Seq(M)
  PROVE  /\ s \o t \in Seq(M)
         /\ ToSet(s \o t) = ToSet(s) \cup ToSet(t)
         /\ IsInjective(s) /\ IsInjective(t) /\ ToSet(s) \cap ToSet(t) = {} =>
              IsInjective(s \o t)
<1> SUFFICES ASSUME NEW u, u = s \o t
             PROVE  /\ u \in Seq(M) /\ ToSet(u) = ToSet(s) \cup ToSet(t)
                    /\ IsInjective(s) /\ IsInjective(t) /\ ToSet(s) \cap ToSet(t) = {} =>
                         IsInjective(u)
  OBVIOUS
<1>1. /\ u \in Seq(M) /\ Len(u) = Len(s) + Len(t) /\ Len(s) \in Nat /\ Len(t) \in Nat
      /\ DOMAIN u = 1 .. Len(s) + Len(t) /\ DOMAIN s = 1 .. Len(s) /\ DOMAIN t = 1 .. Len(t)
      /\ \A i \in 1 .. Len(s) : u[i] = s[i]
      /\ \A i \in 1 .. Len(t) : u[i + Len(s)] = t[i]
  OBVIOUS
<1>2. ASSUME NEW i \in DOMAIN u
      PROVE  \/ i \in DOMAIN s /\ u[i] = s[i]
             \/ \E j \in DOMAIN t : i = j + Len(s) /\ u[i] = t[j]
  <2>1. CASE i <= Len(s)
    BY <1>1, <2>1
  <2>2. CASE i > Len(s)
    <3>1. i - Len(s) \in DOMAIN t /\ i = (i - Len(s)) + Len(s)
      BY <1>1, <2>2
    <3>2. QED BY <1>1, <3>1
  <2>3. QED BY <1>1, <2>1, <2>2
<1>3. \A i \in DOMAIN s : i \in DOMAIN u /\ u[i] = s[i]
  BY <1>1
<1>4. \A j \in DOMAIN t : j + Len(s) \in DOMAIN u /\ u[j + Len(s)] = t[j]
  BY <1>1
<1>5. ToSet(u) = ToSet(s) \cup ToSet(t)
  <2>1. \A i \in DOMAIN u : u[i] \in ToSet(s) \cup ToSet(t)
    BY <1>2 DEF ToSet
  <2>2. \A i \in DOMAIN s : s[i] \in ToSet(u)
    BY <1>3 DEF ToSet
  <2>3. \A j \in DOMAIN t : t[j] \in ToSet(u)
    BY <1>4 DEF ToSet
  <2>4. QED BY <2>1, <2>2, <2>3 DEF ToSet
<1>6. ASSUME IsInjective(s), IsInjective(t), ToSet(s) \cap ToSet(t) = {} PROVE IsInjective(u)
  <2>1. \A i \in DOMAIN s, j \in DOMAIN t : s[i] # t[j]
    BY <1>6 DEF ToSet
  <2>2. ASSUME NEW i \in DOMAIN u, NEW j \in DOMAIN u, u[i] = u[j] PROVE i = j
    <3>1. CASE i \in DOMAIN s /\ u[i] = s[i]
      <4>1. j \in DOMAIN s /\ u[j] = s[j]
        BY <1>2, <2>1, <2>2, <3>1
      <4>2. QED BY <1>6, <2>2, <3>1, <4>1 DEF IsInjective
    <3>2. CASE \E p \in DOMAIN t : i = p + Len(s) /\ u[i] = t[p]
      <4>1. PICK p \in DOMAIN t : i = p + Len(s) /\ u[i] = t[p]
        BY <3>2
      <4>2. PICK q \in DOMAIN t : j = q + Len(s) /\ u[j] = t[q]
        BY <1>2, <2>1, <2>2, <4>1
      <4>3. p = q
        BY <1>6, <2>2, <4>1, <4>2 DEF IsInjective
      <4>4. QED BY <4>1, <4>2, <4>3
    <3>3. QED BY <1>2, <3>1, <3>2
  <2>3. QED BY <2>2 DEF IsInjective
<1>7. QED BY <1>1, <1>5, <1>6

\* The head of a list comes before all others.
LEMMA HeadProperties ==
  ASSUME NEW M, NEW s \in Seq(M)
  PROVE  /\ s = <<>> => ToSet(s) = {}
         /\ s # <<>> => Head(s) \in ToSet(s) /\ \A m \in ToSet(s) : Precedes(s, Head(s), m)
<1>1. DOMAIN s = 1 .. Len(s) /\ Len(s) \in Nat
  OBVIOUS
<1>2. ASSUME s = <<>> PROVE ToSet(s) = {}
  BY <1>2 DEF ToSet
<1>3. ASSUME s # <<>> PROVE 1 \in DOMAIN s /\ s[1] = Head(s)
  BY <1>1, <1>3
<1>4. ASSUME s # <<>>, NEW m \in ToSet(s) PROVE Precedes(s, Head(s), m)
  <2>1. PICK j \in DOMAIN s : s[j] = m
    BY <1>4 DEF ToSet
  <2>2. 1 <= j
    BY <1>1
  <2>3. QED BY <1>3, <1>4, <2>1, <2>2 DEF Precedes
<1>5. QED BY <1>2, <1>3, <1>4 DEF ToSet

\* What follows k in a list without duplicates.
LEMMA NextProperties ==
  ASSUME NEW M, NEW s \in Seq(M), IsInjective(s), NEW i \in DOMAIN s, NEW k, s[i] = k
  PROVE  /\ i = Len(s) => \A m : Precedes(s, k, m) <=> m = k
         /\ i # Len(s) => /\ s[i + 1] \in ToSet(s) /\ s[i + 1] # k
                          /\ ~Precedes(s, s[i + 1], k)
                          /\ \A m : Precedes(s, k, m) <=> m = k \/ Precedes(s, s[i + 1], m)
<1>1. DOMAIN s = 1 .. Len(s) /\ Len(s) \in Nat
  OBVIOUS
<1>3. i \in DOMAIN s /\ s[i] = k
  OBVIOUS
<1>4. \A j \in DOMAIN s : s[j] = k => j = i
  BY <1>3 DEF IsInjective
<1>5. ASSUME NEW m PROVE Precedes(s, k, m) <=> \E j \in DOMAIN s : i <= j /\ s[j] = m
  BY <1>3, <1>4 DEF Precedes
<1>6. ASSUME i = Len(s), NEW m PROVE Precedes(s, k, m) <=> m = k
  <2>1. ASSUME NEW n \in Nat, NEW j \in 1 .. n PROVE n <= j <=> j = n
    OBVIOUS
  <2>2. \A j \in DOMAIN s : i <= j <=> j = i
    BY <1>1, <1>6, <2>1
  <2>3. QED BY <1>3, <1>5, <2>2
<1>7. ASSUME i # Len(s)
      PROVE  /\ s[i + 1] \in ToSet(s) /\ s[i + 1] # k /\ ~Precedes(s, s[i + 1], k)
             /\ \A m : Precedes(s, k, m) <=> m = k \/ Precedes(s, s[i + 1], m)
  <2>1. i + 1 \in DOMAIN s /\ i + 1 # i /\ i \in Nat
    <3>1. i \in 1 .. Len(s)
      BY <1>1, <1>3
    <3>2. i \in Nat /\ i + 1 # i /\ i + 1 \in 1 .. Len(s)
      BY <1>1, <1>7, <3>1
    <3>3. QED BY <1>1, <3>2
  <2>2. s[i + 1] \in ToSet(s) /\ s[i + 1] # k
    BY <1>4, <2>1 DEF ToSet
  <2>3. ASSUME NEW m PROVE Precedes(s, s[i + 1], m) <=> \E j \in DOMAIN s : i + 1 <= j /\ s[j] = m
    <3>1. \A j \in DOMAIN s : s[j] = s[i + 1] => j = i + 1
      BY <2>1 DEF IsInjective
    <3>2. QED BY <2>1, <3>1 DEF Precedes
  <2>4. ~Precedes(s, s[i + 1], k)
    <3>1. ~(i + 1 <= i)
      BY <2>1
    <3>2. QED BY <1>4, <2>3, <3>1
  <2>5. \A j \in DOMAIN s : i <= j <=> j = i \/ i + 1 <= j
    <3>1. \A j \in 1 .. Len(s) : i <= j <=> j = i \/ i + 1 <= j
      BY <2>1
    <3>2. QED BY <1>1, <3>1
  <2>6. ASSUME NEW m PROVE Precedes(s, k, m) <=> m = k \/ Precedes(s, s[i + 1], m)
    BY <1>3, <1>5, <2>3, <2>5
  <2>7. QED BY <2>2, <2>4, <2>6
<1>8. QED BY <1>6, <1>7
=============================================================================
