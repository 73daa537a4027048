--------------------------- MODULE TimerQueueProofs ---------------------------
(***************************************************************************)
(* Proofs about module TimerQueue, for any objects, timeout functions,     *)
(* levels and delays: the count kept in an object is that of its timers,   *)
(* a timer is where its object is, the list is in the order of the due     *)
(* times, and list and files together keep the deadlines of Deadlines.     *)
(***************************************************************************)
EXTENDS TimerQueue, ListLemmas

-----------------------------------------------------------------------------
(* Lists of timers.                                                        *)

SameKey(a, b) == a.obj = b.obj /\ a.func = b.func

\* No object has two timers for one function.
NoTwice(T) == \A a, b \in T : SameKey(a, b) => a = b

TimerLists == {q \in Seq(Timer) : IsInjective(q) /\ NoTwice(ToSet(q))}

\* What insert_timer keeps and run_timers relies on.
Sorted(q) == \A i, j \in DOMAIN q : i < j => q[i].due <= q[j].due

\* A timer is put into the list before the first that is not sooner.
LEMMA InsertPosition ==
  ASSUME NEW q \in Seq(Timer), NEW tm \in Timer
  PROVE  \E i \in 1 .. Len(q) + 1 :
           /\ Insert(q, tm) = InsertAt(q, i, tm)
           /\ \A j \in 1 .. i - 1 : q[j].due < tm.due
           /\ i = Len(q) + 1 \/ q[i].due >= tm.due
<1> DEFINE OK(k) == k = Len(q) + 1 \/ q[k].due >= tm.due
           Sooner(k) == \A j \in 1 .. k - 1 : q[j].due < tm.due
           K == {k \in 1 .. Len(q) + 1 : OK(k)}
<1>1. Len(q) \in Nat /\ \A j \in 1 .. Len(q) : q[j] \in Timer
  OBVIOUS
<1>2. tm.due \in Int /\ \A j \in 1 .. Len(q) : q[j].due \in Int
  BY <1>1 DEF Timer
<1>3. K \in SUBSET Nat /\ K # {}
  <2>1. Len(q) + 1 \in K
    BY <1>1
  <2>2. QED BY <1>1, <2>1
<1>4. PICK i \in K : \A k \in K : i <= k
  <2> HIDE DEF K
  <2>1. QED BY <1>3, LeastNumber
<1>5. Sooner(i)
  <2>1. ASSUME NEW j \in 1 .. i - 1 PROVE q[j].due < tm.due
    <3>1. j \in 1 .. Len(q) /\ j \notin K
      BY <1>1, <1>4
    <3>2. ~(q[j].due >= tm.due)
      BY <1>1, <3>1
    <3>3. QED BY <1>2, <3>1, <3>2
  <2>2. QED BY <2>1
<1>6. i \in 1 .. Len(q) + 1 /\ OK(i)
  OBVIOUS
<1> DEFINE c == CHOOSE k \in 1 .. Len(q) + 1 : Sooner(k) /\ OK(k)
<1>7. c \in 1 .. Len(q) + 1 /\ Sooner(c) /\ OK(c)
  <2> HIDE DEF Sooner, OK, K
  <2>1. QED BY <1>5, <1>6
<1>8. Insert(q, tm) = InsertAt(q, c, tm)
  BY DEF Insert
<1> HIDE DEF c
<1>9. QED BY <1>7, <1>8

\* What is where in a list with a new element.
LEMMA InsertAtElements ==
  ASSUME NEW M, NEW q \in Seq(M), NEW x \in M, NEW i \in 1 .. Len(q) + 1
  PROVE  /\ InsertAt(q, i, x) \in Seq(M)
         /\ Len(InsertAt(q, i, x)) = Len(q) + 1
         /\ \A j \in 1 .. Len(q) + 1 : InsertAt(q, i, x)[j] =
              IF j < i THEN q[j] ELSE IF j = i THEN x ELSE q[j - 1]
<1> DEFINE a == SubSeq(q, 1, i - 1)
           b == SubSeq(q, i, Len(q))
<1>1. Len(q) \in Nat /\ i \in Nat /\ \A j \in 1 .. Len(q) : q[j] \in M
  OBVIOUS
<1>2. a \in Seq(M) /\ Len(a) = i - 1 /\ \A j \in 1 .. i - 1 : a[j] = q[j]
  BY <1>1, SubSeqProperties
<1>3. b \in Seq(M) /\ Len(b) = Len(q) - i + 1 /\ \A j \in 1 .. Len(q) - i + 1 : b[j] = q[i + j - 1]
  BY <1>1, SubSeqProperties
<1>4. InsertAt(q, i, x) = (a \o <<x>>) \o b
  BY DEF InsertAt
<1> HIDE DEF a, b
<1>5. <<x>> \in Seq(M) /\ Len(<<x>>) = 1 /\ <<x>>[1] = x
  OBVIOUS
<1>6. /\ a \o <<x>> \in Seq(M) /\ Len(a \o <<x>>) = i
      /\ \A j \in 1 .. i : (a \o <<x>>)[j] = IF j < i THEN q[j] ELSE x
  BY <1>1, <1>2, <1>5, ConcatProperties
<1> DEFINE c == a \o <<x>>
<1> HIDE DEF c
<1>7. c \in Seq(M) /\ Len(c) = i /\ \A j \in 1 .. i : c[j] = IF j < i THEN q[j] ELSE x
  BY <1>6 DEF c
<1>8. /\ c \o b \in Seq(M) /\ Len(c \o b) = Len(q) + 1
      /\ \A j \in 1 .. Len(q) + 1 : (c \o b)[j] = IF j <= i THEN c[j] ELSE b[j - i]
  <2>1. /\ c \o b \in Seq(M) /\ Len(c \o b) = Len(c) + Len(b)
        /\ \A j \in 1 .. Len(c) + Len(b) : (c \o b)[j] = IF j <= Len(c) THEN c[j] ELSE b[j - Len(c)]
    BY <1>3, <1>7, ConcatProperties
  <2>2. Len(c) = i /\ Len(c) + Len(b) = Len(q) + 1
    BY <1>1, <1>3, <1>7
  <2>3. QED BY <2>1, <2>2
<1>9. ASSUME NEW j \in 1 .. Len(q) + 1
      PROVE  (c \o b)[j] = IF j < i THEN q[j] ELSE IF j = i THEN x ELSE q[j - 1]
  <2>1. CASE j <= i
    BY <1>7, <1>8, <2>1
  <2>2. CASE j > i
    <3>1. j - i \in 1 .. Len(q) - i + 1 /\ i + (j - i) - 1 = j - 1
      BY <1>1, <2>2
    <3>2. (c \o b)[j] = b[j - i]
      BY <1>1, <1>8, <2>2
    <3>3. b[j - i] = q[i + (j - i) - 1]
      BY <1>3, <3>1
    <3>4. ~(j < i) /\ j # i
      BY <1>1, <2>2
    <3>5. b[j - i] = q[j - 1]
      BY <3>1, <3>3
    <3>6. QED BY <3>2, <3>4, <3>5
  <2>3. j <= i \/ j > i
    BY <1>1
  <2>4. QED BY <2>1, <2>2, <2>3
<1>10. QED BY <1>4, <1>8, <1>9 DEF c

\* A timer more, and the order is kept.
LEMMA InsertProperties ==
  ASSUME NEW q \in TimerLists, NEW tm \in Timer, \A x \in ToSet(q) : ~SameKey(x, tm)
  PROVE  /\ Insert(q, tm) \in TimerLists
         /\ ToSet(Insert(q, tm)) = ToSet(q) \cup {tm}
         /\ Sorted(q) => Sorted(Insert(q, tm))
<1>1. q \in Seq(Timer) /\ IsInjective(q) /\ NoTwice(ToSet(q))
  BY DEF TimerLists
<1>2. PICK i \in 1 .. Len(q) + 1 :
        /\ Insert(q, tm) = InsertAt(q, i, tm)
        /\ \A j \in 1 .. i - 1 : q[j].due < tm.due
        /\ i = Len(q) + 1 \/ q[i].due >= tm.due
  BY <1>1, InsertPosition
<1> DEFINE r == Insert(q, tm)
<1>3. /\ r \in Seq(Timer) /\ Len(r) = Len(q) + 1 /\ Len(q) \in Nat
      /\ \A j \in 1 .. Len(q) + 1 : r[j] = IF j < i THEN q[j] ELSE IF j = i THEN tm ELSE q[j - 1]
  <2>1. /\ InsertAt(q, i, tm) \in Seq(Timer) /\ Len(InsertAt(q, i, tm)) = Len(q) + 1
        /\ \A j \in 1 .. Len(q) + 1 : InsertAt(q, i, tm)[j] =
             IF j < i THEN q[j] ELSE IF j = i THEN tm ELSE q[j - 1]
    BY <1>1, InsertAtElements
  <2>2. r = InsertAt(q, i, tm) /\ Len(q) \in Nat
    BY <1>1, <1>2
  <2> HIDE DEF r
  <2>3. QED BY <2>1, <2>2
<1> HIDE DEF r
<1>4. DOMAIN r = 1 .. Len(q) + 1 /\ DOMAIN q = 1 .. Len(q) /\ i \in Nat
  BY <1>1, <1>3
<1>5. r[i] = tm /\ i \in DOMAIN r
  BY <1>3, <1>4
<1>6. ASSUME NEW j \in DOMAIN r, j # i
      PROVE  \E k \in DOMAIN q : r[j] = q[k] /\ k = IF j < i THEN j ELSE j - 1
  <2>1. CASE j < i
    BY <1>3, <1>4, <2>1
  <2>2. CASE j > i
    <3>1. j - 1 \in DOMAIN q /\ r[j] = q[j - 1]
      BY <1>3, <1>4, <2>2
    <3>2. QED BY <1>4, <2>2, <3>1
  <2>3. QED BY <1>4, <1>6, <2>1, <2>2
<1>7. ASSUME NEW k \in DOMAIN q
      PROVE  \E j \in DOMAIN r : j # i /\ r[j] = q[k]
  <2>1. CASE k < i
    BY <1>3, <1>4, <2>1
  <2>2. CASE k >= i
    <3>1. k + 1 \in DOMAIN r /\ k + 1 # i /\ ~(k + 1 < i) /\ (k + 1) - 1 = k
      BY <1>4, <2>2
    <3>2. r[k + 1] = q[k]
      BY <1>3, <1>4, <3>1
    <3>3. QED BY <3>1, <3>2
  <2>3. QED BY <1>4, <2>1, <2>2
<1>8. ToSet(r) = ToSet(q) \cup {tm}
  <2>1. \A j \in DOMAIN r : r[j] \in ToSet(q) \cup {tm}
    BY <1>5, <1>6 DEF ToSet
  <2>2. \A k \in DOMAIN q : q[k] \in ToSet(r)
    BY <1>7 DEF ToSet
  <2>3. tm \in ToSet(r)
    BY <1>5 DEF ToSet
  <2>4. QED BY <2>1, <2>2, <2>3 DEF ToSet
<1>9. \A k \in DOMAIN q : q[k] # tm
  BY DEF ToSet, SameKey
<1>10. IsInjective(r)
  <2>1. ASSUME NEW j \in DOMAIN r, NEW k \in DOMAIN r, r[j] = r[k] PROVE j = k
    <3>1. CASE j = i \/ k = i
      BY <1>5, <1>6, <1>9, <2>1, <3>1
    <3>2. CASE j # i /\ k # i
      <4>1. PICK u \in DOMAIN q : r[j] = q[u] /\ u = IF j < i THEN j ELSE j - 1
        BY <1>6, <3>2
      <4>2. PICK v \in DOMAIN q : r[k] = q[v] /\ v = IF k < i THEN k ELSE k - 1
        BY <1>6, <3>2
      <4>3. u = v
        BY <1>1, <2>1, <4>1, <4>2 DEF IsInjective
      <4>4. QED BY <1>4, <3>2, <4>1, <4>2, <4>3
    <3>3. QED BY <3>1, <3>2
  <2>2. QED BY <2>1 DEF IsInjective
<1>11. NoTwice(ToSet(r))
  BY <1>1, <1>8 DEF NoTwice, SameKey
<1>12. ASSUME Sorted(q) PROVE Sorted(r)
  <2>1. tm.due \in Int /\ \A k \in DOMAIN q : q[k].due \in Int
    <3>1. \A k \in DOMAIN q : q[k] \in Timer
      BY <1>1
    <3>2. QED BY <3>1 DEF Timer
  <2>2. ASSUME NEW k \in DOMAIN q PROVE IF k < i THEN q[k].due < tm.due ELSE tm.due <= q[k].due
    <3>1. CASE k < i
      BY <1>2, <1>4, <3>1
    <3>2. CASE k >= i
      <4>1. i \in DOMAIN q /\ i # Len(q) + 1
        BY <1>4, <3>2
      <4>2. tm.due <= q[i].due
        BY <1>2, <2>1, <4>1
      <4>3. q[i].due <= q[k].due
        BY <1>4, <1>12, <2>1, <3>2, <4>1 DEF Sorted
      <4>4. QED BY <1>4, <2>1, <3>2, <4>1, <4>2, <4>3
    <3>3. QED BY <1>4, <3>1, <3>2
  <2>3. ASSUME NEW j \in DOMAIN r, NEW k \in DOMAIN r, j < k PROVE r[j].due <= r[k].due
    <3>1. CASE j = i
      <4>1. PICK v \in DOMAIN q : r[k] = q[v] /\ v = IF k < i THEN k ELSE k - 1
        BY <1>4, <1>6, <2>3, <3>1
      <4>2. ~(v < i)
        BY <1>4, <2>3, <3>1, <4>1
      <4>3. QED BY <1>5, <2>2, <3>1, <4>1, <4>2
    <3>2. CASE k = i
      <4>1. PICK u \in DOMAIN q : r[j] = q[u] /\ u = IF j < i THEN j ELSE j - 1
        BY <1>4, <1>6, <2>3, <3>2
      <4>2. u < i
        BY <2>3, <3>2, <4>1
      <4>3. QED BY <1>5, <2>1, <2>2, <3>2, <4>1, <4>2
    <3>3. CASE j # i /\ k # i
      <4>1. PICK u \in DOMAIN q : r[j] = q[u] /\ u = IF j < i THEN j ELSE j - 1
        BY <1>6, <3>3
      <4>2. PICK v \in DOMAIN q : r[k] = q[v] /\ v = IF k < i THEN k ELSE k - 1
        BY <1>6, <3>3
      <4>3. u < v
        BY <1>4, <2>3, <3>3, <4>1, <4>2
      <4>4. QED BY <1>12, <4>1, <4>2, <4>3 DEF Sorted
    <3>4. QED BY <3>1, <3>2, <3>3
  <2>4. QED BY <2>3 DEF Sorted
<1>13. QED BY <1>3, <1>8, <1>10, <1>11, <1>12 DEF r, TimerLists

-----------------------------------------------------------------------------
\* The elements of S that are left of a list of timers.
LEMMA FilterTimers ==
  ASSUME NEW q \in TimerLists, NEW S
  PROVE  /\ Filter(q, S) \in TimerLists
         /\ ToSet(Filter(q, S)) = ToSet(q) \cap S
         /\ Sorted(q) => Sorted(Filter(q, S))
<1>1. q \in Seq(Timer) /\ IsInjective(q) /\ NoTwice(ToSet(q))
  BY DEF TimerLists
<1> DEFINE t == Filter(q, S)
<1>2. t \in Seq(Timer) /\ ToSet(t) = ToSet(q) \cap S /\ IsInjective(t)
  BY <1>1, FilterProperties
<1>3. PICK h : Embeds(h, t, q, S, Len(q))
  BY <1>1, FilterEmbeds
<1> HIDE DEF t
<1>4. ASSUME Sorted(q) PROVE Sorted(t)
  <2>1. DOMAIN q = 1 .. Len(q) /\ DOMAIN t = 1 .. Len(t)
    BY <1>1, <1>2
  <2>2. ASSUME NEW i \in DOMAIN t, NEW j \in DOMAIN t, i < j PROVE t[i].due <= t[j].due
    <3>1. h[i] \in DOMAIN q /\ h[j] \in DOMAIN q /\ h[i] < h[j] /\ t[i] = q[h[i]] /\ t[j] = q[h[j]]
      BY <1>3, <2>1, <2>2 DEF Embeds
    <3>2. QED BY <1>4, <3>1 DEF Sorted
  <2>3. QED BY <2>2 DEF Sorted
<1>5. NoTwice(ToSet(t))
  BY <1>1, <1>2 DEF NoTwice
<1>6. QED BY <1>1, <1>2, <1>4, <1>5 DEF t, TimerLists

\* The first timer, and the others.
LEMMA FirstTimer ==
  ASSUME NEW q \in TimerLists
  PROVE  /\ q = <<>> => ToSet(q) = {}
         /\ q # <<>> =>
              /\ Head(q) \in ToSet(q) /\ Tail(q) \in TimerLists
              /\ ToSet(Tail(q)) = ToSet(q) \ {Head(q)}
              /\ Sorted(q) => /\ Sorted(Tail(q))
                              /\ \A tm \in ToSet(q) : Head(q).due <= tm.due
<1>1. q \in Seq(Timer) /\ IsInjective(q) /\ NoTwice(ToSet(q))
  BY DEF TimerLists
<1>2. q = <<>> => ToSet(q) = {}
  BY <1>1, HeadProperties
<1>3. SUFFICES ASSUME q # <<>>
               PROVE  /\ Head(q) \in ToSet(q) /\ Tail(q) \in TimerLists
                      /\ ToSet(Tail(q)) = ToSet(q) \ {Head(q)}
                      /\ Sorted(q) => /\ Sorted(Tail(q))
                                      /\ \A tm \in ToSet(q) : Head(q).due <= tm.due
  BY <1>2
<1>4. SUFFICES ASSUME NEW t, t = Tail(q), NEW x, x = Head(q)
               PROVE  /\ x \in ToSet(q) /\ t \in TimerLists /\ ToSet(t) = ToSet(q) \ {x}
                      /\ Sorted(q) => Sorted(t) /\ \A tm \in ToSet(q) : x.due <= tm.due
  OBVIOUS
<1>5. /\ t \in Seq(Timer) /\ Len(q) \in Nat /\ Len(t) = Len(q) - 1
      /\ \A i \in 1 .. Len(t) : t[i] = q[i + 1]
      /\ x = q[1] /\ 1 \in DOMAIN q
  BY <1>1, <1>3, <1>4, HeadTailProperties
<1>6. DOMAIN q = 1 .. Len(q) /\ DOMAIN t = 1 .. Len(t)
  BY <1>1, <1>5
<1>7. ASSUME NEW i \in DOMAIN t PROVE i + 1 \in DOMAIN q /\ i + 1 # 1 /\ t[i] = q[i + 1] /\ i \in Nat
  BY <1>5, <1>6
<1>8. ASSUME NEW k \in DOMAIN q, k # 1 PROVE \E i \in DOMAIN t : t[i] = q[k]
  <2>1. k - 1 \in DOMAIN t /\ (k - 1) + 1 = k
    BY <1>5, <1>6, <1>8
  <2>2. QED BY <1>7, <2>1
<1>9. x \in ToSet(q)
  BY <1>5 DEF ToSet
<1>10. ToSet(t) = ToSet(q) \ {x}
  <2>1. \A i \in DOMAIN t : t[i] \in ToSet(q) /\ t[i] # x
    BY <1>1, <1>5, <1>7 DEF ToSet, IsInjective
  <2>2. \A k \in DOMAIN q : q[k] # x => q[k] \in ToSet(t)
    BY <1>5, <1>8 DEF ToSet
  <2>3. QED BY <2>1, <2>2 DEF ToSet
<1>11. IsInjective(t)
  <2>1. ASSUME NEW i \in DOMAIN t, NEW j \in DOMAIN t, t[i] = t[j] PROVE i = j
    <3>1. i + 1 = j + 1
      BY <1>1, <1>7, <2>1 DEF IsInjective
    <3>2. QED BY <1>7, <3>1
  <2>2. QED BY <2>1 DEF IsInjective
<1>12. NoTwice(ToSet(t))
  BY <1>1, <1>10 DEF NoTwice
<1>13. ASSUME Sorted(q) PROVE Sorted(t)
  <2>1. ASSUME NEW i \in DOMAIN t, NEW j \in DOMAIN t, i < j PROVE t[i].due <= t[j].due
    <3>1. i + 1 < j + 1
      BY <1>7, <2>1
    <3>2. QED BY <1>7, <1>13, <3>1 DEF Sorted
  <2>2. QED BY <2>1 DEF Sorted
<1>14. ASSUME Sorted(q), NEW k \in DOMAIN q PROVE x.due <= q[k].due
  <2>1. CASE k = 1
    <3>1. x \in Timer
      BY <1>1, <1>5
    <3>2. x.due \in Int
      BY <3>1 DEF Timer
    <3>3. QED BY <1>5, <2>1, <3>2
  <2>2. CASE k # 1
    <3>1. 1 < k
      BY <1>6, <2>2
    <3>2. QED BY <1>5, <1>14, <3>1 DEF Sorted
  <2>3. QED BY <2>1, <2>2
<1>15. QED BY <1>5, <1>9, <1>10, <1>11, <1>12, <1>13, <1>14 DEF TimerLists, ToSet

\* start_timer looks through the list for a timer of the object and the function.
LEMMA HasTimer ==
  ASSUME NEW q, NEW o, NEW f
  PROVE  Has(q, o, f) <=> \E tm \in ToSet(q) : tm.obj = o /\ tm.func = f
BY DEF Has, ToSet

-----------------------------------------------------------------------------
\* The merging of InsertAll over the first n timers of s.
Merge(g, q, s, n) == g[1] = q /\ \A i \in 1 .. n : g[i + 1] = Insert(g[i], s[i])

\* There is such a function, by induction on the part of s it covers.
LEMMA MergeExists ==
  ASSUME NEW q, NEW s, Len(s) \in Nat
  PROVE  \E g : DOMAIN g = 1 .. Len(s) + 1 /\ Merge(g, q, s, Len(s))
<1> DEFINE T == {n \in Nat : \E g : DOMAIN g = 1 .. n + 1 /\ Merge(g, q, s, n)}
<1>1. 0 \in T
  <2>1. Merge([i \in 1 .. 1 |-> q], q, s, 0)
    BY DEF Merge
  <2>2. DOMAIN [i \in 1 .. 1 |-> q] = 1 .. 0 + 1
    OBVIOUS
  <2>3. QED BY <2>1, <2>2
<1>2. ASSUME NEW n \in Nat, n \in T PROVE n + 1 \in T
  <2>1. PICK g : DOMAIN g = 1 .. n + 1 /\ Merge(g, q, s, n)
    BY <1>2
  <2> DEFINE h == [i \in 1 .. (n + 1) + 1 |->
                     IF i = (n + 1) + 1 THEN Insert(g[n + 1], s[n + 1]) ELSE g[i]]
  <2>2. h[1] = q
    BY <2>1 DEF Merge
  <2>3. ASSUME NEW i \in 1 .. n + 1 PROVE h[i + 1] = Insert(h[i], s[i])
    <3>1. h[i] = g[i]
      OBVIOUS
    <3>2. CASE i = n + 1
      BY <3>1, <3>2
    <3>3. CASE i \in 1 .. n
      <4>1. h[i + 1] = g[i + 1]
        BY <3>3
      <4>2. QED BY <2>1, <3>1, <3>3, <4>1 DEF Merge
    <3>4. QED BY <3>2, <3>3
  <2>4. Merge(h, q, s, n + 1) /\ DOMAIN h = 1 .. (n + 1) + 1
    BY <2>2, <2>3 DEF Merge
  <2> HIDE DEF h
  <2>5. QED BY <2>4
<1>3. \A n \in Nat : n \in T
  <2> HIDE DEF T
  <2>1. QED BY <1>1, <1>2, SetInduction
<1>4. QED BY <1>3

\* InsertAll returns the last element of such a function.
LEMMA InsertAllMerges ==
  ASSUME NEW q, NEW s, Len(s) \in Nat
  PROVE  \E g : /\ DOMAIN g = 1 .. Len(s) + 1 /\ Merge(g, q, s, Len(s))
                /\ InsertAll(q, s) = g[Len(s) + 1]
<1> DEFINE Eq(f) == f = [i \in 1 .. Len(s) + 1 |->
              IF i = 1 THEN q ELSE Insert(f[i - 1], s[i - 1])]
           f0 == CHOOSE f : Eq(f)
<1>1. PICK g0 : DOMAIN g0 = 1 .. Len(s) + 1 /\ Merge(g0, q, s, Len(s))
  BY MergeExists
<1> DEFINE g == [i \in 1 .. Len(s) + 1 |-> g0[i]]
<1>2. Eq(g)
  <2> DEFINE h == [i \in 1 .. Len(s) + 1 |->
              IF i = 1 THEN q ELSE Insert(g[i - 1], s[i - 1])]
  <2>1. ASSUME NEW i \in 1 .. Len(s) + 1 PROVE g[i] = h[i]
    <3>1. CASE i = 1
      BY <3>1, <1>1 DEF Merge
    <3>2. CASE i # 1
      <4>1. i - 1 \in 1 .. Len(s) /\ (i - 1) + 1 = i /\ i - 1 \in 1 .. Len(s) + 1
        BY <3>2
      <4>2. g0[i] = Insert(g0[i - 1], s[i - 1])
        BY <1>1, <4>1 DEF Merge
      <4>3. g[i] = g0[i] /\ g[i - 1] = g0[i - 1]
        BY <4>1
      <4>4. h[i] = Insert(g[i - 1], s[i - 1])
        BY <3>2
      <4>5. QED BY <4>2, <4>3, <4>4
    <3>3. QED BY <3>1, <3>2
  <2>2. h = [i \in 1 .. Len(s) + 1 |-> h[i]] /\ g = [i \in 1 .. Len(s) + 1 |-> g[i]]
    OBVIOUS
  <2> HIDE DEF g, h
  <2>3. g = h
    BY <2>1, <2>2
  <2>4. QED BY <2>3 DEF h
<1>3. InsertAll(q, s) = f0[Len(s) + 1]
  BY DEF InsertAll
<1>4. Eq(f0)
  BY <1>2
<1> HIDE DEF g, f0
<1>5. DOMAIN f0 = 1 .. Len(s) + 1
  BY <1>4
<1>6. f0[1] = q
  <2>1. 1 \in 1 .. Len(s) + 1
    OBVIOUS
  <2>2. QED BY <1>4, <2>1
<1>7. ASSUME NEW i \in 1 .. Len(s) PROVE f0[i + 1] = Insert(f0[i], s[i])
  <2>1. i + 1 \in 1 .. Len(s) + 1 /\ i + 1 # 1 /\ (i + 1) - 1 = i
    OBVIOUS
  <2>2. f0[i + 1] = Insert(f0[(i + 1) - 1], s[(i + 1) - 1])
    BY <1>4, <2>1
  <2>3. QED BY <2>1, <2>2
<1>8. Merge(f0, q, s, Len(s))
  BY <1>6, <1>7 DEF Merge
<1>9. QED BY <1>3, <1>5, <1>8

\* No timer of the one list is for the object and the function of one of the other.
Apart(q, s) == \A a \in ToSet(q), b \in ToSet(s) : ~SameKey(a, b)

\* The timers of two lists are those of the list they are merged into, in order.
LEMMA InsertAllProperties ==
  ASSUME NEW q \in TimerLists, NEW s \in TimerLists, Apart(q, s)
  PROVE  /\ InsertAll(q, s) \in TimerLists
         /\ ToSet(InsertAll(q, s)) = ToSet(q) \cup ToSet(s)
         /\ Sorted(q) => Sorted(InsertAll(q, s))
<1>1. s \in Seq(Timer) /\ IsInjective(s) /\ NoTwice(ToSet(s))
  BY DEF TimerLists
<1>2. Len(s) \in Nat /\ DOMAIN s = 1 .. Len(s) /\ \A i \in 1 .. Len(s) : s[i] \in Timer
  BY <1>1
<1>3. SUFFICES ASSUME NEW n \in Nat, n = Len(s)
               PROVE  /\ InsertAll(q, s) \in TimerLists
                      /\ ToSet(InsertAll(q, s)) = ToSet(q) \cup ToSet(s)
                      /\ Sorted(q) => Sorted(InsertAll(q, s))
  BY <1>2
<1>4. PICK g : Merge(g, q, s, n) /\ InsertAll(q, s) = g[n + 1]
  BY <1>2, <1>3, InsertAllMerges
<1>5. DOMAIN s = 1 .. n /\ \A i \in 1 .. n : s[i] \in Timer
  BY <1>2, <1>3
<1> DEFINE Done(k) == {s[i] : i \in 1 .. k}
           Good(k) == /\ g[k + 1] \in TimerLists
                      /\ ToSet(g[k + 1]) = ToSet(q) \cup Done(k)
                      /\ Sorted(q) => Sorted(g[k + 1])
           T == {k \in Nat : k <= n => Good(k)}
<1>6. 0 \in T
  <2>1. g[0 + 1] = q
    BY <1>4 DEF Merge
  <2>2. Done(0) = {}
    OBVIOUS
  <2> HIDE DEF Done
  <2>3. QED BY <2>1, <2>2
<1>7. ASSUME NEW k \in Nat, k \in T PROVE k + 1 \in T
  <2>1. SUFFICES ASSUME k + 1 <= n PROVE Good(k + 1)
    OBVIOUS
  <2>2. Good(k)
    BY <1>7, <2>1
  <2>3. k + 1 \in 1 .. n
    BY <2>1
  <2>4. g[(k + 1) + 1] = Insert(g[k + 1], s[k + 1])
    BY <1>4, <2>3 DEF Merge
  <2>5. Done(k + 1) = Done(k) \cup {s[k + 1]}
    <3>1. 1 .. k + 1 = (1 .. k) \cup {k + 1}
      OBVIOUS
    <3>2. QED BY <3>1
  <2>6. ASSUME NEW x \in Done(k) PROVE ~SameKey(x, s[k + 1])
    <3>1. PICK i \in 1 .. k : x = s[i]
      OBVIOUS
    <3>2. i \in DOMAIN s /\ k + 1 \in DOMAIN s /\ i # k + 1
      BY <1>5, <2>3
    <3>3. s[i] # s[k + 1] /\ s[i] \in ToSet(s) /\ s[k + 1] \in ToSet(s)
      BY <1>1, <3>2 DEF IsInjective, ToSet
    <3>4. QED BY <1>1, <3>1, <3>3 DEF NoTwice
  <2> HIDE DEF Done
  <2>7. s[k + 1] \in ToSet(s) /\ s[k + 1] \in Timer
    BY <1>5, <2>3 DEF ToSet
  <2>8. \A x \in ToSet(g[k + 1]) : ~SameKey(x, s[k + 1])
    BY <2>2, <2>6, <2>7 DEF Apart
  <2>9. SUFFICES ASSUME NEW a, a = g[k + 1], NEW b, b = g[(k + 1) + 1], NEW tm, tm = s[k + 1]
                 PROVE  /\ b \in TimerLists /\ ToSet(b) = ToSet(q) \cup Done(k + 1)
                        /\ Sorted(q) => Sorted(b)
    OBVIOUS
  <2>10. a \in TimerLists /\ ToSet(a) = ToSet(q) \cup Done(k) /\ (Sorted(q) => Sorted(a))
    BY <2>2, <2>9
  <2>11. tm \in Timer /\ (\A x \in ToSet(a) : ~SameKey(x, tm)) /\ b = Insert(a, tm)
    BY <2>4, <2>7, <2>8, <2>9
  <2>12. b \in TimerLists /\ ToSet(b) = ToSet(a) \cup {tm} /\ (Sorted(a) => Sorted(b))
    BY <2>10, <2>11, InsertProperties
  <2>13. QED BY <2>5, <2>9, <2>10, <2>12
<1>8. \A k \in Nat : k \in T
  <2> HIDE DEF T
  <2>1. QED BY <1>6, <1>7, SetInduction
<1>9. Good(n)
  <2> HIDE DEF Good
  <2>1. QED BY <1>8
<1>10. Done(n) = ToSet(s)
  BY <1>5 DEF ToSet
<1> HIDE DEF Done
<1>11. QED BY <1>4, <1>9, <1>10

-----------------------------------------------------------------------------
\* A list without repetition is as long as the set of its elements is large.
LEMMA LengthCounts ==
  ASSUME NEW M, NEW q \in Seq(M), IsInjective(q)
  PROVE  IsFiniteSet(ToSet(q)) /\ Cardinality(ToSet(q)) = Len(q)
<1>1. DOMAIN q = 1 .. Len(q) /\ Len(q) \in Nat /\ q \in [1 .. Len(q) -> M]
  OBVIOUS
<1>2. PICK n \in Nat : n = Len(q)
  BY <1>1
<1>3. DOMAIN q = 1 .. n /\ q \in [1 .. n -> M]
  BY <1>1, <1>2
<1>4. q \in Bijection(1 .. n, ToSet(q))
  <2>1. q \in [1 .. n -> ToSet(q)]
    BY <1>3 DEF ToSet
  <2>2. q \in [1 .. n -> ToSet(q)] /\ IsInjective(q)
    BY <2>1
  <2>3. \A m \in ToSet(q) : \E i \in 1 .. n : q[i] = m
    BY <1>3 DEF ToSet
  <2>4. QED BY <2>1, <2>2, <2>3 DEF Bijection, Injection, Surjection, IsInjective
<1>5. ExistsBijection(1 .. n, ToSet(q))
  BY <1>4 DEF ExistsBijection
<1>6. IsFiniteSet(ToSet(q)) /\ Cardinality(ToSet(q)) = n
  BY <1>5, FS_NatBijection, FS_CountingElements
<1>7. QED BY <1>2, <1>6

\* The timers that obj_split_timers starts for p, one for each of the list s.
LEMMA ClonesProperties ==
  ASSUME NEW o \in Objs, NEW p \in Objs, NEW s \in TimerLists, \A tm \in ToSet(s) : tm.obj = o
  PROVE  /\ Clones(s, p) \in TimerLists
         /\ ToSet(Clones(s, p)) = {[obj |-> p, func |-> tm.func, due |-> tm.due] : tm \in ToSet(s)}
         /\ IsFiniteSet(ToSet(Clones(s, p)))
         /\ Cardinality(ToSet(Clones(s, p))) = Len(Clones(s, p))
<1> DEFINE c == Clones(s, p)
           Clone(tm) == [obj |-> p, func |-> tm.func, due |-> tm.due]
<1>1. s \in Seq(Timer) /\ IsInjective(s) /\ NoTwice(ToSet(s))
  BY DEF TimerLists
<1>2. DOMAIN s = 1 .. Len(s) /\ Len(s) \in Nat /\ \A i \in DOMAIN s : s[i] \in Timer
  BY <1>1
<1>3. DOMAIN c = DOMAIN s /\ \A i \in DOMAIN s : c[i] = Clone(s[i])
  BY DEF Clones
<1>4. \A tm \in Timer : Clone(tm) \in Timer
  BY DEF Timer
<1>5. c \in Seq(Timer)
  <2>1. c \in [1 .. Len(s) -> Timer]
    BY <1>2, <1>4 DEF Clones
  <2> HIDE DEF c
  <2>2. QED BY <1>2, <2>1
<1> HIDE DEF c
<1>6. ToSet(c) = {Clone(tm) : tm \in ToSet(s)}
  BY <1>3 DEF ToSet
<1>7. ASSUME NEW a \in ToSet(s), NEW b \in ToSet(s), a.func = b.func PROVE a = b
  BY <1>1, <1>7 DEF NoTwice, SameKey
<1>8. IsInjective(c)
  <2>1. ASSUME NEW i \in DOMAIN c, NEW j \in DOMAIN c, c[i] = c[j] PROVE i = j
    <3>1. s[i] \in ToSet(s) /\ s[j] \in ToSet(s)
      BY <1>3, <2>1 DEF ToSet
    <3>2. Clone(s[i]).func = Clone(s[j]).func
      BY <1>3, <2>1
    <3>3. s[i] = s[j]
      BY <1>7, <3>1, <3>2
    <3>4. QED BY <1>1, <1>3, <2>1, <3>3 DEF IsInjective
  <2>2. QED BY <2>1 DEF IsInjective
<1>9. NoTwice(ToSet(c))
  <2>1. ASSUME NEW a \in ToSet(s), NEW b \in ToSet(s), Clone(a).func = Clone(b).func
        PROVE  Clone(a) = Clone(b)
    <3>1. a = b
      BY <1>7, <2>1
    <3>2. QED BY <3>1
  <2> HIDE DEF Clone
  <2>2. QED BY <1>6, <2>1 DEF NoTwice, SameKey
<1>10. IsFiniteSet(ToSet(c)) /\ Cardinality(ToSet(c)) = Len(c)
  BY <1>5, <1>8, LengthCounts
<1>11. QED BY <1>5, <1>6, <1>8, <1>9, <1>10 DEF c, TimerLists

\* The empty list.
LEMMA NoTimers == <<>> \in TimerLists /\ ToSet(<<>>) = {} /\ Sorted(<<>>)
BY DEF TimerLists, ToSet, Sorted, NoTwice, IsInjective

-----------------------------------------------------------------------------
(* The invariant.                                                          *)

\* The timers in the files, and those of an object.
Stored == UNION { ToSet(store[l]) : l \in Levels }
Had(o) == {tm \in AllTimers : tm.obj = o}

Types ==
  /\ now \in 1 .. MaxTime /\ cur \in Levels /\ running \in BOOLEAN
  /\ where \in [Objs -> {"free", "hero", "level", "migrating"}]
  /\ lev \in [Objs -> Levels] /\ timed \in [Objs -> Nat]
  /\ queue \in TimerLists /\ store \in [Levels -> TimerLists]

\* The timer's object is in memory, with the hero, on its way, or on his level.
InMemory(tm) ==
  \/ where[tm.obj] \in {"hero", "migrating"}
  \/ where[tm.obj] = "level" /\ lev[tm.obj] = cur

\* The timer's object is in the file of level l.
InFile(tm, l) == where[tm.obj] = "level" /\ lev[tm.obj] = l /\ l # cur

Follows ==
  /\ \A tm \in ToSet(queue) : InMemory(tm)
  /\ \A l \in Levels : \A tm \in ToSet(store[l]) : InFile(tm, l)

Counted(o) == IsFiniteSet(Had(o)) /\ timed[o] = Cardinality(Had(o))

Inv == Types /\ Sorted(queue) /\ Follows /\ \A o \in Objs : Counted(o)

\* Where the timers are, and that no object has two for one function.
LEMMA Places ==
  ASSUME Types, Follows
  PROVE  /\ AllTimers = ToSet(queue) \cup Stored /\ AllTimers \in SUBSET Timer
         /\ \A tm \in Stored : where[tm.obj] = "level" /\ lev[tm.obj] # cur
         /\ \A a \in ToSet(queue), b \in Stored : a.obj # b.obj
         /\ NoTwice(AllTimers)
         /\ ToSet(store[cur]) = {}
<1>1. AllTimers = ToSet(queue) \cup Stored
  BY DEF AllTimers, Stored
<1>2. \A q \in TimerLists : ToSet(q) \in SUBSET Timer /\ NoTwice(ToSet(q))
  <2>1. \A q \in Seq(Timer) : ToSet(q) \in SUBSET Timer
    BY DEF ToSet
  <2>2. QED BY <2>1 DEF TimerLists
<1>3. queue \in TimerLists /\ \A l \in Levels : store[l] \in TimerLists
  BY DEF Types
<1>4. \A tm \in Stored : \E l \in Levels : tm \in ToSet(store[l]) /\ InFile(tm, l)
  BY DEF Stored, Follows
<1>5. AllTimers \in SUBSET Timer
  BY <1>1, <1>2, <1>3, <1>4
<1>6. \A tm \in Stored : where[tm.obj] = "level" /\ lev[tm.obj] # cur
  BY <1>4 DEF InFile
<1>7. \A a \in ToSet(queue), b \in Stored : a.obj # b.obj
  BY <1>6 DEF Follows, InMemory
<1>8. ASSUME NEW a \in AllTimers, NEW b \in AllTimers, SameKey(a, b) PROVE a = b
  <2>1. CASE a \in ToSet(queue)
    <3>1. b \in ToSet(queue)
      BY <1>1, <1>7, <1>8, <2>1 DEF SameKey
    <3>2. QED BY <1>2, <1>3, <1>8, <2>1, <3>1 DEF NoTwice
  <2>2. CASE a \in Stored
    <3>1. PICK l \in Levels : a \in ToSet(store[l]) /\ InFile(a, l)
      BY <1>4, <2>2
    <3>2. b \in Stored
      BY <1>1, <1>7, <1>8, <2>2 DEF SameKey
    <3>3. PICK k \in Levels : b \in ToSet(store[k]) /\ InFile(b, k)
      BY <1>4, <3>2
    <3>4. k = l
      BY <1>8, <3>1, <3>3 DEF InFile, SameKey
    <3>5. QED BY <1>2, <1>3, <1>8, <3>1, <3>3, <3>4 DEF NoTwice
  <2>3. QED BY <1>1, <2>1, <2>2
<1>9. ToSet(store[cur]) = {}
  <2>1. cur \in Levels
    BY DEF Types
  <2>2. QED BY <2>1 DEF Follows, InFile
<1>10. QED BY <1>1, <1>5, <1>6, <1>7, <1>8, <1>9 DEF NoTwice

\* The timers after a step that leaves the files alone.
LEMMA StoredKept ==
  ASSUME store' = store
  PROVE  Stored' = Stored /\ AllTimers' = ToSet(queue') \cup Stored
<1>1. Stored' = Stored
  BY DEF Stored
<1>2. AllTimers' = ToSet(queue)' \cup Stored'
  BY DEF AllTimers, Stored
<1>3. QED BY <1>1, <1>2

-----------------------------------------------------------------------------
(* Every step keeps the invariant.                                         *)

\* An object whose timers and whose count are left alone.
LEMMA StillCounted ==
  ASSUME NEW o \in Objs, Counted(o), Had(o)' = Had(o), timed'[o] = timed[o]
  PROVE  Counted(o)'
BY DEF Counted

\* A step that only moves objects: those that move are here, or had no timers.
LEMMA MoveInvariant ==
  ASSUME Inv, UNCHANGED <<now, cur, timed, queue, store, running>>,
         NEW o \in Objs, Here(o) \/ where[o] = "free",
         NEW w \in {"hero", "level", "migrating"}, NEW l \in Levels,
         w = "migrating" \/ l = cur,
         where' = [where EXCEPT ![o] = w], lev' = [lev EXCEPT ![o] = l]
  PROVE  Inv'
<1>1. Types'
  BY DEF Inv, Types
<1>2. /\ AllTimers \in SUBSET Timer
      /\ \A tm \in Stored : where[tm.obj] = "level" /\ lev[tm.obj] # cur
  BY Places DEF Inv
<1>3. \A tm \in ToSet(queue) : InMemory(tm) /\ tm.obj \in Objs
  <2>1. ToSet(queue) \subseteq AllTimers
    BY DEF AllTimers
  <2>2. QED BY <1>2, <2>1 DEF Inv, Follows, Timer
<1>4. ASSUME NEW tm \in ToSet(queue) PROVE InMemory(tm)'
  BY <1>3, <1>4 DEF InMemory, Inv, Types
<1>5. ASSUME NEW k \in Levels, NEW tm \in ToSet(store[k]) PROVE InFile(tm, k)'
  <2>1. InFile(tm, k)
    BY <1>5 DEF Inv, Follows
  <2>2. tm \in Stored /\ tm \in AllTimers
    BY <1>5 DEF Stored, AllTimers
  <2>3. tm.obj \in Objs /\ tm.obj # o
    BY <1>2, <2>1, <2>2 DEF Timer, InFile, Here
  <2>4. QED BY <2>1, <2>3 DEF InFile, Inv, Types
<1>6. Follows'
  BY <1>4, <1>5 DEF Follows
<1>7. \A p \in Objs : Had(p)' = Had(p)
  BY DEF Had, AllTimers
<1>8. \A p \in Objs : Counted(p)'
  BY <1>7, StillCounted DEF Inv
<1>9. QED BY <1>1, <1>6, <1>8 DEF Inv

\* A step that changes the object o, which has no timer in a file, and the timers
\* for it in the list.
LEMMA ChangeInvariant ==
  ASSUME Inv, Types', Sorted(queue)', UNCHANGED <<now, cur, store, running>>,
         NEW o \in Objs, \A tm \in Stored : tm.obj # o,
         \A p \in Objs : p # o => /\ where'[p] = where[p] /\ lev'[p] = lev[p]
                                  /\ timed'[p] = timed[p],
         \A tm : tm.obj # o => (tm \in ToSet(queue') <=> tm \in ToSet(queue)),
         \A tm \in ToSet(queue') : tm.obj = o => InMemory(tm)',
         NEW H, H = {tm \in ToSet(queue') : tm.obj = o},
         IsFiniteSet(H), timed'[o] = Cardinality(H)
  PROVE  Inv'
<1>1. Stored' = Stored /\ AllTimers' = ToSet(queue') \cup Stored
  BY StoredKept
<1>2. AllTimers = ToSet(queue) \cup Stored /\ AllTimers \in SUBSET Timer
  BY Places DEF Inv
<1>3. ASSUME NEW tm \in ToSet(queue') PROVE InMemory(tm)'
  <2>1. CASE tm.obj # o
    <3>1. tm \in ToSet(queue)
      BY <1>3, <2>1
    <3>2. InMemory(tm) /\ tm.obj \in Objs
      BY <1>2, <3>1 DEF Inv, Follows, Timer
    <3>3. QED BY <2>1, <3>2 DEF InMemory
  <2>2. QED BY <1>3, <2>1
<1>4. ASSUME NEW l \in Levels, NEW tm \in ToSet(store[l]) PROVE InFile(tm, l)'
  <2>1. InFile(tm, l) /\ tm \in Stored
    BY <1>4 DEF Inv, Follows, Stored
  <2>2. tm.obj \in Objs /\ tm.obj # o
    BY <1>2, <2>1 DEF Timer
  <2>3. QED BY <2>1, <2>2 DEF InFile
<1>5. Follows'
  BY <1>3, <1>4 DEF Follows
<1>6. Had(o)' = H
  BY <1>1 DEF Had
<1>7. Counted(o)'
  BY <1>6 DEF Counted
<1>8. ASSUME NEW p \in Objs, p # o PROVE Counted(p)'
  <2>1. Had(p)' = Had(p)
    BY <1>1, <1>2, <1>8 DEF Had
  <2>2. QED BY <1>8, <2>1, StillCounted DEF Inv
<1>9. QED BY <1>5, <1>7, <1>8 DEF Inv

\* The timers of an object that is here are in the list.
LEMMA AtHand ==
  ASSUME Inv, NEW o \in Objs, Here(o) \/ \E tm \in ToSet(queue) : tm.obj = o
  PROVE  /\ \A tm \in Stored : tm.obj # o
         /\ Had(o) = {tm \in ToSet(queue) : tm.obj = o}
<1>1. \A tm \in Stored : tm.obj # o
  BY Places DEF Inv, Here
<1>2. QED BY <1>1, Places DEF Inv, Had

\* Nobody has a timer for an object that does not exist.
LEMMA FreeHasNone ==
  ASSUME Inv, NEW o \in Objs, where[o] = "free"
  PROVE  Had(o) = {} /\ \A tm \in Stored : tm.obj # o
<1>1. \A tm \in Stored : tm.obj # o
  BY Places DEF Inv
<1>2. \A tm \in ToSet(queue) : tm.obj # o
  BY DEF Inv, Follows, InMemory
<1>3. QED BY <1>1, <1>2, Places DEF Inv, Had

\* start_timer.
LEMMA StartInvariant ==
  ASSUME Inv, NEW o \in Objs, NEW f \in Funcs, NEW when \in Delays, StartTimer(o, f, when)
  PROVE  Inv'
<1> DEFINE tm == [obj |-> o, func |-> f, due |-> now + when]
<1>1. CASE Has(queue, o, f)
  <2>1. UNCHANGED <<queue, timed, where, lev, now, cur, store, running>>
    BY <1>1 DEF StartTimer, Started, objVars, Inv, Types
  <2>2. Types' /\ Sorted(queue)' /\ Follows'
    BY <2>1 DEF Inv, Types, Follows, InMemory, InFile
  <2>3. \A p \in Objs : Counted(p)'
    BY <2>1 DEF Inv, Counted, Had, AllTimers
  <2>4. QED BY <2>2, <2>3 DEF Inv
<1>2. CASE ~Has(queue, o, f)
  <2>1. tm \in Timer /\ tm.obj = o /\ tm.func = f
    BY TimeAssumption DEF Inv, Types, Timer
  <2>2. queue' = Insert(queue, tm) /\ timed' = [timed EXCEPT ![o] = @ + 1]
    BY <1>2 DEF StartTimer, Started
  <2> HIDE DEF tm
  <2>3. \A x \in ToSet(queue) : ~SameKey(x, tm)
    BY <1>2, <2>1, HasTimer DEF SameKey
  <2>4. /\ queue' \in TimerLists /\ ToSet(queue') = ToSet(queue) \cup {tm} /\ Sorted(queue)'
    BY <2>1, <2>2, <2>3, InsertProperties DEF Inv, Types
  <2>5. Types'
    BY <2>2, <2>4 DEF StartTimer, objVars, Inv, Types
  <2>6. (\A x \in Stored : x.obj # o) /\ Had(o) = {x \in ToSet(queue) : x.obj = o}
    BY AtHand DEF StartTimer
  <2> DEFINE H == Had(o) \cup {tm}
  <2>7. H = {x \in ToSet(queue') : x.obj = o}
    BY <2>1, <2>4, <2>6
  <2>8. tm \notin Had(o)
    BY <2>3, <2>6 DEF SameKey
  <2>9. IsFiniteSet(Had(o)) /\ timed[o] = Cardinality(Had(o))
    BY DEF Inv, Counted
  <2>10. IsFiniteSet(H) /\ Cardinality(H) = timed[o] + 1
    BY <2>8, <2>9, FS_AddElement
  <2>11. timed'[o] = timed[o] + 1 /\ \A p \in Objs : p # o => timed'[p] = timed[p]
    BY <2>2 DEF Inv, Types
  <2>12. \A x \in ToSet(queue') : x.obj = o => InMemory(x)'
    BY DEF StartTimer, Here, objVars, InMemory
  <2> HIDE DEF H
  <2>13. UNCHANGED <<now, cur, store, running, where, lev>>
    BY DEF StartTimer, objVars
  <2>14. \A x : x.obj # o => (x \in ToSet(queue') <=> x \in ToSet(queue))
    BY <2>1, <2>4
  <2>15. QED BY <2>4, <2>5, <2>6, <2>7, <2>10, <2>11, <2>12, <2>13, <2>14, ChangeInvariant
<1>3. QED BY <1>1, <1>2

\* The timers of o that are left of a list: none.
LEMMA WithoutTimers ==
  ASSUME NEW q \in TimerLists, NEW o \in Objs
  PROVE  /\ Without(q, o) \in TimerLists
         /\ ToSet(Without(q, o)) = {tm \in ToSet(q) : tm.obj # o}
         /\ Sorted(q) => Sorted(Without(q, o))
<1>1. ToSet(q) \in SUBSET Timer
  <2>1. q \in Seq(Timer)
    BY DEF TimerLists
  <2>2. QED BY <2>1 DEF ToSet
<1>2. /\ Without(q, o) \in TimerLists
      /\ ToSet(Without(q, o)) = ToSet(q) \cap (Timer \ TimersOf(o))
      /\ Sorted(q) => Sorted(Without(q, o))
  BY FilterTimers DEF Without
<1>3. QED BY <1>1, <1>2 DEF TimersOf

\* stop_timer takes one timer off the list.
LEMMA Stopped ==
  ASSUME Inv, NEW o \in Objs, NEW f \in Funcs, StopTimer(o, f)
  PROVE  /\ \E tm \in ToSet(queue) : /\ tm.obj = o /\ tm.func = f
                                     /\ ToSet(queue') = ToSet(queue) \ {tm}
         /\ queue' \in TimerLists /\ Sorted(queue)'
<1>1. PICK tm \in ToSet(queue) : tm.obj = o /\ tm.func = f
  BY HasTimer DEF StopTimer
<1>2. queue' = Filter(queue, Timer \ TimerFor(o, f))
  BY DEF StopTimer
<1>3. queue' \in TimerLists /\ Sorted(queue)' /\ ToSet(queue') = ToSet(queue) \cap (Timer \ TimerFor(o, f))
  BY <1>2, FilterTimers DEF Inv, Types
<1>4. NoTwice(ToSet(queue)) /\ ToSet(queue) \in SUBSET Timer
  BY Places DEF Inv, NoTwice
<1>5. ASSUME NEW x \in ToSet(queue) PROVE x \in TimerFor(o, f) <=> x = tm
  BY <1>1, <1>4, <1>5 DEF TimerFor, NoTwice, SameKey
<1>6. ToSet(queue') = ToSet(queue) \ {tm}
  BY <1>3, <1>4, <1>5
<1>7. QED BY <1>1, <1>3, <1>6

\* stop_timer lowers the count by the timer it takes off.
LEMMA StopInvariant ==
  ASSUME Inv, NEW o \in Objs, NEW f \in Funcs, StopTimer(o, f)
  PROVE  Inv'
<1>1. PICK tm \in ToSet(queue) : /\ tm.obj = o /\ tm.func = f
                                 /\ ToSet(queue') = ToSet(queue) \ {tm}
  BY Stopped
<1>2. queue' \in TimerLists /\ Sorted(queue)'
  BY Stopped
<1>3. timed' = [timed EXCEPT ![o] = @ - 1] /\ UNCHANGED <<now, cur, store, running, where, lev>>
  BY DEF StopTimer, objVars
<1>4. (\A x \in Stored : x.obj # o) /\ Had(o) = {x \in ToSet(queue) : x.obj = o}
  BY AtHand DEF StopTimer
<1> DEFINE H == Had(o) \ {tm}
<1>5. H = {x \in ToSet(queue') : x.obj = o} /\ tm \in Had(o)
  BY <1>1, <1>4
<1>6. IsFiniteSet(Had(o)) /\ timed[o] = Cardinality(Had(o))
  BY DEF Inv, Counted
<1>7. IsFiniteSet(H) /\ Cardinality(H) = timed[o] - 1 /\ Cardinality(H) \in Nat
  BY <1>5, <1>6, FS_RemoveElement, FS_CardinalityType
<1> HIDE DEF H
<1>8. timed'[o] = timed[o] - 1 /\ \A p \in Objs : p # o => timed'[p] = timed[p]
  BY <1>3 DEF Inv, Types
<1>9. Types'
  BY <1>2, <1>3, <1>7, <1>8 DEF Inv, Types
<1>10. \A x \in ToSet(queue') : x.obj = o => InMemory(x)'
  BY <1>3 DEF StopTimer, Here, InMemory
<1>11. \A x : x.obj # o => (x \in ToSet(queue') <=> x \in ToSet(queue))
  BY <1>1
<1>12. QED BY <1>2, <1>3, <1>4, <1>5, <1>7, <1>8, <1>9, <1>10, <1>11, ChangeInvariant

\* dealloc_obj: the object's timers that are on the list q are gone.
LEMMA Freed ==
  ASSUME Inv, NEW o \in Objs, NEW q \in TimerLists, Sorted(q), Free(o, q),
         timed[o] = 0 => \A tm \in ToSet(q) : tm.obj # o
  PROVE  /\ ToSet(queue') = {tm \in ToSet(q) : tm.obj # o}
         /\ queue' \in TimerLists /\ Sorted(queue)'
<1>1. CASE timed[o] > 0
  <2>1. queue' = Without(q, o)
    BY <1>1 DEF Free
  <2>2. QED BY <2>1, WithoutTimers
<1>2. CASE ~(timed[o] > 0)
  <2>1. queue' = q /\ timed[o] = 0
    BY <1>2 DEF Free, Inv, Types
  <2>2. QED BY <2>1
<1>3. QED BY <1>1, <1>2

\* The destruction of an object o that has no timer in a file: it takes the timers
\* that are left of it along.
LEMMA DestroyInvariant ==
  ASSUME Inv, NEW o \in Objs, \A tm \in Stored : tm.obj # o,
         UNCHANGED <<now, cur, store, running, lev>>,
         where' = [where EXCEPT ![o] = "free"], timed' = [timed EXCEPT ![o] = 0],
         queue' \in TimerLists, Sorted(queue)',
         ToSet(queue') = {tm \in ToSet(queue) : tm.obj # o}
  PROVE  Inv'
<1>1. Types'
  BY DEF Inv, Types
<1>2. \A p \in Objs : p # o => where'[p] = where[p] /\ lev'[p] = lev[p] /\ timed'[p] = timed[p]
  BY DEF Inv, Types
<1>3. {} = {tm \in ToSet(queue') : tm.obj = o}
  OBVIOUS
<1>4. IsFiniteSet({}) /\ timed'[o] = Cardinality({})
  BY FS_EmptySet DEF Inv, Types
<1>5. \A tm \in ToSet(queue') : tm.obj = o => InMemory(tm)'
  OBVIOUS
<1>6. \A tm : tm.obj # o => (tm \in ToSet(queue') <=> tm \in ToSet(queue))
  OBVIOUS
<1>7. QED BY <1>1, <1>2, <1>3, <1>4, <1>5, <1>6, ChangeInvariant

\* What delete_object leaves of the list.
LEMMA Deleted ==
  ASSUME Inv, NEW o \in Objs, Delete(o)
  PROVE  /\ \A tm \in Stored : tm.obj # o
         /\ ToSet(queue') = {tm \in ToSet(queue) : tm.obj # o}
         /\ queue' \in TimerLists /\ Sorted(queue)'
<1>1. (\A tm \in Stored : tm.obj # o) /\ Had(o) = {tm \in ToSet(queue) : tm.obj = o}
  BY AtHand DEF Delete
<1>2. timed[o] = 0 => \A tm \in ToSet(queue) : tm.obj # o
  BY <1>1, FS_EmptySet DEF Inv, Counted
<1>3. queue \in TimerLists /\ Sorted(queue) /\ Free(o, queue)
  BY DEF Delete, Inv, Types
<1>4. QED BY <1>1, <1>2, <1>3, Freed

\* delete_object leaves no timer behind.
LEMMA DeleteInvariant ==
  ASSUME Inv, NEW o \in Objs, Delete(o)
  PROVE  Inv'
<1>1. /\ UNCHANGED <<now, cur, store, running, lev>>
      /\ where' = [where EXCEPT ![o] = "free"] /\ timed' = [timed EXCEPT ![o] = 0]
  BY DEF Delete, Free
<1>2. QED BY <1>1, Deleted, DestroyInvariant

\* splitobj: the timers of o are started for the new object p too.
LEMMA Divided ==
  ASSUME Inv, NEW o \in Objs, NEW p \in Objs, SplitObj(o, p)
  PROVE  \E C : /\ C = {[obj |-> p, func |-> tm.func, due |-> tm.due] : tm \in Had(o)}
                /\ IsFiniteSet(C) /\ timed' = [timed EXCEPT ![p] = Cardinality(C)]
                /\ C \in SUBSET Timer
                /\ ToSet(queue') = ToSet(queue) \cup C
                /\ queue' \in TimerLists /\ Sorted(queue)'
<1> DEFINE s == Of(queue, o)
           c == Clones(s, p)
           C == {[obj |-> p, func |-> tm.func, due |-> tm.due] : tm \in Had(o)}
<1>1. Had(o) = {tm \in ToSet(queue) : tm.obj = o} /\ ToSet(queue) \in SUBSET Timer
  BY AtHand, Places DEF SplitObj, Inv
<1>2. s \in TimerLists /\ ToSet(s) = Had(o)
  <2>1. s \in TimerLists /\ ToSet(s) = ToSet(queue) \cap TimersOf(o)
    BY FilterTimers DEF Of, Inv, Types
  <2>2. QED BY <1>1, <2>1 DEF TimersOf
<1>3. /\ timed' = [timed EXCEPT ![p] = IF timed[o] = 0 THEN 0 ELSE Len(c)]
      /\ queue' = IF timed[o] = 0 THEN queue ELSE InsertAll(queue, c)
  BY DEF SplitObj
<1> HIDE DEF s
<1>4. \A tm \in ToSet(s) : tm.obj = o
  BY <1>1, <1>2
<1>5. c \in TimerLists /\ ToSet(c) = C /\ IsFiniteSet(C) /\ Cardinality(C) = Len(c)
  <2>1. /\ c \in TimerLists
        /\ ToSet(c) = {[obj |-> p, func |-> tm.func, due |-> tm.due] : tm \in ToSet(s)}
        /\ IsFiniteSet(ToSet(c)) /\ Cardinality(ToSet(c)) = Len(c)
    BY <1>2, <1>4, ClonesProperties
  <2> HIDE DEF c
  <2>2. ToSet(c) = C
    BY <1>2, <2>1
  <2> HIDE DEF C
  <2>3. QED BY <2>1, <2>2
<1>6. C \in SUBSET Timer
  BY <1>1 DEF Timer
<1> HIDE DEF c
<1>7. CASE timed[o] = 0
  <2>1. Had(o) = {}
    BY <1>7, FS_EmptySet DEF Inv, Counted
  <2>2. C = {}
    BY <2>1
  <2>3. timed' = [timed EXCEPT ![p] = 0] /\ queue' = queue
    BY <1>3, <1>7
  <2> HIDE DEF C
  <2>4. Cardinality(C) = 0
    BY <2>2, FS_EmptySet
  <2>5. timed' = [timed EXCEPT ![p] = Cardinality(C)] /\ ToSet(queue') = ToSet(queue) \cup C
        /\ queue' \in TimerLists /\ Sorted(queue)'
    BY <2>2, <2>3, <2>4 DEF Inv, Types
  <2>6. QED BY <1>5, <1>6, <2>5 DEF C
<1>8. CASE timed[o] # 0
  <2>1. timed' = [timed EXCEPT ![p] = Len(c)] /\ queue' = InsertAll(queue, c)
    BY <1>3, <1>8
  <2>2. \A tm \in C : tm.obj = p
    OBVIOUS
  <2>3. \A tm \in ToSet(queue) : tm.obj # p
    BY DEF SplitObj, Inv, Follows, InMemory
  <2> HIDE DEF C
  <2>4. Apart(queue, c)
    BY <1>5, <2>2, <2>3 DEF Apart, SameKey
  <2>5. queue \in TimerLists /\ Sorted(queue)
    BY DEF Inv, Types
  <2>6. queue' \in TimerLists /\ ToSet(queue') = ToSet(queue) \cup C /\ Sorted(queue)'
    BY <1>5, <2>1, <2>4, <2>5, InsertAllProperties
  <2>7. timed' = [timed EXCEPT ![p] = Cardinality(C)]
    BY <1>5, <2>1
  <2>8. QED BY <1>5, <1>6, <2>6, <2>7 DEF C
<1>9. QED BY <1>7, <1>8

\* The new part of a split stack is counted its own timers.
LEMMA SplitInvariant ==
  ASSUME Inv, NEW o \in Objs, NEW p \in Objs, SplitObj(o, p)
  PROVE  Inv'
<1>1. PICK C : /\ C = {[obj |-> p, func |-> tm.func, due |-> tm.due] : tm \in Had(o)}
               /\ IsFiniteSet(C) /\ timed' = [timed EXCEPT ![p] = Cardinality(C)]
               /\ ToSet(queue') = ToSet(queue) \cup C
               /\ queue' \in TimerLists /\ Sorted(queue)'
  BY Divided
<1>2. /\ UNCHANGED <<now, cur, store, running>>
      /\ where' = [where EXCEPT ![p] = where[o]] /\ lev' = [lev EXCEPT ![p] = cur]
      /\ where[o] \in {"hero", "level"} /\ where[p] = "free"
  BY DEF SplitObj, Here
<1>3. Cardinality(C) \in Nat
  BY <1>1, FS_CardinalityType
<1>4. Types'
  BY <1>1, <1>2, <1>3 DEF Inv, Types
<1>5. \A x \in Objs : x # p => where'[x] = where[x] /\ lev'[x] = lev[x] /\ timed'[x] = timed[x]
  BY <1>1, <1>2 DEF Inv, Types
<1>6. timed'[p] = Cardinality(C) /\ where'[p] \in {"hero", "level"} /\ lev'[p] = cur'
  BY <1>1, <1>2 DEF Inv, Types
<1>7. (\A tm \in Stored : tm.obj # p) /\ \A tm \in ToSet(queue) : tm.obj # p
  BY <1>2, Places DEF Inv, Follows, InMemory
<1>8. \A tm \in C : tm.obj = p
  BY <1>1
<1>9. /\ C = {tm \in ToSet(queue') : tm.obj = p}
      /\ \A tm : tm.obj # p => (tm \in ToSet(queue') <=> tm \in ToSet(queue))
  BY <1>1, <1>7, <1>8
<1>10. \A tm \in ToSet(queue') : tm.obj = p => InMemory(tm)'
  BY <1>6 DEF InMemory
<1>11. QED BY <1>1, <1>2, <1>4, <1>5, <1>6, <1>7, <1>9, <1>10, ChangeInvariant

-----------------------------------------------------------------------------
\* run_timers takes the first timer off the list; nothing in it is due sooner.
LEMMA Fired ==
  ASSUME Inv, Fire
  PROVE  \E x \in ToSet(queue) : \E q \in TimerLists :
           /\ Sorted(q) /\ ToSet(q) = ToSet(queue) \ {x} /\ x.due <= now
           /\ x.obj \in Objs /\ x \in Timer /\ Effect(x.obj, q)
           /\ \A tm \in Stored : tm.obj # x.obj
           /\ Had(x.obj) = {tm \in ToSet(queue) : tm.obj = x.obj}
<1>1. queue \in TimerLists /\ Sorted(queue) /\ queue # <<>>
  BY DEF Inv, Types, Fire
<1>2. PICK x, q : x = Head(queue) /\ q = Tail(queue)
  OBVIOUS
<1>3. x \in ToSet(queue) /\ q \in TimerLists /\ Sorted(q) /\ ToSet(q) = ToSet(queue) \ {x}
  BY <1>1, <1>2, FirstTimer
<1>4. x.due <= now /\ Effect(x.obj, q)
  BY <1>2 DEF Fire
<1>5. x \in Timer /\ x.obj \in Objs
  BY <1>3, Places DEF Inv, Timer
<1>6. (\A tm \in Stored : tm.obj # x.obj) /\ Had(x.obj) = {tm \in ToSet(queue) : tm.obj = x.obj}
  BY <1>3, <1>5, AtHand
<1>7. QED BY <1>3, <1>4, <1>5, <1>6

\* The timers of x.obj without x.
LEMMA OneLess ==
  ASSUME Inv, NEW x \in ToSet(queue), x.obj \in Objs,
         Had(x.obj) = {tm \in ToSet(queue) : tm.obj = x.obj}
  PROVE  /\ IsFiniteSet(Had(x.obj) \ {x})
         /\ Cardinality(Had(x.obj) \ {x}) = timed[x.obj] - 1
         /\ timed[x.obj] - 1 \in Nat
<1>1. IsFiniteSet(Had(x.obj)) /\ timed[x.obj] = Cardinality(Had(x.obj)) /\ x \in Had(x.obj)
  BY DEF Inv, Counted
<1>2. IsFiniteSet(Had(x.obj) \ {x}) /\ Cardinality(Had(x.obj) \ {x}) = timed[x.obj] - 1
  BY <1>1, FS_RemoveElement
<1>3. Cardinality(Had(x.obj) \ {x}) \in Nat
  BY <1>2, FS_CardinalityType
<1>4. QED BY <1>2, <1>3

\* What the function of x did: nothing to the timers, the end of the object, or the
\* start of tm.
Leaves(x) ==
  /\ ToSet(queue') = ToSet(queue) \ {x}
  /\ timed' = [timed EXCEPT ![x.obj] = @ - 1] /\ UNCHANGED <<where, lev>>

Destroys(x) ==
  /\ ToSet(queue') = {tm \in ToSet(queue) : tm.obj # x.obj}
  /\ timed' = [timed EXCEPT ![x.obj] = 0]
  /\ where' = [where EXCEPT ![x.obj] = "free"] /\ UNCHANGED lev

Restarts(x, tm) ==
  /\ tm.obj = x.obj /\ tm.func \in Funcs /\ tm.due \in Int /\ tm.due > now
  /\ \A y \in ToSet(queue) \ {x} : ~SameKey(y, tm)
  /\ ToSet(queue') = (ToSet(queue) \ {x}) \cup {tm}
  /\ UNCHANGED <<timed, where, lev>>

\* The list after the function of its first timer has run.
LEMMA FireEffects ==
  ASSUME Inv, Fire
  PROVE  /\ queue' \in TimerLists /\ Sorted(queue)'
         /\ \E x \in ToSet(queue) :
              /\ x.obj \in Objs /\ x \in Timer /\ x.due <= now
              /\ \A tm \in Stored : tm.obj # x.obj
              /\ Had(x.obj) = {tm \in ToSet(queue) : tm.obj = x.obj}
              /\ Leaves(x) \/ Destroys(x) \/ \E tm \in Timer : Restarts(x, tm)
<1>1. PICK x \in ToSet(queue), q \in TimerLists :
           /\ Sorted(q) /\ ToSet(q) = ToSet(queue) \ {x} /\ x.due <= now
           /\ x.obj \in Objs /\ x \in Timer /\ Effect(x.obj, q)
           /\ \A tm \in Stored : tm.obj # x.obj
           /\ Had(x.obj) = {tm \in ToSet(queue) : tm.obj = x.obj}
  BY Fired
<1> SUFFICES /\ queue' \in TimerLists /\ Sorted(queue)'
             /\ Leaves(x) \/ Destroys(x) \/ \E tm \in Timer : Restarts(x, tm)
  BY <1>1
<1>2. CASE queue' = q /\ timed' = [timed EXCEPT ![x.obj] = @ - 1] /\ UNCHANGED objVars
  <2>1. queue' \in TimerLists /\ Sorted(queue)'
    BY <1>1, <1>2
  <2>2. Leaves(x)
    BY <1>1, <1>2 DEF Leaves, objVars
  <2>3. QED BY <2>1, <2>2
<1>3. CASE /\ where' = [where EXCEPT ![x.obj] = "free"] /\ UNCHANGED lev
           /\ queue' = IF timed[x.obj] > 1 THEN Without(q, x.obj) ELSE q
           /\ timed' = [timed EXCEPT ![x.obj] = 0]
  <2>1. /\ queue' \in TimerLists /\ Sorted(queue)'
        /\ ToSet(queue') = {tm \in ToSet(q) : tm.obj # x.obj}
    <3>1. CASE timed[x.obj] > 1
      <4>1. queue' = Without(q, x.obj)
        BY <1>3, <3>1
      <4>2. QED BY <1>1, <4>1, WithoutTimers
    <3>2. CASE ~(timed[x.obj] > 1)
      <4>1. queue' = q
        BY <1>3, <3>2
      <4>2. Cardinality(Had(x.obj) \ {x}) = 0 /\ IsFiniteSet(Had(x.obj) \ {x})
        <5>1. /\ Cardinality(Had(x.obj) \ {x}) = timed[x.obj] - 1 /\ timed[x.obj] - 1 \in Nat
              /\ IsFiniteSet(Had(x.obj) \ {x})
          BY <1>1, OneLess
        <5>2. timed[x.obj] \in Nat
          BY <1>1 DEF Inv, Types
        <5>3. timed[x.obj] - 1 = 0
          BY <3>2, <5>1, <5>2
        <5>4. QED BY <5>1, <5>3
      <4>3. Had(x.obj) \ {x} = {}
        BY <4>2, FS_EmptySet
      <4>4. \A tm \in ToSet(q) : tm.obj # x.obj
        BY <1>1, <4>3
      <4>5. QED BY <1>1, <4>1, <4>4
    <3>3. QED BY <3>1, <3>2
  <2>2. ToSet(queue') = {tm \in ToSet(queue) : tm.obj # x.obj}
    BY <1>1, <2>1
  <2>3. Destroys(x)
    BY <1>3, <2>2 DEF Destroys
  <2>4. QED BY <2>1, <2>3
<1>4. ASSUME NEW f \in Funcs, NEW when \in Delays, when >= 1, ~Has(q, x.obj, f),
             queue' = Started(q, x.obj, f, when), UNCHANGED <<timed, objVars>>
      PROVE  queue' \in TimerLists /\ Sorted(queue)' /\ \E tm \in Timer : Restarts(x, tm)
  <2> DEFINE tm == [obj |-> x.obj, func |-> f, due |-> now + when]
  <2>1. tm \in Timer /\ tm.obj = x.obj /\ tm.func = f /\ tm.due = now + when
    BY <1>1, TimeAssumption DEF Inv, Types, Timer
  <2>2. queue' = Insert(q, tm)
    BY <1>4 DEF Started
  <2>3. tm.due \in Int /\ tm.due > now
    BY <1>4, <2>1, TimeAssumption DEF Inv, Types
  <2> HIDE DEF tm
  <2>4. \A y \in ToSet(q) : ~SameKey(y, tm)
    BY <1>4, <2>1, HasTimer DEF SameKey
  <2>5. queue' \in TimerLists /\ Sorted(queue)' /\ ToSet(queue') = ToSet(q) \cup {tm}
    BY <1>1, <2>1, <2>2, <2>4, InsertProperties
  <2>6. Restarts(x, tm)
    BY <1>1, <1>4, <2>1, <2>3, <2>4, <2>5 DEF Restarts, objVars
  <2>7. QED BY <2>1, <2>5, <2>6
<1>5. \/ queue' = q /\ timed' = [timed EXCEPT ![x.obj] = @ - 1] /\ UNCHANGED objVars
      \/ /\ where' = [where EXCEPT ![x.obj] = "free"] /\ UNCHANGED lev
         /\ queue' = IF timed[x.obj] > 1 THEN Without(q, x.obj) ELSE q
         /\ timed' = [timed EXCEPT ![x.obj] = 0]
      \/ \E f \in Funcs, when \in Delays :
           /\ when >= 1 /\ ~Has(q, x.obj, f)
           /\ queue' = Started(q, x.obj, f, when)
           /\ UNCHANGED <<timed, objVars>>
  BY <1>1 DEF Effect
<1>6. QED BY <1>2, <1>3, <1>4, <1>5

\* run_timers lowers the count before it calls the function, which may end the object
\* or start a timer for it.
LEMMA FireInvariant ==
  ASSUME Inv, Fire
  PROVE  Inv'
<1>1. queue' \in TimerLists /\ Sorted(queue)' /\ UNCHANGED <<now, cur, store, running>>
  BY FireEffects DEF Fire
<1>2. PICK x \in ToSet(queue) :
              /\ x.obj \in Objs /\ x \in Timer /\ x.due <= now
              /\ \A tm \in Stored : tm.obj # x.obj
              /\ Had(x.obj) = {tm \in ToSet(queue) : tm.obj = x.obj}
              /\ Leaves(x) \/ Destroys(x) \/ \E tm \in Timer : Restarts(x, tm)
  BY FireEffects
<1> DEFINE o == x.obj
           L == Had(o) \ {x}
<1>3. IsFiniteSet(L) /\ Cardinality(L) = timed[o] - 1 /\ timed[o] - 1 \in Nat
  BY <1>2, OneLess
<1>4. InMemory(x)
  BY DEF Inv, Follows
<1>5. CASE Leaves(x)
  <2>1. /\ timed' = [timed EXCEPT ![o] = @ - 1] /\ UNCHANGED <<where, lev>>
        /\ ToSet(queue') = ToSet(queue) \ {x}
    BY <1>5 DEF Leaves
  <2>2. timed'[o] = timed[o] - 1 /\ \A p \in Objs : p # o => timed'[p] = timed[p]
    BY <1>2, <2>1 DEF Inv, Types
  <2>3. Types'
    BY <1>1, <1>2, <1>3, <2>1 DEF Inv, Types
  <2>4. L = {tm \in ToSet(queue') : tm.obj = o}
    BY <1>2, <2>1
  <2>5. \A tm \in ToSet(queue') : tm.obj = o => InMemory(tm)'
    BY <1>1, <1>4, <2>1 DEF InMemory
  <2>6. \A tm : tm.obj # o => (tm \in ToSet(queue') <=> tm \in ToSet(queue))
    BY <2>1
  <2> HIDE DEF L, o
  <2>7. o \in Objs /\ \A tm \in Stored : tm.obj # o
    BY <1>2 DEF o
  <2>8. QED BY <1>1, <1>3, <2>1, <2>2, <2>3, <2>4, <2>5, <2>6, <2>7, ChangeInvariant
<1>6. CASE Destroys(x)
  <2>1. /\ timed' = [timed EXCEPT ![o] = 0] /\ where' = [where EXCEPT ![o] = "free"] /\ UNCHANGED lev
        /\ ToSet(queue') = {tm \in ToSet(queue) : tm.obj # o}
    BY <1>6 DEF Destroys
  <2> HIDE DEF L, o
  <2>2. o \in Objs /\ \A tm \in Stored : tm.obj # o
    BY <1>2 DEF o
  <2>3. QED BY <1>1, <2>1, <2>2, DestroyInvariant
<1>7. ASSUME NEW tm \in Timer, Restarts(x, tm) PROVE Inv'
  <2>1. /\ tm.obj = o /\ UNCHANGED <<timed, where, lev>>
        /\ \A y \in ToSet(queue) \ {x} : ~SameKey(y, tm)
        /\ ToSet(queue') = (ToSet(queue) \ {x}) \cup {tm}
    BY <1>7 DEF Restarts
  <2> DEFINE H == L \cup {tm}
  <2>2. H = {y \in ToSet(queue') : y.obj = o} /\ tm \notin L
    BY <1>2, <2>1 DEF SameKey
  <2>3. timed[o] \in Nat
    BY <1>2 DEF Inv, Types
  <2>4. Types'
    BY <1>1, <2>1 DEF Inv, Types
  <2>5. \A y \in ToSet(queue') : y.obj = o => InMemory(y)'
    BY <1>1, <1>4, <2>1 DEF InMemory
  <2>6. \A y : y.obj # o => (y \in ToSet(queue') <=> y \in ToSet(queue))
    BY <2>1
  <2> HIDE DEF L, o
  <2>7. IsFiniteSet(H) /\ Cardinality(H) = timed[o]
    <3>1. IsFiniteSet(H) /\ Cardinality(H) = (timed[o] - 1) + 1
      BY <1>3, <2>2, FS_AddElement
    <3>2. QED BY <2>3, <3>1
  <2> HIDE DEF H
  <2>8. o \in Objs /\ \A y \in Stored : y.obj # o
    BY <1>2 DEF o
  <2>9. QED BY <1>1, <2>1, <2>2, <2>4, <2>5, <2>6, <2>7, <2>8, ChangeInvariant
<1>8. QED BY <1>2, <1>5, <1>6, <1>7

-----------------------------------------------------------------------------
\* A level change moves timers between the list and the files.
LEMMA Moved ==
  ASSUME Inv, NEW l \in Levels, GotoLevel(l)
  PROVE  /\ queue' \in TimerLists /\ Sorted(queue)' /\ store' \in [Levels -> TimerLists]
         /\ ToSet(queue') = (ToSet(queue) \ LocalTimers) \cup ToSet(store[l])
         /\ ToSet(store'[cur]) = ToSet(queue) \cap LocalTimers
         /\ ToSet(store'[l]) = {}
         /\ \A k \in Levels : k # cur /\ k # l => store'[k] = store[k]
         /\ AllTimers' = AllTimers
<1>1. /\ queue \in TimerLists /\ Sorted(queue) /\ store \in [Levels -> TimerLists]
      /\ cur \in Levels /\ l # cur
  BY DEF Inv, Types, GotoLevel
<1>2. PICK kept, out : kept = Filter(queue, Timer \ LocalTimers) /\ out = Filter(queue, LocalTimers)
  OBVIOUS
<1>3. queue' = InsertAll(kept, store[l]) /\ store' = [store EXCEPT ![cur] = out, ![l] = <<>>]
  BY <1>2 DEF GotoLevel
<1>4. /\ AllTimers = ToSet(queue) \cup Stored /\ ToSet(queue) \in SUBSET Timer
      /\ ToSet(store[cur]) = {}
  BY Places DEF Inv
<1>5. kept \in TimerLists /\ Sorted(kept) /\ ToSet(kept) = ToSet(queue) \ LocalTimers
  BY <1>1, <1>2, <1>4, FilterTimers
<1>6. out \in TimerLists /\ ToSet(out) = ToSet(queue) \cap LocalTimers
  BY <1>1, <1>2, FilterTimers
<1>7. store[l] \in TimerLists
  BY <1>1
<1>8. Apart(kept, store[l])
  <2>1. \A a \in ToSet(kept) : where[a.obj] # "level"
    BY <1>4, <1>5 DEF LocalTimers
  <2>2. \A b \in ToSet(store[l]) : where[b.obj] = "level"
    BY DEF Inv, Follows, InFile
  <2>3. QED BY <2>1, <2>2 DEF Apart, SameKey
<1>9. /\ queue' \in TimerLists /\ Sorted(queue)'
      /\ ToSet(queue') = (ToSet(queue) \ LocalTimers) \cup ToSet(store[l])
  BY <1>3, <1>5, <1>7, <1>8, InsertAllProperties
<1>10. PICK none : none = <<>>
  OBVIOUS
<1>11. none \in TimerLists /\ ToSet(none) = {} /\ store' = [store EXCEPT ![cur] = out, ![l] = none]
  BY <1>3, <1>10, NoTimers
<1>12. store' \in [Levels -> TimerLists]
  BY <1>1, <1>6, <1>11
<1>13. store'[cur] = out /\ store'[l] = none /\ \A k \in Levels : k # cur /\ k # l => store'[k] = store[k]
  BY <1>1, <1>11
<1>14. ToSet(store'[cur]) = ToSet(queue) \cap LocalTimers /\ ToSet(store'[l]) = {}
  BY <1>6, <1>11, <1>13
<1>15. AllTimers' = ToSet(queue') \cup UNION { ToSet(store'[k]) : k \in Levels }
  BY DEF AllTimers
<1>16. AllTimers = ToSet(queue) \cup UNION { ToSet(store[k]) : k \in Levels }
  BY DEF AllTimers
<1>17. ASSUME NEW tm \in AllTimers' PROVE tm \in AllTimers
  <2>1. CASE tm \in ToSet(queue')
    BY <1>9, <1>16, <2>1
  <2>2. ASSUME NEW k \in Levels, tm \in ToSet(store'[k]) PROVE tm \in AllTimers
    BY <1>13, <1>14, <1>16, <2>2
  <2>3. QED BY <1>15, <1>17, <2>1, <2>2
<1>18. ASSUME NEW tm \in AllTimers PROVE tm \in AllTimers'
  <2>1. CASE tm \in ToSet(queue)
    <3>1. tm \in ToSet(queue') \/ tm \in ToSet(store'[cur])
      BY <1>9, <1>14, <2>1
    <3>2. QED BY <1>1, <1>15, <3>1
  <2>2. ASSUME NEW k \in Levels, tm \in ToSet(store[k]) PROVE tm \in AllTimers'
    <3>1. CASE k = l
      BY <1>9, <1>15, <2>2, <3>1
    <3>2. CASE k # l
      <4>1. k # cur
        BY <1>4, <2>2
      <4>2. tm \in ToSet(store'[k])
        BY <1>13, <2>2, <3>2, <4>1
      <4>3. QED BY <1>15, <4>2
    <3>3. QED BY <3>1, <3>2
  <2>3. QED BY <1>16, <1>18, <2>1, <2>2
<1>19. QED BY <1>9, <1>12, <1>13, <1>14, <1>17, <1>18

\* A level change leaves every timer where its object is.
LEMMA GotoInvariant ==
  ASSUME Inv, NEW l \in Levels, GotoLevel(l)
  PROVE  Inv'
<1>1. /\ UNCHANGED <<now, timed>> /\ cur' = l /\ running' = TRUE /\ l # cur
      /\ where' = [o \in Objs |-> IF where[o] = "migrating" /\ lev[o] = l THEN "level" ELSE where[o]]
      /\ lev' = [o \in Objs |-> IF where[o] = "hero" THEN l ELSE lev[o]]
  BY DEF GotoLevel
<1>2. Types'
  BY <1>1, Moved DEF Inv, Types
<1>3. AllTimers \in SUBSET Timer /\ AllTimers = ToSet(queue) \cup Stored
  BY Places DEF Inv
<1>4. \A tm \in AllTimers : tm.obj \in Objs /\ tm \in Timer
  BY <1>3 DEF Timer
<1>5. ASSUME NEW tm \in ToSet(queue') PROVE InMemory(tm)'
  <2>1. CASE tm \in ToSet(queue) \ LocalTimers
    <3>1. InMemory(tm) /\ tm.obj \in Objs /\ where[tm.obj] # "level"
      BY <1>3, <1>4, <2>1 DEF Inv, Follows, LocalTimers
    <3>2. QED BY <1>1, <3>1 DEF InMemory
  <2>2. CASE tm \in ToSet(store[l])
    <3>1. InFile(tm, l) /\ tm \in Stored
      BY <2>2 DEF Inv, Follows, Stored
    <3>2. tm.obj \in Objs
      BY <1>3, <1>4, <3>1
    <3>3. QED BY <1>1, <3>1, <3>2 DEF InMemory, InFile
  <2>3. QED BY <1>5, <2>1, <2>2, Moved
<1>6. ASSUME NEW k \in Levels, NEW tm \in ToSet(store'[k]) PROVE InFile(tm, k)'
  <2>1. CASE k = cur
    <3>1. tm \in ToSet(queue) /\ tm \in LocalTimers
      BY <1>6, <2>1, Moved
    <3>2. where[tm.obj] = "level" /\ lev[tm.obj] = cur /\ tm.obj \in Objs
      BY <1>3, <1>4, <3>1 DEF Inv, Follows, InMemory, LocalTimers
    <3>3. QED BY <1>1, <2>1, <3>2 DEF InFile
  <2>2. CASE k # cur /\ k # l
    <3>1. tm \in ToSet(store[k])
      BY <1>6, <2>2, Moved
    <3>2. InFile(tm, k) /\ tm \in Stored
      BY <3>1 DEF Inv, Follows, Stored
    <3>3. tm.obj \in Objs
      BY <1>3, <1>4, <3>2
    <3>4. QED BY <1>1, <2>2, <3>2, <3>3 DEF InFile
  <2>3. k # l
    BY <1>6, Moved
  <2>4. QED BY <2>1, <2>2, <2>3
<1>7. Follows'
  BY <1>5, <1>6 DEF Follows
<1>8. \A o \in Objs : Had(o)' = Had(o)
  BY Moved DEF Had
<1>9. \A o \in Objs : Counted(o)'
  BY <1>1, <1>8, StillCounted DEF Inv
<1>10. QED BY <1>2, <1>7, <1>9, Moved DEF Inv

\* A step that leaves objects and timers alone.
LEMMA IdleInvariant ==
  ASSUME Inv, UNCHANGED <<cur, where, lev, timed, queue, store>>,
         now' \in 1 .. MaxTime, running' \in BOOLEAN
  PROVE  Inv'
<1>1. Types' /\ Sorted(queue)'
  BY DEF Inv, Types
<1>2. Follows'
  BY DEF Inv, Follows, InMemory, InFile
<1>3. \A o \in Objs : Had(o)' = Had(o)
  BY DEF Had, AllTimers
<1>4. \A o \in Objs : Counted(o)'
  BY <1>3, StillCounted DEF Inv
<1>5. QED BY <1>1, <1>2, <1>4 DEF Inv

-----------------------------------------------------------------------------
\* Before the first turn there are no timers.
LEMMA InitInvariant == Init => Inv
<1> SUFFICES ASSUME Init PROVE Inv
  OBVIOUS
<1>1. PICK none : none = <<>>
  OBVIOUS
<1>2. none \in TimerLists /\ ToSet(none) = {} /\ Sorted(none)
  BY <1>1, NoTimers
<1>3. queue = none /\ store = [l \in Levels |-> none]
  BY <1>1 DEF Init
<1>4. Types
  <2>1. /\ now = 1 /\ cur \in Levels /\ where = [o \in Objs |-> "free"] /\ lev = [o \in Objs |-> cur]
        /\ timed = [o \in Objs |-> 0] /\ running = FALSE
    BY DEF Init
  <2>2. queue \in TimerLists /\ store \in [Levels -> TimerLists]
    BY <1>2, <1>3
  <2>3. now \in 1 .. MaxTime
    BY <2>1, TimeAssumption
  <2>4. QED BY <2>1, <2>2, <2>3 DEF Types
<1>5. ToSet(queue) = {} /\ \A l \in Levels : ToSet(store[l]) = {}
  BY <1>2, <1>3
<1>6. Follows
  BY <1>5 DEF Follows
<1>7. AllTimers = {}
  BY <1>5 DEF AllTimers
<1>8. \A o \in Objs : Had(o) = {} /\ timed[o] = 0
  BY <1>7 DEF Had, Init
<1>9. \A o \in Objs : Counted(o)
  BY <1>8, FS_EmptySet DEF Counted
<1>10. QED BY <1>2, <1>3, <1>4, <1>6, <1>9 DEF Inv

\* Any step.
LEMMA NextInvariant == Inv /\ [Next]_vars => Inv'
<1> SUFFICES ASSUME Inv, [Next]_vars PROVE Inv'
  OBVIOUS
<1>1. CASE Tick
  <2>1. now' \in 1 .. MaxTime /\ running' \in BOOLEAN
    BY <1>1, TimeAssumption DEF Tick, Inv, Types
  <2>2. UNCHANGED <<cur, where, lev, timed, queue, store>>
    BY <1>1 DEF Tick, objVars
  <2>3. QED BY <2>1, <2>2, IdleInvariant
<1>2. CASE Fire
  BY <1>2, FireInvariant
<1>3. CASE RunDone
  <2>1. UNCHANGED <<now, cur, where, lev, timed, queue, store>> /\ running' \in BOOLEAN
    BY <1>3 DEF RunDone, objVars
  <2>2. now' \in 1 .. MaxTime
    BY <2>1 DEF Inv, Types
  <2>3. QED BY <2>1, <2>2, IdleInvariant
<1>4. ASSUME NEW o \in Objs, Create(o) PROVE Inv'
  <2>1. cur \in Levels
    BY DEF Inv, Types
  <2>2. /\ UNCHANGED <<now, cur, timed, queue, store, running>> /\ where[o] = "free"
        /\ where' = [where EXCEPT ![o] = "level"] /\ lev' = [lev EXCEPT ![o] = cur]
    BY <1>4 DEF Create
  <2>3. QED BY <2>1, <2>2, MoveInvariant
<1>5. ASSUME NEW o \in Objs, Carry(o) PROVE Inv'
  <2>1. /\ cur \in Levels /\ lev[o] = cur /\ lev \in [Objs -> Levels] /\ Here(o)
        /\ UNCHANGED <<now, cur, timed, queue, store, running>>
    BY <1>5 DEF Carry, Here, Inv, Types
  <2>2. lev' = [lev EXCEPT ![o] = cur]
    BY <1>5, <2>1 DEF Carry
  <2>3. PICK w \in {"hero", "level", "migrating"} : where' = [where EXCEPT ![o] = w]
    BY <1>5 DEF Carry
  <2>4. QED BY <2>1, <2>2, <2>3, MoveInvariant
<1>6. ASSUME NEW o \in Objs, NEW l \in Levels, Migrate(o, l) PROVE Inv'
  BY <1>6, MoveInvariant DEF Migrate
<1>7. ASSUME NEW o \in Objs, Delete(o) PROVE Inv'
  BY <1>7, DeleteInvariant
<1>8. ASSUME NEW o \in Objs, NEW p \in Objs, SplitObj(o, p) PROVE Inv'
  BY <1>8, SplitInvariant
<1>9. ASSUME NEW o \in Objs, NEW f \in Funcs, StopTimer(o, f) PROVE Inv'
  BY <1>9, StopInvariant
<1>10. ASSUME NEW o \in Objs, NEW f \in Funcs, NEW w \in Delays, StartTimer(o, f, w) PROVE Inv'
  BY <1>10, StartInvariant
<1>11. ASSUME NEW l \in Levels, GotoLevel(l) PROVE Inv'
  BY <1>11, GotoInvariant
<1>12. CASE UNCHANGED vars
  <2>1. UNCHANGED <<now, running, cur, where, lev, timed, queue, store>>
    BY <1>12 DEF vars, objVars
  <2>2. now' \in 1 .. MaxTime /\ running' \in BOOLEAN
    BY <2>1 DEF Inv, Types
  <2>3. QED BY <2>1, <2>2, IdleInvariant
<1>13. QED BY <1>1, <1>2, <1>3, <1>4, <1>5, <1>6, <1>7, <1>8, <1>9, <1>10, <1>11, <1>12 DEF Next

\* The invariant holds from the first turn on.
THEOREM TimerInvariance == Spec => []Inv
<1>1. Init => Inv
  BY InitInvariant
<1>2. Inv /\ [Next]_vars => Inv'
  BY NextInvariant
<1>3. QED BY <1>1, <1>2, PTL DEF Spec

-----------------------------------------------------------------------------
(* What follows from it.                                                   *)

\* A list of timers is a sequence of timers.
LEMMA ListsAreSequences ==
  ASSUME NEW s \in [Levels -> TimerLists]
  PROVE  s \in [Levels -> Seq(Timer)]
<1>1. \A S, T : S \subseteq T => [Levels -> S] \subseteq [Levels -> T]
  OBVIOUS
<1>2. TimerLists \subseteq Seq(Timer)
  BY Zenon DEF TimerLists
<1>3. QED BY <1>1, <1>2, Zenon

\* The list of timers, the files and the objects keep their types (timeout.c).
THEOREM TypesAreRight == Spec => []TypeOK
<1>1. Inv => TypeOK
  <2> SUFFICES ASSUME Inv PROVE TypeOK
    OBVIOUS
  <2>1. queue \in Seq(Timer)
    BY Zenon DEF Inv, Types, TimerLists
  <2>2. store \in [Levels -> Seq(Timer)]
    BY ListsAreSequences, Zenon DEF Inv, Types
  <2>3. QED BY <2>1, <2>2, Zenon DEF Inv, Types, TypeOK
<1>2. QED BY <1>1, TimerInvariance, PTL

\* obj->timed is the number of the object's timers, wherever they are: dealloc_obj
\* never leaves one behind for an object that is gone, and stop_timer, splitobj and
\* run_timers do not lose count.
THEOREM TimedIsTheCount == Spec => []TimedCountsTimers
<1>1. Inv => TimedCountsTimers
  BY DEF Inv, Counted, Had, TimedCountsTimers
<1>2. QED BY <1>1, TimerInvariance, PTL

\* A timer in the list is for an object in memory, one in a file for an object of
\* that level: save_timers and restore_timers never part the two.
THEOREM TimersStayWithObjects == Spec => []TimersFollowObjects
<1>1. Inv => TimersFollowObjects
  <2> SUFFICES ASSUME Inv PROVE TimersFollowObjects
    OBVIOUS
  <2>1. \A i \in DOMAIN queue : InMemory(queue[i])
    BY DEF Inv, Follows, ToSet
  <2>2. \A l \in Levels : \A i \in DOMAIN store[l] : InFile(store[l][i], l)
    BY DEF Inv, Follows, ToSet
  <2>3. QED BY <2>1, <2>2 DEF InMemory, InFile, TimersFollowObjects
<1>2. QED BY <1>1, TimerInvariance, PTL

\* run_timers looks at the first timer only, and still leaves nothing overdue: the
\* list is in order, whatever was started, stopped, split off or merged into it.
THEOREM NothingOverdue == Spec => RunClearsOverdue
<1>1. Inv /\ [Next]_vars => (running /\ ~running' => \A i \in DOMAIN queue : queue[i].due > now)
  <2> SUFFICES ASSUME Inv, [Next]_vars, running, ~running', NEW i \in DOMAIN queue
               PROVE  queue[i].due > now
    OBVIOUS
  <2>1. RunDone
    BY DEF Next, Tick, Fire, Create, Carry, Migrate, Delete, SplitObj, StartTimer, StopTimer, GotoLevel, vars
  <2>2. queue[i] \in ToSet(queue) /\ queue \in TimerLists /\ Sorted(queue)
    BY DEF ToSet, Inv, Types
  <2>3. PICK x : x = Head(queue)
    OBVIOUS
  <2>4. queue # <<>> /\ x \in ToSet(queue) /\ x.due <= queue[i].due
    BY <2>2, <2>3, FirstTimer
  <2>5. x.due > now
    BY <2>1, <2>3, <2>4 DEF RunDone
  <2>6. x \in Timer /\ queue[i] \in Timer
    BY <2>2, <2>4, Places DEF Inv
  <2>7. x.due \in Int /\ queue[i].due \in Int /\ now \in Int
    BY <2>6 DEF Timer, Inv, Types
  <2>8. QED BY <2>4, <2>5, <2>7
<1>2. QED BY <1>1, TimerInvariance, PTL DEF Spec, RunClearsOverdue

-----------------------------------------------------------------------------
(* The list and the files implement Deadlines.                             *)

\* A set in which no object has two timers for one function.
Unique(T) == T \in SUBSET Timer /\ NoTwice(T)

\* The due time of a timer, or none.
LEMMA DueIs ==
  ASSUME NEW T, Unique(T), NEW o \in Objs, NEW f \in Funcs
  PROVE  /\ \A tm \in T : tm.obj = o /\ tm.func = f =>
              DueTimes(T)[<<o, f>>] = tm.due /\ tm.due \in Int
         /\ (\A tm \in T : ~(tm.obj = o /\ tm.func = f)) => DueTimes(T)[<<o, f>>] = Off
<1> DEFINE x == <<o, f>>
           P(tm) == tm.obj = x[1] /\ tm.func = x[2]
<1>1. x \in Objs \X Funcs /\ x[1] = o /\ x[2] = f
  OBVIOUS
<1>2. DueTimes(T)[x] = IF \E tm \in T : P(tm) THEN (CHOOSE tm \in T : P(tm)).due ELSE Off
  BY <1>1 DEF DueTimes
<1>3. ASSUME NEW tm \in T, tm.obj = o, tm.func = f
      PROVE  DueTimes(T)[x] = tm.due /\ tm.due \in Int
  <2>1. P(tm)
    BY <1>1, <1>3
  <2>2. PICK c : c = CHOOSE y \in T : P(y)
    OBVIOUS
  <2>3. c \in T /\ P(c)
    BY <2>1, <2>2
  <2>4. c = tm
    BY <1>1, <1>3, <2>3 DEF Unique, NoTwice, SameKey
  <2>5. tm.due \in Int
    BY DEF Unique, Timer
  <2>6. DueTimes(T)[x] = c.due
    BY <1>2, <2>1, <2>2
  <2>7. QED BY <2>4, <2>5, <2>6
<1>4. ASSUME \A tm \in T : ~(tm.obj = o /\ tm.func = f) PROVE DueTimes(T)[x] = Off
  BY <1>1, <1>2, <1>4
<1>5. QED BY <1>3, <1>4

\* Every object and function has a due time or none.
LEMMA DueType ==
  ASSUME NEW T, Unique(T)
  PROVE  DueTimes(T) \in [Objs \X Funcs -> Int \cup {Off}]
<1>1. DueTimes(T) = [x \in Objs \X Funcs |-> DueTimes(T)[x]]
  BY DEF DueTimes
<1>2. ASSUME NEW o \in Objs, NEW f \in Funcs PROVE DueTimes(T)[<<o, f>>] \in Int \cup {Off}
  BY DueIs
<1>3. \A x \in Objs \X Funcs : \E o \in Objs, f \in Funcs : x = <<o, f>>
  OBVIOUS
<1>4. QED BY <1>1, <1>2, <1>3

\* Two functions of the objects and their timeout functions that agree.
LEMMA DueAgrees ==
  ASSUME NEW T, NEW e \in [Objs \X Funcs -> Int \cup {Off}],
         \A o \in Objs, f \in Funcs : DueTimes(T)[<<o, f>>] = e[<<o, f>>]
  PROVE  DueTimes(T) = e
<1>1. DueTimes(T) = [x \in Objs \X Funcs |-> DueTimes(T)[x]]
  BY DEF DueTimes
<1>2. \A x \in Objs \X Funcs : \E o \in Objs, f \in Funcs : x = <<o, f>>
  OBVIOUS
<1>3. \A x \in Objs \X Funcs : DueTimes(T)[x] = e[x]
  BY <1>2
<1>4. e = [x \in Objs \X Funcs |-> e[x]]
  OBVIOUS
<1>5. QED BY <1>1, <1>3, <1>4

\* A timer more.
LEMMA DueStart ==
  ASSUME NEW T, Unique(T), NEW U, Unique(U), NEW tm \in Timer, U = T \cup {tm},
         \A y \in T : ~SameKey(y, tm), NEW x, x = <<tm.obj, tm.func>>
  PROVE  /\ DueTimes(U) = [DueTimes(T) EXCEPT ![x] = tm.due]
         /\ DueTimes(T)[x] = Off /\ DueTimes(U)[x] = tm.due
         /\ tm.obj \in Objs /\ tm.func \in Funcs /\ tm.due \in Int
<1>1. tm.obj \in Objs /\ tm.func \in Funcs /\ tm.due \in Int
  BY DEF Timer
<1>2. DueTimes(T)[x] = Off /\ DueTimes(U)[x] = tm.due
  BY <1>1, DueIs DEF SameKey
<1> DEFINE e == [DueTimes(T) EXCEPT ![x] = tm.due]
<1>3. e \in [Objs \X Funcs -> Int \cup {Off}]
  BY <1>1, DueType
<1>4. ASSUME NEW o \in Objs, NEW f \in Funcs PROVE DueTimes(U)[<<o, f>>] = e[<<o, f>>]
  <2>1. CASE o = tm.obj /\ f = tm.func
    BY <1>1, <1>2, <2>1, DueType
  <2>2. CASE ~(o = tm.obj /\ f = tm.func)
    <3>1. e[<<o, f>>] = DueTimes(T)[<<o, f>>]
      BY <1>1, <2>2, DueType
    <3>2. CASE \E y \in T : y.obj = o /\ y.func = f
      BY <3>1, <3>2, DueIs
    <3>3. CASE ~\E y \in T : y.obj = o /\ y.func = f
      <4>1. ~\E y \in U : y.obj = o /\ y.func = f
        BY <2>2, <3>3
      <4>2. QED BY <3>1, <3>3, <4>1, DueIs
    <3>4. QED BY <3>2, <3>3
  <2>3. QED BY <2>1, <2>2
<1> HIDE DEF e
<1>5. DueTimes(U) = e
  BY <1>3, <1>4, DueAgrees
<1>6. QED BY <1>1, <1>2, <1>5 DEF e

\* A timer less.
LEMMA DueStop ==
  ASSUME NEW T, Unique(T), NEW tm \in T, NEW U, U = T \ {tm}, NEW x, x = <<tm.obj, tm.func>>
  PROVE  /\ Unique(U) /\ DueTimes(U) = [DueTimes(T) EXCEPT ![x] = Off]
         /\ DueTimes(T)[x] = tm.due
         /\ tm.obj \in Objs /\ tm.func \in Funcs /\ tm.due \in Int
<1>1. tm.obj \in Objs /\ tm.func \in Funcs /\ tm.due \in Int
  BY DEF Timer, Unique
<1>2. Unique(U)
  BY DEF Unique, NoTwice
<1>3. \A y \in U : ~SameKey(y, tm)
  BY DEF Unique, NoTwice
<1>4. DueTimes(T)[x] = tm.due /\ DueTimes(U)[x] = Off
  BY <1>1, <1>2, <1>3, DueIs DEF SameKey
<1> DEFINE e == [DueTimes(T) EXCEPT ![x] = Off]
<1>5. e \in [Objs \X Funcs -> Int \cup {Off}]
  BY <1>1, DueType
<1>6. ASSUME NEW o \in Objs, NEW f \in Funcs PROVE DueTimes(U)[<<o, f>>] = e[<<o, f>>]
  <2>1. CASE o = tm.obj /\ f = tm.func
    BY <1>1, <1>4, <2>1, DueType
  <2>2. CASE ~(o = tm.obj /\ f = tm.func)
    <3>1. e[<<o, f>>] = DueTimes(T)[<<o, f>>]
      BY <1>1, <2>2, DueType
    <3>2. CASE \E y \in U : y.obj = o /\ y.func = f
      BY <1>2, <3>1, <3>2, DueIs
    <3>3. CASE ~\E y \in U : y.obj = o /\ y.func = f
      <4>1. ~\E y \in T : y.obj = o /\ y.func = f
        BY <2>2, <3>3
      <4>2. QED BY <1>2, <3>1, <3>3, <4>1, DueIs
    <3>4. QED BY <3>2, <3>3
  <2>3. QED BY <2>1, <2>2
<1> HIDE DEF e
<1>7. DueTimes(U) = e
  BY <1>5, <1>6, DueAgrees
<1>8. QED BY <1>1, <1>2, <1>4, <1>7 DEF e

\* All timers of an object less.
LEMMA DueEnd ==
  ASSUME NEW T, Unique(T), NEW o \in Objs, NEW U, U = {tm \in T : tm.obj # o}
  PROVE  DueTimes(U) = [x \in Objs \X Funcs |-> IF x[1] = o THEN Off ELSE DueTimes(T)[x]]
<1>1. Unique(U)
  BY DEF Unique, NoTwice
<1> DEFINE e == [x \in Objs \X Funcs |-> IF x[1] = o THEN Off ELSE DueTimes(T)[x]]
<1>2. e \in [Objs \X Funcs -> Int \cup {Off}]
  BY DueType
<1>3. ASSUME NEW p \in Objs, NEW f \in Funcs PROVE DueTimes(U)[<<p, f>>] = e[<<p, f>>]
  <2>1. e[<<p, f>>] = IF p = o THEN Off ELSE DueTimes(T)[<<p, f>>]
    OBVIOUS
  <2>2. CASE p = o
    BY <1>1, <2>1, <2>2, DueIs
  <2>3. CASE p # o
    <3>1. CASE \E y \in T : y.obj = p /\ y.func = f
      BY <1>1, <2>1, <2>3, <3>1, DueIs
    <3>2. CASE ~\E y \in T : y.obj = p /\ y.func = f
      BY <1>1, <2>1, <2>3, <3>2, DueIs
    <3>3. QED BY <3>1, <3>2
  <2>4. QED BY <2>2, <2>3
<1> HIDE DEF e
<1>4. DueTimes(U) = e
  BY <1>2, <1>3, DueAgrees
<1>5. QED BY <1>4 DEF e

\* U has the timers of T, and for p those that o has in T.
Copies(T, U, o, p) ==
  /\ \A tm \in T : tm.obj # p /\ tm \in U
  /\ \A tm \in T : tm.obj = o => \E y \in U : y.obj = p /\ y.func = tm.func /\ y.due = tm.due
  /\ \A y \in U : y \in T \/ (y.obj = p /\ \E tm \in T : tm.obj = o /\ tm.func = y.func)

\* The due times d, with those of o for p.
DueCopied(d, o, p) == [x \in Objs \X Funcs |-> IF x[1] = p THEN d[<<o, x[2]>>] ELSE d[x]]

\* An object gets the timers of another.
LEMMA DueSplit ==
  ASSUME NEW T, Unique(T), NEW U, Unique(U), NEW o \in Objs, NEW p \in Objs, Copies(T, U, o, p)
  PROVE  /\ DueTimes(U) = DueCopied(DueTimes(T), o, p)
         /\ \A f \in Funcs : DueTimes(T)[<<p, f>>] = Off
<1>1. \A f \in Funcs : DueTimes(T)[<<p, f>>] = Off
  BY DueIs DEF Copies
<1> DEFINE e == [x \in Objs \X Funcs |-> IF x[1] = p THEN DueTimes(T)[<<o, x[2]>>] ELSE DueTimes(T)[x]]
<1>2. e \in [Objs \X Funcs -> Int \cup {Off}]
  BY DueType
<1>3. ASSUME NEW q \in Objs, NEW f \in Funcs PROVE DueTimes(U)[<<q, f>>] = e[<<q, f>>]
  <2>1. e[<<q, f>>] = IF q = p THEN DueTimes(T)[<<o, f>>] ELSE DueTimes(T)[<<q, f>>]
    OBVIOUS
  <2> HIDE DEF e
  <2>2. CASE q = p
    <3>1. CASE \E tm \in T : tm.obj = o /\ tm.func = f
      <4>1. PICK tm \in T : tm.obj = o /\ tm.func = f
        BY <3>1
      <4>2. PICK y \in U : y.obj = p /\ y.func = f /\ y.due = tm.due
        BY <4>1 DEF Copies
      <4>3. DueTimes(U)[<<p, f>>] = tm.due
        BY <4>2, DueIs
      <4>4. DueTimes(T)[<<o, f>>] = tm.due
        BY <4>1, DueIs
      <4>5. QED BY <2>1, <2>2, <4>3, <4>4
    <3>2. CASE ~\E tm \in T : tm.obj = o /\ tm.func = f
      <4>1. \A y \in U : ~(y.obj = p /\ y.func = f)
        BY <3>2 DEF Copies
      <4>2. DueTimes(U)[<<p, f>>] = Off
        BY <4>1, DueIs
      <4>3. DueTimes(T)[<<o, f>>] = Off
        BY <3>2, DueIs
      <4>4. QED BY <2>1, <2>2, <4>2, <4>3
    <3>3. QED BY <3>1, <3>2
  <2>3. CASE q # p
    <3>1. \A y : y.obj = q => (y \in T <=> y \in U)
      BY <2>3 DEF Copies
    <3>2. CASE \E y \in T : y.obj = q /\ y.func = f
      BY <2>1, <2>3, <3>1, <3>2, DueIs
    <3>3. CASE ~\E y \in T : y.obj = q /\ y.func = f
      BY <2>1, <2>3, <3>1, <3>3, DueIs
    <3>4. QED BY <3>2, <3>3
  <2>4. QED BY <2>2, <2>3
<1> HIDE DEF e
<1>4. DueTimes(U) = e
  BY <1>2, <1>3, DueAgrees
<1>5. QED BY <1>1, <1>4 DEF e, DueCopied

\* Over the list and the files no object has two timers for a function.
LEMMA UniqueNow == Inv => Unique(AllTimers)
<1> SUFFICES ASSUME Inv PROVE Unique(AllTimers)
  OBVIOUS
<1>1. QED BY Places DEF Inv, Unique

\* So it is after a step.
LEMMA UniqueNext == Inv' => Unique(AllTimers')
<1>1. (Inv => Unique(AllTimers))'
  BY UniqueNow, PTL
<1>2. QED BY <1>1

\* A step in which no timer comes or goes.
LEMMA SameDeadlines ==
  ASSUME now' = now, AllTimers' = AllTimers
  PROVE  UNCHANGED Deadline!vars
BY DEF Deadline!vars

\* start_timer.
LEMMA StartStep ==
  ASSUME Inv, Inv', NEW o \in Objs, NEW f \in Funcs, NEW when \in Delays, StartTimer(o, f, when)
  PROVE  [Deadline!Next]_Deadline!vars
<1>1. now' = now /\ store' = store
  BY DEF StartTimer
<1>2. AllTimers = ToSet(queue) \cup Stored /\ AllTimers' = ToSet(queue') \cup Stored
  BY <1>1, Places, StoredKept DEF Inv
<1>3. CASE Has(queue, o, f)
  <2>1. queue' = queue
    BY <1>3 DEF StartTimer, Started
  <2>2. QED BY <1>1, <1>2, <2>1, SameDeadlines
<1>4. CASE ~Has(queue, o, f)
  <2> DEFINE tm == [obj |-> o, func |-> f, due |-> now + when]
  <2>1. tm \in Timer /\ tm.obj = o /\ tm.func = f
    BY TimeAssumption DEF Inv, Types, Timer
  <2>2. queue' = Insert(queue, tm)
    BY <1>4 DEF StartTimer, Started
  <2> HIDE DEF tm
  <2>3. \A x \in ToSet(queue) : ~SameKey(x, tm)
    BY <1>4, <2>1, HasTimer DEF SameKey
  <2>4. ToSet(queue') = ToSet(queue) \cup {tm}
    BY <2>1, <2>2, <2>3, InsertProperties DEF Inv, Types
  <2>5. \A x \in Stored : x.obj # o
    BY AtHand DEF StartTimer
  <2>6. AllTimers' = AllTimers \cup {tm} /\ \A x \in AllTimers : ~SameKey(x, tm)
    BY <1>2, <2>1, <2>3, <2>4, <2>5 DEF SameKey
  <2>7. Unique(AllTimers) /\ Unique(AllTimers')
    BY UniqueNow, UniqueNext
  <2>8. PICK x, T, U : x = <<o, f>> /\ T = AllTimers /\ U = AllTimers'
    OBVIOUS
  <2>9. /\ DueTimes(U) = [DueTimes(T) EXCEPT ![x] = tm.due]
        /\ DueTimes(T)[x] = Off /\ DueTimes(U)[x] = tm.due /\ tm.due \in Int
    BY <2>1, <2>6, <2>7, <2>8, DueStart
  <2>10. Deadline!Start(x)
    BY <1>1, <2>8, <2>9 DEF Deadline!Start
  <2>11. QED BY <2>8, <2>10 DEF Deadline!Next
<1>5. QED BY <1>3, <1>4

\* stop_timer.
LEMMA StopStep ==
  ASSUME Inv, Inv', NEW o \in Objs, NEW f \in Funcs, StopTimer(o, f)
  PROVE  Deadline!Next
<1>1. now' = now /\ store' = store
  BY DEF StopTimer
<1>2. AllTimers = ToSet(queue) \cup Stored /\ AllTimers' = ToSet(queue') \cup Stored
  BY <1>1, Places, StoredKept DEF Inv
<1>3. PICK tm \in ToSet(queue) : tm.obj = o /\ tm.func = f /\ ToSet(queue') = ToSet(queue) \ {tm}
  BY Stopped
<1>4. tm \notin Stored
  BY <1>3, AtHand DEF StopTimer
<1>5. PICK x, T, U : x = <<o, f>> /\ T = AllTimers /\ U = AllTimers'
  OBVIOUS
<1>6. Unique(T) /\ tm \in T /\ U = T \ {tm}
  BY <1>2, <1>3, <1>4, <1>5, UniqueNow
<1>7. /\ DueTimes(U) = [DueTimes(T) EXCEPT ![x] = Off]
      /\ DueTimes(T)[x] = tm.due /\ tm.due \in Int
  BY <1>3, <1>5, <1>6, DueStop
<1>8. DueTimes(T)[x] # Off
  BY <1>7, TimeAssumption
<1>9. Deadline!Stop(x)
  BY <1>1, <1>5, <1>7, <1>8 DEF Deadline!Stop
<1>10. QED BY <1>5, <1>9 DEF Deadline!Next

\* The end of an object, and of its timers.
LEMMA DeleteStep ==
  ASSUME Inv, NEW o \in Objs, Delete(o)
  PROVE  Deadline!Next
<1>1. now' = now /\ store' = store
  BY DEF Delete
<1>2. AllTimers = ToSet(queue) \cup Stored /\ AllTimers' = ToSet(queue') \cup Stored
  BY <1>1, Places, StoredKept DEF Inv
<1>3. AllTimers' = {tm \in AllTimers : tm.obj # o}
  BY <1>2, Deleted
<1>4. PICK T, U : T = AllTimers /\ U = AllTimers'
  OBVIOUS
<1>5. DueTimes(U) = [x \in Objs \X Funcs |-> IF x[1] = o THEN Off ELSE DueTimes(T)[x]]
  BY <1>3, <1>4, UniqueNow, DueEnd
<1>6. Deadline!End(o)
  BY <1>1, <1>4, <1>5 DEF Deadline!End
<1>7. QED BY <1>6 DEF Deadline!Next

\* splitobj.
LEMMA SplitStep ==
  ASSUME Inv, Inv', NEW o \in Objs, NEW p \in Objs, SplitObj(o, p)
  PROVE  Deadline!Next
<1>1. now' = now /\ store' = store /\ o # p /\ where[p] = "free"
  BY DEF SplitObj, Here
<1>2. AllTimers = ToSet(queue) \cup Stored /\ AllTimers' = ToSet(queue') \cup Stored
  BY <1>1, Places, StoredKept DEF Inv
<1>3. ToSet(queue') = ToSet(queue) \cup {[obj |-> p, func |-> tm.func, due |-> tm.due] : tm \in Had(o)}
  BY Divided
<1>4. \A tm \in AllTimers : tm.obj # p
  BY <1>1, FreeHasNone DEF Had
<1>5. Copies(AllTimers, AllTimers', o, p)
  <2>1. AllTimers' = AllTimers \cup {[obj |-> p, func |-> tm.func, due |-> tm.due] : tm \in Had(o)}
    BY <1>2, <1>3
  <2>2. \A tm \in AllTimers : tm \in Had(o) <=> tm.obj = o
    BY DEF Had
  <2>3. Had(o) \subseteq AllTimers
    BY DEF Had
  <2> DEFINE Clone(tm) == [obj |-> p, func |-> tm.func, due |-> tm.due]
  <2>4. \A tm : Clone(tm).obj = p /\ Clone(tm).func = tm.func /\ Clone(tm).due = tm.due
    OBVIOUS
  <2>5. PICK U : U = AllTimers'
    OBVIOUS
  <2>6. /\ \A tm \in AllTimers : tm \in U
        /\ \A tm \in Had(o) : Clone(tm) \in U
        /\ \A y \in U : y \in AllTimers \/ \E tm \in Had(o) : y = Clone(tm)
    BY <2>1, <2>5
  <2> HIDE DEF Clone
  <2>7. \A tm \in AllTimers : tm.obj = o => \E y \in U : y.obj = p /\ y.func = tm.func /\ y.due = tm.due
    BY <2>2, <2>4, <2>6
  <2>8. ASSUME NEW y \in U
        PROVE  y \in AllTimers \/ (y.obj = p /\ \E tm \in AllTimers : tm.obj = o /\ tm.func = y.func)
    <3>1. CASE y \in AllTimers
      BY <3>1
    <3>2. CASE \E tm \in Had(o) : y = Clone(tm)
      <4>1. PICK tm \in Had(o) : y = Clone(tm)
        BY <3>2
      <4>2. tm \in AllTimers /\ tm.obj = o
        BY <2>2, <2>3
      <4>3. y.obj = p /\ tm.func = y.func
        BY <2>4, <4>1
      <4>4. QED BY <4>2, <4>3
    <3>3. QED BY <2>6, <3>1, <3>2
  <2>9. Copies(AllTimers, U, o, p)
    BY <1>4, <2>6, <2>7, <2>8 DEF Copies
  <2>10. QED BY <2>5, <2>9
<1>6. PICK T, U : T = AllTimers /\ U = AllTimers'
  OBVIOUS
<1>7. Unique(T) /\ Unique(U) /\ Copies(T, U, o, p)
  BY <1>5, <1>6, UniqueNow, UniqueNext
<1>8. /\ DueTimes(U) = DueCopied(DueTimes(T), o, p)
      /\ \A f \in Funcs : DueTimes(T)[<<p, f>>] = Off
  BY <1>7, DueSplit
<1>9. Deadline!Split(o, p)
  BY <1>1, <1>6, <1>8 DEF Deadline!Split, DueCopied
<1>10. QED BY <1>9 DEF Deadline!Next

\* run_timers.
LEMMA FireStep ==
  ASSUME Inv, Inv', Fire
  PROVE  Deadline!Next
<1>1. now' = now /\ store' = store
  BY DEF Fire
<1>2. AllTimers = ToSet(queue) \cup Stored /\ AllTimers' = ToSet(queue') \cup Stored
  BY <1>1, Places, StoredKept DEF Inv
<1>3. PICK tm \in ToSet(queue) :
              /\ tm.obj \in Objs /\ tm \in Timer /\ tm.due <= now
              /\ \A y \in Stored : y.obj # tm.obj
              /\ Leaves(tm) \/ Destroys(tm) \/ \E new \in Timer : Restarts(tm, new)
  BY FireEffects
<1>4. PICK o, f, x, T, U, V : /\ o = tm.obj /\ f = tm.func /\ x = <<o, f>>
                              /\ T = AllTimers /\ U = AllTimers' /\ V = T \ {tm}
  OBVIOUS
<1>5. Unique(T) /\ Unique(U) /\ tm \in T
  BY <1>2, <1>4, UniqueNow, UniqueNext
<1>6. /\ DueTimes(V) = [DueTimes(T) EXCEPT ![x] = Off] /\ Unique(V)
      /\ DueTimes(T)[x] = tm.due /\ o \in Objs /\ f \in Funcs /\ tm.due \in Int
  BY <1>4, <1>5, DueStop
<1>7. DueTimes(T)[x] # Off /\ DueTimes(T)[x] <= now
  BY <1>3, <1>6, TimeAssumption
<1>8. SUFFICES Deadline!GoOff(o, f)
  BY <1>6 DEF Deadline!Next
<1>9. CASE Leaves(tm)
  <2>1. U = V
    BY <1>2, <1>3, <1>4, <1>9 DEF Leaves
  <2>2. DueTimes(U) = [DueTimes(T) EXCEPT ![x] = Off]
    BY <1>6, <2>1
  <2>3. QED BY <1>1, <1>4, <1>7, <2>2 DEF Deadline!GoOff
<1>10. CASE Destroys(tm)
  <2>1. U = {y \in T : y.obj # o}
    BY <1>2, <1>3, <1>4, <1>10 DEF Destroys
  <2>2. DueTimes(U) = [y \in Objs \X Funcs |-> IF y[1] = o THEN Off ELSE DueTimes(T)[y]]
    BY <1>5, <1>6, <2>1, DueEnd
  <2>3. QED BY <1>1, <1>4, <1>7, <2>2 DEF Deadline!GoOff
<1>11. ASSUME NEW new \in Timer, Restarts(tm, new) PROVE Deadline!GoOff(o, f)
  <2>1. PICK g, z : g = new.func /\ z = <<o, g>>
    OBVIOUS
  <2>2. /\ new.obj = o /\ g \in Funcs /\ new.due \in Int /\ new.due > now
        /\ U = V \cup {new} /\ \A y \in V : ~SameKey(y, new)
    BY <1>2, <1>3, <1>4, <1>11, <2>1 DEF Restarts, SameKey
  <2>3. /\ DueTimes(U) = [DueTimes(V) EXCEPT ![z] = new.due]
        /\ DueTimes(V)[z] = Off /\ DueTimes(U)[z] = new.due
    <3>1. z = <<new.obj, new.func>>
      BY <2>1, <2>2
    <3>2. Unique(V) /\ Unique(U) /\ U = V \cup {new} /\ \A y \in V : ~SameKey(y, new)
      BY <1>5, <1>6, <2>2
    <3>3. QED BY <3>1, <3>2, DueStart
  <2>4. DueTimes(U)[z] # Off /\ DueTimes(U)[z] > now
    BY <2>2, <2>3, TimeAssumption
  <2>5. /\ [DueTimes(T) EXCEPT ![x] = Off][z] = Off
        /\ DueTimes(U) = [[DueTimes(T) EXCEPT ![x] = Off] EXCEPT ![z] = DueTimes(U)[z]]
    BY <1>6, <2>3
  <2>6. QED BY <1>1, <1>4, <1>7, <2>1, <2>2, <2>4, <2>5 DEF Deadline!GoOff
<1>12. QED BY <1>3, <1>9, <1>10, <1>11

\* Every step is one of Deadlines, or leaves the due times alone.
LEMMA StepsKeepDeadlines == Inv /\ Inv' /\ [Next]_vars => [Deadline!Next]_Deadline!vars
<1> SUFFICES ASSUME Inv, Inv', [Next]_vars PROVE [Deadline!Next]_Deadline!vars
  OBVIOUS
<1>1. ASSUME UNCHANGED <<now, queue, store>> PROVE UNCHANGED Deadline!vars
  <2>1. AllTimers' = AllTimers
    BY <1>1 DEF AllTimers
  <2>2. QED BY <1>1, <2>1, SameDeadlines
<1>2. CASE Tick
  <2>1. AllTimers' = AllTimers /\ now' = now + 1
    BY <1>2 DEF Tick, AllTimers
  <2>2. Deadline!Tick
    BY <2>1 DEF Deadline!Tick
  <2>3. QED BY <2>2 DEF Deadline!Next
<1>3. CASE Fire
  BY <1>3, FireStep
<1>4. CASE RunDone
  BY <1>1, <1>4 DEF RunDone
<1>5. ASSUME NEW o \in Objs, Create(o) PROVE UNCHANGED Deadline!vars
  BY <1>1, <1>5 DEF Create
<1>6. ASSUME NEW o \in Objs, Carry(o) PROVE UNCHANGED Deadline!vars
  BY <1>1, <1>6 DEF Carry
<1>7. ASSUME NEW o \in Objs, NEW l \in Levels, Migrate(o, l) PROVE UNCHANGED Deadline!vars
  BY <1>1, <1>7 DEF Migrate
<1>8. ASSUME NEW o \in Objs, Delete(o) PROVE Deadline!Next
  BY <1>8, DeleteStep
<1>9. ASSUME NEW o \in Objs, NEW p \in Objs, SplitObj(o, p) PROVE Deadline!Next
  BY <1>9, SplitStep
<1>10. ASSUME NEW o \in Objs, NEW f \in Funcs, StopTimer(o, f) PROVE Deadline!Next
  BY <1>10, StopStep
<1>11. ASSUME NEW o \in Objs, NEW f \in Funcs, NEW w \in Delays, StartTimer(o, f, w)
       PROVE  [Deadline!Next]_Deadline!vars
  BY <1>11, StartStep
<1>12. ASSUME NEW l \in Levels, GotoLevel(l) PROVE UNCHANGED Deadline!vars
  <2>1. now' = now
    BY <1>12 DEF GotoLevel
  <2>2. QED BY <1>12, <2>1, Moved, SameDeadlines
<1>13. CASE UNCHANGED vars
  BY <1>1, <1>13 DEF vars
<1>14. QED BY <1>2, <1>3, <1>4, <1>5, <1>6, <1>7, <1>8, <1>9, <1>10, <1>11, <1>12, <1>13 DEF Next

\* The sorted list, and the files timers are written to and read back from, keep
\* the promise of Deadlines: a timer stays due when it was due until it is stopped
\* or goes off, once, and not early.
THEOREM TimersKeepDeadlines == Spec => ImplementsDeadlines
<1>1. Init => Deadline!Init
  <2> SUFFICES ASSUME Init PROVE Deadline!Init
    OBVIOUS
  <2>1. PICK none : none = <<>>
    OBVIOUS
  <2>2. ToSet(none) = {} /\ queue = none /\ store = [l \in Levels |-> none] /\ now = 1
    BY <2>1, NoTimers DEF Init
  <2>3. AllTimers = {}
    BY <2>2 DEF AllTimers
  <2>4. DueTimes({}) = [x \in Objs \X Funcs |-> Off]
    BY DEF DueTimes
  <2>5. QED BY <2>2, <2>3, <2>4 DEF Deadline!Init
<1>2. Inv /\ Inv' /\ [Next]_vars => [Deadline!Next]_Deadline!vars
  BY StepsKeepDeadlines
<1>3. QED BY <1>1, <1>2, TimerInvariance, PTL DEF Spec, ImplementsDeadlines, Deadline!Spec
=============================================================================
