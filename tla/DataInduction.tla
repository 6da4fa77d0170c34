---------------------------- MODULE DataInduction ----------------------------
(***************************************************************************)
(* Induction over numbers and over sequences, stated about sets so that it *)
(* can be applied, and what it yields: functions defined by recursion on a *)
(* number exist, and what Filter returns.                                  *)
(***************************************************************************)
EXTENDS Filters, WellFoundedInduction, TLAPS

\* A set of numbers that is not empty has a least element.
LEMMA LeastNumber ==
  ASSUME NEW S \in SUBSET Nat, S # {}
  PROVE  \E n \in S : \A m \in S : n <= m
<1>1. IsWellFoundedOn(OpToRel(<, Nat), Nat)
  BY NatLessThanWellFounded, Zenon
<1> DEFINE R == OpToRel(<, Nat)
<1>2. \A a, b \in Nat : a < b => <<a, b>> \in R
  BY DEF OpToRel
<1> HIDE DEF R
<1>3. IsWellFoundedOn(R, Nat)
  BY <1>1, Zenon DEF R
<1>4. PICK x \in S : \A y \in S : ~ (<<y, x>> \in R)
  BY <1>3, WFMin
<1>5. ASSUME NEW y \in S PROVE x <= y
  <2>1. ~(y < x)
    BY <1>2, <1>4
  <2> QED
    BY <2>1
<1> QED
  BY <1>5

\* A set that holds 0, and with a number the next one, holds every number.
LEMMA NatSetInduction ==
  ASSUME NEW S, 0 \in S, \A n \in Nat : n \in S => n + 1 \in S
  PROVE  \A n \in Nat : n \in S
<1> DEFINE T == Nat \ S
<1> SUFFICES ASSUME T # {} PROVE FALSE
  OBVIOUS
<1>1. PICK n \in T : \A m \in T : n <= m
  BY LeastNumber
<1>2. n # 0 /\ n - 1 \in Nat /\ n - 1 \notin T
  BY <1>1
<1> QED
  BY <1>1, <1>2

\* The same up to a bound.
LEMMA RangeInduction ==
  ASSUME NEW b \in Nat, NEW S, 0 \in S, \A n \in 0..(b - 1) : n \in S => n + 1 \in S
  PROVE  \A n \in 0..b : n \in S
<1> DEFINE T == {n \in Nat : n <= b => n \in S}
<1>1. 0 \in T
  OBVIOUS
<1>2. ASSUME NEW n \in Nat, n \in T PROVE n + 1 \in T
  BY <1>2
<1> HIDE DEF T
<1>3. \A n \in Nat : n \in T
  BY <1>1, <1>2, NatSetInduction
<1> QED
  BY <1>3 DEF T

\* f starts with a, and G gives each later value from the one before.
DefinedBy(f, X, a, G, b) ==
  /\ f \in [0..b -> X]
  /\ f[0] = a
  /\ \A i \in 1..b : f[i] = G[i][f[i - 1]]

\* A function on an initial segment of the numbers may be defined by recursion:
\* by its first value and by what each value makes of the one before.
LEMMA PrimitiveRecursion ==
  ASSUME NEW X, NEW a \in X, NEW G \in [Nat -> [X -> X]], NEW b \in Nat
  PROVE  \E f : DefinedBy(f, X, a, G, b)
<1> USE DEF DefinedBy
<1> DEFINE S == {n \in Nat : \E f : DefinedBy(f, X, a, G, n)}
<1>1. 0 \in S
  <2> DEFINE f == [i \in 0..0 |-> a]
  <2>1. f \in [0..0 -> X] /\ \A i \in 0..0 : i = 0
    OBVIOUS
  <2>2. DefinedBy(f, X, a, G, 0)
    BY <2>1
  <2> QED
    BY <2>1, <2>2
<1>2. ASSUME NEW n \in Nat, n \in S PROVE n + 1 \in S
  <2>1. PICK g : DefinedBy(g, X, a, G, n)
    BY <1>2
  <2> DEFINE f == [i \in 0..(n + 1) |-> IF i \in 0..n THEN g[i] ELSE G[i][g[n]]]
  <2>2. g[n] \in X /\ n + 1 \in Nat /\ G[n + 1][g[n]] \in X
    BY <2>1
  <2>3. f \in [0..(n + 1) -> X]
    BY <2>1, <2>2
  <2>4. f[0] = a
    BY <2>1
  <2>5. ASSUME NEW i \in 1..(n + 1)
        PROVE  f[i] = G[i][f[i - 1]]
    <3>1. CASE i \in 1..n
      <4>1. i \in 0..n /\ i - 1 \in 0..n /\ i \in 0..(n + 1) /\ i - 1 \in 0..(n + 1)
        BY <3>1
      <4>2. f[i] = g[i] /\ f[i - 1] = g[i - 1]
        BY <4>1
      <4>3. g[i] = G[i][g[i - 1]]
        BY <2>1, <3>1
      <4> QED
        BY <4>2, <4>3
    <3>2. CASE i = n + 1
      <4>1. i \notin 0..n /\ i - 1 = n /\ n \in 0..(n + 1) /\ n \in 0..n
        BY <3>2
      <4>2. f[i] = G[i][g[n]] /\ f[n] = g[n]
        BY <4>1
      <4> QED
        BY <4>1, <4>2
    <3> QED
      BY <3>1, <3>2
  <2> HIDE DEF f
  <2> QED
    BY <2>2, <2>3, <2>4, <2>5
<1> HIDE DEF S
<1>3. b \in S
  BY <1>1, <1>2, NatSetInduction
<1> QED
  BY <1>3 DEF S
-----------------------------------------------------------------------------
\* f[i] is what the filter has kept of the first i elements of s.
Filters(f, s, keep) ==
  /\ f[0] = <<>>
  /\ \A i \in 1..Len(s) :
       f[i] = IF s[i] \in keep THEN Append(f[i - 1], s[i]) ELSE f[i - 1]

\* Filter goes through the sequence from the front and appends what it keeps.
LEMMA FilterSteps ==
  ASSUME NEW S, NEW s \in Seq(S), NEW keep
  PROVE  \E f \in [0..Len(s) -> Seq(S \cap keep)] :
           Filters(f, s, keep) /\ Filter(s, keep) = f[Len(s)]
<1> DEFINE n == Len(s)
           X == Seq(S \cap keep)
           more(i, x) == IF s[i] \in keep THEN Append(x, s[i]) ELSE x
           Is(f) == f = [i \in 0..n |-> IF i = 0 THEN <<>> ELSE
                           IF s[i] \in keep THEN Append(f[i - 1], s[i]) ELSE f[i - 1]]
           kept == CHOOSE f : Is(f)
<1>1. n \in Nat /\ <<>> \in X /\ \A i \in 1..n : s[i] \in S
  OBVIOUS
<1>2. Filter(s, keep) = kept[n]
  BY DEF Filter
<1>3. ASSUME NEW i \in 1..n, NEW x \in X PROVE more(i, x) \in X
  <2>1. CASE s[i] \in keep
    BY <1>1, <2>1
  <2>2. CASE s[i] \notin keep
    BY <2>2
  <2> QED
    BY <2>1, <2>2
<1> HIDE DEF X
<1>4. \E f : Is(f)
  <2> DEFINE G == [i \in Nat |-> [x \in X |-> IF i \in 1..n THEN more(i, x) ELSE x]]
  <2>1. G \in [Nat -> [X -> X]]
    BY <1>3
  <2> HIDE DEF G
  <2>2. PICK f : DefinedBy(f, X, <<>>, G, n)
    BY <1>1, <2>1, PrimitiveRecursion
  <2>3. ASSUME NEW i \in 0..n, i # 0
        PROVE  f[i] = more(i, f[i - 1])
    <3>1. i - 1 \in 0..n /\ i \in Nat /\ i \in 1..n
      BY <1>1, <2>3
    <3>2. f[i - 1] \in X /\ f[i] = G[i][f[i - 1]]
      BY <2>2, <3>1 DEF DefinedBy
    <3> HIDE DEF more
    <3> QED
      BY <3>1, <3>2 DEF G
  <2>4. f \in [0..n -> X] /\ f[0] = <<>>
    BY <2>2 DEF DefinedBy
  <2>5. Is(f)
    BY <2>3, <2>4
  <2> QED
    BY <2>5
<1>5. Is(kept)
  BY <1>4
<1> HIDE DEF kept
<1>6. /\ kept[0] = <<>>
      /\ \A i \in 1..n : kept[i] = more(i, kept[i - 1])
      /\ kept = [i \in 0..n |-> kept[i]]
  <2>1. 0 \in 0..n /\ \A i \in 1..n : i \in 0..n /\ i # 0
    BY <1>1
  <2> HIDE DEF n
  <2>2. kept[0] = <<>>
    BY <1>5, <2>1
  <2>3. \A i \in 1..n : kept[i] = more(i, kept[i - 1])
    BY <1>5, <2>1
  <2>4. kept = [i \in 0..n |-> kept[i]]
    BY <1>5
  <2> QED
    BY <2>2, <2>3, <2>4
<1> HIDE DEF Is
<1> DEFINE T == {i \in 0..n : kept[i] \in X}
<1>7. 0 \in T
  BY <1>1, <1>6
<1>8. ASSUME NEW i \in 0..(n - 1), i \in T PROVE i + 1 \in T
  <2>1. i + 1 \in 1..n /\ (i + 1) - 1 = i /\ i + 1 \in 0..n
    BY <1>1
  <2> HIDE DEF more
  <2>2. kept[i + 1] = more(i + 1, kept[i])
    BY <1>6, <2>1
  <2> QED
    BY <1>3, <1>8, <2>1, <2>2
<1> HIDE DEF T
<1>9. \A i \in 0..n : i \in T
  BY <1>1, <1>7, <1>8, RangeInduction
<1>10. kept \in [0..n -> X]
  BY <1>6, <1>9 DEF T
<1>11. Filters(kept, s, keep)
  BY <1>6 DEF Filters
<1> QED
  BY <1>2, <1>10, <1>11 DEF X

\* Every element of the result is one of the sequence that is to be kept.
LEMMA FilterType ==
  ASSUME NEW S, NEW s \in Seq(S), NEW keep
  PROVE  Filter(s, keep) \in Seq(S \cap keep)
<1>1. PICK f \in [0..Len(s) -> Seq(S \cap keep)] : Filter(s, keep) = f[Len(s)]
  BY FilterSteps
<1>2. Len(s) \in 0..Len(s)
  OBVIOUS
<1> QED
  BY <1>1, <1>2

\* q is the part of the first k elements of s that is to be kept: h gives the
\* place in s of every element of q, in order, and no place is left out.
Selects(h, q, s, k, keep) ==
  /\ h \in [1..Len(q) -> 1..k]
  /\ \A i \in 1..Len(q) : q[i] = s[h[i]] /\ s[h[i]] \in keep
  /\ \A i, j \in 1..Len(q) : i < j => h[i] < h[j]
  /\ \A p \in 1..k : s[p] \in keep => \E i \in 1..Len(q) : h[i] = p

\* Filter keeps what is to be kept, all of it, and in its order.
LEMMA FilterSelects ==
  ASSUME NEW S, NEW s \in Seq(S), NEW keep
  PROVE  \E h : Selects(h, Filter(s, keep), s, Len(s), keep)
<1> DEFINE n == Len(s)
           X == Seq(S \cap keep)
<1>1. PICK f \in [0..n -> X] : Filters(f, s, keep) /\ Filter(s, keep) = f[n]
  BY FilterSteps
<1> DEFINE T == {k \in 0..n : \E h : Selects(h, f[k], s, k, keep)}
<1>2. n \in Nat /\ 0 \in 0..n
  OBVIOUS
<1>3. 0 \in T
  <2>1. f[0] = <<>>
    BY <1>1 DEF Filters
  <2>2. Selects([i \in 1..0 |-> 0], <<>>, s, 0, keep)
    BY DEF Selects
  <2> QED
    BY <1>2, <2>1, <2>2
<1>4. ASSUME NEW k \in 0..(n - 1), k \in T PROVE k + 1 \in T
  <2>1. PICK h : Selects(h, f[k], s, k, keep)
    BY <1>4
  <2>2. /\ k + 1 \in 1..n /\ (k + 1) - 1 = k /\ k + 1 \in 0..n /\ k \in 0..n
        /\ k \in Nat /\ s[k + 1] \in S
    BY <1>2
  <2>3. f[k + 1] = IF s[k + 1] \in keep THEN Append(f[k], s[k + 1]) ELSE f[k]
    <3>1. \A i \in 1..n :
            f[i] = IF s[i] \in keep THEN Append(f[i - 1], s[i]) ELSE f[i - 1]
      BY <1>1 DEF Filters
    <3> HIDE DEF n
    <3> QED
      BY <2>2, <3>1
  <2> DEFINE q == f[k]
             m == Len(q)
  <2>4. q \in X /\ m \in Nat
    BY <1>1, <2>2
  <2>5. CASE s[k + 1] \notin keep
    <3>1. Selects(h, q, s, k + 1, keep)
      <4>1. h \in [1..m -> 1..(k + 1)]
        BY <2>1, <2>2, <2>4 DEF Selects
      <4>2. \A p \in 1..(k + 1) : s[p] \in keep => p \in 1..k
        BY <2>2, <2>5
      <4> QED
        BY <2>1, <4>1, <4>2 DEF Selects
    <3> QED
      BY <2>2, <2>3, <2>5, <3>1
  <2>6. CASE s[k + 1] \in keep
    <3> DEFINE r == Append(q, s[k + 1])
               g == [i \in 1..(m + 1) |-> IF i <= m THEN h[i] ELSE k + 1]
    <3>1. /\ r = f[k + 1] /\ Len(r) = m + 1 /\ r[m + 1] = s[k + 1]
          /\ \A i \in 1..m : r[i] = q[i]
      BY <2>2, <2>3, <2>4, <2>6
    <3>2. \A i \in 1..m : h[i] \in 1..k
      BY <2>1 DEF Selects
    <3>3. \A i \in 1..(m + 1) : i \in 1..m \/ i = m + 1
      BY <2>4
    <3>4. /\ \A i \in 1..m : g[i] = h[i]
          /\ g[m + 1] = k + 1
      BY <2>4
    <3>5. g \in [1..(m + 1) -> 1..(k + 1)]
      BY <2>2, <2>4, <3>2
    <3> HIDE DEF r, g, m, q
    <3>6. \A i \in 1..(m + 1) : r[i] = s[g[i]] /\ s[g[i]] \in keep
      BY <2>1, <2>6, <3>1, <3>3, <3>4 DEF Selects, m, q
    <3>7. ASSUME NEW i \in 1..(m + 1), NEW j \in 1..(m + 1), i < j
          PROVE  g[i] < g[j]
      <4>1. i \in 1..m
        BY <2>4, <3>7
      <4>2. CASE j \in 1..m
        BY <2>1, <3>4, <3>7, <4>1, <4>2 DEF Selects, m, q
      <4>3. CASE j = m + 1
        BY <2>2, <3>2, <3>4, <4>1, <4>3
      <4> QED
        BY <3>3, <4>2, <4>3
    <3>8. ASSUME NEW p \in 1..(k + 1), s[p] \in keep
          PROVE  \E i \in 1..(m + 1) : g[i] = p
      <4>1. CASE p = k + 1
        BY <2>4, <3>4, <4>1
      <4>2. CASE p \in 1..k
        <5>1. PICK i \in 1..m : h[i] = p
          BY <2>1, <3>8, <4>2 DEF Selects, m, q
        <5>2. i \in 1..(m + 1)
          BY <2>4
        <5> QED
          BY <3>4, <5>1, <5>2
      <4> QED
        BY <2>2, <4>1, <4>2
    <3>9. Selects(g, r, s, k + 1, keep)
      BY <3>1, <3>5, <3>6, <3>7, <3>8 DEF Selects
    <3> QED
      BY <2>2, <3>1, <3>9
  <2> QED
    BY <2>5, <2>6
<1> HIDE DEF T
<1>5. \A k \in 0..n : k \in T
  BY <1>2, <1>3, <1>4, RangeInduction
<1>6. n \in T
  BY <1>2, <1>5
<1> QED
  BY <1>1, <1>6 DEF T

\* Of nothing, nothing is kept.
LEMMA FilterEmpty ==
  ASSUME NEW keep
  PROVE  Filter(<<>>, keep) = <<>>
<1> DEFINE s == <<>>
<1>1. s \in Seq({}) /\ Len(s) = 0
  OBVIOUS
<1> HIDE DEF s
<1>2. PICK f : Filters(f, s, keep) /\ Filter(s, keep) = f[Len(s)]
  BY <1>1, FilterSteps
<1>3. f[0] = <<>>
  BY <1>2 DEF Filters
<1> QED
  BY <1>1, <1>2, <1>3 DEF s

\* One more element at the end is kept or not; what is kept of the others
\* stays.
LEMMA FilterAppend ==
  ASSUME NEW S, NEW s \in Seq(S), NEW x \in S, NEW keep
  PROVE  Filter(Append(s, x), keep) =
           IF x \in keep THEN Append(Filter(s, keep), x) ELSE Filter(s, keep)
<1> DEFINE n == Len(s)
           t == Append(s, x)
           X == Seq(S \cap keep)
<1>1. /\ n \in Nat /\ t \in Seq(S) /\ Len(t) = n + 1
      /\ t[n + 1] = x /\ \A i \in 1..n : t[i] = s[i]
  OBVIOUS
<1>2. PICK f \in [0..n -> X] : Filters(f, s, keep) /\ Filter(s, keep) = f[n]
  BY FilterSteps
<1> HIDE DEF t
<1>3. PICK g \in [0..Len(t) -> X] : Filters(g, t, keep) /\ Filter(t, keep) = g[Len(t)]
  BY <1>1, FilterSteps
<1>4. /\ f[0] = <<>>
      /\ \A i \in 1..n : f[i] = IF s[i] \in keep THEN Append(f[i - 1], s[i]) ELSE f[i - 1]
  BY <1>2 DEF Filters
<1>5. /\ g[0] = <<>>
      /\ \A i \in 1..(n + 1) : g[i] = IF t[i] \in keep THEN Append(g[i - 1], t[i]) ELSE g[i - 1]
  BY <1>1, <1>3 DEF Filters
<1> HIDE DEF n, X
<1> DEFINE T == {i \in 0..n : g[i] = f[i]}
<1>6. 0 \in T
  BY <1>1, <1>4, <1>5
<1>7. ASSUME NEW i \in 0..(n - 1), i \in T PROVE i + 1 \in T
  <2>1. i + 1 \in 1..n /\ i + 1 \in 1..(n + 1) /\ (i + 1) - 1 = i /\ i + 1 \in 0..n
    BY <1>1
  <2>2. g[i] = f[i] /\ t[i + 1] = s[i + 1]
    BY <1>1, <1>7, <2>1
  <2>3. f[i + 1] = IF s[i + 1] \in keep THEN Append(f[i], s[i + 1]) ELSE f[i]
    BY <1>4, <2>1
  <2>4. g[i + 1] = IF t[i + 1] \in keep THEN Append(g[i], t[i + 1]) ELSE g[i]
    BY <1>5, <2>1
  <2> QED
    BY <2>1, <2>2, <2>3, <2>4
<1> HIDE DEF T
<1>8. \A i \in 0..n : i \in T
  BY <1>1, <1>6, <1>7, RangeInduction
<1>9. g[n] = f[n]
  BY <1>1, <1>8 DEF T
<1>10. n + 1 \in 1..(n + 1) /\ (n + 1) - 1 = n
  BY <1>1
<1>11. g[n + 1] = IF x \in keep THEN Append(g[n], x) ELSE g[n]
  BY <1>1, <1>5, <1>10
<1> QED
  BY <1>1, <1>2, <1>3, <1>9, <1>11 DEF t

\* The two cases: a new last element that is kept, and one that is not.
LEMMA FilterKeeps ==
  ASSUME NEW S, NEW s \in Seq(S), NEW x \in S, NEW keep, x \in keep
  PROVE  Filter(Append(s, x), keep) = Append(Filter(s, keep), x)
<1>1. Filter(Append(s, x), keep) = IF x \in keep THEN Append(Filter(s, keep), x) ELSE Filter(s, keep)
  BY FilterAppend, SMT
<1> QED
  BY <1>1, Zenon

\* And nothing is dropped but what is not in the set.
LEMMA FilterDrops ==
  ASSUME NEW S, NEW s \in Seq(S), NEW x \in S, NEW keep, x \notin keep
  PROVE  Filter(Append(s, x), keep) = Filter(s, keep)
<1>1. Filter(Append(s, x), keep) = IF x \in keep THEN Append(Filter(s, keep), x) ELSE Filter(s, keep)
  BY FilterAppend, SMT
<1> QED
  BY <1>1, Zenon

\* Taking the first element off takes off the first that is kept, or nothing.
LEMMA FilterTail ==
  ASSUME NEW S, NEW s \in Seq(S), s # <<>>, NEW keep
  PROVE  /\ Head(s) \in keep => /\ Filter(s, keep) # <<>>
                                /\ Head(Filter(s, keep)) = Head(s)
                                /\ Filter(Tail(s), keep) = Tail(Filter(s, keep))
         /\ Head(s) \notin keep => Filter(Tail(s), keep) = Filter(s, keep)
<1> DEFINE n == Len(s) - 1
           t == Tail(s)
           X == Seq(S \cap keep)
           first == IF Head(s) \in keep THEN <<Head(s)>> ELSE <<>>
<1>1. /\ n \in Nat /\ t \in Seq(S) /\ Len(t) = n /\ Len(s) = n + 1 /\ Head(s) = s[1] /\ Head(s) \in S
      /\ \A i \in 1..n : t[i] = s[i + 1]
  OBVIOUS
<1>2. PICK f \in [0..Len(s) -> X] : Filters(f, s, keep) /\ Filter(s, keep) = f[Len(s)]
  BY FilterSteps
<1> HIDE DEF t
<1>3. PICK g \in [0..Len(t) -> X] : Filters(g, t, keep) /\ Filter(t, keep) = g[Len(t)]
  BY <1>1, FilterSteps
<1>4. /\ f[0] = <<>>
      /\ \A i \in 1..(n + 1) : f[i] = IF s[i] \in keep THEN Append(f[i - 1], s[i]) ELSE f[i - 1]
  BY <1>1, <1>2 DEF Filters
<1>5. /\ g[0] = <<>>
      /\ \A i \in 1..n : g[i] = IF t[i] \in keep THEN Append(g[i - 1], t[i]) ELSE g[i - 1]
  BY <1>1, <1>3 DEF Filters
<1> HIDE DEF n
<1>6. first \in X /\ \A i \in 0..n : g[i] \in X
  <2>1. first \in X
    <3>1. CASE Head(s) \in keep
      <4>1. Head(s) \in S \cap keep
        BY <1>1, <3>1
      <4>2. <<Head(s)>> \in Seq(S \cap keep)
        BY <4>1
      <4> QED
        BY <3>1, <4>2
    <3>2. CASE Head(s) \notin keep
      BY <3>2
    <3> QED
      BY <3>1, <3>2
  <2>2. \A i \in 0..n : g[i] \in X
    BY <1>1, <1>3
  <2> QED
    BY <2>1, <2>2
<1>7. ASSUME NEW q \in X, NEW y \in S \cap keep
      PROVE  first \o Append(q, y) = Append(first \o q, y)
  <2> HIDE DEF first
  <2>1. first \o Append(q, y) \in Seq(S) /\ Append(first \o q, y) \in Seq(S)
    BY <1>6
  <2>2. Len(first \o Append(q, y)) = Len(first) + Len(q) + 1
        /\ Len(Append(first \o q, y)) = Len(first) + Len(q) + 1
    BY <1>6
  <2>3. \A j \in 1..(Len(first) + Len(q) + 1) :
          (first \o Append(q, y))[j] = Append(first \o q, y)[j]
    <3>1. Len(first) \in Nat /\ Len(q) \in Nat /\ Len(first \o q) = Len(first) + Len(q)
          /\ Len(Append(q, y)) = Len(q) + 1
      BY <1>6
    <3>2. ASSUME NEW j \in 1..Len(first)
          PROVE  (first \o Append(q, y))[j] = Append(first \o q, y)[j]
      BY <1>6, <3>1
    <3>3. ASSUME NEW j \in 1..Len(q)
          PROVE  (first \o Append(q, y))[Len(first) + j] = Append(first \o q, y)[Len(first) + j]
      BY <1>6, <3>1
    <3>4. (first \o Append(q, y))[Len(first) + Len(q) + 1] = y
          /\ Append(first \o q, y)[Len(first) + Len(q) + 1] = y
      BY <1>6, <3>1
    <3>5. ASSUME NEW j \in 1..(Len(first) + Len(q) + 1)
          PROVE  (first \o Append(q, y))[j] = Append(first \o q, y)[j]
      <4>1. CASE j <= Len(first)
        BY <3>1, <3>2, <4>1
      <4>2. CASE j > Len(first) /\ j <= Len(first) + Len(q)
        <5>1. j - Len(first) \in 1..Len(q) /\ Len(first) + (j - Len(first)) = j
          BY <3>1, <4>2
        <5> QED
          BY <3>3, <5>1
      <4>3. CASE j = Len(first) + Len(q) + 1
        BY <3>4, <4>3
      <4> QED
        BY <3>1, <4>1, <4>2, <4>3
    <3> QED
      BY <3>5
  <2> QED
    BY <2>1, <2>2, <2>3
<1>8. first \o <<>> = first
  BY <1>6
<1>9. f[1] = first
  <2>1. 1 \in 1..(n + 1) /\ 1 - 1 = 0
    BY <1>1
  <2>2. f[1] = IF s[1] \in keep THEN Append(<<>>, s[1]) ELSE <<>>
    BY <1>4, <2>1
  <2>3. Append(<<>>, s[1]) = <<s[1]>>
    OBVIOUS
  <2> QED
    BY <1>1, <2>2, <2>3
<1> HIDE DEF X, first
<1> DEFINE T == {i \in 0..n : f[i + 1] = first \o g[i]}
<1>10. 0 \in T
  <2>1. 0 \in 0..n /\ 0 + 1 = 1
    BY <1>1
  <2> QED
    BY <1>5, <1>8, <1>9, <2>1
<1>11. ASSUME NEW i \in 0..(n - 1), i \in T PROVE i + 1 \in T
  <2>1. /\ i + 1 \in 1..n /\ (i + 1) - 1 = i /\ i + 1 \in 0..n /\ i \in 0..n
        /\ (i + 1) + 1 \in 1..(n + 1) /\ ((i + 1) + 1) - 1 = i + 1
    BY <1>1
  <2>2. f[i + 1] = first \o g[i] /\ t[i + 1] = s[(i + 1) + 1]
    BY <1>1, <1>11, <2>1
  <2>3. g[i + 1] = IF t[i + 1] \in keep THEN Append(g[i], t[i + 1]) ELSE g[i]
    BY <1>5, <2>1
  <2>4. f[(i + 1) + 1] = IF t[i + 1] \in keep THEN Append(f[i + 1], t[i + 1]) ELSE f[i + 1]
    BY <1>4, <2>1, <2>2
  <2>5. t[i + 1] \in S
    BY <1>1, <2>1
  <2>6. f[(i + 1) + 1] = first \o g[i + 1]
    BY <1>6, <1>7, <2>1, <2>2, <2>3, <2>4, <2>5
  <2> QED
    BY <2>1, <2>6
<1> HIDE DEF T
<1>12. \A i \in 0..n : i \in T
  BY <1>1, <1>10, <1>11, RangeInduction
<1>13. f[n + 1] = first \o g[n] /\ n \in 0..n
  BY <1>1, <1>12 DEF T
<1>14. Filter(s, keep) = first \o Filter(t, keep) /\ Filter(t, keep) \in X
  BY <1>1, <1>2, <1>3, <1>6, <1>13
<1>15. CASE Head(s) \in keep
  <2>1. Filter(s, keep) = <<Head(s)>> \o Filter(t, keep) /\ Filter(t, keep) \in Seq(S)
    BY <1>14, <1>15 DEF first, X
  <2>2. ASSUME NEW q \in Seq(S)
        PROVE  <<Head(s)>> \o q # <<>> /\ Head(<<Head(s)>> \o q) = Head(s) /\ Tail(<<Head(s)>> \o q) = q
    BY <1>1
  <2> QED
    BY <1>15, <2>1, <2>2 DEF t
<1>16. CASE Head(s) \notin keep
  <2>1. Filter(s, keep) = <<>> \o Filter(t, keep) /\ Filter(t, keep) \in Seq(S)
    BY <1>14, <1>16 DEF first, X
  <2> QED
    BY <1>16, <2>1 DEF t
<1> QED
  BY <1>15, <1>16
=============================================================================
