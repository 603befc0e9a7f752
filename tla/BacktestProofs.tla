--------------------------- MODULE BacktestProofs ----------------------------
(***************************************************************************)
(* Proofs about ObservationPipeline and Backtest, for any programmes, any  *)
(* quotes and any model.                                                   *)
(*                                                                         *)
(* The code builds its lists by filtering, sorting and joining others.     *)
(* Each of the three takes every element from a place of its own, and that *)
(* place depends on what is compared only: two lists that agree on it are  *)
(* rearranged in the same way.                                             *)
(***************************************************************************)
EXTENDS Backtest, FiniteSetTheorems, WellFoundedInduction, TLAPS

-----------------------------------------------------------------------------
(* Joined lists.                                                           *)

LEMMA LeastNumber ==
  ASSUME NEW T \in SUBSET Nat, T # {}
  PROVE  \E n \in T : \A m \in T : n <= m
<1> DEFINE less == OpToRel(<, Nat)
<1>1. \A n, m \in Nat : <<m, n>> \notin less => n <= m
  BY DEF OpToRel
<1>2. IsWellFoundedOn(less, Nat)
  BY NatLessThanWellFounded
<1> HIDE DEF less
<1>3. \E n \in T : \A m \in T : <<m, n>> \notin less
  BY <1>2, WFMin
<1>4. QED
  BY <1>1, <1>3

LEMMA ListFacts ==
  ASSUME NEW n \in Nat, NEW S, NEW list \in [1..n -> S]
  PROVE  list \in Seq(S) /\ Len(list) = n /\ DOMAIN list = 1..n
  OBVIOUS

IsJoin(join, f, n) ==
  join = [i \in 1..n |-> IF i = 1 THEN f[i] ELSE join[i - 1] \o f[i]]

LEMMA JoinExists ==
  ASSUME NEW n \in Nat, NEW f
  PROVE  \E join : IsJoin(join, f, n)
<1> DEFINE Bad == {k \in 0..n : ~\E join : IsJoin(join, f, k)}
<1>1. Bad \subseteq Nat /\ (Bad = {} => \E join : IsJoin(join, f, n))
  <2>1. n \in 0..n
    OBVIOUS
  <2>2. Bad \subseteq Nat
    BY SMT
  <2>3. QED
    BY <2>1, <2>2, Zenon
<1> HIDE DEF Bad
<1> SUFFICES ASSUME Bad # {} PROVE FALSE
  BY <1>1
<1>2. PICK k \in Bad : \A m \in Bad : k <= m
  BY <1>1, LeastNumber
<1> USE DEF Bad
<1>3. k # 0
  <2>1. IsJoin([i \in 1..0 |-> 0], f, 0)
    BY DEF IsJoin
  <2>2. QED
    BY <2>1, <1>2
<1>4. k - 1 \in 0..n /\ k - 1 \notin Bad /\ k \in 1..n
  BY <1>2, <1>3
<1>5. PICK s : IsJoin(s, f, k - 1)
  BY <1>4
<1> DEFINE t == [i \in 1..k |-> IF i = k THEN IF k = 1 THEN f[k] ELSE s[k - 1] \o f[k]
                                         ELSE s[i]]
<1>6. t = [i \in 1..k |-> IF i = 1 THEN f[i] ELSE t[i - 1] \o f[i]]
  <2>1. ASSUME NEW i \in 1..k PROVE t[i] = IF i = 1 THEN f[i] ELSE t[i - 1] \o f[i]
    <3>1. CASE i = k
      <4>1. t[i] = IF k = 1 THEN f[k] ELSE s[k - 1] \o f[k]
        BY <3>1
      <4>2. k # 1 => t[k - 1] = s[k - 1]
        BY <1>4
      <4> QED
        BY <3>1, <4>1, <4>2
    <3>2. CASE i # k
      <4>1. i \in 1..(k - 1) /\ t[i] = s[i]
        BY <1>4, <3>2
      <4>2. s[i] = IF i = 1 THEN f[i] ELSE s[i - 1] \o f[i]
        BY <1>5, <4>1 DEF IsJoin
      <4>3. i # 1 => t[i - 1] = s[i - 1]
        BY <1>4, <4>1
      <4> QED
        BY <4>1, <4>2, <4>3
    <3> QED
      BY <3>1, <3>2
  <2> QED
    BY <2>1
<1>7. IsJoin(t, f, k)
  BY <1>6 DEF IsJoin
<1>8. QED
  BY <1>2, <1>7

LEMMA JoinDef ==
  ASSUME NEW n \in Nat \ {0}, NEW f, Len(f) = n
  PROVE  \E join : IsJoin(join, f, n) /\ FlattenSeq(f) = join[n]
<1>1. IsJoin(CHOOSE join : IsJoin(join, f, n), f, n)
  BY JoinExists
<1>2. FlattenSeq(f) = (CHOOSE join : IsJoin(join, f, n))[n]
  BY DEF FlattenSeq, IsJoin
<1>3. QED
  BY <1>1, <1>2

\* Element k of the joined list is element at[k] of list from[k]: each element
\* of each of the first n lists is taken once, list after list.
Origin(from, at, m, f, n) ==
  /\ m \in Nat /\ from \in [1..m -> 1..n] /\ at \in [1..m -> Nat]
  /\ \A k \in 1..m : at[k] \in 1..Len(f[from[k]])
  /\ \A i \in 1..n : \A j \in 1..Len(f[i]) : \E k \in 1..m : from[k] = i /\ at[k] = j
  /\ \A k, l \in 1..m : from[k] = from[l] /\ at[k] = at[l] => k = l
  /\ \A k, l \in 1..m : k < l => from[k] <= from[l]

Joined(list, S, from, at, m, f) ==
  list \in [1..m -> S] /\ \A k \in 1..m : list[k] = f[from[k]][at[k]]

LEMMA OriginStep ==
  ASSUME NEW n \in Nat, NEW f, NEW i \in 2..n, NEW l \in Nat, Len(f[i]) = l,
         NEW from, NEW at, NEW m, Origin(from, at, m, f, i - 1),
         NEW from2, from2 = [k \in 1..(m + l) |-> IF k <= m THEN from[k] ELSE i],
         NEW at2, at2 = [k \in 1..(m + l) |-> IF k <= m THEN at[k] ELSE k - m]
  PROVE  Origin(from2, at2, m + l, f, i)
<1>1. m \in Nat /\ m + l \in Nat /\ i - 1 \in Nat /\ i \in Nat
  BY DEF Origin
<1>2. from2 \in [1..(m + l) -> 1..i] /\ at2 \in [1..(m + l) -> Nat]
  <2>1. ASSUME NEW k \in 1..(m + l) PROVE from2[k] \in 1..i /\ at2[k] \in Nat
    <3>1. CASE k <= m
      <4>1. k \in 1..m /\ from[k] \in 1..(i - 1) /\ at[k] \in Nat
        BY <1>1, <3>1 DEF Origin
      <4> QED
        BY <1>1, <3>1, <4>1
    <3>2. CASE ~(k <= m)
      BY <1>1, <3>2
    <3> QED
      BY <3>1, <3>2
  <2> QED
    BY <2>1
<1>3. ASSUME NEW k \in 1..(m + l) PROVE at2[k] \in 1..Len(f[from2[k]])
  <2>1. CASE k <= m
    <3>1. k \in 1..m /\ at[k] \in 1..Len(f[from[k]])
      BY <1>1, <2>1 DEF Origin
    <3> QED
      BY <2>1, <3>1
  <2>2. CASE ~(k <= m)
    BY <1>1, <2>2
  <2> QED
    BY <2>1, <2>2
<1>4. ASSUME NEW h \in 1..i, NEW j \in 1..Len(f[h])
      PROVE  \E k \in 1..(m + l) : from2[k] = h /\ at2[k] = j
  <2>1. CASE h = i
    <3>1. j \in 1..l /\ m + j \in 1..(m + l) /\ ~(m + j <= m) /\ (m + j) - m = j
      BY <1>1, <2>1
    <3> QED
      BY <2>1, <3>1
  <2>2. CASE h # i
    <3>1. h \in 1..(i - 1)
      BY <1>1, <2>2
    <3>2. PICK k \in 1..m : from[k] = h /\ at[k] = j
      BY <3>1 DEF Origin
    <3>3. k \in 1..(m + l) /\ k <= m
      BY <1>1
    <3> QED
      BY <3>2, <3>3
  <2> QED
    BY <2>1, <2>2
<1>5. ASSUME NEW k \in 1..(m + l), NEW h \in 1..(m + l), from2[k] = from2[h], at2[k] = at2[h]
      PROVE  k = h
  <2>1. \A x \in 1..(m + l) : x <= m => x \in 1..m /\ from[x] \in 1..(i - 1)
    BY <1>1 DEF Origin
  <2>2. \A x \in 1..(m + l) : x <= m => from2[x] # i
    BY <1>1, <2>1
  <2>3. \A x \in 1..(m + l) : ~(x <= m) => from2[x] = i /\ at2[x] = x - m
    OBVIOUS
  <2>4. k <= m <=> h <= m
    BY <1>5, <2>2, <2>3
  <2>5. CASE k <= m
    <3>1. k \in 1..m /\ h \in 1..m /\ from[k] = from[h] /\ at[k] = at[h]
      BY <1>5, <2>1, <2>4, <2>5
    <3> QED
      BY <3>1 DEF Origin
  <2>6. CASE ~(k <= m)
    <3>1. k - m = h - m
      BY <1>5, <2>3, <2>4, <2>6
    <3> QED
      BY <1>1, <3>1
  <2> QED
    BY <2>5, <2>6
<1>6. \A k \in 1..(m + l) : at2[k] \in 1..Len(f[from2[k]])
  BY <1>3
<1>7. \A h \in 1..i : \A j \in 1..Len(f[h]) : \E k \in 1..(m + l) : from2[k] = h /\ at2[k] = j
  BY <1>4
<1>8. \A k, h \in 1..(m + l) : from2[k] = from2[h] /\ at2[k] = at2[h] => k = h
  BY <1>5
<1>9. ASSUME NEW k \in 1..(m + l), NEW h \in 1..(m + l), k < h PROVE from2[k] <= from2[h]
  <2>1. CASE h <= m
    <3>1. k \in 1..m /\ h \in 1..m /\ from[k] <= from[h] /\ k <= m
      BY <1>1, <1>9, <2>1 DEF Origin
    <3> QED
      BY <2>1, <3>1
  <2>2. CASE ~(h <= m)
    <3>1. from2[h] = i /\ from2[k] \in 1..i
      BY <1>2, <2>2
    <3> QED
      BY <1>1, <3>1
  <2> QED
    BY <2>1, <2>2
<1>10. \A k, h \in 1..(m + l) : k < h => from2[k] <= from2[h]
  BY <1>9
<1> HIDE DEF Origin
<1> QED
  BY <1>1, <1>2, <1>6, <1>7, <1>8, <1>10, Zenon DEF Origin

LEMMA JoinedStep ==
  ASSUME NEW S, NEW n \in Nat, NEW f \in [1..n -> Seq(S)], NEW i \in 2..n,
         NEW l \in Nat, Len(f[i]) = l,
         NEW from, NEW at, NEW m \in Nat,
         NEW list, Joined(list, S, from, at, m, f),
         NEW from2, from2 = [k \in 1..(m + l) |-> IF k <= m THEN from[k] ELSE i],
         NEW at2, at2 = [k \in 1..(m + l) |-> IF k <= m THEN at[k] ELSE k - m]
  PROVE  Joined(list \o f[i], S, from2, at2, m + l, f)
<1>1. list \in Seq(S) /\ Len(list) = m /\ f[i] \in Seq(S)
  BY ListFacts DEF Joined
<1>2. PICK s : s = list \o f[i]
  OBVIOUS
<1>3. s \in Seq(S) /\ Len(s) = m + l
  BY <1>1, <1>2
<1>4. \A k \in 1..(m + l) : s[k] = IF k <= m THEN list[k] ELSE f[i][k - m]
  BY <1>1, <1>2
<1>5. s \in [1..(m + l) -> S]
  BY <1>3
<1>6. ASSUME NEW k \in 1..(m + l) PROVE s[k] = f[from2[k]][at2[k]]
  <2>1. CASE k <= m
    <3>1. k \in 1..m /\ list[k] = f[from[k]][at[k]]
      BY <2>1 DEF Joined
    <3> QED
      BY <1>4, <2>1, <3>1
  <2>2. CASE ~(k <= m)
    BY <1>4, <2>2
  <2> QED
    BY <2>1, <2>2
<1> QED
  BY <1>2, <1>5, <1>6 DEF Joined

LEMMA OriginOfOne ==
  ASSUME NEW f, NEW l \in Nat, Len(f[1]) = l,
         NEW from, from = [k \in 1..l |-> 1], NEW at, at = [k \in 1..l |-> k]
  PROVE  Origin(from, at, l, f, 1)
<1>1. from \in [1..l -> 1..1] /\ at \in [1..l -> Nat]
  OBVIOUS
<1>2. \A k \in 1..l : at[k] \in 1..Len(f[from[k]])
  OBVIOUS
<1>3. \A i \in 1..1 : \A j \in 1..Len(f[i]) : \E k \in 1..l : from[k] = i /\ at[k] = j
  <2> SUFFICES ASSUME NEW i \in 1..1, NEW j \in 1..Len(f[i])
               PROVE  \E k \in 1..l : from[k] = i /\ at[k] = j
    OBVIOUS
  <2>1. i = 1 /\ j \in 1..l
    OBVIOUS
  <2> QED
    BY <2>1
<1>4. /\ \A k, h \in 1..l : from[k] = from[h] /\ at[k] = at[h] => k = h
      /\ \A k, h \in 1..l : k < h => from[k] <= from[h]
  OBVIOUS
<1> QED
  BY <1>1, <1>2, <1>3, <1>4, Zenon DEF Origin

\* Two lists of lists of the same lengths are joined in the same way.
LEMMA CommonOrigin ==
  ASSUME NEW n \in Nat \ {0}, NEW S, NEW T,
         NEW f \in [1..n -> Seq(S)], NEW g \in [1..n -> Seq(T)],
         \A i \in 1..n : Len(f[i]) = Len(g[i])
  PROVE  \E m, from, at : /\ Origin(from, at, m, f, n)
                          /\ Joined(FlattenSeq(f), S, from, at, m, f)
                          /\ Joined(FlattenSeq(g), T, from, at, m, g)
<1>1. Len(f) = n /\ Len(g) = n
  BY ListFacts
<1>2. PICK s : IsJoin(s, f, n) /\ FlattenSeq(f) = s[n]
  BY <1>1, JoinDef
<1>3. PICK t : IsJoin(t, g, n) /\ FlattenSeq(g) = t[n]
  BY <1>1, JoinDef
<1>s. \A k \in 1..n : k # 1 => s[k] = s[k - 1] \o f[k]
  BY <1>2 DEF IsJoin
<1>t. \A k \in 1..n : k # 1 => t[k] = t[k - 1] \o g[k]
  BY <1>3 DEF IsJoin
<1> DEFINE Right(i) == \E m, from, at : /\ Origin(from, at, m, f, i)
                                        /\ Joined(s[i], S, from, at, m, f)
                                        /\ Joined(t[i], T, from, at, m, g)
           Bad == {i \in 1..n : ~Right(i)}
<1>4. Bad \subseteq Nat /\ (Bad = {} => Right(n))
  <2>1. n \in 1..n /\ 1..n \subseteq Nat
    OBVIOUS
  <2>2. Bad \subseteq 1..n
    BY Zenon
  <2> HIDE DEF Right
  <2> QED
    BY <2>1, <2>2, Zenon
<1>5. Right(n) => \E m, from, at : /\ Origin(from, at, m, f, n)
                                   /\ Joined(FlattenSeq(f), S, from, at, m, f)
                                   /\ Joined(FlattenSeq(g), T, from, at, m, g)
  BY <1>2, <1>3, Zenon
<1> SUFFICES ASSUME Bad # {} PROVE FALSE
  BY <1>4, <1>5
<1> HIDE DEF Bad
<1>6. PICK i \in Bad : \A m \in Bad : i <= m
  BY <1>4, LeastNumber
<1> HIDE DEF Right
<1>7. i \in 1..n /\ ~Right(i) /\ \A h \in 1..n : h < i => Right(h)
  <2>1. i \in 1..n /\ ~Right(i)
    BY <1>6 DEF Bad
  <2>2. ASSUME NEW h \in 1..n, h < i PROVE Right(h)
    <3>1. h \notin Bad
      BY <1>6, <2>1, <2>2
    <3> QED
      BY <3>1 DEF Bad
  <2> QED
    BY <2>1, <2>2
<1>8. PICK l \in Nat : Len(f[i]) = l /\ Len(g[i]) = l
  <2>1. f[i] \in Seq(S) /\ Len(f[i]) = Len(g[i])
    BY <1>7
  <2> QED
    BY <2>1
<1>9. CASE i = 1
  <2>1. s[1] = f[1] /\ t[1] = g[1]
    BY <1>2, <1>3 DEF IsJoin
  <2>2. PICK from, at : from = [k \in 1..l |-> 1] /\ at = [k \in 1..l |-> k]
    OBVIOUS
  <2>3. Origin(from, at, l, f, 1)
    BY <1>8, <1>9, <2>2, OriginOfOne
  <2>4. f[1] \in Seq(S) /\ g[1] \in Seq(T) /\ Len(f[1]) = l /\ Len(g[1]) = l
    BY <1>7, <1>8, <1>9
  <2>5. Joined(f[1], S, from, at, l, f) /\ Joined(g[1], T, from, at, l, g)
    BY <2>2, <2>4 DEF Joined
  <2> QED
    BY <1>7, <1>9, <2>1, <2>3, <2>5 DEF Right
<1>10. CASE i # 1
  <2>1. i \in 2..n /\ i - 1 \in 1..n /\ i - 1 < i
    BY <1>7, <1>10
  <2>2. PICK m, from, at : /\ Origin(from, at, m, f, i - 1)
                           /\ Joined(s[i - 1], S, from, at, m, f)
                           /\ Joined(t[i - 1], T, from, at, m, g)
    BY <1>7, <2>1 DEF Right
  <2>3. s[i] = s[i - 1] \o f[i] /\ t[i] = t[i - 1] \o g[i]
    BY <1>s, <1>t, <1>7, <1>10
  <2>4. PICK from2, at2 : /\ from2 = [k \in 1..(m + l) |-> IF k <= m THEN from[k] ELSE i]
                          /\ at2 = [k \in 1..(m + l) |-> IF k <= m THEN at[k] ELSE k - m]
    OBVIOUS
  <2>5. m \in Nat /\ n \in Nat
    BY <2>2 DEF Origin
  <2>6. Origin(from2, at2, m + l, f, i)
    BY <1>8, <2>1, <2>2, <2>4, <2>5, OriginStep
  <2>7. Joined(s[i - 1] \o f[i], S, from2, at2, m + l, f)
    BY <1>8, <2>1, <2>2, <2>4, <2>5, JoinedStep
  <2>8. Joined(t[i - 1] \o g[i], T, from2, at2, m + l, g)
    BY <1>8, <2>1, <2>2, <2>4, <2>5, JoinedStep
  <2> QED
    BY <1>7, <2>3, <2>6, <2>7, <2>8 DEF Right
<1>11. QED
  BY <1>9, <1>10

LEMMA NothingToJoin == ASSUME NEW f, NEW S, f \in [1..0 -> S] PROVE FlattenSeq(f) = <<>>
<1>1. Len(f) = 0 /\ f = <<>>
  BY ListFacts
<1> QED
  BY <1>1 DEF FlattenSeq

-----------------------------------------------------------------------------
(* Filtered and sorted lists.                                              *)

\* Every position in I of a list of n, once.
Positions(pos, m, n, I) ==
  /\ m \in Nat /\ pos \in [1..m -> 1..n]
  /\ \A k \in 1..m : pos[k] \in I
  /\ \A i \in 1..n : i \in I => \E k \in 1..m : pos[k] = i
  /\ \A k, l \in 1..m : pos[k] = pos[l] => k = l

Ascending(pos, m) == \A k, l \in 1..m : k < l => pos[k] < pos[l]

\* The elements of list at the positions pos.
Taken(part, pos, m, list) ==
  part = [k \in 1..m |-> list[pos[k]]]

LEMMA SublistPositions ==
  ASSUME NEW n \in Nat, NEW S, NEW a \in [1..n -> S], NEW T, NEW b \in [1..n -> T], NEW I
  PROVE  \E m, pos : /\ Positions(pos, m, n, I) /\ Ascending(pos, m)
                     /\ Taken(Sublist(a, I), pos, m, a)
                     /\ Taken(Sublist(b, I), pos, m, b)
<1> DEFINE Parts(x) == [i \in 1..n |-> IF i \in I THEN <<x[i]>> ELSE <<>>]
<1>1. PICK f : f = Parts(a)
  OBVIOUS
<1>2. PICK g : g = Parts(b)
  OBVIOUS
<1>3. Sublist(a, I) = FlattenSeq(f) /\ Sublist(b, I) = FlattenSeq(g)
  BY <1>1, <1>2 DEF Sublist
<1>4. CASE n = 0
  <2>1. Sublist(a, I) = <<>> /\ Sublist(b, I) = <<>>
    <3>1. f \in [1..0 -> S] /\ g \in [1..0 -> S]
      BY <1>1, <1>2, <1>4
    <3> QED
      BY <1>3, <3>1, NothingToJoin
  <2>2. Positions(<<>>, 0, n, I) /\ Ascending(<<>>, 0)
    BY <1>4 DEF Positions, Ascending
  <2>3. Taken(<<>>, <<>>, 0, a) /\ Taken(<<>>, <<>>, 0, b)
    BY DEF Taken
  <2> QED
    BY <2>1, <2>2, <2>3
<1>5. CASE n # 0
  <2>1. f \in [1..n -> Seq(S)] /\ g \in [1..n -> Seq(T)]
    <3>1. \A i \in 1..n : f[i] \in Seq(S) /\ g[i] \in Seq(T)
      BY <1>1, <1>2
    <3> QED
      BY <1>1, <1>2, <3>1
  <2>2. \A i \in 1..n : Len(f[i]) = Len(g[i]) /\ Len(f[i]) = IF i \in I THEN 1 ELSE 0
    BY <1>1, <1>2
  <2>3. PICK m, from, at : /\ Origin(from, at, m, f, n)
                           /\ Joined(FlattenSeq(f), S, from, at, m, f)
                           /\ Joined(FlattenSeq(g), T, from, at, m, g)
    BY <1>5, <2>1, <2>2, CommonOrigin
  <2>4. /\ m \in Nat /\ from \in [1..m -> 1..n] /\ at \in [1..m -> Nat]
        /\ \A k \in 1..m : at[k] \in 1..Len(f[from[k]])
        /\ \A i \in 1..n : \A j \in 1..Len(f[i]) : \E k \in 1..m : from[k] = i /\ at[k] = j
        /\ \A k, l \in 1..m : from[k] = from[l] /\ at[k] = at[l] => k = l
        /\ \A k, l \in 1..m : k < l => from[k] <= from[l]
    BY <2>3 DEF Origin
  <2>5. \A k \in 1..m : from[k] \in 1..n /\ from[k] \in I /\ at[k] = 1
    <3> TAKE k \in 1..m
    <3>1. from[k] \in 1..n /\ at[k] \in 1..Len(f[from[k]])
      BY <2>4
    <3>2. Len(f[from[k]]) = IF from[k] \in I THEN 1 ELSE 0
      BY <2>2, <3>1
    <3> QED
      BY <3>1, <3>2
  <2>6. ASSUME NEW i \in 1..n, i \in I PROVE \E k \in 1..m : from[k] = i
    <3>1. 1 \in 1..Len(f[i])
      BY <2>2, <2>6
    <3> QED
      BY <2>4, <3>1
  <2>7. \A k, l \in 1..m : from[k] = from[l] => k = l
    BY <2>4, <2>5
  <2>8. Positions(from, m, n, I)
    BY <2>4, <2>5, <2>6, <2>7, Zenon DEF Positions
  <2>a. Ascending(from, m)
    <3>1. \A k \in 1..m : from[k] \in 1..n
      BY <2>5
    <3> QED
      BY <2>4, <2>7, <3>1 DEF Ascending
  <2>9. \A k \in 1..m : f[from[k]][at[k]] = a[from[k]] /\ g[from[k]][at[k]] = b[from[k]]
    BY <1>1, <1>2, <2>5
  <2>10. FlattenSeq(f) \in [1..m -> S] /\ FlattenSeq(g) \in [1..m -> T]
    BY <2>3 DEF Joined
  <2>11. Taken(FlattenSeq(f), from, m, a) /\ Taken(FlattenSeq(g), from, m, b)
    BY <2>3, <2>9, <2>10 DEF Joined, Taken
  <2> QED
    BY <1>3, <2>8, <2>a, <2>11
<1> QED
  BY <1>4, <1>5

\* What the sort goes by: the start, then the place in the list.
Sooner(list, i, j) ==
  list[i].start < list[j].start \/ (list[i].start = list[j].start /\ i < j)

PlaceOf(list, n, i) == Cardinality({j \in 1..n : Sooner(list, j, i)}) + 1

LEMMA PlacesDiffer ==
  ASSUME NEW n \in Nat, NEW list, \A i \in 1..n : list[i].start \in Int
  PROVE  /\ \A i \in 1..n : PlaceOf(list, n, i) \in 1..n
         /\ \A i, j \in 1..n : i # j => PlaceOf(list, n, i) # PlaceOf(list, n, j)
<1> DEFINE Before(i) == {j \in 1..n : Sooner(list, j, i)}
<1>1. IsFiniteSet(1..n) /\ Cardinality(1..n) = n
  <2>1. 1 \in Int /\ n \in Int
    OBVIOUS
  <2>2. IsFiniteSet(1..n) /\ Cardinality(1..n) = IF 1 > n THEN 0 ELSE n - 1 + 1
    BY <2>1, FS_Interval, Zenon
  <2> QED
    BY <2>2, SMTT(30)
<1>2. ASSUME NEW i \in 1..n
      PROVE  /\ IsFiniteSet(Before(i)) /\ Cardinality(Before(i)) \in Nat
             /\ Cardinality(Before(i)) < n
  <2>1. Before(i) \in SUBSET (1..n) /\ i \notin Before(i)
    BY DEF Sooner
  <2>2. IsFiniteSet(Before(i)) /\ Cardinality(Before(i)) <= n /\ Cardinality(Before(i)) # n
    BY <1>1, <2>1, FS_Subset
  <2>3. Cardinality(Before(i)) \in Nat
    BY <2>2, FS_CardinalityType
  <2> HIDE DEF Before
  <2> QED
    BY <2>2, <2>3
<1>3. ASSUME NEW i \in 1..n, NEW j \in 1..n, Sooner(list, i, j)
      PROVE  Cardinality(Before(i)) < Cardinality(Before(j))
  <2>1. Before(i) \subseteq Before(j)
    <3> SUFFICES ASSUME NEW k \in 1..n, Sooner(list, k, i) PROVE Sooner(list, k, j)
      OBVIOUS
    <3> QED
      BY <1>3 DEF Sooner
  <2>2. i \in Before(j) /\ i \notin Before(i)
    BY <1>3 DEF Sooner
  <2>3. Before(i) # Before(j)
    BY <2>2
  <2> HIDE DEF Before
  <2>4. /\ Cardinality(Before(i)) <= Cardinality(Before(j))
        /\ Cardinality(Before(i)) # Cardinality(Before(j))
    BY <1>2, <2>1, <2>3, FS_Subset
  <2> QED
    BY <1>2, <2>4
<1>4. \A i, j \in 1..n : i # j => Sooner(list, i, j) \/ Sooner(list, j, i)
  BY DEF Sooner
<1>5. \A i \in 1..n : PlaceOf(list, n, i) = Cardinality(Before(i)) + 1
  BY DEF PlaceOf
<1> HIDE DEF Before
<1> QED
  BY <1>2, <1>3, <1>4, <1>5

\* A sorted list has every element in one place.
LEMMA SortedPositions ==
  ASSUME NEW n \in Nat, NEW S, NEW a \in [1..n -> S], NEW T, NEW b \in [1..n -> T],
         \A i \in 1..n : a[i].start \in Int /\ b[i].start = a[i].start
  PROVE  \E pos : /\ Positions(pos, n, n, 1..n)
                  /\ Taken(ByStart(a), pos, n, a)
                  /\ Taken(ByStart(b), pos, n, b)
<1>1. PICK place : place = [i \in 1..n |-> PlaceOf(a, n, i)]
  OBVIOUS
<1>2. place \in Surjection(1..n, 1..n)
  <2>1. place \in Injection(1..n, 1..n)
    <3>1. place \in [1..n -> 1..n]
      BY <1>1, PlacesDiffer
    <3>2. \A i, j \in 1..n : place[i] = place[j] => i = j
      BY <1>1, PlacesDiffer
    <3> QED
      BY <3>1, <3>2 DEF Injection, IsInjective
  <2> QED
    BY <2>1, FS_Injection, FS_Interval
<1>3. PICK pos : pos = [k \in 1..n |-> CHOOSE i \in 1..n : PlaceOf(a, n, i) = k]
  OBVIOUS
<1>4. \A k \in 1..n : pos[k] \in 1..n /\ place[pos[k]] = k
  <2> TAKE k \in 1..n
  <2>1. \E i \in 1..n : PlaceOf(a, n, i) = k
    BY <1>1, <1>2 DEF Surjection
  <2>2. pos[k] = CHOOSE i \in 1..n : PlaceOf(a, n, i) = k
    BY <1>3
  <2>3. pos[k] \in 1..n /\ PlaceOf(a, n, pos[k]) = k
    BY <2>1, <2>2, Zenon
  <2> QED
    BY <1>1, <2>3
<1>5. \A i \in 1..n : place[i] \in 1..n /\ pos[place[i]] = i
  <2> TAKE i \in 1..n
  <2>1. place[i] \in 1..n
    BY <1>1, PlacesDiffer
  <2>2. pos[place[i]] \in 1..n /\ place[pos[place[i]]] = place[i]
    BY <1>4, <2>1
  <2> QED
    BY <1>1, <2>1, <2>2, PlacesDiffer
<1>6. Positions(pos, n, n, 1..n)
  <2>1. pos \in [1..n -> 1..n]
    BY <1>3, <1>4
  <2>2. \A k, l \in 1..n : pos[k] = pos[l] => k = l
    BY <1>4
  <2>3. \A i \in 1..n : \E k \in 1..n : pos[k] = i
    BY <1>5
  <2> QED
    BY <2>1, <2>2, <2>3 DEF Positions
<1>7. ByStart(a) = [k \in 1..n |-> a[CHOOSE i \in 1..n : PlaceOf(a, n, i) = k]]
  BY DEF ByStart, PlaceOf, Sooner
<1>8. \A i \in 1..n : PlaceOf(b, n, i) = PlaceOf(a, n, i)
  <2> TAKE i \in 1..n
  <2>1. {j \in 1..n : Sooner(b, j, i)} = {j \in 1..n : Sooner(a, j, i)}
    BY DEF Sooner
  <2> QED
    BY <2>1 DEF PlaceOf
<1>9. ByStart(b) = [k \in 1..n |-> b[CHOOSE i \in 1..n : PlaceOf(b, n, i) = k]]
  BY DEF ByStart, PlaceOf, Sooner
<1>10. \A k \in 1..n : (CHOOSE i \in 1..n : PlaceOf(b, n, i) = k)
                         = CHOOSE i \in 1..n : PlaceOf(a, n, i) = k
  BY <1>8
<1>11. ByStart(a) = [k \in 1..n |-> a[pos[k]]]
  BY <1>3, <1>7
<1>12. ByStart(b) = [k \in 1..n |-> b[pos[k]]]
  BY <1>3, <1>9, <1>10
<1> QED
  BY <1>6, <1>11, <1>12, Zenon DEF Taken

\* Positions of positions.
LEMMA PositionsCompose ==
  ASSUME NEW n \in Nat, NEW l \in Nat, NEW p, NEW I, Positions(p, l, n, I),
         NEW q, Positions(q, l, l, 1..l),
         NEW pos, pos = [k \in 1..l |-> p[q[k]]]
  PROVE  Positions(pos, l, n, I)
<1>1. /\ p \in [1..l -> 1..n] /\ q \in [1..l -> 1..l]
      /\ \A k \in 1..l : p[k] \in I
      /\ \A i \in 1..n : i \in I => \E k \in 1..l : p[k] = i
      /\ \A i \in 1..l : \E k \in 1..l : q[k] = i
      /\ \A k, j \in 1..l : p[k] = p[j] => k = j
      /\ \A k, j \in 1..l : q[k] = q[j] => k = j
  BY DEF Positions
<1>2. pos \in [1..l -> 1..n] /\ \A k \in 1..l : pos[k] \in I
  BY <1>1
<1>3. \A i \in 1..n : i \in I => \E k \in 1..l : pos[k] = i
  BY <1>1
<1>4. \A k, j \in 1..l : pos[k] = pos[j] => k = j
  <2> SUFFICES ASSUME NEW k \in 1..l, NEW j \in 1..l, pos[k] = pos[j] PROVE k = j
    OBVIOUS
  <2>1. q[k] \in 1..l /\ q[j] \in 1..l /\ p[q[k]] = p[q[j]]
    BY <1>1
  <2> QED
    BY <1>1, <2>1
<1> QED
  BY <1>2, <1>3, <1>4 DEF Positions

\* The first listing of each id of a list.
FirstListed(list, n) == {i \in 1..n : \A j \in 1..(i - 1) : list[j].id # list[i].id}

Cleaned(row) == [row EXCEPT !.home = Normal(@), !.away = Normal(@)]

CleanRow == [id: Events, sport: Sports, home: Labels, away: Labels, start: Nat,
             status: {"scheduled", "live", "finished", "cancelled"}, result: Result]

LEMMA CleanedFacts ==
  ASSUME NEW row \in EventRow
  PROVE  /\ Cleaned(row) \in CleanRow
         /\ Cleaned(row).id = row.id /\ Cleaned(row).sport = row.sport
         /\ Cleaned(row).start = row.start /\ Cleaned(row).status = row.status
  BY DEF Cleaned, EventRow, CleanRow, Raw, Normal

\* Two lists of the same events are cleaned in the same way.
CleanedAlike(a, b, pos, m, n) ==
  /\ Positions(pos, m, n, FirstListed(a, n))
  /\ CleanEvents(a) = [k \in 1..m |-> Cleaned(a[pos[k]])]
  /\ CleanEvents(b) = [k \in 1..m |-> Cleaned(b[pos[k]])]

LEMMA CleanPositions ==
  ASSUME NEW n \in Nat, NEW a \in [1..n -> EventRow], NEW b \in [1..n -> EventRow],
         \A i \in 1..n : b[i].id = a[i].id /\ b[i].start = a[i].start
  PROVE  \E m, pos : CleanedAlike(a, b, pos, m, n)
<1>1. PICK c : c = [i \in 1..n |-> Cleaned(a[i])]
  OBVIOUS
<1>2. PICK d : d = [i \in 1..n |-> Cleaned(b[i])]
  OBVIOUS
<1>3. CleanEvents(a) = ByStart(Deduped(c)) /\ CleanEvents(b) = ByStart(Deduped(d))
  BY <1>1, <1>2 DEF CleanEvents, Cleaned
<1>4. c \in [1..n -> CleanRow] /\ d \in [1..n -> CleanRow]
  BY <1>1, <1>2, CleanedFacts
<1>5. \A i \in 1..n : c[i].id = a[i].id /\ d[i].id = a[i].id /\ c[i].start = a[i].start
                        /\ d[i].start = a[i].start /\ a[i].start \in Nat
  BY <1>1, <1>2, CleanedFacts DEF EventRow
<1>6. FirstListed(c, n) = FirstListed(a, n) /\ FirstListed(d, n) = FirstListed(a, n)
  <2>1. \A i \in 1..n : \A j \in 1..(i - 1) : c[j].id = a[j].id /\ d[j].id = a[j].id
    BY <1>5
  <2> QED
    BY <1>5, <2>1 DEF FirstListed
<1>7. Deduped(c) = Sublist(c, FirstListed(a, n)) /\ Deduped(d) = Sublist(d, FirstListed(a, n))
  BY <1>4, <1>6 DEF Deduped, FirstListed
<1>8. PICK m, p : /\ Positions(p, m, n, FirstListed(a, n))
                  /\ Taken(Deduped(c), p, m, c)
                  /\ Taken(Deduped(d), p, m, d)
  <2>1. PICK I : I = FirstListed(a, n)
    OBVIOUS
  <2>2. \E m, p : Positions(p, m, n, I) /\ Taken(Sublist(c, I), p, m, c)
                                        /\ Taken(Sublist(d, I), p, m, d)
    BY <1>4, SublistPositions
  <2> QED
    BY <1>7, <2>1, <2>2
<1>9. m \in Nat /\ p \in [1..m -> 1..n]
  BY <1>8 DEF Positions
<1>10. /\ Deduped(c) \in [1..m -> CleanRow] /\ Deduped(d) \in [1..m -> CleanRow]
       /\ \A k \in 1..m : Deduped(c)[k] = c[p[k]] /\ Deduped(d)[k] = d[p[k]]
  BY <1>4, <1>8, <1>9 DEF Taken
<1>11. \A k \in 1..m : Deduped(c)[k].start \in Int /\ Deduped(d)[k].start = Deduped(c)[k].start
  BY <1>5, <1>9, <1>10
<1>12. PICK q : /\ Positions(q, m, m, 1..m)
                /\ Taken(ByStart(Deduped(c)), q, m, Deduped(c))
                /\ Taken(ByStart(Deduped(d)), q, m, Deduped(d))
  BY <1>9, <1>10, <1>11, SortedPositions
<1>13. PICK pos : pos = [k \in 1..m |-> p[q[k]]]
  OBVIOUS
<1>14. Positions(pos, m, n, FirstListed(a, n))
  BY <1>8, <1>9, <1>12, <1>13, PositionsCompose
<1>15. q \in [1..m -> 1..m]
  BY <1>12 DEF Positions
<1>16. \A k \in 1..m : /\ Deduped(c)[q[k]] = Cleaned(a[pos[k]])
                       /\ Deduped(d)[q[k]] = Cleaned(b[pos[k]])
  BY <1>1, <1>2, <1>9, <1>10, <1>13, <1>15
<1>17. /\ CleanEvents(a) = [k \in 1..m |-> Cleaned(a[pos[k]])]
       /\ CleanEvents(b) = [k \in 1..m |-> Cleaned(b[pos[k]])]
  BY <1>3, <1>12, <1>16 DEF Taken
<1> QED
  BY <1>14, <1>17 DEF CleanedAlike

-----------------------------------------------------------------------------
(* The providers.                                                          *)

\* What the providers hand out, at every moment.
ProvidersInv ==
  /\ listing \in Seq(EventRow)
  /\ odds \in Books
  /\ now \in 1..MaxTime

LEMMA ProvidersStep == ProvidersInv /\ [Next]_vars => ProvidersInv'
<1> SUFFICES ASSUME ProvidersInv, [Next]_vars PROVE ProvidersInv'
  OBVIOUS
<1>1. CASE UNCHANGED providers
  BY <1>1 DEF ProvidersInv, providers
<1>2. CASE Elapse
  BY <1>2, ProviderAssumption DEF ProvidersInv, Elapse
<1>3. CASE \E id \in Events : EndMatch(id)
  <2>1. PICK id \in Events : EndMatch(id)
    BY <1>3
  <2>2. PICK end \in {<<"finished", "home_win">>, <<"finished", "away_win">>,
                      <<"finished", "draw">>, <<"cancelled", NoResult>>} :
          listing' = [i \in DOMAIN listing |->
                        IF listing[i].id = id /\ Open(listing[i])
                          THEN [listing[i] EXCEPT !.status = end[1], !.result = end[2]]
                          ELSE listing[i]]
    BY <2>1 DEF EndMatch
  <2>3. end[1] \in {"scheduled", "finished", "cancelled"} /\ end[2] \in Result
    <3>1. \/ end = <<"finished", "home_win">> \/ end = <<"finished", "away_win">>
          \/ end = <<"finished", "draw">> \/ end = <<"cancelled", NoResult>>
      BY <2>2, Zenon
    <3> QED
      BY <3>1 DEF Result
  <2>4. PICK n \in Nat : listing \in [1..n -> EventRow] /\ DOMAIN listing = 1..n
    BY DEF ProvidersInv
  <2>5. ASSUME NEW i \in 1..n
        PROVE  [listing[i] EXCEPT !.status = end[1], !.result = end[2]] \in EventRow
    BY <2>3, <2>4 DEF EventRow
  <2>6. listing' \in [1..n -> EventRow]
    BY <2>2, <2>4, <2>5
  <2>7. listing' \in Seq(EventRow)
    BY <2>6
  <2>8. odds' = odds /\ now' = now
    BY <2>1 DEF EndMatch
  <2> QED
    BY <2>7, <2>8 DEF ProvidersInv
<1>4. UNCHANGED providers \/ Elapse \/ \E id \in Events : EndMatch(id)
  BY DEF Next, vars, pipelineVars, PipelineNext, GenerateObservation, StartReplay,
         ReplayStep, OpenEvent, PassOver, PlaceBet, EndReplay
<1> QED
  BY <1>1, <1>2, <1>3, <1>4

LEMMA ProvidersInvariant == Spec => []ProvidersInv
<1>1. Init => ProvidersInv
  BY ProviderAssumption DEF Init, PipelineInit, ProvidersInv
<1> QED
  BY <1>1, ProvidersStep, PTL DEF Spec

-----------------------------------------------------------------------------
(* No look-ahead.                                                          *)

LEMMA FeaturesOfThePast ==
  ASSUME NEW list \in Seq(EventRow), NEW e
  PROVE  BuildFeatures(e, CleanEvents(AsBefore(e, list))) = BuildFeatures(e, CleanEvents(list))
<1>1. PICK n \in Nat : list \in [1..n -> EventRow] /\ DOMAIN list = 1..n
  OBVIOUS
<1>2. PICK before : before = AsBefore(e, list)
  OBVIOUS
<1>3. \A i \in 1..n : before[i] = IF list[i].start < e.start THEN list[i]
                         ELSE [list[i] EXCEPT !.status = "scheduled", !.result = NoResult]
  BY <1>1, <1>2 DEF AsBefore
<1>4. ASSUME NEW i \in 1..n
      PROVE  before[i] \in EventRow /\ before[i].id = list[i].id
               /\ before[i].start = list[i].start
  <2>1. list[i] \in EventRow
    BY <1>1
  <2>2. /\ [list[i] EXCEPT !.status = "scheduled", !.result = NoResult] \in EventRow
        /\ [list[i] EXCEPT !.status = "scheduled", !.result = NoResult].id = list[i].id
        /\ [list[i] EXCEPT !.status = "scheduled", !.result = NoResult].start = list[i].start
    BY <2>1 DEF EventRow, Result
  <2> QED
    BY <1>3, <2>1, <2>2
<1>5. before \in [1..n -> EventRow]
  BY <1>1, <1>2, <1>4 DEF AsBefore
<1>6. PICK m, pos : /\ Positions(pos, m, n, FirstListed(list, n))
                    /\ CleanEvents(list) = [k \in 1..m |-> Cleaned(list[pos[k]])]
                    /\ CleanEvents(before) = [k \in 1..m |-> Cleaned(before[pos[k]])]
  <2>1. \A i \in 1..n : before[i].id = list[i].id /\ before[i].start = list[i].start
    BY <1>4
  <2>2. list \in [1..n -> EventRow]
    BY <1>1
  <2> QED
    BY <1>5, <2>1, <2>2, CleanPositions DEF CleanedAlike
<1>7. PICK x, y : x = CleanEvents(list) /\ y = CleanEvents(before)
  OBVIOUS
<1>8. m \in Nat /\ DOMAIN x = 1..m /\ DOMAIN y = 1..m /\ \A k \in 1..m : pos[k] \in 1..n
  BY <1>6, <1>7 DEF Positions
<1>9. ASSUME NEW k \in 1..m
      PROVE  /\ x[k] = Cleaned(list[pos[k]]) /\ y[k] = Cleaned(before[pos[k]])
             /\ y[k].sport = x[k].sport /\ y[k].start = x[k].start
             /\ x[k].start = list[pos[k]].start
  <2>1. x[k] = Cleaned(list[pos[k]]) /\ y[k] = Cleaned(before[pos[k]]) /\ pos[k] \in 1..n
    BY <1>6, <1>7, <1>8
  <2>2. before[pos[k]].sport = list[pos[k]].sport
    BY <1>1, <1>3, <2>1 DEF EventRow
  <2> QED
    BY <1>1, <1>4, <2>1, <2>2, CleanedFacts
<1>10. PICK I : I = {k \in 1..m : x[k].sport = e.sport /\ x[k].start < e.start}
  OBVIOUS
<1>11. I = {k \in 1..m : y[k].sport = e.sport /\ y[k].start < e.start}
  BY <1>9, <1>10
<1>12. \A k \in I : x[k] = y[k]
  <2> TAKE k \in I
  <2>1. k \in 1..m /\ pos[k] \in 1..n /\ list[pos[k]].start < e.start
    BY <1>8, <1>9, <1>10
  <2>2. before[pos[k]] = list[pos[k]]
    BY <1>3, <2>1
  <2> QED
    BY <1>9, <2>1, <2>2
<1>13. [k \in DOMAIN x |-> IF k \in I THEN <<x[k]>> ELSE <<>>]
         = [k \in DOMAIN y |-> IF k \in I THEN <<y[k]>> ELSE <<>>]
  BY <1>8, <1>12
<1>14. Sublist(x, I) = Sublist(y, I)
  BY <1>13 DEF Sublist
<1>15. PriorEvents(e, x) = PriorEvents(e, y)
  BY <1>8, <1>10, <1>11, <1>14 DEF PriorEvents
<1> QED
  BY <1>2, <1>7, <1>15 DEF BuildFeatures

\* feature_builder.py:24: what a pass reports of an event depends on no match that
\* does not start before it, whatever has ended since and in whatever order the
\* provider lists them.
THEOREM NoLookAhead == Spec => []ReportsUsePastOnly
<1>1. ProvidersInv => ReportsUsePastOnly
  <2> SUFFICES ASSUME ProvidersInv, NEW e
               PROVE  ReportsOf(e, CleanEvents(listing))
                        = ReportsOf(e, CleanEvents(AsBefore(e, listing)))
    BY DEF ReportsUsePastOnly
  <2>1. BuildFeatures(e, CleanEvents(AsBefore(e, listing)))
          = BuildFeatures(e, CleanEvents(listing))
    BY FeaturesOfThePast DEF ProvidersInv
  <2> QED
    BY <2>1 DEF ReportsOf, Priced
<1> QED
  BY <1>1, ProvidersInvariant, PTL

-----------------------------------------------------------------------------
(* Recursive functions.                                                    *)

LEMMA Along ==
  ASSUME NEW n \in Nat, NEW Good, 0 \in Good, \A i \in 1..n : i - 1 \in Good => i \in Good
  PROVE  \A i \in 0..n : i \in Good
<1> DEFINE Bad == (0..n) \ Good
<1> SUFFICES ASSUME Bad # {} PROVE FALSE
  OBVIOUS
<1>1. PICK i \in Bad : \A m \in Bad : i <= m
  <2>1. Bad \subseteq Nat
    OBVIOUS
  <2> HIDE DEF Bad
  <2> QED
    BY <2>1, LeastNumber
<1>2. i \in 1..n /\ i - 1 \in 0..n /\ ~(i <= i - 1)
  BY <1>1
<1> QED
  BY <1>1, <1>2

IsRun(r, n, A, base, step) ==
  r \in [0..n -> A] /\ r[0] = base /\ \A i \in 1..n : r[i] = step[i][r[i - 1]]

LEMMA RecursionExists ==
  ASSUME NEW n \in Nat, NEW A, NEW base \in A, NEW step \in [1..n -> [A -> A]]
  PROVE  \E r : IsRun(r, n, A, base, step)
<1> DEFINE Run(r, k) == /\ r \in [0..k -> A] /\ r[0] = base
                        /\ \A i \in 1..k : r[i] = step[i][r[i - 1]]
           Good == {k \in 0..n : \E r : Run(r, k)}
<1>1. 0 \in Good
  <2>1. Run([i \in 0..0 |-> base], 0) /\ 0 \in 0..n
    OBVIOUS
  <2> HIDE DEF Run
  <2> QED
    BY <2>1
<1>2. ASSUME NEW k \in 1..n, k - 1 \in Good PROVE k \in Good
  <2>1. PICK r : Run(r, k - 1)
    BY <1>2
  <2>2. PICK t : t = [i \in 0..k |-> IF i = k THEN step[k][r[k - 1]] ELSE r[i]]
    OBVIOUS
  <2>3. r[k - 1] \in A /\ step[k][r[k - 1]] \in A
    BY <2>1
  <2>4. t \in [0..k -> A] /\ t[0] = base
    BY <2>1, <2>2, <2>3
  <2>5. ASSUME NEW i \in 1..k PROVE t[i] = step[i][t[i - 1]]
    <3>1. t[i - 1] = r[i - 1]
      BY <2>2
    <3>2. i # k => i \in 1..(k - 1) /\ t[i] = r[i]
      BY <2>2
    <3> QED
      BY <2>1, <2>2, <3>1, <3>2
  <2>6. Run(t, k)
    BY <2>4, <2>5
  <2> HIDE DEF Run
  <2> QED
    BY <2>6
<1>3. n \in Good
  <2> HIDE DEF Good
  <2>1. \A i \in 0..n : i \in Good
    BY <1>1, <1>2, Along
  <2> QED
    BY <2>1
<1> HIDE DEF Run
<1>4. PICK r : Run(r, n)
  BY <1>3
<1> QED
  BY <1>4 DEF Run, IsRun

LEMMA RecursionTyped ==
  ASSUME NEW n \in Nat, NEW A, NEW r, r[0] \in A, \A i \in 1..n : r[i - 1] \in A => r[i] \in A
  PROVE  \A i \in 0..n : r[i] \in A
<1>1. PICK Good : Good = {i \in 0..n : r[i] \in A}
  OBVIOUS
<1>2. \A i \in 0..n : i \in Good
  BY <1>1, Along
<1> QED
  BY <1>1, <1>2

-----------------------------------------------------------------------------
(* The types of the valuation.                                             *)

\* taken is list[pos[1]], ..., list[pos[m]], the list of those at I.
TakenIn(S, taken, pos, m, n, I, list) ==
  /\ Positions(pos, m, n, I) /\ m \in Nat
  /\ taken \in [1..m -> S]
  /\ \A k \in 1..m : taken[k] = list[pos[k]]

LEMMA SublistType ==
  ASSUME NEW n \in Nat, NEW S, NEW list \in [1..n -> S], NEW I
  PROVE  \E m, pos : TakenIn(S, Sublist(list, I), pos, m, n, I, list)
<1>1. PICK m, pos : Positions(pos, m, n, I) /\ Taken(Sublist(list, I), pos, m, list)
  BY SublistPositions
<1>2. m \in Nat /\ \A k \in 1..m : pos[k] \in 1..n
  BY <1>1 DEF Positions
<1>3. PICK taken : taken = Sublist(list, I)
  OBVIOUS
<1>4. taken = [k \in 1..m |-> list[pos[k]]]
  BY <1>1, <1>3 DEF Taken
<1>5. \A k \in 1..m : list[pos[k]] \in S
  BY <1>2
<1>6. taken \in [1..m -> S] /\ \A k \in 1..m : taken[k] = list[pos[k]]
  BY <1>4, <1>5
<1> QED
  BY <1>1, <1>2, <1>3, <1>6 DEF TakenIn

IsRating(rating, names, played, n) ==
  rating = [k \in 0..n |-> IF k = 0 THEN [name \in names |-> 0]
                             ELSE Rated(rating[k - 1], played[k])]

LEMMA ExpectedHomeType == \A gap \in Int : ExpectedHome(gap) \in 0..Unit
<1> SUFFICES ASSUME NEW gap \in Int PROVE ExpectedHome(gap) \in 0..Unit
  OBVIOUS
<1>1. PICK g : g = IF gap > MaxGap THEN MaxGap ELSE IF gap < -MaxGap THEN -MaxGap ELSE gap
  OBVIOUS
<1>2. g \in -MaxGap..MaxGap
  BY <1>1, ModelAssumption
<1>3. Expected[g] \in 0..Unit
  BY <1>2, ModelAssumption
<1> QED
  BY <1>1, <1>3 DEF ExpectedHome

LEMMA RatedType ==
  ASSUME NEW names, NEW rating \in [names -> Int], NEW m, m.home \in names, m.away \in names
  PROVE  Rated(rating, m) \in [names -> Int]
<1>1. Score(m.result) \in Int
  BY ModelAssumption DEF Score
<1>2. ExpectedHome(rating[m.home] - rating[m.away]) \in Int
  <2>1. rating[m.home] - rating[m.away] \in Int
    OBVIOUS
  <2> QED
    BY <2>1, ExpectedHomeType, ModelAssumption
<1>3. PICK gain \in Int : gain = Score(m.result) - ExpectedHome(rating[m.home] - rating[m.away])
  BY <1>1, <1>2
<1>4. [rating EXCEPT ![m.home] = @ + gain, ![m.away] = @ - gain] \in [names -> Int]
  BY <1>3
<1> QED
  BY <1>3, <1>4 DEF Rated

LEMMA RatingsType ==
  ASSUME NEW n \in Nat, NEW x \in [1..n -> CleanRow]
  PROVE  \A name : RatingOf(Ratings(x), name) \in Int
<1>1. PICK names : names = {x[i].home : i \in DOMAIN x} \cup {x[i].away : i \in DOMAIN x}
  OBVIOUS
<1>2. PICK sorted : sorted = ByStart(x)
  OBVIOUS
<1>3. \A i \in 1..n : x[i].start \in Int
  BY DEF CleanRow
<1>4. PICK q : Positions(q, n, n, 1..n) /\ Taken(sorted, q, n, x)
  BY <1>2, <1>3, SortedPositions
<1>5. sorted \in [1..n -> CleanRow] /\ \A k \in 1..n : \E i \in 1..n : sorted[k] = x[i]
  BY <1>4 DEF Taken, Positions
<1>6. PICK I, played : /\ I = {i \in DOMAIN sorted : Played(sorted[i])}
                       /\ played = Sublist(sorted, I)
  OBVIOUS
<1>7. PICK m, pos : TakenIn(CleanRow, played, pos, m, n, I, sorted)
  <2>1. PICK S : S = CleanRow
    OBVIOUS
  <2>2. sorted \in [1..n -> S]
    BY <1>5, <2>1
  <2>3. \E m, pos : TakenIn(S, Sublist(sorted, I), pos, m, n, I, sorted)
    BY <2>2, SublistType
  <2> QED
    BY <1>6, <2>1, <2>3
<1>7a. m \in Nat /\ played \in [1..m -> CleanRow]
  BY <1>7 DEF TakenIn
<1>8. \A k \in 1..m : played[k].home \in names /\ played[k].away \in names
  <2> TAKE k \in 1..m
  <2>1. pos[k] \in 1..n /\ played[k] = sorted[pos[k]]
    BY <1>7 DEF Positions, TakenIn
  <2>2. PICK i \in 1..n : played[k] = x[i]
    BY <1>5, <2>1
  <2> QED
    BY <1>1, <2>2
<1>9. PICK A : A = [names -> Int]
  OBVIOUS
<1>10. \A k \in 1..m, r \in A : Rated(r, played[k]) \in A
  BY <1>8, <1>9, RatedType
<1>11. PICK step : step = [k \in 1..m |-> [r \in A |-> Rated(r, played[k])]]
  OBVIOUS
<1>12. step \in [1..m -> [A -> A]] /\ [name \in names |-> 0] \in A
  BY <1>9, <1>10, <1>11
<1>13. PICK r \in [0..m -> A] : /\ r[0] = [name \in names |-> 0]
                                /\ \A i \in 1..m : r[i] = step[i][r[i - 1]]
  <2>1. m \in Nat /\ step \in [1..m -> [A -> A]]
    BY <1>7a, <1>12
  <2>2. PICK base \in A : base = [name \in names |-> 0]
    BY <1>12
  <2>3. PICK r : IsRun(r, m, A, base, step)
    BY <2>1, RecursionExists
  <2> QED
    BY <2>2, <2>3 DEF IsRun
<1>14. IsRating(r, names, played, m)
  <2>1. \A k \in 1..m : r[k] = Rated(r[k - 1], played[k])
    <3> TAKE k \in 1..m
    <3>1. r[k - 1] \in A
      BY <1>7a, <1>13
    <3> QED
      BY <1>11, <1>13, <3>1
  <2> QED
    BY <1>13, <2>1 DEF IsRating
<1>15. PICK c : c = CHOOSE rating : IsRating(rating, names, played, m)
  OBVIOUS
<1>16. IsRating(c, names, played, m)
  BY <1>14, <1>15
<1>17. c[0] \in A /\ \A k \in 1..m : c[k] = Rated(c[k - 1], played[k])
  BY <1>7a, <1>12, <1>16 DEF IsRating
<1>18. \A k \in 0..m : c[k] \in A
  <2>1. \A k \in 1..m : c[k - 1] \in A => c[k] \in A
    BY <1>10, <1>17
  <2> QED
    BY <1>7a, <1>17, <2>1, RecursionTyped
<1>19. Len(played) = m
  BY <1>7a, ListFacts
<1>20. Ratings(x) = c[m]
  BY <1>1, <1>2, <1>6, <1>15, <1>19 DEF Ratings, IsRating
<1>21. Ratings(x) \in [names -> Int]
  <2>1. c[m] \in A
    BY <1>7a, <1>18
  <2> QED
    BY <1>9, <1>20, <2>1
<1> QED
  BY <1>21 DEF RatingOf

LEMMA ShareType ==
  ASSUME NEW u \in Nat \ {0}, NEW a \in 0..u, NEW b \in 0..u
  PROVE  (a * b) \div u \in 0..u
<1>1. a * b >= 0 /\ a * b <= u * u
  OBVIOUS
<1>2. PICK c \in Nat : c = a * b /\ c <= u * u
  BY <1>1
<1> QED
  BY <1>2

LEMMA EstimatesType ==
  ASSUME NEW n \in Nat, NEW x \in [1..n -> CleanRow], NEW e
  PROVE  LET estimates == Estimates(BuildFeatures(e, x)) IN
           /\ DOMAIN estimates \subseteq {"home", "draw", "away"}
           /\ \A s \in DOMAIN estimates : estimates[s] \in 0..Unit
<1>1. PICK prior, m : prior = PriorEvents(e, x) /\ m \in Nat /\ prior \in [1..m -> CleanRow]
  <2>1. PICK S, J : /\ S = CleanRow
                    /\ J = {i \in DOMAIN x : x[i].sport = e.sport /\ x[i].start < e.start}
    OBVIOUS
  <2>2. PICK m, pos : TakenIn(S, Sublist(x, J), pos, m, n, J, x)
    BY <2>1, SublistType
  <2>3. PICK prior : prior = Sublist(x, J)
    OBVIOUS
  <2> QED
    BY <2>1, <2>2, <2>3 DEF TakenIn, PriorEvents
<1>2. BuildFeatures(e, x).gap \in Int
  <2>1. \A name : RatingOf(Ratings(PriorEvents(e, x)), name) \in Int
    BY <1>1, RatingsType
  <2> QED
    BY <2>1 DEF BuildFeatures
<1>3. PICK home \in 0..Unit : home = ExpectedHome(BuildFeatures(e, x).gap)
  BY <1>2, ExpectedHomeType
<1>4. Unit \in Nat \ {0} /\ DrawShare \in 0..Unit
  BY ModelAssumption
<1>5. PICK rest \in 0..Unit : rest = Unit - DrawShare
  BY <1>4
<1>6. Unit - home \in 0..Unit
  BY <1>4
<1>7. (rest * home) \div Unit \in 0..Unit /\ (rest * (Unit - home)) \div Unit \in 0..Unit
  BY <1>4, <1>6, ShareType
<1>8. PICK draws : draws = BuildFeatures(e, x).allowsDraw
  OBVIOUS
<1>9. Estimates(BuildFeatures(e, x)) =
        IF draws THEN [home |-> (rest * home) \div Unit, draw |-> DrawShare,
                       away |-> (rest * (Unit - home)) \div Unit]
                 ELSE [home |-> home, away |-> Unit - home]
  BY <1>3, <1>5, <1>8 DEF Estimates
<1>10. PICK h \in 0..Unit, a \in 0..Unit : /\ h = (rest * home) \div Unit
                                           /\ a = (rest * (Unit - home)) \div Unit
  BY <1>7
<1>11. CASE draws
  BY <1>4, <1>9, <1>10, <1>11
<1>12. CASE ~draws
  BY <1>6, <1>9, <1>12
<1> QED
  BY <1>11, <1>12

-----------------------------------------------------------------------------
(* The priced quotes of an event.                                          *)

LEMMA LargestNumber ==
  ASSUME NEW n \in Nat, NEW T \in SUBSET (0..n), T # {}
  PROVE  Max(T) \in T /\ \A m \in T : m <= Max(T)
<1>1. PICK U : U = {n - m : m \in T}
  OBVIOUS
<1>2. U \in SUBSET Nat /\ U # {}
  <2>1. \A m \in T : m \in 0..n
    OBVIOUS
  <2>2. \A m \in T : n - m \in Nat
    BY <2>1
  <2> QED
    BY <1>1, <2>2
<1>3. PICK u \in U : \A v \in U : u <= v
  BY <1>2, LeastNumber
<1>4. PICK m \in T : u = n - m
  BY <1>1, <1>3
<1>5. \A l \in T : m >= l
  <2> TAKE l \in T
  <2>1. n - l \in U
    BY <1>1
  <2>2. n - m <= n - l /\ m \in Int /\ l \in Int
    BY <1>3, <1>4, <2>1
  <2> QED
    BY <2>2
<1>6. \E x \in T : \A y \in T : x >= y
  BY <1>5
<1>7. Max(T) \in T /\ \A l \in T : Max(T) >= l
  BY <1>6 DEF Max
<1> QED
  BY <1>7

\* The list of the quotes by group: rep[g] is the first quote of group g.
MarketsAre(markets, groups, rep, r, n) ==
  /\ groups \in Nat /\ rep \in [1..groups -> 1..n]
  /\ markets = [g \in 1..groups |-> Sublist(r, {i \in 1..n : r[i].group = r[rep[g]].group})]
  /\ \A g, h \in 1..groups : r[rep[g]].group = r[rep[h]].group => g = h
  /\ \A i \in 1..n : \E g \in 1..groups : r[rep[g]].group = r[i].group

LEMMA MarketsFacts ==
  ASSUME NEW n \in Nat, NEW S, NEW r \in [1..n -> S]
  PROVE  \E groups, rep : MarketsAre(Markets(r), groups, rep, r, n)
<1>1. PICK I : I = {i \in DOMAIN r : \A j \in 1..(i - 1) : r[j].group # r[i].group}
  OBVIOUS
<1>2. PICK first : first = Sublist(r, I)
  OBVIOUS
<1>3. PICK m, rep : TakenIn(S, first, rep, m, n, I, r)
  BY <1>2, SublistType
<1>4. /\ m \in Nat /\ rep \in [1..m -> 1..n] /\ DOMAIN first = 1..m
      /\ \A g \in 1..m : first[g] = r[rep[g]] /\ rep[g] \in I
      /\ \A i \in 1..n : i \in I => \E g \in 1..m : rep[g] = i
      /\ \A g, h \in 1..m : rep[g] = rep[h] => g = h
  BY <1>3 DEF TakenIn, Positions
<1>5. Markets(r) = [g \in 1..m |-> Sublist(r, {i \in 1..n : r[i].group = r[rep[g]].group})]
  <2>1. Markets(r) = [g \in DOMAIN first |->
                        Sublist(r, {i \in DOMAIN r : r[i].group = first[g].group})]
    BY <1>1, <1>2 DEF Markets
  <2>2. DOMAIN r = 1..n
    OBVIOUS
  <2>3. \A g \in 1..m : first[g].group = r[rep[g]].group
    BY <1>4
  <2>4. Markets(r) = [g \in 1..m |-> Sublist(r, {i \in 1..n : r[i].group = first[g].group})]
    BY <1>4, <2>1, <2>2
  <2>5. \A g \in 1..m : {i \in 1..n : r[i].group = first[g].group}
                           = {i \in 1..n : r[i].group = r[rep[g]].group}
    BY <2>3
  <2>6. \A g \in 1..m : Sublist(r, {i \in 1..n : r[i].group = first[g].group})
                           = Sublist(r, {i \in 1..n : r[i].group = r[rep[g]].group})
    BY <2>5
  <2> QED
    BY <2>4, <2>6
<1>6. ASSUME NEW g \in 1..m, NEW h \in 1..m, r[rep[g]].group = r[rep[h]].group
      PROVE  g = h
  <2>1. rep[g] \in I /\ rep[h] \in I /\ rep[g] \in 1..n /\ rep[h] \in 1..n
    BY <1>4
  <2>2. ~(rep[g] < rep[h]) /\ ~(rep[h] < rep[g])
    BY <1>1, <1>6, <2>1
  <2>3. rep[g] = rep[h]
    BY <2>1, <2>2
  <2> QED
    BY <1>4, <2>3
<1>7. ASSUME NEW i \in 1..n PROVE \E g \in 1..m : r[rep[g]].group = r[i].group
  <2>1. PICK T : T = {j \in 1..n : r[j].group = r[i].group}
    OBVIOUS
  <2>2. T \in SUBSET Nat /\ T # {}
    BY <2>1
  <2>3. PICK j \in T : \A l \in T : j <= l
    BY <2>2, LeastNumber
  <2>4. j \in I
    BY <1>1, <2>1, <2>3
  <2>5. PICK g \in 1..m : rep[g] = j
    BY <1>4, <2>1, <2>4
  <2> QED
    BY <2>1, <2>5
<1>8. PICK markets : markets = Markets(r)
  OBVIOUS
<1>9. MarketsAre(markets, m, rep, r, n)
  BY <1>4, <1>5, <1>6, <1>7, <1>8 DEF MarketsAre
<1> QED
  BY <1>8, <1>9

IsList(p, m) == m \in Nat /\ p = [k \in 1..m |-> p[k]]

\* p prices the market mk of k quotes: one quote per selection it names.
IsPricing(p, m, mk, k, est) ==
  /\ IsList(p, m)
  /\ \A j \in 1..m : \E l \in 1..k : p[j].quote = mk[l].quote /\ p[j].selection = mk[l].selection
  /\ \A j \in 1..m : p[j].selection \in DOMAIN est /\ p[j].p = est[p[j].selection]
  /\ \A j, h \in 1..m : p[j].selection = p[h].selection => j = h
  /\ \A l \in 1..k : mk[l].selection \in DOMAIN est
                       => \E j \in 1..m : p[j].selection = mk[l].selection

LEMMA PricedInFacts ==
  ASSUME NEW k \in Nat, NEW S, NEW mk \in [1..k -> S], NEW est,
         DOMAIN est \subseteq {"home", "draw", "away"}
  PROVE  \E m : IsPricing(PricedIn(mk, est), m, mk, k, est)
<1>1. PICK last : last = [s \in {"home", "draw", "away"} |->
                            Max({0} \cup {i \in DOMAIN mk : mk[i].selection = s})]
  OBVIOUS
<1>2. ASSUME NEW s \in {"home", "draw", "away"}
      PROVE  /\ last[s] \in 0..k
             /\ last[s] # 0 => last[s] \in 1..k /\ mk[last[s]].selection = s
             /\ \A l \in 1..k : mk[l].selection = s => last[s] # 0
  <2>1. PICK T : T = {0} \cup {i \in 1..k : mk[i].selection = s}
    OBVIOUS
  <2>2. T \in SUBSET (0..k) /\ T # {}
    BY <2>1
  <2>3. Max(T) \in T /\ \A l \in T : l <= Max(T)
    BY <2>2, LargestNumber
  <2>4. last[s] = Max(T)
    BY <1>1, <2>1
  <2> QED
    BY <2>1, <2>3, <2>4
<1>3. Selections \in [1..3 -> {"home", "draw", "away"}] /\ DOMAIN Selections = 1..3
  BY DEF Selections
<1>4. PICK I : I = {i \in 1..3 : Selections[i] \in DOMAIN est /\ last[Selections[i]] # 0}
  OBVIOUS
<1>5. PICK found : found = Sublist(Selections, I)
  OBVIOUS
<1>6. PICK m, pos : TakenIn({"home", "draw", "away"}, found, pos, m, 3, I, Selections)
  BY <1>3, <1>5, SublistType
<1>7. /\ m \in Nat /\ pos \in [1..m -> 1..3] /\ DOMAIN found = 1..m
      /\ \A j \in 1..m : found[j] = Selections[pos[j]] /\ pos[j] \in I
      /\ \A i \in 1..3 : i \in I => \E j \in 1..m : pos[j] = i
      /\ \A j, h \in 1..m : pos[j] = pos[h] => j = h
  BY <1>6 DEF TakenIn, Positions
<1>8. PICK p : p = PricedIn(mk, est)
  OBVIOUS
<1>9. p = [j \in 1..m |->
             [selection |-> found[j], p |-> est[found[j]], quote |-> mk[last[found[j]]].quote,
              market |-> [i \in DOMAIN mk |-> mk[i].quote]]]
  <2>1. \A j \in 1..m : found[j] \in {"home", "draw", "away"}
    BY <1>3, <1>7
  <2>2. \A s \in {"home", "draw", "away"} :
          Max({0} \cup {i \in DOMAIN mk : mk[i].selection = s}) = last[s]
    BY <1>1
  <2>3. Sublist(Selections, {i \in DOMAIN Selections :
           Selections[i] \in DOMAIN est
             /\ Max({0} \cup {l \in DOMAIN mk : mk[l].selection = Selections[i]}) # 0}) = found
    BY <1>3, <1>4, <1>5, <2>2
  <2>4. p = [j \in DOMAIN found |->
               [selection |-> found[j], p |-> est[found[j]],
                quote |-> mk[Max({0} \cup {i \in DOMAIN mk : mk[i].selection = found[j]})].quote,
                market |-> [i \in DOMAIN mk |-> mk[i].quote]]]
    BY <1>8, <2>3 DEF PricedIn
  <2>5. PICK quotes : quotes = [i \in DOMAIN mk |-> mk[i].quote]
    OBVIOUS
  <2>6. p = [j \in 1..m |->
               [selection |-> found[j], p |-> est[found[j]],
                quote |-> mk[Max({0} \cup {i \in DOMAIN mk : mk[i].selection = found[j]})].quote,
                market |-> quotes]]
    BY <1>7, <2>4, <2>5
  <2>7. \A j \in 1..m : Max({0} \cup {i \in DOMAIN mk : mk[i].selection = found[j]})
                           = last[found[j]]
    BY <2>1, <2>2
  <2> QED
    BY <2>5, <2>6, <2>7
<1>10. ASSUME NEW j \in 1..m
       PROVE  /\ p[j].selection = found[j] /\ p[j].p = est[found[j]]
              /\ p[j].quote = mk[last[found[j]]].quote
              /\ found[j] \in DOMAIN est /\ last[found[j]] \in 1..k
              /\ mk[last[found[j]]].selection = found[j]
  <2>1. found[j] = Selections[pos[j]] /\ pos[j] \in I /\ pos[j] \in 1..3
    BY <1>7
  <2>2. found[j] \in {"home", "draw", "away"} /\ found[j] \in DOMAIN est /\ last[found[j]] # 0
    BY <1>3, <1>4, <2>1
  <2> QED
    BY <1>2, <1>9, <2>2
<1>11. ASSUME NEW j \in 1..m, NEW h \in 1..m, p[j].selection = p[h].selection PROVE j = h
  <2>1. Selections[pos[j]] = Selections[pos[h]] /\ pos[j] \in 1..3 /\ pos[h] \in 1..3
    BY <1>7, <1>10, <1>11
  <2>2. pos[j] = pos[h]
    BY <2>1 DEF Selections
  <2> QED
    BY <1>7, <2>2
<1>12. ASSUME NEW l \in 1..k, mk[l].selection \in DOMAIN est
       PROVE  \E j \in 1..m : p[j].selection = mk[l].selection
  <2>1. PICK i \in 1..3 : Selections[i] = mk[l].selection
    BY <1>12 DEF Selections
  <2>2. i \in I
    BY <1>2, <1>3, <1>4, <1>12, <2>1
  <2>3. PICK j \in 1..m : pos[j] = i
    BY <1>7, <2>2
  <2> QED
    BY <1>7, <1>10, <2>1, <2>3
<1>13. IsList(p, m)
  BY <1>7, <1>9 DEF IsList
<1>14. IsPricing(p, m, mk, k, est)
  BY <1>10, <1>11, <1>12, <1>13 DEF IsPricing
<1> QED
  BY <1>8, <1>14

\* p prices the n read quotes r, pos[k] being the quote of p[k]: each selection
\* it names is priced once in each group in which it is quoted.
IsPriced(p, m, pos, r, n, est) ==
  /\ IsList(p, m) /\ pos \in [1..m -> 1..n]
  /\ \A k \in 1..m : p[k].quote = r[pos[k]].quote /\ p[k].selection = r[pos[k]].selection
  /\ \A k \in 1..m : p[k].selection \in DOMAIN est /\ p[k].p = est[p[k].selection]
  /\ \A k, l \in 1..m : /\ r[pos[k]].group = r[pos[l]].group
                        /\ r[pos[k]].selection = r[pos[l]].selection
                        => k = l
  /\ \A i \in 1..n : r[i].selection \in DOMAIN est
       => \E k \in 1..m : /\ r[pos[k]].group = r[i].group
                          /\ r[pos[k]].selection = r[i].selection

\* p prices the read quotes of one group.
IsGroup(p, m, r, n, group, est) ==
  /\ IsList(p, m)
  /\ \A j \in 1..m : \E i \in 1..n : /\ r[i].group = group /\ p[j].quote = r[i].quote
                                     /\ p[j].selection = r[i].selection
  /\ \A j \in 1..m : p[j].selection \in DOMAIN est /\ p[j].p = est[p[j].selection]
  /\ \A j, h \in 1..m : p[j].selection = p[h].selection => j = h
  /\ \A i \in 1..n : r[i].group = group /\ r[i].selection \in DOMAIN est
                       => \E j \in 1..m : p[j].selection = r[i].selection

LEMMA GroupFacts ==
  ASSUME NEW n \in Nat, NEW S, NEW r \in [1..n -> S], NEW est,
         DOMAIN est \subseteq {"home", "draw", "away"},
         NEW markets, NEW groups, NEW rep, MarketsAre(markets, groups, rep, r, n),
         NEW g \in 1..groups
  PROVE  \E m : IsGroup(PricedIn(markets[g], est), m, r, n, r[rep[g]].group, est)
<1>1. PICK I : I = {i \in 1..n : r[i].group = r[rep[g]].group}
  OBVIOUS
<1>2. markets[g] = Sublist(r, I)
  BY <1>1 DEF MarketsAre
<1>3. PICK mk : mk = markets[g]
  OBVIOUS
<1>4. PICK k, pos : TakenIn(S, mk, pos, k, n, I, r)
  BY <1>2, <1>3, SublistType
<1>5. /\ k \in Nat /\ mk \in [1..k -> S] /\ pos \in [1..k -> 1..n]
      /\ \A l \in 1..k : mk[l] = r[pos[l]] /\ pos[l] \in I
      /\ \A i \in 1..n : i \in I => \E l \in 1..k : pos[l] = i
  BY <1>4 DEF TakenIn, Positions
<1>6. PICK m : IsPricing(PricedIn(mk, est), m, mk, k, est)
  BY <1>5, PricedInFacts
<1>7. PICK p : p = PricedIn(mk, est)
  OBVIOUS
<1>8. /\ IsList(p, m)
      /\ \A j \in 1..m : \E l \in 1..k : p[j].quote = mk[l].quote /\ p[j].selection = mk[l].selection
      /\ \A j \in 1..m : p[j].selection \in DOMAIN est /\ p[j].p = est[p[j].selection]
      /\ \A j, h \in 1..m : p[j].selection = p[h].selection => j = h
      /\ \A l \in 1..k : mk[l].selection \in DOMAIN est
                           => \E j \in 1..m : p[j].selection = mk[l].selection
  BY <1>6, <1>7 DEF IsPricing
<1>9. ASSUME NEW j \in 1..m
      PROVE  \E i \in 1..n : /\ r[i].group = r[rep[g]].group
                             /\ p[j].quote = r[i].quote /\ p[j].selection = r[i].selection
  <2>1. PICK l \in 1..k : p[j].quote = mk[l].quote /\ p[j].selection = mk[l].selection
    BY <1>8
  <2>2. pos[l] \in 1..n /\ mk[l] = r[pos[l]] /\ r[pos[l]].group = r[rep[g]].group
    BY <1>1, <1>5
  <2> QED
    BY <2>1, <2>2
<1>10. ASSUME NEW i \in 1..n, r[i].group = r[rep[g]].group, r[i].selection \in DOMAIN est
       PROVE  \E j \in 1..m : p[j].selection = r[i].selection
  <2>1. PICK l \in 1..k : mk[l] = r[i]
    BY <1>1, <1>5, <1>10
  <2> QED
    BY <1>8, <1>10, <2>1
<1>11. IsGroup(p, m, r, n, r[rep[g]].group, est)
  BY <1>8, <1>9, <1>10 DEF IsGroup
<1> QED
  BY <1>3, <1>7, <1>11

LEMMA PricedFacts ==
  ASSUME NEW n \in Nat, NEW S, NEW r \in [1..n -> S], NEW e, NEW past, NEW est,
         est = Estimates(BuildFeatures(e, past)), DOMAIN est \subseteq {"home", "draw", "away"}
  PROVE  \E m, pos : IsPriced(Priced(e, r, past), m, pos, r, n, est)
<1>1. PICK markets : markets = Markets(r)
  OBVIOUS
<1>2. PICK groups, rep : MarketsAre(markets, groups, rep, r, n)
  BY <1>1, MarketsFacts
<1>3. /\ groups \in Nat /\ rep \in [1..groups -> 1..n] /\ DOMAIN markets = 1..groups
      /\ \A g, h \in 1..groups : r[rep[g]].group = r[rep[h]].group => g = h
      /\ \A i \in 1..n : \E g \in 1..groups : r[rep[g]].group = r[i].group
  BY <1>2 DEF MarketsAre
<1>4. PICK f : f = [g \in 1..groups |-> PricedIn(markets[g], est)]
  OBVIOUS
<1>5. PICK p : p = FlattenSeq(f) /\ p = Priced(e, r, past)
  <2>1. Priced(e, r, past) = FlattenSeq([g \in DOMAIN markets |-> PricedIn(markets[g], est)])
    BY <1>1 DEF Priced
  <2> QED
    BY <1>3, <1>4, <2>1
<1>6. ASSUME NEW g \in 1..groups
      PROVE  Len(f[g]) \in Nat /\ IsGroup(f[g], Len(f[g]), r, n, r[rep[g]].group, est)
  <2>1. PICK m : IsGroup(PricedIn(markets[g], est), m, r, n, r[rep[g]].group, est)
    BY <1>2, GroupFacts
  <2>2. PICK q : q = PricedIn(markets[g], est)
    OBVIOUS
  <2>3. m \in Nat /\ q = [k \in 1..m |-> q[k]]
    BY <2>1, <2>2 DEF IsGroup, IsList
  <2>4. Len(q) = m
    BY <2>3
  <2>5. f[g] = q
    BY <1>4, <2>2
  <2> QED
    BY <2>1, <2>2, <2>3, <2>4, <2>5
<1>7. CASE groups = 0
  <2>1. n = 0
    BY <1>3, <1>7
  <2>2. f \in [1..0 -> S]
    BY <1>4, <1>7
  <2>3. p = <<>>
    BY <1>5, <2>2, NothingToJoin
  <2>4. PICK pos : pos = [k \in 1..0 |-> k]
    OBVIOUS
  <2>5. IsPriced(p, 0, pos, r, n, est)
    BY <2>1, <2>3, <2>4 DEF IsPriced, IsList
  <2> QED
    BY <1>5, <2>5
<1>8. CASE groups # 0
  <2>1. PICK V : V = {f[x[1]][x[2]] : x \in (1..groups) \X Nat}
    OBVIOUS
  <2>2. \A g \in 1..groups : f[g] \in Seq(V)
    <3> TAKE g \in 1..groups
    <3>1. PICK m \in Nat : m = Len(f[g]) /\ f[g] = [k \in 1..m |-> f[g][k]]
      BY <1>6 DEF IsGroup, IsList
    <3>2. \A k \in 1..m : f[g][k] \in V
      <4> TAKE k \in 1..m
      <4>1. <<g, k>> \in (1..groups) \X Nat
        OBVIOUS
      <4> QED
        BY <2>1, <4>1
    <3>3. f[g] \in [1..m -> V]
      BY <3>1, <3>2
    <3> QED
      BY <3>3
  <2>3. f \in [1..groups -> Seq(V)] /\ groups \in Nat \ {0}
    BY <1>3, <1>4, <1>8, <2>2
  <2>4. PICK m, from, at : Origin(from, at, m, f, groups) /\ Joined(FlattenSeq(f), V, from, at, m, f)
    BY <2>3, CommonOrigin
  <2>5. /\ m \in Nat /\ from \in [1..m -> 1..groups] /\ at \in [1..m -> Nat]
        /\ \A k \in 1..m : at[k] \in 1..Len(f[from[k]])
        /\ \A g \in 1..groups : \A j \in 1..Len(f[g]) : \E k \in 1..m : from[k] = g /\ at[k] = j
        /\ \A k, l \in 1..m : from[k] = from[l] /\ at[k] = at[l] => k = l
        /\ p \in [1..m -> V] /\ \A k \in 1..m : p[k] = f[from[k]][at[k]]
    BY <1>5, <2>4 DEF Origin, Joined
  <2>6. PICK pos : pos = [k \in 1..m |-> CHOOSE i \in 1..n :
                            /\ r[i].group = r[rep[from[k]]].group
                            /\ p[k].quote = r[i].quote /\ p[k].selection = r[i].selection]
    OBVIOUS
  <2>7. ASSUME NEW k \in 1..m
        PROVE  /\ pos[k] \in 1..n /\ r[pos[k]].group = r[rep[from[k]]].group
               /\ p[k].quote = r[pos[k]].quote /\ p[k].selection = r[pos[k]].selection
               /\ p[k].selection \in DOMAIN est /\ p[k].p = est[p[k].selection]
    <3>1. from[k] \in 1..groups /\ at[k] \in 1..Len(f[from[k]]) /\ p[k] = f[from[k]][at[k]]
      BY <2>5
    <3>2. IsGroup(f[from[k]], Len(f[from[k]]), r, n, r[rep[from[k]]].group, est)
      BY <1>6, <3>1
    <3>3. \E i \in 1..n : /\ r[i].group = r[rep[from[k]]].group
                          /\ p[k].quote = r[i].quote /\ p[k].selection = r[i].selection
      BY <3>1, <3>2 DEF IsGroup
    <3>4. p[k].selection \in DOMAIN est /\ p[k].p = est[p[k].selection]
      BY <3>1, <3>2 DEF IsGroup
    <3> QED
      BY <2>6, <3>3, <3>4
  <2>8. ASSUME NEW k \in 1..m, NEW l \in 1..m, r[pos[k]].group = r[pos[l]].group,
               r[pos[k]].selection = r[pos[l]].selection
        PROVE  k = l
    <3>1. from[k] \in 1..groups /\ from[l] \in 1..groups /\ from[k] = from[l]
      <4>1. from[k] \in 1..groups /\ from[l] \in 1..groups
        BY <2>5
      <4>2. r[rep[from[k]]].group = r[rep[from[l]]].group
        BY <2>7, <2>8
      <4> QED
        BY <1>3, <4>1, <4>2
    <3>2. IsGroup(f[from[k]], Len(f[from[k]]), r, n, r[rep[from[k]]].group, est)
      BY <1>6, <3>1
    <3>3. f[from[k]][at[k]].selection = f[from[k]][at[l]].selection
      BY <2>5, <2>7, <2>8, <3>1
    <3>4. at[k] = at[l]
      BY <2>5, <3>1, <3>2, <3>3 DEF IsGroup
    <3> QED
      BY <2>5, <3>1, <3>4
  <2>9. ASSUME NEW i \in 1..n, r[i].selection \in DOMAIN est
        PROVE  \E k \in 1..m : /\ r[pos[k]].group = r[i].group
                               /\ r[pos[k]].selection = r[i].selection
    <3>1. PICK g \in 1..groups : r[rep[g]].group = r[i].group
      BY <1>3
    <3>2. PICK j \in 1..Len(f[g]) : f[g][j].selection = r[i].selection
      BY <1>6, <2>9, <3>1 DEF IsGroup
    <3>3. PICK k \in 1..m : from[k] = g /\ at[k] = j
      BY <2>5, <3>2
    <3>4. p[k] = f[g][j]
      BY <2>5, <3>3
    <3>5. r[pos[k]].group = r[i].group
      BY <2>7, <3>1, <3>3
    <3>6. r[pos[k]].selection = r[i].selection
      BY <2>7, <3>2, <3>4
    <3> QED
      BY <3>5, <3>6
  <2>10. IsList(p, m) /\ pos \in [1..m -> 1..n]
    BY <2>5, <2>6, <2>7 DEF IsList
  <2>11. IsPriced(p, m, pos, r, n, est)
    BY <2>7, <2>8, <2>9, <2>10 DEF IsPriced
  <2> QED
    BY <1>5, <2>11
<1> QED
  BY <1>7, <1>8

-----------------------------------------------------------------------------
(* Stakes.                                                                 *)

LEMMA CleanType ==
  ASSUME NEW list \in Seq(EventRow)
  PROVE  CleanEvents(list) \in Seq(CleanRow)
<1>1. PICK n \in Nat : list \in [1..n -> EventRow]
  OBVIOUS
<1>2. PICK m, pos : /\ Positions(pos, m, n, FirstListed(list, n))
                    /\ CleanEvents(list) = [k \in 1..m |-> Cleaned(list[pos[k]])]
  <2>1. \A i \in 1..n : list[i].id = list[i].id /\ list[i].start = list[i].start
    OBVIOUS
  <2>2. PICK m, pos : CleanedAlike(list, list, pos, m, n)
    BY <1>1, <2>1, CleanPositions
  <2> QED
    BY <2>2 DEF CleanedAlike
<1>3. m \in Nat /\ \A k \in 1..m : pos[k] \in 1..n
  BY <1>2 DEF Positions
<1>4. \A k \in 1..m : Cleaned(list[pos[k]]) \in CleanRow
  BY <1>1, <1>3, CleanedFacts
<1>5. CleanEvents(list) \in [1..m -> CleanRow]
  BY <1>2, <1>4
<1> QED
  BY <1>3, <1>5

LEMMA SublistSeq ==
  ASSUME NEW S, NEW list \in Seq(S), NEW I
  PROVE  Sublist(list, I) \in Seq(S)
<1>1. PICK n \in Nat : list \in [1..n -> S]
  OBVIOUS
<1>2. PICK m, pos : TakenIn(S, Sublist(list, I), pos, m, n, I, list)
  BY <1>1, SublistType
<1>3. m \in Nat /\ Sublist(list, I) \in [1..m -> S]
  BY <1>2 DEF TakenIn
<1> QED
  BY <1>3

TypedOffer(offer) == offer.quote \in Quote /\ offer.p \in 0..Unit

LEMMA PricedType ==
  ASSUME NEW quotes \in Seq(Quote), NEW S, NEW r, NEW e, NEW past \in Seq(CleanRow),
         DOMAIN r = DOMAIN quotes, r = [i \in DOMAIN r |-> r[i]],
         \A i \in DOMAIN quotes : r[i].quote = quotes[i]
  PROVE  \E m \in Nat : /\ IsList(Priced(e, r, past), m)
                        /\ \A k \in 1..m : TypedOffer(Priced(e, r, past)[k])
<1>1. PICK n \in Nat : quotes \in [1..n -> Quote]
  OBVIOUS
<1>2. PICK l \in Nat : past \in [1..l -> CleanRow]
  OBVIOUS
<1>3. PICK est : est = Estimates(BuildFeatures(e, past))
  OBVIOUS
<1>4. DOMAIN est \subseteq {"home", "draw", "away"} /\ \A s \in DOMAIN est : est[s] \in 0..Unit
  BY <1>2, <1>3, EstimatesType
<1>5. PICK T : T = {r[i] : i \in 1..n}
  OBVIOUS
<1>6. r \in [1..n -> T]
  BY <1>1, <1>5
<1>7. PICK m, pos : IsPriced(Priced(e, r, past), m, pos, r, n, est)
  BY <1>3, <1>4, <1>6, PricedFacts
<1>8. PICK p : p = Priced(e, r, past)
  OBVIOUS
<1>9. /\ IsList(p, m) /\ m \in Nat /\ pos \in [1..m -> 1..n]
      /\ \A k \in 1..m : p[k].quote = r[pos[k]].quote
      /\ \A k \in 1..m : p[k].selection \in DOMAIN est /\ p[k].p = est[p[k].selection]
  BY <1>7, <1>8 DEF IsPriced, IsList
<1>10. ASSUME NEW k \in 1..m PROVE TypedOffer(p[k])
  <2>1. pos[k] \in 1..n /\ r[pos[k]].quote = quotes[pos[k]] /\ quotes[pos[k]] \in Quote
    BY <1>1, <1>9
  <2>2. p[k].p \in 0..Unit
    BY <1>4, <1>9
  <2> QED
    BY <1>9, <2>1, <2>2 DEF TypedOffer
<1> QED
  BY <1>8, <1>9, <1>10

LEMMA StakeFacts ==
  ASSUME NEW p \in 0..Unit, NEW q \in Quote, NEW money \in Nat
  PROVE  /\ SuggestStake(p, q, money) \in Nat
         /\ SuggestStake(p, q, money) * StakeDivisor <= money
<1>1. Unit \in Nat \ {0} /\ KellyDivisor \in Nat \ {0} /\ StakeDivisor \in Nat \ {0}
  BY ModelAssumption, RiskAssumption
<1>2. PICK odd \in Nat \ {0, 1} : odd = q.odds
  BY DEF Quote
<1>3. PICK gain \in Int : gain = p * odd
  BY <1>1
<1>4. PICK share \in Nat : share = KellyShare(p, q)
  BY <1>1, <1>2, <1>3 DEF KellyShare
<1>5. PICK top \in Nat : top = money * share
  BY <1>4
<1>6. PICK cost \in Nat \ {0} : cost = Unit * (odd - 1) * KellyDivisor
  <2>1. odd - 1 \in Nat /\ odd - 1 > 0
    BY <1>2
  <2>2. \A x, y \in Nat : x > 0 /\ y > 0 => x * y \in Nat /\ x * y > 0
    OBVIOUS
  <2>3. Unit * (odd - 1) \in Nat /\ Unit * (odd - 1) > 0
    BY <1>1, <2>1, <2>2
  <2>4. PICK x \in Nat : x > 0 /\ x = Unit * (odd - 1)
    BY <2>3
  <2>5. x * KellyDivisor \in Nat /\ x * KellyDivisor > 0
    BY <1>1, <2>2, <2>4
  <2> QED
    BY <2>4, <2>5
<1>7. top \div cost \in Nat
  BY <1>6
<1>8. PICK d \in Nat : d = StakeDivisor /\ d > 0
  BY <1>1
<1>9. PICK cap \in Nat : cap = money \div d /\ cap * d <= money
  BY <1>8
<1>10. PICK s \in Nat : s = SuggestStake(p, q, money) /\ (s = 0 \/ s <= cap)
  <2>1. SuggestStake(p, q, money) = IF money <= 0 THEN 0 ELSE Smaller(top \div cost, cap)
    BY <1>2, <1>4, <1>5, <1>6, <1>8, <1>9 DEF SuggestStake
  <2>2. PICK a \in Nat : a = top \div cost
    BY <1>7
  <2>3. Smaller(a, cap) \in Nat /\ Smaller(a, cap) <= cap
    BY DEF Smaller
  <2> QED
    BY <2>1, <2>2, <2>3
<1>11. s * d <= money
  <2>1. \A x, y \in Int : x <= y => x * d <= y * d
    BY <1>8
  <2> QED
    BY <1>8, <1>9, <1>10, <2>1
<1> QED
  BY <1>8, <1>10, <1>11

IsRecord(r) == r.stake \in Nat /\ r.profit \in Int /\ r.bankrollAfter \in Nat

\* What a replay works on, and what it has written.
ReplayInv ==
  /\ history \in Seq(CleanRow)
  /\ queue \in Seq(CleanRow)
  /\ \E V : current \in Seq(V) /\ \A x \in V : TypedOffer(x.offer)
  /\ bankroll \in Nat
  /\ \E R : records \in Seq(R) /\ \A r \in R : IsRecord(r)

LEMMA BetFacts ==
  ASSUME ReplayInv, current # <<>>
  PROVE  /\ StakeNow \in Nat /\ StakeNow * StakeDivisor <= bankroll
         /\ Offer.quote.odds \in Nat \ {0, 1}
<1>1. PICK V : current \in Seq(V) /\ \A x \in V : TypedOffer(x.offer)
  BY DEF ReplayInv
<1>2. Head(current) \in V
  BY <1>1
<1>3. TypedOffer(Offer)
  BY <1>1, <1>2 DEF Offer
<1>4. PICK q \in Quote, p \in 0..Unit : q = Offer.quote /\ p = Offer.p
  BY <1>3 DEF TypedOffer
<1>5. PICK money \in Nat : money = bankroll
  BY DEF ReplayInv
<1>6. SuggestStake(p, q, money) \in Nat /\ SuggestStake(p, q, money) * StakeDivisor <= money
  BY StakeFacts
<1>7. StakeNow = SuggestStake(p, q, money)
  BY <1>4, <1>5 DEF StakeNow
<1>8. q.odds \in Nat \ {0, 1}
  BY DEF Quote
<1> QED
  BY <1>4, <1>5, <1>6, <1>7, <1>8

LEMMA ProfitFacts ==
  ASSUME NEW money \in Nat, NEW stake \in Nat, stake * StakeDivisor <= money,
         NEW odd \in Nat \ {0, 1}, NEW won
  PROVE  Profit(stake, odd, won) \in Int /\ money + Profit(stake, odd, won) \in Nat
<1>1. PICK d \in Nat : d = StakeDivisor /\ d > 0
  BY RiskAssumption
<1>2. stake <= stake * d
  BY <1>1
<1>3. stake <= money
  <2>1. PICK x \in Int : x = stake * d
    BY <1>1
  <2> QED
    BY <1>1, <1>2, <2>1
<1>4. PICK gain \in Nat : gain = stake * (odd - 1)
  <2>1. odd - 1 \in Nat
    OBVIOUS
  <2> QED
    BY <2>1
<1>5. Profit(stake, odd, won) = gain \/ Profit(stake, odd, won) = -stake
  BY <1>4 DEF Profit
<1> QED
  BY <1>3, <1>4, <1>5

NewRecord == records'[Len(records) + 1]

\* The record that a bet appends.
LEMMA PlacedFacts ==
  ASSUME ReplayInv, PlaceBet
  PROVE  /\ \E r : records' = Append(records, r) /\ IsRecord(r)
         /\ NewRecord.stake >= 0 /\ NewRecord.stake * StakeDivisor <= bankroll
         /\ bankroll > 0
         /\ NewRecord.bankrollAfter = bankroll + NewRecord.profit
         /\ bankroll' = NewRecord.bankrollAfter /\ bankroll' \in Nat
<1>1. current # <<>> /\ bankroll > 0
  BY DEF PlaceBet, GetsStake
<1>2. PICK stake \in Nat, odd \in Nat \ {0, 1} :
        stake = StakeNow /\ odd = Offer.quote.odds /\ stake * StakeDivisor <= bankroll
  BY <1>1, BetFacts
<1>3. PICK won : won = Wins(Offer.selection, Head(current).event.result)
  OBVIOUS
<1>4. PICK profit : profit = Profit(stake, odd, won)
  OBVIOUS
<1>5. profit \in Int /\ bankroll + profit \in Nat
  BY <1>2, <1>4, ProfitFacts DEF ReplayInv
<1>6. PICK r : r = [bet |-> BetOn(SlotOf(Head(current).event, Offer), Offer.quote.odds, Offer.p),
                    stake |-> stake, won |-> won, profit |-> profit,
                    bankrollAfter |-> bankroll + profit]
  OBVIOUS
<1>7. records' = Append(records, r) /\ bankroll' = bankroll + profit
  BY <1>2, <1>3, <1>4, <1>6 DEF PlaceBet
<1>8. r.stake = stake /\ r.profit = profit /\ r.bankrollAfter = bankroll + profit
  BY <1>6
<1>9. NewRecord = r
  <2>1. PICK R : records \in Seq(R)
    BY DEF ReplayInv
  <2>2. Append(records, r)[Len(records) + 1] = r
    BY <2>1
  <2> QED
    BY <1>7, <2>2 DEF NewRecord
<1>10. IsRecord(r)
  BY <1>5, <1>8 DEF IsRecord
<1> QED
  BY <1>1, <1>2, <1>5, <1>7, <1>8, <1>9, <1>10

LEMMA OpenedType ==
  ASSUME ProvidersInv, ReplayInv, OpenEvent
  PROVE  \E V : current' \in Seq(V) /\ \A x \in V : TypedOffer(x.offer)
<1>1. PICK e \in CleanRow : e = Head(queue)
  BY DEF ReplayInv, OpenEvent
<1>2. PICK quotes \in Seq(Quote) : quotes = odds[e.id]
  BY ProviderAssumption DEF ProvidersInv, CleanRow
<1>3. PICK past \in Seq(CleanRow) : past = HistoryOf(e)
  BY SublistSeq DEF ReplayInv, HistoryOf
<1>4. PICK r : r = ReadRaw(quotes)
  OBVIOUS
<1>5. /\ DOMAIN r = DOMAIN quotes /\ r = [i \in DOMAIN r |-> r[i]]
      /\ \A i \in DOMAIN quotes : r[i].quote = quotes[i]
  BY <1>4 DEF ReadRaw
<1>6. PICK m \in Nat : /\ IsList(Priced(e, r, past), m)
                       /\ \A k \in 1..m : TypedOffer(Priced(e, r, past)[k])
  BY <1>5, PricedType
<1>7. PICK p : p = Priced(e, r, past)
  OBVIOUS
<1>8. DOMAIN p = 1..m /\ \A k \in 1..m : TypedOffer(p[k])
  BY <1>6, <1>7 DEF IsList
<1>9. current' = [k \in 1..m |-> [event |-> e, offer |-> p[k]]]
  BY <1>1, <1>2, <1>3, <1>4, <1>7, <1>8 DEF OpenEvent
<1>10. PICK V : V = {[event |-> e, offer |-> p[k]] : k \in 1..m}
  OBVIOUS
<1>11. current' \in [1..m -> V]
  BY <1>9, <1>10
<1>12. \A x \in V : TypedOffer(x.offer)
  BY <1>8, <1>10
<1>13. current' \in Seq(V)
  BY <1>11
<1> QED
  BY <1>12, <1>13

LEMMA ReplayStepInv == ProvidersInv /\ ReplayInv /\ [Next]_vars => ReplayInv'
<1> SUFFICES ASSUME ProvidersInv, ReplayInv, [Next]_vars PROVE ReplayInv'
  OBVIOUS
<1>1. CASE UNCHANGED replayVars
  BY <1>1 DEF ReplayInv, replayVars
<1>2. CASE StartReplay
  <2>1. PICK all \in Seq(CleanRow) : all = CleanEvents(listing)
    BY CleanType DEF ProvidersInv
  <2>2. PICK I : history' = all /\ queue' = Sublist(all, I) /\ current' = <<>>
                   /\ bankroll' = InitialBankroll /\ records' = <<>>
    BY <1>2, <2>1 DEF StartReplay
  <2>3. queue' \in Seq(CleanRow)
    BY <2>2, SublistSeq
  <2>4. /\ \E V : current' \in Seq(V) /\ \A x \in V : TypedOffer(x.offer)
        /\ \E R : records' \in Seq(R) /\ \A x \in R : IsRecord(x)
    <3>1. current' \in Seq({}) /\ records' \in Seq({})
      BY <2>2
    <3>2. (\A x \in {} : TypedOffer(x.offer)) /\ \A x \in {} : IsRecord(x)
      OBVIOUS
    <3> QED
      BY <3>1, <3>2
  <2>5. bankroll' \in Nat
    BY <2>2, BankrollAssumption
  <2> QED
    BY <2>2, <2>3, <2>4, <2>5, Zenon DEF ReplayInv
<1>3. CASE OpenEvent
  <2>1. \E V : current' \in Seq(V) /\ \A x \in V : TypedOffer(x.offer)
    BY <1>3, OpenedType
  <2>2. queue' \in Seq(CleanRow)
    BY <1>3 DEF OpenEvent, ReplayInv
  <2>3. history' = history /\ bankroll' = bankroll /\ records' = records
    BY <1>3 DEF OpenEvent
  <2>4. /\ history \in Seq(CleanRow) /\ bankroll \in Nat
        /\ \E R : records \in Seq(R) /\ \A x \in R : IsRecord(x)
    BY DEF ReplayInv
  <2>5. /\ history' \in Seq(CleanRow) /\ bankroll' \in Nat
        /\ \E R : records' \in Seq(R) /\ \A x \in R : IsRecord(x)
    BY <2>3, <2>4
  <2> QED
    BY <2>1, <2>2, <2>5, Zenon DEF ReplayInv
<1>4. ASSUME PassOver \/ PlaceBet
      PROVE  \E V : current' \in Seq(V) /\ \A x \in V : TypedOffer(x.offer)
  <2>1. PICK V : current \in Seq(V) /\ \A x \in V : TypedOffer(x.offer)
    BY DEF ReplayInv
  <2>2. current # <<>> /\ current' = Tail(current)
    BY <1>4 DEF PassOver, PlaceBet
  <2>3. current' \in Seq(V)
    BY <2>1, <2>2
  <2> QED
    BY <2>1, <2>3
<1>5. CASE PassOver
  <2>1. UNCHANGED <<history, queue, bankroll, records>>
    BY <1>5 DEF PassOver
  <2> QED
    BY <1>4, <1>5, <2>1 DEF ReplayInv
<1>6. CASE PlaceBet
  <2>1. PICK r : records' = Append(records, r) /\ IsRecord(r)
    BY <1>6, PlacedFacts
  <2>2. PICK R : records \in Seq(R) /\ \A x \in R : IsRecord(x)
    BY DEF ReplayInv
  <2>3. records' \in Seq(R \cup {r}) /\ \A x \in R \cup {r} : IsRecord(x)
    BY <2>1, <2>2
  <2>4. \E W : records' \in Seq(W) /\ \A x \in W : IsRecord(x)
    BY <2>3
  <2>5. bankroll' \in Nat
    BY <1>6, PlacedFacts
  <2>6. UNCHANGED <<history, queue>>
    BY <1>6 DEF PlaceBet
  <2> QED
    BY <1>4, <1>6, <2>4, <2>5, <2>6 DEF ReplayInv
<1>7. CASE EndReplay
  BY <1>7 DEF EndReplay, ReplayInv
<1> QED
  BY <1>1, <1>2, <1>3, <1>5, <1>6, <1>7 DEF Next, ReplayStep, vars

LEMMA ReplayInvariant == Spec => []ReplayInv
<1>1. Init => ReplayInv
  <2> SUFFICES ASSUME Init PROVE ReplayInv
    OBVIOUS
  <2>1. current \in Seq({}) /\ records \in Seq({}) /\ history = <<>> /\ queue = <<>>
    BY DEF Init
  <2>2. bankroll \in Nat
    BY BankrollAssumption DEF Init
  <2> QED
    BY <2>1, <2>2 DEF ReplayInv
<1> QED
  BY <1>1, ReplayStepInv, ProvidersInvariant, PTL DEF Spec

\* Records that reach: the bankroll is where the last one left it, each stakes a
\* share of what the one before it left.
Carried ==
  /\ bankroll = IF records = <<>> THEN InitialBankroll ELSE records[Len(records)].bankrollAfter
  /\ \A i \in DOMAIN records :
       /\ records[i].stake >= 0 /\ BankrollBefore(i) > 0
       /\ records[i].stake * StakeDivisor <= BankrollBefore(i)
       /\ records[i].bankrollAfter = BankrollBefore(i) + records[i].profit

LEMMA CarriedStep == ReplayInv /\ Carried /\ [Next]_vars => Carried'
<1> SUFFICES ASSUME ReplayInv, Carried, [Next]_vars PROVE Carried'
  OBVIOUS
<1>1. CASE UNCHANGED <<bankroll, records>>
  BY <1>1 DEF Carried, BankrollBefore
<1>2. CASE StartReplay
  <2>1. bankroll' = InitialBankroll /\ records' = <<>>
    BY <1>2 DEF StartReplay
  <2> QED
    BY <2>1 DEF Carried
<1>3. CASE PlaceBet
  <2>1. PICK r : records' = Append(records, r)
    BY <1>3, PlacedFacts
  <2>2. PICK n \in Nat : n = Len(records) /\ DOMAIN records = 1..n
    BY DEF ReplayInv
  <2>3. /\ DOMAIN records' = 1..(n + 1) /\ Len(records') = n + 1 /\ records' # <<>>
        /\ \A i \in 1..n : records'[i] = records[i]
    <3>1. PICK R : records \in Seq(R) /\ r \in R
      <4>1. PICK R0 : records \in Seq(R0)
        BY DEF ReplayInv
      <4>2. PICK R : R = R0 \cup {r}
        OBVIOUS
      <4>3. records \in Seq(R) /\ r \in R
        BY <4>1, <4>2
      <4> QED
        BY <4>3
    <3>2. PICK t : t = Append(records, r)
      OBVIOUS
    <3>3. t \in Seq(R) /\ Len(t) = n + 1 /\ \A i \in 1..n : t[i] = records[i]
      BY <2>2, <3>1, <3>2
    <3>4. DOMAIN t = 1..(n + 1) /\ t # <<>>
      BY <2>2, <3>3
    <3> QED
      BY <2>1, <3>2, <3>3, <3>4
  <2>4. NewRecord = records'[n + 1]
    BY <2>2 DEF NewRecord
  <2>5. bankroll' = records'[n + 1].bankrollAfter
    BY <1>3, <2>4, PlacedFacts
  <2>6. BankrollBefore(n + 1)' = bankroll
    <3>1. CASE n = 0
      <4>1. records = <<>>
        BY <2>2, <3>1 DEF ReplayInv
      <4> QED
        BY <3>1, <4>1 DEF BankrollBefore, Carried
    <3>2. CASE n # 0
      <4>1. records # <<>> /\ n + 1 # 1 /\ (n + 1) - 1 = n /\ n \in 1..n
        BY <2>2, <3>2
      <4> QED
        BY <2>2, <2>3, <4>1 DEF BankrollBefore, Carried
    <3> QED
      BY <3>1, <3>2
  <2>7. \A i \in 1..n : BankrollBefore(i)' = BankrollBefore(i)
    <3> TAKE i \in 1..n
    <3>1. i # 1 => i - 1 \in 1..n
      OBVIOUS
    <3> QED
      BY <2>3, <3>1 DEF BankrollBefore
  <2>8. ASSUME NEW i \in 1..(n + 1)
        PROVE  /\ records'[i].stake >= 0 /\ BankrollBefore(i)' > 0
               /\ records'[i].stake * StakeDivisor <= BankrollBefore(i)'
               /\ records'[i].bankrollAfter = BankrollBefore(i)' + records'[i].profit
    <3>1. CASE i = n + 1
      BY <1>3, <2>4, <2>6, <3>1, PlacedFacts
    <3>2. CASE i # n + 1
      <4>1. i \in 1..n
        BY <3>2
      <4> QED
        BY <2>2, <2>3, <2>7, <4>1 DEF Carried
    <3> QED
      BY <3>1, <3>2
  <2> QED
    BY <2>3, <2>5, <2>8 DEF Carried
<1> QED
  BY <1>1, <1>2, <1>3 DEF Next, ReplayStep, OpenEvent, PassOver, EndReplay, replayVars, vars

LEMMA CarriedAlways == Spec => []Carried
<1>1. Init => Carried
  BY DEF Init, Carried
<1> QED
  BY <1>1, CarriedStep, ReplayInvariant, PTL DEF Spec

\* No bet of a replay stakes more than its share of what the bets before it
\* left, none is placed on a lost one, and it is carried and never negative
\* (engine.py:125, bankroll.py:7), for every list, quotes, model and divisor.
THEOREM StakesStayWithin == Spec => []StakesStayWithinTheLimit
<1>1. ReplayInv /\ Carried => StakesStayWithinTheLimit
  BY DEF ReplayInv, Carried, StakesStayWithinTheLimit
<1> QED
  BY <1>1, CarriedAlways, ReplayInvariant, PTL

-----------------------------------------------------------------------------
(* What a pass reports.                                                    *)

QuotedSlot(e, q) ==
  [event |-> e.id, market |-> Normal(q.market), selection |-> Normal(q.selection),
   bookmaker |-> Normal(q.bookmaker)]

SameMarket(q, r) ==
  q.market = r.market /\ Normal(q.bookmaker) = Normal(r.bookmaker)
    /\ Normal(q.selection) = Normal(r.selection)

\* The reports of one event: report k is about the quote at pos[k], and each
\* selection that is quoted and estimated is reported once per market.
AreReports(reports, m, pos, quotes, n, e, est) ==
  /\ IsList(reports, m) /\ pos \in [1..m -> 1..n]
  /\ \A k \in 1..m : /\ reports[k].slot = QuotedSlot(e, quotes[pos[k]])
                     /\ reports[k].odds = quotes[pos[k]].odds
                     /\ reports[k].at = quotes[pos[k]].at
                     /\ reports[k].p \in 0..Unit
                     /\ Normal(quotes[pos[k]].selection) \in DOMAIN est
                     /\ \/ reports[k].kind = "candidate" /\ reports[k].odds <= MaxOdds
                        \/ reports[k].kind = "non_qualifying"
  /\ \A k, l \in 1..m : SameMarket(quotes[pos[k]], quotes[pos[l]]) => k = l
  /\ \A i \in 1..n : Normal(quotes[i].selection) \in DOMAIN est
                       => \E k \in 1..m : SameMarket(quotes[pos[k]], quotes[i])

LEMMA ReportFacts ==
  ASSUME ProvidersInv, NEW e \in CleanRow, NEW events \in Seq(CleanRow),
         NEW n \in Nat, NEW quotes \in [1..n -> Quote], quotes = odds[e.id],
         NEW est, est = Estimates(BuildFeatures(e, events))
  PROVE  \E m, pos : AreReports(ReportsOf(e, events), m, pos, quotes, n, e, est)
<1>1. PICK l \in Nat : events \in [1..l -> CleanRow]
  OBVIOUS
<1>2. DOMAIN est \subseteq {"home", "draw", "away"} /\ \A s \in DOMAIN est : est[s] \in 0..Unit
  BY <1>1, EstimatesType
<1>3. PICK r : r = ReadQuotes(quotes)
  OBVIOUS
<1>4. r = [i \in 1..n |-> [quote |-> quotes[i], group |-> MarketKey(quotes[i]),
                           selection |-> Names(quotes[i].selection)]]
  BY <1>3 DEF ReadQuotes
<1>5. \A i \in 1..n : /\ r[i].quote = quotes[i]
                      /\ r[i].group = <<quotes[i].market, Normal(quotes[i].bookmaker)>>
                      /\ r[i].selection = Normal(quotes[i].selection)
  BY <1>4 DEF MarketKey, Names
<1>6. PICK S : S = {r[i] : i \in 1..n}
  OBVIOUS
<1>7. r \in [1..n -> S]
  BY <1>4, <1>6
<1>8. PICK m, pos : IsPriced(Priced(e, r, events), m, pos, r, n, est)
  BY <1>2, <1>7, PricedFacts
<1>9. PICK p : p = Priced(e, r, events)
  OBVIOUS
<1>10. /\ DOMAIN p = 1..m /\ m \in Nat /\ pos \in [1..m -> 1..n]
       /\ \A k \in 1..m : p[k].quote = r[pos[k]].quote /\ p[k].selection = r[pos[k]].selection
       /\ \A k \in 1..m : p[k].selection \in DOMAIN est /\ p[k].p = est[p[k].selection]
       /\ \A k, j \in 1..m : /\ r[pos[k]].group = r[pos[j]].group
                             /\ r[pos[k]].selection = r[pos[j]].selection
                             => k = j
       /\ \A i \in 1..n : r[i].selection \in DOMAIN est
            => \E k \in 1..m : /\ r[pos[k]].group = r[i].group
                               /\ r[pos[k]].selection = r[i].selection
  BY <1>8, <1>9 DEF IsPriced, IsList
<1>11. PICK reports : reports = [k \in 1..m |-> Report(e, p[k])]
  OBVIOUS
<1>12. ReportsOf(e, events) = reports
  BY <1>3, <1>9, <1>10, <1>11 DEF ReportsOf
<1>13. ASSUME NEW k \in 1..m
       PROVE  /\ reports[k].slot = QuotedSlot(e, quotes[pos[k]])
              /\ reports[k].odds = quotes[pos[k]].odds
              /\ reports[k].at = quotes[pos[k]].at
              /\ reports[k].p \in 0..Unit
              /\ Normal(quotes[pos[k]].selection) \in DOMAIN est
              /\ \/ reports[k].kind = "candidate" /\ reports[k].odds <= MaxOdds
                 \/ reports[k].kind = "non_qualifying"
  <2>1. PICK q : q = quotes[pos[k]] /\ pos[k] \in 1..n
    BY <1>10
  <2>2. p[k].quote = q /\ p[k].selection = Normal(q.selection)
    BY <1>5, <1>10, <2>1
  <2>3. p[k].selection \in DOMAIN est /\ p[k].p \in 0..Unit
    BY <1>2, <1>10
  <2>4. reports[k] = Report(e, p[k])
    BY <1>11
  <2>5. /\ reports[k].slot = SlotOf(e, p[k]) /\ reports[k].odds = q.odds
        /\ reports[k].at = q.at /\ reports[k].p = p[k].p
        /\ reports[k].kind = IF Passes(p[k].p, q, p[k].market) THEN "candidate"
                                                               ELSE "non_qualifying"
    BY <2>2, <2>4 DEF Report
  <2>6. SlotOf(e, p[k]) = QuotedSlot(e, q)
    BY <2>2 DEF SlotOf, QuotedSlot
  <2>7. Passes(p[k].p, q, p[k].market) => q.odds <= MaxOdds
    BY DEF Passes
  <2>8. \/ reports[k].kind = "candidate" /\ reports[k].odds <= MaxOdds
        \/ reports[k].kind = "non_qualifying"
    BY <2>5, <2>7, Zenon
  <2> QED
    BY <2>1, <2>2, <2>3, <2>5, <2>6, <2>8
<1>14. ASSUME NEW k \in 1..m, NEW j \in 1..m, SameMarket(quotes[pos[k]], quotes[pos[j]])
       PROVE  k = j
  <2>1. pos[k] \in 1..n /\ pos[j] \in 1..n
    BY <1>10
  <2>2. r[pos[k]].group = r[pos[j]].group /\ r[pos[k]].selection = r[pos[j]].selection
    <3>1. PICK q, s : q = quotes[pos[k]] /\ s = quotes[pos[j]]
      OBVIOUS
    <3>2. /\ q.market = s.market /\ Normal(q.bookmaker) = Normal(s.bookmaker)
          /\ Normal(q.selection) = Normal(s.selection)
      BY <1>14, <3>1 DEF SameMarket
    <3>3. /\ r[pos[k]].group = <<q.market, Normal(q.bookmaker)>>
          /\ r[pos[j]].group = <<s.market, Normal(s.bookmaker)>>
          /\ r[pos[k]].selection = Normal(q.selection)
          /\ r[pos[j]].selection = Normal(s.selection)
      BY <1>5, <2>1, <3>1
    <3> QED
      BY <3>2, <3>3
  <2> QED
    BY <1>10, <2>2
<1>15. ASSUME NEW i \in 1..n, Normal(quotes[i].selection) \in DOMAIN est
       PROVE  \E k \in 1..m : SameMarket(quotes[pos[k]], quotes[i])
  <2>1. r[i].selection \in DOMAIN est
    BY <1>5, <1>15
  <2>2. PICK k \in 1..m : r[pos[k]].group = r[i].group /\ r[pos[k]].selection = r[i].selection
    BY <1>10, <2>1
  <2>3. pos[k] \in 1..n
    BY <1>10
  <2>4. SameMarket(quotes[pos[k]], quotes[i])
    BY <1>5, <2>2, <2>3 DEF SameMarket
  <2> QED
    BY <2>4
<1>16. IsList(reports, m)
  BY <1>10, <1>11 DEF IsList
<1>17. AreReports(reports, m, pos, quotes, n, e, est)
  BY <1>10, <1>13, <1>14, <1>15, <1>16 DEF AreReports
<1> QED
  BY <1>12, <1>17

LEMMA TargetsType ==
  ASSUME ProvidersInv, NEW events, events = CleanEvents(listing)
  PROVE  /\ events \in Seq(CleanRow) /\ Targets(events) \in Seq(CleanRow)
         /\ \A e \in ToSet(Targets(events)) : e \in CleanRow
<1>1. events \in Seq(CleanRow)
  BY CleanType DEF ProvidersInv
<1>2. Targets(events) \in Seq(CleanRow)
  BY <1>1, SublistSeq DEF Targets
<1> QED
  BY <1>1, <1>2 DEF ToSet

\* The slots a pass reports of an event are those that somebody quotes and the
\* model has an estimate for, whatever the spelling (opportunity_service.py:50),
\* for every list, quotes and model.
THEOREM AllQuotedSlotsAreReported == Spec => []QuotedSlotsAreReported
<1>1. ASSUME ProvidersInv, NEW events, events = CleanEvents(listing),
             NEW e \in ToSet(Targets(events)),
             NEW est, est = Estimates(BuildFeatures(e, events))
      PROVE  {r.slot : r \in ToSet(ReportsOf(e, events))} =
               {QuotedSlot(e, q) :
                  q \in {q \in ToSet(odds[e.id]) : Normal(q.selection) \in DOMAIN est}}
  <2>1. e \in CleanRow /\ events \in Seq(CleanRow)
    BY <1>1, TargetsType
  <2>2. odds[e.id] \in Seq(Quote)
    BY <1>1, <2>1, ProviderAssumption DEF ProvidersInv, CleanRow
  <2>3. PICK quotes : quotes = odds[e.id] /\ quotes \in Seq(Quote)
    BY <2>2
  <2>n. PICK n \in Nat : quotes \in [1..n -> Quote] /\ DOMAIN quotes = 1..n
    BY <2>3
  <2>4. PICK m, pos : AreReports(ReportsOf(e, events), m, pos, quotes, n, e, est)
    BY <1>1, <2>1, <2>3, <2>n, ReportFacts
  <2>5. PICK reports : reports = ReportsOf(e, events)
    OBVIOUS
  <2>6. /\ DOMAIN reports = 1..m /\ pos \in [1..m -> 1..n]
        /\ \A k \in 1..m : /\ reports[k].slot = QuotedSlot(e, quotes[pos[k]])
                           /\ Normal(quotes[pos[k]].selection) \in DOMAIN est
        /\ \A i \in 1..n : Normal(quotes[i].selection) \in DOMAIN est
                             => \E k \in 1..m : SameMarket(quotes[pos[k]], quotes[i])
    BY <2>4, <2>5 DEF AreReports, IsList
  <2>7. \A q, r : SameMarket(q, r) => QuotedSlot(e, q) = QuotedSlot(e, r)
    BY DEF SameMarket, QuotedSlot
  <2>8. PICK Said : Said = {reports[k].slot : k \in 1..m}
    OBVIOUS
  <2>9. PICK Due : Due = {QuotedSlot(e, q) :
                 q \in {q \in {quotes[i] : i \in 1..n} : Normal(q.selection) \in DOMAIN est}}
    OBVIOUS
  <2>10. \A s \in Said : s \in Due
    BY <2>6, <2>8, <2>9
  <2>11. ASSUME NEW s \in Due PROVE s \in Said
    <3>1. PICK i \in 1..n : s = QuotedSlot(e, quotes[i]) /\ Normal(quotes[i].selection) \in DOMAIN est
      BY <2>9
    <3>2. PICK k \in 1..m : SameMarket(quotes[pos[k]], quotes[i])
      BY <2>6, <3>1
    <3>3. reports[k].slot = s
      BY <2>6, <2>7, <3>1, <3>2
    <3> QED
      BY <2>8, <3>3
  <2>12. Said = Due
    BY <2>10, <2>11
  <2>13. ToSet(reports) = {reports[k] : k \in 1..m} /\ ToSet(quotes) = {quotes[i] : i \in 1..n}
    BY <2>n, <2>6 DEF ToSet
  <2>14. {r.slot : r \in ToSet(reports)} = Said
    BY <2>8, <2>13
  <2> QED
    BY <2>3, <2>5, <2>9, <2>12, <2>13, <2>14
<1>2. ProvidersInv => QuotedSlotsAreReported
  BY <1>1 DEF QuotedSlotsAreReported, QuotedSlot
<1> QED
  BY <1>2, ProvidersInvariant, PTL

LEMMA IdsDiffer ==
  ASSUME NEW list \in Seq(EventRow), NEW events, events = CleanEvents(list)
  PROVE  \A k, l \in DOMAIN events : events[k].id = events[l].id => k = l
<1>1. PICK n \in Nat : list \in [1..n -> EventRow]
  OBVIOUS
<1>2. PICK m, pos : CleanedAlike(list, list, pos, m, n)
  <2>1. \A i \in 1..n : list[i].id = list[i].id /\ list[i].start = list[i].start
    OBVIOUS
  <2> QED
    BY <1>1, <2>1, CleanPositions
<1>3. /\ pos \in [1..m -> 1..n] /\ events = [k \in 1..m |-> Cleaned(list[pos[k]])]
      /\ \A k \in 1..m : pos[k] \in FirstListed(list, n)
      /\ \A k, l \in 1..m : pos[k] = pos[l] => k = l
  BY <1>2 DEF CleanedAlike, Positions
<1>4. ASSUME NEW k \in 1..m, NEW l \in 1..m, events[k].id = events[l].id PROVE k = l
  <2>1. pos[k] \in 1..n /\ pos[l] \in 1..n
    BY <1>3
  <2>2. events[k].id = list[pos[k]].id /\ events[l].id = list[pos[l]].id
    BY <1>1, <1>3, <2>1, CleanedFacts
  <2>3. ~(pos[k] < pos[l]) /\ ~(pos[l] < pos[k])
    BY <1>3, <1>4, <2>1, <2>2 DEF FirstListed
  <2> QED
    BY <1>3, <2>1, <2>3
<1> QED
  BY <1>3, <1>4

LEMMA TargetIds ==
  ASSUME ProvidersInv, NEW events, events = CleanEvents(listing),
         NEW target, target = Targets(events)
  PROVE  \A k, l \in DOMAIN target : target[k].id = target[l].id => k = l
<1>1. events \in Seq(CleanRow)
  BY TargetsType
<1>2. PICK n \in Nat : events \in [1..n -> CleanRow]
  BY <1>1
<1>3. PICK S, I : S = CleanRow /\ I = {i \in DOMAIN events : events[i].status = "scheduled"}
  OBVIOUS
<1>4. PICK m, pos : TakenIn(S, Sublist(events, I), pos, m, n, I, events)
  BY <1>2, <1>3, SublistType
<1>5. target = Sublist(events, I)
  BY <1>3 DEF Targets
<1>6. /\ pos \in [1..m -> 1..n] /\ DOMAIN target = 1..m
      /\ \A k \in 1..m : target[k] = events[pos[k]]
      /\ \A k, l \in 1..m : pos[k] = pos[l] => k = l
  BY <1>4, <1>5 DEF TakenIn, Positions
<1>7. \A k, l \in 1..n : events[k].id = events[l].id => k = l
  BY <1>2, IdsDiffer DEF ProvidersInv
<1>8. ASSUME NEW k \in 1..m, NEW l \in 1..m, target[k].id = target[l].id PROVE k = l
  <2>1. pos[k] \in 1..n /\ pos[l] \in 1..n /\ events[pos[k]].id = events[pos[l]].id
    BY <1>6, <1>8
  <2> QED
    BY <1>6, <1>7, <2>1
<1> QED
  BY <1>6, <1>8

\* All the reports of a pass: report k is about the quote quote[k] of the event
\* target[from[k]].
AreAllReports(reports, m, from, quote, target) ==
  /\ IsList(reports, m) /\ from \in [1..m -> DOMAIN target]
  /\ \A k \in 1..m : /\ quote[k] \in Quote
                     /\ \E i \in DOMAIN odds[target[from[k]].id] :
                          odds[target[from[k]].id][i] = quote[k]
                     /\ reports[k].slot = QuotedSlot(target[from[k]], quote[k])
                     /\ reports[k].odds = quote[k].odds
                     /\ reports[k].at = quote[k].at
                     /\ reports[k].p \in 0..Unit
                     /\ \/ reports[k].kind = "candidate" /\ reports[k].odds <= MaxOdds
                        \/ reports[k].kind = "non_qualifying"
  /\ \A k, l \in 1..m : from[k] = from[l] /\ SameMarket(quote[k], quote[l]) => k = l

LEMMA AllReportFacts ==
  ASSUME ProvidersInv, NEW events, events = CleanEvents(listing)
  PROVE  \E m, from, quote : AreAllReports(Reports(events), m, from, quote, Targets(events))
<1>1. PICK target : target = Targets(events)
  OBVIOUS
<1>2. events \in Seq(CleanRow) /\ target \in Seq(CleanRow)
  BY <1>1, TargetsType
<1>3. PICK t \in Nat : target \in [1..t -> CleanRow] /\ DOMAIN target = 1..t
  BY <1>2
<1>4. PICK f : f = [g \in 1..t |-> ReportsOf(target[g], events)]
  OBVIOUS
<1>5. PICK reports : reports = FlattenSeq(f) /\ reports = Reports(events)
  <2>1. Reports(events) = FlattenSeq([k \in DOMAIN target |-> ReportsOf(target[k], events)])
    BY <1>1 DEF Reports
  <2> QED
    BY <1>3, <1>4, <2>1
<1>6. PICK book : book = [g \in 1..t |-> odds[target[g].id]]
  OBVIOUS
<1>7. PICK est : est = [g \in 1..t |-> Estimates(BuildFeatures(target[g], events))]
  OBVIOUS
<1>8. ASSUME NEW g \in 1..t
      PROVE  book[g] \in Seq(Quote) /\ Len(f[g]) \in Nat
               /\ \E pos : AreReports(f[g], Len(f[g]), pos, book[g], Len(book[g]), target[g], est[g])
  <2>1. PICK e \in CleanRow : e = target[g]
    BY <1>3
  <2>2. odds[e.id] \in Seq(Quote)
    BY ProviderAssumption DEF ProvidersInv, CleanRow
  <2>3. PICK quotes : quotes = odds[e.id] /\ quotes \in Seq(Quote)
    BY <2>2
  <2>4. PICK n \in Nat : n = Len(quotes) /\ quotes \in [1..n -> Quote]
    BY <2>3
  <2>5. PICK m, pos : AreReports(ReportsOf(e, events), m, pos, quotes, n, e,
                                 Estimates(BuildFeatures(e, events)))
    BY <1>2, <2>3, <2>4, ReportFacts
  <2>6. PICK q : q = ReportsOf(e, events)
    OBVIOUS
  <2>7. m \in Nat /\ q = [k \in 1..m |-> q[k]]
    BY <2>5, <2>6 DEF AreReports, IsList
  <2>8. Len(q) = m
    BY <2>7
  <2>9. f[g] = q /\ book[g] = quotes /\ est[g] = Estimates(BuildFeatures(e, events))
    BY <1>4, <1>6, <1>7, <2>1, <2>3, <2>6
  <2> QED
    BY <2>1, <2>3, <2>4, <2>5, <2>6, <2>7, <2>8, <2>9
<1>9. PICK P : P = [g \in 1..t |-> CHOOSE pos :
                       AreReports(f[g], Len(f[g]), pos, book[g], Len(book[g]), target[g], est[g])]
  OBVIOUS
<1>10. ASSUME NEW g \in 1..t
       PROVE  AreReports(f[g], Len(f[g]), P[g], book[g], Len(book[g]), target[g], est[g])
  BY <1>8, <1>9
<1>11. CASE t = 0
  <2>1. f \in [1..0 -> {}]
    BY <1>4, <1>11
  <2>2. reports = <<>>
    BY <1>5, <2>1, NothingToJoin
  <2>3. PICK from : from = [k \in 1..0 |-> k]
    OBVIOUS
  <2>4. IsList(reports, 0) /\ from \in [1..0 -> DOMAIN target]
    BY <2>2, <2>3 DEF IsList
  <2>5. \A k \in 1..0 : FALSE
    OBVIOUS
  <2>6. AreAllReports(reports, 0, from, from, target)
    BY <2>4, <2>5 DEF AreAllReports
  <2> QED
    BY <1>1, <1>5, <2>6
<1>12. CASE t # 0
  <2>1. PICK V : V = {f[x[1]][x[2]] : x \in (1..t) \X Nat}
    OBVIOUS
  <2>2. \A g \in 1..t : f[g] \in Seq(V)
    <3> TAKE g \in 1..t
    <3>1. PICK m \in Nat : m = Len(f[g]) /\ f[g] = [k \in 1..m |-> f[g][k]]
      BY <1>8, <1>10 DEF AreReports, IsList
    <3>2. \A k \in 1..m : f[g][k] \in V
      <4> TAKE k \in 1..m
      <4>1. <<g, k>> \in (1..t) \X Nat
        OBVIOUS
      <4> QED
        BY <2>1, <4>1
    <3>3. f[g] \in [1..m -> V]
      BY <3>1, <3>2
    <3> QED
      BY <3>3
  <2>3. f \in [1..t -> Seq(V)] /\ t \in Nat \ {0}
    BY <1>4, <1>12, <2>2
  <2>4. PICK m, from, at : Origin(from, at, m, f, t) /\ Joined(FlattenSeq(f), V, from, at, m, f)
    BY <2>3, CommonOrigin
  <2>5. /\ m \in Nat /\ from \in [1..m -> 1..t] /\ at \in [1..m -> Nat]
        /\ \A k \in 1..m : at[k] \in 1..Len(f[from[k]])
        /\ \A k, l \in 1..m : from[k] = from[l] /\ at[k] = at[l] => k = l
        /\ reports \in [1..m -> V] /\ \A k \in 1..m : reports[k] = f[from[k]][at[k]]
    BY <1>5, <2>4 DEF Origin, Joined
  <2>6. PICK quote : quote = [k \in 1..m |-> book[from[k]][P[from[k]][at[k]]]]
    OBVIOUS
  <2>7. ASSUME NEW k \in 1..m
        PROVE  /\ quote[k] \in Quote
               /\ \E i \in DOMAIN odds[target[from[k]].id] : odds[target[from[k]].id][i] = quote[k]
               /\ reports[k].slot = QuotedSlot(target[from[k]], quote[k])
               /\ reports[k].odds = quote[k].odds
               /\ reports[k].at = quote[k].at
               /\ reports[k].p \in 0..Unit
               /\ \/ reports[k].kind = "candidate" /\ reports[k].odds <= MaxOdds
                  \/ reports[k].kind = "non_qualifying"
    <3>1. PICK g, j, r : g = from[k] /\ j = at[k] /\ r = reports[k]
      OBVIOUS
    <3>2. g \in 1..t /\ j \in 1..Len(f[g]) /\ r = f[g][j]
      BY <2>5, <3>1
    <3>3. AreReports(f[g], Len(f[g]), P[g], book[g], Len(book[g]), target[g], est[g])
      BY <1>10, <3>2
    <3>4. PICK q : q = book[g][P[g][j]] /\ q = quote[k]
      BY <2>6, <3>1
    <3>5. /\ P[g][j] \in 1..Len(book[g])
          /\ r.slot = QuotedSlot(target[g], q) /\ r.odds = q.odds /\ r.at = q.at /\ r.p \in 0..Unit
          /\ \/ r.kind = "candidate" /\ r.odds <= MaxOdds
             \/ r.kind = "non_qualifying"
      BY <3>2, <3>3, <3>4 DEF AreReports
    <3>6. book[g] \in Seq(Quote) /\ book[g] = odds[target[g].id]
      BY <1>6, <1>8, <3>2
    <3>7. q \in Quote /\ P[g][j] \in DOMAIN book[g]
      <4>1. PICK b \in Seq(Quote) : b = book[g]
        BY <3>6
      <4>2. PICK i : i = P[g][j]
        OBVIOUS
      <4>3. i \in 1..Len(b) /\ q = b[i]
        BY <3>4, <3>5, <4>1, <4>2
      <4>4. i \in DOMAIN b /\ b[i] \in Quote
        BY <4>3
      <4> QED
        BY <4>1, <4>2, <4>3, <4>4
    <3> QED
      BY <3>1, <3>4, <3>5, <3>6, <3>7
  <2>8. ASSUME NEW k \in 1..m, NEW l \in 1..m, from[k] = from[l], SameMarket(quote[k], quote[l])
        PROVE  k = l
    <3>1. PICK g : g = from[k] /\ g = from[l] /\ g \in 1..t
      BY <2>5, <2>8
    <3>2. at[k] \in 1..Len(f[g]) /\ at[l] \in 1..Len(f[g])
      BY <2>5, <3>1
    <3>3. AreReports(f[g], Len(f[g]), P[g], book[g], Len(book[g]), target[g], est[g])
      BY <1>10, <3>1
    <3>4. SameMarket(book[g][P[g][at[k]]], book[g][P[g][at[l]]])
      BY <2>6, <2>8, <3>1
    <3>5. at[k] = at[l]
      BY <3>2, <3>3, <3>4 DEF AreReports
    <3> QED
      BY <2>5, <2>8, <3>5
  <2>9. IsList(reports, m) /\ from \in [1..m -> DOMAIN target]
    BY <1>3, <2>5 DEF IsList
  <2>10. AreAllReports(reports, m, from, quote, target)
    BY <2>7, <2>8, <2>9 DEF AreAllReports
  <2> QED
    BY <1>1, <1>5, <2>10
<1> QED
  BY <1>11, <1>12

LEMMA EvaluatedFacts ==
  ASSUME ProvidersInv, NEW events, events = CleanEvents(listing), NEW id \in Events
  PROVE  /\ Evaluated(events)[id] \in 0..MaxTime
         /\ (\E e \in ToSet(Targets(events)) : e.id = id)
              => /\ Evaluated(events)[id] \in 1..MaxTime
                 /\ \A i \in DOMAIN odds[id] : odds[id][i].at <= Evaluated(events)[id]
<1>1. PICK Known : Known = ToSet(Targets(events))
  OBVIOUS
<1>2. Evaluated(events)[id] = IF \E e \in Known : e.id = id
                                THEN EvaluatedAt(CHOOSE e \in Known : e.id = id)
                                ELSE 0
  BY <1>1 DEF Evaluated
<1>3. MaxTime \in Nat
  BY ProviderAssumption
<1>4. CASE ~\E e \in Known : e.id = id
  BY <1>1, <1>2, <1>3, <1>4
<1>5. CASE \E e \in Known : e.id = id
  <2>1. PICK e : e.id = id /\ Evaluated(events)[id] = EvaluatedAt(e)
    BY <1>2, <1>5
  <2>2. PICK quotes \in Seq(Quote) : quotes = odds[id]
    BY ProviderAssumption DEF ProvidersInv
  <2>3. PICK n \in Nat : quotes \in [1..n -> Quote] /\ DOMAIN quotes = 1..n
    BY <2>2
  <2>4. CASE quotes = <<>>
    <3>1. EvaluatedAt(e) = now
      BY <2>1, <2>2, <2>4 DEF EvaluatedAt
    <3>2. DOMAIN quotes = {}
      BY <2>4
    <3> QED
      BY <1>1, <2>1, <2>2, <3>1, <3>2, <1>3 DEF ProvidersInv
  <2>5. CASE quotes # <<>>
    <3>1. PICK T : T = {quotes[i].at : i \in 1..n}
      OBVIOUS
    <3>2. \A i \in 1..n : quotes[i].at \in 1..MaxTime
      BY <2>3 DEF Quote
    <3>3. n # 0
      BY <2>2, <2>3, <2>5
    <3>4. T \in SUBSET (0..MaxTime) /\ T # {}
      BY <1>3, <2>3, <3>1, <3>2, <3>3
    <3>5. Max(T) \in T /\ \A m \in T : m <= Max(T)
      BY <1>3, <3>4, LargestNumber
    <3>6. EvaluatedAt(e) = Max(T)
      BY <2>1, <2>2, <2>3, <2>5, <3>1 DEF EvaluatedAt
    <3>7. Max(T) \in 1..MaxTime /\ \A i \in 1..n : quotes[i].at <= Max(T)
      BY <3>1, <3>2, <3>5
    <3> QED
      BY <1>1, <1>3, <2>1, <2>2, <2>3, <3>6, <3>7
  <2> QED
    BY <2>4, <2>5
<1> QED
  BY <1>4, <1>5

LEMMA OneReportPerSlot ==
  ASSUME ProvidersInv, PlainMarkets, NEW events, events = CleanEvents(listing),
         NEW m, NEW from, NEW quote, NEW reports, reports = Reports(events),
         AreAllReports(reports, m, from, quote, Targets(events))
  PROVE  \A i, j \in DOMAIN reports : reports[i].slot = reports[j].slot => i = j
<1>1. PICK target : target = Targets(events)
  OBVIOUS
<1>2. DOMAIN reports = 1..m /\ from \in [1..m -> DOMAIN target]
  BY <1>1 DEF AreAllReports, IsList
<1>3. SUFFICES ASSUME NEW i \in 1..m, NEW j \in 1..m, reports[i].slot = reports[j].slot
               PROVE  i = j
  BY <1>2
<1>4. PICK e, d, q, r : e = target[from[i]] /\ d = target[from[j]] /\ q = quote[i] /\ r = quote[j]
  OBVIOUS
<1>5. QuotedSlot(e, q) = QuotedSlot(d, r)
  BY <1>1, <1>3, <1>4 DEF AreAllReports
<1>6. /\ e.id = d.id /\ Normal(q.market) = Normal(r.market)
      /\ Normal(q.selection) = Normal(r.selection) /\ Normal(q.bookmaker) = Normal(r.bookmaker)
  BY <1>5 DEF QuotedSlot
<1>7. from[i] = from[j]
  <2>1. \A k, l \in DOMAIN target : target[k].id = target[l].id => k = l
    BY <1>1, TargetIds
  <2> QED
    BY <1>2, <1>4, <1>6, <2>1
<1>8. q.market = r.market
  <2>1. (\E k \in DOMAIN odds[e.id] : odds[e.id][k] = q) /\ \E k \in DOMAIN odds[e.id] : odds[e.id][k] = r
    BY <1>1, <1>4, <1>7 DEF AreAllReports
  <2>2. e.id \in Events
    <3>1. target \in Seq(CleanRow)
      BY <1>1, TargetsType
    <3>2. e \in CleanRow
      BY <1>2, <1>4, <3>1
    <3> QED
      BY <3>2 DEF CleanRow
  <2> QED
    BY <1>6, <2>1, <2>2 DEF PlainMarkets
<1>9. SameMarket(q, r)
  BY <1>6, <1>8 DEF SameMarket
<1> QED
  BY <1>4, <1>7, <1>9 DEF AreAllReports

LEMMA ItemsAreAccepted ==
  ASSUME ProvidersInv, NEW events, events = CleanEvents(listing), NEW s \in Slots
  PROVE  /\ AsObservation(events).items[s] \in Life!Item
         /\ AsObservation(events).items[s].at <= Evaluated(events)[s.event]
<1>1. PICK reports, target : reports = Reports(events) /\ target = Targets(events)
  OBVIOUS
<1>2. PICK m, from, quote : AreAllReports(reports, m, from, quote, target)
  BY <1>1, AllReportFacts
<1>3. m \in Nat /\ DOMAIN reports = 1..m /\ from \in [1..m -> DOMAIN target]
  BY <1>2 DEF AreAllReports, IsList
<1>4. PICK About : About = {i \in DOMAIN reports : reports[i].slot = s}
  OBVIOUS
<1>5. PICK ItemFor : ItemFor = [i \in 1..m |->
        [kind |-> reports[i].kind, at |-> reports[i].at,
         decision |-> IF reports[i].kind = "candidate"
                        THEN [odds |-> reports[i].odds, p |-> reports[i].p] ELSE "none"]]
  OBVIOUS
<1>6. PICK item : item = AsObservation(events).items[s]
  OBVIOUS
<1>7. s.event \in Events
  BY DEF Slots
<1>8. CASE About = {}
  <2>1. item = Life!AbsentItem
    BY <1>1, <1>4, <1>6, <1>8 DEF AsObservation
  <2>2. item \in Life!Item /\ item.at = 0
    BY <2>1 DEF Life!Item, Life!AbsentItem
  <2>3. 0 <= Evaluated(events)[s.event]
    BY <1>7, EvaluatedFacts, ProviderAssumption
  <2> QED
    BY <1>6, <2>2, <2>3
<1>9. CASE About # {}
  <2>1. About \in SUBSET (0..m)
    BY <1>3, <1>4
  <2>2. PICK i \in 1..m : i = Max(About) /\ reports[i].slot = s
    <3>1. Max(About) \in About
      BY <1>3, <1>9, <2>1, LargestNumber
    <3> QED
      BY <1>3, <1>4, <3>1
  <2>3. item = [kind |-> reports[i].kind, at |-> reports[i].at,
                decision |-> IF reports[i].kind = "candidate"
                               THEN [odds |-> reports[i].odds, p |-> reports[i].p] ELSE "none"]
    BY <1>1, <1>4, <1>6, <1>9, <2>2 DEF AsObservation
  <2>4. PICK e, q, r : e = target[from[i]] /\ q = quote[i] /\ r = reports[i]
    OBVIOUS
  <2>5. /\ q \in Quote /\ (\E k \in DOMAIN odds[e.id] : odds[e.id][k] = q)
        /\ r.slot = QuotedSlot(e, q) /\ r.odds = q.odds /\ r.at = q.at /\ r.p \in 0..Unit
        /\ \/ r.kind = "candidate" /\ r.odds <= MaxOdds
           \/ r.kind = "non_qualifying"
    BY <1>2, <2>4 DEF AreAllReports
  <2>6. r.at \in 1..MaxTime /\ r.odds \in Nat \ {0, 1}
    BY <2>5 DEF Quote
  <2>7. item \in Life!Item /\ item.at = r.at
    <3>1. CASE r.kind = "candidate" /\ r.odds <= MaxOdds
      <4>1. r.odds \in 2..MaxOdds
        BY <2>6, <3>1, FilterAssumption
      <4>2. PICK decision \in [odds: 2..MaxOdds, p: 0..Unit] : decision = [odds |-> r.odds, p |-> r.p]
        BY <2>5, <4>1
      <4>3. item = [kind |-> "candidate", at |-> r.at, decision |-> decision]
        BY <2>3, <2>4, <3>1, <4>2
      <4> QED
        BY <2>6, <4>3 DEF Life!Item, Life!Times
    <3>2. CASE r.kind = "non_qualifying"
      <4>1. item = [kind |-> "non_qualifying", at |-> r.at, decision |-> "none"]
        BY <2>3, <2>4, <3>2
      <4> QED
        BY <2>6, <4>1 DEF Life!Item, Life!Times
    <3> QED
      BY <2>5, <3>1, <3>2
  <2>8. e.id = s.event /\ \E d \in ToSet(target) : d.id = s.event
    <3>1. e.id = s.event
      BY <2>2, <2>4, <2>5 DEF QuotedSlot
    <3>2. e \in ToSet(target)
      BY <1>3, <2>4 DEF ToSet
    <3> QED
      BY <3>1, <3>2
  <2>9. r.at <= Evaluated(events)[s.event]
    <3>1. \A k \in DOMAIN odds[s.event] : odds[s.event][k].at <= Evaluated(events)[s.event]
      BY <1>1, <1>7, <2>8, EvaluatedFacts
    <3> QED
      BY <2>5, <2>8, <3>1
  <2> QED
    BY <1>6, <2>7, <2>9
<1> QED
  BY <1>8, <1>9

\* A pass reports no slot twice, and what it reports is an observation that the
\* life cycle accepts (slot.py:3, opportunity_service.py:50), for every list and
\* all quotes in which each market type of an event is spelled one way.
THEOREM ReportsFeedTheLifeCycle == Spec => []FeedsTheLifeCycle
<1>1. ASSUME ProvidersInv, PlainMarkets, NEW events, events = CleanEvents(listing)
      PROVE  /\ \A i, j \in DOMAIN Reports(events) :
                  Reports(events)[i].slot = Reports(events)[j].slot => i = j
             /\ AsObservation(events) \in Life!Observation
  <2>1. PICK reports : reports = Reports(events)
    OBVIOUS
  <2>2. PICK m, from, quote : AreAllReports(reports, m, from, quote, Targets(events))
    BY <1>1, <2>1, AllReportFacts
  <2>3. \A i, j \in DOMAIN reports : reports[i].slot = reports[j].slot => i = j
    BY <1>1, <2>1, <2>2, OneReportPerSlot
  <2>4. PICK o : o = AsObservation(events)
    OBVIOUS
  <2>5. \A s \in Slots : o.items[s] \in Life!Item /\ o.items[s].at <= Evaluated(events)[s.event]
    BY <1>1, <2>4, ItemsAreAccepted
  <2>6. o = [items |-> [s \in Slots |-> o.items[s]], evaluated |-> Evaluated(events)]
    BY <2>4 DEF AsObservation
  <2>7. Evaluated(events) \in [Events -> 0..MaxTime]
    <3>1. \A id \in Events : Evaluated(events)[id] \in 0..MaxTime
      BY <1>1, EvaluatedFacts
    <3>2. Evaluated(events) = [id \in Events |-> Evaluated(events)[id]]
      BY DEF Evaluated
    <3> QED
      BY <3>1, <3>2
  <2>8. o \in [items: [Slots -> Life!Item], evaluated: [Events -> 0..MaxTime]]
    BY <2>5, <2>6, <2>7
  <2>9. \A s \in Slots : o.items[s].at <= o.evaluated[[x \in Slots |-> x.event][s]]
    BY <2>5, <2>6
  <2>10. o \in Life!Observation
    BY <2>8, <2>9 DEF Life!Observation
  <2> QED
    BY <2>1, <2>3, <2>4, <2>10
<1>2. ProvidersInv => FeedsTheLifeCycle
  BY <1>1 DEF FeedsTheLifeCycle
<1> QED
  BY <1>2, ProvidersInvariant, PTL

-----------------------------------------------------------------------------
(* The metrics.                                                            *)

IsSum(sum, amount, n) == sum = [i \in 0..n |-> IF i = 0 THEN 0 ELSE sum[i - 1] + amount[i]]

LEMMA SumFacts ==
  ASSUME NEW n \in Nat, NEW amount \in [1..n -> Int]
  PROVE  \E sum : /\ sum[0] = 0 /\ \A i \in 1..n : sum[i] = sum[i - 1] + amount[i]
                  /\ Total(amount, n) = sum[n]
<1>1. PICK step : step = [i \in 1..n |-> [x \in Int |-> x + amount[i]]]
  OBVIOUS
<1>2. step \in [1..n -> [Int -> Int]]
  BY <1>1
<1>3. PICK base \in Int : base = 0
  OBVIOUS
<1>4. PICK run : IsRun(run, n, Int, base, step)
  BY <1>2, RecursionExists
<1>5. run \in [0..n -> Int] /\ run[0] = 0 /\ \A i \in 1..n : run[i] = step[i][run[i - 1]]
  BY <1>3, <1>4 DEF IsRun
<1>6. \A i \in 1..n : run[i] = run[i - 1] + amount[i]
  <2> TAKE i \in 1..n
  <2>1. run[i - 1] \in Int
    BY <1>5
  <2> QED
    BY <1>1, <1>5, <2>1
<1>7. IsSum(run, amount, n)
  BY <1>5, <1>6 DEF IsSum
<1>8. PICK sum : sum = CHOOSE s : IsSum(s, amount, n)
  OBVIOUS
<1>9. IsSum(sum, amount, n)
  BY <1>7, <1>8
<1>10. sum[0] = 0 /\ \A i \in 1..n : sum[i] = sum[i - 1] + amount[i]
  BY <1>9 DEF IsSum
<1>11. Total(amount, n) = sum[n]
  BY <1>8 DEF Total, IsSum
<1> QED
  BY <1>10, <1>11

\* A fall no deeper than another, in terms of fractions; and its transitivity.
LEMMA FractionsTransitive ==
  ASSUME NEW a \in Int, NEW p \in Nat \ {0}, NEW b \in Int, NEW q \in Nat \ {0},
         NEW c \in Int, NEW r \in Nat \ {0}, a * q <= b * p, b * r <= c * q
  PROVE  a * r <= c * p
<1>1. \A x, y \in Int, z \in Nat : x <= y => x * z <= y * z
  OBVIOUS
<1>2. PICK aq \in Int, bp \in Int, br \in Int, cq \in Int :
        aq = a * q /\ bp = b * p /\ br = b * r /\ cq = c * q
  OBVIOUS
<1>3. aq * r <= bp * r /\ br * p <= cq * p
  BY <1>1, <1>2
<1>4. bp * r = br * p
  BY <1>2
<1>5. PICK ar \in Int, cp \in Int : ar = a * r /\ cp = c * p
  OBVIOUS
<1>6. aq * r = ar * q /\ cq * p = cp * q
  BY <1>2, <1>5
<1>7. ar * q <= cp * q
  <2>1. PICK x \in Int, y \in Int, z \in Int : x = aq * r /\ y = bp * r /\ z = cq * p
    BY <1>2
  <2> QED
    BY <1>3, <1>4, <1>6, <2>1
<1>8. ~(ar > cp)
  <2> SUFFICES ASSUME ar > cp PROVE FALSE
    OBVIOUS
  <2>1. \A x, y \in Int, z \in Nat \ {0} : x > y => x * z > y * z
    OBVIOUS
  <2>2. ar * q > cp * q
    BY <2>1
  <2> QED
    BY <1>7, <2>2
<1> QED
  BY <1>5, <1>8

\* From a higher peak down to the same value is the deeper fall.
LEMMA HigherPeak ==
  ASSUME NEW v \in Nat, NEW low \in Nat, NEW peak \in Nat, low <= peak
  PROVE  (low - v) * peak <= (peak - v) * low
<1>1. v * low <= v * peak
  OBVIOUS
<1>2. (low - v) * peak = low * peak - v * peak /\ (peak - v) * low = low * peak - v * low
  OBVIOUS
<1>3. PICK x \in Int, y \in Int, z \in Int : x = low * peak /\ y = v * peak /\ z = v * low
  OBVIOUS
<1> QED
  BY <1>1, <1>2, <1>3

Drop == [lost: Int, peak: Nat \ {0}]

Fallen == [peak: Nat, worst: Drop]

NoFall(initial) == [peak |-> initial, worst |-> [lost |-> 0, peak |-> 1]]

LEMMA FallingType ==
  ASSUME NEW acc \in Fallen, NEW value \in Nat
  PROVE  Falling(acc, value) \in Fallen
<1>1. PICK peak \in Nat : peak = IF value > acc.peak THEN value ELSE acc.peak
  BY DEF Fallen
<1>2. PICK here : here = [lost |-> peak - value, peak |-> peak]
  OBVIOUS
<1>3. Falling(acc, value) =
        [peak |-> peak,
         worst |-> IF peak > 0 /\ Deeper(here, acc.worst) THEN here ELSE acc.worst]
  BY <1>1, <1>2 DEF Falling
<1>4. acc.worst \in Drop /\ (peak > 0 => here \in Drop)
  BY <1>2 DEF Fallen, Drop
<1>5. (IF peak > 0 /\ Deeper(here, acc.worst) THEN here ELSE acc.worst) \in Drop
  BY <1>4
<1> QED
  BY <1>3, <1>5 DEF Fallen

\* The fall of the curve from point j to point k.
FallOf(curve, j, k) == [lost |-> curve[j] - curve[k], peak |-> curve[j]]

\* What the loop knows after i points of the curve.
Deepest(acc, curve, i) ==
  /\ \A k \in 1..i : curve[k] <= acc.peak
  /\ i # 0 => \E k \in 1..i : curve[k] = acc.peak
  /\ \A j, k \in 1..i : j <= k /\ curve[j] > 0 => ~Deeper(FallOf(curve, j, k), acc.worst)
  /\ acc.worst.lost > 0 => \E j, k \in 1..i : j <= k /\ acc.worst = FallOf(curve, j, k)

LEMMA DeepestStep ==
  ASSUME NEW n \in Nat \ {0}, NEW curve \in [1..n -> Nat], NEW i \in 1..n,
         NEW acc \in Fallen, Deepest(acc, curve, i - 1),
         i = 1 => acc.peak = curve[1]
  PROVE  Deepest(Falling(acc, curve[i]), curve, i)
<1>1. PICK v \in Nat : v = curve[i]
  OBVIOUS
<1>2. PICK top \in Nat : top = acc.peak
  BY DEF Fallen
<1>3. PICK peak \in Nat : peak = IF v > top THEN v ELSE top
  OBVIOUS
<1>4. PICK here : here = [lost |-> peak - v, peak |-> peak]
  OBVIOUS
<1>5. PICK worst \in Drop : worst = acc.worst
  BY DEF Fallen
<1>6. PICK after : after = Falling(acc, curve[i])
  OBVIOUS
<1>7. after = [peak |-> peak, worst |-> IF peak > 0 /\ Deeper(here, worst) THEN here ELSE worst]
  BY <1>1, <1>2, <1>3, <1>4, <1>5, <1>6 DEF Falling
<1>8. after.peak = peak /\ after.worst = IF peak > 0 /\ Deeper(here, worst) THEN here ELSE worst
  BY <1>7
<1>9. \A k \in 1..i : k # i => k \in 1..(i - 1)
  OBVIOUS
<1>10. \A k \in 1..i : curve[k] <= peak
  BY <1>1, <1>2, <1>3, <1>9 DEF Deepest
<1>11. \E k \in 1..i : curve[k] = peak
  <2>1. CASE v > top
    BY <1>1, <1>3, <2>1
  <2>2. CASE ~(v > top) /\ i = 1
    BY <1>1, <1>2, <1>3, <2>2
  <2>3. CASE ~(v > top) /\ i # 1
    <3>1. PICK k \in 1..(i - 1) : curve[k] = top
      BY <1>2, <2>3 DEF Deepest
    <3> QED
      BY <1>3, <2>3, <3>1
  <2> QED
    BY <2>1, <2>2, <2>3
<1>12. ASSUME NEW j \in 1..i, NEW k \in 1..i, j <= k, curve[j] > 0
       PROVE  ~Deeper(FallOf(curve, j, k), after.worst)
  <2>1. PICK a \in Int, p \in Nat \ {0} : a = curve[j] - curve[k] /\ p = curve[j]
    BY <1>12
  <2>2. PICK b \in Int, q \in Nat \ {0} : b = worst.lost /\ q = worst.peak
    BY DEF Drop
  <2>3. peak \in Nat \ {0} /\ p <= peak
    BY <1>10, <2>1
  <2>4. PICK c \in Int : c = here.lost /\ c = peak - v /\ here.peak = peak
    BY <1>4
  <2>5. PICK d : d = FallOf(curve, j, k) /\ d.lost = a /\ d.peak = p
    <3>1. FallOf(curve, j, k) = [lost |-> a, peak |-> p]
      BY <2>1 DEF FallOf
    <3>2. [lost |-> a, peak |-> p].lost = a /\ [lost |-> a, peak |-> p].peak = p
      OBVIOUS
    <3> QED
      BY <3>1, <3>2
  <2>6. k = i => a * peak <= c * p
    <3> SUFFICES ASSUME k = i PROVE a * peak <= c * p
      OBVIOUS
    <3>1. a = p - v
      BY <1>1, <2>1
    <3> QED
      BY <2>3, <2>4, <3>1, HigherPeak
  <2>7. k # i => a * q <= b * p
    <3> SUFFICES ASSUME k # i PROVE a * q <= b * p
      OBVIOUS
    <3>1. j \in 1..(i - 1) /\ k \in 1..(i - 1)
      BY <1>12
    <3>2. ~Deeper(d, worst)
      BY <1>5, <1>12, <2>5, <3>1 DEF Deepest
    <3>3. ~(a * q > b * p)
      BY <2>2, <2>5, <3>2 DEF Deeper
    <3> QED
      BY <3>3
  <2>8. CASE Deeper(here, worst)
    <3>1. b * peak <= c * q
      <4>1. c * q > b * peak
        BY <2>2, <2>4, <2>8 DEF Deeper
      <4>2. PICK x \in Int, y \in Int : x = c * q /\ y = b * peak
        BY <2>3
      <4> QED
        BY <4>1, <4>2
    <3>2. a * peak <= c * p
      BY <2>3, <2>6, <2>7, <3>1, FractionsTransitive
    <3>3. after.worst = here
      BY <1>8, <2>3, <2>8
    <3>4. ~(a * peak > c * p)
      <4>1. PICK x \in Int, y \in Int : x = a * peak /\ y = c * p
        BY <2>3
      <4> QED
        BY <3>2, <4>1
    <3> QED
      BY <2>4, <2>5, <3>3, <3>4 DEF Deeper
  <2>9. CASE ~Deeper(here, worst)
    <3>1. c * q <= b * peak
      <4>1. ~(c * q > b * peak)
        BY <2>2, <2>4, <2>9 DEF Deeper
      <4>2. PICK x \in Int, y \in Int : x = c * q /\ y = b * peak
        BY <2>3
      <4> QED
        BY <4>1, <4>2
    <3>2. a * q <= b * p
      BY <2>3, <2>6, <2>7, <3>1, FractionsTransitive
    <3>3. after.worst = worst
      BY <1>8, <2>9
    <3>4. ~(a * q > b * p)
      <4>1. PICK x \in Int, y \in Int : x = a * q /\ y = b * p
        OBVIOUS
      <4> QED
        BY <3>2, <4>1
    <3> QED
      BY <2>2, <2>5, <3>3, <3>4 DEF Deeper
  <2> QED
    BY <2>8, <2>9
<1>13. after.worst.lost > 0 => \E j, k \in 1..i : j <= k /\ after.worst = FallOf(curve, j, k)
  <2> SUFFICES ASSUME after.worst.lost > 0
               PROVE  \E j, k \in 1..i : j <= k /\ after.worst = FallOf(curve, j, k)
    OBVIOUS
  <2>1. CASE after.worst = here
    <3>1. PICK j \in 1..i : curve[j] = peak
      BY <1>11
    <3>2. here = FallOf(curve, j, i) /\ j <= i /\ i \in 1..i
      BY <1>1, <1>4, <3>1 DEF FallOf
    <3> QED
      BY <2>1, <3>2
  <2>2. CASE after.worst = worst
    <3>1. PICK j \in 1..(i - 1), k \in 1..(i - 1) : j <= k /\ worst = FallOf(curve, j, k)
      BY <1>5, <2>2 DEF Deepest
    <3>2. j \in 1..i /\ k \in 1..i
      BY <3>1
    <3> QED
      BY <2>2, <3>1, <3>2
  <2> QED
    BY <1>8, <2>1, <2>2
<1>14. Deepest(after, curve, i)
  BY <1>8, <1>10, <1>11, <1>12, <1>13 DEF Deepest
<1> QED
  BY <1>6, <1>14

IsDescent(fall, curve, n, initial) ==
  fall = [i \in 0..n |-> IF i = 0 THEN NoFall(initial) ELSE Falling(fall[i - 1], curve[i])]

LEMMA DrawdownFacts ==
  ASSUME NEW n \in Nat \ {0}, NEW curve \in [1..n -> Nat],
         NEW fall, fall = CHOOSE f : IsDescent(f, curve, n, curve[1])
  PROVE  fall[n] \in Fallen /\ Deepest(fall[n], curve, n)
<1>1. PICK A, base : A = Fallen /\ base = NoFall(curve[1])
  OBVIOUS
<1>2. 1 \in 1..n /\ n \in 0..n /\ n \in Nat
  OBVIOUS
<1>3. base \in A
  <2>1. [lost |-> 0, peak |-> 1] \in Drop
    BY DEF Drop
  <2>2. curve[1] \in Nat
    BY <1>2
  <2> QED
    BY <1>1, <2>1, <2>2 DEF NoFall, Fallen
<1>4. \A i \in 1..n, acc \in A : Falling(acc, curve[i]) \in A
  BY <1>1, FallingType
<1>5. PICK step : step = [i \in 1..n |-> [acc \in A |-> Falling(acc, curve[i])]]
  OBVIOUS
<1>6. step \in [1..n -> [A -> A]]
  BY <1>4, <1>5
<1>7. PICK run : IsRun(run, n, A, base, step)
  BY <1>2, <1>3, <1>6, RecursionExists
<1>8. run \in [0..n -> A] /\ run[0] = base /\ \A i \in 1..n : run[i] = step[i][run[i - 1]]
  BY <1>7 DEF IsRun
<1>9. \A i \in 1..n : run[i] = Falling(run[i - 1], curve[i])
  <2> TAKE i \in 1..n
  <2>1. run[i - 1] \in A
    BY <1>8
  <2> QED
    BY <1>5, <1>8, <2>1
<1>10. IsDescent(run, curve, n, curve[1])
  BY <1>1, <1>8, <1>9 DEF IsDescent
<1>11. IsDescent(fall, curve, n, curve[1])
  BY <1>10
<1>12. fall[0] = base /\ \A i \in 1..n : fall[i] = Falling(fall[i - 1], curve[i])
  <2>1. fall = [i \in 0..n |-> IF i = 0 THEN base ELSE Falling(fall[i - 1], curve[i])]
    BY <1>1, <1>11 DEF IsDescent
  <2>2. 0 \in 0..n /\ \A i \in 1..n : i \in 0..n /\ i # 0
    OBVIOUS
  <2>3. fall[0] = base
    BY <2>1, <2>2
  <2>4. \A i \in 1..n : fall[i] = Falling(fall[i - 1], curve[i])
    BY <2>1, <2>2
  <2> QED
    BY <2>3, <2>4
<1>13. PICK Good : Good = {i \in 0..n : /\ fall[i] \in Fallen /\ Deepest(fall[i], curve, i)
                                        /\ i = 0 => fall[i].peak = curve[1]}
  OBVIOUS
<1>14. 0 \in Good
  <2>1. base.peak = curve[1] /\ base.worst.lost = 0
    BY <1>1 DEF NoFall
  <2>2. Deepest(base, curve, 0)
    BY <2>1 DEF Deepest
  <2> QED
    BY <1>1, <1>2, <1>3, <1>12, <1>13, <2>1, <2>2
<1>15. ASSUME NEW i \in 1..n, i - 1 \in Good PROVE i \in Good
  <2>1. PICK acc \in Fallen : acc = fall[i - 1] /\ Deepest(acc, curve, i - 1)
                                /\ (i = 1 => acc.peak = curve[1])
    <3>1. fall[i - 1] \in Fallen /\ Deepest(fall[i - 1], curve, i - 1)
      BY <1>13, <1>15
    <3>2. i = 1 => fall[i - 1].peak = curve[1]
      <4>1. i - 1 = 0 => fall[i - 1].peak = curve[1]
        BY <1>13, <1>15
      <4> QED
        BY <4>1
    <3> QED
      BY <3>1, <3>2
  <2>2. fall[i] = Falling(acc, curve[i])
    BY <1>12, <2>1
  <2>3. Falling(acc, curve[i]) \in Fallen
    BY FallingType
  <2>4. Deepest(Falling(acc, curve[i]), curve, i)
    BY <2>1, DeepestStep
  <2>5. i \in 0..n /\ i # 0
    OBVIOUS
  <2> QED
    BY <1>13, <2>2, <2>3, <2>4, <2>5
<1>16. \A i \in 0..n : i \in Good
  BY <1>2, <1>14, <1>15, Along
<1> QED
  BY <1>2, <1>13, <1>16

\* The curve of the bankroll: where each record left it, from the initial one on.
LEMMA CurveFacts ==
  ASSUME ReplayInv, NEW n \in Nat, n = Len(records)
  PROVE  /\ Curve \in [1..(n + 1) -> Nat] /\ Len(Curve) = n + 1
         /\ Curve[1] = InitialBankroll
         /\ \A i \in 1..n : Curve[i + 1] = records[i].bankrollAfter
<1>1. PICK R : records \in Seq(R) /\ \A r \in R : IsRecord(r)
  BY DEF ReplayInv
<1>2. DOMAIN records = 1..n /\ \A i \in 1..n : records[i].bankrollAfter \in Nat
  <2>1. DOMAIN records = 1..n /\ \A i \in 1..n : records[i] \in R
    BY <1>1
  <2> QED
    BY <1>1, <2>1 DEF IsRecord
<1>3. PICK after : after = [i \in DOMAIN records |-> records[i].bankrollAfter]
  OBVIOUS
<1>4. after \in Seq(Nat) /\ Len(after) = n
  <2>1. after \in [1..n -> Nat]
    BY <1>2, <1>3
  <2> QED
    BY <2>1, ListFacts
<1>5. <<InitialBankroll>> \in Seq(Nat) /\ Len(<<InitialBankroll>>) = 1
  BY BankrollAssumption
<1>6. PICK first \in Seq(Nat) : first = <<InitialBankroll>> /\ Len(first) = 1 /\ first[1] = InitialBankroll
  BY <1>5
<1>7. PICK c : c = first \o after /\ c = Curve
  BY <1>3, <1>6 DEF Curve
<1>8. c \in Seq(Nat) /\ Len(c) = n + 1
  BY <1>4, <1>6, <1>7
<1>9. c[1] = InitialBankroll /\ \A i \in 1..n : c[i + 1] = after[i]
  BY <1>4, <1>6, <1>7
<1>10. c \in [1..(n + 1) -> Nat]
  BY <1>8
<1> QED
  BY <1>2, <1>3, <1>7, <1>8, <1>9, <1>10

LEMMA ProfitIsGain ==
  ASSUME ReplayInv, Carried
  PROVE  TotalProfit = bankroll - InitialBankroll
<1>1. PICK R : records \in Seq(R) /\ \A r \in R : IsRecord(r)
  BY DEF ReplayInv
<1>2. PICK n \in Nat : n = Len(records) /\ DOMAIN records = 1..n
  BY <1>1
<1>3. \A i \in 1..n : records[i].profit \in Int /\ records[i].bankrollAfter \in Nat
  <2>1. \A i \in 1..n : records[i] \in R
    BY <1>1, <1>2
  <2> QED
    BY <1>1, <2>1 DEF IsRecord
<1>4. PICK amount \in [1..n -> Int] : amount = [i \in DOMAIN records |-> records[i].profit]
  BY <1>2, <1>3
<1>5. PICK sum : /\ sum[0] = 0 /\ \A i \in 1..n : sum[i] = sum[i - 1] + amount[i]
                 /\ Total(amount, n) = sum[n]
  BY SumFacts
<1>6. PICK level : level = [i \in 0..n |-> IF i = 0 THEN InitialBankroll ELSE records[i].bankrollAfter]
  OBVIOUS
<1>7. level \in [0..n -> Nat]
  BY <1>3, <1>6, BankrollAssumption
<1>8. ASSUME NEW i \in 1..n PROVE level[i] = level[i - 1] + amount[i]
  <2>1. records[i].bankrollAfter = BankrollBefore(i) + records[i].profit
    BY <1>2 DEF Carried
  <2>2. BankrollBefore(i) = level[i - 1]
    BY <1>6 DEF BankrollBefore
  <2>3. level[i] = records[i].bankrollAfter /\ amount[i] = records[i].profit
    BY <1>2, <1>4, <1>6
  <2> QED
    BY <2>1, <2>2, <2>3
<1>9. PICK Good : Good = {i \in 0..n : sum[i] = level[i] - InitialBankroll}
  OBVIOUS
<1>10. 0 \in Good
  BY <1>5, <1>6, <1>9, BankrollAssumption
<1>11. ASSUME NEW i \in 1..n, i - 1 \in Good PROVE i \in Good
  <2>1. sum[i - 1] = level[i - 1] - InitialBankroll
    BY <1>9, <1>11
  <2>2. sum[i] = sum[i - 1] + amount[i] /\ level[i] = level[i - 1] + amount[i]
    BY <1>5, <1>8
  <2>3. level[i - 1] \in Int /\ amount[i] \in Int /\ InitialBankroll \in Int
    BY <1>7, BankrollAssumption
  <2>4. sum[i] = level[i] - InitialBankroll
    BY <2>1, <2>2, <2>3
  <2> QED
    BY <1>9, <2>4
<1>12. sum[n] = level[n] - InitialBankroll
  <2>1. \A i \in 0..n : i \in Good
    BY <1>10, <1>11, Along
  <2> QED
    BY <1>9, <2>1
<1>13. level[n] = bankroll
  <2>1. records = <<>> <=> n = 0
    BY <1>1, <1>2
  <2> QED
    BY <1>2, <1>6, <2>1 DEF Carried
<1>14. TotalProfit = Total(amount, n)
  BY <1>2, <1>4 DEF TotalProfit
<1> QED
  BY <1>5, <1>12, <1>13, <1>14

LEMMA MaxDrawdownFacts ==
  ASSUME ReplayInv
  PROVE  \E n, acc : /\ n \in Nat \ {0} /\ Curve \in [1..n -> Nat]
                     /\ acc \in Fallen /\ Deepest(acc, Curve, n) /\ MaxDrawdown = acc.worst
<1>1. PICK l \in Nat : l = Len(records)
  BY DEF ReplayInv
<1>2. PICK n \in Nat \ {0} : n = l + 1
  OBVIOUS
<1>3. PICK curve : curve = Curve
  OBVIOUS
<1>4. curve \in [1..n -> Nat] /\ Len(curve) = n /\ curve[1] = InitialBankroll
  BY <1>1, <1>2, <1>3, CurveFacts
<1>5. PICK fall : fall = CHOOSE f : IsDescent(f, curve, n, curve[1])
  OBVIOUS
<1>6. fall[n] \in Fallen /\ Deepest(fall[n], curve, n)
  BY <1>4, <1>5, DrawdownFacts
<1>7. MaxDrawdown = fall[n].worst
  BY <1>3, <1>4, <1>5 DEF MaxDrawdown, IsDescent, NoFall
<1> QED
  BY <1>3, <1>4, <1>6, <1>7

\* The profit that the metrics report is what the bankroll gained, and their
\* drawdown is the deepest fall between two points of the curve, relative to the
\* first (metrics.py:41, metrics.py:61), however long the report.
THEOREM TheMetricsAgree == Spec => []MetricsAgree
<1>1. ASSUME ReplayInv, Carried PROVE MetricsAgree
  <2>1. PICK n \in Nat \ {0}, acc \in Fallen :
          Curve \in [1..n -> Nat] /\ Deepest(acc, Curve, n) /\ MaxDrawdown = acc.worst
    BY <1>1, MaxDrawdownFacts
  <2>2. DOMAIN Curve = 1..n
    BY <2>1
  <2>3. /\ \A i, j \in DOMAIN Curve :
             i <= j /\ Curve[i] > 0 => ~Deeper(FallOf(Curve, i, j), MaxDrawdown)
        /\ MaxDrawdown.lost > 0 =>
             \E i, j \in DOMAIN Curve : i <= j /\ MaxDrawdown = FallOf(Curve, i, j)
    BY <2>1, <2>2 DEF Deepest
  <2>4. TotalProfit = bankroll - InitialBankroll
    BY <1>1, ProfitIsGain
  <2> QED
    BY <2>3, <2>4 DEF MetricsAgree, FallOf
<1> QED
  BY <1>1, CarriedAlways, ReplayInvariant, PTL

-----------------------------------------------------------------------------
(* Filtering what is filtered already.                                     *)

LEMMA SamePlaces ==
  ASSUME NEW n \in Nat, NEW I,
         NEW m, NEW p, Positions(p, m, n, I), Ascending(p, m),
         NEW l, NEW q, Positions(q, l, n, I), Ascending(q, l)
  PROVE  \A k \in 1..m : k <= l /\ p[k] = q[k]
<1> DEFINE Bad == {k \in 1..m : ~(k <= l /\ p[k] = q[k])}
<1> SUFFICES ASSUME Bad # {} PROVE FALSE
  OBVIOUS
<1>1. /\ m \in Nat /\ p \in [1..m -> 1..n] /\ \A k \in 1..m : p[k] \in I
      /\ \A i \in 1..n : i \in I => \E k \in 1..m : p[k] = i
      /\ l \in Nat /\ q \in [1..l -> 1..n] /\ \A k \in 1..l : q[k] \in I
      /\ \A i \in 1..n : i \in I => \E k \in 1..l : q[k] = i
  BY DEF Positions
<1>2. /\ \A k, h \in 1..m : k < h => p[k] < p[h]
      /\ \A k, h \in 1..l : k < h => q[k] < q[h]
  BY DEF Ascending
<1>3. PICK k \in Bad : \A h \in Bad : k <= h
  <2>1. Bad \subseteq Nat
    OBVIOUS
  <2> HIDE DEF Bad
  <2> QED
    BY <2>1, LeastNumber
<1>4. k \in 1..m /\ \A h \in 1..m : h < k => h <= l /\ p[h] = q[h]
  BY <1>3
<1>5. p[k] \in 1..n /\ p[k] \in I
  BY <1>1, <1>4
<1>6. PICK h \in 1..l : q[h] = p[k]
  BY <1>1, <1>5
<1>7. ~(h < k)
  <2> SUFFICES ASSUME h < k PROVE FALSE
    OBVIOUS
  <2>1. h \in 1..m /\ p[h] = q[h] /\ p[h] < p[k]
    BY <1>1, <1>2, <1>4
  <2> QED
    BY <1>1, <1>6, <2>1
<1>8. k \in 1..l
  BY <1>1, <1>4, <1>7
<1>9. CASE h = k
  BY <1>3, <1>6, <1>8, <1>9
<1>10. CASE h # k
  <2>1. k < h
    BY <1>4, <1>7, <1>10
  <2>2. q[k] < p[k] /\ q[k] \in 1..n /\ q[k] \in I
    BY <1>1, <1>2, <1>6, <1>8, <2>1
  <2>3. PICK j \in 1..m : p[j] = q[k]
    BY <1>1, <2>2
  <2>4. j < k
    <3>1. ~(k < j) /\ j # k
      BY <1>1, <1>2, <1>4, <2>2, <2>3
    <3> QED
      BY <1>4, <3>1
  <2>5. q[j] = q[k] /\ j \in 1..l
    BY <1>4, <1>8, <2>3, <2>4
  <2> QED
    BY <1>1, <1>2, <1>8, <2>4, <2>5
<1> QED
  BY <1>9, <1>10

\* There is one way to list the positions in a set in ascending order.
LEMMA OneEnumeration ==
  ASSUME NEW n \in Nat, NEW I,
         NEW m, NEW p, Positions(p, m, n, I), Ascending(p, m),
         NEW l, NEW q, Positions(q, l, n, I), Ascending(q, l)
  PROVE  m = l /\ p = q
<1>1. m \in Nat /\ l \in Nat /\ p \in [1..m -> 1..n] /\ q \in [1..l -> 1..n]
  BY DEF Positions
<1>2. \A k \in 1..m : k <= l /\ p[k] = q[k]
  BY SamePlaces
<1>3. \A k \in 1..l : k <= m
  BY SamePlaces
<1>4. m = l
  <2>1. m > l => m \in 1..m
    BY <1>1
  <2>2. l > m => l \in 1..l
    BY <1>1
  <2> QED
    BY <1>1, <1>2, <1>3, <2>1, <2>2
<1> QED
  BY <1>1, <1>2, <1>4

\* Of list[i] for i in I, those in G are at J; of all of list they are at K.
Narrowed(list, I, J, K, G) ==
  /\ \A k \in DOMAIN Sublist(list, I) : k \in J <=> Sublist(list, I)[k] \in G
  /\ \A i \in DOMAIN list : i \in K <=> i \in I /\ list[i] \in G

LEMMA SublistOfSublist ==
  ASSUME NEW S, NEW x \in Seq(S), NEW I, NEW J, NEW K, NEW G, Narrowed(x, I, J, K, G)
  PROVE  Sublist(Sublist(x, I), J) = Sublist(x, K)
<1>n. PICK n \in Nat : x \in [1..n -> S]
  OBVIOUS
<1>1. PICK part : part = Sublist(x, I)
  OBVIOUS
<1>2. PICK m, p : Positions(p, m, n, I) /\ Ascending(p, m) /\ Taken(part, p, m, x)
  BY <1>1, <1>n, SublistPositions
<1>3. /\ m \in Nat /\ p \in [1..m -> 1..n] /\ \A k \in 1..m : p[k] \in I
      /\ \A i \in 1..n : i \in I => \E k \in 1..m : p[k] = i
      /\ part = [k \in 1..m |-> x[p[k]]]
  BY <1>2 DEF Positions, Taken
<1>k. \A i \in 1..n : i \in K <=> i \in I /\ x[i] \in G
  BY <1>n DEF Narrowed
<1>4. \A k \in 1..m : x[p[k]] \in S
  BY <1>3, <1>n
<1>5. part \in [1..m -> S]
  BY <1>3, <1>4
<1>6. \A k \in 1..m : k \in J <=> part[k] \in G
  BY <1>1, <1>5 DEF Narrowed
<1>7. PICK l, q : Positions(q, l, m, J) /\ Ascending(q, l) /\ Taken(Sublist(part, J), q, l, part)
  BY <1>3, <1>5, SublistPositions
<1>8. PICK h, r : Positions(r, h, n, K) /\ Ascending(r, h) /\ Taken(Sublist(x, K), r, h, x)
  BY <1>n, SublistPositions
<1>9. /\ l \in Nat /\ q \in [1..l -> 1..m] /\ \A k \in 1..l : q[k] \in J
      /\ \A k \in 1..m : k \in J => \E j \in 1..l : q[j] = k
      /\ Sublist(part, J) = [k \in 1..l |-> part[q[k]]]
  BY <1>7 DEF Positions, Taken
<1>10. PICK t : t = [k \in 1..l |-> p[q[k]]]
  OBVIOUS
<1>11. Ascending(t, l)
  <2>1. \A k, j \in 1..m : k < j => p[k] < p[j]
    BY <1>2 DEF Ascending
  <2>2. \A k, j \in 1..l : k < j => q[k] < q[j]
    BY <1>7 DEF Ascending
  <2> QED
    BY <1>9, <1>10, <2>1, <2>2 DEF Ascending
<1>12. Positions(t, l, n, K)
  <2>1. t \in [1..l -> 1..n]
    BY <1>3, <1>9, <1>10
  <2>2. ASSUME NEW k \in 1..l PROVE t[k] \in K
    <3>1. q[k] \in 1..m /\ q[k] \in J /\ t[k] = p[q[k]]
      BY <1>9, <1>10
    <3>2. part[q[k]] = x[p[q[k]]] /\ part[q[k]] \in G /\ p[q[k]] \in I /\ p[q[k]] \in 1..n
      BY <1>3, <1>6, <3>1
    <3> QED
      BY <1>k, <3>1, <3>2
  <2>3. ASSUME NEW i \in 1..n, i \in K PROVE \E k \in 1..l : t[k] = i
    <3>1. PICK j \in 1..m : p[j] = i
      BY <1>3, <1>k, <2>3
    <3>2. j \in J
      BY <1>3, <1>6, <1>k, <2>3, <3>1
    <3>3. PICK k \in 1..l : q[k] = j
      BY <1>9, <3>2
    <3> QED
      BY <1>10, <3>1, <3>3
  <2>4. ASSUME NEW k \in 1..l, NEW j \in 1..l, t[k] = t[j] PROVE k = j
    <3>1. ~(k < j) /\ ~(j < k)
      <4>1. t[k] \in 1..n /\ t[j] \in 1..n
        BY <2>1
      <4> QED
        BY <1>11, <2>4, <4>1 DEF Ascending
    <3> QED
      BY <3>1
  <2> QED
    BY <1>9, <2>1, <2>2, <2>3, <2>4 DEF Positions
<1>13. l = h /\ t = r
  BY <1>8, <1>11, <1>12, OneEnumeration
<1>14. Sublist(x, K) = [k \in 1..l |-> x[t[k]]]
  BY <1>8, <1>13 DEF Taken
<1>15. \A k \in 1..l : part[q[k]] = x[t[k]]
  BY <1>3, <1>9, <1>10
<1> QED
  BY <1>1, <1>9, <1>14, <1>15

\* engine.py:95: the events that start before the evaluated one are all that its
\* features are built from.
LEMMA HistoryIsEnough ==
  ASSUME NEW e, history \in Seq(CleanRow)
  PROVE  BuildFeatures(e, HistoryOf(e)) = BuildFeatures(e, history)
<1>2. PICK x \in Seq(CleanRow) : x = history
  OBVIOUS
<1>3. PICK I : I = {i \in DOMAIN x : x[i].start < e.start}
  OBVIOUS
<1>4. PICK part : part = Sublist(x, I)
  OBVIOUS
<1>5. part = HistoryOf(e)
  BY <1>2, <1>3, <1>4 DEF HistoryOf
<1>6. PICK G : G = {r \in CleanRow : r.sport = e.sport /\ r.start < e.start}
  OBVIOUS
<1>7. PICK J, K : /\ J = {k \in DOMAIN part : part[k] \in G}
                  /\ K = {i \in DOMAIN x : i \in I /\ x[i] \in G}
  OBVIOUS
<1>8. Sublist(Sublist(x, I), J) = Sublist(x, K)
  <2>1. PICK S : S = CleanRow
    OBVIOUS
  <2>2. x \in Seq(S)
    BY <1>2, <2>1
  <2>3. Narrowed(x, I, J, K, G)
    BY <1>4, <1>7 DEF Narrowed
  <2> QED
    BY <2>2, <2>3, SublistOfSublist
<1>a. part \in Seq(CleanRow)
  BY <1>2, <1>4, SublistSeq
<1>9. J = {k \in DOMAIN part : part[k].sport = e.sport /\ part[k].start < e.start}
  <2>1. \A k \in DOMAIN part : part[k] \in CleanRow
    BY <1>a
  <2> QED
    BY <1>6, <1>7, <2>1
<1>10. K = {i \in DOMAIN x : x[i].sport = e.sport /\ x[i].start < e.start}
  <2>1. \A i \in DOMAIN x : x[i] \in CleanRow
    OBVIOUS
  <2> QED
    BY <1>3, <1>6, <1>7, <2>1
<1>11. PriorEvents(e, part) = PriorEvents(e, x)
  BY <1>4, <1>8, <1>9, <1>10 DEF PriorEvents
<1> QED
  BY <1>2, <1>5, <1>11 DEF BuildFeatures

-----------------------------------------------------------------------------
(* A proposal stands: the matches it knows of are over.                    *)

\* The same matches, in the same order, whatever became of them.
SameMatches(a, b, n) ==
  /\ a \in [1..n -> EventRow] /\ b \in [1..n -> EventRow]
  /\ \A i \in 1..n : /\ b[i].id = a[i].id /\ b[i].sport = a[i].sport
                     /\ b[i].home = a[i].home /\ b[i].away = a[i].away
                     /\ b[i].start = a[i].start

SamePast(a, b, pos, m, e) ==
  \A k \in 1..m : a[pos[k]].start < e.start => b[pos[k]] = a[pos[k]]

LEMMA FeaturesAlike ==
  ASSUME NEW n \in Nat, NEW a, NEW b, SameMatches(a, b, n),
         NEW m, NEW pos, CleanedAlike(a, b, pos, m, n), NEW e, SamePast(a, b, pos, m, e)
  PROVE  BuildFeatures(e, CleanEvents(b)) = BuildFeatures(e, CleanEvents(a))
<1>1. PICK x, y : x = CleanEvents(a) /\ y = CleanEvents(b)
  OBVIOUS
<1>2. /\ m \in Nat /\ \A k \in 1..m : pos[k] \in 1..n
      /\ x = [k \in 1..m |-> Cleaned(a[pos[k]])] /\ y = [k \in 1..m |-> Cleaned(b[pos[k]])]
  BY <1>1 DEF CleanedAlike, Positions
<1>3. ASSUME NEW k \in 1..m
      PROVE  /\ y[k].sport = x[k].sport /\ y[k].start = x[k].start
             /\ x[k].start < e.start => y[k] = x[k]
  <2>1. PICK i \in 1..n : i = pos[k]
    BY <1>2
  <2>2. a[i] \in EventRow /\ b[i] \in EventRow /\ b[i].sport = a[i].sport /\ b[i].start = a[i].start
    BY DEF SameMatches
  <2>3. x[k] = Cleaned(a[i]) /\ y[k] = Cleaned(b[i])
    BY <1>2, <2>1
  <2>4. x[k].start = a[i].start /\ y[k].start = b[i].start
          /\ x[k].sport = a[i].sport /\ y[k].sport = b[i].sport
    BY <2>2, <2>3, CleanedFacts
  <2>5. a[i].start < e.start => b[i] = a[i]
    BY <2>1 DEF SamePast
  <2> QED
    BY <2>2, <2>3, <2>4, <2>5
<1>4. PICK I : I = {k \in 1..m : x[k].sport = e.sport /\ x[k].start < e.start}
  OBVIOUS
<1>5. I = {k \in 1..m : y[k].sport = e.sport /\ y[k].start < e.start}
  BY <1>3, <1>4
<1>6. DOMAIN x = 1..m /\ DOMAIN y = 1..m
  BY <1>2
<1>7. \A k \in I : x[k] = y[k]
  BY <1>3, <1>4
<1>8. [k \in DOMAIN x |-> IF k \in I THEN <<x[k]>> ELSE <<>>]
        = [k \in DOMAIN y |-> IF k \in I THEN <<y[k]>> ELSE <<>>]
  BY <1>6, <1>7
<1>9. Sublist(x, I) = Sublist(y, I)
  BY <1>8 DEF Sublist
<1>10. PriorEvents(e, x) = PriorEvents(e, y)
  BY <1>4, <1>5, <1>6, <1>9 DEF PriorEvents
<1> QED
  BY <1>1, <1>10 DEF BuildFeatures

SameEvent(d, e) ==
  /\ d.id = e.id /\ d.sport = e.sport /\ d.home = e.home /\ d.away = e.away
  /\ d.start = e.start

\* Bets are staked on an event for what it is and for what came before it.
LEMMA StakedAlike ==
  ASSUME NEW d, NEW e, SameEvent(d, e), NEW x, NEW y, BuildFeatures(e, x) = BuildFeatures(e, y)
  PROVE  Staked(d, x) = Staked(e, y)
<1>1. PriorEvents(d, x) = PriorEvents(e, x)
  BY DEF SameEvent, PriorEvents
<1>2. BuildFeatures(d, x) = BuildFeatures(e, y)
  BY <1>1 DEF SameEvent, BuildFeatures
<1>3. PICK quotes : quotes = ReadQuotes(odds[e.id])
  OBVIOUS
<1>4. PICK p : p = Priced(e, quotes, y)
  OBVIOUS
<1>5. Priced(d, quotes, x) = p
  BY <1>2, <1>4 DEF Priced
<1>6. \A k : Report(d, p[k]) = Report(e, p[k])
  BY DEF SameEvent, Report, SlotOf
<1>7. ReportsOf(d, x) = [k \in DOMAIN p |-> Report(d, p[k])]
  BY <1>3, <1>5 DEF ReportsOf, SameEvent
<1>8. ReportsOf(e, y) = [k \in DOMAIN p |-> Report(e, p[k])]
  BY <1>3, <1>4 DEF ReportsOf
<1>9. ReportsOf(d, x) = ReportsOf(e, y)
  BY <1>6, <1>7, <1>8
<1> QED
  BY <1>9 DEF Staked

\* The matches that are over stay as they are.
OnlyOpenChange(a, b, n) ==
  SameMatches(a, b, n) /\ \A i \in 1..n : ~Open(a[i]) => b[i] = a[i]

LEMMA EndedFacts ==
  ASSUME ProvidersInv, NEW id, EndMatch(id)
  PROVE  \E n \in Nat : OnlyOpenChange(listing, listing', n)
<1>1. PICK n \in Nat : listing \in [1..n -> EventRow] /\ DOMAIN listing = 1..n
  BY DEF ProvidersInv
<1>2. PICK end \in {<<"finished", "home_win">>, <<"finished", "away_win">>,
                    <<"finished", "draw">>, <<"cancelled", NoResult>>} :
        listing' = [i \in DOMAIN listing |->
                      IF listing[i].id = id /\ Open(listing[i])
                        THEN [listing[i] EXCEPT !.status = end[1], !.result = end[2]]
                        ELSE listing[i]]
  BY DEF EndMatch
<1>3. end[1] \in {"finished", "cancelled"} /\ end[2] \in Result
  <2>1. \/ end = <<"finished", "home_win">> \/ end = <<"finished", "away_win">>
        \/ end = <<"finished", "draw">> \/ end = <<"cancelled", NoResult>>
    BY <1>2, Zenon
  <2> QED
    BY <2>1 DEF Result
<1>4. PICK b : b = listing'
  OBVIOUS
<1>5. ASSUME NEW i \in 1..n
      PROVE  /\ b[i] \in EventRow
             /\ b[i].id = listing[i].id /\ b[i].sport = listing[i].sport
             /\ b[i].home = listing[i].home /\ b[i].away = listing[i].away
             /\ b[i].start = listing[i].start
             /\ ~Open(listing[i]) => b[i] = listing[i]
  <2>1. PICK row \in EventRow : row = listing[i]
    BY <1>1
  <2>2. PICK over : over = [row EXCEPT !.status = end[1], !.result = end[2]]
    OBVIOUS
  <2>3. /\ over \in EventRow
        /\ over.id = row.id /\ over.sport = row.sport /\ over.home = row.home
        /\ over.away = row.away /\ over.start = row.start
    BY <1>3, <2>2 DEF EventRow
  <2>4. b[i] = IF row.id = id /\ Open(row) THEN over ELSE row
    BY <1>1, <1>2, <1>4, <2>1, <2>2
  <2> QED
    BY <2>1, <2>3, <2>4
<1>6. b \in [1..n -> EventRow]
  BY <1>1, <1>2, <1>4, <1>5
<1> QED
  BY <1>1, <1>4, <1>5, <1>6 DEF OnlyOpenChange, SameMatches

\* p is what would be staked on an event of the list whose earlier matches are
\* all over.
Stands(p, id, list) ==
  \E e \in ToSet(CleanEvents(list)) :
    e.id = id /\ Informed(e, CleanEvents(list)) /\ p.bets = Staked(e, CleanEvents(list))

LEMMA StandsAfterEnd ==
  ASSUME NEW n \in Nat, NEW a, NEW b, OnlyOpenChange(a, b, n), NEW p, NEW id, Stands(p, id, a)
  PROVE  Stands(p, id, b)
<1>1. /\ SameMatches(a, b, n) /\ \A i \in 1..n : ~Open(a[i]) => b[i] = a[i]
      /\ a \in [1..n -> EventRow] /\ b \in [1..n -> EventRow]
      /\ \A i \in 1..n : b[i].id = a[i].id /\ b[i].start = a[i].start
  BY DEF OnlyOpenChange, SameMatches
<1>2. PICK m, pos : CleanedAlike(a, b, pos, m, n)
  BY <1>1, CleanPositions
<1>3. PICK x, y : x = CleanEvents(a) /\ y = CleanEvents(b)
  OBVIOUS
<1>4. /\ m \in Nat /\ \A k \in 1..m : pos[k] \in 1..n
      /\ x = [k \in 1..m |-> Cleaned(a[pos[k]])] /\ y = [k \in 1..m |-> Cleaned(b[pos[k]])]
  BY <1>2, <1>3 DEF CleanedAlike, Positions
<1>5. PICK e \in ToSet(x) : e.id = id /\ Informed(e, x) /\ p.bets = Staked(e, x)
  BY <1>3 DEF Stands
<1>6. PICK k \in 1..m : e = x[k]
  BY <1>4, <1>5 DEF ToSet
<1>7. PICK d : d = y[k]
  OBVIOUS
<1>8. SameEvent(d, e)
  <2>1. PICK i \in 1..n : i = pos[k]
    BY <1>4
  <2>2. e = Cleaned(a[i]) /\ d = Cleaned(b[i])
    BY <1>4, <1>6, <1>7, <2>1
  <2>3. /\ b[i].id = a[i].id /\ b[i].sport = a[i].sport /\ b[i].home = a[i].home
        /\ b[i].away = a[i].away /\ b[i].start = a[i].start
    BY <1>1 DEF SameMatches
  <2>4. \A row \in EventRow : /\ Cleaned(row).id = row.id /\ Cleaned(row).sport = row.sport
                              /\ Cleaned(row).home = Normal(row.home)
                              /\ Cleaned(row).away = Normal(row.away)
                              /\ Cleaned(row).start = row.start
    BY DEF Cleaned, EventRow
  <2>5. a[i] \in EventRow /\ b[i] \in EventRow
    BY <1>1
  <2> QED
    BY <2>2, <2>3, <2>4, <2>5 DEF SameEvent
<1>9. ASSUME NEW j \in 1..m, a[pos[j]].start < e.start
      PROVE  ~Open(a[pos[j]]) /\ b[pos[j]] = a[pos[j]]
  <2>1. PICK i \in 1..n : i = pos[j]
    BY <1>4
  <2>2. x[j] = Cleaned(a[i]) /\ x[j] \in ToSet(x)
    BY <1>4, <2>1 DEF ToSet
  <2>3. x[j].start = a[i].start /\ x[j].status = a[i].status
    BY <1>1, <2>2, CleanedFacts
  <2>4. ~Open(x[j])
    BY <1>5, <1>9, <2>1, <2>2, <2>3 DEF Informed
  <2>5. ~Open(a[i])
    BY <2>3, <2>4 DEF Open
  <2> QED
    BY <1>1, <2>1, <2>5
<1>10. SamePast(a, b, pos, m, e)
  BY <1>9 DEF SamePast
<1>11. BuildFeatures(e, y) = BuildFeatures(e, x)
  BY <1>1, <1>2, <1>3, <1>10, FeaturesAlike
<1>12. Staked(d, y) = Staked(e, x)
  BY <1>8, <1>11, StakedAlike
<1>13. Informed(d, y)
  <2> SUFFICES ASSUME NEW r \in ToSet(y), r.start < d.start PROVE ~Open(r)
    BY DEF Informed
  <2>1. PICK j \in 1..m : r = y[j]
    BY <1>4 DEF ToSet
  <2>2. PICK i \in 1..n : i = pos[j]
    BY <1>4
  <2>3. r = Cleaned(b[i]) /\ b[i] \in EventRow
    BY <1>1, <1>4, <2>1, <2>2
  <2>4. r.start = b[i].start /\ r.status = b[i].status
    BY <2>3, CleanedFacts
  <2>5. a[i].start < e.start
    BY <1>1, <1>8, <2>4 DEF SameEvent
  <2>6. ~Open(a[i]) /\ b[i] = a[i]
    BY <1>9, <2>2, <2>5
  <2> QED
    BY <2>4, <2>6 DEF Open
<1>14. d \in ToSet(y) /\ d.id = id
  BY <1>4, <1>5, <1>7, <1>8 DEF ToSet, SameEvent
<1>15. p.bets = Staked(d, y)
  BY <1>5, <1>12
<1> QED
  BY <1>3, <1>13, <1>14, <1>15 DEF Stands

LEMMA TargetsAreListed ==
  ASSUME ProvidersInv, NEW events, events = CleanEvents(listing)
  PROVE  \A e \in ToSet(Targets(events)) : e \in ToSet(events)
<1>1. PICK n \in Nat : events \in [1..n -> CleanRow]
  BY TargetsType
<1>2. PICK S, I : S = CleanRow /\ I = {i \in DOMAIN events : events[i].status = "scheduled"}
  OBVIOUS
<1>3. PICK m, pos : TakenIn(S, Sublist(events, I), pos, m, n, I, events)
  BY <1>1, <1>2, SublistType
<1>4. Targets(events) = Sublist(events, I)
  BY <1>2 DEF Targets
<1>5. /\ DOMAIN Targets(events) = 1..m
      /\ \A k \in 1..m : pos[k] \in 1..n /\ Targets(events)[k] = events[pos[k]]
  BY <1>3, <1>4 DEF TakenIn, Positions
<1> QED
  BY <1>1, <1>5 DEF ToSet

\* Whatever has ended since, a pass would propose the same again.
ProposalsStand ==
  \A id \in Events : proposed[id].known => Stands(proposed[id], id, listing)

LEMMA ProposalsStep == ProvidersInv /\ ProposalsStand /\ [Next]_vars => ProposalsStand'
<1> SUFFICES ASSUME ProvidersInv, ProposalsStand, [Next]_vars PROVE ProposalsStand'
  OBVIOUS
<1>1. ASSUME odds' = odds, NEW p, NEW id, NEW list
      PROVE  Stands(p, id, list)' <=> Stands(p, id, list)
  BY <1>1 DEF Stands, Staked, ReportsOf
<1>2. CASE UNCHANGED <<listing, odds, proposed>>
  <2> SUFFICES ASSUME NEW id \in Events, proposed[id].known
               PROVE  Stands(proposed[id], id, listing)'
    BY <1>2 DEF ProposalsStand
  <2>1. PICK p, list : p = proposed[id] /\ list = listing
    OBVIOUS
  <2>2. Stands(p, id, list)'
    BY <1>1, <1>2, <2>1 DEF ProposalsStand
  <2> QED
    BY <1>2, <2>1, <2>2
<1>3. CASE \E id \in Events : EndMatch(id)
  <2>1. PICK n \in Nat : OnlyOpenChange(listing, listing', n)
    BY <1>3, EndedFacts
  <2>2. odds' = odds /\ proposed' = proposed
    BY <1>3 DEF EndMatch
  <2> SUFFICES ASSUME NEW id \in Events, proposed[id].known
               PROVE  Stands(proposed[id], id, listing)'
    BY <2>2 DEF ProposalsStand
  <2>3. PICK p, a, b : p = proposed[id] /\ a = listing /\ b = listing'
    OBVIOUS
  <2>4. Stands(p, id, b)
    BY <2>1, <2>3, StandsAfterEnd DEF ProposalsStand
  <2>5. Stands(p, id, b)'
    BY <1>1, <2>2, <2>4
  <2> QED
    BY <2>2, <2>3, <2>5
<1>4. CASE GenerateObservation
  <2>1. PICK list, events, known :
          /\ list = listing /\ events = CleanEvents(listing)
          /\ known = {e \in ToSet(Targets(events)) : Informed(e, events)}
    OBVIOUS
  <2>2. /\ proposed' = [id \in Events |->
             IF \E e \in known : e.id = id
               THEN [known |-> TRUE, bets |-> Staked(CHOOSE e \in known : e.id = id, events)]
               ELSE proposed[id]]
        /\ listing' = list /\ odds' = odds
    BY <1>4, <2>1 DEF GenerateObservation, providers
  <2> SUFFICES ASSUME NEW id \in Events, proposed'[id].known
               PROVE  Stands(proposed[id], id, listing)'
    BY DEF ProposalsStand
  <2>3. PICK p : p = proposed'[id]
    OBVIOUS
  <2>4. Stands(p, id, list)
    <3>1. CASE \E e \in known : e.id = id
      <4>1. PICK e : e = CHOOSE k \in known : k.id = id
        OBVIOUS
      <4>2. e \in known /\ e.id = id
        BY <3>1, <4>1, Zenon
      <4>3. p.bets = Staked(e, events)
        BY <2>2, <2>3, <3>1, <4>1
      <4>4. e \in ToSet(events)
        BY <2>1, <4>2, TargetsAreListed
      <4> QED
        BY <2>1, <4>2, <4>3, <4>4 DEF Stands
    <3>2. CASE ~\E e \in known : e.id = id
      BY <2>1, <2>2, <2>3, <3>2 DEF ProposalsStand
    <3> QED
      BY <3>1, <3>2
  <2>5. Stands(p, id, list)'
    BY <1>1, <2>2, <2>4
  <2> QED
    BY <2>2, <2>3, <2>5
<1> QED
  BY <1>2, <1>3, <1>4 DEF Next, vars, pipelineVars, providers, PipelineNext, Elapse,
     StartReplay, ReplayStep, OpenEvent, PassOver, PlaceBet, EndReplay

LEMMA ProposalsAlwaysStand == Spec => []ProposalsStand
<1>1. Init => ProposalsStand
  BY DEF Init, PipelineInit, NoProposal, ProposalsStand
<1> QED
  BY <1>1, ProposalsStep, ProvidersInvariant, PTL DEF Spec

-----------------------------------------------------------------------------
(* Quotes spelled plainly are read alike by the two programs.              *)

SameQuotes(a, b, l) ==
  /\ DOMAIN a = 1..l /\ DOMAIN b = 1..l
  /\ \A i \in 1..l : a[i].quote = b[i].quote /\ a[i].selection = b[i].selection

LEMMA PricedInAlike ==
  ASSUME NEW l \in Nat, NEW a, NEW b, SameQuotes(a, b, l), NEW est
  PROVE  PricedIn(a, est) = PricedIn(b, est)
<1>1. PICK last : last = [s \in {"home", "draw", "away"} |->
                            Max({0} \cup {i \in 1..l : a[i].selection = s})]
  OBVIOUS
<1>2. \A s \in {"home", "draw", "away"} : last[s] \in 0..l
  <2> TAKE s \in {"home", "draw", "away"}
  <2>1. PICK T : T = {0} \cup {i \in 1..l : a[i].selection = s}
    OBVIOUS
  <2>2. T \in SUBSET (0..l) /\ T # {}
    BY <2>1
  <2>3. Max(T) \in T
    BY <2>2, LargestNumber
  <2>4. last[s] = Max(T)
    BY <1>1, <2>1
  <2> QED
    BY <2>2, <2>3, <2>4
<1>3. Selections \in [1..3 -> {"home", "draw", "away"}] /\ DOMAIN Selections = 1..3
  BY DEF Selections
<1>4. PICK I : I = {i \in 1..3 : Selections[i] \in DOMAIN est /\ last[Selections[i]] # 0}
  OBVIOUS
<1>5. PICK found : found = Sublist(Selections, I)
  OBVIOUS
<1>6. PICK m, pos : TakenIn({"home", "draw", "away"}, found, pos, m, 3, I, Selections)
  BY <1>3, <1>5, SublistType
<1>7. /\ m \in Nat /\ DOMAIN found = 1..m
      /\ \A j \in 1..m : pos[j] \in I /\ pos[j] \in 1..3 /\ found[j] = Selections[pos[j]]
  BY <1>6 DEF TakenIn, Positions
<1>8. \A j \in 1..m : found[j] \in {"home", "draw", "away"} /\ last[found[j]] \in 1..l
  BY <1>2, <1>3, <1>4, <1>7
<1>9. PICK quotes : quotes = [i \in 1..l |-> a[i].quote]
  OBVIOUS
<1>10. ASSUME NEW c, SameQuotes(a, c, l)
       PROVE  PricedIn(c, est) =
                [j \in 1..m |-> [selection |-> found[j], p |-> est[found[j]],
                                 quote |-> a[last[found[j]]].quote, market |-> quotes]]
  <2>1. /\ DOMAIN c = 1..l
        /\ \A i \in 1..l : c[i].quote = a[i].quote /\ c[i].selection = a[i].selection
    BY <1>10 DEF SameQuotes
  <2>2. ASSUME NEW s \in {"home", "draw", "away"}
        PROVE  Max({0} \cup {i \in DOMAIN c : c[i].selection = s}) = last[s]
    <3>1. {i \in DOMAIN c : c[i].selection = s} = {i \in 1..l : a[i].selection = s}
      BY <2>1
    <3> QED
      BY <1>1, <3>1
  <2>3. Sublist(Selections, {i \in DOMAIN Selections :
           Selections[i] \in DOMAIN est
             /\ Max({0} \cup {h \in DOMAIN c : c[h].selection = Selections[i]}) # 0}) = found
    BY <1>3, <1>4, <1>5, <2>2
  <2>4. PICK market : market = [i \in DOMAIN c |-> c[i].quote]
    OBVIOUS
  <2>5. market = quotes
    BY <1>9, <2>1, <2>4
  <2>6. PricedIn(c, est) =
          [j \in DOMAIN found |->
             [selection |-> found[j], p |-> est[found[j]],
              quote |-> c[Max({0} \cup {i \in DOMAIN c : c[i].selection = found[j]})].quote,
              market |-> market]]
    BY <2>3, <2>4 DEF PricedIn
  <2>7. \A j \in 1..m :
          c[Max({0} \cup {i \in DOMAIN c : c[i].selection = found[j]})].quote
            = a[last[found[j]]].quote
    <3> TAKE j \in 1..m
    <3>1. Max({0} \cup {i \in DOMAIN c : c[i].selection = found[j]}) = last[found[j]]
      BY <1>8, <2>2
    <3> QED
      BY <1>8, <2>1, <3>1
  <2> QED
    BY <1>7, <2>5, <2>6, <2>7
<1>11. SameQuotes(a, a, l)
  BY DEF SameQuotes
<1> QED
  BY <1>10, <1>11

\* The same quotes, put into the same markets.
ReadAlike(r, s, n) ==
  /\ r \in [1..n -> ToSet(r)] /\ s \in [1..n -> ToSet(s)] /\ SameQuotes(r, s, n)
  /\ \A i, j \in 1..n : r[i].group = r[j].group <=> s[i].group = s[j].group

LEMMA PricedAlike ==
  ASSUME NEW n \in Nat, NEW r, NEW s, ReadAlike(r, s, n), NEW e, NEW past
  PROVE  Priced(e, r, past) = Priced(e, s, past)
<1>a. PICK S, T : S = ToSet(r) /\ T = ToSet(s)
  OBVIOUS
<1>b. r \in [1..n -> S] /\ s \in [1..n -> T]
  BY <1>a DEF ReadAlike
<1>1. PICK est : est = Estimates(BuildFeatures(e, past))
  OBVIOUS
<1>2. PICK I : I = {i \in 1..n : \A j \in 1..(i - 1) : r[j].group # r[i].group}
  OBVIOUS
<1>3. I = {i \in 1..n : \A j \in 1..(i - 1) : s[j].group # s[i].group}
  <2>1. \A i \in 1..n : \A j \in 1..(i - 1) : r[j].group # r[i].group <=> s[j].group # s[i].group
    BY DEF ReadAlike
  <2> QED
    BY <1>2, <2>1
<1>4. PICK m, pos : /\ Positions(pos, m, n, I)
                    /\ Taken(Sublist(r, I), pos, m, r) /\ Taken(Sublist(s, I), pos, m, s)
  BY <1>b, SublistPositions
<1>5. /\ m \in Nat /\ \A g \in 1..m : pos[g] \in 1..n
      /\ Sublist(r, I) = [g \in 1..m |-> r[pos[g]]]
      /\ Sublist(s, I) = [g \in 1..m |-> s[pos[g]]]
  BY <1>4 DEF Positions, Taken
<1>6. PICK In : In = [g \in 1..m |-> {i \in 1..n : r[i].group = r[pos[g]].group}]
  OBVIOUS
<1>7. \A g \in 1..m : In[g] = {i \in 1..n : s[i].group = s[pos[g]].group}
  BY <1>5, <1>6 DEF ReadAlike
<1>8. Markets(r) = [g \in 1..m |-> Sublist(r, In[g])]
  <2>1. PICK first : first = Sublist(r, I)
    OBVIOUS
  <2>2. Markets(r) = [g \in DOMAIN first |->
                        Sublist(r, {i \in DOMAIN r : r[i].group = first[g].group})]
    BY <1>b, <1>2, <2>1 DEF Markets
  <2>3. DOMAIN first = 1..m /\ \A g \in 1..m : first[g] = r[pos[g]]
    BY <1>5, <2>1
  <2>4. \A g \in 1..m : {i \in DOMAIN r : r[i].group = first[g].group} = In[g]
    BY <1>b, <1>6, <2>3
  <2>5. \A g \in 1..m : Sublist(r, {i \in DOMAIN r : r[i].group = first[g].group})
                          = Sublist(r, In[g])
    BY <2>4
  <2> QED
    BY <2>2, <2>3, <2>5
<1>9. Markets(s) = [g \in 1..m |-> Sublist(s, In[g])]
  <2>1. PICK first : first = Sublist(s, I)
    OBVIOUS
  <2>2. Markets(s) = [g \in DOMAIN first |->
                        Sublist(s, {i \in DOMAIN s : s[i].group = first[g].group})]
    BY <1>b, <1>3, <2>1 DEF Markets
  <2>3. DOMAIN first = 1..m /\ \A g \in 1..m : first[g] = s[pos[g]]
    BY <1>5, <2>1
  <2>4. \A g \in 1..m : {i \in DOMAIN s : s[i].group = first[g].group} = In[g]
    BY <1>b, <1>7, <2>3
  <2>5. \A g \in 1..m : Sublist(s, {i \in DOMAIN s : s[i].group = first[g].group})
                          = Sublist(s, In[g])
    BY <2>4
  <2> QED
    BY <2>2, <2>3, <2>5
<1>10. ASSUME NEW g \in 1..m
       PROVE  PricedIn(Sublist(r, In[g]), est) = PricedIn(Sublist(s, In[g]), est)
  <2>1. PICK J, a, b : J = In[g] /\ a = Sublist(r, J) /\ b = Sublist(s, J)
    OBVIOUS
  <2>2. PICK l, p : Positions(p, l, n, J) /\ Taken(a, p, l, r) /\ Taken(b, p, l, s)
    BY <1>b, <2>1, SublistPositions
  <2>3. /\ l \in Nat /\ \A k \in 1..l : p[k] \in 1..n
        /\ a = [k \in 1..l |-> r[p[k]]] /\ b = [k \in 1..l |-> s[p[k]]]
    BY <2>2 DEF Positions, Taken
  <2>4. SameQuotes(a, b, l)
    BY <2>3 DEF SameQuotes, ReadAlike
  <2> QED
    BY <2>1, <2>3, <2>4, PricedInAlike
<1>11. PICK f, h : /\ f = [g \in 1..m |-> PricedIn(Sublist(r, In[g]), est)]
                   /\ h = [g \in 1..m |-> PricedIn(Sublist(s, In[g]), est)]
  OBVIOUS
<1>12. f = h
  BY <1>10, <1>11
<1>13. Priced(e, r, past) = FlattenSeq(f)
  <2>1. PICK markets : markets = Markets(r)
    OBVIOUS
  <2>2. Priced(e, r, past) = FlattenSeq([g \in DOMAIN markets |-> PricedIn(markets[g], est)])
    BY <1>1, <2>1 DEF Priced
  <2>3. DOMAIN markets = 1..m /\ \A g \in 1..m : markets[g] = Sublist(r, In[g])
    BY <1>8, <2>1
  <2>4. [g \in DOMAIN markets |-> PricedIn(markets[g], est)] = f
    BY <1>11, <2>3
  <2> QED
    BY <2>2, <2>4
<1>14. Priced(e, s, past) = FlattenSeq(h)
  <2>1. PICK markets : markets = Markets(s)
    OBVIOUS
  <2>2. Priced(e, s, past) = FlattenSeq([g \in DOMAIN markets |-> PricedIn(markets[g], est)])
    BY <1>1, <2>1 DEF Priced
  <2>3. DOMAIN markets = 1..m /\ \A g \in 1..m : markets[g] = Sublist(s, In[g])
    BY <1>9, <2>1
  <2>4. [g \in DOMAIN markets |-> PricedIn(markets[g], est)] = h
    BY <1>11, <2>3
  <2> QED
    BY <2>2, <2>4
<1> QED
  BY <1>12, <1>13, <1>14

LEMMA PlainReadAlike ==
  ASSUME ProvidersInv, NEW id \in Events, PlainlySpelled(id), NEW quotes, quotes = odds[id],
         NEW r, r = ReadRaw(quotes), NEW s, s = ReadQuotes(quotes)
  PROVE  \E n \in Nat : ReadAlike(r, s, n)
<1>1. quotes \in Seq(Quote)
  BY ProviderAssumption DEF ProvidersInv
<1>2. PICK n \in Nat : quotes \in [1..n -> Quote] /\ DOMAIN quotes = 1..n
  BY <1>1
<1>3. ASSUME NEW i \in 1..n
      PROVE  /\ quotes[i].market \in Raw(MarketTypes) /\ quotes[i].market.spelling = "plain"
             /\ quotes[i].selection \in Raw(Labels) /\ quotes[i].selection.spelling = "plain"
             /\ quotes[i].bookmaker \in Raw(Bookmakers) /\ quotes[i].bookmaker.spelling = "plain"
  <2>1. quotes[i] \in Quote
    BY <1>2
  <2>2. /\ quotes[i]["market"].spelling = "plain" /\ quotes[i]["selection"].spelling = "plain"
        /\ quotes[i]["bookmaker"].spelling = "plain"
    BY <1>2 DEF PlainlySpelled
  <2> QED
    BY <2>1, <2>2 DEF Quote
<1>4. ASSUME NEW i \in 1..n
      PROVE  /\ r[i].quote = quotes[i] /\ r[i].group = <<quotes[i].market, quotes[i].bookmaker>>
             /\ r[i].selection = quotes[i].selection.text
  BY <1>2, <1>3 DEF ReadRaw
<1>5. ASSUME NEW i \in 1..n
      PROVE  /\ s[i].quote = quotes[i]
             /\ s[i].group = <<quotes[i].market, quotes[i].bookmaker.text>>
             /\ s[i].selection = quotes[i].selection.text
  BY <1>2 DEF ReadQuotes, MarketKey, Names, Normal
<1>6. ASSUME NEW i \in 1..n, NEW j \in 1..n
      PROVE  quotes[i].bookmaker = quotes[j].bookmaker
               <=> quotes[i].bookmaker.text = quotes[j].bookmaker.text
  BY <1>3 DEF Raw
<1>7. \A i, j \in 1..n : r[i].group = r[j].group <=> s[i].group = s[j].group
  BY <1>4, <1>5, <1>6
<1>8. /\ DOMAIN r = 1..n /\ r = [i \in 1..n |-> r[i]]
      /\ DOMAIN s = 1..n /\ s = [i \in 1..n |-> s[i]]
  BY <1>2 DEF ReadRaw, ReadQuotes
<1>9. r \in [1..n -> ToSet(r)] /\ s \in [1..n -> ToSet(s)]
  BY <1>8 DEF ToSet
<1>10. SameQuotes(r, s, n)
  BY <1>4, <1>5, <1>8 DEF SameQuotes
<1> QED
  BY <1>7, <1>9, <1>10 DEF ReadAlike

\* What a replay bets on an event it opens.
BetFor(e, offer) == BetOn(SlotOf(e, offer), offer.quote.odds, offer.p)

OffersOf(e) == Priced(e, ReadRaw(odds[e.id]), HistoryOf(e))

ReplayBets(e) == {BetFor(e, offer) : offer \in {offer \in ToSet(OffersOf(e)) : Backs(offer)}}

LEMMA ReplayBetsAsStaked ==
  ASSUME ProvidersInv, history \in Seq(CleanRow), NEW e \in CleanRow, PlainlySpelled(e.id)
  PROVE  ReplayBets(e) = Staked(e, history)
<1>1. PICK quotes, r, s : quotes = odds[e.id] /\ r = ReadRaw(quotes) /\ s = ReadQuotes(quotes)
  OBVIOUS
<1>2. PICK n \in Nat : ReadAlike(r, s, n)
  BY <1>1, PlainReadAlike DEF CleanRow
<1>3. PICK p : p = Priced(e, s, history)
  OBVIOUS
<1>4. OffersOf(e) = p
  <2>1. BuildFeatures(e, HistoryOf(e)) = BuildFeatures(e, history)
    BY HistoryIsEnough
  <2>2. Priced(e, r, HistoryOf(e)) = Priced(e, r, history)
    BY <2>1 DEF Priced
  <2>3. Priced(e, r, history) = p
    BY <1>2, <1>3, PricedAlike
  <2> QED
    BY <1>1, <2>2, <2>3 DEF OffersOf
<1>5. PICK reports : reports = ReportsOf(e, history)
  OBVIOUS
<1>6. reports = [k \in DOMAIN p |-> Report(e, p[k])]
  BY <1>1, <1>3, <1>5 DEF ReportsOf
<1>7. ASSUME NEW k \in DOMAIN p
      PROVE  /\ BetOn(reports[k].slot, reports[k].odds, reports[k].p) = BetFor(e, p[k])
             /\ reports[k].kind = "candidate" /\ KellyShare(reports[k].p, reports[k]) > 0
                  <=> Backs(p[k])
  <2>1. PICK o : o = p[k]
    OBVIOUS
  <2>2. reports[k] = Report(e, o)
    BY <1>6, <2>1
  <2>3. /\ reports[k].slot = SlotOf(e, o) /\ reports[k].odds = o.quote.odds
        /\ reports[k].p = o.p
        /\ reports[k].kind = "candidate" <=> Passes(o.p, o.quote, o.market)
    BY <2>2 DEF Report
  <2>4. KellyShare(reports[k].p, reports[k]) = KellyShare(o.p, o.quote)
    BY <2>3 DEF KellyShare
  <2> QED
    BY <2>1, <2>3, <2>4 DEF BetFor, Backs
<1>8. ToSet(reports) = {reports[k] : k \in DOMAIN p} /\ ToSet(p) = {p[k] : k \in DOMAIN p}
  BY <1>6 DEF ToSet
<1>9. \A bet : bet \in Staked(e, history) <=>
        \E k \in DOMAIN p : /\ reports[k].kind = "candidate"
                            /\ KellyShare(reports[k].p, reports[k]) > 0
                            /\ bet = BetOn(reports[k].slot, reports[k].odds, reports[k].p)
  BY <1>5, <1>8 DEF Staked
<1>10. \A bet : bet \in ReplayBets(e) <=>
         \E k \in DOMAIN p : Backs(p[k]) /\ bet = BetFor(e, p[k])
  BY <1>4, <1>8 DEF ReplayBets
<1>11. \A bet : bet \in ReplayBets(e) <=> bet \in Staked(e, history)
  <2> SUFFICES ASSUME NEW bet PROVE bet \in ReplayBets(e) <=> bet \in Staked(e, history)
    OBVIOUS
  <2>1. ASSUME bet \in ReplayBets(e) PROVE bet \in Staked(e, history)
    <3>1. PICK k \in DOMAIN p : Backs(p[k]) /\ bet = BetFor(e, p[k])
      BY <1>10, <2>1
    <3> QED
      BY <1>7, <1>9, <3>1
  <2>2. ASSUME bet \in Staked(e, history) PROVE bet \in ReplayBets(e)
    <3>1. PICK k \in DOMAIN p : /\ reports[k].kind = "candidate"
                                /\ KellyShare(reports[k].p, reports[k]) > 0
                                /\ bet = BetOn(reports[k].slot, reports[k].odds, reports[k].p)
      BY <1>9, <2>2
    <3> QED
      BY <1>7, <1>10, <3>1
  <2> QED
    BY <2>1, <2>2
<1> QED
  BY <1>11, Zenon DEF Staked, ReplayBets

-----------------------------------------------------------------------------
(* The replay opens each event of the window once, and bets on what it     *)
(* opens as long as something is left of the bankroll.                     *)

LEMMA HeadAndTail ==
  ASSUME NEW S, NEW q \in Seq(S), q # <<>>
  PROVE  /\ ToSet(q) = {Head(q)} \cup ToSet(Tail(q))
         /\ \A i \in DOMAIN Tail(q) : i + 1 \in DOMAIN q /\ i + 1 # 1 /\ Tail(q)[i] = q[i + 1]
         /\ DOMAIN Tail(q) \subseteq Nat
<1>1. PICK n \in Nat : n = Len(q) /\ DOMAIN q = 1..n /\ n # 0
  OBVIOUS
<1>a. Tail(q) \in Seq(S)
  OBVIOUS
<1>2. PICK t \in Seq(S) : t = Tail(q)
  BY <1>a
<1>3. DOMAIN t = 1..(n - 1) /\ \A i \in 1..(n - 1) : t[i] = q[i + 1]
  BY <1>1, <1>2
<1>4. Head(q) = q[1] /\ 1 \in 1..n
  BY <1>1
<1>5. \A x : x \in ToSet(q) <=> x = q[1] \/ x \in ToSet(t)
  <2> SUFFICES ASSUME NEW x PROVE x \in ToSet(q) <=> x = q[1] \/ x \in ToSet(t)
    OBVIOUS
  <2>1. ASSUME x \in ToSet(q) PROVE x = q[1] \/ x \in ToSet(t)
    <3>1. PICK i \in 1..n : x = q[i]
      BY <1>1, <2>1 DEF ToSet
    <3>2. CASE i # 1
      <4>1. i - 1 \in 1..(n - 1) /\ t[i - 1] = x
        BY <1>3, <3>1, <3>2
      <4> QED
        BY <1>3, <4>1 DEF ToSet
    <3> QED
      BY <3>1, <3>2
  <2>2. ASSUME x \in ToSet(t) PROVE x \in ToSet(q)
    <3>1. PICK i \in 1..(n - 1) : x = q[i + 1]
      BY <1>3, <2>2 DEF ToSet
    <3>2. i + 1 \in 1..n
      BY <1>1
    <3> QED
      BY <1>1, <3>1, <3>2 DEF ToSet
  <2>3. q[1] \in ToSet(q)
    BY <1>1, <1>4 DEF ToSet
  <2> QED
    BY <2>1, <2>2, <2>3
<1>6. \A i \in 1..(n - 1) : i + 1 \in 1..n /\ i + 1 # 1
  BY <1>1
<1>7. ToSet(q) = {q[1]} \cup ToSet(t)
  BY <1>5
<1> QED
  BY <1>1, <1>2, <1>3, <1>4, <1>6, <1>7

LEMMA AppendedSet ==
  ASSUME NEW S, NEW q \in Seq(S), NEW x
  PROVE  ToSet(Append(q, x)) = ToSet(q) \cup {x}
<1>1. PICK n \in Nat : n = Len(q) /\ DOMAIN q = 1..n
  OBVIOUS
<1>2. PICK T : T = S \cup {x}
  OBVIOUS
<1>3. q \in Seq(T) /\ x \in T
  BY <1>2
<1>4. PICK t : t = Append(q, x)
  OBVIOUS
<1>a. t \in Seq(T) /\ Len(t) = n + 1 /\ t[n + 1] = x /\ \A i \in 1..n : t[i] = q[i]
  BY <1>1, <1>3, <1>4
<1>5. DOMAIN t = 1..(n + 1) /\ t[n + 1] = x /\ \A i \in 1..n : t[i] = q[i]
  BY <1>1, <1>a
<1>6. \A y : y \in ToSet(t) <=> y \in ToSet(q) \/ y = x
  <2> SUFFICES ASSUME NEW y PROVE y \in ToSet(t) <=> y \in ToSet(q) \/ y = x
    OBVIOUS
  <2>1. y \in ToSet(t) <=> \E i \in 1..(n + 1) : t[i] = y
    BY <1>5 DEF ToSet
  <2>2. y \in ToSet(q) <=> \E i \in 1..n : q[i] = y
    BY <1>1 DEF ToSet
  <2>3. \A i \in 1..(n + 1) : i \in 1..n \/ i = n + 1
    OBVIOUS
  <2>4. (\A i \in 1..n : i \in 1..(n + 1)) /\ n + 1 \in 1..(n + 1)
    OBVIOUS
  <2> QED
    BY <1>5, <2>1, <2>2, <2>3, <2>4
<1> QED
  BY <1>4, <1>6

InWindow(e) == Played(e) /\ window.from <= e.start /\ e.start <= window.to

\* What a replay has before it.
QueueInv ==
  /\ phase # "idle" => history = CleanEvents(listing)
  /\ \A i, j \in DOMAIN queue : queue[i].id = queue[j].id => i = j
  /\ \A e \in ToSet(queue) : e \in ToSet(history)
  /\ \A c \in ToSet(current) : c.event \in ToSet(history)
  /\ phase = "done" => queue = <<>> /\ current = <<>>

LEMMA StartedQueue ==
  ASSUME ProvidersInv, StartReplay
  PROVE  /\ history' = CleanEvents(listing)
         /\ \A i, j \in DOMAIN queue' : queue'[i].id = queue'[j].id => i = j
         /\ \A e : e \in ToSet(queue') <=> e \in ToSet(history') /\ InWindow(e)'
<1>1. PICK all : all = CleanEvents(listing) /\ all \in Seq(CleanRow)
  BY CleanType DEF ProvidersInv
<1>2. PICK w : w = window'
  OBVIOUS
<1>3. PICK I : I = {i \in DOMAIN all : Played(all[i]) /\ w.from <= all[i].start
                                                     /\ all[i].start <= w.to}
  OBVIOUS
<1>4. history' = all /\ queue' = Sublist(all, I)
  BY <1>1, <1>2, <1>3 DEF StartReplay
<1>5. PICK n \in Nat : all \in [1..n -> CleanRow] /\ DOMAIN all = 1..n
  BY <1>1
<1>6. PICK S, q : S = CleanRow /\ q = queue'
  OBVIOUS
<1>7. PICK m, pos : TakenIn(S, Sublist(all, I), pos, m, n, I, all)
  BY <1>5, <1>6, SublistType
<1>8. /\ DOMAIN q = 1..m
      /\ \A k \in 1..m : pos[k] \in 1..n /\ pos[k] \in I /\ q[k] = all[pos[k]]
      /\ \A i \in 1..n : i \in I => \E k \in 1..m : pos[k] = i
      /\ \A k, l \in 1..m : pos[k] = pos[l] => k = l
  BY <1>4, <1>6, <1>7 DEF TakenIn, Positions
<1>9. \A i, j \in 1..n : all[i].id = all[j].id => i = j
  BY <1>1, <1>5, IdsDiffer DEF ProvidersInv
<1>10. \A i, j \in DOMAIN q : q[i].id = q[j].id => i = j
  BY <1>8, <1>9
<1>11. ASSUME NEW e
       PROVE  e \in ToSet(q) <=>
                e \in ToSet(all) /\ Played(e) /\ w.from <= e.start /\ e.start <= w.to
  <2>1. e \in ToSet(q) <=> \E k \in 1..m : q[k] = e
    BY <1>8 DEF ToSet
  <2>2. e \in ToSet(all) <=> \E i \in 1..n : all[i] = e
    BY <1>5 DEF ToSet
  <2>3. ASSUME NEW k \in 1..m, q[k] = e
        PROVE  /\ \E i \in 1..n : all[i] = e
               /\ Played(e) /\ w.from <= e.start /\ e.start <= w.to
    <3>1. pos[k] \in 1..n /\ pos[k] \in I /\ all[pos[k]] = e
      BY <1>8, <2>3
    <3> QED
      BY <1>3, <3>1
  <2>4. ASSUME NEW i \in 1..n, all[i] = e, Played(e), w.from <= e.start, e.start <= w.to
        PROVE  \E k \in 1..m : q[k] = e
    <3>1. i \in I
      BY <1>3, <1>5, <2>4
    <3>2. PICK k \in 1..m : pos[k] = i
      BY <1>8, <3>1
    <3> QED
      BY <1>8, <2>4, <3>2
  <2> QED
    BY <2>1, <2>2, <2>3, <2>4
<1>12. \A e : InWindow(e)' <=> Played(e) /\ w.from <= e.start /\ e.start <= w.to
  BY <1>2 DEF InWindow, Played
<1> QED
  BY <1>1, <1>4, <1>6, <1>10, <1>11, <1>12

LEMMA OpenedQueue ==
  ASSUME ReplayInv, QueueInv, OpenEvent
  PROVE  /\ queue # <<>> /\ Head(queue) \in ToSet(queue)
         /\ \A e \in ToSet(queue') : e \in ToSet(queue) /\ e # Head(queue)
         /\ \A e \in ToSet(queue) : e # Head(queue) => e \in ToSet(queue')
         /\ \A i, j \in DOMAIN queue' : queue'[i].id = queue'[j].id => i = j
<1>1. PICK q \in Seq(CleanRow) : q = queue /\ q # <<>>
  BY DEF ReplayInv, OpenEvent
<1>2. PICK t : t = Tail(q) /\ t = queue'
  BY <1>1 DEF OpenEvent
<1>3. /\ ToSet(q) = {Head(q)} \cup ToSet(t)
      /\ \A i \in DOMAIN t : i + 1 \in DOMAIN q /\ i + 1 # 1 /\ t[i] = q[i + 1]
      /\ DOMAIN t \subseteq Nat
  BY <1>1, <1>2, HeadAndTail
<1>4. \A i, j \in DOMAIN q : q[i].id = q[j].id => i = j
  BY <1>1 DEF QueueInv
<1>5. \A i, j \in DOMAIN t : t[i].id = t[j].id => i = j
  <2> SUFFICES ASSUME NEW i \in DOMAIN t, NEW j \in DOMAIN t, t[i].id = t[j].id PROVE i = j
    OBVIOUS
  <2>1. i + 1 = j + 1
    BY <1>3, <1>4
  <2> QED
    BY <1>3, <2>1
<1>6. \A e \in ToSet(t) : e # Head(q)
  <2> SUFFICES ASSUME NEW i \in DOMAIN t, t[i] = Head(q) PROVE FALSE
    BY DEF ToSet
  <2>1. 1 \in DOMAIN q /\ Head(q) = q[1]
    BY <1>1
  <2> QED
    BY <1>3, <1>4, <2>1
<1> QED
  BY <1>1, <1>2, <1>3, <1>5, <1>6

\* What OpenEvent puts under evaluation.
LEMMA OpenedOffers ==
  ASSUME ProvidersInv, ReplayInv, QueueInv, OpenEvent
  PROVE  /\ ToSet(current') = {[event |-> Head(queue), offer |-> o] : o \in ToSet(OffersOf(Head(queue)))}
         /\ Head(queue) \in ToSet(history)
<1>1. PICK e : e = Head(queue)
  OBVIOUS
<1>2. PICK p : p = OffersOf(e)
  OBVIOUS
<1>3. current' = [k \in DOMAIN p |-> [event |-> e, offer |-> p[k]]]
  BY <1>1, <1>2 DEF OpenEvent, OffersOf
<1>4. e \in ToSet(history)
  BY <1>1, OpenedQueue DEF QueueInv
<1>5. ToSet(current') = {[event |-> e, offer |-> p[k]] : k \in DOMAIN p}
  BY <1>3 DEF ToSet
<1>6. ToSet(p) = {p[k] : k \in DOMAIN p}
  BY DEF ToSet
<1> QED
  BY <1>1, <1>2, <1>4, <1>5, <1>6

\* The estimate that a step looks at, and those it leaves for later.
LEMMA EstimateTaken ==
  ASSUME ReplayInv, current # <<>>, current' = Tail(current)
  PROVE  ToSet(current) = {Head(current)} \cup ToSet(current')
<1>1. PICK V : current \in Seq(V)
  BY DEF ReplayInv
<1> QED
  BY <1>1, HeadAndTail

LEMMA QueueStep == ProvidersInv /\ ReplayInv /\ QueueInv /\ [Next]_vars => QueueInv'
<1> SUFFICES ASSUME ProvidersInv, ReplayInv, QueueInv, [Next]_vars PROVE QueueInv'
  OBVIOUS
<1>1. CASE UNCHANGED vars
  BY <1>1 DEF QueueInv, vars, pipelineVars, providers, replayVars
<1>2. CASE phase = "idle" /\ UNCHANGED replayVars
  BY <1>2 DEF QueueInv, replayVars
<1>3. CASE StartReplay
  <2>1. phase' = "running" /\ current' = <<>> /\ listing' = listing
    BY <1>3 DEF StartReplay, pipelineVars, providers
  <2>2. ToSet(current') = {}
    BY <2>1 DEF ToSet
  <2> QED
    BY <1>3, <2>1, <2>2, StartedQueue DEF QueueInv
<1>4. CASE OpenEvent
  <2>1. phase' = phase /\ phase = "running" /\ listing' = listing /\ history' = history
    BY <1>4 DEF OpenEvent, pipelineVars, providers
  <2>2. \A c \in ToSet(current') : c.event \in ToSet(history)
    BY <1>4, OpenedOffers
  <2> QED
    BY <1>4, <2>1, <2>2, OpenedQueue DEF QueueInv
<1>5. CASE PassOver \/ PlaceBet
  <2>1. /\ phase' = phase /\ phase = "running" /\ listing' = listing /\ history' = history
        /\ queue' = queue /\ current # <<>> /\ current' = Tail(current)
    BY <1>5 DEF PassOver, PlaceBet, pipelineVars, providers
  <2>2. \A c \in ToSet(current') : c.event \in ToSet(history)
    BY <2>1, EstimateTaken DEF QueueInv
  <2> QED
    BY <2>1, <2>2 DEF QueueInv
<1>6. CASE EndReplay
  BY <1>6 DEF EndReplay, QueueInv, pipelineVars, providers
<1> QED
  BY <1>1, <1>2, <1>3, <1>4, <1>5, <1>6 DEF Next, ReplayStep

LEMMA QueueInvariant == Spec => []QueueInv
<1>1. Init => QueueInv
  BY DEF Init, QueueInv, ToSet
<1> QED
  BY <1>1, QueueStep, ProvidersInvariant, ReplayInvariant, PTL DEF Spec

\* What a replay has bet on an event, and what it is about to bet.
Recorded(id) == {r.bet : r \in {r \in ToSet(records) : r.bet.slot.event = id}}

Pending(e) == {BetFor(e, c.offer) : c \in {c \in ToSet(current) : c.event = e /\ Backs(c.offer)}}

\* Nothing before the event is opened, everything once it is evaluated.
Reached(e) ==
  IF e \in ToSet(queue) THEN Recorded(e.id) = {} /\ Pending(e) = {}
                        ELSE Recorded(e.id) \cup Pending(e) = ReplayBets(e)

Progress ==
  phase # "idle" /\ bankroll > 0 => \A e \in ToSet(history) : InWindow(e) => Reached(e)

LEMMA HistoryIds ==
  ASSUME ProvidersInv, QueueInv, phase # "idle"
  PROVE  \A d, e \in ToSet(history) : d.id = e.id => d = e
<1>1. \A k, l \in DOMAIN history : history[k].id = history[l].id => k = l
  BY IdsDiffer DEF ProvidersInv, QueueInv
<1> QED
  BY <1>1 DEF ToSet

LEMMA ReachedAsBefore ==
  ASSUME UNCHANGED <<odds, history, queue, current, records>>, NEW e
  PROVE  Reached(e)' <=> Reached(e)
  BY DEF Reached, Recorded, Pending, ReplayBets, OffersOf, HistoryOf

LEMMA PlacedBet ==
  ASSUME ReplayInv, PlaceBet, NEW id, NEW bet, bet = BetFor(Head(current).event, Offer)
  PROVE  Recorded(id)' = IF Head(current).event.id = id THEN Recorded(id) \cup {bet}
                                                         ELSE Recorded(id)
<1>1. PICK d : d = Head(current).event
  OBVIOUS
<1>2. PICK r : /\ records' = Append(records, r)
               /\ r.bet = BetOn(SlotOf(d, Offer), Offer.quote.odds, Offer.p)
  <2>1. PICK r : r = [bet |-> BetOn(SlotOf(d, Offer), Offer.quote.odds, Offer.p),
                      stake |-> StakeNow, won |-> Wins(Offer.selection, d.result),
                      profit |-> Profit(StakeNow, Offer.quote.odds, Wins(Offer.selection, d.result)),
                      bankrollAfter |-> bankroll
                        + Profit(StakeNow, Offer.quote.odds, Wins(Offer.selection, d.result))]
    OBVIOUS
  <2>2. records' = Append(records, r)
    BY <1>1, <2>1 DEF PlaceBet
  <2> QED
    BY <2>1, <2>2
<1>3. r.bet = bet /\ r.bet.slot.event = d.id
  BY <1>1, <1>2 DEF BetFor, BetOn, SlotOf
<1>4. PICK R : records \in Seq(R)
  BY DEF ReplayInv
<1>5. ToSet(records') = ToSet(records) \cup {r}
  BY <1>2, <1>4, AppendedSet
<1>6. PICK old, new : old = ToSet(records) /\ new = ToSet(records')
  OBVIOUS
<1>7. /\ Recorded(id) = {x.bet : x \in {x \in old : x.bet.slot.event = id}}
      /\ Recorded(id)' = {x.bet : x \in {x \in new : x.bet.slot.event = id}}
  BY <1>6 DEF Recorded
<1> QED
  BY <1>1, <1>3, <1>5, <1>6, <1>7

LEMMA ProgressStep ==
  ProvidersInv /\ ReplayInv /\ QueueInv /\ Progress /\ [Next]_vars => Progress'
<1> SUFFICES ASSUME ProvidersInv, ReplayInv, QueueInv, Progress, [Next]_vars,
                    phase' # "idle", bankroll' > 0, NEW e \in ToSet(history)', InWindow(e)'
             PROVE  Reached(e)'
  BY DEF Progress
<1>1. ASSUME phase # "idle", bankroll > 0, history' = history, window' = window
      PROVE  Reached(e) /\ e \in ToSet(history)
  BY <1>1 DEF Progress, InWindow, Played
<1>2. CASE UNCHANGED vars
  BY <1>1, <1>2, ReachedAsBefore DEF vars, pipelineVars, providers, replayVars
<1>3. CASE EndReplay
  BY <1>1, <1>3, ReachedAsBefore DEF EndReplay, pipelineVars, providers
<1>4. CASE StartReplay
  <2>1. e \in ToSet(queue')
    BY <1>4, StartedQueue
  <2>2. records' = <<>> /\ current' = <<>>
    BY <1>4 DEF StartReplay
  <2>3. ToSet(records') = {} /\ ToSet(current') = {}
    BY <2>2 DEF ToSet
  <2>4. Recorded(e.id)' = {} /\ Pending(e)' = {}
    BY <2>3 DEF Recorded, Pending
  <2> QED
    BY <2>1, <2>4 DEF Reached
<1>5. CASE OpenEvent
  <2>1. /\ phase = "running" /\ current = <<>> /\ UNCHANGED <<odds, window, history, bankroll, records>>
    BY <1>5 DEF OpenEvent, pipelineVars, providers
  <2>2. Reached(e)
    BY <1>1, <2>1
  <2>3. PICK h : h = Head(queue)
    OBVIOUS
  <2>4. ToSet(current') = {[event |-> h, offer |-> o] : o \in ToSet(OffersOf(h))}
    BY <1>5, <2>3, OpenedOffers
  <2>5. Recorded(e.id)' = Recorded(e.id)
    BY <2>1 DEF Recorded
  <2>6. ReplayBets(e)' = ReplayBets(e)
    BY <2>1 DEF ReplayBets, OffersOf, HistoryOf
  <2>7. PICK now1 : now1 = ToSet(current')
    OBVIOUS
  <2>8. Pending(e)' = {BetFor(e, c.offer) : c \in {c \in now1 : c.event = e /\ Backs(c.offer)}}
    BY <2>7 DEF Pending
  <2>9. CASE e = h
    <3>1. e \in ToSet(queue) /\ e \notin ToSet(queue')
      BY <1>5, <2>3, <2>9, OpenedQueue
    <3>2. Recorded(e.id) = {}
      BY <2>2, <3>1 DEF Reached
    <3>3. PICK offers : offers = ToSet(OffersOf(e))
      OBVIOUS
    <3>4. Pending(e)' = {BetFor(e, o) : o \in {o \in offers : Backs(o)}}
      <4>1. now1 = {[event |-> e, offer |-> o] : o \in offers}
        BY <2>4, <2>7, <2>9, <3>3
      <4>2. PICK Bets : Bets = {BetFor(e, o) : o \in {o \in offers : Backs(o)}}
        OBVIOUS
      <4>3. ASSUME NEW b \in Pending(e)'
            PROVE  b \in Bets
        <5>1. PICK c \in now1 : b = BetFor(e, c.offer) /\ c.event = e /\ Backs(c.offer)
          BY <2>8, <4>3
        <5>2. c.offer \in offers
          BY <4>1, <5>1
        <5> QED
          BY <4>2, <5>1, <5>2
      <4>4. ASSUME NEW b \in Bets
            PROVE  b \in Pending(e)'
        <5>1. PICK o \in offers : b = BetFor(e, o) /\ Backs(o)
          BY <4>2, <4>4
        <5>2. PICK c : c = [event |-> e, offer |-> o]
          OBVIOUS
        <5>3. c \in now1 /\ c.event = e /\ c.offer = o
          BY <4>1, <5>1, <5>2
        <5> QED
          BY <2>8, <5>1, <5>3
      <4> QED
        BY <4>2, <4>3, <4>4
    <3>5. Pending(e)' = ReplayBets(e)
      BY <3>3, <3>4 DEF ReplayBets
    <3> QED
      BY <2>5, <2>6, <3>1, <3>2, <3>5 DEF Reached
  <2>10. CASE e # h
    <3>1. e \in ToSet(queue) <=> e \in ToSet(queue')
      BY <1>5, <2>3, <2>10, OpenedQueue
    <3>2. Pending(e)' = {}
      BY <2>4, <2>7, <2>8, <2>10
    <3>3. Pending(e) = {}
      BY <2>1 DEF Pending, ToSet
    <3> QED
      BY <2>2, <2>5, <2>6, <3>1, <3>2, <3>3 DEF Reached
  <2> QED
    BY <2>9, <2>10
<1>6. ASSUME PassOver \/ PlaceBet, NEW c, c = Head(current)
      PROVE  /\ phase = "running" /\ UNCHANGED <<odds, window, history, queue>>
             /\ c.offer = Offer
             /\ ReplayBets(e)' = ReplayBets(e)
             /\ c.event = e /\ Backs(Offer) => Pending(e) = Pending(e)' \cup {BetFor(e, Offer)}
             /\ ~(c.event = e /\ Backs(Offer)) => Pending(e) = Pending(e)'
  <2>1. /\ current # <<>> /\ current' = Tail(current)
        /\ phase = "running" /\ UNCHANGED <<odds, window, history, queue>>
    BY <1>6 DEF PassOver, PlaceBet, pipelineVars, providers
  <2>2. PICK old, new : old = ToSet(current) /\ new = ToSet(current')
    OBVIOUS
  <2>3. old = {c} \cup new
    BY <1>6, <2>1, <2>2, EstimateTaken
  <2>4. /\ Pending(e) = {BetFor(e, x.offer) : x \in {x \in old : x.event = e /\ Backs(x.offer)}}
        /\ Pending(e)' = {BetFor(e, x.offer) : x \in {x \in new : x.event = e /\ Backs(x.offer)}}
    BY <2>2 DEF Pending
  <2>5. c.offer = Offer
    BY <1>6 DEF Offer
  <2>6. ReplayBets(e)' = ReplayBets(e)
    BY <2>1 DEF ReplayBets, OffersOf, HistoryOf
  <2> QED
    BY <2>1, <2>3, <2>4, <2>5, <2>6
<1>7. CASE PassOver
  <2>1. PICK c : c = Head(current)
    OBVIOUS
  <2>2. bankroll' = bankroll /\ records' = records /\ ~GetsStake
    BY <1>7 DEF PassOver
  <2>3. ~Backs(Offer)
    BY <2>2 DEF GetsStake
  <2>4. /\ phase = "running" /\ UNCHANGED <<odds, window, history, queue>>
        /\ ReplayBets(e)' = ReplayBets(e) /\ Pending(e) = Pending(e)'
    BY <1>6, <1>7, <2>1, <2>3
  <2>5. Reached(e)
    BY <1>1, <2>2, <2>4
  <2>6. Recorded(e.id)' = Recorded(e.id)
    BY <2>2 DEF Recorded
  <2> QED
    BY <2>4, <2>5, <2>6 DEF Reached
<1>8. CASE PlaceBet
  <2>1. PICK c, bet : c = Head(current) /\ bet = BetFor(c.event, Offer)
    OBVIOUS
  <2>2. Backs(Offer) /\ bankroll > 0 /\ current # <<>>
    BY <1>8 DEF PlaceBet, GetsStake
  <2>3. /\ phase = "running" /\ UNCHANGED <<odds, window, history, queue>>
        /\ ReplayBets(e)' = ReplayBets(e)
        /\ c.event = e => Pending(e) = Pending(e)' \cup {bet}
        /\ c.event # e => Pending(e) = Pending(e)'
    BY <1>6, <1>8, <2>1, <2>2
  <2>4. Reached(e) /\ e \in ToSet(history)
    BY <1>1, <2>2, <2>3
  <2>5. Recorded(e.id)' = IF c.event.id = e.id THEN Recorded(e.id) \cup {bet} ELSE Recorded(e.id)
    BY <1>8, <2>1, PlacedBet
  <2>6. CASE c.event = e
    <3>1. e \notin ToSet(queue)
      BY <2>3, <2>4, <2>6 DEF Reached
    <3>2. Recorded(e.id)' \cup Pending(e)' = ReplayBets(e)
      BY <2>3, <2>4, <2>5, <2>6, <3>1 DEF Reached
    <3> QED
      BY <2>3, <3>1, <3>2 DEF Reached
  <2>7. CASE c.event # e
    <3>1. c \in ToSet(current)
      <4>1. PICK V : current \in Seq(V)
        BY DEF ReplayInv
      <4> QED
        BY <2>1, <2>2, <4>1, HeadAndTail
    <3>2. c.event \in ToSet(history)
      BY <3>1 DEF QueueInv
    <3>3. c.event.id # e.id
      BY <2>3, <2>4, <2>7, <3>2, HistoryIds
    <3> QED
      BY <2>3, <2>4, <2>5, <2>7, <3>3 DEF Reached
  <2> QED
    BY <2>6, <2>7
<1>9. CASE phase = "idle" /\ PipelineNext /\ UNCHANGED replayVars
  BY <1>9 DEF replayVars
<1> QED
  BY <1>2, <1>3, <1>4, <1>5, <1>7, <1>8, <1>9 DEF Next, ReplayStep

LEMMA ProgressInvariant == Spec => []Progress
<1>1. Init => Progress
  BY DEF Init, Progress
<1> QED
  BY <1>1, ProgressStep, ProvidersInvariant, ReplayInvariant, QueueInvariant, PTL DEF Spec

\* engine.py:1-3: for any programmes, quotes, model and window, the bets a replay
\* places on an event are those a pass proposed for it before it was played, once
\* all earlier matches were over, and whatever was played since, as long as the
\* bankroll lasts and its quotes are spelled plainly.
THEOREM ReplaysReproduceThePasses == Spec => []ReplayReproducesThePipeline
<1>1. ASSUME ProvidersInv, ReplayInv, QueueInv, Progress, ProposalsStand
      PROVE  ReplayReproducesThePipeline
  <2> SUFFICES ASSUME phase = "done", bankroll > 0, NEW e \in ToSet(history), InWindow(e),
                      proposed[e.id].known, PlainlySpelled(e.id)
               PROVE  Recorded(e.id) = proposed[e.id].bets
    BY DEF ReplayReproducesThePipeline, InWindow, Recorded
  <2>1. queue = <<>> /\ current = <<>> /\ history = CleanEvents(listing)
    BY <1>1 DEF QueueInv
  <2>2. e \notin ToSet(queue) /\ Pending(e) = {}
    BY <2>1 DEF Pending, ToSet
  <2>3. Reached(e)
    BY <1>1 DEF Progress
  <2>4. Recorded(e.id) = ReplayBets(e)
    BY <2>2, <2>3 DEF Reached
  <2>5. history \in Seq(CleanRow) /\ e \in CleanRow
    BY <1>1 DEF ReplayInv, ToSet
  <2>6. ReplayBets(e) = Staked(e, history)
    BY <1>1, <2>5, ReplayBetsAsStaked
  <2>7. Stands(proposed[e.id], e.id, listing)
    BY <1>1, <2>5 DEF ProposalsStand, CleanRow
  <2>8. PICK d \in ToSet(history) : d.id = e.id /\ proposed[e.id].bets = Staked(d, history)
    BY <2>1, <2>7 DEF Stands
  <2>9. d = e
    BY <1>1, <2>8, HistoryIds
  <2> QED
    BY <2>4, <2>6, <2>8, <2>9
<1> QED
  BY <1>1, ProvidersInvariant, ReplayInvariant, QueueInvariant, ProgressInvariant,
     ProposalsAlwaysStand, PTL

=============================================================================
