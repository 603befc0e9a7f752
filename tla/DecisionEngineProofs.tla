------------------------ MODULE DecisionEngineProofs -------------------------
(***************************************************************************)
(* Proofs about DecisionEngine, for any table of offers, any limit and any *)
(* growth that satisfies the assumptions.                                  *)
(*                                                                         *)
(* A bet on offers without value, or dominated, is improved one offer at a *)
(* time until only offers that survive the pruning are left: the one       *)
(* without value is dropped, the dominated one gives way to one that       *)
(* dominates it.  The engine's choice is then the first of what is left.   *)
(***************************************************************************)
EXTENDS DecisionEngine, FiniteSetTheorems, WellFoundedInduction, TLAPS

-----------------------------------------------------------------------------
(* Finite sets and orders, given as sets of pairs.                         *)

LEMMA LeastNumber ==
  ASSUME NEW T \in SUBSET Nat, T # {}
  PROVE  \E n \in T : \A m \in T : n <= m
<1> DEFINE less == OpToRel(<, Nat)
<1>1. \A n, m \in Nat : <<m, n>> \notin less => n <= m
  BY DEF OpToRel
<1>2. IsWellFoundedOn(less, Nat)
  BY NatLessThanWellFounded
<1> HIDE DEF less
<1>3. \E n \in T : \A m \in T : <<m, n>> \notin less
  BY <1>2, WFMin
<1>4. QED
  BY <1>1, <1>3

\* What a finite set has in any strict order: something nothing comes before.
LEMMA SomethingFirst ==
  ASSUME NEW S, IsFiniteSet(S), S # {}, NEW R,
         \A x \in S : <<x, x>> \notin R,
         \A x, y, z \in S : <<x, y>> \in R /\ <<y, z>> \in R => <<x, z>> \in R
  PROVE  \E m \in S : \A y \in S : <<y, m>> \notin R
<1> DEFINE Below(x) == {y \in S : <<y, x>> \in R}
<1>1. PICK rank : rank = [x \in S |-> Cardinality(Below(x))]
  OBVIOUS
<1>2. \A x \in S : IsFiniteSet(Below(x)) /\ rank[x] = Cardinality(Below(x))
  BY <1>1, FS_Subset
<1>3. \A x \in S : rank[x] \in Nat
  BY <1>1, <1>2, FS_CardinalityType
<1>4. ASSUME NEW x \in S, NEW y \in S, <<y, x>> \in R PROVE rank[y] < rank[x]
  <2>1. PICK big : big = Below(x)
    OBVIOUS
  <2>2. PICK small : small = Below(y)
    OBVIOUS
  <2>3. small \in SUBSET big
    BY <1>4, <2>1, <2>2
  <2>4. y \in big /\ y \notin small
    BY <1>4, <2>1, <2>2
  <2>5. rank[x] = Cardinality(big) /\ rank[y] = Cardinality(small) /\ IsFiniteSet(big)
    BY <1>2, <2>1, <2>2
  <2>6. /\ Cardinality(small) <= Cardinality(big)
        /\ Cardinality(big) = Cardinality(small) => big = small
    BY <2>3, <2>5, FS_Subset
  <2>7. QED
    BY <1>3, <2>4, <2>5, <2>6
<1>5. PICK n \in {rank[x] : x \in S} : \A k \in {rank[x] : x \in S} : n <= k
  <2>1. PICK ranks : ranks = {rank[x] : x \in S}
    OBVIOUS
  <2>2. ranks \in SUBSET Nat
    BY <1>3, <2>1
  <2>3. ranks # {}
    BY <2>1
  <2>4. QED
    BY <2>1, <2>2, <2>3, LeastNumber
<1>6. PICK m \in S : n = rank[m]
  BY <1>5
<1>7. ASSUME NEW y \in S, <<y, m>> \in R PROVE FALSE
  <2>1. rank[y] < rank[m] /\ rank[m] <= rank[y]
    BY <1>4, <1>5, <1>6, <1>7
  <2>2. QED
    BY <1>3, <2>1
<1>8. QED
  BY <1>7

LEMMA FirstOfAll ==
  ASSUME NEW S, IsFiniteSet(S), S # {}, NEW R,
         \A x \in S : <<x, x>> \notin R,
         \A x, y, z \in S : <<x, y>> \in R /\ <<y, z>> \in R => <<x, z>> \in R,
         \A x, y \in S : x # y => <<x, y>> \in R \/ <<y, x>> \in R
  PROVE  \E m \in S : \A y \in S \ {m} : <<m, y>> \in R
<1>1. PICK m \in S : \A y \in S : <<y, m>> \notin R
  BY SomethingFirst
<1>2. QED
  BY <1>1

LEMMA OneLess ==
  ASSUME NEW c, IsFiniteSet(c), NEW x \in c
  PROVE  /\ IsFiniteSet(c \ {x}) /\ Cardinality(c \ {x}) = Cardinality(c) - 1
         /\ Cardinality(c) \in Nat /\ Cardinality(c \ {x}) \in Nat
<1>1. IsFiniteSet(c \ {x})
  BY FS_RemoveElement
<1>2. Cardinality(c \ {x}) = Cardinality(c) - 1
  BY FS_RemoveElement
<1>3. QED
  BY <1>1, <1>2, FS_CardinalityType

LEMMA OneAndTwo ==
  ASSUME NEW i, NEW j, i # j
  PROVE  /\ IsFiniteSet({i}) /\ Cardinality({i}) = 1
         /\ IsFiniteSet({i, j}) /\ Cardinality({i, j}) = 2
<1>1. IsFiniteSet({i}) /\ Cardinality({i}) = 1
  BY FS_Singleton
<1>2. IsFiniteSet({i} \cup {j}) /\ Cardinality({i} \cup {j}) = Cardinality({i}) + 1
  BY <1>1, FS_AddElement
<1>3. {i} \cup {j} = {i, j}
  OBVIOUS
<1>4. QED
  BY <1>1, <1>2, <1>3

LEMMA Sizes ==
  ASSUME NEW c, IsFiniteSet(c)
  PROVE  /\ Cardinality(c) = 1 => \E i : c = {i}
         /\ Cardinality(c) = 2 => \E i, j : i # j /\ c = {i, j}
         /\ Cardinality(c) = 3 => \E i, j, k : i # j /\ j # k /\ i # k /\ c = {i, j, k}
<1>1. ASSUME NEW d, IsFiniteSet(d), Cardinality(d) = 1 PROVE \E i : d = {i}
  BY <1>1, FS_Singleton
<1>2. ASSUME NEW d, IsFiniteSet(d), Cardinality(d) = 2 PROVE \E i, j : i # j /\ d = {i, j}
  <2>1. PICK i \in d : TRUE
    BY <1>2, FS_EmptySet
  <2>2. IsFiniteSet(d \ {i}) /\ Cardinality(d \ {i}) = 1
    BY <1>2, <2>1, FS_RemoveElement
  <2>3. PICK j : d \ {i} = {j}
    BY <1>1, <2>2
  <2>4. QED
    BY <2>1, <2>3
<1>3. ASSUME Cardinality(c) = 3
      PROVE  \E i, j, k : i # j /\ j # k /\ i # k /\ c = {i, j, k}
  <2>1. PICK i \in c : TRUE
    BY <1>3, FS_EmptySet
  <2>2. IsFiniteSet(c \ {i}) /\ Cardinality(c \ {i}) = 2
    BY <1>3, <2>1, FS_RemoveElement
  <2>3. PICK j, k : j # k /\ c \ {i} = {j, k}
    BY <1>2, <2>2
  <2>4. c = {i, j, k} /\ i # j /\ i # k
    BY <2>1, <2>3
  <2>5. QED
    BY <2>3, <2>4
<1>4. QED
  BY <1>1, <1>2, <1>3

-----------------------------------------------------------------------------
(* Products of one, two or three factors.                                  *)

IsProduct(prod, f, c) ==
  prod = [s \in SUBSET c |->
            IF s = {} THEN 1 ELSE f[CHOOSE x \in s : TRUE] * prod[s \ {CHOOSE x \in s : TRUE}]]

\* The product of at most n factors, whatever comes after them.
UpTo0(f, s) == 1
UpTo1(f, s) == IF s = {} THEN 1 ELSE f[CHOOSE x \in s : TRUE] * UpTo0(f, s \ {CHOOSE x \in s : TRUE})
UpTo2(f, s) == IF s = {} THEN 1 ELSE f[CHOOSE x \in s : TRUE] * UpTo1(f, s \ {CHOOSE x \in s : TRUE})
UpTo3(f, s) == IF s = {} THEN 1 ELSE f[CHOOSE x \in s : TRUE] * UpTo2(f, s \ {CHOOSE x \in s : TRUE})

LEMMA UpToEnough ==
  ASSUME NEW f, NEW s, IsFiniteSet(s), Cardinality(s) <= 2
  PROVE  UpTo3(f, s) = UpTo2(f, s)
<1> DEFINE Pick(r) == CHOOSE x \in r : TRUE
<1>1. ASSUME NEW r, IsFiniteSet(r), r # {}
      PROVE  /\ IsFiniteSet(r \ {Pick(r)}) /\ Cardinality(r \ {Pick(r)}) = Cardinality(r) - 1
             /\ Cardinality(r) \in Nat
  <2>1. Pick(r) \in r
    BY <1>1
  <2> HIDE DEF Pick
  <2>2. QED
    BY <1>1, <2>1, FS_RemoveElement, FS_CardinalityType
<1>2. \A r : IsFiniteSet(r) /\ Cardinality(r) <= 0 => r = {}
  BY FS_EmptySet, FS_CardinalityType
<1>3. \A r : IsFiniteSet(r) /\ Cardinality(r) <= 0 => UpTo1(f, r) = UpTo0(f, r)
  BY <1>2 DEF UpTo1, UpTo0
<1>4. ASSUME NEW r, IsFiniteSet(r), Cardinality(r) <= 1 PROVE UpTo2(f, r) = UpTo1(f, r)
  <2>1. CASE r = {}
    BY <2>1 DEF UpTo2, UpTo1
  <2>2. CASE r # {}
    <3>1. IsFiniteSet(r \ {Pick(r)}) /\ Cardinality(r \ {Pick(r)}) <= 0
      BY <1>1, <1>4, <2>2
    <3>2. UpTo1(f, r \ {Pick(r)}) = UpTo0(f, r \ {Pick(r)})
      BY <1>3, <3>1
    <3>3. QED
      BY <2>2, <3>2 DEF UpTo2, UpTo1
  <2>3. QED
    BY <2>1, <2>2
<1>5. CASE s = {}
  BY <1>5 DEF UpTo3, UpTo2
<1>6. CASE s # {}
  <2>1. IsFiniteSet(s \ {Pick(s)}) /\ Cardinality(s \ {Pick(s)}) <= 1
    BY <1>1, <1>6
  <2>2. UpTo2(f, s \ {Pick(s)}) = UpTo1(f, s \ {Pick(s)})
    BY <1>4, <2>1
  <2>3. QED
    BY <1>6, <2>2 DEF UpTo3, UpTo2
<1>7. QED
  BY <1>5, <1>6

\* The library's product is the only function that takes off one factor at a time.
LEMMA ProductIsUpTo3 ==
  ASSUME NEW f, NEW c, IsFiniteSet(c), Cardinality(c) <= 3
  PROVE  Product(f, c) = UpTo3(f, c)
<1> DEFINE Pick(s) == CHOOSE x \in s : TRUE
           upTo3 == [s \in SUBSET c |-> UpTo3(f, s)]
<1>1. ASSUME NEW s \in SUBSET c, s # {}
      PROVE  /\ s \ {Pick(s)} \in SUBSET c
             /\ IsFiniteSet(s) /\ Cardinality(s) \in Nat
             /\ Cardinality(s \ {Pick(s)}) = Cardinality(s) - 1
             /\ UpTo3(f, s) = f[Pick(s)] * UpTo3(f, s \ {Pick(s)})
  <2>1. PICK x : x = Pick(s)
    OBVIOUS
  <2>2. x \in s
    BY <1>1, <2>1
  <2>3. IsFiniteSet(s) /\ Cardinality(s) <= 3 /\ Cardinality(s) \in Nat
    BY FS_Subset, FS_CardinalityType
  <2>4. /\ IsFiniteSet(s \ {x}) /\ Cardinality(s \ {x}) <= 2
        /\ Cardinality(s \ {x}) = Cardinality(s) - 1
    BY <2>2, <2>3, OneLess
  <2>5. UpTo3(f, s \ {x}) = UpTo2(f, s \ {x})
    BY <2>4, UpToEnough
  <2>6. UpTo3(f, s) = f[x] * UpTo2(f, s \ {x})
    BY <1>1, <2>1 DEF UpTo3
  <2>7. QED
    BY <2>1, <2>3, <2>4, <2>5, <2>6
<1>2. IsProduct(upTo3, f, c)
  <2>1. \A s \in SUBSET c :
          upTo3[s] = IF s = {} THEN 1 ELSE f[Pick(s)] * upTo3[s \ {Pick(s)}]
    <3>1. UpTo3(f, {}) = 1
      BY DEF UpTo3
    <3> HIDE DEF Pick
    <3>2. QED
      BY <1>1, <3>1
  <2> DEFINE g == [s \in SUBSET c |-> IF s = {} THEN 1 ELSE f[Pick(s)] * upTo3[s \ {Pick(s)}]]
  <2>2. upTo3 = g
    <3>1. \A s \in SUBSET c : upTo3[s] = g[s]
      BY <2>1
    <3> HIDE DEF Pick
    <3>2. QED
      BY <3>1
  <2>3. QED
    BY <2>2 DEF IsProduct
<1>3. PICK prod : IsProduct(prod, f, c) /\ Product(f, c) = prod[c]
  <2>1. Product(f, c) = (CHOOSE prod : IsProduct(prod, f, c))[c]
    BY DEF Product, IsProduct, FoldSet, MapThenFoldSet
  <2> HIDE DEF upTo3
  <2>2. QED
    BY <1>2, <2>1
<1> DEFINE Wrong == {n \in Nat : \E s \in SUBSET c : Cardinality(s) = n /\ prod[s] # UpTo3(f, s)}
<1>4. Wrong = {}
  <2> SUFFICES ASSUME Wrong # {} PROVE FALSE
    OBVIOUS
  <2>1. PICK n \in Wrong : \A m \in Wrong : n <= m
    <3>1. Wrong \in SUBSET Nat
      OBVIOUS
    <3> HIDE DEF Wrong
    <3>2. QED
      BY <3>1, LeastNumber
  <2>2. PICK s \in SUBSET c : Cardinality(s) = n /\ prod[s] # UpTo3(f, s)
    BY <2>1
  <2>3. s # {}
    BY <1>3, <2>2 DEF IsProduct, UpTo3
  <2>4. PICK r : r = s \ {Pick(s)}
    OBVIOUS
  <2>5. prod[s] = f[Pick(s)] * prod[r]
    BY <1>3, <2>3, <2>4 DEF IsProduct
  <2>6. /\ r \in SUBSET c /\ Cardinality(r) = n - 1 /\ n \in Nat
        /\ UpTo3(f, s) = f[Pick(s)] * UpTo3(f, r)
    BY <1>1, <2>2, <2>3, <2>4
  <2> HIDE DEF Pick
  <2>7. prod[r] # UpTo3(f, r)
    BY <2>2, <2>5, <2>6
  <2>8. Cardinality(r) \in Nat
    <3>1. IsFiniteSet(r)
      BY <2>6, FS_Subset
    <3>2. QED
      BY <3>1, FS_CardinalityType
  <2>9. n - 1 \in Wrong
    BY <2>6, <2>7, <2>8
  <2>10. QED
    BY <2>1, <2>6, <2>9
<1>5. Cardinality(c) \in Nat
  BY FS_CardinalityType
<1>6. QED
  BY <1>3, <1>4, <1>5

\* One of the factors comes off.
LEMMA ProductStep ==
  ASSUME NEW f, NEW c, IsFiniteSet(c), Cardinality(c) <= 3, c # {}
  PROVE  \E x \in c : Product(f, c) = f[x] * Product(f, c \ {x})
<1>1. PICK x : x = CHOOSE y \in c : TRUE
  OBVIOUS
<1>2. x \in c
  BY <1>1
<1>3. IsFiniteSet(c \ {x}) /\ Cardinality(c \ {x}) <= 2 /\ Cardinality(c \ {x}) <= 3
  BY <1>2, OneLess
<1>4. Product(f, c) = UpTo3(f, c) /\ Product(f, c \ {x}) = UpTo3(f, c \ {x})
  BY <1>3, ProductIsUpTo3
<1>5. UpTo3(f, c) = f[x] * UpTo2(f, c \ {x})
  BY <1>1 DEF UpTo3
<1>6. UpTo3(f, c \ {x}) = UpTo2(f, c \ {x})
  BY <1>3, UpToEnough
<1>7. QED
  BY <1>2, <1>4, <1>5, <1>6

LEMMA ProductOfNone == ASSUME NEW f PROVE Product(f, {}) = 1
<1>1. IsFiniteSet({}) /\ Cardinality({}) <= 3
  BY FS_EmptySet
<1>2. QED
  BY <1>1, ProductIsUpTo3 DEF UpTo3

LEMMA ProductOfOne ==
  ASSUME NEW f, NEW i, f[i] \in Int
  PROVE  Product(f, {i}) = f[i]
<1>1. IsFiniteSet({i}) /\ Cardinality({i}) <= 3 /\ {i} # {}
  <2>1. IsFiniteSet({i}) /\ Cardinality({i}) = 1
    BY FS_Singleton
  <2>2. QED
    BY <2>1
<1>2. PICK x \in {i} : Product(f, {i}) = f[x] * Product(f, {i} \ {x})
  BY <1>1, ProductStep
<1>3. x = i /\ {i} \ {x} = {}
  BY <1>2
<1>4. QED
  BY <1>2, <1>3, ProductOfNone

LEMMA ProductOfTwo ==
  ASSUME NEW f, NEW i, NEW j, i # j, f[i] \in Int, f[j] \in Int
  PROVE  Product(f, {i, j}) = f[i] * f[j]
<1>1. PICK c : c = {i, j}
  OBVIOUS
<1>2. IsFiniteSet(c) /\ Cardinality(c) <= 3 /\ c # {}
  <2>1. IsFiniteSet(c) /\ Cardinality(c) = 2
    BY <1>1, OneAndTwo
  <2>2. QED
    BY <1>1, <2>1
<1>3. PICK x \in c : Product(f, c) = f[x] * Product(f, c \ {x})
  BY <1>2, ProductStep
<1>4. CASE x = i
  <2>1. c \ {x} = {j}
    BY <1>1, <1>4
  <2>2. QED
    BY <1>1, <1>3, <1>4, <2>1, ProductOfOne
<1>5. CASE x = j
  <2>1. c \ {x} = {i}
    BY <1>1, <1>5
  <2>2. Product(f, c) = f[j] * f[i]
    BY <1>3, <1>5, <2>1, ProductOfOne
  <2>3. QED
    BY <1>1, <2>2
<1>6. QED
  BY <1>1, <1>3, <1>4, <1>5

\* Whichever factor is taken out, the product is the same.
LEMMA TakeOut ==
  ASSUME NEW f, NEW c, IsFiniteSet(c), Cardinality(c) \in 1..3,
         \A i \in c : f[i] \in Nat \ {0}, NEW x \in c
  PROVE  /\ Product(f, c) = f[x] * Product(f, c \ {x})
         /\ Product(f, c) \in Nat \ {0} /\ Product(f, c \ {x}) \in Nat \ {0}
<1>1. CASE Cardinality(c) = 1
  <2>1. c = {x} /\ c \ {x} = {}
    BY <1>1, Sizes
  <2>2. f[x] \in Nat \ {0}
    OBVIOUS
  <2>3. Product(f, {x}) = f[x] /\ Product(f, {}) = 1
    BY <2>2, ProductOfOne, ProductOfNone
  <2>4. QED
    BY <2>1, <2>2, <2>3
<1>2. CASE Cardinality(c) = 2
  <2>1. PICK y : y # x /\ c = {x, y} /\ c \ {x} = {y}
    BY <1>2, Sizes
  <2>2. PICK a \in Nat \ {0}, b \in Nat \ {0} : a = f[x] /\ b = f[y]
    BY <2>1
  <2>3. Product(f, c) = a * b
    <3>1. f[x] \in Int /\ f[y] \in Int
      BY <2>2
    <3>2. Product(f, {x, y}) = f[x] * f[y]
      BY <2>1, <3>1, ProductOfTwo
    <3>3. QED
      BY <2>1, <2>2, <3>2
  <2>4. Product(f, c \ {x}) = b
    BY <2>1, <2>2, ProductOfOne
  <2>5. a * b \in Nat \ {0}
    BY <2>2
  <2>6. QED
    BY <2>2, <2>3, <2>4, <2>5
<1>3. CASE Cardinality(c) = 3
  <2>1. PICK y, z : y # x /\ z # x /\ y # z /\ c = {x, y, z}
    BY <1>3, Sizes
  <2>2. c \ {x} = {y, z} /\ c \ {y} = {x, z} /\ c \ {z} = {x, y}
    BY <2>1
  <2>3. PICK a \in Nat \ {0}, b \in Nat \ {0}, d \in Nat \ {0} : a = f[x] /\ b = f[y] /\ d = f[z]
    BY <2>1
  <2>4. Product(f, {y, z}) = b * d
    <3>1. f[y] \in Int /\ f[z] \in Int /\ y # z
      BY <2>1, <2>3
    <3>2. Product(f, {y, z}) = f[y] * f[z]
      BY <3>1, ProductOfTwo
    <3>3. QED
      BY <2>3, <3>2
  <2>5. Product(f, {x, z}) = a * d
    <3>1. f[x] \in Int /\ f[z] \in Int /\ x # z
      BY <2>1, <2>3
    <3>2. Product(f, {x, z}) = f[x] * f[z]
      BY <3>1, ProductOfTwo
    <3>3. QED
      BY <2>3, <3>2
  <2>6. Product(f, {x, y}) = a * b
    <3>1. f[x] \in Int /\ f[y] \in Int /\ x # y
      BY <2>1, <2>3
    <3>2. Product(f, {x, y}) = f[x] * f[y]
      BY <3>1, ProductOfTwo
    <3>3. QED
      BY <2>3, <3>2
  <2>7. PICK u \in c : Product(f, c) = f[u] * Product(f, c \ {u})
    BY <1>3, <2>1, ProductStep
  <2>8. Product(f, c) = a * (b * d)
    <3>1. CASE u = x
      BY <2>2, <2>3, <2>4, <2>7, <3>1
    <3>2. CASE u = y
      <4>1. Product(f, c) = b * (a * d)
        BY <2>2, <2>3, <2>5, <2>7, <3>2
      <4>2. QED
        BY <4>1
    <3>3. CASE u = z
      <4>1. Product(f, c) = d * (a * b)
        BY <2>2, <2>3, <2>6, <2>7, <3>3
      <4>2. QED
        BY <4>1
    <3>4. QED
      BY <2>1, <2>7, <3>1, <3>2, <3>3
  <2>9. b * d \in Nat \ {0}
    BY <2>3
  <2>10. a * (b * d) \in Nat \ {0}
    BY <2>3, <2>9
  <2>11. QED
    BY <2>2, <2>3, <2>4, <2>8, <2>9, <2>10
<1>4. QED
  BY <1>1, <1>2, <1>3

-----------------------------------------------------------------------------
(* Tables of offers.                                                       *)

Tables == Seq(OfferRow)

\* All the bets on the candidates of a table.
Bets(t) == Proposals(t, ValidLegs(t), 1..MaxCompound)

P(t) == [i \in DOMAIN t |-> t[i].p]
O(t) == [i \in DOMAIN t |-> t[i].odds]

LEMMA MulLeq ==
  ASSUME NEW a \in Nat, NEW b \in Nat, NEW c \in Nat, NEW d \in Nat, a <= c, b <= d
  PROVE  a * b <= c * d
<1>1. a * b <= c * b
  OBVIOUS
<1>2. c * b <= c * d
  OBVIOUS
<1>3. a * b \in Nat /\ c * b \in Nat /\ c * d \in Nat
  OBVIOUS
<1>4. QED
  BY <1>1, <1>2, <1>3

LEMMA MulLess ==
  ASSUME NEW a \in Nat, NEW b \in Nat \ {0}, NEW c \in Nat, a < c
  PROVE  a * b < c * b /\ b * a < b * c
<1>1. PICK k \in Nat \ {0} : c = a + k
  <2>1. c - a \in Nat \ {0} /\ c = a + (c - a)
    OBVIOUS
  <2>2. QED
    BY <2>1
<1>2. c * b = a * b + k * b /\ b * c = b * a + b * k
  BY <1>1
<1>3. k * b \in Nat \ {0} /\ b * k \in Nat \ {0} /\ a * b \in Nat /\ b * a \in Nat
  BY <1>1
<1>4. QED
  BY <1>2, <1>3

LEMMA Legs ==
  ASSUME NEW t \in Tables
  PROVE  /\ DOMAIN t \subseteq Nat /\ IsFiniteSet(DOMAIN t)
         /\ ValidLegs(t) \subseteq DOMAIN t
         /\ Positive(t) \subseteq ValidLegs(t) /\ Pruned(t) \subseteq Positive(t)
         /\ Kept(t) \subseteq Pruned(t)
         /\ IsFiniteSet(ValidLegs(t)) /\ IsFiniteSet(Positive(t))
         /\ IsFiniteSet(Pruned(t)) /\ IsFiniteSet(Kept(t))
         /\ \A i \in ValidLegs(t) :
              /\ P(t)[i] = t[i].p /\ O(t)[i] = t[i].odds
              /\ t[i].p \in Nat \ {0} /\ t[i].p < Unit
              /\ t[i].odds \in Nat \ {0} /\ t[i].odds > 1 /\ t[i].odds <= MaxOdds
<1>1. DOMAIN t = 1..Len(t) /\ Len(t) \in Nat
  BY DEF Tables
<1>2. DOMAIN t \subseteq Nat /\ IsFiniteSet(DOMAIN t)
  BY <1>1, FS_Interval
<1>3. ValidLegs(t) \subseteq DOMAIN t
  BY DEF ValidLegs, Candidates
<1>4. /\ Positive(t) \subseteq ValidLegs(t) /\ Pruned(t) \subseteq Positive(t)
      /\ Kept(t) \subseteq Pruned(t)
  BY DEF Positive, Pruned, Kept
<1>5. \A s : s \in SUBSET DOMAIN t => IsFiniteSet(s)
  BY <1>2, FS_Subset
<1>6. /\ IsFiniteSet(ValidLegs(t)) /\ IsFiniteSet(Positive(t))
      /\ IsFiniteSet(Pruned(t)) /\ IsFiniteSet(Kept(t))
  BY <1>3, <1>4, <1>5
<1>7. ASSUME NEW i \in ValidLegs(t)
      PROVE  /\ P(t)[i] = t[i].p /\ O(t)[i] = t[i].odds
             /\ t[i].p \in Nat \ {0} /\ t[i].p < Unit
             /\ t[i].odds \in Nat \ {0} /\ t[i].odds > 1 /\ t[i].odds <= MaxOdds
  <2>1. t[i] \in OfferRow /\ i \in DOMAIN t
    BY <1>1, <1>3 DEF Tables
  <2>2. t[i].p \in 0..Unit /\ t[i].odds \in 1..MaxOdds
    BY <2>1 DEF OfferRow
  <2>3. 0 < t[i].p /\ t[i].p < Unit /\ t[i].odds > 1
    BY DEF ValidLegs
  <2>4. QED
    BY <2>1, <2>2, <2>3, KindAssumption DEF P, O
<1>8. QED
  BY <1>2, <1>3, <1>4, <1>6, <1>7

LEMMA ProductBound ==
  ASSUME NEW f, NEW c, IsFiniteSet(c), Cardinality(c) \in 1..3, NEW most \in Nat \ {0},
         \A i \in c : f[i] \in Nat \ {0} /\ f[i] <= most
  PROVE  /\ Cardinality(c) = 1 => Product(f, c) <= most
         /\ Cardinality(c) = 2 => Product(f, c) <= most * most
         /\ Cardinality(c) = 3 => Product(f, c) <= most * most * most
         /\ \A x \in c : Product(f, c) >= f[x]
<1>1. ASSUME NEW d, IsFiniteSet(d), \A i \in d : f[i] \in Nat \ {0} /\ f[i] <= most, Cardinality(d) = 1
      PROVE  Product(f, d) <= most
  <2>1. PICK x : d = {x}
    BY <1>1, Sizes
  <2>2. f[x] \in Int /\ f[x] <= most
    BY <1>1, <2>1
  <2>3. QED
    BY <2>1, <2>2, ProductOfOne
<1>2. ASSUME NEW d, IsFiniteSet(d), \A i \in d : f[i] \in Nat \ {0} /\ f[i] <= most, Cardinality(d) = 2
      PROVE  Product(f, d) <= most * most
  <2>1. PICK x, y : x # y /\ d = {x, y}
    BY <1>2, Sizes
  <2>2. f[x] \in Nat /\ f[x] <= most /\ f[y] \in Nat /\ f[y] <= most
    BY <1>2, <2>1
  <2>3. Product(f, d) = f[x] * f[y]
    BY <2>1, <2>2, ProductOfTwo
  <2>4. QED
    BY <2>2, <2>3, MulLeq
<1>3. ASSUME Cardinality(c) = 3 PROVE Product(f, c) <= most * most * most
  <2>1. PICK x \in c : TRUE
    BY <1>3, FS_EmptySet
  <2>2. IsFiniteSet(c \ {x}) /\ Cardinality(c \ {x}) = 2
    BY <1>3, OneLess
  <2>3. Product(f, c \ {x}) <= most * most
    BY <1>2, <2>2
  <2>4. Product(f, c) = f[x] * Product(f, c \ {x}) /\ Product(f, c \ {x}) \in Nat
    BY TakeOut
  <2>5. most * most \in Nat
    OBVIOUS
  <2>6. f[x] * Product(f, c \ {x}) <= most * (most * most)
    BY <2>3, <2>4, <2>5, MulLeq
  <2>7. QED
    BY <2>4, <2>6
<1>4. ASSUME NEW x \in c PROVE Product(f, c) >= f[x]
  <2>1. PICK a \in Nat \ {0}, r \in Nat \ {0} : Product(f, c) = a * r /\ a = f[x]
    BY TakeOut
  <2>2. a * r >= a
    BY <2>1
  <2>3. QED
    BY <2>1, <2>2
<1>5. QED
  BY <1>1, <1>2, <1>3, <1>4

LEMMA BetRule ==
  ASSUME NEW t \in Tables, NEW c
  PROVE  /\ c \in Bets(t) <=> /\ c \in SUBSET ValidLegs(t) /\ Cardinality(c) \in 1..3
                              /\ DistinctEvents(t, c) /\ Worth(t, c) > Scale
         /\ c \in SUBSET ValidLegs(t) => IsFiniteSet(c)
         /\ Probability(t, c) = Padding[Cardinality(c)] * Product(P(t), c)
         /\ Odds(t, c) = Product(O(t), c)
<1>1. c \in SUBSET ValidLegs(t) => IsFiniteSet(c)
  BY Legs, FS_Subset
<1>2. Probability(t, c) = Padding[Cardinality(c)] * Product(P(t), c) /\ Odds(t, c) = Product(O(t), c)
  BY DEF Probability, Odds, P, O
<1>3. c \in Bets(t) <=> /\ c \in SUBSET ValidLegs(t) /\ Cardinality(c) \in 1..3
                        /\ DistinctEvents(t, c) /\ Worth(t, c) > Scale
  BY DEF Bets, Proposals, HasValue, MaxCompound
<1>4. QED
  BY <1>1, <1>2, <1>3

LEMMA Paddings ==
  /\ Unit \in Nat \ {0} /\ MaxOdds \in Nat
  /\ Padding[1] = Unit * Unit /\ Padding[2] = Unit /\ Padding[3] = 1
  /\ Scale = Unit * Unit * Unit /\ Scale \in Nat \ {0}
  /\ \A k \in 1..3 : Padding[k] \in Nat \ {0}
<1>1. Unit \in Nat \ {0} /\ MaxOdds \in Nat
  BY KindAssumption
<1>2. Padding[1] = Unit * Unit /\ Padding[2] = Unit /\ Padding[3] = 1 /\ Scale = Unit * Unit * Unit
  BY DEF Padding, Scale
<1>3. Unit * Unit \in Nat \ {0}
  BY <1>1
<1>4. Unit * Unit * Unit \in Nat \ {0}
  BY <1>1, <1>3
<1>5. QED
  BY <1>1, <1>2, <1>3, <1>4

\* A probability below one on a scale of three legs, odds above one.
LEMMA Prices ==
  ASSUME NEW t \in Tables, NEW c \in SUBSET ValidLegs(t), Cardinality(c) \in 1..3
  PROVE  /\ Product(P(t), c) \in Nat \ {0}
         /\ Probability(t, c) \in 1..(Scale - 1) /\ Odds(t, c) \in 2..MaxCompoundOdds
<1>1. IsFiniteSet(c)
  BY BetRule
<1>2. PICK x \in c : TRUE
  BY <1>1, FS_EmptySet
<1>3. PICK u \in Nat \ {0} : u = Unit
  BY Paddings
<1>4. PICK less \in Nat \ {0} : less = u - 1
  <2>1. t[x].p \in Nat \ {0} /\ t[x].p < Unit
    BY <1>2, Legs
  <2>2. u - 1 \in Nat \ {0}
    BY <1>3, <2>1
  <2>3. QED
    BY <2>2
<1>5. \A i \in c : P(t)[i] \in Nat \ {0} /\ P(t)[i] <= less
  BY <1>3, <1>4, Legs
<1>6. PICK prod \in Nat \ {0} : prod = Product(P(t), c)
  BY <1>1, <1>2, <1>5, TakeOut
<1>7. /\ Cardinality(c) = 1 => prod <= less
      /\ Cardinality(c) = 2 => prod <= less * less
      /\ Cardinality(c) = 3 => prod <= less * less * less
  BY <1>1, <1>5, <1>6, ProductBound
<1>8. less < u /\ less * less < u * u /\ less * less * less < u * u * u
  <2>1. less < u
    BY <1>4
  <2>2. PICK ll \in Nat \ {0}, uu \in Nat \ {0} : ll = less * less /\ uu = u * u
    OBVIOUS
  <2>3. ll < uu
    <3>1. less * less < u * less
      BY <2>1, MulLess
    <3>2. u * less < u * u
      BY <2>1, MulLess
    <3>3. u * less \in Nat
      OBVIOUS
    <3>4. QED
      BY <2>2, <3>1, <3>2, <3>3
  <2>4. ll * less < uu * less /\ uu * less < uu * u
    BY <2>1, <2>3, MulLess
  <2>5. ll * less \in Nat /\ uu * less \in Nat /\ uu * u \in Nat
    OBVIOUS
  <2>6. QED
    BY <2>1, <2>2, <2>3, <2>4, <2>5
<1>9. Padding[Cardinality(c)] * prod \in 1..(Scale - 1)
  <2>1. PICK uu \in Nat \ {0} : uu = u * u
    OBVIOUS
  <2>2. Padding[1] = uu /\ Padding[2] = u /\ Padding[3] = 1 /\ Scale = uu * u /\ Scale = u * uu
    BY <1>3, <2>1, Paddings
  <2>3. CASE Cardinality(c) = 1
    <3>1. prod < u
      BY <1>4, <1>7, <2>3
    <3>2. uu * prod < uu * u /\ uu * prod \in Nat \ {0} /\ uu * u \in Nat
      BY <3>1, MulLess
    <3>3. QED
      BY <2>2, <2>3, <3>2
  <2>4. CASE Cardinality(c) = 2
    <3>1. prod < uu
      BY <1>7, <1>8, <2>1, <2>4
    <3>2. u * prod < u * uu /\ u * prod \in Nat \ {0} /\ u * uu \in Nat
      BY <3>1, MulLess
    <3>3. QED
      BY <2>2, <2>4, <3>2
  <2>5. CASE Cardinality(c) = 3
    <3>1. prod < uu * u /\ uu * u \in Nat
      BY <1>7, <1>8, <2>1, <2>5
    <3>2. QED
      BY <2>2, <2>5, <3>1
  <2>6. QED
    BY <2>3, <2>4, <2>5
<1>10. PICK most \in Nat : most = MaxOdds /\ most > 1
  BY <1>2, Legs, KindAssumption
<1>11. \A i \in c : O(t)[i] \in Nat \ {0} /\ O(t)[i] <= most /\ O(t)[i] > 1
  BY <1>10, Legs
<1>12. Product(O(t), c) \in 2..MaxCompoundOdds
  <2>1. PICK odds \in Nat \ {0} : odds = Product(O(t), c)
    BY <1>1, <1>2, <1>11, TakeOut
  <2>2. odds >= O(t)[x]
    BY <1>1, <1>2, <1>10, <1>11, <2>1, ProductBound
  <2>3. /\ Cardinality(c) = 1 => odds <= most
        /\ Cardinality(c) = 2 => odds <= most * most
        /\ Cardinality(c) = 3 => odds <= most * most * most
    BY <1>1, <1>10, <1>11, <2>1, ProductBound
  <2>4. most <= most * most * most /\ most * most <= most * most * most
    <3>1. PICK mm \in Nat : mm = most * most
      BY <1>10
    <3>2. most <= mm /\ mm <= mm * most
      BY <1>10, <3>1
    <3>3. mm * most \in Nat
      BY <1>10
    <3>4. QED
      BY <3>1, <3>2, <3>3
  <2>5. most * most \in Nat /\ most * most * most \in Nat
    BY <1>10
  <2>6. odds <= most * most * most
    BY <2>3, <2>4, <2>5
  <2>7. odds > 1
    BY <1>2, <1>11, <2>2
  <2>8. MaxCompoundOdds = most * most * most
    BY <1>10 DEF MaxCompoundOdds
  <2>9. QED
    BY <2>1, <2>5, <2>6, <2>7, <2>8
<1>13. QED
  BY <1>6, <1>9, <1>12, BetRule

\* The growth of bets is ordered as their probability and value are.
LEMMA Grows ==
  ASSUME NEW t \in Tables, NEW c \in Bets(t), NEW d \in Bets(t),
         Probability(t, d) >= Probability(t, c), Worth(t, d) >= Worth(t, c)
  PROVE  GrowthOf(t, d) >= GrowthOf(t, c)
<1>1. /\ Probability(t, c) \in 1..(Scale - 1) /\ Odds(t, c) \in 2..MaxCompoundOdds
      /\ Probability(t, d) \in 1..(Scale - 1) /\ Odds(t, d) \in 2..MaxCompoundOdds
  BY BetRule, Prices
<1>2. Probability(t, c) * Odds(t, c) > Scale
  BY BetRule DEF Worth
<1>3. Probability(t, d) \in Probability(t, c)..(Scale - 1)
  BY <1>1, Paddings
<1>4. Probability(t, d) * Odds(t, d) >= Probability(t, c) * Odds(t, c)
  BY DEF Worth
<1>5. QED
  BY <1>1, <1>2, <1>3, <1>4, GrowthAssumption DEF GrowthOf

LEMMA GrowthIsInt ==
  ASSUME NEW t \in Tables, NEW c \in Bets(t)
  PROVE  GrowthOf(t, c) \in Int
<1>1. Probability(t, c) \in 1..(Scale - 1) /\ Odds(t, c) \in 2..MaxCompoundOdds
  BY BetRule, Prices
<1>2. Probability(t, c) * Odds(t, c) > Scale
  BY BetRule DEF Worth
<1>3. QED
  BY <1>1, <1>2, GrowthAssumption DEF GrowthOf

-----------------------------------------------------------------------------
(* Improving a bet.                                                        *)

LEMMA Taken ==
  ASSUME NEW t \in Tables, NEW c \in SUBSET ValidLegs(t), Cardinality(c) \in 1..3, NEW x \in c
  PROVE  /\ Product(P(t), c \ {x}) \in Nat \ {0} /\ Product(O(t), c \ {x}) \in Nat \ {0}
         /\ Product(P(t), c) = t[x].p * Product(P(t), c \ {x})
         /\ Product(O(t), c) = t[x].odds * Product(O(t), c \ {x})
         /\ Cardinality(c \ {x}) = Cardinality(c) - 1 /\ IsFiniteSet(c \ {x})
         /\ t[x].p \in Nat \ {0} /\ t[x].p < Unit /\ t[x].odds \in Nat \ {0}
<1>1. IsFiniteSet(c)
  BY BetRule
<1>2. \A i \in c : P(t)[i] \in Nat \ {0} /\ O(t)[i] \in Nat \ {0}
  BY Legs
<1>3. /\ Product(P(t), c) = P(t)[x] * Product(P(t), c \ {x})
      /\ Product(P(t), c \ {x}) \in Nat \ {0}
  BY <1>1, <1>2, TakeOut
<1>4. /\ Product(O(t), c) = O(t)[x] * Product(O(t), c \ {x})
      /\ Product(O(t), c \ {x}) \in Nat \ {0}
  BY <1>1, <1>2, TakeOut
<1>5. /\ P(t)[x] = t[x].p /\ O(t)[x] = t[x].odds
      /\ t[x].p \in Nat \ {0} /\ t[x].p < Unit /\ t[x].odds \in Nat \ {0}
  BY Legs
<1>6. Cardinality(c \ {x}) = Cardinality(c) - 1 /\ IsFiniteSet(c \ {x})
  BY <1>1, OneLess
<1>7. QED
  BY <1>3, <1>4, <1>5, <1>6

\* A single offer has value when its own probability and odds say so.
LEMMA SingleValue ==
  ASSUME NEW t \in Tables, NEW x \in ValidLegs(t)
  PROVE  /\ x \in Positive(t) <=> t[x].p * t[x].odds > Unit
         /\ x \in Positive(t) <=> {x} \in Bets(t)
         /\ Worth(t, {x}) = (Unit * Unit) * (t[x].p * t[x].odds)
<1>1. PICK u \in Nat \ {0}, p \in Nat \ {0}, o \in Nat \ {0} : u = Unit /\ p = t[x].p /\ o = t[x].odds
  BY Legs, Paddings
<1>2. Product(P(t), {x}) = p /\ Product(O(t), {x}) = o
  <2>1. P(t)[x] = p /\ O(t)[x] = o
    BY <1>1, Legs
  <2>2. P(t)[x] \in Int /\ O(t)[x] \in Int
    BY <2>1
  <2>3. QED
    BY <2>1, <2>2, ProductOfOne
<1>3. Cardinality({x}) = 1
  BY FS_Singleton
<1>4. Worth(t, {x}) = ((u * u) * p) * o
  BY <1>1, <1>2, <1>3, BetRule, Paddings DEF Worth
<1>5. PICK w \in Nat, uu \in Nat \ {0} : w = p * o /\ uu = u * u
  BY <1>1
<1>6. Worth(t, {x}) = uu * w /\ Scale = uu * u
  BY <1>1, <1>4, <1>5, Paddings
<1>7. uu * w > uu * u <=> w > u
  <2>1. uu * w \in Nat /\ uu * u \in Nat
    OBVIOUS
  <2>2. w > u => uu * w > uu * u
    BY MulLess
  <2>3. w <= u => uu * w <= uu * u
    BY MulLeq
  <2>4. QED
    BY <2>1, <2>2, <2>3
<1>8. x \in Positive(t) <=> Worth(t, {x}) > Scale
  BY DEF Positive, HasValue
<1>9. {x} \in Bets(t) <=> Worth(t, {x}) > Scale
  BY <1>3, BetRule DEF DistinctEvents
<1>10. QED
  BY <1>1, <1>5, <1>6, <1>7, <1>8, <1>9

\* An offer without value is better left out.
LEMMA Drop ==
  ASSUME NEW t \in Tables, NEW c \in Bets(t), NEW x \in c, x \notin Positive(t)
  PROVE  /\ c \ {x} \in Bets(t) /\ Cardinality(c \ {x}) = Cardinality(c) - 1
         /\ GrowthOf(t, c \ {x}) >= GrowthOf(t, c)
<1>1. c \in SUBSET ValidLegs(t) /\ Cardinality(c) \in 1..3 /\ IsFiniteSet(c)
  BY BetRule
<1>2. PICK d : d = c \ {x}
  OBVIOUS
<1>3. d \in SUBSET ValidLegs(t) /\ Cardinality(d) = Cardinality(c) - 1 /\ x \in ValidLegs(t)
  BY <1>1, <1>2, Taken
<1>4. Cardinality(c) \in 2..3
  <2>1. ASSUME Cardinality(c) = 1 PROVE FALSE
    <3>1. c = {x}
      BY <1>1, <2>1, Sizes
    <3>2. QED
      BY <1>3, <3>1, SingleValue
  <2>2. QED
    BY <1>1, <2>1
<1>5. PICK u \in Nat \ {0}, pad \in Nat \ {0} :
        u = Unit /\ pad = Padding[Cardinality(c)] /\ Padding[Cardinality(d)] = u * pad
  <2>1. Cardinality(c) \in 2..3 /\ Cardinality(d) = Cardinality(c) - 1
    BY <1>3, <1>4
  <2>2. CASE Cardinality(c) = 2
    BY <2>1, <2>2, Paddings
  <2>3. CASE Cardinality(c) = 3
    BY <2>1, <2>3, Paddings
  <2>4. QED
    BY <2>1, <2>2, <2>3
<1>6. PICK p \in Nat \ {0}, o \in Nat \ {0}, ps \in Nat \ {0}, os \in Nat \ {0} :
        /\ p = t[x].p /\ o = t[x].odds /\ p < u
        /\ ps = Product(P(t), d) /\ os = Product(O(t), d)
        /\ Product(P(t), c) = p * ps /\ Product(O(t), c) = o * os
  <2>1. /\ Product(P(t), d) \in Nat \ {0} /\ Product(O(t), d) \in Nat \ {0}
        /\ Product(P(t), c) = t[x].p * Product(P(t), d)
        /\ Product(O(t), c) = t[x].odds * Product(O(t), d)
        /\ t[x].p \in Nat \ {0} /\ t[x].p < Unit /\ t[x].odds \in Nat \ {0}
    BY <1>1, <1>2, Taken
  <2>2. QED
    BY <1>5, <2>1
<1>7. p * o <= u
  <2>1. ~(t[x].p * t[x].odds > Unit)
    BY <1>3, SingleValue
  <2>2. QED
    BY <1>5, <1>6, <2>1
<1>8. /\ Probability(t, c) = pad * (p * ps) /\ Odds(t, c) = o * os
      /\ Probability(t, d) = (u * pad) * ps /\ Odds(t, d) = os
  BY <1>5, <1>6, BetRule
<1>9. Probability(t, d) >= Probability(t, c)
  <2>1. PICK f \in Nat \ {0} : f = pad * ps
    OBVIOUS
  <2>2. Probability(t, c) = p * f /\ Probability(t, d) = u * f
    BY <1>8, <2>1
  <2>3. p * f <= u * f
    BY <1>6, MulLeq
  <2>4. QED
    BY <2>2, <2>3
<1>10. Worth(t, d) >= Worth(t, c)
  <2>1. PICK f \in Nat \ {0}, po \in Nat : f = (pad * ps) * os /\ po = p * o
    <3>1. pad * ps \in Nat \ {0} /\ p * o \in Nat
      OBVIOUS
    <3>2. (pad * ps) * os \in Nat \ {0}
      BY <3>1
    <3>3. QED
      BY <3>1, <3>2
  <2>2. Worth(t, c) = po * f /\ Worth(t, d) = u * f
    <3>1. Worth(t, c) = (pad * (p * ps)) * (o * os) /\ Worth(t, d) = ((u * pad) * ps) * os
      BY <1>8 DEF Worth
    <3>2. (pad * (p * ps)) * (o * os) = (p * o) * ((pad * ps) * os)
      OBVIOUS
    <3>3. ((u * pad) * ps) * os = u * ((pad * ps) * os)
      OBVIOUS
    <3>4. QED
      BY <2>1, <3>1, <3>2, <3>3
  <2>3. po * f <= u * f
    BY <1>7, <2>1, MulLeq
  <2>4. QED
    BY <2>2, <2>3
<1>11. d \in Bets(t)
  <2>1. DistinctEvents(t, d)
    BY <1>2, BetRule DEF DistinctEvents
  <2>2. Worth(t, c) > Scale
    BY BetRule
  <2>3. Worth(t, d) > Scale
    <3>1. Worth(t, c) \in Nat /\ Worth(t, d) \in Nat
      BY <1>5, <1>6, <1>8 DEF Worth
    <3>2. QED
      BY <1>10, <2>2, <3>1, Paddings
  <2>4. Cardinality(d) \in 1..3
    BY <1>3, <1>4
  <2>5. QED
    BY <1>3, <2>1, <2>3, <2>4, BetRule
<1>12. GrowthOf(t, d) >= GrowthOf(t, c)
  BY <1>9, <1>10, <1>11, Grows
<1>13. QED
  BY <1>2, <1>3, <1>11, <1>12

\* An offer is better replaced by one that dominates it.
LEMMA Replace ==
  ASSUME NEW t \in Tables, NEW c \in Bets(t), NEW x \in c, NEW y \in ValidLegs(t),
         Dominates(t, y, x)
  PROVE  /\ y \notin c
         /\ (c \ {x}) \cup {y} \in Bets(t)
         /\ Cardinality((c \ {x}) \cup {y}) = Cardinality(c)
         /\ Probability(t, (c \ {x}) \cup {y}) >= Probability(t, c)
         /\ Odds(t, (c \ {x}) \cup {y}) >= Odds(t, c)
         /\ t[y].p > t[x].p => Probability(t, (c \ {x}) \cup {y}) # Probability(t, c)
         /\ t[y].odds > t[x].odds => Odds(t, (c \ {x}) \cup {y}) # Odds(t, c)
         /\ GrowthOf(t, (c \ {x}) \cup {y}) >= GrowthOf(t, c)
<1>1. c \in SUBSET ValidLegs(t) /\ Cardinality(c) \in 1..3 /\ IsFiniteSet(c) /\ DistinctEvents(t, c)
  BY BetRule
<1>2. y \notin c
  BY <1>1 DEF Dominates, DistinctEvents
<1>3. PICK d : d = (c \ {x}) \cup {y}
  OBVIOUS
<1>4. d \ {y} = c \ {x} /\ d \in SUBSET ValidLegs(t) /\ y \in d
  BY <1>1, <1>2, <1>3
<1>5. Cardinality(d) = Cardinality(c) /\ Cardinality(d) \in 1..3
  <2>1. IsFiniteSet(c \ {x}) /\ Cardinality(c \ {x}) = Cardinality(c) - 1
    BY <1>1, OneLess
  <2>2. Cardinality(d) = Cardinality(c \ {x}) + 1
    BY <1>2, <1>3, <2>1, FS_AddElement
  <2>3. QED
    BY <1>1, <2>1, <2>2
<1>6. PICK p \in Nat \ {0}, o \in Nat \ {0}, q \in Nat \ {0}, b \in Nat \ {0},
           ps \in Nat \ {0}, os \in Nat \ {0} :
        /\ p = t[x].p /\ o = t[x].odds /\ q = t[y].p /\ b = t[y].odds
        /\ Product(P(t), c) = p * ps /\ Product(O(t), c) = o * os
        /\ Product(P(t), d) = q * ps /\ Product(O(t), d) = b * os
  <2>1. /\ Product(P(t), c \ {x}) \in Nat \ {0} /\ Product(O(t), c \ {x}) \in Nat \ {0}
        /\ Product(P(t), c) = t[x].p * Product(P(t), c \ {x})
        /\ Product(O(t), c) = t[x].odds * Product(O(t), c \ {x})
        /\ t[x].p \in Nat \ {0} /\ t[x].odds \in Nat \ {0}
    BY <1>1, Taken
  <2>2. /\ Product(P(t), d) = t[y].p * Product(P(t), d \ {y})
        /\ Product(O(t), d) = t[y].odds * Product(O(t), d \ {y})
        /\ t[y].p \in Nat \ {0} /\ t[y].odds \in Nat \ {0}
    BY <1>4, <1>5, Taken
  <2>3. QED
    BY <1>4, <2>1, <2>2
<1>7. q >= p /\ b >= o
  BY <1>6 DEF Dominates
<1>8. PICK pad \in Nat \ {0} : pad = Padding[Cardinality(c)]
  BY <1>1, Paddings
<1>9. /\ Probability(t, c) = pad * (p * ps) /\ Probability(t, d) = pad * (q * ps)
      /\ Odds(t, c) = o * os /\ Odds(t, d) = b * os
  BY <1>5, <1>6, <1>8, BetRule
<1>10. PICK f \in Nat \ {0} : f = pad * ps
  OBVIOUS
<1>11. Probability(t, c) = p * f /\ Probability(t, d) = q * f
  BY <1>9, <1>10
<1>12. /\ p * f \in Nat /\ q * f \in Nat /\ o * os \in Nat /\ b * os \in Nat
       /\ p * f <= q * f /\ o * os <= b * os
  BY <1>7, MulLeq
<1>13. (q > p => q * f > p * f) /\ (b > o => b * os > o * os)
  BY MulLess
<1>14. Worth(t, d) >= Worth(t, c) /\ Worth(t, d) \in Nat /\ Worth(t, c) \in Nat
  <2>1. Worth(t, d) = (q * f) * (b * os) /\ Worth(t, c) = (p * f) * (o * os)
    BY <1>9, <1>11 DEF Worth
  <2>2. (p * f) * (o * os) <= (q * f) * (b * os)
    BY <1>12, MulLeq
  <2>3. QED
    BY <1>12, <2>1, <2>2
<1>15. d \in Bets(t)
  <2>1. DistinctEvents(t, d)
    BY <1>1, <1>3 DEF Dominates, DistinctEvents
  <2>2. Worth(t, d) > Scale
    <3>1. Worth(t, c) > Scale
      BY BetRule
    <3>2. QED
      BY <1>14, <3>1, Paddings
  <2>3. QED
    BY <1>4, <1>5, <2>1, <2>2, BetRule
<1>16. Probability(t, d) >= Probability(t, c) /\ Odds(t, d) >= Odds(t, c)
  BY <1>9, <1>11, <1>12
<1>17. /\ t[y].p > t[x].p => Probability(t, d) # Probability(t, c)
       /\ t[y].odds > t[x].odds => Odds(t, d) # Odds(t, c)
  BY <1>6, <1>9, <1>11, <1>12, <1>13
<1>18. GrowthOf(t, d) >= GrowthOf(t, c)
  BY <1>14, <1>15, <1>16, Grows
<1>19. QED
  BY <1>2, <1>3, <1>5, <1>15, <1>16, <1>17, <1>18

\* What survives the pruning dominates all the rest.
LEMMA PrunedDominates ==
  ASSUME NEW t \in Tables, NEW x \in Positive(t), x \notin Pruned(t)
  PROVE  \E y \in Pruned(t) : Dominates(t, y, x)
<1>1. PICK S : S = {y \in Positive(t) : Dominates(t, y, x)}
  OBVIOUS
<1>2. PICK R : R = {e \in Positive(t) \X Positive(t) : Dominates(t, e[1], e[2])}
  OBVIOUS
<1>3. S \in SUBSET Positive(t) /\ S # {} /\ IsFiniteSet(S)
  <2>1. S \in SUBSET Positive(t)
    BY <1>1
  <2>2. S # {}
    BY <1>1 DEF Pruned
  <2>3. QED
    BY <2>1, <2>2, Legs, FS_Subset
<1>4. ASSUME NEW a \in Positive(t), NEW b \in Positive(t), NEW d \in Positive(t),
             Dominates(t, a, b), Dominates(t, b, d)
      PROVE  Dominates(t, a, d)
  <2>1. \A i \in Positive(t) : i \in Nat /\ t[i].p \in Nat /\ t[i].odds \in Nat
    BY Legs
  <2>2. QED
    BY <1>4, <2>1 DEF Dominates
<1>5. \A a \in S : <<a, a>> \notin R
  BY <1>2 DEF Dominates
<1>6. \A a, b, d \in S : <<a, b>> \in R /\ <<b, d>> \in R => <<a, d>> \in R
  BY <1>2, <1>4
<1>7. PICK m \in S : \A y \in S : <<y, m>> \notin R
  BY <1>3, <1>5, <1>6, SomethingFirst
<1>8. m \in Positive(t) /\ Dominates(t, m, x)
  BY <1>1
<1>9. ASSUME NEW z \in Positive(t), Dominates(t, z, m) PROVE FALSE
  <2>1. Dominates(t, z, x)
    BY <1>4, <1>8, <1>9
  <2>2. z \in S /\ <<z, m>> \in R
    BY <1>1, <1>2, <1>8, <1>9, <2>1
  <2>3. QED
    BY <1>7, <2>2
<1>10. QED
  BY <1>8, <1>9 DEF Pruned

\* One improvement: an offer without value dropped, or a dominated one replaced by
\* one that survives the pruning.
Improves(t, d, c) ==
  \E x \in c \ Pruned(t) :
    \/ x \notin Positive(t) /\ d = c \ {x}
    \/ \E y \in Pruned(t) : Dominates(t, y, x) /\ d = (c \ {x}) \cup {y}

LEMMA Improvement ==
  ASSUME NEW t \in Tables, NEW c \in Bets(t), ~(c \in SUBSET Pruned(t))
  PROVE  \E d \in Bets(t) :
           /\ Improves(t, d, c)
           /\ IsFiniteSet(c \ Pruned(t))
           /\ Cardinality(d \ Pruned(t)) = Cardinality(c \ Pruned(t)) - 1
<1>1. PICK x \in c \ Pruned(t) : TRUE
  OBVIOUS
<1>2. IsFiniteSet(c \ Pruned(t))
  BY BetRule, FS_Difference
<1>3. CASE x \notin Positive(t)
  <2>1. c \ {x} \in Bets(t)
    BY <1>1, <1>3, Drop
  <2>2. Improves(t, c \ {x}, c)
    BY <1>1, <1>3 DEF Improves
  <2>3. (c \ {x}) \ Pruned(t) = (c \ Pruned(t)) \ {x}
    BY <1>1
  <2>4. QED
    BY <1>1, <1>2, <2>1, <2>2, <2>3, OneLess
<1>4. CASE x \in Positive(t)
  <2>1. PICK y \in Pruned(t) : Dominates(t, y, x)
    BY <1>1, <1>4, PrunedDominates
  <2>2. y \in ValidLegs(t)
    BY Legs
  <2>3. (c \ {x}) \cup {y} \in Bets(t)
    BY <1>1, <2>1, <2>2, Replace
  <2>4. Improves(t, (c \ {x}) \cup {y}, c)
    BY <1>1, <2>1 DEF Improves
  <2>5. ((c \ {x}) \cup {y}) \ Pruned(t) = (c \ Pruned(t)) \ {x}
    BY <1>1, <2>1
  <2>6. QED
    BY <1>1, <1>2, <2>3, <2>4, <2>5, OneLess
<1>5. QED
  BY <1>3, <1>4

\* Whatever an improvement makes no worse is no worse for some bet that survives
\* the pruning than for any bet.
LEMMA Improved ==
  ASSUME NEW t \in Tables, NEW R, NEW c \in Bets(t), <<c, c>> \in R,
         \A a, b, d \in Bets(t) : <<a, b>> \in R /\ <<b, d>> \in R => <<a, d>> \in R,
         \A a, b \in Bets(t) : Improves(t, a, b) => <<a, b>> \in R
  PROVE  \E d \in Bets(t) : d \in SUBSET Pruned(t) /\ <<d, c>> \in R
<1>1. PICK good : good = {d \in Bets(t) : <<d, c>> \in R}
  OBVIOUS
<1>2. PICK counts : counts = {Cardinality(d \ Pruned(t)) : d \in good}
  OBVIOUS
<1>3. good \in SUBSET Bets(t) /\ c \in good
  BY <1>1
<1>4. \A d \in Bets(t) : Cardinality(d \ Pruned(t)) \in Nat
  <2>1. \A d \in Bets(t) : IsFiniteSet(d \ Pruned(t))
    BY BetRule, FS_Difference
  <2>2. QED
    BY <2>1, FS_CardinalityType
<1>5. counts \in SUBSET Nat /\ counts # {}
  BY <1>2, <1>3, <1>4
<1>6. PICK n \in counts : \A m \in counts : n <= m
  BY <1>5, LeastNumber
<1>7. PICK d \in good : n = Cardinality(d \ Pruned(t))
  BY <1>2
<1>8. d \in Bets(t) /\ <<d, c>> \in R
  BY <1>1
<1>9. ASSUME ~(d \in SUBSET Pruned(t)) PROVE FALSE
  <2>1. PICK a \in Bets(t) : /\ Improves(t, a, d)
                             /\ Cardinality(a \ Pruned(t)) = Cardinality(d \ Pruned(t)) - 1
    BY <1>8, <1>9, Improvement
  <2>2. <<a, c>> \in R
    BY <1>8, <2>1
  <2>3. a \in good
    BY <1>1, <2>1, <2>2
  <2>4. n - 1 \in counts
    BY <1>2, <1>7, <2>1, <2>3
  <2>5. QED
    BY <1>5, <1>6, <2>4
<1>10. QED
  BY <1>8, <1>9

-----------------------------------------------------------------------------
(* The order in which the engine prefers bets.                             *)

\* The set whose first difference is its own.
Smaller(c, d) == \E k \in c : k \notin d /\ \A j \in Nat : j < k => (j \in c <=> j \in d)

LEMMA SmallerIsByMin ==
  ASSUME NEW c \in SUBSET Nat, NEW d \in SUBSET Nat, c # d
  PROVE  /\ Min(SymDiff(c, d)) \in c <=> Smaller(c, d)
         /\ Smaller(c, d) \/ Smaller(d, c)
<1>1. PICK diff : diff = SymDiff(c, d)
  OBVIOUS
<1>2. diff \in SUBSET Nat /\ diff # {} /\ \A j \in Nat : j \in diff <=> ~(j \in c <=> j \in d)
  BY <1>1 DEF SymDiff
<1>3. PICK n \in diff : \A m \in diff : n <= m
  BY <1>2, LeastNumber
<1>4. Min(diff) \in diff /\ \A m \in diff : Min(diff) <= m
  BY <1>3 DEF Min
<1>5. Min(diff) = n
  <2>1. Min(diff) \in Nat /\ n \in Nat
    BY <1>2, <1>4
  <2>2. Min(diff) <= n /\ n <= Min(diff)
    BY <1>3, <1>4
  <2>3. QED
    BY <2>1, <2>2
<1>6. n \in Nat /\ \A j \in Nat : j < n => (j \in c <=> j \in d)
  BY <1>2, <1>3
<1>7. n \in c <=> n \notin d
  BY <1>1, <1>3 DEF SymDiff
<1>8. n \in c => Smaller(c, d)
  BY <1>6, <1>7 DEF Smaller
<1>9. n \in d => Smaller(d, c)
  BY <1>6, <1>7 DEF Smaller
<1>10. ASSUME Smaller(c, d) PROVE n \in c
  <2>1. PICK k \in c : k \notin d /\ \A j \in Nat : j < k => (j \in c <=> j \in d)
    BY <1>10 DEF Smaller
  <2>2. k \in Nat /\ k \in diff
    BY <1>2, <2>1
  <2>3. ~(n < k)
    BY <1>6, <1>7, <2>1
  <2>4. n = k
    BY <1>3, <1>6, <2>2, <2>3
  <2>5. QED
    BY <2>1, <2>4
<1>11. QED
  BY <1>1, <1>5, <1>7, <1>8, <1>9, <1>10

LEMMA SmallerIsAnOrder ==
  ASSUME NEW a \in SUBSET Nat, NEW b \in SUBSET Nat, NEW d \in SUBSET Nat
  PROVE  /\ ~Smaller(a, a)
         /\ Smaller(a, b) /\ Smaller(b, d) => Smaller(a, d)
<1>1. ~Smaller(a, a)
  BY DEF Smaller
<1>2. ASSUME Smaller(a, b), Smaller(b, d) PROVE Smaller(a, d)
  <2>1. PICK m \in a : m \notin b /\ \A j \in Nat : j < m => (j \in a <=> j \in b)
    BY <1>2 DEF Smaller
  <2>2. PICK n \in b : n \notin d /\ \A j \in Nat : j < n => (j \in b <=> j \in d)
    BY <1>2 DEF Smaller
  <2>3. m \in Nat /\ n \in Nat /\ m # n
    BY <2>1, <2>2
  <2>4. CASE m < n
    <3>1. m \in a /\ m \notin d /\ \A j \in Nat : j < m => (j \in a <=> j \in d)
      BY <2>1, <2>2, <2>3, <2>4
    <3>2. QED
      BY <3>1 DEF Smaller
  <2>5. CASE n < m
    <3>1. n \in a /\ n \notin d /\ \A j \in Nat : j < n => (j \in a <=> j \in d)
      BY <2>1, <2>2, <2>3, <2>5
    <3>2. QED
      BY <3>1 DEF Smaller
  <2>6. QED
    BY <2>3, <2>4, <2>5
<1>3. QED
  BY <1>1, <1>2

\* Growth, then fewer legs, then for a single leg its worth, then the ids.
Before(t, c, d) ==
  \/ GrowthOf(t, c) > GrowthOf(t, d)
  \/ /\ GrowthOf(t, c) = GrowthOf(t, d)
     /\ \/ Cardinality(c) < Cardinality(d)
        \/ /\ Cardinality(c) = Cardinality(d)
           /\ \/ Cardinality(c) = 1 /\ Worth(t, c) > Worth(t, d)
              \/ (Cardinality(c) = 1 => Worth(t, c) = Worth(t, d)) /\ Smaller(c, d)

LEMMA BetFacts ==
  ASSUME NEW t \in Tables, NEW c \in Bets(t)
  PROVE  /\ GrowthOf(t, c) \in Int /\ Worth(t, c) \in Int /\ Cardinality(c) \in 1..3
         /\ c \in SUBSET Nat
<1>1. c \in SUBSET ValidLegs(t) /\ Cardinality(c) \in 1..3
  BY BetRule
<1>2. Probability(t, c) \in 1..(Scale - 1) /\ Odds(t, c) \in 2..MaxCompoundOdds
  BY <1>1, Prices
<1>3. Worth(t, c) \in Int
  BY <1>2 DEF Worth
<1>4. c \in SUBSET Nat
  BY <1>1, Legs
<1>5. QED
  BY <1>1, <1>3, <1>4, GrowthIsInt

LEMMA BeforeIsAnOrder ==
  ASSUME NEW t \in Tables, NEW a \in Bets(t), NEW b \in Bets(t), NEW d \in Bets(t)
  PROVE  /\ ~Before(t, a, a)
         /\ Before(t, a, b) /\ Before(t, b, d) => Before(t, a, d)
         /\ a # b => Before(t, a, b) \/ Before(t, b, a)
<1>1. /\ GrowthOf(t, a) \in Int /\ Worth(t, a) \in Int /\ Cardinality(a) \in 1..3 /\ a \in SUBSET Nat
      /\ GrowthOf(t, b) \in Int /\ Worth(t, b) \in Int /\ Cardinality(b) \in 1..3 /\ b \in SUBSET Nat
      /\ GrowthOf(t, d) \in Int /\ Worth(t, d) \in Int /\ Cardinality(d) \in 1..3 /\ d \in SUBSET Nat
  BY BetFacts
<1>2. /\ ~Smaller(a, a)
      /\ Smaller(a, b) /\ Smaller(b, d) => Smaller(a, d)
      /\ a # b => Smaller(a, b) \/ Smaller(b, a)
  BY <1>1, SmallerIsAnOrder, SmallerIsByMin
<1>3. ~Before(t, a, a)
  BY <1>1, <1>2 DEF Before
<1>4. Before(t, a, b) /\ Before(t, b, d) => Before(t, a, d)
  BY <1>1, <1>2 DEF Before
<1>5. a # b => Before(t, a, b) \/ Before(t, b, a)
  BY <1>1, <1>2 DEF Before
<1>6. QED
  BY <1>3, <1>4, <1>5

\* Of some bets, one comes before all the others.
LEMMA FirstBet ==
  ASSUME NEW t \in Tables, NEW S \in SUBSET Bets(t), S # {}
  PROVE  \E c \in S : \A d \in S \ {c} : Before(t, c, d)
<1>1. IsFiniteSet(S)
  <2>1. IsFiniteSet(SUBSET ValidLegs(t))
    BY Legs, FS_SUBSET
  <2>2. S \in SUBSET (SUBSET ValidLegs(t))
    BY BetRule
  <2>3. QED
    BY <2>1, <2>2, FS_Subset
<1>2. PICK R : R = {e \in S \X S : Before(t, e[1], e[2])}
  OBVIOUS
<1>3. \A c \in S : <<c, c>> \notin R
  BY <1>2, BeforeIsAnOrder
<1>4. \A a, b, d \in S : <<a, b>> \in R /\ <<b, d>> \in R => <<a, d>> \in R
  BY <1>2, BeforeIsAnOrder
<1>5. \A a, b \in S : a # b => <<a, b>> \in R \/ <<b, a>> \in R
  BY <1>2, BeforeIsAnOrder
<1>6. PICK c \in S : \A d \in S \ {c} : <<c, d>> \in R
  BY <1>1, <1>3, <1>4, <1>5, FirstOfAll
<1>7. QED
  BY <1>2, <1>6

\* The engine's two orders are that one.
LEMMA EngineOrders ==
  ASSUME NEW t \in Tables
  PROVE  /\ \A c, d \in Bets(t) : c # d /\ Cardinality(c) > 1 =>
                (CompoundBefore(t, c, d) <=> Before(t, c, d))
         /\ \A x, y \in Positive(t) : x # y => (SimpleBefore(t, x, y) <=> Before(t, {x}, {y}))
<1>1. ASSUME NEW c \in Bets(t), NEW d \in Bets(t), c # d, Cardinality(c) > 1
      PROVE  CompoundBefore(t, c, d) <=> Before(t, c, d)
  <2>1. c \in SUBSET Nat /\ d \in SUBSET Nat /\ Cardinality(c) # 1
    BY <1>1, BetFacts
  <2>2. Min(SymDiff(c, d)) \in c <=> Smaller(c, d)
    BY <1>1, <2>1, SmallerIsByMin
  <2>3. QED
    BY <2>1, <2>2 DEF CompoundBefore, Before
<1>2. ASSUME NEW x \in Positive(t), NEW y \in Positive(t), x # y
      PROVE  SimpleBefore(t, x, y) <=> Before(t, {x}, {y})
  <2>1. x \in Nat /\ y \in Nat
    BY Legs
  <2>2. Smaller({x}, {y}) <=> x < y
    BY <1>2, <2>1 DEF Smaller
  <2>3. Cardinality({x}) = 1 /\ Cardinality({y}) = 1
    BY FS_Singleton
  <2>4. QED
    BY <2>2, <2>3 DEF SimpleBefore, Before
<1>3. QED
  BY <1>1, <1>2

-----------------------------------------------------------------------------
(* The engine's choice among the legs it kept.                             *)

LEMMA KeptBets ==
  ASSUME NEW t \in Tables, NEW d
  PROVE  d \in Proposals(t, Kept(t), 2..MaxCompound) <=>
           d \in Bets(t) /\ d \in SUBSET Kept(t) /\ Cardinality(d) \in 2..3
<1>1. Kept(t) \subseteq ValidLegs(t)
  BY Legs
<1>2. QED
  BY <1>1 DEF Bets, Proposals, MaxCompound

LEMMA SimpleChoice ==
  ASSUME NEW t \in Tables, NEW x \in Kept(t)
  PROVE  /\ BestSimple(t) \in Bets(t) /\ BestSimple(t) \in SUBSET Kept(t)
         /\ Cardinality(BestSimple(t)) = 1
         /\ BestSimple(t) = {x} \/ Before(t, BestSimple(t), {x})
<1>1. PICK singles : singles = {{y} : y \in Kept(t)}
  OBVIOUS
<1>2. Kept(t) \subseteq Positive(t) /\ Kept(t) \subseteq ValidLegs(t)
  BY Legs
<1>3. singles \in SUBSET Bets(t)
  <2>1. \A y \in Kept(t) : {y} \in Bets(t)
    BY <1>2, SingleValue
  <2>2. QED
    BY <1>1, <2>1
<1>4. PICK best \in singles : \A d \in singles \ {best} : Before(t, best, d)
  <2>1. singles # {}
    BY <1>1
  <2>2. QED
    BY <1>3, <2>1, FirstBet
<1>5. PICK z \in Kept(t) : best = {z}
  BY <1>1
<1>6. \A y \in Kept(t) \ {z} : SimpleBefore(t, z, y)
  <2>1. ASSUME NEW y \in Kept(t) \ {z} PROVE SimpleBefore(t, z, y)
    <3>1. {y} \in singles \ {best}
      BY <1>1, <1>5, <2>1
    <3>2. Before(t, {z}, {y})
      BY <1>4, <1>5, <3>1
    <3>3. QED
      BY <1>2, <1>5, <2>1, <3>2, EngineOrders
  <2>2. QED
    BY <2>1
<1>7. PICK s \in Kept(t) : BestSimple(t) = {s} /\ \A y \in Kept(t) \ {s} : SimpleBefore(t, s, y)
  BY <1>6 DEF BestSimple
<1>8. s = x \/ Before(t, {s}, {x})
  BY <1>2, <1>7, EngineOrders
<1>9. {s} \in Bets(t) /\ Cardinality({s}) = 1
  BY <1>2, SingleValue, FS_Singleton
<1>10. QED
  BY <1>7, <1>8, <1>9

LEMMA CompoundChoice ==
  ASSUME NEW t \in Tables, NEW c \in Bets(t), c \in SUBSET Kept(t), Cardinality(c) \in 2..3
  PROVE  /\ BestCompound(t) \in Bets(t) /\ BestCompound(t) \in SUBSET Kept(t)
         /\ Cardinality(BestCompound(t)) \in 2..3
         /\ BestCompound(t) = c \/ Before(t, BestCompound(t), c)
<1>1. PICK all : all = Proposals(t, Kept(t), 2..MaxCompound)
  OBVIOUS
<1>2. c \in all /\ all \in SUBSET Bets(t) /\ \A d \in all : Cardinality(d) > 1
  BY <1>1, KeptBets
<1>3. PICK best \in all : \A d \in all \ {best} : Before(t, best, d)
  BY <1>2, FirstBet
<1>4. \A d \in all \ {best} : CompoundBefore(t, best, d)
  BY <1>2, <1>3, EngineOrders
<1>5. BestCompound(t) = CHOOSE b \in all : \A d \in all \ {b} : CompoundBefore(t, b, d)
  BY <1>1, <1>2 DEF BestCompound
<1>6. BestCompound(t) \in all /\ \A d \in all \ {BestCompound(t)} : CompoundBefore(t, BestCompound(t), d)
  BY <1>3, <1>4, <1>5
<1>7. BestCompound(t) = c \/ Before(t, BestCompound(t), c)
  BY <1>2, <1>6, EngineOrders
<1>8. QED
  BY <1>1, <1>6, <1>7, KeptBets

LEMMA Nobody ==
  ASSUME NEW t \in Tables
  PROVE  /\ BestSimple(t) = {} <=> Kept(t) = {}
         /\ BestCompound(t) # {} =>
              /\ BestCompound(t) \in Bets(t) /\ BestCompound(t) \in SUBSET Kept(t)
              /\ Cardinality(BestCompound(t)) \in 2..3
<1>1. BestSimple(t) = {} <=> Kept(t) = {}
  BY DEF BestSimple
<1>2. ASSUME BestCompound(t) # {}
      PROVE  /\ BestCompound(t) \in Bets(t) /\ BestCompound(t) \in SUBSET Kept(t)
             /\ Cardinality(BestCompound(t)) \in 2..3
  <2>1. PICK c : c \in Proposals(t, Kept(t), 2..MaxCompound)
    BY <1>2 DEF BestCompound
  <2>2. QED
    BY <2>1, KeptBets, CompoundChoice
<1>3. QED
  BY <1>1, <1>2

Choice(t) == Selected(t, BestSimple(t), BestCompound(t))

\* What is selected is the first of the bets on the legs kept.
LEMMA SelectedIsFirstKept ==
  ASSUME NEW t \in Tables, NEW c \in Bets(t), c \in SUBSET Kept(t)
  PROVE  /\ Choice(t) \in Bets(t) /\ Choice(t) \in SUBSET Kept(t)
         /\ Choice(t) = c \/ Before(t, Choice(t), c)
<1>1. Cardinality(c) \in 1..3 /\ IsFiniteSet(c)
  BY BetRule
<1>2. PICK x \in Kept(t) : x \in c
  BY <1>1, FS_EmptySet
<1>3. PICK s, k : s = BestSimple(t) /\ k = BestCompound(t)
  OBVIOUS
<1>4. s \in Bets(t) /\ s \in SUBSET Kept(t) /\ Cardinality(s) = 1
  BY <1>2, <1>3, SimpleChoice
<1>5. k # {} => k \in Bets(t) /\ k \in SUBSET Kept(t) /\ Cardinality(k) \in 2..3
  BY <1>3, Nobody
<1>6. Choice(t) = IF k # {} /\ GrowthOf(t, k) > GrowthOf(t, s) THEN k ELSE s
  BY <1>3 DEF Choice, Selected
<1>7. Choice(t) \in Bets(t) /\ Choice(t) \in SUBSET Kept(t)
  BY <1>4, <1>5, <1>6
<1>8. Choice(t) = s \/ Before(t, Choice(t), s)
  BY <1>6 DEF Before
<1>9. k # {} => Choice(t) = k \/ Before(t, Choice(t), k)
  <2>1. ASSUME k # {}, ~(GrowthOf(t, k) > GrowthOf(t, s)) PROVE Before(t, s, k)
    <3>1. GrowthOf(t, s) \in Int /\ GrowthOf(t, k) \in Int /\ Cardinality(k) \in 2..3
      BY <1>4, <1>5, <2>1, BetFacts
    <3>2. Cardinality(s) < Cardinality(k)
      BY <1>4, <3>1
    <3>3. QED
      BY <2>1, <3>1, <3>2 DEF Before
  <2>2. QED
    BY <1>6, <2>1
<1>10. CASE Cardinality(c) = 1
  <2>1. c = {x}
    BY <1>1, <1>2, <1>10, Sizes
  <2>2. s = c \/ Before(t, s, c)
    BY <1>2, <1>3, <2>1, SimpleChoice
  <2>3. Choice(t) = c \/ Before(t, Choice(t), c)
    BY <1>4, <1>7, <1>8, <2>2, BeforeIsAnOrder
  <2>4. QED
    BY <1>7, <2>3
<1>11. CASE Cardinality(c) # 1
  <2>1. Cardinality(c) \in 2..3
    BY <1>1, <1>11
  <2>2. k = c \/ Before(t, k, c)
    BY <1>3, <2>1, CompoundChoice
  <2>3. k # {} /\ k \in Bets(t)
    <3>1. k \in Bets(t) /\ Cardinality(k) \in 2..3
      BY <1>3, <2>1, CompoundChoice
    <3>2. QED
      BY <3>1, FS_EmptySet
  <2>4. Choice(t) = c \/ Before(t, Choice(t), c)
    BY <1>7, <1>9, <2>2, <2>3, BeforeIsAnOrder
  <2>5. QED
    BY <1>7, <2>4
<1>12. QED
  BY <1>10, <1>11

\* Unless it is hit, the limit keeps every leg; hit or not, it keeps the best one.
LEMMA KeptLegs ==
  ASSUME NEW t \in Tables
  PROVE  /\ ~LimitHit(t) => Kept(t) = Pruned(t)
         /\ \A x \in Pruned(t) : \E y \in Kept(t) : GrowthOf(t, {y}) >= GrowthOf(t, {x})
<1>1. \A x \in Pruned(t) : {x} \in Bets(t) /\ x \in Nat /\ GrowthOf(t, {x}) \in Int
  BY Legs, SingleValue, GrowthIsInt
<1>2. PICK g \in [Pruned(t) -> Int] : \A x \in Pruned(t) : g[x] = GrowthOf(t, {x})
  <2>1. [x \in Pruned(t) |-> GrowthOf(t, {x})] \in [Pruned(t) -> Int]
    BY <1>1
  <2>2. QED
    BY <2>1
<1>3. /\ \A x \in Pruned(t) : x \in Nat /\ g[x] \in Int
      /\ \A x, y \in Pruned(t) : Ahead(t, y, x) <=> g[y] > g[x] \/ (g[y] = g[x] /\ y < x)
  BY <1>2, <1>1 DEF Ahead
<1>4. IsFiniteSet(Pruned(t)) /\ Cardinality(Pruned(t)) \in Nat
  BY Legs, FS_CardinalityType
<1>5. MaxLegs \in Nat \ {0}
  BY LimitAssumption
<1>6. ASSUME ~LimitHit(t), NEW x \in Pruned(t) PROVE x \in Kept(t)
  <2>1. PICK before : before = {y \in Pruned(t) : Ahead(t, y, x)}
    OBVIOUS
  <2>2. before \in SUBSET (Pruned(t) \ {x})
    BY <1>3, <2>1
  <2>3. /\ IsFiniteSet(Pruned(t) \ {x})
        /\ Cardinality(Pruned(t) \ {x}) = Cardinality(Pruned(t)) - 1
    BY <1>4, OneLess
  <2>4. IsFiniteSet(before) /\ Cardinality(before) <= Cardinality(Pruned(t)) - 1
    BY <2>2, <2>3, FS_Subset
  <2>5. Cardinality(Pruned(t)) <= MaxLegs /\ Cardinality(before) \in Nat
    BY <1>4, <1>5, <1>6, <2>4, FS_CardinalityType DEF LimitHit
  <2>6. Cardinality(before) < MaxLegs
    BY <1>4, <1>5, <2>4, <2>5
  <2>7. QED
    BY <2>1, <2>6 DEF Kept
<1>7. ASSUME NEW x \in Pruned(t)
      PROVE  \E y \in Kept(t) : GrowthOf(t, {y}) >= GrowthOf(t, {x})
  <2>1. PICK R : R = {e \in Pruned(t) \X Pruned(t) : Ahead(t, e[1], e[2])}
    OBVIOUS
  <2>2. \A y \in Pruned(t) : <<y, y>> \notin R
    BY <1>3, <2>1
  <2>3. \A y, z, v \in Pruned(t) : <<y, z>> \in R /\ <<z, v>> \in R => <<y, v>> \in R
    <3>1. \A y, z, v \in Pruned(t) : Ahead(t, y, z) /\ Ahead(t, z, v) => Ahead(t, y, v)
      BY <1>3
    <3>2. QED
      BY <2>1, <3>1
  <2>4. PICK m \in Pruned(t) : \A y \in Pruned(t) : <<y, m>> \notin R
    BY <1>4, <1>7, <2>2, <2>3, SomethingFirst
  <2>5. \A y \in Pruned(t) : ~Ahead(t, y, m)
    BY <2>1, <2>4
  <2>6. {y \in Pruned(t) : Ahead(t, y, m)} = {}
    BY <2>5
  <2>7. Cardinality({y \in Pruned(t) : Ahead(t, y, m)}) < MaxLegs
    BY <1>5, <2>6, FS_EmptySet
  <2>8. m \in Kept(t)
    BY <2>7 DEF Kept
  <2>9. GrowthOf(t, {m}) >= GrowthOf(t, {x})
    BY <1>2, <1>3, <2>5
  <2>10. QED
    BY <2>8, <2>9
<1>8. Kept(t) \subseteq Pruned(t)
  BY Legs
<1>9. QED
  BY <1>6, <1>7, <1>8

-----------------------------------------------------------------------------
(* What the choice is worth among all the bets.                            *)

\* No smaller growth, and with the same growth no more legs.
NoWorse(t, c, d) ==
  \/ GrowthOf(t, c) > GrowthOf(t, d)
  \/ GrowthOf(t, c) = GrowthOf(t, d) /\ Cardinality(c) <= Cardinality(d)

LEMMA NothingBeatsTheChoice ==
  ASSUME NEW t \in Tables, ~LimitHit(t), NEW c \in Bets(t)
  PROVE  Choice(t) \in Bets(t) /\ NoWorse(t, Choice(t), c)
<1>1. PICK R : R = {e \in Bets(t) \X Bets(t) : NoWorse(t, e[1], e[2])}
  OBVIOUS
<1>2. \A a \in Bets(t) : GrowthOf(t, a) \in Int /\ Cardinality(a) \in 1..3 /\ IsFiniteSet(a)
  BY BetFacts, BetRule
<1>3. \A a, b \in Bets(t) : <<a, b>> \in R <=> NoWorse(t, a, b)
  BY <1>1
<1>4. <<c, c>> \in R
  BY <1>2, <1>3 DEF NoWorse
<1>5. ASSUME NEW a \in Bets(t), NEW b \in Bets(t), NEW d \in Bets(t), NoWorse(t, a, b), NoWorse(t, b, d)
      PROVE  NoWorse(t, a, d)
  BY <1>2, <1>5 DEF NoWorse
<1>6. ASSUME NEW a \in Bets(t), NEW b \in Bets(t), Improves(t, a, b) PROVE NoWorse(t, a, b)
  <2>1. PICK x \in b \ Pruned(t) :
          \/ x \notin Positive(t) /\ a = b \ {x}
          \/ \E y \in Pruned(t) : Dominates(t, y, x) /\ a = (b \ {x}) \cup {y}
    BY <1>6 DEF Improves
  <2>2. Pruned(t) \subseteq ValidLegs(t)
    BY Legs
  <2>3. GrowthOf(t, a) >= GrowthOf(t, b) /\ Cardinality(a) <= Cardinality(b)
    <3>1. CASE x \notin Positive(t) /\ a = b \ {x}
      <4>1. GrowthOf(t, a) >= GrowthOf(t, b) /\ Cardinality(a) = Cardinality(b) - 1
        BY <2>1, <3>1, Drop
      <4>2. QED
        BY <1>2, <4>1
    <3>2. CASE \E y \in Pruned(t) : Dominates(t, y, x) /\ a = (b \ {x}) \cup {y}
      <4>1. GrowthOf(t, a) >= GrowthOf(t, b) /\ Cardinality(a) = Cardinality(b)
        BY <2>1, <2>2, <3>2, Replace
      <4>2. QED
        BY <1>2, <4>1
    <3>3. QED
      BY <2>1, <3>1, <3>2
  <2>4. QED
    BY <1>2, <2>3 DEF NoWorse
<1>7. PICK d \in Bets(t) : d \in SUBSET Pruned(t) /\ <<d, c>> \in R
  <2>1. \A a, b, d \in Bets(t) : <<a, b>> \in R /\ <<b, d>> \in R => <<a, d>> \in R
    BY <1>3, <1>5
  <2>2. \A a, b \in Bets(t) : Improves(t, a, b) => <<a, b>> \in R
    BY <1>3, <1>6
  <2>3. QED
    BY <1>4, <2>1, <2>2, Improved
<1>8. Choice(t) \in Bets(t) /\ (Choice(t) = d \/ Before(t, Choice(t), d))
  BY <1>7, KeptLegs, SelectedIsFirstKept
<1>9. NoWorse(t, Choice(t), d)
  BY <1>2, <1>8 DEF Before, NoWorse
<1>10. QED
  BY <1>3, <1>5, <1>7, <1>8, <1>9

\* Where no two different prices grow alike, an improvement comes before in the
\* engine's own order, ties included.
LEMMA ImprovementComesBefore ==
  ASSUME NEW t \in Tables, NEW a \in Bets(t), NEW b \in Bets(t), Improves(t, a, b)
  PROVE  Before(t, a, b)
<1>1. PICK x \in b \ Pruned(t) :
        \/ x \notin Positive(t) /\ a = b \ {x}
        \/ \E y \in Pruned(t) : Dominates(t, y, x) /\ a = (b \ {x}) \cup {y}
  BY DEF Improves
<1>2. /\ GrowthOf(t, a) \in Int /\ Worth(t, a) \in Int /\ Cardinality(a) \in 1..3 /\ a \in SUBSET Nat
      /\ GrowthOf(t, b) \in Int /\ Worth(t, b) \in Int /\ Cardinality(b) \in 1..3 /\ b \in SUBSET Nat
  BY BetFacts
<1>3. CASE x \notin Positive(t) /\ a = b \ {x}
  <2>1. GrowthOf(t, a) >= GrowthOf(t, b) /\ Cardinality(a) = Cardinality(b) - 1
    BY <1>1, <1>3, Drop
  <2>2. QED
    BY <1>2, <2>1 DEF Before
<1>4. CASE \E y \in Pruned(t) : Dominates(t, y, x) /\ a = (b \ {x}) \cup {y}
  <2>1. PICK y \in Pruned(t) : Dominates(t, y, x) /\ a = (b \ {x}) \cup {y}
    BY <1>4
  <2>2. y \in ValidLegs(t) /\ y \in Nat
    BY Legs
  <2>3. /\ y \notin b /\ Cardinality(a) = Cardinality(b) /\ GrowthOf(t, a) >= GrowthOf(t, b)
        /\ Probability(t, a) >= Probability(t, b) /\ Odds(t, a) >= Odds(t, b)
        /\ t[y].p > t[x].p => Probability(t, a) # Probability(t, b)
        /\ t[y].odds > t[x].odds => Odds(t, a) # Odds(t, b)
    BY <1>1, <2>1, <2>2, Replace
  <2>4. /\ Probability(t, a) \in 1..(Scale - 1) /\ Odds(t, a) \in 2..MaxCompoundOdds
        /\ Probability(t, b) \in 1..(Scale - 1) /\ Odds(t, b) \in 2..MaxCompoundOdds
    BY BetRule, Prices
  <2>5. CASE t[y].p > t[x].p \/ t[y].odds > t[x].odds
    <3>1. /\ Probability(t, a) \in Probability(t, b)..(Scale - 1)
          /\ Odds(t, a) \in Odds(t, b)..MaxCompoundOdds
      BY <2>3, <2>4, Paddings
    <3>2. Probability(t, a) # Probability(t, b) \/ Odds(t, a) # Odds(t, b)
      BY <2>3, <2>5
    <3>3. Probability(t, b) * Odds(t, b) > Scale
      BY BetRule DEF Worth
    <3>4. GrowthOf(t, a) > GrowthOf(t, b)
      BY <2>4, <3>1, <3>2, <3>3, StrictGrowthAssumption DEF GrowthOf
    <3>5. QED
      BY <3>4 DEF Before
  <2>6. CASE ~(t[y].p > t[x].p \/ t[y].odds > t[x].odds)
    <3>1. y < x
      BY <2>1, <2>6 DEF Dominates
    <3>2. x \in Nat /\ y \in a /\ \A j \in Nat : j < y => (j \in a <=> j \in b)
      BY <1>1, <1>2, <2>1, <2>2, <3>1
    <3>3. Smaller(a, b)
      BY <2>3, <3>2 DEF Smaller
    <3>4. Worth(t, a) >= Worth(t, b)
      BY <2>3, <2>4, MulLeq DEF Worth
    <3>5. QED
      BY <1>2, <2>3, <3>3, <3>4 DEF Before
  <2>7. QED
    BY <2>5, <2>6
<1>5. QED
  BY <1>1, <1>3, <1>4

LEMMA ChoiceIsFirstOfAll ==
  ASSUME NEW t \in Tables, ~LimitHit(t), NEW c \in Bets(t)
  PROVE  Choice(t) \in Bets(t) /\ (Choice(t) = c \/ Before(t, Choice(t), c))
<1>1. PICK R : R = {e \in Bets(t) \X Bets(t) : e[1] = e[2] \/ Before(t, e[1], e[2])}
  OBVIOUS
<1>2. \A a, b \in Bets(t) : <<a, b>> \in R <=> a = b \/ Before(t, a, b)
  BY <1>1
<1>3. \A a, b, d \in Bets(t) : <<a, b>> \in R /\ <<b, d>> \in R => <<a, d>> \in R
  BY <1>2, BeforeIsAnOrder
<1>4. \A a, b \in Bets(t) : Improves(t, a, b) => <<a, b>> \in R
  BY <1>2, ImprovementComesBefore
<1>5. <<c, c>> \in R
  BY <1>2
<1>6. PICK d \in Bets(t) : d \in SUBSET Pruned(t) /\ <<d, c>> \in R
  BY <1>3, <1>4, <1>5, Improved
<1>7. Choice(t) \in Bets(t) /\ (Choice(t) = d \/ Before(t, Choice(t), d))
  BY <1>6, KeptLegs, SelectedIsFirstKept
<1>8. <<Choice(t), d>> \in R
  BY <1>2, <1>7
<1>9. <<Choice(t), c>> \in R
  BY <1>3, <1>6, <1>7, <1>8
<1>10. QED
  BY <1>2, <1>7, <1>9

LEMMA NoChoice ==
  ASSUME NEW t \in Tables, Bets(t) = {}
  PROVE  Choice(t) = {}
<1>1. Kept(t) = {}
  <2>1. \A x \in Kept(t) : {x} \in Bets(t)
    BY Legs, SingleValue
  <2>2. QED
    BY <2>1
<1>2. BestSimple(t) = {} /\ BestCompound(t) = {}
  BY <1>1, Nobody
<1>3. QED
  BY <1>2 DEF Choice, Selected

\* Hit or not, the limit leaves the best simple bet where it was.
LEMMA BestSimpleSpared ==
  ASSUME NEW t \in Tables, NEW x \in Positive(t)
  PROVE  /\ GrowthOf(t, BestSimple(t)) >= GrowthOf(t, {x})
         /\ GrowthOf(t, Choice(t)) >= GrowthOf(t, {x})
<1>1. \A y \in Positive(t) : {y} \in Bets(t) /\ GrowthOf(t, {y}) \in Int
  BY Legs, SingleValue, GrowthIsInt
<1>2. PICK y \in Pruned(t) : GrowthOf(t, {y}) >= GrowthOf(t, {x})
  <2>1. CASE x \in Pruned(t)
    <3>1. PICK g \in Int : g = GrowthOf(t, {x})
      BY <1>1
    <3>2. GrowthOf(t, {x}) >= GrowthOf(t, {x})
      BY <3>1
    <3>3. QED
      BY <2>1, <3>2
  <2>2. CASE x \notin Pruned(t)
    <3>1. PICK y \in Pruned(t) : Dominates(t, y, x)
      BY <2>2, PrunedDominates
    <3>2. y \in ValidLegs(t)
      BY Legs
    <3>3. GrowthOf(t, ({x} \ {x}) \cup {y}) >= GrowthOf(t, {x})
      <4>1. {x} \in Bets(t) /\ x \in {x}
        BY <1>1
      <4>2. QED
        BY <3>1, <3>2, <4>1, Replace
    <3>4. ({x} \ {x}) \cup {y} = {y}
      OBVIOUS
    <3>5. QED
      BY <3>3, <3>4
  <2>3. QED
    BY <2>1, <2>2
<1>3. PICK z \in Kept(t) : GrowthOf(t, {z}) >= GrowthOf(t, {y})
  BY KeptLegs
<1>4. x \in Positive(t) /\ y \in Positive(t) /\ z \in Positive(t)
  BY Legs
<1>5. GrowthOf(t, {z}) >= GrowthOf(t, {x})
  BY <1>1, <1>2, <1>3, <1>4
<1>6. PICK s : s = BestSimple(t)
  OBVIOUS
<1>7. s \in Bets(t) /\ (s = {z} \/ Before(t, s, {z}))
  BY <1>6, SimpleChoice
<1>8. GrowthOf(t, s) \in Int /\ GrowthOf(t, {z}) \in Int /\ GrowthOf(t, {x}) \in Int
  BY <1>1, <1>4, <1>7, GrowthIsInt
<1>9. GrowthOf(t, s) >= GrowthOf(t, {x})
  BY <1>5, <1>7, <1>8 DEF Before
<1>10. Choice(t) = s \/ (Choice(t) = BestCompound(t) /\ BestCompound(t) # {}
                           /\ GrowthOf(t, Choice(t)) > GrowthOf(t, s))
  BY <1>6 DEF Choice, Selected
<1>11. GrowthOf(t, Choice(t)) >= GrowthOf(t, {x})
  <2>1. CASE Choice(t) = s
    BY <1>9, <2>1
  <2>2. CASE Choice(t) = BestCompound(t) /\ BestCompound(t) # {} /\ GrowthOf(t, Choice(t)) > GrowthOf(t, s)
    <3>1. GrowthOf(t, Choice(t)) \in Int
      BY <2>2, Nobody, GrowthIsInt
    <3>2. QED
      BY <1>8, <1>9, <2>2, <3>1
  <2>3. QED
    BY <1>10, <2>1, <2>2
<1>12. QED
  BY <1>6, <1>9, <1>11

-----------------------------------------------------------------------------
(* The offers between two calls.                                           *)

TablesInv == offers \in Tables /\ decision = Decide(offers)

LEMMA TablesInvHolds == Spec => []TablesInv
<1>1. Init => TablesInv
  BY DEF Init, TablesInv, Tables
<1>2. TablesInv /\ [Next]_vars => TablesInv'
  <2> SUFFICES ASSUME TablesInv, [Next]_vars PROVE TablesInv'
    OBVIOUS
  <2>1. CASE Open
    <3>1. PICK k \in Kinds :
            offers' = Append(offers, [event |-> k.event, p |-> k.p, odds |-> k.odds,
                                      status |-> "candidate"])
      BY <2>1 DEF Open
    <3>2. k.event \in Events /\ k.p \in 0..Unit /\ k.odds \in 1..MaxOdds
      BY KindAssumption
    <3>3. [event |-> k.event, p |-> k.p, odds |-> k.odds, status |-> "candidate"] \in OfferRow
      BY <3>2 DEF OfferRow
    <3>4. offers' \in Seq(OfferRow)
      BY <3>1, <3>3 DEF TablesInv, Tables
    <3>5. QED
      BY <2>1, <3>4 DEF Open, TablesInv, Tables
  <2>2. ASSUME NEW i \in 1..MaxOffers, Close(i) PROVE TablesInv'
    <3>1. offers \in Seq(OfferRow) /\ i \in DOMAIN offers
      BY <2>2 DEF Close, Candidates, TablesInv, Tables
    <3>2. [offers[i] EXCEPT !.status = "closed"] \in OfferRow
      <4>1. offers[i] \in OfferRow
        BY <3>1
      <4>2. QED
        BY <4>1 DEF OfferRow
    <3>3. offers' \in Seq(OfferRow)
      BY <2>2, <3>1, <3>2 DEF Close
    <3>4. QED
      BY <2>2, <3>3 DEF Close, TablesInv, Tables
  <2>3. CASE UNCHANGED vars
    BY <2>3 DEF TablesInv, vars
  <2>4. QED
    BY <2>1, <2>2, <2>3 DEF Next
<1>3. QED
  BY <1>1, <1>2, PTL DEF Spec

LEMMA DecisionFields ==
  ASSUME NEW t
  PROVE  /\ Decide(t).selected = Choice(t) /\ Decide(t).simple = BestSimple(t)
         /\ Decide(t).limited = LimitHit(t)
BY DEF Decide, Choice

\* decision_engine.py:22-25: unless the limit was hit no bet of one, two or three
\* offers, with value one by one or not, pruned or not, grows faster than the
\* selected one, or as fast with fewer legs.
THEOREM TheSelectedBetIsTheBest == Spec => []NothingBetter
<1>1. TablesInv => NothingBetter
  <2> SUFFICES ASSUME TablesInv, ~decision.limited, NEW c \in AllProposals
               PROVE  /\ decision.selected # {}
                      /\ \/ GrowthOf(offers, c) < GrowthOf(offers, decision.selected)
                         \/ /\ GrowthOf(offers, c) = GrowthOf(offers, decision.selected)
                            /\ Cardinality(c) >= Cardinality(decision.selected)
    BY DEF NothingBetter
  <2>1. offers \in Tables /\ ~LimitHit(offers) /\ decision.selected = Choice(offers)
    BY DecisionFields DEF TablesInv
  <2>2. c \in Bets(offers)
    BY DEF AllProposals, Bets
  <2>3. Choice(offers) \in Bets(offers) /\ NoWorse(offers, Choice(offers), c)
    BY <2>1, <2>2, NothingBeatsTheChoice
  <2>4. Cardinality(Choice(offers)) \in 1..3 /\ Cardinality(c) \in 1..3
    BY <2>1, <2>2, <2>3, BetFacts
  <2>5. GrowthOf(offers, Choice(offers)) \in Int /\ GrowthOf(offers, c) \in Int
    BY <2>1, <2>2, <2>3, BetFacts
  <2>6. Choice(offers) # {}
    BY <2>4, FS_EmptySet
  <2>7. QED
    BY <2>1, <2>3, <2>4, <2>5, <2>6 DEF NoWorse
<1>2. QED
  BY <1>1, TablesInvHolds, PTL

\* decision_engine.py:26-30: even where the limit is hit, the best simple bet, and
\* with it the decision, grows no slower than any offer with value.
THEOREM TheBestSimpleIsSpared == Spec => []LimitSparesTheBestSimple
<1>1. TablesInv => LimitSparesTheBestSimple
  <2> SUFFICES ASSUME TablesInv, NEW x \in Positive(offers)
               PROVE  /\ GrowthOf(offers, decision.simple) >= GrowthOf(offers, {x})
                      /\ GrowthOf(offers, decision.selected) >= GrowthOf(offers, {x})
    BY DEF LimitSparesTheBestSimple
  <2>1. /\ offers \in Tables
        /\ decision.selected = Choice(offers) /\ decision.simple = BestSimple(offers)
    BY DecisionFields DEF TablesInv
  <2>2. QED
    BY <2>1, BestSimpleSpared
<1>2. QED
  BY <1>1, TablesInvHolds, PTL

Closed(t, i) == [t EXCEPT ![i].status = "closed"]

\* Closing an offer removes the bets it is in, and nothing else.
LEMMA ClosedOffer ==
  ASSUME NEW t \in Tables, NEW i \in Candidates(t), NEW u \in Tables,
         u = Closed(t, i)
  PROVE  /\ \A c : GrowthOf(u, c) = GrowthOf(t, c) /\ Worth(u, c) = Worth(t, c)
         /\ \A c : c \in Bets(u) <=> c \in Bets(t) /\ i \notin c
<1>1. DOMAIN u = DOMAIN t /\ i \in DOMAIN t
  BY DEF Candidates, Closed
<1>2. \A j \in DOMAIN t : /\ u[j].p = t[j].p /\ u[j].odds = t[j].odds /\ u[j].event = t[j].event
                          /\ j # i => u[j].status = t[j].status
  <2>1. \A j \in DOMAIN t : t[j] \in OfferRow
    BY DEF Tables
  <2>2. \A j \in DOMAIN t : u[j] = IF j = i THEN [t[i] EXCEPT !.status = "closed"] ELSE t[j]
    BY <1>1 DEF Closed
  <2>3. QED
    BY <1>1, <2>1, <2>2 DEF OfferRow
<1>3. u[i].status = "closed"
  <2>1. t[i] \in OfferRow
    BY <1>1 DEF Tables
  <2>2. QED
    BY <1>1, <2>1 DEF OfferRow, Closed
<1>4. P(u) = P(t) /\ O(u) = O(t)
  BY <1>1, <1>2 DEF P, O
<1>5. \A c : Probability(u, c) = Probability(t, c) /\ Odds(u, c) = Odds(t, c)
  BY <1>4, BetRule
<1>6. \A c : GrowthOf(u, c) = GrowthOf(t, c) /\ Worth(u, c) = Worth(t, c)
  BY <1>5 DEF GrowthOf, Worth
<1>7. \A j : j \in ValidLegs(u) <=> j \in ValidLegs(t) /\ j # i
  BY <1>1, <1>2, <1>3 DEF ValidLegs, Candidates
<1>8. ASSUME NEW c, c \in SUBSET ValidLegs(t)
      PROVE  DistinctEvents(u, c) <=> DistinctEvents(t, c)
  <2>1. c \in SUBSET DOMAIN t
    BY <1>8, Legs
  <2>2. QED
    BY <1>2, <2>1 DEF DistinctEvents
<1>9. ASSUME NEW c PROVE c \in Bets(u) <=> c \in Bets(t) /\ i \notin c
  <2>1. c \in SUBSET ValidLegs(u) <=> c \in SUBSET ValidLegs(t) /\ i \notin c
    BY <1>7
  <2>2. QED
    BY <1>6, <1>8, <2>1, BetRule
<1>10. QED
  BY <1>6, <1>9

LEMMA DecisionOutlivesTheOffer ==
  ASSUME NEW t \in Tables, NEW i \in Candidates(t), NEW u \in Tables,
         u = Closed(t, i),
         ~LimitHit(t), ~LimitHit(u), i \notin Choice(t)
  PROVE  Choice(u) = Choice(t)
<1>1. /\ \A c, d : Before(u, c, d) <=> Before(t, c, d)
      /\ \A c : c \in Bets(u) <=> c \in Bets(t) /\ i \notin c
  <2>1. /\ \A c : GrowthOf(u, c) = GrowthOf(t, c) /\ Worth(u, c) = Worth(t, c)
        /\ \A c : c \in Bets(u) <=> c \in Bets(t) /\ i \notin c
    BY ClosedOffer
  <2>2. ASSUME NEW c, NEW d PROVE Before(u, c, d) <=> Before(t, c, d)
    <3>1. /\ GrowthOf(u, c) = GrowthOf(t, c) /\ GrowthOf(u, d) = GrowthOf(t, d)
          /\ Worth(u, c) = Worth(t, c) /\ Worth(u, d) = Worth(t, d)
      BY <2>1
    <3>2. QED
      BY <3>1 DEF Before
  <2>3. QED
    BY <2>1, <2>2
<1>2. CASE Bets(t) = {}
  BY <1>1, <1>2, NoChoice
<1>3. CASE Bets(t) # {}
  <2>1. Choice(t) \in Bets(t)
    BY <1>3, ChoiceIsFirstOfAll
  <2>2. Choice(t) \in Bets(u)
    BY <1>1, <2>1
  <2>3. Choice(u) \in Bets(u) /\ (Choice(u) = Choice(t) \/ Before(u, Choice(u), Choice(t)))
    BY <2>2, ChoiceIsFirstOfAll
  <2>4. Choice(u) \in Bets(t)
    BY <1>1, <2>3
  <2>5. Choice(t) = Choice(u) \/ Before(t, Choice(t), Choice(u))
    BY <2>4, ChoiceIsFirstOfAll
  <2>6. ~(Before(t, Choice(t), Choice(u)) /\ Before(t, Choice(u), Choice(t)))
    BY <2>1, <2>4, BeforeIsAnOrder
  <2>7. QED
    BY <1>1, <2>3, <2>5, <2>6
<1>4. QED
  BY <1>2, <1>3

\* An offer that was not selected can go without changing the decision, unless the
\* limit was hit, where the growths are those of real numbers: however ties are
\* broken, they are broken alike with and without it.
THEOREM TheDiscardedDoNotMatter == Spec => DiscardedDoNotMatter
<1> DEFINE Goal == \A i \in DOMAIN offers :
                     /\ ~decision.limited /\ ~decision'.limited
                     /\ i \in Candidates(offers) \ Candidates(offers')
                     /\ i \notin decision.selected
                     => decision'.selected = decision.selected
<1>1. TablesInv /\ TablesInv' /\ [Next]_vars => [Goal]_vars
  <2> SUFFICES ASSUME TablesInv, TablesInv', Next, NEW i \in DOMAIN offers,
                      ~decision.limited, ~decision'.limited,
                      i \in Candidates(offers) \ Candidates(offers'), i \notin decision.selected
               PROVE  decision'.selected = decision.selected
    OBVIOUS
  <2>1. /\ offers \in Tables /\ decision.selected = Choice(offers) /\ ~LimitHit(offers)
        /\ offers' \in Tables /\ decision'.selected = Choice(offers') /\ ~LimitHit(offers')
    BY DecisionFields DEF TablesInv
  <2>2. ~Open
    <3> SUFFICES ASSUME Open PROVE FALSE
      OBVIOUS
    <3>1. PICK row : offers' = Append(offers, row)
      BY DEF Open
    <3>2. i \in DOMAIN offers' /\ offers'[i] = offers[i]
      BY <2>1, <3>1 DEF Tables
    <3>3. QED
      BY <3>2 DEF Candidates
  <2>3. PICK j \in 1..MaxOffers : Close(j)
    BY <2>2 DEF Next
  <2>4. offers' = Closed(offers, j) /\ j \in Candidates(offers)
    BY <2>3 DEF Close, Closed
  <2>5. i = j
    BY <2>4 DEF Candidates, Closed
  <2>6. QED
    BY <2>1, <2>4, <2>5, DecisionOutlivesTheOffer
<1>2. QED
  BY <1>1, TablesInvHolds, PTL DEF Spec, DiscardedDoNotMatter

=============================================================================
