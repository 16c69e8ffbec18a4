---------------------------- MODULE SumTheorems -----------------------------
(* What the proofs need of SumFunction, the sum of the values of a function, *)
(* for any finite domain.                                                    *)
EXTENDS Integers, FiniteSets, Functions, TLAPS, FiniteSetTheorems, WellFoundedInduction

-----------------------------------------------------------------------------
(* SumFunction is the community modules' fold, a recursive function on the   *)
(* subsets of the domain; what it computes is shown by taking the least      *)
(* number of elements for which it would be something else.                  *)
LEMMA LeastNatural ==
  ASSUME NEW T \in SUBSET Nat, T # {}
  PROVE  \E m \in T : \A n \in T : m <= n
<1>1. IsWellFoundedOn({ss \in Nat \X Nat : ss[1] < ss[2]}, Nat)
  BY NatLessThanWellFounded DEF OpToRel
<1>2. PICK m \in T : \A n \in T : ~ (<<n, m>> \in {ss \in Nat \X Nat : ss[1] < ss[2]})
  BY <1>1, WFMin
<1>3. \A n \in T : ~ (n < m)
  BY <1>2
<1> QED
  BY <1>3

(* What holds for 0, and for n + 1 when it does for n, holds for all.        *)
LEMMA EveryNatural ==
  ASSUME NEW H \in SUBSET Nat, 0 \in H, \A n \in H : n + 1 \in H
  PROVE  H = Nat
<1> SUFFICES ASSUME Nat \ H # {} PROVE FALSE
  OBVIOUS
<1>1. PICK m \in Nat \ H : \A n \in Nat \ H : m <= n
  BY LeastNatural
<1>2. m - 1 \in Nat /\ m - 1 \notin Nat \ H
  BY <1>1
<1> QED
  BY <1>1, <1>2

AnyOf(s) == CHOOSE x \in s : TRUE

(* f adds up b on the sets of at most n elements.                            *)
AddsUpTo(f, b, n) ==
  \A s \in SUBSET DOMAIN b :
    Cardinality(s) <= n => f[s] = IF s = {} THEN 0 ELSE b[AnyOf(s)] + f[s \ {AnyOf(s)}]
Sums(b) ==
  CHOOSE f : f = [s \in SUBSET DOMAIN b |->
                    IF s = {} THEN 0 ELSE b[AnyOf(s)] + f[s \ {AnyOf(s)}]]

LEMMA SumIs == ASSUME NEW b PROVE SumFunction(b) = Sums(b)[DOMAIN b]
  BY DEF SumFunction, SumFunctionOnSet, FoldFunctionOnSet, MapThenFoldSet, Sums, AnyOf

(* Functions of finite domain, and the sets that are summed on the way.      *)
IsSummable(b) == IsFiniteSet(DOMAIN b) /\ \A x \in DOMAIN b : b[x] \in Int

LEMMA RestOf ==
  ASSUME NEW D, IsFiniteSet(D), NEW s \in SUBSET D, s # {}
  PROVE  /\ AnyOf(s) \in s /\ AnyOf(s) \in D /\ s \ {AnyOf(s)} \in SUBSET D
         /\ Cardinality(s) \in Nat /\ Cardinality(s \ {AnyOf(s)}) \in Nat
         /\ Cardinality(s \ {AnyOf(s)}) = Cardinality(s) - 1
<1>1. AnyOf(s) \in s
  BY DEF AnyOf
<1>2. IsFiniteSet(s)
  BY FS_Subset
<1> QED
  BY <1>1, <1>2, FS_RemoveElement, FS_CardinalityType

LEMMA SumsExist ==
  ASSUME NEW b, IsSummable(b)
  PROVE  \E f : f = [s \in SUBSET DOMAIN b |->
                       IF s = {} THEN 0 ELSE b[AnyOf(s)] + f[s \ {AnyOf(s)}]]
<1> DEFINE S == SUBSET DOMAIN b
           H == {n \in Nat : \E f \in [S -> Int] : AddsUpTo(f, b, n)}
<1>0. /\ \A s \in S : Cardinality(s) \in Nat /\ (Cardinality(s) = 0 <=> s = {})
      /\ \A s \in S : s # {} => /\ b[AnyOf(s)] \in Int /\ s \ {AnyOf(s)} \in S
                                /\ Cardinality(s \ {AnyOf(s)}) = Cardinality(s) - 1
  <2>1. \A s \in S : IsFiniteSet(s)
    BY FS_Subset DEF IsSummable
  <2> QED
    BY <2>1, RestOf, FS_EmptySet, FS_CardinalityType DEF IsSummable
<1>1. 0 \in H
  <2>1. [s \in S |-> 0] \in [S -> Int] /\ AddsUpTo([s \in S |-> 0], b, 0)
    BY <1>0 DEF AddsUpTo
  <2> QED
    BY <2>1
<1>2. ASSUME NEW n \in H PROVE n + 1 \in H
  <2>1. PICK f \in [S -> Int] : AddsUpTo(f, b, n)
    OBVIOUS
  <2> DEFINE g == [s \in S |-> IF s = {} THEN 0 ELSE b[AnyOf(s)] + f[s \ {AnyOf(s)}]]
  <2>2. g \in [S -> Int]
    <3>1. ASSUME NEW s \in S PROVE (IF s = {} THEN 0 ELSE b[AnyOf(s)] + f[s \ {AnyOf(s)}]) \in Int
      <4>1. CASE s = {}
        BY <4>1
      <4>2. CASE s # {}
        <5>1. b[AnyOf(s)] \in Int /\ f[s \ {AnyOf(s)}] \in Int
          BY <1>0, <2>1, <4>2
        <5> QED
          BY <4>2, <5>1
      <4> QED
        BY <4>1, <4>2
    <3> QED
      BY <3>1
  <2>3. \A s \in S : Cardinality(s) <= n => g[s] = f[s]
    BY <2>1 DEF AddsUpTo
  <2>4. AddsUpTo(g, b, n + 1)
    <3> SUFFICES ASSUME NEW s \in S, s # {}, Cardinality(s) <= n + 1
                 PROVE  g[s] = b[AnyOf(s)] + g[s \ {AnyOf(s)}]
      BY <1>0 DEF AddsUpTo
    <3>1. s \ {AnyOf(s)} \in S /\ Cardinality(s \ {AnyOf(s)}) <= n
      BY <1>0
    <3>2. g[s \ {AnyOf(s)}] = f[s \ {AnyOf(s)}]
      BY <2>3, <3>1
    <3> QED
      BY <3>2
  <2>5. \E e \in [S -> Int] : AddsUpTo(e, b, n + 1)
    <3> HIDE DEF g, S
    <3> QED
      BY <2>2, <2>4
  <2>6. n + 1 \in Nat
    OBVIOUS
  <2> HIDE DEF S
  <2> QED
    BY <2>5, <2>6
<1>3. H = Nat
  <2> HIDE DEF H
  <2>1. H \in SUBSET Nat
    BY DEF H
  <2> QED
    BY <1>1, <1>2, <2>1, EveryNatural
<1>4. Cardinality(DOMAIN b) \in Nat
  BY FS_CardinalityType DEF IsSummable
<1>5. PICK f \in [S -> Int] : AddsUpTo(f, b, Cardinality(DOMAIN b))
  BY <1>3, <1>4
<1>6. \A s \in S : Cardinality(s) <= Cardinality(DOMAIN b)
  BY FS_Subset DEF IsSummable
<1>7. f = [s \in S |-> IF s = {} THEN 0 ELSE b[AnyOf(s)] + f[s \ {AnyOf(s)}]]
  BY <1>5, <1>6 DEF AddsUpTo
<1> QED
  BY <1>7

LEMMA SumsAre ==
  ASSUME NEW b, IsSummable(b)
  PROVE  /\ Sums(b)[{}] = 0
         /\ \A s \in SUBSET DOMAIN b : s # {} =>
              Sums(b)[s] = b[AnyOf(s)] + Sums(b)[s \ {AnyOf(s)}]
<1>1. Sums(b) = [s \in SUBSET DOMAIN b |->
                   IF s = {} THEN 0 ELSE b[AnyOf(s)] + Sums(b)[s \ {AnyOf(s)}]]
  BY SumsExist DEF Sums
<1> QED
  BY <1>1

(* All values are the same.                                                  *)
LEMMA SumOfEqual ==
  ASSUME NEW b, IsSummable(b), NEW k \in Int, \A x \in DOMAIN b : b[x] = k
  PROVE  SumFunction(b) = Cardinality(DOMAIN b) * k
<1> DEFINE S == SUBSET DOMAIN b
           H == {n \in Nat : \A s \in S : Cardinality(s) = n => Sums(b)[s] = n * k}
<1>0. /\ \A s \in S : Cardinality(s) \in Nat /\ (Cardinality(s) = 0 <=> s = {})
      /\ \A s \in S : s # {} => /\ AnyOf(s) \in DOMAIN b /\ s \ {AnyOf(s)} \in S
                                /\ Cardinality(s \ {AnyOf(s)}) = Cardinality(s) - 1
  <2>1. \A s \in S : IsFiniteSet(s)
    BY FS_Subset DEF IsSummable
  <2> QED
    BY <2>1, RestOf, FS_EmptySet, FS_CardinalityType DEF IsSummable
<1>1. 0 \in H
  <2>1. 0 * k = 0
    OBVIOUS
  <2>2. \A s \in S : Cardinality(s) = 0 => Sums(b)[s] = 0 * k
    BY <1>0, <2>1, SumsAre
  <2> QED
    BY <2>2
<1>2. ASSUME NEW n \in H PROVE n + 1 \in H
  <2> SUFFICES ASSUME NEW s \in S, Cardinality(s) = n + 1 PROVE Sums(b)[s] = (n + 1) * k
    OBVIOUS
  <2>1. s # {} /\ s \ {AnyOf(s)} \in S /\ Cardinality(s \ {AnyOf(s)}) = n /\ b[AnyOf(s)] = k
    BY <1>0
  <2>2. Sums(b)[s \ {AnyOf(s)}] = n * k
    BY <2>1
  <2>3. Sums(b)[s] = b[AnyOf(s)] + Sums(b)[s \ {AnyOf(s)}]
    BY <2>1, SumsAre
  <2>4. k + n * k = (n + 1) * k
    OBVIOUS
  <2> QED
    BY <2>1, <2>2, <2>3, <2>4
<1>3. H = Nat
  <2> HIDE DEF H
  <2>1. H \in SUBSET Nat
    BY DEF H
  <2> QED
    BY <1>1, <1>2, <2>1, EveryNatural
<1>4. Cardinality(DOMAIN b) \in Nat /\ DOMAIN b \in S
  BY <1>0
<1> QED
  BY <1>3, <1>4, SumIs

(* One value changes, and the sum by as much.                                *)
LEMMA SumOfChange ==
  ASSUME NEW b, NEW c, IsSummable(b), IsSummable(c), DOMAIN c = DOMAIN b,
         NEW a \in DOMAIN b, \A x \in DOMAIN b \ {a} : c[x] = b[x]
  PROVE  /\ SumFunction(b) \in Int
         /\ SumFunction(c) = SumFunction(b) + (c[a] - b[a])
<1> DEFINE S == SUBSET DOMAIN b
           Change(s) == IF a \in s THEN c[a] - b[a] ELSE 0
           Changed(s) == Sums(b)[s] \in Int /\ Sums(c)[s] = Sums(b)[s] + Change(s)
           H == {n \in Nat : \A s \in S : Cardinality(s) = n => Changed(s)}
<1>0. /\ \A s \in S : Cardinality(s) \in Nat /\ (Cardinality(s) = 0 <=> s = {})
      /\ \A s \in S : s # {} => /\ AnyOf(s) \in s /\ AnyOf(s) \in DOMAIN b /\ s \ {AnyOf(s)} \in S
                                /\ Cardinality(s \ {AnyOf(s)}) = Cardinality(s) - 1
  <2>1. \A s \in S : IsFiniteSet(s)
    BY FS_Subset DEF IsSummable
  <2> QED
    BY <2>1, RestOf, FS_EmptySet, FS_CardinalityType DEF IsSummable
<1>1. 0 \in H
  <2>1. Changed({})
    BY SumsAre
  <2> QED
    BY <1>0, <2>1
<1>2. ASSUME NEW n \in H PROVE n + 1 \in H
  <2> SUFFICES ASSUME NEW s \in S, Cardinality(s) = n + 1 PROVE Changed(s)
    OBVIOUS
  <2> DEFINE x == AnyOf(s)
             r == s \ {x}
  <2>1. s # {} /\ x \in s /\ x \in DOMAIN b /\ r \in S /\ Cardinality(r) = n
    BY <1>0
  <2>2. Changed(r)
    BY <2>1
  <2>3. Sums(b)[s] = b[x] + Sums(b)[r] /\ Sums(c)[s] = c[x] + Sums(c)[r]
    BY <2>1, SumsAre
  <2>4. b[x] \in Int /\ c[x] \in Int /\ b[a] \in Int /\ c[a] \in Int
    BY <2>1 DEF IsSummable
  <2>5. c[x] + Change(r) = b[x] + Change(s)
    <3>1. CASE x = a
      BY <2>1, <2>4, <3>1
    <3>2. CASE x # a
      <4>1. c[x] = b[x] /\ (a \in r <=> a \in s)
        BY <2>1, <3>2
      <4> QED
        BY <4>1
    <3> QED
      BY <3>1, <3>2
  <2>6. Change(r) \in Int /\ Change(s) \in Int
    BY <2>4
  <2> HIDE DEF Change
  <2> QED
    BY <2>2, <2>3, <2>4, <2>5, <2>6
<1>3. H = Nat
  <2> HIDE DEF H
  <2>1. H \in SUBSET Nat
    BY DEF H
  <2> QED
    BY <1>1, <1>2, <2>1, EveryNatural
<1>4. Cardinality(DOMAIN b) \in Nat /\ DOMAIN b \in S
  BY <1>0
<1>5. Changed(DOMAIN b)
  <2> HIDE DEF Changed
  <2> QED
    BY <1>3, <1>4
<1> QED
  BY <1>5, SumIs

(* Something moves from one element to another, and the sum stays.           *)
LEMMA SumOfMove ==
  ASSUME NEW b, IsSummable(b), NEW from \in DOMAIN b, NEW to \in DOMAIN b, from # to,
         NEW m \in Int, NEW c, DOMAIN c = DOMAIN b,
         c[from] = b[from] - m, c[to] = b[to] + m,
         \A x \in DOMAIN b \ {from, to} : c[x] = b[x]
  PROVE  SumFunction(c) = SumFunction(b)
<1> DEFINE d == [b EXCEPT ![from] = b[from] - m]
<1>1. /\ DOMAIN d = DOMAIN b /\ d[from] = b[from] - m
      /\ \A x \in DOMAIN b \ {from} : d[x] = b[x]
  OBVIOUS
<1>2. b[from] \in Int /\ b[to] \in Int
  BY DEF IsSummable
<1> HIDE DEF d
<1>3. IsSummable(d) /\ IsSummable(c)
  BY <1>1, <1>2 DEF IsSummable
<1>4. SumFunction(b) \in Int /\ SumFunction(d) = SumFunction(b) + (d[from] - b[from])
  BY <1>1, <1>3, SumOfChange
<1>5. \A x \in DOMAIN d \ {to} : c[x] = d[x]
  BY <1>1
<1>6. SumFunction(c) = SumFunction(d) + (c[to] - d[to])
  BY <1>1, <1>3, <1>5, SumOfChange
<1> QED
  BY <1>1, <1>2, <1>4, <1>6

LEMMA SumsType ==
  ASSUME NEW b, IsSummable(b), NEW s \in SUBSET DOMAIN b PROVE Sums(b)[s] \in Int
<1> DEFINE S == SUBSET DOMAIN b
           H == {n \in Nat : \A t \in S : Cardinality(t) = n => Sums(b)[t] \in Int}
<1>0. /\ \A t \in S : Cardinality(t) \in Nat /\ (Cardinality(t) = 0 <=> t = {})
      /\ \A t \in S : t # {} => /\ b[AnyOf(t)] \in Int /\ t \ {AnyOf(t)} \in S
                                /\ Cardinality(t \ {AnyOf(t)}) = Cardinality(t) - 1
  <2>1. \A t \in S : IsFiniteSet(t)
    BY FS_Subset DEF IsSummable
  <2> QED
    BY <2>1, RestOf, FS_EmptySet, FS_CardinalityType DEF IsSummable
<1>1. 0 \in H
  <2>1. \A t \in S : Cardinality(t) = 0 => Sums(b)[t] = 0
    BY <1>0, SumsAre
  <2>2. \A t \in S : Cardinality(t) = 0 => Sums(b)[t] \in Int
    BY <2>1
  <2> QED
    BY <2>2
<1>2. ASSUME NEW n \in H PROVE n + 1 \in H
  <2> SUFFICES ASSUME NEW t \in S, Cardinality(t) = n + 1 PROVE Sums(b)[t] \in Int
    OBVIOUS
  <2> DEFINE r == t \ {AnyOf(t)}
  <2>1. t # {} /\ b[AnyOf(t)] \in Int /\ r \in S /\ Cardinality(r) = n
    BY <1>0
  <2>2. Sums(b)[r] \in Int
    BY <2>1
  <2>3. Sums(b)[t] = b[AnyOf(t)] + Sums(b)[r]
    BY <2>1, SumsAre
  <2> QED
    BY <2>1, <2>2, <2>3
<1>3. H = Nat
  <2> HIDE DEF H
  <2>1. H \in SUBSET Nat
    BY DEF H
  <2> QED
    BY <1>1, <1>2, <2>1, EveryNatural
<1> QED
  BY <1>0, <1>3

(* Any member of a set may be the one that is added last.                    *)
LEMMA SumsWithout ==
  ASSUME NEW b, IsSummable(b), NEW s \in SUBSET DOMAIN b, NEW a \in s
  PROVE  Sums(b)[s] = b[a] + Sums(b)[s \ {a}]
<1> DEFINE S == SUBSET DOMAIN b
           Sound(t) == \A x \in t : Sums(b)[t] = b[x] + Sums(b)[t \ {x}]
           H == {n \in Nat : \A t \in S : Cardinality(t) = n => Sound(t)}
<1>0. /\ \A t \in S : IsFiniteSet(t) /\ Cardinality(t) \in Nat /\ (Cardinality(t) = 0 <=> t = {})
      /\ \A t \in S : t # {} => AnyOf(t) \in t
  <2>1. \A t \in S : IsFiniteSet(t)
    BY FS_Subset DEF IsSummable
  <2> QED
    BY <2>1, RestOf, FS_EmptySet, FS_CardinalityType DEF IsSummable
<1>r. ASSUME NEW t \in S, NEW x \in t
      PROVE  t \ {x} \in S /\ Cardinality(t \ {x}) = Cardinality(t) - 1
  BY <1>0, FS_RemoveElement
<1>i. \A t \in S : Sums(b)[t] \in Int
  BY SumsType
<1>1. 0 \in H
  BY <1>0
<1>2. ASSUME NEW n \in H PROVE n + 1 \in H
  <2> SUFFICES ASSUME NEW t \in S, Cardinality(t) = n + 1, NEW x \in t
               PROVE  Sums(b)[t] = b[x] + Sums(b)[t \ {x}]
    OBVIOUS
  <2> DEFINE y == AnyOf(t)
  <2>1. t # {} /\ y \in t
    BY <1>0
  <2>2. Sums(b)[t] = b[y] + Sums(b)[t \ {y}]
    BY <2>1, SumsAre
  <2>3. CASE x = y
    BY <2>2, <2>3
  <2>4. CASE x # y
    <3> HIDE DEF y
    <3>1. t \ {x} \in S /\ Cardinality(t \ {x}) = n /\ t \ {y} \in S /\ Cardinality(t \ {y}) = n
      BY <1>r, <2>1
    <3>2. Sums(b)[t \ {x}] = b[y] + Sums(b)[(t \ {x}) \ {y}]
      BY <2>1, <2>4, <3>1
    <3>3. Sums(b)[t \ {y}] = b[x] + Sums(b)[(t \ {y}) \ {x}]
      BY <2>4, <3>1
    <3> DEFINE r == (t \ {x}) \ {y}
    <3>4. (t \ {y}) \ {x} = r /\ r \in S
      OBVIOUS
    <3>5. b[x] \in Int /\ b[y] \in Int /\ Sums(b)[r] \in Int
      BY <1>i, <2>1, <3>4 DEF IsSummable
    <3>6. Sums(b)[t \ {x}] = b[y] + Sums(b)[r] /\ Sums(b)[t \ {y}] = b[x] + Sums(b)[r]
      BY <3>2, <3>3, <3>4
    <3> HIDE DEF r
    <3> QED
      BY <2>2, <3>5, <3>6
  <2> QED
    BY <2>3, <2>4
<1>3. H = Nat
  <2> HIDE DEF H
  <2>1. H \in SUBSET Nat
    BY DEF H
  <2> QED
    BY <1>1, <1>2, <2>1, EveryNatural
<1>4. Sound(s)
  <2> HIDE DEF Sound
  <2> QED
    BY <1>0, <1>3
<1> QED
  BY <1>4

(* Adding more to each adds more to the sum.                                 *)
LEMMA SumOfLess ==
  ASSUME NEW b, NEW c, IsSummable(b), IsSummable(c), DOMAIN c = DOMAIN b,
         \A x \in DOMAIN b : b[x] <= c[x]
  PROVE  SumFunction(b) <= SumFunction(c)
<1> DEFINE S == SUBSET DOMAIN b
           H == {n \in Nat : \A t \in S : Cardinality(t) = n => Sums(b)[t] <= Sums(c)[t]}
<1>0. /\ \A t \in S : Cardinality(t) \in Nat /\ (Cardinality(t) = 0 <=> t = {})
      /\ \A t \in S : t # {} => /\ AnyOf(t) \in DOMAIN b /\ t \ {AnyOf(t)} \in S
                                /\ Cardinality(t \ {AnyOf(t)}) = Cardinality(t) - 1
  <2>1. \A t \in S : IsFiniteSet(t)
    BY FS_Subset DEF IsSummable
  <2> QED
    BY <2>1, RestOf, FS_EmptySet, FS_CardinalityType DEF IsSummable
<1>1. 0 \in H
  <2>1. \A t \in S : Cardinality(t) = 0 => Sums(b)[t] = 0 /\ Sums(c)[t] = 0
    BY <1>0, SumsAre
  <2>2. \A t \in S : Cardinality(t) = 0 => Sums(b)[t] <= Sums(c)[t]
    BY <2>1
  <2> QED
    BY <2>2
<1>2. ASSUME NEW n \in H PROVE n + 1 \in H
  <2> SUFFICES ASSUME NEW t \in S, Cardinality(t) = n + 1 PROVE Sums(b)[t] <= Sums(c)[t]
    OBVIOUS
  <2> DEFINE y == AnyOf(t)
             r == t \ {y}
  <2>1. t # {} /\ y \in DOMAIN b /\ r \in S /\ Cardinality(r) = n
    BY <1>0
  <2>2. Sums(b)[t] = b[y] + Sums(b)[r] /\ Sums(c)[t] = c[y] + Sums(c)[r]
    BY <2>1, SumsAre
  <2>3. b[y] \in Int /\ c[y] \in Int /\ b[y] <= c[y]
    BY <2>1 DEF IsSummable
  <2>4. Sums(b)[r] \in Int /\ Sums(c)[r] \in Int /\ Sums(b)[r] <= Sums(c)[r]
    BY <2>1, SumsType
  <2> HIDE DEF y, r
  <2> QED
    BY <2>2, <2>3, <2>4
<1>3. H = Nat
  <2> HIDE DEF H
  <2>1. H \in SUBSET Nat
    BY DEF H
  <2> QED
    BY <1>1, <1>2, <2>1, EveryNatural
<1>4. Cardinality(DOMAIN b) \in Nat /\ DOMAIN b \in S
  BY <1>0
<1> QED
  BY <1>3, <1>4, SumIs

(* One more comes in.                                                        *)
LEMMA SumOfMore ==
  ASSUME NEW b, NEW c, IsSummable(b), IsSummable(c), NEW a, a \notin DOMAIN b,
         DOMAIN c = DOMAIN b \union {a}, \A x \in DOMAIN b : c[x] = b[x]
  PROVE  SumFunction(c) = SumFunction(b) + c[a] /\ SumFunction(b) \in Int
<1> DEFINE S == SUBSET DOMAIN b
           H == {n \in Nat : \A t \in S : Cardinality(t) = n => Sums(b)[t] = Sums(c)[t]}
<1>0. /\ \A t \in S : Cardinality(t) \in Nat /\ (Cardinality(t) = 0 <=> t = {})
      /\ \A t \in S : t # {} => /\ AnyOf(t) \in DOMAIN b /\ t \ {AnyOf(t)} \in S
                                /\ Cardinality(t \ {AnyOf(t)}) = Cardinality(t) - 1
  <2>1. \A t \in S : IsFiniteSet(t)
    BY FS_Subset DEF IsSummable
  <2> QED
    BY <2>1, RestOf, FS_EmptySet, FS_CardinalityType DEF IsSummable
<1>1. 0 \in H
  BY <1>0, SumsAre
<1>2. ASSUME NEW n \in H PROVE n + 1 \in H
  <2> SUFFICES ASSUME NEW t \in S, Cardinality(t) = n + 1 PROVE Sums(b)[t] = Sums(c)[t]
    OBVIOUS
  <2> DEFINE y == AnyOf(t)
             r == t \ {y}
  <2>1. t # {} /\ y \in DOMAIN b /\ r \in S /\ Cardinality(r) = n
    BY <1>0
  <2>2. t \in SUBSET DOMAIN c
    OBVIOUS
  <2>3. Sums(b)[t] = b[y] + Sums(b)[r] /\ Sums(c)[t] = c[y] + Sums(c)[r]
    BY <2>1, <2>2, SumsAre
  <2>4. Sums(b)[r] = Sums(c)[r] /\ c[y] = b[y]
    BY <2>1
  <2> QED
    BY <2>3, <2>4
<1>3. H = Nat
  <2> HIDE DEF H
  <2>1. H \in SUBSET Nat
    BY DEF H
  <2> QED
    BY <1>1, <1>2, <2>1, EveryNatural
<1>4. Sums(b)[DOMAIN b] = Sums(c)[DOMAIN b] /\ Sums(b)[DOMAIN b] \in Int
  BY <1>0, <1>3, SumsType
<1>5. Sums(c)[DOMAIN c] = c[a] + Sums(c)[DOMAIN c \ {a}]
  BY SumsWithout
<1>6. DOMAIN c \ {a} = DOMAIN b /\ c[a] \in Int
  BY DEF IsSummable
<1> QED
  BY <1>4, <1>5, <1>6, SumIs

(* No single one exceeds the sum of natural numbers.                         *)
LEMMA SumOfNat ==
  ASSUME NEW b, IsFiniteSet(DOMAIN b), \A x \in DOMAIN b : b[x] \in Nat
  PROVE  /\ IsSummable(b) /\ SumFunction(b) \in Nat
         /\ \A x \in DOMAIN b : b[x] <= SumFunction(b)
<1> DEFINE zero == [x \in DOMAIN b |-> 0]
<1>1. IsSummable(b) /\ IsSummable(zero) /\ DOMAIN zero = DOMAIN b
  BY DEF IsSummable
<1>2. SumFunction(zero) = 0
  <2>1. Cardinality(DOMAIN b) \in Nat
    BY FS_CardinalityType
  <2>2. SumFunction(zero) = Cardinality(DOMAIN zero) * 0
    BY <1>1, SumOfEqual
  <2> QED
    BY <1>1, <2>1, <2>2
<1>3. SumFunction(b) \in Int
  BY <1>1, SumsType, SumIs
<1>4. \A x \in DOMAIN b : zero[x] <= b[x]
  OBVIOUS
<1>5. 0 <= SumFunction(b)
  <2> HIDE DEF zero
  <2> QED
    BY <1>1, <1>2, <1>4, SumOfLess
<1>6. ASSUME NEW a \in DOMAIN b PROVE b[a] <= SumFunction(b)
  <2> DEFINE one == [zero EXCEPT ![a] = b[a]]
  <2>1. /\ DOMAIN one = DOMAIN b /\ one[a] = b[a] /\ zero[a] = 0
        /\ \A x \in DOMAIN b \ {a} : one[x] = 0 /\ zero[x] = 0
    OBVIOUS
  <2> HIDE DEF zero, one
  <2>2. IsSummable(one)
    BY <1>1, <2>1 DEF IsSummable
  <2>3. SumFunction(one) = SumFunction(zero) + (one[a] - zero[a])
    BY <1>1, <2>1, <2>2, SumOfChange
  <2>4. SumFunction(one) <= SumFunction(b)
    BY <1>1, <2>1, <2>2, SumOfLess
  <2> QED
    BY <1>2, <2>1, <2>3, <2>4
<1> QED
  BY <1>1, <1>3, <1>5, <1>6

-----------------------------------------------------------------------------
(* Two sums compared, or one sum of another: by the subsets of the domain,   *)
(* one element at a time.                                                    *)
LEMMA EverySubset ==
  ASSUME NEW D, IsFiniteSet(D), NEW H \in SUBSET SUBSET D, {} \in H,
         \A s \in H : \A x \in D \ s : s \union {x} \in H
  PROVE  D \in H
<1> DEFINE N == {n \in Nat : \A s \in SUBSET D : Cardinality(s) = n => s \in H}
<1>0. \A s \in SUBSET D : IsFiniteSet(s) /\ Cardinality(s) \in Nat
  BY FS_Subset, FS_CardinalityType
<1>1. 0 \in N
  BY <1>0, FS_EmptySet
<1>2. ASSUME NEW n \in N PROVE n + 1 \in N
  <2> SUFFICES ASSUME NEW s \in SUBSET D, Cardinality(s) = n + 1 PROVE s \in H
    OBVIOUS
  <2>0. n \in Nat /\ IsFiniteSet(s)
    BY <1>0
  <2>1. s # {}
    <3> HIDE DEF N
    <3> QED
      BY <2>0, FS_EmptySet
  <2>2. PICK x \in s : TRUE
    BY <2>1
  <2>3. s \ {x} \in SUBSET D /\ Cardinality(s \ {x}) = n
    <3> HIDE DEF N
    <3>1. Cardinality(s \ {x}) = Cardinality(s) - 1
      BY <2>0, <2>2, FS_RemoveElement
    <3> QED
      BY <2>0, <3>1
  <2>4. s \ {x} \in H
    BY <2>3
  <2>5. (s \ {x}) \union {x} \in H
    BY <2>4
  <2>6. (s \ {x}) \union {x} = s
    OBVIOUS
  <2> QED
    BY <2>5, <2>6
<1>3. N = Nat
  <2> HIDE DEF N
  <2>1. N \in SUBSET Nat
    BY DEF N
  <2> QED
    BY <1>1, <1>2, <2>1, EveryNatural
<1> QED
  BY <1>0, <1>3

LEMMA SumsWith ==
  ASSUME NEW b, IsSummable(b), NEW s \in SUBSET DOMAIN b, NEW a \in DOMAIN b \ s
  PROVE  /\ Sums(b)[s \union {a}] = b[a] + Sums(b)[s]
         /\ b[a] \in Int /\ Sums(b)[s] \in Int
<1>1. s \union {a} \in SUBSET DOMAIN b /\ (s \union {a}) \ {a} = s
  OBVIOUS
<1>2. Sums(b)[s \union {a}] = b[a] + Sums(b)[(s \union {a}) \ {a}]
  BY <1>1, SumsWithout
<1> QED
  BY <1>1, <1>2, SumsType DEF IsSummable

LEMMA SumType == ASSUME NEW b, IsSummable(b) PROVE SumFunction(b) \in Int
  BY SumsType, SumIs

LEMMA SumOfNone == ASSUME NEW b, DOMAIN b = {} PROVE SumFunction(b) = 0
<1>1. IsSummable(b)
  BY FS_EmptySet DEF IsSummable
<1> QED
  BY <1>1, SumsAre, SumIs

LEMMA SumOfSums ==
  ASSUME NEW b, NEW c, NEW d, IsSummable(b), IsSummable(c), IsSummable(d),
         DOMAIN c = DOMAIN b, DOMAIN d = DOMAIN b, \A x \in DOMAIN b : d[x] = b[x] + c[x]
  PROVE  SumFunction(d) = SumFunction(b) + SumFunction(c)
<1> DEFINE H == {s \in SUBSET DOMAIN b : Sums(d)[s] = Sums(b)[s] + Sums(c)[s]}
<1>1. {} \in H
  BY SumsAre
<1>2. ASSUME NEW s \in H, NEW x \in DOMAIN b \ s PROVE s \union {x} \in H
  <2>1. /\ Sums(b)[s \union {x}] = b[x] + Sums(b)[s] /\ b[x] \in Int /\ Sums(b)[s] \in Int
        /\ Sums(c)[s \union {x}] = c[x] + Sums(c)[s] /\ c[x] \in Int /\ Sums(c)[s] \in Int
        /\ Sums(d)[s \union {x}] = d[x] + Sums(d)[s]
    BY SumsWith
  <2>2. d[x] = b[x] + c[x] /\ Sums(d)[s] = Sums(b)[s] + Sums(c)[s]
    OBVIOUS
  <2>3. Sums(d)[s \union {x}] = Sums(b)[s \union {x}] + Sums(c)[s \union {x}]
    BY <2>1, <2>2
  <2> QED
    BY <2>3
<1>3. DOMAIN b \in H
  <2> HIDE DEF H
  <2>1. H \in SUBSET SUBSET DOMAIN b /\ IsFiniteSet(DOMAIN b)
    BY DEF H, IsSummable
  <2> QED
    BY <1>1, <1>2, <2>1, EverySubset
<1> QED
  BY <1>3, SumIs

(* What is 0 need not be added.                                              *)
LEMMA SumOfPart ==
  ASSUME NEW b, NEW c, IsSummable(b), IsSummable(c), DOMAIN c \subseteq DOMAIN b,
         \A x \in DOMAIN b : b[x] = IF x \in DOMAIN c THEN c[x] ELSE 0
  PROVE  SumFunction(b) = SumFunction(c)
<1> DEFINE C == DOMAIN c
           H == {s \in SUBSET DOMAIN b : Sums(b)[s] = Sums(c)[s \intersect C]}
<1>1. {} \in H
  <2>1. {} \intersect C = {}
    OBVIOUS
  <2> QED
    BY <2>1, SumsAre
<1>2. ASSUME NEW s \in H, NEW x \in DOMAIN b \ s PROVE s \union {x} \in H
  <2> DEFINE r == s \intersect C
  <2>1. Sums(b)[s \union {x}] = b[x] + Sums(b)[s] /\ Sums(b)[s] \in Int /\ b[x] \in Int
    BY SumsWith
  <2>2. Sums(b)[s] = Sums(c)[r] /\ r \in SUBSET C
    OBVIOUS
  <2>3. CASE x \in C
    <3>1. (s \union {x}) \intersect C = r \union {x} /\ x \in DOMAIN c \ r
      BY <2>3
    <3>2. Sums(c)[r \union {x}] = c[x] + Sums(c)[r]
      BY <2>2, <3>1, SumsWith
    <3>3. b[x] = c[x]
      BY <2>3
    <3> QED
      BY <2>1, <2>2, <3>1, <3>2, <3>3
  <2>4. CASE x \notin C
    <3>1. (s \union {x}) \intersect C = r /\ b[x] = 0
      BY <2>4
    <3> HIDE DEF C
    <3>2. Sums(b)[s \union {x}] = Sums(c)[r]
      BY <2>1, <2>2, <3>1
    <3> QED
      BY <3>1, <3>2
  <2> QED
    BY <2>3, <2>4
<1>3. DOMAIN b \in H
  <2> HIDE DEF H
  <2>1. H \in SUBSET SUBSET DOMAIN b /\ IsFiniteSet(DOMAIN b)
    BY DEF H, IsSummable
  <2> QED
    BY <1>1, <1>2, <2>1, EverySubset
<1>4. DOMAIN b \intersect C = DOMAIN c
  OBVIOUS
<1> QED
  BY <1>3, <1>4, SumIs

(* No value exceeds k.                                                       *)
LEMMA SumBounded ==
  ASSUME NEW b, IsSummable(b), NEW k \in Int, \A x \in DOMAIN b : b[x] <= k
  PROVE  SumFunction(b) <= Cardinality(DOMAIN b) * k
<1> DEFINE c == [x \in DOMAIN b |-> k]
<1>1. DOMAIN c = DOMAIN b /\ \A x \in DOMAIN b : c[x] = k /\ b[x] <= c[x]
  OBVIOUS
<1> HIDE DEF c
<1>2. IsSummable(c)
  BY <1>1 DEF IsSummable
<1>3. SumFunction(c) = Cardinality(DOMAIN c) * k
  BY <1>1, <1>2, SumOfEqual
<1>4. SumFunction(b) <= SumFunction(c)
  BY <1>1, <1>2, SumOfLess
<1> QED
  BY <1>1, <1>3, <1>4

(* A table, its rows and columns and their sums, which may be added by rows  *)
(* or by columns.                                                            *)
IsTable(M, B, row, col, byRow, byCol) ==
  /\ IsFiniteSet(M) /\ IsFiniteSet(B)
  /\ \A x \in M : row[x] \in [B -> Int]
  /\ \A y \in B : col[y] \in [M -> Int] /\ \A x \in M : col[y][x] = row[x][y]
  /\ byRow \in [M -> Int] /\ \A x \in M : byRow[x] = SumFunction(row[x])
  /\ byCol \in [B -> Int] /\ \A y \in B : byCol[y] = SumFunction(col[y])

LEMMA SumExchanged ==
  ASSUME NEW M, NEW B, NEW row, NEW col, NEW byRow, NEW byCol,
         IsTable(M, B, row, col, byRow, byCol)
  PROVE  SumFunction(byCol) = SumFunction(byRow)
<1> USE DEF IsTable
<1> DEFINE column(y) == [x \in M |-> row[x][y]]
           byColumns == [y \in B |-> SumFunction(column(y))]
           rows(s) == [x \in M |-> Sums(row[x])[s]]
           H == {s \in SUBSET B : Sums(byColumns)[s] = SumFunction(rows(s))}
<1>0. /\ \A x \in M : IsSummable(row[x]) /\ DOMAIN row[x] = B
      /\ \A y \in B : IsSummable(column(y)) /\ DOMAIN column(y) = M
  BY DEF IsSummable
<1>c. IsSummable(byColumns) /\ DOMAIN byColumns = B
  <2>1. \A y \in B : SumFunction(column(y)) \in Int
    BY <1>0, SumType
  <2> HIDE DEF column
  <2> QED
    BY <2>1 DEF IsSummable
<1>r. ASSUME NEW s \in SUBSET B PROVE IsSummable(rows(s)) /\ DOMAIN rows(s) = M
  <2>1. \A x \in M : Sums(row[x])[s] \in Int
    BY <1>0, SumsType
  <2> QED
    BY <2>1 DEF IsSummable
<1>1. {} \in H
  <2>1. \A x \in M : rows({})[x] = 0
    BY <1>0, SumsAre
  <2>2. Cardinality(M) \in Nat /\ IsSummable(rows({})) /\ DOMAIN rows({}) = M
    BY <1>r, FS_CardinalityType
  <2> HIDE DEF rows
  <2>3. SumFunction(rows({})) = Cardinality(M) * 0
    BY <2>1, <2>2, SumOfEqual
  <2>4. SumFunction(rows({})) = 0
    BY <2>2, <2>3
  <2> HIDE DEF byColumns
  <2> QED
    BY <1>c, <2>4, SumsAre
<1>2. ASSUME NEW s \in H, NEW y \in B \ s PROVE s \union {y} \in H
  <2> DEFINE t == s \union {y}
  <2>1. Sums(byColumns)[t] = byColumns[y] + Sums(byColumns)[s]
    <3>1. IsSummable(byColumns) /\ s \in SUBSET DOMAIN byColumns /\ y \in DOMAIN byColumns \ s
      BY <1>c
    <3> HIDE DEF byColumns, H
    <3> QED
      BY <3>1, SumsWith
  <2>2. ASSUME NEW x \in M PROVE rows(t)[x] = column(y)[x] + rows(s)[x]
    <3>1. Sums(row[x])[s \union {y}] = row[x][y] + Sums(row[x])[s]
      <4>1. IsSummable(row[x]) /\ s \in SUBSET DOMAIN row[x] /\ y \in DOMAIN row[x] \ s
        BY <1>0
      <4> HIDE DEF H
      <4> QED
        BY <4>1, SumsWith
    <3> QED
      BY <3>1
  <2>3. SumFunction(rows(t)) = SumFunction(column(y)) + SumFunction(rows(s))
    <3>1. /\ IsSummable(rows(t)) /\ DOMAIN rows(t) = M /\ IsSummable(rows(s)) /\ DOMAIN rows(s) = M
          /\ IsSummable(column(y)) /\ DOMAIN column(y) = M
      BY <1>0, <1>r
    <3> HIDE DEF rows, column, t
    <3> QED
      BY <2>2, <3>1, SumOfSums
  <2>4. byColumns[y] = SumFunction(column(y)) /\ t \in SUBSET B
    OBVIOUS
  <2>5. Sums(byColumns)[s] = SumFunction(rows(s))
    OBVIOUS
  <2> HIDE DEF rows, column, byColumns
  <2> QED
    BY <2>1, <2>3, <2>4, <2>5
<1>3. B \in H
  <2> HIDE DEF H
  <2>1. H \in SUBSET SUBSET B
    BY DEF H
  <2> QED
    BY <1>1, <1>2, <2>1, EverySubset
<1>4. SumFunction(byColumns) = SumFunction(rows(B))
  <2> HIDE DEF byColumns, rows
  <2> QED
    BY <1>3, <1>c, SumIs
<1>5. rows(B) = byRow
  <2>1. \A x \in M : rows(B)[x] = byRow[x]
    BY <1>0, SumIs
  <2> QED
    BY <2>1
<1>6. byColumns = byCol
  <2>1. \A y \in B : column(y) = col[y]
    OBVIOUS
  <2>2. \A y \in B : byColumns[y] = byCol[y]
    <3> HIDE DEF column
    <3> QED
      BY <2>1
  <2> QED
    BY <2>2
<1> QED
  BY <1>4, <1>5, <1>6

(* Disjoint parts that make up the whole have its number of elements.        *)
LEMMA SumOfParts ==
  ASSUME NEW D, IsFiniteSet(D), NEW R, IsFiniteSet(R), NEW part, NEW b, DOMAIN b = R,
         \A r \in R : part[r] \subseteq D /\ b[r] = Cardinality(part[r]),
         \A r, q \in R : r # q => part[r] \intersect part[q] = {},
         \A x \in D : \E r \in R : x \in part[r]
  PROVE  SumFunction(b) = Cardinality(D)
<1> DEFINE Of(s) == {x \in D : \E r \in s : x \in part[r]}
           H == {s \in SUBSET R : Sums(b)[s] = Cardinality(Of(s))}
<1>0. IsSummable(b) /\ \A r \in R : IsFiniteSet(part[r]) /\ Cardinality(part[r]) \in Nat
  <2>1. \A r \in R : IsFiniteSet(part[r]) /\ Cardinality(part[r]) \in Nat
    BY FS_Subset, FS_CardinalityType
  <2> QED
    BY <2>1 DEF IsSummable
<1>1. {} \in H
  <2>1. Of({}) = {}
    OBVIOUS
  <2> HIDE DEF Of
  <2> QED
    BY <1>0, <2>1, SumsAre, FS_EmptySet
<1>2. ASSUME NEW s \in H, NEW r \in R \ s PROVE s \union {r} \in H
  <2>1. Sums(b)[s \union {r}] = b[r] + Sums(b)[s]
    BY <1>0, SumsWith
  <2>2. Of(s \union {r}) = Of(s) \union part[r] /\ Of(s) \intersect part[r] = {}
    OBVIOUS
  <2>3. IsFiniteSet(Of(s)) /\ IsFiniteSet(part[r])
    BY <1>0, FS_Subset
  <2>4. /\ Cardinality(Of(s)) \in Nat /\ Cardinality(part[r]) \in Nat
        /\ Cardinality(Of(s) \union part[r]) = Cardinality(Of(s)) + Cardinality(part[r])
    <3> HIDE DEF Of, H
    <3>1. Cardinality(Of(s) \union part[r]) =
            Cardinality(Of(s)) + Cardinality(part[r]) - Cardinality(Of(s) \intersect part[r])
      BY <2>3, FS_Union
    <3>2. Cardinality(Of(s) \intersect part[r]) = 0
      BY <2>2, FS_EmptySet
    <3>3. Cardinality(Of(s)) \in Nat /\ Cardinality(part[r]) \in Nat
      BY <2>3, FS_CardinalityType
    <3> QED
      BY <3>1, <3>2, <3>3
  <2>5. Sums(b)[s] = Cardinality(Of(s)) /\ b[r] = Cardinality(part[r])
    OBVIOUS
  <2>6. Sums(b)[s \union {r}] = Cardinality(Of(s \union {r}))
    <3>1. Sums(b)[s \union {r}] = Cardinality(part[r]) + Cardinality(Of(s))
      <4> HIDE DEF Of, H
      <4> QED
        BY <2>1, <2>5
    <3>2. Cardinality(Of(s \union {r})) = Cardinality(Of(s)) + Cardinality(part[r])
      <4> HIDE DEF Of, H
      <4> QED
        BY <2>2, <2>4
    <3> HIDE DEF Of, H
    <3> QED
      BY <2>4, <3>1, <3>2
  <2> QED
    BY <2>6
<1>3. R \in H
  <2> HIDE DEF H
  <2>1. H \in SUBSET SUBSET R
    BY DEF H
  <2> QED
    BY <1>1, <1>2, <2>1, EverySubset
<1>4. Of(R) = D
  OBVIOUS
<1> HIDE DEF Of
<1> QED
  BY <1>3, <1>4, SumIs

-----------------------------------------------------------------------------
(* Finitely many elements can be put in order: the one of least value last.  *)
LEMMA InOrder ==
  ASSUME NEW S, IsFiniteSet(S), NEW value, \A x \in S : value[x] \in Nat
  PROVE  \E s \in Bijection(1..Cardinality(S), S) :
           \A i, j \in DOMAIN s : i < j => value[s[i]] >= value[s[j]]
<1> DEFINE Ordered(s) == \A i, j \in DOMAIN s : i < j => value[s[i]] >= value[s[j]]
           H == {n \in Nat : \A T \in SUBSET S : Cardinality(T) = n =>
                               \E s \in Bijection(1..n, T) : Ordered(s)}
<1>0. \A T \in SUBSET S : IsFiniteSet(T) /\ Cardinality(T) \in Nat
  BY FS_Subset, FS_CardinalityType
<1>1. 0 \in H
  <2> DEFINE s == [i \in 1..0 |-> 0]
  <2>1. s \in [1..0 -> {}] /\ DOMAIN s = {} /\ Ordered(s)
    OBVIOUS
  <2>2. s \in Bijection(1..0, {})
    <3> HIDE DEF s
    <3> QED
      BY <2>1 DEF Bijection, Injection, Surjection, IsInjective
  <2>3. \A T \in SUBSET S : Cardinality(T) = 0 => T = {}
    BY <1>0, FS_EmptySet
  <2> QED
    <3> HIDE DEF s, Ordered
    <3> QED
      BY <2>1, <2>2, <2>3
<1>2. ASSUME NEW n \in H PROVE n + 1 \in H
  <2> SUFFICES ASSUME NEW T \in SUBSET S, Cardinality(T) = n + 1
               PROVE  \E s \in Bijection(1..(n + 1), T) : Ordered(s)
    OBVIOUS
  <2>0. n \in Nat /\ IsFiniteSet(T)
    BY <1>0
  <2>1. PICK x \in T : \A y \in T : value[x] <= value[y]
    <3> DEFINE V == {value[y] : y \in T}
    <3>1. T # {}
      <4> HIDE DEF H, V
      <4> QED
        BY <2>0, FS_EmptySet
    <3>2. V \in SUBSET Nat /\ V # {}
      BY <3>1
    <3>3. PICK v \in V : \A w \in V : v <= w
      <4> HIDE DEF V
      <4> QED
        BY <3>2, LeastNatural
    <3> QED
      BY <3>3
  <2>2. T \ {x} \in SUBSET S /\ Cardinality(T \ {x}) = n
    BY <1>0, FS_RemoveElement
  <2>3. PICK s \in Bijection(1..n, T \ {x}) : Ordered(s)
    BY <2>2
  <2> DEFINE t == [i \in 1..(n + 1) |-> IF i = n + 1 THEN x ELSE s[i]]
  <2>4. /\ s \in [1..n -> T \ {x}] /\ \A i, j \in 1..n : s[i] = s[j] => i = j
        /\ \A y \in T \ {x} : \E i \in 1..n : s[i] = y
    BY <2>3 DEF Bijection, Injection, Surjection, IsInjective
  <2>5. /\ DOMAIN t = 1..(n + 1) /\ t[n + 1] = x /\ n \in Nat
        /\ \A i \in 1..n : t[i] = s[i] /\ t[i] \in T \ {x}
        /\ \A i \in 1..(n + 1) : i \in 1..n \/ i = n + 1
    BY <2>4
  <2>6. t \in [1..(n + 1) -> T]
    BY <2>4
  <2> HIDE DEF t
  <2>7. \A i, j \in 1..(n + 1) : t[i] = t[j] => i = j
    BY <2>4, <2>5
  <2>8. \A y \in T : \E i \in 1..(n + 1) : t[i] = y
    <3> TAKE y \in T
    <3>1. CASE y = x
      BY <2>5, <3>1
    <3>2. CASE y # x
      <4>1. PICK i \in 1..n : s[i] = y
        BY <2>4, <3>2
      <4> QED
        BY <2>5, <4>1
    <3> QED
      BY <3>1, <3>2
  <2>9. Ordered(t)
    <3> SUFFICES ASSUME NEW i \in 1..(n + 1), NEW j \in 1..(n + 1), i < j
                 PROVE  value[t[i]] >= value[t[j]]
      BY <2>5
    <3>1. i \in 1..n
      BY <2>5
    <3>2. CASE j = n + 1
      <4>1. t[i] \in T /\ t[j] = x /\ value[x] <= value[t[i]]
        BY <2>1, <2>5, <3>1, <3>2
      <4> QED
        BY <4>1
    <3>3. CASE j \in 1..n
      <4>1. DOMAIN s = 1..n /\ t[i] = s[i] /\ t[j] = s[j]
        BY <2>4, <2>5, <3>1, <3>3
      <4> QED
        BY <2>3, <3>1, <3>3, <4>1
    <3> QED
      BY <2>5, <3>2, <3>3
  <2>10. t \in Bijection(1..(n + 1), T)
    BY <2>5, <2>6, <2>7, <2>8 DEF Bijection, Injection, Surjection, IsInjective
  <2> QED
    BY <2>9, <2>10
<1>3. H = Nat
  <2> HIDE DEF H
  <2>1. H \in SUBSET Nat
    BY DEF H
  <2> QED
    BY <1>1, <1>2, <2>1, EveryNatural
<1> QED
  BY <1>0, <1>3
=============================================================================
