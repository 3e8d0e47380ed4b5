-------------------------------- MODULE Sums --------------------------------
(***************************************************************************)
(* Sums over finite sets.  MapThenSumSet is a recursive function, so that  *)
(* what it yields has to be shown by induction: here over the size of the  *)
(* set, from the fact that every set of natural numbers has a least one.   *)
(***************************************************************************)
EXTENDS Integers, FiniteSets, FiniteSetsExt, FiniteSetTheorems, TLAPS

SumOver(f, S) == MapThenSumSet(LAMBDA x : f[x], S)

Chosen(S) == CHOOSE x \in S : TRUE

(* What the function that adds up f has as its value for s. *)
Adds(f, g, s) == IF s = {} THEN 0 ELSE f[Chosen(s)] + g[s \ {Chosen(s)}]

AddsUp(f, S) == CHOOSE g : g = [s \in SUBSET S |-> Adds(f, g, s)]

LEMMA SumOverIs ==
  ASSUME NEW S, NEW f
  PROVE  SumOver(f, S) = AddsUp(f, S)[S]
BY Zenon DEF SumOver, MapThenSumSet, MapThenFoldSet, AddsUp, Adds, Chosen

LEMMA LeastNumber ==
  ASSUME NEW N, N \subseteq Nat, N # {}
  PROVE  \E n \in N : \A m \in N : n <= m
<1>1. PICK R : R = {ss \in Nat \X Nat : ss[1] < ss[2]}
  OBVIOUS
<1>2. IsWellFoundedOn(R, Nat)
  BY <1>1, NatLessThanWellFounded DEF OpToRel
<1>3. PICK n \in N : \A m \in N : ~(<<m, n>> \in R)
  BY <1>2, WFMin, Zenon
<1>4. \A m \in N : m < n => <<m, n>> \in R
  BY <1>1
<1>5. ASSUME NEW m \in N PROVE n <= m
  <2>1. m \in Nat /\ n \in Nat /\ ~(m < n)
    BY <1>3, <1>4
  <2> QED
    BY <2>1
<1> QED
  BY <1>5

LEMMA ChosenIn ==
  ASSUME NEW s, s # {}
  PROVE  Chosen(s) \in s
BY DEF Chosen

(* Subsets of a finite set, and what is left of one without an element. *)
LEMMA Smaller ==
  ASSUME NEW S, IsFiniteSet(S), NEW s \in SUBSET S
  PROVE  /\ IsFiniteSet(s) /\ Cardinality(s) \in Nat
         /\ \A x \in s : /\ s \ {x} \in SUBSET S
                         /\ Cardinality(s \ {x}) = Cardinality(s) - 1
                         /\ Cardinality(s) # 0
<1>1. IsFiniteSet(s)
  BY FS_Subset
<1>2. Cardinality(s) \in Nat
  BY <1>1, FS_CardinalityType
<1>3. \A x \in s : Cardinality(s \ {x}) = Cardinality(s) - 1
  BY <1>1, FS_RemoveElement
<1>4. s # {} => Cardinality(s) # 0
  BY <1>1, FS_EmptySet
<1> QED
  BY <1>1, <1>2, <1>3, <1>4

(* A function that adds up all sets up to size n. *)
UpTo(f, S, n) ==
  \E g \in [SUBSET S -> Int] : \A s \in SUBSET S : Cardinality(s) <= n => g[s] = Adds(f, g, s)

LEMMA NextSize ==
  ASSUME NEW S, IsFiniteSet(S), NEW f, \A x \in S : f[x] \in Int, NEW n \in Nat,
         n # 0 => UpTo(f, S, n - 1)
  PROVE  UpTo(f, S, n)
<1>1. CASE n = 0
  <2> DEFINE g == [s \in SUBSET S |-> 0]
  <2>1. g \in [SUBSET S -> Int]
    OBVIOUS
  <2>2. ASSUME NEW s \in SUBSET S, Cardinality(s) <= n PROVE g[s] = Adds(f, g, s)
    <3>1. Cardinality(s) = 0
      <4>1. Cardinality(s) \in Nat
        BY Smaller
      <4> QED
        BY <1>1, <2>2, <4>1
    <3>2. s = {}
      BY <3>1, Smaller
    <3> QED
      BY <3>2 DEF Adds
  <2> QED
    BY <2>1, <2>2 DEF UpTo
<1>2. CASE n # 0
  <2>1. PICK h \in [SUBSET S -> Int] :
          \A s \in SUBSET S : Cardinality(s) <= n - 1 => h[s] = Adds(f, h, s)
    BY <1>2 DEF UpTo
  <2> DEFINE g == [s \in SUBSET S |-> Adds(f, h, s)]
  <2>2. ASSUME NEW s \in SUBSET S PROVE Adds(f, h, s) \in Int
    <3>1. s # {} => Chosen(s) \in S /\ s \ {Chosen(s)} \in SUBSET S
      BY ChosenIn
    <3> QED
      BY <2>1, <3>1 DEF Adds
  <2>3. g \in [SUBSET S -> Int]
    BY <2>2
  <2>4. ASSUME NEW s \in SUBSET S, Cardinality(s) <= n PROVE g[s] = Adds(f, g, s)
    <3>1. CASE s = {}
      BY <3>1 DEF Adds
    <3>2. CASE s # {}
      <4>1. PICK t \in SUBSET S : t = s \ {Chosen(s)} /\ Cardinality(t) <= n - 1
        <5>1. PICK x \in s : x = Chosen(s)
          BY <3>2, ChosenIn
        <5>2. s \ {x} \in SUBSET S /\ Cardinality(s \ {x}) = Cardinality(s) - 1 /\ Cardinality(s) \in Nat
          BY Smaller
        <5> QED
          BY <2>4, <5>1, <5>2
      <4>2. g[t] = h[t]
        BY <2>1, <4>1
      <4> QED
        BY <3>2, <4>1, <4>2 DEF Adds
    <3> QED
      BY <3>1, <3>2
  <2> HIDE DEF g
  <2> QED
    BY <2>3, <2>4 DEF UpTo
<1> QED
  BY <1>1, <1>2

LEMMA EverySize ==
  ASSUME NEW S, IsFiniteSet(S), NEW f, \A x \in S : f[x] \in Int, NEW n \in Nat
  PROVE  UpTo(f, S, n)
<1> DEFINE Bad == {m \in Nat : ~UpTo(f, S, m)}
<1>1. SUFFICES ASSUME Bad # {} PROVE FALSE
  OBVIOUS
<1>2. PICK m \in Bad : \A k \in Bad : m <= k
  BY <1>1, LeastNumber
<1>3. m # 0 => UpTo(f, S, m - 1)
  BY <1>2
<1> QED
  BY <1>2, <1>3, NextSize

(* The function adds up f. *)
LEMMA AddsUpIs ==
  ASSUME NEW S, IsFiniteSet(S), NEW f, \A x \in S : f[x] \in Int
  PROVE  /\ AddsUp(f, S) \in [SUBSET S -> Int]
         /\ \A s \in SUBSET S : AddsUp(f, S)[s] = Adds(f, AddsUp(f, S), s)
<1>1. PICK g \in [SUBSET S -> Int] : \A s \in SUBSET S : g[s] = Adds(f, g, s)
  <2>1. \A s \in SUBSET S : Cardinality(s) <= Cardinality(S)
    BY FS_Subset
  <2>2. UpTo(f, S, Cardinality(S))
    BY EverySize, FS_CardinalityType
  <2> QED
    BY <2>1, <2>2 DEF UpTo
<1>2. g = [s \in SUBSET S |-> Adds(f, g, s)]
  BY <1>1
<1>3. AddsUp(f, S) = [s \in SUBSET S |-> Adds(f, AddsUp(f, S), s)]
  BY <1>2, Zenon DEF AddsUp
<1>4. PICK a : a = AddsUp(f, S)
  OBVIOUS
<1>5. a = [s \in SUBSET S |-> Adds(f, a, s)]
  BY <1>3, <1>4
<1>6. \A s \in SUBSET S : a[s] = Adds(f, a, s)
  BY <1>5
<1>7. \A s \in SUBSET S : a[s] = g[s]
  <2> DEFINE Bad == {m \in Nat : \E s \in SUBSET S : Cardinality(s) = m /\ a[s] # g[s]}
  <2>1. SUFFICES ASSUME Bad # {} PROVE FALSE
    BY Smaller
  <2>2. PICK m \in Bad : \A k \in Bad : m <= k
    BY <2>1, LeastNumber
  <2>3. PICK s \in SUBSET S : Cardinality(s) = m /\ a[s] # g[s]
    BY <2>2
  <2>4. s # {}
    BY <1>1, <1>6, <2>3 DEF Adds
  <2>5. PICK t \in SUBSET S : t = s \ {Chosen(s)} /\ Cardinality(t) = m - 1 /\ Cardinality(t) \in Nat
    <3>1. Chosen(s) \in s
      BY <2>4, ChosenIn
    <3>2. s \ {Chosen(s)} \in SUBSET S /\ Cardinality(s \ {Chosen(s)}) = m - 1
      BY <2>3, <3>1, Smaller
    <3>3. Cardinality(s \ {Chosen(s)}) \in Nat
      BY <3>2, Smaller
    <3> QED
      BY <3>2, <3>3
  <2>6. a[t] = g[t]
    BY <2>2, <2>5
  <2> QED
    BY <1>1, <1>6, <2>3, <2>4, <2>5, <2>6 DEF Adds
<1> QED
  BY <1>1, <1>4, <1>5, <1>6, <1>7

-----------------------------------------------------------------------------
(* What SumOver yields. *)

LEMMA SumOfNone ==
  ASSUME NEW f
  PROVE  SumOver(f, {}) = 0
<1>1. IsFiniteSet({})
  BY FS_EmptySet
<1>2. AddsUp(f, {})[{}] = Adds(f, AddsUp(f, {}), {})
  BY <1>1, AddsUpIs
<1> QED
  BY <1>2, SumOverIs DEF Adds

(* Functions that add up agree wherever what they add up does. *)
LEMMA AddsUpSame ==
  ASSUME NEW S, IsFiniteSet(S), NEW f, \A x \in S : f[x] \in Int,
         NEW T \in SUBSET S, NEW g, \A x \in T : g[x] = f[x]
  PROVE  \A s \in SUBSET T : AddsUp(g, T)[s] = AddsUp(f, S)[s]
<1>1. IsFiniteSet(T)
  BY FS_Subset
<1>2. PICK a : a = AddsUp(f, S)
  OBVIOUS
<1>3. PICK b : b = AddsUp(g, T)
  OBVIOUS
<1>4. \A s \in SUBSET S : a[s] = Adds(f, a, s)
  BY <1>2, AddsUpIs
<1>5. \A s \in SUBSET T : b[s] = Adds(g, b, s)
  BY <1>1, <1>3, AddsUpIs
<1> DEFINE Bad == {m \in Nat : \E s \in SUBSET T : Cardinality(s) = m /\ a[s] # b[s]}
<1>6. SUFFICES ASSUME Bad # {} PROVE FALSE
  BY <1>1, <1>2, <1>3, Smaller
<1>7. PICK m \in Bad : \A k \in Bad : m <= k
  BY <1>6, LeastNumber
<1>8. PICK s \in SUBSET T : Cardinality(s) = m /\ a[s] # b[s]
  BY <1>7
<1>9. s # {}
  BY <1>4, <1>5, <1>8 DEF Adds
<1>10. PICK x \in s : x = Chosen(s)
  BY <1>9, ChosenIn
<1>11. PICK t \in SUBSET T : t = s \ {x}
  OBVIOUS
<1>12. Cardinality(t) = m - 1 /\ Cardinality(t) \in Nat
  <2>1. Cardinality(s \ {x}) = Cardinality(s) - 1
    BY <1>1, Smaller
  <2>2. Cardinality(t) \in Nat
    BY <1>1, Smaller
  <2> QED
    BY <1>8, <1>11, <2>1, <2>2
<1>13. a[t] = b[t]
  BY <1>7, <1>12
<1>14. a[s] = f[x] + a[t] /\ b[s] = g[x] + b[t]
  BY <1>4, <1>5, <1>9, <1>10, <1>11 DEF Adds
<1> QED
  BY <1>8, <1>13, <1>14

LEMMA SumType ==
  ASSUME NEW S, IsFiniteSet(S), NEW f, \A x \in S : f[x] \in Int
  PROVE  SumOver(f, S) \in Int
BY AddsUpIs, SumOverIs

(* The sum says nothing of what is outside the set. *)
LEMMA SumSame ==
  ASSUME NEW S, IsFiniteSet(S), NEW f, \A x \in S : f[x] \in Int,
         NEW g, \A x \in S : g[x] = f[x]
  PROVE  SumOver(g, S) = SumOver(f, S)
<1>1. AddsUp(g, S)[S] = AddsUp(f, S)[S]
  BY AddsUpSame
<1> QED
  BY <1>1, SumOverIs

(* Any element may be taken out first. *)
LEMMA SumWithout ==
  ASSUME NEW S, IsFiniteSet(S), NEW f, \A x \in S : f[x] \in Int, NEW y \in S
  PROVE  SumOver(f, S) = f[y] + SumOver(f, S \ {y})
<1>1. PICK a : a = AddsUp(f, S)
  OBVIOUS
<1>2. a \in [SUBSET S -> Int] /\ \A s \in SUBSET S : a[s] = Adds(f, a, s)
  BY <1>1, AddsUpIs
<1>3. \A s \in SUBSET S : SumOver(f, s) = a[s]
  <2>1. SUFFICES ASSUME NEW s \in SUBSET S PROVE AddsUp(f, s)[s] = AddsUp(f, S)[s]
    BY <1>1, SumOverIs
  <2> QED
    BY AddsUpSame
<1>4. \A s \in SUBSET S : \A x \in s : a[s] = f[x] + a[s \ {x}]
  <2> DEFINE Bad == {m \in Nat : \E s \in SUBSET S : Cardinality(s) = m /\ \E x \in s : a[s] # f[x] + a[s \ {x}]}
  <2>1. SUFFICES ASSUME Bad # {} PROVE FALSE
    BY Smaller
  <2>2. PICK m \in Bad : \A k \in Bad : m <= k
    BY <2>1, LeastNumber
  <2>3. PICK s \in SUBSET S : Cardinality(s) = m /\ \E x \in s : a[s] # f[x] + a[s \ {x}]
    BY <2>2
  <2>4. PICK x \in s : a[s] # f[x] + a[s \ {x}]
    BY <2>3
  <2>5. PICK p \in s : p = Chosen(s)
    BY ChosenIn
  <2>6. a[s] = f[p] + a[s \ {p}]
    BY <1>2, <2>5 DEF Adds
  <2>7. p # x
    BY <2>4, <2>6
  <2>8. PICK t \in SUBSET S, u \in SUBSET S, v \in SUBSET S : t = s \ {p} /\ u = s \ {x} /\ v = (s \ {p}) \ {x}
    OBVIOUS
  <2>9. v = t \ {x} /\ v = u \ {p} /\ x \in t /\ p \in u
    BY <2>7, <2>8
  <2>10. Cardinality(t) = m - 1 /\ Cardinality(u) = m - 1 /\ m - 1 \in Nat
    <3>1. Cardinality(s \ {x}) = Cardinality(s) - 1 /\ Cardinality(s \ {p}) = Cardinality(s) - 1
      BY Smaller
    <3>2. Cardinality(t) \in Nat
      BY Smaller
    <3> QED
      BY <2>3, <2>8, <3>1, <3>2
  <2>11. ASSUME NEW q \in SUBSET S, Cardinality(q) = m - 1, NEW z \in q
         PROVE  a[q] = f[z] + a[q \ {z}]
    <3>1. m - 1 \notin Bad
      BY <2>2
    <3> QED
      BY <2>10, <2>11, <3>1
  <2>12. a[t] = f[x] + a[v]
    <3>1. a[t] = f[x] + a[t \ {x}]
      BY <2>9, <2>10, <2>11
    <3> QED
      BY <2>9, <3>1
  <2>13. a[u] = f[p] + a[v]
    <3>1. a[u] = f[p] + a[u \ {p}]
      BY <2>9, <2>10, <2>11
    <3> QED
      BY <2>9, <3>1
  <2>14. /\ f[x] \in Int /\ f[p] \in Int
         /\ a[s] \in Int /\ a[t] \in Int /\ a[u] \in Int /\ a[v] \in Int
    BY <1>2, <2>8
  <2> QED
    BY <2>4, <2>6, <2>8, <2>12, <2>13, <2>14
<1> QED
  BY <1>3, <1>4

LEMMA SumWith ==
  ASSUME NEW S, IsFiniteSet(S), NEW f, \A x \in S : f[x] \in Int, NEW y, y \notin S, f[y] \in Int
  PROVE  SumOver(f, S \cup {y}) = f[y] + SumOver(f, S)
<1>1. PICK T : T = S \cup {y}
  OBVIOUS
<1>2. IsFiniteSet(T) /\ T \ {y} = S
  BY <1>1, FS_AddElement
<1>3. SumOver(f, T) = f[y] + SumOver(f, T \ {y})
  BY <1>1, <1>2, SumWithout
<1> QED
  BY <1>1, <1>2, <1>3

(* Sets without a common element add up to the sum of both. *)
LEMMA SumUnion ==
  ASSUME NEW S, IsFiniteSet(S), NEW f, \A x \in S : f[x] \in Int,
         NEW A \in SUBSET S, NEW B \in SUBSET S, A \cap B = {}
  PROVE  SumOver(f, A \cup B) = SumOver(f, A) + SumOver(f, B)
<1> DEFINE Splits(t) == SumOver(f, A \cup t) = SumOver(f, A) + SumOver(f, t)
<1> DEFINE Bad == {m \in Nat : \E t \in SUBSET B : Cardinality(t) = m /\ ~Splits(t)}
<1>1. \A t \in SUBSET S : IsFiniteSet(t) /\ Cardinality(t) \in Nat /\ SumOver(f, t) \in Int
  <2>1. SUFFICES ASSUME NEW t \in SUBSET S PROVE IsFiniteSet(t) /\ Cardinality(t) \in Nat /\ SumOver(f, t) \in Int
    OBVIOUS
  <2>2. IsFiniteSet(t) /\ Cardinality(t) \in Nat
    BY Smaller
  <2>3. \A x \in t : f[x] \in Int
    OBVIOUS
  <2> QED
    BY <2>2, <2>3, SumType
<1>2. SUFFICES ASSUME Bad # {} PROVE FALSE
  BY <1>1
<1>3. PICK m \in Bad : \A k \in Bad : m <= k
  BY <1>2, LeastNumber
<1>4. PICK t \in SUBSET B : Cardinality(t) = m /\ ~Splits(t)
  BY <1>3
<1>5. t # {}
  <2>1. SUFFICES ASSUME t = {} PROVE FALSE
    OBVIOUS
  <2>2. A \cup t = A /\ SumOver(f, t) = 0
    BY <2>1, SumOfNone
  <2> QED
    BY <1>1, <1>4, <2>2
<1>6. PICK x \in t : TRUE
  BY <1>5
<1>7. PICK u \in SUBSET B : u = t \ {x}
  OBVIOUS
<1>8. Cardinality(u) = m - 1 /\ m - 1 \in Nat
  <2>1. Cardinality(t \ {x}) = Cardinality(t) - 1
    BY Smaller
  <2>2. Cardinality(u) \in Nat
    BY <1>1
  <2> QED
    BY <1>4, <1>7, <2>1, <2>2
<1>9. SumOver(f, A \cup u) = SumOver(f, A) + SumOver(f, u)
  <2>1. m - 1 \notin Bad
    <3>1. m \in Nat
      OBVIOUS
    <3> HIDE DEF Bad
    <3> QED
      BY <1>3, <3>1
  <2> QED
    BY <1>8, <2>1
<1>10. SumOver(f, t) = f[x] + SumOver(f, u)
  <2>1. IsFiniteSet(t) /\ \A y \in t : f[y] \in Int
    BY <1>1
  <2> QED
    BY <1>7, <2>1, SumWithout
<1>11. SumOver(f, A \cup t) = f[x] + SumOver(f, A \cup u)
  <2>1. PICK v \in SUBSET S : v = A \cup t
    OBVIOUS
  <2>2. v \ {x} = A \cup u /\ x \in v
    BY <1>7, <2>1
  <2>3. IsFiniteSet(v) /\ \A y \in v : f[y] \in Int
    BY <1>1
  <2>4. SumOver(f, v) = f[x] + SumOver(f, v \ {x})
    BY <2>2, <2>3, SumWithout
  <2> QED
    BY <2>1, <2>2, <2>4
<1>12. /\ SumOver(f, A) \in Int /\ SumOver(f, u) \in Int /\ f[x] \in Int
       /\ SumOver(f, t) \in Int /\ SumOver(f, A \cup u) \in Int
  <2>1. A \cup u \in SUBSET S /\ u \in SUBSET S /\ t \in SUBSET S /\ x \in S
    OBVIOUS
  <2> QED
    BY <1>1, <2>1
<1> QED
  BY <1>4, <1>9, <1>10, <1>11, <1>12

(* Left-out elements that are not positive, and values that are no less, make a
   sum no less. *)
LEMMA SumAtLeast ==
  ASSUME NEW T, IsFiniteSet(T), NEW g, \A x \in T : g[x] \in Int /\ g[x] <= 0,
         NEW S \in SUBSET T, NEW f, \A x \in S : f[x] \in Int /\ f[x] >= g[x]
  PROVE  SumOver(f, S) >= SumOver(g, T)
<1> DEFINE Least(t) == \A s \in SUBSET t : s \subseteq S => SumOver(f, s) >= SumOver(g, t)
<1> DEFINE Bad == {m \in Nat : \E t \in SUBSET T : Cardinality(t) = m /\ ~Least(t)}
<1>1. SUFFICES ASSUME Bad # {} PROVE FALSE
  <2>1. Cardinality(T) \in Nat /\ T \in SUBSET T
    BY Smaller
  <2> QED
    BY <2>1
<1>2. PICK m \in Bad : \A k \in Bad : m <= k
  BY <1>1, LeastNumber
<1>3. PICK t \in SUBSET T : Cardinality(t) = m /\ ~Least(t)
  BY <1>2
<1>4. PICK s \in SUBSET t : s \subseteq S /\ ~(SumOver(f, s) >= SumOver(g, t))
  BY <1>3
<1>5. IsFiniteSet(t) /\ IsFiniteSet(s)
  BY FS_Subset, Smaller
<1>6. t # {}
  <2>1. SUFFICES ASSUME t = {} PROVE FALSE
    OBVIOUS
  <2>2. s = {}
    BY <2>1
  <2> QED
    BY <1>4, <2>1, <2>2, SumOfNone
<1>7. PICK x \in t : TRUE
  BY <1>6
<1>8. PICK u \in SUBSET T : u = t \ {x}
  OBVIOUS
<1>9. Cardinality(u) = m - 1 /\ m - 1 \in Nat
  <2>1. Cardinality(t \ {x}) = Cardinality(t) - 1
    BY Smaller
  <2>2. Cardinality(u) \in Nat
    BY Smaller
  <2> QED
    BY <1>3, <1>8, <2>1, <2>2
<1>10. Least(u)
  BY <1>2, <1>9
<1>11. SumOver(g, t) = g[x] + SumOver(g, u)
  BY <1>5, <1>8, SumWithout
<1>12. SumOver(g, u) \in Int /\ g[x] \in Int /\ g[x] <= 0
  BY <1>5, <1>8, SumType, FS_Subset
<1>13. CASE x \in s
  <2>1. SumOver(f, s) = f[x] + SumOver(f, s \ {x})
    BY <1>4, <1>5, <1>13, SumWithout
  <2>2. SumOver(f, s \ {x}) >= SumOver(g, u)
    BY <1>4, <1>8, <1>10
  <2>3. SumOver(f, s \ {x}) \in Int
    <3>1. IsFiniteSet(s \ {x}) /\ \A y \in s \ {x} : f[y] \in Int
      BY <1>4, <1>5, FS_Subset
    <3> QED
      BY <3>1, SumType
  <2>4. f[x] \in Int /\ f[x] >= g[x]
    BY <1>4, <1>13
  <2> QED
    BY <1>4, <1>11, <1>12, <2>1, <2>2, <2>3, <2>4
<1>14. CASE x \notin s
  <2>1. SumOver(f, s) >= SumOver(g, u)
    BY <1>4, <1>8, <1>10, <1>14
  <2>2. SumOver(f, s) \in Int
    BY <1>4, <1>5, SumType
  <2> QED
    BY <1>4, <1>11, <1>12, <2>1, <2>2
<1> QED
  BY <1>13, <1>14
=============================================================================
