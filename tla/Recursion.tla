------------------------------- MODULE Recursion -------------------------------
(***************************************************************************)
(* Induction and recursion as facts about sets and functions, so that they *)
(* can be cited with a set or a function where an operator would stand.    *)
(***************************************************************************)
EXTENDS WellFoundedInduction, TLAPS

NatLess == {p \in Nat \X Nat : p[1] < p[2]}

(* Every nonempty set of naturals has a least element.                     *)
LEMMA LeastNatural ==
  ASSUME NEW S \in SUBSET Nat, S # {}
  PROVE  \E x \in S : \A y \in S : x <= y
<1>1. NatLess = OpToRel(<, Nat)
  BY Zenon DEF OpToRel, NatLess
<1>2. IsWellFoundedOn(NatLess, Nat)
  BY <1>1, NatLessThanWellFounded, Zenon
<1>3. PICK x \in S : \A y \in S : ~(<<y, x>> \in NatLess)
  BY <1>2, WFMin
<1>4. ASSUME NEW y \in S PROVE ~(y < x)
  <2>1. SUFFICES ASSUME y < x PROVE FALSE
    OBVIOUS
  <2>2. <<y, x>> \in Nat \X Nat
    OBVIOUS
  <2>3. <<y, x>>[1] < <<y, x>>[2]
    BY <2>1
  <2>4. <<y, x>> \in NatLess
    BY <2>2, <2>3, Zenon DEF NatLess
  <2>5. QED
    BY <1>3, <2>4, Zenon
<1>5. QED
  BY <1>4

(* Induction over the naturals, for the set S of those that have the       *)
(* property.                                                               *)
LEMMA Induction ==
  ASSUME NEW S, 0 \in S, \A n \in Nat : n \in S => n + 1 \in S
  PROVE  \A n \in Nat : n \in S
<1> DEFINE Left == {n \in Nat : n \notin S}
<1>1. SUFFICES ASSUME Left # {} PROVE FALSE
  OBVIOUS
<1>2. PICK x \in Left : \A y \in Left : x <= y
  BY <1>1, LeastNatural
<1>3. x \in Nat /\ x # 0 /\ x - 1 \in Nat /\ x - 1 \notin Left
  BY <1>2
<1>4. x - 1 \in S /\ (x - 1) + 1 = x
  BY <1>3
<1>5. QED
  BY <1>2, <1>3, <1>4

(* Induction over any set of values with a size.                           *)
LEMMA InductionBySize ==
  ASSUME NEW D, NEW size \in [D -> Nat], NEW S,
         \A x \in D : (\A y \in D : size[y] < size[x] => y \in S) => x \in S
  PROVE  \A x \in D : x \in S
<1> DEFINE Left == {x \in D : x \notin S}
           Sizes == {size[x] : x \in Left}
<1>1. SUFFICES ASSUME Left # {} PROVE FALSE
  OBVIOUS
<1>2. Sizes \in SUBSET Nat /\ Sizes # {}
  BY <1>1
<1>3. PICK k \in Sizes : \A l \in Sizes : k <= l
  BY <1>2, LeastNatural
<1>4. PICK x \in Left : k = size[x]
  BY <1>3
<1>5. ASSUME NEW y \in D, size[y] < size[x] PROVE y \in S
  <2>1. SUFFICES ASSUME y \in Left PROVE FALSE
    OBVIOUS
  <2>2. size[y] \in Sizes /\ size[y] \in Nat /\ size[x] \in Nat
    BY <2>1
  <2>3. QED
    BY <1>3, <1>4, <1>5, <2>2
<1>6. QED
  BY <1>4, <1>5

Steps(V, first, step) == first \in V /\ step \in [V \X Nat -> V]

Unfolds(V, first, step, f) ==
  /\ f \in [Nat -> V] /\ f[0] = first
  /\ \A n \in Nat \ {0} : f[n] = step[<<f[n - 1], n>>]

(* A function on the naturals may be defined from its value before: there  *)
(* is one.                                                                 *)
LEMMA PrimitiveRecursion ==
  ASSUME NEW V, NEW first, NEW step, Steps(V, first, step)
  PROVE  \E f : Unfolds(V, first, step, f)
<1> DEFINE Upto(f, n) == /\ f[0] = first
                         /\ \A i \in 1 .. n : f[i] = step[<<f[i - 1], i>>]
           Can == {n \in Nat : \E f \in [Nat -> V] : Upto(f, n)}
           part(n) == CHOOSE f \in [Nat -> V] : Upto(f, n)
           whole == [n \in Nat |-> part(n)[n]]
<1> USE DEF Steps
<1>1. 0 \in Can
  <2>1. [i \in Nat |-> first] \in [Nat -> V] /\ Upto([i \in Nat |-> first], 0)
    OBVIOUS
  <2>2. QED
    BY <2>1
<1>2. ASSUME NEW n \in Nat, n \in Can PROVE n + 1 \in Can
  <2>1. PICK f \in [Nat -> V] : Upto(f, n)
    BY <1>2
  <2> DEFINE g == [i \in Nat |-> IF i = n + 1 THEN step[<<f[n], n + 1>>] ELSE f[i]]
  <2>2. <<f[n], n + 1>> \in V \X Nat
    OBVIOUS
  <2>3. g \in [Nat -> V]
    BY <2>2
  <2>4. g[0] = first
    BY <2>1
  <2>5. ASSUME NEW i \in 1 .. n + 1 PROVE g[i] = step[<<g[i - 1], i>>]
    <3>1. g[i - 1] = f[i - 1] /\ (i = n + 1 => i - 1 = n)
      OBVIOUS
    <3>2. i \in 1 .. n => f[i] = step[<<f[i - 1], i>>] /\ g[i] = f[i]
      BY <2>1
    <3>3. i = n + 1 => g[i] = step[<<f[n], i>>]
      OBVIOUS
    <3>4. QED
      BY <3>1, <3>2, <3>3
  <2> HIDE DEF g
  <2>6. Upto(g, n + 1)
    BY <2>4, <2>5
  <2>7. QED
    BY <2>3, <2>6
<1> HIDE DEF Can
<1>3. \A n \in Nat : n \in Can
  BY <1>1, <1>2, Induction
<1>4. ASSUME NEW n \in Nat PROVE part(n) \in [Nat -> V] /\ Upto(part(n), n)
  BY <1>3 DEF Can
<1> HIDE DEF part
<1>5. ASSUME NEW n \in Nat, NEW k \in Nat, n <= k PROVE part(k)[n] = part(n)[n]
  <2> DEFINE Same == {i \in Nat : i <= n => part(k)[i] = part(n)[i]}
  <2>1. 0 \in Same
    BY <1>4
  <2>2. ASSUME NEW i \in Nat, i \in Same PROVE i + 1 \in Same
    <3>1. SUFFICES ASSUME i + 1 <= n PROVE part(k)[i + 1] = part(n)[i + 1]
      OBVIOUS
    <3>2. i + 1 \in 1 .. n /\ i + 1 \in 1 .. k /\ (i + 1) - 1 = i
      BY <1>5, <3>1
    <3>3. part(k)[i] = part(n)[i]
      BY <2>2, <3>2
    <3>4. /\ part(k)[i + 1] = step[<<part(k)[i], i + 1>>]
          /\ part(n)[i + 1] = step[<<part(n)[i], i + 1>>]
      BY <1>4, <3>2
    <3>5. QED
      BY <3>3, <3>4
  <2> HIDE DEF Same
  <2>3. \A i \in Nat : i \in Same
    BY <2>1, <2>2, Induction
  <2>4. QED
    BY <2>3 DEF Same
<1>6. whole \in [Nat -> V]
  BY <1>4
<1>7. whole[0] = first
  BY <1>4
<1>8. ASSUME NEW n \in Nat \ {0} PROVE whole[n] = step[<<whole[n - 1], n>>]
  <2>1. part(n)[n] = step[<<part(n)[n - 1], n>>]
    BY <1>4
  <2>2. part(n)[n - 1] = part(n - 1)[n - 1]
    BY <1>5
  <2>3. QED
    BY <2>1, <2>2
<1> HIDE DEF whole
<1>9. Unfolds(V, first, step, whole)
  BY <1>6, <1>7, <1>8 DEF Unfolds
<1>10. QED
  BY <1>9

(* A function on any set may be defined from its value at one smaller      *)
(* element: there is one.                                                  *)
Falls(D, V, size, Base, prev, first, step) ==
  /\ size \in [D -> Nat] /\ first \in [D -> V] /\ step \in [D \X V -> V]
  /\ \A x \in D \ Base : prev[x] \in D /\ size[prev[x]] < size[x]

LEMMA LinearRecursion ==
  ASSUME NEW D, NEW V, NEW size, NEW Base, NEW prev, NEW first, NEW step,
         Falls(D, V, size, Base, prev, first, step)
  PROVE  \E f \in [D -> V] :
           \A x \in D : f[x] = IF x \in Base THEN first[x] ELSE step[<<x, f[prev[x]]>>]
<1> USE DEF Falls
<1> DEFINE Better(g) == [x \in D |-> IF x \in Base THEN first[x] ELSE step[<<x, g[prev[x]]>>]]
           next == [p \in [D -> V] \X Nat |-> Better(p[1])]
<1>1. ASSUME NEW g \in [D -> V] PROVE Better(g) \in [D -> V]
  <2>1. ASSUME NEW x \in D \ Base PROVE step[<<x, g[prev[x]]>>] \in V
    <3>1. <<x, g[prev[x]]>> \in D \X V
      OBVIOUS
    <3>2. QED
      BY <3>1
  <2>2. QED
    BY <2>1
<1>2. ASSUME NEW g \in [D -> V], NEW n \in Nat PROVE next[<<g, n>>] = Better(g)
  <2>1. <<g, n>> \in [D -> V] \X Nat
    OBVIOUS
  <2>2. next[<<g, n>>] = Better(<<g, n>>[1])
    BY <2>1, Zenon
  <2>3. <<g, n>>[1] = g
    OBVIOUS
  <2>4. QED
    BY <2>2, <2>3, Zenon
<1>3. next \in [[D -> V] \X Nat -> [D -> V]]
  <2>1. ASSUME NEW p \in [D -> V] \X Nat PROVE Better(p[1]) \in [D -> V]
    <3>1. p[1] \in [D -> V]
      OBVIOUS
    <3> HIDE DEF Better
    <3>2. QED
      BY <1>1, <3>1
  <2> HIDE DEF Better
  <2>2. QED
    BY <2>1
<1>4. first \in [D -> V]
  OBVIOUS
<1> HIDE DEF next
<1>5. PICK F : Unfolds([D -> V], first, next, F)
  <2>1. Steps([D -> V], first, next)
    BY <1>3, <1>4, Zenon DEF Steps
  <2>2. QED
    BY <2>1, PrimitiveRecursion, Zenon
<1>6. F \in [Nat -> [D -> V]]
  BY <1>5, Zenon DEF Unfolds
<1>7. ASSUME NEW n \in Nat PROVE F[n + 1] = Better(F[n])
  <2> HIDE DEF Better
  <2>1. n + 1 \in Nat \ {0} /\ (n + 1) - 1 = n
    OBVIOUS
  <2>2. F[n + 1] = next[<<F[(n + 1) - 1], n + 1>>] /\ n + 1 \in Nat
    BY <1>5, <2>1, Zenon DEF Unfolds
  <2>3. F[n + 1] = next[<<F[n], n + 1>>] /\ F[n] \in [D -> V]
    BY <1>6, <2>1, <2>2
  <2>4. QED
    BY <1>2, <2>2, <2>3
<1>8. ASSUME NEW n \in Nat, NEW x \in D
      PROVE  F[n + 1][x] = IF x \in Base THEN first[x] ELSE step[<<x, F[n][prev[x]]>>]
  BY <1>7
<1> DEFINE Settled == {n \in Nat : \A x \in D : size[x] < n => F[n + 1][x] = F[n][x]}
<1>9. 0 \in Settled
  OBVIOUS
<1>10. ASSUME NEW n \in Nat, n \in Settled PROVE n + 1 \in Settled
  <2>1. SUFFICES ASSUME NEW x \in D, size[x] < n + 1 PROVE F[(n + 1) + 1][x] = F[n + 1][x]
    OBVIOUS
  <2>2. CASE x \in Base
    <3>1. n + 1 \in Nat
      OBVIOUS
    <3>2. F[(n + 1) + 1][x] = first[x] /\ F[n + 1][x] = first[x]
      BY <1>8, <2>2, <3>1
    <3>3. QED
      BY <3>2
  <2>3. CASE x \notin Base
    <3>1. size[x] \in Nat /\ prev[x] \in D /\ size[prev[x]] \in Nat /\ size[prev[x]] < size[x]
      BY <2>3
    <3>2. F[n + 1][prev[x]] = F[n][prev[x]]
      BY <1>10, <2>1, <3>1
    <3>3. /\ F[(n + 1) + 1][x] = step[<<x, F[n + 1][prev[x]]>>]
          /\ F[n + 1][x] = step[<<x, F[n][prev[x]]>>]
      BY <1>8, <2>3
    <3>4. QED
      BY <3>2, <3>3
  <2>4. QED
    BY <2>2, <2>3
<1> HIDE DEF Settled
<1>11. \A n \in Nat : n \in Settled
  BY <1>9, <1>10, Induction
<1> DEFINE f == [x \in D |-> F[size[x] + 1][x]]
           Kept == {n \in Nat : \A x \in D : size[x] < n => F[n][x] = f[x]}
<1>12. 0 \in Kept
  OBVIOUS
<1>13. ASSUME NEW n \in Nat, n \in Kept PROVE n + 1 \in Kept
  <2>1. SUFFICES ASSUME NEW x \in D, size[x] < n + 1 PROVE F[n + 1][x] = f[x]
    OBVIOUS
  <2>2. CASE size[x] = n
    BY <2>2
  <2>3. CASE size[x] # n
    <3>1. size[x] \in Nat /\ size[x] < n
      BY <2>1, <2>3
    <3>2. F[n + 1][x] = F[n][x]
      BY <1>11, <3>1 DEF Settled
    <3>3. QED
      BY <1>13, <3>1, <3>2
  <2>4. QED
    BY <2>2, <2>3
<1> HIDE DEF Kept
<1>14. \A n \in Nat : n \in Kept
  BY <1>12, <1>13, Induction
<1>15. f \in [D -> V]
  BY <1>6
<1>16. ASSUME NEW x \in D PROVE f[x] = IF x \in Base THEN first[x] ELSE step[<<x, f[prev[x]]>>]
  <2>1. f[x] = IF x \in Base THEN first[x] ELSE step[<<x, F[size[x]][prev[x]]>>]
    BY <1>8
  <2>2. CASE x \in Base
    BY <2>1, <2>2
  <2>3. CASE x \notin Base
    <3>1. prev[x] \in D /\ size[x] \in Nat /\ size[prev[x]] < size[x]
      BY <2>3
    <3>2. F[size[x]][prev[x]] = f[prev[x]]
      BY <1>14, <3>1 DEF Kept
    <3>3. QED
      BY <2>1, <2>3, <3>2
  <2>4. QED
    BY <2>2, <2>3
<1> HIDE DEF f
<1>17. QED
  BY <1>15, <1>16
================================================================================
