------------------------------ MODULE ConsoleProofs ------------------------------
(***************************************************************************)
(* The console, for every width of int, every set of threads and every     *)
(* program whose calls are well typed.                                     *)
(*                                                                         *)
(* First the texts: the loops of console.c, unfolded by induction, print   *)
(* the numerals that Meaning and DumpOf ask for.  Then the UART: what a    *)
(* thread has sent is at every moment the beginning of what it handed      *)
(* over, but for the characters that overruns took (Stream).               *)
(***************************************************************************)
EXTENDS Console, Recursion

-------------------------------------------------------------------------------
(* FlattenSeq, by the prefixes it joins.                                   *)
Joins(X, s, f) ==
  /\ s \in Seq(Seq(X))
  /\ f \in [Nat -> Seq(X)] /\ f[0] = <<>>
  /\ \A i \in 1 .. Len(s) : f[i] = f[i - 1] \o s[i]

LEMMA FlattenEquations ==
  ASSUME NEW X, NEW s \in Seq(Seq(X))
  PROVE  \E f : Joins(X, s, f) /\ FlattenSeq(s) = f[Len(s)]
<1> DEFINE N == 1 .. Len(s)
           step == [p \in Seq(X) \X Nat |-> p[1] \o (IF p[2] \in N THEN s[p[2]] ELSE <<>>)]
           Body(g, i) == IF i = 1 THEN s[i] ELSE g[i - 1] \o s[i]
           flatten == CHOOSE g : g = [i \in N |-> Body(g, i)]
<1>0. Len(s) \in Nat /\ \A i \in N : s[i] \in Seq(X)
  OBVIOUS
<1>1. Steps(Seq(X), <<>>, step)
  <2>1. <<>> \in Seq(X)
    OBVIOUS
  <2>2. ASSUME NEW p \in Seq(X) \X Nat PROVE p[1] \o (IF p[2] \in N THEN s[p[2]] ELSE <<>>) \in Seq(X)
    BY <1>0
  <2>3. QED
    BY <2>1, <2>2 DEF Steps
<1>2. ASSUME NEW v \in Seq(X), NEW i \in N PROVE step[<<v, i>>] = v \o s[i]
  <2>1. <<v, i>> \in Seq(X) \X Nat
    BY <1>0
  <2>2. step[<<v, i>>] = <<v, i>>[1] \o (IF <<v, i>>[2] \in N THEN s[<<v, i>>[2]] ELSE <<>>)
    BY <2>1, Zenon
  <2>3. QED
    BY <2>2
<1> HIDE DEF step
<1>3. PICK f : Unfolds(Seq(X), <<>>, step, f)
  BY <1>1, PrimitiveRecursion, Zenon
<1>4. f \in [Nat -> Seq(X)] /\ f[0] = <<>>
  BY <1>3 DEF Unfolds
<1>5. ASSUME NEW i \in N PROVE f[i] = f[i - 1] \o s[i] /\ i \in Nat /\ i - 1 \in Nat
  <2>1. i \in Nat \ {0} /\ i - 1 \in Nat
    BY <1>0
  <2>2. f[i] = step[<<f[i - 1], i>>] /\ f[i - 1] \in Seq(X)
    BY <1>3, <1>4, <2>1 DEF Unfolds
  <2>3. QED
    BY <1>2, <2>1, <2>2
<1> DEFINE g0 == [i \in N |-> f[i]]
<1>6. ASSUME NEW i \in N PROVE f[i] = Body(g0, i)
  <2>1. CASE i = 1
    <3>1. f[i] = <<>> \o s[i] /\ s[i] \in Seq(X)
      <4>1. i - 1 = 0
        BY <2>1
      <4>2. f[i] = f[i - 1] \o s[i] /\ s[i] \in Seq(X)
        BY <1>0, <1>5
      <4>3. QED
        BY <1>4, <4>1, <4>2
    <3>2. QED
      BY <2>1, <3>1
  <2>2. CASE i # 1
    <3>1. i - 1 \in N
      BY <1>0, <2>2
    <3>2. QED
      BY <1>5, <2>2, <3>1
  <2>3. QED
    BY <2>1, <2>2
<1>7. g0 = [i \in N |-> Body(g0, i)]
  BY <1>6
<1> HIDE DEF g0
<1>8. flatten = [i \in N |-> Body(flatten, i)]
  BY <1>7, Zenon
<1> HIDE DEF flatten
<1> DEFINE Done == {i \in Nat : i \in N => flatten[i] = f[i]}
<1>9. 0 \in Done
  OBVIOUS
<1>10. ASSUME NEW i \in Nat, i \in Done PROVE i + 1 \in Done
  <2>1. SUFFICES ASSUME i + 1 \in N PROVE flatten[i + 1] = f[i + 1]
    OBVIOUS
  <2>2. flatten[i + 1] = Body(flatten, i + 1)
    BY <1>8, <2>1
  <2>3. f[i + 1] = Body(g0, i + 1)
    BY <1>6, <2>1
  <2>4. CASE i = 0
    BY <2>2, <2>3, <2>4
  <2>5. CASE i # 0
    <3>1. i \in N /\ (i + 1) - 1 = i /\ i + 1 # 1
      BY <1>0, <2>1, <2>5
    <3>2. flatten[i] = g0[i]
      BY <1>10, <3>1 DEF g0
    <3>3. QED
      BY <2>2, <2>3, <3>1, <3>2
  <2>6. QED
    BY <2>4, <2>5
<1> HIDE DEF Done
<1>11. \A i \in Nat : i \in Done
  BY <1>9, <1>10, Induction
<1>12. CASE s = <<>>
  BY <1>4, <1>5, <1>12 DEF FlattenSeq, Joins
<1>13. CASE s # <<>>
  <2>1. Len(s) # 0 /\ Len(s) \in N
    BY <1>0, <1>13
  <2>2. FlattenSeq(s) = flatten[Len(s)]
    BY <2>1, Zenon DEF FlattenSeq, flatten
  <2>3. QED
    BY <1>0, <1>4, <1>5, <1>11, <2>1, <2>2 DEF Joins, Done
<1>14. QED
  BY <1>12, <1>13

(* The parts of a longer sequence are joined alike.                        *)
LEMMA JoinsPrefix ==
  ASSUME NEW X, NEW s, NEW t, NEW f, NEW g,
         Joins(X, s, f), Joins(X, t, g), Len(s) <= Len(t), \A i \in 1 .. Len(s) : s[i] = t[i]
  PROVE  \A i \in 0 .. Len(s) : f[i] = g[i]
<1> DEFINE Done == {i \in Nat : i <= Len(s) => f[i] = g[i]}
<1>0. Len(s) \in Nat /\ Len(t) \in Nat
  <2>1. s \in Seq(Seq(X)) /\ t \in Seq(Seq(X))
    BY Zenon DEF Joins
  <2>2. QED
    BY <2>1
<1>1. 0 \in Done
  BY DEF Joins
<1>2. ASSUME NEW i \in Nat, i \in Done PROVE i + 1 \in Done
  <2>1. SUFFICES ASSUME i + 1 <= Len(s) PROVE f[i + 1] = g[i + 1]
    OBVIOUS
  <2>2. i + 1 \in 1 .. Len(s) /\ i + 1 \in 1 .. Len(t) /\ (i + 1) - 1 = i /\ f[i] = g[i]
    BY <1>0, <1>2, <2>1
  <2>3. f[i + 1] = f[i] \o s[i + 1] /\ g[i + 1] = g[i] \o t[i + 1]
    BY <2>2 DEF Joins
  <2>4. QED
    BY <2>2, <2>3
<1> HIDE DEF Done
<1>3. \A i \in Nat : i \in Done
  BY <1>1, <1>2, Induction
<1>4. QED
  BY <1>0, <1>3 DEF Done

LEMMA FlattenEmpty == FlattenSeq(<<>>) = <<>>
  BY DEF FlattenSeq

LEMMA FlattenAppend ==
  ASSUME NEW X, NEW s \in Seq(Seq(X)), NEW e \in Seq(X)
  PROVE  /\ FlattenSeq(Append(s, e)) = FlattenSeq(s) \o e
         /\ FlattenSeq(s) \in Seq(X)
<1> DEFINE t == Append(s, e)
<1>1. t \in Seq(Seq(X)) /\ Len(t) = Len(s) + 1 /\ Len(s) \in Nat
      /\ (\A i \in 1 .. Len(s) : t[i] = s[i]) /\ t[Len(s) + 1] = e
  OBVIOUS
<1> HIDE DEF t
<1>2. PICK f : Joins(X, s, f) /\ FlattenSeq(s) = f[Len(s)]
  BY FlattenEquations
<1>3. PICK g : Joins(X, t, g) /\ FlattenSeq(t) = g[Len(t)]
  BY <1>1, FlattenEquations
<1>4. f[Len(s)] = g[Len(s)]
  <2>1. \A i \in 0 .. Len(s) : f[i] = g[i]
    <3>1. Len(s) <= Len(t) /\ \A i \in 1 .. Len(s) : s[i] = t[i]
      BY <1>1
    <3>2. Joins(X, s, f) /\ Joins(X, t, g) /\ t \in Seq(Seq(X))
      BY <1>1, <1>2, <1>3
    <3>3. QED
      BY <3>1, <3>2, JoinsPrefix
  <2>2. QED
    BY <1>1, <2>1
<1>5. g[Len(t)] = g[Len(t) - 1] \o t[Len(t)] /\ Len(t) - 1 = Len(s)
  <2>1. Len(t) \in 1 .. Len(t) /\ Len(t) - 1 = Len(s)
    BY <1>1
  <2>2. \A i \in 1 .. Len(t) : g[i] = g[i - 1] \o t[i]
    BY <1>3, Zenon DEF Joins
  <2>3. QED
    BY <2>1, <2>2, Zenon
<1>6. QED
  BY <1>1, <1>2, <1>3, <1>4, <1>5 DEF Joins, t

LEMMA FlattenType ==
  ASSUME NEW X, NEW s \in Seq(Seq(X))
  PROVE  FlattenSeq(s) \in Seq(X)
<1>1. <<>> \in Seq(X)
  OBVIOUS
<1>2. QED
  BY <1>1, FlattenAppend

-------------------------------------------------------------------------------
(* Sequences that are given by position.                                   *)
LEMMA ByPosition ==
  ASSUME NEW S, NEW k \in Int, NEW f \in [1 .. k -> S]
  PROVE  f \in Seq(S) /\ Len(f) = (IF k > 0 THEN k ELSE 0)
<1>1. CASE k >= 0
  BY <1>1
<1>2. CASE k < 0
  <2>1. 1 .. k = 1 .. 0
    BY <1>2
  <2>2. f \in [1 .. 0 -> S]
    BY <2>1
  <2>3. QED
    BY <1>2, <2>2
<1>3. QED
  BY <1>1, <1>2

LEMMA ElementOf ==
  ASSUME NEW S, NEW s \in Seq(S), NEW k \in 1 .. Len(s)
  PROVE  s[k] \in S
  OBVIOUS

LEMMA OneElement ==
  ASSUME NEW S, NEW s \in Seq(S), s # <<>>, Len(s) <= 1
  PROVE  Len(s) = 1 /\ s = <<s[1]>> /\ s[1] \in S
<1>1. Len(s) = 1
  <2>1. Len(s) \in Nat /\ Len(s) # 0
    OBVIOUS
  <2>2. QED
    BY <2>1
<1>2. s[1] \in S
  BY <1>1
<1>3. QED
  BY <1>1, <1>2

LEMMA HeadAndTail ==
  ASSUME NEW S, NEW s \in Seq(S), s # <<>>
  PROVE  Tail(s) \in Seq(S) /\ Head(s) \in S
  OBVIOUS

LEMMA Appended ==
  ASSUME NEW S, NEW s \in Seq(S), NEW e \in S
  PROVE  /\ Append(s, e) \in Seq(S) /\ Append(s, e) # <<>>
         /\ Len(Append(s, e)) = 1 => s = <<>> /\ Append(s, e)[1] = e
<1>1. Append(s, e) \in Seq(S) /\ Len(Append(s, e)) = Len(s) + 1 /\ Len(s) \in Nat
      /\ Append(s, e)[Len(s) + 1] = e
  OBVIOUS
<1>2. Append(s, e) # <<>>
  <2>1. Len(<<>>) = 0
    OBVIOUS
  <2>2. QED
    BY <1>1, <2>1
<1>3. ASSUME Len(Append(s, e)) = 1 PROVE s = <<>> /\ Append(s, e)[1] = e
  <2>1. Len(s) = 0
    BY <1>1, <1>3
  <2>2. s = <<>>
    BY <2>1
  <2>3. QED
    BY <1>1, <2>1, <2>2
<1>4. QED
  BY <1>1, <1>2, <1>3

LEMMA Concatenation ==
  ASSUME NEW S, NEW s \in Seq(S), NEW t \in Seq(S)
  PROVE  /\ s \o t \in Seq(S) /\ Len(s \o t) = Len(s) + Len(t)
         /\ Len(s) \in Nat /\ Len(t) \in Nat
         /\ \A p \in 1 .. Len(s) : (s \o t)[p] = s[p]
         /\ \A p \in 1 .. Len(t) : (s \o t)[Len(s) + p] = t[p]
  OBVIOUS

LEMMA Concatenates ==
  ASSUME NEW S, NEW s, NEW t, NEW r, s \in Seq(S), t \in Seq(S), r = s \o t
  PROVE  /\ r \in Seq(S) /\ Len(r) = Len(s) + Len(t)
         /\ Len(s) \in Nat /\ Len(t) \in Nat /\ Len(r) \in Nat
         /\ \A p \in 1 .. Len(s) : r[p] = s[p]
         /\ \A p \in 1 .. Len(t) : r[Len(s) + p] = t[p]
  OBVIOUS

-------------------------------------------------------------------------------
(* Digits: n without its last i digits.                                    *)
Bases == {10, 16}

LEMMA Division ==
  ASSUME NEW n \in Nat, NEW b \in Bases
  PROVE  /\ n \div b \in Nat /\ n % b \in 0 .. b - 1 /\ n = b * (n \div b) + (n % b)
         /\ n > 0 => n \div b < n
         /\ n < b <=> n \div b = 0
        /\ 0 \div b = 0 /\ b \in Nat
<1>1. CASE b = 10
  <2>1. /\ n \div 10 \in Nat /\ n % 10 \in 0 .. 9 /\ n = 10 * (n \div 10) + (n % 10)
        /\ n > 0 => n \div 10 < n
        /\ n < 10 <=> n \div 10 = 0
        /\ 0 \div 10 = 0
    OBVIOUS
  <2>2. QED
    BY <1>1, <2>1
<1>2. CASE b = 16
  <2>1. /\ n \div 16 \in Nat /\ n % 16 \in 0 .. 15 /\ n = 16 * (n \div 16) + (n % 16)
        /\ n > 0 => n \div 16 < n
        /\ n < 16 <=> n \div 16 = 0
        /\ 0 \div 16 = 0
    OBVIOUS
  <2>2. QED
    BY <1>2, <2>1
<1>3. QED
  BY <1>1, <1>2 DEF Bases

LEMMA ShiftedEquations ==
  ASSUME NEW n \in Nat, NEW b \in Bases
  PROVE  /\ Shifted(n, b) \in [Nat -> Nat] /\ Shifted(n, b)[0] = n
         /\ \A i \in Nat : Shifted(n, b)[i + 1] = Shifted(n, b)[i] \div b
<1> DEFINE step == [p \in Nat \X Nat |-> p[1] \div b]
           Body(f, i) == IF i = 0 THEN n ELSE f[i - 1] \div b
           left == CHOOSE f : f = [i \in Nat |-> Body(f, i)]
<1>1. Steps(Nat, n, step)
  BY Division DEF Steps
<1>2. \A v \in Nat, i \in Nat : step[<<v, i>>] = v \div b
  OBVIOUS
<1> HIDE DEF step
<1>3. PICK f : Unfolds(Nat, n, step, f)
  BY <1>1, PrimitiveRecursion, Zenon
<1>4. ASSUME NEW i \in Nat PROVE f[i] = Body(f, i)
  <2>1. CASE i = 0
    BY <1>3, <2>1 DEF Unfolds
  <2>2. CASE i # 0
    <3>1. f[i] = step[<<f[i - 1], i>>] /\ f[i - 1] \in Nat
      BY <1>3, <2>2 DEF Unfolds
    <3>2. QED
      BY <1>2, <2>2, <3>1
  <2>3. QED
    BY <2>1, <2>2
<1>5. f = [i \in Nat |-> Body(f, i)]
  BY <1>3, <1>4 DEF Unfolds
<1>6. left = [i \in Nat |-> Body(left, i)]
  BY <1>5, Zenon
<1>7. Shifted(n, b) = left
  BY Zenon DEF Shifted
<1> HIDE DEF left
<1>8. left[0] = n
  BY <1>6
<1>9. ASSUME NEW i \in Nat PROVE left[i + 1] = left[i] \div b
  BY <1>6
<1> DEFINE Done == {i \in Nat : left[i] \in Nat}
<1>10. 0 \in Done
  BY <1>8
<1>11. ASSUME NEW i \in Nat, i \in Done PROVE i + 1 \in Done
  <2>1. left[i] \in Nat /\ left[i + 1] = left[i] \div b /\ i + 1 \in Nat
    BY <1>9, <1>11
  <2>2. left[i] \div b \in Nat
    BY <2>1, Division
  <2>3. QED
    BY <2>1, <2>2
<1> HIDE DEF Done
<1>12. \A i \in Nat : i \in Done
  BY <1>10, <1>11, Induction
<1>13. left \in [Nat -> Nat]
  BY <1>6, <1>12 DEF Done
<1>14. QED
  BY <1>7, <1>8, <1>9, <1>13

LEMMA ShiftedShifts ==
  ASSUME NEW n \in Nat, NEW b \in Bases
  PROVE  \A i \in Nat : Shifted(n \div b, b)[i] = Shifted(n, b)[i + 1]
<1> DEFINE m == n \div b
           Done == {i \in Nat : Shifted(m, b)[i] = Shifted(n, b)[i + 1]}
<1>1. m \in Nat
  BY Division
<1>2. 0 \in Done
  <2>1. Shifted(m, b)[0] = m
    <3> HIDE DEF m
    <3>1. QED
      BY <1>1, ShiftedEquations
  <2>2. Shifted(n, b)[0 + 1] = Shifted(n, b)[0] \div b /\ Shifted(n, b)[0] = n
    <3>1. Shifted(n, b)[0] = n /\ \A i \in Nat : Shifted(n, b)[i + 1] = Shifted(n, b)[i] \div b
      BY ShiftedEquations
    <3>2. QED
      BY <3>1
  <2>3. QED
    BY <2>1, <2>2
<1> HIDE DEF m
<1>3. ASSUME NEW i \in Nat, i \in Done PROVE i + 1 \in Done
  <2>1. /\ Shifted(m, b)[i + 1] = Shifted(m, b)[i] \div b
        /\ Shifted(n, b)[(i + 1) + 1] = Shifted(n, b)[i + 1] \div b
    <3>1. i + 1 \in Nat
      OBVIOUS
    <3>2. QED
      BY <1>1, <3>1, ShiftedEquations
  <2>2. QED
    BY <1>3, <2>1
<1> HIDE DEF Done
<1>4. \A i \in Nat : i \in Done
  BY <1>2, <1>3, Induction
<1>5. QED
  BY <1>4 DEF Done, m

(* Digits run out, and do not come back.                                   *)
LEMMA ShiftedStaysZero ==
  ASSUME NEW n \in Nat, NEW b \in Bases, NEW k \in Nat, Shifted(n, b)[k] = 0
  PROVE  \A i \in Nat : i >= k => Shifted(n, b)[i] = 0
<1> DEFINE Done == {i \in Nat : i >= k => Shifted(n, b)[i] = 0}
<1>1. 0 \in Done
  OBVIOUS
<1>2. ASSUME NEW i \in Nat, i \in Done PROVE i + 1 \in Done
  <2>1. CASE i + 1 = k
    BY <2>1
  <2>2. CASE i + 1 > k
    <3>1. Shifted(n, b)[i] = 0
      BY <1>2, <2>2
    <3>2. Shifted(n, b)[i + 1] = Shifted(n, b)[i] \div b
      BY ShiftedEquations
    <3>3. 0 \div b = 0
      BY Division
    <3>4. QED
      BY <3>1, <3>2, <3>3
  <2>3. QED
    BY <2>1, <2>2
<1> HIDE DEF Done
<1>3. \A i \in Nat : i \in Done
  BY <1>1, <1>2, Induction
<1>4. QED
  BY <1>3 DEF Done

LEMMA ShiftedRunsOut ==
  ASSUME NEW n \in Nat, NEW b \in Bases
  PROVE  \A i \in Nat : Shifted(n, b)[i] <= n /\ (i >= n => Shifted(n, b)[i] = 0)
<1> DEFINE left(i) == Shifted(n, b)[i]
           Done == {i \in Nat : left(i) + i <= n \/ left(i) = 0}
<1>1. left(0) = n /\ \A i \in Nat : left(i) \in Nat /\ left(i + 1) = left(i) \div b
  BY ShiftedEquations
<1> HIDE DEF left
<1>2. 0 \in Done
  BY <1>1
<1>3. ASSUME NEW i \in Nat, i \in Done PROVE i + 1 \in Done
  <2>1. left(i + 1) = left(i) \div b /\ left(i) \in Nat /\ left(i + 1) \in Nat
    BY <1>1
  <2>2. (left(i) > 0 => left(i) \div b < left(i)) /\ 0 \div b = 0
    BY <2>1, Division
  <2>3. CASE left(i) = 0
    BY <2>1, <2>2, <2>3
  <2>4. CASE left(i) > 0 /\ left(i) + i <= n
    BY <2>1, <2>2, <2>4
  <2>5. QED
    BY <1>3, <2>1, <2>3, <2>4
<1> HIDE DEF Done
<1>4. \A i \in Nat : i \in Done
  BY <1>2, <1>3, Induction
<1>5. ASSUME NEW i \in Nat PROVE left(i) <= n /\ (i >= n => left(i) = 0)
  <2>1. (left(i) + i <= n \/ left(i) = 0) /\ left(i) \in Nat
    BY <1>1, <1>4 DEF Done
  <2>2. QED
    BY <2>1
<1>6. QED
  BY <1>5 DEF left

-------------------------------------------------------------------------------
(* text says n in base b, by no more digits than it takes or width asks.   *)
Says(text, n, b, width) ==
  /\ text \in Seq(0 .. 255)
  /\ Len(text) >= width
  /\ Shifted(n, b)[Len(text)] = 0
  /\ Len(text) = width \/ Shifted(n, b)[Len(text) - 1] # 0
  /\ \A p \in 1 .. Len(text) : text[p] = Code[(Shifted(n, b)[Len(text) - p] % b) + 1]

LEMMA CodeDigits ==
  ASSUME NEW d \in 0 .. 15
  PROVE  Code[d + 1] \in 0 .. 255 /\ Code[d + 1] = IF d < 10 THEN d + 48 ELSE (d - 10) + 65
<1>1. d \in {0, 1, 2, 3, 4, 5, 6, 7, 8, 9, 10, 11, 12, 13, 14, 15}
  OBVIOUS
<1>2. /\ Code[1] = 48 /\ Code[2] = 49 /\ Code[3] = 50 /\ Code[4] = 51
      /\ Code[5] = 52 /\ Code[6] = 53 /\ Code[7] = 54 /\ Code[8] = 55
      /\ Code[9] = 56 /\ Code[10] = 57 /\ Code[11] = 65 /\ Code[12] = 66
      /\ Code[13] = 67 /\ Code[14] = 68 /\ Code[15] = 69 /\ Code[16] = 70
  BY DEF Code
<1>3. QED
  BY <1>1, <1>2

(* That determines the text.                                               *)
LEMMA SaysNumeral ==
  ASSUME NEW n \in Nat, NEW b \in Bases, NEW w \in Nat \ {0}, NEW text, Says(text, n, b, w)
  PROVE  text = Numeral(n, b, w)
<1> DEFINE left == Shifted(n, b)
           k == Len(text)
           Ends(j) == j >= w /\ left[j] = 0 /\ (j = w \/ left[j - 1] # 0)
<1>1. /\ text \in Seq(0 .. 255) /\ k \in Nat /\ Ends(k)
      /\ \A p \in 1 .. k : text[p] = Code[(left[k - p] % b) + 1]
  BY DEF Says
<1>2. \A i \in Nat : i >= n => left[i] = 0
  BY ShiftedRunsOut
<1>3. ASSUME NEW i \in Nat, NEW j \in Nat, i >= j, left[j] = 0 PROVE left[i] = 0
  BY <1>3, ShiftedStaysZero
<1> HIDE DEF left, k
<1>4. k \in 1 .. n + w + 1
  <2>1. SUFFICES ASSUME k > n + w + 1 PROVE FALSE
    BY <1>1
  <2>2. k # w /\ k - 1 \in Nat /\ k - 1 >= n
    BY <1>1, <2>1
  <2>3. QED
    BY <1>1, <1>2, <2>2
<1>5. ASSUME NEW i \in 1 .. n + w + 1, NEW j \in 1 .. n + w + 1, Ends(i), Ends(j) PROVE ~(i < j)
  <2>1. SUFFICES ASSUME i < j PROVE FALSE
    OBVIOUS
  <2>2. j # w /\ j - 1 >= i /\ j - 1 \in Nat /\ i \in Nat
    BY <1>5, <2>1
  <2>3. left[j - 1] = 0
    BY <1>3, <1>5, <2>2
  <2>4. QED
    BY <1>5, <2>2, <2>3
<1>6. ASSUME NEW j \in 1 .. n + w + 1, Ends(j) PROVE j = k
  <2>1. ~(k < j) /\ ~(j < k)
    BY <1>1, <1>4, <1>5, <1>6
  <2>2. QED
    BY <1>4, <2>1
<1> DEFINE len == CHOOSE j \in 1 .. n + w + 1 : Ends(j)
<1>7. len = k
  <2> HIDE DEF Ends
  <2>1. len \in 1 .. n + w + 1 /\ Ends(len)
    BY <1>1, <1>4
  <2>2. QED
    BY <1>6, <2>1
<1>8. Places(n, b, w) = len
  BY Zenon DEF Places, left
<1>9. Numeral(n, b, w) = [p \in 1 .. k |-> Code[(left[k - p] % b) + 1]]
  BY <1>7, <1>8 DEF Numeral, left
<1>10. text = [p \in 1 .. k |-> text[p]]
  BY <1>1 DEF k
<1>11. QED
  BY <1>1, <1>9, <1>10

LEMMA SaysOneDigit ==
  ASSUME NEW b \in Bases, NEW n \in 0 .. b - 1
  PROVE  Says(<<Code[n + 1]>>, n, b, 1)
<1>1. b \in Nat /\ n \in 0 .. 15 /\ n \in Nat
  BY DEF Bases
<1>2. n % b = n /\ n \div b = 0
  BY <1>1, Division DEF Bases
<1>3. Shifted(n, b)[0] = n /\ \A i \in Nat : Shifted(n, b)[i + 1] = Shifted(n, b)[i] \div b
  BY <1>1, ShiftedEquations
<1>4. Shifted(n, b)[1] = 0
  <2>1. Shifted(n, b)[0 + 1] = Shifted(n, b)[0] \div b
    BY <1>3
  <2>2. QED
    BY <1>2, <1>3, <2>1
<1>5. Code[n + 1] \in 0 .. 255
  BY <1>1, CodeDigits
<1> DEFINE text == <<Code[n + 1]>>
<1>6. text \in Seq(0 .. 255) /\ Len(text) = 1 /\ text[1] = Code[n + 1]
  BY <1>5
<1> HIDE DEF text
<1>7. ASSUME NEW p \in 1 .. Len(text) PROVE text[p] = Code[(Shifted(n, b)[Len(text) - p] % b) + 1]
  <2>1. p = 1 /\ Len(text) - p = 0
    BY <1>6
  <2>2. QED
    BY <1>2, <1>3, <1>6, <2>1
<1>8. Says(text, n, b, 1)
  BY <1>4, <1>6, <1>7 DEF Says
<1>9. QED
  BY <1>8 DEF text

LEMMA SaysOneMore ==
  ASSUME NEW b \in Bases, NEW n \in Nat, n >= b, NEW text, Says(text, n \div b, b, 1)
  PROVE  Says(text \o <<Code[(n % b) + 1]>>, n, b, 1)
<1> DEFINE left == Shifted(n, b)
           less == Shifted(n \div b, b)
           k == Len(text)
           digit == Code[(n % b) + 1]
           more == text \o <<digit>>
<1>1. b \in Nat /\ n % b \in 0 .. 15 /\ n \div b # 0 /\ n \div b \in Nat
  BY Division DEF Bases
<1>2. digit \in 0 .. 255
  BY <1>1, CodeDigits
<1>3. left[0] = n
  BY ShiftedEquations
<1>4. ASSUME NEW i \in Nat PROVE less[i] = left[i + 1]
  BY ShiftedShifts
<1>5. /\ text \in Seq(0 .. 255) /\ k \in Nat /\ k >= 1 /\ less[k] = 0 /\ (k = 1 \/ less[k - 1] # 0)
      /\ \A p \in 1 .. k : text[p] = Code[(less[k - p] % b) + 1]
  BY DEF Says
<1>6. less[0] = n \div b
  BY <1>1, ShiftedEquations
<1> HIDE DEF left, less, digit
<1>7. /\ more \in Seq(0 .. 255) /\ Len(more) = k + 1 /\ more[k + 1] = digit
      /\ \A p \in 1 .. k : more[p] = text[p]
  BY <1>2, <1>5
<1> HIDE DEF k, more
<1>8. left[k + 1] = 0
  BY <1>4, <1>5
<1>9. left[k] # 0
  <2>1. k - 1 \in Nat /\ (k - 1) + 1 = k
    BY <1>5
  <2>2. left[k] = less[k - 1]
    BY <1>4, <2>1
  <2>3. QED
    BY <1>1, <1>5, <1>6, <2>2
<1>10. ASSUME NEW p \in 1 .. k + 1 PROVE more[p] = Code[(left[(k + 1) - p] % b) + 1]
  <2>1. CASE p = k + 1
    <3>1. (k + 1) - p = 0
      BY <1>5, <2>1
    <3>2. QED
      BY <1>3, <1>7, <2>1, <3>1 DEF digit
  <2>2. CASE p # k + 1
    <3>1. p \in 1 .. k /\ k - p \in Nat /\ (k - p) + 1 = (k + 1) - p
      BY <1>5, <2>2
    <3>2. left[(k + 1) - p] = less[k - p]
      BY <1>4, <3>1
    <3>3. QED
      BY <1>5, <1>7, <3>1, <3>2
  <2>3. QED
    BY <2>1, <2>2
<1>11. Says(more, n, b, 1)
  <2>1. (k + 1) - 1 = k /\ k + 1 >= 1
    BY <1>5
  <2>2. QED
    BY <1>7, <1>8, <1>9, <1>10, <2>1 DEF Says, left
<1>12. QED
  BY <1>11 DEF more, digit

-------------------------------------------------------------------------------
(* The loops that print a number.                                          *)
LEMMA FilledEquations ==
  /\ Filled \in [Nat -> Seq(0 .. 255)] /\ Filled[0] = <<>>
  /\ \A n \in Nat \ {0} : Filled[n] = <<ZERO + (n % 10)>> \o Filled[n \div 10]
<1> DEFINE V == Seq(0 .. 255)
           Body(f, n) == IF n = 0 THEN <<>> ELSE <<ZERO + (n % 10)>> \o f[n \div 10]
           size == [n \in Nat |-> n]
           prev == [n \in Nat |-> n \div 10]
           first == [n \in Nat |-> <<>>]
           step == [p \in Nat \X V |-> <<ZERO + (p[1] % 10)>> \o p[2]]
<1>1. ASSUME NEW n \in Nat PROVE n \div 10 \in Nat /\ ZERO + (n % 10) \in 0 .. 255 /\ (n # 0 => n \div 10 < n)
  BY Division DEF Bases, ZERO
<1>2. ASSUME NEW p \in Nat \X V PROVE <<ZERO + (p[1] % 10)>> \o p[2] \in V
  <2>1. p[1] \in Nat /\ p[2] \in V
    OBVIOUS
  <2>2. ZERO + (p[1] % 10) \in 0 .. 255
    BY <1>1, <2>1
  <2>3. QED
    BY <2>1, <2>2
<1>3. Falls(Nat, V, size, {0}, prev, first, step)
  <2>1. step \in [Nat \X V -> V]
    BY <1>2
  <2>2. first \in [Nat -> V] /\ size \in [Nat -> Nat]
    OBVIOUS
  <2>3. \A n \in Nat \ {0} : prev[n] \in Nat /\ size[prev[n]] < size[n]
    BY <1>1
  <2> HIDE DEF step, first, size, prev
  <2>4. QED
    BY <2>1, <2>2, <2>3 DEF Falls
<1>4. ASSUME NEW n \in Nat, NEW v \in V PROVE step[<<n, v>>] = <<ZERO + (n % 10)>> \o v
  <2>1. <<n, v>> \in Nat \X V
    OBVIOUS
  <2>2. step[<<n, v>>] = <<ZERO + (<<n, v>>[1] % 10)>> \o <<n, v>>[2]
    BY <2>1, Zenon
  <2>3. QED
    BY <2>2
<1>5. \A n \in Nat : prev[n] = n \div 10 /\ first[n] = <<>>
  OBVIOUS
<1> HIDE DEF size, prev, first, step
<1>6. PICK f \in [Nat -> V] : \A n \in Nat : f[n] = IF n \in {0} THEN first[n] ELSE step[<<n, f[prev[n]]>>]
  BY <1>3, LinearRecursion
<1>7. ASSUME NEW n \in Nat PROVE f[n] = Body(f, n)
  <2>1. f[n] = IF n \in {0} THEN first[n] ELSE step[<<n, f[prev[n]]>>]
    BY <1>6
  <2>2. n \div 10 \in Nat /\ f[n \div 10] \in V /\ prev[n] = n \div 10
    BY <1>1, <1>5, <1>6
  <2>3. step[<<n, f[n \div 10]>>] = <<ZERO + (n % 10)>> \o f[n \div 10]
    BY <1>4, <2>2
  <2>4. QED
    BY <1>5, <2>1, <2>2, <2>3
<1>8. f = [n \in Nat |-> Body(f, n)]
  BY <1>6, <1>7
<1>9. Filled = [n \in Nat |-> Body(Filled, n)]
  BY <1>8, Zenon DEF Filled
<1>10. \A n \in Nat : Filled[n] = Body(Filled, n)
  BY <1>9
<1> DEFINE Done == {n \in Nat : Filled[n] \in V}
<1>11. ASSUME NEW n \in Nat, \A m \in Nat : size[m] < size[n] => m \in Done PROVE n \in Done
  <2>1. CASE n = 0
    <3>1. Filled[n] = <<>>
      BY <1>10, <2>1
    <3>2. <<>> \in V
      OBVIOUS
    <3>3. QED
      BY <3>1, <3>2
  <2>2. CASE n # 0
    <3>1. n \div 10 \in Nat /\ size[n \div 10] < size[n] /\ ZERO + (n % 10) \in 0 .. 255
      BY <1>1, <2>2 DEF size
    <3>2. Filled[n \div 10] \in V
      BY <1>11, <3>1
    <3>3. Filled[n] = <<ZERO + (n % 10)>> \o Filled[n \div 10]
      BY <1>10, <2>2
    <3>4. <<ZERO + (n % 10)>> \o Filled[n \div 10] \in V
      BY <3>1, <3>2
    <3>5. QED
      BY <3>3, <3>4
  <2>3. QED
    BY <2>1, <2>2
<1> HIDE DEF Done
<1>12. \A n \in Nat : n \in Done
  <2>1. size \in [Nat -> Nat]
    BY DEF size
  <2>2. QED
    BY <1>11, <2>1, InductionBySize
<1>13. Filled \in [Nat -> V]
  <2>1. \A n \in Nat : Filled[n] \in V
    BY <1>12 DEF Done
  <2>2. QED
    BY <1>9, <2>1
<1>14. QED
  BY <1>10, <1>13

LEMMA ReverseConcat ==
  ASSUME NEW S, NEW e \in S, NEW s \in Seq(S)
  PROVE  Reverse(<<e>> \o s) = Reverse(s) \o <<e>>
  BY DEF Reverse

LEMMA ReverseType ==
  ASSUME NEW S, NEW s \in Seq(S)
  PROVE  Reverse(s) \in Seq(S)
  BY DEF Reverse

(* print_number_u() prints a number from its last digit to its first.      *)
LEMMA UnsignedSays ==
  ASSUME NEW n \in Nat
  PROVE  Says(print_number_u(n), n, 10, 1)
<1> DEFINE size == [i \in Nat |-> i]
           Done == {i \in Nat : i # 0 => Says(Reverse(Filled[i]), i, 10, 1)}
<1>1. ASSUME NEW i \in Nat, \A j \in Nat : size[j] < size[i] => j \in Done PROVE i \in Done
  <2>1. SUFFICES ASSUME i # 0 PROVE Says(Reverse(Filled[i]), i, 10, 1)
    OBVIOUS
  <2>2. /\ i \div 10 \in Nat /\ i \div 10 < i /\ i % 10 \in 0 .. 9 /\ 10 \in Bases
        /\ i < 10 <=> i \div 10 = 0
    BY <2>1, Division DEF Bases
  <2>3. Code[(i % 10) + 1] = ZERO + (i % 10) /\ ZERO + (i % 10) \in 0 .. 255
    BY <2>2, CodeDigits DEF ZERO
  <2>4. Filled[i] = <<Code[(i % 10) + 1]>> \o Filled[i \div 10] /\ Filled[i \div 10] \in Seq(0 .. 255)
    BY <2>1, <2>2, <2>3, FilledEquations
  <2>5. Reverse(Filled[i]) = Reverse(Filled[i \div 10]) \o <<Code[(i % 10) + 1]>>
    BY <2>3, <2>4, ReverseConcat
  <2>6. CASE i < 10
    <3>1. Filled[i \div 10] = <<>> /\ i % 10 = i /\ i \in 0 .. 10 - 1
      BY <2>2, <2>6, FilledEquations
    <3>2. Reverse(<<>>) = <<>>
      BY DEF Reverse
    <3>3. Reverse(Filled[i]) = <<Code[i + 1]>>
      <4>1. Reverse(Filled[i]) = <<>> \o <<Code[i + 1]>>
        BY <2>5, <3>1, <3>2
      <4>2. <<>> \o <<Code[i + 1]>> = <<Code[i + 1]>>
        OBVIOUS
      <4>3. QED
        BY <4>1, <4>2
    <3>4. Says(<<Code[i + 1]>>, i, 10, 1)
      BY <2>2, <3>1, SaysOneDigit
    <3>5. QED
      BY <3>3, <3>4
  <2>7. CASE i >= 10
    <3>1. i \div 10 # 0 /\ size[i \div 10] < size[i]
      BY <2>2, <2>7
    <3>2. Says(Reverse(Filled[i \div 10]), i \div 10, 10, 1)
      BY <1>1, <2>2, <3>1
    <3>3. QED
      BY <2>2, <2>5, <2>7, <3>2, SaysOneMore
  <2>8. QED
    BY <2>6, <2>7
<1> HIDE DEF Done
<1>2. \A i \in Nat : i \in Done
  <2>1. size \in [Nat -> Nat]
    OBVIOUS
  <2> HIDE DEF size
  <2>2. QED
    BY <1>1, <2>1, InductionBySize
<1>3. CASE n = 0
  <2>1. Says(<<Code[n + 1]>>, n, 10, 1)
    BY <1>3, SaysOneDigit DEF Bases
  <2>2. Code[n + 1] = ZERO
    BY <1>3, CodeDigits DEF ZERO
  <2>3. QED
    BY <1>3, <2>1, <2>2 DEF print_number_u
<1>4. CASE n # 0
  BY <1>2, <1>4 DEF print_number_u, Done
<1>5. QED
  BY <1>3, <1>4

Magnitude(n) == IF n < 0 THEN Negated(n) ELSE n

LEMMA TruncatedDivision ==
  ASSUME NEW n \in Int
  PROVE  /\ Quotient(n) \in Int /\ Remainder(n) \in -9 .. 9
         /\ Size(n) \in Nat /\ Size(Quotient(n)) \in Nat
         /\ Quotient(n) # 0 => Size(Quotient(n)) < Size(n)
         /\ n >= 0 => Quotient(n) = n \div 10 /\ Remainder(n) = n % 10
<1>1. CASE n >= 0
  <2>1. Quotient(n) = n \div 10 /\ Remainder(n) = n - (10 * (n \div 10))
    BY <1>1 DEF Quotient, Remainder
  <2>2. n \div 10 \in Nat /\ n % 10 \in 0 .. 9 /\ n = 10 * (n \div 10) + (n % 10) /\ (n > 0 => n \div 10 < n)
    BY <1>1, Division DEF Bases
  <2>3. QED
    BY <1>1, <2>1, <2>2 DEF Size
<1>2. CASE n < 0
  <2> DEFINE m == -n
  <2>1. Quotient(n) = -(m \div 10) /\ Remainder(n) = n - (10 * (-(m \div 10)))
    BY <1>2 DEF Quotient, Remainder
  <2>2. m \div 10 \in Nat /\ m % 10 \in 0 .. 9 /\ m = 10 * (m \div 10) + (m % 10) /\ m \div 10 < m
    BY <1>2, Division DEF Bases
  <2>3. QED
    BY <1>2, <2>1, <2>2 DEF Size
<1>3. QED
  BY <1>1, <1>2

LEMMA MagnitudeSize ==
  ASSUME NEW n \in Int
  PROVE  Magnitude(n) \in Int /\ Size(Magnitude(n)) = Size(n) /\ Size(n) \in Nat
  BY DEF Magnitude, Negated, Size

LEMMA SignedEquations ==
  /\ print_number \in [Int -> Seq(0 .. 255)]
  /\ \A n \in Int :
       print_number[n] = (IF n < 0 THEN <<MINUS>> ELSE <<>>)
                         \o (IF Quotient(Magnitude(n)) # 0 THEN print_number[Quotient(Magnitude(n))] ELSE <<>>)
                         \o <<Remainder(Magnitude(n)) + ZERO>>
<1> DEFINE V == Seq(0 .. 255)
           sign(n) == IF n < 0 THEN <<MINUS>> ELSE <<>>
           last(n) == <<Remainder(Magnitude(n)) + ZERO>>
           rest(n) == Quotient(Magnitude(n))
           Body(f, n) == sign(n) \o (IF rest(n) # 0 THEN f[rest(n)] ELSE <<>>) \o last(n)
           Base == {n \in Int : rest(n) = 0}
           size == [n \in Int |-> Size(n)]
           prev == [n \in Int |-> rest(n)]
           first == [n \in Int |-> sign(n) \o <<>> \o last(n)]
           step == [p \in Int \X V |-> sign(p[1]) \o p[2] \o last(p[1])]
<1>1. ASSUME NEW n \in Int
      PROVE  /\ rest(n) \in Int /\ Size(n) \in Nat /\ (rest(n) # 0 => Size(rest(n)) < Size(n))
             /\ sign(n) \in V /\ last(n) \in V
  <2>1. Remainder(Magnitude(n)) + ZERO \in 0 .. 255
    <3>1. Magnitude(n) \in Int
      BY MagnitudeSize
    <3>2. Remainder(Magnitude(n)) \in -9 .. 9
      BY <3>1, TruncatedDivision
    <3>3. QED
      BY <3>2 DEF ZERO
  <2>2. last(n) \in V
    BY <2>1
  <2>3. sign(n) \in V
    <3>1. <<MINUS>> \in V /\ <<>> \in V
      BY DEF MINUS
    <3>2. QED
      BY <3>1
  <2>4. QED
    BY <2>2, <2>3, MagnitudeSize, TruncatedDivision
<1> HIDE DEF sign, last, rest
<1>2. ASSUME NEW n \in Int, NEW v \in V PROVE sign(n) \o v \o last(n) \in V
  <2>1. sign(n) \in V /\ last(n) \in V
    BY <1>1
  <2> HIDE DEF V
  <2>2. \A a, b \in V : a \o b \in V
    BY DEF V
  <2>3. QED
    BY <2>1, <2>2
<1>3. Falls(Int, V, size, Base, prev, first, step)
  <2>1. step \in [Int \X V -> V]
    <3>1. ASSUME NEW p \in Int \X V PROVE sign(p[1]) \o p[2] \o last(p[1]) \in V
      BY <1>2
    <3>2. QED
      BY <3>1
  <2>2. first \in [Int -> V]
    <3>1. <<>> \in V
      OBVIOUS
    <3>2. \A n \in Int : sign(n) \o <<>> \o last(n) \in V
      BY <1>2, <3>1
    <3>3. QED
      BY <3>2
  <2>3. size \in [Int -> Nat]
    BY <1>1
  <2>4. \A n \in Int \ Base : prev[n] \in Int /\ size[prev[n]] < size[n]
    BY <1>1
  <2> HIDE DEF step, first, size, prev, Base
  <2>5. QED
    BY <2>1, <2>2, <2>3, <2>4 DEF Falls
<1>4. ASSUME NEW n \in Int, NEW v \in V PROVE step[<<n, v>>] = sign(n) \o v \o last(n)
  <2>1. <<n, v>> \in Int \X V
    OBVIOUS
  <2>2. step[<<n, v>>] = sign(<<n, v>>[1]) \o <<n, v>>[2] \o last(<<n, v>>[1])
    BY <2>1, Zenon
  <2>3. QED
    BY <2>2
<1>5. /\ \A n \in Int : prev[n] = rest(n) /\ first[n] = sign(n) \o <<>> \o last(n)
      /\ \A n \in Int : n \in Base <=> rest(n) = 0
  OBVIOUS
<1> HIDE DEF size, prev, first, step, Base
<1>6. PICK f \in [Int -> V] : \A n \in Int : f[n] = IF n \in Base THEN first[n] ELSE step[<<n, f[prev[n]]>>]
  <2> HIDE DEF V
  <2>1. QED
    BY <1>3, LinearRecursion
<1>7. ASSUME NEW n \in Int PROVE f[n] = Body(f, n) /\ f[n] \in V
  <2>1. f[n] = IF n \in Base THEN first[n] ELSE step[<<n, f[prev[n]]>>]
    BY <1>6
  <2>2. prev[n] = rest(n) /\ rest(n) \in Int /\ f[rest(n)] \in V
    BY <1>1, <1>5, <1>6
  <2>3. step[<<n, f[rest(n)]>>] = sign(n) \o f[rest(n)] \o last(n)
    BY <1>4, <2>2
  <2>4. QED
    BY <1>5, <1>6, <2>1, <2>2, <2>3
<1>8. f = [n \in Int |-> Body(f, n)]
  BY <1>6, <1>7
<1>9. print_number = [n \in Int |-> Body(print_number, n)]
  BY <1>8, Zenon DEF print_number, Magnitude, sign, last, rest
<1>10. \A n \in Int : print_number[n] = Body(print_number, n)
  BY <1>9
<1> DEFINE Done == {n \in Int : print_number[n] \in V}
<1>11. ASSUME NEW n \in Int, \A m \in Int : size[m] < size[n] => m \in Done PROVE n \in Done
  <2>1. CASE rest(n) = 0
    <3>1. print_number[n] = sign(n) \o <<>> \o last(n)
      BY <1>10, <2>1
    <3>2. <<>> \in V
      OBVIOUS
    <3>3. QED
      BY <1>2, <3>1, <3>2
  <2>2. CASE rest(n) # 0
    <3>1. rest(n) \in Int /\ size[rest(n)] < size[n]
      BY <1>1, <2>2 DEF size
    <3>2. print_number[rest(n)] \in V
      BY <1>11, <3>1
    <3>3. print_number[n] = sign(n) \o print_number[rest(n)] \o last(n)
      BY <1>10, <2>2
    <3>4. QED
      BY <1>2, <3>2, <3>3
  <2>3. QED
    BY <2>1, <2>2
<1> HIDE DEF Done
<1>12. \A n \in Int : n \in Done
  <2>1. size \in [Int -> Nat]
    BY <1>1 DEF size
  <2>2. QED
    BY <1>11, <2>1, InductionBySize
<1>13. print_number \in [Int -> V]
  <2>1. \A n \in Int : print_number[n] \in V
    BY <1>12 DEF Done
  <2>2. QED
    BY <1>9, <2>1
<1>14. QED
  BY <1>10, <1>13 DEF sign, last, rest

(* print_number() recurs before it prints its digit.                       *)
LEMMA NumberSays ==
  ASSUME NEW n \in Nat
  PROVE  Says(print_number[n], n, 10, 1)
<1> DEFINE size == [i \in Nat |-> i]
           Done == {i \in Nat : Says(print_number[i], i, 10, 1)}
<1>1. ASSUME NEW i \in Nat, \A j \in Nat : size[j] < size[i] => j \in Done PROVE i \in Done
  <2>1. /\ i \div 10 \in Nat /\ i % 10 \in 0 .. 9 /\ 10 \in Bases /\ (i > 0 => i \div 10 < i)
        /\ i < 10 <=> i \div 10 = 0
    BY Division DEF Bases
  <2>2. Code[(i % 10) + 1] = (i % 10) + ZERO /\ Code[(i % 10) + 1] \in 0 .. 255
    BY <2>1, CodeDigits DEF ZERO
  <2>3. Magnitude(i) = i /\ Quotient(i) = i \div 10 /\ Remainder(i) = i % 10
    BY TruncatedDivision DEF Magnitude
  <2>4. print_number[i] = <<>> \o (IF i \div 10 # 0 THEN print_number[i \div 10] ELSE <<>>)
                          \o <<Code[(i % 10) + 1]>>
    <3>1. i \in Int /\ ~(i < 0)
      OBVIOUS
    <3>2. print_number[i] = (IF i < 0 THEN <<MINUS>> ELSE <<>>)
                            \o (IF i \div 10 # 0 THEN print_number[i \div 10] ELSE <<>>)
                            \o <<(i % 10) + ZERO>>
      BY <2>3, <3>1, SignedEquations
    <3>3. QED
      BY <2>2, <3>1, <3>2
  <2>5. CASE i < 10
    <3>1. i % 10 = i /\ i \in 0 .. 10 - 1 /\ i \div 10 = 0
      BY <2>1, <2>5
    <3>2. print_number[i] = <<>> \o <<>> \o <<Code[i + 1]>>
      BY <2>4, <3>1
    <3>3. <<>> \o <<>> \o <<Code[i + 1]>> = <<Code[i + 1]>>
      OBVIOUS
    <3>4. Says(<<Code[i + 1]>>, i, 10, 1)
      BY <2>1, <3>1, SaysOneDigit
    <3>5. QED
      BY <3>2, <3>3, <3>4
  <2>6. CASE i >= 10
    <3>1. i \div 10 # 0 /\ size[i \div 10] < size[i]
      BY <2>1, <2>6
    <3>2. Says(print_number[i \div 10], i \div 10, 10, 1)
      BY <1>1, <2>1, <3>1
    <3>3. print_number[i \div 10] \in Seq(0 .. 255)
      BY <3>2 DEF Says
    <3>4. print_number[i] = print_number[i \div 10] \o <<Code[(i % 10) + 1]>>
      BY <2>4, <3>1, <3>3
    <3>5. QED
      BY <2>1, <2>6, <3>2, <3>4, SaysOneMore
  <2>7. QED
    BY <2>5, <2>6
<1> HIDE DEF Done
<1>2. \A i \in Nat : i \in Done
  <2>1. size \in [Nat -> Nat]
    OBVIOUS
  <2> HIDE DEF size
  <2>2. QED
    BY <1>1, <2>1, InductionBySize
<1>3. QED
  BY <1>2 DEF Done

LEMMA NumberOfNegative ==
  ASSUME NEW n \in Int, n < 0, n # IntMin
  PROVE  print_number[n] = <<MINUS>> \o print_number[-n]
<1> DEFINE m == -n
           digits == (IF Quotient(m) # 0 THEN print_number[Quotient(m)] ELSE <<>>)
                     \o <<Remainder(m) + ZERO>>
<1>1. m \in Nat /\ Magnitude(n) = m /\ Magnitude(m) = m /\ ~(m < 0)
  BY DEF Magnitude, Negated
<1>2. Quotient(m) \in Int /\ Remainder(m) + ZERO \in 0 .. 255
  <2> HIDE DEF m
  <2>1. Quotient(m) \in Int /\ Remainder(m) \in -9 .. 9
    BY <1>1, TruncatedDivision
  <2>2. QED
    BY <2>1 DEF ZERO
<1> HIDE DEF m
<1>3. /\ print_number[n] = <<MINUS>> \o (IF Quotient(m) # 0 THEN print_number[Quotient(m)] ELSE <<>>)
                           \o <<Remainder(m) + ZERO>>
      /\ print_number[m] = <<>> \o (IF Quotient(m) # 0 THEN print_number[Quotient(m)] ELSE <<>>)
                           \o <<Remainder(m) + ZERO>>
  <2>1. print_number[m] = (IF m < 0 THEN <<MINUS>> ELSE <<>>)
                         \o (IF Quotient(Magnitude(m)) # 0 THEN print_number[Quotient(Magnitude(m))] ELSE <<>>)
                         \o <<Remainder(Magnitude(m)) + ZERO>>
    <3>1. m \in Int
      BY <1>1
    <3>2. QED
      BY <3>1, SignedEquations, Zenon
  <2>2. print_number[n] = (IF n < 0 THEN <<MINUS>> ELSE <<>>)
                         \o (IF Quotient(Magnitude(n)) # 0 THEN print_number[Quotient(Magnitude(n))] ELSE <<>>)
                         \o <<Remainder(Magnitude(n)) + ZERO>>
    BY SignedEquations
  <2>3. QED
    BY <1>1, <2>1, <2>2
<1>4. ASSUME NEW s \in Seq(0 .. 255), NEW d \in 0 .. 255
      PROVE  <<MINUS>> \o s \o <<d>> = <<MINUS>> \o (<<>> \o s \o <<d>>)
  BY DEF MINUS
<1>5. (IF Quotient(m) # 0 THEN print_number[Quotient(m)] ELSE <<>>) \in Seq(0 .. 255)
  <2>1. <<>> \in Seq(0 .. 255)
    OBVIOUS
  <2>2. QED
    BY <1>2, <2>1, SignedEquations
<1>6. print_number[n] = <<MINUS>> \o print_number[m]
  BY <1>2, <1>3, <1>4, <1>5
<1>7. QED
  BY <1>6 DEF m

LEMMA NibblesEquations ==
  Nibbles \in [Nat -> Nat] /\ \A v \in Nat : Nibbles[v] = IF v < 16 THEN 1 ELSE 1 + Nibbles[v \div 16]
<1> DEFINE Body(f, v) == IF v < 16 THEN 1 ELSE 1 + f[v \div 16]
           size == [v \in Nat |-> v]
           prev == [v \in Nat |-> v \div 16]
           first == [v \in Nat |-> 1]
           step == [p \in Nat \X Nat |-> 1 + p[2]]
           Base == 0 .. 15
<1>1. ASSUME NEW v \in Nat PROVE v \div 16 \in Nat /\ (v \notin Base <=> v >= 16) /\ (v > 0 => v \div 16 < v)
  BY Division DEF Bases
<1>2. Falls(Nat, Nat, size, Base, prev, first, step)
  <2>1. step \in [Nat \X Nat -> Nat] /\ first \in [Nat -> Nat] /\ size \in [Nat -> Nat]
    OBVIOUS
  <2>2. \A v \in Nat \ Base : prev[v] \in Nat /\ size[prev[v]] < size[v]
    BY <1>1
  <2> HIDE DEF step, first, size, prev, Base
  <2>3. QED
    BY <2>1, <2>2 DEF Falls
<1>3. /\ \A v \in Nat, w \in Nat : step[<<v, w>>] = 1 + w
      /\ \A v \in Nat : prev[v] = v \div 16 /\ first[v] = 1
  OBVIOUS
<1> HIDE DEF size, prev, first, step, Base
<1>4. PICK f \in [Nat -> Nat] : \A v \in Nat : f[v] = IF v \in Base THEN first[v] ELSE step[<<v, f[prev[v]]>>]
  BY <1>2, LinearRecursion
<1>5. ASSUME NEW v \in Nat PROVE f[v] = Body(f, v)
  <2>1. f[v] = IF v \in Base THEN first[v] ELSE step[<<v, f[prev[v]]>>]
    BY <1>4
  <2>2. v \div 16 \in Nat /\ f[v \div 16] \in Nat /\ prev[v] = v \div 16 /\ (v \notin Base <=> v >= 16)
    BY <1>1, <1>3, <1>4
  <2>3. QED
    BY <1>3, <2>1, <2>2
<1>6. f = [v \in Nat |-> Body(f, v)]
  BY <1>4, <1>5
<1>7. Nibbles = [v \in Nat |-> Body(Nibbles, v)]
  BY <1>6, Zenon DEF Nibbles
<1>8. \A v \in Nat : Nibbles[v] = Body(Nibbles, v)
  BY <1>7
<1> DEFINE Done == {v \in Nat : Nibbles[v] \in Nat}
<1>9. ASSUME NEW v \in Nat, \A w \in Nat : size[w] < size[v] => w \in Done PROVE v \in Done
  <2>1. CASE v < 16
    BY <1>8, <2>1
  <2>2. CASE v >= 16
    <3>1. v \div 16 \in Nat /\ size[v \div 16] < size[v]
      BY <1>1, <2>2 DEF size
    <3>2. Nibbles[v \div 16] \in Nat
      BY <1>9, <3>1
    <3>3. Nibbles[v] = 1 + Nibbles[v \div 16]
      BY <1>8, <2>2
    <3>4. QED
      BY <3>2, <3>3
  <2>3. QED
    BY <2>1, <2>2
<1> HIDE DEF Done
<1>10. \A v \in Nat : v \in Done
  <2>1. size \in [Nat -> Nat]
    BY DEF size
  <2>2. QED
    BY <1>9, <2>1, InductionBySize
<1>11. Nibbles \in [Nat -> Nat]
  <2>1. \A v \in Nat : Nibbles[v] \in Nat
    BY <1>10 DEF Done
  <2>2. QED
    BY <1>7, <2>1
<1>12. QED
  BY <1>8, <1>11

(* The first loop of print_hex() counts the nibbles that the value has.    *)
LEMMA NibblesCount ==
  ASSUME NEW v \in Nat
  PROVE  /\ Nibbles[v] \in Nat \ {0}
         /\ Shifted(v, 16)[Nibbles[v]] = 0
         /\ Nibbles[v] = 1 \/ Shifted(v, 16)[Nibbles[v] - 1] # 0
<1> DEFINE size == [i \in Nat |-> i]
           Counts(i) == /\ Nibbles[i] \in Nat \ {0}
                        /\ Shifted(i, 16)[Nibbles[i]] = 0
                        /\ Nibbles[i] = 1 \/ Shifted(i, 16)[Nibbles[i] - 1] # 0
           Done == {i \in Nat : Counts(i)}
<1>1. ASSUME NEW i \in Nat, \A j \in Nat : size[j] < size[i] => j \in Done PROVE i \in Done
  <2>1. 16 \in Bases /\ i \div 16 \in Nat /\ (i > 0 => i \div 16 < i)
    BY Division DEF Bases
  <2>2. i < 16 <=> i \div 16 = 0
    BY Division DEF Bases
  <2>3. Shifted(i, 16)[0] = i /\ Shifted(i, 16)[1] = i \div 16
    <3>1. Shifted(i, 16)[0] = i /\ \A j \in Nat : Shifted(i, 16)[j + 1] = Shifted(i, 16)[j] \div 16
      BY <2>1, ShiftedEquations, Zenon
    <3>2. Shifted(i, 16)[0 + 1] = Shifted(i, 16)[0] \div 16
      BY <3>1
    <3>3. QED
      BY <3>1, <3>2
  <2>4. CASE i < 16
    <3>1. Nibbles[i] = 1
      BY <2>4, NibblesEquations
    <3>2. QED
      BY <2>2, <2>3, <2>4, <3>1
  <2>5. CASE i >= 16
    <3>1. size[i \div 16] < size[i]
      BY <2>1, <2>5
    <3>2. Counts(i \div 16)
      BY <1>1, <2>1, <3>1
    <3> DEFINE n == Nibbles[i \div 16]
    <3>3. n \in Nat \ {0} /\ Shifted(i \div 16, 16)[n] = 0 /\ (n = 1 \/ Shifted(i \div 16, 16)[n - 1] # 0)
      BY <3>2
    <3>4. Nibbles[i] = n + 1
      BY <2>5, <3>3, NibblesEquations
    <3> HIDE DEF n, Counts
    <3>5. Shifted(i, 16)[n + 1] = 0
      BY <2>1, <3>3, ShiftedShifts
    <3>6. Shifted(i, 16)[n] # 0
      <4>1. n - 1 \in Nat /\ (n - 1) + 1 = n
        BY <3>3
      <4>2. Shifted(i, 16)[n] = Shifted(i \div 16, 16)[n - 1]
        BY <2>1, <4>1, ShiftedShifts
      <4>3. Shifted(i \div 16, 16)[0] = i \div 16
        BY <2>1, ShiftedEquations
      <4>4. QED
        BY <2>2, <2>5, <3>3, <4>2, <4>3
    <3>7. Counts(i)
      <4>1. (n + 1) - 1 = n /\ n + 1 \in Nat \ {0}
        BY <3>3
      <4>2. QED
        BY <3>4, <3>5, <3>6, <4>1 DEF Counts
    <3>8. QED
      BY <3>7
  <2>6. QED
    BY <2>4, <2>5
<1> HIDE DEF Done
<1>2. \A i \in Nat : i \in Done
  <2>1. size \in [Nat -> Nat]
    OBVIOUS
  <2> HIDE DEF size
  <2>2. QED
    BY <1>1, <2>1, InductionBySize
<1>3. QED
  BY <1>2 DEF Done

(* print_hex() pads with zeros what is shorter than its padding.           *)
LEMMA HexSays ==
  ASSUME NEW v \in Nat, NEW pad \in Nat
  PROVE  Says(print_hex(v, pad), v, 16, IF pad = 0 THEN 1 ELSE pad)
<1> DEFINE left == Shifted(v, 16)
           n == Nibbles[v]
           zeros == [i \in 1 .. pad - n |-> ZERO]
           digits == [k \in 1 .. n |-> HexDigit(left[n - k] % 16)]
           text == print_hex(v, pad)
           k == Len(text)
           w == IF pad = 0 THEN 1 ELSE pad
<1>1. n \in Nat \ {0} /\ left[n] = 0 /\ (n = 1 \/ left[n - 1] # 0)
  BY NibblesCount
<1>2. 16 \in Bases
  BY DEF Bases
<1>3. left \in [Nat -> Nat] /\ \A i \in Nat : left[i] % 16 \in 0 .. 15
  <2>1. left \in [Nat -> Nat]
    BY <1>2, ShiftedEquations, Zenon
  <2>2. \A m \in Nat : m % 16 \in 0 .. 15
    OBVIOUS
  <2> HIDE DEF left
  <2>3. QED
    BY <2>1, <2>2
<1>4. \A d \in 0 .. 15 : HexDigit(d) = Code[d + 1] /\ HexDigit(d) \in 0 .. 255
  BY CodeDigits DEF HexDigit, ZERO, UpperA
<1>5. \A i \in Nat : i >= n => left[i] = 0
  BY <1>1, <1>2, ShiftedStaysZero
<1>6. text = zeros \o digits
  BY DEF print_hex
<1> HIDE DEF left, n, text
<1>7. zeros \in Seq(0 .. 255) /\ Len(zeros) = (IF pad - n > 0 THEN pad - n ELSE 0)
  <2>1. zeros \in [1 .. pad - n -> 0 .. 255] /\ pad - n \in Int
    BY <1>1 DEF ZERO
  <2> HIDE DEF zeros
  <2>2. QED
    BY <2>1, ByPosition
<1>8. digits \in Seq(0 .. 255) /\ Len(digits) = n
  <2>1. ASSUME NEW j \in 1 .. n PROVE HexDigit(left[n - j] % 16) \in 0 .. 255
    <3>1. n - j \in Nat
      BY <1>1
    <3>2. QED
      BY <1>3, <1>4, <3>1
  <2>2. digits \in [1 .. n -> 0 .. 255] /\ n \in Int /\ n > 0
    BY <1>1, <2>1
  <2> HIDE DEF digits
  <2>3. QED
    BY <2>2, ByPosition
<1>9. \A i \in 1 .. pad - n : zeros[i] = ZERO
  OBVIOUS
<1>10. \A i \in 1 .. n : digits[i] = HexDigit(left[n - i] % 16)
  OBVIOUS
<1> HIDE DEF zeros, digits
<1>11. /\ text \in Seq(0 .. 255) /\ k = Len(zeros) + n
       /\ \A p \in 1 .. Len(zeros) : text[p] = zeros[p]
       /\ \A p \in 1 .. n : text[Len(zeros) + p] = digits[p]
  <2>1. /\ zeros \o digits \in Seq(0 .. 255) /\ Len(zeros \o digits) = Len(zeros) + Len(digits)
        /\ \A p \in 1 .. Len(zeros) : (zeros \o digits)[p] = zeros[p]
        /\ \A p \in 1 .. Len(digits) : (zeros \o digits)[Len(zeros) + p] = digits[p]
    <3>1. zeros \in Seq(0 .. 255) /\ digits \in Seq(0 .. 255)
      BY <1>7, <1>8
    <3>2. QED
      BY <3>1, Concatenation
  <2>2. Len(digits) = n
    BY <1>8
  <2>3. QED
    BY <1>6, <2>1, <2>2, Zenon
<1>12. k = (IF pad > n THEN pad ELSE n)
  BY <1>1, <1>7, <1>11
<1> HIDE DEF k
<1>13. k \in Nat /\ k >= n /\ k >= w /\ (k = n \/ k = w)
  BY <1>1, <1>12
<1>14. left[k] = 0
  BY <1>5, <1>13
<1>15. k = w \/ left[k - 1] # 0
  BY <1>1, <1>12
<1>16. ASSUME NEW p \in 1 .. k PROVE text[p] = Code[(left[k - p] % 16) + 1]
  <2>1. CASE p <= Len(zeros)
    <3>1. p \in 1 .. pad - n /\ k = pad /\ p \in 1 .. Len(zeros)
      BY <1>1, <1>7, <1>12, <2>1
    <3>2. k - p \in Nat /\ k - p >= n
      BY <1>1, <3>1
    <3>3. left[k - p] = 0
      BY <1>5, <3>2
    <3>4. text[p] = ZERO
      BY <1>9, <1>11, <3>1
    <3>5. Code[(0 % 16) + 1] = ZERO
      BY CodeDigits DEF ZERO
    <3>6. QED
      BY <3>3, <3>4, <3>5
  <2>2. CASE p > Len(zeros)
    <3> DEFINE q == p - Len(zeros)
    <3>1. q \in 1 .. n /\ n - q = k - p /\ n - q \in Nat /\ Len(zeros) + q = p
      BY <1>1, <1>7, <1>11, <2>2 DEF k
    <3>2. text[p] = digits[q]
      BY <1>11, <3>1
    <3>3. digits[q] = HexDigit(left[n - q] % 16)
      BY <1>10, <3>1
    <3>4. QED
      BY <1>3, <1>4, <3>1, <3>2, <3>3
  <2>3. QED
    BY <1>7, <2>1, <2>2
<1>17. Says(text, v, 16, w)
  BY <1>11, <1>13, <1>14, <1>15, <1>16 DEF Says, left, k
<1>18. QED
  BY <1>17 DEF text

(* Division by any number, and that quotient and rest are its only ones.   *)
LEMMA Euclid ==
  ASSUME NEW u \in Nat \ {0}, NEW n \in Nat
  PROVE  /\ n \div u \in Nat /\ n % u \in Nat /\ n % u < u
         /\ n = u * (n \div u) + (n % u)
  BY Z3

LEMMA OnlyQuotient ==
  ASSUME NEW u \in Nat \ {0}, NEW n \in Nat, NEW q \in Nat, NEW r \in Nat, r < u, n = u * q + r
  PROVE  n \div u = q
<1> DEFINE d == n \div u
           e == n % u
<1>1. d \in Nat /\ e \in Nat /\ e < u /\ n = u * d + e
  BY Euclid
<1> HIDE DEF d, e
<1>2. CASE d > q
  <2>1. PICK k \in Nat : d = q + 1 + k
    <3>1. d - q - 1 \in Nat /\ d = q + 1 + (d - q - 1)
      BY <1>1, <1>2
    <3>2. QED
      BY <3>1
  <2>2. u * d = u * q + u + u * k /\ u * k >= 0
    BY <2>1
  <2>3. u * q \in Nat /\ u * k \in Nat /\ u * d \in Nat
    BY <1>1, <2>1
  <2>4. QED
    BY <1>1, <2>2, <2>3
<1>3. CASE q > d
  <2>1. PICK k \in Nat : q = d + 1 + k
    <3>1. q - d - 1 \in Nat /\ q = d + 1 + (q - d - 1)
      BY <1>1, <1>3
    <3>2. QED
      BY <3>1
  <2>2. u * q = u * d + u + u * k /\ u * k >= 0
    BY <1>1, <2>1
  <2>3. u * q \in Nat /\ u * k \in Nat /\ u * d \in Nat
    BY <1>1, <2>1
  <2>4. QED
    BY <1>1, <2>2, <2>3
<1>4. QED
  BY <1>1, <1>2, <1>3 DEF d

(* Ten times less than u holds u less than ten times.                      *)
LEMMA DecimalDigit ==
  ASSUME NEW u \in Nat \ {0}, NEW f \in Nat, f < u
  PROVE  (f * 10) \div u \in 0 .. 9
<1>1. /\ (f * 10) \div u \in Nat /\ (f * 10) % u \in Nat
      /\ f * 10 = u * ((f * 10) \div u) + ((f * 10) % u)
  BY Euclid
<1> DEFINE d == (f * 10) \div u
<1>2. SUFFICES ASSUME d >= 10 PROVE FALSE
  BY <1>1
<1>3. PICK k \in Nat : d = 10 + k
  <2>1. d - 10 \in Nat /\ d = 10 + (d - 10)
    BY <1>1, <1>2
  <2>2. QED
    BY <2>1
<1>4. u * d = u * 10 + u * k /\ u * k \in Nat
  <2> HIDE DEF d
  <2>1. QED
    BY <1>3
<1>5. QED
  BY <1>1, <1>4

LEMMA FractionEquations ==
  ASSUME NEW n \in Nat
  PROVE  /\ Fraction(n)[0] = n % Unit
         /\ Fraction(n)[1] = (Fraction(n)[0] * 10) % Unit
         /\ Fraction(n)[2] = (Fraction(n)[1] * 10) % Unit
<1> DEFINE step == [p \in Nat \X Nat |-> (p[1] * 10) % Unit]
           Body(f, i) == IF i = 0 THEN n % Unit ELSE (f[i - 1] * 10) % Unit
           frac == CHOOSE f : f = [i \in Nat |-> Body(f, i)]
<1>1. Steps(Nat, n % Unit, step)
  <2>1. n % Unit \in Nat /\ \A v \in Nat : (v * 10) % Unit \in Nat
    BY UnitAssumption, Euclid
  <2>2. QED
    BY <2>1 DEF Steps
<1>2. \A v \in Nat, i \in Nat : step[<<v, i>>] = (v * 10) % Unit
  OBVIOUS
<1> HIDE DEF step
<1>3. PICK f : Unfolds(Nat, n % Unit, step, f)
  BY <1>1, PrimitiveRecursion, Zenon
<1>4. ASSUME NEW i \in Nat PROVE f[i] = Body(f, i)
  <2>1. CASE i = 0
    BY <1>3, <2>1 DEF Unfolds
  <2>2. CASE i # 0
    <3>1. f[i] = step[<<f[i - 1], i>>] /\ f[i - 1] \in Nat
      BY <1>3, <2>2 DEF Unfolds
    <3>2. QED
      BY <1>2, <2>2, <3>1
  <2>3. QED
    BY <2>1, <2>2
<1>5. f = [i \in Nat |-> Body(f, i)]
  BY <1>3, <1>4 DEF Unfolds
<1>6. frac = [i \in Nat |-> Body(frac, i)]
  BY <1>5, Zenon
<1>7. Fraction(n) = frac
  BY Zenon DEF Fraction
<1> HIDE DEF frac
<1>8. frac[0] = n % Unit
  BY <1>6
<1>9. ASSUME NEW i \in Nat PROVE frac[i + 1] = (frac[i] * 10) % Unit
  BY <1>6
<1>10. frac[0 + 1] = (frac[0] * 10) % Unit /\ frac[1 + 1] = (frac[1] * 10) % Unit
  BY <1>9
<1>11. QED
  BY <1>7, <1>8, <1>10

Thousandths(n) == [i \in 1 .. 3 |-> ZERO + ((Fraction(n)[i - 1] * 10) \div Unit)]

LEMMA DecimalRound ==
  ASSUME NEW f \in Nat, f < Unit
  PROVE  /\ (f * 10) \div Unit \in 0 .. 9
         /\ (f * 10) % Unit \in Nat /\ (f * 10) % Unit < Unit
         /\ f * 10 = Unit * ((f * 10) \div Unit) + ((f * 10) % Unit)
<1>1. f * 10 \in Nat
  OBVIOUS
<1>2. (f * 10) \div Unit \in 0 .. 9
  BY UnitAssumption, DecimalDigit
<1>3. QED
  BY <1>1, <1>2, UnitAssumption, Euclid

(* Three rounds of the loop of print_float() say the first three decimals: *)
(* a * 100 + b * 10 + c parts of a thousand, and less than one more.       *)
LEMMA ThreeDecimals ==
  ASSUME NEW f \in Nat, f < Unit
  PROVE  LET f1 == (f * 10) % Unit
             f2 == (f1 * 10) % Unit
             a == (f * 10) \div Unit
             b == (f1 * 10) \div Unit
             c == (f2 * 10) \div Unit
         IN  /\ a \in 0 .. 9 /\ b \in 0 .. 9 /\ c \in 0 .. 9
             /\ (f * 1000) \div Unit = 100 * a + 10 * b + c
<1> DEFINE f1 == (f * 10) % Unit
           f2 == (f1 * 10) % Unit
           f3 == (f2 * 10) % Unit
           a == (f * 10) \div Unit
           b == (f1 * 10) \div Unit
           c == (f2 * 10) \div Unit
           u == Unit
<1>0. u \in Nat \ {0}
  BY UnitAssumption
<1>1. a \in 0 .. 9 /\ f1 \in Nat /\ f1 < u /\ f * 10 = u * a + f1
  BY DecimalRound
<1>2. b \in 0 .. 9 /\ f2 \in Nat /\ f2 < u /\ f1 * 10 = u * b + f2
  <2> HIDE DEF f1
  <2>1. QED
    BY <1>1, DecimalRound
<1>3. c \in 0 .. 9 /\ f3 \in Nat /\ f3 < u /\ f2 * 10 = u * c + f3
  <2> HIDE DEF f2
  <2>1. QED
    BY <1>2, DecimalRound
<1> DEFINE q == 100 * a + 10 * b + c
<1>4. f * 1000 = u * q + f3 /\ q \in Nat
  <2> HIDE DEF f1, f2, f3, a, b, c, u
  <2>1. q \in Nat
    BY <1>1, <1>2, <1>3
  <2>2. u * q = 100 * (u * a) + 10 * (u * b) + u * c
    BY <1>0, <1>1, <1>2, <1>3
  <2>3. u * a \in Nat /\ u * b \in Nat /\ u * c \in Nat
    BY <1>0, <1>1, <1>2, <1>3
  <2> HIDE DEF q
  <2>4. QED
    BY <1>1, <1>2, <1>3, <2>1, <2>2, <2>3
<1>5. (f * 1000) \div u = q
  <2> HIDE DEF f1, f2, f3, a, b, c, u, q
  <2>1. f * 1000 \in Nat
    OBVIOUS
  <2>2. QED
    BY <1>0, <1>3, <1>4, <2>1, OnlyQuotient
<1>6. QED
  BY <1>1, <1>2, <1>3, <1>5

LEMMA ThousandthsSay ==
  ASSUME NEW n \in Nat
  PROVE  Says(Thousandths(n), Decimals(n), 10, 3) /\ Decimals(n) \in Nat
<1> DEFINE f == n % Unit
           m == Decimals(n)
           text == Thousandths(n)
           f1 == (f * 10) % Unit
           f2 == (f1 * 10) % Unit
           a == (f * 10) \div Unit
           b == (f1 * 10) \div Unit
           c == (f2 * 10) \div Unit
<1>1. f \in Nat /\ f < Unit
  BY UnitAssumption, Euclid
<1>2. /\ text[1] = ZERO + a
      /\ text[2] = ZERO + b
      /\ text[3] = ZERO + c
  <2>1. Fraction(n)[0] = f /\ Fraction(n)[1] = f1 /\ Fraction(n)[2] = f2
    BY FractionEquations
  <2>2. \A i \in 1 .. 3 : text[i] = ZERO + ((Fraction(n)[i - 1] * 10) \div Unit)
    BY DEF Thousandths
  <2> HIDE DEF f, f1, f2, text
  <2>3. /\ text[1] = ZERO + ((Fraction(n)[1 - 1] * 10) \div Unit)
        /\ text[2] = ZERO + ((Fraction(n)[2 - 1] * 10) \div Unit)
        /\ text[3] = ZERO + ((Fraction(n)[3 - 1] * 10) \div Unit)
    BY <2>2
  <2>4. QED
    BY <2>1, <2>3
<1>3. /\ a \in 0 .. 9 /\ b \in 0 .. 9 /\ c \in 0 .. 9
      /\ m = 100 * a + 10 * b + c
  <2> HIDE DEF f
  <2>1. m = (f * 1000) \div Unit
    BY DEF f, Decimals
  <2>2. QED
    BY <1>1, <2>1, ThreeDecimals
<1> HIDE DEF a, b, c, m
<1>4. m \in Nat /\ 10 \in Bases
  BY <1>3 DEF Bases
<1> DEFINE left == Shifted(m, 10)
<1>5. left[0] = m /\ left[1] = m \div 10 /\ left[2] = (m \div 10) \div 10 /\ left[3] = ((m \div 10) \div 10) \div 10
  <2>1. left[0] = m /\ \A j \in Nat : left[j + 1] = left[j] \div 10
    BY <1>4, ShiftedEquations, Zenon
  <2> HIDE DEF left
  <2>2. left[0 + 1] = left[0] \div 10 /\ left[1 + 1] = left[1] \div 10 /\ left[2 + 1] = left[2] \div 10
    BY <2>1
  <2>3. QED
    BY <2>1, <2>2
<1> HIDE DEF left
<1>6. a = left[2] % 10 /\ b = left[1] % 10 /\ c = left[0] % 10 /\ left[3] = 0
  BY <1>3, <1>5
<1>7. \A d \in 0 .. 9 : ZERO + d = Code[d + 1] /\ ZERO + d \in 0 .. 255
  BY CodeDigits DEF ZERO
<1> HIDE DEF text, f, f1, f2
<1>8. /\ text[1] = Code[(left[2] % 10) + 1] /\ text[1] \in 0 .. 255
      /\ text[2] = Code[(left[1] % 10) + 1] /\ text[2] \in 0 .. 255
      /\ text[3] = Code[(left[0] % 10) + 1] /\ text[3] \in 0 .. 255
  <2>1. /\ ZERO + a = Code[a + 1] /\ ZERO + a \in 0 .. 255
        /\ ZERO + b = Code[b + 1] /\ ZERO + b \in 0 .. 255
        /\ ZERO + c = Code[c + 1] /\ ZERO + c \in 0 .. 255
    BY <1>3, <1>7
  <2>2. QED
    BY <1>2, <1>6, <2>1
<1>9. text \in Seq(0 .. 255) /\ Len(text) = 3
  <2>1. text = [i \in 1 .. 3 |-> text[i]]
    BY DEF Thousandths, text
  <2>2. \A i \in 1 .. 3 : text[i] \in 0 .. 255
    BY <1>8
  <2>3. QED
    BY <2>1, <2>2
<1>10. ASSUME NEW p \in 1 .. 3 PROVE text[p] = Code[(left[3 - p] % 10) + 1]
  <2>1. p = 1 \/ p = 2 \/ p = 3
    OBVIOUS
  <2>2. QED
    BY <1>8, <2>1
<1>11. Says(text, m, 10, 3)
  BY <1>6, <1>9, <1>10 DEF Says, left
<1>12. QED
  BY <1>4, <1>11 DEF text, m

-------------------------------------------------------------------------------
(* What console_printf() prints for a piece.                               *)
Printed(piece) ==
  CASE piece.conv = "literal" -> <<piece.arg>>
    [] piece.conv = "d" -> print_number[piece.arg]
    [] piece.conv = "u" -> print_number_u(piece.arg)
    [] piece.conv = "x" -> print_hex(piece.arg, piece.pad)
    [] piece.conv = "s" -> piece.arg
    [] piece.conv = "c" -> <<piece.arg>>
    [] piece.conv = "f" -> print_float(piece.arg, 3)

LEMMA FloatPrints ==
  ASSUME NEW val \in Int
  PROVE  /\ Size(val) \in Nat /\ Size(val) \div Unit \in Nat /\ Decimals(Size(val)) \in Nat
         /\ print_float(val, 3) \in Seq(0 .. 255)
         /\ print_float(val, 3) = Sign(val) \o Numeral(Size(val) \div Unit, 10, 1) \o <<DOT>>
                                  \o Numeral(Decimals(Size(val)), 10, 3)
<1> DEFINE n == Size(val)
<1>1. n \in Nat /\ n \div Unit \in Nat /\ Decimals(n) \in Nat /\ 10 \in Bases
  <2>1. n \in Nat /\ 10 \in Bases
    BY DEF Size, Bases
  <2> HIDE DEF n
  <2>2. QED
    BY <2>1, UnitAssumption, Euclid, ThousandthsSay
<1>2. print_float(val, 3) = Sign(val) \o print_number_u(n \div Unit) \o <<DOT>> \o Thousandths(n)
  BY DEF print_float, Thousandths, Size, Sign
<1> HIDE DEF n
<1>3. Says(print_number_u(n \div Unit), n \div Unit, 10, 1) /\ Says(Thousandths(n), Decimals(n), 10, 3)
  BY <1>1, UnsignedSays, ThousandthsSay
<1>4. print_number_u(n \div Unit) = Numeral(n \div Unit, 10, 1) /\ Thousandths(n) = Numeral(Decimals(n), 10, 3)
  BY <1>1, <1>3, SaysNumeral
<1>5. ASSUME NEW a \in Seq(0 .. 255), NEW b \in Seq(0 .. 255)
      PROVE  Sign(val) \o a \o <<DOT>> \o b \in Seq(0 .. 255)
  <2>1. Sign(val) \in Seq(0 .. 255) /\ <<DOT>> \in Seq(0 .. 255)
    <3>1. <<MINUS>> \in Seq(0 .. 255) /\ <<>> \in Seq(0 .. 255) /\ <<DOT>> \in Seq(0 .. 255)
      BY DEF MINUS, DOT
    <3>2. QED
      BY <3>1 DEF Sign
  <2>2. Sign(val) \o a \in Seq(0 .. 255)
    BY <2>1
  <2>3. QED
    BY <2>1, <2>2
<1>6. print_number_u(n \div Unit) \in Seq(0 .. 255) /\ Thousandths(n) \in Seq(0 .. 255)
  BY <1>3 DEF Says
<1>7. QED
  BY <1>1, <1>2, <1>4, <1>5, <1>6 DEF n

LEMMA SignedMeans ==
  ASSUME NEW n \in Int, n # IntMin
  PROVE  print_number[n] = Sign(n) \o Numeral(Size(n), 10, 1)
<1>1. CASE n < 0
  <2>1. -n \in Nat /\ Size(n) = -n /\ Sign(n) = <<MINUS>> /\ 10 \in Bases
    BY <1>1 DEF Size, Sign, Bases
  <2>2. print_number[n] = <<MINUS>> \o print_number[-n]
    BY <1>1, NumberOfNegative
  <2>3. Says(print_number[-n], -n, 10, 1)
    BY <2>1, NumberSays
  <2>4. print_number[-n] = Numeral(-n, 10, 1)
    BY <2>1, <2>3, SaysNumeral
  <2>5. QED
    BY <2>1, <2>2, <2>4
<1>2. CASE n >= 0
  <2>1. n \in Nat /\ Size(n) = n /\ Sign(n) = <<>> /\ 10 \in Bases
    BY <1>2 DEF Size, Sign, Bases
  <2>2. Says(print_number[n], n, 10, 1)
    BY <2>1, NumberSays
  <2>3. print_number[n] = Numeral(n, 10, 1) /\ print_number[n] \in Seq(0 .. 255)
    BY <2>1, <2>2, SaysNumeral, SignedEquations
  <2>4. <<>> \o print_number[n] = print_number[n]
    BY <2>3
  <2>5. QED
    BY <2>1, <2>3, <2>4
<1>3. QED
  BY <1>1, <1>2

LEMMA PieceCases ==
  ASSUME NEW piece, PieceOK(piece)
  PROVE  /\ piece.pad \in 0 .. 9
         /\ \/ piece.conv = "literal" /\ piece.arg \in 1 .. 255
            \/ piece.conv = "d" /\ piece.arg \in Int
            \/ piece.conv = "u" /\ piece.arg \in Nat
            \/ piece.conv = "x" /\ piece.arg \in Nat /\ piece.pad \in Nat
            \/ piece.conv = "s" /\ piece.arg \in Seq(1 .. 255)
            \/ piece.conv = "c" /\ piece.arg \in 0 .. 255
            \/ piece.conv = "f" /\ piece.arg \in Int
<1> DEFINE arg == piece.arg
           least == IntMin
           most == 2 ^ IntBits - 1
<1>1. /\ arg \in least .. -IntMin - 1 => arg \in Int
      /\ arg \in 0 .. most => arg \in Nat
  <2> HIDE DEF arg, least, most
  <2>1. QED
    OBVIOUS
<1>2. piece.pad \in 0 .. 9 => piece.pad \in Nat
  OBVIOUS
<1>3. QED
  BY <1>1, <1>2, Zenon DEF PieceOK

LEMMA PrintedType ==
  ASSUME NEW piece, PieceOK(piece)
  PROVE  Printed(piece) \in Seq(0 .. 255)
<1>1. CASE piece.conv = "literal" /\ piece.arg \in 1 .. 255
  BY <1>1 DEF Printed
<1>2. CASE piece.conv = "d" /\ piece.arg \in Int
  BY <1>2, SignedEquations DEF Printed
<1>3. CASE piece.conv = "u" /\ piece.arg \in Nat
  <2>1. print_number_u(piece.arg) \in Seq(0 .. 255)
    BY <1>3, UnsignedSays DEF Says
  <2>2. QED
    BY <1>3, <2>1 DEF Printed
<1>4. CASE piece.conv = "x" /\ piece.arg \in Nat /\ piece.pad \in Nat
  <2>1. print_hex(piece.arg, piece.pad) \in Seq(0 .. 255)
    BY <1>4, HexSays DEF Says
  <2>2. QED
    BY <1>4, <2>1 DEF Printed
<1>5. CASE piece.conv = "s" /\ piece.arg \in Seq(1 .. 255)
  <2>1. piece.arg \in Seq(0 .. 255)
    BY <1>5
  <2>2. QED
    BY <1>5, <2>1 DEF Printed
<1>6. CASE piece.conv = "c" /\ piece.arg \in 0 .. 255
  BY <1>6 DEF Printed
<1>7. CASE piece.conv = "f" /\ piece.arg \in Int
  BY <1>7, FloatPrints DEF Printed
<1>8. QED
  BY <1>1, <1>2, <1>3, <1>4, <1>5, <1>6, <1>7, PieceCases

(* It is what the piece means.                                             *)
LEMMA PrintedMeans ==
  ASSUME NEW piece, PieceOK(piece), piece.conv = "d" => piece.arg # IntMin
  PROVE  Printed(piece) = Meaning(piece)
<1>0. 10 \in Bases /\ 16 \in Bases
  BY DEF Bases
<1>1. CASE piece.conv = "literal"
  BY <1>1 DEF Printed, Meaning
<1>2. CASE piece.conv = "d" /\ piece.arg \in Int
  BY <1>2, SignedMeans DEF Printed, Meaning
<1>3. CASE piece.conv = "u" /\ piece.arg \in Nat
  <2>1. print_number_u(piece.arg) = Numeral(piece.arg, 10, 1)
    BY <1>0, <1>3, UnsignedSays, SaysNumeral
  <2>2. QED
    BY <1>3, <2>1 DEF Printed, Meaning
<1>4. CASE piece.conv = "x" /\ piece.arg \in Nat /\ piece.pad \in Nat
  <2> DEFINE w == IF piece.pad = 0 THEN 1 ELSE piece.pad
  <2>1. Says(print_hex(piece.arg, piece.pad), piece.arg, 16, w) /\ w \in Nat \ {0}
    BY <1>4, HexSays
  <2>2. print_hex(piece.arg, piece.pad) = Numeral(piece.arg, 16, w)
    <3> HIDE DEF w
    <3>1. QED
      BY <1>0, <1>4, <2>1, SaysNumeral
  <2>3. QED
    BY <1>4, <2>2 DEF Printed, Meaning
<1>5. CASE piece.conv = "s"
  BY <1>5 DEF Printed, Meaning
<1>6. CASE piece.conv = "c"
  BY <1>6 DEF Printed, Meaning
<1>7. CASE piece.conv = "f" /\ piece.arg \in Int
  BY <1>7, FloatPrints DEF Printed, Meaning
<1>8. QED
  BY <1>1, <1>2, <1>3, <1>4, <1>5, <1>6, <1>7, PieceCases, Zenon

-------------------------------------------------------------------------------
(* The format of a piece, and what one round makes of it.                  *)
Letter(conv) ==
  CASE conv = "d" -> LowerD [] conv = "u" -> LowerU [] conv = "x" -> UpperX
    [] conv = "s" -> LowerS [] conv = "c" -> LowerC [] conv = "f" -> LowerF

LEMMA ConversionCases ==
  ASSUME NEW pad, NEW arg
  PROVE  /\ Conversion(LowerD, pad, arg) = print_number[arg]
         /\ Conversion(LowerU, pad, arg) = print_number_u(arg)
         /\ Conversion(UpperX, pad, arg) = print_hex(arg, pad)
         /\ Conversion(LowerS, pad, arg) = arg
         /\ Conversion(LowerC, pad, arg) = <<arg>>
         /\ Conversion(LowerF, pad, arg) = print_float(arg, 3)
         /\ Conversion(PERCENT, pad, arg) = <<PERCENT>>
<1> USE DEF LowerD, LowerU, LowerX, UpperX, LowerS, LowerC, LowerF, PERCENT
<1>1. Conversion(LowerD, pad, arg) = print_number[arg]
  BY DEF Conversion
<1>2. Conversion(LowerU, pad, arg) = print_number_u(arg)
  BY DEF Conversion
<1>3. Conversion(UpperX, pad, arg) = print_hex(arg, pad)
  BY DEF Conversion
<1>4. Conversion(LowerS, pad, arg) = arg
  BY DEF Conversion
<1>5. Conversion(LowerC, pad, arg) = <<arg>>
  BY DEF Conversion
<1>6. Conversion(LowerF, pad, arg) = print_float(arg, 3)
  BY DEF Conversion
<1>7. Conversion(PERCENT, pad, arg) = <<PERCENT>>
  BY DEF Conversion
<1>8. QED
  BY <1>1, <1>2, <1>3, <1>4, <1>5, <1>6, <1>7

LEMMA ShortSequences ==
  ASSUME NEW S, NEW a \in S, NEW b \in S, NEW c \in S, NEW d \in S
  PROVE  /\ Len(<<a>> \o <<>> \o <<d>>) = 2
         /\ (<<a>> \o <<>> \o <<d>>)[1] = a /\ (<<a>> \o <<>> \o <<d>>)[2] = d
         /\ Len(<<a>> \o <<b, c>> \o <<d>>) = 4
         /\ (<<a>> \o <<b, c>> \o <<d>>)[1] = a /\ (<<a>> \o <<b, c>> \o <<d>>)[2] = b
         /\ (<<a>> \o <<b, c>> \o <<d>>)[3] = c /\ (<<a>> \o <<b, c>> \o <<d>>)[4] = d
<1>1. /\ <<a>> \o <<>> \in Seq(S) /\ Len(<<a>> \o <<>>) = 1
      /\ (<<a>> \o <<>>)[1] = a
  OBVIOUS
<1>2. /\ <<a>> \o <<b, c>> \in Seq(S) /\ Len(<<a>> \o <<b, c>>) = 3
      /\ (<<a>> \o <<b, c>>)[1] = a /\ (<<a>> \o <<b, c>>)[2] = b /\ (<<a>> \o <<b, c>>)[3] = c
  OBVIOUS
<1>3. <<d>> \in Seq(S) /\ Len(<<d>>) = 1 /\ <<d>>[1] = d
  OBVIOUS
<1>4. ASSUME NEW s \in Seq(S), NEW n \in Nat, Len(s) = n, NEW t \in Seq(S), Len(t) = 1, t[1] = d
      PROVE  /\ Len(s \o t) = n + 1 /\ (s \o t)[n + 1] = d
             /\ \A p \in 1 .. n : (s \o t)[p] = s[p]
  <2>1. /\ Len(s \o t) = Len(s) + Len(t)
        /\ \A p \in 1 .. Len(s) : (s \o t)[p] = s[p]
        /\ \A p \in 1 .. Len(t) : (s \o t)[Len(s) + p] = t[p]
    BY Concatenation
  <2>2. (s \o t)[Len(s) + 1] = t[1]
    BY <1>4, <2>1
  <2>3. QED
    BY <1>4, <2>1, <2>2
<1>5. /\ Len(<<a>> \o <<>> \o <<d>>) = 1 + 1 /\ (<<a>> \o <<>> \o <<d>>)[1 + 1] = d
      /\ \A p \in 1 .. 1 : (<<a>> \o <<>> \o <<d>>)[p] = (<<a>> \o <<>>)[p]
  BY <1>1, <1>3, <1>4
<1>6. /\ Len(<<a>> \o <<b, c>> \o <<d>>) = 3 + 1 /\ (<<a>> \o <<b, c>> \o <<d>>)[3 + 1] = d
      /\ \A p \in 1 .. 3 : (<<a>> \o <<b, c>> \o <<d>>)[p] = (<<a>> \o <<b, c>>)[p]
  BY <1>2, <1>3, <1>4, Zenon
<1>7. 1 \in Nat /\ 3 \in Nat /\ 1 + 1 = 2 /\ 3 + 1 = 4 /\ 1 \in 1 .. 1 /\ 1 \in 1 .. 3 /\ 2 \in 1 .. 3 /\ 3 \in 1 .. 3
  OBVIOUS
<1>8. QED
  BY <1>1, <1>2, <1>5, <1>6, <1>7, Zenon

LEMMA LetterConverts ==
  ASSUME NEW piece, PieceOK(piece), piece.conv # "literal"
  PROVE  /\ Letter(piece.conv) \in 58 .. 255 /\ Letter(piece.conv) \in TakesArgument
         /\ Conversion(Letter(piece.conv), piece.pad, piece.arg) = Printed(piece)
         /\ Spelling(piece) = <<PERCENT>> \o (IF piece.pad = 0 THEN <<>> ELSE <<ZERO, ZERO + piece.pad>>)
                              \o <<Letter(piece.conv)>>
<1> USE DEF LowerD, LowerU, LowerX, UpperX, LowerS, LowerC, LowerF
<1>1. Letter(piece.conv) \in 58 .. 255 /\ Letter(piece.conv) \in TakesArgument
  BY PieceCases DEF Letter, TakesArgument
<1>2. Conversion(Letter(piece.conv), piece.pad, piece.arg) = Printed(piece)
  <2>1. CASE piece.conv = "d"
    <3>1. Letter(piece.conv) = LowerD /\ Printed(piece) = print_number[piece.arg]
      BY <2>1 DEF Letter, Printed
    <3>2. QED
      BY <3>1, ConversionCases
  <2>2. CASE piece.conv = "u"
    <3>1. Letter(piece.conv) = LowerU /\ Printed(piece) = print_number_u(piece.arg)
      BY <2>2 DEF Letter, Printed
    <3>2. QED
      BY <3>1, ConversionCases
  <2>3. CASE piece.conv = "x"
    <3>1. Letter(piece.conv) = UpperX /\ Printed(piece) = print_hex(piece.arg, piece.pad)
      BY <2>3 DEF Letter, Printed
    <3>2. QED
      BY <3>1, ConversionCases
  <2>4. CASE piece.conv = "s"
    <3>1. Letter(piece.conv) = LowerS /\ Printed(piece) = piece.arg
      BY <2>4 DEF Letter, Printed
    <3>2. QED
      BY <3>1, ConversionCases
  <2>5. CASE piece.conv = "c"
    <3>1. Letter(piece.conv) = LowerC /\ Printed(piece) = <<piece.arg>>
      BY <2>5 DEF Letter, Printed
    <3>2. QED
      BY <3>1, ConversionCases
  <2>6. CASE piece.conv = "f"
    <3>1. Letter(piece.conv) = LowerF /\ Printed(piece) = print_float(piece.arg, 3)
      BY <2>6 DEF Letter, Printed
    <3>2. QED
      BY <3>1, ConversionCases
  <2>7. QED
    BY <2>1, <2>2, <2>3, <2>4, <2>5, <2>6, PieceCases
<1>3. [d |-> LowerD, u |-> LowerU, x |-> UpperX, s |-> LowerS, c |-> LowerC, f |-> LowerF][piece.conv]
      = Letter(piece.conv)
  BY PieceCases DEF Letter
<1>4. QED
  BY <1>1, <1>2, <1>3, Zenon DEF Spelling

(* format has the characters of s from its place a on.                     *)
Has(format, a, s) ==
  /\ a \in Nat \ {0} /\ Len(s) \in Nat \ {0}
  /\ Len(format) \in Nat /\ a + Len(s) <= Len(format) + 1
  /\ \A j \in 1 .. Len(s) : format[a + j - 1] = s[j]

After(piece, s) ==
  [at |-> s.at + Len(Spelling(piece)),
   arg |-> IF piece.conv = "literal" THEN s.arg ELSE s.arg + 1,
   text |-> s.text \o Printed(piece)]

LEMMA RoundPrints ==
  ASSUME NEW format, NEW args, NEW s, NEW piece, PieceOK(piece),
         s = [at |-> s.at, arg |-> s.arg, text |-> s.text],
         Has(format, s.at, Spelling(piece)),
         piece.conv # "literal" => args[s.arg] = piece.arg
  PROVE  Round(format, args, s) = After(piece, s)
<1> DEFINE a == s.at
           g == s.arg
           x == s.text
           char(i) == IF i <= Len(format) THEN format[i] ELSE NUL
           zero == char(a + 1) = ZERO
           digit == zero /\ char(a + 2) \in ZERO .. NINE
           letter == a + (IF digit THEN 3 ELSE IF zero THEN 2 ELSE 1)
           pad == IF digit THEN char(a + 2) - ZERO ELSE 0
           spelled == Spelling(piece)
<1>1. Round(format, args, s) =
        IF char(a) = NUL THEN s
        ELSE IF char(a) # PERCENT
        THEN [at |-> a + 1, arg |-> g, text |-> x \o <<char(a)>>]
        ELSE [at |-> letter + 1,
              arg |-> IF char(letter) \in TakesArgument THEN g + 1 ELSE g,
              text |-> x \o Conversion(char(letter), pad, args[g])]
  BY DEF Round
<1>2. a \in Nat
  BY DEF Has
<1>3. ASSUME NEW j \in 1 .. Len(spelled) PROVE char((a + j) - 1) = spelled[j]
  <2> DEFINE w == Spelling(piece)
  <2>1. /\ a \in Nat /\ Len(w) \in Nat /\ Len(format) \in Nat /\ a + Len(w) <= Len(format) + 1
        /\ format[a + j - 1] = w[j]
    BY <1>3 DEF Has
  <2>2. (a + j) - 1 <= Len(format) /\ (a + j) - 1 = a + j - 1
    BY <1>3, <2>1
  <2>3. QED
    BY <2>1, <2>2
<1> HIDE DEF a, g, x, char
<1> USE DEF NUL, PERCENT, ZERO, NINE
<1>4. CASE piece.conv = "literal" /\ piece.arg # PERCENT
  <2>1. spelled = <<piece.arg>> /\ piece.arg \in 1 .. 255 /\ Printed(piece) = <<piece.arg>>
    BY <1>4, PieceCases DEF Spelling, Printed
  <2>2. char((a + 1) - 1) = piece.arg /\ Len(spelled) = 1
    BY <1>3, <2>1
  <2>3. (a + 1) - 1 = a
    BY <1>2
  <2>4. char(a) = piece.arg /\ char(a) # NUL /\ char(a) # PERCENT
    BY <1>4, <2>1, <2>2, <2>3
  <2> HIDE DEF spelled, letter, pad
  <2>5. Round(format, args, s) = [at |-> a + 1, arg |-> g, text |-> x \o <<piece.arg>>]
    BY <1>1, <2>4, Zenon
  <2>6. QED
    BY <1>4, <2>1, <2>2, <2>5 DEF After, spelled, a, g, x
<1>5. CASE piece.conv = "literal" /\ piece.arg = PERCENT
  <2>1. spelled = <<PERCENT, PERCENT>> /\ Printed(piece) = <<PERCENT>>
    BY <1>5 DEF Spelling, Printed
  <2>2. char((a + 1) - 1) = PERCENT /\ char((a + 2) - 1) = PERCENT /\ Len(spelled) = 2
    BY <1>3, <2>1
  <2>3. (a + 1) - 1 = a /\ (a + 2) - 1 = a + 1
    BY <1>2
  <2>4. char(a) = PERCENT /\ char(a + 1) = PERCENT /\ PERCENT # NUL
    BY <2>2, <2>3
  <2>5. letter = a + 1 /\ pad = 0
    BY <2>4
  <2>6. Conversion(PERCENT, 0, args[g]) = <<PERCENT>> /\ PERCENT \notin TakesArgument
    BY ConversionCases DEF TakesArgument, LowerD, LowerU, LowerX, UpperX, LowerS, LowerC, LowerF
  <2> HIDE DEF spelled, letter, pad
  <2>7. Round(format, args, s) = [at |-> (a + 1) + 1, arg |-> g, text |-> x \o <<PERCENT>>]
    BY <1>1, <2>4, <2>5, <2>6, Zenon
  <2>8. (a + 1) + 1 = a + 2
    BY <1>2
  <2>9. QED
    BY <1>5, <2>1, <2>2, <2>7, <2>8 DEF After, spelled, a, g, x
<1>6. CASE piece.conv # "literal"
  <2> DEFINE L == Letter(piece.conv)
  <2>1. /\ L \in 58 .. 255 /\ L \in TakesArgument
        /\ Conversion(L, piece.pad, piece.arg) = Printed(piece)
        /\ piece.pad \in 0 .. 9
    BY <1>6, LetterConverts, PieceCases
  <2>2. spelled = <<PERCENT>> \o (IF piece.pad = 0 THEN <<>> ELSE <<ZERO, ZERO + piece.pad>>) \o <<L>>
    BY <1>6, LetterConverts
  <2>3. (a + 1) - 1 = a /\ (a + 2) - 1 = a + 1 /\ (a + 3) - 1 = a + 2 /\ (a + 4) - 1 = a + 3
    BY <1>2
  <2>4. /\ char(a) = PERCENT /\ pad = piece.pad /\ char(letter) = L
        /\ letter + 1 = a + Len(spelled)
    <3>1. CASE piece.pad = 0
      <4>1. Len(spelled) = 2 /\ spelled[1] = PERCENT /\ spelled[2] = L
        <5>1. PERCENT \in 0 .. 255 /\ L \in 0 .. 255
          BY <2>1
        <5> HIDE DEF spelled, L
        <5>2. QED
          BY <2>2, <3>1, <5>1, ShortSequences
      <4>2. char(a) = PERCENT /\ char(a + 1) = L /\ Len(spelled) = 2
        <5>1. char((a + 1) - 1) = PERCENT /\ char((a + 2) - 1) = L
          BY <1>3, <4>1
        <5>2. QED
          BY <2>3, <4>1, <5>1
      <4>3. letter = a + 1 /\ pad = 0
        BY <2>1, <4>2
      <4>4. QED
        BY <1>2, <3>1, <4>2, <4>3
    <3>2. CASE piece.pad # 0
      <4> DEFINE P == ZERO + piece.pad
      <4>1. /\ Len(spelled) = 4 /\ spelled[1] = PERCENT /\ spelled[2] = ZERO
            /\ spelled[3] = P /\ spelled[4] = L
        <5>1. PERCENT \in 0 .. 255 /\ L \in 0 .. 255 /\ ZERO \in 0 .. 255 /\ P \in 0 .. 255
          BY <2>1
        <5>2. spelled = <<PERCENT>> \o <<ZERO, P>> \o <<L>>
          BY <2>2, <3>2
        <5> HIDE DEF spelled, L, P
        <5>3. QED
          BY <5>1, <5>2, ShortSequences
      <4>2. /\ char(a) = PERCENT /\ char(a + 1) = ZERO /\ char(a + 2) = P /\ char(a + 3) = L
            /\ Len(spelled) = 4
        <5>1. /\ char((a + 1) - 1) = PERCENT /\ char((a + 2) - 1) = ZERO
              /\ char((a + 3) - 1) = P /\ char((a + 4) - 1) = L
          BY <1>3, <4>1
        <5>2. QED
          BY <2>3, <4>1, <5>1
      <4>3. P \in ZERO .. NINE /\ P - ZERO = piece.pad
        BY <2>1
      <4> HIDE DEF P
      <4>4. letter = a + 3 /\ pad = piece.pad
        BY <4>2, <4>3
      <4>5. QED
        BY <1>2, <4>2, <4>4
    <3>3. QED
      BY <3>1, <3>2
  <2> HIDE DEF spelled, letter, pad, L
  <2>5. Round(format, args, s) =
          [at |-> letter + 1, arg |-> g + 1, text |-> x \o Conversion(L, piece.pad, args[g])]
    BY <1>1, <2>1, <2>4
  <2>6. QED
    BY <1>6, <2>1, <2>4, <2>5 DEF After, spelled, a, g, x
<1>7. QED
  BY <1>4, <1>5, <1>6

-------------------------------------------------------------------------------
(* Each part is found in what was joined, after the parts before it.       *)
LEMMA JoinsGrow ==
  ASSUME NEW X, NEW s, NEW f, Joins(X, s, f), NEW m \in 0 .. Len(s)
  PROVE  \A n \in m .. Len(s) : /\ Len(f[n]) >= Len(f[m])
                                /\ \A i \in 1 .. Len(f[m]) : f[n][i] = f[m][i]
<1>1. /\ s \in Seq(Seq(X)) /\ f \in [Nat -> Seq(X)] /\ f[0] = <<>>
      /\ \A i \in 1 .. Len(s) : f[i] = f[i - 1] \o s[i]
  BY Zenon DEF Joins
<1>2. Len(s) \in Nat /\ m \in Nat
  BY <1>1
<1>3. \A i \in 1 .. Len(s) : s[i] \in Seq(X)
  BY <1>1
<1> DEFINE Grown(n) == /\ Len(f[n]) >= Len(f[m])
                       /\ \A i \in 1 .. Len(f[m]) : f[n][i] = f[m][i]
           Done == {n \in Nat : n \in m .. Len(s) => Grown(n)}
<1>4. \A n \in Nat : f[n] \in Seq(X) /\ Len(f[n]) \in Nat
  BY <1>1
<1>5. Grown(m)
  BY <1>2, <1>4
<1>6. 0 \in Done
  <2>1. 0 \in m .. Len(s) => m = 0
    BY <1>2
  <2> HIDE DEF Grown
  <2>2. QED
    BY <1>5, <2>1
<1>7. ASSUME NEW n \in Nat, n \in Done PROVE n + 1 \in Done
  <2>1. SUFFICES ASSUME n + 1 \in m .. Len(s) PROVE Grown(n + 1)
    OBVIOUS
  <2>2. CASE n + 1 = m
    BY <1>5, <2>2
  <2>3. CASE n + 1 # m
    <3>1. n \in m .. Len(s) /\ n + 1 \in 1 .. Len(s) /\ (n + 1) - 1 = n
      BY <1>2, <2>1, <2>3
    <3>2. Grown(n)
      BY <1>7, <3>1
    <3>3. f[n + 1] = f[n] \o s[n + 1] /\ s[n + 1] \in Seq(X) /\ f[n] \in Seq(X)
      BY <1>1, <1>3, <1>4, <3>1
    <3>4. /\ Len(f[n + 1]) = Len(f[n]) + Len(s[n + 1]) /\ Len(s[n + 1]) \in Nat
          /\ \A p \in 1 .. Len(f[n]) : f[n + 1][p] = f[n][p]
      <4> DEFINE r == f[n + 1]
                 u == f[n]
                 v == s[n + 1]
      <4>1. r = u \o v /\ u \in Seq(X) /\ v \in Seq(X)
        BY <3>3
      <4> HIDE DEF r, u, v
      <4>2. Len(r) = Len(u) + Len(v) /\ Len(v) \in Nat /\ \A p \in 1 .. Len(u) : r[p] = u[p]
        BY <4>1, Concatenates
      <4>3. QED
        BY <4>2 DEF r, u, v
    <3>5. Len(f[n]) \in Nat /\ Len(f[m]) \in Nat /\ Len(f[n]) >= Len(f[m])
      BY <1>2, <1>4, <3>2
    <3>6. Len(f[n + 1]) >= Len(f[m])
      <4>1. Len(f[n + 1]) = Len(f[n]) + Len(s[n + 1]) /\ Len(s[n + 1]) \in Nat
        BY <3>4
      <4> DEFINE new == Len(f[n + 1])
                 old == Len(f[n])
                 before == Len(f[m])
                 part == Len(s[n + 1])
      <4>2. new = old + part /\ part \in Nat /\ old \in Nat /\ before \in Nat /\ old >= before
        BY <3>5, <4>1
      <4> HIDE DEF new, old, before, part
      <4>3. new >= before
        BY <4>2
      <4>4. QED
        BY <4>3 DEF new, before
    <3>7. ASSUME NEW i \in 1 .. Len(f[m]) PROVE f[n + 1][i] = f[m][i]
      <4>1. i \in 1 .. Len(f[n])
        BY <3>5
      <4>2. f[n + 1][i] = f[n][i] /\ f[n][i] = f[m][i]
        BY <3>2, <3>4, <4>1
      <4>3. QED
        BY <4>2
    <3>8. QED
      BY <3>6, <3>7
  <2>4. QED
    BY <2>2, <2>3
<1> HIDE DEF Done
<1>8. \A n \in Nat : n \in Done
  BY <1>6, <1>7, Induction
<1>9. \A n \in m .. Len(s) : n \in Nat
  BY <1>2
<1>10. QED
  BY <1>8, <1>9 DEF Done

Placed(s, f, N, m) ==
  /\ Len(f[m - 1]) \in Nat /\ Len(f[m]) \in Nat
  /\ Len(f[N]) \in Nat /\ Len(s[m]) \in Nat
  /\ f[m] = f[m - 1] \o s[m]
  /\ Len(f[m]) = Len(f[m - 1]) + Len(s[m]) /\ Len(f[m]) <= Len(f[N])
  /\ \A j \in 1 .. Len(s[m]) : f[N][Len(f[m - 1]) + j] = s[m][j]

LEMMA JoinsPlaces ==
  ASSUME NEW X, NEW s, NEW f, NEW N, Joins(X, s, f), N = Len(s)
  PROVE  \A m \in 1 .. N : Placed(s, f, N, m)
<1> SUFFICES ASSUME NEW m \in 1 .. N PROVE Placed(s, f, N, m)
  OBVIOUS
<1>1. s \in Seq(Seq(X))
  BY Zenon DEF Joins
<1>2. \A i \in 1 .. N : f[i] = f[i - 1] \o s[i]
  BY Zenon DEF Joins
<1>3. \A i \in Nat : f[i] \in Seq(X)
  <2>1. f \in [Nat -> Seq(X)]
    BY Zenon DEF Joins
  <2>2. QED
    BY <2>1
<1>4. N \in Nat
  BY <1>1
<1>5. m \in Nat /\ m - 1 \in Nat /\ m \in 0 .. N /\ N \in m .. N
  BY <1>4
<1>6. s[m] \in Seq(X)
  BY <1>1
<1>7. f[m - 1] \in Seq(X) /\ f[m] \in Seq(X) /\ f[N] \in Seq(X) /\ f[m] = f[m - 1] \o s[m]
  BY <1>2, <1>3, <1>4, <1>5
<1>8. /\ Len(f[m]) = Len(f[m - 1]) + Len(s[m]) /\ Len(s[m]) \in Nat
      /\ Len(f[m - 1]) \in Nat /\ Len(f[m]) \in Nat
      /\ \A j \in 1 .. Len(s[m]) : f[m][Len(f[m - 1]) + j] = s[m][j]
  <2> DEFINE r == f[m]
             u == f[m - 1]
             v == s[m]
  <2>1. r = u \o v /\ u \in Seq(X) /\ v \in Seq(X)
    BY <1>6, <1>7
  <2> HIDE DEF r, u, v
  <2>2. /\ Len(r) = Len(u) + Len(v) /\ Len(v) \in Nat /\ Len(u) \in Nat /\ Len(r) \in Nat
        /\ \A j \in 1 .. Len(v) : r[Len(u) + j] = v[j]
    BY <2>1, Concatenates
  <2>3. QED
    BY <2>2 DEF r, u, v
<1>9. /\ Len(f[N]) >= Len(f[m])
      /\ \A i \in 1 .. Len(f[m]) : f[N][i] = f[m][i]
  BY <1>5, JoinsGrow
<1>10. Len(f[N]) \in Nat /\ Len(f[m]) <= Len(f[N])
  <2>1. Len(f[N]) \in Nat /\ Len(f[m]) \in Nat
    <3>1. \A r \in Seq(X) : Len(r) \in Nat
      OBVIOUS
    <3>2. f[N] \in Seq(X) /\ f[m] \in Seq(X)
      BY <1>7, Zenon
    <3>3. QED
      BY <3>1, <3>2, Zenon
  <2>2. Len(f[N]) >= Len(f[m])
    BY <1>9, Zenon
  <2>3. QED
    BY <2>1, <2>2
<1>11. ASSUME NEW j \in 1 .. Len(s[m]) PROVE f[N][Len(f[m - 1]) + j] = s[m][j]
  <2>1. Len(f[m - 1]) + j \in 1 .. Len(f[m])
    <3>1. Len(f[m]) = Len(f[m - 1]) + Len(s[m]) /\ Len(s[m]) \in Nat /\ Len(f[m - 1]) \in Nat
      BY <1>8
    <3> DEFINE new == Len(f[m])
               old == Len(f[m - 1])
               part == Len(s[m])
    <3> HIDE DEF new, old, part
    <3>2. new = old + part /\ part \in Nat /\ old \in Nat /\ j \in 1 .. part
      BY <3>1 DEF new, old, part
    <3>3. old + j \in 1 .. new
      BY <3>2
    <3>4. QED
      BY <3>3 DEF new, old
  <2>2. f[m][Len(f[m - 1]) + j] = s[m][j]
    BY <1>8
  <2>3. QED
    BY <1>9, <2>1, <2>2
<1>12. QED
  BY <1>7, <1>8, <1>9, <1>10, <1>11, Zenon DEF Placed

LEMMA SpellingType ==
  ASSUME NEW piece, PieceOK(piece)
  PROVE  Spelling(piece) \in Seq(1 .. 255) /\ Len(Spelling(piece)) >= 1
<1>1. CASE piece.conv = "literal"
  <2>1. piece.arg \in 1 .. 255
    BY <1>1, PieceCases
  <2>2. CASE piece.arg = PERCENT
    <3>1. Spelling(piece) = <<PERCENT, PERCENT>>
      BY <1>1, <2>2 DEF Spelling
    <3>2. QED
      BY <3>1 DEF PERCENT
  <2>3. CASE piece.arg # PERCENT
    <3>1. Spelling(piece) = <<piece.arg>>
      BY <1>1, <2>3 DEF Spelling
    <3>2. QED
      BY <2>1, <3>1
  <2>4. QED
    BY <2>2, <2>3
<1>2. CASE piece.conv # "literal"
  <2> DEFINE L == Letter(piece.conv)
             padded == IF piece.pad = 0 THEN <<>> ELSE <<ZERO, ZERO + piece.pad>>
  <2>1. L \in 58 .. 255 /\ piece.pad \in 0 .. 9 /\ Spelling(piece) = <<PERCENT>> \o padded \o <<L>>
    BY <1>2, LetterConverts, PieceCases
  <2>2. <<PERCENT>> \in Seq(1 .. 255) /\ Len(<<PERCENT>>) = 1
    BY DEF PERCENT
  <2> HIDE DEF L
  <2>3. <<L>> \in Seq(1 .. 255) /\ Len(<<L>>) = 1
    BY <2>1
  <2>4. padded \in Seq(1 .. 255)
    <3>1. <<>> \in Seq(1 .. 255)
      OBVIOUS
    <3>2. <<ZERO, ZERO + piece.pad>> \in Seq(1 .. 255)
      <4>1. piece.pad \in 0 .. 9
        BY PieceCases, Zenon
      <4>2. ZERO \in 1 .. 255 /\ ZERO + piece.pad \in 1 .. 255
        BY <4>1 DEF ZERO
      <4>3. QED
        BY <4>2
    <3>3. QED
      BY <3>1, <3>2
  <2> HIDE DEF padded
  <2>5. /\ <<PERCENT>> \o padded \in Seq(1 .. 255) /\ Len(<<PERCENT>> \o padded) = 1 + Len(padded)
        /\ Len(padded) \in Nat
    BY <2>2, <2>4
  <2> DEFINE head == <<PERCENT>> \o padded
  <2> HIDE DEF head
  <2>6. head \o <<L>> \in Seq(1 .. 255) /\ Len(head \o <<L>>) = Len(head) + 1
    BY <2>3, <2>5, Concatenation DEF head
  <2>7. QED
    BY <2>1, <2>5, <2>6 DEF head
<1>3. QED
  BY <1>1, <1>2

(* The loop of console_printf(): after m rounds m pieces are printed.      *)
LEMMA PrintfPrints ==
  ASSUME NEW call, WellTyped(call), call.op = "printf"
  PROVE  /\ [i \in 1 .. Len(call.pieces) |-> Printed(call.pieces[i])] \in Seq(Seq(0 .. 255))
         /\ Text(call) = FlattenSeq([i \in 1 .. Len(call.pieces) |-> Printed(call.pieces[i])])
<1> DEFINE M == Len(call.pieces)
           piece(i) == call.pieces[i]
           I == 1 .. M
           spelled == [i \in I |-> Spelling(piece(i))]
           given == [i \in I |-> Argument(piece(i))]
           printed == [i \in I |-> Printed(piece(i))]
           Args == {piece(i).arg : i \in I}
           format == FlattenSeq(spelled)
           args == FlattenSeq(given)
<1>1. M \in Nat /\ \A i \in I : PieceOK(piece(i))
  BY DEF WellTyped
<1>2. Text(call) = console_printf(format, args)
  BY DEF Text
<1> HIDE DEF M, piece
<1>3. spelled \in Seq(Seq(1 .. 255)) /\ Len(spelled) = M
  <2>1. spelled \in [1 .. M -> Seq(1 .. 255)]
    BY <1>1, SpellingType
  <2> HIDE DEF spelled
  <2>2. QED
    BY <1>1, <2>1
<1>4. given \in Seq(Seq(Args)) /\ Len(given) = M
  <2>1. ASSUME NEW i \in I PROVE Argument(piece(i)) \in Seq(Args)
    <3>1. <<>> \in Seq(Args) /\ piece(i).arg \in Args
      OBVIOUS
    <3> HIDE DEF Args
    <3>2. <<piece(i).arg>> \in Seq(Args)
      BY <3>1
    <3>3. QED
      BY <3>1, <3>2 DEF Argument
  <2>2. given \in [1 .. M -> Seq(Args)]
    BY <2>1
  <2> HIDE DEF given, Args
  <2>3. QED
    BY <1>1, <2>2
<1>5. printed \in Seq(Seq(0 .. 255)) /\ Len(printed) = M
  <2>1. printed \in [1 .. M -> Seq(0 .. 255)]
    BY <1>1, PrintedType
  <2> HIDE DEF printed
  <2>2. QED
    BY <1>1, <2>1
<1>6. \A i \in I : /\ spelled[i] = Spelling(piece(i)) /\ given[i] = Argument(piece(i))
                   /\ printed[i] = Printed(piece(i))
  OBVIOUS
<1> HIDE DEF spelled, given, printed, Args
<1>7. PICK F : Joins(1 .. 255, spelled, F) /\ format = F[M]
  BY <1>3, FlattenEquations
<1>8. PICK A : Joins(Args, given, A) /\ args = A[M]
  BY <1>4, FlattenEquations
<1>9. PICK T : Joins(0 .. 255, printed, T) /\ FlattenSeq(printed) = T[M]
  BY <1>5, FlattenEquations
<1> HIDE DEF format, args
<1> DEFINE state(m) == [at |-> 1 + Len(F[m]), arg |-> 1 + Len(A[m]), text |-> T[m]]
           first == [at |-> 1, arg |-> 1, text |-> <<>>]
<1>10. state(0) = first
  <2>1. F[0] = <<>> /\ A[0] = <<>> /\ T[0] = <<>>
    BY <1>7, <1>8, <1>9, Zenon DEF Joins
  <2>2. Len(<<>>) = 0
    OBVIOUS
  <2>3. QED
    BY <2>1, <2>2
<1>11. ASSUME NEW m \in I PROVE Round(format, args, state(m - 1)) = state(m)
  <2>1. m \in 1 .. M /\ M = Len(spelled) /\ M = Len(given) /\ M = Len(printed)
    BY <1>3, <1>4, <1>5
  <2>2. PieceOK(piece(m))
    BY <1>1
  <2> DEFINE word == Spelling(piece(m))
  <2>3. /\ Len(F[m - 1]) \in Nat /\ Len(F[m]) \in Nat /\ Len(F[M]) \in Nat /\ Len(word) \in Nat
        /\ Len(F[m]) = Len(F[m - 1]) + Len(word) /\ Len(F[m]) <= Len(F[M])
        /\ \A j \in 1 .. Len(word) : F[M][Len(F[m - 1]) + j] = word[j]
    <3>1. \A i \in 1 .. M : Placed(spelled, F, M, i)
      BY <1>7, <2>1, JoinsPlaces
    <3>2. spelled[m] = word
      BY <1>6
    <3> HIDE DEF word
    <3>3. QED
      BY <3>1, <3>2, Zenon DEF Placed
  <2>4. Len(word) >= 1
    BY <2>2, SpellingType
  <2>5. Has(format, 1 + Len(F[m - 1]), word)
    <3> DEFINE a == 1 + Len(F[m - 1])
    <3>1. ASSUME NEW j \in 1 .. Len(word) PROVE format[a + j - 1] = word[j]
      <4>1. a + j - 1 = Len(F[m - 1]) + j
        BY <2>3, <3>1
      <4>2. QED
        BY <1>7, <2>3, <4>1
    <3>2. /\ a \in Nat \ {0} /\ Len(word) \in Nat \ {0} /\ Len(format) \in Nat
          /\ a + Len(word) <= Len(format) + 1
      BY <1>7, <2>3, <2>4
    <3> HIDE DEF a, word
    <3>3. Has(format, a, word)
      BY <3>1, <3>2 DEF Has
    <3>4. QED
      BY <3>3 DEF a
  <2>6. /\ Len(A[m - 1]) \in Nat /\ Len(A[m]) = Len(A[m - 1]) + Len(given[m])
        /\ \A j \in 1 .. Len(given[m]) : A[M][Len(A[m - 1]) + j] = given[m][j]
    <3>1. \A i \in 1 .. M : Placed(given, A, M, i)
      BY <1>8, <2>1, JoinsPlaces
    <3>2. QED
      BY <3>1, Zenon DEF Placed
  <2>7. CASE piece(m).conv # "literal"
    <3>1. given[m] = <<piece(m).arg>>
      BY <1>6, <2>7 DEF Argument
    <3>2. Len(given[m]) = 1 /\ given[m][1] = piece(m).arg
      BY <3>1
    <3>3. args[1 + Len(A[m - 1])] = piece(m).arg /\ Len(A[m]) = Len(A[m - 1]) + 1
      <4>1. A[M][Len(A[m - 1]) + 1] = given[m][1]
        BY <2>6, <3>2
      <4>2. Len(A[m - 1]) + 1 = 1 + Len(A[m - 1])
        BY <2>6
      <4>3. QED
        BY <1>8, <2>6, <3>2, <4>1, <4>2
    <3>4. Round(format, args, state(m - 1)) =
            [at |-> (1 + Len(F[m - 1])) + Len(word), arg |-> (1 + Len(A[m - 1])) + 1,
             text |-> T[m - 1] \o Printed(piece(m))]
      <4> DEFINE was == state(m - 1)
                 p == piece(m)
      <4>1. /\ was = [at |-> was.at, arg |-> was.arg, text |-> was.text]
            /\ was.at = 1 + Len(F[m - 1]) /\ was.arg = 1 + Len(A[m - 1]) /\ was.text = T[m - 1]
        OBVIOUS
      <4> HIDE DEF was, state
      <4>2. Has(format, was.at, Spelling(p))
        BY <2>5, <4>1
      <4>3. PieceOK(p) /\ (p.conv # "literal" => args[was.arg] = p.arg)
        BY <2>2, <3>3, <4>1
      <4> HIDE DEF p
      <4>4. Round(format, args, was) = After(p, was)
        BY <4>1, <4>2, <4>3, RoundPrints
      <4>5. QED
        BY <2>7, <4>1, <4>4 DEF After, was, p
    <3>5. T[m] = T[m - 1] \o Printed(piece(m))
      BY <1>6, <1>9, <2>1 DEF Joins
    <3>6. (1 + Len(F[m - 1])) + Len(word) = 1 + Len(F[m]) /\ (1 + Len(A[m - 1])) + 1 = 1 + Len(A[m])
      <4>1. Len(F[m - 1]) \in Nat /\ Len(A[m - 1]) \in Nat /\ Len(word) \in Nat
            /\ Len(F[m]) = Len(F[m - 1]) + Len(word) /\ Len(A[m]) = Len(A[m - 1]) + 1
        BY <2>3, <2>6, <3>3, Zenon
      <4> HIDE DEF word
      <4>2. QED
        BY <4>1
    <3>7. QED
      BY <3>4, <3>5, <3>6
  <2>8. CASE piece(m).conv = "literal"
    <3>1. given[m] = <<>>
      BY <1>6, <2>8 DEF Argument
    <3>2. Len(A[m]) = Len(A[m - 1])
      <4>1. Len(<<>>) = 0
        OBVIOUS
      <4>2. QED
        BY <2>6, <3>1, <4>1
    <3>3. Round(format, args, state(m - 1)) =
            [at |-> (1 + Len(F[m - 1])) + Len(word), arg |-> 1 + Len(A[m - 1]),
             text |-> T[m - 1] \o Printed(piece(m))]
      <4> DEFINE was == state(m - 1)
                 p == piece(m)
      <4>1. /\ was = [at |-> was.at, arg |-> was.arg, text |-> was.text]
            /\ was.at = 1 + Len(F[m - 1]) /\ was.arg = 1 + Len(A[m - 1]) /\ was.text = T[m - 1]
        OBVIOUS
      <4> HIDE DEF was, state
      <4>2. Has(format, was.at, Spelling(p))
        BY <2>5, <4>1
      <4>3. PieceOK(p) /\ (p.conv # "literal" => args[was.arg] = p.arg)
        BY <2>2, <2>8, <4>1
      <4> HIDE DEF p
      <4>4. Round(format, args, was) = After(p, was)
        BY <4>1, <4>2, <4>3, RoundPrints
      <4>5. QED
        BY <2>8, <4>1, <4>4 DEF After, was, p
    <3>4. T[m] = T[m - 1] \o Printed(piece(m))
      BY <1>6, <1>9, <2>1 DEF Joins
    <3>5. (1 + Len(F[m - 1])) + Len(word) = 1 + Len(F[m])
      BY <2>3
    <3>6. QED
      BY <3>2, <3>3, <3>4, <3>5
  <2>9. QED
    BY <2>7, <2>8
<1>12. Round(format, args, state(M)) = state(M)
  <2>1. Len(format) \in Nat
    BY <1>1, <1>7 DEF Joins
  <2>2. ~(state(M).at <= Len(format)) /\ state(M).at = 1 + Len(format)
    BY <1>7, <2>1
  <2> HIDE DEF state
  <2>3. QED
    BY <2>2, Zenon DEF Round
<1>13. Len(format) \in Nat /\ Len(format) >= M
  <2> DEFINE Done == {m \in Nat : m <= M => Len(F[m]) >= m /\ Len(F[m]) \in Nat}
  <2>1. 0 \in Done
    <3>1. F[0] = <<>>
      BY <1>7, Zenon DEF Joins
    <3>2. Len(<<>>) = 0
      OBVIOUS
    <3>3. QED
      BY <3>1, <3>2
  <2>2. ASSUME NEW m \in Nat, m \in Done PROVE m + 1 \in Done
    <3>1. SUFFICES ASSUME m + 1 <= M PROVE Len(F[m + 1]) >= m + 1 /\ Len(F[m + 1]) \in Nat
      OBVIOUS
    <3>2. m + 1 \in I /\ m + 1 \in 1 .. M /\ M = Len(spelled) /\ (m + 1) - 1 = m /\ Len(F[m]) >= m
      BY <1>1, <1>3, <2>2, <3>1
    <3>3. Len(spelled[m + 1]) >= 1
      BY <1>1, <1>6, <3>2, SpellingType
    <3>4. /\ Len(F[(m + 1) - 1]) \in Nat /\ Len(F[m + 1]) \in Nat /\ Len(spelled[m + 1]) \in Nat
          /\ Len(F[m + 1]) = Len(F[(m + 1) - 1]) + Len(spelled[m + 1])
      <4>1. \A i \in 1 .. M : Placed(spelled, F, M, i)
        BY <1>7, <3>2, JoinsPlaces
      <4>2. QED
        BY <3>2, <4>1, Zenon DEF Placed
    <3>5. Len(F[m]) \in Nat /\ Len(F[m + 1]) = Len(F[m]) + Len(spelled[m + 1])
      BY <3>2, <3>4
    <3> DEFINE new == Len(F[m + 1])
               old == Len(F[m])
               part == Len(spelled[m + 1])
    <3>6. new = old + part /\ part \in Nat /\ old \in Nat /\ old >= m /\ part >= 1 /\ new \in Nat
      BY <3>2, <3>3, <3>4, <3>5
    <3> HIDE DEF new, old, part
    <3>7. new >= m + 1 /\ new \in Nat
      BY <3>6
    <3>8. QED
      BY <3>7, Zenon DEF new
  <2> HIDE DEF Done
  <2>3. \A m \in Nat : m \in Done
    BY <2>1, <2>2, Induction
  <2>4. QED
    BY <1>1, <1>7, <2>3 DEF Done
<1> DEFINE upto(n) == IF n <= M THEN n ELSE M
           g == [n \in Nat |-> state(upto(n))]
           Body(h, n) == IF n = 0 THEN first ELSE Round(format, args, h[n - 1])
           after == CHOOSE h : h = [n \in Nat |-> Body(h, n)]
<1> HIDE DEF state, first
<1>14. ASSUME NEW n \in Nat PROVE g[n] = Body(g, n)
  <2>1. CASE n = 0
    BY <1>1, <1>10, <2>1
  <2>2. CASE n \in I
    <3>1. n - 1 \in Nat /\ upto(n) = n /\ upto(n - 1) = n - 1 /\ n # 0
      BY <1>1, <2>2
    <3>2. Round(format, args, state(n - 1)) = state(n)
      BY <1>11, <2>2
    <3>3. QED
      BY <3>1, <3>2
  <2>3. CASE n > M
    <3>1. n - 1 \in Nat /\ upto(n) = M /\ upto(n - 1) = M /\ n # 0
      BY <1>1, <2>3
    <3>2. QED
      BY <1>12, <3>1
  <2>4. QED
    BY <1>1, <2>1, <2>2, <2>3
<1>15. g = [n \in Nat |-> Body(g, n)]
  BY <1>14
<1>16. after = [n \in Nat |-> Body(after, n)]
  BY <1>15, Zenon
<1>17. Rounds(format, args) = after
  BY Zenon DEF Rounds, first
<1> HIDE DEF after, g
<1> DEFINE Done == {n \in Nat : after[n] = g[n]}
<1>18. 0 \in Done
  BY <1>14, <1>16
<1>19. ASSUME NEW n \in Nat, n \in Done PROVE n + 1 \in Done
  <2>1. n + 1 \in Nat /\ n + 1 # 0 /\ (n + 1) - 1 = n
    OBVIOUS
  <2>2. g[n + 1] = Round(format, args, g[n])
    BY <1>14, <2>1
  <2>3. after[n + 1] = Round(format, args, after[n])
    BY <1>16, <2>1
  <2>4. QED
    BY <1>19, <2>1, <2>2, <2>3
<1> HIDE DEF Done
<1>20. \A n \in Nat : n \in Done
  BY <1>18, <1>19, Induction
<1>21. after[Len(format)] = state(M)
  <2>1. after[Len(format)] = g[Len(format)]
    BY <1>13, <1>20 DEF Done
  <2>2. upto(Len(format)) = M
    BY <1>1, <1>13
  <2>3. QED
    BY <1>13, <2>1, <2>2 DEF g
<1>22. console_printf(format, args) = T[M]
  BY <1>17, <1>21 DEF console_printf, state
<1>23. QED
  BY <1>2, <1>5, <1>9, <1>22 DEF printed, M, piece, format, args, spelled, given

-------------------------------------------------------------------------------
(* text holds the part t after its first a elements.                       *)
Holds(text, a, t) ==
  /\ a \in Nat /\ Len(t) \in Nat /\ Len(text) \in Nat /\ a + Len(t) <= Len(text)
  /\ \A j \in 1 .. Len(t) : text[a + j] = t[j]

LEMMA HoldsParts ==
  ASSUME NEW S, NEW s, NEW t, NEW r, s \in Seq(S), t \in Seq(S), r = s \o t
  PROVE  /\ Holds(r, Len(s), t)
         /\ \A a, u : Holds(s, a, u) => Holds(r, a, u)
<1>1. /\ r \in Seq(S) /\ Len(r) = Len(s) + Len(t)
      /\ Len(s) \in Nat /\ Len(t) \in Nat /\ Len(r) \in Nat
      /\ \A p \in 1 .. Len(s) : r[p] = s[p]
      /\ \A p \in 1 .. Len(t) : r[Len(s) + p] = t[p]
  BY Concatenates
<1>2. Holds(r, Len(s), t)
  BY <1>1 DEF Holds
<1>3. ASSUME NEW a, NEW u, Holds(s, a, u) PROVE Holds(r, a, u)
  <2>1. /\ a \in Nat /\ Len(u) \in Nat /\ a + Len(u) <= Len(s)
        /\ \A j \in 1 .. Len(u) : s[a + j] = u[j]
    BY <1>3 DEF Holds
  <2>2. a + Len(u) <= Len(r)
    BY <1>1, <2>1
  <2>3. ASSUME NEW j \in 1 .. Len(u) PROVE r[a + j] = u[j]
    <3>1. a + j \in 1 .. Len(s)
      BY <1>1, <2>1
    <3>2. QED
      BY <1>1, <2>1, <3>1
  <2>4. QED
    BY <1>1, <2>1, <2>2, <2>3 DEF Holds
<1>4. QED
  BY <1>2, <1>3

LEMMA HoldsWithin ==
  ASSUME NEW r, NEW a, NEW s, NEW b, NEW u, Holds(r, a, s), Holds(s, b, u)
  PROVE  Holds(r, a + b, u)
<1>1. /\ a \in Nat /\ Len(s) \in Nat /\ Len(r) \in Nat /\ a + Len(s) <= Len(r)
      /\ \A j \in 1 .. Len(s) : r[a + j] = s[j]
  BY DEF Holds
<1>2. /\ b \in Nat /\ Len(u) \in Nat /\ b + Len(u) <= Len(s)
      /\ \A j \in 1 .. Len(u) : s[b + j] = u[j]
  BY DEF Holds
<1>3. a + b \in Nat /\ (a + b) + Len(u) <= Len(r)
  BY <1>1, <1>2
<1>4. ASSUME NEW j \in 1 .. Len(u) PROVE r[(a + b) + j] = u[j]
  <2>1. b + j \in 1 .. Len(s) /\ a + (b + j) = (a + b) + j
    BY <1>1, <1>2
  <2>2. r[a + (b + j)] = s[b + j] /\ s[b + j] = u[j]
    BY <1>1, <1>2, <2>1
  <2>3. QED
    BY <2>1, <2>2
<1>5. QED
  BY <1>1, <1>2, <1>3, <1>4 DEF Holds

LEMMA HoldsSubSeq ==
  ASSUME NEW S, NEW r \in Seq(S), NEW u \in Seq(S), NEW a, Holds(r, a, u)
  PROVE  SubSeq(r, a + 1, a + Len(u)) = u
<1>1. /\ a \in Nat /\ Len(u) \in Nat /\ Len(r) \in Nat /\ a + Len(u) <= Len(r)
      /\ \A j \in 1 .. Len(u) : r[a + j] = u[j]
  BY DEF Holds
<1> DEFINE n == a + Len(u)
           v == SubSeq(r, a + 1, n)
<1>2. a + 1 \in 1 .. Len(r) + 1 /\ n \in a + 1 - 1 .. Len(r)
  BY <1>1
<1>3. v \in Seq(S) /\ Len(v) = (n - (a + 1)) + 1 /\ \A i \in 1 .. (n - (a + 1)) + 1 : v[i] = r[(a + 1) + i - 1]
  <2> HIDE DEF n
  <2>1. QED
    BY <1>1, <1>2
<1>4. Len(v) = Len(u)
  <2>1. (n - (a + 1)) + 1 = Len(u)
    BY <1>1
  <2>2. Len(v) = (n - (a + 1)) + 1
    BY <1>3, Zenon
  <2>3. QED
    BY <2>1, <2>2, Zenon
<1>5. ASSUME NEW i \in 1 .. Len(u) PROVE v[i] = u[i]
  <2>1. (n - (a + 1)) + 1 = Len(u) /\ (a + 1) + i - 1 = a + i
    BY <1>1
  <2>2. QED
    BY <1>1, <1>3, <2>1
<1> HIDE DEF v
<1>6. v = u
  BY <1>3, <1>4, <1>5
<1>7. QED
  BY <1>6 DEF v, n

-------------------------------------------------------------------------------
(* Numbers below 16^width have width digits.                               *)
LEMMA HexWidth ==
  ASSUME NEW v \in Nat, NEW w \in {2, 4}, v < 16 ^ w
  PROVE  /\ print_hex(v, w) \in Seq(0 .. 255) /\ Len(print_hex(v, w)) = w
         /\ print_hex(v, w) = Numeral(v, 16, w)
<1> DEFINE left == Shifted(v, 16)
           text == print_hex(v, w)
<1>1. 16 \in Bases /\ w \in Nat \ {0} /\ w # 0
  BY DEF Bases
<1>2. Says(text, v, 16, w)
  BY <1>1, HexSays
<1>3. text = Numeral(v, 16, w)
  <2> HIDE DEF text
  <2>1. QED
    BY <1>1, <1>2, SaysNumeral
<1>4. left[0] = v /\ \A i \in Nat : left[i + 1] = left[i] \div 16
  BY <1>1, ShiftedEquations, Zenon
<1> HIDE DEF left
<1>5. /\ left[0 + 1] = left[0] \div 16 /\ left[1 + 1] = left[1] \div 16
      /\ left[2 + 1] = left[2] \div 16 /\ left[3 + 1] = left[3] \div 16
  BY <1>4
<1>6. left[w] = 0
  <2>1. CASE w = 2
    <3>1. v < 256
      BY <2>1
    <3>2. left[1] = v \div 16 /\ left[2] = (v \div 16) \div 16
      BY <1>4, <1>5
    <3>3. QED
      BY <2>1, <3>1, <3>2
  <2>2. CASE w = 4
    <3>1. v < 65536
      BY <2>2
    <3>2. left[4] = (((v \div 16) \div 16) \div 16) \div 16
      BY <1>4, <1>5
    <3>3. QED
      BY <2>2, <3>1, <3>2
  <2>3. QED
    BY <2>1, <2>2
<1> HIDE DEF text
<1>7. /\ text \in Seq(0 .. 255) /\ Len(text) >= w
      /\ Len(text) = w \/ left[Len(text) - 1] # 0
  BY <1>2 DEF Says, left
<1>8. Len(text) = w
  <2>1. SUFFICES ASSUME Len(text) # w PROVE FALSE
    OBVIOUS
  <2>2. Len(text) - 1 \in Nat /\ Len(text) - 1 >= w
    <3>1. Len(text) \in Nat
      BY <1>7
    <3>2. QED
      BY <1>1, <1>7, <2>1, <3>1
  <2>3. left[Len(text) - 1] = 0
    BY <1>1, <1>6, <2>2, ShiftedStaysZero DEF left
  <2>4. QED
    BY <1>7, <2>1, <2>3
<1>9. QED
  BY <1>3, <1>7, <1>8 DEF text

-------------------------------------------------------------------------------
(* The rows of a dump.                                                     *)
Cells(buf, i) == [j \in 1 .. 16 |-> HexCell(buf, i, j - 1)]

LEMMA CellType ==
  ASSUME NEW buf \in Seq(0 .. 255), NEW i \in Nat, NEW j \in 0 .. 15
  PROVE  /\ HexCell(buf, i, j) \in Seq(0 .. 255)
         /\ Len(HexCell(buf, i, j)) = IF j = 7 THEN 4 ELSE 3
         /\ i + j < Len(buf) =>
              /\ buf[i + j + 1] \in 0 .. 255
              /\ Holds(HexCell(buf, i, j), 0, Numeral(buf[i + j + 1], 16, 2))
              /\ Len(Numeral(buf[i + j + 1], 16, 2)) = 2
              /\ Numeral(buf[i + j + 1], 16, 2) \in Seq(0 .. 255)
<1> DEFINE two == IF i + j < Len(buf) THEN print_hex(buf[i + j + 1], 2) ELSE <<SPACE, SPACE>>
           three == two \o <<SPACE>>
           gap == IF j = 7 THEN <<SPACE>> ELSE <<>>
           cell == HexCell(buf, i, j)
<1>1. i + j < Len(buf) =>
        /\ buf[i + j + 1] \in 0 .. 255 /\ two = print_hex(buf[i + j + 1], 2)
        /\ print_hex(buf[i + j + 1], 2) \in Seq(0 .. 255) /\ Len(print_hex(buf[i + j + 1], 2)) = 2
        /\ print_hex(buf[i + j + 1], 2) = Numeral(buf[i + j + 1], 16, 2)
  <2>1. SUFFICES ASSUME i + j < Len(buf)
                 PROVE  /\ buf[i + j + 1] \in 0 .. 255 /\ two = print_hex(buf[i + j + 1], 2)
                        /\ print_hex(buf[i + j + 1], 2) \in Seq(0 .. 255)
                        /\ Len(print_hex(buf[i + j + 1], 2)) = 2
                        /\ print_hex(buf[i + j + 1], 2) = Numeral(buf[i + j + 1], 16, 2)
    OBVIOUS
  <2> DEFINE v == buf[i + j + 1]
  <2>2. v \in 0 .. 255
    <3> DEFINE k == i + j + 1
    <3>1. k \in 1 .. Len(buf)
      BY <2>1
    <3> HIDE DEF k, two
    <3>2. buf[k] \in 0 .. 255
      BY <3>1, ElementOf, Zenon
    <3>3. QED
      BY <3>2 DEF k
  <2>3. two = print_hex(v, 2)
    BY <2>1
  <2> HIDE DEF v, two
  <2>4. v \in Nat /\ v < 16 ^ 2
    BY <2>2
  <2>5. print_hex(v, 2) \in Seq(0 .. 255) /\ Len(print_hex(v, 2)) = 2 /\ print_hex(v, 2) = Numeral(v, 16, 2)
    BY <2>4, HexWidth
  <2>6. QED
    BY <2>2, <2>3, <2>5 DEF v
<1>2. two \in Seq(0 .. 255) /\ Len(two) = 2
  <2>1. CASE i + j < Len(buf)
    BY <1>1, <2>1
  <2>2. CASE ~(i + j < Len(buf))
    <3>1. two = <<SPACE, SPACE>>
      BY <2>2, Zenon
    <3> HIDE DEF two
    <3>2. <<SPACE, SPACE>> \in Seq(0 .. 255) /\ Len(<<SPACE, SPACE>>) = 2
      BY DEF SPACE
    <3>3. QED
      BY <3>1, <3>2
  <2>3. QED
    BY <2>1, <2>2
<1>3. cell = three \o gap
  BY DEF HexCell
<1>4. gap \in Seq(0 .. 255) /\ Len(gap) = (IF j = 7 THEN 1 ELSE 0)
  <2>1. <<SPACE>> \in Seq(0 .. 255) /\ Len(<<SPACE>>) = 1 /\ <<>> \in Seq(0 .. 255) /\ Len(<<>>) = 0
    BY DEF SPACE
  <2>2. CASE j = 7
    <3>1. gap = <<SPACE>>
      BY <2>2, Zenon
    <3> HIDE DEF gap
    <3>2. QED
      BY <2>1, <2>2, <3>1
  <2>3. CASE j # 7
    <3>1. gap = <<>>
      BY <2>3, Zenon
    <3> HIDE DEF gap
    <3>2. QED
      BY <2>1, <2>3, <3>1
  <2>4. QED
    BY <2>2, <2>3
<1> HIDE DEF two, gap
<1>5. <<SPACE>> \in Seq(0 .. 255) /\ Len(<<SPACE>>) = 1
  BY DEF SPACE
<1>6. three \in Seq(0 .. 255) /\ Len(three) = 3
  <2> DEFINE last == <<SPACE>>
  <2> HIDE DEF last
  <2>1. three = two \o last /\ last \in Seq(0 .. 255) /\ Len(last) = 1
    BY <1>5 DEF last
  <2> HIDE DEF three
  <2>2. three \in Seq(0 .. 255) /\ Len(three) = Len(two) + Len(last)
    <3>1. two \in Seq(0 .. 255) /\ last \in Seq(0 .. 255) /\ three = two \o last
      BY <1>2, <2>1
    <3>2. QED
      BY <3>1, Concatenates
  <2>3. QED
    BY <1>2, <2>1, <2>2
<1>7. \A a, u : Holds(two, a, u) => Holds(three, a, u)
  BY <1>2, <1>5, HoldsParts
<1> HIDE DEF three, cell
<1>8. cell \in Seq(0 .. 255) /\ Len(cell) = IF j = 7 THEN 4 ELSE 3
  <2>1. cell \in Seq(0 .. 255) /\ Len(cell) = Len(three) + Len(gap)
    <3>1. three \in Seq(0 .. 255) /\ gap \in Seq(0 .. 255)
      BY <1>4, <1>6
    <3>2. QED
      BY <1>3, <3>1, Concatenates
  <2>2. QED
    BY <1>4, <1>6, <2>1
<1>9. \A a, u : Holds(three, a, u) => Holds(cell, a, u)
  BY <1>3, <1>4, <1>6, HoldsParts
<1>10. Holds(two, 0, two)
  BY <1>2 DEF Holds
<1>11. Holds(cell, 0, two)
  BY <1>7, <1>9, <1>10
<1>12. QED
  BY <1>1, <1>2, <1>8, <1>11 DEF cell

Column(j) == (3 * j) + (IF j > 7 THEN 1 ELSE 0)

LEMMA CellsLine ==
  ASSUME NEW buf \in Seq(0 .. 255), NEW i \in Nat
  PROVE  /\ FlattenSeq(Cells(buf, i)) \in Seq(0 .. 255)
         /\ Len(FlattenSeq(Cells(buf, i))) = 49
         /\ \A j \in 0 .. 15 : Holds(FlattenSeq(Cells(buf, i)), Column(j), HexCell(buf, i, j))
<1> DEFINE cells == Cells(buf, i)
           line == FlattenSeq(cells)
<1>1. cells \in Seq(Seq(0 .. 255)) /\ Len(cells) = 16 /\ \A m \in 1 .. 16 : cells[m] = HexCell(buf, i, m - 1)
  <2>1. \A m \in 1 .. 16 : HexCell(buf, i, m - 1) \in Seq(0 .. 255)
    <3>1. \A m \in 1 .. 16 : m - 1 \in 0 .. 15
      OBVIOUS
    <3>2. QED
      BY <3>1, CellType
  <2>2. cells \in [1 .. 16 -> Seq(0 .. 255)] /\ \A m \in 1 .. 16 : cells[m] = HexCell(buf, i, m - 1)
    BY <2>1 DEF Cells
  <2> HIDE DEF cells
  <2>3. cells \in Seq(Seq(0 .. 255)) /\ Len(cells) = 16
    <3> DEFINE n == 16
    <3>1. n \in Int /\ n > 0 /\ n = 16 /\ cells \in [1 .. n -> Seq(0 .. 255)]
      BY <2>2
    <3> HIDE DEF n
    <3>2. cells \in Seq(Seq(0 .. 255)) /\ Len(cells) = (IF n > 0 THEN n ELSE 0)
      BY <3>1, ByPosition
    <3>3. QED
      BY <3>1, <3>2
  <2>4. QED
    BY <2>2, <2>3
<1> HIDE DEF cells
<1>2. PICK J : Joins(0 .. 255, cells, J) /\ line = J[Len(cells)]
  BY <1>1, FlattenEquations
<1>3. J[0] = <<>> /\ line = J[16] /\ Len(<<>>) = 0
  BY <1>1, <1>2 DEF Joins
<1> HIDE DEF line
<1>4. \A m \in 1 .. 16 : Placed(cells, J, 16, m)
  BY <1>1, <1>2, JoinsPlaces
<1>5. ASSUME NEW m \in 1 .. 16
      PROVE  /\ Len(J[m]) = Len(J[m - 1]) + (IF m = 8 THEN 4 ELSE 3)
             /\ Holds(line, Len(J[m - 1]), HexCell(buf, i, m - 1))
  <2>1. /\ Len(J[m - 1]) \in Nat /\ Len(J[m]) \in Nat
        /\ Len(J[16]) \in Nat /\ Len(cells[m]) \in Nat
        /\ Len(J[m]) = Len(J[m - 1]) + Len(cells[m]) /\ Len(J[m]) <= Len(J[16])
        /\ \A j \in 1 .. Len(cells[m]) : J[16][Len(J[m - 1]) + j] = cells[m][j]
    BY <1>4, Zenon DEF Placed
  <2>2. cells[m] = HexCell(buf, i, m - 1) /\ Len(cells[m]) = IF m = 8 THEN 4 ELSE 3
    <3>1. cells[m] = HexCell(buf, i, m - 1)
      BY <1>1
    <3>2. m - 1 \in 0 .. 15 /\ (m - 1 = 7 <=> m = 8)
      OBVIOUS
    <3>3. Len(HexCell(buf, i, m - 1)) = IF m - 1 = 7 THEN 4 ELSE 3
      BY <3>2, CellType
    <3>4. QED
      BY <3>1, <3>2, <3>3
  <2>3. Len(J[m - 1]) + Len(cells[m]) <= Len(J[16])
    BY <2>1
  <2>4. Holds(line, Len(J[m - 1]), cells[m])
    BY <1>3, <2>1, <2>3, Zenon DEF Holds
  <2>5. QED
    BY <2>1, <2>2, <2>4
<1> DEFINE Done == {m \in Nat : m <= 15 => Len(J[m]) = Column(m)}
<1>6. 0 \in Done
  BY <1>3 DEF Column
<1>7. ASSUME NEW m \in Nat, m \in Done PROVE m + 1 \in Done
  <2>1. SUFFICES ASSUME m + 1 <= 15 PROVE Len(J[m + 1]) = Column(m + 1)
    OBVIOUS
  <2>2. m + 1 \in 1 .. 16 /\ (m + 1) - 1 = m /\ Len(J[m]) = Column(m)
    BY <1>7, <2>1
  <2>3. Len(J[m + 1]) = Column(m) + (IF m + 1 = 8 THEN 4 ELSE 3)
    BY <1>5, <2>2
  <2>4. QED
    BY <2>1, <2>3 DEF Column
<1> HIDE DEF Done
<1>8. \A m \in Nat : m \in Done
  BY <1>6, <1>7, Induction
<1>9. ASSUME NEW j \in 0 .. 15 PROVE Holds(line, Column(j), HexCell(buf, i, j))
  <2>1. j + 1 \in 1 .. 16 /\ (j + 1) - 1 = j /\ j \in Nat /\ j <= 15
    OBVIOUS
  <2>2. Len(J[j]) = Column(j)
    BY <1>8, <2>1 DEF Done
  <2>3. QED
    BY <1>5, <2>1, <2>2
<1>10. Len(line) = 49
  <2>1. Len(J[15]) = Column(15) /\ Column(15) = 46
    <3>1. 15 \in Nat /\ 15 <= 15
      OBVIOUS
    <3>2. Len(J[15]) = Column(15)
      BY <1>8, <3>1 DEF Done
    <3>3. Column(15) = 46
      BY DEF Column
    <3>4. QED
      BY <3>2, <3>3
  <2>2. Len(J[16]) = Len(J[16 - 1]) + 3
    BY <1>5
  <2>3. QED
    BY <1>3, <2>1, <2>2
<1>11. line \in Seq(0 .. 255)
  BY <1>1, FlattenType DEF line
<1>12. QED
  BY <1>9, <1>10, <1>11 DEF line, cells

OfParts(S, a, b, c, d, e, f, r) ==
  /\ a \in Seq(S) /\ b \in Seq(S) /\ c \in Seq(S) /\ d \in Seq(S) /\ e \in Seq(S) /\ f \in Seq(S)
  /\ r = a \o b \o c \o d \o e \o f

LEMMA SixParts ==
  ASSUME NEW S, NEW a, NEW b, NEW c, NEW d, NEW e, NEW f, NEW r, OfParts(S, a, b, c, d, e, f, r)
  PROVE  /\ r \in Seq(S)
         /\ Len(r) = Len(a) + Len(b) + Len(c) + Len(d) + Len(e) + Len(f)
         /\ Holds(r, 0, a)
         /\ Holds(r, Len(a) + Len(b), c)
         /\ Holds(r, Len(a) + Len(b) + Len(c), d)
         /\ Holds(r, Len(a) + Len(b) + Len(c) + Len(d), e)
         /\ Holds(r, Len(a) + Len(b) + Len(c) + Len(d) + Len(e), f)
<1> DEFINE ab == a \o b
           ac == ab \o c
           ad == ac \o d
           ae == ad \o e
<1>0. /\ a \in Seq(S) /\ b \in Seq(S) /\ c \in Seq(S) /\ d \in Seq(S) /\ e \in Seq(S) /\ f \in Seq(S)
      /\ r = a \o b \o c \o d \o e \o f
  BY DEF OfParts
<1>1. r = ae \o f /\ ae = ad \o e /\ ad = ac \o d /\ ac = ab \o c /\ ab = a \o b
  BY <1>0
<1> HIDE DEF ab, ac, ad, ae
<1>2. ab \in Seq(S) /\ Len(ab) = Len(a) + Len(b)
  BY <1>0, <1>1, Concatenates
<1>3. ac \in Seq(S) /\ Len(ac) = Len(ab) + Len(c)
  BY <1>0, <1>1, <1>2, Concatenates
<1>4. ad \in Seq(S) /\ Len(ad) = Len(ac) + Len(d)
  BY <1>0, <1>1, <1>3, Concatenates
<1>5. ae \in Seq(S) /\ Len(ae) = Len(ad) + Len(e)
  BY <1>0, <1>1, <1>4, Concatenates
<1>6. r \in Seq(S) /\ Len(r) = Len(ae) + Len(f)
  BY <1>0, <1>1, <1>5, Concatenates
<1>7. \A n, u : Holds(a, n, u) => Holds(ab, n, u)
  BY <1>0, <1>1, HoldsParts
<1>8. Holds(ac, Len(ab), c) /\ \A n, u : Holds(ab, n, u) => Holds(ac, n, u)
  BY <1>0, <1>1, <1>2, HoldsParts
<1>9. Holds(ad, Len(ac), d) /\ \A n, u : Holds(ac, n, u) => Holds(ad, n, u)
  BY <1>0, <1>1, <1>3, HoldsParts
<1>10. Holds(ae, Len(ad), e) /\ \A n, u : Holds(ad, n, u) => Holds(ae, n, u)
  BY <1>0, <1>1, <1>4, HoldsParts
<1>11. Holds(r, Len(ae), f) /\ \A n, u : Holds(ae, n, u) => Holds(r, n, u)
  BY <1>0, <1>1, <1>5, HoldsParts
<1>12. Holds(a, 0, a)
  <2>1. Len(a) \in Nat
    BY <1>0
  <2>2. QED
    BY <2>1 DEF Holds
<1>13. /\ Holds(r, 0, a) /\ Holds(r, Len(ab), c) /\ Holds(r, Len(ac), d)
       /\ Holds(r, Len(ad), e) /\ Holds(r, Len(ae), f)
  BY <1>7, <1>8, <1>9, <1>10, <1>11, <1>12, Zenon
<1>14. QED
  BY <1>2, <1>3, <1>4, <1>5, <1>6, <1>13

Rest(buf, i) == IF i + 16 <= Len(buf) THEN 16 ELSE Len(buf) - i
Shown(buf, i) == [j \in 1 .. Rest(buf, i) |-> IF buf[i + j] \in 32 .. 126 THEN buf[i + j] ELSE DOT]

LEMMA ShownType ==
  ASSUME NEW buf \in Seq(0 .. 255), NEW i \in Nat, i < Len(buf)
  PROVE  /\ Rest(buf, i) \in 1 .. 16 /\ i + Rest(buf, i) <= Len(buf)
         /\ Shown(buf, i) \in Seq(0 .. 255) /\ Len(Shown(buf, i)) = Rest(buf, i)
         /\ \A j \in 1 .. Rest(buf, i) : Shown(buf, i)[j] \in {buf[i + j], DOT}
<1> DEFINE n == Rest(buf, i)
           shown == Shown(buf, i)
<1>1. n \in 1 .. 16 /\ i + n <= Len(buf)
  BY DEF Rest
<1>2. \A j \in 1 .. n : shown[j] \in {buf[i + j], DOT}
  BY DEF Shown
<1>3. shown \in [1 .. n -> 0 .. 255]
  <2>1. ASSUME NEW j \in 1 .. n PROVE buf[i + j] \in 0 .. 255
    <3> DEFINE k == i + j
    <3>1. k \in 1 .. Len(buf)
      BY <1>1
    <3> HIDE DEF k
    <3>2. buf[k] \in 0 .. 255
      BY <3>1, ElementOf, Zenon
    <3>3. QED
      BY <3>2 DEF k
  <2>2. DOT \in 0 .. 255
    BY DEF DOT
  <2> HIDE DEF n
  <2>3. QED
    BY <2>1, <2>2 DEF Shown, n
<1> HIDE DEF n, shown
<1>4. shown \in Seq(0 .. 255) /\ Len(shown) = n
  BY <1>1, <1>3, ByPosition
<1>5. QED
  BY <1>1, <1>2, <1>4 DEF n, shown

LEMMA RowSays ==
  ASSUME NEW buf \in Seq(0 .. 255), NEW i \in Nat, i < Len(buf)
  PROVE  /\ HexRow(buf, i) \in Seq(0 .. 255)
         /\ i < 16 ^ 4 =>
              /\ Len(HexRow(buf, i)) = 60 + Rest(buf, i)
              /\ Numeral(i, 16, 4) \in Seq(0 .. 255) /\ Len(Numeral(i, 16, 4)) = 4
              /\ Holds(HexRow(buf, i), 0, Numeral(i, 16, 4))
              /\ Holds(HexRow(buf, i), 55, <<SPACE, BAR>>)
              /\ Holds(HexRow(buf, i), 57, Shown(buf, i))
              /\ Holds(HexRow(buf, i), 57 + Rest(buf, i), <<BAR, CR, LF>>)
              /\ \A j \in 0 .. Rest(buf, i) - 1 :
                   Holds(HexRow(buf, i), 6 + Column(j), Numeral(buf[i + j + 1], 16, 2))
<1> DEFINE a == print_hex(i, 4)
           b == <<SPACE, SPACE>>
           c == FlattenSeq(Cells(buf, i))
           d == <<SPACE, BAR>>
           e == Shown(buf, i)
           f == <<BAR, CR, LF>>
           n == Rest(buf, i)
           row == HexRow(buf, i)
<1>1. row = a \o b \o c \o d \o e \o f
  BY Zenon DEF HexRow, Cells, Shown, Rest
<1>2. a \in Seq(0 .. 255)
  <2>1. Says(a, i, 16, 4)
    BY HexSays
  <2>2. QED
    BY <2>1 DEF Says
<1>3. b \in Seq(0 .. 255) /\ Len(b) = 2
  BY DEF SPACE
<1>4. c \in Seq(0 .. 255) /\ Len(c) = 49
      /\ \A j \in 0 .. 15 : Holds(c, Column(j), HexCell(buf, i, j))
  BY CellsLine
<1>5. d \in Seq(0 .. 255) /\ Len(d) = 2
  BY DEF SPACE, BAR
<1>6. e \in Seq(0 .. 255) /\ Len(e) = n /\ n \in 1 .. 16 /\ i + n <= Len(buf)
  BY ShownType
<1>7. f \in Seq(0 .. 255) /\ Len(f) = 3
  BY DEF BAR, CR, LF
<1> HIDE DEF a, b, c, d, e, f, n, row
<1>8. /\ row \in Seq(0 .. 255)
      /\ Len(row) = Len(a) + Len(b) + Len(c) + Len(d) + Len(e) + Len(f)
      /\ Holds(row, 0, a)
      /\ Holds(row, Len(a) + Len(b), c)
      /\ Holds(row, Len(a) + Len(b) + Len(c), d)
      /\ Holds(row, Len(a) + Len(b) + Len(c) + Len(d), e)
      /\ Holds(row, Len(a) + Len(b) + Len(c) + Len(d) + Len(e), f)
  <2>1. /\ a \in Seq(0 .. 255) /\ b \in Seq(0 .. 255) /\ c \in Seq(0 .. 255)
        /\ d \in Seq(0 .. 255) /\ e \in Seq(0 .. 255) /\ f \in Seq(0 .. 255)
    BY <1>2, <1>3, <1>4, <1>5, <1>6, <1>7
  <2>2. OfParts(0 .. 255, a, b, c, d, e, f, row)
    BY <1>1, <2>1, Zenon DEF OfParts
  <2>3. QED
    BY <2>2, SixParts
<1>9. ASSUME i < 16 ^ 4
      PROVE  /\ Len(row) = 60 + n
             /\ Numeral(i, 16, 4) \in Seq(0 .. 255) /\ Len(Numeral(i, 16, 4)) = 4
             /\ Holds(row, 0, Numeral(i, 16, 4)) /\ Holds(row, 55, d) /\ Holds(row, 57, e)
             /\ Holds(row, 57 + n, f)
             /\ \A j \in 0 .. n - 1 : Holds(row, 6 + Column(j), Numeral(buf[i + j + 1], 16, 2))
  <2>1. Len(a) = 4 /\ a = Numeral(i, 16, 4)
    <3>1. print_hex(i, 4) \in Seq(0 .. 255) /\ Len(print_hex(i, 4)) = 4
          /\ print_hex(i, 4) = Numeral(i, 16, 4)
      BY <1>9, HexWidth
    <3>2. QED
      BY <3>1, Zenon DEF a
  <2>2. Len(a) + Len(b) = 6 /\ Len(a) + Len(b) + Len(c) = 55
        /\ Len(a) + Len(b) + Len(c) + Len(d) = 57
        /\ Len(a) + Len(b) + Len(c) + Len(d) + Len(e) = 57 + n
        /\ Len(a) + Len(b) + Len(c) + Len(d) + Len(e) + Len(f) = 60 + n
    BY <1>3, <1>4, <1>5, <1>6, <1>7, <2>1
  <2>3. Len(row) = 60 + n /\ Holds(row, 0, a) /\ Holds(row, 6, c) /\ Holds(row, 55, d)
        /\ Holds(row, 57, e) /\ Holds(row, 57 + n, f)
    BY <1>8, <2>2
  <2>4. ASSUME NEW j \in 0 .. n - 1
        PROVE  Holds(row, 6 + Column(j), Numeral(buf[i + j + 1], 16, 2))
    <3>1. j \in 0 .. 15 /\ i + j < Len(buf) /\ Column(j) \in Nat
      BY <1>6 DEF Column
    <3>2. Holds(HexCell(buf, i, j), 0, Numeral(buf[i + j + 1], 16, 2))
      BY <3>1, CellType
    <3>3. Holds(row, 6 + Column(j), HexCell(buf, i, j))
      BY <1>4, <2>3, <3>1, HoldsWithin
    <3>4. Holds(row, (6 + Column(j)) + 0, Numeral(buf[i + j + 1], 16, 2))
      BY <3>2, <3>3, HoldsWithin
    <3>5. QED
      BY <3>1, <3>4
  <2>5. QED
    BY <1>2, <2>1, <2>3, <2>4
<1>10. QED
  BY <1>8, <1>9 DEF d, e, f, n, row

(* A row reads back.                                                       *)
RowOf(buf, i, rest, row) ==
  /\ SubSeq(row, 1, 4) = Numeral(i, 16, 4)
  /\ row[57] = BAR /\ SubSeq(row, 58 + rest, 60 + rest) = <<BAR, CR, LF>>
  /\ \A j \in 0 .. rest - 1 :
       /\ SubSeq(row, 6 + Column(j) + 1, 6 + Column(j) + 2) = Numeral(buf[i + j + 1], 16, 2)
       /\ row[58 + j] \in {buf[i + j + 1], DOT}

LEMMA RowReads ==
  ASSUME NEW buf \in Seq(0 .. 255), NEW i \in Nat, i < Len(buf), i < 16 ^ 4
  PROVE  RowOf(buf, i, Rest(buf, i), HexRow(buf, i))
<1> DEFINE row == HexRow(buf, i)
           n == Rest(buf, i)
           number == Numeral(i, 16, 4)
           bar == <<SPACE, BAR>>
           shown == Shown(buf, i)
           tail == <<BAR, CR, LF>>
<1>1. /\ row \in Seq(0 .. 255) /\ Len(row) = 60 + n
      /\ number \in Seq(0 .. 255) /\ Len(number) = 4
      /\ Holds(row, 0, number) /\ Holds(row, 55, bar) /\ Holds(row, 57, shown)
      /\ Holds(row, 57 + n, tail)
      /\ \A j \in 0 .. n - 1 : Holds(row, 6 + Column(j), Numeral(buf[i + j + 1], 16, 2))
  BY RowSays
<1>2. /\ n \in 1 .. 16 /\ i + n <= Len(buf) /\ Len(shown) = n
      /\ \A j \in 1 .. n : shown[j] \in {buf[i + j], DOT}
  BY ShownType
<1>3. tail \in Seq(0 .. 255) /\ Len(tail) = 3 /\ Len(bar) = 2 /\ bar[2] = BAR
  BY DEF BAR, CR, LF
<1> HIDE DEF row, n, number, bar, shown, tail
<1>4. SubSeq(row, 1, 4) = number
  <2>1. SubSeq(row, 0 + 1, 0 + Len(number)) = number
    BY <1>1, HoldsSubSeq
  <2>2. QED
    BY <1>1, <2>1
<1>5. row[57] = BAR
  <2>1. row[55 + 2] = bar[2]
    BY <1>1, <1>3 DEF Holds
  <2>2. QED
    BY <1>3, <2>1
<1>6. SubSeq(row, 58 + n, 60 + n) = tail
  <2>1. SubSeq(row, (57 + n) + 1, (57 + n) + Len(tail)) = tail
    BY <1>1, <1>3, HoldsSubSeq
  <2>2. (57 + n) + 1 = 58 + n /\ (57 + n) + Len(tail) = 60 + n
    BY <1>2, <1>3
  <2>3. QED
    BY <2>1, <2>2
<1>7. ASSUME NEW j \in 0 .. n - 1
      PROVE  /\ SubSeq(row, 6 + Column(j) + 1, 6 + Column(j) + 2) = Numeral(buf[i + j + 1], 16, 2)
             /\ row[58 + j] \in {buf[i + j + 1], DOT}
  <2> DEFINE two == Numeral(buf[i + j + 1], 16, 2)
  <2>1. Holds(row, 6 + Column(j), two)
    BY <1>1
  <2>2. two \in Seq(0 .. 255) /\ Len(two) = 2
    <3>1. j \in 0 .. 15 /\ i + j < Len(buf)
      BY <1>2
    <3>2. QED
      BY <3>1, CellType
  <2> HIDE DEF two
  <2>3. SubSeq(row, (6 + Column(j)) + 1, (6 + Column(j)) + Len(two)) = two
    BY <1>1, <2>1, <2>2, HoldsSubSeq
  <2>4. row[58 + j] \in {buf[i + j + 1], DOT}
    <3>1. j + 1 \in 1 .. Len(shown) /\ j + 1 \in 1 .. n /\ 57 + (j + 1) = 58 + j
          /\ i + (j + 1) = i + j + 1
      BY <1>2
    <3>2. row[57 + (j + 1)] = shown[j + 1]
      BY <1>1, <3>1 DEF Holds
    <3>3. shown[j + 1] \in {buf[i + (j + 1)], DOT}
      BY <1>2, <3>1
    <3>4. QED
      BY <3>1, <3>2, <3>3
  <2>5. QED
    BY <2>2, <2>3, <2>4 DEF two
<1>8. QED
  BY <1>4, <1>5, <1>6, <1>7 DEF RowOf, row, n, number, tail

Rows(buf) == [r \in 1 .. HexRows(buf) |-> HexRow(buf, 16 * (r - 1))]

LEMMA RowsType ==
  ASSUME NEW buf \in Seq(0 .. 255)
  PROVE  /\ HexRows(buf) \in Nat /\ Rows(buf) \in Seq(Seq(0 .. 255)) /\ Len(Rows(buf)) = HexRows(buf)
         /\ \A r \in 0 .. HexRows(buf) - 1 :
              /\ 16 * r \in Nat /\ 16 * r < Len(buf)
              /\ r + 1 \in 1 .. HexRows(buf) /\ Rows(buf)[r + 1] = HexRow(buf, 16 * r)
              /\ r < HexRows(buf) - 1 => Rest(buf, 16 * r) = 16
<1> DEFINE n == HexRows(buf)
<1>1. n \in Nat /\ 16 * n <= Len(buf) + 15
  <2>1. Len(buf) \in Nat
    OBVIOUS
  <2>2. QED
    BY <2>1 DEF HexRows
<1>2. ASSUME NEW r \in 0 .. n - 1
      PROVE  /\ 16 * r \in Nat /\ 16 * r < Len(buf)
             /\ r < n - 1 => Rest(buf, 16 * r) = 16
  <2>1. Len(buf) \in Nat
    OBVIOUS
  <2> HIDE DEF n
  <2>2. QED
    BY <1>1, <2>1 DEF Rest
<1> HIDE DEF n
<1>3. ASSUME NEW r \in 0 .. n - 1
      PROVE  r + 1 \in 1 .. n /\ Rows(buf)[r + 1] = HexRow(buf, 16 * r)
  <2>1. r + 1 \in 1 .. n /\ (r + 1) - 1 = r
    BY <1>1
  <2>2. QED
    BY <2>1 DEF Rows, n
<1>4. Rows(buf) \in [1 .. n -> Seq(0 .. 255)]
  <2>1. ASSUME NEW r \in 1 .. n PROVE HexRow(buf, 16 * (r - 1)) \in Seq(0 .. 255)
    <3> DEFINE i == 16 * (r - 1)
    <3>1. r - 1 \in 0 .. n - 1
      BY <1>1
    <3>2. i \in Nat /\ i < Len(buf)
      BY <1>2, <3>1
    <3> HIDE DEF i
    <3>3. HexRow(buf, i) \in Seq(0 .. 255)
      BY <3>2, RowSays
    <3>4. QED
      BY <3>3 DEF i
  <2>2. QED
    BY <2>1 DEF Rows, n
<1>5. Rows(buf) \in Seq(Seq(0 .. 255)) /\ Len(Rows(buf)) = n
  BY <1>1, <1>4, ByPosition
<1>6. QED
  BY <1>1, <1>2, <1>3, <1>5 DEF n

LEMMA DumpType ==
  ASSUME NEW buf \in Seq(0 .. 255)
  PROVE  console_hexdump(buf) = FlattenSeq(Rows(buf)) /\ console_hexdump(buf) \in Seq(0 .. 255)
<1>1. console_hexdump(buf) = FlattenSeq(Rows(buf))
  BY DEF console_hexdump, Rows
<1>2. FlattenSeq(Rows(buf)) \in Seq(0 .. 255)
  BY RowsType, FlattenType
<1>3. QED
  BY <1>1, <1>2

LEMMA DumpReads ==
  ASSUME NEW buf \in Seq(0 .. 255), Len(buf) <= 16 ^ 4
  PROVE  DumpOf(buf, console_hexdump(buf))
<1> DEFINE text == console_hexdump(buf)
           n == HexRows(buf)
           all == Rows(buf)
           rest(r) == Rest(buf, 16 * r)
<1>1. /\ n \in Nat /\ all \in Seq(Seq(0 .. 255)) /\ Len(all) = n
      /\ \A r \in 0 .. n - 1 :
           /\ 16 * r \in Nat /\ 16 * r < Len(buf)
           /\ r + 1 \in 1 .. n /\ all[r + 1] = HexRow(buf, 16 * r)
           /\ r < n - 1 => rest(r) = 16
  BY RowsType
<1>2. text = FlattenSeq(all) /\ text \in Seq(0 .. 255)
  BY DumpType
<1>3. ASSUME NEW r \in 0 .. n - 1
      PROVE  /\ RowOf(buf, 16 * r, rest(r), HexRow(buf, 16 * r)) /\ rest(r) \in 1 .. 16
             /\ HexRow(buf, 16 * r) \in Seq(0 .. 255) /\ Len(HexRow(buf, 16 * r)) = 60 + rest(r)
  <2> DEFINE i == 16 * r
  <2>1. i \in Nat /\ i < Len(buf) /\ i < 16 ^ 4
    BY <1>1
  <2> HIDE DEF i
  <2>2. /\ RowOf(buf, i, Rest(buf, i), HexRow(buf, i)) /\ Rest(buf, i) \in 1 .. 16
        /\ HexRow(buf, i) \in Seq(0 .. 255) /\ Len(HexRow(buf, i)) = 60 + Rest(buf, i)
    BY <2>1, RowReads, RowSays, ShownType
  <2>3. QED
    BY <2>2 DEF i
<1>4. PICK J : Joins(0 .. 255, all, J) /\ text = J[Len(all)]
  BY <1>1, <1>2, FlattenEquations
<1>5. J[0] = <<>> /\ text = J[n] /\ Len(<<>>) = 0
  BY <1>1, <1>4 DEF Joins
<1> HIDE DEF text, n, all, rest
<1>6. ASSUME NEW r \in 0 .. n - 1
      PROVE  /\ Len(J[r]) \in Nat /\ Len(J[r + 1]) = Len(J[r]) + 60 + rest(r)
             /\ Holds(text, Len(J[r]), HexRow(buf, 16 * r))
  <2> DEFINE row == HexRow(buf, 16 * r)
  <2>1. r + 1 \in 1 .. n /\ (r + 1) - 1 = r /\ all[r + 1] = row
    <3>1. r + 1 \in 1 .. n /\ all[r + 1] = row
      BY <1>1
    <3> HIDE DEF row
    <3>2. QED
      BY <1>1, <3>1
  <2>2. Placed(all, J, n, r + 1)
    <3>1. \A m \in 1 .. n : Placed(all, J, n, m)
      BY <1>1, <1>4, JoinsPlaces
    <3>2. QED
      BY <2>1, <3>1
  <2>3. Len(row) = 60 + rest(r) /\ rest(r) \in 1 .. 16
    BY <1>3
  <2> HIDE DEF row
  <2>4. /\ Len(J[r]) \in Nat /\ Len(J[r + 1]) \in Nat
        /\ Len(J[n]) \in Nat /\ Len(row) \in Nat
        /\ Len(J[r + 1]) = Len(J[r]) + Len(row) /\ Len(J[r + 1]) <= Len(J[n])
        /\ \A j \in 1 .. Len(row) : J[n][Len(J[r]) + j] = row[j]
    BY <2>1, <2>2 DEF Placed
  <2>5. Len(J[r]) + Len(row) <= Len(J[n])
    BY <2>4
  <2>6. Holds(text, Len(J[r]), row)
    BY <1>5, <2>4, <2>5, Zenon DEF Holds
  <2>7. Len(J[r + 1]) = Len(J[r]) + 60 + rest(r)
    <3> DEFINE x == Len(J[r])
               y == Len(J[r + 1])
               z == rest(r)
    <3>1. x \in Nat
      BY <2>4, Zenon
    <3>2. y = x + (60 + z)
      BY <2>3, <2>4, Zenon
    <3>3. z \in 1 .. 16
      BY <2>3, Zenon
    <3> HIDE DEF x, y, z
    <3>4. y = x + 60 + z
      BY <3>1, <3>2, <3>3
    <3>5. QED
      BY <3>4 DEF x, y, z
  <2>8. QED
    BY <2>4, <2>6, <2>7 DEF row
<1> DEFINE Done == {m \in Nat : m <= n - 1 => Len(J[m]) = m * 76}
<1>7. 0 \in Done
  BY <1>5
<1>8. ASSUME NEW m \in Nat, m \in Done PROVE m + 1 \in Done
  <2>1. SUFFICES ASSUME m + 1 <= n - 1 PROVE Len(J[m + 1]) = (m + 1) * 76
    OBVIOUS
  <2>2. m \in 0 .. n - 1 /\ m < n - 1 /\ Len(J[m]) = m * 76
    BY <1>1, <1>8, <2>1
  <2>3. Len(J[m + 1]) = Len(J[m]) + 60 + rest(m) /\ rest(m) = 16
    BY <1>1, <1>6, <2>2
  <2>4. QED
    BY <2>2, <2>3
<1> HIDE DEF Done
<1>9. \A m \in Nat : m \in Done
  BY <1>7, <1>8, Induction
<1>10. ASSUME NEW r \in 0 .. n - 1
       PROVE  /\ SubSeq(text, (r * 76) + 1, (r * 76) + 60 + rest(r)) = HexRow(buf, 16 * r)
              /\ Len(J[r]) = r * 76
  <2> DEFINE row == HexRow(buf, 16 * r)
  <2>1. Len(J[r]) = r * 76
    <3>1. r \in Nat /\ r <= n - 1
      BY <1>1
    <3>2. QED
      BY <1>9, <3>1 DEF Done
  <2>2. row \in Seq(0 .. 255) /\ Len(row) = 60 + rest(r) /\ rest(r) \in 1 .. 16
    BY <1>3
  <2>3. Holds(text, r * 76, row)
    BY <1>6, <2>1
  <2> HIDE DEF row
  <2>4. SubSeq(text, (r * 76) + 1, (r * 76) + Len(row)) = row
    BY <1>2, <2>2, <2>3, HoldsSubSeq
  <2>5. (r * 76) + Len(row) = (r * 76) + 60 + rest(r)
    <3> DEFINE x == r * 76
               z == rest(r)
    <3>1. x \in Nat
      BY <1>1
    <3>2. Len(row) = 60 + z /\ z \in 1 .. 16
      BY <2>2, Zenon
    <3> HIDE DEF x, z
    <3>3. x + Len(row) = x + 60 + z
      BY <3>1, <3>2
    <3>4. QED
      BY <3>3 DEF x, z
  <2>6. QED
    BY <2>1, <2>4, <2>5 DEF row
<1>11. Len(text) = IF n = 0 THEN 0 ELSE ((n - 1) * 76) + 60 + rest(n - 1)
  <2>1. CASE n = 0
    BY <1>5, <2>1
  <2>2. CASE n # 0
    <3>1. n - 1 \in 0 .. n - 1 /\ (n - 1) + 1 = n
      BY <1>1, <2>2
    <3>2. Len(J[(n - 1) + 1]) = Len(J[n - 1]) + 60 + rest(n - 1)
      BY <1>6, <3>1
    <3>3. Len(J[n - 1]) = (n - 1) * 76
      BY <1>10, <3>1
    <3>4. QED
      BY <1>5, <2>2, <3>1, <3>2, <3>3
  <2>3. QED
    BY <2>1, <2>2
<1>12. \A r \in 0 .. n - 1 : RowOf(buf, 16 * r, rest(r), SubSeq(text, (r * 76) + 1, (r * 76) + 60 + rest(r)))
  BY <1>3, <1>10
<1>13. QED
  <2> DEFINE left(r) == IF Len(buf) >= 16 * (r + 1) THEN 16 ELSE Len(buf) - 16 * r
             row(r) == SubSeq(text, r * 76 + 1, r * 76 + 60 + left(r))
             column(j) == 7 + 3 * j + (IF j > 7 THEN 1 ELSE 0)
  <2>1. ASSUME NEW r \in 0 .. n - 1 PROVE left(r) = rest(r)
    <3>1. 16 * r + 16 = 16 * (r + 1)
      BY <1>1
    <3>2. QED
      BY <1>1, <3>1 DEF Rest, rest
  <2>2. Len(text) = IF n = 0 THEN 0 ELSE (n - 1) * 76 + 60 + left(n - 1)
    <3>1. n # 0 => n - 1 \in 0 .. n - 1
      BY <1>1
    <3> HIDE DEF left
    <3>2. n # 0 => left(n - 1) = rest(n - 1)
      BY <2>1, <3>1
    <3>3. QED
      BY <1>11, <3>2
  <2>3. ASSUME NEW r \in 0 .. n - 1
        PROVE  /\ SubSeq(row(r), 1, 4) = Numeral(16 * r, 16, 4)
               /\ row(r)[57] = BAR /\ SubSeq(row(r), 58 + left(r), 60 + left(r)) = <<BAR, CR, LF>>
               /\ \A j \in 0 .. left(r) - 1 :
                   /\ SubSeq(row(r), column(j), column(j) + 1) = Numeral(buf[16 * r + j + 1], 16, 2)
                   /\ row(r)[58 + j] \in {buf[16 * r + j + 1], DOT}
    <3> DEFINE w == row(r)
               l == left(r)
    <3>1. RowOf(buf, 16 * r, l, w)
      <4>1. l = rest(r)
        BY <2>1
      <4> HIDE DEF l
      <4>2. w = SubSeq(text, (r * 76) + 1, (r * 76) + 60 + rest(r))
        BY <4>1 DEF l
      <4>3. QED
        BY <1>12, <4>1, <4>2
    <3>2. l \in 1 .. 16
      BY <1>3, <2>1
    <3> HIDE DEF w, l
    <3>3. ASSUME NEW j \in 0 .. l - 1
          PROVE  SubSeq(w, column(j), column(j) + 1) = Numeral(buf[16 * r + j + 1], 16, 2)
      <4>1. 6 + Column(j) + 1 = column(j) /\ 6 + Column(j) + 2 = column(j) + 1
        BY <3>2 DEF Column
      <4>2. SubSeq(w, 6 + Column(j) + 1, 6 + Column(j) + 2) = Numeral(buf[16 * r + j + 1], 16, 2)
        BY <3>1 DEF RowOf
      <4>3. QED
        BY <4>1, <4>2
    <3>4. QED
      BY <3>1, <3>3 DEF RowOf, w, l
  <2>4. QED
    BY <2>2, <2>3, Zenon DEF DumpOf, text, n

-------------------------------------------------------------------------------
(* What a call hands over is text, and says what the call means.           *)
LEMMA TextType ==
  ASSUME NEW call, WellTyped(call)
  PROVE  Text(call) \in Seq(0 .. 255)
<1>1. CASE call.op = "printf"
  BY <1>1, PrintfPrints, FlattenType
<1>2. CASE call.op # "printf"
  BY <1>2, DumpType DEF WellTyped, Text
<1>3. QED
  BY <1>1, <1>2

LEMMA TextMeans ==
  ASSUME NEW call, WellTyped(call), Printable(call)
  PROVE  IF call.op = "printf"
         THEN Text(call) = FlattenSeq([i \in 1 .. Len(call.pieces) |-> Meaning(call.pieces[i])])
         ELSE DumpOf(call.bytes, Text(call))
<1>1. CASE call.op = "printf"
  <2>1. ASSUME NEW i \in 1 .. Len(call.pieces) PROVE Printed(call.pieces[i]) = Meaning(call.pieces[i])
    <3>1. PieceOK(call.pieces[i]) /\ (call.pieces[i].conv = "d" => call.pieces[i].arg # IntMin)
      BY <1>1 DEF WellTyped, Printable
    <3>2. QED
      BY <3>1, PrintedMeans
  <2>2. [i \in 1 .. Len(call.pieces) |-> Printed(call.pieces[i])]
        = [i \in 1 .. Len(call.pieces) |-> Meaning(call.pieces[i])]
    BY <2>1
  <2>3. Text(call) = FlattenSeq([i \in 1 .. Len(call.pieces) |-> Printed(call.pieces[i])])
    BY <1>1, PrintfPrints
  <2>4. QED
    BY <1>1, <2>2, <2>3
<1>2. CASE call.op # "printf"
  <2>1. call.bytes \in Seq(0 .. 255) /\ Len(call.bytes) <= 16 ^ 4 /\ Text(call) = console_hexdump(call.bytes)
    BY <1>2 DEF WellTyped, Printable, Text
  <2>2. DumpOf(call.bytes, console_hexdump(call.bytes))
    BY <2>1, DumpReads
  <2>3. QED
    BY <1>2, <2>1, <2>2
<1>3. QED
  BY <1>1, <1>2

-------------------------------------------------------------------------------
(* The characters of h at its first n places, but for the places gone.     *)
Kept(h, n, gone) == FlattenSeq([i \in 1 .. n |-> IF i \in gone THEN <<>> ELSE <<h[i]>>])

LEMMA KeptGrows ==
  ASSUME NEW h \in Seq(0 .. 255), NEW gone, NEW n \in Nat, n < Len(h)
  PROVE  /\ Kept(h, n, gone) \in Seq(0 .. 255)
         /\ n + 1 \in gone => Kept(h, n + 1, gone) = Kept(h, n, gone)
         /\ n + 1 \notin gone => Kept(h, n + 1, gone) = Kept(h, n, gone) \o <<h[n + 1]>>
<1> DEFINE part(i) == IF i \in gone THEN <<>> ELSE <<h[i]>>
           old == [i \in 1 .. n |-> part(i)]
           new == [i \in 1 .. n + 1 |-> part(i)]
<1>1. ASSUME NEW i \in 1 .. n + 1 PROVE part(i) \in Seq(0 .. 255)
  <2>1. h[i] \in 0 .. 255
    <3>1. i \in 1 .. Len(h)
      OBVIOUS
    <3>2. QED
      BY <3>1, ElementOf
  <2>2. <<>> \in Seq(0 .. 255) /\ <<h[i]>> \in Seq(0 .. 255)
    BY <2>1
  <2>3. QED
    BY <2>2
<1> HIDE DEF part
<1>2. old \in [1 .. n -> Seq(0 .. 255)] /\ \A i \in 1 .. n : old[i] = part(i)
  BY <1>1
<1>3. n + 1 \in Nat /\ n + 1 \in Int /\ n \in Int /\ n + 1 > 0
      /\ new \in [1 .. n + 1 -> Seq(0 .. 255)] /\ \A i \in 1 .. n + 1 : new[i] = part(i)
  BY <1>1
<1> HIDE DEF old, new
<1>4. old \in Seq(Seq(0 .. 255)) /\ Len(old) = n
  <2>1. old \in Seq(Seq(0 .. 255)) /\ Len(old) = (IF n > 0 THEN n ELSE 0)
    BY <1>2, <1>3, ByPosition
  <2>2. QED
    BY <2>1
<1>5. new \in Seq(Seq(0 .. 255)) /\ Len(new) = n + 1
  <2> DEFINE m == n + 1
  <2>1. m \in Int /\ m > 0 /\ new \in [1 .. m -> Seq(0 .. 255)]
    BY <1>3
  <2> HIDE DEF m
  <2>2. new \in Seq(Seq(0 .. 255)) /\ Len(new) = (IF m > 0 THEN m ELSE 0)
    BY <2>1, ByPosition
  <2>3. QED
    BY <2>1, <2>2 DEF m
<1>6. part(n + 1) \in Seq(0 .. 255)
  BY <1>1
<1>7. new = Append(old, part(n + 1))
  <2>1. Append(old, part(n + 1)) \in Seq(Seq(0 .. 255)) /\ Len(Append(old, part(n + 1))) = n + 1
    BY <1>4, <1>6
  <2>2. ASSUME NEW i \in 1 .. n + 1 PROVE Append(old, part(n + 1))[i] = new[i]
    BY <1>2, <1>3, <1>4, <1>6
  <2>3. QED
    BY <1>5, <2>1, <2>2
<1>8. FlattenSeq(new) = FlattenSeq(old) \o part(n + 1) /\ FlattenSeq(old) \in Seq(0 .. 255)
  BY <1>4, <1>6, <1>7, FlattenAppend
<1>9. Kept(h, n + 1, gone) = FlattenSeq(new) /\ Kept(h, n, gone) = FlattenSeq(old)
  BY Zenon DEF Kept, part, old, new
<1>10. QED
  <2>1. CASE n + 1 \in gone
    <3>1. part(n + 1) = <<>>
      BY <2>1 DEF part
    <3>2. FlattenSeq(old) \o part(n + 1) = FlattenSeq(old)
      BY <1>8, <3>1
    <3>3. QED
      BY <1>8, <1>9, <2>1, <3>2
  <2>2. CASE n + 1 \notin gone
    <3>1. part(n + 1) = <<h[n + 1]>>
      BY <2>2 DEF part
    <3>2. QED
      BY <1>8, <1>9, <2>2, <3>1
  <2>3. QED
    BY <2>1, <2>2

LEMMA KeptNone ==
  ASSUME NEW h, NEW gone
  PROVE  Kept(h, 0, gone) = <<>>
<1>1. [i \in 1 .. 0 |-> IF i \in gone THEN <<>> ELSE <<h[i]>>] = <<>>
  OBVIOUS
<1>2. QED
  BY <1>1, FlattenEmpty DEF Kept

LEMMA KeptType ==
  ASSUME NEW h \in Seq(0 .. 255), NEW gone, NEW n \in 0 .. Len(h)
  PROVE  Kept(h, n, gone) \in Seq(0 .. 255)
<1>1. CASE n < Len(h)
  <2>1. n \in Nat
    OBVIOUS
  <2>2. QED
    BY <1>1, <2>1, KeptGrows
<1>2. CASE n = 0
  <2>1. <<>> \in Seq(0 .. 255)
    OBVIOUS
  <2>2. QED
    BY <1>2, <2>1, KeptNone
<1>3. CASE n = Len(h) /\ n # 0
  <2> DEFINE m == n - 1
  <2>1. m \in Nat /\ m < Len(h) /\ m + 1 = n
    BY <1>3
  <2>2. h[n] \in 0 .. 255
    <3>1. n \in 1 .. Len(h)
      BY <1>3
    <3>2. QED
      BY <3>1, ElementOf
  <2> HIDE DEF m
  <2>3. /\ Kept(h, m, gone) \in Seq(0 .. 255)
        /\ m + 1 \in gone => Kept(h, m + 1, gone) = Kept(h, m, gone)
        /\ m + 1 \notin gone => Kept(h, m + 1, gone) = Kept(h, m, gone) \o <<h[m + 1]>>
    BY <2>1, KeptGrows
  <2>4. Kept(h, m, gone) \o <<h[n]>> \in Seq(0 .. 255)
    BY <2>2, <2>3
  <2>5. QED
    BY <2>1, <2>3, <2>4
<1>4. QED
  BY <1>1, <1>2, <1>3

(* Only the first n places matter.                                         *)
LEMMA KeptAgrees ==
  ASSUME NEW g, NEW h, NEW gone, NEW lack, NEW n \in Nat,
         \A i \in 1 .. n : g[i] = h[i] /\ (i \in gone <=> i \in lack)
  PROVE  Kept(g, n, gone) = Kept(h, n, lack)
<1>1. [i \in 1 .. n |-> IF i \in gone THEN <<>> ELSE <<g[i]>>]
      = [i \in 1 .. n |-> IF i \in lack THEN <<>> ELSE <<h[i]>>]
  OBVIOUS
<1>2. QED
  BY <1>1 DEF Kept

(* The last character that is kept.                                        *)
LEMMA KeptLast ==
  ASSUME NEW h \in Seq(0 .. 255), NEW gone, NEW k \in 0 .. Len(h), NEW n \in 1 .. k,
         n \notin gone, n + 1 .. k \subseteq gone
  PROVE  Kept(h, k, gone) = Kept(h, k, gone \cup {n}) \o <<h[n]>>
<1> DEFINE lack == gone \cup {n}
           Done == {m \in Nat : m \in n .. k => Kept(h, m, gone) = Kept(h, m, lack) \o <<h[n]>>}
<1>0. Len(h) \in Nat /\ k \in Nat /\ n \in Nat /\ k <= Len(h) /\ n \in n .. k
      /\ \A i \in n + 1 .. k : i \in gone /\ i \in lack
  OBVIOUS
<1>1. Kept(h, n, gone) = Kept(h, n, lack) \o <<h[n]>>
  <2> DEFINE m == n - 1
  <2>1. m \in Nat /\ m < Len(h) /\ m + 1 = n /\ n \in lack
    BY <1>0
  <2>2. \A i \in 1 .. m : h[i] = h[i] /\ (i \in gone <=> i \in lack)
    BY <1>0
  <2> HIDE DEF m, lack
  <2>3. Kept(h, m, gone) = Kept(h, m, lack)
    BY <2>1, <2>2, KeptAgrees
  <2>4. Kept(h, n, lack) = Kept(h, m, lack)
    BY <2>1, KeptGrows
  <2>5. Kept(h, n, gone) = Kept(h, m, gone) \o <<h[n]>>
    BY <2>1, KeptGrows
  <2>6. QED
    BY <2>3, <2>4, <2>5
<1>2. 0 \in Done
  BY <1>0
<1>3. ASSUME NEW m \in Nat, m \in Done PROVE m + 1 \in Done
  <2> HIDE DEF lack
  <2>1. SUFFICES ASSUME m + 1 \in n .. k PROVE Kept(h, m + 1, gone) = Kept(h, m + 1, lack) \o <<h[n]>>
    OBVIOUS
  <2>2. CASE m + 1 = n
    BY <1>1, <2>2
  <2>3. CASE m + 1 # n
    <3>1. m \in n .. k /\ m + 1 \in n + 1 .. k /\ m < Len(h)
      BY <1>0, <2>1, <2>3
    <3>2. m + 1 \in gone /\ m + 1 \in lack
      BY <1>0, <3>1
    <3>3. Kept(h, m, gone) = Kept(h, m, lack) \o <<h[n]>>
      BY <1>3, <3>1
    <3>4. Kept(h, m + 1, gone) = Kept(h, m, gone) /\ Kept(h, m + 1, lack) = Kept(h, m, lack)
      BY <3>1, <3>2, KeptGrows
    <3>5. QED
      BY <3>3, <3>4
  <2>4. QED
    BY <2>2, <2>3
<1> HIDE DEF Done
<1>4. \A m \in Nat : m \in Done
  BY <1>2, <1>3, Induction
<1>5. k \in n .. k /\ k \in Done
  BY <1>0, <1>4
<1>6. QED
  <2> HIDE DEF lack
  <2>1. Kept(h, k, gone) = Kept(h, k, lack) \o <<h[n]>>
    BY <1>5 DEF Done
  <2>2. QED
    BY <2>1 DEF lack

(* Beyond the last place that is gone, all are kept.                       *)
LEMMA KeptTail ==
  ASSUME NEW h \in Seq(0 .. 255), NEW w \in Seq(0 .. 255), NEW gone, NEW k \in Nat,
         k + Len(w) = Len(h), \A i \in 1 .. Len(w) : w[i] = h[k + i],
         gone \subseteq 1 .. k
  PROVE  Kept(h, Len(h), gone) = Kept(h, k, gone) \o w
<1> DEFINE A == Kept(h, k, gone)
           X(j) == Kept(h, k + j, gone)
           Says1(j) == /\ X(j) \in Seq(0 .. 255) /\ Len(X(j)) = Len(A) + j
                       /\ \A p \in 1 .. Len(A) : X(j)[p] = A[p]
                       /\ \A p \in 1 .. j : X(j)[Len(A) + p] = w[p]
           Done == {j \in Nat : j <= Len(w) => Says1(j)}
<1>0. Len(h) \in Nat /\ Len(w) \in Nat
  OBVIOUS
<1>1. A \in Seq(0 .. 255)
  BY <1>0, KeptType
<1>2. X(0) = A
  OBVIOUS
<1>3. ASSUME NEW j \in Nat, j < Len(w)
      PROVE  X(j + 1) = X(j) \o <<w[j + 1]>> /\ w[j + 1] \in 0 .. 255
  <2> DEFINE m == k + j
  <2>1. m \in Nat /\ m < Len(h) /\ m + 1 = k + (j + 1) /\ j + 1 \in 1 .. Len(w)
    BY <1>0, <1>3
  <2>2. m + 1 \notin gone
    BY <1>3
  <2>3. w[j + 1] = h[m + 1] /\ w[j + 1] \in 0 .. 255
    BY <2>1, ElementOf
  <2> HIDE DEF m
  <2>4. Kept(h, m + 1, gone) = Kept(h, m, gone) \o <<h[m + 1]>>
    BY <2>1, <2>2, KeptGrows
  <2>5. QED
    BY <2>1, <2>3, <2>4 DEF m
<1> HIDE DEF X, A
<1>4. Len(A) \in Nat
  BY <1>1
<1>5. 0 \in Done
  BY <1>1, <1>2, <1>4
<1>6. ASSUME NEW j \in Nat, j \in Done PROVE j + 1 \in Done
  <2>1. SUFFICES ASSUME j + 1 <= Len(w) PROVE Says1(j + 1)
    OBVIOUS
  <2>2. Says1(j) /\ j < Len(w)
    BY <1>0, <1>6, <2>1
  <2> DEFINE e == <<w[j + 1]>>
             old == X(j)
             new == X(j + 1)
  <2>3. new = old \o e /\ e \in Seq(0 .. 255) /\ Len(e) = 1 /\ e[1] = w[j + 1]
    BY <1>3, <2>2
  <2>4. old \in Seq(0 .. 255) /\ Len(old) = Len(A) + j
        /\ (\A p \in 1 .. Len(A) : old[p] = A[p])
        /\ (\A p \in 1 .. j : old[Len(A) + p] = w[p])
    BY <2>2
  <2> HIDE DEF e, old, new
  <2>5. /\ new \in Seq(0 .. 255) /\ Len(new) = Len(old) + Len(e)
        /\ \A p \in 1 .. Len(old) : new[p] = old[p]
        /\ \A p \in 1 .. Len(e) : new[Len(old) + p] = e[p]
    <3>1. new = old \o e /\ old \in Seq(0 .. 255) /\ e \in Seq(0 .. 255)
      BY <2>3, <2>4
    <3>2. QED
      BY <3>1, Concatenates
  <2>6. Len(new) = Len(A) + (j + 1)
    BY <1>4, <2>3, <2>4, <2>5
  <2>7. ASSUME NEW p \in 1 .. Len(A) PROVE new[p] = A[p]
    BY <1>4, <2>4, <2>5
  <2>8. ASSUME NEW p \in 1 .. j + 1 PROVE new[Len(A) + p] = w[p]
    <3>1. CASE p = j + 1
      <4>1. Len(A) + p = Len(old) + 1 /\ 1 \in 1 .. Len(e)
        BY <1>4, <2>3, <2>4, <3>1
      <4>2. QED
        BY <2>3, <2>5, <3>1, <4>1
    <3>2. CASE p # j + 1
      <4>1. p \in 1 .. j /\ Len(A) + p \in 1 .. Len(old)
        BY <1>4, <2>4, <3>2
      <4>2. QED
        BY <2>4, <2>5, <4>1
    <3>3. QED
      BY <3>1, <3>2
  <2>9. QED
    BY <2>5, <2>6, <2>7, <2>8 DEF new
<1> HIDE DEF Done
<1>7. \A j \in Nat : j \in Done
  BY <1>5, <1>6, Induction
<1>8. Says1(Len(w))
  BY <1>0, <1>7 DEF Done
<1> DEFINE all == A \o w
<1>9. /\ all \in Seq(0 .. 255) /\ Len(all) = Len(A) + Len(w)
      /\ \A p \in 1 .. Len(A) : all[p] = A[p]
      /\ \A p \in 1 .. Len(w) : all[Len(A) + p] = w[p]
  <2>1. all = A \o w
    OBVIOUS
  <2> HIDE DEF all
  <2>2. QED
    BY <1>1, <2>1, Concatenates
<1> DEFINE last == X(Len(w))
<1>10. /\ last \in Seq(0 .. 255) /\ Len(last) = Len(A) + Len(w)
       /\ \A p \in 1 .. Len(A) : last[p] = A[p]
       /\ \A p \in 1 .. Len(w) : last[Len(A) + p] = w[p]
  BY <1>8
<1> HIDE DEF all, last
<1>11. ASSUME NEW p \in 1 .. Len(all) PROVE last[p] = all[p]
  <2>1. CASE p <= Len(A)
    BY <1>4, <1>9, <1>10, <2>1
  <2>2. CASE p > Len(A)
    <3> DEFINE q == p - Len(A)
    <3>1. q \in 1 .. Len(w) /\ Len(A) + q = p
      BY <1>0, <1>4, <1>9, <2>2
    <3> HIDE DEF q
    <3>2. QED
      BY <1>9, <1>10, <3>1
  <2>3. QED
    BY <1>4, <1>9, <2>1, <2>2
<1>12. last = all
  <2>1. last \in Seq(0 .. 255) /\ all \in Seq(0 .. 255) /\ Len(last) = Len(all)
    BY <1>9, <1>10
  <2>2. QED
    BY <1>11, <2>1
<1>13. QED
  BY <1>12 DEF last, all, X, A

-------------------------------------------------------------------------------
(* The characters of t on a line.                                          *)
Of(t, line) == FlattenSeq([i \in 1 .. Len(line) |-> IF line[i].of = t THEN <<line[i].char>> ELSE <<>>])

OnTheLine(line, e) == line \in Seq(Entry) /\ e \in Entry
GrowsBy(t, line, e) ==
  /\ Of(t, line) \in Seq(0 .. 255) /\ line \o <<e>> \in Seq(Entry)
  /\ e.of = t => Of(t, line \o <<e>>) = Of(t, line) \o <<e.char>>
  /\ e.of # t => Of(t, line \o <<e>>) = Of(t, line)

LEMMA OfGrows ==
  ASSUME NEW t, NEW line, NEW e, OnTheLine(line, e)
  PROVE  GrowsBy(t, line, e)
<1> DEFINE part(d) == IF d.of = t THEN <<d.char>> ELSE <<>>
           n == Len(line)
           more == line \o <<e>>
           old == [i \in 1 .. n |-> part(line[i])]
           new == [i \in 1 .. Len(more) |-> part(more[i])]
           last == part(e)
<1>0. line \in Seq(Entry) /\ e \in Entry
  BY DEF OnTheLine
<1>1. ASSUME NEW d \in Entry PROVE part(d) \in Seq(0 .. 255)
  <2>1. d.char \in 0 .. 255
    BY DEF Entry
  <2>2. <<>> \in Seq(0 .. 255) /\ <<d.char>> \in Seq(0 .. 255)
    BY <2>1
  <2>3. QED
    BY <2>2
<1>2. more \in Seq(Entry) /\ Len(more) = n + 1 /\ n \in Nat /\ n \in Int /\ more[n + 1] = e
      /\ \A i \in 1 .. n : more[i] = line[i] /\ line[i] \in Entry
  <2> DEFINE f == <<e>>
  <2>1. f \in Seq(Entry) /\ Len(f) = 1 /\ f[1] = e /\ more = line \o f
    BY <1>0
  <2> HIDE DEF f, more
  <2>2. /\ more \in Seq(Entry) /\ Len(more) = Len(line) + Len(f) /\ Len(line) \in Nat
        /\ \A p \in 1 .. Len(line) : more[p] = line[p]
        /\ \A p \in 1 .. Len(f) : more[Len(line) + p] = f[p]
    <3>1. line \in Seq(Entry) /\ f \in Seq(Entry) /\ more = line \o f
      BY <1>0, <2>1
    <3>2. QED
      BY <3>1, Concatenates
  <2>3. more[n + 1] = e
    BY <2>1, <2>2
  <2>4. QED
    BY <1>0, <2>1, <2>2, <2>3, ElementOf
<1> HIDE DEF part, more, n
<1>3. old \in [1 .. n -> Seq(0 .. 255)] /\ \A i \in 1 .. n : old[i] = part(line[i])
  BY <1>1, <1>2
<1>4. last \in Seq(0 .. 255)
  BY <1>0, <1>1
<1>5. new = [i \in 1 .. n + 1 |-> IF i = n + 1 THEN last ELSE part(line[i])]
  BY <1>2
<1> HIDE DEF old, last
<1>6. old \in Seq(Seq(0 .. 255)) /\ Len(old) = n
  <2>1. old \in Seq(Seq(0 .. 255)) /\ Len(old) = (IF n > 0 THEN n ELSE 0)
    BY <1>2, <1>3, ByPosition
  <2>2. QED
    BY <1>2, <2>1
<1>7. new = Append(old, last)
  <2> DEFINE all == Append(old, last)
  <2>1. all \in Seq(Seq(0 .. 255)) /\ Len(all) = n + 1
    BY <1>4, <1>6
  <2>2. all[n + 1] = last /\ \A i \in 1 .. n : all[i] = old[i]
    BY <1>4, <1>6
  <2> HIDE DEF all
  <2>3. all = [i \in 1 .. n + 1 |-> all[i]]
    BY <1>2, <2>1
  <2>4. ASSUME NEW i \in 1 .. n + 1 PROVE all[i] = IF i = n + 1 THEN last ELSE part(line[i])
    BY <1>2, <1>3, <2>2
  <2> HIDE DEF new
  <2>5. QED
    BY <1>5, <2>3, <2>4 DEF all
<1> HIDE DEF new
<1>8. FlattenSeq(new) = FlattenSeq(old) \o last /\ FlattenSeq(old) \in Seq(0 .. 255)
  BY <1>4, <1>6, <1>7, FlattenAppend
<1>9. Of(t, more) = FlattenSeq(new) /\ Of(t, line) = FlattenSeq(old)
  BY Zenon DEF Of, part, old, new, n
<1>10. (e.of = t => last = <<e.char>>) /\ (e.of # t => last = <<>>)
  BY DEF last, part
<1>11. ASSUME e.of = t PROVE Of(t, line \o <<e>>) = Of(t, line) \o <<e.char>>
  BY <1>2, <1>8, <1>9, <1>10, <1>11, Zenon DEF more
<1>12. ASSUME e.of # t PROVE Of(t, line \o <<e>>) = Of(t, line)
  <2>1. FlattenSeq(old) \o last = FlattenSeq(old)
    BY <1>8, <1>10, <1>12
  <2>2. QED
    BY <1>2, <1>8, <1>9, <1>12, <2>1, Zenon DEF more
<1>13. Of(t, line) \in Seq(0 .. 255) /\ line \o <<e>> \in Seq(Entry)
  BY <1>2, <1>8, <1>9 DEF more
<1>14. QED
  BY <1>11, <1>12, <1>13, Zenon DEF GrowsBy

(* What t has sent but for its character in the buffer, while it has still *)
(* to send w of h: the characters of h before w, but for those that were   *)
(* lost and the one in the buffer, the last that is left of them.          *)
Pending(t, b) == IF b # <<>> /\ b[1].of = t THEN {b[1].nth} ELSE {}

Stream(t, h, w, l, b, base) ==
  LET k == Len(h) - Len(w) IN
  /\ h \in Seq(0 .. 255) /\ w \in Seq(0 .. 255) /\ k \in Nat
  /\ \A i \in 1 .. Len(w) : w[i] = h[k + i]
  /\ l \cup Pending(t, b) \subseteq 1 .. k
  /\ \A n \in Pending(t, b) : n \notin l /\ b[1].char = h[n] /\ n + 1 .. k \subseteq l
  /\ Of(t, base) = Kept(h, k, l \cup Pending(t, b))

LEMMA StreamStarts ==
  ASSUME NEW t
  PROVE  Stream(t, <<>>, <<>>, {}, <<>>, <<>>)
<1>1. <<>> \in Seq(0 .. 255) /\ Len(<<>>) = 0
  OBVIOUS
<1>2. Pending(t, <<>>) = {}
  BY DEF Pending
<1>3. Of(t, <<>>) = <<>>
  <2>1. [i \in 1 .. 0 |-> IF <<>>[i].of = t THEN <<<<>>[i].char>> ELSE <<>>] = <<>>
    OBVIOUS
  <2>2. QED
    BY <1>1, <2>1, FlattenEmpty DEF Of
<1>4. QED
  <2> DEFINE none == <<>>
  <2>1. none \in Seq(0 .. 255) /\ Len(none) = 0 /\ Pending(t, none) = {} /\ Of(t, none) = none
        /\ Kept(none, 0, {}) = none
    BY <1>1, <1>2, <1>3, KeptNone
  <2> HIDE DEF none
  <2>2. Stream(t, none, none, {}, none, none)
    BY <2>1 DEF Stream
  <2>3. QED
    BY <2>2 DEF none

LEMMA StreamCalls ==
  ASSUME NEW t, NEW h, NEW w, NEW l, NEW b, NEW base, Stream(t, h, w, l, b, base),
         w = <<>>, NEW text \in Seq(0 .. 255)
  PROVE  Stream(t, h \o text, text, l, b, base)
<1> DEFINE k == Len(h) - Len(w)
           long == h \o text
           gone == l \cup Pending(t, b)
<1>1. /\ h \in Seq(0 .. 255) /\ gone \subseteq 1 .. k
      /\ (\A n \in Pending(t, b) : n \notin l /\ b[1].char = h[n] /\ n + 1 .. k \subseteq l)
      /\ Of(t, base) = Kept(h, k, gone)
  BY DEF Stream
<1>2. k = Len(h) /\ Len(h) \in Nat
  <2>1. Len(w) = 0
    OBVIOUS
  <2>2. QED
    BY <1>1, <2>1
<1>3. /\ long \in Seq(0 .. 255) /\ Len(long) = Len(h) + Len(text) /\ Len(text) \in Nat
      /\ \A p \in 1 .. Len(h) : long[p] = h[p]
      /\ \A p \in 1 .. Len(text) : long[Len(h) + p] = text[p]
  BY <1>1, Concatenation
<1> HIDE DEF k, long
<1>4. Len(long) - Len(text) = k
  BY <1>2, <1>3
<1>5. Kept(long, k, gone) = Kept(h, k, gone)
  <2> HIDE DEF gone
  <2>1. \A i \in 1 .. k : long[i] = h[i] /\ (i \in gone <=> i \in gone)
    BY <1>2, <1>3
  <2>2. QED
    BY <1>2, <2>1, KeptAgrees
<1>6. ASSUME NEW n \in Pending(t, b) PROVE b[1].char = long[n]
  <2>1. n \in 1 .. Len(h)
    BY <1>1, <1>2
  <2>2. QED
    BY <1>1, <1>3, <2>1
<1>7. QED
  <2>1. /\ long \in Seq(0 .. 255) /\ text \in Seq(0 .. 255) /\ k \in Nat
        /\ \A i \in 1 .. Len(text) : text[i] = long[k + i]
    BY <1>2, <1>3
  <2>2. \A n \in Pending(t, b) : n \notin l /\ b[1].char = long[n] /\ n + 1 .. k \subseteq l
    BY <1>1, <1>6
  <2>3. Of(t, base) = Kept(long, k, gone)
    BY <1>1, <1>5
  <2>4. Stream(t, long, text, l, b, base)
    BY <1>1, <1>4, <2>1, <2>2, <2>3, Zenon DEF Stream
  <2>5. QED
    BY <2>4 DEF long

(* A character of t is stored: it comes into the buffer, or it is lost.    *)
LEMMA StreamStores ==
  ASSUME NEW t, NEW h, NEW w, NEW l, NEW b, NEW base, Stream(t, h, w, l, b, base), w # <<>>,
         NEW m, NEW c,
         \/ /\ m = l \cup Pending(t, b) /\ Pending(t, c) = {Len(h) - Len(w) + 1}
            /\ c[1].char = Head(w)
         \/ c = b /\ m = l \cup {Len(h) - Len(w) + 1}
  PROVE  Stream(t, h, Tail(w), m, c, base)
<1> DEFINE k == Len(h) - Len(w)
           gone == l \cup Pending(t, b)
           more == gone \cup {k + 1}
           v == Tail(w)
<1>1. /\ h \in Seq(0 .. 255) /\ w \in Seq(0 .. 255) /\ k \in Nat
      /\ (\A i \in 1 .. Len(w) : w[i] = h[k + i])
      /\ gone \subseteq 1 .. k
      /\ (\A n \in Pending(t, b) : n \notin l /\ b[1].char = h[n] /\ n + 1 .. k \subseteq l)
      /\ Of(t, base) = Kept(h, k, gone)
  BY DEF Stream
<1>2. /\ Len(w) \in Nat /\ Len(w) >= 1 /\ Len(h) \in Nat /\ Head(w) = w[1]
      /\ v \in Seq(0 .. 255) /\ Len(v) = Len(w) - 1
      /\ \A i \in 1 .. Len(v) : v[i] = w[i + 1]
  BY <1>1
<1>3. Len(h) - Len(v) = k + 1 /\ k < Len(h)
  BY <1>1, <1>2
<1>4. ASSUME NEW i \in 1 .. Len(v) PROVE v[i] = h[(k + 1) + i]
  <2>1. i + 1 \in 1 .. Len(w) /\ k + (i + 1) = (k + 1) + i
    BY <1>1, <1>2
  <2> HIDE DEF v, k
  <2>2. QED
    BY <1>1, <1>2, <2>1
<1>5. Head(w) = h[k + 1]
  <2>1. 1 \in 1 .. Len(w)
    BY <1>2
  <2> HIDE DEF k
  <2>2. QED
    BY <1>1, <1>2, <2>1
<1>6. Of(t, base) = Kept(h, k + 1, more)
  <2> HIDE DEF k
  <2>1. \A i \in 1 .. k : h[i] = h[i] /\ (i \in gone <=> i \in more)
    BY <1>1
  <2> HIDE DEF gone, more
  <2>2. Kept(h, k, gone) = Kept(h, k, more)
    BY <1>1, <2>1, KeptAgrees
  <2>3. k + 1 \in more
    BY DEF more
  <2>4. Kept(h, k + 1, more) = Kept(h, k, more)
    <3>1. h \in Seq(0 .. 255) /\ k \in Nat /\ k < Len(h)
      BY <1>1, <1>3
    <3>2. QED
      BY <2>3, <3>1, KeptGrows
  <2>5. QED
    BY <1>1, <2>2, <2>4
<1>7. \/ m = gone /\ Pending(t, c) = {k + 1} /\ c[1].char = h[k + 1]
      \/ c = b /\ m = l \cup {k + 1}
  <2>1. CASE /\ m = gone /\ Pending(t, c) = {k + 1} /\ c[1].char = Head(w)
    <3> HIDE DEF k, gone
    <3>1. c[1].char = h[k + 1]
      BY <1>5, <2>1, Zenon
    <3>2. QED
      BY <2>1, <3>1, Zenon
  <2>2. CASE c = b /\ m = l \cup {k + 1}
    BY <2>2, Zenon
  <2>3. QED
    BY <2>1, <2>2, Zenon
<1> HIDE DEF k, v
<1>8. m \cup Pending(t, c) = more
  BY <1>7
<1>9. more \subseteq 1 .. k + 1
  BY <1>1
<1>10. ASSUME NEW n \in Pending(t, c)
       PROVE  n \notin m /\ c[1].char = h[n] /\ n + 1 .. k + 1 \subseteq m
  <2>1. CASE m = gone /\ Pending(t, c) = {k + 1} /\ c[1].char = h[k + 1]
    <3>1. n = k + 1 /\ n \notin gone
      BY <1>1, <2>1
    <3>2. n + 1 .. k + 1 \subseteq m
      BY <1>1, <3>1
    <3>3. QED
      BY <2>1, <3>1, <3>2
  <2>2. CASE c = b /\ m = l \cup {k + 1}
    <3>1. n \in Pending(t, b)
      BY <2>2
    <3>2. n \in 1 .. k /\ n \notin l /\ b[1].char = h[n] /\ n + 1 .. k \subseteq l
      BY <1>1, <3>1
    <3>3. n + 1 .. k + 1 \subseteq l \cup {k + 1}
      BY <1>1, <3>2
    <3>4. QED
      BY <1>1, <2>2, <3>2, <3>3
  <2>3. QED
    BY <1>7, <2>1, <2>2
<1>11. QED
  <2>1. k + 1 \in Nat
    BY <1>1
  <2> DEFINE p == Pending(t, c)
  <2>2. Of(t, base) = Kept(h, k + 1, m \cup p) /\ m \cup p \subseteq 1 .. k + 1
        /\ \A n \in p : n \notin m /\ c[1].char = h[n] /\ n + 1 .. k + 1 \subseteq m
    BY <1>6, <1>8, <1>9, <1>10
  <2> HIDE DEF p
  <2>3. Stream(t, h, v, m, c, base)
    BY <1>1, <1>2, <1>3, <1>4, <2>1, <2>2, Zenon DEF Stream, p
  <2>4. QED
    BY <2>3 DEF v

(* A character of another thread is stored: it may push that of t out.     *)
LEMMA StreamKeeps ==
  ASSUME NEW t, NEW h, NEW w, NEW l, NEW b, NEW base, Stream(t, h, w, l, b, base),
         NEW m, NEW c,
         \/ m = l \cup Pending(t, b) /\ Pending(t, c) = {}
         \/ c = b /\ m = l
  PROVE  Stream(t, h, w, m, c, base)
<1>1. CASE m = l \cup Pending(t, b) /\ Pending(t, c) = {}
  <2>1. m \cup Pending(t, c) = l \cup Pending(t, b)
    BY <1>1
  <2>2. QED
    BY <1>1, <2>1, Zenon DEF Stream
<1>2. CASE c = b /\ m = l
  BY <1>2, Zenon
<1>3. QED
  BY <1>1, <1>2

LEMMA StreamLoads ==
  ASSUME NEW t, NEW h, NEW w, NEW l, NEW e, NEW base, Stream(t, h, w, l, <<e>>, base),
         base \in Seq(Entry), e \in Entry
  PROVE  Stream(t, h, w, l, <<>>, base \o <<e>>)
<1> DEFINE k == Len(h) - Len(w)
           b == <<e>>
           none == <<>>
           line == base \o b
<1>1. /\ h \in Seq(0 .. 255) /\ w \in Seq(0 .. 255) /\ k \in Nat
      /\ (\A i \in 1 .. Len(w) : w[i] = h[k + i])
      /\ l \cup Pending(t, b) \subseteq 1 .. k
      /\ (\A n \in Pending(t, b) : n \notin l /\ b[1].char = h[n] /\ n + 1 .. k \subseteq l)
      /\ Of(t, base) = Kept(h, k, l \cup Pending(t, b))
  BY DEF Stream
<1>2. b # <<>> /\ b[1] = e
  OBVIOUS
<1>3. /\ e.of = t => Of(t, line) = Of(t, base) \o <<e.char>>
      /\ e.of # t => Of(t, line) = Of(t, base)
  <2>1. OnTheLine(base, e)
    BY DEF OnTheLine
  <2>2. GrowsBy(t, base, e)
    BY <2>1, OfGrows
  <2>3. QED
    BY <2>2, Zenon DEF GrowsBy
<1>4. Pending(t, none) = {}
  BY DEF Pending
<1>5. k \in 0 .. Len(h)
  BY <1>1
<1> HIDE DEF b, line, k, none
<1>6. Of(t, line) = Kept(h, k, l)
  <2>1. CASE e.of = t
    <3> DEFINE n == e.nth
    <3>1. Pending(t, b) = {n}
      BY <1>2, <2>1 DEF Pending
    <3> HIDE DEF n
    <3>2. n \in 1 .. k /\ n \notin l /\ e.char = h[n] /\ n + 1 .. k \subseteq l
      BY <1>1, <1>2, <3>1
    <3>3. Kept(h, k, l) = Kept(h, k, l \cup {n}) \o <<h[n]>>
      <4>1. h \in Seq(0 .. 255) /\ k \in 0 .. Len(h) /\ n \in 1 .. k /\ n \notin l /\ n + 1 .. k \subseteq l
        BY <1>1, <1>5, <3>2
      <4>2. QED
        BY <4>1, KeptLast
    <3>4. Of(t, line) = Kept(h, k, l \cup {n}) \o <<h[n]>>
      BY <1>1, <1>3, <2>1, <3>1, <3>2
    <3>5. QED
      BY <3>3, <3>4
  <2>2. CASE e.of # t
    <3>1. Pending(t, b) = {}
      BY <1>2, <2>2 DEF Pending
    <3>2. l \cup {} = l
      OBVIOUS
    <3>3. QED
      BY <1>1, <1>3, <2>2, <3>1, <3>2
  <2>3. QED
    BY <2>1, <2>2
<1>7. l \cup Pending(t, none) = l /\ l \subseteq 1 .. k
  BY <1>1, <1>4
<1>8. Stream(t, h, w, l, none, line)
  <2>1. \A n \in Pending(t, none) : n \notin l /\ none[1].char = h[n] /\ n + 1 .. k \subseteq l
    BY <1>4
  <2>2. QED
    BY <1>1, <1>6, <1>7, <2>1, Zenon DEF Stream, k
<1>9. QED
  BY <1>8 DEF none, line, b

(* What t has sent and what it has to send is h but for what was lost.     *)
LEMMA StreamSent ==
  ASSUME NEW t, NEW h, NEW w, NEW l, NEW b, NEW base, Stream(t, h, w, l, b, base),
         base \in Seq(Entry), b \in Buffers
  PROVE  Of(t, base \o b) \o w = Kept(h, Len(h), l) /\ Of(t, base \o b) \in Seq(0 .. 255)
<1>1. Stream(t, h, w, l, <<>>, base \o b) /\ base \o b \in Seq(Entry)
  <2>1. CASE b = <<>>
    <3>1. base \o b = base
      BY <2>1
    <3>2. QED
      BY <2>1, <3>1
  <2>2. CASE b # <<>>
    <3> DEFINE e == b[1]
    <3>1. b \in Seq(Entry) /\ Len(b) <= 1 /\ Len(b) \in Nat
      BY DEF Buffers
    <3>2. b = <<e>> /\ e \in Entry
      BY <2>2, <3>1, OneElement
    <3> HIDE DEF e
    <3>3. QED
      <4>1. GrowsBy(t, base, e)
        <5>1. OnTheLine(base, e)
          BY <3>2 DEF OnTheLine
        <5>2. QED
          BY <5>1, OfGrows
      <4>2. QED
        BY <3>2, <4>1, StreamLoads, Zenon DEF GrowsBy
  <2>3. QED
    BY <2>1, <2>2
<1> DEFINE k == Len(h) - Len(w)
           none == <<>>
           line == base \o b
<1>2. Pending(t, none) = {}
  BY DEF Pending
<1> HIDE DEF none, line
<1>3. Stream(t, h, w, l, none, line)
  BY <1>1 DEF none, line
<1>4. /\ h \in Seq(0 .. 255) /\ w \in Seq(0 .. 255) /\ k \in Nat
      /\ (\A i \in 1 .. Len(w) : w[i] = h[k + i])
      /\ l \cup Pending(t, none) \subseteq 1 .. k
      /\ Of(t, line) = Kept(h, k, l \cup Pending(t, none))
  BY <1>3 DEF Stream
<1>5. k + Len(w) = Len(h) /\ k \in 0 .. Len(h)
  BY <1>4
<1>6. l \cup Pending(t, none) = l
  BY <1>2
<1> HIDE DEF k
<1>7. Of(t, line) = Kept(h, k, l) /\ l \subseteq 1 .. k
  BY <1>4, <1>6
<1>8. Kept(h, Len(h), l) = Kept(h, k, l) \o w
  <2>1. /\ h \in Seq(0 .. 255) /\ w \in Seq(0 .. 255) /\ k \in Nat /\ k + Len(w) = Len(h)
        /\ \A i \in 1 .. Len(w) : w[i] = h[k + i]
        /\ l \subseteq 1 .. k
    BY <1>4, <1>5, <1>7
  <2>2. QED
    BY <2>1, KeptTail
<1>9. Kept(h, k, l) \in Seq(0 .. 255)
  BY <1>4, <1>5, KeptType
<1>10. QED
  BY <1>7, <1>8, <1>9 DEF line

-------------------------------------------------------------------------------
(* The inductive invariant behind the streams.                             *)
Handed(t) ==
  /\ lost[t] # {} => txor
  /\ called[t] = <<>> => handed[t] = <<>>
  /\ Len(called[t]) = 1 => handed[t] = Text(called[t][1])

StreamInv ==
  /\ TypeOK
  /\ todo \in [Thread -> Seq(0 .. 255)] /\ handed \in [Thread -> Seq(0 .. 255)]
  /\ lost \in [Thread -> SUBSET Nat]
  /\ called \in [Thread -> Seq(AllCalls)]
  /\ ~up => buffer = <<>> /\ \A t \in Thread : at[t] = "idle"
  /\ \A t \in Thread : Stream(t, handed[t], todo[t], lost[t], buffer, wire \o shifter) /\ Handed(t)

LEMMA InvParts ==
  ASSUME StreamInv, NEW t \in Thread
  PROVE  /\ todo[t] \in Seq(0 .. 255) /\ handed[t] \in Seq(0 .. 255)
         /\ at[t] \in {"idle", "poll", "write"}
         /\ at[t] = "idle" <=> todo[t] = <<>>
         /\ called[t] \in Seq(AllCalls)
         /\ Stream(t, handed[t], todo[t], lost[t], buffer, wire \o shifter) /\ Handed(t)
  BY DEF StreamInv, TypeOK

(* What a store to DATA does to the buffer and to the losses.              *)
LEMMA Stores ==
  ASSUME StreamInv, NEW t \in Thread, Store(t)
  PROVE  /\ txor' = (txor \/ buffer # <<>>)
         /\ \/ /\ buffer' = <<[of |-> t, char |-> Head(todo[t]),
                               nth |-> Len(handed[t]) - Len(todo[t]) + 1]>>
               /\ lost' = [u \in Thread |-> lost[u] \cup Pending(u, buffer)]
            \/ /\ buffer # <<>> /\ buffer' = buffer
               /\ lost' = [u \in Thread |-> lost[u] \cup
                             IF u = t THEN {Len(handed[t]) - Len(todo[t]) + 1} ELSE {}]
<1> DEFINE k == Len(handed[t]) - Len(todo[t])
           e == [of |-> t, char |-> Head(todo[t]), nth |-> k + 1]
           new == <<e>>
           old == buffer[1]
           gone(kept) == IF buffer = <<>> THEN {} ELSE {old, e} \ {kept[1]}
           places(kept, u) == {d.nth : d \in {d \in gone(kept) : d.of = u}}
<1>1. PICK kept \in {buffer, new} \ {<<>>} :
        /\ buffer' = kept
        /\ lost' = [u \in Thread |-> lost[u] \cup places(kept, u)]
  <2>1. new[1] = e
    OBVIOUS
  <2>2. QED
    BY <2>1 DEF Store
<1>2. txor' = (txor \/ buffer # <<>>)
  BY DEF Store
<1>3. e.of = t /\ e.nth = k + 1 /\ new[1] = e
  OBVIOUS
<1>4. k \in Nat /\ Pending(t, buffer) \subseteq 1 .. k
  <2>1. Stream(t, handed[t], todo[t], lost[t], buffer, wire \o shifter)
    BY InvParts
  <2>2. QED
    BY <2>1 DEF Stream
<1> HIDE DEF k, e
<1>5. CASE buffer = <<>>
  <2>1. kept = new
    BY <1>5
  <2>2. \A u \in Thread : places(kept, u) = {} /\ Pending(u, buffer) = {}
    BY <1>5 DEF Pending
  <2> HIDE DEF new, places
  <2>3. lost' = [u \in Thread |-> lost[u] \cup Pending(u, buffer)]
    BY <1>1, <2>2
  <2>4. QED
    BY <1>1, <1>2, <2>1, <2>3 DEF new, e, k
<1>6. CASE buffer # <<>>
  <2>1. old # e
    <3>1. SUFFICES ASSUME old = e PROVE FALSE
      OBVIOUS
    <3>2. Pending(t, buffer) = {k + 1}
      BY <1>3, <1>6, <3>1 DEF Pending
    <3>3. QED
      BY <1>4, <3>2
  <2>2. CASE kept = buffer
    <3>1. gone(kept) = {e}
      BY <1>6, <2>1, <2>2
    <3> HIDE DEF gone
    <3>2. ASSUME NEW u \in Thread PROVE places(kept, u) = IF u = t THEN {k + 1} ELSE {}
      BY <1>3, <3>1
    <3> HIDE DEF places
    <3>3. lost' = [u \in Thread |-> lost[u] \cup IF u = t THEN {k + 1} ELSE {}]
      BY <1>1, <3>2
    <3>4. QED
      BY <1>1, <1>2, <1>6, <2>2, <3>3 DEF k
  <2>3. CASE kept = new
    <3>1. gone(kept) = {old}
      BY <1>3, <1>6, <2>1, <2>3
    <3> HIDE DEF gone
    <3>2. ASSUME NEW u \in Thread PROVE places(kept, u) = Pending(u, buffer)
      <4>1. CASE old.of = u
        <5>1. Pending(u, buffer) = {old.nth}
          BY <1>6, <4>1 DEF Pending
        <5>2. QED
          BY <3>1, <4>1, <5>1
      <4>2. CASE old.of # u
        <5>1. Pending(u, buffer) = {}
          BY <1>6, <4>2 DEF Pending
        <5>2. QED
          BY <3>1, <4>2, <5>1
      <4>3. QED
        BY <4>1, <4>2
    <3> HIDE DEF places
    <3>3. lost' = [u \in Thread |-> lost[u] \cup Pending(u, buffer)]
      BY <1>1, <3>2
    <3>4. QED
      BY <1>1, <1>2, <2>3, <3>3 DEF new, e, k
  <2>4. QED
    BY <1>1, <2>2, <2>3
<1>7. QED
  BY <1>5, <1>6

LEMMA WriteDataStep ==
  ASSUME StreamInv, NEW t \in Thread, WriteData(t)
  PROVE  StreamInv'
<1> DEFINE k == Len(handed[t]) - Len(todo[t])
           e == [of |-> t, char |-> Head(todo[t]), nth |-> k + 1]
           base == wire \o shifter
<1>1. /\ Store(t) /\ at[t] = "write" /\ todo' = [todo EXCEPT ![t] = Tail(todo[t])]
      /\ at' = [at EXCEPT ![t] = IF todo'[t] = <<>> THEN "idle" ELSE "poll"]
      /\ target' = target /\ up' = up /\ program' = program /\ called' = called /\ handed' = handed
      /\ shifter' = shifter /\ wire' = wire
  BY DEF WriteData
<1>2. /\ txor' = (txor \/ buffer # <<>>)
      /\ \/ /\ buffer' = <<e>>
            /\ lost' = [u \in Thread |-> lost[u] \cup Pending(u, buffer)]
         \/ /\ buffer # <<>> /\ buffer' = buffer
            /\ lost' = [u \in Thread |-> lost[u] \cup IF u = t THEN {k + 1} ELSE {}]
  BY <1>1, Stores
<1>3. /\ TypeOK /\ todo \in [Thread -> Seq(0 .. 255)] /\ handed \in [Thread -> Seq(0 .. 255)]
      /\ called \in [Thread -> Seq(AllCalls)]
      /\ ~up => buffer = <<>> /\ \A u \in Thread : at[u] = "idle"
  BY DEF StreamInv
<1>4. up /\ up'
  BY <1>1, <1>3
<1>5. /\ todo[t] \in Seq(0 .. 255) /\ todo[t] # <<>> /\ handed[t] \in Seq(0 .. 255) /\ k \in Nat
      /\ Stream(t, handed[t], todo[t], lost[t], buffer, base)
  <2>1. Stream(t, handed[t], todo[t], lost[t], buffer, base)
    BY InvParts
  <2>2. k \in Nat
    BY <2>1 DEF Stream
  <2>3. QED
    BY <1>1, <2>1, <2>2, InvParts
<1>6. Tail(todo[t]) \in Seq(0 .. 255) /\ Head(todo[t]) \in 0 .. 255
  BY <1>5, HeadAndTail
<1>7. e \in Entry /\ <<e>> \in Buffers
  <2>1. e \in Entry
    BY <1>5, <1>6 DEF Entry
  <2> HIDE DEF e
  <2>2. <<e>> \in Seq(Entry) /\ Len(<<e>>) = 1
    BY <2>1
  <2>3. QED
    BY <2>1, <2>2 DEF Buffers
<1>8. todo'[t] = Tail(todo[t]) /\ \A u \in Thread : u # t => todo'[u] = todo[u]
  BY <1>1, <1>3
<1>9. todo' \in [Thread -> Seq(0 .. 255)]
  BY <1>1, <1>3, <1>6
<1>10. ASSUME NEW u \in Thread
       PROVE  Stream(u, handed'[u], todo'[u], lost'[u], buffer', wire' \o shifter')
  <2>1. CASE u = t
    <3>1. \/ lost'[t] = lost[t] \cup Pending(t, buffer) /\ buffer' = <<e>>
          \/ buffer' = buffer /\ lost'[t] = lost[t] \cup {k + 1}
      BY <1>2
    <3>2. Pending(t, <<e>>) = {k + 1} /\ <<e>>[1].char = Head(todo[t])
      <4>1. e.of = t /\ e.nth = k + 1 /\ e.char = Head(todo[t])
        OBVIOUS
      <4> HIDE DEF e
      <4>2. <<e>>[1] = e /\ <<e>> # <<>>
        OBVIOUS
      <4>3. QED
        BY <4>1, <4>2 DEF Pending
    <3> HIDE DEF e, base
    <3>3. \/ /\ lost'[t] = lost[t] \cup Pending(t, buffer) /\ Pending(t, buffer') = {k + 1}
             /\ buffer'[1].char = Head(todo[t])
          \/ buffer' = buffer /\ lost'[t] = lost[t] \cup {k + 1}
      BY <3>1, <3>2, Zenon
    <3> DEFINE m == lost'[t]
               c == buffer'
    <3> HIDE DEF m, c
    <3>4. Stream(t, handed[t], Tail(todo[t]), m, c, base)
      <4>1. \/ /\ m = lost[t] \cup Pending(t, buffer) /\ Pending(t, c) = {k + 1}
               /\ c[1].char = Head(todo[t])
            \/ c = buffer /\ m = lost[t] \cup {k + 1}
        BY <3>3, Zenon DEF m, c
      <4>2. QED
        BY <1>5, <4>1, StreamStores
    <3>5. QED
      BY <1>1, <1>8, <2>1, <3>4, Zenon DEF m, c, base
  <2>2. CASE u # t
    <3>1. Stream(u, handed[u], todo[u], lost[u], buffer, base)
      BY InvParts
    <3>2. \/ lost'[u] = lost[u] \cup Pending(u, buffer) /\ Pending(u, buffer') = {}
          \/ buffer' = buffer /\ lost'[u] = lost[u]
      <4>1. CASE /\ buffer' = <<e>>
                 /\ lost' = [v \in Thread |-> lost[v] \cup Pending(v, buffer)]
        <5>1. e.of = t
          OBVIOUS
        <5> HIDE DEF e
        <5>2. Pending(u, <<e>>) = {}
          BY <2>2, <5>1 DEF Pending
        <5>3. QED
          BY <4>1, <5>2
      <4>2. CASE /\ buffer' = buffer
                 /\ lost' = [v \in Thread |-> lost[v] \cup IF v = t THEN {k + 1} ELSE {}]
        BY <2>2, <4>2
      <4>3. QED
        BY <1>2, <4>1, <4>2
    <3> DEFINE m == lost'[u]
               c == buffer'
    <3> HIDE DEF m, c, base
    <3>3. Stream(u, handed[u], todo[u], m, c, base)
      <4>1. \/ m = lost[u] \cup Pending(u, buffer) /\ Pending(u, c) = {}
            \/ c = buffer /\ m = lost[u]
        BY <3>2, Zenon DEF m, c
      <4>2. QED
        BY <3>1, <4>1, StreamKeeps
    <3>4. QED
      BY <1>1, <1>8, <2>2, <3>3, Zenon DEF m, c, base
  <2>3. QED
    BY <2>1, <2>2
<1>11. ASSUME NEW u \in Thread
       PROVE  /\ Len(handed'[u]) - Len(todo'[u]) \in Nat
              /\ lost'[u] \subseteq 1 .. Len(handed'[u]) - Len(todo'[u])
  BY <1>10 DEF Stream
<1>12. lost' \in [Thread -> SUBSET Nat]
  <2>1. ASSUME NEW u \in Thread PROVE lost'[u] \subseteq Nat
    <3> DEFINE n == Len(handed'[u]) - Len(todo'[u])
    <3>1. n \in Nat /\ lost'[u] \subseteq 1 .. n
      BY <1>11
    <3> HIDE DEF n
    <3>2. QED
      BY <3>1
  <2>2. DOMAIN lost' = Thread /\ lost' = [u \in Thread |-> lost'[u]]
    BY <1>2
  <2>3. QED
    BY <2>1, <2>2
<1>13. TypeOK'
  <2>1. buffer' \in Buffers /\ txor' \in BOOLEAN
    BY <1>2, <1>3, <1>7 DEF TypeOK
  <2>2. at' \in [Thread -> {"idle", "poll", "write"}]
    BY <1>1, <1>3 DEF TypeOK
  <2>3. ASSUME NEW u \in Thread PROVE todo'[u] \in Seq(0 .. 255) /\ (at'[u] = "idle" <=> todo'[u] = <<>>)
    <3>1. todo'[u] \in Seq(0 .. 255)
      BY <1>9
    <3>2. CASE u = t
      <4>1. at'[t] = IF todo'[t] = <<>> THEN "idle" ELSE "poll"
        BY <1>1, <1>3 DEF TypeOK
      <4>2. QED
        BY <3>1, <3>2, <4>1
    <3>3. CASE u # t
      <4>1. at'[u] = at[u] /\ todo'[u] = todo[u]
        BY <1>1, <1>3, <1>8, <3>3 DEF TypeOK
      <4>2. QED
        BY <1>3, <3>1, <4>1 DEF TypeOK
    <3>4. QED
      BY <3>2, <3>3
  <2>4. QED
    BY <1>1, <1>3, <1>11, <2>1, <2>2, <2>3 DEF TypeOK
<1>14. ASSUME NEW u \in Thread PROVE Handed(u)'
  <2>1. Handed(u)
    BY InvParts
  <2>2. lost'[u] # {} => txor'
    <3>1. CASE buffer = <<>>
      <4>1. lost'[u] = lost[u]
        <5>1. Pending(u, buffer) = {}
          BY <3>1 DEF Pending
        <5>2. QED
          BY <1>2, <3>1, <5>1
      <4>2. QED
        BY <1>2, <2>1, <4>1 DEF Handed
    <3>2. CASE buffer # <<>>
      BY <1>2, <3>2
    <3>3. QED
      BY <3>1, <3>2
  <2>3. QED
    BY <1>1, <2>1, <2>2 DEF Handed
<1>15. QED
  BY <1>1, <1>3, <1>4, <1>9, <1>10, <1>12, <1>13, <1>14 DEF StreamInv

LEMMA CallStep ==
  ASSUME StreamInv, NEW t \in Thread, NEW call, call \in Programs[program][t], Call(t, call)
  PROVE  StreamInv'
<1> DEFINE text == Text(call)
           base == wire \o shifter
<1>1. /\ up /\ at[t] = "idle"
      /\ todo' = [todo EXCEPT ![t] = text] /\ handed' = [handed EXCEPT ![t] = handed[t] \o text]
      /\ at' = [at EXCEPT ![t] = IF text = <<>> THEN "idle" ELSE "poll"]
      /\ called' = [called EXCEPT ![t] = Append(called[t], call)]
      /\ target' = target /\ up' = up /\ program' = program
      /\ buffer' = buffer /\ shifter' = shifter /\ txor' = txor /\ wire' = wire /\ lost' = lost
  BY DEF Call, uart
<1>2. /\ TypeOK /\ todo \in [Thread -> Seq(0 .. 255)] /\ handed \in [Thread -> Seq(0 .. 255)]
      /\ lost \in [Thread -> SUBSET Nat] /\ called \in [Thread -> Seq(AllCalls)]
  BY DEF StreamInv
<1>3. call \in AllCalls
  <2>1. program \in DOMAIN Programs
    BY <1>2 DEF TypeOK
  <2>2. QED
    BY <2>1 DEF AllCalls
<1>4. text \in Seq(0 .. 255)
  <2>1. WellTyped(call)
    BY <1>3, CallsAssumption
  <2>2. QED
    BY <2>1, TextType
<1> HIDE DEF text
<1>5. todo[t] = <<>> /\ handed[t] \in Seq(0 .. 255) /\ called[t] \in Seq(AllCalls)
      /\ Stream(t, handed[t], todo[t], lost[t], buffer, base) /\ Handed(t)
  BY <1>1, InvParts
<1>6. handed[t] \o text \in Seq(0 .. 255)
  BY <1>4, <1>5, Concatenation
<1>7. /\ todo' \in [Thread -> Seq(0 .. 255)] /\ handed' \in [Thread -> Seq(0 .. 255)]
      /\ lost' \in [Thread -> SUBSET Nat] /\ called' \in [Thread -> Seq(AllCalls)]
  <2>1. Append(called[t], call) \in Seq(AllCalls)
    BY <1>3, <1>5
  <2>2. todo' \in [Thread -> Seq(0 .. 255)]
    BY <1>1, <1>2, <1>4
  <2>3. handed' \in [Thread -> Seq(0 .. 255)]
    BY <1>1, <1>2, <1>6
  <2>4. called' \in [Thread -> Seq(AllCalls)]
    BY <1>1, <1>2, <2>1
  <2>5. QED
    BY <1>1, <1>2, <2>2, <2>3, <2>4
<1>8. /\ todo'[t] = text /\ handed'[t] = handed[t] \o text /\ called'[t] = Append(called[t], call)
      /\ \A u \in Thread : u # t => todo'[u] = todo[u] /\ handed'[u] = handed[u] /\ called'[u] = called[u]
  BY <1>1, <1>2
<1>9. ASSUME NEW u \in Thread
      PROVE  Stream(u, handed'[u], todo'[u], lost'[u], buffer', wire' \o shifter')
  <2>1. CASE u = t
    <3>1. Stream(t, handed[t] \o text, text, lost[t], buffer, base)
      BY <1>4, <1>5, StreamCalls
    <3>2. QED
      BY <1>1, <1>8, <2>1, <3>1
  <2>2. CASE u # t
    <3>1. Stream(u, handed[u], todo[u], lost[u], buffer, base)
      BY InvParts
    <3>2. QED
      BY <1>1, <1>8, <2>2, <3>1
  <2>3. QED
    BY <2>1, <2>2
<1>10. ASSUME NEW u \in Thread
       PROVE lost'[u] \subseteq 1 .. Len(handed'[u]) - Len(todo'[u])
  BY <1>9 DEF Stream
<1>11. TypeOK'
  <2>1. at' \in [Thread -> {"idle", "poll", "write"}]
    BY <1>1, <1>2 DEF TypeOK
  <2>2. ASSUME NEW u \in Thread PROVE at'[u] = "idle" <=> todo'[u] = <<>>
    <3>1. CASE u = t
      <4>1. at'[t] = IF text = <<>> THEN "idle" ELSE "poll"
        BY <1>1, <1>2 DEF TypeOK
      <4>2. QED
        BY <1>8, <3>1, <4>1
    <3>2. CASE u # t
      <4>1. at'[u] = at[u] /\ todo'[u] = todo[u]
        BY <1>1, <1>2, <1>8, <3>2 DEF TypeOK
      <4>2. QED
        BY <1>2, <4>1 DEF TypeOK
    <3>3. QED
      BY <3>1, <3>2
  <2>3. QED
    BY <1>1, <1>2, <1>7, <1>10, <2>1, <2>2 DEF TypeOK
<1>12. ASSUME NEW u \in Thread PROVE Handed(u)'
  <2>1. Handed(u) /\ called[u] \in Seq(AllCalls)
    BY InvParts
  <2>2. CASE u = t
    <3>1. called'[t] # <<>> /\ (Len(called'[t]) = 1 => called[t] = <<>> /\ called'[t][1] = call)
      BY <1>3, <1>5, <1>8, Appended
    <3>2. ASSUME Len(called'[t]) = 1 PROVE handed'[t] = Text(called'[t][1])
      <4>1. called[t] = <<>>
        BY <3>1, <3>2
      <4>2. called'[t][1] = call
        BY <3>1, <3>2
      <4>3. handed[t] = <<>>
        BY <1>5, <4>1 DEF Handed
      <4>4. handed'[t] = text
        BY <1>4, <1>8, <4>3
      <4>5. QED
        BY <4>2, <4>4 DEF text
    <3>3. QED
      BY <1>1, <1>5, <2>2, <3>1, <3>2 DEF Handed
  <2>3. CASE u # t
    BY <1>1, <1>8, <2>1, <2>3 DEF Handed
  <2>4. QED
    BY <2>2, <2>3
<1>13. QED
  BY <1>1, <1>7, <1>9, <1>11, <1>12 DEF StreamInv

LEMMA PollStep ==
  ASSUME StreamInv, NEW t \in Thread, Poll(t)
  PROVE  StreamInv'
<1>1. /\ at[t] = "poll" /\ at' = [at EXCEPT ![t] = "write"]
      /\ target' = target /\ up' = up /\ program' = program /\ todo' = todo /\ called' = called
      /\ handed' = handed /\ buffer' = buffer /\ shifter' = shifter /\ txor' = txor /\ wire' = wire
      /\ lost' = lost
  BY DEF Poll, uart
<1>2. /\ TypeOK /\ todo \in [Thread -> Seq(0 .. 255)] /\ handed \in [Thread -> Seq(0 .. 255)]
      /\ lost \in [Thread -> SUBSET Nat] /\ called \in [Thread -> Seq(AllCalls)]
      /\ ~up => buffer = <<>> /\ \A u \in Thread : at[u] = "idle"
  BY DEF StreamInv
<1>3. up'
  BY <1>1, <1>2
<1>4. TypeOK'
  <2>1. at' \in [Thread -> {"idle", "poll", "write"}]
    BY <1>1, <1>2 DEF TypeOK
  <2>2. ASSUME NEW u \in Thread PROVE at'[u] = "idle" <=> todo'[u] = <<>>
    BY <1>1, <1>2 DEF TypeOK
  <2>3. QED
    BY <1>1, <1>2, <2>1, <2>2 DEF TypeOK
<1>5. ASSUME NEW u \in Thread
      PROVE  /\ Stream(u, handed'[u], todo'[u], lost'[u], buffer', wire' \o shifter')
             /\ Handed(u)'
  BY <1>1, InvParts DEF Handed
<1>6. QED
  BY <1>1, <1>2, <1>3, <1>4, <1>5 DEF StreamInv

(* Steps of the UART alone leave the streams as they are.                  *)
LEMMA UartStep ==
  ASSUME StreamInv,
         target' = target, threads' = threads, txor' = txor, lost' = lost, up' = TRUE,
         buffer' \in Buffers, shifter' \in Buffers, wire' \in Seq(Entry),
         \A t \in Thread : Stream(t, handed[t], todo[t], lost[t], buffer', wire' \o shifter')
  PROVE  StreamInv'
<1>1. /\ program' = program /\ at' = at /\ todo' = todo /\ called' = called /\ handed' = handed
  BY DEF threads
<1>2. /\ TypeOK /\ todo \in [Thread -> Seq(0 .. 255)] /\ handed \in [Thread -> Seq(0 .. 255)]
      /\ lost \in [Thread -> SUBSET Nat] /\ called \in [Thread -> Seq(AllCalls)]
  BY DEF StreamInv
<1>3. TypeOK'
  BY <1>1, <1>2 DEF TypeOK
<1>4. ASSUME NEW t \in Thread
      PROVE  Stream(t, handed'[t], todo'[t], lost'[t], buffer', wire' \o shifter') /\ Handed(t)'
  BY <1>1, InvParts DEF Handed
<1>5. QED
  BY <1>1, <1>2, <1>3, <1>4 DEF StreamInv

LEMMA EmptyBuffer == <<>> \in Buffers
<1>1. <<>> \in Seq(Entry) /\ Len(<<>>) = 0
  OBVIOUS
<1>2. QED
  BY <1>1 DEF Buffers

LEMMA console_initStep ==
  ASSUME StreamInv, console_init
  PROVE  StreamInv'
<1> DEFINE zero == [of |-> Main, char |-> NUL, nth |-> 1]
<1>1. /\ ~up /\ up' = TRUE /\ buffer' \in {<<>>, <<zero>>}
      /\ target' = target /\ threads' = threads /\ shifter' = shifter /\ txor' = txor
      /\ wire' = wire /\ lost' = lost
  <2>1. buffer' \in IF target = "gowin_m1" THEN {<<>>, <<zero>>} ELSE {<<>>}
    BY DEF console_init
  <2>2. QED
    BY <2>1 DEF console_init
<1>2. /\ buffer = <<>> /\ shifter \in Buffers /\ wire \in Seq(Entry)
  BY <1>1 DEF StreamInv, TypeOK
<1>3. zero \in Entry /\ zero.of = Main
  BY DEF Entry, NUL
<1> HIDE DEF zero
<1>4. <<>> \in Buffers /\ <<zero>> \in Buffers
  <2>1. <<zero>> \in Seq(Entry) /\ Len(<<zero>>) = 1
    BY <1>3
  <2>2. QED
    BY <2>1, EmptyBuffer DEF Buffers
<1>5. ASSUME NEW t \in Thread
      PROVE  Stream(t, handed[t], todo[t], lost[t], buffer', wire' \o shifter')
  <2>1. t # Main
    BY MainAssumption
  <2>2. Pending(t, buffer) = {} /\ Pending(t, buffer') = {}
    <3>1. Pending(t, <<>>) = {}
      BY DEF Pending
    <3>2. Pending(t, <<zero>>) = {}
      BY <1>3, <2>1 DEF Pending
    <3>3. QED
      BY <1>1, <1>2, <3>1, <3>2
  <2>3. lost[t] = lost[t] \cup Pending(t, buffer)
    BY <2>2
  <2> DEFINE c == buffer'
             base == wire \o shifter
  <2> HIDE DEF c, base
  <2>4. Stream(t, handed[t], todo[t], lost[t], buffer, base)
    BY InvParts DEF base
  <2>5. Pending(t, c) = {}
    BY <2>2 DEF c
  <2>6. Stream(t, handed[t], todo[t], lost[t], c, base)
    BY <2>3, <2>4, <2>5, StreamKeeps
  <2>7. QED
    BY <1>1, <2>6 DEF c, base
<1>6. QED
  BY <1>1, <1>2, <1>4, <1>5, UartStep

LEMMA LoadStep ==
  ASSUME StreamInv, Load
  PROVE  StreamInv'
<1> DEFINE e == buffer[1]
<1>1. /\ up /\ buffer # <<>> /\ shifter = <<>> /\ shifter' = buffer /\ buffer' = <<>>
      /\ target' = target /\ up' = up /\ threads' = threads /\ txor' = txor
      /\ wire' = wire /\ lost' = lost
  BY DEF Load
<1>2. buffer \in Buffers /\ wire \in Seq(Entry)
  BY DEF StreamInv, TypeOK
<1>3. buffer = <<e>> /\ e \in Entry
  <2>1. buffer \in Seq(Entry) /\ Len(buffer) <= 1
    BY <1>2 DEF Buffers
  <2>2. QED
    BY <1>1, <2>1, OneElement
<1> HIDE DEF e
<1>4. wire \o shifter = wire
  BY <1>1, <1>2
<1>5. ASSUME NEW t \in Thread
      PROVE  Stream(t, handed[t], todo[t], lost[t], buffer', wire' \o shifter')
  <2>1. Stream(t, handed[t], todo[t], lost[t], <<e>>, wire)
    <3>1. Stream(t, handed[t], todo[t], lost[t], buffer, wire \o shifter)
      BY InvParts
    <3>2. QED
      BY <1>3, <1>4, <3>1
  <2>2. Stream(t, handed[t], todo[t], lost[t], <<>>, wire \o <<e>>)
    BY <1>2, <1>3, <2>1, StreamLoads
  <2>3. QED
    BY <1>1, <1>3, <2>2
<1>6. up' = TRUE
  BY <1>1 DEF StreamInv, TypeOK
<1>7. QED
  BY <1>1, <1>2, <1>5, <1>6, EmptyBuffer, UartStep

LEMMA TransmitStep ==
  ASSUME StreamInv, Transmit
  PROVE  StreamInv'
<1>1. /\ shifter # <<>> /\ wire' = wire \o shifter /\ shifter' = <<>>
      /\ target' = target /\ up' = up /\ threads' = threads /\ buffer' = buffer
      /\ txor' = txor /\ lost' = lost
  BY DEF Transmit
<1>2. buffer \in Buffers /\ shifter \in Buffers /\ wire \in Seq(Entry)
  BY DEF StreamInv, TypeOK
<1>3. wire' \in Seq(Entry) /\ wire' \o shifter' = wire \o shifter
  BY <1>1, <1>2 DEF Buffers
<1>4. /\ program' = program /\ at' = at /\ todo' = todo /\ called' = called /\ handed' = handed
  BY <1>1 DEF threads
<1>5. /\ TypeOK /\ todo \in [Thread -> Seq(0 .. 255)] /\ handed \in [Thread -> Seq(0 .. 255)]
      /\ lost \in [Thread -> SUBSET Nat] /\ called \in [Thread -> Seq(AllCalls)]
      /\ ~up => buffer = <<>> /\ \A u \in Thread : at[u] = "idle"
  BY DEF StreamInv
<1>6. TypeOK'
  BY <1>1, <1>3, <1>4, <1>5, EmptyBuffer DEF TypeOK
<1>7. ASSUME NEW t \in Thread
      PROVE  Stream(t, handed'[t], todo'[t], lost'[t], buffer', wire' \o shifter') /\ Handed(t)'
  BY <1>1, <1>3, <1>4, InvParts DEF Handed
<1>8. QED
  BY <1>1, <1>4, <1>5, <1>6, <1>7 DEF StreamInv

LEMMA StreamStep == StreamInv /\ [Next]_vars => StreamInv'
<1> SUFFICES ASSUME StreamInv, [Next]_vars PROVE StreamInv'
  OBVIOUS
<1>1. CASE console_init
  BY <1>1, console_initStep
<1>2. CASE Load
  BY <1>2, LoadStep
<1>3. CASE Transmit
  BY <1>3, TransmitStep
<1>4. ASSUME NEW t \in Thread, NEW call \in Programs[program][t], Call(t, call)
      PROVE  StreamInv'
  BY <1>4, CallStep
<1>5. ASSUME NEW t \in Thread, SendStep(t) PROVE StreamInv'
  BY <1>5, PollStep, WriteDataStep DEF SendStep
<1>6. CASE UNCHANGED vars
  <2>1. /\ target' = target /\ up' = up /\ program' = program /\ at' = at /\ todo' = todo
        /\ called' = called /\ handed' = handed /\ buffer' = buffer /\ shifter' = shifter
        /\ txor' = txor /\ wire' = wire /\ lost' = lost
    BY <1>6 DEF vars, threads, uart
  <2>2. ASSUME NEW t \in Thread
        PROVE  Stream(t, handed'[t], todo'[t], lost'[t], buffer', wire' \o shifter') /\ Handed(t)'
    BY <2>1, InvParts DEF Handed
  <2>3. TypeOK'
    BY <2>1 DEF StreamInv, TypeOK
  <2>4. QED
    BY <2>1, <2>2, <2>3 DEF StreamInv
<1>7. QED
  BY <1>1, <1>2, <1>3, <1>4, <1>5, <1>6 DEF Next

LEMMA StreamInit == Init => StreamInv
<1> SUFFICES ASSUME Init PROVE StreamInv
  OBVIOUS
<1> DEFINE none == <<>>
<1>1. /\ none \in Seq(0 .. 255) /\ none \in Seq(Entry) /\ none \in Seq(AllCalls)
      /\ none \in Buffers /\ Len(none) = 0 /\ none \o none = none
  BY EmptyBuffer
<1>2. \A t \in Thread : Stream(t, none, none, {}, none, none)
  BY StreamStarts
<1> HIDE DEF none
<1>3. /\ target \in Target /\ program \in DOMAIN Programs /\ up = FALSE /\ txor = FALSE
      /\ at = [t \in Thread |-> "idle"] /\ todo = [t \in Thread |-> none]
      /\ handed = [t \in Thread |-> none] /\ called = [t \in Thread |-> none]
      /\ lost = [t \in Thread |-> {}]
      /\ buffer = none /\ shifter = none /\ wire = none
  BY DEF Init, none
<1>4. wire \o shifter = none
  BY <1>1, <1>3
<1>5. ASSUME NEW t \in Thread
      PROVE  /\ Stream(t, handed[t], todo[t], lost[t], buffer, wire \o shifter) /\ Handed(t)
             /\ lost[t] \subseteq 1 .. Len(handed[t]) - Len(todo[t])
  <2>1. handed[t] = none /\ todo[t] = none /\ lost[t] = {} /\ called[t] = none
    BY <1>3
  <2>2. Stream(t, handed[t], todo[t], lost[t], buffer, wire \o shifter)
    BY <1>2, <1>3, <1>4, <2>1
  <2>3. Handed(t)
    <3>1. Len(called[t]) # 1
      BY <1>1, <2>1
    <3>2. QED
      BY <2>1, <3>1, Zenon DEF Handed, none
  <2>4. QED
    BY <2>1, <2>2, <2>3
<1>6. TypeOK
  BY <1>1, <1>3, <1>5 DEF TypeOK, none
<1>7. /\ todo \in [Thread -> Seq(0 .. 255)] /\ handed \in [Thread -> Seq(0 .. 255)]
      /\ lost \in [Thread -> SUBSET Nat] /\ called \in [Thread -> Seq(AllCalls)]
      /\ buffer = <<>> /\ \A t \in Thread : at[t] = "idle"
  BY <1>1, <1>3 DEF none
<1>8. QED
  BY <1>5, <1>6, <1>7 DEF StreamInv

(* What the invariant says of the line.                                    *)
LEMMA OnTheWire ==
  ASSUME StreamInv, NEW t \in Thread
  PROVE  Sent(t) \o todo[t] = Without(handed[t], lost[t]) /\ Sent(t) \in Seq(0 .. 255)
<1>1. Stream(t, handed[t], todo[t], lost[t], buffer, wire \o shifter)
  BY InvParts
<1>2. buffer \in Buffers /\ wire \o shifter \in Seq(Entry)
  BY DEF StreamInv, TypeOK, Buffers
<1>3. /\ Of(t, (wire \o shifter) \o buffer) \o todo[t] = Kept(handed[t], Len(handed[t]), lost[t])
      /\ Of(t, (wire \o shifter) \o buffer) \in Seq(0 .. 255)
  BY <1>1, <1>2, StreamSent
<1>4. Of(t, (wire \o shifter) \o buffer) = Sent(t)
  BY DEF Of, Sent
<1>5. Kept(handed[t], Len(handed[t]), lost[t]) = Without(handed[t], lost[t])
  BY DEF Kept, Without
<1>6. QED
  BY <1>3, <1>4, <1>5

LEMMA NothingLost ==
  ASSUME NEW w \in Seq(0 .. 255)
  PROVE  Without(w, {}) = w
<1>1. Kept(w, 0, {}) = <<>>
  BY KeptNone
<1>2. Kept(w, Len(w), {}) = Kept(w, 0, {}) \o w
  <2> DEFINE k == 0
             none == {}
  <2>1. k \in Nat /\ k + Len(w) = Len(w) /\ (\A i \in 1 .. Len(w) : w[i] = w[k + i])
        /\ none \subseteq 1 .. k
    OBVIOUS
  <2> HIDE DEF k, none
  <2>2. Kept(w, Len(w), none) = Kept(w, k, none) \o w
    BY <2>1, KeptTail
  <2>3. QED
    BY <2>2 DEF k, none
<1>3. Kept(w, Len(w), {}) = w
  BY <1>1, <1>2
<1>4. QED
  BY <1>3 DEF Kept, Without

(* The characters that are handed to the UART, wait in it or travel are    *)
(* always characters, and a thread has some left exactly inside a call:    *)
(* print_float, print_hex and the other conversions never produce anything *)
(* but bytes, for every int and every width of int.                        *)
THEOREM ConsoleTypes == Spec => []TypeOK
<1>1. StreamInv => TypeOK
  BY DEF StreamInv
<1>2. QED
  BY <1>1, StreamInit, StreamStep, PTL DEF Spec

(* However many threads print at once and wherever the kernel preempts     *)
(* them between the poll and the store of UART_SendChar, each one's stream *)
(* is on the line in its order, lacks no character but those that overruns *)
(* took, and after an overrun TXOR is set.                                 *)
THEOREM StreamsStayInOrder == Spec => []StreamsInOrder
<1>1. StreamInv => StreamsInOrder
  BY OnTheWire, InvParts DEF StreamsInOrder, Handed
<1>2. QED
  BY <1>1, StreamInit, StreamStep, PTL DEF Spec

-------------------------------------------------------------------------------
(* One thread prints.                                                      *)
Alone == \A t, u \in Thread : called[t] # <<>> /\ called[u] # <<>> => t = u

LEMMA LoneStep == LoneInv /\ [Next]_vars => LoneInv'
<1> SUFFICES ASSUME LoneInv, [Next]_vars PROVE LoneInv'
  OBVIOUS
<1> USE DEF LoneInv, LonePrinterLosesNothing
<1>1. CASE console_init
  <2>1. /\ \A t \in Thread : at[t] = "idle"
        /\ UNCHANGED <<program, called, at, lost, txor>> /\ up'
    BY <1>1 DEF console_init, threads
  <2>2. QED
    BY <2>1
<1>2. CASE Load \/ Transmit
  <2>1. /\ UNCHANGED <<program, called, at, lost, txor, up>>
        /\ buffer' = buffer \/ buffer' = <<>>
    BY <1>2 DEF Load, Transmit, threads
  <2>2. QED
    BY <2>1
<1>3. ASSUME NEW t \in Thread, NEW call \in Programs[program][t], Call(t, call)
      PROVE  LoneInv'
  <2>1. call \in AllCalls
    BY DEF AllCalls
  <2>2. called' = [called EXCEPT ![t] = Append(called[t], call)]
        /\ UNCHANGED <<program, up, lost, txor, buffer>> /\ up
    BY <1>3 DEF Call, uart
  <2>3. \E next \in {"idle", "poll"} : at' = [at EXCEPT ![t] = next]
    BY <1>3 DEF Call
  <2>4. called'[t] # <<>> /\ called' \in [Thread -> Seq(AllCalls)]
    <3>1. called[t] \in Seq(AllCalls)
      OBVIOUS
    <3>2. Append(called[t], call) \in Seq(AllCalls) /\ Append(called[t], call) # <<>>
      BY <2>1, <3>1, Appended
    <3>3. QED
      BY <2>2, <3>2
  <2>5. \A u \in Thread : u # t => called'[u] = called[u] /\ at'[u] = at[u]
    BY <2>2, <2>3
  <2>6. Alone' => Alone
    BY <2>4, <2>5 DEF Alone
  <2>7. at' \in [Thread -> {"idle", "poll", "write"}] /\ at'[t] # "write"
    BY <2>3
  <2>8. QED
    BY <2>2, <2>4, <2>5, <2>6, <2>7 DEF Alone
<1>4. ASSUME NEW t \in Thread, SendStep(t) PROVE LoneInv'
  <2>1. called[t] # <<>> /\ UNCHANGED <<program, called, up>>
    BY <1>4 DEF SendStep, Poll, WriteData
  <2>2. CASE Poll(t)
    <3>1. buffer = <<>> /\ at' = [at EXCEPT ![t] = "write"] /\ UNCHANGED <<buffer, lost, txor>>
      BY <2>2 DEF Poll, uart
    <3>2. QED
      BY <2>1, <3>1
  <2>3. CASE WriteData(t)
    <3>1. \E next \in {"idle", "poll"} : at' = [at EXCEPT ![t] = next]
      BY <2>3 DEF WriteData
    <3>2. ASSUME Alone
          PROVE  /\ ~txor' /\ \A u \in Thread : lost'[u] = {}
                 /\ \A u \in Thread : at'[u] # "write"
      <4>1. at[t] = "write" /\ buffer = <<>>
        BY <2>3, <3>2 DEF WriteData, Alone
      <4>2. ~txor' /\ \A u \in Thread : lost'[u] = lost[u]
        <5>1. Store(t)
          BY <2>3 DEF WriteData
        <5>2. txor' = (txor \/ buffer # <<>>)
          BY <5>1, Zenon DEF Store
        <5>3. ~txor
          BY <3>2 DEF Alone
        <5>4. \A u \in Thread : lost'[u] = lost[u]
          BY <4>1, <5>1 DEF Store
        <5>5. ~txor'
          BY <4>1, <5>2, <5>3, Zenon
        <5>6. QED
          BY <5>4, <5>5
      <4>3. \A u \in Thread : u # t => at[u] = "idle"
        BY <2>1, <3>2 DEF Alone
      <4>4. \A u \in Thread : lost[u] = {}
        BY <3>2 DEF Alone
      <4>5. QED
        BY <3>1, <4>2, <4>3, <4>4
    <3>3. QED
      BY <2>1, <3>1, <3>2 DEF Alone
  <2>4. QED
    BY <1>4, <2>2, <2>3 DEF SendStep
<1>5. CASE UNCHANGED vars
  BY <1>5 DEF vars, threads, uart
<1>6. QED
  BY <1>1, <1>2, <1>3, <1>4, <1>5 DEF Next

LEMMA LoneInit == Init => LoneInv
  BY DEF Init, LoneInv, LonePrinterLosesNothing

(* UART_SendChar's poll is enough for one printer: as long as no second    *)
(* thread prints, no character is lost.                                    *)
THEOREM LonePrinterIsSafe == Spec => []LonePrinterLosesNothing
<1>1. LoneInv => LonePrinterLosesNothing
  BY DEF LoneInv
<1>2. QED
  BY <1>1, LoneInit, LoneStep, PTL DEF Spec

(* What a thread that has the console to itself prints says what it called *)
(* for, whatever it prints: console_printf's conversions are the numerals  *)
(* of their values, for every format, and console_hexdump's rows and       *)
(* columns hold the bytes, for every buffer.                               *)
THEOREM PrintsItsMeaning == Spec => []PrintsWhatIsMeant
<1>1. StreamInv /\ LoneInv => PrintsWhatIsMeant
  <2> SUFFICES ASSUME StreamInv, LoneInv, NEW t \in Thread,
                      at[t] = "idle", Len(called[t]) = 1,
                      \A u \in Thread \ {t} : called[u] = <<>>,
                      Printable(called[t][1])
               PROVE  LET call == called[t][1] IN
                      IF call.op = "printf"
                      THEN Sent(t) = FlattenSeq([i \in 1 .. Len(call.pieces) |-> Meaning(call.pieces[i])])
                      ELSE DumpOf(call.bytes, Sent(t))
    BY Zenon DEF PrintsWhatIsMeant
  <2> DEFINE call == called[t][1]
  <2>1. lost[t] = {}
    BY DEF LoneInv, LonePrinterLosesNothing
  <2>2. todo[t] = <<>> /\ handed[t] \in Seq(0 .. 255) /\ handed[t] = Text(call)
    BY InvParts DEF Handed
  <2>3. Sent(t) = handed[t]
    <3>1. Sent(t) \o todo[t] = Without(handed[t], lost[t]) /\ Sent(t) \in Seq(0 .. 255)
      BY OnTheWire
    <3>2. Sent(t) \o <<>> = Sent(t)
      BY <3>1
    <3>3. Without(handed[t], {}) = handed[t]
      BY <2>2, NothingLost
    <3>4. QED
      BY <2>1, <2>2, <3>1, <3>2, <3>3
  <2>4. WellTyped(call)
    <3>1. called[t] \in Seq(AllCalls)
      BY InvParts
    <3>2. call \in AllCalls
      BY <3>1, ElementOf
    <3>3. QED
      BY <3>2, CallsAssumption
  <2> HIDE DEF call
  <2>5. Printable(call)
    BY DEF call
  <2>6. IF call.op = "printf"
        THEN Text(call) = FlattenSeq([i \in 1 .. Len(call.pieces) |-> Meaning(call.pieces[i])])
        ELSE DumpOf(call.bytes, Text(call))
    BY <2>4, <2>5, TextMeans
  <2>7. Sent(t) = Text(call)
    BY <2>2, <2>3
  <2>8. QED
    BY <2>6, <2>7, Zenon DEF call
<1>2. QED
  BY <1>1, StreamInit, StreamStep, LoneInit, LoneStep, PTL DEF Spec
================================================================================
