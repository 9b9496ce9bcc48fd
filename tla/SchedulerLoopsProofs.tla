-------------------------- MODULE SchedulerLoopsProofs --------------------------
(***************************************************************************)
(* The loops of scheduler_next() compute the sets of Scheduler, for any    *)
(* number of threads with any fields and wherever the last call stopped.   *)
(***************************************************************************)
EXTENDS SchedulerLoops, SchedulerProofs

(* The loops as equations.                                                 *)
WakeStep(s, i) ==
  IF s[i] = "SLEEPING" /\ now >= wk[i] THEN [s EXCEPT ![i] = "READY"] ELSE s

States == [Index -> {"READY", "SLEEPING"}]

LEMMA WakeLoopEquations ==
  ASSUME st \in States
  PROVE  /\ WakeLoop[0] = st
         /\ \A i \in Nat \ {0} : WakeLoop[i] = WakeStep(WakeLoop[i - 1], i - 1)
<1> DEFINE step == [p \in States \X Nat |-> WakeStep(p[1], p[2] - 1)]
           Body(f, i) == IF i = 0 THEN st
                         ELSE IF f[i - 1][i - 1] = "SLEEPING" /\ now >= wk[i - 1]
                              THEN [f[i - 1] EXCEPT ![i - 1] = "READY"] ELSE f[i - 1]
<1>1. ASSUME NEW s \in States, NEW i \in Nat PROVE WakeStep(s, i - 1) \in States
  BY DEF WakeStep, States
<1>2. Steps(States, st, step)
  BY <1>1 DEF Steps
<1> HIDE DEF step
<1>3. PICK f : Unfolds(States, st, step, f)
  BY <1>2, PrimitiveRecursion
<1>4. ASSUME NEW i \in Nat PROVE f[i] = Body(f, i)
  <2>1. i # 0 => <<f[i - 1], i>> \in States \X Nat
    BY <1>3 DEF Unfolds
  <2>2. QED
    BY <1>3, <2>1 DEF Unfolds, step, WakeStep
<1>5. f = [i \in Nat |-> Body(f, i)]
  BY <1>3, <1>4 DEF Unfolds
<1>6. WakeLoop = [i \in Nat |-> Body(WakeLoop, i)]
  BY <1>5, Zenon DEF WakeLoop
<1>7. QED
  BY <1>6 DEF WakeStep

(* After i iterations the first loop has woken the due ones of the first i *)
(* threads and has left the others.                                        *)
LEMMA WakeLoopWakes ==
  ASSUME st \in States, n \in 0 .. MaxThreads
  PROVE  WakeLoop[n] = Awake(n, st, wk, now)
<1> DEFINE Woken(i) ==
             [j \in Index |-> IF j < i /\ st[j] = "SLEEPING" /\ now >= wk[j]
                              THEN "READY" ELSE st[j]]
           Done == {i \in Nat : i <= n => WakeLoop[i] = Woken(i)}
<1>1. 0 \in Done
  <2>1. WakeLoop[0] = st
    BY WakeLoopEquations
  <2>2. \A j \in Index : ~(j < 0)
    BY LoopAssumption DEF Index
  <2>3. st = Woken(0)
    BY <2>2 DEF States
  <2>4. QED
    BY <2>1, <2>3
<1>2. ASSUME NEW i \in Nat, i \in Done PROVE i + 1 \in Done
  <2>1. SUFFICES ASSUME i + 1 <= n PROVE WakeLoop[i + 1] = Woken(i + 1)
    OBVIOUS
  <2>2. WakeLoop[i] = Woken(i)
    BY <1>2, <2>1
  <2>3. WakeLoop[i + 1] = WakeStep(WakeLoop[i], i)
    BY WakeLoopEquations
  <2>4. i \in Index
    BY <2>1, LoopAssumption DEF Index
  <2>5. WakeLoop[i][i] = st[i]
    BY <2>2, <2>4
  <2>6. WakeStep(Woken(i), i) = Woken(i + 1)
    <3>1. \A j \in Index : j < i + 1 <=> j < i \/ j = i
      BY LoopAssumption DEF Index
    <3>2. CASE st[i] = "SLEEPING" /\ now >= wk[i]
      <4>1. WakeStep(Woken(i), i) = [Woken(i) EXCEPT ![i] = "READY"]
        BY <2>2, <2>5, <3>2 DEF WakeStep
      <4>2. QED
        BY <3>1, <3>2, <4>1
    <3>3. CASE ~(st[i] = "SLEEPING" /\ now >= wk[i])
      <4>1. WakeStep(Woken(i), i) = Woken(i)
        BY <2>2, <2>5, <3>3 DEF WakeStep
      <4>2. QED
        BY <3>1, <3>3, <4>1
    <3>4. QED
      BY <3>2, <3>3
  <2>7. QED
    BY <2>2, <2>3, <2>6
<1> HIDE DEF Done
<1>3. n \in Done
  BY <1>1, <1>2, Induction
<1>4. WakeLoop[n] = Woken(n)
  BY <1>3 DEF Done
<1>5. DOMAIN st = Index
  BY DEF States
<1>6. QED
  BY <1>4, <1>5, LoopAssumption DEF Awake, Expired, Created, Index

-------------------------------------------------------------------------------
PrioStep(s, h, i) == IF s[i] = "READY" /\ pr[i] > h THEN pr[i] ELSE h

LEMMA PrioLoopEquations ==
  ASSUME NEW s
  PROVE  /\ PrioLoop(s)[0] = 0
         /\ \A i \in Nat \ {0} : PrioLoop(s)[i] = PrioStep(s, PrioLoop(s)[i - 1], i - 1)
<1> DEFINE V == {0} \cup {pr[i - 1] : i \in Nat}
           step == [p \in V \X Nat |-> PrioStep(s, p[1], p[2] - 1)]
           Body(f, i) == IF i = 0 THEN 0
                         ELSE IF s[i - 1] = "READY" /\ pr[i - 1] > f[i - 1]
                              THEN pr[i - 1] ELSE f[i - 1]
<1>1. Steps(V, 0, step)
  BY DEF Steps, PrioStep
<1> HIDE DEF step
<1>2. PICK f : Unfolds(V, 0, step, f)
  BY <1>1, PrimitiveRecursion, Zenon
<1>3. ASSUME NEW i \in Nat PROVE f[i] = Body(f, i)
  <2>1. i # 0 => <<f[i - 1], i>> \in V \X Nat
    BY <1>2 DEF Unfolds
  <2>2. QED
    BY <1>2, <2>1 DEF Unfolds, step, PrioStep
<1>4. f = [i \in Nat |-> Body(f, i)]
  BY <1>2, <1>3 DEF Unfolds
<1>5. PrioLoop(s) = [i \in Nat |-> Body(PrioLoop(s), i)]
  BY <1>4, Zenon DEF PrioLoop
<1>6. QED
  BY <1>5 DEF PrioStep

(* The second loop's running maximum.                                      *)
LEMMA PrioLoopIsMaximum ==
  ASSUME NEW s, n \in 0 .. MaxThreads, pr \in [Index -> 0 .. MaxPrio]
  PROVE  /\ PrioLoop(s)[n] \in Nat
         /\ \A j \in Ready(n, s) : pr[j] <= PrioLoop(s)[n]
         /\ Ready(n, s) # {} => \E j \in Ready(n, s) : pr[j] = PrioLoop(s)[n]
<1> DEFINE Max(i, h) == /\ h \in Nat
                        /\ \A j \in Ready(i, s) : pr[j] <= h
                        /\ Ready(i, s) # {} => \E j \in Ready(i, s) : pr[j] = h
                        /\ Ready(i, s) = {} => h = 0
           Done == {i \in Nat : i <= n => Max(i, PrioLoop(s)[i])}
<1>1. 0 \in Done
  BY PrioLoopEquations DEF Ready, Created
<1>2. ASSUME NEW i \in Nat, i \in Done PROVE i + 1 \in Done
  <2>1. SUFFICES ASSUME i + 1 <= n PROVE Max(i + 1, PrioLoop(s)[i + 1])
    OBVIOUS
  <2> DEFINE h == PrioLoop(s)[i]
  <2>2. Max(i, h)
    BY <1>2, <2>1
  <2>3. PrioLoop(s)[i + 1] = PrioStep(s, h, i)
    BY PrioLoopEquations
  <2> HIDE DEF h
  <2>4. i \in Index /\ pr[i] \in Nat
    BY <2>1, LoopAssumption DEF Index
  <2>5. Ready(i + 1, s) = IF s[i] = "READY" THEN Ready(i, s) \cup {i} ELSE Ready(i, s)
    BY DEF Ready, Created
  <2>6. \A j \in Ready(i, s) : pr[j] \in Nat
    BY <2>1, LoopAssumption DEF Ready, Created, Index
  <2>7. CASE s[i] = "READY" /\ pr[i] > h
    BY <2>2, <2>3, <2>4, <2>5, <2>6, <2>7 DEF PrioStep
  <2>8. CASE s[i] = "READY" /\ ~(pr[i] > h)
    <3>1. PrioLoop(s)[i + 1] = h /\ pr[i] <= h
      BY <2>2, <2>3, <2>4, <2>8 DEF PrioStep
    <3>2. Ready(i, s) = {} => pr[i] = h
      BY <2>2, <2>4, <3>1
    <3>3. QED
      BY <2>2, <2>4, <2>5, <2>8, <3>1, <3>2
  <2>9. CASE s[i] # "READY"
    BY <2>2, <2>3, <2>5, <2>9 DEF PrioStep
  <2>10. QED
    BY <2>7, <2>8, <2>9
<1> HIDE DEF Done
<1>3. n \in Done
  BY <1>1, <1>2, Induction
<1>4. QED
  BY <1>3 DEF Done

-------------------------------------------------------------------------------
Slot(i) == (last + i) % n
Matches(s, highest, i) == s[Slot(i)] = "READY" /\ pr[Slot(i)] = highest
PickStep(s, highest, found, i) ==
  IF found # NULL THEN found ELSE IF Matches(s, highest, i) THEN Slot(i) ELSE NULL

LEMMA PickLoopEquations ==
  ASSUME NEW s, NEW highest
  PROVE  /\ PickLoop(s, highest)[0] = NULL
         /\ \A i \in Nat \ {0} : PickLoop(s, highest)[i]
                                 = PickStep(s, highest, PickLoop(s, highest)[i - 1], i)
<1> DEFINE V == {NULL} \cup {Slot(i) : i \in Nat}
           step == [p \in V \X Nat |-> PickStep(s, highest, p[1], p[2])]
           Body(f, i) ==
             IF i = 0 THEN NULL
             ELSE IF f[i - 1] # NULL THEN f[i - 1]
                  ELSE IF s[(last + i) % n] = "READY" /\ pr[(last + i) % n] = highest
                       THEN (last + i) % n ELSE NULL
<1>1. Steps(V, NULL, step)
  BY DEF Steps, PickStep
<1> HIDE DEF step
<1>2. PICK f : Unfolds(V, NULL, step, f)
  BY <1>1, PrimitiveRecursion, Zenon
<1>3. ASSUME NEW i \in Nat PROVE f[i] = Body(f, i)
  <2>1. i # 0 => <<f[i - 1], i>> \in V \X Nat
    BY <1>2 DEF Unfolds
  <2>2. i # 0 => f[i] = PickStep(s, highest, f[i - 1], i)
    BY <1>2, <2>1 DEF Unfolds, step
  <2>3. QED
    BY <1>2, <2>2 DEF Unfolds, PickStep, Matches, Slot
<1>4. f = [i \in Nat |-> Body(f, i)]
  BY <1>2, <1>3 DEF Unfolds
<1>5. PickLoop(s, highest) = [i \in Nat |-> Body(PickLoop(s, highest), i)]
  BY <1>4, Zenon DEF PickLoop
<1>6. QED
  BY <1>5 DEF PickStep, Matches, Slot

(* The third loop returns at its first match, or with NULL after n steps.  *)
LEMMA PickLoopFindsFirst ==
  ASSUME NEW s, NEW highest, n \in 0 .. MaxThreads, last \in Nat
  PROVE  LET k == PickLoop(s, highest)[n] IN
         \/ k = NULL /\ \A i \in 1 .. n : ~Matches(s, highest, i)
         \/ \E i \in 1 .. n : /\ k = Slot(i) /\ Matches(s, highest, i)
                             /\ \A j \in 1 .. i - 1 : ~Matches(s, highest, j)
<1> DEFINE First(m, k) ==
             \/ k = NULL /\ \A i \in 1 .. m : ~Matches(s, highest, i)
             \/ \E i \in 1 .. m : /\ k = Slot(i) /\ Matches(s, highest, i)
                                 /\ \A j \in 1 .. i - 1 : ~Matches(s, highest, j)
           P == PickLoop(s, highest)
           Done == {m \in Nat : m <= n => First(m, P[m])}
<1> HIDE DEF P
<1>1. 0 \in Done
  BY PickLoopEquations DEF P
<1>2. ASSUME NEW m \in Nat, m \in Done PROVE m + 1 \in Done
  <2>1. SUFFICES ASSUME m + 1 <= n PROVE First(m + 1, P[m + 1])
    OBVIOUS
  <2>2. First(m, P[m])
    BY <1>2, <2>1
  <2>3. P[m + 1] = PickStep(s, highest, P[m], m + 1)
    BY PickLoopEquations DEF P
  <2>4. \A i \in 1 .. n : Slot(i) # NULL
    BY LoopAssumption DEF Slot
  <2>5. CASE P[m] = NULL
    <3>1. \A i \in 1 .. m : ~Matches(s, highest, i)
      BY <2>1, <2>2, <2>4, <2>5
    <3>2. CASE Matches(s, highest, m + 1)
      BY <2>3, <2>5, <3>1, <3>2 DEF PickStep
    <3>3. CASE ~Matches(s, highest, m + 1)
      <4>1. P[m + 1] = NULL
        BY <2>3, <2>5, <3>3 DEF PickStep
      <4>2. \A i \in 1 .. m + 1 : i \in 1 .. m \/ i = m + 1
        OBVIOUS
      <4>3. QED
        BY <3>1, <3>3, <4>1, <4>2
    <3>4. QED
      BY <3>2, <3>3
  <2>6. CASE P[m] # NULL
    <3>1. P[m + 1] = P[m]
      BY <2>3, <2>6 DEF PickStep
    <3>2. PICK i \in 1 .. m : /\ P[m] = Slot(i) /\ Matches(s, highest, i)
                              /\ \A j \in 1 .. i - 1 : ~Matches(s, highest, j)
      BY <2>2, <2>6
    <3>3. i \in 1 .. m + 1
      OBVIOUS
    <3>4. QED
      BY <3>1, <3>2, <3>3
  <2>7. QED
    BY <2>5, <2>6
<1> HIDE DEF Done
<1>3. n \in Done
  BY <1>1, <1>2, Induction
<1>4. QED
  BY <1>3 DEF Done, P

(* Step i of the third loop looks at the slot whose turn is i.             *)
LEMMA SlotHasItsTurn ==
  ASSUME NEW i \in 1 .. n, n \in Nat, last \in Nat, last = 0 \/ last < n
  PROVE  Slot(i) \in Created(n) /\ Turn(n, last, Slot(i)) = i
<1>1. n > 0 /\ last < n
  OBVIOUS
<1>2. Slot(i) = IF last + i < n THEN last + i ELSE last + i - n
  BY <1>1 DEF Slot
<1>3. QED
  BY <1>1, <1>2 DEF Created, Turn

LEMMA TurnHasItsSlot ==
  ASSUME NEW k \in Created(n), n \in Nat, last \in Nat, last = 0 \/ last < n
  PROVE  Turn(n, last, k) \in 1 .. n /\ Slot(Turn(n, last, k)) = k
<1>1. n > 0 /\ last < n /\ k \in 0 .. n - 1
  BY DEF Created
<1>2. Turn(n, last, k) \in 1 .. n
  BY <1>1 DEF Turn
<1>3. CASE k > last
  BY <1>1, <1>3 DEF Turn, Slot
<1>4. CASE k <= last
  <2>1. Turn(n, last, k) = k + n - last /\ last + (k + n - last) = k + n
    BY <1>1, <1>4 DEF Turn
  <2>2. (k + n) % n = k
    BY <1>1
  <2>3. QED
    BY <1>2, <2>1, <2>2 DEF Slot
<1>5. QED
  BY <1>1, <1>2, <1>3, <1>4

-------------------------------------------------------------------------------
LoopInv ==
  /\ n \in 0 .. MaxThreads
  /\ st \in States
  /\ pr \in [Index -> 0 .. MaxPrio]
  /\ last \in Nat /\ (last = 0 \/ last < n)

(* The candidates of the third loop are the ready threads of the highest   *)
(* priority.                                                               *)
LEMMA CandidatesAreTop ==
  ASSUME LoopInv, NEW s, NEW k \in Created(n)
  PROVE  s[k] = "READY" /\ pr[k] = PrioLoop(s)[n] <=> k \in TopReady(n, s, pr)
<1> DEFINE h == PrioLoop(s)[n]
<1>1. /\ h \in Nat
      /\ \A j \in Ready(n, s) : pr[j] <= h
      /\ Ready(n, s) # {} => \E j \in Ready(n, s) : pr[j] = h
  BY PrioLoopIsMaximum DEF LoopInv
<1> HIDE DEF h
<1>2. \A j \in Created(n) : pr[j] \in Nat
  BY LoopAssumption DEF LoopInv, Created, Index
<1>3. s[k] = "READY" <=> k \in Ready(n, s)
  BY DEF Ready
<1>4. ASSUME k \in Ready(n, s), pr[k] = h PROVE k \in TopReady(n, s, pr)
  BY <1>1, <1>4 DEF TopReady
<1>5. ASSUME k \in TopReady(n, s, pr) PROVE k \in Ready(n, s) /\ pr[k] = h
  <2>1. k \in Ready(n, s) /\ \A j \in Ready(n, s) : pr[j] <= pr[k]
    BY <1>5 DEF TopReady
  <2>2. PICK j \in Ready(n, s) : pr[j] = h
    BY <1>1, <2>1
  <2>3. pr[j] <= pr[k] /\ pr[k] <= h
    BY <1>1, <2>1
  <2>4. QED
    BY <1>1, <1>2, <2>1, <2>2, <2>3
<1>6. QED
  BY <1>3, <1>4, <1>5 DEF h

LEMMA LoopsAreSets == LoopInv /\ scheduler_next => Call
<1> SUFFICES ASSUME LoopInv, scheduler_next PROVE Call
  OBVIOUS
<1> DEFINE s == Awake(n, st, wk, now)
           h == PrioLoop(s)[n]
           k == PickLoop(s, h)[n]
           top == TopReady(n, s, pr)
<1>1. n \in Nat /\ n \in 0 .. MaxThreads /\ last \in Nat /\ (last = 0 \/ last < n)
  BY LoopAssumption DEF LoopInv
<1>2. st' = s /\ picked' = k /\ last' = (IF k = NULL THEN last ELSE k)
  <2>1. WakeLoop[n] = s
    BY WakeLoopWakes DEF LoopInv
  <2>2. QED
    BY <2>1 DEF scheduler_next
<1> HIDE DEF s
<1>3. \/ k = NULL /\ \A i \in 1 .. n : ~Matches(s, h, i)
      \/ \E i \in 1 .. n : /\ k = Slot(i) /\ Matches(s, h, i)
                          /\ \A j \in 1 .. i - 1 : ~Matches(s, h, j)
  BY <1>1, PickLoopFindsFirst
<1> HIDE DEF k
<1>4. \A i \in 1 .. n : Matches(s, h, i) <=> Slot(i) \in top
  <2> TAKE i \in 1 .. n
  <2>1. Slot(i) \in Created(n)
    BY <1>1, SlotHasItsTurn
  <2>2. QED
    BY <2>1, CandidatesAreTop DEF Matches
<1> HIDE DEF h
<1>5. top \subseteq Created(n)
  BY DEF TopReady, Ready
<1> HIDE DEF top
<1>6. CASE k = NULL /\ \A i \in 1 .. n : ~Matches(s, h, i)
  <2>1. top = {}
    <3>1. SUFFICES ASSUME NEW j \in top PROVE FALSE
      OBVIOUS
    <3>2. Turn(n, last, j) \in 1 .. n /\ Slot(Turn(n, last, j)) = j
      BY <1>1, <1>5, TurnHasItsSlot
    <3>3. QED
      BY <1>4, <1>6, <3>2
  <2>2. QED
    BY <1>2, <1>6, <2>1 DEF Call, s, top
<1>7. ASSUME NEW i \in 1 .. n, k = Slot(i), Matches(s, h, i),
             \A j \in 1 .. i - 1 : ~Matches(s, h, j)
      PROVE  Call
  <2>1. k \in top /\ k \in Created(n) /\ Turn(n, last, k) = i
    BY <1>1, <1>4, <1>7, SlotHasItsTurn
  <2>2. ASSUME NEW j \in top PROVE i <= Turn(n, last, j)
    <3> DEFINE t == Turn(n, last, j)
    <3>1. t \in 1 .. n /\ Slot(t) = j
      BY <1>1, <1>5, <2>2, TurnHasItsSlot
    <3> HIDE DEF t
    <3>2. Matches(s, h, t)
      BY <1>4, <2>2, <3>1
    <3>3. ~(t \in 1 .. i - 1)
      BY <1>7, <3>2
    <3>4. QED
      BY <3>1, <3>3 DEF t
  <2>3. /\ NextInTurn(n, last, top) \in top
        /\ \A j \in top : Turn(n, last, NextInTurn(n, last, top)) <= Turn(n, last, j)
    BY <1>1, <1>5, <2>1, NextInTurnIsFirst
  <2> DEFINE m == NextInTurn(n, last, top)
  <2> HIDE DEF m
  <2>4. m \in top /\ Turn(n, last, m) <= i /\ i <= Turn(n, last, m)
    BY <2>1, <2>2, <2>3 DEF m
  <2>5. Turn(n, last, m) \in 1 .. n /\ Slot(Turn(n, last, m)) = m
    BY <1>1, <1>5, <2>4, TurnHasItsSlot
  <2>6. m = k
    BY <1>7, <2>4, <2>5
  <2>7. k # NULL
    BY <1>1, <2>1, LoopAssumption DEF Created
  <2>8. top # {} /\ picked' = m /\ last' = picked'
    BY <1>2, <2>1, <2>6, <2>7
  <2>9. QED
    BY <1>2, <2>8 DEF Call, s, top, m
<1>8. QED
  BY <1>3, <1>6, <1>7

LEMMA LoopInvStep == LoopInv /\ [Next]_vars => LoopInv'
<1> SUFFICES ASSUME LoopInv, [Next]_vars PROVE LoopInv'
  OBVIOUS
<1> USE DEF LoopInv, States
<1>1. CASE scheduler_next
  <2>1. Call
    BY <1>1, LoopsAreSets
  <2>2. /\ UNCHANGED <<n, pr>> /\ n \in Nat
        /\ st' = Awake(n, st, wk, now)
    BY <1>1, <2>1, LoopAssumption DEF scheduler_next, Call
  <2>3. st' \in [Index -> {"READY", "SLEEPING"}]
    BY <2>2 DEF Awake
  <2> DEFINE top == TopReady(n, st', pr)
  <2>4. IF top = {} THEN last' = last
        ELSE picked' = NextInTurn(n, last, top) /\ last' = picked'
    BY <2>1 DEF Call
  <2>5. top \in SUBSET Created(n)
    BY DEF TopReady, Ready
  <2> HIDE DEF top
  <2>6. top # {} => last' \in Created(n)
    BY <2>2, <2>4, <2>5, NextInTurnIsFirst
  <2>7. last' \in Nat /\ (last' = 0 \/ last' < n)
    BY <2>2, <2>4, <2>6 DEF Created
  <2>8. QED
    BY <2>2, <2>3, <2>7
<1>2. CASE \E t \in 0 .. n - 1, w \in 0 .. MaxTime : SleepUntil(t, w)
  BY <1>2, LoopAssumption DEF SleepUntil
<1>3. CASE UNCHANGED vars
  BY <1>3 DEF vars
<1>4. QED
  BY <1>1, <1>2, <1>3 DEF Next

LEMMA LoopInvAlways == Spec => []LoopInv
<1>1. Init => LoopInv
  BY LoopAssumption DEF Init, LoopInv, States
<1>2. QED
  BY <1>1, LoopInvStep, PTL DEF Spec

(* The three loops of scheduler_next() compute what the sets of Scheduler  *)
(* say, for any number of threads, any states, priorities and wake times,  *)
(* and wherever earlier calls left last_thd_idx.                           *)
THEOREM LoopsComputeSets == Spec => LoopsMatchSets
<1>1. LoopInv /\ [Next]_vars => [scheduler_next => Call]_vars
  BY LoopsAreSets
<1>2. QED
  BY <1>1, LoopInvAlways, PTL DEF Spec, LoopsMatchSets

(* Round robin by the loops: a ready thread of the highest priority that   *)
(* one call passes over is nearer its turn at the next, so that at most    *)
(* n - 1 calls in a row pass it over.                                      *)
THEOREM RotationProgresses == Spec => PassedOverIsNearer
<1> DEFINE Nearer ==
      \A t \in TopReady(n, st', pr) \ {picked'} : Turn(n, last', t) < Turn(n, last, t)
<1>1. LoopInv /\ scheduler_next => Nearer
  <2> SUFFICES ASSUME LoopInv, scheduler_next, NEW t \in TopReady(n, st', pr) \ {picked'}
               PROVE  Turn(n, last', t) < Turn(n, last, t)
    OBVIOUS
  <2> DEFINE top == TopReady(n, st', pr)
  <2>1. n \in Nat /\ last \in Nat /\ (last = 0 \/ last < n)
    BY LoopAssumption DEF LoopInv
  <2>2. top \in SUBSET Created(n) /\ t \in top
    BY DEF TopReady, Ready
  <2>3. picked' = NextInTurn(n, last, top) /\ last' = picked'
    <3>1. st' = Awake(n, st, wk, now)
      BY LoopsAreSets DEF Call
    <3>2. QED
      BY <2>2, <3>1, LoopsAreSets DEF Call
  <2> HIDE DEF top
  <2>4. t # NextInTurn(n, last, top)
    BY <2>3
  <2>5. QED
    BY <2>1, <2>2, <2>3, <2>4, PassedOver
<1> HIDE DEF Nearer
<1>2. LoopInv /\ [Next]_vars => [scheduler_next => Nearer]_vars
  BY <1>1
<1>3. Spec => [][scheduler_next => Nearer]_vars
  BY <1>2, LoopInvAlways, PTL DEF Spec
<1>4. QED
  BY <1>3 DEF PassedOverIsNearer, Nearer
================================================================================
