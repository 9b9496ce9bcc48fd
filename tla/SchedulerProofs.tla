---------------------------- MODULE SchedulerProofs ----------------------------
(***************************************************************************)
(* What scheduler_next() picks, for any number of threads and any fields.  *)
(***************************************************************************)
EXTENDS Scheduler, Recursion

(* The second loop: when a thread is ready, one of the ready threads has   *)
(* the highest priority.                                                   *)
LEMMA TopReadyExists ==
  ASSUME NEW n \in Nat, NEW st, NEW pr, NEW bound \in Nat,
         \A i \in Created(n) : pr[i] \in 0 .. bound,
         Ready(n, st) # {}
  PROVE  TopReady(n, st, pr) # {}
<1> DEFINE R == Ready(n, st)
<1> DEFINE Below == {bound - pr[i] : i \in R}
<1>1. \A i \in R : pr[i] \in 0 .. bound
  BY DEF Ready
<1>2. Below \in SUBSET Nat /\ Below # {}
  BY <1>1
<1>3. PICK x \in Below : \A y \in Below : x <= y
  BY <1>2, LeastNatural
<1>4. PICK i \in R : x = bound - pr[i]
  BY <1>3
<1>5. ASSUME NEW j \in R PROVE pr[j] <= pr[i]
  <2>1. bound - pr[j] \in Below
    OBVIOUS
  <2>2. bound - pr[i] <= bound - pr[j]
    BY <1>3, <1>4, <2>1
  <2>3. pr[i] \in Int /\ pr[j] \in Int
    BY <1>1
  <2>4. QED
    BY <2>2, <2>3
<1>6. QED
  BY <1>4, <1>5 DEF TopReady

(* The third loop: it returns the first candidate in turn.                 *)
LEMMA NextInTurnIsFirst ==
  ASSUME NEW n \in Nat, NEW last \in Nat, last = 0 \/ last < n,
         NEW S \in SUBSET Created(n), S # {}
  PROVE  /\ NextInTurn(n, last, S) \in S
         /\ \A j \in S : Turn(n, last, NextInTurn(n, last, S)) <= Turn(n, last, j)
<1> DEFINE T == {Turn(n, last, i) : i \in S}
<1>1. \A i \in S : Turn(n, last, i) \in Nat
  BY DEF Turn, Created
<1>2. T \in SUBSET Nat /\ T # {}
  BY <1>1
<1> HIDE DEF T
<1>3. PICK x \in T : \A y \in T : x <= y
  BY <1>2, LeastNatural
<1>4. PICK i \in S : x = Turn(n, last, i)
  BY <1>3 DEF T
<1>5. \A j \in S : Turn(n, last, i) <= Turn(n, last, j)
  BY <1>3, <1>4 DEF T
<1>6. QED
  BY <1>4, <1>5, Zenon DEF NextInTurn

(* Round robin among equals: every candidate the third loop passes over is *)
(* strictly nearer its turn at the next call, so a thread that stays ready *)
(* at the top is picked after at most n - 1 calls that pick others.        *)
LEMMA PassedOver ==
  ASSUME NEW n \in Nat, NEW last \in Nat, last = 0 \/ last < n,
         NEW S \in SUBSET Created(n), S # {},
         NEW j \in S \ {NextInTurn(n, last, S)}
  PROVE  /\ Turn(n, NextInTurn(n, last, S), j) \in 1 .. n - 1
         /\ Turn(n, NextInTurn(n, last, S), j) < Turn(n, last, j)
<1> DEFINE i == NextInTurn(n, last, S)
<1>1. i \in S /\ Turn(n, last, i) <= Turn(n, last, j)
  BY NextInTurnIsFirst
<1> HIDE DEF i
<1>2. i \in 0 .. n - 1 /\ j \in 0 .. n - 1 /\ i # j
  BY <1>1 DEF Created, i
<1>3. Turn(n, i, j) \in 1 .. n - 1 /\ Turn(n, i, j) < Turn(n, last, j)
  BY <1>1, <1>2 DEF Turn
<1>4. QED
  BY <1>3 DEF i

(* The first loop leaves no sleeper whose time has come.                   *)
LEMMA AwakeHasNoneExpired ==
  ASSUME NEW n \in Nat, NEW st, NEW wk, NEW now,
         Created(n) \subseteq DOMAIN st
  PROVE  Expired(n, Awake(n, st, wk, now), wk, now) = {}
BY DEF Expired, Awake
================================================================================
