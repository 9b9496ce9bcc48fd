------------------------------- MODULE LedsProofs -------------------------------
(***************************************************************************)
(* LedsAsAsked for any number of LEDs and threads: on m1core always, on    *)
(* gowin_m1 if at most one thread uses the LEDs.                           *)
(***************************************************************************)
EXTENDS Leds, TLAPS

OneRewrites == \A t, u \in Users["gowin_m1"] : t = u

LEMMA InitIInv == Init => IInv
BY DEF Init, IInv, TypeOK, CallInv, LedsAsAsked, Board

(* What a new call leaves alone: the port, and all calls of other threads. *)
LEMMA NewCall ==
  ASSUME IInv, NEW t \in Thread, NEW p \in Pin,
         (\E h \in BOOLEAN : led_write(t, p, h)) \/ TestDataOut(t, p) \/ LoadData(t, p)
  PROVE  IInv'
<1> USE DEF IInv
<1>1. /\ at[t] = "idle" /\ t \in Users[board] /\ Owner[p] = t
      /\ board' = board /\ port' = port
      /\ pin' = [pin EXCEPT ![t] = p]
  BY DEF led_write, TestDataOut, LoadData, Call
<1>2. TypeOK'
  <2>1. /\ at' \in [Thread -> {"idle", "load", "store", "set", "clr", "write"}]
        /\ board' \in Board /\ port' \in SUBSET Pin /\ pin' \in [Thread -> Pin]
    BY <1>1 DEF led_write, TestDataOut, LoadData, Call, TypeOK
  <2>2. high' \in [Thread -> BOOLEAN] /\ seen' \in [Thread -> SUBSET Pin]
    BY DEF led_write, TestDataOut, LoadData, TypeOK
  <2>3. asked' \in SUBSET Pin
    BY DEF led_write, TestDataOut, LoadData, TypeOK, Flip, Assign
  <2>4. QED
    BY <2>1, <2>2, <2>3 DEF TypeOK
<1>3. \A q \in Pin : q # p => (q \in asked' <=> q \in asked)
  BY DEF led_write, TestDataOut, LoadData, Flip, Assign
<1>4. \A u \in Thread : u # t =>
        at'[u] = at[u] /\ pin'[u] = pin[u] /\ high'[u] = high[u] /\ seen'[u] = seen[u]
  BY DEF led_write, TestDataOut, LoadData, Call, TypeOK
<1>5. at'[t] # "idle" /\ pin'[t] = p
  BY <1>1 DEF led_write, TestDataOut, LoadData, Call, TypeOK
<1>6. LedsAsAsked'
  <2> SUFFICES ASSUME NEW q \in Pin, at'[Owner[q]] = "idle" \/ pin'[Owner[q]] # q
               PROVE  q \in port' <=> q \in asked'
    BY DEF LedsAsAsked
  <2>1. q # p
    BY <1>1, <1>5
  <2>2. at[Owner[q]] = "idle" \/ pin[Owner[q]] # q
    BY <1>1, <1>4, OwnerAssumption
  <2>3. QED
    BY <1>1, <1>3, <2>1, <2>2 DEF LedsAsAsked
<1>7. CallInv'
  <2>1. ASSUME NEW u \in Thread, u # t, at[u] # "idle" PROVE pin[u] # p
    BY <1>1, <2>1 DEF CallInv
  <2>2. p \in port <=> p \in asked
    BY <1>1 DEF LedsAsAsked
  <2>3. /\ at'[t] \in {"load", "write", "set"}
        /\ at'[t] = "load" => board = "gowin_m1"
        /\ at'[t] = "set" => board = "m1core" /\ seen'[t] = port
        /\ at'[t] \in {"load", "write"} => (high'[t] <=> p \in asked')
        /\ at'[t] = "set" => (p \in asked' <=> p \notin asked)
    BY <1>1, <2>2, <1>2 DEF led_write, TestDataOut, LoadData, Call, TypeOK, Board, Flip, Assign
  <2>4. QED
    BY <1>1, <1>3, <1>4, <1>5, <2>1, <2>2, <2>3, <1>2 DEF CallInv, TypeOK
<1>8. QED
  BY <1>2, <1>6, <1>7

(* An access of a call that is under way: it changes at most the pin of    *)
(* its own call, and what the other threads have loaded stays as it was.   *)
LEMMA NextAccess ==
  ASSUME IInv, OneRewrites, NEW t \in Thread,
         LoadDataOut(t) \/ StoreDataOut(t) \/ WriteSet(t) \/ WriteClr(t) \/ WritePin(t)
  PROVE  IInv'
<1> USE DEF IInv
<1> DEFINE p == pin[t]
<1>1. /\ at[t] # "idle" /\ Owner[p] = t /\ t \in Users[board] /\ p \in Pin
      /\ board' = board /\ pin' = pin /\ high' = high /\ asked' = asked
  BY DEF LoadDataOut, StoreDataOut, WriteSet, WriteClr, WritePin, Access, CallInv, TypeOK
<1>2. TypeOK'
  BY <1>1 DEF LoadDataOut, StoreDataOut, WriteSet, WriteClr, WritePin, Access, TypeOK, Assign
<1>3. \A u \in Thread : u # t => at'[u] = at[u] /\ seen'[u] = seen[u]
  BY DEF LoadDataOut, StoreDataOut, WriteSet, WriteClr, WritePin, Access, TypeOK
<1>4. \A q \in Pin : q # p => (q \in port' <=> q \in port)
  <2>1. CASE StoreDataOut(t)
    BY <2>1 DEF StoreDataOut, Access, CallInv, Assign
  <2>2. CASE ~StoreDataOut(t)
    BY <2>2 DEF LoadDataOut, WriteSet, WriteClr, WritePin, Assign
  <2>3. QED
    BY <2>1, <2>2
<1>5. /\ at'[t] = "idle" => (p \in port' <=> p \in asked)
      /\ at'[t] = "store" => /\ board = "gowin_m1" /\ seen'[t] = port'
                             /\ (high[t] <=> p \in asked)
      /\ at'[t] = "clr" => /\ board = "m1core"
                           /\ (p \in seen'[t] <=> p \notin asked)
                           /\ p \in port'
      /\ at'[t] \in {"idle", "store", "clr"}
  <2>1. CASE LoadDataOut(t)
    BY <2>1 DEF LoadDataOut, Access, CallInv, TypeOK
  <2>2. CASE StoreDataOut(t)
    BY <2>2 DEF StoreDataOut, Access, CallInv, TypeOK, Assign
  <2>3. CASE WriteSet(t)
    BY <2>3 DEF WriteSet, Access, CallInv, TypeOK
  <2>4. CASE WriteClr(t)
    BY <2>4 DEF WriteClr, Access, CallInv, TypeOK
  <2>5. CASE WritePin(t)
    BY <2>5 DEF WritePin, Access, CallInv, TypeOK, Assign
  <2>6. QED
    BY <2>1, <2>2, <2>3, <2>4, <2>5
<1>6. LedsAsAsked'
  <2> SUFFICES ASSUME NEW q \in Pin, at'[Owner[q]] = "idle" \/ pin'[Owner[q]] # q
               PROVE  q \in port' <=> q \in asked'
    BY DEF LedsAsAsked
  <2>1. CASE q = p
    BY <1>1, <1>5, <2>1
  <2>2. CASE q # p
    <3>1. at[Owner[q]] = "idle" \/ pin[Owner[q]] # q
      BY <1>1, <1>3, <2>2, OwnerAssumption
    <3>2. QED
      BY <1>1, <1>4, <2>2, <3>1 DEF LedsAsAsked
  <2>3. QED
    BY <2>1, <2>2
<1>7. CallInv'
  <2> SUFFICES ASSUME NEW u \in Thread PROVE CallInv!(u)'
    BY DEF CallInv
  <2>1. CASE u = t
    BY <1>1, <1>5, <2>1 DEF CallInv
  <2>2. CASE u # t
    <3>1. at[u] = "store" => board = "gowin_m1" /\ u \in Users[board]
      BY DEF CallInv
    <3>2. at[u] = "store" => port' = port
      BY <1>1, <3>1, <2>2 DEF OneRewrites
    <3>3. at[u] # "idle" => pin[u] # p /\ pin[u] \in Pin
      BY <1>1, <2>2 DEF CallInv, TypeOK
    <3>4. QED
      BY <1>1, <1>3, <1>4, <2>2, <3>2, <3>3 DEF CallInv
  <2>3. QED
    BY <2>1, <2>2
<1>8. QED
  BY <1>2, <1>6, <1>7

(* IInv says where every call under way has come, so that what it will     *)
(* write is still right when it does.                                      *)
THEOREM Inductive ==
  ASSUME OneRewrites
  PROVE  Spec => []IInv
<1>1. IInv /\ [Next]_vars => IInv'
  <2> SUFFICES ASSUME IInv, [Next]_vars PROVE IInv'
    OBVIOUS
  <2>1. CASE UNCHANGED vars
    BY <2>1 DEF vars, IInv, TypeOK, CallInv, LedsAsAsked
  <2>2. CASE Next
    BY <2>2, NewCall, NextAccess DEF Next
  <2>3. QED
    BY <2>1, <2>2
<1>2. QED
  BY <1>1, InitIInv, PTL DEF Spec

(* 01_blink on m1core, 05_preemption on either board: when no call for it  *)
(* is under way, a LED is as its thread last asked.                        *)
THEOREM LedsIndependent ==
  ASSUME OneRewrites
  PROVE  Spec => []LedsAsAsked
<1>1. IInv => LedsAsAsked
  BY DEF IInv
<1>2. QED
  BY <1>1, Inductive, PTL
================================================================================
