---------------------------- MODULE SchedulerLoops ----------------------------
(***************************************************************************)
(* scheduler_next() loop by loop, as the code writes it, and a caller that *)
(* calls it with the threads in every combination of states.  It checks    *)
(* that the set definitions of Scheduler, which the kernel model uses, are *)
(* what the loops compute.                                                 *)
(***************************************************************************)
EXTENDS Scheduler

CONSTANTS MaxThreads, MaxPrio, MaxTime, NULL

ASSUME LoopAssumption ==
  /\ MaxThreads \in Nat \ {0} /\ MaxPrio \in Nat /\ MaxTime \in Nat
  /\ NULL \notin 0 .. MaxThreads - 1

VARIABLES n, st, wk, pr, now, last, picked
vars == <<n, st, wk, pr, now, last, picked>>

(* Each loop as a function of the iterations done.                         *)

(* for (i = 0; i < thread_count; i++): wake sleepers whose time has come.  *)
WakeLoop ==
  LET woken[i \in Nat] ==
        IF i = 0 THEN st
        ELSE LET s == woken[i - 1] IN
             IF s[i - 1] = "SLEEPING" /\ now >= wk[i - 1]
             THEN [s EXCEPT ![i - 1] = "READY"] ELSE s
  IN  woken

(* for (i = 0; i < thread_count; i++): the highest priority of the ready.  *)
PrioLoop(s) ==
  LET highest[i \in Nat] ==
        IF i = 0 THEN 0
        ELSE LET h == highest[i - 1] IN
             IF s[i - 1] = "READY" /\ pr[i - 1] > h THEN pr[i - 1] ELSE h
  IN  highest

(* for (i = 1; i <= thread_count; i++): the first ready one of it, with    *)
(* which the function returns.                                             *)
PickLoop(s, highest) ==
  LET picks[i \in Nat] ==
        IF i = 0 THEN NULL
        ELSE LET k == (last + i) % n IN
             IF picks[i - 1] # NULL THEN picks[i - 1]
             ELSE IF s[k] = "READY" /\ pr[k] = highest THEN k ELSE NULL
  IN  picks

scheduler_next_ForgetsLast ==
  /\ st' = WakeLoop[n]
  /\ picked' = PickLoop(st', PrioLoop(st')[n])[n]
  /\ UNCHANGED <<n, wk, pr, now, last>>

scheduler_next ==
  /\ st' = WakeLoop[n]
  /\ picked' = PickLoop(st', PrioLoop(st')[n])[n]
  /\ last' = IF picked' = NULL THEN last ELSE picked'
  /\ UNCHANGED <<n, wk, pr, now>>

-------------------------------------------------------------------------------
Index == 0 .. MaxThreads - 1

Init ==
  /\ n \in 0 .. MaxThreads
  /\ st \in [Index -> {"READY", "SLEEPING"}]
  /\ wk \in [Index -> 0 .. MaxTime]
  /\ pr \in [Index -> 0 .. MaxPrio]
  /\ now \in 0 .. MaxTime
  /\ last = 0 /\ picked = NULL

(* Between two calls any thread may have gone to sleep.                    *)
SleepUntil(t, w) ==
  /\ st' = [st EXCEPT ![t] = "SLEEPING"]
  /\ wk' = [wk EXCEPT ![t] = w]
  /\ UNCHANGED <<n, pr, now, last, picked>>

Next == scheduler_next \/ \E t \in 0 .. n - 1, w \in 0 .. MaxTime : SleepUntil(t, w)

Spec == Init /\ [][Next]_vars

-------------------------------------------------------------------------------
(* The kernel model's definition of a call, on the loops' variables.       *)
Call ==
  LET s == Awake(n, st, wk, now)
      top == TopReady(n, s, pr)
  IN /\ st' = s
     /\ IF top = {} THEN picked' = NULL /\ last' = last
        ELSE picked' = NextInTurn(n, last, top) /\ last' = picked'

(* The three loops compute what Scheduler's sets say, for every state of   *)
(* the threads and wherever the last call left last_thd_idx.               *)
LoopsMatchSets == [][scheduler_next => Call]_vars

(* Round robin: a ready thread of the highest priority that a call passes  *)
(* over is strictly nearer its turn at the next call, so at most n - 1     *)
(* calls in a row can pass it over.                                        *)
PassedOverIsNearer ==
  [][scheduler_next =>
       \A t \in TopReady(n, st', pr) \ {picked'} : Turn(n, last', t) < Turn(n, last, t)]_vars
===============================================================================
