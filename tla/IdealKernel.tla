------------------------------ MODULE IdealKernel ------------------------------
(***************************************************************************)
(* What m1kern promises (README.md, m1kern.h), without exceptions, pending *)
(* bits, switches or calls in several steps: at every instant the core     *)
(* belongs to the thread run, or to the kernel, which hands it on.         *)
(***************************************************************************)
EXTENDS Integers

CONSTANTS
  MaxThreads,   \* slots for threads
  TimeMod,      \* the clock counts modulo this
  NOBODY        \* run, when the core is the kernel's

Thread == 0 .. MaxThreads - 1

VARIABLES
  count,        \* threads 0 .. count - 1 exist
  prio,
  asleep,       \* the threads that sleep ...
  until,        \* ... and the time each of them sleeps to
  clock,
  started,      \* threads may run
  last,         \* the thread that had its turn last
  run           \* the thread the core belongs to

vars == <<count, prio, asleep, until, clock, started, last, run>>

Init ==
  /\ count = 0
  /\ prio = [t \in Thread |-> 0]
  /\ asleep = {}
  /\ until = [t \in Thread |-> 0]
  /\ clock = 0
  /\ started = FALSE
  /\ last = 0
  /\ run = NOBODY

Create(p) ==
  /\ ~started /\ count < MaxThreads
  /\ prio' = [prio EXCEPT ![count] = p]
  /\ count' = count + 1
  /\ UNCHANGED <<asleep, until, clock, started, last, run>>

Start ==
  /\ count > 0
  /\ started' = TRUE
  /\ UNCHANGED <<count, prio, asleep, until, clock, last, run>>

(* Every tick takes the core from the thread that has it.                  *)
Tick ==
  /\ clock' = (clock + 1) % TimeMod
  /\ run' = NOBODY
  /\ UNCHANGED <<count, prio, asleep, until, started, last>>

Yield ==
  /\ run' = NOBODY
  /\ UNCHANGED <<count, prio, asleep, until, clock, started, last>>

(* Only the thread that has the core can go to sleep, and leaves it.       *)
Sleep(w) ==
  /\ run # NOBODY
  /\ asleep' = asleep \cup {run}
  /\ until' = [until EXCEPT ![run] = w]
  /\ run' = NOBODY
  /\ UNCHANGED <<count, prio, clock, started, last>>

Due == {t \in asleep : until[t] <= clock}

(* The threads that may have the core next: awake or due, of the highest   *)
(* priority among those, and not the one that had its turn last if there   *)
(* is another.                                                             *)
Awake == {t \in Thread : t < count} \ (asleep \ Due)
Top == {t \in Awake : \A u \in Awake : prio[u] <= prio[t]}
Turn == IF Top = {last} THEN Top ELSE Top \ {last}

(* The choice may be void at once, when a tick is about to take the core.  *)
Choose ==
  /\ started /\ run = NOBODY
  /\ \E t \in Turn : last' = t /\ run' \in {t, NOBODY}
  /\ asleep' = asleep \ Due
  /\ until' = [t \in Thread |-> IF t \in Due THEN 0 ELSE until[t]]
  /\ UNCHANGED <<count, prio, clock, started>>

Next ==
  \/ \E p \in 0 .. 255 : Create(p)
  \/ Start \/ Tick \/ Yield \/ Choose
  \/ \E w \in 0 .. TimeMod - 1 : Sleep(w)

Spec == Init /\ [][Next]_vars

-------------------------------------------------------------------------------
(* What follows from it: whoever has the core is awake and of the highest  *)
(* priority, and nobody is due.                                            *)
CoreToTheTop == run # NOBODY => run \in Top /\ Due = {}
================================================================================
