------------------------------- MODULE MCM1Kern -------------------------------
(* Applications for TLC: what main() creates and what its threads call.    *)
EXTENDS KernelRefinement

(* Two or three threads of any of two priorities; the first two sleep.     *)
AnyPrio == [t \in Slot |-> {1, 2}]
SleepersDelays == [t \in Slot |-> IF t = 0 THEN {1, 2} ELSE IF t = 1 THEN {0, 1} ELSE {}]

OnlyPrio == [t \in Slot |-> {1}]
ShortDelays == [t \in Slot |-> {1}]
NoDelays == [t \in Slot |-> {}]

(* 05_preemption: spinning equals and a monitor of higher priority that    *)
(* sleeps.                                                                 *)
MonitorPrio == [t \in Slot |-> IF t = MaxThreads - 1 THEN {2} ELSE {1}]
MonitorDelays == [t \in Slot |-> IF t = MaxThreads - 1 THEN {1} ELSE {}]
===============================================================================
