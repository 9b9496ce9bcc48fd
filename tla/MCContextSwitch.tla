---------------------------- MODULE MCContextSwitch ----------------------------
(* The applications of MCM1Kern, with registers and stacks.                *)
EXTENDS ContextSwitch

AnyPrio == [t \in Slot |-> {1, 2}]
OnlyPrio == [t \in Slot |-> {1}]
NoDelays == [t \in Slot |-> {}]
FirstSleeps == [t \in Slot |-> IF t = 0 THEN {0, 1} ELSE {}]

(* Stacks of THREAD_STACK, an uint8_t array each: one after the other, of  *)
(* just the bytes they need.  Each thread's pushes up to a word, the last  *)
(* one's up to two.                                                        *)
WordsPushed == [t \in Slot |-> IF t < 2 THEN 1 ELSE 2]
ExactSizes == [t \in Slot |-> IF t = 0 THEN 96 + 7 ELSE IF t = 1 THEN 72 + 3 ELSE 72]
InARow == [t \in Slot |-> IF t = 0 THEN 207 ELSE IF t = 1 THEN 307 ELSE 400]
NoWords == [t \in Slot |-> 0]
===============================================================================
