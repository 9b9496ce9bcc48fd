--------------------------------- MODULE MCLeds ---------------------------------
(* Three LEDs and two threads, the first of which drives two of them.      *)
EXTENDS Leds

CONSTANTS t1, t2, led0, led1, led2

TwoOfThem == [p \in Pin |-> IF p = led1 THEN t2 ELSE t1]

(* m1core: every thread; gowin_m1: one, as in 05_preemption.               *)
OneOnGowin == [b \in Board |-> IF b = "m1core" THEN Thread ELSE {t1}]

(* Every thread on either, as in 01_blink.                                 *)
AllOnBoth == [b \in Board |-> Thread]
================================================================================
