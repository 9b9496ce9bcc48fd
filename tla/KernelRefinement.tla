--------------------------- MODULE KernelRefinement ---------------------------
(***************************************************************************)
(* M1Kern implements IdealKernel.  A thread has the core, ideally, from    *)
(* the moment scheduler_next() has picked it until PendSV is pended again  *)
(* or it has marked itself sleeping: the rest of the switch, and the rest  *)
(* of its kernel call, are already the kernel's.                           *)
(***************************************************************************)
EXTENDS M1Kern

Sleepers == {t \in Slot : state[t] = "SLEEPING"}

HasCore ==
  /\ handler = "return" \/ (handler = "idle" /\ base # Boot)
  /\ ~pendSV
  /\ state[current_thread] = "READY"

Ideal == INSTANCE IdealKernel WITH
  count   <- thread_count,
  prio    <- priority,
  asleep  <- Sleepers,
  until   <- [t \in Slot |-> IF t \in Sleepers THEN wake_time[t] ELSE 0],
  clock   <- system_time_ms,
  started <- kernel_running,
  last    <- last_thd_idx,
  run     <- IF HasCore THEN current_thread ELSE NULL,
  NOBODY  <- NULL

(* What the refinement rests on besides IInv: who is not created does not  *)
(* sleep, and threads exist once kernel_start has passed its check.        *)
CreationInv ==
  /\ boot = "init" => thread_count = 0
  /\ boot \notin {"init", "create", "returned"} => thread_count > 0
  /\ Sleepers \subseteq Created(thread_count)

(* The kernel keeps the promises of IdealKernel, whatever ticks fall into  *)
(* its calls and switches.                                                 *)
ImplementsIdeal == Ideal!Spec
===============================================================================
