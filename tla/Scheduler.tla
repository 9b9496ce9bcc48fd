------------------------------ MODULE Scheduler ------------------------------
(***************************************************************************)
(* scheduler_next() of kernel/src/kernel.c as operators.  A thread is the  *)
(* index of its slot in threads[], 0 .. n-1 with n = thread_count; st, wk  *)
(* and pr are the state, wake_time and priority fields of the control      *)
(* blocks, and last is the function's static last_thd_idx.                 *)
(***************************************************************************)
EXTENDS Integers

Created(n) == 0 .. n - 1

(* Mutants of a definition stand before it, named after the slip they make. *)
Expired_Early(n, st, wk, now) ==
  {i \in Created(n) : st[i] = "SLEEPING" /\ now + 1 >= wk[i]}
Expired_Late(n, st, wk, now) ==
  {i \in Created(n) : st[i] = "SLEEPING" /\ now > wk[i]}

(* First loop: a sleeper whose wake_time has come is made ready.  The      *)
(* comparison is the code's plain unsigned >=, not a wrap-safe one.        *)
Expired(n, st, wk, now) ==
  {i \in Created(n) : st[i] = "SLEEPING" /\ now >= wk[i]}

Awake(n, st, wk, now) ==
  [i \in DOMAIN st |-> IF i \in Expired(n, st, wk, now) THEN "READY" ELSE st[i]]

Ready(n, st) == {i \in Created(n) : st[i] = "READY"}

TopReady_Any(n, st, pr) == Ready(n, st)

(* Second loop: the ready threads of the highest priority.  The code's     *)
(* highest_prio starts at 0, the least value of the unsigned field.        *)
TopReady(n, st, pr) ==
  {i \in Ready(n, st) : \A j \in Ready(n, st) : pr[j] <= pr[i]}

Turn_LastFirst(n, last, k) == IF k >= last THEN k - last ELSE k + n - last

(* Third loop: its counter i at which it looks at slot k, when it scans    *)
(* (last + i) % n for i = 1 .. n.  The last slot served comes last.        *)
Turn(n, last, k) == IF k > last THEN k - last ELSE k + n - last

NextInTurn_First(n, last, S) == CHOOSE i \in S : \A j \in S : i <= j

NextInTurn(n, last, S) ==
  CHOOSE i \in S : \A j \in S : Turn(n, last, i) <= Turn(n, last, j)
==============================================================================
