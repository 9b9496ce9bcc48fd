-------------------------------- MODULE M1Kern --------------------------------
(***************************************************************************)
(* The kernel on one Cortex-M1: the boot context (main and kernel_start),  *)
(* the threads, and the exceptions SysTick, SVC and PendSV, interleaved as *)
(* the NVIC and PRIMASK let them.  Control and scheduling only; what the   *)
(* switch does with registers and stacks is added by ContextSwitch.        *)
(***************************************************************************)
EXTENDS Scheduler

CONSTANTS
  MaxThreads,   \* MAX_THREADS: slots in threads[]
  PrioOf,       \* per slot, the priorities main may create its thread with
  Delays,       \* per slot, the ms its thread passes to thread_sleep_ms
  Yields,       \* the slots whose thread calls thread_yield
  TimeMod,      \* system_time_ms counts modulo this (2^32 in the code)
  Horizon,      \* bound: SysTick stops before this many ticks (> TimeMod: never)
  MinSteps,     \* least number of CPU steps between two SysTick expiries
  WfiBlocks,    \* TRUE: wfi suspends the core; FALSE: it is a hint (a NOP)
  LateTick,     \* TRUE: a load of ICSR may see the tick that is about to be taken
  BootTick,     \* TRUE: a tick may expire in kernel_start after kernel_running = 1
  NULL, Boot    \* no thread; the context main() runs in

Slot == 0 .. MaxThreads - 1

ASSUME ThreadsAssumption == MaxThreads \in Nat \ {0}
ASSUME PrioAssumption == PrioOf \in [Slot -> SUBSET (0 .. 255)]   \* uint8_t
ASSUME DelaysAssumption == Delays \in [Slot -> SUBSET Nat]
ASSUME YieldsAssumption == Yields \subseteq Slot
ASSUME TimeAssumption == TimeMod \in Nat \ {0} /\ Horizon \in Nat /\ MinSteps \in Nat
ASSUME HardwareAssumption == {WfiBlocks, LateTick, BootTick} \subseteq BOOLEAN
ASSUME ContextAssumption == NULL \notin Slot /\ Boot \notin Slot

VARIABLES
  thread_count, state, wake_time, priority,      \* threads[] and its blocks
  last_thd_idx, current_thread, kernel_running, system_time_ms,
  shp,          \* SHP: 2-bit priorities of PendSV and SysTick (less is higher)
  pendSV, pendST,      \* the pending bits of ICSR
  base,         \* whose context thread mode belongs to: a slot or Boot
  boot,         \* where main()/kernel_start() is
  saved,        \* per block, the context its saved stack pointer resumes
  resume,       \* the context pendsv.S restored last
  tpc,          \* where each thread is in its calls to the kernel
  icsr,         \* per thread, the PENDSTSET bit its read of ICSR returned
  handler,      \* where PendSV_Handler is; "idle" when it is not active
  sinceTick,    \* CPU steps since the last tick, up to MinSteps
  ticks,        \* history: SysTick expiries, modulo TimeMod
  left          \* history: ticks a sleep still needs to have lasted its ms for sure

sched  == <<thread_count, state, wake_time, priority, last_thd_idx, current_thread>>
kernel == <<kernel_running, system_time_ms, shp>>
cpu    == <<base, boot, saved, resume, tpc, icsr, handler>>
vars   == <<sched, kernel, pendSV, pendST, cpu, sinceTick, ticks, left>>

-------------------------------------------------------------------------------
(* Reset state: .bss is zero, so every control block reads THREAD_READY;   *)
(* board_init() has started the tick (SysTick_Config gives it priority 3). *)
Init ==
  /\ thread_count = 0
  /\ state = [t \in Slot |-> "READY"]
  /\ wake_time = [t \in Slot |-> 0]
  /\ priority = [t \in Slot |-> 0]
  /\ last_thd_idx = 0
  /\ current_thread = NULL
  /\ kernel_running = FALSE
  /\ system_time_ms = 0
  /\ shp = [PendSV |-> 0, SysTick |-> 3]
  /\ pendSV = FALSE /\ pendST = FALSE
  /\ base = Boot /\ boot = "init"
  /\ saved = [t \in Slot |-> t]                     \* init_stack()
  /\ resume = Boot
  /\ tpc = [t \in Slot |-> "run"]
  /\ icsr = [t \in Slot |-> FALSE]
  /\ handler = "idle"
  /\ sinceTick = 0 /\ ticks = 0
  /\ left = [t \in Slot |-> 0]

CpuStep ==
  /\ sinceTick' = IF sinceTick < MinSteps THEN sinceTick + 1 ELSE sinceTick
  /\ UNCHANGED <<ticks, left>>

(* Instructions of thread mode: no handler active, no exception to take.   *)
ThreadMode(c) == base = c /\ handler = "idle" /\ ~pendSV /\ ~pendST

(* SysTick preempts PendSV only by priority; among pending ones the lower  *)
(* priority value is taken first, then the lower number (PendSV).          *)
TickTakable ==
  /\ pendST
  /\ (handler # "idle" \/ pendSV) => shp.SysTick < shp.PendSV

(* CONTROL.SPSEL: thread mode is on PSP from kernel_start's msr CONTROL on. *)
OnPsp == base # Boot \/ boot \in {"svc", "spin"}

-------------------------------------------------------------------------------
(* main() and kernel_start() *)

BootStep(from, to) ==
  /\ ThreadMode(Boot) /\ boot = from
  /\ boot' = to
  /\ CpuStep
  /\ UNCHANGED <<pendST, base, saved, resume, tpc, icsr, handler>>

kernel_init ==
  /\ BootStep("init", "create")
  /\ thread_count' = 0
  /\ UNCHANGED <<state, wake_time, priority, last_thd_idx, current_thread, kernel, pendSV>>

thread_create_OffByOne(p) ==
  /\ BootStep("create", "create")
  /\ thread_count <= MaxThreads
  /\ thread_count \in Slot => p \in PrioOf[thread_count]
  /\ wake_time' = [wake_time EXCEPT ![thread_count] = 0]
  /\ state' = [state EXCEPT ![thread_count] = "READY"]
  /\ priority' = [priority EXCEPT ![thread_count] = p]
  /\ thread_count' = thread_count + 1
  /\ UNCHANGED <<last_thd_idx, current_thread, kernel, pendSV>>

(* thread_create(); past MAX_THREADS it returns NULL and changes nothing.  *)
thread_create(p) ==
  /\ BootStep("create", "create")
  /\ thread_count < MaxThreads
  /\ p \in PrioOf[thread_count]
  /\ wake_time' = [wake_time EXCEPT ![thread_count] = 0]
  /\ state' = [state EXCEPT ![thread_count] = "READY"]
  /\ priority' = [priority EXCEPT ![thread_count] = p]
  /\ thread_count' = thread_count + 1
  /\ UNCHANGED <<last_thd_idx, current_thread, kernel, pendSV>>

StartWithoutThreads ==
  /\ BootStep("create", "returned")
  /\ thread_count = 0
  /\ UNCHANGED <<sched, kernel, pendSV>>

SetExcPrio_OnlyPendSV ==
  /\ BootStep("create", "prio")
  /\ thread_count # 0
  /\ shp' = [PendSV |-> 3, SysTick |-> 3]
  /\ UNCHANGED <<sched, kernel_running, system_time_ms, pendSV>>

(* m1kern_target_set_exc_prio(): 0xFF keeps its two implemented bits.      *)
SetExcPrio ==
  /\ BootStep("create", "prio")
  /\ thread_count # 0
  /\ shp' = [PendSV |-> 3, SysTick |-> 0]
  /\ UNCHANGED <<sched, kernel_running, system_time_ms, pendSV>>

SetRunning ==
  /\ BootStep("prio", "running")
  /\ kernel_running' = TRUE
  /\ UNCHANGED <<sched, system_time_ms, shp, pendSV>>

ClearCurrent ==
  /\ BootStep("running", "control")
  /\ current_thread' = NULL
  /\ UNCHANGED <<thread_count, state, wake_time, priority, last_thd_idx, kernel, pendSV>>

SetControl ==
  /\ BootStep("control", "svc")
  /\ UNCHANGED <<sched, kernel, pendSV>>

(* svc #0 and SVC_Handler: SVC has priority 0 too, so SysTick waits and    *)
(* the read-modify-write of ICSR is not interrupted.                       *)
SVC ==
  /\ BootStep("svc", "spin")
  /\ pendSV' = TRUE
  /\ UNCHANGED <<sched, kernel>>

BootSpin ==
  /\ \E l \in {"spin", "returned"} : BootStep(l, l)
  /\ UNCHANGED <<sched, kernel, pendSV>>

-------------------------------------------------------------------------------
(* The tick: the counter expires, then SysTick_Handler is taken.           *)

TickExpires ==
  /\ ticks + 1 < Horizon
  /\ BootTick \/ base # Boot \/ boot \notin {"running", "control"}
  /\ sinceTick = MinSteps \/ (WfiBlocks /\ handler = "wfi" /\ ~pendST)
  /\ sinceTick' = 0
  /\ ticks' = (ticks + 1) % TimeMod
  /\ left' = [t \in Slot |-> IF left[t] > 0 THEN left[t] - 1 ELSE 0]
  /\ pendST' = TRUE
  /\ UNCHANGED <<sched, kernel, pendSV, cpu>>

SysTick_Handler_NoPend ==
  /\ TickTakable
  /\ pendST' = FALSE
  /\ system_time_ms' = (system_time_ms + 1) % TimeMod
  /\ CpuStep
  /\ UNCHANGED <<sched, kernel_running, shp, cpu, pendSV>>

SysTick_Handler_OnlyRunning ==
  /\ TickTakable
  /\ pendST' = FALSE
  /\ system_time_ms' = IF kernel_running THEN (system_time_ms + 1) % TimeMod
                                         ELSE system_time_ms
  /\ pendSV' = (pendSV \/ kernel_running)
  /\ CpuStep
  /\ UNCHANGED <<sched, kernel_running, shp, cpu>>

(* The handler cannot be preempted.  A tick ends a wfi that suspends, if   *)
(* it came after the wfi began; before that, the wfi has yet to begin.     *)
SysTick_Handler ==
  /\ TickTakable
  /\ pendST' = FALSE
  /\ system_time_ms' = (system_time_ms + 1) % TimeMod
  /\ pendSV' = (pendSV \/ kernel_running)
  /\ handler' \in IF handler = "wfi" /\ WfiBlocks THEN {"wfi", "woken"} ELSE {handler}
  /\ CpuStep
  /\ UNCHANGED <<sched, kernel_running, shp, base, boot, saved, resume, tpc, icsr>>

-------------------------------------------------------------------------------
(* PendSV_Handler *)

HandlerStep(from, to) ==
  /\ handler = from
  /\ handler' = to
  /\ CpuStep
  /\ UNCHANGED <<pendST, boot, tpc, icsr, kernel>>

PendSVEntry_KeepsPend ==
  /\ pendSV /\ ~TickTakable
  /\ HandlerStep("idle", "wfi")
  /\ UNCHANGED <<sched, base, saved, resume, pendSV>>

(* Exception entry to skip_save, with interrupts masked.  The context that *)
(* goes into current_thread's block is the one that was stacked on PSP; of *)
(* boot on MSP only registers are saved there, and PSP still is where the  *)
(* block's own thread was left.                                            *)
PendSVEntry ==
  /\ pendSV /\ ~TickTakable
  /\ HandlerStep("idle", "wfi")
  /\ pendSV' = FALSE
  /\ saved' = IF current_thread # NULL /\ OnPsp
              THEN [saved EXCEPT ![current_thread] = base] ELSE saved
  /\ UNCHANGED <<sched, base, resume>>

(* cpsie i; wfi -- executed before every call of scheduler_next().         *)
Wfi ==
  /\ ~WfiBlocks /\ ~TickTakable
  /\ HandlerStep("wfi", "woken")
  /\ UNCHANGED <<sched, pendSV, base, saved, resume>>

awake == Awake(thread_count, state, wake_time, system_time_ms)

(* cpsid i; bl scheduler_next; NULL sends the handler back to its wfi.     *)
SchedulerNull ==
  /\ HandlerStep("woken", "wfi")
  /\ Ready(thread_count, awake) = {}
  /\ UNCHANGED <<sched, pendSV, base, saved, resume>>

next == NextInTurn(thread_count, last_thd_idx, TopReady(thread_count, awake, priority))

Dispatch_KeepsCurrent ==
  /\ HandlerStep("woken", "return")
  /\ Ready(thread_count, awake) # {}
  /\ state' = awake
  /\ last_thd_idx' = next
  /\ current_thread' = IF current_thread = NULL THEN next ELSE current_thread
  /\ resume' = saved[next]
  /\ UNCHANGED <<thread_count, wake_time, priority, pendSV, base, saved>>

Dispatch_WakesNobody ==
  /\ HandlerStep("woken", "return")
  /\ Ready(thread_count, awake) # {}
  /\ last_thd_idx' = next
  /\ current_thread' = next
  /\ resume' = saved[next]
  /\ UNCHANGED <<thread_count, state, wake_time, priority, pendSV, base, saved>>

(* current_thread = next, and the context at next->sp is restored.         *)
Dispatch ==
  /\ HandlerStep("woken", "return")
  /\ Ready(thread_count, awake) # {}
  /\ state' = awake
  /\ last_thd_idx' = next
  /\ current_thread' = next
  /\ resume' = saved[next]
  /\ UNCHANGED <<thread_count, wake_time, priority, pendSV, base, saved>>

(* msr psp; cpsie i; EXC_RETURN to the stack the handler was entered from. *)
PendSVReturn ==
  /\ ~TickTakable
  /\ HandlerStep("return", "idle")
  /\ base' = IF OnPsp THEN resume ELSE Boot
  /\ UNCHANGED <<sched, pendSV, saved, resume>>

-------------------------------------------------------------------------------
(* Thread t *)

ThreadStep(t, from, to) ==
  /\ base = t /\ handler = "idle" /\ tpc[t] = from
  /\ tpc' = [tpc EXCEPT ![t] = to]
  /\ UNCHANGED <<thread_count, priority, last_thd_idx, current_thread, kernel,
                 base, boot, saved, resume, handler>>

Compute(t) ==
  /\ ThreadMode(t) /\ ThreadStep(t, "run", "run")
  /\ CpuStep
  /\ UNCHANGED <<state, wake_time, icsr, pendSV, pendST>>

(* thread_sleep_ms(ms) up to the store of wake_time; with current_thread   *)
(* NULL it would spin forever.  wake_time is only read of a sleeper, so    *)
(* reading the time and storing the sum is one step.                       *)
thread_sleep_ms(t, ms) ==
  /\ ThreadMode(t) /\ ThreadStep(t, "run", "sleep")
  /\ current_thread # NULL
  /\ wake_time' = [wake_time EXCEPT ![current_thread] = (system_time_ms + ms) % TimeMod]
  /\ left' = [left EXCEPT ![t] = IF ms = 0 THEN 0 ELSE ms + 1]
  /\ sinceTick' = IF sinceTick < MinSteps THEN sinceTick + 1 ELSE sinceTick
  /\ UNCHANGED <<state, icsr, pendSV, pendST, ticks>>

SetSleeping_NoYield(t) ==
  /\ ThreadMode(t) /\ ThreadStep(t, "sleep", "run")
  /\ state' = [state EXCEPT ![current_thread] = "SLEEPING"]
  /\ CpuStep
  /\ UNCHANGED <<wake_time, icsr, pendSV, pendST>>

SetSleeping(t) ==
  /\ ThreadMode(t) /\ ThreadStep(t, "sleep", "yield")
  /\ state' = [state EXCEPT ![current_thread] = "SLEEPING"]
  /\ CpuStep
  /\ UNCHANGED <<wake_time, icsr, pendSV, pendST>>

thread_yield(t) ==
  /\ t \in Yields
  /\ ThreadMode(t) /\ ThreadStep(t, "run", "yield")
  /\ CpuStep
  /\ UNCHANGED <<state, wake_time, icsr, pendSV, pendST>>

(* m1kern_target_pend_switch(): ICSR |= PENDSVSET, a load ...              *)
ReadIcsr(t) ==
  /\ ThreadMode(t) \/ (LateTick /\ ~pendSV)
  /\ ThreadStep(t, "yield", "pend")
  /\ icsr' = [icsr EXCEPT ![t] = pendST]
  /\ CpuStep
  /\ UNCHANGED <<state, wake_time, pendSV, pendST>>

(* ... and a store that writes PENDSTSET back as it was read.              *)
WriteIcsr(t) ==
  /\ ThreadMode(t) /\ ThreadStep(t, "pend", "run")
  /\ pendSV' = TRUE
  /\ pendST' = icsr[t]
  /\ icsr' = [icsr EXCEPT ![t] = FALSE]
  /\ CpuStep
  /\ UNCHANGED <<state, wake_time>>

-------------------------------------------------------------------------------
BootNext ==
  \/ kernel_init
  \/ \E p \in UNION {PrioOf[t] : t \in Slot} : thread_create(p)
  \/ StartWithoutThreads \/ SetExcPrio \/ SetRunning \/ ClearCurrent
  \/ SetControl \/ SVC \/ BootSpin

PendSVNext == PendSVEntry \/ Wfi \/ SchedulerNull \/ Dispatch \/ PendSVReturn

ThreadNext(t) ==
  \/ Compute(t) \/ thread_yield(t)
  \/ \E ms \in Delays[t] : thread_sleep_ms(t, ms)
  \/ SetSleeping(t) \/ ReadIcsr(t) \/ WriteIcsr(t)

CpuNext ==
  BootNext \/ SysTick_Handler \/ PendSVNext \/ \E t \in Slot : ThreadNext(t)

Next == CpuNext \/ TickExpires

Spec == Init /\ [][Next]_vars

(* The core never stops executing and the tick counter never stops.        *)
FairSpec == Spec /\ WF_vars(CpuNext) /\ WF_vars(TickExpires)

-------------------------------------------------------------------------------
TypeOK ==
  /\ thread_count \in 0 .. MaxThreads
  /\ state \in [Slot -> {"READY", "SLEEPING"}]
  /\ wake_time \in [Slot -> 0 .. TimeMod - 1]
  /\ priority \in [Slot -> 0 .. 255]
  /\ last_thd_idx \in Slot
  /\ current_thread \in Slot \cup {NULL}
  /\ kernel_running \in BOOLEAN
  /\ system_time_ms \in 0 .. TimeMod - 1
  /\ shp \in [PendSV : 0 .. 3, SysTick : 0 .. 3]
  /\ pendSV \in BOOLEAN /\ pendST \in BOOLEAN
  /\ base \in Slot \cup {Boot}
  /\ boot \in {"init", "create", "prio", "running", "control", "svc", "spin", "returned"}
  /\ saved \in [Slot -> Slot \cup {Boot}]
  /\ resume \in Slot \cup {Boot}
  /\ tpc \in [Slot -> {"run", "sleep", "yield", "pend"}]
  /\ icsr \in [Slot -> BOOLEAN]
  /\ handler \in {"idle", "wfi", "woken", "return"}
  /\ sinceTick \in 0 .. MinSteps
  /\ ticks \in 0 .. TimeMod - 1
  /\ left \in [Slot -> Nat]

(* The thread the core executes is the one current_thread names, so the    *)
(* next PendSV saves into, and thread_sleep_ms marks, the right block.     *)
RunningIsCurrent ==
  \A t \in Slot : base = t /\ handler # "return" => current_thread = t

(* A block resumes the thread it was created for (kernel.c on init_stack:   *)
(* "looks to the CPU exactly like a thread that was interrupted").  Were   *)
(* another context saved in it, the thread would be lost.                  *)
BlocksResumeTheirThread == \A t \in Slot : saved[t] = t

(* m1kern.h: "higher value wins, always".  While a thread executes, every  *)
(* thread of higher priority is asleep and its wake_time is still to come. *)
StrictPriority ==
  \A t \in Slot : ThreadMode(t) =>
    \A u \in Created(thread_count) : priority[u] > priority[t] =>
      state[u] = "SLEEPING" /\ system_time_ms < wake_time[u]

(* A thread marked THREAD_SLEEPING executes nothing but the rest of the    *)
(* kernel call that leads to its switch.                                   *)
SleepersDontRun ==
  \A t \in Slot : ThreadMode(t) /\ state[t] = "SLEEPING" => tpc[t] \in {"yield", "pend"}

(* A sleeper whose wake_time has come is never forgotten: a PendSV that    *)
(* will call scheduler_next() is pending, under way, or about to be pended *)
(* by the sleeper itself -- whatever preempted thread_sleep_ms midway.     *)
NoMissedWake ==
  \A t \in Expired(thread_count, state, wake_time, system_time_ms) :
    \/ pendSV
    \/ handler \in {"wfi", "woken"}
    \/ base = t /\ tpc[t] \in {"yield", "pend"}

(* A thread is back from thread_sleep_ms(ms) -- "at least ms milliseconds" *)
(* (m1kern.h) -- only after ms ticks, the first of which may come at once. *)
SleepAtLeastTicks ==
  \A t \in Slot : ThreadMode(t) /\ tpc[t] = "run" => left[t] <= 1

(* Every expiry of SysTick is counted once in system_time_ms.              *)
TickAccounting ==
  ticks = (system_time_ms + IF pendST THEN 1 ELSE 0) % TimeMod

(* A tick may be counted twice, if a thread stores PENDSTSET back that was *)
(* taken since it read it, but none is lost: system_time_ms never falls    *)
(* behind the timer (while it does not wrap).                              *)
NoTickLost == ticks <= system_time_ms + IF pendST THEN 1 ELSE 0

-------------------------------------------------------------------------------
(* The inductive invariant behind StrictPriority, NoMissedWake,            *)
(* RunningIsCurrent and SleepersDontRun, in six parts.                     *)

(* Before kernel_running is set there are no switches, no threads running  *)
(* and no sleepers; threads run only once the boot context is on PSP.      *)
BootInv ==
  /\ kernel_running <=> boot \in {"running", "control", "svc", "spin"}
  /\ ~kernel_running => /\ ~pendSV /\ handler = "idle"
                        /\ \A t \in Slot : state[t] = "READY"
  /\ base \in Slot => boot \in {"svc", "spin"}
  /\ last_thd_idx = 0 \/ (boot # "init" /\ last_thd_idx < thread_count)

(* What PendSV_Handler restores is a created, ready thread; what it will   *)
(* save is the one that was running.                                       *)
CurrentInv ==
  /\ handler = "return" =>
       current_thread \in Created(thread_count) /\ state[current_thread] = "READY"
  /\ base \in Slot => current_thread \in Created(thread_count)
  /\ base \in Slot /\ handler # "return" => current_thread = base

(* A block holds its own thread, or the boot context saved in its place.   *)
SavedInv ==
  /\ \A t \in Slot : saved[t] = t \/ saved[t] = Boot
  /\ handler = "return" => resume = current_thread \/ resume = Boot

(* Nobody is made ready, or more urgent, between two calls of the          *)
(* scheduler.                                                              *)
PickInv ==
  base \in Slot \/ handler = "return" =>
    \A u \in Ready(thread_count, state) : priority[u] <= priority[current_thread]

WakeInv ==
  \A t \in Expired(thread_count, state, wake_time, system_time_ms) :
    \/ pendSV
    \/ handler \in {"wfi", "woken"}
    \/ handler = "idle" /\ base = t /\ tpc[t] \in {"yield", "pend"}

SleepInv ==
  \A t \in Slot : base = t /\ handler = "idle" /\ ~pendSV /\ state[t] = "SLEEPING"
                  => tpc[t] \in {"yield", "pend"}

IInv == TypeOK /\ BootInv /\ CurrentInv /\ SavedInv /\ PickInv /\ WakeInv /\ SleepInv

(* Without a tick in kernel_start the boot context is never switched out   *)
(* with a thread's block to be saved in.                                   *)
QuietBootInv ==
  /\ BlocksResumeTheirThread
  /\ handler = "return" => resume = current_thread
  /\ base = Boot /\ handler # "return" => current_thread = NULL
  /\ boot \in {"running", "control"} => base = Boot /\ handler = "idle" /\ ~pendSV /\ ~pendST

(* A pending tick is taken at most one instruction late, after the masked  *)
(* call of the scheduler, and so before the next one expires.              *)
TickInv ==
  /\ TickAccounting
  /\ \A t \in Slot : ~icsr[t]
  /\ boot \in {"init", "create", "returned"} \/ shp.SysTick < shp.PendSV
  /\ pendST => sinceTick <= 1 /\ (sinceTick = 1 => handler # "woken")

(* system_time_ms is never ahead of the ticks, so a sleeper still has to   *)
(* wait for at least as many of them as its wake_time is away.             *)
Pending == IF pendST THEN 1 ELSE 0
LeftInv ==
  /\ \A t \in Slot : ~icsr[t]
  /\ ticks < Horizon /\ system_time_ms + Pending <= ticks
  /\ \A t \in Slot :
       \/ left[t] <= 1
       \/ /\ kernel_running
          /\ state[t] = "SLEEPING" \/ tpc[t] = "sleep"
          /\ left[t] + system_time_ms + Pending <= wake_time[t] + 1

-------------------------------------------------------------------------------
(* Highest and ready for good, seen at the highest priority main created.  *)
AtTop(t) ==
  /\ boot = "spin" /\ t \in TopReady(thread_count, state, priority)
  /\ \A u \in Created(thread_count) : priority[u] <= priority[t]

(* A sleeper is made ready in the end.                                     *)
SleepersWake == \A t \in Slot : state[t] = "SLEEPING" ~> state[t] = "READY"

(* Round robin: a thread that stays ready at the top is dispatched again   *)
(* and again, whatever its equals do.                                      *)
TopDispatched ==
  \A t \in Slot : <>[]AtTop(t) => []<>(handler = "return" /\ current_thread = t)

(* Of a thread alone at the top: "it will ALWAYS run first" (m1kern.h).    *)
AloneRuns ==
  \A t \in Slot :
    <>[](AtTop(t) /\ TopReady(thread_count, state, priority) = {t}) => []<>ThreadMode(t)

(* README: "round robin among equals".  A thread that stays ready is given *)
(* the core again and again if one of its equals is.                       *)
EqualsShareCPU ==
  \A t, u \in Slot :
    <>[](/\ boot = "spin"
         /\ {t, u} \subseteq Ready(thread_count, state)
         /\ priority[t] = priority[u])
    => ([]<>ThreadMode(t) => []<>ThreadMode(u))

(* 05_preemption of its spinning threads: "the three counters should stay  *)
(* within a few percent of each other".  Once no thread sleeps or yields,  *)
(* preemption alone gives the core to each of two equals if to one.        *)
SpinnersShareCPU ==
  \A t, u \in Slot : t # u =>
    (<>[](/\ boot = "spin" /\ {t, u} \subseteq Created(thread_count)
          /\ priority[t] = priority[u]
          /\ \A v \in Slot : state[v] = "READY" /\ tpc[v] = "run")
     => ([]<>ThreadMode(t) => []<>ThreadMode(u)))
===============================================================================
