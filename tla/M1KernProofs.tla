----------------------------- MODULE M1KernProofs -----------------------------
(***************************************************************************)
(* IInv is inductive for every number of threads, priorities, delays, tick *)
(* timing, either meaning of wfi and either reading of ICSR; and M1Kern    *)
(* implements IdealKernel.                                                 *)
(***************************************************************************)
EXTENDS KernelRefinement, SchedulerProofs

LEMMA ModRange ==
  ASSUME NEW a \in Int, NEW b \in Nat \ {0}
  PROVE  a % b \in 0 .. b - 1
OBVIOUS

LEMMA StepCountType == TypeOK /\ CpuStep => sinceTick' \in 0 .. MinSteps
BY TimeAssumption DEF TypeOK, CpuStep

LEMMA CreatedIsSlot == TypeOK => Created(thread_count) \subseteq Slot
BY ThreadsAssumption DEF TypeOK, Created, Slot

(* The dispatched thread is a created one, ready once the expired sleepers *)
(* have been woken, and no ready thread is more urgent.                    *)
LEMMA DispatchPicks ==
  ASSUME TypeOK, BootInv, Dispatch
  PROVE  /\ current_thread' \in Created(thread_count)
         /\ current_thread' \in Slot
         /\ last_thd_idx' = current_thread'
         /\ state'[current_thread'] = "READY"
         /\ \A u \in Ready(thread_count, state') :
              priority[u] <= priority[current_thread']
         /\ state' \in [Slot -> {"READY", "SLEEPING"}]
<1> DEFINE top == TopReady(thread_count, awake, priority)
<1>1. /\ thread_count \in Nat /\ last_thd_idx \in Nat
      /\ last_thd_idx = 0 \/ last_thd_idx < thread_count
      /\ Created(thread_count) \subseteq Slot
  BY ThreadsAssumption DEF TypeOK, BootInv, Created, Slot
<1>2. \A i \in Created(thread_count) : priority[i] \in 0 .. 255
  BY <1>1 DEF TypeOK
<1>3. Ready(thread_count, awake) # {}
  BY DEF Dispatch
<1>4. top # {}
  <2>1. thread_count \in Nat /\ 255 \in Nat
    BY <1>1
  <2>2. QED
    BY <1>2, <1>3, <2>1, TopReadyExists, Zenon
<1>5. top \in SUBSET Created(thread_count)
  BY DEF TopReady, Ready
<1>6. last_thd_idx' \in top
  <2>1. last_thd_idx' = NextInTurn(thread_count, last_thd_idx, top)
    BY DEF Dispatch, next
  <2>2. QED
    BY <1>1, <1>4, <1>5, <2>1, NextInTurnIsFirst
<1>7. current_thread' = last_thd_idx' /\ state' = awake
  BY DEF Dispatch
<1>8. state' \in [Slot -> {"READY", "SLEEPING"}]
  BY <1>7 DEF TypeOK, awake, Awake
<1>9. QED
  BY <1>1, <1>5, <1>6, <1>7, <1>8 DEF TopReady, Ready

-------------------------------------------------------------------------------
LEMMA InitIInv == Init => IInv
<1>1. 0 \in Slot /\ 0 \in 0 .. TimeMod - 1 /\ 0 \in 0 .. MinSteps /\ 0 \in 0 .. MaxThreads
  BY ThreadsAssumption, TimeAssumption DEF Slot
<1>2. Init => TypeOK
  <2> SUFFICES ASSUME Init PROVE TypeOK
    OBVIOUS
  <2>1. /\ state \in [Slot -> {"READY", "SLEEPING"}]
        /\ wake_time \in [Slot -> 0 .. TimeMod - 1]
        /\ priority \in [Slot -> 0 .. 255]
        /\ saved \in [Slot -> Slot \cup {Boot}]
        /\ tpc \in [Slot -> {"run", "sleep", "yield", "pend"}]
        /\ icsr \in [Slot -> BOOLEAN]
        /\ left \in [Slot -> Nat]
    BY <1>1 DEF Init
  <2>2. shp \in [PendSV : 0 .. 3, SysTick : 0 .. 3]
    BY DEF Init
  <2>3. QED
    BY <1>1, <2>1, <2>2 DEF Init, TypeOK
<1>3. Init => BootInv /\ CurrentInv /\ SavedInv /\ PickInv /\ SleepInv
  BY ContextAssumption DEF Init, BootInv, CurrentInv, SavedInv, PickInv, SleepInv
<1>4. Init => WakeInv
  BY DEF Init, WakeInv, Expired, Created
<1>5. QED
  BY <1>2, <1>3, <1>4 DEF IInv

LEMMA TypeStep == TypeOK /\ BootInv /\ CurrentInv /\ [Next]_vars => TypeOK'
<1> SUFFICES ASSUME TypeOK, BootInv, CurrentInv, [Next]_vars PROVE TypeOK'
  OBVIOUS
<1> USE TimeAssumption DEF TypeOK
<1>1. CASE kernel_init
  BY <1>1, ThreadsAssumption DEF kernel_init, BootStep, CpuStep, kernel
<1>2. ASSUME NEW p \in UNION {PrioOf[t] : t \in Slot}, thread_create(p) PROVE TypeOK'
  <2>1. p \in 0 .. 255
    BY PrioAssumption
  <2>2. 0 \in 0 .. TimeMod - 1 /\ thread_count + 1 \in 0 .. MaxThreads
    BY <1>2, ThreadsAssumption DEF thread_create
  <2>3. /\ wake_time' \in [Slot -> 0 .. TimeMod - 1]
        /\ state' \in [Slot -> {"READY", "SLEEPING"}]
        /\ priority' \in [Slot -> 0 .. 255]
    BY <1>2, <2>1, <2>2 DEF thread_create
  <2>4. QED
    BY <1>2, <2>2, <2>3 DEF thread_create, BootStep, CpuStep, kernel
<1>3. CASE StartWithoutThreads
  BY <1>3 DEF StartWithoutThreads, BootStep, CpuStep, kernel, sched
<1>4. CASE SetExcPrio
  BY <1>4 DEF SetExcPrio, BootStep, CpuStep, sched
<1>5. CASE SetRunning
  BY <1>5 DEF SetRunning, BootStep, CpuStep, sched
<1>6. CASE ClearCurrent
  BY <1>6 DEF ClearCurrent, BootStep, CpuStep, kernel
<1>7. CASE SetControl
  BY <1>7 DEF SetControl, BootStep, CpuStep, kernel, sched
<1>8. CASE SVC
  BY <1>8 DEF SVC, BootStep, CpuStep, kernel, sched
<1>9. CASE BootSpin
  BY <1>9 DEF BootSpin, BootStep, CpuStep, kernel, sched
<1>10. CASE SysTick_Handler
  <2>1. (system_time_ms + 1) % TimeMod \in 0 .. TimeMod - 1
    BY ModRange, TimeAssumption DEF TypeOK
  <2>2. /\ handler' \in {"idle", "wfi", "woken", "return"}
        /\ pendSV' \in BOOLEAN /\ pendST' \in BOOLEAN
        /\ system_time_ms' \in 0 .. TimeMod - 1
        /\ sinceTick' \in 0 .. MinSteps
    BY <1>10, <2>1, StepCountType DEF SysTick_Handler
  <2>3. UNCHANGED <<sched, kernel_running, shp, base, boot, saved, resume, tpc, icsr, ticks, left>>
    BY <1>10 DEF SysTick_Handler, CpuStep
  <2>4. QED
    BY <2>2, <2>3 DEF sched
<1>11. CASE PendSVEntry
  <2>1. /\ handler' \in {"idle", "wfi", "woken", "return"}
        /\ pendSV' \in BOOLEAN
        /\ sinceTick' \in 0 .. MinSteps
    BY <1>11, StepCountType DEF PendSVEntry, HandlerStep
  <2>3. saved' \in [Slot -> Slot \cup {Boot}]
    BY <1>11 DEF PendSVEntry
  <2>2. UNCHANGED <<sched, kernel, pendST, base, boot, resume, tpc, icsr, ticks, left>>
    BY <1>11 DEF PendSVEntry, HandlerStep, CpuStep
  <2>4. QED
    BY <2>1, <2>2, <2>3 DEF sched, kernel
<1>12. CASE Wfi
  BY <1>12 DEF Wfi, HandlerStep, CpuStep, kernel, sched
<1>13. CASE SchedulerNull
  BY <1>13 DEF SchedulerNull, HandlerStep, CpuStep, kernel, sched
<1>14. CASE Dispatch
  <2>1. current_thread' \in Slot /\ last_thd_idx' \in Slot
        /\ state' \in [Slot -> {"READY", "SLEEPING"}]
    BY <1>14, DispatchPicks
  <2>2. QED
    BY <1>14, <2>1 DEF Dispatch, HandlerStep, CpuStep, kernel
<1>15. CASE PendSVReturn
  <2>1. base' \in Slot \cup {Boot}
    BY <1>15, CreatedIsSlot DEF PendSVReturn, HandlerStep, CurrentInv
  <2>2. QED
    BY <1>15, <2>1 DEF PendSVReturn, HandlerStep, CpuStep, kernel, sched
<1>16. ASSUME NEW t \in Slot, ThreadNext(t) PROVE TypeOK'
  <2>1. CASE Compute(t)
    BY <2>1 DEF Compute, ThreadStep, CpuStep, kernel
  <2>2. CASE thread_yield(t)
    BY <2>2 DEF thread_yield, ThreadStep, CpuStep, kernel
  <2>3. ASSUME NEW ms \in Delays[t], thread_sleep_ms(t, ms) PROVE TypeOK'
    <3>1. ms \in Nat
      BY DelaysAssumption
    <3>2. (system_time_ms + ms) % TimeMod \in 0 .. TimeMod - 1
      BY <3>1, ModRange
    <3>3. QED
      BY <2>3, <3>1, <3>2 DEF thread_sleep_ms, ThreadStep, kernel
  <2>4. CASE SetSleeping(t)
    <3>1. /\ state' \in [Slot -> {"READY", "SLEEPING"}]
          /\ tpc' \in [Slot -> {"run", "sleep", "yield", "pend"}]
      BY <2>4 DEF SetSleeping, ThreadStep
    <3>2. QED
      BY <2>4, <3>1 DEF SetSleeping, ThreadStep, CpuStep, kernel
  <2>5. CASE ReadIcsr(t)
    BY <2>5 DEF ReadIcsr, ThreadStep, CpuStep, kernel
  <2>6. CASE WriteIcsr(t)
    BY <2>6 DEF WriteIcsr, ThreadStep, CpuStep, kernel
  <2>7. QED
    BY <1>16, <2>1, <2>2, <2>3, <2>4, <2>5, <2>6 DEF ThreadNext
<1>17. CASE TickExpires
  <2>1. (ticks + 1) % TimeMod \in 0 .. TimeMod - 1
    BY ModRange, TimeAssumption DEF TypeOK
  <2>2. QED
    BY <1>17, <2>1 DEF TickExpires, kernel, sched, cpu
<1>18. CASE UNCHANGED vars
  BY <1>18 DEF vars, sched, kernel, cpu
<1>19. QED
  BY <1>1, <1>2, <1>3, <1>4, <1>5, <1>6, <1>7, <1>8, <1>9, <1>10, <1>11, <1>12,
     <1>13, <1>14, <1>15, <1>16, <1>17, <1>18
     DEF Next, CpuNext, BootNext, PendSVNext

-------------------------------------------------------------------------------
(* The other parts, for the actions that can disturb them.                 *)

LEMMA SavedStep == IInv /\ [Next]_vars => SavedInv'
<1> SUFFICES ASSUME IInv, [Next]_vars PROVE SavedInv'
  OBVIOUS
<1> USE DEF IInv
<1>1. CASE PendSVEntry
  <2>1. handler = "idle" /\ handler' = "wfi"
    BY <1>1 DEF PendSVEntry, HandlerStep
  <2>2. base = Boot \/ base = current_thread
    BY <2>1 DEF CurrentInv, TypeOK
  <2>3. \A t \in Slot : saved'[t] = t \/ saved'[t] = Boot
    BY <1>1, <2>2 DEF PendSVEntry, SavedInv, TypeOK
  <2>4. QED
    BY <2>1, <2>3 DEF SavedInv
<1>2. CASE Dispatch
  <2>1. next \in Slot
    <3>1. current_thread' \in Slot
      BY <1>2, DispatchPicks
    <3>2. QED
      BY <1>2, <3>1 DEF Dispatch
  <2>2. saved[next] = next \/ saved[next] = Boot
    BY <2>1 DEF SavedInv
  <2>3. saved' = saved /\ resume' = saved[next] /\ current_thread' = next
    BY <1>2 DEF Dispatch
  <2>4. QED
    BY <2>2, <2>3 DEF SavedInv
<1>3. CASE /\ saved' = saved
           /\ handler' = "return" => /\ handler = "return"
                                     /\ resume' = resume /\ current_thread' = current_thread
  BY <1>3 DEF SavedInv
<1>4. PendSVEntry \/ Dispatch
      \/ /\ saved' = saved
         /\ handler' = "return" => /\ handler = "return"
                                   /\ resume' = resume /\ current_thread' = current_thread
  <2>1. ASSUME BootNext PROVE saved' = saved /\ handler' # "return"
    BY <2>1 DEF BootNext, kernel_init, thread_create, StartWithoutThreads, SetExcPrio,
                SetRunning, ClearCurrent, SetControl, SVC, BootSpin, BootStep, ThreadMode
  <2>2. ASSUME SysTick_Handler \/ TickExpires \/ UNCHANGED vars
        PROVE  /\ saved' = saved /\ resume' = resume /\ current_thread' = current_thread
               /\ handler' = "return" => handler = "return"
    BY <2>2 DEF SysTick_Handler, TickExpires, vars, cpu, sched
  <2>3. ASSUME Wfi \/ SchedulerNull \/ PendSVReturn PROVE saved' = saved /\ handler' # "return"
    BY <2>3 DEF Wfi, SchedulerNull, PendSVReturn, HandlerStep
  <2>4. ASSUME NEW t \in Slot, ThreadNext(t) PROVE saved' = saved /\ handler' # "return"
    BY <2>4 DEF ThreadNext, Compute, thread_yield, thread_sleep_ms, SetSleeping, ReadIcsr,
                WriteIcsr, ThreadStep
  <2>5. QED
    BY <2>1, <2>2, <2>3, <2>4 DEF Next, CpuNext, PendSVNext
<1>5. QED
  BY <1>1, <1>2, <1>3, <1>4

LEMMA BootStepInv ==
  IInv /\ BootNext => BootInv' /\ CurrentInv' /\ PickInv' /\ WakeInv' /\ SleepInv'
<1> SUFFICES ASSUME IInv, BootNext
             PROVE  BootInv' /\ CurrentInv' /\ PickInv' /\ WakeInv' /\ SleepInv'
  OBVIOUS
<1> USE DEF IInv
<1>1. base = Boot /\ base' = Boot /\ base' \notin Slot /\ handler = "idle" /\ handler' = "idle"
      /\ ~pendSV
  BY ContextAssumption
     DEF BootNext, kernel_init, thread_create, StartWithoutThreads, SetExcPrio, SetRunning,
         ClearCurrent, SetControl, SVC, BootSpin, BootStep, ThreadMode
<1>2. CurrentInv' /\ PickInv' /\ SleepInv'
  <2>1. \A t \in Slot : base' # t
    BY <1>1
  <2>2. QED
    BY <1>1, <2>1 DEF CurrentInv, PickInv, SleepInv
<1>3. Expired(thread_count, state, wake_time, system_time_ms) = {}
  BY <1>1, ContextAssumption, CreatedIsSlot DEF WakeInv, Expired
<1>4. CASE kernel_init
  <2>1. BootInv'
    BY <1>1, <1>4 DEF kernel_init, BootStep, BootInv, kernel
  <2>2. WakeInv'
    BY <1>4 DEF kernel_init, WakeInv, Expired, Created
  <2>3. QED
    BY <1>2, <2>1, <2>2
<1>5. ASSUME NEW p, thread_create(p) PROVE BootInv' /\ WakeInv'
  <2>1. \A t \in Slot : state'[t] = "READY"
    BY <1>5 DEF thread_create, BootStep, BootInv, TypeOK
  <2>2. BootInv'
    <3>1. thread_count \in Int /\ last_thd_idx \in Int
      BY ThreadsAssumption DEF TypeOK, Slot
    <3>2. last_thd_idx' = 0 \/ (boot' # "init" /\ last_thd_idx' < thread_count')
      BY <1>5, <3>1 DEF thread_create, BootStep, BootInv
    <3>3. QED
      BY <1>1, <1>5, <2>1, <3>2 DEF thread_create, BootStep, BootInv, kernel
  <2>3. Created(thread_count') \subseteq Slot
    BY <1>5, ThreadsAssumption DEF thread_create, TypeOK, Created, Slot
  <2>4. WakeInv'
    BY <2>1, <2>3 DEF WakeInv, Expired
  <2>5. QED
    BY <2>2, <2>4
<1>6. ASSUME StartWithoutThreads \/ SetExcPrio \/ SetRunning \/ ClearCurrent \/ SetControl
             \/ SVC \/ BootSpin
      PROVE  BootInv' /\ WakeInv'
  <2>1. UNCHANGED <<thread_count, state, wake_time, system_time_ms, last_thd_idx>>
    BY <1>6 DEF StartWithoutThreads, SetExcPrio, SetRunning, ClearCurrent, SetControl, SVC,
                BootSpin, sched, kernel
  <2>2. WakeInv'
    BY <1>3, <2>1 DEF WakeInv
  <2>3. BootInv'
    <3>1. CASE StartWithoutThreads
      BY <1>1, <2>1, <3>1 DEF StartWithoutThreads, BootStep, BootInv, kernel
    <3>2. CASE SetExcPrio
      BY <1>1, <2>1, <3>2 DEF SetExcPrio, BootStep, BootInv
    <3>3. CASE SetRunning
      BY <1>1, <2>1, <3>3 DEF SetRunning, BootStep, BootInv
    <3>4. CASE ClearCurrent
      BY <1>1, <2>1, <3>4 DEF ClearCurrent, BootStep, BootInv, kernel
    <3>5. CASE SetControl
      BY <1>1, <2>1, <3>5 DEF SetControl, BootStep, BootInv, kernel
    <3>6. CASE SVC
      BY <1>1, <2>1, <3>6 DEF SVC, BootStep, BootInv, kernel
    <3>7. CASE BootSpin
      BY <1>1, <2>1, <3>7 DEF BootSpin, BootStep, BootInv, kernel
    <3>8. QED
      BY <1>6, <3>1, <3>2, <3>3, <3>4, <3>5, <3>6, <3>7
  <2>4. QED
    BY <2>2, <2>3
<1>7. QED
  BY <1>2, <1>4, <1>5, <1>6 DEF BootNext

LEMMA TickStepInv ==
  IInv /\ (SysTick_Handler \/ TickExpires)
  => BootInv' /\ CurrentInv' /\ PickInv' /\ WakeInv' /\ SleepInv'
<1> SUFFICES ASSUME IInv, SysTick_Handler \/ TickExpires
             PROVE  BootInv' /\ CurrentInv' /\ PickInv' /\ WakeInv' /\ SleepInv'
  OBVIOUS
<1> USE DEF IInv
<1>1. UNCHANGED <<sched, kernel_running, base, boot, tpc>>
  BY DEF SysTick_Handler, TickExpires, kernel, cpu
<1>2. CASE TickExpires
  <2>1. UNCHANGED <<handler, pendSV, system_time_ms>>
    BY <1>2 DEF TickExpires, kernel, cpu
  <2>2. QED
    BY <1>1, <2>1 DEF BootInv, CurrentInv, PickInv, WakeInv, SleepInv, sched
<1>3. CASE SysTick_Handler
  <2>1. /\ pendSV' = (pendSV \/ kernel_running)
        /\ handler' = handler \/ (handler = "wfi" /\ handler' \in {"wfi", "woken"})
    BY <1>3 DEF SysTick_Handler
  <2>2. BootInv'
    BY <1>1, <2>1 DEF BootInv, TypeOK, sched
  <2>3. CurrentInv' /\ PickInv'
    BY <1>1, <2>1 DEF CurrentInv, PickInv, sched
  <2>4. WakeInv'
    <3>1. CASE kernel_running
      BY <2>1, <3>1, Zenon DEF WakeInv
    <3>2. CASE ~kernel_running
      <4>1. \A t \in Slot : state[t] = "READY"
        BY <3>2 DEF BootInv
      <4>2. QED
        BY <1>1, <4>1, CreatedIsSlot DEF WakeInv, Expired, sched
    <3>3. QED
      BY <3>1, <3>2
  <2>5. SleepInv'
    BY <1>1, <2>1 DEF SleepInv, TypeOK, sched
  <2>6. QED
    BY <2>2, <2>3, <2>4, <2>5
<1>4. QED
  BY <1>2, <1>3

LEMMA PendSVStepInv ==
  IInv /\ PendSVNext => BootInv' /\ CurrentInv' /\ PickInv' /\ WakeInv' /\ SleepInv'
<1> SUFFICES ASSUME IInv, PendSVNext
             PROVE  BootInv' /\ CurrentInv' /\ PickInv' /\ WakeInv' /\ SleepInv'
  OBVIOUS
<1> USE DEF IInv
<1>1. UNCHANGED <<boot, tpc, kernel_running, system_time_ms, shp>> /\ UNCHANGED pendST
  BY DEF PendSVNext, PendSVEntry, Wfi, SchedulerNull, Dispatch, PendSVReturn, HandlerStep, kernel
<1>2. kernel_running
  BY DEF BootInv, PendSVNext, PendSVEntry, Wfi, SchedulerNull, Dispatch, PendSVReturn, HandlerStep
<1>3. CASE PendSVEntry \/ Wfi \/ SchedulerNull
  <2>1. UNCHANGED <<sched, base>> /\ handler # "return" /\ handler' \in {"wfi", "woken"}
    BY <1>3 DEF PendSVEntry, Wfi, SchedulerNull, HandlerStep
  <2>2. QED
    BY <1>1, <1>2, <2>1 DEF BootInv, CurrentInv, PickInv, WakeInv, SleepInv, sched
<1>4. CASE Dispatch
  <2>1. /\ handler = "woken" /\ handler' = "return"
        /\ UNCHANGED <<thread_count, wake_time, priority, pendSV, base>>
        /\ state' = awake
    BY <1>4 DEF Dispatch, HandlerStep
  <2>2. /\ current_thread' \in Created(thread_count)
        /\ last_thd_idx' = current_thread'
        /\ state'[current_thread'] = "READY"
        /\ \A u \in Ready(thread_count, state') : priority[u] <= priority[current_thread']
    BY <1>4, DispatchPicks
  <2>3. BootInv'
    <3>1. boot # "init" /\ thread_count \in Int
      BY <1>2 DEF BootInv, TypeOK
    <3>2. last_thd_idx' < thread_count
      BY <2>2, <3>1 DEF Created
    <3>3. QED
      BY <1>1, <1>2, <2>1, <3>1, <3>2 DEF BootInv
  <2>4. CurrentInv' /\ PickInv' /\ SleepInv'
    BY <2>1, <2>2 DEF CurrentInv, PickInv, SleepInv
  <2>5. Expired(thread_count, state', wake_time, system_time_ms) = {}
    BY <2>1, CreatedIsSlot, AwakeHasNoneExpired DEF TypeOK, awake
  <2>6. WakeInv'
    BY <1>1, <2>1, <2>5 DEF WakeInv
  <2>7. QED
    BY <2>3, <2>4, <2>6
<1>5. CASE PendSVReturn
  <2>1. /\ handler = "return" /\ handler' = "idle" /\ UNCHANGED <<sched, pendSV>>
        /\ base' = IF OnPsp THEN resume ELSE Boot
    BY <1>5 DEF PendSVReturn, HandlerStep
  <2>2. current_thread \in Slot /\ state[current_thread] = "READY"
    BY <2>1, CreatedIsSlot DEF CurrentInv
  <2>3. base' = current_thread \/ base' = Boot
    BY <2>1, <2>2 DEF SavedInv
  <2>4. base' \in Slot => boot' \in {"svc", "spin"}
    BY <1>1, <2>1, ContextAssumption DEF OnPsp, BootInv, TypeOK
  <2>5. BootInv'
    BY <1>1, <1>2, <2>1, <2>4 DEF BootInv, sched
  <2>6. CurrentInv' /\ PickInv'
    BY <2>1, <2>3, ContextAssumption DEF CurrentInv, PickInv, sched
  <2>7. WakeInv'
    BY <1>1, <2>1 DEF WakeInv, sched
  <2>8. SleepInv'
    BY <2>1, <2>2, <2>3, ContextAssumption DEF SleepInv, sched
  <2>9. QED
    BY <2>5, <2>6, <2>7, <2>8
<1>6. QED
  BY <1>3, <1>4, <1>5 DEF PendSVNext

LEMMA ThreadStepInv ==
  ASSUME NEW t \in Slot
  PROVE  IInv /\ ThreadNext(t)
         => BootInv' /\ CurrentInv' /\ PickInv' /\ WakeInv' /\ SleepInv'
<1> SUFFICES ASSUME IInv, ThreadNext(t)
             PROVE  BootInv' /\ CurrentInv' /\ PickInv' /\ WakeInv' /\ SleepInv'
  OBVIOUS
<1> USE DEF IInv
<1>1. /\ base = t /\ handler = "idle"
      /\ UNCHANGED <<thread_count, priority, last_thd_idx, current_thread, kernel_running,
                     system_time_ms, base, boot, handler>>
  BY DEF ThreadNext, Compute, thread_yield, thread_sleep_ms, SetSleeping, ReadIcsr, WriteIcsr,
         ThreadStep, kernel
<1>2. current_thread = t /\ kernel_running
  BY <1>1 DEF CurrentInv, BootInv
<1>3. \A u \in Slot : base = u => u = t
  BY <1>1
<1>4. CASE Compute(t)
  <2>1. UNCHANGED <<state, wake_time, pendSV>> /\ UNCHANGED tpc
    BY <1>4 DEF Compute, ThreadStep, TypeOK
  <2>2. QED
    BY <1>1, <2>1 DEF BootInv, CurrentInv, PickInv, WakeInv, SleepInv
<1>5. CASE thread_yield(t)
  <2>1. UNCHANGED <<state, wake_time, pendSV>> /\ tpc' = [tpc EXCEPT ![t] = "yield"]
    BY <1>5 DEF thread_yield, ThreadStep
  <2>2. QED
    BY <1>1, <1>3, <2>1 DEF BootInv, CurrentInv, PickInv, WakeInv, SleepInv, TypeOK
<1>6. ASSUME NEW ms \in Delays[t], thread_sleep_ms(t, ms)
      PROVE  BootInv' /\ CurrentInv' /\ PickInv' /\ WakeInv' /\ SleepInv'
  <2>1. /\ UNCHANGED <<state, pendSV>> /\ tpc[t] = "run" /\ ~pendSV
        /\ tpc' = [tpc EXCEPT ![t] = "sleep"]
        /\ \A u \in Slot : u # t => wake_time'[u] = wake_time[u]
    BY <1>2, <1>6 DEF thread_sleep_ms, ThreadStep, ThreadMode, TypeOK
  <2>2. state[t] = "READY"
    BY <1>1, <2>1 DEF SleepInv, TypeOK
  <2>3. WakeInv'
    BY <1>1, <1>3, <2>1, <2>2, CreatedIsSlot DEF WakeInv, Expired
  <2>4. SleepInv'
    BY <1>1, <1>3, <2>1, <2>2 DEF SleepInv
  <2>5. QED
    BY <1>1, <2>1, <2>3, <2>4 DEF BootInv, CurrentInv, PickInv
<1>7. CASE SetSleeping(t)
  <2>1. /\ UNCHANGED <<wake_time, pendSV>>
        /\ tpc' = [tpc EXCEPT ![t] = "yield"]
        /\ state' = [state EXCEPT ![t] = "SLEEPING"]
    BY <1>2, <1>7 DEF SetSleeping, ThreadStep
  <2>2. tpc'[t] = "yield" /\ \A u \in Slot : u # t => state'[u] = state[u]
    BY <2>1 DEF TypeOK
  <2>3. WakeInv'
    BY <1>1, <1>3, <2>1, <2>2, CreatedIsSlot DEF WakeInv, Expired
  <2>4. SleepInv'
    BY <1>1, <1>3, <2>2 DEF SleepInv
  <2>5. PickInv'
    BY <1>1, <2>1, CreatedIsSlot DEF PickInv, Ready, TypeOK
  <2>6. BootInv' /\ CurrentInv'
    BY <1>1, <1>2 DEF BootInv, CurrentInv
  <2>7. QED
    BY <2>3, <2>4, <2>5, <2>6
<1>8. CASE ReadIcsr(t)
  <2>1. UNCHANGED <<state, wake_time, pendSV>> /\ tpc' = [tpc EXCEPT ![t] = "pend"]
    BY <1>8 DEF ReadIcsr, ThreadStep
  <2>2. tpc'[t] = "pend"
    BY <2>1 DEF TypeOK
  <2>3. WakeInv' /\ SleepInv'
    BY <1>1, <1>3, <2>1, <2>2 DEF WakeInv, SleepInv
  <2>4. QED
    BY <1>1, <2>1, <2>3 DEF BootInv, CurrentInv, PickInv
<1>9. CASE WriteIcsr(t)
  <2>1. UNCHANGED <<state, wake_time>> /\ pendSV'
    BY <1>9 DEF WriteIcsr, ThreadStep
  <2>2. QED
    BY <1>1, <1>2, <2>1 DEF BootInv, CurrentInv, PickInv, WakeInv, SleepInv
<1>10. QED
  BY <1>4, <1>5, <1>6, <1>7, <1>8, <1>9 DEF ThreadNext

-------------------------------------------------------------------------------
LEMMA NextIInv == IInv /\ [Next]_vars => IInv'
<1> SUFFICES ASSUME IInv, [Next]_vars PROVE IInv'
  OBVIOUS
<1>1. TypeOK'
  BY TypeStep DEF IInv
<1>2. BootInv' /\ CurrentInv' /\ PickInv' /\ WakeInv' /\ SleepInv'
  <2>1. CASE BootNext
    BY <2>1, BootStepInv
  <2>2. CASE SysTick_Handler \/ TickExpires
    BY <2>2, TickStepInv
  <2>3. CASE PendSVNext
    BY <2>3, PendSVStepInv
  <2>4. CASE \E t \in Slot : ThreadNext(t)
    BY <2>4, ThreadStepInv
  <2>5. CASE UNCHANGED vars
    BY <2>5 DEF IInv, vars, sched, kernel, cpu, BootInv, CurrentInv, PickInv, WakeInv, SleepInv
  <2>6. QED
    BY <2>1, <2>2, <2>3, <2>4, <2>5 DEF Next, CpuNext
<1>3. SavedInv'
  BY SavedStep
<1>4. QED
  BY <1>1, <1>2, <1>3 DEF IInv

(* The inductive invariant: boot order, what PendSV saves and restores,    *)
(* what the scheduler picked, and that no wake-up is pending unnoticed.    *)
THEOREM Inductive == Spec => []IInv
<1>1. Init => IInv
  BY InitIInv
<1>2. IInv /\ [Next]_vars => IInv'
  BY NextIInv
<1>3. QED
  BY <1>1, <1>2, PTL DEF Spec

(* Every variable keeps its type.                                          *)
THEOREM TypeCorrect == Spec => []TypeOK
<1>1. IInv => TypeOK
  BY DEF IInv
<1>2. QED
  BY <1>1, Inductive, PTL

(* PendSV saves into, and thread_sleep_ms marks, the block of the thread   *)
(* that really runs.                                                       *)
THEOREM CurrentIsRunning == Spec => []RunningIsCurrent
<1>1. IInv => RunningIsCurrent
  BY DEF IInv, CurrentInv, RunningIsCurrent
<1>2. QED
  BY <1>1, Inductive, PTL

(* No sleeper whose time has come is forgotten.                            *)
THEOREM WakeUpsArrive == Spec => []NoMissedWake
<1>1. IInv => NoMissedWake
  BY DEF IInv, WakeInv, NoMissedWake
<1>2. QED
  BY <1>1, Inductive, PTL

(* A sleeping thread executes only the rest of the call it sleeps in.      *)
THEOREM SleepersStop == Spec => []SleepersDontRun
<1>1. IInv => SleepersDontRun
  BY DEF IInv, SleepInv, SleepersDontRun, ThreadMode
<1>2. QED
  BY <1>1, Inductive, PTL

(* Strict priority: while a thread executes, every thread of higher        *)
(* priority is asleep and not yet due -- with any number of threads,       *)
(* whenever the ticks fall and wherever they interrupt a kernel call.      *)
THEOREM PriorityIsStrict == Spec => []StrictPriority
<1>1. IInv => StrictPriority
  <2> SUFFICES ASSUME IInv, NEW t \in Slot, ThreadMode(t),
                      NEW u \in Created(thread_count), priority[u] > priority[t]
               PROVE  state[u] = "SLEEPING" /\ system_time_ms < wake_time[u]
    BY DEF StrictPriority
  <2> USE DEF IInv
  <2>1. base = t /\ handler = "idle" /\ ~pendSV /\ current_thread = t
    BY DEF ThreadMode, CurrentInv
  <2>2. u \in Slot /\ priority[u] \in Int /\ priority[t] \in Int
    <3>1. u \in Slot
      BY CreatedIsSlot, Zenon DEF TypeOK
    <3>2. \A v \in Slot : priority[v] \in 0 .. 255
      BY DEF TypeOK
    <3>3. QED
      BY <3>1, <3>2
  <2>3. state[u] # "READY"
    BY <2>1, <2>2 DEF PickInv, Ready
  <2>4. state[u] = "SLEEPING"
    BY <2>2, <2>3 DEF TypeOK
  <2>5. u \notin Expired(thread_count, state, wake_time, system_time_ms)
    BY <2>1, <2>2 DEF WakeInv
  <2>6. system_time_ms \in Int /\ wake_time[u] \in Int
    BY <2>2, TimeAssumption DEF TypeOK
  <2>7. QED
    BY <2>4, <2>5, <2>6 DEF Expired
<1>2. QED
  BY <1>1, Inductive, PTL

-------------------------------------------------------------------------------
(* The blocks, when no tick falls into kernel_start.                       *)

LEMMA QuietBootStep ==
  ASSUME ~BootTick
  PROVE  IInv /\ QuietBootInv /\ [Next]_vars => QuietBootInv'
<1> SUFFICES ASSUME IInv, QuietBootInv, [Next]_vars PROVE QuietBootInv'
  OBVIOUS
<1> USE DEF QuietBootInv, BlocksResumeTheirThread
<1>1. CASE BootNext
  <2>1. base = Boot /\ handler = "idle" /\ ~pendSV /\ ~pendST
    BY <1>1 DEF BootNext, kernel_init, thread_create, StartWithoutThreads, SetExcPrio, SetRunning,
                ClearCurrent, SetControl, SVC, BootSpin, BootStep, ThreadMode
  <2>2. /\ UNCHANGED <<base, handler, pendST, saved>>
        /\ current_thread' = current_thread \/ current_thread' = NULL
        /\ boot' = "spin" \/ pendSV' = pendSV
    BY <1>1 DEF BootNext, kernel_init, thread_create, StartWithoutThreads, SetExcPrio, SetRunning,
                ClearCurrent, SetControl, SVC, BootSpin, BootStep, sched
  <2>3. QED
    BY <2>1, <2>2
<1>2. CASE SysTick_Handler
  BY <1>2 DEF SysTick_Handler, TickTakable, sched
<1>3. CASE TickExpires
  <2>1. boot \notin {"running", "control"}
    BY <1>3 DEF TickExpires
  <2>2. QED
    BY <1>3, <2>1 DEF TickExpires, sched, cpu
<1>4. CASE PendSVNext
  <2>1. handler # "idle" \/ pendSV
    BY <1>4 DEF PendSVNext, PendSVEntry, Wfi, SchedulerNull, Dispatch, PendSVReturn, HandlerStep
  <2>2. boot \notin {"running", "control"} /\ boot' = boot
    BY <1>4, <2>1 DEF PendSVNext, PendSVEntry, Wfi, SchedulerNull, Dispatch, PendSVReturn, HandlerStep
  <2>3. OnPsp
    BY <2>1 DEF IInv, BootInv, OnPsp
  <2>4. CASE PendSVEntry
    <3>1. handler = "idle" /\ handler' = "wfi" /\ UNCHANGED <<base, current_thread>>
      BY <2>4 DEF PendSVEntry, HandlerStep, sched
    <3>2. current_thread = NULL \/ current_thread = base
      BY <3>1 DEF IInv, CurrentInv, TypeOK
    <3>3. saved' = saved
      BY <2>4, <3>2 DEF PendSVEntry, IInv, TypeOK
    <3>4. QED
      BY <2>2, <3>1, <3>3
  <2>5. CASE Wfi \/ SchedulerNull
    BY <2>2, <2>5 DEF Wfi, SchedulerNull, HandlerStep, sched
  <2>6. CASE Dispatch
    <3>1. current_thread' \in Slot
      BY <2>6, DispatchPicks DEF IInv
    <3>2. QED
      BY <2>2, <2>6, <3>1 DEF Dispatch, HandlerStep
  <2>7. CASE PendSVReturn
    <3>1. handler = "return" /\ handler' = "idle" /\ base' = resume
      BY <2>3, <2>7 DEF PendSVReturn, HandlerStep
    <3>2. base' \in Slot
      BY <3>1, CreatedIsSlot DEF IInv, CurrentInv
    <3>3. QED
      BY <2>2, <2>7, <3>1, <3>2, ContextAssumption DEF PendSVReturn
  <2>8. QED
    BY <1>4, <2>4, <2>5, <2>6, <2>7 DEF PendSVNext
<1>5. ASSUME NEW t \in Slot, ThreadNext(t) PROVE QuietBootInv'
  <2>1. base = t /\ handler = "idle"
    BY <1>5 DEF ThreadNext, Compute, thread_yield, thread_sleep_ms, SetSleeping, ReadIcsr,
                WriteIcsr, ThreadStep
  <2>2. UNCHANGED <<base, handler, saved, boot>>
    BY <1>5 DEF ThreadNext, Compute, thread_yield, thread_sleep_ms, SetSleeping, ReadIcsr,
                WriteIcsr, ThreadStep
  <2>3. QED
    BY <2>1, <2>2, ContextAssumption
<1>6. CASE UNCHANGED vars
  BY <1>6 DEF vars, sched, cpu
<1>7. QED
  BY <1>1, <1>2, <1>3, <1>4, <1>5, <1>6 DEF Next, CpuNext

(* If no tick falls into kernel_start -- the condition that it does not    *)
(* ensure -- every block resumes the thread it was created for, for ever.  *)
THEOREM BlocksKeepTheirThread ==
  ASSUME ~BootTick
  PROVE  Spec => []BlocksResumeTheirThread
<1>1. Init => QuietBootInv
  BY DEF Init, QuietBootInv, BlocksResumeTheirThread
<1>2. IInv /\ QuietBootInv /\ [Next]_vars => QuietBootInv'
  BY QuietBootStep
<1>3. QuietBootInv => BlocksResumeTheirThread
  BY DEF QuietBootInv
<1>4. QED
  BY <1>1, <1>2, <1>3, Inductive, PTL DEF Spec

-------------------------------------------------------------------------------
(* The ticks, when they are two steps apart and ICSR is not read late.     *)

LEMMA ModSmall ==
  ASSUME NEW b \in Nat \ {0}, NEW a \in 0 .. b - 1
  PROVE  a % b = a /\ (a + 0) % b = a
OBVIOUS

LEMMA TickStep ==
  ASSUME ~LateTick, MinSteps >= 2
  PROVE  IInv /\ TickInv /\ [Next]_vars => TickInv'
<1> SUFFICES ASSUME IInv, TickInv, [Next]_vars PROVE TickInv'
  OBVIOUS
<1> USE DEF TickInv
<1>1. /\ ticks \in 0 .. TimeMod - 1 /\ system_time_ms \in 0 .. TimeMod - 1
      /\ TimeMod \in Nat \ {0} /\ sinceTick \in Nat /\ MinSteps \in Nat
  BY TimeAssumption DEF IInv, TypeOK
<1>2. pendST => TickTakable
  BY DEF IInv, BootInv, TickTakable
<1>3. ~pendST => ticks = system_time_ms
  BY <1>1, ModSmall DEF TickAccounting
<1>4. CASE SysTick_Handler
  <2>1. pendST /\ ~pendST'
    BY <1>4 DEF SysTick_Handler, TickTakable
  <2>2. system_time_ms' = (system_time_ms + 1) % TimeMod /\ ticks' = ticks
    BY <1>4 DEF SysTick_Handler, CpuStep
  <2>3. ticks = (system_time_ms + 1) % TimeMod
    BY <2>1 DEF TickAccounting
  <2>4. system_time_ms' \in 0 .. TimeMod - 1
    BY <1>1, <2>2, ModRange
  <2>5. TickAccounting'
    <3>1. (system_time_ms' + 0) % TimeMod = system_time_ms'
      BY <1>1, <2>4, ModSmall, Zenon
    <3>2. QED
      BY <2>1, <2>2, <2>3, <3>1 DEF TickAccounting
  <2>6. QED
    BY <1>4, <2>1, <2>5 DEF SysTick_Handler
<1>5. CASE TickExpires
  <2>1. ~pendST
    BY <1>1, <1>5 DEF TickExpires
  <2>2. QED
    BY <1>1, <1>3, <1>5, <2>1 DEF TickExpires, TickAccounting, kernel, cpu
<1>6. ASSUME ~pendST, ~pendST', UNCHANGED <<ticks, system_time_ms>>,
             \A t \in Slot : ~icsr'[t],
             boot' \in {"init", "create", "returned"} \/ shp'.SysTick < shp'.PendSV
      PROVE  TickInv'
  BY <1>6 DEF TickAccounting
<1>7. CASE BootNext
  <2>1. /\ ~pendST /\ pendST' = pendST /\ icsr' = icsr
        /\ UNCHANGED <<ticks, system_time_ms>>
    BY <1>7 DEF BootNext, kernel_init, thread_create, StartWithoutThreads, SetExcPrio, SetRunning,
                ClearCurrent, SetControl, SVC, BootSpin, BootStep, ThreadMode, CpuStep, kernel
  <2>2. boot' \in {"init", "create", "returned"} \/ shp'.SysTick < shp'.PendSV
    <3>1. CASE SetExcPrio
      BY <3>1 DEF SetExcPrio
    <3>2. CASE shp' = shp /\ (boot \in {"init", "create", "returned"} =>
                              boot' \in {"init", "create", "returned"})
      BY <3>2
    <3>3. QED
      BY <1>7, <3>1, <3>2
         DEF BootNext, kernel_init, thread_create, StartWithoutThreads, SetRunning, ClearCurrent,
             SetControl, SVC, BootSpin, BootStep, kernel
  <2>3. QED
    BY <1>6, <2>1, <2>2
<1>8. CASE PendSVNext
  <2>1. /\ UNCHANGED <<pendST, icsr, kernel, ticks, boot>>
        /\ sinceTick' <= sinceTick + 1
    BY <1>1, <1>8 DEF PendSVNext, PendSVEntry, Wfi, SchedulerNull, Dispatch, PendSVReturn,
                      HandlerStep, CpuStep
  <2>2. pendST => handler = "woken" /\ handler' # "woken"
    BY <1>2, <1>8 DEF PendSVNext, PendSVEntry, Wfi, SchedulerNull, Dispatch, PendSVReturn,
                      HandlerStep
  <2>3. sinceTick' \in Nat
    BY <1>1, <1>8 DEF PendSVNext, PendSVEntry, Wfi, SchedulerNull, Dispatch, PendSVReturn,
                      HandlerStep, CpuStep
  <2>4. pendST => sinceTick = 0
    BY <1>1, <2>2
  <2>5. QED
    BY <1>1, <2>1, <2>2, <2>3, <2>4 DEF TickAccounting, kernel
<1>9. ASSUME NEW t \in Slot, ThreadNext(t) PROVE TickInv'
  <2>1. ~pendST
    BY <1>9 DEF ThreadNext, Compute, thread_yield, thread_sleep_ms, SetSleeping, ReadIcsr,
                WriteIcsr, ThreadMode
  <2>2. ~pendST' /\ \A u \in Slot : ~icsr'[u]
    BY <1>9, <2>1 DEF ThreadNext, Compute, thread_yield, thread_sleep_ms, SetSleeping, ReadIcsr,
                      WriteIcsr, IInv, TypeOK
  <2>3. UNCHANGED <<ticks, kernel, boot>>
    BY <1>9 DEF ThreadNext, Compute, thread_yield, thread_sleep_ms, SetSleeping, ReadIcsr,
                WriteIcsr, ThreadStep, CpuStep
  <2>4. QED
    BY <1>6, <2>1, <2>2, <2>3 DEF kernel
<1>10. CASE UNCHANGED vars
  BY <1>10 DEF vars, kernel, cpu, TickAccounting
<1>11. QED
  BY <1>4, <1>5, <1>7, <1>8, <1>9, <1>10 DEF Next, CpuNext

(* system_time_ms counts every tick once, for ever and across its wrap, if *)
(* ticks are at least two steps apart and ICSR is never read late.         *)
THEOREM TicksCounted ==
  ASSUME ~LateTick, MinSteps >= 2
  PROVE  Spec => []TickAccounting
<1>1. Init => TickInv
  <2>1. 0 % TimeMod = 0
    BY TimeAssumption
  <2>2. QED
    BY <2>1 DEF Init, TickInv, TickAccounting
<1>2. IInv /\ TickInv /\ [Next]_vars => TickInv'
  BY TickStep
<1>3. TickInv => TickAccounting
  BY DEF TickInv
<1>4. QED
  BY <1>1, <1>2, <1>3, Inductive, PTL DEF Spec

-------------------------------------------------------------------------------
(* Sleeps, before system_time_ms wraps.                                    *)

NoWrap ==
  /\ Horizon \in 1 .. TimeMod
  /\ \A t \in Slot : \A ms \in Delays[t] : Horizon + ms <= TimeMod

LEMMA LeftStep ==
  ASSUME ~LateTick, NoWrap
  PROVE  IInv /\ LeftInv /\ [Next]_vars => LeftInv'
<1> SUFFICES ASSUME IInv, LeftInv, [Next]_vars PROVE LeftInv'
  OBVIOUS
<1> DEFINE Waits(t) == /\ kernel_running
                       /\ state[t] = "SLEEPING" \/ tpc[t] = "sleep"
                       /\ left[t] + system_time_ms + Pending <= wake_time[t] + 1
<1>1. /\ ticks \in Nat /\ system_time_ms \in Nat /\ TimeMod \in Nat /\ Horizon \in Nat
      /\ \A t \in Slot : left[t] \in Nat /\ wake_time[t] \in Nat
      /\ ticks < TimeMod
  BY TimeAssumption DEF IInv, TypeOK, LeftInv, NoWrap
<1>2. \A t \in Slot : left[t] <= 1 \/ Waits(t)
  BY DEF LeftInv
<1>3. /\ \A t \in Slot : ~icsr[t]
      /\ ticks < Horizon /\ system_time_ms + Pending <= ticks
  BY DEF LeftInv
<1>4. CASE SysTick_Handler
  <2>1. pendST /\ ~pendST' /\ UNCHANGED <<ticks, left, icsr, sched, tpc, kernel_running>>
    BY <1>4 DEF SysTick_Handler, TickTakable, CpuStep
  <2>2. Pending = 1 /\ Pending' = 0
    BY <2>1 DEF Pending
  <2>3. system_time_ms' = system_time_ms + 1
    <3>1. (system_time_ms + 1) % TimeMod = system_time_ms + 1
      BY <1>1, <1>3, <2>2
    <3>2. QED
      BY <1>4, <3>1 DEF SysTick_Handler
  <2>4. QED
    BY <1>1, <1>2, <1>3, <2>1, <2>2, <2>3 DEF LeftInv, sched
<1>5. CASE TickExpires
  <2>1. /\ ticks + 1 < Horizon /\ Pending' = 1 /\ Pending \in {0, 1}
        /\ UNCHANGED <<icsr, sched, tpc, kernel_running, system_time_ms>>
        /\ left' = [t \in Slot |-> IF left[t] > 0 THEN left[t] - 1 ELSE 0]
    BY <1>5 DEF TickExpires, Pending, kernel, cpu
  <2>2. ticks' = ticks + 1
    <3>1. (ticks + 1) % TimeMod = ticks + 1
      BY <1>1, <2>1 DEF NoWrap
    <3>2. QED
      BY <1>5, <3>1 DEF TickExpires
  <2>3. QED
    BY <1>1, <1>2, <1>3, <2>1, <2>2 DEF LeftInv, sched
<1>6. CASE BootNext
  <2>1. UNCHANGED <<ticks, left, icsr, pendST, system_time_ms, tpc>>
    BY <1>6 DEF BootNext, kernel_init, thread_create, StartWithoutThreads, SetExcPrio, SetRunning,
                ClearCurrent, SetControl, SVC, BootSpin, BootStep, CpuStep, kernel
  <2>2. Pending' = Pending
    BY <2>1 DEF Pending
  <2>3. CASE \E q \in UNION {PrioOf[t] : t \in Slot} : thread_create(q)
    <3>1. ~kernel_running
      BY <2>3 DEF thread_create, BootStep, IInv, BootInv
    <3>2. QED
      BY <1>2, <1>3, <2>1, <2>2, <3>1 DEF LeftInv
  <2>4. CASE UNCHANGED <<state, wake_time>> /\ (kernel_running => kernel_running')
    BY <1>2, <1>3, <2>1, <2>2, <2>4 DEF LeftInv
  <2>5. QED
    BY <1>6, <2>3, <2>4
       DEF BootNext, kernel_init, StartWithoutThreads, SetExcPrio, SetRunning, ClearCurrent,
           SetControl, SVC, BootSpin, sched, kernel
<1>7. CASE PendSVNext
  <2>1. /\ UNCHANGED <<ticks, left, icsr, pendST, system_time_ms, tpc, kernel_running>>
        /\ UNCHANGED wake_time
    BY <1>7 DEF PendSVNext, PendSVEntry, Wfi, SchedulerNull, Dispatch, PendSVReturn, HandlerStep,
                CpuStep, kernel, sched
  <2>2. Pending' = Pending /\ Pending \in {0, 1}
    BY <2>1 DEF Pending
  <2>3. state' = state \/ state' = awake
    BY <1>7 DEF PendSVNext, PendSVEntry, Wfi, SchedulerNull, Dispatch, PendSVReturn, sched
  <2>4. ASSUME NEW t \in Slot, state[t] = "SLEEPING", state'[t] # "SLEEPING", left[t] > 1
        PROVE  tpc[t] = "sleep"
    <3>1. wake_time[t] <= system_time_ms
      BY <1>1, <2>3, <2>4 DEF awake, Awake, Expired, IInv, TypeOK
    <3>2. QED
      BY <1>1, <1>2, <2>2, <2>4, <3>1
  <2>5. QED
    BY <1>1, <1>2, <1>3, <2>1, <2>2, <2>4 DEF LeftInv
<1>8. ASSUME NEW u \in Slot, ThreadNext(u) PROVE LeftInv'
  <2>1. /\ base = u /\ handler = "idle" /\ current_thread = u /\ kernel_running
        /\ UNCHANGED <<ticks, kernel>>
    BY <1>8 DEF ThreadNext, Compute, thread_yield, thread_sleep_ms, SetSleeping, ReadIcsr,
                WriteIcsr, ThreadStep, CpuStep, IInv, CurrentInv, BootInv
  <2>2. ~pendST /\ ~pendST' /\ \A t \in Slot : ~icsr'[t]
    BY <1>3, <1>8 DEF ThreadNext, Compute, thread_yield, thread_sleep_ms, SetSleeping, ReadIcsr,
                      WriteIcsr, ThreadMode, IInv, TypeOK
  <2>3. Pending' = 0 /\ Pending = 0
    BY <2>2 DEF Pending
  <2>4. ASSUME NEW t \in Slot, t # u
        PROVE  /\ left'[t] = left[t] /\ state'[t] = state[t] /\ tpc'[t] = tpc[t]
               /\ wake_time'[t] = wake_time[t]
    BY <1>8, <2>1, <2>4 DEF ThreadNext, Compute, thread_yield, thread_sleep_ms, SetSleeping,
                            ReadIcsr, WriteIcsr, ThreadStep, CpuStep, IInv, TypeOK
  <2>5. left'[u] <= 1 \/ /\ state'[u] = "SLEEPING" \/ tpc'[u] = "sleep"
                         /\ left'[u] + system_time_ms <= wake_time'[u] + 1
    <3>1. ASSUME NEW ms \in Delays[u], thread_sleep_ms(u, ms)
          PROVE  /\ tpc'[u] = "sleep"
                 /\ left'[u] <= 1 \/ left'[u] + system_time_ms <= wake_time'[u] + 1
      <4>1. ms \in Nat /\ system_time_ms + ms < TimeMod
        BY <1>1, <1>3, <2>3, DelaysAssumption DEF NoWrap
      <4>2. (system_time_ms + ms) % TimeMod = system_time_ms + ms
        BY <1>1, <4>1
      <4>3. tpc'[u] = "sleep" /\ wake_time'[u] = system_time_ms + ms
        BY <2>1, <3>1, <4>2 DEF thread_sleep_ms, ThreadStep, IInv, TypeOK
      <4>4. left'[u] = IF ms = 0 THEN 0 ELSE ms + 1
        BY <3>1 DEF thread_sleep_ms, IInv, TypeOK
      <4>5. QED
        BY <1>1, <4>1, <4>3, <4>4
    <3>2. CASE SetSleeping(u)
      <4>1. state'[u] = "SLEEPING" /\ UNCHANGED <<left, wake_time>>
        BY <2>1, <3>2 DEF SetSleeping, CpuStep, IInv, TypeOK
      <4>2. QED
        BY <1>1, <1>2, <2>3, <4>1
    <3>3. CASE Compute(u) \/ thread_yield(u) \/ ReadIcsr(u) \/ WriteIcsr(u)
      <4>1. tpc[u] # "sleep" /\ UNCHANGED <<left, wake_time, state>>
        BY <3>3 DEF Compute, thread_yield, ReadIcsr, WriteIcsr, ThreadStep, CpuStep
      <4>2. QED
        BY <1>1, <1>2, <2>3, <4>1
    <3>4. QED
      BY <1>8, <3>1, <3>2, <3>3 DEF ThreadNext
  <2>6. QED
    <3>1. ASSUME NEW t \in Slot
          PROVE  left'[t] <= 1 \/ /\ kernel_running'
                                  /\ state'[t] = "SLEEPING" \/ tpc'[t] = "sleep"
                                  /\ left'[t] + system_time_ms' + Pending' <= wake_time'[t] + 1
      <4>1. system_time_ms' = system_time_ms /\ kernel_running'
        BY <2>1 DEF kernel
      <4>2. CASE t = u
        <5>1. left'[u] \in Nat /\ wake_time'[u] \in Nat
          BY TypeStep, TimeAssumption DEF IInv, TypeOK
        <5>2. QED
          BY <1>1, <2>3, <2>5, <4>1, <4>2, <5>1
      <4>3. CASE t # u
        BY <1>1, <1>2, <2>3, <2>4, <4>1, <4>3
      <4>4. QED
        BY <4>2, <4>3
    <3>2. ticks' < Horizon /\ system_time_ms' + Pending' <= ticks'
      BY <1>1, <1>3, <2>1, <2>3 DEF kernel
    <3>3. QED
      BY <2>2, <3>1, <3>2 DEF LeftInv
<1>9. CASE UNCHANGED vars
  BY <1>9 DEF vars, sched, kernel, cpu, LeftInv, Pending
<1>10. QED
  BY <1>4, <1>5, <1>6, <1>7, <1>8, <1>9 DEF Next, CpuNext

(* thread_sleep_ms(ms) returns only after ms ticks, if ICSR is not read    *)
(* late and no wake_time wraps -- kern_sleep_wrap shows what happens when  *)
(* one does.                                                               *)
THEOREM SleepsLast ==
  ASSUME ~LateTick, NoWrap
  PROVE  Spec => []SleepAtLeastTicks
<1>1. Init => LeftInv
  BY DEF Init, LeftInv, Pending, NoWrap
<1>2. IInv /\ LeftInv /\ [Next]_vars => LeftInv'
  BY LeftStep
<1>3. IInv /\ LeftInv => SleepAtLeastTicks
  BY DEF IInv, SleepInv, LeftInv, SleepAtLeastTicks, ThreadMode
<1>4. QED
  BY <1>1, <1>2, <1>3, Inductive, PTL DEF Spec

-------------------------------------------------------------------------------
(* M1Kern implements IdealKernel, for every number of threads, priorities  *)
(* and delays, ticks as close as they like, either meaning of wfi, either  *)
(* reading of ICSR, and with or without a tick in kernel_start.            *)

RunBar == IF HasCore THEN current_thread ELSE NULL
UntilBar == [t \in Slot |-> IF t \in Sleepers THEN wake_time[t] ELSE 0]

LEMMA CreationStep == IInv /\ CreationInv /\ [Next]_vars => CreationInv'
<1> SUFFICES ASSUME IInv, CreationInv, [Next]_vars PROVE CreationInv'
  OBVIOUS
<1> USE DEF CreationInv, IInv
<1>1. CASE BootNext
  <2>1. boot = "create" \/ ~kernel_running => Sleepers = {}
    BY <1>1 DEF Sleepers, BootInv
  <2>2. CASE kernel_init
    <3>1. thread_count' = 0 /\ boot' = "create" /\ state' = state /\ ~kernel_running
      BY <2>2 DEF kernel_init, BootStep, BootInv
    <3>2. QED
      BY <2>1, <3>1 DEF Sleepers
  <2>3. ASSUME NEW p, thread_create(p) PROVE CreationInv'
    <3>1. boot' = "create" /\ boot = "create" /\ ~kernel_running
      BY <2>3 DEF thread_create, BootStep, BootInv
    <3>2. \A t \in Slot : state'[t] = "READY"
      BY <2>3, <3>1 DEF thread_create, BootInv, TypeOK
    <3>3. QED
      BY <3>1, <3>2 DEF Sleepers
  <2>4. CASE \/ StartWithoutThreads \/ SetExcPrio \/ SetRunning \/ ClearCurrent
             \/ SetControl \/ SVC \/ BootSpin
    <3>1. UNCHANGED <<thread_count, state>>
      BY <2>4 DEF StartWithoutThreads, SetExcPrio, SetRunning, ClearCurrent, SetControl, SVC,
                  BootSpin, sched
    <3>2. boot' \notin {"init", "create", "returned"} => thread_count > 0
      BY <2>4, ThreadsAssumption
         DEF StartWithoutThreads, SetExcPrio, SetRunning, ClearCurrent, SetControl, SVC, BootSpin,
             BootStep, TypeOK
    <3>3. boot' # "init"
      BY <2>4 DEF StartWithoutThreads, SetExcPrio, SetRunning, ClearCurrent, SetControl, SVC,
                  BootSpin, BootStep
    <3>4. QED
      BY <3>1, <3>2, <3>3 DEF Sleepers
  <2>5. QED
    BY <1>1, <2>2, <2>3, <2>4 DEF BootNext
<1>2. CASE SysTick_Handler \/ TickExpires \/ UNCHANGED vars
  <2>1. UNCHANGED <<thread_count, state, boot>>
    BY <1>2 DEF SysTick_Handler, TickExpires, vars, sched, cpu
  <2>2. QED
    BY <2>1 DEF Sleepers
<1>3. CASE PendSVNext
  <2>1. UNCHANGED <<thread_count, boot>> /\ (state' = state \/ state' = awake)
    BY <1>3 DEF PendSVNext, PendSVEntry, Wfi, SchedulerNull, Dispatch, PendSVReturn, HandlerStep,
                sched
  <2>2. Sleepers' \subseteq Sleepers
    BY <2>1 DEF Sleepers, awake, Awake, TypeOK
  <2>3. QED
    BY <2>1, <2>2
<1>4. ASSUME NEW t \in Slot, ThreadNext(t) PROVE CreationInv'
  <2>1. UNCHANGED <<thread_count, boot>> /\ base = t /\ handler = "idle"
    BY <1>4 DEF ThreadNext, Compute, thread_yield, thread_sleep_ms, SetSleeping, ReadIcsr,
                WriteIcsr, ThreadStep
  <2>2. t \in Created(thread_count) /\ current_thread = t
    BY <2>1 DEF CurrentInv
  <2>3. state' = state \/ state' = [state EXCEPT ![t] = "SLEEPING"]
    BY <1>4, <2>2 DEF ThreadNext, Compute, thread_yield, thread_sleep_ms, SetSleeping, ReadIcsr,
                      WriteIcsr
  <2>4. Sleepers' \subseteq Sleepers \cup {t}
    BY <2>3 DEF Sleepers, TypeOK
  <2>5. QED
    BY <2>1, <2>2, <2>4
<1>5. QED
  BY <1>1, <1>2, <1>3, <1>4 DEF Next, CpuNext

LEMMA CreationHolds == Spec => []CreationInv
<1>1. Init => CreationInv
  BY DEF Init, CreationInv, Sleepers
<1>2. QED
  BY <1>1, CreationStep, Inductive, PTL DEF Spec

-------------------------------------------------------------------------------
LEMMA InitRefines == Init => Ideal!Init
<1> SUFFICES ASSUME Init PROVE Ideal!Init
  OBVIOUS
<1>1. Sleepers = {} /\ ~HasCore
  BY DEF Init, Sleepers, HasCore
<1>2. UntilBar = [t \in Slot |-> 0]
  BY <1>1 DEF UntilBar
<1>3. QED
  BY <1>1, <1>2 DEF Init, Ideal!Init, Ideal!Thread, Slot, UntilBar

(* A step that leaves the fields of the blocks alone moves at most the     *)
(* core.                                                                   *)
LEMMA QuietStep ==
  ASSUME UNCHANGED <<thread_count, priority, system_time_ms, kernel_running, last_thd_idx>>,
         Sleepers' = Sleepers, UntilBar' = UntilBar,
         RunBar' \in {RunBar, NULL}
  PROVE  [Ideal!Next]_Ideal!vars
<1>1. CASE RunBar' = RunBar
  BY <1>1, Zenon DEF Ideal!vars, RunBar, UntilBar
<1>2. CASE RunBar' = NULL
  <2>1. Ideal!Yield
    BY <1>2, Zenon DEF Ideal!Yield, RunBar, UntilBar
  <2>2. QED
    BY <2>1, Zenon DEF Ideal!Next
<1>3. QED
  BY <1>1, <1>2, Zenon

LEMMA BootRefines == IInv /\ CreationInv /\ BootNext => [Ideal!Next]_Ideal!vars
<1> SUFFICES ASSUME IInv, CreationInv, BootNext PROVE [Ideal!Next]_Ideal!vars
  OBVIOUS
<1> USE DEF IInv
<1>1. base = Boot /\ base' = Boot /\ handler = "idle" /\ handler' = "idle"
  BY DEF BootNext, kernel_init, thread_create, StartWithoutThreads, SetExcPrio, SetRunning,
         ClearCurrent, SetControl, SVC, BootSpin, BootStep, ThreadMode
<1>2. ~HasCore /\ ~HasCore'
  BY <1>1 DEF HasCore
<1>3. RunBar = NULL /\ RunBar' = NULL
  BY <1>2 DEF RunBar
<1>4. CASE kernel_init
  <2>1. UNCHANGED <<state, wake_time, thread_count, priority, last_thd_idx, kernel>>
    BY <1>4 DEF kernel_init, BootStep, CreationInv
  <2>2. Sleepers' = Sleepers /\ UntilBar' = UntilBar
    BY <2>1 DEF Sleepers, UntilBar
  <2>3. QED
    BY <1>3, <2>1, <2>2, QuietStep DEF kernel
<1>5. ASSUME NEW p \in UNION {PrioOf[t] : t \in Slot}, thread_create(p)
      PROVE  Ideal!Create(p) /\ p \in 0 .. 255
  <2>1. ~kernel_running /\ thread_count < MaxThreads /\ thread_count' = thread_count + 1
        /\ priority' = [priority EXCEPT ![thread_count] = p]
        /\ UNCHANGED <<system_time_ms, kernel_running, last_thd_idx>>
    BY <1>5 DEF thread_create, BootStep, BootInv, kernel
  <2>2. \A t \in Slot : state[t] = "READY" /\ state'[t] = "READY"
    BY <1>5, <2>1 DEF thread_create, BootInv, TypeOK
  <2>3. Sleepers = {} /\ Sleepers' = {}
    BY <2>2 DEF Sleepers
  <2>4. UntilBar' = UntilBar
    BY <2>3 DEF UntilBar
  <2>5. p \in 0 .. 255
    BY PrioAssumption
  <2>6. QED
    BY <1>3, <2>1, <2>3, <2>4, <2>5, Zenon DEF Ideal!Create, RunBar, UntilBar
<1>6. CASE SetRunning
  <2>1. UNCHANGED <<sched, system_time_ms>> /\ kernel_running' = TRUE /\ thread_count > 0
    BY <1>6 DEF SetRunning, BootStep, CreationInv
  <2>2. Sleepers' = Sleepers /\ UntilBar' = UntilBar
    BY <2>1 DEF Sleepers, UntilBar, sched
  <2>3. Ideal!Start
    BY <1>3, <2>1, <2>2, Zenon DEF Ideal!Start, RunBar, UntilBar, sched
  <2>4. QED
    BY <2>3, Zenon DEF Ideal!Next
<1>7. CASE StartWithoutThreads \/ SetExcPrio \/ ClearCurrent \/ SetControl \/ SVC \/ BootSpin
  <2>1. UNCHANGED <<thread_count, state, wake_time, priority, last_thd_idx, kernel_running,
                    system_time_ms>>
    BY <1>7 DEF StartWithoutThreads, SetExcPrio, ClearCurrent, SetControl, SVC, BootSpin, sched,
                kernel
  <2>2. Sleepers' = Sleepers /\ UntilBar' = UntilBar
    BY <2>1 DEF Sleepers, UntilBar
  <2>3. QED
    BY <1>3, <2>1, <2>2, QuietStep
<1>8. QED
  BY <1>4, <1>5, <1>6, <1>7 DEF BootNext, Ideal!Next

LEMMA TickRefines ==
  IInv /\ (SysTick_Handler \/ TickExpires \/ UNCHANGED vars) => [Ideal!Next]_Ideal!vars
<1> SUFFICES ASSUME IInv, SysTick_Handler \/ TickExpires \/ UNCHANGED vars
             PROVE  [Ideal!Next]_Ideal!vars
  OBVIOUS
<1>1. UNCHANGED <<sched, kernel_running, base>>
  BY DEF SysTick_Handler, TickExpires, vars, kernel, cpu
<1>2. Sleepers' = Sleepers /\ UntilBar' = UntilBar
  BY <1>1 DEF Sleepers, UntilBar, sched
<1>3. CASE SysTick_Handler
  <2>1. /\ pendSV' = (pendSV \/ kernel_running)
        /\ handler' = handler \/ (handler = "wfi" /\ handler' \in {"wfi", "woken"})
        /\ system_time_ms' = (system_time_ms + 1) % TimeMod
    BY <1>3 DEF SysTick_Handler
  <2>2. ~HasCore'
    <3>1. CASE kernel_running
      BY <2>1, <3>1 DEF HasCore
    <3>2. CASE ~kernel_running
      BY <1>1, <2>1, <3>2 DEF HasCore, IInv, BootInv, TypeOK
    <3>3. QED
      BY <3>1, <3>2
  <2>3. Ideal!Tick
    BY <1>1, <1>2, <2>1, <2>2 DEF Ideal!Tick, sched, UntilBar
  <2>4. QED
    BY <2>3, Zenon DEF Ideal!Next
<1>4. CASE TickExpires \/ UNCHANGED vars
  <2>1. UNCHANGED <<handler, pendSV, system_time_ms>>
    BY <1>4 DEF TickExpires, vars, kernel, cpu
  <2>2. RunBar' = RunBar
    BY <1>1, <2>1 DEF RunBar, HasCore, sched
  <2>3. QED
    BY <1>1, <1>2, <2>1, <2>2, QuietStep DEF sched
<1>5. QED
  BY <1>3, <1>4

-------------------------------------------------------------------------------
(* The round robin of scheduler_next() passes over the thread it serviced  *)
(* last unless that is the only candidate.                                 *)
LEMMA NextIsATurn ==
  ASSUME NEW n \in Nat, NEW l \in Nat, l = 0 \/ l < n,
         NEW S \in SUBSET Created(n), S # {}
  PROVE  NextInTurn(n, l, S) \in IF S = {l} THEN S ELSE S \ {l}
<1> DEFINE i == NextInTurn(n, l, S)
<1>1. i \in S /\ \A j \in S : Turn(n, l, i) <= Turn(n, l, j)
  BY NextInTurnIsFirst
<1> HIDE DEF i
<1>2. SUFFICES ASSUME S # {l}, i = l PROVE FALSE
  BY <1>1 DEF i
<1>3. PICK j \in S : j # l
  BY <1>1, <1>2
<1>4. j \in 0 .. n - 1
  BY DEF Created
<1>5. Turn(n, l, l) = n /\ Turn(n, l, j) < n
  BY <1>3, <1>4 DEF Turn
<1>6. Turn(n, l, l) <= Turn(n, l, j)
  BY <1>1, <1>2
<1>7. QED
  BY <1>4, <1>5, <1>6 DEF Turn

LEMMA DispatchChooses == IInv /\ CreationInv /\ Dispatch => Ideal!Choose
<1> SUFFICES ASSUME IInv, CreationInv, Dispatch PROVE Ideal!Choose
  OBVIOUS
<1> USE DEF IInv
<1>1. /\ thread_count \in Nat /\ last_thd_idx \in Nat
      /\ last_thd_idx = 0 \/ last_thd_idx < thread_count
      /\ Created(thread_count) \subseteq Slot
      /\ thread_count <= MaxThreads
  BY ThreadsAssumption DEF TypeOK, BootInv, Created, Slot
<1>2. kernel_running /\ ~HasCore /\ RunBar = NULL
  BY DEF Dispatch, HandlerStep, BootInv, HasCore, RunBar
<1>3. /\ UNCHANGED <<thread_count, priority, system_time_ms, kernel_running, wake_time>>
      /\ last_thd_idx' = next /\ current_thread' = next /\ state' = awake
  BY DEF Dispatch, HandlerStep, kernel
<1>4. RunBar' \in {next, NULL}
  BY <1>3 DEF RunBar
<1> DEFINE Expd == Expired(thread_count, state, wake_time, system_time_ms)
<1>5. Ideal!Due = Expd
  BY <1>1 DEF Ideal!Due, Expired, CreationInv, Sleepers
<1>6. Sleepers' = Sleepers \ Expd
  BY <1>3, <1>1 DEF Sleepers, awake, Awake, TypeOK
<1>7. Ideal!Awake = Ready(thread_count, awake)
  <2>1. Ideal!Awake = {t \in Slot : t < thread_count} \ (Sleepers \ Expd)
    BY <1>5 DEF Ideal!Awake, Ideal!Thread, Slot
  <2>2. {t \in Slot : t < thread_count} = Created(thread_count)
    BY <1>1, ThreadsAssumption DEF Slot, Created
  <2>3. \A t \in Created(thread_count) :
          awake[t] = "READY" <=> t \notin Sleepers \ Expd
    BY <1>1 DEF Sleepers, awake, Awake, TypeOK
  <2>4. QED
    BY <2>1, <2>2, <2>3 DEF Ready
<1> DEFINE top == TopReady(thread_count, awake, priority)
<1>8. Ideal!Top = top
  BY <1>7 DEF Ideal!Top, TopReady
<1>9. top # {} /\ top \in SUBSET Created(thread_count)
  <2>1. \A i \in Created(thread_count) : priority[i] \in 0 .. 255
    BY <1>1 DEF TypeOK
  <2>2. Ready(thread_count, awake) # {}
    BY DEF Dispatch
  <2>3. thread_count \in Nat /\ 255 \in Nat
    BY <1>1
  <2>4. top # {}
    BY <2>1, <2>2, <2>3, TopReadyExists, Zenon
  <2>5. QED
    BY <2>4 DEF TopReady, Ready
<1>10. next \in Ideal!Turn
  <2>1. next \in IF top = {last_thd_idx} THEN top ELSE top \ {last_thd_idx}
    BY <1>1, <1>9, NextIsATurn DEF next
  <2>2. QED
    BY <1>8, <2>1 DEF Ideal!Turn
<1>11. UntilBar' = [t \in Slot |-> IF t \in Expd THEN 0 ELSE UntilBar[t]]
  BY <1>3, <1>6 DEF UntilBar
<1> HIDE DEF Expd
<1>12. QED
  BY <1>2, <1>3, <1>4, <1>5, <1>6, <1>10, <1>11, Zenon
     DEF Ideal!Choose, Ideal!Thread, Slot, RunBar, UntilBar

LEMMA PendSVRefines == IInv /\ CreationInv /\ PendSVNext => [Ideal!Next]_Ideal!vars
<1> SUFFICES ASSUME IInv, CreationInv, PendSVNext PROVE [Ideal!Next]_Ideal!vars
  OBVIOUS
<1> USE DEF IInv
<1>1. CASE Dispatch
  BY <1>1, DispatchChooses DEF Ideal!Next
<1>2. CASE PendSVEntry \/ Wfi \/ SchedulerNull
  <2>1. UNCHANGED <<sched, kernel>> /\ (pendSV \/ handler # "idle") /\ handler # "return"
        /\ handler' \in {"wfi", "woken"}
    BY <1>2 DEF PendSVEntry, Wfi, SchedulerNull, HandlerStep
  <2>2. RunBar' = RunBar /\ Sleepers' = Sleepers /\ UntilBar' = UntilBar
    BY <2>1 DEF RunBar, HasCore, Sleepers, UntilBar, sched
  <2>3. QED
    BY <2>1, <2>2, QuietStep DEF sched, kernel
<1>3. CASE PendSVReturn
  <2>1. UNCHANGED <<sched, kernel, pendSV>> /\ handler = "return" /\ handler' = "idle"
    BY <1>3 DEF PendSVReturn, HandlerStep
  <2>2. RunBar' \in {RunBar, NULL} /\ Sleepers' = Sleepers /\ UntilBar' = UntilBar
    BY <2>1 DEF RunBar, HasCore, Sleepers, UntilBar, sched
  <2>3. QED
    BY <2>1, <2>2, QuietStep DEF sched, kernel
<1>4. QED
  BY <1>1, <1>2, <1>3 DEF PendSVNext

LEMMA ThreadRefines ==
  ASSUME NEW t \in Slot
  PROVE  IInv /\ ThreadNext(t) => [Ideal!Next]_Ideal!vars
<1> SUFFICES ASSUME IInv, ThreadNext(t) PROVE [Ideal!Next]_Ideal!vars
  OBVIOUS
<1> USE DEF IInv
<1>1. /\ base = t /\ handler = "idle" /\ ~pendSV
      /\ UNCHANGED <<thread_count, priority, last_thd_idx, current_thread, kernel_running,
                     system_time_ms, base, handler>>
  BY DEF ThreadNext, Compute, thread_yield, thread_sleep_ms, SetSleeping, ReadIcsr, WriteIcsr,
         ThreadStep, ThreadMode, kernel
<1>2. current_thread = t /\ current_thread' = t
  BY <1>1 DEF CurrentInv
<1>3. CASE Compute(t) \/ thread_yield(t) \/ ReadIcsr(t) \/ WriteIcsr(t)
  <2>1. UNCHANGED <<state, wake_time>> /\ pendSV' \in {pendSV, TRUE}
    BY <1>3 DEF Compute, thread_yield, ReadIcsr, WriteIcsr
  <2>2. RunBar' \in {RunBar, NULL} /\ Sleepers' = Sleepers /\ UntilBar' = UntilBar
    BY <1>1, <2>1 DEF RunBar, HasCore, Sleepers, UntilBar
  <2>3. QED
    BY <1>1, <2>1, <2>2, QuietStep
<1>4. ASSUME NEW ms \in Delays[t], thread_sleep_ms(t, ms) PROVE [Ideal!Next]_Ideal!vars
  <2>1. /\ UNCHANGED <<state, pendSV>> /\ tpc[t] = "run"
        /\ \A u \in Slot : u # t => wake_time'[u] = wake_time[u]
    BY <1>2, <1>4 DEF thread_sleep_ms, ThreadStep, TypeOK
  <2>2. t \notin Sleepers
    BY <1>1, <2>1 DEF SleepInv, Sleepers
  <2>3. RunBar' = RunBar /\ Sleepers' = Sleepers
    BY <1>1, <2>1 DEF RunBar, HasCore, Sleepers
  <2>4. UntilBar' = UntilBar
    BY <2>1, <2>2, <2>3 DEF UntilBar
  <2>5. QED
    BY <1>1, <2>3, <2>4, QuietStep
<1>5. CASE SetSleeping(t)
  <2>1. /\ UNCHANGED wake_time /\ tpc[t] = "sleep"
        /\ state' = [state EXCEPT ![t] = "SLEEPING"]
    BY <1>2, <1>5 DEF SetSleeping, ThreadStep
  <2>2. state[t] = "READY"
    BY <1>1, <2>1 DEF SleepInv, TypeOK
  <2>3. RunBar = t /\ t # NULL
    BY <1>1, <1>2, <2>2, ContextAssumption DEF RunBar, HasCore
  <2>4. Sleepers' = Sleepers \cup {t} /\ RunBar' = NULL
    BY <1>2, <2>1 DEF RunBar, HasCore, Sleepers, TypeOK
  <2>5. UntilBar' = [UntilBar EXCEPT ![t] = wake_time[t]]
    BY <2>1, <2>4 DEF UntilBar
  <2>6. PICK w \in 0 .. TimeMod - 1 : w = wake_time[t]
    BY DEF TypeOK
  <2>7. Ideal!Sleep(w)
    BY <1>1, <2>3, <2>4, <2>5, <2>6, Zenon DEF Ideal!Sleep, RunBar, UntilBar
  <2>8. QED
    BY <2>7, Zenon DEF Ideal!Next
<1>6. QED
  BY <1>3, <1>4, <1>5 DEF ThreadNext

-------------------------------------------------------------------------------
(* The kernel is an implementation of IdealKernel: whatever its exceptions *)
(* interrupt, the core goes only to a thread that is awake, of the highest *)
(* priority, and not the one serviced last if it has an equal.             *)
THEOREM KernelImplementsIdeal == Spec => ImplementsIdeal
<1>1. Init => Ideal!Init
  BY InitRefines
<1>2. IInv /\ CreationInv /\ [Next]_vars => [Ideal!Next]_Ideal!vars
  BY BootRefines, TickRefines, PendSVRefines, ThreadRefines DEF Next, CpuNext
<1>3. QED
  BY <1>1, <1>2, Inductive, CreationHolds, PTL DEF Spec, ImplementsIdeal, Ideal!Spec

-------------------------------------------------------------------------------
(* The promise that IdealKernel makes, and M1Kern keeps by implementing    *)
(* it.                                                                     *)
IdealInv ==
  /\ thread_count \in 0 .. MaxThreads
  /\ Sleepers \subseteq Slot
  /\ ~kernel_running => RunBar = NULL
  /\ RunBar # NULL => RunBar \notin Sleepers
  /\ Ideal!CoreToTheTop

LEMMA IdealStep == IdealInv /\ [Ideal!Next]_Ideal!vars => IdealInv'
<1> SUFFICES ASSUME IdealInv, [Ideal!Next]_Ideal!vars PROVE IdealInv'
  OBVIOUS
<1> USE ThreadsAssumption, ContextAssumption DEF IdealInv, RunBar
<1>1. Slot = Ideal!Thread
  BY DEF Slot, Ideal!Thread
<1>2. ASSUME NEW p \in 0 .. 255, Ideal!Create(p) PROVE IdealInv'
  BY <1>2 DEF Ideal!Create, Ideal!CoreToTheTop
<1>3. CASE Ideal!Start \/ UNCHANGED Ideal!vars
  <2>1. /\ thread_count' = thread_count /\ priority' = priority
        /\ Sleepers' = Sleepers /\ UntilBar' = UntilBar
        /\ system_time_ms' = system_time_ms /\ RunBar' = RunBar
        /\ kernel_running' = kernel_running \/ kernel_running'
    BY <1>3 DEF Ideal!Start, Ideal!vars, UntilBar
  <2>2. Ideal!CoreToTheTop'
    BY <2>1 DEF Ideal!CoreToTheTop, Ideal!Top, Ideal!Awake, Ideal!Due, UntilBar
  <2>3. QED
    BY <2>1, <2>2
<1>4. CASE Ideal!Tick \/ Ideal!Yield
  BY <1>4 DEF Ideal!Tick, Ideal!Yield, Ideal!CoreToTheTop
<1>5. ASSUME NEW w \in 0 .. TimeMod - 1, Ideal!Sleep(w) PROVE IdealInv'
  <2>1. RunBar \in Slot
    BY <1>1, <1>5 DEF Ideal!Sleep, Ideal!CoreToTheTop, Ideal!Top, Ideal!Awake
  <2>2. QED
    BY <1>5, <2>1 DEF Ideal!Sleep, Ideal!CoreToTheTop
<1>6. CASE Ideal!Choose
  <2>1. PICK t \in Ideal!Turn : RunBar' \in {t, NULL}
    BY <1>6 DEF Ideal!Choose
  <2>2. /\ Sleepers' = Sleepers \ Ideal!Due /\ kernel_running' = kernel_running /\ kernel_running
        /\ UntilBar' = [u \in Slot |-> IF u \in Ideal!Due THEN 0 ELSE UntilBar[u]]
        /\ UNCHANGED <<thread_count, priority, system_time_ms>>
    BY <1>1, <1>6 DEF Ideal!Choose, UntilBar
  <2>3. Ideal!Due' = {}
    <3>1. Ideal!Due = {u \in Sleepers : UntilBar[u] <= system_time_ms}
      BY DEF Ideal!Due, UntilBar
    <3>2. Ideal!Due' = {u \in Sleepers' : UntilBar'[u] <= system_time_ms'}
      BY DEF Ideal!Due, UntilBar
    <3>3. QED
      BY <2>2, <3>1, <3>2
  <2>4. Ideal!Awake' = Ideal!Awake
    BY <2>2, <2>3 DEF Ideal!Awake
  <2>5. Ideal!Top' = Ideal!Top
    BY <2>2, <2>4 DEF Ideal!Top
  <2>6. t \in Ideal!Top /\ t \in Ideal!Awake
    BY DEF Ideal!Turn, Ideal!Top
  <2>7. t \notin Sleepers'
    BY <2>2, <2>6 DEF Ideal!Awake
  <2>8. QED
    BY <2>1, <2>2, <2>3, <2>5, <2>6, <2>7 DEF Ideal!CoreToTheTop
<1>7. QED
  BY <1>2, <1>3, <1>4, <1>5, <1>6 DEF Ideal!Next

(* The core belongs to a thread only while that is awake and of the        *)
(* highest priority of those awake, with nobody overdue: m1kern.h, "higher *)
(* value wins, always".  So it is in the ideal kernel ...                  *)
LEMMA IdealCoreToTheTop == Ideal!Spec => []Ideal!CoreToTheTop
<1>1. Ideal!Init => IdealInv
  BY ThreadsAssumption DEF Ideal!Init, IdealInv, RunBar, Ideal!CoreToTheTop
<1>2. IdealInv => Ideal!CoreToTheTop
  BY DEF IdealInv
<1>3. QED
  BY <1>1, <1>2, IdealStep, PTL DEF Ideal!Spec

(* ... and therefore in M1Kern, which implements it.                       *)
THEOREM CoreBelongsToTheTop == Spec => []Ideal!CoreToTheTop
BY KernelImplementsIdeal, IdealCoreToTheTop DEF ImplementsIdeal
===============================================================================
