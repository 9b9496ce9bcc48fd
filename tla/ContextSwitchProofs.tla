--------------------------- MODULE ContextSwitchProofs ---------------------------
(***************************************************************************)
(* The switch keeps r5-r11, the stack and its depth of every thread, for   *)
(* any number of threads and any priorities, delays and ticks -- but one   *)
(* in kernel_start, which M1Kern's run kern_boot_lost shows to do harm.    *)
(***************************************************************************)
EXTENDS ContextSwitch, M1KernProofs

Base == IInv /\ QuietBootInv /\ CreationInv

LEMMA SwitchStepsAreSteps == CSNext => Next
BY DEF CSNext, InitStack, ThreadStacks, MsrPsp, SaveContext, RestoreContext, SwitchReturn, Next,
       CpuNext, BootNext, PendSVNext

LEMMA BaseHolds == ASSUME ~BootTick PROVE CSSpec => []Base
<1>1. CSInit => Init
  BY DEF CSInit
<1>2. [CSNext]_csvars => [Next]_vars
  BY SwitchStepsAreSteps DEF csvars
<1>3. Init => QuietBootInv
  BY DEF Init, QuietBootInv, BlocksResumeTheirThread
<1>4. IInv /\ QuietBootInv /\ [Next]_vars => QuietBootInv'
  BY QuietBootStep
<1>5. Base <=> IInv /\ QuietBootInv /\ CreationInv
  BY DEF Base
<1>6. QED
  BY <1>1, <1>2, <1>3, <1>4, <1>5, Inductive, CreationHolds, PTL DEF CSSpec, Spec

LEMMA StackPointers ==
  /\ Wild \in StackPointer
  /\ \A c \in Context, n \in Nat : At(c, n) \in StackPointer
  /\ \A c, n : At(c, n).stack = c /\ At(c, n).used = n
  /\ \A p, q \in StackPointer : p.stack = q.stack /\ p.used = q.used => p = q
BY DEF Wild, StackPointer, At, Context

LEMMA Parity == \A n \in Nat : n % 2 \in 0 .. 1
BY SMT

(* What each push and pop makes of a stack pointer; in particular what is  *)
(* entered, pushed and popped is left as it was.                           *)
LEMMA PushesAndPops ==
  ASSUME NEW c \in Context, NEW n \in Nat
  PROVE  /\ Enter(At(c, n)) = At(c, n + (n % 2) + 8)
         /\ Push(At(c, n + (n % 2) + 8)) = At(c, n + (n % 2) + 16)
         /\ Pop(At(c, n + (n % 2) + 16)) = At(c, n + (n % 2) + 8)
         /\ Leave(At(c, n + (n % 2) + 8), n % 2) = At(c, n)
         /\ Misaligned(At(c, n)) = n % 2
         /\ n + (n % 2) + 8 \in Nat /\ n + (n % 2) + 16 \in Nat
<1>1. n % 2 \in 0 .. 1
  BY Parity
<1> DEFINE r == n % 2
<1>2. r \in 0 .. 1
  BY <1>1
<1>3. Misaligned(At(c, n)) = r
  BY DEF Misaligned, At
<1>4. Enter(At(c, n)) = At(c, n + r + 8)
  BY <1>3 DEF Enter, At
<1> HIDE DEF r
<1>5. /\ Push(At(c, n + r + 8)) = At(c, n + r + 16)
      /\ Pop(At(c, n + r + 16)) = At(c, n + r + 8)
      /\ Leave(At(c, n + r + 8), r) = At(c, n)
  BY <1>2 DEF Push, Pop, Leave, At
<1>6. QED
  BY <1>2, <1>3, <1>4, <1>5 DEF r

LEMMA InitSwitchInv == CSInit => SwitchInv
<1> SUFFICES ASSUME CSInit PROVE SwitchInv
  OBVIOUS
<1> USE DEF CSInit, Init
<1>1. CSTypeOK
  <2>1. \A t \in Slot : 0 <= OwnMax[t]
    BY StackAssumption
  <2>2. QED
    BY <2>1, StackPointers DEF CSTypeOK, RegFile, Regs, Context
<1>2. Created(thread_count) = {} /\ base = Boot /\ Boot \notin Slot /\ handler = "idle"
  BY ContextAssumption DEF Created
<1>3. Holds(Boot, Wild)
  BY DEF Holds, Regs
<1>4. \A t \in Slot : own[t] = 0
  OBVIOUS
<1>5. QED
  BY <1>1, <1>2, <1>3, <1>4 DEF SwitchInv

(* A step that touches neither registers nor stacks, and neither the       *)
(* context that is on the CPU.                                             *)
LEMMA KeepStep ==
  ASSUME SwitchInv, Keep,
         UNCHANGED <<thread_count, base, current_thread>>,
         handler' # "idle" => handler # "idle",
         handler' = "idle" => handler = "idle",
         handler' = "return" => handler = "return",
         base = Boot => \/ boot' = boot
                        \/ boot \notin {"running", "spin"} /\ boot' # "control"
                           /\ (boot' \in {"svc", "spin"} <=> boot \in {"control", "svc"})
  PROVE  SwitchInv'
BY DEF SwitchInv, Keep, switch, CSTypeOK, InPlace, Holds, Switched

LEMMA BootSwitchStep ==
  ASSUME Base, SwitchInv,
         \/ \E p \in UNION {PrioOf[t] : t \in Slot} : InitStack(p)
         \/ MsrPsp
         \/ Keep /\ \/ kernel_init \/ StartWithoutThreads \/ SetExcPrio \/ SetRunning
                    \/ SetControl \/ SVC \/ BootSpin
  PROVE  SwitchInv'
<1>1. CASE \E p \in UNION {PrioOf[t] : t \in Slot} : InitStack(p)
  <2>1. /\ thread_count' = thread_count + 1 /\ thread_count \in Slot
        /\ base = Boot /\ base' = Boot /\ handler = "idle" /\ handler' = "idle"
        /\ boot = "create" /\ boot' = "create"
        /\ sp' = [sp EXCEPT ![thread_count] = At(thread_count, 16)]
        /\ frame' = [frame EXCEPT ![thread_count] = Regs(thread_count)]
        /\ pad' = [pad EXCEPT ![thread_count] = 0]
        /\ UNCHANGED <<reg, psp, pushed, own>>
    BY <1>1, ThreadsAssumption
       DEF InitStack, thread_create, BootStep, ThreadMode, Base, IInv, TypeOK, Slot
  <2>2. Created(thread_count') = Created(thread_count) \cup {thread_count}
    BY <2>1 DEF Created, Slot
  <2>3. Created(thread_count) \subseteq Slot /\ thread_count \notin Created(thread_count)
    BY <2>1, CreatedIsSlot DEF Base, IInv, Created
  <2>4. CSTypeOK'
    <3>1. At(thread_count, 16) \in StackPointer
      BY <2>1, StackPointers DEF Context
    <3>2. Regs(thread_count) \in RegFile
      BY <2>1 DEF Regs, RegFile, Context
    <3>3. QED
      BY <2>1, <3>1, <3>2 DEF SwitchInv, CSTypeOK
  <2>5. own[thread_count] = 0
    BY <2>1 DEF SwitchInv
  <2>6. \A t \in Created(thread_count') : InPlace(t)'
    <3>1. \A t \in Created(thread_count) : InPlace(t)
      BY <2>1, <2>3, ContextAssumption DEF SwitchInv
    <3>2. \A t \in Created(thread_count) : InPlace(t)'
      BY <2>1, <2>3, <3>1 DEF InPlace, Switched, SwitchInv, CSTypeOK
    <3>3. At(thread_count, 16) = At(thread_count, 0 + (0 % 2) + 16) /\ 0 % 2 = 0
      OBVIOUS
    <3>4. SUFFICES ASSUME NEW t \in Created(thread_count'), t = thread_count PROVE InPlace(t)'
      BY <2>2, <3>2
    <3>5. /\ sp'[t] = At(t, 16) /\ frame'[t] = Regs(t) /\ pad'[t] = 0 /\ own'[t] = 0
      BY <2>1, <2>5, <3>4 DEF SwitchInv, CSTypeOK
    <3>6. QED
      BY <3>3, <3>5 DEF InPlace, Switched, Regs
  <2>7. QED
    BY <2>1, <2>4, <2>5, <2>6, ContextAssumption DEF SwitchInv, Holds
<1>2. CASE MsrPsp
  <2>1. /\ base = Boot /\ base' = Boot /\ handler = "idle" /\ handler' = "idle"
        /\ boot = "running" /\ boot' = "control"
        /\ UNCHANGED <<thread_count, reg, sp, frame, pad, pushed, own>>
        /\ psp' = IF reg.lo = Boot THEN sp[0] ELSE Wild
    BY <1>2 DEF MsrPsp, ClearCurrent, BootStep, ThreadMode
  <2>2. 0 \in Created(thread_count) /\ 0 \in Slot
    BY <2>1, ThreadsAssumption DEF Base, CreationInv, Created, IInv, TypeOK, Slot
  <2>3. sp[0] = Switched(0) /\ reg.lo = Boot /\ reg.hi = Boot
    BY <2>1, <2>2, ContextAssumption DEF SwitchInv, InPlace, Holds
  <2>4. psp' = At(0, 16) /\ psp' \in StackPointer
    <3>1. own[0] = 0
      BY <2>1, <2>2 DEF SwitchInv
    <3>2. 0 + (0 % 2) + 16 = 16
      OBVIOUS
    <3>3. QED
      BY <2>1, <2>2, <2>3, <3>1, <3>2, StackPointers DEF Context, Switched
  <2>5. QED
    BY <2>1, <2>3, <2>4, ContextAssumption DEF SwitchInv, CSTypeOK, InPlace, Switched, Holds
<1>3. CASE Keep /\ \/ kernel_init \/ StartWithoutThreads \/ SetExcPrio \/ SetRunning
                   \/ SetControl \/ SVC \/ BootSpin
  <2>1. /\ base = Boot /\ base' = Boot /\ handler = "idle" /\ handler' = "idle"
        /\ UNCHANGED <<thread_count, current_thread>>
    BY <1>3 DEF kernel_init, StartWithoutThreads, SetExcPrio, SetRunning, SetControl, SVC,
                BootSpin, BootStep, ThreadMode, sched, Base, CreationInv
  <2>2. \/ boot' = boot
        \/ boot \notin {"running", "spin"} /\ boot' # "control"
           /\ (boot' \in {"svc", "spin"} <=> boot \in {"control", "svc"})
    BY <1>3 DEF kernel_init, StartWithoutThreads, SetExcPrio, SetRunning, SetControl, SVC,
                BootSpin, BootStep
  <2>3. QED
    BY <1>3, <2>1, <2>2, KeepStep
<1>4. QED
  BY <1>1, <1>2, <1>3

LEMMA PendSVSwitchStep ==
  ASSUME Base, SwitchInv, SaveContext \/ RestoreContext \/ SwitchReturn
  PROVE  SwitchInv'
<1> USE DEF Base
<1>1. /\ OnPsp /\ boot \in {"svc", "spin"} /\ boot' = boot /\ thread_count' = thread_count
      /\ own' = own
  BY DEF SaveContext, RestoreContext, SwitchReturn, PendSVEntry, Dispatch, PendSVReturn,
         HandlerStep, IInv, BootInv, QuietBootInv, OnPsp, sched
<1>2. Created(thread_count) \subseteq Slot /\ Slot \subseteq Context /\ Boot \notin Slot
      /\ NULL \notin Slot
  BY CreatedIsSlot, ContextAssumption DEF IInv, Context
<1>3. CASE SaveContext
  <2>1. /\ handler = "idle" /\ handler' = "wfi" /\ base' = base
        /\ psp' = Enter(psp) /\ pushed' = reg.r4
    BY <1>1, <1>3 DEF SaveContext, PendSVEntry, HandlerStep, Stacked
  <2>2. CASE base = Boot
    <3>1. current_thread = NULL
      BY <2>1, <2>2 DEF QuietBootInv
    <3>2. UNCHANGED <<sp, frame, pad, reg>>
      BY <1>3, <3>1 DEF SaveContext
    <3>3. psp = At(0, 16) /\ 16 \in Nat /\ 0 \in Context
      BY <1>1, <2>1, <2>2, ThreadsAssumption DEF SwitchInv, Holds, Context, Slot
    <3>4. 16 + (16 % 2) + 8 \in Nat
      OBVIOUS
    <3>5. psp' \in StackPointer
      BY <2>1, <3>3, <3>4, PushesAndPops, StackPointers
    <3>6. CSTypeOK'
      BY <1>1, <2>1, <3>2, <3>5 DEF SwitchInv, CSTypeOK, RegFile
    <3>7. \A t \in Created(thread_count) : InPlace(t)'
      BY <1>1, <1>2, <2>2, <3>2 DEF SwitchInv, InPlace, Switched
    <3>8. QED
      BY <1>1, <2>1, <3>6, <3>7 DEF SwitchInv
  <2>3. CASE base \in Slot
    <3>1. current_thread = base /\ current_thread # NULL /\ base \in Created(thread_count)
      BY <1>2, <2>1, <2>3 DEF IInv, CurrentInv
    <3>2. /\ sp' = [sp EXCEPT ![base] = Push(Enter(psp))]
          /\ pad' = [pad EXCEPT ![base] = Misaligned(psp)]
          /\ frame' = [frame EXCEPT ![base] = reg]
          /\ reg' = [reg EXCEPT !.r4 = Scratch, !.lo = Scratch]
      BY <1>1, <1>3, <3>1 DEF SaveContext, Stacked
    <3>3. reg.lo = base /\ reg.hi = base /\ psp = At(base, own[base])
      BY <2>1, <2>3 DEF SwitchInv, Holds
    <3>4. base \in Context /\ own[base] \in Nat
      BY <1>2, <2>3 DEF SwitchInv, CSTypeOK
    <3>5. /\ Push(Enter(psp)) = Switched(base) /\ Misaligned(psp) = own[base] % 2
          /\ psp' \in StackPointer /\ Switched(base) \in StackPointer
      BY <2>1, <3>3, <3>4, PushesAndPops, StackPointers DEF Switched
    <3>6. own[base] % 2 \in 0 .. 1
      BY <3>4, Parity
    <3>7. CSTypeOK'
      BY <1>1, <2>1, <3>2, <3>5, <3>6 DEF SwitchInv, CSTypeOK, RegFile
    <3>8. \A t \in Created(thread_count) : InPlace(t)'
      <4>1. \A t \in Created(thread_count) : t # base => InPlace(t)'
        BY <1>1, <1>2, <3>2 DEF SwitchInv, CSTypeOK, InPlace, Switched
      <4>2. InPlace(base)'
        BY <1>1, <2>1, <2>3, <3>2, <3>3, <3>5 DEF SwitchInv, CSTypeOK, InPlace, Switched
      <4>3. QED
        BY <2>1, <4>1, <4>2 DEF InPlace, Switched
    <3>9. QED
      BY <1>1, <1>2, <2>1, <2>3, <3>7, <3>8 DEF SwitchInv
  <2>4. QED
    BY <2>2, <2>3 DEF IInv, TypeOK
<1>4. CASE RestoreContext
  <2>1. /\ handler = "woken" /\ handler' = "return" /\ base' = base
        /\ reg' = frame[current_thread'] /\ psp' = Pop(sp[current_thread'])
        /\ UNCHANGED <<sp, frame, pad, pushed>>
    BY <1>4 DEF RestoreContext, Dispatch, HandlerStep
  <2>2. current_thread' \in Created(thread_count) /\ current_thread' \in Slot
    BY <1>4, DispatchPicks DEF RestoreContext, IInv
  <2>3. InPlace(current_thread')
    BY <2>1, <2>2 DEF SwitchInv
  <2>4. current_thread' \in Context /\ own[current_thread'] \in Nat
    BY <1>2, <2>2 DEF SwitchInv, CSTypeOK
  <2>5. psp' = Pop(Switched(current_thread')) /\ psp' \in StackPointer
    BY <2>1, <2>3, <2>4, PushesAndPops, StackPointers DEF InPlace, Switched
  <2>6. CSTypeOK'
    BY <1>1, <2>1, <2>2, <2>5 DEF SwitchInv, CSTypeOK
  <2>7. Holds(current_thread, Pop(Switched(current_thread)))'
    BY <1>1, <2>1, <2>3, <2>5 DEF Holds, InPlace, Switched
  <2>8. \A t \in Created(thread_count) : InPlace(t)'
    BY <1>1, <2>1 DEF SwitchInv, InPlace, Switched
  <2>9. QED
    BY <1>1, <2>1, <2>6, <2>7, <2>8 DEF SwitchInv
<1>5. CASE SwitchReturn
  <2>1. /\ handler = "return" /\ handler' = "idle" /\ base' = resume
        /\ current_thread' = current_thread
        /\ reg' = [reg EXCEPT !.r4 = pushed] /\ psp' = Leave(psp, pad[current_thread])
        /\ UNCHANGED <<sp, frame, pad, pushed>>
    BY <1>1, <1>5 DEF SwitchReturn, PendSVReturn, HandlerStep, sched
  <2>2. resume = current_thread /\ current_thread \in Slot /\ InPlace(current_thread)
    BY <1>2, <2>1 DEF QuietBootInv, IInv, CurrentInv, SwitchInv
  <2>3. reg.lo = current_thread /\ reg.hi = current_thread
        /\ psp = Pop(Switched(current_thread))
    BY <2>1 DEF SwitchInv, Holds
  <2>4. current_thread \in Context /\ own[current_thread] \in Nat
    BY <1>2, <2>2 DEF SwitchInv, CSTypeOK
  <2>5. psp' = At(current_thread, own[current_thread]) /\ psp' \in StackPointer
    BY <2>1, <2>2, <2>3, <2>4, PushesAndPops, StackPointers DEF InPlace, Switched
  <2>6. CSTypeOK' /\ reg'.lo = current_thread /\ reg'.hi = current_thread
    BY <1>1, <2>1, <2>3, <2>5 DEF SwitchInv, CSTypeOK, RegFile
  <2>7. \A t \in Created(thread_count) : InPlace(t)'
    BY <1>1, <2>1 DEF SwitchInv, InPlace, Switched
  <2>8. QED
    BY <1>1, <1>2, <2>1, <2>2, <2>5, <2>6, <2>7 DEF SwitchInv, Holds
<1>6. QED
  BY <1>3, <1>4, <1>5

(* A thread moves its own stack pointer, and touches no other stack.       *)
LEMMA ThreadSwitchStep ==
  ASSUME Base, SwitchInv, NEW t \in Slot, ThreadStacks(t)
  PROVE  SwitchInv'
<1>1. /\ base = t /\ handler = "idle"
      /\ UNCHANGED <<thread_count, base, boot, current_thread, handler>>
  BY DEF ThreadStacks, ThreadNext, Compute, thread_yield, thread_sleep_ms, SetSleeping, ReadIcsr,
         WriteIcsr, ThreadStep
<1>2. PICK n \in 0 .. OwnMax[t] :
        own' = [own EXCEPT ![t] = n] /\ psp' = [psp EXCEPT !.used = @ - own[t] + n]
  BY DEF ThreadStacks
<1>3. UNCHANGED <<reg, sp, frame, pad, pushed>>
  BY DEF ThreadStacks
<1>4. psp = At(t, own[t]) /\ reg.lo = t /\ reg.hi = t
  BY <1>1 DEF SwitchInv, Holds
<1>5. own[t] \in Nat /\ n \in Nat /\ n <= OwnMax[t] /\ t \in Context
  BY <1>2, StackAssumption DEF SwitchInv, CSTypeOK, Context
<1>6. psp' = At(t, n) /\ At(t, n) \in StackPointer /\ own'[t] = n
  BY <1>2, <1>4, <1>5, StackPointers DEF At, SwitchInv, CSTypeOK
<1>7. CSTypeOK'
  BY <1>2, <1>3, <1>5, <1>6 DEF SwitchInv, CSTypeOK
<1>8. \A u \in Created(thread_count) : u # t => InPlace(u)'
  BY <1>1, <1>2, <1>3, CreatedIsSlot DEF SwitchInv, CSTypeOK, InPlace, Switched, Base, IInv
<1>9. QED
  BY <1>1, <1>3, <1>4, <1>6, <1>7, <1>8, ContextAssumption DEF SwitchInv, Holds

LEMMA SwitchStep == Base /\ SwitchInv /\ [CSNext]_csvars => SwitchInv'
<1> SUFFICES ASSUME Base, SwitchInv, [CSNext]_csvars PROVE SwitchInv'
  OBVIOUS
<1>1. CASE Keep /\ \/ SysTick_Handler \/ TickExpires \/ Wfi \/ SchedulerNull
  <2>1. UNCHANGED <<thread_count, base, boot, current_thread>>
    BY <1>1 DEF SysTick_Handler, TickExpires, Wfi, SchedulerNull, HandlerStep, sched, cpu
  <2>2. /\ handler' = "idle" <=> handler = "idle"
        /\ handler' = "return" => handler = "return"
    BY <1>1 DEF SysTick_Handler, TickExpires, Wfi, SchedulerNull, HandlerStep, cpu
  <2>3. QED
    BY <1>1, <2>1, <2>2, KeepStep
<1>2. CASE UNCHANGED csvars
  BY <1>2, KeepStep DEF csvars, vars, sched, cpu, Keep, switch
<1>3. QED
  BY <1>1, <1>2, BootSwitchStep, PendSVSwitchStep, ThreadSwitchStep DEF CSNext

(* Every context is where it should be, at every instruction of the        *)
(* handler.                                                                *)
THEOREM ContextsInPlace == ASSUME ~BootTick PROVE CSSpec => []SwitchInv
BY InitSwitchInv, SwitchStep, BaseHolds, PTL DEF CSSpec

(* Every register, stack pointer and frame keeps its type; in particular   *)
(* no switch takes off more than was put on.                               *)
THEOREM SwitchTypeCorrect == ASSUME ~BootTick PROVE CSSpec => []CSTypeOK
<1>1. SwitchInv => CSTypeOK
  BY DEF SwitchInv
<1>2. QED
  BY <1>1, ContextsInPlace, PTL

(* A thread executes with its own r5-r11.                                  *)
THEOREM HighRegistersKept == ASSUME ~BootTick PROVE CSSpec => []HighRegistersIntact
<1>1. SwitchInv => HighRegistersIntact
  BY DEF SwitchInv, HighRegistersIntact, ThreadMode, Holds
<1>2. QED
  BY <1>1, ContextsInPlace, PTL

(* A thread executes on its own stack, at the depth it was left at.        *)
THEOREM StacksKept == ASSUME ~BootTick PROVE CSSpec => []StackIntact
<1>1. SwitchInv => StackIntact
  BY DEF SwitchInv, StackIntact, ThreadMode, Holds
<1>2. QED
  BY <1>1, ContextsInPlace, PTL

(* Who is switched out has both frames on its own stack.                   *)
THEOREM FramesKept == ASSUME ~BootTick PROVE CSSpec => []FramesInPlace
<1>1. SwitchInv => FramesInPlace
  BY DEF SwitchInv, FramesInPlace, InPlace
<1>2. QED
  BY <1>1, ContextsInPlace, PTL

(* The first exception frame goes below the first thread's frames.         *)
THEOREM BootStackKept == ASSUME ~BootTick PROVE CSSpec => []BootStack
<1>1. SwitchInv => BootStack
  BY DEF SwitchInv, BootStack, ThreadMode, Holds
<1>2. QED
  BY <1>1, ContextsInPlace, PTL

(* What lies no deeper than a stack's need fits it.                        *)
LEMMA ShallowFits ==
  ASSUME NEW t \in Slot, NEW n \in Nat, 4 * n + (StackEnd[t] % 8) <= Needs(t)
  PROVE  Fits(At(t, n))
<1>1. StackEnd[t] \in Nat /\ StackSize[t] \in Nat /\ OwnMax[t] \in Nat
  BY StackAssumption
<1>2. StackEnd[t] % 8 \in 0 .. 7 /\ OwnMax[t] % 2 \in 0 .. 1
  BY <1>1, SMT
<1> DEFINE r == StackEnd[t] % 8
           need == Needs(t)
<1>3. r \in 0 .. 7 /\ 4 * n + r <= need /\ need \in Nat
  BY <1>1, <1>2 DEF Needs, Deepest
<1>4. At(t, n).stack = t /\ At(t, n).used = n
  BY StackPointers
<1>5. Address(At(t, n)) = StackEnd[t] - r - 4 * n
  BY <1>4 DEF Address, Top
<1> HIDE DEF r
<1>6. StackSize[t] >= need => Address(At(t, n)) >= StackEnd[t] - StackSize[t]
  <2> HIDE DEF need
  <2>1. QED
    BY <1>1, <1>3, <1>5
<1>7. QED
  BY <1>4, <1>6 DEF Fits

LEMMA AlignedGrows == \A m, n \in Nat : m <= n => m + (m % 2) <= n + (n % 2)
<1> SUFFICES ASSUME NEW m \in Nat, NEW n \in Nat, m <= n PROVE m + (m % 2) <= n + (n % 2)
  OBVIOUS
<1>1. m % 2 \in 0 .. 1 /\ n % 2 \in 0 .. 1
  BY Parity
<1>2. QED
  BY <1>1

(* A thread's own words, its exception frame and both frames fit, and so   *)
(* do the first thread's frames with another exception's below them.       *)
LEMMA DepthsFit ==
  ASSUME CSTypeOK, NEW t \in Slot
  PROVE  /\ Fits(At(t, own[t]))
         /\ Fits(At(t, own[t] + (own[t] % 2) + 8))
         /\ Fits(At(t, own[t] + (own[t] % 2) + 16))
         /\ t = 0 => Fits(At(t, 16)) /\ Fits(At(t, 24))
<1>1. StackEnd[t] \in Nat /\ StackSize[t] \in Nat /\ OwnMax[t] \in Nat
  BY StackAssumption
<1>2. own[t] \in Nat /\ own[t] <= OwnMax[t]
  BY DEF CSTypeOK
<1>3. StackEnd[t] % 8 \in 0 .. 7 /\ own[t] % 2 \in 0 .. 1 /\ OwnMax[t] % 2 \in 0 .. 1
  BY <1>1, <1>2, SMT
<1>4. own[t] + (own[t] % 2) <= OwnMax[t] + (OwnMax[t] % 2)
  BY <1>1, <1>2, AlignedGrows
<1> DEFINE a == own[t] % 2
           b == OwnMax[t] % 2
           r == StackEnd[t] % 8
<1>5. Needs(t) >= 4 * (OwnMax[t] + b + 16) + r /\ (t = 0 => Needs(t) >= 4 * 24 + r)
  BY <1>1, <1>3 DEF Needs, Deepest
<1> HIDE DEF a, b, r
<1>6. a \in 0 .. 1 /\ b \in 0 .. 1 /\ r \in 0 .. 7 /\ own[t] + a <= OwnMax[t] + b
  BY <1>3, <1>4 DEF a, b, r
<1>7. /\ 4 * own[t] + r <= Needs(t)
      /\ 4 * (own[t] + a + 8) + r <= Needs(t)
      /\ 4 * (own[t] + a + 16) + r <= Needs(t)
      /\ t = 0 => 4 * 16 + r <= Needs(t) /\ 4 * 24 + r <= Needs(t)
  BY <1>1, <1>2, <1>5, <1>6 DEF Needs, Deepest, b, r
<1>8. /\ own[t] \in Nat /\ own[t] + a + 8 \in Nat /\ own[t] + a + 16 \in Nat
      /\ 16 \in Nat /\ 24 \in Nat
  BY <1>2, <1>6
<1>9. QED
  BY <1>7, <1>8, ShallowFits DEF a, r

LEMMA WildFits == Fits(Wild) /\ Enter(Wild).stack \notin Slot
BY SwitchAssumption DEF Fits, Wild, At, Enter

(* Outside the handler, the process stack pointer fits, and so does what   *)
(* an exception would stack; and at the handler's return it fits.          *)
PointerFits ==
  /\ handler \in {"idle", "return"} => Fits(psp)
  /\ handler = "idle" /\ OnPsp => Fits(Enter(psp))

LEMMA PointerAlwaysFits == Base /\ SwitchInv => PointerFits
<1> SUFFICES ASSUME Base, SwitchInv, handler \in {"idle", "return"} PROVE PointerFits
  BY DEF PointerFits
<1> USE DEF Base
<1>1. CASE handler = "return"
  <2>1. current_thread \in Slot /\ psp = Pop(Switched(current_thread))
    BY <1>1, CreatedIsSlot DEF IInv, CurrentInv, SwitchInv, Holds
  <2>2. current_thread \in Context /\ own[current_thread] \in Nat
    BY <2>1 DEF SwitchInv, CSTypeOK, Context
  <2>3. psp = At(current_thread, own[current_thread] + (own[current_thread] % 2) + 8)
    BY <2>1, <2>2, PushesAndPops DEF Switched
  <2>4. QED
    BY <1>1, <2>1, <2>3, DepthsFit DEF SwitchInv, PointerFits
<1>2. CASE handler = "idle" /\ base \in Slot
  <2>1. psp = At(base, own[base]) /\ own[base] \in Nat /\ base \in Context
    BY <1>2 DEF SwitchInv, Holds, CSTypeOK, Context
  <2>2. Enter(psp) = At(base, own[base] + (own[base] % 2) + 8)
    BY <2>1, PushesAndPops
  <2>3. QED
    BY <1>2, <2>1, <2>2, DepthsFit DEF SwitchInv, PointerFits
<1>3. CASE handler = "idle" /\ base = Boot
  <2>1. 0 \in Slot /\ 0 \in Context
    BY ThreadsAssumption DEF Slot, Context
  <2>2. Fits(At(0, 16)) /\ Fits(At(0, 24))
    BY <2>1, DepthsFit DEF SwitchInv
  <2>3. Enter(At(0, 16)) = At(0, 24)
    <3>1. 16 + (16 % 2) + 8 = 24 /\ 16 \in Nat
      OBVIOUS
    <3>2. QED
      BY <2>1, <3>1, PushesAndPops
  <2>4. psp = At(0, 16) \/ (psp = Wild /\ ~OnPsp)
    BY <1>3, ContextAssumption DEF SwitchInv, Holds, OnPsp
  <2>5. QED
    BY <1>3, <2>2, <2>3, <2>4, WildFits DEF PointerFits
<1>4. QED
  BY <1>1, <1>2, <1>3 DEF IInv, TypeOK

LEMMA NeedsStep ==
  ASSUME Base, Base', SwitchInv, PointerFits, PointerFits', StackNeeds, [CSNext]_csvars
  PROVE  StackNeeds'
<1> USE DEF Base
<1>1. handler' \in {"idle", "wfi", "woken", "return"}
  BY DEF IInv, TypeOK
<1>2. Fits(psp')
  <2>1. CASE handler' \in {"idle", "return"}
    BY <2>1 DEF PointerFits, Fits, Address
  <2>2. CASE handler' \in {"wfi", "woken"}
    <3>1. CASE SaveContext
      <4>1. OnPsp /\ handler = "idle" /\ psp' = Enter(psp)
        BY <3>1 DEF SaveContext, PendSVEntry, HandlerStep, IInv, BootInv, QuietBootInv, OnPsp,
                    Stacked
      <4>2. QED
        BY <4>1 DEF PointerFits
    <3>2. CASE ~SaveContext
      <4>1. psp' = psp
        BY <2>2, <3>2 DEF CSNext, InitStack, thread_create, BootStep, ThreadMode, MsrPsp,
             ClearCurrent, RestoreContext, Dispatch, SwitchReturn, PendSVReturn, HandlerStep,
             ThreadStacks, ThreadNext, Compute, thread_yield, thread_sleep_ms, SetSleeping,
             ReadIcsr, WriteIcsr, ThreadStep, Keep, csvars, switch
      <4>2. QED
        BY <4>1 DEF StackNeeds
    <3>3. QED
      BY <3>1, <3>2
  <2>3. QED
    BY <1>1, <2>1, <2>2
<1>3. \A t \in Slot : Fits(sp'[t])
  <2>1. CASE sp' = sp
    BY <2>1 DEF StackNeeds
  <2>2. CASE \E p \in UNION {PrioOf[t] : t \in Slot} : InitStack(p)
    <3>1. /\ thread_count \in Slot /\ base = Boot
          /\ sp' = [sp EXCEPT ![thread_count] = At(thread_count, 16)]
      BY <2>2, ThreadsAssumption
         DEF InitStack, thread_create, BootStep, ThreadMode, IInv, TypeOK, Slot
    <3>2. own[thread_count] = 0 /\ 0 + (0 % 2) + 16 = 16
      BY <3>1 DEF SwitchInv
    <3>3. Fits(At(thread_count, 16))
      BY <3>1, <3>2, DepthsFit DEF SwitchInv
    <3>4. QED
      BY <3>1, <3>3 DEF StackNeeds, SwitchInv, CSTypeOK
  <2>3. CASE SaveContext /\ sp' # sp
    <3>1. handler = "idle" /\ OnPsp /\ current_thread # NULL
      BY <2>3 DEF SaveContext, PendSVEntry, HandlerStep, IInv, BootInv, QuietBootInv, OnPsp
    <3>2. base \in Slot /\ current_thread = base
      BY <3>1 DEF IInv, TypeOK, CurrentInv, QuietBootInv
    <3>3. psp = At(base, own[base]) /\ base \in Context /\ own[base] \in Nat
      BY <3>1, <3>2 DEF SwitchInv, Holds, CSTypeOK, Context
    <3>4. sp' = [sp EXCEPT ![base] = At(base, own[base] + (own[base] % 2) + 16)]
      <4>1. sp' = [sp EXCEPT ![base] = Push(Enter(psp))]
        BY <2>3, <3>1, <3>2 DEF SaveContext, Stacked
      <4>2. Push(Enter(psp)) = At(base, own[base] + (own[base] % 2) + 16)
        BY <3>3, PushesAndPops
      <4>3. QED
        BY <4>1, <4>2
    <3>5. QED
      BY <3>2, <3>4, DepthsFit DEF StackNeeds, SwitchInv, CSTypeOK
  <2>4. CASE \E t \in Slot : ThreadStacks(t)
    BY <2>1, <2>4 DEF ThreadStacks
  <2>5. QED
    BY <2>1, <2>2, <2>3, <2>4
       DEF CSNext, MsrPsp, RestoreContext, SwitchReturn, Keep, csvars, switch
<1>4. (handler = "idle" /\ OnPsp => Fits(Enter(psp)))'
  BY DEF PointerFits, Fits, Address, Enter, Misaligned
<1>5. QED
  BY <1>2, <1>3, <1>4 DEF StackNeeds, Fits, Address

(* A stack with room for its top's alignment, its thread's own words and   *)
(* 16 more, aligned -- 24 at least the first -- is never overrun.          *)
THEOREM StackNeedsBounded == ASSUME ~BootTick PROVE CSSpec => []StackNeeds
<1>1. CSInit => StackNeeds
  <2> SUFFICES ASSUME CSInit PROVE StackNeeds
    OBVIOUS
  <2>1. psp = Wild /\ ~OnPsp /\ \A t \in Slot : sp[t] = Wild
    BY DEF CSInit, Init, OnPsp
  <2>2. QED
    BY <2>1, WildFits DEF StackNeeds
<1>2. Base /\ Base' /\ SwitchInv /\ PointerFits /\ PointerFits' /\ StackNeeds
        /\ [CSNext]_csvars => StackNeeds'
  BY NeedsStep
<1>3. QED
  BY <1>1, <1>2, PointerAlwaysFits, ContextsInPlace, BaseHolds, PTL DEF CSSpec
===============================================================================
