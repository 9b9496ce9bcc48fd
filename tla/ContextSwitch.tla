----------------------------- MODULE ContextSwitch -----------------------------
(***************************************************************************)
(* What the switch does with registers and stacks, added to every action   *)
(* of M1Kern.  A register's value is abstracted to the context it belongs  *)
(* to; a stack pointer to the stack it points into and the words in use    *)
(* above it, up to the stack's top.  An exception frame is 8 words, after  *)
(* a word of alignment if SP was not a multiple of 8; the frame of r4-r11  *)
(* that pendsv.S puts below it is 8 words.                                 *)
(***************************************************************************)
EXTENDS M1Kern

CONSTANTS
  Scratch,    \* in a register: the value of no context
  Nowhere,    \* of a stack pointer: the stack of no context
  StackEnd,   \* per slot, the address stack_mem + stack_size, of a uint8_t
  StackSize,  \* per slot, stack_size in bytes
  OwnMax      \* per slot, the most words its thread ever has on its stack itself

ASSUME SwitchAssumption ==
  Scratch \notin Slot \cup {Boot} /\ Nowhere \notin Slot \cup {Boot}
ASSUME StackAssumption ==
  StackEnd \in [Slot -> Nat] /\ StackSize \in [Slot -> Nat] /\ OwnMax \in [Slot -> Nat]

VARIABLES
  reg,     \* whose value r4, r5-r7 (lo) and r8-r11 (hi) hold
  psp,     \* the process stack pointer
  sp,      \* per block, its field sp
  frame,   \* per block, whose r4, lo and hi the frame at its sp holds
  pad,     \* per block, the words of alignment the xPSR above that frame tells of
  pushed,  \* whose r4 the handler pushed on the main stack
  own      \* per slot, the words its thread has on its stack itself

switch == <<reg, psp, sp, frame, pad, pushed, own>>
csvars == <<vars, switch>>

Context == Slot \cup {Boot}
Regs(c) == [r4 |-> c, lo |-> c, hi |-> c]
At(c, n) == [stack |-> c, used |-> n]
Wild == At(Nowhere, 0)                  \* .bss zero, or loaded through a lost r7
Push(p) == [p EXCEPT !.used = @ + 8]
Pop(p) == [p EXCEPT !.used = @ - 8]

(* A stack's top, a multiple of 8, is the word a used of 0 is counted from. *)
Top(t) == StackEnd[t] - (StackEnd[t] % 8)
Address(p) == Top(p.stack) - 4 * p.used

(* Exception entry and return: SP is a multiple of 8 below the frame.      *)
Misaligned(p) == p.used % 2
Enter(p) == [p EXCEPT !.used = @ + Misaligned(p) + 8]
Leave(p, words) == [p EXCEPT !.used = @ - 8 - words]

CSInit ==
  /\ Init
  /\ reg = Regs(Boot)
  /\ psp = Wild
  /\ sp = [t \in Slot |-> Wild]
  /\ frame = [t \in Slot |-> Regs(t)]
  /\ pad = [t \in Slot |-> 0]
  /\ pushed = Boot
  /\ own = [t \in Slot |-> 0]

Keep == UNCHANGED switch

-------------------------------------------------------------------------------
(* init_stack(): from the stack's end, rounded down to 8, an exception     *)
(* frame (its xPSR tells of no alignment) and a frame of r4-r11.           *)
InitStack(p) ==
  /\ thread_create(p)
  /\ sp' = [sp EXCEPT ![thread_count] = At(thread_count, 16)]
  /\ frame' = [frame EXCEPT ![thread_count] = Regs(thread_count)]
  /\ pad' = [pad EXCEPT ![thread_count] = 0]
  /\ UNCHANGED <<reg, psp, pushed, own>>

MsrPsp_AfterPop ==
  /\ ClearCurrent
  /\ psp' = Pop(sp[0])
  /\ UNCHANGED <<reg, sp, frame, pad, pushed, own>>

(* msr psp, first_sp: at -O0 the local is read through r7.                 *)
MsrPsp ==
  /\ ClearCurrent
  /\ psp' = IF reg.lo = Boot THEN sp[0] ELSE Wild
  /\ UNCHANGED <<reg, sp, frame, pad, pushed, own>>

(* The hardware stacks its frame on the stack in use; push {r4, lr}; then, *)
(* unless current_thread is NULL, r4-r11 go below PSP -- r8-r11 by way of  *)
(* r4-r7 -- and the block gets the address.                                *)
Stacked == IF OnPsp THEN Enter(psp) ELSE psp

SaveContext_LowLate ==
  /\ PendSVEntry
  /\ psp' = Stacked
  /\ pushed' = reg.r4
  /\ UNCHANGED own
  /\ IF current_thread = NULL THEN UNCHANGED <<sp, frame, pad, reg>>
     ELSE /\ pad' = [pad EXCEPT ![current_thread] = Misaligned(psp)]
          /\ sp' = [sp EXCEPT ![current_thread] = Push(Stacked)]
          /\ reg' = [reg EXCEPT !.r4 = Scratch, !.lo = Scratch]
          /\ frame' = [frame EXCEPT ![current_thread] = reg']

SaveContext_StoresEnd ==
  /\ PendSVEntry
  /\ psp' = Stacked
  /\ pushed' = reg.r4
  /\ UNCHANGED own
  /\ IF current_thread = NULL THEN UNCHANGED <<sp, frame, pad, reg>>
     ELSE /\ pad' = [pad EXCEPT ![current_thread] = Misaligned(psp)]
          /\ sp' = [sp EXCEPT ![current_thread] = Stacked]
          /\ frame' = [frame EXCEPT ![current_thread] = reg]
          /\ reg' = [reg EXCEPT !.r4 = Scratch, !.lo = Scratch]

SaveContext ==
  /\ PendSVEntry
  /\ psp' = Stacked
  /\ pushed' = reg.r4
  /\ UNCHANGED own
  /\ IF current_thread = NULL THEN UNCHANGED <<sp, frame, pad, reg>>
     ELSE /\ pad' = [pad EXCEPT ![current_thread] = Misaligned(psp)]
          /\ sp' = [sp EXCEPT ![current_thread] = Push(Stacked)]
          /\ frame' = [frame EXCEPT ![current_thread] = reg]
          /\ reg' = [reg EXCEPT !.r4 = Scratch, !.lo = Scratch]

RestoreContext_EarlyPsp ==
  /\ Dispatch
  /\ reg' = frame[current_thread']
  /\ psp' = sp[current_thread']
  /\ UNCHANGED <<sp, frame, pad, pushed, own>>

(* ldm of both halves and msr psp, still masked.                           *)
RestoreContext ==
  /\ Dispatch
  /\ reg' = frame[current_thread']
  /\ psp' = Pop(sp[current_thread'])
  /\ UNCHANGED <<sp, frame, pad, pushed, own>>

SwitchReturn_PopsTwice ==
  /\ PendSVReturn
  /\ reg' = [reg EXCEPT !.r4 = pushed]
  /\ psp' = IF OnPsp THEN Pop(Leave(psp, pad[current_thread])) ELSE psp
  /\ UNCHANGED <<sp, frame, pad, pushed, own>>

(* pop {r4, pc}: r4 becomes what it was on entry, whoever is switched to.  *)
(* The hardware takes off its frame, and the alignment that tells of.      *)
SwitchReturn ==
  /\ PendSVReturn
  /\ reg' = [reg EXCEPT !.r4 = pushed]
  /\ psp' = IF OnPsp THEN Leave(psp, pad[current_thread]) ELSE psp
  /\ UNCHANGED <<sp, frame, pad, pushed, own>>

(* In any step a thread may push or pop words of its own: nothing bounds   *)
(* them but what was written in it.                                        *)
ThreadStacks(t) ==
  /\ ThreadNext(t)
  /\ \E n \in 0 .. OwnMax[t] :
       own' = [own EXCEPT ![t] = n] /\ psp' = [psp EXCEPT !.used = @ - own[t] + n]
  /\ UNCHANGED <<reg, sp, frame, pad, pushed>>

CSNext ==
  \/ \E p \in UNION {PrioOf[t] : t \in Slot} : InitStack(p)
  \/ \E t \in Slot : ThreadStacks(t)
  \/ MsrPsp \/ SaveContext \/ RestoreContext \/ SwitchReturn
  \/ /\ \/ kernel_init \/ StartWithoutThreads \/ SetExcPrio \/ SetRunning \/ SetControl
        \/ SVC \/ BootSpin \/ SysTick_Handler \/ TickExpires \/ Wfi \/ SchedulerNull
     /\ Keep

CSSpec == CSInit /\ [][CSNext]_csvars

-------------------------------------------------------------------------------
StackPointer == [stack : Context \cup {Nowhere}, used : Nat]
RegFile == [r4 : Context \cup {Scratch}, lo : Context \cup {Scratch}, hi : Context \cup {Scratch}]

CSTypeOK ==
  /\ reg \in RegFile
  /\ psp \in StackPointer
  /\ sp \in [Slot -> StackPointer]
  /\ frame \in [Slot -> RegFile]
  /\ pad \in [Slot -> 0 .. 1]
  /\ pushed \in Context \cup {Scratch}
  /\ own \in [Slot -> Nat] /\ \A t \in Slot : own[t] <= OwnMax[t]

(* A thread executes with its own r5-r11, whatever was switched between.   *)
HighRegistersIntact ==
  \A t \in Slot : ThreadMode(t) => reg.lo = t /\ reg.hi = t

(* A thread executes on its own stack, with its own words on it and no     *)
(* others: every switch takes off exactly what it put on.                  *)
StackIntact == \A t \in Slot : ThreadMode(t) => psp = At(t, own[t])

(* A thread that is switched out, or has not run yet, has both its frames  *)
(* on its own stack, below its own words and the word that aligns them.    *)
Switched(t) == At(t, own[t] + (own[t] % 2) + 16)
FramesInPlace ==
  \A t \in Created(thread_count) : base # t => sp[t] = Switched(t) /\ frame[t].hi = t

(* THREAD_STACK(name, size) is given any size, and init_stack() believes   *)
(* it and aligns the top.  A stack with the bytes that loses and room for  *)
(* its thread's own words, aligned, and 16 more -- 24 at least in the      *)
(* first thread's, on which the svc of kernel_start is stacked too -- is   *)
(* never written below its start, whatever is stacked whenever.            *)
Deepest(t) == OwnMax[t] + (OwnMax[t] % 2) + 16
Needs(t) == 4 * (IF t = 0 /\ Deepest(t) < 24 THEN 24 ELSE Deepest(t)) + (StackEnd[t] % 8)
Fits(p) ==
  p.stack \in Slot /\ StackSize[p.stack] >= Needs(p.stack) =>
    Address(p) >= StackEnd[p.stack] - StackSize[p.stack]

StackNeeds ==
  /\ Fits(psp) /\ \A t \in Slot : Fits(sp[t])
  /\ handler = "idle" /\ OnPsp => Fits(Enter(psp))    \* SysTick's frame

(* kernel.c on msr psp: "PSP = first thread stack".  The svc stacks below  *)
(* the first thread's initial frames, not over them or anywhere else.      *)
BootStack == ThreadMode(Boot) /\ boot = "svc" => psp = At(0, 16)

(* The inductive invariant behind these five: where the registers and the  *)
(* stack pointer of the context that is on the CPU are, and everyone       *)
(* else's frames.                                                          *)
InPlace(t) ==
  sp[t] = Switched(t) /\ pad[t] = own[t] % 2 /\ frame[t].lo = t /\ frame[t].hi = t
Holds(c, p) == reg.lo = c /\ reg.hi = c /\ psp = p

SwitchInv ==
  /\ CSTypeOK
  /\ \A t \in Created(thread_count) : base # t \/ handler # "idle" => InPlace(t)
  /\ base \in Slot /\ handler = "idle" => Holds(base, At(base, own[base]))
  /\ handler = "return" => Holds(current_thread, Pop(Switched(current_thread)))
  /\ base = Boot => \A t \in Slot : own[t] = 0
  /\ base = Boot /\ handler = "idle" =>
       Holds(Boot, IF boot \in {"control", "svc", "spin"} THEN At(0, 16) ELSE Wild)

(* pendsv.S: r4-r11 are "callee-saved registers", which "we must           *)
(* save/restore manually across context switches": so must r4.             *)
R4Intact == \A t \in Slot : ThreadMode(t) => reg.r4 = t
===============================================================================
