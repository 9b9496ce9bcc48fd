---------------------------------- MODULE Runtime ----------------------------------
(***************************************************************************)
(* From reset to the running kernel, and again after the next reset: what  *)
(* Reset_Handler makes of RAM, the thread table main builds in it, and the *)
(* heap that _sbrk cuts from what is left.  A reset leaves RAM as it was;  *)
(* at power on it holds anything.  RAM is an array of words: .data, .bss,  *)
(* and what is left for the heap, from below, and the main stack, from     *)
(* above down to MSP, which moves with the calls of main.                  *)
(***************************************************************************)
EXTENDS Integers, Sequences

CONSTANTS
  MaxThreads,
  Thread,       \* addresses of control blocks
  Images,       \* the initial values of .data that the linker may have stored
  Noise,        \* what RAM may hold at power on, and what a program may store
  FreeWords,    \* the words between .bss and the end of RAM
  StackWords,   \* bound: those the linker reserves as stack, to which main and the
                \* handlers keep
  HeapUsers,    \* the contexts that call _sbrk: Main, or threads
  Main,
  Increments,   \* the arguments of _sbrk, in words
  MaxResets     \* bound

Target == {"gowin_m1", "m1core"}
Context == Thread \cup {Main}

ASSUME RuntimeAssumption ==
  /\ MaxThreads \in Nat \ {0} /\ FreeWords \in Nat /\ MaxResets \in Nat
  /\ StackWords \in 0 .. FreeWords
  /\ Images \subseteq Seq(Int) /\ Noise \subseteq Int /\ Increments \subseteq Int
  /\ Thread \subseteq Int \ {0} /\ Thread # {}
  /\ Main \notin Thread /\ HeapUsers \subseteq Context

VARIABLES
  target,       \* the board the program was built for
  image,        \* .data as it lies in flash
  ram,
  pc,           \* where Reset_Handler, main or kernel_start is
  r,            \* the register that holds a loop's cursor, or the old thread_count
  msp,          \* the main stack pointer, between two exceptions
  arg,          \* the control block main passes to thread_create
  at, prev, incr, sum,   \* per context, its place in _sbrk, and its locals
  created,      \* history: the threads thread_create returned, in order
  refused,      \* history: those it returned NULL for
  owned,        \* history: how often each word was granted and not given back
  resets        \* bound

sbrkVars == <<at, prev, incr, sum>>
history == <<created, refused, owned>>
vars == <<target, image, ram, pc, r, msp, arg, sbrkVars, history, resets>>

BssWords == MaxThreads + 3
KernelRunning == Len(image)
ThreadCount == Len(image) + 1
Slot(i) == Len(image) + 2 + i
HeapEnd == Len(image) + BssWords - 1
End == Len(image) + BssWords
StackTop == End + FreeWords
StackLimit == StackTop - StackWords
Addr == 0 .. StackTop - 1

Store(a, w) == ram' = [ram EXCEPT ![a] = w]

Forgotten ==
  /\ at = [c \in Context |-> "idle"]
  /\ prev = [c \in Context |-> 0] /\ incr = [c \in Context |-> 0] /\ sum = [c \in Context |-> 0]
  /\ created = <<>> /\ refused = {} /\ owned = [a \in Addr |-> 0]

Init ==
  /\ target \in Target /\ image \in Images
  /\ \E w \in Noise : ram = [a \in Addr |-> w]
  /\ pc = "Reset_Handler" /\ r = 0 /\ msp = StackTop /\ arg = (CHOOSE t \in Thread : TRUE) /\ resets = 0
  /\ Forgotten

-------------------------------------------------------------------------------
(* Reset_Handler: two loops over a section each.  m1core's go up to the    *)
(* end, gowin_m1's down from it.                                           *)
Size(loop) == IF loop = "copy" THEN Len(image) ELSE BssWords
From(loop) == IF loop = "copy" THEN 0 ELSE Len(image)
Word(loop, i) == IF loop = "copy" THEN image[i + 1] ELSE 0
After(loop) == IF loop = "copy" THEN "copied" ELSE "SystemInit"

Startup == UNCHANGED <<target, image, msp, arg, sbrkVars, history, resets>>

Enter(here, loop) ==
  /\ pc = here
  /\ r' = IF target = "m1core" THEN 0 ELSE Size(loop)
  /\ pc' = IF target = "gowin_m1" /\ Size(loop) <= 0 THEN After(loop) ELSE loop
  /\ UNCHANGED ram /\ Startup

EnterCopy == Enter("Reset_Handler", "copy")
EnterClear == Enter("copied", "clear")

(* cmp, bhs, str, adds.                                                    *)
LoopUp(loop) ==
  /\ pc = loop /\ target = "m1core"
  /\ IF r < Size(loop)
       THEN Store(From(loop) + r, Word(loop, r)) /\ r' = r + 1 /\ UNCHANGED pc
       ELSE pc' = After(loop) /\ UNCHANGED <<ram, r>>
  /\ Startup

LoopDown_NotTheFirst(loop) ==
  /\ pc = loop /\ target = "gowin_m1"
  /\ r' = r - 1
  /\ Store(From(loop) + r - 1, Word(loop, r - 1))
  /\ pc' = IF r - 1 > 1 THEN loop ELSE After(loop)
  /\ Startup

LoopDown_OneMore(loop) ==
  /\ pc = loop /\ target = "gowin_m1"
  /\ r' = r - 1
  /\ Store(From(loop) + r - 1, Word(loop, r - 1))
  /\ pc' = IF r - 1 >= 0 THEN loop ELSE After(loop)
  /\ Startup

LoopDown_NoStep(loop) ==
  /\ pc = loop /\ target = "gowin_m1"
  /\ r' = r
  /\ Store(From(loop) + r - 1, Word(loop, r - 1))
  /\ pc' = IF r > 0 THEN loop ELSE After(loop)
  /\ Startup

(* subs, str, bgt.                                                         *)
LoopDown(loop) ==
  /\ pc = loop /\ target = "gowin_m1"
  /\ r' = r - 1
  /\ Store(From(loop) + r - 1, Word(loop, r - 1))
  /\ pc' = IF r - 1 > 0 THEN loop ELSE After(loop)
  /\ Startup

(* SystemCoreClock is the first word of .data here; only gowin_m1's        *)
(* SystemInit stores it, with the value it was initialised with.           *)
SystemInit ==
  /\ pc = "SystemInit" /\ pc' = "main"
  /\ IF target = "gowin_m1" /\ Len(image) > 0 THEN Store(0, image[1]) ELSE UNCHANGED ram
  /\ UNCHANGED r /\ Startup

-------------------------------------------------------------------------------
(* main: kernel_init, thread_create any number of times, kernel_start.     *)
(* _sbrk may be called in between.  The frames of the calls are on the     *)
(* main stack.                                                             *)
InMain(here) ==
  /\ pc = here /\ at[Main] = "idle" /\ msp < StackTop
  /\ UNCHANGED <<target, image, msp, sbrkVars, owned, resets>>

kernel_init ==
  /\ InMain("main") /\ pc' = "create"
  /\ Store(ThreadCount, 0)
  /\ UNCHANGED <<r, arg, created, refused>>

New(t) == \A i \in DOMAIN created : created[i] # t

(* thread_create: NULL in a full table, ...                                *)
TableFull(t) ==
  /\ InMain("create") /\ ram[ThreadCount] >= MaxThreads
  /\ New(t) /\ refused' = refused \cup {t}
  /\ UNCHANGED <<ram, pc, r, arg, created>>

(* ... else, with the old thread_count in a register, ...                  *)
thread_create(t) ==
  /\ InMain("create") /\ ram[ThreadCount] < MaxThreads /\ New(t)
  /\ pc' = "count" /\ r' = ram[ThreadCount] /\ arg' = t
  /\ UNCHANGED <<ram, created, refused>>

(* ... thread_count is stored before (at -O0, as the repository builds) ... *)
StoreCount ==
  /\ InMain("count") /\ pc' = "slot"
  /\ Store(ThreadCount, r + 1)
  /\ UNCHANGED <<r, arg, created, refused>>

StoreSlot_NewCount ==
  /\ InMain("slot") /\ pc' = "create"
  /\ Store(Slot(ram[ThreadCount]), arg) /\ created' = Append(created, arg)
  /\ UNCHANGED <<r, arg, refused>>

(* ... the slot.                                                           *)
StoreSlot ==
  /\ InMain("slot") /\ pc' = "create"
  /\ Store(Slot(r), arg) /\ created' = Append(created, arg)
  /\ UNCHANGED <<r, arg, refused>>

(* kernel_start: with no threads it returns, main returns, _start spins.   *)
kernel_start ==
  /\ InMain("create")
  /\ IF ram[ThreadCount] = 0
       THEN pc' = "spin" /\ UNCHANGED ram
       ELSE pc' = "run" /\ Store(KernelRunning, 1)
  /\ UNCHANGED <<r, arg, created, refused>>

-------------------------------------------------------------------------------
(* _sbrk, access by access to heap_end.  Main calls it before the kernel   *)
(* runs, threads afterwards, and a thread may be preempted in it.          *)
InSbrk(c, here, then) ==
  /\ at[c] = here /\ pc = IF c = Main THEN "create" ELSE "run"
  /\ at' = [at EXCEPT ![c] = then]
  /\ UNCHANGED <<target, image, pc, r, msp, arg, created, refused, resets>>

(* The allocator gives back no more than it holds.  Main's stack holds the *)
(* frame of the call, or that of kernel_start.                             *)
Held == {a \in Addr : owned[a] > 0}

_sbrk(c, n) ==
  /\ c \in HeapUsers /\ msp < StackTop /\ InSbrk(c, "idle", IF ram[HeapEnd] = 0 THEN "first" ELSE "prev")
  /\ n < 0 => \A a \in ram[HeapEnd] + n .. ram[HeapEnd] - 1 : a \in Held
  /\ incr' = [incr EXCEPT ![c] = n]
  /\ UNCHANGED <<ram, prev, sum, owned>>

StartHeap(c) ==
  /\ InSbrk(c, "first", "prev")
  /\ Store(HeapEnd, End)
  /\ UNCHANGED <<prev, incr, sum, owned>>

ReadPrev(c) ==
  /\ InSbrk(c, "prev", "test")
  /\ prev' = [prev EXCEPT ![c] = ram[HeapEnd]]
  /\ UNCHANGED <<ram, incr, sum, owned>>

TestMsp_Old(c) ==
  /\ InSbrk(c, "test", IF prev[c] > msp THEN "idle" ELSE "load")
  /\ UNCHANGED <<ram, prev, incr, sum, owned>>

(* Beyond the MSP of this moment: errno = ENOMEM, and -1 is returned.      *)
TestMsp(c) ==
  /\ InSbrk(c, "test", IF ram[HeapEnd] + incr[c] > msp THEN "idle" ELSE "load")
  /\ UNCHANGED <<ram, prev, incr, sum, owned>>

LoadSum(c) ==
  /\ InSbrk(c, "load", "store")
  /\ sum' = [sum EXCEPT ![c] = ram[HeapEnd] + incr[c]]
  /\ UNCHANGED <<ram, prev, incr, owned>>

(* heap_end is stored and prev_heap_end returned.                          *)
StoreEnd(c) ==
  /\ InSbrk(c, "store", "idle")
  /\ Store(HeapEnd, sum[c])
  /\ owned' = [a \in Addr |->
       IF a \in prev[c] .. prev[c] + incr[c] - 1 THEN owned[a] + 1
       ELSE IF a \in prev[c] + incr[c] .. prev[c] - 1 THEN owned[a] - 1 ELSE owned[a]]
  /\ UNCHANGED <<prev, incr, sum>>

-------------------------------------------------------------------------------
(* The program stores to its variables and to the heap it was given.       *)
Work ==
  /\ pc = "run"
  /\ \E a \in Held \cup 0 .. Len(image) - 1, w \in Noise : Store(a, w)
  /\ UNCHANGED <<target, image, pc, r, msp, arg, sbrkVars, history, resets>>

(* main calls and returns, and does neither inside those of its calls that *)
(* are modelled.  Once threads run, main stays where it called             *)
(* kernel_start.                                                           *)
MainCalls ==
  /\ pc \in {"main", "create"} /\ at[Main] = "idle"
  /\ msp' \in StackLimit .. StackTop
  /\ UNCHANGED <<target, image, ram, pc, r, arg, sbrkVars, history, resets>>

(* What is pushed on the main stack, by main or by the handlers, which     *)
(* leave MSP where they found it.                                          *)
StackStores ==
  /\ pc \in {"main", "create", "count", "slot", "spin", "run"}
  /\ \E a \in StackLimit .. StackTop - 1, w \in Noise : Store(a, w)
  /\ UNCHANGED <<target, image, pc, r, msp, arg, sbrkVars, history, resets>>

(* The reset line, at any moment.  RAM is kept, MSP is loaded anew.        *)
Reset ==
  /\ resets < MaxResets /\ resets' = resets + 1
  /\ pc' = "Reset_Handler" /\ r' = 0 /\ msp' = StackTop
  /\ at' = [c \in Context |-> "idle"]
  /\ prev' = [c \in Context |-> 0] /\ incr' = prev' /\ sum' = prev'
  /\ created' = <<>> /\ refused' = {} /\ owned' = [a \in Addr |-> 0]
  /\ UNCHANGED <<target, image, ram, arg>>

StartupNext ==
  \/ EnterCopy \/ EnterClear \/ SystemInit
  \/ \E loop \in {"copy", "clear"} : LoopUp(loop) \/ LoopDown(loop)

MainNext ==
  \/ kernel_init \/ StoreCount \/ StoreSlot \/ kernel_start
  \/ \E t \in Thread : thread_create(t) \/ TableFull(t)

SbrkNext ==
  \E c \in Context :
    \/ \E n \in Increments : _sbrk(c, n)
    \/ StartHeap(c) \/ ReadPrev(c) \/ TestMsp(c) \/ LoadSum(c) \/ StoreEnd(c)

Next == StartupNext \/ MainNext \/ SbrkNext \/ Work \/ MainCalls \/ StackStores \/ Reset

Spec == Init /\ [][Next]_vars

(* The core executes Reset_Handler.                                        *)
FairSpec == Spec /\ WF_vars(StartupNext)

-------------------------------------------------------------------------------
Places == {"Reset_Handler", "copy", "copied", "clear", "SystemInit", "main",
           "create", "count", "slot", "spin", "run"}

TypeOK ==
  /\ target \in Target /\ image \in Images
  /\ ram \in [Addr -> Int]
  /\ pc \in Places /\ r \in Nat /\ msp \in StackLimit .. StackTop /\ arg \in Thread /\ resets \in Nat
  /\ at \in [Context -> {"idle", "first", "prev", "test", "load", "store"}]
  /\ prev \in [Context -> Int] /\ incr \in [Context -> Int] /\ sum \in [Context -> Int]
  /\ created \in Seq(Thread) /\ refused \in SUBSET Thread
  /\ owned \in [Addr -> Int]

(* crt0.c: "by that point the C environment is ready".  After any reset,   *)
(* main finds .data as linked and .bss zero, whatever RAM held.            *)
MainStartsClean ==
  pc = "main" => /\ \A i \in 1 .. Len(image) : ram[i - 1] = image[i]
                 /\ \A a \in Len(image) .. End - 1 : ram[a] = 0

(* SysTick runs while main creates threads, and scheduler_next follows     *)
(* every pointer below thread_count once kernel_running is set: they are   *)
(* threads of this run, though the count is stored before the pointer.     *)
SchedulerSeesThreads ==
  pc \in {"create", "count", "slot", "run"} /\ ram[KernelRunning] # 0 =>
    \A i \in 0 .. ram[ThreadCount] - 1 : i < Len(created) /\ ram[Slot(i)] = created[i + 1]

(* The table holds exactly the threads thread_create returned, in order,   *)
(* and a thread is refused only when MaxThreads others are in it.          *)
TableAsTold ==
  /\ pc \in {"create", "run"} =>
       /\ ram[ThreadCount] = Len(created)
       /\ \A i \in DOMAIN created : ram[Slot(i - 1)] = created[i]
  /\ refused # {} => Len(created) = MaxThreads
  /\ \A i \in DOMAIN created : created[i] \notin refused

(* Between calls of _sbrk, each word from the end of .bss up to heap_end   *)
(* was given to one block and not given back, no other word was, and none  *)
(* lies beyond RAM: with one caller at a time, wherever MSP was at the     *)
(* calls, across refusals, give-backs and resets.                          *)
HeapExact ==
  pc \in {"create", "count", "slot", "run"} /\ (\A c \in Context : at[c] = "idle") =>
    /\ ram[HeapEnd] <= StackTop
    /\ \A a \in Addr : owned[a] = IF End <= a /\ a < ram[HeapEnd] THEN 1 ELSE 0

(* Every reset is followed by main, once resets stop.                      *)
RestartsComplete == pc = "Reset_Handler" ~> pc = "main"
================================================================================
