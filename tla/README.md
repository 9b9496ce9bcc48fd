# Verification of m1kern

m1kern is a preemptive kernel of about 300 lines for a single Cortex-M1: static
threads, strict priority with round robin among equals, a 1 ms SysTick, and a
context switch in PendSV. This directory holds TLA+ models of it, TLC runs, and
TLAPS proofs. Line numbers below are those of the repository.

## 1. Inventory

| part | source | state | operations | what makes it correct |
|---|---|---|---|---|
| scheduler | `kernel/src/kernel.c` 84-119 | `threads[]`, `thread_count`, `last_thd_idx`, each block's `state`, `wake_time`, `priority` | `scheduler_next` | picks a ready thread of the highest priority, in rotation; wakes exactly the due sleepers |
| thread API | `kernel.c` 58-80, 121-139 | control blocks | `thread_create`, `thread_yield`, `thread_sleep_ms` | a sleep lasts, a wake-up is not missed, the block marked is the caller's |
| boot | `kernel.c` 53-56, 141-167 | `kernel_running`, `current_thread`, CONTROL, PSP | `kernel_init`, `kernel_start` | the first switch is the svc's, into the first thread |
| context switch | `kernel/src/pendsv.S`, `init_stack` | registers, PSP, MSP, `thread->sp`, the threads' stacks | PendSV handler | a thread gets back every register and its stack |
| tick and exceptions | `targets/*/src/target.c`, `m1kern_target.h` | `system_time_ms`, ICSR, SHP | `SysTick_Handler`, `SVC_Handler`, `m1kern_target_pend_switch`, `..._set_exc_prio`, `..._tick_init` | no tick lost or doubled; a tick always reaches the scheduler |
| LEDs and GPIO | `targets/*/src/board.c`, `bsp/drivers` | DATAOUT, OUTENSET, INTENSET... | `led_toggle`, `GPIO_*` | a toggle by one thread does not undo another's |
| console and UART | `targets/*/src/console.c`, UART drivers | UART STATE, DATA | `console_printf`, `console_hexdump`, `UART_Init`, `UART_SendChar` | the line says what was meant; nothing lost of one printer, nothing reordered of several |
| C runtime | startup `*.S`, `crt0.c`, `syscalls.c` | `.data`, `.bss`, heap end | `Reset_Handler`, `SystemInit`, `_start`, `_sbrk` | memory initialised before `main`, whatever the last run left; the heap is cut exactly, and where the stack does not come |
| CMSIS, vector tables, linker scripts, examples | `targets/common/core`, `startup`, `linker`, `examples` | | | vendor code or data; the examples are the applications the models' constants stand for |

How they interact: threads call the API, which sets fields of the control block
and pends PendSV through ICSR; SysTick preempts everything, advances
`system_time_ms` and pends PendSV; PendSV, at the lowest priority, saves
`current_thread`, asks `scheduler_next()` and restores its answer. There are no
locks; PRIMASK is set in two stretches of PendSV only, so a tick can fall
between any two instructions elsewhere -- including inside `kernel_start`, inside
`thread_sleep_ms` and inside PendSV around its `wfi`. Threads share the LED port, the
UART and the heap with nothing but luck between them. A reset keeps RAM; what of the last run is
still there is for `Reset_Handler` to clear.

## 2. Modules

| module | what it is | extends |
|---|---|---|
| `Scheduler` | `scheduler_next()` as operators on sets: `Expired`, `Awake`, `Ready`, `TopReady`, `NextInTurn` | |
| `SchedulerLoops` | the three loops as written, under a caller that finds the threads in any states | `Scheduler` |
| `Recursion` | induction, and functions defined by recursion, as theorems about sets and functions | |
| `SchedulerProofs` | lemmas: what `Scheduler` picks, for any number of threads | `Scheduler`, `Recursion` |
| `SchedulerLoopsProofs` | the loops compute `Scheduler`'s sets; rotation makes progress | `SchedulerLoops`, `SchedulerProofs` |
| `M1Kern` | the kernel: boot context, threads, SysTick, SVC, PendSV | `Scheduler` |
| `IdealKernel` | what the kernel promises, without exceptions, pending bits, switches or calls in several steps | |
| `KernelRefinement` | `M1Kern`'s variables as `IdealKernel`'s: `ImplementsIdeal` | `M1Kern` |
| `MCM1Kern` | instances for TLC | `KernelRefinement` |
| `M1KernProofs` | theorems about `M1Kern`; that it implements `IdealKernel`, and what follows from that | `KernelRefinement`, `SchedulerProofs` |
| `ContextSwitch` | registers, PSP, frames: variables added to `M1Kern`'s actions | `M1Kern` |
| `MCContextSwitch`, `ContextSwitchProofs` | instances; theorems | `ContextSwitch`, `M1KernProofs` |
| `Leds` | the LED functions of both boards, access by access | |
| `MCLeds`, `LedsProofs` | instances; theorems | `Leds` |
| `ConsoleText` | the formatting functions, loop by loop, as functions from values to character codes; and by position what they should give | |
| `Console` | `console_printf` and `console_hexdump` called by threads, `UART_SendChar` access by access, the UART's buffer and shift register | `ConsoleText` |
| `MCConsole`, `ConsoleProofs` | instances; theorems | `Console`, `Recursion` |
| `Runtime` | reset, `Reset_Handler`'s loops word by word, `main`'s stores to the thread table, `_sbrk` | |
| `MCRuntime`, `RuntimeProofs` | instance; theorems | `Runtime` |

A definition named `X_Something` is a slip of `X` (a dropped assignment, an
off-by-one) kept beside it: with `X` replaced by it, the property PROJECT.json
names must fail. It is no part of the model.

### State and actions of `M1Kern`

- A thread is its slot in `threads[]`. `state`, `wake_time`, `priority` are the
  fields of the control blocks; `thread_count`, `last_thd_idx`,
  `current_thread`, `kernel_running`, `system_time_ms` are the code's variables.
- `shp`, `pendSV`, `pendST` are what the kernel uses of the NVIC: two
  exception priorities and two pending bits.
- `base` is the context thread mode executes: a thread, or `Boot` (main).
  `boot` is a program counter in main and `kernel_start`, `tpc` one in each thread's
  kernel calls, `handler` one in `PendSV_Handler`. SysTick and SVC run to the
  end once taken (nothing has a higher priority), so they are one action each.
- `saved[b]` is the context whose registers PendSV put in block `b`; `resume`
  is the one it restored last. They differ from the block's own thread only if
  the wrong context was saved.
- `sinceTick`, `ticks`, `left` are history: they time the tick, count its
  expiries, and count for each sleep the ticks it still has to last.

`thread_sleep_ms` is `thread_sleep_ms` (store of `wake_time`), `SetSleeping`
(store of `state`) and then, as `thread_yield`, `ReadIcsr` and `WriteIcsr`: a tick can
come between any two. `PendSV_Handler` is `PendSVEntry` (masked: save), `Wfi`, then
masked `SchedulerNull` or `Dispatch` (the call of the scheduler), and
`PendSVReturn`. The stores of `kernel_start` are one action each. `ThreadMode(c)`
says that context `c` executes an instruction: it is current, no handler is active
and no exception is pending that would be taken first.

The constants are the application and the hardware: how many threads of which
priorities (`PrioOf`), which of them sleep how long (`Delays`) or yield
(`Yields`), how fast the tick is (`MinSteps`), whether `wfi` suspends the core
(`WfiBlocks`; on a Cortex-M1 it is a hint), whether a load of ICSR can see a tick that is
then taken before the store (`LateTick`), and whether a tick may fall into
`kernel_start` (`BootTick`).

### `ContextSwitch`

A register holds the name of the context its value belongs to; a stack pointer the
stack it points into and the words in use below that stack's top (`Top`: `stack_mem + stack_size`, rounded
down to 8 as `init_stack` does). Every action of `M1Kern` that touches neither is conjoined with `Keep`; `InitStack`, `MsrPsp`,
`SaveContext`, `RestoreContext` and `SwitchReturn` conjoin the other five with what the
code does to them. r4 is kept apart from r5-r7 because the handler pushes it. `Enter` and `Leave` are the hardware's
entry and return: eight words, and a ninth if SP was not a multiple of 8 (`pad` is what the stacked xPSR tells of it).
`own` is what a thread has on its stack itself: it pushes and pops between any two steps (`ThreadStacks`), up to
`OwnMax`. `StackEnd` and `StackSize` are what `THREAD_STACK` was given, of any alignment and size.

### `Leds`

Every access to the port register is an action; threads interleave freely, which
is what a tick between any two instructions allows threads of one priority. The
board is chosen once, in `Init`. `asked` is history: what each LED's thread
last asked for.

### `IdealKernel` and `KernelRefinement`

In the ideal kernel the core belongs to a thread or to the kernel (`run`), and each call, tick and choice is
one step: a tick or a call takes the core from its thread, `Choose` gives it to a thread of the highest priority among those
awake or due -- not to the one that had its turn last, if there is another. `KernelRefinement` says
when `M1Kern`'s current thread has the core in that sense (`HasCore`): from the scheduler's choice until
PendSV is pended again or it has marked itself sleeping. `thread_create`, `SetRunning`, `SysTick_Handler`,
`SetSleeping`, `WriteIcsr` and `Dispatch` are then `Create`, `Start`, `Tick`, `Sleep`, `Yield` and
`Choose`; everything else is a stutter. That is where the design could go wrong: a due
thread chosen from a stale clock, a sleeper picked, a tick forgotten between the choice and the thread.

### `Console`

`Text` is what a call passes to `putch`; `Call` starts sending it, `Poll` is the read of STATE
that ends the wait, `WriteData` the store to DATA. `Load` and `Transmit` are the UART (the CMSDK one,
modelled from the flags the drivers test). A store into a full buffer loses either character and sets
TXOR, which no code reads. `wire`, `called`, `handed` and `lost` are history: what was transmitted, each
thread's calls, the characters these had to send, and the places among them of those an overrun took. Strings are sequences of
codes; integers have `IntBits` bits. A double is a number of parts, `Unit` of which make 1: for a power of two up to 2^49
`print_float`'s arithmetic is exact on these, and cuts off what three decimals do not show (`Decimals`). A printer
may make its calls at any time; `SomeSends` is a step of whichever printer can get on.

### `Runtime`

RAM is an array of words: `.data`, `.bss` (in it `kernel_running`, `thread_count`, `threads[]` and `heap_end`),
and `FreeWords` that the heap takes from below and the main stack from above. `msp` is the main stack pointer between
two exceptions: `MainCalls` moves it with main's calls and returns, `StackStores` are stores to the stack by main and
by the handlers, which push below `msp` and return it. `EnterCopy`, `EnterClear`, `LoopUp` (m1core) and `LoopDown` (gowin_m1) are
`Reset_Handler`; `kernel_init`, `thread_create` with its two stores in the order -O0 gives them (the build's
optimisation level), and `kernel_start` are what main does to the table. `_sbrk` is a step per access to `heap_end`:
`_sbrk` (its first test), `StartHeap`, `ReadPrev`, `TestMsp` (against the `msp` of that moment), `LoadSum`, `StoreEnd`. `Work` is the
application's stores to its variables and to the heap it was given. `Reset` may come at any
moment, and keeps RAM. The order of variables within `.bss`, and the thread stacks there, are abstracted.

## 3. Runs

| run | instance | shows |
|---|---|---|
| `kern_safety` | 2 threads of priorities 1 or 2, sleeps of 0-2 ticks and yields, 7 ticks at any distance of 2 steps or more, also in `kernel_start` | strict priority, no missed and no early wake-up, no sleeper runs, `current_thread` right, no tick lost or doubled, `IInv`; `M1Kern` implements `IdealKernel` |
| `kern_live` | 2 threads of priorities 1 or 2, sleeps of 1 tick and yields, time modulo 4 and endless ticks, at least 6 steps apart and none in `kernel_start`, with fairness | sleepers wake; top threads are dispatched for ever; one alone at the top runs; spinners share the core |
| `scheduler_loops` | up to 3 threads, every state, priority, wake time, time and cursor | the loops compute the sets; rotation makes progress |
| `switch_safety` | 3 equal threads, one sleeps, one yields, one spins, 7 ticks, any number of yields, and loads of ICSR that see a tick which is taken before the store; they push up to 1, 1 and 2 words on stacks of exactly the bytes `Needs` says, two of them with unaligned ends | r5-r11, the stack and its depth survive every switch; no stack is written below its start; blocks resume their threads; ticks are doubled at worst, not lost |
| `leds` | 3 LEDs, 2 threads, both boards, gowin with one of the threads | LEDs as asked |
| `console` | one thread that prints any number of 9 bits, mixed formats and dumps, or three that print `-1` at once, or two that print twice each; both targets | the line says what was meant; a lone printer loses nothing; streams stay in order, lacking only what overruns took; calls return |
| `runtime` | table of 2 for 3 threads, `.data` of 0 or 1 word, 3 free words of which the main stack may take 2, 1 reset anywhere, both targets | `main` starts clean, the scheduler finds threads where it looks, the table is as told, the words below `heap_end` are those granted; every reset is followed by `main` |
| `kern_sleep_wrap`, `kern_monitor`, `kern_boot_lost`, `switch_r4`, `leds_blink` | | section 5 |

**Bounds.** `MaxThreads` 2 or 3: two threads give every relation of priorities; three
give a rotation and a thread between two others. `TimeMod` stands for 2^32, so
that time wraps (4) or never does (16 with `Horizon` 8, also if every tick is doubled). `MinSteps` is the least number of steps
of the core between two ticks. One switch is four steps of the model, and
`targets/README.md` 56-59 says the tick period has to exceed a switch, so the live
runs take 6 and `kern_monitor` 16, in which a switch, a monitor's round and a
second switch all fit. `kern_safety` takes 2: ticks so dense that they hit every
combination of instructions. In `switch_safety` no tick falls into `kernel_start`'s
window (`BootTick` FALSE); `kern_boot_lost` shows why that is assumed. Its stacks have no byte to spare, with and
without a word of alignment, and the first thread's pushes are too few for its depth to exceed the 24 words of the svc. `console`: 9 bits
give three decimal and three hexadecimal digits, paddings range over 0-9 and dumps end before,
at and after the end of a row; doubles are sixteenths (`Unit` 16) from -2 1/16 to 2 1/16, of which every odd one has a fourth
decimal to cut off. `MaxCalls` is per program: one call of each of three threads, two characters long, gives every overrun,
also of a character that was itself waiting; two calls of each of two threads let one fill the buffer again, in a call begun
while the other still polls. `runtime`: RAM holds all zeros or all ones at power on, and after the reset whatever
the first run left, so every word is stale in some behaviour; requests are of 2 and of -1 words, so that
the heap is refused, filled and given back; main and one thread call `_sbrk`.

**Fairness.** `FairSpec` asks for weak fairness of the core's steps and of the tick, that is:
the core executes and SysTick counts. Nothing is assumed of the scheduler or of a
thread; a thread may spin for ever. `Console` assumes that the UART transmits, and that if some printer can get on with its
call, one does (`SomeSends`): the core executes the thread that the scheduler chose. Which one is left open, for strict priority
promises a preempted printer nothing while others print; a printer returns because these finish their calls, which are finitely
many. Where a more urgent thread spins outside its calls (03_priority) nothing is claimed: the printers there
are not chosen, and stop. `Runtime` assumes that the
core executes `Reset_Handler`.

**What liveness says.** `TopDispatched` and `SpinnersShareCPU` are stated of
threads that from some point on stay ready; their antecedents are met by
behaviours of the instance in which the threads stop sleeping or yielding.
`EqualsShareCPU` asks the same of spinning equals whatever other threads do, and fails (section 5).

## 4. Proofs

`tlapm` checks the following for every value of the constants. 30 of the 37 properties of passing runs
are proved; the other seven are at the end of this section.

**Tools of the trade: `Recursion`.** Induction theorems that take an operator cannot be instantiated
here, so induction is stated of a set: `Induction` (a set with 0 and successors holds every natural number)
and `InductionBySize`, both from `LeastNatural`, which is the well-foundedness of the naturals. A recursive function
`f[x \in S] == ...` is a CHOOSE; `PrimitiveRecursion` and `LinearRecursion` say that some function satisfies the
equation -- by a step per number, or by one call on an argument of smaller size -- so that the CHOOSE does. Everything
recursive below is unfolded with these two and argued about with `Induction`.

**Scheduler.**

- `SchedulerProofs`: a ready thread of the highest priority exists if any is ready (`TopReadyExists`);
  the third loop returns the first candidate in turn (`NextInTurnIsFirst`); a candidate passed over is
  strictly nearer its turn, which is at most n - 1 calls away (`PassedOver`); the first loop leaves no due sleeper.
- `SchedulerLoopsProofs`: `LoopsComputeSets` (`LoopsMatchSets`) and `RotationProgresses` (`PassedOverIsNearer`). Each loop
  has its invariant, proved by induction on the iterations: after i of them the first i
  sleepers that are due are awake; the highest priority so far is that of one of the first i ready threads, or 0; the
  pick is the first of the i candidates looked at, or NULL. That is what allows `M1Kern` to use the sets.

**Kernel.** `M1KernProofs`:

- `IInv` is inductive (`Inductive`). `StrictPriority` alone is
  not: a thread executes long after it was picked. What carries it is that in
  between nobody is made ready (`PickInv`), that a sleeper that becomes due has a
  scheduler call to come (`WakeInv`), and that the running thread is the one
  picked (`CurrentInv`), which in turn need the order of boot (`BootInv`), what blocks hold
  (`SavedInv`) and that a sleeper is on its way to its switch
  (`SleepInv`). From it: `TypeCorrect`, `CurrentIsRunning`, `WakeUpsArrive`,
  `SleepersStop`, `PriorityIsStrict`. These hold also with `BootTick`,
  `LateTick`, `WfiBlocks` TRUE, ticks at any distance and time wrapping.
- `BlocksKeepTheirThread`, assuming no tick in `kernel_start` (`~BootTick`), with `QuietBootInv`:
  until the first dispatch `current_thread` is NULL, so the boot context is saved nowhere.
- `TicksCounted`, assuming `~LateTick` and two steps between ticks, with `TickInv`: a tick
  waits at most for the masked call of the scheduler.
- `SleepsLast`, assuming `~LateTick` and that no wake time wraps (`NoWrap`), with `LeftInv`:
  what `system_time_ms` lacks to a `wake_time` is at least the ticks still owed to the sleeper.
- `KernelImplementsIdeal`, for any threads and ticks, also in `kernel_start`. It rests on
  `IInv` (`PickInv`: the last choice is still right; `WakeInv`) and on `CreationInv`.
  `CoreBelongsToTheTop` is what follows for `M1Kern` from
  the ideal kernel's own invariant: "higher value wins, always" of m1kern.h.

**Context switch.** `ContextSwitchProofs`, assuming `~BootTick`: `SwitchInv` is inductive (`ContextsInPlace`): the context on the CPU has its registers and its
stack pointer, everyone else both frames in place. From it `HighRegistersKept`, `StacksKept`,
`FramesKept`, `BootStackKept`, `SwitchTypeCorrect`, and `StackNeedsBounded`, for stacks of any end, alignment and size and
threads that push any number of words: a stack is never written below its start if it has `Needs` bytes -- the up to 7 that
aligning its end loses, and the words of its thread, rounded up to an even number for the alignment of a frame, and 16 more; in the first
thread's stack 24 at least, since the svc of `kernel_start` is stacked below the two frames of a thread that has not run.

**LEDs.** `LedsProofs`: `LedsIndependent`, for m1core with any threads and for gowin_m1 with one
(`OneRewrites`), with `CallInv`: how far each call has come.

**Console.** `ConsoleProofs`, for every width of int, set of threads and programs. The one assumption on the programs is
that calls are well typed (`CallsAssumption`: `%d` gets an int, `%s` a string without NUL, ..., which C leaves to
the caller); `Main` is no thread (`MainAssumption`).

- The texts. The loops of `print_hex`, `print_number_u`, `print_number`, `print_float` and `console_printf` are unfolded by
  recursion on what they divide or walk through, and shown to give the numerals `Meaning` asks for: `HexSays`, `UnsignedSays`,
  `NumberSays`, `FloatPrints` per conversion (`ThousandthsSay`: the loop of `print_float` gives the first three
decimals of what is cut off), `PrintfPrints` and `PrintedMeans` for a format of any length, `DumpReads` for a dump of any length. `TextType` says they
  give bytes, `TextMeans` what they mean. `print_number(INT_MIN)` and dumps longer than their four-digit offsets are excluded by `Printable`,
  not from the programs: the run prints INT_MIN, and types and order hold of it too; what it prints is in section 5.
- The stream. `StreamsInOrder` is not inductive: it does not say what a store will put into the buffer, nor that the
  character an overrun takes is the last one of its thread there. `StreamInv` adds, for each thread (`Stream`), that what it has still to send
  is the end of what it handed over; that on the line and in the shift register is the rest, without the lost
  characters and the one that is in the buffer (`Kept`, `Pending`); and, for `PrintsItsMeaning`, that
  a thread's first call handed over its text (`Handed`). TLC agreed with `StreamInv` on the
  instance of run `console` before it was proved. From it: `ConsoleTypes`, `StreamsStayInOrder`.
- `LonePrinterIsSafe`, with `LoneInv`: whoever is between poll and store found the buffer empty, and nobody else
  can have filled it. With `StreamInv` and the texts: `PrintsItsMeaning`.

**C runtime.** `RuntimeProofs`, for any sections, table, heap, RAM content and resets, with one caller of `_sbrk` at a time
(`OneCaller`; main before the kernel runs, then one thread): `StartsClean`, `SchedulerIsSafe`, `TableIsAsTold`, `HeapIsExact`, `TypeCorrect`. The
inductive invariant says what each loop has stored so far (`LoopInv`), that no thread runs while the
table is built (`TableInv`), and what the words of heap and the locals of a call of `_sbrk` are (`HeapInv`). `HeapIsExact` says
nothing of the stack but what `_sbrk` guards: the sum was not beyond the `msp` of the call, so not beyond RAM; `StackStores`
disturbs none of it, since the table and `heap_end` lie below the stack. That blocks lie below the stack is false
(section 5).

**Only model-checked:** liveness under fairness, which is out of the prover's reach: `SleepersWake`, `TopDispatched`, `AloneRuns`,
`SpinnersShareCPU`, `CallsReturn`, `RestartsComplete`. Of the others only `NoTickLost`, which is
stated of times before the wrap: that time stays below it, doubled ticks included, is the instance's doing. Every other safety and action property of a passing run is proved.

## 5. Where the code and its text disagree

| run | what happens |
|---|---|
| `switch_r4` | `pop {r4, pc}` at the end of the handler overwrites the r4 just restored with the r4 pushed on entry: a switched-in thread gets the r4 of the thread switched out |
| `kern_boot_lost` | a tick between `current_thread = NULL` and `msr CONTROL` dispatches a thread before the svc; the svc's PendSV then saves the boot context into that thread's block, and the thread is lost |
| `kern_sleep_wrap` | a sleep whose `wake_time` wraps past 2^32 ends at once |
| `kern_monitor` | one cursor serves all priorities: a more urgent thread that wakes periodically sets it back, and one of two spinning equals never runs |
| `leds_blink` | `DATAOUT` is rewritten from a stale read: a toggle of one thread undoes another's on gowin_m1 |

`kern_monitor` needs the monitor to wake at the same phase of the rotation each
time; with other periods the shares are uneven, not zero. Others were met that have no run:

- among equals the thread entered first is `threads[1]`, not the first created (`last_thd_idx`
  starts at 0 and the scan one after it, against "switch into the first thread");
- a sleep of ms lasts up to one tick less than ms milliseconds (`SleepAtLeastTicks` counts ticks);
- if a load of ICSR could see PENDSTSET and the tick be taken before the store, the store would pend the
  tick again (`m1kern_target.h:36`). `switch_safety` shows what survives that, and the proofs of `IInv` and `ImplementsIdeal` cover it; the other runs assume that the core takes a
  pending tick before a thread can load it (`LateTick` FALSE), the proofs say where they do;
- console.c:132 says "supports %d %u %s %c %x %X %f %% with optional zero padding (%08X)", but a padding is read and then ignored
  by every conversion other than `%x` and `%X`, and only one digit is read. `Meaning` is what the code gives;
- PendSV executes `wfi` whenever it is entered, before it asks the scheduler (`pendsv.S:91`); usage.md:54 says it parks "when
  nothing is ready". On a core whose `wfi` suspends, the tick that ends it pends PendSV again, and a thread that is alone and
  ready never executes: with `WfiBlocks` TRUE, `AloneRuns` fails. A Cortex-M1 takes `wfi` as a hint, which hides it;
- `print_number` negates its argument (`console.c:57`), and -INT_MIN is INT_MIN again (at -O0; in C it is undefined): the line shows
  two signs and a wrong last digit;
- `_sbrk` compares with the main stack pointer of the moment (`syscalls.c:56`) and so grants words of the stack that the linker script
  reserves: in `Runtime` a granted word is at or above `msp` as soon as main calls deeper, and an exception stores into it at once;
- a format that ends inside a conversion is read past its terminator;
- `syscalls.c:12` says of `_end` "provided by the linker script"; none of the three defines it (they define `end` and
  `__end__`). `Runtime` takes it for `end`;
- two threads that print at once lose characters (02_sleep does): `StreamsInOrder` says which.

## 6. Not modelled

- CMSIS (`targets/common/core`) and the device headers, more than half of the repository's lines: declarations,
  intrinsics and register layouts of other vendors, in five compilers' variants, with no behaviour of
  their own beyond the registers the models have.
- The vendor drivers' functions that nothing calls: of `GOWIN_M1_gpio.c` all but `GPIO_Init`, of
  `GOWIN_M1_uart.c` all but `UART_Init` and `UART_SendChar`, `GOWIN_M1_misc.c`. They are third-party code; whether their
  read-modify-writes may be called by threads is a question no caller here poses.
- `HardFault_Handler` (logs and spins), logging, the baud rate divisor.
- `thread_create` by running threads: usage.md:30 has threads registered before `kernel_start`, and no
  example does otherwise.
- What a thread's own calls push: `StackNeeds` is stated for any number of words; how many they are, and that a given `THREAD_STACK`
  has room, depends on the application and the compiler.
- Two callers of `_sbrk` at once: nothing in the repository allocates from a thread.
- Doubles finer than 2^-49, of which `print_float`'s multiplications round.
- The copy and clear loops over tables of sections, which the build does not select.
- Register values other than whose they are, and what threads compute, are abstracted.

## 7. Plan

Done: the modules and proofs above. What could follow:

1. the steps the liveness properties rest on, as action properties with proofs: a number that each dispatch brings a thread
   nearer its turn (`PassedOverIsNearer` has it for the scheduler alone), the characters a call still
   has to send, the words a startup loop still has to store;
2. the refinement of `StreamsInOrder` by an ideal console, in which a call puts its line
   on the wire in one step;
3. creation of threads by running threads in `M1Kern` (an extension of what the documentation
   promises), with the two stores of `threads[thread_count++] = t`;
4. the console under the kernel's scheduler instead of free interleaving: a printer of high priority then
   delays the others by its whole line, and an overrun needs a tick between poll and store.
