------------------------------- MODULE RuntimeProofs -------------------------------
(***************************************************************************)
(* For any size of .data, of the thread table and of the heap, any content *)
(* of RAM at power on and any number of resets at any moment: main starts  *)
(* with its variables initialised, the scheduler finds threads where it    *)
(* looks, and the heap is cut into blocks that do not overlap, wherever    *)
(* the main stack pointer is when it grows.                                *)
(***************************************************************************)
EXTENDS Runtime, TLAPS

(* At most one thread calls _sbrk.                                         *)
OneCaller == \A c, d \in HeapUsers \ {Main} : c = d

Filled(loop) == \A i \in 0 .. Size(loop) - 1 : ram[From(loop) + i] = Word(loop, i)

(* What a loop has stored: the words below r, or from r on.                *)
LoopInv(loop) ==
  pc = loop =>
    /\ r <= Size(loop) /\ (target = "gowin_m1" => r >= 1)
    /\ \A i \in 0 .. Size(loop) - 1 :
         (IF target = "m1core" THEN i < r ELSE i >= r) => ram[From(loop) + i] = Word(loop, i)

StartInv ==
  /\ LoopInv("copy") /\ LoopInv("clear")
  /\ pc \in {"copied", "clear", "SystemInit", "main"} => Filled("copy")
  /\ pc \in {"SystemInit", "main"} => Filled("clear")

Creating == {"create", "count", "slot"}

TableInv ==
  /\ pc \in Creating => ram[KernelRunning] = 0
  /\ pc \in {"create", "count", "run"} => ram[ThreadCount] = Len(created)
  /\ pc \in {"count", "slot"} => r = Len(created) /\ r < MaxThreads
  /\ pc = "slot" => ram[ThreadCount] = r + 1
  /\ pc \in Creating \cup {"run"} =>
       Len(created) <= MaxThreads /\ \A i \in DOMAIN created : ram[Slot(i - 1)] = created[i]
  /\ pc \notin Creating \cup {"run"} => created = <<>> /\ (pc # "spin" => refused = {})
  /\ pc \in {"count", "slot"} => arg \notin refused
  /\ refused # {} => Len(created) = MaxThreads
  /\ \A i \in DOMAIN created : created[i] \notin refused

(* Where heap_end is, what is granted, and what a call knows of them.      *)
HeapInv ==
  /\ pc \notin Creating \cup {"run", "spin"} =>
       owned = [a \in Addr |-> 0] /\ at = [c \in Context |-> "idle"]
  /\ pc \in Creating \cup {"run"} =>
       /\ ram[HeapEnd] = 0 \/ (End <= ram[HeapEnd] /\ ram[HeapEnd] <= StackTop)
       /\ \A a \in Addr : owned[a] = IF End <= a /\ a < ram[HeapEnd] THEN 1 ELSE 0
  /\ \A c \in Context : at[c] # "idle" =>
       /\ c \in HeapUsers /\ pc = IF c = Main THEN "create" ELSE "run"
       /\ at[c] = "first" => ram[HeapEnd] = 0 /\ incr[c] >= 0
       /\ at[c] # "first" => ram[HeapEnd] # 0 /\ ram[HeapEnd] + incr[c] >= End
       /\ at[c] \in {"test", "load", "store"} => prev[c] = ram[HeapEnd]
       /\ at[c] \in {"load", "store"} => ram[HeapEnd] + incr[c] <= StackTop
       /\ at[c] = "store" => sum[c] = ram[HeapEnd] + incr[c]

Ind == TypeOK /\ StartInv /\ TableInv /\ HeapInv

(* The layout of RAM: no two of the kernel's words are one.                *)
LEMMA Layout ==
  ASSUME TypeOK
  PROVE /\ Len(image) \in Nat /\ MaxThreads \in Nat \ {0} /\ FreeWords \in Nat
        /\ \A i \in 1 .. Len(image) : image[i] \in Int
        /\ BssWords = MaxThreads + 3 /\ KernelRunning = Len(image) /\ ThreadCount = Len(image) + 1
        /\ \A i \in Int : Slot(i) = Len(image) + 2 + i
        /\ HeapEnd = Len(image) + MaxThreads + 2
        /\ End = Len(image) + MaxThreads + 3
        /\ StackTop = Len(image) + MaxThreads + 3 + FreeWords
        /\ Addr = 0 .. Len(image) + MaxThreads + 3 + FreeWords - 1
        /\ StackLimit \in Int /\ End <= StackLimit /\ StackLimit <= StackTop
<1>1. image \in Seq(Int) BY RuntimeAssumption DEF TypeOK
<1>2. Len(image) \in Nat BY <1>1
<1>3. End = Len(image) + MaxThreads + 3 BY <1>2, RuntimeAssumption DEF End, BssWords
<1>4. StackTop = Len(image) + MaxThreads + 3 + FreeWords BY <1>3 DEF StackTop
<1>5. HeapEnd = Len(image) + MaxThreads + 2 BY <1>2, RuntimeAssumption DEF HeapEnd, BssWords
<1>6. Addr = 0 .. Len(image) + MaxThreads + 3 + FreeWords - 1
  BY <1>2, <1>3, RuntimeAssumption DEF Addr, StackTop
<1>7. StackLimit \in Int /\ End <= StackLimit /\ StackLimit <= StackTop
  BY <1>2, <1>3, <1>4, RuntimeAssumption DEF StackLimit
<1> QED BY <1>1, <1>2, <1>3, <1>4, <1>5, <1>6, <1>7, RuntimeAssumption
    DEF BssWords, KernelRunning, ThreadCount, Slot

(* What a store does to RAM.                                               *)
LEMMA StoreDoes ==
  ASSUME ram \in [Addr -> Int], NEW a \in Addr, NEW w \in Int, Store(a, w)
  PROVE /\ ram' \in [Addr -> Int] /\ ram'[a] = w
        /\ \A b \in Addr : b # a => ram'[b] = ram[b]
BY DEF Store

-------------------------------------------------------------------------------
(* A step of Reset_Handler or SystemInit moves no history.                 *)
LEMMA StartupKeeps ==
  ASSUME Ind, Startup, pc \notin Creating \cup {"run"}, pc' \notin Creating \cup {"run"},
         pc # "spin", pc' # "spin"
  PROVE TableInv' /\ HeapInv'
<1> USE DEF Ind, TypeOK, TableInv, HeapInv, Startup, sbrkVars, history
<1>1. at = [c \in Context |-> "idle"] /\ created = <<>> /\ refused = {} OBVIOUS
<1>2. TableInv'
  <2>1. created' = <<>> /\ refused' = {} BY <1>1
  <2> QED BY <2>1 DEF Creating
<1>3. HeapInv' BY <1>1 DEF Creating, Addr, StackTop, StackLimit, End, BssWords
<1> QED BY <1>2, <1>3

LEMMA Sizes ==
  ASSUME TypeOK
  PROVE /\ Size("copy") = Len(image) /\ Len(image) \in Nat
        /\ Size("clear") = MaxThreads + 3 /\ MaxThreads \in Nat \ {0}
<1>1. Len(image) \in Nat /\ MaxThreads \in Nat \ {0} BY Layout
<1>2. Size("copy") = Len(image) BY DEF Size
<1>3. Size("clear") = MaxThreads + 3 BY DEF Size, BssWords
<1> QED BY <1>1, <1>2, <1>3

LEMMA EnterKeeps ==
  ASSUME Ind, EnterCopy \/ EnterClear
  PROVE Ind'
<1> USE DEF Ind, EnterCopy, EnterClear, Enter, Startup, sbrkVars, history
<1>0. /\ Size("copy") \in Nat /\ Size("clear") \in Nat \ {0}
      /\ Size("copy")' = Size("copy") /\ Size("clear")' = Size("clear")
  <2>1. image' = image OBVIOUS
  <2> QED BY <2>1, Sizes DEF Size, BssWords
<1>1. TypeOK'
  BY <1>0 DEF TypeOK, Places, After, Addr, StackTop, StackLimit, End, BssWords
<1>2. StartInv'
  <2>1. CASE EnterCopy
    BY <2>1, <1>0 DEF StartInv, LoopInv, Filled, TypeOK, Target, After, Size, From, Word
  <2>2. CASE EnterClear
    BY <2>2, <1>0 DEF StartInv, LoopInv, Filled, TypeOK, Target, After, Size, From, Word, BssWords
  <2> QED BY <2>1, <2>2
<1>3. TableInv' /\ HeapInv'
  BY StartupKeeps DEF Creating, After
<1> QED BY <1>1, <1>2, <1>3

(* Where a loop stores: each word of its section once, within RAM.         *)
LEMMA Sections ==
  ASSUME TypeOK, NEW loop \in {"copy", "clear"}, NEW i \in 0 .. Size(loop) - 1
  PROVE /\ From(loop) + i \in Addr /\ Word(loop, i) \in Int
        /\ From(loop) = IF loop = "copy" THEN 0 ELSE Len(image)
<1>0. /\ Len(image) \in Nat /\ MaxThreads \in Nat \ {0} /\ FreeWords \in Nat
      /\ Addr = 0 .. Len(image) + MaxThreads + 3 + FreeWords - 1
      /\ \A k \in 1 .. Len(image) : image[k] \in Int
  BY Layout
<1>1. CASE loop = "copy"
  <2>1. Size(loop) = Len(image) /\ From(loop) = 0 /\ Word(loop, i) = image[i + 1]
    BY <1>1 DEF Size, From, Word
  <2> QED BY <2>1, <1>0, <1>1
<1>2. CASE loop = "clear"
  <2>1. Size(loop) = MaxThreads + 3 /\ From(loop) = Len(image) /\ Word(loop, i) = 0
    BY <1>2 DEF Size, From, Word, BssWords
  <2> QED BY <2>1, <1>0, <1>2
<1> QED BY <1>1, <1>2

(* One word stored by a loop: what is filled stays filled, as the loops'   *)
(* sections are apart.                                                     *)
LEMMA LoopStores ==
  ASSUME Ind, NEW loop \in {"copy", "clear"}, NEW i \in 0 .. Size(loop) - 1,
         Store(From(loop) + i, Word(loop, i)), image' = image
  PROVE /\ ram' \in [Addr -> Int]
        /\ ram'[From(loop) + i] = Word(loop, i)
        /\ \A k \in 0 .. Size(loop) - 1 : k # i => ram'[From(loop) + k] = ram[From(loop) + k]
        /\ loop = "clear" /\ Filled("copy") => Filled("copy")'
<1> USE DEF Ind
<1>1. From(loop) + i \in Addr /\ Word(loop, i) \in Int BY Sections
<1>2. ram \in [Addr -> Int] BY DEF TypeOK
<1>3. /\ ram' \in [Addr -> Int] /\ ram'[From(loop) + i] = Word(loop, i)
      /\ \A b \in Addr : b # From(loop) + i => ram'[b] = ram[b]
  BY <1>1, <1>2, StoreDoes
<1>4. ASSUME NEW k \in 0 .. Size(loop) - 1, k # i
      PROVE ram'[From(loop) + k] = ram[From(loop) + k]
  <2>1. From(loop) + k \in Addr BY Sections
  <2>2. From(loop) \in Int
    <3>1. Len(image) \in Nat BY Layout
    <3> QED BY <3>1, Sections
  <2> QED BY <1>3, <1>4, <2>1, <2>2, Sizes
<1>5. ASSUME loop = "clear", Filled("copy") PROVE Filled("copy")'
  <2>0. /\ Len(image) \in Nat /\ MaxThreads \in Nat \ {0} /\ FreeWords \in Nat
        /\ Addr = 0 .. Len(image) + MaxThreads + 3 + FreeWords - 1
    BY Layout
  <2>1. ASSUME NEW k \in 0 .. Len(image) - 1 PROVE k \in Addr /\ k # From(loop) + i
    <3>1. From(loop) = Len(image) /\ Size(loop) = MaxThreads + 3 BY <1>5, Sections, Sizes
    <3> QED BY <2>0, <3>1
  <2>2. \A k \in 0 .. Len(image) - 1 : ram'[k] = ram[k] BY <2>1, <1>3
  <2> QED BY <2>2, <1>5 DEF Filled, Size, From, Word
<1> QED BY <1>3, <1>4, <1>5

LEMMA LoopUpKeeps ==
  ASSUME Ind, NEW loop \in {"copy", "clear"}, LoopUp(loop)
  PROVE Ind'
<1> USE DEF Ind, LoopUp, Startup, sbrkVars, history
<1>0. /\ image' = image /\ target' = target /\ target = "m1core" /\ r \in Nat
      /\ Size("copy") \in Nat /\ Size("clear") \in Nat
      /\ Size("copy")' = Size("copy") /\ Size("clear")' = Size("clear")
      /\ From("copy")' = From("copy") /\ From("clear")' = From("clear")
      /\ \A l, i : Word(l, i)' = Word(l, i)
      /\ Size("copy") = Len(image) /\ From("copy") = 0
  BY Sizes DEF TypeOK, Size, From, Word, BssWords
<1>1. TableInv' /\ HeapInv'
  BY StartupKeeps DEF Creating, After
<1>2. CASE r < Size(loop)
  <2>1. r \in 0 .. Size(loop) - 1 /\ r' = r + 1 /\ pc = loop /\ pc' = loop
        /\ Store(From(loop) + r, Word(loop, r))
    BY <1>0, <1>2
  <2>2. /\ ram' \in [Addr -> Int] /\ ram'[From(loop) + r] = Word(loop, r)
        /\ \A k \in 0 .. Size(loop) - 1 : k # r => ram'[From(loop) + k] = ram[From(loop) + k]
        /\ loop = "clear" /\ Filled("copy") => Filled("copy")'
    BY <2>1, <1>0, LoopStores
  <2>3. TypeOK' BY <2>1, <2>2, <1>0 DEF TypeOK, Addr, StackTop, StackLimit, End, BssWords
  <2>4. \A i \in 0 .. Size(loop) - 1 : i < r + 1 => ram'[From(loop) + i] = Word(loop, i)
    <3>1. \A i \in 0 .. Size(loop) - 1 : i < r => ram[From(loop) + i] = Word(loop, i)
      BY <2>1, <1>0 DEF StartInv, LoopInv
    <3> QED BY <3>1, <2>2, <1>0
  <2>5. LoopInv("copy")' /\ LoopInv("clear")'
    BY <2>1, <2>4, <1>0, <1>2 DEF LoopInv
  <2>6. StartInv' BY <2>1, <2>2, <2>5 DEF StartInv
  <2> QED BY <1>1, <2>3, <2>6
<1>3. CASE ~(r < Size(loop))
  <2>1. pc = loop /\ pc' = After(loop) /\ r' = r /\ ram' = ram BY <1>3
  <2>2. TypeOK' BY <2>1, <1>0 DEF TypeOK, After, Places, Addr, StackTop, StackLimit, End, BssWords
  <2>3. Filled(loop)
    <3>1. \A i \in 0 .. Size(loop) - 1 : i < r => ram[From(loop) + i] = Word(loop, i)
      BY <2>1, <1>0 DEF StartInv, LoopInv
    <3> QED BY <3>1, <1>3, <1>0 DEF Filled
  <2>4. Filled("copy")' = Filled("copy") /\ Filled("clear")' = Filled("clear")
    BY <2>1, <1>0 DEF Filled
  <2>5. StartInv'
    BY <2>1, <2>3, <2>4 DEF StartInv, LoopInv, After
  <2> QED BY <1>1, <2>2, <2>5
<1> QED BY <1>2, <1>3

LEMMA LoopDownKeeps ==
  ASSUME Ind, NEW loop \in {"copy", "clear"}, LoopDown(loop)
  PROVE Ind'
<1> USE DEF Ind, LoopDown, Startup, sbrkVars, history
<1>0. /\ image' = image /\ target' = target /\ target = "gowin_m1" /\ r \in Nat
      /\ Size("copy") \in Nat /\ Size("clear") \in Nat
      /\ Size("copy")' = Size("copy") /\ Size("clear")' = Size("clear")
      /\ From("copy")' = From("copy") /\ From("clear")' = From("clear")
      /\ \A l, i : Word(l, i)' = Word(l, i)
  BY Sizes DEF TypeOK, Size, From, Word, BssWords
<1>1. TableInv' /\ HeapInv'
  BY StartupKeeps DEF Creating, After
<1>2. /\ r >= 1 /\ r <= Size(loop)
      /\ \A i \in 0 .. Size(loop) - 1 : i >= r => ram[From(loop) + i] = Word(loop, i)
  BY <1>0 DEF StartInv, LoopInv
<1>3. r - 1 \in 0 .. Size(loop) - 1 /\ Store(From(loop) + (r - 1), Word(loop, r - 1))
  <2>1. From(loop) \in Nat BY Sizes DEF From
  <2>2. From(loop) + (r - 1) = From(loop) + r - 1 BY <2>1, <1>0
  <2> QED BY <2>2, <1>0, <1>2
<1>4. /\ ram' \in [Addr -> Int] /\ ram'[From(loop) + (r - 1)] = Word(loop, r - 1)
      /\ \A k \in 0 .. Size(loop) - 1 : k # r - 1 => ram'[From(loop) + k] = ram[From(loop) + k]
      /\ loop = "clear" /\ Filled("copy") => Filled("copy")'
  BY <1>3, <1>0, LoopStores
<1>5. TypeOK'
  BY <1>2, <1>4, <1>0 DEF TypeOK, After, Places, Addr, StackTop, StackLimit, End, BssWords
<1>6. \A i \in 0 .. Size(loop) - 1 : i >= r - 1 => ram'[From(loop) + i] = Word(loop, i)
  BY <1>2, <1>4, <1>0
<1>7. CASE r - 1 > 0
  <2>1. pc = loop /\ pc' = loop /\ r' = r - 1 BY <1>7
  <2>2. LoopInv("copy")' /\ LoopInv("clear")'
    BY <2>1, <1>2, <1>6, <1>7, <1>0 DEF LoopInv
  <2>3. StartInv' BY <2>1, <2>2, <1>4 DEF StartInv
  <2> QED BY <1>1, <1>5, <2>3
<1>8. CASE ~(r - 1 > 0)
  <2>1. pc = loop /\ pc' = After(loop) BY <1>8
  <2>2. \A i \in 0 .. Size(loop) - 1 : ram'[From(loop) + i] = Word(loop, i)
    BY <1>6, <1>8, <1>0
  <2>3. Filled(loop)' BY <2>2, <1>0 DEF Filled
  <2>4. StartInv' BY <2>1, <2>3, <1>4 DEF StartInv, LoopInv, After
  <2> QED BY <1>1, <1>5, <2>4
<1> QED BY <1>7, <1>8

LEMMA SystemInitKeeps ==
  ASSUME Ind, SystemInit
  PROVE Ind'
<1> USE DEF Ind, SystemInit, Startup, sbrkVars, history
<1>0. image' = image /\ target' = target /\ pc = "SystemInit" /\ pc' = "main" /\ r' = r
  OBVIOUS
<1>1. TableInv' /\ HeapInv'
  BY StartupKeeps DEF Creating
<1>2. Filled("copy") /\ Filled("clear") BY <1>0 DEF StartInv
<1>3. ram' = ram
  <2>1. CASE Len(image) > 0 /\ Store(0, image[1])
    <3>1. 0 \in 0 .. Size("copy") - 1 BY <2>1, Sizes
    <3>2. ram[0] = image[1] BY <3>1, <1>2 DEF Filled, From, Word
    <3> QED BY <3>2, <2>1 DEF Store, TypeOK
  <2> QED BY <2>1
<1>4. TypeOK' BY <1>0, <1>3 DEF TypeOK, Places, Addr, StackTop, StackLimit, End, BssWords
<1>5. Filled("copy")' /\ Filled("clear")'
  BY <1>0, <1>2, <1>3 DEF Filled, Size, From, Word, BssWords
<1>6. StartInv' BY <1>0, <1>5 DEF StartInv, LoopInv
<1> QED BY <1>1, <1>4, <1>6

-------------------------------------------------------------------------------
(* The kernel's words are in RAM, below the heap, and no two are one.      *)
LEMMA KernelWords ==
  ASSUME TypeOK
  PROVE /\ KernelRunning \in Addr /\ ThreadCount \in Addr /\ HeapEnd \in Addr
        /\ KernelRunning # ThreadCount /\ HeapEnd \notin {KernelRunning, ThreadCount}
        /\ \A i \in 0 .. MaxThreads - 1 :
             Slot(i) \in Addr /\ Slot(i) \notin {KernelRunning, ThreadCount, HeapEnd}
        /\ \A i, k \in 0 .. MaxThreads - 1 : Slot(i) = Slot(k) => i = k
        /\ \A a \in Addr : a >= End \/ a < Len(image) =>
             /\ a \notin {KernelRunning, ThreadCount, HeapEnd}
             /\ \A i \in 0 .. MaxThreads - 1 : a # Slot(i)
        /\ End \in Nat \ {0} /\ StackTop \in Nat /\ HeapEnd < End /\ MaxThreads \in Nat \ {0}
        /\ Addr = 0 .. StackTop - 1
<1>1. /\ Len(image) \in Nat /\ MaxThreads \in Nat \ {0} /\ FreeWords \in Nat
      /\ KernelRunning = Len(image) /\ ThreadCount = Len(image) + 1
      /\ HeapEnd = Len(image) + MaxThreads + 2 /\ End = Len(image) + MaxThreads + 3
      /\ StackTop = Len(image) + MaxThreads + 3 + FreeWords /\ Addr = 0 .. StackTop - 1
  BY Layout DEF Addr
<1>2. \A i \in 0 .. MaxThreads - 1 : Slot(i) = Len(image) + 2 + i BY DEF Slot
<1>3. /\ KernelRunning \in Addr /\ ThreadCount \in Addr /\ HeapEnd \in Addr
      /\ KernelRunning # ThreadCount /\ HeapEnd \notin {KernelRunning, ThreadCount}
  BY <1>1
<1>4. \A i \in 0 .. MaxThreads - 1 :
        Slot(i) \in Addr /\ Slot(i) \notin {KernelRunning, ThreadCount, HeapEnd}
  BY <1>1, <1>2
<1>5. \A i, k \in 0 .. MaxThreads - 1 : Slot(i) = Slot(k) => i = k BY <1>1, <1>2
<1>6. ASSUME NEW a \in Addr, a >= End \/ a < Len(image)
      PROVE /\ a \notin {KernelRunning, ThreadCount, HeapEnd}
            /\ \A i \in 0 .. MaxThreads - 1 : a # Slot(i)
  BY <1>1, <1>2, <1>6
<1> QED BY <1>1, <1>3, <1>4, <1>5, <1>6

(* image never changes, and with it the layout.                            *)
LEMMA LayoutKept ==
  ASSUME image' = image
  PROVE /\ KernelRunning' = KernelRunning /\ ThreadCount' = ThreadCount /\ HeapEnd' = HeapEnd
        /\ End' = End /\ StackTop' = StackTop /\ StackLimit' = StackLimit /\ Addr' = Addr
        /\ \A i : Slot(i)' = Slot(i)
BY DEF KernelRunning, ThreadCount, HeapEnd, End, StackTop, StackLimit, Addr, Slot, BssWords

LEMMA kernel_initKeeps ==
  ASSUME Ind, kernel_init
  PROVE Ind'
<1> USE DEF Ind, kernel_init, InMain, sbrkVars
<1>0. /\ image' = image /\ pc = "main" /\ pc' = "create" /\ Store(ThreadCount, 0)
      /\ created' = <<>> /\ created = <<>> /\ refused' = {} /\ owned' = owned /\ at' = at
  BY DEF TableInv, Creating
<1>1. /\ ram' \in [Addr -> Int] /\ ram'[ThreadCount] = 0
      /\ \A b \in Addr : b # ThreadCount => ram'[b] = ram[b]
  <2>1. ThreadCount \in Addr /\ ram \in [Addr -> Int] BY KernelWords DEF TypeOK
  <2> QED BY <1>0, <2>1, StoreDoes
<1>2. ram[KernelRunning] = 0 /\ ram[HeapEnd] = 0
  <2>1. \A i \in 0 .. MaxThreads + 2 : ram[Len(image) + i] = 0
    <3>1. Filled("clear") BY <1>0 DEF StartInv
    <3>2. Size("clear") - 1 = MaxThreads + 2 /\ MaxThreads \in Nat BY Sizes
    <3>3. From("clear") = Len(image) /\ \A i : Word("clear", i) = 0 BY DEF From, Word
    <3> QED BY <3>1, <3>2, <3>3 DEF Filled
  <2>2. /\ Len(image) \in Nat /\ MaxThreads \in Nat /\ KernelRunning = Len(image)
        /\ HeapEnd = Len(image) + MaxThreads + 2 BY Layout
  <2>3. 0 \in 0 .. MaxThreads + 2 /\ MaxThreads + 2 \in 0 .. MaxThreads + 2
        /\ Len(image) + 0 = Len(image)
        /\ Len(image) + (MaxThreads + 2) = Len(image) + MaxThreads + 2 BY <2>2
  <2> QED BY <2>1, <2>2, <2>3
<1>3. ram'[KernelRunning] = 0 /\ ram'[HeapEnd] = 0 BY <1>1, <1>2, KernelWords
<1>4. TypeOK' BY <1>0, <1>1, LayoutKept DEF TypeOK, Places
<1>5. StartInv' BY <1>0 DEF StartInv, LoopInv
<1>6. TableInv'
  BY <1>0, <1>1, <1>3, LayoutKept, KernelWords DEF TableInv, Creating
<1>7. HeapInv'
  <2>1. \A a \in Addr : owned[a] = 0 BY <1>0 DEF HeapInv, Creating
  <2>2. \A c \in Context : at[c] = "idle" BY <1>0 DEF HeapInv, Creating
  <2>3. \A a \in Addr : ~(End <= a /\ a < 0) BY KernelWords
  <2> QED BY <1>0, <1>3, <2>1, <2>2, <2>3, LayoutKept DEF HeapInv, Creating
<1> QED BY <1>4, <1>5, <1>6, <1>7

(* Steps of main that leave heap_end alone leave the heap alone.           *)
LEMMA MainKeepsHeap ==
  ASSUME Ind, pc \in Creating, image' = image, UNCHANGED <<sbrkVars, owned>>,
         at[Main] = "idle", pc' \in Creating \cup {"run"}, ram'[HeapEnd] = ram[HeapEnd]
  PROVE HeapInv'
<1>1. \A c \in Context : at[c] = "idle" BY DEF Ind, HeapInv, Creating
<1> QED BY <1>1, LayoutKept DEF Ind, HeapInv, Creating, sbrkVars

LEMMA TableFullKeeps ==
  ASSUME Ind, NEW t \in Thread, TableFull(t)
  PROVE Ind'
<1> USE DEF Ind, TableFull, InMain
<1>1. HeapInv' BY MainKeepsHeap DEF Creating
<1>2. TypeOK' BY LayoutKept DEF TypeOK, Places, sbrkVars
<1>3. StartInv' BY DEF StartInv, LoopInv
<1>4. TableInv'
  <2>1. ram[ThreadCount] = Len(created) /\ Len(created) <= MaxThreads /\ Len(created) \in Nat
        /\ MaxThreads \in Nat
    BY Layout DEF TableInv, Creating, TypeOK
  <2>2. Len(created) = MaxThreads BY <2>1
  <2> QED BY <2>2, LayoutKept DEF TableInv, Creating, New
<1> QED BY <1>1, <1>2, <1>3, <1>4

LEMMA thread_createKeeps ==
  ASSUME Ind, NEW t \in Thread, thread_create(t)
  PROVE Ind'
<1> USE DEF Ind, thread_create, InMain
<1>1. HeapInv' BY MainKeepsHeap DEF Creating
<1>0. ram[ThreadCount] = Len(created) /\ Len(created) \in Nat
  BY DEF TableInv, Creating, TypeOK
<1>2. TypeOK' BY <1>0, LayoutKept DEF TypeOK, Places, sbrkVars
<1>3. StartInv' BY DEF StartInv, LoopInv
<1>4. TableInv'
  <2>1. refused = {} BY <1>0, KernelWords DEF TableInv
  <2> QED BY <2>1, <1>0, LayoutKept DEF TableInv, Creating
<1> QED BY <1>1, <1>2, <1>3, <1>4

LEMMA Indices ==
  ASSUME Ind, pc \in Creating \cup {"run"}
  PROVE \A i \in DOMAIN created : i - 1 \in 0 .. MaxThreads - 1
<1>1. created \in Seq(Thread) /\ Len(created) <= MaxThreads /\ MaxThreads \in Nat
  BY KernelWords DEF Ind, TypeOK, TableInv
<1>2. DOMAIN created = 1 .. Len(created) /\ Len(created) \in Nat BY <1>1
<1> QED BY <1>1, <1>2

LEMMA StoreCountKeeps ==
  ASSUME Ind, StoreCount
  PROVE Ind'
<1> USE DEF Ind, StoreCount, InMain
<1>0. /\ ThreadCount \in Addr /\ ram \in [Addr -> Int] /\ r + 1 \in Int
      /\ Store(ThreadCount, r + 1) /\ image' = image
  BY KernelWords DEF TypeOK
<1>1. /\ ram' \in [Addr -> Int] /\ ram'[ThreadCount] = r + 1
      /\ \A b \in Addr : b # ThreadCount => ram'[b] = ram[b]
  BY <1>0, StoreDoes
<1>2. ram'[HeapEnd] = ram[HeapEnd] /\ ram'[KernelRunning] = ram[KernelRunning]
  BY <1>1, KernelWords
<1>3. HeapInv' BY <1>2, MainKeepsHeap DEF Creating
<1>4. TypeOK' BY <1>1, LayoutKept DEF TypeOK, Places, sbrkVars
<1>5. StartInv' BY DEF StartInv, LoopInv
<1>6. \A i \in DOMAIN created : ram'[Slot(i - 1)] = ram[Slot(i - 1)]
  <2>1. \A i \in DOMAIN created : i - 1 \in 0 .. MaxThreads - 1
    BY Indices DEF Creating
  <2> QED BY <2>1, <1>1, KernelWords
<1>7. TableInv'
  BY <1>1, <1>2, <1>6, LayoutKept DEF TableInv, Creating
<1> QED BY <1>3, <1>4, <1>5, <1>7

LEMMA StoreSlotKeeps ==
  ASSUME Ind, StoreSlot
  PROVE Ind'
<1> USE DEF Ind, StoreSlot, InMain
<1>0. /\ r = Len(created) /\ r < MaxThreads /\ r \in Nat /\ ram[ThreadCount] = r + 1
      /\ image' = image /\ MaxThreads \in Nat /\ created \in Seq(Thread) /\ refused = {}
      /\ created' = Append(created, arg) /\ ram[KernelRunning] = 0
  BY KernelWords DEF TableInv, TypeOK, Creating
<1>1. /\ Slot(r) \in Addr /\ ram \in [Addr -> Int] /\ arg \in Int /\ Store(Slot(r), arg)
  BY <1>0, KernelWords, RuntimeAssumption DEF TypeOK
<1>2. /\ ram' \in [Addr -> Int] /\ ram'[Slot(r)] = arg
      /\ \A b \in Addr : b # Slot(r) => ram'[b] = ram[b]
  BY <1>1, StoreDoes
<1>3. /\ ram'[HeapEnd] = ram[HeapEnd] /\ ram'[KernelRunning] = ram[KernelRunning]
      /\ ram'[ThreadCount] = ram[ThreadCount]
  BY <1>0, <1>2, KernelWords
<1>4. HeapInv' BY <1>3, MainKeepsHeap DEF Creating
<1>5. TypeOK' BY <1>2, LayoutKept DEF TypeOK, Places, sbrkVars
<1>6. StartInv' BY DEF StartInv, LoopInv
<1>7. Len(created') = r + 1 BY <1>0 DEF TypeOK
<1>8. ASSUME NEW i \in DOMAIN created' PROVE ram'[Slot(i - 1)] = created'[i]
  <2>1. CASE i = r + 1 BY <2>1, <1>0, <1>2, <1>7 DEF TypeOK
  <2>2. CASE i # r + 1
    <3>1. i \in DOMAIN created /\ i - 1 \in 0 .. MaxThreads - 1 /\ i - 1 # r
          /\ created'[i] = created[i] /\ r \in 0 .. MaxThreads - 1
      BY <2>2, <1>0, <1>7 DEF TypeOK
    <3>2. ram'[Slot(i - 1)] = ram[Slot(i - 1)] BY <3>1, <1>2, KernelWords
    <3> QED BY <3>1, <3>2 DEF TableInv, Creating
  <2> QED BY <2>1, <2>2
<1>9. TableInv'
  BY <1>0, <1>3, <1>7, <1>8, LayoutKept DEF TableInv, Creating
<1> QED BY <1>4, <1>5, <1>6, <1>9

LEMMA kernel_startKeeps ==
  ASSUME Ind, kernel_start
  PROVE Ind'
<1> USE DEF Ind, kernel_start, InMain
<1>0. /\ image' = image /\ ram[ThreadCount] = Len(created) /\ Len(created) \in Nat
      /\ created' = created /\ refused' = refused /\ KernelRunning \in Addr /\ ram \in [Addr -> Int]
  BY KernelWords DEF TableInv, Creating, TypeOK
<1>1. StartInv' BY DEF StartInv, LoopInv
<1>2. CASE ram[ThreadCount] = 0
  <2>1. created = <<>>
    <3>1. created \in Seq(Thread) /\ Len(created) = 0 BY <1>0, <1>2 DEF TypeOK
    <3> QED BY <3>1
  <2>2. TypeOK' BY <1>2, LayoutKept DEF TypeOK, Places, sbrkVars
  <2>3. TableInv' BY <1>2, <2>1, <1>0 DEF TableInv, Creating
  <2>4. HeapInv'
    <3>1. \A c \in Context : at[c] = "idle" BY DEF HeapInv, Creating
    <3> QED BY <3>1, <1>2, LayoutKept DEF HeapInv, Creating, sbrkVars
  <2> QED BY <1>1, <2>2, <2>3, <2>4
<1>3. CASE ram[ThreadCount] # 0
  <2>1. /\ ram' \in [Addr -> Int] /\ ram'[KernelRunning] = 1
        /\ \A b \in Addr : b # KernelRunning => ram'[b] = ram[b]
    BY <1>0, <1>3, StoreDoes
  <2>2. ram'[HeapEnd] = ram[HeapEnd] /\ ram'[ThreadCount] = ram[ThreadCount]
    BY <2>1, KernelWords
  <2>3. HeapInv' BY <1>3, <2>2, MainKeepsHeap DEF Creating
  <2>4. TypeOK' BY <1>3, <2>1, LayoutKept DEF TypeOK, Places, sbrkVars
  <2>5. \A i \in DOMAIN created : ram'[Slot(i - 1)] = ram[Slot(i - 1)]
    <3>1. \A i \in DOMAIN created : i - 1 \in 0 .. MaxThreads - 1
      BY Indices DEF Creating
    <3> QED BY <3>1, <2>1, KernelWords
  <2>6. TableInv' BY <1>0, <1>3, <2>2, <2>5, LayoutKept DEF TableInv, Creating
  <2> QED BY <1>1, <2>3, <2>4, <2>6
<1> QED BY <1>2, <1>3

-------------------------------------------------------------------------------
(* A context in _sbrk is the only one.                                     *)
LEMMA Alone ==
  ASSUME Ind, OneCaller, NEW c \in HeapUsers, pc = IF c = Main THEN "create" ELSE "run"
  PROVE \A d \in Context : d # c => at[d] = "idle"
<1> SUFFICES ASSUME NEW d \in Context, d # c, at[d] # "idle" PROVE FALSE
  OBVIOUS
<1>1. d \in HeapUsers /\ pc = IF d = Main THEN "create" ELSE "run" BY DEF Ind, HeapInv
<1>2. c # Main /\ d # Main BY <1>1
<1> QED BY <1>1, <1>2 DEF OneCaller

(* While the kernel is up, stores to heap_end, to the heap and to .data    *)
(* leave the table alone.                                                  *)
LEMMA OtherStores ==
  ASSUME Ind, pc \in {"create", "run"}, UNCHANGED <<image, pc, r, arg, created, refused>>,
         \A b \in Addr : b # HeapEnd /\ b < End /\ b >= Len(image) => ram'[b] = ram[b]
  PROVE StartInv' /\ TableInv'
<1>1. StartInv' BY DEF StartInv, LoopInv
<1>2. Len(image) \in Nat /\ MaxThreads \in Nat \ {0} /\ KernelRunning = Len(image)
      /\ ThreadCount = Len(image) + 1 /\ HeapEnd = Len(image) + MaxThreads + 2
      /\ End = Len(image) + MaxThreads + 3
      /\ \A i \in 0 .. MaxThreads - 1 : Slot(i) = Len(image) + 2 + i
  BY Layout DEF Ind
<1>3. ram'[KernelRunning] = ram[KernelRunning] /\ ram'[ThreadCount] = ram[ThreadCount]
  BY <1>2, KernelWords DEF Ind
<1>4. ASSUME NEW i \in 0 .. MaxThreads - 1 PROVE ram'[Slot(i)] = ram[Slot(i)]
  <2>1. Slot(i) \in Addr BY KernelWords DEF Ind
  <2>2. Slot(i) # HeapEnd /\ Slot(i) < End /\ Slot(i) >= Len(image) BY <1>2
  <2> QED BY <2>1, <2>2
<1>5. \A i \in DOMAIN created : ram'[Slot(i - 1)] = ram[Slot(i - 1)]
  BY <1>4, Indices DEF Creating
<1> QED BY <1>1, <1>3, <1>5, LayoutKept DEF Ind, TableInv, Creating

LEMMA _sbrkKeeps ==
  ASSUME Ind, OneCaller, NEW c \in Context, NEW n \in Increments, _sbrk(c, n)
  PROVE Ind'
<1> USE DEF Ind, _sbrk, InSbrk
<1>1. StartInv' /\ TableInv' BY OtherStores
<1>2. TypeOK' BY LayoutKept, RuntimeAssumption DEF TypeOK
<1>3. ram[HeapEnd] = 0 => n >= 0
  <2>1. SUFFICES ASSUME ram[HeapEnd] = 0, n < 0 PROVE FALSE
    BY RuntimeAssumption
  <2>2. -1 \in Held BY <2>1, RuntimeAssumption
  <2> QED BY <2>2, KernelWords DEF Held
<1>4. ram[HeapEnd] # 0 => ram[HeapEnd] + n >= End
  <2>0. ram[HeapEnd] \in Int /\ n \in Int /\ End \in Nat \ {0}
    BY RuntimeAssumption, KernelWords DEF TypeOK
  <2>1. SUFFICES ASSUME ram[HeapEnd] # 0, ram[HeapEnd] + n < End PROVE FALSE
    BY <2>0
  <2>2. End <= ram[HeapEnd] /\ ram[HeapEnd] \in Int /\ n \in Int /\ End \in Nat \ {0}
    BY <2>0, <2>1 DEF HeapInv, Creating
  <2>3. n < 0 BY <2>1, <2>2
  <2>4. End - 1 \in Held BY <2>1, <2>2, <2>3
  <2>5. End - 1 \in Addr /\ owned[End - 1] > 0 BY <2>4 DEF Held
  <2>6. owned[End - 1] = IF End <= End - 1 /\ End - 1 < ram[HeapEnd] THEN 1 ELSE 0
    BY <2>5 DEF HeapInv, Creating
  <2> QED BY <2>2, <2>5, <2>6
<1>5. HeapInv'
  BY <1>3, <1>4, LayoutKept DEF HeapInv, Creating, TypeOK
<1> QED BY <1>1, <1>2, <1>5

LEMMA StartHeapKeeps ==
  ASSUME Ind, OneCaller, NEW c \in Context, StartHeap(c)
  PROVE Ind'
<1> USE DEF Ind, StartHeap, InSbrk
<1>0. End <= StackTop
  <2>1. End \in Nat /\ FreeWords \in Nat BY KernelWords, Layout
  <2> QED BY <2>1 DEF StackTop
<1>1. /\ HeapEnd \in Addr /\ ram \in [Addr -> Int] /\ End \in Nat \ {0} /\ Store(HeapEnd, End)
      /\ End <= StackTop
  BY <1>0, KernelWords DEF TypeOK
<1>2. /\ ram' \in [Addr -> Int] /\ ram'[HeapEnd] = End
      /\ \A b \in Addr : b # HeapEnd => ram'[b] = ram[b]
  BY <1>1, StoreDoes
<1>3. StartInv' /\ TableInv' BY <1>2, OtherStores
<1>4. TypeOK' BY <1>2, LayoutKept DEF TypeOK
<1>5. c \in HeapUsers /\ ram[HeapEnd] = 0 /\ incr[c] >= 0 /\ incr[c] \in Int
  BY DEF HeapInv, TypeOK
<1>6. \A d \in Context : d # c => at[d] = "idle" BY <1>5, Alone
<1>7. \A a \in Addr : owned[a] = 0 BY <1>5, KernelWords DEF HeapInv, Creating
<1>8. \A a \in Addr : ~(End <= a /\ a < End) BY KernelWords
<1>9. HeapInv'
  BY <1>1, <1>2, <1>5, <1>6, <1>7, <1>8, LayoutKept DEF HeapInv, Creating, TypeOK
<1> QED BY <1>3, <1>4, <1>9

LEMMA ReadsKeep ==
  ASSUME Ind, OneCaller, NEW c \in Context, ReadPrev(c) \/ TestMsp(c) \/ LoadSum(c)
  PROVE Ind'
<1> USE DEF Ind, InSbrk
<1>1. StartInv' /\ TableInv' BY OtherStores DEF ReadPrev, TestMsp, LoadSum
<1>2. ram[HeapEnd] \in Int /\ incr[c] \in Int /\ ram[HeapEnd] + incr[c] \in Int /\ StackTop \in Int
      /\ msp \in Int /\ msp <= StackTop
  <2>1. StackLimit \in Int /\ StackTop \in Int /\ HeapEnd \in Addr BY KernelWords, Layout
  <2> QED BY <2>1 DEF TypeOK
<1>3. CASE ReadPrev(c)
  <2>1. TypeOK' BY <1>2, <1>3, LayoutKept DEF TypeOK, ReadPrev
  <2>2. HeapInv' BY <1>3, LayoutKept DEF HeapInv, Creating, TypeOK, ReadPrev
  <2> QED BY <1>1, <2>1, <2>2
<1>4. CASE TestMsp(c)
  <2>1. TypeOK' BY <1>4, LayoutKept DEF TypeOK, TestMsp
  <2>2. HeapInv' BY <1>2, <1>4, LayoutKept DEF HeapInv, Creating, TypeOK, TestMsp
  <2> QED BY <1>1, <2>1, <2>2
<1>5. CASE LoadSum(c)
  <2>1. TypeOK' BY <1>2, <1>5, LayoutKept DEF TypeOK, LoadSum
  <2>2. HeapInv' BY <1>5, LayoutKept DEF HeapInv, Creating, TypeOK, LoadSum
  <2> QED BY <1>1, <2>1, <2>2
<1> QED BY <1>3, <1>4, <1>5

LEMMA StoreEndKeeps ==
  ASSUME Ind, OneCaller, NEW c \in Context, StoreEnd(c)
  PROVE Ind'
<1> USE DEF Ind, StoreEnd, InSbrk
<1> DEFINE h == ram[HeapEnd]
<1>1. /\ HeapEnd \in Addr /\ ram \in [Addr -> Int] /\ sum[c] \in Int /\ Store(HeapEnd, sum[c])
      /\ incr[c] \in Int /\ h \in Int /\ End \in Nat \ {0} /\ StackTop \in Nat
  BY KernelWords DEF TypeOK
<1>2. /\ ram' \in [Addr -> Int] /\ ram'[HeapEnd] = sum[c]
      /\ \A b \in Addr : b # HeapEnd => ram'[b] = ram[b]
  BY <1>1, StoreDoes
<1>3. StartInv' /\ TableInv' BY <1>2, OtherStores
<1>4. c \in HeapUsers /\ h # 0 /\ prev[c] = h /\ sum[c] = h + incr[c]
      /\ h + incr[c] >= End /\ h + incr[c] <= StackTop /\ pc \in {"create", "run"}
  BY DEF HeapInv
<1>5. End <= h /\ h <= StackTop BY <1>4 DEF HeapInv, Creating
<1>6. \A d \in Context : d # c => at[d] = "idle" BY <1>4, Alone
<1>7. TypeOK' BY <1>2, LayoutKept DEF TypeOK
<1>8. ASSUME NEW a \in Addr
      PROVE owned'[a] = IF End <= a /\ a < h + incr[c] THEN 1 ELSE 0
  <2>1. owned[a] = IF End <= a /\ a < h THEN 1 ELSE 0 BY <1>4 DEF HeapInv, Creating
  <2>2. owned'[a] = IF a \in h .. h + incr[c] - 1 THEN owned[a] + 1
                    ELSE IF a \in h + incr[c] .. h - 1 THEN owned[a] - 1 ELSE owned[a]
    BY <1>4
  <2>3. a \in Int BY KernelWords
  <2> QED BY <2>1, <2>2, <2>3, <1>1, <1>4, <1>5
<1>9. HeapInv'
  BY <1>1, <1>2, <1>4, <1>6, <1>8, LayoutKept DEF HeapInv, Creating, TypeOK
<1> QED BY <1>3, <1>7, <1>9

LEMMA WorkKeeps ==
  ASSUME Ind, Work
  PROVE Ind'
<1> USE DEF Ind
<1>1. PICK a \in Held \cup 0 .. Len(image) - 1, w \in Noise : Store(a, w) BY DEF Work
<1>2. pc = "run" /\ UNCHANGED <<target, image, pc, r, msp, arg, sbrkVars, history, resets>>
  BY DEF Work
<1>3. Len(image) \in Nat /\ Len(image) < End
  <2>1. Len(image) \in Nat /\ MaxThreads \in Nat /\ End = Len(image) + MaxThreads + 3 BY Layout
  <2> QED BY <2>1
<1>4. a \in Addr /\ (a >= End \/ a < Len(image))
  <2>1. CASE a \in Held
    <3>1. a \in Addr /\ owned[a] > 0 BY <2>1 DEF Held
    <3>2. owned[a] = IF End <= a /\ a < ram[HeapEnd] THEN 1 ELSE 0
      BY <3>1, <1>2 DEF HeapInv, Creating
    <3>3. a \in Int /\ End \in Int BY <3>1, KernelWords
    <3> QED BY <3>1, <3>2, <3>3
  <2>2. CASE a \in 0 .. Len(image) - 1
    <3>1. End <= StackTop
      <4>1. End \in Nat /\ FreeWords \in Nat BY KernelWords, Layout
      <4> QED BY <4>1 DEF StackTop
    <3> QED BY <2>2, <3>1, <1>3, KernelWords
  <2> QED BY <2>1, <2>2, <1>1
<1>5. ram \in [Addr -> Int] /\ w \in Int BY RuntimeAssumption DEF TypeOK
<1>6. /\ ram' \in [Addr -> Int]
      /\ \A b \in Addr : b # a => ram'[b] = ram[b]
  BY <1>1, <1>4, <1>5, StoreDoes
<1>7. \A b \in Addr : b < End /\ b >= Len(image) => ram'[b] = ram[b]
  BY <1>4, <1>6, <1>3, KernelWords
<1>8. StartInv' /\ TableInv' BY <1>2, <1>7, OtherStores DEF history
<1>9. TypeOK' BY <1>2, <1>6, LayoutKept DEF TypeOK, sbrkVars, history
<1>10. ram'[HeapEnd] = ram[HeapEnd]
  BY <1>4, <1>6, KernelWords
<1>11. HeapInv'
  BY <1>2, <1>10, LayoutKept DEF HeapInv, sbrkVars, history
<1> QED BY <1>8, <1>9, <1>11

LEMMA MainCallsKeeps ==
  ASSUME Ind, MainCalls
  PROVE Ind'
<1> USE DEF Ind, MainCalls, sbrkVars, history
<1>1. TypeOK' BY LayoutKept DEF TypeOK
<1>2. StartInv' BY DEF StartInv, LoopInv, Filled, Size, From, Word, BssWords
<1>3. TableInv' /\ HeapInv' BY LayoutKept DEF TableInv, HeapInv
<1> QED BY <1>1, <1>2, <1>3

(* The main stack lies above .data and .bss.                               *)
LEMMA StackStoresKeeps ==
  ASSUME Ind, StackStores
  PROVE Ind'
<1> USE DEF Ind
<1>1. PICK a \in StackLimit .. StackTop - 1, w \in Noise : Store(a, w) BY DEF StackStores
<1>2. /\ pc \in Creating \cup {"main", "run", "spin"}
      /\ UNCHANGED <<target, image, pc, r, msp, arg, sbrkVars, history, resets>>
  BY DEF StackStores, Creating
<1>3. a \in Addr /\ a >= End /\ Len(image) \in Nat /\ Len(image) < End /\ End \in Nat
  <2>1. /\ Len(image) \in Nat /\ MaxThreads \in Nat /\ End = Len(image) + MaxThreads + 3
        /\ StackLimit \in Int /\ End <= StackLimit
    BY Layout
  <2> QED BY <2>1, KernelWords
<1>4. ram \in [Addr -> Int] /\ w \in Int BY RuntimeAssumption DEF TypeOK
<1>5. ram' \in [Addr -> Int] /\ \A b \in Addr : b # a => ram'[b] = ram[b]
  BY <1>1, <1>3, <1>4, StoreDoes
<1>6. /\ ram'[KernelRunning] = ram[KernelRunning] /\ ram'[ThreadCount] = ram[ThreadCount]
      /\ ram'[HeapEnd] = ram[HeapEnd]
      /\ \A i \in 0 .. MaxThreads - 1 : ram'[Slot(i)] = ram[Slot(i)]
  BY <1>3, <1>5, KernelWords
<1>7. TypeOK' BY <1>2, <1>5, LayoutKept DEF TypeOK, sbrkVars, history
<1>8. StartInv'
  <2>1. ASSUME NEW loop \in {"copy", "clear"}, NEW i \in 0 .. Size(loop) - 1
        PROVE ram'[From(loop) + i] = ram[From(loop) + i]
    <3>1. From(loop) + i \in Addr /\ From(loop) + i < End
      <4>1. /\ From(loop) + i \in Addr /\ From(loop) = IF loop = "copy" THEN 0 ELSE Len(image)
        BY Sections
      <4>2. Size("copy") = Len(image) /\ Size("clear") = MaxThreads + 3
            /\ MaxThreads \in Nat /\ Len(image) \in Nat /\ End = Len(image) + MaxThreads + 3
        BY Sizes, Layout
      <4> QED BY <4>1, <4>2
    <3>2. From(loop) + i # a
      <4>1. From(loop) + i \in Int /\ a \in Int BY <3>1, <1>3, KernelWords
      <4> QED BY <4>1, <3>1, <1>3
    <3> QED BY <3>1, <3>2, <1>5
  <2>2. ASSUME NEW loop \in {"copy", "clear"}, Filled(loop) PROVE Filled(loop)'
    <3>1. /\ Size(loop)' = Size(loop) /\ From(loop)' = From(loop)
          /\ \A i : Word(loop, i)' = Word(loop, i)
      BY <1>2 DEF Size, From, Word, BssWords
    <3>2. \A i \in 0 .. Size(loop) - 1 : ram[From(loop) + i] = Word(loop, i)
      BY <2>2 DEF Filled
    <3>3. \A i \in 0 .. Size(loop) - 1 : ram'[From(loop) + i] = Word(loop, i)
      BY <2>1, <3>2
    <3> QED BY <3>1, <3>3 DEF Filled
  <2> QED BY <1>2, <2>2 DEF StartInv, LoopInv, Creating
<1>9. TableInv'
  <2>1. ASSUME pc \in Creating \cup {"run"}
        PROVE \A i \in DOMAIN created : ram'[Slot(i - 1)] = ram[Slot(i - 1)]
    BY <2>1, <1>6, Indices
  <2> QED BY <1>2, <1>6, <2>1, LayoutKept DEF TableInv, Creating, history
<1>10. HeapInv' BY <1>2, <1>6, LayoutKept DEF HeapInv, sbrkVars, history
<1> QED BY <1>7, <1>8, <1>9, <1>10

LEMMA ResetKeeps ==
  ASSUME Ind, Reset
  PROVE Ind'
<1> USE DEF Ind, Reset
<1>1. TypeOK'
  <2>1. StackTop \in StackLimit .. StackTop BY Layout, KernelWords
  <2> QED BY <2>1, LayoutKept DEF TypeOK, Places
<1>2. StartInv' BY DEF StartInv, LoopInv
<1>3. TableInv'
  <2>1. created' = <<>> /\ refused' = {} /\ pc' = "Reset_Handler" OBVIOUS
  <2> QED BY <2>1 DEF TableInv, Creating
<1>4. HeapInv' BY LayoutKept DEF HeapInv, Creating
<1> QED BY <1>1, <1>2, <1>3, <1>4

LEMMA InitInd ==
  ASSUME Init
  PROVE Ind
<1> USE DEF Init, Forgotten
<1>1. TypeOK
  <2>1. image \in Seq(Int) BY RuntimeAssumption
  <2>2. Len(image) \in Nat BY <2>1
  <2>3. StackTop \in Int BY <2>2, RuntimeAssumption DEF StackTop, End, BssWords
  <2>4. StackTop \in StackLimit .. StackTop BY <2>3, RuntimeAssumption DEF StackLimit
  <2> QED BY <2>4, RuntimeAssumption DEF TypeOK, Places
<1>2. StartInv BY DEF StartInv, LoopInv
<1>3. TableInv
  <2>1. created = <<>> /\ refused = {} /\ pc = "Reset_Handler" OBVIOUS
  <2> QED BY <2>1 DEF TableInv, Creating
<1>4. HeapInv BY DEF HeapInv, Creating
<1> QED BY <1>1, <1>2, <1>3, <1>4 DEF Ind

LEMMA StutterKeeps ==
  ASSUME Ind, UNCHANGED vars
  PROVE Ind'
<1>1. StartInv'
  BY DEF Ind, vars, StartInv, LoopInv, Filled, Size, From, Word, BssWords
<1> QED BY <1>1, LayoutKept DEF Ind, vars, sbrkVars, history, TypeOK, TableInv, HeapInv

LEMMA NextInd ==
  ASSUME Ind, OneCaller, [Next]_vars
  PROVE Ind'
<1>1. CASE StartupNext
  BY <1>1, EnterKeeps, SystemInitKeeps, LoopUpKeeps, LoopDownKeeps DEF StartupNext
<1>2. CASE MainNext
  BY <1>2, kernel_initKeeps, TableFullKeeps, thread_createKeeps, StoreCountKeeps,
     StoreSlotKeeps, kernel_startKeeps DEF MainNext
<1>3. CASE SbrkNext
  BY <1>3, _sbrkKeeps, StartHeapKeeps, ReadsKeep, StoreEndKeeps DEF SbrkNext
<1>4. CASE Work BY <1>4, WorkKeeps
<1>5. CASE MainCalls BY <1>5, MainCallsKeeps
<1>6. CASE StackStores BY <1>6, StackStoresKeeps
<1>7. CASE Reset BY <1>7, ResetKeeps
<1>8. CASE UNCHANGED vars BY <1>8, StutterKeeps
<1> QED BY <1>1, <1>2, <1>3, <1>4, <1>5, <1>6, <1>7, <1>8 DEF Next

LEMMA Inductive ==
  ASSUME OneCaller
  PROVE Spec => []Ind
<1>1. Init => Ind BY InitInd
<1>2. Ind /\ [Next]_vars => Ind' BY NextInd
<1> QED BY <1>1, <1>2, PTL DEF Spec

-------------------------------------------------------------------------------
(* In particular the startup loops stop: their cursor does not go below    *)
(* zero, where subs and bgt would take it for a large offset.              *)
THEOREM TypeCorrect ==
  ASSUME OneCaller
  PROVE Spec => []TypeOK
<1>1. Ind => TypeOK BY DEF Ind
<1> QED BY <1>1, Inductive, PTL

(* Both Reset_Handlers: whatever RAM held and whenever the resets came,    *)
(* main starts with .data as linked and .bss zero.                         *)
THEOREM StartsClean ==
  ASSUME OneCaller
  PROVE Spec => []MainStartsClean
<1>1. Ind => MainStartsClean
  <2> SUFFICES ASSUME Ind, pc = "main" PROVE MainStartsClean
    BY DEF MainStartsClean
  <2>1. Filled("copy") /\ Filled("clear") BY DEF Ind, StartInv
  <2>2. /\ Len(image) \in Nat /\ MaxThreads \in Nat /\ End = Len(image) + MaxThreads + 3
        /\ Size("copy") = Len(image) /\ Size("clear") = MaxThreads + 3
    BY Layout, Sizes DEF Ind
  <2>3. ASSUME NEW i \in 1 .. Len(image) PROVE ram[i - 1] = image[i]
    <3>1. i - 1 \in 0 .. Size("copy") - 1 /\ 0 + (i - 1) = i - 1 /\ (i - 1) + 1 = i BY <2>2
    <3>2. From("copy") = 0 /\ Word("copy", i - 1) = image[(i - 1) + 1] BY DEF From, Word
    <3> QED BY <2>1, <3>1, <3>2 DEF Filled
  <2>4. ASSUME NEW a \in Len(image) .. End - 1 PROVE ram[a] = 0
    <3>1. a - Len(image) \in 0 .. Size("clear") - 1 /\ Len(image) + (a - Len(image)) = a
      BY <2>2
    <3>2. From("clear") = Len(image) /\ Word("clear", a - Len(image)) = 0 BY DEF From, Word
    <3> QED BY <2>1, <3>1, <3>2 DEF Filled
  <2> QED BY <2>3, <2>4 DEF MainStartsClean
<1> QED BY <1>1, Inductive, PTL

(* scheduler_next, whenever kernel_running lets a tick lead to it, finds   *)
(* the threads of this run below thread_count.                             *)
THEOREM SchedulerIsSafe ==
  ASSUME OneCaller
  PROVE Spec => []SchedulerSeesThreads
<1>1. Ind => SchedulerSeesThreads
  <2> SUFFICES ASSUME Ind, pc = "run" PROVE SchedulerSeesThreads
    BY DEF Ind, TableInv, SchedulerSeesThreads, Creating
  <2>1. ram[ThreadCount] = Len(created) /\ Len(created) \in Nat /\ created \in Seq(Thread)
    BY DEF Ind, TableInv, TypeOK
  <2>2. ASSUME NEW i \in 0 .. ram[ThreadCount] - 1
        PROVE i < Len(created) /\ ram[Slot(i)] = created[i + 1]
    <3>1. i + 1 \in DOMAIN created /\ (i + 1) - 1 = i /\ i < Len(created) BY <2>1
    <3>2. ram[Slot((i + 1) - 1)] = created[i + 1] BY <3>1 DEF Ind, TableInv, Creating
    <3> QED BY <3>1, <3>2
  <2> QED BY <2>2 DEF SchedulerSeesThreads
<1> QED BY <1>1, Inductive, PTL

(* thread_create: the table holds what it returned, and nothing else.      *)
THEOREM TableIsAsTold ==
  ASSUME OneCaller
  PROVE Spec => []TableAsTold
<1>1. Ind => TableAsTold BY DEF Ind, TableInv, TableAsTold, Creating
<1> QED BY <1>1, Inductive, PTL

(* _sbrk, called by one context at a time.                                 *)
THEOREM HeapIsExact ==
  ASSUME OneCaller
  PROVE Spec => []HeapExact
<1>1. Ind => HeapExact
  BY KernelWords DEF Ind, HeapInv, HeapExact, Creating
<1> QED BY <1>1, Inductive, PTL
================================================================================
