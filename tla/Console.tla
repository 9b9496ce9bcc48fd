--------------------------------- MODULE Console ---------------------------------
(***************************************************************************)
(* The console of either target and the UART under it.  Threads call       *)
(* console_printf() and console_hexdump(), which pass one character after  *)
(* the other to UART_SendChar(); the kernel may preempt a thread between   *)
(* its poll of STATE and its store to DATA.  The UART has one buffer in    *)
(* front of its shift register.                                            *)
(***************************************************************************)
EXTENDS ConsoleText

CONSTANTS
  Thread,
  Programs,     \* by name, the calls each thread may make
  MaxCalls      \* bound: by program, calls a thread makes

(* What the calls of a C program hand to the console has the type that its *)
(* conversion asks for.                                                    *)
AllCalls == UNION {Programs[p][t] : p \in DOMAIN Programs, t \in Thread}

WellTyped(call) ==
  IF call.op = "printf"
  THEN Len(call.pieces) \in Nat /\ \A i \in 1 .. Len(call.pieces) : PieceOK(call.pieces[i])
  ELSE call.bytes \in Seq(0 .. 255)

ASSUME CallsAssumption == \A call \in AllCalls : WellTyped(call)

Main == "main"
ASSUME MainAssumption == Main \notin Thread

VARIABLES
  target,       \* the target the program was built for
  program,      \* the program that was built
  up,           \* console_init() has run
  at,           \* per thread, its next access to the UART; "idle" outside calls
  todo,         \* per thread, the characters its call has still to send
  buffer,       \* the transmit buffer, empty or one character, with its sender and
                \* its place among what that has to send; TXBF: not empty
  shifter,      \* the shift register, likewise
  txor,         \* the overrun flag of STATE
  wire,         \* history: the characters that were transmitted
  called,       \* history: per thread, its calls
  handed,       \* history: per thread, the characters its calls have to send
  lost          \* history: per thread, the places of those that were lost

threads == <<program, at, todo, called, handed>>
uart == <<buffer, shifter, txor, wire>>
vars == <<target, up, threads, uart, lost>>

Target == {"gowin_m1", "m1core"}

Init ==
  /\ target \in Target /\ program \in DOMAIN Programs
  /\ up = FALSE
  /\ at = [t \in Thread |-> "idle"]
  /\ todo = [t \in Thread |-> <<>>]
  /\ buffer = <<>> /\ shifter = <<>> /\ txor = FALSE
  /\ wire = <<>>
  /\ called = [t \in Thread |-> <<>>]
  /\ handed = [t \in Thread |-> <<>>]
  /\ lost = [t \in Thread |-> {}]

(* UART_Init() of gowin_m1 stores 0 to DATA before it enables transmission *)
(* and sends it, if the disabled UART buffers it.  Nobody else uses the    *)
(* UART yet.                                                               *)
console_init ==
  /\ ~up
  /\ up' = TRUE
  /\ buffer' \in IF target = "gowin_m1" THEN {<<>>, <<[of |-> Main, char |-> NUL, nth |-> 1]>>} ELSE {<<>>}
  /\ UNCHANGED <<target, threads, shifter, txor, wire, lost>>

-------------------------------------------------------------------------------
Argument(piece) == IF piece.conv = "literal" THEN <<>> ELSE <<piece.arg>>

Text(call) ==
  IF call.op = "printf"
  THEN console_printf(FlattenSeq([i \in 1 .. Len(call.pieces) |-> Spelling(call.pieces[i])]),
                      FlattenSeq([i \in 1 .. Len(call.pieces) |-> Argument(call.pieces[i])]))
  ELSE console_hexdump(call.bytes)

Call(t, call) ==
  /\ up /\ at[t] = "idle" /\ Len(called[t]) < MaxCalls[program]
  /\ LET text == Text(call) IN
       /\ todo' = [todo EXCEPT ![t] = text]
       /\ handed' = [handed EXCEPT ![t] = @ \o text]
       /\ at' = [at EXCEPT ![t] = IF text = <<>> THEN "idle" ELSE "poll"]
  /\ called' = [called EXCEPT ![t] = Append(@, call)]
  /\ UNCHANGED <<target, up, program, uart, lost>>

Poll_Skipped(t) ==
  /\ at[t] = "poll"
  /\ at' = [at EXCEPT ![t] = "write"]
  /\ UNCHANGED <<target, up, program, todo, called, handed, uart, lost>>

Poll_Inverted(t) ==
  /\ at[t] = "poll" /\ buffer # <<>>
  /\ at' = [at EXCEPT ![t] = "write"]
  /\ UNCHANGED <<target, up, program, todo, called, handed, uart, lost>>

(* while (STATE & TXBF); -- it is left when the buffer is seen empty.      *)
Poll(t) ==
  /\ at[t] = "poll" /\ buffer = <<>>
  /\ at' = [at EXCEPT ![t] = "write"]
  /\ UNCHANGED <<target, up, program, todo, called, handed, uart, lost>>

(* The store to DATA.  Filled since the poll, the buffer overruns: one of  *)
(* the two characters is lost, and TXOR is set, which no code looks at.    *)
Store(t) ==
  LET new == <<[of |-> t, char |-> Head(todo[t]),
                nth |-> Len(handed[t]) - Len(todo[t]) + 1]>> IN
  /\ \E kept \in {buffer, new} \ {<<>>} :
       LET dropped == IF buffer = <<>> THEN {} ELSE {buffer[1], new[1]} \ {kept[1]} IN
       /\ buffer' = kept
       /\ lost' = [u \in Thread |-> lost[u] \cup {e.nth : e \in {d \in dropped : d.of = u}}]
  /\ txor' = (txor \/ buffer # <<>>)

WriteData_Resends(t) ==
  /\ at[t] = "write"
  /\ Store(t)
  /\ todo' = [todo EXCEPT ![t] = IF buffer = <<>> THEN Tail(@) ELSE @]
  /\ at' = [at EXCEPT ![t] = IF todo'[t] = <<>> THEN "idle" ELSE "poll"]
  /\ UNCHANGED <<target, up, program, called, handed, shifter, wire>>

WriteData_KeepsPolling(t) ==
  /\ at[t] = "write"
  /\ Store(t)
  /\ todo' = [todo EXCEPT ![t] = Tail(@)]
  /\ at' = [at EXCEPT ![t] = "poll"]
  /\ UNCHANGED <<target, up, program, called, handed, shifter, wire>>

(* DATA = c, and on to the next character.                                 *)
WriteData(t) ==
  /\ at[t] = "write"
  /\ Store(t)
  /\ todo' = [todo EXCEPT ![t] = Tail(@)]
  /\ at' = [at EXCEPT ![t] = IF todo'[t] = <<>> THEN "idle" ELSE "poll"]
  /\ UNCHANGED <<target, up, program, called, handed, shifter, wire>>

(* The UART.                                                               *)
Load ==
  /\ up /\ buffer # <<>> /\ shifter = <<>>
  /\ shifter' = buffer /\ buffer' = <<>>
  /\ UNCHANGED <<target, up, threads, txor, wire, lost>>

Transmit ==
  /\ shifter # <<>>
  /\ wire' = wire \o shifter /\ shifter' = <<>>
  /\ UNCHANGED <<target, up, threads, buffer, txor, lost>>

SendStep(t) == Poll(t) \/ WriteData(t)

Next ==
  \/ console_init \/ Load \/ Transmit
  \/ \E t \in Thread : (\E call \in Programs[program][t] : Call(t, call)) \/ SendStep(t)

Spec == Init /\ [][Next]_vars

(* The UART transmits, and as long as a thread can get on with its call,   *)
(* one does: the core executes the thread that scheduler_next() chose.     *)
(* Which one that is, is left open: a printer may be kept from the core    *)
(* for as long as others print.  No thread spins outside its calls         *)
(* (02_sleep: they sleep), and a chosen one that waits for TXBF waits for  *)
(* the UART.                                                               *)
SomeSends == \E t \in Thread : SendStep(t)

FairSpec == Spec /\ WF_vars(Load) /\ WF_vars(Transmit) /\ WF_vars(SomeSends)

-------------------------------------------------------------------------------
Entry == [of : Thread \cup {Main}, char : 0 .. 255, nth : Nat]
Buffers == {b \in Seq(Entry) : Len(b) <= 1}

TypeOK ==
  /\ target \in Target /\ program \in DOMAIN Programs /\ up \in BOOLEAN
  /\ at \in [Thread -> {"idle", "poll", "write"}]
  /\ \A t \in Thread : todo[t] \in Seq(0 .. 255) /\ (at[t] = "idle" <=> todo[t] = <<>>)
  /\ \A t \in Thread : handed[t] \in Seq(0 .. 255)
  /\ buffer \in Buffers /\ shifter \in Buffers
  /\ txor \in BOOLEAN
  /\ wire \in Seq(Entry)
  /\ \A t \in Thread : lost[t] \subseteq 1 .. Len(handed[t]) - Len(todo[t])

Sent(t) ==
  LET line == wire \o shifter \o buffer
  IN  FlattenSeq([i \in 1 .. Len(line) |-> IF line[i].of = t THEN <<line[i].char>> ELSE <<>>])

(* print_number() cannot negate the least int, and the offsets of a dump   *)
(* have four digits.                                                       *)
Printable(call) ==
  IF call.op = "printf"
  THEN \A i \in 1 .. Len(call.pieces) : call.pieces[i].conv = "d" => call.pieces[i].arg # IntMin
  ELSE Len(call.bytes) <= 16 ^ 4

(* What a thread that has the console to itself has printed says what it   *)
(* called for: every character is on the line, once and in order, and each *)
(* conversion reads back as its value.                                     *)
PrintsWhatIsMeant ==
  \A t \in Thread :
    /\ at[t] = "idle" /\ Len(called[t]) = 1 /\ (\A u \in Thread \ {t} : called[u] = <<>>)
    /\ Printable(called[t][1])
    => LET call == called[t][1] IN
       IF call.op = "printf"
       THEN Sent(t) = FlattenSeq([i \in 1 .. Len(call.pieces) |-> Meaning(call.pieces[i])])
       ELSE DumpOf(call.bytes, Sent(t))

(* As long as one thread alone prints, no store to DATA overruns.          *)
LonePrinterLosesNothing ==
  (\A t, u \in Thread : called[t] # <<>> /\ called[u] # <<>> => t = u)
  => ~txor /\ \A t \in Thread : lost[t] = {}

(* The inductive invariant behind it, for every program.                   *)
LoneInv ==
  /\ program \in DOMAIN Programs
  /\ called \in [Thread -> Seq(AllCalls)]
  /\ at \in [Thread -> {"idle", "poll", "write"}]
  /\ \A t \in Thread : called[t] = <<>> => at[t] = "idle"
  /\ ~up => \A t \in Thread : called[t] = <<>>
  /\ (\A t, u \in Thread : called[t] # <<>> /\ called[u] # <<>> => t = u)
     => \A t \in Thread : at[t] = "write" => buffer = <<>>
  /\ LonePrinterLosesNothing

(* w without its elements at the places gone.                              *)
Without(w, gone) == FlattenSeq([i \in 1 .. Len(w) |-> IF i \in gone THEN <<>> ELSE <<w[i]>>])

(* 02_sleep: "three interleaved streams".  Several threads print at once:  *)
(* every stream is on the line in its order, and lacks no characters but   *)
(* those that overruns took, which TXOR tells of.                          *)
StreamsInOrder ==
  \A t \in Thread :
    /\ Sent(t) \o todo[t] = Without(handed[t], lost[t])
    /\ lost[t] # {} => txor

(* Every call returns, in whichever order the scheduler lets the printers  *)
(* go on and however often another one fills the buffer between a poll     *)
(* that fails and the next: threads that make finitely many calls finish   *)
(* them all.                                                               *)
CallsReturn == \A t \in Thread : at[t] # "idle" ~> at[t] = "idle"
===============================================================================
