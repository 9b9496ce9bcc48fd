---------------------------------- MODULE Leds ----------------------------------
(***************************************************************************)
(* The LED functions of targets/*/src/board.c, called by threads that the  *)
(* kernel may preempt between any two accesses to the port.  Every LED has *)
(* one thread that drives it, as in 01_blink.  One build has one board:    *)
(* gowin_m1 rewrites DATAOUT, m1core has SET and CLR registers.            *)
(***************************************************************************)
EXTENDS Naturals

CONSTANTS
  Thread, Pin,
  Owner,        \* the thread that drives each LED
  Users         \* per board, the threads that drive their LEDs

Board == {"gowin_m1", "m1core"}

ASSUME OwnerAssumption == Owner \in [Pin -> Thread]
ASSUME UsersAssumption == Users \in [Board -> SUBSET Thread]

VARIABLES
  board,        \* the target the program was built for
  port,         \* the pins that are high: DATAOUT, on m1core DATA
  at,           \* per thread, its next access to the port; "idle" outside calls
  pin,          \* per thread, the pin of its call
  high,         \* per thread, whether the branch taken sets the pin
  seen,         \* per thread, the value it loaded
  asked         \* history: the pins whose owner last asked for them to be high

vars == <<board, port, at, pin, high, seen, asked>>

(* board_init() ends in GPIO_Init(), which leaves every output low.        *)
Init ==
  /\ board \in Board
  /\ port = {} /\ asked = {}
  /\ at = [t \in Thread |-> "idle"]
  /\ pin \in [Thread -> Pin]
  /\ high = [t \in Thread |-> FALSE]
  /\ seen = [t \in Thread |-> {}]

Call(t, p, first) ==
  /\ at[t] = "idle" /\ t \in Users[board] /\ Owner[p] = t
  /\ at' = [at EXCEPT ![t] = first]
  /\ pin' = [pin EXCEPT ![t] = p]
  /\ UNCHANGED <<board, port>>

Access(t, now, then) ==
  /\ at[t] = now
  /\ at' = [at EXCEPT ![t] = then]
  /\ UNCHANGED <<board, pin, high, asked>>

Flip(S, p) == IF p \in S THEN S \ {p} ELSE S \cup {p}
Assign(S, p, h) == IF h THEN S \cup {p} ELSE S \ {p}

-------------------------------------------------------------------------------
(* led_write(): the branch on its argument.                                *)
led_write(t, p, h) ==
  /\ Call(t, p, IF board = "m1core" THEN "write" ELSE "load")
  /\ high' = [high EXCEPT ![t] = h]
  /\ asked' = Assign(asked, p, h)
  /\ UNCHANGED seen

(* led_toggle() of gowin_m1: the load of DATAOUT that is tested.           *)
TestDataOut(t, p) ==
  /\ board = "gowin_m1"
  /\ Call(t, p, "load")
  /\ high' = [high EXCEPT ![t] = p \notin port]
  /\ asked' = Flip(asked, p)
  /\ UNCHANGED seen

(* DATAOUT |= pin, or DATAOUT &= ~pin: DATAOUT is loaded once more ...     *)
LoadDataOut(t) ==
  /\ Access(t, "load", "store")
  /\ seen' = [seen EXCEPT ![t] = port]
  /\ UNCHANGED port

(* ... and stored, all pins of it.                                         *)
StoreDataOut(t) ==
  /\ Access(t, "store", "idle")
  /\ port' = Assign(seen[t], pin[t], high[t])
  /\ UNCHANGED seen

(* GPIO_Toggle() of m1core: cur = DATA ...                                 *)
LoadData(t, p) ==
  /\ board = "m1core"
  /\ Call(t, p, "set")
  /\ seen' = [seen EXCEPT ![t] = port]
  /\ asked' = Flip(asked, p)
  /\ UNCHANGED high

WriteSet_Whole(t) ==
  /\ Access(t, "set", "clr")
  /\ port' = seen[t] \cup {pin[t]}
  /\ UNCHANGED seen

(* ... SET = ~cur & mask ...                                               *)
WriteSet(t) ==
  /\ Access(t, "set", "clr")
  /\ port' = port \cup ({pin[t]} \ seen[t])
  /\ UNCHANGED seen

WriteClr_Again(t) ==
  /\ Access(t, "clr", "idle")
  /\ port' = port \ {pin[t]}
  /\ UNCHANGED seen

(* ... CLR = cur & mask.                                                   *)
WriteClr(t) ==
  /\ Access(t, "clr", "idle")
  /\ port' = port \ ({pin[t]} \cap seen[t])
  /\ UNCHANGED seen

(* GPIO_Set() and GPIO_Clear() of m1core.                                  *)
WritePin(t) ==
  /\ Access(t, "write", "idle")
  /\ port' = Assign(port, pin[t], high[t])
  /\ UNCHANGED seen

Next ==
  \E t \in Thread :
    \/ \E p \in Pin : \/ \E h \in BOOLEAN : led_write(t, p, h)
                      \/ TestDataOut(t, p) \/ LoadData(t, p)
    \/ LoadDataOut(t) \/ StoreDataOut(t)
    \/ WriteSet(t) \/ WriteClr(t) \/ WritePin(t)

Spec == Init /\ [][Next]_vars

-------------------------------------------------------------------------------
(* 01_blink: the LEDs are "steady and independent".  When its thread is    *)
(* not in a call for it, a LED is as its thread last asked, whatever other *)
(* threads have done to theirs meanwhile.                                  *)
LedsAsAsked ==
  \A p \in Pin : at[Owner[p]] = "idle" \/ pin[Owner[p]] # p => (p \in port <=> p \in asked)

TypeOK ==
  /\ board \in Board
  /\ port \in SUBSET Pin
  /\ at \in [Thread -> {"idle", "load", "store", "set", "clr", "write"}]
  /\ pin \in [Thread -> Pin]
  /\ high \in [Thread -> BOOLEAN]
  /\ seen \in [Thread -> SUBSET Pin]
  /\ asked \in SUBSET Pin

(* How far each call has come, while at most one thread rewrites DATAOUT.  *)
CallInv ==
  \A t \in Thread :
    LET p == pin[t] IN
    /\ at[t] # "idle" => Owner[p] = t /\ t \in Users[board]
    /\ at[t] \in {"load", "store"} => board = "gowin_m1"
    /\ at[t] \in {"load", "store", "write"} => (high[t] <=> p \in asked)
    /\ at[t] = "store" => seen[t] = port
    /\ at[t] \in {"set", "clr"} => board = "m1core" /\ (p \in seen[t] <=> p \notin asked)
    /\ at[t] = "set" => (p \in port <=> p \in seen[t])
    /\ at[t] = "clr" => p \in port

IInv == TypeOK /\ CallInv /\ LedsAsAsked
================================================================================
