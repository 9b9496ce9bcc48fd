-------------------------------- MODULE MCConsole --------------------------------
(* One thread that prints anything, three that print at once, or two that  *)
(* print twice.                                                            *)
EXTENDS Console

CONSTANTS t1, t2, t3

Piece(conv, pad, arg) == [conv |-> conv, pad |-> pad, arg |-> arg]
Literals(text) == [i \in 1 .. Len(text) |-> Piece("literal", 0, text[i])]
Printf(pieces) == [op |-> "printf", pieces |-> pieces]
Hexdump(bytes) == [op |-> "hexdump", bytes |-> bytes]

(* All of a small int.                                                     *)
Ints == IntMin .. -IntMin - 1
Uints == 0 .. 2 ^ IntBits - 1

Numbers ==
  {Printf(<<Piece("d", 0, n)>>) : n \in Ints}
  \cup {Printf(<<Piece("u", 0, n)>>) : n \in Uints}
  \cup {Printf(<<Piece("x", p, n)>>) : p \in 0 .. 9, n \in {0, 1, 9, 10, 15, 16, 255, 256, 511} \cap Uints}
  \cup {Printf(<<Piece("f", 0, n)>>) : n \in -2 * Unit - 1 .. 2 * Unit + 1}

(* Formats like those of the examples, every kind of piece, and dumps that *)
(* end before, at and after the end of a row.                              *)
Mixed ==
  { Printf(<<>>),
    Printf(Literals(<<PERCENT, CR, LF>>)),
    Printf(Literals(<<PERCENT, ZERO>>) \o <<Piece("u", 0, 7), Piece("c", 0, 65)>>),
    Printf(<<Piece("s", 0, <<65, 66>>), Piece("d", 0, -1), Piece("literal", 0, DOT),
             Piece("x", 8, 171), Piece("s", 0, <<>>), Piece("u", 0, 10)>>) }
  \cup {Hexdump([i \in 1 .. n |-> (37 * i) % 256]) : n \in {0, 1, 15, 16, 17, 33}}

(* The padding of a conversion that pays no heed to it.                    *)
Padded == {Printf(<<Piece(conv, 8, 10)>>) : conv \in {"d", "u", "f"}}

Anything == Numbers \cup Padded \cup Mixed
Short == {Printf(<<Piece("d", 0, -1)>>)}

Alone == [t \in Thread |-> IF t = t1 THEN Anything ELSE {}]
Together == [t \in Thread |-> Short]
Again == [t \in Thread |-> IF t = t3 THEN {} ELSE {Printf(<<Piece("c", 0, 65)>>), Printf(<<Piece("u", 0, 10)>>)}]
Either == [alone |-> Alone, together |-> Together, again |-> Again]
Calls == [alone |-> 1, together |-> 1, again |-> 2]
===============================================================================
