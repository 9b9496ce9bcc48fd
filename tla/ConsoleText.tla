------------------------------- MODULE ConsoleText -------------------------------
(***************************************************************************)
(* What the formatting functions of targets/*/src/console.c pass to        *)
(* putch(), as sequences of character codes.                               *)
(***************************************************************************)
EXTENDS Integers, SequencesExt

CONSTANTS
  IntBits,      \* the width of int and unsigned int (32 in the code)
  Unit          \* a double is a number of parts, Unit of which are 1

ASSUME WidthAssumption == IntBits \in Nat \ {0}
ASSUME UnitAssumption == Unit \in Nat \ {0}

NUL == 0
LF == 10
CR == 13
SPACE == 32
PERCENT == 37
MINUS == 45
DOT == 46
ZERO == 48
NINE == 57
UpperA == 65
UpperX == 88
LowerC == 99
LowerD == 100
LowerF == 102
LowerS == 115
LowerU == 117
LowerX == 120
BAR == 124

IntMin == -(2 ^ (IntBits - 1))

-------------------------------------------------------------------------------
(* n / base, i times: n >> 4 * i for base 16.                              *)
Shifted(n, base) ==
  LET left[i \in Nat] == IF i = 0 THEN n ELSE left[i - 1] \div base
  IN  left

Nibbles[v \in Nat] == IF v < 16 THEN 1 ELSE 1 + Nibbles[v \div 16]

HexDigit(nibble) == IF nibble < 10 THEN nibble + ZERO ELSE nibble - 10 + UpperA

print_hex_PadsOne(value, padding) ==
  LET n == Nibbles[value]
  IN  [i \in 1 .. padding - 1 |-> ZERO]
      \o [k \in 1 .. n |-> HexDigit(Shifted(value, 16)[n - k] % 16)]

print_hex(value, padding) ==
  LET n == Nibbles[value]
  IN  [i \in 1 .. padding - n |-> ZERO]
      \o [k \in 1 .. n |-> HexDigit(Shifted(value, 16)[n - k] % 16)]

(* The buffer of print_number_u(), which it then empties from its end.     *)
Filled[n \in Nat] == IF n = 0 THEN <<>> ELSE <<ZERO + (n % 10)>> \o Filled[n \div 10]

print_number_u(n) == IF n = 0 THEN <<ZERO>> ELSE Reverse(Filled[n])

(* C's n / 10 and n % 10, which truncate, and -n, which leaves INT_MIN as  *)
(* it is where the overflow wraps.                                         *)
Quotient(n) == IF n < 0 THEN -((-n) \div 10) ELSE n \div 10
Remainder(n) == n - 10 * Quotient(n)
Negated(n) == IF n = IntMin THEN n ELSE -n

print_number[n \in Int] ==
  LET m == IF n < 0 THEN Negated(n) ELSE n
  IN  (IF n < 0 THEN <<MINUS>> ELSE <<>>)
      \o (IF Quotient(m) # 0 THEN print_number[Quotient(m)] ELSE <<>>)
      \o <<Remainder(m) + ZERO>>

(* For a power of two up to 2^49 as Unit, the arithmetic of these doubles  *)
(* is exact: a part of 1 times 10 keeps within 53 bits.                    *)
Fraction(size) ==
  LET frac[i \in Nat] == IF i = 0 THEN size % Unit ELSE (frac[i - 1] * 10) % Unit
  IN  frac

print_float(val, precision) ==
  LET size == IF val < 0 THEN -val ELSE val
  IN  (IF val < 0 THEN <<MINUS>> ELSE <<>>)
      \o print_number_u(size \div Unit) \o <<DOT>>
      \o [i \in 1 .. precision |-> ZERO + (Fraction(size)[i - 1] * 10) \div Unit]

-------------------------------------------------------------------------------
Conversion(c, padding, arg) ==
  CASE c = LowerD -> print_number[arg]
    [] c = LowerU -> print_number_u(arg)
    [] c = LowerS -> arg
    [] c = LowerC -> <<arg>>
    [] c \in {LowerX, UpperX} -> print_hex(arg, padding)
    [] c = LowerF -> print_float(arg, 3)
    [] c = PERCENT -> <<PERCENT>>
    [] OTHER -> <<PERCENT, c>>

TakesArgument == {LowerD, LowerU, LowerS, LowerC, LowerX, UpperX, LowerF}

(* One round of the loop of console_printf().  A conversion is %, an       *)
(* optional 0 and one digit of padding, and a letter.  A format may not    *)
(* end inside one: the code would run past its terminator.                 *)
Round(format, args, s) ==
  LET char(i) == IF i <= Len(format) THEN format[i] ELSE NUL
      zero == char(s.at + 1) = ZERO
      digit == zero /\ char(s.at + 2) \in ZERO .. NINE
      letter == s.at + (IF digit THEN 3 ELSE IF zero THEN 2 ELSE 1)
  IN  IF char(s.at) = NUL THEN s
      ELSE IF char(s.at) # PERCENT
      THEN [at |-> s.at + 1, arg |-> s.arg, text |-> s.text \o <<char(s.at)>>]
      ELSE [at |-> letter + 1,
            arg |-> IF char(letter) \in TakesArgument THEN s.arg + 1 ELSE s.arg,
            text |-> s.text \o Conversion(char(letter), IF digit THEN char(s.at + 2) - ZERO ELSE 0,
                                          args[s.arg])]

Rounds(format, args) ==
  LET after[n \in Nat] == IF n = 0 THEN [at |-> 1, arg |-> 1, text |-> <<>>]
                          ELSE Round(format, args, after[n - 1])
  IN  after

console_printf(format, args) == Rounds(format, args)[Len(format)].text

(* console_hexdump(): the cell of column j and the row of offset i.        *)
HexCell(buf, i, j) ==
  (IF i + j < Len(buf) THEN print_hex(buf[i + j + 1], 2) ELSE <<SPACE, SPACE>>)
  \o <<SPACE>> \o (IF j = 7 THEN <<SPACE>> ELSE <<>>)

HexRow(buf, i) ==
  LET shown == IF i + 16 <= Len(buf) THEN 16 ELSE Len(buf) - i
  IN  print_hex(i, 4) \o <<SPACE, SPACE>> \o FlattenSeq([j \in 1 .. 16 |-> HexCell(buf, i, j - 1)])
      \o <<SPACE, BAR>>
      \o [j \in 1 .. shown |-> IF buf[i + j] \in 32 .. 126 THEN buf[i + j] ELSE DOT]
      \o <<BAR, CR, LF>>

HexRows(buf) == (Len(buf) + 15) \div 16

console_hexdump(buf) == FlattenSeq([r \in 1 .. HexRows(buf) |-> HexRow(buf, 16 * (r - 1))])

-------------------------------------------------------------------------------
(* What the text should be, said by position instead of by loop.           *)

(* The digits of n, as few as say it but at least width of them.           *)
Code == <<48, 49, 50, 51, 52, 53, 54, 55, 56, 57, 65, 66, 67, 68, 69, 70>>

Places(n, base, width) ==
  CHOOSE k \in 1 .. n + width + 1 :
    /\ k >= width /\ Shifted(n, base)[k] = 0
    /\ k = width \/ Shifted(n, base)[k - 1] # 0

Numeral(n, base, width) ==
  LET len == Places(n, base, width)
  IN  [p \in 1 .. len |-> Code[(Shifted(n, base)[len - p] % base) + 1]]

Size(n) == IF n < 0 THEN -n ELSE n
Sign(n) == IF n < 0 THEN <<MINUS>> ELSE <<>>

(* A piece of a format: a literal character or a conversion of a value of  *)
(* its type.                                                               *)
PieceOK(piece) ==
  /\ piece.pad \in 0 .. 9
  /\ \/ piece.conv = "literal" /\ piece.arg \in 1 .. 255
     \/ piece.conv = "d" /\ piece.arg \in IntMin .. -IntMin - 1
     \/ piece.conv \in {"u", "x"} /\ piece.arg \in 0 .. 2 ^ IntBits - 1
     \/ piece.conv = "s" /\ piece.arg \in Seq(1 .. 255)
     \/ piece.conv = "c" /\ piece.arg \in 0 .. 255
     \/ piece.conv = "f" /\ piece.arg \in Int /\ Size(piece.arg) < Unit * 2 ^ IntBits

(* Three decimals of a fraction, cut off and not rounded.                  *)
Decimals(size) == ((size % Unit) * 1000) \div Unit

(* Padding is for numerals in hexadecimal alone.                           *)
Meaning(piece) ==
  CASE piece.conv = "literal" -> <<piece.arg>>
    [] piece.conv = "d" -> Sign(piece.arg) \o Numeral(Size(piece.arg), 10, 1)
    [] piece.conv = "u" -> Numeral(piece.arg, 10, 1)
    [] piece.conv = "x" -> Numeral(piece.arg, 16, IF piece.pad = 0 THEN 1 ELSE piece.pad)
    [] piece.conv = "s" -> piece.arg
    [] piece.conv = "c" -> <<piece.arg>>
    [] piece.conv = "f" -> Sign(piece.arg) \o Numeral(Size(piece.arg) \div Unit, 10, 1) \o <<DOT>>
                           \o Numeral(Decimals(Size(piece.arg)), 10, 3)

Spelling(piece) ==
  LET padded == IF piece.pad = 0 THEN <<>> ELSE <<ZERO, ZERO + piece.pad>>
      letter == [d |-> LowerD, u |-> LowerU, x |-> UpperX, s |-> LowerS, c |-> LowerC, f |-> LowerF]
  IN  IF piece.conv # "literal" THEN <<PERCENT>> \o padded \o <<letter[piece.conv]>>
      ELSE IF piece.arg = PERCENT THEN <<PERCENT, PERCENT>> ELSE <<piece.arg>>

(* A dump reads back: row r, column by column, says the bytes and the      *)
(* offset, and the columns are in line.                                    *)
DumpOf(buf, text) ==
  LET rows == HexRows(buf)
      start(r) == r * 76
      rest(r) == IF Len(buf) >= 16 * (r + 1) THEN 16 ELSE Len(buf) - 16 * r
      column(j) == 7 + 3 * j + (IF j > 7 THEN 1 ELSE 0)
  IN  /\ Len(text) = IF rows = 0 THEN 0 ELSE start(rows - 1) + 60 + rest(rows - 1)
      /\ \A r \in 0 .. rows - 1 :
           LET row == SubSeq(text, start(r) + 1, start(r) + 60 + rest(r)) IN
           /\ SubSeq(row, 1, 4) = Numeral(16 * r, 16, 4)
           /\ row[57] = BAR /\ SubSeq(row, 58 + rest(r), 60 + rest(r)) = <<BAR, CR, LF>>
           /\ \A j \in 0 .. rest(r) - 1 :
                /\ SubSeq(row, column(j), column(j) + 1) = Numeral(buf[16 * r + j + 1], 16, 2)
                /\ row[58 + j] \in {buf[16 * r + j + 1], DOT}
===============================================================================
