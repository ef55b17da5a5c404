----------------------------- MODULE NumberHelper -----------------------------
(***************************************************************************)
(* number_helper.c.  A text is a sequence of ASCII codes without the final *)
(* NUL.  A double is an integer number of units of 10^-Scale, so that the  *)
(* error of binary fractions, far below the units shown, is left out.  The *)
(* automatic precision of ftoa and its bound are left out: nobody asks for *)
(* either.                                                                 *)
(***************************************************************************)
EXTENDS Integers, Sequences

Scale == 4

Minus == 45
Point == 46
Zero == 48

IsDigit(c) == c \in Zero .. Zero + 9
Ten[n \in Nat] == IF n = 0 THEN 1 ELSE 10 * Ten[n - 1]
Magnitude(x) == IF x < 0 THEN -x ELSE x

Decimal[n \in Nat] ==
  IF n < 10 THEN <<Zero + n>> ELSE Append(Decimal[n \div 10], Zero + (n % 10))

(* The digits are written from the end of the buffer.                       *)
ulltoa(x) == Decimal[x]

(* Whatever a character is, its distance from '0' is added.                 *)
atoull(text) ==
  LET x[k \in 0..Len(text)] == IF k = 0 THEN 0 ELSE 10 * x[k - 1] + (text[k] - Zero)
  IN x[Len(text)]

(* libc's atoi stops at the first character that is no digit.               *)
atoi(text) ==
  LET Stops == {i \in 1 .. Len(text) + 1 : i > Len(text) \/ ~IsDigit(text[i])}
      stop == CHOOSE i \in Stops : \A j \in Stops : i <= j
  IN atoull(SubSeq(text, 1, stop - 1))

TruncatedBug(f, precision) == Magnitude(f)

(* Half a unit of the last place is added before the rest is cut off, but   *)
(* not when no places are asked for.                                        *)
Rounded(f, precision) ==
  Magnitude(f) + IF precision = 0 THEN 0 ELSE 5 * Ten[Scale - precision - 1]

ftoa(f, precision) ==
  LET places == [i \in 1 .. precision |->
                   Zero + ((Rounded(f, precision) \div Ten[Scale - i]) % 10)]
  IN (IF f < 0 THEN <<Minus>> ELSE <<>>)
       \o Decimal[Rounded(f, precision) \div Ten[Scale]]
       \o (IF precision = 0 THEN <<>> ELSE <<Point>> \o places)

(* The number without its point, in units; what is smaller is cut off.      *)
Units(number) ==
  IF number.places <= Scale THEN number.rez * Ten[Scale - number.places]
  ELSE number.rez \div Ten[number.places - Scale]

(* A minus sign counts in front only; other characters are passed over.     *)
atof(text) ==
  LET negative == text # <<>> /\ Head(text) = Minus
      Read(n, c) ==
        IF c = Point THEN [n EXCEPT !.point_seen = TRUE]
        ELSE IF ~IsDigit(c) THEN n
        ELSE [n EXCEPT !.rez = 10 * @ + (c - Zero),
                       !.places = IF n.point_seen THEN @ + 1 ELSE @]
      start == [rez |-> 0, places |-> 0, point_seen |-> FALSE]
      read[k \in 0..Len(text)] == IF k = 0 THEN start ELSE Read(read[k - 1], text[k])
      number == read[Len(text)]
  IN (IF negative THEN -1 ELSE 1) * Units(number)
=============================================================================
