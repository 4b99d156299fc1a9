------------------------------ MODULE Numbers ------------------------------
(***************************************************************************)
(* The number formatting of utils.c.  A text is a sequence of characters.  *)
(* Each function first counts the digits and then writes them backwards    *)
(* from the place the count points to, in a second loop of its own: what   *)
(* it leaves in the buffer is right only if the two loops agree.           *)
(***************************************************************************)
EXTENDS Integers, Sequences

CONSTANTS
    Base,   \* of the numbers in texts and pages: 10 in the code
    NUL     \* the character that ends a text

ASSUME BaseAssumption == Base \in 2 .. 36

Charset ==
    <<"0", "1", "2", "3", "4", "5", "6", "7", "8", "9",
      "a", "b", "c", "d", "e", "f", "g", "h", "i", "j", "k", "l", "m",
      "n", "o", "p", "q", "r", "s", "t", "u", "v", "w", "x", "y", "z">>

ASSUME NulAssumption == \A i \in DOMAIN Charset : Charset[i] # NUL

fmtscan_asc(c) == IF c \in 0 .. Len(Charset) - 1 THEN Charset[c + 1] ELSE NUL

\* Fault: a power of the base is counted one digit short.
LengthShort(d, base) ==
    LET len[q \in 0 .. d] == IF q > base THEN 1 + len[q \div base] ELSE 1 IN len[d]

\* The counting loop of umax_fmt_generic and of si_fmt_generic.
fmt_get_length(d, base) ==
    LET len[q \in 0 .. d] == IF q >= base THEN 1 + len[q \div base] ELSE 1 IN len[d]

\* Fault: zero is written without a digit.
DigitsWhile(d, base) ==
    LET written[q \in 0 .. d] ==
            IF q = 0 THEN <<>> ELSE Append(written[q \div base], fmtscan_asc(q % base))
    IN  written[d]

\* What the writing loop leaves, last digit last.
Digits(d, base) ==
    LET written[q \in 0 .. d] ==
            IF q < base THEN <<fmtscan_asc(q)>>
            ELSE Append(written[q \div base], fmtscan_asc(q % base))
    IN  written[d]

\* The part of the buffer whose size is returned, before the writing NUL; digits
\* that do not fit would go before it.
fmt_generic(d, base) ==
    LET len == fmt_get_length(d, base)
        unused == len - Len(Digits(d, base))
    IN  [i \in 1 .. len |-> IF i > unused THEN Digits(d, base)[i - unused] ELSE NUL]

\* ull_fmt, ui_fmt and size_fmt, and si_fmt of a number that is not negative.
ull_fmt(d) == fmt_generic(d, Base)
si_fmt(d) == fmt_generic(d, Base)
=============================================================================
