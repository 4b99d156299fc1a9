----------------------------- MODULE Netstring -----------------------------
(***************************************************************************)
(* Netstrings, the form in which the page to return to and the provider    *)
(* travel through the provider as one state parameter, and the number      *)
(* format they start with.                                                 *)
(***************************************************************************)
EXTENDS Numbers

\* What strlen measures in full.
IsText(str) == str \in Seq({str[k] : k \in DOMAIN str} \ {NUL})

\* The sign that ends a netstring.
Comma == ","

\* encode_netstringc.
encode_netstring(str) == ull_fmt(Len(str)) \o <<":">> \o str \o <<Comma>>

\* The text that starts at a place of a buffer, as the rest of the program reads it.
TextAt(buff, i) ==
    LET end == CHOOSE j \in i .. Len(buff) :
                  buff[j] = NUL /\ \A k \in i .. j - 1 : buff[k] # NUL
    IN  SubSeq(buff, i, end - 1)

Digit == {Charset[i] : i \in 1 .. Base}
ValueOf(c) == CHOOSE v \in 0 .. Base - 1 : Charset[v + 1] = c

\* strtoumax: the number at a place and the place of the first character after it.
strtoumax(buff, i) ==
    LET end == CHOOSE j \in i .. Len(buff) :
                  buff[j] \notin Digit /\ \A k \in i .. j - 1 : buff[k] \in Digit
        value[j \in i .. end] ==
            IF j = i THEN 0 ELSE Base * value[j - 1] + ValueOf(buff[j - 1])
    IN  [value |-> value[end], end |-> end]

\* NULL: no place of a buffer, which are counted from 1.
NullPointer == 0

\* The text starts at str and ends at last, where the comma becomes its NUL.
\* What is no netstring yields the null pointer and leaves *last, which the third
\* argument stands for, as it was.  A length that leads out of the buffer makes
\* the code read memory behind it, which is taken not to hold a comma.
decode_netstring_inplace(buff, i, last) ==
    LET size == strtoumax(buff, i)
        str == size.end + 1
        end_of_str == str + size.value
    IN  IF /\ buff[i] # NUL /\ buff[size.end] = ":"
           /\ end_of_str \in 1 .. Len(buff) /\ buff[end_of_str] = Comma
        THEN [buff |-> [buff EXCEPT ![end_of_str] = NUL], str |-> str, last |-> end_of_str]
        ELSE [buff |-> buff, str |-> NullPointer, last |-> last]
=============================================================================
