-------------------------- MODULE NetstringProofs --------------------------
(***************************************************************************)
(* Numbers and netstrings for every base, every number and every text.     *)
(* What a recursive function computes is shown by induction over sets of   *)
(* naturals: the least element of the set of counterexamples is refuted.   *)
(***************************************************************************)
EXTENDS Netstring, SequenceTheorems, WellFoundedInduction, TLAPS

\* A set of naturals has a least element unless it is empty.
LEMMA LeastNatural ==
  ASSUME NEW T \in SUBSET Nat, T # {}
  PROVE  \E x \in T : \A y \in T : x <= y
  <1>1. IsWellFoundedOn(OpToRel(<, Nat), Nat)
    BY NatLessThanWellFounded, Zenon
  <1>2. PICK x \in T : \A y \in T : ~(<<y, x>> \in OpToRel(<, Nat))
    BY <1>1, WFMin, Zenon
  <1>3. ASSUME NEW y \in T PROVE x <= y
    <2>1. <<y, x>> \notin OpToRel(<, Nat) /\ <<y, x>> \in Nat \X Nat
      BY <1>2, Zenon
    <2>2. ~(y < x)
      BY <2>1, Zenon DEF OpToRel
    <2> QED BY <2>2
  <1> QED BY <1>3

\* A set that has a natural whenever it has all smaller ones has them all.
LEMMA NaturalsByInduction ==
  ASSUME NEW S, \A n \in Nat : (\A m \in 0 .. n - 1 : m \in S) => n \in S
  PROVE  Nat \subseteq S
  <1> SUFFICES ASSUME Nat \ S # {} PROVE FALSE
    OBVIOUS
  <1>1. PICK n \in Nat \ S : \A m \in Nat \ S : n <= m
    BY LeastNatural
  <1>2. \A m \in 0 .. n - 1 : m \in S
    BY <1>1
  <1> QED BY <1>2

\* A set of naturals below a bound has a greatest element unless it is empty.
LEMMA GreatestNatural ==
  ASSUME NEW T, T # {}, NEW bound \in Nat, T \subseteq 0 .. bound
  PROVE  \E x \in T : \A y \in T : y <= x
  <1> DEFINE U == {bound - x : x \in T}
  <1>1. PICK u \in U : \A v \in U : u <= v
    <2>1. \A x \in T : bound - x \in Nat
      OBVIOUS
    <2>2. U \in SUBSET Nat
      BY <2>1, Zenon
    <2>3. U # {}
      OBVIOUS
    <2> HIDE DEF U
    <2> QED BY <2>2, <2>3, LeastNatural
  <1>2. PICK x \in T : u = bound - x
    OBVIOUS
  <1>3. \A y \in T : bound - x <= bound - y
    BY <1>1, <1>2
  <1> QED BY <1>3
-----------------------------------------------------------------------------
\* The value at each place of a set of naturals below the bound is a step from the
\* value at another place, which is smaller unless the step does not look at it.
Recursion(bound, D, V, prev, step) ==
    /\ bound \in Nat /\ D \subseteq 0 .. bound /\ V # {}
    /\ prev \in [D -> D] /\ step \in [D -> [V -> V]]
    /\ \A q \in D : prev[q] < q \/ \A v, w \in V : step[q][v] = step[q][w]

Solves(f, D, prev, step) == \A q \in D : f[q] = step[q][f[prev[q]]]

\* Every recursion has a solution.
LEMMA FunctionByRecursion ==
  ASSUME NEW bound, NEW D, NEW V, NEW prev, NEW step, Recursion(bound, D, V, prev, step)
  PROVE  \E f \in [D -> V] : Solves(f, D, prev, step)
  <1> USE DEF Recursion, Solves
  <1> DEFINE Upto(n) == {q \in D : q <= n}
             S == {n \in Nat : \E f \in [D -> V] : \A q \in Upto(n) : f[q] = step[q][f[prev[q]]]}
  <1>1. \A q \in D : q \in Nat /\ q <= bound /\ prev[q] \in D /\ prev[q] \in Nat
    <2>1. \A q \in D : q \in Nat /\ q <= bound
      OBVIOUS
    <2>2. \A q \in D : prev[q] \in D
      OBVIOUS
    <2> QED BY <2>1, <2>2, Zenon
  <1>2. ASSUME NEW n \in Nat, \A m \in 0 .. n - 1 : m \in S PROVE n \in S
    <2>1. \E f \in [D -> V] : \A q \in D : q < n => f[q] = step[q][f[prev[q]]]
      <3>1. CASE n = 0
        <4>1. PICK f : f \in [D -> V]
          <5>1. [q \in D |-> CHOOSE v \in V : TRUE] \in [D -> V]
            OBVIOUS
          <5> QED BY <5>1
        <4>2. \A q \in D : ~(q < n)
          BY <3>1, <1>1
        <4> QED BY <4>1, <4>2
      <3>2. CASE n # 0
        <4>1. n - 1 \in 0 .. n - 1
          BY <3>2
        <4>2. n - 1 \in S
          BY <4>1, <1>2, Zenon
        <4>3. \A q \in D : q < n => q \in Upto(n - 1)
          BY <1>1
        <4> QED BY <4>2, <4>3
      <3> QED BY <3>1, <3>2
    <2>2. PICK f \in [D -> V] : \A q \in D : q < n => f[q] = step[q][f[prev[q]]]
      BY <2>1
    <2> DEFINE g == [q \in D |-> IF q < n THEN f[q] ELSE step[q][f[prev[q]]]]
    <2>3. g \in [D -> V]
      BY <1>1
    <2>4. ASSUME NEW q \in Upto(n) PROVE g[q] = step[q][g[prev[q]]]
      <3>1. q \in D /\ q \in Nat /\ q <= n
        BY <1>1
      <3>2. g[q] = step[q][f[prev[q]]]
        BY <2>2, <3>1
      <3>3. CASE prev[q] < q
        <4>1. g[prev[q]] = f[prev[q]]
          BY <3>1, <3>3, <1>1
        <4> QED BY <3>2, <4>1
      <3>4. CASE \A v, w \in V : step[q][v] = step[q][w]
        <4>1. f[prev[q]] \in V /\ g[prev[q]] \in V
          BY <2>3, <3>1, <1>1
        <4> HIDE DEF g
        <4> QED BY <3>2, <3>4, <4>1
      <3> QED BY <3>1, <3>3, <3>4
    <2> HIDE DEF g
    <2> QED BY <2>3, <2>4
  <1> HIDE DEF S
  <1>3. bound \in S
    BY <1>2, NaturalsByInduction
  <1>4. \A q \in D : q \in Upto(bound)
    BY <1>1
  <1> QED BY <1>3, <1>4 DEF S
-----------------------------------------------------------------------------
(* Numbers.                                                                *)

\* A number is its quotient and its last digit.
LEMMA Quotient ==
  ASSUME NEW q \in Nat
  PROVE  /\ q \div Base \in Nat /\ q % Base \in 0 .. Base - 1
         /\ q >= Base => q \div Base < q
         /\ q = Base * (q \div Base) + (q % Base)
         /\ q < Base => q % Base = q
  BY BaseAssumption

\* No two digits look the same, and none looks like the colon.
LEMMA CharsetFacts ==
  /\ Len(Charset) = 36
  /\ \A i, j \in 1 .. 36 : Charset[i] = Charset[j] => i = j
  /\ \A i \in 1 .. 36 : Charset[i] # ":"
  <1>1. Len(Charset) = 36
    BY DEF Charset
  <1>2. \A i, j \in 1 .. 36 : Charset[i] = Charset[j] => i = j
    BY DEF Charset
  <1>3. \A i \in 1 .. 36 : Charset[i] # ":"
    BY SMTT(60) DEF Charset
  <1> QED BY <1>1, <1>2, <1>3

\* Every digit of the base has a character.
LEMMA DigitPlaces == \A v \in 0 .. Base - 1 : v \in 0 .. 35 /\ v + 1 \in 1 .. Base /\ v + 1 \in 1 .. 36
  BY BaseAssumption

\* The character of a digit stands for it.
LEMMA DigitFacts ==
  ASSUME NEW v \in 0 .. Base - 1
  PROVE  fmtscan_asc(v) \in Digit /\ ValueOf(fmtscan_asc(v)) = v
  <1>1. fmtscan_asc(v) = Charset[v + 1]
    <2>1. Len(Charset) - 1 = 35 /\ v \in 0 .. 35
      BY DigitPlaces, CharsetFacts
    <2> QED BY <2>1 DEF fmtscan_asc
  <1>2. \A u \in 0 .. Base - 1 : Charset[u + 1] = Charset[v + 1] => u = v
    <2> SUFFICES ASSUME NEW u \in 0 .. Base - 1, Charset[u + 1] = Charset[v + 1] PROVE u = v
      OBVIOUS
    <2>1. u + 1 \in 1 .. 36 /\ v + 1 \in 1 .. 36
      BY DigitPlaces
    <2>2. u + 1 = v + 1
      BY <2>1, CharsetFacts, Zenon
    <2> QED BY <2>2, BaseAssumption
  <1>3. ValueOf(Charset[v + 1]) = v
    BY <1>2, Zenon DEF ValueOf
  <1>4. Charset[v + 1] \in Digit
    BY DigitPlaces DEF Digit
  <1> QED BY <1>1, <1>3, <1>4

\* The colon after a length is no digit of it.
LEMMA ColonIsNoDigit == ":" \notin Digit
  <1>1. \A i \in 1 .. Base : i \in 1 .. 36
    BY BaseAssumption
  <1> QED BY <1>1, CharsetFacts, Zenon DEF Digit

\* The counting loop.
LEMMA CountingLoop ==
  ASSUME NEW d \in Nat
  PROVE  \E len \in [0 .. d -> Nat] :
            /\ fmt_get_length(d, Base) = len[d]
            /\ \A q \in 0 .. d : len[q] = IF q >= Base THEN 1 + len[q \div Base] ELSE 1
  <1> DEFINE prev == [q \in 0 .. d |-> q \div Base]
             step == [q \in 0 .. d |-> [v \in Nat |-> IF q >= Base THEN 1 + v ELSE 1]]
             len == CHOOSE f : f = [q \in 0 .. d |-> IF q >= Base THEN 1 + f[q \div Base] ELSE 1]
  <1>1. \A q \in 0 .. d : q \div Base \in 0 .. d /\ (q >= Base => q \div Base < q)
    BY Quotient, BaseAssumption
  <1>2. \E f \in [0 .. d -> Nat] : Solves(f, 0 .. d, prev, step)
    <2>1. prev \in [0 .. d -> 0 .. d] /\ step \in [0 .. d -> [Nat -> Nat]]
      BY <1>1
    <2>2. \A q \in 0 .. d : prev[q] < q \/ \A v, w \in Nat : step[q][v] = step[q][w]
      BY <1>1
    <2> HIDE DEF prev, step
    <2>3. Recursion(d, 0 .. d, Nat, prev, step)
      BY <2>1, <2>2 DEF Recursion
    <2> QED BY <2>3, FunctionByRecursion
  <1>3. \E f : f = [q \in 0 .. d |-> IF q >= Base THEN 1 + f[q \div Base] ELSE 1]
    <2>1. PICK f \in [0 .. d -> Nat] : \A q \in 0 .. d : f[q] = step[q][f[prev[q]]]
      BY <1>2 DEF Solves
    <2>2. \A q \in 0 .. d : f[q] = IF q >= Base THEN 1 + f[q \div Base] ELSE 1
      BY <2>1, <1>1
    <2>3. f = [q \in 0 .. d |-> f[q]]
      OBVIOUS
    <2>4. f = [q \in 0 .. d |-> IF q >= Base THEN 1 + f[q \div Base] ELSE 1]
      BY <2>2, <2>3
    <2> QED BY <2>4
  <1>4. len = [q \in 0 .. d |-> IF q >= Base THEN 1 + len[q \div Base] ELSE 1]
    BY <1>3
  <1>5. fmt_get_length(d, Base) = len[d]
    BY DEF fmt_get_length
  <1> HIDE DEF len
  <1>6. \A q \in 0 .. d : len[q] = IF q >= Base THEN 1 + len[q \div Base] ELSE 1
    BY <1>4
  <1>7. \A q \in 0 .. d : len[q] \in Nat
    <2> DEFINE S == {n \in Nat : n \in 0 .. d => len[n] \in Nat}
    <2>1. ASSUME NEW n \in Nat, \A m \in 0 .. n - 1 : m \in S PROVE n \in S
      <3> SUFFICES ASSUME n \in 0 .. d PROVE len[n] \in Nat
        OBVIOUS
      <3>1. CASE n < Base
        BY <3>1, <1>6, BaseAssumption
      <3>2. CASE n >= Base
        <4>1. n \div Base \in 0 .. n - 1 /\ n \div Base \in 0 .. d
          BY <3>2, <1>1
        <4>2. n \div Base \in S
          BY <4>1, <2>1, Zenon
        <4>3. len[n] = 1 + len[n \div Base]
          BY <3>2, <1>6
        <4> QED BY <4>1, <4>2, <4>3
      <3> QED BY <3>1, <3>2, BaseAssumption
    <2> HIDE DEF S
    <2>2. Nat \subseteq S
      BY <2>1, NaturalsByInduction
    <2> QED BY <2>2 DEF S
  <1>8. len \in [0 .. d -> Nat]
    BY <1>4, <1>7
  <1> QED BY <1>5, <1>6, <1>8

\* The writing loop.
LEMMA WritingLoop ==
  ASSUME NEW d \in Nat
  PROVE  \E written \in [0 .. d -> Seq(Digit)] :
            /\ Digits(d, Base) = written[d]
            /\ \A q \in 0 .. d :
                  written[q] = IF q < Base THEN <<fmtscan_asc(q)>>
                               ELSE Append(written[q \div Base], fmtscan_asc(q % Base))
  <1> DEFINE prev == [q \in 0 .. d |-> q \div Base]
             step == [q \in 0 .. d |-> [v \in Seq(Digit) |->
                         IF q < Base THEN <<fmtscan_asc(q)>> ELSE Append(v, fmtscan_asc(q % Base))]]
             written == CHOOSE f : f = [q \in 0 .. d |->
                           IF q < Base THEN <<fmtscan_asc(q)>>
                           ELSE Append(f[q \div Base], fmtscan_asc(q % Base))]
  <1>1. \A q \in 0 .. d : q \div Base \in 0 .. d /\ (q >= Base => q \div Base < q)
    BY Quotient, BaseAssumption
  <1>2. \A q \in 0 .. d : /\ fmtscan_asc(q % Base) \in Digit
                          /\ q < Base => <<fmtscan_asc(q)>> \in Seq(Digit)
    <2> TAKE q \in 0 .. d
    <2>1. q % Base \in 0 .. Base - 1
      BY Quotient
    <2>2. q < Base => q \in 0 .. Base - 1
      BY BaseAssumption
    <2> QED BY <2>1, <2>2, DigitFacts
  <1>3. \E f \in [0 .. d -> Seq(Digit)] : Solves(f, 0 .. d, prev, step)
    <2>1. prev \in [0 .. d -> 0 .. d]
      BY <1>1
    <2>2. step \in [0 .. d -> [Seq(Digit) -> Seq(Digit)]]
      <3>1. \A q \in 0 .. d : \A v \in Seq(Digit) : Append(v, fmtscan_asc(q % Base)) \in Seq(Digit)
        BY <1>2
      <3> QED BY <3>1, <1>2
    <2>3. ASSUME NEW q \in 0 .. d
          PROVE  prev[q] < q \/ \A v, w \in Seq(Digit) : step[q][v] = step[q][w]
      <3>1. CASE q < Base
        <4>1. \A v \in Seq(Digit) : step[q][v] = <<fmtscan_asc(q)>>
          BY <3>1
        <4> QED BY <4>1
      <3>2. CASE q >= Base
        BY <3>2, <1>1
      <3> QED BY <3>1, <3>2, BaseAssumption
    <2>4. <<>> \in Seq(Digit)
      OBVIOUS
    <2> HIDE DEF prev, step
    <2>5. Recursion(d, 0 .. d, Seq(Digit), prev, step)
      BY <2>1, <2>2, <2>3, <2>4 DEF Recursion
    <2> QED BY <2>5, FunctionByRecursion
  <1>4. PICK g \in [0 .. d -> Seq(Digit)] :
           \A q \in 0 .. d : g[q] = IF q < Base THEN <<fmtscan_asc(q)>>
                                    ELSE Append(g[q \div Base], fmtscan_asc(q % Base))
    <2>1. PICK f \in [0 .. d -> Seq(Digit)] : \A q \in 0 .. d : f[q] = step[q][f[prev[q]]]
      BY <1>3 DEF Solves
    <2>2. ASSUME NEW q \in 0 .. d
          PROVE  f[q] = IF q < Base THEN <<fmtscan_asc(q)>>
                        ELSE Append(f[q \div Base], fmtscan_asc(q % Base))
      <3>1. f[q] = step[q][f[q \div Base]] /\ f[q \div Base] \in Seq(Digit)
        BY <2>1, <1>1
      <3> QED BY <3>1
    <2> QED BY <2>2
  <1>5. g = [q \in 0 .. d |-> IF q < Base THEN <<fmtscan_asc(q)>>
                              ELSE Append(g[q \div Base], fmtscan_asc(q % Base))]
    <2>1. g = [q \in 0 .. d |-> g[q]]
      OBVIOUS
    <2> QED BY <2>1, <1>4
  <1>6. written = [q \in 0 .. d |-> IF q < Base THEN <<fmtscan_asc(q)>>
                                    ELSE Append(written[q \div Base], fmtscan_asc(q % Base))]
    BY <1>5
  <1>7. Digits(d, Base) = written[d]
    BY DEF Digits
  <1> HIDE DEF written
  <1>8. \A q \in 0 .. d : written[q] = IF q < Base THEN <<fmtscan_asc(q)>>
                                       ELSE Append(written[q \div Base], fmtscan_asc(q % Base))
    BY <1>6
  <1>9. \A q \in 0 .. d : written[q] \in Seq(Digit)
    <2> DEFINE S == {n \in Nat : n \in 0 .. d => written[n] \in Seq(Digit)}
    <2>1. ASSUME NEW n \in Nat, \A m \in 0 .. n - 1 : m \in S PROVE n \in S
      <3> SUFFICES ASSUME n \in 0 .. d PROVE written[n] \in Seq(Digit)
        OBVIOUS
      <3> HIDE DEF S
      <3>1. CASE n < Base
        BY <3>1, <1>2, <1>8
      <3>2. CASE n >= Base
        <4>1. n \div Base \in 0 .. n - 1 /\ n \div Base \in 0 .. d
          BY <3>2, <1>1
        <4>2. n \div Base \in S
          BY <4>1, <2>1, Zenon
        <4>3. written[n] = Append(written[n \div Base], fmtscan_asc(n % Base))
          <5>1. ~(n < Base)
            BY <3>2, BaseAssumption
          <5> QED BY <5>1, <1>8, Zenon
        <4>4. written[n \div Base] \in Seq(Digit) /\ fmtscan_asc(n % Base) \in Digit
          BY <4>1, <4>2, <1>2 DEF S
        <4> QED BY <4>3, <4>4
      <3> QED BY <3>1, <3>2, BaseAssumption
    <2> HIDE DEF S
    <2>2. Nat \subseteq S
      BY <2>1, NaturalsByInduction
    <2> QED BY <2>2 DEF S
  <1>10. written \in [0 .. d -> Seq(Digit)]
    BY <1>6, <1>9
  <1> QED BY <1>7, <1>8, <1>10

\* The two loops agree: the number fills exactly the part of the buffer that was
\* counted.
THEOREM LoopsAgree ==
  ASSUME NEW d \in Nat
  PROVE  /\ Digits(d, Base) \in Seq(Digit)
         /\ Len(Digits(d, Base)) = fmt_get_length(d, Base)
         /\ fmt_get_length(d, Base) \in Nat \ {0}
         /\ fmt_generic(d, Base) = Digits(d, Base)
  <1>1. PICK len \in [0 .. d -> Nat] :
           /\ fmt_get_length(d, Base) = len[d]
           /\ \A q \in 0 .. d : len[q] = IF q >= Base THEN 1 + len[q \div Base] ELSE 1
    BY CountingLoop
  <1>2. PICK written \in [0 .. d -> Seq(Digit)] :
           /\ Digits(d, Base) = written[d]
           /\ \A q \in 0 .. d :
                 written[q] = IF q < Base THEN <<fmtscan_asc(q)>>
                              ELSE Append(written[q \div Base], fmtscan_asc(q % Base))
    BY WritingLoop
  <1> DEFINE S == {n \in Nat : n \in 0 .. d => Len(written[n]) = len[n]}
  <1>3. ASSUME NEW n \in Nat, \A m \in 0 .. n - 1 : m \in S PROVE n \in S
    <2> SUFFICES ASSUME n \in 0 .. d PROVE Len(written[n]) = len[n]
      OBVIOUS
    <2> HIDE DEF S
    <2>1. CASE n < Base
      <3>1. written[n] = <<fmtscan_asc(n)>> /\ len[n] = 1
        BY <2>1, <1>1, <1>2, BaseAssumption
      <3> QED BY <3>1
    <2>2. CASE n >= Base
      <3>1. n \div Base \in 0 .. n - 1 /\ n \div Base \in 0 .. d
        <4>1. n \div Base \in Nat /\ n \div Base < n
          BY <2>2, Quotient
        <4> QED BY <4>1
      <3>2. n \div Base \in S
        BY <3>1, <1>3, Zenon
      <3>3. /\ written[n] = Append(written[n \div Base], fmtscan_asc(n % Base))
            /\ len[n] = 1 + len[n \div Base]
        <4>1. ~(n < Base)
          BY <2>2, BaseAssumption
        <4>2. written[n] = Append(written[n \div Base], fmtscan_asc(n % Base))
          BY <4>1, <1>2, Zenon
        <4> QED BY <4>2, <2>2, <1>1, Zenon
      <3>4. written[n \div Base] \in Seq(Digit) /\ Len(written[n \div Base]) = len[n \div Base]
        BY <3>1, <3>2, <1>2 DEF S
      <3>5. Len(written[n]) = Len(written[n \div Base]) + 1
        BY <3>3, <3>4
      <3> QED BY <3>3, <3>4, <3>5, <1>1, <3>1
    <2> QED BY <2>1, <2>2, BaseAssumption
  <1> HIDE DEF S
  <1>4. d \in S
    BY <1>3, NaturalsByInduction
  <1>5. Digits(d, Base) \in Seq(Digit) /\ Len(Digits(d, Base)) = fmt_get_length(d, Base)
    BY <1>1, <1>2, <1>4 DEF S
  <1>6. fmt_get_length(d, Base) \in Nat \ {0}
    <2>1. d >= Base => d \div Base \in 0 .. d
      BY Quotient, BaseAssumption
    <2> QED BY <1>1, <2>1
  <1>7. fmt_generic(d, Base) = Digits(d, Base)
    BY <1>5, <1>6 DEF fmt_generic
  <1> QED BY <1>5, <1>6, <1>7

\* strtoumax stops at the first character that is no digit, and computes by its loop.
LEMMA ReadingLoop ==
  ASSUME NEW buff, Len(buff) \in Nat, NEW i \in Nat, NEW end \in i .. Len(buff),
         buff[end] \notin Digit, \A k \in i .. end - 1 : buff[k] \in Digit
  PROVE  \E value \in [i .. end -> Nat] :
            /\ strtoumax(buff, i) = [value |-> value[end], end |-> end]
            /\ \A j \in i .. end :
                  value[j] = IF j = i THEN 0 ELSE Base * value[j - 1] + ValueOf(buff[j - 1])
  <1> DEFINE prev == [j \in i .. end |-> IF j = i THEN i ELSE j - 1]
             step == [j \in i .. end |-> [v \in Nat |->
                         IF j = i THEN 0 ELSE Base * v + ValueOf(buff[j - 1])]]
             End == CHOOSE j \in i .. Len(buff) :
                       buff[j] \notin Digit /\ \A k \in i .. j - 1 : buff[k] \in Digit
             value == CHOOSE f : f = [j \in i .. end |->
                         IF j = i THEN 0 ELSE Base * f[j - 1] + ValueOf(buff[j - 1])]
  <1>1. End = end
    <2>1. ASSUME NEW j \in i .. Len(buff),
                 buff[j] \notin Digit, \A k \in i .. j - 1 : buff[k] \in Digit
          PROVE  j = end
      <3>1. ~(j < end)
        <4> SUFFICES ASSUME j < end PROVE FALSE
          OBVIOUS
        <4>1. j \in i .. end - 1
          OBVIOUS
        <4> QED BY <4>1, <2>1
      <3>2. ~(end < j)
        <4> SUFFICES ASSUME end < j PROVE FALSE
          OBVIOUS
        <4>1. end \in i .. j - 1
          OBVIOUS
        <4> QED BY <4>1, <2>1
      <3> QED BY <3>1, <3>2
    <2> QED BY <2>1
  <1>2. \A j \in i .. end : j # i => ValueOf(buff[j - 1]) \in Nat /\ j - 1 \in i .. end
    <2>1. \A c \in Digit : ValueOf(c) \in Nat
      <3> SUFFICES ASSUME NEW p \in 1 .. Base PROVE ValueOf(Charset[p]) \in Nat
        BY DEF Digit
      <3>1. p - 1 \in 0 .. Base - 1 /\ Charset[(p - 1) + 1] = Charset[p]
        BY BaseAssumption
      <3>2. \E v \in 0 .. Base - 1 : Charset[v + 1] = Charset[p]
        BY <3>1
      <3>3. ValueOf(Charset[p]) \in 0 .. Base - 1
        BY <3>2, Zenon DEF ValueOf
      <3> QED BY <3>3, BaseAssumption
    <2>2. \A j \in i .. end : j # i => j - 1 \in i .. end - 1 /\ j - 1 \in i .. end
      OBVIOUS
    <2> QED BY <2>1, <2>2
  <1>3. \E f \in [i .. end -> Nat] : Solves(f, i .. end, prev, step)
    <2>1. prev \in [i .. end -> i .. end]
      BY <1>2
    <2>2. step \in [i .. end -> [Nat -> Nat]]
      <3>1. \A j \in i .. end : \A v \in Nat : j # i => Base * v + ValueOf(buff[j - 1]) \in Nat
        <4> SUFFICES ASSUME NEW j \in i .. end, NEW v \in Nat, j # i
                     PROVE  Base * v + ValueOf(buff[j - 1]) \in Nat
          OBVIOUS
        <4>1. \A a, b, c \in Nat : a * b + c \in Nat
          OBVIOUS
        <4> QED BY <4>1, <1>2, BaseAssumption
      <3> QED BY <3>1
    <2>3. \A j \in i .. end : prev[j] < j \/ \A v, w \in Nat : step[j][v] = step[j][w]
      OBVIOUS
    <2> HIDE DEF prev, step
    <2>4. Recursion(end, i .. end, Nat, prev, step)
      <3>1. end \in Nat /\ i .. end \subseteq 0 .. end /\ Nat # {}
        OBVIOUS
      <3> QED BY <2>1, <2>2, <2>3, <3>1, Zenon DEF Recursion
    <2> QED BY <2>4, FunctionByRecursion
  <1>4. PICK g \in [i .. end -> Nat] :
           \A j \in i .. end : g[j] = IF j = i THEN 0 ELSE Base * g[j - 1] + ValueOf(buff[j - 1])
    <2>1. PICK f \in [i .. end -> Nat] : \A j \in i .. end : f[j] = step[j][f[prev[j]]]
      BY <1>3 DEF Solves
    <2>2. ASSUME NEW j \in i .. end
          PROVE  f[j] = IF j = i THEN 0 ELSE Base * f[j - 1] + ValueOf(buff[j - 1])
      <3>1. f[j] = step[j][f[prev[j]]] /\ prev[j] \in i .. end
        BY <2>1, <1>2
      <3>2. f[prev[j]] \in Nat
        BY <3>1
      <3> QED BY <3>1, <3>2
    <2> QED BY <2>2
  <1>5. g = [j \in i .. end |-> IF j = i THEN 0 ELSE Base * g[j - 1] + ValueOf(buff[j - 1])]
    <2>1. g = [j \in i .. end |-> g[j]]
      OBVIOUS
    <2> QED BY <2>1, <1>4
  <1>6. value = [j \in i .. end |-> IF j = i THEN 0 ELSE Base * value[j - 1] + ValueOf(buff[j - 1])]
    BY <1>5
  <1>7. strtoumax(buff, i) = [value |-> value[end], end |-> end]
    BY <1>1 DEF strtoumax
  <1> HIDE DEF value
  <1>8. \A j \in i .. end : value[j] = IF j = i THEN 0 ELSE Base * value[j - 1] + ValueOf(buff[j - 1])
    BY <1>6
  <1>9. \A j \in i .. end : value[j] \in Nat
    <2> DEFINE S == {n \in Nat : n \in i .. end => value[n] \in Nat}
    <2>1. ASSUME NEW n \in Nat, \A m \in 0 .. n - 1 : m \in S PROVE n \in S
      <3> SUFFICES ASSUME n \in i .. end PROVE value[n] \in Nat
        OBVIOUS
      <3> HIDE DEF S
      <3>1. CASE n = i
        BY <3>1, <1>8
      <3>2. CASE n # i
        <4>1. n - 1 \in 0 .. n - 1 /\ n - 1 \in i .. end
          BY <3>2
        <4>2. n - 1 \in S
          BY <4>1, <2>1, Zenon
        <4>3. value[n - 1] \in Nat /\ ValueOf(buff[n - 1]) \in Nat
          BY <4>1, <4>2, <3>2, <1>2 DEF S
        <4>4. value[n] = Base * value[n - 1] + ValueOf(buff[n - 1])
          BY <3>2, <1>8, Zenon
        <4>5. Base \in Nat
          BY BaseAssumption
        <4>6. \A a, b, c \in Nat : a * b + c \in Nat
          OBVIOUS
        <4>7. Base * value[n - 1] + ValueOf(buff[n - 1]) \in Nat
          BY <4>3, <4>5, <4>6
        <4> QED BY <4>4, <4>7, Zenon
      <3> QED BY <3>1, <3>2
    <2> HIDE DEF S
    <2>2. Nat \subseteq S
      BY <2>1, NaturalsByInduction
    <2> QED BY <2>2 DEF S
  <1>10. value \in [i .. end -> Nat]
    BY <1>6, <1>9
  <1> QED BY <1>7, <1>8, <1>10

\* The text stands in the buffer at a place.
Stands(text, buff, i) == \A k \in 1 .. Len(text) : buff[i + k - 1] = text[k]

\* A number that was written reads back as itself, up to the first character after it.
THEOREM NumberReadsBack ==
  ASSUME NEW d \in Nat, NEW buff, Len(buff) \in Nat, NEW i \in Nat,
         Stands(fmt_generic(d, Base), buff, i),
         i + fmt_get_length(d, Base) <= Len(buff),
         buff[i + fmt_get_length(d, Base)] \notin Digit
  PROVE  strtoumax(buff, i) = [value |-> d, end |-> i + fmt_get_length(d, Base)]
  <1> DEFINE end == i + fmt_get_length(d, Base)
  <1>1. PICK len \in [0 .. d -> Nat] :
           /\ fmt_get_length(d, Base) = len[d]
           /\ \A q \in 0 .. d : len[q] = IF q >= Base THEN 1 + len[q \div Base] ELSE 1
    BY CountingLoop
  <1>2. PICK written \in [0 .. d -> Seq(Digit)] :
           /\ Digits(d, Base) = written[d]
           /\ \A q \in 0 .. d :
                 written[q] = IF q < Base THEN <<fmtscan_asc(q)>>
                              ELSE Append(written[q \div Base], fmtscan_asc(q % Base))
    BY WritingLoop
  <1>3. end \in i .. Len(buff) /\ end > i /\ end - i = Len(written[d])
    <2>1. fmt_get_length(d, Base) \in Nat \ {0} /\ fmt_get_length(d, Base) = Len(written[d])
      BY <1>2, LoopsAgree
    <2> QED BY <2>1
  <1>4. \A k \in 1 .. end - i : buff[i + k - 1] = written[d][k] /\ written[d][k] \in Digit
    <2> TAKE k \in 1 .. end - i
    <2>1. fmt_generic(d, Base) = written[d] /\ written[d] \in Seq(Digit)
      BY <1>2, LoopsAgree
    <2>2. k \in 1 .. Len(written[d])
      BY <1>3
    <2> QED BY <2>1, <2>2 DEF Stands
  <1>5. \A k \in i .. end - 1 : buff[k] \in Digit
    <2> TAKE k \in i .. end - 1
    <2>1. k - i + 1 \in 1 .. end - i /\ i + (k - i + 1) - 1 = k
      BY <1>3
    <2> QED BY <2>1, <1>4
  <1>6. PICK value \in [i .. end -> Nat] :
           /\ strtoumax(buff, i) = [value |-> value[end], end |-> end]
           /\ \A j \in i .. end :
                 value[j] = IF j = i THEN 0 ELSE Base * value[j - 1] + ValueOf(buff[j - 1])
    <2>1. buff[end] \notin Digit /\ end \in i .. Len(buff)
      BY <1>3
    <2> HIDE DEF end
    <2> QED BY <2>1, <1>5, ReadingLoop
  <1> DEFINE S == {n \in Nat :
                      n \in 0 .. d /\ (\A k \in 1 .. Len(written[n]) : written[d][k] = written[n][k])
                          /\ Len(written[n]) <= Len(written[d])
                      => value[i + Len(written[n])] = n}
  <1>7. ASSUME NEW n \in Nat, \A m \in 0 .. n - 1 : m \in S PROVE n \in S
    <2> SUFFICES ASSUME n \in 0 .. d, \A k \in 1 .. Len(written[n]) : written[d][k] = written[n][k],
                        Len(written[n]) <= Len(written[d])
                 PROVE  value[i + Len(written[n])] = n
      OBVIOUS
    <2> HIDE DEF S, end
    <2> DEFINE last == Len(written[n])
    <2>1. last \in Nat
      BY <1>2
    <2>2. last > 0 => /\ value[i + last] = Base * value[i + last - 1] + ValueOf(written[n][last])
      <3> SUFFICES ASSUME last > 0
                   PROVE  value[i + last] = Base * value[i + last - 1] + ValueOf(written[n][last])
        OBVIOUS
      <3> HIDE DEF last
      <3>1. last \in 1 .. end - i /\ i + last \in i .. end /\ i + last # i
        BY <1>3, <2>1 DEF last
      <3>2. value[i + last] = Base * value[i + last - 1] + ValueOf(buff[i + last - 1])
        BY <3>1, <1>6
      <3>3. buff[i + last - 1] = written[n][last]
        BY <3>1, <1>4, <2>1 DEF last
      <3> QED BY <3>2, <3>3
    <2>3. CASE n < Base
      <3>1. written[n] = <<fmtscan_asc(n)>> /\ n \in 0 .. Base - 1
        BY <2>3, <1>2, BaseAssumption
      <3>2. last = 1 /\ written[n][last] = fmtscan_asc(n)
        BY <3>1
      <3>3. value[i] = 0 /\ i + 1 - 1 = i
        BY <1>6, <1>3
      <3>4. value[i + last] = Base * 0 + n
        BY <3>1, <3>2, <3>3, <2>2, DigitFacts
      <3> QED BY <3>4, BaseAssumption
    <2>4. CASE n >= Base
      <3> DEFINE m == n \div Base
      <3>1. m \in Nat /\ m < n /\ n % Base \in 0 .. Base - 1 /\ n = Base * m + (n % Base)
        BY <2>4, Quotient
      <3> HIDE DEF m
      <3>2. m \in 0 .. n - 1 /\ m \in 0 .. d
        BY <3>1
      <3>3. m \in S
        BY <3>2, <1>7, Zenon
      <3>4. written[n] = Append(written[m], fmtscan_asc(n % Base))
        <4>1. ~(n < Base)
          BY <2>4, BaseAssumption
        <4> QED BY <4>1, <1>2, Zenon DEF m
      <3>5. written[m] \in Seq(Digit)
        BY <3>2, <1>2
      <3>6. /\ last = Len(written[m]) + 1 /\ written[n][last] = fmtscan_asc(n % Base)
            /\ Len(written[m]) \in Nat
            /\ \A k \in 1 .. Len(written[m]) : written[n][k] = written[m][k]
        BY <3>4, <3>5
      <3>7. value[i + Len(written[m])] = m
        <4>1. Len(written[m]) <= Len(written[d])
          BY <3>6, <1>2
        <4>2. \A k \in 1 .. Len(written[m]) : written[d][k] = written[m][k]
          BY <3>6
        <4> QED BY <3>2, <3>3, <4>1, <4>2 DEF S
      <3>8. i + last - 1 = i + Len(written[m]) /\ last > 0
        BY <3>6
      <3>9. value[i + last] = Base * m + (n % Base)
        BY <2>2, <3>1, <3>6, <3>7, <3>8, DigitFacts
      <3> QED BY <3>1, <3>9
    <2> QED BY <2>3, <2>4, BaseAssumption
  <1> HIDE DEF S
  <1>8. d \in S
    BY <1>7, NaturalsByInduction
  <1>9. value[end] = d
    <2>1. Len(written[d]) = end - i /\ i + (end - i) = end
      BY <1>3
    <2>2. value[i + Len(written[d])] = d
      BY <1>8, <1>2 DEF S
    <2> QED BY <2>1, <2>2
  <1> QED BY <1>6, <1>9

\* No digit is the NUL.
LEMMA NulIsNoDigit == NUL \notin Digit
  <1>1. \A p \in 1 .. Base : p \in DOMAIN Charset
    BY BaseAssumption DEF Charset
  <1> QED BY <1>1, NulAssumption DEF Digit

\* A number with nothing but the NUL behind it is read to its end.
LEMMA TextOfNumberReadsBack ==
  ASSUME NEW d \in Nat
  PROVE  LET text == Append(si_fmt(d), NUL)
         IN  strtoumax(text, 1) = [value |-> d, end |-> Len(text)]
  <1> DEFINE number == fmt_generic(d, Base)
             size == fmt_get_length(d, Base)
             text == Append(number, NUL)
             C == Digit \union {NUL}
  <1>1. number \in Seq(Digit) /\ Len(number) = size /\ size \in Nat
    BY LoopsAgree
  <1> HIDE DEF number, size
  <1>2. /\ Len(text) = size + 1
        /\ \A k \in 1 .. size : text[k] = number[k]
        /\ text[size + 1] = NUL
    <2>1. number \in Seq(C)
      BY <1>1
    <2> HIDE DEF C
    <2>2. NUL \in C
      BY DEF C
    <2> QED BY <1>1, <2>1, <2>2, AppendProperties
  <1> HIDE DEF text
  <1>3. Stands(number, text, 1)
    <2>1. \A k \in 1 .. size : text[1 + k - 1] = number[k]
      BY <1>1, <1>2
    <2> QED BY <2>1, <1>1 DEF Stands
  <1>4. strtoumax(text, 1) = [value |-> d, end |-> 1 + size]
    <2>1. Len(text) \in Nat /\ 1 \in Nat /\ 1 + size <= Len(text) /\ 1 + size = size + 1
      BY <1>1, <1>2
    <2>2. text[1 + size] \notin Digit
      BY <2>1, <1>2, NulIsNoDigit
    <2> QED BY <1>3, <2>1, <2>2, NumberReadsBack DEF number, size
  <1>5. Len(text) = 1 + size
    BY <1>1, <1>2
  <1> QED BY <1>4, <1>5, Zenon DEF text, number, si_fmt
-----------------------------------------------------------------------------
(* Netstrings.                                                             *)

\* A text is a sequence in which NUL does not occur.
LEMMA TextFacts ==
  ASSUME NEW str, IsText(str), NEW C, \A k \in DOMAIN str : str[k] \in C
  PROVE  str \in Seq(C) /\ Len(str) \in Nat /\ \A k \in 1 .. Len(str) : str[k] # NUL
  <1> DEFINE T == {str[k] : k \in DOMAIN str} \ {NUL}
  <1>1. str \in Seq(T)
    BY DEF IsText
  <1>2. Len(str) \in Nat /\ DOMAIN str = 1 .. Len(str) /\ \A k \in 1 .. Len(str) : str[k] \in T
    <2> HIDE DEF T
    <2> QED BY <1>1
  <1>3. \A k \in 1 .. Len(str) : str[k] # NUL
    BY <1>2
  <1>4. str \in Seq(C)
    <2>1. str \in [1 .. Len(str) -> T]
      <3> HIDE DEF T
      <3> QED BY <1>1
    <2>2. str \in [1 .. Len(str) -> C]
      <3> HIDE DEF T
      <3> QED BY <1>2, <2>1
    <2> QED BY <1>2, <2>2
  <1> QED BY <1>2, <1>3, <1>4

\* The text at a place is the one that stands there with a NUL behind it.
LEMMA TextStands ==
  ASSUME NEW C, NEW buff \in Seq(C), NEW i \in Nat \ {0}, NEW str, IsText(str),
         Stands(str, buff, i), i + Len(str) <= Len(buff), buff[i + Len(str)] = NUL
  PROVE  TextAt(buff, i) = str
  <1> DEFINE end == i + Len(str)
             End == CHOOSE j \in i .. Len(buff) :
                       buff[j] = NUL /\ \A k \in i .. j - 1 : buff[k] # NUL
             Own == {str[k] : k \in DOMAIN str}
  <1>1. /\ Len(str) \in Nat /\ str \in Seq(Own)
        /\ \A k \in 1 .. Len(str) : str[k] # NUL
    <2>1. \A k \in DOMAIN str : str[k] \in Own
      OBVIOUS
    <2> HIDE DEF Own
    <2> QED BY <2>1, TextFacts
  <1>2. end \in i .. Len(buff) /\ buff[end] = NUL
    BY <1>1
  <1>3. \A k \in i .. end - 1 : buff[k] # NUL
    <2> TAKE k \in i .. end - 1
    <2>1. k - i + 1 \in 1 .. Len(str) /\ i + (k - i + 1) - 1 = k
      BY <1>1
    <2> QED BY <2>1, <1>1 DEF Stands
  <1>4. End = end
    <2>1. ASSUME NEW j \in i .. Len(buff), buff[j] = NUL, \A k \in i .. j - 1 : buff[k] # NUL
          PROVE  j = end
      <3> HIDE DEF end
      <3>1. ~(j < end)
        <4> SUFFICES ASSUME j < end PROVE FALSE
          OBVIOUS
        <4>1. j \in i .. end - 1
          BY <1>2
        <4> QED BY <4>1, <2>1, <1>3
      <3>2. ~(end < j)
        <4> SUFFICES ASSUME end < j PROVE FALSE
          OBVIOUS
        <4>1. end \in i .. j - 1
          BY <1>2
        <4> QED BY <4>1, <2>1, <1>2
      <3> QED BY <3>1, <3>2, <1>2
    <2> HIDE DEF end
    <2> QED BY <2>1, <1>2, <1>3
  <1>5. TextAt(buff, i) = SubSeq(buff, i, end - 1)
    BY <1>4 DEF TextAt
  <1>6. SubSeq(buff, i, end - 1) = [k \in 1 .. Len(str) |-> buff[i + k - 1]]
    <2>1. end - 1 \in Nat /\ end - 1 <= Len(buff) /\ Len(buff) \in Nat
      BY <1>1, <1>2
    <2> QED BY <2>1, <1>1
  <1>7. str = [k \in 1 .. Len(str) |-> str[k]]
    <2> HIDE DEF Own
    <2> QED BY <1>1
  <1> QED BY <1>1, <1>5, <1>6, <1>7 DEF Stands

\* The parts of a netstring.
LEMMA EncodedParts ==
  ASSUME NEW str, IsText(str),
         NEW C, Digit \subseteq C, ":" \in C, Comma \in C, \A k \in DOMAIN str : str[k] \in C
  PROVE  LET size == fmt_get_length(Len(str), Base)
             encoded == encode_netstring(str)
         IN  /\ Len(str) \in Nat /\ size \in Nat \ {0}
             /\ encoded \in Seq(C) /\ Len(encoded) = size + Len(str) + 2
             /\ \A k \in 1 .. size : encoded[k] = fmt_generic(Len(str), Base)[k]
             /\ encoded[1] \in Digit
             /\ encoded[size + 1] = ":"
             /\ \A k \in 1 .. Len(str) : encoded[size + 1 + k] = str[k]
             /\ encoded[size + Len(str) + 2] = Comma
  <1> DEFINE size == fmt_get_length(Len(str), Base)
             number == fmt_generic(Len(str), Base)
             encoded == encode_netstring(str)
  <1>1. str \in Seq(C) /\ Len(str) \in Nat
    BY TextFacts
  <1>2. number \in Seq(Digit) /\ Len(number) = size /\ size \in Nat \ {0}
    BY <1>1, LoopsAgree
  <1>3. encoded = number \o <<":">> \o str \o <<Comma>>
    BY DEF encode_netstring, ull_fmt
  <1>0. Len(str) \in Nat /\ size \in Nat /\ size > 0
    BY <1>1, <1>2
  <1> HIDE DEF size, number, encoded
  <1>4. number \in Seq(C) /\ number[1] \in Digit
    <2>1. number \in [1 .. size -> Digit]
      BY <1>2, LenProperties
    <2>2. number[1] \in Digit
      BY <2>1, <1>0
    <2>3. number \in [1 .. size -> C]
      BY <2>1
    <2>4. number \in Seq(C)
      BY <2>3, <1>0
    <2> QED BY <2>2, <2>4
  <1>5. /\ number \o <<":">> \in Seq(C) /\ Len(number \o <<":">>) = size + 1
        /\ \A k \in 1 .. size : (number \o <<":">>)[k] = number[k]
        /\ (number \o <<":">>)[size + 1] = ":"
    <2>1. <<":">> \in Seq(C) /\ Len(<<":">>) = 1
      OBVIOUS
    <2>2. number \in Seq(C) /\ Len(number) = size
      BY <1>2, <1>4
    <2>3. /\ number \o <<":">> \in Seq(C)
          /\ Len(number \o <<":">>) = size + 1
          /\ \A k \in 1 .. size + 1 : (number \o <<":">>)[k] = IF k <= size THEN number[k] ELSE <<":">>[k - size]
      BY <2>1, <2>2, ConcatProperties
    <2> QED BY <2>3, <1>0
  <1> DEFINE head == number \o <<":">>
  <1>6. /\ head \o str \in Seq(C) /\ Len(head \o str) = size + 1 + Len(str)
        /\ \A k \in 1 .. size + 1 : (head \o str)[k] = head[k]
        /\ \A k \in 1 .. Len(str) : (head \o str)[size + 1 + k] = str[k]
    <2>1. head \in Seq(C) /\ Len(head) = size + 1
      BY <1>5
    <2> HIDE DEF head
    <2>2. /\ head \o str \in Seq(C)
          /\ Len(head \o str) = size + 1 + Len(str)
          /\ \A k \in 1 .. size + 1 + Len(str) : (head \o str)[k] =
                IF k <= size + 1 THEN head[k] ELSE str[k - (size + 1)]
      BY <2>1, <1>1, ConcatProperties
    <2> QED BY <2>2, <1>0
  <1> DEFINE body == head \o str
  <1>7. /\ encoded \in Seq(C) /\ Len(encoded) = size + Len(str) + 2
        /\ \A k \in 1 .. size + 1 + Len(str) : encoded[k] = body[k]
        /\ encoded[size + Len(str) + 2] = Comma
    <2>1. encoded = body \o <<Comma>> /\ body \in Seq(C) /\ Len(body) = size + 1 + Len(str)
      BY <1>3, <1>6
    <2>2. <<Comma>> \in Seq(C) /\ Len(<<Comma>>) = 1
      OBVIOUS
    <2> HIDE DEF body
    <2>3. /\ encoded \in Seq(C)
          /\ Len(encoded) = size + 1 + Len(str) + 1
          /\ \A k \in 1 .. size + 1 + Len(str) + 1 : encoded[k] =
                IF k <= size + 1 + Len(str) THEN body[k] ELSE <<Comma>>[k - (size + 1 + Len(str))]
      BY <2>1, <2>2, ConcatProperties
    <2> QED BY <2>3, <1>0
  <1>8. \A k \in 1 .. size : encoded[k] = number[k]
    <2> TAKE k \in 1 .. size
    <2>1. k \in 1 .. size + 1 + Len(str) /\ k \in 1 .. size + 1
      BY <1>0
    <2>2. encoded[k] = body[k] /\ body[k] = head[k] /\ head[k] = number[k]
      BY <2>1, <1>5, <1>6, <1>7, Zenon
    <2> QED BY <2>2
  <1>9. encoded[size + 1] = ":"
    <2>1. size + 1 \in 1 .. size + 1 + Len(str) /\ size + 1 \in 1 .. size + 1
      BY <1>0
    <2>2. encoded[size + 1] = body[size + 1] /\ body[size + 1] = head[size + 1]
      BY <2>1, <1>6, <1>7, Zenon
    <2> QED BY <2>2, <1>5
  <1>10. \A k \in 1 .. Len(str) : encoded[size + 1 + k] = str[k]
    <2> TAKE k \in 1 .. Len(str)
    <2>1. size + 1 + k \in 1 .. size + 1 + Len(str)
      BY <1>0
    <2>2. encoded[size + 1 + k] = body[size + 1 + k] /\ body[size + 1 + k] = str[k]
      BY <2>1, <1>6, <1>7, Zenon
    <2> QED BY <2>2
  <1>11. encoded[1] \in Digit
    <2>1. 1 \in 1 .. size
      BY <1>0
    <2> QED BY <2>1, <1>4, <1>8
  <1> QED BY <1>1, <1>2, <1>7, <1>8, <1>9, <1>10, <1>11 DEF size, number, encoded

\* A netstring that stands in a buffer is decoded to the place of its text, with a
\* NUL behind it, whatever *last was before.
THEOREM EncodedDecodes ==
  ASSUME NEW str, IsText(str), NEW buff, Len(buff) \in Nat, NEW i \in Nat \ {0}, NEW before,
         Stands(encode_netstring(str), buff, i), i + Len(encode_netstring(str)) - 1 <= Len(buff)
  PROVE  LET start == i + fmt_get_length(Len(str), Base) + 1
             last == start + Len(str)
         IN  decode_netstring_inplace(buff, i, before)
                 = [buff |-> [buff EXCEPT ![last] = NUL], str |-> start, last |-> last]
  <1> DEFINE size == fmt_get_length(Len(str), Base)
             encoded == encode_netstring(str)
             C == Digit \union {":", Comma} \union {str[k] : k \in DOMAIN str}
             read == strtoumax(buff, i)
             start == i + size + 1
             last == start + Len(str)
  <1>1. /\ Len(str) \in Nat /\ size \in Nat \ {0}
        /\ Len(encoded) = size + Len(str) + 2
        /\ \A k \in 1 .. size : encoded[k] = fmt_generic(Len(str), Base)[k]
        /\ encoded[1] \in Digit
        /\ encoded[size + 1] = ":"
        /\ encoded[size + Len(str) + 2] = Comma
    <2>1. Digit \subseteq C /\ ":" \in C /\ Comma \in C /\ \A k \in DOMAIN str : str[k] \in C
      OBVIOUS
    <2> HIDE DEF C
    <2> QED BY <2>1, EncodedParts
  <1>0. Len(str) \in Nat /\ size \in Nat /\ size > 0 /\ Len(encoded) = size + Len(str) + 2
    BY <1>1
  <1> HIDE DEF C, size, encoded
  <1>2. /\ buff[i] \in Digit /\ buff[i + size] = ":" /\ buff[last] = Comma
        /\ last \in 1 .. Len(buff) /\ i + size <= Len(buff)
    <2>1. \A k \in 1 .. size + Len(str) + 2 : buff[i + k - 1] = encoded[k]
      BY <1>0 DEF Stands, encoded
    <2>2. 1 \in 1 .. size + Len(str) + 2 /\ i + 1 - 1 = i
      BY <1>0
    <2>3. size + 1 \in 1 .. size + Len(str) + 2 /\ i + (size + 1) - 1 = i + size
      BY <1>0
    <2>4. /\ size + Len(str) + 2 \in 1 .. size + Len(str) + 2
          /\ i + (size + Len(str) + 2) - 1 = last
      BY <1>0
    <2>5. last \in 1 .. Len(buff) /\ i + size <= Len(buff)
      BY <1>0 DEF encoded
    <2> HIDE DEF last, start
    <2> QED BY <2>1, <2>2, <2>3, <2>4, <2>5, <1>1
  <1>3. read = [value |-> Len(str), end |-> i + size]
    <2>1. Stands(fmt_generic(Len(str), Base), buff, i)
      <3>1. Len(fmt_generic(Len(str), Base)) = size
        BY <1>0, LoopsAgree DEF size
      <3>2. \A k \in 1 .. size : k \in 1 .. Len(encoded)
        BY <1>0
      <3> QED BY <3>1, <3>2, <1>1 DEF Stands, encoded
    <2>2. buff[i + size] \notin Digit
      BY <1>2, ColonIsNoDigit
    <2> QED BY <2>1, <2>2, <1>0, <1>2, NumberReadsBack DEF size
  <1>4. buff[i] # NUL
    BY <1>2, NulIsNoDigit
  <1>5. read.value = Len(str) /\ read.end = i + size
    BY <1>3
  <1> HIDE DEF read
  <1> QED BY <1>2, <1>4, <1>5 DEF decode_netstring_inplace, read, size

=============================================================================
