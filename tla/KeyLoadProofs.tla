--------------------------- MODULE KeyLoadProofs ---------------------------
(***************************************************************************)
(* KeyLoad for every size of the first buffer and of the file: the buffer  *)
(* is never overrun, nothing of the key stays in the buffers that          *)
(* slurp_file allocates, and a key that fits the first one is loaded in    *)
(* full.                                                                   *)
(***************************************************************************)
EXTENDS KeyLoad, TLAPS

USE BufSizeAssumption, MaxFileAssumption

\* What the loop of slurp_file keeps true of its three sizes: the write
\* position is at most one byte behind file_sz, and there is room to go on.
Sizes ==
    /\ allocSz >= 2
    /\ fileSz = taken + 1 /\ fileSz <= allocSz
    /\ data \in {fileSz - 1, fileSz}
    /\ pc \in {"open", "reading"} => fileSz < allocSz
    /\ pc \in {"slurped", "parsed", "wiped"} => charsSz = fileSz - 1

\* Where the buffer can hold a byte of the file, and where it cannot.
Contents ==
    /\ \A b \in released : \A i \in DOMAIN b : b[i] = 0
    /\ \A i \in 0 .. allocSz - 1 : i >= data => buf[i] = 0
    /\ pc \in {"slurped", "parsed"} => buf[fileSz - 1] = 0
    /\ pc = "wiped" => \A i \in 0 .. allocSz - 1 : buf[i] = 0

\* Until the first buffer is full, it holds the beginning of the file.
FirstBuffer ==
    /\ taken < BufSize - 1 => allocSz = BufSize /\ data = taken
    /\ taken < BufSize /\ pc # "wiped" => \A i \in 0 .. taken - 1 : buf[i] = i + 1

\* The inductive invariant.
IInv == TypeOK /\ Sizes /\ Contents /\ FirstBuffer

\* Before the file is opened nothing is read and the buffer is zero.
LEMMA InitIInv == Init => IInv
  BY DEF Init, IInv, TypeOK, Sizes, Contents, FirstBuffer, Zeros, Byte

\* Growing gives room for more and keeps what is there.
LEMMA GrownIsLarger ==
  ASSUME allocSz \in Nat, allocSz >= 2
  PROVE  Grown \in Nat /\ Grown > allocSz
  BY DEF Grown

\* A turn of the loop, with and without a growth of the buffer.
LEMMA ReadIInv == ASSUME IInv, Read PROVE IInv'
  <1> USE DEF IInv
  <1>1. PICK n \in 1 .. Room :
          /\ taken + n <= file
          /\ taken' = taken + n
          /\ fileSz' = fileSz + n
          /\ LET filled == [i \in DOMAIN buf |->
                               IF i \in data .. data + n - 1 THEN taken + 1 + i - data ELSE buf[i]]
             IN IF fileSz + n = allocSz
                THEN /\ allocSz' = Grown
                     /\ buf' = [i \in 0 .. Grown - 1 |-> IF i < allocSz THEN filled[i] ELSE 0]
                     /\ released' = released \union {Outgrown(filled)}
                     /\ data' = fileSz + n
                ELSE /\ buf' = filled
                     /\ data' = data + n
                     /\ UNCHANGED <<allocSz, released>>
    BY DEF Read
  <1> DEFINE filled == [i \in 0 .. allocSz - 1 |->
                           IF i \in data .. data + n - 1 THEN taken + 1 + i - data ELSE buf[i]]
  <1>2. /\ pc = "reading" /\ pc' = pc /\ file' = file /\ charsSz' = charsSz
        /\ n \in Nat /\ n >= 1 /\ fileSz + n <= allocSz
        /\ data \in Nat /\ taken \in Nat /\ fileSz \in Nat /\ allocSz \in Nat /\ file \in 0 .. MaxFile
        /\ DOMAIN buf = 0 .. allocSz - 1
    BY <1>1 DEF Read, TypeOK, Room
  <1>3. /\ filled \in [0 .. allocSz - 1 -> Byte]
        /\ \A i \in 0 .. allocSz - 1 : i >= data + n => filled[i] = 0
    BY <1>1, <1>2 DEF TypeOK, Sizes, Contents, Byte
  <1>4. ASSUME taken + n < BufSize PROVE \A i \in 0 .. taken + n - 1 : filled[i] = i + 1
    <2>1. allocSz = BufSize /\ data = taken
      BY <1>2, <1>4 DEF FirstBuffer
    <2>2. \A i \in 0 .. taken - 1 : buf[i] = i + 1
      BY <1>2, <1>4 DEF FirstBuffer
    <2> QED BY <1>2, <1>4, <2>1, <2>2
  <1>5. CASE fileSz + n = allocSz
    <2>1. /\ allocSz' = Grown
          /\ buf' = [i \in 0 .. Grown - 1 |-> IF i < allocSz THEN filled[i] ELSE 0]
          /\ released' = released \union {Outgrown(filled)}
          /\ data' = fileSz + n
      BY <1>1, <1>2, <1>5
    <2>2. Grown \in Nat /\ Grown > allocSz
      BY <1>2, GrownIsLarger DEF Sizes
    <2> HIDE DEF filled
    <2>3. buf' \in [0 .. allocSz' - 1 -> Byte]
      BY <1>2, <1>3, <2>1, <2>2 DEF Byte
    <2>4. TypeOK'
      BY <1>1, <1>2, <2>1, <2>2, <2>3 DEF TypeOK, Byte
    <2>5. Sizes'
      BY <1>1, <1>2, <1>5, <2>1, <2>2 DEF Sizes
    <2>6. \A i \in 0 .. allocSz - 1 : Outgrown(filled)[i] = 0
      BY <1>2, <1>3 DEF Outgrown, Wiped
    <2>7. DOMAIN Outgrown(filled) = 0 .. allocSz - 1
      BY <1>3 DEF Outgrown, Wiped
    <2>8. Contents'
      BY <1>2, <1>3, <1>5, <2>1, <2>2, <2>6, <2>7 DEF Contents
    <2>9. FirstBuffer'
      BY <1>1, <1>2, <1>4, <1>5, <2>1, <2>2 DEF FirstBuffer, Sizes
    <2> QED BY <2>4, <2>5, <2>8, <2>9
  <1>6. CASE fileSz + n # allocSz
    <2>1. buf' = filled /\ data' = data + n /\ allocSz' = allocSz /\ released' = released
      BY <1>1, <1>2, <1>6
    <2> HIDE DEF filled
    <2>2. TypeOK'
      BY <1>1, <1>2, <1>3, <2>1 DEF TypeOK, Byte
    <2>3. Sizes'
      BY <1>1, <1>2, <1>6, <2>1 DEF Sizes
    <2>4. Contents'
      BY <1>2, <1>3, <2>1 DEF Contents
    <2>5. FirstBuffer'
      BY <1>1, <1>2, <1>4, <2>1 DEF FirstBuffer, Sizes
    <2> QED BY <2>2, <2>3, <2>4, <2>5
  <1> QED BY <1>5, <1>6

\* The final NUL lands behind, or on, the last byte.
LEMMA EndOfDataIInv == ASSUME IInv, EndOfData PROVE IInv'
  <1> USE DEF IInv, EndOfData, ReturnedSize
  <1>1. buf' \in [0 .. allocSz - 1 -> Byte] /\ buf'[fileSz - 1] = 0
    BY DEF TypeOK, Sizes, Byte
  <1>2. \A i \in 0 .. allocSz - 1 : i # fileSz - 1 => buf'[i] = buf[i]
    BY DEF TypeOK
  <1>3. TypeOK' /\ Sizes'
    BY <1>1 DEF TypeOK, Sizes
  <1>4. Contents'
    BY <1>1, <1>2 DEF TypeOK, Contents, Sizes
  <1>5. FirstBuffer'
    BY <1>1, <1>2 DEF TypeOK, FirstBuffer, Sizes
  <1> QED BY <1>3, <1>4, <1>5

\* Wiping the size that was returned wipes all that is not zero already.
LEMMA WipeIInv == ASSUME IInv, Wipe PROVE IInv'
  <1> USE DEF IInv, Wipe, WipedSize
  <1>1. buf' = [i \in 0 .. allocSz - 1 |-> IF i < charsSz THEN 0 ELSE buf[i]]
    BY DEF Wiped, TypeOK
  <1>2. \A i \in 0 .. allocSz - 1 : buf'[i] = 0
    BY <1>1 DEF TypeOK, Sizes, Contents
  <1>3. TypeOK'
    BY <1>1, <1>2 DEF TypeOK, Byte
  <1>4. Sizes' /\ Contents' /\ FirstBuffer'
    BY <1>2 DEF TypeOK, Sizes, Contents, FirstBuffer
  <1> QED BY <1>3, <1>4

\* Every step keeps the invariant.
LEMMA NextIInv == IInv /\ [Next]_vars => IInv'
  <1> SUFFICES ASSUME IInv, [Next]_vars PROVE IInv'
    OBVIOUS
  <1>1. CASE Open
    BY <1>1 DEF Open, IInv, TypeOK, Sizes, Contents, FirstBuffer
  <1>2. CASE Parse
    BY <1>2 DEF Parse, IInv, TypeOK, Sizes, Contents, FirstBuffer
  <1>3. CASE UNCHANGED vars
    BY <1>3 DEF vars, IInv, TypeOK, Sizes, Contents, FirstBuffer
  <1> QED BY <1>1, <1>2, <1>3, ReadIInv, EndOfDataIInv, WipeIInv DEF Next, Done

\* The invariant holds in every reachable state.
THEOREM Invariance == Spec => []IInv
  BY InitIInv, NextIInv, PTL DEF Spec

\* The variables keep their types.
THEOREM TypesHold == Spec => []TypeOK
  BY Invariance, PTL DEF IInv

\* No read and no final NUL goes past the end of the buffer.
THEOREM BufferNotOverrun == Spec => []WithinBuffer
  <1>1. IInv => WithinBuffer
    BY DEF IInv, TypeOK, Sizes, WithinBuffer, Room
  <1> QED BY <1>1, Invariance, PTL

\* The loop of slurp_file has room for more whenever it reads: it never takes a
\* full buffer for the end of the file.
THEOREM ReadingGoesOn == Spec => []ReadsOn
  <1>1. IInv => ReadsOn
    BY DEF IInv, TypeOK, Sizes, ReadsOn, Room
  <1> QED BY <1>1, Invariance, PTL

\* No buffer that slurp_file has allocated keeps a byte of the key once it is
\* loaded: neither the last one nor one that was outgrown.
THEOREM OwnBuffersAreWiped == Spec => []OwnBuffersWiped
  <1>1. IInv => OwnBuffersWiped
    BY DEF IInv, TypeOK, Contents, OwnBuffersWiped
  <1> QED BY <1>1, Invariance, PTL

\* A key that fits the first buffer is handed to the library in full.
THEOREM SmallKeysAreLoaded == Spec => []SmallKeyLoaded
  <1>1. IInv => SmallKeyLoaded
    BY DEF IInv, TypeOK, Sizes, Contents, FirstBuffer, SmallKeyLoaded
  <1> QED BY <1>1, Invariance, PTL
=============================================================================
