------------------------------ MODULE KeyLoad ------------------------------
(***************************************************************************)
(* Loading a private key: try_load_key_from_file reads the file with       *)
(* slurp_file into a buffer that grows, hands the buffer to the library    *)
(* and wipes it.  The bytes of the file are numbered from 1 and 0 is the   *)
(* NUL byte, so a buffer shows which byte of the file is where.            *)
(* The buffers are those slurp_file allocates.  The C library has one of   *)
(* its own for the open file: fread copies the key through it, fclose      *)
(* frees it, and nobody wipes it.                                          *)
(***************************************************************************)
EXTENDS Integers

CONSTANTS
    BufSize,    \* SLURP_BUF_SZ
    MaxFile     \* bound on the size of the file

ASSUME BufSizeAssumption == BufSize \in Nat \ {0, 1}
ASSUME MaxFileAssumption == MaxFile \in Nat

VARIABLES
    pc,         \* "open", "reading", "slurped", "parsed", "wiped" or "failed"
    file,       \* size of the file
    taken,      \* bytes of the file read so far
    allocSz,    \* alloc_sz
    fileSz,     \* file_sz: one more than the bytes read
    data,       \* where the next read goes, as an index into the buffer
    buf,        \* the buffer, as a function on 0 .. allocSz - 1
    released,   \* the buffers that were outgrown, as they were left
    charsSz     \* the size slurp_file returns with the buffer

vars == <<pc, file, taken, allocSz, fileSz, data, buf, released, charsSz>>

Byte == 0 .. MaxFile

\* Fault: the buffer is a byte shorter than alloc_sz.
ZerosShort(n) == [i \in 0 .. n - 2 |-> 0]

\* apr_pcalloc
Zeros(n) == [i \in 0 .. n - 1 |-> 0]

\* explicit_bzero of the first n bytes
Wiped(b, n) == [i \in DOMAIN b |-> IF i < n THEN 0 ELSE b[i]]

Init ==
    /\ pc = "open"
    /\ file \in 0 .. MaxFile
    /\ taken = 0
    /\ allocSz = BufSize
    /\ fileSz = 1
    /\ data = 0
    /\ buf = Zeros(BufSize)
    /\ released = {}
    /\ charsSz = 0

Open ==
    /\ pc = "open"
    /\ pc' \in {"reading", "failed"}
    /\ UNCHANGED <<file, taken, allocSz, fileSz, data, buf, released, charsSz>>

\* Fault: the place for the final NUL is not set aside.
RoomWithoutNul == allocSz - fileSz + 1

\* What fread is asked for.
Room == allocSz - fileSz

\* Fault: the outgrown buffer is not wiped.
OutgrownKept(b) == b

Outgrown(b) == Wiped(b, allocSz)

\* Fault: the buffer grows by half of nothing.
GrownNot == allocSz

\* alloc_sz * 1.5
Grown == allocSz + allocSz \div 2

\* One turn of the loop: fread gives n bytes, and a full buffer is replaced.
Read ==
    /\ pc = "reading"
    /\ \E n \in 1 .. Room :
          /\ taken + n <= file
          /\ taken' = taken + n
          /\ fileSz' = fileSz + n
          /\ LET filled == [i \in DOMAIN buf |->
                               IF i \in data .. data + n - 1 THEN taken + 1 + i - data ELSE buf[i]]
             IN IF fileSz + n = allocSz
                THEN /\ allocSz' = Grown
                     /\ buf' = [i \in 0 .. Grown - 1 |-> IF i < allocSz THEN filled[i] ELSE 0]
                     /\ released' = released \union {Outgrown(filled)}
                     /\ data' = fileSz + n
                ELSE /\ buf' = filled
                     /\ data' = data + n
                     /\ UNCHANGED <<allocSz, released>>
    /\ UNCHANGED <<pc, file, charsSz>>

\* Fault: the size counts the final NUL.
ReturnedSizeWithNul == fileSz

ReturnedSize == fileSz - 1

\* fread gives nothing: at the end of the file, or when it cannot be read on,
\* which the loop does not tell apart.
EndOfData ==
    /\ pc = "reading"
    /\ pc' = "slurped"
    /\ buf' = [buf EXCEPT ![fileSz - 1] = 0]
    /\ charsSz' = ReturnedSize
    /\ UNCHANGED <<file, taken, allocSz, fileSz, data, released>>

\* oidfedSignerCreateFromPEM, whatever it makes of the bytes.
Parse ==
    /\ pc = "slurped"
    /\ pc' = "parsed"
    /\ UNCHANGED <<file, taken, allocSz, fileSz, data, buf, released, charsSz>>

\* Fault: only the first allocation's worth of bytes is wiped.
WipedSizeFirst == IF charsSz < BufSize - 1 THEN charsSz ELSE BufSize - 1

WipedSize == charsSz

Wipe ==
    /\ pc = "parsed"
    /\ pc' = "wiped"
    /\ buf' = Wiped(buf, WipedSize)
    /\ UNCHANGED <<file, taken, allocSz, fileSz, data, released, charsSz>>

Done == pc \in {"wiped", "failed"} /\ UNCHANGED vars

Next == Open \/ Read \/ EndOfData \/ Parse \/ Wipe \/ Done

Spec == Init /\ [][Next]_vars
-----------------------------------------------------------------------------
\* Types of the variables.
TypeOK ==
    /\ pc \in {"open", "reading", "slurped", "parsed", "wiped", "failed"}
    /\ file \in 0 .. MaxFile
    /\ taken \in 0 .. file
    /\ allocSz \in Nat /\ fileSz \in Nat /\ data \in Nat /\ charsSz \in Nat
    /\ buf \in [0 .. allocSz - 1 -> Byte]

\* Reads and the final NUL stay inside the buffer, at every growth: where the
\* next read may write ends with the buffer, and there is a place for the NUL.
WithinBuffer == data + Room <= allocSz /\ fileSz <= allocSz

\* The loop can always go on: a full buffer is replaced by a larger one before
\* the next read, so that an empty read means the end of the data.
ReadsOn == pc = "reading" => Room > 0

\* Once the key is loaded no buffer that slurp_file has allocated holds a byte of
\* it: not the ones that were outgrown, at any time, and not the last one.  What
\* the C library and the wrapper library copy is not theirs to wipe.
OwnBuffersWiped ==
    /\ \A b \in released : \A i \in DOMAIN b : b[i] = 0
    /\ pc = "wiped" => \A i \in DOMAIN buf : buf[i] = 0

\* What is loaded is what was read, in full and with a NUL after it, if it fits
\* the first buffer: up to the size at which the buffer is just replaced.
SmallKeyLoaded ==
    pc \in {"slurped", "parsed"} /\ taken < BufSize =>
        /\ charsSz = taken
        /\ \A i \in 0 .. taken - 1 : buf[i] = i + 1
        /\ buf[taken] = 0

\* The key used for signing is the one in the file: what is handed to the
\* library is what was read from the file, whatever its size.
KeyLoaded ==
    pc = "slurped" => charsSz = taken /\ \A i \in 0 .. taken - 1 : buf[i] = i + 1
=============================================================================
