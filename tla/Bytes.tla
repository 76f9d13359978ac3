------------------------------- MODULE Bytes -------------------------------
(***************************************************************************)
(* Byte strings as the parsers of the crate read them: offsets count from  *)
(* 0, and reading past the end is not a value (in Rust, a panic).          *)
(***************************************************************************)
EXTENDS Integers, Sequences, FiniteSets

\* What a slice index past the end gives instead of a byte.
Panic == -1

Byte(p, at) == IF at < Len(p) THEN p[at + 1] ELSE Panic

\* The bytes from offset a up to, not including, offset b.
Slice(p, a, b) == [i \in 1 .. b - a |-> Byte(p, a + i - 1)]

\* Numbers of two and of four bytes, most significant first, and the same with
\* the least significant first.  A number of four bytes that needs more than
\* three is Huge: no field or file of the instances is that long.
U16(p, at) == Byte(p, at) * 256 + Byte(p, at + 1)
U16le(p, at) == Byte(p, at + 1) * 256 + Byte(p, at)
Huge == 16777216
U32(p, at) ==
    IF Byte(p, at) # 0 THEN Huge ELSE Byte(p, at + 1) * 65536 + U16(p, at + 2)
U32le(p, at) ==
    IF Byte(p, at + 3) # 0 THEN Huge ELSE Byte(p, at + 2) * 65536 + U16le(p, at)
\* The bytes of such numbers.
Half(n) == <<n \div 256, n % 256>>
Word(n) == <<n \div Huge, (n \div 65536) % 256>> \o Half(n % 65536)
Halfle(n) == <<n % 256, n \div 256>>
Wordle(n) == Halfle(n % 65536) \o <<(n \div 65536) % 256, n \div Huge>>

\* Whether n bytes from an offset are there.
Fits(p, at, n) == at + n <= Len(p)
\* The whole pieces of n bytes.
Chunks(p, n) == [i \in 1 .. Len(p) \div n |-> SubSeq(p, (i - 1) * n + 1, i * n)]

Zeros(n) == [i \in 1..n |-> 0]
LeastOf(a, b) == IF a <= b THEN a ELSE b
MostOf(a, b) == IF a >= b THEN a ELSE b

\* A byte string that some parser read past its end.
Broken(bytes) == \E i \in 1 .. Len(bytes) : bytes[i] = Panic

\* Text in a field of n bytes: cut off or padded with NUL bytes.
Padded(text, n) == [i \in 1..n |-> IF i <= Len(text) THEN text[i] ELSE 0]
\* Text read from such a field: every NUL byte is dropped.
Unpadded(bytes) ==
    LET kept == {i \in 1 .. Len(bytes) : bytes[i] # 0}
        place(i) == Cardinality({j \in kept : j <= i})
    IN [k \in 1 .. Cardinality(kept) |-> bytes[CHOOSE i \in kept : place(i) = k]]
=============================================================================
