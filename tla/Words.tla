------------------------------- MODULE Words --------------------------------
(***************************************************************************)
(* Machine words as the sets of their one bits, bit 0 the least: a byte is *)
(* a subset of 0 .. 7, a uint64_t one of 0 .. 63.  Exclusive or is the     *)
(* symmetric difference, a shift adds to every element, and no number is   *)
(* too large for TLC.  A string is a sequence of bytes.                    *)
(***************************************************************************)
EXTENDS Integers, SequencesExt

Word(width) == SUBSET (0 .. width - 1)
Byte == Word(8)

\* The 16-bit word of value n.
Bits(n) == {b \in 0 .. 15 : (n \div 2^b) % 2 = 1}

\* The value of a byte, which the code uses as an index.
Values == [x \in Byte |-> CHOOSE n \in 0 .. 255 : Bits(n) = x]
Raw(x) == Values[x]

\* (hi << 16) | lo
Bits32(hi, lo) == {b + 16 : b \in Bits(hi)} \cup Bits(lo)

Xor(x, y) == SymDiff(x, y)

Shl(x, n, width) == {b + n : b \in x} \cap (0 .. width - 1)

Rotl(x, n, width) == {(b + n) % width : b \in x}

\* Byte k of a word, and the word of four bytes, least byte first.
ByteOf(x, k) == {b \in 0 .. 7 : b + 8 * k \in x}
Word32(b0, b1, b2, b3) ==
  b0 \cup {b + 8 : b \in b1} \cup {b + 16 : b \in b2} \cup {b + 24 : b \in b3}

\* The same sequence, as a tuple: TLC then evaluates its elements once.
Tuple(s) == s \o << >>

\* s[0], s[1], ... of an array in C.
At(s, i) == s[i + 1]

\* The blocks of the cipher.
BLOCK_BYTES == 16
Blocks == [1 .. BLOCK_BYTES -> Byte]

\* The words of a hash.
Hash == [1 .. 5 -> Word(32)]

\* The characters of a MAC key and of a tag (hmac.h).
byte_length == 64
output_length == 40
=============================================================================
