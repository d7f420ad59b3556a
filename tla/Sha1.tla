------------------------------- MODULE Sha1 ---------------------------------
(***************************************************************************)
(* The hash of sha1.cpp with the string helpers of hmac_util.cpp that it   *)
(* uses.  It is not FIPS 180: a message is a string of characters, padded  *)
(* as if each were a bit, and convert() takes the first 64 of the 512      *)
(* characters of a chunk as the chunk's 16 words.  holder, a static        *)
(* vector, keeps the five words of the last hash until the next one.       *)
(***************************************************************************)
EXTENDS Words

\* The characters '0' and '1', as bytes.
Zero == Bits(48)
One == Bits(49)

CHUNK == 512
num_blocks == 16

PadLeft(s, multiple) ==
  LET missing == (multiple - (Len(s) % multiple)) % multiple
  IN  [i \in 1 .. missing |-> Zero] \o s

\* The digits of a word, most significant first and no leading zero.
Dec_to_Bin(word) ==
  LET top == IF word = {} THEN 0 ELSE Max(word)
  IN  [i \in 1 .. top + 1 |-> IF top + 1 - i \in word THEN One ELSE Zero]

HexDigit(n) == IF n < 10 THEN Bits(48 + n) ELSE Bits(87 + n)
HexDigits == Tuple([n \in 1 .. 16 |-> HexDigit(n - 1)])

\* Faulty: leading zeros are lost.
Bin_to_Hex_Short(s) ==
  LET p == PadLeft(s, 4)
      bit(i) == IF p[i] = One THEN 1 ELSE 0
  IN  [x \in 1 .. Len(p) \div 4 |->
        At(HexDigits, 8 * bit(4 * x - 3) + 4 * bit(4 * x - 2) + 2 * bit(4 * x - 1) + bit(4 * x))]

Bin_to_Hex(s) ==
  LET p == PadLeft(s, 4)
      bit(i) == IF p[i] = One THEN 1 ELSE 0
  IN  PadLeft([x \in 1 .. Len(p) \div 4 |->
        At(HexDigits, 8 * bit(4 * x - 3) + 4 * bit(4 * x - 2) + 2 * bit(4 * x - 1) + bit(4 * x))],
        8)

Hex_to_Bin(s) ==
  LET digit(c) == CHOOSE n \in 0 .. 15 : At(HexDigits, n) = c
  IN  Tuple([i \in 1 .. 4 * Len(s) |->
        IF 3 - ((i - 1) % 4) \in Bits(digit(s[(i - 1) \div 4 + 1])) THEN One ELSE Zero])
-----------------------------------------------------------------------------
\* s[1] is the bits that carry, s[2] those that pass a carry on, both over a run
\* of n bits; of two adjoining runs one is made.
Joined(s, n) ==
  <<s[1] \cup (s[2] \cap Shl(s[1], n, 32)), s[2] \cap Shl(s[2], n, 32)>>

Add32(x, y) ==
  LET runs == Joined(Joined(Joined(Joined(Joined(<<x \cap y, Xor(x, y)>>, 1), 2), 4), 8), 16)
  IN  Xor(Xor(x, y), Shl(runs[1], 1, 32))

\* circle_shift_uint.  The calls in hash_string shift by 128, 96, 64 and 32,
\* which leaves the word as it is on this processor.
Circle_shift_uint(shift, x) == Rotl(x, shift, 32)

Padding(s) ==
  LET pad_size == Len(s) % CHUNK
      zeros == IF pad_size >= 448 THEN 512 - pad_size - 1 + 448 ELSE 448 - pad_size - 1
  IN  s \o <<One>> \o [i \in 1 .. zeros |-> Zero] \o PadLeft(Dec_to_Bin(Bits(Len(s))), 64)

Nonlinear_funct(t, b, c, d) ==
  CASE t \in 0 .. 19  -> (b \cap c) \cup (d \ b)
    [] t \in 40 .. 59 -> (b \cap c) \cup (b \cap d) \cup (c \cap d)
    [] OTHER          -> Xor(b, Xor(c, d))

\* The words of a chunk: four characters each, the first one on top.
Convert(chunk) ==
  Tuple([i \in 1 .. num_blocks |->
    Word32(chunk[4 * i], chunk[4 * i - 1], chunk[4 * i - 2], chunk[4 * i - 3])])

K == <<Bits32(\h5A82, \h7999), Bits32(\h6ED9, \hEBA1),
       Bits32(\h8F1B, \hBCDC), Bits32(\hCA62, \hC1D6)>>

\* Word x of the schedule, from those before it.
Extended(w, x) ==
  Append(w, Circle_shift_uint(1, Xor(Xor(At(w, x - 3), At(w, x - 8)),
                                     Xor(At(w, x - 14), At(w, x - 16)))))

Schedule(chunk) ==
  LET words[x \in num_blocks .. 80] ==
        IF x = num_blocks THEN Convert(chunk) ELSE Extended(words[x - 1], x - 1)
  IN  words[80]

\* One round: <<A, B, C, D, E>> and the word of the schedule that it adds.
Round(v, x, word) ==
  LET temp == Add32(Add32(Circle_shift_uint(5, v[1]), Nonlinear_funct(x, v[2], v[3], v[4])),
                    Add32(Add32(v[5], word), At(K, x \div 20)))
  IN  <<temp, v[1], Circle_shift_uint(30, v[2]), v[3], v[4]>>

Iterations(holder, chunk) ==
  LET words == Schedule(chunk)
      round(x) == [v \in Hash |-> Round(v, x, At(words, x))]
      v[x \in 0 .. 80] == IF x = 0 THEN holder ELSE round(x - 1)[v[x - 1]]
      last == v[80]
  IN  Tuple([i \in 1 .. 5 |-> Add32(holder[i], last[i])])

\* Faulty: the words of the last hash stay.
Reset_sha1_Forgotten(holder) == holder

Reset_sha1(holder) ==
  <<Bits32(\h08de, \h7a01), Bits32(\hdf05, \he29c), Bits32(\h7ef1, \h613b),
    Bits32(\h3e29, \h99b2), Bits32(\hcdef, \ha923)>>

\* What run_sha leaves in holder; the hash string is made of it.
Run_sha(holder, s) ==
  LET padded == Padding(s)
      h[i \in 0 .. Len(padded) \div CHUNK] ==
        IF i = 0 THEN Reset_sha1(holder)
        ELSE Iterations(h[i - 1], SubSeq(padded, CHUNK * (i - 1) + 1, CHUNK * i))
  IN  h[Len(padded) \div CHUNK]

Hash_string(holder) ==
  FlattenSeq([i \in 1 .. 5 |->
    Bin_to_Hex(Dec_to_Bin(Circle_shift_uint(32 * (5 - i), holder[i])))])
=============================================================================
