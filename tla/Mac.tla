-------------------------------- MODULE Mac ---------------------------------
(***************************************************************************)
(* hmac.cpp: the tag of a message.  The key comes as a C string.           *)
(***************************************************************************)
EXTENDS Sha1

Convert_binary(s) ==
  Tuple([i \in 1 .. 8 * Len(s) |->
    IF 7 - ((i - 1) % 8) \in s[(i - 1) \div 8 + 1] THEN One ELSE Zero])

Xor_string(first, second) ==
  Tuple([i \in 1 .. Len(first) |-> IF first[i] = second[i] THEN Zero ELSE One])

\* generate(): 00110110 and 01011100, byte_length times.
Ipad == Convert_binary([i \in 1 .. byte_length |-> Bits(\h36)])
Opad == Convert_binary([i \in 1 .. byte_length |-> Bits(\h5C)])

\* The bits of the key, filled up with zeros.
KeyBits(key) ==
  LET bin == Convert_binary(key)
  IN  bin \o [i \in 1 .. 8 * byte_length - Len(bin) |-> Zero]

\* What the last two calls of run_sha leave in holder.
Outer(h, key) == Run_sha(h, Xor_string(key, Opad) \o Hex_to_Bin(Hash_string(h)))
Tagged(holder, key, message) ==
  Outer(Run_sha(holder, Xor_string(key, Ipad) \o Convert_binary(message)), key)

\* A key longer than byte_length is replaced by hashes of it.  One more hash after
\* the first makes 80 characters, so the loop runs once.
Refurbished(h1, h2) == SubSeq(Hash_string(h1) \o Hash_string(h2), 1, byte_length)
Rehashed(h1, h2, message) == Tagged(h2, KeyBits(Refurbished(h1, h2)), message)
Shortened(h1, message, c) == Rehashed(h1, Run_sha(h1, Hash_string(h1) \o c), message)

\* create_HMAC: what its last call of run_sha leaves in holder, of which
\* Hash_string makes the tag.
Create_HMAC(holder, message, c) ==
  IF Len(c) <= byte_length THEN Tagged(holder, KeyBits(c), message)
  ELSE Shortened(Run_sha(holder, c), message, c)
=============================================================================
