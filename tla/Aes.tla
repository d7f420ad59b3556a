-------------------------------- MODULE Aes ---------------------------------
(***************************************************************************)
(* The block cipher of aes.cpp and the polynomials of poly.hpp, as the     *)
(* code computes them.  It is not FIPS-197: shiftRows turns rows 1 to 3 by *)
(* one place each, mixColumns mixes along rows, addRoundKey reads byte     *)
(* i * j of the subkey, and the first key is not added before round 1.     *)
(* What the programs need is that decrypt undoes encrypt.                  *)
(***************************************************************************)
EXTENDS Words

CONSTANT NUM_ROUNDS     \* 10

ASSUME AesAssumption == NUM_ROUNDS \in Nat

Poly == Byte
MOD == Bits(\h11B)

Plus(p, q) == Xor(p, q)

\* Product with overflow, then long division from the top bit down.
Times(p, q) ==
  LET term(i) == [u \in Word(16) |-> IF i \in q THEN Plus(u, Shl(p, i, 16)) ELSE u]
      prod[i \in 0 .. 8] == IF i = 0 THEN {} ELSE term(i - 1)[prod[i - 1]]
      cut(m) == [u \in Word(16) |-> IF m \in u THEN Plus(u, Shl(MOD, m - 8, 16)) ELSE u]
      reduced[i \in 0 .. 8] == IF i = 0 THEN prod[8] ELSE cut(16 - i)[reduced[i - 1]]
  IN  reduced[8]

Circshl(p, n) == Rotl(p, n, 8)

\* The search for i runs through every polynomial but 0.
Inv(p) == IF p = {} THEN {} ELSE CHOOSE i \in Poly \ {{}} : Times(p, i) = Bits(1)

Table(Entry(_)) == Tuple([n \in 1 .. 256 |-> Entry(Bits(n - 1))])

SBOX_F ==
  Table(LAMBDA p :
    LET i == Inv(p)
    IN  Plus(i, Plus(Circshl(i, 1), Plus(Circshl(i, 2),
          Plus(Circshl(i, 3), Plus(Circshl(i, 4), Bits(\h63)))))))

SBOX_R ==
  Table(LAMBDA p :
    Inv(Plus(Circshl(p, 1), Plus(Circshl(p, 3), Plus(Circshl(p, 6), Bits(\h5))))))
-----------------------------------------------------------------------------
\* A State is the 16 bytes of a block; s[i][j] of the code is byte 4i + j.
Row(n) == n \div 4
Col(n) == n % 4
State(Cell(_)) == Tuple([n \in 1 .. 16 |-> Cell(n - 1)])

SubBytes(s, box) == State(LAMBDA n : At(box, Raw(At(s, n))))

ShiftRows(s, by) ==
  State(LAMBDA n : IF Row(n) = 0 THEN At(s, n)
                   ELSE At(s, 4 * Row(n) + ((Col(n) + by + 4) % 4)))

\* One step to the left, and one to the right.
ShiftRows_F(s) == ShiftRows(s, 1)
ShiftRows_R(s) == ShiftRows(s, -1)

MixColumns(s, mults) ==
  State(LAMBDA n :
    LET term(k) == Times(At(s, 4 * Row(n) + k), At(mults, (k - Col(n) + 4) % 4))
    IN  Plus(Plus(term(0), term(1)), Plus(term(2), term(3))))

MULTS_F == <<{1}, {0, 1}, {0}, {0}>>                     \* 02 03 01 01
MULTS_R == <<{1, 2, 3}, {0, 1, 3}, {0, 2, 3}, {0, 3}>>   \* 0E 0B 0D 09

MixColumns_F(s) == MixColumns(s, MULTS_F)
MixColumns_R(s) == MixColumns(s, MULTS_R)

\* What the tables are made for, byte by byte: SBOX_R undoes SBOX_F, and what
\* MixColumns_F makes of byte l of a row MixColumns_R puts back there and nowhere else.
ASSUME TablesAssumption ==
  \A x \in Byte :
    /\ At(SBOX_F, Raw(x)) \in Byte /\ At(SBOX_R, Raw(x)) \in Byte
    /\ At(SBOX_R, Raw(At(SBOX_F, Raw(x)))) = x
    /\ \A l \in 0 .. 3, j \in 0 .. 3 :
         LET term(k) == Times(Times(x, At(MULTS_F, (l - k + 4) % 4)), At(MULTS_R, (k - j + 4) % 4))
         IN  Plus(Plus(term(0), term(1)), Plus(term(2), term(3))) = IF l = j THEN x ELSE {}

AddRoundKey(s, subkey) ==
  State(LAMBDA n : Plus(At(s, n), At(subkey, Row(n) * Col(n))))
-----------------------------------------------------------------------------
\* Words 0 to 3 of the schedule are the key; a uint32_t has its least byte first.
KeyWord(key, i) ==
  Word32(At(key, 4 * i), At(key, 4 * i + 1), At(key, 4 * i + 2), At(key, 4 * i + 3))

RoundConstant(n) ==
  IF n <= 8 THEN {n + 23}
  ELSE Shl(Xor({n}, MOD), 23, 32)

\* temp, where i is a multiple of KEY_SIZE.
Scrambled(temp, i) ==
  LET rot == Rotl(temp, 8, 32)
      sub == [k \in 0 .. 3 |-> At(SBOX_F, Raw(ByteOf(rot, k)))]
  IN  Xor(Word32(sub[0], sub[1], sub[2], sub[3]), RoundConstant(i \div 4))

ExpandedWords(key) ==
  LET words[n \in 4 .. 4 * (NUM_ROUNDS + 1)] ==
        IF n = 4 THEN [i \in 1 .. 4 |-> KeyWord(key, i - 1)]
        ELSE LET w == words[n - 1]
                 i == n - 1
                 temp == At(w, i - 1)
             IN  Append(w, Xor(At(w, i - 4), IF i % 4 = 0 THEN Scrambled(temp, i) ELSE temp))
  IN  words[4 * (NUM_ROUNDS + 1)]

\* expandKey, its words read as subkeys of 16 bytes.
ExpandKey(key) ==
  LET words == ExpandedWords(key)
  IN  Tuple([r \in 1 .. NUM_ROUNDS + 1 |->
        State(LAMBDA n : ByteOf(At(words, 4 * (r - 1) + n \div 4), n % 4))])
-----------------------------------------------------------------------------
Rounds_F(block, subkeys) ==
  LET round(i) == [s \in Blocks |->
        AddRoundKey(MixColumns_F(ShiftRows_F(SubBytes(s, SBOX_F))), At(subkeys, i))]
      state[i \in 0 .. NUM_ROUNDS] == IF i = 0 THEN block ELSE round(i - 1)[state[i - 1]]
  IN  AddRoundKey(ShiftRows_F(SubBytes(state[NUM_ROUNDS], SBOX_F)), At(subkeys, NUM_ROUNDS))

\* The subkeys backwards.
Rounds_R(block, subkeys) ==
  LET round(i) == [s \in Blocks |->
        SubBytes(ShiftRows_R(MixColumns_R(AddRoundKey(s, At(subkeys, i)))), SBOX_R)]
      first == SubBytes(ShiftRows_R(AddRoundKey(block, At(subkeys, NUM_ROUNDS))), SBOX_R)
      state[i \in 0 .. NUM_ROUNDS] ==
        IF i = 0 THEN first ELSE round(NUM_ROUNDS - i)[state[i - 1]]
  IN  state[NUM_ROUNDS]

Encrypt(block, key) == Rounds_F(block, ExpandKey(key))
Decrypt(block, key) == Rounds_R(block, ExpandKey(key))
=============================================================================
