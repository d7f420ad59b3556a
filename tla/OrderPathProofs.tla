--------------------------- MODULE OrderPathProofs ---------------------------
(***************************************************************************)
(* The order that the two lines spell is the one that is sent, it arrives  *)
(* as it was sent, and its answer too, for any lines, any keys and any     *)
(* balances.  The cipher enters by DecryptUndoesEncrypt and the tag by     *)
(* SameKeySameTag; CBC, the split of a packet, the key string and the      *)
(* words of a message are undone here.  The invariant PathInv adds to the  *)
(* properties what is on the wire while a packet is under way: the very    *)
(* output of SendMsg (Carries).  For the prompts, words of any width are   *)
(* added: the loop of strtol, ten times the number and a digit more, gives *)
(* the sum of the digits times their powers of ten (HornerIsSum).          *)
(* Of programs whose keys differ, AcceptInv says that only a collision of  *)
(* two tags gets a message past the receiver.                              *)
(***************************************************************************)
EXTENDS OrderPath, AesProofs
-----------------------------------------------------------------------------
(***************************************************************************)
(* Bytes.                                                                  *)
(***************************************************************************)
LEMMA XorTwice == ASSUME NEW x, NEW y PROVE Xor(Xor(x, y), y) = x
BY DEF Xor, SymDiff

LEMMA BitsInjective ==
  ASSUME NEW m \in 0 .. 255, NEW n \in 0 .. 255, Bits(m) = Bits(n)
  PROVE  m = n
<1>1. \A a, b \in Nat : (a % 2 = 1 <=> b % 2 = 1) => a % 2 = b % 2
  OBVIOUS
<1>2. \A a, b \in Nat : a % 2 = b % 2 /\ a \div 2 = b \div 2 => a = b
  OBVIOUS
<1>3. /\ m \div 2 \in Nat /\ m \div 4 \in Nat /\ m \div 8 \in Nat /\ m \div 16 \in Nat
      /\ m \div 32 \in Nat /\ m \div 64 \in Nat /\ m \div 128 \in 0 .. 1
      /\ n \div 2 \in Nat /\ n \div 4 \in Nat /\ n \div 8 \in Nat /\ n \div 16 \in Nat
      /\ n \div 32 \in Nat /\ n \div 64 \in Nat /\ n \div 128 \in 0 .. 1
  OBVIOUS
<1>4. /\ m % 2 = 1 <=> n % 2 = 1
      /\ (m \div 2) % 2 = 1 <=> (n \div 2) % 2 = 1
      /\ (m \div 4) % 2 = 1 <=> (n \div 4) % 2 = 1
      /\ (m \div 8) % 2 = 1 <=> (n \div 8) % 2 = 1
      /\ (m \div 16) % 2 = 1 <=> (n \div 16) % 2 = 1
      /\ (m \div 32) % 2 = 1 <=> (n \div 32) % 2 = 1
      /\ (m \div 64) % 2 = 1 <=> (n \div 64) % 2 = 1
      /\ (m \div 128) % 2 = 1 <=> (n \div 128) % 2 = 1
  <2>1. /\ 0 \in Bits(m) <=> m % 2 = 1
        /\ 1 \in Bits(m) <=> (m \div 2) % 2 = 1
        /\ 2 \in Bits(m) <=> (m \div 4) % 2 = 1
        /\ 3 \in Bits(m) <=> (m \div 8) % 2 = 1
        /\ 4 \in Bits(m) <=> (m \div 16) % 2 = 1
        /\ 5 \in Bits(m) <=> (m \div 32) % 2 = 1
        /\ 6 \in Bits(m) <=> (m \div 64) % 2 = 1
        /\ 7 \in Bits(m) <=> (m \div 128) % 2 = 1
    BY BitsOf
  <2>2. /\ 0 \in Bits(n) <=> n % 2 = 1
        /\ 1 \in Bits(n) <=> (n \div 2) % 2 = 1
        /\ 2 \in Bits(n) <=> (n \div 4) % 2 = 1
        /\ 3 \in Bits(n) <=> (n \div 8) % 2 = 1
        /\ 4 \in Bits(n) <=> (n \div 16) % 2 = 1
        /\ 5 \in Bits(n) <=> (n \div 32) % 2 = 1
        /\ 6 \in Bits(n) <=> (n \div 64) % 2 = 1
        /\ 7 \in Bits(n) <=> (n \div 128) % 2 = 1
    BY BitsOf
  <2> QED
    BY <2>1, <2>2
<1>5. m \div 128 = n \div 128
  BY <1>3, <1>4
<1>6. /\ (m \div 64) \div 2 = m \div 128 /\ (m \div 32) \div 2 = m \div 64
      /\ (m \div 16) \div 2 = m \div 32 /\ (m \div 8) \div 2 = m \div 16
      /\ (m \div 4) \div 2 = m \div 8 /\ (m \div 2) \div 2 = m \div 4
      /\ (n \div 64) \div 2 = n \div 128 /\ (n \div 32) \div 2 = n \div 64
      /\ (n \div 16) \div 2 = n \div 32 /\ (n \div 8) \div 2 = n \div 16
      /\ (n \div 4) \div 2 = n \div 8 /\ (n \div 2) \div 2 = n \div 4
  OBVIOUS
<1>7. m \div 64 = n \div 64
  BY <1>1, <1>2, <1>3, <1>4, <1>5, <1>6
<1>8. m \div 32 = n \div 32
  BY <1>1, <1>2, <1>3, <1>4, <1>6, <1>7
<1>9. m \div 16 = n \div 16
  BY <1>1, <1>2, <1>3, <1>4, <1>6, <1>8
<1>10. m \div 8 = n \div 8
  BY <1>1, <1>2, <1>3, <1>4, <1>6, <1>9
<1>11. m \div 4 = n \div 4
  BY <1>1, <1>2, <1>3, <1>4, <1>6, <1>10
<1>12. m \div 2 = n \div 2
  BY <1>1, <1>2, <1>3, <1>4, <1>6, <1>11
<1> QED
  BY <1>1, <1>2, <1>4, <1>12

\* A byte is the index that the code takes it for.
LEMMA RawOfBits ==
  ASSUME NEW n \in 0 .. 255
  PROVE  Raw(Bits(n)) = n
<1>1. Bits(n) \in Byte
  BY BitsOf
<1>2. \A k \in 0 .. 255 : Bits(k) = Bits(n) => k = n
  BY BitsInjective
<1>3. (CHOOSE k \in 0 .. 255 : Bits(k) = Bits(n)) = n
  BY <1>2
<1> QED
  BY <1>1, <1>3 DEF Raw, Values

\* The codes of the seven types of a message.
LEMMA Codes ==
  /\ Bits(0) = {} /\ Bits(1) = {0} /\ Bits(2) = {1} /\ Bits(3) = {0, 1}
  /\ Bits(4) = {2} /\ Bits(5) = {0, 2} /\ Bits(6) = {1, 2}
<1>1. ASSUME NEW n \in 0 .. 6
      PROVE  /\ Bits(n) \subseteq 0 .. 2
             /\ 0 \in Bits(n) <=> n % 2 = 1
             /\ 1 \in Bits(n) <=> (n \div 2) % 2 = 1
             /\ 2 \in Bits(n) <=> (n \div 4) % 2 = 1
  <2>1. n \in 0 .. 255
    OBVIOUS
  <2>2. (n \div 8) % 2 = 0 /\ (n \div 16) % 2 = 0 /\ (n \div 32) % 2 = 0 /\ (n \div 64) % 2 = 0
        /\ (n \div 128) % 2 = 0
    OBVIOUS
  <2>3. {3, 4, 5, 6, 7} \cap Bits(n) = {} /\ Bits(n) \subseteq 0 .. 7
    BY <2>1, <2>2, BitsOf DEF Byte, Word
  <2>4. \A b \in 0 .. 7 : b \in {3, 4, 5, 6, 7} \/ b \in 0 .. 2
    OBVIOUS
  <2> QED
    BY <2>1, <2>3, <2>4, BitsOf
<1>2. 0 .. 2 = {0, 1, 2}
  OBVIOUS
<1> QED
  BY <1>1, <1>2

\* RecvMsg knows a type byte if and only if it is one of them.
LEMMA KnownTypes ==
  ASSUME NEW c \in Byte
  PROVE  ~UnknownType(c) <=> \E t \in 0 .. INVALID - 1 : c = Bits(t)
<1>1. 0 .. 2 = {0, 1, 2} /\ INVALID - 1 = 6
  BY DEF INVALID
<1>2. ASSUME ~UnknownType(c) PROVE \E t \in 0 .. 6 : c = Bits(t)
  <2>1. 7 \notin c
    <3>1. 7 \in 8 .. 31 \cup {7} /\ 7 \notin 0 .. 2
      OBVIOUS
    <3> QED
      BY <1>2, <3>1 DEF UnknownType, Unsigned
  <2>2. c \subseteq {0, 1, 2} /\ c # {0, 1, 2}
    BY <1>1, <1>2, <2>1 DEF UnknownType, Unsigned
  <2>3. c \in {{}, {0}, {1}, {0, 1}, {2}, {0, 2}, {1, 2}}
    BY <2>2
  <2> QED
    BY <2>3, Codes
<1>3. ASSUME NEW t \in 0 .. 6, c = Bits(t) PROVE ~UnknownType(c)
  <2>1. c \in {{}, {0}, {1}, {0, 1}, {2}, {0, 2}, {1, 2}}
    <3>1. t \in {0, 1, 2, 3, 4, 5, 6}
      OBVIOUS
    <3> QED
      BY <1>3, <3>1, Codes
  <2>2. c \subseteq {0, 1, 2} /\ c # {0, 1, 2} /\ 7 \notin c
    BY <2>1
  <2> QED
    BY <1>1, <2>2 DEF UnknownType, Unsigned
<1> QED
  BY <1>1, <1>2, <1>3

LEMMA TypeOfCode ==
  ASSUME NEW t \in 0 .. INVALID - 1
  PROVE  TypeOf(Bits(t)) = MsgTypes[t + 1]
<1>1. t \in 0 .. 255 /\ t < INVALID
  BY DEF INVALID
<1> QED
  BY <1>1, RawOfBits DEF TypeOf, At
-----------------------------------------------------------------------------
(***************************************************************************)
(* The amount: eight bytes, the first one on top.                          *)
(***************************************************************************)
LEMMA AmountIs ==
  ASSUME NEW ptxt \in Blocks
  PROVE  Amount(ptxt) = {b \in 0 .. 63 : b % 8 \in ptxt[10 - b \div 8]}
<1> DEFINE More(v, n) == Shl(v[n - 1], 8, 64) \cup ptxt[n]
           D(v) == [n \in 2 .. 10 |-> IF n = 2 THEN {} ELSE More(v, n)]
           f == [n \in 2 .. 10 |->
                  {b \in 0 .. 63 : n - b \div 8 >= 3 /\ b % 8 \in ptxt[n - b \div 8]}]
           amt == CHOOSE v : v = D(v)
<1>0. \A n \in 2 .. 10 :
        f[n] = {b \in 0 .. 63 : n - b \div 8 >= 3 /\ b % 8 \in ptxt[n - b \div 8]}
  OBVIOUS
<1>f. f = [n \in 2 .. 10 |-> f[n]]
  OBVIOUS
<1>3. Amount(ptxt) = amt[10]
  BY DEF Amount, MSG_LEN
<1>d. \A v : v = D(v) => v[2] = {} /\ \A n \in 3 .. 10 : v[n] = More(v, n)
  <2> SUFFICES ASSUME NEW v, v = D(v)
               PROVE  v[2] = {} /\ \A n \in 3 .. 10 : v[n] = More(v, n)
    OBVIOUS
  <2>1. D(v)[2] = {} /\ \A n \in 3 .. 10 : D(v)[n] = More(v, n)
    <3> HIDE DEF More
    <3> QED
      OBVIOUS
  <2> HIDE DEF D, More
  <2> QED
    BY <2>1
<1> HIDE DEF f
<1>1. f = D(f)
  <2>1. f[2] = {}
    <3>1. \A b \in 0 .. 63 : ~(2 - b \div 8 >= 3)
      OBVIOUS
    <3> QED
      BY <1>0, <3>1
  <2>2. ASSUME NEW n \in 3 .. 10 PROVE f[n] = More(f, n)
    <3> DEFINE low == n - 1
    <3>1. low \in 2 .. 10 /\ n \in 2 .. 10 /\ ptxt[n] \in SUBSET (0 .. 7)
      BY DEF Blocks, Byte, Word, BLOCK_BYTES
    <3>2. f[low] = {b \in 0 .. 63 : low - b \div 8 >= 3 /\ b % 8 \in ptxt[low - b \div 8]}
      BY <1>0, <3>1
    <3>3. f[n] = {b \in 0 .. 63 : n - b \div 8 >= 3 /\ b % 8 \in ptxt[n - b \div 8]}
      BY <1>0, <3>1
    <3>4. ASSUME NEW b \in 0 .. 7
          PROVE  b \in f[n] <=> b \in ptxt[n]
      <4>1. b \div 8 = 0 /\ b % 8 = b /\ b \in 0 .. 63
        OBVIOUS
      <4>2. n - b \div 8 = n /\ n >= 3
        BY <4>1
      <4> QED
        BY <3>3, <4>1, <4>2
    <3>5. ASSUME NEW b \in 8 .. 63
          PROVE  b \in f[n] <=> b - 8 \in f[low]
      <4> DEFINE c == b - 8
      <4>1. c \div 8 = b \div 8 - 1 /\ c % 8 = b % 8 /\ c \in 0 .. 63 /\ b \in 0 .. 63
        OBVIOUS
      <4>2. low - c \div 8 = n - b \div 8
        BY <4>1
      <4> HIDE DEF low, c
      <4>3. c \in f[low] <=> low - c \div 8 >= 3 /\ c % 8 \in ptxt[low - c \div 8]
        BY <3>2, <4>1
      <4>4. b \in f[n] <=> n - b \div 8 >= 3 /\ b % 8 \in ptxt[n - b \div 8]
        BY <3>3, <4>1
      <4>5. b \in f[n] <=> c \in f[low]
        BY <4>1, <4>2, <4>3, <4>4
      <4> QED
        BY <4>5 DEF c
    <3>6. f[n] \subseteq 0 .. 63 /\ f[low] \subseteq 0 .. 63
      BY <3>2, <3>3
    <3> HIDE DEF low
    <3>7. \A b : b \in Shl(f[low], 8, 64) <=> b \in 8 .. 63 /\ b - 8 \in f[low]
      <4>2. \A b : b \in Shl(f[low], 8, 64) <=> b \in 0 .. 63 /\ \E x \in f[low] : b = x + 8
        BY DEF Shl
      <4> QED
        BY <3>6, <4>2
    <3>8. \A b \in 0 .. 63 : b \in 0 .. 7 \/ b \in 8 .. 63
      OBVIOUS
    <3>9. \A b : b \in f[n] <=> b \in Shl(f[low], 8, 64) \/ b \in ptxt[n]
      BY <3>1, <3>4, <3>5, <3>6, <3>7, <3>8
    <3> QED
      BY <3>9 DEF low
  <2> HIDE DEF More
  <2>3. \A n \in 2 .. 10 : n = 2 \/ n \in 3 .. 10
    OBVIOUS
  <2>4. \A n \in 2 .. 10 : f[n] = IF n = 2 THEN {} ELSE More(f, n)
    BY <2>1, <2>2, <2>3
  <2> QED
    BY <2>4, <1>f
<1>2. amt = D(amt)
  BY <1>1
<1> HIDE DEF amt, D
<1>5. amt[10] = f[10]
  <2>1. amt[2] = f[2]
    BY <1>1, <1>2, <1>d
  <2>2. \A n \in 3 .. 10 : amt[n - 1] = f[n - 1] => amt[n] = f[n]
    <3>1. \A n \in 3 .. 10 : amt[n - 1] = f[n - 1] => More(amt, n) = More(f, n)
      OBVIOUS
    <3> HIDE DEF More
    <3> QED
      BY <1>1, <1>2, <1>d, <3>1
  <2>3. amt[3] = f[3]
    BY <2>1, <2>2
  <2>4. amt[4] = f[4]
    BY <2>2, <2>3
  <2>5. amt[5] = f[5]
    BY <2>2, <2>4
  <2>6. amt[6] = f[6]
    BY <2>2, <2>5
  <2>7. amt[7] = f[7]
    BY <2>2, <2>6
  <2>8. amt[8] = f[8]
    BY <2>2, <2>7
  <2>9. amt[9] = f[9]
    BY <2>2, <2>8
  <2> QED
    BY <2>2, <2>9
<1>6. f[10] = {b \in 0 .. 63 : b % 8 \in ptxt[10 - b \div 8]}
  <2>1. \A b \in 0 .. 63 : 10 - b \div 8 >= 3
    OBVIOUS
  <2> QED
    BY <1>0, <2>1
<1> QED
  BY <1>3, <1>5, <1>6
LEMMA BytesOfAmount ==
  ASSUME NEW ptxt \in Blocks, NEW amt \in SUBSET (0 .. 63),
         \A n \in 3 .. 10 : ptxt[n] = ByteOf(amt, 10 - n)
  PROVE  Amount(ptxt) = amt
<1>1. ASSUME NEW b \in 0 .. 63
      PROVE  b % 8 \in ptxt[10 - b \div 8] <=> b \in amt
  <2> DEFINE n == 10 - b \div 8
  <2>1. n \in 3 .. 10 /\ 10 - n = b \div 8 /\ b % 8 \in 0 .. 7
    OBVIOUS
  <2>2. (b % 8) + 8 * (b \div 8) = b
    OBVIOUS
  <2>3. ptxt[n] = ByteOf(amt, b \div 8)
    BY <2>1
  <2>4. b % 8 \in ptxt[n] <=> (b % 8) + 8 * (b \div 8) \in amt
    BY <2>1, <2>3 DEF ByteOf
  <2> QED
    BY <2>2, <2>4
<1> QED
  BY <1>1, AmountIs

LEMMA BlocksAreSeqs == ASSUME NEW x \in Blocks PROVE x \in Seq(Byte) /\ Len(x) = 16
<1> DEFINE y == [n \in 1 .. 16 |-> x[n]]
<1>1. x \in [1 .. 16 -> Byte]
  BY DEF Blocks, BLOCK_BYTES
<1>2. y \in Seq(Byte) /\ Len(y) = 16
  BY <1>1
<1>3. x = y
  BY <1>1
<1> QED
  BY <1>2, <1>3

LEMMA TupleBlock == ASSUME NEW x \in Blocks PROVE Tuple(x) = x
BY BlocksAreSeqs, TupleIs

\* SendMsg's plaintext is a block that RecvMsg reads as the message it was.
LEMMA PtxtIsRead ==
  ASSUME NEW t \in 1 .. INVALID, NEW uid \in Byte, NEW amt \in SUBSET (0 .. 63)
  PROVE  LET ptxt == Ptxt(MsgTypes[t], uid, amt)
         IN  /\ ptxt \in Blocks
             /\ Read(ptxt, TRUE) = [type |-> MsgTypes[t], uid |-> uid, amt |-> amt,
                                    error |-> "none"]
<1> DEFINE k == t - 1
           code == CHOOSE n \in 0 .. INVALID - 1 : At(MsgTypes, n) = MsgTypes[t]
           p == [n \in 1 .. AES_BUF_LEN |->
                  IF n = 1 THEN Bits(code)
                  ELSE IF n = 2 THEN uid
                  ELSE IF n <= MSG_LEN THEN ByteOf(amt, MSG_LEN - n) ELSE {}]
<1>1. code = k /\ k \in 0 .. INVALID - 1
  <2>1. \A m, n \in 1 .. 7 : MsgTypes[m] = MsgTypes[n] => m = n
    BY DEF MsgTypes
  <2>2. INVALID = 7
    BY DEF INVALID
  <2>3. k \in 0 .. 6 /\ k + 1 = t
    BY <2>2
  <2>4. \A n \in 0 .. 6 : At(MsgTypes, n) = MsgTypes[t] => n = k
    <3>1. \A n \in 0 .. 6 : n + 1 \in 1 .. 7 /\ t \in 1 .. 7
      BY <2>2
    <3>2. \A n \in 0 .. 6 : At(MsgTypes, n) = MsgTypes[n + 1]
      BY DEF At
    <3> QED
      BY <2>1, <2>3, <3>1, <3>2
  <2>5. At(MsgTypes, k) = MsgTypes[t]
    BY <2>3 DEF At
  <2> QED
    BY <2>2, <2>3, <2>4, <2>5
<1>2. AES_BUF_LEN = 16 /\ MSG_LEN = 10
  BY DEF AES_BUF_LEN, MSG_LEN, BLOCK_BYTES
<1> HIDE DEF code
<1>3. p \in Blocks
  <2>1. k \in 0 .. 255
    BY <1>1 DEF INVALID
  <2>2. Bits(code) \in Byte
    BY <1>1, <2>1, BitsOf
  <2>3. \A n \in 1 .. 16 : ByteOf(amt, MSG_LEN - n) \in Byte /\ {} \in Byte
    BY DEF ByteOf, Byte, Word
  <2> QED
    BY <1>2, <2>2, <2>3 DEF Blocks, BLOCK_BYTES
<1>4. Ptxt(MsgTypes[t], uid, amt) = p
  <2>1. Ptxt(MsgTypes[t], uid, amt) = Tuple(p)
    BY DEF Ptxt, code
  <2> QED
    BY <1>3, <2>1, TupleBlock
<1>5. /\ p[1] = Bits(k) /\ p[2] = uid
      /\ \A n \in 3 .. 10 : p[n] = ByteOf(amt, 10 - n)
  BY <1>1, <1>2
<1> HIDE DEF p
<1>6. Amount(p) = amt
  BY <1>3, <1>5, BytesOfAmount
<1>7. ~UnknownType(p[1])
  <2>1. p[1] \in Byte
    BY <1>3 DEF Blocks, BLOCK_BYTES
  <2> QED
    BY <1>1, <1>5, <2>1, KnownTypes
<1>8. TypeOf(p[1]) = MsgTypes[t]
  BY <1>1, <1>5, TypeOfCode
<1> QED
  BY <1>3, <1>4, <1>5, <1>6, <1>7, <1>8 DEF Read
-----------------------------------------------------------------------------
(***************************************************************************)
(* The one block of a message, there and back.                             *)
(***************************************************************************)
LEMMA XorIsBlock ==
  ASSUME NEW x \in Blocks, NEW y \in Blocks
  PROVE  /\ XorBlocks(x, y) \in Blocks
         /\ XorBlocks(XorBlocks(x, y), y) = x
<1> DEFINE once == [n \in 1 .. BLOCK_BYTES |-> Xor(x[n], y[n])]
           twice == [n \in 1 .. BLOCK_BYTES |-> Xor(once[n], y[n])]
<1>1. \A b, c \in Byte : Xor(b, c) \in Byte
  BY DEF Xor, SymDiff, Byte, Word
<1>2. once \in Blocks
  BY <1>1 DEF Blocks
<1>3. twice = x
  <2>1. \A n \in 1 .. BLOCK_BYTES : twice[n] = x[n]
    BY XorTwice
  <2> HIDE DEF once
  <2>2. twice = [n \in 1 .. BLOCK_BYTES |-> x[n]]
    BY <2>1
  <2> QED
    BY <2>2 DEF Blocks
<1>4. XorBlocks(x, y) = once
  BY <1>2, TupleBlock DEF XorBlocks
<1> HIDE DEF once
<1>5. XorBlocks(once, y) = twice
  BY <1>3, TupleBlock DEF XorBlocks
<1> QED
  BY <1>2, <1>3, <1>4, <1>5

LEMMA FlattenOne == ASSUME NEW s PROVE FlattenSeq([i \in 1 .. 1 |-> s]) = s
<1> DEFINE seqs == [i \in 1 .. 1 |-> s]
           D(v) == [i \in 1 .. 1 |-> IF i = 1 THEN seqs[i] ELSE v[i - 1] \o seqs[i]]
           flatten == CHOOSE v : v = D(v)
<1>1. Len(seqs) = 1 /\ seqs[1] = s
  OBVIOUS
<1>2. FlattenSeq(seqs) = flatten[1]
  BY <1>1 DEF FlattenSeq
<1>3. \A v : D(v) = [i \in 1 .. 1 |-> s]
  <2>1. \A v : \A i \in 1 .. 1 : D(v)[i] = s
    BY <1>1
  <2> QED
    BY <2>1
<1>4. flatten = [i \in 1 .. 1 |-> s]
  <2> HIDE DEF D
  <2>1. \E v : v = D(v)
    BY <1>3
  <2> QED
    BY <1>3, <2>1
<1> QED
  BY <1>2, <1>4

(***************************************************************************)
(* CBC of a single block.                                                  *)
(***************************************************************************)
KeysTyped(keys) == keys.aes_key \in Blocks /\ keys.aes_iv \in Blocks

LEMMA OneBlock ==
  ASSUME NEW x \in Blocks
  PROVE  /\ Len(x) \div BLOCK_BYTES = 1
         /\ Block(x, 1) = x
<1>1. x \in Seq(Byte) /\ Len(x) = 16 /\ BLOCK_BYTES = 16
  BY BlocksAreSeqs DEF BLOCK_BYTES
<1>2. 16 \div 16 = 1 /\ 16 * (1 - 1) + 1 = 1 /\ 16 * 1 = 16
  OBVIOUS
<1>3. SubSeq(x, 1, Len(x)) = x
  BY <1>1, SubSeqFull
<1> QED
  BY <1>1, <1>2, <1>3 DEF Block

LEMMA EncryptsOne ==
  ASSUME NEW x \in Blocks, NEW keys, KeysTyped(keys)
  PROVE  Cbc_encrypt(x, keys) = Encrypt(XorBlocks(x, keys.aes_iv), keys.aes_key)
<1> DEFINE c == Encrypt(XorBlocks(x, keys.aes_iv), keys.aes_key)
           D(v) == [i \in 0 .. Len(x) \div BLOCK_BYTES |->
                     IF i = 0 THEN keys.aes_iv
                     ELSE Encrypt(XorBlocks(Block(x, i), v[i - 1]), keys.aes_key)]
           cipher == CHOOSE v : v = D(v)
           f == [i \in 0 .. 1 |-> IF i = 0 THEN keys.aes_iv ELSE c]
<1>1. Cbc_encrypt(x, keys) = FlattenSeq([i \in 1 .. Len(x) \div BLOCK_BYTES |-> cipher[i]])
  BY DEF Cbc_encrypt
<1>2. \A v : DOMAIN D(v) = 0 .. 1 /\ D(v)[0] = keys.aes_iv
             /\ D(v)[1] = Encrypt(XorBlocks(x, v[0]), keys.aes_key)
  BY OneBlock
<1>3. f = D(f)
  <2>1. f[0] = keys.aes_iv /\ f[1] = c
    OBVIOUS
  <2>2. D(f) = [i \in 0 .. 1 |-> D(f)[i]]
    BY OneBlock
  <2>3. \A i \in 0 .. 1 : i = 0 \/ i = 1
    OBVIOUS
  <2>4. D(f)[0] = keys.aes_iv /\ D(f)[1] = c
    <3> HIDE DEF D, f
    <3> QED
      BY <1>2, <2>1
  <2> HIDE DEF D
  <2>5. f = [i \in 0 .. 1 |-> f[i]]
    OBVIOUS
  <2> HIDE DEF f
  <2>6. \A i \in 0 .. 1 : f[i] = D(f)[i]
    BY <2>1, <2>3, <2>4
  <2> QED
    BY <2>2, <2>5, <2>6
<1> HIDE DEF D, f
<1>4. cipher = D(cipher)
  BY <1>3
<1> HIDE DEF cipher
<1>5. cipher[1] = c
  <2>1. cipher[0] = keys.aes_iv
    BY <1>2, <1>4
  <2>2. D(cipher)[1] = c
    BY <1>2, <2>1
  <2> QED
    BY <1>4, <2>2
<1>6. [i \in 1 .. Len(x) \div BLOCK_BYTES |-> cipher[i]] = [i \in 1 .. 1 |-> c]
  <2>1. \A i \in 1 .. 1 : i = 1
    OBVIOUS
  <2> QED
    BY <1>5, <2>1, OneBlock
<1> QED
  BY <1>1, <1>6, FlattenOne

LEMMA DecryptsOne ==
  ASSUME NEW x \in Blocks, NEW keys, KeysTyped(keys)
  PROVE  Cbc_decrypt(x, keys) = XorBlocks(Decrypt(x, keys.aes_key), keys.aes_iv)
<1> DEFINE d == XorBlocks(Decrypt(x, keys.aes_key), keys.aes_iv)
           previous(i) == IF i = 1 THEN keys.aes_iv ELSE Block(x, i - 1)
           plain == [i \in 1 .. Len(x) \div BLOCK_BYTES |->
                      XorBlocks(Decrypt(Block(x, i), keys.aes_key), previous(i))]
<1>1. Cbc_decrypt(x, keys) = FlattenSeq(plain)
  BY DEF Cbc_decrypt
<1>2. plain = [i \in 1 .. 1 |-> d]
  <2>1. \A i \in 1 .. 1 : i = 1
    OBVIOUS
  <2> QED
    BY <2>1, OneBlock
<1> QED
  BY <1>1, <1>2, FlattenOne

LEMMA ThereAndBack ==
  ASSUME NEW x \in Blocks,
         NEW p, KeysTyped(p), NEW q, q.aes_key = p.aes_key, q.aes_iv = p.aes_iv
  PROVE  /\ Cbc_encrypt(x, p) \in Blocks
         /\ Cbc_decrypt(Cbc_encrypt(x, p), q) = x
<1> DEFINE y == XorBlocks(x, p.aes_iv)
           c == Encrypt(y, p.aes_key)
<1>1. y \in Blocks /\ XorBlocks(y, p.aes_iv) = x
  BY XorIsBlock DEF KeysTyped
<1>2. Cbc_encrypt(x, p) = c
  BY EncryptsOne
<1> HIDE DEF y
<1>3. c \in Blocks /\ Decrypt(c, p.aes_key) = y
  BY <1>1, DecryptUndoesEncrypt DEF KeysTyped
<1>4. KeysTyped(q)
  BY DEF KeysTyped
<1> HIDE DEF c
<1>5. Cbc_decrypt(c, q) = XorBlocks(Decrypt(c, q.aes_key), q.aes_iv)
  BY <1>3, <1>4, DecryptsOne
<1> QED
  BY <1>1, <1>2, <1>3, <1>5

LEMMA PlaintextsAreBlocks ==
  ASSUME NEW c \in Blocks, NEW q, KeysTyped(q)
  PROVE  Cbc_decrypt(c, q) \in Blocks
<1>1. Decrypt(c, q.aes_key) \in Blocks
  BY DecryptUndoesEncrypt DEF KeysTyped
<1> QED
  BY <1>1, DecryptsOne, XorIsBlock DEF KeysTyped
-----------------------------------------------------------------------------
(***************************************************************************)
(* The key string.                                                         *)
(***************************************************************************)
Zeros(s) == {i \in DOMAIN s : s[i] = {}}
CString(s) == SubSeq(s, 1, Min(Zeros(s)) - 1)

\* It is what stands before the first zero.
Ends(s, z) == z \in 1 .. Len(s) /\ s[z] = {} /\ \A i \in 1 .. z - 1 : s[i] # {}

LEMMA CStringIs ==
  ASSUME NEW s \in Seq(Byte), NEW e \in 1 .. Len(s), s[e] = {}
  PROVE  \E z : /\ Ends(s, z)
                /\ CString(s) \in Seq(Byte) /\ Len(CString(s)) = z - 1
                /\ \A i \in 1 .. z - 1 : CString(s)[i] = s[i]
<1> DEFINE S == Zeros(s)
           z == Min(S)
           t == SubSeq(s, 1, z - 1)
<1>1. S \in SUBSET Nat /\ S # {} /\ \A i : i \in S <=> i \in 1 .. Len(s) /\ s[i] = {}
  BY LenProperties DEF Zeros
<1>2. z \in S /\ \A i \in S : z <= i
  <2> HIDE DEF S
  <2>1. PICK m \in S : \A i \in S : m <= i
    BY <1>1, Least
  <2>2. Min(S) = CHOOSE x \in S : \A y \in S : x <= y
    BY DEF Min
  <2> QED
    BY <2>1, <2>2
<1>3. CString(s) = t
  BY DEF CString
<1> HIDE DEF S, z
<1>4. z \in 1 .. Len(s) /\ s[z] = {} /\ Len(s) \in Nat
  BY <1>1, <1>2, LenProperties
<1>5. ASSUME NEW i \in 1 .. z - 1 PROVE s[i] # {}
  <2>1. i \in 1 .. Len(s) /\ ~(z <= i)
    BY <1>4
  <2> QED
    BY <1>1, <1>2, <2>1
<1>6. 1 \in Int /\ z - 1 \in Int /\ \A i \in 1 .. z - 1 : s[i] \in Byte
  <2>1. \A i \in 1 .. z - 1 : i \in 1 .. Len(s)
    BY <1>4
  <2> QED
    BY <1>4, <2>1, ElementOfSeq
<1>7. t \in Seq(Byte)
  BY <1>6, SubSeqProperties
<1>8. Len(t) = IF 1 <= z - 1 THEN (z - 1) - 1 + 1 ELSE 0
  BY <1>6, SubSeqProperties
<1>9. \A i \in 1 .. (z - 1) - 1 + 1 : t[i] = s[1 + i - 1]
  BY <1>6, SubSeqProperties
<1> HIDE DEF t
<1>10. Len(t) = z - 1
  BY <1>4, <1>8
<1>11. ASSUME NEW i \in 1 .. z - 1 PROVE t[i] = s[i]
  <2>1. i \in 1 .. (z - 1) - 1 + 1 /\ 1 + i - 1 = i
    BY <1>4
  <2> QED
    BY <1>9, <2>1
<1>12. Ends(s, z)
  BY <1>4, <1>5 DEF Ends
<1> QED
  BY <1>3, <1>7, <1>10, <1>11, <1>12

\* Where two strings agree, both end or neither does.
LEMMA EndsAgree ==
  ASSUME NEW s, NEW t, NEW n \in Nat, n <= Len(s), n <= Len(t), Agree(s, t, n),
         NEW z \in Nat, NEW y \in Nat, Ends(s, z), Ends(t, y), z <= n
  PROVE  y <= z
<1> SUFFICES ASSUME ~(y <= z) PROVE FALSE
  OBVIOUS
<1>1. z \in 1 .. n /\ z \in 1 .. y - 1
  BY DEF Ends
<1>2. t[z] = s[z]
  BY <1>1 DEF Agree
<1> QED
  BY <1>1, <1>2 DEF Ends

LEMMA CStringsAgree ==
  ASSUME NEW s \in Seq(Byte), NEW t \in Seq(Byte), NEW e \in 1 .. Len(s), s[e] = {},
         NEW f \in 1 .. Len(t), t[f] = {},
         NEW n \in Nat, n > 64, n <= Len(s), n <= Len(t), Agree(s, t, n)
  PROVE  \/ CString(s) = CString(t)
         \/ /\ ~(Len(CString(s)) <= 64) /\ ~(Len(CString(t)) <= 64)
            /\ Agree(CString(s), CString(t), 64)
<1> DEFINE c == CString(s)
           d == CString(t)
<1>1. PICK z : /\ Ends(s, z) /\ c \in Seq(Byte) /\ Len(c) = z - 1
               /\ \A i \in 1 .. z - 1 : c[i] = s[i]
  BY CStringIs
<1>2. PICK y : /\ Ends(t, y) /\ d \in Seq(Byte) /\ Len(d) = y - 1
               /\ \A i \in 1 .. y - 1 : d[i] = t[i]
  BY CStringIs
<1> HIDE DEF c, d
<1>3. z \in Nat /\ y \in Nat /\ z >= 1 /\ y >= 1
  BY <1>1, <1>2 DEF Ends
<1>4. Agree(t, s, n)
  BY DEF Agree
<1>5. CASE z <= n \/ y <= n
  <2>1. z <= n => y <= z
    BY <1>1, <1>2, <1>3, EndsAgree
  <2>2. y <= n => z <= y
    BY <1>1, <1>2, <1>3, <1>4, EndsAgree
  <2>3. y = z /\ z <= n
    BY <1>3, <1>5, <2>1, <2>2
  <2>4. ASSUME NEW i \in 1 .. z - 1 PROVE c[i] = d[i]
    <3>1. i \in 1 .. n /\ i \in 1 .. y - 1
      BY <1>3, <2>3
    <3>2. s[i] = t[i]
      BY <3>1 DEF Agree
    <3> QED
      BY <1>1, <1>2, <3>1, <3>2
  <2>5. c = d
    <3>1. Len(c) = Len(d) /\ \A i \in 1 .. Len(c) : c[i] = d[i]
      BY <1>1, <1>2, <2>3, <2>4
    <3> QED
      BY <1>1, <1>2, <3>1, SeqEqual
  <2> QED
    BY <2>5 DEF c, d
<1>6. CASE ~(z <= n) /\ ~(y <= n)
  <2>1. ~(Len(c) <= 64) /\ ~(Len(d) <= 64)
    BY <1>1, <1>2, <1>3, <1>6
  <2>2. ASSUME NEW i \in 1 .. 64 PROVE c[i] = d[i]
    <3>1. i \in 1 .. n /\ i \in 1 .. y - 1 /\ i \in 1 .. z - 1
      BY <1>3, <1>6
    <3>2. s[i] = t[i]
      BY <3>1 DEF Agree
    <3> QED
      BY <1>1, <1>2, <3>1, <3>2
  <2> QED
    BY <2>1, <2>2 DEF Agree, c, d
<1> QED
  BY <1>5, <1>6

\* What is behind the keys, and the zero that no one has set.
Memory(keys) ==
  keys.hmac_key \o keys.aes_key \o keys.aes_iv \o keys.behind \o <<{}>>

LEMMA MemoryIs ==
  ASSUME NEW keys \in Keyring
  PROVE  LET w == keys.hmac_key \o keys.aes_key \o keys.aes_iv
             n == Len(w)
             m == Memory(keys)
         IN  /\ n \in Nat /\ n > 64
             /\ m \in Seq(Byte) /\ n <= Len(m) /\ Agree(m, w, n)
             /\ Len(m) \in 1 .. Len(m) /\ m[Len(m)] = {}
<1> DEFINE w == keys.hmac_key \o keys.aes_key \o keys.aes_iv
           n == Len(w)
           b == keys.behind
           v == w \o b
           m == v \o <<{}>>
<1>1. w \in Seq(Byte) /\ n \in Nat /\ n > 64
  <2> DEFINE h == keys.hmac_key
             a == keys.aes_key
             iv == keys.aes_iv
  <2>1. h \in [1 .. 64 -> Byte] /\ a \in [1 .. 16 -> Byte] /\ iv \in [1 .. 16 -> Byte]
    BY DEF Keyring, Blocks, BLOCK_BYTES, byte_length
  <2> HIDE DEF h, a, iv
  <2>2. h \in Seq(Byte) /\ Len(h) = 64
    <3>1. h = [i \in 1 .. 64 |-> h[i]] /\ \A i \in 1 .. 64 : h[i] \in Byte
      BY <2>1
    <3> DEFINE g == [i \in 1 .. 64 |-> h[i]]
    <3>2. g \in Seq(Byte) /\ Len(g) = 64
      BY <3>1
    <3> QED
      BY <3>1, <3>2
  <2>3. a \in Seq(Byte) /\ Len(a) = 16
    <3>1. a = [i \in 1 .. 16 |-> a[i]] /\ \A i \in 1 .. 16 : a[i] \in Byte
      BY <2>1
    <3> DEFINE g == [i \in 1 .. 16 |-> a[i]]
    <3>2. g \in Seq(Byte) /\ Len(g) = 16
      BY <3>1
    <3> QED
      BY <3>1, <3>2
  <2>4. iv \in Seq(Byte) /\ Len(iv) = 16
    <3>1. iv = [i \in 1 .. 16 |-> iv[i]] /\ \A i \in 1 .. 16 : iv[i] \in Byte
      BY <2>1
    <3> DEFINE g == [i \in 1 .. 16 |-> iv[i]]
    <3>2. g \in Seq(Byte) /\ Len(g) = 16
      BY <3>1
    <3> QED
      BY <3>1, <3>2
  <2>5. w = h \o a \o iv
    BY DEF h, a, iv
  <2> HIDE DEF w
  <2>6. h \in Seq(Byte) /\ a \in Seq(Byte) /\ iv \in Seq(Byte)
    BY <2>2, <2>3, <2>4
  <2>7. h \o a \in Seq(Byte) /\ Len(h \o a) = Len(h) + Len(a)
    BY <2>6, ConcatProperties
  <2>8. (h \o a) \o iv \in Seq(Byte) /\ Len((h \o a) \o iv) = Len(h \o a) + Len(iv)
    BY <2>6, <2>7, ConcatProperties
  <2>9. Len(w) = 64 + 16 + 16
    BY <2>2, <2>3, <2>4, <2>5, <2>7, <2>8
  <2> QED
    BY <2>5, <2>8, <2>9
<1>2. b \in Seq(Byte) /\ <<{}>> \in Seq(Byte) /\ Len(<<{}>>) = 1
  BY DEF Keyring, Byte, Word
<1>3. Memory(keys) = m
  BY DEF Memory
<1> HIDE DEF w, n, b
<1>4. v \in Seq(Byte) /\ Len(v) = Len(w) + Len(b)
  BY <1>1, <1>2, ConcatProperties
<1>5. \A i \in 1 .. Len(w) + Len(b) : v[i] = IF i <= Len(w) THEN w[i] ELSE b[i - Len(w)]
  BY <1>1, <1>2, ConcatProperties
<1>6. Len(b) \in Nat /\ Len(v) \in Nat /\ Len(w) = n
  BY <1>2, <1>4, LenProperties DEF n
<1> HIDE DEF v
<1>7. m \in Seq(Byte) /\ Len(m) = Len(v) + 1
  BY <1>2, <1>4, ConcatProperties
<1>8. \A i \in 1 .. Len(v) + 1 : m[i] = IF i <= Len(v) THEN v[i] ELSE <<{}>>[i - Len(v)]
  BY <1>2, <1>4, ConcatProperties
<1> HIDE DEF m
<1>9. ASSUME NEW i \in 1 .. n PROVE m[i] = w[i]
  <2>1. i \in 1 .. Len(w) + Len(b) /\ i <= Len(w) /\ i \in 1 .. Len(v) + 1 /\ i <= Len(v)
    BY <1>1, <1>4, <1>6
  <2> QED
    BY <1>5, <1>8, <2>1
<1>10. m[Len(m)] = {}
  <2>1. Len(v) + 1 \in 1 .. Len(v) + 1 /\ ~(Len(v) + 1 <= Len(v)) /\ (Len(v) + 1) - Len(v) = 1
    BY <1>6
  <2>2. m[Len(v) + 1] = <<{}>>[1]
    BY <1>8, <2>1
  <2>3. <<{}>>[1] = {}
    OBVIOUS
  <2> QED
    BY <1>7, <2>2, <2>3
<1>11. n <= Len(m) /\ Len(m) \in 1 .. Len(m)
  BY <1>1, <1>4, <1>6, <1>7
<1>12. Agree(m, w, n)
  BY <1>9 DEF Agree
<1> QED
  BY <1>1, <1>3, <1>7, <1>10, <1>11, <1>12 DEF w, n

LEMMA KeyStringIs ==
  ASSUME NEW keys \in Keyring
  PROVE  KeyString(keys) = CString(Memory(keys)) /\ KeyString(keys) \in Seq(Byte)
<1> DEFINE m == Memory(keys)
<1>1. KeyString(keys) = CString(m)
  BY DEF KeyString, Memory, CString, Zeros
<1>2. m \in Seq(Byte) /\ Len(m) \in 1 .. Len(m) /\ m[Len(m)] = {}
  BY MemoryIs
<1> HIDE DEF m
<1> QED
  BY <1>1, <1>2, CStringIs DEF m

(***************************************************************************)
(* Two programs with the same keys: where the key strings end, or that     *)
(* they run on behind the keys, makes no difference to a tag.              *)
(***************************************************************************)
LEMMA KeyStringsCount ==
  ASSUME NEW p \in Keyring, NEW q \in Keyring,
         p.hmac_key = q.hmac_key, p.aes_key = q.aes_key, p.aes_iv = q.aes_iv,
         Len(KeyString(p)) < 448, Len(KeyString(q)) < 448
  PROVE  SameToHash(KeyString(p), KeyString(q))
<1> DEFINE w == p.hmac_key \o p.aes_key \o p.aes_iv
           n == Len(w)
           s == Memory(p)
           t == Memory(q)
           e == Len(s)
           f == Len(t)
<1>1. /\ n \in Nat /\ n > 64 /\ s \in Seq(Byte) /\ n <= Len(s) /\ Agree(s, w, n)
      /\ e \in 1 .. Len(s) /\ s[e] = {}
  BY MemoryIs
<1>2. /\ t \in Seq(Byte) /\ n <= Len(t) /\ Agree(t, w, n)
      /\ f \in 1 .. Len(t) /\ t[f] = {}
  <2>1. w = q.hmac_key \o q.aes_key \o q.aes_iv
    OBVIOUS
  <2> QED
    BY <2>1, MemoryIs
<1>3. KeyString(p) = CString(s) /\ KeyString(q) = CString(t)
  BY KeyStringIs
<1> HIDE DEF w, n, s, t, e, f
<1>4. Agree(s, t, n)
  BY <1>1, <1>2 DEF Agree
<1>5. \/ CString(s) = CString(t)
      \/ /\ ~(Len(CString(s)) <= 64) /\ ~(Len(CString(t)) <= 64)
         /\ Agree(CString(s), CString(t), 64)
  BY <1>1, <1>2, <1>4, CStringsAgree
<1> QED
  BY <1>3, <1>5 DEF SameToHash
-----------------------------------------------------------------------------
(***************************************************************************)
(* The tag.  Two programs with the same keys make the same one, whatever   *)
(* words they start in and whatever lies behind the keys.                  *)
(***************************************************************************)
LEMMA TagsAgree ==
  ASSUME NEW p \in Keyring, NEW q \in Keyring, NEW x \in Blocks, SameKeys(p, q),
         Len(KeyString(p)) < 448, Len(KeyString(q)) < 448, NEW g, NEW h
  PROVE  Hash_string(Create_HMAC(g, x, KeyString(p))) = Hash_string(Create_HMAC(h, x, KeyString(q)))
<1> DEFINE c == KeyString(p)
           d == KeyString(q)
<1>1. c \in Seq(Byte) /\ d \in Seq(Byte)
  BY KeyStringIs
<1>2. SameToHash(c, d)
  BY KeyStringsCount DEF SameKeys
<1>3. x \in Seq(Byte)
  BY BlocksAreSeqs
<1> HIDE DEF c, d
<1>4. Create_HMAC(g, x, c) = Create_HMAC(h, x, d)
  BY <1>1, <1>2, <1>3, SameKeySameTag
<1> QED
  BY <1>4 DEF c, d

LEMMA TagsFull ==
  ASSUME NEW p \in Keyring, NEW x \in Blocks, NEW g
  PROVE  Len(Hash_string(Create_HMAC(g, x, KeyString(p)))) = output_length
<1> DEFINE c == KeyString(p)
<1>1. c \in Seq(Byte) /\ x \in Seq(Byte)
  BY KeyStringIs, BlocksAreSeqs
<1> HIDE DEF c
<1>2. Len(Hash_string(Create_HMAC(g, x, c))) = output_length
  BY <1>1, FullTags
<1> QED
  BY <1>2 DEF c
-----------------------------------------------------------------------------
(***************************************************************************)
(* What is known at each point of the turn.                                *)
(***************************************************************************)
IsProgram(p) ==
  /\ p = [keys |-> p.keys, raw |-> p.raw, holder |-> p.holder]
  /\ p.keys \in Keyring /\ p.raw \in BOOLEAN

Orders == [type : DOMAIN Act, uid : Byte, amt : Word(64)]
Replies == [type : {"OK", "BAD_FORMAT", "TOO_MUCH_BANK", "NOT_ENOUGH_DOUGH"},
            uid : Byte, amt : Word(64)]
Received == [type : {"INVALID"} \cup {MsgTypes[i] : i \in 1 .. INVALID},
             uid : Byte, amt : Word(64), error : {"none", "mac", "type"}]

Arrived(m) == [type |-> m.type, uid |-> m.uid, amt |-> m.amt, error |-> "none"]

\* The packet on the way is m, as program p sends it.
Carries(p, m) ==
  \E h : wire = SendMsg([p EXCEPT !.holder = h], m.type, m.uid, m.amt).msg

Connected == pc \in {"send", "request", "decide", "reply", "shown"}

\* Both programs hold the same keys and compare tags.
Matched ==
  /\ ~process.atm.raw /\ ~process.bank.raw
  /\ SameKeys(process.atm.keys, process.bank.keys)
  /\ KeyStringFits(process.atm) /\ KeyStringFits(process.bank)

PathInv ==
  /\ pc \in {"id", "line", "connect", "send", "request", "decide", "reply", "shown", "bye",
            "failed"}
  /\ pc \in {"id", "line", "connect", "bye", "failed"} => process = None
  /\ pc \in {"id", "line", "bye", "failed"} => order = None
  /\ pc \in {"connect", "send", "request", "decide", "reply", "shown"} => order \in Orders
  /\ Connected => /\ process = [atm |-> process.atm, bank |-> process.bank]
                  /\ IsProgram(process.atm) /\ IsProgram(process.bank)
  /\ pc \notin {"request", "reply"} => wire = None
  /\ pc = "request" => Carries(process.atm, order)
  /\ pc \in {"id", "line", "connect", "bye", "failed", "send", "request"} => request = None
  /\ pc \in {"decide", "reply", "shown"} =>
       request \in Received /\ (Matched => request = Arrived(order))
  /\ pc \in {"reply", "shown"} =>
       answer \in Replies /\ (answer.type # "OK" => answer.amt = {})
  /\ pc = "reply" => Carries(process.bank, answer)
  /\ pc # "shown" => shown = None
  /\ pc = "shown" => /\ shown.balance \in Word(64)
                     /\ Matched => shown.type = answer.type /\ shown.balance = answer.amt
-----------------------------------------------------------------------------
\* What SendMsg makes of a program and a message.
LEMMA SendMsgIs ==
  ASSUME NEW p, IsProgram(p), NEW type, NEW uid, NEW amt
  PROVE  LET sent == SendMsg(p, type, uid, amt)
         IN  /\ IsProgram(sent.process)
             /\ sent.process.keys = p.keys /\ sent.process.raw = p.raw
             /\ p = [sent.process EXCEPT !.holder = p.holder]
<1> DEFINE words == TagWords(p, Ptxt(type, uid, amt))
           sent == SendMsg(p, type, uid, amt)
           q == [sent.process EXCEPT !.holder = p.holder]
<1>1. sent.process = [p EXCEPT !.holder = words]
  BY DEF SendMsg, Sent, Hashed
<1> HIDE DEF words
<1>2. /\ IsProgram(sent.process) /\ sent.process.keys = p.keys /\ sent.process.raw = p.raw
  <2> HIDE DEF sent
  <2> QED
    BY <1>1 DEF IsProgram
<1>3. p = q
  <2> HIDE DEF sent
  <2> QED
    BY <1>1 DEF IsProgram
<1> QED
  BY <1>2, <1>3

\* And RecvMsg of a program and a packet.
LEMMA RecvMsgIs ==
  ASSUME NEW p, IsProgram(p), NEW msg
  PROVE  LET received == RecvMsg(p, msg)
         IN  /\ IsProgram(received.process)
             /\ received.process.keys = p.keys /\ received.process.raw = p.raw
<1> DEFINE words == TagWords(p, Cbc_decrypt(msg.ctxt, p.keys))
<1>1. RecvMsg(p, msg).process = IF p.raw THEN p ELSE [p EXCEPT !.holder = words]
  BY DEF RecvMsg, Checked, Opened, Hashed
<1> HIDE DEF words
<1> QED
  BY <1>1 DEF IsProgram

\* A plaintext is read as a message of the right type.
LEMMA ReadTyped ==
  ASSUME NEW x \in Blocks, NEW fits \in BOOLEAN
  PROVE  Read(x, fits) \in Received
<1>1. x[1] \in Byte /\ x[2] \in Byte
  BY DEF Blocks, BLOCK_BYTES
<1>2. Amount(x) \in Word(64)
  BY AmountIs DEF Word
<1>3. ASSUME ~UnknownType(x[1])
      PROVE  \E i \in 1 .. INVALID : TypeOf(x[1]) = MsgTypes[i]
  <2>1. PICK t \in 0 .. INVALID - 1 : x[1] = Bits(t)
    BY <1>1, <1>3, KnownTypes
  <2>2. TypeOf(x[1]) = MsgTypes[t + 1]
    BY <2>1, TypeOfCode
  <2>3. t + 1 \in 1 .. INVALID
    BY DEF INVALID
  <2> QED
    BY <2>2, <2>3
<1>4. {} \in Byte /\ {} \in Word(64)
  BY DEF Byte, Word
<1> QED
  BY <1>1, <1>2, <1>3, <1>4 DEF Read, Refused, Received

\* What one program sends, another one reads.
LEMMA SentIsRead ==
  ASSUME NEW p, p.keys \in Keyring, p.raw \in BOOLEAN, NEW q, q.keys \in Keyring, q.raw \in BOOLEAN,
         NEW m, m.type \in {MsgTypes[i] : i \in 1 .. INVALID}, m.uid \in Byte, m.amt \in Word(64)
  PROVE  LET read == RecvMsg(q, SendMsg(p, m.type, m.uid, m.amt).msg).msg
         IN  /\ read \in Received
             /\ ~p.raw /\ ~q.raw /\ SameKeys(p.keys, q.keys)
                /\ KeyStringFits(p) /\ KeyStringFits(q) => read = Arrived(m)
<1> DEFINE x == Ptxt(m.type, m.uid, m.amt)
           tag == Hash_string(Create_HMAC(p.holder, x, KeyString(p.keys)))
           text == IF p.raw THEN x ELSE Cbc_encrypt(x, p.keys)
           y == IF q.raw THEN text ELSE Cbc_decrypt(text, q.keys)
           own == Hash_string(Create_HMAC(q.holder, y, KeyString(q.keys)))
           fits == IF q.raw THEN TRUE ELSE own = tag
           sent == SendMsg(p, m.type, m.uid, m.amt).msg
<1>1. x \in Blocks /\ Read(x, TRUE) = Arrived(m)
  <2>1. PICK t \in 1 .. INVALID : m.type = MsgTypes[t]
    OBVIOUS
  <2>2. m.amt \in SUBSET (0 .. 63)
    BY DEF Word
  <2> QED
    BY <2>1, <2>2, PtxtIsRead DEF Arrived
<1>2. sent = [mac |-> tag, ctxt |-> text]
  BY DEF SendMsg, Sent, Packet, TagWords
<1> HIDE DEF x, sent
<1>3. KeysTyped(p.keys) /\ KeysTyped(q.keys)
  BY DEF KeysTyped, Keyring
<1>4. text \in Blocks /\ y \in Blocks
  <2>1. text \in Blocks
    BY <1>1, <1>3, ThereAndBack
  <2> QED
    BY <1>3, <2>1, PlaintextsAreBlocks
<1>5. RecvMsg(q, sent).msg = Read(y, fits)
  <2> HIDE DEF text, tag
  <2>1. sent.ctxt = text /\ sent.mac = tag
    BY <1>2
  <2> QED
    BY <2>1 DEF RecvMsg, Checked, Opened, TagWords
<1>6. fits \in BOOLEAN
  OBVIOUS
<1>7. ASSUME ~p.raw, ~q.raw, SameKeys(p.keys, q.keys), KeyStringFits(p), KeyStringFits(q)
      PROVE  y = x /\ fits
  <2>1. text = Cbc_encrypt(x, p.keys) /\ y = Cbc_decrypt(text, q.keys)
    BY <1>7
  <2>2. y = x
    <3> HIDE DEF y, text
    <3>1. q.keys.aes_key = p.keys.aes_key /\ q.keys.aes_iv = p.keys.aes_iv
      BY <1>7 DEF SameKeys
    <3> QED
      BY <1>1, <1>3, <2>1, <3>1, ThereAndBack
  <2>3. Len(KeyString(p.keys)) < 448 /\ Len(KeyString(q.keys)) < 448
    BY <1>7 DEF KeyStringFits
  <2>4. \A g, h : Hash_string(Create_HMAC(g, x, KeyString(p.keys))) = Hash_string(Create_HMAC(h, x, KeyString(q.keys)))
    BY <1>1, <1>7, <2>3, TagsAgree
  <2> HIDE DEF y
  <2> QED
    BY <1>7, <2>2, <2>4
<1> HIDE DEF fits, y
<1> QED
  BY <1>1, <1>4, <1>5, <1>6, <1>7, ReadTyped DEF sent
-----------------------------------------------------------------------------
LEMMA InitPath == Init => PathInv
BY DEF Init, PathInv, Connected

\* No step but a connection's first changes the programs' keys or builds.
KeepsPrograms ==
  /\ process' = [atm |-> process'.atm, bank |-> process'.bank]
  /\ IsProgram(process'.atm) /\ IsProgram(process'.bank)
  /\ process'.atm.keys = process.atm.keys /\ process'.atm.raw = process.atm.raw
  /\ process'.bank.keys = process.bank.keys /\ process'.bank.raw = process.bank.raw

LEMMA MatchedBefore ==
  ASSUME KeepsPrograms
  PROVE  Matched' => Matched
BY DEF KeepsPrograms, Matched, SameKeys, KeyStringFits

LEMMA ReadIdPath == ASSUME PathInv, ReadId PROVE PathInv'
BY DEF PathInv, ReadId, Connected

LEMMA ReadLinePath == ASSUME PathInv, ReadLine PROVE PathInv'
<1>1. CASE Aborted(line') \/ IsQuit(line')
  BY <1>1 DEF PathInv, ReadLine, Connected
<1>2. CASE ~Aborted(line') /\ ~IsQuit(line')
  <2>1. pc = "line" /\ pc' = "connect" /\ order' = Request(UId(id), line')
        /\ UNCHANGED <<process, wire, request, answer, shown>>
    BY <1>2 DEF ReadLine
  <2>2. order' \in Orders
    <3>1. \E type \in DOMAIN Act : Act[type] = line'[1]
      BY <1>2 DEF Aborted
    <3>2. UId(id) \in Byte
      BY DEF UId, Cast, Byte, Word
    <3>3. \A n : Cast(n, 64) \in Word(64)
      BY DEF Cast, Word
    <3>4. {} \in Word(64)
      BY DEF Word
    <3> QED
      BY <2>1, <3>1, <3>2, <3>3, <3>4 DEF Request, Orders
  <2> QED
    BY <2>1, <2>2 DEF PathInv, Connected
<1> QED
  BY <1>1, <1>2

LEMMA EndOfInputPath == ASSUME PathInv, EndOfInput PROVE PathInv'
BY DEF PathInv, EndOfInput, Connected

LEMMA Estab_conPath == ASSUME PathInv, Estab_con PROVE PathInv'
<1>1. process' \in [atm : Programs, bank : Programs]
  BY OrderPathAssumption DEF Estab_con
<1>2. /\ process' = [atm |-> process'.atm, bank |-> process'.bank]
      /\ IsProgram(process'.atm) /\ IsProgram(process'.bank)
  BY <1>1 DEF Programs, IsProgram
<1> QED
  BY <1>2 DEF PathInv, Estab_con, Connected

LEMMA AtmSendsPath == ASSUME PathInv, AtmSends PROVE PathInv'
<1> DEFINE sent == SendMsg(process.atm, order.type, order.uid, order.amt)
<1>1. pc = "send" /\ pc' = "request" /\ process' = [process EXCEPT !.atm = sent.process]
      /\ wire' = sent.msg /\ UNCHANGED <<id, line, order, request, answer, shown>>
  BY DEF AtmSends
<1>2. /\ process = [atm |-> process.atm, bank |-> process.bank]
      /\ IsProgram(process.atm) /\ IsProgram(process.bank)
  BY <1>1 DEF PathInv, Connected
<1>3. /\ IsProgram(sent.process)
      /\ process.atm = [sent.process EXCEPT !.holder = process.atm.holder]
  BY <1>2, SendMsgIs
<1>4. process' = [atm |-> sent.process, bank |-> process.bank]
  <2> HIDE DEF sent
  <2> QED
    BY <1>1, <1>2
<1>5. Carries(process.atm, order)'
  <2> DEFINE h == process.atm.holder
  <2>1. process'.atm = sent.process /\ order' = order
    BY <1>1, <1>4
  <2>2. wire' = SendMsg([sent.process EXCEPT !.holder = h], order.type, order.uid, order.amt).msg
    BY <1>1, <1>3
  <2> HIDE DEF h, sent
  <2> QED
    BY <2>1, <2>2 DEF Carries
<1> HIDE DEF sent
<1> QED
  BY <1>1, <1>2, <1>3, <1>4, <1>5 DEF PathInv, Connected

LEMMA TypesAreNamed ==
  /\ \A type \in DOMAIN Act : \E i \in 1 .. INVALID : type = MsgTypes[i]
  /\ \A type \in {"OK", "BAD_FORMAT", "TOO_MUCH_BANK", "NOT_ENOUGH_DOUGH"} :
       type \notin DOMAIN Act /\ type # "INVALID" /\ \E i \in 1 .. INVALID : type = MsgTypes[i]
<1>1. {MsgTypes[i] : i \in 1 .. INVALID} = {MsgTypes[1], MsgTypes[2], MsgTypes[3], MsgTypes[4],
         MsgTypes[5], MsgTypes[6], MsgTypes[7]}
  <2>1. \A i : i \in 1 .. INVALID <=> i \in {1, 2, 3, 4, 5, 6, 7}
    BY DEF INVALID
  <2> QED
    BY <2>1
<1>2. {MsgTypes[i] : i \in 1 .. INVALID} = {"DEPOSIT", "WITHDRAW", "BALANCE", "OK",
         "BAD_FORMAT", "TOO_MUCH_BANK", "NOT_ENOUGH_DOUGH"}
  BY <1>1 DEF MsgTypes
<1>3. DOMAIN Act = {"DEPOSIT", "WITHDRAW", "BALANCE"}
  BY DEF Act
<1>4. ASSUME NEW type \in {"DEPOSIT", "WITHDRAW", "BALANCE", "OK", "BAD_FORMAT",
                           "TOO_MUCH_BANK", "NOT_ENOUGH_DOUGH"}
      PROVE  \E i \in 1 .. INVALID : type = MsgTypes[i]
  <2>1. type \in {MsgTypes[i] : i \in 1 .. INVALID}
    BY <1>2
  <2> QED
    BY <2>1
<1> QED
  BY <1>3, <1>4

\* The packet on the way, at its reader.
LEMMA CarriedIsRead ==
  ASSUME NEW p, IsProgram(p), NEW q, IsProgram(q),
         NEW m, m.type \in {MsgTypes[i] : i \in 1 .. INVALID}, m.uid \in Byte, m.amt \in Word(64),
         Carries(p, m)
  PROVE  LET read == RecvMsg(q, wire).msg
         IN  /\ read \in Received
             /\ ~p.raw /\ ~q.raw /\ SameKeys(p.keys, q.keys)
                /\ KeyStringFits(p) /\ KeyStringFits(q) => read = Arrived(m)
<1>1. PICK h : wire = SendMsg([p EXCEPT !.holder = h], m.type, m.uid, m.amt).msg
  BY DEF Carries
<1> DEFINE r == [p EXCEPT !.holder = h]
<1>2. r.keys = p.keys /\ r.raw = p.raw /\ r.keys \in Keyring /\ r.raw \in BOOLEAN
  BY DEF IsProgram
<1>3. q.keys \in Keyring /\ q.raw \in BOOLEAN
  BY DEF IsProgram
<1>4. KeyStringFits(p) => KeyStringFits(r)
  <2> HIDE DEF r
  <2> QED
    BY <1>2 DEF KeyStringFits
<1>5. wire = SendMsg(r, m.type, m.uid, m.amt).msg
  BY <1>1
<1> HIDE DEF r
<1> DEFINE read == RecvMsg(q, wire).msg
<1>6. /\ read \in Received
      /\ ~r.raw /\ ~q.raw /\ SameKeys(r.keys, q.keys) /\ KeyStringFits(r) /\ KeyStringFits(q)
         => read = Arrived(m)
  BY <1>2, <1>3, <1>5, SentIsRead
<1> HIDE DEF read
<1>7. /\ read \in Received
      /\ ~p.raw /\ ~q.raw /\ SameKeys(p.keys, q.keys) /\ KeyStringFits(p) /\ KeyStringFits(q)
         => read = Arrived(m)
  BY <1>2, <1>4, <1>6
<1> QED
  BY <1>7 DEF read

LEMMA MatchedFits ==
  ASSUME Matched
  PROVE  /\ ~process.atm.raw /\ ~process.bank.raw
         /\ SameKeys(process.atm.keys, process.bank.keys)
         /\ SameKeys(process.bank.keys, process.atm.keys)
         /\ KeyStringFits(process.atm) /\ KeyStringFits(process.bank)
BY DEF Matched, SameKeys

LEMMA BankReceivesPath ==
  ASSUME PathInv, BankReceives
  PROVE  PathInv'
<1> DEFINE received == RecvMsg(process.bank, wire)
<1>1. pc = "request" /\ pc' = "decide" /\ process' = [process EXCEPT !.bank = received.process]
      /\ request' = received.msg /\ wire' = None /\ UNCHANGED <<id, line, order, answer, shown>>
  BY DEF BankReceives
<1>2. /\ process = [atm |-> process.atm, bank |-> process.bank]
      /\ IsProgram(process.atm) /\ IsProgram(process.bank)
      /\ order \in Orders /\ Carries(process.atm, order) /\ shown = None
  BY <1>1 DEF PathInv, Connected
<1>3. /\ order.type \in {MsgTypes[i] : i \in 1 .. INVALID}
      /\ order.uid \in Byte /\ order.amt \in Word(64)
  BY <1>2, TypesAreNamed DEF Orders
<1>4. /\ received.msg \in Received
      /\ Matched => received.msg = Arrived(order)
  BY <1>2, <1>3, CarriedIsRead, MatchedFits
<1>5. /\ IsProgram(received.process)
      /\ received.process.keys = process.bank.keys /\ received.process.raw = process.bank.raw
  BY <1>2, RecvMsgIs
<1> HIDE DEF received
<1>6. process' = [atm |-> process.atm, bank |-> received.process]
  BY <1>1, <1>2
<1>7. KeepsPrograms
  BY <1>2, <1>5, <1>6 DEF KeepsPrograms
<1>8. Matched' => Matched
  BY <1>2, <1>7, MatchedBefore
<1>9. Matched' => request' = Arrived(order')
  BY <1>1, <1>4, <1>8
<1> QED
  BY <1>1, <1>2, <1>4, <1>7, <1>9 DEF PathInv, Connected, KeepsPrograms

LEMMA AnswersTyped ==
  ASSUME request \in Received
  PROVE  \A a \in Answers : a \in Replies /\ (a.type # "OK" => a.amt = {})
<1>1. {} \in Word(64) /\ Balances \subseteq Word(64)
  BY OrderPathAssumption DEF Word
<1>2. request.uid \in Byte
  BY DEF Received
<1>3. Answers \subseteq [type : {"OK"}, uid : {request.uid}, amt : Balances]
                        \cup {Reply(type, {}) : type \in {"TOO_MUCH_BANK", "NOT_ENOUGH_DOUGH",
                                                          "BAD_FORMAT"}}
  BY DEF Answers
<1> QED
  BY <1>1, <1>2, <1>3 DEF Replies, Reply

LEMMA BankAnswersPath == ASSUME PathInv, BankAnswers PROVE PathInv'
<1> DEFINE sent == SendMsg(process.bank, answer'.type, answer'.uid, answer'.amt)
<1>1. pc = "decide" /\ pc' = "reply" /\ process' = [process EXCEPT !.bank = sent.process]
      /\ wire' = sent.msg /\ answer' \in Answers /\ UNCHANGED <<id, line, order, request, shown>>
  BY DEF BankAnswers
<1>2. /\ process = [atm |-> process.atm, bank |-> process.bank]
      /\ IsProgram(process.atm) /\ IsProgram(process.bank)
      /\ order \in Orders /\ request \in Received /\ (Matched => request = Arrived(order))
      /\ shown = None
  BY <1>1 DEF PathInv, Connected
<1>3. /\ IsProgram(sent.process)
      /\ sent.process.keys = process.bank.keys /\ sent.process.raw = process.bank.raw
      /\ process.bank = [sent.process EXCEPT !.holder = process.bank.holder]
  BY <1>2, SendMsgIs
<1>4. process' = [atm |-> process.atm, bank |-> sent.process]
  <2> HIDE DEF sent
  <2> QED
    BY <1>1, <1>2
<1>5. Carries(process.bank, answer)'
  <2> DEFINE h == process.bank.holder
  <2>1. process'.bank = sent.process
    BY <1>1, <1>4
  <2>2. wire' = SendMsg([sent.process EXCEPT !.holder = h],
                        answer'.type, answer'.uid, answer'.amt).msg
    BY <1>1, <1>3
  <2> HIDE DEF h, sent
  <2> QED
    BY <2>1, <2>2 DEF Carries
<1> HIDE DEF sent
<1>6. KeepsPrograms
  BY <1>2, <1>3, <1>4 DEF KeepsPrograms
<1>7. Matched' => Matched
  BY <1>2, <1>6, MatchedBefore
<1>8. Matched' => request' = Arrived(order')
  BY <1>1, <1>2, <1>7
<1>9. answer' \in Replies /\ (answer'.type # "OK" => answer'.amt = {})
  BY <1>1, <1>2, AnswersTyped
<1> QED
  BY <1>1, <1>2, <1>5, <1>6, <1>8, <1>9 DEF PathInv, Connected, KeepsPrograms

LEMMA DisplayIs ==
  ASSUME NEW msg \in Received
  PROVE  /\ Display(msg).balance \in Word(64)
         /\ \A a \in Replies : msg = Arrived(a) /\ (a.type # "OK" => a.amt = {}) =>
              Display(msg).type = a.type /\ Display(msg).balance = a.amt
<1>1. {} \in Word(64) /\ msg.amt \in Word(64)
  BY DEF Word, Received
<1>2. Display(msg).balance \in {{}, msg.amt}
  BY DEF Display
<1>3. ASSUME NEW a \in Replies, msg = Arrived(a), a.type # "OK" => a.amt = {}
      PROVE  Display(msg).type = a.type /\ Display(msg).balance = a.amt
  <2>1. msg.error = "none" /\ msg.type = a.type /\ msg.amt = a.amt
    BY <1>3 DEF Arrived
  <2>2. a.type \notin DOMAIN Act
    BY TypesAreNamed DEF Replies
  <2> QED
    BY <1>3, <2>1, <2>2 DEF Display
<1> QED
  BY <1>1, <1>2, <1>3

LEMMA AtmReceivesPath ==
  ASSUME PathInv, AtmReceives
  PROVE  PathInv'
<1> DEFINE received == RecvMsg(process.atm, wire)
<1>1. pc = "reply" /\ pc' = "shown" /\ process' = [process EXCEPT !.atm = received.process]
      /\ shown' = Display(received.msg) /\ wire' = None
      /\ UNCHANGED <<id, line, order, request, answer>>
  BY DEF AtmReceives
<1>2. /\ process = [atm |-> process.atm, bank |-> process.bank]
      /\ IsProgram(process.atm) /\ IsProgram(process.bank)
      /\ order \in Orders /\ request \in Received /\ (Matched => request = Arrived(order))
      /\ answer \in Replies /\ (answer.type # "OK" => answer.amt = {})
      /\ Carries(process.bank, answer)
  BY <1>1 DEF PathInv, Connected
<1>3. /\ answer.type \in {MsgTypes[i] : i \in 1 .. INVALID}
      /\ answer.uid \in Byte /\ answer.amt \in Word(64)
  BY <1>2, TypesAreNamed DEF Replies
<1>4. /\ received.msg \in Received
      /\ Matched => received.msg = Arrived(answer)
  BY <1>2, <1>3, CarriedIsRead, MatchedFits
<1>5. /\ IsProgram(received.process)
      /\ received.process.keys = process.atm.keys /\ received.process.raw = process.atm.raw
  BY <1>2, RecvMsgIs
<1> HIDE DEF received
<1>6. process' = [atm |-> received.process, bank |-> process.bank]
  BY <1>1, <1>2
<1>7. KeepsPrograms
  BY <1>2, <1>5, <1>6 DEF KeepsPrograms
<1>8. Matched' => Matched
  BY <1>2, <1>7, MatchedBefore
<1>9. Matched' => request' = Arrived(order')
  BY <1>1, <1>2, <1>8
<1>10. /\ shown'.balance \in Word(64)
       /\ Matched' => shown'.type = answer'.type /\ shown'.balance = answer'.amt
  BY <1>1, <1>2, <1>4, <1>8, DisplayIs
<1> QED
  BY <1>1, <1>2, <1>7, <1>9, <1>10 DEF PathInv, Connected, KeepsPrograms

LEMMA NextPath == ASSUME PathInv, [Next]_vars PROVE PathInv'
<1>1. CASE UNCHANGED vars
  <2>1. /\ pc' = pc /\ order' = order /\ process' = process /\ wire' = wire /\ request' = request
        /\ answer' = answer /\ shown' = shown
    BY <1>1 DEF vars
  <2>2. Matched' <=> Matched
    BY <2>1 DEF Matched
  <2>3. Carries(process.atm, order)' <=> Carries(process.atm, order)
    BY <2>1 DEF Carries
  <2>4. Carries(process.bank, answer)' <=> Carries(process.bank, answer)
    BY <2>1 DEF Carries
  <2> QED
    BY <2>1, <2>2, <2>3, <2>4 DEF PathInv, Connected
<1>2. CASE Terminating
  BY <1>2, <1>1 DEF Terminating
<1> QED
  BY <1>1, <1>2, ReadIdPath, ReadLinePath, EndOfInputPath, Estab_conPath, AtmSendsPath,
     BankReceivesPath, BankAnswersPath, AtmReceivesPath DEF Next

LEMMA PathKept == Spec => []PathInv
<1>1. PathInv /\ [Next]_vars => PathInv'
  BY NextPath
<1> QED
  BY InitPath, <1>1, PTL DEF Spec

\* A packet that a program sends has a full tag.
LEMMA CarriedIsFull ==
  ASSUME NEW p, p.keys \in Keyring, p = [keys |-> p.keys, raw |-> p.raw, holder |-> p.holder],
         NEW m, m.type \in {MsgTypes[i] : i \in 1 .. INVALID}, m.uid \in Byte, m.amt \in Word(64),
         Carries(p, m)
  PROVE  Len(wire.mac) = output_length
<1> DEFINE x == Ptxt(m.type, m.uid, m.amt)
<1>1. PICK h : wire = SendMsg([p EXCEPT !.holder = h], m.type, m.uid, m.amt).msg
  BY DEF Carries
<1>2. x \in Blocks
  <2>1. PICK t \in 1 .. INVALID : m.type = MsgTypes[t]
    OBVIOUS
  <2>2. m.amt \in SUBSET (0 .. 63)
    BY DEF Word
  <2> QED
    BY <2>1, <2>2, PtxtIsRead
<1> HIDE DEF x
<1> DEFINE q == [p EXCEPT !.holder = h]
<1>3. q.keys = p.keys
  OBVIOUS
<1> HIDE DEF q
<1>4. wire.mac = Hash_string(Create_HMAC(q.holder, x, KeyString(q.keys)))
  <2>1. wire = SendMsg(q, m.type, m.uid, m.amt).msg
    BY <1>1 DEF q
  <2> QED
    BY <2>1 DEF SendMsg, Sent, Packet, TagWords, x
<1> QED
  BY <1>2, <1>3, <1>4, TagsFull

(***************************************************************************)
(* Nothing that is sent has a tag of more or fewer characters than the     *)
(* receiver compares (ssh.cpp:115-116).                                    *)
(***************************************************************************)
THEOREM TagsAreFull == Spec => []TagIsFull
<1>1. ASSUME PathInv PROVE TagIsFull
  <2>1. CASE pc = "request"
    <3>1. Carries(process.atm, order) /\ IsProgram(process.atm) /\ order \in Orders
      BY <1>1, <2>1 DEF PathInv, Connected
    <3>2. order.type \in {MsgTypes[i] : i \in 1 .. INVALID} /\ order.uid \in Byte /\ order.amt \in Word(64)
      BY <3>1, TypesAreNamed DEF Orders
    <3> QED
      BY <1>1, <3>1, <3>2, CarriedIsFull DEF IsProgram, TagIsFull
  <2>2. CASE pc = "reply"
    <3>1. Carries(process.bank, answer) /\ IsProgram(process.bank) /\ answer \in Replies
      BY <1>1, <2>2 DEF PathInv, Connected
    <3>2. answer.type \in {MsgTypes[i] : i \in 1 .. INVALID} /\ answer.uid \in Byte /\ answer.amt \in Word(64)
      BY <3>1, TypesAreNamed DEF Replies
    <3> QED
      BY <1>1, <3>1, <3>2, CarriedIsFull DEF IsProgram, TagIsFull
  <2>3. CASE pc \notin {"request", "reply"}
    BY <1>1, <2>3 DEF PathInv, TagIsFull
  <2> QED
    BY <2>1, <2>2, <2>3
<1> QED
  BY <1>1, PathKept, PTL

(***************************************************************************)
(* For any keys, lines and balances, a message of either direction has a   *)
(* type of the enumeration and words of the right width (ssh.cpp:91-93).   *)
(***************************************************************************)
THEOREM OrdersAreTyped == Spec => []OrderTypeOK
<1>1. ASSUME PathInv PROVE OrderTypeOK
  <2>1. order # None => order \in Orders
    BY <1>1 DEF PathInv
  <2>2. request # None => request \in Received
    BY <1>1 DEF PathInv
  <2>3. shown # None => shown.balance \in Word(64)
    BY <1>1 DEF PathInv
  <2>4. DOMAIN MsgTypes = 1 .. INVALID
    BY DEF MsgTypes, INVALID
  <2>5. Byte = SUBSET (0 .. 7) /\ Word(64) = SUBSET (0 .. 63)
    BY DEF Byte, Word
  <2>6. order # None => order.type \in DOMAIN Act /\ order.uid \in Byte /\ order.amt \in Word(64)
    BY <2>1 DEF Orders
  <2>7. request # None => /\ \/ request.type = "INVALID"
                             \/ \E i \in DOMAIN MsgTypes : request.type = MsgTypes[i]
                          /\ request.uid \in Byte /\ request.amt \in Word(64)
    BY <2>2, <2>4 DEF Received
  <2> QED
    BY <2>3, <2>5, <2>6, <2>7 DEF OrderTypeOK
<1> QED
  BY <1>1, PathKept, PTL

(***************************************************************************)
(* Two programs with the same keys, behind which anything may lie: the     *)
(* bank reads the order that was sent, though each hash starts in words    *)
(* left by another (hmac.cpp:25, sha1.cpp:90-94).                          *)
(***************************************************************************)
THEOREM OrdersArrive == Spec => []OrderArrives
<1>1. ASSUME PathInv PROVE OrderArrives
  BY <1>1 DEF PathInv, OrderArrives, Alike, Matched, Arrived
<1> QED
  BY <1>1, PathKept, PTL

(***************************************************************************)
(* And the customer is shown the answer that the bank decided on, with the *)
(* balance that it sent (client.cpp:282-327).                              *)
(***************************************************************************)
THEOREM AnswersArrive == Spec => []AnswerArrives
<1>1. ASSUME PathInv PROVE AnswerArrives
  BY <1>1 DEF PathInv, AnswerArrives, Alike, Matched
<1> QED
  BY <1>1, PathKept, PTL
-----------------------------------------------------------------------------
(***************************************************************************)
(* The addition of words of any width.                                     *)
(***************************************************************************)
\* A carry is made, or passed on.
LEMMA CarryStep ==
  ASSUME NEW x, NEW y, NEW b \in Nat, x \subseteq Nat, y \subseteq Nat
  PROVE  /\ ~Carry(x, y, 0)
         /\ Carry(x, y, b + 1) <=> (b \in x /\ b \in y) \/ ((b \in x \/ b \in y) /\ Carry(x, y, b))
<1>1. ~Carry(x, y, 0)
  BY DEF Carry
<1>2. ASSUME Carry(x, y, b + 1)
      PROVE  (b \in x /\ b \in y) \/ ((b \in x \/ b \in y) /\ Carry(x, y, b))
  <2>1. PICK i \in x \cap y : i < b + 1 /\ \A j \in i + 1 .. (b + 1) - 1 : j \in x \cup y
    BY <1>2 DEF Carry
  <2>2. i \in Nat
    OBVIOUS
  <2>3. CASE i = b
    BY <2>3
  <2>4. CASE i < b
    <3>1. b \in i + 1 .. (b + 1) - 1 /\ \A j \in i + 1 .. b - 1 : j \in i + 1 .. (b + 1) - 1
      BY <2>2, <2>4
    <3> QED
      BY <2>1, <2>4, <3>1 DEF Carry
  <2> QED
    BY <2>1, <2>2, <2>3, <2>4
<1>3. ASSUME b \in x, b \in y PROVE Carry(x, y, b + 1)
  <2>1. b < b + 1 /\ \A j \in b + 1 .. (b + 1) - 1 : j \in x \cup y
    OBVIOUS
  <2> QED
    BY <1>3, <2>1 DEF Carry
<1>4. ASSUME b \in x \/ b \in y, Carry(x, y, b) PROVE Carry(x, y, b + 1)
  <2>1. PICK i \in x \cap y : i < b /\ \A j \in i + 1 .. b - 1 : j \in x \cup y
    BY <1>4 DEF Carry
  <2>2. i \in Nat
    OBVIOUS
  <2>3. i < b + 1 /\ \A j \in i + 1 .. (b + 1) - 1 : j \in i + 1 .. b - 1 \/ j = b
    BY <2>1, <2>2
  <2> QED
    BY <1>4, <2>1, <2>3 DEF Carry
<1> QED
  BY <1>1, <1>2, <1>3, <1>4

\* The bits of a sum.
LEMMA AddBits ==
  ASSUME NEW x, NEW y, x \subseteq Nat, y \subseteq Nat
  PROVE  /\ Add(x, y) \subseteq Nat
         /\ \A b \in Nat : b \in Add(x, y) <=> ((b \in x <=> b \in y) <=> Carry(x, y, b))
<1>1. Add(x, y) \subseteq Nat
  <2>1. \A c \in x \cup y : c \in Nat /\ c + 1 \in Nat
    OBVIOUS
  <2>2. x \cup y \cup {c + 1 : c \in x \cup y} \subseteq Nat
    BY <2>1
  <2>3. Add(x, y) \subseteq x \cup y \cup {c + 1 : c \in x \cup y}
    BY DEF Add
  <2> QED
    BY <2>2, <2>3
<1>2. ASSUME NEW b \in Nat, Carry(x, y, b)
      PROVE  b \in {c + 1 : c \in x \cup y}
  <2>1. b # 0
    BY <1>2, CarryStep
  <2>2. b - 1 \in Nat /\ (b - 1) + 1 = b
    BY <2>1
  <2>3. b - 1 \in x \/ b - 1 \in y
    <3>1. Carry(x, y, (b - 1) + 1)
      BY <1>2, <2>2
    <3> QED
      BY <2>2, <3>1, CarryStep
  <2> QED
    BY <2>2, <2>3
<1>3. ASSUME NEW b \in Nat
      PROVE  b \in Add(x, y) <=> ((b \in x <=> b \in y) <=> Carry(x, y, b))
  <2>1. b \in Xor(x, y) <=> ~(b \in x <=> b \in y)
    BY DEF Xor, SymDiff
  <2>2. b \in Add(x, y) <=> /\ b \in x \cup y \cup {c + 1 : c \in x \cup y}
                            /\ b \in Xor(x, y) <=> ~Carry(x, y, b)
    BY DEF Add
  <2>3. CASE Carry(x, y, b)
    BY <1>2, <2>1, <2>2, <2>3
  <2>4. CASE ~Carry(x, y, b)
    BY <2>1, <2>2, <2>4
  <2> QED
    BY <2>3, <2>4
<1> QED
  BY <1>1, <1>3

LEMMA AddCommutes == ASSUME NEW x, NEW y PROVE Add(x, y) = Add(y, x)
<1>1. Xor(x, y) = Xor(y, x) /\ x \cup y = y \cup x /\ x \cap y = y \cap x
  BY DEF Xor, SymDiff
<1>2. \A b : Carry(x, y, b) <=> Carry(y, x, b)
  BY <1>1 DEF Carry
<1> QED
  BY <1>1, <1>2 DEF Add

\* Words without a bit in common.
LEMMA AddDisjoint ==
  ASSUME NEW x, NEW y, x \subseteq Nat, y \subseteq Nat, x \cap y = {}
  PROVE  Add(x, y) = x \cup y
<1>1. \A b : ~Carry(x, y, b)
  BY DEF Carry
<1>2. \A b : b \in Xor(x, y) <=> b \in x \cup y
  BY DEF Xor, SymDiff
<1> QED
  BY <1>1, <1>2 DEF Add

\* The carries of two additions are the same in number, whichever comes first.
LEMMA CarriesMeet ==
  ASSUME NEW x, NEW y, NEW z, x \subseteq Nat, y \subseteq Nat, z \subseteq Nat, NEW b \in Nat
  PROVE  /\ Carry(x, y, b) /\ Carry(Add(x, y), z, b)
              <=> Carry(y, z, b) /\ Carry(x, Add(y, z), b)
         /\ Carry(x, y, b) \/ Carry(Add(x, y), z, b)
              <=> Carry(y, z, b) \/ Carry(x, Add(y, z), b)
<1> DEFINE u == Add(x, y)
           v == Add(y, z)
           Meet(n) ==
             /\ Carry(x, y, n) /\ Carry(u, z, n) <=> Carry(y, z, n) /\ Carry(x, v, n)
             /\ Carry(x, y, n) \/ Carry(u, z, n) <=> Carry(y, z, n) \/ Carry(x, v, n)
           S == {n \in Nat : Meet(n)}
<1>1. /\ u \subseteq Nat /\ \A n \in Nat : n \in u <=> ((n \in x <=> n \in y) <=> Carry(x, y, n))
      /\ v \subseteq Nat /\ \A n \in Nat : n \in v <=> ((n \in y <=> n \in z) <=> Carry(y, z, n))
  BY AddBits
<1> HIDE DEF u, v
<1>2. 0 \in S
  BY <1>1, CarryStep
<1>3. ASSUME NEW n \in Nat, n \in S PROVE n + 1 \in S
  <2>1. Carry(x, y, n + 1) <=> (n \in x /\ n \in y) \/ ((n \in x \/ n \in y) /\ Carry(x, y, n))
    BY CarryStep
  <2>2. Carry(u, z, n + 1) <=> (n \in u /\ n \in z) \/ ((n \in u \/ n \in z) /\ Carry(u, z, n))
    BY <1>1, CarryStep
  <2>3. Carry(y, z, n + 1) <=> (n \in y /\ n \in z) \/ ((n \in y \/ n \in z) /\ Carry(y, z, n))
    BY CarryStep
  <2>4. Carry(x, v, n + 1) <=> (n \in x /\ n \in v) \/ ((n \in x \/ n \in v) /\ Carry(x, v, n))
    BY <1>1, CarryStep
  <2>5. /\ n \in u <=> ((n \in x <=> n \in y) <=> Carry(x, y, n))
        /\ n \in v <=> ((n \in y <=> n \in z) <=> Carry(y, z, n))
    BY <1>1
  <2>6. Meet(n)
    BY <1>3
  <2>7. Meet(n + 1)
    BY <2>1, <2>2, <2>3, <2>4, <2>5, <2>6
  <2> QED
    BY <2>7
<1>4. Nat \subseteq S
  <2> HIDE DEF S
  <2> QED
    BY <1>2, <1>3, Induct
<1> QED
  BY <1>4 DEF u, v

\* The words of any width.
Wide == SUBSET Nat

LEMMA AddAssociates ==
  ASSUME NEW x \in Wide, NEW y \in Wide, NEW z \in Wide
  PROVE  Add(Add(x, y), z) = Add(x, Add(y, z))
<1>0. x \subseteq Nat /\ y \subseteq Nat /\ z \subseteq Nat
  BY DEF Wide
<1> DEFINE u == Add(x, y)
           v == Add(y, z)
<1>1. /\ u \subseteq Nat /\ \A n \in Nat : n \in u <=> ((n \in x <=> n \in y) <=> Carry(x, y, n))
      /\ v \subseteq Nat /\ \A n \in Nat : n \in v <=> ((n \in y <=> n \in z) <=> Carry(y, z, n))
  BY <1>0, AddBits
<1>2. \A n \in Nat : /\ Carry(x, y, n) /\ Carry(u, z, n) <=> Carry(y, z, n) /\ Carry(x, v, n)
                     /\ Carry(x, y, n) \/ Carry(u, z, n) <=> Carry(y, z, n) \/ Carry(x, v, n)
  BY <1>0, CarriesMeet
<1> HIDE DEF u, v
<1>3. /\ Add(u, z) \subseteq Nat
      /\ \A n \in Nat : n \in Add(u, z) <=> ((n \in u <=> n \in z) <=> Carry(u, z, n))
      /\ Add(x, v) \subseteq Nat
      /\ \A n \in Nat : n \in Add(x, v) <=> ((n \in x <=> n \in v) <=> Carry(x, v, n))
  BY <1>0, <1>1, AddBits
<1>4. ASSUME NEW n \in Nat PROVE n \in Add(u, z) <=> n \in Add(x, v)
  <2>1. /\ n \in u <=> ((n \in x <=> n \in y) <=> Carry(x, y, n))
        /\ n \in v <=> ((n \in y <=> n \in z) <=> Carry(y, z, n))
        /\ n \in Add(u, z) <=> ((n \in u <=> n \in z) <=> Carry(u, z, n))
        /\ n \in Add(x, v) <=> ((n \in x <=> n \in v) <=> Carry(x, v, n))
        /\ Carry(x, y, n) /\ Carry(u, z, n) <=> Carry(y, z, n) /\ Carry(x, v, n)
        /\ Carry(x, y, n) \/ Carry(u, z, n) <=> Carry(y, z, n) \/ Carry(x, v, n)
    BY <1>1, <1>2, <1>3
  <2> QED
    BY <2>1
<1>5. Add(u, z) = Add(x, v)
  BY <1>3, <1>4
<1> QED
  BY <1>5 DEF u, v

\* A shift, and that of a sum.
LEMMA ShiftedAre ==
  ASSUME NEW x, x \subseteq Nat, NEW n \in Nat
  PROVE  /\ Shifted(x, n) \subseteq Nat
         /\ \A b \in Nat : b \in Shifted(x, n) <=> b >= n /\ b - n \in x
<1>1. Shifted(x, n) \subseteq Nat
  BY DEF Shifted
<1>2. ASSUME NEW b \in Nat PROVE b \in Shifted(x, n) <=> b >= n /\ b - n \in x
  <2>1. ASSUME b \in Shifted(x, n) PROVE b >= n /\ b - n \in x
    <3>1. PICK c \in x : b = c + n
      BY <2>1 DEF Shifted
    <3>2. c \in Nat /\ b - n = c
      BY <3>1
    <3> QED
      BY <3>1, <3>2
  <2>2. ASSUME b >= n, b - n \in x PROVE b \in Shifted(x, n)
    <3>1. b = (b - n) + n
      OBVIOUS
    <3> QED
      BY <2>2, <3>1 DEF Shifted
  <2> QED
    BY <2>1, <2>2
<1> QED
  BY <1>1, <1>2

LEMMA ShiftedCarry ==
  ASSUME NEW x, NEW y, x \subseteq Nat, y \subseteq Nat, NEW n \in Nat, NEW b \in Nat
  PROVE  Carry(Shifted(x, n), Shifted(y, n), b) <=> b >= n /\ Carry(x, y, b - n)
<1> DEFINE u == Shifted(x, n)
           v == Shifted(y, n)
           S == {k \in Nat : Carry(u, v, k) <=> k >= n /\ Carry(x, y, k - n)}
<1>1. /\ u \subseteq Nat /\ \A k \in Nat : k \in u <=> k >= n /\ k - n \in x
      /\ v \subseteq Nat /\ \A k \in Nat : k \in v <=> k >= n /\ k - n \in y
  BY ShiftedAre
<1> HIDE DEF u, v
<1>2. 0 \in S
  <2>1. ~Carry(u, v, 0) /\ ~Carry(x, y, 0)
    BY <1>1, CarryStep
  <2>2. 0 >= n => 0 - n = 0
    OBVIOUS
  <2>3. ~(0 >= n /\ Carry(x, y, 0 - n))
    BY <2>1, <2>2
  <2> QED
    BY <2>1, <2>3
<1>3. ASSUME NEW k \in Nat, k \in S PROVE k + 1 \in S
  <2>1. Carry(u, v, k + 1) <=> (k \in u /\ k \in v) \/ ((k \in u \/ k \in v) /\ Carry(u, v, k))
    BY <1>1, CarryStep
  <2>2. CASE k >= n
    <3>1. k - n \in Nat /\ (k + 1) - n = (k - n) + 1 /\ k + 1 >= n
      BY <2>2
    <3>2. Carry(x, y, (k - n) + 1)
            <=> (k - n \in x /\ k - n \in y) \/ ((k - n \in x \/ k - n \in y) /\ Carry(x, y, k - n))
      BY <3>1, CarryStep
    <3>3. Carry(u, v, k + 1) <=> Carry(x, y, (k - n) + 1)
      BY <1>1, <1>3, <2>1, <2>2, <3>2
    <3>4. Carry(u, v, k + 1) <=> k + 1 >= n /\ Carry(x, y, (k + 1) - n)
      BY <3>1, <3>3
    <3> QED
      BY <3>4
  <2>3. CASE k < n
    <3>1. ~Carry(u, v, k + 1)
      BY <1>1, <2>1, <2>3
    <3>2. k + 1 >= n => (k + 1) - n = 0
      BY <2>3
    <3>3. ~Carry(x, y, 0)
      BY CarryStep
    <3>4. ~(k + 1 >= n /\ Carry(x, y, (k + 1) - n))
      BY <3>2, <3>3
    <3> QED
      BY <3>1, <3>4
  <2> QED
    BY <2>2, <2>3
<1>4. Nat \subseteq S
  <2> HIDE DEF S
  <2> QED
    BY <1>2, <1>3, Induct
<1> QED
  BY <1>4 DEF u, v

LEMMA ShiftedSum ==
  ASSUME NEW x, NEW y, x \subseteq Nat, y \subseteq Nat, NEW n \in Nat
  PROVE  Shifted(Add(x, y), n) = Add(Shifted(x, n), Shifted(y, n))
<1> DEFINE u == Shifted(x, n)
           v == Shifted(y, n)
           s == Add(x, y)
           t == Shifted(s, n)
<1>1. /\ u \subseteq Nat /\ \A k \in Nat : k \in u <=> k >= n /\ k - n \in x
      /\ v \subseteq Nat /\ \A k \in Nat : k \in v <=> k >= n /\ k - n \in y
  BY ShiftedAre
<1>2. \A b \in Nat : Carry(u, v, b) <=> b >= n /\ Carry(x, y, b - n)
  BY ShiftedCarry
<1>3. s \subseteq Nat /\ \A b \in Nat : b \in s <=> ((b \in x <=> b \in y) <=> Carry(x, y, b))
  BY AddBits
<1> HIDE DEF u, v, s
<1>4. t \subseteq Nat /\ \A k \in Nat : k \in t <=> k >= n /\ k - n \in s
  BY <1>3, ShiftedAre
<1>5. Add(u, v) \subseteq Nat /\ \A b \in Nat : b \in Add(u, v) <=> ((b \in u <=> b \in v) <=> Carry(u, v, b))
  BY <1>1, AddBits
<1> HIDE DEF t
<1>6. ASSUME NEW b \in Nat PROVE b \in t <=> b \in Add(u, v)
  <2>1. CASE b >= n
    <3>1. b - n \in Nat
      BY <2>1
    <3> QED
      BY <1>1, <1>2, <1>3, <1>4, <1>5, <2>1, <3>1
  <2>2. CASE ~(b >= n)
    BY <1>1, <1>2, <1>4, <1>5, <2>2
  <2> QED
    BY <2>1, <2>2
<1>7. t = Add(u, v)
  BY <1>4, <1>5, <1>6
<1> QED
  BY <1>7 DEF t, u, v, s

\* Two shifts, one after the other.
LEMMA ShiftedTwice ==
  ASSUME NEW x, x \subseteq Nat, NEW m \in Nat, NEW n \in Nat
  PROVE  Shifted(Shifted(x, m), n) = Shifted(Shifted(x, n), m)
<1> DEFINE u == Shifted(x, m)
           v == Shifted(x, n)
<1>1. /\ u \subseteq Nat /\ \A b \in Nat : b \in u <=> b >= m /\ b - m \in x
      /\ v \subseteq Nat /\ \A b \in Nat : b \in v <=> b >= n /\ b - n \in x
  BY ShiftedAre
<1> HIDE DEF u, v
<1>2. /\ Shifted(u, n) \subseteq Nat /\ \A b \in Nat : b \in Shifted(u, n) <=> b >= n /\ b - n \in u
      /\ Shifted(v, m) \subseteq Nat /\ \A b \in Nat : b \in Shifted(v, m) <=> b >= m /\ b - m \in v
  BY <1>1, ShiftedAre
<1>3. ASSUME NEW b \in Nat PROVE b \in Shifted(u, n) <=> b \in Shifted(v, m)
  <2>1. (b - n) - m = (b - m) - n
    OBVIOUS
  <2>2. CASE b >= n + m
    <3>1. b - n \in Nat /\ b - m \in Nat /\ b >= n /\ b >= m /\ b - n >= m /\ b - m >= n
      BY <2>2
    <3> QED
      BY <1>1, <1>2, <2>1, <3>1
  <2>3. CASE b < n + m
    <3>1. ~(b >= n /\ b - n >= m) /\ ~(b >= m /\ b - m >= n)
      BY <2>3
    <3>2. b >= n => b - n \in Nat
      OBVIOUS
    <3>3. b >= m => b - m \in Nat
      OBVIOUS
    <3> QED
      BY <1>1, <1>2, <3>1, <3>2, <3>3
  <2> QED
    BY <2>2, <2>3
<1>4. Shifted(u, n) = Shifted(v, m)
  BY <1>2, <1>3
<1> QED
  BY <1>4 DEF u, v
-----------------------------------------------------------------------------
\* How the words of any width add.
LEMMA WideSums ==
  /\ {} \in Wide
  /\ \A x, y \in Wide : Add(x, y) \in Wide /\ Add(x, y) = Add(y, x)
  /\ \A x \in Wide : Add(x, {}) = x /\ Add({}, x) = x
  /\ \A x, y, z \in Wide : Add(Add(x, y), z) = Add(x, Add(y, z))
  /\ \A x \in Wide : \A n \in Nat : Shifted(x, n) \in Wide
  /\ \A x, y \in Wide : \A n \in Nat : Shifted(Add(x, y), n) = Add(Shifted(x, n), Shifted(y, n))
  /\ \A x \in Wide : \A m, n \in Nat : Shifted(Shifted(x, m), n) = Shifted(Shifted(x, n), m)
<1>1. {} \in Wide
  BY DEF Wide
<1>2. ASSUME NEW x \in Wide, NEW y \in Wide
      PROVE  /\ Add(x, y) \in Wide /\ Add(x, y) = Add(y, x)
             /\ \A n \in Nat : Shifted(Add(x, y), n) = Add(Shifted(x, n), Shifted(y, n))
  <2>1. x \subseteq Nat /\ y \subseteq Nat
    BY DEF Wide
  <2>2. Add(x, y) \subseteq Nat
    BY <2>1, AddBits
  <2>3. Add(x, y) = Add(y, x)
    BY AddCommutes
  <2>4. \A n \in Nat : Shifted(Add(x, y), n) = Add(Shifted(x, n), Shifted(y, n))
    BY <2>1, ShiftedSum
  <2> QED
    BY <2>2, <2>3, <2>4 DEF Wide
<1>3. ASSUME NEW x \in Wide PROVE Add(x, {}) = x /\ Add({}, x) = x
  <2>1. x \subseteq Nat /\ {} \subseteq Nat /\ x \cap {} = {} /\ x \cup {} = x
    BY DEF Wide
  <2>2. Add(x, {}) = x \cup {}
    BY <2>1, AddDisjoint
  <2> QED
    BY <2>1, <2>2, AddCommutes
<1>4. \A x, y, z \in Wide : Add(Add(x, y), z) = Add(x, Add(y, z))
  BY AddAssociates
<1>5. ASSUME NEW x \in Wide, NEW n \in Nat PROVE Shifted(x, n) \in Wide
  <2>1. x \subseteq Nat
    BY DEF Wide
  <2>2. Shifted(x, n) \subseteq Nat
    BY <2>1, ShiftedAre
  <2> QED
    BY <2>2 DEF Wide
<1>6. ASSUME NEW x \in Wide, NEW m \in Nat, NEW n \in Nat
      PROVE  Shifted(Shifted(x, m), n) = Shifted(Shifted(x, n), m)
  <2>1. x \subseteq Nat
    BY DEF Wide
  <2> QED
    BY <2>1, ShiftedTwice
<1> QED
  BY <1>1, <1>2, <1>3, <1>4, <1>5, <1>6

\* Sums of sums, in another order.
LEMMA AddFour ==
  ASSUME NEW w \in Wide, NEW x \in Wide, NEW y \in Wide, NEW z \in Wide
  PROVE  Add(Add(w, x), Add(y, z)) = Add(Add(w, y), Add(x, z))
<1>1. /\ Add(y, z) \in Wide /\ Add(x, z) \in Wide
      /\ Add(x, y) = Add(y, x)
  BY WideSums
<1>2. Add(x, Add(y, z)) = Add(Add(x, y), z) /\ Add(y, Add(x, z)) = Add(Add(y, x), z)
  BY WideSums
<1>3. Add(Add(w, x), Add(y, z)) = Add(w, Add(x, Add(y, z)))
  BY <1>1, WideSums
<1>4. Add(Add(w, y), Add(x, z)) = Add(w, Add(y, Add(x, z)))
  BY <1>1, WideSums
<1> QED
  BY <1>1, <1>2, <1>3, <1>4

\* The multiplication by ten, of a sum and of a shift.
LEMMA Ten ==
  ASSUME NEW x \in Wide
  PROVE  /\ TenTimes(x) \in Wide
         /\ \A y \in Wide : TenTimes(Add(x, y)) = Add(TenTimes(x), TenTimes(y))
         /\ \A n \in Nat : TenTimes(Shifted(x, n)) = Shifted(TenTimes(x), n)
         /\ TenTimes({}) = {}
<1> DEFINE a(y) == Shifted(y, 3)
           b(y) == Shifted(y, 1)
<1>0. \A y : TenTimes(y) = Add(a(y), b(y))
  BY DEF TenTimes
<1>1. \A y \in Wide : a(y) \in Wide /\ b(y) \in Wide
  BY WideSums
<1>2. ASSUME NEW y \in Wide PROVE TenTimes(Add(x, y)) = Add(TenTimes(x), TenTimes(y))
  <2>0. \A n \in Nat : Shifted(Add(x, y), n) = Add(Shifted(x, n), Shifted(y, n))
    BY WideSums
  <2>1. a(Add(x, y)) = Add(a(x), a(y)) /\ b(Add(x, y)) = Add(b(x), b(y))
    BY <2>0
  <2> HIDE DEF a, b
  <2>2. Add(Add(a(x), a(y)), Add(b(x), b(y))) = Add(Add(a(x), b(x)), Add(a(y), b(y)))
    BY <1>1, AddFour
  <2> QED
    BY <1>0, <2>1, <2>2
<1>3. ASSUME NEW n \in Nat PROVE TenTimes(Shifted(x, n)) = Shifted(TenTimes(x), n)
  <2>1. a(Shifted(x, n)) = Shifted(a(x), n) /\ b(Shifted(x, n)) = Shifted(b(x), n)
    BY WideSums
  <2> HIDE DEF a, b
  <2>2. Shifted(Add(a(x), b(x)), n) = Add(Shifted(a(x), n), Shifted(b(x), n))
    BY <1>1, WideSums
  <2> QED
    BY <1>0, <2>1, <2>2
<1>4. TenTimes({}) = {}
  <2>1. a({}) = {} /\ b({}) = {}
    BY DEF Shifted
  <2> HIDE DEF a, b
  <2> QED
    BY <1>0, <2>1, WideSums
<1>5. TenTimes(x) \in Wide
  <2> HIDE DEF a, b
  <2> QED
    BY <1>0, <1>1, WideSums
<1> QED
  BY <1>2, <1>3, <1>4, <1>5

LEMMA DigitBits ==
  ASSUME NEW d \in 0 .. 9
  PROVE  Bits(d) \in Wide /\ Bits(d) \subseteq {0, 1, 2, 3}
<1>1. d \in 0 .. 255 /\ (d \div 16) % 2 = 0 /\ (d \div 32) % 2 = 0
      /\ (d \div 64) % 2 = 0 /\ (d \div 128) % 2 = 0
  OBVIOUS
<1>2. Bits(d) \subseteq 0 .. 7 /\ {4, 5, 6, 7} \cap Bits(d) = {}
  BY <1>1, BitsOf DEF Byte, Word
<1>3. \A b \in 0 .. 7 : b \in {4, 5, 6, 7} \/ b \in {0, 1, 2, 3}
  OBVIOUS
<1>4. Bits(d) \subseteq {0, 1, 2, 3}
  BY <1>2, <1>3
<1>5. {0, 1, 2, 3} \subseteq Nat
  OBVIOUS
<1> QED
  BY <1>4, <1>5 DEF Wide

\* A digit times a word: ten times as much of ten times the word, and itself of one.
LEMMA DigitTimesAre ==
  ASSUME NEW d \in 0 .. 9
  PROVE  /\ \A x \in Wide : DigitTimes(d, x) \in Wide
         /\ \A x \in Wide : TenTimes(DigitTimes(d, x)) = DigitTimes(d, TenTimes(x))
         /\ DigitTimes(d, {0}) = Bits(d)
<1> DEFINE part(x, b) == IF b \in Bits(d) THEN Shifted(x, b) ELSE {}
           S == {0, 1, 2, 3}
<1>0. \A x : DigitTimes(d, x) = Add(Add(part(x, 3), part(x, 2)), Add(part(x, 1), part(x, 0)))
  BY DEF DigitTimes
<1>1. \A b \in S : b \in Nat
  OBVIOUS
<1>2. \A x \in Wide : \A b \in S : part(x, b) \in Wide
  BY <1>1, WideSums
<1>3. \A x \in Wide : \A b \in S : TenTimes(part(x, b)) = part(TenTimes(x), b)
  <2> SUFFICES ASSUME NEW x \in Wide, NEW b \in S
               PROVE  TenTimes(part(x, b)) = part(TenTimes(x), b)
    OBVIOUS
  <2>1. TenTimes(Shifted(x, b)) = Shifted(TenTimes(x), b) /\ TenTimes({}) = {}
    BY <1>1, Ten
  <2> QED
    BY <2>1
<1>4. ASSUME NEW x \in Wide PROVE DigitTimes(d, x) \in Wide
  <2>1. part(x, 3) \in Wide /\ part(x, 2) \in Wide /\ part(x, 1) \in Wide /\ part(x, 0) \in Wide
    BY <1>2
  <2> HIDE DEF part
  <2> QED
    BY <1>0, <2>1, WideSums
<1>5. ASSUME NEW x \in Wide PROVE TenTimes(DigitTimes(d, x)) = DigitTimes(d, TenTimes(x))
  <2>1. part(x, 3) \in Wide /\ part(x, 2) \in Wide /\ part(x, 1) \in Wide /\ part(x, 0) \in Wide
    BY <1>2
  <2>2. /\ TenTimes(part(x, 3)) = part(TenTimes(x), 3) /\ TenTimes(part(x, 2)) = part(TenTimes(x), 2)
        /\ TenTimes(part(x, 1)) = part(TenTimes(x), 1) /\ TenTimes(part(x, 0)) = part(TenTimes(x), 0)
    BY <1>3
  <2> HIDE DEF part
  <2>3. Add(part(x, 3), part(x, 2)) \in Wide /\ Add(part(x, 1), part(x, 0)) \in Wide
    BY <2>1, WideSums
  <2>4. TenTimes(Add(Add(part(x, 3), part(x, 2)), Add(part(x, 1), part(x, 0))))
          = Add(TenTimes(Add(part(x, 3), part(x, 2))), TenTimes(Add(part(x, 1), part(x, 0))))
    BY <2>3, Ten
  <2>5. /\ TenTimes(Add(part(x, 3), part(x, 2))) = Add(TenTimes(part(x, 3)), TenTimes(part(x, 2)))
        /\ TenTimes(Add(part(x, 1), part(x, 0))) = Add(TenTimes(part(x, 1)), TenTimes(part(x, 0)))
    BY <2>1, Ten
  <2> QED
    BY <1>0, <2>2, <2>4, <2>5
<1>6. DigitTimes(d, {0}) = Bits(d)
  <2> DEFINE p3 == part({0}, 3)
             p2 == part({0}, 2)
             p1 == part({0}, 1)
             p0 == part({0}, 0)
  <2>1. \A b \in S : part({0}, b) = Bits(d) \cap {b}
    <3>1. \A b \in S : Shifted({0}, b) = {b}
      BY DEF Shifted
    <3> QED
      BY <3>1
  <2>2. p3 = Bits(d) \cap {3} /\ p2 = Bits(d) \cap {2} /\ p1 = Bits(d) \cap {1} /\ p0 = Bits(d) \cap {0}
    BY <2>1
  <2>0. DigitTimes(d, {0}) = Add(Add(p3, p2), Add(p1, p0))
    BY <1>0
  <2> HIDE DEF p3, p2, p1, p0
  <2>3. /\ p3 \subseteq Nat /\ p2 \subseteq Nat /\ p1 \subseteq Nat /\ p0 \subseteq Nat
        /\ p3 \cap p2 = {} /\ p1 \cap p0 = {} /\ (p3 \cup p2) \cap (p1 \cup p0) = {}
        /\ p3 \cup p2 \subseteq Nat /\ p1 \cup p0 \subseteq Nat
    BY <2>2
  <2>4. Add(p3, p2) = p3 \cup p2
    BY <2>3, AddDisjoint
  <2>5. Add(p1, p0) = p1 \cup p0
    BY <2>3, AddDisjoint
  <2>6. Add(p3 \cup p2, p1 \cup p0) = (p3 \cup p2) \cup (p1 \cup p0)
    BY <2>3, AddDisjoint
  <2>7. (p3 \cup p2) \cup (p1 \cup p0) = Bits(d)
    BY <2>2, DigitBits
  <2> QED
    BY <2>0, <2>4, <2>5, <2>6, <2>7
<1> QED
  BY <1>4, <1>5, <1>6
-----------------------------------------------------------------------------
(***************************************************************************)
(* The functions that the two readings of a numeral are computed by.       *)
(***************************************************************************)
Steps(f, n, V, b, F) ==
  /\ f = [x \in 0 .. n |-> f[x]]
  /\ f[0] = b
  /\ \A x \in 1 .. n : f[x] = F[x][f[x - 1]]
  /\ \A x \in 0 .. n : f[x] \in V

LEMMA StepsAre ==
  ASSUME NEW n \in Nat, NEW V, NEW b \in V, NEW F,
         \A x \in 1 .. n : \A u \in V : F[x][u] \in V
  PROVE  \E f : Steps(f, n, V, b, F)
<1> DEFINE l == Loop(n, b, F)
           g == [x \in 0 .. n |-> l[x]]
<1>1. /\ l[0] = b
      /\ \A x \in 1 .. n : l[x] = F[x][l[x - 1]]
      /\ \A x \in 0 .. n : l[x] \in V
  BY LoopIs
<1> HIDE DEF l
<1>2. \A x \in 1 .. n : x \in 0 .. n /\ x - 1 \in 0 .. n
  OBVIOUS
<1>3. 0 \in 0 .. n
  OBVIOUS
<1>4. \A x \in 0 .. n : g[x] = l[x]
  OBVIOUS
<1>5. g = [x \in 0 .. n |-> g[x]]
  OBVIOUS
<1> HIDE DEF g
<1>6. Steps(g, n, V, b, F)
  BY <1>1, <1>2, <1>3, <1>4, <1>5 DEF Steps
<1> QED
  BY <1>6

LEMMA PowerIs ==
  ASSUME NEW k \in Nat, NEW power,
         power = CHOOSE v : v = [i \in 0 .. k |-> IF i = 0 THEN {0} ELSE TenTimes(v[i - 1])]
  PROVE  /\ power[0] = {0}
         /\ \A i \in 1 .. k : power[i] = TenTimes(power[i - 1])
<1> DEFINE D(v) == [i \in 0 .. k |-> IF i = 0 THEN {0} ELSE TenTimes(v[i - 1])]
           F == [x \in 1 .. k |-> [u \in Wide |-> TenTimes(u)]]
<1>1. {0} \in Wide
  BY DEF Wide
<1>2. \A x \in 1 .. k : \A u \in Wide : F[x][u] = TenTimes(u)
  OBVIOUS
<1> HIDE DEF F
<1>w. \A x \in 1 .. k : \A u \in Wide : F[x][u] \in Wide
  BY <1>2, Ten
<1>p. PICK f : Steps(f, k, Wide, {0}, F)
  BY <1>1, <1>w, StepsAre
<1>3. /\ f = [x \in 0 .. k |-> f[x]]
      /\ f[0] = {0}
      /\ \A x \in 1 .. k : f[x] = F[x][f[x - 1]]
      /\ \A x \in 0 .. k : f[x] \in Wide
  BY <1>p DEF Steps
<1>4. \A i \in 0 .. k : i # 0 => i \in 1 .. k /\ i - 1 \in 0 .. k
  OBVIOUS
<1>5. \A i \in 0 .. k : f[i] = IF i = 0 THEN {0} ELSE TenTimes(f[i - 1])
  BY <1>2, <1>3, <1>4
<1>6. f = D(f)
  BY <1>3, <1>5
<1>7. power = D(power)
  <2>1. power = CHOOSE v : v = D(v)
    OBVIOUS
  <2> HIDE DEF D
  <2> QED
    BY <1>6, <2>1
<1>8. D(power)[0] = {0} /\ \A i \in 1 .. k : D(power)[i] = TenTimes(power[i - 1])
  OBVIOUS
<1> HIDE DEF D
<1> QED
  BY <1>7, <1>8

\* The powers of ten.
LEMMA Powers ==
  /\ Power10(0) = {0}
  /\ \A k \in Nat : Power10(k) \in Wide /\ Power10(k + 1) = TenTimes(Power10(k))
<1> DEFINE P(k) == CHOOSE v : v = [i \in 0 .. k |-> IF i = 0 THEN {0} ELSE TenTimes(v[i - 1])]
<1>1. \A k : Power10(k) = P(k)[k]
  BY DEF Power10
<1>2. \A k \in Nat : P(k)[0] = {0} /\ \A i \in 1 .. k : P(k)[i] = TenTimes(P(k)[i - 1])
  BY PowerIs
<1> HIDE DEF P
<1>3. ASSUME NEW k \in Nat, NEW n \in Nat
      PROVE  k <= n => P(n)[k] = P(k)[k] /\ P(k)[k] \in Wide
  <2> DEFINE S == {j \in Nat : j <= k /\ k <= n => P(n)[j] = P(k)[j] /\ P(k)[j] \in Wide}
  <2>1. 0 \in S
    <3>1. {0} \in Wide
      BY DEF Wide
    <3> QED
      BY <1>2, <3>1
  <2>2. ASSUME NEW j \in Nat, j \in S PROVE j + 1 \in S
    <3>1. SUFFICES ASSUME j + 1 <= k, k <= n
                   PROVE  P(n)[j + 1] = P(k)[j + 1] /\ P(k)[j + 1] \in Wide
      OBVIOUS
    <3>2. j + 1 \in 1 .. k /\ j + 1 \in 1 .. n /\ (j + 1) - 1 = j /\ j <= k
      BY <3>1
    <3>3. P(n)[j + 1] = TenTimes(P(n)[j]) /\ P(k)[j + 1] = TenTimes(P(k)[j])
      BY <1>2, <3>2
    <3>4. P(n)[j] = P(k)[j] /\ P(k)[j] \in Wide
      BY <2>2, <3>1, <3>2
    <3> QED
      BY <3>3, <3>4, Ten
  <2>3. Nat \subseteq S
    <3> HIDE DEF S
    <3> QED
      BY <2>1, <2>2, Induct
  <2> QED
    BY <2>3
<1>4. ASSUME NEW k \in Nat PROVE Power10(k) \in Wide /\ Power10(k + 1) = TenTimes(Power10(k))
  <2>1. k + 1 \in Nat /\ k <= k /\ k <= k + 1 /\ k + 1 \in 1 .. k + 1 /\ (k + 1) - 1 = k
    OBVIOUS
  <2>2. P(k + 1)[k] = P(k)[k] /\ P(k)[k] \in Wide
    BY <1>3, <2>1
  <2>3. P(k + 1)[k + 1] = TenTimes(P(k + 1)[k])
    BY <1>2, <2>1
  <2> QED
    BY <1>1, <2>2, <2>3
<1> QED
  BY <1>1, <1>2, <1>4

\* What strtol adds up, digit by digit.
Horner(numeral, n) ==
  CHOOSE v : v = [i \in 0 .. n |->
    IF i = 0 THEN {} ELSE Add(TenTimes(v[i - 1]), Bits(DigitOf(numeral[i])))]

LEMMA HornerIs ==
  ASSUME NEW n \in Nat, NEW numeral, \A i \in 1 .. n : DigitOf(numeral[i]) \in 0 .. 9
  PROVE  /\ Horner(numeral, n)[0] = {}
         /\ \A i \in 1 .. n :
              Horner(numeral, n)[i] = Add(TenTimes(Horner(numeral, n)[i - 1]), Bits(DigitOf(numeral[i])))
<1> DEFINE B(i) == Bits(DigitOf(numeral[i]))
           D(v) == [i \in 0 .. n |-> IF i = 0 THEN {} ELSE Add(TenTimes(v[i - 1]), B(i))]
           F == [x \in 1 .. n |-> [u \in Wide |-> Add(TenTimes(u), B(x))]]
           word == Horner(numeral, n)
<1>0. word = CHOOSE v : v = D(v)
  BY DEF Horner
<1>1. {} \in Wide
  BY WideSums
<1>b. \A i \in 1 .. n : B(i) \in Wide
  BY DigitBits
<1> HIDE DEF B, word
<1>2. \A x \in 1 .. n : \A u \in Wide : F[x][u] = Add(TenTimes(u), B(x))
  OBVIOUS
<1> HIDE DEF F
<1>w. ASSUME NEW x \in 1 .. n, NEW u \in Wide PROVE F[x][u] \in Wide
  <2>1. TenTimes(u) \in Wide
    BY Ten
  <2>2. Add(TenTimes(u), B(x)) \in Wide
    BY <1>b, <2>1, WideSums
  <2> QED
    BY <1>2, <2>2
<1>p. PICK f : Steps(f, n, Wide, {}, F)
  BY <1>1, <1>w, StepsAre
<1>3. /\ f = [x \in 0 .. n |-> f[x]]
      /\ f[0] = {}
      /\ \A x \in 1 .. n : f[x] = F[x][f[x - 1]]
      /\ \A x \in 0 .. n : f[x] \in Wide
  BY <1>p DEF Steps
<1>4. \A i \in 0 .. n : i # 0 => i \in 1 .. n /\ i - 1 \in 0 .. n
  OBVIOUS
<1>5. \A i \in 0 .. n : f[i] = IF i = 0 THEN {} ELSE Add(TenTimes(f[i - 1]), B(i))
  BY <1>2, <1>3, <1>4
<1>6. f = D(f)
  BY <1>3, <1>5
<1>7. word = D(word)
  <2> HIDE DEF D
  <2> QED
    BY <1>0, <1>6
<1>8. /\ D(word)[0] = {}
      /\ \A i \in 1 .. n : D(word)[i] = Add(TenTimes(word[i - 1]), B(i))
  OBVIOUS
<1> HIDE DEF D
<1>9. word[0] = {} /\ \A i \in 1 .. n : word[i] = Add(TenTimes(word[i - 1]), B(i))
  BY <1>7, <1>8
<1> QED
  BY <1>9 DEF word, B

\* The values of the first i digits among the first m, and their sum.
Sums(numeral, m) ==
  CHOOSE v : v = [i \in 0 .. m |->
    IF i = 0 THEN {} ELSE Add(v[i - 1], DigitTimes(DigitOf(numeral[i]), Power10(m - i)))]

LEMMA DigitSums ==
  ASSUME NEW n \in Nat, NEW numeral, \A i \in 1 .. n : DigitOf(numeral[i]) \in 0 .. 9
  PROVE  /\ Sums(numeral, n)[0] = {}
         /\ \A i \in 1 .. n : DigitTimes(DigitOf(numeral[i]), Power10(n - i)) \in Wide
         /\ \A i \in 1 .. n : Sums(numeral, n)[i]
              = Add(Sums(numeral, n)[i - 1], DigitTimes(DigitOf(numeral[i]), Power10(n - i)))
<1> DEFINE T(i) == DigitTimes(DigitOf(numeral[i]), Power10(n - i))
           D(v) == [i \in 0 .. n |-> IF i = 0 THEN {} ELSE Add(v[i - 1], T(i))]
           F == [x \in 1 .. n |-> [u \in Wide |-> Add(u, T(x))]]
           sum == Sums(numeral, n)
<1>0. sum = CHOOSE v : v = D(v)
  BY DEF Sums
<1>1. {} \in Wide
  BY WideSums
<1>t. ASSUME NEW i \in 1 .. n PROVE T(i) \in Wide
  <2>1. n - i \in Nat
    OBVIOUS
  <2>2. Power10(n - i) \in Wide
    BY <2>1, Powers
  <2> QED
    BY <2>2, DigitTimesAre
<1> HIDE DEF T, sum
<1>2. \A x \in 1 .. n : \A u \in Wide : F[x][u] = Add(u, T(x))
  OBVIOUS
<1> HIDE DEF F
<1>w. ASSUME NEW x \in 1 .. n, NEW u \in Wide PROVE F[x][u] \in Wide
  <2>1. Add(u, T(x)) \in Wide
    BY <1>t, WideSums
  <2> QED
    BY <1>2, <2>1
<1>p. PICK f : Steps(f, n, Wide, {}, F)
  BY <1>1, <1>w, StepsAre
<1>3. /\ f = [x \in 0 .. n |-> f[x]]
      /\ f[0] = {}
      /\ \A x \in 1 .. n : f[x] = F[x][f[x - 1]]
      /\ \A x \in 0 .. n : f[x] \in Wide
  BY <1>p DEF Steps
<1>4. \A i \in 0 .. n : i # 0 => i \in 1 .. n /\ i - 1 \in 0 .. n
  OBVIOUS
<1>5. \A i \in 0 .. n : f[i] = IF i = 0 THEN {} ELSE Add(f[i - 1], T(i))
  BY <1>2, <1>3, <1>4
<1>6. f = D(f)
  BY <1>3, <1>5
<1>7. sum = D(sum)
  <2> HIDE DEF D
  <2> QED
    BY <1>0, <1>6
<1>8. D(sum)[0] = {} /\ \A i \in 1 .. n : D(sum)[i] = Add(sum[i - 1], T(i))
  OBVIOUS
<1> HIDE DEF D
<1>9. sum[0] = {} /\ \A i \in 1 .. n : sum[i] = Add(sum[i - 1], T(i))
  BY <1>7, <1>8
<1>10. \A i \in 1 .. n : DigitTimes(DigitOf(numeral[i]), Power10(n - i)) \in Wide
  BY <1>t DEF T
<1>11. sum[0] = {} /\ \A i \in 1 .. n : sum[i] = Add(sum[i - 1], DigitTimes(DigitOf(numeral[i]), Power10(n - i)))
  BY <1>9 DEF T
<1> QED
  BY <1>10, <1>11 DEF sum

\* Ten times the sum among m digits is the sum among m + 1.
LEMMA SumsTen ==
  ASSUME NEW m \in Nat, NEW numeral, \A i \in 1 .. m + 1 : DigitOf(numeral[i]) \in 0 .. 9,
         NEW i \in 0 .. m
  PROVE  /\ Sums(numeral, m)[i] \in Wide
         /\ TenTimes(Sums(numeral, m)[i]) = Sums(numeral, m + 1)[i]
<1> DEFINE a == Sums(numeral, m)
           b == Sums(numeral, m + 1)
           S == {k \in Nat : k <= m => a[k] \in Wide /\ TenTimes(a[k]) = b[k]}
           A(k) == DigitTimes(DigitOf(numeral[k]), Power10(m - k))
           B(k) == DigitTimes(DigitOf(numeral[k]), Power10((m + 1) - k))
<1>1. /\ a[0] = {} /\ (\A k \in 1 .. m : A(k) \in Wide) /\ \A k \in 1 .. m : a[k] = Add(a[k - 1], A(k))
      /\ b[0] = {} /\ \A k \in 1 .. m + 1 : b[k] = Add(b[k - 1], B(k))
  <2>1. m + 1 \in Nat /\ \A k \in 1 .. m : k \in 1 .. m + 1
    OBVIOUS
  <2>2. \A k \in 1 .. m : DigitOf(numeral[k]) \in 0 .. 9
    BY <2>1
  <2>3. /\ Sums(numeral, m)[0] = {}
        /\ \A k \in 1 .. m : DigitTimes(DigitOf(numeral[k]), Power10(m - k)) \in Wide
        /\ \A k \in 1 .. m : Sums(numeral, m)[k]
             = Add(Sums(numeral, m)[k - 1], DigitTimes(DigitOf(numeral[k]), Power10(m - k)))
    BY <2>2, DigitSums
  <2>4. /\ Sums(numeral, m + 1)[0] = {}
        /\ \A k \in 1 .. m + 1 : Sums(numeral, m + 1)[k]
             = Add(Sums(numeral, m + 1)[k - 1], DigitTimes(DigitOf(numeral[k]), Power10((m + 1) - k)))
    BY <2>1, DigitSums
  <2> QED
    BY <2>3, <2>4
<1>2. ASSUME NEW k \in 1 .. m PROVE TenTimes(A(k)) = B(k)
  <2>1. m - k \in Nat /\ (m + 1) - k = (m - k) + 1 /\ k \in 1 .. m + 1
    OBVIOUS
  <2>2. Power10(m - k) \in Wide /\ Power10((m - k) + 1) = TenTimes(Power10(m - k))
    BY <2>1, Powers
  <2>3. TenTimes(DigitTimes(DigitOf(numeral[k]), Power10(m - k)))
          = DigitTimes(DigitOf(numeral[k]), TenTimes(Power10(m - k)))
    BY <2>1, <2>2, DigitTimesAre
  <2> QED
    BY <2>1, <2>2, <2>3
<1> HIDE DEF a, b, A, B
<1>3. 0 \in S
  BY <1>1, WideSums, Ten
<1>4. ASSUME NEW k \in Nat, k \in S PROVE k + 1 \in S
  <2>1. SUFFICES ASSUME k + 1 <= m PROVE a[k + 1] \in Wide /\ TenTimes(a[k + 1]) = b[k + 1]
    OBVIOUS
  <2>2. k + 1 \in 1 .. m /\ k + 1 \in 1 .. m + 1 /\ (k + 1) - 1 = k /\ k <= m
    BY <2>1
  <2>3. a[k] \in Wide /\ TenTimes(a[k]) = b[k]
    BY <1>4, <2>2
  <2>4. A(k + 1) \in Wide /\ a[k + 1] = Add(a[k], A(k + 1)) /\ b[k + 1] = Add(b[k], B(k + 1))
    BY <1>1, <2>2
  <2>5. TenTimes(A(k + 1)) = B(k + 1)
    BY <1>2, <2>2
  <2>6. TenTimes(Add(a[k], A(k + 1))) = Add(TenTimes(a[k]), TenTimes(A(k + 1)))
    BY <2>3, <2>4, Ten
  <2>7. Add(a[k], A(k + 1)) \in Wide
    BY <2>3, <2>4, WideSums
  <2> QED
    BY <2>3, <2>4, <2>5, <2>6, <2>7
<1>5. Nat \subseteq S
  <2> HIDE DEF S
  <2> QED
    BY <1>3, <1>4, Induct
<1>6. i \in Nat /\ i <= m
  OBVIOUS
<1> QED
  BY <1>5, <1>6 DEF a, b

\* Both readings give the same word.
LEMMA HornerIsSum ==
  ASSUME NEW n \in Nat, NEW numeral, \A i \in 1 .. n : DigitOf(numeral[i]) \in 0 .. 9
  PROVE  Horner(numeral, n)[n] = Sums(numeral, n)[n]
<1> DEFINE h == Horner(numeral, n)
           S == {m \in Nat : m <= n => h[m] = Sums(numeral, m)[m]}
<1>1. /\ h[0] = {}
      /\ \A i \in 1 .. n : h[i] = Add(TenTimes(h[i - 1]), Bits(DigitOf(numeral[i])))
  BY HornerIs
<1> HIDE DEF h
<1>2. 0 \in S
  <2>1. \A i \in 1 .. 0 : DigitOf(numeral[i]) \in 0 .. 9
    OBVIOUS
  <2>2. Sums(numeral, 0)[0] = {}
    BY <2>1, DigitSums
  <2> QED
    BY <1>1, <2>2
<1>3. ASSUME NEW m \in Nat, m \in S PROVE m + 1 \in S
  <2>1. SUFFICES ASSUME m + 1 <= n PROVE h[m + 1] = Sums(numeral, m + 1)[m + 1]
    OBVIOUS
  <2>2. /\ m + 1 \in 1 .. n /\ m + 1 \in 1 .. m + 1 /\ (m + 1) - 1 = m /\ (m + 1) - (m + 1) = 0
        /\ m + 1 \in Nat /\ m <= n /\ m \in 0 .. m /\ \A i \in 1 .. m + 1 : i \in 1 .. n
    BY <2>1
  <2>3. h[m] = Sums(numeral, m)[m]
    BY <1>3, <2>2
  <2>4. h[m + 1] = Add(TenTimes(h[m]), Bits(DigitOf(numeral[m + 1])))
    BY <1>1, <2>2
  <2>5. \A i \in 1 .. m + 1 : DigitOf(numeral[i]) \in 0 .. 9
    BY <2>2
  <2>6. TenTimes(Sums(numeral, m)[m]) = Sums(numeral, m + 1)[m]
    BY <2>2, <2>5, SumsTen
  <2>7. Sums(numeral, m + 1)[m + 1]
          = Add(Sums(numeral, m + 1)[m], DigitTimes(DigitOf(numeral[m + 1]), Power10(0)))
    <3>1. \A i \in 1 .. m + 1 : Sums(numeral, m + 1)[i] = Add(Sums(numeral, m + 1)[i - 1],
            DigitTimes(DigitOf(numeral[i]), Power10((m + 1) - i)))
      BY <2>2, <2>5, DigitSums
    <3> QED
      BY <2>2, <3>1
  <2>8. DigitTimes(DigitOf(numeral[m + 1]), Power10(0)) = Bits(DigitOf(numeral[m + 1]))
    BY <2>2, Powers, DigitTimesAre
  <2> QED
    BY <2>3, <2>4, <2>6, <2>7, <2>8
<1>4. Nat \subseteq S
  <2> HIDE DEF S
  <2> QED
    BY <1>2, <1>3, Induct
<1> QED
  BY <1>4 DEF h
-----------------------------------------------------------------------------
(***************************************************************************)
(* What stoi and stol find in a line.                                      *)
(***************************************************************************)
\* The first k of s, and no more, are in chars.
Stops(s, chars, k) ==
  /\ k \in 0 .. Len(s)
  /\ \A i \in 1 .. k : s[i] \in chars
  /\ k < Len(s) => s[k + 1] \notin chars

LEMMA StopsOnce ==
  ASSUME NEW s, Len(s) \in Nat, NEW chars, NEW k, NEW l, Stops(s, chars, k), Stops(s, chars, l)
  PROVE  k = l
<1>1. k \in 0 .. Len(s) /\ l \in 0 .. Len(s)
  BY DEF Stops
<1>2. CASE k < l
  <2>1. k + 1 \in 1 .. l /\ k < Len(s)
    BY <1>1, <1>2
  <2> QED
    BY <2>1 DEF Stops
<1>3. CASE l < k
  <2>1. l + 1 \in 1 .. k /\ l < Len(s)
    BY <1>1, <1>3
  <2> QED
    BY <2>1 DEF Stops
<1> QED
  BY <1>1, <1>2, <1>3

\* A piece of a sequence.
LEMMA Piece ==
  ASSUME NEW S, NEW s \in Seq(S), NEW m \in 1 .. Len(s) + 1, NEW n \in 0 .. Len(s), m <= n + 1
  PROVE  /\ SubSeq(s, m, n) \in Seq(S)
         /\ Len(SubSeq(s, m, n)) = n + 1 - m
         /\ \A i \in 1 .. n + 1 - m : SubSeq(s, m, n)[i] = s[m + i - 1]
<1>1. Len(s) \in Nat
  BY LenProperties
<1>2. m \in Int /\ n \in Int
  BY <1>1
<1>3. \A i \in m .. n : s[i] \in S
  <2>1. \A i \in m .. n : i \in 1 .. Len(s)
    BY <1>1
  <2> QED
    BY <2>1, ElementOfSeq
<1>4. /\ SubSeq(s, m, n) \in Seq(S)
      /\ Len(SubSeq(s, m, n)) = IF m <= n THEN n - m + 1 ELSE 0
      /\ \A i \in 1 .. n - m + 1 : SubSeq(s, m, n)[i] = s[m + i - 1]
  BY <1>2, <1>3, SubSeqProperties
<1>5. (IF m <= n THEN n - m + 1 ELSE 0) = n + 1 - m /\ n - m + 1 = n + 1 - m
  BY <1>2
<1> QED
  BY <1>4, <1>5

LEMMA RunIs ==
  ASSUME NEW S, NEW s \in Seq(S), NEW chars
  PROVE  \E k \in 0 .. Len(s) :
           /\ Stops(s, chars, k)
           /\ Run(s, chars) = SubSeq(s, 1, k) /\ Len(Run(s, chars)) = k
           /\ After(s, chars) = SubSeq(s, k + 1, Len(s))
<1> DEFINE T == {i \in 1 .. Len(s) + 1 : i = Len(s) + 1 \/ s[i] \notin chars}
           z == Min(T)
<1>0. Len(s) \in Nat
  BY LenProperties
<1>1. T \in SUBSET Nat /\ Len(s) + 1 \in T
  BY <1>0
<1>2. z \in T /\ \A i \in T : z <= i
  <2> HIDE DEF T
  <2>1. PICK m \in T : \A i \in T : m <= i
    BY <1>1, Least
  <2>2. Min(T) = CHOOSE x \in T : \A y \in T : x <= y
    BY DEF Min
  <2> QED
    BY <2>1, <2>2
<1>3. Run(s, chars) = SubSeq(s, 1, z - 1)
  BY DEF Run
<1> HIDE DEF z
<1>4. z \in 1 .. Len(s) + 1 /\ z - 1 \in 0 .. Len(s) /\ (z - 1) + 1 = z
  BY <1>0, <1>2
<1>5. Stops(s, chars, z - 1)
  <2>1. ASSUME NEW i \in 1 .. z - 1 PROVE s[i] \in chars
    <3>1. i \in 1 .. Len(s) + 1 /\ ~(z <= i)
      BY <1>0, <1>4
    <3>2. i \notin T
      BY <1>2, <3>1
    <3> QED
      BY <3>1, <3>2
  <2>2. ASSUME z - 1 < Len(s) PROVE s[z] \notin chars
    <3>1. z # Len(s) + 1
      BY <1>0, <1>4, <2>2
    <3> QED
      BY <1>2, <3>1
  <2> QED
    BY <1>4, <2>1, <2>2 DEF Stops
<1>6. Len(SubSeq(s, 1, z - 1)) = z - 1
  <2>1. 1 \in 1 .. Len(s) + 1 /\ 1 <= (z - 1) + 1 /\ (z - 1) + 1 - 1 = z - 1
    BY <1>0, <1>4
  <2>2. Len(SubSeq(s, 1, z - 1)) = (z - 1) + 1 - 1
    BY <1>4, <2>1, Piece
  <2> QED
    BY <2>1, <2>2
<1>7. After(s, chars) = SubSeq(s, (z - 1) + 1, Len(s))
  BY <1>3, <1>6 DEF After
<1> QED
  BY <1>3, <1>4, <1>5, <1>6, <1>7

\* Where the numeral stands, and what may stand before it.
LEMMA NumeralStands ==
  ASSUME NEW S, NEW s \in Seq(S), Numeral(s) # <<>>
  PROVE  \E first, last \in 1 .. Len(s) :
           /\ first <= last /\ Numeral(s) = SubSeq(s, first, last)
           /\ \A i \in 1 .. first - 2 : s[i] \in IsSpace
           /\ first > 1 => \/ s[first - 1] \in IsSpace
                           \/ s[first - 1] \in {"-", "+"} /\ (s[first - 1] = "-" => Signed(s, {"-"}))
           /\ \A i \in first .. last : s[i] \in IsDigit
           /\ last < Len(s) => s[last + 1] \notin IsDigit
<1> DEFINE L == Len(s)
           u == Unspaced(s)
           signed == Signed(s, {"-", "+"})
           body == IF signed THEN Tail(u) ELSE u
<1>0. L \in Nat
  BY LenProperties
<1>1. PICK k \in 0 .. L : Stops(s, IsSpace, k) /\ u = SubSeq(s, k + 1, L)
  BY RunIs DEF Unspaced
<1>2. /\ u \in Seq(S) /\ Len(u) = L - k
      /\ \A i \in 1 .. L - k : u[i] = s[k + i]
  <2>1. k + 1 \in 1 .. L + 1 /\ L \in 0 .. L /\ k + 1 <= L + 1 /\ L + 1 - (k + 1) = L - k
        /\ \A i \in 1 .. L - k : (k + 1) + i - 1 = k + i
    BY <1>0
  <2>2. /\ SubSeq(s, k + 1, L) \in Seq(S)
        /\ Len(SubSeq(s, k + 1, L)) = L + 1 - (k + 1)
        /\ \A i \in 1 .. L + 1 - (k + 1) : SubSeq(s, k + 1, L)[i] = s[(k + 1) + i - 1]
    BY <2>1, Piece
  <2> HIDE DEF u
  <2> QED
    BY <1>1, <2>1, <2>2
<1>3. signed => u # <<>> /\ L > k /\ Head(u) = s[k + 1] /\ s[k + 1] \in {"-", "+"}
               /\ (s[k + 1] = "-" => Signed(s, {"-"}))
  <2>1. SUFFICES ASSUME signed PROVE u # <<>> /\ L > k /\ Head(u) = s[k + 1]
                  /\ s[k + 1] \in {"-", "+"} /\ (s[k + 1] = "-" => Signed(s, {"-"}))
    OBVIOUS
  <2>2. u # <<>> /\ Head(u) \in {"-", "+"}
    BY <2>1 DEF Signed
  <2>3. Len(u) # 0
    <3> HIDE DEF u
    <3> QED
      BY <1>2, <2>2, EmptySeq
  <2>4. L > k /\ 1 \in 1 .. L - k
    BY <1>0, <1>2, <2>3
  <2>5. Head(u) = s[k + 1]
    <3>1. Head(u) = u[1]
      OBVIOUS
    <3> QED
      BY <1>2, <2>4, <3>1
  <2> QED
    BY <2>2, <2>4, <2>5 DEF Signed
<1> DEFINE p == IF signed THEN k + 1 ELSE k
<1>4. p \in 0 .. L /\ p \in {k, k + 1} /\ (p = k + 1 => signed)
  BY <1>0, <1>3
<1>5. /\ body \in Seq(S) /\ Len(body) = L - p
      /\ \A i \in 1 .. L - p : body[i] = s[p + i]
  <2>1. CASE signed
    <3>1. Tail(u) \in Seq(S) /\ Len(Tail(u)) = Len(u) - 1 /\ \A i \in 1 .. Len(Tail(u)) : Tail(u)[i] = u[i + 1]
      <4> HIDE DEF u
      <4> QED
        BY <1>2, <1>3, <2>1, HeadTailProperties
    <3>2. L - p = (L - k) - 1 /\ \A i \in 1 .. L - p : i + 1 \in 1 .. L - k /\ k + (i + 1) = p + i
      BY <1>0, <1>3, <2>1
    <3>3. body = Tail(u)
      BY <2>1
    <3> HIDE DEF u, body, p, signed
    <3> QED
      BY <1>2, <3>1, <3>2, <3>3
  <2>2. CASE ~signed
    <3>1. body = u /\ p = k
      BY <2>2
    <3> HIDE DEF u, body, p, signed
    <3> QED
      BY <1>2, <3>1
  <2> QED
    BY <2>1, <2>2
<1>6. Numeral(s) = Run(body, IsDigit)
  BY DEF Numeral
<1> HIDE DEF body, signed, p, u
<1>7. PICK l \in 0 .. Len(body) :
        Stops(body, IsDigit, l) /\ Run(body, IsDigit) = SubSeq(body, 1, l) /\ Len(Run(body, IsDigit)) = l
  BY <1>5, RunIs
<1> DEFINE num == Numeral(s)
<1>8. num \in Seq(S) /\ Len(num) = l /\ \A i \in 1 .. l : num[i] = s[p + i]
  <2>1. 1 \in 1 .. Len(body) + 1 /\ 1 <= l + 1 /\ l + 1 - 1 = l /\ Len(body) = L - p
        /\ \A i \in 1 .. l : i \in 1 .. L - p /\ 1 + i - 1 = i
    BY <1>0, <1>4, <1>5
  <2>2. /\ SubSeq(body, 1, l) \in Seq(S)
        /\ Len(SubSeq(body, 1, l)) = l + 1 - 1
        /\ \A i \in 1 .. l + 1 - 1 : SubSeq(body, 1, l)[i] = body[1 + i - 1]
    BY <1>5, <2>1, Piece
  <2> QED
    BY <1>5, <1>6, <1>7, <2>1, <2>2
<1>9. l # 0
  <2>1. num # <<>>
    OBVIOUS
  <2> HIDE DEF num
  <2> QED
    BY <1>8, <2>1, EmptySeq
<1> DEFINE first == p + 1
           last == p + l
<1>10. /\ first \in 1 .. L /\ last \in 1 .. L /\ first <= last /\ last + 1 - first = l
       /\ first \in 1 .. L + 1 /\ last \in 0 .. L /\ first <= last + 1 /\ l \in Nat
       /\ \A i \in 1 .. l : first + i - 1 = p + i
  BY <1>0, <1>4, <1>5, <1>7, <1>9
<1>11. num = SubSeq(s, first, last)
  <2> DEFINE t == SubSeq(s, first, last)
  <2>1. /\ t \in Seq(S)
        /\ Len(t) = last + 1 - first
        /\ \A i \in 1 .. last + 1 - first : t[i] = s[first + i - 1]
    BY <1>10, Piece
  <2> HIDE DEF t, num, first, last
  <2>2. Len(t) = Len(num) /\ \A i \in 1 .. Len(num) : t[i] = num[i]
    BY <1>8, <1>10, <2>1
  <2>3. t = num
    BY <1>8, <2>1, <2>2, SeqEqual
  <2> QED
    BY <2>3 DEF t
<1>12. \A i \in 1 .. first - 2 : s[i] \in IsSpace
  <2>1. \A i \in 1 .. first - 2 : i \in 1 .. k
    BY <1>0, <1>4
  <2> QED
    BY <1>1, <2>1 DEF Stops
<1>13. first > 1 => \/ s[first - 1] \in IsSpace
                    \/ s[first - 1] \in {"-", "+"} /\ (s[first - 1] = "-" => Signed(s, {"-"}))
  <2>1. first - 1 = p
    BY <1>4
  <2>2. CASE p = k
    <3>1. p > 0 => p \in 1 .. k
      BY <1>4, <2>2
    <3>2. first > 1 => p > 0
      BY <1>4
    <3> QED
      BY <1>1, <2>1, <3>1, <3>2 DEF Stops
  <2>3. CASE p = k + 1
    BY <1>3, <1>4, <2>1, <2>3
  <2> QED
    BY <1>4, <2>2, <2>3
<1>14. \A i \in first .. last : s[i] \in IsDigit
  <2> SUFFICES ASSUME NEW i \in first .. last PROVE s[i] \in IsDigit
    OBVIOUS
  <2>1. i - p \in 1 .. l /\ i - p \in 1 .. L - p /\ p + (i - p) = i
    BY <1>0, <1>4, <1>5, <1>7
  <2>2. body[i - p] \in IsDigit
    BY <1>7, <2>1 DEF Stops
  <2> QED
    BY <1>5, <2>1, <2>2
<1>15. last < L => s[last + 1] \notin IsDigit
  <2> SUFFICES ASSUME last < L PROVE s[last + 1] \notin IsDigit
    OBVIOUS
  <2>1. l < Len(body) /\ l + 1 \in 1 .. L - p /\ p + (l + 1) = last + 1
    BY <1>0, <1>4, <1>5, <1>7
  <2>2. body[l + 1] \notin IsDigit
    BY <1>7, <2>1 DEF Stops
  <2> QED
    BY <1>5, <2>1, <2>2
<1> HIDE DEF first, last
<1> QED
  BY <1>10, <1>11, <1>12, <1>13, <1>14, <1>15

LEMMA DigitsAre == \A c \in IsDigit : DigitOf(c) \in 0 .. 9
<1> SUFFICES ASSUME NEW c \in IsDigit PROVE DigitOf(c) \in 0 .. 9
  OBVIOUS
<1>1. PICK i \in 1 .. 10 : DIGITS[i] = c
  BY DEF IsDigit
<1>2. (CHOOSE j \in 1 .. 10 : DIGITS[j] = c) \in 1 .. 10
  BY <1>1
<1> QED
  BY <1>2 DEF DigitOf

LEMMA StrtolIs ==
  ASSUME NEW S, NEW s \in Seq(S), \A i \in 1 .. Len(Numeral(s)) : Numeral(s)[i] \in IsDigit,
         Len(Numeral(s)) \in Nat
  PROVE  /\ Strtol(s).negative = Signed(s, {"-"})
         /\ Strtol(s).word = Value(Numeral(s))
<1> DEFINE numeral == Numeral(s)
           n == Len(numeral)
<1>1. \A i \in 1 .. n : DigitOf(numeral[i]) \in 0 .. 9
  BY DigitsAre
<1>2. Strtol(s) = [negative |-> Signed(s, {"-"}), word |-> Horner(numeral, n)[n]]
  BY DEF Strtol, Horner
<1>3. Value(numeral) = Sums(numeral, n)[n]
  BY DEF Value, Sums
<1> HIDE DEF numeral
<1>4. n \in Nat
  BY DEF numeral
<1> HIDE DEF n
<1>5. Horner(numeral, n)[n] = Sums(numeral, n)[n]
  BY <1>1, <1>4, HornerIsSum
<1> QED
  BY <1>2, <1>3, <1>5 DEF numeral

\* An accepted line begins with the number that is taken from it.
LEMMA Spelled ==
  ASSUME NEW S, NEW s \in Seq(S), ~InvalidArgument(s), ~LessThanZero(Strtol(s))
  PROVE  Spells(s, Strtol(s).word)
<1> DEFINE word == Strtol(s).word
<1>1. Numeral(s) # <<>>
  BY DEF InvalidArgument
<1>2. PICK first, last \in 1 .. Len(s) :
        /\ first <= last /\ Numeral(s) = SubSeq(s, first, last)
        /\ \A i \in 1 .. first - 2 : s[i] \in IsSpace
        /\ first > 1 => \/ s[first - 1] \in IsSpace
                        \/ s[first - 1] \in {"-", "+"} /\ (s[first - 1] = "-" => Signed(s, {"-"}))
        /\ \A i \in first .. last : s[i] \in IsDigit
        /\ last < Len(s) => s[last + 1] \notin IsDigit
  BY <1>1, NumeralStands
<1>3. /\ Len(Numeral(s)) = last + 1 - first /\ last + 1 - first \in Nat
      /\ \A i \in 1 .. last + 1 - first : Numeral(s)[i] \in IsDigit
  <2>1. /\ Len(s) \in Nat /\ first \in 1 .. Len(s) + 1 /\ last \in 0 .. Len(s) /\ first <= last + 1
        /\ last + 1 - first \in Nat
        /\ \A i \in 1 .. last + 1 - first : first + i - 1 \in first .. last
    BY <1>2, LenProperties
  <2>2. /\ Len(SubSeq(s, first, last)) = last + 1 - first
        /\ \A i \in 1 .. last + 1 - first : SubSeq(s, first, last)[i] = s[first + i - 1]
    BY <2>1, Piece
  <2> QED
    BY <1>2, <2>1, <2>2
<1>4. Strtol(s).negative = Signed(s, {"-"}) /\ word = Value(Numeral(s))
  BY <1>3, StrtolIs
<1> HIDE DEF word
<1>5. Signed(s, {"-"}) => word = {}
  BY <1>4 DEF LessThanZero, word
<1>6. first > 1 => s[first - 1] \in IsSpace \cup {"+"} \cup (IF word = {} THEN {"-"} ELSE {})
  BY <1>2, <1>5
<1>7. Spells(s, word)
  BY <1>2, <1>4, <1>6 DEF Spells
<1> QED
  BY <1>7 DEF word

\* And the cast keeps it.
LEMMA CastIs ==
  ASSUME NEW n, ~LessThanZero(n), NEW bits \in 1 .. 64, n.negative \/ n.word \subseteq 0 .. bits - 1
  PROVE  Cast(n, bits) = n.word
<1>1. CASE ~n.negative
  BY <1>1 DEF Cast
<1>2. CASE n.negative
  <2> DEFINE all == 0 .. 127
             zero == {0}
  <2>1. n.word = {}
    BY <1>2 DEF LessThanZero
  <2>2. \A b \in Nat : b \in Add(all, zero) <=> ((b \in all <=> b \in zero) <=> Carry(all, zero, b))
    <3>1. all \subseteq Nat /\ zero \subseteq Nat
      OBVIOUS
    <3> HIDE DEF all, zero
    <3> QED
      BY <3>1, AddBits
  <2>3. ASSUME NEW b \in 0 .. 63 PROVE b \notin Add(all, zero)
    <3>1. CASE b = 0
      <4>1. ~Carry(all, zero, 0)
        BY DEF Carry
      <4> QED
        BY <2>2, <3>1, <4>1
    <3>2. CASE b # 0
      <4>1. 0 \in all \cap zero /\ 0 < b /\ \A j \in 0 + 1 .. b - 1 : j \in all \cup zero
        BY <3>2
      <4>2. Carry(all, zero, b)
        BY <4>1 DEF Carry
      <4>3. b \in all /\ b \notin zero /\ b \in Nat
        BY <3>2
      <4> QED
        BY <2>2, <4>2, <4>3
    <3> QED
      BY <3>1, <3>2
  <2>4. all \ {} = all
    OBVIOUS
  <2>5. Cast(n, bits) = Add(all, zero) \cap (0 .. bits - 1)
    BY <1>2, <2>1, <2>4 DEF Cast
  <2>6. \A b \in 0 .. bits - 1 : b \in 0 .. 63
    OBVIOUS
  <2> QED
    BY <2>1, <2>3, <2>5, <2>6
<1> QED
  BY <1>1, <1>2

LEMMA SpaceApart ==
  ASSUME NEW c \in IsDigit
  PROVE  c \notin IsSpace /\ c \notin {"-", "+"}
<1>1. PICK i \in 1 .. 10 : DIGITS[i] = c
  BY DEF IsDigit
<1>2. i \in {1, 2, 3, 4, 5, 6, 7, 8, 9, 10}
  OBVIOUS
<1>3. c \in {"0", "1", "2", "3", "4", "5", "6", "7", "8", "9"}
  BY <1>1, <1>2 DEF DIGITS
<1> QED
  BY <1>3 DEF IsSpace

\* A line of digits is read whole.
LEMMA NumeralRead ==
  ASSUME NEW S, NEW s \in Seq(S), IsNumeral(s)
  PROVE  ~InvalidArgument(s) /\ ~Strtol(s).negative /\ Strtol(s).word = Value(s)
<1>1. /\ s # <<>> /\ Len(s) \in Nat /\ Len(s) # 0
      /\ \A i \in 1 .. Len(s) : s[i] \in IsDigit
  BY EmptySeq, LenProperties DEF IsNumeral
<1>2. s[1] \in IsDigit
  BY <1>1
<1>3. Stops(s, IsSpace, 0)
  BY <1>1, <1>2, SpaceApart DEF Stops
<1>4. Stops(s, IsDigit, Len(s))
  BY <1>1 DEF Stops
<1>5. SubSeq(s, 1, Len(s)) = s
  BY SubSeqFull
<1>6. Unspaced(s) = s
  <2>1. PICK k \in 0 .. Len(s) : Stops(s, IsSpace, k) /\ After(s, IsSpace) = SubSeq(s, k + 1, Len(s))
    BY RunIs
  <2>2. k = 0
    BY <1>1, <1>3, <2>1, StopsOnce
  <2>3. k + 1 = 1
    BY <2>2
  <2> QED
    BY <1>5, <2>1, <2>3 DEF Unspaced
<1>7. Head(s) = s[1]
  BY <1>1
<1>8. ~Signed(s, {"-", "+"}) /\ ~Signed(s, {"-"})
  BY <1>2, <1>6, <1>7, SpaceApart DEF Signed
<1>9. Run(s, IsDigit) = s
  <2>1. PICK k \in 0 .. Len(s) : Stops(s, IsDigit, k) /\ Run(s, IsDigit) = SubSeq(s, 1, k)
    BY RunIs
  <2>2. k = Len(s)
    BY <1>1, <1>4, <2>1, StopsOnce
  <2> QED
    BY <1>5, <2>1, <2>2
<1>10. Numeral(s) = s
  BY <1>6, <1>8, <1>9 DEF Numeral
<1>11. Strtol(s).negative = Signed(s, {"-"}) /\ Strtol(s).word = Value(s)
  BY <1>1, <1>10, StrtolIs
<1> QED
  BY <1>1, <1>8, <1>10, <1>11 DEF InvalidArgument
-----------------------------------------------------------------------------
(***************************************************************************)
(* The two prompts.                                                        *)
(***************************************************************************)
\* An account the ATM accepts is the one that the first line begins with.
LEMMA IdIsSpelled ==
  ASSUME NEW i \in Ids, ~IdRefused(i)
  PROVE  Spells(i, UId(i))
<1>1. i \in Seq(STRING)
  BY OrderPathAssumption
<1>2. ~InvalidArgument(i) /\ ~LessThanZero(Strtol(i)) /\ Strtol(i).word \subseteq 0 .. 7
  BY DEF IdRefused
<1>3. Spells(i, Strtol(i).word)
  BY <1>1, <1>2, Spelled
<1>4. UId(i) = Strtol(i).word
  <2> DEFINE n == Strtol(i)
  <2>1. ~LessThanZero(n) /\ n.word \subseteq 0 .. 8 - 1 /\ 8 \in 1 .. 64
    BY <1>2
  <2> HIDE DEF n
  <2>2. Cast(n, 8) = n.word
    BY <2>1, CastIs
  <2> QED
    BY <2>2 DEF UId, n
<1> QED
  BY <1>3, <1>4

\* The kind of an order that is sent is its first character, and its amount
\* the number behind the dollar sign.
LEMMA RequestIs ==
  ASSUME NEW message \in Lines, ~Aborted(message), ~IsQuit(message), NEW u_id
  PROVE  LET sent == Request(u_id, message)
         IN  /\ sent.uid = u_id
             /\ sent.type \in DOMAIN Act /\ message[1] = Act[sent.type]
             /\ IF sent.type = "BALANCE" THEN sent.amt = {}
                ELSE Spells(Funds(message), sent.amt)
<1> DEFINE type == CHOOSE t \in DOMAIN Act : Act[t] = message[1]
           n == Strtol(Funds(message))
           amt == IF MovesMoney(message) THEN Cast(n, 64) ELSE {}
<1>1. Request(u_id, message) = [type |-> type, uid |-> u_id, amt |-> amt]
  BY DEF Request
<1>2. message # <<>> /\ \E t \in DOMAIN Act : message[1] = Act[t]
  BY DEF Aborted
<1>3. type \in DOMAIN Act /\ Act[type] = message[1]
  BY <1>2
<1>4. DOMAIN Act = {"DEPOSIT", "WITHDRAW", "BALANCE"} /\ Act["DEPOSIT"] = "1"
      /\ Act["WITHDRAW"] = "2" /\ Act["BALANCE"] = "3"
      /\ Act.DEPOSIT = "1" /\ Act.WITHDRAW = "2"
  BY DEF Act
<1> HIDE DEF type
<1>5. type = "BALANCE" => ~MovesMoney(message)
  BY <1>3, <1>4 DEF MovesMoney
<1>6. type # "BALANCE" => MovesMoney(message)
  BY <1>3, <1>4 DEF MovesMoney
<1>7. ASSUME MovesMoney(message) PROVE Spells(Funds(message), amt)
  <2> DEFINE s == Funds(message)
  <2>1. ~FundsRefused(message)
    BY <1>2, <1>7 DEF Aborted
  <2>2. /\ ~(Len(message) < 4)
        /\ ~InvalidArgument(s) /\ ~OutOfRange(s, 64) /\ ~LessThanZero(n)
    BY <2>1 DEF FundsRefused, LONG_BITS
  <2>3. message \in Seq(STRING) /\ Len(message) \in Nat
    BY OrderPathAssumption, LenProperties
  <2>4. s \in Seq(STRING)
    <3>1. 4 \in 1 .. Len(message) + 1 /\ Len(message) \in 0 .. Len(message) /\ 4 <= Len(message) + 1
      BY <2>2, <2>3
    <3>2. SubSeq(message, 4, Len(message)) \in Seq(STRING)
      BY <2>3, <3>1, Piece
    <3> QED
      BY <3>2 DEF Funds
  <2>5. Spells(s, n.word)
    <3> HIDE DEF s
    <3>1. Spells(s, Strtol(s).word)
      BY <2>2, <2>4, Spelled DEF s
    <3> QED
      BY <3>1 DEF s
  <2>6. n.negative \/ n.word \subseteq 0 .. 64 - 1
    <3>1. n.word \subseteq 0 .. 64 - 2 \/ (n.negative /\ n.word = {64 - 1})
      BY <2>2 DEF OutOfRange
    <3>2. 0 .. 64 - 2 \subseteq 0 .. 64 - 1
      OBVIOUS
    <3> QED
      BY <3>1, <3>2
  <2> HIDE DEF n, s
  <2>7. 64 \in 1 .. 64
    OBVIOUS
  <2>8. Cast(n, 64) = n.word
    BY <2>2, <2>6, <2>7, CastIs
  <2> QED
    BY <1>7, <2>5, <2>8 DEF s
<1>8. ~MovesMoney(message) => amt = {}
  OBVIOUS
<1> HIDE DEF amt
<1> QED
  BY <1>1, <1>3, <1>5, <1>6, <1>7, <1>8

(***************************************************************************)
(* What has passed the prompts when the ATM waits for the next line, and   *)
(* when it is about to connect.                                            *)
(***************************************************************************)
PromptInv ==
  /\ pc \in {"line", "connect"} => id \in Ids /\ ~IdRefused(id)
  /\ pc = "connect" => /\ line \in Lines /\ ~Aborted(line) /\ ~IsQuit(line)
                       /\ order = Request(UId(id), line)

LEMMA PromptsKept == Spec => []PromptInv
<1>1. Init => PromptInv
  BY DEF Init, PromptInv
<1>2. ASSUME PromptInv, [Next]_vars PROVE PromptInv'
  <2>1. CASE ReadId
    BY <2>1 DEF ReadId, PromptInv
  <2>2. CASE ReadLine
    <3>1. pc = "line" /\ line' \in Lines /\ id' = id
          /\ (IF Aborted(line') THEN pc' = "id" /\ UNCHANGED order
              ELSE IF IsQuit(line') THEN pc' = "bye" /\ UNCHANGED order
              ELSE pc' = "connect" /\ order' = Request(UId(id), line'))
      BY <2>2 DEF ReadLine
    <3>2. id \in Ids /\ ~IdRefused(id)
      BY <1>2, <3>1 DEF PromptInv
    <3>3. pc' \in {"line", "connect"} => pc' = "connect"
      BY <3>1
    <3>4. pc' = "connect" => ~Aborted(line') /\ ~IsQuit(line') /\ order' = Request(UId(id), line')
      BY <3>1
    <3> QED
      BY <3>1, <3>2, <3>3, <3>4 DEF PromptInv
  <2>3. CASE EndOfInput \/ Estab_con \/ AtmSends \/ BankReceives \/ BankAnswers \/ AtmReceives
    <3>1. pc' \notin {"line", "connect"}
      BY <2>3 DEF EndOfInput, Estab_con, AtmSends, BankReceives, BankAnswers, AtmReceives
    <3> QED
      BY <3>1 DEF PromptInv
  <2>4. CASE Terminating \/ UNCHANGED vars
    <3>1. pc' = pc /\ id' = id /\ line' = line /\ order' = order
      BY <2>4 DEF Terminating, vars
    <3> QED
      BY <1>2, <3>1 DEF PromptInv
  <2> QED
    BY <1>2, <2>1, <2>2, <2>3, <2>4 DEF Next
<1> QED
  BY <1>1, <1>2, PTL DEF Spec

(***************************************************************************)
(* Whatever the customer types: the account, the kind and the amount of    *)
(* the order that the ATM connects for are the ones the two lines spell,   *)
(* as stoi and stol read them and as the positional value of their digits  *)
(* says (client.cpp:173-190, 224-238).                                     *)
(***************************************************************************)
THEOREM OrdersAreSpelled == Spec => []SentAsTyped
<1>1. ASSUME PromptInv PROVE SentAsTyped
  <2> SUFFICES ASSUME pc = "connect"
               PROVE  /\ Spells(id, order.uid)
                      /\ line[1] = Act[order.type]
                      /\ IF order.type = "BALANCE" THEN order.amt = {}
                         ELSE Spells(Funds(line), order.amt)
    BY DEF SentAsTyped
  <2>1. /\ id \in Ids /\ ~IdRefused(id)
        /\ line \in Lines /\ ~Aborted(line) /\ ~IsQuit(line)
        /\ order = Request(UId(id), line)
    BY <1>1 DEF PromptInv
  <2>2. Spells(id, UId(id))
    BY <2>1, IdIsSpelled
  <2>3. /\ order.uid = UId(id) /\ line[1] = Act[order.type]
        /\ IF order.type = "BALANCE" THEN order.amt = {} ELSE Spells(Funds(line), order.amt)
    BY <2>1, RequestIs
  <2> QED
    BY <2>2, <2>3
<1> QED
  BY <1>1, PromptsKept, PTL

LEMMA GoodIdPasses ==
  ASSUME NEW i \in Ids, GoodId(i)
  PROVE  ~IdRefused(i)
<1>1. i \in Seq(STRING)
  BY OrderPathAssumption
<1>2. ~InvalidArgument(i) /\ ~Strtol(i).negative /\ Strtol(i).word \subseteq 0 .. 7
  BY <1>1, NumeralRead DEF GoodId
<1>3. 0 .. 7 \subseteq 0 .. INT_BITS - 2
  BY DEF INT_BITS
<1> QED
  BY <1>2, <1>3 DEF IdRefused, OutOfRange, LessThanZero

LEMMA GoodLinePasses ==
  ASSUME NEW message \in Lines, GoodLine(message)
  PROVE  ~Aborted(message)
<1>1. message \in Seq(STRING) /\ Len(message) \in Nat
  BY OrderPathAssumption, LenProperties
<1>2. /\ "DEPOSIT" \in DOMAIN Act /\ "WITHDRAW" \in DOMAIN Act /\ "BALANCE" \in DOMAIN Act
      /\ Act["DEPOSIT"] = "1" /\ Act["WITHDRAW"] = "2" /\ Act["BALANCE"] = "3"
      /\ Act.DEPOSIT = "1" /\ Act.WITHDRAW = "2" /\ Act.BALANCE = "3"
  BY DEF Act
<1>3. CASE message = <<Act.BALANCE>>
  <2>1. message # <<>> /\ message[1] = "3"
    BY <1>2, <1>3
  <2> QED
    BY <1>2, <2>1 DEF Aborted, MovesMoney
<1>4. CASE message = <<"q">>
  <2>1. message # <<>> /\ message[1] = "q"
    BY <1>4
  <2> QED
    BY <1>2, <2>1 DEF Aborted, MovesMoney, IsQuit
<1>5. CASE /\ Len(message) > 3
           /\ MovesMoney(message) /\ message[2] = " " /\ message[3] = "$"
           /\ IsNumeral(Funds(message))
           /\ Value(Funds(message)) \subseteq 0 .. LONG_BITS - 2
  <2> DEFINE s == Funds(message)
  <2>0. Len(message) > 3 /\ Len(message) \in Nat
    BY <1>1, <1>5
  <2>1. 4 \in 1 .. Len(message) + 1 /\ Len(message) \in 0 .. Len(message)
        /\ 4 <= Len(message) + 1 /\ ~(Len(message) < 4)
    BY <2>0
  <2>2. s \in Seq(STRING)
    <3>1. SubSeq(message, 4, Len(message)) \in Seq(STRING)
      BY <1>1, <2>1, Piece
    <3> QED
      BY <3>1 DEF Funds
  <2>3. ~InvalidArgument(s) /\ ~Strtol(s).negative /\ Strtol(s).word = Value(s)
    <3>1. IsNumeral(s)
      BY <1>5
    <3> HIDE DEF s
    <3> QED
      BY <2>2, <3>1, NumeralRead
  <2>4. ~FundsRefused(message)
    BY <1>5, <2>1, <2>3 DEF FundsRefused, OutOfRange, LessThanZero
  <2>5. message # <<>>
    <3>1. Len(<<>>) = 0
      OBVIOUS
    <3> QED
      BY <2>0, <3>1
  <2>6. \E type \in DOMAIN Act : message[1] = Act[type]
    BY <1>2, <1>5 DEF MovesMoney
  <2> QED
    BY <2>4, <2>5, <2>6 DEF Aborted
<1> QED
  BY <1>3, <1>4, <1>5 DEF GoodLine

(***************************************************************************)
(* And no line that is written as its prompt asks is turned away           *)
(* (client.cpp:166, 192-194).                                              *)
(***************************************************************************)
THEOREM GoodInputPasses == Spec => GoodInputAccepted
<1> DEFINE A == pc' = "id" => (pc = "id" => ~GoodId(id')) /\ (pc = "line" => ~GoodLine(line'))
<1>1. ASSUME [Next]_vars PROVE [A]_vars
  <2>1. CASE ReadId
    <3>1. id' \in Ids /\ pc = "id" /\ (pc' = "id" => IdRefused(id'))
      BY <2>1 DEF ReadId
    <3> QED
      BY <3>1, GoodIdPasses
  <2>2. CASE ReadLine
    <3>1. line' \in Lines /\ pc = "line" /\ (pc' = "id" => Aborted(line'))
      BY <2>2 DEF ReadLine
    <3> QED
      BY <3>1, GoodLinePasses
  <2>3. CASE EndOfInput \/ Estab_con \/ AtmSends \/ BankReceives \/ BankAnswers \/ AtmReceives
    BY <2>3 DEF EndOfInput, Estab_con, AtmSends, BankReceives, BankAnswers, AtmReceives
  <2>4. CASE Terminating \/ UNCHANGED vars
    BY <2>4 DEF Terminating
  <2> QED
    BY <1>1, <2>1, <2>2, <2>3, <2>4 DEF Next
<1> QED
  BY <1>1, PTL DEF Spec, GoodInputAccepted
-----------------------------------------------------------------------------
(***************************************************************************)
(* Programs with other keys.                                               *)
(***************************************************************************)
\* What a tag can vouch for: type, account and the upper six bytes.
SameFrontOf(read, m) ==
  /\ read.type = m.type /\ read.uid = m.uid
  /\ read.amt \ 0 .. 15 = m.amt \ 0 .. 15

\* The tag that a program makes of a text.
TagOf(p, text) == Hash_string(Create_HMAC(p.holder, text, KeyString(p.keys)))

\* With its own keys the receiver makes another text of the packet, and its
\* tag is the one that was sent.
Collides(sender, receiver, m) ==
  LET sent == Ptxt(m.type, m.uid, m.amt)
      read == Cbc_decrypt(IF sender.raw THEN sent ELSE Cbc_encrypt(sent, sender.keys),
                          receiver.keys)
  IN  /\ \E n \in 1 .. 8 : read[n] # sent[n]
      /\ TagOf(sender, sent) = TagOf(receiver, read)

IsMsg(m) ==
  m.type \in {MsgTypes[i] : i \in 1 .. INVALID} /\ m.uid \in Byte /\ m.amt \in Word(64)

LEMMA TagByKeys ==
  ASSUME NEW p, NEW q, p.keys \in Keyring, p.keys = q.keys, NEW text \in Blocks
  PROVE  TagOf(p, text) = TagOf(q, text)
<1>1. KeyString(p.keys) \in Seq(Byte)
  BY KeyStringIs
<1>2. text \in Seq(Byte)
  BY BlocksAreSeqs
<1>3. SameToHash(KeyString(p.keys), KeyString(p.keys))
  BY DEF SameToHash
<1> QED
  BY <1>1, <1>2, <1>3, SameKeySameTag DEF TagOf

LEMMA CollidesByKeys ==
  ASSUME NEW p, NEW q, NEW r, NEW s, NEW m, p.keys = r.keys, p.raw = r.raw, q.keys = s.keys,
         p.keys \in Keyring, q.keys \in Keyring, p.raw \in BOOLEAN, IsMsg(m)
  PROVE  Collides(p, q, m) <=> Collides(r, s, m)
<1> DEFINE x == Ptxt(m.type, m.uid, m.amt)
           text == IF p.raw THEN x ELSE Cbc_encrypt(x, p.keys)
           y == Cbc_decrypt(text, q.keys)
<1>1. x \in Blocks
  <2>1. PICK t \in 1 .. INVALID : m.type = MsgTypes[t]
    BY DEF IsMsg
  <2>2. m.amt \in SUBSET (0 .. 63)
    BY DEF IsMsg, Word
  <2> QED
    BY <2>1, <2>2, PtxtIsRead DEF IsMsg
<1>2. KeysTyped(p.keys) /\ KeysTyped(q.keys)
  BY DEF KeysTyped, Keyring
<1>3. y \in Blocks
  <2> HIDE DEF x
  <2>1. text \in Blocks
    BY <1>1, <1>2, ThereAndBack
  <2> HIDE DEF text
  <2> QED
    BY <1>2, <2>1, PlaintextsAreBlocks
<1>4. Collides(p, q, m) <=> (\E n \in 1 .. 8 : y[n] # x[n]) /\ TagOf(p, x) = TagOf(q, y)
  BY DEF Collides
<1>5. Collides(r, s, m) <=> (\E n \in 1 .. 8 : y[n] # x[n]) /\ TagOf(r, x) = TagOf(s, y)
  BY DEF Collides
<1> HIDE DEF x, y
<1>6. TagOf(p, x) = TagOf(r, x) /\ TagOf(q, y) = TagOf(s, y)
  BY <1>1, <1>3, TagByKeys
<1> QED
  BY <1>4, <1>5, <1>6

LEMMA FrontIsRead ==
  ASSUME NEW m, m.type \in {MsgTypes[i] : i \in 1 .. INVALID}, m.uid \in Byte, m.amt \in Word(64),
         NEW y \in Blocks, \A n \in 1 .. 8 : y[n] = Ptxt(m.type, m.uid, m.amt)[n],
         NEW fits \in BOOLEAN, Read(y, fits).error = "none"
  PROVE  SameFrontOf(Read(y, fits), m)
<1> DEFINE x == Ptxt(m.type, m.uid, m.amt)
           b == Read(x, TRUE)
           c == Read(y, fits)
<1>1. x \in Blocks /\ b = Arrived(m)
  <2>1. PICK t \in 1 .. INVALID : m.type = MsgTypes[t]
    OBVIOUS
  <2>2. m.amt \in SUBSET (0 .. 63)
    BY DEF Word
  <2> QED
    BY <2>1, <2>2, PtxtIsRead DEF Arrived
<1>3. \A n \in 1 .. 8 : y[n] = x[n]
  OBVIOUS
<1> HIDE DEF x, b
<1>2. b.type = m.type /\ b.uid = m.uid /\ b.amt = m.amt /\ b.error = "none"
  BY <1>1 DEF Arrived
<1>4. b.type = TypeOf(x[1]) /\ b.uid = x[2] /\ b.amt = Amount(x)
  BY <1>2 DEF b, Read, Refused
<1>5. c.type = TypeOf(y[1]) /\ c.uid = y[2] /\ c.amt = Amount(y)
  BY DEF Read, Refused
<1>6. y[1] = x[1] /\ y[2] = x[2]
  BY <1>3
<1>7. ASSUME NEW k \in 16 .. 63 PROVE k \in Amount(y) <=> k \in Amount(x)
  <2>1. k \in 0 .. 63 /\ 10 - k \div 8 \in 1 .. 8
    OBVIOUS
  <2>2. k \in Amount(y) <=> k % 8 \in y[10 - k \div 8]
    BY <2>1, AmountIs
  <2>3. k \in Amount(x) <=> k % 8 \in x[10 - k \div 8]
    BY <1>1, <2>1, AmountIs
  <2> QED
    BY <1>3, <2>1, <2>2, <2>3
<1>8. Amount(x) \subseteq 0 .. 63 /\ Amount(y) \subseteq 0 .. 63
  BY <1>1, AmountIs
<1>9. Amount(y) \ 0 .. 15 = Amount(x) \ 0 .. 15
  <2>1. \A k \in 0 .. 63 : k \in 0 .. 15 \/ k \in 16 .. 63
    OBVIOUS
  <2> QED
    BY <1>7, <1>8, <2>1
<1> HIDE DEF c
<1>10. SameFrontOf(c, m)
  BY <1>2, <1>4, <1>5, <1>6, <1>9 DEF SameFrontOf
<1> QED
  BY <1>10 DEF c

\* What another program makes of the packet, if it compares tags.
LEMMA SentOrCollides ==
  ASSUME NEW p, p.keys \in Keyring, p.raw \in BOOLEAN, NEW q, q.keys \in Keyring, ~q.raw,
         NEW m, m.type \in {MsgTypes[i] : i \in 1 .. INVALID}, m.uid \in Byte, m.amt \in Word(64),
         RecvMsg(q, SendMsg(p, m.type, m.uid, m.amt).msg).msg.error = "none"
  PROVE  \/ SameFrontOf(RecvMsg(q, SendMsg(p, m.type, m.uid, m.amt).msg).msg, m)
         \/ Collides(p, q, m)
<1> DEFINE x == Ptxt(m.type, m.uid, m.amt)
           tag == Hash_string(Create_HMAC(p.holder, x, KeyString(p.keys)))
           text == IF p.raw THEN x ELSE Cbc_encrypt(x, p.keys)
           y == Cbc_decrypt(text, q.keys)
           own == Hash_string(Create_HMAC(q.holder, y, KeyString(q.keys)))
           fits == own = tag
           sent == SendMsg(p, m.type, m.uid, m.amt).msg
           read == RecvMsg(q, sent).msg
<1>1. x \in Blocks
  <2>1. PICK t \in 1 .. INVALID : m.type = MsgTypes[t]
    OBVIOUS
  <2>2. m.amt \in SUBSET (0 .. 63)
    BY DEF Word
  <2> QED
    BY <2>1, <2>2, PtxtIsRead
<1>2. sent = [mac |-> tag, ctxt |-> text]
  BY DEF SendMsg, Sent, Packet, TagWords
<1>3. KeysTyped(p.keys) /\ KeysTyped(q.keys)
  BY DEF KeysTyped, Keyring
<1>4. y \in Blocks
  <2> HIDE DEF x
  <2>1. text \in Blocks
    BY <1>1, <1>3, ThereAndBack
  <2> HIDE DEF text
  <2> QED
    BY <1>3, <2>1, PlaintextsAreBlocks
<1>5. read = Read(y, fits)
  <2> HIDE DEF x, text, tag, sent
  <2>1. sent.ctxt = text /\ sent.mac = tag
    BY <1>2
  <2> QED
    BY <2>1 DEF RecvMsg, Checked, Opened, TagWords
<1>6. read.error = "none"
  OBVIOUS
<1> HIDE DEF read
<1>7. fits
  <2> HIDE DEF y, own, tag
  <2> QED
    BY <1>5, <1>6 DEF Read, Refused
<1>8. CASE \A n \in 1 .. 8 : y[n] = x[n]
  <2> HIDE DEF y, fits
  <2>1. SameFrontOf(Read(y, TRUE), m)
    <3>1. Read(y, TRUE).error = "none"
      BY <1>5, <1>6, <1>7
    <3> QED
      BY <1>4, <1>8, <3>1, FrontIsRead
  <2> QED
    BY <1>5, <1>7, <2>1 DEF read, sent
<1>9. CASE \E n \in 1 .. 8 : y[n] # x[n]
  <2>1. tag = own
    BY <1>7
  <2> QED
    BY <1>9, <2>1 DEF Collides, TagOf
<1> QED
  BY <1>8, <1>9

LEMMA CarriedOrCollides ==
  ASSUME NEW p, IsProgram(p), NEW q, IsProgram(q), ~q.raw,
         NEW m, m.type \in {MsgTypes[i] : i \in 1 .. INVALID}, m.uid \in Byte, m.amt \in Word(64),
         Carries(p, m), RecvMsg(q, wire).msg.error = "none"
  PROVE  SameFrontOf(RecvMsg(q, wire).msg, m) \/ Collides(p, q, m)
<1>1. PICK h : wire = SendMsg([p EXCEPT !.holder = h], m.type, m.uid, m.amt).msg
  BY DEF Carries
<1> DEFINE r == [p EXCEPT !.holder = h]
<1>2. r.keys = p.keys /\ r.raw = p.raw /\ r.keys \in Keyring /\ r.raw \in BOOLEAN /\ q.keys \in Keyring
  BY DEF IsProgram
<1>3. wire = SendMsg(r, m.type, m.uid, m.amt).msg
  BY <1>1
<1> HIDE DEF r
<1>4. RecvMsg(q, SendMsg(r, m.type, m.uid, m.amt).msg).msg.error = "none"
  BY <1>3
<1>5. \/ SameFrontOf(RecvMsg(q, SendMsg(r, m.type, m.uid, m.amt).msg).msg, m)
      \/ Collides(r, q, m)
  BY <1>2, <1>4, SentOrCollides
<1>6. Collides(r, q, m) <=> Collides(p, q, m)
  BY <1>2, CollidesByKeys DEF IsMsg
<1> QED
  BY <1>3, <1>5, <1>6

\* What a program accepts is what was sent, or its tag is that of another text.
AcceptInv ==
  /\ pc \in {"decide", "reply", "shown"} /\ ~process.bank.raw /\ request.error = "none" =>
       SameFrontOf(request, order) \/ Collides(process.atm, process.bank, order)
  /\ pc = "shown" /\ ~process.atm.raw /\ shown.type # "INVALID" =>
       \/ shown.type = answer.type /\ shown.balance \ 0 .. 15 = answer.amt \ 0 .. 15
       \/ Collides(process.bank, process.atm, answer)

LEMMA BankAccepts == ASSUME PathInv, BankReceives PROVE AcceptInv'
<1> DEFINE received == RecvMsg(process.bank, wire)
<1>1. pc = "request" /\ pc' = "decide" /\ process' = [process EXCEPT !.bank = received.process]
      /\ request' = received.msg /\ order' = order
  BY DEF BankReceives
<1>2. /\ process = [atm |-> process.atm, bank |-> process.bank]
      /\ IsProgram(process.atm) /\ IsProgram(process.bank)
      /\ order \in Orders /\ Carries(process.atm, order)
  BY <1>1 DEF PathInv, Connected
<1>3. /\ order.type \in {MsgTypes[i] : i \in 1 .. INVALID}
      /\ order.uid \in Byte /\ order.amt \in Word(64)
  BY <1>2, TypesAreNamed DEF Orders
<1>4. received.process.keys = process.bank.keys /\ received.process.raw = process.bank.raw
  BY <1>2, RecvMsgIs
<1>5. ~process.bank.raw /\ received.msg.error = "none" =>
        SameFrontOf(received.msg, order) \/ Collides(process.atm, process.bank, order)
  BY <1>2, <1>3, CarriedOrCollides
<1> HIDE DEF received
<1>6. process' = [atm |-> process.atm, bank |-> received.process]
  BY <1>1, <1>2
<1>7. process'.atm = process.atm /\ process'.bank.keys = process.bank.keys
      /\ process'.bank.raw = process.bank.raw
  BY <1>4, <1>6
<1>8. Collides(process'.atm, process'.bank, order) <=> Collides(process.atm, process.bank, order)
  BY <1>2, <1>3, <1>7, CollidesByKeys DEF IsProgram, IsMsg
<1> QED
  BY <1>1, <1>5, <1>7, <1>8 DEF AcceptInv

LEMMA BankAnswersAccept == ASSUME PathInv, AcceptInv, BankAnswers PROVE AcceptInv'
<1> DEFINE sent == SendMsg(process.bank, answer'.type, answer'.uid, answer'.amt)
<1>1. pc = "decide" /\ pc' = "reply" /\ process' = [process EXCEPT !.bank = sent.process]
      /\ request' = request /\ order' = order
  BY DEF BankAnswers
<1>2. /\ process = [atm |-> process.atm, bank |-> process.bank]
      /\ IsProgram(process.atm) /\ IsProgram(process.bank) /\ IsMsg(order)
  <2>1. order \in Orders
    BY <1>1 DEF PathInv
  <2>2. IsMsg(order)
    BY <2>1, TypesAreNamed DEF Orders, IsMsg
  <2> QED
    BY <1>1, <2>2 DEF PathInv, Connected
<1>3. sent.process.keys = process.bank.keys /\ sent.process.raw = process.bank.raw
  BY <1>2, SendMsgIs
<1> HIDE DEF sent
<1>4. process' = [atm |-> process.atm, bank |-> sent.process]
  BY <1>1, <1>2
<1>5. process'.atm = process.atm /\ process'.bank.keys = process.bank.keys
      /\ process'.bank.raw = process.bank.raw
  BY <1>3, <1>4
<1>7. Collides(process'.atm, process'.bank, order) <=> Collides(process.atm, process.bank, order)
  BY <1>2, <1>5, CollidesByKeys DEF IsProgram
<1>6. ~process.bank.raw /\ request.error = "none" =>
        SameFrontOf(request, order) \/ Collides(process.atm, process.bank, order)
  BY <1>1 DEF AcceptInv
<1> QED
  BY <1>1, <1>5, <1>6, <1>7 DEF AcceptInv

LEMMA DisplayAccepts ==
  ASSUME NEW msg \in Received, NEW a \in Replies, a.type # "OK" => a.amt = {},
         SameFrontOf(msg, a), msg.error = "none"
  PROVE  Display(msg).type = a.type /\ Display(msg).balance \ 0 .. 15 = a.amt \ 0 .. 15
<1>1. msg.type = a.type /\ msg.amt \ 0 .. 15 = a.amt \ 0 .. 15
  BY DEF SameFrontOf
<1>2. a.type \notin DOMAIN Act
  BY TypesAreNamed DEF Replies
<1>3. Display(msg).type = a.type /\ Display(msg).balance = IF a.type = "OK" THEN msg.amt ELSE {}
  BY <1>1, <1>2 DEF Display
<1> QED
  BY <1>1, <1>3

LEMMA AtmAccepts == ASSUME PathInv, AcceptInv, AtmReceives PROVE AcceptInv'
<1> DEFINE received == RecvMsg(process.atm, wire)
<1>1. pc = "reply" /\ pc' = "shown" /\ process' = [process EXCEPT !.atm = received.process]
      /\ shown' = Display(received.msg)
      /\ order' = order /\ request' = request /\ answer' = answer
  BY DEF AtmReceives
<1>2. /\ process = [atm |-> process.atm, bank |-> process.bank]
      /\ IsProgram(process.atm) /\ IsProgram(process.bank)
      /\ answer \in Replies /\ (answer.type # "OK" => answer.amt = {})
      /\ Carries(process.bank, answer)
  BY <1>1 DEF PathInv, Connected
<1>13. order \in Orders
  BY <1>1 DEF PathInv
<1>3. /\ answer.type \in {MsgTypes[i] : i \in 1 .. INVALID}
      /\ answer.uid \in Byte /\ answer.amt \in Word(64)
  BY <1>2, TypesAreNamed DEF Replies
<1>4. received.process.keys = process.atm.keys /\ received.process.raw = process.atm.raw
  BY <1>2, RecvMsgIs
<1>5. received.msg \in Received
  BY <1>2, <1>3, CarriedIsRead
<1>6. ~process.atm.raw /\ received.msg.error = "none" =>
        SameFrontOf(received.msg, answer) \/ Collides(process.bank, process.atm, answer)
  BY <1>2, <1>3, CarriedOrCollides
<1> HIDE DEF received
<1>7. process' = [atm |-> received.process, bank |-> process.bank]
  BY <1>1, <1>2
<1>8. process'.atm.keys = process.atm.keys /\ process'.bank.keys = process.bank.keys
      /\ process'.bank.raw = process.bank.raw /\ process'.atm.raw = process.atm.raw
  BY <1>4, <1>7
<1>9. ~process.bank.raw /\ request.error = "none" =>
        SameFrontOf(request, order) \/ Collides(process.atm, process.bank, order)
  BY <1>1 DEF AcceptInv
<1>10. shown'.type # "INVALID" => received.msg.error = "none"
  <2>1. "INVALID" \notin DOMAIN Act
    BY DEF Act
  <2>2. \A msg : msg.error # "none" => Display(msg).type = "INVALID"
    BY <2>1 DEF Display
  <2> QED
    BY <1>1, <2>2
<1>11. ASSUME ~process.atm.raw, shown'.type # "INVALID"
       PROVE  \/ shown'.type = answer.type /\ shown'.balance \ 0 .. 15 = answer.amt \ 0 .. 15
              \/ Collides(process.bank, process.atm, answer)
  <2>1. CASE SameFrontOf(received.msg, answer)
    BY <1>1, <1>2, <1>5, <1>10, <1>11, <2>1, DisplayAccepts
  <2> QED
    BY <1>6, <1>10, <1>11, <2>1
<1>12. /\ Collides(process'.atm, process'.bank, order) <=> Collides(process.atm, process.bank, order)
       /\ Collides(process'.bank, process'.atm, answer) <=> Collides(process.bank, process.atm, answer)
  <2>1. IsMsg(order) /\ IsMsg(answer)
    BY <1>3, <1>13, TypesAreNamed DEF Orders, IsMsg
  <2> QED
    BY <1>2, <1>8, <2>1, CollidesByKeys DEF IsProgram
<1> QED
  BY <1>1, <1>8, <1>9, <1>11, <1>12 DEF AcceptInv

LEMMA AcceptKept == Spec => []AcceptInv
<1>1. Init => AcceptInv
  BY DEF Init, AcceptInv
<1>2. ASSUME PathInv, AcceptInv, [Next]_vars PROVE AcceptInv'
  <2>1. CASE ReadId \/ ReadLine \/ EndOfInput \/ Estab_con \/ AtmSends
    <3>1. pc' \notin {"decide", "reply", "shown"}
      BY <2>1 DEF ReadId, ReadLine, EndOfInput, Estab_con, AtmSends
    <3> QED
      BY <3>1 DEF AcceptInv
  <2>2. CASE Terminating \/ UNCHANGED vars
    <3>1. /\ pc' = pc /\ order' = order /\ process' = process /\ request' = request
          /\ answer' = answer /\ shown' = shown
      BY <2>2 DEF Terminating, vars
    <3> QED
      BY <1>2, <3>1 DEF AcceptInv
  <2> QED
    BY <1>2, <2>1, <2>2, BankAccepts, BankAnswersAccept, AtmAccepts DEF Next
<1> QED
  BY <1>1, <1>2, PathKept, PTL DEF Spec

(***************************************************************************)
(* Whatever keys the two programs hold: a program that compares tags       *)
(* accepts nothing but the type, account and upper six bytes that were     *)
(* sent, unless the text it decrypts, though another one, has the tag of   *)
(* the text that was sent.  The cipher, the split of the packet and the    *)
(* reading of the bytes add no other way (ssh.cpp:74-103, 105-117).        *)
(***************************************************************************)
THEOREM AcceptedUnlessTagsCollide ==
  Spec => [](\/ AcceptedWasSent
             \/ request # None /\ Collides(process.atm, process.bank, order)
             \/ shown # None /\ Collides(process.bank, process.atm, answer))
<1>1. ASSUME PathInv, AcceptInv
      PROVE  \/ AcceptedWasSent
             \/ request # None /\ Collides(process.atm, process.bank, order)
             \/ shown # None /\ Collides(process.bank, process.atm, answer)
  <2>1. request # None => pc \in {"decide", "reply", "shown"}
    BY <1>1 DEF PathInv
  <2>2. shown # None => pc = "shown"
    BY <1>1 DEF PathInv
  <2> QED
    BY <1>1, <2>1, <2>2 DEF AcceptInv, AcceptedWasSent, SameFrontOf
<1> QED
  BY <1>1, AcceptKept, PathKept, PTL
=============================================================================
