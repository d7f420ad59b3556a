------------------------------ MODULE MacProofs ------------------------------
(***************************************************************************)
(* The tag of create_HMAC depends on the message and on what the first 64  *)
(* characters of the key string say, and on nothing else: not on the five  *)
(* static words in which each hash starts, nor, while the key string fills *)
(* one chunk, on the memory that it runs on into.  And it always has 40    *)
(* characters.  Both hold of the code as it is, which is not FIPS-180:     *)
(* what a hash starts from is forgotten by Run_sha (RunForgets), and       *)
(* convert() reads no more than 64 characters of a chunk.                  *)
(***************************************************************************)
EXTENDS Mac, SequenceTheorems, NaturalsInduction, WellFoundedInduction, TLAPS
-----------------------------------------------------------------------------
(***************************************************************************)
(* Induction over the naturals, for a set instead of a formula, and what   *)
(* it says of functions that are defined step by step.                     *)
(***************************************************************************)
\* A non-empty set of naturals has a least element.
LEMMA Least ==
  ASSUME NEW S \in SUBSET Nat, S # {}
  PROVE  \E n \in S : \A m \in S : n <= m
<1> DEFINE R == OpToRel(<, Nat)
<1>1. IsWellFoundedOn(R, Nat)
  BY NatLessThanWellFounded
<1> HIDE DEF R
<1>2. PICK n \in S : \A m \in S : <<m, n>> \notin R
  BY <1>1, WFMin
<1>3. \A m \in S : ~(m < n)
  BY <1>2 DEF R, OpToRel
<1> QED
  BY <1>3

\* A set that has 0 and every successor of its elements has every natural.
LEMMA Induct ==
  ASSUME NEW S, 0 \in S, \A n \in Nat : n \in S => n + 1 \in S
  PROVE  Nat \subseteq S
<1> DEFINE Left == Nat \ S
<1> SUFFICES ASSUME Left # {} PROVE FALSE
  OBVIOUS
<1>1. PICK n \in Left : \A m \in Left : n <= m
  <2>1. Left \in SUBSET Nat
    OBVIOUS
  <2> HIDE DEF Left
  <2> QED
    BY <2>1, Least
<1>2. n # 0 /\ n - 1 \in Nat
  OBVIOUS
<1>3. n - 1 \in S
  BY <1>1, <1>2
<1> QED
  BY <1>2, <1>3

\* f goes from b through the steps of F, from m to n.
Goes(f, b, F, m, n) == f = [x \in m .. n |-> IF x = m THEN b ELSE F[x][f[x - 1]]]

\* What holds before a step and is kept by it holds at each.
LEMMA StaysIn ==
  ASSUME NEW m \in Nat, NEW n \in Nat, NEW V, NEW f, f[m] \in V[m],
         \A x \in m + 1 .. n : f[x - 1] \in V[x - 1] => f[x] \in V[x]
  PROVE  \A x \in m .. n : f[x] \in V[x]
<1> DEFINE S == {k \in Nat : m + k <= n => f[m + k] \in V[m + k]}
<1>1. 0 \in S
  OBVIOUS
<1>2. ASSUME NEW k \in Nat, k \in S PROVE k + 1 \in S
  <2> DEFINE x == m + (k + 1)
  <2> SUFFICES ASSUME x <= n PROVE f[x] \in V[x]
    OBVIOUS
  <2>1. x \in m + 1 .. n /\ x - 1 = m + k
    OBVIOUS
  <2>2. f[x - 1] \in V[x - 1]
    BY <1>2, <2>1
  <2> HIDE DEF x
  <2> QED
    BY <2>1, <2>2
<1>3. Nat \subseteq S
  <2> HIDE DEF S
  <2> QED
    BY <1>1, <1>2, Induct
<1>4. ASSUME NEW x \in m .. n PROVE f[x] \in V[x]
  <2> DEFINE k == x - m
  <2>1. k \in Nat /\ m + k = x
    OBVIOUS
  <2>2. k \in S
    BY <1>3, <2>1
  <2> HIDE DEF k
  <2> QED
    BY <2>1, <2>2
<1> QED
  BY <1>4

\* There is a function that does so.
LEMMA StepByStep ==
  ASSUME NEW m \in Nat, NEW n \in Nat, m <= n, NEW V, NEW b \in V[m], NEW F,
         \A x \in m + 1 .. n : \A u \in V[x - 1] : F[x][u] \in V[x]
  PROVE  \E f : Goes(f, b, F, m, n) /\ \A x \in m .. n : f[x] \in V[x]
<1> DEFINE S == {k \in Nat : m + k <= n =>
                   \E f : Goes(f, b, F, m, m + k) /\ \A x \in m .. m + k : f[x] \in V[x]}
<1>1. 0 \in S
  <2> DEFINE f == [x \in m .. m |-> b]
  <2>1. f = [x \in m .. m |-> IF x = m THEN b ELSE F[x][f[x - 1]]]
    OBVIOUS
  <2>2. \A x \in m .. m : f[x] \in V[x]
    OBVIOUS
  <2>3. m + 0 = m
    OBVIOUS
  <2> HIDE DEF f
  <2> QED
    BY <2>1, <2>2, <2>3 DEF Goes
<1>2. ASSUME NEW k \in Nat, k \in S PROVE k + 1 \in S
  <2> DEFINE l == m + k
             z == m + (k + 1)
  <2> SUFFICES ASSUME z <= n
               PROVE  \E f : Goes(f, b, F, m, z) /\ \A x \in m .. z : f[x] \in V[x]
    OBVIOUS
  <2>1. l \in m .. n /\ z \in m + 1 .. n /\ z - 1 = l /\ l <= n
    OBVIOUS
  <2>2. PICK f : Goes(f, b, F, m, l) /\ \A x \in m .. l : f[x] \in V[x]
    BY <1>2, <2>1
  <2>3. \A x : x \in m .. z <=> x \in m .. l \/ x = z
    OBVIOUS
  <2>4. z \notin m .. l /\ z # m /\ l \in m .. l /\ m \in m .. l
    OBVIOUS
  <2>5. \A x \in m .. l : x # m => x - 1 \in m .. l
    OBVIOUS
  <2> HIDE DEF l, z
  <2> DEFINE g == [x \in m .. z |-> IF x = z THEN F[z][f[l]] ELSE f[x]]
  <2>6. \A x \in m .. l : g[x] = f[x]
    BY <2>3, <2>4
  <2>7. g[z] = F[z][f[l]]
    BY <2>3
  <2>8. \A x \in m .. z : g[x] \in V[x]
    <3>1. f[l] \in V[z - 1]
      BY <2>1, <2>2, <2>4
    <3> QED
      BY <2>1, <2>2, <2>3, <2>6, <2>7, <3>1
  <2>9. g = [x \in m .. z |-> g[x]]
    OBVIOUS
  <2> HIDE DEF g
  <2>10. \A x \in m .. l : f[x] = IF x = m THEN b ELSE F[x][f[x - 1]]
    <3> DEFINE D == [x \in m .. l |-> IF x = m THEN b ELSE F[x][f[x - 1]]]
    <3>1. f = D
      BY <2>2 DEF Goes
    <3>2. \A x \in m .. l : D[x] = IF x = m THEN b ELSE F[x][f[x - 1]]
      OBVIOUS
    <3> HIDE DEF D
    <3> QED
      BY <3>1, <3>2
  <2>11. \A x \in m .. z : g[x] = IF x = m THEN b ELSE F[x][g[x - 1]]
    BY <2>1, <2>3, <2>4, <2>5, <2>6, <2>7, <2>10
  <2>12. Goes(g, b, F, m, z)
    BY <2>9, <2>11 DEF Goes
  <2> QED
    BY <2>8, <2>12
<1>3. Nat \subseteq S
  <2> HIDE DEF S
  <2> QED
    BY <1>1, <1>2, Induct
<1> DEFINE k == n - m
<1>4. k \in S /\ m + k = n
  BY <1>3
<1> HIDE DEF k
<1> QED
  BY <1>4
-----------------------------------------------------------------------------
LEMMA BitsOf ==
  ASSUME NEW n \in 0 .. 255
  PROVE  /\ 0 \in Bits(n) <=> n % 2 = 1
         /\ 1 \in Bits(n) <=> (n \div 2) % 2 = 1
         /\ 2 \in Bits(n) <=> (n \div 4) % 2 = 1
         /\ 3 \in Bits(n) <=> (n \div 8) % 2 = 1
         /\ 4 \in Bits(n) <=> (n \div 16) % 2 = 1
         /\ 5 \in Bits(n) <=> (n \div 32) % 2 = 1
         /\ 6 \in Bits(n) <=> (n \div 64) % 2 = 1
         /\ 7 \in Bits(n) <=> (n \div 128) % 2 = 1
         /\ Bits(n) \in Byte
<1>1. 2^0 = 1 /\ 2^1 = 2 /\ 2^2 = 4 /\ 2^3 = 8 /\ 2^4 = 16 /\ 2^5 = 32 /\ 2^6 = 64 /\ 2^7 = 128
  OBVIOUS
<1>2. /\ n \div 2^8 = 0 /\ n \div 2^9 = 0 /\ n \div 2^10 = 0 /\ n \div 2^11 = 0
      /\ n \div 2^12 = 0 /\ n \div 2^13 = 0 /\ n \div 2^14 = 0 /\ n \div 2^15 = 0
  <2>1. 2^8 = 256 /\ 2^9 = 512 /\ 2^10 = 1024 /\ 2^11 = 2048 /\ 2^12 = 4096 /\ 2^13 = 8192
        /\ 2^14 = 16384 /\ 2^15 = 32768
    OBVIOUS
  <2> QED
    BY <2>1
<1>3. ASSUME NEW b \in 8 .. 15 PROVE b \notin Bits(n)
  <2>1. b = 8 \/ b = 9 \/ b = 10 \/ b = 11 \/ b = 12 \/ b = 13 \/ b = 14 \/ b = 15
    OBVIOUS
  <2>2. n \div 2^b = 0
    BY <1>2, <2>1
  <2>3. 0 % 2 # 1
    OBVIOUS
  <2>4. (n \div 2^b) % 2 # 1
    BY <2>2, <2>3
  <2> QED
    BY <2>4 DEF Bits
<1>4. Bits(n) \subseteq 0 .. 15
  BY DEF Bits
<1>5. Bits(n) \in Byte
  BY <1>3, <1>4 DEF Byte, Word
<1> QED
  BY <1>1, <1>5 DEF Bits

(***************************************************************************)
(* Words of 32 bits.                                                       *)
(***************************************************************************)
LEMMA XorWord ==
  ASSUME NEW x \in Word(32), NEW y \in Word(32)
  PROVE  Xor(x, y) \in Word(32)
BY DEF Xor, SymDiff, Word

LEMMA Add32Word ==
  ASSUME NEW x \in Word(32), NEW y \in Word(32)
  PROVE  Add32(x, y) \in Word(32)
<1>1. \A z : Shl(z, 1, 32) \in Word(32)
  BY DEF Shl, Word
<1> QED
  BY <1>1, XorWord DEF Add32

LEMMA RotlWord ==
  ASSUME NEW x \in Word(32), NEW n \in Nat
  PROVE  Rotl(x, n, 32) \in Word(32)
<1>1. \A b \in 0 .. 31 : (b + n) % 32 \in 0 .. 31
  OBVIOUS
<1> QED
  BY <1>1 DEF Rotl, Word

LEMMA Bits32Word == ASSUME NEW h, NEW l PROVE Bits32(h, l) \in Word(32)
<1>1. \A b \in 0 .. 15 : b \in 0 .. 31 /\ b + 16 \in 0 .. 31
  OBVIOUS
<1> QED
  BY <1>1 DEF Bits32, Bits, Word

LEMMA Word32Word ==
  ASSUME NEW b0 \in Byte, NEW b1 \in Byte, NEW b2 \in Byte, NEW b3 \in Byte
  PROVE  Word32(b0, b1, b2, b3) \in Word(32)
<1>1. ASSUME NEW x \in Byte, NEW k \in {0, 8, 16, 24} PROVE {b + k : b \in x} \subseteq 0 .. 31
  <2>1. \A b \in 0 .. 7 : b + k \in 0 .. 31
    OBVIOUS
  <2>2. x \subseteq 0 .. 7
    BY DEF Byte, Word
  <2> QED
    BY <2>1, <2>2
<1>2. /\ {b + 8 : b \in b1} \subseteq 0 .. 31 /\ {b + 16 : b \in b2} \subseteq 0 .. 31
      /\ {b + 24 : b \in b3} \subseteq 0 .. 31
  BY <1>1
<1>3. b0 \subseteq 0 .. 31
  BY DEF Byte, Word
<1>4. Word32(b0, b1, b2, b3) \subseteq 0 .. 31
  BY <1>2, <1>3 DEF Word32
<1> QED
  BY <1>4 DEF Word

LEMMA NonlinearWord ==
  ASSUME NEW t \in 0 .. 79, NEW b \in Word(32), NEW c \in Word(32), NEW d \in Word(32)
  PROVE  Nonlinear_funct(t, b, c, d) \in Word(32)
<1>1. CASE t \in 0 .. 19
  BY <1>1 DEF Nonlinear_funct, Word
<1>2. CASE t \in 40 .. 59
  BY <1>2 DEF Nonlinear_funct, Word
<1>3. CASE t \notin 0 .. 19 /\ t \notin 40 .. 59
  <2>1. Nonlinear_funct(t, b, c, d) = Xor(b, Xor(c, d))
    BY <1>3 DEF Nonlinear_funct
  <2> QED
    BY <2>1, XorWord
<1> QED
  BY <1>1, <1>2, <1>3

LEMMA RoundHash ==
  ASSUME NEW v \in Hash, NEW x \in 0 .. 79, NEW word \in Word(32)
  PROVE  Round(v, x, word) \in Hash
<1> DEFINE k == At(K, x \div 20)
           shift == Circle_shift_uint(5, v[1])
           mixed == Nonlinear_funct(x, v[2], v[3], v[4])
           temp == Add32(Add32(shift, mixed), Add32(Add32(v[5], word), k))
           c == Circle_shift_uint(30, v[2])
<1>1. v[1] \in Word(32) /\ v[2] \in Word(32) /\ v[3] \in Word(32) /\ v[4] \in Word(32)
      /\ v[5] \in Word(32)
  BY DEF Hash
<1>2. k \in Word(32)
  <2>1. x \div 20 + 1 \in {1, 2, 3, 4}
    OBVIOUS
  <2>2. K[1] \in Word(32) /\ K[2] \in Word(32) /\ K[3] \in Word(32) /\ K[4] \in Word(32)
    BY Bits32Word DEF K
  <2> QED
    BY <2>1, <2>2 DEF At
<1>3. shift \in Word(32) /\ c \in Word(32) /\ mixed \in Word(32)
  BY <1>1, RotlWord, NonlinearWord DEF Circle_shift_uint
<1> HIDE DEF k, shift, mixed, c
<1>4. temp \in Word(32)
  BY <1>1, <1>2, <1>3, Add32Word
<1> HIDE DEF temp
<1>5. Round(v, x, word) = <<temp, v[1], c, v[3], v[4]>>
  BY DEF Round, temp, shift, mixed, k, c
<1>6. <<temp, v[1], c, v[3], v[4]>> \in Hash
  BY <1>1, <1>3, <1>4 DEF Hash
<1> QED
  BY <1>5, <1>6

LEMMA TupleIs == ASSUME NEW S, NEW s \in Seq(S) PROVE Tuple(s) = s
BY ConcatEmptySeq DEF Tuple

LEMMA ConvertWords ==
  ASSUME NEW chunk \in Seq(Byte), Len(chunk) >= 64
  PROVE  Convert(chunk) \in Seq(Word(32)) /\ Len(Convert(chunk)) = 16
<1> DEFINE s == [i \in 1 .. 16 |->
                  Word32(chunk[4 * i], chunk[4 * i - 1], chunk[4 * i - 2], chunk[4 * i - 3])]
<1>1. ASSUME NEW i \in 1 .. 16 PROVE s[i] \in Word(32)
  <2>1. \A j \in 1 .. 64 : chunk[j] \in Byte
    BY ElementOfSeq
  <2>2. 4 * i \in 1 .. 64 /\ 4 * i - 1 \in 1 .. 64 /\ 4 * i - 2 \in 1 .. 64 /\ 4 * i - 3 \in 1 .. 64
    OBVIOUS
  <2> QED
    BY <2>1, <2>2, Word32Word
<1>2. s \in Seq(Word(32)) /\ Len(s) = 16
  BY <1>1
<1>3. Convert(chunk) = Tuple(s)
  BY DEF Convert, num_blocks
<1> HIDE DEF s
<1> QED
  BY <1>2, <1>3, TupleIs

LEMMA ExtendedWords ==
  ASSUME NEW x \in 16 .. 79, NEW w \in Seq(Word(32)), Len(w) = x
  PROVE  Extended(w, x) \in Seq(Word(32)) /\ Len(Extended(w, x)) = x + 1
<1> DEFINE word == Circle_shift_uint(1, Xor(Xor(At(w, x - 3), At(w, x - 8)),
                                            Xor(At(w, x - 14), At(w, x - 16))))
<1>1. \A k \in {3, 8, 14, 16} : At(w, x - k) \in Word(32)
  <2>1. \A k \in {3, 8, 14, 16} : x - k + 1 \in 1 .. Len(w)
    OBVIOUS
  <2> QED
    BY <2>1, ElementOfSeq DEF At
<1>2. word \in Word(32)
  BY <1>1, XorWord, RotlWord DEF Circle_shift_uint
<1> HIDE DEF word
<1>3. Extended(w, x) = Append(w, word)
  BY DEF Extended, word
<1> QED
  BY <1>2, <1>3, AppendProperties

LEMMA ScheduleWords ==
  ASSUME NEW chunk \in Seq(Byte), Len(chunk) >= 64
  PROVE  Schedule(chunk) \in Seq(Word(32)) /\ Len(Schedule(chunk)) = 80
<1> DEFINE b == Convert(chunk)
           D(f) == [x \in num_blocks .. 80 |-> IF x = num_blocks THEN b ELSE Extended(f[x - 1], x - 1)]
           words == CHOOSE f : f = D(f)
           V == [x \in 16 .. 80 |-> {w \in Seq(Word(32)) : Len(w) = x}]
           F == [x \in 17 .. 80 |-> [u \in V[x - 1] |-> Extended(u, x - 1)]]
<1>1. Schedule(chunk) = words[80]
  BY DEF Schedule
<1>2. \A f : D(f) = [x \in 16 .. 80 |-> IF x = 16 THEN b ELSE Extended(f[x - 1], x - 1)]
  BY DEF num_blocks
<1>3. b \in V[16]
  BY ConvertWords
<1>4. \A x \in 16 .. 80 : \A u : u \in V[x] <=> u \in Seq(Word(32)) /\ Len(u) = x
  OBVIOUS
<1>5. \A x \in 17 .. 80 : \A u \in V[x - 1] : F[x][u] = Extended(u, x - 1)
  OBVIOUS
<1> HIDE DEF b, D, V, F, words
<1>6. ASSUME NEW x \in 17 .. 80, NEW u \in V[x - 1]
      PROVE  Extended(u, x - 1) \in V[x]
  <2>1. x - 1 \in 16 .. 79 /\ x - 1 \in 16 .. 80 /\ x \in 16 .. 80 /\ (x - 1) + 1 = x
    OBVIOUS
  <2>2. u \in Seq(Word(32)) /\ Len(u) = x - 1
    BY <1>4, <2>1
  <2>3. Extended(u, x - 1) \in Seq(Word(32)) /\ Len(Extended(u, x - 1)) = (x - 1) + 1
    BY <2>1, <2>2, ExtendedWords
  <2> QED
    BY <1>4, <2>1, <2>3
<1>7. \E f : f = D(f)
  <2>1. 16 \in Nat /\ 80 \in Nat /\ 16 <= 80 /\ 16 + 1 = 17
    OBVIOUS
  <2>2. \A x \in 16 + 1 .. 80 : \A u \in V[x - 1] : F[x][u] \in V[x]
    BY <1>5, <1>6
  <2>3. PICK f : Goes(f, b, F, 16, 80) /\ \A x \in 16 .. 80 : f[x] \in V[x]
    BY <1>3, <2>1, <2>2, StepByStep
  <2>4. \A x \in 16 .. 80 : x # 16 => F[x][f[x - 1]] = Extended(f[x - 1], x - 1)
    <3>1. \A x \in 16 .. 80 : x # 16 => x \in 17 .. 80 /\ x - 1 \in 16 .. 80
      OBVIOUS
    <3> QED
      BY <1>5, <2>3, <3>1
  <2>5. [x \in 16 .. 80 |-> IF x = 16 THEN b ELSE F[x][f[x - 1]]]
        = [x \in 16 .. 80 |-> IF x = 16 THEN b ELSE Extended(f[x - 1], x - 1)]
    BY <2>4
  <2> QED
    BY <1>2, <2>3, <2>5 DEF Goes
<1>8. words = D(words)
  BY <1>7 DEF words
<1>9. words[16] = b /\ \A x \in 17 .. 80 : words[x] = Extended(words[x - 1], x - 1)
  <2> DEFINE E == [x \in 16 .. 80 |-> IF x = 16 THEN b ELSE Extended(words[x - 1], x - 1)]
  <2>1. words = E
    BY <1>2, <1>8
  <2>2. E[16] = b /\ \A x \in 17 .. 80 : E[x] = Extended(words[x - 1], x - 1)
    OBVIOUS
  <2> HIDE DEF E
  <2> QED
    BY <2>1, <2>2
<1>10. words[80] \in V[80]
  <2>1. 16 \in Nat /\ 80 \in Nat /\ 16 + 1 = 17 /\ 80 \in 16 .. 80
    OBVIOUS
  <2>2. ASSUME NEW x \in 16 + 1 .. 80, words[x - 1] \in V[x - 1] PROVE words[x] \in V[x]
    <3>1. x \in 17 .. 80
      BY <2>1
    <3>2. Extended(words[x - 1], x - 1) \in V[x]
      BY <1>6, <2>2, <3>1
    <3> QED
      BY <1>9, <3>1, <3>2
  <2>3. \A x \in 16 .. 80 : words[x] \in V[x]
    BY <1>3, <1>9, <2>1, <2>2, StaysIn
  <2> QED
    BY <2>1, <2>3
<1>11. words[80] \in Seq(Word(32)) /\ Len(words[80]) = 80
  <2>1. 80 \in 16 .. 80
    OBVIOUS
  <2> QED
    BY <1>4, <1>10, <2>1
<1> QED
  BY <1>1, <1>11

LEMMA IterationsHash ==
  ASSUME NEW holder \in Hash, NEW chunk \in Seq(Byte), Len(chunk) >= 64
  PROVE  Iterations(holder, chunk) \in Hash
<1> DEFINE words == Schedule(chunk)
           round(x) == [v \in Hash |-> Round(v, x, At(words, x))]
           D(f) == [x \in 0 .. 80 |-> IF x = 0 THEN holder ELSE round(x - 1)[f[x - 1]]]
           v == CHOOSE f : f = D(f)
           last == v[80]
           V == [x \in 0 .. 80 |-> Hash]
           F == [x \in 1 .. 80 |-> round(x - 1)]
           sum == [i \in 1 .. 5 |-> Add32(holder[i], last[i])]
<1>1. Iterations(holder, chunk) = Tuple(sum)
  BY DEF Iterations
<1>2. words \in Seq(Word(32)) /\ Len(words) = 80
  BY ScheduleWords
<1> HIDE DEF words
<1>3. ASSUME NEW x \in 0 .. 79, NEW u \in Hash PROVE round(x)[u] \in Hash
  <2>1. At(words, x) \in Word(32)
    <3>1. x + 1 \in 1 .. Len(words)
      BY <1>2
    <3> QED
      BY <1>2, <3>1, ElementOfSeq DEF At
  <2> QED
    BY <2>1, RoundHash
<1> HIDE DEF round
<1>4. \A x \in 1 .. 80 : F[x] = round(x - 1)
  OBVIOUS
<1>5. \A x \in 0 .. 80 : V[x] = Hash
  OBVIOUS
<1>6. \A f : /\ DOMAIN D(f) = 0 .. 80 /\ D(f)[0] = holder
             /\ \A x \in 1 .. 80 : D(f)[x] = round(x - 1)[f[x - 1]]
  OBVIOUS
<1>7. ASSUME NEW x \in 1 .. 80, NEW u \in Hash PROVE F[x][u] \in Hash
  <2>1. x - 1 \in 0 .. 79
    OBVIOUS
  <2> QED
    BY <1>3, <1>4, <2>1
<1>8. \E f : f = D(f)
  <2>1. 0 \in Nat /\ 80 \in Nat /\ 0 <= 80 /\ 0 + 1 = 1
    OBVIOUS
  <2> HIDE DEF V, F
  <2>2. ASSUME NEW x \in 0 + 1 .. 80, NEW u \in V[x - 1] PROVE F[x][u] \in V[x]
    <3>1. x \in 1 .. 80 /\ x - 1 \in 0 .. 80 /\ x \in 0 .. 80
      OBVIOUS
    <3> QED
      BY <1>5, <1>7, <3>1
  <2>3. holder \in V[0]
    <3>1. 0 \in 0 .. 80
      OBVIOUS
    <3> QED
      BY <1>5, <3>1
  <2>4. PICK f : Goes(f, holder, F, 0, 80)
    BY <2>1, <2>2, <2>3, StepByStep
  <2>5. [x \in 0 .. 80 |-> IF x = 0 THEN holder ELSE F[x][f[x - 1]]]
        = [x \in 0 .. 80 |-> IF x = 0 THEN holder ELSE round(x - 1)[f[x - 1]]]
    <3>1. \A x \in 0 .. 80 : x # 0 => x \in 1 .. 80
      OBVIOUS
    <3>2. \A x \in 0 .. 80 : x # 0 => F[x][f[x - 1]] = round(x - 1)[f[x - 1]]
      BY <1>4, <3>1
    <3> QED
      BY <3>2
  <2> QED
    BY <2>4, <2>5 DEF Goes
<1> HIDE DEF V, F, D
<1>9. v = D(v)
  BY <1>8
<1> HIDE DEF v
<1>10. v[0] = holder /\ \A x \in 1 .. 80 : v[x] = round(x - 1)[v[x - 1]]
  BY <1>6, <1>9
<1>11. last \in Hash
  <2>1. 0 \in Nat /\ 80 \in Nat /\ 0 + 1 = 1 /\ 80 \in 0 .. 80 /\ 0 \in 0 .. 80
    OBVIOUS
  <2>2. ASSUME NEW x \in 0 + 1 .. 80, v[x - 1] \in V[x - 1] PROVE v[x] \in V[x]
    <3>1. x \in 1 .. 80 /\ x - 1 \in 0 .. 79 /\ x - 1 \in 0 .. 80 /\ x \in 0 .. 80
      OBVIOUS
    <3>2. v[x - 1] \in Hash
      BY <1>5, <2>2, <3>1
    <3>3. round(x - 1)[v[x - 1]] \in Hash
      BY <1>3, <3>1, <3>2
    <3>4. v[x] \in Hash
      BY <1>10, <3>1, <3>3
    <3> QED
      BY <1>5, <3>1, <3>4
  <2>3. v[0] \in V[0]
    BY <1>5, <1>10, <2>1
  <2>4. \A x \in 0 .. 80 : v[x] \in V[x]
    BY <2>1, <2>2, <2>3, StaysIn
  <2> QED
    BY <1>5, <2>1, <2>4
<1> HIDE DEF last
<1>12. \A i \in 1 .. 5 : sum[i] \in Word(32)
  <2>1. \A i \in 1 .. 5 : holder[i] \in Word(32) /\ last[i] \in Word(32)
    BY <1>11 DEF Hash
  <2> QED
    BY <2>1, Add32Word
<1>13. sum \in Hash /\ sum \in Seq(Word(32))
  BY <1>12 DEF Hash
<1> HIDE DEF sum
<1> QED
  BY <1>1, <1>13, TupleIs

\* A chunk counts by its first 64 characters.
LEMMA ChunkCounts ==
  ASSUME NEW holder, NEW s, NEW t, \A i \in 1 .. 64 : s[i] = t[i]
  PROVE  Iterations(holder, s) = Iterations(holder, t)
<1>1. Convert(s) = Convert(t)
  <2>1. \A i \in 1 .. 16 : 4 * i \in 1 .. 64 /\ 4 * i - 1 \in 1 .. 64 /\ 4 * i - 2 \in 1 .. 64
                           /\ 4 * i - 3 \in 1 .. 64
    OBVIOUS
  <2>2. [i \in 1 .. 16 |-> Word32(s[4 * i], s[4 * i - 1], s[4 * i - 2], s[4 * i - 3])]
        = [i \in 1 .. 16 |-> Word32(t[4 * i], t[4 * i - 1], t[4 * i - 2], t[4 * i - 3])]
    BY <2>1
  <2> QED
    BY <2>2 DEF Convert, num_blocks
<1>2. Schedule(s) = Schedule(t)
  BY <1>1 DEF Schedule
<1> QED
  BY <1>2 DEF Iterations
-----------------------------------------------------------------------------
(***************************************************************************)
(* Strings of digits.                                                      *)
(***************************************************************************)
LEMMA ZeroOne == Zero \in Byte /\ One \in Byte
<1>1. 48 \in 0 .. 255 /\ 49 \in 0 .. 255
  OBVIOUS
<1> QED
  BY <1>1, BitsOf DEF Zero, One

\* n zeros, or n other characters.
LEMMA Same ==
  ASSUME NEW n \in Nat, NEW c \in Byte
  PROVE  [i \in 1 .. n |-> c] \in Seq(Byte) /\ Len([i \in 1 .. n |-> c]) = n
OBVIOUS

LEMMA MaxIn ==
  ASSUME NEW n \in Nat, NEW word \in SUBSET (0 .. n), word # {}
  PROVE  Max(word) \in word
<1> DEFINE S == {n - b : b \in word}
<1>1. S \in SUBSET Nat /\ S # {}
  OBVIOUS
<1>2. PICK m \in S : \A k \in S : m <= k
  <2> HIDE DEF S
  <2> QED
    BY <1>1, Least
<1>3. PICK b \in word : m = n - b
  OBVIOUS
<1>4. \A c \in word : b >= c
  <2>1. \A c \in word : n - c \in S
    OBVIOUS
  <2> QED
    BY <1>2, <1>3, <2>1
<1>5. \E x \in word : \A y \in word : x >= y
  BY <1>4
<1>6. Max(word) = CHOOSE x \in word : \A y \in word : x >= y
  BY DEF Max
<1> QED
  BY <1>5, <1>6

LEMMA DigitsOfWord ==
  ASSUME NEW n \in Nat, NEW word \in SUBSET (0 .. n)
  PROVE  Dec_to_Bin(word) \in Seq(Byte) /\ Len(Dec_to_Bin(word)) \in 1 .. n + 1
<1> DEFINE top == IF word = {} THEN 0 ELSE Max(word)
           s == [i \in 1 .. top + 1 |-> IF top + 1 - i \in word THEN One ELSE Zero]
<1>1. top \in 0 .. n
  <2>1. CASE word = {}
    BY <2>1
  <2>2. CASE word # {}
    BY <2>2, MaxIn
  <2> QED
    BY <2>1, <2>2
<1>2. Dec_to_Bin(word) = s
  BY DEF Dec_to_Bin
<1> HIDE DEF top
<1>3. \A i \in 1 .. top + 1 : s[i] \in Byte
  BY ZeroOne
<1>4. s \in Seq(Byte) /\ Len(s) = top + 1
  BY <1>1, <1>3
<1> QED
  BY <1>1, <1>2, <1>4

LEMMA PadLeftIs ==
  ASSUME NEW s \in Seq(Byte), NEW m \in {4, 8, 64}
  PROVE  LET missing == (m - (Len(s) % m)) % m
         IN  /\ missing \in Nat
             /\ PadLeft(s, m) \in Seq(Byte)
             /\ Len(PadLeft(s, m)) = missing + Len(s)
<1> DEFINE missing == (m - (Len(s) % m)) % m
           zeros == [i \in 1 .. missing |-> Zero]
<1>1. missing \in Nat
  <2>1. Len(s) \in Nat
    OBVIOUS
  <2> QED
    BY <2>1
<1>2. PadLeft(s, m) = zeros \o s
  BY DEF PadLeft
<1> HIDE DEF missing
<1>3. zeros \in Seq(Byte) /\ Len(zeros) = missing
  BY <1>1, ZeroOne, Same
<1> HIDE DEF zeros
<1>4. zeros \o s \in Seq(Byte) /\ Len(zeros \o s) = missing + Len(s)
  BY <1>3, ConcatProperties
<1>5. PadLeft(s, m) \in Seq(Byte) /\ Len(PadLeft(s, m)) = missing + Len(s)
  BY <1>2, <1>4
<1> QED
  BY <1>1, <1>5 DEF missing

\* The length of a string, as the digits behind it.
LEMMA LengthField ==
  ASSUME NEW n \in Nat
  PROVE  LET field == PadLeft(Dec_to_Bin(Bits(n)), 64)
         IN  field \in Seq(Byte) /\ Len(field) = 64
<1> DEFINE d == Dec_to_Bin(Bits(n))
<1>1. d \in Seq(Byte) /\ Len(d) \in 1 .. 16
  <2>1. Bits(n) \in SUBSET (0 .. 15)
    BY DEF Bits
  <2>2. 15 \in Nat /\ 15 + 1 = 16
    OBVIOUS
  <2> HIDE DEF d
  <2>3. Dec_to_Bin(Bits(n)) \in Seq(Byte) /\ Len(Dec_to_Bin(Bits(n))) \in 1 .. 15 + 1
    BY <2>1, <2>2, DigitsOfWord
  <2> QED
    BY <2>2, <2>3 DEF d
<1> HIDE DEF d
<1>2. (64 - (Len(d) % 64)) % 64 = 64 - Len(d)
  <2>1. \A l \in 1 .. 16 : l % 64 = l /\ (64 - l) % 64 = 64 - l
    OBVIOUS
  <2> QED
    BY <1>1, <2>1
<1>3. PadLeft(d, 64) \in Seq(Byte) /\ Len(PadLeft(d, 64)) = ((64 - (Len(d) % 64)) % 64) + Len(d)
  BY <1>1, PadLeftIs
<1>4. Len(d) \in Int /\ (64 - Len(d)) + Len(d) = 64
  BY <1>1
<1> DEFINE p == PadLeft(d, 64)
           q == (64 - (Len(d) % 64)) % 64
<1>5. p \in Seq(Byte) /\ Len(p) = q + Len(d)
  BY <1>3
<1>6. q = 64 - Len(d)
  BY <1>2
<1> HIDE DEF p, q
<1>7. p \in Seq(Byte) /\ Len(p) = 64
  BY <1>4, <1>5, <1>6
<1> QED
  BY <1>7 DEF p, d

\* What is behind the string.
Tail512(n) ==
  LET pad_size == n % CHUNK
      zeros == IF pad_size >= 448 THEN 512 - pad_size - 1 + 448 ELSE 448 - pad_size - 1
  IN  (<<One>> \o [i \in 1 .. zeros |-> Zero]) \o PadLeft(Dec_to_Bin(Bits(n)), 64)

LEMMA Tail512Is ==
  ASSUME NEW n \in Nat
  PROVE  /\ Tail512(n) \in Seq(Byte)
         /\ Len(Tail512(n)) = IF n % 512 >= 448 THEN 1024 - (n % 512) ELSE 512 - (n % 512)
<1> DEFINE k == IF n % CHUNK >= 448 THEN 512 - (n % CHUNK) - 1 + 448 ELSE 448 - (n % CHUNK) - 1
           zeros == [i \in 1 .. k |-> Zero]
           field == PadLeft(Dec_to_Bin(Bits(n)), 64)
           r == n % 512
<1>1. Tail512(n) = (<<One>> \o zeros) \o field
  BY DEF Tail512
<1>2. r \in 0 .. 511 /\ n % CHUNK = r
  BY DEF CHUNK
<1>3. k \in Nat /\ k = IF r >= 448 THEN 959 - r ELSE 447 - r
  <2> HIDE DEF r
  <2>1. k = IF r >= 448 THEN 959 - r ELSE 447 - r
    BY <1>2
  <2> QED
    BY <1>2, <2>1
<1> HIDE DEF k
<1>4. zeros \in Seq(Byte) /\ Len(zeros) = k
  BY <1>3, ZeroOne, Same
<1>5. field \in Seq(Byte) /\ Len(field) = 64
  BY LengthField
<1>6. <<One>> \in Seq(Byte) /\ Len(<<One>>) = 1
  BY ZeroOne
<1> HIDE DEF zeros, field
<1>7. <<One>> \o zeros \in Seq(Byte) /\ Len(<<One>> \o zeros) = 1 + k
  BY <1>4, <1>6, ConcatProperties
<1>8. Tail512(n) \in Seq(Byte) /\ Len(Tail512(n)) = 1 + k + 64
  <2> DEFINE front == <<One>> \o zeros
  <2> HIDE DEF front
  <2>1. front \in Seq(Byte) /\ Len(front) = 1 + k
    BY <1>7 DEF front
  <2>2. front \o field \in Seq(Byte) /\ Len(front \o field) = Len(front) + Len(field)
    BY <1>5, <2>1, ConcatProperties
  <2>3. Tail512(n) = front \o field
    BY <1>1 DEF front
  <2> QED
    BY <1>5, <2>1, <2>2, <2>3
<1> HIDE DEF r
<1>9. Len(Tail512(n)) = IF r >= 448 THEN 1024 - r ELSE 512 - r
  BY <1>2, <1>3, <1>8
<1> QED
  BY <1>8, <1>9 DEF r

LEMMA PaddingIs ==
  ASSUME NEW s \in Seq(Byte)
  PROVE  /\ Padding(s) = s \o Tail512(Len(s))
         /\ Padding(s) \in Seq(Byte)
         /\ Len(Padding(s)) = Len(s) + Len(Tail512(Len(s)))
         /\ \A i \in 1 .. Len(s) : Padding(s)[i] = s[i]
         /\ \A i \in Len(s) + 1 .. Len(Padding(s)) : Padding(s)[i] = Tail512(Len(s))[i - Len(s)]
         /\ \E m \in Nat : m >= 1 /\ Len(Padding(s)) = 512 * m
         /\ Len(s) < 448 => Len(Padding(s)) = 512
<1> DEFINE n == Len(s)
           r == n % 512
           k == IF n % CHUNK >= 448 THEN 512 - (n % CHUNK) - 1 + 448 ELSE 448 - (n % CHUNK) - 1
           zeros == [i \in 1 .. k |-> Zero]
           field == PadLeft(Dec_to_Bin(Bits(n)), 64)
           end == Tail512(n)
<1>1. n \in Nat
  BY LenProperties
<1>2. end \in Seq(Byte) /\ Len(end) = IF r >= 448 THEN 1024 - r ELSE 512 - r
  BY <1>1, Tail512Is
<1>3. Padding(s) = s \o end
  <2>1. Padding(s) = ((s \o <<One>>) \o zeros) \o field
    BY DEF Padding
  <2>2. end = (<<One>> \o zeros) \o field
    BY DEF Tail512
  <2>3. k \in Nat
    <3>1. \A l \in Nat : l % CHUNK \in 0 .. 511
      BY DEF CHUNK
    <3>2. n % CHUNK \in 0 .. 511
      BY <1>1, <3>1
    <3> DEFINE rest == n % CHUNK
    <3> HIDE DEF rest
    <3>3. rest \in 0 .. 511
      BY <3>2 DEF rest
    <3>4. (IF rest >= 448 THEN 512 - rest - 1 + 448 ELSE 448 - rest - 1) \in Nat
      BY <3>3
    <3> QED
      BY <3>4 DEF rest
  <2> HIDE DEF k
  <2>4. zeros \in Seq(Byte) /\ <<One>> \in Seq(Byte)
    BY <2>3, ZeroOne, Same
  <2>5. field \in Seq(Byte)
    BY <1>1, LengthField
  <2> HIDE DEF zeros, field, end, n
  <2>6. (s \o <<One>>) \o zeros = s \o (<<One>> \o zeros)
    BY <2>4, ConcatAssociative
  <2>7. <<One>> \o zeros \in Seq(Byte)
    BY <2>4, ConcatProperties
  <2>8. (s \o (<<One>> \o zeros)) \o field = s \o ((<<One>> \o zeros) \o field)
    BY <2>5, <2>7, ConcatAssociative
  <2> QED
    BY <2>1, <2>2, <2>6, <2>8
<1>4. n = 512 * (n \div 512) + r /\ r \in 0 .. 511 /\ n \div 512 \in Nat
  <2>1. \A l \in Nat : l = 512 * (l \div 512) + (l % 512) /\ l % 512 \in 0 .. 511
                       /\ l \div 512 \in Nat
    OBVIOUS
  <2> QED
    BY <1>1, <2>1
<1> HIDE DEF end, r
<1>5. s \o end \in Seq(Byte) /\ Len(s \o end) = n + Len(end)
      /\ \A i \in 1 .. n + Len(end) : (s \o end)[i] = IF i <= n THEN s[i] ELSE end[i - n]
  BY <1>2, ConcatProperties
<1>6. \E m \in Nat : m >= 1 /\ n + Len(end) = 512 * m
  <2> DEFINE q == n \div 512
  <2>1. n + Len(end) = IF r >= 448 THEN 512 * (q + 2) ELSE 512 * (q + 1)
    <3> HIDE DEF n, q
    <3>1. n = 512 * q + r /\ r \in 0 .. 511 /\ q \in Nat
      BY <1>4 DEF q
    <3> QED
      BY <1>2, <3>1
  <2>2. q + 1 \in Nat /\ q + 2 \in Nat /\ q + 1 >= 1 /\ q + 2 >= 1
    BY <1>4
  <2> HIDE DEF q
  <2> QED
    BY <2>1, <2>2
<1>7. n < 448 => n + Len(end) = 512
  <2>1. n < 448 => r = n
    BY <1>1 DEF r
  <2> QED
    BY <1>1, <1>2, <2>1
<1>8. Padding(s) \in Seq(Byte) /\ Len(Padding(s)) = n + Len(end)
  BY <1>3, <1>5
<1>9. \A i \in 1 .. n : Padding(s)[i] = s[i]
  <2>1. \A i \in 1 .. n : i \in 1 .. n + Len(end) /\ i <= n
    BY <1>1, <1>2
  <2> QED
    BY <1>3, <1>5, <2>1
<1>10. \A i \in n + 1 .. n + Len(end) : Padding(s)[i] = end[i - n]
  <2>1. \A i \in n + 1 .. n + Len(end) : i \in 1 .. n + Len(end) /\ ~(i <= n)
    BY <1>1, <1>2
  <2> QED
    BY <1>3, <1>5, <2>1
<1> QED
  BY <1>3, <1>6, <1>7, <1>8, <1>9, <1>10 DEF end
-----------------------------------------------------------------------------
(***************************************************************************)
(* The hash of a string: what it depends on.                               *)
(***************************************************************************)
LEMMA PaddingFront ==
  ASSUME NEW s \in Seq(Byte), NEW i \in 1 .. Len(s)
  PROVE  Padding(s)[i] = s[i]
BY PaddingIs

LEMMA PaddingIsText ==
  ASSUME NEW s \in Seq(Byte)
  PROVE  \E m \in Nat : m >= 1 /\ Len(Padding(s)) = 512 * m /\ Len(Padding(s)) \div CHUNK = m
<1>1. PICK m \in Nat : m >= 1 /\ Len(Padding(s)) = 512 * m
  BY PaddingIs
<1>2. (512 * m) \div 512 = m
  OBVIOUS
<1> QED
  BY <1>1, <1>2 DEF CHUNK

\* Two paddings of the same length, equal in the characters that count: the
\* hashes are equal, whatever words holder had.
LEMMA RunAgrees ==
  ASSUME NEW g, NEW h, NEW s \in Seq(Byte), NEW t \in Seq(Byte),
         Len(Padding(s)) = Len(Padding(t)),
         \A i \in 1 .. Len(Padding(s)) : (i - 1) % 512 < 64 => Padding(s)[i] = Padding(t)[i]
  PROVE  Run_sha(g, s) = Run_sha(h, t)
<1> DEFINE p == Padding(s)
           q == Padding(t)
           D(f) == [i \in 0 .. Len(p) \div CHUNK |->
                     IF i = 0 THEN Reset_sha1(g)
                     ELSE Iterations(f[i - 1], SubSeq(p, CHUNK * (i - 1) + 1, CHUNK * i))]
           E(f) == [i \in 0 .. Len(q) \div CHUNK |->
                     IF i = 0 THEN Reset_sha1(h)
                     ELSE Iterations(f[i - 1], SubSeq(q, CHUNK * (i - 1) + 1, CHUNK * i))]
<1>1. PICK m \in Nat : m >= 1 /\ Len(p) = 512 * m /\ Len(p) \div CHUNK = m
  BY PaddingIsText
<1>2. p \in Seq(Byte) /\ q \in Seq(Byte) /\ Len(q) = 512 * m /\ Len(q) \div CHUNK = m
  BY <1>1, PaddingIs
<1>3. Run_sha(g, s) = (CHOOSE f : f = D(f))[m]
  BY <1>1 DEF Run_sha
<1>4. Run_sha(h, t) = (CHOOSE f : f = E(f))[m]
  BY <1>2 DEF Run_sha
<1>5. \A z \in 1 .. 512 * m : (z - 1) % 512 < 64 => p[z] = q[z]
  BY <1>1
<1> HIDE DEF p, q
<1>6. ASSUME NEW i \in 1 .. m, NEW v
      PROVE  Iterations(v, SubSeq(p, CHUNK * (i - 1) + 1, CHUNK * i))
             = Iterations(v, SubSeq(q, CHUNK * (i - 1) + 1, CHUNK * i))
  <2> DEFINE l == 512 * (i - 1) + 1
             u == 512 * i
             a == SubSeq(p, l, u)
             b == SubSeq(q, l, u)
  <2>1. l \in Int /\ u \in Int /\ u - l + 1 = 512 /\ l >= 1 /\ u <= 512 * m
    OBVIOUS
  <2> HIDE DEF l, u
  <2>3. (\A j \in l .. u : p[j] \in Byte) /\ (\A j \in l .. u : q[j] \in Byte)
    <3>1. \A j \in l .. u : j \in 1 .. 512 * m
      BY <2>1
    <3> QED
      BY <1>1, <1>2, <3>1, ElementOfSeq
  <2>4. \A j \in 1 .. u - l + 1 : a[j] = p[l + j - 1]
    BY <2>1, <2>3, SubSeqProperties
  <2>5. \A j \in 1 .. u - l + 1 : b[j] = q[l + j - 1]
    BY <2>1, <2>3, SubSeqProperties
  <2> HIDE DEF a, b
  <2>6. ASSUME NEW j \in 1 .. 64 PROVE a[j] = b[j]
    <3>1. j \in 1 .. u - l + 1
      BY <2>1
    <3> DEFINE z == l + j - 1
    <3>2. z \in 1 .. 512 * m /\ (z - 1) % 512 < 64
      <4>1. i - 1 \in Nat /\ j - 1 \in 0 .. 63 /\ z - 1 = 512 * (i - 1) + (j - 1)
        BY DEF l
      <4>2. \A k \in Nat : \A r \in 0 .. 63 : (512 * k + r) % 512 = r
        OBVIOUS
      <4>3. (z - 1) % 512 = j - 1
        <5> DEFINE c == i - 1
                   r == j - 1
                   y == z - 1
        <5>1. c \in Nat /\ r \in 0 .. 63 /\ y = 512 * c + r
          BY <4>1
        <5> HIDE DEF c, r, y
        <5>2. (512 * c + r) % 512 = r
          BY <4>2, <5>1
        <5>3. y % 512 = r
          BY <5>1, <5>2
        <5> QED
          BY <5>3 DEF y, r
      <4> QED
        BY <2>1, <4>1, <4>3
    <3>3. a[j] = p[z] /\ b[j] = q[z]
      BY <2>4, <2>5, <3>1
    <3> HIDE DEF z
    <3>4. p[z] = q[z]
      BY <1>5, <3>2
    <3> QED
      BY <3>3, <3>4
  <2>7. Iterations(v, a) = Iterations(v, b)
    BY <2>6, ChunkCounts
  <2> QED
    BY <2>7 DEF CHUNK, a, b, l, u
<1>7. ASSUME NEW f PROVE D(f) = E(f)
  <2>1. Reset_sha1(g) = Reset_sha1(h)
    BY DEF Reset_sha1
  <2>2. \A i \in 0 .. m : i # 0 => i \in 1 .. m
    OBVIOUS
  <2> QED
    BY <1>1, <1>2, <1>6, <2>1, <2>2
<1> HIDE DEF D, E
<1>8. (CHOOSE f : f = D(f)) = (CHOOSE f : f = E(f))
  BY <1>7
<1> QED
  BY <1>3, <1>4, <1>8

\* The words that holder had do not matter.
LEMMA RunForgets ==
  ASSUME NEW g, NEW h, NEW s \in Seq(Byte)
  PROVE  Run_sha(g, s) = Run_sha(h, s)
BY RunAgrees

LEMMA RunHash ==
  ASSUME NEW g, NEW s \in Seq(Byte)
  PROVE  Run_sha(g, s) \in Hash
<1> DEFINE p == Padding(s)
           chunk(i) == SubSeq(p, CHUNK * (i - 1) + 1, CHUNK * i)
           start == Reset_sha1(g)
           n == Len(p) \div CHUNK
           D(f) == [i \in 0 .. n |-> IF i = 0 THEN start ELSE Iterations(f[i - 1], chunk(i))]
           h == CHOOSE f : f = D(f)
           V == [i \in 0 .. n |-> Hash]
           F == [i \in 1 .. n |-> [v \in Hash |-> Iterations(v, chunk(i))]]
<1>1. Run_sha(g, s) = h[n]
  BY DEF Run_sha
<1>2. PICK m \in Nat : m >= 1 /\ Len(p) = 512 * m /\ n = m
  BY PaddingIsText
<1>3. p \in Seq(Byte)
  BY PaddingIs
<1>4. start \in Hash
  <2>1. Reset_sha1(g) \in Seq(Word(32)) /\ Len(Reset_sha1(g)) = 5
    BY Bits32Word DEF Reset_sha1
  <2>2. \A i \in 1 .. 5 : Reset_sha1(g)[i] \in Word(32)
    BY Bits32Word DEF Reset_sha1
  <2>3. Reset_sha1(g) = [i \in 1 .. 5 |-> Reset_sha1(g)[i]]
    BY DEF Reset_sha1
  <2> QED
    BY <2>2, <2>3 DEF Hash
<1> HIDE DEF p, start, n
<1>5. ASSUME NEW i \in 1 .. n PROVE chunk(i) \in Seq(Byte) /\ Len(chunk(i)) >= 64
  <2> DEFINE l == CHUNK * (i - 1) + 1
             u == CHUNK * i
  <2>1. l \in Int /\ u \in Int /\ u - l + 1 = 512 /\ l <= u /\ l >= 1 /\ u <= 512 * m
    BY <1>2 DEF CHUNK
  <2>2. \A j \in l .. u : j \in 1 .. Len(p)
    <3> HIDE DEF l, u
    <3> QED
      BY <1>2, <2>1
  <2> HIDE DEF l, u
  <2>3. \A j \in l .. u : p[j] \in Byte
    BY <1>3, <2>2, ElementOfSeq
  <2>4. SubSeq(p, l, u) \in Seq(Byte) /\ Len(SubSeq(p, l, u)) = 512
    BY <2>1, <2>3, SubSeqProperties
  <2> QED
    BY <2>4 DEF l, u
<1> HIDE DEF chunk
<1>6. ASSUME NEW i \in 1 .. n, NEW v \in Hash PROVE Iterations(v, chunk(i)) \in Hash
  BY <1>5, IterationsHash
<1>7. \A i \in 1 .. n : \A v \in Hash : F[i][v] = Iterations(v, chunk(i))
  OBVIOUS
<1>8. \A i \in 0 .. n : V[i] = Hash
  OBVIOUS
<1>9. \A f : /\ D(f)[0] = start
             /\ \A i \in 1 .. n : D(f)[i] = Iterations(f[i - 1], chunk(i))
  <2>1. 0 \in 0 .. n /\ \A i \in 1 .. n : i \in 0 .. n /\ i # 0
    BY <1>2
  <2> QED
    BY <2>1
<1>10. \A f : D(f) = [i \in 0 .. n |-> IF i = 0 THEN start ELSE Iterations(f[i - 1], chunk(i))]
  OBVIOUS
<1> HIDE DEF V, F, D
<1>11. \E f : f = D(f)
  <2>1. 0 \in Nat /\ n \in Nat /\ 0 <= n /\ 0 + 1 = 1 /\ 0 \in 0 .. n
    BY <1>2
  <2>2. ASSUME NEW x \in 0 + 1 .. n, NEW u \in V[x - 1] PROVE F[x][u] \in V[x]
    <3>1. x \in 1 .. n /\ x - 1 \in 0 .. n /\ x \in 0 .. n
      BY <2>1
    <3> QED
      BY <1>6, <1>7, <1>8, <3>1
  <2>3. start \in V[0]
    BY <1>4, <1>8, <2>1
  <2>4. PICK f : Goes(f, start, F, 0, n) /\ \A x \in 0 .. n : f[x] \in V[x]
    BY <2>1, <2>2, <2>3, StepByStep
  <2>5. [i \in 0 .. n |-> IF i = 0 THEN start ELSE F[i][f[i - 1]]]
        = [i \in 0 .. n |-> IF i = 0 THEN start ELSE Iterations(f[i - 1], chunk(i))]
    <3>1. \A i \in 0 .. n : i # 0 => i \in 1 .. n /\ i - 1 \in 0 .. n
      BY <2>1
    <3>2. \A i \in 0 .. n : i # 0 => F[i][f[i - 1]] = Iterations(f[i - 1], chunk(i))
      BY <1>7, <1>8, <2>4, <3>1
    <3> QED
      BY <3>2
  <2> QED
    BY <1>10, <2>4, <2>5 DEF Goes
<1>12. h = D(h)
  BY <1>11
<1> HIDE DEF h
<1>13. h[0] = start /\ \A i \in 1 .. n : h[i] = Iterations(h[i - 1], chunk(i))
  BY <1>9, <1>12
<1>14. h[n] \in Hash
  <2>1. 0 \in Nat /\ n \in Nat /\ 0 + 1 = 1 /\ n \in 0 .. n /\ 0 \in 0 .. n
    BY <1>2
  <2>2. ASSUME NEW x \in 0 + 1 .. n, h[x - 1] \in V[x - 1] PROVE h[x] \in V[x]
    <3>1. x \in 1 .. n /\ x - 1 \in 0 .. n /\ x \in 0 .. n
      BY <2>1
    <3>2. h[x - 1] \in Hash
      BY <1>8, <2>2, <3>1
    <3>3. h[x] \in Hash
      BY <1>6, <1>13, <3>1, <3>2
    <3> QED
      BY <1>8, <3>1, <3>3
  <2>3. h[0] \in V[0]
    BY <1>4, <1>8, <1>13, <2>1
  <2>4. \A x \in 0 .. n : h[x] \in V[x]
    BY <2>1, <2>2, <2>3, StaysIn
  <2> QED
    BY <1>8, <2>1, <2>4
<1> QED
  BY <1>1, <1>14
-----------------------------------------------------------------------------
(***************************************************************************)
(* The tag: the words of a hash as 40 characters.                          *)
(***************************************************************************)
LEMMA FlattenFive ==
  ASSUME NEW seqs \in Seq(Seq(Byte)), Len(seqs) = 5, \A i \in 1 .. 5 : Len(seqs[i]) = 8
  PROVE  FlattenSeq(seqs) \in Seq(Byte) /\ Len(FlattenSeq(seqs)) = 40
<1> DEFINE D(f) == [i \in 1 .. 5 |-> IF i = 1 THEN seqs[i] ELSE f[i - 1] \o seqs[i]]
           h == CHOOSE f : f = D(f)
           V == [i \in 1 .. 5 |-> {s \in Seq(Byte) : Len(s) = 8 * i}]
           F == [i \in 2 .. 5 |-> [u \in V[i - 1] |-> u \o seqs[i]]]
           b == seqs[1]
<1>1. FlattenSeq(seqs) = h[5]
  BY DEF FlattenSeq
<1>2. \A i \in 1 .. 5 : seqs[i] \in Seq(Byte)
  BY ElementOfSeq
<1>3. \A i \in 1 .. 5 : \A s : s \in V[i] <=> s \in Seq(Byte) /\ Len(s) = 8 * i
  OBVIOUS
<1>4. \A i \in 2 .. 5 : \A u \in V[i - 1] : F[i][u] = u \o seqs[i]
  OBVIOUS
<1>5. b \in V[1]
  BY <1>2, <1>3
<1>6. \A f : D(f) = [i \in 1 .. 5 |-> IF i = 1 THEN b ELSE f[i - 1] \o seqs[i]]
  OBVIOUS
<1>7. \A f : D(f)[1] = b /\ \A i \in 2 .. 5 : D(f)[i] = f[i - 1] \o seqs[i]
  OBVIOUS
<1> HIDE DEF V, F, D, h, b
<1>8. ASSUME NEW i \in 2 .. 5, NEW u \in V[i - 1] PROVE u \o seqs[i] \in V[i]
  <2>1. i - 1 \in 1 .. 5 /\ i \in 1 .. 5 /\ 8 * (i - 1) + 8 = 8 * i
    OBVIOUS
  <2>2. u \in Seq(Byte) /\ Len(u) = 8 * (i - 1)
    BY <1>3, <2>1
  <2>3. seqs[i] \in Seq(Byte) /\ Len(seqs[i]) = 8
    BY <1>2, <2>1
  <2>4. u \o seqs[i] \in Seq(Byte) /\ Len(u \o seqs[i]) = Len(u) + Len(seqs[i])
    BY <2>2, <2>3, ConcatProperties
  <2>5. Len(u \o seqs[i]) = 8 * i
    BY <2>1, <2>2, <2>3, <2>4
  <2> QED
    BY <1>3, <2>1, <2>4, <2>5
<1>9. 1 \in Nat /\ 5 \in Nat /\ 1 <= 5 /\ 1 + 1 = 2 /\ 1 \in 1 .. 5 /\ 5 \in 1 .. 5
  OBVIOUS
<1>10. \E f : f = D(f)
  <2>1. ASSUME NEW x \in 1 + 1 .. 5, NEW u \in V[x - 1] PROVE F[x][u] \in V[x]
    BY <1>4, <1>8, <1>9
  <2>2. PICK f : Goes(f, b, F, 1, 5) /\ \A x \in 1 .. 5 : f[x] \in V[x]
    BY <1>5, <1>9, <2>1, StepByStep
  <2>3. [i \in 1 .. 5 |-> IF i = 1 THEN b ELSE F[i][f[i - 1]]]
        = [i \in 1 .. 5 |-> IF i = 1 THEN b ELSE f[i - 1] \o seqs[i]]
    <3>1. \A i \in 1 .. 5 : i # 1 => i \in 2 .. 5 /\ i - 1 \in 1 .. 5
      OBVIOUS
    <3>2. \A i \in 1 .. 5 : i # 1 => F[i][f[i - 1]] = f[i - 1] \o seqs[i]
      BY <1>4, <2>2, <3>1
    <3> QED
      BY <3>2
  <2> QED
    BY <1>6, <2>2, <2>3 DEF Goes
<1>11. h = D(h)
  BY <1>10 DEF h
<1>12. h[1] = b /\ \A i \in 2 .. 5 : h[i] = h[i - 1] \o seqs[i]
  BY <1>7, <1>11
<1>13. h[5] \in V[5]
  <2>1. ASSUME NEW x \in 1 + 1 .. 5, h[x - 1] \in V[x - 1] PROVE h[x] \in V[x]
    BY <1>8, <1>9, <1>12, <2>1
  <2>2. \A x \in 1 .. 5 : h[x] \in V[x]
    BY <1>5, <1>9, <1>12, <2>1, StaysIn
  <2> QED
    BY <1>9, <2>2
<1> QED
  BY <1>1, <1>3, <1>9, <1>13

LEMMA HexDigitsAre == ASSUME NEW n \in 0 .. 15 PROVE At(HexDigits, n) \in Byte
<1> DEFINE s == [i \in 1 .. 16 |-> HexDigit(i - 1)]
<1>1. ASSUME NEW i \in 1 .. 16 PROVE HexDigit(i - 1) \in Byte
  <2>1. 48 + (i - 1) \in 0 .. 255 /\ 87 + (i - 1) \in 0 .. 255
    OBVIOUS
  <2> QED
    BY <2>1, BitsOf DEF HexDigit
<1>2. s \in Seq(Byte)
  BY <1>1
<1>3. HexDigits = Tuple(s)
  BY DEF HexDigits
<1>4. \A i \in 1 .. 16 : s[i] \in Byte
  BY <1>1
<1> HIDE DEF s
<1>5. HexDigits = s
  BY <1>2, <1>3, TupleIs
<1>6. n + 1 \in 1 .. 16
  OBVIOUS
<1> QED
  BY <1>4, <1>5, <1>6 DEF At

\* A word has eight digits.
LEMMA EightDigits ==
  ASSUME NEW s \in Seq(Byte), Len(s) \in 1 .. 32
  PROVE  Bin_to_Hex(s) \in Seq(Byte) /\ Len(Bin_to_Hex(s)) = 8
<1> DEFINE p == PadLeft(s, 4)
           bit(i) == IF p[i] = One THEN 1 ELSE 0
           n(x) == 8 * bit(4 * x - 3) + 4 * bit(4 * x - 2) + 2 * bit(4 * x - 1) + bit(4 * x)
           k == Len(p) \div 4
           t == [x \in 1 .. k |-> At(HexDigits, n(x))]
<1>1. Bin_to_Hex(s) = PadLeft(t, 8)
  BY DEF Bin_to_Hex
<1>2. Len(p) \in 1 .. 32 /\ Len(p) % 4 = 0
  <2>1. Len(p) = ((4 - (Len(s) % 4)) % 4) + Len(s)
    BY PadLeftIs
  <2>2. \A l \in 1 .. 32 : /\ ((4 - (l % 4)) % 4) + l \in 1 .. 32
                           /\ (((4 - (l % 4)) % 4) + l) % 4 = 0
    OBVIOUS
  <2> HIDE DEF p
  <2> QED
    BY <2>1, <2>2
<1>3. k \in 1 .. 8
  <2>1. \A l \in 1 .. 32 : l % 4 = 0 => l \div 4 \in 1 .. 8
    OBVIOUS
  <2> HIDE DEF p
  <2> QED
    BY <1>2, <2>1
<1>4. \A i : bit(i) \in {0, 1}
  OBVIOUS
<1> HIDE DEF bit, k, p
<1>5. \A x : n(x) \in 0 .. 15
  BY <1>4
<1> HIDE DEF n
<1>6. \A x \in 1 .. k : At(HexDigits, n(x)) \in Byte
  BY <1>5, HexDigitsAre
<1>7. t \in Seq(Byte) /\ Len(t) = k
  BY <1>3, <1>6
<1> HIDE DEF t
<1>8. ((8 - (Len(t) % 8)) % 8) + Len(t) = 8
  <2>1. \A l \in 1 .. 8 : ((8 - (l % 8)) % 8) + l = 8
    OBVIOUS
  <2> QED
    BY <1>3, <1>7, <2>1
<1>9. PadLeft(t, 8) \in Seq(Byte) /\ Len(PadLeft(t, 8)) = ((8 - (Len(t) % 8)) % 8) + Len(t)
  BY <1>7, PadLeftIs
<1> QED
  BY <1>1, <1>8, <1>9

LEMMA HashString ==
  ASSUME NEW holder \in Hash
  PROVE  Hash_string(holder) \in Seq(Byte) /\ Len(Hash_string(holder)) = 40
<1> DEFINE e(i) == Bin_to_Hex(Dec_to_Bin(Circle_shift_uint(32 * (5 - i), holder[i])))
           seqs == [i \in 1 .. 5 |-> e(i)]
<1>1. ASSUME NEW i \in 1 .. 5 PROVE e(i) \in Seq(Byte) /\ Len(e(i)) = 8
  <2> DEFINE word == Circle_shift_uint(32 * (5 - i), holder[i])
  <2>1. holder[i] \in Word(32) /\ 32 * (5 - i) \in Nat
    BY DEF Hash
  <2>2. word \in SUBSET (0 .. 31)
    BY <2>1, RotlWord DEF Circle_shift_uint, Word
  <2> HIDE DEF word
  <2>3. 31 \in Nat /\ 31 + 1 = 32
    OBVIOUS
  <2>4. Dec_to_Bin(word) \in Seq(Byte) /\ Len(Dec_to_Bin(word)) \in 1 .. 32
    BY <2>2, <2>3, DigitsOfWord
  <2>5. Bin_to_Hex(Dec_to_Bin(word)) \in Seq(Byte) /\ Len(Bin_to_Hex(Dec_to_Bin(word))) = 8
    BY <2>4, EightDigits
  <2> QED
    BY <2>5 DEF word
<1>2. Hash_string(holder) = FlattenSeq(seqs)
  BY DEF Hash_string
<1> HIDE DEF e
<1>3. seqs \in Seq(Seq(Byte)) /\ Len(seqs) = 5 /\ \A i \in 1 .. 5 : Len(seqs[i]) = 8
  BY <1>1
<1> HIDE DEF seqs
<1> QED
  BY <1>2, <1>3, FlattenFive
-----------------------------------------------------------------------------
(***************************************************************************)
(* The tag of create_HMAC.                                                 *)
(***************************************************************************)
LEMMA ConvertBinary ==
  ASSUME NEW s \in Seq(Byte)
  PROVE  /\ Convert_binary(s) \in Seq(Byte) /\ Len(Convert_binary(s)) = 8 * Len(s)
         /\ \A i \in 1 .. 8 * Len(s) : Convert_binary(s)[i] =
              IF 7 - ((i - 1) % 8) \in s[(i - 1) \div 8 + 1] THEN One ELSE Zero
<1> DEFINE n == 8 * Len(s)
           d(i) == IF 7 - ((i - 1) % 8) \in s[(i - 1) \div 8 + 1] THEN One ELSE Zero
           t == [i \in 1 .. n |-> d(i)]
<1>1. Convert_binary(s) = Tuple(t)
  BY DEF Convert_binary
<1>2. n \in Nat
  OBVIOUS
<1>3. \A i : d(i) \in Byte
  BY ZeroOne
<1> HIDE DEF d, n
<1>4. t \in Seq(Byte) /\ Len(t) = n /\ \A i \in 1 .. n : t[i] = d(i)
  BY <1>2, <1>3
<1> HIDE DEF t
<1>5. Convert_binary(s) = t
  BY <1>1, <1>4, TupleIs
<1> QED
  BY <1>4, <1>5 DEF n, d

LEMMA XorString ==
  ASSUME NEW s \in Seq(Byte), NEW t
  PROVE  /\ Xor_string(s, t) \in Seq(Byte) /\ Len(Xor_string(s, t)) = Len(s)
         /\ \A i \in 1 .. Len(s) : Xor_string(s, t)[i] = IF s[i] = t[i] THEN Zero ELSE One
<1> DEFINE n == Len(s)
           x == [i \in 1 .. n |-> IF s[i] = t[i] THEN Zero ELSE One]
<1>1. Xor_string(s, t) = Tuple(x)
  BY DEF Xor_string
<1>2. n \in Nat
  OBVIOUS
<1>3. x \in Seq(Byte) /\ Len(x) = n /\ \A i \in 1 .. n : x[i] = IF s[i] = t[i] THEN Zero ELSE One
  <2> HIDE DEF n
  <2> QED
    BY <1>2, ZeroOne
<1> HIDE DEF x
<1>4. Xor_string(s, t) = x
  BY <1>1, <1>3, TupleIs
<1> QED
  BY <1>3, <1>4

LEMMA HexToBin ==
  ASSUME NEW s \in Seq(Byte)
  PROVE  Hex_to_Bin(s) \in Seq(Byte)
<1> DEFINE digit(c) == CHOOSE n \in 0 .. 15 : At(HexDigits, n) = c
           d(i) == IF 3 - ((i - 1) % 4) \in Bits(digit(s[(i - 1) \div 4 + 1])) THEN One ELSE Zero
           n == 4 * Len(s)
           t == [i \in 1 .. n |-> d(i)]
<1>1. Hex_to_Bin(s) = Tuple(t)
  BY DEF Hex_to_Bin
<1>2. n \in Nat
  OBVIOUS
<1>3. \A i : d(i) \in Byte
  BY ZeroOne
<1> HIDE DEF d, n
<1>4. t \in Seq(Byte)
  BY <1>2, <1>3
<1> QED
  BY <1>1, <1>4, TupleIs

\* Two strings begin with the same n characters.
Agree(s, t, n) == \A i \in 1 .. n : s[i] = t[i]

LEMMA SmallRemainder == \A k \in 0 .. 511 : k % 512 = k
OBVIOUS

\* Two keys of one chunk that begin with the same 64 characters hash alike.
LEMMA LongKeys ==
  ASSUME NEW g, NEW h, NEW c \in Seq(Byte), NEW d \in Seq(Byte),
         64 <= Len(c), Len(c) < 448, 64 <= Len(d), Len(d) < 448,
         Agree(c, d, 64)
  PROVE  Run_sha(g, c) = Run_sha(h, d)
<1>1. Len(Padding(c)) = 512 /\ Len(Padding(d)) = 512
  BY PaddingIs
<1>2. ASSUME NEW i \in 1 .. 512, (i - 1) % 512 < 64
      PROVE  Padding(c)[i] = Padding(d)[i]
  <2>1. i \in 1 .. 64
    <3>2. i - 1 \in 0 .. 511
      OBVIOUS
    <3>3. (i - 1) % 512 = i - 1
      BY <3>2, SmallRemainder
    <3> QED
      BY <1>2, <3>3
  <2>2. i \in 1 .. Len(c) /\ i \in 1 .. Len(d)
    BY <2>1
  <2>3. Padding(c)[i] = c[i] /\ Padding(d)[i] = d[i]
    BY <2>2, PaddingIs
  <2> QED
    BY <2>1, <2>3 DEF Agree
<1>3. \A i \in 1 .. Len(Padding(c)) : (i - 1) % 512 < 64 => Padding(c)[i] = Padding(d)[i]
  BY <1>1, <1>2
<1>4. Len(Padding(c)) = Len(Padding(d))
  BY <1>1
<1> QED
  BY <1>3, <1>4, RunAgrees

\* p is the padding of m behind a key k of z characters.
Keyed(p, k, m, z, n) ==
  /\ Len(p) = n + Len(Tail512(n))
  /\ \A i \in 1 .. z : p[i] = k[i]
  /\ \A i \in z + 1 .. n : p[i] = m[i - z]
  /\ \A i \in n + 1 .. Len(p) : p[i] = Tail512(n)[i - n]

LEMMA KeyedPadding ==
  ASSUME NEW k \in Seq(Byte), NEW m \in Seq(Byte), NEW z \in Nat, Len(k) = z,
         NEW n, n = z + Len(m)
  PROVE  k \o m \in Seq(Byte) /\ Keyed(Padding(k \o m), k, m, z, n)
<1> DEFINE s == k \o m
           p == Padding(s)
<1>1. n \in Nat /\ n >= z
  BY LenProperties
<1>2. s \in Seq(Byte) /\ Len(s) = n
  BY ConcatProperties
<1>3. \A i \in 1 .. n : s[i] = IF i <= z THEN k[i] ELSE m[i - z]
  BY ConcatProperties
<1> HIDE DEF s
<1>4. Len(p) = n + Len(Tail512(n))
  BY <1>2, PaddingIs
<1>5. \A i \in 1 .. n : p[i] = s[i]
  <2>1. \A i \in 1 .. Len(s) : p[i] = s[i]
    BY <1>2, PaddingFront
  <2> QED
    BY <1>2, <2>1
<1>6. \A i \in n + 1 .. Len(p) : p[i] = Tail512(n)[i - n]
  <2>1. \A i \in Len(s) + 1 .. Len(p) : p[i] = Tail512(Len(s))[i - Len(s)]
    BY <1>2, PaddingIs
  <2> QED
    BY <1>2, <2>1
<1> HIDE DEF p
<1>7. ASSUME NEW i \in 1 .. z PROVE p[i] = k[i]
  BY <1>1, <1>3, <1>5
<1>8. ASSUME NEW i \in z + 1 .. n PROVE p[i] = m[i - z]
  BY <1>1, <1>3, <1>5
<1> QED
  BY <1>2, <1>4, <1>6, <1>7, <1>8 DEF Keyed, p, s

\* Of the first z characters no more than 64 count.
Single(z) == \A i \in 1 .. z : (i - 1) % 512 < 64 => i \in 1 .. 64

LEMMA OneChunk == Single(512)
<1> SUFFICES ASSUME NEW i \in 1 .. 512, (i - 1) % 512 < 64 PROVE i \in 1 .. 64
  BY DEF Single
<1>1. i - 1 \in 0 .. 511
  OBVIOUS
<1>2. (i - 1) % 512 = i - 1
  BY <1>1, SmallRemainder
<1> QED
  BY <1>2

LEMMA SameFront ==
  ASSUME NEW g, NEW h, NEW k \in Seq(Byte), NEW l \in Seq(Byte), NEW m \in Seq(Byte),
         NEW z \in Nat, Single(z), Len(k) = z, Len(l) = z, Agree(k, l, 64)
  PROVE  Run_sha(g, k \o m) = Run_sha(h, l \o m)
<1> DEFINE s == k \o m
           t == l \o m
           p == Padding(s)
           q == Padding(t)
           n == z + Len(m)
<1>1. n \in Nat /\ n >= z
  BY LenProperties
<1>2. s \in Seq(Byte) /\ Keyed(p, k, m, z, n)
  BY KeyedPadding
<1>3. t \in Seq(Byte) /\ Keyed(q, l, m, z, n)
  BY KeyedPadding
<1>4. Len(p) \in Nat
  BY <1>2, PaddingIs, LenProperties
<1>5. Len(p) = Len(q)
  BY <1>2, <1>3 DEF Keyed
<1> HIDE DEF s, t, n, p, q
<1>6. ASSUME NEW i \in 1 .. Len(p), (i - 1) % 512 < 64
      PROVE  p[i] = q[i]
  <2>1. CASE i <= z
    <3>1. i \in 1 .. z
      BY <1>4, <2>1
    <3>2. i \in 1 .. 64
      BY <1>6, <3>1 DEF Single
    <3>3. k[i] = l[i]
      BY <3>2 DEF Agree
    <3> QED
      BY <1>2, <1>3, <3>1, <3>3 DEF Keyed
  <2>2. CASE i > z /\ i <= n
    <3>1. i \in z + 1 .. n
      BY <1>1, <1>4, <2>2
    <3> QED
      BY <1>2, <1>3, <3>1 DEF Keyed
  <2>3. CASE i > n
    <3>1. i \in n + 1 .. Len(p)
      BY <1>1, <1>4, <2>3
    <3>2. p[i] = Tail512(n)[i - n]
      BY <1>2, <3>1 DEF Keyed
    <3>3. q[i] = Tail512(n)[i - n]
      BY <1>3, <1>5, <3>1 DEF Keyed
    <3> QED
      BY <3>2, <3>3
  <2> QED
    BY <1>1, <1>4, <2>1, <2>2, <2>3
<1>7. Run_sha(g, s) = Run_sha(h, t)
  BY <1>2, <1>3, <1>5, <1>6, RunAgrees DEF p, q
<1> QED
  BY <1>7 DEF s, t

\* The bits of a key of 64 characters or fewer.
LEMMA KeyBitsAre ==
  ASSUME NEW c \in Seq(Byte), Len(c) <= 64
  PROVE  /\ KeyBits(c) \in Seq(Byte) /\ Len(KeyBits(c)) = 512
         /\ \A i \in 1 .. 8 * Len(c) : KeyBits(c)[i] = Convert_binary(c)[i]
<1> DEFINE bin == Convert_binary(c)
           n == 8 * Len(c)
           k == 8 * byte_length - Len(bin)
           zeros == [i \in 1 .. k |-> Zero]
<1>1. bin \in Seq(Byte) /\ Len(bin) = n
  BY ConvertBinary
<1>2. n \in Nat /\ k \in Nat /\ n + k = 512
  BY <1>1, LenProperties DEF byte_length
<1> HIDE DEF k
<1>3. zeros \in Seq(Byte) /\ Len(zeros) = k
  BY <1>2, ZeroOne, Same
<1>4. KeyBits(c) = bin \o zeros
  BY DEF KeyBits, k
<1> HIDE DEF bin, zeros, n
<1>5. bin \o zeros \in Seq(Byte) /\ Len(bin \o zeros) = n + k
  BY <1>1, <1>3, ConcatProperties
<1>6. \A i \in 1 .. n + k : (bin \o zeros)[i] = IF i <= n THEN bin[i] ELSE zeros[i - n]
  BY <1>1, <1>3, ConcatProperties
<1>7. \A i \in 1 .. n : i \in 1 .. n + k /\ i <= n
  BY <1>2
<1>8. \A i \in 1 .. n : (bin \o zeros)[i] = bin[i]
  BY <1>6, <1>7
<1>9. Len(bin \o zeros) = 512
  BY <1>2, <1>5
<1> QED
  BY <1>4, <1>5, <1>8, <1>9 DEF n, bin

LEMMA KeyBitsFill ==
  ASSUME NEW c \in Seq(Byte), Len(c) <= byte_length
  PROVE  KeyBits(c) \in Seq(Byte) /\ Len(KeyBits(c)) = 8 * byte_length
BY KeyBitsAre DEF byte_length

LEMMA BitPlace == \A i \in 1 .. 64 : (i - 1) \div 8 + 1 \in 1 .. 40 /\ i \in 1 .. 8 * 64
OBVIOUS

\* One bit of a key.
LEMMA KeyBit ==
  ASSUME NEW c \in Seq(Byte), Len(c) <= 64, NEW i \in 1 .. 8 * Len(c)
  PROVE  KeyBits(c)[i] = IF 7 - ((i - 1) % 8) \in c[(i - 1) \div 8 + 1] THEN One ELSE Zero
<1>1. KeyBits(c)[i] = Convert_binary(c)[i]
  BY KeyBitsAre
<1>2. Convert_binary(c)[i] = IF 7 - ((i - 1) % 8) \in c[(i - 1) \div 8 + 1] THEN One ELSE Zero
  BY ConvertBinary
<1> QED
  BY <1>1, <1>2

\* Keys that agree in 40 characters agree in 64 bits.
LEMMA KeyBitsAgree ==
  ASSUME NEW c \in Seq(Byte), NEW d \in Seq(Byte), Len(c) = 64, Len(d) = 64, Agree(c, d, 40)
  PROVE  Agree(KeyBits(c), KeyBits(d), 64)
<1>1. ASSUME NEW i \in 1 .. 64 PROVE KeyBits(c)[i] = KeyBits(d)[i]
  <2> DEFINE r == 7 - ((i - 1) % 8)
             j == (i - 1) \div 8 + 1
  <2>1. j \in 1 .. 40 /\ i \in 1 .. 8 * 64
    BY BitPlace
  <2>2. KeyBits(c)[i] = IF r \in c[j] THEN One ELSE Zero
    <3>1. Len(c) <= 64 /\ i \in 1 .. 8 * Len(c)
      BY <2>1
    <3> QED
      BY <3>1, KeyBit
  <2>3. KeyBits(d)[i] = IF r \in d[j] THEN One ELSE Zero
    <3>1. Len(d) <= 64 /\ i \in 1 .. 8 * Len(d)
      BY <2>1
    <3> QED
      BY <3>1, KeyBit
  <2> HIDE DEF r, j
  <2>4. c[j] = d[j]
    BY <2>1 DEF Agree
  <2> QED
    BY <2>2, <2>3, <2>4
<1> QED
  BY <1>1 DEF Agree

LEMMA XorAgrees ==
  ASSUME NEW s \in Seq(Byte), NEW t \in Seq(Byte), NEW n \in Nat, n <= Len(s), n <= Len(t),
         Agree(s, t, n), NEW u
  PROVE  Agree(Xor_string(s, u), Xor_string(t, u), n)
<1>1. ASSUME NEW i \in 1 .. n PROVE Xor_string(s, u)[i] = Xor_string(t, u)[i]
  <2>1. i \in 1 .. Len(s) /\ i \in 1 .. Len(t)
    BY LenProperties
  <2>2. Xor_string(s, u)[i] = IF s[i] = u[i] THEN Zero ELSE One
    BY <2>1, XorString
  <2>3. Xor_string(t, u)[i] = IF t[i] = u[i] THEN Zero ELSE One
    BY <2>1, XorString
  <2>4. s[i] = t[i]
    BY DEF Agree
  <2> QED
    BY <2>2, <2>3, <2>4
<1> QED
  BY <1>1 DEF Agree

\* The first z characters of two strings, the first one shorter than that.
LEMMA FrontOf ==
  ASSUME NEW a \in Seq(Byte), NEW b \in Seq(Byte), NEW z \in Nat,
         Len(a) <= z, z <= Len(a) + Len(b)
  PROVE  /\ SubSeq(a \o b, 1, z) \in Seq(Byte) /\ Len(SubSeq(a \o b, 1, z)) = z
         /\ Agree(SubSeq(a \o b, 1, z), a, Len(a))
<1> DEFINE s == a \o b
           t == SubSeq(s, 1, z)
           n == Len(a)
<1>1. n \in Nat /\ Len(b) \in Nat
  BY LenProperties
<1>2. s \in Seq(Byte) /\ Len(s) = n + Len(b)
  BY ConcatProperties
<1>3. \A i \in 1 .. n + Len(b) : s[i] = IF i <= n THEN a[i] ELSE b[i - n]
  BY ConcatProperties
<1> HIDE DEF s, n
<1>4. \A i \in 1 .. z : s[i] \in Byte
  <2>1. \A i \in 1 .. z : i \in 1 .. Len(s)
    BY <1>1, <1>2 DEF n
  <2> QED
    BY <1>2, <2>1, ElementOfSeq
<1>5. 1 \in Int /\ z \in Int
  OBVIOUS
<1>6. t \in Seq(Byte)
  BY <1>4, <1>5, SubSeqProperties
<1>7. Len(t) = IF 1 <= z THEN z - 1 + 1 ELSE 0
  BY <1>4, <1>5, SubSeqProperties
<1>8. \A i \in 1 .. z - 1 + 1 : t[i] = s[1 + i - 1]
  BY <1>4, <1>5, SubSeqProperties
<1> HIDE DEF t
<1>9. Len(t) = z
  BY <1>7
<1>10. ASSUME NEW i \in 1 .. n PROVE t[i] = a[i]
  <2>1. i \in 1 .. z - 1 + 1 /\ 1 + i - 1 = i /\ i \in 1 .. n + Len(b) /\ i <= n
    BY <1>1 DEF n
  <2>2. t[i] = s[i]
    BY <1>8, <2>1
  <2>3. s[i] = a[i]
    BY <1>3, <2>1
  <2> QED
    BY <2>2, <2>3
<1> QED
  BY <1>6, <1>9, <1>10 DEF Agree, t, s, n

\* A long key is replaced by 64 characters, the first 40 of which are a hash.
LEMMA RefurbishedIs ==
  ASSUME NEW h1 \in Hash, NEW h2 \in Hash
  PROVE  /\ Refurbished(h1, h2) \in Seq(Byte) /\ Len(Refurbished(h1, h2)) = 64
         /\ Agree(Refurbished(h1, h2), Hash_string(h1), 40)
<1> DEFINE a == Hash_string(h1)
           b == Hash_string(h2)
<1>1. Refurbished(h1, h2) = SubSeq(a \o b, 1, 64)
  BY DEF Refurbished, byte_length
<1>2. a \in Seq(Byte) /\ Len(a) = 40 /\ b \in Seq(Byte) /\ Len(b) = 40
  BY HashString
<1> HIDE DEF a, b
<1>3. 64 \in Nat /\ Len(a) <= 64 /\ 64 <= Len(a) + Len(b)
  BY <1>2
<1>4. /\ SubSeq(a \o b, 1, 64) \in Seq(Byte) /\ Len(SubSeq(a \o b, 1, 64)) = 64
      /\ Agree(SubSeq(a \o b, 1, 64), a, Len(a))
  BY <1>2, <1>3, FrontOf
<1> QED
  BY <1>1, <1>2, <1>4 DEF a

LEMMA PadsAre ==
  /\ Ipad \in Seq(Byte) /\ Opad \in Seq(Byte)
<1>1. \h36 \in 0 .. 255 /\ \h5C \in 0 .. 255
  OBVIOUS
<1>2. Bits(\h36) \in Byte /\ Bits(\h5C) \in Byte
  BY <1>1, BitsOf
<1>3. byte_length \in Nat
  BY DEF byte_length
<1>4. [i \in 1 .. byte_length |-> Bits(\h36)] \in Seq(Byte)
  BY <1>2, <1>3, Same
<1>5. [i \in 1 .. byte_length |-> Bits(\h5C)] \in Seq(Byte)
  BY <1>2, <1>3, Same
<1> QED
  BY <1>4, <1>5, ConvertBinary DEF Ipad, Opad

\* The bits of the key string as create_HMAC uses it, and the words it has then.
Kept(holder, c) ==
  LET h1 == Run_sha(holder, c)
      h2 == Run_sha(h1, Hash_string(h1) \o c)
  IN  KeyBits(IF Len(c) <= byte_length THEN c ELSE Refurbished(h1, h2))

\* The words in holder do not count.
LEMMA TagIs ==
  ASSUME NEW holder, NEW message, NEW c
  PROVE  \E h : Create_HMAC(holder, message, c) = Tagged(h, Kept(holder, c), message)
BY DEF Create_HMAC, Shortened, Rehashed, Kept

LEMMA KeptIs ==
  ASSUME NEW holder, NEW c \in Seq(Byte)
  PROVE  Kept(holder, c) \in Seq(Byte) /\ Len(Kept(holder, c)) = 8 * byte_length
<1>1. CASE Len(c) <= 64
  <2>1. Len(c) <= byte_length
    BY <1>1 DEF byte_length
  <2>2. Kept(holder, c) = KeyBits(c)
    BY <2>1 DEF Kept
  <2> QED
    BY <2>1, <2>2, KeyBitsFill
<1>2. CASE ~(Len(c) <= 64)
  <2> DEFINE h1 == Run_sha(holder, c)
             h2 == Run_sha(h1, Hash_string(h1) \o c)
             r == Refurbished(h1, h2)
  <2>1. ~(Len(c) <= byte_length)
    BY <1>2 DEF byte_length
  <2>2. Kept(holder, c) = KeyBits(r)
    BY <2>1 DEF Kept
  <2>3. h1 \in Hash
    BY RunHash
  <2> HIDE DEF h1
  <2>4. Hash_string(h1) \o c \in Seq(Byte)
    BY <2>3, HashString, ConcatProperties
  <2>5. h2 \in Hash
    BY <2>4, RunHash
  <2> HIDE DEF h2
  <2>6. r \in Seq(Byte) /\ Len(r) = 64
    BY <1>2, <2>3, <2>5, RefurbishedIs
  <2> HIDE DEF r
  <2>7. Len(r) <= byte_length
    BY <2>6 DEF byte_length
  <2>8. KeyBits(r) \in Seq(Byte) /\ Len(KeyBits(r)) = 8 * byte_length
    BY <2>6, <2>7, KeyBitsFill
  <2> QED
    BY <2>2, <2>8
<1> QED
  BY <1>1, <1>2

\* Key strings that are equal or, longer than byte_length, begin alike.
SameToHash(c, d) ==
  \/ c = d
  \/ /\ ~(Len(c) <= 64) /\ Len(c) < 448 /\ ~(Len(d) <= 64) /\ Len(d) < 448
     /\ Agree(c, d, 64)

LEMMA KeptAgree ==
  ASSUME NEW g, NEW h, NEW c \in Seq(Byte), NEW d \in Seq(Byte), SameToHash(c, d)
  PROVE  Agree(Kept(g, c), Kept(h, d), 64)
<1>1. CASE c = d /\ Len(c) <= 64
  <2>1. Len(c) <= byte_length
    BY <1>1 DEF byte_length
  <2>2. Kept(g, c) = KeyBits(c) /\ Kept(h, d) = KeyBits(c)
    BY <1>1, <2>1 DEF Kept
  <2> QED
    BY <2>2 DEF Agree
<1>2. CASE ~(Len(c) <= 64)
  <2> DEFINE h1 == Run_sha(g, c)
             h2 == Run_sha(h1, Hash_string(h1) \o c)
             g2 == Run_sha(h1, Hash_string(h1) \o d)
             r == Refurbished(h1, h2)
             s == Refurbished(h1, g2)
  <2>1. ~(Len(d) <= 64)
    BY <1>2 DEF SameToHash
  <2>2. Run_sha(h, d) = h1
    <3>1. CASE c = d
      BY <3>1, RunForgets
    <3>2. CASE c # d
      <4>1. 64 <= Len(c) /\ Len(c) < 448 /\ 64 <= Len(d) /\ Len(d) < 448 /\ Agree(c, d, 64)
        BY <1>2, <2>1, <3>2, LenProperties DEF SameToHash
      <4> QED
        BY <4>1, LongKeys
    <3> QED
      BY <3>1, <3>2
  <2>3. ~(Len(c) <= byte_length) /\ ~(Len(d) <= byte_length)
    BY <1>2, <2>1 DEF byte_length
  <2>4. Kept(g, c) = KeyBits(r) /\ Kept(h, d) = KeyBits(s)
    BY <2>2, <2>3 DEF Kept
  <2>5. h1 \in Hash
    BY RunHash
  <2> HIDE DEF h1
  <2>6. Hash_string(h1) \o c \in Seq(Byte) /\ Hash_string(h1) \o d \in Seq(Byte)
    BY <2>5, HashString, ConcatProperties
  <2>7. h2 \in Hash /\ g2 \in Hash
    BY <2>6, RunHash
  <2> HIDE DEF h2, g2
  <2>8. r \in Seq(Byte) /\ Len(r) = 64 /\ Agree(r, Hash_string(h1), 40)
    BY <1>2, <2>5, <2>7, RefurbishedIs
  <2>9. s \in Seq(Byte) /\ Len(s) = 64 /\ Agree(s, Hash_string(h1), 40)
    BY <2>1, <2>5, <2>7, RefurbishedIs
  <2> HIDE DEF r, s
  <2>10. Agree(r, s, 40)
    BY <2>8, <2>9 DEF Agree
  <2>11. Agree(KeyBits(r), KeyBits(s), 64)
    BY <2>8, <2>9, <2>10, KeyBitsAgree
  <2> QED
    BY <2>4, <2>11
<1> QED
  BY <1>1, <1>2 DEF SameToHash

(***************************************************************************)
(* The words in which a hash starts do not count (sha1.cpp:90-94), and of  *)
(* two key strings of one chunk no more than the first 64 characters do    *)
(* (hmac.cpp:25): the tags are the same.                                   *)
(***************************************************************************)
THEOREM SameKeySameTag ==
  ASSUME NEW g, NEW h, NEW message \in Seq(Byte),
         NEW c \in Seq(Byte), NEW d \in Seq(Byte), SameToHash(c, d)
  PROVE  Create_HMAC(g, message, c) = Create_HMAC(h, message, d)
<1> DEFINE k == Kept(g, c)
           l == Kept(h, d)
<1>1. PICK g2 : Create_HMAC(g, message, c) = Tagged(g2, k, message)
  BY TagIs
<1>2. PICK h2 : Create_HMAC(h, message, d) = Tagged(h2, l, message)
  BY TagIs
<1>3. k \in Seq(Byte) /\ Len(k) = 512 /\ l \in Seq(Byte) /\ Len(l) = 512 /\ Agree(k, l, 64)
  <2>1. k \in Seq(Byte) /\ Len(k) = 8 * byte_length /\ l \in Seq(Byte) /\ Len(l) = 8 * byte_length
    BY KeptIs
  <2>2. 8 * byte_length = 512
    BY DEF byte_length
  <2> QED
    BY <2>1, <2>2, KeptAgree
<1> HIDE DEF k, l
<1>4. ASSUME NEW u \in Seq(Byte), NEW m \in Seq(Byte), NEW a, NEW b
      PROVE  Run_sha(a, Xor_string(k, u) \o m) = Run_sha(b, Xor_string(l, u) \o m)
  <2> DEFINE z == 512
             n == 64
             x == Xor_string(k, u)
             y == Xor_string(l, u)
  <2>1. z \in Nat /\ n \in Nat /\ n <= z /\ Single(z)
    BY OneChunk
  <2>2. Len(k) = z /\ Len(l) = z /\ Agree(k, l, n)
    BY <1>3
  <2>3. \A s, t : Agree(s, t, n) <=> Agree(s, t, 64)
    OBVIOUS
  <2> HIDE DEF z, n
  <2>4. n <= Len(k) /\ n <= Len(l)
    BY <2>1, <2>2
  <2>5. x \in Seq(Byte) /\ Len(x) = z
    BY <1>3, <2>2, XorString
  <2>6. y \in Seq(Byte) /\ Len(y) = z
    BY <1>3, <2>2, XorString
  <2>7. Agree(x, y, n)
    BY <1>3, <2>1, <2>2, <2>4, XorAgrees
  <2> HIDE DEF x, y
  <2>8. Agree(x, y, 64)
    BY <2>3, <2>7
  <2>9. Run_sha(a, x \o m) = Run_sha(b, y \o m)
    BY <2>1, <2>5, <2>6, <2>8, SameFront
  <2> QED
    BY <2>9 DEF x, y
<1>5. Convert_binary(message) \in Seq(Byte)
  BY ConvertBinary
<1> DEFINE g3 == Run_sha(g2, Xor_string(k, Ipad) \o Convert_binary(message))
           h3 == Run_sha(h2, Xor_string(l, Ipad) \o Convert_binary(message))
           bin == Hex_to_Bin(Hash_string(g3))
<1>6. g3 = h3
  BY <1>4, <1>5, PadsAre
<1>7. bin \in Seq(Byte)
  <2>1. Xor_string(k, Ipad) \o Convert_binary(message) \in Seq(Byte)
    BY <1>3, <1>5, XorString, ConcatProperties
  <2>2. g3 \in Hash
    BY <2>1, RunHash
  <2> HIDE DEF g3
  <2> QED
    BY <2>2, HashString, HexToBin
<1>8. Run_sha(g3, Xor_string(k, Opad) \o bin) = Run_sha(h3, Xor_string(l, Opad) \o bin)
  <2> HIDE DEF bin, g3, h3
  <2> QED
    BY <1>4, <1>7, PadsAre
<1>9. Tagged(g2, k, message) = Run_sha(g3, Xor_string(k, Opad) \o bin)
  BY DEF Tagged, Outer
<1>10. Tagged(h2, l, message) = Run_sha(h3, Xor_string(l, Opad) \o bin)
  <2>1. Tagged(h2, l, message) = Run_sha(h3, Xor_string(l, Opad) \o Hex_to_Bin(Hash_string(h3)))
    BY DEF Tagged, Outer
  <2> HIDE DEF g3, h3
  <2> QED
    BY <1>6, <2>1
<1> QED
  BY <1>1, <1>2, <1>8, <1>9, <1>10

(***************************************************************************)
(* Whatever the key string, the tag of a message has the 40 characters     *)
(* that SendMsg copies from it (ssh.cpp:115-116).                          *)
(***************************************************************************)
THEOREM FullTags ==
  ASSUME NEW holder, NEW message \in Seq(Byte), NEW c \in Seq(Byte)
  PROVE  Len(Hash_string(Create_HMAC(holder, message, c))) = output_length
<1> DEFINE k == Kept(holder, c)
<1>1. PICK h : Create_HMAC(holder, message, c) = Tagged(h, k, message)
  BY TagIs
<1>2. k \in Seq(Byte)
  BY KeptIs
<1> HIDE DEF k
<1> DEFINE h3 == Run_sha(h, Xor_string(k, Ipad) \o Convert_binary(message))
<1>3. h3 \in Hash
  <2>1. Xor_string(k, Ipad) \in Seq(Byte) /\ Convert_binary(message) \in Seq(Byte)
    BY <1>2, XorString, ConvertBinary
  <2>2. Xor_string(k, Ipad) \o Convert_binary(message) \in Seq(Byte)
    BY <2>1, ConcatProperties
  <2> QED
    BY <2>2, RunHash
<1>4. Tagged(h, k, message) = Run_sha(h3, Xor_string(k, Opad) \o Hex_to_Bin(Hash_string(h3)))
  BY DEF Tagged, Outer
<1> HIDE DEF h3
<1>5. Xor_string(k, Opad) \o Hex_to_Bin(Hash_string(h3)) \in Seq(Byte)
  <2>1. Xor_string(k, Opad) \in Seq(Byte) /\ Hex_to_Bin(Hash_string(h3)) \in Seq(Byte)
    BY <1>2, <1>3, XorString, HashString, HexToBin
  <2> QED
    BY <2>1, ConcatProperties
<1>6. Tagged(h, k, message) \in Hash
  BY <1>4, <1>5, RunHash
<1> QED
  BY <1>1, <1>6, HashString DEF output_length
====
