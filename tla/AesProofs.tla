------------------------------ MODULE AesProofs ------------------------------
(***************************************************************************)
(* The block cipher: decrypt undoes encrypt.  The reason is local to each  *)
(* round.  A step of Backward undoes the step of Forward with the same     *)
(* subkey, byte by byte: the S-boxes are inverse, the rows turn back, and  *)
(* Times is linear in its first argument, so that of MixColumns_R after    *)
(* MixColumns_F only the products with the sixteen pairs of factors are    *)
(* left.  Those and the S-boxes are TablesAssumption, which is checked for *)
(* all 256 bytes.                                                          *)
(***************************************************************************)
EXTENDS Aes, MacProofs
-----------------------------------------------------------------------------
(***************************************************************************)
(* A loop of n steps.                                                      *)
(***************************************************************************)
\* The values that a loop goes through, from b.
Loop(n, b, F) == CHOOSE f : f = [x \in 0 .. n |-> IF x = 0 THEN b ELSE F[x][f[x - 1]]]

\* What they are, if each step stays in V.
LEMMA LoopIs ==
  ASSUME NEW n \in Nat, NEW V, NEW b \in V, NEW F,
         \A x \in 1 .. n : \A u \in V : F[x][u] \in V
  PROVE  /\ Loop(n, b, F)[0] = b
         /\ \A x \in 1 .. n : Loop(n, b, F)[x] = F[x][Loop(n, b, F)[x - 1]]
         /\ \A x \in 0 .. n : Loop(n, b, F)[x] \in V
<1> DEFINE v == Loop(n, b, F)
           D(f) == [x \in 0 .. n |-> IF x = 0 THEN b ELSE F[x][f[x - 1]]]
           W == [x \in 0 .. n |-> V]
<1>1. \A x \in 0 .. n : W[x] = V
  OBVIOUS
<1>2. \A f : D(f)[0] = b /\ \A x \in 1 .. n : D(f)[x] = F[x][f[x - 1]]
  OBVIOUS
<1> HIDE DEF W
<1>3. 0 \in Nat /\ 0 <= n /\ 0 + 1 = 1 /\ 0 \in 0 .. n
  OBVIOUS
<1>4. \A x \in 0 + 1 .. n : x \in 1 .. n /\ x - 1 \in 0 .. n /\ x \in 0 .. n
  OBVIOUS
<1>5. \E f : f = D(f)
  <2>1. \A x \in 0 + 1 .. n : \A u \in W[x - 1] : F[x][u] \in W[x]
    BY <1>1, <1>4
  <2>2. b \in W[0]
    BY <1>1, <1>3
  <2>3. PICK f : Goes(f, b, F, 0, n)
    BY <1>3, <2>1, <2>2, StepByStep
  <2> QED
    BY <2>3 DEF Goes
<1>6. v = D(v)
  BY <1>5 DEF Loop
<1> HIDE DEF D, v
<1>7. v[0] = b /\ \A x \in 1 .. n : v[x] = F[x][v[x - 1]]
  <2>1. D(v)[0] = b /\ \A x \in 1 .. n : D(v)[x] = F[x][v[x - 1]]
    BY <1>2
  <2> QED
    BY <1>6, <2>1
<1>8. \A x \in 0 .. n : v[x] \in W[x]
  <2>1. \A x \in 0 + 1 .. n : v[x - 1] \in W[x - 1] => v[x] \in W[x]
    BY <1>1, <1>4, <1>7
  <2>2. v[0] \in W[0]
    BY <1>1, <1>3, <1>7
  <2> QED
    BY <1>3, <2>1, <2>2, StaysIn
<1> QED
  BY <1>1, <1>7, <1>8 DEF v
-----------------------------------------------------------------------------
(***************************************************************************)
(* Polynomials.                                                            *)
(***************************************************************************)
LEMMA PlusByte == ASSUME NEW x \in Byte, NEW y \in Byte PROVE Plus(x, y) \in Byte
BY DEF Plus, Xor, SymDiff, Byte, Word

LEMMA PlusTwice == ASSUME NEW x, NEW y PROVE Plus(Plus(x, y), y) = x
BY DEF Plus, Xor, SymDiff

LEMMA PlusNone == ASSUME NEW x PROVE Plus(x, {}) = x /\ Plus({}, x) = x
BY DEF Plus, Xor, SymDiff

LEMMA InPlus == ASSUME NEW x, NEW y, NEW b PROVE b \in Plus(x, y) <=> ~(b \in x <=> b \in y)
BY DEF Plus, Xor, SymDiff

LEMMA PlusSwaps ==
  ASSUME NEW a, NEW b, NEW c, NEW d
  PROVE  Plus(Plus(a, b), Plus(c, d)) = Plus(Plus(a, c), Plus(b, d))
BY DEF Plus, Xor, SymDiff

\* A shift of a sum is the sum of the shifts.
LEMMA ShlAdds ==
  ASSUME NEW p \in Byte, NEW q \in Byte, NEW i \in 0 .. 7
  PROVE  /\ Shl(Plus(p, q), i, 16) = Plus(Shl(p, i, 16), Shl(q, i, 16))
         /\ Shl(p, i, 16) \in Word(16)
<1>1. p \subseteq 0 .. 7 /\ q \subseteq 0 .. 7
  BY DEF Byte, Word
<1>2. \A x : x \subseteq 0 .. 7 => \A b : b \in Shl(x, i, 16) <=> b \in 0 .. 15 /\ b - i \in x
  <2> SUFFICES ASSUME NEW x, x \subseteq 0 .. 7
               PROVE  \A b : b \in Shl(x, i, 16) <=> b \in 0 .. 15 /\ b - i \in x
    OBVIOUS
  <2>1. \A b : b \in Shl(x, i, 16) <=> b \in 0 .. 15 /\ \E c \in x : b = c + i
    BY DEF Shl
  <2> QED
    BY <2>1
<1>3. Plus(p, q) \subseteq 0 .. 7
  BY <1>1 DEF Plus, Xor, SymDiff
<1> DEFINE sp == Shl(p, i, 16)
           sq == Shl(q, i, 16)
           both == Shl(Plus(p, q), i, 16)
<1>4. /\ \A b : b \in sp <=> b \in 0 .. 15 /\ b - i \in p
      /\ \A b : b \in sq <=> b \in 0 .. 15 /\ b - i \in q
      /\ \A b : b \in both <=> b \in 0 .. 15 /\ b - i \in Plus(p, q)
  BY <1>1, <1>2, <1>3
<1> HIDE DEF sp, sq, both
<1>5. ASSUME NEW b PROVE b \in both <=> b \in Plus(sp, sq)
  <2>1. b - i \in Plus(p, q) <=> ~(b - i \in p <=> b - i \in q)
    BY InPlus
  <2>2. b \in Plus(sp, sq) <=> ~(b \in sp <=> b \in sq)
    BY InPlus
  <2> QED
    BY <1>4, <2>1, <2>2
<1>6. both = Plus(sp, sq)
  <2>1. \A b : b \in both <=> b \in Plus(sp, sq)
    BY <1>5
  <2> HIDE DEF Plus
  <2> QED
    BY <2>1, Zenon
<1>7. sp \in Word(16)
  BY <1>4 DEF Word
<1> QED
  BY <1>6, <1>7 DEF sp, sq, both

\* The modulus has its top bit in place 8.
LEMMA ModulusIs == MOD \subseteq 0 .. 8 /\ 8 \in MOD
<1>1. /\ 2^8 = 256 /\ 2^9 = 512 /\ 2^10 = 1024 /\ 2^11 = 2048 /\ 2^12 = 4096 /\ 2^13 = 8192
      /\ 2^14 = 16384 /\ 2^15 = 32768
  OBVIOUS
<1> DEFINE n == \h11B
<1>2. n = 283
  OBVIOUS
<1> HIDE DEF n
<1>3. /\ n \div 256 = 1 /\ n \div 512 = 0 /\ n \div 1024 = 0 /\ n \div 2048 = 0 /\ n \div 4096 = 0
      /\ n \div 8192 = 0 /\ n \div 16384 = 0 /\ n \div 32768 = 0 /\ 1 % 2 = 1 /\ 0 % 2 # 1
  BY <1>2
<1>8. /\ n \div 2^8 = 1 /\ n \div 2^9 = 0 /\ n \div 2^10 = 0 /\ n \div 2^11 = 0 /\ n \div 2^12 = 0
      /\ n \div 2^13 = 0 /\ n \div 2^14 = 0 /\ n \div 2^15 = 0
  BY <1>1, <1>3
<1>4. MOD = Bits(n)
  BY DEF MOD, n
<1>5. 8 \in Bits(n)
  <2>1. 8 \in 0 .. 15
    OBVIOUS
  <2> QED
    BY <1>1, <1>3, <2>1 DEF Bits
<1>6. ASSUME NEW b \in 9 .. 15 PROVE b \notin Bits(n)
  <2>1. b = 9 \/ b = 10 \/ b = 11 \/ b = 12 \/ b = 13 \/ b = 14 \/ b = 15
    OBVIOUS
  <2>2. n \div 2^b = 0
    BY <1>8, <2>1
  <2>3. (n \div 2^b) % 2 # 1
    BY <1>3, <2>2
  <2> QED
    BY <2>3 DEF Bits
<1>7. Bits(n) \subseteq 0 .. 15
  BY DEF Bits
<1> QED
  BY <1>4, <1>5, <1>6, <1>7

\* The two loops of Times.
Term(p, q, i) == [u \in Word(16) |-> IF i \in q THEN Plus(u, Shl(p, i, 16)) ELSE u]
Product(p, q) ==
  CHOOSE f : f = [i \in 0 .. 8 |-> IF i = 0 THEN {} ELSE Term(p, q, i - 1)[f[i - 1]]]

Cut(m) == [u \in Word(16) |-> IF m \in u THEN Plus(u, Shl(MOD, m - 8, 16)) ELSE u]
Remainder(w) ==
  CHOOSE f : f = [i \in 0 .. 8 |-> IF i = 0 THEN w ELSE Cut(16 - i)[f[i - 1]]]

LEMMA TimesIs == ASSUME NEW p, NEW q PROVE Times(p, q) = Remainder(Product(p, q)[8])[8]
BY DEF Times, Product, Remainder, Term, Cut

LEMMA PlusWord == ASSUME NEW x \in Word(16), NEW y \in Word(16) PROVE Plus(x, y) \in Word(16)
BY DEF Plus, Xor, SymDiff, Word

LEMMA ProductIs ==
  ASSUME NEW p \in Byte, NEW q
  PROVE  /\ Product(p, q)[0] = {}
         /\ \A i \in 1 .. 8 : Product(p, q)[i] = IF i - 1 \in q
                                                 THEN Plus(Product(p, q)[i - 1], Shl(p, i - 1, 16))
                                                 ELSE Product(p, q)[i - 1]
         /\ \A i \in 0 .. 8 : Product(p, q)[i] \in Word(16)
<1> DEFINE F == [i \in 1 .. 8 |-> Term(p, q, i - 1)]
           v == Product(p, q)
<1>1. \A f : [i \in 0 .. 8 |-> IF i = 0 THEN {} ELSE Term(p, q, i - 1)[f[i - 1]]]
             = [i \in 0 .. 8 |-> IF i = 0 THEN {} ELSE F[i][f[i - 1]]]
  OBVIOUS
<1>2. v = Loop(8, {}, F)
  BY <1>1 DEF Product, Loop
<1>3. \A i \in 1 .. 8 : \A u \in Word(16) :
        F[i][u] = IF i - 1 \in q THEN Plus(u, Shl(p, i - 1, 16)) ELSE u
  BY DEF Term
<1> HIDE DEF F, v
<1>4. \A i \in 1 .. 8 : Shl(p, i - 1, 16) \in Word(16)
  <2>1. \A i \in 1 .. 8 : i - 1 \in 0 .. 7
    OBVIOUS
  <2> QED
    BY <2>1, ShlAdds
<1>5. \A i \in 1 .. 8 : \A u \in Word(16) : F[i][u] \in Word(16)
  BY <1>3, <1>4, PlusWord
<1>6. 8 \in Nat /\ {} \in Word(16)
  BY DEF Word
<1>7. /\ v[0] = {} /\ \A i \in 1 .. 8 : v[i] = F[i][v[i - 1]]
      /\ \A i \in 0 .. 8 : v[i] \in Word(16)
  <2>1. /\ Loop(8, {}, F)[0] = {}
        /\ \A x \in 1 .. 8 : Loop(8, {}, F)[x] = F[x][Loop(8, {}, F)[x - 1]]
        /\ \A x \in 0 .. 8 : Loop(8, {}, F)[x] \in Word(16)
    BY <1>5, <1>6, LoopIs
  <2> QED
    BY <1>2, <2>1
<1>8. \A i \in 1 .. 8 : i - 1 \in 0 .. 8
  OBVIOUS
<1>9. \A i \in 1 .. 8 : v[i] = IF i - 1 \in q THEN Plus(v[i - 1], Shl(p, i - 1, 16)) ELSE v[i - 1]
  BY <1>3, <1>7, <1>8
<1> QED
  BY <1>7, <1>9 DEF v

LEMMA RemainderIs ==
  ASSUME NEW w \in Word(16)
  PROVE  /\ Remainder(w)[0] = w
         /\ \A i \in 1 .. 8 : Remainder(w)[i] = IF 16 - i \in Remainder(w)[i - 1]
                                                THEN Plus(Remainder(w)[i - 1], Shl(MOD, (16 - i) - 8, 16))
                                                ELSE Remainder(w)[i - 1]
         /\ \A i \in 0 .. 8 : Remainder(w)[i] \in Word(16)
<1> DEFINE F == [i \in 1 .. 8 |-> Cut(16 - i)]
           v == Remainder(w)
<1>1. \A f : [i \in 0 .. 8 |-> IF i = 0 THEN w ELSE Cut(16 - i)[f[i - 1]]]
             = [i \in 0 .. 8 |-> IF i = 0 THEN w ELSE F[i][f[i - 1]]]
  OBVIOUS
<1>2. v = Loop(8, w, F)
  BY <1>1 DEF Remainder, Loop
<1>3. \A i \in 1 .. 8 : \A u \in Word(16) :
        F[i][u] = IF 16 - i \in u THEN Plus(u, Shl(MOD, (16 - i) - 8, 16)) ELSE u
  BY DEF Cut
<1> HIDE DEF F, v
<1>4. \A i \in 1 .. 8 : Shl(MOD, (16 - i) - 8, 16) \in Word(16)
  BY DEF Shl, Word
<1>5. \A i \in 1 .. 8 : \A u \in Word(16) : F[i][u] \in Word(16)
  BY <1>3, <1>4, PlusWord
<1>6. 8 \in Nat
  OBVIOUS
<1>7. /\ v[0] = w /\ \A i \in 1 .. 8 : v[i] = F[i][v[i - 1]]
      /\ \A i \in 0 .. 8 : v[i] \in Word(16)
  <2>1. /\ Loop(8, w, F)[0] = w
        /\ \A x \in 1 .. 8 : Loop(8, w, F)[x] = F[x][Loop(8, w, F)[x - 1]]
        /\ \A x \in 0 .. 8 : Loop(8, w, F)[x] \in Word(16)
    BY <1>5, <1>6, LoopIs
  <2> QED
    BY <1>2, <2>1
<1>8. \A i \in 1 .. 8 : i - 1 \in 0 .. 8
  OBVIOUS
<1>9. \A i \in 1 .. 8 : v[i] = IF 16 - i \in v[i - 1] THEN Plus(v[i - 1], Shl(MOD, (16 - i) - 8, 16))
                                                       ELSE v[i - 1]
  BY <1>3, <1>7, <1>8
<1> QED
  BY <1>7, <1>9 DEF v

\* What holds at the start of eight steps and is kept by each holds at the end.
LEMMA EightSteps ==
  ASSUME NEW P, P[0], \A i \in 1 .. 8 : P[i - 1] => P[i]
  PROVE  P[8]
<1>1. 1 - 1 = 0 /\ 2 - 1 = 1 /\ 3 - 1 = 2 /\ 4 - 1 = 3 /\ 5 - 1 = 4 /\ 6 - 1 = 5 /\ 7 - 1 = 6 /\ 8 - 1 = 7
  OBVIOUS
<1>2. P[1]
  BY <1>1
<1>3. P[2]
  BY <1>1, <1>2
<1>4. P[3]
  BY <1>1, <1>3
<1>5. P[4]
  BY <1>1, <1>4
<1>6. P[5]
  BY <1>1, <1>5
<1>7. P[6]
  BY <1>1, <1>6
<1>8. P[7]
  BY <1>1, <1>7
<1> QED
  BY <1>1, <1>8

LEMMA ProductAdds ==
  ASSUME NEW p \in Byte, NEW r \in Byte, NEW q
  PROVE  Product(Plus(p, r), q)[8] = Plus(Product(p, q)[8], Product(r, q)[8])
<1> DEFINE s == Plus(p, r)
           a == Product(s, q)
           b == Product(p, q)
           c == Product(r, q)
           P == [i \in 0 .. 8 |-> a[i] = Plus(b[i], c[i])]
<1>1. s \in Byte
  BY PlusByte
<1>2. a[0] = {} /\ b[0] = {} /\ c[0] = {}
  BY <1>1, ProductIs
<1>3. \A i \in 1 .. 8 :
        /\ a[i] = IF i - 1 \in q THEN Plus(a[i - 1], Shl(s, i - 1, 16)) ELSE a[i - 1]
        /\ b[i] = IF i - 1 \in q THEN Plus(b[i - 1], Shl(p, i - 1, 16)) ELSE b[i - 1]
        /\ c[i] = IF i - 1 \in q THEN Plus(c[i - 1], Shl(r, i - 1, 16)) ELSE c[i - 1]
  BY <1>1, ProductIs
<1>4. \A i \in 1 .. 8 : Shl(s, i - 1, 16) = Plus(Shl(p, i - 1, 16), Shl(r, i - 1, 16))
  <2>1. \A i \in 1 .. 8 : i - 1 \in 0 .. 7
    OBVIOUS
  <2> QED
    BY <2>1, ShlAdds
<1>5. \A i \in 0 .. 8 : P[i] <=> a[i] = Plus(b[i], c[i])
  OBVIOUS
<1> HIDE DEF a, b, c, s, P
<1>6. P[0]
  <2>1. 0 \in 0 .. 8 /\ Plus({}, {}) = {}
    BY PlusNone
  <2> QED
    BY <1>2, <1>5, <2>1
<1>7. ASSUME NEW i \in 1 .. 8, P[i - 1] PROVE P[i]
  <2>1. i - 1 \in 0 .. 8 /\ i \in 0 .. 8
    OBVIOUS
  <2>2. a[i - 1] = Plus(b[i - 1], c[i - 1])
    BY <1>5, <1>7, <2>1
  <2>3. CASE i - 1 \in q
    <3>1. a[i] = Plus(Plus(b[i - 1], c[i - 1]), Plus(Shl(p, i - 1, 16), Shl(r, i - 1, 16)))
      BY <1>3, <1>4, <2>2, <2>3
    <3>2. b[i] = Plus(b[i - 1], Shl(p, i - 1, 16)) /\ c[i] = Plus(c[i - 1], Shl(r, i - 1, 16))
      BY <1>3, <2>3
    <3>3. a[i] = Plus(b[i], c[i])
      BY <3>1, <3>2, PlusSwaps
    <3> QED
      BY <1>5, <2>1, <3>3
  <2>4. CASE i - 1 \notin q
    <3>1. a[i] = Plus(b[i], c[i])
      BY <1>3, <2>2, <2>4
    <3> QED
      BY <1>5, <2>1, <3>1
  <2> QED
    BY <2>3, <2>4
<1>8. P[8]
  BY <1>6, <1>7, EightSteps
<1>9. 8 \in 0 .. 8
  OBVIOUS
<1>10. a[8] = Plus(b[8], c[8])
  BY <1>5, <1>8, <1>9
<1> QED
  BY <1>10 DEF a, b, c, s

LEMMA RemainderAdds ==
  ASSUME NEW x \in Word(16), NEW y \in Word(16)
  PROVE  Remainder(Plus(x, y))[8] = Plus(Remainder(x)[8], Remainder(y)[8])
<1> DEFINE s == Plus(x, y)
           a == Remainder(s)
           b == Remainder(x)
           c == Remainder(y)
           m(i) == Shl(MOD, (16 - i) - 8, 16)
           P == [i \in 0 .. 8 |-> a[i] = Plus(b[i], c[i])]
<1>1. s \in Word(16)
  BY PlusWord
<1>2. a[0] = s /\ b[0] = x /\ c[0] = y
  BY <1>1, RemainderIs
<1>3. \A i \in 1 .. 8 :
        /\ a[i] = IF 16 - i \in a[i - 1] THEN Plus(a[i - 1], m(i)) ELSE a[i - 1]
        /\ b[i] = IF 16 - i \in b[i - 1] THEN Plus(b[i - 1], m(i)) ELSE b[i - 1]
        /\ c[i] = IF 16 - i \in c[i - 1] THEN Plus(c[i - 1], m(i)) ELSE c[i - 1]
  BY <1>1, RemainderIs
<1>5. \A i \in 0 .. 8 : P[i] <=> a[i] = Plus(b[i], c[i])
  OBVIOUS
<1> HIDE DEF a, b, c, m, P
<1>6. P[0]
  <2>1. 0 \in 0 .. 8
    OBVIOUS
  <2> QED
    BY <1>2, <1>5, <2>1
<1> HIDE DEF s
<1>7. ASSUME NEW i \in 1 .. 8, P[i - 1] PROVE P[i]
  <2> DEFINE u == b[i - 1]
             w == c[i - 1]
             top == 16 - i
             n == m(i)
  <2>1. i - 1 \in 0 .. 8 /\ i \in 0 .. 8
    OBVIOUS
  <2>2. a[i - 1] = Plus(u, w)
    BY <1>5, <1>7, <2>1
  <2>3. /\ a[i] = IF top \in Plus(u, w) THEN Plus(Plus(u, w), n) ELSE Plus(u, w)
        /\ b[i] = IF top \in u THEN Plus(u, n) ELSE u
        /\ c[i] = IF top \in w THEN Plus(w, n) ELSE w
    BY <1>3, <2>2
  <2>4. top \in Plus(u, w) <=> ~(top \in u <=> top \in w)
    BY InPlus
  <2> HIDE DEF u, w, top, n
  <2>5. /\ Plus(Plus(u, n), Plus(w, n)) = Plus(u, w)
        /\ Plus(Plus(u, n), w) = Plus(Plus(u, w), n)
        /\ Plus(u, Plus(w, n)) = Plus(Plus(u, w), n)
    BY DEF Plus, Xor, SymDiff
  <2>6. a[i] = Plus(b[i], c[i])
    BY <2>3, <2>4, <2>5
  <2> QED
    BY <1>5, <2>1, <2>6
<1>8. P[8]
  BY <1>6, <1>7, EightSteps
<1>9. 8 \in 0 .. 8
  OBVIOUS
<1>10. a[8] = Plus(b[8], c[8])
  BY <1>5, <1>8, <1>9
<1> QED
  BY <1>10 DEF a, b, c, s

\* Each step of the division takes off the top bit.
LEMMA RemainderByte ==
  ASSUME NEW w \in Word(16)
  PROVE  Remainder(w)[8] \in Byte
<1> DEFINE v == Remainder(w)
           m(i) == Shl(MOD, (16 - i) - 8, 16)
           P == [i \in 0 .. 8 |-> v[i] \subseteq 0 .. 15 - i]
<1>1. /\ v[0] = w
      /\ \A i \in 1 .. 8 : v[i] = IF 16 - i \in v[i - 1] THEN Plus(v[i - 1], m(i)) ELSE v[i - 1]
      /\ \A i \in 0 .. 8 : v[i] \in Word(16)
  BY RemainderIs
<1>2. \A i \in 0 .. 8 : P[i] <=> v[i] \subseteq 0 .. 15 - i
  OBVIOUS
<1>3. ASSUME NEW i \in 1 .. 8
      PROVE  m(i) \subseteq 0 .. 16 - i /\ 16 - i \in m(i)
  <2> DEFINE n == (16 - i) - 8
  <2>1. n \in 0 .. 7 /\ 8 + n = 16 - i /\ 16 - i \in 0 .. 16 - 1
    OBVIOUS
  <2>2. m(i) = {b + n : b \in MOD} \cap (0 .. 16 - 1)
    BY DEF Shl
  <2> HIDE DEF n, m
  <2>3. \A b \in 0 .. 8 : b + n \in 0 .. 16 - i
    BY <2>1
  <2> QED
    BY <2>1, <2>2, <2>3, ModulusIs
<1> HIDE DEF v, m, P
<1>6. P[0]
  <2>1. 0 \in 0 .. 8 /\ 15 - 0 = 16 - 1
    OBVIOUS
  <2>2. v[0] \subseteq 0 .. 15 - 0
    BY <1>1, <2>1 DEF Word
  <2> QED
    BY <1>2, <2>1, <2>2
<1>7. ASSUME NEW i \in 1 .. 8, P[i - 1] PROVE P[i]
  <2> DEFINE u == v[i - 1]
             top == 16 - i
             n == m(i)
  <2>1. i - 1 \in 0 .. 8 /\ i \in 0 .. 8 /\ 15 - (i - 1) = 16 - i
    OBVIOUS
  <2>2. u \subseteq 0 .. top
    BY <1>2, <1>7, <2>1
  <2>3. v[i] = IF top \in u THEN Plus(u, n) ELSE u
    BY <1>1
  <2>4. n \subseteq 0 .. top /\ top \in n
    BY <1>3
  <2>5. \A b \in 0 .. top : b # top => b \in 0 .. 15 - i
    OBVIOUS
  <2> HIDE DEF u, top, n
  <2>6. ASSUME NEW b \in v[i] PROVE b \in 0 .. 15 - i
    <3>1. b \in Plus(u, n) <=> ~(b \in u <=> b \in n)
      BY InPlus
    <3>2. top \in Plus(u, n) <=> ~(top \in u <=> top \in n)
      BY InPlus
    <3> QED
      BY <2>2, <2>3, <2>4, <2>5, <2>6, <3>1, <3>2
  <2>7. v[i] \subseteq 0 .. 15 - i
    BY <2>6
  <2> QED
    BY <1>2, <2>1, <2>7
<1>8. P[8]
  BY <1>6, <1>7, EightSteps
<1>9. 8 \in 0 .. 8 /\ 15 - 8 = 8 - 1
  OBVIOUS
<1>10. v[8] \subseteq 0 .. 8 - 1
  BY <1>2, <1>8, <1>9
<1> QED
  BY <1>10 DEF v, Byte, Word

\* The product of polynomials is a byte, and a sum is multiplied term by term.
LEMMA TimesByte ==
  ASSUME NEW p \in Byte, NEW q
  PROVE  Times(p, q) \in Byte
<1>1. 8 \in 0 .. 8
  OBVIOUS
<1>2. Product(p, q)[8] \in Word(16)
  BY <1>1, ProductIs
<1> QED
  BY <1>2, RemainderByte, TimesIs

LEMMA TimesAdds ==
  ASSUME NEW p \in Byte, NEW r \in Byte, NEW q
  PROVE  Times(Plus(p, r), q) = Plus(Times(p, q), Times(r, q))
<1>1. 8 \in 0 .. 8
  OBVIOUS
<1>2. Product(p, q)[8] \in Word(16) /\ Product(r, q)[8] \in Word(16)
  BY <1>1, ProductIs
<1>3. Remainder(Plus(Product(p, q)[8], Product(r, q)[8]))[8]
      = Plus(Remainder(Product(p, q)[8])[8], Remainder(Product(r, q)[8])[8])
  BY <1>2, RemainderAdds
<1> QED
  BY <1>3, ProductAdds, TimesIs
-----------------------------------------------------------------------------
(***************************************************************************)
(* The steps of a round, and what undoes each.                             *)
(***************************************************************************)
LEMMA CellsOf == ASSUME NEW s \in Blocks PROVE \A n \in 0 .. 15 : At(s, n) \in Byte
<1>1. \A n \in 0 .. 15 : n + 1 \in 1 .. BLOCK_BYTES
  BY DEF BLOCK_BYTES
<1> QED
  BY <1>1 DEF At, Blocks

LEMMA SameCells ==
  ASSUME NEW s \in Blocks, NEW t \in Blocks, \A n \in 0 .. 15 : At(s, n) = At(t, n)
  PROVE  s = t
<1>1. \A i \in 1 .. 16 : i - 1 \in 0 .. 15 /\ (i - 1) + 1 = i
  OBVIOUS
<1>2. \A i \in 1 .. 16 : s[i] = t[i]
  BY <1>1 DEF At
<1> QED
  BY <1>2 DEF Blocks, BLOCK_BYTES

\* A State, cell by cell.
LEMMA CellsAre ==
  ASSUME NEW f, \A n \in 0 .. 15 : f[n] \in Byte
  PROVE  LET s == Tuple([n \in 1 .. 16 |-> f[n - 1]])
         IN  s \in Blocks /\ \A n \in 0 .. 15 : At(s, n) = f[n]
<1> DEFINE t == [n \in 1 .. 16 |-> f[n - 1]]
<1>1. \A n \in 1 .. 16 : n - 1 \in 0 .. 15
  OBVIOUS
<1>2. t \in [1 .. 16 -> Byte] /\ t \in Seq(Byte)
  BY <1>1
<1>3. \A n \in 0 .. 15 : n + 1 \in 1 .. 16 /\ (n + 1) - 1 = n
  OBVIOUS
<1>4. \A n \in 0 .. 15 : t[n + 1] = f[n]
  BY <1>3
<1> HIDE DEF t
<1>5. Tuple(t) = t
  BY <1>2, TupleIs
<1>6. t \in Blocks /\ \A n \in 0 .. 15 : At(t, n) = f[n]
  BY <1>2, <1>4 DEF Blocks, BLOCK_BYTES, At
<1> QED
  BY <1>5, <1>6 DEF t

LEMMA SubBytesIs ==
  ASSUME NEW s, NEW box, \A n \in 0 .. 15 : At(box, Raw(At(s, n))) \in Byte
  PROVE  /\ SubBytes(s, box) \in Blocks
         /\ \A n \in 0 .. 15 : At(SubBytes(s, box), n) = At(box, Raw(At(s, n)))
<1> DEFINE c(n) == At(box, Raw(At(s, n)))
           f == [n \in 0 .. 15 |-> c(n)]
<1>1. SubBytes(s, box) = Tuple([n \in 1 .. 16 |-> c(n - 1)])
  BY DEF SubBytes, State
<1> HIDE DEF c
<1>2. \A n \in 1 .. 16 : n - 1 \in 0 .. 15
  OBVIOUS
<1>3. [n \in 1 .. 16 |-> c(n - 1)] = [n \in 1 .. 16 |-> f[n - 1]]
  BY <1>2
<1>4. \A n \in 0 .. 15 : f[n] = c(n) /\ f[n] \in Byte
  BY DEF c
<1> HIDE DEF f
<1> QED
  BY <1>1, <1>3, <1>4, CellsAre DEF c

LEMMA SubBytesBack ==
  ASSUME NEW s \in Blocks
  PROVE  /\ SubBytes(s, SBOX_F) \in Blocks /\ SubBytes(s, SBOX_R) \in Blocks
         /\ SubBytes(SubBytes(s, SBOX_F), SBOX_R) = s
<1> DEFINE t == SubBytes(s, SBOX_F)
           r == SubBytes(t, SBOX_R)
<1>1. \A x \in Byte : /\ At(SBOX_F, Raw(x)) \in Byte /\ At(SBOX_R, Raw(x)) \in Byte
                      /\ At(SBOX_R, Raw(At(SBOX_F, Raw(x)))) = x
  BY TablesAssumption
<1>2. \A n \in 0 .. 15 : At(s, n) \in Byte
  BY CellsOf
<1>3. t \in Blocks /\ \A n \in 0 .. 15 : At(t, n) = At(SBOX_F, Raw(At(s, n)))
  BY <1>1, <1>2, SubBytesIs
<1>4. SubBytes(s, SBOX_R) \in Blocks
  BY <1>1, <1>2, SubBytesIs
<1> HIDE DEF t
<1>5. \A n \in 0 .. 15 : At(t, n) \in Byte
  BY <1>3, CellsOf
<1>6. r \in Blocks /\ \A n \in 0 .. 15 : At(r, n) = At(SBOX_R, Raw(At(t, n)))
  BY <1>1, <1>5, SubBytesIs
<1> HIDE DEF r
<1>7. \A n \in 0 .. 15 : At(r, n) = At(s, n)
  BY <1>1, <1>2, <1>3, <1>6
<1>8. r = s
  BY <1>6, <1>7, SameCells
<1> QED
  BY <1>3, <1>4, <1>8 DEF t, r

LEMMA AddRoundKeyIs ==
  ASSUME NEW s \in Blocks, NEW k \in Blocks
  PROVE  /\ AddRoundKey(s, k) \in Blocks
         /\ \A n \in 0 .. 15 : At(AddRoundKey(s, k), n) = Plus(At(s, n), At(k, Row(n) * Col(n)))
<1> DEFINE c(n) == Plus(At(s, n), At(k, Row(n) * Col(n)))
           f == [n \in 0 .. 15 |-> c(n)]
<1>1. AddRoundKey(s, k) = Tuple([n \in 1 .. 16 |-> c(n - 1)])
  BY DEF AddRoundKey, State
<1>2. ASSUME NEW n \in 0 .. 15 PROVE c(n) \in Byte
  <2> DEFINE i == Row(n)
             j == Col(n)
  <2>1. i \in 0 .. 3 /\ j \in 0 .. 3
    BY DEF Row, Col
  <2> HIDE DEF i, j
  <2>2. i * j \in 0 .. 15
    <3>1. i = 0 \/ i = 1 \/ i = 2 \/ i = 3
      BY <2>1
    <3>2. 0 * j = 0 /\ 1 * j = j /\ 2 * j = j + j /\ 3 * j = j + j + j
      BY <2>1
    <3> QED
      BY <2>1, <3>1, <3>2
  <2>3. At(s, n) \in Byte /\ At(k, i * j) \in Byte
    BY <2>2, CellsOf
  <2> QED
    BY <2>3, PlusByte DEF i, j
<1> HIDE DEF c
<1>3. \A n \in 1 .. 16 : n - 1 \in 0 .. 15
  OBVIOUS
<1>4. [n \in 1 .. 16 |-> c(n - 1)] = [n \in 1 .. 16 |-> f[n - 1]]
  BY <1>3
<1>5. \A n \in 0 .. 15 : f[n] = c(n) /\ f[n] \in Byte
  BY <1>2
<1> HIDE DEF f
<1> QED
  BY <1>1, <1>4, <1>5, CellsAre DEF c

LEMMA AddRoundKeyTwice ==
  ASSUME NEW s \in Blocks, NEW k \in Blocks
  PROVE  AddRoundKey(AddRoundKey(s, k), k) = s
<1> DEFINE t == AddRoundKey(s, k)
           r == AddRoundKey(t, k)
<1>1. t \in Blocks /\ \A n \in 0 .. 15 : At(t, n) = Plus(At(s, n), At(k, Row(n) * Col(n)))
  BY AddRoundKeyIs
<1> HIDE DEF t
<1>2. r \in Blocks /\ \A n \in 0 .. 15 : At(r, n) = Plus(At(t, n), At(k, Row(n) * Col(n)))
  BY <1>1, AddRoundKeyIs
<1> HIDE DEF r
<1>3. \A n \in 0 .. 15 : At(r, n) = At(s, n)
  BY <1>1, <1>2, PlusTwice
<1> QED
  BY <1>2, <1>3, SameCells DEF t, r

\* Where the byte comes from that ShiftRows puts into cell n.
From(n, by) == IF Row(n) = 0 THEN n ELSE 4 * Row(n) + ((Col(n) + by + 4) % 4)

LEMMA FromIs ==
  ASSUME NEW n \in 0 .. 15
  PROVE  /\ From(n, 1) \in 0 .. 15 /\ From(n, -1) \in 0 .. 15
         /\ From(From(n, -1), 1) = n
BY DEF From, Row, Col

LEMMA ShiftRowsIs ==
  ASSUME NEW s \in Blocks, NEW by \in {1, -1}
  PROVE  /\ ShiftRows(s, by) \in Blocks
         /\ \A n \in 0 .. 15 : At(ShiftRows(s, by), n) = At(s, From(n, by))
<1> DEFINE c(n) == At(s, From(n, by))
           f == [n \in 0 .. 15 |-> c(n)]
           g(n) == IF Row(n) = 0 THEN At(s, n) ELSE At(s, 4 * Row(n) + ((Col(n) + by + 4) % 4))
<1>1. ShiftRows(s, by) = Tuple([n \in 1 .. 16 |-> g(n - 1)])
  BY DEF ShiftRows, State
<1>2. \A n : g(n) = c(n)
  BY DEF From
<1> HIDE DEF g
<1>3. \A n \in 0 .. 15 : c(n) \in Byte
  BY CellsOf, FromIs
<1> HIDE DEF c
<1>4. \A n \in 1 .. 16 : n - 1 \in 0 .. 15
  OBVIOUS
<1>5. [n \in 1 .. 16 |-> g(n - 1)] = [n \in 1 .. 16 |-> f[n - 1]]
  BY <1>2, <1>4
<1>6. \A n \in 0 .. 15 : f[n] = c(n) /\ f[n] \in Byte
  BY <1>3
<1> HIDE DEF f
<1> QED
  BY <1>1, <1>5, <1>6, CellsAre DEF c

LEMMA ShiftRowsBack ==
  ASSUME NEW s \in Blocks
  PROVE  /\ ShiftRows_F(s) \in Blocks /\ ShiftRows_R(s) \in Blocks
         /\ ShiftRows_R(ShiftRows_F(s)) = s
<1> DEFINE t == ShiftRows(s, 1)
           r == ShiftRows(t, -1)
<1>1. t \in Blocks /\ \A n \in 0 .. 15 : At(t, n) = At(s, From(n, 1))
  BY ShiftRowsIs
<1>2. ShiftRows(s, -1) \in Blocks
  BY ShiftRowsIs
<1> HIDE DEF t
<1>3. r \in Blocks /\ \A n \in 0 .. 15 : At(r, n) = At(t, From(n, -1))
  BY <1>1, ShiftRowsIs
<1> HIDE DEF r
<1>4. \A n \in 0 .. 15 : At(r, n) = At(s, n)
  BY <1>1, <1>3, FromIs
<1>5. r = s
  BY <1>3, <1>4, SameCells
<1> QED
  BY <1>1, <1>2, <1>5 DEF t, r, ShiftRows_F, ShiftRows_R

\* The sum of four products.
Sum4(a, b, c, d) == Plus(Plus(a, b), Plus(c, d))

LEMMA Sum4Byte ==
  ASSUME NEW a \in Byte, NEW b \in Byte, NEW c \in Byte, NEW d \in Byte
  PROVE  Sum4(a, b, c, d) \in Byte
BY PlusByte DEF Sum4

LEMMA TimesSum4 ==
  ASSUME NEW a \in Byte, NEW b \in Byte, NEW c \in Byte, NEW d \in Byte, NEW q
  PROVE  Times(Sum4(a, b, c, d), q) = Sum4(Times(a, q), Times(b, q), Times(c, q), Times(d, q))
BY PlusByte, TimesAdds DEF Sum4

\* Adding up by rows or by columns.
LEMMA Transposed ==
  ASSUME NEW a0, NEW a1, NEW a2, NEW a3, NEW b0, NEW b1, NEW b2, NEW b3,
         NEW c0, NEW c1, NEW c2, NEW c3, NEW d0, NEW d1, NEW d2, NEW d3
  PROVE  Sum4(Sum4(a0, a1, a2, a3), Sum4(b0, b1, b2, b3), Sum4(c0, c1, c2, c3), Sum4(d0, d1, d2, d3))
         = Sum4(Sum4(a0, b0, c0, d0), Sum4(a1, b1, c1, d1), Sum4(a2, b2, c2, d2), Sum4(a3, b3, c3, d3))
<1>1. \A p, q, x, y : Plus(Plus(p, q), Plus(x, y)) = Plus(Plus(p, x), Plus(q, y))
  BY PlusSwaps
<1>2. \A p0, p1, p2, p3, q0, q1, q2, q3 :
        Plus(Sum4(p0, p1, p2, p3), Sum4(q0, q1, q2, q3))
        = Sum4(Plus(p0, q0), Plus(p1, q1), Plus(p2, q2), Plus(p3, q3))
  <2> SUFFICES ASSUME NEW p0, NEW p1, NEW p2, NEW p3, NEW q0, NEW q1, NEW q2, NEW q3
               PROVE  Plus(Sum4(p0, p1, p2, p3), Sum4(q0, q1, q2, q3))
                      = Sum4(Plus(p0, q0), Plus(p1, q1), Plus(p2, q2), Plus(p3, q3))
    OBVIOUS
  <2>1. Plus(Plus(Plus(p0, p1), Plus(p2, p3)), Plus(Plus(q0, q1), Plus(q2, q3)))
        = Plus(Plus(Plus(p0, p1), Plus(q0, q1)), Plus(Plus(p2, p3), Plus(q2, q3)))
    BY <1>1
  <2>2. /\ Plus(Plus(p0, p1), Plus(q0, q1)) = Plus(Plus(p0, q0), Plus(p1, q1))
        /\ Plus(Plus(p2, p3), Plus(q2, q3)) = Plus(Plus(p2, q2), Plus(p3, q3))
    BY <1>1
  <2> QED
    BY <2>1, <2>2 DEF Sum4
<1> DEFINE ab == Plus(Sum4(a0, a1, a2, a3), Sum4(b0, b1, b2, b3))
           cd == Plus(Sum4(c0, c1, c2, c3), Sum4(d0, d1, d2, d3))
<1>3. /\ ab = Sum4(Plus(a0, b0), Plus(a1, b1), Plus(a2, b2), Plus(a3, b3))
      /\ cd = Sum4(Plus(c0, d0), Plus(c1, d1), Plus(c2, d2), Plus(c3, d3))
  BY <1>2
<1>4. Plus(ab, cd) = Sum4(Plus(Plus(a0, b0), Plus(c0, d0)), Plus(Plus(a1, b1), Plus(c1, d1)),
                          Plus(Plus(a2, b2), Plus(c2, d2)), Plus(Plus(a3, b3), Plus(c3, d3)))
  <2> HIDE DEF ab, cd
  <2> QED
    BY <1>2, <1>3
<1> QED
  BY <1>4 DEF Sum4

\* Only the byte of column j is left.
LEMMA OneLeft ==
  ASSUME NEW x0, NEW x1, NEW x2, NEW x3
  PROVE  /\ Sum4(x0, {}, {}, {}) = x0 /\ Sum4({}, x1, {}, {}) = x1
         /\ Sum4({}, {}, x2, {}) = x2 /\ Sum4({}, {}, {}, x3) = x3
BY PlusNone DEF Sum4

\* MixColumns, row by row.
LEMMA MixColumnsIs ==
  ASSUME NEW s \in Blocks, NEW mults
  PROVE  /\ MixColumns(s, mults) \in Blocks
         /\ \A i \in 0 .. 3, j \in 0 .. 3 :
              At(MixColumns(s, mults), 4 * i + j)
              = Sum4(Times(At(s, 4 * i), At(mults, (0 - j + 4) % 4)),
                     Times(At(s, 4 * i + 1), At(mults, (1 - j + 4) % 4)),
                     Times(At(s, 4 * i + 2), At(mults, (2 - j + 4) % 4)),
                     Times(At(s, 4 * i + 3), At(mults, (3 - j + 4) % 4)))
<1> DEFINE term(n, k) == Times(At(s, 4 * Row(n) + k), At(mults, (k - Col(n) + 4) % 4))
           c(n) == Sum4(term(n, 0), term(n, 1), term(n, 2), term(n, 3))
           f == [n \in 0 .. 15 |-> c(n)]
<1>1. MixColumns(s, mults) = Tuple([n \in 1 .. 16 |-> c(n - 1)])
  BY DEF MixColumns, State, Sum4
<1>2. ASSUME NEW n \in 0 .. 15, NEW k \in 0 .. 3 PROVE term(n, k) \in Byte
  <2> DEFINE m == 4 * Row(n) + k
  <2>1. m \in 0 .. 15
    BY DEF Row
  <2> HIDE DEF m
  <2>2. At(s, m) \in Byte
    BY <2>1, CellsOf
  <2>3. Times(At(s, m), At(mults, (k - Col(n) + 4) % 4)) \in Byte
    BY <2>2, TimesByte
  <2> QED
    BY <2>3 DEF m
<1>3. ASSUME NEW i \in 0 .. 3, NEW j \in 0 .. 3
      PROVE  LET n == 4 * i + j IN n \in 0 .. 15 /\ Row(n) = i /\ Col(n) = j
  BY DEF Row, Col
<1>4. ASSUME NEW i \in 0 .. 3, NEW j \in 0 .. 3
      PROVE  c(4 * i + j) = Sum4(Times(At(s, 4 * i), At(mults, (0 - j + 4) % 4)),
                                 Times(At(s, 4 * i + 1), At(mults, (1 - j + 4) % 4)),
                                 Times(At(s, 4 * i + 2), At(mults, (2 - j + 4) % 4)),
                                 Times(At(s, 4 * i + 3), At(mults, (3 - j + 4) % 4)))
  <2> DEFINE n == 4 * i + j
  <2>1. Row(n) = i /\ Col(n) = j /\ 4 * i + 0 = 4 * i
    BY <1>3
  <2> HIDE DEF n
  <2>2. c(n) = Sum4(Times(At(s, 4 * i), At(mults, (0 - j + 4) % 4)),
                    Times(At(s, 4 * i + 1), At(mults, (1 - j + 4) % 4)),
                    Times(At(s, 4 * i + 2), At(mults, (2 - j + 4) % 4)),
                    Times(At(s, 4 * i + 3), At(mults, (3 - j + 4) % 4)))
    BY <2>1
  <2> QED
    BY <2>2 DEF n
<1>5. \A n \in 0 .. 15 : c(n) \in Byte
  <2> HIDE DEF term
  <2>1. 0 \in 0 .. 3 /\ 1 \in 0 .. 3 /\ 2 \in 0 .. 3 /\ 3 \in 0 .. 3
    OBVIOUS
  <2> QED
    BY <1>2, <2>1, Sum4Byte
<1> HIDE DEF c
<1>6. \A n \in 1 .. 16 : n - 1 \in 0 .. 15
  OBVIOUS
<1>7. [n \in 1 .. 16 |-> c(n - 1)] = [n \in 1 .. 16 |-> f[n - 1]]
  BY <1>6
<1>8. \A n \in 0 .. 15 : f[n] = c(n) /\ f[n] \in Byte
  BY <1>5
<1> HIDE DEF f
<1>9. /\ MixColumns(s, mults) \in Blocks
      /\ \A n \in 0 .. 15 : At(MixColumns(s, mults), n) = c(n)
  BY <1>1, <1>7, <1>8, CellsAre
<1>10. \A i \in 0 .. 3, j \in 0 .. 3 : At(MixColumns(s, mults), 4 * i + j) = c(4 * i + j)
  BY <1>3, <1>9
<1> QED
  BY <1>4, <1>9, <1>10

\* The byte k of a mixed row, its four summands multiplied once more.
LEMMA MixedTwice ==
  ASSUME NEW a \in Byte, NEW b \in Byte, NEW c \in Byte, NEW d \in Byte,
         NEW p0, NEW p1, NEW p2, NEW p3, NEW q
  PROVE  Times(Sum4(Times(a, p0), Times(b, p1), Times(c, p2), Times(d, p3)), q)
         = Sum4(Times(Times(a, p0), q), Times(Times(b, p1), q),
                Times(Times(c, p2), q), Times(Times(d, p3), q))
BY TimesByte, TimesSum4

LEMMA MixColumnsBack ==
  ASSUME NEW s \in Blocks
  PROVE  /\ MixColumns_F(s) \in Blocks /\ MixColumns_R(s) \in Blocks
         /\ MixColumns_R(MixColumns_F(s)) = s
<1> DEFINE t == MixColumns(s, MULTS_F)
           r == MixColumns(t, MULTS_R)
           M(l, k) == At(MULTS_F, (l - k + 4) % 4)
           R(k, j) == At(MULTS_R, (k - j + 4) % 4)
           Mixed(i, k) == Sum4(Times(At(s, 4 * i), M(0, k)), Times(At(s, 4 * i + 1), M(1, k)),
                               Times(At(s, 4 * i + 2), M(2, k)), Times(At(s, 4 * i + 3), M(3, k)))
<1>1. t \in Blocks /\ MixColumns(s, MULTS_R) \in Blocks
  BY MixColumnsIs
<1>2. \A i \in 0 .. 3, k \in 0 .. 3 : At(t, 4 * i + k) = Mixed(i, k)
  BY MixColumnsIs
<1> HIDE DEF t
<1>3. r \in Blocks
  BY <1>1, MixColumnsIs
<1>4. \A i \in 0 .. 3, j \in 0 .. 3 :
        At(r, 4 * i + j) = Sum4(Times(At(t, 4 * i), R(0, j)), Times(At(t, 4 * i + 1), R(1, j)),
                                Times(At(t, 4 * i + 2), R(2, j)), Times(At(t, 4 * i + 3), R(3, j)))
  BY <1>1, MixColumnsIs
<1> HIDE DEF r
<1>5. ASSUME NEW x \in Byte, NEW l \in 0 .. 3, NEW j \in 0 .. 3
      PROVE  Sum4(Times(Times(x, M(l, 0)), R(0, j)), Times(Times(x, M(l, 1)), R(1, j)),
                  Times(Times(x, M(l, 2)), R(2, j)), Times(Times(x, M(l, 3)), R(3, j)))
             = IF l = j THEN x ELSE {}
  BY TablesAssumption DEF Sum4
<1> HIDE DEF M, R
<1>6. ASSUME NEW i \in 0 .. 3, NEW j \in 0 .. 3
      PROVE  At(r, 4 * i + j) = At(s, 4 * i + j)
  <2> DEFINE x0 == At(s, 4 * i)
             x1 == At(s, 4 * i + 1)
             x2 == At(s, 4 * i + 2)
             x3 == At(s, 4 * i + 3)
             U(x, l, k) == Times(Times(x, M(l, k)), R(k, j))
  <2>1. x0 \in Byte /\ x1 \in Byte /\ x2 \in Byte /\ x3 \in Byte
    <3>1. 4 * i \in 0 .. 15 /\ 4 * i + 1 \in 0 .. 15 /\ 4 * i + 2 \in 0 .. 15 /\ 4 * i + 3 \in 0 .. 15
      OBVIOUS
    <3> QED
      BY <3>1, CellsOf
  <2>2. At(t, 4 * i) = Mixed(i, 0) /\ At(t, 4 * i + 1) = Mixed(i, 1)
        /\ At(t, 4 * i + 2) = Mixed(i, 2) /\ At(t, 4 * i + 3) = Mixed(i, 3)
    <3>1. 4 * i + 0 = 4 * i /\ 0 \in 0 .. 3 /\ 1 \in 0 .. 3 /\ 2 \in 0 .. 3 /\ 3 \in 0 .. 3
      OBVIOUS
    <3> HIDE DEF Mixed
    <3> QED
      BY <1>2, <3>1
  <2>3. ASSUME NEW k \in 0 .. 3
        PROVE  Times(Mixed(i, k), R(k, j)) = Sum4(U(x0, 0, k), U(x1, 1, k), U(x2, 2, k), U(x3, 3, k))
    <3> HIDE DEF x0, x1, x2, x3
    <3>1. Mixed(i, k) = Sum4(Times(x0, M(0, k)), Times(x1, M(1, k)), Times(x2, M(2, k)), Times(x3, M(3, k)))
      BY DEF x0, x1, x2, x3
    <3> HIDE DEF Mixed
    <3> QED
      BY <2>1, <3>1, MixedTwice
  <2> HIDE DEF x0, x1, x2, x3, Mixed
  <2>4. At(r, 4 * i + j)
        = Sum4(Sum4(U(x0, 0, 0), U(x1, 1, 0), U(x2, 2, 0), U(x3, 3, 0)),
               Sum4(U(x0, 0, 1), U(x1, 1, 1), U(x2, 2, 1), U(x3, 3, 1)),
               Sum4(U(x0, 0, 2), U(x1, 1, 2), U(x2, 2, 2), U(x3, 3, 2)),
               Sum4(U(x0, 0, 3), U(x1, 1, 3), U(x2, 2, 3), U(x3, 3, 3)))
    <3>1. 0 \in 0 .. 3 /\ 1 \in 0 .. 3 /\ 2 \in 0 .. 3 /\ 3 \in 0 .. 3
      OBVIOUS
    <3> HIDE DEF U
    <3> QED
      BY <1>4, <2>2, <2>3, <3>1
  <2>5. ASSUME NEW x \in Byte, NEW l \in 0 .. 3
        PROVE  Sum4(U(x, l, 0), U(x, l, 1), U(x, l, 2), U(x, l, 3)) = IF l = j THEN x ELSE {}
    BY <1>5
  <2> HIDE DEF U
  <2>6. /\ Sum4(U(x0, 0, 0), U(x0, 0, 1), U(x0, 0, 2), U(x0, 0, 3)) = IF 0 = j THEN x0 ELSE {}
        /\ Sum4(U(x1, 1, 0), U(x1, 1, 1), U(x1, 1, 2), U(x1, 1, 3)) = IF 1 = j THEN x1 ELSE {}
        /\ Sum4(U(x2, 2, 0), U(x2, 2, 1), U(x2, 2, 2), U(x2, 2, 3)) = IF 2 = j THEN x2 ELSE {}
        /\ Sum4(U(x3, 3, 0), U(x3, 3, 1), U(x3, 3, 2), U(x3, 3, 3)) = IF 3 = j THEN x3 ELSE {}
    <3>1. 0 \in 0 .. 3 /\ 1 \in 0 .. 3 /\ 2 \in 0 .. 3 /\ 3 \in 0 .. 3
      OBVIOUS
    <3> QED
      BY <2>1, <2>5, <3>1
  <2>7. At(r, 4 * i + j) = Sum4(IF 0 = j THEN x0 ELSE {}, IF 1 = j THEN x1 ELSE {},
                                IF 2 = j THEN x2 ELSE {}, IF 3 = j THEN x3 ELSE {})
    <3>1. At(r, 4 * i + j)
          = Sum4(Sum4(U(x0, 0, 0), U(x0, 0, 1), U(x0, 0, 2), U(x0, 0, 3)),
                 Sum4(U(x1, 1, 0), U(x1, 1, 1), U(x1, 1, 2), U(x1, 1, 3)),
                 Sum4(U(x2, 2, 0), U(x2, 2, 1), U(x2, 2, 2), U(x2, 2, 3)),
                 Sum4(U(x3, 3, 0), U(x3, 3, 1), U(x3, 3, 2), U(x3, 3, 3)))
      BY <2>4, Transposed
    <3> QED
      BY <2>6, <3>1
  <2>8. CASE j = 0
    <3>1. At(r, 4 * i + j) = Sum4(x0, {}, {}, {})
      BY <2>7, <2>8
    <3>2. At(r, 4 * i + j) = x0
      BY <3>1, OneLeft
    <3> QED
      BY <2>8, <3>2 DEF x0
  <2>9. CASE j = 1
    <3>1. At(r, 4 * i + j) = Sum4({}, x1, {}, {})
      BY <2>7, <2>9
    <3>2. At(r, 4 * i + j) = x1
      BY <3>1, OneLeft
    <3> QED
      BY <2>9, <3>2 DEF x1
  <2>10. CASE j = 2
    <3>1. At(r, 4 * i + j) = Sum4({}, {}, x2, {})
      BY <2>7, <2>10
    <3>2. At(r, 4 * i + j) = x2
      BY <3>1, OneLeft
    <3> QED
      BY <2>10, <3>2 DEF x2
  <2>11. CASE j = 3
    <3>1. At(r, 4 * i + j) = Sum4({}, {}, {}, x3)
      BY <2>7, <2>11
    <3>2. At(r, 4 * i + j) = x3
      BY <3>1, OneLeft
    <3> QED
      BY <2>11, <3>2 DEF x3
  <2> QED
    BY <2>8, <2>9, <2>10, <2>11
<1>7. ASSUME NEW n \in 0 .. 15 PROVE At(r, n) = At(s, n)
  <2> DEFINE i == n \div 4
             j == n % 4
  <2>1. i \in 0 .. 3 /\ j \in 0 .. 3 /\ n = 4 * i + j
    OBVIOUS
  <2> HIDE DEF i, j
  <2> QED
    BY <1>6, <2>1
<1>8. r = s
  BY <1>3, <1>7, SameCells
<1> QED
  BY <1>1, <1>8 DEF t, r, MixColumns_F, MixColumns_R
-----------------------------------------------------------------------------
(***************************************************************************)
(* The rounds.                                                             *)
(***************************************************************************)
\* Whatever the schedule makes of a key, a subkey is 16 bytes.
LEMMA SubkeysAre ==
  ASSUME NEW key
  PROVE  \A i \in 0 .. NUM_ROUNDS : At(ExpandKey(key), i) \in Blocks
<1> DEFINE words == ExpandedWords(key)
           c(r, n) == ByteOf(At(words, 4 * (r - 1) + n \div 4), n % 4)
           f(r) == [n \in 0 .. 15 |-> c(r, n)]
           b(r) == Tuple([n \in 1 .. 16 |-> c(r, n - 1)])
           k == [r \in 1 .. NUM_ROUNDS + 1 |-> b(r)]
<1>1. ExpandKey(key) = Tuple(k)
  BY DEF ExpandKey, State
<1>2. \A r, n : c(r, n) \in Byte
  BY DEF ByteOf, Byte, Word
<1> HIDE DEF c
<1>3. ASSUME NEW r PROVE b(r) \in Blocks
  <2>1. \A n \in 1 .. 16 : n - 1 \in 0 .. 15
    OBVIOUS
  <2>2. [n \in 1 .. 16 |-> c(r, n - 1)] = [n \in 1 .. 16 |-> f(r)[n - 1]]
    BY <2>1
  <2>3. \A n \in 0 .. 15 : f(r)[n] \in Byte
    BY <1>2
  <2> HIDE DEF f
  <2> QED
    BY <2>2, <2>3, CellsAre
<1>4. NUM_ROUNDS + 1 \in Nat
  BY AesAssumption
<1> HIDE DEF b
<1>5. k \in Seq(Blocks) /\ \A r \in 1 .. NUM_ROUNDS + 1 : k[r] \in Blocks
  BY <1>3, <1>4
<1> HIDE DEF k
<1>6. Tuple(k) = k
  BY <1>5, TupleIs
<1>7. \A i \in 0 .. NUM_ROUNDS : i + 1 \in 1 .. NUM_ROUNDS + 1
  BY AesAssumption
<1> QED
  BY <1>1, <1>5, <1>6, <1>7 DEF At

Forward(s, k) == AddRoundKey(MixColumns_F(ShiftRows_F(SubBytes(s, SBOX_F))), k)
Backward(s, k) == SubBytes(ShiftRows_R(MixColumns_R(AddRoundKey(s, k))), SBOX_R)

LEMMA RoundBack ==
  ASSUME NEW s \in Blocks, NEW k \in Blocks
  PROVE  /\ Forward(s, k) \in Blocks /\ Backward(s, k) \in Blocks
         /\ Backward(Forward(s, k), k) = s
<1> DEFINE a == SubBytes(s, SBOX_F)
           b == ShiftRows_F(a)
           c == MixColumns_F(b)
           d == AddRoundKey(c, k)
<1>1. a \in Blocks /\ SubBytes(a, SBOX_R) = s
  BY SubBytesBack
<1> HIDE DEF a
<1>2. b \in Blocks /\ ShiftRows_R(b) = a
  BY <1>1, ShiftRowsBack
<1> HIDE DEF b
<1>3. c \in Blocks /\ MixColumns_R(c) = b
  BY <1>2, MixColumnsBack
<1> HIDE DEF c
<1>4. d \in Blocks /\ AddRoundKey(d, k) = c
  BY <1>3, AddRoundKeyIs, AddRoundKeyTwice
<1>5. Forward(s, k) = d
  BY DEF Forward, a, b, c
<1>6. Backward(d, k) = s
  BY <1>1, <1>2, <1>3, <1>4 DEF Backward
<1>7. Backward(s, k) \in Blocks
  <2>1. AddRoundKey(s, k) \in Blocks
    BY AddRoundKeyIs
  <2>2. MixColumns_R(AddRoundKey(s, k)) \in Blocks
    BY <2>1, MixColumnsBack
  <2>3. ShiftRows_R(MixColumns_R(AddRoundKey(s, k))) \in Blocks
    BY <2>2, ShiftRowsBack
  <2> QED
    BY <2>3, SubBytesBack DEF Backward
<1> QED
  BY <1>4, <1>5, <1>6, <1>7

\* The last round, which does not mix, and the first one of decrypt.
LastRound(s, k) == AddRoundKey(ShiftRows_F(SubBytes(s, SBOX_F)), k)
LastRoundBack(s, k) == SubBytes(ShiftRows_R(AddRoundKey(s, k)), SBOX_R)

LEMMA LastUndone ==
  ASSUME NEW s \in Blocks, NEW k \in Blocks
  PROVE  LastRound(s, k) \in Blocks /\ LastRoundBack(s, k) \in Blocks /\ LastRoundBack(LastRound(s, k), k) = s
<1> DEFINE a == SubBytes(s, SBOX_F)
           b == ShiftRows_F(a)
           d == AddRoundKey(b, k)
<1>1. a \in Blocks /\ SubBytes(a, SBOX_R) = s
  BY SubBytesBack
<1> HIDE DEF a
<1>2. b \in Blocks /\ ShiftRows_R(b) = a
  BY <1>1, ShiftRowsBack
<1> HIDE DEF b
<1>3. d \in Blocks /\ AddRoundKey(d, k) = b
  BY <1>2, AddRoundKeyIs, AddRoundKeyTwice
<1>4. LastRound(s, k) = d
  BY DEF LastRound, a, b
<1>5. LastRoundBack(d, k) = s
  BY <1>1, <1>2, <1>3 DEF LastRoundBack
<1>6. LastRoundBack(s, k) \in Blocks
  <2>1. AddRoundKey(s, k) \in Blocks
    BY AddRoundKeyIs
  <2>2. ShiftRows_R(AddRoundKey(s, k)) \in Blocks
    BY <2>1, ShiftRowsBack
  <2> QED
    BY <2>2, SubBytesBack DEF LastRoundBack
<1> QED
  BY <1>3, <1>4, <1>5, <1>6

LEMMA EncryptIs ==
  ASSUME NEW block \in Blocks, NEW key
  PROVE  \E e : /\ e[0] = block
                /\ \A i \in 1 .. NUM_ROUNDS : e[i] = Forward(e[i - 1], At(ExpandKey(key), i - 1))
                /\ \A i \in 0 .. NUM_ROUNDS : e[i] \in Blocks
                /\ Encrypt(block, key) = LastRound(e[NUM_ROUNDS], At(ExpandKey(key), NUM_ROUNDS))
<1> DEFINE subkeys == ExpandKey(key)
           round(i) == [s \in Blocks |-> Forward(s, At(subkeys, i))]
           D(f) == [i \in 0 .. NUM_ROUNDS |-> IF i = 0 THEN block ELSE round(i - 1)[f[i - 1]]]
           state == CHOOSE f : f = D(f)
           F == [i \in 1 .. NUM_ROUNDS |-> round(i - 1)]
<1>1. Encrypt(block, key) = LastRound(state[NUM_ROUNDS], At(subkeys, NUM_ROUNDS))
  BY DEF Encrypt, Rounds_F, Forward, LastRound
<1>2. \A i \in 0 .. NUM_ROUNDS : At(subkeys, i) \in Blocks
  BY SubkeysAre
<1> HIDE DEF subkeys
<1>3. \A i \in 1 .. NUM_ROUNDS : i - 1 \in 0 .. NUM_ROUNDS /\ i # 0 /\ i \in 0 .. NUM_ROUNDS
  BY AesAssumption
<1>4. \A i \in 1 .. NUM_ROUNDS : \A u \in Blocks : F[i][u] = Forward(u, At(subkeys, i - 1))
  OBVIOUS
<1>5. \A f : D(f) = [i \in 0 .. NUM_ROUNDS |-> IF i = 0 THEN block ELSE F[i][f[i - 1]]]
  BY AesAssumption
<1>6. state = Loop(NUM_ROUNDS, block, F)
  <2> HIDE DEF D, F
  <2> QED
    BY <1>5 DEF Loop
<1> HIDE DEF state, F
<1>7. \A i \in 1 .. NUM_ROUNDS : \A u \in Blocks : F[i][u] \in Blocks
  BY <1>2, <1>3, <1>4, RoundBack
<1>8. /\ Loop(NUM_ROUNDS, block, F)[0] = block
      /\ \A x \in 1 .. NUM_ROUNDS : Loop(NUM_ROUNDS, block, F)[x] = F[x][Loop(NUM_ROUNDS, block, F)[x - 1]]
      /\ \A x \in 0 .. NUM_ROUNDS : Loop(NUM_ROUNDS, block, F)[x] \in Blocks
  BY <1>7, AesAssumption, LoopIs
<1>9. /\ state[0] = block
      /\ \A i \in 1 .. NUM_ROUNDS : state[i] = Forward(state[i - 1], At(subkeys, i - 1))
      /\ \A i \in 0 .. NUM_ROUNDS : state[i] \in Blocks
  BY <1>3, <1>4, <1>6, <1>8
<1> QED
  BY <1>1, <1>9 DEF subkeys

LEMMA DecryptIs ==
  ASSUME NEW block \in Blocks, NEW key
  PROVE  \E d : /\ d[0] = LastRoundBack(block, At(ExpandKey(key), NUM_ROUNDS))
                /\ \A i \in 1 .. NUM_ROUNDS :
                     d[i] = Backward(d[i - 1], At(ExpandKey(key), NUM_ROUNDS - i))
                /\ \A i \in 0 .. NUM_ROUNDS : d[i] \in Blocks
                /\ Decrypt(block, key) = d[NUM_ROUNDS]
<1> DEFINE subkeys == ExpandKey(key)
           first == LastRoundBack(block, At(subkeys, NUM_ROUNDS))
           round(i) == [s \in Blocks |-> Backward(s, At(subkeys, i))]
           D(f) == [i \in 0 .. NUM_ROUNDS |->
                     IF i = 0 THEN first ELSE round(NUM_ROUNDS - i)[f[i - 1]]]
           state == CHOOSE f : f = D(f)
           F == [i \in 1 .. NUM_ROUNDS |-> round(NUM_ROUNDS - i)]
<1>1. Decrypt(block, key) = state[NUM_ROUNDS]
  BY DEF Decrypt, Rounds_R, Backward, LastRoundBack
<1>2. \A i \in 0 .. NUM_ROUNDS : At(subkeys, i) \in Blocks
  BY SubkeysAre
<1> HIDE DEF subkeys
<1>3. /\ \A i \in 1 .. NUM_ROUNDS : i - 1 \in 0 .. NUM_ROUNDS /\ i # 0 /\ NUM_ROUNDS - i \in 0 .. NUM_ROUNDS
      /\ NUM_ROUNDS \in 0 .. NUM_ROUNDS
  BY AesAssumption
<1>4. first \in Blocks
  BY <1>2, <1>3, LastUndone
<1> HIDE DEF first
<1>5. \A i \in 1 .. NUM_ROUNDS : \A u \in Blocks : F[i][u] = Backward(u, At(subkeys, NUM_ROUNDS - i))
  OBVIOUS
<1>6. \A f : D(f) = [i \in 0 .. NUM_ROUNDS |-> IF i = 0 THEN first ELSE F[i][f[i - 1]]]
  BY AesAssumption
<1>7. state = Loop(NUM_ROUNDS, first, F)
  <2> HIDE DEF D, F
  <2> QED
    BY <1>6 DEF Loop
<1> HIDE DEF state, F
<1>8. \A i \in 1 .. NUM_ROUNDS : \A u \in Blocks : F[i][u] \in Blocks
  BY <1>2, <1>3, <1>5, RoundBack
<1>9. /\ Loop(NUM_ROUNDS, first, F)[0] = first
      /\ \A x \in 1 .. NUM_ROUNDS : Loop(NUM_ROUNDS, first, F)[x] = F[x][Loop(NUM_ROUNDS, first, F)[x - 1]]
      /\ \A x \in 0 .. NUM_ROUNDS : Loop(NUM_ROUNDS, first, F)[x] \in Blocks
  BY <1>4, <1>8, AesAssumption, LoopIs
<1>10. /\ state[0] = first
       /\ \A i \in 1 .. NUM_ROUNDS : state[i] = Backward(state[i - 1], At(subkeys, NUM_ROUNDS - i))
       /\ \A i \in 0 .. NUM_ROUNDS : state[i] \in Blocks
  BY <1>3, <1>5, <1>7, <1>9
<1> QED
  BY <1>1, <1>10 DEF first, subkeys

(***************************************************************************)
(* decrypt() undoes encrypt() on every block, under every key and for any  *)
(* number of rounds, though the cipher is not the standard's               *)
(* (aes.cpp:89-137, 167-189).                                              *)
(***************************************************************************)
THEOREM DecryptUndoesEncrypt ==
  ASSUME NEW block \in Blocks, NEW key \in Blocks
  PROVE  /\ Encrypt(block, key) \in Blocks /\ Decrypt(block, key) \in Blocks
         /\ Decrypt(Encrypt(block, key), key) = block
<1> DEFINE subkeys == ExpandKey(key)
           N == NUM_ROUNDS
           c == Encrypt(block, key)
<1>1. \A i \in 0 .. N : At(subkeys, i) \in Blocks
  BY SubkeysAre
<1>2. N \in Nat /\ 0 \in 0 .. N /\ N \in 0 .. N
  BY AesAssumption
<1>3. PICK e : /\ e[0] = block
               /\ \A i \in 1 .. N : e[i] = Forward(e[i - 1], At(subkeys, i - 1))
               /\ \A i \in 0 .. N : e[i] \in Blocks
               /\ c = LastRound(e[N], At(subkeys, N))
  BY EncryptIs
<1>4. c \in Blocks
  BY <1>1, <1>2, <1>3, LastUndone
<1> HIDE DEF c
<1>5. PICK d : /\ d[0] = LastRoundBack(c, At(subkeys, N))
               /\ \A i \in 1 .. N : d[i] = Backward(d[i - 1], At(subkeys, N - i))
               /\ Decrypt(c, key) = d[N]
  BY <1>4, DecryptIs
<1>6. Decrypt(block, key) \in Blocks
  <2>1. PICK f : /\ \A i \in 0 .. N : f[i] \in Blocks
                 /\ Decrypt(block, key) = f[N]
    BY DecryptIs
  <2> QED
    BY <1>2, <2>1
<1> HIDE DEF subkeys, N
<1> DEFINE S == {k \in Nat : k <= N => d[k] = e[N - k]}
<1>7. 0 \in S
  <2>1. d[0] = e[N]
    BY <1>1, <1>2, <1>3, <1>5, LastUndone
  <2>2. N - 0 = N
    BY <1>2
  <2> QED
    BY <2>1, <2>2
<1>8. ASSUME NEW k \in Nat, k \in S PROVE k + 1 \in S
  <2> DEFINE i == k + 1
             m == N - k
  <2> SUFFICES ASSUME i <= N PROVE d[i] = e[N - i]
    OBVIOUS
  <2>1. /\ i \in 1 .. N /\ i - 1 = k /\ m \in 1 .. N /\ m - 1 = N - i /\ k <= N
        /\ N - i \in 0 .. N
    BY <1>2
  <2>2. d[k] = e[m]
    BY <1>8, <2>1
  <2> HIDE DEF i, m
  <2>3. d[i] = Backward(e[m], At(subkeys, N - i))
    BY <1>5, <2>1, <2>2
  <2>4. e[m] = Forward(e[N - i], At(subkeys, N - i))
    BY <1>3, <2>1
  <2> QED
    BY <1>1, <1>3, <2>1, <2>3, <2>4, RoundBack
<1>9. N \in S
  <2>1. Nat \subseteq S
    <3> HIDE DEF S
    <3> QED
      BY <1>7, <1>8, Induct
  <2> QED
    BY <1>2, <2>1
<1>10. d[N] = e[0]
  <2>1. N - N = 0 /\ N <= N
    BY <1>2
  <2> QED
    BY <1>9, <2>1
<1> QED
  BY <1>3, <1>4, <1>5, <1>6, <1>10 DEF c
=============================================================================
